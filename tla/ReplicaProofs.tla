--------------------------- MODULE ReplicaProofs ---------------------------
(***************************************************************************)
(* Proofs about Replica, for any requests, partitions, kinds and bounds.   *)
(* ReplicaInv relates what a request carries from one await to the next:   *)
(* the context of its task, its headers, the libraries and the revisions.  *)
(***************************************************************************)
EXTENDS Replica, TLAPS

\* A request has called nobody and used no schema before its handler runs.
Unstarted(q) ==
    q.st \in {"new", "tenant", "task"} => q.call = None /\ q.used = None

\* From the handler on, the context c of the task and the one the handler was
\* given are those of the request.
OwnContext(r, q, c) ==
    /\ q.token \in {r, None}
    /\ q.st = "task" => c.partition = q.partition
    /\ q.st \in {"handler", "loading", "loaded", "storing"} =>
        c.auth = r /\ q.ctx.partition = q.partition

\* A schema is asked for only for a record that is still to be validated.
LoadsNext(q) == q.st \in {"loading", "loaded"} => q.checked < Len(q.kinds)

\* Schema s was read for the request q of r, as the schema of kind k.
ReadFor(r, q, k, s) ==
    /\ s.by = r /\ s.asked = k
    /\ s.partition = q.partition
    /\ s.rev >= q.floor[s.partition][k]
\* The schema that arrives is the one that was asked for.
GotOwn(r, q) ==
    q.st = "loaded" =>
        q.got \in Schema /\ ReadFor(r, q, q.kinds[q.checked + 1], q.got)

\* What the schema service had when a request began is never newer than now.
FloorBelow(q, now) ==
    \A p \in Partitions, k \in Kinds : q.floor[p][k] <= now[p][k]

\* The two properties, of one request.
OwnCall(r, q) ==
    q.call # None => q.call.partition = q.partition /\ q.call.token = r
OwnUse(r, q) ==
    q.used # None =>
        LET k == q.used.kind
            s == q.used.schema IN
        /\ k \in WellKnown => s.source = k \/ (s.by = r /\ s.asked = k)
        /\ k \notin WellKnown => ReadFor(r, q, k, s)

\* A request q of r, in a task whose context is c, when the revisions are now.
Local(r, q, c, now) ==
    /\ q \in Request /\ c \in Context
    /\ Unstarted(q) /\ OwnContext(r, q, c) /\ LoadsNext(q) /\ FloorBelow(q, now)
    /\ GotOwn(r, q) /\ OwnCall(r, q) /\ OwnUse(r, q)

\* The libraries hold schemas of the OSDU authority, under the kind they name.
LibrarySound ==
    /\ library \in [Kinds -> MaybeSchema]
    /\ \A k \in Kinds : library[k] # None =>
        library[k].source = k /\ k \in WellKnown

RevisionsTyped ==
    /\ rev \in [Partitions -> [Kinds -> 0..lastRev]] /\ lastRev \in 0..MaxRev
    /\ named \in [Partitions -> [Kinds -> Kinds]]

ReplicaInv ==
    /\ LibrarySound
    /\ RevisionsTyped
    /\ ctxVar \in [Requests -> Context]
    /\ req \in [Requests -> Request]
    /\ \A r \in Requests : Local(r, req[r], ctxVar[r], rev)
-----------------------------------------------------------------------------
(* Steps of one request.                                                   *)

\* A request as it starts and as it ends is typed.
LEMMA FreshTyped ==
    ASSUME NEW status \in {200, 401, 404, 422, 500}
    PROVE  Fresh \in Request /\ Finished(status) \in Request
           /\ EmptyContext \in Context
<1>1. EmptyContext \in Context
  BY DEF EmptyContext, Context, MaybePartition, MaybeToken
<1>2. NeverRevised \in Revisions
  BY BoundsAssumption DEF NeverRevised, Revisions
<1>3. 0 \in 0..MaxRecords
  BY BoundsAssumption
<1>4. Fresh \in Request
  BY <1>1, <1>2, <1>3 DEF Fresh, Request, MaybePartition, MaybeToken,
     Stage, Status, MaybeRecords, MaybeCall, MaybeSchema, MaybeUse
<1>5. [Fresh EXCEPT !.st = "done"] \in Request
  BY <1>4 DEF Request, Stage
<1>6. [[Fresh EXCEPT !.st = "done"] EXCEPT !.status = status] \in Request
  <2>1. ASSUME NEW q \in Request PROVE [q EXCEPT !.status = status] \in Request
    BY DEF Request, Status
  <2> QED BY <1>5, <2>1
<1>7. Finished(status) = [[Fresh EXCEPT !.st = "done"] EXCEPT !.status = status]
  BY DEF Finished
<1> QED
  BY <1>1, <1>4, <1>6, <1>7

\* So it satisfies Local.
LEMMA FreshLocal ==
    ASSUME NEW r \in Requests, RevisionsTyped,
           NEW q \in Request, q.st \in {"new", "done"}, q.call = None,
           q.used = None, q.token = None, q.floor = NeverRevised
    PROVE  Local(r, q, EmptyContext, rev)
<1>1. EmptyContext \in Context
  BY FreshTyped
<1>2. FloorBelow(q, rev)
  BY DEF FloorBelow, RevisionsTyped, NeverRevised
<1>3. Unstarted(q) /\ OwnContext(r, q, EmptyContext) /\ LoadsNext(q)
      /\ GotOwn(r, q) /\ OwnCall(r, q) /\ OwnUse(r, q)
  BY DEF Unstarted, OwnContext, LoadsNext, GotOwn, ReadFor, OwnCall, OwnUse
<1> QED BY <1>1, <1>2, <1>3 DEF Local

\* A step of one request leaves the others as they are.
LEMMA Frame ==
    ASSUME ReplicaInv, NEW r \in Requests, NEW q, NEW c,
           req' = [req EXCEPT ![r] = q], ctxVar' = [ctxVar EXCEPT ![r] = c],
           UNCHANGED revVars, LibrarySound', Local(r, q, c, rev)
    PROVE  ReplicaInv'
<1>1. q \in Request /\ c \in Context
  BY DEF Local
<1>2. req' \in [Requests -> Request] /\ ctxVar' \in [Requests -> Context]
  BY <1>1 DEF ReplicaInv
<1>3. RevisionsTyped' /\ rev' = rev
  BY DEF ReplicaInv, RevisionsTyped, revVars
<1>4. ASSUME NEW t \in Requests PROVE Local(t, req[t], ctxVar[t], rev)'
  <2>1. CASE t = r
    <3>1. req'[t] = q /\ ctxVar'[t] = c
      BY <2>1 DEF ReplicaInv
    <3> QED BY <2>1, <3>1, <1>3 DEF Local, Unstarted, OwnContext, LoadsNext, GotOwn, ReadFor,
               FloorBelow, OwnCall, OwnUse
  <2>2. CASE t # r
    <3>1. req'[t] = req[t] /\ ctxVar'[t] = ctxVar[t]
      BY <2>2 DEF ReplicaInv
    <3>2. Local(t, req[t], ctxVar[t], rev)
      BY DEF ReplicaInv
    <3> QED BY <3>1, <3>2, <1>3 DEF Local, Unstarted, OwnContext, LoadsNext, GotOwn, ReadFor,
               FloorBelow, OwnCall, OwnUse
  <2> QED BY <2>1, <2>2
<1> QED BY <1>2, <1>3, <1>4 DEF ReplicaInv

\* The end of a request preserves the invariant.
LEMMA FinishStep ==
    ASSUME ReplicaInv, NEW r \in Requests,
           NEW status \in {200, 401, 404, 422, 500},
           Finish(r, status), UNCHANGED revVars, LibrarySound'
    PROVE  ReplicaInv'
<1>1. Finished(status) \in Request
  BY FreshTyped
<1>2. /\ Finished(status).st = "done" /\ Finished(status).call = None
      /\ Finished(status).used = None /\ Finished(status).token = None
      /\ Finished(status).floor = NeverRevised
  BY DEF Finished, Fresh
<1>3. Local(r, Finished(status), EmptyContext, rev)
  BY <1>1, <1>2, FreshLocal DEF ReplicaInv
<1> QED
  BY <1>3, Frame DEF Finish, set_current

\* What with_value makes of a context.
LEMMA WithValue ==
    ASSUME NEW c \in Context, NEW partition \in MaybePartition,
           NEW auth \in MaybeToken
    PROVE  /\ with_value(c, partition, auth) =
                [partition |-> Or(partition, c.partition), tenant |-> c.tenant,
                 auth |-> Or(auth, c.auth)]
           /\ with_value(c, partition, auth) \in Context
<1>1. ASSUME NEW p, NEW a, NEW new, new = [c EXCEPT !.partition = p, !.auth = a]
      PROVE  new = [partition |-> p, tenant |-> c.tenant, auth |-> a]
  BY <1>1 DEF Context
<1>2. with_value(c, partition, auth) =
        [c EXCEPT !.partition = Or(partition, c.partition), !.auth = Or(auth, c.auth)]
  BY DEF with_value, Context
<1>3. with_value(c, partition, auth) =
        [partition |-> Or(partition, c.partition), tenant |-> c.tenant,
         auth |-> Or(auth, c.auth)]
  BY <1>1, <1>2
<1>4. Or(partition, c.partition) \in MaybePartition /\ Or(auth, c.auth) \in MaybeToken
      /\ c.tenant \in MaybePartition
  BY DEF Or, Context
<1>5. [partition |-> Or(partition, c.partition), tenant |-> c.tenant,
       auth |-> Or(auth, c.auth)] \in Context
  BY <1>4 DEF Context
<1> QED BY <1>3, <1>5

\* A request arrives.
LEMMA DispatchStep ==
    ASSUME ReplicaInv, NEW r \in Requests, NEW partition \in MaybePartition,
           NEW token \in {r, None}, NEW kinds \in Records,
           dispatch(r, partition, token, kinds)
    PROVE  ReplicaInv'
<1>1. /\ req[r] \in Request /\ ctxVar[r] \in Context /\ req[r].st = "new"
      /\ Local(r, req[r], ctxVar[r], rev)
  BY DEF ReplicaInv, dispatch, At
<1>r. rev \in Revisions
  BY BoundsAssumption DEF ReplicaInv, RevisionsTyped, Revisions
<1>t. token \in MaybeToken
  BY DEF MaybeToken
<1>o. PICK old \in Request : old = req[r]
  BY <1>1
<1>f. PICK floor \in Revisions : floor = rev
  BY <1>r
<1>2. PICK q : q = [old EXCEPT !.st = "tenant", !.partition = partition,
                               !.token = token, !.kinds = kinds, !.floor = floor]
  OBVIOUS
<1>3. /\ q \in Request /\ q.st = "tenant" /\ q.token = token /\ q.floor = rev
      /\ q.call = req[r].call /\ q.used = req[r].used
  <2>1. ASSUME NEW t \in MaybeToken
        PROVE  [old EXCEPT !.st = "tenant", !.partition = partition, !.token = t,
                           !.kinds = kinds, !.floor = floor] \in Request
    <3>1. "tenant" \in Stage /\ kinds \in MaybeRecords
      BY DEF Stage, MaybeRecords
    <3> QED BY <3>1 DEF Request
  <2>2. /\ q.st = "tenant" /\ q.token = token /\ q.floor = floor
        /\ q.call = old.call /\ q.used = old.used
    BY <1>2 DEF Request
  <2> QED BY <1>2, <1>o, <1>f, <1>t, <2>1, <2>2
<1>4. req' = [req EXCEPT ![r] = q] /\ ctxVar' = [ctxVar EXCEPT ![r] = ctxVar[r]]
  BY <1>2, <1>o, <1>f DEF dispatch, ReplicaInv
<1>5. FloorBelow(q, rev)
  <2>1. \A p \in Partitions, k \in Kinds : rev[p][k] \in Int
    BY <1>r, BoundsAssumption DEF Revisions
  <2> QED BY <1>3, <2>1 DEF FloorBelow
<1>6. Local(r, q, ctxVar[r], rev)
  BY <1>1, <1>3, <1>5
  DEF Local, Unstarted, OwnContext, LoadsNext, GotOwn, ReadFor, OwnCall, OwnUse
<1>7. LibrarySound' /\ UNCHANGED revVars
  BY DEF dispatch, ReplicaInv, LibrarySound
<1> QED BY <1>4, <1>6, <1>7, Frame

\* The tenant is resolved.
LEMMA TenantStep ==
    ASSUME ReplicaInv, NEW r \in Requests, resolve_tenant(r)
    PROVE  ReplicaInv'
<1>1. /\ req[r] \in Request /\ req[r].st = "tenant"
      /\ Local(r, req[r], ctxVar[r], rev)
  BY DEF ReplicaInv, resolve_tenant, At
<1>o. PICK old \in Request : old = req[r]
  BY <1>1
<1>2. PICK q : q = [old EXCEPT !.st = "task"]
  OBVIOUS
<1>3. PICK c : c = [partition |-> req[r].partition, tenant |-> req[r].partition,
                    auth |-> None]
  OBVIOUS
<1>4. /\ q \in Request /\ q.st = "task" /\ q.token = req[r].token
      /\ q.floor = req[r].floor /\ q.call = req[r].call /\ q.used = req[r].used
      /\ q.partition = req[r].partition /\ req[r].partition \in MaybePartition
  <2>1. "task" \in Stage
    BY DEF Stage
  <2> QED BY <1>2, <1>o, <2>1 DEF Request
<1>5. c \in Context /\ c.partition = q.partition
  BY <1>1, <1>3, <1>4 DEF Context, MaybeToken
<1>6. req' = [req EXCEPT ![r] = q] /\ ctxVar' = [ctxVar EXCEPT ![r] = c]
  BY <1>2, <1>3, <1>o DEF resolve_tenant, Goto, set_current, ReplicaInv
<1>7. Local(r, q, c, rev)
  BY <1>1, <1>4, <1>5
  DEF Local, Unstarted, OwnContext, LoadsNext, GotOwn, ReadFor, FloorBelow, OwnCall, OwnUse
<1>8. LibrarySound' /\ UNCHANGED revVars
  BY DEF resolve_tenant, ReplicaInv, LibrarySound
<1> QED BY <1>6, <1>7, <1>8, Frame

\* The dependencies of the route.
LEMMA DependenciesStep ==
    ASSUME ReplicaInv, NEW r \in Requests, basic_dependencies(r)
    PROVE  ReplicaInv'
<1>1. /\ req[r] \in Request /\ req[r].st = "task"
      /\ Local(r, req[r], ctxVar[r], rev) /\ ctxVar[r] \in Context
  BY DEF ReplicaInv, basic_dependencies, At
<1>2. LibrarySound' /\ UNCHANGED revVars
  BY DEF basic_dependencies, ReplicaInv, LibrarySound
<1>3. CASE req[r].token = None
  BY <1>2, <1>3, FinishStep DEF basic_dependencies
<1>4. CASE req[r].token # None
  <2>1. req[r].token = r
    BY <1>1, <1>4 DEF Local, OwnContext
  <2>2. PICK c : c = require_opendes_authorized_user(r,
                        require_data_partition_id(r, current(r)))
    OBVIOUS
  <2>o. PICK old \in Request : old = req[r]
    BY <1>1
  <2>3. PICK q : q = [old EXCEPT !.st = "handler", !.ctx = c]
    OBVIOUS
  <2>4. r # None /\ ctxVar[r].partition = req[r].partition
    BY <1>1, KindsAssumption DEF Local, OwnContext
  <2>5. req[r].partition \in MaybePartition /\ r \in MaybeToken
        /\ None \in MaybePartition /\ None \in MaybeToken
    BY <1>1 DEF Request, MaybePartition, MaybeToken
  <2>6. PICK d \in Context : d = require_data_partition_id(r, current(r))
    BY <1>1, <2>5, WithValue DEF require_data_partition_id, current
  <2>7. d = [partition |-> Or(req[r].partition, ctxVar[r].partition),
             tenant |-> ctxVar[r].tenant, auth |-> Or(None, ctxVar[r].auth)]
    BY <1>1, <2>5, <2>6, WithValue DEF require_data_partition_id, current
  <2>12. c = with_value(d, None, r)
    BY <2>1, <2>2, <2>6 DEF require_opendes_authorized_user
  <2>13. c \in Context /\ c = [partition |-> Or(None, d.partition),
                               tenant |-> d.tenant, auth |-> Or(r, d.auth)]
    BY <2>5, <2>12, WithValue
  <2>8. c \in Context /\ c.partition = req[r].partition /\ c.auth = r
    BY <2>4, <2>7, <2>13 DEF Or
  <2>9. /\ q \in Request /\ q.st = "handler" /\ q.token = req[r].token
        /\ q.floor = req[r].floor /\ q.call = req[r].call /\ q.used = req[r].used
        /\ q.partition = req[r].partition /\ q.ctx = c
    <3>1. [old EXCEPT !.st = "handler", !.ctx = c] \in Request
      <4>1. "handler" \in Stage
        BY DEF Stage
      <4> QED BY <4>1, <2>8 DEF Request
    <3>2. /\ q.st = "handler" /\ q.token = old.token
          /\ q.floor = old.floor /\ q.call = old.call /\ q.used = old.used
          /\ q.partition = old.partition /\ q.ctx = c
      BY <2>3 DEF Request
    <3> QED BY <2>3, <2>8, <2>o, <3>1, <3>2
  <2>10. req' = [req EXCEPT ![r] = q] /\ ctxVar' = [ctxVar EXCEPT ![r] = c]
    BY <1>4, <2>2, <2>3, <2>o DEF basic_dependencies, set_current, ReplicaInv
  <2>11. Local(r, q, c, rev)
    BY <1>1, <2>1, <2>8, <2>9
    DEF Local, Unstarted, OwnContext, LoadsNext, GotOwn, ReadFor, FloorBelow, OwnCall, OwnUse
  <2> QED BY <2>10, <2>11, <1>2, Frame
<1> QED BY <1>3, <1>4

\* A call to another service carries the caller's partition and token.
LEMMA CallOutStep ==
    ASSUME ReplicaInv, NEW r \in Requests, NEW st \in {"loading", "storing"},
           At(r, "handler"), st = "loading" => More(r),
           CallOut(r, st), UNCHANGED <<library, revVars, ctxVar>>
    PROVE  ReplicaInv'
<1>1. /\ req[r] \in Request /\ ctxVar[r] \in Context /\ req[r].st = "handler"
      /\ Local(r, req[r], ctxVar[r], rev)
  BY DEF ReplicaInv, At
<1>o. PICK old \in Request : old = req[r]
  BY <1>1
<1>2. PICK call : call = Carried(r)
  OBVIOUS
<1>3. /\ call.partition = req[r].partition /\ call.token = r
      /\ call \in MaybeCall
  <2>1. /\ ctxVar[r].auth = r /\ req[r].ctx.partition = req[r].partition
        /\ req[r].partition \in MaybePartition
    BY <1>1 DEF Local, OwnContext, Request
  <2>2. call = [partition |-> req[r].partition, token |-> r]
    BY <1>2, <2>1 DEF Carried, current
  <2> QED BY <2>1, <2>2 DEF MaybeCall, MaybeToken
<1>4. PICK q : q = [old EXCEPT !.st = st, !.call = call]
  OBVIOUS
<1>5. q \in Request
  <2>1. st \in Stage
    BY DEF Stage
  <2>2. [old EXCEPT !.st = st, !.call = call] \in Request
    BY <1>3, <2>1 DEF Request
  <2> QED BY <1>4, <2>2
<1>6. /\ q.st = st /\ q.token = old.token /\ q.partition = old.partition
      /\ q.floor = old.floor /\ q.call = call /\ q.used = old.used
      /\ q.ctx = old.ctx /\ q.checked = old.checked /\ q.kinds = old.kinds
  BY <1>4 DEF Request
<1>7. req' = [req EXCEPT ![r] = q] /\ ctxVar' = [ctxVar EXCEPT ![r] = ctxVar[r]]
  BY <1>2, <1>4, <1>o DEF CallOut, ReplicaInv
<1>8. LoadsNext(q) /\ GotOwn(r, q)
  BY <1>6, <1>o DEF LoadsNext, GotOwn, More
<1>9. Unstarted(q) /\ OwnContext(r, q, ctxVar[r]) /\ FloorBelow(q, rev)
  BY <1>1, <1>6, <1>o DEF Local, Unstarted, OwnContext, FloorBelow
<1>10. OwnCall(r, q) /\ OwnUse(r, q)
  BY <1>1, <1>3, <1>6, <1>o DEF Local, OwnCall, OwnUse, ReadFor
<1>11. Local(r, q, ctxVar[r], rev)
  BY <1>1, <1>5, <1>8, <1>9, <1>10 DEF Local
<1>12. LibrarySound' /\ UNCHANGED revVars
  BY DEF ReplicaInv, LibrarySound
<1> QED BY <1>7, <1>11, <1>12, Frame

\* A record is validated against a schema that is the request's to use.
LEMMA ValidatedStep ==
    ASSUME ReplicaInv, NEW r \in Requests, NEW k \in Kinds, NEW s \in Schema,
           req[r].st \in {"handler", "loaded"}, More(r), Validated(r, k, s),
           OwnUse(r, [req[r] EXCEPT !.used = [kind |-> k, schema |-> s]]),
           UNCHANGED revVars, LibrarySound'
    PROVE  ReplicaInv'
<1>1. /\ req[r] \in Request /\ ctxVar[r] \in Context
      /\ Local(r, req[r], ctxVar[r], rev)
  BY DEF ReplicaInv
<1>a. CASE Finish(r, 422)
  BY <1>a, FinishStep
<1>b. CASE /\ req' = [req EXCEPT ![r].st = "handler", ![r].checked = @ + 1,
                                 ![r].got = None,
                                 ![r].used = [kind |-> k, schema |-> s]]
           /\ UNCHANGED ctxVar
  <2>o. PICK old \in Request : old = req[r]
    BY <1>1
  <2>1. PICK use \in MaybeUse : use = [kind |-> k, schema |-> s]
    BY DEF MaybeUse
  <2>2. PICK n \in 0..MaxRecords : n = old.checked + 1
    <3>1. old.checked \in 0..MaxRecords /\ old.kinds \in MaybeRecords
          /\ old.checked < Len(old.kinds)
      BY <2>o DEF Request, More
    <3>2. Len(old.kinds) \in 0..MaxRecords
      <4>1. ASSUME old.kinds = <<>> PROVE Len(old.kinds) = 0
        BY <4>1
      <4>2. ASSUME NEW m \in 1..MaxRecords, old.kinds \in [1..m -> Kinds]
            PROVE  Len(old.kinds) = m
        BY <4>2
      <4> QED BY <3>1, <4>1, <4>2, BoundsAssumption DEF MaybeRecords, Records
    <3> QED BY <3>1, <3>2, BoundsAssumption
  <2>3. PICK q : q = [old EXCEPT !.st = "handler", !.checked = n, !.got = None,
                                 !.used = use]
    OBVIOUS
  <2>4. q \in Request
    <3>1. "handler" \in Stage /\ None \in MaybeSchema
      BY DEF Stage, MaybeSchema
    <3>2. [old EXCEPT !.st = "handler", !.checked = n, !.got = None,
                      !.used = use] \in Request
      BY <3>1 DEF Request
    <3> QED BY <2>3, <3>2
  <2>5. /\ q.st = "handler" /\ q.token = old.token /\ q.partition = old.partition
        /\ q.floor = old.floor /\ q.call = old.call /\ q.used = use
        /\ q.ctx = old.ctx
    BY <2>3 DEF Request
  <2>6. req' = [req EXCEPT ![r] = q] /\ ctxVar' = [ctxVar EXCEPT ![r] = ctxVar[r]]
    BY <1>b, <2>1, <2>2, <2>3, <2>o DEF ReplicaInv
  <2>7. OwnUse(r, q)
    BY <1>1, <2>1, <2>5, <2>o DEF OwnUse, ReadFor, Request
  <2>8. Local(r, q, ctxVar[r], rev)
    BY <1>1, <2>4, <2>5, <2>7, <2>o
    DEF Local, Unstarted, OwnContext, LoadsNext, GotOwn, ReadFor, FloorBelow, OwnCall
  <2> QED BY <2>6, <2>8, Frame
<1> QED BY <1>a, <1>b DEF Validated

\* The kind of the next record is a kind.
LEMMA NextKindTyped ==
    ASSUME ReplicaInv, NEW r \in Requests, More(r)
    PROVE  NextKind(r) \in Kinds
<1>1. req[r] \in Request
  BY DEF ReplicaInv
<1>o. PICK old \in Request : old = req[r]
  BY <1>1
<1>2. old.checked \in 0..MaxRecords /\ old.kinds \in MaybeRecords
      /\ old.checked < Len(old.kinds)
  BY <1>o DEF Request, More
<1>3. ASSUME NEW m \in 1..MaxRecords, old.kinds \in [1..m -> Kinds]
      PROVE  old.kinds[old.checked + 1] \in Kinds
  BY <1>2, <1>3, BoundsAssumption
<1>4. old.kinds # <<>>
  BY <1>2
<1> QED BY <1>2, <1>3, <1>4, <1>o DEF MaybeRecords, Records, NextKind

\* A record is validated against a schema of the libraries.
LEMMA KnownStep ==
    ASSUME ReplicaInv, NEW r \in Requests, ValidateKnown(r)
    PROVE  ReplicaInv'
<1>1. PICK k \in Kinds : k = NextKind(r)
  BY NextKindTyped DEF ValidateKnown
<1>2. /\ library[k] \in Schema /\ library[k].source = k
      /\ k \in WellKnown
  BY <1>1 DEF ValidateKnown, _get_known_schema, ReplicaInv, LibrarySound,
              MaybeSchema
<1>3. PICK s \in Schema : s = library[k]
  BY <1>2
<1>4. req[r] \in Request
  BY DEF ReplicaInv
<1>5. OwnUse(r, [req[r] EXCEPT !.used = [kind |-> k, schema |-> s]])
  BY <1>2, <1>3, <1>4 DEF OwnUse, Request
<1>6. Validated(r, k, s) /\ More(r) /\ req[r].st = "handler"
  BY <1>1, <1>3 DEF ValidateKnown, _get_known_schema, At
<1>7. LibrarySound' /\ UNCHANGED revVars
  BY DEF ValidateKnown, ReplicaInv, LibrarySound
<1> QED BY <1>5, <1>6, <1>7, ValidatedStep

\* A schema is read for a request.
LEMMA LoadStep ==
    ASSUME ReplicaInv, NEW r \in Requests, _load_unknown_schema(r)
    PROVE  ReplicaInv'
<1>1. /\ req[r] \in Request /\ req[r].st = "loading" /\ More(r)
      /\ ctxVar[r] \in Context /\ Local(r, req[r], ctxVar[r], rev)
  BY DEF ReplicaInv, _load_unknown_schema, At, Local, LoadsNext, More
<1>o. PICK old \in Request : old = req[r]
  BY <1>1
<1>2. PICK k \in Kinds : k = NextKind(r)
  BY <1>1, NextKindTyped
<1>3. PICK p \in Partitions : p = req[r].ctx.partition
  BY <1>1 DEF _load_unknown_schema, Request, Context, MaybePartition
<1>4. req[r].partition = p
  BY <1>1, <1>3 DEF Local, OwnContext
<1>5. named[p][k] \in Kinds
  BY DEF ReplicaInv, RevisionsTyped
<1>6. /\ rev[p][k] \in 0..MaxRev
      /\ rev[p][k] >= req[r].floor[p][k]
  <2>1. rev[p][k] \in 0..lastRev /\ lastRev \in 0..MaxRev
    BY DEF ReplicaInv, RevisionsTyped
  <2>2. req[r].floor[p][k] \in 0..MaxRev
    BY <1>1 DEF Request, Revisions
  <2>3. req[r].floor[p][k] <= rev[p][k]
    BY <1>1 DEF Local, FloorBelow
  <2> QED BY <2>1, <2>2, <2>3, BoundsAssumption
<1>7. PICK s : s = [asked |-> k, source |-> named[p][k], rev |-> rev[p][k],
                    partition |-> p, by |-> r]
  OBVIOUS
<1>8. s \in Schema /\ s \in MaybeSchema
  BY <1>5, <1>6, <1>7 DEF Schema, MaybeSchema, MaybePartition, MaybeToken
<1>9. PICK q : q = [old EXCEPT !.st = "loaded", !.got = s]
  OBVIOUS
<1>10. q \in Request
  <2>1. "loaded" \in Stage
    BY DEF Stage
  <2>2. [old EXCEPT !.st = "loaded", !.got = s] \in Request
    BY <1>8, <2>1 DEF Request
  <2> QED BY <1>9, <2>2
<1>11. /\ q.st = "loaded" /\ q.token = old.token /\ q.partition = old.partition
       /\ q.floor = old.floor /\ q.call = old.call /\ q.used = old.used
       /\ q.ctx = old.ctx /\ q.checked = old.checked /\ q.kinds = old.kinds
       /\ q.got = s
  BY <1>9 DEF Request
<1>12. req' = [req EXCEPT ![r] = q] /\ ctxVar' = [ctxVar EXCEPT ![r] = ctxVar[r]]
  <2>1. req' = [req EXCEPT ![r] = [old EXCEPT !.st = "loaded", !.got = s]]
    BY <1>2, <1>3, <1>7, <1>o DEF _load_unknown_schema, ReplicaInv
  <2>2. ctxVar' = [ctxVar EXCEPT ![r] = ctxVar[r]]
    BY DEF _load_unknown_schema, ReplicaInv
  <2> QED BY <1>9, <2>1, <2>2
<1>13. GotOwn(r, q)
  <2>1. s.by = r /\ s.asked = k /\ s.partition = p /\ s.rev = rev[p][k]
    BY <1>7
  <2>2. q.kinds[q.checked + 1] = k
    BY <1>2, <1>11, <1>o DEF NextKind
  <2>3. q.partition = p /\ s.rev >= q.floor[p][k]
    BY <1>4, <1>6, <1>11, <1>o, <2>1
  <2>4. ReadFor(r, q, k, s)
    BY <2>1, <2>3 DEF ReadFor
  <2> QED BY <1>8, <1>11, <2>2, <2>4 DEF GotOwn
<1>14. Unstarted(q) /\ OwnContext(r, q, ctxVar[r]) /\ LoadsNext(q)
       /\ FloorBelow(q, rev) /\ OwnCall(r, q) /\ OwnUse(r, q)
  BY <1>1, <1>11, <1>o
  DEF Local, Unstarted, OwnContext, LoadsNext, FloorBelow, OwnCall, OwnUse, ReadFor
<1>15. Local(r, q, ctxVar[r], rev)
  BY <1>1, <1>10, <1>13, <1>14 DEF Local
<1>16. LibrarySound' /\ UNCHANGED revVars
  BY DEF _load_unknown_schema, ReplicaInv, LibrarySound
<1> QED BY <1>12, <1>15, <1>16, Frame

\* The schema arrives, is kept if it names a kind of the authority, and is used.
LEMMA ArriveStep ==
    ASSUME ReplicaInv, NEW r \in Requests, get_schema(r)
    PROVE  ReplicaInv'
<1>1. /\ req[r] \in Request /\ req[r].st = "loaded" /\ More(r)
      /\ Local(r, req[r], ctxVar[r], rev)
  BY DEF ReplicaInv, get_schema, At, Local, LoadsNext, More
<1>2. PICK k \in Kinds : k = NextKind(r)
  BY <1>1, NextKindTyped
<1>3. PICK s \in Schema : s = req[r].got
  BY <1>1 DEF Local, GotOwn
<1>4. ReadFor(r, req[r], k, s)
  BY <1>1, <1>2, <1>3 DEF Local, GotOwn, NextKind
<1>5. Caches(s) /\ Validated(r, k, s) /\ UNCHANGED revVars
  BY <1>2, <1>3 DEF get_schema
<1>6. LibrarySound'
  <2>1. s.source \in Kinds
    BY DEF Schema
  <2>2. CASE s.source \in WellKnown
    <3>1. library' = [library EXCEPT ![s.source] = s]
      BY <1>5, <2>2 DEF Caches
    <3> QED BY <2>1, <2>2, <3>1 DEF ReplicaInv, LibrarySound, MaybeSchema
  <2>3. CASE s.source \notin WellKnown
    BY <1>5, <2>3 DEF Caches, ReplicaInv, LibrarySound
  <2> QED BY <2>2, <2>3
<1>7. OwnUse(r, [req[r] EXCEPT !.used = [kind |-> k, schema |-> s]])
  BY <1>1, <1>4 DEF OwnUse, ReadFor, Request
<1> QED BY <1>1, <1>5, <1>6, <1>7, ValidatedStep

\* Revisions only grow.
LEMMA ReviseStep ==
    ASSUME ReplicaInv, NEW p \in Partitions, NEW k \in Kinds,
           NEW source \in Kinds, Revise(p, k, source)
    PROVE  ReplicaInv'
<1>1. /\ lastRev' = lastRev + 1 /\ lastRev' \in 0..MaxRev
      /\ lastRev \in 0..MaxRev /\ rev \in [Partitions -> [Kinds -> 0..lastRev]]
  BY BoundsAssumption DEF Revise, ReplicaInv, RevisionsTyped
<1>2. ASSUME NEW a \in Partitions, NEW b \in Kinds
      PROVE  /\ rev'[a][b] \in 0..lastRev' /\ rev[a][b] \in Nat
             /\ rev[a][b] <= rev'[a][b]
  <2>1. rev[a][b] \in 0..lastRev
    BY <1>1
  <2>2. rev'[a][b] = IF a = p /\ b = k THEN lastRev' ELSE rev[a][b]
    BY <1>1 DEF Revise
  <2> QED BY <1>1, <2>1, <2>2
<1>3. RevisionsTyped'
  <2>1. rev' \in [Partitions -> [Kinds -> 0..lastRev']]
    <3>1. rev' = [rev EXCEPT ![p] = [rev[p] EXCEPT ![k] = lastRev']]
      BY <1>1 DEF Revise
    <3>2. [rev[p] EXCEPT ![k] = lastRev'] \in [Kinds -> 0..lastRev']
      BY <1>1
    <3>3. \A a \in Partitions : rev[a] \in [Kinds -> 0..lastRev']
      BY <1>1
    <3>4. rev \in [Partitions -> [Kinds -> 0..lastRev']]
      BY <1>1, <3>3
    <3> QED BY <3>1, <3>2, <3>4
  <2>2. named' \in [Partitions -> [Kinds -> Kinds]]
    <3>1. named' = [named EXCEPT ![p] = [named[p] EXCEPT ![k] = source]]
          /\ named \in [Partitions -> [Kinds -> Kinds]]
      BY DEF Revise, ReplicaInv, RevisionsTyped
    <3>2. [named[p] EXCEPT ![k] = source] \in [Kinds -> Kinds]
      BY <3>1
    <3> QED BY <3>1, <3>2
  <2> QED BY <1>1, <2>1, <2>2 DEF RevisionsTyped
<1>4. ASSUME NEW r \in Requests PROVE Local(r, req[r], ctxVar[r], rev)'
  <2>1. Local(r, req[r], ctxVar[r], rev) /\ req'[r] = req[r] /\ ctxVar'[r] = ctxVar[r]
    BY DEF ReplicaInv, Revise
  <2>2. FloorBelow(req[r], rev')
    <3>1. ASSUME NEW a \in Partitions, NEW b \in Kinds
          PROVE  req[r].floor[a][b] <= rev'[a][b]
      <4>1. req[r].floor[a][b] <= rev[a][b]
        BY <2>1 DEF Local, FloorBelow
      <4>2. req[r].floor \in Revisions
        BY <2>1 DEF Local, Request
      <4>3. req[r].floor[a][b] \in 0..MaxRev
        BY <4>2 DEF Revisions
      <4> QED BY <1>1, <1>2, <4>1, <4>3, BoundsAssumption
    <3> QED BY <3>1 DEF FloorBelow
  <2> QED BY <2>1, <2>2
          DEF Local, Unstarted, OwnContext, LoadsNext, GotOwn, ReadFor, FloorBelow, OwnCall, OwnUse
<1> QED BY <1>3, <1>4 DEF ReplicaInv, Revise, LibrarySound
-----------------------------------------------------------------------------
(* The theorems.                                                           *)

\* The initial state.
LEMMA InitInv == Init => ReplicaInv
<1> SUFFICES ASSUME Init PROVE ReplicaInv
  OBVIOUS
<1>1. LibrarySound
  BY KindsAssumption, BoundsAssumption
  DEF Init, LibrarySound, Schema, MaybeSchema, MaybePartition, MaybeToken
<1>2. RevisionsTyped
  BY BoundsAssumption DEF Init, RevisionsTyped, NeverRevised
<1>3. Fresh \in Request /\ EmptyContext \in Context
  BY FreshTyped
<1>4. ASSUME NEW r \in Requests PROVE Local(r, Fresh, EmptyContext, rev)
  <2>1. Fresh.st = "new" /\ Fresh.call = None /\ Fresh.used = None
        /\ Fresh.token = None /\ Fresh.floor = NeverRevised
    BY DEF Fresh
  <2> QED BY <1>2, <1>3, <2>1, FreshLocal
<1> QED BY <1>1, <1>2, <1>3, <1>4 DEF Init, ReplicaInv

\* Every step preserves the invariant.
LEMMA NextInv == ReplicaInv /\ [Next]_vars => ReplicaInv'
<1> SUFFICES ASSUME ReplicaInv, [Next]_vars PROVE ReplicaInv'
  OBVIOUS
<1>1. CASE UNCHANGED vars
  <2>1. UNCHANGED <<library, rev, named, lastRev, ctxVar, req>>
    BY <1>1 DEF vars, revVars
  <2>2. LibrarySound' /\ RevisionsTyped'
    BY <2>1 DEF ReplicaInv, LibrarySound, RevisionsTyped
  <2>3. \A r \in Requests : Local(r, req'[r], ctxVar'[r], rev')
    BY <2>1 DEF ReplicaInv
  <2> QED BY <2>1, <2>2, <2>3 DEF ReplicaInv
<1>2. ASSUME NEW r \in Requests, NEW partition \in MaybePartition,
             NEW token \in {r, None}, NEW kinds \in Records,
             dispatch(r, partition, token, kinds)
      PROVE  ReplicaInv'
  BY <1>2, DispatchStep
<1>3. ASSUME NEW r \in Requests, Proceed(r) PROVE ReplicaInv'
  <2>l. UNCHANGED library => LibrarySound'
    BY DEF ReplicaInv, LibrarySound
  <2>1. CASE resolve_tenant(r)
    BY <2>1, TenantStep
  <2>2. CASE resolve_tenant_fails(r)
    BY <2>2, <2>l, FinishStep DEF resolve_tenant_fails
  <2>3. CASE basic_dependencies(r)
    BY <2>3, DependenciesStep
  <2>4. CASE ValidateKnown(r)
    BY <2>4, KnownStep
  <2>5. CASE AskSchema(r)
    BY <2>5, CallOutStep DEF AskSchema
  <2>6. CASE _load_unknown_schema(r)
    BY <2>6, LoadStep
  <2>10. CASE get_schema(r)
    BY <2>10, ArriveStep
  <2>7. CASE LoadFails(r)
    BY <2>7, <2>l, FinishStep DEF LoadFails
  <2>8. CASE CallStorage(r)
    BY <2>8, CallOutStep DEF CallStorage
  <2>9. CASE StorageAnswers(r)
    BY <2>9, <2>l, FinishStep DEF StorageAnswers
  <2> QED BY <1>3, <2>1, <2>2, <2>3, <2>4, <2>5, <2>6, <2>7, <2>8, <2>9, <2>10
          DEF Proceed
<1>4. ASSUME NEW p \in Partitions, NEW k \in Kinds, NEW source \in Kinds,
             Revise(p, k, source)
      PROVE  ReplicaInv'
  BY <1>4, ReviseStep
<1> QED BY <1>1, <1>2, <1>3, <1>4 DEF Next

\* ReplicaInv is an invariant of the replica: contexts, libraries and
\* revisions stay in step across every await.
THEOREM ReplicaInvariant == Spec => []ReplicaInv
  BY InitInv, NextInv, PTL DEF Spec

\* The variables of a replica keep their types.
THEOREM ReplicaTypeCorrect == Spec => []TypeOK
<1>1. ReplicaInv => TypeOK
  BY DEF ReplicaInv, TypeOK, LibrarySound, RevisionsTyped
<1> QED BY <1>1, ReplicaInvariant, PTL

\* client_middleware: every call carries the partition and the token of the
\* request it is made for.
THEOREM CallsAreTheCallers == Spec => []CallsCarryCaller
<1>1. ReplicaInv => CallsCarryCaller
  BY DEF ReplicaInv, Local, OwnCall, CallsCarryCaller
<1> QED BY <1>1, ReplicaInvariant, PTL

\* SchemaManager: the libraries shared by all partitions never give a request
\* the schema another partition has for a kind of its own.
THEOREM SchemasAreOwn == Spec => []OwnSchema
<1>1. ReplicaInv => OwnSchema
  BY DEF ReplicaInv, Local, OwnUse, ReadFor, OwnSchema
<1> QED BY <1>1, ReplicaInvariant, PTL
=============================================================================
