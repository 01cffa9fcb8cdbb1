------------------------------- MODULE Replica -------------------------------
(***************************************************************************)
(* One replica of the service under concurrent requests: the context each  *)
(* request builds for itself from its headers, the schema libraries they   *)
(* all share, and the calls to other services made in their name.          *)
(*                                                                         *)
(* A request runs until it awaits something: the tenant, the task that     *)
(* handles it, the schema service, the storage service.  Between two       *)
(* awaits it is one step; an answer of the schema service is made at one   *)
(* time and arrives later.  Schemas may be revised while requests run, and *)
(* what a schema names as its kind is part of its content.                 *)
(***************************************************************************)
EXTENDS Integers, Sequences, FiniteSets

CONSTANTS
    Requests,    \* requests; the token of a request is the request itself
    Partitions,  \* data partitions
    Kinds,       \* kinds of records
    WellKnown,   \* the kinds of the OSDU authority (osdu:wks in any case)
    Packaged,    \* the kinds whose schema comes with the service
    MaxRev,      \* bound: revisions of schemas
    MaxRecords,  \* bound: records of a request
    None         \* no value

ASSUME KindsAssumption ==
    /\ Packaged \subseteq WellKnown /\ WellKnown \subseteq Kinds
    /\ None \notin Requests \cup Partitions
ASSUME BoundsAssumption == MaxRev \in Nat /\ MaxRecords \in Nat

VARIABLES
    library,  \* library[k]: the cached schema of k, or None
    rev,      \* rev[p][k]: when the schema service last revised k in p, 0 never
    named,    \* named[p][k]: the kind that the schema of k in p names
    lastRev,  \* the revisions made
    ctxVar,   \* ctxVar[r]: the current context in the task of r
    req       \* req[r]: how far r has got

revVars == <<rev, named, lastRev>>
vars == <<library, revVars, ctxVar, req>>

MaybePartition == Partitions \cup {None}
MaybeToken == Requests \cup {None}
Context == [partition : MaybePartition, tenant : MaybePartition, auth : MaybeToken]
EmptyContext == [partition |-> None, tenant |-> None, auth |-> None]

\* A schema: the kind it was asked for, the kind it names, its revision, the
\* partition and the request it was read for (None for the packaged ones).
Schema == [asked : Kinds, source : Kinds, rev : 0..MaxRev,
           partition : MaybePartition, by : MaybeToken]
MaybeSchema == Schema \cup {None}

\* The kinds of the records of a request, in their order.
Records == UNION {[1..n -> Kinds] : n \in 1..MaxRecords}
Revisions == [Partitions -> [Kinds -> 0..MaxRev]]
NeverRevised == [p \in Partitions |-> [k \in Kinds |-> 0]]

\* A request: its headers, the kinds of its records and how many of them are
\* validated, the context its handler was given, the revisions when it began,
\* what its last call carried, the schema on its way and the schema it used
\* last, with the kind.
Stage == {"new", "tenant", "task", "handler", "loading", "loaded", "storing",
          "done"}
Status == {0, 200, 401, 404, 422, 500}
MaybeRecords == Records \cup {<<>>}
MaybeCall == [partition : MaybePartition, token : MaybeToken] \cup {None}
MaybeUse == [kind : Kinds, schema : Schema] \cup {None}
Request ==
    [st : Stage, status : Status, partition : MaybePartition,
     token : MaybeToken, kinds : MaybeRecords, checked : 0..MaxRecords,
     ctx : Context, floor : Revisions, call : MaybeCall,
     got : MaybeSchema, used : MaybeUse]
Fresh ==
    [st |-> "new", status |-> 0, partition |-> None, token |-> None,
     kinds |-> <<>>, checked |-> 0, ctx |-> EmptyContext,
     floor |-> NeverRevised, call |-> None, got |-> None, used |-> None]
-----------------------------------------------------------------------------
(* The context (app.context): a variable of the task, replaced by a copy.  *)

current(r) == ctxVar[r]

\* Mutant: the context is kept in the class, one for all tasks.
SetShared(r, c) == ctxVar' = [t \in Requests |-> c]
set_current(r, c) == ctxVar' = [ctxVar EXCEPT ![r] = c]

Or(new, old) == IF new = None THEN old ELSE new
\* Mutant: the values are assigned the wrong way round.
WithSwapped(c, partition, auth) ==
    [c EXCEPT !.partition = Or(auth, @), !.auth = Or(partition, @)]
\* A copy in which a value that is given replaces the one before.
with_value(c, partition, auth) ==
    [c EXCEPT !.partition = Or(partition, @), !.auth = Or(auth, @)]

Init ==
    /\ library = [k \in Kinds |-> IF k \in Packaged
            THEN [asked |-> k, source |-> k, rev |-> 0, partition |-> None,
                  by |-> None]
            ELSE None]
    /\ rev = NeverRevised /\ lastRev = 0
    /\ named = [p \in Partitions |-> [k \in Kinds |-> k]]
    /\ ctxVar = [r \in Requests |-> EmptyContext]
    /\ req = [r \in Requests |-> Fresh]

At(r, st) == req[r].st = st
Goto(r, st) == req' = [req EXCEPT ![r].st = st]
\* The answer is sent and the context of the task cleared.
Finished(status) == [Fresh EXCEPT !.st = "done", !.status = status]
Finish(r, status) ==
    /\ req' = [req EXCEPT ![r] = Finished(status)]
    /\ set_current(r, EmptyContext)
-----------------------------------------------------------------------------
(* The middleware and the dependencies of a route.                         *)

\* A request arrives; the middleware asks for the tenant of its partition.
dispatch(r, partition, token, kinds) ==
    /\ At(r, "new")
    /\ req' = [req EXCEPT ![r].st = "tenant", ![r].partition = partition,
                          ![r].token = token, ![r].kinds = kinds,
                          ![r].floor = rev]
    /\ UNCHANGED <<library, revVars, ctxVar>>

\* The tenant is known: a new context, and a task for the request.
resolve_tenant(r) ==
    /\ At(r, "tenant")
    /\ set_current(r, [partition |-> req[r].partition,
                       tenant |-> req[r].partition, auth |-> None])
    /\ Goto(r, "task")
    /\ UNCHANGED <<library, revVars>>
\* The partition is unknown: the middleware fails.
resolve_tenant_fails(r) ==
    /\ At(r, "tenant")
    /\ Finish(r, 500)
    /\ UNCHANGED <<library, revVars>>

\* The dependencies of the route in their order: the partition, the token,
\* and then the context that the handler is given.  A request without a
\* token is refused.
require_data_partition_id(r, c) == with_value(c, req[r].partition, None)
require_opendes_authorized_user(r, c) == with_value(c, None, req[r].token)

basic_dependencies(r) ==
    /\ At(r, "task")
    /\ IF req[r].token = None THEN Finish(r, 401)
       ELSE LET c == require_opendes_authorized_user(r,
                        require_data_partition_id(r, current(r))) IN
            /\ set_current(r, c)
            /\ req' = [req EXCEPT ![r].st = "handler", ![r].ctx = c]
    /\ UNCHANGED <<library, revVars>>

\* What a call to another service carries: the partition is an argument, the
\* token is taken from the current context by the middleware of the client.
Carried(r) == [partition |-> req[r].ctx.partition, token |-> current(r).auth]
CallOut(r, st) == req' = [req EXCEPT ![r].st = st, ![r].call = Carried(r)]
-----------------------------------------------------------------------------
(* The schema manager: validate_records, record after record.              *)

NextKind(r) == req[r].kinds[req[r].checked + 1]
More(r) == req[r].checked < Len(req[r].kinds)
_get_known_schema(k) == library[k]

\* The record is valid, and the next one is looked at, or it is not.
Validated(r, k, s) ==
    \/ /\ req' = [req EXCEPT ![r].st = "handler", ![r].checked = @ + 1,
                             ![r].got = None,
                             ![r].used = [kind |-> k, schema |-> s]]
       /\ UNCHANGED ctxVar
    \/ Finish(r, 422)

\* A schema that is in the library is used without an await.
ValidateKnown(r) ==
    /\ At(r, "handler") /\ More(r)
    /\ _get_known_schema(NextKind(r)) # None
    /\ Validated(r, NextKind(r), _get_known_schema(NextKind(r)))
    /\ UNCHANGED <<library, revVars>>

\* One that is not is asked for.
AskSchema(r) ==
    /\ At(r, "handler") /\ More(r)
    /\ _get_known_schema(NextKind(r)) = None
    /\ CallOut(r, "loading")
    /\ UNCHANGED <<library, revVars, ctxVar>>

\* Mutant: every schema that was read is kept.
CachesAll(s) == library' = [library EXCEPT ![s.source] = s]
\* Only the schemas of the OSDU authority are kept, under the kind they name;
\* the one before is replaced.
Caches(s) ==
    library' = IF s.source \in WellKnown
               THEN [library EXCEPT ![s.source] = s] ELSE library

\* The schema service reads the schema; its answer is on its way.
_load_unknown_schema(r) ==
    LET k == NextKind(r)
        p == req[r].ctx.partition IN
    /\ At(r, "loading") /\ p # None
    /\ req' = [req EXCEPT ![r].st = "loaded",
                    ![r].got = [asked |-> k, source |-> named[p][k],
                                rev |-> rev[p][k], partition |-> p, by |-> r]]
    /\ UNCHANGED <<library, revVars, ctxVar>>
\* The answer is there: it may be kept, and it is used.
get_schema(r) ==
    /\ At(r, "loaded")
    /\ Caches(req[r].got)
    /\ Validated(r, NextKind(r), req[r].got)
    /\ UNCHANGED revVars
\* The schema service has no such schema or fails, or the schema has not the
\* form that is expected.
LoadFails(r) ==
    /\ \/ At(r, "loading") /\ \E status \in {404, 500} : Finish(r, status)
       \/ At(r, "loaded") /\ Finish(r, 500)
    /\ UNCHANGED <<library, revVars>>
-----------------------------------------------------------------------------
(* The handler's own call, and its answer.                                 *)

CallStorage(r) ==
    /\ At(r, "handler") /\ ~More(r)
    /\ CallOut(r, "storing")
    /\ UNCHANGED <<library, revVars, ctxVar>>
StorageAnswers(r) ==
    /\ At(r, "storing")
    /\ \E status \in {200, 500} : Finish(r, status)
    /\ UNCHANGED <<library, revVars>>

\* A new revision of a schema in a partition, with the kind it names; the
\* packaged ones are never read.
Revise(p, k, source) ==
    /\ lastRev < MaxRev /\ k \notin Packaged
    /\ lastRev' = lastRev + 1
    /\ rev' = [rev EXCEPT ![p][k] = lastRev']
    /\ named' = [named EXCEPT ![p][k] = source]
    /\ UNCHANGED <<library, ctxVar, req>>

Proceed(r) ==
    \/ resolve_tenant(r) \/ resolve_tenant_fails(r) \/ basic_dependencies(r)
    \/ ValidateKnown(r) \/ AskSchema(r) \/ _load_unknown_schema(r)
    \/ get_schema(r) \/ LoadFails(r) \/ CallStorage(r) \/ StorageAnswers(r)
Next ==
    \/ \E r \in Requests :
        \/ \E partition \in MaybePartition, token \in {r, None}, kinds \in Records :
                dispatch(r, partition, token, kinds)
        \/ Proceed(r)
    \/ \E p \in Partitions, k, source \in Kinds : Revise(p, k, source)

Spec == Init /\ [][Next]_vars
-----------------------------------------------------------------------------
(* What is checked.                                                        *)

\* The variables hold what they are declared to hold.
TypeOK ==
    /\ library \in [Kinds -> MaybeSchema]
    /\ rev \in [Partitions -> [Kinds -> 0..lastRev]] /\ lastRev \in 0..MaxRev
    /\ named \in [Partitions -> [Kinds -> Kinds]]
    /\ ctxVar \in [Requests -> Context]
    /\ req \in [Requests -> Request]

\* Every call made while a request is handled carries the partition and the
\* token of that request, whatever the requests around it do meanwhile.
CallsCarryCaller ==
    \A r \in Requests :
        req[r].call # None => /\ req[r].call.partition = req[r].partition
                              /\ req[r].call.token = r

\* The schema of a kind outside the OSDU authority is read for the request
\* that uses it, in its partition and no older than the request: one partition
\* is never checked against the schemas of another, although the libraries
\* are shared, answers arrive late and a schema may name any kind.  A kind of
\* the authority is checked against a schema that names it, or against the
\* one read for this request.
OwnSchema ==
    \A r \in Requests :
        req[r].used # None =>
            LET k == req[r].used.kind
                s == req[r].used.schema
                read == s.by = r /\ s.asked = k IN
            /\ k \in WellKnown => s.source = k \/ read
            /\ k \notin WellKnown =>
                /\ read
                /\ s.partition = req[r].partition
                /\ s.rev >= req[r].floor[s.partition][k]
=============================================================================
