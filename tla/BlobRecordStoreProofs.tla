----------------------- MODULE BlobRecordStoreProofs -----------------------
(***************************************************************************)
(* Proofs about BlobRecordStore, for any records, requests and bounds.     *)
(* StoreInv says that a version is uploaded once, so that what a deletion  *)
(* has removed and what a read has passed over never comes back.           *)
(***************************************************************************)
EXTENDS BlobRecordStore, TLAPS, WellFoundedInduction

\* The uploads of a creation that run, when the versions in done are stored.
UploadsSound(q, done) ==
    /\ q.uploads \subseteq q.batch
    /\ q.uploads \cap done = {}
    /\ (q.op = "create" /\ q.st = "begun") =>
        q.batch \ q.uploads \subseteq done /\ q.answer = "none"
    /\ (q.op = "create" /\ q.answer = "ok") => q.batch \subseteq done

\* What a deletion has listed was stored, and what it has done is not there.
DeletionSound(q, objs, done) ==
    /\ q.todo \subseteq q.listed
    /\ (q.op = "delete" /\ q.st = "listed") => q.todo # {}
    /\ \A n \in q.listed : [rec |-> q.rec, no |-> n] \in done
    /\ \A n \in q.listed \ q.todo : [rec |-> q.rec, no |-> n] \notin objs

\* What was acknowledged before a read is not newer than what it has found.
ReadSound(q, objs, done) ==
    /\ q.floor \subseteq done
    /\ \A v \in q.floor : v.rec = q.rec
    /\ (q.op = "get" /\ q.st = "listed") =>
        \A v \in q.floor : v.no <= q.no \/ v \notin objs

Local(q, objs, done) ==
    /\ UploadsSound(q, done)
    /\ DeletionSound(q, objs, done)
    /\ ReadSound(q, objs, done)

\* The versions by themselves.
VersionsSound ==
    /\ lastNo \in 0..MaxNo
    /\ loaded \subseteq Version /\ objects \subseteq loaded /\ acked \subseteq loaded
    /\ \A v \in loaded : v.no <= lastNo

\* A version is uploaded by one request, and was given out.
UploadsApart ==
    /\ \A r \in Requests : \A v \in req[r].uploads : v.no <= lastNo
    /\ \A r, t \in Requests : r # t => req[r].uploads \cap req[t].uploads = {}

StoreInv ==
    /\ VersionsSound
    /\ req \in [Requests -> Request]
    /\ UploadsApart
    /\ \A r \in Requests : Local(req[r], objects, loaded)
-----------------------------------------------------------------------------
(* Least and greatest numbers.                                             *)

\* A set of naturals that is not empty has a least element.
LEMMA HasLeast ==
    ASSUME NEW S, S \subseteq Nat, S # {}
    PROVE  Least(S) \in S /\ \A k \in S : Least(S) <= k
<1>1. PICK R : R = OpToRel(<, Nat)
  OBVIOUS
<1>2. \A x, y \in Nat : x < y => <<x, y>> \in R
  BY <1>1 DEF OpToRel
<1>3. IsWellFoundedOn(R, Nat)
  BY <1>1, NatLessThanWellFounded
<1>4. PICK n \in S : \A k \in S : ~(<<k, n>> \in R)
  BY <1>3, WFMin
<1>5. \A k \in S : n <= k
  <2> SUFFICES ASSUME NEW k \in S PROVE n <= k
    OBVIOUS
  <2>1. k \in Nat /\ n \in Nat /\ ~(k < n)
    BY <1>2, <1>4
  <2> QED BY <2>1
<1> QED BY <1>5 DEF Least

\* A set of naturals that is bounded and not empty has a greatest element.
LEMMA HasGreatest ==
    ASSUME NEW N \in Nat, NEW S, S \subseteq 0..N, S # {}
    PROVE  Greatest(S) \in S /\ \A k \in S : k <= Greatest(S)
<1>1. PICK T : T = {N - n : n \in S}
  OBVIOUS
<1>2. T \subseteq Nat /\ T # {}
  <2>1. ASSUME NEW t \in T PROVE t \in Nat
    BY <1>1
  <2> QED BY <1>1, <2>1
<1>3. Least(T) \in T /\ \A k \in T : Least(T) <= k
  BY <1>2, HasLeast
<1>4. PICK n \in S : Least(T) = N - n
  BY <1>1, <1>3
<1>5. \A k \in S : k <= n
  <2> SUFFICES ASSUME NEW k \in S PROVE k <= n
    OBVIOUS
  <2>1. k \in 0..N /\ n \in 0..N /\ N - k \in T
    BY <1>1
  <2>2. N - n <= N - k
    BY <1>3, <1>4, <2>1
  <2> QED BY <2>1, <2>2
<1> QED BY <1>5 DEF Greatest

\* The latest version of a record among those of S is one of them, and none
\* of them is later; 0 when there is none.
LEMMA LatestIsGreatest ==
    ASSUME NEW S, S \subseteq Version, NEW rec \in Records
    PROVE  /\ Latest(S, rec) \in 0..MaxNo
           /\ \A v \in S : v.rec = rec => v.no <= Latest(S, rec)
           /\ Latest(S, rec) # 0 =>
                [rec |-> rec, no |-> Latest(S, rec)] \in S
<1>1. /\ Numbers(S, rec) \subseteq 0..MaxNo
      /\ \A v \in S : v.rec = rec => v.no \in Numbers(S, rec)
      /\ \A n \in Numbers(S, rec) : [rec |-> rec, no |-> n] \in S
  <2>1. \A v \in S : v.rec = rec => v.no \in Numbers(S, rec)
    BY DEF Numbers
  <2>2. ASSUME NEW n \in Numbers(S, rec)
        PROVE  n \in 0..MaxNo /\ [rec |-> rec, no |-> n] \in S
    <3>1. PICK v \in S : v.rec = rec /\ v.no = n
      BY DEF Numbers
    <3>2. v \in Version
      OBVIOUS
    <3>3. v = [rec |-> v.rec, no |-> v.no] /\ v.no \in 1..MaxNo
      BY <3>2 DEF Version
    <3> QED BY <3>1, <3>3, BatchAssumption
  <2> QED BY <2>1, <2>2
<1>2. CASE Numbers(S, rec) = {}
  BY <1>1, <1>2, BatchAssumption DEF Latest
<1>3. CASE Numbers(S, rec) # {}
  <2>1. /\ Greatest(Numbers(S, rec)) \in Numbers(S, rec)
        /\ \A k \in Numbers(S, rec) : k <= Greatest(Numbers(S, rec))
    BY <1>1, <1>3, HasGreatest, BatchAssumption
  <2> QED BY <1>1, <1>3, <2>1 DEF Latest
<1> QED BY <1>2, <1>3
-----------------------------------------------------------------------------
(* Steps of one request.                                                   *)

\* A request stays sound while others store versions that are new and delete.
LEMMA OthersSound ==
    ASSUME NEW q, NEW objs, NEW objs2, NEW done, NEW done2,
           Local(q, objs, done), done \subseteq done2,
           objs2 \cap done \subseteq objs, q.uploads \cap done2 = {}
    PROVE  Local(q, objs2, done2)
<1>1. UploadsSound(q, done2)
  BY DEF Local, UploadsSound
<1>2. DeletionSound(q, objs2, done2)
  BY DEF Local, DeletionSound
<1>3. ReadSound(q, objs2, done2)
  BY DEF Local, ReadSound
<1> QED BY <1>1, <1>2, <1>3 DEF Local

\* A step in which only r goes on, and stores at most what it uploads.
LEMMA Frame ==
    ASSUME StoreInv, NEW r \in Requests, NEW q \in Request,
           req' = [req EXCEPT ![r] = q], VersionsSound',
           lastNo <= lastNo', loaded \subseteq loaded',
           objects' \cap loaded \subseteq objects,
           loaded' \ loaded \subseteq req[r].uploads,
           \A v \in q.uploads : v.no <= lastNo',
           \A v \in q.uploads : v \in req[r].uploads \/ v.no > lastNo,
           Local(q, objects', loaded')
    PROVE  StoreInv'
<1>1. req' \in [Requests -> Request]
  BY DEF StoreInv
<1>2. req'[r] = q /\ \A t \in Requests : t # r => req'[t] = req[t]
  BY DEF StoreInv
<1>n. /\ lastNo \in Int /\ lastNo' \in Int
      /\ \A t \in Requests : \A v \in req[t].uploads : v.no \in Int
  <2>1. \A t \in Requests : req[t].uploads \subseteq Version
    BY DEF StoreInv, Request, Versions
  <2>2. \A v \in Version : v.no \in Int
    BY DEF Version
  <2> QED BY <2>1, <2>2 DEF StoreInv, VersionsSound
<1>3. ASSUME NEW t \in Requests, t # r
      PROVE  /\ \A v \in req[t].uploads : v.no <= lastNo'
             /\ q.uploads \cap req[t].uploads = {}
             /\ Local(req[t], objects', loaded')
  <2>1. \A v \in req[t].uploads : v.no <= lastNo
    BY DEF StoreInv, UploadsApart
  <2>2. req[r].uploads \cap req[t].uploads = {}
    BY <1>3 DEF StoreInv, UploadsApart
  <2>3. \A v \in req[t].uploads : v.no <= lastNo'
    BY <1>n, <2>1
  <2>4. q.uploads \cap req[t].uploads = {}
    BY <1>n, <2>1, <2>2
  <2>5. Local(req[t], objects, loaded)
    BY DEF StoreInv
  <2>6. req[t].uploads \cap loaded' = {}
    BY <2>2, <2>5 DEF Local, UploadsSound
  <2> QED BY <2>3, <2>4, <2>5, <2>6, OthersSound
<1>4. UploadsApart'
  <2>1. \A t \in Requests : \A v \in req'[t].uploads : v.no <= lastNo'
    BY <1>2, <1>3
  <2>2. ASSUME NEW t \in Requests, NEW u \in Requests, t # u
        PROVE  req'[t].uploads \cap req'[u].uploads = {}
    <3>1. CASE t = r
      BY <1>2, <1>3, <2>2, <3>1
    <3>2. CASE u = r
      BY <1>2, <1>3, <2>2, <3>2
    <3>3. CASE t # r /\ u # r
      BY <1>2, <2>2, <3>3 DEF StoreInv, UploadsApart
    <3> QED BY <3>1, <3>2, <3>3
  <2> QED BY <2>1, <2>2 DEF UploadsApart
<1>5. \A t \in Requests : Local(req'[t], objects', loaded')
  BY <1>2, <1>3
<1> QED BY <1>1, <1>4, <1>5 DEF StoreInv

\* A step in which r goes on and the versions stay as they are.
LEMMA StillFrame ==
    ASSUME StoreInv, NEW r \in Requests, NEW q \in Request,
           req' = [req EXCEPT ![r] = q], UNCHANGED <<objects, lastNo, acked, loaded>>,
           q.uploads \subseteq req[r].uploads, Local(q, objects, loaded)
    PROVE  StoreInv'
<1>1. VersionsSound'
  BY DEF StoreInv, VersionsSound
<1>2. \A v \in q.uploads : v.no <= lastNo'
  BY DEF StoreInv, UploadsApart
<1>3. lastNo <= lastNo'
  BY DEF StoreInv, VersionsSound
<1> QED BY <1>1, <1>2, <1>3, Frame

\* A request that ends keeps the rest of its values.
LEMMA FinishStep ==
    ASSUME StoreInv, NEW r \in Requests, NEW answer \in Answer,
           Finish(r, answer), UNCHANGED <<objects, lastNo, acked, loaded>>,
           req[r].op = "create" => answer # "ok"
    PROVE  StoreInv'
<1>1. req[r] \in Request /\ Local(req[r], objects, loaded)
  BY DEF StoreInv
<1>o. PICK old \in Request : old = req[r]
  BY <1>1
<1>2. PICK q : q = [old EXCEPT !.st = "done", !.answer = answer]
  OBVIOUS
<1>3. q \in Request
  <2>1. "done" \in Stage
    BY DEF Stage
  <2>2. [old EXCEPT !.st = "done", !.answer = answer] \in Request
    BY <2>1 DEF Request
  <2> QED BY <1>2, <2>2
<1>4. /\ q.op = old.op /\ q.st = "done" /\ q.answer = answer /\ q.rec = old.rec
      /\ q.batch = old.batch /\ q.uploads = old.uploads /\ q.listed = old.listed
      /\ q.todo = old.todo /\ q.no = old.no /\ q.floor = old.floor
  BY <1>2 DEF Request
<1>5. UploadsSound(q, loaded)
  BY <1>1, <1>4, <1>o DEF Local, UploadsSound
<1>6. DeletionSound(q, objects, loaded)
  BY <1>1, <1>4, <1>o DEF Local, DeletionSound
<1>7. ReadSound(q, objects, loaded)
  BY <1>1, <1>4, <1>o DEF Local, ReadSound
<1>8. req' = [req EXCEPT ![r] = q]
  BY <1>2, <1>o DEF Finish, StoreInv
<1> QED BY <1>3, <1>4, <1>5, <1>6, <1>7, <1>8, <1>o, StillFrame DEF Local

\* A request before it begins is typed.
LEMMA IdleTyped == Idle \in Request
<1>1. 0 \in 0..MaxNo
  BY BatchAssumption
<1> QED
  BY <1>1 DEF Idle, Request, Op, Stage, Answer, MaybeRecord, Versions, NumberSets

\* A read or a deletion begins.
LEMMA StartStep ==
    ASSUME StoreInv, NEW r \in Requests, NEW q \in Request, Start(r, q),
           UNCHANGED <<objects, lastNo, acked, loaded>>,
           q.batch = {}, q.uploads = {}, q.listed = {}, q.todo = {},
           q.op # "create", ~(q.op = "delete" /\ q.st = "listed"),
           ~(q.op = "get" /\ q.st = "listed"),
           q.floor \subseteq acked, \A v \in q.floor : v.rec = q.rec
    PROVE  StoreInv'
<1>1. acked \subseteq loaded
  BY DEF StoreInv, VersionsSound
<1>2. UploadsSound(q, loaded) /\ DeletionSound(q, objects, loaded)
  BY DEF UploadsSound, DeletionSound
<1>3. ReadSound(q, objects, loaded)
  BY <1>1 DEF ReadSound
<1> QED BY <1>2, <1>3, StillFrame DEF Local, Start

\* The three ways to begin.
LEMMA BeginStep ==
    ASSUME StoreInv, NEW r \in Requests, NEW rec \in Records, NEW no \in 0..MaxNo,
           BeginGet(r, rec) \/ BeginDelete(r, rec) \/ BeginGetVersion(r, rec, no)
    PROVE  StoreInv'
<1>o. PICK old \in Request : old = Idle
  BY IdleTyped
<1>1. /\ old.batch = {} /\ old.uploads = {} /\ old.listed = {} /\ old.todo = {}
      /\ old.floor = {}
  BY <1>o DEF Idle
<1>2. /\ "get" \in Op /\ "delete" \in Op /\ "version" \in Op /\ "begun" \in Stage
      /\ "listed" \in Stage /\ rec \in MaybeRecord
  BY DEF Op, Stage, MaybeRecord
<1>3. PICK floor \in Versions : floor = {v \in acked : v.rec = rec}
  BY DEF StoreInv, VersionsSound, Versions
<1>4. PICK g : g = [old EXCEPT !.op = "get", !.st = "begun", !.rec = rec,
                              !.floor = floor]
  OBVIOUS
<1>5. g \in Request
  <2>1. [old EXCEPT !.op = "get", !.st = "begun", !.rec = rec, !.floor = floor]
            \in Request
    BY <1>2 DEF Request
  <2> QED BY <1>4, <2>1
<1>6. /\ g.op = "get" /\ g.st = "begun" /\ g.rec = rec /\ g.floor = floor
      /\ g.batch = old.batch /\ g.uploads = old.uploads
      /\ g.listed = old.listed /\ g.todo = old.todo
  BY <1>4 DEF Request
<1>7. ASSUME Start(r, g), UNCHANGED <<objects, lastNo, acked, loaded>>
      PROVE  StoreInv'
  BY <1>1, <1>3, <1>5, <1>6, <1>7, StartStep
<1>8. CASE BeginGet(r, rec)
  BY <1>3, <1>4, <1>7, <1>8, <1>o DEF BeginGet
<1>9. CASE BeginDelete(r, rec)
  <2>1. PICK q : q = [old EXCEPT !.op = "delete", !.st = "begun", !.rec = rec]
    OBVIOUS
  <2>2. q \in Request
    <3>1. [old EXCEPT !.op = "delete", !.st = "begun", !.rec = rec] \in Request
      BY <1>2 DEF Request
    <3> QED BY <2>1, <3>1
  <2>3. /\ q.op = "delete" /\ q.st = "begun" /\ q.rec = rec
        /\ q.floor = old.floor /\ q.batch = old.batch
        /\ q.uploads = old.uploads /\ q.listed = old.listed /\ q.todo = old.todo
    BY <2>1 DEF Request
  <2>4. Start(r, q) /\ UNCHANGED <<objects, lastNo, acked, loaded>>
    BY <1>9, <2>1, <1>o DEF BeginDelete
  <2> QED BY <1>1, <2>2, <2>3, <2>4, StartStep
<1>10. CASE BeginGetVersion(r, rec, no) /\ no = 0
  BY <1>3, <1>4, <1>7, <1>10, <1>o DEF BeginGetVersion
<1>11. CASE BeginGetVersion(r, rec, no) /\ no # 0
  <2>1. PICK q : q = [old EXCEPT !.op = "version", !.st = "listed", !.rec = rec,
                                 !.no = no]
    OBVIOUS
  <2>2. q \in Request
    <3>1. [old EXCEPT !.op = "version", !.st = "listed", !.rec = rec, !.no = no]
            \in Request
      BY <1>2 DEF Request
    <3> QED BY <2>1, <3>1
  <2>3. /\ q.op = "version" /\ q.st = "listed" /\ q.rec = rec
        /\ q.floor = old.floor /\ q.batch = old.batch
        /\ q.uploads = old.uploads /\ q.listed = old.listed /\ q.todo = old.todo
    BY <2>1 DEF Request
  <2>4. Start(r, q) /\ UNCHANGED <<objects, lastNo, acked, loaded>>
    BY <1>11, <2>1, <1>o DEF BeginGetVersion
  <2> QED BY <1>1, <2>2, <2>3, <2>4, StartStep
<1> QED BY <1>8, <1>9, <1>10, <1>11

\* A creation takes new numbers for its batch.
LEMMA CreateStep ==
    ASSUME StoreInv, NEW r \in Requests, NEW recs \in Batches,
           create_or_update_records(r, recs)
    PROVE  StoreInv'
<1>1. PICK n \in 1..MaxBatch : recs \in [1..n -> Records]
  BY DEF Batches
<1>2. Len(recs) = n /\ n \in Nat /\ n >= 1
  BY <1>1, BatchAssumption
<1>3. lastNo \in 0..MaxNo /\ lastNo' = lastNo + n /\ lastNo' <= MaxNo
  BY <1>2 DEF create_or_update_records, StoreInv, VersionsSound
<1>4. PICK b : b = BatchOf(recs)
  OBVIOUS
<1>5. \A v \in b : v \in Version /\ v.no > lastNo /\ v.no <= lastNo'
  <2> SUFFICES ASSUME NEW v \in b
               PROVE  v \in Version /\ v.no > lastNo /\ v.no <= lastNo'
    OBVIOUS
  <2>1. PICK i \in 1..n : v = [rec |-> recs[i], no |-> lastNo + i]
    BY <1>2, <1>4 DEF BatchOf
  <2>2. recs[i] \in Records /\ lastNo + i \in 1..MaxNo
    BY <1>1, <1>2, <1>3, BatchAssumption
  <2> QED BY <1>2, <1>3, <2>1, <2>2, BatchAssumption DEF Version
<1>6. b \in Versions
  BY <1>5 DEF Versions
<1>7. b \cap loaded = {}
  <2>1. ASSUME NEW v \in b, v \in loaded PROVE FALSE
    <3>1. v.no <= lastNo /\ v \in Version
      BY <2>1 DEF StoreInv, VersionsSound
    <3>2. v.no \in Int /\ v.no > lastNo
      BY <1>5, <3>1 DEF Version
    <3> QED BY <1>3, <3>1, <3>2
  <2> QED BY <2>1
<1>o. PICK old \in Request : old = Idle
  BY IdleTyped
<1>8. old.listed = {} /\ old.todo = {} /\ old.floor = {} /\ old.answer = "none"
  BY <1>o DEF Idle
<1>9. PICK q : q = [old EXCEPT !.op = "create", !.st = "begun", !.batch = b,
                               !.uploads = b]
  OBVIOUS
<1>10. q \in Request
  <2>1. "create" \in Op /\ "begun" \in Stage
    BY DEF Op, Stage
  <2>2. [old EXCEPT !.op = "create", !.st = "begun", !.batch = b, !.uploads = b]
            \in Request
    BY <1>6, <2>1 DEF Request
  <2> QED BY <1>9, <2>2
<1>11. /\ q.op = "create" /\ q.st = "begun" /\ q.batch = b /\ q.uploads = b
       /\ q.listed = old.listed /\ q.todo = old.todo /\ q.floor = old.floor
       /\ q.answer = old.answer
  BY <1>9 DEF Request
<1>12. req' = [req EXCEPT ![r] = q] /\ UNCHANGED <<objects, acked, loaded>>
  BY <1>4, <1>9, <1>o DEF create_or_update_records, Start
<1>13. Local(q, objects', loaded')
  <2>1. UploadsSound(q, loaded)
    BY <1>7, <1>8, <1>11 DEF UploadsSound
  <2>2. DeletionSound(q, objects, loaded) /\ ReadSound(q, objects, loaded)
    BY <1>8, <1>11 DEF DeletionSound, ReadSound
  <2> QED BY <1>12, <2>1, <2>2 DEF Local
<1>14. VersionsSound'
  <2>1. \A v \in loaded : v.no <= lastNo'
    <3> SUFFICES ASSUME NEW v \in loaded PROVE v.no <= lastNo'
      OBVIOUS
    <3>1. v.no <= lastNo /\ v \in Version
      BY DEF StoreInv, VersionsSound
    <3>2. v.no \in Int
      BY <3>1 DEF Version
    <3> QED BY <1>2, <1>3, <3>1, <3>2
  <2>2. lastNo' \in 0..MaxNo
    BY <1>2, <1>3, BatchAssumption
  <2> QED BY <1>12, <2>1, <2>2 DEF StoreInv, VersionsSound
<1>15. lastNo <= lastNo' /\ \A v \in q.uploads : v.no <= lastNo' /\ v.no > lastNo
  BY <1>2, <1>3, <1>5, <1>11
<1> QED BY <1>10, <1>12, <1>13, <1>14, <1>15, Frame

\* An upload that is stored adds a version that was not stored before.
LEMMA StoredVersions ==
    ASSUME StoreInv, NEW r \in Requests, NEW v \in req[r].uploads,
           \/ UNCHANGED <<objects, loaded>>
           \/ objects' = objects \cup {v} /\ loaded' = loaded \cup {v},
           UNCHANGED <<lastNo, acked>>
    PROVE  /\ VersionsSound' /\ lastNo <= lastNo' /\ loaded \subseteq loaded'
           /\ objects' \cap loaded \subseteq objects
           /\ loaded' \ loaded \subseteq {v}
           /\ \A w \in req[r].uploads : w.no <= lastNo'
<1>1. v \notin loaded
  BY DEF StoreInv, Local, UploadsSound
<1>2. v \in Version /\ \A w \in req[r].uploads : w.no <= lastNo
  BY DEF StoreInv, UploadsApart, Request, Versions
<1>3. lastNo <= lastNo'
  BY DEF StoreInv, VersionsSound
<1>4. VersionsSound'
  BY <1>2 DEF StoreInv, VersionsSound
<1> QED BY <1>1, <1>2, <1>3, <1>4

\* An upload comes back with success.
LEMMA UploadStep ==
    ASSUME StoreInv, NEW r \in Requests, req[r].op = "create",
           NEW v \in req[r].uploads, Upload(r, v)
    PROVE  StoreInv'
<1>1. req[r] \in Request /\ Local(req[r], objects, loaded)
  BY DEF StoreInv
<1>o. PICK old \in Request : old = req[r]
  BY <1>1
<1>2. PICK u \in Versions : u = old.uploads \ {v}
  BY DEF Request, Versions
<1>3. PICK q : q = [old EXCEPT !.uploads = u]
  OBVIOUS
<1>4. q \in Request
  <2>1. [old EXCEPT !.uploads = u] \in Request
    BY DEF Request
  <2> QED BY <1>3, <2>1
<1>5. /\ q.op = old.op /\ q.st = old.st /\ q.answer = old.answer
      /\ q.rec = old.rec /\ q.batch = old.batch /\ q.uploads = u
      /\ q.listed = old.listed /\ q.todo = old.todo /\ q.no = old.no
      /\ q.floor = old.floor
  BY <1>3 DEF Request
<1>6. req' = [req EXCEPT ![r] = q]
  BY <1>2, <1>3, <1>o DEF Upload, StoreInv
<1>7. objects' = objects \cup {v} /\ loaded' = loaded \cup {v}
      /\ UNCHANGED <<lastNo, acked>>
  BY DEF Upload
<1>8. /\ VersionsSound' /\ lastNo <= lastNo' /\ loaded \subseteq loaded'
      /\ objects' \cap loaded \subseteq objects
      /\ loaded' \ loaded \subseteq {v}
      /\ \A w \in req[r].uploads : w.no <= lastNo'
  BY <1>7, StoredVersions
<1>9. UploadsSound(q, loaded')
  BY <1>1, <1>2, <1>5, <1>7, <1>o DEF Local, UploadsSound
<1>10. DeletionSound(q, objects', loaded')
  BY <1>1, <1>5, <1>8, <1>o DEF Local, DeletionSound
<1>11. ReadSound(q, objects', loaded')
  BY <1>1, <1>5, <1>8, <1>o DEF Local, ReadSound
<1>12. q.uploads \subseteq req[r].uploads
  BY <1>2, <1>5, <1>o
<1> QED BY <1>4, <1>6, <1>8, <1>9, <1>10, <1>11, <1>12, Frame DEF Local

\* An upload fails, with or without effect.
LEMMA UploadFailsStep ==
    ASSUME StoreInv, NEW r \in Requests, req[r].op = "create",
           NEW v \in req[r].uploads, UploadFails(r, v)
    PROVE  StoreInv'
<1>1. req[r] \in Request /\ Local(req[r], objects, loaded)
  BY DEF StoreInv
<1>o. PICK old \in Request : old = req[r]
  BY <1>1
<1>2. PICK u \in Versions : u = old.uploads \ {v}
  BY DEF Request, Versions
<1>3. PICK q : q = [old EXCEPT !.uploads = u, !.st = "done", !.answer = "error"]
  OBVIOUS
<1>4. q \in Request
  <2>1. "done" \in Stage /\ "error" \in Answer
    BY DEF Stage, Answer
  <2>2. [old EXCEPT !.uploads = u, !.st = "done", !.answer = "error"] \in Request
    BY <2>1 DEF Request
  <2> QED BY <1>3, <2>2
<1>5. /\ q.op = old.op /\ q.st = "done" /\ q.answer = "error"
      /\ q.rec = old.rec /\ q.batch = old.batch /\ q.uploads = u
      /\ q.listed = old.listed /\ q.todo = old.todo /\ q.no = old.no
      /\ q.floor = old.floor
  BY <1>3 DEF Request
<1>6. req' = [req EXCEPT ![r] = q]
  BY <1>2, <1>3, <1>o DEF UploadFails, StoreInv
<1>7. /\ \/ UNCHANGED <<objects, loaded>>
         \/ objects' = objects \cup {v} /\ loaded' = loaded \cup {v}
      /\ UNCHANGED <<lastNo, acked>>
  BY DEF UploadFails
<1>8. /\ VersionsSound' /\ lastNo <= lastNo' /\ loaded \subseteq loaded'
      /\ objects' \cap loaded \subseteq objects
      /\ loaded' \ loaded \subseteq {v}
      /\ \A w \in req[r].uploads : w.no <= lastNo'
  BY <1>7, StoredVersions
<1>9. UploadsSound(q, loaded')
  BY <1>1, <1>2, <1>5, <1>8, <1>o DEF Local, UploadsSound
<1>10. DeletionSound(q, objects', loaded')
  BY <1>1, <1>5, <1>8, <1>o DEF Local, DeletionSound
<1>11. ReadSound(q, objects', loaded')
  BY <1>1, <1>5, <1>8, <1>o DEF Local, ReadSound
<1>12. q.uploads \subseteq req[r].uploads
  BY <1>2, <1>5, <1>o
<1> QED BY <1>4, <1>6, <1>8, <1>9, <1>10, <1>11, <1>12, Frame DEF Local

\* All uploads came back.
LEMMA CreatedStep ==
    ASSUME StoreInv, NEW r \in Requests, Created(r)
    PROVE  StoreInv'
<1>1. /\ req[r] \in Request /\ Local(req[r], objects, loaded)
      /\ req[r].op = "create" /\ req[r].st = "begun" /\ req[r].uploads = {}
  BY DEF StoreInv, Created
<1>2. req[r].batch \subseteq loaded
  BY <1>1 DEF Local, UploadsSound
<1>o. PICK old \in Request : old = req[r]
  BY <1>1
<1>3. PICK q : q = [old EXCEPT !.st = "done", !.answer = "ok"]
  OBVIOUS
<1>4. q \in Request
  <2>1. "done" \in Stage /\ "ok" \in Answer
    BY DEF Stage, Answer
  <2>2. [old EXCEPT !.st = "done", !.answer = "ok"] \in Request
    BY <2>1 DEF Request
  <2> QED BY <1>3, <2>2
<1>5. /\ q.op = old.op /\ q.st = "done" /\ q.rec = old.rec
      /\ q.batch = old.batch /\ q.uploads = old.uploads
      /\ q.listed = old.listed /\ q.todo = old.todo /\ q.no = old.no
      /\ q.floor = old.floor
  BY <1>3 DEF Request
<1>6. req' = [req EXCEPT ![r] = q]
  BY <1>3, <1>o DEF Created, Finish, StoreInv
<1>7. UNCHANGED <<objects, lastNo, loaded>> /\ acked' = acked \cup req[r].batch
  BY DEF Created
<1>8. VersionsSound' /\ lastNo <= lastNo'
  BY <1>2, <1>7 DEF StoreInv, VersionsSound
<1>9. Local(q, objects', loaded')
  <2>1. UploadsSound(q, loaded)
    BY <1>1, <1>2, <1>5, <1>o DEF UploadsSound
  <2>2. DeletionSound(q, objects, loaded) /\ ReadSound(q, objects, loaded)
    BY <1>1, <1>5, <1>o DEF Local, DeletionSound, ReadSound
  <2> QED BY <1>7, <2>1, <2>2 DEF Local
<1>10. q.uploads = {}
  BY <1>1, <1>5, <1>o
<1> QED BY <1>4, <1>6, <1>7, <1>8, <1>9, <1>10, Frame

\* The latest object of a record is found.
LEMMA FindStep ==
    ASSUME StoreInv, NEW r \in Requests, FindObject(r)
    PROVE  StoreInv'
<1>1. /\ req[r] \in Request /\ Local(req[r], objects, loaded)
      /\ req[r].op = "get" /\ req[r].st = "begun"
      /\ UNCHANGED <<objects, lastNo, acked, loaded>>
  BY DEF StoreInv, FindObject
<1>2. PICK n : n = build_record_path(req[r].rec)
  OBVIOUS
<1>3. CASE n = 0
  <2>1. Finish(r, "notfound") /\ "notfound" \in Answer
    BY <1>2, <1>3 DEF FindObject, Answer
  <2> QED BY <1>1, <2>1, FinishStep
<1>4. CASE n # 0
  <2>o. PICK old \in Request : old = req[r]
    BY <1>1
  <2>1. PICK q : q = [old EXCEPT !.st = "listed", !.no = n]
    OBVIOUS
  <2>2. n \in 0..MaxNo /\ \A v \in objects : v.rec = old.rec => v.no <= n
    <3>1. objects \subseteq Version
      BY DEF StoreInv, VersionsSound
    <3>2. CASE old.rec \in Records
      BY <1>2, <2>o, <3>1, <3>2, LatestIsGreatest DEF build_record_path
    <3>3. CASE old.rec \notin Records
      <4>1. Numbers(objects, old.rec) = {}
        BY <3>1, <3>3 DEF Numbers, Version
      <4> QED BY <1>2, <1>4, <2>o, <4>1 DEF build_record_path, Latest
    <3> QED BY <3>2, <3>3
  <2>3. q \in Request
    <3>1. "listed" \in Stage
      BY DEF Stage
    <3>2. [old EXCEPT !.st = "listed", !.no = n] \in Request
      BY <2>2, <3>1 DEF Request
    <3> QED BY <2>1, <3>2
  <2>4. /\ q.op = old.op /\ q.st = "listed" /\ q.answer = old.answer
        /\ q.rec = old.rec /\ q.batch = old.batch /\ q.uploads = old.uploads
        /\ q.listed = old.listed /\ q.todo = old.todo /\ q.no = n
        /\ q.floor = old.floor
    BY <2>1 DEF Request
  <2>5. req' = [req EXCEPT ![r] = q]
    BY <1>2, <1>4, <2>1, <2>o DEF FindObject, StoreInv
  <2>6. UploadsSound(q, loaded) /\ DeletionSound(q, objects, loaded)
    BY <1>1, <2>4, <2>o DEF Local, UploadsSound, DeletionSound
  <2>7. ReadSound(q, objects, loaded)
    BY <1>1, <2>2, <2>4, <2>o DEF Local, ReadSound
  <2> QED BY <1>1, <2>3, <2>4, <2>5, <2>6, <2>7, <2>o, StillFrame DEF Local
<1> QED BY <1>3, <1>4

\* A deletion lists the versions.
LEMMA ListStep ==
    ASSUME StoreInv, NEW r \in Requests, ListVersions(r)
    PROVE  StoreInv'
<1>1. /\ req[r] \in Request /\ Local(req[r], objects, loaded)
      /\ req[r].op = "delete" /\ req[r].st = "begun"
      /\ UNCHANGED <<objects, lastNo, acked, loaded>>
  BY DEF StoreInv, ListVersions
<1>2. PICK found : found = Numbers(objects, req[r].rec)
  OBVIOUS
<1>3. CASE found = {}
  <2>1. Finish(r, "ok") /\ "ok" \in Answer
    BY <1>2, <1>3 DEF ListVersions, Answer
  <2> QED BY <1>1, <2>1, FinishStep
<1>4. CASE found # {}
  <2>o. PICK old \in Request : old = req[r]
    BY <1>1
  <2>1. PICK q : q = [old EXCEPT !.st = "listed", !.listed = found, !.todo = found]
    OBVIOUS
  <2>2. ASSUME NEW n \in found
        PROVE  n \in 1..MaxNo /\ [rec |-> old.rec, no |-> n] \in loaded
    <3>1. PICK v \in objects : v.rec = old.rec /\ v.no = n
      BY <1>2, <2>o DEF Numbers
    <3>2. v \in Version /\ v \in loaded
      BY DEF StoreInv, VersionsSound
    <3>3. v = [rec |-> v.rec, no |-> v.no] /\ v.no \in 1..MaxNo
      BY <3>2 DEF Version
    <3> QED BY <3>1, <3>2, <3>3
  <2>3. q \in Request
    <3>1. "listed" \in Stage /\ found \in NumberSets
      BY <2>2 DEF Stage, NumberSets
    <3>2. [old EXCEPT !.st = "listed", !.listed = found, !.todo = found] \in Request
      BY <3>1 DEF Request
    <3> QED BY <2>1, <3>2
  <2>4. /\ q.op = old.op /\ q.st = "listed" /\ q.answer = old.answer
        /\ q.rec = old.rec /\ q.batch = old.batch /\ q.uploads = old.uploads
        /\ q.listed = found /\ q.todo = found /\ q.no = old.no
        /\ q.floor = old.floor
    BY <2>1 DEF Request
  <2>5. req' = [req EXCEPT ![r] = q]
    BY <1>2, <1>4, <2>1, <2>o DEF ListVersions, StoreInv
  <2>6. UploadsSound(q, loaded) /\ ReadSound(q, objects, loaded)
    BY <1>1, <2>4, <2>o DEF Local, UploadsSound, ReadSound
  <2>7. DeletionSound(q, objects, loaded)
    BY <1>4, <2>2, <2>4 DEF DeletionSound
  <2> QED BY <1>1, <2>3, <2>4, <2>5, <2>6, <2>7, <2>o, StillFrame DEF Local
<1> QED BY <1>3, <1>4

\* What a deletion deletes next is the least of what it has left.
LEMMA NextIsLeast ==
    ASSUME StoreInv, NEW r \in Requests, DeleteOne(r)
    PROVE  /\ NextToDelete(r) \in req[r].todo
           /\ \A k \in req[r].todo : NextToDelete(r) <= k
           /\ req[r].todo \subseteq req[r].listed /\ req[r].listed \subseteq 1..MaxNo
<1>1. req[r] \in Request /\ Local(req[r], objects, loaded)
  BY DEF StoreInv
<1>2. req[r].todo \subseteq 1..MaxNo /\ req[r].todo # {}
      /\ req[r].listed \subseteq 1..MaxNo /\ req[r].todo \subseteq req[r].listed
  BY <1>1 DEF DeleteOne, Local, DeletionSound, Request, NumberSets
<1>3. req[r].todo \subseteq Nat
  BY <1>2, BatchAssumption
<1> QED BY <1>2, <1>3, HasLeast DEF NextToDelete

\* A deletion deletes one version.
LEMMA DeleteStep ==
    ASSUME StoreInv, NEW r \in Requests, DeleteOne(r)
    PROVE  StoreInv'
<1>1. /\ req[r] \in Request /\ Local(req[r], objects, loaded)
      /\ req[r].op = "delete" /\ req[r].st = "listed"
      /\ UNCHANGED <<lastNo, acked, loaded>>
  BY DEF StoreInv, DeleteOne
<1>2. PICK n : n = NextToDelete(r)
  OBVIOUS
<1>3. PICK v : v = [rec |-> req[r].rec, no |-> n]
  OBVIOUS
<1>4. CASE v \notin objects
  <2>1. PICK answer \in Answer :
            Finish(r, answer) /\ UNCHANGED <<objects, lastNo, acked, loaded>>
    BY <1>1, <1>2, <1>3, <1>4 DEF DeleteOne, Answer
  <2> QED BY <1>1, <2>1, FinishStep
<1>5. CASE v \in objects
  <2>o. PICK old \in Request : old = req[r]
    BY <1>1
  <2>1. objects' = objects \ {v}
    BY <1>2, <1>3, <1>5 DEF DeleteOne
  <2>2. \E todo \in NumberSets, st \in Stage, answer \in Answer :
            /\ old.todo \ {n} \subseteq todo /\ todo \subseteq old.todo
            /\ st = "listed" => todo # {}
            /\ req' = [req EXCEPT ![r] =
                    [old EXCEPT !.todo = todo, !.st = st, !.answer = answer]]
    <3> DEFINE Becomes(todo, st, answer) ==
            req' = [req EXCEPT ![r] =
                    [old EXCEPT !.todo = todo, !.st = st, !.answer = answer]]
    <3>1. /\ {} \in NumberSets /\ old.todo \in NumberSets
          /\ old.todo \ {n} \in NumberSets
          /\ "done" \in Stage /\ old.st \in Stage /\ old.answer \in Answer
          /\ "ok" \in Answer /\ "error" \in Answer
      BY DEF NumberSets, Stage, Answer, Request
    <3>2. CASE old.todo = {n} /\ req' = [req EXCEPT ![r].todo = {},
                                            ![r].st = "done", ![r].answer = "ok"]
      <4>1. Becomes({}, "done", "ok")
        BY <2>o, <3>2 DEF StoreInv
      <4>2. old.todo \ {n} \subseteq {} /\ {} \subseteq old.todo
        BY <3>2
      <4>3. "done" # "listed"
        OBVIOUS
      <4> QED BY <3>1, <4>1, <4>2, <4>3, Zenon
    <3>3. CASE old.todo # {n} /\ req' = [req EXCEPT ![r].todo = @ \ {n}]
      <4>1. req' = [req EXCEPT ![r] = [old EXCEPT !.todo = old.todo \ {n}]]
        BY <2>o, <3>3 DEF StoreInv
      <4>2. [old EXCEPT !.todo = old.todo \ {n}] =
                [old EXCEPT !.todo = old.todo \ {n}, !.st = old.st,
                            !.answer = old.answer]
        BY DEF Request
      <4>3. Becomes(old.todo \ {n}, old.st, old.answer)
        BY <4>1, <4>2
      <4>4. old.todo \ {n} # {}
        BY <1>2, <2>o, <3>3, NextIsLeast
      <4> QED BY <3>1, <4>3, <4>4
    <3>4. CASE Finish(r, "error")
      <4>1. req' = [req EXCEPT ![r] = [old EXCEPT !.st = "done", !.answer = "error"]]
        BY <2>o, <3>4 DEF StoreInv, Finish
      <4>2. [old EXCEPT !.st = "done", !.answer = "error"] =
                [old EXCEPT !.todo = old.todo, !.st = "done", !.answer = "error"]
        BY DEF Request
      <4>3. Becomes(old.todo, "done", "error")
        BY <4>1, <4>2
      <4> QED BY <3>1, <4>3
    <3> HIDE DEF Becomes
    <3> QED BY <1>2, <1>3, <1>5, <2>o, <3>2, <3>3, <3>4 DEF DeleteOne
  <2>3. PICK todo \in NumberSets, st \in Stage, answer \in Answer :
            /\ old.todo \ {n} \subseteq todo /\ todo \subseteq old.todo
            /\ st = "listed" => todo # {}
            /\ req' = [req EXCEPT ![r] =
                    [old EXCEPT !.todo = todo, !.st = st, !.answer = answer]]
    BY <2>2
  <2>4. PICK q : q = [old EXCEPT !.todo = todo, !.st = st, !.answer = answer]
    OBVIOUS
  <2>5. q \in Request
    <3>1. [old EXCEPT !.todo = todo, !.st = st, !.answer = answer] \in Request
      BY DEF Request
    <3> QED BY <2>4, <3>1
  <2>6. /\ q.op = old.op /\ q.st = st /\ q.answer = answer
        /\ q.rec = old.rec /\ q.batch = old.batch /\ q.uploads = old.uploads
        /\ q.listed = old.listed /\ q.todo = todo /\ q.no = old.no
        /\ q.floor = old.floor
    BY <2>4 DEF Request
  <2>7. n \in old.todo
    BY <1>2, <2>o, NextIsLeast
  <2>8. req' = [req EXCEPT ![r] = q]
    BY <2>3, <2>4
  <2>9. UploadsSound(q, loaded)
    BY <1>1, <2>6, <2>o DEF Local, UploadsSound
  <2>10. ReadSound(q, objects', loaded)
    BY <1>1, <2>1, <2>6, <2>o DEF Local, ReadSound
  <2>11. DeletionSound(q, objects', loaded)
    <3>1. q.todo \subseteq q.listed /\ \A k \in q.listed :
            [rec |-> q.rec, no |-> k] \in loaded
      BY <1>1, <2>3, <2>6, <2>o DEF Local, DeletionSound
    <3>2. (q.op = "delete" /\ q.st = "listed") => q.todo # {}
      BY <2>3, <2>6
    <3>3. ASSUME NEW k \in q.listed \ q.todo
          PROVE  [rec |-> q.rec, no |-> k] \notin objects'
      <4>1. CASE k = n
        BY <1>3, <2>1, <2>6, <2>o, <4>1
      <4>2. CASE k # n
        <5>1. k \in old.listed \ old.todo
          BY <2>3, <2>6, <3>3, <4>2
        <5>2. [rec |-> old.rec, no |-> k] \notin objects
          BY <1>1, <2>o, <5>1 DEF Local, DeletionSound
        <5> QED BY <2>1, <2>6, <5>2
      <4> QED BY <4>1, <4>2
    <3> QED BY <3>1, <3>2, <3>3 DEF DeletionSound
  <2>12. VersionsSound' /\ lastNo <= lastNo'
    BY <1>1, <2>1 DEF StoreInv, VersionsSound
  <2>13. \A w \in q.uploads : w.no <= lastNo' /\ w \in req[r].uploads
    BY <1>1, <2>6, <2>o DEF StoreInv, UploadsApart
  <2>14. Local(q, objects', loaded')
    BY <1>1, <2>9, <2>10, <2>11 DEF Local
  <2> QED BY <1>1, <2>1, <2>5, <2>8, <2>12, <2>13, <2>14, Frame
<1> QED BY <1>4, <1>5

\* The process stops.
LEMMA CrashStep ==
    ASSUME StoreInv, Crash
    PROVE  StoreInv'
<1>1. UNCHANGED <<objects, lastNo, acked, loaded>>
  BY DEF Crash
<1>2. ASSUME NEW t \in Requests
      PROVE  /\ req'[t] \in Request /\ req'[t].uploads \subseteq req[t].uploads
             /\ Local(req'[t], objects, loaded)
  <2>1. req[t] \in Request /\ Local(req[t], objects, loaded)
    BY DEF StoreInv
  <2>2. CASE req[t].st = "new"
    BY <2>1, <2>2 DEF Crash
  <2>3. CASE req[t].st # "new"
    <3>o. PICK old \in Request : old = req[t]
      BY <2>1
    <3>1. PICK q : q = [old EXCEPT !.st = "done", !.uploads = {}]
      OBVIOUS
    <3>2. req'[t] = q
      BY <2>3, <3>1, <3>o DEF Crash
    <3>3. q \in Request
      <4>1. "done" \in Stage /\ {} \in Versions
        BY DEF Stage, Versions
      <4>2. [old EXCEPT !.st = "done", !.uploads = {}] \in Request
        BY <4>1 DEF Request
      <4> QED BY <3>1, <4>2
    <3>4. /\ q.op = old.op /\ q.st = "done" /\ q.answer = old.answer
          /\ q.rec = old.rec /\ q.batch = old.batch /\ q.uploads = {}
          /\ q.listed = old.listed /\ q.todo = old.todo /\ q.no = old.no
          /\ q.floor = old.floor
      BY <3>1 DEF Request
    <3>5. UploadsSound(q, loaded)
      BY <2>1, <3>4, <3>o DEF Local, UploadsSound
    <3>6. DeletionSound(q, objects, loaded) /\ ReadSound(q, objects, loaded)
      BY <2>1, <3>4, <3>o DEF Local, DeletionSound, ReadSound
    <3> QED BY <3>2, <3>3, <3>4, <3>5, <3>6 DEF Local
  <2> QED BY <2>2, <2>3
<1>3. req' \in [Requests -> Request]
  <2>1. req' = [t \in Requests |-> req'[t]]
    BY DEF Crash
  <2> QED BY <1>2, <2>1
<1>4. UploadsApart'
  BY <1>1, <1>2 DEF StoreInv, UploadsApart
<1>5. VersionsSound'
  BY <1>1 DEF StoreInv, VersionsSound
<1> QED BY <1>1, <1>2, <1>3, <1>4, <1>5 DEF StoreInv
-----------------------------------------------------------------------------
(* The theorems.                                                           *)

\* The empty store.
LEMMA InitInv == Init => StoreInv
<1> SUFFICES ASSUME Init PROVE StoreInv
  OBVIOUS
<1>1. VersionsSound
  BY BatchAssumption DEF Init, VersionsSound
<1>2. req \in [Requests -> Request] /\ \A r \in Requests : req[r] = Idle
  BY IdleTyped DEF Init
<1>3. Local(Idle, objects, loaded) /\ Idle.uploads = {}
  BY DEF Idle, Local, UploadsSound, DeletionSound, ReadSound
<1>4. UploadsApart
  BY <1>2, <1>3 DEF UploadsApart
<1> QED BY <1>1, <1>2, <1>3, <1>4 DEF StoreInv

\* Every step preserves the invariant.
LEMMA NextInv == StoreInv /\ [Next]_vars => StoreInv'
<1> SUFFICES ASSUME StoreInv, [Next]_vars PROVE StoreInv'
  OBVIOUS
<1>1. CASE UNCHANGED vars
  BY <1>1 DEF vars, StoreInv, VersionsSound, UploadsApart
<1>2. ASSUME NEW r \in Requests, NEW recs \in Batches,
             create_or_update_records(r, recs)
      PROVE  StoreInv'
  BY <1>2, CreateStep
<1>3. ASSUME NEW r \in Requests, NEW rec \in Records,
             BeginGet(r, rec) \/ BeginDelete(r, rec)
      PROVE  StoreInv'
  <2>1. 0 \in 0..MaxNo
    BY BatchAssumption
  <2> QED BY <1>3, <2>1, BeginStep
<1>4. ASSUME NEW r \in Requests, NEW rec \in Records, NEW no \in 0..MaxNo,
             BeginGetVersion(r, rec, no)
      PROVE  StoreInv'
  BY <1>4, BeginStep
<1>5. ASSUME NEW r \in Requests, Uploading(r) PROVE StoreInv'
  BY <1>5, UploadStep, UploadFailsStep DEF Uploading
<1>6. ASSUME NEW r \in Requests, Created(r) PROVE StoreInv'
  BY <1>6, CreatedStep
<1>7. ASSUME NEW r \in Requests, FindObject(r) PROVE StoreInv'
  BY <1>7, FindStep
<1>8. ASSUME NEW r \in Requests, Download(r) PROVE StoreInv'
  <2>1. \E answer \in Answer : Finish(r, answer)
    BY <1>8 DEF Download, Answer
  <2> QED BY <1>8, <2>1, FinishStep DEF Download
<1>9. ASSUME NEW r \in Requests, ListVersions(r) PROVE StoreInv'
  BY <1>9, ListStep
<1>10. ASSUME NEW r \in Requests, DeleteOne(r) PROVE StoreInv'
  BY <1>10, DeleteStep
<1>11. ASSUME NEW r \in Requests, Fails(r) PROVE StoreInv'
  <2>1. "error" \in Answer
    BY DEF Answer
  <2> QED BY <1>11, <2>1, FinishStep DEF Fails
<1>12. CASE Crash
  BY <1>12, CrashStep
<1> QED BY <1>1, <1>2, <1>3, <1>4, <1>5, <1>6, <1>7, <1>8, <1>9, <1>10, <1>11, <1>12
        DEF Next

\* StoreInv is an invariant of the store: no version is uploaded twice, and
\* deletions and reads agree with what is stored.
THEOREM StoreInvariant == Spec => []StoreInv
  BY InitInv, NextInv, PTL DEF Spec

\* The variables of the store keep their types.
THEOREM StoreTypeCorrect == Spec => []TypeOK
<1>1. StoreInv => TypeOK
  BY DEF StoreInv, VersionsSound, TypeOK
<1> QED BY <1>1, StoreInvariant, PTL

\* create_or_update_records: an answer of success means that every version of
\* the batch has been stored.
THEOREM AcksMeanAll == Spec => []AckMeansAll
<1>1. StoreInv => AckMeansAll
  BY DEF StoreInv, Local, UploadsSound, AckMeansAll
<1> QED BY <1>1, StoreInvariant, PTL

\* A step of one request leaves the others alone.
LEMMA OneAtATime ==
    ASSUME StoreInv, NEW r \in Requests, NEW t \in Requests, t # r,
           \/ \E recs \in Batches : create_or_update_records(t, recs)
           \/ \E rec \in Records : BeginGet(t, rec) \/ BeginDelete(t, rec)
           \/ \E rec \in Records, no \in 0..MaxNo : BeginGetVersion(t, rec, no)
           \/ Uploading(t) \/ Created(t) \/ FindObject(t) \/ Download(t)
           \/ ListVersions(t) \/ DeleteOne(t) \/ Fails(t)
    PROVE  req'[r] = req[r]
<1>1. ASSUME NEW q, req' = [req EXCEPT ![t] = q] PROVE req'[r] = req[r]
  BY <1>1 DEF StoreInv
<1>2. ASSUME NEW q, Start(t, q) PROVE req'[r] = req[r]
  BY <1>1, <1>2 DEF Start
<1>3. ASSUME NEW answer, Finish(t, answer) PROVE req'[r] = req[r]
  BY <1>3 DEF Finish, StoreInv
<1>4. CASE \E recs \in Batches : create_or_update_records(t, recs)
  BY <1>2, <1>4 DEF create_or_update_records
<1>5. CASE \E rec \in Records : BeginGet(t, rec) \/ BeginDelete(t, rec)
  BY <1>2, <1>5 DEF BeginGet, BeginDelete
<1>6. CASE \E rec \in Records, no \in 0..MaxNo : BeginGetVersion(t, rec, no)
  BY <1>2, <1>6 DEF BeginGetVersion
<1>7. CASE Uploading(t)
  BY <1>7 DEF Uploading, Upload, UploadFails, StoreInv
<1>8. CASE Created(t) \/ Download(t) \/ Fails(t)
  BY <1>3, <1>8 DEF Created, Download, Fails
<1>9. CASE FindObject(t)
  <2>1. CASE build_record_path(req[t].rec) = 0
    BY <1>3, <1>9, <2>1 DEF FindObject
  <2>2. CASE build_record_path(req[t].rec) # 0
    BY <1>9, <2>2 DEF FindObject, StoreInv
  <2> QED BY <2>1, <2>2
<1>10. CASE ListVersions(t)
  <2>1. CASE Numbers(objects, req[t].rec) = {}
    BY <1>3, <1>10, <2>1 DEF ListVersions
  <2>2. CASE Numbers(objects, req[t].rec) # {}
    BY <1>10, <2>2 DEF ListVersions, StoreInv
  <2> QED BY <2>1, <2>2
<1>11. CASE DeleteOne(t)
  BY <1>3, <1>11 DEF DeleteOne, StoreInv
<1> QED BY <1>4, <1>5, <1>6, <1>7, <1>8, <1>9, <1>10, <1>11

\* A read is answered with success by Download alone.
LEMMA OnlyDownload ==
    ASSUME StoreInv, Next, NEW r \in Requests, req[r].op = "get",
           req[r].answer = "none", req'[r].answer = "ok"
    PROVE  req[r].st = "listed"
<1>1. req[r] \in Request /\ req'[r] # req[r]
  BY DEF StoreInv
<1>2. ASSUME NEW q, q.answer = "none", Start(r, q) PROVE FALSE
  BY <1>2 DEF Start, StoreInv
<1>3. Idle.answer = "none" /\ Idle \in Request
  BY IdleTyped DEF Idle
<1>4. ASSUME NEW recs \in Batches, create_or_update_records(r, recs) PROVE FALSE
  <2>1. PICK q : q = [Idle EXCEPT !.op = "create", !.st = "begun",
                        !.batch = BatchOf(recs), !.uploads = BatchOf(recs)]
    OBVIOUS
  <2>2. q.answer = "none"
    BY <2>1 DEF Idle
  <2> QED BY <1>2, <1>4, <2>1, <2>2 DEF create_or_update_records
<1>5. ASSUME NEW rec \in Records, BeginGet(r, rec) PROVE FALSE
  <2>1. PICK q : q = [Idle EXCEPT !.op = "get", !.st = "begun", !.rec = rec,
                                  !.floor = {v \in acked : v.rec = rec}]
    OBVIOUS
  <2>2. q.answer = "none"
    BY <2>1 DEF Idle
  <2> QED BY <1>2, <1>5, <2>1, <2>2 DEF BeginGet
<1>6. ASSUME NEW rec \in Records, BeginDelete(r, rec) PROVE FALSE
  <2>1. PICK q : q = [Idle EXCEPT !.op = "delete", !.st = "begun", !.rec = rec]
    OBVIOUS
  <2>2. q.answer = "none"
    BY <2>1 DEF Idle
  <2> QED BY <1>2, <1>6, <2>1, <2>2 DEF BeginDelete
<1>7. ASSUME NEW rec \in Records, NEW no \in 0..MaxNo, BeginGetVersion(r, rec, no)
      PROVE  FALSE
  <2>1. PICK q : q = [Idle EXCEPT !.op = "get", !.st = "begun", !.rec = rec,
                                  !.floor = {v \in acked : v.rec = rec}]
    OBVIOUS
  <2>2. PICK p : p = [Idle EXCEPT !.op = "version", !.st = "listed",
                                  !.rec = rec, !.no = no]
    OBVIOUS
  <2>3. q.answer = "none" /\ p.answer = "none"
    BY <2>1, <2>2 DEF Idle
  <2>4. Start(r, q) \/ Start(r, p)
    BY <1>7, <2>1, <2>2 DEF BeginGetVersion
  <2> QED BY <1>2, <2>3, <2>4
<1>8. ~Uploading(r) /\ ~Created(r) /\ ~ListVersions(r) /\ ~DeleteOne(r)
  BY DEF Uploading, Created, ListVersions, DeleteOne
<1>9. ASSUME NEW answer, Finish(r, answer) PROVE answer = "ok"
  BY <1>9 DEF Finish, StoreInv, Request
<1>10. ~Fails(r)
  BY <1>9 DEF Fails
<1>11. ~FindObject(r)
  <2> SUFFICES ASSUME FindObject(r) PROVE FALSE
    OBVIOUS
  <2>1. CASE build_record_path(req[r].rec) = 0
    BY <1>9, <2>1 DEF FindObject
  <2>2. CASE build_record_path(req[r].rec) # 0
    BY <2>2 DEF FindObject, StoreInv, Request
  <2> QED BY <2>1, <2>2
<1>12. ASSUME Crash PROVE FALSE
  <2>1. req'[r] = [req[r] EXCEPT !.st = "done", !.uploads = {}]
    BY <1>1, <1>12 DEF Crash
  <2>2. req'[r].answer = req[r].answer
    BY <1>1, <2>1 DEF Request
  <2> QED BY <2>2
<1> QED BY <1>1, <1>4, <1>5, <1>6, <1>7, <1>8, <1>10, <1>11, <1>12, OneAtATime
        DEF Next, Download

\* get_record: what was acknowledged before a read began is not newer than
\* what the read returns, or is deleted by now.
THEOREM ReadsAreNotStale == Spec => ReadNotStale
<1>1. StoreInv /\ [Next]_vars =>
        [\A r \in Requests :
            (req[r].op = "get" /\ req[r].answer = "none" /\ req'[r].answer = "ok") =>
                \A v \in req[r].floor : v.no <= req[r].no \/ v \notin objects]_vars
  <2> SUFFICES ASSUME StoreInv, Next, NEW r \in Requests, req[r].op = "get",
                      req[r].answer = "none", req'[r].answer = "ok",
                      NEW v \in req[r].floor
               PROVE  v.no <= req[r].no \/ v \notin objects
    OBVIOUS
  <2>1. req[r].st = "listed"
    BY OnlyDownload
  <2> QED BY <2>1 DEF StoreInv, Local, ReadSound
<1> QED BY <1>1, StoreInvariant, PTL DEF Spec, ReadNotStale

\* Only a deletion takes objects away.
LEMMA OnlyDeleted ==
    ASSUME Next
    PROVE  objects \subseteq objects' \/ \E r \in Requests : DeleteOne(r)
BY DEF Next, create_or_update_records, BeginGet, BeginDelete, BeginGetVersion,
       Uploading, Upload, UploadFails, Created, FindObject, Download,
       ListVersions, Fails, Crash

\* delete_record: deleting the oldest version first never brings an older
\* version back.
THEOREM DeletionsDoNotRollBack == Spec => NoRollback
<1> DEFINE Rolls(rec) ==
        LET old == Latest(objects, rec)
            new == Latest(objects', rec)
        IN new < old =>
            \/ new = 0
            \/ \E r \in Requests :
                /\ req[r].op = "delete" /\ req[r].rec = rec
                /\ old \in req[r].todo /\ new \notin req[r].listed
<1>1. StoreInv /\ StoreInv' /\ [Next]_vars =>
        [\A rec \in Records : Rolls(rec)]_vars
  <2> SUFFICES ASSUME StoreInv, StoreInv', Next, NEW rec \in Records
               PROVE  Rolls(rec)
    OBVIOUS
  <2>1. PICK old : old = Latest(objects, rec)
    OBVIOUS
  <2>2. PICK new : new = Latest(objects', rec)
    OBVIOUS
  <2>3. objects \subseteq Version /\ objects' \subseteq Version
    BY DEF StoreInv, VersionsSound
  <2>4. /\ old \in 0..MaxNo
        /\ \A v \in objects : v.rec = rec => v.no <= old
        /\ old # 0 => [rec |-> rec, no |-> old] \in objects
    BY <2>1, <2>3, LatestIsGreatest
  <2>5. /\ new \in 0..MaxNo
        /\ \A v \in objects' : v.rec = rec => v.no <= new
        /\ new # 0 => [rec |-> rec, no |-> new] \in objects'
    BY <2>2, <2>3, LatestIsGreatest
  <2>6. SUFFICES ASSUME new < old, new # 0
                 PROVE  \E r \in Requests :
                            /\ req[r].op = "delete" /\ req[r].rec = rec
                            /\ old \in req[r].todo /\ new \notin req[r].listed
    BY <2>1, <2>2
  <2>7. old # 0 /\ [rec |-> rec, no |-> old] \in objects
        /\ [rec |-> rec, no |-> old] \notin objects'
    <3>1. old # 0
      BY <2>4, <2>5, <2>6
    <3>2. ASSUME [rec |-> rec, no |-> old] \in objects' PROVE FALSE
      <4>1. PICK v \in objects' : v = [rec |-> rec, no |-> old]
        BY <3>2
      <4>2. v.rec = rec /\ v.no = old
        BY <4>1
      <4>3. old <= new
        BY <2>5, <4>2
      <4> QED BY <2>4, <2>5, <2>6, <4>3
    <3> QED BY <2>4, <3>1, <3>2
  <2>8. PICK r \in Requests : DeleteOne(r)
    BY <2>7, OnlyDeleted
  <2>9. PICK n : n = NextToDelete(r)
    OBVIOUS
  <2>10. PICK w : w = [rec |-> req[r].rec, no |-> n]
    OBVIOUS
  <2>11. objects' = objects \ {w} \/ objects' = objects
    BY <2>8, <2>9, <2>10 DEF DeleteOne
  <2>12. w = [rec |-> rec, no |-> old]
    BY <2>7, <2>11
  <2>13. req[r].rec = rec /\ n = old
    <3>1. w.rec = rec /\ w.no = old
      BY <2>12
    <3>2. w.rec = req[r].rec /\ w.no = n
      BY <2>10
    <3> QED BY <3>1, <3>2
  <2>14. /\ old \in req[r].todo /\ \A k \in req[r].todo : old <= k
         /\ req[r].listed \subseteq 1..MaxNo
    BY <2>8, <2>9, <2>13, NextIsLeast
  <2>15. new \notin req[r].listed
    <3>1. ASSUME new \in req[r].listed PROVE FALSE
      <4>1. new \notin req[r].todo
        BY <2>4, <2>5, <2>6, <2>14
      <4>2. [rec |-> rec, no |-> new] \notin objects
        BY <2>13, <3>1, <4>1 DEF StoreInv, Local, DeletionSound
      <4>3. [rec |-> rec, no |-> new] \in objects
        BY <2>5, <2>6, <2>11
      <4> QED BY <4>2, <4>3
    <3> QED BY <3>1
  <2> QED BY <2>8, <2>13, <2>14, <2>15 DEF DeleteOne
<1>2. NoRollback <=> [][\A rec \in Records : Rolls(rec)]_vars
  BY PTL DEF NoRollback
<1> QED BY <1>1, <1>2, StoreInvariant, PTL DEF Spec
=============================================================================
