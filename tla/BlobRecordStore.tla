--------------------------- MODULE BlobRecordStore ---------------------------
(***************************************************************************)
(* The storage service replaced by objects of a blob store                 *)
(* (StorageRecordServiceBlobStorage): one object per record version, named *)
(* by the version, and the latest version is the greatest name.  Every     *)
(* call to the blob store is a step of its own, so that creations, reads   *)
(* and deletions of several requests interleave between the calls.         *)
(*                                                                         *)
(* An upload or a deletion of an object may fail, with or without effect,  *)
(* and the process may stop, which ends the requests and their uploads.    *)
(***************************************************************************)
EXTENDS Integers, Sequences, FiniteSets

CONSTANTS
    Records,   \* record ids
    Requests,  \* requests to the store
    MaxBatch,  \* bound: records of one creation
    MaxNo      \* bound: versions created

ASSUME BatchAssumption == MaxBatch \in Nat /\ MaxNo \in Nat

VARIABLES
    objects,  \* the versions in the blob store
    lastNo,   \* the last version number handed out; numbers only grow (ULID)
    req,      \* req[r]: the request r
    acked,    \* the versions of creations that were answered with success
    loaded    \* history: every version that was ever uploaded

vars == <<objects, lastNo, req, acked, loaded>>

Version == [rec : Records, no : 1..MaxNo]
Versions == SUBSET Version
NumberSets == SUBSET (1..MaxNo)
Op == {"idle", "create", "get", "version", "delete"}
Stage == {"new", "begun", "listed", "done"}
Answer == {"none", "ok", "notfound", "error"}
MaybeRecord == Records \cup {"none"}

\* A request: its operation and record, the versions of its creation and the
\* uploads among them that run, what it listed, what it still deletes, the
\* version it reads, the versions acknowledged before it began.
Request ==
    [op : Op, st : Stage, answer : Answer, rec : MaybeRecord, batch : Versions,
     uploads : Versions, listed : NumberSets, todo : NumberSets, no : 0..MaxNo,
     floor : Versions]
Idle ==
    [op |-> "idle", st |-> "new", answer |-> "none", rec |-> "none",
     batch |-> {}, uploads |-> {}, listed |-> {}, todo |-> {}, no |-> 0,
     floor |-> {}]

Numbers(S, rec) == {v.no : v \in {w \in S : w.rec = rec}}
Greatest(S) == CHOOSE n \in S : \A k \in S : k <= n
Least(S) == CHOOSE n \in S : \A k \in S : n <= k
Latest(S, rec) == IF Numbers(S, rec) = {} THEN 0 ELSE Greatest(Numbers(S, rec))

Init ==
    /\ objects = {} /\ lastNo = 0 /\ acked = {} /\ loaded = {}
    /\ req = [r \in Requests |-> Idle]

Start(r, q) ==
    /\ req[r].st = "new"
    /\ req' = [req EXCEPT ![r] = q]
Finish(r, answer) == req' = [req EXCEPT ![r].st = "done", ![r].answer = answer]
-----------------------------------------------------------------------------
(* create_or_update_records: numbers for the whole batch, then all the     *)
(* uploads at once; the first that fails fails the request, and the others *)
(* go on.                                                                  *)

\* Mutant: the first version gets the last number again.
BatchRenumbered(recs) ==
    {[rec |-> recs[i], no |-> lastNo + i - 1] : i \in 1..Len(recs)}
BatchOf(recs) == {[rec |-> recs[i], no |-> lastNo + i] : i \in 1..Len(recs)}

create_or_update_records(r, recs) ==
    /\ lastNo + Len(recs) <= MaxNo
    /\ lastNo' = lastNo + Len(recs)
    /\ Start(r, [Idle EXCEPT !.op = "create", !.st = "begun",
                             !.batch = BatchOf(recs), !.uploads = BatchOf(recs)])
    /\ UNCHANGED <<objects, acked, loaded>>

\* Mutant: a failed upload is collected with the others and not raised.
UploadSwallowed(r, v) ==
    /\ req' = [req EXCEPT ![r].uploads = @ \ {v}]
    /\ UNCHANGED <<objects, lastNo, acked, loaded>>
\* The upload of v fails, and may have stored it: the request fails with it.
UploadFails(r, v) ==
    /\ req' = [req EXCEPT ![r].uploads = @ \ {v}, ![r].st = "done",
                          ![r].answer = "error"]
    /\ \/ UNCHANGED <<objects, loaded>>
       \/ objects' = objects \cup {v} /\ loaded' = loaded \cup {v}
    /\ UNCHANGED <<lastNo, acked>>

Upload(r, v) ==
    /\ objects' = objects \cup {v} /\ loaded' = loaded \cup {v}
    /\ req' = [req EXCEPT ![r].uploads = @ \ {v}]
    /\ UNCHANGED <<lastNo, acked>>

Uploading(r) ==
    /\ req[r].op = "create"
    /\ \E v \in req[r].uploads : Upload(r, v) \/ UploadFails(r, v)

\* All uploads came back: the ids and versions are returned.
Created(r) ==
    /\ req[r].op = "create" /\ req[r].st = "begun" /\ req[r].uploads = {}
    /\ Finish(r, "ok")
    /\ acked' = acked \cup req[r].batch
    /\ UNCHANGED <<objects, lastNo, loaded>>
-----------------------------------------------------------------------------
(* get_record, get_record_version: the name of the object, then its        *)
(* content.  A version that is given names the object itself, unless it is *)
(* zero, which counts as none.                                             *)

BeginGet(r, rec) ==
    /\ Start(r, [Idle EXCEPT !.op = "get", !.st = "begun", !.rec = rec,
                             !.floor = {v \in acked : v.rec = rec}])
    /\ UNCHANGED <<objects, lastNo, acked, loaded>>
BeginGetVersion(r, rec, no) ==
    /\ Start(r, IF no = 0
                THEN [Idle EXCEPT !.op = "get", !.st = "begun", !.rec = rec,
                                  !.floor = {v \in acked : v.rec = rec}]
                ELSE [Idle EXCEPT !.op = "version", !.st = "listed",
                                  !.rec = rec, !.no = no])
    /\ UNCHANGED <<objects, lastNo, acked, loaded>>

\* Mutant: the names are not sorted, and the last one is not the greatest.
PathUnsorted(rec) ==
    IF Numbers(objects, rec) = {} THEN 0 ELSE Least(Numbers(objects, rec))
\* The object of the latest version, 0 when there is none.
build_record_path(rec) == Latest(objects, rec)

FindObject(r) ==
    /\ req[r].op = "get" /\ req[r].st = "begun"
    /\ LET n == build_record_path(req[r].rec) IN
       IF n = 0 THEN Finish(r, "notfound")
       ELSE req' = [req EXCEPT ![r].st = "listed", ![r].no = n]
    /\ UNCHANGED <<objects, lastNo, acked, loaded>>

Download(r) ==
    /\ req[r].op \in {"get", "version"} /\ req[r].st = "listed"
    /\ IF [rec |-> req[r].rec, no |-> req[r].no] \in objects
       THEN Finish(r, "ok") ELSE Finish(r, "notfound")
    /\ UNCHANGED <<objects, lastNo, acked, loaded>>
-----------------------------------------------------------------------------
(* delete_record and purge_record: the versions are listed, then deleted   *)
(* one by one, the oldest first.                                           *)

BeginDelete(r, rec) ==
    /\ Start(r, [Idle EXCEPT !.op = "delete", !.st = "begun", !.rec = rec])
    /\ UNCHANGED <<objects, lastNo, acked, loaded>>

ListVersions(r) ==
    /\ req[r].op = "delete" /\ req[r].st = "begun"
    /\ LET found == Numbers(objects, req[r].rec) IN
       IF found = {} THEN Finish(r, "ok")
       ELSE req' = [req EXCEPT ![r].st = "listed", ![r].listed = found,
                               ![r].todo = found]
    /\ UNCHANGED <<objects, lastNo, acked, loaded>>

\* Mutant: the versions are deleted the newest first.
NextNewest(r) == Greatest(req[r].todo)
NextToDelete(r) == Least(req[r].todo)

\* An object that is gone is a 404 when the blob store says so with the
\* exception that is caught, and a server error when with another one.  A
\* deletion may also take effect and fail.
DeleteOne(r) ==
    /\ req[r].op = "delete" /\ req[r].st = "listed"
    /\ LET n == NextToDelete(r)
           v == [rec |-> req[r].rec, no |-> n] IN
       \/ /\ v \notin objects
          /\ \E answer \in {"notfound", "error"} : Finish(r, answer)
          /\ UNCHANGED objects
       \/ /\ v \in objects
          /\ objects' = objects \ {v}
          /\ \/ /\ req[r].todo = {n}
                /\ req' = [req EXCEPT ![r].todo = {}, ![r].st = "done",
                                      ![r].answer = "ok"]
             \/ /\ req[r].todo # {n}
                /\ req' = [req EXCEPT ![r].todo = @ \ {n}]
             \/ Finish(r, "error")
    /\ UNCHANGED <<lastNo, acked, loaded>>

\* The blob store fails without effect: a read or a deletion stops where it is.
Fails(r) ==
    /\ req[r].op \in {"get", "version", "delete"}
    /\ req[r].st \in {"begun", "listed"}
    /\ Finish(r, "error")
    /\ UNCHANGED <<objects, lastNo, acked, loaded>>

\* The process stops: no request of it goes on, no answer is sent.
Crash ==
    /\ \E r \in Requests : req[r].st \in {"begun", "listed"} \/ req[r].uploads # {}
    /\ req' = [r \in Requests |->
                IF req[r].st = "new" THEN req[r]
                ELSE [req[r] EXCEPT !.st = "done", !.uploads = {}]]
    /\ UNCHANGED <<objects, lastNo, acked, loaded>>

Batches == UNION {[1..n -> Records] : n \in 1..MaxBatch}
Next ==
    \/ \E r \in Requests :
        \/ \E recs \in Batches : create_or_update_records(r, recs)
        \/ \E rec \in Records : BeginGet(r, rec) \/ BeginDelete(r, rec)
        \/ \E rec \in Records, no \in 0..MaxNo : BeginGetVersion(r, rec, no)
        \/ Uploading(r) \/ Created(r)
        \/ FindObject(r) \/ Download(r)
        \/ ListVersions(r) \/ DeleteOne(r) \/ Fails(r)
    \/ Crash
Spec == Init /\ [][Next]_vars
-----------------------------------------------------------------------------
(* What is checked.                                                        *)

\* The variables hold what they are declared to hold; versions in the store
\* and acknowledged ones are numbered by lastNo or less.
TypeOK ==
    /\ objects \subseteq Version /\ loaded \subseteq Version
    /\ acked \subseteq Version
    /\ lastNo \in 0..MaxNo
    /\ req \in [Requests -> Request]

\* A creation answered with success has stored every record of its batch,
\* although the uploads run at once, fail one by one and outlive the answer;
\* what is acknowledged and no longer there has been deleted.
AckMeansAll ==
    \A r \in Requests :
        (req[r].op = "create" /\ req[r].answer = "ok") => req[r].batch \subseteq loaded

\* Deleting a record never brings an older version back: the latest version
\* gives way to none, or to one whose upload came after the deletion had
\* listed what it deletes.
NoRollback ==
    [][\A rec \in Records :
        LET old == Latest(objects, rec)
            new == Latest(objects', rec)
        IN new < old =>
            \/ new = 0
            \/ \E r \in Requests :
                /\ req[r].op = "delete" /\ req[r].rec = rec
                /\ old \in req[r].todo /\ new \notin req[r].listed]_vars

\* A read of the latest version is never stale: whatever was acknowledged
\* before the read began is not newer than what is read, or is deleted by now.
ReadNotStale ==
    [][\A r \in Requests :
        (req[r].op = "get" /\ req[r].answer = "none" /\ req'[r].answer = "ok") =>
            \A v \in req[r].floor : v.no <= req[r].no \/ v \notin objects]_vars
=============================================================================
