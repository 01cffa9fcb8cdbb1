--------------------------- MODULE RecordVersions ---------------------------
(***************************************************************************)
(* The versions of one record and the bulks they refer to, under the       *)
(* requests that write and remove them:                                    *)
(*                                                                         *)
(*   data     POST .../data: a whole bulk outside any session              *)
(*   commit   the body of a session commit, on top of its fromVersion      *)
(*   post     POST of the record through a router that checks bulk URIs:   *)
(*            well log, trajectory and the generic ones                    *)
(*   bare     POST of the record through one that does not: well,          *)
(*            wellbore, marker set, interval set, well log acquisition.    *)
(*            No POST compares the id in the body with the router, and the *)
(*            last of these does not compare the kind either               *)
(*   read     GET .../data                                                 *)
(*   delete   DELETE of the record                                         *)
(*   purge    DELETE with purge=true, which also removes the bulks         *)
(*                                                                         *)
(* The record lives in the storage service and the bulks in the blob store *)
(* behind the worker; both are external.  Their calls are atomic, and the  *)
(* handlers interleave at every call.  Nothing ties a read of the record   *)
(* to the write that follows it: the storage service numbers whatever it   *)
(* is given as the next version.                                           *)
(*                                                                         *)
(* A bulk is named after the request that wrote it, and its rows are the   *)
(* requests whose data it holds.  A version's tag stands for everything in *)
(* the record but the bulk URI: it names the request that set it.          *)
(***************************************************************************)
EXTENDS Naturals, Sequences

CONSTANTS
    Requests,   \* HTTP requests, each served at most once
    Offered,    \* kinds of request the clients send
    Foreign,    \* a bulk id the worker never wrote for this record
    Nobody,     \* tag of the initial version, and absence of a bulk
    MaxTries    \* DE_CLIENT_BACKOFF_MAX_RETRIES

ASSUME NamesAssumption ==
    /\ Foreign \notin Requests
    /\ Nobody \notin Requests \cup {Foreign}
ASSUME KindsAssumption ==
    Offered \subseteq {"data", "commit", "post", "bare", "read", "delete", "purge"}
ASSUME TriesAssumption == MaxTries \in Nat \ {0}

VARIABLES
    store,      \* versions of the record, oldest first
    live,       \* the record is not logically deleted
    lastNo,     \* number of the last version ever created
    rows,       \* rows of every bulk ever written, {} when never written
    blobs,      \* bulks whose files are in the blob store
    tasks,      \* bulks for whose files a deletion task was ever started
    pc,         \* where each request is
    kind,       \* what each request asks for
    base,       \* version a commit is based on (fromVersion)
    merge,      \* session mode of a commit: update (TRUE) or overwrite
    rec,        \* the record a request has fetched, or was sent; its number
                \* is then that of the version the bulk URI was compared with
    uris,       \* a purge: encoded URIs found so far
    todo,       \* a purge: versions still to fetch
    tries,      \* lost answers of the storage service met by a request
    resp        \* HTTP outcome

vars == <<store, live, lastNo, rows, blobs, tasks, pc, kind, base, merge, rec,
          uris, todo, tries, resp>>

recordVars == <<store, live, lastNo>>
bulkVars == <<rows, blobs, tasks>>
requestVars == <<kind, base, merge>>
purgeVars == <<uris, todo>>

-----------------------------------------------------------------------------
(* The vocabulary.                                                         *)

BulkId == Requests \cup {Foreign}
Version == [no : Nat, tag : Requests \cup {Nobody},
            bulk : BulkId \cup {Nobody}, by : Requests \cup {Nobody}]
NoRecord == [no |-> 0, tag |-> Nobody, bulk |-> Nobody, by |-> Nobody]

Kind == {"data", "commit", "post", "bare", "read", "delete", "purge"}
Phase == {"new", "fetch", "bulk", "send", "check", "create", "load", "delete",
          "list", "uris", "purge", "names", "done"}
Response == {"none", "ok", "rejected", "notfound", "error"}

\* The record can be read: it has a version and is not logically deleted.
Readable == live /\ store # <<>>
Latest == store[Len(store)]

\* The version numbered n, when the record can be read.
Has(n) == Readable /\ \E i \in 1..Len(store) : store[i].no = n
VersionNo(n) == store[CHOOSE i \in 1..Len(store) : store[i].no = n]

\* BulkURI.encode for storage V1, and the path of a bulk's file below the
\* record's hash (record_bulk_path), as the texts they are made of.
Encode(b) == <<"urn", ":", "wdms-1", ":", "uuid", ":", b>>
FileName(b) == <<"hash", "/", "bulk", "/", b, "/", "data", "/", "part">>

\* Text s occurs in text t (Python's `s in t`).
Occurs(s, t) ==
    \E i \in 0..(Len(t) - Len(s)) :
        \A j \in 1..Len(s) : t[i + j] = s[j]

-----------------------------------------------------------------------------
Init ==
    /\ store = <<[no |-> 1, tag |-> Nobody, bulk |-> Nobody, by |-> Nobody]>>
    /\ live = TRUE
    /\ lastNo = 1
    /\ rows = [b \in BulkId |-> {}]
    /\ blobs = {}
    /\ tasks = {}
    /\ pc = [r \in Requests |-> "new"]
    /\ kind = [r \in Requests |-> "read"]
    /\ base = [r \in Requests |-> 0]
    /\ merge = [r \in Requests |-> FALSE]
    /\ rec = [r \in Requests |-> NoRecord]
    /\ uris = [r \in Requests |-> {}]
    /\ todo = [r \in Requests |-> {}]
    /\ tries = [r \in Requests |-> 0]
    /\ resp = [r \in Requests |-> "none"]

\* A request goes on at p, or answers.
Goto(r, p) == pc' = [pc EXCEPT ![r] = p] /\ UNCHANGED resp
Finish(r, code) ==
    /\ pc' = [pc EXCEPT ![r] = "done"]
    /\ resp' = [resp EXCEPT ![r] = code]

\* The storage service stores v as the next version of the record.  Writing
\* to a deleted or purged record brings it back.
AppendVersion(v, r) ==
    /\ lastNo' = lastNo + 1
    /\ store' = Append(store, [v EXCEPT !.no = lastNo + 1, !.by = r])
    /\ live' = TRUE

(* ---- requests arrive --------------------------------------------------- *)

\* The bulk URIs a client may have put in a record: none, that of a bulk of
\* this record, or one that was never written for it.  The id of a bulk still
\* to be written is a random uuid.
Postable == {Nobody, Foreign} \cup {b \in Requests : rows[b] # {}}

(* A commit's session was created earlier, from the latest version or from *)
(* an older one; a post comes with whatever bulk URI the client has put in *)
(* the record, and is checked when its router does.                        *)
Receive(r, k) ==
    /\ pc[r] = "new"
    /\ kind' = [kind EXCEPT ![r] = k]
    /\ \/ /\ k \in {"data", "read"}
          /\ Goto(r, "fetch")
          /\ UNCHANGED <<base, merge, rec>>
       \/ /\ k = "commit"
          /\ \E i \in 1..Len(store) : base' = [base EXCEPT ![r] = store[i].no]
          /\ \E m \in BOOLEAN : merge' = [merge EXCEPT ![r] = m]
          /\ Goto(r, "fetch")
          /\ UNCHANGED rec
       \/ /\ k \in {"post", "bare"}
          /\ \E b \in Postable :
                rec' = [rec EXCEPT ![r] = [NoRecord EXCEPT !.tag = r, !.bulk = b]]
          /\ Goto(r, IF k = "post" THEN "check" ELSE "create")
          /\ UNCHANGED <<base, merge>>
       \/ /\ k = "delete" /\ Goto(r, "delete")
          /\ UNCHANGED <<base, merge, rec>>
       \/ /\ k = "purge" /\ Goto(r, "list")
          /\ UNCHANGED <<base, merge, rec>>
    /\ UNCHANGED <<recordVars, bulkVars, purgeVars, tries>>

(* ---- data and commit --------------------------------------------------- *)

(* fetch_record: the latest version, or the session's fromVersion.  A      *)
(* record of another kind, or with an invalid bulk URI, is refused.        *)
FetchRecord(r) ==
    /\ pc[r] = "fetch"
    /\ \/ /\ kind[r] \in {"data", "read"} /\ Readable
          /\ rec' = [rec EXCEPT ![r] = Latest]
          /\ Goto(r, IF kind[r] = "read" THEN "load" ELSE "bulk")
       \/ /\ kind[r] = "commit" /\ Has(base[r])
          /\ rec' = [rec EXCEPT ![r] = VersionNo(base[r])]
          /\ Goto(r, "bulk")
       \/ /\ ~(IF kind[r] = "commit" THEN Has(base[r]) ELSE Readable)
          /\ Finish(r, "notfound")
          /\ UNCHANGED rec
       \/ Finish(r, "rejected") /\ UNCHANGED rec
    /\ UNCHANGED <<recordVars, bulkVars, requestVars, purgeVars, tries>>

\* Mutant: the previous bulk is not passed to the worker.
SentAlone(r) == {r}

\* Rows of the bulk the worker builds: those sent and, for a commit in
\* update mode, those of the bulk of the fetched version.
Sent(r) ==
    {r} \cup (IF kind[r] = "commit" /\ merge[r] /\ rec[r].bulk # Nobody
              THEN rows[rec[r].bulk] ELSE {})

(* write_bulk or write_complete_session: the worker writes a bulk under a  *)
(* new id, once it has read the one to extend.                             *)
WriteBulk(r) ==
    /\ pc[r] = "bulk"
    /\ kind[r] = "commit" /\ merge[r] => rec[r].bulk \in blobs \cup {Nobody}
    /\ rows' = [rows EXCEPT ![r] = Sent(r)]
    /\ blobs' = blobs \cup {r}
    /\ Goto(r, "send")
    /\ UNCHANGED <<recordVars, tasks, requestVars, rec, purgeVars, tries>>

(* The worker fails, or the bulk it has written turns out not to be        *)
(* consistent with the record.                                             *)
WriteBulkFails(r) ==
    /\ pc[r] = "bulk"
    /\ \/ UNCHANGED <<rows, blobs>>
       \/ rows' = [rows EXCEPT ![r] = Sent(r)] /\ blobs' = blobs \cup {r}
    /\ Finish(r, "error")
    /\ UNCHANGED <<recordVars, tasks, requestVars, rec, purgeVars, tries>>

\* Mutant: the encoded URI is stored where the id is expected.
WithEncodedBulk(r) == [rec[r] EXCEPT !.bulk = Encode(r)]

\* Mutant: the record is sent with the bulk URI it was fetched with.
WithOldBulk(r) == rec[r]

\* set_bulk_uri on the record that was fetched.
WithBulk(r) == [rec[r] EXCEPT !.bulk = r]

(* set_bulk_field_and_send_record.                                         *)
SendRecord(r) ==
    /\ pc[r] = "send"
    /\ AppendVersion(WithBulk(r), r)
    /\ Finish(r, "ok")
    /\ UNCHANGED <<bulkVars, requestVars, rec, purgeVars, tries>>

(* ---- post --------------------------------------------------------------- *)

\* Mutant: the URI is not compared with that of the previous version.
UriUnmatched(r) == Readable \/ rec[r].bulk = Nobody

\* The record the client sent may be written after the version the check
\* has read: none at all, or one with the same bulk URI.
UriAccepted(r) ==
    IF Readable THEN rec[r].bulk = Latest.bulk ELSE rec[r].bulk = Nobody

(* raise_if_invalid_bulk_uri, which fetches the latest version; the schema,*)
(* kind and consistency checks around it refuse some records.              *)
CheckBulkUri(r) ==
    /\ pc[r] = "check"
    /\ \/ /\ UriAccepted(r)
          /\ rec' = [rec EXCEPT ![r].no = IF Readable THEN Latest.no ELSE 0]
          /\ Goto(r, "create")
       \/ Finish(r, "rejected") /\ UNCHANGED rec
    /\ UNCHANGED <<recordVars, bulkVars, requestVars, purgeVars, tries>>

(* create_or_update_records.  The schema and kind checks of a router that  *)
(* does not check bulk URIs come right before it, and may refuse.          *)
CreateRefused(r) ==
    /\ pc[r] = "create" /\ kind[r] = "bare" /\ tries[r] = 0
    /\ Finish(r, "rejected")
    /\ UNCHANGED <<recordVars, bulkVars, requestVars, rec, purgeVars, tries>>

CreateRecord(r) ==
    /\ pc[r] = "create"
    /\ AppendVersion(rec[r], r)
    /\ Finish(r, "ok")
    /\ UNCHANGED <<bulkVars, requestVars, rec, purgeVars, tries>>

(* A version is created but the answer is lost: backoff_middleware sends   *)
(* the record again, then gives up.                                        *)
AnswerLost(r) ==
    /\ pc[r] \in {"send", "create"}
    /\ AppendVersion(IF pc[r] = "send" THEN WithBulk(r) ELSE rec[r], r)
    /\ tries' = [tries EXCEPT ![r] = @ + 1]
    /\ IF tries[r] + 1 < MaxTries THEN Goto(r, pc[r]) ELSE Finish(r, "error")
    /\ UNCHANGED <<bulkVars, requestVars, rec, purgeVars>>

(* ---- read --------------------------------------------------------------- *)

(* get_data: the worker reads the bulk of the record that was fetched.     *)
ReadData(r) ==
    /\ pc[r] = "load"
    /\ Finish(r, IF rec[r].bulk = Nobody THEN "notfound"
                 ELSE IF rec[r].bulk \in blobs THEN "ok" ELSE "error")
    /\ UNCHANGED <<recordVars, bulkVars, requestVars, rec, purgeVars, tries>>

(* ---- delete and purge --------------------------------------------------- *)

DeleteRecord(r) ==
    /\ pc[r] = "delete"
    /\ live' = FALSE
    /\ Finish(r, IF Readable THEN "ok" ELSE "notfound")
    /\ UNCHANGED <<store, lastNo, bulkVars, requestVars, rec, purgeVars, tries>>

(* get_all_record_versions.                                                *)
ListVersions(r) ==
    /\ pc[r] = "list"
    /\ \/ /\ Readable
          /\ todo' = [todo EXCEPT ![r] = {store[i].no : i \in 1..Len(store)}]
          /\ Goto(r, "uris")
       \/ ~Readable /\ Finish(r, "notfound") /\ UNCHANGED todo
    /\ UNCHANGED <<recordVars, bulkVars, requestVars, rec, uris, tries>>

(* _get_bulk_uri_from_version, one of those run by gather: a version that  *)
(* is gone is skipped.                                                     *)
FetchVersionUri(r) ==
    /\ pc[r] = "uris"
    /\ \E n \in todo[r] :
         /\ todo' = [todo EXCEPT ![r] = @ \ {n}]
         /\ uris' = [uris EXCEPT ![r] =
                IF Has(n) /\ VersionNo(n).bulk # Nobody
                THEN @ \cup {Encode(VersionNo(n).bulk)} ELSE @]
    /\ UNCHANGED <<recordVars, bulkVars, requestVars, rec, tries, pc, resp>>

(* purge_record.                                                           *)
PurgeRecord(r) ==
    /\ pc[r] = "uris"
    /\ todo[r] = {}
    /\ store' = <<>>
    /\ IF store = <<>> THEN Finish(r, "notfound") ELSE Goto(r, "names")
    /\ UNCHANGED <<live, lastNo, bulkVars, requestVars, rec, purgeVars, tries>>

\* The files whose name contains one of the URIs found.
Named(us) == {b \in blobs : \E u \in us : Occurs(u, FileName(b))}

(* The record's files are listed and a task is started for each one to     *)
(* delete, which deletes it or fails and logs it.                          *)
StartDeletions(r) ==
    /\ pc[r] = "names"
    /\ tasks' = tasks \cup Named(uris[r])
    /\ \E gone \in SUBSET Named(uris[r]) : blobs' = blobs \ gone
    /\ Finish(r, "ok")
    /\ UNCHANGED <<recordVars, rows, requestVars, rec, purgeVars, tries>>

(* A remote call of the request fails, or its replica dies.                *)
Abort(r) ==
    /\ pc[r] \notin {"new", "done"}
    /\ Finish(r, "error")
    /\ UNCHANGED <<recordVars, bulkVars, requestVars, rec, purgeVars, tries>>

-----------------------------------------------------------------------------
Serve(r) ==
    \/ FetchRecord(r) \/ WriteBulk(r) \/ WriteBulkFails(r) \/ SendRecord(r)
    \/ AnswerLost(r) \/ CheckBulkUri(r) \/ CreateRefused(r) \/ CreateRecord(r)
    \/ ReadData(r) \/ DeleteRecord(r) \/ ListVersions(r) \/ FetchVersionUri(r)
    \/ PurgeRecord(r) \/ StartDeletions(r) \/ Abort(r)

Next ==
    \/ \E r \in Requests, k \in Offered : Receive(r, k)
    \/ \E r \in Requests : Serve(r)

Spec == Init /\ [][Next]_vars

-----------------------------------------------------------------------------
(* Properties.                                                             *)

(* Type correctness.                                                       *)
TypeOK ==
    /\ store \in Seq(Version)
    /\ live \in BOOLEAN
    /\ lastNo \in Nat
    /\ rows \in [BulkId -> SUBSET Requests]
    /\ blobs \subseteq BulkId
    /\ tasks \subseteq BulkId
    /\ pc \in [Requests -> Phase]
    /\ kind \in [Requests -> Kind]
    /\ base \in [Requests -> Nat]
    /\ merge \in [Requests -> BOOLEAN]
    /\ rec \in [Requests -> Version]
    /\ uris \in [Requests -> SUBSET {Encode(b) : b \in BulkId}]
    /\ todo \in [Requests -> SUBSET Nat]
    /\ tries \in [Requests -> Nat]
    /\ resp \in [Requests -> Response]

\* The bulks the record's versions refer to.
Referred == {store[i].bulk : i \in 1..Len(store)} \ {Nobody}

\* The request has created a version of the record.
Created(r) == tries[r] > 0 \/ resp[r] = "ok"

(* raise_if_invalid_bulk_uri: "User can't be allowed to "set" incorrect    *)
(* value".  The POST handlers that do not call it are the only way around  *)
(* it: when the record refers to a bulk the service has not written for    *)
(* it, an unchecked post has stored that very URI, however checked posts,  *)
(* data, commits and purges have carried it on since.                      *)
UnwrittenCameUnchecked ==
    \A b \in Referred : rows[b] = {} =>
        \E r \in Requests : kind[r] = "bare" /\ rec[r].bulk = b /\ Created(r)

(* Nothing is lost but to a race: a version that drops what the previous   *)
(* one holds, a data request its metadata or a checked post its bulk ("the *)
(* bulk URI must match the current/previous one", ddms_v3_utils.py),       *)
(* follows a version created after the one its request had looked at, when *)
(* it had found one.                                                       *)
LossesAreRaces ==
    \A j \in 2..Len(store) :
        LET r == store[j].by
            p == store[j - 1]
        IN  r # Nobody =>
              /\ kind[r] = "data" /\ store[j].tag # p.tag => p.no > rec[r].no
              /\ kind[r] = "post" /\ store[j].bulk # p.bulk => p.no > rec[r].no

(* A commit in update mode adds to the version it is based on: the bulk of *)
(* every version it creates has all the rows of the bulk of fromVersion,   *)
(* as long as that version has not been purged.                            *)
UpdateKeepsRows ==
    \A i, j \in 1..Len(store) :
        LET r == store[j].by IN
        (r # Nobody /\ kind[r] = "commit" /\ merge[r]
            /\ store[i].no = base[r] /\ store[i].bulk # Nobody) =>
                rows[store[i].bulk] \subseteq rows[store[j].bulk]

(* A purge starts a deletion task for the bulk of every version it found   *)
(* (delete_ddms_v3_test.py, test_delete_purge_record).                     *)
PurgeStartsDeletions ==
    \A r \in Requests : kind[r] = "purge" /\ resp[r] = "ok" =>
        \A b \in BulkId : Encode(b) \in uris[r] => b \in tasks \/ b \notin blobs

-----------------------------------------------------------------------------
(* The inductive invariant behind the theorems of RecordVersionsProofs.    *)

\* A bulk in circulation: none, one that was written, or one that was not and
\* that an unchecked post has stored.
Sound(b) ==
    \/ b = Nobody
    \/ rows[b] # {}
    \/ b = Foreign /\ \E r \in Requests :
            kind[r] = "bare" /\ rec[r].bulk = Foreign /\ Created(r)

\* Bulk URIs are sound in the record and in the requests that pass them on;
\* those of a post that is still to be checked, or never is, are postable.
SoundUris ==
    /\ \A i \in 1..Len(store) : Sound(store[i].bulk)
    /\ \A r \in Requests :
         /\ pc[r] \in {"load", "bulk", "send"} => Sound(rec[r].bulk)
         /\ pc[r] = "create" /\ kind[r] = "post" => Sound(rec[r].bulk)
         /\ pc[r] \in {"check", "create"} => rec[r].bulk \in Postable
         /\ pc[r] = "send" => rows[r] # {}

\* A bulk is written once, by its own request, before any version has it.
WrittenOnce ==
    \A r \in Requests :
        /\ pc[r] \in {"new", "fetch", "bulk"} => rows[r] = {}
        /\ pc[r] \in {"new", "fetch", "bulk", "check"} =>
             tries[r] = 0 /\ \A i \in 1..Len(store) : store[i].by # r
        /\ pc[r] # "done" => resp[r] = "none"

\* Version numbers grow, and sessions are based on past versions.
Numbered ==
    /\ \A i \in 1..Len(store) : store[i].no \in 1..lastNo
    /\ \A i, j \in 1..Len(store) : i < j => store[i].no < store[j].no
    /\ \A r \in Requests : base[r] <= lastNo /\ rec[r].no <= lastNo

\* A request that is about to create a version has seen the latest one, or
\* that one is newer than what it has seen.
SeenLatest ==
    \A r \in Requests : store # <<>> /\ Latest.no <= rec[r].no =>
        /\ pc[r] \in {"bulk", "send"} /\ kind[r] = "data" => rec[r].tag = Latest.tag
        /\ pc[r] = "create" /\ kind[r] = "post" => rec[r].bulk = Latest.bulk

\* A commit that has fetched its fromVersion works on the bulk of that
\* version, and its own bulk holds the rows of that one.
BasedOnFromVersion ==
    \A r \in Requests, i \in 1..Len(store) :
        kind[r] = "commit" /\ store[i].no = base[r] =>
            /\ pc[r] = "bulk" => rec[r].bulk = store[i].bulk
            /\ merge[r] /\ rows[r] # {} /\ store[i].bulk # Nobody =>
                    rows[store[i].bulk] \subseteq rows[r]

\* The versions a commit has created refer to its bulk.
CommitsOwnBulk ==
    \A r \in Requests :
        /\ kind[r] = "commit" =>
             \A i \in 1..Len(store) :
                store[i].by = r => store[i].bulk = r /\ rows[r] # {}
        /\ pc[r] \in {"bulk", "send"} => kind[r] \in {"data", "commit"}
        /\ pc[r] = "check" => kind[r] = "post"
        /\ pc[r] = "create" => kind[r] \in {"post", "bare"}

RecordInv ==
    /\ TypeOK
    /\ SoundUris
    /\ WrittenOnce
    /\ Numbered
    /\ SeenLatest
    /\ LossesAreRaces
    /\ BasedOnFromVersion
    /\ CommitsOwnBulk

=============================================================================
