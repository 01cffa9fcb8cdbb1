------------------------- MODULE SessionCompletion -------------------------
(***************************************************************************)
(* The life of one bulk-writing session of the wellbore DDMS and of the    *)
(* HTTP requests that act on it, whichever replica of the service serves   *)
(* them.                                                                   *)
(*                                                                         *)
(* A session is a JSON blob (sessions_storage.py).  The service keeps no   *)
(* other lock: a request that completes the session reads the blob, checks *)
(* the state it read against the update matrix of _update_session_state,   *)
(* and writes the blob back with `if_match = etag`.  Between the two       *)
(* writes of a completion (Committing, then Committed) lies the work of    *)
(* complete_session (bulk_routes.py): fetch the record, ask the worker to  *)
(* aggregate the chunks into one bulk, send a new record version.          *)
(*                                                                         *)
(* Every remote call is one step, so other requests run in between, and a  *)
(* replica may crash between any two of them.  A read of the blob is two   *)
(* remote calls run by asyncio.gather, one for the metadata (the etag) and *)
(* one for the content, served in either order.                            *)
(*                                                                         *)
(* A request is abstracted to its identity; chunk r is the chunk sent by   *)
(* request r.  Time is counted in ticks; Timeout stands for 5 minutes.     *)
(***************************************************************************)
EXTENDS Naturals, FiniteSets

CONSTANTS
    Requests,   \* HTTP requests, each served at most once
    Offered,    \* kinds of request the clients send
    Timeout,    \* idle time after which a completion may be taken over
    MaxTime,    \* bound on the clock
    MaxTries    \* DE_CLIENT_BACKOFF_MAX_RETRIES

ASSUME TimeoutAssumption == Timeout \in Nat \ {0}
ASSUME OfferedAssumption ==
    Offered \subseteq {"commit", "abandon", "chunk", "delete"}
ASSUME MaxTimeAssumption == MaxTime \in Nat
ASSUME MaxTriesAssumption == MaxTries \in Nat \ {0}

VARIABLES
    blob,       \* the session's blob
    now,        \* the clock
    pc,         \* where each request is
    kind,       \* what each request asks for
    meta,       \* etag a request has downloaded, 0 when it has not
    cont,       \* content a request has downloaded, NoContent when it has not
    stamp,      \* updatedTime put in the content a request is about to upload
    resp,       \* HTTP outcome given to the client
    chunks,     \* chunks the worker has stored for the session
    bulk,       \* chunks in the bulk the worker built for a request
    tries,      \* lost answers of the storage service met by a request
    versions,   \* record versions published from the session
    lastVersion,\* number of the last published version
    ackedBefore \* history: chunks acknowledged when the request was received

vars == <<blob, now, pc, kind, meta, cont, stamp, resp, chunks, bulk, tries,
          versions, lastVersion, ackedBefore>>

workVars == <<chunks, bulk, tries, versions, lastVersion>>

-----------------------------------------------------------------------------
(* The vocabulary.                                                         *)

SessionState == {"open", "committing", "abandoning", "committed", "abandoned"}
Closed == {"committed", "abandoned"}        \* Session.is_closed
Busy == {"committing", "abandoning"}

\* "none": not created yet.  "deleted": the blob no longer exists.
BlobState == SessionState \cup {"none", "deleted"}
Exists(b) == b.state \in SessionState

\* The content of the blob.  Its etag is kept with it: the code cannot see
\* which version of the blob a downloaded content belongs to, properties can.
Content == [etag : Nat, state : BlobState, updated : Nat]
NoContent == [etag |-> 0, state |-> "none", updated |-> 0]

Completion == {"commit", "abandon"}
Kind == Completion \cup {"chunk", "delete"}

\* Phases of a request that is reading the session blob:
\*   enter   _get_session of __aenter__, post_chunk_data or delete_session
\*   exitok  _get_session of __aexit__ after the body succeeded
\*   exitko  _get_session of __aexit__ after the body raised
Reading == {"enter", "exitok", "exitko"}
\* Phases of a request about to upload the session blob.
Storing == {"claim", "close", "reopen"}
\* The awaits of the body of the commit's `async with`.
Body == {"fetch", "worker", "send"}
Phase == Reading \cup Storing \cup Body
            \cup {"new", "chunk", "delete", "done", "crashed"}

Response == {"none", "ok", "rejected", "precondition", "notfound", "error"}

Version == [no : Nat, by : Requests, chunks : SUBSET Requests]

\* Mutant: the state named in the request (UpdateSessionStateValue) is stored.
InProgressRaw(k) == k

\* The states a completion writes on entry, and on exit after success.
InProgress(k) == IF k = "commit" THEN "committing" ELSE "abandoning"
Completed(k) == IF k = "commit" THEN "committed" ELSE "abandoned"

\* The state that the upload pending at phase p writes.
Target(p, k) ==
    IF p = "claim" THEN InProgress(k)
    ELSE IF p = "close" THEN Completed(k) ELSE "open"

\* A request holds the session between the two writes of its completion.
Armed(r) == pc[r] \in Body \cup {"exitok", "exitko", "close", "reopen"}

ReadDone(r) == meta[r] # 0 /\ cont[r].etag # 0

\* The content and the etag a request works with are of one version.
Untorn(r) == cont[r].etag = meta[r]

AckedChunks == {r \in Requests : kind[r] = "chunk" /\ resp[r] = "ok"}

-----------------------------------------------------------------------------
(* Moves of a request.                                                     *)

\* The request answers (or its exception reaches the client).
Finish(r, code) ==
    /\ pc' = [pc EXCEPT ![r] = "done"]
    /\ resp' = [resp EXCEPT ![r] = code]
    /\ meta' = [meta EXCEPT ![r] = 0]
    /\ cont' = [cont EXCEPT ![r] = NoContent]
    /\ stamp' = [stamp EXCEPT ![r] = 0]

\* The request goes on; what it had read of the blob is dropped.
Goto(r, p) ==
    /\ pc' = [pc EXCEPT ![r] = p]
    /\ meta' = [meta EXCEPT ![r] = 0]
    /\ cont' = [cont EXCEPT ![r] = NoContent]
    /\ stamp' = [stamp EXCEPT ![r] = 0]
    /\ UNCHANGED resp

\* The request is about to upload a content whose updatedTime is now.
Prepare(r, p) ==
    /\ pc' = [pc EXCEPT ![r] = p]
    /\ stamp' = [stamp EXCEPT ![r] = now]
    /\ UNCHANGED <<meta, cont, resp>>

-----------------------------------------------------------------------------
Init ==
    /\ blob = NoContent
    /\ now = 0
    /\ pc = [r \in Requests |-> "new"]
    /\ kind = [r \in Requests |-> "chunk"]
    /\ meta = [r \in Requests |-> 0]
    /\ cont = [r \in Requests |-> NoContent]
    /\ stamp = [r \in Requests |-> 0]
    /\ resp = [r \in Requests |-> "none"]
    /\ chunks = {}
    /\ bulk = [r \in Requests |-> {}]
    /\ tries = [r \in Requests |-> 0]
    /\ versions = {}
    /\ lastVersion = 0
    /\ ackedBefore = [r \in Requests |-> {}]

(* SessionsStorage.create_session: an unconditional upload under a fresh   *)
(* uuid, so it happens once.                                               *)
CreateSession ==
    /\ blob.state = "none"
    /\ blob' = [etag |-> 1, state |-> "open", updated |-> now]
    /\ UNCHANGED <<now, pc, kind, meta, cont, stamp, resp, workVars,
                   ackedBefore>>

(* A request naming the session is received; its handler starts with       *)
(* _get_session.                                                           *)
Receive(r, k) ==
    /\ blob.state # "none"
    /\ pc[r] = "new"
    /\ pc' = [pc EXCEPT ![r] = "enter"]
    /\ kind' = [kind EXCEPT ![r] = k]
    /\ ackedBefore' = [ackedBefore EXCEPT ![r] = AckedChunks]
    /\ UNCHANGED <<blob, now, meta, cont, stamp, resp, workVars>>

(* ---- _get_session: gather(download_metadata, download) ---------------- *)

DownloadMetadata(r) ==
    /\ pc[r] \in Reading
    /\ meta[r] = 0
    /\ Exists(blob)
    /\ meta' = [meta EXCEPT ![r] = blob.etag]
    /\ UNCHANGED <<blob, now, pc, kind, cont, stamp, resp, workVars,
                   ackedBefore>>

DownloadContent(r) ==
    /\ pc[r] \in Reading
    /\ cont[r].etag = 0
    /\ Exists(blob)
    /\ cont' = [cont EXCEPT ![r] = blob]
    /\ UNCHANGED <<blob, now, pc, kind, meta, stamp, resp, workVars,
                   ackedBefore>>

\* Mutant: a missing session is waited for.
SessionNotFoundWaits(r) ==
    /\ pc[r] \in Reading
    /\ ~ReadDone(r)
    /\ ~Exists(blob)
    /\ Goto(r, pc[r])
    /\ UNCHANGED <<blob, now, kind, workVars, ackedBefore>>

(* Either download finds no blob: SessionNotFound, which every route but   *)
(* delete_session turns into a 404.                                        *)
SessionNotFound(r) ==
    /\ pc[r] \in Reading
    /\ ~ReadDone(r)
    /\ ~Exists(blob)
    /\ Finish(r, IF kind[r] = "delete" THEN "error" ELSE "notfound")
    /\ UNCHANGED <<blob, now, kind, workVars, ackedBefore>>

(* ---- CompletionContextManager and _update_session_state --------------- *)

\* elapsed_since_update < 5 min for the content the request has read.
RecentlyUpdated(c) == now < c.updated + Timeout

\* Mutants: no timeout, no is_closed check, no check of abandoning.
MayStartAnyTime(c, k) ==
    \/ c.state = "open"
    \/ c.state \in Busy /\ ~(k = "commit" /\ c.state = "abandoning")
MayStartClosed(c, k) ==
    \/ c.state = "open"
    \/ /\ ~RecentlyUpdated(c)
       /\ ~(k = "commit" /\ c.state = "abandoning")
MayStartAbandoning(c, k) ==
    \/ c.state = "open"
    \/ c.state \in Busy /\ ~RecentlyUpdated(c)

\* The matrix, for the states requested on entry.
MayStart(c, k) ==
    \/ c.state = "open"
    \/ /\ c.state \in Busy
       /\ ~RecentlyUpdated(c)
       /\ ~(k = "commit" /\ c.state = "abandoning")

(* __aenter__: request Committing or Abandoning.                           *)
AEnter(r) ==
    /\ pc[r] = "enter"
    /\ kind[r] \in Completion
    /\ ReadDone(r)
    /\ \/ MayStart(cont[r], kind[r]) /\ Prepare(r, "claim")
       \/ ~MayStart(cont[r], kind[r]) /\ Finish(r, "rejected")
    /\ UNCHANGED <<blob, now, kind, workVars, ackedBefore>>

(* __aexit__ after success: request Committed or Abandoned.  A closed      *)
(* session raises SessionInvalidState, another state trips an assertion.   *)
AExitSuccess(r) ==
    /\ pc[r] = "exitok"
    /\ ReadDone(r)
    /\ \/ cont[r].state = InProgress(kind[r]) /\ Prepare(r, "close")
       \/ cont[r].state \in Closed /\ Finish(r, "rejected")
       \/ /\ cont[r].state \notin Closed \cup {InProgress(kind[r])}
          /\ Finish(r, "error")
    /\ UNCHANGED <<blob, now, kind, workVars, ackedBefore>>

\* Mutant: __aexit__ does nothing after an exception.
AExitFailureIgnored(r) ==
    /\ pc[r] = "exitko"
    /\ ReadDone(r)
    /\ Finish(r, "error")
    /\ UNCHANGED <<blob, now, kind, workVars, ackedBefore>>

(* __aexit__ after an exception: Open with force_update, nothing checked.  *)
AExitFailure(r) ==
    /\ pc[r] = "exitko"
    /\ ReadDone(r)
    /\ Prepare(r, "reopen")
    /\ UNCHANGED <<blob, now, kind, workVars, ackedBefore>>

\* Mutants: an upload that recreates a deleted blob, one without if_match.
IfMatchOrGone(r) == blob.etag = meta[r]
IfExists(r) == Exists(blob)

\* The conditional upload succeeds: the blob exists with the expected etag.
IfMatch(r) == Exists(blob) /\ blob.etag = meta[r]

\* Where a request goes once its upload is done.  An abandon has no body.
AfterStore(r) ==
    \/ pc[r] = "claim" /\ kind[r] = "commit" /\ Goto(r, "fetch")
    \/ pc[r] = "claim" /\ kind[r] = "abandon" /\ Goto(r, "exitok")
    \/ pc[r] = "close" /\ Finish(r, "ok")
    \/ pc[r] = "reopen" /\ Finish(r, "error")

(* _store_session: upload with if_match.                                   *)
StoreSession(r) ==
    /\ pc[r] \in Storing
    /\ IfMatch(r)
    /\ blob' = [etag |-> blob.etag + 1,
                state |-> Target(pc[r], kind[r]),
                updated |-> stamp[r]]
    /\ AfterStore(r)
    /\ UNCHANGED <<now, kind, workVars, ackedBefore>>

(* The precondition fails: SessionUpdatedEtagUnmatched.                    *)
StoreSessionUnmatched(r) ==
    /\ pc[r] \in Storing
    /\ ~IfMatch(r)
    /\ Finish(r, "precondition")
    /\ UNCHANGED <<blob, now, kind, workVars, ackedBefore>>

(* ---- complete_session: the body of the commit ------------------------- *)

FetchRecord(r) ==
    /\ pc[r] = "fetch"
    /\ Goto(r, "worker")
    /\ UNCHANGED <<blob, now, kind, workVars, ackedBefore>>

(* write_complete_session: the worker aggregates the chunks it has.        *)
WriteCompleteSession(r) ==
    /\ pc[r] = "worker"
    /\ bulk' = [bulk EXCEPT ![r] = chunks]
    /\ Goto(r, "send")
    /\ UNCHANGED <<blob, now, kind, chunks, tries, versions, lastVersion,
                   ackedBefore>>

\* The storage service creates a record version referring to r's bulk.
Publish(r) ==
    /\ lastVersion' = lastVersion + 1
    /\ versions' = versions \cup
            {[no |-> lastVersion + 1, by |-> r, chunks |-> bulk[r]]}

(* set_bulk_field_and_send_record.                                         *)
SendRecord(r) ==
    /\ pc[r] = "send"
    /\ Publish(r)
    /\ Goto(r, "exitok")
    /\ UNCHANGED <<blob, now, kind, chunks, bulk, tries, ackedBefore>>

(* The version is created but the answer is lost (timeout or protocol      *)
(* error): backoff_middleware sends the same request again, up to          *)
(* max_tries in all, and then lets the exception out.                      *)
SendRecordAnswerLost(r) ==
    /\ pc[r] = "send"
    /\ Publish(r)
    /\ tries' = [tries EXCEPT ![r] = @ + 1]
    /\ Goto(r, IF tries[r] + 1 < MaxTries THEN "send" ELSE "exitko")
    /\ UNCHANGED <<blob, now, kind, chunks, bulk, ackedBefore>>

\* Mutant: the exception is swallowed inside the `async with`.
BodySwallows(r) ==
    /\ pc[r] \in Body
    /\ Goto(r, "exitok")
    /\ UNCHANGED <<blob, now, kind, workVars, ackedBefore>>

(* A step of the body raises: record or version not found, wrong kind,     *)
(* invalid bulk URI, worker error, inconsistent bulk (found out after the  *)
(* worker has written it), refused or unreachable storage service.         *)
BodyRaises(r) ==
    /\ pc[r] \in Body
    /\ Goto(r, "exitko")
    /\ UNCHANGED <<blob, now, kind, workVars, ackedBefore>>

(* ---- post_chunk_data -------------------------------------------------- *)

CheckSessionOpen(r) ==
    /\ pc[r] = "enter"
    /\ kind[r] = "chunk"
    /\ ReadDone(r)
    /\ \/ cont[r].state = "open" /\ Goto(r, "chunk")
       \/ cont[r].state # "open" /\ Finish(r, "rejected")
    /\ UNCHANGED <<blob, now, kind, workVars, ackedBefore>>

\* Mutant: the chunk is acknowledged before the worker has stored it.
WriteChunkUnstored(r) ==
    /\ pc[r] = "chunk"
    /\ Finish(r, "ok")
    /\ UNCHANGED <<blob, now, kind, workVars, ackedBefore>>

WriteChunk(r) ==
    /\ pc[r] = "chunk"
    /\ chunks' = chunks \cup {r}
    /\ Finish(r, "ok")
    /\ UNCHANGED <<blob, now, kind, bulk, tries, versions, lastVersion,
                   ackedBefore>>

(* The worker fails, before or after it has stored the chunk.              *)
WriteChunkFails(r) ==
    /\ pc[r] = "chunk"
    /\ chunks' \in {chunks, chunks \cup {r}}
    /\ Finish(r, "error")
    /\ UNCHANGED <<blob, now, kind, bulk, tries, versions, lastVersion,
                   ackedBefore>>

(* ---- delete_session --------------------------------------------------- *)

(* The route always forces the deletion, whatever the state that was read. *)
CheckDeletable(r) ==
    /\ pc[r] = "enter"
    /\ kind[r] = "delete"
    /\ ReadDone(r)
    /\ Goto(r, "delete")
    /\ UNCHANGED <<blob, now, kind, workVars, ackedBefore>>

(* An unconditional delete; deleting a blob that is gone raises.           *)
DeleteBlob(r) ==
    /\ pc[r] = "delete"
    /\ blob' = [blob EXCEPT !.state = "deleted"]
    /\ Finish(r, IF Exists(blob) THEN "ok" ELSE "error")
    /\ UNCHANGED <<now, kind, workVars, ackedBefore>>

(* ---- environment ------------------------------------------------------ *)

(* The replica dies, or the answer of a blob-store call is lost so that    *)
(* the exception leaves the context manager: nothing more is done.         *)
Crash(r) ==
    /\ pc[r] \notin {"new", "done", "crashed"}
    /\ Goto(r, "crashed")
    /\ UNCHANGED <<blob, now, kind, workVars, ackedBefore>>

Tick ==
    /\ now < MaxTime
    /\ now' = now + 1
    /\ UNCHANGED <<blob, pc, kind, meta, cont, stamp, resp, workVars,
                   ackedBefore>>

-----------------------------------------------------------------------------
\* The steps the service takes by itself for a request it has received.
Serve(r) ==
    \/ DownloadMetadata(r) \/ DownloadContent(r) \/ SessionNotFound(r)
    \/ AEnter(r) \/ AExitSuccess(r) \/ AExitFailure(r)
    \/ StoreSession(r) \/ StoreSessionUnmatched(r)
    \/ FetchRecord(r) \/ WriteCompleteSession(r) \/ SendRecord(r)
    \/ SendRecordAnswerLost(r) \/ BodyRaises(r)
    \/ CheckSessionOpen(r) \/ WriteChunk(r) \/ WriteChunkFails(r)
    \/ CheckDeletable(r) \/ DeleteBlob(r)

Next ==
    \/ CreateSession
    \/ \E r \in Requests, k \in Offered : Receive(r, k)
    \/ \E r \in Requests : Serve(r) \/ Crash(r)
    \/ Tick

Spec == Init /\ [][Next]_vars

(* The service serves every request it has received: uvicorn's event loop  *)
(* resumes a coroutine whose call has ended, and every remote call ends    *)
(* (clients have timeouts).  Nothing makes clients send requests, or the   *)
(* clock advance.                                                          *)
FairSpec == Spec /\ \A r \in Requests : WF_vars(Serve(r))

(***************************************************************************)
(* What has to hold around the code for the etag protocol to give          *)
(* exclusive completions.  Crashes, failures, deletions, lost answers and  *)
(* every interleaving remain.                                              *)
(***************************************************************************)

\* No completion lasts as long as the take-over timeout: the clock does not
\* tick during one.
CompletionUnderWay(r) == kind[r] \in Completion /\ (Armed(r) \/ pc[r] = "claim")
PromptCompletions ==
    now' # now => \A r \in Requests : ~CompletionUnderWay(r)

\* The two downloads a request decides on return one version of the blob.
UntornReads ==
    \A r \in Requests :
        (ReadDone(r) /\ pc'[r] \notin {pc[r], "crashed"}) => Untorn(r)

CalmNext == Next /\ PromptCompletions /\ UntornReads

CalmSpec == Init /\ [][CalmNext]_vars

-----------------------------------------------------------------------------
(* Properties.                                                             *)

(* Type correctness.                                                       *)
TypeOK ==
    /\ blob \in Content
    /\ now \in Nat
    /\ pc \in [Requests -> Phase]
    /\ kind \in [Requests -> Kind]
    /\ meta \in [Requests -> Nat]
    /\ cont \in [Requests -> Content]
    /\ stamp \in [Requests -> Nat]
    /\ resp \in [Requests -> Response]
    /\ chunks \subseteq Requests
    /\ bulk \in [Requests -> SUBSET Requests]
    /\ tries \in [Requests -> Nat]
    /\ versions \subseteq Version
    /\ lastVersion \in Nat
    /\ ackedBefore \in [Requests -> SUBSET Requests]

(* A session is only ever Committed when a record version was published    *)
(* from it, and a commit answered with success has published one itself,   *)
(* whatever crashes, take-overs and failures came before                   *)
(* (complete_session: the version is sent inside the `async with`).        *)
CommitPublishes ==
    /\ blob.state = "committed" => versions # {}
    /\ \A r \in Requests :
          kind[r] = "commit" /\ resp[r] = "ok" => \E v \in versions : v.by = r

(* Every version holds all the chunks that had been acknowledged to their  *)
(* senders when the commit that published it was received ("commit the     *)
(* session once all chunks are sent").                                     *)
AckedChunksPublished ==
    \A v \in versions : ackedBefore[v.by] \subseteq v.chunks

(* The rows and columns of the matrix of _update_session_state: the first  *)
(* set is allowed at any time, the second only after the timeout.          *)
MatrixOK == {<<"open", "committing">>, <<"open", "abandoning">>,
             <<"committing", "committed">>, <<"abandoning", "abandoned">>}
MatrixIfTimeout == {<<"committing", "committing">>,
                    <<"committing", "abandoning">>,
                    <<"abandoning", "abandoning">>}

\* In this step request r updates the session.
Stores(r) == pc[r] \in Storing /\ pc'[r] # pc[r] /\ blob' # blob

(* Every update of the stored state that is based on an untorn read is in  *)
(* the matrix, judged against the state it really replaces, or is the      *)
(* forced rollback of __aexit__.                                           *)
UpdateMatrix ==
    [][\A r \in Requests :
          Stores(r) /\ Untorn(r) =>
            \/ pc[r] = "reopen" /\ blob'.state = "open"
            \/ <<blob.state, blob'.state>> \in MatrixOK
            \/ /\ <<blob.state, blob'.state>> \in MatrixIfTimeout
               /\ now >= blob.updated + Timeout]_vars

(* A deleted session never comes back, even when a completion or its       *)
(* rollback was under way (delete_session is unconditional; the uploads    *)
(* that follow are conditional).                                           *)
DeletedIsFinal == [][blob.state = "deleted" => blob'.state = "deleted"]_vars

(* A session left in Committing or Abandoning is the work of a crash: in   *)
(* any other case its holder closes it, rolls it back or loses it to a     *)
(* later holder that does.                                                 *)
BusySessionReleased ==
    blob.state \in Busy ~>
        (blob.state \notin Busy \/ \E r \in Requests : pc[r] = "crashed")

(* Every request that is received is answered, unless its replica dies.    *)
EveryRequestEnds ==
    \A r \in Requests : pc[r] = "enter" ~> pc[r] \in {"done", "crashed"}

(* At most one request is between the two writes of a completion           *)
(* (test_cannot_initiate_completion_invalid_state: "cannot initiate        *)
(* another completion").                                                   *)
ExclusiveCompletion ==
    \A r, s \in Requests : Armed(r) /\ Armed(s) => r = s

(* A Committed or Abandoned session keeps its state until it is deleted    *)
(* (rows "committed" and "abandoned" of the matrix).                       *)
ClosedIsFinal ==
    [][blob.state \in Closed => blob'.state \in {blob.state, "deleted"}]_vars

(* A session yields a single version, not counting those of commits that   *)
(* crashed or lost an answer of the storage service (sessions.py: "A new   *)
(* single version is created only at session completion").                 *)
UndisturbedVersions ==
    {v \in versions : pc[v.by] # "crashed" /\ tries[v.by] = 0}
SingleVersion ==
    \A v, w \in UndisturbedVersions : v = w

(* An upload replaces the very version of the session whose content the    *)
(* request examined (_update_session_state: "if session has been updated   *)
(* meanwhile, this call will fail").                                       *)
EtagGuardsContent ==
    [][\A r \in Requests : Stores(r) => cont[r].etag = blob.etag]_vars

(* In a calm environment the session behaves as SessionLifecycle says.     *)
Lifecycle ==
    INSTANCE SessionLifecycle WITH state <- blob.state,
                                   published <- lastVersion
ImplementsLifecycle == Lifecycle!Spec

=============================================================================
