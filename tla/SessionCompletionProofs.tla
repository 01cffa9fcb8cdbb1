---------------------- MODULE SessionCompletionProofs ----------------------
(***************************************************************************)
(* What SessionCompletion guarantees of the code as it is, in every        *)
(* environment: for any number of requests, any timeout, any time to live, *)
(* torn reads and take-overs included.  The inductive invariant is CodeInv *)
(* (SessionInvariants); the proof that a step keeps it has one case per    *)
(* action.  Actions that only move a request share the three Quiet lemmas. *)
(***************************************************************************)
EXTENDS SessionInvariants, TLAPS

\* Nothing but the position of the request changes.
Quiet == UNCHANGED <<blob, now, kind, workVars, ackedBefore>>

-----------------------------------------------------------------------------
(* Types.                                                                  *)

LEMMA NoContentType == NoContent \in Content
  BY DEF NoContent, Content, BlobState

\* The moves of a request keep its variables in their types.
LEMMA MoveTypes ==
  ASSUME TypeOK, NEW r \in Requests, NEW p \in Phase, NEW code \in Response,
         \/ Finish(r, code) \/ Goto(r, p) \/ Prepare(r, p)
  PROVE  /\ pc' \in [Requests -> Phase]
         /\ meta' \in [Requests -> Nat]
         /\ cont' \in [Requests -> Content]
         /\ stamp' \in [Requests -> Nat]
         /\ resp' \in [Requests -> Response]
<1>1. CASE Finish(r, code)
  BY <1>1, NoContentType DEF Finish, TypeOK, Phase
<1>2. CASE Goto(r, p)
  BY <1>2, NoContentType DEF Goto, TypeOK
<1>3. CASE Prepare(r, p)
  BY <1>3 DEF Prepare, TypeOK
<1> QED
  BY <1>1, <1>2, <1>3

\* Every step keeps the types.
LEMMA TypeStep == TypeOK /\ [Next]_vars => TypeOK'
<1> SUFFICES ASSUME TypeOK, [Next]_vars PROVE TypeOK'
  OBVIOUS
<1> USE DEF TypeOK, workVars
<1>1. CASE CreateSession
  BY <1>1 DEF CreateSession, Content, BlobState, SessionState
<1>2. ASSUME NEW r \in Requests, NEW k \in Offered, Receive(r, k) PROVE TypeOK'
  BY <1>2, OfferedAssumption
  DEF Receive, Phase, Reading, Kind, Completion, AckedChunks
<1>3. ASSUME NEW r \in Requests, DownloadMetadata(r) PROVE TypeOK'
  BY <1>3 DEF DownloadMetadata, Content
<1>4. ASSUME NEW r \in Requests, DownloadContent(r) PROVE TypeOK'
  BY <1>4 DEF DownloadContent
<1>5. ASSUME NEW r \in Requests, SessionNotFound(r) PROVE TypeOK'
  <2>1. \E p \in Phase, c \in Response :
            Goto(r, p) \/ Finish(r, c) \/ Prepare(r, p)
    BY <1>5 DEF SessionNotFound, Phase, Body, Reading, Storing, Response
  <2> QED
    BY <1>5, <2>1, MoveTypes DEF SessionNotFound
<1>6. ASSUME NEW r \in Requests, AEnter(r) PROVE TypeOK'
  <2>1. \E p \in Phase, c \in Response :
            Goto(r, p) \/ Finish(r, c) \/ Prepare(r, p)
    BY <1>6 DEF AEnter, Phase, Body, Reading, Storing, Response
  <2> QED
    BY <1>6, <2>1, MoveTypes DEF AEnter
<1>7. ASSUME NEW r \in Requests, AExitSuccess(r) PROVE TypeOK'
  <2>1. \E p \in Phase, c \in Response :
            Goto(r, p) \/ Finish(r, c) \/ Prepare(r, p)
    BY <1>7 DEF AExitSuccess, Phase, Body, Reading, Storing, Response
  <2> QED
    BY <1>7, <2>1, MoveTypes DEF AExitSuccess
<1>8. ASSUME NEW r \in Requests, AExitFailure(r) PROVE TypeOK'
  <2>1. \E p \in Phase, c \in Response :
            Goto(r, p) \/ Finish(r, c) \/ Prepare(r, p)
    BY <1>8 DEF AExitFailure, Phase, Body, Reading, Storing, Response
  <2> QED
    BY <1>8, <2>1, MoveTypes DEF AExitFailure
<1>9. ASSUME NEW r \in Requests, StoreSession(r) PROVE TypeOK'
  <2>1. Target(pc[r], kind[r]) \in BlobState
    BY DEF Target, InProgress, Completed, BlobState, SessionState
  <2>2. blob' \in Content
    BY <1>9, <2>1 DEF StoreSession, Content
  <2>3. \E p \in Phase, c \in Response : Goto(r, p) \/ Finish(r, c)
    BY <1>9 DEF StoreSession, AfterStore, Phase, Body, Reading, Response
  <2> QED
    BY <1>9, <2>2, <2>3, MoveTypes DEF StoreSession
<1>10. ASSUME NEW r \in Requests, StoreSessionUnmatched(r) PROVE TypeOK'
  <2>1. \E p \in Phase, c \in Response :
            Goto(r, p) \/ Finish(r, c) \/ Prepare(r, p)
    BY <1>10 DEF StoreSessionUnmatched, Phase, Body, Reading, Storing, Response
  <2> QED
    BY <1>10, <2>1, MoveTypes DEF StoreSessionUnmatched
<1>11. ASSUME NEW r \in Requests, FetchRecord(r) PROVE TypeOK'
  <2>1. \E p \in Phase, c \in Response :
            Goto(r, p) \/ Finish(r, c) \/ Prepare(r, p)
    BY <1>11 DEF FetchRecord, Phase, Body, Reading, Storing, Response
  <2> QED
    BY <1>11, <2>1, MoveTypes DEF FetchRecord
<1>12. ASSUME NEW r \in Requests, WriteCompleteSession(r) PROVE TypeOK'
  <2>1. \E p \in Phase, c \in Response :
            Goto(r, p) \/ Finish(r, c) \/ Prepare(r, p)
    BY <1>12 DEF WriteCompleteSession, Phase, Body, Reading, Storing, Response
  <2> QED
    BY <1>12, <2>1, MoveTypes DEF WriteCompleteSession
<1>13. ASSUME NEW r \in Requests, SendRecord(r) PROVE TypeOK'
  <2>1. \E p \in Phase, c \in Response :
            Goto(r, p) \/ Finish(r, c) \/ Prepare(r, p)
    BY <1>13 DEF SendRecord, Phase, Body, Reading, Storing, Response
  <2> QED
    BY <1>13, <2>1, MoveTypes DEF SendRecord, Publish, Version
<1>14. ASSUME NEW r \in Requests, SendRecordAnswerLost(r) PROVE TypeOK'
  <2>1. \E p \in Phase, c \in Response :
            Goto(r, p) \/ Finish(r, c) \/ Prepare(r, p)
    BY <1>14 DEF SendRecordAnswerLost, Phase, Body, Reading, Storing, Response
  <2> QED
    BY <1>14, <2>1, MoveTypes DEF SendRecordAnswerLost, Publish, Version
<1>15. ASSUME NEW r \in Requests, BodyRaises(r) PROVE TypeOK'
  <2>1. \E p \in Phase, c \in Response :
            Goto(r, p) \/ Finish(r, c) \/ Prepare(r, p)
    BY <1>15 DEF BodyRaises, Phase, Body, Reading, Storing, Response
  <2> QED
    BY <1>15, <2>1, MoveTypes DEF BodyRaises
<1>16. ASSUME NEW r \in Requests, CheckSessionOpen(r) PROVE TypeOK'
  <2>1. \E p \in Phase, c \in Response :
            Goto(r, p) \/ Finish(r, c) \/ Prepare(r, p)
    BY <1>16 DEF CheckSessionOpen, Phase, Body, Reading, Storing, Response
  <2> QED
    BY <1>16, <2>1, MoveTypes DEF CheckSessionOpen
<1>17. ASSUME NEW r \in Requests, WriteChunk(r) PROVE TypeOK'
  <2>1. \E p \in Phase, c \in Response :
            Goto(r, p) \/ Finish(r, c) \/ Prepare(r, p)
    BY <1>17 DEF WriteChunk, Phase, Body, Reading, Storing, Response
  <2> QED
    BY <1>17, <2>1, MoveTypes DEF WriteChunk
<1>18. ASSUME NEW r \in Requests, WriteChunkFails(r) PROVE TypeOK'
  <2>1. \E p \in Phase, c \in Response :
            Goto(r, p) \/ Finish(r, c) \/ Prepare(r, p)
    BY <1>18 DEF WriteChunkFails, Phase, Body, Reading, Storing, Response
  <2> QED
    BY <1>18, <2>1, MoveTypes DEF WriteChunkFails
<1>19. ASSUME NEW r \in Requests, CheckDeletable(r) PROVE TypeOK'
  <2>1. \E p \in Phase, c \in Response :
            Goto(r, p) \/ Finish(r, c) \/ Prepare(r, p)
    BY <1>19 DEF CheckDeletable, Phase, Body, Reading, Storing, Response
  <2> QED
    BY <1>19, <2>1, MoveTypes DEF CheckDeletable
<1>20. ASSUME NEW r \in Requests, DeleteBlob(r) PROVE TypeOK'
  <2>1. \E p \in Phase, c \in Response :
            Goto(r, p) \/ Finish(r, c) \/ Prepare(r, p)
    BY <1>20 DEF DeleteBlob, Phase, Body, Reading, Storing, Response
  <2> QED
    BY <1>20, <2>1, MoveTypes DEF DeleteBlob, Content, BlobState
<1>21. ASSUME NEW r \in Requests, Crash(r) PROVE TypeOK'
  <2>1. \E p \in Phase, c \in Response :
            Goto(r, p) \/ Finish(r, c) \/ Prepare(r, p)
    BY <1>21 DEF Crash, Phase, Body, Reading, Storing, Response
  <2> QED
    BY <1>21, <2>1, MoveTypes DEF Crash
<1>22. CASE Tick
  BY <1>22 DEF Tick
<1>23. CASE UNCHANGED vars
  BY <1>23 DEF vars
<1> QED
  BY <1>1, <1>2, <1>3, <1>4, <1>5, <1>6, <1>7, <1>8, <1>9, <1>10, <1>11, <1>12,
     <1>13, <1>14, <1>15, <1>16, <1>17, <1>18, <1>19, <1>20, <1>21, <1>22, <1>23
  DEF Next, Serve

-----------------------------------------------------------------------------
(* The invariant of the code.                                              *)

LEMMA InitCode == Init => CodeInv
  BY DEF Init, CodeInv, TypeOK, ReadsArePast, PhasesMatchKinds,
      PendingUploadsAllowed, PublishedBeforeExit, CommitPublishes, ChunksKept,
      AckedChunksPublished, Content, NoContent, BlobState, SessionState, Phase,
      Reading, Storing, Body, Kind, Completion, Response, Version, Exists,
      AckedChunks

\* A request that ends without success and without any other effect.
LEMMA QuietFinish ==
  ASSUME CodeInv, TypeOK', NEW r \in Requests, pc[r] # "new",
         NEW code \in Response \ {"ok"}, Finish(r, code), Quiet
  PROVE  CodeInv'
<1> USE DEF CodeInv, TypeOK, Finish, Quiet, workVars
<1>1. ReadsArePast' /\ PhasesMatchKinds'
  BY DEF ReadsArePast, PhasesMatchKinds, ReadDone, Exists, NoContent, Content,
         Body, Storing, Completion
<1>2. PendingUploadsAllowed'
  BY DEF PendingUploadsAllowed, MayStart, RecentlyUpdated
<1>3. PublishedBeforeExit' /\ CommitPublishes'
  BY DEF PublishedBeforeExit, CommitPublishes
<1>4. ChunksKept' /\ AckedChunksPublished'
  BY DEF ChunksKept, AckedChunks, AckedChunksPublished
<1> QED
  BY <1>1, <1>2, <1>3, <1>4

\* A request that goes on to a phase in which it promises nothing yet.
LEMMA QuietGoto ==
  ASSUME CodeInv, TypeOK', NEW r \in Requests, pc[r] # "new",
         NEW p \in {"worker", "exitko", "chunk", "delete", "crashed"},
         p = "worker" => kind[r] = "commit",
         p = "exitko" => kind[r] \in Completion,
         p \in {"chunk", "delete"} => kind[r] = p,
         Goto(r, p), Quiet
  PROVE  CodeInv'
<1> USE DEF CodeInv, TypeOK, Goto, Quiet, workVars
<1>1. ReadsArePast' /\ PhasesMatchKinds'
  BY DEF ReadsArePast, PhasesMatchKinds, ReadDone, Exists, NoContent, Content,
         Body, Storing, Completion
<1>2. PendingUploadsAllowed'
  BY DEF PendingUploadsAllowed, MayStart, RecentlyUpdated
<1>3. PublishedBeforeExit' /\ CommitPublishes'
  BY DEF PublishedBeforeExit, CommitPublishes
<1>4. ChunksKept' /\ AckedChunksPublished'
  BY DEF ChunksKept, AckedChunks, AckedChunksPublished
<1> QED
  BY <1>1, <1>2, <1>3, <1>4

\* A completion that decides to upload a state the matrix allows.
LEMMA QuietPrepare ==
  ASSUME CodeInv, TypeOK', NEW r \in Requests, pc[r] # "new",
         NEW p \in Storing, kind[r] \in Completion, ReadDone(r),
         p = "claim" => MayStart(cont[r], kind[r]),
         p = "close" => /\ pc[r] = "exitok"
                        /\ cont[r].state = InProgress(kind[r]),
         Prepare(r, p), Quiet
  PROVE  CodeInv'
<1> USE DEF CodeInv, TypeOK, Prepare, Quiet, workVars
<1>1. ReadsArePast' /\ PhasesMatchKinds'
  BY DEF ReadsArePast, PhasesMatchKinds, ReadDone, Exists, Content,
         Body, Storing, Completion
<1>2. PendingUploadsAllowed'
  BY DEF PendingUploadsAllowed, MayStart, RecentlyUpdated, Storing
<1>3. PublishedBeforeExit' /\ CommitPublishes'
  BY DEF PublishedBeforeExit, CommitPublishes, Storing
<1>4. ChunksKept' /\ AckedChunksPublished'
  BY DEF ChunksKept, AckedChunks, AckedChunksPublished, Storing
<1> QED
  BY <1>1, <1>2, <1>3, <1>4

\* Every step keeps CodeInv.
LEMMA CodeStep == CodeInv /\ [Next]_vars => CodeInv'
<1> SUFFICES ASSUME CodeInv, [Next]_vars PROVE CodeInv'
  OBVIOUS
<1>t. TypeOK /\ TypeOK'
  BY TypeStep DEF CodeInv
<1> USE DEF CodeInv, TypeOK, workVars, NoContent, Reading, Storing, Body,
            Completion
<1>1. CASE CreateSession
  <2>1. ReadsArePast' /\ PhasesMatchKinds'
    BY <1>1, <1>t
    DEF CreateSession, ReadsArePast, Exists, Content, SessionState,
        PhasesMatchKinds, ReadDone
  <2>2. PendingUploadsAllowed'
    BY <1>1, <1>t
    DEF CreateSession, PendingUploadsAllowed, MayStart, RecentlyUpdated
  <2>3. PublishedBeforeExit' /\ CommitPublishes'
    BY <1>1, <1>t
    DEF CreateSession, PublishedBeforeExit, CommitPublishes,
        PhasesMatchKinds
  <2>4. ChunksKept' /\ AckedChunksPublished'
    BY <1>1, <1>t
    DEF CreateSession, ChunksKept, AckedChunks, AckedChunksPublished,
        PhasesMatchKinds
  <2> QED
    BY <1>t, <2>1, <2>2, <2>3, <2>4
<1>2. ASSUME NEW r \in Requests, NEW k \in Offered, Receive(r, k)
      PROVE  CodeInv'
  <2>1. ReadsArePast' /\ PhasesMatchKinds'
    BY <1>2, <1>t
    DEF Receive, ReadsArePast, Exists, Content, SessionState,
        PhasesMatchKinds, ReadDone
  <2>2. PendingUploadsAllowed'
    BY <1>2, <1>t DEF Receive, PendingUploadsAllowed, MayStart, RecentlyUpdated
  <2>3. PublishedBeforeExit' /\ CommitPublishes'
    BY <1>2, <1>t
    DEF Receive, PublishedBeforeExit, CommitPublishes, PhasesMatchKinds,
        ChunksKept
  <2>4. ChunksKept' /\ AckedChunksPublished'
    BY <1>2, <1>t
    DEF Receive, ChunksKept, AckedChunks, AckedChunksPublished,
        PhasesMatchKinds
  <2> QED
    BY <1>t, <2>1, <2>2, <2>3, <2>4
<1>3. ASSUME NEW r \in Requests, DownloadMetadata(r) PROVE CodeInv'
  <2>1. ReadsArePast' /\ PhasesMatchKinds'
    BY <1>3, <1>t
    DEF DownloadMetadata, ReadsArePast, Exists, Content, SessionState,
        PhasesMatchKinds, ReadDone
  <2>2. PendingUploadsAllowed'
    BY <1>3, <1>t
    DEF DownloadMetadata, PendingUploadsAllowed, MayStart, RecentlyUpdated
  <2>3. PublishedBeforeExit' /\ CommitPublishes'
    BY <1>3, <1>t
    DEF DownloadMetadata, PublishedBeforeExit, CommitPublishes,
        PhasesMatchKinds
  <2>4. ChunksKept' /\ AckedChunksPublished'
    BY <1>3, <1>t
    DEF DownloadMetadata, ChunksKept, AckedChunks, AckedChunksPublished,
        PhasesMatchKinds
  <2> QED
    BY <1>t, <2>1, <2>2, <2>3, <2>4
<1>4. ASSUME NEW r \in Requests, DownloadContent(r) PROVE CodeInv'
  <2>1. ReadsArePast' /\ PhasesMatchKinds'
    BY <1>4, <1>t
    DEF DownloadContent, ReadsArePast, Exists, Content, SessionState,
        PhasesMatchKinds, ReadDone
  <2>2. PendingUploadsAllowed'
    BY <1>4, <1>t
    DEF DownloadContent, PendingUploadsAllowed, MayStart, RecentlyUpdated
  <2>3. PublishedBeforeExit' /\ CommitPublishes'
    BY <1>4, <1>t
    DEF DownloadContent, PublishedBeforeExit, CommitPublishes,
        PhasesMatchKinds
  <2>4. ChunksKept' /\ AckedChunksPublished'
    BY <1>4, <1>t
    DEF DownloadContent, ChunksKept, AckedChunks, AckedChunksPublished,
        PhasesMatchKinds
  <2> QED
    BY <1>t, <2>1, <2>2, <2>3, <2>4
<1>5. ASSUME NEW r \in Requests, SessionNotFound(r) PROVE CodeInv'
  BY <1>5, <1>t, QuietFinish DEF SessionNotFound, Quiet, Response
<1>6. ASSUME NEW r \in Requests, AEnter(r) PROVE CodeInv'
  <2>1. CASE Prepare(r, "claim") /\ MayStart(cont[r], kind[r])
    BY <1>6, <1>t, <2>1, QuietPrepare DEF AEnter, Quiet
  <2>2. CASE Finish(r, "rejected")
    BY <1>6, <1>t, <2>2, QuietFinish DEF AEnter, Quiet, Response
  <2> QED
    BY <1>6, <2>1, <2>2 DEF AEnter
<1>7. ASSUME NEW r \in Requests, AExitSuccess(r) PROVE CodeInv'
  <2>1. CASE Prepare(r, "close") /\ cont[r].state = InProgress(kind[r])
    BY <1>7, <1>t, <2>1, QuietPrepare DEF AExitSuccess, Quiet, PhasesMatchKinds
  <2>2. CASE Finish(r, "rejected") \/ Finish(r, "error")
    BY <1>7, <1>t, <2>2, QuietFinish DEF AExitSuccess, Quiet, Response
  <2> QED
    BY <1>7, <2>1, <2>2 DEF AExitSuccess
<1>8. ASSUME NEW r \in Requests, AExitFailure(r) PROVE CodeInv'
  BY <1>8, <1>t, QuietPrepare DEF AExitFailure, Quiet, PhasesMatchKinds
<1>9. ASSUME NEW r \in Requests, StoreSession(r) PROVE CodeInv'
  <2>1. CASE pc[r] = "claim" /\ kind[r] = "commit" /\ Goto(r, "fetch")
    <3>1. ReadsArePast' /\ PhasesMatchKinds'
      BY <1>9, <1>t, <2>1
      DEF StoreSession, Goto, Target, InProgress, IfMatch, ReadsArePast,
          Exists, Content, SessionState, PhasesMatchKinds, ReadDone
    <3> QED
      BY <1>9, <1>t, <2>1, <3>1
      DEF StoreSession, Goto, Target, InProgress, PendingUploadsAllowed,
          MayStart, RecentlyUpdated, PublishedBeforeExit,
          CommitPublishes, PhasesMatchKinds, ChunksKept, AckedChunks,
          AckedChunksPublished, PhasesMatchKinds
  <2>2. CASE pc[r] = "claim" /\ kind[r] = "abandon" /\ Goto(r, "exitok")
    <3>1. ReadsArePast' /\ PhasesMatchKinds'
      BY <1>9, <1>t, <2>2
      DEF StoreSession, Goto, Target, InProgress, IfMatch, ReadsArePast,
          Exists, Content, SessionState, PhasesMatchKinds, ReadDone
    <3> QED
      BY <1>9, <1>t, <2>2, <3>1
      DEF StoreSession, Goto, Target, InProgress, PendingUploadsAllowed,
          MayStart, RecentlyUpdated, PublishedBeforeExit,
          CommitPublishes, PhasesMatchKinds, ChunksKept, AckedChunks,
          AckedChunksPublished, PhasesMatchKinds
  <2>3. CASE pc[r] = "close" /\ Finish(r, "ok")
    <3>1. ReadsArePast' /\ PhasesMatchKinds'
      BY <1>9, <1>t, <2>3
      DEF StoreSession, Finish, Target, Completed, IfMatch, ReadsArePast,
          Exists, Content, SessionState, PhasesMatchKinds, ReadDone
    <3> QED
      BY <1>9, <1>t, <2>3, <3>1
      DEF StoreSession, Finish, Target, Completed, PendingUploadsAllowed,
          MayStart, RecentlyUpdated, PublishedBeforeExit,
          CommitPublishes, PhasesMatchKinds, ChunksKept, AckedChunks,
          AckedChunksPublished, PhasesMatchKinds
  <2>4. CASE pc[r] = "reopen" /\ Finish(r, "error")
    <3>1. ReadsArePast' /\ PhasesMatchKinds'
      BY <1>9, <1>t, <2>4
      DEF StoreSession, Finish, Target, IfMatch, ReadsArePast, Exists,
          Content, SessionState, PhasesMatchKinds, ReadDone
    <3> QED
      BY <1>9, <1>t, <2>4, <3>1
      DEF StoreSession, Finish, Target, PendingUploadsAllowed, MayStart,
          RecentlyUpdated, PublishedBeforeExit, CommitPublishes,
          PhasesMatchKinds, ChunksKept, AckedChunks,
          AckedChunksPublished, PhasesMatchKinds
  <2> QED
    BY <1>9, <2>1, <2>2, <2>3, <2>4 DEF StoreSession, AfterStore
<1>10. ASSUME NEW r \in Requests, StoreSessionUnmatched(r) PROVE CodeInv'
  BY <1>10, <1>t, QuietFinish DEF StoreSessionUnmatched, Quiet, Response
<1>11. ASSUME NEW r \in Requests, FetchRecord(r) PROVE CodeInv'
  BY <1>11, <1>t, QuietGoto DEF FetchRecord, Quiet, PhasesMatchKinds
<1>12. ASSUME NEW r \in Requests, WriteCompleteSession(r) PROVE CodeInv'
  <2>1. ReadsArePast' /\ PhasesMatchKinds'
    BY <1>12, <1>t
    DEF WriteCompleteSession, Goto, ReadsArePast, Exists, Content,
        SessionState, PhasesMatchKinds, ReadDone
  <2>2. PendingUploadsAllowed'
    BY <1>12, <1>t
    DEF WriteCompleteSession, Goto, PendingUploadsAllowed, MayStart,
        RecentlyUpdated
  <2>3. PublishedBeforeExit' /\ CommitPublishes'
    BY <1>12, <1>t
    DEF WriteCompleteSession, Goto, PublishedBeforeExit, CommitPublishes,
        PhasesMatchKinds
  <2>4. ChunksKept' /\ AckedChunksPublished'
    BY <1>12, <1>t
    DEF WriteCompleteSession, Goto, ChunksKept, AckedChunks,
        AckedChunksPublished, PhasesMatchKinds
  <2> QED
    BY <1>t, <2>1, <2>2, <2>3, <2>4
<1>13. ASSUME NEW r \in Requests, SendRecord(r) PROVE CodeInv'
  <2>1. ReadsArePast' /\ PhasesMatchKinds'
    BY <1>13, <1>t
    DEF SendRecord, Publish, Goto, ReadsArePast, Exists, Content,
        SessionState, PhasesMatchKinds, ReadDone
  <2>2. PendingUploadsAllowed'
    BY <1>13, <1>t
    DEF SendRecord, Publish, Goto, PendingUploadsAllowed, MayStart,
        RecentlyUpdated
  <2>3. PublishedBeforeExit' /\ CommitPublishes'
    <3> DEFINE v == [no |-> lastVersion + 1, by |-> r, chunks |-> bulk[r]]
    <3>1. v \in versions' /\ v.by = r
      BY <1>13 DEF SendRecord, Publish
    <3>2. versions \subseteq versions' /\ lastVersion' > 0
      BY <1>13, <1>t DEF SendRecord, Publish
    <3> QED
      BY <1>13, <1>t, <3>1, <3>2
      DEF SendRecord, Goto, PublishedBeforeExit, CommitPublishes
  <2>4. ChunksKept' /\ AckedChunksPublished'
    BY <1>13, <1>t
    DEF SendRecord, Publish, Goto, ChunksKept, AckedChunks,
        AckedChunksPublished, PhasesMatchKinds
  <2> QED
    BY <1>t, <2>1, <2>2, <2>3, <2>4
<1>14. ASSUME NEW r \in Requests, SendRecordAnswerLost(r) PROVE CodeInv'
  <2>1. ReadsArePast' /\ PhasesMatchKinds'
    BY <1>14, <1>t
    DEF SendRecordAnswerLost, Publish, Goto, ReadsArePast, Exists, Content,
        SessionState, PhasesMatchKinds, ReadDone
  <2>2. PendingUploadsAllowed'
    BY <1>14, <1>t
    DEF SendRecordAnswerLost, Publish, Goto, PendingUploadsAllowed,
        MayStart, RecentlyUpdated
  <2>3. PublishedBeforeExit' /\ CommitPublishes'
    BY <1>14, <1>t
    DEF SendRecordAnswerLost, Publish, Goto, PublishedBeforeExit,
        CommitPublishes, PhasesMatchKinds
  <2>4. ChunksKept' /\ AckedChunksPublished'
    BY <1>14, <1>t
    DEF SendRecordAnswerLost, Publish, Goto, ChunksKept, AckedChunks,
        AckedChunksPublished, PhasesMatchKinds
  <2> QED
    BY <1>t, <2>1, <2>2, <2>3, <2>4
<1>15. ASSUME NEW r \in Requests, BodyRaises(r) PROVE CodeInv'
  BY <1>15, <1>t, QuietGoto DEF BodyRaises, Quiet, PhasesMatchKinds
<1>16. ASSUME NEW r \in Requests, CheckSessionOpen(r) PROVE CodeInv'
  <2>1. CASE Goto(r, "chunk")
    BY <1>16, <1>t, <2>1, QuietGoto DEF CheckSessionOpen, Quiet
  <2>2. CASE Finish(r, "rejected")
    BY <1>16, <1>t, <2>2, QuietFinish DEF CheckSessionOpen, Quiet, Response
  <2> QED
    BY <1>16, <2>1, <2>2 DEF CheckSessionOpen
<1>17. ASSUME NEW r \in Requests, WriteChunk(r) PROVE CodeInv'
  <2>1. ReadsArePast' /\ PhasesMatchKinds'
    BY <1>17, <1>t
    DEF WriteChunk, Finish, ReadsArePast, Exists, Content, SessionState,
        PhasesMatchKinds, ReadDone
  <2>2. PendingUploadsAllowed'
    BY <1>17, <1>t
    DEF WriteChunk, Finish, PendingUploadsAllowed, MayStart,
        RecentlyUpdated
  <2>3. PublishedBeforeExit' /\ CommitPublishes'
    BY <1>17, <1>t
    DEF WriteChunk, Finish, PublishedBeforeExit, CommitPublishes,
        PhasesMatchKinds
  <2>4. ChunksKept' /\ AckedChunksPublished'
    BY <1>17, <1>t
    DEF WriteChunk, Finish, ChunksKept, AckedChunks, AckedChunksPublished,
        PhasesMatchKinds
  <2> QED
    BY <1>t, <2>1, <2>2, <2>3, <2>4
<1>18. ASSUME NEW r \in Requests, WriteChunkFails(r) PROVE CodeInv'
  <2>1. ReadsArePast' /\ PhasesMatchKinds'
    BY <1>18, <1>t
    DEF WriteChunkFails, Finish, ReadsArePast, Exists, Content,
        SessionState, PhasesMatchKinds, ReadDone
  <2>2. PendingUploadsAllowed'
    BY <1>18, <1>t
    DEF WriteChunkFails, Finish, PendingUploadsAllowed, MayStart,
        RecentlyUpdated
  <2>3. PublishedBeforeExit' /\ CommitPublishes'
    BY <1>18, <1>t
    DEF WriteChunkFails, Finish, PublishedBeforeExit, CommitPublishes,
        PhasesMatchKinds
  <2>4. ChunksKept' /\ AckedChunksPublished'
    BY <1>18, <1>t
    DEF WriteChunkFails, Finish, ChunksKept, AckedChunks,
        AckedChunksPublished, PhasesMatchKinds
  <2> QED
    BY <1>t, <2>1, <2>2, <2>3, <2>4
<1>19. ASSUME NEW r \in Requests, CheckDeletable(r) PROVE CodeInv'
  BY <1>19, <1>t, QuietGoto DEF CheckDeletable, Quiet
<1>20. ASSUME NEW r \in Requests, DeleteBlob(r) PROVE CodeInv'
  <2>1. ReadsArePast' /\ PhasesMatchKinds'
    BY <1>20, <1>t
    DEF DeleteBlob, Finish, ReadsArePast, Exists, Content, SessionState,
        PhasesMatchKinds, ReadDone
  <2>2. PendingUploadsAllowed'
    BY <1>20, <1>t
    DEF DeleteBlob, Finish, PendingUploadsAllowed, MayStart,
        RecentlyUpdated
  <2>3. PublishedBeforeExit' /\ CommitPublishes'
    BY <1>20, <1>t
    DEF DeleteBlob, Finish, PublishedBeforeExit, CommitPublishes,
        PhasesMatchKinds
  <2>4. ChunksKept' /\ AckedChunksPublished'
    BY <1>20, <1>t
    DEF DeleteBlob, Finish, ChunksKept, AckedChunks, AckedChunksPublished,
        PhasesMatchKinds
  <2> QED
    BY <1>t, <2>1, <2>2, <2>3, <2>4
<1>21. ASSUME NEW r \in Requests, Crash(r) PROVE CodeInv'
  BY <1>21, <1>t, QuietGoto DEF Crash, Quiet
<1>22. CASE Tick
  <2>1. ReadsArePast' /\ PhasesMatchKinds'
    BY <1>22, <1>t
    DEF Tick, ReadsArePast, Exists, Content, SessionState,
        PhasesMatchKinds, ReadDone
  <2>2. PendingUploadsAllowed'
    BY <1>22, <1>t, TimeoutAssumption
    DEF Tick, Content, PendingUploadsAllowed, MayStart, RecentlyUpdated
  <2>3. PublishedBeforeExit' /\ CommitPublishes'
    BY <1>22, <1>t
    DEF Tick, PublishedBeforeExit, CommitPublishes, PhasesMatchKinds
  <2>4. ChunksKept' /\ AckedChunksPublished'
    BY <1>22, <1>t
    DEF Tick, ChunksKept, AckedChunks, AckedChunksPublished,
        PhasesMatchKinds
  <2> QED
    BY <1>t, <2>1, <2>2, <2>3, <2>4
<1>23. CASE UNCHANGED vars
  BY <1>23
  DEF vars, ReadsArePast, Exists, Content, SessionState, PhasesMatchKinds,
      ReadDone, PendingUploadsAllowed, MayStart, RecentlyUpdated,
      PublishedBeforeExit, CommitPublishes, PhasesMatchKinds, ChunksKept,
      AckedChunks, AckedChunksPublished, PhasesMatchKinds
<1> QED
  BY <1>1, <1>2, <1>3, <1>4, <1>5, <1>6, <1>7, <1>8, <1>9, <1>10, <1>11,
      <1>12, <1>13, <1>14, <1>15, <1>16, <1>17, <1>18, <1>19, <1>20, <1>21,
      <1>22, <1>23
  DEF Next, Serve

-----------------------------------------------------------------------------
(* What holds of every behaviour of the code.                              *)

\* The inductive invariant holds of the code as it is: what a request has
\* read is never newer than the blob, an upload is pending only for a state
\* that the content read allows, and a commit reaches its second write only
\* after its version was published.
THEOREM CodeInvariant == Spec => []CodeInv
  BY InitCode, CodeStep, PTL DEF Spec

\* Every variable keeps its type, through every interleaving of requests,
\* crashes and clock ticks.
THEOREM TypeCorrect == Spec => []TypeOK
<1>1. CodeInv => TypeOK
  BY DEF CodeInv
<1> QED
  BY <1>1, CodeInvariant, PTL

\* complete_session: a session is Committed only after a version was
\* published from it, and a commit that answers 200 has published one.
THEOREM CommitsArePublished == Spec => []CommitPublishes
<1>1. CodeInv => CommitPublishes
  BY DEF CodeInv
<1> QED
  BY <1>1, CodeInvariant, PTL

\* write_chunk and write_complete_session: no version loses a chunk that
\* was acknowledged before its commit was received.
THEOREM NoAckedChunkLost == Spec => []AckedChunksPublished
<1>1. CodeInv => AckedChunksPublished
  BY DEF CodeInv
<1> QED
  BY <1>1, CodeInvariant, PTL

\* delete_session: no upload under way brings a deleted session back.
THEOREM DeletionIsFinal == Spec => DeletedIsFinal
<1>1. CodeInv /\ [Next]_vars =>
        [blob.state = "deleted" => blob'.state = "deleted"]_vars
  <2> SUFFICES ASSUME blob \in Content, Next, blob.state = "deleted"
               PROVE  blob'.state = "deleted"
    BY DEF vars, CodeInv, TypeOK
  <2>1. ~CreateSession
    BY DEF CreateSession
  <2>2. ASSUME NEW r \in Requests, StoreSession(r) PROVE FALSE
    BY <2>2 DEF StoreSession, IfMatch, Exists, SessionState
  <2>3. ASSUME NEW r \in Requests, DeleteBlob(r) PROVE blob'.state = "deleted"
    BY <2>3 DEF DeleteBlob, Content
  <2> QED
    BY <2>1, <2>2, <2>3
    DEF Next, Serve, Receive, DownloadMetadata, DownloadContent,
        SessionNotFound, AEnter, AExitSuccess, AExitFailure,
        StoreSessionUnmatched, FetchRecord, WriteCompleteSession, SendRecord,
        SendRecordAnswerLost, BodyRaises, CheckSessionOpen, WriteChunk,
        WriteChunkFails, CheckDeletable, Crash, Tick
<1> QED
  BY <1>1, CodeInvariant, PTL DEF Spec, DeletedIsFinal

\* A step in which a request updates the session is its conditional upload.
LEMMA StoresIsStoreSession ==
  ASSUME TypeOK, Next, NEW r \in Requests, Stores(r)
  PROVE  StoreSession(r)
<1> USE DEF Stores, TypeOK, Storing, Reading, Body, workVars
<1>1. ASSUME NEW s \in Requests, StoreSession(s) PROVE StoreSession(r)
  <2>1. pc'[r] # pc[r] => r = s
    BY <1>1 DEF StoreSession, AfterStore, Finish, Goto
  <2> QED
    BY <1>1, <2>1
<1>2. ASSUME NEW s \in Requests, DeleteBlob(s) PROVE FALSE
  BY <1>2 DEF DeleteBlob, Finish
<1>3. CASE CreateSession
  BY <1>3 DEF CreateSession
<1> QED
  BY <1>1, <1>2, <1>3
  DEF Next, Serve, Receive, DownloadMetadata, DownloadContent,
      SessionNotFound, AEnter, AExitSuccess, AExitFailure,
      StoreSessionUnmatched, FetchRecord, WriteCompleteSession, SendRecord,
      SendRecordAnswerLost, BodyRaises, CheckSessionOpen, WriteChunk,
      WriteChunkFails, CheckDeletable, Crash, Tick

\* _update_session_state: based on an untorn read, no update escapes the
\* matrix, although the clock and the other requests run between the check
\* and the upload.
THEOREM UpdatesFollowMatrix == Spec => UpdateMatrix
<1> DEFINE Allowed(r) ==
        \/ pc[r] = "reopen" /\ blob'.state = "open"
        \/ <<blob.state, blob'.state>> \in MatrixOK
        \/ /\ <<blob.state, blob'.state>> \in MatrixIfTimeout
           /\ now >= blob.updated + Timeout
<1>1. CodeInv /\ [Next]_vars =>
        [\A r \in Requests : Stores(r) /\ Untorn(r) => Allowed(r)]_vars
  <2> SUFFICES ASSUME CodeInv, Next, NEW r \in Requests, Stores(r), Untorn(r)
               PROVE  Allowed(r)
    BY DEF vars
  <2>1. StoreSession(r)
    BY StoresIsStoreSession DEF CodeInv
  <2>2. cont[r] = blob
    BY <2>1 DEF CodeInv, ReadsArePast, StoreSession, IfMatch, Untorn
  <2>3. blob'.state = Target(pc[r], kind[r])
    BY <2>1 DEF StoreSession
  <2>4. CASE pc[r] = "claim"
    <3>1. MayStart(blob, kind[r]) /\ kind[r] \in Completion
      BY <2>2, <2>4
      DEF CodeInv, PendingUploadsAllowed, PhasesMatchKinds, Storing
    <3>2. blob.updated \in Nat /\ now \in Nat /\ Timeout \in Nat
      BY TimeoutAssumption DEF CodeInv, TypeOK, Content
    <3> QED
      BY <2>3, <2>4, <3>1, <3>2
      DEF MayStart, RecentlyUpdated, Completion, Busy, Target, InProgress,
          MatrixOK, MatrixIfTimeout
  <2>5. CASE pc[r] = "close"
    BY <2>2, <2>3, <2>5
    DEF CodeInv, PendingUploadsAllowed, PhasesMatchKinds, Storing, Completion,
        Target, InProgress, Completed, MatrixOK
  <2>6. CASE pc[r] = "reopen"
    BY <2>3, <2>6 DEF Target
  <2> QED
    BY <2>1, <2>4, <2>5, <2>6 DEF StoreSession, Storing
<1> QED
  BY <1>1, CodeInvariant, PTL DEF Spec, UpdateMatrix

=============================================================================
