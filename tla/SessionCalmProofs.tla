------------------------- MODULE SessionCalmProofs -------------------------
(***************************************************************************)
(* What SessionCompletion guarantees in a calm environment (CalmSpec), for *)
(* any number of requests: completions exclude one another, a session      *)
(* yields one version, a closed session stays closed, and the whole        *)
(* implements SessionLifecycle.  The inductive invariant is CalmInv        *)
(* (SessionInvariants); its proof has one case per action and one step per *)
(* conjunct that CodeStep does not give already.                           *)
(***************************************************************************)
EXTENDS SessionCompletionProofs

\* The holder of a session that still exists has read the blob itself.
LEMMA HolderReadsBlob ==
  ASSUME CalmInv, NEW r \in Requests, Armed(r), Exists(blob)
  PROVE  /\ cont[r].etag # 0 => cont[r] = blob
         /\ meta[r] # 0 => meta[r] = blob.etag
  BY DEF CalmInv, CodeInv, HolderOwnsBlob, ReadsArePast

\* A claim that succeeds is made on a session that is not closed.
LEMMA ClaimedNotClosed ==
  ASSUME CalmInv, NEW r \in Requests, pc[r] = "claim", IfMatch(r)
  PROVE  blob.state \in {"open"} \cup Busy
<1>1. cont[r] = blob
  BY
  DEF CalmInv, CodeInv, ClaimsAreFresh, ReadsArePast, IfMatch, Untorn,
      Storing
<1> QED
  BY <1>1 DEF CalmInv, CodeInv, PendingUploadsAllowed, MayStart

\* A session that does not exist although a request names it was deleted.
LEMMA MissingIsDeleted ==
  ASSUME CodeInv, NEW r \in Requests, pc[r] # "new", ~Exists(blob)
  PROVE  blob.state = "deleted"
  BY DEF CodeInv, TypeOK, PhasesMatchKinds, Exists, Content, BlobState

\* Only the holder or a claim made on a free session updates the blob.
LEMMA StoreIsExclusive ==
  ASSUME CalmInv, NEW r \in Requests, pc[r] \in Storing, IfMatch(r)
  PROVE  \A s \in Requests : Armed(s) => s = r
  BY DEF CalmInv, ExclusiveCompletion, ClaimsAreFresh, Armed, Storing

\* Every step of a calm environment keeps the invariant.
LEMMA CalmInductive == CalmInv /\ [CalmNext]_vars => CalmInv'
<1> SUFFICES ASSUME CalmInv, [CalmNext]_vars PROVE CalmInv'
  OBVIOUS
<1>t. TypeOK /\ CodeInv /\ CodeInv'
  BY CodeStep DEF CalmInv, CodeInv, CalmNext
<1>c. UNCHANGED vars \/ (PromptCompletions /\ UntornReads)
  BY DEF CalmNext
<1> USE DEF CalmInv, CodeInv, TypeOK, workVars, Finish, Goto, Prepare, Armed,
    Body, Reading, Storing, Completion, Busy, Closed
<1>1. CASE CreateSession
  <2>1. ExclusiveCompletion'
    BY <1>1, <1>t DEF CreateSession, ExclusiveCompletion
  <2>2. HolderOwnsBlob'
    BY <1>1, <1>t
    DEF CreateSession, HolderOwnsBlob, ExclusiveCompletion, ClaimsAreFresh,
        ReadsArePast, PhasesMatchKinds, Exists, NoContent, Content, IfMatch
  <2>3. ClaimsAreFresh'
    BY <1>1, <1>t
    DEF CreateSession, ClaimsAreFresh, HolderOwnsBlob, ReadsArePast,
        PhasesMatchKinds, IfMatch, Untorn, Exists, ReadDone, NoContent,
        Content
  <2>4. VersionEndsSession'
    BY <1>1, <1>t
    DEF CreateSession, VersionEndsSession, UndisturbedVersions,
        ExclusiveCompletion, HolderOwnsBlob, ClaimsAreFresh
  <2>5. SingleVersion'
    BY <1>1, <1>t
    DEF CreateSession, SingleVersion, UndisturbedVersions,
        VersionEndsSession, ExclusiveCompletion
  <2> QED
    BY <1>t, <2>1, <2>2, <2>3, <2>4, <2>5
<1>2. ASSUME NEW r \in Requests, NEW k \in Offered, Receive(r, k) PROVE CalmInv'
  <2>1. ExclusiveCompletion'
    BY <1>2, <1>t DEF Receive, ExclusiveCompletion
  <2>2. HolderOwnsBlob'
    BY <1>2, <1>t
    DEF Receive, HolderOwnsBlob, ExclusiveCompletion, ClaimsAreFresh,
        ReadsArePast, PhasesMatchKinds, Exists, NoContent, Content, IfMatch
  <2>3. ClaimsAreFresh'
    BY <1>2, <1>t
    DEF Receive, ClaimsAreFresh, HolderOwnsBlob, ReadsArePast,
        PhasesMatchKinds, IfMatch, Untorn, Exists, ReadDone, NoContent,
        Content
  <2>4. VersionEndsSession'
    BY <1>2, <1>t
    DEF Receive, VersionEndsSession, UndisturbedVersions,
        ExclusiveCompletion, HolderOwnsBlob, ClaimsAreFresh
  <2>5. SingleVersion'
    BY <1>2, <1>t
    DEF Receive, SingleVersion, UndisturbedVersions, VersionEndsSession,
        ExclusiveCompletion
  <2> QED
    BY <1>t, <2>1, <2>2, <2>3, <2>4, <2>5
<1>3. ASSUME NEW r \in Requests, DownloadMetadata(r) PROVE CalmInv'
  <2>1. ExclusiveCompletion'
    BY <1>3, <1>t DEF DownloadMetadata, ExclusiveCompletion
  <2>2. HolderOwnsBlob'
    BY <1>3, <1>t
    DEF DownloadMetadata, HolderOwnsBlob, ExclusiveCompletion,
        ClaimsAreFresh, ReadsArePast, PhasesMatchKinds, Exists, NoContent,
        Content, IfMatch
  <2>3. ClaimsAreFresh'
    BY <1>3, <1>t
    DEF DownloadMetadata, ClaimsAreFresh, HolderOwnsBlob, ReadsArePast,
        PhasesMatchKinds, IfMatch, Untorn, Exists, ReadDone, NoContent,
        Content
  <2>4. VersionEndsSession'
    BY <1>3, <1>t
    DEF DownloadMetadata, VersionEndsSession, UndisturbedVersions,
        ExclusiveCompletion, HolderOwnsBlob, ClaimsAreFresh
  <2>5. SingleVersion'
    BY <1>3, <1>t
    DEF DownloadMetadata, SingleVersion, UndisturbedVersions,
        VersionEndsSession, ExclusiveCompletion
  <2> QED
    BY <1>t, <2>1, <2>2, <2>3, <2>4, <2>5
<1>4. ASSUME NEW r \in Requests, DownloadContent(r) PROVE CalmInv'
  <2>1. ExclusiveCompletion'
    BY <1>4, <1>t DEF DownloadContent, ExclusiveCompletion
  <2>2. HolderOwnsBlob'
    BY <1>4, <1>t
    DEF DownloadContent, HolderOwnsBlob, ExclusiveCompletion,
        ClaimsAreFresh, ReadsArePast, PhasesMatchKinds, Exists, NoContent,
        Content, IfMatch
  <2>3. ClaimsAreFresh'
    BY <1>4, <1>t
    DEF DownloadContent, ClaimsAreFresh, HolderOwnsBlob, ReadsArePast,
        PhasesMatchKinds, IfMatch, Untorn, Exists, ReadDone, NoContent,
        Content
  <2>4. VersionEndsSession'
    BY <1>4, <1>t
    DEF DownloadContent, VersionEndsSession, UndisturbedVersions,
        ExclusiveCompletion, HolderOwnsBlob, ClaimsAreFresh
  <2>5. SingleVersion'
    BY <1>4, <1>t
    DEF DownloadContent, SingleVersion, UndisturbedVersions,
        VersionEndsSession, ExclusiveCompletion
  <2> QED
    BY <1>t, <2>1, <2>2, <2>3, <2>4, <2>5
<1>5. ASSUME NEW r \in Requests, SessionNotFound(r) PROVE CalmInv'
  <2>1. ExclusiveCompletion'
    BY <1>5, <1>t DEF SessionNotFound, ExclusiveCompletion
  <2>2. HolderOwnsBlob'
    BY <1>5, <1>t
    DEF SessionNotFound, HolderOwnsBlob, ExclusiveCompletion,
        ClaimsAreFresh, ReadsArePast, PhasesMatchKinds, Exists, NoContent,
        Content, IfMatch
  <2>3. ClaimsAreFresh'
    BY <1>5, <1>t
    DEF SessionNotFound, ClaimsAreFresh, HolderOwnsBlob, ReadsArePast,
        PhasesMatchKinds, IfMatch, Untorn, Exists, ReadDone, NoContent,
        Content
  <2>4. VersionEndsSession'
    <3>1. blob'.state = "deleted"
      BY <1>5, MissingIsDeleted DEF SessionNotFound
    <3>2. CASE Armed(r)
      BY <1>5, <1>t, <3>1, <3>2
      DEF SessionNotFound, VersionEndsSession, ExclusiveCompletion
    <3>3. CASE ~Armed(r)
      BY <1>5, <1>t, <3>3
      DEF SessionNotFound, VersionEndsSession, UndisturbedVersions
    <3> QED
      BY <3>2, <3>3
  <2>5. SingleVersion'
    BY <1>5, <1>t
    DEF SessionNotFound, SingleVersion, UndisturbedVersions,
        VersionEndsSession, ExclusiveCompletion
  <2> QED
    BY <1>t, <2>1, <2>2, <2>3, <2>4, <2>5
<1>6. ASSUME NEW r \in Requests, AEnter(r) PROVE CalmInv'
  <2>1. ExclusiveCompletion'
    BY <1>6, <1>t DEF AEnter, ExclusiveCompletion
  <2>2. HolderOwnsBlob'
    BY <1>6, <1>t
    DEF AEnter, HolderOwnsBlob, ExclusiveCompletion, ClaimsAreFresh,
        ReadsArePast, PhasesMatchKinds, Exists, NoContent, Content, IfMatch
  <2>3. ClaimsAreFresh'
    <3>1. CASE Prepare(r, "claim") /\ MayStart(cont[r], kind[r])
      <4>1. Untorn(r)
        BY <1>6, <1>t, <1>c, <3>1 DEF AEnter, UntornReads, vars
      <4>2. IfMatch(r) => \A s \in Requests : ~Armed(s)
        <5> SUFFICES ASSUME IfMatch(r), NEW s \in Requests, Armed(s) PROVE FALSE
          OBVIOUS
        <5>1. cont[r] = blob
          BY <4>1 DEF ReadsArePast, IfMatch, Untorn
        <5>2. blob.state \in Busy /\ blob.updated = now
          BY DEF HolderOwnsBlob, IfMatch, InProgress
        <5>3. RecentlyUpdated(blob)
          BY <5>2, TimeoutAssumption DEF RecentlyUpdated, Content
        <5> QED
          BY <3>1, <5>1, <5>2, <5>3 DEF MayStart
      <4> QED
        BY <1>6, <1>t, <3>1, <4>1, <4>2
        DEF AEnter, ClaimsAreFresh, IfMatch, Untorn, Exists
    <3>2. CASE Finish(r, "rejected")
      BY <1>6, <1>t, <3>2 DEF AEnter, ClaimsAreFresh, IfMatch, Untorn, Exists
    <3> QED
      BY <1>6, <3>1, <3>2 DEF AEnter
  <2>4. VersionEndsSession'
    <3>1. CASE Prepare(r, "claim") /\ MayStart(cont[r], kind[r])
      BY <1>6, <1>t, <3>1
      DEF AEnter, VersionEndsSession, UndisturbedVersions,
          ExclusiveCompletion, HolderOwnsBlob, ClaimsAreFresh
    <3>2. CASE Finish(r, "rejected")
      BY <1>6, <1>t, <3>2
      DEF AEnter, VersionEndsSession, UndisturbedVersions,
          ExclusiveCompletion, HolderOwnsBlob, ClaimsAreFresh
    <3> QED
      BY <1>6, <3>1, <3>2 DEF AEnter
  <2>5. SingleVersion'
    <3>1. CASE Prepare(r, "claim") /\ MayStart(cont[r], kind[r])
      BY <1>6, <1>t, <3>1
      DEF AEnter, SingleVersion, UndisturbedVersions, VersionEndsSession,
          ExclusiveCompletion
    <3>2. CASE Finish(r, "rejected")
      BY <1>6, <1>t, <3>2
      DEF AEnter, SingleVersion, UndisturbedVersions, VersionEndsSession,
          ExclusiveCompletion
    <3> QED
      BY <1>6, <3>1, <3>2 DEF AEnter
  <2> QED
    BY <1>t, <2>1, <2>2, <2>3, <2>4, <2>5
<1>7. ASSUME NEW r \in Requests, AExitSuccess(r) PROVE CalmInv'
  <2>1. ExclusiveCompletion'
    BY <1>7, <1>t DEF AExitSuccess, ExclusiveCompletion
  <2>2. HolderOwnsBlob'
    <3>1. CASE Prepare(r, "close") /\ cont[r].state = InProgress(kind[r])
      BY <1>7, <1>t, <3>1
      DEF AExitSuccess, HolderOwnsBlob, ExclusiveCompletion,
          ClaimsAreFresh, ReadsArePast, PhasesMatchKinds, Exists,
          NoContent, Content, IfMatch
    <3>2. CASE Finish(r, "rejected")
      BY <1>7, <1>t, <3>2
      DEF AExitSuccess, HolderOwnsBlob, ExclusiveCompletion,
          ClaimsAreFresh, ReadsArePast, PhasesMatchKinds, Exists,
          NoContent, Content, IfMatch
    <3>3. CASE Finish(r, "error")
      BY <1>7, <1>t, <3>3
      DEF AExitSuccess, HolderOwnsBlob, ExclusiveCompletion,
          ClaimsAreFresh, ReadsArePast, PhasesMatchKinds, Exists,
          NoContent, Content, IfMatch
    <3> QED
      BY <1>7, <3>1, <3>2, <3>3 DEF AExitSuccess
  <2>3. ClaimsAreFresh'
    <3>1. CASE Prepare(r, "close")
      BY <1>7, <1>t, <3>1
      DEF AExitSuccess, ClaimsAreFresh, HolderOwnsBlob, ReadsArePast,
          PhasesMatchKinds, IfMatch, Untorn, Exists, ReadDone, NoContent,
          Content
    <3>2. CASE Finish(r, "rejected")
      BY <1>7, <1>t, <3>2
      DEF AExitSuccess, ClaimsAreFresh, HolderOwnsBlob, ReadsArePast,
          PhasesMatchKinds, IfMatch, Untorn, Exists, ReadDone, NoContent,
          Content
    <3>3. CASE Finish(r, "error")
      BY <1>7, <1>t, <3>3
      DEF AExitSuccess, ClaimsAreFresh, HolderOwnsBlob, ReadsArePast,
          PhasesMatchKinds, IfMatch, Untorn, Exists, ReadDone, NoContent,
          Content
    <3> QED
      BY <1>7, <3>1, <3>2, <3>3 DEF AExitSuccess
  <2>4. VersionEndsSession'
    <3>1. CASE Prepare(r, "close")
      BY <1>7, <1>t, <3>1
      DEF AExitSuccess, VersionEndsSession, UndisturbedVersions
    <3>2. CASE pc'[r] = "done" /\ cont[r].state # InProgress(kind[r])
      <4>1. ~Exists(blob)
        BY <1>7, <3>2, HolderReadsBlob
        DEF AExitSuccess, ReadDone, HolderOwnsBlob
      <4>2. blob'.state = "deleted"
        BY <1>7, <4>1, MissingIsDeleted DEF AExitSuccess
      <4>3. \A s \in Requests : ~Armed(s)'
        BY <1>7, <1>t, <3>2 DEF AExitSuccess, ExclusiveCompletion
      <4> QED
        BY <4>2, <4>3 DEF VersionEndsSession
    <3> QED
      BY <1>7, <1>t, <3>1, <3>2 DEF AExitSuccess, InProgress
  <2>5. SingleVersion'
    <3>1. CASE Prepare(r, "close") /\ cont[r].state = InProgress(kind[r])
      BY <1>7, <1>t, <3>1
      DEF AExitSuccess, SingleVersion, UndisturbedVersions,
          VersionEndsSession, ExclusiveCompletion
    <3>2. CASE Finish(r, "rejected")
      BY <1>7, <1>t, <3>2
      DEF AExitSuccess, SingleVersion, UndisturbedVersions,
          VersionEndsSession, ExclusiveCompletion
    <3>3. CASE Finish(r, "error")
      BY <1>7, <1>t, <3>3
      DEF AExitSuccess, SingleVersion, UndisturbedVersions,
          VersionEndsSession, ExclusiveCompletion
    <3> QED
      BY <1>7, <3>1, <3>2, <3>3 DEF AExitSuccess
  <2> QED
    BY <1>t, <2>1, <2>2, <2>3, <2>4, <2>5
<1>8. ASSUME NEW r \in Requests, AExitFailure(r) PROVE CalmInv'
  <2>1. ExclusiveCompletion'
    BY <1>8, <1>t DEF AExitFailure, ExclusiveCompletion
  <2>2. HolderOwnsBlob'
    BY <1>8, <1>t
    DEF AExitFailure, HolderOwnsBlob, ExclusiveCompletion, ClaimsAreFresh,
        ReadsArePast, PhasesMatchKinds, Exists, NoContent, Content, IfMatch
  <2>3. ClaimsAreFresh'
    BY <1>8, <1>t
    DEF AExitFailure, ClaimsAreFresh, HolderOwnsBlob, ReadsArePast,
        PhasesMatchKinds, IfMatch, Untorn, Exists, ReadDone, NoContent,
        Content
  <2>4. VersionEndsSession'
    BY <1>8, <1>t
    DEF AExitFailure, VersionEndsSession, UndisturbedVersions,
        ExclusiveCompletion, HolderOwnsBlob, ClaimsAreFresh
  <2>5. SingleVersion'
    BY <1>8, <1>t
    DEF AExitFailure, SingleVersion, UndisturbedVersions,
        VersionEndsSession, ExclusiveCompletion
  <2> QED
    BY <1>t, <2>1, <2>2, <2>3, <2>4, <2>5
<1>9. ASSUME NEW r \in Requests, StoreSession(r) PROVE CalmInv'
  <2>1. ExclusiveCompletion'
    <3>1. \A s \in Requests : Armed(s) => s = r
      BY <1>9, StoreIsExclusive DEF StoreSession
    <3>2. \A s \in Requests : s # r => pc'[s] = pc[s]
      BY <1>9, <1>t DEF StoreSession, AfterStore
    <3> QED
      BY <3>1, <3>2 DEF ExclusiveCompletion
  <2>2. HolderOwnsBlob'
    <3>1. \A s \in Requests : Armed(s)' => s = r
      BY <1>9, <1>t, StoreIsExclusive DEF StoreSession, AfterStore
    <3>2. CASE pc[r] = "claim"
      <4>1. stamp[r] = now
        BY <3>2 DEF ClaimsAreFresh
      <4>2. blob'.state = InProgress(kind[r]) /\ blob'.updated = now
        BY <1>9, <3>2, <4>1 DEF StoreSession, Target
      <4>3. meta'[r] = 0 /\ cont'[r].etag = 0 /\ kind' = kind /\ now' = now
        BY <1>9, <1>t, <3>2 DEF StoreSession, AfterStore, NoContent
      <4> QED
        BY <3>1, <4>2, <4>3 DEF HolderOwnsBlob
    <3>3. CASE pc[r] # "claim"
      <4>1. ~Armed(r)'
        BY <1>9, <1>t, <3>3 DEF StoreSession, AfterStore
      <4> QED
        BY <3>1, <4>1 DEF HolderOwnsBlob
    <3> QED
      BY <3>2, <3>3
  <2>3. ClaimsAreFresh'
    BY <1>9, <1>t
    DEF StoreSession, AfterStore, ClaimsAreFresh, HolderOwnsBlob,
        ReadsArePast, PhasesMatchKinds, IfMatch, Untorn, Exists, ReadDone,
        NoContent, Content
  <2>4. VersionEndsSession'
    <3>1. \A s \in Requests : Armed(s) => s = r
      BY <1>9, StoreIsExclusive DEF StoreSession
    <3>2. versions' = versions /\ tries' = tries /\ \A s \in Requests : s # r => pc'[s] = pc[s]
      BY <1>9, <1>t DEF StoreSession, AfterStore
    <3>3. CASE pc[r] = "claim"
      <4>1. blob.state \notin Closed \cup {"deleted"}
        BY <1>9, <3>3, ClaimedNotClosed DEF StoreSession
      <4>2. UndisturbedVersions = {}
        BY <3>1, <3>3, <4>1
        DEF VersionEndsSession, UndisturbedVersions, Version
      <4>3. pc'[r] # "crashed" /\ pc[r] # "crashed"
        BY <1>9, <1>t, <3>3 DEF StoreSession, AfterStore
      <4>4. UndisturbedVersions' = {}
        BY <3>2, <4>2, <4>3 DEF UndisturbedVersions, Version
      <4> QED
        BY <4>4 DEF VersionEndsSession
    <3>4. CASE pc[r] = "close"
      <4>1. blob'.state \in Closed
        BY <1>9, <3>4 DEF StoreSession, Target, Completed
      <4>2. \A s \in Requests : ~Armed(s)'
        BY <1>9, <1>t, <3>1, <3>2, <3>4 DEF StoreSession, AfterStore
      <4> QED
        BY <4>1, <4>2 DEF VersionEndsSession
    <3>5. CASE pc[r] = "reopen"
      <4>1. UndisturbedVersions = {}
        BY <3>1, <3>5 DEF VersionEndsSession, UndisturbedVersions, Version
      <4>2. pc'[r] # "crashed" /\ pc[r] # "crashed"
        BY <1>9, <1>t, <3>5 DEF StoreSession, AfterStore
      <4>3. UndisturbedVersions' = {}
        BY <3>2, <4>1, <4>2 DEF UndisturbedVersions, Version
      <4> QED
        BY <4>3 DEF VersionEndsSession
    <3> QED
      BY <1>9, <3>3, <3>4, <3>5 DEF StoreSession
  <2>5. SingleVersion'
    <3>1. UndisturbedVersions' = UndisturbedVersions
      BY <1>9, <1>t DEF StoreSession, AfterStore, UndisturbedVersions, Version
    <3> QED
      BY <3>1 DEF SingleVersion
  <2> QED
    BY <1>t, <2>1, <2>2, <2>3, <2>4, <2>5
<1>10. ASSUME NEW r \in Requests, StoreSessionUnmatched(r) PROVE CalmInv'
  <2>1. ExclusiveCompletion'
    BY <1>10, <1>t DEF StoreSessionUnmatched, ExclusiveCompletion
  <2>2. HolderOwnsBlob'
    BY <1>10, <1>t
    DEF StoreSessionUnmatched, HolderOwnsBlob, ExclusiveCompletion,
        ClaimsAreFresh, ReadsArePast, PhasesMatchKinds, Exists, NoContent,
        Content, IfMatch
  <2>3. ClaimsAreFresh'
    BY <1>10, <1>t
    DEF StoreSessionUnmatched, ClaimsAreFresh, HolderOwnsBlob,
        ReadsArePast, PhasesMatchKinds, IfMatch, Untorn, Exists, ReadDone,
        NoContent, Content
  <2>4. VersionEndsSession'
    <3>1. CASE Armed(r)
      <4>1. ~Exists(blob)
        BY <1>10, <3>1, HolderReadsBlob
        DEF StoreSessionUnmatched, IfMatch, PhasesMatchKinds, ReadDone
      <4>2. blob'.state = "deleted"
        BY <1>10, <4>1, MissingIsDeleted DEF StoreSessionUnmatched
      <4> QED
        BY <1>10, <1>t, <3>1, <4>2
        DEF StoreSessionUnmatched, VersionEndsSession,
            ExclusiveCompletion
    <3>2. CASE ~Armed(r)
      BY <1>10, <1>t, <3>2
      DEF StoreSessionUnmatched, VersionEndsSession, UndisturbedVersions
    <3> QED
      BY <3>1, <3>2
  <2>5. SingleVersion'
    BY <1>10, <1>t
    DEF StoreSessionUnmatched, SingleVersion, UndisturbedVersions,
        VersionEndsSession, ExclusiveCompletion
  <2> QED
    BY <1>t, <2>1, <2>2, <2>3, <2>4, <2>5
<1>11. ASSUME NEW r \in Requests, FetchRecord(r) PROVE CalmInv'
  <2>1. ExclusiveCompletion'
    BY <1>11, <1>t DEF FetchRecord, ExclusiveCompletion
  <2>2. HolderOwnsBlob'
    BY <1>11, <1>t
    DEF FetchRecord, HolderOwnsBlob, ExclusiveCompletion, ClaimsAreFresh,
        ReadsArePast, PhasesMatchKinds, Exists, NoContent, Content, IfMatch
  <2>3. ClaimsAreFresh'
    BY <1>11, <1>t
    DEF FetchRecord, ClaimsAreFresh, HolderOwnsBlob, ReadsArePast,
        PhasesMatchKinds, IfMatch, Untorn, Exists, ReadDone, NoContent,
        Content
  <2>4. VersionEndsSession'
    BY <1>11, <1>t
    DEF FetchRecord, VersionEndsSession, UndisturbedVersions,
        ExclusiveCompletion, HolderOwnsBlob, ClaimsAreFresh
  <2>5. SingleVersion'
    BY <1>11, <1>t
    DEF FetchRecord, SingleVersion, UndisturbedVersions,
        VersionEndsSession, ExclusiveCompletion
  <2> QED
    BY <1>t, <2>1, <2>2, <2>3, <2>4, <2>5
<1>12. ASSUME NEW r \in Requests, WriteCompleteSession(r) PROVE CalmInv'
  <2>1. ExclusiveCompletion'
    BY <1>12, <1>t DEF WriteCompleteSession, ExclusiveCompletion
  <2>2. HolderOwnsBlob'
    BY <1>12, <1>t
    DEF WriteCompleteSession, HolderOwnsBlob, ExclusiveCompletion,
        ClaimsAreFresh, ReadsArePast, PhasesMatchKinds, Exists, NoContent,
        Content, IfMatch
  <2>3. ClaimsAreFresh'
    BY <1>12, <1>t
    DEF WriteCompleteSession, ClaimsAreFresh, HolderOwnsBlob, ReadsArePast,
        PhasesMatchKinds, IfMatch, Untorn, Exists, ReadDone, NoContent,
        Content
  <2>4. VersionEndsSession'
    BY <1>12, <1>t
    DEF WriteCompleteSession, VersionEndsSession, UndisturbedVersions,
        ExclusiveCompletion, HolderOwnsBlob, ClaimsAreFresh
  <2>5. SingleVersion'
    BY <1>12, <1>t
    DEF WriteCompleteSession, SingleVersion, UndisturbedVersions,
        VersionEndsSession, ExclusiveCompletion
  <2> QED
    BY <1>t, <2>1, <2>2, <2>3, <2>4, <2>5
<1>13. ASSUME NEW r \in Requests, SendRecord(r) PROVE CalmInv'
  <2>1. ExclusiveCompletion'
    BY <1>13, <1>t DEF SendRecord, Publish, ExclusiveCompletion
  <2>2. HolderOwnsBlob'
    BY <1>13, <1>t
    DEF SendRecord, Publish, HolderOwnsBlob, ExclusiveCompletion,
        ClaimsAreFresh, ReadsArePast, PhasesMatchKinds, Exists, NoContent,
        Content, IfMatch
  <2>3. ClaimsAreFresh'
    BY <1>13, <1>t
    DEF SendRecord, Publish, ClaimsAreFresh, HolderOwnsBlob, ReadsArePast,
        PhasesMatchKinds, IfMatch, Untorn, Exists, ReadDone, NoContent,
        Content
  <2>4. VersionEndsSession'
    BY <1>13, <1>t
    DEF SendRecord, Publish, VersionEndsSession, UndisturbedVersions,
        ExclusiveCompletion, HolderOwnsBlob, ClaimsAreFresh
  <2>5. SingleVersion'
    <3>1. UndisturbedVersions = {}
      BY <1>13
      DEF SendRecord, VersionEndsSession, UndisturbedVersions,
          ExclusiveCompletion, Version
    <3>2. UndisturbedVersions' \subseteq {[no |-> lastVersion + 1, by |-> r, chunks |-> bulk[r]]}
      BY <1>13, <1>t, <3>1
      DEF SendRecord, Publish, UndisturbedVersions, Version
    <3> QED
      BY <3>2 DEF SingleVersion
  <2> QED
    BY <1>t, <2>1, <2>2, <2>3, <2>4, <2>5
<1>14. ASSUME NEW r \in Requests, SendRecordAnswerLost(r) PROVE CalmInv'
  <2>1. ExclusiveCompletion'
    BY <1>14, <1>t DEF SendRecordAnswerLost, Publish, ExclusiveCompletion
  <2>2. HolderOwnsBlob'
    BY <1>14, <1>t
    DEF SendRecordAnswerLost, Publish, HolderOwnsBlob, ExclusiveCompletion,
        ClaimsAreFresh, ReadsArePast, PhasesMatchKinds, Exists, NoContent,
        Content, IfMatch
  <2>3. ClaimsAreFresh'
    BY <1>14, <1>t
    DEF SendRecordAnswerLost, Publish, ClaimsAreFresh, HolderOwnsBlob,
        ReadsArePast, PhasesMatchKinds, IfMatch, Untorn, Exists, ReadDone,
        NoContent, Content
  <2>4. VersionEndsSession'
    BY <1>14, <1>t
    DEF SendRecordAnswerLost, Publish, VersionEndsSession,
        UndisturbedVersions, ExclusiveCompletion, HolderOwnsBlob,
        ClaimsAreFresh
  <2>5. SingleVersion'
    BY <1>14, <1>t
    DEF SendRecordAnswerLost, Publish, SingleVersion, UndisturbedVersions,
        VersionEndsSession, ExclusiveCompletion
  <2> QED
    BY <1>t, <2>1, <2>2, <2>3, <2>4, <2>5
<1>15. ASSUME NEW r \in Requests, BodyRaises(r) PROVE CalmInv'
  <2>1. ExclusiveCompletion'
    BY <1>15, <1>t DEF BodyRaises, ExclusiveCompletion
  <2>2. HolderOwnsBlob'
    BY <1>15, <1>t
    DEF BodyRaises, HolderOwnsBlob, ExclusiveCompletion, ClaimsAreFresh,
        ReadsArePast, PhasesMatchKinds, Exists, NoContent, Content, IfMatch
  <2>3. ClaimsAreFresh'
    BY <1>15, <1>t
    DEF BodyRaises, ClaimsAreFresh, HolderOwnsBlob, ReadsArePast,
        PhasesMatchKinds, IfMatch, Untorn, Exists, ReadDone, NoContent,
        Content
  <2>4. VersionEndsSession'
    BY <1>15, <1>t
    DEF BodyRaises, VersionEndsSession, UndisturbedVersions,
        ExclusiveCompletion, HolderOwnsBlob, ClaimsAreFresh
  <2>5. SingleVersion'
    BY <1>15, <1>t
    DEF BodyRaises, SingleVersion, UndisturbedVersions, VersionEndsSession,
        ExclusiveCompletion
  <2> QED
    BY <1>t, <2>1, <2>2, <2>3, <2>4, <2>5
<1>16. ASSUME NEW r \in Requests, CheckSessionOpen(r) PROVE CalmInv'
  <2>1. ExclusiveCompletion'
    BY <1>16, <1>t DEF CheckSessionOpen, ExclusiveCompletion
  <2>2. HolderOwnsBlob'
    <3>1. CASE Goto(r, "chunk")
      BY <1>16, <1>t, <3>1
      DEF CheckSessionOpen, HolderOwnsBlob, ExclusiveCompletion,
          ClaimsAreFresh, ReadsArePast, PhasesMatchKinds, Exists,
          NoContent, Content, IfMatch
    <3>2. CASE Finish(r, "rejected")
      BY <1>16, <1>t, <3>2
      DEF CheckSessionOpen, HolderOwnsBlob, ExclusiveCompletion,
          ClaimsAreFresh, ReadsArePast, PhasesMatchKinds, Exists,
          NoContent, Content, IfMatch
    <3> QED
      BY <1>16, <3>1, <3>2 DEF CheckSessionOpen
  <2>3. ClaimsAreFresh'
    BY <1>16, <1>t
    DEF CheckSessionOpen, ClaimsAreFresh, HolderOwnsBlob, ReadsArePast,
        PhasesMatchKinds, IfMatch, Untorn, Exists, ReadDone, NoContent,
        Content
  <2>4. VersionEndsSession'
    <3>1. CASE Goto(r, "chunk")
      BY <1>16, <1>t, <3>1
      DEF CheckSessionOpen, VersionEndsSession, UndisturbedVersions,
          ExclusiveCompletion, HolderOwnsBlob, ClaimsAreFresh
    <3>2. CASE Finish(r, "rejected")
      BY <1>16, <1>t, <3>2
      DEF CheckSessionOpen, VersionEndsSession, UndisturbedVersions,
          ExclusiveCompletion, HolderOwnsBlob, ClaimsAreFresh
    <3> QED
      BY <1>16, <3>1, <3>2 DEF CheckSessionOpen
  <2>5. SingleVersion'
    <3>1. CASE Goto(r, "chunk")
      BY <1>16, <1>t, <3>1
      DEF CheckSessionOpen, SingleVersion, UndisturbedVersions,
          VersionEndsSession, ExclusiveCompletion
    <3>2. CASE Finish(r, "rejected")
      BY <1>16, <1>t, <3>2
      DEF CheckSessionOpen, SingleVersion, UndisturbedVersions,
          VersionEndsSession, ExclusiveCompletion
    <3> QED
      BY <1>16, <3>1, <3>2 DEF CheckSessionOpen
  <2> QED
    BY <1>t, <2>1, <2>2, <2>3, <2>4, <2>5
<1>17. ASSUME NEW r \in Requests, WriteChunk(r) PROVE CalmInv'
  <2>1. ExclusiveCompletion'
    BY <1>17, <1>t DEF WriteChunk, ExclusiveCompletion
  <2>2. HolderOwnsBlob'
    BY <1>17, <1>t
    DEF WriteChunk, HolderOwnsBlob, ExclusiveCompletion, ClaimsAreFresh,
        ReadsArePast, PhasesMatchKinds, Exists, NoContent, Content, IfMatch
  <2>3. ClaimsAreFresh'
    BY <1>17, <1>t
    DEF WriteChunk, ClaimsAreFresh, HolderOwnsBlob, ReadsArePast,
        PhasesMatchKinds, IfMatch, Untorn, Exists, ReadDone, NoContent,
        Content
  <2>4. VersionEndsSession'
    BY <1>17, <1>t
    DEF WriteChunk, VersionEndsSession, UndisturbedVersions,
        ExclusiveCompletion, HolderOwnsBlob, ClaimsAreFresh
  <2>5. SingleVersion'
    BY <1>17, <1>t
    DEF WriteChunk, SingleVersion, UndisturbedVersions, VersionEndsSession,
        ExclusiveCompletion
  <2> QED
    BY <1>t, <2>1, <2>2, <2>3, <2>4, <2>5
<1>18. ASSUME NEW r \in Requests, WriteChunkFails(r) PROVE CalmInv'
  <2>1. ExclusiveCompletion'
    BY <1>18, <1>t DEF WriteChunkFails, ExclusiveCompletion
  <2>2. HolderOwnsBlob'
    BY <1>18, <1>t
    DEF WriteChunkFails, HolderOwnsBlob, ExclusiveCompletion,
        ClaimsAreFresh, ReadsArePast, PhasesMatchKinds, Exists, NoContent,
        Content, IfMatch
  <2>3. ClaimsAreFresh'
    BY <1>18, <1>t
    DEF WriteChunkFails, ClaimsAreFresh, HolderOwnsBlob, ReadsArePast,
        PhasesMatchKinds, IfMatch, Untorn, Exists, ReadDone, NoContent,
        Content
  <2>4. VersionEndsSession'
    BY <1>18, <1>t
    DEF WriteChunkFails, VersionEndsSession, UndisturbedVersions,
        ExclusiveCompletion, HolderOwnsBlob, ClaimsAreFresh
  <2>5. SingleVersion'
    BY <1>18, <1>t
    DEF WriteChunkFails, SingleVersion, UndisturbedVersions,
        VersionEndsSession, ExclusiveCompletion
  <2> QED
    BY <1>t, <2>1, <2>2, <2>3, <2>4, <2>5
<1>19. ASSUME NEW r \in Requests, CheckDeletable(r) PROVE CalmInv'
  <2>1. ExclusiveCompletion'
    BY <1>19, <1>t DEF CheckDeletable, ExclusiveCompletion
  <2>2. HolderOwnsBlob'
    BY <1>19, <1>t
    DEF CheckDeletable, HolderOwnsBlob, ExclusiveCompletion,
        ClaimsAreFresh, ReadsArePast, PhasesMatchKinds, Exists, NoContent,
        Content, IfMatch
  <2>3. ClaimsAreFresh'
    BY <1>19, <1>t
    DEF CheckDeletable, ClaimsAreFresh, HolderOwnsBlob, ReadsArePast,
        PhasesMatchKinds, IfMatch, Untorn, Exists, ReadDone, NoContent,
        Content
  <2>4. VersionEndsSession'
    BY <1>19, <1>t
    DEF CheckDeletable, VersionEndsSession, UndisturbedVersions,
        ExclusiveCompletion, HolderOwnsBlob, ClaimsAreFresh
  <2>5. SingleVersion'
    BY <1>19, <1>t
    DEF CheckDeletable, SingleVersion, UndisturbedVersions,
        VersionEndsSession, ExclusiveCompletion
  <2> QED
    BY <1>t, <2>1, <2>2, <2>3, <2>4, <2>5
<1>20. ASSUME NEW r \in Requests, DeleteBlob(r) PROVE CalmInv'
  <2>1. ExclusiveCompletion'
    BY <1>20, <1>t DEF DeleteBlob, ExclusiveCompletion
  <2>2. HolderOwnsBlob'
    <3>1. blob'.etag = blob.etag /\ ~Exists(blob)'
      BY <1>20, <1>t DEF DeleteBlob, Exists, SessionState, Content
    <3> QED
      BY <1>20, <1>t, <3>1 DEF DeleteBlob, HolderOwnsBlob
  <2>3. ClaimsAreFresh'
    <3>1. ~Exists(blob)'
      BY <1>20, <1>t DEF DeleteBlob, Exists, SessionState, Content
    <3> QED
      BY <1>20, <1>t, <3>1 DEF DeleteBlob, ClaimsAreFresh, IfMatch, Untorn
  <2>4. VersionEndsSession'
    BY <1>20, <1>t
    DEF DeleteBlob, VersionEndsSession, UndisturbedVersions,
        ExclusiveCompletion, HolderOwnsBlob, ClaimsAreFresh
  <2>5. SingleVersion'
    BY <1>20, <1>t
    DEF DeleteBlob, SingleVersion, UndisturbedVersions, VersionEndsSession,
        ExclusiveCompletion
  <2> QED
    BY <1>t, <2>1, <2>2, <2>3, <2>4, <2>5
<1>21. ASSUME NEW r \in Requests, Crash(r) PROVE CalmInv'
  <2>1. ExclusiveCompletion'
    BY <1>21, <1>t DEF Crash, ExclusiveCompletion
  <2>2. HolderOwnsBlob'
    BY <1>21, <1>t
    DEF Crash, HolderOwnsBlob, ExclusiveCompletion, ClaimsAreFresh,
        ReadsArePast, PhasesMatchKinds, Exists, NoContent, Content, IfMatch
  <2>3. ClaimsAreFresh'
    BY <1>21, <1>t
    DEF Crash, ClaimsAreFresh, HolderOwnsBlob, ReadsArePast,
        PhasesMatchKinds, IfMatch, Untorn, Exists, ReadDone, NoContent,
        Content
  <2>4. VersionEndsSession'
    BY <1>21, <1>t
    DEF Crash, VersionEndsSession, UndisturbedVersions,
        ExclusiveCompletion, HolderOwnsBlob, ClaimsAreFresh
  <2>5. SingleVersion'
    BY <1>21, <1>t
    DEF Crash, SingleVersion, UndisturbedVersions, VersionEndsSession,
        ExclusiveCompletion
  <2> QED
    BY <1>t, <2>1, <2>2, <2>3, <2>4, <2>5
<1>22. CASE Tick
  <2>0. \A r \in Requests : ~Armed(r) /\ pc[r] # "claim"
    BY <1>22, <1>t, <1>c
    DEF Tick, PromptCompletions, CompletionUnderWay, PhasesMatchKinds, vars
  <2>1. ExclusiveCompletion'
    BY <1>22, <1>t DEF Tick, ExclusiveCompletion
  <2>2. HolderOwnsBlob'
    BY <1>22, <1>t, <2>0 DEF Tick, HolderOwnsBlob
  <2>3. ClaimsAreFresh'
    BY <1>22, <1>t, <2>0 DEF Tick, ClaimsAreFresh, IfMatch, Untorn, Exists
  <2>4. VersionEndsSession'
    BY <1>22, <1>t
    DEF Tick, VersionEndsSession, UndisturbedVersions, ExclusiveCompletion,
        HolderOwnsBlob, ClaimsAreFresh
  <2>5. SingleVersion'
    BY <1>22, <1>t
    DEF Tick, SingleVersion, UndisturbedVersions, VersionEndsSession,
        ExclusiveCompletion
  <2> QED
    BY <1>t, <2>1, <2>2, <2>3, <2>4, <2>5
<1>99. CASE UNCHANGED vars
  BY <1>99, <1>t
  DEF vars, HolderOwnsBlob, ClaimsAreFresh, VersionEndsSession,
      SingleVersion, UndisturbedVersions, ExclusiveCompletion, Exists,
      IfMatch, Untorn
<1> QED
  BY <1>99, <1>1, <1>2, <1>3, <1>4, <1>5, <1>6, <1>7, <1>8, <1>9, <1>10,
      <1>11, <1>12, <1>13, <1>14, <1>15, <1>16, <1>17, <1>18, <1>19, <1>20,
      <1>21, <1>22
  DEF CalmNext, Next, Serve

-----------------------------------------------------------------------------
(* What holds of every behaviour in a calm environment.                    *)

\* Nothing is held, claimed or published at the start.
LEMMA InitCalm == Init => CalmInv
<1> SUFFICES ASSUME Init PROVE CalmInv
  OBVIOUS
<1>1. CodeInv
  BY InitCode
<1> QED
  BY <1>1
  DEF Init, CalmInv, ExclusiveCompletion, Armed, Body, HolderOwnsBlob,
      ClaimsAreFresh, Storing, VersionEndsSession, SingleVersion,
      UndisturbedVersions

\* The inductive invariant: the one request between the two writes of a
\* completion finds the blob as it left it, and a claim that is going to
\* succeed is made on a session nobody holds.
THEOREM CalmInvariant == CalmSpec => []CalmInv
  BY InitCalm, CalmInductive, PTL DEF CalmSpec

\* initiate_commit and initiate_abandon: at most one request is between the
\* two writes of a completion.
THEOREM CompletionsAreExclusive == CalmSpec => []ExclusiveCompletion
<1>1. CalmInv => ExclusiveCompletion
  BY DEF CalmInv
<1> QED
  BY <1>1, CalmInvariant, PTL

\* complete_session: a session yields at most one version, not counting
\* those of commits that crashed or lost an answer of the storage service.
THEOREM VersionIsSingle == CalmSpec => []SingleVersion
<1>1. CalmInv => SingleVersion
  BY DEF CalmInv
<1> QED
  BY <1>1, CalmInvariant, PTL

\* What an upload may replace: a closed session is not updated, and the new
\* state follows the session the request holds or claims.
LEMMA CalmStore ==
  ASSUME CalmInv, NEW r \in Requests, StoreSession(r)
  PROVE  \/ /\ pc[r] = "claim"
            /\ MayStart(blob, kind[r])
            /\ blob'.state = InProgress(kind[r])
         \/ /\ pc[r] = "close"
            /\ blob.state = InProgress(kind[r])
            /\ blob'.state = Completed(kind[r])
         \/ /\ pc[r] = "reopen"
            /\ blob.state = InProgress(kind[r])
            /\ blob'.state = "open"
<1>1. cont[r] = blob
  BY DEF CalmInv, CodeInv, ClaimsAreFresh, ReadsArePast, StoreSession, IfMatch,
         Untorn
<1>2. blob'.state = Target(pc[r], kind[r])
  BY DEF StoreSession
<1>3. pc[r] \in {"close", "reopen"} => blob.state = InProgress(kind[r])
  BY DEF CalmInv, HolderOwnsBlob, Armed, StoreSession, IfMatch
<1> QED
  BY <1>1, <1>2, <1>3
  DEF CalmInv, CodeInv, PendingUploadsAllowed, StoreSession, Storing, Target

\* A committed or abandoned session keeps its state until it is deleted.
THEOREM ClosureIsFinal == CalmSpec => ClosedIsFinal
<1>1. CalmInv /\ [CalmNext]_vars =>
        [blob.state \in Closed => blob'.state \in {blob.state, "deleted"}]_vars
  <2> SUFFICES ASSUME CalmInv, Next, blob.state \in Closed
               PROVE  blob'.state \in {blob.state, "deleted"}
    BY DEF vars, CalmNext
  <2>1. ~CreateSession
    BY DEF CreateSession, Closed
  <2>2. ASSUME NEW r \in Requests, StoreSession(r) PROVE FALSE
    BY <2>2, CalmStore DEF MayStart, InProgress, Closed, Busy
  <2>3. ASSUME NEW r \in Requests, DeleteBlob(r) PROVE blob'.state = "deleted"
    BY <2>3 DEF DeleteBlob, CalmInv, CodeInv, TypeOK, Content
  <2> QED
    BY <2>1, <2>2, <2>3
    DEF Next, Serve, Receive, DownloadMetadata, DownloadContent,
        SessionNotFound, AEnter, AExitSuccess, AExitFailure,
        StoreSessionUnmatched, FetchRecord, WriteCompleteSession, SendRecord,
        SendRecordAnswerLost, BodyRaises, CheckSessionOpen, WriteChunk,
        WriteChunkFails, CheckDeletable, Crash, Tick
<1> QED
  BY <1>1, CalmInvariant, PTL DEF CalmSpec, ClosedIsFinal

-----------------------------------------------------------------------------
(* The refinement.                                                         *)

\* An upload is a Start, a TakeOver, a Close or a Rollback of the abstract
\* session, or leaves its state as it is.
LEMMA StoreRefines ==
  ASSUME CalmInv, NEW r \in Requests, StoreSession(r)
  PROVE  [Lifecycle!Next]_(Lifecycle!vars)
<1>1. lastVersion' = lastVersion
  BY DEF StoreSession, workVars
<1>2. kind[r] \in Completion
  BY DEF CalmInv, CodeInv, PhasesMatchKinds, StoreSession
<1> USE <1>1, <1>2 DEF Completion, InProgress, Completed
<1>3. CASE pc[r] = "claim" /\ MayStart(blob, kind[r])
           /\ blob'.state = InProgress(kind[r])
  BY <1>3 DEF MayStart, Busy, Lifecycle!Next, Lifecycle!Start,
              Lifecycle!TakeOver, Lifecycle!vars
<1>4. CASE pc[r] = "close" /\ blob.state = InProgress(kind[r])
           /\ blob'.state = Completed(kind[r])
  <2>1. kind[r] = "commit" => lastVersion > 0
    BY <1>4 DEF CalmInv, CodeInv, PublishedBeforeExit
  <2> QED
    BY <1>4, <2>1 DEF Lifecycle!Next, Lifecycle!Close
<1>5. CASE pc[r] = "reopen" /\ blob.state = InProgress(kind[r])
           /\ blob'.state = "open"
  BY <1>5 DEF Lifecycle!Next, Lifecycle!Rollback
<1> QED
  BY <1>3, <1>4, <1>5, CalmStore

\* A version is published while the session is committing, or was deleted.
LEMMA PublishRefines ==
  ASSUME CalmInv, NEW r \in Requests, SendRecord(r) \/ SendRecordAnswerLost(r)
  PROVE  [Lifecycle!Next]_(Lifecycle!vars)
<1>1. pc[r] = "send" /\ UNCHANGED blob /\ lastVersion' = lastVersion + 1
  BY DEF SendRecord, SendRecordAnswerLost, Publish
<1>2. kind[r] = "commit"
  BY <1>1 DEF CalmInv, CodeInv, PhasesMatchKinds, Body
<1>3. Exists(blob) => blob.state = "committing"
  BY <1>1, <1>2 DEF CalmInv, HolderOwnsBlob, Armed, Body, InProgress
<1>4. ~Exists(blob) => blob.state = "deleted"
  BY <1>1, MissingIsDeleted DEF CalmInv
<1> QED
  BY <1>1, <1>3, <1>4 DEF Lifecycle!Next, Lifecycle!PublishVersion

\* SessionsStorage, in a calm environment, implements the session a client
\* reasons with: one state that follows the documented matrix.
THEOREM SessionRefinesLifecycle == CalmSpec => ImplementsLifecycle
<1>1. Init => Lifecycle!Init
  BY DEF Init, Lifecycle!Init, NoContent
<1>2. CalmInv /\ [CalmNext]_vars => [Lifecycle!Next]_(Lifecycle!vars)
  <2> SUFFICES ASSUME CalmInv, [Next]_vars
               PROVE  [Lifecycle!Next]_(Lifecycle!vars)
    BY DEF CalmNext
  <2>1. CASE CreateSession
    BY <2>1 DEF CreateSession, workVars, Lifecycle!Next, Lifecycle!Create
  <2>2. ASSUME NEW r \in Requests, DeleteBlob(r)
        PROVE  [Lifecycle!Next]_(Lifecycle!vars)
    <3>1. blob'.state = "deleted" /\ lastVersion' = lastVersion
      BY <2>2 DEF DeleteBlob, workVars, CalmInv, CodeInv, TypeOK, Content
    <3>2. blob.state # "none"
      BY <2>2 DEF DeleteBlob, CalmInv, CodeInv, PhasesMatchKinds
    <3> QED
      BY <3>1, <3>2 DEF Lifecycle!Next, Lifecycle!Delete, Lifecycle!vars
  <2>3. CASE UNCHANGED vars
    BY <2>3 DEF vars, Lifecycle!vars
  <2> QED
    BY <2>1, <2>2, <2>3, StoreRefines, PublishRefines
    DEF Next, Serve, Receive, DownloadMetadata, DownloadContent,
        SessionNotFound, AEnter, AExitSuccess, AExitFailure,
        StoreSessionUnmatched, FetchRecord, WriteCompleteSession, BodyRaises,
        CheckSessionOpen, WriteChunk, WriteChunkFails, CheckDeletable, Crash,
        Tick, workVars, Lifecycle!vars
<1> QED
  BY <1>1, <1>2, CalmInvariant, PTL
  DEF CalmSpec, ImplementsLifecycle, Lifecycle!Spec

=============================================================================
