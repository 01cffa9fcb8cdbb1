------------------------- MODULE SessionInvariants -------------------------
(***************************************************************************)
(* The inductive invariants behind the theorems of SessionCompletionProofs.*)
(* CodeInv holds of the code as it is, CalmInv adds what the calm          *)
(* environment gives.                                                      *)
(***************************************************************************)
EXTENDS SessionCompletion

\* What a request has read is a version the blob has had: never a newer one,
\* and the blob itself when the etag is still current.
ReadsArePast ==
    /\ blob.state = "none" => blob.etag = 0
    /\ Exists(blob) => blob.etag > 0
    /\ \A r \in Requests :
         /\ meta[r] <= blob.etag
         /\ cont[r].etag <= blob.etag
         /\ cont[r].etag # 0 => Exists(cont[r])
         /\ cont[r].etag = blob.etag /\ Exists(blob) => cont[r] = blob

\* Where a request is says what it asked for and what it has read.
PhasesMatchKinds ==
    \A r \in Requests :
        /\ pc[r] \in Body => kind[r] = "commit"
        /\ pc[r] \in Storing \cup {"exitok", "exitko"} => kind[r] \in Completion
        /\ pc[r] \in {"chunk", "delete"} => kind[r] = pc[r]
        /\ pc[r] \in Storing => ReadDone(r)
        /\ blob.state = "none" => pc[r] = "new"

\* An upload is pending only for a state the content read allows.
PendingUploadsAllowed ==
    \A r \in Requests :
        /\ pc[r] = "claim" => MayStart(cont[r], kind[r])
        /\ pc[r] = "close" => cont[r].state = InProgress(kind[r])

\* A commit past its body has published a version.
PublishedBeforeExit ==
    /\ \A r \in Requests :
         pc[r] \in {"exitok", "close"} /\ kind[r] = "commit" =>
            \E v \in versions : v.by = r
    /\ versions # {} => lastVersion > 0

\* Acknowledged chunks are with the worker, and stay there.
ChunksKept ==
    /\ AckedChunks \subseteq chunks
    /\ \A r \in Requests :
         /\ ackedBefore[r] \subseteq chunks
         /\ pc[r] = "send" => ackedBefore[r] \subseteq bulk[r]
         /\ pc[r] = "new" => resp[r] = "none"
    /\ \A v \in versions : pc[v.by] # "new"

CodeInv ==
    /\ TypeOK
    /\ ReadsArePast
    /\ PhasesMatchKinds
    /\ PendingUploadsAllowed
    /\ PublishedBeforeExit
    /\ CommitPublishes
    /\ ChunksKept
    /\ AckedChunksPublished

-----------------------------------------------------------------------------
\* The holder of the session finds it as it left it, unless it was deleted.
HolderOwnsBlob ==
    \A r \in Requests : Armed(r) =>
        /\ Exists(blob) => blob.state = InProgress(kind[r]) /\ blob.updated = now
        /\ meta[r] \in {0, blob.etag}
        /\ cont[r].etag \in {0, blob.etag}

\* A claim that is going to succeed is made on a session nobody holds.
ClaimsAreFresh ==
    \A r \in Requests :
        /\ pc[r] \in Storing => Untorn(r)
        /\ pc[r] = "claim" => stamp[r] = now
        /\ pc[r] = "claim" /\ IfMatch(r) => \A s \in Requests : ~Armed(s)

\* After an undisturbed version nothing can be published any more: its
\* request still holds the session, or the session is closed or deleted and
\* nobody holds it.
VersionEndsSession ==
    \A v \in UndisturbedVersions :
        \/ pc[v.by] \in {"exitok", "close"}
        \/ /\ blob.state \in Closed \cup {"deleted"}
           /\ \A s \in Requests : ~Armed(s)

CalmInv ==
    /\ CodeInv
    /\ ExclusiveCompletion
    /\ HolderOwnsBlob
    /\ ClaimsAreFresh
    /\ VersionEndsSession
    /\ SingleVersion
=============================================================================
