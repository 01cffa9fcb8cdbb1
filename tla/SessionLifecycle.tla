-------------------------- MODULE SessionLifecycle --------------------------
(***************************************************************************)
(* What a session promises: the state update matrix documented in          *)
(* SessionsStorage._update_session_state, the rollback of a failed         *)
(* completion, and the moment at which record versions may appear.         *)
(*                                                                         *)
(* This is the specification a client of the API reasons with: there is    *)
(* one state, changed atomically, no etag, no request and no clock.        *)
(***************************************************************************)
EXTENDS Naturals

VARIABLES
    state,      \* state of the session
    published   \* number of record versions created from the session

vars == <<state, published>>

Init == state = "none" /\ published = 0

Create ==
    /\ state = "none"
    /\ state' = "open"
    /\ UNCHANGED published

\* Row "open" of the matrix.
Start ==
    /\ state = "open"
    /\ state' \in {"committing", "abandoning"}
    /\ UNCHANGED published

\* The cells "only if timeout detected": a completion that was left behind
\* is taken over.  An abandoning session is never committed.
TakeOver ==
    /\ state = "committing"
    /\ state' = "abandoning"
    /\ UNCHANGED published

\* A committing session receives its version; so does one that is deleted
\* while a commit is under way.  No other session ever does.
PublishVersion ==
    /\ state \in {"committing", "deleted"}
    /\ published' = published + 1
    /\ UNCHANGED state

\* Once closed, the session is not updated any more; a session cannot be
\* closed as committed before its version exists.
Close ==
    /\ \/ state = "committing" /\ published > 0 /\ state' = "committed"
       \/ state = "abandoning" /\ state' = "abandoned"
    /\ UNCHANGED published

\* A failed completion puts the session back to open.
Rollback ==
    /\ state \in {"committing", "abandoning"}
    /\ state' = "open"
    /\ UNCHANGED published

Delete ==
    /\ state \notin {"none", "deleted"}
    /\ state' = "deleted"
    /\ UNCHANGED published

Next == \/ Create \/ Start \/ TakeOver \/ PublishVersion
        \/ Close \/ Rollback \/ Delete

Spec == Init /\ [][Next]_vars
=============================================================================
