------------------------------ MODULE ClientTool ------------------------------
(***************************************************************************)
(* The client library of the repository (wdms_client) at work on the       *)
(* record routers: its variables and its runner, which repeats a request   *)
(* on the server errors it was told to.  A behaviour works with one entry  *)
(* of the request table, in any order of calls.  Next to it a user of the  *)
(* API posts records of any kind, through the same router or another.      *)
(***************************************************************************)
EXTENDS EntityApi, ClientRequests

CONSTANTS
    Entries,   \* the entries of request_path_dict to work with
    MaxCalls,  \* bound: calls of the runner
    MaxPosts   \* bound: posts of the user

ASSUME EntriesAssumption == Entries \subseteq DOMAIN request_path_dict
ASSUME CallBoundsAssumption == MaxCalls \in Nat /\ MaxPosts \in Nat

VARIABLES
    entry,    \* the entry the tool works with
    recordId, \* the variable <entry>_record_id of the environment
    retryOn,  \* the server errors on which the runner retries
    attempt,  \* the attempt of the call under way, 0 between calls
    request,  \* the request of the call under way
    answer,   \* what it was answered, status 0 while it is not
    calls,    \* the calls made
    posts,    \* the posts of the user
    acked,    \* the versions a creation of the tool was answered with
    dropped   \* the ids the tool sent a deletion for

callVars == <<attempt, request, answer, calls>>
countVars == <<posts, acked, dropped>>
vars == <<apiVars, entry, recordId, retryOn, callVars, countVars>>
-----------------------------------------------------------------------------
(* Variables and requests.                                                 *)

\* A variable without a value stays in the text as it is: no record id.
Unset == [id |-> NoId, suffix |-> FALSE]
resolve(var) == IF var = entry THEN recordId ELSE Unset

RouterOf(base) == CHOOSE r \in Routers : r.base = base

\* The schema of an entry exists, except for the one made not to.
Payload(c) ==
    [id |-> IF c.fixed THEN [type |-> c.type, uid |-> 0] ELSE NoId,
     type |-> c.type, known |-> c.schema # "99.99.99", data |-> c.data,
     consistent |-> TRUE]

build_request(op, no) ==
    LET b == request_path_dict[entry] IN
    IF op = "post"
    THEN [NoRequest EXCEPT !.op = "post", !.row = RouterOf(b.create.base),
                           !.body = Payload(b.create)]
    ELSE [NoRequest EXCEPT !.op = op, !.row = RouterOf(b.paths[op].base),
                           !.path = resolve(b.paths[op].var), !.no = no]

\* Mutant: one attempt more.
nb_attempt_5 == 5
nb_attempt == 4
Idle == attempt = 0

Init ==
    /\ ApiInit
    /\ entry \in Entries
    /\ recordId = Unset
    /\ retryOn \in {{}, {503, 504}}
    /\ attempt = 0 /\ request = NoRequest /\ answer = NoAnswer /\ calls = 0
    /\ posts = 0 /\ acked = {} /\ dropped = {}

\* A call starts: the request is built from the variables as they are now.
Call(op) ==
    /\ Idle /\ calls < MaxCalls
    /\ op \in DOMAIN request_path_dict[entry].paths \cup {"post"}
    /\ \E no \in IF op = "version" THEN 1..lastNo ELSE {0} :
            request' = build_request(op, no)
    /\ attempt' = 1 /\ answer' = NoAnswer /\ calls' = calls + 1
    /\ dropped' = dropped \cup (IF op = "delete" THEN {request'.path.id} ELSE {})
    /\ UNCHANGED <<apiVars, entry, recordId, retryOn, posts, acked>>

Waiting == attempt > 0 /\ answer = NoAnswer
Answered == attempt > 0 /\ answer # NoAnswer
Again == answer.status \in retryOn /\ answer.status >= 500

\* Mutant: the attempts are not counted.
RetryUncounted ==
    /\ Answered /\ Again /\ attempt < nb_attempt
    /\ answer' = NoAnswer
    /\ UNCHANGED <<apiVars, entry, recordId, retryOn, attempt, request, calls,
                   countVars>>
\* The runner sends the request again.
Retry ==
    /\ Answered /\ Again /\ attempt < nb_attempt
    /\ attempt' = attempt + 1 /\ answer' = NoAnswer
    /\ UNCHANGED <<apiVars, entry, recordId, retryOn, request, calls, countVars>>

\* The runner returns the last answer it had.
Return_ ==
    /\ Answered /\ (~Again \/ attempt = nb_attempt)
    /\ attempt' = 0 /\ request' = NoRequest /\ answer' = NoAnswer
    /\ acked' = IF request.op = "post" /\ answer.status = 200
                THEN acked \cup {[id |-> answer.id, no |-> n] : n \in answer.nos}
                ELSE acked
    /\ UNCHANGED <<apiVars, entry, recordId, retryOn, calls, posts, dropped>>

\* The caller stores the id it was given, with or without the version.
SetRecordId ==
    /\ Idle /\ calls < MaxCalls
    /\ \E v \in acked, s \in BOOLEAN :
        /\ v.id # recordId.id
        /\ recordId' = [id |-> v.id, suffix |-> s]
    /\ UNCHANGED <<apiVars, entry, retryOn, callVars, countVars>>
-----------------------------------------------------------------------------
(* The service, and its other user.                                        *)

Unmoved == UNCHANGED <<entry, recordId, retryOn, attempt, request, calls>>

\* The request is served; the schema library finds what it finds.
Serve ==
    /\ Waiting /\ Affordable(request)
    /\ \E verdict \in Verdict :
        /\ answer' = Handler(request, verdict)
        /\ Effect(request, Handler(request, verdict))
    /\ Unmoved /\ UNCHANGED countVars

\* The storage call, reached because nothing was refused, timed out after it
\* took effect.
ServeTimesOut ==
    /\ Waiting /\ Affordable(request)
    /\ Handler(request, "valid").status \in {200, 204}
    /\ answer' = Refuse(http_storage_error_handler("timeout"))
    /\ Effect(request, Handler(request, "valid"))
    /\ Unmoved /\ UNCHANGED countVars

\* The request fails before it reaches the store: the service is not ready,
\* or the storage call timed out without effect.
ServeUnavailable ==
    /\ Waiting
    /\ \E code \in {503, http_storage_error_handler("timeout")} :
            answer' = Refuse(code)
    /\ Unmoved /\ UNCHANGED <<apiVars, countVars>>

\* The user posts a record under the id of the tool's record: of another kind,
\* through another router, or one that breaks the record rules.  (A post its
\* schema refuses changes nothing.)
ToolRow == RouterOf(request_path_dict[entry].create.base)
Other == IF ToolRow = PPFGDatasetAPI THEN welllog_ddms_v3 ELSE PPFGDatasetAPI
ToolId == IF recordId = Unset THEN [type |-> ToolRow.type, uid |-> 0]
          ELSE recordId.id
UserPosts ==
    [row : {ToolRow, Other}, type : {ToolRow.type, Other.type}, ok : {TRUE}]
        \cup [row : {ToolRow}, type : {ToolRow.type}, ok : {FALSE}]
UserPost ==
    /\ posts < MaxPosts /\ lastNo < MaxVersions
    /\ \E p \in UserPosts :
        LET q == [NoRequest EXCEPT !.op = "post", !.row = p.row,
                    !.body = [id |-> ToolId, type |-> p.type, known |-> TRUE,
                              data |-> "user", consistent |-> p.ok]]
        IN Effect(q, Handler(q, "valid"))
    /\ posts' = posts + 1
    /\ Unmoved /\ UNCHANGED <<answer, acked, dropped>>
-----------------------------------------------------------------------------
Service == Serve \/ ServeTimesOut \/ ServeUnavailable

\* The tool rests when its calls are used up.
Next ==
    \/ \E op \in Op : Call(op)
    \/ Retry \/ Return_ \/ SetRecordId \/ UserPost
    \/ Service

\* The service answers what it is sent, and the runner is a loop.
Fairness == WF_vars(Service) /\ WF_vars(Retry) /\ WF_vars(Return_)
Spec == Init /\ [][Next]_vars /\ Fairness
-----------------------------------------------------------------------------
(* What is checked.                                                        *)

\* The data of a record: what a creation of the client sends, or the data
\* of the user.
RecordData ==
    {request_path_dict[e].create.data : e \in DOMAIN request_path_dict}
        \cup {"user"}

\* The variables hold what they are declared to hold.
TypeOK ==
    /\ \A v \in records : /\ v.id \in Id /\ v.no \in 1..MaxVersions
                          /\ v.body \in Body(RecordData) /\ v.via \in Routers
    /\ lastNo \in 0..MaxVersions
    /\ request.op \in Op \cup {"none"}
    /\ recordId \in PathId
    /\ attempt \in 0..4
    /\ calls \in 0..MaxCalls /\ posts \in 0..MaxPosts
    /\ acked \subseteq [id : Id, no : 1..MaxVersions]

ToolData == request_path_dict[entry].create.data
Holds(p) == VersionsOf(p.id) # {} /\ Latest(p.id).body.data = ToolData
Answers(op) == Waiting /\ request.op = op /\ 0 < answer'.status /\ answer'.status < 500

\* What the client creates, the client reads back: as long as the latest
\* version of the record whose id the variable holds is one its own creation
\* made, the builders of the entry reach the router that takes this id and
\* accepts this kind, with the version in the id or without, and what is read
\* is equal to the entry's reference.  Only the schema library can refuse it:
\* a record is validated against the schema of the time of the reading.
RoundTrip ==
    [][(Answers("get") /\ Holds(recordId)) =>
            \/ /\ answer'.status = 200
               /\ ~diff_record_against_ref(entry, answer'.body.data)
            \/ answer'.schema]_vars

\* The list of the versions names every version the client was told of, with
\* the version in the id or without; the routers of the well logs and of the
\* trajectories fetch the record before they drop the version of the id, and
\* find none.
VersionsListed ==
    [][(Answers("versions") /\ Holds(recordId)) =>
        \/ /\ answer'.status = 200
           /\ {v.no : v \in {w \in acked : w.id = recordId.id
                                            /\ w.id \notin dropped}}
                \subseteq answer'.nos
        \/ /\ answer'.status = 404
           /\ recordId.suffix
           /\ ToolRow \in {welllog_ddms_v3, wellbore_trajectory_ddms_v3}]_vars

\* Nothing the client was told was created is lost: it stays until the client
\* asks for the deletion of that id, whatever was retried in between.
AckedKept ==
    \A v \in acked : v.id \notin dropped => v.no \in Numbers(v.id)

ToolIds == {v.id : v \in {w \in records : w.body.data = ToolData}}

\* The attempts of a call, and the attempts so far that have been answered: all
\* those of the calls before, at most, and those of this one.
Tries == IF retryOn = {} THEN 1 ELSE nb_attempt
Spent ==
    IF attempt = 0 THEN Tries * calls
    ELSE Tries * (calls - 1) + attempt - (IF answer = NoAnswer THEN 1 ELSE 0)

\* A creation repeated after a server error makes a new version of the one
\* record its payload names.  Without an id in the payload it makes another
\* record at every attempt that took effect unseen, but at no time more of
\* them than attempts were answered; a call without retries makes one.
RetriesDuplicate ==
    Cardinality(ToolIds) <=
        IF request_path_dict[entry].create.fixed THEN 1 ELSE Spent

\* A call returns, after at most four attempts, whatever it is answered.
CallReturns == (attempt > 0) ~> (attempt = 0)

\* "Checks the kind of the entities is in the list of supported kinds of this
\* API": a record of another kind is not stored through a router.
WrongKindRefused == \A v \in records : v.body.type = v.via.type
=============================================================================
