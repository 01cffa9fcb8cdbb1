-------------------------- MODULE ClientToolProofs --------------------------
(***************************************************************************)
(* What the client library is promised by the routers, for any number of   *)
(* calls, of versions and of posts of another user: the variables are      *)
(* well-typed, what it was told was created stays, what it creates it      *)
(* reads back and finds in the list of versions, and a retried creation    *)
(* makes a bounded number of records.                                      *)
(***************************************************************************)
EXTENDS ClientTool, FiniteSetTheorems, WellFoundedInduction, TLAPS

-----------------------------------------------------------------------------
(* The tables.                                                             *)

\* The rows of the routers.
LEMMA RouterFacts ==
    /\ \A r \in Routers : r.type \in Type
    /\ \A r, s \in Routers : r.base = s.base => r = s
    /\ PPFGDatasetAPI \in Routers /\ welllog_ddms_v3 \in Routers
    /\ \A r \in Routers : r.entity \in DOMAIN entity_names =>
            entity_names[r.entity] = r.type
    /\ \A r \in Routers :
            r.splitsFirst \/ r \in {welllog_ddms_v3, wellbore_trajectory_ddms_v3}
    /\ "none" \notin Type
  BY DEF entity_names, Routers, Type, Row, wellbore_ddms_v3, well_ddms_v3,
         markerset_ddms_v3, wellbore_interval_set_ddms_v3,
         welllog_acquisition_v3, welllog_ddms_v3, wellbore_trajectory_ddms_v3,
         PPFGDatasetAPI, WellPressureTestRawMeasurementAPI

Routed(base, type) == \E r \in Routers : r.base = base /\ r.type = type

LEMMA SegmentsRouted ==
    /\ Routed("wellbores", "Wellbore")
    /\ Routed("wells", "Well")
    /\ Routed("wellboremarkersets", "WellboreMarkerSet")
    /\ Routed("wellboreintervalsets", "WellboreIntervalSet")
    /\ Routed("welllogacquisition", "WellLogAcquisition")
    /\ Routed("welllogs", "WellLog")
    /\ Routed("wellboretrajectories", "WellboreTrajectory")
    /\ Routed("ppfgdataset", "PPFGDataset")
    /\ Routed("wellpressuretestrawmeasurement", "WellPressureTestRawMeasurement")
  BY DEF Routed, Routers, Row, wellbore_ddms_v3, well_ddms_v3,
         markerset_ddms_v3, wellbore_interval_set_ddms_v3,
         welllog_acquisition_v3, welllog_ddms_v3, wellbore_trajectory_ddms_v3,
         PPFGDatasetAPI, WellPressureTestRawMeasurementAPI

\* The builders of an entry agree with each other, with a router and with the
\* reference of the entry.
EntryAgrees(e) ==
    LET b == request_path_dict[e] IN
    /\ Routed(b.create.base, b.create.type)
    /\ b.create.data # "user"
    /\ b.create.fixed \in BOOLEAN
    /\ \A op \in DOMAIN b.paths :
            /\ op \in Op \ {"post"}
            /\ b.paths[op] = [base |-> b.create.base, var |-> e]
            /\ get_cleaned_ref_and_res[e].data = b.create.data

LEMMA EntriesAgree ==
    \A e \in DOMAIN request_path_dict : EntryAgrees(e)
  <1> USE SegmentsRouted
      DEF EntryAgrees, request_path_dict, get_cleaned_ref_and_res, Builders,
          Paths, Create, Ref, Op
  <1>1. EntryAgrees("osdu_wellbore")
    BY DEF paths_osdu_wellbore, create_osdu_wellbore, ref_osdu_wellbore
  <1>2. EntryAgrees("osdu_wellbore_120")
    BY DEF paths_osdu_wellbore_120, create_osdu_wellbore_120,
           ref_osdu_wellbore_120
  <1>3. EntryAgrees("osdu_wellbore_100")
    BY DEF paths_osdu_wellbore_100, create_osdu_wellbore_100,
           ref_osdu_wellbore_100
  <1>4. EntryAgrees("osdu_wellbore_111")
    BY DEF paths_osdu_wellbore_111, create_osdu_wellbore_111,
           ref_osdu_wellbore_111
  <1>5. EntryAgrees("osdu_well")
    BY DEF paths_osdu_well, create_osdu_well, ref_osdu_well
  <1>6. EntryAgrees("osdu_well_100")
    BY DEF paths_osdu_well, create_osdu_well_100, ref_osdu_well_100
  <1>7. EntryAgrees("osdu_well_110")
    BY DEF paths_osdu_well, create_osdu_well_110, ref_osdu_well_110
  <1>8. EntryAgrees("osdu_welllog")
    BY DEF paths_osdu_welllog, create_osdu_welllog, ref_osdu_welllog
  <1>9. EntryAgrees("osdu_wellboretrajectory")
    BY DEF paths_osdu_wellboretrajectory, create_osdu_wellboretrajectory,
           ref_osdu_wellboretrajectory
  <1>10. EntryAgrees("osdu_wellboremarkerset")
    BY DEF paths_osdu_wellboremarkerset, create_osdu_wellboremarkerset,
           ref_osdu_wellboremarkerset
  <1>11. EntryAgrees("osdu_wellboreintervalset_100")
    BY DEF paths_osdu_wellboreintervalset_100,
           create_osdu_wellboreintervalset_100,
           ref_osdu_wellboreintervalset_100
  <1>12. EntryAgrees("osdu_welllogacquisition")
    BY DEF paths_osdu_welllogacquisition, create_osdu_welllogacquisition,
           ref_osdu_welllogacquisition
  <1>13. EntryAgrees("osdu_ppfgdataset")
    BY DEF paths_osdu_ppfgdataset, create_osdu_ppfgdataset,
           ref_osdu_ppfgdataset
  <1>14. EntryAgrees("osdu_wellpressuretestrawmeasurement")
    BY DEF paths_osdu_wellpressuretestrawmeasurement,
           create_osdu_wellpressuretestrawmeasurement,
           ref_osdu_wellpressuretestrawmeasurement
  <1>15. EntryAgrees("unknown_kind_osdu_welllog")
    <2> DEFINE b == request_path_dict["unknown_kind_osdu_welllog"]
    <2>1. /\ b.create = create_osdu_unknown_kind_welllog
          /\ DOMAIN b.paths = {}
      OBVIOUS
    <2> HIDE DEF request_path_dict
    <2> QED
      BY <2>1 DEF create_osdu_unknown_kind_welllog
  <1> HIDE SegmentsRouted
      DEF EntryAgrees, get_cleaned_ref_and_res, Builders, Paths, Create, Ref, Op
  <1> QED
    BY <1>1, <1>2, <1>3, <1>4, <1>5, <1>6, <1>7, <1>8, <1>9, <1>10, <1>11,
       <1>12, <1>13, <1>14, <1>15

-----------------------------------------------------------------------------
(* The inductive invariant.                                                *)

Tool == request_path_dict[entry]

\* What TypeOK says of the store.
StoreTyped ==
    /\ \A v \in records : /\ v.id \in Id /\ v.no \in 1..MaxVersions
                          /\ v.body \in Body(RecordData) /\ v.via \in Routers
    /\ lastNo \in 0..MaxVersions

Settings ==
    entry \in DOMAIN request_path_dict /\ retryOn \in {{}, {503, 504}}

\* The request under way is one of the entry's, for the record id as it is,
\* and a deletion under way is a known one.
RequestBuilt ==
    attempt > 0 =>
        /\ calls > 0
        /\ request.op \in DOMAIN Tool.paths \cup {"post"}
        /\ request.row = ToolRow
        /\ request.op = "post" => request.body = Payload(Tool.create)
        /\ request.op # "post" => request.path = recordId
        /\ request.op = "delete" => request.path.id \in dropped

\* The versions of an answer that did not reach the caller yet are there.
AnswerKept ==
    attempt > 0 /\ request.op = "post" /\ answer.status = 200 =>
        /\ answer.id \in Id
        /\ answer.nos \subseteq 1..MaxVersions
        /\ answer.id \notin dropped => answer.nos \subseteq Numbers(answer.id)

\* A version with the tool's data is of the entry's kind, under an id of its
\* type, the one the payload names if it does.
OwnRecords ==
    \A v \in records : v.body.data = ToolData =>
        /\ v.id.type = Tool.create.type
        /\ v.body.type = Tool.create.type
        /\ Tool.create.fixed => v.id.uid = 0

\* A call has no more attempts than it may, and the attempts that were answered
\* bound the records the client has made.
RecordsCounted ==
    /\ attempt <= Tries
    /\ IsFiniteSet(ToolIds)
    /\ Cardinality(ToolIds) <= Spent

ClientInv ==
    /\ TypeOK
    /\ Settings
    /\ RequestBuilt
    /\ AnswerKept
    /\ AckedKept
    /\ OwnRecords
    /\ RecordsCounted

-----------------------------------------------------------------------------
(* Facts about the tool's entry and the store.                             *)

LEMMA ToolFacts ==
    ASSUME Settings
    PROVE  /\ ToolRow \in Routers /\ ToolRow.type = Tool.create.type
           /\ Tool.create.type \in Type
           /\ Tool.create.fixed \in BOOLEAN
           /\ ToolData # "user" /\ ToolData \in RecordData
           /\ \A op \in DOMAIN Tool.paths :
                /\ op \in Op \ {"post"}
                /\ RouterOf(Tool.paths[op].base) = ToolRow
                /\ resolve(Tool.paths[op].var) = recordId
                /\ ~diff_record_against_ref(entry, ToolData)
  <1>1. EntryAgrees(entry)
    BY EntriesAgree DEF Settings
  <1>2. PICK r \in Routers : r.base = Tool.create.base /\ r.type = Tool.create.type
    BY <1>1 DEF EntryAgrees, Routed, Tool
  <1>3. ToolRow \in Routers /\ ToolRow.base = Tool.create.base
    BY <1>2 DEF ToolRow, RouterOf, Tool
  <1>4. ToolRow = r
    BY <1>2, <1>3, RouterFacts
  <1>5. ToolData = Tool.create.data /\ ToolData \in RecordData
    BY DEF ToolData, Tool, RecordData, Settings
  <1>6. ASSUME NEW op \in DOMAIN Tool.paths
        PROVE  /\ op \in Op \ {"post"}
               /\ RouterOf(Tool.paths[op].base) = ToolRow
               /\ resolve(Tool.paths[op].var) = recordId
               /\ ~diff_record_against_ref(entry, ToolData)
    <2>1. /\ op \in Op \ {"post"}
          /\ Tool.paths[op] = [base |-> Tool.create.base, var |-> entry]
          /\ get_cleaned_ref_and_res[entry].data = Tool.create.data
      BY <1>1, <1>6 DEF EntryAgrees, Tool
    <2> QED
      BY <1>5, <2>1 DEF ToolRow, Tool, resolve, diff_record_against_ref
  <1> QED
    BY <1>1, <1>2, <1>3, <1>4, <1>5, <1>6, RouterFacts DEF EntryAgrees, Tool

LEMMA ToolPayload ==
    ASSUME Settings
    PROVE  LET p == Payload(Tool.create) IN
           /\ p \in Body(RecordData)
           /\ p.data = ToolData /\ p.type = Tool.create.type
           /\ p.id = IF Tool.create.fixed THEN [type |-> Tool.create.type, uid |-> 0]
                     ELSE NoId
  <1>1. Payload(Tool.create) =
          [id |-> IF Tool.create.fixed THEN [type |-> Tool.create.type, uid |-> 0]
                  ELSE NoId,
           type |-> Tool.create.type, known |-> Tool.create.schema # "99.99.99",
           data |-> ToolData, consistent |-> TRUE]
    BY DEF Payload, ToolData, Tool
  <1>2. [type |-> Tool.create.type, uid |-> 0] \in Id
    BY ToolFacts, VersionsAssumption DEF Id
  <1> QED
    BY <1>1, <1>2, ToolFacts DEF Body

\* The id the store gives.
LEMMA StoredIdType ==
    ASSUME StoreTyped, lastNo < MaxVersions, NEW body, body.id \in Id \cup {NoId},
           body.type \in Type
    PROVE  /\ StoredId(body) \in Id
           /\ body.id = NoId => StoredId(body).type = body.type
           /\ body.id # NoId => StoredId(body) = body.id
           /\ lastNo + 1 \in 1..MaxVersions
  <1>1. lastNo + 1 \in 1..MaxVersions
    BY VersionsAssumption DEF StoreTyped
  <1>2. NewId(body) \in Id /\ NewId(body).type = body.type
    BY <1>1 DEF NewId, Id
  <1> QED
    BY <1>1, <1>2 DEF StoredId

\* What a request does to the store.
LEMMA PostEffect ==
    ASSUME NEW q, NEW verdict \in Verdict, q.op = "post", Effect(q, Handler(q, verdict))
    PROVE  \/ /\ Handler(q, verdict).status = 200
              /\ Handler(q, verdict).id = StoredId(q.body) /\ Handler(q, verdict).nos = {lastNo + 1}
              /\ lastNo' = lastNo + 1
              /\ records' = records \cup
                    {[id |-> StoredId(q.body), no |-> lastNo + 1,
                      body |-> q.body, via |-> q.row]}
           \/ /\ Handler(q, verdict).status # 200
              /\ records' = records /\ lastNo' = lastNo
  <1>1. Handler(q, verdict) = create_or_update_osdu_record(q, verdict)
    BY DEF Handler
  <1>2. PostRefusal(q, verdict) \in {0, 400, 404, 422, 500}
    BY DEF PostRefusal, validate_records, Verdict, http_schema_error_handler,
           json_schema_error_handler
  <1>3. \/ /\ Handler(q, verdict).status = 200
           /\ Handler(q, verdict).id = StoredId(q.body) /\ Handler(q, verdict).nos = {lastNo + 1}
        \/ Handler(q, verdict).status # 200
    <2>1. CASE PostRefusal(q, verdict) # 0
      BY <1>1, <1>2, <2>1 DEF create_or_update_osdu_record, Refuse, NoAnswer
    <2>2. CASE PostRefusal(q, verdict) = 0
      BY <1>1, <2>2 DEF create_or_update_osdu_record, NoAnswer
    <2> QED
      BY <2>1, <2>2
  <1> QED
    BY <1>3 DEF Effect, apiVars

LEMMA OtherEffect ==
    ASSUME NEW q, NEW verdict, q.op \in Op \ {"post"}, Effect(q, Handler(q, verdict))
    PROVE  /\ records' \subseteq records /\ lastNo' = lastNo
           /\ \A v \in records : v.id # q.path.id \/ q.op # "delete" => v \in records'
  BY DEF Effect, VersionsOf, apiVars

-----------------------------------------------------------------------------
(* The store grows by one version, or loses versions that were dropped.    *)

LEMMA StoreGrows ==
    ASSUME ClientInv, NEW w, w.id \in Id, w.no \in 1..MaxVersions,
           w.body \in Body(RecordData), w.via \in Routers, lastNo < MaxVersions,
           w.body.data = ToolData =>
                /\ w.id.type = Tool.create.type
                /\ w.body.type = Tool.create.type
                /\ Tool.create.fixed => w.id.uid = 0,
           records' = records \cup {w}, lastNo' = lastNo + 1, entry' = entry
    PROVE  /\ StoreTyped' /\ OwnRecords'
           /\ \A id : Numbers(id) \subseteq Numbers(id)'
           /\ w.no \in Numbers(w.id)'
           /\ IsFiniteSet(ToolIds')
           /\ Cardinality(ToolIds') <= Cardinality(ToolIds) + 1
           /\ w.body.data # ToolData => ToolIds' = ToolIds
  <1>1. StoreTyped'
    BY VersionsAssumption DEF ClientInv, TypeOK, StoreTyped
  <1>2. ToolData' = ToolData /\ Tool' = Tool
    BY DEF ToolData, Tool
  <1>3. OwnRecords'
    BY <1>2 DEF ClientInv, OwnRecords
  <1>4. \A id : Numbers(id) \subseteq Numbers(id)'
    BY DEF Numbers, VersionsOf
  <1>5. w.no \in Numbers(w.id)'
    BY DEF Numbers, VersionsOf
  <1>6. ToolIds' = IF w.body.data = ToolData THEN ToolIds \cup {w.id} ELSE ToolIds
    BY <1>2 DEF ToolIds
  <1>7. IsFiniteSet(ToolIds) /\ Cardinality(ToolIds) \in Nat
    BY FS_CardinalityType DEF ClientInv, RecordsCounted
  <1>8. /\ IsFiniteSet(ToolIds \cup {w.id})
        /\ Cardinality(ToolIds \cup {w.id}) <= Cardinality(ToolIds) + 1
    BY <1>7, FS_AddElement
  <1> QED
    BY <1>1, <1>3, <1>4, <1>5, <1>6, <1>7, <1>8

LEMMA StoreShrinks ==
    ASSUME ClientInv, records' \subseteq records, lastNo' = lastNo, entry' = entry
    PROVE  /\ StoreTyped' /\ OwnRecords'
           /\ IsFiniteSet(ToolIds')
           /\ Cardinality(ToolIds') <= Cardinality(ToolIds)
  <1>1. StoreTyped'
    BY DEF ClientInv, TypeOK, StoreTyped
  <1>2. ToolData' = ToolData /\ Tool' = Tool
    BY DEF ToolData, Tool
  <1>3. OwnRecords'
    BY <1>2 DEF ClientInv, OwnRecords
  <1>4. ToolIds' \subseteq ToolIds
    BY <1>2 DEF ToolIds
  <1>5. IsFiniteSet(ToolIds)
    BY DEF ClientInv, RecordsCounted
  <1> QED
    BY <1>1, <1>3, <1>4, <1>5, FS_Subset

\* A request of the tool takes effect.
LEMMA ServedStore ==
    ASSUME ClientInv, NEW verdict \in Verdict, Waiting, Affordable(request),
           Effect(request, Handler(request, verdict)),
           UNCHANGED <<entry, acked, dropped>>
    PROVE  LET made == request.op = "post" /\ Handler(request, verdict).status = 200
           IN
           /\ StoreTyped' /\ OwnRecords' /\ AckedKept'
           /\ IsFiniteSet(ToolIds')
           /\ Cardinality(ToolIds') <= Cardinality(ToolIds) + 1
           /\ ~made => Cardinality(ToolIds') <= Cardinality(ToolIds)
           /\ made => \E id \in Id, no \in 1..MaxVersions :
                        /\ Handler(request, verdict).id = id
                        /\ Handler(request, verdict).nos = {no}
                        /\ no \in Numbers(id)'
  <1> DEFINE a == Handler(request, verdict)
             made == request.op = "post" /\ a.status = 200
  <1>1. /\ Settings /\ StoreTyped /\ AckedKept /\ entry' = entry
        /\ request.op \in DOMAIN Tool.paths \cup {"post"}
        /\ request.row = ToolRow
        /\ request.op = "post" => request.body = Payload(Tool.create)
        /\ request.op = "delete" => request.path.id \in dropped
    BY DEF ClientInv, Waiting, RequestBuilt, TypeOK, StoreTyped
  <1>2. IsFiniteSet(ToolIds) /\ Cardinality(ToolIds) \in Nat
    BY FS_CardinalityType DEF ClientInv, RecordsCounted
  <1> HIDE DEF a
  <1>3. CASE made
    <2> PICK w : w = [id |-> StoredId(request.body), no |-> lastNo + 1,
                      body |-> request.body, via |-> request.row]
      OBVIOUS
    <2>1. /\ a.id = StoredId(request.body) /\ a.nos = {lastNo + 1}
          /\ lastNo' = lastNo + 1 /\ records' = records \cup {w}
      BY <1>3, PostEffect DEF a
    <2>2. lastNo < MaxVersions
      BY <1>3 DEF Affordable
    <2>3. /\ request.body \in Body(RecordData) /\ request.row \in Routers
          /\ request.body.type = Tool.create.type
          /\ request.body.id = IF Tool.create.fixed
                               THEN [type |-> Tool.create.type, uid |-> 0] ELSE NoId
      BY <1>1, <1>3, ToolPayload, ToolFacts
    <2>4. request.body.id \in Id \cup {NoId} /\ request.body.type \in Type
      BY <2>3 DEF Body
    <2>5. [type |-> Tool.create.type, uid |-> 0] # NoId
      BY <1>1, ToolFacts, RouterFacts DEF NoId
    <2>6. /\ w.id \in Id /\ w.no \in 1..MaxVersions
          /\ w.id.type = Tool.create.type
          /\ Tool.create.fixed => w.id.uid = 0
      BY <1>1, <2>2, <2>3, <2>4, <2>5, StoredIdType
    <2>7. /\ w.body = request.body /\ w.via = request.row
          /\ a.id = w.id /\ a.nos = {w.no}
      BY <2>1
    <2>8. /\ StoreTyped' /\ OwnRecords'
          /\ \A id : Numbers(id) \subseteq Numbers(id)'
          /\ w.no \in Numbers(w.id)'
          /\ IsFiniteSet(ToolIds')
          /\ Cardinality(ToolIds') <= Cardinality(ToolIds) + 1
      BY <1>1, <2>1, <2>2, <2>3, <2>6, <2>7, StoreGrows
    <2>9. AckedKept'
      BY <1>1, <2>8 DEF AckedKept
    <2> QED
      BY <1>3, <2>6, <2>7, <2>8, <2>9 DEF a
  <1>4. CASE ~made
    <2>1. /\ records' \subseteq records /\ lastNo' = lastNo
          /\ \A v \in records : v.id \notin dropped => v \in records'
      <3>1. CASE request.op = "post"
        BY <1>4, <3>1, PostEffect DEF a
      <3>2. CASE request.op # "post"
        BY <1>1, <3>2, ToolFacts, OtherEffect
      <3> QED
        BY <3>1, <3>2
    <2>2. /\ StoreTyped' /\ OwnRecords'
          /\ IsFiniteSet(ToolIds')
          /\ Cardinality(ToolIds') <= Cardinality(ToolIds)
      BY <1>1, <2>1, StoreShrinks
    <2>3. AckedKept'
      BY <1>1, <2>1 DEF AckedKept, Numbers, VersionsOf
    <2>4. Cardinality(ToolIds') \in Nat
      BY <2>2, FS_CardinalityType
    <2> QED
      BY <1>2, <1>4, <2>2, <2>3, <2>4 DEF a
  <1> QED
    BY <1>3, <1>4

-----------------------------------------------------------------------------
(* The invariant holds.                                                    *)

LEMMA ClientInit == Init => ClientInv
  <1> SUFFICES ASSUME Init PROVE ClientInv
    OBVIOUS
  <1> USE DEF Init, ApiInit
  <1>1. Settings
    BY EntriesAssumption DEF Settings
  <1>2. TypeOK
    BY VersionsAssumption, CallBoundsAssumption DEF TypeOK, NoRequest, PathId, Unset
  <1>3. RequestBuilt /\ AnswerKept /\ AckedKept /\ OwnRecords
    BY DEF RequestBuilt, AnswerKept, AckedKept, OwnRecords
  <1>4. ToolIds = {}
    BY DEF ToolIds
  <1>5. RecordsCounted
    BY <1>4, FS_EmptySet DEF RecordsCounted, Spent, Tries, nb_attempt
  <1> QED
    BY <1>1, <1>2, <1>3, <1>5 DEF ClientInv

\* A step that leaves the store, the entry and the settings alone leaves what
\* they hold alone.
LEMMA StoreAlone ==
    ASSUME ClientInv, UNCHANGED <<records, lastNo, entry, retryOn>>
    PROVE  /\ StoreTyped' /\ Settings' /\ OwnRecords'
           /\ ToolIds' = ToolIds /\ Tool' = Tool /\ ToolRow' = ToolRow
           /\ Tries' = Tries
           /\ \A id : Numbers(id)' = Numbers(id)
  BY DEF ClientInv, TypeOK, StoreTyped, Settings, OwnRecords, ToolIds, ToolData, Tool,
         ToolRow, RouterOf, Tries, nb_attempt, Numbers, VersionsOf

\* A step of the service: the request stays, and an answer comes.
LEMMA ServedInv ==
    ASSUME ClientInv, Waiting, Unmoved, UNCHANGED countVars,
           StoreTyped', OwnRecords', AckedKept', AnswerKept',
           IsFiniteSet(ToolIds'),
           Cardinality(ToolIds') <= Cardinality(ToolIds) + 1,
           answer' = NoAnswer => Cardinality(ToolIds') <= Cardinality(ToolIds)
    PROVE  ClientInv'
  <1>1. /\ UNCHANGED <<entry, recordId, retryOn, attempt, request, calls, posts,
                      acked, dropped>>
        /\ Tool' = Tool /\ ToolRow' = ToolRow /\ Tries' = Tries
    BY DEF Unmoved, countVars, Tool, ToolRow, RouterOf, Tries, nb_attempt
  <1>2. TypeOK' /\ Settings'
    BY <1>1 DEF ClientInv, TypeOK, StoreTyped, Settings
  <1>3. RequestBuilt'
    BY <1>1 DEF ClientInv, RequestBuilt, Payload
  <1>4. RecordsCounted'
    <2>1. /\ Cardinality(ToolIds) \in Nat /\ Cardinality(ToolIds') \in Nat
          /\ calls \in Nat /\ attempt \in 0..4 /\ Tries \in {1, 4}
      BY CallBoundsAssumption, FS_CardinalityType
      DEF ClientInv, TypeOK, RecordsCounted, Tries, nb_attempt
    <2>2. /\ attempt > 0 /\ attempt <= Tries
          /\ Cardinality(ToolIds) <= Tries * (calls - 1) + attempt - 1
      BY DEF ClientInv, RecordsCounted, Waiting, Spent
    <2>3. attempt' <= Tries' /\ IsFiniteSet(ToolIds')
      BY <1>1, <2>2
    <2>4. CASE answer' = NoAnswer
      <3>1. Spent' = Tries * (calls - 1) + attempt - 1
        BY <1>1, <2>1, <2>2, <2>4 DEF Spent
      <3> QED
        BY <2>1, <2>2, <2>3, <2>4, <3>1 DEF RecordsCounted
    <2>5. CASE answer' # NoAnswer
      <3>1. Spent' = Tries * (calls - 1) + attempt
        BY <1>1, <2>1, <2>2, <2>5 DEF Spent
      <3> QED
        BY <2>1, <2>2, <2>3, <2>5, <3>1 DEF RecordsCounted
    <2> QED
      BY <2>4, <2>5
  <1> QED
    BY <1>2, <1>3, <1>4 DEF ClientInv

LEMMA ClientStep == ClientInv /\ [Next]_vars => ClientInv'
  <1> SUFFICES ASSUME ClientInv, [Next]_vars PROVE ClientInv'
    OBVIOUS
  <1>1. CASE UNCHANGED vars
    <2>1. TypeOK' /\ Settings' /\ RequestBuilt' /\ AnswerKept'
      BY <1>1
      DEF ClientInv, vars, apiVars, callVars, countVars, TypeOK, Settings,
          RequestBuilt, Tool, ToolRow, RouterOf, Payload, AnswerKept, Numbers,
          VersionsOf
    <2>2. AckedKept' /\ OwnRecords' /\ RecordsCounted'
      BY <1>1
      DEF ClientInv, vars, apiVars, callVars, countVars, AckedKept, OwnRecords,
          RecordsCounted, Tool, ToolIds, ToolData, Spent, Tries, nb_attempt,
          Numbers, VersionsOf
    <2> QED
      BY <2>1, <2>2 DEF ClientInv
  <1>2. ASSUME NEW op \in Op, Call(op) PROVE ClientInv'
    <2>1. PICK no : request' = build_request(op, no)
      BY <1>2 DEF Call
    <2>2. /\ attempt = 0 /\ attempt' = 1 /\ answer' = NoAnswer
          /\ calls < MaxCalls /\ calls' = calls + 1
          /\ op \in DOMAIN Tool.paths \cup {"post"}
          /\ dropped' = dropped \cup (IF op = "delete" THEN {request'.path.id} ELSE {})
          /\ UNCHANGED <<records, lastNo, entry, recordId, retryOn, posts, acked>>
      BY <1>2 DEF Call, Idle, apiVars, Tool
    <2>3. /\ StoreTyped' /\ Settings' /\ OwnRecords'
          /\ ToolIds' = ToolIds /\ Tool' = Tool /\ ToolRow' = ToolRow
          /\ Tries' = Tries
          /\ \A id : Numbers(id)' = Numbers(id)
      BY <2>2, StoreAlone
    <2>4. /\ request'.op = op /\ request'.row = ToolRow
          /\ op = "post" => request'.body = Payload(Tool.create)
          /\ op # "post" => request'.path = recordId
      <3>1. CASE op = "post"
        BY <2>1, <3>1 DEF build_request, NoRequest, ToolRow, Tool
      <3>2. CASE op # "post"
        <4>1. RouterOf(Tool.paths[op].base) = ToolRow
              /\ resolve(Tool.paths[op].var) = recordId
          BY <2>2, <3>2, ToolFacts DEF ClientInv
        <4> QED
          BY <2>1, <3>2, <4>1 DEF build_request, NoRequest, Tool
      <3> QED
        BY <3>1, <3>2
    <2>5. TypeOK'
      BY <1>2, <2>2, <2>3, <2>4, CallBoundsAssumption
      DEF ClientInv, TypeOK, StoreTyped
    <2>6. RequestBuilt'
      BY <2>2, <2>3, <2>4 DEF ClientInv, TypeOK, RequestBuilt, Payload
    <2>7. AnswerKept' /\ AckedKept'
      BY <2>2, <2>3 DEF ClientInv, AnswerKept, AckedKept, NoAnswer
    <2>8. RecordsCounted'
      <3>1. calls \in Nat /\ Cardinality(ToolIds) \in Nat
        BY CallBoundsAssumption, FS_CardinalityType
        DEF ClientInv, TypeOK, RecordsCounted
      <3> QED
        BY <2>2, <2>3, <3>1
        DEF ClientInv, RecordsCounted, Spent, Tries, nb_attempt
    <2> QED
      BY <2>3, <2>5, <2>6, <2>7, <2>8 DEF ClientInv
  <1>3. CASE Retry
    <2>1. /\ attempt > 0 /\ answer # NoAnswer /\ answer.status \in retryOn
          /\ attempt < nb_attempt /\ attempt' = attempt + 1 /\ answer' = NoAnswer
          /\ UNCHANGED <<records, lastNo, entry, recordId, retryOn, request, calls,
                         posts, acked, dropped>>
      BY <1>3 DEF Retry, Answered, Again, apiVars, countVars
    <2>2. /\ StoreTyped' /\ Settings' /\ OwnRecords'
          /\ ToolIds' = ToolIds /\ Tool' = Tool /\ ToolRow' = ToolRow
          /\ Tries' = Tries
          /\ \A id : Numbers(id)' = Numbers(id)
      BY <2>1, StoreAlone
    <2>3. TypeOK'
      BY <2>1, <2>2 DEF ClientInv, TypeOK, StoreTyped, nb_attempt
    <2>4. RequestBuilt'
      BY <2>1, <2>2 DEF ClientInv, RequestBuilt, Payload
    <2>5. AnswerKept' /\ AckedKept'
      BY <2>1, <2>2 DEF ClientInv, AnswerKept, AckedKept, NoAnswer
    <2>6. RecordsCounted'
      <3>1. calls \in Nat /\ attempt \in 0..4 /\ Cardinality(ToolIds) \in Nat
        BY CallBoundsAssumption, FS_CardinalityType
        DEF ClientInv, TypeOK, RecordsCounted
      <3>2. Tries = 4
        BY <2>1 DEF Tries, nb_attempt
      <3> QED
        BY <2>1, <2>2, <3>1, <3>2
        DEF ClientInv, RecordsCounted, Spent, nb_attempt
    <2> QED
      BY <2>2, <2>3, <2>4, <2>5, <2>6 DEF ClientInv
  <1>4. CASE Return_
    <2>1. /\ attempt > 0 /\ answer # NoAnswer
          /\ attempt' = 0 /\ request' = NoRequest /\ answer' = NoAnswer
          /\ UNCHANGED <<records, lastNo, entry, recordId, retryOn, calls, posts,
                         dropped>>
      BY <1>4 DEF Return_, Answered, apiVars
    <2>2. acked' = IF request.op = "post" /\ answer.status = 200
                   THEN acked \cup {[id |-> answer.id, no |-> n] : n \in answer.nos}
                   ELSE acked
      BY <1>4 DEF Return_
    <2>3. /\ StoreTyped' /\ Settings' /\ OwnRecords'
          /\ ToolIds' = ToolIds /\ Tool' = Tool /\ ToolRow' = ToolRow
          /\ Tries' = Tries
          /\ \A id : Numbers(id)' = Numbers(id)
      BY <2>1, StoreAlone
    <2>4. acked' \subseteq [id : Id, no : 1..MaxVersions]
      BY <2>1, <2>2 DEF ClientInv, TypeOK, AnswerKept
    <2>5. TypeOK'
      BY <2>1, <2>3, <2>4 DEF ClientInv, TypeOK, StoreTyped, NoRequest
    <2>6. RequestBuilt' /\ AnswerKept'
      BY <2>1 DEF RequestBuilt, AnswerKept
    <2>7. AckedKept'
      BY <2>1, <2>2, <2>3 DEF ClientInv, AnswerKept, AckedKept
    <2>8. RecordsCounted'
      <3>1. calls \in Nat /\ attempt \in 0..4 /\ Cardinality(ToolIds) \in Nat
        BY CallBoundsAssumption, FS_CardinalityType
        DEF ClientInv, TypeOK, RecordsCounted
      <3> QED
        BY <2>1, <2>3, <3>1
        DEF ClientInv, RecordsCounted, Spent, Tries, nb_attempt
    <2> QED
      BY <2>3, <2>5, <2>6, <2>7, <2>8 DEF ClientInv
  <1>5. CASE SetRecordId
    <2>1. /\ attempt = 0
          /\ UNCHANGED <<records, lastNo, entry, retryOn, attempt, request, answer,
                         calls, posts, acked, dropped>>
      BY <1>5 DEF SetRecordId, Idle, apiVars, callVars, countVars
    <2>2. PICK v \in acked, s \in BOOLEAN : recordId' = [id |-> v.id, suffix |-> s]
      BY <1>5 DEF SetRecordId
    <2>3. /\ StoreTyped' /\ Settings' /\ OwnRecords'
          /\ ToolIds' = ToolIds /\ Tool' = Tool /\ ToolRow' = ToolRow
          /\ Tries' = Tries
          /\ \A id : Numbers(id)' = Numbers(id)
      BY <2>1, StoreAlone
    <2>4. recordId' \in PathId
      <3>1. v.id \in Id
        BY <2>2 DEF ClientInv, TypeOK
      <3> QED
        BY <2>2, <3>1 DEF PathId
    <2>5. TypeOK'
      BY <2>1, <2>3, <2>4 DEF ClientInv, TypeOK, StoreTyped
    <2>6. RequestBuilt' /\ AnswerKept'
      BY <2>1 DEF RequestBuilt, AnswerKept
    <2>7. AckedKept'
      BY <2>1, <2>3 DEF ClientInv, AckedKept
    <2>8. RecordsCounted'
      BY <2>1, <2>3 DEF ClientInv, RecordsCounted, Spent
    <2> QED
      BY <2>3, <2>5, <2>6, <2>7, <2>8 DEF ClientInv
  <1>6. CASE UserPost
    <2> DEFINE Posted(p) ==
            [NoRequest EXCEPT !.op = "post", !.row = p.row,
                !.body = [id |-> ToolId, type |-> p.type, known |-> TRUE,
                          data |-> "user", consistent |-> p.ok]]
    <2>0. PICK p \in UserPosts : Effect(Posted(p), Handler(Posted(p), "valid"))
      BY <1>6 DEF UserPost
    <2>1. PICK q : q = Posted(p) /\ Effect(q, Handler(q, "valid"))
      BY <2>0
    <2>2. /\ lastNo < MaxVersions /\ posts < MaxPosts /\ posts' = posts + 1
          /\ UNCHANGED <<entry, recordId, retryOn, attempt, request, calls, answer,
                         acked, dropped>>
          /\ Settings /\ StoreTyped
      BY <1>6 DEF UserPost, Unmoved, ClientInv, TypeOK, StoreTyped
    <2>3. /\ Tool' = Tool /\ ToolRow' = ToolRow /\ Tries' = Tries /\ Settings'
      BY <2>2 DEF Tool, ToolRow, RouterOf, Tries, nb_attempt, Settings
    <2>4. p.row \in Routers /\ p.type \in Type /\ p.ok \in BOOLEAN
      <3>1. ToolRow \in Routers /\ Other \in Routers
        BY <2>2, ToolFacts, RouterFacts DEF Other
      <3> QED
        BY <3>1, RouterFacts DEF UserPosts
    <2>5. ToolId \in Id
      <3>1. recordId \in PathId /\ ToolRow.type \in Type
        BY <2>2, ToolFacts DEF ClientInv, TypeOK
      <3> QED
        BY <3>1, VersionsAssumption DEF PathId, Unset, ToolId, Id
    <2>6. /\ q.op = "post" /\ q.row = p.row /\ q.body.id = ToolId
          /\ q.body.type = p.type /\ q.body.data = "user"
          /\ q.body \in Body(RecordData)
      BY <2>1, <2>4, <2>5 DEF NoRequest, Body, RecordData
    <2>7. CASE records' = records /\ lastNo' = lastNo
      <3>1. /\ StoreTyped' /\ OwnRecords' /\ ToolIds' = ToolIds
            /\ \A id : Numbers(id)' = Numbers(id)
        BY <2>2, <2>7, StoreAlone
      <3>2. TypeOK'
        BY <2>2, <3>1, CallBoundsAssumption DEF ClientInv, TypeOK, StoreTyped
      <3>3. RequestBuilt'
        BY <2>2, <2>3 DEF ClientInv, RequestBuilt, Payload
      <3>4. AnswerKept' /\ AckedKept'
        BY <2>2, <3>1 DEF ClientInv, AnswerKept, AckedKept
      <3>5. RecordsCounted'
        BY <2>2, <2>3, <3>1 DEF ClientInv, RecordsCounted, Spent
      <3> QED
        BY <2>3, <3>1, <3>2, <3>3, <3>4, <3>5 DEF ClientInv
    <2>8. CASE ~(records' = records /\ lastNo' = lastNo)
      <3> PICK w : w = [id |-> StoredId(q.body), no |-> lastNo + 1,
                        body |-> q.body, via |-> q.row]
        OBVIOUS
      <3>1. lastNo' = lastNo + 1 /\ records' = records \cup {w}
        BY <2>1, <2>6, <2>8, PostEffect DEF Verdict
      <3>2. StoredId(q.body) \in Id /\ lastNo + 1 \in 1..MaxVersions
        BY <2>2, <2>4, <2>5, <2>6, StoredIdType
      <3>3. /\ w.id \in Id /\ w.no \in 1..MaxVersions
            /\ w.body \in Body(RecordData) /\ w.via \in Routers
            /\ w.body.data # ToolData
        BY <2>2, <2>4, <2>6, <3>2, ToolFacts
      <3>4. /\ StoreTyped' /\ OwnRecords' /\ ToolIds' = ToolIds
            /\ \A id : Numbers(id) \subseteq Numbers(id)'
        BY <2>2, <3>1, <3>3, StoreGrows
      <3>5. TypeOK'
        BY <2>2, <3>4, CallBoundsAssumption DEF ClientInv, TypeOK, StoreTyped
      <3>6. RequestBuilt'
        BY <2>2, <2>3 DEF ClientInv, RequestBuilt, Payload
      <3>7. AckedKept'
        BY <2>2, <3>4 DEF ClientInv, AckedKept
      <3>8. AnswerKept'
        BY <2>2, <3>4 DEF ClientInv, AnswerKept
      <3>9. RecordsCounted'
        BY <2>2, <2>3, <3>4 DEF ClientInv, RecordsCounted, Spent
      <3> QED
        BY <2>3, <3>4, <3>5, <3>6, <3>7, <3>8, <3>9 DEF ClientInv
    <2> QED
      BY <2>7, <2>8
  <1>7. CASE Serve
    <2> PICK verdict \in Verdict :
            /\ answer' = Handler(request, verdict)
            /\ Effect(request, Handler(request, verdict))
      BY <1>7 DEF Serve
    <2> DEFINE made == request.op = "post" /\ Handler(request, verdict).status = 200
    <2>1. /\ Waiting /\ Affordable(request) /\ answer' = Handler(request, verdict)
          /\ Effect(request, Handler(request, verdict)) /\ Unmoved /\ UNCHANGED countVars
          /\ UNCHANGED <<entry, request, acked, dropped>>
      BY <1>7 DEF Serve, Unmoved, countVars
    <2>2. /\ StoreTyped' /\ OwnRecords' /\ AckedKept'
          /\ IsFiniteSet(ToolIds')
          /\ Cardinality(ToolIds') <= Cardinality(ToolIds) + 1
          /\ ~made => Cardinality(ToolIds') <= Cardinality(ToolIds)
          /\ made => \E id \in Id, no \in 1..MaxVersions :
                        /\ Handler(request, verdict).id = id
                        /\ Handler(request, verdict).nos = {no}
                        /\ no \in Numbers(id)'
      BY <2>1, ServedStore
    <2>3. made => answer' # NoAnswer
      BY <2>1 DEF NoAnswer
    <2>4. AnswerKept'
      <3>1. CASE made
        <4>1. PICK id \in Id, no \in 1..MaxVersions :
                answer'.id = id /\ answer'.nos = {no} /\ no \in Numbers(id)'
          BY <2>1, <2>2, <3>1
        <4> QED
          BY <4>1 DEF AnswerKept
      <3>2. CASE ~made
        BY <2>1, <3>2 DEF AnswerKept
      <3> QED
        BY <3>1, <3>2
    <2> QED
      BY <2>1, <2>2, <2>3, <2>4, ServedInv
  <1>8. CASE ServeTimesOut
    <2>1. /\ Waiting /\ Affordable(request) /\ answer' = Refuse(504)
          /\ Effect(request, Handler(request, "valid")) /\ Unmoved /\ UNCHANGED countVars
          /\ UNCHANGED <<entry, acked, dropped>>
      BY <1>8 DEF ServeTimesOut, Unmoved, countVars, http_storage_error_handler
    <2>2. answer'.status = 504 /\ answer' # NoAnswer
      BY <2>1 DEF Refuse, NoAnswer
    <2>3. AnswerKept'
      BY <2>2 DEF AnswerKept
    <2> QED
      BY <2>1, <2>2, <2>3, ServedStore, ServedInv DEF Verdict
  <1>9. CASE ServeUnavailable
    <2>1. /\ Waiting /\ Unmoved /\ UNCHANGED countVars
          /\ UNCHANGED <<records, lastNo, entry, retryOn, acked, dropped>>
      BY <1>9 DEF ServeUnavailable, Unmoved, countVars, apiVars
    <2>2. PICK code \in {503, 504} : answer' = Refuse(code)
      BY <1>9 DEF ServeUnavailable, http_storage_error_handler
    <2>3. AnswerKept'
      BY <2>2 DEF AnswerKept, Refuse, NoAnswer
    <2>4. /\ StoreTyped' /\ OwnRecords' /\ ToolIds' = ToolIds
          /\ \A id : Numbers(id)' = Numbers(id)
      BY <2>1, StoreAlone
    <2>5. AckedKept'
      BY <2>1, <2>4 DEF ClientInv, AckedKept
    <2>6. IsFiniteSet(ToolIds) /\ Cardinality(ToolIds) \in Nat
      BY FS_CardinalityType DEF ClientInv, RecordsCounted
    <2> QED
      BY <2>1, <2>3, <2>4, <2>5, <2>6, ServedInv
  <1> QED
    BY <1>1, <1>2, <1>3, <1>4, <1>5, <1>6, <1>7, <1>8, <1>9 DEF Next, Service

\* The invariant of the client, the service and the other user.
THEOREM ClientInvariant == Spec => []ClientInv
  BY ClientInit, ClientStep, PTL DEF Spec

-----------------------------------------------------------------------------
(* What it implies in every state.                                         *)

\* The variables hold what they are declared to hold, for any number of
\* calls, versions and posts.
THEOREM ClientTypeCorrect == Spec => []TypeOK
  <1>1. ClientInv => TypeOK
    BY DEF ClientInv
  <1> QED
    BY <1>1, ClientInvariant, PTL

\* A version the client was told of stays until the client asks for the
\* deletion of its id: no retry, no other user and no answer lost on the way
\* removes it.
THEOREM AcknowledgedIsKept == Spec => []AckedKept
  <1>1. ClientInv => AckedKept
    BY DEF ClientInv
  <1> QED
    BY <1>1, ClientInvariant, PTL

\* The records the client makes, its retries included, are at most one when the
\* payload names the id, and at no time more than the attempts that were
\* answered: four of each earlier call at most, or one without retries.
THEOREM RetriesAreBounded == Spec => []RetriesDuplicate
  <1>1. ClientInv => RetriesDuplicate
    <2> SUFFICES ASSUME ClientInv PROVE RetriesDuplicate
      OBVIOUS
    <2>1. CASE Tool.create.fixed
      <3> DEFINE one == [type |-> Tool.create.type, uid |-> 0]
      <3>1. ToolIds \subseteq {one}
        <4> SUFFICES ASSUME NEW v \in records, v.body.data = ToolData
                     PROVE  v.id = one
          BY DEF ToolIds
        <4>1. v.id \in Id
          BY DEF ClientInv, TypeOK
        <4>2. v.id.type = Tool.create.type /\ v.id.uid = 0
          BY <2>1 DEF ClientInv, OwnRecords
        <4> QED
          BY <4>1, <4>2 DEF Id
      <3>2. IsFiniteSet({one}) /\ Cardinality({one}) = 1
        BY FS_Singleton
      <3> HIDE DEF one
      <3>3. Cardinality(ToolIds) <= 1
        BY <3>1, <3>2, FS_Subset
      <3> QED
        BY <2>1, <3>3 DEF RetriesDuplicate, Tool
    <2>2. CASE ~Tool.create.fixed
      BY <2>2 DEF RetriesDuplicate, Tool, ClientInv, RecordsCounted
    <2> QED
      BY <2>1, <2>2
  <1> QED
    BY <1>1, ClientInvariant, PTL

-----------------------------------------------------------------------------
(* What a request is answered.                                             *)

LEMMA LeastNumber ==
    ASSUME NEW T, T \subseteq Nat, T # {}
    PROVE  \E x \in T : \A y \in T : x <= y
  <1> DEFINE less == OpToRel(<, Nat)
  <1>1. IsWellFoundedOn(less, Nat)
    BY NatLessThanWellFounded, Zenon
  <1>2. \A p \in Nat \X Nat : p \in less <=> p[1] < p[2]
    BY DEF OpToRel
  <1> HIDE DEF less
  <1>3. PICK x \in T : \A y \in T : ~(<<y, x>> \in less)
    BY <1>1, WFMin
  <1>4. ASSUME NEW y \in T
        PROVE  x <= y
    <2>1. <<y, x>> \in Nat \X Nat /\ x \in Nat /\ y \in Nat
      OBVIOUS
    <2>2. ~(y < x)
      BY <1>2, <1>3, <2>1
    <2> QED
      BY <2>1, <2>2
  <1> QED
    BY <1>4

\* The greatest number is the least distant from the bound.
LEMMA MaxIsMember ==
    ASSUME NEW m \in Nat, NEW T \in SUBSET (1..m), T # {}
    PROVE  Max(T) \in T
  <1> DEFINE D == {m - x : x \in T}
  <1>1. D \subseteq Nat
    <2>1. ASSUME NEW x \in T PROVE m - x \in Nat
      <3>1. x \in 1..m
        OBVIOUS
      <3> QED
        BY <3>1
    <2> QED
      BY <2>1
  <1>2. PICK d \in D : \A e \in D : d <= e
    <2>1. D # {}
      OBVIOUS
    <2> QED
      BY <1>1, <2>1, LeastNumber
  <1>3. PICK x \in T : d = m - x
    BY <1>2
  <1>4. ASSUME NEW y \in T
        PROVE  x >= y
    <2>1. m - x <= m - y
      BY <1>2, <1>3
    <2> QED
      BY <2>1
  <1> QED
    BY <1>4 DEF Max

\* A number of an id is the number of one of its versions, and the latest
\* version of a record is one of its versions.
LEMMA NumberedIsVersion ==
    ASSUME NEW id, NEW n \in Numbers(id)
    PROVE  Numbered(id, n) \in VersionsOf(id) /\ Numbered(id, n).no = n
  BY DEF Numbered, Numbers

LEMMA LatestIsVersion ==
    ASSUME ClientInv, NEW id, VersionsOf(id) # {}
    PROVE  Latest(id) \in VersionsOf(id)
  <1>1. Numbers(id) \in SUBSET (1..MaxVersions) /\ Numbers(id) # {}
    BY DEF ClientInv, TypeOK, Numbers, VersionsOf
  <1>2. Max(Numbers(id)) \in Numbers(id)
    BY <1>1, MaxIsMember, VersionsAssumption
  <1> QED
    BY <1>2, NumberedIsVersion DEF Latest

\* An answer that is not a server error is the handler's.
LEMMA AnswersAreServed ==
    ASSUME ClientInv, [Next]_vars, NEW op, Answers(op)
    PROVE  /\ \E verdict \in Verdict : answer' = Handler(request, verdict)
           /\ request.op = op
           /\ request.row = ToolRow
           /\ op # "post" => request.path = recordId
           /\ op \in DOMAIN Tool.paths \cup {"post"}
  <1>1. attempt > 0 /\ attempt # 0 /\ answer = NoAnswer
    BY DEF Answers, Waiting, ClientInv, TypeOK
  <1>2. answer' # answer /\ answer'.status \notin {503, 504}
    BY <1>1 DEF Answers, NoAnswer
  <1>3. answer' # answer => \/ \E o \in Op : Call(o)
                            \/ Retry \/ Return_ \/ Service
    BY DEF Next, vars, callVars, SetRecordId, UserPost
  <1>4. ~(\E o \in Op : Call(o)) /\ ~Retry /\ ~Return_
    BY <1>1 DEF Call, Idle, Retry, Return_, Answered
  <1>5. ~ServeTimesOut /\ ~ServeUnavailable
    BY <1>2 DEF ServeTimesOut, ServeUnavailable, Refuse, NoAnswer,
                http_storage_error_handler
  <1>6. Serve
    BY <1>2, <1>3, <1>4, <1>5 DEF Service
  <1> QED
    BY <1>1, <1>6 DEF Serve, Answers, ClientInv, RequestBuilt

\* The record of the client's variable, when its latest version is the
\* client's own, passes the checks of the client's router.
LEMMA OwnRecordPasses ==
    ASSUME ClientInv, Holds(recordId)
    PROVE  LET latest == Latest(recordId.id) IN
           /\ latest \in VersionsOf(recordId.id)
           /\ VersionsOf(recordId.id) # {}
           /\ validate_record_id(ToolRow, recordId)
           /\ ~raise_if_not_osdu_right_entity_kind(ToolRow, latest.body.type)
           /\ latest.body.data = ToolData
  <1> DEFINE latest == Latest(recordId.id)
  <1>1. latest \in VersionsOf(recordId.id)
    BY LatestIsVersion DEF Holds
  <1>2. latest \in records /\ latest.id = recordId.id /\ latest.body.data = ToolData
    BY <1>1 DEF VersionsOf, Holds
  <1> HIDE DEF latest
  <1>3. /\ recordId.id.type = Tool.create.type
        /\ latest.body.type = Tool.create.type
    BY <1>2 DEF ClientInv, OwnRecords
  <1>4. ToolRow \in Routers /\ ToolRow.type = Tool.create.type
    BY ToolFacts DEF ClientInv
  <1>5. ~raise_if_not_osdu_right_entity_kind(ToolRow, latest.body.type)
    BY <1>3, <1>4, RouterFacts DEF raise_if_not_osdu_right_entity_kind
  <1>6. validate_record_id(ToolRow, recordId)
    BY <1>3, <1>4 DEF validate_record_id
  <1> QED
    BY <1>1, <1>2, <1>5, <1>6 DEF latest

\* What the client creates, the client reads back: for every entry of the
\* table, and with the version in the id or without; only the schema library
\* can refuse it.
THEOREM ClientReadsBack == Spec => RoundTrip
  <1>1. ClientInv /\ [Next]_vars =>
            [(Answers("get") /\ Holds(recordId)) =>
                \/ /\ answer'.status = 200
                   /\ ~diff_record_against_ref(entry, answer'.body.data)
                \/ answer'.schema]_vars
    <2> SUFFICES ASSUME ClientInv, [Next]_vars, Answers("get"), Holds(recordId)
                 PROVE  \/ /\ answer'.status = 200
                           /\ ~diff_record_against_ref(entry, answer'.body.data)
                        \/ answer'.schema
      OBVIOUS
    <2> DEFINE latest == Latest(recordId.id)
    <2>1. /\ request.op = "get" /\ request.row = ToolRow
          /\ request.path = recordId /\ "get" \in DOMAIN Tool.paths
      BY AnswersAreServed
    <2>2. PICK verdict \in Verdict : answer' = get_osdu_record(request, verdict)
      BY AnswersAreServed DEF Handler
    <2>3. answer' = Validated(latest, verdict) /\ latest.body.data = ToolData
      BY <2>1, <2>2, OwnRecordPasses DEF get_osdu_record, split_record_id_version
    <2> HIDE DEF latest
    <2>4. CASE validate_records(latest.body, verdict) = 0
      <3>1. answer' = Return(latest)
        BY <2>3, <2>4 DEF Validated
      <3>2. answer'.status = 200 /\ answer'.body.data = ToolData
        BY <2>3, <3>1 DEF Return, NoAnswer
      <3>3. ~diff_record_against_ref(entry, ToolData)
        BY <2>1, ToolFacts DEF ClientInv
      <3> QED
        BY <3>2, <3>3
    <2>5. CASE validate_records(latest.body, verdict) # 0
      BY <2>3, <2>5 DEF Validated, RefuseSchema, Refuse, NoAnswer
    <2> QED
      BY <2>4, <2>5
  <1> QED
    BY <1>1, ClientInvariant, PTL DEF Spec, RoundTrip

\* The list of the versions names every version the client was told of; only
\* the routers of the well logs and of the trajectories may find none, and
\* only for an id with its version.
THEOREM AcknowledgedIsListed == Spec => VersionsListed
  <1> DEFINE told == {v.no : v \in {w \in acked : w.id = recordId.id
                                                /\ w.id \notin dropped}}
  <1>1. ClientInv /\ [Next]_vars =>
            [(Answers("versions") /\ Holds(recordId)) =>
                \/ answer'.status = 200 /\ told \subseteq answer'.nos
                \/ /\ answer'.status = 404
                   /\ recordId.suffix
                   /\ ToolRow \in {welllog_ddms_v3, wellbore_trajectory_ddms_v3}]_vars
    <2> SUFFICES ASSUME ClientInv, [Next]_vars, Answers("versions"), Holds(recordId)
                 PROVE  \/ answer'.status = 200 /\ told \subseteq answer'.nos
                        \/ /\ answer'.status = 404
                           /\ recordId.suffix
                           /\ ToolRow \in {welllog_ddms_v3,
                                          wellbore_trajectory_ddms_v3}
      OBVIOUS
    <2>1. /\ answer' = get_record_versions(request)
          /\ request.row = ToolRow /\ request.path = recordId
      BY AnswersAreServed DEF Handler
    <2>2. /\ VersionsOf(recordId.id) # {} /\ validate_record_id(ToolRow, recordId)
          /\ ~raise_if_not_osdu_right_entity_kind(ToolRow,
                Latest(recordId.id).body.type)
      BY OwnRecordPasses
    <2>3. CASE recordId.suffix /\ ~ToolRow.splitsFirst
      <3>1. answer' = Refuse(404)
        BY <2>1, <2>2, <2>3
        DEF get_record_versions, fetch_record, http_storage_error_handler
      <3>2. ToolRow \in {welllog_ddms_v3, wellbore_trajectory_ddms_v3}
        BY <2>3, ToolFacts, RouterFacts DEF ClientInv
      <3> QED
        BY <2>3, <3>1, <3>2 DEF Refuse, NoAnswer
    <2>4. CASE ~(recordId.suffix /\ ~ToolRow.splitsFirst)
      <3>1. answer' = [NoAnswer EXCEPT !.status = 200, !.nos = Numbers(recordId.id)]
        BY <2>1, <2>2, <2>4
        DEF get_record_versions, fetch_record, split_record_id_version
      <3>2. answer'.status = 200 /\ answer'.nos = Numbers(recordId.id)
        BY <3>1 DEF NoAnswer
      <3>3. told \subseteq Numbers(recordId.id)
        BY DEF ClientInv, AckedKept
      <3> QED
        BY <3>2, <3>3
    <2> QED
      BY <2>3, <2>4
  <1> QED
    BY <1>1, ClientInvariant, PTL DEF Spec, VersionsListed
=============================================================================
