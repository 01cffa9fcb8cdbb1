------------------------------ MODULE EntityApi ------------------------------
(***************************************************************************)
(* The record routers of the service (ddms/v3): for every entity a POST, a *)
(* GET, a DELETE, the list of the versions and one version.  The handlers  *)
(* of the nine routers differ in a handful of choices, which are the       *)
(* fields of a row; the handlers themselves are written once, over a row.  *)
(*                                                                         *)
(* A request is one step of the service: what interleaves inside a request *)
(* is the subject of RecordVersions and BlobRecordStore.                   *)
(***************************************************************************)
EXTENDS Integers, FiniteSets, FiniteSetsExt

CONSTANT MaxVersions   \* bound: record versions created in a behaviour

ASSUME VersionsAssumption == MaxVersions \in Nat \ {0}

VARIABLES
    records,  \* the versions stored: id, number, record, router it came by
    lastNo    \* the number of the last version created

apiVars == <<records, lastNo>>
-----------------------------------------------------------------------------
(* Entities, record ids and kinds.                                         *)

Entity == {"marker", "wellboreintervalset", "welllogacquisition", "trajectory",
           "well", "welllog", "wellbore", "dip", "dipSet", "ppfgdataset",
           "wellpressuretestrawmeasurement"}

\* The record type each entity must have in its kind.  The key of the PPFG
\* data sets is spelled otherwise than the entity, and there is no key for
\* the acquisitions.
entity_names ==
    [well |-> "Well", wellbore |-> "Wellbore", welllog |-> "WellLog",
     trajectory |-> "WellboreTrajectory", marker |-> "WellboreMarkerSet",
     wellboreintervalset |-> "WellboreIntervalSet",
     ppfgdatset |-> "PPFGDataset",
     wellpressuretestrawmeasurement |-> "WellPressureTestRawMeasurement"]

\* A router: its path segment, the type its ids must have, its entity;
\* whether GET checks the kind of what it read, whether the list of versions
\* drops the version of the id before it fetches the record, and whether POST
\* checks the bulk URI and the consistency of the records.
Row(base, type, entity, getChecks, splitsFirst, rules) ==
    [base |-> base, type |-> type, entity |-> entity, getChecks |-> getChecks,
     splitsFirst |-> splitsFirst, rules |-> rules]

wellbore_ddms_v3 == Row("wellbores", "Wellbore", "wellbore", FALSE, TRUE, FALSE)
well_ddms_v3 == Row("wells", "Well", "well", FALSE, TRUE, FALSE)
markerset_ddms_v3 ==
    Row("wellboremarkersets", "WellboreMarkerSet", "marker", TRUE, TRUE, FALSE)
wellbore_interval_set_ddms_v3 ==
    Row("wellboreintervalsets", "WellboreIntervalSet", "wellboreintervalset",
        FALSE, TRUE, FALSE)
welllog_acquisition_v3 ==
    Row("welllogacquisition", "WellLogAcquisition", "welllogacquisition",
        FALSE, TRUE, FALSE)
welllog_ddms_v3 == Row("welllogs", "WellLog", "welllog", TRUE, FALSE, TRUE)
wellbore_trajectory_ddms_v3 ==
    Row("wellboretrajectories", "WellboreTrajectory", "trajectory",
        TRUE, FALSE, TRUE)
PPFGDatasetAPI ==
    Row("ppfgdataset", "PPFGDataset", "ppfgdataset", TRUE, TRUE, TRUE)
WellPressureTestRawMeasurementAPI ==
    Row("wellpressuretestrawmeasurement", "WellPressureTestRawMeasurement",
        "wellpressuretestrawmeasurement", TRUE, TRUE, TRUE)

\* The routers included by the application, under /ddms/v3.
Routers ==
    {wellbore_ddms_v3, well_ddms_v3, markerset_ddms_v3,
     wellbore_interval_set_ddms_v3, welllog_acquisition_v3} \cup
    {welllog_ddms_v3, wellbore_trajectory_ddms_v3} \cup
    {PPFGDatasetAPI, WellPressureTestRawMeasurementAPI}

Type == {r.type : r \in Routers}
\* An id the caller chose (uid 0), or one the store made for a new record.
Id == [type : Type, uid : 0..MaxVersions]
NoId == [type |-> "none", uid |-> 0]

\* An id as it appears in a path: with the version appended, or not at all
\* an id (a variable of the client that was never given a value).
PathId == [id : Id, suffix : BOOLEAN] \cup {[id |-> NoId, suffix |-> FALSE]}

\* A record as it is sent: the kind (its type and whether the schema service
\* knows it), the data (one of D), whether the data obeys the record rules,
\* and an id or none.
Body(D) == [id : Id \cup {NoId}, type : Type, known : BOOLEAN, data : D,
            consistent : BOOLEAN]
NoBody == [id |-> NoId, type |-> "none", known |-> TRUE, data |-> "",
           consistent |-> TRUE]

Op == {"get", "delete", "versions", "version", "post"}
NoRequest == [op |-> "none", row |-> well_ddms_v3,
              path |-> [id |-> NoId, suffix |-> FALSE], no |-> 0,
              body |-> NoBody]
\* An answer: its status, the id and the numbers it names, the record it holds,
\* and whether it is a refusal of the schema library.
NoAnswer == [status |-> 0, id |-> NoId, body |-> NoBody, nos |-> {},
             schema |-> FALSE]
-----------------------------------------------------------------------------
(* What the handlers share.                                                *)

\* The record id without its version; the path accepts both forms.
split_record_id_version(p) == p.id
validate_record_id(row, p) == p.id.type = row.type

\* The kind check: it applies to the entities entity_names has a key for.
raise_if_not_osdu_right_entity_kind(row, type) ==
    row.entity \in DOMAIN entity_names /\ entity_names[row.entity] # type

VersionsOf(id) == {v \in records : v.id = id}
Numbers(id) == {v.no : v \in VersionsOf(id)}
Numbered(id, n) == CHOOSE v \in VersionsOf(id) : v.no = n
Latest(id) == Numbered(id, Max(Numbers(id)))

\* The store finds a record by the id it is given, to the letter: an id with
\* a version appended names no record.
fetch_record(p, dropped) ==
    IF p.suffix /\ ~dropped THEN {} ELSE VersionsOf(p.id)

Refuse(code) == [NoAnswer EXCEPT !.status = code]
Return(v) == [NoAnswer EXCEPT !.status = 200, !.body = v.body, !.nos = {v.no}]

\* How a failure of a call to another service becomes the answer: the status
\* of an unexpected response is passed on, a timeout of the storage is a 504.
http_storage_error_handler(failure) ==
    CASE failure = "timeout" -> 504 [] failure = "absent" -> 404
      [] OTHER -> 500
http_schema_error_handler(failure) == IF failure = "absent" THEN 404 ELSE 500
json_schema_error_handler == 422

\* What the schema library finds of a record at the time of a request: the
\* schemas of the service are not those of the time the record was stored, and
\* the service may refuse the schema or fail.  0 is no objection.
Verdict == {"valid", "invalid", "absent", "failed"}
validate_records(body, verdict) ==
    CASE ~body.known \/ verdict = "absent" -> http_schema_error_handler("absent")
      [] body.known /\ verdict = "failed"  -> http_schema_error_handler("failed")
      [] body.known /\ verdict = "invalid" -> json_schema_error_handler
      [] body.known /\ verdict = "valid"   -> 0
RefuseSchema(code) == [Refuse(code) EXCEPT !.schema = TRUE]
\* A record read is validated before it is returned.
Validated(v, verdict) ==
    IF validate_records(v.body, verdict) = 0 THEN Return(v)
    ELSE RefuseSchema(validate_records(v.body, verdict))
-----------------------------------------------------------------------------
(* The handlers: the answer to a request, which depends on what the schema  *)
(* library finds, and what the request does to the store.                  *)

\* Mutant: the version stays in the id the record is fetched by.
GetUnsplit(q, verdict) ==
    IF ~validate_record_id(q.row, q.path) THEN Refuse(422)
    ELSE IF fetch_record(q.path, FALSE) = {}
         THEN Refuse(http_storage_error_handler("absent"))
    ELSE Validated(Latest(q.path.id), verdict)
get_osdu_record(q, verdict) ==
    LET id == split_record_id_version(q.path) IN
    IF ~validate_record_id(q.row, q.path) THEN Refuse(422)
    ELSE IF VersionsOf(id) = {} THEN Refuse(http_storage_error_handler("absent"))
    ELSE IF /\ q.row.getChecks
            /\ raise_if_not_osdu_right_entity_kind(q.row, Latest(id).body.type)
         THEN Refuse(400)
    ELSE Validated(Latest(id), verdict)

\* Mutant: only the latest version is listed.
VersionsLatestOnly(q) ==
    IF ~validate_record_id(q.row, q.path) THEN Refuse(422)
    ELSE IF fetch_record(q.path, q.row.splitsFirst) = {}
         THEN Refuse(http_storage_error_handler("absent"))
    ELSE [NoAnswer EXCEPT !.status = 200, !.nos = {Max(Numbers(q.path.id))}]
get_record_versions(q) ==
    LET found == fetch_record(q.path, q.row.splitsFirst)
        id == split_record_id_version(q.path) IN
    IF ~validate_record_id(q.row, q.path) THEN Refuse(422)
    ELSE IF found = {} THEN Refuse(http_storage_error_handler("absent"))
    ELSE IF raise_if_not_osdu_right_entity_kind(q.row, Latest(id).body.type)
         THEN Refuse(400)
    ELSE [NoAnswer EXCEPT !.status = 200, !.nos = Numbers(id)]

get_specific_record_version(q, verdict) ==
    LET id == split_record_id_version(q.path) IN
    IF ~validate_record_id(q.row, q.path) THEN Refuse(422)
    ELSE IF q.no \notin Numbers(id)
         THEN Refuse(http_storage_error_handler("absent"))
    ELSE IF raise_if_not_osdu_right_entity_kind(q.row,
                Numbered(id, q.no).body.type)
         THEN Refuse(400)
    ELSE Validated(Numbered(id, q.no), verdict)

delete_osdu_record(q) ==
    IF ~validate_record_id(q.row, q.path) THEN Refuse(422)
    ELSE IF VersionsOf(q.path.id) = {}
         THEN Refuse(http_storage_error_handler("absent"))
    ELSE Refuse(204)

\* The id the store gives to a record without one: fresh, of the kind's type.
NewId(body) == [type |-> body.type, uid |-> lastNo + 1]
StoredId(body) == IF body.id = NoId THEN NewId(body) ELSE body.id

\* The checks of a POST, in order; the id is checked against nothing.  The
\* check of the bulk URI is in RecordVersions, the record rules themselves in
\* DataConsistency.
PostRefusal(q, verdict) ==
    IF validate_records(q.body, verdict) # 0
    THEN validate_records(q.body, verdict)
    ELSE IF raise_if_not_osdu_right_entity_kind(q.row, q.body.type) THEN 422
    ELSE IF q.row.rules /\ ~q.body.consistent THEN 400
    ELSE 0
create_or_update_osdu_record(q, verdict) ==
    IF PostRefusal(q, verdict) # 0 THEN Refuse(PostRefusal(q, verdict))
    ELSE [NoAnswer EXCEPT !.status = 200, !.id = StoredId(q.body),
                          !.nos = {lastNo + 1}]

Handler(q, verdict) ==
    CASE q.op = "get"      -> get_osdu_record(q, verdict)
      [] q.op = "versions" -> get_record_versions(q)
      [] q.op = "version"  -> get_specific_record_version(q, verdict)
      [] q.op = "delete"   -> delete_osdu_record(q)
      [] q.op = "post"     -> create_or_update_osdu_record(q, verdict)

\* Mutant: a new version takes the place of the ones before.
EffectOverwrites(q, a) ==
    IF q.op = "post" /\ a.status = 200
    THEN /\ lastNo' = lastNo + 1
         /\ records' = (records \ VersionsOf(a.id)) \cup
              {[id |-> a.id, no |-> lastNo + 1, body |-> q.body, via |-> q.row]}
    ELSE UNCHANGED apiVars
\* The store after the request took effect.
Effect(q, a) ==
    CASE q.op = "post" /\ a.status = 200 ->
            /\ lastNo' = lastNo + 1
            /\ records' = records \cup
                  {[id |-> a.id, no |-> lastNo + 1, body |-> q.body,
                    via |-> q.row]}
      [] q.op = "delete" /\ a.status = 204 ->
            /\ records' = records \ VersionsOf(q.path.id)
            /\ UNCHANGED lastNo
      [] OTHER -> UNCHANGED apiVars

\* Bound: a post is served while there are versions left.
Affordable(q) == q.op = "post" => lastNo < MaxVersions

ApiInit == records = {} /\ lastNo = 0
=============================================================================
