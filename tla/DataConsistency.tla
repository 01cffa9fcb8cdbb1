-------------------------- MODULE DataConsistency --------------------------
(***************************************************************************)
(* The consistency checks between a record and its bulk, and the requests  *)
(* that run them: POST of the record ("post"), POST of a whole bulk        *)
(* ("data") and the commit of a session ("commit").                        *)
(*                                                                         *)
(* A post is checked alone; a bulk is checked, after the worker has        *)
(* written and described it, against the record its handler fetched.  A    *)
(* handler is interleaved with the others at every call it makes to the    *)
(* storage service or to the worker.  RecordVersions has the life of the   *)
(* versions and of the bulks themselves; there the checks are a choice.    *)
(*                                                                         *)
(* Of a record's data only what a check reads is kept.  For a trajectory,  *)
(* "curves" are its station properties, an id is a station's Name, "md"    *)
(* says that its type is MD, and start and stop are the top and base       *)
(* measured depths; for the others they are the fields of the same names.  *)
(* Of a bulk, the labels of its columns and the values of the reference    *)
(* column are kept: no check reads the values of another column.           *)
(***************************************************************************)
EXTENDS Integers, FiniteSets, SequencesExt

CONSTANTS
    Requests,   \* HTTP requests, each served once
    Entities,   \* entity types under test
    Ids,        \* names of curves
    None,       \* an absent value
    NaN,        \* the missing value of a column
    Records,    \* data the clients give to a record
    Bulks       \* bulks the clients send

Curve == [id : Ids \cup {None}, cols : Nat, md : BOOLEAN]
Mandatory == {"ContextTypeID", "ReferenceWellTrajectoryID"}
Data == [curves : {None} \cup Seq(Curve), ref : Ids \cup {None},
         start : {None} \cup Int, stop : {None} \cup Int,
         filled : SUBSET Mandatory]
Label == [name : Ids, index : {None} \cup Nat]
Bulk == [labels : Seq(Label), values : Seq({NaN} \cup Int)]

ASSUME EntitiesAssumption ==
    Entities \subseteq {"welllog", "trajectory", "ppfg", "pressure"}
ASSUME AbsentAssumption == None \notin Ids /\ None # NaN
ASSUME RecordsAssumption == \A d \in Records : d \in Data
ASSUME BulksAssumption == \A b \in Bulks : b \in Bulk

VARIABLES
    entity,     \* type of the record
    store,      \* versions of the record, oldest first
    pc,         \* where each request is
    kind,       \* what each request asks for
    input,      \* the data or the bulk it carries
    rec,        \* the version it fetched, then the one it sends
    resp        \* HTTP outcome

vars == <<entity, store, pc, kind, input, rec, resp>>

\* A data section with nothing in it.  The bulk URI lives in this section, so
\* a record that has a bulk is never empty for the checks.
Empty == [curves |-> None, ref |-> None, start |-> None, stop |-> None,
          filled |-> {}]
NoData(v) == v.data = Empty /\ v.bulk = None

Version == [data : Data, bulk : {None} \cup Bulk,
            via : {"import", "post", "bulk"}]
NoVersion == [data |-> Empty, bulk |-> None, via |-> "import"]
Phase == {"new", "check", "fetch", "write", "send", "done"}
Outcome == {"ok", "rejected", "error"}

-----------------------------------------------------------------------------
(* Checks of a record alone.  Each says whether the record passes.         *)

Listed(d) == IF d.curves = None THEN <<>> ELSE d.curves

\* Mutant: the search starts one position late.
RepeatsLate(cs) ==
    {j \in 1..Len(cs) : cs[j].id # None /\ \E i \in 2..(j - 1) : cs[i].id = cs[j].id}

\* Positions whose id repeats an earlier one, absent ids apart.
Repeats(cs) ==
    {j \in 1..Len(cs) : cs[j].id # None /\ \E i \in 1..(j - 1) : cs[i].id = cs[j].id}

\* get_unique_dict_attr_values: the ids met before the first repeated one.
UniqueValues(cs) ==
    {cs[i].id : i \in {k \in 1..Len(cs) : \A j \in Repeats(cs) : k < j}} \ {None}

check_welllog_consistency(d) ==
    /\ Repeats(Listed(d)) = {}
    /\ d.ref = None \/ d.ref \in UniqueValues(Listed(d))

check_trajectory_consistency(d) == Repeats(Listed(d)) = {}

check_ppfgdataset_consistency(d) ==
    /\ d.filled = Mandatory
    /\ Repeats(Listed(d)) = {}
    /\ d.ref = None \/ d.ref \in UniqueValues(Listed(d))

check_well_pressure_test_raw_measurement_consistency(d) ==
    Repeats(Listed(d)) = {}

RecordPasses(e, v) ==
    NoData(v) \/ CASE e = "welllog" -> check_welllog_consistency(v.data)
                   [] e = "trajectory" -> check_trajectory_consistency(v.data)
                   [] e = "ppfg" -> check_ppfgdataset_consistency(v.data)
                   [] e = "pressure" ->
                        check_well_pressure_test_raw_measurement_consistency(v.data)

-----------------------------------------------------------------------------
(* The description of a bulk (BulkInfoForConsistency.from_dataframe).      *)

\* group_curve_columns, as the number of columns it finds for each curve: a
\* label with an index is added to its curve, a plain one starts it afresh.
CurveSizes(labels) ==
    FoldLeft(LAMBDA acc, l :
                [acc EXCEPT ![l.name] = IF l.index = None THEN 1 ELSE @ + 1],
             [n \in Ids |-> 0], labels)

Curves(b) == {n \in Ids : CurveSizes(b.labels)[n] > 0}

\* get_reference_curve of each entity: the name the worker is asked about.
get_reference_curve(e, d) ==
    CASE e \in {"welllog", "ppfg"} -> d.ref
      [] e = "pressure" -> None
      [] e = "trajectory" ->
            LET stations == Listed(d)
                named == {i \in 1..Len(stations) :
                            stations[i].md /\ stations[i].id # None}
            IN  IF named = {} THEN None ELSE stations[Min(named)].id

\* ColumnDescribe.from_column describes the named column when the bulk has it
\* and rows, and the index otherwise (None here).
DescribedName(b, name) ==
    IF /\ b.values # <<>>
       /\ \E i \in 1..Len(b.labels) :
            b.labels[i] = [name |-> name, index |-> None]
    THEN name
    ELSE None

\* pandas: neither flag is set by a column with a missing value, and equal
\* neighbours are allowed by both; is_unique counts missing values too.
Rising(vs) ==
    /\ \A i \in 1..Len(vs) : vs[i] # NaN
    /\ \A i \in 1..(Len(vs) - 1) : vs[i] <= vs[i + 1]
Falling(vs) ==
    /\ \A i \in 1..Len(vs) : vs[i] # NaN
    /\ \A i \in 1..(Len(vs) - 1) : vs[i] >= vs[i + 1]
HasDuplicate(vs) == \E i, j \in 1..Len(vs) : i # j /\ vs[i] = vs[j]

-----------------------------------------------------------------------------
(* Checks of a bulk against a record.                                      *)

check_reference_is_strictly_monotonic(vs) ==
    ~HasDuplicate(vs) /\ (Rising(vs) \/ Falling(vs))

\* Mutant: an absent attribute is compared too.
SameAlways(attr, value) == attr = value

\* raise_if_dict_value_is_different: an absent attribute is not compared.
SameIfGiven(attr, value) == attr = None \/ attr = value

CheckReference(d, vs) ==
    /\ check_reference_is_strictly_monotonic(vs)
    /\ SameIfGiven(d.start, vs[1])
    /\ SameIfGiven(d.stop, vs[Len(vs)])

\* Some curve has no id; the ids; the number of columns the record gives to a
\* curve, that of the last one of its name.
LacksId(d) == \E i \in 1..Len(d.curves) : d.curves[i].id = None
CurveIds(d) == {d.curves[i].id : i \in 1..Len(d.curves)}
SizeInMeta(d, n) ==
    d.curves[CHOOSE i \in 1..Len(d.curves) :
                /\ d.curves[i].id = n
                /\ \A j \in (i + 1)..Len(d.curves) : d.curves[j].id # n].cols
SizesMatch(d, b) ==
    \A n \in Curves(b) : CurveSizes(b.labels)[n] = SizeInMeta(d, n)

\* _check_columns_consistency of each entity.  "error" is an exception no
\* handler expects (a missing key or an iteration over None): HTTP 500.
WelllogColumns(d, b) ==
    CASE d.curves \in {None, <<>>} /\ Curves(b) # {} -> "rejected"
      [] d.curves = None /\ Curves(b) = {} -> "error"
      [] OTHER -> IF /\ ~LacksId(d)
                     /\ Curves(b) \subseteq CurveIds(d)
                     /\ SizesMatch(d, b)
                  THEN "ok" ELSE "rejected"

PressureColumns(d, b) ==
    CASE d.curves \in {None, <<>>} /\ Curves(b) # {} -> "rejected"
      [] d.curves = None /\ Curves(b) = {} -> "error"
      [] OTHER -> IF LacksId(d) THEN "error"
                  ELSE IF Curves(b) \subseteq CurveIds(d) /\ SizesMatch(d, b)
                       THEN "ok" ELSE "rejected"

PPFGColumns(d, b) ==
    CASE d.curves \in {None, <<>>} /\ Curves(b) # {} -> "rejected"
      [] d.curves = None /\ Curves(b) = {} -> "error"
      [] OTHER -> IF LacksId(d) THEN "error"
                  ELSE IF Curves(b) \subseteq CurveIds(d)
                       THEN "ok" ELSE "rejected"

\* Only the absent key is None here.  A key that is present with a null passes
\* the test for its presence and lists no name: all checks of a trajectory
\* treat it as the empty list, which stands for both.
TrajectoryColumns(d, b) ==
    CASE d.curves = None -> IF Curves(b) = {} THEN "error" ELSE "rejected"
      [] OTHER -> IF Curves(b) \subseteq UniqueValues(d.curves)
                  THEN "ok" ELSE "rejected"

\* _is_curve_reference_family_measured_depth
ReferenceIsMeasuredDepth(d) ==
    \E i \in 1..Len(d.curves) : d.curves[i].id = d.ref /\ d.curves[i].md

\* check_bulk_consistency: the columns, then the reference where there is one.
WelllogChecks(d, b) ==
    IF /\ WelllogColumns(d, b) = "ok"
       /\ d.ref \in Curves(b)
       /\ ReferenceIsMeasuredDepth(d)
       /\ DescribedName(b, d.ref) = d.ref
       /\ ~CheckReference(d, b.values)
    THEN "rejected"
    ELSE WelllogColumns(d, b)

TrajectoryChecks(d, b) ==
    LET reference == get_reference_curve("trajectory", d)
    IN  IF /\ TrajectoryColumns(d, b) = "ok"
           /\ reference # None
           /\ DescribedName(b, reference) = reference
           /\ ~CheckReference(d, b.values)
        THEN "rejected"
        ELSE TrajectoryColumns(d, b)

check_bulk_consistency(e, v, b) ==
    CASE NoData(v) -> "ok"
      [] OTHER -> CASE e = "welllog" -> WelllogChecks(v.data, b)
                    [] e = "trajectory" -> TrajectoryChecks(v.data, b)
                    [] e = "ppfg" -> PPFGColumns(v.data, b)
                    [] e = "pressure" -> PressureColumns(v.data, b)

-----------------------------------------------------------------------------
(* The requests.                                                           *)

Latest == store[Len(store)]

\* The record may come from anywhere: not every tool posts through this
\* service.
Init ==
    /\ entity \in Entities
    /\ \E d \in Records : store = <<[data |-> d, bulk |-> None, via |-> "import"]>>
    /\ pc = [r \in Requests |-> "new"]
    /\ kind = [r \in Requests |-> "post"]
    /\ input = [r \in Requests |-> None]
    /\ rec = [r \in Requests |-> NoVersion]
    /\ resp = [r \in Requests |-> "none"]

Answer(r, outcome) ==
    /\ pc' = [pc EXCEPT ![r] = "done"]
    /\ resp' = [resp EXCEPT ![r] = outcome]

Continue(r, phase) ==
    /\ pc' = [pc EXCEPT ![r] = phase]
    /\ UNCHANGED resp

ReceivePost(r) ==
    /\ pc[r] = "new"
    /\ \E d \in Records : input' = [input EXCEPT ![r] = d]
    /\ kind' = [kind EXCEPT ![r] = "post"]
    /\ Continue(r, "check")
    /\ UNCHANGED <<entity, store, rec>>

ReceiveBulk(r) ==
    /\ pc[r] = "new"
    /\ \E k \in {"data", "commit"}, b \in Bulks :
        /\ kind' = [kind EXCEPT ![r] = k]
        /\ input' = [input EXCEPT ![r] = b]
    /\ Continue(r, "fetch")
    /\ UNCHANGED <<entity, store, rec>>

\* The latest version is fetched to compare bulk URIs (the client sent the
\* right one), and the record is checked.
CheckRecord(r) ==
    /\ pc[r] = "check"
    /\ LET posted == [data |-> input[r], bulk |-> Latest.bulk, via |-> "post"]
       IN  /\ rec' = [rec EXCEPT ![r] = posted]
           /\ IF RecordPasses(entity, posted)
              THEN Continue(r, "send")
              ELSE Answer(r, "rejected")
    /\ UNCHANGED <<entity, store, kind, input>>

\* A whole bulk goes on top of the latest version, a commit on top of the
\* fromVersion of its session, which may be any version.
FetchRecord(r) ==
    /\ pc[r] = "fetch"
    /\ \E i \in 1..Len(store) :
        /\ kind[r] = "data" => i = Len(store)
        /\ rec' = [rec EXCEPT ![r] = store[i]]
    /\ Continue(r, "write")
    /\ UNCHANGED <<entity, store, kind, input>>

\* Mutant: the bulk takes the place of the data.
SetBulkOver(v, b) == [data |-> b, bulk |-> b, via |-> "bulk"]

SetBulk(v, b) == [data |-> v.data, bulk |-> b, via |-> "bulk"]

\* The worker writes and describes the bulk, which is then checked.
WriteBulk(r) ==
    /\ pc[r] = "write"
    /\ LET outcome == check_bulk_consistency(entity, rec[r], input[r])
       IN  IF outcome = "ok"
           THEN /\ rec' = [rec EXCEPT ![r] = SetBulk(rec[r], input[r])]
                /\ Continue(r, "send")
           ELSE /\ Answer(r, outcome)
                /\ UNCHANGED rec
    /\ UNCHANGED <<entity, store, kind, input>>

\* Mutant: the data is fetched again just before the write.
SentOverLatest(r) ==
    IF kind[r] = "post" THEN rec[r] ELSE SetBulk(Latest, rec[r].bulk)

\* The version create_or_update_records is given.
Sent(r) == rec[r]

SendRecord(r) ==
    /\ pc[r] = "send"
    /\ store' = Append(store, Sent(r))
    /\ Answer(r, "ok")
    /\ UNCHANGED <<entity, kind, input, rec>>

Next ==
    \E r \in Requests :
        \/ ReceivePost(r)
        \/ ReceiveBulk(r)
        \/ CheckRecord(r)
        \/ FetchRecord(r)
        \/ WriteBulk(r)
        \/ SendRecord(r)

Spec == Init /\ [][Next]_vars

-----------------------------------------------------------------------------
(* The rules, as docs/tutorial/bulk-data-apis.md numbers them for a well   *)
(* log, stated on the record and the columns themselves.                   *)

\* Rule 1: no two curves have the same id.
UniqueIds(d) ==
    \A i, j \in 1..Len(Listed(d)) :
        Listed(d)[i].id = Listed(d)[j].id => i = j \/ Listed(d)[i].id = None

\* Rule 2: the reference is one of the curves (well logs and PPFG datasets).
ReferenceExists(d) ==
    entity \in {"welllog", "ppfg"} /\ d.ref # None =>
        \E i \in 1..Len(Listed(d)) : Listed(d)[i].id = d.ref

MandatoryFilled(d) == entity = "ppfg" => d.filled = Mandatory

\* Rule 3: every column belongs to a curve of the record.
ColumnsKnown(d, b) ==
    \A k \in 1..Len(b.labels) :
        \E i \in 1..Len(Listed(d)) : Listed(d)[i].id = b.labels[k].name

\* Rule 4: a curve the bulk has holds as many columns as the record says
\* (well logs and pressure measurements).
Columns(b, n) == {k \in 1..Len(b.labels) : b.labels[k].name = n}
ColumnsCounted(d, b) ==
    entity \in {"welllog", "pressure"} =>
        \A i \in 1..Len(Listed(d)) :
            LET columns == Columns(b, Listed(d)[i].id)
            IN  columns # {} => Cardinality(columns) = Listed(d)[i].cols

\* Rules 5 and 6 are about a reference of measured depths that is a column of
\* the bulk (well logs and trajectories).
DepthColumn(d, b) ==
    \E i \in 1..Len(Listed(d)), k \in 1..Len(b.labels) :
        /\ entity \in {"welllog", "trajectory"}
        /\ Listed(d)[i].md
        /\ Listed(d)[i].id # None
        /\ Listed(d)[i].id = get_reference_curve(entity, d)
        /\ b.labels[k] = [name |-> Listed(d)[i].id, index |-> None]

\* Rule 5: strictly monotonic, no missing value.
StrictlyMonotonic(vs) ==
    /\ NaN \notin {vs[i] : i \in 1..Len(vs)}
    /\ \/ \A i, j \in 1..Len(vs) : i < j => vs[i] < vs[j]
       \/ \A i, j \in 1..Len(vs) : i < j => vs[i] > vs[j]

\* Rule 6: its first and last values are those of the record.
DepthsAgree(d, b) ==
    DepthColumn(d, b) /\ b.values # <<>> =>
        /\ StrictlyMonotonic(b.values)
        /\ d.start \in {None, b.values[1]}
        /\ d.stop \in {None, b.values[Len(b.values)]}

\* Rule 4 is only meant for curves that are either one plain column or an
\* array: for a curve that has a plain column and another one, CurveSizes
\* forgets the columns before the plain one.
Unmixed(b) ==
    \A k, l \in 1..Len(b.labels) :
        b.labels[k].name = b.labels[l].name =>
            k = l \/ None \notin {b.labels[k].index, b.labels[l].index}

RecordFollowsRules(d) == UniqueIds(d) /\ ReferenceExists(d) /\ MandatoryFilled(d)
BulkFollowsRules(d, b) ==
    ColumnsKnown(d, b) /\ ColumnsCounted(d, b) /\ DepthsAgree(d, b)

-----------------------------------------------------------------------------
(* The properties.                                                         *)

\* Every variable holds a value of its kind.
TypeOK ==
    /\ entity \in Entities
    /\ store \in Seq(Version) /\ store # <<>>
    /\ pc \in [Requests -> Phase]
    /\ kind \in [Requests -> {"post", "data", "commit"}]
    /\ input \in [Requests -> {None} \cup Records \cup Bulks]
    /\ \A r \in Requests :
        IF kind[r] = "post" THEN input[r] \in {None} \cup Records
                            ELSE input[r] \in Bulks
    /\ rec \in [Requests -> Version]
    /\ resp \in [Requests -> Outcome \cup {"none"}]

\* A version this service accepted as a record follows rules 1 and 2 and has
\* its mandatory fields, unless its data section was empty (the record checks
\* of the POST handlers of the four entities).
PostedRecordsFollowRules ==
    \A i \in 1..Len(store) :
        store[i].via = "post" /\ ~NoData(store[i]) =>
            RecordFollowsRules(store[i].data)

\* A version made by writing a bulk, by a data request or by a commit on an
\* older version, agrees with that bulk: rules 3 to 6 hold between the record
\* the version holds and its bulk, whatever was posted between the fetch of
\* the record and the write of the version (check_bulk_consistency, called by
\* write_bulk and write_complete_session with the fetched record).
BulkAgreesWithItsVersion ==
    \A i \in 1..Len(store) :
        LET v == store[i]
        IN  v.via = "bulk" /\ v.data # Empty /\ UniqueIds(v.data) /\ Unmixed(v.bulk)
            => BulkFollowsRules(v.data, v.bulk)

\* A 400 answer has a cause: the posted record, or the bulk with the record it
\* was checked against, breaks a rule.  A well log record with a curve that
\* has no id is refused any bulk (welllog_consistency.py:151).
RefusedForCause ==
    \A r \in Requests :
        resp[r] = "rejected" =>
            IF kind[r] = "post"
            THEN ~RecordFollowsRules(input[r])
            ELSE UniqueIds(rec[r].data) /\ Unmixed(input[r]) =>
                    \/ ~BulkFollowsRules(rec[r].data, input[r])
                    \/ entity = "welllog" /\ LacksId(rec[r].data)
=============================================================================
