----------------------- MODULE DataConsistencyProofs ------------------------
(***************************************************************************)
(* What the checks of records and of bulks establish, for any records,     *)
(* bulks and requests: a check accepts and rejects what the rules say, and *)
(* the versions stored and the refusals answered are the ones it judged.   *)
(***************************************************************************)
EXTENDS DataConsistency, FiniteSetTheorems, WellFoundedInduction, TLAPS

\* Where a request is says what it carries.
PhasesMatchInputs ==
    \A r \in Requests :
        /\ pc[r] = "check" => kind[r] = "post" /\ input[r] \in Records
        /\ pc[r] \in {"fetch", "write"} => kind[r] # "post"

\* A version that a post is about to send, or has sent, passed the check of
\* records.
PostsChecked ==
    /\ \A r \in Requests :
        pc[r] = "send" /\ rec[r].via = "post" => RecordPasses(entity, rec[r])
    /\ \A i \in 1..Len(store) :
        store[i].via = "post" => RecordPasses(entity, store[i])

\* A version made by a bulk write has a bulk, which passes the check against
\* the version's own data, unless that data is empty.
Passed(e, v) ==
    v.via = "bulk" =>
        /\ v.bulk \in Bulk
        /\ v.data # Empty => check_bulk_consistency(e, v, v.bulk) = "ok"

BulksChecked ==
    /\ \A r \in Requests : pc[r] = "send" => Passed(entity, rec[r])
    /\ \A i \in 1..Len(store) : Passed(entity, store[i])

\* A request that was refused is at rest, with the record and the bulk that
\* the check refused.
Refused(r) ==
    /\ pc[r] = "done"
    /\ IF kind[r] = "post"
       THEN rec[r].data = input[r] /\ ~RecordPasses(entity, rec[r])
       ELSE check_bulk_consistency(entity, rec[r], input[r]) = "rejected"

RefusalsChecked == \A r \in Requests : resp[r] = "rejected" => Refused(r)

ConsistencyInv ==
    /\ TypeOK
    /\ PhasesMatchInputs
    /\ PostsChecked
    /\ BulksChecked
    /\ RefusalsChecked

-----------------------------------------------------------------------------
(* What the checks mean.                                                   *)

\* The curves of a record are a sequence of curves, absent or not.
LEMMA ListedType ==
    ASSUME NEW d \in Data
    PROVE  Listed(d) \in Seq(Curve)
  BY DEF Listed, Data

\* A record without repeats has unique ids (rule 1).
LEMMA NoRepeatsUnique ==
    ASSUME NEW d \in Data, Repeats(Listed(d)) = {}
    PROVE  UniqueIds(d)
  <1>1. SUFFICES ASSUME NEW i \in 1..Len(Listed(d)), NEW j \in 1..Len(Listed(d)),
                        Listed(d)[i].id = Listed(d)[j].id, i < j,
                        Listed(d)[i].id # None
                 PROVE  FALSE
    BY ListedType DEF UniqueIds
  <1>2. j \in Repeats(Listed(d))
    BY <1>1, ListedType DEF Repeats
  <1> QED
    BY <1>2

\* An id get_unique_dict_attr_values returns is that of a curve (rule 2).
LEMMA ReturnedIdExists ==
    ASSUME NEW d \in Data, NEW id \in UniqueValues(Listed(d))
    PROVE  \E i \in 1..Len(Listed(d)) : Listed(d)[i].id = id
  BY DEF UniqueValues

\* A record that passes its check follows the rules, unless it is empty.
LEMMA PassingFollowsRules ==
    ASSUME NEW v \in Version, entity \in Entities, RecordPasses(entity, v), ~NoData(v)
    PROVE  RecordFollowsRules(v.data)
  <1> DEFINE d == v.data
  <1>1. d \in Data
    BY DEF Version
  <1>2. CASE entity = "welllog"
    <2>1. check_welllog_consistency(d)
      BY <1>2 DEF RecordPasses
    <2> QED
      BY <1>1, <1>2, <2>1, NoRepeatsUnique, ReturnedIdExists
      DEF check_welllog_consistency, RecordFollowsRules, ReferenceExists,
          MandatoryFilled
  <1>3. CASE entity = "trajectory"
    <2>1. check_trajectory_consistency(d)
      BY <1>3 DEF RecordPasses
    <2> QED
      BY <1>1, <1>3, <2>1, NoRepeatsUnique
      DEF check_trajectory_consistency, RecordFollowsRules, ReferenceExists,
          MandatoryFilled
  <1>4. CASE entity = "ppfg"
    <2>1. check_ppfgdataset_consistency(d)
      BY <1>4 DEF RecordPasses
    <2> QED
      BY <1>1, <1>4, <2>1, NoRepeatsUnique, ReturnedIdExists
      DEF check_ppfgdataset_consistency, RecordFollowsRules, ReferenceExists,
          MandatoryFilled
  <1>5. CASE entity = "pressure"
    <2>1. check_well_pressure_test_raw_measurement_consistency(d)
      BY <1>5 DEF RecordPasses
    <2> QED
      BY <1>1, <1>5, <2>1, NoRepeatsUnique
      DEF check_well_pressure_test_raw_measurement_consistency,
          RecordFollowsRules, ReferenceExists, MandatoryFilled
  <1> QED
    BY <1>2, <1>3, <1>4, <1>5, EntitiesAssumption

\* A record that follows the rules passes its check.
LEMMA RulesPass ==
    ASSUME entity \in Entities, NEW v \in Version, RecordFollowsRules(v.data)
    PROVE  RecordPasses(entity, v)
  <1> DEFINE d == v.data
             cs == Listed(d)
  <1>1. d \in Data /\ cs \in Seq(Curve) /\ Len(cs) \in Nat
    BY ListedType DEF Version
  <1>2. Repeats(cs) = {}
    <2> SUFFICES ASSUME NEW j \in 1..Len(cs), cs[j].id # None,
                        NEW i \in 1..(j - 1), cs[i].id = cs[j].id
                 PROVE  FALSE
      BY DEF Repeats
    <2>1. i \in 1..Len(cs) /\ i # j
      BY <1>1
    <2> QED
      BY <2>1 DEF RecordFollowsRules, UniqueIds
  <1>3. entity \in {"welllog", "ppfg"} => d.ref = None \/ d.ref \in UniqueValues(cs)
    BY <1>2 DEF RecordFollowsRules, ReferenceExists, UniqueValues
  <1>4. entity = "ppfg" => d.filled = Mandatory
    BY DEF RecordFollowsRules, MandatoryFilled
  <1> QED
    BY <1>2, <1>3, <1>4, EntitiesAssumption
    DEF RecordPasses, check_welllog_consistency, check_trajectory_consistency,
        check_ppfgdataset_consistency,
        check_well_pressure_test_raw_measurement_consistency

\* A bulk check has one of three outcomes.
LEMMA CheckOutcome ==
    ASSUME NEW e \in Entities, NEW v, NEW b
    PROVE  check_bulk_consistency(e, v, b) \in Outcome
  <1>1. /\ WelllogColumns(v.data, b) \in Outcome
        /\ PressureColumns(v.data, b) \in Outcome
        /\ PPFGColumns(v.data, b) \in Outcome
        /\ TrajectoryColumns(v.data, b) \in Outcome
    BY DEF WelllogColumns, PressureColumns, PPFGColumns, TrajectoryColumns, Outcome
  <1>2. /\ WelllogChecks(v.data, b) \in Outcome
        /\ TrajectoryChecks(v.data, b) \in Outcome
    BY <1>1 DEF WelllogChecks, TrajectoryChecks, Outcome
  <1> QED
    BY <1>1, <1>2, EntitiesAssumption DEF check_bulk_consistency, Outcome

-----------------------------------------------------------------------------
(* Induction on the natural numbers, over sets.                            *)

\* A set of natural numbers with an element has a least one.
LEMMA LeastNumber ==
    ASSUME NEW T, T \subseteq Nat, T # {}
    PROVE  \E x \in T : \A y \in T : x <= y
  <1> DEFINE less == OpToRel(<, Nat)
  <1>1. IsWellFoundedOn(less, Nat)
    BY NatLessThanWellFounded, Zenon
  <1>2. \A p \in Nat \X Nat : p \in less <=> p[1] < p[2]
    BY DEF OpToRel
  <1> HIDE DEF less
  <1>3. PICK x \in T : \A y \in T : ~(<<y, x>> \in less)
    BY <1>1, WFMin
  <1>4. ASSUME NEW y \in T
        PROVE  x <= y
    <2>1. <<y, x>> \in Nat \X Nat /\ x \in Nat /\ y \in Nat
      OBVIOUS
    <2>2. ~(y < x)
      BY <1>2, <1>3, <2>1
    <2> QED
      BY <2>1, <2>2
  <1> QED
    BY <1>4

\* A set with zero and the successor of each of its numbers has all of them.
LEMMA InductionOnNat ==
    ASSUME NEW S, 0 \in S, \A n \in Nat : n \in S => n + 1 \in S
    PROVE  Nat \subseteq S
  <1> DEFINE T == {n \in Nat : n \notin S}
  <1> SUFFICES ASSUME T # {} PROVE FALSE
    OBVIOUS
  <1>1. PICK x \in T : \A y \in T : x <= y
    BY LeastNumber
  <1>2. x - 1 \in Nat /\ x - 1 + 1 = x
    OBVIOUS
  <1>3. x - 1 \in S
    BY <1>1, <1>2
  <1> QED
    BY <1>2, <1>3

\* The first of some positions, and the last of some positions.
LEMMA MinOfPositions ==
    ASSUME NEW T, T \subseteq Nat, T # {}
    PROVE  Min(T) \in T
  BY LeastNumber DEF Min

LEMMA MaxOfPositions ==
    ASSUME NEW m \in Nat, NEW T \in SUBSET (1..m), T # {}
    PROVE  Max(T) \in T /\ \A y \in T : y <= Max(T)
  <1> DEFINE above == {x \in Nat : \A y \in T : y <= x}
  <1>1. above # {}
    OBVIOUS
  <1>2. PICK x \in above : \A y \in above : x <= y
    BY <1>1, LeastNumber
  <1>3. x \in T
    <2> SUFFICES ASSUME x \notin T PROVE FALSE
      OBVIOUS
    <2>1. \A y \in T : y \in Int /\ y < x /\ 1 <= y
      BY <1>2
    <2>2. \A y \in T : y <= x - 1
      BY <2>1
    <2>3. x - 1 \in Nat
      <3>1. PICK y \in T : TRUE
        OBVIOUS
      <3> QED
        BY <2>1, <3>1
    <2>4. x - 1 \in above
      BY <2>2, <2>3
    <2> QED
      BY <1>2, <2>3, <2>4
  <1>4. \E z \in T : \A y \in T : z >= y
    BY <1>2, <1>3
  <1>5. Max(T) \in T /\ \A y \in T : Max(T) >= y
    BY <1>4 DEF Max
  <1> QED
    BY <1>5

-----------------------------------------------------------------------------
(* Monotonic columns (rule 5).                                             *)

Column == Seq({NaN} \cup Int)

\* Neighbours in order are pairs in order.
LEMMA NeighboursToPairs ==
    ASSUME NEW vs \in Seq(Int),
           \A i \in 1..(Len(vs) - 1) : vs[i] <= vs[i + 1],
           NEW i \in 1..Len(vs), NEW j \in 1..Len(vs), i < j
    PROVE  vs[i] <= vs[j]
  <1> DEFINE S == {n \in Nat : i + n <= Len(vs) => vs[i] <= vs[i + n]}
  <1>1. 0 \in S
    OBVIOUS
  <1>2. ASSUME NEW n \in Nat, n \in S
        PROVE  n + 1 \in S
    <2> SUFFICES ASSUME i + (n + 1) <= Len(vs)
                 PROVE  vs[i] <= vs[i + (n + 1)]
      OBVIOUS
    <2>1. vs[i] <= vs[i + n]
      BY <1>2
    <2>2. i + n \in 1..(Len(vs) - 1) /\ (i + n) + 1 = i + (n + 1)
      OBVIOUS
    <2>3. vs[i + n] <= vs[i + (n + 1)]
      BY <2>2
    <2>4. vs[i] \in Int /\ vs[i + n] \in Int /\ vs[i + (n + 1)] \in Int
      BY <2>2
    <2> QED
      BY <2>1, <2>3, <2>4
  <1>3. Nat \subseteq S
    <2> HIDE DEF S
    <2> QED
      BY <1>1, <1>2, InductionOnNat
  <1>4. j - i \in Nat /\ i + (j - i) = j
    OBVIOUS
  <1>5. j - i \in S
    BY <1>3, <1>4
  <1> QED
    BY <1>4, <1>5

LEMMA NeighboursToPairsDown ==
    ASSUME NEW vs \in Seq(Int),
           \A i \in 1..(Len(vs) - 1) : vs[i] >= vs[i + 1],
           NEW i \in 1..Len(vs), NEW j \in 1..Len(vs), i < j
    PROVE  vs[i] >= vs[j]
  <1> DEFINE ws == [k \in 1..Len(vs) |-> -vs[k]]
  <1>1. ws \in Seq(Int) /\ Len(ws) = Len(vs)
    OBVIOUS
  <1>2. \A k \in 1..(Len(ws) - 1) : ws[k] <= ws[k + 1]
    OBVIOUS
  <1>3. ws[i] = -vs[i] /\ ws[j] = -vs[j]
    OBVIOUS
  <1> HIDE DEF ws
  <1>4. ws[i] <= ws[j]
    BY <1>1, <1>2, NeighboursToPairs
  <1> QED
    BY <1>3, <1>4

\* The check of the description of a column is rule 5.
LEMMA MonotonicCheck ==
    ASSUME NEW vs \in Column
    PROVE  check_reference_is_strictly_monotonic(vs) <=> StrictlyMonotonic(vs)
  <1>1. ASSUME \A i \in 1..Len(vs) : vs[i] # NaN
        PROVE  vs \in Seq(Int)
    BY <1>1 DEF Column
  <1>2. ASSUME check_reference_is_strictly_monotonic(vs)
        PROVE  StrictlyMonotonic(vs)
    <2>1. (\A i \in 1..Len(vs) : vs[i] # NaN) /\ vs \in Seq(Int)
      BY <1>1, <1>2 DEF check_reference_is_strictly_monotonic, Rising, Falling
    <2>2. \A i, j \in 1..Len(vs) : i < j => vs[i] # vs[j]
      BY <1>2 DEF check_reference_is_strictly_monotonic, HasDuplicate
    <2>3. CASE Rising(vs)
      <3>1. \A i, j \in 1..Len(vs) : i < j => vs[i] <= vs[j]
        BY <2>1, <2>3, NeighboursToPairs DEF Rising
      <3>2. \A i, j \in 1..Len(vs) : i < j => vs[i] < vs[j]
        <4> SUFFICES ASSUME NEW i \in 1..Len(vs), NEW j \in 1..Len(vs), i < j
                     PROVE  vs[i] < vs[j]
          OBVIOUS
        <4>1. vs[i] \in Int /\ vs[j] \in Int
          BY <2>1
        <4> QED
          BY <2>2, <3>1, <4>1
      <3> QED
        BY <2>1, <3>2 DEF StrictlyMonotonic
    <2>4. CASE Falling(vs)
      <3>1. \A i, j \in 1..Len(vs) : i < j => vs[i] >= vs[j]
        BY <2>1, <2>4, NeighboursToPairsDown DEF Falling
      <3>2. \A i, j \in 1..Len(vs) : i < j => vs[i] > vs[j]
        <4> SUFFICES ASSUME NEW i \in 1..Len(vs), NEW j \in 1..Len(vs), i < j
                     PROVE  vs[i] > vs[j]
          OBVIOUS
        <4>1. vs[i] \in Int /\ vs[j] \in Int
          BY <2>1
        <4> QED
          BY <2>2, <3>1, <4>1
      <3> QED
        BY <2>1, <3>2 DEF StrictlyMonotonic
    <2> QED
      BY <1>2, <2>3, <2>4 DEF check_reference_is_strictly_monotonic
  <1>3. ASSUME StrictlyMonotonic(vs)
        PROVE  check_reference_is_strictly_monotonic(vs)
    <2>1. (\A i \in 1..Len(vs) : vs[i] # NaN) /\ vs \in Seq(Int)
      BY <1>1, <1>3 DEF StrictlyMonotonic
    <2>2. ~HasDuplicate(vs)
      BY <1>3, <2>1 DEF StrictlyMonotonic, HasDuplicate
    <2>3. Rising(vs) \/ Falling(vs)
      <3>1. \A i \in 1..(Len(vs) - 1) :
                /\ i \in 1..Len(vs) /\ i + 1 \in 1..Len(vs) /\ i < i + 1
                /\ vs[i] \in Int /\ vs[i + 1] \in Int
        BY <2>1
      <3>2. CASE \A i, j \in 1..Len(vs) : i < j => vs[i] < vs[j]
        <4>1. \A i \in 1..(Len(vs) - 1) : vs[i] <= vs[i + 1]
          BY <3>1, <3>2
        <4> QED
          BY <2>1, <4>1 DEF Rising
      <3>3. CASE \A i, j \in 1..Len(vs) : i < j => vs[i] > vs[j]
        <4>1. \A i \in 1..(Len(vs) - 1) : vs[i] >= vs[i + 1]
          BY <3>1, <3>3
        <4> QED
          BY <2>1, <4>1 DEF Falling
      <3> QED
        BY <1>3, <3>2, <3>3 DEF StrictlyMonotonic
    <2> QED
      BY <2>2, <2>3 DEF check_reference_is_strictly_monotonic
  <1> QED
    BY <1>2, <1>3

\* The check of the reference is rules 5 and 6.
LEMMA ReferenceCheck ==
    ASSUME NEW d \in Data, NEW vs \in Column
    PROVE  CheckReference(d, vs) <=>
              /\ StrictlyMonotonic(vs)
              /\ d.start \in {None, vs[1]}
              /\ d.stop \in {None, vs[Len(vs)]}
  BY MonotonicCheck DEF CheckReference, SameIfGiven

-----------------------------------------------------------------------------
(* What group_curve_columns counts.                                        *)

\* Of the positions s of a curve named n, the ones the fold still counts at
\* the end: no plain column of that name comes after them.
Kept(labels, s, n) ==
    {k \in s : /\ labels[k].name = n
               /\ \A l \in s : l > k /\ labels[l].name = n => labels[l].index # None}

CountColumn(acc, l) ==
    [acc EXCEPT ![l.name] = IF l.index = None THEN 1 ELSE @ + 1]
NoColumn == [n \in Ids |-> 0]

\* The step of the fold over the positions s, and the fold itself.
FoldStep(labels, s, g) ==
    IF s = {} THEN NoColumn
    ELSE LET x == Max(s) IN CountColumn(g[s \ {x}], labels[x])
Fold(labels) ==
    CHOOSE g : g = [s \in SUBSET (DOMAIN labels) |-> FoldStep(labels, s, g)]

LEMMA CurveSizesIsFold ==
    ASSUME NEW labels
    PROVE  CurveSizes(labels) = Fold(labels)[DOMAIN labels]
  BY DEF CurveSizes, FoldLeft, MapThenFoldSet, Fold, FoldStep, NoColumn, CountColumn

\* One more position at the end: a plain column starts its curve afresh, an
\* item is added to it, the other curves are as they were.
LEMMA KeptStep ==
    ASSUME NEW labels \in Seq(Label), NEW s \in SUBSET (1..Len(labels)), s # {},
           NEW n \in Ids
    PROVE  LET x == Max(s)
               before == Cardinality(Kept(labels, s \ {x}, n))
           IN  /\ before \in Nat
               /\ Cardinality(Kept(labels, s, n)) =
                    IF labels[x].name # n THEN before
                    ELSE IF labels[x].index = None THEN 1 ELSE before + 1
  <1> DEFINE x == Max(s)
             old == Kept(labels, s \ {x}, n)
  <1>1. x \in s /\ \A y \in s : y <= x
    BY MaxOfPositions
  <1>2. s \subseteq Int
    OBVIOUS
  <1> HIDE DEF x
  <1>3. old \subseteq 1..Len(labels) /\ x \notin old
    BY <1>1 DEF Kept
  <1>4. IsFiniteSet(old) /\ Cardinality(old) \in Nat
    <2>1. IsFiniteSet(1..Len(labels))
      BY FS_Interval
    <2>2. IsFiniteSet(old)
      BY <1>3, <2>1, FS_Subset
    <2> QED
      BY <2>2, FS_CardinalityType
  <1>5. CASE labels[x].name # n
    <2>1. Kept(labels, s, n) = old
      BY <1>1, <1>2, <1>5 DEF Kept
    <2> QED
      BY <1>4, <1>5, <2>1 DEF x
  <1>6. CASE labels[x].name = n /\ labels[x].index = None
    <2>1. Kept(labels, s, n) = {x}
      <3>1. x \in Kept(labels, s, n)
        BY <1>1, <1>2, <1>6 DEF Kept
      <3>2. ASSUME NEW k \in Kept(labels, s, n), k # x
            PROVE  FALSE
        <4>1. k \in s /\ x > k
          BY <1>1, <1>2, <3>2 DEF Kept
        <4> QED
          BY <1>1, <1>6, <4>1 DEF Kept
      <3> QED
        BY <3>1, <3>2
    <2>2. Cardinality({x}) = 1
      BY FS_Singleton
    <2> QED
      BY <1>4, <1>6, <2>1, <2>2 DEF x
  <1>7. CASE labels[x].name = n /\ labels[x].index # None
    <2>1. Kept(labels, s, n) = old \cup {x}
      <3>1. x \in Kept(labels, s, n)
        BY <1>1, <1>2, <1>7 DEF Kept
      <3>2. old \subseteq Kept(labels, s, n)
        BY <1>7 DEF Kept
      <3>3. \A k \in Kept(labels, s, n) : k # x => k \in old
        BY DEF Kept
      <3> QED
        BY <3>1, <3>2, <3>3
    <2>2. Cardinality(old \cup {x}) = Cardinality(old) + 1
      BY <1>3, <1>4, FS_AddElement
    <2> QED
      BY <1>4, <1>7, <2>1, <2>2 DEF x
  <1> QED
    BY <1>5, <1>6, <1>7 DEF x

\* The fold counts, for every curve, the columns it still keeps at the end.
LEMMA CurveSizesCount ==
    ASSUME NEW labels \in Seq(Label)
    PROVE  CurveSizes(labels) =
              [n \in Ids |-> Cardinality(Kept(labels, 1..Len(labels), n))]
  <1> DEFINE D == 1..Len(labels)
             Count(s) == [n \in Ids |-> Cardinality(Kept(labels, s, n))]
             counts == [s \in SUBSET D |-> Count(s)]
  <1>1. DOMAIN labels = D
    OBVIOUS
  <1>2. ASSUME NEW s \in SUBSET D, s # {}
        PROVE  CountColumn(Count(s \ {Max(s)}), labels[Max(s)]) = Count(s)
    <2> SUFFICES ASSUME s \in SUBSET (1..Len(labels)), Len(labels) \in Nat
                 PROVE  CountColumn(Count(s \ {Max(s)}), labels[Max(s)]) = Count(s)
      OBVIOUS
    <2>1. Max(s) \in s
      BY <1>2, MaxOfPositions
    <2>2. labels[Max(s)] \in Label
      <3>1. Max(s) \in 1..Len(labels)
        BY <2>1
      <3> QED
        BY <3>1
    <2>3. labels[Max(s)].name \in Ids
      BY <2>2 DEF Label
    <2>4. \A n \in Ids :
            /\ Cardinality(Kept(labels, s \ {Max(s)}, n)) \in Nat
            /\ Cardinality(Kept(labels, s, n)) =
                 IF labels[Max(s)].name # n THEN Cardinality(Kept(labels, s \ {Max(s)}, n))
                 ELSE IF labels[Max(s)].index = None THEN 1
                      ELSE Cardinality(Kept(labels, s \ {Max(s)}, n)) + 1
      BY <1>2, KeptStep
    <2> QED
      BY <2>3, <2>4 DEF CountColumn
  <1>3. Count({}) = NoColumn
    <2>1. \A n \in Ids : Kept(labels, {}, n) = {}
      BY DEF Kept
    <2> QED
      BY <2>1, FS_EmptySet DEF NoColumn
  <1>4. counts = [s \in SUBSET D |-> FoldStep(labels, s, counts)]
    <2> SUFFICES ASSUME NEW s \in SUBSET D
                 PROVE  Count(s) = FoldStep(labels, s, counts)
      OBVIOUS
    <2>1. CASE s = {}
      BY <1>3, <2>1 DEF FoldStep
    <2>2. CASE s # {}
      <3>1. counts[s \ {Max(s)}] = Count(s \ {Max(s)})
        OBVIOUS
      <3> QED
        BY <1>2, <2>2, <3>1 DEF FoldStep
    <2> QED
      BY <2>1, <2>2
  <1> HIDE DEF Count, counts
  <1>5. Fold(labels) = [s \in SUBSET D |-> FoldStep(labels, s, Fold(labels))]
    BY <1>1, <1>4 DEF Fold
  <1> DEFINE S == {m \in Nat : m <= Len(labels) => Fold(labels)[1..m] = Count(1..m)}
  <1>6. 0 \in S
    <2>1. 1..0 = {} /\ {} \in SUBSET D
      OBVIOUS
    <2>2. Fold(labels)[{}] = NoColumn
      BY <1>5, <2>1 DEF FoldStep
    <2> QED
      BY <1>3, <2>1, <2>2
  <1>7. ASSUME NEW m \in Nat, m \in S
        PROVE  m + 1 \in S
    <2> SUFFICES ASSUME m + 1 <= Len(labels)
                 PROVE  Fold(labels)[1..(m + 1)] = Count(1..(m + 1))
      OBVIOUS
    <2> DEFINE s == 1..(m + 1)
    <2>1. m + 1 \in s /\ s \subseteq D /\ s # {}
      <3>1. m + 1 \in s
        OBVIOUS
      <3>2. s \subseteq D
        OBVIOUS
      <3> QED
        BY <3>1, <3>2
    <2>2. Max(s) = m + 1
      <3>1. Max(s) \in s /\ \A y \in s : y <= Max(s)
        <4>1. m + 1 \in Nat /\ s \in SUBSET (1..(m + 1))
          OBVIOUS
        <4> QED
          BY <2>1, <4>1, MaxOfPositions
      <3> QED
        BY <2>1, <3>1
    <2>3. s \ {Max(s)} = 1..m
      BY <2>2
    <2>4. Fold(labels)[s] = FoldStep(labels, s, Fold(labels))
      BY <1>5, <2>1
    <2>5. FoldStep(labels, s, Fold(labels)) =
            CountColumn(Fold(labels)[s \ {Max(s)}], labels[Max(s)])
      BY <2>1 DEF FoldStep
    <2>6. Fold(labels)[1..m] = Count(1..m)
      BY <1>7
    <2> HIDE DEF s
    <2>7. Fold(labels)[s] = Count(s)
      BY <1>2, <2>1, <2>3, <2>4, <2>5, <2>6
    <2> QED
      BY <2>7 DEF s
  <1>8. Nat \subseteq S
    <2> HIDE DEF S
    <2> QED
      BY <1>6, <1>7, InductionOnNat
  <1>9. Fold(labels)[D] = Count(D)
    <2>1. Len(labels) \in S
      BY <1>8
    <2> QED
      BY <2>1
  <1> QED
    BY <1>1, <1>9, CurveSizesIsFold DEF Count

\* The curves of a bulk are the names of its columns.
LEMMA CurvesAreNames ==
    ASSUME NEW b \in Bulk
    PROVE  /\ Curves(b) \subseteq Ids
           /\ \A n \in Ids : n \in Curves(b) <=> Columns(b, n) # {}
           /\ \A k \in 1..Len(b.labels) : b.labels[k].name \in Curves(b)
  <1> DEFINE D == 1..Len(b.labels)
  <1>1. b.labels \in Seq(Label) /\ Len(b.labels) \in Nat
    BY DEF Bulk
  <1>2. ASSUME NEW n \in Ids
        PROVE  n \in Curves(b) <=> Columns(b, n) # {}
    <2> DEFINE kept == Kept(b.labels, D, n)
    <2>1. CurveSizes(b.labels)[n] = Cardinality(kept)
      BY <1>1, CurveSizesCount
    <2>2. IsFiniteSet(kept)
      <3>1. IsFiniteSet(D)
        BY <1>1, FS_Interval
      <3>2. kept \subseteq D
        BY DEF Kept
      <3> QED
        BY <3>1, <3>2, FS_Subset
    <2>3. Cardinality(kept) \in Nat /\ (Cardinality(kept) = 0 <=> kept = {})
      BY <2>2, FS_CardinalityType, FS_EmptySet
    <2>4. ASSUME Columns(b, n) # {}
          PROVE  kept # {}
      <3> DEFINE x == Max(Columns(b, n))
      <3>1. Columns(b, n) \in SUBSET (1..Len(b.labels))
        BY DEF Columns
      <3>2. x \in Columns(b, n) /\ \A y \in Columns(b, n) : y <= x
        BY <1>1, <2>4, <3>1, MaxOfPositions
      <3> HIDE DEF x
      <3>3. \A l \in D : b.labels[l].name = n => ~(l > x)
        <4> SUFFICES ASSUME NEW l \in D, b.labels[l].name = n, l > x PROVE FALSE
          OBVIOUS
        <4>1. l \in Columns(b, n)
          BY DEF Columns
        <4>2. l \in Int /\ x \in Int /\ l <= x
          BY <3>1, <3>2, <4>1
        <4> QED
          BY <4>2
      <3>4. x \in kept
        BY <3>2, <3>3 DEF Kept, Columns
      <3> QED
        BY <3>4
    <2>5. kept \subseteq Columns(b, n)
      BY DEF Kept, Columns
    <2> HIDE DEF kept
    <2> QED
      BY <2>1, <2>3, <2>4, <2>5 DEF Curves
  <1>3. \A k \in D : b.labels[k].name \in Ids
    <2>1. \A k \in D : b.labels[k] \in Label
      BY <1>1
    <2> QED
      BY <2>1 DEF Label
  <1>4. \A k \in D : k \in Columns(b, b.labels[k].name)
    BY DEF Columns
  <1>5. \A k \in D : b.labels[k].name \in Curves(b)
    BY <1>2, <1>3, <1>4
  <1> QED
    BY <1>2, <1>5 DEF Curves

\* Where plain columns are alone, the fold counts every column of a curve.
LEMMA UnmixedSizes ==
    ASSUME NEW b \in Bulk, Unmixed(b), NEW n \in Ids
    PROVE  CurveSizes(b.labels)[n] = Cardinality(Columns(b, n))
  <1>1. b.labels \in Seq(Label)
    BY DEF Bulk
  <1>2. CurveSizes(b.labels)[n] = Cardinality(Kept(b.labels, 1..Len(b.labels), n))
    BY <1>1, CurveSizesCount
  <1>3. Kept(b.labels, 1..Len(b.labels), n) = Columns(b, n)
    <2>1. ASSUME NEW k \in Columns(b, n), NEW l \in 1..Len(b.labels),
                 l > k, b.labels[l].name = n
          PROVE  b.labels[l].index # None
      <3>1. k \in 1..Len(b.labels) /\ b.labels[k].name = n /\ k # l
        BY <2>1 DEF Columns
      <3> QED
        BY <2>1, <3>1 DEF Unmixed
    <2> QED
      BY <2>1 DEF Kept, Columns
  <1> QED
    BY <1>2, <1>3

-----------------------------------------------------------------------------
(* What the checks of a bulk mean, rule by rule.                           *)

\* Rule 3, as the checks of the columns state it.
LEMMA ColumnsCheck ==
    ASSUME NEW d \in Data, d.curves # None, NEW b \in Bulk
    PROVE  Curves(b) \subseteq CurveIds(d) <=> ColumnsKnown(d, b)
  <1>1. Listed(d) = d.curves
    BY DEF Listed
  <1>2. \A k \in 1..Len(b.labels) : b.labels[k].name \in Curves(b)
    BY CurvesAreNames
  <1>3. \A n \in Curves(b) : \E k \in 1..Len(b.labels) : b.labels[k].name = n
    BY CurvesAreNames DEF Columns
  <1> QED
    BY <1>1, <1>2, <1>3 DEF CurveIds, ColumnsKnown

\* The ids of the stations of a trajectory are all returned when none repeats.
LEMMA StationsReturned ==
    ASSUME NEW d \in Data, d.curves # None, UniqueIds(d)
    PROVE  UniqueValues(d.curves) = CurveIds(d) \ {None}
  <1>1. Listed(d) = d.curves /\ Len(d.curves) \in Nat
    BY ListedType DEF Listed
  <1>2. Repeats(d.curves) = {}
    <2> SUFFICES ASSUME NEW j \in 1..Len(d.curves), d.curves[j].id # None,
                        NEW i \in 1..(j - 1), d.curves[i].id = d.curves[j].id
                 PROVE  FALSE
      BY DEF Repeats
    <2>1. i \in 1..Len(d.curves) /\ i # j
      BY <1>1
    <2> QED
      BY <1>1, <2>1 DEF UniqueIds
  <1> QED
    BY <1>2 DEF UniqueValues, CurveIds

\* Rule 4: with unique ids, the size a record gives to a curve is that of the
\* one curve with its id.
LEMMA SizeOfUniqueCurve ==
    ASSUME NEW d \in Data, d.curves # None, UniqueIds(d),
           NEW i \in 1..Len(d.curves), d.curves[i].id # None
    PROVE  SizeInMeta(d, d.curves[i].id) = d.curves[i].cols
  <1> DEFINE n == d.curves[i].id
             LastOf(k) == /\ d.curves[k].id = n
                          /\ \A j \in (k + 1)..Len(d.curves) : d.curves[j].id # n
  <1>1. Listed(d) = d.curves /\ Len(d.curves) \in Nat
    BY ListedType DEF Listed
  <1>2. \A k \in 1..Len(d.curves) : d.curves[k].id = n => k = i
    BY <1>1 DEF UniqueIds
  <1>3. LastOf(i)
    <2> SUFFICES ASSUME NEW j \in (i + 1)..Len(d.curves), d.curves[j].id = n
                 PROVE  FALSE
      OBVIOUS
    <2>1. j \in 1..Len(d.curves) /\ j # i
      BY <1>1
    <2> QED
      BY <1>2, <2>1
  <1>4. (CHOOSE k \in 1..Len(d.curves) : LastOf(k)) = i
    BY <1>2, <1>3
  <1> QED
    BY <1>4 DEF SizeInMeta

LEMMA SizesCheck ==
    ASSUME entity \in {"welllog", "pressure"},
           NEW d \in Data, d.curves # None, UniqueIds(d),
           NEW b \in Bulk, Unmixed(b), Curves(b) \subseteq CurveIds(d)
    PROVE  SizesMatch(d, b) <=> ColumnsCounted(d, b)
  <1>1. Listed(d) = d.curves
    BY DEF Listed
  <1>2. \A i \in 1..Len(d.curves) : d.curves[i].id \in Ids \cup {None}
    <2>1. d.curves \in Seq(Curve)
      BY <1>1, ListedType
    <2>2. \A i \in 1..Len(d.curves) : d.curves[i] \in Curve
      BY <2>1
    <2> QED
      BY <2>2 DEF Curve
  <1>3. Columns(b, None) = {}
    <2>1. \A k \in 1..Len(b.labels) : b.labels[k].name \in Ids
      BY CurvesAreNames
    <2> QED
      BY <2>1, AbsentAssumption DEF Columns
  <1>4. \A n \in Curves(b) : n \in Ids /\ Columns(b, n) # {}
    BY CurvesAreNames
  <1>5. ASSUME SizesMatch(d, b), NEW i \in 1..Len(d.curves),
               Columns(b, d.curves[i].id) # {}
        PROVE  Cardinality(Columns(b, d.curves[i].id)) = d.curves[i].cols
    <2>1. d.curves[i].id \in Ids /\ d.curves[i].id # None
      BY <1>2, <1>3, <1>5, AbsentAssumption
    <2>2. d.curves[i].id \in Curves(b)
      BY <1>5, <2>1, CurvesAreNames
    <2> QED
      BY <1>5, <2>1, <2>2, UnmixedSizes, SizeOfUniqueCurve DEF SizesMatch
  <1>6. ASSUME ColumnsCounted(d, b), NEW n \in Curves(b)
        PROVE  CurveSizes(b.labels)[n] = SizeInMeta(d, n)
    <2>1. PICK i \in 1..Len(d.curves) : d.curves[i].id = n
      BY <1>6 DEF CurveIds
    <2>2. n \in Ids /\ n # None /\ Columns(b, n) # {}
      BY <1>4, <1>6, AbsentAssumption
    <2>3. Cardinality(Columns(b, n)) = d.curves[i].cols
      BY <1>1, <1>6, <2>1, <2>2 DEF ColumnsCounted
    <2> QED
      BY <2>1, <2>2, <2>3, UnmixedSizes, SizeOfUniqueCurve
  <1> QED
    BY <1>1, <1>5, <1>6 DEF SizesMatch, ColumnsCounted

\* Rules 5 and 6 are checked exactly where they apply.
LEMMA WelllogDepthChecked ==
    ASSUME entity = "welllog", NEW d \in Data, d.curves # None, NEW b \in Bulk
    PROVE  (/\ d.ref \in Curves(b)
            /\ ReferenceIsMeasuredDepth(d)
            /\ DescribedName(b, d.ref) = d.ref)
           <=> DepthColumn(d, b) /\ b.values # <<>>
  <1>1. Listed(d) = d.curves /\ get_reference_curve(entity, d) = d.ref
    BY DEF Listed, get_reference_curve
  <1>2. Curves(b) \subseteq Ids /\ None \notin Ids
    BY CurvesAreNames, AbsentAssumption
  <1>3. ASSUME d.ref \in Curves(b), ReferenceIsMeasuredDepth(d),
               DescribedName(b, d.ref) = d.ref
        PROVE  DepthColumn(d, b) /\ b.values # <<>>
    <2>1. d.ref # None
      BY <1>2, <1>3
    <2>2. PICK i \in 1..Len(d.curves) : d.curves[i].id = d.ref /\ d.curves[i].md
      BY <1>3 DEF ReferenceIsMeasuredDepth
    <2>3. /\ b.values # <<>>
          /\ \E k \in 1..Len(b.labels) : b.labels[k] = [name |-> d.ref, index |-> None]
      BY <1>3, <2>1 DEF DescribedName
    <2> QED
      BY <1>1, <2>1, <2>2, <2>3 DEF DepthColumn
  <1>4. ASSUME DepthColumn(d, b), b.values # <<>>
        PROVE  /\ d.ref \in Curves(b)
               /\ ReferenceIsMeasuredDepth(d)
               /\ DescribedName(b, d.ref) = d.ref
    <2>1. PICK i \in 1..Len(d.curves), k \in 1..Len(b.labels) :
            /\ d.curves[i].md /\ d.curves[i].id = d.ref
            /\ b.labels[k] = [name |-> d.ref, index |-> None]
      BY <1>1, <1>4 DEF DepthColumn
    <2>2. d.ref \in Curves(b)
      BY <2>1, CurvesAreNames
    <2> QED
      BY <1>4, <2>1, <2>2 DEF ReferenceIsMeasuredDepth, DescribedName
  <1> QED
    BY <1>3, <1>4

LEMMA TrajectoryDepthChecked ==
    ASSUME entity = "trajectory", NEW d \in Data, d.curves # None, NEW b \in Bulk
    PROVE  LET reference == get_reference_curve("trajectory", d)
           IN  reference # None /\ DescribedName(b, reference) = reference
               <=> DepthColumn(d, b) /\ b.values # <<>>
  <1> DEFINE reference == get_reference_curve("trajectory", d)
             named == {i \in 1..Len(d.curves) : d.curves[i].md /\ d.curves[i].id # None}
  <1>1. Listed(d) = d.curves /\ Len(d.curves) \in Nat
    BY ListedType DEF Listed
  <1>2. reference = IF named = {} THEN None ELSE d.curves[Min(named)].id
    BY <1>1 DEF get_reference_curve
  <1>3. named # {} => Min(named) \in named
    <2>1. named \subseteq Nat
      BY <1>1
    <2> QED
      BY <2>1, MinOfPositions
  <1> HIDE DEF reference
  <1>4. ASSUME reference # None, DescribedName(b, reference) = reference
        PROVE  DepthColumn(d, b) /\ b.values # <<>>
    <2>1. PICK i \in 1..Len(d.curves) :
            d.curves[i].md /\ d.curves[i].id # None /\ d.curves[i].id = reference
      BY <1>2, <1>3, <1>4
    <2>2. /\ b.values # <<>>
          /\ \E k \in 1..Len(b.labels) :
                b.labels[k] = [name |-> reference, index |-> None]
      BY <1>4 DEF DescribedName
    <2>3. get_reference_curve(entity, d) = reference
      BY DEF reference
    <2> QED
      BY <1>1, <2>1, <2>2, <2>3 DEF DepthColumn
  <1>5. ASSUME DepthColumn(d, b), b.values # <<>>
        PROVE  reference # None /\ DescribedName(b, reference) = reference
    <2>1. get_reference_curve(entity, d) = reference
      BY DEF reference
    <2>2. PICK i \in 1..Len(d.curves), k \in 1..Len(b.labels) :
            /\ d.curves[i].id # None /\ d.curves[i].id = reference
            /\ b.labels[k] = [name |-> reference, index |-> None]
      BY <1>1, <1>5, <2>1 DEF DepthColumn
    <2> QED
      BY <1>5, <2>2 DEF DescribedName
  <1> QED
    BY <1>4, <1>5 DEF reference

LEMMA NoCurvesKnown ==
    ASSUME NEW d \in Data, d.curves \in {None, <<>>}, NEW b \in Bulk, Curves(b) # {}
    PROVE  ~ColumnsKnown(d, b)
  <1>1. Listed(d) = <<>>
    BY DEF Listed
  <1>2. PICK k \in 1..Len(b.labels) : TRUE
    <2>1. PICK n \in Curves(b) : TRUE
      OBVIOUS
    <2>2. Columns(b, n) # {}
      BY CurvesAreNames
    <2> QED
      BY <2>2 DEF Columns
  <1> QED
    BY <1>1, <1>2 DEF ColumnsKnown

\* A bulk that the check of a well log accepts follows the rules, and a bulk
\* it rejects does not, unless a curve of the record has no id; and so on for
\* the other types.
LEMMA WelllogCheckIsRules ==
    ASSUME entity = "welllog", NEW d \in Data, UniqueIds(d), NEW b \in Bulk, Unmixed(b)
    PROVE  /\ WelllogChecks(d, b) = "ok" => BulkFollowsRules(d, b)
           /\ WelllogChecks(d, b) = "rejected" =>
                ~BulkFollowsRules(d, b) \/ LacksId(d)
  <1>1. CASE d.curves \in {None, <<>>} /\ Curves(b) # {}
    <2>1. WelllogChecks(d, b) = "rejected"
      BY <1>1 DEF WelllogChecks, WelllogColumns
    <2> QED
      BY <1>1, <2>1, NoCurvesKnown DEF BulkFollowsRules
  <1>2. CASE d.curves = None /\ Curves(b) = {}
    BY <1>2 DEF WelllogChecks, WelllogColumns
  <1>3. CASE ~(d.curves \in {None, <<>>} /\ Curves(b) # {}) /\ d.curves # None
    <2> DEFINE ok == /\ ~LacksId(d)
                     /\ Curves(b) \subseteq CurveIds(d)
                     /\ SizesMatch(d, b)
               depth == /\ d.ref \in Curves(b)
                        /\ ReferenceIsMeasuredDepth(d)
                        /\ DescribedName(b, d.ref) = d.ref
    <2>1. WelllogColumns(d, b) = IF ok THEN "ok" ELSE "rejected"
      BY <1>3 DEF WelllogColumns
    <2>2. WelllogChecks(d, b) =
            IF ok /\ ~(depth /\ ~CheckReference(d, b.values)) THEN "ok" ELSE "rejected"
      BY <2>1 DEF WelllogChecks
    <2>3. ok <=> ~LacksId(d) /\ ColumnsKnown(d, b) /\ ColumnsCounted(d, b)
      BY <1>3, ColumnsCheck, SizesCheck
    <2>4. ~(depth /\ ~CheckReference(d, b.values)) <=> DepthsAgree(d, b)
      <3>1. b.values \in Column
        BY DEF Bulk, Column
      <3> QED
        BY <1>3, <3>1, WelllogDepthChecked, ReferenceCheck DEF DepthsAgree
    <2> HIDE DEF ok, depth
    <2> QED
      BY <2>2, <2>3, <2>4 DEF BulkFollowsRules
  <1> QED
    BY <1>1, <1>2, <1>3

LEMMA TrajectoryCheckIsRules ==
    ASSUME entity = "trajectory", NEW d \in Data, UniqueIds(d), NEW b \in Bulk
    PROVE  /\ TrajectoryChecks(d, b) = "ok" => BulkFollowsRules(d, b)
           /\ TrajectoryChecks(d, b) = "rejected" => ~BulkFollowsRules(d, b)
  <1>1. CASE d.curves = None
    <2>1. get_reference_curve("trajectory", d) = None
      BY <1>1 DEF get_reference_curve, Listed
    <2>2. TrajectoryChecks(d, b) = IF Curves(b) = {} THEN "error" ELSE "rejected"
      BY <1>1, <2>1 DEF TrajectoryChecks, TrajectoryColumns
    <2> QED
      BY <1>1, <2>2, NoCurvesKnown DEF BulkFollowsRules
  <1>2. CASE d.curves # None
    <2> DEFINE reference == get_reference_curve("trajectory", d)
               ok == Curves(b) \subseteq UniqueValues(d.curves)
               depth == reference # None /\ DescribedName(b, reference) = reference
    <2>1. TrajectoryColumns(d, b) = IF ok THEN "ok" ELSE "rejected"
      BY <1>2 DEF TrajectoryColumns
    <2>2. TrajectoryChecks(d, b) =
            IF ok /\ ~(depth /\ ~CheckReference(d, b.values)) THEN "ok" ELSE "rejected"
      BY <2>1 DEF TrajectoryChecks
    <2>3. ok <=> ColumnsKnown(d, b)
      <3>1. None \notin Curves(b)
        BY CurvesAreNames, AbsentAssumption
      <3> QED
        BY <1>2, <3>1, ColumnsCheck, StationsReturned
    <2>4. ~(depth /\ ~CheckReference(d, b.values)) <=> DepthsAgree(d, b)
      <3>1. b.values \in Column
        BY DEF Bulk, Column
      <3>2. depth <=> DepthColumn(d, b) /\ b.values # <<>>
        BY <1>2, TrajectoryDepthChecked
      <3> HIDE DEF depth
      <3> QED
        BY <3>1, <3>2, ReferenceCheck DEF DepthsAgree
    <2>5. ColumnsCounted(d, b)
      BY DEF ColumnsCounted
    <2> HIDE DEF ok, depth
    <2> QED
      BY <2>2, <2>3, <2>4, <2>5 DEF BulkFollowsRules
  <1> QED
    BY <1>1, <1>2

LEMMA PPFGCheckIsRules ==
    ASSUME entity = "ppfg", NEW d \in Data, NEW b \in Bulk
    PROVE  /\ PPFGColumns(d, b) = "ok" => BulkFollowsRules(d, b)
           /\ PPFGColumns(d, b) = "rejected" => ~BulkFollowsRules(d, b)
  <1>1. ColumnsCounted(d, b) /\ DepthsAgree(d, b)
    BY DEF ColumnsCounted, DepthsAgree, DepthColumn
  <1>2. CASE d.curves \in {None, <<>>} /\ Curves(b) # {}
    BY <1>2, NoCurvesKnown DEF PPFGColumns, BulkFollowsRules
  <1>3. CASE d.curves = None /\ Curves(b) = {}
    BY <1>3 DEF PPFGColumns
  <1>4. CASE ~(d.curves \in {None, <<>>} /\ Curves(b) # {}) /\ d.curves # None
    BY <1>1, <1>4, ColumnsCheck DEF PPFGColumns, BulkFollowsRules
  <1> QED
    BY <1>2, <1>3, <1>4

LEMMA PressureCheckIsRules ==
    ASSUME entity = "pressure", NEW d \in Data, UniqueIds(d), NEW b \in Bulk, Unmixed(b)
    PROVE  /\ PressureColumns(d, b) = "ok" => BulkFollowsRules(d, b)
           /\ PressureColumns(d, b) = "rejected" => ~BulkFollowsRules(d, b)
  <1>1. DepthsAgree(d, b)
    BY DEF DepthsAgree, DepthColumn
  <1>2. CASE d.curves \in {None, <<>>} /\ Curves(b) # {}
    BY <1>2, NoCurvesKnown DEF PressureColumns, BulkFollowsRules
  <1>3. CASE d.curves = None /\ Curves(b) = {}
    BY <1>3 DEF PressureColumns
  <1>4. CASE ~(d.curves \in {None, <<>>} /\ Curves(b) # {}) /\ d.curves # None
    <2>1. PressureColumns(d, b) =
            IF LacksId(d) THEN "error"
            ELSE IF Curves(b) \subseteq CurveIds(d) /\ SizesMatch(d, b)
                 THEN "ok" ELSE "rejected"
      BY <1>4 DEF PressureColumns
    <2>2. Curves(b) \subseteq CurveIds(d) /\ SizesMatch(d, b)
            <=> ColumnsKnown(d, b) /\ ColumnsCounted(d, b)
      BY <1>4, ColumnsCheck, SizesCheck
    <2> QED
      BY <1>1, <2>1, <2>2 DEF BulkFollowsRules
  <1> QED
    BY <1>2, <1>3, <1>4

LEMMA BulkCheckIsRules ==
    ASSUME entity \in Entities, NEW v \in Version, ~NoData(v), UniqueIds(v.data),
           NEW b \in Bulk, Unmixed(b)
    PROVE  /\ check_bulk_consistency(entity, v, b) = "ok" => BulkFollowsRules(v.data, b)
           /\ check_bulk_consistency(entity, v, b) = "rejected" =>
                \/ ~BulkFollowsRules(v.data, b)
                \/ entity = "welllog" /\ LacksId(v.data)
  <1> DEFINE d == v.data
  <1>1. d \in Data
    BY DEF Version
  <1>2. CASE entity = "welllog"
    <2>1. check_bulk_consistency(entity, v, b) = WelllogChecks(d, b)
      BY <1>2 DEF check_bulk_consistency
    <2> QED
      BY <1>1, <1>2, <2>1, WelllogCheckIsRules
  <1>3. CASE entity = "trajectory"
    <2>1. check_bulk_consistency(entity, v, b) = TrajectoryChecks(d, b)
      BY <1>3 DEF check_bulk_consistency
    <2> QED
      BY <1>1, <1>3, <2>1, TrajectoryCheckIsRules
  <1>4. CASE entity = "ppfg"
    <2>1. check_bulk_consistency(entity, v, b) = PPFGColumns(d, b)
      BY <1>4 DEF check_bulk_consistency
    <2> QED
      BY <1>1, <1>4, <2>1, PPFGCheckIsRules
  <1>5. CASE entity = "pressure"
    <2>1. check_bulk_consistency(entity, v, b) = PressureColumns(d, b)
      BY <1>5 DEF check_bulk_consistency
    <2> QED
      BY <1>1, <1>5, <2>1, PressureCheckIsRules
  <1> QED
    BY <1>2, <1>3, <1>4, <1>5, EntitiesAssumption

-----------------------------------------------------------------------------
(* The invariant.                                                          *)

LEMMA ConsistencyInit == Init => ConsistencyInv
  <1> SUFFICES ASSUME Init PROVE ConsistencyInv
    OBVIOUS
  <1>1. PICK d \in Records :
            store = <<[data |-> d, bulk |-> None, via |-> "import"]>>
    BY DEF Init
  <1>2. store \in Seq(Version) /\ store # <<>>
    BY <1>1, RecordsAssumption DEF Version
  <1>3. NoVersion \in Version
    BY DEF NoVersion, Version, Empty, Data, Mandatory
  <1>4. TypeOK
    BY <1>2, <1>3 DEF Init, TypeOK, Phase
  <1>5. PhasesMatchInputs
    BY DEF Init, PhasesMatchInputs
  <1>6. PostsChecked
    BY <1>1 DEF Init, PostsChecked
  <1>7. BulksChecked
    BY <1>1 DEF Init, BulksChecked, Passed
  <1>8. RefusalsChecked
    BY DEF Init, RefusalsChecked
  <1> QED
    BY <1>4, <1>5, <1>6, <1>7, <1>8 DEF ConsistencyInv

\* One step per action.
LEMMA ConsistencyStep == ConsistencyInv /\ [Next]_vars => ConsistencyInv'
  <1> SUFFICES ASSUME ConsistencyInv, [Next]_vars PROVE ConsistencyInv'
    OBVIOUS
  <1> USE DEF ConsistencyInv
  <1>1. CASE UNCHANGED vars
    BY <1>1 DEF vars, TypeOK, PhasesMatchInputs, PostsChecked, BulksChecked,
               RefusalsChecked, Refused
  <1>2. ASSUME NEW r \in Requests, ReceivePost(r) PROVE ConsistencyInv'
    <2>1. PICK d \in Records : input' = [input EXCEPT ![r] = d]
      BY <1>2 DEF ReceivePost
    <2>2. TypeOK'
      BY <1>2, <2>1 DEF ReceivePost, Continue, TypeOK, Phase
    <2>3. PhasesMatchInputs'
      BY <1>2, <2>1 DEF ReceivePost, Continue, TypeOK, PhasesMatchInputs
    <2>4. PostsChecked'
      BY <1>2 DEF ReceivePost, Continue, TypeOK, PostsChecked
    <2>5. BulksChecked'
      BY <1>2 DEF ReceivePost, Continue, TypeOK, BulksChecked
    <2>6. RefusalsChecked'
      BY <1>2, <2>1 DEF ReceivePost, Continue, TypeOK, RefusalsChecked, Refused
    <2> QED
      BY <2>2, <2>3, <2>4, <2>5, <2>6
  <1>3. ASSUME NEW r \in Requests, ReceiveBulk(r) PROVE ConsistencyInv'
    <2>1. PICK k \in {"data", "commit"}, b \in Bulks :
            /\ kind' = [kind EXCEPT ![r] = k]
            /\ input' = [input EXCEPT ![r] = b]
      BY <1>3 DEF ReceiveBulk
    <2>2. TypeOK'
      BY <1>3, <2>1 DEF ReceiveBulk, Continue, TypeOK, Phase
    <2>3. PhasesMatchInputs'
      BY <1>3, <2>1 DEF ReceiveBulk, Continue, TypeOK, PhasesMatchInputs
    <2>4. PostsChecked'
      BY <1>3 DEF ReceiveBulk, Continue, TypeOK, PostsChecked
    <2>5. BulksChecked'
      BY <1>3 DEF ReceiveBulk, Continue, TypeOK, BulksChecked
    <2>6. RefusalsChecked'
      BY <1>3, <2>1 DEF ReceiveBulk, Continue, TypeOK, RefusalsChecked, Refused
    <2> QED
      BY <2>2, <2>3, <2>4, <2>5, <2>6
  <1>4. ASSUME NEW r \in Requests, CheckRecord(r) PROVE ConsistencyInv'
    <2> DEFINE posted == [data |-> input[r], bulk |-> Latest.bulk, via |-> "post"]
    <2>1. /\ rec' = [rec EXCEPT ![r] = posted]
          /\ IF RecordPasses(entity, posted) THEN Continue(r, "send")
                                     ELSE Answer(r, "rejected")
          /\ UNCHANGED <<entity, store, kind, input>>
      BY <1>4 DEF CheckRecord
    <2>2. posted \in Version
      <3>1. Latest \in Version
        BY DEF TypeOK, Latest
      <3>2. input[r] \in Data
        BY <1>4, RecordsAssumption DEF CheckRecord, PhasesMatchInputs
      <3> QED
        BY <3>1, <3>2 DEF Version
    <2>3. TypeOK'
      BY <2>1, <2>2 DEF Continue, Answer, TypeOK, Phase, Outcome
    <2>4. PhasesMatchInputs'
      BY <2>1 DEF Continue, Answer, TypeOK, PhasesMatchInputs
    <2>5. PostsChecked'
      BY <2>1 DEF Continue, Answer, TypeOK, PostsChecked
    <2>6. BulksChecked'
      BY <2>1 DEF Continue, Answer, TypeOK, BulksChecked, Passed
    <2>7. RefusalsChecked'
      BY <1>4, <2>1
      DEF CheckRecord, PhasesMatchInputs, Continue, Answer, TypeOK,
          RefusalsChecked, Refused
    <2> QED
      BY <2>3, <2>4, <2>5, <2>6, <2>7
  <1>5. ASSUME NEW r \in Requests, FetchRecord(r) PROVE ConsistencyInv'
    <2>1. PICK i \in 1..Len(store) : rec' = [rec EXCEPT ![r] = store[i]]
      BY <1>5 DEF FetchRecord
    <2>2. TypeOK'
      BY <1>5, <2>1 DEF FetchRecord, Continue, TypeOK, Phase
    <2>3. PhasesMatchInputs'
      BY <1>5 DEF FetchRecord, Continue, TypeOK, PhasesMatchInputs
    <2>4. PostsChecked'
      BY <1>5, <2>1 DEF FetchRecord, Continue, TypeOK, PostsChecked
    <2>5. BulksChecked'
      BY <1>5, <2>1 DEF FetchRecord, Continue, TypeOK, BulksChecked
    <2>6. RefusalsChecked'
      BY <1>5, <2>1 DEF FetchRecord, Continue, TypeOK, RefusalsChecked, Refused
    <2> QED
      BY <2>2, <2>3, <2>4, <2>5, <2>6
  <1>6. ASSUME NEW r \in Requests, WriteBulk(r) PROVE ConsistencyInv'
    <2> DEFINE outcome == check_bulk_consistency(entity, rec[r], input[r])
    <2>1. outcome \in Outcome
      BY CheckOutcome DEF TypeOK
    <2>2. SetBulk(rec[r], input[r]) \in Version
      BY <1>6, BulksAssumption DEF WriteBulk, PhasesMatchInputs, TypeOK, SetBulk, Version
    <2>3. SetBulk(rec[r], input[r]).via = "bulk"
      BY DEF SetBulk
    <2>4. outcome = "ok" => Passed(entity, SetBulk(rec[r], input[r]))
      <3>1. input[r] \in Bulk
        BY <1>6, BulksAssumption DEF WriteBulk, PhasesMatchInputs, TypeOK
      <3> QED
        BY <3>1, EntitiesAssumption
        DEF Passed, SetBulk, check_bulk_consistency, NoData, TypeOK
    <2> HIDE DEF outcome
    <2>5. /\ \/ /\ outcome = "ok"
                /\ rec' = [rec EXCEPT ![r] = SetBulk(rec[r], input[r])]
                /\ Continue(r, "send")
             \/ /\ Answer(r, outcome)
                /\ UNCHANGED rec
          /\ UNCHANGED <<entity, store, kind, input>>
      BY <1>6 DEF WriteBulk, outcome
    <2>6. TypeOK'
      BY <2>1, <2>2, <2>5 DEF Continue, Answer, TypeOK, Phase
    <2>7. PhasesMatchInputs'
      BY <2>5 DEF Continue, Answer, TypeOK, PhasesMatchInputs
    <2>8. PostsChecked'
      BY <2>3, <2>5 DEF Continue, Answer, TypeOK, PostsChecked
    <2>9. BulksChecked'
      BY <2>5, <2>4 DEF Continue, Answer, TypeOK, BulksChecked
    <2>10. RefusalsChecked'
      BY <1>6, <2>5
      DEF WriteBulk, PhasesMatchInputs, Continue, Answer, TypeOK,
          RefusalsChecked, Refused, outcome
    <2> QED
      BY <2>6, <2>7, <2>8, <2>9, <2>10
  <1>7. ASSUME NEW r \in Requests, SendRecord(r) PROVE ConsistencyInv'
    <2>1. rec[r] \in Version /\ store \in Seq(Version)
      BY DEF TypeOK
    <2>2. TypeOK'
      BY <1>7, <2>1 DEF SendRecord, Sent, Answer, TypeOK, Phase, Outcome
    <2>3. PhasesMatchInputs'
      BY <1>7 DEF SendRecord, Answer, TypeOK, PhasesMatchInputs
    <2>4. ASSUME NEW i \in 1..Len(store'), store'[i].via = "post"
          PROVE  RecordPasses(entity', store'[i])
      <3>1. CASE i \in 1..Len(store)
        BY <1>7, <2>1, <2>4, <3>1 DEF SendRecord, Sent, PostsChecked
      <3>2. CASE i = Len(store) + 1
        BY <1>7, <2>1, <2>4, <3>2 DEF SendRecord, Sent, PostsChecked
      <3> QED
        BY <1>7, <2>1, <3>1, <3>2 DEF SendRecord
    <2>5. PostsChecked'
      BY <1>7, <2>4 DEF SendRecord, Answer, TypeOK, PostsChecked
    <2>6. ASSUME NEW i \in 1..Len(store')
          PROVE  Passed(entity', store'[i])
      <3>1. CASE i \in 1..Len(store)
        BY <1>7, <2>1, <3>1 DEF SendRecord, Sent, BulksChecked
      <3>2. CASE i = Len(store) + 1
        BY <1>7, <2>1, <3>2 DEF SendRecord, Sent, BulksChecked
      <3> QED
        BY <1>7, <2>1, <3>1, <3>2 DEF SendRecord
    <2>7. BulksChecked'
      BY <1>7, <2>6 DEF SendRecord, Answer, TypeOK, BulksChecked
    <2>8. RefusalsChecked'
      BY <1>7 DEF SendRecord, Answer, TypeOK, RefusalsChecked, Refused
    <2> QED
      BY <2>2, <2>3, <2>5, <2>7, <2>8
  <1> QED
    BY <1>1, <1>2, <1>3, <1>4, <1>5, <1>6, <1>7 DEF Next

LEMMA ConsistencyInvariant == Spec => []ConsistencyInv
  BY ConsistencyInit, ConsistencyStep, PTL DEF Spec

\* Type correctness of the requests and of the versions they write.
THEOREM ConsistencyTypeCorrect == Spec => []TypeOK
  <1>1. ConsistencyInv => TypeOK
    BY DEF ConsistencyInv
  <1> QED
    BY <1>1, ConsistencyInvariant, PTL

\* Every record accepted by a POST handler follows rules 1 and 2 and has its
\* mandatory fields, unless its data section was empty, whatever is
\* interleaved with the handler.
THEOREM PostsFollowRules == Spec => []PostedRecordsFollowRules
  <1>1. ConsistencyInv => PostedRecordsFollowRules
    BY PassingFollowsRules
    DEF ConsistencyInv, TypeOK, PostsChecked, PostedRecordsFollowRules
  <1> QED
    BY <1>1, ConsistencyInvariant, PTL

\* Every version made by a data request or a commit passes the bulk check of
\* its type with the record and the bulk it holds itself: no post that comes
\* between the fetch and the write separates what was checked from what is
\* stored.
THEOREM StoredBulksWereChecked == Spec => []BulksChecked
  <1>1. ConsistencyInv => BulksChecked
    BY DEF ConsistencyInv
  <1> QED
    BY <1>1, ConsistencyInvariant, PTL

\* Every version made by a data request or a commit follows rules 3 to 6 with
\* the bulk it holds, for any record with unique ids and any bulk whose plain
\* columns are alone in their curve, whatever is posted between the fetch of
\* the record and the write of the version.
THEOREM StoredBulksFollowRules == Spec => []BulkAgreesWithItsVersion
  <1>1. ConsistencyInv => BulkAgreesWithItsVersion
    <2> SUFFICES ASSUME ConsistencyInv, NEW i \in 1..Len(store),
                        store[i].via = "bulk", store[i].data # Empty,
                        UniqueIds(store[i].data), Unmixed(store[i].bulk)
                 PROVE  BulkFollowsRules(store[i].data, store[i].bulk)
      BY DEF BulkAgreesWithItsVersion
    <2> DEFINE v == store[i]
    <2>1. v \in Version /\ entity \in Entities /\ ~NoData(v)
      BY DEF ConsistencyInv, TypeOK, NoData
    <2>2. check_bulk_consistency(entity, v, v.bulk) = "ok"
      BY DEF ConsistencyInv, BulksChecked, Passed
    <2>3. v.bulk \in Bulk
      BY DEF ConsistencyInv, BulksChecked, Passed
    <2> QED
      BY <2>1, <2>2, <2>3, BulkCheckIsRules
  <1> QED
    BY <1>1, ConsistencyInvariant, PTL

\* Every 400 answer of a POST, a data request or a commit has a cause in the
\* rules: what was refused breaks one of them, or is a well log record with a
\* curve that has no id.
THEOREM RefusalsHaveCauses == Spec => []RefusedForCause
  <1>1. ConsistencyInv => RefusedForCause
    <2> SUFFICES ASSUME ConsistencyInv, NEW r \in Requests, resp[r] = "rejected"
                 PROVE  IF kind[r] = "post"
                        THEN ~RecordFollowsRules(input[r])
                        ELSE UniqueIds(rec[r].data) /\ Unmixed(input[r]) =>
                                \/ ~BulkFollowsRules(rec[r].data, input[r])
                                \/ entity = "welllog" /\ LacksId(rec[r].data)
      BY DEF RefusedForCause
    <2>1. Refused(r) /\ rec[r] \in Version /\ entity \in Entities
      BY DEF ConsistencyInv, TypeOK, RefusalsChecked
    <2>2. CASE kind[r] = "post"
      BY <2>1, <2>2, RulesPass DEF Refused
    <2>3. CASE kind[r] # "post"
      <3>1. input[r] \in Bulk
        BY <2>3, BulksAssumption DEF ConsistencyInv, TypeOK
      <3>2. check_bulk_consistency(entity, rec[r], input[r]) = "rejected"
        BY <2>1, <2>3 DEF Refused
      <3>3. ~NoData(rec[r])
        BY <3>2 DEF check_bulk_consistency
      <3> QED
        BY <2>1, <2>3, <3>1, <3>2, <3>3, BulkCheckIsRules
    <2> QED
      BY <2>2, <2>3
  <1> QED
    BY <1>1, ConsistencyInvariant, PTL
=============================================================================
