------------------------ MODULE MCDataConsistency --------------------------
(* Records and bulks for TLC.  Records: every curve alone and before a     *)
(* curve of depths, with every way to give the reference and the ends to   *)
(* one curve.  Bulks: no column, arrays, plain columns and both of them    *)
(* under one name; and one column with values of every shape.              *)
EXTENDS DataConsistency

Record(cs, ref, start, stop, filled) ==
    [curves |-> cs, ref |-> ref, start |-> start, stop |-> stop,
     filled |-> filled]

MCCurves ==
    {[id |-> "A", cols |-> 1, md |-> TRUE], [id |-> "A", cols |-> 2, md |-> FALSE],
     [id |-> "B", cols |-> 1, md |-> FALSE], [id |-> None, cols |-> 1, md |-> FALSE]}
Depth == [id |-> "A", cols |-> 1, md |-> TRUE]

MCRecords ==
    {Empty, Record(<<>>, None, None, None, Mandatory),
     Record(<<Depth>>, None, None, None, {"ContextTypeID"})}
    \cup {Record(<<c>>, "A", 0, None, Mandatory) : c \in MCCurves}
    \cup {Record(<<c, Depth>>, "A", None, None, Mandatory) : c \in MCCurves}
    \cup {Record(<<Depth>>, ref, start, stop, Mandatory) :
            ref \in {"A", "B"}, start \in {None, 0}, stop \in {None, 2}}

\* Requests are interchangeable.
Symmetry == Permutations(Requests)

Plain(n) == [name |-> n, index |-> None]
Item(n, i) == [name |-> n, index |-> i]

MCBulks ==
    {[labels |-> ls, values |-> <<0, 1>>] :
        ls \in {<<>>, <<Item("A", 0), Item("A", 1)>>, <<Plain("A"), Plain("B")>>,
                <<Item("A", 0), Plain("A")>>, <<Plain("A"), Item("A", 0)>>}}
    \cup {[labels |-> <<Plain("A")>>, values |-> vs] :
            vs \in {<<>>, <<0>>, <<NaN>>, <<0, 2>>, <<0, 0>>, <<2, 0>>,
                    <<0, NaN>>, <<0, 1, 2>>, <<0, 2, 1>>, <<2, 1, 0>>, <<0, NaN, 2>>}}
=============================================================================
