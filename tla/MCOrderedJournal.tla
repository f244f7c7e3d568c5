-------------------------- MODULE MCOrderedJournal --------------------------
(* Small instances of OrderedJournal: four transactions over the sequence   *)
(* numbers 1..5, one of them two numbers long, and the overlapping 2..2.    *)
EXTENDS OrderedJournal

I(a, b) == [first |-> a, last |-> b]
T(a, b) == [first |-> a, last |-> b, life |-> 0]

RuntimeIntervals == {I(1, 1), I(2, 3), I(4, 4), I(5, 5)}
Historic         == RuntimeIntervals \cup {I(2, 2)}

Ordered    == {<<>>, <<T(1, 1)>>, <<T(1, 1), T(2, 3)>>}
Shuffled   == {<<T(2, 3), T(1, 1)>>, <<T(4, 4), T(1, 1), T(2, 3)>>}
Conflicted == {<<T(1, 1), T(2, 3), T(2, 2)>>, <<T(4, 4), T(1, 1)>>}
AnyDisk    == Ordered \cup Shuffled \cup Conflicted
=============================================================================
