------------------------------ MODULE MCIfTree ------------------------------
(***************************************************************************)
(* IfTree over a small table with an entry of every kind.  Three pairs     *)
(* share an uppercase and two a lowercase, placed so that the root of the  *)
(* expression for pairs[] is not the first of them.                        *)
(***************************************************************************)
EXTENDS IfTree, TLC

M(from, until, to) ==
    [upper |-> from, lower |-> to - from, len |-> until - from + 1]

L(from, until) == [upper |-> from, lower |-> 1, len |-> until - from + 1]

SmallCase == << M(4, 6, 8), L(12, 14), L(17, 19), M(26, 27, 22) >>
SmallCaseL == << M(30, 31, 34), L(41, 45) >>
SmallPairs == << <<3, 11>>, <<16, 18>>, <<28, 29>>, <<28, 33>>, <<28, 36>>,
                 <<38, 7>>, <<39, 40>>, <<58, 29>> >>
SmallExcl == << <<0, 2>>, <<47, 57>> >>
SmallTurkish == {<<5, 16>>, <<33, 9>>}
SmallInputs == 0 .. 63

ByTarget(table) ==
    SortSeq([k \in DOMAIN table |-> k],
            LAMBDA j, k : Base(table[j], 0) < Base(table[k], 0))
SmallCaseUpper == ByTarget(SmallCase)
SmallCaseLUpper == ByTarget(SmallCaseL)
SmallPairsUpper ==
    SortSeq([k \in DOMAIN SmallPairs |-> k],
            LAMBDA j, k : SmallPairs[j][2] < SmallPairs[k][2])
=============================================================================
