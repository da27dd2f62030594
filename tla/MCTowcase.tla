------------------------------ MODULE MCTowcase ------------------------------
(***************************************************************************)
(* Towctrans over a small table that has one entry of every kind: ranges   *)
(* with a positive and a negative distance, a lace, a lace that meets the  *)
(* digraphs, a long range, pairs with a shared upper and a shared lower.   *)
(***************************************************************************)
EXTENDS Towctrans

M(from, until, to) ==
    [upper |-> from, lower |-> to - from, len |-> until - from + 1]

L(from, until) == [upper |-> from, lower |-> 1, len |-> until - from + 1]

SmallCase == << M(4, 6, 9), L(12, 14), L(17, 19), L(24, 24), M(26, 27, 22) >>
SmallCaseL == << M(30, 31, 34), L(53, 56) >>
SmallPairs == << <<4, 8>>, <<16, 18>>, <<28, 29>>, <<28, 33>>, <<38, 9>> >>
SmallExcl == << <<0, 3>>, <<40, 50>> >>
SmallTurkish == {<<5, 16>>, <<33, 9>>}
SmallAlphas == (3 .. 20) \cup (22 .. 36) \cup {38} \cup (53 .. 58)
SmallInputs == 0 .. 63

\* as narrow as the entries above allow
SmallFields ==
    [f \in {"upper", "lower", "len"} |->
        CASE f = "upper" -> 32 [] f = "lower" -> 16 [] f = "len" -> 4]
=============================================================================
