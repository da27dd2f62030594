------------------------------ MODULE MCTowfc ------------------------------
(***************************************************************************)
(* Towfc over a small CaseFolding.txt with a line of every kind: C lines   *)
(* that agree with towlower() and others, close together and far apart,    *)
(* one run of them, F lines with two and three code points, and letters    *)
(* beyond the basic plane.  Code points 24 to 31 are the surrogates.       *)
(***************************************************************************)
EXTENDS FoldFile

CONSTANT Swapped     \* the run of C lines folds to its uppercase letters

Run == 14 .. 18

SmallUpper == [c \in {1, 10, 12, 40} |->
             CASE c = 1 -> 2 [] c = 10 -> 11 [] c = 12 -> 13 [] c = 40 -> 44]

UpperRun == [c \in {d + 5 : d \in Run} |-> c - 5]

AllUpper ==
    [c \in DOMAIN SmallUpper \cup (IF Swapped THEN DOMAIN UpperRun ELSE {}) |->
        IF c \in DOMAIN SmallUpper THEN SmallUpper[c] ELSE UpperRun[c]]

CLines == [c \in {1, 6, 8, 10, 40} \cup Run |->
             CASE c = 1 -> 2 [] c = 6 -> 23 [] c = 8 -> 11 [] c = 10 -> 11
               [] c = 40 -> 44 [] OTHER -> c + 5]

FLines == [c \in {4, 9, 12, 13} |->
             CASE c = 4 -> <<5, 5>> [] c = 9 -> <<5, 7, 5>>
               [] c = 12 -> <<2, 7>> [] c = 13 -> <<5, 7, 7>>]

Letters == (1 .. 23) \cup (32 .. 51)
(* musl's iswupper(): towlower() changes it. *)
SmallIsUpper(c) == Lc(c) # c
Unwritten == -1

(* The tables are those of the file and hold its foldings, unless some     *)
(* letters are swapped.                                                    *)
ASSUME SmallTablesFold ==
    /\ FromFile /\ PairsSuffice
    /\ TablesFold <=> ~Swapped
    /\ (\A c \in Letters : Aligned(c)) <=> ~Swapped
=============================================================================
