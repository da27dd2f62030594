------------------------------ MODULE FoldFile ------------------------------
(***************************************************************************)
(* towfc.h with the tables that gen_wctrans makes of a CaseFolding.txt,    *)
(* next to the towctrans.h that it makes of the UnicodeData.txt.           *)
(***************************************************************************)
EXTENDS Towfc, FoldTables

(* F lines have two or three code points, none a surrogate; C lines fold   *)
(* to another letter.  ASCII letters have no line or that of tolower(),    *)
(* and what is put into towfc.h fits its unsigned shorts.                  *)
FoldFileOK ==
    /\ IsFiniteSet(DOMAIN FoldF) /\ IsFiniteSet(DOMAIN FoldC)
    /\ DOMAIN FoldF \subseteq Ascii .. Bmp
    /\ DOMAIN FoldC \subseteq Nat
    /\ \A c \in DOMAIN FoldF : /\ FoldF[c] \in Seq(1 .. Bmp)
                               /\ Len(FoldF[c]) \in {2, 3}
                               /\ ~IsPair(FoldF[c])
    /\ \A c \in DOMAIN FoldC : FoldC[c] # c
    /\ \A c \in fcCommon : c >= Ascii /\ FoldC[c] \in 1 .. Bmp
    /\ MinArith \in Nat

(* The constants of Towfc are those of the file. *)
FromFile ==
    /\ FoldFileOK
    /\ Tbl2 = tbl2 /\ Tbl3 = tbl3 /\ Groups = groups
    /\ \A c \in FoldInputs : Lowered(c) = Lc(c) /\ Folds(c) = Folding(c)

(* What folds to itself, for want of a line, is no letter that towlower()  *)
(* changes.                                                                *)
Aligned(c) == c \in DOMAIN FoldF \cup DOMAIN FoldC \/ Lc(c) = c
=============================================================================
