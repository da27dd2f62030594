----------------------------- MODULE FoldTables -----------------------------
(***************************************************************************)
(* The case folding tables gen_wctrans puts into towfc.h, from the C and F *)
(* lines of CaseFolding.txt and the lowercase mappings of UnicodeData.txt. *)
(***************************************************************************)
EXTENDS Integers, Sequences, FiniteSets

CONSTANTS
    Upper,         \* code point -> lowercase, as in UnicodeData.txt
    FoldC,         \* code point -> code point, the C lines
    FoldF,         \* code point -> 2 or 3 code points, the F lines
    GroupGap,      \* exceptions further apart are tested separately
    MinArith       \* a run longer than this is folded by arithmetic

Ascending(S) ==
    [n \in 1 .. Cardinality(S) |->
       CHOOSE c \in S : Cardinality({d \in S : d < c}) = n - 1]

Lc(c) == IF c \in DOMAIN Upper THEN Upper[c] ELSE c

FullFolds(n) ==
    LET cps == Ascending({c \in DOMAIN FoldF : Len(FoldF[c]) = n})
    IN  [k \in DOMAIN cps |-> <<cps[k]>> \o FoldF[cps[k]]]

tbl2 == FullFolds(2)
tbl3 == FullFolds(3)

(* @fc_common: only a C line that towlower() does not answer is needed. *)
fcCommon == {c \in DOMAIN FoldC : FoldC[c] # Lc(c)}

(* @groups: the exceptions, split where they are far apart. *)
Near(b, c) == b <= c /\ \A d \in fcCommon :
    b < d /\ d <= c => \E e \in fcCommon : e < d /\ b <= e /\ d - e <= GroupGap

GroupOf(c) == {d \in fcCommon : Near(c, d) \/ Near(d, c)}

IsArith(g) ==
    /\ Cardinality(g) > MinArith
    /\ \A c, d \in g : FoldC[c] - c = FoldC[d] - d
    /\ \A c \in g : c + 1 \in g \/ \A d \in g : d <= c

(* A group as _towfc_single() tests it: a range, and what it does there.   *)
Group(g) ==
    LET cps == Ascending(g) IN
    [first |-> cps[1], last |-> cps[Len(cps)], arith |-> IsArith(g),
     delta |-> FoldC[cps[1]] - cps[1], cases |-> [c \in g |-> FoldC[c]]]

groups == {Group(GroupOf(c)) : c \in fcCommon}

(* What CaseFolding.txt asks for. *)
Folding(c) ==
    IF c \in DOMAIN FoldF THEN FoldF[c]
    ELSE IF c \in DOMAIN FoldC THEN <<FoldC[c]>>
    ELSE <<c>>
=============================================================================
