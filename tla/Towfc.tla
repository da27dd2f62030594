------------------------------- MODULE Towfc -------------------------------
(***************************************************************************)
(* iswfc() and towfc() of towfc.h, called by a client that asks iswfc()    *)
(* how much room a code point needs and then folds it with towfc().        *)
(* _towcase() and tolower() answer with Lowered, which is what Towcase     *)
(* guarantees of them.                                                     *)
(***************************************************************************)
EXTENDS Integers, Sequences

CONSTANTS
    Tbl2, Tbl3,      \* tbl2[], tbl3[]: <<code point, its folding ...>>
    Groups,          \* the ranges of exceptions in _towfc_single()
    Lowered(_),      \* towlower()
    IsUpper(_),      \* iswupper()
    Folds(_),        \* the folding that CaseFolding.txt defines
    FoldInputs,      \* code points a client folds
    Ascii,           \* 128: below it, tolower() answers
    Widths,          \* TRUE: SIZEOF_WCHAR_T > 2
    Bmp,             \* 0xffff
    HiBase, LoBase,  \* 0xd800, 0xdc00
    LoBits,          \* 2^10
    Dmaxes,          \* the buffer sizes passed
    MinDmax, MaxDmax,
    Garbage          \* what an unwritten unit of dest holds

(* The exceptions of _towfc_single(). *)
Excepts(g, c) ==
    g.first <= c /\ c <= g.last /\ (g.arith \/ c \in DOMAIN g.cases)

Excepted(g, c) == IF g.arith THEN c + g.delta ELSE g.cases[c]

VARIABLES
    wide,            \* how the header was compiled, one of Widths
    fpc, src, fi,    \* "idle" or the part that runs, code point, index
    count,           \* what iswfc(src) returned
    null, dmax,      \* dest == NULL, dmax
    dest,            \* the first four units of dest
    ret

fvars == <<wide, fpc, src, fi, count, null, dmax, dest, ret>>

args == <<wide, src, null, dmax>>

(* The tables are sorted; nothing they fold to is the terminator or does   *)
(* not fit a short wchar_t.                                                *)
FoldRows(tbl, n) ==
    /\ tbl \in Seq([1 .. n -> 1 .. Bmp])
    /\ \A j, k \in DOMAIN tbl : j < k => tbl[j][1] <= tbl[k][1]

ASSUME FoldTablesOK ==
    /\ FoldRows(Tbl2, 3) /\ FoldRows(Tbl3, 4)
    /\ \A g \in Groups, c \in FoldInputs :
          Excepts(g, c) => Excepted(g, c) \in 1 .. Bmp

ASSUME LettersOK ==
    /\ FoldInputs \subseteq Nat \ {0}
    /\ \A c \in FoldInputs : Lowered(c) \in Nat \ {0}

(* Surrogates are above ASCII, low ones after high ones. *)
ASSUME UnitsOK ==
    /\ Widths \subseteq BOOLEAN
    /\ {Ascii, Bmp, HiBase, LoBase, LoBits} \subseteq Nat \ {0}
    /\ Ascii <= Bmp /\ HiBase + LoBits <= LoBase
    /\ Garbage \notin Nat
    /\ Dmaxes \subseteq Int /\ MinDmax \in Nat /\ MaxDmax \in Nat

(* Two units that form a surrogate pair are one code point. *)
IsPair(t) == Len(t) = 2 /\ t[1] \in HiBase .. LoBase - 1

Joined(t) == <<Bmp + 1 + LoBits * (t[1] - HiBase) + (t[2] - LoBase)>>

(* The tables hold the foldings of CaseFolding.txt that lowercase letters  *)
(* are not, each in the first table that a letter has a row in.            *)
RowsFor(tbl, c) == {k \in DOMAIN tbl : tbl[k][1] = c}

Exceptions(c) == {g \in Groups : Excepts(g, c)}

FoldingFromTables(c) ==
    IF c < Ascii THEN {<<Lowered(c)>>}
    ELSE IF RowsFor(Tbl2, c) # {} THEN {Tail(Tbl2[k]) : k \in RowsFor(Tbl2, c)}
    ELSE IF RowsFor(Tbl3, c) # {} THEN {Tail(Tbl3[k]) : k \in RowsFor(Tbl3, c)}
    ELSE IF Exceptions(c) # {} THEN {<<Excepted(g, c)>> : g \in Exceptions(c)}
    ELSE {<<Lowered(c)>>}

TablesFold ==
    /\ \A c \in FoldInputs : FoldingFromTables(c) = {Folds(c)}
    /\ \A c \in FoldInputs, g \in Groups : Excepts(g, c) => Excepted(g, c) # c
    /\ \A k \in DOMAIN Tbl2 : ~IsPair(Tail(Tbl2[k]))

(* Surrogate pairs are there for all letters beyond the basic plane. *)
PairsSuffice ==
    /\ (Bmp + 1) % LoBits = 0
    /\ \A c \in FoldInputs : Lowered(c) <= Bmp + LoBits * LoBits

FInit ==
    /\ wide \in Widths
    /\ fpc = "idle" /\ src = 0 /\ fi = 1 /\ count = 0
    /\ null = FALSE /\ dmax = MinDmax
    /\ dest = [k \in 0 .. 3 |-> Garbage]
    /\ ret = 0

(* Mutant: the loop does not advance.                                      *)
ScanTableStays(tbl, this, after, found) ==
    /\ fpc = this
    /\ IF fi <= Len(tbl) /\ tbl[fi][1] = src THEN found /\ UNCHANGED fi
       ELSE /\ UNCHANGED <<count, dest, ret>>
            /\ IF fi > Len(tbl) \/ tbl[fi][1] > src
               THEN fpc' = after /\ fi' = 1
               ELSE UNCHANGED <<fi, fpc>>
    /\ UNCHANGED args

(* Mutant: the last entry is taken for the sentinel.                       *)
ScanTableShort(tbl, this, after, found) ==
    /\ fpc = this
    /\ IF fi < Len(tbl) /\ tbl[fi][1] = src THEN found /\ UNCHANGED fi
       ELSE /\ UNCHANGED <<count, dest, ret>>
            /\ IF fi >= Len(tbl) \/ tbl[fi][1] > src
               THEN fpc' = after /\ fi' = 1
               ELSE fi' = fi + 1 /\ UNCHANGED fpc
    /\ UNCHANGED args

(* The loops over tbl2[] and tbl3[] stop at an entry beyond src. *)
ScanTable(tbl, this, after, found) ==
    /\ fpc = this
    /\ IF fi <= Len(tbl) /\ tbl[fi][1] = src THEN found /\ UNCHANGED fi
       ELSE /\ UNCHANGED <<count, dest, ret>>
            /\ IF fi > Len(tbl) \/ tbl[fi][1] > src
               THEN fpc' = after /\ fi' = 1
               ELSE fi' = fi + 1 /\ UNCHANGED fpc
    /\ UNCHANGED args

-----------------------------------------------------------------------------
(* iswfc(src). *)

CallIswfcWith(c) ==
    /\ fpc = "idle"
    /\ fpc' = "isw2" /\ fi' = 1
    /\ src' = c
    /\ UNCHANGED <<wide, count, null, dmax, dest, ret>>

CallIswfc == \E c \in FoldInputs : CallIswfcWith(c)

Counted(n) == fpc' = "counted" /\ count' = n /\ UNCHANGED <<dest, ret>>

IswTbl2 == ScanTable(Tbl2, "isw2", "isw3", Counted(2))

(* Mutant: a copy of the loop over tbl2[] that still returns 2.            *)
IswTbl3Copied == ScanTable(Tbl3, "isw3", "iswupper", Counted(2))

IswTbl3 == ScanTable(Tbl3, "isw3", "iswupper", Counted(3))

Iswupper ==
    /\ fpc = "iswupper"
    /\ Counted(IF ~wide /\ src > Bmp
               THEN IF Lowered(src) # src THEN 1 ELSE 0
               ELSE IF IsUpper(src) THEN 1 ELSE 0)
    /\ UNCHANGED <<args, fi>>

-----------------------------------------------------------------------------
(* towfc(dest, dmax, src). *)

CallTowfc ==
    /\ fpc = "counted"
    /\ fpc' = "guard" /\ fi' = 1
    /\ null' \in BOOLEAN /\ dmax' \in Dmaxes
    /\ UNCHANGED <<wide, src, count, dest, ret>>

Finish(r) == fpc' = "done" /\ ret' = r

(* dest with the units of s in front, terminated or not. *)
Put(s) == [k \in 0 .. 3 |-> IF k < Len(s) THEN s[k + 1] ELSE dest[k]]

Write(s) == dest' = Put(s) /\ UNCHANGED count

Guard ==
    /\ fpc = "guard"
    /\ IF null THEN Finish(-2) /\ UNCHANGED <<count, dest>>
       ELSE IF dmax < MinDmax THEN Finish(-3) /\ UNCHANGED <<count, dest>>
       ELSE /\ Write(<<0>>)
            /\ IF dmax > MaxDmax THEN Finish(-4)
               ELSE /\ fpc' = (IF src < Ascii THEN "ascii" ELSE "tbl2")
                    /\ UNCHANGED ret
    /\ UNCHANGED <<args, fi>>

Replaced(c) == IF c = src THEN -1 ELSE 1

FoldAscii ==
    /\ fpc = "ascii"
    /\ Write(<<Lowered(src), 0>>)
    /\ Finish(Replaced(Lowered(src)))
    /\ UNCHANGED <<args, fi>>

FoldTbl2 ==
    ScanTable(Tbl2, "tbl2", "tbl3",
              Write(Tail(Tbl2[fi]) \o <<0>>) /\ Finish(2))

FoldTbl3 ==
    ScanTable(Tbl3, "tbl3", "single",
              Write(Tail(Tbl3[fi]) \o <<0>>) /\ Finish(3))

(* _towfc_single(): the exceptions first. *)
FoldException ==
    /\ fpc = "single"
    /\ \/ \E g \in Groups :
             Excepts(g, src) /\ Write(<<Excepted(g, src), 0>>) /\ Finish(1)
       \/ /\ ~ \E g \in Groups : Excepts(g, src)
          /\ Write(<<dest[0], 0>>)
          /\ fpc' = "lower" /\ UNCHANGED ret
    /\ UNCHANGED <<args, fi>>

(* Mutant: 0x10000 is not subtracted.                                      *)
UnitsUnbased(c) ==
    IF wide \/ c <= Bmp THEN <<c>>
    ELSE << HiBase + ((c \div LoBits) % LoBits), LoBase + (c % LoBits) >>

Units(c) ==
    IF wide \/ c <= Bmp THEN <<c>>
    ELSE << HiBase + (((c - Bmp - 1) \div LoBits) % LoBits),
            LoBase + (c % LoBits) >>

(* Mutant: a surrogate pair is not terminated.                             *)
FoldLowerOpen ==
    /\ fpc = "lower"
    /\ LET c == Lowered(src) IN
       /\ Write(Units(c))
       /\ Finish(IF c = src THEN -1 ELSE Len(Units(c)))
    /\ UNCHANGED <<args, fi>>

FoldLower ==
    /\ fpc = "lower"
    /\ LET c == Lowered(src) IN
       IF Len(Units(c)) = 1 THEN Write(Units(c)) /\ Finish(Replaced(c))
       ELSE /\ Write(Units(c) \o <<0>>)
            /\ Finish(IF c = src THEN -1 ELSE 2)
    /\ UNCHANGED <<args, fi>>

(* The client takes the result; its buffer is fresh the next time. *)
Take ==
    /\ fpc = "done"
    /\ fpc' = "idle" /\ src' = 0 /\ fi' = 1 /\ count' = 0
    /\ null' = FALSE /\ dmax' = MinDmax
    /\ dest' = [k \in 0 .. 3 |-> Garbage]
    /\ ret' = 0
    /\ UNCHANGED wide

FStep ==
    \/ IswTbl2 \/ IswTbl3 \/ Iswupper
    \/ Guard \/ FoldAscii \/ FoldTbl2 \/ FoldTbl3 \/ FoldException \/ FoldLower

FNext == CallIswfc \/ CallTowfc \/ FStep \/ Take

(* The processor keeps executing a call that has begun. *)
FSpec == FInit /\ [][FNext]_fvars /\ WF_fvars(FStep)

-----------------------------------------------------------------------------
Folded == fpc = "done" /\ ret \notin {-2, -3, -4}

(* The units up to the terminator. *)
LengthOf(d) == CHOOSE n \in 0 .. 4 : /\ n < 4 => d[n] = 0
                                    /\ \A k \in 0 .. n - 1 : d[k] # 0

Length == LengthOf(dest)

Text == [k \in 1 .. Length |-> dest[k - 1]]

(* Whatever path wrote it, the folding is terminated within the four units *)
(* a buffer must have, no unit of it is left unwritten, and its length is  *)
(* what towfc() returns, or that of src where nothing was replaced.        *)
Terminated ==
    Folded => /\ Length < 4
              /\ Length = IF ret = -1 THEN Len(Units(src)) ELSE ret
              /\ \A k \in 0 .. Length : dest[k] # Garbage

(* towfc() writes the folding CaseFolding.txt defines, in UTF-16 where     *)
(* wchar_t is short, and reports -1 for exactly the code points that fold  *)
(* to themselves.                                                          *)
FoldsExactly ==
    Folded => /\ Folds(src) = IF ~wide /\ IsPair(Text) THEN Joined(Text)
                            ELSE Text
              /\ (ret = -1) <=> (Folds(src) = <<src>>)

(* A client that reserves what iswfc() counts, and at least one unit, has  *)
(* room for what towfc() writes; where wchar_t is short, iswfc() does not  *)
(* count the second half of a surrogate pair.                              *)
CountSuffices ==
    Folded => Length <= (IF count = 0 THEN 1 ELSE count)
                          + (IF ~wide /\ IsPair(Text) THEN 1 ELSE 0)

(* iswfc(): "0 if the character stays the same".                           *)
ZeroStaysSame == Folded /\ count = 0 => ret = -1

(* Both functions return. *)
CallsReturn == /\ fpc = "isw2" ~> fpc = "counted"
               /\ fpc = "guard" ~> fpc = "done"
=============================================================================
