----------------------------- MODULE CaseTables -----------------------------
(***************************************************************************)
(* The tables gen_wctrans emits into towctrans.h and what one entry of     *)
(* them says, apart from the order in which a lookup visits them.          *)
(*                                                                         *)
(* An entry of casemaps[] or casemapsl[] is a record [upper, lower, len]:  *)
(* the len code points from upper on have a lowercase counterpart `lower`  *)
(* further on.  lower = 1 marks a lace: upper- and lowercase code points   *)
(* alternate over the whole range.  An entry of pairs[] is a tuple         *)
(* <<upper, lower>>.  As in the C signature, the argument `lower` is 1 for *)
(* towlower() and 0 for towupper().                                        *)
(***************************************************************************)
EXTENDS Integers, Sequences

CONSTANTS
    Word,          \* 2^32: the lookup subtracts in uint32_t, which wraps here
    Case,          \* casemaps[]
    CaseL,         \* casemapsl[]
    Pairs,         \* pairs[]
    ExclRanges,    \* <<first, last>> of the exclusion test at the top
    LastCased,     \* code points above this one are excluded, too
    DigraphUp,     \* lowercase digraphs whose uppercase is two below
    DigraphLow     \* uppercase digraphs whose lowercase is two above

CodePoint == 0 .. Word - 1

(* a - b of two uint32_t operands. *)
Minus(a, b) == IF a >= b THEN a - b ELSE a - b + Word

Within(wc, base, len) == Minus(wc, base) < len

-----------------------------------------------------------------------------
(* One entry. *)

(* Mutant: uppering looks for wc among the uppercase code points.          *)
BaseUnshifted(e, lower) == e.upper

Base(e, lower) == IF lower = 1 THEN e.upper ELSE e.upper + e.lower

Covers(e, wc, lower) == Within(wc, Base(e, lower), e.len)

IsLace(e) == e.lower = 1

(* gen_wctrans emits the digraph exception only into the loop over a table *)
(* in which some lace meets the digraph block.                             *)
Digraphs == DigraphUp \cup DigraphLow

HasDigraphLace(table) ==
    \E k \in DOMAIN table :
        /\ IsLace(table[k])
        /\ \E d, f \in Digraphs : /\ table[k].upper <= d
                                  /\ table[k].upper + table[k].len - 1 >= f

DigraphFixed(table, wc, lower) ==
    /\ HasDigraphLace(table)
    /\ wc \in (IF lower = 1 THEN DigraphLow ELSE DigraphUp)

(* Mutant: the middle member of a digraph block is mapped like any other.  *)
MappedNoDigraph(table, e, wc, lower) ==
    IF ~IsLace(e) THEN wc + (2 * lower - 1) * e.lower
    ELSE wc + lower - ((wc - e.upper) % 2)

(* The value an entry that covers wc returns for it. *)
Mapped(table, e, wc, lower) ==
    IF ~IsLace(e) THEN wc + (2 * lower - 1) * e.lower
    ELSE IF DigraphFixed(table, wc, lower) THEN wc + 4 * lower - 2
    ELSE wc + lower - ((wc - e.upper) % 2)

PairMatches(p, wc, lower) == p[2 - lower] = wc

PairMapped(p, lower) == p[1 + lower]

-----------------------------------------------------------------------------
(* The exclusion test at the top of the lookup. *)

Excluded(wc) ==
    \/ wc > LastCased
    \/ \E k \in DOMAIN ExclRanges :
          Minus(wc, ExclRanges[k][1]) <= ExclRanges[k][2] - ExclRanges[k][1]

-----------------------------------------------------------------------------
(* What the tables say of a code point: the first entry that covers it, in *)
(* the order casemaps[], casemapsl[], pairs[], whatever the code skips.    *)

First(S) == CHOOSE k \in S : \A j \in S : k <= j

Hits(table, wc, lower) == {k \in DOMAIN table : Covers(table[k], wc, lower)}

PairHits(wc, lower) == {k \in DOMAIN Pairs : PairMatches(Pairs[k], wc, lower)}

FromTable(table, wc, lower) ==
    Mapped(table, table[First(Hits(table, wc, lower))], wc, lower)

Answer(wc, lower) ==
    IF Hits(Case, wc, lower) # {} THEN FromTable(Case, wc, lower)
    ELSE IF Hits(CaseL, wc, lower) # {} THEN FromTable(CaseL, wc, lower)
    ELSE IF PairHits(wc, lower) # {}
         THEN PairMapped(Pairs[First(PairHits(wc, lower))], lower)
    ELSE wc

-----------------------------------------------------------------------------
(* What the generator guarantees of the tables it emits. *)

(* An entry and both its images stay inside the code space, so neither the *)
(* base of a range nor a result wraps.                                     *)
Entry(e) ==
    /\ e.upper \in Nat /\ e.lower \in Int /\ e.len \in Nat
    /\ e.upper + e.lower >= 0
    /\ e.upper + e.len < Word
    /\ e.upper + e.lower + e.len <= Word

SortedByUpper(table) ==
    \A j, k \in DOMAIN table : j < k => table[j].upper <= table[k].upper

TableOK(table) ==
    /\ table \in Seq([upper : Nat, lower : Int, len : Nat])
    /\ \A k \in DOMAIN table : Entry(table[k])
    /\ SortedByUpper(table)

PairsOK ==
    /\ Pairs \in Seq(CodePoint \X CodePoint)
    /\ \A j, k \in DOMAIN Pairs : j < k => Pairs[j][1] <= Pairs[k][1]

(* No excluded code point has an entry. *)
ExclusionSound(wc) ==
    Excluded(wc) => \A lower \in {0, 1} : /\ Hits(Case, wc, lower) = {}
                                          /\ Hits(CaseL, wc, lower) = {}
                                          /\ PairHits(wc, lower) = {}

-----------------------------------------------------------------------------
(* For a bisection: entries are not empty, and in each direction their     *)
(* ranges lie one after the other.                                         *)

Successive(table) ==
    \A j, k \in DOMAIN table :
        /\ table[k].len > 0
        /\ j < k => table[j].upper + table[j].len <= table[k].upper

IndexOf(order, n) ==
    /\ order \in [1 .. n -> 1 .. n]
    /\ \A k \in 1 .. n : \E j \in 1 .. n : order[j] = k

EntryLast(e) == Base(e, 0) + e.len - 1

SuccessiveTargets(table, order) ==
    /\ IndexOf(order, Len(table))
    /\ \A j, k \in DOMAIN table :
          j < k => EntryLast(table[order[j]]) < Base(table[order[k]], 0)

SortedByLower(pairs, order) ==
    \A j, k \in DOMAIN pairs :
        j < k => pairs[order[j]][2] <= pairs[order[k]][2]
=============================================================================
