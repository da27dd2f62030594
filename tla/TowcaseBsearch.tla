--------------------------- MODULE TowcaseBsearch ---------------------------
(***************************************************************************)
(* The lookups emitted with --bsearch and --bsearch-both.  Lowering        *)
(* searches casemaps[], casemapsl[] and pairs[] by bisection.  Uppering    *)
(* does so, too, over index tables sorted by target with --bsearch-both;   *)
(* with --bsearch alone it keeps the linear loops of Towcase, as the       *)
(* default header does both ways.                                          *)
(***************************************************************************)
EXTENDS Towcase

CONSTANTS
    Headers,         \* the options programs generate their header with
    CaseUpper,       \* casemaps_upper[]: indices sorted by target
    CaseLUpper,      \* casemapsl_upper[]
    PairsUpper       \* pairs_upper[]: indices sorted by lower

VARIABLES
    header,          \* "linear", "bsearch" or "both": the one included
    lo, hi,          \* the bounds of the bisection
    best             \* the smallest uppercase of the hits in pairs[]

bvars == <<pc, wc, lower, result, locale, i, header, lo, hi, best>>

Mid == lo + (hi - lo) \div 2

(* Mutant: the tables are probed where their index tables should be.       *)
AtUnordered(table, order, k) == table[k]

(* The k-th entry in the order of the direction searched. *)
At(table, order, k) == table[IF lower = 1 THEN k ELSE order[k]]

(* A table is skipped when wc is outside the span of its entries.          *)
MapLastLen(e) == IF IsLace(e) THEN e.len - 1 ELSE e.len

BelowLast(table) ==
    wc <= table[Len(table)].upper + MapLastLen(table[Len(table)])

InTargets(table, order) ==
    /\ wc >= Base(table[order[1]], 0)
    /\ wc <= EntryLast(table[order[Len(table)]])

InCase == IF lower = 1 THEN BelowLast(Case) ELSE InTargets(Case, CaseUpper)

InCaseL ==
    IF lower = 1
    THEN Minus(wc, CaseL[1].upper) <=
            CaseL[Len(CaseL)].upper + MapLastLen(CaseL[Len(CaseL)])
              - CaseL[1].upper
    ELSE InTargets(CaseL, CaseLUpper)

ASSUME BsearchOK ==
    /\ Headers \subseteq {"linear", "bsearch", "both"}
    /\ Len(Case) > 0 /\ Len(CaseL) > 0 /\ Len(Pairs) > 0

(* What the bisection needs of the tables.                                 *)
ASSUME SortedOK ==
    /\ Successive(Case) /\ Successive(CaseL)
    /\ SuccessiveTargets(Case, CaseUpper)
    /\ SuccessiveTargets(CaseL, CaseLUpper)
    /\ IndexOf(PairsUpper, Len(Pairs))
    /\ SortedByLower(Pairs, PairsUpper)

-----------------------------------------------------------------------------
BInit == Init /\ header \in Headers /\ lo = 1 /\ hi = 0 /\ best = 0

(* Mutant: the number of entries is taken for the last index.              *)
BisectToLength(part, n) == pc' = part /\ lo' = 1 /\ hi' = n + 1

Bisect(part, n) == pc' = part /\ lo' = 1 /\ hi' = n

EnterPairs == Bisect("bpairs", Len(Pairs))

EnterCaseL ==
    IF InCaseL THEN Bisect("bcasemapsl", Len(CaseL)) ELSE EnterPairs

EnterCase ==
    IF InCase THEN Bisect("bcasemaps", Len(Case)) ELSE EnterCaseL

Bisects == header = "both" \/ (header = "bsearch" /\ lower = 1)

BBegin ==
    IF ~Bisects THEN Begin /\ UNCHANGED <<lo, hi, best>>
    ELSE /\ pc = "turkish"
         /\ IF HaveLocaleTr /\ Turkish(wc, lower) # {} /\ locale \in TurkicLocales
            THEN Answered(TurkishAnswer(wc, lower)) /\ UNCHANGED <<lo, hi>>
            ELSE EnterCase /\ UNCHANGED result
         /\ UNCHANGED <<wc, lower, locale, i, best>>

(* Mutants: one entry too many is skipped, or none at all.                 *)
LeftHalfSkips == hi' = Mid - 2 /\ UNCHANGED <<pc, result, lo>>

RightHalfSkips == lo' = Mid + 2 /\ UNCHANGED <<pc, result, hi>>

RightHalfStays == lo' = Mid /\ UNCHANGED <<pc, result, hi>>

LeftHalf == hi' = Mid - 1 /\ UNCHANGED <<pc, result, lo>>

RightHalf == lo' = Mid + 1 /\ UNCHANGED <<pc, result, hi>>

BisectTable(table, order, this, enterNext) ==
    /\ pc = this
    /\ IF lo > hi THEN enterNext /\ UNCHANGED result
       ELSE LET e == At(table, order, Mid) IN
            IF wc < Base(e, lower) THEN LeftHalf
            ELSE IF Within(wc, Base(e, lower), e.len)
            THEN Answered(Mapped(table, e, wc, lower)) /\ UNCHANGED <<lo, hi>>
            ELSE RightHalf
    /\ UNCHANGED <<wc, lower, locale, i, best>>

BisectCase == BisectTable(Case, CaseUpper, "bcasemaps", EnterCaseL)

BisectCaseL == BisectTable(CaseL, CaseLUpper, "bcasemapsl", EnterPairs)

(* pairs[] may hold several pairs with the same key: lowering walks back   *)
(* to the first of them, uppering looks for the smallest uppercase.        *)
Key(k) == At(Pairs, PairsUpper, k)[2 - lower]

BisectPairs ==
    /\ pc = "bpairs"
    /\ IF lo > hi THEN Answered(wc) /\ UNCHANGED <<i, lo, hi, best>>
       ELSE IF Key(Mid) = wc
       THEN /\ pc' = IF lower = 1 THEN "first" ELSE "down"
            /\ i' = IF lower = 1 THEN Mid ELSE Mid - 1
            /\ best' = IF lower = 1 THEN best ELSE Pairs[PairsUpper[Mid]][1]
            /\ UNCHANGED <<result, lo, hi>>
       ELSE /\ IF Key(Mid) < wc THEN RightHalf ELSE LeftHalf
            /\ UNCHANGED <<i, best>>
    /\ UNCHANGED <<wc, lower, locale>>

(* Mutant: any of the pairs with the key will do.                          *)
WalkNowhere ==
    /\ pc = "first"
    /\ Answered(Pairs[i][2])
    /\ UNCHANGED <<wc, lower, locale, i, lo, hi, best>>

WalkToFirst ==
    /\ pc = "first"
    /\ IF i > 1 /\ Pairs[i - 1][1] = wc
       THEN i' = i - 1 /\ UNCHANGED <<pc, result>>
       ELSE Answered(Pairs[i][2]) /\ UNCHANGED i
    /\ UNCHANGED <<wc, lower, locale, lo, hi, best>>

(* Mutant: the largest uppercase wins.                                     *)
LargerUpper(k) ==
    LET u == Pairs[PairsUpper[k]][1] IN IF u > best THEN u ELSE best

SmallerUpper(k) ==
    LET u == Pairs[PairsUpper[k]][1] IN IF u < best THEN u ELSE best

WalkDown ==
    /\ pc = "down"
    /\ IF i >= 1 /\ Key(i) = wc
       THEN i' = i - 1 /\ best' = SmallerUpper(i) /\ UNCHANGED pc
       ELSE i' = Mid + 1 /\ pc' = "up" /\ UNCHANGED best
    /\ UNCHANGED <<wc, lower, result, locale, lo, hi>>

WalkUp ==
    /\ pc = "up"
    /\ IF i <= Len(Pairs) /\ Key(i) = wc
       THEN i' = i + 1 /\ best' = SmallerUpper(i) /\ UNCHANGED <<pc, result>>
       ELSE Answered(best) /\ UNCHANGED <<i, best>>
    /\ UNCHANGED <<wc, lower, locale, lo, hi>>

BStep ==
    /\ \/ (Enter \/ SearchCase \/ SearchCaseL \/ SearchPairs)
             /\ UNCHANGED <<lo, hi, best>>
       \/ BBegin \/ BisectCase \/ BisectCaseL \/ BisectPairs
       \/ WalkToFirst \/ WalkDown \/ WalkUp
    /\ UNCHANGED header

(* The caller, and other threads. *)
BEnvironment ==
    /\ \/ (Call \/ SetLocale) /\ UNCHANGED <<i, lo, hi, best>>
       \/ Return /\ i' = 1 /\ lo' = 1 /\ hi' = 0 /\ best' = 0
    /\ UNCHANGED header

BNext == BStep \/ BEnvironment

BSpec == BInit /\ [][BNext]_bvars /\ WF_bvars(BStep)

-----------------------------------------------------------------------------
BTyped ==
    /\ CallType
    /\ pc \in {"idle", "excl", "turkish", "casemaps", "casemapsl", "pairs",
               "bcasemaps", "bcasemapsl", "bpairs", "first", "down", "up",
               "return"}
    /\ header \in Headers
    /\ i \in Nat /\ lo \in Nat \ {0} /\ hi \in Nat /\ best \in CodePoint

(* The bounds of a bisection of n entries; what it probes is one of them.  *)
Inside(n) == lo <= n + 1 /\ hi <= n /\ (lo <= hi => Mid \in 1 .. n)

ProbesInside ==
    /\ pc = "bcasemaps" => Inside(Len(Case))
    /\ pc = "bcasemapsl" => Inside(Len(CaseL))
    /\ pc = "bpairs" => Inside(Len(Pairs))

WalksInside ==
    /\ pc = "first" => i \in 1 .. Len(Pairs)
    /\ pc \in {"down", "up"} => Mid \in 1 .. Len(Pairs)
    /\ pc = "down" => i \in 0 .. Mid - 1
    /\ pc = "up" => i \in Mid + 1 .. Len(Pairs) + 1

(* Every variable keeps its type; a bisection never probes outside the     *)
(* table it searches, and a walk stops at the ends of pairs[].             *)
BTypeOK == BTyped /\ ProbesInside /\ WalksInside

(* A hit is never outside the window: an entry that covers wc is between   *)
(* lo and hi as long as its table is searched.                             *)
WindowKeepsHit ==
    LET Keeps(table, order) ==
            \A k \in DOMAIN table :
                Covers(At(table, order, k), wc, lower) => k \in lo .. hi
    IN  /\ pc = "bcasemaps" => Keeps(Case, CaseUpper)
        /\ pc = "bcasemapsl" => Keeps(CaseL, CaseLUpper)
        /\ pc = "bpairs" => \A k \in DOMAIN Pairs : Key(k) = wc => k \in lo .. hi
=============================================================================
