------------------------------- MODULE Towcase -------------------------------
(***************************************************************************)
(* The default lookup of towctrans.h: linear searches of casemaps[],       *)
(* casemapsl[] and pairs[], with an early exit when lowering.  One action  *)
(* is one iteration of a loop.                                             *)
(***************************************************************************)
EXTENDS CaseCall

VARIABLE i           \* the loop index, from 1

vars == <<pc, wc, lower, result, locale, i>>

Init == CallInit /\ i = 1

Enter == Exclude /\ UNCHANGED i

Begin == LocaleTr("casemaps") /\ i' = 1

(* Mutant: uppering takes the early exit, too.                             *)
BeyondBothWays(table) == i > Len(table) \/ table[i].upper > wc

(* A loop leaves for the search after it at the end of its table or, when  *)
(* lowering, at the first entry beyond wc.                                 *)
Beyond(table) == i > Len(table) \/ (lower = 1 /\ table[i].upper > wc)

SearchTable(table, this, after) ==
    /\ pc = this
    /\ IF i <= Len(table) /\ Covers(table[i], wc, lower)
       THEN Answered(Mapped(table, table[i], wc, lower)) /\ UNCHANGED i
       ELSE /\ UNCHANGED result
            /\ IF Beyond(table) THEN pc' = after /\ i' = 1
               ELSE UNCHANGED pc /\ i' = i + 1
    /\ UNCHANGED <<wc, lower, locale>>

SearchCase == SearchTable(Case, "casemaps", "casemapsl")

(* Mutant: an unsuccessful search starts over.                             *)
SearchCaseLAgain == SearchTable(CaseL, "casemapsl", "casemaps")

SearchCaseL == SearchTable(CaseL, "casemapsl", "pairs")

PairsBeyond == i > Len(Pairs) \/ (lower = 1 /\ Pairs[i][1] > wc)

SearchPairs ==
    /\ pc = "pairs"
    /\ IF i <= Len(Pairs) /\ PairMatches(Pairs[i], wc, lower)
       THEN Answered(PairMapped(Pairs[i], lower)) /\ UNCHANGED i
       ELSE IF PairsBeyond THEN Answered(wc) /\ UNCHANGED i
       ELSE i' = i + 1 /\ UNCHANGED <<pc, result>>
    /\ UNCHANGED <<wc, lower, locale>>

Step == Enter \/ Begin \/ SearchCase \/ SearchCaseL \/ SearchPairs

Next == \/ Call /\ UNCHANGED i
        \/ Step
        \/ Return /\ i' = 1
        \/ SetLocale /\ UNCHANGED i

(* The processor keeps executing a call that has begun. *)
Spec == Init /\ [][Next]_vars /\ WF_vars(Step)

-----------------------------------------------------------------------------
(* Every variable keeps its type; in particular no result leaves the       *)
(* uint32_t range, so the unreduced sums of Mapped are what C computes.    *)
TypeOK ==
    /\ CallType
    /\ pc \in {"idle", "excl", "turkish", "casemaps", "casemapsl", "pairs",
               "return"}
    /\ i \in Nat \ {0}
=============================================================================
