------------------------------- MODULE IfTree -------------------------------
(***************************************************************************)
(* The lookups emitted with --if-tree: the tables are compiled into nested *)
(* ?: expressions, one per table, balanced by ternary_tree().  An          *)
(* expression that comes out as wc itself has found nothing.  With         *)
(* --if-tree --bsearch only lowering is compiled, uppering bisects as in   *)
(* TowcaseBsearch; with --if-tree --bsearch-both both are.                 *)
(*                                                                         *)
(* [lo, hi] is the range of entries of the node that is evaluated.         *)
(***************************************************************************)
EXTENDS TowcaseBsearch

ASSUME TreeHeadersOK == Headers \subseteq {"bsearch", "both"}

(* The digraphs are answered before the first expression, whatever entry   *)
(* covers them, and in no other: the tables have to say the same of them.  *)
ASSUME DigraphsOK ==
    /\ ~HasDigraphLace(CaseL)
    /\ \A c \in Inputs, l \in {0, 1} :
          DigraphFixed(Case, c, l) => Answer(c, l) = c + 4 * l - 2

(* ternary_tree() rounds up. *)
Node == lo + (hi - lo + 1) \div 2

LeftNode == hi' = Node - 1 /\ UNCHANGED <<pc, result, lo>>

(* Mutants: one entry too many is skipped, or none at all.                 *)
RightNodeSkips == lo' = Node + 2 /\ UNCHANGED <<pc, result, hi>>

RightNodeStays == lo' = Node /\ UNCHANGED <<pc, result, hi>>

RightNode == lo' = Node + 1 /\ UNCHANGED <<pc, result, hi>>

EnterTreePairs == Bisect("tpairs", Len(Pairs))

EnterTreeCaseL == Bisect("tcasemapsl", Len(CaseL))

(* Mutant: no test of the digraphs before the expression.                  *)
EnterTreeCaseAtOnce == Bisect("tcasemaps", Len(Case)) /\ UNCHANGED result

EnterTreeCase ==
    IF DigraphFixed(Case, wc, lower)
    THEN Answered(wc + 4 * lower - 2) /\ UNCHANGED <<lo, hi>>
    ELSE Bisect("tcasemaps", Len(Case)) /\ UNCHANGED result

Compiled == lower = 1 \/ header = "both"

TBegin ==
    /\ pc = "turkish"
    /\ IF HaveLocaleTr /\ Turkish(wc, lower) # {} /\ locale \in TurkicLocales
       THEN Answered(TurkishAnswer(wc, lower)) /\ UNCHANGED <<lo, hi>>
       ELSE IF Compiled THEN EnterTreeCase
       ELSE /\ IF InTargets(Case, CaseUpper) THEN Bisect("bcasemaps", Len(Case))
               ELSE IF InTargets(CaseL, CaseLUpper)
               THEN Bisect("bcasemapsl", Len(CaseL))
               ELSE EnterPairs
            /\ UNCHANGED result
    /\ UNCHANGED <<wc, lower, locale, i, best>>

(* A range is answered by its distance, whether it is a lace or not. *)
TreeMapped(e) == wc + (2 * lower - 1) * e.lower

EvalTable(table, order, this, after) ==
    /\ pc = this
    /\ IF lo > hi THEN after /\ UNCHANGED result
       ELSE LET e == At(table, order, Node) IN
            IF lo < hi /\ wc < Base(e, lower) THEN LeftNode
            ELSE IF Covers(e, wc, lower)
            THEN Answered(TreeMapped(e)) /\ UNCHANGED <<lo, hi>>
            ELSE RightNode
    /\ UNCHANGED <<wc, lower, locale, i, best>>

EvalCase == EvalTable(Case, CaseUpper, "tcasemaps", EnterTreeCaseL)

EvalCaseL == EvalTable(CaseL, CaseLUpper, "tcasemapsl", EnterTreePairs)

EvalPairs ==
    /\ pc = "tpairs"
    /\ IF lo > hi THEN Answered(wc) /\ UNCHANGED <<lo, hi>>
       ELSE IF lo < hi /\ wc < Key(Node) THEN LeftNode
       ELSE IF wc = Key(Node)
       THEN Answered(At(Pairs, PairsUpper, Node)[1 + lower]) /\ UNCHANGED <<lo, hi>>
       ELSE RightNode
    /\ UNCHANGED <<wc, lower, locale, i, best>>

TStep ==
    /\ \/ Enter /\ UNCHANGED <<lo, hi, best>>
       \/ TBegin \/ EvalCase \/ EvalCaseL \/ EvalPairs
       \/ BisectCase \/ BisectCaseL \/ BisectPairs \/ WalkDown \/ WalkUp
    /\ UNCHANGED header

TNext == TStep \/ BEnvironment

TSpec == BInit /\ [][TNext]_bvars /\ WF_bvars(TStep)

-----------------------------------------------------------------------------
(* No branch taken on the way down leads away from an entry that covers    *)
(* wc, although a leaf does not compare wc with the base of its range.     *)
TreeKeepsHit ==
    LET Keeps(table, order) ==
            \A k \in DOMAIN table :
                Covers(At(table, order, k), wc, lower) => k \in lo .. hi
    IN  /\ pc = "tcasemaps" => Keeps(Case, CaseUpper)
        /\ pc = "tcasemapsl" => Keeps(CaseL, CaseLUpper)
        /\ pc = "tpairs" => \A k \in DOMAIN Pairs : Key(k) = wc => k \in lo .. hi

ByLace ==
    IF Hits(Case, wc, lower) # {}
    THEN IsLace(Case[First(Hits(Case, wc, lower))])
    ELSE Hits(CaseL, wc, lower) # {}
           /\ IsLace(CaseL[First(Hits(CaseL, wc, lower))])

ByPair == Hits(Case, wc, lower) = {} /\ Hits(CaseL, wc, lower) = {}

(* The compiled lookup agrees with the tables, also on digraphs that a     *)
(* lace meets, but for two things.  Every member of a lace is answered by  *)
(* its neighbour, the one that has no mapping, too.  Of several pairs with *)
(* one key any may answer, where the other lookups take the first of them. *)
CompiledAnswer ==
    \/ ReturnsAnswer
    \/ /\ Compiled /\ ByLace /\ ~DigraphFixed(Case, wc, lower)
       /\ Answer(wc, lower) = wc /\ result = wc + 2 * lower - 1
    \/ /\ Compiled /\ ByPair
       /\ \E m \in PairHits(wc, lower) : result = PairMapped(Pairs[m], lower)
=============================================================================
