--------------------------- MODULE IfTree_proofs ---------------------------
(***************************************************************************)
(* Proofs about the compiled lookups, for all tables, index tables, inputs *)
(* and locales that satisfy the assumptions of TowcaseBsearch.             *)
(***************************************************************************)
EXTENDS IfTree, TowcaseBsearch_proofs

(* The node of a subtree splits it, and the branch that is taken keeps     *)
(* every place that covers wc.  A leaf does not compare wc with the base   *)
(* of its range, but has no other place to lose.                           *)
LEMMA Descend ==
    ASSUME NEW table, NEW order, Arranged(table, order), lower \in {0, 1},
           wc \in CodePoint, lo \in Nat \ {0}, hi \in Nat, lo <= hi,
           Window(table, order)
    PROVE  /\ Node \in DOMAIN table /\ Node \in lo .. hi
           /\ wc < Base(At(table, order, Node), lower) =>
                \A k \in DOMAIN table :
                   Covers(At(table, order, k), wc, lower) => k \in lo .. Node - 1
           /\ /\ ~(lo < hi /\ wc < Base(At(table, order, Node), lower))
              /\ ~Covers(At(table, order, Node), wc, lower)
              => \A k \in DOMAIN table :
                   Covers(At(table, order, k), wc, lower) => k \in Node + 1 .. hi
<1> DEFINE e(p) == At(table, order, p)
<1>1. DOMAIN table = 1 .. Len(table) /\ Len(table) \in Nat
  BY DEF Arranged, TableOK
<1>2. Node \in lo .. hi /\ Node \in DOMAIN table /\ (lo = hi => Node = lo)
  BY <1>1 DEF Node, Window
<1>3. SUFFICES ASSUME NEW k \in DOMAIN table, Covers(e(k), wc, lower)
      PROVE  /\ wc < Base(e(Node), lower) => k \in lo .. Node - 1
             /\ /\ ~(lo < hi /\ wc < Base(e(Node), lower))
                /\ ~Covers(e(Node), wc, lower)
                => k \in Node + 1 .. hi
  BY <1>2
<1>4. k \in lo .. hi
  BY <1>3 DEF Window
<1>5. /\ Entry(e(Node)) /\ Entry(e(k))
      /\ Base(e(Node), lower) \in Nat /\ Base(e(k), lower) \in Nat
      /\ Base(e(k), lower) <= wc /\ wc < Base(e(k), lower) + e(k).len
      /\ Covers(e(Node), wc, lower) <=>
            /\ Base(e(Node), lower) <= wc
            /\ wc < Base(e(Node), lower) + e(Node).len
  BY <1>2, <1>3, Places, CoversRange
<1>6. Node < k => Base(e(Node), lower) + e(Node).len <= Base(e(k), lower)
  BY <1>2, InOrderOfPlaces
<1>7. k < Node => Base(e(k), lower) + e(k).len <= Base(e(Node), lower)
  BY <1>2, InOrderOfPlaces
<1>8. k = Node => e(k) = e(Node) /\ Covers(e(Node), wc, lower)
  BY <1>3
<1> HIDE DEF e
<1>9. /\ wc \in Nat /\ k \in Nat /\ Node \in Nat
      /\ e(Node).len \in Nat /\ e(k).len \in Nat
  <2>1. wc \in Nat
    BY WordOK DEF CodePoint
  <2>2. k \in Nat /\ Node \in Nat
    BY <1>1, <1>2
  <2>3. e(Node).len \in Nat /\ e(k).len \in Nat
    BY <1>5 DEF Entry
  <2> QED BY <2>1, <2>2, <2>3
<1>10. wc < Base(e(Node), lower) => k < Node
  BY <1>5, <1>6, <1>8, <1>9
<1>11. ~(wc < Base(e(Node), lower)) /\ ~Covers(e(Node), wc, lower) => k > Node
  BY <1>5, <1>7, <1>8, <1>9
<1>12. lo = hi => Covers(e(Node), wc, lower)
  BY <1>2, <1>4, <1>8, <1>9
<1> QED BY <1>4, <1>9, <1>10, <1>11, <1>12

(* What EvalTable does while the subtree is not empty. *)
Evaluation(table, order) ==
    LET e == At(table, order, Node) IN
    IF lo < hi /\ wc < Base(e, lower) THEN LeftNode
    ELSE IF Covers(e, wc, lower)
    THEN Answered(TreeMapped(e)) /\ UNCHANGED <<lo, hi>>
    ELSE RightNode

(* A node answers or descends to a subtree that holds every hit.           *)
LEMMA EvaluateNode ==
    ASSUME NEW table, NEW order, Arranged(table, order), lower \in {0, 1},
           wc \in CodePoint, lo \in Nat \ {0}, hi \in Nat, lo <= hi,
           Window(table, order), Evaluation(table, order),
           UNCHANGED <<wc, lower>>
    PROVE  \/ pc' = "return" /\ UNCHANGED <<lo, hi>>
           \/ /\ pc' = pc /\ lo' \in Nat \ {0} /\ hi' \in Nat
              /\ Window(table, order)'
<1> DEFINE e == At(table, order, Node)
<1>1. /\ Node \in DOMAIN table /\ Node \in lo .. hi
      /\ wc < Base(e, lower) =>
           \A k \in DOMAIN table :
              Covers(At(table, order, k), wc, lower) => k \in lo .. Node - 1
      /\ ~(lo < hi /\ wc < Base(e, lower)) /\ ~Covers(e, wc, lower) =>
           \A k \in DOMAIN table :
              Covers(At(table, order, k), wc, lower) => k \in Node + 1 .. hi
  BY Descend
<1>2. hi <= Len(table) /\ Len(table) \in Nat /\ Node \in Nat \ {0}
  <2>1. DOMAIN table = 1 .. Len(table) /\ Len(table) \in Nat
    BY DEF Arranged, TableOK
  <2>2. hi <= Len(table)
    BY DEF Window
  <2> QED BY <1>1, <2>1, <2>2
<1>3. CASE lo < hi /\ wc < Base(e, lower)
  <2>1. pc' = pc /\ lo' = lo /\ hi' = Node - 1
    BY <1>3 DEF Evaluation, LeftNode
  <2>2. Window(table, order)'
    BY <1>1, <1>2, <1>3, <2>1 DEF Window, At
  <2> QED BY <1>2, <2>1, <2>2
<1>4. CASE ~(lo < hi /\ wc < Base(e, lower)) /\ Covers(e, wc, lower)
  BY <1>4 DEF Evaluation, Answered
<1>5. CASE ~(lo < hi /\ wc < Base(e, lower)) /\ ~Covers(e, wc, lower)
  <2>1. pc' = pc /\ lo' = Node + 1 /\ hi' = hi
    BY <1>5 DEF Evaluation, RightNode
  <2>2. Window(table, order)'
    BY <1>1, <1>2, <1>5, <2>1 DEF Window, At
  <2> QED BY <1>2, <2>1, <2>2
<1> QED BY <1>3, <1>4, <1>5

(* The place that covers wc holds the first hit.                           *)
LEMMA HitIsPlace ==
    ASSUME NEW table, NEW order, Arranged(table, order), lower \in {0, 1},
           wc \in CodePoint, NEW k \in DOMAIN table,
           Covers(At(table, order, k), wc, lower)
    PROVE  At(table, order, k) = table[First(Hits(table, wc, lower))]
<1>1. PICK m \in DOMAIN table : At(table, order, k) = table[m]
  BY Places
<1>2. \A j \in Hits(table, wc, lower) : j = m
  <2> SUFFICES ASSUME NEW j \in DOMAIN table, Covers(table[j], wc, lower)
               PROVE  j = m
    BY DEF Hits
  <2>1. PICK p \in DOMAIN table : At(table, order, p) = table[j]
    BY PlaceOf
  <2>2. table[j] = table[m]
    BY <1>1, <2>1, OnePlace
  <2>3. DOMAIN table = 1 .. Len(table) /\ Len(table) \in Nat /\ Entry(table[m])
    BY DEF Arranged, TableOK
  <2>4. j \in Nat /\ m \in Nat
    BY <2>3
  <2>5. /\ j < m => table[j].upper + table[j].len <= table[m].upper
        /\ m < j => table[m].upper + table[m].len <= table[j].upper
        /\ table[m].len > 0
    BY DEF Arranged, Successive
  <2>6. table[m].upper \in Nat /\ table[m].len \in Nat
    BY <2>3 DEF Entry
  <2> QED BY <2>2, <2>4, <2>5, <2>6
<1>3. m \in Hits(table, wc, lower) /\ m \in Nat
  BY <1>1 DEF Hits, Arranged, TableOK
<1>4. First(Hits(table, wc, lower)) = m
  BY <1>2, <1>3 DEF First
<1> QED BY <1>1, <1>4

(* The answer of a node that covers wc: that of the table, or the next     *)
(* member of a lace where the table has no mapping.                        *)
LEMMA NodeAnswer ==
    ASSUME NEW table, NEW order, Arranged(table, order), lower \in {0, 1},
           wc \in CodePoint, NEW k \in DOMAIN table,
           Covers(At(table, order, k), wc, lower),
           ~DigraphFixed(table, wc, lower)
    PROVE  /\ Hits(table, wc, lower) # {}
           /\ TreeMapped(At(table, order, k)) \in CodePoint
           /\ \/ TreeMapped(At(table, order, k)) = FromTable(table, wc, lower)
              \/ /\ IsLace(table[First(Hits(table, wc, lower))])
                 /\ FromTable(table, wc, lower) = wc
                 /\ TreeMapped(At(table, order, k)) = wc + 2 * lower - 1
<1> DEFINE e == At(table, order, k)
<1>1. /\ Hits(table, wc, lower) # {}
      /\ FromTable(table, wc, lower) = Mapped(table, e, wc, lower)
  BY FoundIsAnswer
<1>2. Entry(e) /\ Base(e, lower) <= wc /\ wc < Base(e, lower) + e.len
  BY Places, CoversRange
<1>3. wc \in Nat /\ Word \in Nat
  BY WordOK DEF CodePoint
<1>4. CASE ~IsLace(e)
  <2>1. TreeMapped(e) = Mapped(table, e, wc, lower)
    BY <1>4 DEF TreeMapped, Mapped
  <2>2. Mapped(table, e, wc, lower) \in CodePoint
    BY <1>2, MappedType
  <2> QED BY <1>1, <2>1, <2>2
<1>5. CASE IsLace(e)
  <2>1. Mapped(table, e, wc, lower) = wc + lower - ((wc - e.upper) % 2)
    BY <1>5 DEF Mapped
  <2>2. (wc - e.upper) % 2 \in {0, 1}
    <3>1. wc - e.upper \in Int
      BY <1>2, <1>3 DEF Entry
    <3> QED BY <3>1, Parity
  <2>3. /\ lower = 1 => TreeMapped(e) = wc + 1
        /\ lower = 0 => TreeMapped(e) = wc - 1
    BY <1>3, <1>5 DEF TreeMapped, IsLace
  <2>4. TreeMapped(e) \in CodePoint
    BY <1>2, <1>3, <1>5, <2>3 DEF Entry, Base, IsLace, CodePoint
  <2>5. /\ \/ TreeMapped(e) = Mapped(table, e, wc, lower)
           \/ Mapped(table, e, wc, lower) = wc
        /\ TreeMapped(e) = wc + 2 * lower - 1
    <3> HIDE DEF e
    <3> QED BY <1>3, <2>1, <2>2, <2>3
  <2>6. e = table[First(Hits(table, wc, lower))]
    BY <1>2, HitIsPlace
  <2> QED BY <1>1, <1>5, <2>4, <2>5, <2>6
<1> QED BY <1>4, <1>5

-----------------------------------------------------------------------------
(* The inductive invariant: a subtree holds the hit of its table, tables   *)
(* that were left have none, and a compiled search starts only where the   *)
(* exception for digraphs does not apply.                                  *)
TreeWindows ==
    /\ pc = "tcasemaps" => Window(Case, CaseUpper)
    /\ pc = "tcasemapsl" => Window(CaseL, CaseLUpper)
    /\ pc = "tpairs" => PairWindow

TreeLeft ==
    /\ pc \in {"tcasemaps", "tcasemapsl", "tpairs"} =>
          Compiled /\ ~DigraphFixed(Case, wc, lower)
    /\ pc \in {"tcasemapsl", "tpairs"} => Hits(Case, wc, lower) = {}
    /\ pc = "tpairs" => Hits(CaseL, wc, lower) = {}

InTree == pc \in {"tcasemaps", "tcasemapsl", "tpairs"}

Bisecting == pc \in {"bcasemaps", "bcasemapsl", "bpairs", "first", "down", "up"}

TTypeOK ==
    /\ CallType /\ header \in Headers
    /\ pc \in {"idle", "excl", "turkish", "return"} \/ InTree \/ Bisecting
    /\ i \in Nat /\ lo \in Nat \ {0} /\ hi \in Nat /\ best \in CodePoint

TInv ==
    /\ TTypeOK
    /\ pc # "idle" => wc \in Inputs
    /\ pc # "down" => i # 0
    /\ Windows /\ Left /\ Walks /\ TreeWindows /\ TreeLeft
    /\ CompiledAnswer

(* Where the search bisects, the invariant is that of TowcaseBsearch.      *)
LEMMA BisectingStep ==
    ASSUME TInv, BisectCase \/ BisectCaseL \/ BisectPairs \/ WalkDown \/ WalkUp,
           header' = header
    PROVE  TInv'
<1>1. Bisecting
  BY DEF BisectCase, BisectCaseL, BisectTable, BisectPairs, WalkDown, WalkUp,
         Bisecting
<1>2. BInv
  BY <1>1 DEF TInv, TTypeOK, InTree, Bisecting, BInv, BTyped, Passed,
              ReturnsAnswer
<1>3. BInv'
  BY <1>2, CaseStep, CaseLStep, PairsStep, DownStep, UpStep
<1>4. Bisecting' \/ pc' = "return"
  BY <1>1 DEF BisectCase, BisectCaseL, BisectTable, EnterCaseL, EnterPairs,
     Bisect, LeftHalf, RightHalf, Answered, BisectPairs, WalkDown, WalkUp,
     Bisecting
<1> QED BY <1>3, <1>4
        DEF TInv, TTypeOK, Bisecting, BInv, BTyped, TreeWindows, TreeLeft,
            CompiledAnswer

(* A search that returns an answer CompiledAnswer allows keeps the         *)
(* invariant.                                                              *)
LEMMA TAnswers ==
    ASSUME TInv, pc # "idle", pc' = "return", result' \in CodePoint,
           \/ result' = Answer(wc, lower)
           \/ /\ Compiled /\ ByLace /\ ~DigraphFixed(Case, wc, lower)
              /\ Answer(wc, lower) = wc /\ result' = wc + 2 * lower - 1
           \/ /\ Compiled /\ ByPair
              /\ \E m \in PairHits(wc, lower) : result' = PairMapped(Pairs[m], lower)
           \/ /\ HaveLocaleTr
              /\ \E p \in Turkish(wc, lower) : result' = PairMapped(p, lower),
           UNCHANGED <<wc, lower, locale, header>>, i' \in Nat \ {0},
           lo' \in Nat \ {0}, hi' \in Nat, best' \in CodePoint
    PROVE  TInv'
<1>1. CompiledAnswer'
  BY DEF CompiledAnswer, ReturnsAnswer, Compiled, ByLace, ByPair, Turkish
<1> QED BY <1>1 DEF TInv, TTypeOK, CallType, InTree, Bisecting, Windows, Left,
                    Walks, TreeWindows, TreeLeft

(* Evaluating a node of the expression of casemaps[] keeps the invariant.  *)
LEMMA TCaseStep == ASSUME TInv, EvalCase, header' = header PROVE TInv'
<1>1. /\ pc = "tcasemaps" /\ wc \in CodePoint /\ lower \in {0, 1}
      /\ i \in Nat \ {0} /\ lo \in Nat \ {0} /\ hi \in Nat
      /\ best \in CodePoint /\ Window(Case, CaseUpper)
      /\ Compiled /\ ~DigraphFixed(Case, wc, lower)
      /\ UNCHANGED <<wc, lower, locale, i, best>>
  BY DEF EvalCase, EvalTable, TInv, TTypeOK, CallType, TreeWindows, TreeLeft
<1>2. CASE lo > hi
  <2>1. pc' = "tcasemapsl" /\ lo' = 1 /\ hi' = Len(CaseL) /\ UNCHANGED result
    BY <1>2 DEF EvalCase, EvalTable, EnterTreeCaseL, Bisect
  <2>2. Hits(Case, wc, lower) = {}
    BY <1>1, <1>2, BothArranged, EmptyWindow
  <2>3. Window(CaseL, CaseLUpper)' /\ Len(CaseL) \in Nat
    BY <2>1, BothArranged, WholeWindow, TablesOK DEF TableOK
  <2>4. /\ Compiled' /\ ~DigraphFixed(Case, wc, lower)'
        /\ Hits(Case, wc, lower)' = {}
    BY <1>1, <2>2 DEF Compiled
  <2> QED BY <1>1, <2>1, <2>3, <2>4
          DEF TInv, TTypeOK, CallType, InTree, Bisecting, Windows, Left, Walks,
              TreeWindows, TreeLeft, CompiledAnswer, ReturnsAnswer
<1>3. CASE lo <= hi
  <2>1. Evaluation(Case, CaseUpper)
    BY <1>1, <1>3 DEF EvalCase, EvalTable, Evaluation
  <2>2. \/ pc' = "return" /\ UNCHANGED <<lo, hi>>
        \/ /\ pc' = pc /\ lo' \in Nat \ {0} /\ hi' \in Nat
           /\ Window(Case, CaseUpper)'
    BY <1>1, <1>3, <2>1, BothArranged, EvaluateNode
  <2>3. CASE pc' = "return"
    <3>1. /\ Covers(At(Case, CaseUpper, Node), wc, lower)
          /\ result' = TreeMapped(At(Case, CaseUpper, Node))
      BY <1>1, <2>1, <2>3 DEF Evaluation, LeftNode, RightNode, Answered
    <3>2. Node \in DOMAIN Case
      BY <1>1, <1>3, BothArranged, Descend
    <3>3. /\ Hits(Case, wc, lower) # {} /\ result' \in CodePoint
          /\ \/ result' = FromTable(Case, wc, lower)
             \/ /\ IsLace(Case[First(Hits(Case, wc, lower))])
                /\ FromTable(Case, wc, lower) = wc
                /\ result' = wc + 2 * lower - 1
      BY <1>1, <3>1, <3>2, BothArranged, NodeAnswer
    <3> QED BY <1>1, <2>2, <2>3, <3>3, TAnswers DEF Answer, ByLace
  <2>4. CASE pc' # "return"
    <3>1. UNCHANGED result
      BY <2>1, <2>4 DEF Evaluation, LeftNode, RightNode, Answered
    <3>2. Compiled' /\ ~DigraphFixed(Case, wc, lower)'
      BY <1>1 DEF Compiled
    <3> QED BY <1>1, <2>2, <2>4, <3>1, <3>2
            DEF TInv, TTypeOK, CallType, InTree, Bisecting, Windows, Left, Walks,
                TreeWindows, TreeLeft, CompiledAnswer, ReturnsAnswer
  <2> QED BY <2>3, <2>4
<1> QED BY <1>1, <1>2, <1>3

(* The same of casemapsl[], which has no lace that meets a digraph.        *)
LEMMA TCaseLStep == ASSUME TInv, EvalCaseL, header' = header PROVE TInv'
<1>1. /\ pc = "tcasemapsl" /\ wc \in CodePoint /\ lower \in {0, 1}
      /\ i \in Nat \ {0} /\ lo \in Nat \ {0} /\ hi \in Nat
      /\ best \in CodePoint /\ Window(CaseL, CaseLUpper)
      /\ Compiled /\ ~DigraphFixed(Case, wc, lower)
      /\ Hits(Case, wc, lower) = {}
      /\ UNCHANGED <<wc, lower, locale, i, best>>
  BY DEF EvalCaseL, EvalTable, TInv, TTypeOK, CallType, TreeWindows, TreeLeft
<1>2. CASE lo > hi
  <2>1. pc' = "tpairs" /\ lo' = 1 /\ hi' = Len(Pairs) /\ UNCHANGED result
    BY <1>2 DEF EvalCaseL, EvalTable, EnterTreePairs, Bisect
  <2>2. Hits(CaseL, wc, lower) = {}
    BY <1>1, <1>2, BothArranged, EmptyWindow
  <2>3. PairWindow' /\ Len(Pairs) \in Nat
    BY <1>1, <2>1, KeysSorted DEF PairWindow
  <2>4. /\ Compiled' /\ ~DigraphFixed(Case, wc, lower)'
        /\ Hits(Case, wc, lower)' = {} /\ Hits(CaseL, wc, lower)' = {}
    BY <1>1, <2>2 DEF Compiled
  <2> QED BY <1>1, <2>1, <2>3, <2>4
          DEF TInv, TTypeOK, CallType, InTree, Bisecting, Windows, Left, Walks,
              TreeWindows, TreeLeft, CompiledAnswer, ReturnsAnswer
<1>3. CASE lo <= hi
  <2>1. Evaluation(CaseL, CaseLUpper)
    BY <1>1, <1>3 DEF EvalCaseL, EvalTable, Evaluation
  <2>2. \/ pc' = "return" /\ UNCHANGED <<lo, hi>>
        \/ /\ pc' = pc /\ lo' \in Nat \ {0} /\ hi' \in Nat
           /\ Window(CaseL, CaseLUpper)'
    BY <1>1, <1>3, <2>1, BothArranged, EvaluateNode
  <2>3. CASE pc' = "return"
    <3>1. /\ Covers(At(CaseL, CaseLUpper, Node), wc, lower)
          /\ result' = TreeMapped(At(CaseL, CaseLUpper, Node))
      BY <1>1, <2>1, <2>3 DEF Evaluation, LeftNode, RightNode, Answered
    <3>2. Node \in DOMAIN CaseL
      BY <1>1, <1>3, BothArranged, Descend
    <3>3. ~DigraphFixed(CaseL, wc, lower)
      BY DigraphsOK DEF DigraphFixed
    <3>4. /\ Hits(CaseL, wc, lower) # {} /\ result' \in CodePoint
          /\ \/ result' = FromTable(CaseL, wc, lower)
             \/ /\ IsLace(CaseL[First(Hits(CaseL, wc, lower))])
                /\ FromTable(CaseL, wc, lower) = wc
                /\ result' = wc + 2 * lower - 1
      BY <1>1, <3>1, <3>2, <3>3, BothArranged, NodeAnswer
    <3> QED BY <1>1, <2>2, <2>3, <3>4, TAnswers DEF Answer, ByLace
  <2>4. CASE pc' # "return"
    <3>1. UNCHANGED result
      BY <2>1, <2>4 DEF Evaluation, LeftNode, RightNode, Answered
    <3>2. /\ Compiled' /\ ~DigraphFixed(Case, wc, lower)'
          /\ Hits(Case, wc, lower)' = {}
      BY <1>1 DEF Compiled
    <3> QED BY <1>1, <2>2, <2>4, <3>1, <3>2
            DEF TInv, TTypeOK, CallType, InTree, Bisecting, Windows, Left, Walks,
                TreeWindows, TreeLeft, CompiledAnswer, ReturnsAnswer
  <2> QED BY <2>3, <2>4
<1> QED BY <1>1, <1>2, <1>3

(* A node of the expression of pairs[] has the key or descends to a        *)
(* subtree that holds every place with the key.                            *)
LEMMA DescendPairs ==
    ASSUME lower \in {0, 1}, wc \in CodePoint, lo \in Nat \ {0}, hi \in Nat,
           lo <= hi, PairWindow
    PROVE  /\ Node \in DOMAIN Pairs /\ Node \in lo .. hi
           /\ wc < Key(Node) => \A k \in DOMAIN Pairs :
                 Key(k) = wc => k \in lo .. Node - 1
           /\ ~(lo < hi /\ wc < Key(Node)) /\ wc # Key(Node) =>
                 \A k \in DOMAIN Pairs : Key(k) = wc => k \in Node + 1 .. hi
<1>1. DOMAIN Pairs = 1 .. Len(Pairs) /\ Len(Pairs) \in Nat
  BY KeysSorted
<1>2. Node \in lo .. hi /\ Node \in DOMAIN Pairs /\ (lo = hi => Node = lo)
  BY <1>1 DEF Node, PairWindow
<1>3. wc \in Nat
  BY WordOK DEF CodePoint
<1>4. SUFFICES ASSUME NEW k \in DOMAIN Pairs, Key(k) = wc
      PROVE  /\ wc < Key(Node) => k \in lo .. Node - 1
             /\ ~(lo < hi /\ wc < Key(Node)) /\ wc # Key(Node)
                  => k \in Node + 1 .. hi
  BY <1>2
<1>5. k \in lo .. hi /\ k \in Nat /\ Node \in Nat
  BY <1>1, <1>2, <1>4 DEF PairWindow
<1>6. /\ Key(Node) \in Nat
      /\ k < Node => Key(k) <= Key(Node)
      /\ Node < k => Key(Node) <= Key(k)
      /\ k = Node => Key(k) = Key(Node)
  BY <1>2, KeysSorted
<1>7. wc < Key(Node) => k < Node
  BY <1>3, <1>4, <1>5, <1>6
<1>8. ~(wc < Key(Node)) /\ wc # Key(Node) => Node < k
  BY <1>3, <1>4, <1>5, <1>6
<1>9. lo = hi => wc = Key(Node)
  BY <1>2, <1>4, <1>5, <1>6
<1> QED BY <1>5, <1>7, <1>8, <1>9

(* Evaluating a node of the expression of pairs[] keeps the invariant.     *)
LEMMA TPairsStep == ASSUME TInv, EvalPairs, header' = header PROVE TInv'
<1>1. /\ pc = "tpairs" /\ wc \in CodePoint /\ lower \in {0, 1}
      /\ i \in Nat \ {0} /\ lo \in Nat \ {0} /\ hi \in Nat
      /\ best \in CodePoint /\ PairWindow
      /\ Compiled /\ ~DigraphFixed(Case, wc, lower)
      /\ Hits(Case, wc, lower) = {} /\ Hits(CaseL, wc, lower) = {}
      /\ UNCHANGED <<wc, lower, locale, i, best>>
  BY DEF EvalPairs, TInv, TTypeOK, CallType, TreeWindows, TreeLeft
<1>2. /\ Compiled' /\ ~DigraphFixed(Case, wc, lower)'
      /\ Hits(Case, wc, lower)' = {} /\ Hits(CaseL, wc, lower)' = {}
  BY <1>1 DEF Compiled
<1>3. CASE lo > hi
  <2>1. \A k \in DOMAIN Pairs : Key(k) # wc
    BY <1>1, <1>3 DEF PairWindow
  <2>2. Answer(wc, lower) = wc
    BY <1>1, <2>1, KeyMatches DEF Answer
  <2>3. pc' = "return" /\ result' = wc /\ UNCHANGED <<lo, hi>>
    BY <1>3 DEF EvalPairs, Answered
  <2> QED BY <1>1, <2>2, <2>3, TAnswers
<1>4. CASE lo <= hi
  <2>1. /\ Node \in DOMAIN Pairs /\ Node \in lo .. hi
        /\ wc < Key(Node) => \A k \in DOMAIN Pairs :
              Key(k) = wc => k \in lo .. Node - 1
        /\ ~(lo < hi /\ wc < Key(Node)) /\ wc # Key(Node) =>
              \A k \in DOMAIN Pairs : Key(k) = wc => k \in Node + 1 .. hi
    BY <1>1, <1>4, DescendPairs
  <2>2. hi <= Len(Pairs) /\ Len(Pairs) \in Nat /\ Node \in Nat \ {0}
    <3>1. DOMAIN Pairs = 1 .. Len(Pairs) /\ Len(Pairs) \in Nat
      BY <1>1, KeysSorted
    <3>2. hi <= Len(Pairs)
      BY <1>1 DEF PairWindow
    <3> QED BY <2>1, <3>1, <3>2
  <2>3. CASE lo < hi /\ wc < Key(Node)
    <3>1. pc' = pc /\ result' = result /\ lo' = lo /\ hi' = Node - 1
      BY <1>1, <1>4, <2>3 DEF EvalPairs, LeftNode
    <3>2. PairWindow'
      BY <1>1, <2>1, <2>2, <2>3, <3>1 DEF PairWindow, Key, At
    <3> QED BY <1>1, <1>2, <2>2, <3>1, <3>2
            DEF TInv, TTypeOK, CallType, InTree, Bisecting, Windows, Left,
                Walks, TreeWindows, TreeLeft, CompiledAnswer, ReturnsAnswer
  <2>4. CASE ~(lo < hi /\ wc < Key(Node)) /\ wc = Key(Node)
    <3>1. /\ pc' = "return" /\ UNCHANGED <<lo, hi>>
          /\ result' = At(Pairs, PairsUpper, Node)[1 + lower]
      BY <1>1, <1>4, <2>4 DEF EvalPairs, Answered
    <3>2. PICK m \in DOMAIN Pairs : /\ At(Pairs, PairsUpper, Node) = Pairs[m]
                                    /\ PairMatches(Pairs[m], wc, lower)
      <4>1. CASE lower = 1
        BY <2>1, <2>4, <4>1, KeyMatches DEF At
      <4>2. CASE lower = 0
        BY <2>1, <2>4, <4>2, KeyMatches, KeysSorted DEF At
      <4> QED BY <1>1, <4>1, <4>2
    <3>3. m \in PairHits(wc, lower) /\ result' = PairMapped(Pairs[m], lower)
      BY <3>1, <3>2 DEF PairHits, PairMapped
    <3>4. result' \in CodePoint
      <4>1. Pairs[m] \in CodePoint \X CodePoint
        BY <1>1, KeysSorted
      <4> QED BY <1>1, <3>3, <4>1 DEF PairMapped
    <3> QED BY <1>1, <3>1, <3>3, <3>4, TAnswers DEF ByPair
  <2>5. CASE ~(lo < hi /\ wc < Key(Node)) /\ wc # Key(Node)
    <3>1. pc' = pc /\ result' = result /\ lo' = Node + 1 /\ hi' = hi
      BY <1>1, <1>4, <2>5 DEF EvalPairs, RightNode
    <3>2. PairWindow'
      BY <1>1, <2>1, <2>2, <2>5, <3>1 DEF PairWindow, Key, At
    <3> QED BY <1>1, <1>2, <2>2, <3>1, <3>2
            DEF TInv, TTypeOK, CallType, InTree, Bisecting, Windows, Left,
                Walks, TreeWindows, TreeLeft, CompiledAnswer, ReturnsAnswer
  <2> QED BY <2>3, <2>4, <2>5
<1> QED BY <1>1, <1>3, <1>4

(* Reading the locale, testing for digraphs and entering the search keeps  *)
(* the invariant.                                                          *)
LEMMA TBeginStep == ASSUME TInv, TBegin, header' = header PROVE TInv'
<1>1. /\ pc = "turkish" /\ wc \in CodePoint /\ wc \in Inputs
      /\ lower \in {0, 1}
      /\ i \in Nat \ {0} /\ lo \in Nat \ {0} /\ hi \in Nat
      /\ best \in CodePoint /\ UNCHANGED <<wc, lower, locale, i, best>>
  BY DEF TBegin, TInv, TTypeOK, CallType
<1> DEFINE turkic == /\ HaveLocaleTr /\ Turkish(wc, lower) # {}
                     /\ locale \in TurkicLocales
<1>2. CASE turkic
  <2>1. /\ pc' = "return" /\ result' = TurkishAnswer(wc, lower)
        /\ UNCHANGED <<lo, hi>>
    BY <1>2 DEF TBegin, Answered
  <2> QED BY <1>1, <1>2, <2>1, TurkishType, TAnswers
<1>3. CASE ~turkic /\ Compiled /\ DigraphFixed(Case, wc, lower)
  <2>1. pc' = "return" /\ result' = wc + 4 * lower - 2 /\ UNCHANGED <<lo, hi>>
    BY <1>3 DEF TBegin, EnterTreeCase, Answered
  <2>2. result' = Answer(wc, lower)
    BY <1>1, <1>3, <2>1, DigraphsOK
  <2>3. result' \in CodePoint
    BY <1>1, <1>3, <2>1, WordOK DEF DigraphFixed, CodePoint
  <2> QED BY <1>1, <2>1, <2>2, <2>3, TAnswers
<1>4. CASE ~turkic /\ Compiled /\ ~DigraphFixed(Case, wc, lower)
  <2>1. pc' = "tcasemaps" /\ lo' = 1 /\ hi' = Len(Case) /\ UNCHANGED result
    BY <1>4 DEF TBegin, EnterTreeCase, Bisect
  <2>2. Window(Case, CaseUpper)' /\ Len(Case) \in Nat
    BY <2>1, BothArranged, WholeWindow, TablesOK DEF TableOK
  <2>3. Compiled' /\ ~DigraphFixed(Case, wc, lower)'
    BY <1>1, <1>4 DEF Compiled
  <2> QED BY <1>1, <2>1, <2>2, <2>3
          DEF TInv, TTypeOK, CallType, InTree, Bisecting, Windows, Left, Walks,
              TreeWindows, TreeLeft, CompiledAnswer, ReturnsAnswer
<1>5. CASE ~turkic /\ ~Compiled
  <2>1. lower = 0
    BY <1>1, <1>5 DEF Compiled
  <2>2. EnterCase /\ UNCHANGED result
    BY <1>5, <2>1
       DEF TBegin, EnterCase, EnterCaseL, InCase, InCaseL
  <2>3. /\ pc' \in {"bcasemaps", "bcasemapsl", "bpairs"}
        /\ lo' \in Nat \ {0} /\ hi' \in Nat /\ Windows'
        /\ pc' # "bcasemaps" => Hits(Case, wc, lower) = {}
        /\ pc' = "bpairs" => Hits(CaseL, wc, lower) = {}
    BY <1>1, <2>2, EntersCase
  <2> QED BY <1>1, <2>2, <2>3
          DEF TInv, TTypeOK, CallType, InTree, Bisecting, Left, Walks,
              TreeWindows, TreeLeft, CompiledAnswer, ReturnsAnswer
<1> QED BY <1>2, <1>3, <1>4, <1>5

-----------------------------------------------------------------------------
(* Nothing is searched at the start.                                       *)
LEMMA TInitInv == BInit => TInv
BY WordOK DEF BInit, Init, CallInit, TInv, TTypeOK, CallType, InTree, Bisecting,
   Windows, Left, Walks, TreeWindows, TreeLeft, CompiledAnswer, ReturnsAnswer,
   CodePoint

(* Every step of the compiled lookups, their callers and other threads     *)
(* keeps the invariant.                                                    *)
LEMMA TStepInv == TInv /\ [TNext]_bvars => TInv'
<1> SUFFICES ASSUME TInv, [TNext]_bvars PROVE TInv'
  OBVIOUS
<1>1. /\ wc \in CodePoint /\ lower \in {0, 1} /\ result \in CodePoint
      /\ lo \in Nat \ {0} /\ hi \in Nat /\ best \in CodePoint
      /\ 0 \in CodePoint /\ 0 \in Nat /\ 1 \in Nat \ {0}
  BY WordOK DEF TInv, TTypeOK, CallType, CodePoint
<1>2. CASE Enter /\ UNCHANGED <<lo, hi, best>> /\ UNCHANGED header
  <2>1. pc = "excl" /\ wc \in Inputs /\ i \in Nat \ {0}
    BY <1>2 DEF Enter, Exclude, TInv, TTypeOK
  <2>2. CASE Excluded(wc)
    <3>1. pc' = "return" /\ result' = wc /\ UNCHANGED <<wc, lower, locale, i>>
      BY <1>2, <2>2 DEF Enter, Exclude, Answered
    <3>2. Answer(wc, lower) = wc
      BY <1>1, <2>1, <2>2, ExcludedAnswer
    <3> QED BY <1>1, <1>2, <2>1, <3>1, <3>2, TAnswers
  <2>3. CASE ~Excluded(wc)
    BY <1>2, <2>1, <2>3 DEF Enter, Exclude, TInv, TTypeOK, CallType, InTree,
       Bisecting, Windows, Left, Walks, TreeWindows, TreeLeft, CompiledAnswer,
       ReturnsAnswer
  <2> QED BY <2>2, <2>3
<1>3. CASE TBegin /\ UNCHANGED header
  BY <1>3, TBeginStep
<1>4. CASE EvalCase /\ UNCHANGED header
  BY <1>4, TCaseStep
<1>5. CASE EvalCaseL /\ UNCHANGED header
  BY <1>5, TCaseLStep
<1>6. CASE EvalPairs /\ UNCHANGED header
  BY <1>6, TPairsStep
<1>7. CASE /\ BisectCase \/ BisectCaseL \/ BisectPairs \/ WalkDown \/ WalkUp
           /\ UNCHANGED header
  BY <1>7, BisectingStep
<1>8. CASE Call /\ UNCHANGED <<i, lo, hi, best>> /\ UNCHANGED header
  <2>1. PICK c \in Inputs, l \in {0, 1} : CallWith(c, l)
    BY <1>8 DEF Call
  <2>2. c \in CodePoint
    BY InputsOK
  <2> QED BY <1>1, <1>8, <2>1, <2>2
          DEF CallWith, TInv, TTypeOK, CallType, InTree, Bisecting, Windows,
              Left, Walks, TreeWindows, TreeLeft, CompiledAnswer, ReturnsAnswer
<1>9. CASE SetLocale /\ UNCHANGED <<i, lo, hi, best>> /\ UNCHANGED header
  BY <1>9 DEF SetLocale, TInv, TTypeOK, CallType, InTree, Bisecting, Windows,
     Window, PairWindow, Left, Walks, Best, Mid, Key, At, TreeWindows, TreeLeft,
     CompiledAnswer, ReturnsAnswer, Compiled, ByLace, ByPair
<1>10. CASE /\ Return /\ i' = 1 /\ lo' = 1 /\ hi' = 0 /\ best' = 0
            /\ UNCHANGED header
  BY <1>1, <1>10 DEF Return, TInv, TTypeOK, CallType, InTree, Bisecting,
     Windows, Left, Walks, TreeWindows, TreeLeft, CompiledAnswer, ReturnsAnswer
<1>11. CASE UNCHANGED bvars
  BY <1>11 DEF bvars, TInv, TTypeOK, CallType, InTree, Bisecting, Windows,
     Window, PairWindow, Left, Walks, Best, Mid, Key, At, TreeWindows, TreeLeft,
     CompiledAnswer, ReturnsAnswer, Compiled, ByLace, ByPair
<1> QED BY <1>2, <1>3, <1>4, <1>5, <1>6, <1>7, <1>8, <1>9, <1>10, <1>11
        DEF TNext, TStep, BEnvironment

(* TreeKeepsHit for all tables: no branch of a compiled expression leads   *)
(* away from an entry that covers wc.                                      *)
THEOREM TreeCorrect == TSpec => []TreeKeepsHit
<1>1. TInv => TreeKeepsHit
  BY DEF TInv, TreeWindows, Window, PairWindow, TreeKeepsHit
<1> QED BY TInitInv, TStepInv, <1>1, PTL DEF TSpec

(* CompiledAnswer for all tables: laces without a test of the direction    *)
(* and pairs with one key are the only places where a compiled lookup may  *)
(* differ from the other lookups.                                          *)
THEOREM CompiledCorrect == TSpec => []CompiledAnswer
<1>1. TInv => CompiledAnswer
  BY DEF TInv
<1> QED BY TInitInv, TStepInv, <1>1, PTL DEF TSpec
=============================================================================
