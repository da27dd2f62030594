--------------------------- MODULE Towcase_proofs ---------------------------
(***************************************************************************)
(* Proofs about the linear lookup, for all tables, inputs and locales that *)
(* satisfy the assumptions of CaseCall.                                    *)
(***************************************************************************)
EXTENDS Towcase, TLAPS

(* The first hit is where every search from the front stops. *)
LEMMA FirstIsLeast ==
    ASSUME NEW S \in SUBSET Nat, NEW k \in S, \A j \in S : k <= j
    PROVE  First(S) = k
<1>1. \A m \in S : (\A j \in S : m <= j) => m = k
  OBVIOUS
<1> QED BY <1>1 DEF First

(* An entry covers exactly the code points from its base on: the wrap of   *)
(* the unsigned difference never lets a smaller one in.                    *)
LEMMA CoversRange ==
    ASSUME NEW e, Entry(e), NEW c \in CodePoint, NEW l \in {0, 1}
    PROVE  /\ Base(e, l) \in Nat
           /\ Covers(e, c, l) <=> Base(e, l) <= c /\ c < Base(e, l) + e.len
BY WordOK DEF Entry, Covers, Within, Minus, Base, CodePoint

(* wc & 1 is a bit. *)
LEMMA Parity == ASSUME NEW x \in Int PROVE x % 2 \in {0, 1}
OBVIOUS

(* What an entry returns for a code point it covers is a code point.       *)
LEMMA MappedType ==
    ASSUME NEW table, NEW e, Entry(e), NEW c \in CodePoint, NEW l \in {0, 1},
           Covers(e, c, l)
    PROVE  Mapped(table, e, c, l) \in CodePoint
<1>1. Base(e, l) <= c /\ c < Base(e, l) + e.len
  BY CoversRange
<1>2. CASE ~IsLace(e)
  BY <1>1, <1>2, WordOK DEF Mapped, Entry, Base, CodePoint
<1>3. CASE IsLace(e)
  <2>1. (c - e.upper) % 2 \in {0, 1}
    <3>1. c - e.upper \in Int
      BY WordOK DEF Entry, CodePoint
    <3> QED BY <3>1, Parity
  <2>2. CASE DigraphFixed(table, c, l)
    BY <1>3, <2>2, WordOK DEF Mapped, DigraphFixed, CodePoint
  <2>3. CASE ~DigraphFixed(table, c, l)
    BY <1>1, <1>3, <2>1, <2>3, WordOK
       DEF Mapped, Entry, Base, IsLace, CodePoint
  <2> QED BY <2>2, <2>3
<1> QED BY <1>2, <1>3

(* Past the first entry beyond wc no entry of a sorted table covers wc, so *)
(* the early exit of the loops skips nothing.                              *)
LEMMA EarlyExit ==
    ASSUME NEW table, TableOK(table), NEW n \in DOMAIN table,
           NEW c \in CodePoint, table[n].upper > c
    PROVE  \A k \in DOMAIN table : k >= n => ~Covers(table[k], c, 1)
<1> SUFFICES ASSUME NEW k \in DOMAIN table, k >= n
             PROVE  ~Covers(table[k], c, 1)
  OBVIOUS
<1>1. Entry(table[k]) /\ Entry(table[n]) /\ n \in Nat /\ k \in Nat
  BY DEF TableOK
<1>2. table[k].upper >= table[n].upper
  <2>1. CASE k = n
    BY <1>1, <2>1 DEF Entry
  <2>2. CASE k > n
    BY <1>1, <2>2 DEF TableOK, SortedByUpper
  <2> QED BY <1>1, <2>1, <2>2
<1>3. Base(table[k], 1) > c
  BY <1>1, <1>2, WordOK DEF Base, Entry, CodePoint
<1> QED BY <1>1, <1>3, CoversRange, WordOK DEF CodePoint

(* The same of the loop over pairs[].                                      *)
LEMMA PairsEarlyExit ==
    ASSUME PairsOK, NEW n \in DOMAIN Pairs, NEW c \in CodePoint,
           Pairs[n][1] > c
    PROVE  \A k \in DOMAIN Pairs : k >= n => ~PairMatches(Pairs[k], c, 1)
<1> SUFFICES ASSUME NEW k \in DOMAIN Pairs, k >= n
             PROVE  Pairs[k][1] # c
  BY DEF PairMatches
<1>1. n \in Nat /\ k \in Nat /\ Pairs[n] \in CodePoint \X CodePoint
                  /\ Pairs[k] \in CodePoint \X CodePoint
  BY DEF PairsOK
<1>2. Pairs[k][1] >= Pairs[n][1]
  <2>1. CASE k = n
    BY <1>1, <2>1, WordOK DEF CodePoint
  <2>2. CASE k > n
    BY <1>1, <2>2 DEF PairsOK
  <2> QED BY <1>1, <2>1, <2>2
<1> QED BY <1>1, <1>2, WordOK DEF CodePoint

(* Where the loop over a table stops with a hit is the first hit.          *)
LEMMA FirstHit ==
    ASSUME NEW table, table \in Seq([upper : Nat, lower : Int, len : Nat]),
           NEW c, NEW l, NEW k \in DOMAIN table, Covers(table[k], c, l),
           \A j \in DOMAIN table : j < k => ~Covers(table[j], c, l)
    PROVE  /\ Hits(table, c, l) # {}
           /\ FromTable(table, c, l) = Mapped(table, table[k], c, l)
<1>1. Hits(table, c, l) \in SUBSET Nat /\ k \in Hits(table, c, l)
  BY DEF Hits
<1>2. \A j \in Hits(table, c, l) : k <= j
  BY DEF Hits
<1>3. First(Hits(table, c, l)) = k
  BY <1>1, <1>2, FirstIsLeast
<1> QED BY <1>1, <1>3 DEF FromTable

(* The same of pairs[], where several pairs may have the key.              *)
LEMMA FirstPair ==
    ASSUME PairsOK, NEW c, NEW l, NEW k \in DOMAIN Pairs,
           PairMatches(Pairs[k], c, l),
           \A j \in DOMAIN Pairs : j < k => ~PairMatches(Pairs[j], c, l)
    PROVE  /\ PairHits(c, l) # {}
           /\ First(PairHits(c, l)) = k
<1>1. PairHits(c, l) \in SUBSET Nat /\ k \in PairHits(c, l)
  BY DEF PairHits, PairsOK
<1>2. \A j \in PairHits(c, l) : k <= j
  BY DEF PairHits, PairsOK
<1> QED BY <1>1, <1>2, FirstIsLeast

-----------------------------------------------------------------------------
(* The inductive invariant: the entries a loop has passed do not cover wc, *)
(* and the tables searched before it do not either.                        *)
Passed ==
    /\ pc = "casemaps" =>
          \A k \in DOMAIN Case : k < i => ~Covers(Case[k], wc, lower)
    /\ pc = "casemapsl" =>
          /\ Hits(Case, wc, lower) = {}
          /\ \A k \in DOMAIN CaseL : k < i => ~Covers(CaseL[k], wc, lower)
    /\ pc = "pairs" =>
          /\ Hits(Case, wc, lower) = {} /\ Hits(CaseL, wc, lower) = {}
          /\ \A k \in DOMAIN Pairs : k < i => ~PairMatches(Pairs[k], wc, lower)

IInv ==
    /\ TypeOK
    /\ pc # "idle" => wc \in Inputs
    /\ Passed
    /\ ReturnsAnswer

(* What a loop over a table does, whichever of the two tables it is.       *)
LEMMA TableSearch ==
    ASSUME NEW table, TableOK(table), TypeOK,
           NEW this, NEW after, SearchTable(table, this, after),
           \A k \in DOMAIN table : k < i => ~Covers(table[k], wc, lower)
    PROVE  \/ /\ pc' = "return" /\ i' = i
              /\ Hits(table, wc, lower) # {}
              /\ result' = FromTable(table, wc, lower)
              /\ result' \in CodePoint
           \/ /\ pc' = after /\ i' = 1 /\ result' = result
              /\ Hits(table, wc, lower) = {}
           \/ /\ pc' = pc /\ i' = i + 1 /\ result' = result
              /\ \A k \in DOMAIN table : k < i' => ~Covers(table[k], wc, lower)
<1>1. wc \in CodePoint /\ lower \in {0, 1} /\ i \in Nat \ {0}
  BY DEF TypeOK, CallType
<1>2. DOMAIN table = 1 .. Len(table) /\ Len(table) \in Nat
  BY DEF TableOK
<1>3. CASE i <= Len(table) /\ Covers(table[i], wc, lower)
  <2>1. i \in DOMAIN table
    BY <1>1, <1>2, <1>3
  <2>2. pc' = "return" /\ i' = i
        /\ result' = Mapped(table, table[i], wc, lower)
    BY <1>3 DEF SearchTable, Answered
  <2>3. /\ Hits(table, wc, lower) # {}
        /\ FromTable(table, wc, lower) = Mapped(table, table[i], wc, lower)
    BY <1>3, <2>1, FirstHit DEF TableOK
  <2>4. result' \in CodePoint
    BY <1>1, <1>3, <2>1, <2>2, MappedType DEF TableOK
  <2> QED BY <2>2, <2>3, <2>4
<1>4. CASE ~(i <= Len(table) /\ Covers(table[i], wc, lower)) /\ Beyond(table)
  <2>1. pc' = after /\ i' = 1 /\ result' = result
    BY <1>4 DEF SearchTable
  <2>2. \A k \in DOMAIN table : ~Covers(table[k], wc, lower)
    <3>1. CASE i > Len(table)
      BY <1>1, <1>2, <3>1
    <3>2. CASE i <= Len(table) /\ lower = 1 /\ table[i].upper > wc
      <4>1. \A k \in DOMAIN table : k >= i => ~Covers(table[k], wc, 1)
        BY <1>1, <1>2, <3>2, EarlyExit
      <4> QED BY <1>1, <1>2, <3>2, <4>1
    <3> QED BY <1>1, <1>2, <1>4, <3>1, <3>2 DEF Beyond
  <2> QED BY <2>1, <2>2 DEF Hits
<1>5. CASE ~(i <= Len(table) /\ Covers(table[i], wc, lower)) /\ ~Beyond(table)
  <2>1. pc' = pc /\ i' = i + 1 /\ result' = result
    BY <1>5 DEF SearchTable
  <2>2. \A k \in DOMAIN table : k < i + 1 => ~Covers(table[k], wc, lower)
    BY <1>1, <1>2, <1>5 DEF Beyond
  <2> QED BY <2>1, <2>2
<1> QED BY <1>3, <1>4, <1>5

(* The Turkish exception returns a code point, that of one of its pairs.   *)
LEMMA TurkishType ==
    ASSUME NEW c, NEW l \in {0, 1}, Turkish(c, l) # {}
    PROVE  /\ \E p \in Turkish(c, l) : TurkishAnswer(c, l) = PairMapped(p, l)
           /\ TurkishAnswer(c, l) \in CodePoint
<1>1. PICK p \in Turkish(c, l) : TurkishAnswer(c, l) = PairMapped(p, l)
  BY DEF TurkishAnswer
<1>2. p \in CodePoint \X CodePoint
  BY LocaleOK DEF Turkish
<1>3. PairMapped(p, l) \in CodePoint
  BY <1>2 DEF PairMapped
<1> QED BY <1>1, <1>3

(* An excluded code point has no entry: returning it is the answer.        *)
LEMMA ExcludedAnswer ==
    ASSUME NEW c \in Inputs, Excluded(c), NEW l \in {0, 1}
    PROVE  Answer(c, l) = c
BY InputsOK DEF ExclusionSound, Answer

-----------------------------------------------------------------------------
(* An iteration of the loop over casemaps[] goes on, passes to the next    *)
(* table having found nothing, or returns the answer.                      *)
LEMMA CaseSearch ==
    ASSUME IInv, SearchCase
    PROVE  /\ pc = "casemaps" /\ wc \in Inputs
           /\ UNCHANGED <<wc, lower, locale>>
           /\ \/ /\ pc' = "return" /\ i' = i
                 /\ result' = Answer(wc, lower) /\ result' \in CodePoint
              \/ /\ pc' = "casemapsl" /\ i' = 1 /\ result' = result
                 /\ Hits(Case, wc, lower) = {}
              \/ /\ pc' = pc /\ i' = i + 1 /\ result' = result
                 /\ \A k \in DOMAIN Case : k < i' => ~Covers(Case[k], wc, lower)
<1>1. /\ pc = "casemaps" /\ wc \in Inputs
      /\ UNCHANGED <<wc, lower, locale>>
      /\ \A k \in DOMAIN Case : k < i => ~Covers(Case[k], wc, lower)
  BY DEF IInv, SearchCase, SearchTable, Passed
<1>2. TypeOK /\ TableOK(Case) /\ SearchTable(Case, "casemaps", "casemapsl")
  BY TablesOK DEF IInv, SearchCase
<1> QED BY <1>1, <1>2, TableSearch DEF Answer

(* The same of casemapsl[], after casemaps[] had nothing.                  *)
LEMMA CaseLSearch ==
    ASSUME IInv, SearchCaseL
    PROVE  /\ pc = "casemapsl" /\ wc \in Inputs
           /\ Hits(Case, wc, lower) = {}
           /\ UNCHANGED <<wc, lower, locale>>
           /\ \/ /\ pc' = "return" /\ i' = i
                 /\ result' = Answer(wc, lower) /\ result' \in CodePoint
              \/ /\ pc' = "pairs" /\ i' = 1 /\ result' = result
                 /\ Hits(CaseL, wc, lower) = {}
              \/ /\ pc' = pc /\ i' = i + 1 /\ result' = result
                 /\ \A k \in DOMAIN CaseL : k < i' => ~Covers(CaseL[k], wc, lower)
<1>1. /\ pc = "casemapsl" /\ wc \in Inputs
      /\ Hits(Case, wc, lower) = {}
      /\ UNCHANGED <<wc, lower, locale>>
      /\ \A k \in DOMAIN CaseL : k < i => ~Covers(CaseL[k], wc, lower)
  BY DEF IInv, SearchCaseL, SearchTable, Passed
<1>2. TypeOK /\ TableOK(CaseL) /\ SearchTable(CaseL, "casemapsl", "pairs")
  BY TablesOK DEF IInv, SearchCaseL
<1> QED BY <1>1, <1>2, TableSearch DEF Answer

(* The same of pairs[], which is the last table: having found nothing, the *)
(* code point itself is the answer.                                        *)
LEMMA PairSearch ==
    ASSUME IInv, SearchPairs
    PROVE  /\ pc = "pairs" /\ wc \in Inputs
           /\ Hits(Case, wc, lower) = {} /\ Hits(CaseL, wc, lower) = {}
           /\ UNCHANGED <<wc, lower, locale>>
           /\ \/ /\ pc' = "return" /\ i' = i
                 /\ result' = Answer(wc, lower) /\ result' \in CodePoint
              \/ /\ pc' = pc /\ i' = i + 1 /\ result' = result
                 /\ \A k \in DOMAIN Pairs :
                       k < i' => ~PairMatches(Pairs[k], wc, lower)
<1>1. /\ pc = "pairs" /\ wc \in Inputs
      /\ Hits(Case, wc, lower) = {} /\ Hits(CaseL, wc, lower) = {}
      /\ UNCHANGED <<wc, lower, locale>>
      /\ \A k \in DOMAIN Pairs : k < i => ~PairMatches(Pairs[k], wc, lower)
  BY DEF IInv, SearchPairs, Passed
<1>2. /\ DOMAIN Pairs = 1 .. Len(Pairs) /\ Len(Pairs) \in Nat
      /\ \A k \in DOMAIN Pairs : Pairs[k] \in CodePoint \X CodePoint
      /\ PairsOK
  BY TablesOK DEF PairsOK
<1>3. wc \in CodePoint /\ lower \in {0, 1} /\ i \in Nat \ {0}
  BY DEF IInv, TypeOK, CallType
<1>4. CASE i <= Len(Pairs) /\ PairMatches(Pairs[i], wc, lower)
  <2>1. i \in DOMAIN Pairs
    BY <1>2, <1>3, <1>4
  <2>2. pc' = "return" /\ result' = PairMapped(Pairs[i], lower) /\ i' = i
    BY <1>4 DEF SearchPairs, Answered
  <2>3. PairHits(wc, lower) # {} /\ First(PairHits(wc, lower)) = i
    BY <1>1, <1>2, <1>4, <2>1, FirstPair
  <2>4. result' = Answer(wc, lower)
    BY <1>1, <2>2, <2>3 DEF Answer
  <2>5. result' \in CodePoint
    BY <1>2, <1>3, <2>1, <2>2 DEF PairMapped
  <2> QED BY <1>1, <2>2, <2>4, <2>5
<1>5. CASE ~(i <= Len(Pairs) /\ PairMatches(Pairs[i], wc, lower)) /\ PairsBeyond
  <2>1. pc' = "return" /\ result' = wc /\ i' = i
    BY <1>5 DEF SearchPairs, Answered
  <2>2. \A k \in DOMAIN Pairs : ~PairMatches(Pairs[k], wc, lower)
    <3>1. CASE i > Len(Pairs)
      BY <1>1, <1>2, <1>3, <3>1
    <3>2. CASE i <= Len(Pairs) /\ lower = 1 /\ Pairs[i][1] > wc
      <4>1. \A k \in DOMAIN Pairs : k >= i => ~PairMatches(Pairs[k], wc, 1)
        BY <1>2, <1>3, <3>2, PairsEarlyExit
      <4> QED BY <1>1, <1>2, <1>3, <3>2, <4>1
    <3> QED BY <1>2, <1>3, <1>5, <3>1, <3>2 DEF PairsBeyond
  <2>3. Answer(wc, lower) = wc
    BY <1>1, <2>2 DEF Answer, PairHits
  <2> QED BY <1>1, <1>3, <2>1, <2>3
<1>6. CASE ~(i <= Len(Pairs) /\ PairMatches(Pairs[i], wc, lower)) /\ ~PairsBeyond
  <2>1. pc' = pc /\ result' = result /\ i' = i + 1
    BY <1>6 DEF SearchPairs
  <2>2. \A k \in DOMAIN Pairs : k < i + 1 => ~PairMatches(Pairs[k], wc, lower)
    BY <1>1, <1>2, <1>3, <1>6 DEF PairsBeyond
  <2> QED BY <1>1, <2>1, <2>2
<1> QED BY <1>4, <1>5, <1>6

-----------------------------------------------------------------------------
(* No call has begun, so no loop has passed anything.                      *)
LEMMA InitInv == Init => IInv
BY WordOK DEF Init, CallInit, IInv, TypeOK, CallType, Passed, ReturnsAnswer,
              CodePoint

(* Every step of the lookup, its callers and other threads keeps the       *)
(* invariant.                                                              *)
LEMMA StepInv == IInv /\ [Next]_vars => IInv'
<1> SUFFICES ASSUME IInv, [Next]_vars PROVE IInv'
  OBVIOUS
<1> USE DEF TypeOK, CallType
<1>0. /\ wc \in CodePoint /\ lower \in {0, 1} /\ i \in Nat \ {0}
      /\ result \in CodePoint /\ locale \in Locales
  BY DEF IInv
<1>1. CASE Call /\ UNCHANGED i
  <2>1. PICK c \in Inputs, l \in {0, 1} : CallWith(c, l)
    BY <1>1 DEF Call
  <2> QED BY <1>1, <2>1, InputsOK
          DEF IInv, CallWith, Passed, ReturnsAnswer
<1>2. CASE Enter
  <2>1. wc \in Inputs
    BY <1>2 DEF IInv, Enter, Exclude
  <2>2. CASE Excluded(wc)
    BY <1>2, <2>1, <2>2, ExcludedAnswer
       DEF IInv, Enter, Exclude, Answered, Passed, ReturnsAnswer
  <2>3. CASE ~Excluded(wc)
    BY <1>2, <2>1, <2>3
       DEF IInv, Enter, Exclude, Passed, ReturnsAnswer
  <2> QED BY <2>2, <2>3
<1>3. CASE Begin
  <2>1. CASE HaveLocaleTr /\ Turkish(wc, lower) # {} /\ locale \in TurkicLocales
    <3>1. /\ pc = "turkish" /\ pc' = "return" /\ i' = 1
          /\ result' = TurkishAnswer(wc, lower)
          /\ UNCHANGED <<wc, lower, locale>>
      BY <1>3, <2>1 DEF Begin, LocaleTr, Answered
    <3>2. result' \in CodePoint
      BY <1>0, <2>1, <3>1, TurkishType
    <3>3. ReturnsAnswer'
      BY <1>0, <2>1, <3>1, TurkishType DEF ReturnsAnswer, Turkish
    <3> QED BY <1>0, <3>1, <3>2, <3>3 DEF IInv, Passed
  <2>2. CASE ~(HaveLocaleTr /\ Turkish(wc, lower) # {} /\ locale \in TurkicLocales)
    <3>1. /\ pc = "turkish" /\ pc' = "casemaps" /\ i' = 1
          /\ UNCHANGED <<wc, lower, locale, result>>
      BY <1>3, <2>2 DEF Begin, LocaleTr
    <3>2. \A k \in DOMAIN Case : k < 1 => ~Covers(Case[k], wc, lower)
      BY TablesOK DEF TableOK
    <3> QED BY <1>0, <3>1, <3>2 DEF IInv, Passed, ReturnsAnswer
  <2> QED BY <2>1, <2>2
<1>4. CASE SearchCase
  <2>1. \A k \in DOMAIN CaseL : k < 1 => ~Covers(CaseL[k], wc, lower)
    BY TablesOK DEF TableOK
  <2>2. Passed'
    BY <1>4, <2>1, CaseSearch DEF Passed
  <2> QED BY <1>0, <1>4, <2>2, CaseSearch DEF IInv, ReturnsAnswer
<1>5. CASE SearchCaseL
  <2>1. \A k \in DOMAIN Pairs : k < 1 => ~PairMatches(Pairs[k], wc, lower)
    BY TablesOK DEF PairsOK
  <2>2. Passed'
    BY <1>5, <2>1, CaseLSearch DEF Passed
  <2> QED BY <1>0, <1>5, <2>2, CaseLSearch DEF IInv, ReturnsAnswer
<1>6. CASE SearchPairs
  <2>1. Passed'
    BY <1>6, PairSearch DEF Passed
  <2> QED BY <1>0, <1>6, <2>1, PairSearch DEF IInv, ReturnsAnswer
<1>7. CASE Return /\ i' = 1
  BY <1>7, WordOK DEF IInv, Return, Passed, ReturnsAnswer, CodePoint
<1>8. CASE SetLocale /\ UNCHANGED i
  BY <1>8 DEF IInv, SetLocale, Passed, ReturnsAnswer
<1>9. CASE UNCHANGED vars
  BY <1>9 DEF IInv, vars, Passed, ReturnsAnswer
<1> QED BY <1>1, <1>2, <1>3, <1>4, <1>5, <1>6, <1>7, <1>8, <1>9 DEF Next, Step

(* TypeOK for all tables: no lookup leaves the range of uint32_t.          *)
THEOREM TypeCorrect == Spec => []TypeOK
<1>1. IInv => TypeOK
  BY DEF IInv
<1> QED BY InitInv, StepInv, <1>1, PTL DEF Spec

(* ReturnsAnswer for all tables: neither an exclusion range nor an early   *)
(* exit of a loop changes the answer of the tables.                        *)
THEOREM AnswerCorrect == Spec => []ReturnsAnswer
<1>1. IInv => ReturnsAnswer
  BY DEF IInv
<1> QED BY InitInv, StepInv, <1>1, PTL DEF Spec

-----------------------------------------------------------------------------
(* The refinement.  A step that leaves "excl" for "return" or leaves       *)
(* "turkish" decides the question; the other steps of a call change        *)
(* neither the question nor the answer it will get.                        *)

(* The lookup starts without a question.                                   *)
LEMMA RefinesInit == Init => Mapping!Init
BY DEF Init, CallInit, Mapping!Init, Undecided

(* Calling is asking, excluding or reading the locale is deciding,         *)
(* returning is taking; the loops change nothing of what CaseMapping sees. *)
LEMMA RefinesStep == IInv /\ [Next]_vars => [Mapping!Next]_Mapping!vars
<1> SUFFICES ASSUME IInv, [Next]_vars
             PROVE  [Mapping!Next]_Mapping!vars
  OBVIOUS
<1> USE DEF Undecided
<1>1. CASE Call /\ UNCHANGED i
  <2>1. PICK c \in Inputs, l \in {0, 1} : CallWith(c, l)
    BY <1>1 DEF Call
  <2>2. Mapping!Ask
    BY <2>1 DEF CallWith, Mapping!Ask
  <2> QED BY <2>2 DEF Mapping!Next
<1>2. CASE Enter
  <2>1. wc \in Inputs /\ lower \in {0, 1}
    BY <1>2 DEF IInv, TypeOK, CallType, Enter, Exclude
  <2>2. CASE Excluded(wc)
    <3>1. Turkish(wc, lower) = {}
      BY <2>1, <2>2, LocaleOK DEF Turkish, PairMatches
    <3>2. Lookup(wc, lower, locale) = wc
      BY <2>1, <2>2, <3>1, ExcludedAnswer DEF Lookup
    <3>3. Mapping!Decide
      BY <1>2, <2>2, <3>2 DEF Enter, Exclude, Answered, Mapping!Decide
    <3> QED BY <3>3 DEF Mapping!Next
  <2>3. CASE ~Excluded(wc)
    BY <1>2, <2>3 DEF Enter, Exclude, Mapping!vars
  <2> QED BY <2>2, <2>3
<1>3. CASE Begin
  <2>1. CASE HaveLocaleTr /\ Turkish(wc, lower) # {} /\ locale \in TurkicLocales
    <3>1. Mapping!Decide
      BY <1>3, <2>1 DEF Begin, LocaleTr, Answered, Lookup, Mapping!Decide
    <3> QED BY <3>1 DEF Mapping!Next
  <2>2. CASE ~(HaveLocaleTr /\ Turkish(wc, lower) # {} /\ locale \in TurkicLocales)
    <3>1. Lookup(wc, lower, locale) = Answer(wc, lower)
      BY <2>2 DEF Lookup
    <3>2. Mapping!Decide
      BY <1>3, <2>2, <3>1 DEF Begin, LocaleTr, Mapping!Decide
    <3> QED BY <3>2 DEF Mapping!Next
  <2> QED BY <2>1, <2>2
<1>4. CASE SearchCase \/ SearchCaseL \/ SearchPairs
  <2>1. /\ pc \in {"casemaps", "casemapsl", "pairs"}
        /\ pc' \in {"casemaps", "casemapsl", "pairs", "return"}
        /\ pc' = "return" => result' = Answer(wc, lower)
        /\ UNCHANGED <<wc, lower, locale>>
    BY <1>4, CaseSearch, CaseLSearch, PairSearch
  <2> QED BY <2>1 DEF Mapping!vars
<1>5. CASE Return /\ i' = 1
  <2>1. Mapping!Take
    BY <1>5 DEF Return, Mapping!Take
  <2> QED BY <2>1 DEF Mapping!Next
<1>6. CASE SetLocale /\ UNCHANGED i
  <2>1. Mapping!SetLocale
    BY <1>6 DEF SetLocale, Mapping!SetLocale
  <2> QED BY <2>1 DEF Mapping!Next
<1>7. CASE UNCHANGED vars
  BY <1>7 DEF vars, Mapping!vars
<1> QED BY <1>1, <1>2, <1>3, <1>4, <1>5, <1>6, <1>7 DEF Next, Step

(* The linear lookup implements the safety part of CaseMapping.            *)
THEOREM Refinement == Spec => Mapping!Safety
BY InitInv, StepInv, RefinesInit, RefinesStep, PTL DEF Spec, Mapping!Safety
=============================================================================
