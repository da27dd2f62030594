-------------------------- MODULE Towctrans_proofs --------------------------
(***************************************************************************)
(* Proofs about the default lookup as programs see it: through the         *)
(* wrappers or directly, with casemapsl[] searched in a loop or unrolled,  *)
(* with casemaps[] made of bit-fields or not.                              *)
(***************************************************************************)
EXTENDS Towctrans, Towcase_proofs, WellFoundedInduction

(* Of a non-empty set of indices one is the first. *)
LEMMA FirstExists ==
    ASSUME NEW S \in SUBSET Nat, S # {}
    PROVE  First(S) \in S
<1> DEFINE R == OpToRel(<, Nat)
<1>1. IsWellFoundedOn(R, Nat)
  BY NatLessThanWellFounded
<1>2. PICK k \in S : \A j \in S : <<j, k>> \notin R
  <2> HIDE DEF R
  <2> QED BY <1>1, WFMin
<1>3. \A j \in S : ~(j < k)
  BY <1>2 DEF OpToRel
<1>4. \A j \in S : k <= j
  BY <1>3
<1> QED BY <1>4, FirstIsLeast

(* Every answer is a code point. *)
LEMMA AnswerType ==
    ASSUME NEW c \in CodePoint, NEW l \in {0, 1}
    PROVE  Answer(c, l) \in CodePoint
<1>1. ASSUME NEW table, TableOK(table), Hits(table, c, l) # {}
      PROVE  FromTable(table, c, l) \in CodePoint
  <2> DEFINE k == First(Hits(table, c, l))
  <2>1. Hits(table, c, l) \in SUBSET Nat
    BY <1>1 DEF Hits, TableOK
  <2>2. k \in Hits(table, c, l)
    BY <1>1, <2>1, FirstExists
  <2>3. k \in DOMAIN table /\ Covers(table[k], c, l)
    BY <2>2 DEF Hits
  <2>4. Entry(table[k])
    BY <1>1, <2>3 DEF TableOK
  <2>5. Mapped(table, table[k], c, l) \in CodePoint
    BY <2>3, <2>4, MappedType
  <2> QED BY <2>5 DEF FromTable
<1>2. ASSUME PairHits(c, l) # {}
      PROVE  PairMapped(Pairs[First(PairHits(c, l))], l) \in CodePoint
  <2>1. PairHits(c, l) \in SUBSET Nat
    BY TablesOK DEF PairHits, PairsOK
  <2>2. First(PairHits(c, l)) \in DOMAIN Pairs
    BY <1>2, <2>1, FirstExists DEF PairHits
  <2>3. Pairs[First(PairHits(c, l))] \in CodePoint \X CodePoint
    BY <2>2, TablesOK DEF PairsOK
  <2> QED BY <2>3 DEF PairMapped
<1> QED BY <1>1, <1>2, TablesOK DEF Answer

-----------------------------------------------------------------------------
(* An if statement of the unrolled search does what an iteration of the    *)
(* loop does: there is no digraph exception to leave out, and going on to  *)
(* the last entry finds nothing the early exit would miss.                 *)
LEMMA UnrolledSearch ==
    ASSUME IInv, Unrolled
    PROVE  /\ pc = "casemapsl" /\ wc \in Inputs
           /\ Hits(Case, wc, lower) = {}
           /\ UNCHANGED <<wc, lower, locale>>
           /\ \/ /\ pc' = "return" /\ i' = i
                 /\ result' = Answer(wc, lower) /\ result' \in CodePoint
              \/ /\ pc' = "pairs" /\ i' = 1 /\ result' = result
                 /\ Hits(CaseL, wc, lower) = {}
              \/ /\ pc' = pc /\ i' = i + 1 /\ result' = result
                 /\ \A k \in DOMAIN CaseL : k < i' => ~Covers(CaseL[k], wc, lower)
<1>1. /\ pc = "casemapsl" /\ wc \in Inputs
      /\ Hits(Case, wc, lower) = {}
      /\ UNCHANGED <<wc, lower, locale>>
      /\ \A k \in DOMAIN CaseL : k < i => ~Covers(CaseL[k], wc, lower)
  BY DEF IInv, Unrolled, Passed
<1>2. wc \in CodePoint /\ lower \in {0, 1} /\ i \in Nat \ {0}
  BY DEF IInv, TypeOK, CallType
<1>3. /\ DOMAIN CaseL = 1 .. Len(CaseL) /\ Len(CaseL) \in Nat
      /\ CaseL \in Seq([upper : Nat, lower : Int, len : Nat])
  BY TablesOK DEF TableOK
<1>4. CASE i <= Len(CaseL) /\ Covers(CaseL[i], wc, lower)
  <2>1. i \in DOMAIN CaseL
    BY <1>2, <1>3, <1>4
  <2>2. /\ pc' = "return" /\ i' = i
        /\ result' = MappedNoDigraph(CaseL, CaseL[i], wc, lower)
    BY <1>4 DEF Unrolled, Answered
  <2>3. result' = Mapped(CaseL, CaseL[i], wc, lower)
    BY <2>2, UnrollOK DEF MappedNoDigraph, Mapped, DigraphFixed
  <2>4. /\ Hits(CaseL, wc, lower) # {}
        /\ result' = FromTable(CaseL, wc, lower)
    BY <1>1, <1>3, <1>4, <2>1, <2>3, FirstHit
  <2>5. result' = Answer(wc, lower)
    BY <1>1, <2>4 DEF Answer
  <2> QED BY <1>1, <1>2, <2>2, <2>5, AnswerType
<1>5. CASE ~(i <= Len(CaseL) /\ Covers(CaseL[i], wc, lower)) /\ i >= Len(CaseL)
  <2>1. pc' = "pairs" /\ i' = 1 /\ result' = result
    BY <1>5 DEF Unrolled
  <2>2. \A k \in DOMAIN CaseL : ~Covers(CaseL[k], wc, lower)
    <3>1. SUFFICES ASSUME NEW k \in DOMAIN CaseL, Covers(CaseL[k], wc, lower)
                   PROVE  FALSE
      OBVIOUS
    <3>2. ~(k < i)
      BY <1>1, <3>1
    <3>3. k = i /\ i <= Len(CaseL)
      BY <1>2, <1>3, <1>5, <3>2
    <3> QED BY <1>5, <3>1, <3>3
  <2> QED BY <1>1, <2>1, <2>2 DEF Hits
<1>6. CASE ~(i <= Len(CaseL) /\ Covers(CaseL[i], wc, lower)) /\ ~(i >= Len(CaseL))
  <2>1. pc' = pc /\ i' = i + 1 /\ result' = result
    BY <1>6 DEF Unrolled
  <2>2. \A k \in DOMAIN CaseL : k < i + 1 => ~Covers(CaseL[k], wc, lower)
    <3>1. SUFFICES ASSUME NEW k \in DOMAIN CaseL, k < i + 1,
                          Covers(CaseL[k], wc, lower)
                   PROVE  FALSE
      OBVIOUS
    <3>2. ~(k < i)
      BY <1>1, <3>1
    <3>3. k = i /\ i <= Len(CaseL)
      BY <1>2, <1>3, <1>6, <3>1, <3>2
    <3> QED BY <1>6, <3>1, <3>3
  <2> QED BY <1>1, <2>1, <2>2
<1> QED BY <1>4, <1>5, <1>6

(* A number that fits a field is stored as it is. *)
LEMMA Fits ==
    ASSUME NEW n \in Nat \ {0}, NEW x \in 0 .. n - 1
    PROVE  x % n = x
<1> DEFINE d == x \div n
           m == x % n
<1>1. d \in Int /\ m \in 0 .. n - 1 /\ x = n * d + m
  OBVIOUS
<1> HIDE DEF d, m
<1>2. d < 1
  <2> SUFFICES ASSUME d >= 1 PROVE FALSE
    BY <1>1
  <2>1. n * d >= n
    BY <1>1
  <2> QED BY <1>1, <2>1
<1>3. d > -1
  <2> SUFFICES ASSUME d <= -1 PROVE FALSE
    BY <1>1
  <2>1. n * d <= -n
    BY <1>1
  <2> QED BY <1>1, <2>1
<1>4. d = 0
  BY <1>1, <1>2, <1>3
<1>5. m = x
  BY <1>1, <1>4
<1> QED BY <1>5 DEF m

(* An entry of a table is what its entries are.                            *)
LEMMA ElementOf ==
    ASSUME NEW S, NEW s \in Seq(S), NEW k \in DOMAIN s
    PROVE  s[k] \in S
OBVIOUS

(* The bit-fields of an entry give its numbers back. *)
LEMMA ReadStored ==
    ASSUME NEW k \in DOMAIN Case
    PROVE  /\ Read(Stored(Case[k])) = Case[k]
           /\ Stored(Case[k]).upper = Case[k].upper
           /\ Low(Stored(Case[k])) = Case[k].lower
           /\ Stored(Case[k]).lower = 1 <=> IsLace(Case[k])
<1> DEFINE e == Case[k]
           abs == IF e.lower < 0 THEN -e.lower ELSE e.lower
           s == Stored(e)
<1>1. /\ e \in [upper : Nat, lower : Int, len : Nat]
      /\ e.upper \in Nat /\ e.lower \in Int /\ e.len \in Nat
  <2>1. Case \in Seq([upper : Nat, lower : Int, len : Nat])
    BY TablesOK DEF TableOK
  <2>2. e \in [upper : Nat, lower : Int, len : Nat]
    BY <2>1, ElementOf
  <2> QED BY <2>2
<1>2. /\ Fields["upper"] \in Nat \ {0} /\ Fields["lower"] \in Nat \ {0}
      /\ Fields["len"] \in Nat \ {0}
      /\ e.upper < Fields["upper"] /\ e.len < Fields["len"]
      /\ 2 * e.lower < Fields["lower"] /\ -2 * e.lower < Fields["lower"]
      /\ e.lower # -1
  BY FieldsOK
<1> HIDE DEF e
<1>3. e.upper % Fields["upper"] = e.upper
  BY <1>1, <1>2, Fits
<1>4. e.len % Fields["len"] = e.len
  BY <1>1, <1>2, Fits
<1>5. abs % Fields["lower"] = abs
  <2>1. abs \in 0 .. Fields["lower"] - 1
    BY <1>1, <1>2
  <2> QED BY <1>2, <2>1, Fits
<1>6. /\ s.upper = e.upper /\ s.lower = abs /\ s.len = e.len
      /\ s.sign = IF e.lower < 0 THEN 1 ELSE 0
  BY <1>3, <1>4, <1>5 DEF Stored
<1>7. Low(s) = e.lower
  BY <1>1, <1>6 DEF Low
<1>8. Read(s) = e
  <2>1. Read(s) = [upper |-> e.upper, lower |-> e.lower, len |-> e.len]
    BY <1>6, <1>7 DEF Read
  <2> QED BY <1>1, <2>1
<1>9. s.lower = 1 <=> IsLace(e)
  BY <1>1, <1>2, <1>6 DEF IsLace
<1> QED BY <1>6, <1>7, <1>8, <1>9 DEF e

(* A search of packed entries does what the search of the others does.     *)
LEMMA PackedSearch == IInv /\ SearchPacked => SearchCase
<1> SUFFICES ASSUME IInv, SearchPacked
             PROVE  SearchCase
  OBVIOUS
<1>1. /\ i \in Nat \ {0} /\ DOMAIN Case = 1 .. Len(Case) /\ Len(Case) \in Nat
  BY TablesOK DEF IInv, TypeOK, TableOK
<1>2. CASE i > Len(Case)
  BY <1>1, <1>2 DEF SearchPacked, SearchCase, SearchTable, Beyond
<1>3. CASE i <= Len(Case)
  <2>1. i \in DOMAIN Case
    BY <1>1, <1>3
  <2>2. /\ Read(Stored(Case[i])) = Case[i]
        /\ Stored(Case[i]).upper = Case[i].upper
        /\ MappedStored(Stored(Case[i])) = Mapped(Case, Case[i], wc, lower)
    BY <2>1, ReadStored DEF MappedStored, Mapped
  <2> QED BY <1>1, <1>3, <2>2 DEF SearchPacked, SearchCase, SearchTable, Beyond
<1> QED BY <1>1, <1>2, <1>3

-----------------------------------------------------------------------------
(* The invariant of the lookup holds of the programs, too; the header they *)
(* include and the way they call it stay the same, and a wrapper lets no   *)
(* ASCII reach the test for the locale.                                    *)
TInv ==
    /\ IInv
    /\ wrapped \in BOOLEAN
    /\ pc = "turkish" => ~LeftToCLibrary

LEMMA TInitInv == TInit => TInv
BY InitInv DEF TInit, TInv, Init, CallInit

(* What the C library returns is what the tables say of ASCII.             *)
LEMMA CLibraryInv == IInv /\ CLibrary => IInv'
<1> SUFFICES ASSUME IInv, CLibrary
             PROVE  IInv'
  OBVIOUS
<1>1. /\ pc = "excl" /\ pc' = "return" /\ result' = Answer(wc, lower)
      /\ UNCHANGED <<wc, lower, locale, i>>
  BY DEF CLibrary, Answered
<1>2. wc \in Inputs /\ TypeOK
  BY <1>1 DEF IInv
<1>3. result' \in CodePoint
  BY <1>1, <1>2, AnswerType DEF TypeOK, CallType
<1> QED BY <1>1, <1>2, <1>3 DEF IInv, TypeOK, CallType, Passed, ReturnsAnswer

(* What iswalpha() or an exclusion range turns away has no entry and is no *)
(* Turkish letter.                                                         *)
LEMMA NoLetterAnswer ==
    ASSUME NEW c \in Inputs, NoLetter(c), NEW l \in {0, 1}
    PROVE  Answer(c, l) = c /\ Turkish(c, l) = {}
<1>1. CASE c \notin Alphas
  <2>1. Answer(c, l) = c
    BY <1>1, AlphaOK DEF Answer
  <2> QED BY <1>1, <2>1, AlphaOK DEF Turkish, PairMatches
<1>2. CASE c \in Alphas
  <2>1. Excluded(c)
    BY <1>2 DEF NoLetter, Excluded
  <2>2. Answer(c, l) = c
    BY <2>1, ExcludedAnswer
  <2> QED BY <2>1, <2>2, LocaleOK DEF Turkish, PairMatches
<1> QED BY <1>1, <1>2

(* Past iswalpha() as past the exclusion ranges the invariant holds.       *)
LEMMA EnterAlphaInv == IInv /\ EnterAlpha => IInv'
<1> SUFFICES ASSUME IInv, EnterAlpha
             PROVE  IInv'
  OBVIOUS
<1>1. /\ pc = "excl" /\ wc \in Inputs /\ TypeOK
      /\ UNCHANGED <<wc, lower, locale, i>>
  BY DEF IInv, EnterAlpha
<1>2. CASE NoLetter(wc)
  <2>1. pc' = "return" /\ result' = wc /\ Answer(wc, lower) = wc
    BY <1>1, <1>2, NoLetterAnswer DEF EnterAlpha, Answered, TypeOK, CallType
  <2> QED BY <1>1, <2>1 DEF IInv, TypeOK, CallType, Passed, ReturnsAnswer
<1>3. CASE ~NoLetter(wc)
  BY <1>1, <1>3 DEF EnterAlpha, IInv, TypeOK, CallType, Passed, ReturnsAnswer
<1> QED BY <1>2, <1>3

LEMMA UnrolledInv == IInv /\ Unrolled => IInv'
<1> SUFFICES ASSUME IInv, Unrolled
             PROVE  IInv'
  OBVIOUS
<1>1. \A k \in DOMAIN Pairs : k < 1 => ~PairMatches(Pairs[k], wc, lower)
  BY TablesOK DEF PairsOK
<1>2. Passed'
  BY <1>1, UnrolledSearch DEF Passed
<1> QED BY <1>2, UnrolledSearch DEF IInv, TypeOK, CallType, ReturnsAnswer

LEMMA TStepInv == TInv /\ [TNext]_tvars => TInv'
<1> SUFFICES ASSUME TInv, [TNext]_tvars
             PROVE  TInv'
  OBVIOUS
<1>1. IInv /\ UNCHANGED <<wrapped, unrolled, packed, alpha>>
  BY DEF TInv, TNext, TStep, tvars, program
<1>2. [Next]_vars \/ CLibrary \/ Unrolled \/ EnterAlpha
  BY <1>1, PackedSearch
     DEF TNext, TStep, tvars, Next, Step, EnterTowcase, SearchShort, SearchLong
<1>3. IInv'
  BY <1>1, <1>2, StepInv, CLibraryInv, UnrolledInv, EnterAlphaInv
<1>4. (pc = "turkish" => ~LeftToCLibrary)'
  <2>1. CASE EnterTowcase
    BY <1>1, <2>1
       DEF EnterTowcase, EnterAlpha, Enter, Exclude, LeftToCLibrary
  <2>2. CASE UNCHANGED <<pc, wc>>
    BY <1>1, <2>2 DEF TInv, LeftToCLibrary
  <2>3. CASE pc' # "turkish"
    BY <2>3
  <2>4. \/ EnterTowcase \/ UNCHANGED <<pc, wc>> \/ pc' # "turkish"
    BY DEF TNext, TStep, tvars, vars, Call, CallWith, CLibrary, Answered, Begin,
           LocaleTr, SearchShort, SearchPacked, SearchCase, SearchLong,
           SearchCaseL, SearchTable, Unrolled, SearchPairs, Return, SetLocale
  <2> QED BY <2>1, <2>2, <2>3, <2>4
<1> QED BY <1>1, <1>3, <1>4 DEF TInv

(* TypeOK for all tables, called and compiled in any way.                  *)
THEOREM TTypeCorrect == TSpec => []TypeOK
<1>1. TInv => TypeOK
  BY DEF TInv, IInv
<1> QED BY TInitInv, TStepInv, <1>1, PTL DEF TSpec

(* ReturnsAnswer for all tables: neither the wrappers nor an unrolled      *)
(* search change what the tables answer.                                   *)
THEOREM TAnswerCorrect == TSpec => []ReturnsAnswer
<1>1. TInv => ReturnsAnswer
  BY DEF TInv, IInv
<1> QED BY TInitInv, TStepInv, <1>1, PTL DEF TSpec
-----------------------------------------------------------------------------
(* The refinement.  The C library decides a question by answering it; any  *)
(* other step does what it does for the lookup alone.                      *)

LEMMA TRefinesInit == TInit => Wrapped!Init
BY DEF TInit, Init, CallInit, Wrapped!Init, Undecided

(* The answer that the search will find is settled by the step that reads  *)
(* the locale, or that leaves the exclusion test for the caller.           *)
LEMMA TRefinesStep == TInv /\ [TNext]_tvars => [Wrapped!Next]_Wrapped!vars
<1> SUFFICES ASSUME TInv, [TNext]_tvars
             PROVE  [Wrapped!Next]_Wrapped!vars
  OBVIOUS
<1> USE DEF Undecided
<1>1. IInv /\ UNCHANGED <<wrapped, unrolled, packed, alpha>> /\ wrapped \in BOOLEAN
  BY DEF TInv, TNext, TStep, tvars, program
<1>2. CASE Call /\ UNCHANGED i
  <2>1. PICK c \in Inputs, l \in {0, 1} : CallWith(c, l)
    BY <1>2 DEF Call
  <2>2. Wrapped!Ask
    BY <1>1, <2>1 DEF CallWith, Wrapped!Ask
  <2> QED BY <2>2 DEF Wrapped!Next
<1>3. CASE CLibrary
  <2>1. Wrapped!Decide
    BY <1>1, <1>3 DEF CLibrary, LeftToCLibrary, Answered, Wrapped!Decide
  <2> QED BY <2>1 DEF Wrapped!Next
<1>4. CASE EnterTowcase
  <2>1. wc \in Inputs /\ lower \in {0, 1} /\ ~(wrapped /\ wc < Ascii)
    BY <1>1, <1>4
       DEF IInv, TypeOK, CallType, EnterTowcase, EnterAlpha, LeftToCLibrary,
           Enter, Exclude
  <2> DEFINE away == IF alpha THEN NoLetter(wc) ELSE Excluded(wc)
  <2>2. CASE away
    <3>1. Answer(wc, lower) = wc /\ Turkish(wc, lower) = {}
      BY <2>1, <2>2, LocaleOK, ExcludedAnswer, NoLetterAnswer
         DEF Turkish, PairMatches
    <3>2. Lookup(wc, lower, locale) = wc
      BY <3>1 DEF Lookup
    <3>3. /\ pc = "excl" /\ pc' = "return" /\ result' = wc
          /\ UNCHANGED <<wc, lower, locale>>
      BY <1>4, <2>2
         DEF EnterTowcase, EnterAlpha, Enter, Exclude, Answered
    <3>4. Wrapped!Decide
      BY <1>1, <2>1, <3>2, <3>3 DEF Wrapped!Decide
    <3> QED BY <3>4 DEF Wrapped!Next
  <2>3. CASE ~away
    <3>1. /\ pc = "excl" /\ pc' = "turkish"
          /\ UNCHANGED <<wc, lower, locale, result>>
      BY <1>4, <2>3 DEF EnterTowcase, EnterAlpha, Enter, Exclude
    <3> QED BY <1>1, <3>1 DEF Wrapped!vars
  <2> QED BY <2>2, <2>3
<1>5. CASE Begin
  <2>1. pc = "turkish" /\ ~(wrapped /\ wc < Ascii)
    BY <1>5 DEF TInv, LeftToCLibrary, Begin, LocaleTr
  <2>2. CASE HaveLocaleTr /\ Turkish(wc, lower) # {} /\ locale \in TurkicLocales
    <3>1. Wrapped!Decide
      BY <1>1, <1>5, <2>1, <2>2
         DEF Begin, LocaleTr, Answered, Lookup, Wrapped!Decide
    <3> QED BY <3>1 DEF Wrapped!Next
  <2>3. CASE ~(HaveLocaleTr /\ Turkish(wc, lower) # {} /\ locale \in TurkicLocales)
    <3>1. Lookup(wc, lower, locale) = Answer(wc, lower)
      BY <2>3 DEF Lookup
    <3>2. Wrapped!Decide
      BY <1>1, <1>5, <2>1, <2>3, <3>1 DEF Begin, LocaleTr, Wrapped!Decide
    <3> QED BY <3>2 DEF Wrapped!Next
  <2> QED BY <2>2, <2>3
<1>6. CASE SearchCase \/ SearchCaseL \/ Unrolled \/ SearchPairs
  <2>1. /\ pc \in {"casemaps", "casemapsl", "pairs"}
        /\ pc' \in {"casemaps", "casemapsl", "pairs", "return"}
        /\ pc' = "return" => result' = Answer(wc, lower)
        /\ UNCHANGED <<wc, lower, locale>>
    BY <1>1, <1>6, CaseSearch, CaseLSearch, PairSearch, UnrolledSearch
  <2> QED BY <1>1, <2>1 DEF Wrapped!vars
<1>7. CASE Return /\ i' = 1
  <2>1. Wrapped!Take
    BY <1>1, <1>7 DEF Return, Wrapped!Take
  <2> QED BY <2>1 DEF Wrapped!Next
<1>8. CASE SetLocale /\ UNCHANGED i
  <2>1. Wrapped!SetLocale
    BY <1>1, <1>8 DEF SetLocale, Wrapped!SetLocale
  <2> QED BY <2>1 DEF Wrapped!Next
<1>9. CASE UNCHANGED tvars
  BY <1>9 DEF tvars, vars, program, Wrapped!vars
<1> QED BY <1>1, <1>2, <1>3, <1>4, <1>5, <1>6, <1>7, <1>8, <1>9, PackedSearch
        DEF TNext, TStep, SearchShort, SearchLong

(* The safety part of ImplementsWrapped for all tables.                    *)
THEOREM WrappedRefinement == TSpec => Wrapped!Safety
BY TInitInv, TStepInv, TRefinesInit, TRefinesStep, PTL
   DEF TSpec, Wrapped!Safety
=============================================================================
