---------------------------- MODULE Caller_proofs ----------------------------
(***************************************************************************)
(* Proofs about programs that use both headers, for all tables and inputs  *)
(* that satisfy the assumptions of Caller.                                 *)
(***************************************************************************)
EXTENDS Caller, TowcaseBsearch_proofs, Towfc_proofs

(* What the program may come to from c. *)
Outcomes(op, c) == IF op = Fold THEN UnitsOf(c) ELSE {Answer(c, op)}

Askable(op) == IF op = Fold THEN FoldInputs ELSE Inputs

(* Every value but the first is the answer to the one before it, and the   *)
(* part of the plan that is left can be asked about it.                    *)
Chain ==
    /\ plan \in Plans
    /\ values \in Seq(Inputs) /\ Len(values) \in 1 .. Len(plan) + 1
    /\ values[1] \in Askable(plan[1])
    /\ ~Finished => Latest \in Askable(Operation)
    /\ \A n \in 1 .. Len(values) - 1 :
          values[n + 1] \in Outcomes(plan[n], values[n])

(* One of the two headers is called at a time, about the latest value, and *)
(* towfc() is not stopped by its arguments.                                *)
Calls ==
    /\ pc # "idle" => /\ ~Finished /\ Operation # Fold
                      /\ wc = Latest /\ lower = Operation
    /\ fpc # "idle" => ~Finished /\ Operation = Fold /\ src = Latest
    /\ wide = TRUE
    /\ fpc \in Answering => null = FALSE /\ dmax \in MinDmax .. MaxDmax
    /\ fpc = "done" => ret \notin {-2, -3, -4}

CInv == BInv /\ FInv /\ FoldsExactly /\ Chain /\ Calls

-----------------------------------------------------------------------------
(* The plans are short, and what follows a mapping is a mapping.           *)
LEMMA PlansAre ==
    ASSUME NEW p \in Plans
    PROVE  /\ Len(p) \in 2 .. 4 /\ \A n \in 1 .. Len(p) : p[n] \in {0, 1, Fold}
           /\ \A n \in 1 .. Len(p) - 1 : p[n] # Fold => p[n + 1] # Fold
BY DEF Plans, Fold

(* The answers of _towcase() can be asked about again.                     *)
LEMMA AnswersAskable ==
    ASSUME NEW c \in Inputs, NEW l \in {0, 1}
    PROVE  Answer(c, l) \in Inputs
BY ProgramOK DEF Uppercase, Lowercase

(* Whatever a value leads to can be asked about next.                      *)
LEMMA OutcomeAskable ==
    ASSUME NEW p \in Plans, NEW n \in 1 .. Len(p), NEW c \in Askable(p[n]),
           NEW v \in Outcomes(p[n], c)
    PROVE  /\ v \in Inputs
           /\ n + 1 <= Len(p) => v \in Askable(p[n + 1])
<1>1. CASE p[n] = Fold
  <2>1. v \in FoldInputs /\ FoldInputs \subseteq Inputs
    BY <1>1, ProgramOK DEF Outcomes, Askable
  <2> QED BY <2>1 DEF Askable
<1>2. CASE p[n] # Fold
  <2>1. p[n] \in {0, 1} /\ (n + 1 <= Len(p) => p[n + 1] # Fold)
    BY <1>2, PlansAre
  <2>2. v \in Inputs
    BY <1>2, <2>1, AnswersAskable DEF Outcomes, Askable
  <2> QED BY <2>1, <2>2 DEF Askable
<1> QED BY <1>1, <1>2

(* A program that takes a result goes on with its chain.                   *)
LEMMA TakeChain ==
    ASSUME Chain, ~Finished, NEW v \in Outcomes(Operation, Latest),
           values' = Append(values, v), plan' = plan
    PROVE  Chain'
<1> DEFINE n == Len(values)
<1>1. /\ n \in 1 .. Len(plan) /\ plan \in Plans /\ values \in Seq(Inputs)
      /\ Len(plan) \in Nat /\ n \in Nat
  BY PlansAre DEF Chain, Finished
<1>2. Latest \in Askable(plan[n]) /\ v \in Outcomes(plan[n], Latest)
  BY DEF Chain, Operation
<1>3. v \in Inputs /\ (n + 1 <= Len(plan) => v \in Askable(plan[n + 1]))
  BY <1>1, <1>2, OutcomeAskable
<1>4. /\ values' \in Seq(Inputs) /\ Len(values') = n + 1
      /\ values'[n + 1] = v /\ \A k \in 1 .. n : values'[k] = values[k]
  BY <1>1, <1>3
<1>5. ~Finished' => Latest' \in Askable(Operation')
  BY <1>1, <1>3, <1>4 DEF Finished, Latest, Operation
<1>6. ASSUME NEW k \in 1 .. Len(values') - 1
      PROVE  values'[k + 1] \in Outcomes(plan[k], values'[k])
  <2>1. CASE k = n
    BY <1>1, <1>2, <1>4, <2>1 DEF Latest
  <2>2. CASE k < n
    BY <1>1, <1>4, <2>2 DEF Chain
  <2> QED BY <1>1, <1>4, <2>1, <2>2
<1>7. values'[1] \in Askable(plan'[1])
  BY <1>1, <1>4 DEF Chain
<1> QED BY <1>1, <1>4, <1>5, <1>6, <1>7 DEF Chain

-----------------------------------------------------------------------------
(* To the lookup the program is a caller like any other.                   *)
LEMMA LookupSteps == ASSUME CInv, [CNext]_cvars PROVE [BNext]_bvars
<1>1. CASE CallCase
  <2>1. Latest \in Inputs /\ Operation \in {0, 1}
    <3>1. plan \in Plans /\ Len(values) \in 1 .. Len(plan)
          /\ Latest \in Inputs
      BY <1>1, PlansAre
         DEF CallCase, CInv, Chain, Finished, Askable
    <3>2. Operation \in {0, 1}
      BY <1>1, <3>1, PlansAre DEF CallCase, Operation
    <3> QED BY <3>1, <3>2
  <2>2. Call /\ UNCHANGED <<i, lo, hi, best>> /\ UNCHANGED header
    BY <1>1, <2>1 DEF CallCase, Call, CallWith
  <2> QED BY <2>2 DEF BNext, BEnvironment
<1>2. CASE TakeCase
  BY <1>2 DEF TakeCase, BNext, BEnvironment
<1>3. CASE BStep /\ UNCHANGED <<fvars, plan, values>>
  BY <1>3 DEF BNext
<1>4. CASE CallFold \/ (FStep /\ UNCHANGED <<bvars, plan, values>>) \/ TakeFold
  BY <1>4 DEF CallFold, TakeFold
<1>5. CASE UNCHANGED cvars
  BY <1>5 DEF cvars
<1> QED BY <1>1, <1>2, <1>3, <1>4, <1>5 DEF CNext

(* To iswfc() and towfc(), too. *)
LEMMA FoldingSteps == ASSUME CInv, [CNext]_cvars PROVE [FNext]_fvars
<1>1. CASE CallFold
  <2>1. Latest \in FoldInputs
    BY <1>1 DEF CallFold, CInv, Chain, Askable
  <2> QED BY <1>1, <2>1 DEF CallFold, FNext, CallIswfc
<1>2. CASE TakeFold
  BY <1>2 DEF TakeFold, FNext
<1>3. CASE FStep /\ UNCHANGED <<bvars, plan, values>>
  BY <1>3 DEF FNext
<1>4. CASE CallCase \/ (BStep /\ UNCHANGED <<fvars, plan, values>>) \/ TakeCase
  BY <1>4 DEF CallCase, TakeCase
<1>5. CASE UNCHANGED cvars
  BY <1>5 DEF cvars
<1> QED BY <1>1, <1>2, <1>3, <1>4, <1>5 DEF CNext

(* A call of towfc() with these arguments ends with a folding.             *)
LEMMA FoldsOn ==
    ASSUME FStep, fpc \in Answering => null = FALSE /\ dmax \in MinDmax .. MaxDmax
    PROVE  /\ fpc # "idle" /\ fpc' # "idle" /\ UNCHANGED <<wide, src, null, dmax>>
           /\ fpc' \in Answering => fpc \in Answering
           /\ fpc' = "done" => ret' \notin {-2, -3, -4}
<1> USE DEF Answering, args, Finish
<1>1. CASE IswTbl2 \/ IswTbl3 \/ Iswupper
  BY <1>1 DEF IswTbl2, IswTbl3, Iswupper, ScanTable, Counted
<1>2. CASE Guard
  <2>1. MinDmax \in Nat /\ MaxDmax \in Nat
    BY UnitsOK
  <2>2. ~null /\ ~(dmax < MinDmax) /\ ~(dmax > MaxDmax)
    BY <1>2, <2>1 DEF Guard
  <2> QED BY <1>2, <2>2 DEF Guard
<1>3. CASE FoldAscii
  BY <1>3 DEF FoldAscii, Replaced
<1>4. CASE FoldTbl2 \/ FoldTbl3
  BY <1>4 DEF FoldTbl2, FoldTbl3, ScanTable
<1>5. CASE FoldException
  <2>1. /\ fpc = "single" /\ UNCHANGED <<wide, src, null, dmax>>
        /\ fpc' = "lower" \/ (fpc' = "done" /\ ret' = 1)
    BY <1>5, Zenon DEF FoldException
  <2> QED BY <2>1
<1>6. CASE FoldLower
  <2>1. \A c : Len(Units(c)) \in Nat
    BY DEF Units
  <2>2. ret' \in {-1, 1, 2}
    BY <1>6 DEF FoldLower, Replaced
  <2> QED BY <1>6, <2>2 DEF FoldLower
<1> QED BY <1>1, <1>2, <1>3, <1>4, <1>5, <1>6 DEF FStep

(* The chain of values grows by what a call returned.                      *)
LEMMA ChainStep == ASSUME CInv, [CNext]_cvars PROVE Chain'
<1>1. CASE TakeCase
  <2>1. pc = "return" /\ values' = Append(values, result) /\ plan' = plan
    BY <1>1 DEF TakeCase, Return
  <2>2. ~Finished /\ Operation # Fold /\ wc = Latest /\ lower = Operation
    BY <2>1 DEF CInv, Calls
  <2>3. result = Answer(wc, lower)
    BY <2>1, ProgramOK DEF CInv, BInv, ReturnsAnswer
  <2>4. result \in Outcomes(Operation, Latest)
    BY <2>2, <2>3 DEF Outcomes
  <2> QED BY <2>1, <2>2, <2>4, TakeChain DEF CInv
<1>2. CASE TakeFold
  <2>1. fpc = "done" /\ plan' = plan
    BY <1>2 DEF TakeFold, Take
  <2>2. ~Finished /\ Operation = Fold /\ src = Latest /\ wide /\ Folded
    BY <2>1 DEF CInv, Calls, Folded
  <2>3. Folds(src) = Text
    BY <2>2 DEF CInv, FoldsExactly
  <2>4. PICK k \in DOMAIN Text : values' = Append(values, Text[k])
    BY <1>2 DEF TakeFold
  <2>5. Text[k] \in Outcomes(Operation, Latest)
    BY <2>2, <2>3, <2>4 DEF Outcomes, UnitsOf
  <2> QED BY <2>1, <2>2, <2>4, <2>5, TakeChain DEF CInv
<1>3. CASE UNCHANGED <<plan, values>>
  BY <1>3 DEF CInv, Chain, Finished, Latest, Operation
<1> QED BY <1>1, <1>2, <1>3
        DEF CNext, CallCase, CallFold, cvars

(* A call is about the latest value as long as it lasts.                   *)
LEMMA CallsStep == ASSUME CInv, [CNext]_cvars PROVE Calls'
<1> USE DEF Finished, Latest, Operation
<1>1. CASE CallCase
  <2>1. fpc = "idle" /\ wide = TRUE
    BY <1>1 DEF CallCase, CInv, Calls
  <2> QED BY <1>1, <2>1 DEF CallCase, CallWith, Calls, fvars, Answering
<1>2. CASE CallFold
  <2>1. pc = "idle" /\ wide = TRUE
    BY <1>2 DEF CallFold, CInv, Calls
  <2>2. CASE CallIswfcWith(Latest)
    BY <1>2, <2>1, <2>2
       DEF CallFold, CallIswfcWith, Calls, bvars, Answering
  <2>3. CASE CallTowfc /\ ~null'
    <3>1. dmax' \in MinDmax .. MaxDmax /\ null' = FALSE
      BY <2>3, ProgramOK DEF CallTowfc
    <3>2. fpc # "idle" /\ fpc' = "guard" /\ src' = src /\ wide' = wide
      BY <2>3 DEF CallTowfc
    <3> QED BY <1>2, <2>1, <3>1, <3>2 DEF CallFold, CInv, Calls, bvars
  <2> QED BY <1>2, <2>2, <2>3 DEF CallFold
<1>3. CASE BStep /\ UNCHANGED <<fvars, plan, values>>
  <2>1. pc # "idle" /\ UNCHANGED <<wc, lower>>
    BY <1>3 DEF BStep, Enter, Exclude, SearchCase, SearchCaseL, SearchTable,
       SearchPairs, BBegin, Begin, LocaleTr, BisectCase, BisectCaseL,
       BisectTable, BisectPairs, WalkToFirst, WalkDown, WalkUp
  <2> QED BY <1>3, <2>1 DEF CInv, Calls, fvars
<1>4. CASE FStep /\ UNCHANGED <<bvars, plan, values>>
  <2>1. /\ fpc # "idle" /\ fpc' # "idle" /\ UNCHANGED <<wide, src, null, dmax>>
        /\ fpc' \in Answering => fpc \in Answering
        /\ fpc' = "done" => ret' \notin {-2, -3, -4}
    BY <1>4, FoldsOn DEF CInv, Calls
  <2> QED BY <1>4, <2>1 DEF CInv, Calls, bvars
<1>5. CASE TakeCase
  <2>1. fpc = "idle" /\ fpc' = "idle" /\ pc' = "idle" /\ wide' = TRUE
    BY <1>5 DEF TakeCase, Return, CInv, Calls, fvars
  <2> QED BY <2>1 DEF Calls, Answering
<1>6. CASE TakeFold
  <2>1. pc = "idle" /\ pc' = "idle" /\ fpc' = "idle" /\ wide' = TRUE
    BY <1>6 DEF TakeFold, Take, CInv, Calls, bvars
  <2> QED BY <2>1 DEF Calls, Answering
<1>7. CASE UNCHANGED cvars
  BY <1>7 DEF cvars, bvars, fvars, CInv, Calls
<1> QED BY <1>1, <1>2, <1>3, <1>4, <1>5, <1>6, <1>7 DEF CNext

(* The invariant holds at the start. *)
LEMMA CInitInv == CInit => CInv
<1> SUFFICES ASSUME CInit PROVE CInv
  OBVIOUS
<1>1. BInv /\ FInv
  BY BInitInv, FInvInit DEF CInit
<1>2. pc = "idle" /\ fpc = "idle" /\ wide = TRUE
  BY ProgramOK DEF CInit, BInit, Init, CallInit, FInit
<1>3. FoldsExactly /\ Calls
  BY <1>2 DEF FoldsExactly, Folded, Calls, Answering
<1>4. PICK c \in Askable(plan[1]) : values = <<c>>
  BY DEF CInit, Askable
<1>5. c \in Inputs /\ plan \in Plans /\ Len(plan) \in 2 .. 4
  BY <1>4, ProgramOK, PlansAre DEF CInit, Askable
<1>6. Chain
  BY <1>4, <1>5 DEF Chain, Finished, Latest, Operation
<1> QED BY <1>1, <1>3, <1>6 DEF CInv

(* Every step of the program and of the headers keeps it.                  *)
LEMMA CStepInv == CInv /\ [CNext]_cvars => CInv'
<1> SUFFICES ASSUME CInv, [CNext]_cvars PROVE CInv'
  OBVIOUS
<1>1. [BNext]_bvars /\ [FNext]_fvars
  BY LookupSteps, FoldingSteps
<1>2. BInv' /\ FInv'
  BY <1>1, BStepInv, FInvNext DEF CInv
<1>3. FoldsExactly'
  BY <1>1, FoldsStep, FoldingsSettle DEF CInv
<1>4. Chain' /\ Calls'
  BY ChainStep, CallsStep
<1> QED BY <1>2, <1>3, <1>4 DEF CInv

-----------------------------------------------------------------------------
(* A letter without an entry folds to its lowercase.                       *)
LEMMA PlainFolding ==
    ASSUME NEW c \in Inputs, ~HasEntry(c)
    PROVE  Folds(c) = <<Lowercase[c]>> /\ UnitsOf(c) = {Lowercase[c]}
<1>1. FoldingFromTables(c) = {<<Lowered(c)>>}
  BY InputsOK, WordOK, UnitsOK DEF CodePoint, HasEntry, FoldingFromTables
<1>2. Folds(c) = <<Lowercase[c]>>
  BY <1>1, FoldingsSettle, ProgramOK
<1> QED BY <1>2 DEF UnitsOf

(* What a letter folds to is its own folding and its own lowercase.        *)
LEMMA FoldSettles ==
    ASSUME NEW c \in FoldInputs, c \notin Exchanged, NEW f \in UnitsOf(c)
    PROVE  UnitsOf(f) = {f} /\ Answer(f, 1) = f
<1>1. c \in Inputs /\ f \in Inputs
  BY ProgramOK
<1>2. ~HasEntry(f) /\ Lowercase[f] = f
  <2>1. CASE HasEntry(c)
    BY <2>1, FoldingsSettle
  <2>2. CASE ~HasEntry(c)
    <3>1. f = Lowercase[c]
      BY <1>1, <2>2, PlainFolding
    <3>2. ~HasEntry(Lowercase[c])
      BY <2>2, FoldingsSettle
    <3> QED BY <1>1, <3>1, <3>2, MappingsSettle
  <2> QED BY <2>1, <2>2
<1> QED BY <1>1, <1>2, PlainFolding DEF Lowercase

(* The other case of the other case of an answer is the same answer again, *)
(* and an answer is its own answer.                                        *)
LEMMA MapSettles ==
    ASSUME NEW c \in Inputs
    PROVE  /\ Answer(Answer(c, 0), 0) = Answer(c, 0)
           /\ Answer(Answer(c, 1), 1) = Answer(c, 1)
           /\ LET d == Answer(Answer(c, 0), 1)
              IN  Answer(Answer(d, 0), 1) = d
           /\ LET d == Answer(Answer(c, 1), 0)
              IN  Answer(Answer(d, 1), 0) = d
<1>1. \A d \in Inputs : /\ Answer(d, 0) = Uppercase[d] /\ Uppercase[d] \in Inputs
                        /\ Answer(d, 1) = Lowercase[d] /\ Lowercase[d] \in Inputs
  BY ProgramOK DEF Uppercase, Lowercase
<1>2. \A d \in Inputs :
         /\ Uppercase[Uppercase[d]] = Uppercase[d]
         /\ Uppercase[d] # d => Uppercase[Lowercase[Uppercase[d]]] = Uppercase[d]
         /\ Lowercase[Lowercase[d]] = Lowercase[d]
         /\ Lowercase[d] # d => Lowercase[Uppercase[Lowercase[d]]] = Lowercase[d]
  BY MappingsSettle
<1> HIDE DEF Uppercase, Lowercase
<1>3. Lowercase[Uppercase[Lowercase[Uppercase[c]]]] = Lowercase[Uppercase[c]]
  <2> DEFINE u == Uppercase[c]
  <2>1. u \in Inputs /\ Uppercase[u] = u
    BY <1>1, <1>2
  <2>2. CASE Lowercase[u] # u
    BY <1>2, <2>1, <2>2
  <2>3. CASE Lowercase[u] = u
    BY <2>1, <2>3
  <2> QED BY <2>2, <2>3
<1>4. Uppercase[Lowercase[Uppercase[Lowercase[c]]]] = Uppercase[Lowercase[c]]
  <2> DEFINE l == Lowercase[c]
  <2>1. l \in Inputs /\ Lowercase[l] = l
    BY <1>1, <1>2
  <2>2. CASE Uppercase[l] # l
    BY <1>2, <2>1, <2>2
  <2>3. CASE Uppercase[l] = l
    BY <2>1, <2>3
  <2> QED BY <2>2, <2>3
<1> QED BY <1>1, <1>2, <1>3, <1>4

(* The chain of a program that has finished ends as its first half did.    *)
LEMMA ChainSettles == ASSUME Chain PROVE FoldStable
<1> SUFFICES ASSUME Finished, ~(plan[1] = Fold /\ values[1] \in Exchanged)
             PROVE  values[Len(plan) + 1] = values[Len(plan) \div 2 + 1]
  BY DEF FoldStable
<1>1. /\ Len(values) = Len(plan) + 1 /\ Len(plan) \in 2 .. 4 /\ plan \in Plans
      /\ values \in Seq(Inputs)
  BY PlansAre DEF Chain, Finished
<1>2. \A n \in 1 .. Len(plan) : values[n + 1] \in Outcomes(plan[n], values[n])
  BY <1>1 DEF Chain
<1>3. values[1] \in Inputs
  BY <1>1
<1>4. CASE plan \in {<<0, 0>>, <<1, 1>>}
  <2>1. Len(plan) = 2 /\ plan[1] = plan[2] /\ plan[1] \in {0, 1}
    BY <1>4
  <2>2. /\ values[2] = Answer(values[1], plan[1])
        /\ values[3] = Answer(values[2], plan[1])
    BY <1>2, <2>1 DEF Outcomes, Fold
  <2> QED BY <1>3, <2>1, <2>2, MapSettles
<1>5. CASE plan = <<0, 1, 0, 1>>
  <2>1. /\ Len(plan) = 4 /\ plan[1] = 0 /\ plan[2] = 1 /\ plan[3] = 0
        /\ plan[4] = 1
    BY <1>5
  <2>2. /\ values[2] = Answer(values[1], 0) /\ values[3] = Answer(values[2], 1)
        /\ values[4] = Answer(values[3], 0) /\ values[5] = Answer(values[4], 1)
    BY <1>2, <2>1 DEF Outcomes, Fold
  <2> QED BY <1>3, <2>1, <2>2, MapSettles
<1>6. CASE plan = <<1, 0, 1, 0>>
  <2>1. /\ Len(plan) = 4 /\ plan[1] = 1 /\ plan[2] = 0 /\ plan[3] = 1
        /\ plan[4] = 0
    BY <1>6
  <2>2. /\ values[2] = Answer(values[1], 1) /\ values[3] = Answer(values[2], 0)
        /\ values[4] = Answer(values[3], 1) /\ values[5] = Answer(values[4], 0)
    BY <1>2, <2>1 DEF Outcomes, Fold
  <2> QED BY <1>3, <2>1, <2>2, MapSettles
<1>7. CASE plan \in {<<Fold, Fold>>, <<Fold, 1>>}
  <2>1. Len(plan) = 2 /\ plan[1] = Fold /\ plan[2] \in {Fold, 1}
    BY <1>7
  <2>2. values[1] \in FoldInputs /\ values[1] \notin Exchanged
    BY <2>1 DEF Chain, Askable
  <2>3. /\ values[2] \in UnitsOf(values[1])
        /\ values[3] \in UnitsOf(values[2]) \cup {Answer(values[2], 1)}
    BY <1>2, <2>1 DEF Outcomes
  <2>4. values[3] = values[2]
    BY <2>2, <2>3, FoldSettles
  <2> QED BY <2>1, <2>4
<1> QED BY <1>1, <1>4, <1>5, <1>6, <1>7 DEF Plans

(* The answer for a letter folds as the letter does.                       *)
LEMMA AnswerAlike ==
    ASSUME NEW c \in Inputs, c \notin Exchanged \cup Apart, NEW l \in {0, 1}
    PROVE  Folds(Answer(c, l)) = Folds(c)
<1> DEFINE d == Answer(c, l)
<1>1. d \in {Uppercase[c], Lowercase[c]} /\ d \in Inputs
  BY AnswersAskable DEF Uppercase, Lowercase
<1>2. CASE HasEntry(c) \/ HasEntry(d)
  BY <1>1, <1>2, FoldingsSettle
<1>3. CASE ~HasEntry(c) /\ ~HasEntry(d)
  <2>1. Folds(c) = <<Lowercase[c]>> /\ Folds(d) = <<Lowercase[d]>>
    BY <1>1, <1>3, PlainFolding
  <2>2. Lowercase[d] = Lowercase[c]
    BY <1>1, <1>3, MappingsSettle
  <2> QED BY <2>1, <2>2
<1> QED BY <1>2, <1>3

-----------------------------------------------------------------------------
(* The invariant holds of every behaviour. *)
LEMMA CInvAlways == CSpec => []CInv
BY CInitInv, CStepInv, PTL DEF CSpec

(* FoldStable for all tables whose mappings and foldings settle: whatever  *)
(* header the program includes and however its calls interleave with their *)
(* searches, asking a second time changes nothing.                         *)
THEOREM CallerStable == CSpec => []FoldStable
<1>1. CInv => FoldStable
  BY ChainSettles DEF CInv
<1> QED BY <1>1, CInvAlways, PTL

(* FoldsAlike for all such tables: while a call returns, its answer folds  *)
(* as the letter it was asked about.                                       *)
THEOREM CallerFoldsAlike == CSpec => []FoldsAlike
<1>1. ASSUME CInv, pc = "return", wc \notin Exchanged \cup Apart
      PROVE  Folds(result) = Folds(wc)
  <2>1. result = Answer(wc, lower) /\ wc \in Inputs /\ lower \in {0, 1}
    BY <1>1, ProgramOK DEF CInv, BInv, BTyped, CallType, ReturnsAnswer
  <2> QED BY <1>1, <2>1, AnswerAlike
<1>2. CInv => FoldsAlike
  BY <1>1 DEF FoldsAlike
<1> QED BY <1>2, CInvAlways, PTL

(* FoldingComplete: what a program gets from towfc(), called with results  *)
(* of either header, is complete, terminated and within what iswfc()       *)
(* counted.                                                                *)
THEOREM CallerFolds == CSpec => []FoldingComplete
<1>1. CInv => FoldingComplete
  BY DEF CInv, FInv, FoldingComplete
<1> QED BY <1>1, CInvAlways, PTL

(* ReturnsAnswer and WindowKeepsHit while the program calls both headers.  *)
THEOREM CallerAnswers == CSpec => [](ReturnsAnswer /\ WindowKeepsHit)
<1>1. CInv => ReturnsAnswer /\ WindowKeepsHit
  BY DEF CInv, BInv, Windows, Window, PairWindow, WindowKeepsHit
<1> QED BY <1>1, CInvAlways, PTL
=============================================================================
