------------------------------ MODULE Casemap -------------------------------
(***************************************************************************)
(* The lookup that gen_wctrans --table emits, in the tables GenCasemap     *)
(* builds, and the wrappers towupper() and towlower() around it.  One      *)
(* thread, no locale.  The lookup of newer musl itself differs by having   *)
(* dir where this one has lower.                                           *)
(***************************************************************************)
EXTENDS GenCasemap

CONSTANTS
    Wrapped,         \* BOOLEAN: calls go through the wrappers
    Ascii            \* 128: below it the wrappers ask the C library

VARIABLES
    pc,
    wc, asked,       \* the question; asked = 1 for lowercase
    lower,           \* the argument of the lookup
    r, xb, xn,       \* the locals of its search
    result

cvars == <<gvars, pc, wc, asked, lower, r, xb, xn, result>>

ASSUME WrapperOK == Wrapped \in BOOLEAN /\ Ascii \in Nat

Limit == NBlocks * BlockSz         \* 0x20000

b == wc \div BlockSz
c == wc % BlockSz

(* What the file says of a code point. *)
Target(h, n) == IF n \in DOMAIN h THEN h[n] ELSE n
Answer(n, l) == Target(IF l = 1 THEN toLower ELSE toUpper, n)

-----------------------------------------------------------------------------
CInit ==
    /\ GInit
    /\ pc = "idle" /\ wc = 0 /\ asked = 0 /\ lower = 0
    /\ r = 0 /\ xb = 0 /\ xn = 0 /\ result = 0

Answered(n) == pc' = "return" /\ result' = n

(* The C library answers for ASCII; the wrappers pass 1 for uppercase.     *)
CallWrapper(n, l) ==
    /\ wc' = n /\ asked' = l /\ lower' = 1 - l
    /\ IF n < Ascii THEN Answered(Answer(n, l))
       ELSE pc' = "fetch" /\ UNCHANGED result
    /\ UNCHANGED <<gvars, r, xb, xn>>

CallLookup(n, l) ==
    /\ wc' = n /\ asked' = l /\ lower' = l
    /\ pc' = "fetch"
    /\ UNCHANGED <<gvars, r, xb, xn, result>>

Call ==
    /\ phase = "ready" /\ pc = "idle"
    /\ \E n \in 0 .. Limit, l \in {0, 1} :
          IF Wrapped THEN CallWrapper(n, l) ELSE CallLookup(n, l)

(* mt[] divides by 1, 6 and 36 for every byte that three slots make. *)
Multiplier == <<2048, 342, 57>>

Slot == LET v == TabAt(TabAt(b) * Width + c \div 3)
        IN  ((v * Multiplier[(c % 3) + 1]) \div 2048) % 6

RuleOf(n) == rules[n + 1]

(* Rules 0 and 1 add the delta in their own direction only. *)
Apply(rule) ==
    Answered(wc + IF RuleType(rule) = lower THEN 0 ELSE RuleDelta(rule))

Fetch ==
    /\ pc = "fetch"
    /\ IF wc >= Limit THEN Answered(wc) /\ UNCHANGED <<r, xb, xn>>
       ELSE LET rule == RuleOf(rulebases[b + 1] + Slot)
                rd == RuleDelta(rule)
            IN  /\ r' = rule
                /\ IF RuleType(rule) < 2
                   THEN Apply(rule) /\ UNCHANGED <<xb, xn>>
                   ELSE /\ pc' = "search"
                        /\ xn' = rd % 256 /\ xb' = rd \div 256
                        /\ UNCHANGED result
    /\ UNCHANGED <<gvars, wc, asked, lower>>

Half == xn \div 2
Tried == exceptions[xb + Half + 1]

Found ==
    /\ Tried[1] = c
    /\ LET rule == RuleOf(Tried[2]) IN
       /\ r' = rule
       /\ IF RuleType(rule) < 2 THEN Apply(rule)
          ELSE Answered(wc + IF lower = 1 THEN 1 ELSE -1)
    /\ UNCHANGED <<xb, xn>>

(* Mutant: the lower half loses its last exception.                        *)
LowerHalfShort ==
    /\ Tried[1] > c
    /\ xn' = IF Half = 0 THEN 0 ELSE Half - 1
    /\ UNCHANGED <<pc, r, xb, result>>

LowerHalf ==
    /\ Tried[1] > c
    /\ xn' = Half
    /\ UNCHANGED <<pc, r, xb, result>>

(* With one exception left this changes nothing, and the loop never ends.  *)
UpperHalf ==
    /\ Tried[1] < c
    /\ xb' = xb + Half /\ xn' = xn - Half
    /\ UNCHANGED <<pc, r, result>>

Search ==
    /\ pc = "search"
    /\ IF xn = 0 THEN Answered(wc) /\ UNCHANGED <<r, xb, xn>>
       ELSE Found \/ LowerHalf \/ UpperHalf
    /\ UNCHANGED <<gvars, wc, asked, lower>>

Return ==
    /\ pc = "return"
    /\ pc' = "idle"
    /\ wc' = 0 /\ asked' = 0 /\ lower' = 0
    /\ r' = 0 /\ xb' = 0 /\ xn' = 0 /\ result' = 0
    /\ UNCHANGED gvars

Idle == pc = "idle" /\ UNCHANGED <<pc, wc, asked, lower, r, xb, xn, result>>

CStep == Fetch \/ Search

CNext == (Generate /\ Idle) \/ Call \/ CStep \/ Return

CSpec == CInit /\ [][CNext]_cvars /\ WF_cvars(CStep)

-----------------------------------------------------------------------------
(* What the emitted arrays can hold: a byte of tab[] is made of three      *)
(* slots, a block has at most six rules, and each index stored is inside   *)
(* the array it is for; the search stays inside exceptions[].              *)
CTypeOK ==
    /\ phase \in {"blocks", "rulebases", "tables", "ready"}
    /\ pc \in {"idle", "fetch", "search", "return"}
    /\ \A p \in ToSet(tabL2) : \A x \in DOMAIN p : p[x] \in 0 .. 215
    /\ \A k \in DOMAIN tabL1 : tabL1[k] - L2Offset \in 0 .. Len(tabL2) - 1
    /\ \A k \in DOMAIN rulebases : rulebases[k] \in 0 .. Len(rules) - 1
    /\ \A e \in ToSet(exceptions) : e[1] \in Offsets /\ e[2] < Len(rules)
    /\ pc = "search" => xb + xn <= Len(exceptions)

(* The binary search never loses its exception: a lookup that a block      *)
(* refers to its exceptions finds one for the code point between xb and    *)
(* xb + xn for as long as it searches.  The loop has no exit for a code    *)
(* point above the last exception that is left.                            *)
SearchKeepsHit ==
    pc = "search" =>
        \E k \in xb .. xb + xn - 1 :
            /\ exceptions[k + 1][1] = c
            /\ RuleOf(exceptions[k + 1][2]) = ExcRule(wc)

(* A letter with both mappings keeps one rule: only as a titlecase letter  *)
(* between its cases does it keep its uppercase.                           *)
Promised(f, n, l) ==
    LET low == Target(f[1], n)
        up == Target(f[2], n)
    IN  IF l = 1 THEN low
        ELSE IF low = n \/ (low = n + 1 /\ up = n - 1) THEN up
        ELSE n

(* Six slots, evicted rules, shared rules and shared blocks together give  *)
(* every code point what the file says of it, in both directions.          *)
AnswersFile == pc = "return" => result = Promised(file, wc, lower)

(* The promise of towupper() and towlower(), as the comment in the lookup  *)
(* has it: lower=1 is towlower, lower=0 is towupper.                       *)
WrappersAnswer == pc = "return" => result = Promised(file, wc, asked)

(* The file stands for the locale: the mapping all answers are from. *)
Mapping == INSTANCE CaseMapping WITH
    Questions <- (0 .. Limit) \X {0, 1},
    Locales <- Files,
    Lookup <- LAMBDA n, l, f : Promised(f, n, l),
    locale <- file,
    question <- IF pc = "idle" THEN << >> ELSE <<wc, lower>>,
    answer <- IF pc = "return" THEN <<result>> ELSE << >>

(* Every lookup returns, with the one right answer.                        *)
ImplementsMapping == Mapping!Spec
=============================================================================
