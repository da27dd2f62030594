------------------------------ MODULE CaseCall ------------------------------
(***************************************************************************)
(* One call of a generated lookup _towcase(wc, lower), as far as all       *)
(* variants of the function share it: the call, the exclusion test, the    *)
(* Turkish exception and the return.  The process locale is shared state:  *)
(* any thread may change it between two steps of the call.                 *)
(***************************************************************************)
EXTENDS CaseTables

CONSTANTS
    Inputs,          \* code points callers ask about
    Locales,         \* values of setlocale(LC_CTYPE, NULL)
    TurkicLocales,   \* those that start with "tr" or "az"
    HaveLocaleTr,    \* HAVE_LOCALE_TR is defined
    TurkishPairs     \* <<upper, lower>> of the Turkish exception

VARIABLES
    pc,              \* "idle" between calls, else the part that runs
    wc, lower,       \* the arguments
    result,          \* the value returned
    locale           \* the LC_CTYPE locale of the process

Turkish(c, l) == {p \in TurkishPairs : PairMatches(p, c, l)}

TurkishAnswer(c, l) == PairMapped(CHOOSE p \in Turkish(c, l) : TRUE, l)

(* The answer for a code point under a locale. *)
Lookup(c, l, loc) ==
    IF HaveLocaleTr /\ loc \in TurkicLocales /\ Turkish(c, l) # {}
    THEN TurkishAnswer(c, l)
    ELSE Answer(c, l)

ASSUME WordOK ==
    /\ Word \in Nat \ {0}
    /\ LastCased \in Nat
    /\ DigraphUp \subseteq 2 .. Word - 1
    /\ DigraphLow \subseteq 0 .. Word - 3

ASSUME TablesOK == TableOK(Case) /\ TableOK(CaseL) /\ PairsOK

ASSUME InputsOK ==
    /\ Inputs \subseteq CodePoint
    /\ \A c \in Inputs : ExclusionSound(c)

ASSUME LocaleOK ==
    /\ HaveLocaleTr \in BOOLEAN
    /\ TurkicLocales \subseteq Locales
    /\ TurkishPairs \subseteq CodePoint \X CodePoint
    /\ \A p \in TurkishPairs : ~Excluded(p[1]) /\ ~Excluded(p[2])

-----------------------------------------------------------------------------
CallInit ==
    /\ pc = "idle"
    /\ wc = 0 /\ lower = 0 /\ result = 0
    /\ locale \in Locales

CallType ==
    /\ wc \in CodePoint /\ lower \in {0, 1}
    /\ result \in CodePoint
    /\ locale \in Locales

CallWith(c, l) ==
    /\ pc = "idle"
    /\ pc' = "excl"
    /\ wc' = c /\ lower' = l
    /\ UNCHANGED <<result, locale>>

Call == pc = "idle" /\ \E c \in Inputs, l \in {0, 1} : CallWith(c, l)

Answered(r) == pc' = "return" /\ result' = r

Exclude ==
    /\ pc = "excl"
    /\ IF Excluded(wc) THEN Answered(wc)
       ELSE pc' = "turkish" /\ UNCHANGED result
    /\ UNCHANGED <<wc, lower, locale>>

(* Mutant: the exception is made whatever the locale.                      *)
LocaleTrAlways(search) ==
    /\ pc = "turkish"
    /\ IF HaveLocaleTr /\ Turkish(wc, lower) # {}
       THEN Answered(TurkishAnswer(wc, lower))
       ELSE pc' = search /\ UNCHANGED result
    /\ UNCHANGED <<wc, lower, locale>>

(* setlocale() is asked only for a code point the exception is about.      *)
(* `search` is the part of the function that follows.                      *)
LocaleTr(search) ==
    /\ pc = "turkish"
    /\ IF HaveLocaleTr /\ Turkish(wc, lower) # {} /\ locale \in TurkicLocales
       THEN Answered(TurkishAnswer(wc, lower))
       ELSE pc' = search /\ UNCHANGED result
    /\ UNCHANGED <<wc, lower, locale>>

(* The arguments and the result are gone once the caller has the value.    *)
Return ==
    /\ pc = "return"
    /\ pc' = "idle"
    /\ wc' = 0 /\ lower' = 0 /\ result' = 0
    /\ UNCHANGED locale

(* setlocale() in another thread. *)
SetLocale ==
    /\ locale' \in Locales
    /\ UNCHANGED <<pc, wc, lower, result>>

-----------------------------------------------------------------------------
(* The exclusion ranges and the shortcuts of a search lose nothing: what a *)
(* call returns is what a full search of the tables yields, or the Turkish *)
(* exception where it is compiled in.                                      *)
ReturnsAnswer ==
    pc = "return" =>
        \/ result = Answer(wc, lower)
        \/ /\ HaveLocaleTr
           /\ \E p \in Turkish(wc, lower) : result = PairMapped(p, lower)

(* Every call returns. *)
CallReturns == pc = "excl" ~> pc = "return"

(* A question is decided when the locale is read; until then the answer is *)
(* open, from then on it is settled, although the search still runs.       *)
Undecided == pc \in {"excl", "turkish"}

Mapping == INSTANCE CaseMapping WITH
    Questions <- Inputs \X {0, 1},
    question <- IF pc = "idle" THEN << >> ELSE <<wc, lower>>,
    answer <- IF pc = "idle" \/ Undecided THEN << >>
              ELSE IF pc = "return" THEN <<result>>
              ELSE <<Answer(wc, lower)>>

(* The lookup implements CaseMapping: whatever another thread does to the  *)
(* locale during the call, the answer is right for the locale of one       *)
(* instant of it.                                                          *)
ImplementsMapping == Mapping!Spec
=============================================================================
