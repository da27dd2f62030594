---------------------------- MODULE CaseMapping ----------------------------
(***************************************************************************)
(* What towlower() and towupper() promise a caller: one answer for every   *)
(* question, and the answer is the one the mapping gives under a locale    *)
(* that was in force at some instant between the question and the answer.  *)
(***************************************************************************)
CONSTANTS
    Questions,          \* pairs <<wc, lower>> a caller may ask about
    Locales,            \* values of setlocale(LC_CTYPE, NULL)
    Lookup(_, _, _)     \* Lookup(wc, lower, locale)

VARIABLES
    locale,
    question,           \* << >>, or the <<wc, lower>> that was asked
    answer              \* << >>, or << the answer >>

vars == <<locale, question, answer>>

Init ==
    /\ locale \in Locales
    /\ question = << >>
    /\ answer = << >>

Ask ==
    /\ question = << >>
    /\ question' \in Questions
    /\ UNCHANGED <<locale, answer>>

Decide ==
    /\ question # << >>
    /\ answer = << >>
    /\ answer' = <<Lookup(question[1], question[2], locale)>>
    /\ UNCHANGED <<locale, question>>

Take ==
    /\ answer # << >>
    /\ question' = << >>
    /\ answer' = << >>
    /\ UNCHANGED locale

SetLocale ==
    /\ locale' \in Locales
    /\ UNCHANGED <<question, answer>>

Next == Ask \/ Decide \/ Take \/ SetLocale

Safety == Init /\ [][Next]_vars

(* A question is always decided; nothing obliges a caller to ask or take. *)
Spec == Safety /\ WF_vars(Decide)
=============================================================================
