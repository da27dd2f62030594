------------------------------- MODULE Caller -------------------------------
(***************************************************************************)
(* A program that includes towctrans.h and towfc.h and feeds the results   *)
(* of _towcase() and towfc() back into them, as a case-insensitive         *)
(* comparison does that folds what was folded before.                      *)
(***************************************************************************)
EXTENDS TowcaseBsearch, Towfc

CONSTANTS
    Exchanged,       \* letters that towfc() and towlower() exchange
    Apart            \* others that do not fold as their other case does

VARIABLES
    plan,            \* what the program applies in turn: 0, 1 or Fold
    values           \* the code point the program began with, then results

cvars == <<bvars, fvars, plan, values>>

Fold == 2

(* Each asks again what the code point it has come to was the answer to.   *)
Plans == {<<0, 0>>, <<1, 1>>, <<0, 1, 0, 1>>, <<1, 0, 1, 0>>,
          <<Fold, Fold>>, <<Fold, 1>>}

(* What _towcase() answers. *)
Uppercase == [c \in Inputs |-> Answer(c, 0)]

Lowercase == [c \in Inputs |-> Answer(c, 1)]

UnitsOf(c) == {Folds(c)[k] : k \in DOMAIN Folds(c)}

(* No locale is Turkish, units are code points, buffers have a legal size, *)
(* towfc() calls the _towcase() of the other header, and results are       *)
(* code points to ask about.                                               *)
ASSUME ProgramOK ==
    /\ ~HaveLocaleTr
    /\ Widths = {TRUE} /\ Dmaxes \subseteq MinDmax .. MaxDmax
    /\ \A c \in Inputs : /\ Uppercase[c] \in Inputs
                         /\ Lowercase[c] \in Inputs
                         /\ Lowered(c) = Lowercase[c]
    /\ FoldInputs \subseteq Inputs
    /\ \A c \in FoldInputs : UnitsOf(c) \subseteq FoldInputs

(* towfc.h has something of its own for c. *)
HasEntry(c) ==
    /\ c >= Ascii
    /\ RowsFor(Tbl2, c) # {} \/ RowsFor(Tbl3, c) # {} \/ Exceptions(c) # {}

(* Of the mappings in towctrans.h: an answer is its own answer, a letter   *)
(* that changed comes back from the other case, and both cases of a letter *)
(* have one lowercase.                                                     *)
ASSUME MappingsSettle ==
    \A c \in Inputs :
        LET u == Uppercase[c]
            l == Lowercase[c]
        IN  /\ Uppercase[u] = u /\ (u # c => Uppercase[Lowercase[u]] = u)
            /\ Lowercase[l] = l /\ (l # c => Lowercase[Uppercase[l]] = l)
            /\ c \in Apart \/ HasEntry(c) \/ Lowercase[u] = l

(* Of the entries in towfc.h: what they fold to is lowercase and has no    *)
(* entry, no letter without one has a lowercase with one, and they agree   *)
(* for the two cases of a letter.                                          *)
ASSUME FoldingsSettle ==
    /\ TablesFold /\ PairsSuffice
    /\ \A c \in Inputs : FoldingFromTables(c) = {Folds(c)}
    /\ \A c \in FoldInputs \ Exchanged :
          IF HasEntry(c)
          THEN \A f \in UnitsOf(c) : ~HasEntry(f) /\ Lowercase[f] = f
          ELSE ~HasEntry(Lowercase[c])
    /\ \A c \in Inputs \ (Exchanged \cup Apart) :
          \A d \in {Uppercase[c], Lowercase[c]} :
              HasEntry(c) \/ HasEntry(d) => Folds(d) = Folds(c)

-----------------------------------------------------------------------------
Latest == values[Len(values)]

Finished == Len(values) > Len(plan)

Operation == plan[Len(values)]

CInit ==
    /\ BInit /\ FInit
    /\ plan \in Plans
    /\ \E c \in IF plan[1] = Fold THEN FoldInputs ELSE Inputs : values = <<c>>

CallCase ==
    /\ ~Finished /\ Operation # Fold
    /\ CallWith(Latest, Operation)
    /\ UNCHANGED <<i, header, lo, hi, best, fvars, plan, values>>

CallFold ==
    /\ ~Finished /\ Operation = Fold
    /\ \/ CallIswfcWith(Latest)
       \/ CallTowfc /\ ~null'
    /\ UNCHANGED <<bvars, plan, values>>

TakeCase ==
    /\ Return
    /\ i' = 1 /\ lo' = 1 /\ hi' = 0 /\ best' = 0
    /\ values' = Append(values, result)
    /\ UNCHANGED <<header, fvars, plan>>

(* The program goes on with any one unit of the folding. *)
TakeFold ==
    /\ Take
    /\ \E k \in DOMAIN Text : values' = Append(values, Text[k])
    /\ UNCHANGED <<bvars, plan>>

CNext ==
    \/ CallCase \/ CallFold
    \/ BStep /\ UNCHANGED <<fvars, plan, values>>
    \/ FStep /\ UNCHANGED <<bvars, plan, values>>
    \/ TakeCase \/ TakeFold

CSpec == CInit /\ [][CNext]_cvars

-----------------------------------------------------------------------------
(* A code point settles: asking towlower(), towupper() or towfc() for its  *)
(* own answer changes nothing, towlower() leaves what towfc() wrote alone, *)
(* and folding by towlower(towupper(c)), or the other way round, a second  *)
(* time changes nothing either.  A caller that compares folded strings     *)
(* relies on it; a pair that shadows or is shadowed by a range, a wrong    *)
(* digraph exception or a missing exception of towfc() breaks it.          *)
FoldStable ==
    Finished => \/ values[Len(plan) + 1] = values[Len(plan) \div 2 + 1]
                \/ plan[1] = Fold /\ values[1] \in Exchanged

(* towfc() does not tell a letter from its upper- and lowercase, except    *)
(* for a few letters, so that a comparison of foldings ignores case.       *)
FoldsAlike ==
    pc = "return" /\ wc \notin Exchanged \cup Apart =>
        Folds(result) = Folds(wc)

(* The early exits of iswfc() and towfc() lose nothing on these tables,    *)
(* and a caller that reserves what iswfc() counts has room.                *)
FoldingComplete == FoldsExactly /\ Terminated /\ CountSuffices
=============================================================================
