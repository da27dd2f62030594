----------------------------- MODULE Towctrans -----------------------------
(***************************************************************************)
(* Programs around the lookup of Towcase.  With --musl and --safec the     *)
(* header has towlower() and towupper(), which leave ASCII to the C        *)
(* library; other programs call _towcase() themselves.  With --unroll, a   *)
(* casemapsl[] that is short enough is a sequence of if statements instead *)
(* of a table.  With --bits, casemaps[] is an array of bit-fields.  With   *)
(* --musl or --with-iswalpha the C library is asked what a letter is.      *)
(***************************************************************************)
EXTENDS Towcase

CONSTANTS
    Ascii,           \* 128
    Alphas,          \* code points that are letters to iswalpha()
    Fields           \* 2^width of the bit-fields upper, lower and len

VARIABLES
    wrapped,         \* calls go through the wrappers
    unrolled,        \* casemapsl[] is unrolled
    packed,          \* casemaps[] is made of bit-fields
    alpha            \* the exclusion test asks iswalpha()

program == <<wrapped, unrolled, packed, alpha>>

tvars == <<vars, program>>

ASSUME AsciiOK == Ascii \in Nat

(* "If you know that your iswalpha() works correctly": what it calls no    *)
(* letter has no entry.                                                    *)
ASSUME AlphaOK ==
    /\ \A c \in Inputs \ Alphas, l \in {0, 1} :
          Hits(Case, c, l) = {} /\ Hits(CaseL, c, l) = {} /\ PairHits(c, l) = {}
    /\ \A p \in TurkishPairs : p[1] \in Alphas /\ p[2] \in Alphas

(* The generator looks for the digraphs with an argument missing, so that  *)
(* they are no exception in unrolled code.                                 *)
ASSUME UnrollOK == ~HasDigraphLace(CaseL)

(* Entries that do not fit go to casemapsl[], whose fields are wide.  The  *)
(* generator keeps a bit of `lower` in reserve although the sign has one   *)
(* of its own.  A range that goes down by one would be taken for a lace.   *)
ASSUME FieldsOK ==
    /\ \A f \in {"upper", "lower", "len"} : Fields[f] \in Nat \ {0}
    /\ \A k \in DOMAIN Case :
          /\ Case[k].upper < Fields["upper"] /\ Case[k].len < Fields["len"]
          /\ 2 * Case[k].lower < Fields["lower"]
          /\ -2 * Case[k].lower < Fields["lower"]
          /\ Case[k].lower # -1

TInit ==
    /\ Init
    /\ wrapped \in BOOLEAN /\ unrolled \in BOOLEAN /\ packed \in BOOLEAN
    /\ alpha \in BOOLEAN

(* Mutant: the wrappers leave everything to the C library.                 *)
LeftToAll == wrapped

LeftToCLibrary == wrapped /\ wc < Ascii

(* The C library knows no locale here, as that of musl does.               *)
CLibrary ==
    /\ pc = "excl" /\ LeftToCLibrary
    /\ Answered(Answer(wc, lower))
    /\ UNCHANGED <<wc, lower, locale, i>>

(* iswalpha() takes the place of the first exclusion range.                *)
NoLetter(c) ==
    \/ c \notin Alphas \/ c > LastCased
    \/ \E k \in DOMAIN ExclRanges \ {1} :
          Minus(c, ExclRanges[k][1]) <= ExclRanges[k][2] - ExclRanges[k][1]

EnterAlpha ==
    /\ pc = "excl"
    /\ IF NoLetter(wc) THEN Answered(wc)
       ELSE pc' = "turkish" /\ UNCHANGED result
    /\ UNCHANGED <<wc, lower, locale, i>>

EnterTowcase == ~LeftToCLibrary /\ IF alpha THEN EnterAlpha ELSE Enter

(* Mutant: a statement is left out.                                        *)
UnrolledSkips ==
    /\ pc = "casemapsl"
    /\ IF i <= Len(CaseL) /\ Covers(CaseL[i], wc, lower)
       THEN Answered(MappedNoDigraph(CaseL, CaseL[i], wc, lower)) /\ UNCHANGED i
       ELSE /\ UNCHANGED result
            /\ IF i >= Len(CaseL) - 1 THEN pc' = "pairs" /\ i' = 1
               ELSE UNCHANGED pc /\ i' = i + 1
    /\ UNCHANGED <<wc, lower, locale>>

(* One statement for each entry, and no early exit. *)
Unrolled ==
    /\ pc = "casemapsl"
    /\ IF i <= Len(CaseL) /\ Covers(CaseL[i], wc, lower)
       THEN Answered(MappedNoDigraph(CaseL, CaseL[i], wc, lower)) /\ UNCHANGED i
       ELSE /\ UNCHANGED result
            /\ IF i >= Len(CaseL) THEN pc' = "pairs" /\ i' = 1
               ELSE UNCHANGED pc /\ i' = i + 1
    /\ UNCHANGED <<wc, lower, locale>>

(* CASEMAP with bit-fields: distance and sign are apart. *)
Stored(e) ==
    [upper |-> e.upper % Fields["upper"],
     sign  |-> IF e.lower < 0 THEN 1 ELSE 0,
     lower |-> (IF e.lower < 0 THEN -e.lower ELSE e.lower) % Fields["lower"],
     len   |-> e.len % Fields["len"]]

(* Mutant: the sign is forgotten.                                          *)
LowUnsigned(s) == s.lower

Low(s) == IF s.sign = 1 THEN -s.lower ELSE s.lower

(* What the fields of an entry are read as. *)
Read(s) == [upper |-> s.upper, lower |-> Low(s), len |-> s.len]

MappedStored(s) ==
    IF s.lower # 1 THEN wc + (2 * lower - 1) * Low(s)
    ELSE IF DigraphFixed(Case, wc, lower) THEN wc + 4 * lower - 2
    ELSE wc + lower - ((wc - s.upper) % 2)

SearchPacked ==
    /\ pc = "casemaps"
    /\ IF i <= Len(Case) /\ Covers(Read(Stored(Case[i])), wc, lower)
       THEN Answered(MappedStored(Stored(Case[i]))) /\ UNCHANGED i
       ELSE /\ UNCHANGED result
            /\ IF i > Len(Case)
                  \/ (lower = 1 /\ Stored(Case[i]).upper > wc)
               THEN pc' = "casemapsl" /\ i' = 1
               ELSE UNCHANGED pc /\ i' = i + 1
    /\ UNCHANGED <<wc, lower, locale>>

SearchShort == IF packed THEN SearchPacked ELSE SearchCase

SearchLong == IF unrolled THEN Unrolled ELSE SearchCaseL

TStep ==
    /\ \/ CLibrary \/ EnterTowcase
       \/ Begin \/ SearchShort \/ SearchLong \/ SearchPairs
    /\ UNCHANGED program

TNext ==
    \/ TStep
    \/ /\ \/ Call /\ UNCHANGED i
          \/ Return /\ i' = 1
          \/ SetLocale /\ UNCHANGED i
       /\ UNCHANGED program

(* The processor keeps executing a call that has begun. *)
TSpec == TInit /\ [][TNext]_tvars /\ WF_tvars(TStep)

-----------------------------------------------------------------------------
(* What a program is answered depends on how it calls the lookup, too: the *)
(* wrappers never make the Turkish exception for ASCII letters.            *)
Wrapped == INSTANCE CaseMapping WITH
    Questions <- Inputs \X {0, 1},
    Locales <- Locales \X BOOLEAN,
    Lookup <- LAMBDA c, l, how :
                 IF how[2] /\ c < Ascii THEN Answer(c, l)
                 ELSE Lookup(c, l, how[1]),
    locale <- <<locale, wrapped>>,
    question <- IF pc = "idle" THEN << >> ELSE <<wc, lower>>,
    answer <- IF pc = "idle" \/ Undecided THEN << >>
              ELSE IF pc = "return" THEN <<result>>
              ELSE <<Answer(wc, lower)>>

(* The lookup implements CaseMapping through the wrappers and without      *)
(* them, unrolled or not, packed or not: the answer is right for the       *)
(* locale of one instant of the call, but that ASCII letters are never     *)
(* Turkish for the wrappers.                                               *)
ImplementsWrapped == Wrapped!Spec
=============================================================================
