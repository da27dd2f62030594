----------------------------- MODULE MCUnicode17 -----------------------------
(***************************************************************************)
(* Caller over the headers in the repository, and over the header of       *)
(* --bsearch-both for the same data, with the index tables gen_wctrans     *)
(* sorts for it.  (That header has one more digraph, U+01C7, which no      *)
(* entry of casemaps[] covers when lowering.)                              *)
(***************************************************************************)
EXTENDS Caller, Towctrans17, Towfc17

TurkishIsOff == FALSE
Locales17 == {"C"}
Unwritten == -1

(* The Cherokee letters. *)
cherokee == (\h13A0 .. \h13F5) \cup (\h13F8 .. \h13FD) \cup (\hAB70 .. \hABBF)

entries == {casemaps[k] : k \in DOMAIN casemaps}
             \cup {casemapsl[k] : k \in DOMAIN casemapsl}

(* Every code point in the tables of towfc.h and its neighbours, and some  *)
(* that only towlower() changes; their lowercase letters, and what the     *)
(* tables fold to.                                                         *)
folded ==
    LET rows == {tbl2[k] : k \in DOMAIN tbl2} \cup {tbl3[k] : k \in DOMAIN tbl3}
        keys == {r[1] : r \in rows} \cup UNION {DOMAIN g.cases : g \in groups}
        letters == UNION {c - 1 .. c + 1 : c \in keys} \cup cherokee
                     \cup (\h0040 .. \h0080)
                     \cup {\hABC0, \h10400, \h1E921, \h10FFFF}
        small == UNION {{c + e.lower : c \in
                            {c \in letters : /\ c - e.upper \in 0 .. e.len - 1
                                             /\ e.lower = 1 =>
                                                  (c - e.upper) % 2 = 0}}
                         : e \in entries}
                   \cup {pairs[k][2] : k \in {k \in DOMAIN pairs :
                                               pairs[k][1] \in letters}}
        images == UNION {{r[k] : k \in 2 .. Len(r)} : r \in rows}
                    \cup UNION {{g.cases[c] : c \in DOMAIN g.cases} : g \in groups}
    IN  {c : c \in letters \cup small \cup images}

(* Every cased code point, the neighbours of every range and of its image, *)
(* and the ends of the exclusion ranges.                                   *)
Around(e) == (e.upper - 1) .. (e.upper + e.len + 1)
asked ==
    LET sets == {Around(e) \cup {c + e.lower : c \in Around(e)} : e \in entries}
                  \cup {{pairs[k][1], pairs[k][2]} : k \in DOMAIN pairs}
                  \cup {{exclRanges[k][1], exclRanges[k][2],
                         exclRanges[k][2] + 1} : k \in DOMAIN exclRanges}
                  \cup {digraphUp, digraphLow, {lastCased + 1}, folded}
    IN  {c : c \in UNION sets}

(* The lowercase of U+0130 and the uppercase of U+0131 fold to a plain i.  *)
dotted == {\h0130, \h0131}

(* The order of the targets, and of the lowercase code points of pairs[];  *)
(* SortedOK checks that they are.                                          *)
casemapsUpper == <<
    1, 2, 3, 4, 5, 6, 7, 8, 9, 10, 11, 12, 13, 14, 15, 16, 17, 18, 19, 21,
    22, 20, 23, 25, 24, 26, 27, 28, 29, 30, 31, 32, 33, 34, 35, 36, 37, 38,
    39, 44, 45, 47, 49, 50, 40, 41, 42, 43, 46, 48, 51, 52, 53, 54, 55, 56,
    57, 58, 59, 60, 61, 62, 63, 64, 65, 66, 67, 68, 69 >>

casemapslUpper == <<
    9, 1, 2, 3, 6, 7, 8, 4, 5, 10, 11, 12, 13, 14, 15, 16, 17, 18, 19, 20, 21 >>

pairsUpper == <<
    3, 94, 61, 84, 95, 4, 1, 2, 48, 7, 8, 12, 40, 17, 45, 126, 42, 22, 24,
    26, 28, 29, 41, 31, 30, 32, 34, 33, 35, 37, 36, 9, 39, 38, 44, 47, 104,
    102, 105, 5, 6, 10, 11, 114, 13, 115, 14, 125, 112, 113, 16, 15, 117, 99,
    116, 18, 103, 19, 20, 101, 21, 123, 23, 119, 25, 49, 50, 27, 120, 118,
    58, 51, 53, 67, 64, 93, 54, 55, 57, 65, 62, 66, 60, 63, 69, 52, 56, 68,
    70, 79, 71, 72, 73, 74, 75, 76, 77, 78, 109, 82, 110, 100, 124, 83, 85,
    86, 87, 88, 89, 59, 90, 91, 92, 96, 97, 98, 43, 46, 106, 107, 108, 80,
    81, 111, 122, 121 >>

(* towfc() calls the _towcase() of the other header, iswfc() the           *)
(* iswupper() of the C library, here that of musl; the foldings are those  *)
(* that towfc.h has, whatever its loops skip.                              *)
Lowered17(c) == Answer(c, 1)
IsUpper17(c) == Lowered17(c) # c
Folds17(c) == CHOOSE text \in FoldingFromTables(c) : TRUE

(* No mapping of Unicode 17 has an opposed one in the sense of GenTables:  *)
(* the generator left out none, as UnopposedExact of GenTables_proofs says.*)
ASSUME Unopposed17 ==
    LET lowers == [c \in {c \in asked : Lowered17(c) # c} |-> Lowered17(c)]
        At17(d) == {c \in DOMAIN lowers : lowers[c] - c = d}
    IN  \A d \in {lowers[c] - c : c \in DOMAIN lowers} :
          LET there == At17(d)
              back == At17(-d)
          IN  \A b \in there, u \in back :
                ~ IF d <= 0 THEN u >= b + d
                  ELSE u < b \/ u = b + d \/ d = 1

(* TLC keeps the values of the tables and sets above, but evaluates again  *)
(* what stands for a CONSTANT.                                             *)
Case17 == casemaps
CaseL17 == casemapsl
Pairs17 == pairs
CaseUpper17 == casemapsUpper
CaseLUpper17 == casemapslUpper
PairsUpper17 == pairsUpper
Tbl2_17 == tbl2
Tbl3_17 == tbl3
Groups17 == groups
FoldInputs17 == folded
Inputs17 == asked
=============================================================================
