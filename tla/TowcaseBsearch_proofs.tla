----------------------- MODULE TowcaseBsearch_proofs ------------------------
(***************************************************************************)
(* Proofs about the bisecting lookups, for all tables, index tables,       *)
(* inputs and locales that satisfy the assumptions of TowcaseBsearch.      *)
(***************************************************************************)
EXTENDS TowcaseBsearch, Towcase_proofs

(* What the order of a direction makes of a table: every entry has a       *)
(* place, and the ranges that are searched lie one after the other.        *)
Arranged(table, order) ==
    /\ TableOK(table) /\ Successive(table) /\ SuccessiveTargets(table, order)

LEMMA BothArranged == Arranged(Case, CaseUpper) /\ Arranged(CaseL, CaseLUpper)
BY TablesOK, SortedOK DEF Arranged

(* A place of the order holds an entry of the table.                       *)
LEMMA Places ==
    ASSUME NEW table, NEW order, Arranged(table, order), lower \in {0, 1},
           NEW k \in DOMAIN table
    PROVE  /\ DOMAIN table = 1 .. Len(table) /\ Len(table) \in Nat
           /\ \E m \in DOMAIN table : At(table, order, k) = table[m]
           /\ Entry(At(table, order, k)) /\ At(table, order, k).len > 0
<1>1. DOMAIN table = 1 .. Len(table) /\ Len(table) \in Nat
  BY DEF Arranged, TableOK
<1>2. PICK m \in DOMAIN table : At(table, order, k) = table[m]
  BY <1>1 DEF Arranged, SuccessiveTargets, IndexOf, At
<1>3. Entry(table[m])
  BY DEF Arranged, TableOK
<1>4. table[m].len > 0
  BY DEF Arranged, Successive
<1> QED BY <1>1, <1>2, <1>3, <1>4

(* Every entry of the table has a place.                                   *)
LEMMA PlaceOf ==
    ASSUME NEW table, NEW order, Arranged(table, order), lower \in {0, 1},
           NEW m \in DOMAIN table
    PROVE  \E k \in DOMAIN table : /\ At(table, order, k) = table[m]
                                   /\ k = m \/ (lower = 0 /\ order[k] = m)
<1>1. DOMAIN table = 1 .. Len(table)
  BY DEF Arranged, TableOK
<1> QED BY <1>1 DEF Arranged, SuccessiveTargets, IndexOf, At

(* Ranges at successive places do not overlap, in either direction.        *)
LEMMA InOrderOfPlaces ==
    ASSUME NEW table, NEW order, Arranged(table, order), lower \in {0, 1},
           NEW j \in DOMAIN table, NEW k \in DOMAIN table, j < k
    PROVE  Base(At(table, order, j), lower) + At(table, order, j).len
             <= Base(At(table, order, k), lower)
<1>1. CASE lower = 1
  BY <1>1 DEF Arranged, Successive, At, Base
<1>2. CASE lower = 0
  <2>1. EntryLast(table[order[j]]) < Base(table[order[k]], 0)
    BY DEF Arranged, SuccessiveTargets
  <2>2. /\ Entry(table[order[j]]) /\ Entry(table[order[k]])
        /\ At(table, order, j) = table[order[j]]
        /\ At(table, order, k) = table[order[k]]
    BY <1>2, Places DEF At
  <2> QED BY <1>2, <2>1, <2>2 DEF EntryLast, Base, Entry
<1> QED BY <1>1, <1>2

(* At most one place covers a code point.                                  *)
LEMMA OnePlace ==
    ASSUME NEW table, NEW order, Arranged(table, order), lower \in {0, 1},
           wc \in CodePoint,
           NEW j \in DOMAIN table, NEW k \in DOMAIN table,
           Covers(At(table, order, j), wc, lower),
           Covers(At(table, order, k), wc, lower)
    PROVE  j = k
<1> DEFINE e(p) == At(table, order, p)
<1>1. /\ Entry(e(j)) /\ Entry(e(k))
      /\ DOMAIN table = 1 .. Len(table) /\ Len(table) \in Nat
  BY Places
<1>2. /\ Base(e(j), lower) \in Nat /\ Base(e(k), lower) \in Nat
      /\ Base(e(j), lower) <= wc /\ wc < Base(e(j), lower) + e(j).len
      /\ Base(e(k), lower) <= wc /\ wc < Base(e(k), lower) + e(k).len
  BY <1>1, CoversRange
<1>3. j < k => Base(e(j), lower) + e(j).len <= Base(e(k), lower)
  BY InOrderOfPlaces
<1>4. k < j => Base(e(k), lower) + e(k).len <= Base(e(j), lower)
  BY InOrderOfPlaces
<1> HIDE DEF e
<1>5. /\ wc \in Nat /\ j \in Nat /\ k \in Nat
      /\ e(j).len \in Nat /\ e(k).len \in Nat
  BY <1>1, WordOK DEF CodePoint, Entry
<1> QED BY <1>2, <1>3, <1>4, <1>5

(* So the place a bisection finds holds the first hit of the table.        *)
LEMMA FoundIsAnswer ==
    ASSUME NEW table, NEW order, Arranged(table, order), lower \in {0, 1},
           wc \in CodePoint, NEW k \in DOMAIN table,
           Covers(At(table, order, k), wc, lower)
    PROVE  /\ Hits(table, wc, lower) # {}
           /\ FromTable(table, wc, lower)
                = Mapped(table, At(table, order, k), wc, lower)
<1>1. PICK m \in DOMAIN table : At(table, order, k) = table[m]
  BY Places
<1>2. \A j \in DOMAIN table : j < m => ~Covers(table[j], wc, lower)
  <2> SUFFICES ASSUME NEW j \in DOMAIN table, j < m,
                      Covers(table[j], wc, lower)
               PROVE  FALSE
    OBVIOUS
  <2>1. PICK p \in DOMAIN table : At(table, order, p) = table[j]
    BY PlaceOf
  <2>2. p = k
    BY <1>1, <2>1, OnePlace
  <2>3. table[j] = table[m]
    BY <1>1, <2>1, <2>2
  <2>4. table[j].upper + table[j].len <= table[m].upper /\ table[j].len > 0
    BY DEF Arranged, Successive
  <2>5. Entry(table[m])
    BY DEF Arranged, TableOK
  <2> QED BY <2>3, <2>4, <2>5 DEF Entry
<1> QED BY <1>1, <1>2, FirstHit DEF Arranged, TableOK

-----------------------------------------------------------------------------
(* What a bisection keeps: its bounds are those of the table, and every    *)
(* place that covers wc is between lo and hi.                              *)
Window(table, order) ==
    /\ lo <= Len(table) + 1 /\ hi <= Len(table)
    /\ \A k \in DOMAIN table :
          Covers(At(table, order, k), wc, lower) => k \in lo .. hi

(* A probe halves the window and loses no place that covers wc.            *)
LEMMA Narrow ==
    ASSUME NEW table, NEW order, Arranged(table, order), lower \in {0, 1},
           wc \in CodePoint, lo \in Nat \ {0}, hi \in Nat, lo <= hi,
           Window(table, order)
    PROVE  /\ Mid \in DOMAIN table /\ Mid \in lo .. hi
           /\ wc < Base(At(table, order, Mid), lower) =>
                \A k \in DOMAIN table :
                   Covers(At(table, order, k), wc, lower) => k \in lo .. Mid - 1
           /\ /\ ~(wc < Base(At(table, order, Mid), lower))
              /\ ~Covers(At(table, order, Mid), wc, lower)
              => \A k \in DOMAIN table :
                   Covers(At(table, order, k), wc, lower) => k \in Mid + 1 .. hi
<1> DEFINE e(p) == At(table, order, p)
<1>1. DOMAIN table = 1 .. Len(table) /\ Len(table) \in Nat
  BY DEF Arranged, TableOK
<1>2. Mid \in lo .. hi /\ Mid \in DOMAIN table
  BY <1>1 DEF Mid, Window
<1>3. SUFFICES ASSUME NEW k \in DOMAIN table, Covers(e(k), wc, lower)
      PROVE  /\ wc < Base(e(Mid), lower) => k \in lo .. Mid - 1
             /\ ~(wc < Base(e(Mid), lower)) /\ ~Covers(e(Mid), wc, lower)
                  => k \in Mid + 1 .. hi
  BY <1>2
<1>4. k \in lo .. hi
  BY <1>3 DEF Window
<1>5. /\ Entry(e(Mid)) /\ Entry(e(k))
      /\ Base(e(Mid), lower) \in Nat /\ Base(e(k), lower) \in Nat
      /\ Base(e(k), lower) <= wc /\ wc < Base(e(k), lower) + e(k).len
      /\ Covers(e(Mid), wc, lower) <=>
            /\ Base(e(Mid), lower) <= wc
            /\ wc < Base(e(Mid), lower) + e(Mid).len
  BY <1>2, <1>3, Places, CoversRange
<1>6. Mid < k => Base(e(Mid), lower) + e(Mid).len <= Base(e(k), lower)
  BY <1>2, InOrderOfPlaces
<1>7. k < Mid => Base(e(k), lower) + e(k).len <= Base(e(Mid), lower)
  BY <1>2, InOrderOfPlaces
<1>8. k = Mid => e(k) = e(Mid)
  OBVIOUS
<1> HIDE DEF e
<1>9. /\ wc \in Nat /\ k \in Nat /\ Mid \in Nat
      /\ e(Mid).len \in Nat /\ e(k).len \in Nat
  <2>1. wc \in Nat
    BY WordOK DEF CodePoint
  <2>2. k \in Nat /\ Mid \in Nat
    BY <1>1, <1>2
  <2>3. e(Mid).len \in Nat /\ e(k).len \in Nat
    BY <1>5 DEF Entry
  <2> QED BY <2>1, <2>2, <2>3
<1>10. wc < Base(e(Mid), lower) => k < Mid
  BY <1>5, <1>6, <1>8, <1>9
<1>11. ~(wc < Base(e(Mid), lower)) /\ ~Covers(e(Mid), wc, lower) => k > Mid
  BY <1>5, <1>7, <1>8, <1>9
<1> QED BY <1>4, <1>9, <1>10, <1>11

(* What BisectTable does while the window is not empty. *)
Probe(table, order) ==
    LET e == At(table, order, Mid) IN
    IF wc < Base(e, lower) THEN LeftHalf
    ELSE IF Within(wc, Base(e, lower), e.len)
    THEN Answered(Mapped(table, e, wc, lower)) /\ UNCHANGED <<lo, hi>>
    ELSE RightHalf

(* A probe answers or narrows the window.                                  *)
LEMMA ProbeTable ==
    ASSUME NEW table, NEW order, Arranged(table, order), lower \in {0, 1},
           wc \in CodePoint, lo \in Nat \ {0}, hi \in Nat, lo <= hi,
           Window(table, order), Probe(table, order),
           UNCHANGED <<wc, lower>>
    PROVE  \/ /\ pc' = "return" /\ UNCHANGED <<lo, hi>>
              /\ Hits(table, wc, lower) # {}
              /\ result' = FromTable(table, wc, lower)
              /\ result' \in CodePoint
           \/ /\ pc' = pc /\ result' = result
              /\ lo' \in Nat \ {0} /\ hi' \in Nat
              /\ Window(table, order)'
<1> DEFINE e == At(table, order, Mid)
<1>1. /\ Mid \in DOMAIN table /\ Mid \in lo .. hi
      /\ wc < Base(e, lower) =>
           \A k \in DOMAIN table :
              Covers(At(table, order, k), wc, lower) => k \in lo .. Mid - 1
      /\ ~(wc < Base(e, lower)) /\ ~Covers(e, wc, lower) =>
           \A k \in DOMAIN table :
              Covers(At(table, order, k), wc, lower) => k \in Mid + 1 .. hi
  BY Narrow
<1>2. hi <= Len(table) /\ Len(table) \in Nat /\ Mid \in Nat \ {0}
  <2>1. DOMAIN table = 1 .. Len(table) /\ Len(table) \in Nat
    BY DEF Arranged, TableOK
  <2>2. hi <= Len(table)
    BY DEF Window
  <2> QED BY <1>1, <2>1, <2>2
<1>3. CASE wc < Base(e, lower)
  <2>1. pc' = pc /\ result' = result /\ lo' = lo /\ hi' = Mid - 1
    BY <1>3 DEF Probe, LeftHalf
  <2>2. Window(table, order)'
    BY <1>1, <1>2, <1>3, <2>1 DEF Window, At
  <2> QED BY <1>2, <2>1, <2>2
<1>4. CASE ~(wc < Base(e, lower)) /\ Covers(e, wc, lower)
  <2>1. /\ pc' = "return" /\ UNCHANGED <<lo, hi>>
        /\ result' = Mapped(table, e, wc, lower)
    BY <1>4 DEF Probe, Answered, Covers
  <2>2. /\ Hits(table, wc, lower) # {}
        /\ FromTable(table, wc, lower) = Mapped(table, e, wc, lower)
    BY <1>1, <1>4, FoundIsAnswer
  <2>3. Entry(e)
    BY <1>1, Places
  <2>4. Mapped(table, e, wc, lower) \in CodePoint
    BY <1>4, <2>3, MappedType
  <2> QED BY <2>1, <2>2, <2>4
<1>5. CASE ~(wc < Base(e, lower)) /\ ~Covers(e, wc, lower)
  <2>1. pc' = pc /\ result' = result /\ lo' = Mid + 1 /\ hi' = hi
    BY <1>5 DEF Probe, RightHalf, Covers
  <2>2. Window(table, order)'
    BY <1>1, <1>2, <1>5, <2>1 DEF Window, At
  <2> QED BY <1>2, <2>1, <2>2
<1> QED BY <1>3, <1>4, <1>5

(* An empty window means that no entry covers wc.                          *)
LEMMA EmptyWindow ==
    ASSUME NEW table, NEW order, Arranged(table, order), lower \in {0, 1},
           lo \in Nat, hi \in Nat, lo > hi, Window(table, order)
    PROVE  Hits(table, wc, lower) = {}
<1>1. \A k \in DOMAIN table : ~Covers(At(table, order, k), wc, lower)
  BY DEF Window
<1>2. \A m \in DOMAIN table : ~Covers(table[m], wc, lower)
  BY <1>1, PlaceOf
<1> QED BY <1>2 DEF Hits

(* The window a search begins with.                                        *)
LEMMA WholeWindow ==
    ASSUME NEW table, NEW order, Arranged(table, order), lo' = 1,
           hi' = Len(table)
    PROVE  Window(table, order)'
<1>1. DOMAIN table = 1 .. Len(table) /\ Len(table) \in Nat
  BY DEF Arranged, TableOK
<1> QED BY <1>1 DEF Window

(* A table is skipped only when none of its entries covers wc.             *)
LEMMA Outside ==
    ASSUME NEW table, NEW order, Arranged(table, order), Len(table) > 0,
           lower \in {0, 1}, wc \in CodePoint,
           \/ lower = 1 /\ ~BelowLast(table)
           \/ lower = 0 /\ ~InTargets(table, order)
    PROVE  Hits(table, wc, lower) = {}
<1> DEFINE e(p) == At(table, order, p)
<1>1. /\ DOMAIN table = 1 .. Len(table) /\ Len(table) \in Nat
      /\ 1 \in DOMAIN table /\ Len(table) \in DOMAIN table
  BY DEF Arranged, TableOK
<1>2. SUFFICES ASSUME NEW k \in DOMAIN table, Covers(e(k), wc, lower)
      PROVE  FALSE
  <2>1. \A m \in DOMAIN table : ~Covers(table[m], wc, lower)
    BY <1>2, PlaceOf
  <2> QED BY <2>1 DEF Hits
<1>3. /\ Entry(e(k)) /\ Entry(e(1)) /\ Entry(e(Len(table)))
      /\ Base(e(k), lower) \in Nat
      /\ Base(e(k), lower) <= wc /\ wc < Base(e(k), lower) + e(k).len
  BY <1>1, <1>2, Places, CoversRange
<1>4. k # 1 => Base(e(1), lower) + e(1).len <= Base(e(k), lower)
  BY <1>1, InOrderOfPlaces
<1>5. k # Len(table) =>
        Base(e(k), lower) + e(k).len <= Base(e(Len(table)), lower)
  BY <1>1, InOrderOfPlaces
<1>6. /\ Base(e(1), lower) \in Int /\ Base(e(Len(table)), lower) \in Int
      /\ e(1).len \in Nat /\ e(Len(table)).len \in Nat /\ e(k).len \in Nat
      /\ wc \in Nat
  <2> HIDE DEF e
  <2>1. \A x : Entry(x) => Base(x, lower) \in Int /\ x.len \in Nat
    BY DEF Entry, Base
  <2>2. wc \in Nat
    BY WordOK DEF CodePoint
  <2> QED BY <1>3, <2>1, <2>2
<1>7. /\ Base(e(1), lower) <= wc
      /\ wc < Base(e(Len(table)), lower) + e(Len(table)).len
  <2> HIDE DEF e
  <2>1. k = 1 => e(k) = e(1)
    OBVIOUS
  <2>2. k = Len(table) => e(k) = e(Len(table))
    OBVIOUS
  <2> QED BY <1>3, <1>4, <1>5, <1>6, <2>1, <2>2
<1>8. CASE lower = 1 /\ ~BelowLast(table)
  <2>1. /\ e(Len(table)) = table[Len(table)]
        /\ Base(e(Len(table)), lower) = table[Len(table)].upper
    BY <1>8 DEF At, Base
  <2> QED BY <1>1, <1>6, <1>7, <1>8, <2>1 DEF BelowLast, MapLastLen
<1>9. CASE lower = 0 /\ ~InTargets(table, order)
  <2>1. e(1) = table[order[1]] /\ e(Len(table)) = table[order[Len(table)]]
    BY <1>9 DEF At
  <2> QED BY <1>6, <1>7, <1>9, <2>1 DEF InTargets, EntryLast
<1> QED BY <1>8, <1>9

-----------------------------------------------------------------------------
(* In either direction the keys of pairs[] are code points in order, and   *)
(* every pair has a place.                                                 *)
LEMMA KeysSorted ==
    ASSUME lower \in {0, 1}
    PROVE  /\ DOMAIN Pairs = 1 .. Len(Pairs) /\ Len(Pairs) \in Nat \ {0}
           /\ \A k \in DOMAIN Pairs :
                 Key(k) \in Nat /\ PairsUpper[k] \in DOMAIN Pairs
           /\ \A k \in DOMAIN Pairs : Pairs[k] \in CodePoint \X CodePoint
           /\ \A j, k \in DOMAIN Pairs : j < k => Key(j) <= Key(k)
<1>1. /\ DOMAIN Pairs = 1 .. Len(Pairs) /\ Len(Pairs) \in Nat \ {0}
      /\ \A k \in DOMAIN Pairs : Pairs[k] \in CodePoint \X CodePoint
  BY TablesOK, BsearchOK DEF PairsOK
<1>2. \A k \in DOMAIN Pairs : PairsUpper[k] \in DOMAIN Pairs
  BY <1>1, SortedOK DEF IndexOf
<1>3. CASE lower = 1
  <2>1. \A k \in DOMAIN Pairs : Key(k) = Pairs[k][1]
    BY <1>3 DEF Key, At
  <2>2. \A k \in DOMAIN Pairs : Pairs[k][1] \in Nat
    BY <1>1, WordOK DEF CodePoint
  <2> QED BY <1>1, <1>2, <2>1, <2>2, TablesOK DEF PairsOK
<1>4. CASE lower = 0
  <2>1. \A k \in DOMAIN Pairs : Key(k) = Pairs[PairsUpper[k]][2]
    BY <1>4 DEF Key, At
  <2>2. \A k \in DOMAIN Pairs : Pairs[k][2] \in Nat
    BY <1>1, WordOK DEF CodePoint
  <2> QED BY <1>1, <1>2, <2>1, <2>2, SortedOK DEF SortedByLower
<1> QED BY <1>3, <1>4

(* A pair matches where its place has the key.                             *)
LEMMA KeyMatches ==
    ASSUME lower \in {0, 1}
    PROVE  /\ lower = 1 => \A k \in DOMAIN Pairs :
                 Key(k) = Pairs[k][1] /\ (PairMatches(Pairs[k], wc, lower)
                                            <=> Key(k) = wc)
           /\ lower = 0 => \A k \in DOMAIN Pairs :
                 /\ Key(k) = Pairs[PairsUpper[k]][2]
                 /\ PairMatches(Pairs[PairsUpper[k]], wc, lower)
                      <=> Key(k) = wc
           /\ (\A k \in DOMAIN Pairs : Key(k) # wc)
                => PairHits(wc, lower) = {}
<1>1. CASE lower = 1
  BY <1>1 DEF Key, At, PairMatches, PairHits
<1>2. CASE lower = 0
  <2>1. \A k \in DOMAIN Pairs :
           /\ Key(k) = Pairs[PairsUpper[k]][2]
           /\ PairMatches(Pairs[PairsUpper[k]], wc, lower) <=> Key(k) = wc
    BY <1>2 DEF Key, At, PairMatches
  <2>2. \A m \in DOMAIN Pairs : \E k \in DOMAIN Pairs : PairsUpper[k] = m
    BY KeysSorted, SortedOK DEF IndexOf
  <2>3. ASSUME \A k \in DOMAIN Pairs : Key(k) # wc
        PROVE  PairHits(wc, lower) = {}
    BY <2>1, <2>2, <2>3 DEF PairHits
  <2> QED BY <1>2, <2>1, <2>3
<1> QED BY <1>1, <1>2

(* The window of pairs[]. *)
PairWindow ==
    /\ lo <= Len(Pairs) + 1 /\ hi <= Len(Pairs)
    /\ \A k \in DOMAIN Pairs : Key(k) = wc => k \in lo .. hi

(* A probe of pairs[] finds the key or narrows the window.                 *)
LEMMA NarrowPairs ==
    ASSUME lower \in {0, 1}, wc \in CodePoint, lo \in Nat \ {0}, hi \in Nat,
           lo <= hi, PairWindow
    PROVE  /\ Mid \in DOMAIN Pairs /\ Mid \in lo .. hi
           /\ Key(Mid) < wc => \A k \in DOMAIN Pairs :
                 Key(k) = wc => k \in Mid + 1 .. hi
           /\ Key(Mid) # wc /\ ~(Key(Mid) < wc) => \A k \in DOMAIN Pairs :
                 Key(k) = wc => k \in lo .. Mid - 1
<1>1. DOMAIN Pairs = 1 .. Len(Pairs) /\ Len(Pairs) \in Nat
  BY KeysSorted
<1>2. Mid \in lo .. hi /\ Mid \in DOMAIN Pairs
  BY <1>1 DEF Mid, PairWindow
<1>3. wc \in Nat
  BY WordOK DEF CodePoint
<1>4. SUFFICES ASSUME NEW k \in DOMAIN Pairs, Key(k) = wc
      PROVE  /\ Key(Mid) < wc => k \in Mid + 1 .. hi
             /\ Key(Mid) # wc /\ ~(Key(Mid) < wc) => k \in lo .. Mid - 1
  BY <1>2
<1>5. k \in lo .. hi /\ k \in Nat /\ Mid \in Nat
  BY <1>1, <1>2, <1>4 DEF PairWindow
<1>6. /\ Key(Mid) \in Nat
      /\ k < Mid => Key(k) <= Key(Mid)
      /\ Mid < k => Key(Mid) <= Key(k)
      /\ k = Mid => Key(k) = Key(Mid)
  BY <1>2, KeysSorted
<1>7. Key(Mid) < wc => Mid < k
  BY <1>3, <1>4, <1>5, <1>6
<1>8. Key(Mid) # wc /\ ~(Key(Mid) < wc) => k < Mid
  BY <1>3, <1>4, <1>5, <1>6
<1> QED BY <1>5, <1>7, <1>8

-----------------------------------------------------------------------------
(* The inductive invariant: windows keep their hits, tables that were left *)
(* have none, and a walk over pairs with one key knows the pair with the   *)
(* smallest index among those it has seen.                                 *)
Best(S) ==
    \E m \in PairHits(wc, lower) :
        /\ best = Pairs[m][1]
        /\ \A k \in DOMAIN Pairs : k \in S /\ Key(k) = wc => m <= PairsUpper[k]

Windows ==
    /\ pc = "bcasemaps" => Window(Case, CaseUpper)
    /\ pc = "bcasemapsl" => Window(CaseL, CaseLUpper)
    /\ pc = "bpairs" => PairWindow

Left ==
    /\ pc \in {"bcasemapsl", "bpairs", "first", "down", "up"} =>
          Hits(Case, wc, lower) = {}
    /\ pc \in {"bpairs", "first", "down", "up"} => Hits(CaseL, wc, lower) = {}

Walks ==
    /\ pc = "first" =>
          lower = 1 /\ i \in DOMAIN Pairs /\ Pairs[i][1] = wc
    /\ pc \in {"down", "up"} =>
          lower = 0 /\ Mid \in DOMAIN Pairs /\ Key(Mid) = wc
    /\ pc = "down" => i \in 0 .. Mid - 1 /\ Best(i + 1 .. Mid)
    /\ pc = "up" => i \in Mid + 1 .. Len(Pairs) + 1 /\ Best(1 .. i - 1)

BInv ==
    /\ BTyped
    /\ pc # "idle" => wc \in Inputs
    /\ pc # "down" => i # 0
    /\ Passed /\ ReturnsAnswer
    /\ Windows /\ Left /\ Walks

(* Before a search and in the linear loops the invariant is that of the    *)
(* linear lookup.                                                          *)
Linear == pc \in {"idle", "excl", "turkish", "casemaps", "casemapsl", "pairs",
                  "return"}

(* A step the linear lookup takes, too, keeps the invariant.               *)
LEMMA LinearStep ==
    ASSUME BInv, Linear, Next, header' = header,
           lo' \in Nat \ {0}, hi' \in Nat, best' \in CodePoint
    PROVE  BInv'
<1>1. IInv
  BY DEF BInv, BTyped, Linear, IInv, TypeOK
<1>2. IInv'
  BY <1>1, StepInv
<1>3. /\ TypeOK' /\ (pc # "idle" => wc \in Inputs)' /\ Passed' /\ ReturnsAnswer'
  BY <1>2 DEF IInv
<1>4. Linear' /\ (i \in Nat \ {0})' /\ CallType'
  BY <1>3 DEF TypeOK, Linear
<1>5. BTyped'
  BY <1>4 DEF BTyped, Linear, BInv
<1>6. Windows' /\ Left' /\ Walks'
  BY <1>4 DEF Linear, Windows, Left, Walks
<1> QED BY <1>3, <1>4, <1>5, <1>6 DEF BInv

(* casemapsl[] is skipped only when it has no hit.                         *)
LEMMA SkipCaseL ==
    ASSUME lower \in {0, 1}, wc \in CodePoint, ~InCaseL
    PROVE  Hits(CaseL, wc, lower) = {}
<1> DEFINE first == CaseL[1]
           last == CaseL[Len(CaseL)]
<1>1. Arranged(CaseL, CaseLUpper) /\ Len(CaseL) > 0 /\ TableOK(CaseL)
  BY BothArranged, BsearchOK, TablesOK
<1>2. /\ DOMAIN CaseL = 1 .. Len(CaseL) /\ Len(CaseL) \in Nat \ {0}
      /\ 1 \in DOMAIN CaseL /\ Entry(first) /\ Entry(last)
  BY <1>1 DEF TableOK
<1>3. first.upper \in Nat /\ last.upper \in Nat /\ last.len \in Nat
  BY <1>2 DEF Entry
<1>4. wc \in Nat
  BY WordOK DEF CodePoint
<1>5. CASE lower = 0
  BY <1>1, <1>5, Outside DEF InCaseL
<1>6. CASE lower = 1 /\ wc >= first.upper
  <2>1. Minus(wc, first.upper) = wc - first.upper
    BY <1>6 DEF Minus
  <2>2. MapLastLen(last) \in Int
    BY <1>3 DEF MapLastLen
  <2>3. ~(wc - first.upper <= last.upper + MapLastLen(last) - first.upper)
    BY <1>6, <2>1 DEF InCaseL
  <2> HIDE DEF first, last
  <2>4. ~(wc <= last.upper + MapLastLen(last))
    BY <1>3, <1>4, <2>2, <2>3
  <2>5. ~BelowLast(CaseL)
    BY <2>4 DEF BelowLast, last
  <2> QED BY <1>1, <1>6, <2>5, Outside
<1>7. CASE lower = 1 /\ first.upper > wc
  <2>1. \A k \in DOMAIN CaseL : k >= 1 => ~Covers(CaseL[k], wc, 1)
    BY <1>1, <1>2, <1>7, EarlyExit
  <2> QED BY <1>2, <1>7, <2>1 DEF Hits
<1> HIDE DEF first
<1> QED BY <1>3, <1>4, <1>5, <1>6, <1>7

(* Past casemaps[], the search goes on with a whole table.                 *)
LEMMA EntersCaseL ==
    ASSUME lower \in {0, 1}, wc \in CodePoint, EnterCaseL,
           UNCHANGED <<wc, lower>>
    PROVE  /\ pc' \in {"bcasemapsl", "bpairs"}
           /\ lo' \in Nat \ {0} /\ hi' \in Nat /\ Windows'
           /\ pc' = "bpairs" => Hits(CaseL, wc, lower) = {}
<1>1. CASE InCaseL
  <2>1. pc' = "bcasemapsl" /\ lo' = 1 /\ hi' = Len(CaseL)
    BY <1>1 DEF EnterCaseL, Bisect
  <2>2. Window(CaseL, CaseLUpper)' /\ Len(CaseL) \in Nat
    BY <2>1, BothArranged, WholeWindow, TablesOK DEF TableOK
  <2> QED BY <2>1, <2>2 DEF Windows
<1>2. CASE ~InCaseL
  <2>1. pc' = "bpairs" /\ lo' = 1 /\ hi' = Len(Pairs)
    BY <1>2 DEF EnterCaseL, EnterPairs, Bisect
  <2>2. PairWindow' /\ Len(Pairs) \in Nat
    BY <2>1, KeysSorted DEF PairWindow
  <2> QED BY <1>2, <2>1, <2>2, SkipCaseL DEF Windows
<1> QED BY <1>1, <1>2

(* The same from the start.                                                *)
LEMMA EntersCase ==
    ASSUME lower \in {0, 1}, wc \in CodePoint, EnterCase,
           UNCHANGED <<wc, lower>>
    PROVE  /\ pc' \in {"bcasemaps", "bcasemapsl", "bpairs"}
           /\ lo' \in Nat \ {0} /\ hi' \in Nat /\ Windows'
           /\ pc' # "bcasemaps" => Hits(Case, wc, lower) = {}
           /\ pc' = "bpairs" => Hits(CaseL, wc, lower) = {}
<1>1. CASE InCase
  <2>1. pc' = "bcasemaps" /\ lo' = 1 /\ hi' = Len(Case)
    BY <1>1 DEF EnterCase, Bisect
  <2>2. Window(Case, CaseUpper)' /\ Len(Case) \in Nat
    BY <2>1, BothArranged, WholeWindow, TablesOK DEF TableOK
  <2> QED BY <2>1, <2>2 DEF Windows
<1>2. CASE ~InCase
  <2>1. Hits(Case, wc, lower) = {}
    BY <1>2, BothArranged, BsearchOK, Outside DEF InCase
  <2>2. EnterCaseL
    BY <1>2 DEF EnterCase
  <2> QED BY <2>1, <2>2, EntersCaseL
<1> QED BY <1>1, <1>2

-----------------------------------------------------------------------------
(* What a search returns is the answer of the tables. *)
Finds == pc' = "return" => result' = Answer(wc, lower)

(* A search that returns the answer of the tables keeps the invariant.     *)
LEMMA Answers ==
    ASSUME BInv, pc # "idle", pc' = "return",
           result' = Answer(wc, lower), result' \in CodePoint,
           UNCHANGED <<wc, lower, locale, header>>, i' \in Nat \ {0},
           lo' \in Nat \ {0}, hi' \in Nat, best' \in CodePoint
    PROVE  BInv' /\ Finds
BY DEF BInv, Finds, BTyped, CallType, Passed, ReturnsAnswer, Windows, Left, Walks

(* A probe of casemaps[] keeps the invariant.                              *)
LEMMA CaseStep == ASSUME BInv, BisectCase, header' = header
    PROVE  BInv' /\ Finds
<1>1. /\ pc = "bcasemaps" /\ wc \in CodePoint /\ lower \in {0, 1}
      /\ i \in Nat \ {0} /\ lo \in Nat \ {0} /\ hi \in Nat
      /\ best \in CodePoint /\ Window(Case, CaseUpper)
      /\ UNCHANGED <<wc, lower, locale, i, best>>
  BY DEF BisectCase, BisectTable, BInv, BTyped, CallType, Windows
<1>2. CASE lo > hi
  <2>1. EnterCaseL /\ UNCHANGED result
    BY <1>2 DEF BisectCase, BisectTable
  <2>2. Hits(Case, wc, lower) = {}
    BY <1>1, <1>2, BothArranged, EmptyWindow
  <2>3. /\ pc' \in {"bcasemapsl", "bpairs"}
        /\ lo' \in Nat \ {0} /\ hi' \in Nat /\ Windows'
        /\ pc' = "bpairs" => Hits(CaseL, wc, lower) = {}
    BY <1>1, <2>1, EntersCaseL
  <2> QED BY <1>1, <2>1, <2>2, <2>3
          DEF BInv, Finds, BTyped, CallType, Passed, ReturnsAnswer, Left, Walks
<1>3. CASE lo <= hi
  <2>1. Probe(Case, CaseUpper)
    BY <1>1, <1>3 DEF BisectCase, BisectTable, Probe
  <2>2. \/ /\ pc' = "return" /\ UNCHANGED <<lo, hi>>
           /\ Hits(Case, wc, lower) # {}
           /\ result' = FromTable(Case, wc, lower)
           /\ result' \in CodePoint
        \/ /\ pc' = pc /\ result' = result
           /\ lo' \in Nat \ {0} /\ hi' \in Nat
           /\ Window(Case, CaseUpper)'
    BY <1>1, <1>3, <2>1, BothArranged, ProbeTable
  <2>3. CASE pc' = "return"
    BY <1>1, <2>2, <2>3, Answers DEF Answer
  <2>4. CASE pc' # "return"
    BY <1>1, <2>2, <2>4
       DEF BInv, Finds, BTyped, CallType, Passed, ReturnsAnswer, Windows, Left, Walks
  <2> QED BY <2>3, <2>4
<1> QED BY <1>1, <1>2, <1>3

(* A probe of casemapsl[] keeps the invariant.                             *)
LEMMA CaseLStep == ASSUME BInv, BisectCaseL, header' = header
    PROVE  BInv' /\ Finds
<1>1. /\ pc = "bcasemapsl" /\ wc \in CodePoint /\ lower \in {0, 1}
      /\ i \in Nat \ {0} /\ lo \in Nat \ {0} /\ hi \in Nat
      /\ best \in CodePoint /\ Window(CaseL, CaseLUpper)
      /\ Hits(Case, wc, lower) = {}
      /\ UNCHANGED <<wc, lower, locale, i, best>>
  BY DEF BisectCaseL, BisectTable, BInv, BTyped, CallType, Windows, Left
<1>2. CASE lo > hi
  <2>1. pc' = "bpairs" /\ lo' = 1 /\ hi' = Len(Pairs) /\ UNCHANGED result
    BY <1>2 DEF BisectCaseL, BisectTable, EnterPairs, Bisect
  <2>2. Hits(CaseL, wc, lower) = {}
    BY <1>1, <1>2, BothArranged, EmptyWindow
  <2>3. Windows' /\ Len(Pairs) \in Nat
    BY <1>1, <2>1, KeysSorted DEF Windows, PairWindow
  <2> QED BY <1>1, <2>1, <2>2, <2>3
          DEF BInv, Finds, BTyped, CallType, Passed, ReturnsAnswer, Left, Walks
<1>3. CASE lo <= hi
  <2>1. Probe(CaseL, CaseLUpper)
    BY <1>1, <1>3 DEF BisectCaseL, BisectTable, Probe
  <2>2. \/ /\ pc' = "return" /\ UNCHANGED <<lo, hi>>
           /\ Hits(CaseL, wc, lower) # {}
           /\ result' = FromTable(CaseL, wc, lower)
           /\ result' \in CodePoint
        \/ /\ pc' = pc /\ result' = result
           /\ lo' \in Nat \ {0} /\ hi' \in Nat
           /\ Window(CaseL, CaseLUpper)'
    BY <1>1, <1>3, <2>1, BothArranged, ProbeTable
  <2>3. CASE pc' = "return"
    BY <1>1, <2>2, <2>3, Answers DEF Answer
  <2>4. CASE pc' # "return"
    BY <1>1, <2>2, <2>4
       DEF BInv, Finds, BTyped, CallType, Passed, ReturnsAnswer, Windows, Left, Walks
  <2> QED BY <2>3, <2>4
<1> QED BY <1>1, <1>2, <1>3

(* A probe of pairs[] keeps the invariant.                                 *)
LEMMA PairsStep == ASSUME BInv, BisectPairs, header' = header
    PROVE  BInv' /\ Finds
<1>1. /\ pc = "bpairs" /\ wc \in CodePoint /\ lower \in {0, 1}
      /\ i \in Nat \ {0} /\ lo \in Nat \ {0} /\ hi \in Nat
      /\ best \in CodePoint /\ PairWindow
      /\ Hits(Case, wc, lower) = {} /\ Hits(CaseL, wc, lower) = {}
      /\ UNCHANGED <<wc, lower, locale>>
  BY DEF BisectPairs, BInv, BTyped, CallType, Windows, Left
<1>2. CASE lo > hi
  <2>1. \A k \in DOMAIN Pairs : Key(k) # wc
    BY <1>1, <1>2 DEF PairWindow
  <2>2. Answer(wc, lower) = wc
    BY <1>1, <2>1, KeyMatches DEF Answer
  <2>3. pc' = "return" /\ result' = wc /\ UNCHANGED <<i, lo, hi, best>>
    BY <1>2 DEF BisectPairs, Answered
  <2> QED BY <1>1, <2>2, <2>3, Answers
<1>3. CASE lo <= hi
  <2>1. /\ Mid \in DOMAIN Pairs /\ Mid \in lo .. hi
        /\ Key(Mid) < wc => \A k \in DOMAIN Pairs :
              Key(k) = wc => k \in Mid + 1 .. hi
        /\ Key(Mid) # wc /\ ~(Key(Mid) < wc) => \A k \in DOMAIN Pairs :
              Key(k) = wc => k \in lo .. Mid - 1
    BY <1>1, <1>3, NarrowPairs
  <2>2. hi <= Len(Pairs) /\ Len(Pairs) \in Nat /\ Mid \in Nat \ {0}
    BY <1>1, <2>1, KeysSorted DEF PairWindow
  <2>3. CASE Key(Mid) = wc /\ lower = 1
    <3>1. /\ pc' = "first" /\ i' = Mid
          /\ UNCHANGED <<best, result, lo, hi>>
      BY <1>1, <1>3, <2>3 DEF BisectPairs
    <3>2. Pairs[Mid][1] = wc
      BY <1>1, <2>1, <2>3, KeyMatches
    <3> QED BY <1>1, <2>1, <2>2, <2>3, <3>1, <3>2
            DEF BInv, Finds, BTyped, CallType, Passed, ReturnsAnswer, Windows,
                Left, Walks
  <2>4. CASE Key(Mid) = wc /\ lower = 0
    <3>1. /\ pc' = "down" /\ i' = Mid - 1 /\ best' = Pairs[PairsUpper[Mid]][1]
          /\ UNCHANGED <<result, lo, hi>>
      BY <1>1, <1>3, <2>4 DEF BisectPairs
    <3>2. /\ PairsUpper[Mid] \in PairHits(wc, lower)
          /\ Pairs[PairsUpper[Mid]] \in CodePoint \X CodePoint
      BY <1>1, <2>1, <2>4, KeysSorted, KeyMatches DEF PairHits
    <3>3. PairsUpper[Mid] \in Nat /\ i' + 1 = Mid /\ i' \in 0 .. Mid - 1
      <4>1. PairsUpper[Mid] \in DOMAIN Pairs
        BY <1>1, <2>1, KeysSorted
      <4>2. DOMAIN Pairs = 1 .. Len(Pairs)
        BY <1>1, KeysSorted
      <4>3. PairsUpper[Mid] \in Nat
        BY <4>1, <4>2
      <4>4. Mid - 1 + 1 = Mid /\ Mid - 1 \in 0 .. Mid - 1
        BY <2>2
      <4> QED BY <3>1, <4>3, <4>4
    <3>4. Best(i + 1 .. Mid)'
      <4>1. \A k \in Mid .. Mid : k = Mid
        BY <2>2
      <4> QED BY <1>1, <3>1, <3>2, <3>3, <4>1 DEF Best, Mid, Key, At
    <3>5. Walks'
      BY <1>1, <2>1, <2>4, <3>1, <3>3, <3>4 DEF Walks, Mid, Key, At
    <3> QED BY <1>1, <2>2, <3>1, <3>2, <3>3, <3>5
            DEF BInv, Finds, BTyped, CallType, Passed, ReturnsAnswer, Windows, Left
  <2>5. CASE Key(Mid) # wc /\ Key(Mid) < wc
    <3>1. /\ pc' = pc /\ result' = result /\ lo' = Mid + 1 /\ hi' = hi
          /\ UNCHANGED <<i, best>>
      BY <1>1, <1>3, <2>5 DEF BisectPairs, RightHalf
    <3>2. PairWindow'
      BY <1>1, <2>1, <2>2, <2>5, <3>1 DEF PairWindow, Key, At
    <3> QED BY <1>1, <2>2, <3>1, <3>2
            DEF BInv, Finds, BTyped, CallType, Passed, ReturnsAnswer, Windows,
                Left, Walks
  <2>6. CASE Key(Mid) # wc /\ ~(Key(Mid) < wc)
    <3>1. /\ pc' = pc /\ result' = result /\ lo' = lo /\ hi' = Mid - 1
          /\ UNCHANGED <<i, best>>
      BY <1>1, <1>3, <2>6 DEF BisectPairs, LeftHalf
    <3>2. PairWindow'
      BY <1>1, <2>1, <2>2, <2>6, <3>1 DEF PairWindow, Key, At
    <3> QED BY <1>1, <2>2, <3>1, <3>2
            DEF BInv, Finds, BTyped, CallType, Passed, ReturnsAnswer, Windows,
                Left, Walks
  <2> QED BY <1>1, <2>3, <2>4, <2>5, <2>6
<1> QED BY <1>1, <1>2, <1>3

(* Walking back to the first pair with the key keeps the invariant.        *)
LEMMA FirstStep == ASSUME BInv, WalkToFirst, header' = header
    PROVE  BInv' /\ Finds
<1>1. /\ pc = "first" /\ wc \in CodePoint /\ lower = 1
      /\ i \in Nat \ {0} /\ lo \in Nat \ {0} /\ hi \in Nat
      /\ best \in CodePoint /\ i \in DOMAIN Pairs /\ Pairs[i][1] = wc
      /\ Hits(Case, wc, lower) = {} /\ Hits(CaseL, wc, lower) = {}
      /\ UNCHANGED <<wc, lower, locale, lo, hi, best>>
  BY DEF WalkToFirst, BInv, BTyped, CallType, Walks, Left
<1>2. /\ DOMAIN Pairs = 1 .. Len(Pairs) /\ Len(Pairs) \in Nat
      /\ \A k \in DOMAIN Pairs : Pairs[k] \in CodePoint \X CodePoint
  BY <1>1, KeysSorted
<1>3. CASE i > 1 /\ Pairs[i - 1][1] = wc
  <2>1. i' = i - 1 /\ pc' = pc /\ result' = result
    BY <1>3 DEF WalkToFirst
  <2> QED BY <1>1, <1>2, <1>3, <2>1
          DEF BInv, Finds, BTyped, CallType, Passed, ReturnsAnswer, Windows, Left,
              Walks
<1>4. CASE ~(i > 1 /\ Pairs[i - 1][1] = wc)
  <2>1. pc' = "return" /\ result' = Pairs[i][2] /\ i' = i
    BY <1>4 DEF WalkToFirst, Answered
  <2>2. \A j \in DOMAIN Pairs : j < i => ~PairMatches(Pairs[j], wc, lower)
    <3> SUFFICES ASSUME NEW j \in DOMAIN Pairs, j < i
                 PROVE  ~PairMatches(Pairs[j], wc, lower)
      OBVIOUS
    <3>1. i - 1 \in DOMAIN Pairs /\ Key(i - 1) # wc /\ Key(i) = wc
      BY <1>1, <1>2, <1>4, KeyMatches
    <3>2. Key(i - 1) <= Key(i) /\ Key(j) <= Key(i - 1)
      <4>1. j < i - 1 \/ j = i - 1
        BY <1>1, <1>2
      <4>2. Key(i - 1) <= Key(i)
        BY <1>1, <3>1, KeysSorted
      <4>3. Key(j) <= Key(i - 1)
        BY <1>1, <3>1, <4>1, KeysSorted
      <4> QED BY <4>2, <4>3
    <3>3. Key(j) \in Nat /\ Key(i - 1) \in Nat /\ Key(i) \in Nat
      BY <1>1, <3>1, KeysSorted
    <3>4. Key(j) # wc
      BY <3>1, <3>2, <3>3
    <3> QED BY <1>1, <3>4, KeyMatches
  <2>3. PairMatches(Pairs[i], wc, lower)
    BY <1>1 DEF PairMatches
  <2>4. PairHits(wc, lower) # {} /\ First(PairHits(wc, lower)) = i
    BY <1>1, <2>2, <2>3, TablesOK, FirstPair
  <2>5. result' = Answer(wc, lower)
    BY <1>1, <2>1, <2>4 DEF Answer, PairMapped
  <2>6. result' \in CodePoint
    BY <1>1, <1>2, <2>1
  <2> QED BY <1>1, <2>1, <2>5, <2>6, Answers
<1> QED BY <1>3, <1>4

(* Another pair with the key updates what the walk knows: pairs[] is in    *)
(* the order of the uppercase, so the smaller index has the smaller one.   *)
LEMMA BestOfMore ==
    ASSUME lower = 0, best \in CodePoint, NEW S, Best(S),
           NEW k \in DOMAIN Pairs, Key(k) = wc
    PROVE  /\ SmallerUpper(k) \in CodePoint
           /\ \E m \in PairHits(wc, lower) :
                /\ SmallerUpper(k) = Pairs[m][1]
                /\ \A j \in DOMAIN Pairs :
                      j \in S \cup {k} /\ Key(j) = wc => m <= PairsUpper[j]
<1> DEFINE u == PairsUpper[k]
<1>1. /\ u \in DOMAIN Pairs /\ u \in PairHits(wc, lower)
      /\ DOMAIN Pairs = 1 .. Len(Pairs) /\ Len(Pairs) \in Nat
      /\ \A j \in DOMAIN Pairs : /\ Pairs[j] \in CodePoint \X CodePoint
                                 /\ PairsUpper[j] \in DOMAIN Pairs
  BY KeysSorted, KeyMatches DEF PairHits
<1>2. PICK m \in PairHits(wc, lower) :
         /\ best = Pairs[m][1]
         /\ \A j \in DOMAIN Pairs : j \in S /\ Key(j) = wc => m <= PairsUpper[j]
  BY DEF Best
<1>3. m \in DOMAIN Pairs
  BY DEF PairHits
<1>4. Pairs[m][1] \in Nat /\ Pairs[u][1] \in Nat /\ m \in Nat /\ u \in Nat
  BY <1>1, <1>3, WordOK DEF CodePoint
<1>5. /\ m < u => Pairs[m][1] <= Pairs[u][1]
      /\ u < m => Pairs[u][1] <= Pairs[m][1]
      /\ u = m => Pairs[u][1] = Pairs[m][1]
  BY <1>1, <1>3, TablesOK DEF PairsOK
<1>6. SmallerUpper(k) = IF Pairs[u][1] < Pairs[m][1] THEN Pairs[u][1]
                        ELSE Pairs[m][1]
  BY <1>2 DEF SmallerUpper
<1>7. SmallerUpper(k) \in CodePoint
  BY <1>1, <1>2, <1>6
<1>8. CASE m < u
  <2>1. SmallerUpper(k) = Pairs[m][1]
    BY <1>4, <1>5, <1>6, <1>8
  <2>2. \A j \in DOMAIN Pairs :
           j \in S \cup {k} /\ Key(j) = wc => m <= PairsUpper[j]
    BY <1>2, <1>4, <1>8
  <2> QED BY <1>7, <2>1, <2>2
<1>9. CASE ~(m < u)
  <2>1. SmallerUpper(k) = Pairs[u][1]
    BY <1>4, <1>5, <1>6, <1>9
  <2>2. \A j \in DOMAIN Pairs :
           j \in S \cup {k} /\ Key(j) = wc => u <= PairsUpper[j]
    <3> SUFFICES ASSUME NEW j \in DOMAIN Pairs, j \in S \cup {k}, Key(j) = wc
                 PROVE  u <= PairsUpper[j]
      OBVIOUS
    <3>1. PairsUpper[j] \in Nat
      BY <1>1
    <3>2. j = k \/ m <= PairsUpper[j]
      BY <1>2
    <3> QED BY <1>4, <1>9, <3>1, <3>2
  <2> QED BY <1>1, <1>7, <2>1, <2>2
<1> QED BY <1>8, <1>9

(* Walking down over the pairs with the key keeps the invariant.           *)
LEMMA DownStep == ASSUME BInv, WalkDown, header' = header
    PROVE  BInv' /\ Finds
<1>1. /\ pc = "down" /\ wc \in CodePoint /\ lower = 0
      /\ i \in Nat /\ lo \in Nat \ {0} /\ hi \in Nat
      /\ best \in CodePoint /\ i \in 0 .. Mid - 1 /\ Best(i + 1 .. Mid)
      /\ Mid \in DOMAIN Pairs /\ Key(Mid) = wc
      /\ UNCHANGED <<wc, lower, result, locale, lo, hi>>
  BY DEF WalkDown, BInv, BTyped, CallType, Walks
<1>2. /\ DOMAIN Pairs = 1 .. Len(Pairs) /\ Len(Pairs) \in Nat
      /\ Mid \in Nat \ {0} /\ Mid <= Len(Pairs)
  BY <1>1, KeysSorted
<1>3. Mid' = Mid /\ \A k : Key(k)' = Key(k)
  BY <1>1 DEF Mid, Key, At
<1>4. CASE i >= 1 /\ Key(i) = wc
  <2>1. i' = i - 1 /\ best' = SmallerUpper(i) /\ pc' = pc
    BY <1>4 DEF WalkDown
  <2>2. i \in DOMAIN Pairs
    BY <1>1, <1>2, <1>4
  <2>3. PICK m \in PairHits(wc, lower) :
           /\ SmallerUpper(i) = Pairs[m][1]
           /\ \A j \in DOMAIN Pairs :
                 j \in (i + 1 .. Mid) \cup {i} /\ Key(j) = wc
                   => m <= PairsUpper[j]
    BY <1>1, <1>4, <2>2, BestOfMore
  <2>4. SmallerUpper(i) \in CodePoint
    BY <1>1, <1>4, <2>2, BestOfMore
  <2>5. i' + 1 .. Mid = (i + 1 .. Mid) \cup {i} /\ i' \in 0 .. Mid - 1
    BY <1>1, <1>2, <1>4, <2>1
  <2>6. Best(i + 1 .. Mid)'
    BY <1>1, <1>3, <2>1, <2>3, <2>5 DEF Best
  <2>7. Walks'
    BY <1>1, <1>3, <2>1, <2>5, <2>6 DEF Walks
  <2> QED BY <1>1, <2>1, <2>4, <2>5, <2>7
          DEF BInv, Finds, BTyped, CallType, Passed, ReturnsAnswer, Windows, Left
<1>5. CASE ~(i >= 1 /\ Key(i) = wc)
  <2>1. i' = Mid + 1 /\ pc' = "up" /\ best' = best
    BY <1>5 DEF WalkDown
  <2>2. \A k \in DOMAIN Pairs : k <= i => Key(k) # wc
    <3> SUFFICES ASSUME NEW k \in DOMAIN Pairs, k <= i
                 PROVE  Key(k) # wc
      OBVIOUS
    <3>1. i \in DOMAIN Pairs /\ i < Mid /\ k \in Nat /\ Key(i) # wc
      BY <1>1, <1>2, <1>5
    <3>2. k < i \/ k = i
      BY <1>1, <3>1
    <3>3. Key(k) <= Key(i) /\ Key(i) <= Key(Mid)
      <4>1. Key(i) <= Key(Mid) /\ Key(i) \in Nat
        BY <1>1, <3>1, KeysSorted
      <4>2. k < i => Key(k) <= Key(i)
        BY <1>1, <3>1, KeysSorted
      <4>3. k = i => Key(k) = Key(i)
        OBVIOUS
      <4> QED BY <3>2, <4>1, <4>2, <4>3
    <3>4. Key(k) \in Nat /\ Key(i) \in Nat /\ Key(Mid) \in Nat
      BY <1>1, <3>1, KeysSorted
    <3> QED BY <1>1, <3>1, <3>3, <3>4
  <2>3. \A k \in DOMAIN Pairs : k \in 1 .. Mid /\ Key(k) = wc => k \in i + 1 .. Mid
    BY <1>1, <1>2, <2>2
  <2>4. Best(1 .. Mid)
    BY <1>1, <2>3 DEF Best
  <2>5. i' - 1 = Mid /\ i' \in Mid + 1 .. Len(Pairs) + 1 /\ i' \in Nat \ {0}
    BY <1>2, <2>1
  <2>6. Best(1 .. i - 1)'
    BY <1>1, <1>3, <2>1, <2>4, <2>5 DEF Best
  <2>7. Walks'
    BY <1>1, <1>3, <2>1, <2>5, <2>6 DEF Walks
  <2> QED BY <1>1, <2>1, <2>5, <2>7
          DEF BInv, Finds, BTyped, CallType, Passed, ReturnsAnswer, Windows, Left
<1> QED BY <1>4, <1>5

(* Walking up keeps the invariant, and at its end best is the answer.      *)
LEMMA UpStep == ASSUME BInv, WalkUp, header' = header
    PROVE  BInv' /\ Finds
<1>1. /\ pc = "up" /\ wc \in CodePoint /\ lower = 0
      /\ i \in Nat \ {0} /\ lo \in Nat \ {0} /\ hi \in Nat
      /\ best \in CodePoint /\ Best(1 .. i - 1)
      /\ i \in Mid + 1 .. Len(Pairs) + 1
      /\ Mid \in DOMAIN Pairs /\ Key(Mid) = wc
      /\ Hits(Case, wc, lower) = {} /\ Hits(CaseL, wc, lower) = {}
      /\ UNCHANGED <<wc, lower, locale, lo, hi>>
  BY DEF WalkUp, BInv, BTyped, CallType, Walks, Left
<1>2. /\ DOMAIN Pairs = 1 .. Len(Pairs) /\ Len(Pairs) \in Nat
      /\ Mid \in Nat \ {0} /\ Mid <= Len(Pairs)
  BY <1>1, KeysSorted
<1>3. Mid' = Mid /\ \A k : Key(k)' = Key(k)
  BY <1>1 DEF Mid, Key, At
<1>4. CASE i <= Len(Pairs) /\ Key(i) = wc
  <2>1. i' = i + 1 /\ best' = SmallerUpper(i) /\ pc' = pc /\ result' = result
    BY <1>4 DEF WalkUp
  <2>2. i \in DOMAIN Pairs
    BY <1>1, <1>2, <1>4
  <2>3. PICK m \in PairHits(wc, lower) :
           /\ SmallerUpper(i) = Pairs[m][1]
           /\ \A j \in DOMAIN Pairs :
                 j \in (1 .. i - 1) \cup {i} /\ Key(j) = wc
                   => m <= PairsUpper[j]
    BY <1>1, <1>4, <2>2, BestOfMore
  <2>4. SmallerUpper(i) \in CodePoint
    BY <1>1, <1>4, <2>2, BestOfMore
  <2>5. /\ 1 .. i' - 1 = (1 .. i - 1) \cup {i}
        /\ i' \in Mid + 1 .. Len(Pairs) + 1 /\ i' \in Nat \ {0}
    BY <1>1, <1>2, <1>4, <2>1
  <2>6. Best(1 .. i - 1)'
    BY <1>1, <1>3, <2>1, <2>3, <2>5 DEF Best
  <2>7. Walks'
    BY <1>1, <1>3, <2>1, <2>5, <2>6 DEF Walks
  <2> QED BY <1>1, <2>1, <2>4, <2>5, <2>7
          DEF BInv, Finds, BTyped, CallType, Passed, ReturnsAnswer, Windows, Left
<1>5. CASE ~(i <= Len(Pairs) /\ Key(i) = wc)
  <2>1. pc' = "return" /\ result' = best /\ UNCHANGED <<i, best>>
    BY <1>5 DEF WalkUp, Answered
  <2>2. \A k \in DOMAIN Pairs : k >= i => Key(k) # wc
    <3> SUFFICES ASSUME NEW k \in DOMAIN Pairs, k >= i
                 PROVE  Key(k) # wc
      OBVIOUS
    <3>1. i \in DOMAIN Pairs /\ Mid < i /\ k \in Nat /\ Key(i) # wc
      BY <1>1, <1>2, <1>5
    <3>2. i < k \/ k = i
      BY <1>1, <3>1
    <3>3. Key(i) <= Key(k) /\ Key(Mid) <= Key(i)
      <4>1. Key(Mid) <= Key(i) /\ Key(i) \in Nat
        BY <1>1, <3>1, KeysSorted
      <4>2. i < k => Key(i) <= Key(k)
        BY <1>1, <3>1, KeysSorted
      <4>3. k = i => Key(k) = Key(i)
        OBVIOUS
      <4> QED BY <3>2, <4>1, <4>2, <4>3
    <3>4. Key(k) \in Nat /\ Key(i) \in Nat /\ Key(Mid) \in Nat
      BY <1>1, <3>1, KeysSorted
    <3> QED BY <1>1, <3>1, <3>3, <3>4
  <2>3. \A k \in DOMAIN Pairs : Key(k) = wc => k \in 1 .. i - 1
    BY <1>1, <1>2, <2>2
  <2>4. PICK m \in PairHits(wc, lower) :
           /\ best = Pairs[m][1]
           /\ \A k \in DOMAIN Pairs : Key(k) = wc => m <= PairsUpper[k]
    BY <1>1, <2>3 DEF Best
  <2>5. \A n \in PairHits(wc, lower) : m <= n
    <3> SUFFICES ASSUME NEW n \in PairHits(wc, lower) PROVE m <= n
      OBVIOUS
    <3>1. PICK k \in DOMAIN Pairs : PairsUpper[k] = n
      BY KeysSorted, SortedOK, <1>1 DEF IndexOf, PairHits
    <3>2. Key(k) = wc
      BY <1>1, <3>1, KeyMatches DEF PairHits
    <3> QED BY <2>4, <3>1, <3>2
  <2>6. PairHits(wc, lower) \in SUBSET Nat
    BY <1>2 DEF PairHits
  <2>7. First(PairHits(wc, lower)) = m
    BY <2>5, <2>6, FirstIsLeast
  <2>8. result' = Answer(wc, lower)
    BY <1>1, <2>1, <2>4, <2>7 DEF Answer, PairMapped
  <2> QED BY <1>1, <2>1, <2>8, Answers
<1> QED BY <1>4, <1>5

(* Reading the locale and entering the search keeps the invariant.         *)
LEMMA BeginStep == ASSUME BInv, BBegin, header' = header PROVE BInv'
<1>1. /\ pc = "turkish" /\ wc \in CodePoint /\ lower \in {0, 1}
      /\ i \in Nat \ {0} /\ lo \in Nat \ {0} /\ hi \in Nat
      /\ best \in CodePoint /\ Linear
  BY DEF BBegin, Begin, LocaleTr, BInv, BTyped, CallType, Linear
<1>2. CASE ~Bisects
  BY <1>1, <1>2, LinearStep DEF BBegin, Next, Step
<1>3. CASE /\ Bisects
           /\ HaveLocaleTr /\ Turkish(wc, lower) # {} /\ locale \in TurkicLocales
  <2>1. /\ pc' = "return" /\ result' = TurkishAnswer(wc, lower)
        /\ UNCHANGED <<wc, lower, locale, i, lo, hi, best>>
    BY <1>3 DEF BBegin, Answered
  <2>2. result' \in CodePoint
    BY <1>1, <1>3, <2>1, TurkishType
  <2>3. ReturnsAnswer'
    BY <1>1, <1>3, <2>1, TurkishType DEF ReturnsAnswer, Turkish
  <2> QED BY <1>1, <2>1, <2>2, <2>3
          DEF BInv, BTyped, CallType, Passed, Windows, Left, Walks
<1>4. CASE /\ Bisects
           /\ ~(/\ HaveLocaleTr /\ Turkish(wc, lower) # {}
                /\ locale \in TurkicLocales)
  <2>1. EnterCase /\ UNCHANGED <<wc, lower, result, locale, i, best>>
    BY <1>4 DEF BBegin
  <2>2. /\ pc' \in {"bcasemaps", "bcasemapsl", "bpairs"}
        /\ lo' \in Nat \ {0} /\ hi' \in Nat /\ Windows'
        /\ pc' # "bcasemaps" => Hits(Case, wc, lower) = {}
        /\ pc' = "bpairs" => Hits(CaseL, wc, lower) = {}
    BY <1>1, <2>1, EntersCase
  <2> QED BY <1>1, <2>1, <2>2
          DEF BInv, BTyped, CallType, Passed, ReturnsAnswer, Left, Walks
<1> QED BY <1>2, <1>3, <1>4

(* Nothing is searched at the start.                                       *)
LEMMA BInitInv == BInit => BInv
BY WordOK DEF BInit, Init, CallInit, BInv, BTyped, CallType, Passed,
              ReturnsAnswer, Windows, Left, Walks, CodePoint

(* Every step of the lookups, their callers and other threads keeps the    *)
(* invariant.                                                              *)
LEMMA BStepInv == BInv /\ [BNext]_bvars => BInv'
<1> SUFFICES ASSUME BInv, [BNext]_bvars PROVE BInv'
  OBVIOUS
<1>1. /\ lo \in Nat \ {0} /\ hi \in Nat /\ best \in CodePoint
      /\ 0 \in CodePoint /\ 0 \in Nat /\ 1 \in Nat \ {0}
  BY WordOK DEF BInv, BTyped, CodePoint
<1>2. CASE /\ Enter \/ SearchCase \/ SearchCaseL \/ SearchPairs
           /\ UNCHANGED <<lo, hi, best>> /\ UNCHANGED header
  <2>1. Linear
    BY <1>2 DEF Enter, Exclude, SearchCase, SearchCaseL, SearchPairs,
                SearchTable, Linear
  <2> QED BY <1>1, <1>2, <2>1, LinearStep DEF Next, Step
<1>3. CASE BBegin /\ UNCHANGED header
  BY <1>3, BeginStep
<1>4. CASE BisectCase /\ UNCHANGED header
  BY <1>4, CaseStep
<1>5. CASE BisectCaseL /\ UNCHANGED header
  BY <1>5, CaseLStep
<1>6. CASE BisectPairs /\ UNCHANGED header
  BY <1>6, PairsStep
<1>7. CASE WalkToFirst /\ UNCHANGED header
  BY <1>7, FirstStep
<1>8. CASE WalkDown /\ UNCHANGED header
  BY <1>8, DownStep
<1>9. CASE WalkUp /\ UNCHANGED header
  BY <1>9, UpStep
<1>10. CASE Call /\ UNCHANGED <<i, lo, hi, best>> /\ UNCHANGED header
  <2>1. Linear
    BY <1>10 DEF Call, Linear
  <2> QED BY <1>1, <1>10, <2>1, LinearStep DEF Next
<1>11. CASE SetLocale /\ UNCHANGED <<i, lo, hi, best>> /\ UNCHANGED header
  BY <1>11 DEF SetLocale, BInv, BTyped, CallType, Passed, ReturnsAnswer,
     Windows, Window, PairWindow, Left, Walks, Best, Mid, Key, At
<1>12. CASE /\ Return /\ i' = 1 /\ lo' = 1 /\ hi' = 0 /\ best' = 0
            /\ UNCHANGED header
  <2>1. Linear
    BY <1>12 DEF Return, Linear
  <2> QED BY <1>1, <1>12, <2>1, LinearStep DEF Next
<1>13. CASE UNCHANGED bvars
  BY <1>13 DEF bvars, BInv, BTyped, CallType, Passed, ReturnsAnswer,
     Windows, Window, PairWindow, Left, Walks, Best, Mid, Key, At
<1> QED BY <1>2, <1>3, <1>4, <1>5, <1>6, <1>7, <1>8, <1>9, <1>10, <1>11,
           <1>12, <1>13 DEF BNext, BStep, BEnvironment

(* Between bounds inside a table the probe is inside it.                   *)
LEMMA InsideTables ==
    ASSUME lo \in Nat \ {0}, hi \in Nat, NEW n \in Nat, lo <= n + 1, hi <= n
    PROVE  Inside(n)
BY DEF Inside, Mid

(* What a walk knows of its place.                                         *)
LEMMA WalkEnds == BInv => WalksInside
<1> SUFFICES ASSUME BInv PROVE WalksInside
  OBVIOUS
<1>1. DOMAIN Pairs = 1 .. Len(Pairs)
  BY TablesOK DEF PairsOK
<1> QED BY <1>1 DEF BInv, Walks, WalksInside

(* BTypeOK for all tables and headers: no probe outside a table, no walk   *)
(* out of pairs[], no result outside uint32_t.                             *)
THEOREM BTypeCorrect == BSpec => []BTypeOK
<1>1. BInv => BTyped
  BY DEF BInv
<1>2. BInv => ProbesInside
  BY InsideTables DEF BInv, BTyped, Windows, Window, PairWindow, ProbesInside
<1>3. BInv => WalksInside
  BY WalkEnds
<1>4. BInv => BTypeOK
  BY <1>1, <1>2, <1>3 DEF BTypeOK
<1> QED BY BInitInv, BStepInv, <1>4, PTL DEF BSpec

(* WindowKeepsHit for all tables and headers: a bisection never drops the  *)
(* half of the table that holds the hit.                                   *)
THEOREM WindowCorrect == BSpec => []WindowKeepsHit
<1>1. BInv => WindowKeepsHit
  BY DEF BInv, Windows, Window, PairWindow, WindowKeepsHit
<1> QED BY BInitInv, BStepInv, <1>1, PTL DEF BSpec

(* ReturnsAnswer for all tables and headers: bisecting, skipping tables by *)
(* their span and walking over equal keys give the answer of a full search *)
(* from the front.                                                         *)
THEOREM BAnswerCorrect == BSpec => []ReturnsAnswer
<1>1. BInv => ReturnsAnswer
  BY DEF BInv
<1> QED BY BInitInv, BStepInv, <1>1, PTL DEF BSpec

-----------------------------------------------------------------------------
(* The refinement: calling, deciding and returning are steps of the linear *)
(* lookup, too, or the same with another search after them.                *)
LEMMA BRefinesStep == BInv /\ [BNext]_bvars => [Mapping!Next]_Mapping!vars
<1> SUFFICES ASSUME BInv, [BNext]_bvars
             PROVE  [Mapping!Next]_Mapping!vars
  OBVIOUS
<1>1. ASSUME Linear, [Next]_vars PROVE [Mapping!Next]_Mapping!vars
  <2>1. IInv
    BY <1>1 DEF BInv, BTyped, Linear, IInv, TypeOK
  <2> QED BY <1>1, <2>1, RefinesStep
<1>2. CASE Enter \/ SearchCase \/ SearchCaseL \/ SearchPairs
  <2>1. Linear
    BY <1>2 DEF Enter, Exclude, SearchCase, SearchCaseL, SearchPairs,
                SearchTable, Linear
  <2> QED BY <1>1, <1>2, <2>1 DEF Next, Step
<1>3. CASE BBegin /\ ~Bisects
  <2>1. Begin /\ Linear
    BY <1>3 DEF BBegin, Begin, LocaleTr, Linear
  <2> QED BY <1>1, <2>1 DEF Next, Step
<1>4. CASE BBegin /\ Bisects
  <2>1. /\ pc = "turkish" /\ wc \in CodePoint /\ lower \in {0, 1}
        /\ UNCHANGED <<wc, lower, locale>>
    BY <1>4 DEF BBegin, BInv, BTyped, CallType
  <2>2. CASE HaveLocaleTr /\ Turkish(wc, lower) # {} /\ locale \in TurkicLocales
    <3>1. Mapping!Decide
      BY <1>4, <2>1, <2>2
         DEF BBegin, Answered, Lookup, Undecided, Mapping!Decide
    <3> QED BY <3>1 DEF Mapping!Next
  <2>3. CASE ~(HaveLocaleTr /\ Turkish(wc, lower) # {} /\ locale \in TurkicLocales)
    <3>1. Lookup(wc, lower, locale) = Answer(wc, lower)
      BY <2>3 DEF Lookup
    <3>2. EnterCase
      BY <1>4, <2>3 DEF BBegin
    <3>3. pc' \in {"bcasemaps", "bcasemapsl", "bpairs"}
      BY <2>1, <3>2, EntersCase
    <3>4. Mapping!Decide
      BY <2>1, <3>1, <3>3 DEF Undecided, Mapping!Decide
    <3> QED BY <3>4 DEF Mapping!Next
  <2> QED BY <2>2, <2>3
<1>5. CASE /\ \/ BisectCase \/ BisectCaseL \/ BisectPairs
              \/ WalkToFirst \/ WalkDown \/ WalkUp
           /\ UNCHANGED header
  <2>1. Finds /\ BInv'
    BY <1>5, CaseStep, CaseLStep, PairsStep, FirstStep, DownStep, UpStep
  <2>2. /\ pc \in {"bcasemaps", "bcasemapsl", "bpairs", "first", "down", "up"}
        /\ pc' \in {"bcasemaps", "bcasemapsl", "bpairs", "first", "down", "up",
                    "return"}
        /\ UNCHANGED <<wc, lower, locale>>
    BY <1>5 DEF BisectCase, BisectCaseL, BisectTable, EnterCaseL, EnterPairs,
       Bisect, LeftHalf, RightHalf, Answered, BisectPairs, WalkToFirst,
       WalkDown, WalkUp
  <2> QED BY <2>1, <2>2 DEF Finds, Undecided, Mapping!vars
<1>6. CASE Call \/ (Return /\ i' = 1)
  <2>1. Linear
    BY <1>6 DEF Call, Return, Linear
  <2>2. CASE Return /\ i' = 1
    BY <1>1, <2>1, <2>2 DEF Next
  <2>3. CASE Call
    <3>1. PICK c \in Inputs, l \in {0, 1} : CallWith(c, l)
      BY <2>3 DEF Call
    <3>2. Mapping!Ask
      BY <3>1 DEF CallWith, Undecided, Mapping!Ask
    <3> QED BY <3>2 DEF Mapping!Next
  <2> QED BY <1>6, <2>2, <2>3
<1>7. CASE SetLocale
  <2>1. Mapping!SetLocale
    BY <1>7 DEF SetLocale, Undecided, Mapping!SetLocale
  <2> QED BY <2>1 DEF Mapping!Next
<1>8. CASE UNCHANGED bvars
  BY <1>8 DEF bvars, Undecided, Mapping!vars
<1> QED BY <1>2, <1>3, <1>4, <1>5, <1>6, <1>7, <1>8
        DEF BNext, BStep, BEnvironment

(* All headers implement the safety part of CaseMapping, the same          *)
(* specification the linear lookup implements.                             *)
THEOREM BRefinement == BSpec => Mapping!Safety
<1>1. BInit => Mapping!Init
  BY RefinesInit DEF BInit
<1> QED BY BInitInv, BStepInv, BRefinesStep, <1>1, PTL DEF BSpec, Mapping!Safety
=============================================================================
