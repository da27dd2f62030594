-------------------------- MODULE GenTables_proofs --------------------------
(***************************************************************************)
(* Proofs about the generator of the default tables: for every file its    *)
(* scan makes entries and pairs of exactly the mappings of the file, and   *)
(* the header is what the lookups assume it to be and gives the answers of *)
(* the file.                                                               *)
(***************************************************************************)
EXTENDS GenTables, FiniteSetTheorems, SequenceTheorems, TLAPS

-----------------------------------------------------------------------------
(* Least and greatest elements.                                            *)

(* Of a non-empty set of naturals one is the least.                        *)
LEMMA LeastIs ==
    ASSUME NEW S \in SUBSET Nat, S # {}
    PROVE  Least(S) \in S /\ \A d \in S : Least(S) <= d
<1> DEFINE R == OpToRel(<, Nat)
<1>1. IsWellFoundedOn(R, Nat)
  BY NatLessThanWellFounded
<1>2. PICK c \in S : \A d \in S : <<d, c>> \notin R
  <2> HIDE DEF R
  <2> QED BY <1>1, WFMin
<1>3. \A d \in S : ~(d < c)
  BY <1>2 DEF OpToRel
<1>4. \A d \in S : c <= d
  BY <1>3
<1> QED BY <1>4 DEF Least

(* Of a bounded one, one is the greatest.                                  *)
LEMMA GreatestIs ==
    ASSUME NEW n \in Nat, NEW S \in SUBSET (0 .. n), S # {}
    PROVE  Greatest(S) \in S /\ \A d \in S : d <= Greatest(S)
<1> DEFINE T == {n - c : c \in S}
<1>1. T \in SUBSET Nat /\ T # {}
  <2>1. \A c \in S : n - c \in Nat
    OBVIOUS
  <2> QED BY <2>1
<1>2. Least(T) \in T /\ \A d \in T : Least(T) <= d
  BY <1>1, LeastIs
<1>3. PICK c \in S : Least(T) = n - c
  BY <1>2
<1>4. \A d \in S : d <= c
  <2> SUFFICES ASSUME NEW d \in S PROVE d <= c
    OBVIOUS
  <2>1. n - c <= n - d
    BY <1>2, <1>3
  <2> QED BY <2>1
<1> QED BY <1>4 DEF Greatest

(* The last range or lace is one, if there is one.                         *)
LEMMA LastOfIs ==
    ASSUME NEW map \in Seq(Seq(Nat)), NEW n \in {2, 3}, LastOf(map, n) # 0
    PROVE  /\ LastOf(map, n) \in DOMAIN map /\ Len(map[LastOf(map, n)]) = n
           /\ \A k \in DOMAIN map : Len(map[k]) = n => k <= LastOf(map, n)
<1> DEFINE S == {0} \cup {k \in DOMAIN map : Len(map[k]) = n}
<1>1. Len(map) \in Nat /\ S \in SUBSET (0 .. Len(map)) /\ S # {}
  OBVIOUS
<1>2. Greatest(S) \in S /\ \A k \in S : k <= Greatest(S)
  BY <1>1, GreatestIs
<1> QED BY <1>2 DEF LastOf

-----------------------------------------------------------------------------
(* What the scan keeps to.                                                 *)

Maps(c, l) == c \in DOMAIN upper /\ upper[c] = l

FileOK ==
    \A f \in {upper, lower} : \A c \in DOMAIN f : c \in Nat /\ f[c] \in Nat

(* Code points are numbers.                                                *)
LEMMA CodesAreNumbers == Codes \subseteq Nat
BY UcdOK

GenType == [map : Seq(Seq(Nat)), pair : Seq(Nat \X Nat), lost : SUBSET (Nat \X Nat)]

(* An entry is a range or a lace, which ends with a lowercase letter, and  *)
(* every code point it claims is mapped as it says.                        *)
EntryOK(m) ==
    /\ \/ Len(m) = 2 /\ m[1] < m[2] /\ (m[2] - m[1]) % 2 = 1
       \/ Len(m) = 3 /\ m[1] <= m[2]
    /\ \A c \in Nat : InEntry(m, c, c + Delta(m)) => Maps(c, c + Delta(m))

GenOK(g) ==
    /\ g \in GenType
    /\ \A k \in DOMAIN g.map : EntryOK(g.map[k])
    /\ \A p \in g.lost : Maps(p[1], p[2]) /\ Opposed(p[1], p[2])

PairsGiven(g) == \A k \in DOMAIN g.pair : Maps(g.pair[k][1], g.pair[k][2])

KeptIn(g, c, l) ==
    \/ \E k \in DOMAIN g.map : InEntry(g.map[k], c, l)
    \/ \E k \in DOMAIN g.pair : g.pair[k] = <<c, l>>
    \/ <<c, l>> \in g.lost

(* Nothing g keeps is lost in h.                                           *)
Keeps(g, h) == \A c, l \in Nat : KeptIn(g, c, l) => KeptIn(h, c, l)

-----------------------------------------------------------------------------
(* simulate() takes what it finds wrongly only when a letter is opposed.   *)

(* The ranges begin in the order they were made, at b the latest.          *)
InOrder(map, b) ==
    \A k \in DOMAIN map : Len(map[k]) = 3 =>
        /\ map[k][1] <= b
        /\ \A j \in DOMAIN map :
              Len(map[j]) = 3 /\ j <= k => map[j][1] <= map[k][1]

(* The ranges begin at b at the latest, unless its lowercase is the next   *)
(* code point.                                                             *)
Behind(map, b, t) ==
    \/ t - b = 1
    \/ \A k \in DOMAIN map : Len(map[k]) = 3 => map[k][1] <= b

(* The elements of an entry of two or three.                               *)
LEMMA EntryElements ==
    ASSUME NEW m \in Seq(Nat)
    PROVE  /\ Len(m) = 2 => m[1] \in Nat /\ m[2] \in Nat
           /\ Len(m) = 3 => m[1] \in Nat /\ m[2] \in Nat /\ m[3] \in Nat
OBVIOUS

(* An entry with the opposite distance that matches has a letter that      *)
(* opposes: its last one, or its first if it goes down.                    *)
LEMMA EntryOpposes ==
    ASSUME NEW m \in Seq(Nat), EntryOK(m), NEW b \in Nat, NEW t \in Nat,
           Maps(b, t), Delta(m) = b - t,
           Delta(m) < 0 \/ t - m[1] < SimLen(m),
           t - b = 1 \/ (Len(m) = 3 => m[1] <= b)
    PROVE  Opposed(b, t)
<1>1. CASE IsLace(m)
  <2>1. Len(m) = 2 /\ m[1] < m[2] /\ (m[2] - m[1]) % 2 = 1
    BY <1>1 DEF EntryOK, IsLace
  <2>2. m[1] \in Nat /\ m[2] \in Nat
    BY <2>1, EntryElements
  <2>3. Delta(m) = 1 /\ SimLen(m) = m[2] - m[1]
    BY <1>1 DEF Delta, SimLen
  <2> DEFINE u == m[2] - 1
  <2>4. u \in Nat /\ (u - m[1]) % 2 = 0 /\ m[1] <= u /\ u <= m[2]
    <3>1. \A x, y \in Nat :
             x < y /\ (y - x) % 2 = 1 => ((y - 1) - x) % 2 = 0
      OBVIOUS
    <3>2. u \in Nat /\ m[1] <= u /\ u <= m[2]
      BY <2>1, <2>2
    <3> QED BY <2>1, <2>2, <3>1, <3>2
  <2>5. InEntry(m, u, u + Delta(m))
    BY <2>4 DEF InEntry
  <2>6. Maps(u, u + Delta(m))
    BY <2>4, <2>5 DEF EntryOK
  <2>7. u >= t /\ t <= b
    BY <2>2, <2>3
  <2>8. upper[u] - u = b - t
    BY <2>3, <2>4, <2>6 DEF Maps
  <2> QED BY <2>6, <2>7, <2>8 DEF Opposed, Maps
<1>2. CASE ~IsLace(m)
  <2>1. Len(m) = 3 /\ m[1] <= m[2]
    BY <1>2 DEF EntryOK, IsLace
  <2>2. m[1] \in Nat /\ m[2] \in Nat /\ m[3] \in Nat
    BY <2>1, EntryElements
  <2>3. Delta(m) = m[3] - m[1] /\ SimLen(m) = m[2] - m[1] + 1
    BY <1>2 DEF Delta, SimLen
  <2>4. \A u \in {m[1], m[2]} : Maps(u, u + Delta(m))
    <3>1. \A u \in {m[1], m[2]} : u \in Nat /\ InEntry(m, u, u + Delta(m))
      BY <1>2, <2>1, <2>2 DEF InEntry
    <3> QED BY <3>1 DEF EntryOK
  <2>5. \A u \in {m[1], m[2]} : u \in DOMAIN upper /\ upper[u] - u = b - t
    BY <2>2, <2>3, <2>4 DEF Maps
  <2>6. CASE t <= b
    <3>1. m[2] >= t
      BY <2>2, <2>3, <2>6
    <3> QED BY <2>5, <2>6, <3>1 DEF Opposed
  <2>7. CASE ~(t <= b)
    <3>1. m[1] # b
      BY <2>5, <2>7 DEF Maps
    <3>2. m[1] < b \/ t = b + 1
      BY <2>1, <2>2, <3>1
    <3> QED BY <2>5, <2>7, <3>2 DEF Opposed
  <2> QED BY <2>6, <2>7
<1> QED BY <1>1, <1>2

(* What simulate() answers in either direction opposes, if it is the       *)
(* answer that leaves the pair out.                                        *)
LEMMA AnswerOpposes ==
    ASSUME NEW g, GenOK(g), PairsGiven(g),
           NEW b \in Nat, NEW t \in Nat, Maps(b, t), Behind(g.map, b, t),
           NEW low \in {0, 1}, NEW c \in Nat, NEW a \in Nat,
           c = IF low = 1 THEN t ELSE b,
           a = IF low = 1 THEN b ELSE t,
           Simulate(g, c, low) = a
    PROVE  Opposed(b, t)
<1>1. /\ g.map \in Seq(Seq(Nat)) /\ g.pair \in Seq(Nat \X Nat)
      /\ DOMAIN g.map \in SUBSET Nat /\ DOMAIN g.pair \in SUBSET Nat
  BY DEF GenOK, GenType
<1>2. CASE SimMapHits(g, c, low) # {}
  <2> DEFINE k == Least(SimMapHits(g, c, low))
             m == g.map[k]
  <2>1. k \in SimMapHits(g, c, low)
    <3>1. SimMapHits(g, c, low) \in SUBSET Nat
      BY <1>1 DEF SimMapHits
    <3> QED BY <1>2, <3>1, LeastIs
  <2>2. k \in DOMAIN g.map /\ SimMatches(m, c, low)
    BY <2>1 DEF SimMapHits
  <2>3. m \in Seq(Nat) /\ EntryOK(m)
    BY <1>1, <2>2 DEF GenOK
  <2>4. t - b = 1 \/ (Len(m) = 3 => m[1] <= b)
    BY <2>2 DEF Behind
  <2>5. c + (2 * low - 1) * Delta(m) = a
    BY <1>2 DEF Simulate
  <2> HIDE DEF m, k
  <2>6. Delta(m) \in Int /\ m[1] \in Int /\ SimLen(m) \in Int
    BY <2>3, EntryElements DEF Delta, SimLen, IsLace, EntryOK
  <2>7. /\ Delta(m) = b - t
        /\ Delta(m) < 0 \/ t - m[1] < SimLen(m)
    <3>1. CASE low = 1
      BY <2>2, <2>5, <2>6, <3>1 DEF SimMatches
    <3>2. CASE low = 0
      BY <2>2, <2>5, <2>6, <3>2 DEF SimMatches
    <3> QED BY <3>1, <3>2
  <2> QED BY <2>3, <2>4, <2>7, EntryOpposes
<1>3. CASE SimMapHits(g, c, low) = {} /\ SimPairHits(g, c, low) # {}
  <2> DEFINE k == Least(SimPairHits(g, c, low))
             p == g.pair[k]
  <2>1. k \in SimPairHits(g, c, low)
    <3>1. SimPairHits(g, c, low) \in SUBSET Nat
      BY <1>1 DEF SimPairHits
    <3> QED BY <1>3, <3>1, LeastIs
  <2>2. k \in DOMAIN g.pair /\ p[2 - low] = c /\ p \in Nat \X Nat
    <3>1. k \in DOMAIN g.pair /\ p[2 - low] = c
      BY <2>1 DEF SimPairHits
    <3> QED BY <1>1, <3>1
  <2>3. p[1 + low] = a
    BY <1>3 DEF Simulate
  <2>4. Maps(p[1], p[2])
    BY <2>2 DEF PairsGiven
  <2> HIDE DEF p, k
  <2>5. p[1] = t /\ p[2] = b
    BY <2>2, <2>3
  <2> QED BY <2>4, <2>5 DEF Opposed, Maps
<1>4. CASE SimMapHits(g, c, low) = {} /\ SimPairHits(g, c, low) = {}
  <2>1. b = t
    BY <1>4 DEF Simulate
  <2> QED BY <2>1 DEF Opposed, Maps
<1> QED BY <1>2, <1>3, <1>4

(* A pair that is not needed is opposed.                                   *)
LEMMA LeftOutIs ==
    ASSUME NEW g, GenOK(g), PairsGiven(g),
           NEW b \in Nat, NEW t \in Nat, Maps(b, t), Behind(g.map, b, t),
           ~Needed(g, b, t)
    PROVE  Opposed(b, t)
<1>1. CASE Simulate(g, b, 0) = t
  BY <1>1, AnswerOpposes
<1>2. CASE Simulate(g, t, 1) = b
  BY <1>2, AnswerOpposes
<1> QED BY <1>1, <1>2 DEF Needed

-----------------------------------------------------------------------------
(* Entries.                                                                *)

(* A range of one code point claims just that.                             *)
LEMMA SingleRange ==
    ASSUME NEW b \in Nat, NEW t \in Nat
    PROVE  LET m == <<b, b, t>> IN
           /\ \A c, l \in Nat : InEntry(m, c, l) <=> c = b /\ l = t
           /\ Maps(b, t) => EntryOK(m)
           /\ m \in Seq(Nat)
<1> DEFINE m == <<b, b, t>>
<1>1. m \in Seq(Nat) /\ Len(m) = 3 /\ m[1] = b /\ m[2] = b /\ Delta(m) = t - b
  BY DEF Delta, IsLace
<1> HIDE DEF m
<1>2. \A c \in Nat, l \in Int : InEntry(m, c, l) <=> c = b /\ l = t
  BY <1>1 DEF InEntry, IsLace
<1>3. \A c \in Nat : InEntry(m, c, c + Delta(m)) => c = b /\ c + Delta(m) = t
  BY <1>1, <1>2
<1> QED BY <1>1, <1>2, <1>3 DEF EntryOK, m

(* So does the shortest lace.                                              *)
LEMMA SingleLace ==
    ASSUME NEW b \in Nat, NEW t \in Nat, t - b = 1
    PROVE  LET m == <<b, t>> IN
           /\ \A c, l \in Nat : InEntry(m, c, l) <=> c = b /\ l = t
           /\ Maps(b, t) => EntryOK(m)
           /\ m \in Seq(Nat)
<1> DEFINE m == <<b, t>>
<1>1. m \in Seq(Nat) /\ Len(m) = 2 /\ m[1] = b /\ m[2] = t /\ Delta(m) = 1
  BY DEF Delta, IsLace
<1> HIDE DEF m
<1>2. \A c \in Nat, l \in Int : InEntry(m, c, l) <=> c = b /\ l = t
  BY <1>1 DEF InEntry, IsLace
<1>3. \A c \in Nat : InEntry(m, c, c + Delta(m)) => c = b /\ c + Delta(m) = t
  BY <1>1, <1>2
<1> QED BY <1>1, <1>2, <1>3 DEF EntryOK, m

(* The next code point at the same distance extends a range.               *)
LEMMA LongerRange ==
    ASSUME NEW m \in Seq(Nat), EntryOK(m), Len(m) = 3,
           NEW b \in Nat, NEW t \in Nat, m[2] = b - 1, t - b = Delta(m),
           Maps(b, t)
    PROVE  LET n == <<m[1], b, m[3]>> IN
           /\ \A c, l \in Nat :
                InEntry(n, c, l) <=> InEntry(m, c, l) \/ (c = b /\ l = t)
           /\ EntryOK(n)
           /\ n \in Seq(Nat)
<1> DEFINE n == <<m[1], b, m[3]>>
<1>1. m[1] \in Nat /\ m[3] \in Nat /\ m[1] <= m[2]
  <2>1. m[1] \in Nat /\ m[3] \in Nat
    BY EntryElements
  <2> QED BY <2>1 DEF EntryOK
<1>2. /\ n \in Seq(Nat) /\ Len(n) = 3 /\ n[1] = m[1] /\ n[2] = b /\ Delta(n) = Delta(m)
      /\ Delta(m) = m[3] - m[1] /\ ~IsLace(m) /\ ~IsLace(n)
  BY <1>1 DEF Delta, IsLace
<1> HIDE DEF n
<1>3. \A c \in Nat, l \in Int :
        InEntry(n, c, l) <=> InEntry(m, c, l) \/ (c = b /\ l = t)
  BY <1>1, <1>2 DEF InEntry
<1>4. ASSUME NEW c \in Nat, InEntry(n, c, c + Delta(n))
      PROVE  Maps(c, c + Delta(n))
  <2>1. c + Delta(n) \in Int /\ b + Delta(n) = t
    BY <1>1, <1>2
  <2>2. InEntry(m, c, c + Delta(m)) \/ c = b
    BY <1>2, <1>3, <1>4, <2>1
  <2> QED BY <1>2, <2>1, <2>2 DEF EntryOK
<1>5. EntryOK(n)
  BY <1>1, <1>2, <1>4 DEF EntryOK
<1>6. \A c, l \in Nat : InEntry(n, c, l) <=> InEntry(m, c, l) \/ (c = b /\ l = t)
  BY <1>3
<1> QED BY <1>2, <1>5, <1>6 DEF n

(* A lace goes on with a letter right after its last one.                  *)
LEMMA LongerLace ==
    ASSUME NEW m \in Seq(Nat), EntryOK(m), Len(m) = 2,
           NEW b \in Nat, NEW t \in Nat, t - b = 1, m[2] = t - 2,
           Maps(b, t)
    PROVE  LET n == <<m[1], t>> IN
           /\ \A c, l \in Nat :
                InEntry(n, c, l) <=> InEntry(m, c, l) \/ (c = b /\ l = t)
           /\ EntryOK(n)
           /\ n \in Seq(Nat)
<1> DEFINE n == <<m[1], t>>
<1>1. m[1] \in Nat /\ m[2] \in Nat /\ m[1] < m[2] /\ (m[2] - m[1]) % 2 = 1
  BY EntryElements DEF EntryOK
<1>2. /\ n \in Seq(Nat) /\ Len(n) = 2 /\ n[1] = m[1] /\ n[2] = t
      /\ Delta(n) = 1 /\ Delta(m) = 1 /\ IsLace(m) /\ IsLace(n)
  BY <1>1 DEF Delta, IsLace
<1> HIDE DEF n
<1>3. (t - m[1]) % 2 = 1 /\ (b - m[1]) % 2 = 0
  BY <1>1
<1>4. \A c \in Nat, l \in Int :
        InEntry(n, c, l) <=> InEntry(m, c, l) \/ (c = b /\ l = t)
  <2> SUFFICES ASSUME NEW c \in Nat, NEW l \in Int
               PROVE  InEntry(n, c, l) <=> InEntry(m, c, l) \/ (c = b /\ l = t)
    OBVIOUS
  <2>1. c = t => (c - m[1]) % 2 = 1
    BY <1>3
  <2>2. c = b => (c - m[1]) % 2 = 0
    BY <1>3
  <2> QED BY <1>1, <1>2, <2>1, <2>2 DEF InEntry
<1>5. ASSUME NEW c \in Nat, InEntry(n, c, c + Delta(n))
      PROVE  Maps(c, c + Delta(n))
  <2>1. InEntry(m, c, c + Delta(m)) \/ c = b
    BY <1>2, <1>4, <1>5
  <2> QED BY <1>2, <2>1 DEF EntryOK
<1>6. EntryOK(n)
  BY <1>1, <1>2, <1>3, <1>5 DEF EntryOK
<1>7. \A c, l \in Nat : InEntry(n, c, l) <=> InEntry(m, c, l) \/ (c = b /\ l = t)
  BY <1>4
<1> QED BY <1>2, <1>6, <1>7 DEF n

-----------------------------------------------------------------------------
(* The operations on what was generated so far.                            *)

(* h is what was made of g in order to keep the mapping of b to t.         *)
Adds(g, h, b, t) ==
    /\ GenOK(h) /\ PairsGiven(h)
    /\ Keeps(g, h) /\ KeptIn(h, b, t)

(* add_pair() keeps all it had, and the new pair or the loss of it.        *)
LEMMA AddPairOK ==
    ASSUME NEW g, GenOK(g), PairsGiven(g),
           NEW b \in Nat, NEW t \in Nat, Maps(b, t), Behind(g.map, b, t)
    PROVE  LET h == AddPair(g, b, t) IN
           /\ Adds(g, h, b, t) /\ h.map = g.map
           /\ (\E k \in DOMAIN h.pair : h.pair[k] = <<b, t>>) \/ <<b, t>> \in h.lost
<1> DEFINE h == AddPair(g, b, t)
<1>1. g \in GenType /\ g.pair \in Seq(Nat \X Nat)
  BY DEF GenOK, GenType
<1>2. CASE Needed(g, b, t)
  <2>1. h = [map |-> g.map, pair |-> Append(g.pair, <<b, t>>), lost |-> g.lost]
    BY <1>1, <1>2 DEF AddPair, GenType
  <2>2. /\ h \in GenType /\ h.map = g.map /\ h.lost = g.lost
        /\ h.pair = Append(g.pair, <<b, t>>)
    BY <1>1, <2>1 DEF GenType
  <2>3. /\ \A k \in DOMAIN g.pair : k \in DOMAIN h.pair /\ h.pair[k] = g.pair[k]
        /\ Len(h.pair) \in DOMAIN h.pair /\ h.pair[Len(h.pair)] = <<b, t>>
        /\ \A k \in DOMAIN h.pair : k \in DOMAIN g.pair \/ h.pair[k] = <<b, t>>
    BY <1>1, <2>2
  <2>4. GenOK(h)
    BY <2>2 DEF GenOK
  <2>5. PairsGiven(h)
    BY <2>3 DEF PairsGiven
  <2>6. Keeps(g, h) /\ KeptIn(h, b, t)
    BY <2>2, <2>3 DEF Keeps, KeptIn
  <2> QED BY <2>2, <2>3, <2>4, <2>5, <2>6 DEF Adds
<1>3. CASE ~Needed(g, b, t)
  <2>1. h = [map |-> g.map, pair |-> g.pair, lost |-> g.lost \cup {<<b, t>>}]
    BY <1>1, <1>3 DEF AddPair, GenType
  <2>2. /\ h \in GenType /\ h.map = g.map /\ h.pair = g.pair
        /\ h.lost = g.lost \cup {<<b, t>>}
    BY <1>1, <2>1 DEF GenType
  <2>3. Maps(b, t) /\ Opposed(b, t)
    BY <1>3, LeftOutIs
  <2> QED BY <2>2, <2>3 DEF Adds, GenOK, PairsGiven, Keeps, KeptIn
<1> QED BY <1>2, <1>3

(* An entry overwritten gives up what it said, and nothing else.           *)
LEMMA PutEntryOK ==
    ASSUME NEW g, GenOK(g), PairsGiven(g), NEW k \in DOMAIN g.map,
           NEW m \in Seq(Nat), EntryOK(m)
    PROVE  LET h == PutEntry(g, k, m) IN
           /\ GenOK(h) /\ PairsGiven(h)
           /\ \A c, l \in Nat : InEntry(m, c, l) => KeptIn(h, c, l)
           /\ \A c, l \in Nat :
                KeptIn(g, c, l) => KeptIn(h, c, l) \/ InEntry(g.map[k], c, l)
<1> DEFINE h == PutEntry(g, k, m)
<1>1. g \in GenType /\ g.map \in Seq(Seq(Nat))
  BY DEF GenOK, GenType
<1>2. h = [map |-> [g.map EXCEPT ![k] = m], pair |-> g.pair, lost |-> g.lost]
  BY DEF PutEntry, WithMap
<1>3. /\ h \in GenType /\ h.pair = g.pair /\ h.lost = g.lost
      /\ DOMAIN h.map = DOMAIN g.map /\ h.map[k] = m
      /\ \A j \in DOMAIN g.map : j # k => h.map[j] = g.map[j]
  BY <1>1, <1>2 DEF GenType
<1> HIDE DEF h
<1>4. GenOK(h)
  BY <1>3 DEF GenOK
<1>5. PairsGiven(h)
  BY <1>3 DEF PairsGiven
<1> QED BY <1>3, <1>4, <1>5 DEF KeptIn, h

(* An entry appended takes nothing away.                                   *)
LEMMA NewEntryOK ==
    ASSUME NEW g, GenOK(g), PairsGiven(g), NEW m \in Seq(Nat), EntryOK(m)
    PROVE  LET h == NewEntry(g, m) IN
           /\ GenOK(h) /\ PairsGiven(h) /\ Keeps(g, h)
           /\ \A c, l \in Nat : InEntry(m, c, l) => KeptIn(h, c, l)
<1> DEFINE h == NewEntry(g, m)
<1>1. g \in GenType /\ g.map \in Seq(Seq(Nat))
  BY DEF GenOK, GenType
<1>2. h = [map |-> Append(g.map, m), pair |-> g.pair, lost |-> g.lost]
  BY DEF NewEntry, WithMap
<1>3. /\ h \in GenType /\ h.pair = g.pair /\ h.lost = g.lost
      /\ Len(h.map) \in DOMAIN h.map /\ h.map[Len(h.map)] = m
      /\ \A j \in DOMAIN g.map : j \in DOMAIN h.map /\ h.map[j] = g.map[j]
      /\ \A j \in DOMAIN h.map : j \in DOMAIN g.map \/ h.map[j] = m
  BY <1>1, <1>2 DEF GenType
<1> HIDE DEF h
<1>4. GenOK(h)
  BY <1>3 DEF GenOK
<1>5. PairsGiven(h)
  BY <1>3 DEF PairsGiven
<1> QED BY <1>3, <1>4, <1>5 DEF Keeps, KeptIn, h

(* add_map() keeps the mapping it is given, and all others: a range it     *)
(* takes back has become a pair.                                           *)
LEMMA AddMapOK ==
    ASSUME NEW g, GenOK(g), PairsGiven(g),
           NEW b \in Nat, NEW t \in Nat, Maps(b, t), InOrder(g.map, b)
    PROVE  Adds(g, AddMap(g, b, t), b, t)
<1> DEFINE k == LastOf(g.map, 3)
           m == g.map[k]
           l == LastOf(g.map, 2)
           h == AddMap(g, b, t)
           single == <<b, b, t>>
<1>1. g.map \in Seq(Seq(Nat))
  BY DEF GenOK, GenType
<1>2. ASSUME k # 0
      PROVE  k \in DOMAIN g.map /\ m \in Seq(Nat) /\ Len(m) = 3 /\ EntryOK(m)
  <2>1. k \in DOMAIN g.map /\ Len(m) = 3
    BY <1>1, <1>2, LastOfIs
  <2>2. m \in Seq(Nat)
    BY <1>1, <2>1
  <2> QED BY <2>1, <2>2 DEF GenOK
<1>3. /\ single \in Seq(Nat) /\ EntryOK(single)
      /\ InEntry(single, b, t)
  BY SingleRange
<1>4. CASE k # 0 /\ m[2] = b - 1 /\ t - b = Delta(m)
  <2> DEFINE n == <<m[1], b, m[3]>>
  <2>1. h = PutEntry(g, k, n)
    BY <1>4 DEF AddMap
  <2>2. /\ \A c, d \in Nat : InEntry(m, c, d) => InEntry(n, c, d)
        /\ InEntry(n, b, t) /\ EntryOK(n) /\ n \in Seq(Nat)
    BY <1>2, <1>4, LongerRange
  <2> HIDE DEF n, h, m, k
  <2>3. /\ GenOK(h) /\ PairsGiven(h)
        /\ \A c, d \in Nat : InEntry(n, c, d) => KeptIn(h, c, d)
        /\ \A c, d \in Nat : KeptIn(g, c, d) => KeptIn(h, c, d) \/ InEntry(m, c, d)
    BY <1>2, <1>4, <2>1, <2>2, PutEntryOK DEF m
  <2>4. Keeps(g, h) /\ KeptIn(h, b, t)
    BY <2>2, <2>3 DEF Keeps
  <2>5. Adds(g, h, b, t)
    BY <2>3, <2>4 DEF Adds
  <2> QED BY <2>5 DEF h
<1>5. CASE /\ ~(k # 0 /\ m[2] = b - 1 /\ t - b = Delta(m))
           /\ k # 0 /\ m[1] = m[2]
  <2> DEFINE p == AddPair(g, m[1], m[3])
  <2>1. h = PutEntry(p, k, single)
    BY <1>5 DEF AddMap
  <2>2. m[1] \in Nat /\ m[2] \in Nat /\ m[3] \in Nat
    BY <1>2, <1>5, EntryElements
  <2>3. /\ Delta(m) = m[3] - m[1] /\ ~IsLace(m)
        /\ \A c, d \in Nat : InEntry(m, c, d) <=> c = m[1] /\ d = m[3]
    <3>1. Len(m) = 3
      BY <1>2, <1>5
    <3> HIDE DEF m
    <3>2. Delta(m) = m[3] - m[1] /\ ~IsLace(m)
      BY <3>1 DEF Delta, IsLace
    <3>3. \A c, d \in Nat : InEntry(m, c, d) <=> c = m[1] /\ d = m[3]
      BY <1>5, <2>2, <3>2 DEF InEntry
    <3> QED BY <3>2, <3>3 DEF m
  <2>4. Maps(m[1], m[3])
    <3>1. m[1] + Delta(m) = m[3]
      BY <2>2, <2>3
    <3> QED BY <1>2, <1>5, <2>2, <2>3, <3>1 DEF EntryOK
  <2>5. /\ Adds(g, p, m[1], m[3]) /\ p.map = g.map
        /\ \/ \E j \in DOMAIN p.pair : p.pair[j] = <<m[1], m[3]>>
           \/ <<m[1], m[3]>> \in p.lost
    <3>1. Behind(g.map, m[1], m[3])
      BY <1>1, <1>5, LastOfIs DEF Behind, InOrder
    <3> QED BY <2>2, <2>4, <3>1, AddPairOK
  <2> HIDE DEF p, h, m, k, single
  <2>6. /\ GenOK(h) /\ PairsGiven(h)
        /\ \A c, d \in Nat : InEntry(single, c, d) => KeptIn(h, c, d)
        /\ \A c, d \in Nat : KeptIn(p, c, d) => KeptIn(h, c, d) \/ InEntry(m, c, d)
    BY <1>2, <1>3, <1>5, <2>1, <2>5, PutEntryOK DEF Adds, m
  <2>7. KeptIn(h, b, t)
    BY <1>3, <2>6
  <2>8. KeptIn(h, m[1], m[3])
    <3>1. p.pair = h.pair /\ p.lost = h.lost
      BY <2>1 DEF PutEntry, WithMap
    <3> QED BY <2>5, <3>1 DEF KeptIn
  <2>9. Keeps(g, h)
    BY <2>3, <2>5, <2>6, <2>8 DEF Adds, Keeps
  <2>10. Adds(g, h, b, t)
    BY <2>6, <2>7, <2>9 DEF Adds
  <2> QED BY <2>10 DEF h
<1>6. CASE /\ ~(k # 0 /\ m[2] = b - 1 /\ t - b = Delta(m))
           /\ ~(k # 0 /\ m[1] = m[2])
           /\ t - b = 1 /\ l # 0 /\ Clashes(single, g.map[l])
  <2>1. h = AddPair(g, b, t)
    BY <1>6 DEF AddMap
  <2>2. Behind(g.map, b, t)
    BY <1>6 DEF Behind
  <2> QED BY <2>1, <2>2, AddPairOK
<1>7. CASE /\ ~(k # 0 /\ m[2] = b - 1 /\ t - b = Delta(m))
           /\ ~(k # 0 /\ m[1] = m[2])
           /\ ~(t - b = 1 /\ l # 0 /\ Clashes(single, g.map[l]))
  <2>1. h = NewEntry(g, single)
    BY <1>7 DEF AddMap
  <2> HIDE DEF h, single
  <2>2. Adds(g, h, b, t)
    BY <1>3, <2>1, NewEntryOK DEF Adds
  <2> QED BY <2>2 DEF h
<1> QED BY <1>4, <1>5, <1>6, <1>7

(* So does add_lace(), which takes back a lace of one letter.              *)
LEMMA AddLaceOK ==
    ASSUME NEW g, GenOK(g), PairsGiven(g),
           NEW b \in Nat, NEW t \in Nat, t - b = 1, Maps(b, t)
    PROVE  Adds(g, AddLace(g, b, t), b, t)
<1> DEFINE k == LastOf(g.map, 2)
           m == g.map[k]
           r == LastOf(g.map, 3)
           h == AddLace(g, b, t)
           single == <<b, t>>
<1>1. g.map \in Seq(Seq(Nat))
  BY DEF GenOK, GenType
<1>2. ASSUME k # 0
      PROVE  k \in DOMAIN g.map /\ m \in Seq(Nat) /\ Len(m) = 2 /\ EntryOK(m)
  <2>1. k \in DOMAIN g.map /\ Len(m) = 2
    BY <1>1, <1>2, LastOfIs
  <2>2. m \in Seq(Nat)
    BY <1>1, <2>1
  <2> QED BY <2>1, <2>2 DEF GenOK
<1>3. /\ single \in Seq(Nat) /\ EntryOK(single)
      /\ InEntry(single, b, t)
  BY SingleLace
<1>4. CASE k # 0 /\ m[2] = t - 2
  <2> DEFINE n == <<m[1], t>>
  <2>1. h = PutEntry(g, k, n)
    BY <1>4 DEF AddLace
  <2>2. /\ \A c, d \in Nat : InEntry(m, c, d) => InEntry(n, c, d)
        /\ InEntry(n, b, t) /\ EntryOK(n) /\ n \in Seq(Nat)
    BY <1>2, <1>4, LongerLace
  <2> HIDE DEF n, h, m, k
  <2>3. /\ GenOK(h) /\ PairsGiven(h)
        /\ \A c, d \in Nat : InEntry(n, c, d) => KeptIn(h, c, d)
        /\ \A c, d \in Nat : KeptIn(g, c, d) => KeptIn(h, c, d) \/ InEntry(m, c, d)
    BY <1>2, <1>4, <2>1, <2>2, PutEntryOK DEF m
  <2>4. Keeps(g, h) /\ KeptIn(h, b, t)
    BY <2>2, <2>3 DEF Keeps
  <2>5. Adds(g, h, b, t)
    BY <2>3, <2>4 DEF Adds
  <2> QED BY <2>5 DEF h
<1>5. CASE ~(k # 0 /\ m[2] = t - 2) /\ k # 0 /\ m[2] - m[1] = 1
  <2> DEFINE p == AddPair(g, m[1], m[2])
  <2>1. h = PutEntry(p, k, single)
    BY <1>5 DEF AddLace
  <2>2. m[1] \in Nat /\ m[2] \in Nat
    BY <1>2, <1>5, EntryElements
  <2>3. /\ Delta(m) = 1 /\ IsLace(m)
        /\ \A c, d \in Nat : InEntry(m, c, d) <=> c = m[1] /\ d = m[2]
    <3>1. Len(m) = 2
      BY <1>2, <1>5
    <3> HIDE DEF m
    <3>2. Delta(m) = 1 /\ IsLace(m)
      BY <3>1 DEF Delta, IsLace
    <3> QED BY <1>5, <2>2, <3>2 DEF InEntry, m
  <2>4. Maps(m[1], m[2])
    <3>1. m[1] + Delta(m) = m[2]
      BY <1>5, <2>2, <2>3
    <3> QED BY <1>2, <1>5, <2>2, <2>3, <3>1 DEF EntryOK
  <2>5. /\ Adds(g, p, m[1], m[2]) /\ p.map = g.map
        /\ \/ \E j \in DOMAIN p.pair : p.pair[j] = <<m[1], m[2]>>
           \/ <<m[1], m[2]>> \in p.lost
    <3>1. Behind(g.map, m[1], m[2])
      BY <1>5 DEF Behind
    <3> QED BY <2>2, <2>4, <3>1, AddPairOK
  <2> HIDE DEF p, h, m, k, single
  <2>6. /\ GenOK(h) /\ PairsGiven(h)
        /\ \A c, d \in Nat : InEntry(single, c, d) => KeptIn(h, c, d)
        /\ \A c, d \in Nat : KeptIn(p, c, d) => KeptIn(h, c, d) \/ InEntry(m, c, d)
    BY <1>2, <1>3, <1>5, <2>1, <2>5, PutEntryOK DEF Adds, m
  <2>7. KeptIn(h, b, t)
    BY <1>3, <2>6
  <2>8. KeptIn(h, m[1], m[2])
    <3>1. p.pair = h.pair /\ p.lost = h.lost
      BY <2>1 DEF PutEntry, WithMap
    <3> QED BY <2>5, <3>1 DEF KeptIn
  <2>9. Keeps(g, h)
    BY <2>3, <2>5, <2>6, <2>8 DEF Adds, Keeps
  <2>10. Adds(g, h, b, t)
    BY <2>6, <2>7, <2>9 DEF Adds
  <2> QED BY <2>10 DEF h
<1>6. CASE /\ ~(k # 0 /\ m[2] = t - 2) /\ ~(k # 0 /\ m[2] - m[1] = 1)
           /\ r # 0 /\ Clashes(g.map[r], single)
  <2>1. h = AddPair(g, b, t)
    BY <1>6 DEF AddLace
  <2>2. Behind(g.map, b, t)
    BY DEF Behind
  <2> QED BY <2>1, <2>2, AddPairOK
<1>7. CASE /\ ~(k # 0 /\ m[2] = t - 2) /\ ~(k # 0 /\ m[2] - m[1] = 1)
           /\ ~(r # 0 /\ Clashes(g.map[r], single))
  <2>1. h = NewEntry(g, single)
    BY <1>7 DEF AddLace
  <2> HIDE DEF h, single
  <2>2. Adds(g, h, b, t)
    BY <1>3, <2>1, NewEntryOK DEF Adds
  <2> QED BY <2>2 DEF h
<1> QED BY <1>4, <1>5, <1>6, <1>7

(* add_pair() leaves @map alone and adds at most one pair, at the end.     *)
LEMMA AddPairShape ==
    ASSUME NEW g \in GenType, NEW b \in Nat, NEW t \in Nat
    PROVE  LET h == AddPair(g, b, t) IN
           /\ h.map = g.map /\ h \in GenType
           /\ \A k \in DOMAIN h.pair :
                \/ k \in DOMAIN g.pair /\ h.pair[k] = g.pair[k]
                \/ k = Len(g.pair) + 1 /\ h.pair[k][1] = b
<1> DEFINE h == AddPair(g, b, t)
<1>1. g.pair \in Seq(Nat \X Nat)
  BY DEF GenType
<1>2. CASE Needed(g, b, t)
  <2>1. h = [map |-> g.map, pair |-> Append(g.pair, <<b, t>>), lost |-> g.lost]
    BY <1>2 DEF AddPair, GenType
  <2>2. /\ h.map = g.map /\ h.pair = Append(g.pair, <<b, t>>)
        /\ h \in GenType
    BY <1>1, <2>1 DEF GenType
  <2> HIDE DEF h
  <2>3. \A k \in DOMAIN h.pair :
           \/ k \in DOMAIN g.pair /\ h.pair[k] = g.pair[k]
           \/ k = Len(g.pair) + 1 /\ h.pair[k][1] = b
    BY <1>1, <2>2
  <2> QED BY <2>2, <2>3 DEF h
<1>3. CASE ~Needed(g, b, t)
  <2>1. h = [map |-> g.map, pair |-> g.pair, lost |-> g.lost \cup {<<b, t>>}]
    BY <1>3 DEF AddPair, GenType
  <2> QED BY <2>1 DEF GenType
<1> QED BY <1>2, <1>3

(* A range put in the place of the last one, to begin no earlier, keeps    *)
(* the order.                                                              *)
LEMMA PutInOrder ==
    ASSUME NEW g \in GenType, NEW b \in Nat, InOrder(g.map, b),
           NEW k \in DOMAIN g.map, NEW m \in Seq(Nat),
           \/ Len(m) = 2
           \/ /\ k = LastOf(g.map, 3) /\ k # 0
              /\ m[1] \in Nat /\ g.map[k][1] <= m[1] /\ m[1] <= b
    PROVE  InOrder(PutEntry(g, k, m).map, b)
<1> DEFINE n == PutEntry(g, k, m).map
<1>1. /\ g.map \in Seq(Seq(Nat)) /\ DOMAIN g.map \in SUBSET Nat
      /\ \A j \in DOMAIN g.map : Len(g.map[j]) = 3 => g.map[j][1] \in Nat
  <2>1. g.map \in Seq(Seq(Nat)) /\ DOMAIN g.map \in SUBSET Nat
    BY DEF GenType
  <2> QED BY <2>1, EntryElements
<1>2. /\ DOMAIN n = DOMAIN g.map /\ n[k] = m
      /\ \A j \in DOMAIN g.map : j # k => n[j] = g.map[j]
  BY DEF PutEntry, WithMap
<1> HIDE DEF n
<1>3. CASE Len(m) = 2
  <2>1. Len(m) # 3
    BY <1>3
  <2>2. \A j \in DOMAIN n : Len(n[j]) = 3 =>
           j \in DOMAIN g.map /\ n[j] = g.map[j]
    BY <1>2, <2>1, Zenon
  <2> QED BY <2>2, Zenon DEF InOrder, n
<1>4. CASE /\ k = LastOf(g.map, 3) /\ k # 0
           /\ m[1] \in Nat /\ g.map[k][1] <= m[1] /\ m[1] <= b
  <2>1. Len(g.map[k]) = 3 /\ \A j \in DOMAIN g.map : Len(g.map[j]) = 3 => j <= k
    BY <1>1, <1>4, LastOfIs
  <2>2. \A j \in DOMAIN g.map : Len(g.map[j]) = 3 => g.map[j][1] <= m[1]
    BY <1>1, <1>4, <2>1 DEF InOrder
  <2>3. \A j \in DOMAIN n : Len(n[j]) = 3 => n[j][1] <= m[1]
    BY <1>2, <1>4, <2>2
  <2>4. SUFFICES ASSUME NEW i \in DOMAIN n, Len(n[i]) = 3
                 PROVE  /\ n[i][1] <= b
                        /\ \A j \in DOMAIN n :
                              Len(n[j]) = 3 /\ j <= i => n[j][1] <= n[i][1]
    BY DEF InOrder, n
  <2>5. CASE i = k
    BY <1>2, <1>4, <2>3, <2>5
  <2>6. CASE i # k
    <3>1. i \in DOMAIN g.map /\ n[i] = g.map[i] /\ i < k /\ g.map[i][1] <= b
      BY <1>1, <1>2, <2>1, <2>4, <2>6 DEF InOrder
    <3>2. ASSUME NEW j \in DOMAIN n, Len(n[j]) = 3, j <= i
          PROVE  n[j][1] <= n[i][1]
      <4>1. j # k /\ j \in DOMAIN g.map
        BY <1>1, <1>2, <3>1, <3>2
      <4> QED BY <1>2, <2>4, <3>1, <3>2, <4>1 DEF InOrder
    <3> QED BY <3>1, <3>2
  <2> QED BY <2>5, <2>6
<1> QED BY <1>3, <1>4

(* So does a range appended that begins at b.                              *)
LEMMA NewInOrder ==
    ASSUME NEW g \in GenType, NEW b \in Nat, InOrder(g.map, b),
           NEW m \in Seq(Nat), Len(m) = 2 \/ m[1] = b
    PROVE  InOrder(NewEntry(g, m).map, b)
<1> DEFINE n == NewEntry(g, m).map
<1>1. g.map \in Seq(Seq(Nat)) /\ Len(g.map) \in Nat
  BY DEF GenType
<1>2. n = Append(g.map, m)
  BY DEF NewEntry, WithMap
<1> HIDE DEF n
<1>3. /\ \A j \in DOMAIN n :
            \/ j \in DOMAIN g.map /\ n[j] = g.map[j] /\ j < Len(g.map) + 1
            \/ j = Len(g.map) + 1 /\ n[j] = m
      /\ DOMAIN n \in SUBSET Nat
  BY <1>1, <1>2
<1>4. SUFFICES ASSUME NEW i \in DOMAIN n, Len(n[i]) = 3
               PROVE  /\ n[i][1] <= b
                      /\ \A j \in DOMAIN n :
                            Len(n[j]) = 3 /\ j <= i => n[j][1] <= n[i][1]
  BY DEF InOrder, n
<1>5. \A j \in DOMAIN n : Len(n[j]) = 3 => n[j][1] <= b
  <2> SUFFICES ASSUME NEW j \in DOMAIN n, Len(n[j]) = 3
               PROVE  n[j][1] <= b
    OBVIOUS
  <2>1. CASE n[j] = m
    <3>1. Len(m) = 3 /\ n[j][1] = m[1]
      BY <2>1, Zenon
    <3>2. Len(m) = 3 => m[1] = b
      OBVIOUS
    <3>3. n[j][1] = b
      BY <3>1, <3>2, Zenon
    <3> QED BY <3>3
  <2>2. CASE n[j] # m
    BY <1>3, <2>2 DEF InOrder
  <2> QED BY <2>1, <2>2
<1>6. CASE n[i][1] = b
  BY <1>4, <1>5, <1>6
<1>7. CASE n[i][1] # b
  <2>1. i \in DOMAIN g.map /\ n[i] = g.map[i] /\ i < Len(g.map) + 1
    <3>1. Len(m) = 3 => m[1] = b
      OBVIOUS
    <3>2. n[i] # m
      BY <1>4, <1>7, <3>1, Zenon
    <3> QED BY <1>3, <3>2, Zenon
  <2>2. ASSUME NEW j \in DOMAIN n, Len(n[j]) = 3, j <= i
        PROVE  n[j][1] <= n[i][1]
    <3>1. j # Len(g.map) + 1
      BY <1>1, <1>3, <2>1, <2>2
    <3>2. j \in DOMAIN g.map /\ n[j] = g.map[j]
      BY <1>3, <3>1
    <3> QED BY <1>4, <2>1, <2>2, <3>2 DEF InOrder
  <2> QED BY <1>4, <1>5, <2>2
<1> QED BY <1>6, <1>7

(* The ranges that begin at b at the latest begin so at c, if it is later. *)
LEMMA LaterInOrder ==
    ASSUME NEW g \in GenType, NEW b \in Int, NEW c \in Int, b <= c,
           InOrder(g.map, b)
    PROVE  InOrder(g.map, c)
<1>1. \A k \in DOMAIN g.map : Len(g.map[k]) = 3 => g.map[k][1] \in Nat
  BY EntryElements DEF GenType
<1> QED BY <1>1 DEF InOrder

(* add_map() with a code point no range begins beyond keeps the order.     *)
LEMMA AddMapInOrder ==
    ASSUME NEW g \in GenType, NEW b \in Nat, NEW t \in Nat, InOrder(g.map, b)
    PROVE  InOrder(AddMap(g, b, t).map, b)
<1> DEFINE k == LastOf(g.map, 3)
           m == g.map[k]
           l == LastOf(g.map, 2)
           h == AddMap(g, b, t)
           single == <<b, b, t>>
<1>1. g.map \in Seq(Seq(Nat))
  BY DEF GenType
<1>2. ASSUME k # 0
      PROVE  /\ k \in DOMAIN g.map /\ m[1] \in Nat /\ m[3] \in Nat
             /\ m[1] <= b
  <2>1. k \in DOMAIN g.map /\ Len(m) = 3
    BY <1>1, <1>2, LastOfIs
  <2> QED BY <1>1, <2>1, EntryElements DEF InOrder
<1>3. CASE k # 0 /\ m[2] = b - 1 /\ t - b = Delta(m)
  <2> DEFINE n == <<m[1], b, m[3]>>
  <2>1. h = PutEntry(g, k, n)
    BY <1>3 DEF AddMap
  <2>2. n \in Seq(Nat) /\ n[1] = m[1]
    BY <1>2, <1>3
  <2> HIDE DEF n, h
  <2>3. InOrder(h.map, b)
    BY <1>2, <1>3, <2>1, <2>2, PutInOrder
  <2> QED BY <2>3 DEF h
<1>4. CASE /\ ~(k # 0 /\ m[2] = b - 1 /\ t - b = Delta(m))
           /\ k # 0 /\ m[1] = m[2]
  <2> DEFINE p == AddPair(g, m[1], m[3])
  <2>1. h = PutEntry(p, k, single)
    BY <1>4 DEF AddMap
  <2>2. p.map = g.map
    BY <1>2, <1>4, AddPairShape
  <2>3. p \in GenType
    BY <1>2, <1>4, AddPairShape
  <2>4. single \in Seq(Nat) /\ single[1] = b
    OBVIOUS
  <2> HIDE DEF p, h, single
  <2>5. InOrder(h.map, b)
    BY <1>2, <1>4, <2>1, <2>2, <2>3, <2>4, PutInOrder
  <2> QED BY <2>5 DEF h
<1>5. CASE /\ ~(k # 0 /\ m[2] = b - 1 /\ t - b = Delta(m))
           /\ ~(k # 0 /\ m[1] = m[2])
           /\ t - b = 1 /\ l # 0 /\ Clashes(single, g.map[l])
  <2>1. h = AddPair(g, b, t)
    BY <1>5 DEF AddMap
  <2> QED BY <2>1, AddPairShape
<1>6. CASE /\ ~(k # 0 /\ m[2] = b - 1 /\ t - b = Delta(m))
           /\ ~(k # 0 /\ m[1] = m[2])
           /\ ~(t - b = 1 /\ l # 0 /\ Clashes(single, g.map[l]))
  <2>1. h = NewEntry(g, single)
    BY <1>6 DEF AddMap
  <2>2. single \in Seq(Nat) /\ single[1] = b
    OBVIOUS
  <2> HIDE DEF h, single
  <2>3. InOrder(h.map, b)
    BY <2>1, <2>2, NewInOrder
  <2> QED BY <2>3 DEF h
<1> QED BY <1>3, <1>4, <1>5, <1>6

(* add_lace() touches no range.                                            *)
LEMMA AddLaceInOrder ==
    ASSUME NEW g \in GenType, NEW b \in Nat, NEW t \in Nat, InOrder(g.map, b)
    PROVE  InOrder(AddLace(g, b, t).map, b)
<1> DEFINE k == LastOf(g.map, 2)
           m == g.map[k]
           r == LastOf(g.map, 3)
           h == AddLace(g, b, t)
           single == <<b, t>>
<1>1. g.map \in Seq(Seq(Nat))
  BY DEF GenType
<1>2. ASSUME k # 0
      PROVE  k \in DOMAIN g.map /\ m[1] \in Nat /\ m[2] \in Nat
  <2>1. k \in DOMAIN g.map /\ Len(m) = 2
    BY <1>1, <1>2, LastOfIs
  <2> QED BY <1>1, <2>1, EntryElements
<1>3. single \in Seq(Nat) /\ Len(single) = 2
  OBVIOUS
<1>4. CASE k # 0 /\ m[2] = t - 2
  <2> DEFINE n == <<m[1], t>>
  <2>1. h = PutEntry(g, k, n)
    BY <1>4 DEF AddLace
  <2>2. n \in Seq(Nat) /\ Len(n) = 2
    BY <1>2, <1>4
  <2> HIDE DEF n, h
  <2>3. InOrder(h.map, b)
    BY <1>2, <1>4, <2>1, <2>2, PutInOrder
  <2> QED BY <2>3 DEF h
<1>5. CASE ~(k # 0 /\ m[2] = t - 2) /\ k # 0 /\ m[2] - m[1] = 1
  <2> DEFINE p == AddPair(g, m[1], m[2])
  <2>1. h = PutEntry(p, k, single)
    BY <1>5 DEF AddLace
  <2>2. p.map = g.map
    BY <1>2, <1>5, AddPairShape
  <2>3. p \in GenType
    BY <1>2, <1>5, AddPairShape
  <2> HIDE DEF p, h, single
  <2>4. InOrder(h.map, b)
    BY <1>2, <1>3, <1>5, <2>1, <2>2, <2>3, PutInOrder
  <2> QED BY <2>4 DEF h
<1>6. CASE /\ ~(k # 0 /\ m[2] = t - 2) /\ ~(k # 0 /\ m[2] - m[1] = 1)
           /\ r # 0 /\ Clashes(g.map[r], single)
  <2>1. h = AddPair(g, b, t)
    BY <1>6 DEF AddLace
  <2> QED BY <2>1, AddPairShape
<1>7. CASE /\ ~(k # 0 /\ m[2] = t - 2) /\ ~(k # 0 /\ m[2] - m[1] = 1)
           /\ ~(r # 0 /\ Clashes(g.map[r], single))
  <2>1. h = NewEntry(g, single)
    BY <1>7 DEF AddLace
  <2> HIDE DEF h, single
  <2>2. InOrder(h.map, b)
    BY <1>3, <2>1, NewInOrder
  <2> QED BY <2>2 DEF h
<1> QED BY <1>4, <1>5, <1>6, <1>7

(* What is popped is the only mapping that is gone.                        *)
LEMMA PopPairOK ==
    ASSUME GenOK(gen), PairsGiven(gen), gen.pair # << >>
    PROVE  /\ GenOK(PopPair) /\ PairsGiven(PopPair) /\ PopPair.map = gen.map
           /\ \A c, l \in Nat :
                KeptIn(gen, c, l) => \/ KeptIn(PopPair, c, l)
                                     \/ Last(gen.pair) = <<c, l>>
<1> DEFINE h == PopPair
<1>1. gen \in GenType /\ gen.pair \in Seq(Nat \X Nat) /\ Len(gen.pair) \in Nat
  BY DEF GenOK, GenType
<1>2. Front(gen.pair) \in Seq(Nat \X Nat) /\ Len(Front(gen.pair)) = Len(gen.pair) - 1
  BY <1>1 DEF Front
<1>3. \A k \in 1 .. Len(gen.pair) - 1 : Front(gen.pair)[k] = gen.pair[k]
  BY <1>1 DEF Front
<1>4. h = [map |-> gen.map, pair |-> Front(gen.pair), lost |-> gen.lost]
  BY <1>1 DEF PopPair, GenType
<1>5. /\ h \in GenType /\ h.map = gen.map /\ h.lost = gen.lost
      /\ h.pair = Front(gen.pair)
  BY <1>1, <1>2, <1>4 DEF GenType
<1> HIDE DEF h
<1>6. GenOK(h)
  BY <1>5 DEF GenOK
<1>7. DOMAIN h.pair = 1 .. Len(gen.pair) - 1
  BY <1>2, <1>5
<1>8. PairsGiven(h)
  BY <1>1, <1>3, <1>5, <1>7 DEF PairsGiven
<1>9. \A k \in DOMAIN gen.pair : k \in DOMAIN h.pair \/ k = Len(gen.pair)
  BY <1>1, <1>7
<1>10. ASSUME NEW c \in Nat, NEW l \in Nat, KeptIn(gen, c, l)
       PROVE  KeptIn(h, c, l) \/ Last(gen.pair) = <<c, l>>
  BY <1>3, <1>5, <1>7, <1>9, <1>10 DEF KeptIn, Last
<1> QED BY <1>5, <1>6, <1>8, <1>10 DEF h

-----------------------------------------------------------------------------
(* Sorting keeps what is sorted.                                           *)

(* The places of a sequence.                                               *)
LEMMA UptoFinite ==
    ASSUME NEW n \in Nat
    PROVE  IsFiniteSet(1 .. n) /\ Cardinality(1 .. n) = n
BY FS_Interval

(* A sequence arranged by places that are all different has its elements.  *)
LEMMA ArrangedKeeps ==
    ASSUME NEW S, NEW s \in Seq(S),
           NEW place \in Injection(1 .. Len(s), 1 .. Len(s))
    PROVE  /\ Arranged(s, place) \in Seq(S)
           /\ DOMAIN Arranged(s, place) = DOMAIN s
           /\ \A k \in DOMAIN s : Arranged(s, place)[place[k]] = s[k]
           /\ \A n \in DOMAIN s : \E k \in DOMAIN s :
                place[k] = n /\ Arranged(s, place)[n] = s[k]
<1> DEFINE a == Arranged(s, place)
           D == 1 .. Len(s)
<1>1. DOMAIN s = D /\ Len(s) \in Nat /\ \A k \in D : s[k] \in S
  OBVIOUS
<1>2. place \in [D -> D] /\ \A j, k \in D : place[j] = place[k] => j = k
  BY DEF Injection, IsInjective
<1>3. place \in Surjection(D, D)
  <2>1. IsFiniteSet(D)
    BY <1>1, FS_Interval
  <2> QED BY <2>1, FS_Injection
<1>4. \A n \in D : \E k \in D : place[k] = n
  BY <1>3 DEF Surjection
<1>5. \A n \in D : /\ (CHOOSE k \in D : place[k] = n) \in D
                   /\ place[CHOOSE k \in D : place[k] = n] = n
  BY <1>4
<1>6. a = [n \in D |-> s[CHOOSE k \in D : place[k] = n]]
  BY <1>1 DEF Arranged
<1>7. \A n \in D : \E k \in D : place[k] = n /\ a[n] = s[k]
  BY <1>5, <1>6
<1>8. \A k \in D : a[place[k]] = s[k]
  BY <1>2, <1>7
<1>9. a \in [D -> S]
  BY <1>1, <1>5, <1>6
<1>10. a \in Seq(S)
  BY <1>1, <1>9
<1> QED BY <1>1, <1>6, <1>7, <1>8, <1>10

(* The order of the pairs is a strict and total one.                       *)
LEMMA PairOrder ==
    ASSUME NEW p \in Nat \X Nat, NEW q \in Nat \X Nat, NEW r \in Nat \X Nat
    PROVE  /\ ~PairBefore(p, p)
           /\ p # q => PairBefore(p, q) \/ PairBefore(q, p)
           /\ ~(PairBefore(p, q) /\ PairBefore(q, p))
           /\ PairBefore(p, q) /\ PairBefore(q, r) => PairBefore(p, r)
<1>1. /\ p[1] \in Nat /\ p[2] \in Nat /\ q[1] \in Nat /\ q[2] \in Nat
      /\ r[1] \in Nat /\ r[2] \in Nat
  OBVIOUS
<1>2. p # q => p[1] # q[1] \/ p[2] # q[2]
  OBVIOUS
<1>3. /\ Authoritative(p) /\ Authoritative(q) /\ p[1] = q[1] => p[2] = q[2]
      /\ Authoritative(q) /\ Authoritative(r) /\ q[1] = r[1] => q[2] = r[2]
      /\ Authoritative(p) /\ Authoritative(r) /\ p[1] = r[1] => p[2] = r[2]
  BY DEF Authoritative
<1>4. /\ p[1] = q[1] /\ p[2] = q[2] => (Authoritative(p) <=> Authoritative(q))
      /\ p[1] = r[1] /\ p[2] = r[2] => (Authoritative(p) <=> Authoritative(r))
  BY DEF Authoritative
<1>5. ~PairBefore(p, p)
  BY <1>1 DEF PairBefore
<1>6. p # q => PairBefore(p, q) \/ PairBefore(q, p)
  BY <1>1, <1>2, <1>3 DEF PairBefore
<1>7. ~(PairBefore(p, q) /\ PairBefore(q, p))
  BY <1>1 DEF PairBefore
<1>8. PairBefore(p, q) /\ PairBefore(q, r) => PairBefore(p, r)
  BY <1>1, <1>3, <1>4 DEF PairBefore
<1> QED BY <1>5, <1>6, <1>7, <1>8

(* The elements of D in the order R, and the place of each.                *)
Orders(R, D) ==
    /\ \A j \in D : <<j, j>> \in R
    /\ \A j, k \in D : <<j, k>> \in R \/ <<k, j>> \in R
    /\ \A j, k \in D : <<j, k>> \in R /\ <<k, j>> \in R => j = k
    /\ \A i, j, k \in D : <<i, j>> \in R /\ <<j, k>> \in R => <<i, k>> \in R

Upto(R, D, k) == {j \in D : <<j, k>> \in R}

Rank(R, D) == [k \in D |-> Cardinality(Upto(R, D, k))]

(* Every place is taken once, in that order.                               *)
LEMMA RankIsPlace ==
    ASSUME NEW D, IsFiniteSet(D), NEW R, Orders(R, D)
    PROVE  /\ Cardinality(D) \in Nat
           /\ Rank(R, D) \in Injection(D, 1 .. Cardinality(D))
           /\ Rank(R, D) \in Surjection(D, 1 .. Cardinality(D))
           /\ \A j, k \in D : <<j, k>> \in R <=> Rank(R, D)[j] <= Rank(R, D)[k]
<1> DEFINE n == Cardinality(D)
           place == Rank(R, D)
<1>1. n \in Nat
  BY FS_CardinalityType
<1>2. ASSUME NEW k \in D
      PROVE  /\ Upto(R, D, k) \in SUBSET D /\ IsFiniteSet(Upto(R, D, k))
             /\ Cardinality(Upto(R, D, k)) \in 1 .. n
  <2>1. k \in Upto(R, D, k) /\ Upto(R, D, k) \in SUBSET D
    BY DEF Orders, Upto
  <2>2. IsFiniteSet(Upto(R, D, k)) /\ Cardinality(Upto(R, D, k)) <= n
    BY <2>1, FS_Subset
  <2>3. Cardinality(Upto(R, D, k)) \in Nat
    BY <2>2, FS_CardinalityType
  <2>4. Cardinality(Upto(R, D, k)) # 0
    BY <2>1, <2>2, FS_EmptySet
  <2> QED BY <1>1, <2>1, <2>2, <2>3, <2>4
<1>3. ASSUME NEW j \in D, NEW k \in D, <<j, k>> \in R, j # k
      PROVE  Cardinality(Upto(R, D, j)) < Cardinality(Upto(R, D, k))
  <2>1. Upto(R, D, j) \in SUBSET Upto(R, D, k)
    BY <1>3 DEF Orders, Upto
  <2>2. k \in Upto(R, D, k) /\ k \notin Upto(R, D, j)
    BY <1>3 DEF Orders, Upto
  <2>3. /\ Cardinality(Upto(R, D, j)) <= Cardinality(Upto(R, D, k))
        /\ Cardinality(Upto(R, D, j)) # Cardinality(Upto(R, D, k))
    BY <1>2, <2>1, <2>2, FS_Subset
  <2>4. Cardinality(Upto(R, D, j)) \in Nat /\ Cardinality(Upto(R, D, k)) \in Nat
    BY <1>1, <1>2
  <2> QED BY <2>3, <2>4
<1>4. \A k \in D : place[k] = Cardinality(Upto(R, D, k)) /\ place[k] \in Nat
  BY <1>1, <1>2 DEF Rank
<1> HIDE DEF place
<1>5. ASSUME NEW j \in D, NEW k \in D, j # k
      PROVE  \/ <<j, k>> \in R /\ place[j] < place[k]
             \/ <<k, j>> \in R /\ place[k] < place[j]
  <2>1. <<j, k>> \in R \/ <<k, j>> \in R
    BY DEF Orders
  <2>2. CASE <<j, k>> \in R
    BY <1>3, <1>4, <1>5, <2>2
  <2>3. CASE <<k, j>> \in R
    BY <1>3, <1>4, <1>5, <2>3
  <2> QED BY <2>1, <2>2, <2>3
<1>6. ASSUME NEW j \in D, NEW k \in D, place[j] = place[k]
      PROVE  j = k
  <2> SUFFICES ASSUME j # k PROVE FALSE
    OBVIOUS
  <2>1. place[j] < place[k] \/ place[k] < place[j]
    BY <1>5
  <2>2. place[j] \in Nat /\ place[k] \in Nat
    BY <1>4
  <2> QED BY <1>6, <2>1, <2>2
<1>7. place \in [D -> 1 .. n]
  BY <1>2 DEF Rank, place
<1>8. place \in Injection(D, 1 .. n)
  BY <1>6, <1>7 DEF Injection, IsInjective
<1>9. place \in Surjection(D, 1 .. n)
  <2>1. IsFiniteSet(1 .. n) /\ Cardinality(1 .. n) = n
    BY <1>1, UptoFinite
  <2> QED BY <1>8, <2>1, FS_Injection
<1>10. \A j, k \in D : <<j, k>> \in R <=> place[j] <= place[k]
  <2> SUFFICES ASSUME NEW j \in D, NEW k \in D
               PROVE  <<j, k>> \in R <=> place[j] <= place[k]
    OBVIOUS
  <2>1. CASE j = k
    BY <1>4, <2>1 DEF Orders
  <2>2. CASE j # k
    <3>1. ~(<<j, k>> \in R /\ <<k, j>> \in R)
      BY <2>2 DEF Orders
    <3>2. place[j] \in Nat /\ place[k] \in Nat
      BY <1>4
    <3> QED BY <1>5, <2>2, <3>1, <3>2
  <2> QED BY <2>1, <2>2
<1> QED BY <1>1, <1>8, <1>9, <1>10 DEF place

(* The places r[1] and r[2] of D that the sort keeps in this order.        *)
PairsOrder(pair, D) ==
    {r \in D \X D :
        \/ PairBefore(pair[r[1]], pair[r[2]])
        \/ r[1] <= r[2] /\ ~PairBefore(pair[r[2]], pair[r[1]])}

(* So no two pairs get the same place.                                     *)
LEMMA PairPlacesDiffer ==
    ASSUME NEW pair \in Seq(Nat \X Nat)
    PROVE  /\ PairPlaces(pair) \in Injection(1 .. Len(pair), 1 .. Len(pair))
           /\ \A j, k \in DOMAIN pair : PairBefore(pair[j], pair[k]) =>
                 PairPlaces(pair)[j] <= PairPlaces(pair)[k]
<1> DEFINE D == 1 .. Len(pair)
           R == PairsOrder(pair, D)
<1>1. /\ DOMAIN pair = D /\ Len(pair) \in Nat
      /\ \A k \in D : pair[k] \in Nat \X Nat /\ k \in Nat
  OBVIOUS
<1>2. IsFiniteSet(D) /\ Cardinality(D) = Len(pair)
  BY <1>1, UptoFinite
<1> HIDE DEF D
<1>3. \A j, k \in D : <<j, k>> \in R <=>
         \/ PairBefore(pair[j], pair[k])
         \/ j <= k /\ ~PairBefore(pair[k], pair[j])
  <2>1. R = {r \in D \X D :
                \/ PairBefore(pair[r[1]], pair[r[2]])
                \/ r[1] <= r[2] /\ ~PairBefore(pair[r[2]], pair[r[1]])}
    BY DEF PairsOrder
  <2> HIDE DEF R
  <2> SUFFICES ASSUME NEW j \in D, NEW k \in D
               PROVE  <<j, k>> \in R <=>
                         \/ PairBefore(pair[j], pair[k])
                         \/ j <= k /\ ~PairBefore(pair[k], pair[j])
    OBVIOUS
  <2>2. <<j, k>> \in D \X D /\ <<j, k>>[1] = j /\ <<j, k>>[2] = k
    OBVIOUS
  <2> QED BY <2>1, <2>2
<1>4. PairPlaces(pair) = Rank(R, D)
  <2> HIDE DEF R
  <2>1. \A k \in D : Upto(R, D, k) = {j \in D :
           \/ PairBefore(pair[j], pair[k])
           \/ j <= k /\ ~PairBefore(pair[k], pair[j])}
    BY <1>3 DEF Upto
  <2> QED BY <1>1, <2>1 DEF PairPlaces, Rank
<1> HIDE DEF R
<1>5. \A i, j, k \in D :
         /\ ~PairBefore(pair[i], pair[i])
         /\ pair[i] # pair[j] =>
               PairBefore(pair[i], pair[j]) \/ PairBefore(pair[j], pair[i])
         /\ ~(PairBefore(pair[i], pair[j]) /\ PairBefore(pair[j], pair[i]))
         /\ PairBefore(pair[i], pair[j]) /\ PairBefore(pair[j], pair[k]) =>
               PairBefore(pair[i], pair[k])
  BY <1>1, PairOrder
<1>6. ASSUME NEW j \in D, NEW k \in D
      PROVE  <<j, k>> \in R <=>
                PairBefore(pair[j], pair[k]) \/ (j <= k /\ pair[j] = pair[k])
  <2>1. pair[j] = pair[k] => ~PairBefore(pair[k], pair[j])
    BY <1>5
  <2> QED BY <1>3, <1>5, <2>1
<1>7. Orders(R, D)
  <2>1. \A j \in D : <<j, j>> \in R
    BY <1>1, <1>6
  <2>2. ASSUME NEW j \in D, NEW k \in D PROVE <<j, k>> \in R \/ <<k, j>> \in R
    <3>1. j \in Nat /\ k \in Nat /\ (j <= k \/ k <= j)
      BY <1>1
    <3> QED BY <1>5, <1>6, <3>1
  <2>3. ASSUME NEW j \in D, NEW k \in D, <<j, k>> \in R, <<k, j>> \in R
        PROVE  j = k
    <3>1. j \in Nat /\ k \in Nat /\ (j <= k /\ k <= j => j = k)
      BY <1>1
    <3>2. pair[j] = pair[k] => ~PairBefore(pair[j], pair[k])
      BY <1>5
    <3>3. pair[j] = pair[k] => ~PairBefore(pair[k], pair[j])
      BY <1>5
    <3> QED BY <1>5, <1>6, <2>3, <3>1, <3>2, <3>3
  <2>4. ASSUME NEW i \in D, NEW j \in D, NEW k \in D, <<i, j>> \in R, <<j, k>> \in R
        PROVE  <<i, k>> \in R
    <3>1. i \in Nat /\ j \in Nat /\ k \in Nat /\ (i <= j /\ j <= k => i <= k)
      BY <1>1
    <3>2. /\ PairBefore(pair[i], pair[j]) \/ (i <= j /\ pair[i] = pair[j])
          /\ PairBefore(pair[j], pair[k]) \/ (j <= k /\ pair[j] = pair[k])
      BY <1>6, <2>4
    <3>3. PairBefore(pair[i], pair[k]) \/ (i <= k /\ pair[i] = pair[k])
      BY <1>5, <3>1, <3>2
    <3> QED BY <1>6, <3>3
  <2> QED BY <2>1, <2>2, <2>3, <2>4 DEF Orders
<1>8. /\ Rank(R, D) \in Injection(D, D)
      /\ \A j, k \in D : <<j, k>> \in R => Rank(R, D)[j] <= Rank(R, D)[k]
  BY <1>2, <1>7, RankIsPlace DEF D
<1> QED BY <1>1, <1>4, <1>6, <1>8 DEF D

(* The sort by places keeps every pair.                                    *)
LEMMA SortedPairs ==
    ASSUME NEW pair \in Seq(Nat \X Nat)
    PROVE  LET s == Arranged(pair, PairPlaces(pair)) IN
           /\ s \in Seq(Nat \X Nat)
           /\ \A k \in DOMAIN pair : \E n \in DOMAIN s : s[n] = pair[k]
           /\ \A n \in DOMAIN s : \E k \in DOMAIN pair : s[n] = pair[k]
           /\ \A m, n \in DOMAIN s : m < n => ~PairBefore(s[n], s[m])
           /\ (\A j, k \in DOMAIN pair : pair[j] = pair[k] => j = k) =>
                 \A m, n \in DOMAIN s : s[m] = s[n] => m = n
<1>1. /\ PairPlaces(pair) \in Injection(1 .. Len(pair), 1 .. Len(pair))
      /\ \A j, k \in DOMAIN pair : PairBefore(pair[j], pair[k]) =>
            PairPlaces(pair)[j] <= PairPlaces(pair)[k]
  BY PairPlacesDiffer
<1>2. \A k \in DOMAIN pair : PairPlaces(pair)[k] \in DOMAIN pair
  BY <1>1 DEF Injection
<1> DEFINE s == Arranged(pair, PairPlaces(pair))
<1>3. /\ s \in Seq(Nat \X Nat) /\ DOMAIN s = DOMAIN pair
      /\ \A k \in DOMAIN pair : s[PairPlaces(pair)[k]] = pair[k]
      /\ \A n \in DOMAIN s : \E k \in DOMAIN pair :
            PairPlaces(pair)[k] = n /\ s[n] = pair[k]
  BY <1>1, ArrangedKeeps
<1> HIDE DEF s
<1>4. ASSUME NEW m \in DOMAIN s, NEW n \in DOMAIN s, m < n
      PROVE  ~PairBefore(s[n], s[m])
  <2>1. PICK j \in DOMAIN pair : PairPlaces(pair)[j] = m /\ s[m] = pair[j]
    BY <1>3
  <2>2. PICK k \in DOMAIN pair : PairPlaces(pair)[k] = n /\ s[n] = pair[k]
    BY <1>3
  <2>3. m \in Nat /\ n \in Nat
    <3>1. DOMAIN pair \subseteq Nat
      OBVIOUS
    <3> QED BY <1>3, <3>1
  <2>4. ~(n <= m)
    BY <1>4, <2>3
  <2> QED BY <1>1, <2>1, <2>2, <2>4
<1>5. (\A j, k \in DOMAIN pair : pair[j] = pair[k] => j = k) =>
         \A m, n \in DOMAIN s : s[m] = s[n] => m = n
  <2> SUFFICES ASSUME \A j, k \in DOMAIN pair : pair[j] = pair[k] => j = k,
                      NEW m \in DOMAIN s, NEW n \in DOMAIN s, s[m] = s[n]
               PROVE  m = n
    OBVIOUS
  <2>1. PICK j \in DOMAIN pair : PairPlaces(pair)[j] = m /\ s[m] = pair[j]
    BY <1>3
  <2>2. PICK k \in DOMAIN pair : PairPlaces(pair)[k] = n /\ s[n] = pair[k]
    BY <1>3
  <2>3. j = k
    BY <2>1, <2>2
  <2> QED BY <2>1, <2>2, <2>3
<1> QED BY <1>2, <1>3, <1>4, <1>5 DEF s

-----------------------------------------------------------------------------
(* The invariant.                                                          *)

GInv ==
    /\ FileOK
    /\ GenOK(gen)
    /\ phase \in {"scan", "extras", "emit", "done"}
    /\ todo \subseteq IF phase = "scan" THEN DOMAIN upper ELSE DOMAIN lower
    /\ prev \in {0} \cup DOMAIN upper
    /\ phase = "scan" => PairsGiven(gen)
    /\ phase = "scan" =>
          InOrder(gen.map, prev) /\ \A c \in todo : prev <= c
    /\ NoneForgotten

(* What is kept, is kept in the tables at hand.                            *)
LEMMA KeptIsKeptIn == \A c, l : Kept(c, l) <=> KeptIn(gen, c, l)
BY DEF Kept, KeptIn

(* The invariant holds at the start.                                       *)
LEMMA GInvInit == Init => GInv
<1> SUFFICES ASSUME Init PROVE GInv
  OBVIOUS
<1>1. PICK u \in Ucd : upper = u.upper /\ lower = u.lower
  BY DEF Init
<1>2. FileOK
  <2>1. \A f \in {u.upper, u.lower} : \A c \in DOMAIN f : c \in Codes /\ f[c] \in Codes
    BY UcdOK
  <2> QED BY <1>1, <2>1, CodesAreNumbers DEF FileOK
<1>3. gen.map = << >> /\ gen.pair = << >> /\ gen.lost = {} /\ gen \in GenType
  BY DEF Init, Empty, GenType
<1>4. GenOK(gen) /\ PairsGiven(gen)
  BY <1>3 DEF GenOK, PairsGiven
<1>5. NoneForgotten
  BY DEF Init, NoneForgotten, Pending
<1>6. InOrder(gen.map, prev) /\ \A c \in todo : prev <= c
  BY <1>2, <1>3 DEF Init, InOrder, FileOK
<1> QED BY <1>2, <1>4, <1>5, <1>6 DEF Init, GInv

(* The scan adds the mapping of the code point it is at.                   *)
LEMMA ScanAdds ==
    ASSUME GInv, Scanning, NEW g, Scanned(g), Adds(gen, g, cp, lc),
           InOrder(g.map, cp)
    PROVE  GInv'
<1>1. /\ gen' = g /\ prev' = cp /\ todo' = todo \ {cp}
      /\ UNCHANGED <<upper, lower, out, phase>> /\ phase = "scan"
  BY DEF Scanned, Scanning
<1>2. /\ cp \in todo /\ todo \subseteq DOMAIN upper
      /\ \A c \in todo : cp <= c
  BY <1>1, LeastIs DEF GInv, FileOK, Scanning, cp
<1>3. FileOK' /\ GenOK(gen)' /\ PairsGiven(gen)'
  BY <1>1 DEF GInv, FileOK, Adds, GenOK, EntryOK, Opposed, PairsGiven, Maps
<1>4. NoneForgotten'
  <2>1. ASSUME NEW c \in DOMAIN upper
        PROVE  (phase = "scan" /\ c \in todo \ {cp}) \/ KeptIn(g, c, upper[c])
    <3>1. c \in Nat /\ upper[c] \in Nat
      BY DEF GInv, FileOK
    <3>2. CASE c = cp
      BY <3>2 DEF Adds, lc
    <3>3. CASE c # cp
      BY <1>1, <3>1, <3>3, KeptIsKeptIn
         DEF GInv, NoneForgotten, Pending, Adds, Keeps
    <3> QED BY <3>2, <3>3
  <2> QED BY <1>1, <2>1 DEF NoneForgotten, Pending, Kept, KeptIn
<1>5. InOrder(gen.map, prev)' /\ \A c \in todo' : prev' <= c
  BY <1>1, <1>2 DEF InOrder
<1> QED BY <1>1, <1>2, <1>3, <1>4, <1>5 DEF GInv

(* The pair that is about to be popped is a mapping of the file.           *)
LEMMA FollowsPairMaps ==
    ASSUME GInv, phase = "scan", FollowsPair
    PROVE  /\ cp - 1 \in Nat /\ lc - 1 \in Nat /\ Maps(cp - 1, lc - 1)
           /\ Adds(gen, gen, cp - 1, lc - 1) /\ gen.pair # << >>
<1>1. /\ gen.pair \in Seq(Nat \X Nat) /\ gen.pair # << >>
      /\ Last(gen.pair) = <<cp - 1, lc - 1>>
      /\ GenOK(gen) /\ PairsGiven(gen)
  BY DEF GInv, GenOK, GenType, FollowsPair
<1>2. Len(gen.pair) \in DOMAIN gen.pair
  BY <1>1
<1>3. gen.pair[Len(gen.pair)] = <<cp - 1, lc - 1>>
  BY <1>1 DEF Last
<1>4. gen.pair[Len(gen.pair)] \in Nat \X Nat
  BY <1>1, <1>2
<1>5. Maps(cp - 1, lc - 1)
  <2>1. Maps(gen.pair[Len(gen.pair)][1], gen.pair[Len(gen.pair)][2])
    BY <1>1, <1>2 DEF PairsGiven
  <2>2. /\ gen.pair[Len(gen.pair)][1] = cp - 1
        /\ gen.pair[Len(gen.pair)][2] = lc - 1
    BY <1>3
  <2> QED BY <2>1, <2>2
<1>6. KeptIn(gen, cp - 1, lc - 1)
  BY <1>2, <1>3 DEF KeptIn
<1> QED BY <1>1, <1>3, <1>4, <1>5, <1>6 DEF Adds, Keeps

(* Without it the ranges still begin in order, before its uppercase.       *)
LEMMA PoppedInOrder ==
    ASSUME GInv, Scanning, FollowsPair, cp - prev = 1, cp \in Nat
    PROVE  PopPair \in GenType /\ InOrder(PopPair.map, cp - 1)
<1>1. GenOK(gen) /\ PairsGiven(gen) /\ gen.pair # << >>
  BY DEF GInv, Scanning, FollowsPair
<1>2. GenOK(PopPair) /\ PopPair.map = gen.map
  BY <1>1, PopPairOK
<1>3. prev = cp - 1
  BY DEF GInv, FileOK
<1>4. InOrder(gen.map, prev)
  BY DEF GInv, Scanning
<1> QED BY <1>2, <1>3, <1>4 DEF GenOK

(* A pair that is taken back and made an entry is still kept.              *)
LEMMA PoppedAdds ==
    ASSUME GenOK(gen), PairsGiven(gen), gen.pair # << >>,
           NEW b, NEW t, Last(gen.pair) = <<b, t>>,
           NEW h, Adds(PopPair, h, b, t)
    PROVE  Keeps(gen, h)
BY PopPairOK DEF Adds, Keeps

(* Every step keeps the invariant.                                         *)
LEMMA GInvNext == GInv /\ [Next]_vars => GInv'
<1> SUFFICES ASSUME GInv, [Next]_vars PROVE GInv'
  OBVIOUS
<1>1. ASSUME Scanning
      PROVE  /\ cp \in DOMAIN upper /\ cp \in Nat /\ lc \in Nat /\ Maps(cp, lc)
             /\ phase = "scan" /\ GenOK(gen) /\ PairsGiven(gen)
             /\ gen \in GenType /\ prev \in Nat /\ InOrder(gen.map, prev)
             /\ InOrder(gen.map, cp)
  <2>1. todo \in SUBSET Nat /\ todo # {} /\ todo \subseteq DOMAIN upper
    BY <1>1 DEF Scanning, GInv, FileOK
  <2>2. cp \in todo
    BY <2>1, LeastIs DEF cp
  <2>3. gen \in GenType /\ prev \in Nat /\ InOrder(gen.map, prev)
    BY <1>1 DEF Scanning, GInv, GenOK, FileOK
  <2>4. InOrder(gen.map, cp)
    <3>1. prev <= cp /\ cp \in Nat
      BY <1>1, <2>1, <2>2 DEF Scanning, GInv
    <3> QED BY <2>3, <3>1, LaterInOrder
  <2> QED BY <1>1, <2>1, <2>2, <2>3, <2>4 DEF GInv, FileOK, Maps, lc, Scanning
<1>2. CASE ScanFirst
  <2>1. /\ Adds(gen, AddMap(gen, cp, lc), cp, lc)
        /\ InOrder(AddMap(gen, cp, lc).map, cp)
    BY <1>1, <1>2, AddMapOK, AddMapInOrder DEF ScanFirst
  <2> QED BY <1>2, <2>1, ScanAdds DEF ScanFirst
<1>3. CASE ScanNextLace
  <2>1. Scanning /\ lc - cp = 1 /\ cp - prev = 1
    BY <1>3 DEF ScanNextLace
  <2>2. CASE FollowsPair
    <3> DEFINE h == AddLace(PopPair, cp - 1, lc - 1)
    <3>1. /\ cp - 1 \in Nat /\ lc - 1 \in Nat /\ Maps(cp - 1, lc - 1)
          /\ gen.pair # << >> /\ Last(gen.pair) = <<cp - 1, lc - 1>>
      BY <1>1, <2>1, <2>2, FollowsPairMaps DEF FollowsPair
    <3>2. /\ GenOK(PopPair) /\ PairsGiven(PopPair)
          /\ PopPair \in GenType /\ InOrder(PopPair.map, cp - 1)
      BY <1>1, <2>1, <2>2, <3>1, PopPairOK, PoppedInOrder
    <3>3. (lc - 1) - (cp - 1) = 1
      BY <1>1, <2>1
    <3>4. Adds(PopPair, h, cp - 1, lc - 1)
      BY <3>1, <3>2, <3>3, AddLaceOK
    <3>5. GenOK(h) /\ PairsGiven(h) /\ Keeps(gen, h)
      BY <1>1, <2>1, <3>1, <3>4, PoppedAdds DEF Adds
    <3>9. h \in GenType /\ InOrder(h.map, cp - 1)
      BY <3>1, <3>2, <3>5, AddLaceInOrder DEF GenOK
    <3> HIDE DEF h
    <3>10. InOrder(h.map, cp)
      BY <1>1, <2>1, <3>9, LaterInOrder
    <3>11. InOrder(AddLace(h, cp, lc).map, cp)
      BY <1>1, <2>1, <3>9, <3>10, AddLaceInOrder
    <3>6. Adds(h, AddLace(h, cp, lc), cp, lc)
      BY <1>1, <2>1, <3>5, AddLaceOK
    <3>7. Adds(gen, AddLace(h, cp, lc), cp, lc)
      BY <3>5, <3>6 DEF Adds, Keeps
    <3>8. Scanned(AddLace(h, cp, lc))
      BY <1>3, <2>2 DEF ScanNextLace, h
    <3> QED BY <2>1, <3>7, <3>8, <3>11, ScanAdds
  <2>3. CASE ~FollowsPair
    <3>1. /\ Adds(gen, AddLace(gen, cp, lc), cp, lc)
          /\ InOrder(AddLace(gen, cp, lc).map, cp)
      BY <1>1, <2>1, AddLaceOK, AddLaceInOrder
    <3> QED BY <1>3, <2>1, <2>3, <3>1, ScanAdds DEF ScanNextLace
  <2> QED BY <2>2, <2>3
<1>4. CASE ScanNextMap
  <2>1. Scanning /\ cp - prev = 1
    BY <1>4 DEF ScanNextMap
  <2>2. CASE FollowsPair
    <3> DEFINE h == AddMap(PopPair, cp - 1, lc - 1)
    <3>1. /\ cp - 1 \in Nat /\ lc - 1 \in Nat /\ Maps(cp - 1, lc - 1)
          /\ gen.pair # << >> /\ Last(gen.pair) = <<cp - 1, lc - 1>>
      BY <1>1, <2>1, <2>2, FollowsPairMaps DEF FollowsPair
    <3>2. /\ GenOK(PopPair) /\ PairsGiven(PopPair)
          /\ PopPair \in GenType /\ InOrder(PopPair.map, cp - 1)
      BY <1>1, <2>1, <2>2, <3>1, PopPairOK, PoppedInOrder
    <3>4. Adds(PopPair, h, cp - 1, lc - 1)
      BY <3>1, <3>2, AddMapOK
    <3>5. GenOK(h) /\ PairsGiven(h) /\ Keeps(gen, h)
      BY <1>1, <2>1, <3>1, <3>4, PoppedAdds DEF Adds
    <3>9. h \in GenType /\ InOrder(h.map, cp - 1)
      BY <3>1, <3>2, <3>5, AddMapInOrder DEF GenOK
    <3> HIDE DEF h
    <3>10. InOrder(h.map, cp)
      BY <1>1, <2>1, <3>9, LaterInOrder
    <3>11. InOrder(AddMap(h, cp, lc).map, cp)
      BY <1>1, <2>1, <3>9, <3>10, AddMapInOrder
    <3>6. Adds(h, AddMap(h, cp, lc), cp, lc)
      BY <1>1, <2>1, <3>5, <3>10, AddMapOK
    <3>7. Adds(gen, AddMap(h, cp, lc), cp, lc)
      BY <3>5, <3>6 DEF Adds, Keeps
    <3>8. Scanned(AddMap(h, cp, lc))
      BY <1>4, <2>2 DEF ScanNextMap, h
    <3> QED BY <2>1, <3>7, <3>8, <3>11, ScanAdds
  <2>3. CASE ~FollowsPair
    <3>1. /\ Adds(gen, AddMap(gen, cp, lc), cp, lc)
          /\ InOrder(AddMap(gen, cp, lc).map, cp)
      BY <1>1, <2>1, AddMapOK, AddMapInOrder
    <3> QED BY <1>4, <2>1, <2>3, <3>1, ScanAdds DEF ScanNextMap
  <2> QED BY <2>2, <2>3
<1>5. CASE ScanHole
  <2>1. Scanning
    BY <1>5 DEF ScanHole
  <2>2. CASE lc - cp = 1
    <3>1. /\ Adds(gen, AddLace(gen, cp, lc), cp, lc)
          /\ InOrder(AddLace(gen, cp, lc).map, cp)
      BY <1>1, <2>1, <2>2, AddLaceOK, AddLaceInOrder
    <3> QED BY <1>5, <2>1, <2>2, <3>1, ScanAdds DEF ScanHole
  <2>3. CASE lc - cp # 1
    <3>1. Behind(gen.map, cp, lc)
      BY <1>1, <2>1 DEF Behind, InOrder
    <3>2. /\ Adds(gen, AddPair(gen, cp, lc), cp, lc)
          /\ InOrder(AddPair(gen, cp, lc).map, cp)
      BY <1>1, <2>1, <3>1, AddPairOK
    <3> QED BY <1>5, <2>1, <2>3, <3>2, ScanAdds DEF ScanHole
  <2> QED BY <2>2, <2>3
<1>6. CASE ScanDone
  BY <1>6
     DEF ScanDone, OneWay, GInv, FileOK, GenOK, EntryOK, Opposed, Maps,
         NoneForgotten, Pending, Kept
<1>7. CASE AddExtra
  <2>1. /\ phase = "extras" /\ todo \in SUBSET Nat /\ todo # {}
        /\ todo \subseteq DOMAIN lower
    BY <1>7 DEF AddExtra, GInv, FileOK
  <2>2. cp \in todo /\ lower[cp] \in Nat /\ cp \in Nat
    BY <2>1, LeastIs DEF cp, GInv, FileOK
  <2>3. gen \in GenType /\ gen.pair \in Seq(Nat \X Nat)
    BY DEF GInv, GenOK, GenType
  <2>4. gen' = [map |-> gen.map, pair |-> Append(gen.pair, <<lower[cp], cp>>),
                lost |-> gen.lost]
    BY <1>7, <2>2, <2>3 DEF AddExtra, GenType
  <2>5. /\ gen' \in GenType /\ gen'.map = gen.map /\ gen'.lost = gen.lost
        /\ gen'.pair = Append(gen.pair, <<lower[cp], cp>>)
    BY <2>2, <2>3, <2>4 DEF GenType
  <2>6. \A k \in DOMAIN gen.pair : k \in DOMAIN gen'.pair /\ gen'.pair[k] = gen.pair[k]
    BY <2>3, <2>5
  <2>7. UNCHANGED <<upper, lower, prev, phase>> /\ todo' = todo \ {cp}
    BY <1>7 DEF AddExtra
  <2>8. GenOK(gen)'
    BY <2>5, <2>7 DEF GInv, GenOK, EntryOK, Opposed, Maps
  <2>9. NoneForgotten'
    BY <2>1, <2>5, <2>6, <2>7 DEF GInv, NoneForgotten, Pending, Kept
  <2> QED BY <2>1, <2>7, <2>8, <2>9 DEF GInv, FileOK
<1>8. CASE SortPairs
  <2>1. phase = "extras" /\ phase' = "emit" /\ UNCHANGED <<upper, lower, todo, prev>>
    BY <1>8 DEF SortPairs
  <2>2. gen \in GenType /\ gen.pair \in Seq(Nat \X Nat)
    BY DEF GInv, GenOK, GenType
  <2> DEFINE s == Arranged(gen.pair, PairPlaces(gen.pair))
  <2>3. /\ s \in Seq(Nat \X Nat)
        /\ \A k \in DOMAIN gen.pair : \E n \in DOMAIN s : s[n] = gen.pair[k]
    BY <2>2, SortedPairs
  <2>4. gen' = [gen EXCEPT !.pair = s]
    BY <1>8 DEF SortPairs
  <2> HIDE DEF s
  <2>5. gen' = [map |-> gen.map, pair |-> s, lost |-> gen.lost]
    BY <2>2, <2>4 DEF GenType
  <2>6. /\ gen' \in GenType /\ gen'.map = gen.map /\ gen'.lost = gen.lost
        /\ gen'.pair = s
    BY <2>2, <2>3, <2>5 DEF GenType
  <2>7. GenOK(gen)'
    BY <2>1, <2>6 DEF GInv, GenOK, EntryOK, Opposed, Maps
  <2>8. NoneForgotten'
    BY <2>1, <2>3, <2>6 DEF GInv, NoneForgotten, Pending, Kept
  <2> QED BY <2>1, <2>7, <2>8 DEF GInv, FileOK
<1>9. CASE Emit
  BY <1>9
     DEF Emit, GInv, FileOK, GenOK, EntryOK, Opposed, Maps,
         NoneForgotten, Pending, Kept
<1>10. CASE UNCHANGED vars
  BY <1>10
     DEF vars, GInv, FileOK, GenOK, EntryOK, Opposed, Maps, PairsGiven,
         NoneForgotten, Pending, Kept
<1> QED BY <1>2, <1>3, <1>4, <1>5, <1>6, <1>7, <1>8, <1>9, <1>10 DEF Next

-----------------------------------------------------------------------------
(* Every variable of the generator keeps its type, for every file.         *)
THEOREM GTypeCorrect == Spec => []GTypeOK
<1>1. GInv => GTypeOK
  <2> SUFFICES ASSUME GInv PROVE GTypeOK
    OBVIOUS
  <2>1. gen.pair \in Seq(Nat \X Nat) /\ gen.lost \subseteq Nat \X Nat
    BY DEF GInv, GenOK, GenType
  <2>2. \A p \in Range(gen.pair) \cup gen.lost : p \in Nat \X Nat
    BY <2>1 DEF Range
  <2> QED BY <2>2 DEF GInv, GTypeOK, GenOK, EntryOK, IsLace
<1> QED BY GInvInit, GInvNext, <1>1, PTL DEF Spec

(* For every file the scan keeps every mapping, although it takes entries  *)
(* and pairs back.                                                         *)
THEOREM NothingForgotten == Spec => []NoneForgotten
<1>1. GInv => NoneForgotten
  BY DEF GInv
<1> QED BY GInvInit, GInvNext, <1>1, PTL DEF Spec

(* For every file each entry claims mappings of the file only.             *)
THEOREM NothingInvented == Spec => []NoneInvented
<1>1. GInv => NoneInvented
  BY CodesAreNumbers DEF GInv, GenOK, EntryOK, Maps, NoneInvented
<1> QED BY GInvInit, GInvNext, <1>1, PTL DEF Spec

(* For every file, and however unfinished the tables are that simulate()   *)
(* asks, only a pair that another letter opposes is ever left out.         *)
THEOREM NothingLost == Spec => []LeftOutOpposed
<1>1. GInv => LeftOutOpposed
  BY DEF GInv, GenOK, LeftOutOpposed
<1> QED BY GInvInit, GInvNext, <1>1, PTL DEF Spec

-----------------------------------------------------------------------------
(* No mapping is kept twice.                                               *)

Claims(m, c) == InEntry(m, c, c + Delta(m))

Touches(g, c) ==
    \/ \E j \in DOMAIN g.map : Claims(g.map[j], c)
    \/ \E k \in DOMAIN g.pair : g.pair[k][1] = c

ClaimedOnce(map) ==
    \A j, k \in DOMAIN map : \A c \in Nat :
        Claims(map[j], c) /\ Claims(map[k], c) => j = k

Once(g) ==
    /\ ClaimedOnce(g.map)
    /\ \A j, k \in DOMAIN g.pair : g.pair[j][1] = g.pair[k][1] => j = k
    /\ \A j \in DOMAIN g.map, k \in DOMAIN g.pair : ~Claims(g.map[j], g.pair[k][1])

(* A pair that is new has a key that no other pair has, and no entry.      *)
NewKey(g, h, b, k) ==
    LET c == h.pair[k][1] IN
    /\ k = Len(g.pair) + 1
    /\ c = b \/ Touches(g, c)
    /\ \A i \in DOMAIN g.pair : g.pair[i][1] # c
    /\ \A j \in DOMAIN h.map : ~Claims(h.map[j], c)

(* Of the entries one may change, the one at f, which claims b.            *)
Changes(g, h, b, f) ==
    /\ \A j \in DOMAIN h.map : \A c \in Nat : Claims(h.map[j], c) =>
          (c = b /\ j = f) \/ (j \in DOMAIN g.map /\ Claims(g.map[j], c))
    /\ \A k \in DOMAIN h.pair :
          (k \in DOMAIN g.pair /\ h.pair[k] = g.pair[k]) \/ NewKey(g, h, b, k)

OnceMore(g, h, b) ==
    /\ Once(h)
    /\ \A c \in Nat : Touches(h, c) => Touches(g, c) \/ c = b

(* Such a change keeps every mapping once.                                 *)
LEMMA OnceKept ==
    ASSUME NEW g, g.pair \in Seq(Nat \X Nat), Once(g), NEW b \in Nat, ~Touches(g, b),
           NEW h, NEW f, Changes(g, h, b, f)
    PROVE  OnceMore(g, h, b)
<1>1. \A k \in DOMAIN g.pair : g.pair[k][1] \in Nat
  OBVIOUS
<1>2. Len(g.pair) + 1 \notin DOMAIN g.pair
  OBVIOUS
<1>3. ClaimedOnce(h.map)
  BY DEF Once, ClaimedOnce, Touches, Changes
<1>4. \A j, k \in DOMAIN h.pair : h.pair[j][1] = h.pair[k][1] => j = k
  BY <1>2 DEF Once, NewKey, Changes
<1>5. \A j \in DOMAIN h.map, k \in DOMAIN h.pair : ~Claims(h.map[j], h.pair[k][1])
  BY <1>1 DEF Once, NewKey, Touches, Changes
<1>6. \A c \in Nat : Touches(h, c) => Touches(g, c) \/ c = b
  BY DEF Touches, NewKey, Changes
<1> QED BY <1>3, <1>4, <1>5, <1>6 DEF Once, OnceMore

(* A claim is a mapping of the file.                                       *)
LEMMA ClaimMaps ==
    ASSUME FileOK, NEW m, EntryOK(m), NEW c \in Nat, Claims(m, c)
    PROVE  Maps(c, c + Delta(m)) /\ c + Delta(m) \in Nat
BY DEF EntryOK, Claims, Maps, FileOK

(* add_pair() with a key that is not there.                                *)
LEMMA AddPairOnce ==
    ASSUME NEW g, GenOK(g), Once(g), NEW b \in Nat, NEW t \in Nat, ~Touches(g, b)
    PROVE  OnceMore(g, AddPair(g, b, t), b)
<1> DEFINE h == AddPair(g, b, t)
<1>1. g \in GenType /\ g.pair \in Seq(Nat \X Nat)
  BY DEF GenOK, GenType
<1>2. /\ h.map = g.map
      /\ \A k \in DOMAIN h.pair :
           \/ k \in DOMAIN g.pair /\ h.pair[k] = g.pair[k]
           \/ k = Len(g.pair) + 1 /\ h.pair[k][1] = b
  BY <1>1, AddPairShape
<1> HIDE DEF h
<1>3. \A k \in DOMAIN h.pair :
         (k \in DOMAIN g.pair /\ h.pair[k] = g.pair[k]) \/ NewKey(g, h, b, k)
  BY <1>2 DEF NewKey, Touches
<1>4. \A j \in DOMAIN h.map : \A c \in Nat : Claims(h.map[j], c) =>
         (c = b /\ j = 0) \/ (j \in DOMAIN g.map /\ Claims(g.map[j], c))
  BY <1>2
<1>5. Changes(g, h, b, 0)
  BY <1>3, <1>4 DEF Changes
<1> QED BY <1>1, <1>5, OnceKept DEF h

(* An entry is overwritten, and what it said became a pair, or nothing.    *)
LEMMA PutEntryOnce ==
    ASSUME NEW g, GenOK(g), Once(g), NEW b \in Nat, ~Touches(g, b),
           NEW k \in DOMAIN g.map, NEW n,
           \A c \in Nat : Claims(n, c) => c = b \/ Claims(g.map[k], c),
           NEW p, p.map = g.map,
           \A i \in DOMAIN p.pair :
              \/ i \in DOMAIN g.pair /\ p.pair[i] = g.pair[i]
              \/ /\ i = Len(g.pair) + 1 /\ p.pair[i][1] \in Nat
                 /\ Claims(g.map[k], p.pair[i][1]) /\ ~Claims(n, p.pair[i][1])
    PROVE  OnceMore(g, PutEntry(p, k, n), b)
<1> DEFINE h == PutEntry(p, k, n)
<1>1. g \in GenType /\ g.pair \in Seq(Nat \X Nat) /\ g.map \in Seq(Seq(Nat))
  BY DEF GenOK, GenType
<1>2. h.map = [g.map EXCEPT ![k] = n] /\ h.pair = p.pair
  BY DEF PutEntry, WithMap
<1> HIDE DEF h
<1>3. /\ DOMAIN h.map = DOMAIN g.map /\ h.map[k] = n
      /\ \A j \in DOMAIN g.map : j # k => h.map[j] = g.map[j]
  BY <1>1, <1>2
<1>4. \A j \in DOMAIN h.map : \A c \in Nat : Claims(h.map[j], c) =>
         (c = b /\ j = k) \/ (j \in DOMAIN g.map /\ Claims(g.map[j], c))
  BY <1>3
<1>5. ASSUME NEW i \in DOMAIN h.pair, ~(i \in DOMAIN g.pair /\ h.pair[i] = g.pair[i])
      PROVE  NewKey(g, h, b, i)
  <2> DEFINE c == h.pair[i][1]
  <2>1. /\ i = Len(g.pair) + 1 /\ c \in Nat
        /\ Claims(g.map[k], c) /\ ~Claims(n, c)
    BY <1>2, <1>5
  <2> HIDE DEF c
  <2>2. Touches(g, c)
    BY <2>1 DEF Touches
  <2>3. \A q \in DOMAIN g.pair : g.pair[q][1] # c
    BY <2>1 DEF Once
  <2>4. \A j \in DOMAIN h.map : ~Claims(h.map[j], c)
    BY <1>3, <2>1 DEF Once, ClaimedOnce
  <2> QED BY <2>1, <2>2, <2>3, <2>4 DEF NewKey, c
<1>6. \A i \in DOMAIN h.pair :
         (i \in DOMAIN g.pair /\ h.pair[i] = g.pair[i]) \/ NewKey(g, h, b, i)
  BY <1>5
<1>7. Changes(g, h, b, k)
  BY <1>4, <1>6 DEF Changes
<1> QED BY <1>1, <1>7, OnceKept DEF h

(* An entry is appended.                                                   *)
LEMMA NewEntryOnce ==
    ASSUME NEW g, GenOK(g), Once(g), NEW b \in Nat, ~Touches(g, b), NEW n \in Seq(Nat),
           \A c \in Nat : Claims(n, c) => c = b
    PROVE  OnceMore(g, NewEntry(g, n), b)
<1> DEFINE h == NewEntry(g, n)
<1>1. g \in GenType /\ g.pair \in Seq(Nat \X Nat) /\ g.map \in Seq(Seq(Nat))
  BY DEF GenOK, GenType
<1>2. h.map = Append(g.map, n) /\ h.pair = g.pair
  BY DEF NewEntry, WithMap
<1> HIDE DEF h
<1>3. \A j \in DOMAIN h.map :
         \/ j \in DOMAIN g.map /\ h.map[j] = g.map[j]
         \/ j = Len(g.map) + 1 /\ h.map[j] = n
  BY <1>1, <1>2
<1>4. \A j \in DOMAIN h.map : \A c \in Nat : Claims(h.map[j], c) =>
         (c = b /\ j = Len(g.map) + 1) \/ (j \in DOMAIN g.map /\ Claims(g.map[j], c))
  BY <1>3
<1>5. \A i \in DOMAIN h.pair :
         (i \in DOMAIN g.pair /\ h.pair[i] = g.pair[i]) \/ NewKey(g, h, b, i)
  BY <1>2
<1>6. Changes(g, h, b, Len(g.map) + 1)
  BY <1>4, <1>5 DEF Changes
<1> QED BY <1>1, <1>6, OnceKept DEF h

(* An entry that claims one code point is taken back: that one becomes a   *)
(* pair, and the entry claims b.                                           *)
LEMMA TakenBackOnce ==
    ASSUME NEW g, GenOK(g), Once(g), NEW b \in Nat, ~Touches(g, b),
           NEW k \in DOMAIN g.map, NEW n,
           \A c \in Nat : Claims(n, c) => c = b,
           NEW u \in Nat, NEW t \in Nat, Claims(g.map[k], u)
    PROVE  OnceMore(g, PutEntry(AddPair(g, u, t), k, n), b)
<1> DEFINE p == AddPair(g, u, t)
<1>1. g \in GenType
  BY DEF GenOK
<1>2. /\ p.map = g.map
      /\ \A i \in DOMAIN p.pair :
           \/ i \in DOMAIN g.pair /\ p.pair[i] = g.pair[i]
           \/ i = Len(g.pair) + 1 /\ p.pair[i][1] = u
  BY <1>1, AddPairShape
<1> HIDE DEF p
<1>3. u # b
  BY DEF Touches
<1>4. ~Claims(n, u)
  BY <1>3
<1>5. \A i \in DOMAIN p.pair :
         \/ i \in DOMAIN g.pair /\ p.pair[i] = g.pair[i]
         \/ /\ i = Len(g.pair) + 1 /\ p.pair[i][1] \in Nat
            /\ Claims(g.map[k], p.pair[i][1]) /\ ~Claims(n, p.pair[i][1])
  BY <1>2, <1>4
<1>6. \A c \in Nat : Claims(n, c) => c = b \/ Claims(g.map[k], c)
  OBVIOUS
<1>7. OnceMore(g, PutEntry(p, k, n), b)
  BY <1>2, <1>5, <1>6, PutEntryOnce
<1> QED BY <1>7 DEF p

(* An entry is made longer.                                                *)
LEMMA LongerOnce ==
    ASSUME NEW g, GenOK(g), Once(g), NEW b \in Nat, ~Touches(g, b),
           NEW k \in DOMAIN g.map, NEW n,
           \A c \in Nat : Claims(n, c) => c = b \/ Claims(g.map[k], c)
    PROVE  OnceMore(g, PutEntry(g, k, n), b)
<1>1. \A i \in DOMAIN g.pair :
         \/ i \in DOMAIN g.pair /\ g.pair[i] = g.pair[i]
         \/ /\ i = Len(g.pair) + 1 /\ g.pair[i][1] \in Nat
            /\ Claims(g.map[k], g.pair[i][1]) /\ ~Claims(n, g.pair[i][1])
  OBVIOUS
<1> QED BY <1>1, PutEntryOnce

(* add_map() adds the code point it is given, and no other.                *)
LEMMA AddMapOnce ==
    ASSUME FileOK, NEW g, GenOK(g), Once(g),
           NEW b \in Nat, NEW t \in Nat, Maps(b, t), ~Touches(g, b)
    PROVE  OnceMore(g, AddMap(g, b, t), b)
<1> DEFINE k == LastOf(g.map, 3)
           m == g.map[k]
           l == LastOf(g.map, 2)
           h == AddMap(g, b, t)
           single == <<b, b, t>>
<1>1. g.map \in Seq(Seq(Nat))
  BY DEF GenOK, GenType
<1>2. ASSUME k # 0
      PROVE  k \in DOMAIN g.map /\ m \in Seq(Nat) /\ Len(m) = 3 /\ EntryOK(m)
  <2>1. k \in DOMAIN g.map /\ Len(m) = 3
    BY <1>1, <1>2, LastOfIs
  <2>2. m \in Seq(Nat)
    BY <1>1, <2>1
  <2> QED BY <2>1, <2>2 DEF GenOK
<1>3. single \in Seq(Nat) /\ \A c \in Nat : Claims(single, c) => c = b
  <2>1. /\ EntryOK(single) /\ single \in Seq(Nat)
        /\ \A c, d \in Nat : InEntry(single, c, d) => c = b
    BY SingleRange
  <2> HIDE DEF single
  <2> QED BY <2>1, ClaimMaps DEF Claims
<1>4. CASE k # 0 /\ m[2] = b - 1 /\ t - b = Delta(m)
  <2> DEFINE n == <<m[1], b, m[3]>>
  <2>1. h = PutEntry(g, k, n)
    BY <1>4 DEF AddMap
  <2>2. /\ \A c, d \in Nat : InEntry(n, c, d) => InEntry(m, c, d) \/ c = b
        /\ EntryOK(n)
    BY <1>2, <1>4, LongerRange
  <2> HIDE DEF n, h, m, k
  <2>3. \A c, d \in Nat : InEntry(m, c, d) => Claims(m, c)
    BY DEF InEntry, Claims
  <2>4. \A c \in Nat : Claims(n, c) => c = b \/ Claims(m, c)
    BY <2>2, <2>3, ClaimMaps DEF Claims
  <2>5. OnceMore(g, h, b)
    BY <1>2, <1>4, <2>1, <2>4, LongerOnce DEF m
  <2> QED BY <2>5 DEF h
<1>5. CASE /\ ~(k # 0 /\ m[2] = b - 1 /\ t - b = Delta(m))
           /\ k # 0 /\ m[1] = m[2]
  <2>1. h = PutEntry(AddPair(g, m[1], m[3]), k, single)
    BY <1>5 DEF AddMap
  <2>2. m[1] \in Nat /\ m[2] \in Nat /\ m[3] \in Nat
    BY <1>2, <1>5, EntryElements
  <2>3. Claims(m, m[1])
    <3>1. Len(m) = 3
      BY <1>2, <1>5
    <3> HIDE DEF m
    <3> QED BY <1>5, <2>2, <3>1 DEF Claims, InEntry, IsLace
  <2> HIDE DEF h, m, k, single
  <2>4. OnceMore(g, h, b)
    BY <1>2, <1>3, <1>5, <2>1, <2>2, <2>3, TakenBackOnce DEF m
  <2> QED BY <2>4 DEF h
<1>6. CASE /\ ~(k # 0 /\ m[2] = b - 1 /\ t - b = Delta(m))
           /\ ~(k # 0 /\ m[1] = m[2])
           /\ t - b = 1 /\ l # 0 /\ Clashes(single, g.map[l])
  <2>1. h = AddPair(g, b, t)
    BY <1>6 DEF AddMap
  <2> QED BY <2>1, AddPairOnce
<1>7. CASE /\ ~(k # 0 /\ m[2] = b - 1 /\ t - b = Delta(m))
           /\ ~(k # 0 /\ m[1] = m[2])
           /\ ~(t - b = 1 /\ l # 0 /\ Clashes(single, g.map[l]))
  <2>1. h = NewEntry(g, single)
    BY <1>7 DEF AddMap
  <2> HIDE DEF h, single
  <2>2. OnceMore(g, h, b)
    BY <1>3, <2>1, NewEntryOnce
  <2> QED BY <2>2 DEF h
<1> QED BY <1>4, <1>5, <1>6, <1>7

(* So does add_lace().                                                     *)
LEMMA AddLaceOnce ==
    ASSUME FileOK, NEW g, GenOK(g), Once(g),
           NEW b \in Nat, NEW t \in Nat, t - b = 1, Maps(b, t), ~Touches(g, b)
    PROVE  OnceMore(g, AddLace(g, b, t), b)
<1> DEFINE k == LastOf(g.map, 2)
           m == g.map[k]
           r == LastOf(g.map, 3)
           h == AddLace(g, b, t)
           single == <<b, t>>
<1>1. g.map \in Seq(Seq(Nat))
  BY DEF GenOK, GenType
<1>2. ASSUME k # 0
      PROVE  k \in DOMAIN g.map /\ m \in Seq(Nat) /\ Len(m) = 2 /\ EntryOK(m)
  <2>1. k \in DOMAIN g.map /\ Len(m) = 2
    BY <1>1, <1>2, LastOfIs
  <2>2. m \in Seq(Nat)
    BY <1>1, <2>1
  <2> QED BY <2>1, <2>2 DEF GenOK
<1>3. single \in Seq(Nat) /\ \A c \in Nat : Claims(single, c) => c = b
  <2>1. /\ EntryOK(single) /\ single \in Seq(Nat)
        /\ \A c, d \in Nat : InEntry(single, c, d) => c = b
    BY SingleLace
  <2> HIDE DEF single
  <2> QED BY <2>1, ClaimMaps DEF Claims
<1>4. CASE k # 0 /\ m[2] = t - 2
  <2> DEFINE n == <<m[1], t>>
  <2>1. h = PutEntry(g, k, n)
    BY <1>4 DEF AddLace
  <2>2. /\ \A c, d \in Nat : InEntry(n, c, d) => InEntry(m, c, d) \/ c = b
        /\ EntryOK(n)
    BY <1>2, <1>4, LongerLace
  <2> HIDE DEF n, h, m, k
  <2>3. \A c, d \in Nat : InEntry(m, c, d) => Claims(m, c)
    BY DEF InEntry, Claims
  <2>4. \A c \in Nat : Claims(n, c) => c = b \/ Claims(m, c)
    BY <2>2, <2>3, ClaimMaps DEF Claims
  <2>5. OnceMore(g, h, b)
    BY <1>2, <1>4, <2>1, <2>4, LongerOnce DEF m
  <2> QED BY <2>5 DEF h
<1>5. CASE ~(k # 0 /\ m[2] = t - 2) /\ k # 0 /\ m[2] - m[1] = 1
  <2>1. h = PutEntry(AddPair(g, m[1], m[2]), k, single)
    BY <1>5 DEF AddLace
  <2>2. m[1] \in Nat /\ m[2] \in Nat
    BY <1>2, <1>5, EntryElements
  <2>3. Claims(m, m[1])
    <3>1. Len(m) = 2
      BY <1>2, <1>5
    <3> HIDE DEF m
    <3> QED BY <1>5, <2>2, <3>1 DEF Claims, InEntry, IsLace
  <2> HIDE DEF h, m, k, single
  <2>4. OnceMore(g, h, b)
    BY <1>2, <1>3, <1>5, <2>1, <2>2, <2>3, TakenBackOnce DEF m
  <2> QED BY <2>4 DEF h
<1>6. CASE /\ ~(k # 0 /\ m[2] = t - 2) /\ ~(k # 0 /\ m[2] - m[1] = 1)
           /\ r # 0 /\ Clashes(g.map[r], single)
  <2>1. h = AddPair(g, b, t)
    BY <1>6 DEF AddLace
  <2> QED BY <2>1, AddPairOnce
<1>7. CASE /\ ~(k # 0 /\ m[2] = t - 2) /\ ~(k # 0 /\ m[2] - m[1] = 1)
           /\ ~(r # 0 /\ Clashes(g.map[r], single))
  <2>1. h = NewEntry(g, single)
    BY <1>7 DEF AddLace
  <2> HIDE DEF h, single
  <2>2. OnceMore(g, h, b)
    BY <1>3, <2>1, NewEntryOnce
  <2> QED BY <2>2 DEF h
<1> QED BY <1>4, <1>5, <1>6, <1>7

(* The code point of a pair that is popped is free again.                  *)
LEMMA PopPairOnce ==
    ASSUME GenOK(gen), Once(gen), gen.pair # << >>
    PROVE  /\ Once(PopPair) /\ ~Touches(PopPair, Last(gen.pair)[1])
           /\ \A c : Touches(PopPair, c) => Touches(gen, c)
           /\ Touches(gen, Last(gen.pair)[1])
           /\ PopPair.map = gen.map
<1> DEFINE h == PopPair
           n == Len(gen.pair)
<1>1. gen \in GenType /\ gen.pair \in Seq(Nat \X Nat) /\ n \in Nat
  BY DEF GenOK, GenType
<1>2. Front(gen.pair) \in Seq(Nat \X Nat) /\ Len(Front(gen.pair)) = n - 1
  BY <1>1 DEF Front
<1>3. \A k \in 1 .. n - 1 : Front(gen.pair)[k] = gen.pair[k]
  BY <1>1 DEF Front
<1>4. h.map = gen.map /\ h.pair = Front(gen.pair)
  BY <1>1 DEF PopPair, GenType
<1> HIDE DEF h
<1>5. /\ n \in DOMAIN gen.pair /\ n \notin DOMAIN h.pair
      /\ \A k \in DOMAIN h.pair :
            k \in 1 .. n - 1 /\ k \in DOMAIN gen.pair /\ h.pair[k] = gen.pair[k]
  <2>1. DOMAIN h.pair = 1 .. n - 1
    BY <1>2, <1>4
  <2>2. n # 0 /\ DOMAIN gen.pair = 1 .. n
    BY <1>1
  <2>3. n \in 1 .. n /\ n \notin 1 .. n - 1 /\ \A k \in 1 .. n - 1 : k \in 1 .. n
    BY <1>1, <2>2
  <2> QED BY <1>3, <1>4, <2>1, <2>2, <2>3
<1>6. Last(gen.pair) = gen.pair[n]
  BY DEF Last
<1>7. Once(h)
  BY <1>4, <1>5 DEF Once
<1>8. ~Touches(h, gen.pair[n][1])
  BY <1>4, <1>5 DEF Once, Touches
<1>9. \A c : Touches(h, c) => Touches(gen, c)
  BY <1>4, <1>5 DEF Touches
<1>10. Touches(gen, gen.pair[n][1])
  BY <1>5 DEF Touches
<1> QED BY <1>4, <1>6, <1>7, <1>8, <1>9, <1>10 DEF h

-----------------------------------------------------------------------------
(* Only the first entry can be a range at distance 1, which a lookup would *)
(* take for a lace, and that one is never made longer.                     *)

Narrow(m) == Len(m) = 3 /\ m[3] - m[1] = 1 => m[1] = m[2]

AllNarrow(map) == \A k \in DOMAIN map : Narrow(map[k])

(* An entry of that kind may be overwritten with another,                  *)
LEMMA PutNarrow ==
    ASSUME NEW g, g.map \in Seq(Seq(Nat)), AllNarrow(g.map), NEW k, NEW m, Narrow(m),
           NEW p, p.map = g.map
    PROVE  AllNarrow(PutEntry(p, k, m).map)
<1>1. PutEntry(p, k, m).map = [g.map EXCEPT ![k] = m]
  BY DEF PutEntry, WithMap
<1> QED BY <1>1 DEF AllNarrow

(* or added.                                                               *)
LEMMA NewNarrow ==
    ASSUME NEW g, g.map \in Seq(Seq(Nat)), AllNarrow(g.map), NEW m \in Seq(Nat), Narrow(m)
    PROVE  AllNarrow(NewEntry(g, m).map)
<1>1. NewEntry(g, m).map = Append(g.map, m)
  BY DEF NewEntry, WithMap
<1> QED BY <1>1 DEF AllNarrow

(* add_map() is called for a distance of 1 only when there is no entry.    *)
LEMMA AddMapNarrow ==
    ASSUME NEW g, GenOK(g), AllNarrow(g.map), NEW b \in Nat, NEW t \in Nat,
           t - b # 1 \/ g.map = << >>
    PROVE  AllNarrow(AddMap(g, b, t).map)
<1> DEFINE k == LastOf(g.map, 3)
           m == g.map[k]
           l == LastOf(g.map, 2)
           h == AddMap(g, b, t)
           single == <<b, b, t>>
<1>1. g.map \in Seq(Seq(Nat)) /\ g \in GenType
  BY DEF GenOK, GenType
<1>2. ASSUME k # 0
      PROVE  k \in DOMAIN g.map /\ m \in Seq(Nat) /\ Len(m) = 3
  <2>1. k \in DOMAIN g.map /\ Len(m) = 3
    BY <1>1, <1>2, LastOfIs
  <2> QED BY <1>1, <2>1
<1>3. single \in Seq(Nat) /\ Narrow(single)
  BY DEF Narrow
<1>4. CASE k # 0 /\ m[2] = b - 1 /\ t - b = Delta(m)
  <2> DEFINE n == <<m[1], b, m[3]>>
  <2>1. h = PutEntry(g, k, n)
    BY <1>4 DEF AddMap
  <2>2. t - b # 1
    BY <1>2, <1>4
  <2>3. Delta(m) = m[3] - m[1]
    BY <1>2, <1>4 DEF Delta, IsLace
  <2>4. n[3] - n[1] # 1
    BY <1>4, <2>2, <2>3
  <2>5. Narrow(n)
    BY <2>4 DEF Narrow
  <2> HIDE DEF n, k, m, h
  <2>6. AllNarrow(h.map)
    BY <1>1, <2>1, <2>5, PutNarrow
  <2> QED BY <2>6 DEF h
<1>5. CASE /\ ~(k # 0 /\ m[2] = b - 1 /\ t - b = Delta(m))
           /\ k # 0 /\ m[1] = m[2]
  <2>1. h = PutEntry(AddPair(g, m[1], m[3]), k, single)
    BY <1>5 DEF AddMap
  <2>2. m[1] \in Nat /\ m[3] \in Nat
    BY <1>2, <1>5, EntryElements
  <2> HIDE DEF k, m, h, single
  <2>3. AddPair(g, m[1], m[3]).map = g.map
    BY <1>1, <2>2, AddPairShape
  <2>4. AllNarrow(h.map)
    BY <1>1, <1>3, <2>1, <2>3, PutNarrow
  <2> QED BY <2>4 DEF h
<1>6. CASE /\ ~(k # 0 /\ m[2] = b - 1 /\ t - b = Delta(m))
           /\ ~(k # 0 /\ m[1] = m[2])
           /\ t - b = 1 /\ l # 0 /\ Clashes(single, g.map[l])
  <2>1. h = AddPair(g, b, t)
    BY <1>6 DEF AddMap
  <2> QED BY <1>1, <2>1, AddPairShape
<1>7. CASE /\ ~(k # 0 /\ m[2] = b - 1 /\ t - b = Delta(m))
           /\ ~(k # 0 /\ m[1] = m[2])
           /\ ~(t - b = 1 /\ l # 0 /\ Clashes(single, g.map[l]))
  <2>1. h = NewEntry(g, single)
    BY <1>7 DEF AddMap
  <2> HIDE DEF h, single
  <2>2. AllNarrow(h.map)
    BY <1>1, <1>3, <2>1, NewNarrow
  <2> QED BY <2>2 DEF h
<1> QED BY <1>4, <1>5, <1>6, <1>7

(* A lace is no range.                                                     *)
LEMMA AddLaceNarrow ==
    ASSUME NEW g, GenOK(g), AllNarrow(g.map), NEW b \in Nat, NEW t \in Nat
    PROVE  AllNarrow(AddLace(g, b, t).map)
<1> DEFINE k == LastOf(g.map, 2)
           m == g.map[k]
           r == LastOf(g.map, 3)
           h == AddLace(g, b, t)
           single == <<b, t>>
<1>1. g.map \in Seq(Seq(Nat)) /\ g \in GenType
  BY DEF GenOK, GenType
<1>2. ASSUME k # 0
      PROVE  k \in DOMAIN g.map /\ m \in Seq(Nat) /\ Len(m) = 2
  <2>1. k \in DOMAIN g.map /\ Len(m) = 2
    BY <1>1, <1>2, LastOfIs
  <2> QED BY <1>1, <2>1
<1>3. single \in Seq(Nat) /\ \A x, y : Narrow(<<x, y>>)
  BY DEF Narrow
<1>4. CASE k # 0 /\ m[2] = t - 2
  <2>1. h = PutEntry(g, k, <<m[1], t>>)
    BY <1>4 DEF AddLace
  <2> HIDE DEF k, m, h
  <2>2. AllNarrow(h.map)
    BY <1>1, <1>3, <2>1, PutNarrow
  <2> QED BY <2>2 DEF h
<1>5. CASE ~(k # 0 /\ m[2] = t - 2) /\ k # 0 /\ m[2] - m[1] = 1
  <2>1. h = PutEntry(AddPair(g, m[1], m[2]), k, single)
    BY <1>5 DEF AddLace
  <2>2. m[1] \in Nat /\ m[2] \in Nat
    BY <1>2, <1>5, EntryElements
  <2>3. Narrow(single)
    BY <1>3
  <2> HIDE DEF k, m, h, single
  <2>4. AddPair(g, m[1], m[2]).map = g.map
    BY <1>1, <2>2, AddPairShape
  <2>5. AllNarrow(h.map)
    BY <1>1, <2>1, <2>3, <2>4, PutNarrow
  <2> QED BY <2>5 DEF h
<1>6. CASE /\ ~(k # 0 /\ m[2] = t - 2) /\ ~(k # 0 /\ m[2] - m[1] = 1)
           /\ r # 0 /\ Clashes(g.map[r], single)
  <2>1. h = AddPair(g, b, t)
    BY <1>6 DEF AddLace
  <2> QED BY <1>1, <2>1, AddPairShape
<1>7. CASE /\ ~(k # 0 /\ m[2] = t - 2) /\ ~(k # 0 /\ m[2] - m[1] = 1)
           /\ ~(r # 0 /\ Clashes(g.map[r], single))
  <2>1. h = NewEntry(g, single)
    BY <1>7 DEF AddLace
  <2>2. Narrow(single)
    BY <1>3
  <2> HIDE DEF h, single
  <2>3. AllNarrow(h.map)
    BY <1>1, <1>3, <2>1, <2>2, NewNarrow
  <2> QED BY <2>3 DEF h
<1> QED BY <1>4, <1>5, <1>6, <1>7

-----------------------------------------------------------------------------
(* The invariant.                                                          *)

FileFits ==
    \A f \in {upper, lower} :
        /\ IsFiniteSet(DOMAIN f)
        /\ \A c \in DOMAIN f : c \in Codes /\ f[c] \in Codes

(* The code points still to scan are in no table.                          *)
ScanOnce == Once(gen) /\ \A c \in todo : ~Touches(gen, c)

MapsBack(c, l) == l \in DOMAIN lower /\ lower[l] = c

(* A pair is a mapping of the file in either direction.                    *)
PairsOfFile ==
    \A k \in DOMAIN gen.pair :
        \/ Maps(gen.pair[k][1], gen.pair[k][2])
        \/ MapsBack(gen.pair[k][1], gen.pair[k][2])

(* The lowercase letters whose uppercase maps elsewhere become pairs.      *)
ExtrasKept ==
    \A c \in OneWay(upper, lower) :
        \/ phase = "scan" \/ (phase = "extras" /\ c \in todo)
        \/ \E k \in DOMAIN gen.pair : gen.pair[k] = <<lower[c], c>>

PairsSorted ==
    \A j, k \in DOMAIN gen.pair : j < k => ~PairBefore(gen.pair[k], gen.pair[j])

(* No two pairs are the same, and those that are to come are not there.    *)
PairsDiffer ==
    \A j, k \in DOMAIN gen.pair : gen.pair[j] = gen.pair[k] => j = k

ExtrasNew ==
    phase = "extras" =>
        \A c \in todo : \A k \in DOMAIN gen.pair : gen.pair[k] # <<lower[c], c>>

LongOnes == {k \in DOMAIN Sorted : IsLong(Sorted[k])}
FarOnes == {k \in DOMAIN gen.pair : gen.pair[k][1] > MaxShort}
WideOnes == {k \in DOMAIN gen.pair : gen.pair[k][2] > MaxShort}
NearPairs == Selected(gen.pair, DOMAIN gen.pair \ FarOnes)
NarrowPairs == Selected(gen.pair, DOMAIN gen.pair \ (FarOnes \cup WideOnes))

(* The header as Emit makes it.                                            *)
Made ==
    [case |-> Selected(Sorted, DOMAIN Sorted \ LongOnes),
     caseUpper |-> ByTarget(Selected(Sorted, DOMAIN Sorted \ LongOnes)),
     casel |-> Selected(Sorted, LongOnes),
     caselUpper |-> ByTarget(Selected(Sorted, LongOnes)),
     pairs |-> [k \in DOMAIN NearPairs |-> AsShort(NearPairs[k])],
     pairsUpper |-> ByLower(NarrowPairs, NearPairs),
     pairl |-> Selected(gen.pair, FarOnes),
     pairlUpper |-> ByLower(Selected(gen.pair, FarOnes \cup WideOnes),
                            Selected(gen.pair, FarOnes)),
     excl |-> Exclusions,
     last |-> Greatest(Cased)]

HInv ==
    /\ FileFits
    /\ AllNarrow(gen.map) /\ ClaimedOnce(gen.map)
    /\ phase = "scan" => ScanOnce
    /\ PairsOfFile /\ PairsDiffer
    /\ ExtrasKept /\ ExtrasNew
    /\ phase \in {"emit", "done"} => PairsSorted
    /\ phase = "done" => out = Made

(* q is s with p after it.                                                 *)
Appended(s, p, q) ==
    /\ \A k \in DOMAIN s : k \in DOMAIN q /\ q[k] = s[k]
    /\ \E k \in DOMAIN q : q[k] = p
    /\ \A k \in DOMAIN q :
          (k \in DOMAIN s /\ q[k] = s[k]) \/ (k = Len(s) + 1 /\ q[k] = p)

(* A pair pushed is the only one that is new.                              *)
LEMMA PairAppended ==
    ASSUME NEW s \in Seq(Nat \X Nat), NEW p \in Nat \X Nat, NEW q, q = Append(s, p)
    PROVE  Appended(s, p, q)
<1>1. Len(s) + 1 \in DOMAIN q /\ q[Len(s) + 1] = p
  OBVIOUS
<1>2. \A k \in DOMAIN s : k \in DOMAIN q /\ q[k] = s[k]
  OBVIOUS
<1>3. \A k \in DOMAIN q :
         (k \in DOMAIN s /\ q[k] = s[k]) \/ (k = Len(s) + 1 /\ q[k] = p)
  OBVIOUS
<1> QED BY <1>1, <1>2, <1>3 DEF Appended

(* The invariant holds at the start.                                       *)
LEMMA HInvInit == Init => HInv
<1> SUFFICES ASSUME Init PROVE HInv
  OBVIOUS
<1>1. PICK u \in Ucd : upper = u.upper /\ lower = u.lower
  BY DEF Init
<1>2. FileFits
  <2>1. \A f \in {u.upper, u.lower} :
           /\ IsFiniteSet(DOMAIN f)
           /\ \A c \in DOMAIN f : c \in Codes /\ f[c] \in Codes
    BY UcdOK
  <2> QED BY <1>1, <2>1 DEF FileFits
<1>3. gen.map = << >> /\ gen.pair = << >> /\ phase = "scan"
  BY DEF Init, Empty
<1>4. ScanOnce /\ AllNarrow(gen.map) /\ ClaimedOnce(gen.map)
  BY <1>3 DEF ScanOnce, Once, ClaimedOnce, Touches, AllNarrow
<1> QED BY <1>2, <1>3, <1>4
     DEF HInv, PairsOfFile, ExtrasKept, PairsDiffer, ExtrasNew

(* A step of the scan.                                                     *)
LEMMA ScanKeepsOnce ==
    ASSUME GInv, HInv, Scanning, NEW g, Scanned(g), PairsGiven(g),
           Once(g), AllNarrow(g.map),
           \A c \in Nat : Touches(g, c) => Touches(gen, c) \/ c = cp
    PROVE  HInv'
<1>1. /\ gen' = g /\ todo' = todo \ {cp}
      /\ UNCHANGED <<upper, lower, out, phase>> /\ phase = "scan"
  BY DEF Scanned, Scanning
<1>2. todo \subseteq Nat
  BY <1>1 DEF GInv, FileOK
<1>3. ScanOnce'
  <2>1. Once(g)' /\ \A c \in todo \ {cp} : ~Touches(g, c)
    BY <1>1, <1>2 DEF HInv, ScanOnce
  <2> QED BY <1>1, <2>1 DEF ScanOnce
<1>4. FileFits'
  BY <1>1 DEF HInv, FileFits
<1>5. PairsOfFile'
  BY <1>1 DEF PairsGiven, PairsOfFile, Maps, MapsBack
<1>6. ExtrasKept'
  BY <1>1 DEF ExtrasKept
<1>7. PairsDiffer' /\ ExtrasNew'
  BY <1>1 DEF PairsDiffer, ExtrasNew, Once
<1> QED BY <1>1, <1>3, <1>4, <1>5, <1>6, <1>7 DEF HInv, Once

(* Every step keeps the invariant.                                         *)
LEMMA HInvNext == GInv /\ GInv' /\ HInv /\ [Next]_vars => HInv'
<1> SUFFICES ASSUME GInv, GInv', HInv, [Next]_vars PROVE HInv'
  OBVIOUS
<1>1. ASSUME Scanning
      PROVE  /\ cp \in Nat /\ lc \in Nat /\ Maps(cp, lc)
             /\ phase = "scan" /\ GenOK(gen) /\ PairsGiven(gen)
             /\ FileOK /\ Once(gen) /\ AllNarrow(gen.map) /\ ~Touches(gen, cp)
             /\ cp \in todo
  <2>1. todo \in SUBSET Nat /\ todo # {} /\ todo \subseteq DOMAIN upper
    BY <1>1 DEF Scanning, GInv, FileOK
  <2>2. cp \in todo
    BY <2>1, LeastIs DEF cp
  <2> QED BY <1>1, <2>1, <2>2 DEF GInv, FileOK, Maps, lc, Scanning, HInv, ScanOnce
<1>2. ASSUME Scanning, NEW g, Scanned(g), OnceMore(gen, g, cp), AllNarrow(g.map)
      PROVE  HInv'
  <2>1. PairsGiven(g)
    BY <1>2 DEF GInv, Scanned, Scanning, PairsGiven, Maps
  <2> QED BY <1>2, <2>1, ScanKeepsOnce DEF OnceMore
<1>3. ASSUME Scanning, FollowsPair
      PROVE  /\ cp - 1 \in Nat /\ lc - 1 \in Nat /\ Maps(cp - 1, lc - 1)
             /\ GenOK(PopPair) /\ PairsGiven(PopPair) /\ Once(PopPair)
             /\ AllNarrow(PopPair.map) /\ PopPair.map = gen.map
             /\ ~Touches(PopPair, cp - 1) /\ ~Touches(PopPair, cp)
             /\ Touches(gen, cp - 1)
             /\ \A c \in Nat : Touches(PopPair, c) => Touches(gen, c)
  <2>1. /\ cp - 1 \in Nat /\ lc - 1 \in Nat /\ Maps(cp - 1, lc - 1)
        /\ gen.pair # << >> /\ Last(gen.pair) = <<cp - 1, lc - 1>>
    BY <1>1, <1>3, FollowsPairMaps DEF FollowsPair
  <2>2. GenOK(PopPair) /\ PairsGiven(PopPair)
    BY <1>1, <1>3, <2>1, PopPairOK
  <2>3. Last(gen.pair)[1] = cp - 1
    BY <2>1
  <2>4. /\ Once(PopPair) /\ ~Touches(PopPair, cp - 1)
        /\ \A c : Touches(PopPair, c) => Touches(gen, c)
        /\ Touches(gen, cp - 1)
        /\ PopPair.map = gen.map
    BY <1>1, <1>3, <2>1, <2>3, PopPairOnce
  <2> QED BY <1>1, <1>3, <2>1, <2>2, <2>4
<1>4. ASSUME Scanning, FollowsPair, NEW h, NEW g, Scanned(g),
             OnceMore(PopPair, h, cp - 1), OnceMore(h, g, cp), AllNarrow(g.map)
      PROVE  HInv'
  <2>1. \A c \in Nat : Touches(g, c) => Touches(gen, c) \/ c = cp
    BY <1>3, <1>4 DEF OnceMore
  <2>2. OnceMore(gen, g, cp)
    BY <1>4, <2>1 DEF OnceMore
  <2> QED BY <1>2, <1>4, <2>2
<1>5. CASE ScanFirst
  <2>1. Scanning /\ gen.map = << >> /\ Scanned(AddMap(gen, cp, lc))
    BY <1>5 DEF ScanFirst
  <2>2. OnceMore(gen, AddMap(gen, cp, lc), cp)
    BY <1>1, <2>1, AddMapOnce
  <2>3. AllNarrow(AddMap(gen, cp, lc).map)
    BY <1>1, <2>1, AddMapNarrow
  <2> QED BY <1>2, <2>1, <2>2, <2>3
<1>6. CASE ScanNextLace
  <2>1. Scanning /\ lc - cp = 1
    BY <1>6 DEF ScanNextLace
  <2>2. CASE FollowsPair
    <3> DEFINE h == AddLace(PopPair, cp - 1, lc - 1)
               g == AddLace(h, cp, lc)
    <3>1. Scanned(g)
      BY <1>6, <2>2 DEF ScanNextLace
    <3>2. (lc - 1) - (cp - 1) = 1
      BY <1>1, <2>1
    <3>3. GenOK(h)
      BY <1>3, <2>1, <2>2, <3>2, AddLaceOK DEF Adds
    <3>4. OnceMore(PopPair, h, cp - 1)
      BY <1>1, <1>3, <2>1, <2>2, <3>2, AddLaceOnce
    <3>5. AllNarrow(h.map)
      BY <1>3, <2>1, <2>2, AddLaceNarrow
    <3> HIDE DEF h
    <3>6. Once(h) /\ ~Touches(h, cp)
      <4>1. cp # cp - 1
        BY <1>1, <2>1
      <4> QED BY <1>1, <1>3, <2>1, <2>2, <3>4, <4>1 DEF OnceMore
    <3>7. OnceMore(h, g, cp)
      BY <1>1, <2>1, <3>3, <3>6, AddLaceOnce
    <3>8. AllNarrow(g.map)
      BY <1>1, <2>1, <3>3, <3>5, AddLaceNarrow
    <3> QED BY <1>4, <2>1, <2>2, <3>1, <3>4, <3>7, <3>8
  <2>3. CASE ~FollowsPair
    <3>1. Scanned(AddLace(gen, cp, lc))
      BY <1>6, <2>3 DEF ScanNextLace
    <3>2. OnceMore(gen, AddLace(gen, cp, lc), cp)
      BY <1>1, <2>1, AddLaceOnce
    <3>3. AllNarrow(AddLace(gen, cp, lc).map)
      BY <1>1, <2>1, AddLaceNarrow
    <3> QED BY <1>2, <2>1, <3>1, <3>2, <3>3
  <2> QED BY <2>2, <2>3
<1>7. CASE ScanNextMap
  <2>1. Scanning /\ lc - cp # 1
    BY <1>7 DEF ScanNextMap
  <2>2. CASE FollowsPair
    <3> DEFINE h == AddMap(PopPair, cp - 1, lc - 1)
               g == AddMap(h, cp, lc)
    <3>1. Scanned(g)
      BY <1>7, <2>2 DEF ScanNextMap
    <3>2. (lc - 1) - (cp - 1) # 1
      BY <1>1, <2>1
    <3>3. GenOK(h)
      <4>1. InOrder(PopPair.map, cp - 1)
        BY <1>1, <1>7, <2>1, <2>2, PoppedInOrder DEF ScanNextMap
      <4> QED BY <1>3, <2>1, <2>2, <4>1, AddMapOK DEF Adds
    <3>4. OnceMore(PopPair, h, cp - 1)
      BY <1>1, <1>3, <2>1, <2>2, AddMapOnce
    <3>5. AllNarrow(h.map)
      BY <1>3, <2>1, <2>2, <3>2, AddMapNarrow
    <3> HIDE DEF h
    <3>6. Once(h) /\ ~Touches(h, cp)
      <4>1. cp # cp - 1
        BY <1>1, <2>1
      <4> QED BY <1>1, <1>3, <2>1, <2>2, <3>4, <4>1 DEF OnceMore
    <3>7. OnceMore(h, g, cp)
      BY <1>1, <2>1, <3>3, <3>6, AddMapOnce
    <3>8. AllNarrow(g.map)
      BY <1>1, <2>1, <3>3, <3>5, AddMapNarrow
    <3> QED BY <1>4, <2>1, <2>2, <3>1, <3>4, <3>7, <3>8
  <2>3. CASE ~FollowsPair
    <3>1. Scanned(AddMap(gen, cp, lc))
      BY <1>7, <2>3 DEF ScanNextMap
    <3>2. OnceMore(gen, AddMap(gen, cp, lc), cp)
      BY <1>1, <2>1, AddMapOnce
    <3>3. AllNarrow(AddMap(gen, cp, lc).map)
      BY <1>1, <2>1, AddMapNarrow
    <3> QED BY <1>2, <2>1, <3>1, <3>2, <3>3
  <2> QED BY <2>2, <2>3
<1>8. CASE ScanHole
  <2>1. Scanning
    BY <1>8 DEF ScanHole
  <2>2. CASE lc - cp = 1
    <3>1. Scanned(AddLace(gen, cp, lc))
      BY <1>8, <2>2 DEF ScanHole
    <3>2. OnceMore(gen, AddLace(gen, cp, lc), cp)
      BY <1>1, <2>1, <2>2, AddLaceOnce
    <3>3. AllNarrow(AddLace(gen, cp, lc).map)
      BY <1>1, <2>1, AddLaceNarrow
    <3> QED BY <1>2, <2>1, <3>1, <3>2, <3>3
  <2>3. CASE lc - cp # 1
    <3>1. Scanned(AddPair(gen, cp, lc))
      BY <1>8, <2>3 DEF ScanHole
    <3>2. OnceMore(gen, AddPair(gen, cp, lc), cp)
      BY <1>1, <2>1, AddPairOnce
    <3>3. AllNarrow(AddPair(gen, cp, lc).map)
      <4>1. gen \in GenType
        BY DEF GInv, GenOK
      <4> QED BY <1>1, <2>1, <4>1, AddPairShape
    <3> QED BY <1>2, <2>1, <3>1, <3>2, <3>3
  <2> QED BY <2>2, <2>3
<1>9. CASE ScanDone
  <2>1. /\ phase = "scan" /\ phase' = "extras" /\ todo' = OneWay(upper, lower)
        /\ UNCHANGED <<upper, lower, gen, out>>
    BY <1>9 DEF ScanDone
  <2>2. PairsDiffer'
    BY <2>1 DEF HInv, PairsDiffer
  <2>3. ExtrasNew'
    <3> SUFFICES ASSUME NEW c \in OneWay(upper, lower), NEW k \in DOMAIN gen.pair,
                        gen.pair[k] = <<lower[c], c>>
                 PROVE  FALSE
      BY <2>1 DEF ExtrasNew
    <3>1. Maps(gen.pair[k][1], gen.pair[k][2])
      BY <2>1 DEF GInv, PairsGiven
    <3>2. gen.pair[k][1] = lower[c] /\ gen.pair[k][2] = c
      OBVIOUS
    <3> QED BY <3>1, <3>2 DEF Maps, OneWay
  <2> QED BY <2>1, <2>2, <2>3
       DEF HInv, FileFits, PairsOfFile, Maps, MapsBack, ExtrasKept
<1>10. CASE AddExtra
  <2>1. /\ phase = "extras" /\ todo \in SUBSET Nat /\ todo # {}
        /\ todo \subseteq DOMAIN lower
    BY <1>10 DEF AddExtra, GInv, FileOK
  <2>2. cp \in todo
    BY <2>1, LeastIs DEF cp
  <2>3. gen \in GenType /\ gen.pair \in Seq(Nat \X Nat)
    BY DEF GInv, GenOK, GenType
  <2>4. lower[cp] \in Nat /\ cp \in Nat
    BY <2>1, <2>2 DEF GInv, FileOK
  <2>5. gen'.map = gen.map /\ gen'.pair = Append(gen.pair, <<lower[cp], cp>>)
    BY <1>10, <2>3 DEF AddExtra, GenType
  <2>6. UNCHANGED <<upper, lower, phase>> /\ todo' = todo \ {cp}
    BY <1>10 DEF AddExtra
  <2>7. /\ \A k \in DOMAIN gen.pair : k \in DOMAIN gen'.pair /\ gen'.pair[k] = gen.pair[k]
        /\ \E k \in DOMAIN gen'.pair : gen'.pair[k] = <<lower[cp], cp>>
        /\ \A k \in DOMAIN gen'.pair :
              (k \in DOMAIN gen.pair /\ gen'.pair[k] = gen.pair[k])
              \/ (k = Len(gen.pair) + 1 /\ gen'.pair[k] = <<lower[cp], cp>>)
    <3> DEFINE p == <<lower[cp], cp>>
    <3>1. p \in Nat \X Nat
      BY <2>4
    <3>2. gen'.pair = Append(gen.pair, p)
      BY <2>5
    <3> HIDE DEF p
    <3>3. Appended(gen.pair, p, gen'.pair)
      BY <2>3, <3>1, <3>2, PairAppended
    <3> QED BY <3>3 DEF Appended, p
  <2>8. PairsOfFile'
    <3>1. MapsBack(lower[cp], cp)
      BY <2>1, <2>2 DEF MapsBack
    <3> QED BY <2>6, <2>7, <3>1 DEF HInv, PairsOfFile, Maps, MapsBack
  <2>9. ExtrasKept'
    <3>1. ASSUME NEW c \in OneWay(upper, lower)
          PROVE  c \in todo \ {cp} \/ \E k \in DOMAIN gen'.pair : gen'.pair[k] = <<lower[c], c>>
      BY <2>1, <2>7 DEF HInv, ExtrasKept
    <3> QED BY <2>1, <2>6, <3>1 DEF ExtrasKept
  <2>10. PairsDiffer'
    BY <2>1, <2>2, <2>7 DEF HInv, PairsDiffer, ExtrasNew
  <2>11. ExtrasNew'
    <3> SUFFICES ASSUME NEW c \in todo \ {cp}, NEW k \in DOMAIN gen'.pair,
                        gen'.pair[k] = <<lower[c], c>>
                 PROVE  FALSE
      BY <2>6 DEF ExtrasNew
    <3>1. CASE k \in DOMAIN gen.pair /\ gen'.pair[k] = gen.pair[k]
      BY <2>1, <3>1 DEF HInv, ExtrasNew
    <3>2. CASE gen'.pair[k] = <<lower[cp], cp>>
      BY <3>2
    <3> QED BY <2>7, <3>1, <3>2
  <2> QED BY <2>1, <2>5, <2>6, <2>8, <2>9, <2>10, <2>11 DEF HInv, FileFits, ClaimedOnce
<1>11. CASE SortPairs
  <2>1. phase = "extras" /\ phase' = "emit" /\ todo = {} /\ UNCHANGED <<upper, lower>>
    BY <1>11 DEF SortPairs
  <2>2. gen \in GenType /\ gen.pair \in Seq(Nat \X Nat)
    BY DEF GInv, GenOK, GenType
  <2> DEFINE s == Arranged(gen.pair, PairPlaces(gen.pair))
  <2>3. /\ s \in Seq(Nat \X Nat)
        /\ \A k \in DOMAIN gen.pair : \E n \in DOMAIN s : s[n] = gen.pair[k]
        /\ \A n \in DOMAIN s : \E k \in DOMAIN gen.pair : s[n] = gen.pair[k]
        /\ \A m, n \in DOMAIN s : m < n => ~PairBefore(s[n], s[m])
        /\ PairsDiffer => \A m, n \in DOMAIN s : s[m] = s[n] => m = n
    BY <2>2, SortedPairs DEF PairsDiffer
  <2>4. gen'.map = gen.map /\ gen'.pair = s
    BY <1>11, <2>2 DEF SortPairs, GenType
  <2> HIDE DEF s
  <2>5. PairsOfFile'
    <3> SUFFICES ASSUME NEW n \in DOMAIN s
                 PROVE  Maps(s[n][1], s[n][2]) \/ MapsBack(s[n][1], s[n][2])
      BY <2>1, <2>4 DEF PairsOfFile, Maps, MapsBack
    <3>1. PICK k \in DOMAIN gen.pair : s[n] = gen.pair[k]
      BY <2>3
    <3>2. Maps(s[n][1], s[n][2]) \/ MapsBack(s[n][1], s[n][2])
      BY <3>1 DEF HInv, PairsOfFile
    <3> QED BY <3>2
  <2>6. ExtrasKept'
    BY <2>1, <2>3, <2>4 DEF HInv, ExtrasKept
  <2>7. PairsSorted'
    BY <2>1, <2>3, <2>4 DEF PairsSorted, PairBefore, Authoritative
  <2>8. PairsDiffer' /\ ExtrasNew'
    BY <2>1, <2>3, <2>4 DEF HInv, PairsDiffer, ExtrasNew
  <2> QED BY <2>1, <2>4, <2>5, <2>6, <2>7, <2>8 DEF HInv, FileFits, ClaimedOnce
<1>12. CASE Emit
  <2>1. phase = "emit" /\ phase' = "done" /\ UNCHANGED <<upper, lower, todo, gen>>
    BY <1>12 DEF Emit
  <2>2. out' = Made
    BY <1>12 DEF Emit, Made, LongOnes, FarOnes, NearPairs, WideOnes, NarrowPairs
  <2>3. Made' = Made
    BY <2>1 DEF Made, LongOnes, FarOnes, NearPairs, WideOnes, NarrowPairs,
                Sorted, Exclusions, Gaps, Cased
  <2>4. PairsSorted'
    BY <2>1 DEF HInv, PairsSorted, PairBefore, Authoritative
  <2> QED BY <2>1, <2>2, <2>3, <2>4
       DEF HInv, FileFits, PairsOfFile, Maps, MapsBack, ExtrasKept, ClaimedOnce,
           PairsDiffer, ExtrasNew
<1>13. CASE UNCHANGED vars
  <2>1. UNCHANGED <<upper, lower, todo, gen, phase, out>>
    BY <1>13 DEF vars
  <2>2. Made' = Made
    BY <2>1 DEF Made, LongOnes, FarOnes, NearPairs, WideOnes, NarrowPairs,
                Sorted, Exclusions, Gaps, Cased
  <2>3. PairsSorted' <=> PairsSorted
    BY <2>1 DEF PairsSorted, PairBefore, Authoritative
  <2>4. ScanOnce' <=> ScanOnce
    BY <2>1 DEF ScanOnce
  <2> QED BY <2>1, <2>2, <2>3, <2>4
       DEF HInv, FileFits, PairsOfFile, Maps, MapsBack, ExtrasKept, ClaimedOnce,
           PairsDiffer, ExtrasNew
<1> QED BY <1>5, <1>6, <1>7, <1>8, <1>9, <1>10, <1>11, <1>12, <1>13 DEF Next

-----------------------------------------------------------------------------
(* The tables in the header.                                               *)

(* q is what grep leaves of s: the elements at the places in S, in order.  *)
SelectedOf(s, S, q) ==
    /\ \A n \in DOMAIN q : \E k \in S : q[n] = s[k]
    /\ \A k \in S : \E n \in DOMAIN q : q[n] = s[k]
    /\ \A m, n \in DOMAIN q : m < n =>
          \E j, k \in S : j < k /\ q[m] = s[j] /\ q[n] = s[k]

(* grep keeps elements of s only, all those it is to keep, in order.       *)
LEMMA SelectedIs ==
    ASSUME NEW T, NEW s \in Seq(T), NEW S \in SUBSET DOMAIN s
    PROVE  Selected(s, S) \in Seq(T) /\ SelectedOf(s, S, Selected(s, S))
<1> DEFINE R == {r \in S \X S : r[1] <= r[2]}
           n == Cardinality(S)
           q == Selected(s, S)
           Place(i) == CHOOSE k \in S : Cardinality({j \in S : j <= k}) = i
<1>1. IsFiniteSet(S) /\ S \subseteq Nat /\ \A k \in S : s[k] \in T
  <2>1. IsFiniteSet(DOMAIN s)
    <3>1. Len(s) \in Nat /\ DOMAIN s = 1 .. Len(s)
      OBVIOUS
    <3> QED BY <3>1, UptoFinite
  <2>2. DOMAIN s \subseteq Nat /\ \A k \in DOMAIN s : s[k] \in T
    OBVIOUS
  <2> QED BY <2>1, <2>2, FS_Subset
<1>2. \A j, k \in S : <<j, k>> \in R <=> j <= k
  OBVIOUS
<1> HIDE DEF R
<1>3. Orders(R, S)
  <2>1. \A i, j, k \in S : /\ j <= j /\ (j <= k \/ k <= j)
                           /\ (j <= k /\ k <= j => j = k)
                           /\ (i <= j /\ j <= k => i <= k)
    BY <1>1
  <2> QED BY <1>2, <2>1 DEF Orders
<1>4. \A k \in S : Rank(R, S)[k] = Cardinality({j \in S : j <= k})
  <2>1. \A k \in S : Upto(R, S, k) = {j \in S : j <= k}
    BY <1>2 DEF Upto
  <2> QED BY <2>1 DEF Rank
<1>5. /\ n \in Nat
      /\ \A k \in S : Rank(R, S)[k] \in 1 .. n
      /\ \A i \in 1 .. n : \E k \in S : Rank(R, S)[k] = i
      /\ \A j, k \in S : Rank(R, S)[j] = Rank(R, S)[k] => j = k
      /\ \A j, k \in S : j <= k <=> Rank(R, S)[j] <= Rank(R, S)[k]
  <2>1. /\ n \in Nat
        /\ Rank(R, S) \in Injection(S, 1 .. n) /\ Rank(R, S) \in Surjection(S, 1 .. n)
        /\ \A j, k \in S : <<j, k>> \in R <=> Rank(R, S)[j] <= Rank(R, S)[k]
    BY <1>1, <1>3, RankIsPlace
  <2>2. /\ \A k \in S : Rank(R, S)[k] \in 1 .. n
        /\ \A j, k \in S : Rank(R, S)[j] = Rank(R, S)[k] => j = k
    BY <2>1 DEF Injection, IsInjective
  <2>3. \A i \in 1 .. n : \E k \in S : Rank(R, S)[k] = i
    BY <2>1 DEF Surjection
  <2> QED BY <1>2, <2>1, <2>2, <2>3
<1>6. \A i \in 1 .. n : Place(i) \in S /\ Rank(R, S)[Place(i)] = i
  BY <1>4, <1>5
<1>7. q = [i \in 1 .. n |-> s[Place(i)]]
  BY DEF Selected
<1> HIDE DEF q, n, Place
<1>8. DOMAIN q = 1 .. n /\ \A i \in 1 .. n : q[i] = s[Place(i)]
  BY <1>7
<1>9. q \in Seq(T)
  <2>1. q \in [1 .. n -> T]
    BY <1>1, <1>6, <1>7
  <2> QED BY <1>5, <2>1
<1>10. \A k \in S : Place(Rank(R, S)[k]) = k /\ Rank(R, S)[k] \in 1 .. n
  BY <1>5, <1>6
<1>11. \A i \in DOMAIN q : \E k \in S : q[i] = s[k]
  BY <1>6, <1>8
<1>12. \A k \in S : \E i \in DOMAIN q : q[i] = s[k]
  BY <1>8, <1>10
<1>13. ASSUME NEW i \in DOMAIN q, NEW j \in DOMAIN q, i < j
       PROVE  Place(i) < Place(j)
  <2>1. /\ Place(i) \in S /\ Rank(R, S)[Place(i)] = i
        /\ Place(j) \in S /\ Rank(R, S)[Place(j)] = j
        /\ i \in Nat /\ j \in Nat
    BY <1>5, <1>6, <1>8
  <2>2. ~(Place(j) <= Place(i))
    BY <1>5, <1>13, <2>1
  <2>3. Place(i) \in Nat /\ Place(j) \in Nat
    BY <1>1, <2>1
  <2> QED BY <2>2, <2>3
<1>14. \A i, j \in DOMAIN q : i < j =>
          \E k, l \in S : k < l /\ q[i] = s[k] /\ q[j] = s[l]
  BY <1>6, <1>8, <1>13
<1> QED BY <1>9, <1>11, <1>12, <1>14 DEF SelectedOf, q

(* The places in a sequence of keys, as a sort that keeps the order of     *)
(* equal ones arranges them.                                               *)
KeyOrder(key, D) ==
    {r \in D \X D : key[r[1]] < key[r[2]] \/ (r[1] <= r[2] /\ key[r[1]] = key[r[2]])}

(* A sort by keys gives every element a place of its own, in their order.  *)
LEMMA KeyPlacesDiffer ==
    ASSUME NEW key \in Seq(Nat)
    PROVE  /\ PlacesBy(key) \in Injection(1 .. Len(key), 1 .. Len(key))
           /\ \A j, k \in DOMAIN key : key[j] < key[k] => PlacesBy(key)[j] <= PlacesBy(key)[k]
<1> DEFINE D == 1 .. Len(key)
           R == KeyOrder(key, D)
<1>1. DOMAIN key = D /\ Len(key) \in Nat /\ \A k \in D : key[k] \in Nat /\ k \in Nat
  OBVIOUS
<1>2. IsFiniteSet(D) /\ Cardinality(D) = Len(key)
  BY <1>1, UptoFinite
<1> HIDE DEF D
<1>3. \A j, k \in D : <<j, k>> \in R <=> key[j] < key[k] \/ (j <= k /\ key[j] = key[k])
  <2>1. R = {r \in D \X D : key[r[1]] < key[r[2]]
                            \/ (r[1] <= r[2] /\ key[r[1]] = key[r[2]])}
    BY DEF KeyOrder
  <2> HIDE DEF R
  <2> SUFFICES ASSUME NEW j \in D, NEW k \in D
               PROVE  <<j, k>> \in R <=> key[j] < key[k] \/ (j <= k /\ key[j] = key[k])
    OBVIOUS
  <2>2. <<j, k>> \in D \X D /\ <<j, k>>[1] = j /\ <<j, k>>[2] = k
    OBVIOUS
  <2> QED BY <2>1, <2>2
<1>4. PlacesBy(key) = Rank(R, D)
  <2> HIDE DEF R
  <2>1. \A k \in D : Upto(R, D, k) =
           {j \in D : key[j] < key[k] \/ (j <= k /\ key[j] = key[k])}
    BY <1>3 DEF Upto
  <2> QED BY <1>1, <2>1 DEF PlacesBy, Rank
<1> HIDE DEF R
<1>5. Orders(R, D)
  <2>1. ASSUME NEW i \in D, NEW j \in D, NEW k \in D
        PROVE  /\ <<j, j>> \in R
               /\ <<j, k>> \in R \/ <<k, j>> \in R
               /\ <<j, k>> \in R /\ <<k, j>> \in R => j = k
               /\ <<i, j>> \in R /\ <<j, k>> \in R => <<i, k>> \in R
    <3>1. /\ i \in Nat /\ j \in Nat /\ k \in Nat
          /\ key[i] \in Nat /\ key[j] \in Nat /\ key[k] \in Nat
      BY <1>1
    <3>2. /\ <<j, j>> \in R <=> key[j] < key[j] \/ (j <= j /\ key[j] = key[j])
          /\ <<j, k>> \in R <=> key[j] < key[k] \/ (j <= k /\ key[j] = key[k])
          /\ <<k, j>> \in R <=> key[k] < key[j] \/ (k <= j /\ key[k] = key[j])
          /\ <<i, j>> \in R <=> key[i] < key[j] \/ (i <= j /\ key[i] = key[j])
          /\ <<i, k>> \in R <=> key[i] < key[k] \/ (i <= k /\ key[i] = key[k])
      BY <1>3
    <3> QED BY <3>1, <3>2
  <2> QED BY <2>1 DEF Orders
<1>6. /\ Rank(R, D) \in Injection(D, D)
      /\ \A j, k \in D : <<j, k>> \in R => Rank(R, D)[j] <= Rank(R, D)[k]
  BY <1>2, <1>5, RankIsPlace DEF D
<1> QED BY <1>1, <1>3, <1>4, <1>6 DEF D

(* The entries by their first code point.                                  *)
LEMMA EntryPlacesDiffer ==
    ASSUME NEW map \in Seq(Seq(Nat)), \A k \in DOMAIN map : map[k][1] \in Nat
    PROVE  /\ EntryPlaces(map) \in Injection(1 .. Len(map), 1 .. Len(map))
           /\ \A j, k \in DOMAIN map : map[j][1] < map[k][1] =>
                 EntryPlaces(map)[j] <= EntryPlaces(map)[k]
<1> DEFINE key == [k \in DOMAIN map |-> map[k][1]]
<1>1. /\ key \in Seq(Nat) /\ Len(key) = Len(map) /\ DOMAIN key = DOMAIN map
      /\ \A k \in DOMAIN map : key[k] = map[k][1]
  <2>1. DOMAIN map = 1 .. Len(map) /\ Len(map) \in Nat
    OBVIOUS
  <2> QED BY <2>1
<1>2. EntryPlaces(map) = PlacesBy(key)
  BY DEF EntryPlaces
<1> HIDE DEF key
<1> QED BY <1>1, <1>2, KeyPlacesDiffer

(* A sort by keys has every element once, in the order of the keys.        *)
SortsBy(order, key) ==
    /\ order \in [1 .. Len(key) -> 1 .. Len(key)]
    /\ \A k \in 1 .. Len(key) : \E n \in 1 .. Len(key) : order[n] = k
    /\ \A m, n \in 1 .. Len(key) : order[m] = order[n] => m = n
    /\ \A m, n \in 1 .. Len(key) : m < n => key[order[m]] <= key[order[n]]

(* a is s in the order of its keys.                                        *)
Sorts(a, s, key) ==
    /\ Len(a) = Len(s)
    /\ \E order : /\ SortsBy(order, key)
                  /\ \A n \in 1 .. Len(s) : a[n] = s[order[n]]

(* What a sort by keys makes of s.                                         *)
LEMMA ArrangedSorts ==
    ASSUME NEW S, NEW s \in Seq(S), NEW key \in Seq(Nat), Len(key) = Len(s)
    PROVE  /\ Arranged(s, PlacesBy(key)) \in Seq(S)
           /\ Sorts(Arranged(s, PlacesBy(key)), s, key)
<1> DEFINE D == 1 .. Len(s)
           a == Arranged(s, PlacesBy(key))
<1>1. /\ DOMAIN s = D /\ DOMAIN key = D /\ Len(s) \in Nat /\ D \subseteq Nat
      /\ \A k \in D : key[k] \in Nat
  OBVIOUS
<1>2. PICK place : place = PlacesBy(key)
  OBVIOUS
<1>3. /\ place \in Injection(1 .. Len(s), 1 .. Len(s))
      /\ \A j, k \in DOMAIN key : key[j] < key[k] => place[j] <= place[k]
  BY <1>2, KeyPlacesDiffer
<1>4. /\ a \in Seq(S) /\ DOMAIN a = DOMAIN s
      /\ \A n \in DOMAIN s : \E k \in DOMAIN s : place[k] = n /\ a[n] = s[k]
  BY <1>2, <1>3, ArrangedKeeps
<1>5. \A k \in D : place[k] \in D
  BY <1>3 DEF Injection
<1>6. \A j, k \in D : place[j] = place[k] => j = k
  BY <1>3 DEF Injection, IsInjective
<1>7. Len(a) = Len(s)
  BY <1>4
<1> HIDE DEF D, a
<1> DEFINE order == [n \in D |-> CHOOSE k \in D : place[k] = n /\ a[n] = s[k]]
<1>8. \A n \in D : order[n] \in D /\ place[order[n]] = n /\ a[n] = s[order[n]]
  BY <1>1, <1>4
<1>9. order \in [D -> D]
  BY <1>8
<1> HIDE DEF order
<1>10. \A k \in D : order[place[k]] = k
  BY <1>5, <1>6, <1>8
<1>11. ASSUME NEW m \in D, NEW n \in D, m < n
       PROVE  key[order[m]] <= key[order[n]]
  <2>1. m \in Nat /\ n \in Nat /\ key[order[m]] \in Nat /\ key[order[n]] \in Nat
    BY <1>1, <1>8
  <2>2. ~(place[order[n]] <= place[order[m]])
    BY <1>8, <1>11, <2>1
  <2>3. ~(key[order[n]] < key[order[m]])
    BY <1>1, <1>3, <1>8, <2>2
  <2> QED BY <2>1, <2>3
<1>12. SortsBy(order, key)
  <2>1. Len(key) = Len(s)
    OBVIOUS
  <2>2. \A m, n \in D : order[m] = order[n] => m = n
    BY <1>8
  <2> QED BY <1>5, <1>9, <1>10, <1>11, <2>1, <2>2 DEF SortsBy, D
<1>13. Sorts(a, s, key)
  BY <1>7, <1>8, <1>12 DEF Sorts, D
<1> QED BY <1>4, <1>13 DEF a

-----------------------------------------------------------------------------
(* What a lookup makes of an entry.                                        *)

(* An entry and its images are code points.                                *)
Placed(m) ==
    /\ m[1] \in Nat /\ m[2] \in Nat /\ Delta(m) \in Int
    /\ m[2] < Word - 1 /\ 0 <= m[1] + Delta(m)
    /\ \/ IsLace(m) /\ Delta(m) = 1 /\ m[1] < m[2] /\ (m[2] - m[1]) % 2 = 1
       \/ /\ ~IsLace(m) /\ m[1] <= m[2] /\ m[2] + Delta(m) < Word - 1
          /\ Delta(m) = 1 => m[1] = m[2]

(* An entry that claims mappings of the file only is placed.               *)
LEMMA EntryPlaced ==
    ASSUME FileFits, NEW m \in Seq(Nat), EntryOK(m), Narrow(m)
    PROVE  Placed(m)
<1>1. \A c \in Codes : c \in Nat /\ c < Word - 1
  <2>1. Word \in Nat /\ Codes \subseteq 0 .. Word - 2
    BY UcdOK
  <2> QED BY <2>1
<1>2. \A c \in Nat : InEntry(m, c, c + Delta(m)) => c \in Codes /\ c + Delta(m) \in Codes
  BY DEF EntryOK, Maps, FileFits
<1>3. CASE Len(m) = 2
  <2>1. /\ IsLace(m) /\ Delta(m) = 1 /\ m[1] \in Nat /\ m[2] \in Nat
        /\ m[1] < m[2] /\ (m[2] - m[1]) % 2 = 1
    BY <1>3, EntryElements DEF IsLace, Delta, EntryOK
  <2>2. m[2] - 1 \in Nat /\ ((m[2] - 1) - m[1]) % 2 = 0 /\ m[1] <= m[2] - 1
    BY <2>1
  <2>3. InEntry(m, m[2] - 1, (m[2] - 1) + Delta(m))
    BY <2>1, <2>2 DEF InEntry
  <2>4. (m[2] - 1) + Delta(m) \in Codes
    BY <1>2, <2>2, <2>3
  <2>5. (m[2] - 1) + Delta(m) = m[2]
    BY <2>1
  <2> QED BY <1>1, <2>1, <2>4, <2>5 DEF Placed
<1>4. CASE Len(m) # 2
  <2>1. /\ Len(m) = 3 /\ ~IsLace(m) /\ Delta(m) = m[3] - m[1] /\ m[1] <= m[2]
        /\ m[1] \in Nat /\ m[2] \in Nat /\ m[3] \in Nat
    <3>1. Len(m) = 3 /\ m[1] <= m[2]
      BY <1>4 DEF EntryOK
    <3> QED BY <1>4, <3>1, EntryElements DEF IsLace, Delta
  <2>2. InEntry(m, m[1], m[1] + Delta(m)) /\ InEntry(m, m[2], m[2] + Delta(m))
    BY <2>1 DEF InEntry
  <2>3. /\ m[1] + Delta(m) \in Codes
        /\ m[2] \in Codes /\ m[2] + Delta(m) \in Codes
    BY <1>2, <2>1, <2>2
  <2>4. 0 <= m[1] + Delta(m) /\ m[2] < Word - 1 /\ m[2] + Delta(m) < Word - 1
    BY <1>1, <2>3
  <2>5. Delta(m) = 1 => m[1] = m[2]
    BY <2>1 DEF Narrow
  <2>6. Delta(m) \in Int
    BY <2>1
  <2> QED BY <2>1, <2>4, <2>5, <2>6 DEF Placed
<1> QED BY <1>3, <1>4

(* The unsigned comparison, for what fits in the code space.               *)
LEMMA WithinIs ==
    ASSUME NEW b \in Nat, NEW n \in Nat, b + n <= Word, NEW c \in Nat, c < Word
    PROVE  Header!Within(c, b, n) <=> b <= c /\ c < b + n
<1>1. Word \in Nat
  BY UcdOK
<1> QED BY <1>1 DEF Header!Within, Header!Minus

(* No digraph exception is made in these tables.                           *)
LEMMA MappedIs ==
    ASSUME NEW t, NEW e, NEW c, NEW low
    PROVE  Header!Mapped(t, e, c, low) =
              IF e.lower # 1 THEN c + (2 * low - 1) * e.lower
              ELSE c + low - ((c - e.upper) % 2)
BY DEF Header!Mapped, Header!IsLace, Header!DigraphFixed, Header!HasDigraphLace,
       Header!Digraphs

(* What the header says of an entry that is placed.                        *)
LEMMA EntryLength ==
    ASSUME NEW m, Placed(m)
    PROVE  LET e == AsEntry(m) IN
           /\ e.upper = m[1] /\ e.lower = Delta(m) /\ e.len = SimLen(m)
           /\ e \in [upper : Nat, lower : Int, len : Nat] /\ e.len >= 1
           /\ e.upper + e.lower \in Nat
           /\ e.upper + e.len < Word /\ e.upper + e.lower + e.len <= Word
<1>1. Word \in Nat
  BY UcdOK
<1>2. SimLen(m) \in Nat /\ SimLen(m) >= 1
  BY DEF Placed, SimLen
<1>3. m[1] + SimLen(m) < Word /\ m[1] + Delta(m) + SimLen(m) <= Word
  BY <1>1 DEF Placed, SimLen
<1> QED BY <1>2, <1>3 DEF AsEntry, Placed

(* Lowering, an entry covers what it claims, and a lace the letters in     *)
(* between as well.                                                        *)
LEMMA CoversUpper ==
    ASSUME NEW m, Placed(m), NEW c \in Nat, c < Word - 1
    PROVE  /\ Header!Covers(AsEntry(m), c, 1) =>
                 \/ Claims(m, c)
                 \/ ~Claims(m, c) /\ c - 1 \in Nat /\ InEntry(m, c - 1, c)
           /\ Claims(m, c) => /\ Header!Covers(AsEntry(m), c, 1)
                              /\ \A t : Header!Mapped(t, AsEntry(m), c, 1) = c + Delta(m)
           /\ Header!Covers(AsEntry(m), c, 1) /\ ~Claims(m, c) =>
                 \A t : Header!Mapped(t, AsEntry(m), c, 1) = c
<1> DEFINE e == AsEntry(m)
<1>1. /\ e.upper = m[1] /\ e.lower = Delta(m) /\ e.len = SimLen(m)
      /\ e.len \in Nat /\ e.upper \in Nat /\ e.upper + e.len <= Word /\ Word \in Nat
  <2>1. e.upper + e.len < Word /\ e \in [upper : Nat, lower : Int, len : Nat]
    BY EntryLength
  <2>2. e.upper \in Nat /\ e.len \in Nat
    BY <2>1
  <2> QED BY <2>1, <2>2, EntryLength, UcdOK
<1>2. Header!Covers(e, c, 1) <=> m[1] <= c /\ c < m[1] + SimLen(m)
  <2>1. Header!Covers(e, c, 1) <=> Header!Within(c, e.upper, e.len)
    BY DEF Header!Covers, Header!Base
  <2>2. c < Word
    BY <1>1
  <2> QED BY <1>1, <2>1, <2>2, WithinIs
<1>3. \A t : Header!Mapped(t, e, c, 1) =
               IF Delta(m) # 1 THEN c + Delta(m) ELSE c + 1 - ((c - m[1]) % 2)
  <2>1. Delta(m) \in Int
    BY DEF Placed
  <2>2. \A t : Header!Mapped(t, e, c, 1) =
               IF Delta(m) # 1 THEN c + (2 * 1 - 1) * Delta(m)
               ELSE c + 1 - ((c - m[1]) % 2)
    BY <1>1, MappedIs
  <2> QED BY <2>1, <2>2
<1> HIDE DEF e
<1>4. CASE IsLace(m)
  <2>1. /\ Delta(m) = 1 /\ m[1] < m[2] /\ (m[2] - m[1]) % 2 = 1
        /\ m[1] \in Nat /\ m[2] \in Nat /\ SimLen(m) = m[2] - m[1]
    BY <1>4 DEF Placed, SimLen
  <2>2. Header!Covers(e, c, 1) <=> m[1] <= c /\ c < m[2]
    BY <1>2, <2>1
  <2>3. Claims(m, c) <=> m[1] <= c /\ c <= m[2] /\ (c - m[1]) % 2 = 0
    BY <1>4, <2>1 DEF Claims, InEntry
  <2>4. (c - m[1]) % 2 \in {0, 1} /\ (c = m[2] => (c - m[1]) % 2 = 1)
    BY <2>1
  <2>5. m[1] <= c /\ c < m[2] /\ (c - m[1]) % 2 = 1 =>
           /\ c - 1 \in Nat /\ m[1] <= c - 1 /\ c - 1 <= m[2] /\ c = (c - 1) + 1
           /\ ((c - 1) - m[1]) % 2 = 0
    BY <2>1
  <2>6. m[1] <= c /\ c < m[2] /\ (c - m[1]) % 2 = 1 =>
           c - 1 \in Nat /\ InEntry(m, c - 1, c)
    BY <1>4, <2>1, <2>5 DEF InEntry
  <2>7. /\ (c - m[1]) % 2 = 0 => \A t : Header!Mapped(t, e, c, 1) = c + Delta(m)
        /\ (c - m[1]) % 2 = 1 => \A t : Header!Mapped(t, e, c, 1) = c
    BY <1>3, <2>1
  <2>8. c <= m[2] /\ (c - m[1]) % 2 = 0 => c < m[2]
    BY <2>1, <2>4
  <2>9. c < m[2] => c <= m[2]
    BY <2>1
  <2>10. Claims(m, c) => Header!Covers(e, c, 1) /\ (c - m[1]) % 2 = 0
    BY <2>2, <2>3, <2>8
  <2>11. Header!Covers(e, c, 1) /\ ~Claims(m, c) =>
            m[1] <= c /\ c < m[2] /\ (c - m[1]) % 2 = 1
    BY <2>2, <2>3, <2>4, <2>9
  <2> QED BY <2>6, <2>7, <2>10, <2>11 DEF e
<1>5. CASE ~IsLace(m)
  <2>1. /\ Delta(m) \in Int /\ m[1] \in Nat /\ m[2] \in Nat /\ m[1] <= m[2]
        /\ Delta(m) = 1 => m[1] = m[2]
        /\ SimLen(m) = m[2] - m[1] + 1
    BY <1>5 DEF Placed, SimLen
  <2>2. Header!Covers(e, c, 1) <=> m[1] <= c /\ c <= m[2]
    BY <1>2, <2>1
  <2>3. Claims(m, c) <=> m[1] <= c /\ c <= m[2]
    BY <1>5, <2>1 DEF Claims, InEntry
  <2>4. m[1] <= c /\ c <= m[2] => \A t : Header!Mapped(t, e, c, 1) = c + Delta(m)
    <3>1. m[1] <= c /\ c <= m[2] /\ Delta(m) = 1 => (c - m[1]) % 2 = 0
      BY <2>1
    <3> QED BY <1>3, <2>1, <3>1
  <2> QED BY <2>2, <2>3, <2>4 DEF e
<1> QED BY <1>4, <1>5

(* Uppering, an entry covers the lowercase letters of what it claims, and  *)
(* a lace the uppercase letters in between as well.                        *)
LEMMA CoversLower ==
    ASSUME NEW m, Placed(m), NEW c \in Nat, c < Word - 1
    PROVE  /\ Header!Covers(AsEntry(m), c, 0) =>
                 \/ \E u \in Nat : /\ InEntry(m, u, c)
                                   /\ \A t : Header!Mapped(t, AsEntry(m), c, 0) = u
                 \/ /\ Claims(m, c)
                    /\ \A t : Header!Mapped(t, AsEntry(m), c, 0) = c
           /\ \A u \in Nat : InEntry(m, u, c) => Header!Covers(AsEntry(m), c, 0)
<1> DEFINE e == AsEntry(m)
           b == m[1] + Delta(m)
<1>1. /\ e.upper = m[1] /\ e.lower = Delta(m) /\ e.len = SimLen(m)
      /\ e.len \in Nat /\ b \in Nat /\ b + SimLen(m) <= Word /\ Word \in Nat
  <2>1. /\ e.upper + e.lower + e.len <= Word /\ e.upper + e.lower \in Nat
        /\ e \in [upper : Nat, lower : Int, len : Nat]
    BY EntryLength
  <2>2. e.len \in Nat
    BY <2>1
  <2> QED BY <2>1, <2>2, EntryLength, UcdOK
<1>2. Header!Covers(e, c, 0) <=> b <= c /\ c < b + SimLen(m)
  <2>1. Header!Covers(e, c, 0) <=> Header!Within(c, b, e.len)
    BY <1>1 DEF Header!Covers, Header!Base
  <2>2. c < Word
    BY <1>1
  <2> HIDE DEF b
  <2> QED BY <1>1, <2>1, <2>2, WithinIs
<1>3. \A t : Header!Mapped(t, e, c, 0) =
               IF Delta(m) # 1 THEN c - Delta(m) ELSE c - ((c - m[1]) % 2)
  <2>1. Delta(m) \in Int /\ m[1] \in Nat
    BY DEF Placed
  <2>2. \A t : Header!Mapped(t, e, c, 0) =
               IF Delta(m) # 1 THEN c + (2 * 0 - 1) * Delta(m)
               ELSE c + 0 - ((c - m[1]) % 2)
    BY <1>1, MappedIs
  <2>3. c + (2 * 0 - 1) * Delta(m) = c - Delta(m)
    BY <2>1
  <2>4. (c - m[1]) % 2 \in Int
    BY <2>1
  <2> QED BY <2>1, <2>2, <2>3, <2>4
<1> HIDE DEF e
<1>4. CASE IsLace(m)
  <2>1. /\ Delta(m) = 1 /\ m[1] < m[2] /\ (m[2] - m[1]) % 2 = 1
        /\ m[1] \in Nat /\ m[2] \in Nat /\ SimLen(m) = m[2] - m[1]
    BY <1>4 DEF Placed, SimLen
  <2>2. Header!Covers(e, c, 0) <=> m[1] < c /\ c <= m[2]
    BY <1>2, <2>1
  <2>3. (c - m[1]) % 2 \in {0, 1}
    BY <2>1
  <2>4. CASE (c - m[1]) % 2 = 0
    <3>1. m[1] < c /\ c <= m[2] => Claims(m, c)
      BY <1>4, <2>1, <2>4 DEF Claims, InEntry
    <3>2. \A t : Header!Mapped(t, e, c, 0) = c
      BY <1>3, <2>1, <2>4
    <3>3. \A u \in Nat : u + 1 = c => (u - m[1]) % 2 = 1
      BY <2>1, <2>4
    <3>4. \A u \in Nat : ~InEntry(m, u, c)
      BY <1>4, <2>1, <3>3 DEF InEntry
    <3> QED BY <2>2, <3>1, <3>2, <3>4 DEF e
  <2>5. CASE (c - m[1]) % 2 = 1
    <3>1. m[1] < c /\ c <= m[2] =>
             /\ c - 1 \in Nat /\ m[1] <= c - 1 /\ c - 1 <= m[2] /\ c = (c - 1) + 1
             /\ ((c - 1) - m[1]) % 2 = 0
      BY <2>1, <2>5
    <3>2. m[1] < c /\ c <= m[2] => c - 1 \in Nat /\ InEntry(m, c - 1, c)
      BY <1>4, <2>1, <3>1 DEF InEntry
    <3>3. \A t : Header!Mapped(t, e, c, 0) = c - 1
      BY <1>3, <2>1, <2>5
    <3>4. \A u \in Nat : InEntry(m, u, c) => u = c - 1 /\ m[1] <= u /\ u <= m[2]
      BY <2>1 DEF InEntry
    <3>5. c - 1 # m[2]
      BY <2>1, <2>5
    <3>6. \A u \in Nat : InEntry(m, u, c) => m[1] < c /\ c <= m[2]
      BY <2>1, <3>4, <3>5
    <3> QED BY <2>2, <3>2, <3>3, <3>6 DEF e
  <2> QED BY <2>3, <2>4, <2>5
<1>5. CASE ~IsLace(m)
  <2>1. /\ Delta(m) \in Int /\ m[1] \in Nat /\ m[2] \in Nat /\ m[1] <= m[2]
        /\ Delta(m) = 1 => m[1] = m[2]
        /\ SimLen(m) = m[2] - m[1] + 1
    BY <1>5 DEF Placed, SimLen
  <2>2. Header!Covers(e, c, 0) <=> m[1] <= c - Delta(m) /\ c - Delta(m) <= m[2]
    BY <1>2, <2>1
  <2>3. \A u \in Nat : InEntry(m, u, c) <=>
           u = c - Delta(m) /\ m[1] <= c - Delta(m) /\ c - Delta(m) <= m[2]
    BY <1>5, <2>1 DEF InEntry
  <2>4. m[1] <= c - Delta(m) => c - Delta(m) \in Nat
    BY <2>1
  <2>5. m[1] <= c - Delta(m) /\ c - Delta(m) <= m[2] =>
           \A t : Header!Mapped(t, e, c, 0) = c - Delta(m)
    <3>1. m[1] <= c - Delta(m) /\ c - Delta(m) <= m[2] /\ Delta(m) = 1 =>
             (c - m[1]) % 2 = 1
      BY <2>1
    <3> QED BY <1>3, <2>1, <3>1
  <2> QED BY <2>2, <2>3, <2>4, <2>5 DEF e
<1> QED BY <1>4, <1>5

-----------------------------------------------------------------------------
(* The tables in the header are those of the scan.                         *)

Entries == [upper : Nat, lower : Int, len : Nat]

(* Entry i of t is before entry j, and both are entries of @map.           *)
TwoEntries(t, i, j) ==
    \E k, l \in DOMAIN gen.map :
        /\ k # l /\ t[i] = AsEntry(gen.map[k]) /\ t[j] = AsEntry(gen.map[l])
        /\ gen.map[k][1] <= gen.map[l][1]

(* The entries of t are entries of @map, each at most once, in order.      *)
FromMap(t) ==
    /\ t \in Seq(Entries)
    /\ \A n \in DOMAIN t : \E k \in DOMAIN gen.map : t[n] = AsEntry(gen.map[k])
    /\ \A i, j \in DOMAIN t : i < j => TwoEntries(t, i, j)

HasEntry(t, m) == \E n \in DOMAIN t : t[n] = AsEntry(m)

(* All entries of @map are.                                                *)
LEMMA MapPlaced ==
    ASSUME GInv, HInv, NEW k \in DOMAIN gen.map
    PROVE  Placed(gen.map[k]) /\ gen.map[k] \in Seq(Nat) /\ AsEntry(gen.map[k]) \in Entries
<1>1. gen.map \in Seq(Seq(Nat))
  BY DEF GInv, GenOK, GenType
<1>2. gen.map[k] \in Seq(Nat) /\ EntryOK(gen.map[k]) /\ Narrow(gen.map[k]) /\ FileFits
  BY <1>1 DEF GInv, GenOK, HInv, AllNarrow
<1>3. Placed(gen.map[k])
  BY <1>2, EntryPlaced
<1> QED BY <1>2, <1>3, EntryLength DEF Entries

(* The sort keeps the entries.                                             *)
LEMMA SortedIs ==
    ASSUME GInv, HInv
    PROVE  FromMap(Sorted) /\ \A k \in DOMAIN gen.map : HasEntry(Sorted, gen.map[k])
<1> DEFINE place == EntryPlaces(gen.map)
           a == Arranged(gen.map, place)
<1>1. gen.map \in Seq(Seq(Nat)) /\ DOMAIN gen.map \subseteq Nat
  BY DEF GInv, GenOK, GenType
<1>2. \A k \in DOMAIN gen.map : gen.map[k][1] \in Nat
  BY MapPlaced DEF Placed
<1>3. /\ place \in Injection(1 .. Len(gen.map), 1 .. Len(gen.map))
      /\ \A j, k \in DOMAIN gen.map : gen.map[j][1] < gen.map[k][1] =>
            place[j] <= place[k]
  BY <1>1, <1>2, EntryPlacesDiffer
<1> HIDE DEF place
<1>4. /\ a \in Seq(Seq(Nat)) /\ DOMAIN a = DOMAIN gen.map
      /\ \A k \in DOMAIN gen.map : a[place[k]] = gen.map[k]
      /\ \A n \in DOMAIN gen.map : \E k \in DOMAIN gen.map :
            place[k] = n /\ a[n] = gen.map[k]
  BY <1>1, <1>3, ArrangedKeeps
<1>5. \A k \in DOMAIN gen.map : place[k] \in DOMAIN gen.map
  BY <1>1, <1>3 DEF Injection
<1>6. Sorted = [k \in DOMAIN a |-> AsEntry(a[k])]
  BY DEF Sorted, a, place
<1> HIDE DEF a
<1>7. DOMAIN Sorted = DOMAIN gen.map /\ \A k \in DOMAIN gen.map : Sorted[k] = AsEntry(a[k])
  BY <1>4, <1>6
<1>8. \A n \in DOMAIN Sorted : \E k \in DOMAIN gen.map : Sorted[n] = AsEntry(gen.map[k])
  BY <1>4, <1>7
<1>9. Sorted \in Seq(Entries)
  <2>1. \A n \in DOMAIN Sorted : Sorted[n] \in Entries
    BY <1>8, MapPlaced
  <2>2. Len(gen.map) \in Nat /\ DOMAIN Sorted = 1 .. Len(gen.map)
    BY <1>1, <1>7
  <2>3. Sorted \in [1 .. Len(gen.map) -> Entries]
    BY <1>6, <2>1, <2>2
  <2> QED BY <2>2, <2>3
<1>10. ASSUME NEW i \in DOMAIN Sorted, NEW j \in DOMAIN Sorted, i < j
       PROVE  TwoEntries(Sorted, i, j)
  <2>1. PICK k \in DOMAIN gen.map : place[k] = i /\ a[i] = gen.map[k]
    BY <1>4, <1>7
  <2>2. PICK l \in DOMAIN gen.map : place[l] = j /\ a[j] = gen.map[l]
    BY <1>4, <1>7
  <2>3. i \in Nat /\ j \in Nat
    BY <1>1, <1>7
  <2>4. k # l /\ ~(place[l] <= place[k])
    BY <1>10, <2>1, <2>2, <2>3
  <2>5. ~(gen.map[l][1] < gen.map[k][1])
    BY <1>3, <2>4
  <2>6. gen.map[k][1] <= gen.map[l][1]
    BY <1>2, <2>5
  <2> QED BY <1>7, <2>1, <2>2, <2>4, <2>6 DEF TwoEntries
<1>11. ASSUME NEW k \in DOMAIN gen.map PROVE HasEntry(Sorted, gen.map[k])
  <2>1. place[k] \in DOMAIN Sorted /\ a[place[k]] = gen.map[k]
    BY <1>4, <1>5, <1>7
  <2>2. Sorted[place[k]] = AsEntry(gen.map[k])
    BY <1>7, <2>1
  <2> QED BY <2>1, <2>2 DEF HasEntry
<1> QED BY <1>8, <1>9, <1>10, <1>11 DEF FromMap

(* So does the choice of the short and of the long ones.                   *)
LEMMA SelectedFromMap ==
    ASSUME NEW s, FromMap(s), NEW S \in SUBSET DOMAIN s
    PROVE  /\ FromMap(Selected(s, S))
           /\ \A k \in S : \E n \in DOMAIN Selected(s, S) : Selected(s, S)[n] = s[k]
<1> DEFINE q == Selected(s, S)
<1>1. q \in Seq(Entries) /\ SelectedOf(s, S, q)
  BY SelectedIs DEF FromMap
<1> HIDE DEF q
<1>2. \A n \in DOMAIN q : \E k \in DOMAIN gen.map : q[n] = AsEntry(gen.map[k])
  BY <1>1 DEF SelectedOf, FromMap
<1>3. ASSUME NEW i \in DOMAIN q, NEW j \in DOMAIN q, i < j
      PROVE  TwoEntries(q, i, j)
  <2>1. PICK k \in S, l \in S : k < l /\ q[i] = s[k] /\ q[j] = s[l]
    BY <1>1, <1>3 DEF SelectedOf
  <2>2. TwoEntries(s, k, l)
    BY <2>1 DEF FromMap
  <2> QED BY <2>1, <2>2 DEF TwoEntries
<1> QED BY <1>1, <1>2, <1>3 DEF FromMap, SelectedOf, q

(* The short and the long table are the entries of @map.                   *)
LEMMA TablesMade ==
    ASSUME GInv, HInv, Done
    PROVE  /\ FromMap(out.case) /\ FromMap(out.casel)
           /\ \A k \in DOMAIN gen.map :
                 HasEntry(out.case, gen.map[k]) \/ HasEntry(out.casel, gen.map[k])
<1>1. /\ out.case = Selected(Sorted, DOMAIN Sorted \ LongOnes)
      /\ out.casel = Selected(Sorted, LongOnes)
  BY DEF HInv, Done, Made
<1>2. FromMap(Sorted) /\ \A k \in DOMAIN gen.map : HasEntry(Sorted, gen.map[k])
  BY SortedIs
<1>3. LongOnes \subseteq DOMAIN Sorted
  BY DEF LongOnes
<1>4. /\ FromMap(out.case)
      /\ \A k \in DOMAIN Sorted \ LongOnes : \E n \in DOMAIN out.case : out.case[n] = Sorted[k]
  BY <1>1, <1>2, SelectedFromMap
<1>5. /\ FromMap(out.casel)
      /\ \A k \in LongOnes : \E n \in DOMAIN out.casel : out.casel[n] = Sorted[k]
  BY <1>1, <1>2, <1>3, SelectedFromMap
<1> QED BY <1>2, <1>4, <1>5 DEF HasEntry

(* q is s with t after it.                                                 *)
Joined(s, t, q) ==
    /\ \A n \in DOMAIN q : \/ n \in DOMAIN s /\ q[n] = s[n]
                           \/ /\ n - Len(s) \in DOMAIN t /\ q[n] = t[n - Len(s)]
                              /\ n \in Nat /\ n > Len(s)
    /\ \A n \in DOMAIN s : n \in DOMAIN q /\ q[n] = s[n]
    /\ \A n \in DOMAIN t : n + Len(s) \in DOMAIN q /\ q[n + Len(s)] = t[n]

(* A sequence after another one.                                           *)
LEMMA PairsJoined ==
    ASSUME NEW s \in Seq(Nat \X Nat), NEW t \in Seq(Nat \X Nat)
    PROVE  s \o t \in Seq(Nat \X Nat) /\ Joined(s, t, s \o t)
<1> DEFINE q == s \o t
<1>1. q \in Seq(Nat \X Nat) /\ Len(q) = Len(s) + Len(t)
  OBVIOUS
<1>2. /\ \A n \in 1 .. Len(s) : q[n] = s[n]
      /\ \A n \in Len(s) + 1 .. Len(s) + Len(t) : q[n] = t[n - Len(s)]
  OBVIOUS
<1>3. /\ DOMAIN s = 1 .. Len(s) /\ DOMAIN t = 1 .. Len(t)
      /\ DOMAIN q = 1 .. Len(s) + Len(t) /\ Len(s) \in Nat /\ Len(t) \in Nat
  BY <1>1
<1> HIDE DEF q
<1> DEFINE a == Len(s)
           b == Len(t)
<1>4. /\ \A n \in 1 .. a : q[n] = s[n]
      /\ \A n \in a + 1 .. a + b : q[n] = t[n - a]
      /\ DOMAIN s = 1 .. a /\ DOMAIN t = 1 .. b /\ DOMAIN q = 1 .. a + b
      /\ a \in Nat /\ b \in Nat
  BY <1>2, <1>3
<1> HIDE DEF a, b
<1>5. ASSUME NEW n \in DOMAIN q
      PROVE  \/ n \in DOMAIN s /\ q[n] = s[n]
             \/ n - a \in DOMAIN t /\ q[n] = t[n - a] /\ n \in Nat /\ n > a
  <2>1. n \in 1 .. a + b
    BY <1>4
  <2>2. n \in 1 .. a \/ (n \in a + 1 .. a + b /\ n - a \in 1 .. b /\ n \in Nat /\ n > a)
    BY <1>4, <2>1
  <2> QED BY <1>4, <2>2
<1>6. ASSUME NEW n \in DOMAIN s PROVE n \in DOMAIN q /\ q[n] = s[n]
  <2>1. n \in 1 .. a /\ n \in 1 .. a + b
    BY <1>4
  <2> QED BY <1>4, <2>1
<1>7. ASSUME NEW n \in DOMAIN t PROVE n + a \in DOMAIN q /\ q[n + a] = t[n]
  <2>1. n \in 1 .. b
    BY <1>4
  <2>2. n + a \in a + 1 .. a + b /\ n + a \in 1 .. a + b /\ (n + a) - a = n
    BY <1>4, <2>1
  <2> QED BY <1>4, <2>2
<1> QED BY <1>1, <1>5, <1>6, <1>7 DEF Joined, q, a

(* grep keeps the pairs sorted.                                            *)
LEMMA SelectedSorted ==
    ASSUME PairsSorted, NEW S \in SUBSET DOMAIN gen.pair, NEW q, SelectedOf(gen.pair, S, q)
    PROVE  \A m, n \in DOMAIN q : m < n => ~PairBefore(q[n], q[m])
<1> SUFFICES ASSUME NEW m \in DOMAIN q, NEW n \in DOMAIN q, m < n
             PROVE  ~PairBefore(q[n], q[m])
  OBVIOUS
<1>1. PICK j \in S, k \in S : j < k /\ q[m] = gen.pair[j] /\ q[n] = gen.pair[k]
  BY DEF SelectedOf
<1>2. ~PairBefore(gen.pair[k], gen.pair[j])
  BY <1>1 DEF PairsSorted
<1> QED BY <1>1, <1>2

(* Without pairs cut short, pairs[] and pairl[] are the pairs, each once,  *)
(* and their index tables are made of the same pairs.                      *)
LEMMA PairsListed ==
    ASSUME GInv, HInv, Done, ~Truncated
    PROVE  /\ out.pairs = NearPairs /\ out.pairl = Selected(gen.pair, FarOnes)
           /\ out.pairsUpper = ByLower(out.pairs, out.pairs)
           /\ out.pairlUpper = ByLower(out.pairl, out.pairl)
           /\ \A q \in {out.pairs, out.pairl} :
                 /\ q \in Seq(Nat \X Nat)
                 /\ \A m, n \in DOMAIN q : q[m] = q[n] => m = n
<1> DEFINE P == gen.pair
           near == NearPairs
           far == Selected(gen.pair, FarOnes)
<1>1. P \in Seq(Nat \X Nat) /\ \A k \in DOMAIN P : P[k] \in Nat \X Nat
  BY DEF GInv, GenOK, GenType
<1>2. FarOnes \subseteq DOMAIN P /\ DOMAIN P \ FarOnes \subseteq DOMAIN P
  BY DEF FarOnes
<1>3. /\ near \in Seq(Nat \X Nat) /\ SelectedOf(P, DOMAIN P \ FarOnes, near)
      /\ far \in Seq(Nat \X Nat) /\ SelectedOf(P, FarOnes, far)
  BY <1>1, <1>2, SelectedIs DEF NearPairs
<1>4. ASSUME NEW k \in DOMAIN P, k \notin FarOnes
      PROVE  P[k][2] \in Nat /\ P[k][2] <= MaxShort /\ AsShort(P[k]) = P[k]
  <2>1. P[k] \in Nat \X Nat /\ ~(P[k][1] > MaxShort) /\ MaxShort \in Nat
    BY <1>1, <1>4, UcdOK DEF FarOnes
  <2>2. P[k] \in Range(gen.pair)
    BY <1>4 DEF Range
  <2>3. P[k][1] \in Nat /\ P[k][2] \in Nat /\ P[k] = <<P[k][1], P[k][2]>>
    BY <2>1
  <2>4. P[k][1] <= MaxShort
    BY <2>1, <2>3
  <2>5. P[k][2] <= MaxShort
    BY <2>1, <2>2, <2>3, <2>4 DEF Truncated
  <2>6. P[k][2] % (MaxShort + 1) = P[k][2]
    BY <2>1, <2>3, <2>5
  <2> QED BY <2>3, <2>5, <2>6 DEF AsShort
<1>5. WideOnes \subseteq FarOnes
  <2> SUFFICES ASSUME NEW k \in DOMAIN P, k \notin FarOnes PROVE ~(P[k][2] > MaxShort)
    BY DEF WideOnes
  <2> QED BY <1>4, UcdOK
<1>6. FarOnes \cup WideOnes = FarOnes
  BY <1>5
<1>7. NarrowPairs = near
  BY <1>6 DEF NarrowPairs, NearPairs
<1>8. /\ out.pairs = [k \in DOMAIN near |-> AsShort(near[k])] /\ out.pairl = far
      /\ out.pairsUpper = ByLower(NarrowPairs, near)
      /\ out.pairlUpper = ByLower(Selected(gen.pair, FarOnes \cup WideOnes), far)
  BY DEF HInv, Done, Made
<1> HIDE DEF near, far
<1>9. \A n \in DOMAIN near : AsShort(near[n]) = near[n]
  BY <1>2, <1>3, <1>4 DEF SelectedOf
<1>10. near = [k \in DOMAIN near |-> near[k]]
  BY <1>3
<1>11. out.pairs = near
  BY <1>8, <1>9, <1>10
<1>0. \A k \in DOMAIN P : k \in Nat
  <2>1. P \in Seq(Nat \X Nat)
    BY <1>1
  <2> HIDE DEF P
  <2>2. DOMAIN P = 1 .. Len(P)
    BY <2>1
  <2> QED BY <2>2
<1>12. ASSUME NEW S, S \subseteq DOMAIN P, NEW q \in Seq(Nat \X Nat), SelectedOf(P, S, q),
              NEW m \in DOMAIN q, NEW n \in DOMAIN q, q[m] = q[n]
       PROVE  m = n
  <2>1. \A i, j \in DOMAIN q : i < j => q[i] # q[j]
    <3> SUFFICES ASSUME NEW i \in DOMAIN q, NEW j \in DOMAIN q, i < j PROVE q[i] # q[j]
      OBVIOUS
    <3>1. PICK k \in S, l \in S : k < l /\ q[i] = P[k] /\ q[j] = P[l]
      BY <1>12 DEF SelectedOf
    <3>2. k \in DOMAIN P /\ l \in DOMAIN P
      BY <1>12
    <3>3. k \in Nat /\ l \in Nat
      BY <1>0, <3>2
    <3>4. k # l
      BY <3>1, <3>3
    <3> QED BY <3>1, <3>2, <3>4 DEF HInv, PairsDiffer
  <2>2. m \in Nat /\ n \in Nat
    BY <1>12
  <2> QED BY <1>12, <2>1, <2>2
<1>13. /\ \A m, n \in DOMAIN near : near[m] = near[n] => m = n
       /\ \A m, n \in DOMAIN far : far[m] = far[n] => m = n
  BY <1>2, <1>3, <1>12
<1>14. out.pairl = far /\ out.pairlUpper = ByLower(far, far)
  BY <1>6, <1>8 DEF far
<1> QED BY <1>3, <1>7, <1>8, <1>11, <1>13, <1>14 DEF near, far

(* pairs[] and pairsl[] are the pairs, in order.                           *)
LEMMA PairsMade ==
    ASSUME GInv, HInv, Done, ~Truncated
    PROVE  LET ps == out.pairs \o out.pairl IN
           /\ ps \in Seq(Nat \X Nat)
           /\ \A n \in DOMAIN ps : \E k \in DOMAIN gen.pair : ps[n] = gen.pair[k]
           /\ \A k \in DOMAIN gen.pair : \E n \in DOMAIN ps : ps[n] = gen.pair[k]
           /\ \A m, n \in DOMAIN ps : m < n => ~PairBefore(ps[n], ps[m])
<1> DEFINE P == gen.pair
           near == NearPairs
           far == Selected(gen.pair, FarOnes)
           ps == near \o far
<1>1. P \in Seq(Nat \X Nat) /\ \A k \in DOMAIN P : P[k] \in Nat \X Nat
  BY DEF GInv, GenOK, GenType
<1>2. FarOnes \subseteq DOMAIN P /\ DOMAIN P \ FarOnes \subseteq DOMAIN P
  BY DEF FarOnes
<1>3. /\ near \in Seq(Nat \X Nat) /\ SelectedOf(P, DOMAIN P \ FarOnes, near)
      /\ far \in Seq(Nat \X Nat) /\ SelectedOf(P, FarOnes, far)
  BY <1>1, <1>2, SelectedIs DEF NearPairs
<1>5. out.pairs = near /\ out.pairl = far
  BY PairsListed
<1> HIDE DEF near, far
<1>6. /\ \A n \in DOMAIN near : \E k \in DOMAIN P : near[n] = P[k] /\ ~(P[k][1] > MaxShort)
      /\ \A n \in DOMAIN far : \E k \in DOMAIN P : far[n] = P[k] /\ P[k][1] > MaxShort
      /\ \A k \in DOMAIN P : \/ \E n \in DOMAIN near : near[n] = P[k]
                             \/ \E n \in DOMAIN far : far[n] = P[k]
  BY <1>3 DEF SelectedOf, FarOnes
<1>7. /\ \A m, n \in DOMAIN near : m < n => ~PairBefore(near[n], near[m])
      /\ \A m, n \in DOMAIN far : m < n => ~PairBefore(far[n], far[m])
  <2>1. PairsSorted
    BY DEF HInv, Done
  <2> QED BY <1>2, <1>3, <2>1, SelectedSorted
<1>8. \A m \in DOMAIN near, n \in DOMAIN far : ~PairBefore(far[n], near[m])
  <2> SUFFICES ASSUME NEW m \in DOMAIN near, NEW n \in DOMAIN far
               PROVE  ~PairBefore(far[n], near[m])
    OBVIOUS
  <2>1. /\ ~(near[m][1] > MaxShort) /\ far[n][1] > MaxShort
        /\ near[m] \in Nat \X Nat /\ far[n] \in Nat \X Nat
    BY <1>1, <1>6
  <2>2. near[m][1] \in Nat /\ far[n][1] \in Nat /\ MaxShort \in Nat
    BY <2>1, UcdOK
  <2>3. near[m][1] < far[n][1]
    BY <2>1, <2>2
  <2> QED BY <2>2, <2>3 DEF PairBefore
<1>9. /\ ps \in Seq(Nat \X Nat)
      /\ \A n \in DOMAIN ps : \/ n \in DOMAIN near /\ ps[n] = near[n]
                              \/ /\ n - Len(near) \in DOMAIN far
                                 /\ ps[n] = far[n - Len(near)]
                                 /\ n \in Nat /\ n > Len(near)
      /\ \A n \in DOMAIN near : n \in DOMAIN ps /\ ps[n] = near[n]
      /\ \A n \in DOMAIN far : n + Len(near) \in DOMAIN ps /\ ps[n + Len(near)] = far[n]
  <2>1. ps \in Seq(Nat \X Nat) /\ Joined(near, far, ps)
    BY <1>3, PairsJoined
  <2> QED BY <2>1 DEF Joined
<1>10. Len(near) \in Nat /\ \A n \in DOMAIN near : n \in Nat /\ n <= Len(near)
  BY <1>3
<1> HIDE DEF ps
<1>11. ASSUME NEW m \in DOMAIN ps, NEW n \in DOMAIN ps, m < n
       PROVE  ~PairBefore(ps[n], ps[m])
  <2>1. CASE m \in DOMAIN near /\ ps[m] = near[m] /\ n \in DOMAIN near /\ ps[n] = near[n]
    BY <1>7, <1>11, <2>1
  <2>2. CASE /\ m \in DOMAIN near /\ ps[m] = near[m]
             /\ n - Len(near) \in DOMAIN far /\ ps[n] = far[n - Len(near)]
    BY <1>8, <2>2
  <2>3. CASE /\ n - Len(near) \in DOMAIN far /\ ps[n] = far[n - Len(near)]
             /\ m - Len(near) \in DOMAIN far /\ ps[m] = far[m - Len(near)]
             /\ m \in Nat /\ n \in Nat
    <3>1. m - Len(near) < n - Len(near)
      BY <1>10, <1>11, <2>3
    <3> QED BY <1>7, <2>3, <3>1
  <2>4. ~(/\ n \in DOMAIN near
          /\ m \in Nat /\ m > Len(near))
    BY <1>10, <1>11
  <2> QED BY <1>9, <2>1, <2>2, <2>3, <2>4
<1>12. \A n \in DOMAIN ps : \E k \in DOMAIN gen.pair : ps[n] = gen.pair[k]
  BY <1>6, <1>9
<1>13. \A k \in DOMAIN gen.pair : \E n \in DOMAIN ps : ps[n] = gen.pair[k]
  BY <1>6, <1>9
<1> QED BY <1>5, <1>9, <1>11, <1>12, <1>13 DEF ps

-----------------------------------------------------------------------------
(* The exclusion test.                                                     *)

(* Code points are below 2^32 - 1.                                         *)
LEMMA CasedFits ==
    ASSUME FileFits
    PROVE  /\ Cased \subseteq Codes /\ Word \in Nat
           /\ \A c \in Codes : c \in Nat /\ c \in 0 .. Word /\ c < Word - 1
<1>1. Word \in Nat /\ Codes \subseteq 0 .. Word - 2
  BY UcdOK
<1>2. \A c \in Codes : c \in Nat /\ c \in 0 .. Word /\ c < Word - 1
  BY <1>1
<1> QED BY <1>1, <1>2 DEF FileFits, Cased

(* A gap is a run of uncased code points.                                  *)
LEMMA GapsUncased ==
    ASSUME FileFits
    PROVE  /\ IsFiniteSet(Gaps)
           /\ \A e \in Gaps : /\ e[1] \in Nat /\ e[2] \in Nat /\ e[2] < Word
                              /\ \A c \in Nat : e[1] <= c /\ c <= e[2] => c \notin Cased
<1>1. \A c \in Cased : c \in Nat /\ c \in 0 .. Word /\ c < Word - 1
  BY CasedFits
<1>2. Word \in Nat
  BY UcdOK
<1>3. ASSUME NEW e \in Gaps
      PROVE  \E a, b \in Cased : /\ e = <<a + 1, b - 1>> /\ b - a > 1
                                 /\ \A c \in a + 1 .. b - 1 : c \notin Cased
  BY <1>3 DEF Gaps
<1>4. ASSUME NEW e \in Gaps
      PROVE  /\ e \in (0 .. Word) \X (0 .. Word)
             /\ e[1] \in Nat /\ e[2] \in Nat /\ e[2] < Word
             /\ \A c \in Nat : e[1] <= c /\ c <= e[2] => c \notin Cased
  <2>1. PICK a \in Cased, b \in Cased :
           /\ e = <<a + 1, b - 1>> /\ b - a > 1
           /\ \A c \in a + 1 .. b - 1 : c \notin Cased
    BY <1>3
  <2>2. a \in Nat /\ b \in Nat /\ a < Word - 1 /\ b < Word - 1
    BY <1>1
  <2>3. a + 1 \in 0 .. Word /\ b - 1 \in 0 .. Word /\ b - 1 < Word
    BY <1>2, <2>1, <2>2
  <2>4. e[1] = a + 1 /\ e[2] = b - 1
    BY <2>1
  <2>5. \A c \in Nat : a + 1 <= c /\ c <= b - 1 => c \in a + 1 .. b - 1
    BY <2>2
  <2> QED BY <2>1, <2>2, <2>3, <2>4, <2>5
<1>5. IsFiniteSet(0 .. Word)
  BY <1>2, FS_Interval
<1>6. IsFiniteSet((0 .. Word) \X (0 .. Word))
  BY <1>5, FS_Product
<1>7. Gaps \in SUBSET ((0 .. Word) \X (0 .. Word))
  BY <1>4
<1>8. IsFiniteSet(Gaps)
  BY <1>6, <1>7, FS_Subset
<1> QED BY <1>4, <1>8

(* The header lists the gaps.                                              *)
LEMMA GapsListed ==
    ASSUME NEW S, IsFiniteSet(S)
    PROVE  SetToSeq(S) \in Seq(S)
<1>1. Cardinality(S) \in Nat /\ ExistsBijection(1 .. Cardinality(S), S)
  BY FS_CardinalityType
<1>2. PICK f : f \in Bijection(1 .. Cardinality(S), S)
  BY <1>1 DEF ExistsBijection
<1>3. f \in [1 .. Cardinality(S) -> S] /\ IsInjective(f)
  BY <1>2 DEF Bijection, Injection
<1>4. SetToSeq(S) \in [1 .. Cardinality(S) -> S]
  BY <1>3 DEF SetToSeq
<1> QED BY <1>1, <1>4

(* No letter is excluded.                                                  *)
LEMMA ExcludedUncased ==
    ASSUME HInv, Done, NEW c \in Codes, Cased # {}, Header!Excluded(c)
    PROVE  c \notin Cased
<1>1. FileFits
  BY DEF HInv
<1>2. out.excl = Exclusions /\ out.last = Greatest(Cased)
  BY DEF HInv, Done, Made
<1>3. c \in Nat /\ c < Word /\ Word \in Nat /\ Cased \subseteq Nat /\ Cased \subseteq 0 .. Word
  <2>1. c \in Nat /\ c < Word - 1 /\ Word \in Nat
    BY <1>1, CasedFits
  <2>2. Cased \subseteq Nat /\ Cased \subseteq 0 .. Word
    BY <1>1, CasedFits
  <2> QED BY <2>1, <2>2
<1>4. Least(Cased) \in Nat /\ \A d \in Cased : Least(Cased) <= d
  BY <1>3, LeastIs
<1>5. Greatest(Cased) \in Nat /\ \A d \in Cased : d <= Greatest(Cased)
  BY <1>3, GreatestIs
<1>6. CASE c > out.last
  BY <1>2, <1>3, <1>5, <1>6
<1>7. ASSUME NEW k \in DOMAIN out.excl,
             Header!Minus(c, out.excl[k][1]) <= out.excl[k][2] - out.excl[k][1]
      PROVE  c \notin Cased
  <2> DEFINE first == <<0, Least(Cased) - 1>>
             q == SetToSeq(Gaps)
             e == out.excl[k]
  <2>1. q \in Seq(Gaps)
    BY <1>1, GapsUncased, GapsListed
  <2>2. out.excl = <<first>> \o q
    BY <1>2 DEF Exclusions
  <2> HIDE DEF first, q
  <2>3. e = first \/ e \in Gaps
    BY <2>1, <2>2
  <2>4. Header!Minus(c, e[1]) <= e[2] - e[1]
    BY <1>7
  <2> HIDE DEF e
  <2>5. CASE e = first
    <3>1. e[1] = 0 /\ e[2] = Least(Cased) - 1
      BY <2>5 DEF first
    <3>2. c <= Least(Cased) - 1
      BY <1>3, <1>4, <2>4, <3>1 DEF Header!Minus
    <3> QED BY <1>3, <1>4, <3>2
  <2>6. CASE e \in Gaps
    <3>1. /\ e[1] \in Nat /\ e[2] \in Nat /\ e[2] < Word
          /\ \A d \in Nat : e[1] <= d /\ d <= e[2] => d \notin Cased
      BY <1>1, <2>6, GapsUncased
    <3>2. e[1] <= c /\ c <= e[2]
      BY <1>3, <2>4, <3>1 DEF Header!Minus
    <3> QED BY <1>3, <3>1, <3>2
  <2> QED BY <2>3, <2>5, <2>6
<1> QED BY <1>6, <1>7 DEF Header!Excluded

-----------------------------------------------------------------------------
(* What is found for a letter with one case.                               *)

(* An entry claims capitals, and maps them to their lowercase letter.      *)
LEMMA CapitalsAre ==
    ASSUME GInv, HInv, NEW k \in DOMAIN gen.map, NEW c \in Nat
    PROVE  /\ Claims(gen.map[k], c) => Maps(c, c + Delta(gen.map[k]))
           /\ \A u \in Nat : InEntry(gen.map[k], u, c) =>
                 u \in Capitals(c) /\ Claims(gen.map[k], u)
<1>1. EntryOK(gen.map[k])
  BY DEF GInv, GenOK
<1>2. \A u \in Nat : InEntry(gen.map[k], u, c) =>
         Claims(gen.map[k], u) /\ c = u + Delta(gen.map[k])
  BY DEF InEntry, Claims
<1> QED BY <1>1, <1>2 DEF EntryOK, Claims, Maps, Capitals

(* Lowering, an entry that is hit has the right answer.                    *)
LEMMA TableUp ==
    ASSUME GInv, HInv, NEW t, FromMap(t), NEW c \in Codes, Settled(c, 1),
           NEW n \in DOMAIN t, Header!Covers(t[n], c, 1)
    PROVE  /\ c \in DOMAIN upper \/ Capitals(c) # {}
           /\ Header!Mapped(t, t[n], c, 1) = Given(c, 1)
<1>1. c \in Nat /\ c < Word - 1
  BY CasedFits DEF HInv
<1>2. PICK k \in DOMAIN gen.map : t[n] = AsEntry(gen.map[k])
  BY DEF FromMap
<1> DEFINE m == gen.map[k]
<1>3. Placed(m)
  BY MapPlaced
<1> HIDE DEF m
<1>4. CASE Claims(m, c)
  <2>1. Maps(c, c + Delta(m))
    BY <1>1, <1>4, CapitalsAre DEF m
  <2>2. Header!Mapped(t, t[n], c, 1) = c + Delta(m)
    BY <1>1, <1>2, <1>3, <1>4, CoversUpper DEF m
  <2> QED BY <2>1, <2>2 DEF Maps, Given
<1>5. CASE ~Claims(m, c)
  <2>1. PICK u \in Nat : InEntry(m, u, c)
    BY <1>1, <1>2, <1>3, <1>5, CoversUpper DEF m
  <2>2. u \in Capitals(c)
    BY <1>1, <2>1, CapitalsAre DEF m
  <2>3. c \notin DOMAIN upper
    BY <2>2 DEF Settled
  <2>4. Header!Mapped(t, t[n], c, 1) = c
    BY <1>1, <1>2, <1>3, <1>5, CoversUpper DEF m
  <2> QED BY <2>2, <2>3, <2>4 DEF Given
<1> QED BY <1>4, <1>5

(* Uppering, so has one.                                                   *)
LEMMA TableDown ==
    ASSUME GInv, HInv, NEW t, FromMap(t), NEW c \in Codes, Settled(c, 0),
           NEW n \in DOMAIN t, Header!Covers(t[n], c, 0)
    PROVE  c \in Cased /\ Header!Mapped(t, t[n], c, 0) = Given(c, 0)
<1>1. c \in Nat /\ c < Word - 1
  BY CasedFits DEF HInv
<1>2. PICK k \in DOMAIN gen.map : t[n] = AsEntry(gen.map[k])
  BY DEF FromMap
<1> DEFINE m == gen.map[k]
<1>3. Placed(m)
  BY MapPlaced
<1> HIDE DEF m
<1>4. ASSUME NEW u \in Nat, InEntry(m, u, c), Header!Mapped(t, t[n], c, 0) = u
      PROVE  c \in Cased /\ Header!Mapped(t, t[n], c, 0) = Given(c, 0)
  <2>1. u \in Capitals(c)
    BY <1>1, <1>4, CapitalsAre DEF m
  <2>2. c \in DOMAIN lower /\ ~Usurped(c)
    BY <2>1 DEF Settled
  <2>3. u = lower[c]
    BY <1>4, <2>1, <2>2 DEF Usurped, m
  <2> QED BY <1>4, <2>2, <2>3 DEF Cased, Given
<1>5. ASSUME Claims(m, c), Header!Mapped(t, t[n], c, 0) = c
      PROVE  c \in Cased /\ Header!Mapped(t, t[n], c, 0) = Given(c, 0)
  <2>1. c \in DOMAIN upper
    BY <1>1, <1>5, CapitalsAre DEF m, Maps
  <2>2. c \notin DOMAIN lower
    BY <2>1 DEF Settled
  <2> QED BY <1>5, <2>1, <2>2 DEF Cased, Given
<1>6. \/ \E u \in Nat : InEntry(m, u, c) /\ \A q : Header!Mapped(q, AsEntry(m), c, 0) = u
      \/ Claims(m, c) /\ \A q : Header!Mapped(q, AsEntry(m), c, 0) = c
  BY <1>1, <1>2, <1>3, CoversLower DEF m
<1>7. t[n] = AsEntry(m)
  BY <1>2 DEF m
<1> QED BY <1>4, <1>5, <1>6, <1>7

(* A pair is found for letters of its case only.                           *)
LEMMA PairOfCase ==
    ASSUME HInv, NEW c, NEW k \in DOMAIN gen.pair
    PROVE  /\ Settled(c, 1) /\ gen.pair[k][1] = c => c \in DOMAIN upper
           /\ Settled(c, 0) /\ gen.pair[k][2] = c => c \in DOMAIN lower
<1>1. \/ Maps(gen.pair[k][1], gen.pair[k][2])
      \/ MapsBack(gen.pair[k][1], gen.pair[k][2])
  BY DEF HInv, PairsOfFile
<1>2. CASE Maps(gen.pair[k][1], gen.pair[k][2])
  <2>1. gen.pair[k][1] \in Capitals(gen.pair[k][2])
    BY <1>2 DEF Maps, Capitals
  <2> QED BY <1>2, <2>1 DEF Settled, Maps
<1>3. CASE MapsBack(gen.pair[k][1], gen.pair[k][2])
  <2>1. gen.pair[k][1] \in Range(lower)
    BY <1>3 DEF MapsBack, Range
  <2> QED BY <1>3, <2>1 DEF Settled, MapsBack
<1> QED BY <1>1, <1>2, <1>3

(* The first of some places is one.                                        *)
LEMMA FirstIs ==
    ASSUME NEW S \in SUBSET Nat, S # {}
    PROVE  Header!First(S) \in S /\ \A d \in S : Header!First(S) <= d
BY LeastIs DEF Least, Header!First

(* What a table answers when it is hit.                                    *)
LEMMA TableAnswer ==
    ASSUME GInv, HInv, NEW t, FromMap(t), NEW c \in Codes, NEW low \in {0, 1},
           Settled(c, low), Header!Hits(t, c, low) # {}
    PROVE  Header!FromTable(t, c, low) = Given(c, low)
<1> DEFINE S == Header!Hits(t, c, low)
           n == Header!First(S)
<1>1. DOMAIN t \subseteq Nat
  <2>1. t \in Seq(Entries)
    BY DEF FromMap
  <2> QED BY <2>1
<1>2. S \in SUBSET Nat /\ S # {}
  BY <1>1 DEF Header!Hits
<1>3. n \in S
  BY <1>2, FirstIs
<1> HIDE DEF n
<1>4. n \in DOMAIN t /\ Header!Covers(t[n], c, low)
  BY <1>3 DEF Header!Hits
<1>5. Header!Mapped(t, t[n], c, low) = Given(c, low)
  <2>1. CASE low = 1
    BY <1>4, <2>1, TableUp
  <2>2. CASE low = 0
    BY <1>4, <2>2, TableDown
  <2> QED BY <2>1, <2>2
<1> QED BY <1>5 DEF Header!FromTable, n

(* The same for an entry that the header has.                              *)
LEMMA EntryHit ==
    ASSUME GInv, HInv, Done, NEW k \in DOMAIN gen.map, NEW c \in Codes, NEW low \in {0, 1},
           Header!Covers(AsEntry(gen.map[k]), c, low)
    PROVE  Header!Hits(out.case, c, low) # {} \/ Header!Hits(out.casel, c, low) # {}
<1>1. HasEntry(out.case, gen.map[k]) \/ HasEntry(out.casel, gen.map[k])
  BY TablesMade
<1> QED BY <1>1 DEF HasEntry, Header!Hits

ps == out.pairs \o out.pairl

(* The answer of the pairs, for a letter with no entry.                    *)
LEMMA PairAnswer ==
    ASSUME GInv, HInv, Done, ~Truncated, NEW c \in Codes, NEW low \in {0, 1}, NEW l,
           NEW n \in DOMAIN ps, ps[n][2 - low] = c,
           \A f \in DOMAIN ps : f <= n /\ ps[f][2 - low] = c => ps[f][1 + low] = l,
           Header!Hits(out.case, c, low) = {}, Header!Hits(out.casel, c, low) = {}
    PROVE  Header!Answer(c, low) = l
<1> DEFINE S == Header!PairHits(c, low)
           f == Header!First(S)
<1>1. \A d : d \in S <=> d \in DOMAIN ps /\ ps[d][2 - low] = c
  BY DEF Header!PairHits, Header!PairMatches, ps
<1>2. DOMAIN ps \subseteq Nat
  <2>1. ps \in Seq(Nat \X Nat)
    BY PairsMade DEF ps
  <2> QED BY <2>1
<1> HIDE DEF S
<1>3. S \in SUBSET Nat /\ n \in S /\ S # {}
  BY <1>1, <1>2
<1>4. f \in S /\ f <= n
  BY <1>3, FirstIs
<1>5. Header!Answer(c, low) = ps[f][1 + low]
  BY <1>3 DEF Header!Answer, Header!PairMapped, ps, S
<1> HIDE DEF f
<1> QED BY <1>1, <1>4, <1>5

(* A letter with neither an entry nor a pair is its own answer.            *)
LEMMA NoAnswer ==
    ASSUME GInv, HInv, Done, ~Truncated, NEW c \in Codes, NEW low \in {0, 1},
           \A k \in DOMAIN gen.pair : gen.pair[k][2 - low] # c,
           Header!Hits(out.case, c, low) = {}, Header!Hits(out.casel, c, low) = {}
    PROVE  Header!Answer(c, low) = c
<1>1. \A n \in DOMAIN ps : \E k \in DOMAIN gen.pair : ps[n] = gen.pair[k]
  BY PairsMade DEF ps
<1>2. Header!PairHits(c, low) = {}
  BY <1>1 DEF Header!PairHits, Header!PairMatches, ps
<1> QED BY <1>2 DEF Header!Answer

(* The header lowers like the file.                                        *)
LEMMA AnswerUp ==
    ASSUME GInv, HInv, Done, gen.lost = {}, ~Truncated, NEW c \in Codes, Settled(c, 1)
    PROVE  Header!Answer(c, 1) = Given(c, 1)
<1>1. FromMap(out.case) /\ FromMap(out.casel)
  BY TablesMade
<1>2. c \in Nat /\ c < Word - 1
  BY CasedFits DEF HInv
<1>3. CASE Header!Hits(out.case, c, 1) # {}
  BY <1>1, <1>3, TableAnswer DEF Header!Answer
<1>4. CASE Header!Hits(out.case, c, 1) = {} /\ Header!Hits(out.casel, c, 1) # {}
  BY <1>1, <1>4, TableAnswer DEF Header!Answer
<1>5. CASE Header!Hits(out.case, c, 1) = {} /\ Header!Hits(out.casel, c, 1) = {}
  <2>1. CASE c \notin DOMAIN upper
    <3>1. \A k \in DOMAIN gen.pair : gen.pair[k][1] # c
      BY <2>1, PairOfCase
    <3>2. \A k \in DOMAIN gen.pair : gen.pair[k][2 - 1] # c
      BY <3>1
    <3>3. Header!Answer(c, 1) = c
      BY <1>5, <3>2, NoAnswer
    <3> QED BY <2>1, <3>3 DEF Given
  <2>2. CASE c \in DOMAIN upper
    <3> DEFINE l == upper[c]
    <3>1. Kept(c, l)
      BY <2>2 DEF GInv, NoneForgotten, Pending, Done
    <3>2. ASSUME NEW k \in DOMAIN gen.map, InEntry(gen.map[k], c, l) PROVE FALSE
      <4>1. Claims(gen.map[k], c)
        BY <3>2 DEF InEntry, Claims
      <4>2. Header!Covers(AsEntry(gen.map[k]), c, 1)
        BY <1>2, <4>1, MapPlaced, CoversUpper
      <4> QED BY <1>5, <4>2, EntryHit
    <3>3. PICK k \in DOMAIN gen.pair : gen.pair[k] = <<c, l>>
      BY <3>1, <3>2 DEF Kept
    <3> HIDE DEF l
    <3>4. /\ ps \in Seq(Nat \X Nat)
          /\ \A q \in DOMAIN gen.pair : \E n \in DOMAIN ps : ps[n] = gen.pair[q]
          /\ \A m, n \in DOMAIN ps : m < n => ~PairBefore(ps[n], ps[m])
      BY PairsMade DEF ps
    <3>5. PICK n \in DOMAIN ps : ps[n] = <<c, l>>
      BY <3>3, <3>4
    <3>6. ps[n][1] = c /\ ps[n][2] = l
      BY <3>5
    <3>7. ASSUME NEW f \in DOMAIN ps, f <= n, ps[f][1] = c PROVE ps[f][2] = l
      <4>1. f \in Nat /\ n \in Nat
        BY <3>4
      <4>2. CASE f = n
        BY <3>6, <4>2
      <4>3. CASE f < n
        <5>1. ~PairBefore(ps[n], ps[f])
          BY <3>4, <4>3
        <5>2. Authoritative(ps[n])
          BY <2>2, <3>6 DEF Authoritative, l
        <5>3. Authoritative(ps[f])
          BY <3>6, <3>7, <5>1, <5>2 DEF PairBefore
        <5> QED BY <3>7, <5>3 DEF Authoritative, l
      <4> QED BY <3>7, <4>1, <4>2, <4>3
    <3>8. /\ ps[n][2 - 1] = c
          /\ \A f \in DOMAIN ps : f <= n /\ ps[f][2 - 1] = c => ps[f][1 + 1] = l
      BY <3>6, <3>7
    <3>9. Header!Answer(c, 1) = l
      BY <1>5, <3>8, PairAnswer
    <3> QED BY <2>2, <3>9 DEF Given, l
  <2> QED BY <2>1, <2>2
<1> QED BY <1>3, <1>4, <1>5

(* The uppercase of a letter with no entry is in a pair, and no pair of it *)
(* has an earlier one.                                                     *)
LEMMA UppercasePair ==
    ASSUME GInv, HInv, Done, gen.lost = {}, NEW c \in Codes, Settled(c, 0), c \in DOMAIN lower,
           Header!Hits(out.case, c, 0) = {}, Header!Hits(out.casel, c, 0) = {}
    PROVE  /\ \E k \in DOMAIN gen.pair : gen.pair[k] = <<lower[c], c>>
           /\ \A k \in DOMAIN gen.pair : gen.pair[k][2] = c => lower[c] <= gen.pair[k][1]
<1>1. c \in Nat /\ c < Word - 1 /\ lower[c] \in Nat
  <2>1. lower[c] \in Codes
    BY DEF HInv, FileFits
  <2> QED BY <2>1, CasedFits DEF HInv
<1>2. Capitals(c) \subseteq Nat
  BY DEF Capitals, GInv, FileOK
<1>3. \A k \in DOMAIN gen.pair : gen.pair[k][2] = c =>
         gen.pair[k][1] \in Capitals(c) \/ gen.pair[k][1] = lower[c]
  BY DEF HInv, PairsOfFile, Maps, MapsBack, Capitals
<1>4. CASE Capitals(c) = {}
  <2>1. c \in OneWay(upper, lower)
    BY <1>4 DEF OneWay, Capitals
  <2>2. \E k \in DOMAIN gen.pair : gen.pair[k] = <<lower[c], c>>
    BY <2>1 DEF HInv, ExtrasKept, Done
  <2>3. \A k \in DOMAIN gen.pair : gen.pair[k][2] = c => lower[c] <= gen.pair[k][1]
    BY <1>1, <1>3, <1>4
  <2> QED BY <2>2, <2>3
<1>5. CASE Capitals(c) # {}
  <2> DEFINE u == lower[c]
  <2>1. u = Least(Capitals(c))
    BY <1>5 DEF Settled
  <2>2. u \in Capitals(c) /\ \A d \in Capitals(c) : u <= d
    BY <1>2, <1>5, <2>1, LeastIs
  <2>3. u \in DOMAIN upper /\ upper[u] = c
    BY <2>2 DEF Capitals
  <2>4. Kept(u, c)
    BY <2>3 DEF GInv, NoneForgotten, Pending, Done
  <2>5. ASSUME NEW k \in DOMAIN gen.map, InEntry(gen.map[k], u, c) PROVE FALSE
    <3>1. Header!Covers(AsEntry(gen.map[k]), c, 0)
      BY <1>1, <2>5, MapPlaced, CoversLower
    <3> QED BY <3>1, EntryHit
  <2>6. \E k \in DOMAIN gen.pair : gen.pair[k] = <<u, c>>
    BY <2>4, <2>5 DEF Kept
  <2>7. u <= u
    BY <1>1
  <2> QED BY <1>3, <2>2, <2>6, <2>7
<1> QED BY <1>4, <1>5

(* The header uppers like the file.                                        *)
LEMMA AnswerDown ==
    ASSUME GInv, HInv, Done, gen.lost = {}, ~Truncated, NEW c \in Codes, Settled(c, 0)
    PROVE  Header!Answer(c, 0) = Given(c, 0)
<1>1. FromMap(out.case) /\ FromMap(out.casel)
  BY TablesMade
<1>2. CASE Header!Hits(out.case, c, 0) # {}
  BY <1>1, <1>2, TableAnswer DEF Header!Answer
<1>3. CASE Header!Hits(out.case, c, 0) = {} /\ Header!Hits(out.casel, c, 0) # {}
  BY <1>1, <1>3, TableAnswer DEF Header!Answer
<1>4. CASE Header!Hits(out.case, c, 0) = {} /\ Header!Hits(out.casel, c, 0) = {}
  <2>1. CASE c \notin DOMAIN lower
    <3>1. \A k \in DOMAIN gen.pair : gen.pair[k][2] # c
      BY <2>1, PairOfCase
    <3>2. \A k \in DOMAIN gen.pair : gen.pair[k][2 - 0] # c
      BY <3>1
    <3>3. Header!Answer(c, 0) = c
      BY <1>4, <3>2, NoAnswer
    <3> QED BY <2>1, <3>3 DEF Given
  <2>2. CASE c \in DOMAIN lower
    <3> DEFINE u == lower[c]
    <3>1. /\ \E k \in DOMAIN gen.pair : gen.pair[k] = <<u, c>>
          /\ \A k \in DOMAIN gen.pair : gen.pair[k][2] = c => u <= gen.pair[k][1]
      BY <1>4, <2>2, UppercasePair
    <3>2. u \in Nat
      BY <2>2 DEF GInv, FileOK
    <3> HIDE DEF u
    <3>3. /\ ps \in Seq(Nat \X Nat)
          /\ \A n \in DOMAIN ps : \E k \in DOMAIN gen.pair : ps[n] = gen.pair[k]
          /\ \A k \in DOMAIN gen.pair : \E n \in DOMAIN ps : ps[n] = gen.pair[k]
          /\ \A m, n \in DOMAIN ps : m < n => ~PairBefore(ps[n], ps[m])
      BY PairsMade DEF ps
    <3>4. PICK n \in DOMAIN ps : ps[n] = <<u, c>>
      BY <3>1, <3>3
    <3>5. ps[n][1] = u /\ ps[n][2] = c
      BY <3>4
    <3>6. ASSUME NEW f \in DOMAIN ps, f <= n, ps[f][2] = c PROVE ps[f][1] = u
      <4>1. f \in Nat /\ n \in Nat /\ ps[f] \in Nat \X Nat
        BY <3>3
      <4>2. u <= ps[f][1] /\ ps[f][1] \in Nat
        BY <3>1, <3>3, <3>6, <4>1
      <4>3. CASE f = n
        BY <3>5, <4>3
      <4>4. CASE f < n
        <5>1. ~PairBefore(ps[n], ps[f])
          BY <3>3, <4>4
        <5>2. ~(u < ps[f][1])
          BY <3>5, <5>1 DEF PairBefore
        <5> QED BY <3>2, <4>2, <5>2
      <4> QED BY <3>6, <4>1, <4>3, <4>4
    <3>7. /\ ps[n][2 - 0] = c
          /\ \A f \in DOMAIN ps : f <= n /\ ps[f][2 - 0] = c => ps[f][1 + 0] = u
      BY <3>5, <3>6
    <3>8. Header!Answer(c, 0) = u
      BY <1>4, <3>7, PairAnswer
    <3> QED BY <2>2, <3>8 DEF Given, u
  <2> QED BY <2>1, <2>2
<1> QED BY <1>2, <1>3, <1>4

-----------------------------------------------------------------------------
(* Nothing that is excluded has an entry or a pair.                        *)
LEMMA CasedHits ==
    ASSUME GInv, HInv, Done, ~Truncated, NEW c \in Codes, Settled(c, 0), Settled(c, 1),
           c \notin Cased, NEW low \in {0, 1}
    PROVE  /\ Header!Hits(out.case, c, low) = {}
           /\ Header!Hits(out.casel, c, low) = {}
           /\ Header!PairHits(c, low) = {}
<1>1. FromMap(out.case) /\ FromMap(out.casel)
  BY TablesMade
<1>2. ASSUME NEW t, FromMap(t) PROVE Header!Hits(t, c, low) = {}
  <2>1. \A n \in DOMAIN t : ~Header!Covers(t[n], c, 0)
    BY <1>2, TableDown
  <2>2. \A n \in DOMAIN t : ~Header!Covers(t[n], c, 1)
    BY <1>2, TableUp DEF Settled, Cased
  <2> QED BY <2>1, <2>2 DEF Header!Hits
<1>3. c \notin DOMAIN upper /\ c \notin DOMAIN lower
  BY DEF Cased
<1>4. \A n \in DOMAIN ps : \E k \in DOMAIN gen.pair : ps[n] = gen.pair[k]
  BY PairsMade DEF ps
<1>5. \A n \in DOMAIN ps : ps[n][1] # c /\ ps[n][2] # c
  BY <1>3, <1>4, PairOfCase
<1>6. Header!PairHits(c, low) = {}
  <2>1. 2 - low = 1 \/ 2 - low = 2
    OBVIOUS
  <2> QED BY <1>5, <2>1 DEF Header!PairHits, Header!PairMatches, ps
<1> QED BY <1>1, <1>2, <1>6

(* So no exclusion hides a letter that has an answer.                      *)
LEMMA ExclusionsSound ==
    ASSUME GInv, HInv, Done, ~Truncated, NEW c \in Codes, Settled(c, 0), Settled(c, 1)
    PROVE  Header!ExclusionSound(c)
<1> SUFFICES ASSUME Header!Excluded(c), NEW low \in {0, 1}
             PROVE  /\ Header!Hits(out.case, c, low) = {}
                    /\ Header!Hits(out.casel, c, low) = {}
                    /\ Header!PairHits(c, low) = {}
  BY DEF Header!ExclusionSound
<1>1. c \notin Cased
  BY ExcludedUncased
<1> QED BY <1>1, CasedHits

(* The header says what the file says.                                     *)
LEMMA DoneExact == GInv /\ HInv => TablesExact
<1> SUFFICES ASSUME GInv, HInv, Done, gen.lost = {}, ~Truncated,
                    NEW c \in Codes, NEW low \in {0, 1}, Settled(c, low)
             PROVE  Looked(c, low) = Given(c, low)
  BY DEF TablesExact
<1>1. CASE Header!Excluded(c)
  <2>1. c \notin Cased
    BY <1>1, ExcludedUncased
  <2> QED BY <1>1, <2>1 DEF Looked, Given, Cased
<1>2. CASE ~Header!Excluded(c)
  <2>1. Header!Answer(c, low) = Given(c, low)
    <3>1. CASE low = 1
      BY <3>1, AnswerUp
    <3>2. CASE low = 0
      BY <3>2, AnswerDown
    <3> QED BY <3>1, <3>2
  <2> QED BY <1>2, <2>1 DEF Looked
<1> QED BY <1>1, <1>2

-----------------------------------------------------------------------------
(* The tables are in order, and their entries apart.                       *)

(* A code point that two entries cover, in whatever way, is in both, which *)
(* are one.                                                                *)
LEMMA CoveredOnce ==
    ASSUME GInv, HInv, NEW x \in Codes, NEW low \in {0, 1}, Settled(x, low),
           NEW k \in DOMAIN gen.map, NEW l \in DOMAIN gen.map,
           Header!Covers(AsEntry(gen.map[k]), x, low),
           Header!Covers(AsEntry(gen.map[l]), x, low)
    PROVE  k = l
<1>1. x \in Nat /\ x < Word - 1
  BY CasedFits DEF HInv
<1>2. ASSUME NEW j \in DOMAIN gen.map, Header!Covers(AsEntry(gen.map[j]), x, low)
      PROVE  \/ Claims(gen.map[j], x)
             \/ \E u \in Nat : InEntry(gen.map[j], u, x) /\ (low = 1 => u = x - 1)
  <2>1. Placed(gen.map[j])
    BY MapPlaced
  <2>2. CASE low = 1
    BY <1>1, <1>2, <2>1, <2>2, CoversUpper
  <2>3. CASE low = 0
    BY <1>1, <1>2, <2>1, <2>3, CoversLower
  <2> QED BY <2>2, <2>3
<1>3. \A c \in Nat : Claims(gen.map[k], c) /\ Claims(gen.map[l], c) => k = l
  BY DEF HInv, ClaimedOnce
<1>4. ASSUME NEW i \in DOMAIN gen.map, NEW j \in DOMAIN gen.map, Claims(gen.map[i], x),
             NEW u \in Nat, InEntry(gen.map[j], u, x)
      PROVE  FALSE
  <2>1. x \in DOMAIN upper
    BY <1>1, <1>4, CapitalsAre DEF Maps
  <2>2. u \in Capitals(x)
    BY <1>1, <1>4, CapitalsAre
  <2> QED BY <2>1, <2>2 DEF Settled
<1>5. ASSUME NEW u \in Nat, NEW v \in Nat,
             InEntry(gen.map[k], u, x), InEntry(gen.map[l], v, x),
             low = 1 => u = v
      PROVE  k = l
  <2>1. /\ u \in Capitals(x) /\ Claims(gen.map[k], u)
        /\ v \in Capitals(x) /\ Claims(gen.map[l], v)
    BY <1>1, <1>5, CapitalsAre
  <2>2. u = v
    BY <1>5, <2>1 DEF Usurped, Settled
  <2> QED BY <1>3, <2>1, <2>2
<1> QED BY <1>1, <1>2, <1>3, <1>4, <1>5

(* The first code point an entry covers is one of the file.                *)
LEMMA BaseCovered ==
    ASSUME GInv, HInv, NEW k \in DOMAIN gen.map, NEW low \in {0, 1}
    PROVE  LET e == AsEntry(gen.map[k]) IN
           /\ Header!Base(e, low) \in Codes
           /\ Header!Covers(e, Header!Base(e, low), low)
<1> DEFINE m == gen.map[k]
           e == AsEntry(m)
           b == Header!Base(e, low)
<1>1. Placed(m)
  BY MapPlaced
<1>2. m[1] \in Nat /\ InEntry(m, m[1], m[1] + Delta(m))
  <2>1. (m[1] - m[1]) % 2 = 0 /\ m[1] <= m[1] /\ m[1] <= m[2]
    BY <1>1 DEF Placed
  <2> QED BY <1>1, <2>1 DEF InEntry, Placed
<1>3. m[1] \in Codes /\ m[1] + Delta(m) \in Codes
  <2>1. EntryOK(m)
    BY DEF GInv, GenOK
  <2>2. Maps(m[1], m[1] + Delta(m))
    BY <1>2, <2>1 DEF EntryOK
  <2> QED BY <2>2 DEF Maps, HInv, FileFits
<1>4. /\ e.upper = m[1] /\ e.lower = Delta(m)
      /\ e \in [upper : Nat, lower : Int, len : Nat] /\ e.len >= 1
      /\ e.upper + e.len < Word /\ e.upper + e.lower + e.len <= Word
  BY <1>1, EntryLength
<1> HIDE DEF m, e
<1>5. b \in Codes
  BY <1>3, <1>4 DEF Header!Base
<1>6. b \in Nat /\ b < Word /\ b + e.len <= Word /\ e.len \in Nat
  <2>1. b \in Nat /\ b < Word - 1
    BY <1>5, CasedFits DEF HInv
  <2>2. Word \in Nat
    BY UcdOK
  <2>3. b + e.len <= Word
    BY <1>4, <2>2 DEF Header!Base
  <2> QED BY <1>4, <2>1, <2>2, <2>3
<1> HIDE DEF b
<1>7. Header!Within(b, b, e.len)
  BY <1>4, <1>6, WithinIs
<1>8. Header!Covers(e, b, low)
  BY <1>7 DEF Header!Covers, b
<1> QED BY <1>5, <1>8 DEF b, e, m

(* An entry that begins with a settled code point does not begin within    *)
(* another one.                                                            *)
LEMMA EntriesApart ==
    ASSUME GInv, HInv, NEW low \in {0, 1},
           NEW k \in DOMAIN gen.map, NEW l \in DOMAIN gen.map, k # l,
           NEW d, d = AsEntry(gen.map[k]), NEW e, e = AsEntry(gen.map[l]),
           Header!Base(d, low) <= Header!Base(e, low), Settled(Header!Base(e, low), low)
    PROVE  Header!Base(d, low) + d.len <= Header!Base(e, low)
<1> DEFINE a == Header!Base(d, low)
           b == Header!Base(e, low)
<1>1. a \in Codes /\ b \in Codes /\ Header!Covers(e, b, low)
  BY BaseCovered
<1>2. a \in Nat /\ b \in Nat /\ b < Word
  <2> HIDE DEF a, b
  <2>1. Word \in Nat /\ Codes \subseteq 0 .. Word - 2
    BY UcdOK
  <2>2. a \in 0 .. Word - 2 /\ b \in 0 .. Word - 2
    BY <1>1, <2>1
  <2> QED BY <2>1, <2>2
<1>3. d.len \in Nat /\ a + d.len <= Word
  <2>1. /\ d \in [upper : Nat, lower : Int, len : Nat]
        /\ d.upper + d.len < Word /\ d.upper + d.lower + d.len <= Word
    BY MapPlaced, EntryLength
  <2>2. Word \in Nat
    BY UcdOK
  <2> QED BY <2>1, <2>2 DEF Header!Base
<1>4. ~(b < a + d.len)
  <2> SUFFICES ASSUME b < a + d.len PROVE FALSE
    OBVIOUS
  <2>1. a <= b
    OBVIOUS
  <2> HIDE DEF a, b
  <2>2. Header!Within(b, a, d.len)
    BY <1>2, <1>3, <2>1, WithinIs
  <2>3. Header!Covers(d, b, low)
    BY <2>2 DEF Header!Covers, a
  <2>4. Settled(b, low)
    BY DEF b
  <2> QED BY <1>1, <2>3, <2>4, CoveredOnce
<1> HIDE DEF a, b
<1>5. a + d.len <= b
  BY <1>2, <1>3, <1>4
<1> QED BY <1>5 DEF a, b

(* Two entries of a table are two of @map.                                 *)
LEMMA TwoOfMap ==
    ASSUME NEW t, FromMap(t), NEW i \in DOMAIN t, NEW j \in DOMAIN t, i # j
    PROVE  \E k, l \in DOMAIN gen.map :
              k # l /\ t[i] = AsEntry(gen.map[k]) /\ t[j] = AsEntry(gen.map[l])
<1>1. t \in Seq(Entries)
  BY DEF FromMap
<1>2. i < j \/ j < i
  BY <1>1
<1>3. TwoEntries(t, i, j) \/ TwoEntries(t, j, i)
  BY <1>2 DEF FromMap
<1> QED BY <1>3 DEF TwoEntries

(* So in an order of where they begin, the entries of a table can be       *)
(* bisected.                                                               *)
LEMMA TableBisectable ==
    ASSUME GInv, HInv, NEW t, FromMap(t), NEW low \in {0, 1}, NEW key \in Seq(Nat),
           Len(key) = Len(t), \A k \in DOMAIN t : key[k] = Header!Base(t[k], low),
           NEW order, SortsBy(order, key)
    PROVE  Bisectable(t, order, low)
<1> SUFFICES ASSUME NEW j \in DOMAIN t, NEW k \in DOMAIN t, j < k
             PROVE  LET a == Header!Base(t[order[j]], low)
                        b == Header!Base(t[order[k]], low)
                    IN  a <= b /\ (Settled(b, low) => a + t[order[j]].len <= b)
  BY DEF Bisectable
<1>1. DOMAIN t = 1 .. Len(key) /\ j \in Nat /\ k \in Nat
  <2>1. t \in Seq(Entries)
    BY DEF FromMap
  <2> QED BY <2>1
<1>2. order[j] \in DOMAIN t /\ order[k] \in DOMAIN t
  BY <1>1 DEF SortsBy
<1>3. order[j] # order[k]
  <2>1. j # k
    BY <1>1
  <2> QED BY <1>1, <2>1 DEF SortsBy
<1>4. key[order[j]] <= key[order[k]]
  BY <1>1 DEF SortsBy
<1>5. Header!Base(t[order[j]], low) <= Header!Base(t[order[k]], low)
  BY <1>2, <1>4
<1>6. PICK m \in DOMAIN gen.map, n \in DOMAIN gen.map :
         /\ m # n /\ t[order[j]] = AsEntry(gen.map[m])
         /\ t[order[k]] = AsEntry(gen.map[n])
  <2>1. PICK x, y : x = order[j] /\ y = order[k]
    OBVIOUS
  <2>2. x \in DOMAIN t /\ y \in DOMAIN t /\ x # y
    BY <1>2, <1>3, <2>1
  <2>3. \E m, n \in DOMAIN gen.map :
           m # n /\ t[x] = AsEntry(gen.map[m]) /\ t[y] = AsEntry(gen.map[n])
    BY <2>2, TwoOfMap
  <2> QED BY <2>1, <2>3
<1>7. Settled(Header!Base(t[order[k]], low), low) =>
         Header!Base(t[order[j]], low) + t[order[j]].len <= Header!Base(t[order[k]], low)
  BY <1>5, <1>6, EntriesApart
<1> QED BY <1>5, <1>7

(* A table is in order, and what it holds stays inside the code space.     *)
LEMMA TableInOrder ==
    ASSUME GInv, HInv, NEW t, FromMap(t)
    PROVE  Header!TableOK(t)
<1>1. t \in Seq([upper : Nat, lower : Int, len : Nat])
  BY DEF FromMap, Entries
<1>2. ASSUME NEW n \in DOMAIN t PROVE Header!Entry(t[n])
  <2>1. PICK k \in DOMAIN gen.map : t[n] = AsEntry(gen.map[k])
    BY DEF FromMap
  <2> DEFINE e == AsEntry(gen.map[k])
  <2>2. /\ e \in [upper : Nat, lower : Int, len : Nat]
        /\ e.upper + e.lower \in Nat
        /\ e.upper + e.len < Word /\ e.upper + e.lower + e.len <= Word
    BY MapPlaced, EntryLength
  <2> HIDE DEF e
  <2>3. Header!Entry(e)
    BY <2>2 DEF Header!Entry
  <2> QED BY <2>1, <2>3 DEF e
<1>3. ASSUME NEW i \in DOMAIN t, NEW j \in DOMAIN t, i < j
      PROVE  t[i].upper <= t[j].upper
  <2>1. TwoEntries(t, i, j)
    BY <1>3 DEF FromMap
  <2> QED BY <2>1 DEF TwoEntries, AsEntry
<1> QED BY <1>1, <1>2, <1>3 DEF Header!TableOK, Header!SortedByUpper

(* The pairs are code points in order.                                     *)
LEMMA PairsInOrder ==
    ASSUME GInv, HInv, Done, ~Truncated
    PROVE  Header!PairsOK
<1>1. /\ ps \in Seq(Nat \X Nat)
      /\ \A n \in DOMAIN ps : \E k \in DOMAIN gen.pair : ps[n] = gen.pair[k]
      /\ \A m, n \in DOMAIN ps : m < n => ~PairBefore(ps[n], ps[m])
  BY PairsMade DEF ps
<1>2. ASSUME NEW n \in DOMAIN ps
      PROVE  ps[n][1] \in Nat /\ ps[n] \in Header!CodePoint \X Header!CodePoint
  <2>1. PICK k \in DOMAIN gen.pair : ps[n] = gen.pair[k]
    BY <1>1
  <2>2. gen.pair[k][1] \in Codes /\ gen.pair[k][2] \in Codes
    BY DEF HInv, PairsOfFile, FileFits, Maps, MapsBack
  <2>3. \A c \in Codes : c \in Header!CodePoint
    <3>1. Word \in Nat /\ Codes \subseteq 0 .. Word - 2
      BY UcdOK
    <3> QED BY <3>1 DEF Header!CodePoint
  <2>4. ps[n] \in Nat \X Nat
    BY <1>1
  <2> QED BY <2>1, <2>2, <2>3, <2>4
<1>3. ps \in Seq(Header!CodePoint \X Header!CodePoint)
  <2>1. Len(ps) \in Nat /\ ps \in [1 .. Len(ps) -> Nat \X Nat]
    BY <1>1
  <2>2. ps \in [1 .. Len(ps) -> Header!CodePoint \X Header!CodePoint]
    BY <1>2, <2>1
  <2> QED BY <2>1, <2>2
<1>4. ASSUME NEW m \in DOMAIN ps, NEW n \in DOMAIN ps, m < n
      PROVE  ps[m][1] <= ps[n][1]
  <2>1. ~(ps[n][1] < ps[m][1])
    BY <1>1, <1>4 DEF PairBefore
  <2>2. ps[m][1] \in Nat /\ ps[n][1] \in Nat
    BY <1>2
  <2> QED BY <2>1, <2>2
<1> QED BY <1>3, <1>4 DEF Header!PairsOK, ps

(* A table with its index table is ready for a bisection.                  *)
BisectReady(t, order) ==
    /\ Header!IndexOf(order, Len(t))
    /\ Bisectable(t, [k \in DOMAIN t |-> k], 1)
    /\ Bisectable(t, order, 0)

(* Sorted by target, it is.                                                *)
LEMMA TargetsReady ==
    ASSUME GInv, HInv, NEW t, FromMap(t)
    PROVE  BisectReady(t, ByTarget(t))
<1> DEFINE n == Len(t)
           same == [k \in DOMAIN t |-> k]
           first == [k \in DOMAIN t |-> t[k].upper]
           target == [k \in DOMAIN t |-> t[k].upper + t[k].lower]
<1>1. t \in Seq(Entries) /\ n \in Nat /\ DOMAIN t = 1 .. n
  <2>1. t \in Seq(Entries)
    BY DEF FromMap
  <2> QED BY <2>1
<1>2. ASSUME NEW k \in DOMAIN t
      PROVE  t[k].upper \in Nat /\ t[k].upper + t[k].lower \in Nat
  <2>1. PICK m \in DOMAIN gen.map : t[k] = AsEntry(gen.map[m])
    BY DEF FromMap
  <2>2. t[k] \in [upper : Nat, lower : Int, len : Nat] /\ t[k].upper + t[k].lower \in Nat
    BY <2>1, MapPlaced, EntryLength
  <2> QED BY <2>2
<1>3. /\ same \in Seq(1 .. n) /\ Len(same) = n /\ \A k \in 1 .. n : same[k] = k
      /\ first \in Seq(Nat) /\ Len(first) = n /\ \A k \in 1 .. n : first[k] = t[k].upper
      /\ target \in Seq(Nat) /\ Len(target) = n
      /\ \A k \in 1 .. n : target[k] = t[k].upper + t[k].lower
  BY <1>1, <1>2
<1>4. ByTarget(t) = Arranged(same, PlacesBy(target))
  BY DEF ByTarget
<1>5. \A j, k \in 1 .. n : j < k => t[j].upper <= t[k].upper
  BY <1>1, TableInOrder DEF Header!TableOK, Header!SortedByUpper
<1> HIDE DEF n, same, first, target
<1>6. SortsBy(ByTarget(t), target)
  <2> DEFINE a == Arranged(same, PlacesBy(target))
  <2>0. PICK S : S = 1 .. n
    OBVIOUS
  <2>1. /\ a \in Seq(S) /\ Len(a) = Len(same)
        /\ \E o : /\ SortsBy(o, target)
                  /\ \A k \in 1 .. Len(same) : a[k] = same[o[k]]
    <3>1. same \in Seq(S) /\ target \in Seq(Nat) /\ Len(target) = Len(same)
      BY <1>3, <2>0
    <3>2. a \in Seq(S) /\ Sorts(a, same, target)
      BY <3>1, ArrangedSorts
    <3> QED BY <3>2 DEF Sorts
  <2> HIDE DEF a
  <2>2. PICK o : SortsBy(o, target) /\ \A k \in 1 .. Len(same) : a[k] = same[o[k]]
    BY <2>1
  <2>3. \A k \in 1 .. n : o[k] \in 1 .. n
    BY <1>3, <2>2 DEF SortsBy
  <2>4. \A k \in 1 .. n : a[k] = o[k]
    BY <1>3, <2>2, <2>3
  <2>5. a \in [1 .. n -> 1 .. n]
    <3>1. a \in [1 .. Len(a) -> S]
      BY <2>1
    <3>2. Len(a) = n
      BY <1>3, <2>1
    <3> QED BY <2>0, <3>1, <3>2
  <2>6. SortsBy(a, target)
    <3>1. Len(target) = n
      BY <1>3
    <3>2. /\ \A k \in 1 .. n : \E m \in 1 .. n : o[m] = k
          /\ \A m, k \in 1 .. n : o[m] = o[k] => m = k
          /\ \A m, k \in 1 .. n : m < k => target[o[m]] <= target[o[k]]
      BY <2>2, <3>1 DEF SortsBy
    <3>3. /\ \A k \in 1 .. n : \E m \in 1 .. n : a[m] = k
          /\ \A m, k \in 1 .. n : a[m] = a[k] => m = k
          /\ \A m, k \in 1 .. n : m < k => target[a[m]] <= target[a[k]]
      BY <2>4, <3>2
    <3> QED BY <2>5, <3>1, <3>3 DEF SortsBy
  <2> QED BY <1>4, <2>6 DEF a
<1>7. SortsBy(same, first)
  <2>1. DOMAIN same = 1 .. n /\ same \in [1 .. n -> 1 .. n]
    BY <1>1, <1>3 DEF same
  <2>2. \A m \in 1 .. n : \E k \in 1 .. n : same[k] = m
    BY <1>3
  <2>3. \A m, k \in 1 .. n : same[m] = same[k] => m = k
    <3> SUFFICES ASSUME NEW m \in 1 .. n, NEW k \in 1 .. n, same[m] = same[k]
                 PROVE  m = k
      OBVIOUS
    <3>1. same[m] = m /\ same[k] = k
      BY <1>3
    <3> QED BY <3>1
  <2>4. \A m, k \in 1 .. n : m < k => first[same[m]] <= first[same[k]]
    <3> SUFFICES ASSUME NEW m \in 1 .. n, NEW k \in 1 .. n, m < k
                 PROVE  first[same[m]] <= first[same[k]]
      OBVIOUS
    <3>1. same[m] = m /\ same[k] = k
      BY <1>3
    <3>2. first[m] = t[m].upper /\ first[k] = t[k].upper
      BY <1>3
    <3> QED BY <1>5, <3>1, <3>2
  <2>5. Len(first) = n
    BY <1>3
  <2> QED BY <2>1, <2>2, <2>3, <2>4, <2>5 DEF SortsBy
<1>8. /\ \A k \in DOMAIN t : first[k] = Header!Base(t[k], 1)
      /\ \A k \in DOMAIN t : target[k] = Header!Base(t[k], 0)
  BY <1>1, <1>3 DEF Header!Base
<1>9. Bisectable(t, same, 1)
  BY <1>3, <1>7, <1>8, TableBisectable DEF n
<1>10. Bisectable(t, ByTarget(t), 0)
  BY <1>3, <1>6, <1>8, TableBisectable DEF n
<1>11. Header!IndexOf(ByTarget(t), n)
  BY <1>3, <1>6 DEF Header!IndexOf, SortsBy
<1> QED BY <1>9, <1>10, <1>11 DEF BisectReady, n, same

(* Pairs that are all different are found again in the table they are the  *)
(* pairs of.                                                               *)
LEMMA LowersReady ==
    ASSUME NEW q \in Seq(Nat \X Nat), \A m, n \in DOMAIN q : q[m] = q[n] => m = n
    PROVE  /\ Header!IndexOf(ByLower(q, q), Len(q))
           /\ Header!SortedByLower(q, ByLower(q, q))
<1> DEFINE n == Len(q)
           key == [k \in DOMAIN q |-> q[k][2]]
           sorted == Arranged(q, PlacesBy(key))
           index == ByLower(q, q)
<1>1. n \in Nat /\ DOMAIN q = 1 .. n
  OBVIOUS
<1>2. key \in Seq(Nat) /\ Len(key) = n /\ \A k \in 1 .. n : key[k] = q[k][2]
  BY <1>1
<1>3. index = [m \in DOMAIN sorted |->
                 Greatest({1} \cup {k \in DOMAIN q : q[k] = sorted[m]})]
  BY DEF ByLower
<1> HIDE DEF key, index
<1>4. /\ sorted \in Seq(Nat \X Nat) /\ Len(sorted) = n
      /\ \E o : SortsBy(o, key) /\ \A k \in 1 .. n : sorted[k] = q[o[k]]
  <2>1. Len(key) = Len(q)
    BY <1>2
  <2> HIDE DEF n
  <2>2. sorted \in Seq(Nat \X Nat) /\ Sorts(sorted, q, key)
    BY <1>2, <2>1, ArrangedSorts
  <2> HIDE DEF sorted
  <2> QED BY <2>2 DEF Sorts, n
<1> HIDE DEF sorted, n
<1>5. PICK o : SortsBy(o, key) /\ \A k \in 1 .. n : sorted[k] = q[o[k]]
  BY <1>4
<1>6. \A k \in 1 .. n : o[k] \in 1 .. n
  BY <1>2, <1>5 DEF SortsBy
<1>7. ASSUME NEW m \in 1 .. n PROVE index[m] = o[m]
  <2> DEFINE S == {1} \cup {k \in DOMAIN q : q[k] = sorted[m]}
  <2>1. S = {1, o[m]}
    BY <1>1, <1>5, <1>6
  <2>2. o[m] \in Nat /\ 1 <= o[m]
    BY <1>1, <1>6
  <2>3. DOMAIN sorted = 1 .. n
    BY <1>1, <1>4
  <2>4. index[m] = Greatest(S)
    BY <1>3, <2>3
  <2> HIDE DEF S
  <2>5. Greatest(S) = o[m]
    BY <2>1, <2>2 DEF Greatest
  <2> QED BY <2>4, <2>5
<1>8. DOMAIN index = 1 .. n
  BY <1>1, <1>3, <1>4
<1>9. index \in [1 .. n -> 1 .. n]
  <2>1. index = [m \in 1 .. n |-> index[m]]
    BY <1>3, <1>8
  <2> QED BY <1>6, <1>7, <2>1
<1>10. Header!IndexOf(index, n)
  <2>1. \A k \in 1 .. n : \E m \in 1 .. n : o[m] = k
    BY <1>2, <1>5 DEF SortsBy
  <2>2. \A k \in 1 .. n : \E m \in 1 .. n : index[m] = k
    BY <1>7, <2>1
  <2> QED BY <1>9, <2>2 DEF Header!IndexOf
<1>11. Header!SortedByLower(q, index)
  <2> SUFFICES ASSUME NEW j \in 1 .. n, NEW k \in 1 .. n, j < k
               PROVE  q[index[j]][2] <= q[index[k]][2]
    BY <1>1 DEF Header!SortedByLower
  <2>1. key[o[j]] <= key[o[k]]
    BY <1>2, <1>5 DEF SortsBy
  <2> QED BY <1>2, <1>6, <1>7, <2>1
<1> QED BY <1>10, <1>11 DEF index, n

(* The header is what the lookups assume of it.                            *)
LEMMA DoneReady == GInv /\ HInv => LookupReady
<1> SUFFICES ASSUME GInv, HInv, Done, ~Truncated
             PROVE  /\ Header!PairsOK
                    /\ Header!TableOK(out.case) /\ Header!TableOK(out.casel)
                    /\ \A c \in Codes :
                          Settled(c, 0) /\ Settled(c, 1) => Header!ExclusionSound(c)
                    /\ BisectReady(out.case, out.caseUpper)
                    /\ BisectReady(out.casel, out.caselUpper)
                    /\ Header!IndexOf(out.pairsUpper, Len(out.pairs))
                    /\ Header!SortedByLower(out.pairs, out.pairsUpper)
                    /\ Header!IndexOf(out.pairlUpper, Len(out.pairl))
                    /\ Header!SortedByLower(out.pairl, out.pairlUpper)
  BY DEF LookupReady, RangeTables, PairTables, BisectReady
<1>1. FromMap(out.case) /\ FromMap(out.casel)
  BY TablesMade
<1>2. Header!TableOK(out.case) /\ Header!TableOK(out.casel)
  BY <1>1, TableInOrder
<1>3. \A c \in Codes : Settled(c, 0) /\ Settled(c, 1) => Header!ExclusionSound(c)
  BY ExclusionsSound
<1>4. out.caseUpper = ByTarget(out.case) /\ out.caselUpper = ByTarget(out.casel)
  BY DEF HInv, Done, Made
<1>5. BisectReady(out.case, out.caseUpper) /\ BisectReady(out.casel, out.caselUpper)
  BY <1>1, <1>4, TargetsReady
<1>6. /\ Header!IndexOf(out.pairsUpper, Len(out.pairs))
      /\ Header!SortedByLower(out.pairs, out.pairsUpper)
      /\ Header!IndexOf(out.pairlUpper, Len(out.pairl))
      /\ Header!SortedByLower(out.pairl, out.pairlUpper)
  BY PairsListed, LowersReady
<1> QED BY <1>2, <1>3, <1>5, <1>6, PairsInOrder

-----------------------------------------------------------------------------
(* Both invariants together are inductive.                                 *)
IInv == GInv /\ HInv

(* They hold in every state.                                               *)
LEMMA IInvAlways == Spec => []IInv
<1>1. Init => IInv
  BY GInvInit, HInvInit DEF IInv
<1>2. IInv /\ [Next]_vars => IInv'
  <2> SUFFICES ASSUME IInv, [Next]_vars PROVE IInv'
    OBVIOUS
  <2>1. GInv'
    BY GInvNext DEF IInv
  <2>2. HInv'
    BY <2>1, HInvNext DEF IInv
  <2> QED BY <2>1, <2>2 DEF IInv
<1> QED BY <1>1, <1>2, PTL DEF Spec

(* As long as nothing was left out or cut short, the tables answer, in     *)
(* each direction, what UnicodeData.txt says of every letter it settles.   *)
THEOREM HeaderExact == Spec => []TablesExact
<1>1. IInv => TablesExact
  BY DoneExact DEF IInv
<1> QED BY <1>1, IInvAlways, PTL

Unopposed == \A c \in DOMAIN upper : ~Opposed(c, upper[c])

(* The file alone decides: where no letter is opposed and no pair is cut   *)
(* short, the header says what UnicodeData.txt says.                       *)
ExactUnlessOpposed ==
    Done /\ ~Truncated /\ Unopposed =>
        \A c \in Codes, low \in {0, 1} :
            Settled(c, low) => Looked(c, low) = Given(c, low)

(* For every file without an opposed letter, as Unicode is, the generated  *)
(* tables answer what the file says: nothing is asked about what           *)
(* add_pair() left out, since then it leaves nothing out.                  *)
THEOREM UnopposedExact == Spec => []ExactUnlessOpposed
<1>1. ASSUME IInv, Unopposed
      PROVE  gen.lost = {}
  <2>1. \A p \in gen.lost : Maps(p[1], p[2]) /\ Opposed(p[1], p[2])
    BY <1>1 DEF IInv, GInv, GenOK
  <2> QED BY <1>1, <2>1 DEF Maps, Unopposed
<1>2. IInv => TablesExact
  BY DoneExact DEF IInv
<1>3. IInv => ExactUnlessOpposed
  BY <1>1, <1>2, Zenon DEF TablesExact, ExactUnlessOpposed
<1> QED BY <1>3, IInvAlways, PTL

(* What a lookup relies on holds of every header: tables and pairs in      *)
(* order and inside the code space, index tables that hold every entry     *)
(* once and in the order of their direction, no entry that begins at a     *)
(* settled letter inside another, and no exclusion of a code point that    *)
(* has an entry.                                                           *)
THEOREM HeaderReady == Spec => []LookupReady
<1>1. IInv => LookupReady
  BY DoneReady DEF IInv
<1> QED BY <1>1, IInvAlways, PTL

-----------------------------------------------------------------------------
(* What a bisection assumes of the ranges of the header.                   *)

StartsSettled(table, low) ==
    \A k \in DOMAIN table : Settled(Header!Base(table[k], low), low)

RangesBisectable ==
    Done /\ ~Truncated =>
        \A t \in RangeTables :
            /\ StartsSettled(t[1], 1) => Header!Successive(t[1])
            /\ StartsSettled(t[1], 0) => Header!SuccessiveTargets(t[1], t[2])

(* An entry of a table is not empty, and begins at a number.               *)
LEMMA EntrySpan ==
    ASSUME GInv, HInv, NEW t, FromMap(t), NEW k \in DOMAIN t, NEW low \in {0, 1}
    PROVE  t[k].len \in Nat /\ t[k].len > 0 /\ Header!Base(t[k], low) \in Nat
<1>1. PICK m \in DOMAIN gen.map : t[k] = AsEntry(gen.map[m])
  BY DEF FromMap
<1> DEFINE e == AsEntry(gen.map[m])
<1>2. /\ e \in [upper : Nat, lower : Int, len : Nat]
      /\ e.upper + e.lower \in Nat /\ e.len >= 1
  BY MapPlaced, EntryLength
<1> HIDE DEF e
<1>3. e.len \in Nat /\ e.len > 0 /\ Header!Base(e, low) \in Nat
  BY <1>2 DEF Header!Base
<1> QED BY <1>1, <1>3 DEF e

(* A table in which no entry begins at an unsettled code point can be      *)
(* bisected as it is, and by its index table.                              *)
LEMMA TableSuccessive ==
    ASSUME GInv, HInv, NEW t, FromMap(t), NEW order, BisectReady(t, order)
    PROVE  /\ StartsSettled(t, 1) => Header!Successive(t)
           /\ StartsSettled(t, 0) => Header!SuccessiveTargets(t, order)
<1>1. DOMAIN t = 1 .. Len(t)
  <2>1. t \in Seq(Entries)
    BY DEF FromMap
  <2> QED BY <2>1
<1>2. ASSUME StartsSettled(t, 1) PROVE Header!Successive(t)
  <2>1. ASSUME NEW j \in DOMAIN t, NEW k \in DOMAIN t, j < k
        PROVE  t[j].upper + t[j].len <= t[k].upper
    <3>1. Settled(Header!Base(t[k], 1), 1)
      BY <1>2 DEF StartsSettled
    <3>2. PICK same : same = [l \in DOMAIN t |-> l]
      OBVIOUS
    <3>3. Bisectable(t, same, 1) /\ same[j] = j /\ same[k] = k
      BY <3>2 DEF BisectReady
    <3>4. Header!Base(t[j], 1) + t[j].len <= Header!Base(t[k], 1)
      BY <2>1, <3>1, <3>3 DEF Bisectable
    <3> QED BY <3>4 DEF Header!Base
  <2>2. \A k \in DOMAIN t : t[k].len > 0
    BY EntrySpan
  <2> QED BY <2>1, <2>2 DEF Header!Successive
<1>3. ASSUME StartsSettled(t, 0) PROVE Header!SuccessiveTargets(t, order)
  <2>1. Header!IndexOf(order, Len(t))
    BY DEF BisectReady
  <2>2. ASSUME NEW j \in DOMAIN t, NEW k \in DOMAIN t, j < k
        PROVE  Header!EntryLast(t[order[j]]) < Header!Base(t[order[k]], 0)
    <3>1. PICK x, y : x = order[j] /\ y = order[k]
      OBVIOUS
    <3>2. x \in DOMAIN t /\ y \in DOMAIN t
      BY <1>1, <2>1, <3>1 DEF Header!IndexOf
    <3>3. Settled(Header!Base(t[y], 0), 0)
      BY <1>3, <3>2 DEF StartsSettled
    <3>4. Header!Base(t[x], 0) + t[x].len <= Header!Base(t[y], 0)
      BY <2>2, <3>1, <3>3 DEF BisectReady, Bisectable
    <3>5. /\ t[x].len \in Nat /\ Header!Base(t[x], 0) \in Nat
          /\ Header!Base(t[y], 0) \in Nat
      BY <3>2, EntrySpan
    <3>6. Header!EntryLast(t[x]) < Header!Base(t[y], 0)
      <4>1. PICK a, b, n : /\ a = Header!Base(t[x], 0) /\ n = t[x].len
                           /\ b = Header!Base(t[y], 0)
        OBVIOUS
      <4>2. Header!EntryLast(t[x]) = a + n - 1
        BY <4>1 DEF Header!EntryLast
      <4> QED BY <3>4, <3>5, <4>1, <4>2
    <3> QED BY <3>1, <3>6
  <2> QED BY <2>1, <2>2 DEF Header!SuccessiveTargets
<1> QED BY <1>2, <1>3

(* Of every header: ranges that begin at settled code points only lie one  *)
(* after the other, those to lower as listed and those to upper in the     *)
(* order of the index table, which is what the bisections of               *)
(* TowcaseBsearch assume.                                                  *)
THEOREM HeaderBisects == Spec => []RangesBisectable
<1>1. IInv => RangesBisectable
  <2> SUFFICES ASSUME GInv, HInv, Done, ~Truncated
               PROVE  \A t \in RangeTables :
                         /\ StartsSettled(t[1], 1) => Header!Successive(t[1])
                         /\ StartsSettled(t[1], 0) =>
                               Header!SuccessiveTargets(t[1], t[2])
    BY DEF IInv, RangesBisectable
  <2>1. FromMap(out.case) /\ FromMap(out.casel)
    BY TablesMade
  <2>2. BisectReady(out.case, out.caseUpper) /\ BisectReady(out.casel, out.caselUpper)
    <3>1. /\ out.caseUpper = ByTarget(out.case)
          /\ out.caselUpper = ByTarget(out.casel)
      BY DEF HInv, Done, Made
    <3> QED BY <2>1, <3>1, TargetsReady
  <2> QED BY <2>1, <2>2, TableSuccessive DEF RangeTables
<1> QED BY <1>1, IInvAlways, PTL
=============================================================================
