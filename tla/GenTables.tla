----------------------------- MODULE GenTables -----------------------------
(***************************************************************************)
(* How bin/gen_wctrans turns the simple case mappings of UnicodeData.txt   *)
(* into casemaps[], casemapsl[], pairs[] and the exclusion test.  It scans *)
(* the uppercase code points once, in order.  Every mapping extends the    *)
(* last range or lace, starts a new one, or becomes a pair; a range or     *)
(* lace that stayed at one code point is taken back and becomes a pair     *)
(* when the next one starts.  A pair that the tables built so far seem to  *)
(* cover is left out.                                                      *)
(*                                                                         *)
(* An entry of @map is <<first, last, lower of first>>, a range, or        *)
(* <<first, lower of last>>, a lace.                                       *)
(***************************************************************************)
EXTENDS Integers, Sequences, FiniteSets, SequencesExt

CONSTANTS
    Codes,            \* the code points looked up
    Ucd,              \* the UnicodeData.txt files to generate from
    Word,             \* 2^32
    MaxUpper, MaxLower, MaxLen,    \* the fields of a casemaps[] entry
    MaxShort,         \* 2^16 - 1: pairs[] holds unsigned shorts
    MinExcl           \* --min-excl

VARIABLES
    upper,            \* uppercase -> lowercase, field 13 of UnicodeData.txt
    lower,            \* lowercase -> uppercase, field 12
    todo,             \* the keys of %upper, or of %lower, still to scan
    prev,             \* the code point scanned last
    gen,              \* [map, pair, lost]: @map, @pair, the pairs left out
    out,              \* the tables in the header
    phase

(* Code points are far below 2^32, and a file has finitely many letters.   *)
ASSUME UcdOK ==
    /\ Word \in Nat /\ MaxShort \in Nat
    /\ Codes \subseteq 0 .. Word - 2
    /\ \A u \in Ucd : \A f \in {u.upper, u.lower} :
          /\ IsFiniteSet(DOMAIN f)
          /\ \A c \in DOMAIN f : c \in Codes /\ f[c] \in Codes

vars == <<upper, lower, todo, prev, gen, out, phase>>

Least(S) == CHOOSE c \in S : \A d \in S : c <= d
Greatest(S) == CHOOSE c \in S : \A d \in S : d <= c

-----------------------------------------------------------------------------
(* Entries of @map. *)

IsLace(m) == Len(m) = 2

Delta(m) == IF IsLace(m) THEN 1 ELSE m[3] - m[1]

(* The position of the last range (n = 3) or lace (n = 2), or 0. *)
LastOf(map, n) ==
    Greatest({0} \cup {k \in DOMAIN map : Len(map[k]) = n})

AsRange(m) == IF IsLace(m) THEN <<m[1], m[2], m[1] + 1>> ELSE m

(* map_clashes(): the first and its lowercase lie within the reach of the  *)
(* second.                                                                 *)
Clashes(m, l) ==
    LET r == AsRange(l) IN
    /\ AsRange(m)[1] >= r[1]
    /\ AsRange(m)[3] <= r[2] + (r[2] - r[1] + 1)

-----------------------------------------------------------------------------
(* simulate(): the lookup over @map and @pair as they are, in the order    *)
(* they were made.  Perl subtracts without wrapping, so a range matches    *)
(* everything below its end; a negative distance masked by -1 is near      *)
(* 2^64, so such a range matches everything when uppering.                 *)

SimLen(m) == IF IsLace(m) THEN m[2] - m[1] ELSE m[2] - m[1] + 1

SimMatches(m, c, low) ==
    IF low = 1 THEN c - m[1] < SimLen(m)
    ELSE Delta(m) < 0 \/ c - (m[1] + Delta(m)) < SimLen(m)

SimMapHits(g, c, low) == {k \in DOMAIN g.map : SimMatches(g.map[k], c, low)}

(* Lowering stops at the first pair beyond c. *)
SimPairHits(g, c, low) ==
    {k \in DOMAIN g.pair :
        /\ g.pair[k][2 - low] = c
        /\ low = 1 => \A j \in 1 .. k - 1 : g.pair[j][1] <= c}

Simulate(g, c, low) ==
    IF SimMapHits(g, c, low) # {}
    THEN c + (2 * low - 1) * Delta(g.map[Least(SimMapHits(g, c, low))])
    ELSE IF SimPairHits(g, c, low) # {}
    THEN g.pair[Least(SimPairHits(g, c, low))][1 + low]
    ELSE c

-----------------------------------------------------------------------------
(* add_pair(), add_map() and add_lace(). *)

(* Mutant: a letter that has any answer already needs no pair.             *)
NeededUnanswered(g, base, to) ==
    Simulate(g, base, 0) = base /\ Simulate(g, to, 1) = to

Needed(g, base, to) == Simulate(g, base, 0) # to /\ Simulate(g, to, 1) # base

AddPair(g, base, to) ==
    IF Needed(g, base, to)
    THEN [g EXCEPT !.pair = Append(@, <<base, to>>)]
    ELSE [g EXCEPT !.lost = @ \cup {<<base, to>>}]

WithMap(g, map) == [map |-> map, pair |-> g.pair, lost |-> g.lost]

PutEntry(g, k, m) == WithMap(g, [g.map EXCEPT ![k] = m])

NewEntry(g, m) == WithMap(g, Append(g.map, m))

AddMap(g, base, to) ==
    LET k == LastOf(g.map, 3)
        m == g.map[k]
        l == LastOf(g.map, 2)
    IN  IF k # 0 /\ m[2] = base - 1 /\ to - base = Delta(m)
        THEN PutEntry(g, k, <<m[1], base, m[3]>>)
        ELSE IF k # 0 /\ m[1] = m[2]
        THEN PutEntry(AddPair(g, m[1], m[3]), k, <<base, base, to>>)
        ELSE IF to - base = 1 /\ l # 0 /\ Clashes(<<base, base, to>>, g.map[l])
        THEN AddPair(g, base, to)
        ELSE NewEntry(g, <<base, base, to>>)

AddLace(g, base, to) ==
    LET k == LastOf(g.map, 2)
        l == g.map[k]
        r == LastOf(g.map, 3)
    IN  IF k # 0 /\ l[2] = to - 2
        THEN PutEntry(g, k, <<l[1], to>>)
        ELSE IF k # 0 /\ l[2] - l[1] = 1
        THEN PutEntry(AddPair(g, l[1], l[2]), k, <<base, to>>)
        ELSE IF r # 0 /\ Clashes(g.map[r], <<base, to>>)
        THEN AddPair(g, base, to)
        ELSE NewEntry(g, <<base, to>>)

-----------------------------------------------------------------------------
Empty == [map |-> << >>, pair |-> << >>, lost |-> {}]

NoOut == [case |-> << >>, casel |-> << >>, pairs |-> << >>, pairl |-> << >>,
          caseUpper |-> << >>, caselUpper |-> << >>, pairsUpper |-> << >>,
          pairlUpper |-> << >>, excl |-> << >>, last |-> 0]

Init ==
    /\ \E u \in Ucd : upper = u.upper /\ lower = u.lower
    /\ todo = DOMAIN upper
    /\ prev = 0
    /\ gen = Empty
    /\ out = NoOut
    /\ phase = "scan"

cp == Least(todo)
lc == upper[cp]

Scanned(g) ==
    /\ gen' = g
    /\ prev' = cp
    /\ todo' = todo \ {cp}
    /\ UNCHANGED <<upper, lower, out, phase>>

Scanning == phase = "scan" /\ todo # {}

ScanFirst ==
    /\ Scanning
    /\ gen.map = << >>
    /\ Scanned(AddMap(gen, cp, lc))

(* Mutant: any pair whose uppercase comes right before will do.            *)
FollowsUpper == gen.pair # << >> /\ Last(gen.pair)[1] = cp - 1

(* The last pair made and the code point at hand belong together. *)
FollowsPair ==
    gen.pair # << >> /\ Last(gen.pair) = <<cp - 1, lc - 1>>

(* Mutant: shift instead of pop.                                           *)
ShiftPair == [gen EXCEPT !.pair = Tail(@)]

PopPair == [gen EXCEPT !.pair = Front(@)]

ScanNextLace ==
    /\ Scanning
    /\ gen.map # << >> /\ cp - prev = 1 /\ lc - cp = 1
    /\ Scanned(IF FollowsPair
               THEN AddLace(AddLace(PopPair, cp - 1, lc - 1), cp, lc)
               ELSE AddLace(gen, cp, lc))

ScanNextMap ==
    /\ Scanning
    /\ gen.map # << >> /\ cp - prev = 1 /\ lc - cp # 1
    /\ Scanned(IF FollowsPair
               THEN AddMap(AddMap(PopPair, cp - 1, lc - 1), cp, lc)
               ELSE AddMap(gen, cp, lc))

(* Mutant: whatever follows a hole starts a lace.                          *)
ScanHoleLace ==
    /\ Scanning
    /\ gen.map # << >> /\ cp - prev # 1
    /\ Scanned(AddLace(gen, cp, lc))

ScanHole ==
    /\ Scanning
    /\ gen.map # << >> /\ cp - prev # 1
    /\ Scanned(IF lc - cp = 1 THEN AddLace(gen, cp, lc)
               ELSE AddPair(gen, cp, lc))

(* The lowercase letters whose uppercase does not map back to them. *)
OneWay(u, l) == {c \in DOMAIN l : ~(l[c] \in DOMAIN u /\ u[l[c]] = c)}

ScanDone ==
    /\ phase = "scan" /\ todo = {}
    /\ phase' = "extras"
    /\ todo' = OneWay(upper, lower)
    /\ UNCHANGED <<upper, lower, prev, gen, out>>

AddExtra ==
    /\ phase = "extras" /\ todo # {}
    /\ gen' = [gen EXCEPT !.pair = Append(@, <<lower[cp], cp>>)]
    /\ todo' = todo \ {cp}
    /\ UNCHANGED <<upper, lower, prev, out, phase>>

(* Pairs with the same uppercase: the one towlower() must find goes first. *)
Authoritative(p) == p[1] \in DOMAIN upper /\ upper[p[1]] = p[2]

(* Mutant: pairs with the same uppercase go by their lowercase.            *)
PairBeforeByLower(p, q) == p[1] < q[1] \/ (p[1] = q[1] /\ p[2] < q[2])

PairBefore(p, q) ==
    \/ p[1] < q[1]
    \/ p[1] = q[1] /\ ~Authoritative(q) /\ (Authoritative(p) \/ p[2] < q[2])

(* sort(), which keeps what compares equal in order: s, given the place of *)
(* each element.                                                           *)
Arranged(s, place) ==
    [n \in DOMAIN s |-> s[CHOOSE k \in DOMAIN s : place[k] = n]]

PairPlaces(pair) ==
    [k \in DOMAIN pair |-> Cardinality({j \in DOMAIN pair :
        \/ PairBefore(pair[j], pair[k])
        \/ j <= k /\ ~PairBefore(pair[k], pair[j])})]

SortPairs ==
    /\ phase = "extras" /\ todo = {}
    /\ gen' = [gen EXCEPT !.pair = Arranged(@, PairPlaces(@))]
    /\ phase' = "emit"
    /\ UNCHANGED <<upper, lower, todo, prev, out>>

-----------------------------------------------------------------------------
(* The header. *)

(* A lace is emitted without its last lowercase member. *)
AsEntry(m) ==
    [upper |-> m[1], lower |-> Delta(m),
     len |-> SimLen(m)]

IsLong(e) ==
    \/ e.upper > MaxUpper \/ e.len > MaxLen
    \/ e.lower > MaxLower \/ e.lower < -(MaxLower - 1)

PlacesBy(key) ==
    [k \in DOMAIN key |-> Cardinality({j \in DOMAIN key :
        key[j] < key[k] \/ (j <= k /\ key[j] = key[k])})]

EntryPlaces(map) == PlacesBy([k \in DOMAIN map |-> map[k][1]])

Sorted ==
    LET map == Arranged(gen.map, EntryPlaces(gen.map))
    IN  [k \in DOMAIN map |-> AsEntry(map[k])]

Cased == DOMAIN upper \cup DOMAIN lower

(* Mutant: a gap includes the code point that ends it.                     *)
GapsTooLong ==
    LET Gap(a, b) == b - a > 1 /\ \A c \in a + 1 .. b - 1 : c \notin Cased
    IN  {<<g[1] + 1, g[2]>> : g \in
            {r \in Cased \X Cased :
                Gap(r[1], r[2]) /\ r[2] - r[1] - 2 >= MinExcl}}

(* The runs of uncased code points that add_excl() collects.               *)
Gaps ==
    LET Gap(a, b) == b - a > 1 /\ \A c \in a + 1 .. b - 1 : c \notin Cased
    IN  {<<g[1] + 1, g[2] - 1>> : g \in
            {r \in Cased \X Cased :
                Gap(r[1], r[2]) /\ r[2] - r[1] - 2 >= MinExcl}}

(* The header has the largest first; a code point is in any of them.       *)
Exclusions == <<<<0, Least(Cased) - 1>>>> \o SetToSeq(Gaps)

(* A lower beyond unsigned short loses its high bits in pairs[]. *)
AsShort(p) == <<p[1], p[2] % (MaxShort + 1)>>

(* grep: the elements of s at the places in S. *)
Selected(s, S) ==
    [n \in 1 .. Cardinality(S) |->
       s[CHOOSE k \in S : Cardinality({j \in S : j <= k}) = n]]

(* casemaps_upper[]: the indices into a table, sorted by target.           *)
ByTarget(table) ==
    Arranged([k \in DOMAIN table |-> k],
             PlacesBy([k \in DOMAIN table |-> table[k].upper + table[k].lower]))

(* pairs_upper[]: some pairs, sorted by their lowercase, and the index of  *)
(* each in the table.  One that is not in the table is printed as 0, the   *)
(* first index.                                                            *)
ByLower(some, pairs) ==
    LET sorted == Arranged(some, PlacesBy([k \in DOMAIN some |-> some[k][2]]))
    IN  [n \in DOMAIN sorted |->
            Greatest({1} \cup {k \in DOMAIN pairs : pairs[k] = sorted[n]})]

(* With the index tables of --bsearch-both.                                *)
Emit ==
    /\ phase = "emit"
    /\ LET long == {k \in DOMAIN Sorted : IsLong(Sorted[k])}
           far == {k \in DOMAIN gen.pair : gen.pair[k][1] > MaxShort}
           wide == {k \in DOMAIN gen.pair : gen.pair[k][2] > MaxShort}
           case == Selected(Sorted, DOMAIN Sorted \ long)
           casel == Selected(Sorted, long)
           pairs == Selected(gen.pair, DOMAIN gen.pair \ far)
           pairl == Selected(gen.pair, far)
           narrow == Selected(gen.pair, DOMAIN gen.pair \ (far \cup wide))
       IN  out' = [case |-> case, caseUpper |-> ByTarget(case),
                   casel |-> casel, caselUpper |-> ByTarget(casel),
                   pairs |-> [k \in DOMAIN pairs |-> AsShort(pairs[k])],
                   pairsUpper |-> ByLower(narrow, pairs),
                   pairl |-> pairl,
                   pairlUpper |->
                      ByLower(Selected(gen.pair, far \cup wide), pairl),
                   excl |-> Exclusions,
                   last |-> Greatest(Cased)]
    /\ phase' = "done"
    /\ UNCHANGED <<upper, lower, todo, prev, gen>>

Next ==
    \/ ScanFirst \/ ScanNextLace \/ ScanNextMap \/ ScanHole \/ ScanDone
    \/ AddExtra \/ SortPairs \/ Emit

Spec == Init /\ [][Next]_vars

-----------------------------------------------------------------------------
(* The header as its reader sees it. *)
Header == INSTANCE CaseTables WITH
    Case <- out.case, CaseL <- out.casel, Pairs <- out.pairs \o out.pairl,
    ExclRanges <- out.excl, LastCased <- out.last,
    DigraphUp <- {}, DigraphLow <- {}

(* What UnicodeData.txt says. *)
Given(c, low) ==
    LET f == IF low = 1 THEN upper ELSE lower
    IN  IF c \in DOMAIN f THEN f[c] ELSE c

Looked(c, low) == IF Header!Excluded(c) THEN c ELSE Header!Answer(c, low)

Done == phase = "done"

(* A pair of the short table whose lower does not fit; Unicode has none.   *)
Truncated == \E p \in Range(gen.pair) : p[1] <= MaxShort /\ MaxShort < p[2]

-----------------------------------------------------------------------------
(* Every variable keeps its type; entries of @map are ranges or laces, and *)
(* the scan keeps to the keys it has.                                      *)
GTypeOK ==
    /\ phase \in {"scan", "extras", "emit", "done"}
    /\ todo \subseteq IF phase = "scan" THEN DOMAIN upper ELSE DOMAIN lower
    /\ prev \in {0} \cup DOMAIN upper
    /\ \A k \in DOMAIN gen.map :
          \/ IsLace(gen.map[k]) /\ gen.map[k][1] < gen.map[k][2]
          \/ Len(gen.map[k]) = 3 /\ gen.map[k][1] <= gen.map[k][2]
    /\ \A p \in Range(gen.pair) \cup gen.lost : p \in Nat \X Nat

InEntry(m, c, l) ==
    /\ m[1] <= c /\ c <= m[2] /\ l = c + Delta(m)
    /\ IsLace(m) => (c - m[1]) % 2 = 0

Kept(c, l) ==
    \/ \E k \in DOMAIN gen.map : InEntry(gen.map[k], c, l)
    \/ \E k \in DOMAIN gen.pair : gen.pair[k] = <<c, l>>
    \/ <<c, l>> \in gen.lost

Pending(c) == phase = "scan" /\ c \in todo

(* Entries are bumped, overwritten, turned into pairs and pairs into       *)
(* entries; none of it forgets a mapping.  Each one scanned is in an       *)
(* entry, a pair, or was left out for a reason.                            *)
NoneForgotten == \A c \in DOMAIN upper : Pending(c) \/ Kept(c, upper[c])

(* Nor does it make one up: an entry claims only what UnicodeData.txt has. *)
NoneInvented ==
    \A k \in DOMAIN gen.map, c \in Codes :
        LET l == c + Delta(gen.map[k]) IN
        InEntry(gen.map[k], c, l) => c \in DOMAIN upper /\ upper[c] = l

Capitals(c) == {u \in DOMAIN upper : upper[u] = c}

(* Another capital of c has become part of a range or a lace: uppering c   *)
(* may find that one.                                                      *)
Usurped(c) ==
    \E k \in DOMAIN gen.map, u \in Capitals(c) :
        u # lower[c] /\ InEntry(gen.map[k], u, c)

(* The file leaves no choice of what to answer for c: no letter has a      *)
(* lowercase and is one.  For lowering, an uppercase has a lowercase; for  *)
(* uppering, no letter has both, and of several capitals that share c the  *)
(* first is its uppercase.  In Unicode this is so of all letters when      *)
(* lowering, and when uppering of all but U+00DF, which has no uppercase,  *)
(* and six of the digraphs, which have titlecase letters or are such.      *)
Settled(c, low) ==
    /\ c \in DOMAIN upper => Capitals(c) = {}
    /\ low = 1 => (c \in Range(lower) => c \in DOMAIN upper)
    /\ low = 0 => /\ c \in DOMAIN upper => c \notin DOMAIN lower
                  /\ Capitals(c) # {} =>
                        c \in DOMAIN lower /\ lower[c] = Least(Capitals(c))
                  /\ ~Usurped(c)

(* As long as nothing was left out or cut short, the header says what      *)
(* UnicodeData.txt says, both ways, for every code point: no entry shadows *)
(* a pair or an entry of the other table, no exclusion hides a mapping,    *)
(* and of two pairs with one uppercase the right one is found.             *)
TablesExact ==
    Done /\ gen.lost = {} /\ ~Truncated =>
        \A c \in Codes, low \in {0, 1} :
            Settled(c, low) => Looked(c, low) = Given(c, low)

(* Some letter of the file has the distance of base to its lowercase with  *)
(* the opposite sign, and is one that add_pair() may have met: simulate(), *)
(* asked the wrong way round, takes it for base.                           *)
Opposed(base, to) ==
    \E u \in DOMAIN upper :
        /\ upper[u] - u = base - to
        /\ IF to <= base THEN u >= to ELSE u < base \/ u = to \/ to = base + 1

(* add_pair() leaves out no other pairs, whatever the tables hold when it  *)
(* asks: a letter that none opposes is never lost.  In Unicode none is     *)
(* opposed.                                                                *)
LeftOutOpposed == \A p \in gen.lost : Opposed(p[1], p[2])

(* The order is that of the code points an entry begins with; where these  *)
(* are settled, an entry begins after those before it have ended.          *)
Bisectable(table, order, low) ==
    \A j, k \in DOMAIN table :
        LET a == Header!Base(table[order[j]], low)
            b == Header!Base(table[order[k]], low)
        IN  j < k => a <= b /\ (Settled(b, low) => a + table[order[j]].len <= b)

RangeTables == {<<out.case, out.caseUpper>>, <<out.casel, out.caselUpper>>}
PairTables == {<<out.pairs, out.pairsUpper>>, <<out.pairl, out.pairlUpper>>}

(* What a lookup relies on: tables in order and no exclusion of a code     *)
(* point that has an entry; a bisection also that the index tables hold    *)
(* every entry once, in order, and that entries do not overlap, in either  *)
(* direction.                                                              *)
LookupReady ==
    Done /\ ~Truncated =>
        /\ Header!PairsOK
        /\ Header!TableOK(out.case) /\ Header!TableOK(out.casel)
        /\ \A c \in Codes :
              Settled(c, 0) /\ Settled(c, 1) => Header!ExclusionSound(c)
        /\ \A t \in RangeTables :
              /\ Header!IndexOf(t[2], Len(t[1]))
              /\ Bisectable(t[1], [k \in DOMAIN t[1] |-> k], 1)
              /\ Bisectable(t[1], t[2], 0)
        /\ \A t \in PairTables :
              /\ Header!IndexOf(t[2], Len(t[1]))
              /\ Header!SortedByLower(t[1], t[2])

(* add_pair(): "same result without this pair already", of each pair that  *)
(* is left out.                                                            *)
LeftOutNotNeeded ==
    Done => \A p \in gen.lost : Looked(p[1], 1) = p[2] /\ Looked(p[2], 0) = p[1]
=============================================================================
