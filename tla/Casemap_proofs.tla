--------------------------- MODULE Casemap_proofs ---------------------------
(***************************************************************************)
(* What gen_wctrans --table promises, for every file that leaves the room  *)
(* its bytes need: the tables it builds give every code point the answer   *)
(* the file has for it.                                                    *)
(***************************************************************************)
EXTENDS Casemap, FiniteSetTheorems, SequenceTheorems, TLAPS

-----------------------------------------------------------------------------
(* Sorting.                                                                *)

Below(S, Less, x) == {y \in S : <<y, x>> \in Less}
Rank(S, Less, x) == Cardinality(Below(S, Less, x))

Orders(Less, S) ==
    /\ \A x \in S : <<x, x>> \notin Less
    /\ \A x, y, z \in S :
          <<x, y>> \in Less /\ <<y, z>> \in Less => <<x, z>> \in Less
    /\ \A x, y \in S : x # y => <<x, y>> \in Less \/ <<y, x>> \in Less

(* The elements of a finite set take the places 0, 1, ... in every strict  *)
(* and total order.                                                        *)
LEMMA Ranks ==
    ASSUME NEW S, IsFiniteSet(S), NEW Less, Orders(Less, S)
    PROVE  /\ Cardinality(S) \in Nat
           /\ \A x \in S : Rank(S, Less, x) \in 0 .. Cardinality(S) - 1
           /\ \A x, y \in S :
                 <<x, y>> \in Less => Rank(S, Less, x) < Rank(S, Less, y)
           /\ \A n \in 0 .. Cardinality(S) - 1 :
                 \E x \in S : Rank(S, Less, x) = n
<1> DEFINE n == Cardinality(S)
           B(x) == Below(S, Less, x)
           R(x) == Rank(S, Less, x)
           rank == [x \in S |-> R(x)]
<1>1. n \in Nat
  BY FS_CardinalityType
<1>2. ASSUME NEW x \in S
      PROVE  /\ B(x) \in SUBSET S /\ x \notin B(x)
             /\ IsFiniteSet(B(x)) /\ R(x) = Cardinality(B(x)) /\ R(x) \in 0 .. n - 1
  <2>1. B(x) \in SUBSET S /\ x \notin B(x) /\ B(x) # S
    BY DEF Below, Orders
  <2>2. R(x) = Cardinality(B(x))
    BY DEF Rank
  <2> HIDE DEF B, R
  <2>3. /\ IsFiniteSet(B(x)) /\ Cardinality(B(x)) <= n
        /\ n = Cardinality(B(x)) => S = B(x)
    BY <2>1, FS_Subset
  <2>4. Cardinality(B(x)) \in Nat
    BY <2>3, FS_CardinalityType
  <2>5. R(x) \in 0 .. n - 1
    BY <1>1, <2>1, <2>2, <2>3, <2>4
  <2> QED BY <2>1, <2>2, <2>3, <2>5
<1>3. ASSUME NEW x \in S, NEW y \in S, <<x, y>> \in Less
      PROVE  R(x) < R(y)
  <2>1. B(x) \in SUBSET B(y) /\ x \in B(y)
    BY <1>3 DEF Below, Orders
  <2> HIDE DEF B, R
  <2>2. /\ IsFiniteSet(B(y)) /\ x \notin B(x) /\ R(x) \in Nat /\ R(y) \in Nat
        /\ R(x) = Cardinality(B(x)) /\ R(y) = Cardinality(B(y))
    BY <1>1, <1>2
  <2>3. /\ Cardinality(B(x)) <= Cardinality(B(y))
        /\ Cardinality(B(y)) = Cardinality(B(x)) => B(y) = B(x)
    BY <2>1, <2>2, FS_Subset
  <2> QED BY <2>1, <2>2, <2>3
<1> HIDE DEF B, R
<1>4. \A x, y \in S : R(x) = R(y) => x = y
  <2> SUFFICES ASSUME NEW x \in S, NEW y \in S, R(x) = R(y), x # y PROVE FALSE
    OBVIOUS
  <2>1. <<x, y>> \in Less \/ <<y, x>> \in Less
    BY DEF Orders
  <2>2. R(x) \in Int /\ R(y) \in Int
    BY <1>1, <1>2
  <2> QED BY <1>3, <2>1, <2>2
<1>5. rank \in Injection(S, 0 .. n - 1)
  <2>1. rank \in [S -> 0 .. n - 1]
    BY <1>2
  <2> QED BY <1>4, <2>1 DEF Injection, IsInjective
<1>6. rank \in Surjection(S, 0 .. n - 1)
  <2> HIDE DEF rank
  <2>1. 0 \in Int /\ n - 1 \in Int
    BY <1>1
  <2>2. IsFiniteSet(0 .. n - 1) /\ Cardinality(0 .. n - 1) = n
    BY <1>1, <2>1, FS_Interval
  <2> QED BY <1>5, <2>2, FS_Injection
<1>7. \A i \in 0 .. n - 1 : \E x \in S : rank[x] = i
  BY <1>6 DEF Surjection
<1>8. \A i \in 0 .. n - 1 : \E x \in S : R(x) = i
  BY <1>7
<1> QED BY <1>1, <1>2, <1>3, <1>8 DEF R

(* Ascending() lists a finite set of numbers, each once, in their order.   *)
LEMMA AscendingLists ==
    ASSUME NEW S \in SUBSET Int, IsFiniteSet(S)
    PROVE  /\ Ascending(S) \in Seq(S) /\ Len(Ascending(S)) = Cardinality(S)
           /\ Cardinality(S) \in Nat
           /\ \A x \in S : \E k \in 1 .. Cardinality(S) : Ascending(S)[k] = x
           /\ \A j, k \in 1 .. Cardinality(S) :
                 j < k => Ascending(S)[j] < Ascending(S)[k]
<1> DEFINE Less == {p \in S \X S : p[1] < p[2]}
           n == Cardinality(S)
           R(x) == Rank(S, Less, x)
           a == Ascending(S)
<1>1. \A x, y \in S : <<x, y>> \in Less <=> x < y
  OBVIOUS
<1>2. \A x \in S : R(x) = Cardinality({y \in S : y < x})
  <2> SUFFICES ASSUME NEW x \in S
               PROVE  Below(S, Less, x) = {y \in S : y < x}
    BY DEF Rank
  <2> QED BY <1>1 DEF Below
<1>3. Orders(Less, S)
  BY <1>1 DEF Orders
<1> HIDE DEF Less
<1>4. /\ n \in Nat
      /\ \A x \in S : R(x) \in 0 .. n - 1
      /\ \A x, y \in S : <<x, y>> \in Less => R(x) < R(y)
      /\ \A i \in 0 .. n - 1 : \E x \in S : R(x) = i
  BY <1>3, Ranks
<1>5. a = [k \in 1 .. n |->
             CHOOSE x \in S : Cardinality({y \in S : y < x}) = k - 1]
  BY DEF Ascending, InOrder
<1> HIDE DEF R, a
<1>6. ASSUME NEW k \in 1 .. n
      PROVE  a[k] \in S /\ R(a[k]) = k - 1
  <2>1. \E x \in S : Cardinality({y \in S : y < x}) = k - 1
    BY <1>2, <1>4
  <2>2. a[k] \in S /\ Cardinality({y \in S : y < a[k]}) = k - 1
    BY <1>5, <2>1
  <2> QED BY <1>2, <2>2
<1>7. a \in [1 .. n -> S]
  BY <1>5, <1>6
<1>8. a \in Seq(S) /\ Len(a) = n
  BY <1>4, <1>7
<1>9. ASSUME NEW x \in S, NEW y \in S, x < y PROVE R(x) < R(y)
  <2>1. <<x, y>> \in Less
    BY <1>1, <1>9
  <2> QED BY <1>4, <2>1
<1>10. \A x, y \in S : x # y => R(x) # R(y)
  <2> SUFFICES ASSUME NEW x \in S, NEW y \in S, x # y PROVE R(x) # R(y)
    OBVIOUS
  <2>1. R(x) \in Int /\ R(y) \in Int
    BY <1>4
  <2>2. x < y \/ y < x
    OBVIOUS
  <2>3. CASE x < y
    BY <1>9, <2>1, <2>3
  <2>4. CASE y < x
    BY <1>9, <2>1, <2>4
  <2> QED BY <2>2, <2>3, <2>4
<1>11. ASSUME NEW x \in S PROVE \E k \in 1 .. n : a[k] = x
  <2>1. R(x) + 1 \in 1 .. n /\ R(x) \in Int
    BY <1>4
  <2>2. a[R(x) + 1] \in S /\ R(a[R(x) + 1]) = R(x)
    BY <1>6, <2>1
  <2>3. a[R(x) + 1] = x
    BY <1>10, <2>2
  <2> QED BY <2>1, <2>3
<1>12. ASSUME NEW j \in 1 .. n, NEW k \in 1 .. n, j < k
       PROVE  a[j] < a[k]
  <2>1. a[j] \in S /\ a[k] \in S /\ R(a[j]) = j - 1 /\ R(a[k]) = k - 1
    BY <1>6
  <2>2. j \in Int /\ k \in Int
    BY <1>4
  <2>3. a[j] \in Int /\ a[k] \in Int /\ a[j] # a[k]
    <3>1. a[j] \in Int /\ a[k] \in Int
      BY <2>1
    <3>2. CASE a[j] = a[k]
      <4>1. j - 1 = k - 1
        BY <2>1, <3>2
      <4> QED BY <1>12, <2>2, <4>1
    <3> QED BY <3>1, <3>2
  <2>4. CASE a[k] < a[j]
    <3>1. R(a[k]) < R(a[j])
      BY <1>9, <2>1, <2>4
    <3> QED BY <1>12, <2>1, <2>2, <3>1
  <2> QED BY <2>3, <2>4
<1> QED BY <1>4, <1>8, <1>11, <1>12 DEF a

(* A set of naturals has a least element.                                  *)
LEMMA LeastOf ==
    ASSUME NEW S \in SUBSET Nat, S # {}
    PROVE  \E m \in S : \A k \in S : m <= k
<1> DEFINE R == OpToRel(<, Nat)
<1>1. IsWellFoundedOn(R, Nat)
  BY NatLessThanWellFounded
<1>2. PICK m \in S : \A k \in S : <<k, m>> \notin R
  <2> HIDE DEF R
  <2> QED BY <1>1, WFMin
<1>3. \A k \in S : ~(k < m)
  BY <1>2 DEF OpToRel
<1> QED BY <1>3

(* PlaceOf() finds the first place of an element, or 0.                    *)
LEMMA PlaceOfIs ==
    ASSUME NEW V, NEW s \in Seq(V), NEW x
    PROVE  /\ (\E k \in DOMAIN s : s[k] = x) =>
                /\ PlaceOf(s, x) \in DOMAIN s /\ s[PlaceOf(s, x)] = x
                /\ \A k \in 1 .. PlaceOf(s, x) - 1 : s[k] # x
           /\ (\A k \in DOMAIN s : s[k] # x) => PlaceOf(s, x) = 0
<1> DEFINE I == {k \in 1 .. Len(s) : s[k] = x}
<1>1. PlaceOf(s, x) = IF I # {} THEN Min(I) ELSE 0
  BY DEF PlaceOf, SelectInSeq
<1>2. DOMAIN s = 1 .. Len(s) /\ Len(s) \in Nat
  OBVIOUS
<1>3. ASSUME I # {} PROVE Min(I) \in I /\ \A k \in I : Min(I) <= k
  <2>1. I \in SUBSET Nat
    BY <1>2
  <2> HIDE DEF I
  <2>2. \E m \in I : \A k \in I : m <= k
    BY <1>3, <2>1, LeastOf
  <2> QED BY <2>2 DEF Min
<1>4. CASE \E k \in DOMAIN s : s[k] = x
  <2>1. I # {}
    BY <1>2, <1>4
  <2>2. PlaceOf(s, x) \in I /\ \A k \in I : PlaceOf(s, x) <= k
    BY <1>1, <1>3, <2>1
  <2>3. \A k \in 1 .. PlaceOf(s, x) - 1 : s[k] # x
    BY <1>2, <2>2
  <2> QED BY <1>2, <1>4, <2>2, <2>3
<1>5. CASE \A k \in DOMAIN s : s[k] # x
  BY <1>1, <1>2, <1>5
<1> QED BY <1>4, <1>5

-----------------------------------------------------------------------------
(* Sizes.                                                                  *)

(* Division undoes a multiplication and keeps what was added.              *)
LEMMA Divided ==
    ASSUME NEW n \in Nat \ {0}, NEW q \in Int, NEW m \in 0 .. n - 1
    PROVE  (q * n + m) \div n = q /\ (q * n + m) % n = m
<1> DEFINE a == q * n + m
           d == a \div n
           e == a % n
<1>1. d \in Int /\ e \in 0 .. n - 1 /\ a = n * d + e
  OBVIOUS
<1> HIDE DEF d, e
<1>2. (q - d) * n = e - m /\ e - m < n /\ e - m > -n
  BY <1>1
<1>3. q - d < 1
  <2> SUFFICES ASSUME q - d >= 1 PROVE FALSE
    BY <1>1
  <2>1. (q - d) * n >= n
    BY <1>1
  <2> QED BY <1>1, <1>2, <2>1
<1>4. q - d > -1
  <2> SUFFICES ASSUME q - d <= -1 PROVE FALSE
    BY <1>1
  <2>1. (q - d) * n <= -n
    BY <1>1
  <2> QED BY <1>1, <1>2, <2>1
<1>5. q = d
  BY <1>1, <1>3, <1>4
<1>6. e = m
  BY <1>1, <1>5
<1> QED BY <1>5, <1>6 DEF d, e

(* The sizes, and that the first level has room for every block.           *)
LEMMA SizeFacts ==
    /\ NBlocks \in Nat \ {0} /\ BlockSz \in 1 .. 256 /\ Limit \in Nat
    /\ Width \in Nat \ {0} /\ BlockSz <= 3 * Width
    /\ L2Offset \in Nat /\ NBlocks <= L2Offset * Width
<1>1. NBlocks \in Nat \ {0} /\ BlockSz \in 1 .. 256
  BY SizesOK
<1>2. Limit \in Nat
  BY <1>1 DEF Limit
<1>3. Width \in Nat \ {0} /\ BlockSz <= 3 * Width
  BY <1>1 DEF Width
<1> DEFINE a == NBlocks + Width - 1
           d == a \div Width
           e == a % Width
<1> HIDE DEF Width
<1>4. d \in Int /\ e \in 0 .. Width - 1 /\ a = Width * d + e
  BY <1>1, <1>3
<1>5. L2Offset = d
  BY DEF L2Offset
<1> HIDE DEF d, e
<1>6. NBlocks <= d * Width
  BY <1>1, <1>3, <1>4
<1>7. d >= 0
  <2> SUFFICES ASSUME d <= -1 PROVE FALSE
    BY <1>4
  <2>1. d * Width <= -Width
    BY <1>3, <1>4
  <2>2. d * Width \in Int
    BY <1>3, <1>4
  <2> QED BY <1>1, <1>3, <1>6, <2>1, <2>2
<1> QED BY <1>1, <1>2, <1>3, <1>4, <1>5, <1>6, <1>7

-----------------------------------------------------------------------------
(* What the generator makes of one code point and of one block.            *)

FileOK == <<toLower, toUpper>> \in Files

(* A file maps code points within the blocks, and none to itself.          *)
LEMMA FileFacts ==
    ASSUME FileOK
    PROVE  /\ \A n \in DOMAIN toLower : n \in 0 .. Limit - 1 /\ toLower[n] \in Nat \ {n}
           /\ \A n \in DOMAIN toUpper : n \in 0 .. Limit - 1 /\ toUpper[n] \in Nat \ {n}
<1> DEFINE f == <<toLower, toUpper>>
<1>1. f \in Files /\ f[1] = toLower /\ f[2] = toUpper
  BY DEF FileOK
<1>2. \A h \in {f[1], f[2]} : \A n \in DOMAIN h :
         n \in 0 .. NBlocks * BlockSz - 1 /\ h[n] \in Nat \ {n}
  BY <1>1, SizesOK
<1> QED BY <1>1, <1>2 DEF Limit

(* A rule gives back the type and the difference it was made of.           *)
LEMMA RuleParts ==
    ASSUME NEW d \in Int, NEW t \in 0 .. 255
    PROVE  /\ RuleInt(d, t) \in Int
           /\ RuleType(RuleInt(d, t)) = t /\ RuleDelta(RuleInt(d, t)) = d
BY DEF RuleInt, RuleType, RuleDelta

(* The rule of a code point: its type, and its distance.                   *)
LEMMA CpRuleIs ==
    ASSUME FileOK, NEW n \in Nat
    PROVE  /\ CpRule(n) \in Int
           /\ RuleType(CpRule(n)) \in {0, 1}
           /\ n \in DOMAIN toLower =>
                /\ RuleType(CpRule(n)) = 0
                /\ RuleDelta(CpRule(n)) = toLower[n] - n
           /\ n \notin DOMAIN toLower /\ n \in DOMAIN toUpper =>
                /\ RuleType(CpRule(n)) = 1
                /\ RuleDelta(CpRule(n)) = toUpper[n] - n
           /\ n \notin DOMAIN toLower /\ n \notin DOMAIN toUpper =>
                CpRule(n) = 0
<1>1. CASE n \in DOMAIN toLower
  <2>1. toLower[n] - n \in Int
    BY <1>1, FileFacts
  <2> QED BY <1>1, <2>1, RuleParts DEF CpRule
<1>2. CASE n \notin DOMAIN toLower /\ n \in DOMAIN toUpper
  <2>1. toUpper[n] - n \in Int
    BY <1>2, FileFacts
  <2> QED BY <1>2, <2>1, RuleParts DEF CpRule
<1>3. CASE n \notin DOMAIN toLower /\ n \notin DOMAIN toUpper
  BY <1>3 DEF CpRule, RuleType
<1> QED BY <1>1, <1>2, <1>3

(* The code points of a block.                                             *)
LEMMA InBlock ==
    ASSUME NEW n \in Nat, NEW o \in Offsets
    PROVE  /\ n * BlockSz + o \in Nat
           /\ (n * BlockSz + o) \div BlockSz = n
           /\ (n * BlockSz + o) % BlockSz = o
<1>1. BlockSz \in Nat \ {0} /\ o \in 0 .. BlockSz - 1
  BY SizeFacts DEF Offsets
<1> QED BY <1>1, Divided

(* The offsets into a block.                                               *)
LEMMA OffsetsFinite ==
    /\ IsFiniteSet(Offsets) /\ Cardinality(Offsets) = BlockSz /\ 0 \in Offsets
    /\ Offsets \in SUBSET Nat
<1>1. BlockSz \in Nat \ {0}
  BY SizeFacts
<1>2. 0 \in Int /\ BlockSz - 1 \in Int
  BY <1>1
<1> QED BY <1>1, <1>2, FS_Interval DEF Offsets

RankedBefore(n, p) ==
    \/ Frequency(n, p[1]) > Frequency(n, p[2])
    \/ Frequency(n, p[1]) = Frequency(n, p[2]) /\ p[1] < p[2]

(* The rules found in a block are finitely many integers.                  *)
LEMMA FoundRules ==
    ASSUME FileOK, NEW n \in Nat
    PROVE  LET found == {RuleAt(n, o) : o \in Offsets} IN
           found \in SUBSET Int /\ IsFiniteSet(found)
<1> DEFINE found == {RuleAt(n, o) : o \in Offsets}
           f == [o \in Offsets |-> RuleAt(n, o)]
<1>1. \A o \in Offsets : RuleAt(n, o) \in Int
  BY InBlock, CpRuleIs DEF RuleAt
<1>2. f \in Surjection(Offsets, found)
  BY DEF Surjection
<1> HIDE DEF f
<1>3. IsFiniteSet(found)
  BY <1>2, OffsetsFinite, FS_Surjection
<1> QED BY <1>1, <1>3

(* The ranked rules of a block: identity comes first, if it occurs.        *)
LEMMA RankedIs ==
    ASSUME FileOK, NEW n \in Nat
    PROVE  /\ Ranked(n) \in Seq(Int)
           /\ 0 \in {RuleAt(n, o) : o \in Offsets} =>
                Len(Ranked(n)) >= 1 /\ Ranked(n)[1] = 0
           /\ {RuleAt(n, o) : o \in Offsets} = {0} => Ranked(n) = <<0>>
<1> DEFINE found == {RuleAt(n, o) : o \in Offsets}
           F == found \ {0}
           z == IF 0 \in found THEN <<0>> ELSE << >>
           Less == {p \in F \X F : RankedBefore(n, p)}
           Prior(x) == Cardinality({y \in F :
                          \/ Frequency(n, y) > Frequency(n, x)
                          \/ Frequency(n, y) = Frequency(n, x) /\ y < x})
           s == [k \in 1 .. Cardinality(F) |-> CHOOSE x \in F : Prior(x) = k - 1]
<1>1. F \in SUBSET Int /\ IsFiniteSet(F)
  <2>1. found \in SUBSET Int /\ IsFiniteSet(found)
    BY FoundRules
  <2> HIDE DEF found
  <2> QED BY <2>1, FS_Difference
<1>2. Ranked(n) = z \o s
  BY DEF Ranked, InOrder
<1>13. F = IF 0 \in found THEN found \ {0} ELSE found
  OBVIOUS
<1> HIDE DEF F
<1>3. \A x, y \in F : <<x, y>> \in Less <=>
         \/ Frequency(n, x) > Frequency(n, y)
         \/ Frequency(n, x) = Frequency(n, y) /\ x < y
  BY DEF RankedBefore
<1>4. \A x : Frequency(n, x) \in Nat
  <2> SUFFICES ASSUME NEW x PROVE Frequency(n, x) \in Nat
    OBVIOUS
  <2> DEFINE O == {o \in Offsets : RuleAt(n, o) = x}
  <2>1. O \in SUBSET Offsets
    OBVIOUS
  <2> HIDE DEF O
  <2>2. IsFiniteSet(O)
    BY <2>1, OffsetsFinite, FS_Subset
  <2>3. Cardinality(O) \in Nat
    BY <2>2, FS_CardinalityType
  <2> QED BY <2>3 DEF O, Frequency
<1>5. Orders(Less, F)
  <2> HIDE DEF Less, F
  <2> QED BY <1>1, <1>3, <1>4 DEF Orders
<1> HIDE DEF Less
<1>6. /\ Cardinality(F) \in Nat
      /\ \A i \in 0 .. Cardinality(F) - 1 : \E x \in F : Rank(F, Less, x) = i
  BY <1>1, <1>5, Ranks
<1>7. \A x \in F : Rank(F, Less, x) = Prior(x)
  <2> SUFFICES ASSUME NEW x \in F
               PROVE  Below(F, Less, x) =
                        {y \in F : \/ Frequency(n, y) > Frequency(n, x)
                                   \/ Frequency(n, y) = Frequency(n, x) /\ y < x}
    BY DEF Rank
  <2> QED BY <1>3 DEF Below
<1> HIDE DEF Prior
<1>8. \A k \in 1 .. Cardinality(F) : s[k] \in F
  <2> SUFFICES ASSUME NEW k \in 1 .. Cardinality(F)
               PROVE  \E x \in F : Prior(x) = k - 1
    OBVIOUS
  <2>1. k - 1 \in 0 .. Cardinality(F) - 1
    BY <1>6
  <2> QED BY <1>6, <1>7, <2>1
<1>9. s \in [1 .. Cardinality(F) -> Int]
  BY <1>1, <1>8
<1> HIDE DEF s
<1>10. s \in Seq(Int) /\ Len(s) = Cardinality(F)
  BY <1>6, <1>9
<1>11. F = {} => s = << >>
  <2>1. F = {} => Cardinality(F) = 0
    BY FS_EmptySet
  <2> QED BY <1>10, <2>1
<1>12. /\ z \in Seq(Int)
       /\ 0 \in found => z = <<0>> /\ Len(z) = 1 /\ z[1] = 0
  OBVIOUS
<1>14. /\ Ranked(n) \in Seq(Int)
       /\ 0 \in found => Len(Ranked(n)) >= 1 /\ Ranked(n)[1] = 0
  <2> HIDE DEF z, found
  <2> QED BY <1>2, <1>10, <1>12
<1>15. ASSUME found = {0} PROVE Ranked(n) = <<0>>
  <2>1. F = {}
    BY <1>13, <1>15
  <2>2. z = <<0>> /\ s = << >> /\ Ranked(n) = z \o s
    BY <1>2, <1>11, <1>12, <1>15, <2>1
  <2>3. <<0>> \o << >> = <<0>>
    OBVIOUS
  <2> HIDE DEF z
  <2> QED BY <2>2, <2>3
<1> HIDE DEF z
<1> QED BY <1>14, <1>15 DEF found

(* At most six rules keep their place.                                     *)
LEMMA FirstRules ==
    ASSUME NEW s \in Seq(Int)
    PROVE  LET first == SubSeq(s, 1, Min({Slots, Len(s)})) IN
           /\ first \in Seq(Int) /\ Len(first) \in 0 .. 6
           /\ Len(first) <= Len(s) /\ (Len(s) >= 1 => Len(first) >= 1)
           /\ \A k \in 1 .. Len(first) : first[k] = s[k]
           /\ (Len(s) <= 6 => Len(first) = Len(s))
<1> DEFINE m == Min({Slots, Len(s)})
           first == SubSeq(s, 1, m)
<1>1. Len(s) \in Nat /\ \A k \in 1 .. Len(s) : s[k] \in Int
  OBVIOUS
<1>2. m \in {6, Len(s)} /\ m <= 6 /\ m <= Len(s)
  <2> DEFINE S == {Slots, Len(s)}
  <2>1. \E x \in S : \A y \in S : x <= y
    BY <1>1 DEF Slots
  <2>2. m \in S /\ \A y \in S : m <= y
    BY <2>1 DEF Min
  <2> HIDE DEF m
  <2> QED BY <2>2 DEF Slots
<1> HIDE DEF m, first
<1>3. /\ m \in 0 .. 6 /\ m <= Len(s) /\ (Len(s) <= 6 => m = Len(s))
      /\ (Len(s) >= 1 => m >= 1)
  BY <1>1, <1>2
<1>4. /\ first \in Seq(Int) /\ Len(first) = IF 1 <= m THEN m - 1 + 1 ELSE 0
      /\ \A i \in 1 .. m - 1 + 1 : first[i] = s[1 + i - 1]
  <2>1. 1 \in Int /\ m \in Int /\ \A i \in 1 .. m : s[i] \in Int
    BY <1>1, <1>3
  <2> QED BY <2>1, SubSeqProperties DEF first
<1>5. Len(first) = m /\ \A k \in 1 .. m : first[k] = s[k]
  BY <1>1, <1>3, <1>4
<1>6. /\ first \in Seq(Int) /\ Len(first) \in 0 .. 6
      /\ Len(first) <= Len(s) /\ (Len(s) >= 1 => Len(first) >= 1)
      /\ \A k \in 1 .. Len(first) : first[k] = s[k]
      /\ (Len(s) <= 6 => Len(first) = Len(s))
  <2> QED BY <1>3, <1>4, <1>5
<1> QED BY <1>6 DEF first, m

(* A sequence without its last element.                                    *)
LEMMA FrontIs ==
    ASSUME NEW s \in Seq(Int), Len(s) >= 1
    PROVE  /\ Front(s) \in Seq(Int) /\ Len(Front(s)) = Len(s) - 1
           /\ \A k \in 1 .. Len(s) - 1 : Front(s)[k] = s[k]
<1>1. Len(s) \in Nat /\ \A k \in 1 .. Len(s) : s[k] \in Int
  OBVIOUS
<1> DEFINE m == Len(s) - 1
<1>2. /\ 1 \in Int /\ m \in Int /\ \A i \in 1 .. m : s[i] \in Int
      /\ Front(s) = SubSeq(s, 1, m)
  BY <1>1 DEF Front
<1> HIDE DEF m
<1>3. /\ Front(s) \in Seq(Int) /\ Len(Front(s)) = IF 1 <= m THEN m - 1 + 1 ELSE 0
      /\ \A i \in 1 .. m - 1 + 1 : Front(s)[i] = s[1 + i - 1]
  BY <1>2, SubSeqProperties
<1>4. m = Len(s) - 1 /\ m \in Nat
  BY <1>1 DEF m
<1>5. \A k \in 1 .. m : Front(s)[k] = s[k]
  BY <1>3, <1>4
<1> QED BY <1>3, <1>4, <1>5

(* A block has at most six rules, the reference to its exceptions counted, *)
(* and one of them is that of every code point that is no exception.       *)
LEMMA BlockIs ==
    ASSUME FileOK, NEW n \in Nat
    PROVE  /\ Block(n).rules \in Seq(Int) /\ Len(Block(n).rules) \in 0 .. 6
           /\ Block(n).exc \in SUBSET Offsets
           /\ Block(n).exc # {} => Len(Block(n).rules) <= 5
           /\ Block(n).exc = {} => Len(Block(n).rules) >= 1
           /\ \A o \in Offsets \ Block(n).exc :
                /\ ~HasBoth(n * BlockSz + o)
                /\ \E k \in DOMAIN Block(n).rules :
                      Block(n).rules[k] = RuleAt(n, o)
           /\ Block(n) = [rules |-> Block(n).rules, exc |-> Block(n).exc]
           /\ \A o \in Offsets :
                CpRule(n * BlockSz + o) = 0 /\ ~HasBoth(n * BlockSz + o)
                  => o \notin Block(n).exc
<1> DEFINE s == Ranked(n)
           first == SubSeq(s, 1, Min({Slots, Len(s)}))
           some == \E o \in Offsets : HasBoth(n * BlockSz + o)
                                     \/ ~Contains(first, RuleAt(n, o))
           kept == IF some /\ Len(first) = Slots THEN Front(first) ELSE first
           exc == {o \in Offsets : HasBoth(n * BlockSz + o)
                                    \/ ~Contains(kept, RuleAt(n, o))}
<1>1. Block(n) = [rules |-> kept, exc |-> exc]
  BY DEF Block
<1>2. /\ s \in Seq(Int)
      /\ 0 \in {RuleAt(n, o) : o \in Offsets} => Len(s) >= 1 /\ s[1] = 0
  BY RankedIs
<1> HIDE DEF s
<1>3. /\ first \in Seq(Int) /\ Len(first) \in 0 .. 6
      /\ Len(s) >= 1 => Len(first) >= 1
      /\ \A k \in 1 .. Len(first) : first[k] = s[k]
  BY <1>2, FirstRules
<1> HIDE DEF first
<1>4. /\ some /\ Len(first) = Slots => kept = Front(first)
      /\ ~some \/ Len(first) # Slots => kept = first
  OBVIOUS
<1> HIDE DEF some, kept, exc
<1>5. ASSUME Len(first) = 6
      PROVE  /\ Front(first) \in Seq(Int) /\ Len(Front(first)) = 5
             /\ Front(first)[1] = first[1]
  <2>1. first \in Seq(Int) /\ Len(first) >= 1
    BY <1>3, <1>5
  <2>2. /\ Front(first) \in Seq(Int) /\ Len(Front(first)) = Len(first) - 1
        /\ \A k \in 1 .. Len(first) - 1 : Front(first)[k] = first[k]
    BY <2>1, FrontIs
  <2>3. Len(first) - 1 = 5
    BY <1>5
  <2>4. \A k \in 1 .. 5 : Front(first)[k] = first[k]
    BY <2>2, <2>3
  <2>5. 1 \in 1 .. 5
    OBVIOUS
  <2>6. Front(first)[1] = first[1]
    BY <2>4, <2>5
  <2>7. Front(first) \in Seq(Int) /\ Len(Front(first)) = 5
    BY <2>2, <2>3
  <2> QED BY <2>6, <2>7
<1>12. Slots = 6
  BY DEF Slots
<1>6. /\ kept \in Seq(Int) /\ Len(kept) \in 0 .. 6
      /\ some => Len(kept) <= 5
      /\ Len(first) >= 1 => Len(kept) >= 1 /\ kept[1] = first[1]
  <2>1. CASE some /\ Len(first) = 6
    <3>1. kept = Front(first)
      BY <1>4, <1>12, <2>1
    <3>2. kept \in Seq(Int) /\ Len(kept) = 5 /\ kept[1] = first[1]
      BY <1>5, <2>1, <3>1
    <3>3. 5 \in 0 .. 6 /\ 5 <= 5 /\ 5 >= 1
      OBVIOUS
    <3> QED BY <3>2, <3>3
  <2>2. CASE ~some \/ Len(first) # 6
    <3>1. kept = first
      BY <1>4, <1>12, <2>2
    <3> QED BY <1>3, <2>2, <3>1
  <2> QED BY <2>1, <2>2
<1>7. exc # {} => some
  <2> SUFFICES ASSUME ~some PROVE exc = {}
    OBVIOUS
  <2>1. kept = first
    BY <1>4
  <2> QED BY <2>1 DEF some, exc
<1>8. ASSUME exc = {} PROVE Len(kept) >= 1
  <2>1. 0 \in Offsets /\ 0 \notin exc
    BY <1>8, OffsetsFinite
  <2>2. \E k \in 1 .. Len(kept) : kept[k] = RuleAt(n, 0)
    BY <2>1 DEF exc, Contains
  <2> QED BY <1>6, <2>2
<1>9. ASSUME NEW o \in Offsets \ exc
      PROVE  ~HasBoth(n * BlockSz + o) /\ \E k \in DOMAIN kept : kept[k] = RuleAt(n, o)
  <2>1. ~HasBoth(n * BlockSz + o) /\ \E k \in 1 .. Len(kept) : kept[k] = RuleAt(n, o)
    BY DEF exc, Contains
  <2> QED BY <1>6, <2>1
<1>10. ASSUME NEW o \in Offsets, CpRule(n * BlockSz + o) = 0,
              ~HasBoth(n * BlockSz + o)
       PROVE  o \notin exc
  <2>1. RuleAt(n, o) = 0
    BY <1>10 DEF RuleAt
  <2>2. Len(s) >= 1 /\ s[1] = 0
    BY <1>2, <2>1
  <2>3. 1 \in 1 .. Len(kept) /\ kept[1] = 0
    BY <1>3, <1>6, <2>2
  <2> QED BY <1>10, <2>1, <2>3 DEF exc, Contains
<1>11. exc \in SUBSET Offsets
  BY DEF exc
<1> QED BY <1>1, <1>6, <1>7, <1>8, <1>9, <1>10, <1>11

(* What is no letter has the rule 0 and one mapping at most.               *)
LEMMA Uncased ==
    ASSUME FileOK, NEW n \in Nat, NEW o \in Offsets, o \notin Cased(file, n)
    PROVE  CpRule(n * BlockSz + o) = 0 /\ ~HasBoth(n * BlockSz + o)
<1>1. /\ n * BlockSz + o \notin DOMAIN toLower
      /\ n * BlockSz + o \notin DOMAIN toUpper
  BY DEF Cased, file
<1> QED BY <1>1 DEF CpRule, HasBoth

(* A block without letters has the rule of all others without letters.     *)
LEMMA UncasedBlock ==
    ASSUME FileOK, NEW n \in Nat, Cased(file, n) = {}
    PROVE  Block(n) = [rules |-> <<0>>, exc |-> {}]
<1> DEFINE s == Ranked(n)
           m == Min({Slots, Len(s)})
           first == SubSeq(s, 1, m)
<1>1. \A o \in Offsets : RuleAt(n, o) = 0 /\ ~HasBoth(n * BlockSz + o)
  BY Uncased DEF RuleAt
<1>2. {RuleAt(n, o) : o \in Offsets} = {0}
  BY <1>1, OffsetsFinite
<1>3. s = <<0>>
  BY <1>2, RankedIs
<1>4. first = <<0>>
  <2>1. <<0>> \in Seq(Int) /\ Len(<<0>>) = 1 /\ <<0>>[1] = 0
    OBVIOUS
  <2>2. s \in Seq(Int) /\ Len(s) = 1 /\ s[1] = 0
    BY <1>3, <2>1
  <2> HIDE DEF s
  <2>3. /\ first \in Seq(Int) /\ (Len(s) <= 6 => Len(first) = Len(s))
        /\ \A k \in 1 .. Len(first) : first[k] = s[k]
    BY <2>2, FirstRules
  <2> HIDE DEF first
  <2>4. first \in Seq(Int) /\ Len(first) = 1
    BY <2>2, <2>3
  <2>5. first[1] = 0
    BY <2>2, <2>3, <2>4
  <2> QED BY <2>4, <2>5
<1> HIDE DEF first
<1>5. \A o \in Offsets : Contains(first, RuleAt(n, o))
  BY <1>1, <1>4 DEF Contains
<1>6. Block(n) = [rules |-> first, exc |-> {o \in Offsets :
                                      HasBoth(n * BlockSz + o)
                                       \/ ~Contains(first, RuleAt(n, o))}]
  BY <1>1, <1>5 DEF Block, first
<1> QED BY <1>1, <1>4, <1>5, <1>6

(* The exceptions of a block can be counted with a byte.                   *)
LEMMA ExceptionsFit ==
    ASSUME FileOK, NEW n \in 0 .. NBlocks - 1
    PROVE  /\ IsFiniteSet(Block(n).exc) /\ Block(n).exc \in SUBSET Nat
           /\ Cardinality(Block(n).exc) \in 0 .. 255
<1> DEFINE E == Block(n).exc
<1>1. n \in Nat
  BY SizeFacts
<1>2. /\ E \in SUBSET Offsets
      /\ \A o \in Offsets : CpRule(n * BlockSz + o) = 0 /\ ~HasBoth(n * BlockSz + o)
                              => o \notin E
  BY <1>1, BlockIs
<1> HIDE DEF E
<1>3. /\ IsFiniteSet(E) /\ Cardinality(E) <= BlockSz
      /\ BlockSz = Cardinality(E) => Offsets = E
  BY <1>2, OffsetsFinite, FS_Subset
<1>4. Cardinality(E) \in Nat
  BY <1>3, FS_CardinalityType
<1>5. BlockSz \in 1 .. 256
  BY SizeFacts
<1>6. E \in SUBSET Nat
  BY <1>2, OffsetsFinite
<1>7. CASE BlockSz < 256
  <2>1. Cardinality(E) \in 0 .. 255
    BY <1>3, <1>4, <1>5, <1>7
  <2> QED BY <1>3, <1>6, <2>1 DEF E
<1>8. CASE Cased(file, n) # Offsets
  <2>1. PICK o \in Offsets : o \notin Cased(file, n)
    BY <1>8 DEF Cased
  <2>2. o \notin E
    BY <1>1, <1>2, <2>1, Uncased
  <2>3. Offsets # E
    BY <2>1, <2>2
  <2>4. Cardinality(E) \in 0 .. 255
    BY <1>3, <1>4, <1>5, <2>3
  <2> QED BY <1>3, <1>6, <2>4 DEF E
<1>9. BlockSz < 256 \/ Cased(file, n) # Offsets
  BY LettersFit DEF FileOK, file
<1> QED BY <1>7, <1>8, <1>9

-----------------------------------------------------------------------------
(* The invariant of the generator.                                         *)

(* What every block promises, Block() in terms of the code points.         *)
GoodBlock(n, blk) ==
    /\ blk = [rules |-> blk.rules, exc |-> blk.exc]
    /\ blk.rules \in Seq(Int) /\ Len(blk.rules) \in 0 .. 6
    /\ blk.exc \in SUBSET Offsets /\ IsFiniteSet(blk.exc)
    /\ Cardinality(blk.exc) \in 0 .. 255
    /\ IF blk.exc = {} THEN Len(blk.rules) >= 1 ELSE Len(blk.rules) <= 5
    /\ \A o \in Offsets \ blk.exc :
          /\ ~HasBoth(n * BlockSz + o)
          /\ \E k \in 1 .. Len(blk.rules) : blk.rules[k] = RuleAt(n, o)
    /\ Cased(file, n) = {} => blk = [rules |-> <<0>>, exc |-> {}]

Shape ==
    /\ FileOK
    /\ phase \in {"blocks", "rulebases", "tables", "ready"}
    /\ blocks \in Seq([rules : Seq(Int), exc : SUBSET Offsets])
    /\ rules \in Seq(Int)
    /\ rulebases \in Seq(Nat)
    /\ exceptions \in Seq(Offsets \X Nat)
    /\ tabL1 \in Seq(Nat)
    /\ tabL2 \in Seq([1 .. Width -> 0 .. 215])

(* How far each loop has come.                                             *)
Progress ==
    /\ IF phase = "blocks" THEN Len(blocks) < NBlocks /\ Len(rulebases) = 0
                           ELSE Len(blocks) = NBlocks
    /\ phase = "rulebases" => Len(rulebases) < NBlocks
    /\ IF phase \in {"tables", "ready"} THEN Len(rulebases) = NBlocks
                                        ELSE Len(tabL1) = 0
    /\ phase = "tables" => Len(tabL1) < NBlocks
    /\ phase = "ready" => Len(tabL1) = NBlocks /\ Pending = {}

Built == 0 .. Len(blocks) - 1

BlocksOK == \A n \in Built : GoodBlock(n, blocks[n + 1])

Based == 0 .. Len(rulebases) - 1
HasExc(n) == blocks[n + 1].exc # {}

(* The places of the references, which the second pass fills in.           *)
Reserved(p) == \E n \in Based : HasExc(n) /\ p = ExcPos(n) + 1

(* The rules s are in rules[] after base, and no reference is among them.  *)
Holds(base, s) ==
    /\ base + Len(s) <= Len(rules)
    /\ \A k \in 1 .. Len(s) : rules[base + k] = s[k] /\ ~Reserved(base + k)

Placed ==
    /\ \A n \in Based :
          /\ Holds(rulebases[n + 1], blocks[n + 1].rules)
          /\ HasExc(n) => ExcPos(n) + 1 <= Len(rules)
    /\ \A q \in DOMAIN seqBase :
          q \in Seq(Int) /\ seqBase[q] \in Nat /\ Holds(seqBase[q], q)

(* Every block with exceptions has a place of its own for the reference.   *)
Apart ==
    \A m, n \in Based :
       HasExc(m) /\ HasExc(n) /\ ExcPos(m) = ExcPos(n) => m = n

(* rules[k] is one no reference will overwrite.                            *)
Kept(k) == k + 1 \in 1 .. Len(rules) /\ ~Reserved(k + 1)

Indexed ==
    /\ \A q \in DOMAIN excIdx :
          excIdx[q] \in Nat /\ Kept(excIdx[q]) /\ rules[excIdx[q] + 1] = q
    /\ \A k \in 1 .. Len(exceptions) : Kept(exceptions[k][2])

(* A reference that is filled in: the exceptions of the block, in their    *)
(* order, each with its rule.                                              *)
Count(n) == Cardinality(blocks[n + 1].exc)
Reference(n) == rules[ExcPos(n) + 1]
Start(n) == RuleDelta(Reference(n)) \div 256
ExcRules(n) == [o \in Offsets |-> ExcRule(n * BlockSz + o)]

Filled(n) ==
    /\ RuleType(Reference(n)) = 2
    /\ RuleDelta(Reference(n)) % 256 = Count(n)
    /\ Start(n) \in Nat /\ Start(n) + Count(n) <= Len(exceptions)
    /\ \A k \in 1 .. Count(n) :
          /\ exceptions[Start(n) + k][1] = Ascending(blocks[n + 1].exc)[k]
          /\ rules[exceptions[Start(n) + k][2] + 1]
               = ExcRules(n)[exceptions[Start(n) + k][1]]

Referred == \A n \in Based : HasExc(n) => Reference(n) = 0 \/ Filled(n)

(* tab[] has the packed slots of the blocks that are done; blocks without  *)
(* letters share theirs.                                                   *)
CasedUpto(n) == {m \in 0 .. n - 1 : Cased(file, m) # {}}

Tables ==
    /\ \A n \in 0 .. Len(tabL1) - 1 :
          /\ tabL1[n + 1] - L2Offset \in 0 .. Len(tabL2) - 1
          /\ tabL2[tabL1[n + 1] - L2Offset + 1] = Packed(n)
    /\ Len(tabL2) <= Cardinality(CasedUpto(Len(tabL1)))
                      + (IF CasedUpto(Len(tabL1)) = 0 .. Len(tabL1) - 1
                         THEN 0 ELSE 1)

GenInv ==
    /\ Shape /\ Progress /\ BlocksOK /\ Placed /\ Apart
    /\ Indexed /\ Referred /\ Tables

(* The search is among the exceptions of the block, with the one for the   *)
(* code point still among those left.                                      *)
Searching ==
    /\ wc < Limit /\ c \in blocks[b + 1].exc
    /\ xb \in Nat /\ xn \in Nat
    /\ Start(b) <= xb /\ xb + xn <= Start(b) + Count(b)
    /\ \E k \in xb .. xb + xn - 1 : exceptions[k + 1][1] = c

LookInv ==
    /\ pc \in {"idle", "fetch", "search", "return"}
    /\ pc # "idle" =>
         phase = "ready" /\ wc \in 0 .. Limit /\ lower \in {0, 1}
    /\ pc = "search" => Searching
    /\ pc = "return" /\ ~Wrapped => AnswersFile

CInv == GenInv /\ LookInv

-----------------------------------------------------------------------------
(* What a step does not change.                                            *)

(* While the file stays, so does all that is computed from it.             *)
LEMMA SameFile ==
    ASSUME UNCHANGED file
    PROVE  /\ toLower' = toLower /\ toUpper' = toUpper /\ FileOK' = FileOK
           /\ \A n : /\ CpRule(n)' = CpRule(n) /\ HasBoth(n)' = HasBoth(n)
                     /\ ExcRule(n)' = ExcRule(n) /\ ExcRules(n)' = ExcRules(n)
                     /\ Cased(file, n)' = Cased(file, n)
                     /\ CasedUpto(n)' = CasedUpto(n)
           /\ \A n, o : RuleAt(n, o)' = RuleAt(n, o)
<1>1. toLower' = toLower /\ toUpper' = toUpper
  BY DEF file
<1>2. \A n : CpRule(n)' = CpRule(n) /\ HasBoth(n)' = HasBoth(n)
  BY <1>1 DEF CpRule, HasBoth
<1>3. \A n : ExcRule(n)' = ExcRule(n)
  BY <1>1, <1>2 DEF ExcRule, Titlecase
<1>4. \A n : Cased(file, n)' = Cased(file, n)
  BY <1>1 DEF Cased, file
<1>5. \A n : CasedUpto(n)' = CasedUpto(n)
  BY <1>4 DEF CasedUpto
<1>6. \A n, o : RuleAt(n, o)' = RuleAt(n, o)
  BY <1>2 DEF RuleAt
<1>7. \A n : ExcRules(n)' = ExcRules(n)
  BY <1>3 DEF ExcRules
<1> QED BY <1>1, <1>2, <1>3, <1>4, <1>5, <1>6, <1>7 DEF FileOK

(* While the file stays, a good block stays good,                          *)
LEMMA GoodBlockSame ==
    ASSUME UNCHANGED file, NEW n, NEW blk, GoodBlock(n, blk)
    PROVE  GoodBlock(n, blk)'
BY SameFile DEF GoodBlock

(* also at its place in the list of blocks.                                *)
LEMMA GoodBlockStays ==
    ASSUME UNCHANGED file, NEW n, NEW blk, GoodBlock(n, blk), blocks'[n + 1] = blk
    PROVE  GoodBlock(n, blocks[n + 1])'
BY SameFile DEF GoodBlock

LEMMA BlocksSame ==
    ASSUME UNCHANGED <<file, blocks>>, BlocksOK
    PROVE  BlocksOK'
BY GoodBlockSame DEF BlocksOK, Built

(* Block() is a good block.                                                *)
LEMMA BlockGood ==
    ASSUME FileOK, NEW n \in 0 .. NBlocks - 1
    PROVE  GoodBlock(n, Block(n))
<1>1. n \in Nat
  BY SizeFacts
<1>2. /\ IsFiniteSet(Block(n).exc) /\ Cardinality(Block(n).exc) \in 0 .. 255
  BY ExceptionsFit
<1>3. Cased(file, n) = {} => Block(n) = [rules |-> <<0>>, exc |-> {}]
  BY <1>1, UncasedBlock
<1> DEFINE blk == Block(n)
<1>4. /\ blk.rules \in Seq(Int) /\ Len(blk.rules) \in 0 .. 6
      /\ blk.exc \in SUBSET Offsets
      /\ blk.exc # {} => Len(blk.rules) <= 5
      /\ blk.exc = {} => Len(blk.rules) >= 1
      /\ \A o \in Offsets \ blk.exc :
           /\ ~HasBoth(n * BlockSz + o)
           /\ \E k \in DOMAIN blk.rules : blk.rules[k] = RuleAt(n, o)
      /\ blk = [rules |-> blk.rules, exc |-> blk.exc]
  BY <1>1, BlockIs
<1> HIDE DEF blk
<1>5. DOMAIN blk.rules = 1 .. Len(blk.rules)
  BY <1>4
<1>6. \A o \in Offsets \ blk.exc :
         \E k \in 1 .. Len(blk.rules) : blk.rules[k] = RuleAt(n, o)
  BY <1>4, <1>5
<1> QED BY <1>2, <1>3, <1>4, <1>6 DEF GoodBlock, blk

(* The numbers of slots.                                                   *)
LEMMA SixSlots ==
    /\ \A m \in 0 .. 6 : m <= 5 => m \in 0 .. 5
    /\ \A m \in 0 .. 6 : \A k \in 1 .. m : k - 1 \in 0 .. 5
OBVIOUS

(* The packed slots fit a byte, and depend on the block alone.             *)
LEMMA SlotFits ==
    ASSUME BlocksOK, NEW n \in Built, NEW o
    PROVE  SlotOf(n, o) \in 0 .. 5
<1> DEFINE blk == blocks[n + 1]
<1>1. GoodBlock(n, blk)
  BY DEF BlocksOK
<1>2. SlotOf(n, o) = IF o \notin Offsets THEN 0
                     ELSE IF o \in blk.exc THEN Len(blk.rules)
                     ELSE PlaceOf(blk.rules, RuleAt(n, o)) - 1
  BY DEF SlotOf
<1> HIDE DEF blk
<1>3. CASE o \notin Offsets
  BY <1>2, <1>3
<1>4. CASE o \in Offsets /\ o \in blk.exc
  <2>1. Len(blk.rules) \in 0 .. 6 /\ Len(blk.rules) <= 5
    BY <1>1, <1>4 DEF GoodBlock
  <2>2. SlotOf(n, o) = Len(blk.rules)
    BY <1>2, <1>4
  <2> QED BY <2>1, <2>2, SixSlots
<1>5. CASE o \in Offsets /\ o \notin blk.exc
  <2>1. /\ blk.rules \in Seq(Int) /\ Len(blk.rules) \in 0 .. 6
        /\ \E k \in 1 .. Len(blk.rules) : blk.rules[k] = RuleAt(n, o)
    BY <1>1, <1>5 DEF GoodBlock
  <2>2. DOMAIN blk.rules = 1 .. Len(blk.rules)
    BY <2>1
  <2>3. PlaceOf(blk.rules, RuleAt(n, o)) \in DOMAIN blk.rules
    BY <2>1, <2>2, PlaceOfIs
  <2>4. PlaceOf(blk.rules, RuleAt(n, o)) \in 1 .. Len(blk.rules)
    BY <2>2, <2>3
  <2>5. SlotOf(n, o) = PlaceOf(blk.rules, RuleAt(n, o)) - 1
    BY <1>2, <1>5
  <2>6. Len(blk.rules) \in 0 .. 6
    BY <2>1
  <2> QED BY <2>4, <2>5, <2>6, SixSlots
<1> QED BY <1>3, <1>4, <1>5

(* Three slots packed fit a byte.                                          *)
LEMMA PackedFits ==
    ASSUME BlocksOK, NEW n \in Built
    PROVE  Packed(n) \in [1 .. Width -> 0 .. 215]
<1>1. \A o : SlotOf(n, o) \in 0 .. 5
  BY SlotFits
<1>2. \A i, j, k : SlotOf(n, i) * 36 + SlotOf(n, j) * 6 + SlotOf(n, k) \in 0 .. 215
  <2> SUFFICES ASSUME NEW i, NEW j, NEW k
               PROVE  SlotOf(n, i) * 36 + SlotOf(n, j) * 6 + SlotOf(n, k) \in 0 .. 215
    OBVIOUS
  <2>1. /\ SlotOf(n, i) \in 0 .. 5 /\ SlotOf(n, j) \in 0 .. 5
        /\ SlotOf(n, k) \in 0 .. 5
    BY <1>1
  <2> QED BY <2>1
<1> QED BY <1>2 DEF Packed

(* What is packed depends on the file and the blocks alone.                *)
LEMMA PackedSame ==
    ASSUME UNCHANGED <<file, blocks>>
    PROVE  \A n : Packed(n)' = Packed(n)
<1>1. blocks' = blocks /\ \A n, o : RuleAt(n, o)' = RuleAt(n, o)
  BY SameFile
<1>2. \A n, o : SlotOf(n, o)' = SlotOf(n, o)
  BY <1>1 DEF SlotOf
<1> QED BY <1>2 DEF Packed

(* Without letters, all slots are 0.                                       *)
LEMMA PackedUncased ==
    ASSUME BlocksOK, NEW n \in Built, Cased(file, n) = {}, FileOK
    PROVE  Packed(n) = [x \in 1 .. Width |-> 0]
<1>1. blocks[n + 1] = [rules |-> <<0>>, exc |-> {}]
  BY DEF BlocksOK, GoodBlock
<1>2. \A o \in Offsets : SlotOf(n, o) = 0
  <2> SUFFICES ASSUME NEW o \in Offsets PROVE SlotOf(n, o) = 0
    OBVIOUS
  <2>1. <<0>> \in Seq(Int) /\ DOMAIN <<0>> = {1} /\ <<0>>[1] = 0
    OBVIOUS
  <2>2. GoodBlock(n, blocks[n + 1])
    BY DEF BlocksOK
  <2>3. \E k \in 1 .. Len(<<0>>) : <<0>>[k] = RuleAt(n, o)
    BY <1>1, <2>2 DEF GoodBlock
  <2>4. RuleAt(n, o) = 0
    BY <2>3
  <2>5. PlaceOf(<<0>>, 0) = 1
    BY <2>1, PlaceOfIs
  <2>6. SlotOf(n, o) = PlaceOf(<<0>>, RuleAt(n, o)) - 1
    BY <1>1 DEF SlotOf
  <2> QED BY <2>4, <2>5, <2>6
<1>3. \A o : SlotOf(n, o) = 0
  BY <1>2 DEF SlotOf
<1> QED BY <1>3 DEF Packed

-----------------------------------------------------------------------------
(* The loops keep the invariant.                                           *)

(* The invariant holds at the start.                                       *)
LEMMA InitInv == CInit => CInv
<1> SUFFICES ASSUME CInit PROVE CInv
  OBVIOUS
<1> USE DEF CInit, GInit
<1>1. FileOK
  <2>1. PICK f \in Files : toLower = f[1] /\ toUpper = f[2]
    OBVIOUS
  <2>2. f = <<f[1], f[2]>>
    BY SizesOK
  <2> QED BY <2>1, <2>2 DEF FileOK
<1>2. Shape
  BY <1>1 DEF Shape
<1>3. Progress
  BY SizeFacts DEF Progress
<1>4. Built = {} /\ Based = {}
  BY DEF Built, Based
<1>5. BlocksOK /\ Apart /\ Referred
  BY <1>4 DEF BlocksOK, Apart, Referred
<1>6. Placed /\ Indexed
  BY <1>4 DEF Placed, Indexed
<1>7. Tables
  <2>1. Len(tabL1) = 0 /\ Len(tabL2) = 0 /\ 0 .. -1 = {}
    OBVIOUS
  <2>2. CasedUpto(0) = {}
    BY DEF CasedUpto
  <2>3. Cardinality({}) = 0
    BY FS_EmptySet
  <2>4. /\ CasedUpto(Len(tabL1)) = {} /\ 0 .. Len(tabL1) - 1 = {}
        /\ Len(tabL2) <= 0 + 0
    BY <2>1, <2>2
  <2> QED BY <2>3, <2>4 DEF Tables
<1>8. GenInv
  BY <1>2, <1>3, <1>5, <1>6, <1>7 DEF GenInv
<1>9. LookInv
  BY DEF LookInv
<1> QED BY <1>8, <1>9 DEF CInv

(* The first loop over the blocks keeps the invariant.                     *)
LEMMA BuildKeeps == GenInv /\ BuildBlock => GenInv'
<1> SUFFICES ASSUME GenInv, BuildBlock PROVE GenInv'
  OBVIOUS
<1> DEFINE n == Len(blocks)
<1>1. /\ phase = "blocks" /\ n \in Nat /\ n < NBlocks /\ Len(rulebases) = 0
      /\ Len(tabL1) = 0 /\ FileOK
  BY DEF GenInv, Shape, Progress, BuildBlock, Loop
<1>2. /\ blocks' = Append(blocks, Block(n))
      /\ UNCHANGED <<file, rules, rulebases, exceptions, seqBase, excIdx, tabL1, tabL2>>
      /\ phase' = IF n + 1 = NBlocks THEN "rulebases" ELSE "blocks"
  BY <1>1 DEF BuildBlock, Loop
<1>3. GoodBlock(n, Block(n))
  <2>1. n \in 0 .. NBlocks - 1
    BY <1>1, SizeFacts
  <2> QED BY <1>1, <2>1, BlockGood
<1>4. Block(n) \in [rules : Seq(Int), exc : SUBSET Offsets]
  BY <1>3 DEF GoodBlock
<1>5. /\ blocks \in Seq([rules : Seq(Int), exc : SUBSET Offsets])
      /\ blocks' \in Seq([rules : Seq(Int), exc : SUBSET Offsets])
      /\ Len(blocks') = n + 1 /\ blocks'[n + 1] = Block(n)
      /\ \A k \in 1 .. n : blocks'[k] = blocks[k]
  <2>1. blocks \in Seq([rules : Seq(Int), exc : SUBSET Offsets])
    BY DEF GenInv, Shape
  <2> QED BY <1>2, <1>4, <2>1
<1>6. Shape'
  BY <1>1, <1>2, <1>5, SameFile DEF GenInv, Shape
<1>7. Progress'
  BY <1>1, <1>2, <1>5, SizeFacts DEF Progress
<1>8. BlocksOK'
  <2> SUFFICES ASSUME NEW m \in Built' PROVE GoodBlock(m, blocks[m + 1])'
    BY DEF BlocksOK
  <2>1. m \in 0 .. n
    BY <1>1, <1>5 DEF Built
  <2>2. CASE m = n
    <3>1. PICK blk : blk = Block(n)
      OBVIOUS
    <3>2. GoodBlock(m, blk)
      BY <1>3, <2>2, <3>1
    <3>3. blocks'[m + 1] = blk
      BY <1>5, <2>2, <3>1
    <3> QED BY <1>2, <3>2, <3>3, GoodBlockStays
  <2>3. CASE m # n
    <3>1. m \in Built /\ m + 1 \in 1 .. n
      BY <1>1, <2>1, <2>3 DEF Built
    <3>2. GoodBlock(m, blocks[m + 1]) /\ blocks'[m + 1] = blocks[m + 1]
      BY <1>5, <3>1 DEF GenInv, BlocksOK
    <3>3. PICK blk : blk = blocks[m + 1]
      OBVIOUS
    <3>4. GoodBlock(m, blk) /\ blocks'[m + 1] = blk
      BY <3>2, <3>3
    <3> QED BY <1>2, <3>4, GoodBlockStays
  <2> QED BY <2>2, <2>3
<1>9. Based = {} /\ Based' = {}
  BY <1>1, <1>2 DEF Based
<1>10. \A k : ~Reserved(k) /\ ~Reserved(k)'
  BY <1>9 DEF Reserved
<1>11. Apart' /\ Referred'
  BY <1>9 DEF Apart, Referred
<1>12. Placed'
  BY <1>2, <1>9, <1>10 DEF GenInv, Placed, Holds
<1>13. Indexed'
  BY <1>2, <1>10 DEF GenInv, Indexed, Kept
<1>14. Tables'
  <2>1. tabL1' = tabL1 /\ tabL2' = tabL2 /\ 0 .. Len(tabL1) - 1 = {}
    BY <1>1, <1>2
  <2>2. CasedUpto(Len(tabL1))' = CasedUpto(Len(tabL1))
    BY <1>2, <2>1, SameFile
  <2> QED BY <2>1, <2>2 DEF GenInv, Tables
<1> QED BY <1>6, <1>7, <1>8, <1>11, <1>12, <1>13, <1>14 DEF GenInv

(* What holds of rules that no reference overwrites goes on to hold when   *)
(* they stay as they are, whatever else is written.                        *)
LEMMA Within ==
    \A base, m, n \in Nat : base + m <= n =>
       \A k \in 1 .. m : base + k \in 1 .. n
OBVIOUS

(* Rules that stay in place keep what the blocks refer to.                 *)
LEMMA KeptStays ==
    ASSUME rules \in Seq(Int), rules' \in Seq(Int), Len(rules) <= Len(rules'),
           \A k \in 1 .. Len(rules) :
              ~Reserved(k) => ~Reserved(k)' /\ rules'[k] = rules[k]
    PROVE  /\ \A base \in Nat, s \in Seq(Int) : Holds(base, s) => Holds(base, s)'
           /\ \A k : Kept(k) => Kept(k)' /\ rules'[k + 1] = rules[k + 1]
<1>1. Len(rules) \in Nat /\ Len(rules') \in Nat
  OBVIOUS
<1>2. ASSUME NEW base \in Nat, NEW s \in Seq(Int), Holds(base, s)
      PROVE  Holds(base, s)'
  <2>1. Len(s) \in Nat
    OBVIOUS
  <2>2. \A k \in 1 .. Len(s) : base + k \in 1 .. Len(rules)
    <3>1. base + Len(s) <= Len(rules)
      BY <1>2 DEF Holds
    <3> QED BY <1>1, <2>1, <3>1, Within
  <2>3. \A k \in 1 .. Len(s) : rules'[base + k] = s[k] /\ ~Reserved(base + k)'
    BY <1>2, <2>2 DEF Holds
  <2>4. base + Len(s) <= Len(rules')
    BY <1>1, <1>2, <2>1 DEF Holds
  <2> QED BY <2>3, <2>4 DEF Holds
<1>3. ASSUME NEW k, Kept(k) PROVE Kept(k)' /\ rules'[k + 1] = rules[k + 1]
  <2>1. k + 1 \in 1 .. Len(rules) /\ ~Reserved(k + 1)
    BY <1>3 DEF Kept
  <2>2. k + 1 \in 1 .. Len(rules')
    BY <1>1, <2>1
  <2> QED BY <2>1, <2>2 DEF Kept
<1> QED BY <1>2, <1>3

(* Where the rules of a block and its reference are.                       *)
LEMMA PlacesOfBlocks ==
    ASSUME Shape, BlocksOK, Progress, NEW n \in Based
    PROVE  /\ n \in Built /\ rulebases[n + 1] \in Nat
           /\ blocks[n + 1].rules \in Seq(Int)
           /\ Len(blocks[n + 1].rules) \in Nat /\ ExcPos(n) \in Nat
           /\ ExcPos(n) = rulebases[n + 1] + Len(blocks[n + 1].rules)
<1>1. rulebases \in Seq(Nat) /\ Len(rulebases) \in Nat /\ Len(blocks) \in Nat
  BY DEF Shape
<1>2. Len(rulebases) <= Len(blocks)
  BY <1>1, SizeFacts DEF Shape, Progress
<1>3. n \in Built /\ n + 1 \in 1 .. Len(rulebases)
  BY <1>1, <1>2 DEF Based, Built
<1>4. rulebases[n + 1] \in Nat
  BY <1>1, <1>3
<1>5. blocks[n + 1].rules \in Seq(Int) /\ Len(blocks[n + 1].rules) \in Nat
  <2>1. GoodBlock(n, blocks[n + 1])
    BY <1>3 DEF BlocksOK
  <2>2. blocks[n + 1].rules \in Seq(Int)
    BY <2>1 DEF GoodBlock
  <2> QED BY <2>2
<1> QED BY <1>3, <1>4, <1>5 DEF ExcPos

(* The exceptions of a block are counted in a byte.                        *)
LEMMA CountFits ==
    ASSUME BlocksOK, NEW n \in Built
    PROVE  Count(n) \in 0 .. 255 /\ Count(n) \in Nat
<1>1. GoodBlock(n, blocks[n + 1])
  BY DEF BlocksOK
<1>2. Count(n) \in 0 .. 255
  BY <1>1 DEF GoodBlock, Count
<1>3. 0 .. 255 \subseteq Nat
  OBVIOUS
<1> HIDE DEF Count
<1> QED BY <1>2, <1>3

(* A sequence over a subset.                                               *)
LEMMA ListOf ==
    ASSUME NEW A, NEW B, A \subseteq B, NEW s \in Seq(A)
    PROVE  s \in Seq(B) /\ \A k \in 1 .. Len(s) : s[k] \in A
<1>1. Len(s) \in Nat /\ s \in [1 .. Len(s) -> A]
  OBVIOUS
<1>2. s \in [1 .. Len(s) -> B]
  BY <1>1
<1> QED BY <1>1, <1>2

(* The exceptions of a block, listed.                                      *)
LEMMA ExceptionsListed ==
    ASSUME BlocksOK, NEW n \in Built,
           NEW offs, offs = Ascending(blocks[n + 1].exc)
    PROVE  /\ offs \in Seq(Offsets) /\ Len(offs) = Count(n) /\ Count(n) \in Nat
           /\ \A k \in 1 .. Count(n) : offs[k] \in Offsets
           /\ \A x \in blocks[n + 1].exc : \E k \in 1 .. Count(n) : offs[k] = x
           /\ \A j, k \in 1 .. Count(n) : j < k => offs[j] < offs[k]
<1>1. PICK E : E = blocks[n + 1].exc
  OBVIOUS
<1>2. GoodBlock(n, blocks[n + 1])
  BY DEF BlocksOK
<1>3. E \in SUBSET Offsets /\ IsFiniteSet(E)
  BY <1>1, <1>2 DEF GoodBlock
<1>4. E \in SUBSET Int
  BY <1>3, OffsetsFinite
<1>5. Count(n) = Cardinality(E) /\ offs = Ascending(E)
  BY <1>1 DEF Count
<1>6. /\ offs \in Seq(E) /\ Len(offs) = Count(n) /\ Count(n) \in Nat
      /\ \A x \in E : \E k \in 1 .. Count(n) : offs[k] = x
      /\ \A j, k \in 1 .. Count(n) : j < k => offs[j] < offs[k]
  BY <1>3, <1>4, <1>5, AscendingLists
<1>7. offs \in Seq(Offsets) /\ \A k \in 1 .. Count(n) : offs[k] \in E
  BY <1>3, <1>6, ListOf
<1> QED BY <1>1, <1>3, <1>6, <1>7

(* A reference that stays, to exceptions that stay, stays filled in.       *)
LEMMA FilledStays ==
    ASSUME Shape, Indexed, NEW n, Filled(n), UNCHANGED <<file, blocks>>,
           Reference(n)' = Reference(n),
           exceptions' \in Seq(Offsets \X Nat),
           Len(exceptions) <= Len(exceptions'),
           \A k \in 1 .. Len(exceptions) : exceptions'[k] = exceptions[k],
           \A k : Kept(k) => rules'[k + 1] = rules[k + 1],
           Count(n) \in Nat
    PROVE  Filled(n)'
<1>1. Count(n)' = Count(n) /\ Start(n)' = Start(n)
  BY DEF Count, Start
<1>2. /\ Start(n) \in Nat /\ Start(n) + Count(n) <= Len(exceptions)
      /\ Len(exceptions) \in Nat /\ Len(exceptions') \in Nat
  BY DEF Filled, Shape
<1>3. Start(n) + Count(n) <= Len(exceptions')
  BY <1>2
<1>4. ASSUME NEW k \in 1 .. Count(n)
      PROVE  /\ exceptions'[Start(n) + k][1] = Ascending(blocks[n + 1].exc)[k]
             /\ rules'[exceptions'[Start(n) + k][2] + 1]
                  = ExcRules(n)[exceptions'[Start(n) + k][1]]
  <2>1. Start(n) + k \in 1 .. Len(exceptions)
    BY <1>2, Within
  <2>2. exceptions'[Start(n) + k] = exceptions[Start(n) + k]
    BY <2>1
  <2>3. Kept(exceptions[Start(n) + k][2])
    BY <2>1 DEF Indexed
  <2>4. /\ exceptions[Start(n) + k][1] = Ascending(blocks[n + 1].exc)[k]
        /\ rules[exceptions[Start(n) + k][2] + 1]
             = ExcRules(n)[exceptions[Start(n) + k][1]]
    BY DEF Filled
  <2>5. rules'[exceptions[Start(n) + k][2] + 1]
          = rules[exceptions[Start(n) + k][2] + 1]
    BY <2>3
  <2> QED BY <2>2, <2>4, <2>5
<1>5. ExcRules(n)' = ExcRules(n) /\ blocks' = blocks
  BY SameFile
<1>6. /\ RuleType(Reference(n))' = 2
      /\ RuleDelta(Reference(n))' % 256 = Count(n)
  BY DEF Filled, RuleType, RuleDelta
<1> QED BY <1>1, <1>2, <1>3, <1>4, <1>5, <1>6 DEF Filled

(* References stay inside rules[].                                         *)
LEMMA ReservedInside ==
    ASSUME Shape, Placed, BlocksOK, Progress, NEW k, Reserved(k)
    PROVE  k \in 1 .. Len(rules)
<1>1. PICK n \in Based : HasExc(n) /\ k = ExcPos(n) + 1
  BY DEF Reserved
<1>2. ExcPos(n) + 1 <= Len(rules) /\ Len(rules) \in Nat
  BY <1>1 DEF Placed, Shape
<1>3. ExcPos(n) \in Nat
  BY PlacesOfBlocks
<1> QED BY <1>1, <1>2, <1>3

(* The rules of the next block are at base, and the place of its reference *)
(* follows them.                                                           *)
Allocated(n, blk, base) ==
    /\ n = Len(rulebases) /\ n < NBlocks /\ blk = blocks[n + 1]
    /\ base \in Nat
    /\ rulebases' = Append(rulebases, base)
    /\ rules' \in Seq(Int) /\ Len(rules) <= Len(rules')
    /\ \A k \in 1 .. Len(rules) : rules'[k] = rules[k]
    /\ blk.exc # {} =>
         /\ base = Len(rules)
         /\ base + Len(blk.rules) + 1 <= Len(rules')
         /\ rules'[base + Len(blk.rules) + 1] = 0
    /\ \/ blk.exc = {} /\ Holds(base, blk.rules)
       \/ /\ base = Len(rules) /\ base + Len(blk.rules) <= Len(rules')
          /\ \A k \in 1 .. Len(blk.rules) : rules'[base + k] = blk.rules[k]
    /\ \A q \in DOMAIN seqBase' :
         \/ q \in DOMAIN seqBase /\ seqBase'[q] = seqBase[q]
         \/ q = blk.rules /\ seqBase'[q] = base

(* Laying out the rules of one block keeps the invariant.                  *)
LEMMA AllocatedKeeps ==
    ASSUME GenInv, phase = "rulebases", NEW n, NEW blk, NEW base,
           Allocated(n, blk, base),
           phase' = IF n + 1 = NBlocks THEN "tables" ELSE "rulebases",
           UNCHANGED <<file, blocks, exceptions, excIdx, tabL1, tabL2>>
    PROVE  GenInv'
<1>1. /\ n \in Nat /\ n < NBlocks /\ Len(blocks) = NBlocks /\ Len(tabL1) = 0
      /\ Len(rulebases) = n /\ rulebases \in Seq(Nat) /\ rules \in Seq(Int)
      /\ Len(rules) \in Nat /\ base \in Nat /\ rules' \in Seq(Int)
      /\ Len(rules') \in Nat
  BY DEF GenInv, Shape, Progress, Allocated
<1>2. /\ rulebases' \in Seq(Nat) /\ Len(rulebases') = n + 1
      /\ rulebases'[n + 1] = base
      /\ \A k \in 1 .. n : rulebases'[k] = rulebases[k]
  BY <1>1 DEF Allocated
<1>3. n \in Built /\ GoodBlock(n, blk) /\ blk = blocks[n + 1]
  BY <1>1 DEF GenInv, BlocksOK, Built, Allocated
<1>4. /\ blk.rules \in Seq(Int) /\ Len(blk.rules) \in Nat
  BY <1>3 DEF GoodBlock
<1>5. Based' = Based \cup {n} /\ n \notin Based /\ \A m \in Based : m + 1 \in 1 .. n
  BY <1>1, <1>2 DEF Based
<1>6. \A m \in Based : /\ ExcPos(m)' = ExcPos(m) /\ HasExc(m)' = HasExc(m)
                       /\ rulebases'[m + 1] = rulebases[m + 1]
  BY <1>2, <1>5 DEF ExcPos, HasExc
<1>7. ExcPos(n)' = base + Len(blk.rules) /\ HasExc(n)' = (blk.exc # {})
  BY <1>2, <1>3 DEF ExcPos, HasExc
<1> DEFINE new == base + Len(blk.rules) + 1
<1>8. \A k : Reserved(k)' <=> Reserved(k) \/ (blk.exc # {} /\ k = new)
  BY <1>5, <1>6, <1>7 DEF Reserved
<1>9. \A k : Reserved(k) => k \in 1 .. Len(rules)
  BY ReservedInside DEF GenInv
<1>10. blk.exc # {} => new > Len(rules)
  BY <1>1, <1>4 DEF Allocated
<1>11. \A k \in 1 .. Len(rules) :
          ~Reserved(k) => ~Reserved(k)' /\ rules'[k] = rules[k]
  <2> SUFFICES ASSUME NEW k \in 1 .. Len(rules), ~Reserved(k)
               PROVE  ~Reserved(k)' /\ rules'[k] = rules[k]
    OBVIOUS
  <2>1. k <= Len(rules)
    BY <1>1
  <2>2. blk.exc # {} => k # new
    BY <1>1, <1>4, <1>10, <2>1
  <2> QED BY <1>8, <2>2 DEF Allocated
<1>12. /\ \A i \in Nat, s \in Seq(Int) : Holds(i, s) => Holds(i, s)'
       /\ \A k : Kept(k) => Kept(k)' /\ rules'[k + 1] = rules[k + 1]
  BY <1>1, <1>11, KeptStays DEF Allocated
<1>13. Holds(base, blk.rules)'
  <2>1. CASE Holds(base, blk.rules)
    BY <1>1, <1>4, <1>12, <2>1
  <2>2. CASE /\ base = Len(rules) /\ base + Len(blk.rules) <= Len(rules')
             /\ \A k \in 1 .. Len(blk.rules) : rules'[base + k] = blk.rules[k]
    <3>1. ASSUME NEW k \in 1 .. Len(blk.rules) PROVE ~Reserved(base + k)'
      <4>1. base + k > Len(rules) /\ base + k # new
        BY <1>1, <1>4, <2>2
      <4>2. ~Reserved(base + k)
        BY <1>1, <1>9, <4>1
      <4> QED BY <1>8, <4>1, <4>2
    <3> QED BY <2>2, <3>1 DEF Holds
  <2> QED BY <2>1, <2>2 DEF Allocated
<1>14. Placed'
  <2>1. ASSUME NEW m \in Based
        PROVE  /\ Holds(rulebases[m + 1], blocks[m + 1].rules)'
               /\ HasExc(m)' => ExcPos(m)' + 1 <= Len(rules')
    <3>1. /\ Holds(rulebases[m + 1], blocks[m + 1].rules)
          /\ HasExc(m) => ExcPos(m) + 1 <= Len(rules)
      BY DEF GenInv, Placed
    <3>2. /\ rulebases[m + 1] \in Nat /\ blocks[m + 1].rules \in Seq(Int)
      BY PlacesOfBlocks DEF GenInv
    <3>3. PICK i, s : i = rulebases[m + 1] /\ s = blocks[m + 1].rules
      OBVIOUS
    <3>4. Holds(i, s)'
      BY <1>12, <3>1, <3>2, <3>3
    <3>5. rulebases'[m + 1] = i /\ blocks'[m + 1].rules = s
      BY <1>6, <3>3
    <3>6. HasExc(m)' => ExcPos(m)' + 1 <= Len(rules')
      <4>1. HasExc(m) => ExcPos(m) \in Nat
        BY PlacesOfBlocks DEF GenInv
      <4> QED BY <1>1, <1>6, <3>1, <4>1 DEF Allocated
    <3> QED BY <3>4, <3>5, <3>6 DEF Holds
  <2>2. /\ Holds(rulebases[n + 1], blocks[n + 1].rules)'
        /\ HasExc(n)' => ExcPos(n)' + 1 <= Len(rules')
    BY <1>2, <1>3, <1>7, <1>13 DEF Holds, Allocated
  <2>3. ASSUME NEW q \in DOMAIN seqBase'
        PROVE  q \in Seq(Int) /\ seqBase'[q] \in Nat /\ Holds(seqBase[q], q)'
    <3>1. CASE q \in DOMAIN seqBase /\ seqBase'[q] = seqBase[q]
      <4>1. q \in Seq(Int) /\ seqBase[q] \in Nat /\ Holds(seqBase[q], q)
        BY <3>1 DEF GenInv, Placed
      <4>2. PICK i : i = seqBase[q]
        OBVIOUS
      <4>3. Holds(i, q)' /\ seqBase'[q] = i
        BY <1>12, <3>1, <4>1, <4>2
      <4> QED BY <4>1, <4>2, <4>3 DEF Holds
    <3>2. CASE q = blk.rules /\ seqBase'[q] = base
      BY <1>1, <1>4, <1>13, <3>2 DEF Holds
    <3> QED BY <3>1, <3>2 DEF Allocated
  <2> QED BY <1>5, <2>1, <2>2, <2>3 DEF Placed
<1>15. Apart'
  <2> SUFFICES ASSUME NEW i \in Based', NEW m \in Based', HasExc(i)', HasExc(m)',
                      ExcPos(i)' = ExcPos(m)'
               PROVE  i = m
    BY DEF Apart
  <2>1. \A k \in Based : HasExc(k) => ExcPos(k) + 1 \in 1 .. Len(rules)
    BY <1>9 DEF Reserved
  <2>2. \A k \in Based : HasExc(k)' => ExcPos(k)' + 1 # new \/ blk.exc = {}
    BY <1>1, <1>6, <1>10, <2>1
  <2>3. ExcPos(n)' + 1 = new
    BY <1>7
  <2>4. CASE i \in Based /\ m \in Based
    BY <1>6, <2>4 DEF GenInv, Apart
  <2>5. CASE i = n \/ m = n
    BY <1>5, <1>7, <2>2, <2>3, <2>5
  <2> QED BY <1>5, <2>4, <2>5
<1>16. Indexed'
  <2>1. ASSUME NEW q \in DOMAIN excIdx'
        PROVE  excIdx'[q] \in Nat /\ Kept(excIdx[q])' /\ rules'[excIdx'[q] + 1] = q
    <3>1. /\ excIdx[q] \in Nat /\ Kept(excIdx[q]) /\ rules[excIdx[q] + 1] = q
          /\ excIdx'[q] = excIdx[q]
      BY DEF GenInv, Indexed
    <3>2. PICK i : i = excIdx[q]
      OBVIOUS
    <3>3. Kept(i)' /\ rules'[i + 1] = q
      BY <1>12, <3>1, <3>2
    <3> QED BY <3>1, <3>2, <3>3 DEF Kept
  <2>2. ASSUME NEW k \in 1 .. Len(exceptions') PROVE Kept(exceptions[k][2])'
    <3>1. PICK i : i = exceptions[k][2]
      OBVIOUS
    <3>2. Kept(i)' /\ exceptions'[k][2] = i
      BY <1>12, <3>1 DEF GenInv, Indexed
    <3> QED BY <3>2 DEF Kept
  <2> QED BY <2>1, <2>2 DEF Indexed
<1>17. Referred'
  <2> SUFFICES ASSUME NEW m \in Based', HasExc(m)'
               PROVE  Reference(m)' = 0 \/ Filled(m)'
    BY DEF Referred
  <2>1. CASE m = n
    BY <1>7, <2>1 DEF Reference, Allocated
  <2>2. CASE m \in Based
    <3>1. HasExc(m) /\ ExcPos(m)' = ExcPos(m) /\ ExcPos(m) + 1 \in 1 .. Len(rules)
      BY <1>6, <1>9, <2>2 DEF Reserved
    <3>2. Reference(m)' = Reference(m)
      BY <3>1 DEF Reference, Allocated
    <3>3. Reference(m) = 0 \/ Filled(m)
      BY <2>2, <3>1 DEF GenInv, Referred
    <3>4. Count(m) \in Nat
      <4>1. m \in Built
        BY <2>2, PlacesOfBlocks DEF GenInv
      <4> QED BY <4>1, CountFits DEF GenInv
    <3>5. /\ exceptions' = exceptions /\ exceptions \in Seq(Offsets \X Nat)
          /\ Len(exceptions) <= Len(exceptions)
      BY DEF GenInv, Shape
    <3>6. CASE Filled(m)
      <4>1. Filled(m)'
        BY <1>12, <3>2, <3>4, <3>5, <3>6, FilledStays DEF GenInv
      <4> QED BY <4>1
    <3> QED BY <3>2, <3>3, <3>6
  <2> QED BY <1>5, <2>1, <2>2
<1>18. Shape'
  BY <1>1, <1>2, SameFile DEF GenInv, Shape
<1>19. Progress'
  BY <1>1, <1>2 DEF Progress
<1>20. BlocksOK'
  BY BlocksSame DEF GenInv
<1>21. Tables'
  <2>1. tabL1' = tabL1 /\ tabL2' = tabL2 /\ 0 .. Len(tabL1) - 1 = {}
    BY <1>1
  <2>2. CasedUpto(Len(tabL1))' = CasedUpto(Len(tabL1))
    BY <2>1, SameFile
  <2> QED BY <2>1, <2>2 DEF GenInv, Tables
<1> QED BY <1>14, <1>15, <1>16, <1>17, <1>18, <1>19, <1>20, <1>21 DEF GenInv

(* Two sequences one after the other,                                      *)
LEMMA Joined ==
    ASSUME NEW V, NEW s \in Seq(V), NEW t \in Seq(V)
    PROVE  /\ s \o t \in Seq(V) /\ Len(s \o t) = Len(s) + Len(t)
           /\ \A k \in 1 .. Len(s) : (s \o t)[k] = s[k]
           /\ \A k \in 1 .. Len(t) : (s \o t)[Len(s) + k] = t[k]
OBVIOUS

(* and with one more element at the end.                                   *)
LEMMA Closed ==
    ASSUME NEW V, NEW s \in Seq(V), NEW t \in Seq(V), NEW e \in V,
           NEW all, all = s \o t \o <<e>>
    PROVE  /\ all \in Seq(V) /\ Len(all) = Len(s) + Len(t) + 1
           /\ \A k \in 1 .. Len(s) : all[k] = s[k]
           /\ \A k \in 1 .. Len(t) : all[Len(s) + k] = t[k]
           /\ all[Len(s) + Len(t) + 1] = e
<1> DEFINE st == s \o t
           last == <<e>>
<1>1. /\ st \in Seq(V) /\ Len(st) = Len(s) + Len(t)
      /\ \A k \in 1 .. Len(s) : st[k] = s[k]
      /\ \A k \in 1 .. Len(t) : st[Len(s) + k] = t[k]
  BY Joined
<1>2. Len(s) \in Nat /\ Len(t) \in Nat
  OBVIOUS
<1>7. all = st \o last
  OBVIOUS
<1>8. last \in Seq(V) /\ Len(last) = 1 /\ last[1] = e /\ 1 \in 1 .. Len(last)
  OBVIOUS
<1> HIDE DEF st, last
<1>3. /\ all \in Seq(V) /\ Len(all) = Len(st) + 1
      /\ \A k \in 1 .. Len(st) : all[k] = st[k]
      /\ all[Len(st) + 1] = e
  BY <1>1, <1>7, <1>8, Joined
<1>4. \A k \in 1 .. Len(s) : k \in 1 .. Len(st)
  BY <1>1, <1>2
<1>5. \A k \in 1 .. Len(t) : Len(s) + k \in 1 .. Len(st)
  BY <1>1, <1>2
<1>6. /\ \A k \in 1 .. Len(s) : all[k] = s[k]
      /\ \A k \in 1 .. Len(t) : all[Len(s) + k] = t[k]
  BY <1>1, <1>3, <1>4, <1>5
<1> QED BY <1>1, <1>3, <1>6

(* The second loop over the blocks keeps the invariant.                    *)
LEMMA AllocateKeeps == GenInv /\ AllocateRules => GenInv'
<1> SUFFICES ASSUME GenInv, AllocateRules PROVE GenInv'
  OBVIOUS
<1>1. PICK n, blk : n = Len(rulebases) /\ blk = blocks[n + 1]
  OBVIOUS
<1>2. /\ phase = "rulebases"
      /\ phase' = IF n + 1 = NBlocks THEN "tables" ELSE "rulebases"
      /\ UNCHANGED <<file, blocks, exceptions, excIdx, tabL1, tabL2>>
  BY <1>1 DEF AllocateRules, Loop
<1>3. /\ n \in Nat /\ n < NBlocks /\ Len(blocks) = NBlocks
      /\ rules \in Seq(Int) /\ Len(rules) \in Nat /\ Len(rules) <= Len(rules)
  BY <1>1, <1>2 DEF GenInv, Shape, Progress
<1>4. GoodBlock(n, blk)
  <2>1. n \in Built
    BY <1>3 DEF Built
  <2> QED BY <1>1, <2>1 DEF GenInv, BlocksOK
<1>5. blk.rules \in Seq(Int) /\ Len(blk.rules) \in Nat
  <2>1. blk.rules \in Seq(Int)
    BY <1>4 DEF GoodBlock
  <2> QED BY <2>1
<1>6. \E base : Allocated(n, blk, base)
  <2>1. CASE blk.exc = {} /\ blk.rules \in DOMAIN seqBase
    <3>1. PICK base : base = seqBase[blk.rules]
      OBVIOUS
    <3>2. base \in Nat /\ Holds(base, blk.rules)
      BY <2>1, <3>1 DEF GenInv, Placed
    <3>3. /\ rulebases' = Append(rulebases, base)
          /\ rules' = rules /\ seqBase' = seqBase
      BY <1>1, <2>1, <3>1 DEF AllocateRules
    <3>4. Allocated(n, blk, base)
      BY <1>1, <1>3, <2>1, <3>2, <3>3 DEF Allocated
    <3> QED BY <3>4
  <2>2. CASE blk.exc # {}
    <3>1. PICK base : base = Len(rules)
      OBVIOUS
    <3>2. /\ rulebases' = Append(rulebases, base)
          /\ rules' = rules \o blk.rules \o <<0>> /\ seqBase' = seqBase
      BY <1>1, <2>2, <3>1 DEF AllocateRules
    <3>3. /\ rules' \in Seq(Int) /\ Len(rules') = Len(rules) + Len(blk.rules) + 1
          /\ \A k \in 1 .. Len(rules) : rules'[k] = rules[k]
          /\ \A k \in 1 .. Len(blk.rules) : rules'[Len(rules) + k] = blk.rules[k]
          /\ rules'[Len(rules) + Len(blk.rules) + 1] = 0
      <4>1. PICK s, t, all, e : s = rules /\ t = blk.rules /\ all = rules' /\ e = 0
        OBVIOUS
      <4>2. s \in Seq(Int) /\ t \in Seq(Int) /\ e \in Int
        BY <1>3, <1>5, <4>1
      <4>3. all = s \o t \o <<e>>
        BY <3>2, <4>1
      <4>4. /\ all \in Seq(Int) /\ Len(all) = Len(s) + Len(t) + 1
            /\ \A k \in 1 .. Len(s) : all[k] = s[k]
            /\ \A k \in 1 .. Len(t) : all[Len(s) + k] = t[k]
            /\ all[Len(s) + Len(t) + 1] = e
        BY <4>2, <4>3, Closed
      <4> QED BY <4>1, <4>4
    <3>4. /\ Len(rules) <= Len(rules') /\ base \in Nat
          /\ base + Len(blk.rules) + 1 <= Len(rules')
          /\ base + Len(blk.rules) <= Len(rules')
      BY <1>3, <1>5, <3>1, <3>3
    <3>5. /\ rules'[base + Len(blk.rules) + 1] = 0
          /\ \A k \in 1 .. Len(blk.rules) : rules'[base + k] = blk.rules[k]
      BY <3>1, <3>3
    <3>6. \A q \in DOMAIN seqBase' : q \in DOMAIN seqBase /\ seqBase'[q] = seqBase[q]
      BY <3>2
    <3>7. Allocated(n, blk, base)
      BY <1>1, <1>3, <3>1, <3>2, <3>3, <3>4, <3>5, <3>6 DEF Allocated
    <3> QED BY <3>7
  <2>3. CASE blk.exc = {} /\ blk.rules \notin DOMAIN seqBase
    <3>1. PICK base : base = Len(rules)
      OBVIOUS
    <3>2. /\ rulebases' = Append(rulebases, base)
          /\ rules' = rules \o blk.rules
          /\ seqBase' = [k \in DOMAIN seqBase \cup {blk.rules} |->
                           IF k = blk.rules THEN base ELSE seqBase[k]]
      BY <1>1, <2>3, <3>1 DEF AllocateRules
    <3>3. /\ rules' \in Seq(Int) /\ Len(rules') = Len(rules) + Len(blk.rules)
          /\ \A k \in 1 .. Len(rules) : rules'[k] = rules[k]
          /\ \A k \in 1 .. Len(blk.rules) : rules'[Len(rules) + k] = blk.rules[k]
      BY <1>3, <1>5, <3>2
    <3>4. \A q \in DOMAIN seqBase' :
             \/ q \in DOMAIN seqBase /\ seqBase'[q] = seqBase[q]
             \/ q = blk.rules /\ seqBase'[q] = base
      BY <3>2
    <3>5. Allocated(n, blk, base)
      BY <1>1, <1>3, <1>5, <2>3, <3>1, <3>2, <3>3, <3>4 DEF Allocated
    <3> QED BY <3>5
  <2> QED BY <2>1, <2>2, <2>3
<1>7. PICK base : Allocated(n, blk, base)
  BY <1>6
<1> QED BY <1>2, <1>7, AllocatedKeeps

(* The least of the blocks whose reference is open.                        *)
LEMMA PendingLeast ==
    ASSUME Shape, Progress, phase = "tables", Pending # {}
    PROVE  /\ Min(Pending) \in Based /\ HasExc(Min(Pending))
           /\ Reference(Min(Pending)) = 0
<1>1. Pending \in SUBSET Nat
  BY SizeFacts DEF Pending
<1>2. Based = 0 .. NBlocks - 1
  BY DEF Progress, Based
<1> DEFINE P == Pending
<1>3. Min(P) \in P
  <2> HIDE DEF P
  <2>1. P \in SUBSET Nat /\ P # {}
    BY <1>1 DEF P
  <2>2. \E x \in P : \A y \in P : x <= y
    BY <2>1, LeastOf
  <2> QED BY <2>2 DEF Min
<1> QED BY <1>2, <1>3 DEF Pending, HasExc, Reference

(* The reference of block n to its exceptions offs is filled in, and the   *)
(* rules of these are in rules[].                                          *)
FilledIn(n, offs, fresh, index) ==
    /\ fresh \in Seq(Int)
    /\ rules' = [rules EXCEPT ![ExcPos(n) + 1] =
                   (Len(exceptions) * 256 + Len(offs)) * 256 + 2] \o fresh
    /\ exceptions' = exceptions
          \o [k \in 1 .. Len(offs) |-> <<offs[k], index[ExcRules(n)[offs[k]]]>>]
    /\ excIdx' = index
    /\ \A q \in DOMAIN index :
          \/ q \in DOMAIN excIdx /\ index[q] = excIdx[q]
          \/ \E j \in 1 .. Len(fresh) :
                fresh[j] = q /\ index[q] = Len(rules) + j - 1
    /\ \A k \in 1 .. Len(offs) : ExcRules(n)[offs[k]] \in DOMAIN index

(* The rules of the exceptions are integers.                               *)
LEMMA ExcRulesInt ==
    ASSUME FileOK, NEW n \in Nat, NEW o \in Offsets
    PROVE  ExcRules(n)[o] = ExcRule(n * BlockSz + o) /\ ExcRules(n)[o] \in Int
BY InBlock, CpRuleIs DEF ExcRules, ExcRule

(* FillWith says which rules are new and where each rule is.               *)
LEMMA FillWithIs ==
    ASSUME FileOK, NEW n \in Nat, NEW offs \in Seq(Offsets), FillWith(n, offs)
    PROVE  \E fresh, index : FilledIn(n, offs, fresh, index)
<1> DEFINE m == Len(offs)
           needed == [k \in 1 .. Len(offs) |-> ExcRule(n * BlockSz + offs[k])]
           first == {k \in DOMAIN needed : /\ needed[k] \notin DOMAIN excIdx
                                           /\ PlaceOf(needed, needed[k]) = k}
           asc == Ascending(first)
           fresh == [i \in 1 .. Cardinality(first) |-> needed[asc[i]]]
           index == [q \in DOMAIN excIdx \cup ToSet(fresh) |->
                       IF q \in DOMAIN excIdx THEN excIdx[q]
                       ELSE Len(rules) + PlaceOf(fresh, q) - 1]
           refers == (Len(exceptions) * 256 + Len(offs)) * 256 + 2
<1>1. /\ excIdx' = index
      /\ exceptions' = exceptions
             \o [k \in 1 .. Len(offs) |-> <<offs[k], index[needed[k]]>>]
      /\ rules' = [rules EXCEPT ![ExcPos(n) + 1] = refers] \o fresh
  BY DEF FillWith
<1>2. /\ m \in Nat /\ \A k \in 1 .. m : offs[k] \in Offsets
  OBVIOUS
<1>3. ASSUME NEW k \in 1 .. m
      PROVE  needed[k] = ExcRules(n)[offs[k]] /\ needed[k] \in Int
  BY <1>2, ExcRulesInt
<1>4. DOMAIN needed = 1 .. m /\ needed \in [1 .. m -> Int]
  BY <1>3
<1> HIDE DEF needed
<1>5. needed \in Seq(Int)
  BY <1>2, <1>4
<1>6. first \in SUBSET (1 .. m) /\ first \in SUBSET Int
  BY <1>4
<1>7. IsFiniteSet(first)
  <2> HIDE DEF first
  <2>1. 1 \in Int /\ m \in Int
    BY <1>2
  <2>2. IsFiniteSet(1 .. m)
    BY <2>1, FS_Interval
  <2> QED BY <1>6, <2>2, FS_Subset
<1>8. \A k \in 1 .. m : needed[k] \notin DOMAIN excIdx =>
         \E j \in first : needed[j] = needed[k]
  <2> SUFFICES ASSUME NEW k \in 1 .. m, needed[k] \notin DOMAIN excIdx
               PROVE  \E j \in first : needed[j] = needed[k]
    OBVIOUS
  <2>1. PICK j : j = PlaceOf(needed, needed[k])
    OBVIOUS
  <2>2. j \in 1 .. m /\ needed[j] = needed[k]
    BY <1>4, <1>5, <2>1, PlaceOfIs
  <2>3. j \in first
    BY <1>4, <2>1, <2>2
  <2> QED BY <2>2, <2>3
<1> HIDE DEF first
<1>9. /\ Cardinality(first) \in Nat
      /\ asc \in Seq(first) /\ Len(asc) = Cardinality(first)
      /\ \A x \in first : \E i \in 1 .. Cardinality(first) : asc[i] = x
  BY <1>6, <1>7, AscendingLists
<1> HIDE DEF asc
<1>10. \A i \in 1 .. Cardinality(first) : asc[i] \in 1 .. m /\ needed[asc[i]] \in Int
  <2>1. \A i \in 1 .. Cardinality(first) : asc[i] \in first
    BY <1>9
  <2> QED BY <1>3, <1>6, <2>1
<1>11. fresh \in [1 .. Cardinality(first) -> Int]
  BY <1>10
<1>12. \A k \in 1 .. m : needed[k] \notin DOMAIN excIdx =>
          \E i \in 1 .. Cardinality(first) : fresh[i] = needed[k]
  BY <1>8, <1>9
<1> HIDE DEF fresh
<1>13. /\ fresh \in Seq(Int) /\ Len(fresh) = Cardinality(first)
       /\ DOMAIN fresh = 1 .. Len(fresh)
  BY <1>9, <1>11
<1>14. ToSet(fresh) = {fresh[i] : i \in 1 .. Len(fresh)}
  BY <1>13 DEF ToSet
<1>15. ASSUME NEW q \in DOMAIN index
       PROVE  \/ q \in DOMAIN excIdx /\ index[q] = excIdx[q]
              \/ \E j \in 1 .. Len(fresh) :
                    fresh[j] = q /\ index[q] = Len(rules) + j - 1
  <2>1. CASE q \in DOMAIN excIdx
    BY <2>1
  <2>2. CASE q \notin DOMAIN excIdx
    <3>1. q \in ToSet(fresh)
      BY <2>2
    <3>2. PICK j : j = PlaceOf(fresh, q)
      OBVIOUS
    <3>3. j \in 1 .. Len(fresh) /\ fresh[j] = q
      BY <1>13, <1>14, <3>1, <3>2, PlaceOfIs
    <3>4. index[q] = Len(rules) + j - 1
      BY <2>2, <3>1, <3>2
    <3> QED BY <3>3, <3>4
  <2> QED BY <2>1, <2>2
<1>16. ASSUME NEW k \in 1 .. m PROVE ExcRules(n)[offs[k]] \in DOMAIN index
  <2>1. needed[k] \in DOMAIN excIdx \/ needed[k] \in ToSet(fresh)
    BY <1>12, <1>13, <1>14
  <2>2. DOMAIN index = DOMAIN excIdx \cup ToSet(fresh)
    OBVIOUS
  <2> HIDE DEF index
  <2> QED BY <1>3, <2>1, <2>2
<1> HIDE DEF index
<1>17. [k \in 1 .. Len(offs) |-> <<offs[k], index[needed[k]]>>]
         = [k \in 1 .. Len(offs) |-> <<offs[k], index[ExcRules(n)[offs[k]]]>>]
  BY <1>3
<1>18. FilledIn(n, offs, fresh, index)
  BY <1>1, <1>13, <1>15, <1>16, <1>17 DEF FilledIn
<1> QED BY <1>18

(* A sequence with one element replaced and more appended.                 *)
LEMMA Overwritten ==
    ASSUME NEW s \in Seq(Int), NEW p \in 1 .. Len(s), NEW e \in Int,
           NEW t \in Seq(Int), NEW all, all = [s EXCEPT ![p] = e] \o t
    PROVE  /\ all \in Seq(Int) /\ Len(all) = Len(s) + Len(t)
           /\ all[p] = e
           /\ \A k \in 1 .. Len(s) : k # p => all[k] = s[k]
           /\ \A k \in 1 .. Len(t) : all[Len(s) + k] = t[k]
<1> DEFINE s1 == [s EXCEPT ![p] = e]
<1>1. /\ s1 \in Seq(Int) /\ Len(s1) = Len(s) /\ s1[p] = e
      /\ \A k \in 1 .. Len(s) : k # p => s1[k] = s[k]
  OBVIOUS
<1>2. all = s1 \o t
  OBVIOUS
<1> HIDE DEF s1
<1>3. /\ all \in Seq(Int) /\ Len(all) = Len(s1) + Len(t)
      /\ \A k \in 1 .. Len(s1) : all[k] = s1[k]
      /\ \A k \in 1 .. Len(t) : all[Len(s1) + k] = t[k]
  BY <1>1, <1>2, Joined
<1> QED BY <1>1, <1>3

(* What a reference to m exceptions from the e-th on says.                 *)
RefersTo(e, m) == (e * 256 + m) * 256 + 2

(* A reference to exceptions is read back as it was written.               *)
LEMMA ReferenceParts ==
    ASSUME NEW e \in Nat, NEW m \in 0 .. 255, NEW v, v = RefersTo(e, m)
    PROVE  /\ v \in Int /\ v # 0
           /\ RuleType(v) = 2 /\ RuleDelta(v) % 256 = m
           /\ RuleDelta(v) \div 256 = e
<1> DEFINE d == e * 256 + m
<1>1. d \in Int /\ d >= 0
  OBVIOUS
<1>2. d \div 256 = e /\ d % 256 = m
  BY Divided
<1> HIDE DEF d
<1>3. v = RuleInt(d, 2)
  BY DEF RuleInt, RefersTo, d
<1>4. v \in Int /\ RuleType(v) = 2 /\ RuleDelta(v) = d
  <2>1. 2 \in 0 .. 255
    OBVIOUS
  <2> QED BY <1>1, <1>3, <2>1, RuleParts
<1>5. v # 0
  BY <1>1 DEF RefersTo, d
<1> QED BY <1>2, <1>4, <1>5

(* Filling in the exceptions of one block keeps the invariant.             *)
LEMMA FilledInKeeps ==
    ASSUME GenInv, phase = "tables", NEW n \in Based, HasExc(n),
           NEW offs, offs = Ascending(blocks[n + 1].exc),
           NEW fresh, NEW index, FilledIn(n, offs, fresh, index),
           UNCHANGED <<file, phase, blocks, rulebases, seqBase, tabL1, tabL2>>
    PROVE  GenInv'
<1> DEFINE m == Count(n)
           p == ExcPos(n) + 1
           e == Len(exceptions)
           refers == (e * 256 + m) * 256 + 2
<1>1. /\ rules \in Seq(Int) /\ Len(rules) \in Nat
      /\ exceptions \in Seq(Offsets \X Nat) /\ e \in Nat
  BY DEF GenInv, Shape
<1>2. n \in Built /\ n \in Nat /\ m \in 0 .. 255 /\ m \in Nat
  <2>1. n \in Built
    BY PlacesOfBlocks DEF GenInv
  <2>2. n \in Nat
    BY <2>1 DEF Built
  <2> QED BY <2>1, <2>2, CountFits DEF GenInv
<1>3. GoodBlock(n, blocks[n + 1])
  BY <1>2 DEF GenInv, BlocksOK
<1>4. /\ offs \in Seq(Offsets) /\ Len(offs) = m
      /\ \A k \in 1 .. m : offs[k] \in Offsets
  BY <1>2, ExceptionsListed DEF GenInv
<1>5. p \in 1 .. Len(rules) /\ Reserved(p)
  <2>1. Reserved(p)
    BY DEF Reserved
  <2> QED BY <2>1, ReservedInside DEF GenInv
<1>6. refers \in Int /\ fresh \in Seq(Int) /\ Len(fresh) \in Nat
      /\ rules' = [rules EXCEPT ![p] = refers] \o fresh
  BY <1>1, <1>2, <1>4 DEF FilledIn
<1> HIDE DEF m, p, e, refers
<1>7. /\ rules' \in Seq(Int) /\ Len(rules') = Len(rules) + Len(fresh)
      /\ rules'[p] = refers
      /\ \A k \in 1 .. Len(rules) : k # p => rules'[k] = rules[k]
      /\ \A k \in 1 .. Len(fresh) : rules'[Len(rules) + k] = fresh[k]
  <2>1. PICK s, all : s = rules /\ all = rules'
    OBVIOUS
  <2>2. s \in Seq(Int) /\ p \in 1 .. Len(s) /\ all = [s EXCEPT ![p] = refers] \o fresh
    BY <1>1, <1>5, <1>6, <2>1
  <2>3. /\ all \in Seq(Int) /\ Len(all) = Len(s) + Len(fresh)
        /\ all[p] = refers
        /\ \A k \in 1 .. Len(s) : k # p => all[k] = s[k]
        /\ \A k \in 1 .. Len(fresh) : all[Len(s) + k] = fresh[k]
    BY <1>6, <2>2, Overwritten
  <2> QED BY <2>1, <2>3
<1>8. Len(rules') \in Nat /\ Len(rules) <= Len(rules')
  BY <1>1, <1>6, <1>7
<1>9. /\ Based' = Based
      /\ \A i : /\ ExcPos(i)' = ExcPos(i) /\ HasExc(i)' = HasExc(i)
                /\ Count(i)' = Count(i)
      /\ \A k : Reserved(k)' = Reserved(k)
  BY DEF Based, ExcPos, HasExc, Reserved, Count
<1>10. \A k \in 1 .. Len(rules) :
          ~Reserved(k) => ~Reserved(k)' /\ rules'[k] = rules[k]
  BY <1>5, <1>7, <1>9
<1>11. /\ \A i \in Nat, s \in Seq(Int) : Holds(i, s) => Holds(i, s)'
       /\ \A k : Kept(k) => Kept(k)' /\ rules'[k + 1] = rules[k + 1]
  BY <1>1, <1>7, <1>8, <1>10, KeptStays
<1>12. ASSUME NEW j \in 1 .. Len(fresh), NEW k, k = Len(rules) + j - 1
       PROVE  k \in Nat /\ Kept(k)' /\ rules'[k + 1] = fresh[j]
  <2>1. /\ k \in Nat /\ k + 1 = Len(rules) + j /\ k + 1 \in 1 .. Len(rules')
        /\ k + 1 \notin 1 .. Len(rules)
    BY <1>1, <1>6, <1>7, <1>12
  <2>2. ~Reserved(k + 1)
    BY <2>1, ReservedInside DEF GenInv
  <2>3. rules'[k + 1] = fresh[j]
    BY <1>7, <2>1
  <2> QED BY <1>9, <2>1, <2>2, <2>3 DEF Kept
<1>13. ASSUME NEW q \in DOMAIN index
       PROVE  index[q] \in Nat /\ Kept(index[q])' /\ rules'[index[q] + 1] = q
  <2>0. PICK k : k = index[q]
    OBVIOUS
  <2>1. CASE q \in DOMAIN excIdx /\ index[q] = excIdx[q]
    <3>1. k \in Nat /\ Kept(k) /\ rules[k + 1] = q
      BY <2>0, <2>1 DEF GenInv, Indexed
    <3>2. Kept(k)' /\ rules'[k + 1] = q
      BY <1>11, <3>1
    <3> QED BY <2>0, <3>1, <3>2 DEF Kept
  <2>2. CASE \E j \in 1 .. Len(fresh) : fresh[j] = q /\ index[q] = Len(rules) + j - 1
    <3>1. PICK j \in 1 .. Len(fresh) : fresh[j] = q /\ k = Len(rules) + j - 1
      BY <2>0, <2>2
    <3>2. k \in Nat /\ Kept(k)' /\ rules'[k + 1] = q
      BY <1>12, <3>1
    <3> QED BY <2>0, <3>2 DEF Kept
  <2> QED BY <2>1, <2>2 DEF FilledIn
<1> DEFINE new == [k \in 1 .. m |-> <<offs[k], index[ExcRules(n)[offs[k]]]>>]
<1>14. ASSUME NEW k \in 1 .. m
       PROVE  \E i \in Nat : /\ new[k] = <<offs[k], i>> /\ Kept(i)'
                           /\ rules'[i + 1] = ExcRules(n)[offs[k]]
  <2>1. PICK i : i = index[ExcRules(n)[offs[k]]]
    OBVIOUS
  <2>2. ExcRules(n)[offs[k]] \in DOMAIN index
    BY <1>4 DEF FilledIn
  <2>3. PICK q : q = ExcRules(n)[offs[k]]
    OBVIOUS
  <2>4. i \in Nat /\ Kept(i)' /\ rules'[i + 1] = q
    <3>1. index[q] = i /\ q \in DOMAIN index
      BY <2>1, <2>2, <2>3
    <3> QED BY <1>13, <3>1 DEF Kept
  <2>5. new[k] = <<offs[k], i>>
    BY <2>1
  <2> HIDE DEF new
  <2> QED BY <2>3, <2>4, <2>5
<1>15. new \in Seq(Offsets \X Nat) /\ Len(new) = m
  <2>1. \A k \in 1 .. m : new[k] \in Offsets \X Nat
    <3> SUFFICES ASSUME NEW k \in 1 .. m PROVE new[k] \in Offsets \X Nat
      OBVIOUS
    <3> HIDE DEF new
    <3>1. PICK i \in Nat : new[k] = <<offs[k], i>>
      BY <1>14
    <3>2. offs[k] \in Offsets
      BY <1>4
    <3> QED BY <3>1, <3>2
  <2>2. new \in [1 .. m -> Offsets \X Nat]
    BY <2>1
  <2> HIDE DEF new
  <2> QED BY <1>2, <2>2
<1>16. exceptions' = exceptions \o new
  BY <1>4 DEF FilledIn
<1> HIDE DEF new
<1>17. /\ exceptions' \in Seq(Offsets \X Nat) /\ Len(exceptions') = e + m
       /\ \A k \in 1 .. e : exceptions'[k] = exceptions[k]
       /\ \A k \in 1 .. m : exceptions'[e + k] = new[k]
  <2>1. PICK s, all : s = exceptions /\ all = exceptions'
    OBVIOUS
  <2>2. s \in Seq(Offsets \X Nat) /\ all = s \o new /\ e = Len(s)
    BY <1>1, <1>16, <2>1 DEF e
  <2>3. /\ all \in Seq(Offsets \X Nat) /\ Len(all) = e + m
        /\ \A k \in 1 .. e : all[k] = s[k]
        /\ \A k \in 1 .. m : all[e + k] = new[k]
    BY <1>15, <2>2, Joined
  <2> QED BY <2>1, <2>3
<1>18. Placed'
  <2>1. ASSUME NEW i \in Based
        PROVE  /\ Holds(rulebases[i + 1], blocks[i + 1].rules)'
               /\ HasExc(i)' => ExcPos(i)' + 1 <= Len(rules')
    <3>1. /\ Holds(rulebases[i + 1], blocks[i + 1].rules)
          /\ HasExc(i) => ExcPos(i) + 1 <= Len(rules)
      BY DEF GenInv, Placed
    <3>2. /\ rulebases[i + 1] \in Nat /\ blocks[i + 1].rules \in Seq(Int)
          /\ ExcPos(i) \in Nat
      BY PlacesOfBlocks DEF GenInv
    <3>3. PICK k, s : k = rulebases[i + 1] /\ s = blocks[i + 1].rules
      OBVIOUS
    <3>4. Holds(k, s)' /\ rulebases'[i + 1] = k /\ blocks'[i + 1].rules = s
      BY <1>11, <3>1, <3>2, <3>3
    <3>5. HasExc(i)' => ExcPos(i)' + 1 <= Len(rules')
      BY <1>1, <1>8, <1>9, <3>1, <3>2
    <3> QED BY <3>4, <3>5 DEF Holds
  <2>2. ASSUME NEW q \in DOMAIN seqBase'
        PROVE  q \in Seq(Int) /\ seqBase'[q] \in Nat /\ Holds(seqBase[q], q)'
    <3>1. q \in Seq(Int) /\ seqBase[q] \in Nat /\ Holds(seqBase[q], q)
      BY DEF GenInv, Placed
    <3>2. PICK i : i = seqBase[q]
      OBVIOUS
    <3>3. Holds(i, q)' /\ seqBase'[q] = i
      BY <1>11, <3>1, <3>2
    <3> QED BY <3>1, <3>2, <3>3 DEF Holds
  <2> QED BY <1>9, <2>1, <2>2 DEF Placed
<1>19. Apart'
  BY <1>9 DEF GenInv, Apart
<1>20. Indexed'
  <2>1. ASSUME NEW q \in DOMAIN excIdx'
        PROVE  excIdx'[q] \in Nat /\ Kept(excIdx[q])' /\ rules'[excIdx'[q] + 1] = q
    <3>1. PICK i : i = excIdx'[q]
      OBVIOUS
    <3>2. q \in DOMAIN index /\ index[q] = i
      BY <3>1 DEF FilledIn
    <3>3. i \in Nat /\ Kept(i)' /\ rules'[i + 1] = q
      BY <1>13, <3>2 DEF Kept
    <3> QED BY <3>1, <3>3 DEF Kept
  <2>2. ASSUME NEW k \in 1 .. Len(exceptions') PROVE Kept(exceptions[k][2])'
    <3>1. PICK i : i = exceptions'[k][2]
      OBVIOUS
    <3>2. CASE k \in 1 .. e
      <4>1. i = exceptions[k][2]
        BY <1>17, <3>1, <3>2
      <4>2. Kept(i)
        BY <3>2, <4>1 DEF GenInv, Indexed, e
      <4>3. Kept(i)'
        BY <1>11, <4>2
      <4> QED BY <3>1, <4>3 DEF Kept
    <3>3. CASE k \notin 1 .. e
      <4>1. PICK j \in 1 .. m : k = e + j
        <5>1. k \in 1 .. e + m
          BY <1>17
        <5>2. k - e \in 1 .. m /\ k = e + (k - e)
          BY <1>1, <1>2, <3>3, <5>1
        <5> QED BY <5>2
      <4>2. i = new[j][2]
        BY <1>17, <3>1, <4>1
      <4>3. Kept(i)'
        <5>1. PICK x \in Nat : new[j] = <<offs[j], x>> /\ Kept(x)'
          BY <1>14
        <5>2. i = x
          BY <4>2, <5>1
        <5> QED BY <5>1, <5>2 DEF Kept
      <4> QED BY <3>1, <4>3 DEF Kept
    <3> QED BY <3>2, <3>3
  <2> QED BY <2>1, <2>2 DEF Indexed
<1>21. Filled(n)'
  <2>1. Reference(n)' = refers
    BY <1>7, <1>9 DEF Reference, p
  <2>2. /\ RuleType(refers) = 2 /\ RuleDelta(refers) % 256 = m
        /\ RuleDelta(refers) \div 256 = e
    <3>1. PICK v, x, y : v = refers /\ x = e /\ y = m
      OBVIOUS
    <3>2. v = RefersTo(x, y)
      BY <3>1 DEF RefersTo, refers
    <3>3. x \in Nat /\ y \in 0 .. 255
      BY <1>1, <1>2, <3>1 DEF e, m
    <3>4. RuleType(v) = 2 /\ RuleDelta(v) % 256 = y /\ RuleDelta(v) \div 256 = x
      BY <3>2, <3>3, ReferenceParts
    <3> QED BY <3>1, <3>4
  <2>3. Start(n)' = e /\ Count(n)' = m
    BY <1>9, <2>1, <2>2 DEF Start, RuleDelta, m
  <2>4. ExcRules(n)' = ExcRules(n) /\ blocks' = blocks
    BY SameFile
  <2>5. ASSUME NEW k \in 1 .. m
        PROVE  /\ exceptions'[e + k][1] = Ascending(blocks[n + 1].exc)[k]
               /\ rules'[exceptions'[e + k][2] + 1]
                    = ExcRules(n)[exceptions'[e + k][1]]
    BY <1>14, <1>17
  <2>6. RuleType(Reference(n))' = 2 /\ RuleDelta(Reference(n))' % 256 = m
    BY <2>1, <2>2 DEF RuleType, RuleDelta
  <2>7. e + m <= Len(exceptions') /\ e \in Nat
    BY <1>1, <1>2, <1>17
  <2> QED BY <2>3, <2>4, <2>5, <2>6, <2>7 DEF Filled
<1>22. Referred'
  <2> SUFFICES ASSUME NEW i \in Based', HasExc(i)'
               PROVE  Reference(i)' = 0 \/ Filled(i)'
    BY DEF Referred
  <2>1. CASE i = n
    BY <1>21, <2>1
  <2>2. CASE i # n
    <3>1. i \in Based /\ HasExc(i)
      BY <1>9
    <3>2. ExcPos(i) \in Nat /\ ExcPos(n) \in Nat /\ ExcPos(i) # ExcPos(n)
      <4>1. ExcPos(i) \in Nat /\ ExcPos(n) \in Nat
        BY <3>1, PlacesOfBlocks DEF GenInv
      <4> QED BY <2>2, <3>1, <4>1 DEF GenInv, Apart
    <3>3. ExcPos(i) + 1 # p /\ ExcPos(i) + 1 \in 1 .. Len(rules)
      <4>1. Reserved(ExcPos(i) + 1)
        BY <3>1 DEF Reserved
      <4>2. ExcPos(i) + 1 \in 1 .. Len(rules)
        BY <4>1, ReservedInside DEF GenInv
      <4> QED BY <3>2, <4>2 DEF p
    <3>4. Reference(i)' = Reference(i)
      BY <1>7, <1>9, <3>3 DEF Reference
    <3>5. Reference(i) = 0 \/ Filled(i)
      BY <3>1 DEF GenInv, Referred
    <3>6. Count(i) \in Nat
      <4>1. i \in Built
        BY <3>1, PlacesOfBlocks DEF GenInv
      <4> QED BY <4>1, CountFits DEF GenInv
    <3>7. CASE Filled(i)
      <4>1. /\ Len(exceptions) <= Len(exceptions')
            /\ \A k \in 1 .. Len(exceptions) : exceptions'[k] = exceptions[k]
        BY <1>1, <1>2, <1>17 DEF e
      <4>2. Filled(i)'
        BY <1>11, <1>17, <3>4, <3>6, <3>7, <4>1, FilledStays DEF GenInv
      <4> QED BY <4>2
    <3> QED BY <3>4, <3>5, <3>7
  <2> QED BY <2>1, <2>2
<1>23. Shape'
  BY <1>7, <1>17, SameFile DEF GenInv, Shape
<1>24. Progress'
  BY DEF GenInv, Progress
<1>25. BlocksOK'
  BY BlocksSame DEF GenInv
<1>26. Tables'
  <2>1. tabL1' = tabL1 /\ tabL2' = tabL2
    OBVIOUS
  <2>2. \A i : Packed(i)' = Packed(i) /\ CasedUpto(i)' = CasedUpto(i)
    BY PackedSame, SameFile
  <2>3. CasedUpto(Len(tabL1))' = CasedUpto(Len(tabL1))
    <3>1. PICK i : i = Len(tabL1)
      OBVIOUS
    <3>2. Len(tabL1') = i
      BY <2>1, <3>1
    <3> QED BY <2>2, <3>1, <3>2 DEF CasedUpto
  <2> QED BY <2>1, <2>2, <2>3 DEF GenInv, Tables
<1> QED BY <1>18, <1>19, <1>20, <1>22, <1>23, <1>24, <1>25, <1>26 DEF GenInv

(* The loop that fills in the exceptions keeps the invariant.              *)
LEMMA FillKeeps == GenInv /\ FillExceptions => GenInv'
<1> SUFFICES ASSUME GenInv, FillExceptions PROVE GenInv'
  OBVIOUS
<1>1. PICK n : n = Min(Pending)
  OBVIOUS
<1>2. phase = "tables" /\ Pending # {} /\ Shape /\ Progress /\ BlocksOK
  BY DEF FillExceptions, GenInv
<1>3. n \in Based /\ HasExc(n)
  BY <1>1, <1>2, PendingLeast
<1>4. PICK offs : offs = Ascending(blocks[n + 1].exc)
  OBVIOUS
<1>5. FillWith(n, offs)
  BY <1>1, <1>4 DEF FillExceptions
<1>6. n \in Built /\ n \in Nat
  BY <1>2, <1>3, PlacesOfBlocks DEF Built
<1>7. offs \in Seq(Offsets)
  BY <1>2, <1>4, <1>6, ExceptionsListed
<1>8. PICK fresh, index : FilledIn(n, offs, fresh, index)
  BY <1>2, <1>5, <1>6, <1>7, FillWithIs DEF Shape
<1>9. UNCHANGED <<file, phase, blocks, rulebases, seqBase, tabL1, tabL2>>
  BY DEF FillExceptions
<1> QED BY <1>2, <1>3, <1>4, <1>8, <1>9, FilledInKeeps

(* The parts of the invariant about rules depend on these variables.       *)
LEMMA RulesSame ==
    ASSUME Placed, Apart, Indexed, Referred,
           UNCHANGED <<file, blocks, rules, rulebases, exceptions, seqBase, excIdx>>
    PROVE  Placed' /\ Apart' /\ Indexed' /\ Referred' /\ Pending' = Pending
<1>1. /\ Based' = Based
      /\ \A n : /\ ExcPos(n)' = ExcPos(n) /\ HasExc(n)' = HasExc(n)
                /\ Count(n)' = Count(n) /\ Reference(n)' = Reference(n)
                /\ Start(n)' = Start(n)
      /\ \A k : Reserved(k)' = Reserved(k)
  BY DEF Based, ExcPos, HasExc, Reserved, Count, Reference, Start
<1>2. /\ \A base, s : Holds(base, s)' = Holds(base, s)
      /\ \A k : Kept(k)' = Kept(k)
  BY <1>1 DEF Holds, Kept
<1>3. Placed'
  <2>1. \A n : Holds(rulebases[n + 1], blocks[n + 1].rules)'
                 = Holds(rulebases[n + 1], blocks[n + 1].rules)
    BY <1>1 DEF Holds
  <2>2. \A q : Holds(seqBase[q], q)' = Holds(seqBase[q], q)
    BY <1>1 DEF Holds
  <2> QED BY <1>1, <2>1, <2>2 DEF Placed
<1>4. Apart'
  BY <1>1 DEF Apart
<1>5. Indexed'
  <2>1. \A q : Kept(excIdx[q])' = Kept(excIdx[q])
    BY <1>1 DEF Kept
  <2>2. \A k : Kept(exceptions[k][2])' = Kept(exceptions[k][2])
    BY <1>1 DEF Kept
  <2> QED BY <2>1, <2>2 DEF Indexed
<1>6. Referred'
  <2>1. \A n : ExcRules(n)' = ExcRules(n)
    BY SameFile
  <2>2. \A n : Filled(n)' = Filled(n)
    BY <1>1, <2>1 DEF Filled
  <2> QED BY <1>1, <2>2 DEF Referred
<1>7. Pending' = Pending
  BY <1>1 DEF Pending
<1> QED BY <1>3, <1>4, <1>5, <1>6, <1>7

(* The blocks with letters among the first n + 1.                          *)
LEMMA CasedNext ==
    ASSUME NEW n \in Nat
    PROVE  /\ CasedUpto(n + 1) = IF Cased(file, n) # {} THEN CasedUpto(n) \cup {n}
                                 ELSE CasedUpto(n)
           /\ IsFiniteSet(CasedUpto(n)) /\ Cardinality(CasedUpto(n)) \in Nat
           /\ n \notin CasedUpto(n)
           /\ Cased(file, n) # {} =>
                 Cardinality(CasedUpto(n + 1)) = Cardinality(CasedUpto(n)) + 1
           /\ CasedUpto(n) # 0 .. n - 1 =>
                 \E m \in 0 .. n - 1 : Cased(file, m) = {}
           /\ CasedUpto(n + 1) = 0 .. n <=>
                 Cased(file, n) # {} /\ CasedUpto(n) = 0 .. n - 1
<1> DEFINE C == CasedUpto(n)
<1>1. 0 .. n = (0 .. n - 1) \cup {n} /\ n \notin 0 .. n - 1 /\ n + 1 - 1 = n
  OBVIOUS
<1>2. CasedUpto(n + 1) = {m \in 0 .. n : Cased(file, m) # {}}
  BY <1>1 DEF CasedUpto
<1>3. CasedUpto(n + 1) = IF Cased(file, n) # {} THEN C \cup {n} ELSE C
  BY <1>1, <1>2 DEF CasedUpto
<1>4. C \in SUBSET (0 .. n - 1) /\ n \notin C
  BY <1>1 DEF CasedUpto
<1>5. C # 0 .. n - 1 => \E m \in 0 .. n - 1 : Cased(file, m) = {}
  BY DEF CasedUpto
<1> HIDE DEF C
<1>6. IsFiniteSet(C)
  <2>1. 0 \in Int /\ n - 1 \in Int
    OBVIOUS
  <2>2. IsFiniteSet(0 .. n - 1)
    BY <2>1, FS_Interval
  <2> QED BY <1>4, <2>2, FS_Subset
<1>7. Cardinality(C) \in Nat
  BY <1>6, FS_CardinalityType
<1>8. Cardinality(C \cup {n}) = Cardinality(C) + 1
  BY <1>4, <1>6, FS_AddElement
<1>9. CasedUpto(n + 1) = 0 .. n <=> Cased(file, n) # {} /\ C = 0 .. n - 1
  BY <1>1, <1>3, <1>4
<1> QED BY <1>3, <1>4, <1>5, <1>6, <1>7, <1>8, <1>9 DEF C

(* There is room for the index of every block.                             *)
LEMMA RoomForBlocks ==
    ASSUME FileOK, NEW n \in 0 .. NBlocks
    PROVE  Cardinality(CasedUpto(n)) + 1 + L2Offset <= 256
<1> DEFINE C == CasedUpto(n)
           D == CasedBlocks(file)
<1>0. n \in Nat /\ NBlocks \in Nat /\ n <= NBlocks /\ L2Offset \in Nat
  BY SizeFacts
<1>1. C \in SUBSET D /\ D \in SUBSET (0 .. NBlocks - 1)
  BY <1>0 DEF CasedUpto, CasedBlocks
<1>2. Cardinality(D) + 1 + L2Offset <= 256
  BY LettersFit DEF FileOK, file
<1> HIDE DEF C, D
<1>3. IsFiniteSet(D)
  <2>1. 0 \in Int /\ NBlocks - 1 \in Int
    BY <1>0
  <2>2. IsFiniteSet(0 .. NBlocks - 1)
    BY <2>1, FS_Interval
  <2> QED BY <1>1, <2>2, FS_Subset
<1>4. IsFiniteSet(C) /\ Cardinality(C) <= Cardinality(D)
  BY <1>1, <1>3, FS_Subset
<1>5. Cardinality(C) \in Nat /\ Cardinality(D) \in Nat
  BY <1>3, <1>4, FS_CardinalityType
<1> QED BY <1>0, <1>2, <1>4, <1>5 DEF C

(* The third loop over the blocks keeps the invariant.                     *)
LEMMA PackKeeps == GenInv /\ PackBlock => GenInv'
<1> SUFFICES ASSUME GenInv, PackBlock PROVE GenInv'
  OBVIOUS
<1>1. PICK n, packed, known : /\ n = Len(tabL1) /\ packed = Packed(n)
                              /\ known = PlaceOf(tabL2, packed)
  OBVIOUS
<1>2. PICK at : at = IF known = 0 THEN Len(tabL2) ELSE known - 1
  OBVIOUS
<1> DEFINE V == [1 .. Width -> 0 .. 215]
<1>3. /\ phase = "tables" /\ Pending = {}
      /\ phase' = IF n + 1 = NBlocks THEN "ready" ELSE "tables"
      /\ tabL2' = IF known = 0 THEN Append(tabL2, packed) ELSE tabL2
      /\ tabL1' = Append(tabL1, (at + L2Offset) % 256)
      /\ UNCHANGED <<file, blocks, rules, rulebases, exceptions, seqBase, excIdx>>
  BY <1>1, <1>2 DEF PackBlock, Loop
<1>4. /\ n \in Nat /\ n < NBlocks /\ Len(blocks) = NBlocks /\ FileOK
      /\ tabL1 \in Seq(Nat) /\ tabL2 \in Seq(V) /\ Len(tabL2) \in Nat
      /\ NBlocks \in Nat /\ L2Offset \in Nat
  BY <1>1, <1>3, SizeFacts DEF GenInv, Shape, Progress
<1>5. n \in Built /\ \A m \in 0 .. n - 1 : m \in Built
  BY <1>4 DEF Built
<1>6. packed \in V
  BY <1>1, <1>5, PackedFits DEF GenInv
<1> HIDE DEF V
<1>7. /\ tabL2' \in Seq(V) /\ Len(tabL2') \in Nat /\ Len(tabL2) <= Len(tabL2')
      /\ \A k \in 1 .. Len(tabL2) : tabL2'[k] = tabL2[k]
      /\ at \in 0 .. Len(tabL2') - 1 /\ tabL2'[at + 1] = packed
      /\ Len(tabL2') <= Len(tabL2) + 1
      /\ (\E k \in 1 .. Len(tabL2) : tabL2[k] = packed) => Len(tabL2') = Len(tabL2)
  <2>1. PICK s, all : s = tabL2 /\ all = tabL2'
    OBVIOUS
  <2>2. /\ s \in Seq(V) /\ Len(s) \in Nat
        /\ known = PlaceOf(s, packed) /\ at = (IF known = 0 THEN Len(s) ELSE known - 1)
        /\ all = IF known = 0 THEN Append(s, packed) ELSE s
    BY <1>1, <1>2, <1>3, <1>4, <2>1
  <2>3. DOMAIN s = 1 .. Len(s)
    BY <2>2
  <2>4. CASE \E k \in 1 .. Len(s) : s[k] = packed
    <3>1. known \in 1 .. Len(s) /\ s[known] = packed
      BY <2>2, <2>3, <2>4, PlaceOfIs
    <3>2. known # 0 /\ known \in Int
      BY <2>2, <3>1
    <3>3. all = s /\ at = known - 1
      BY <2>2, <3>2
    <3>4. at \in 0 .. Len(s) - 1 /\ at + 1 = known
      BY <2>2, <3>1, <3>2, <3>3
    <3> QED BY <2>1, <2>2, <3>1, <3>3, <3>4
  <2>5. CASE \A k \in 1 .. Len(s) : s[k] # packed
    <3>1. known = 0
      BY <2>2, <2>3, <2>5, PlaceOfIs
    <3>2. all = Append(s, packed) /\ at = Len(s)
      BY <2>2, <3>1
    <3>3. /\ all \in Seq(V) /\ Len(all) = Len(s) + 1 /\ all[Len(s) + 1] = packed
          /\ \A k \in 1 .. Len(s) : all[k] = s[k]
      BY <1>6, <2>2, <3>2
    <3>4. at \in 0 .. Len(all) - 1
      BY <2>2, <3>2, <3>3
    <3> QED BY <2>1, <2>2, <2>5, <3>2, <3>3, <3>4
  <2> QED BY <2>4, <2>5
<1>8. /\ Len(tabL2) <= Cardinality(CasedUpto(n))
                         + (IF CasedUpto(n) = 0 .. n - 1 THEN 0 ELSE 1)
      /\ \A m \in 0 .. n - 1 :
            /\ tabL1[m + 1] - L2Offset \in 0 .. Len(tabL2) - 1
            /\ tabL2[tabL1[m + 1] - L2Offset + 1] = Packed(m)
  BY <1>1 DEF GenInv, Tables
<1>9. Len(tabL2') <= Cardinality(CasedUpto(n + 1))
                       + (IF CasedUpto(n + 1) = 0 .. n THEN 0 ELSE 1)
  <2> DEFINE size == Cardinality(CasedUpto(n))
             size1 == Cardinality(CasedUpto(n + 1))
  <2>1. size \in Nat
    BY <1>4, CasedNext
  <2>2. CASE Cased(file, n) # {}
    <3>1. /\ size1 = size + 1
          /\ CasedUpto(n + 1) = 0 .. n <=> CasedUpto(n) = 0 .. n - 1
      BY <1>4, <2>2, CasedNext
    <3> HIDE DEF size, size1
    <3>2. Len(tabL2) <= size + (IF CasedUpto(n) = 0 .. n - 1 THEN 0 ELSE 1)
      BY <1>8 DEF size
    <3>3. Len(tabL2') <= size1 + (IF CasedUpto(n + 1) = 0 .. n THEN 0 ELSE 1)
      BY <1>4, <1>7, <2>1, <3>1, <3>2
    <3> QED BY <3>3 DEF size1
  <2>3. CASE Cased(file, n) = {}
    <3>1. size1 = size /\ CasedUpto(n + 1) # 0 .. n
      BY <1>4, <2>3, CasedNext
    <3>2. Len(tabL2') <= size + 1
      <4>1. CASE CasedUpto(n) = 0 .. n - 1
        <5>1. Len(tabL2) <= size + 0
          BY <1>8, <4>1
        <5> HIDE DEF size
        <5> QED BY <1>4, <1>7, <2>1, <5>1
      <4>2. CASE CasedUpto(n) # 0 .. n - 1
        <5>1. PICK m \in 0 .. n - 1 : Cased(file, m) = {}
          BY <1>4, <4>2, CasedNext
        <5>2. Packed(m) = Packed(n)
          BY <1>4, <1>5, <2>3, <5>1, PackedUncased DEF GenInv
        <5>3. tabL1[m + 1] - L2Offset + 1 \in 1 .. Len(tabL2)
          <6>1. PICK x : x = tabL1[m + 1] - L2Offset
            OBVIOUS
          <6>2. x \in 0 .. Len(tabL2) - 1
            BY <1>8, <6>1
          <6> QED BY <1>4, <6>1, <6>2
        <5>4. \E k \in 1 .. Len(tabL2) : tabL2[k] = packed
          BY <1>1, <1>8, <5>2, <5>3
        <5>5. Len(tabL2') = Len(tabL2) /\ Len(tabL2) <= size + 1
          BY <1>7, <1>8, <4>2, <5>4
        <5> QED BY <5>5
      <4> QED BY <4>1, <4>2
    <3> QED BY <3>1, <3>2
  <2> QED BY <2>2, <2>3
<1>10. (at + L2Offset) % 256 = at + L2Offset
  <2>1. n + 1 \in 0 .. NBlocks /\ n + 1 \in Nat
    BY <1>4
  <2>2. Cardinality(CasedUpto(n + 1)) + 1 + L2Offset <= 256
    BY <1>4, <2>1, RoomForBlocks
  <2>3. Cardinality(CasedUpto(n + 1)) \in Nat
    BY <2>1, CasedNext
  <2> DEFINE size == Cardinality(CasedUpto(n + 1))
  <2>4. Len(tabL2') <= size + 1
    <3>1. CASE CasedUpto(n + 1) = 0 .. n
      BY <1>7, <1>9, <2>3, <3>1
    <3>2. CASE CasedUpto(n + 1) # 0 .. n
      BY <1>9, <3>2
    <3> QED BY <3>1, <3>2
  <2> HIDE DEF size
  <2>5. size \in Nat /\ size + 1 + L2Offset <= 256
    BY <2>2, <2>3 DEF size
  <2>6. at + L2Offset \in 0 .. 255
    BY <1>4, <1>7, <2>4, <2>5
  <2> QED BY <2>6
<1>11. /\ tabL1' \in Seq(Nat) /\ Len(tabL1') = n + 1
       /\ tabL1'[n + 1] = at + L2Offset
       /\ \A m \in 0 .. n - 1 : tabL1'[m + 1] = tabL1[m + 1]
  <2>1. at + L2Offset \in Nat /\ tabL1' = Append(tabL1, at + L2Offset)
    BY <1>3, <1>4, <1>7, <1>10
  <2>2. /\ tabL1' \in Seq(Nat) /\ Len(tabL1') = n + 1
        /\ tabL1'[n + 1] = at + L2Offset
        /\ \A k \in 1 .. n : tabL1'[k] = tabL1[k]
    BY <1>1, <1>4, <2>1
  <2>3. \A m \in 0 .. n - 1 : m + 1 \in 1 .. n
    BY <1>4
  <2> QED BY <2>2, <2>3
<1>12. Tables'
  <2>1. \A i : Packed(i)' = Packed(i) /\ CasedUpto(i)' = CasedUpto(i)
    BY <1>3, PackedSame, SameFile
  <2>2. ASSUME NEW m \in 0 .. n
        PROVE  /\ tabL1'[m + 1] - L2Offset \in 0 .. Len(tabL2') - 1
               /\ tabL2'[tabL1'[m + 1] - L2Offset + 1] = Packed(m)
    <3>1. CASE m = n
      <4>1. tabL1'[m + 1] - L2Offset = at
        BY <1>4, <1>7, <1>11, <3>1
      <4> QED BY <1>1, <1>7, <3>1, <4>1
    <3>2. CASE m # n
      <4>1. m \in 0 .. n - 1
        BY <1>4, <3>2
      <4>2. PICK x : x = tabL1[m + 1] - L2Offset
        OBVIOUS
      <4>3. x \in 0 .. Len(tabL2) - 1 /\ tabL2[x + 1] = Packed(m)
        BY <1>8, <4>1, <4>2
      <4>4. x \in 0 .. Len(tabL2') - 1 /\ x + 1 \in 1 .. Len(tabL2)
        BY <1>4, <1>7, <4>3
      <4>5. tabL2'[x + 1] = Packed(m)
        BY <1>7, <4>3, <4>4
      <4>6. tabL1'[m + 1] - L2Offset = x
        BY <1>11, <4>1, <4>2
      <4> QED BY <4>4, <4>5, <4>6
    <3> QED BY <3>1, <3>2
  <2>3. Len(tabL1') - 1 = n
    BY <1>4, <1>11
  <2>4. CasedUpto(Len(tabL1))' = CasedUpto(n + 1)
    <3>1. PICK i : i = n + 1
      OBVIOUS
    <3>2. CasedUpto(i)' = CasedUpto(i) /\ Len(tabL1') = i
      BY <1>11, <2>1, <3>1
    <3> QED BY <3>1, <3>2 DEF CasedUpto
  <2> QED BY <1>9, <2>1, <2>2, <2>3, <2>4 DEF Tables
<1>13. Placed' /\ Apart' /\ Indexed' /\ Referred' /\ Pending' = Pending
  BY <1>3, RulesSame DEF GenInv
<1>14. Shape'
  BY <1>3, <1>7, <1>11, SameFile DEF GenInv, Shape, V
<1>15. Progress'
  BY <1>3, <1>4, <1>11, <1>13 DEF GenInv, Progress
<1>16. BlocksOK'
  BY <1>3, BlocksSame DEF GenInv
<1> QED BY <1>12, <1>13, <1>14, <1>15, <1>16 DEF GenInv

(* Every step of the generator keeps its invariant.                        *)
LEMMA GenerateKeeps == GenInv /\ Generate => GenInv'
BY BuildKeeps, AllocateKeeps, FillKeeps, PackKeeps DEF Generate

(* The generator's invariant is about the generator's variables.           *)
LEMMA GenSame == GenInv /\ UNCHANGED gvars => GenInv'
<1> SUFFICES ASSUME GenInv, UNCHANGED gvars PROVE GenInv'
  OBVIOUS
<1>1. /\ UNCHANGED <<file, phase, blocks, rules, rulebases, exceptions>>
      /\ UNCHANGED <<seqBase, excIdx, tabL1, tabL2>>
  BY DEF gvars
<1>2. Placed' /\ Apart' /\ Indexed' /\ Referred' /\ Pending' = Pending
  BY <1>1, RulesSame DEF GenInv
<1>3. BlocksOK' /\ Shape' /\ Progress'
  BY <1>1, <1>2, BlocksSame, SameFile DEF GenInv, Shape, Progress
<1>4. Tables'
  <2>1. tabL1' = tabL1 /\ tabL2' = tabL2
    BY <1>1
  <2>2. \A i : Packed(i)' = Packed(i) /\ CasedUpto(i)' = CasedUpto(i)
    BY <1>1, PackedSame, SameFile
  <2>3. CasedUpto(Len(tabL1))' = CasedUpto(Len(tabL1))
    <3>1. PICK i : i = Len(tabL1)
      OBVIOUS
    <3>2. Len(tabL1') = i
      BY <2>1, <3>1
    <3> QED BY <2>2, <3>1, <3>2 DEF CasedUpto
  <2> QED BY <2>1, <2>2, <2>3 DEF GenInv, Tables
<1> QED BY <1>2, <1>3, <1>4 DEF GenInv

-----------------------------------------------------------------------------
(* The lookup.                                                             *)

(* The multipliers of mt[] divide a byte by 1, 6 and 36.                   *)
ThreeSlots(x, y, z) == x * 36 + y * 6 + z

(* The multiplications of casemap() take each slot out of its byte.        *)
LEMMA Decoded ==
    ASSUME NEW x \in 0 .. 5, NEW y \in 0 .. 5, NEW z \in 0 .. 5,
           NEW v, v = ThreeSlots(x, y, z)
    PROVE  /\ ((v * 2048) \div 2048) % 6 = z
           /\ ((v * 342) \div 2048) % 6 = y
           /\ ((v * 57) \div 2048) % 6 = x
<1>0. v = x * 36 + y * 6 + z
  BY DEF ThreeSlots
<1>1. v \in 0 .. 215
  BY <1>0
<1>2. /\ (v * 2048) \div 2048 = v
      /\ (v * 342) \div 2048 = x * 6 + y
      /\ (v * 57) \div 2048 = x
  BY <1>0, <1>1
<1>3. v % 6 = z /\ (x * 6 + y) % 6 = y /\ x % 6 = x
  BY <1>0
<1> QED BY <1>2, <1>3

(* Each offset is one of three in a byte.                                  *)
LEMMA Thirds ==
    ASSUME NEW o \in Nat, NEW w \in Nat, NEW n \in Nat, o < n, n <= 3 * w
    PROVE  /\ o \div 3 \in 0 .. w - 1 /\ o % 3 \in {0, 1, 2}
           /\ o = 3 * (o \div 3) + (o % 3)
OBVIOUS

(* tab[], as the lookup reads it.                                          *)
LEMMA TabIs ==
    ASSUME GenInv, phase = "ready", NEW n \in 0 .. NBlocks - 1,
           NEW q \in 0 .. Width - 1
    PROVE  n \in Built /\ TabAt(TabAt(n) * Width + q) = Packed(n)[q + 1]
<1> DEFINE w == Width
           k == L2Offset
           at == tabL1[n + 1] - k
           i == TabAt(n) * w + q
<1>1. /\ NBlocks \in Nat /\ w \in Nat \ {0} /\ k \in Nat /\ NBlocks <= k * w
      /\ n \in Nat /\ n < NBlocks /\ q \in Nat
  BY SizeFacts
<1>2. Len(tabL1) = NBlocks /\ Len(blocks) = NBlocks /\ tabL1 \in Seq(Nat)
  BY DEF GenInv, Shape, Progress
<1>3. n \in Built
  BY <1>1, <1>2 DEF Built
<1>4. /\ at \in 0 .. Len(tabL2) - 1 /\ tabL2[at + 1] = Packed(n)
  BY <1>1, <1>2 DEF GenInv, Tables
<1>5. TabAt(n) = tabL1[n + 1] /\ tabL1[n + 1] \in Nat
  BY <1>1, <1>2 DEF TabAt
<1> HIDE DEF w, k
<1>6. TabAt(n) = k + at /\ at \in Nat
  <2>1. TabAt(n) = k + at
    BY <1>1, <1>5
  <2>2. Len(tabL2) \in Nat
    BY DEF GenInv, Shape
  <2> HIDE DEF at
  <2> QED BY <1>4, <2>1, <2>2
<1> HIDE DEF at
<1>7. /\ i = k * w + (at * w + q) /\ at * w + q >= 0 /\ i >= NBlocks
      /\ i \in Int /\ k * w \in Int /\ at * w \in Int
  <2>1. i = (k + at) * w + q
    BY <1>6
  <2>2. k * w \in Int /\ at * w \in Int /\ at * w >= 0
    BY <1>1, <1>6
  <2>3. (k + at) * w = k * w + at * w
    BY <1>1, <1>6
  <2> HIDE DEF i
  <2> QED BY <1>1, <2>1, <2>2, <2>3
<1> HIDE DEF i
<1>8. i - k * w = at * w + q /\ ~(i < NBlocks) /\ ~(i - k * w < 0)
  BY <1>1, <1>7
<1>9. (at * w + q) \div w = at /\ (at * w + q) % w = q
  BY <1>1, <1>6, Divided DEF w
<1>10. TabAt(i) = tabL2[(i - k * w) \div w + 1][((i - k * w) % w) + 1]
  BY <1>8 DEF TabAt, w, k
<1>11. TabAt(i) = tabL2[at + 1][q + 1]
  BY <1>8, <1>9, <1>10
<1> QED BY <1>3, <1>4, <1>11 DEF i, w

(* The slot read from tab[] is the one the generator packed.               *)
LEMMA SlotRead ==
    ASSUME GenInv, phase = "ready", NEW n \in 0 .. NBlocks - 1,
           NEW o \in Offsets
    PROVE  ((TabAt(TabAt(n) * Width + o \div 3) * Multiplier[(o % 3) + 1])
              \div 2048) % 6 = SlotOf(n, o)
<1> DEFINE q == o \div 3
           v == TabAt(TabAt(n) * Width + q)
<1>1. q \in 0 .. Width - 1 /\ o % 3 \in {0, 1, 2} /\ o = 3 * q + (o % 3) /\ q \in Int
  <2>1. /\ o \in Nat /\ BlockSz \in Nat /\ Width \in Nat /\ o < BlockSz
        /\ BlockSz <= 3 * Width
    BY SizeFacts DEF Offsets
  <2> QED BY <2>1, Thirds
<1> HIDE DEF q
<1>2. n \in Built /\ v = Packed(n)[q + 1]
  BY <1>1, TabIs
<1>3. v = SlotOf(n, 3 * q + 2) * 36 + SlotOf(n, 3 * q + 1) * 6 + SlotOf(n, 3 * q)
  <2>1. PICK i : i = q + 1
    OBVIOUS
  <2>2. i \in 1 .. Width /\ 3 * (i - 1) = 3 * q
    BY <1>1, <2>1, SizeFacts
  <2> HIDE DEF v
  <2>3. v = Packed(n)[i]
    BY <1>2, <2>1
  <2>4. Packed(n)[i] = SlotOf(n, 3 * (i - 1) + 2) * 36
                         + SlotOf(n, 3 * (i - 1) + 1) * 6 + SlotOf(n, 3 * (i - 1))
    BY <2>2 DEF Packed
  <2> QED BY <2>2, <2>3, <2>4
<1>4. PICK x, y, z : /\ x = SlotOf(n, 3 * q + 2) /\ y = SlotOf(n, 3 * q + 1)
                     /\ z = SlotOf(n, 3 * q)
  OBVIOUS
<1>5. x \in 0 .. 5 /\ y \in 0 .. 5 /\ z \in 0 .. 5
  BY <1>2, <1>4, SlotFits DEF GenInv
<1>6. PICK u : u = v
  OBVIOUS
<1> HIDE DEF v
<1>7. u = ThreeSlots(x, y, z)
  BY <1>3, <1>4, <1>6 DEF ThreeSlots
<1>8. /\ ((u * 2048) \div 2048) % 6 = z
      /\ ((u * 342) \div 2048) % 6 = y
      /\ ((u * 57) \div 2048) % 6 = x
  BY <1>5, <1>7, Decoded
<1>9. Multiplier[1] = 2048 /\ Multiplier[2] = 342 /\ Multiplier[3] = 57
  BY DEF Multiplier
<1>10. ((v * Multiplier[(o % 3) + 1]) \div 2048) % 6 = SlotOf(n, o)
  <2>1. CASE o % 3 = 0
    <3>1. o = 3 * q /\ (o % 3) + 1 = 1
      BY <1>1, <2>1
    <3> QED BY <1>4, <1>6, <1>8, <1>9, <3>1
  <2>2. CASE o % 3 = 1
    <3>1. o = 3 * q + 1 /\ (o % 3) + 1 = 2
      BY <1>1, <2>2
    <3> QED BY <1>4, <1>6, <1>8, <1>9, <3>1
  <2>3. CASE o % 3 = 2
    <3>1. o = 3 * q + 2 /\ (o % 3) + 1 = 3
      BY <1>1, <2>3
    <3> QED BY <1>4, <1>6, <1>8, <1>9, <3>1
  <2> QED BY <1>1, <2>1, <2>2, <2>3
<1> QED BY <1>10 DEF v, q

(* The rule a code point is given: its own, or the reference.              *)
LEMMA RuleRead ==
    ASSUME GenInv, phase = "ready", NEW n \in 0 .. NBlocks - 1,
           NEW o \in Offsets
    PROVE  IF o \in blocks[n + 1].exc
           THEN /\ RuleOf(rulebases[n + 1] + SlotOf(n, o)) = Reference(n)
                /\ Filled(n)
           ELSE /\ RuleOf(rulebases[n + 1] + SlotOf(n, o)) = RuleAt(n, o)
                /\ ~HasBoth(n * BlockSz + o)
<1> DEFINE blk == blocks[n + 1]
           base == rulebases[n + 1]
<1>1. n \in Based /\ n \in Built /\ Pending = {}
  <2>1. Len(rulebases) = NBlocks /\ Len(blocks) = NBlocks /\ Pending = {}
    BY DEF GenInv, Progress
  <2> QED BY <2>1 DEF Based, Built
<1>2. /\ base \in Nat /\ blk.rules \in Seq(Int) /\ Len(blk.rules) \in Nat
      /\ ExcPos(n) = base + Len(blk.rules)
  BY <1>1, PlacesOfBlocks DEF GenInv
<1>3. SlotOf(n, o) = IF o \in blk.exc THEN Len(blk.rules)
                     ELSE PlaceOf(blk.rules, RuleAt(n, o)) - 1
  BY DEF SlotOf
<1>4. CASE o \in blk.exc
  <2>1. RuleOf(base + SlotOf(n, o)) = Reference(n)
    BY <1>2, <1>3, <1>4 DEF RuleOf, Reference
  <2>2. HasExc(n) /\ Reference(n) # 0
    BY <1>1, <1>4 DEF HasExc, Reference, Pending
  <2>3. Filled(n)
    BY <1>1, <2>2 DEF GenInv, Referred
  <2> QED BY <1>4, <2>1, <2>3
<1>5. CASE o \notin blk.exc
  <2>1. GoodBlock(n, blk) /\ Holds(base, blk.rules)
    BY <1>1 DEF GenInv, BlocksOK, Placed
  <2>2. /\ ~HasBoth(n * BlockSz + o)
        /\ \E k \in 1 .. Len(blk.rules) : blk.rules[k] = RuleAt(n, o)
    BY <1>5, <2>1 DEF GoodBlock
  <2>3. PICK k : k = PlaceOf(blk.rules, RuleAt(n, o))
    OBVIOUS
  <2>4. k \in 1 .. Len(blk.rules) /\ blk.rules[k] = RuleAt(n, o)
    <3>1. PICK s : s = blk.rules
      OBVIOUS
    <3>2. DOMAIN s = 1 .. Len(s) /\ s \in Seq(Int)
      BY <1>2, <3>1
    <3>3. k \in DOMAIN s /\ s[k] = RuleAt(n, o)
      BY <2>2, <2>3, <3>1, <3>2, PlaceOfIs
    <3> QED BY <3>1, <3>2, <3>3
  <2>5. rules[base + k] = RuleAt(n, o)
    BY <2>1, <2>4 DEF Holds
  <2>6. base + SlotOf(n, o) + 1 = base + k
    BY <1>2, <1>3, <1>5, <2>3, <2>4
  <2>7. RuleOf(base + SlotOf(n, o)) = RuleAt(n, o)
    BY <2>5, <2>6 DEF RuleOf
  <2> QED BY <1>5, <2>2, <2>7
<1> QED BY <1>4, <1>5

(* The exceptions of a block: in their order, each with its rule.          *)
LEMMA ExceptionsRead ==
    ASSUME GenInv, phase = "ready", NEW n \in 0 .. NBlocks - 1, HasExc(n)
    PROVE  /\ Start(n) \in Nat /\ Count(n) \in Nat
           /\ Start(n) + Count(n) <= Len(exceptions)
           /\ \A k \in Start(n) .. Start(n) + Count(n) - 1 :
                 /\ exceptions[k + 1][1] \in Offsets
                 /\ RuleOf(exceptions[k + 1][2]) = ExcRules(n)[exceptions[k + 1][1]]
           /\ \A o \in blocks[n + 1].exc :
                 \E k \in Start(n) .. Start(n) + Count(n) - 1 :
                    exceptions[k + 1][1] = o
           /\ \A j, k \in Start(n) .. Start(n) + Count(n) - 1 :
                 j < k => exceptions[j + 1][1] < exceptions[k + 1][1]
<1>1. PICK o \in Offsets : o \in blocks[n + 1].exc
  <2>1. n \in Built
    <3>1. Len(blocks) = NBlocks
      BY DEF GenInv, Progress
    <3> QED BY <3>1 DEF Built
  <2>2. GoodBlock(n, blocks[n + 1])
    BY <2>1 DEF GenInv, BlocksOK
  <2> QED BY <2>2 DEF GoodBlock, HasExc
<1>2. Filled(n) /\ n \in Built
  <2>1. Len(blocks) = NBlocks
    BY DEF GenInv, Progress
  <2>2. Filled(n)
    BY <1>1, RuleRead
  <2> QED BY <2>1, <2>2 DEF Built
<1>3. PICK offs : offs = Ascending(blocks[n + 1].exc)
  OBVIOUS
<1>4. /\ Count(n) \in Nat
      /\ \A k \in 1 .. Count(n) : offs[k] \in Offsets
      /\ \A x \in blocks[n + 1].exc : \E k \in 1 .. Count(n) : offs[k] = x
      /\ \A j, k \in 1 .. Count(n) : j < k => offs[j] < offs[k]
  BY <1>2, <1>3, ExceptionsListed DEF GenInv
<1>5. PICK x, m : x = Start(n) /\ m = Count(n)
  OBVIOUS
<1>6. /\ x \in Nat /\ m \in Nat /\ x + m <= Len(exceptions)
      /\ \A k \in 1 .. m :
            /\ exceptions[x + k][1] = offs[k]
            /\ rules[exceptions[x + k][2] + 1] = ExcRules(n)[exceptions[x + k][1]]
  BY <1>2, <1>3, <1>4, <1>5 DEF Filled
<1>7. \A k \in x .. x + m - 1 :
         /\ k + 1 - x \in 1 .. m /\ x + (k + 1 - x) = k + 1
         /\ k \in Int
  BY <1>6
<1>8. \A k \in x .. x + m - 1 :
         /\ exceptions[k + 1][1] = offs[k + 1 - x]
         /\ RuleOf(exceptions[k + 1][2]) = ExcRules(n)[exceptions[k + 1][1]]
  <2> SUFFICES ASSUME NEW k \in x .. x + m - 1
               PROVE  /\ exceptions[k + 1][1] = offs[k + 1 - x]
                      /\ RuleOf(exceptions[k + 1][2])
                           = ExcRules(n)[exceptions[k + 1][1]]
    OBVIOUS
  <2>1. PICK j \in 1 .. m : j = k + 1 - x /\ x + j = k + 1
    BY <1>7
  <2> QED BY <1>6, <2>1 DEF RuleOf
<1>9. \A k \in x .. x + m - 1 : exceptions[k + 1][1] \in Offsets
  BY <1>4, <1>5, <1>7, <1>8
<1>10. ASSUME NEW e \in blocks[n + 1].exc
       PROVE  \E k \in x .. x + m - 1 : exceptions[k + 1][1] = e
  <2>1. PICK j \in 1 .. m : offs[j] = e
    BY <1>4, <1>5
  <2>2. x + j - 1 \in x .. x + m - 1 /\ x + j - 1 + 1 = x + j
    BY <1>6
  <2>3. exceptions[x + j - 1 + 1][1] = e
    BY <1>6, <2>1, <2>2
  <2> QED BY <2>2, <2>3
<1>11. ASSUME NEW j \in x .. x + m - 1, NEW k \in x .. x + m - 1, j < k
       PROVE  exceptions[j + 1][1] < exceptions[k + 1][1]
  <2>1. /\ j + 1 - x \in 1 .. m /\ k + 1 - x \in 1 .. m
        /\ j + 1 - x < k + 1 - x
    BY <1>6, <1>7, <1>11
  <2>2. offs[j + 1 - x] < offs[k + 1 - x]
    BY <1>4, <1>5, <2>1
  <2> QED BY <1>8, <2>2
<1> QED BY <1>5, <1>6, <1>8, <1>9, <1>10, <1>11

(* A code point and its place in its block.                                *)
LEMMA Looking ==
    ASSUME wc \in 0 .. Limit, wc < Limit
    PROVE  /\ b \in 0 .. NBlocks - 1 /\ c \in Offsets
           /\ wc = b * BlockSz + c /\ wc \in Nat
<1>1. BlockSz \in Nat \ {0} /\ NBlocks \in Nat /\ wc \in Nat
      /\ Limit = NBlocks * BlockSz
  BY SizeFacts DEF Limit
<1>2. b \in Int /\ c \in 0 .. BlockSz - 1 /\ wc = BlockSz * b + c
  BY <1>1 DEF b, c
<1> HIDE DEF b, c
<1>3. b < NBlocks
  <2> SUFFICES ASSUME b >= NBlocks PROVE FALSE
    BY <1>1, <1>2
  <2>1. BlockSz * b >= BlockSz * NBlocks
    BY <1>1, <1>2
  <2>2. BlockSz * b \in Int /\ BlockSz * NBlocks = Limit /\ Limit \in Int
    BY <1>1, <1>2
  <2> QED BY <1>1, <1>2, <2>1, <2>2
<1>4. b >= 0
  <2> SUFFICES ASSUME b <= -1 PROVE FALSE
    BY <1>2
  <2>1. BlockSz * b <= -BlockSz
    BY <1>1, <1>2
  <2>2. BlockSz * b \in Int
    BY <1>1, <1>2
  <2> QED BY <1>1, <1>2, <2>1, <2>2
<1>5. wc = b * BlockSz + c
  BY <1>1, <1>2
<1> QED BY <1>1, <1>2, <1>3, <1>4, <1>5 DEF Offsets

(* Its own rule answers for a code point unless it is a titlecase letter,  *)
(* and the rule 3 answers for that.                                        *)
LEMMA RuleAnswers ==
    ASSUME FileOK, NEW n \in Nat, NEW l \in {0, 1}
    PROVE  /\ ~Titlecase(n) =>
                n + (IF RuleType(CpRule(n)) = l THEN 0 ELSE RuleDelta(CpRule(n)))
                  = Promised(file, n, l)
           /\ Titlecase(n) =>
                n + (IF l = 1 THEN 1 ELSE -1) = Promised(file, n, l)
<1> DEFINE low == Target(toLower, n)
           up == Target(toUpper, n)
           t == RuleType(CpRule(n))
           d == RuleDelta(CpRule(n))
<1>1. Promised(file, n, l) =
        IF l = 1 THEN low
        ELSE IF low = n \/ (low = n + 1 /\ up = n - 1) THEN up ELSE n
  BY DEF Promised, file
<1>2. /\ n \in DOMAIN toLower => low = toLower[n] /\ low \in Nat \ {n}
      /\ n \notin DOMAIN toLower => low = n
      /\ n \in DOMAIN toUpper => up = toUpper[n] /\ up \in Nat \ {n}
      /\ n \notin DOMAIN toUpper => up = n
  BY FileFacts DEF Target
<1>3. /\ t \in {0, 1}
      /\ n \in DOMAIN toLower => t = 0 /\ d = toLower[n] - n
      /\ n \notin DOMAIN toLower /\ n \in DOMAIN toUpper => t = 1 /\ d = toUpper[n] - n
      /\ n \notin DOMAIN toLower /\ n \notin DOMAIN toUpper => d = 0
  <2>1. CpRule(n) = 0 => d = 0
    BY DEF RuleDelta
  <2> HIDE DEF t, d
  <2>2. CpRule(n) \in Int
    BY CpRuleIs
  <2> QED BY <2>1, CpRuleIs DEF t, d
<1>4. Titlecase(n) <=> /\ n \in DOMAIN toLower /\ n \in DOMAIN toUpper
                       /\ up - n = -1 /\ low - n = 1
  BY <1>2 DEF Titlecase, HasBoth
<1> HIDE DEF low, up, t, d
<1>5. ~Titlecase(n) =>
         n + (IF t = l THEN 0 ELSE d) = Promised(file, n, l)
  <2>1. CASE n \in DOMAIN toLower
    BY <1>1, <1>2, <1>3, <1>4, <2>1
  <2>2. CASE n \notin DOMAIN toLower /\ n \in DOMAIN toUpper
    BY <1>1, <1>2, <1>3, <2>2
  <2>3. CASE n \notin DOMAIN toLower /\ n \notin DOMAIN toUpper
    BY <1>1, <1>2, <1>3, <2>3
  <2> QED BY <2>1, <2>2, <2>3
<1>6. Titlecase(n) => n + (IF l = 1 THEN 1 ELSE -1) = Promised(file, n, l)
  BY <1>1, <1>2, <1>4
<1> QED BY <1>5, <1>6 DEF t, d

(* What is beyond the last block maps to itself.                           *)
LEMMA BeyondAnswers ==
    ASSUME FileOK, NEW n \in Nat, n >= Limit, NEW l
    PROVE  Promised(file, n, l) = n
<1>1. n \notin 0 .. Limit - 1
  BY SizeFacts
<1>2. n \notin DOMAIN toLower /\ n \notin DOMAIN toUpper
  BY <1>1, FileFacts
<1> QED BY <1>2 DEF Promised, Target, file

(* What a step that answers has to show.                                   *)
LEMMA AnsweredKeeps ==
    ASSUME CInv, pc # "idle", NEW n, Answered(n), UNCHANGED <<gvars, wc, lower>>,
           n = Promised(file, wc, lower)
    PROVE  LookInv'
<1>1. phase = "ready" /\ wc \in 0 .. Limit /\ lower \in {0, 1}
  BY DEF CInv, LookInv
<1>2. pc' = "return" /\ result' = n
  BY DEF Answered
<1>3. file' = file /\ phase' = phase
  BY DEF gvars
<1>4. AnswersFile'
  BY <1>2, <1>3 DEF AnswersFile
<1> QED BY <1>1, <1>2, <1>3, <1>4 DEF LookInv

(* The first part of a lookup keeps the invariant.                         *)
LEMMA FetchKeeps == CInv /\ Fetch => LookInv'
<1> SUFFICES ASSUME CInv, Fetch PROVE LookInv'
  OBVIOUS
<1>1. /\ pc = "fetch" /\ phase = "ready" /\ wc \in 0 .. Limit /\ lower \in {0, 1}
      /\ UNCHANGED <<gvars, wc, lower>> /\ GenInv /\ FileOK /\ wc \in Nat
      /\ Limit \in Nat
  BY SizeFacts DEF CInv, LookInv, Fetch, GenInv, Shape
<1>2. CASE wc >= Limit
  <2>1. Answered(wc)
    BY <1>2 DEF Fetch
  <2>2. Promised(file, wc, lower) = wc
    BY <1>1, <1>2, BeyondAnswers
  <2>3. PICK x : x = wc
    OBVIOUS
  <2>4. Answered(x)
    BY <2>1, <2>3 DEF Answered
  <2> QED BY <1>1, <2>2, <2>3, <2>4, AnsweredKeeps
<1>3. CASE wc < Limit
  <2>1. /\ b \in 0 .. NBlocks - 1 /\ c \in Offsets /\ wc = b * BlockSz + c
    BY <1>1, <1>3, Looking
  <2>2. PICK n \in 0 .. NBlocks - 1, o \in Offsets : n = b /\ o = c
    BY <2>1
  <2>3. PICK rule : rule = RuleOf(rulebases[n + 1] + SlotOf(n, o))
    OBVIOUS
  <2>4. Slot = SlotOf(n, o)
    BY <1>1, <2>2, SlotRead DEF Slot
  <2>5. /\ RuleType(rule) < 2 => Apply(rule)
        /\ ~(RuleType(rule) < 2) =>
             /\ pc' = "search"
             /\ xn' = RuleDelta(rule) % 256 /\ xb' = RuleDelta(rule) \div 256
    <3>1. ~(wc >= Limit)
      BY <1>1, <1>3
    <3>2. rule = RuleOf(rulebases[b + 1] + Slot)
      BY <2>2, <2>3, <2>4
    <3> QED BY <3>1, <3>2 DEF Fetch
  <2>6. CASE o \notin blocks[n + 1].exc
    <3>1. rule = CpRule(wc) /\ ~HasBoth(wc)
      BY <1>1, <2>1, <2>2, <2>3, <2>6, RuleRead DEF RuleAt
    <3>2. RuleType(rule) \in {0, 1}
      BY <1>1, <3>1, CpRuleIs
    <3>3. Apply(rule)
      BY <2>5, <3>2
    <3>4. PICK x : x = wc + IF RuleType(rule) = lower THEN 0 ELSE RuleDelta(rule)
      OBVIOUS
    <3>5. Answered(x)
      BY <3>3, <3>4 DEF Apply, Answered
    <3>6. x = Promised(file, wc, lower)
      <4>1. ~Titlecase(wc)
        BY <3>1 DEF Titlecase
      <4> QED BY <1>1, <3>1, <3>4, <4>1, RuleAnswers
    <3> QED BY <1>1, <3>5, <3>6, AnsweredKeeps
  <2>7. CASE o \in blocks[n + 1].exc
    <3>1. rule = Reference(n) /\ Filled(n)
      BY <1>1, <2>3, <2>7, RuleRead
    <3>2. RuleType(rule) = 2 /\ RuleDelta(rule) % 256 = Count(n)
          /\ RuleDelta(rule) \div 256 = Start(n)
      BY <3>1 DEF Filled, Start
    <3>3. pc' = "search" /\ xn' = Count(n) /\ xb' = Start(n)
      BY <2>5, <3>2
    <3>4. /\ Start(n) \in Nat /\ Count(n) \in Nat
          /\ \E k \in Start(n) .. Start(n) + Count(n) - 1 :
                exceptions[k + 1][1] = o
      <4>1. HasExc(n)
        BY <2>7 DEF HasExc
      <4> QED BY <1>1, <2>7, <4>1, ExceptionsRead
    <3>5. /\ wc' = wc /\ lower' = lower /\ blocks' = blocks /\ phase' = phase
          /\ rules' = rules /\ rulebases' = rulebases /\ exceptions' = exceptions
      BY <1>1 DEF gvars
    <3>6. b' = n /\ c' = o
      BY <2>2, <3>5 DEF b, c
    <3>7. Start(n)' = Start(n) /\ Count(n)' = Count(n)
      BY <3>5 DEF Start, Count, Reference, ExcPos
    <3>8. Start(b)' = Start(n) /\ Count(b)' = Count(n)
      BY <3>6, <3>7 DEF Start, Count, Reference, ExcPos
    <3>9. Searching'
      <4>1. Start(n) <= xb' /\ xb' + xn' <= Start(n) + Count(n)
        BY <3>3, <3>4
      <4>2. \E k \in xb' .. xb' + xn' - 1 : exceptions'[k + 1][1] = c'
        BY <3>3, <3>4, <3>5, <3>6
      <4>3. c' \in blocks'[b' + 1].exc /\ wc' < Limit
        BY <1>3, <2>7, <3>5, <3>6
      <4> QED BY <3>3, <3>4, <3>8, <4>1, <4>2, <4>3 DEF Searching
    <3> QED BY <1>1, <3>3, <3>5, <3>9 DEF LookInv
  <2> QED BY <2>6, <2>7
<1> QED BY <1>1, <1>2, <1>3

(* What a search knows: where it looks next is among the exceptions of the *)
(* block, and those are sorted.                                            *)
LEMMA SearchKnows ==
    ASSUME CInv, pc = "search"
    PROVE  /\ \E k \in xb .. xb + xn - 1 :
                /\ exceptions[k + 1][1] = c
                /\ RuleOf(exceptions[k + 1][2]) = ExcRule(wc)
           /\ xb \in Nat /\ xn \in Nat \ {0} /\ Half \in Nat /\ Half < xn
           /\ xb + xn <= Len(exceptions)
           /\ Tried[1] \in Int /\ c \in Int
           /\ Tried[1] = c => RuleOf(Tried[2]) = ExcRule(wc)
           /\ \A k \in xb .. xb + xn - 1 :
                /\ k < xb + Half => exceptions[k + 1][1] < Tried[1]
                /\ k > xb + Half => Tried[1] < exceptions[k + 1][1]
<1>1. /\ phase = "ready" /\ wc \in 0 .. Limit /\ wc < Limit /\ GenInv
      /\ c \in blocks[b + 1].exc /\ xb \in Nat /\ xn \in Nat
      /\ Start(b) <= xb /\ xb + xn <= Start(b) + Count(b)
      /\ \E k \in xb .. xb + xn - 1 : exceptions[k + 1][1] = c
  BY DEF CInv, LookInv, Searching
<1>2. /\ b \in 0 .. NBlocks - 1 /\ c \in Offsets /\ wc = b * BlockSz + c
  BY <1>1, Looking
<1>3. PICK n \in 0 .. NBlocks - 1, o \in Offsets : n = b /\ o = c
  BY <1>2
<1>4. PICK x, m : x = Start(n) /\ m = Count(n)
  OBVIOUS
<1>5. /\ x \in Nat /\ m \in Nat /\ x + m <= Len(exceptions)
      /\ \A k \in x .. x + m - 1 :
            /\ exceptions[k + 1][1] \in Offsets
            /\ RuleOf(exceptions[k + 1][2]) = ExcRules(n)[exceptions[k + 1][1]]
      /\ \A j, k \in x .. x + m - 1 :
            j < k => exceptions[j + 1][1] < exceptions[k + 1][1]
  <2>1. HasExc(n)
    BY <1>1, <1>3 DEF HasExc
  <2> QED BY <1>1, <1>4, <2>1, ExceptionsRead
<1>6. x <= xb /\ xb + xn <= x + m
  BY <1>1, <1>3, <1>4
<1>7. Len(exceptions) \in Nat
  BY <1>1 DEF GenInv, Shape
<1>8. xn \in Nat \ {0} /\ Half \in Nat /\ Half < xn /\ xb + xn <= Len(exceptions)
  BY <1>1, <1>5, <1>6, <1>7 DEF Half
<1>9. PICK h : h = xb + Half
  OBVIOUS
<1>10. h \in x .. x + m - 1 /\ \A k \in xb .. xb + xn - 1 : k \in x .. x + m - 1
  BY <1>1, <1>5, <1>6, <1>8, <1>9
<1>11. Tried = exceptions[h + 1]
  BY <1>9 DEF Tried
<1>12. ExcRules(n)[o] = ExcRule(wc)
  BY <1>2, <1>3 DEF ExcRules
<1>13. Tried[1] \in Offsets
  BY <1>5, <1>10, <1>11
<1>14. \A i \in Offsets : i \in Int
  BY OffsetsFinite
<1>15. \A k \in xb .. xb + xn - 1 :
          /\ k < xb + Half => exceptions[k + 1][1] < Tried[1]
          /\ k > xb + Half => Tried[1] < exceptions[k + 1][1]
  BY <1>5, <1>9, <1>10, <1>11
<1>16. Tried[1] = c => RuleOf(Tried[2]) = ExcRule(wc)
  BY <1>3, <1>5, <1>10, <1>11, <1>12
<1>17. \E k \in xb .. xb + xn - 1 :
          /\ exceptions[k + 1][1] = c
          /\ RuleOf(exceptions[k + 1][2]) = ExcRule(wc)
  BY <1>1, <1>3, <1>5, <1>10, <1>12
<1> QED BY <1>1, <1>2, <1>8, <1>13, <1>14, <1>15, <1>16, <1>17

(* A half of the exceptions that still has the one looked for.             *)
LEMMA HalfKeeps ==
    ASSUME CInv, pc = "search", UNCHANGED <<gvars, pc, wc, lower>>,
           xb' \in Nat, xn' \in Nat, xb <= xb', xb' + xn' <= xb + xn,
           \E k \in xb' .. xb' + xn' - 1 : exceptions[k + 1][1] = c
    PROVE  LookInv'
<1>1. /\ phase = "ready" /\ wc \in 0 .. Limit /\ lower \in {0, 1}
      /\ Searching /\ GenInv
  BY DEF CInv, LookInv
<1>2. /\ blocks' = blocks /\ phase' = phase /\ exceptions' = exceptions
      /\ rules' = rules /\ rulebases' = rulebases
  BY DEF gvars
<1>3. b' = b /\ c' = c
  BY DEF b, c
<1>4. Start(b)' = Start(b) /\ Count(b)' = Count(b)
  BY <1>2, <1>3 DEF Start, Count, Reference, ExcPos
<1>5. Start(b) \in Int /\ Count(b) \in Int /\ xb \in Nat /\ xn \in Nat
  <2>1. b \in 0 .. NBlocks - 1 /\ HasExc(b)
    BY <1>1, Looking DEF Searching, HasExc
  <2>2. PICK n \in 0 .. NBlocks - 1 : n = b
    BY <2>1
  <2>3. HasExc(n)
    BY <2>1, <2>2
  <2>4. Start(n) \in Nat /\ Count(n) \in Nat
    BY <1>1, <2>3, ExceptionsRead
  <2> QED BY <1>1, <2>2, <2>4 DEF Searching
<1>6. Start(b) <= xb' /\ xb' + xn' <= Start(b) + Count(b)
  <2>1. Start(b) <= xb /\ xb + xn <= Start(b) + Count(b)
    BY <1>1 DEF Searching
  <2>2. PICK x, m : x = Start(b) /\ m = Count(b)
    OBVIOUS
  <2>3. x \in Int /\ m \in Int /\ x <= xb /\ xb + xn <= x + m
    BY <1>5, <2>1, <2>2
  <2>4. PICK i, j, i1, j1 : i = xb /\ j = xn /\ i1 = xb' /\ j1 = xn'
    OBVIOUS
  <2>5. /\ i \in Nat /\ j \in Nat /\ i1 \in Nat /\ j1 \in Nat
        /\ i <= i1 /\ i1 + j1 <= i + j /\ x <= i /\ i + j <= x + m
    BY <1>5, <2>3, <2>4
  <2>6. x <= i1 /\ i1 + j1 <= x + m
    BY <2>3, <2>5
  <2> QED BY <2>2, <2>4, <2>6
<1>7. Searching'
  BY <1>1, <1>2, <1>3, <1>4, <1>6 DEF Searching
<1> QED BY <1>1, <1>2, <1>7 DEF LookInv

(* An iteration of the binary search keeps the invariant.                  *)
LEMMA SearchStepKeeps == CInv /\ Search => LookInv'
<1> SUFFICES ASSUME CInv, Search PROVE LookInv'
  OBVIOUS
<1>1. /\ pc = "search" /\ phase = "ready" /\ wc \in 0 .. Limit /\ lower \in {0, 1}
      /\ UNCHANGED <<gvars, wc, lower>> /\ FileOK /\ wc \in Nat
  BY SizeFacts DEF CInv, LookInv, Search, GenInv, Shape
<1>2. /\ xb \in Nat /\ xn \in Nat \ {0} /\ Half \in Nat /\ Half < xn
      /\ Tried[1] \in Int /\ c \in Int
      /\ Tried[1] = c => RuleOf(Tried[2]) = ExcRule(wc)
      /\ \A k \in xb .. xb + xn - 1 :
            /\ k < xb + Half => exceptions[k + 1][1] < Tried[1]
            /\ k > xb + Half => Tried[1] < exceptions[k + 1][1]
  BY <1>1, SearchKnows
<1>3. PICK k \in xb .. xb + xn - 1 : exceptions[k + 1][1] = c
  BY <1>1, SearchKnows
<1>4. CASE Found
  <2>1. PICK rule : rule = RuleOf(Tried[2])
    OBVIOUS
  <2>2. rule = ExcRule(wc)
    BY <1>2, <1>4, <2>1 DEF Found
  <2>3. CASE Titlecase(wc)
    <3>1. rule = 3 /\ RuleType(3) = 3
      BY <2>2, <2>3 DEF ExcRule, RuleType
    <3>2. PICK x : x = wc + IF lower = 1 THEN 1 ELSE -1
      OBVIOUS
    <3>3. Answered(x)
      BY <1>4, <2>1, <3>1, <3>2 DEF Found, Answered
    <3>4. x = Promised(file, wc, lower)
      BY <1>1, <2>3, <3>2, RuleAnswers
    <3> QED BY <1>1, <3>3, <3>4, AnsweredKeeps
  <2>4. CASE ~Titlecase(wc)
    <3>1. rule = CpRule(wc)
      BY <2>2, <2>4 DEF ExcRule
    <3>2. RuleType(rule) \in {0, 1}
      BY <1>1, <3>1, CpRuleIs
    <3>3. PICK x : x = wc + IF RuleType(rule) = lower THEN 0 ELSE RuleDelta(rule)
      OBVIOUS
    <3>4. Answered(x)
      <4>1. Apply(rule)
        BY <1>4, <2>1, <3>2 DEF Found
      <4> QED BY <3>3, <4>1 DEF Apply, Answered
    <3>5. x = Promised(file, wc, lower)
      BY <1>1, <2>4, <3>1, <3>3, RuleAnswers
    <3> QED BY <1>1, <3>4, <3>5, AnsweredKeeps
  <2> QED BY <2>3, <2>4
<1>5. CASE LowerHalf
  <2>1. Tried[1] > c /\ xn' = Half /\ xb' = xb /\ pc' = pc
    BY <1>5 DEF LowerHalf
  <2>2. k < xb + Half
    <3>1. CASE k = xb + Half
      BY <1>2, <1>3, <2>1, <3>1 DEF Tried
    <3>2. CASE k > xb + Half
      BY <1>2, <1>3, <2>1, <3>2
    <3> QED BY <1>2, <3>1, <3>2
  <2>3. k \in xb' .. xb' + xn' - 1
    BY <1>2, <2>1, <2>2
  <2>4. xb' \in Nat /\ xn' \in Nat /\ xb <= xb' /\ xb' + xn' <= xb + xn
    BY <1>2, <2>1
  <2> QED BY <1>1, <1>3, <2>1, <2>3, <2>4, HalfKeeps
<1>6. CASE UpperHalf
  <2>1. Tried[1] < c /\ xb' = xb + Half /\ xn' = xn - Half /\ pc' = pc
    BY <1>6 DEF UpperHalf
  <2>2. k >= xb + Half
    <3>1. CASE k < xb + Half
      BY <1>2, <1>3, <2>1, <3>1
    <3> QED BY <1>2, <3>1
  <2>3. k \in xb' .. xb' + xn' - 1
    BY <1>2, <2>1, <2>2
  <2>4. xb' \in Nat /\ xn' \in Nat /\ xb <= xb' /\ xb' + xn' <= xb + xn
    BY <1>2, <2>1
  <2> QED BY <1>1, <1>3, <2>1, <2>3, <2>4, HalfKeeps
<1>7. Found \/ LowerHalf \/ UpperHalf
  BY <1>2 DEF Search
<1> QED BY <1>4, <1>5, <1>6, <1>7

(* A question is asked only when the tables are ready.                     *)
LEMMA CallKeeps == CInv /\ Call => LookInv'
<1> SUFFICES ASSUME CInv, Call PROVE LookInv'
  OBVIOUS
<1>1. PICK n \in 0 .. Limit, l \in {0, 1} :
         IF Wrapped THEN CallWrapper(n, l) ELSE CallLookup(n, l)
  BY DEF Call
<1>2. CASE Wrapped
  <2>1. /\ wc' = n /\ lower' = 1 - l /\ phase' = phase
        /\ pc' \in {"return", "fetch"}
    BY <1>1, <1>2 DEF CallWrapper, Answered, gvars
  <2>2. lower' \in {0, 1}
    BY <2>1
  <2> QED BY <1>2, <2>1, <2>2 DEF Call, LookInv
<1>3. CASE ~Wrapped
  <2>1. wc' = n /\ lower' = l /\ phase' = phase /\ pc' = "fetch"
    BY <1>1, <1>3 DEF CallLookup, gvars
  <2> QED BY <2>1 DEF Call, LookInv
<1> QED BY <1>2, <1>3

(* The steps outside a lookup keep the invariant.                          *)
LEMMA OtherKeeps ==
    CInv /\ ((Generate /\ Idle) \/ Return \/ UNCHANGED cvars) => LookInv'
<1> SUFFICES ASSUME CInv
             PROVE  ((Generate /\ Idle) \/ Return \/ UNCHANGED cvars) => LookInv'
  OBVIOUS
<1>1. CASE Generate /\ Idle
  BY <1>1 DEF LookInv, Idle
<1>2. CASE Return
  BY <1>2 DEF LookInv, Return
<1>3. CASE UNCHANGED cvars
  <2>1. /\ UNCHANGED <<gvars, pc, wc, lower>> /\ UNCHANGED <<xb, xn, result>>
        /\ phase' = phase /\ file' = file /\ exceptions' = exceptions
    BY <1>3 DEF cvars, gvars
  <2>2. CASE pc = "search"
    <3>1. xb \in Nat /\ xn \in Nat
      BY <2>2 DEF CInv, LookInv, Searching
    <3>2. \E k \in xb .. xb + xn - 1 : exceptions[k + 1][1] = c
      BY <2>2 DEF CInv, LookInv, Searching
    <3>3. xb' = xb /\ xn' = xn
      BY <2>1
    <3> QED BY <2>1, <2>2, <3>1, <3>2, <3>3, HalfKeeps
  <2>3. CASE pc = "return" /\ ~Wrapped
    <3>1. AnswersFile'
      BY <2>1, <2>3 DEF CInv, LookInv, AnswersFile
    <3> QED BY <2>1, <2>3, <3>1 DEF CInv, LookInv
  <2>4. CASE pc # "search" /\ ~(pc = "return" /\ ~Wrapped)
    BY <2>1, <2>4 DEF CInv, LookInv
  <2> QED BY <2>2, <2>3, <2>4
<1> QED BY <1>1, <1>2, <1>3

(* Every step keeps the invariant.                                         *)
LEMMA NextKeeps == CInv /\ [CNext]_cvars => CInv'
<1> SUFFICES ASSUME CInv, [CNext]_cvars PROVE CInv'
  OBVIOUS
<1>1. CASE Generate /\ Idle
  BY <1>1, GenerateKeeps, OtherKeeps DEF CInv
<1>2. CASE Call
  <2>1. UNCHANGED gvars
    BY <1>2 DEF Call, CallWrapper, CallLookup
  <2> QED BY <1>2, <2>1, GenSame, CallKeeps DEF CInv
<1>3. CASE Fetch
  <2>1. UNCHANGED gvars
    BY <1>3 DEF Fetch
  <2> QED BY <1>3, <2>1, GenSame, FetchKeeps DEF CInv
<1>4. CASE Search
  <2>1. UNCHANGED gvars
    BY <1>4 DEF Search
  <2> QED BY <1>4, <2>1, GenSame, SearchStepKeeps DEF CInv
<1>5. CASE Return
  <2>1. UNCHANGED gvars
    BY <1>5 DEF Return
  <2> QED BY <1>5, <2>1, GenSame, OtherKeeps DEF CInv
<1>6. CASE UNCHANGED cvars
  <2>1. UNCHANGED gvars
    BY <1>6 DEF cvars
  <2> QED BY <1>6, <2>1, GenSame, OtherKeeps DEF CInv
<1> QED BY <1>1, <1>2, <1>3, <1>4, <1>5, <1>6 DEF CNext, CStep

(* The tables and the lookup are right at every step.                      *)
THEOREM CInvariant == CSpec => []CInv
<1>1. CInit => CInv
  BY InitInv
<1>2. CInv /\ [CNext]_cvars => CInv'
  BY NextKeeps
<1> QED BY <1>1, <1>2, PTL DEF CSpec

-----------------------------------------------------------------------------
(* What follows.                                                           *)

(* The invariant implies the types.                                        *)
LEMMA TypeHolds == CInv => CTypeOK
<1> SUFFICES ASSUME CInv PROVE CTypeOK
  OBVIOUS
<1>1. /\ phase \in {"blocks", "rulebases", "tables", "ready"}
      /\ pc \in {"idle", "fetch", "search", "return"}
      /\ GenInv
  BY DEF CInv, GenInv, Shape, LookInv
<1>2. \A p \in ToSet(tabL2) : \A x \in DOMAIN p : p[x] \in 0 .. 215
  <2>1. ToSet(tabL2) \subseteq [1 .. Width -> 0 .. 215]
    <3> DEFINE V == [1 .. Width -> 0 .. 215]
    <3>1. tabL2 \in Seq(V)
      BY <1>1 DEF GenInv, Shape
    <3> HIDE DEF V
    <3>2. ToSet(tabL2) \subseteq V
      BY <3>1 DEF ToSet
    <3> QED BY <3>2 DEF V
  <2> QED BY <2>1
<1>3. \A k \in DOMAIN tabL1 : tabL1[k] - L2Offset \in 0 .. Len(tabL2) - 1
  <2> SUFFICES ASSUME NEW k \in DOMAIN tabL1
               PROVE  tabL1[k] - L2Offset \in 0 .. Len(tabL2) - 1
    OBVIOUS
  <2>1. k \in 1 .. Len(tabL1) /\ Len(tabL1) \in Nat
    BY <1>1 DEF GenInv, Shape
  <2>2. PICK n : n = k - 1
    OBVIOUS
  <2>3. n \in 0 .. Len(tabL1) - 1 /\ n + 1 = k
    BY <2>1, <2>2
  <2>4. tabL1[n + 1] - L2Offset \in 0 .. Len(tabL2) - 1
    BY <1>1, <2>3 DEF GenInv, Tables
  <2> QED BY <2>3, <2>4
<1>4. \A k \in DOMAIN rulebases : rulebases[k] \in 0 .. Len(rules) - 1
  <2> SUFFICES ASSUME NEW k \in DOMAIN rulebases
               PROVE  rulebases[k] \in 0 .. Len(rules) - 1
    OBVIOUS
  <2>1. k \in 1 .. Len(rulebases) /\ Len(rulebases) \in Nat /\ Len(rules) \in Nat
    BY <1>1 DEF GenInv, Shape
  <2>2. PICK n : n = k - 1
    OBVIOUS
  <2>3. n \in Based /\ n + 1 = k
    BY <2>1, <2>2 DEF Based
  <2>4. /\ n \in Built /\ rulebases[n + 1] \in Nat
        /\ Len(blocks[n + 1].rules) \in Nat
        /\ ExcPos(n) = rulebases[n + 1] + Len(blocks[n + 1].rules)
    BY <1>1, <2>3, PlacesOfBlocks DEF GenInv
  <2>5. /\ rulebases[n + 1] + Len(blocks[n + 1].rules) <= Len(rules)
        /\ HasExc(n) => ExcPos(n) + 1 <= Len(rules)
    BY <1>1, <2>3 DEF GenInv, Placed, Holds
  <2>6. ~HasExc(n) => Len(blocks[n + 1].rules) >= 1
    <3>1. GoodBlock(n, blocks[n + 1])
      BY <1>1, <2>4 DEF GenInv, BlocksOK
    <3> QED BY <3>1 DEF GoodBlock, HasExc
  <2>7. rulebases[n + 1] < Len(rules)
    BY <2>1, <2>4, <2>5, <2>6
  <2> QED BY <2>1, <2>3, <2>4, <2>7
<1>5. \A e \in ToSet(exceptions) : e[1] \in Offsets /\ e[2] < Len(rules)
  <2> SUFFICES ASSUME NEW e \in ToSet(exceptions)
               PROVE  e[1] \in Offsets /\ e[2] < Len(rules)
    OBVIOUS
  <2>1. exceptions \in Seq(Offsets \X Nat) /\ Len(rules) \in Nat
    BY <1>1 DEF GenInv, Shape
  <2>2. PICK k \in 1 .. Len(exceptions) : e = exceptions[k]
    BY <2>1 DEF ToSet
  <2>3. e \in Offsets \X Nat
    BY <2>1, <2>2
  <2>4. Kept(e[2])
    BY <1>1, <2>2 DEF GenInv, Indexed
  <2>5. e[2] + 1 \in 1 .. Len(rules) /\ e[2] \in Nat
    BY <2>3, <2>4 DEF Kept
  <2> QED BY <2>1, <2>3, <2>5
<1>6. pc = "search" => xb + xn <= Len(exceptions)
  BY SearchKnows
<1> QED BY <1>1, <1>2, <1>3, <1>4, <1>5, <1>6 DEF CTypeOK

(* All that is stored fits where it is stored and points where it should,  *)
(* whatever the file: the bytes of tab[], rulebases[], exceptions[].       *)
THEOREM CTypeCorrect == CSpec => []CTypeOK
BY CInvariant, TypeHolds, PTL

(* The search always has the exception it looks for before it.             *)
THEOREM SearchHits == CSpec => []SearchKeepsHit
<1>1. CInv => SearchKeepsHit
  BY SearchKnows DEF SearchKeepsHit
<1> QED BY CInvariant, <1>1, PTL

(* The tables answer every question as the file does, for every file.      *)
THEOREM TablesAnswerFile ==
    ASSUME ~Wrapped PROVE CSpec => []AnswersFile
<1>1. CInv => AnswersFile
  BY DEF CInv, LookInv, AnswersFile
<1> QED BY CInvariant, <1>1, PTL

(* Building the tables is no step of the mapping; a call asks, the step    *)
(* that leaves the search decides, and the return takes the answer.        *)
LEMMA MappingStep ==
    ASSUME ~Wrapped, CInv, CInv', [CNext]_cvars
    PROVE  [Mapping!Next]_Mapping!vars
<1>1. CASE Generate /\ Idle
  <2>1. file' = file /\ pc' = pc /\ wc' = wc /\ lower' = lower /\ result' = result
    BY <1>1 DEF Idle, Generate, BuildBlock, AllocateRules, FillExceptions, PackBlock
  <2> QED BY <2>1 DEF Mapping!vars
<1>2. CASE Call
  <2>1. PICK n \in 0 .. Limit, l \in {0, 1} : CallLookup(n, l)
    BY <1>2 DEF Call
  <2>2. pc = "idle" /\ pc' = "fetch" /\ wc' = n /\ lower' = l /\ file' = file
    BY <1>2, <2>1 DEF Call, CallLookup, gvars
  <2>3. Mapping!Ask
    BY <2>2 DEF Mapping!Ask
  <2> QED BY <2>3 DEF Mapping!Next
<1>3. CASE Fetch \/ Search
  <2>1. /\ pc \in {"fetch", "search"} /\ pc' \in {"return", "search"}
        /\ wc' = wc /\ lower' = lower /\ file' = file
    BY <1>3 DEF Fetch, Search, Apply, Answered, Found, LowerHalf, UpperHalf, gvars
  <2>2. CASE pc' = "search"
    BY <2>1, <2>2 DEF Mapping!vars
  <2>3. CASE pc' = "return"
    <3>1. result' = Promised(file, wc, lower)
      BY <2>1, <2>3 DEF CInv, LookInv, AnswersFile
    <3>2. Mapping!Decide
      BY <2>1, <2>3, <3>1 DEF Mapping!Decide
    <3> QED BY <3>2 DEF Mapping!Next
  <2> QED BY <2>1, <2>2, <2>3
<1>4. CASE Return
  <2>1. pc = "return" /\ pc' = "idle" /\ file' = file
    BY <1>4 DEF Return, gvars
  <2>2. Mapping!Take
    BY <2>1 DEF Mapping!Take
  <2> QED BY <2>2 DEF Mapping!Next
<1>5. CASE UNCHANGED cvars
  BY <1>5 DEF cvars, gvars, Mapping!vars
<1> QED BY <1>1, <1>2, <1>3, <1>4, <1>5 DEF CNext, CStep

(* The emitted lookup, tables and all, is a mapping: it answers what it    *)
(* was asked, once, from the file.                                         *)
THEOREM LookupIsMapping ==
    ASSUME ~Wrapped PROVE CSpec => Mapping!Safety
<1>1. CInit => Mapping!Init
  <2> SUFFICES ASSUME CInit PROVE Mapping!Init
    OBVIOUS
  <2>1. FileOK /\ pc = "idle"
    BY InitInv DEF CInv, GenInv, Shape, CInit
  <2> QED BY <2>1 DEF FileOK, file, Mapping!Init
<1>2. CInv /\ CInv' /\ [CNext]_cvars => [Mapping!Next]_Mapping!vars
  BY MappingStep
<1> QED BY CInvariant, <1>1, <1>2, PTL DEF CSpec, Mapping!Safety

=============================================================================
