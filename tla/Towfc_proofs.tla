---------------------------- MODULE Towfc_proofs ----------------------------
(***************************************************************************)
(* Proofs about iswfc() and towfc(), for all tables, letters and widths    *)
(* that satisfy the assumptions of Towfc, and about the tables gen_wctrans *)
(* makes for them of any CaseFolding.txt.                                  *)
(***************************************************************************)
EXTENDS FoldFile, FiniteSetTheorems, SequenceTheorems, TLAPS

Unit == Nat \cup {Garbage}

HasRow(tbl, c) == RowsFor(tbl, c) # {}

(* No row of tbl before the one the loop is at is for src. *)
NotBefore(tbl) == \A k \in DOMAIN tbl : k < fi => tbl[k][1] # src

Answering == {"guard", "ascii", "tbl2", "tbl3", "single", "lower", "done"}

FType ==
    /\ wide \in BOOLEAN
    /\ fpc \in {"idle", "isw2", "isw3", "iswupper", "counted"} \cup Answering
    /\ fpc # "idle" => src \in FoldInputs
    /\ fi \in Nat \ {0}
    /\ dest \in [0 .. 3 -> Unit]
    /\ count \in 0 .. 3 /\ ret \in Int

(* What the loops have passed: no row for src in a table that was searched *)
(* to its end, nor in the part of a table that was searched so far.        *)
Searched ==
    /\ fpc \in {"isw2", "tbl2"} => NotBefore(Tbl2)
    /\ fpc \in {"isw3", "tbl3"} => NotBefore(Tbl3)
    /\ fpc \in {"isw3", "iswupper", "tbl3", "single", "lower"}
         => ~HasRow(Tbl2, src)
    /\ fpc \in {"iswupper", "single", "lower"} => ~HasRow(Tbl3, src)

(* What iswfc() counted for the rows of the tables. *)
Counts ==
    fpc \in {"counted"} \cup Answering =>
        /\ HasRow(Tbl2, src) => count = 2
        /\ ~HasRow(Tbl2, src) /\ HasRow(Tbl3, src) => count = 3

(* towfc() searches from the first row, asks tolower() about ASCII only,   *)
(* and terminates dest before it looks up the lowercase letter of a code   *)
(* point that is no exception.                                             *)
Opened ==
    /\ fpc = "guard" => fi = 1
    /\ fpc = "ascii" => src < Ascii
    /\ fpc \in {"tbl2", "tbl3", "single", "lower"} => src >= Ascii
    /\ fpc = "lower" => dest[1] = 0 /\ Exceptions(src) = {}

FInv == FType /\ Searched /\ Counts /\ Opened /\ Terminated /\ CountSuffices

-----------------------------------------------------------------------------
(* The length of a text is where its terminator is. *)
LEMMA LengthIs ==
    ASSUME NEW d, NEW n \in 0 .. 3, d[n] = 0, \A k \in 0 .. n - 1 : d[k] # 0
    PROVE  LengthOf(d) = n
<1> DEFINE P(m) == /\ m < 4 => d[m] = 0
                   /\ \A k \in 0 .. m - 1 : d[k] # 0
<1>1. n \in 0 .. 4 /\ P(n)
  OBVIOUS
<1>2. \A m \in 0 .. 4 : P(m) => m = n
  OBVIOUS
<1>3. \E m \in 0 .. 4 : P(m)
  BY <1>1
<1>4. LengthOf(d) = CHOOSE m \in 0 .. 4 : P(m)
  BY DEF LengthOf
<1> HIDE DEF P
<1> QED BY <1>2, <1>3, <1>4

(* A row of a table is a sequence that begins with a code point. *)
LEMMA RowType ==
    ASSUME NEW tbl, NEW n \in Nat \ {0}, FoldRows(tbl, n), NEW k \in DOMAIN tbl
    PROVE  /\ tbl[k] \in Seq(Nat \ {0}) /\ Len(tbl[k]) = n
           /\ tbl[k][1] \in Nat
           /\ DOMAIN tbl = 1 .. Len(tbl) /\ Len(tbl) \in Nat
<1>1. tbl[k] \in [1 .. n -> 1 .. Bmp]
  BY DEF FoldRows
<1>2. tbl[k] \in Seq(Nat \ {0})
  BY <1>1, SeqDef
<1>3. Len(tbl[k]) = n
  BY <1>1, <1>2, LenProperties
<1>4. tbl \in Seq([1 .. n -> 1 .. Bmp])
  BY DEF FoldRows
<1> QED BY <1>1, <1>2, <1>3, <1>4, LenProperties

(* The early exit of the loops skips no row for src. *)
LEMMA FoldExit ==
    ASSUME NEW tbl, NEW n \in Nat \ {0}, FoldRows(tbl, n),
           NEW c \in Nat, NEW m \in Nat \ {0},
           \A k \in DOMAIN tbl : k < m => tbl[k][1] # c,
           m > Len(tbl) \/ tbl[m][1] > c
    PROVE  ~HasRow(tbl, c)
<1> SUFFICES ASSUME NEW k \in DOMAIN tbl, tbl[k][1] = c
             PROVE  FALSE
  BY DEF HasRow, RowsFor
<1>1. k \in 1 .. Len(tbl) /\ DOMAIN tbl = 1 .. Len(tbl) /\ Len(tbl) \in Nat
  BY RowType
<1>2. k >= m
  BY <1>1
<1>3. m \in DOMAIN tbl /\ tbl[m][1] > c
  BY <1>1, <1>2
<1>4. m # k
  BY <1>3
<1>5. m < k
  BY <1>1, <1>2, <1>4
<1>6. tbl[m][1] <= tbl[k][1]
  BY <1>3, <1>5 DEF FoldRows
<1>7. tbl[m][1] \in Nat /\ tbl[k][1] \in Nat
  BY <1>3, RowType
<1> QED BY <1>3, <1>6, <1>7

(* Units in front of dest replace those it had.                            *)
LEMMA PutUnits ==
    ASSUME dest \in [0 .. 3 -> Unit], NEW s \in Seq(Nat), Len(s) <= 4
    PROVE  /\ Put(s) \in [0 .. 3 -> Unit]
           /\ \A k \in 0 .. 3 : k < Len(s) => Put(s)[k] = s[k + 1]
           /\ \A k \in 0 .. 3 : k >= Len(s) => Put(s)[k] = dest[k]
<1>1. \A k \in 0 .. 3 : k < Len(s) => s[k + 1] \in Nat
  BY LenProperties, ElementOfSeq
<1> QED BY <1>1 DEF Put, Unit

(* A terminated text of n units is written as such. *)
LEMMA PutText ==
    ASSUME dest \in [0 .. 3 -> Unit], NEW n \in 1 .. 3,
           NEW t \in Seq(Nat \ {0}), Len(t) = n
    PROVE  /\ Put(t \o <<0>>) \in [0 .. 3 -> Unit]
           /\ LengthOf(Put(t \o <<0>>)) = n
           /\ \A k \in 0 .. n : Put(t \o <<0>>)[k] # Garbage
           /\ \A k \in 0 .. n - 1 : Put(t \o <<0>>)[k] = t[k + 1]
<1> DEFINE s == t \o <<0>>
<1>1. t \in Seq(Nat) /\ <<0>> \in Seq(Nat)
  BY SeqMonotonic
<1>2. s \in Seq(Nat) /\ Len(s) = n + 1
  BY <1>1
<1>3. s[n + 1] = 0 /\ \A k \in 1 .. n : s[k] = t[k] /\ t[k] \in Nat \ {0}
  BY <1>1, LenProperties, ElementOfSeq
<1> HIDE DEF s
<1>4. /\ Put(s) \in [0 .. 3 -> Unit]
      /\ Put(s)[n] = 0
      /\ \A k \in 0 .. n - 1 : Put(s)[k] = t[k + 1] /\ t[k + 1] \in Nat \ {0}
  BY <1>2, <1>3, PutUnits
<1>5. LengthOf(Put(s)) = n
  BY <1>4, LengthIs
<1>6. \A k \in 0 .. n : Put(s)[k] # Garbage
  BY <1>4, UnitsOK
<1> QED BY <1>4, <1>5, <1>6 DEF s

LEMMA OneUnit == ASSUME NEW c \in Nat PROVE <<c>> \o <<0>> = <<c, 0>>
<1> DEFINE s == <<c>> \o <<0>>
<1>1. s \in Seq(Nat) /\ Len(s) = 2 /\ s[1] = c /\ s[2] = 0
  OBVIOUS
<1>2. <<c, 0>> \in Seq(Nat) /\ Len(<<c, 0>>) = 2
  OBVIOUS
<1> HIDE DEF s
<1>3. \A k \in 1 .. 2 : s[k] = <<c, 0>>[k]
  BY <1>1
<1>4. s = <<c, 0>>
  BY <1>1, <1>2, <1>3, SeqEqual
<1> QED BY <1>4 DEF s

(* Units yields one unit, or two that make a surrogate pair. *)
LEMMA UnitsType ==
    ASSUME wide \in BOOLEAN, NEW c \in Nat \ {0}
    PROVE  /\ Units(c) \in Seq(Nat \ {0})
           /\ \/ Len(Units(c)) = 1 /\ Units(c) = <<c>>
              \/ Len(Units(c)) = 2 /\ ~wide /\ c > Bmp /\ IsPair(Units(c))
<1>1. CASE wide \/ c <= Bmp
  <2>1. Units(c) = <<c>>
    BY <1>1 DEF Units
  <2>2. <<c>> \in Seq(Nat \ {0}) /\ Len(<<c>>) = 1
    OBVIOUS
  <2> QED BY <2>1, <2>2
<1>2. CASE ~(wide \/ c <= Bmp)
  <2> DEFINE h == ((c - Bmp - 1) \div LoBits) % LoBits
             l == c % LoBits
  <2>1. Bmp \in Nat /\ LoBits \in Nat /\ LoBits > 0
    BY UnitsOK
  <2>2. c - Bmp - 1 \in Nat
    BY <1>2, <2>1
  <2>3. (c - Bmp - 1) \div LoBits \in Int
    BY <2>1, <2>2
  <2>4. h \in 0 .. LoBits - 1 /\ l \in 0 .. LoBits - 1
    BY <2>1, <2>3
  <2>5. Units(c) = <<HiBase + h, LoBase + l>>
    BY <1>2 DEF Units
  <2> HIDE DEF h, l
  <2>6. HiBase + h \in HiBase .. LoBase - 1 /\ LoBase + l \in Nat \ {0}
    BY <2>4, UnitsOK
  <2>7. HiBase + h \in Nat \ {0}
    BY <2>6, UnitsOK
  <2>8. c > Bmp
    BY <1>2, <2>1
  <2>9. Units(c) \in Seq(Nat \ {0}) /\ Len(Units(c)) = 2
    BY <2>5, <2>6, <2>7
  <2>10. IsPair(Units(c))
    BY <2>5, <2>6 DEF IsPair
  <2> QED BY <1>2, <2>8, <2>9, <2>10
<1> QED BY <1>1, <1>2

(* A fold that writes a terminated text of n units ends as it should if n  *)
(* is what it returns and what iswfc() counted.                            *)
Wrote(n, t) ==
    /\ n \in 1 .. 3 /\ t \in Seq(Nat \ {0}) /\ Len(t) = n
    /\ dest' = Put(t \o <<0>>) /\ fpc' = "done"
    /\ UNCHANGED <<wide, src, fi, count>>

LEMMA WroteText ==
    ASSUME FType, NEW n, NEW t, Wrote(n, t)
    PROVE  /\ dest' \in [0 .. 3 -> Unit]
           /\ Length' = n /\ Text' = t
           /\ \A k \in 0 .. n : dest'[k] # Garbage
<1> USE DEF Wrote
<1>1. /\ dest' \in [0 .. 3 -> Unit]
      /\ Length' = n
      /\ \A k \in 0 .. n : dest'[k] # Garbage
      /\ \A k \in 0 .. n - 1 : dest'[k] = t[k + 1]
  BY PutText DEF FType, Length
<1>2. Text' = [k \in 1 .. n |-> dest'[k - 1]]
  BY <1>1 DEF Text
<1>3. \A k \in 1 .. n : dest'[k - 1] = t[k]
  BY <1>1
<1>4. t \in [1 .. n -> Nat \ {0}]
  BY LenProperties
<1>5. Text' = t
  BY <1>2, <1>3, <1>4
<1> QED BY <1>1, <1>5

LEMMA FinishText ==
    ASSUME FType, NEW n, NEW t, Wrote(n, t),
           \/ ret' = -1 /\ n = Len(Units(src))
           \/ ret' = n,
           \/ n = 1 \/ n <= count
           \/ n = 2 /\ ~wide /\ IsPair(t)
    PROVE  Terminated' /\ CountSuffices' /\ dest' \in [0 .. 3 -> Unit]
<1>1. /\ dest' \in [0 .. 3 -> Unit] /\ Length' = n
      /\ \A k \in 0 .. n : dest'[k] # Garbage
  BY WroteText
<1>2. Text' = t /\ n \in 1 .. 3 /\ UNCHANGED <<wide, src, count>>
  BY WroteText DEF Wrote
<1>3. Units(src)' = Units(src)
  BY <1>2 DEF Units
<1>4. Terminated'
  <2>1. n < 4
    BY <1>2
  <2> QED BY <1>1, <1>2, <1>3, <2>1 DEF Terminated
<1>5. CountSuffices'
  <2>1. IsPair(Text)' <=> IsPair(t)
    BY <1>2 DEF IsPair
  <2>2. count \in 0 .. 3
    BY DEF FType
  <2>3. CASE n = 1 \/ n <= count
    BY <1>1, <1>2, <2>2, <2>3 DEF CountSuffices
  <2>4. CASE n = 2 /\ ~wide /\ IsPair(t)
    BY <1>1, <1>2, <2>1, <2>2, <2>4 DEF CountSuffices
  <2> QED BY <2>3, <2>4
<1> QED BY <1>1, <1>4, <1>5

(* A loop over a table that has not found src leaves it knowing that it    *)
(* has no row for src, or has passed one row more.                         *)
LEMMA ScanStep ==
    ASSUME FType, fpc # "idle", NEW tbl, NEW n \in Nat \ {0}, FoldRows(tbl, n),
           NotBefore(tbl), ~(fi <= Len(tbl) /\ tbl[fi][1] = src)
    PROVE  /\ fi > Len(tbl) \/ tbl[fi][1] > src => ~HasRow(tbl, src)
           /\ fi' = fi + 1 /\ src' = src => NotBefore(tbl)'
<1>1. /\ fi \in Nat \ {0} /\ src \in Nat
      /\ DOMAIN tbl = 1 .. Len(tbl) /\ Len(tbl) \in Nat
  BY LettersOK, LenProperties DEF FType, FoldRows
<1>2. fi > Len(tbl) \/ tbl[fi][1] > src => ~HasRow(tbl, src)
  BY <1>1, FoldExit DEF NotBefore
<1>3. ASSUME fi' = fi + 1, src' = src
      PROVE  NotBefore(tbl)'
  <2> SUFFICES ASSUME NEW k \in DOMAIN tbl, k < fi + 1
               PROVE  tbl[k][1] # src
    BY <1>3 DEF NotBefore
  <2>1. k < fi \/ k = fi
    BY <1>1
  <2> QED BY <1>1, <2>1 DEF NotBefore
<1> QED BY <1>2, <1>3

(* At its first row a loop has passed none. *)
LEMMA ScanStart ==
    ASSUME NEW tbl, NEW n \in Nat \ {0}, FoldRows(tbl, n), fi' = 1
    PROVE  NotBefore(tbl)'
<1>1. DOMAIN tbl = 1 .. Len(tbl)
  BY LenProperties DEF FoldRows
<1> QED BY <1>1 DEF NotBefore

-----------------------------------------------------------------------------
LEMMA FInvInit == FInit => FInv
<1> SUFFICES ASSUME FInit PROVE FInv
  OBVIOUS
<1>1. FType
  BY UnitsOK DEF FInit, FType, Unit
<1>2. Searched /\ Counts /\ Opened /\ Terminated /\ CountSuffices
  BY DEF FInit, Searched, Counts, Opened, Terminated, CountSuffices, Folded,
         Answering
<1> QED BY <1>1, <1>2 DEF FInv

(* What is to be shown of a call that has not ended yet. *)
LEMMA NotDone == fpc' # "done" => Terminated' /\ CountSuffices'
BY DEF Terminated, CountSuffices, Folded

LEMMA CallIswfcInv == FInv /\ CallIswfc => FInv'
<1> SUFFICES ASSUME FInv, NEW c \in FoldInputs, CallIswfcWith(c)
             PROVE  FInv'
  BY DEF CallIswfc
<1> USE DEF CallIswfcWith
<1>1. FType'
  BY DEF FInv, FType
<1>2. NotBefore(Tbl2)'
  BY FoldTablesOK, ScanStart
<1>3. Searched' /\ Counts' /\ Opened'
  BY <1>2 DEF Searched, Counts, Opened, Answering
<1>4. Terminated' /\ CountSuffices'
  BY NotDone
<1> QED BY <1>1, <1>3, <1>4 DEF FInv

LEMMA IswTbl2Inv == FInv /\ IswTbl2 => FInv'
<1> SUFFICES ASSUME FInv, IswTbl2
             PROVE  FInv'
  OBVIOUS
<1>1. /\ fpc = "isw2" /\ FType /\ NotBefore(Tbl2) /\ FoldRows(Tbl2, 3)
      /\ FoldRows(Tbl3, 4) /\ UNCHANGED <<wide, src, dest, ret>>
  BY FoldTablesOK DEF FInv, Searched, IswTbl2, ScanTable, Counted, args
<1>2. Opened' /\ Terminated' /\ CountSuffices'
  BY <1>1, NotDone DEF IswTbl2, ScanTable, Counted, Opened
<1>3. CASE fi <= Len(Tbl2) /\ Tbl2[fi][1] = src
  <2>1. HasRow(Tbl2, src)
    BY <1>1, <1>3, LenProperties DEF HasRow, RowsFor, FType, FoldRows
  <2>2. fpc' = "counted" /\ count' = 2 /\ UNCHANGED fi
    BY <1>3 DEF IswTbl2, ScanTable, Counted
  <2>3. FType' /\ Searched' /\ Counts'
    BY <1>1, <2>1, <2>2 DEF FType, Searched, Counts, HasRow, Answering
  <2> QED BY <1>2, <2>3 DEF FInv
<1>4. CASE ~(fi <= Len(Tbl2) /\ Tbl2[fi][1] = src)
  <2>1. UNCHANGED count /\ FType'
    BY <1>1, <1>4 DEF IswTbl2, ScanTable, FType, Answering
  <2>2. CASE fi > Len(Tbl2) \/ Tbl2[fi][1] > src
    <3>1. fpc' = "isw3" /\ fi' = 1 /\ ~HasRow(Tbl2, src)
      BY <1>1, <1>4, <2>2, ScanStep DEF IswTbl2, ScanTable
    <3>2. NotBefore(Tbl3)'
      BY <1>1, <3>1, ScanStart
    <3>3. Searched' /\ Counts'
      BY <1>1, <3>1, <3>2 DEF Searched, Counts, HasRow, Answering
    <3> QED BY <1>2, <2>1, <3>3 DEF FInv
  <2>3. CASE ~(fi > Len(Tbl2) \/ Tbl2[fi][1] > src)
    <3>1. fpc' = "isw2" /\ fi' = fi + 1
      BY <1>1, <1>4, <2>3 DEF IswTbl2, ScanTable
    <3>2. NotBefore(Tbl2)'
      BY <1>1, <1>4, <3>1, ScanStep
    <3>3. Searched' /\ Counts'
      BY <3>1, <3>2 DEF Searched, Counts, Answering
    <3> QED BY <1>2, <2>1, <3>3 DEF FInv
  <2> QED BY <2>2, <2>3
<1> QED BY <1>3, <1>4

LEMMA IswTbl3Inv == FInv /\ IswTbl3 => FInv'
<1> SUFFICES ASSUME FInv, IswTbl3
             PROVE  FInv'
  OBVIOUS
<1>1. /\ fpc = "isw3" /\ FType /\ NotBefore(Tbl3) /\ ~HasRow(Tbl2, src)
      /\ FoldRows(Tbl3, 4) /\ UNCHANGED <<wide, src, dest, ret>>
  BY FoldTablesOK DEF FInv, Searched, IswTbl3, ScanTable, Counted, args
<1>2. Opened' /\ Terminated' /\ CountSuffices' /\ ~HasRow(Tbl2, src)'
  BY <1>1, NotDone DEF IswTbl3, ScanTable, Counted, Opened, HasRow
<1>3. CASE fi <= Len(Tbl3) /\ Tbl3[fi][1] = src
  <2>1. fpc' = "counted" /\ count' = 3 /\ UNCHANGED fi
    BY <1>3 DEF IswTbl3, ScanTable, Counted
  <2>2. FType' /\ Searched' /\ Counts'
    BY <1>1, <1>2, <2>1 DEF FType, Searched, Counts, Answering
  <2> QED BY <1>2, <2>2 DEF FInv
<1>4. CASE ~(fi <= Len(Tbl3) /\ Tbl3[fi][1] = src)
  <2>1. UNCHANGED count /\ FType'
    BY <1>1, <1>4 DEF IswTbl3, ScanTable, FType, Answering
  <2>2. CASE fi > Len(Tbl3) \/ Tbl3[fi][1] > src
    <3>1. fpc' = "iswupper" /\ ~HasRow(Tbl3, src)
      BY <1>1, <1>4, <2>2, ScanStep DEF IswTbl3, ScanTable
    <3>2. Searched' /\ Counts'
      BY <1>1, <1>2, <3>1 DEF Searched, Counts, HasRow, Answering
    <3> QED BY <1>2, <2>1, <3>2 DEF FInv
  <2>3. CASE ~(fi > Len(Tbl3) \/ Tbl3[fi][1] > src)
    <3>1. fpc' = "isw3" /\ fi' = fi + 1
      BY <1>1, <1>4, <2>3 DEF IswTbl3, ScanTable
    <3>2. NotBefore(Tbl3)'
      BY <1>1, <1>4, <3>1, ScanStep
    <3>3. Searched' /\ Counts'
      BY <1>2, <3>1, <3>2 DEF Searched, Counts, Answering
    <3> QED BY <1>2, <2>1, <3>3 DEF FInv
  <2> QED BY <2>2, <2>3
<1> QED BY <1>3, <1>4

LEMMA IswupperInv == FInv /\ Iswupper => FInv'
<1> SUFFICES ASSUME FInv, Iswupper
             PROVE  FInv'
  OBVIOUS
<1>1. /\ FType /\ fpc = "iswupper" /\ fpc' = "counted"
      /\ ~HasRow(Tbl2, src) /\ ~HasRow(Tbl3, src)
      /\ UNCHANGED <<wide, src, fi, dest, ret>> /\ count' \in {0, 1}
  BY DEF FInv, Searched, Iswupper, Counted, args
<1>2. FType' /\ Searched' /\ Counts' /\ Opened'
  BY <1>1 DEF FType, Searched, Counts, Opened, HasRow, Answering
<1> QED BY <1>1, <1>2, NotDone DEF FInv

LEMMA CallTowfcInv == FInv /\ CallTowfc => FInv'
<1> SUFFICES ASSUME FInv, CallTowfc
             PROVE  FInv'
  OBVIOUS
<1>1. FType' /\ Searched' /\ Counts' /\ Opened'
  BY DEF FInv, CallTowfc, FType, Searched, Counts, Opened, HasRow, Answering
<1> QED BY <1>1, NotDone DEF FInv, CallTowfc

LEMMA GuardInv == FInv /\ Guard => FInv'
<1> SUFFICES ASSUME FInv, Guard
             PROVE  FInv'
  OBVIOUS
<1>1. /\ FType /\ fpc = "guard" /\ fi = 1 /\ UNCHANGED <<wide, src, fi, count>>
      /\ fpc' \in {"ascii", "tbl2", "done"} /\ ret' \in Int
      /\ fpc' = "ascii" => src < Ascii
      /\ fpc' = "tbl2" => ~(src < Ascii)
      /\ fpc' = "done" => ret' \in {-2, -3, -4}
  BY DEF FInv, FType, Opened, Guard, Finish, Write, args
<1>2. dest' \in [0 .. 3 -> Unit]
  <2>1. Put(<<0>>) \in [0 .. 3 -> Unit]
    <3> DEFINE s == <<0>>
    <3>1. s \in Seq(Nat) /\ Len(s) <= 4
      OBVIOUS
    <3>2. dest \in [0 .. 3 -> Unit]
      BY <1>1 DEF FType
    <3> HIDE DEF s
    <3>3. Put(s) \in [0 .. 3 -> Unit]
      BY <3>1, <3>2, PutUnits
    <3> QED BY <3>3 DEF s
  <2> QED BY <1>1, <2>1 DEF FType, Guard, Write
<1>3. FType' /\ Counts' /\ Opened'
  <2>1. src \in Nat /\ Ascii \in Nat
    BY <1>1, LettersOK, UnitsOK DEF FType
  <2> QED BY <1>1, <1>2, <2>1 DEF FInv, FType, Counts, Opened, HasRow, Answering
<1>4. NotBefore(Tbl2)'
  BY <1>1, FoldTablesOK, ScanStart
<1>5. Searched' /\ ~Folded'
  BY <1>1, <1>4 DEF Searched, Folded
<1> QED BY <1>3, <1>5 DEF FInv, Terminated, CountSuffices

LEMMA AsciiWrites ==
    FInv /\ FoldAscii => /\ Wrote(1, <<Lowered(src)>>)
                         /\ ret' = Replaced(Lowered(src))
<1> SUFFICES ASSUME FInv, FoldAscii
             PROVE  /\ Wrote(1, <<Lowered(src)>>)
                    /\ ret' = Replaced(Lowered(src))
  OBVIOUS
<1> DEFINE low == Lowered(src)
<1>1. /\ FType /\ fpc = "ascii" /\ fpc' = "done"
      /\ UNCHANGED <<wide, src, fi, count>>
      /\ dest' = Put(<<low, 0>>) /\ ret' = Replaced(low)
  BY DEF FInv, FoldAscii, Finish, Write, args
<1>2. low \in Nat \ {0}
  BY <1>1, LettersOK DEF FType
<1> HIDE DEF low
<1>3. <<low>> \in Seq(Nat \ {0}) /\ Len(<<low>>) = 1 /\ 1 \in 1 .. 3
  BY <1>2
<1>4. <<low>> \o <<0>> = <<low, 0>>
  BY <1>2, OneUnit
<1>5. dest' = Put(<<low>> \o <<0>>)
  BY <1>1, <1>4, Zenon
<1>6. Wrote(1, <<low>>) /\ ret' = Replaced(low)
  BY <1>1, <1>3, <1>5 DEF Wrote
<1> QED BY <1>6 DEF low

LEMMA FoldAsciiInv == FInv /\ FoldAscii => FInv'
<1> SUFFICES ASSUME FInv, FoldAscii
             PROVE  FInv'
  OBVIOUS
<1>1. /\ FType /\ fpc = "ascii" /\ src < Ascii
      /\ Wrote(1, <<Lowered(src)>>) /\ ret' \in {-1, 1}
  BY AsciiWrites DEF FInv, Opened, FoldAscii, Replaced
<1>2. Len(Units(src)) = 1
  <2>1. src \in Nat
    BY <1>1, LettersOK DEF FType
  <2>2. src <= Bmp
    BY <1>1, <2>1, UnitsOK
  <2>3. Units(src) = <<src>>
    BY <2>2 DEF Units
  <2> QED BY <2>3
<1>3. Terminated' /\ CountSuffices' /\ dest' \in [0 .. 3 -> Unit]
  <2>1. (ret' = -1 /\ 1 = Len(Units(src))) \/ ret' = 1
    BY <1>1, <1>2
  <2> QED BY <1>1, <2>1, FinishText
<1>4. FType' /\ Searched' /\ Counts' /\ Opened'
  BY <1>1, <1>3
     DEF FInv, FType, Searched, Counts, Opened, HasRow, Answering, Wrote
<1> QED BY <1>3, <1>4 DEF FInv

(* What a row folds to: its code points after the first.                   *)
LEMMA RowFolding ==
    ASSUME NEW tbl, NEW n \in {2, 3}, FoldRows(tbl, n + 1), NEW k \in DOMAIN tbl
    PROVE  Tail(tbl[k]) \in Seq(Nat \ {0}) /\ Len(Tail(tbl[k])) = n
<1>1. tbl[k] \in Seq(Nat \ {0}) /\ Len(tbl[k]) = n + 1
  BY RowType
<1> QED BY <1>1

LEMMA Tbl2Writes ==
    ASSUME FInv, FoldTbl2, fi <= Len(Tbl2), Tbl2[fi][1] = src
    PROVE  /\ Wrote(2, Tail(Tbl2[fi])) /\ ret' = 2
           /\ fi \in RowsFor(Tbl2, src)
<1> DEFINE t == Tail(Tbl2[fi])
<1>1. FType /\ FoldRows(Tbl2, 3)
  BY FoldTablesOK DEF FInv
<1>2. fi \in RowsFor(Tbl2, src)
  BY <1>1, LenProperties DEF RowsFor, FType, FoldRows
<1>3. t \in Seq(Nat \ {0}) /\ Len(t) = 2
  BY <1>1, <1>2, RowFolding DEF RowsFor
<1>4. /\ UNCHANGED <<wide, src, fi, count>>
      /\ dest' = Put(t \o <<0>>) /\ fpc' = "done" /\ ret' = 2
  BY DEF FoldTbl2, ScanTable, Write, Finish, args
<1>5. 2 \in 1 .. 3
  OBVIOUS
<1> HIDE DEF t
<1>6. Wrote(2, t)
  BY <1>3, <1>4, <1>5 DEF Wrote
<1> QED BY <1>2, <1>4, <1>6 DEF t

LEMMA FoldTbl2Inv == FInv /\ FoldTbl2 => FInv'
<1> SUFFICES ASSUME FInv, FoldTbl2
             PROVE  FInv'
  OBVIOUS
<1>1. /\ fpc = "tbl2" /\ FType /\ NotBefore(Tbl2) /\ FoldRows(Tbl2, 3)
      /\ FoldRows(Tbl3, 4) /\ UNCHANGED <<wide, src, count>>
  BY FoldTablesOK DEF FInv, Searched, FoldTbl2, ScanTable, Write, args
<1>2. Opened' /\ Counts'
  BY <1>1
     DEF FInv, FoldTbl2, ScanTable, Finish, Opened, Counts, HasRow, Answering
<1>3. CASE fi <= Len(Tbl2) /\ Tbl2[fi][1] = src
  <2>1. Wrote(2, Tail(Tbl2[fi])) /\ ret' = 2 /\ HasRow(Tbl2, src)
    BY <1>3, Tbl2Writes DEF HasRow
  <2>2. count = 2
    BY <1>1, <2>1 DEF FInv, Counts, Answering
  <2>3. Terminated' /\ CountSuffices' /\ dest' \in [0 .. 3 -> Unit]
    BY <1>1, <2>1, <2>2, FinishText
  <2>4. FType' /\ Searched'
    BY <1>1, <2>1, <2>3 DEF FType, Searched, Answering, Wrote
  <2> QED BY <1>2, <2>3, <2>4 DEF FInv
<1>4. CASE ~(fi <= Len(Tbl2) /\ Tbl2[fi][1] = src)
  <2>1. UNCHANGED <<dest, ret>> /\ FType' /\ fpc' # "done"
    BY <1>1, <1>4 DEF FoldTbl2, ScanTable, FType, Answering
  <2>2. CASE fi > Len(Tbl2) \/ Tbl2[fi][1] > src
    <3>1. fpc' = "tbl3" /\ fi' = 1 /\ ~HasRow(Tbl2, src)
      BY <1>1, <1>4, <2>2, ScanStep DEF FoldTbl2, ScanTable
    <3>2. NotBefore(Tbl3)'
      BY <1>1, <3>1, ScanStart
    <3>3. Searched'
      BY <1>1, <3>1, <3>2 DEF Searched, HasRow
    <3> QED BY <1>2, <2>1, <3>3, NotDone DEF FInv
  <2>3. CASE ~(fi > Len(Tbl2) \/ Tbl2[fi][1] > src)
    <3>1. fpc' = "tbl2" /\ fi' = fi + 1
      BY <1>1, <1>4, <2>3 DEF FoldTbl2, ScanTable
    <3>2. NotBefore(Tbl2)'
      BY <1>1, <1>4, <3>1, ScanStep
    <3>3. Searched'
      BY <3>1, <3>2 DEF Searched
    <3> QED BY <1>2, <2>1, <3>3, NotDone DEF FInv
  <2> QED BY <2>2, <2>3
<1> QED BY <1>3, <1>4

LEMMA Tbl3Writes ==
    ASSUME FInv, FoldTbl3, fi <= Len(Tbl3), Tbl3[fi][1] = src
    PROVE  /\ Wrote(3, Tail(Tbl3[fi])) /\ ret' = 3
           /\ fi \in RowsFor(Tbl3, src)
<1> DEFINE t == Tail(Tbl3[fi])
<1>1. FType /\ FoldRows(Tbl3, 4)
  BY FoldTablesOK DEF FInv
<1>2. fi \in RowsFor(Tbl3, src)
  BY <1>1, LenProperties DEF RowsFor, FType, FoldRows
<1>3. t \in Seq(Nat \ {0}) /\ Len(t) = 3
  BY <1>1, <1>2, RowFolding DEF RowsFor
<1>4. /\ UNCHANGED <<wide, src, fi, count>>
      /\ dest' = Put(t \o <<0>>) /\ fpc' = "done" /\ ret' = 3
  BY DEF FoldTbl3, ScanTable, Write, Finish, args
<1>5. 3 \in 1 .. 3
  OBVIOUS
<1> HIDE DEF t
<1>6. Wrote(3, t)
  BY <1>3, <1>4, <1>5 DEF Wrote
<1> QED BY <1>2, <1>4, <1>6 DEF t

LEMMA FoldTbl3Inv == FInv /\ FoldTbl3 => FInv'
<1> SUFFICES ASSUME FInv, FoldTbl3
             PROVE  FInv'
  OBVIOUS
<1>1. /\ fpc = "tbl3" /\ FType /\ NotBefore(Tbl3) /\ ~HasRow(Tbl2, src)
      /\ FoldRows(Tbl3, 4) /\ UNCHANGED <<wide, src, count>>
  BY FoldTablesOK DEF FInv, Searched, FoldTbl3, ScanTable, Write, args
<1>2. Opened' /\ Counts' /\ ~HasRow(Tbl2, src)'
  BY <1>1
     DEF FInv, FoldTbl3, ScanTable, Finish, Opened, Counts, HasRow, Answering
<1>3. CASE fi <= Len(Tbl3) /\ Tbl3[fi][1] = src
  <2>1. Wrote(3, Tail(Tbl3[fi])) /\ ret' = 3 /\ HasRow(Tbl3, src)
    BY <1>3, Tbl3Writes DEF HasRow
  <2>2. count = 3
    BY <1>1, <2>1 DEF FInv, Counts, Answering
  <2>3. Terminated' /\ CountSuffices' /\ dest' \in [0 .. 3 -> Unit]
    BY <1>1, <2>1, <2>2, FinishText
  <2>4. FType' /\ Searched'
    BY <1>1, <2>1, <2>3 DEF FType, Searched, Answering, Wrote
  <2> QED BY <1>2, <2>3, <2>4 DEF FInv
<1>4. CASE ~(fi <= Len(Tbl3) /\ Tbl3[fi][1] = src)
  <2>1. UNCHANGED <<dest, ret>> /\ FType' /\ fpc' # "done"
    BY <1>1, <1>4 DEF FoldTbl3, ScanTable, FType, Answering
  <2>2. CASE fi > Len(Tbl3) \/ Tbl3[fi][1] > src
    <3>1. fpc' = "single" /\ ~HasRow(Tbl3, src)
      BY <1>1, <1>4, <2>2, ScanStep DEF FoldTbl3, ScanTable
    <3>2. Searched'
      BY <1>1, <1>2, <3>1 DEF Searched, HasRow
    <3> QED BY <1>2, <2>1, <3>2, NotDone DEF FInv
  <2>3. CASE ~(fi > Len(Tbl3) \/ Tbl3[fi][1] > src)
    <3>1. fpc' = "tbl3" /\ fi' = fi + 1
      BY <1>1, <1>4, <2>3 DEF FoldTbl3, ScanTable
    <3>2. NotBefore(Tbl3)'
      BY <1>1, <1>4, <3>1, ScanStep
    <3>3. Searched'
      BY <1>2, <3>1, <3>2 DEF Searched
    <3> QED BY <1>2, <2>1, <3>3, NotDone DEF FInv
  <2> QED BY <2>2, <2>3
<1> QED BY <1>3, <1>4

LEMMA ExceptionWrites ==
    ASSUME FInv, FoldException, NEW g \in Groups, Excepts(g, src),
           Write(<<Excepted(g, src), 0>>), Finish(1)
    PROVE  Wrote(1, <<Excepted(g, src)>>) /\ ret' = 1
<1> DEFINE x == Excepted(g, src)
<1>1. /\ fpc = "single" /\ FType /\ UNCHANGED <<wide, src, fi, count>>
      /\ dest' = Put(<<x, 0>>) /\ fpc' = "done" /\ ret' = 1
  BY DEF FInv, FoldException, Write, Finish, args
<1>2. x \in Nat \ {0}
  BY <1>1, FoldTablesOK, UnitsOK DEF FType
<1> HIDE DEF x
<1>3. <<x>> \in Seq(Nat \ {0}) /\ Len(<<x>>) = 1 /\ 1 \in 1 .. 3
  BY <1>2
<1>4. <<x>> \o <<0>> = <<x, 0>>
  BY <1>2, OneUnit
<1>5. dest' = Put(<<x>> \o <<0>>)
  BY <1>1, <1>4, Zenon
<1>6. Wrote(1, <<x>>)
  BY <1>1, <1>3, <1>5 DEF Wrote
<1> QED BY <1>1, <1>6 DEF x

LEMMA FoldExceptionInv == FInv /\ FoldException => FInv'
<1> SUFFICES ASSUME FInv, FoldException
             PROVE  FInv'
  OBVIOUS
<1>1. /\ fpc = "single" /\ FType /\ ~HasRow(Tbl2, src) /\ ~HasRow(Tbl3, src)
      /\ UNCHANGED <<wide, src, fi, count>>
  BY DEF FInv, Searched, FoldException, Write, args
<1>2. CASE \E g \in Groups :
             Excepts(g, src) /\ Write(<<Excepted(g, src), 0>>) /\ Finish(1)
  <2>1. PICK g \in Groups :
             Excepts(g, src) /\ Write(<<Excepted(g, src), 0>>) /\ Finish(1)
    BY <1>2
  <2>2. Wrote(1, <<Excepted(g, src)>>) /\ ret' = 1
    BY <2>1, ExceptionWrites
  <2>3. Terminated' /\ CountSuffices' /\ dest' \in [0 .. 3 -> Unit]
    BY <1>1, <2>2, FinishText
  <2>4. FType' /\ Searched' /\ Counts' /\ Opened'
    BY <1>1, <2>2, <2>3
       DEF FInv, FType, Searched, Counts, Opened, HasRow, Answering, Wrote
  <2> QED BY <2>3, <2>4 DEF FInv
<1>3. CASE /\ ~ \E g \in Groups : Excepts(g, src)
           /\ Write(<<dest[0], 0>>)
           /\ fpc' = "lower" /\ UNCHANGED ret
  <2>1. dest' = Put(<<dest[0], 0>>) /\ dest \in [0 .. 3 -> Unit]
    BY <1>1, <1>3 DEF Write, FType
  <2>2. dest' \in [0 .. 3 -> Unit] /\ dest'[1] = 0
    BY <2>1 DEF Put, Unit
  <2>3. Exceptions(src) = {} /\ src >= Ascii
    BY <1>1, <1>3 DEF Exceptions, FInv, Opened
  <2>4. FType' /\ Searched' /\ Counts' /\ Opened'
    BY <1>1, <1>3, <2>2, <2>3
       DEF FInv, FType, Searched, Counts, Opened, HasRow, Answering
  <2> QED BY <1>3, <2>4, NotDone DEF FInv
<1> QED BY <1>2, <1>3 DEF FoldException

LEMMA LowerWrites ==
    ASSUME FInv, FoldLower, NEW t, t = Units(Lowered(src))
    PROVE  /\ Wrote(Len(t), t)
           /\ \/ Len(t) = 1 /\ t = <<Lowered(src)>>
              \/ Len(t) = 2 /\ ~wide /\ Lowered(src) > Bmp /\ IsPair(t)
           /\ ret' = IF Lowered(src) = src THEN -1 ELSE Len(t)
<1> DEFINE low == Lowered(src)
<1>1. /\ fpc = "lower" /\ FType /\ dest[1] = 0 /\ fpc' = "done"
      /\ UNCHANGED <<wide, src, fi, count>>
  BY DEF FInv, Opened, FoldLower, Write, Finish, args
<1>2. low \in Nat \ {0}
  BY <1>1, LettersOK DEF FType
<1>3. /\ t \in Seq(Nat \ {0})
      /\ \/ Len(t) = 1 /\ t = <<low>>
         \/ Len(t) = 2 /\ ~wide /\ low > Bmp /\ IsPair(t)
  BY <1>1, <1>2, UnitsType DEF FType
<1>4. dest' = Put(t \o <<0>>)
  <2>1. CASE Len(t) = 1
    <3>1. t = <<low>>
      BY <1>3, <2>1
    <3>2. dest' = Put(t)
      BY <2>1 DEF FoldLower, Write
    <3>3. <<low>> \o <<0>> = <<low, 0>>
      BY <1>2, OneUnit
    <3>4. Put(<<low>>) = Put(<<low, 0>>)
      BY <1>1 DEF Put
    <3> HIDE DEF low
    <3> QED BY <3>1, <3>2, <3>3, <3>4
  <2>2. CASE Len(t) = 2
    BY <2>2 DEF FoldLower, Write
  <2> QED BY <1>3, <2>1, <2>2
<1>5. ret' = IF low = src THEN -1 ELSE Len(t)
  <2>1. CASE Len(t) = 1
    BY <2>1 DEF FoldLower, Finish, Replaced
  <2>2. CASE Len(t) = 2
    BY <2>2 DEF FoldLower, Finish
  <2> QED BY <1>3, <2>1, <2>2
<1>6. Len(t) \in 1 .. 3
  BY <1>3
<1>7. Wrote(Len(t), t)
  BY <1>1, <1>3, <1>4, <1>6 DEF Wrote
<1> QED BY <1>3, <1>5, <1>7

LEMMA FoldLowerInv == FInv /\ FoldLower => FInv'
<1> SUFFICES ASSUME FInv, FoldLower
             PROVE  FInv'
  OBVIOUS
<1> DEFINE t == Units(Lowered(src))
<1>1. fpc = "lower" /\ FType
  BY DEF FInv, FoldLower
<1>2. /\ Wrote(Len(t), t)
      /\ \/ Len(t) = 1
         \/ Len(t) = 2 /\ ~wide /\ IsPair(t)
      /\ \/ ret' = -1 /\ Len(t) = Len(Units(src))
         \/ ret' = Len(t)
  BY LowerWrites
<1> HIDE DEF t
<1>3. Terminated' /\ CountSuffices' /\ dest' \in [0 .. 3 -> Unit]
  BY <1>1, <1>2, FinishText
<1>4. ret' \in Int
  BY <1>2
<1>5. FType' /\ Searched' /\ Counts' /\ Opened'
  BY <1>1, <1>2, <1>3, <1>4
     DEF FInv, FType, Searched, Counts, Opened, HasRow, Answering, Wrote
<1> QED BY <1>3, <1>5 DEF FInv

LEMMA TakeInv == FInv /\ Take => FInv'
<1> SUFFICES ASSUME FInv, Take
             PROVE  FInv'
  OBVIOUS
<1>1. FType' /\ Searched' /\ Counts' /\ Opened'
  BY DEF FInv, Take, FType, Searched, Counts, Opened, Answering, Unit
<1> QED BY <1>1, NotDone DEF FInv, Take

LEMMA FInvNext == FInv /\ [FNext]_fvars => FInv'
<1> SUFFICES ASSUME FInv, [FNext]_fvars
             PROVE  FInv'
  OBVIOUS
<1>1. CASE CallIswfc
  BY <1>1, CallIswfcInv
<1>2. CASE CallTowfc
  BY <1>2, CallTowfcInv
<1>3. CASE FStep
  BY <1>3, IswTbl2Inv, IswTbl3Inv, IswupperInv, GuardInv, FoldAsciiInv,
     FoldTbl2Inv, FoldTbl3Inv, FoldExceptionInv, FoldLowerInv DEF FStep
<1>4. CASE Take
  BY <1>4, TakeInv
<1>5. CASE UNCHANGED fvars
  BY <1>5 DEF fvars, FInv, FType, Searched, Counts, Opened, HasRow, NotBefore,
     Terminated, CountSuffices, Folded, Length, Text, IsPair, Units
<1> QED BY <1>1, <1>2, <1>3, <1>4, <1>5 DEF FNext

(* Whatever the tables and the width of wchar_t, a folding is terminated   *)
(* within the four units of the smallest buffer, and no unit of it is left *)
(* as it was.                                                              *)
THEOREM FoldTerminated == FSpec => []Terminated
<1>1. FInv => Terminated
  BY DEF FInv
<1> QED BY <1>1, FInvInit, FInvNext, PTL DEF FSpec

(* Whatever the tables and the width of wchar_t, what iswfc() counts is    *)
(* room enough for what towfc() writes, but for the second half of a       *)
(* surrogate pair.                                                         *)
THEOREM CountCorrect == FSpec => []CountSuffices
<1>1. FInv => CountSuffices
  BY DEF FInv
<1> QED BY <1>1, FInvInit, FInvNext, PTL DEF FSpec

-----------------------------------------------------------------------------
(* What towfc() writes is what the tables say.  First, a quotient and a    *)
(* remainder are the only ones, so that the two units of a surrogate pair  *)
(* can be put together again.                                              *)
LEMMA RemainderIs ==
    ASSUME NEW n \in Nat \ {0}, NEW a \in Nat, NEW q \in Nat,
           NEW r \in 0 .. n - 1, a = q * n + r
    PROVE  a % n = r /\ a \div n = q
<1> DEFINE d == a \div n
           m == a % n
<1>1. d \in Int /\ m \in 0 .. n - 1 /\ a = n * d + m
  OBVIOUS
<1> HIDE DEF d, m
<1>2. (q - d) * n = m - r
  BY <1>1
<1>3. m - r < n /\ m - r > -n
  BY <1>1
<1>4. q - d < 1
  <2> SUFFICES ASSUME q - d >= 1 PROVE FALSE
    BY <1>1
  <2>1. (q - d) * n >= n
    BY <1>1
  <2> QED BY <1>1, <1>2, <1>3, <2>1
<1>5. q - d > -1
  <2> SUFFICES ASSUME q - d <= -1 PROVE FALSE
    BY <1>1
  <2>1. (q - d) * n <= -n
    BY <1>1
  <2> QED BY <1>1, <1>2, <1>3, <2>1
<1>6. q = d
  BY <1>1, <1>4, <1>5
<1>7. m = r
  BY <1>1, <1>2, <1>6
<1> QED BY <1>6, <1>7 DEF d, m

LEMMA JoinedUnits ==
    ASSUME PairsSuffice, ~wide, NEW c \in Nat, Bmp < c,
           c <= Bmp + LoBits * LoBits
    PROVE  Joined(Units(c)) = <<c>>
<1> DEFINE x == c - Bmp - 1
           q == x \div LoBits
           r == x % LoBits
           k == (Bmp + 1) \div LoBits
<1>1. /\ Bmp \in Nat /\ LoBits \in Nat \ {0}
      /\ HiBase \in Nat /\ LoBase \in Nat
  BY UnitsOK
<1>2. x \in Nat /\ x < LoBits * LoBits /\ c = x + (Bmp + 1)
  BY <1>1
<1>3. q \in Int /\ r \in 0 .. LoBits - 1 /\ x = LoBits * q + r
  BY <1>1, <1>2
<1>4. k \in Int /\ Bmp + 1 = LoBits * k
  BY <1>1 DEF PairsSuffice
<1>5. Units(c) = <<HiBase + (q % LoBits), LoBase + (c % LoBits)>>
  BY <1>1 DEF Units
<1> HIDE DEF x, q, r, k
<1>6. q >= 0 /\ k >= 0
  <2>1. q >= 0
    <3> SUFFICES ASSUME q <= -1 PROVE FALSE
      BY <1>3
    <3>1. LoBits * q <= -LoBits
      BY <1>1, <1>3
    <3> QED BY <1>1, <1>2, <1>3, <3>1
  <2>2. k >= 0
    <3> SUFFICES ASSUME k <= -1 PROVE FALSE
      BY <1>4
    <3>1. LoBits * k <= -LoBits
      BY <1>1, <1>4
    <3> QED BY <1>1, <1>4, <3>1
  <2> QED BY <2>1, <2>2
<1>7. q < LoBits
  <2> SUFFICES ASSUME q >= LoBits PROVE FALSE
    BY <1>1, <1>3
  <2>1. LoBits * q >= LoBits * LoBits
    BY <1>1, <1>3
  <2> QED BY <1>1, <1>2, <1>3, <2>1
<1>8. q % LoBits = q
  <2>1. q = 0 * LoBits + q /\ 0 \in Nat
    BY <1>1, <1>3
  <2> QED BY <1>1, <1>3, <1>6, <1>7, <2>1, RemainderIs
<1>9. c % LoBits = r
  <2>1. c = (q + k) * LoBits + r
    BY <1>1, <1>2, <1>3, <1>4
  <2>2. q + k \in Nat
    BY <1>3, <1>4, <1>6
  <2> QED BY <1>1, <1>3, <2>1, <2>2, RemainderIs
<1>10. Units(c) = <<HiBase + q, LoBase + r>>
  BY <1>5, <1>8, <1>9
<1>11. Joined(Units(c)) = <<Bmp + 1 + LoBits * q + r>>
  BY <1>1, <1>3, <1>10 DEF Joined
<1> QED BY <1>1, <1>2, <1>3, <1>11

LEMMA FoldsText ==
    ASSUME FType, NEW n, NEW t, Wrote(n, t),
           (IF ~wide /\ IsPair(t) THEN Joined(t) ELSE t) = Folds(src),
           (ret' = -1) <=> (Folds(src) = <<src>>)
    PROVE  FoldsExactly'
<1>1. Text' = t /\ UNCHANGED <<wide, src>>
  BY WroteText DEF Wrote
<1>2. (IF ~wide /\ IsPair(Text) THEN Joined(Text) ELSE Text)' = Folds(src)
  BY <1>1 DEF IsPair, Joined
<1> QED BY <1>1, <1>2 DEF FoldsExactly

LEMMA FoldsStep ==
    ASSUME TablesFold, PairsSuffice, FInv, FoldsExactly, [FNext]_fvars
    PROVE  FoldsExactly'
<1>1. CASE fpc' # "done"
  BY <1>1 DEF FoldsExactly, Folded
<1>2. CASE UNCHANGED fvars
  BY <1>2 DEF fvars, FoldsExactly, Folded, Text, Length, IsPair, Joined
<1>3. CASE fpc' = "done" /\ Guard
  <2>1. ret' \in {-2, -3, -4}
    BY <1>3 DEF Guard, Finish
  <2> QED BY <2>1 DEF FoldsExactly, Folded
<1>4. CASE fpc' = "done" /\ FoldAscii
  <2>1. Wrote(1, <<Lowered(src)>>) /\ ret' = Replaced(Lowered(src))
    BY <1>4, AsciiWrites
  <2>2. FType /\ src \in FoldInputs /\ src < Ascii
    BY <1>4 DEF FInv, FType, Opened, FoldAscii
  <2>3. Folds(src) = <<Lowered(src)>>
    BY <2>2 DEF TablesFold, FoldingFromTables
  <2>4. ~IsPair(<<Lowered(src)>>)
    BY DEF IsPair
  <2>5. ret' = -1 <=> Folds(src) = <<src>>
    BY <2>1, <2>3 DEF Replaced
  <2> QED BY <2>1, <2>2, <2>3, <2>4, <2>5, FoldsText
<1>5. CASE fpc' = "done" /\ FoldTbl2
  <2>1. fi <= Len(Tbl2) /\ Tbl2[fi][1] = src
    BY <1>5 DEF FoldTbl2, ScanTable, FInv, FType
  <2>2. Wrote(2, Tail(Tbl2[fi])) /\ ret' = 2 /\ fi \in RowsFor(Tbl2, src)
    BY <1>5, <2>1, Tbl2Writes
  <2>3. FType /\ src \in FoldInputs /\ src >= Ascii
    BY <1>5 DEF FInv, FType, Opened, FoldTbl2, ScanTable
  <2>4. src \in Nat /\ Ascii \in Nat
    BY <2>3, LettersOK, UnitsOK
  <2>5. Folds(src) = Tail(Tbl2[fi])
    <3>1. ~(src < Ascii) /\ RowsFor(Tbl2, src) # {}
      BY <2>2, <2>3, <2>4
    <3>2. FoldingFromTables(src) = {Tail(Tbl2[k]) : k \in RowsFor(Tbl2, src)}
      BY <3>1 DEF FoldingFromTables
    <3>3. Tail(Tbl2[fi]) \in FoldingFromTables(src)
      BY <2>2, <3>2
    <3> QED BY <2>3, <3>3 DEF TablesFold
  <2>6. ~IsPair(Tail(Tbl2[fi]))
    BY <2>2 DEF TablesFold, RowsFor
  <2>7. Folds(src) # <<src>>
    <3>1. Len(Folds(src)) = 2
      BY <2>2, <2>5 DEF Wrote
    <3>2. Len(<<src>>) = 1
      OBVIOUS
    <3> QED BY <3>1, <3>2
  <2> QED BY <2>2, <2>3, <2>5, <2>6, <2>7, FoldsText
<1>6. CASE fpc' = "done" /\ FoldTbl3
  <2>1. fi <= Len(Tbl3) /\ Tbl3[fi][1] = src
    BY <1>6 DEF FoldTbl3, ScanTable, FInv, FType
  <2>2. Wrote(3, Tail(Tbl3[fi])) /\ ret' = 3 /\ fi \in RowsFor(Tbl3, src)
    BY <1>6, <2>1, Tbl3Writes
  <2>3. FType /\ src \in FoldInputs /\ src >= Ascii /\ ~HasRow(Tbl2, src)
    BY <1>6 DEF FInv, FType, Searched, Opened, FoldTbl3, ScanTable
  <2>4. src \in Nat /\ Ascii \in Nat
    BY <2>3, LettersOK, UnitsOK
  <2>5. Folds(src) = Tail(Tbl3[fi])
    <3>1. ~(src < Ascii) /\ RowsFor(Tbl3, src) # {}
      BY <2>2, <2>3, <2>4
    <3>2. FoldingFromTables(src) = {Tail(Tbl3[k]) : k \in RowsFor(Tbl3, src)}
      BY <2>3, <3>1 DEF FoldingFromTables, HasRow
    <3>3. Tail(Tbl3[fi]) \in FoldingFromTables(src)
      BY <2>2, <3>2
    <3> QED BY <2>3, <3>3 DEF TablesFold
  <2>6. ~IsPair(Tail(Tbl3[fi]))
    <3> DEFINE t == Tail(Tbl3[fi])
    <3>1. Len(t) = 3
      BY <2>2 DEF Wrote
    <3> HIDE DEF t
    <3>2. ~IsPair(t)
      BY <3>1 DEF IsPair
    <3> QED BY <3>2 DEF t
  <2>7. Folds(src) # <<src>>
    <3>1. Len(Folds(src)) = 3
      BY <2>2, <2>5 DEF Wrote
    <3>2. Len(<<src>>) = 1
      OBVIOUS
    <3> QED BY <3>1, <3>2
  <2> QED BY <2>2, <2>3, <2>5, <2>6, <2>7, FoldsText
<1>7. CASE fpc' = "done" /\ FoldException
  <2>1. PICK g \in Groups :
             Excepts(g, src) /\ Write(<<Excepted(g, src), 0>>) /\ Finish(1)
    BY <1>7 DEF FoldException
  <2>2. Wrote(1, <<Excepted(g, src)>>) /\ ret' = 1
    BY <1>7, <2>1, ExceptionWrites
  <2>3. /\ FType /\ src \in FoldInputs /\ src >= Ascii
        /\ ~HasRow(Tbl2, src) /\ ~HasRow(Tbl3, src)
    BY <1>7 DEF FInv, FType, Searched, Opened, FoldException
  <2>4. src \in Nat /\ Ascii \in Nat
    BY <2>3, LettersOK, UnitsOK
  <2>5. g \in Exceptions(src)
    BY <2>1 DEF Exceptions
  <2>6. Folds(src) = <<Excepted(g, src)>>
    <3>1. ~(src < Ascii) /\ Exceptions(src) # {}
      BY <2>3, <2>4, <2>5
    <3>2. FoldingFromTables(src) =
             {<<Excepted(h, src)>> : h \in Exceptions(src)}
      BY <2>3, <3>1 DEF FoldingFromTables, HasRow
    <3>3. <<Excepted(g, src)>> \in FoldingFromTables(src)
      BY <2>5, <3>2
    <3> QED BY <2>3, <3>3 DEF TablesFold
  <2>7. Excepted(g, src) # src
    BY <2>1, <2>3 DEF TablesFold
  <2>8. ~IsPair(<<Excepted(g, src)>>)
    BY DEF IsPair
  <2> QED BY <2>2, <2>3, <2>6, <2>7, <2>8, FoldsText
<1>8. CASE fpc' = "done" /\ FoldLower
  <2> DEFINE low == Lowered(src)
             t == Units(low)
  <2>1. /\ Wrote(Len(t), t)
        /\ \/ Len(t) = 1 /\ t = <<low>>
           \/ Len(t) = 2 /\ ~wide /\ low > Bmp /\ IsPair(t)
        /\ ret' = IF low = src THEN -1 ELSE Len(t)
    BY <1>8, LowerWrites
  <2>2. /\ FType /\ src \in FoldInputs /\ src >= Ascii
        /\ ~HasRow(Tbl2, src) /\ ~HasRow(Tbl3, src) /\ Exceptions(src) = {}
    BY <1>8 DEF FInv, FType, Searched, Opened, FoldLower
  <2>3. src \in Nat /\ Ascii \in Nat /\ Bmp \in Nat /\ low \in Nat
    BY <2>2, LettersOK, UnitsOK
  <2>4. Folds(src) = <<low>>
    BY <2>2, <2>3 DEF TablesFold, FoldingFromTables, HasRow
  <2>5. ret' = -1 <=> Folds(src) = <<src>>
    BY <2>1, <2>4
  <2>6. (IF ~wide /\ IsPair(t) THEN Joined(t) ELSE t) = <<low>>
    <3>1. CASE Len(t) = 1 /\ t = <<low>>
      BY <3>1 DEF IsPair
    <3>2. CASE Len(t) = 2 /\ ~wide /\ low > Bmp /\ IsPair(t)
      <4>1. low <= Bmp + LoBits * LoBits
        BY <2>2 DEF PairsSuffice
      <4>2. Joined(t) = <<low>>
        BY <2>3, <3>2, <4>1, JoinedUnits
      <4> QED BY <3>2, <4>2
    <3> QED BY <2>1, <3>1, <3>2
  <2> HIDE DEF t, low
  <2> QED BY <2>1, <2>2, <2>4, <2>5, <2>6, FoldsText
<1>9. CASE IswTbl2 \/ IswTbl3 \/ Iswupper \/ CallIswfc \/ CallTowfc \/ Take
  <2>1. fpc' # "done"
    BY <1>9 DEF IswTbl2, IswTbl3, Iswupper, ScanTable, Counted, CallIswfc,
       CallIswfcWith, CallTowfc, Take
  <2> QED BY <1>1, <2>1
<1> QED BY <1>1, <1>2, <1>3, <1>4, <1>5, <1>6, <1>7, <1>8, <1>9 DEF FNext, FStep

(* Where tables and tolower() say what CaseFolding.txt does, towfc()       *)
(* writes the folding it defines, in surrogate pairs where wchar_t is      *)
(* short, and returns -1 for exactly the code points that fold to          *)
(* themselves: the early exits and the order of the tables lose nothing.   *)
THEOREM FoldsCorrect ==
    ASSUME TablesFold, PairsSuffice
    PROVE  FSpec => []FoldsExactly
<1>1. FInit => FoldsExactly
  BY DEF FInit, FoldsExactly, Folded
<1>2. FInv /\ FoldsExactly /\ [FNext]_fvars => FoldsExactly'
  BY FoldsStep
<1> QED BY <1>1, <1>2, FInvInit, FInvNext, PTL DEF FSpec

-----------------------------------------------------------------------------
(* The sort.                                                               *)

Smaller(S, c) == {d \in S : d < c}

Place(S, c) == Cardinality(Smaller(S, c))

(* In a finite set of numbers each has a place of its own, in their order, *)
(* and no place is empty.                                                  *)
LEMMA InPlace ==
    ASSUME NEW S \in SUBSET Nat, IsFiniteSet(S)
    PROVE  /\ Cardinality(S) \in Nat
           /\ \A c \in S : Place(S, c) \in 0 .. Cardinality(S) - 1
           /\ \A c, d \in S : c < d => Place(S, c) < Place(S, d)
           /\ \A n \in 0 .. Cardinality(S) - 1 : \E c \in S : Place(S, c) = n
<1> DEFINE n == Cardinality(S)
           place == [c \in S |-> Place(S, c)]
<1>1. n \in Nat
  BY FS_CardinalityType
<1>2. ASSUME NEW c \in S
      PROVE  /\ Smaller(S, c) \in SUBSET S /\ IsFiniteSet(Smaller(S, c))
             /\ c \notin Smaller(S, c) /\ Place(S, c) \in 0 .. n - 1
  <2> DEFINE B == Smaller(S, c)
  <2>1. B \in SUBSET S /\ c \notin B /\ B # S
    BY DEF Smaller
  <2> HIDE DEF B
  <2>2. IsFiniteSet(B) /\ Cardinality(B) <= n /\ (n = Cardinality(B) => S = B)
    BY <2>1, FS_Subset
  <2>3. Cardinality(B) \in Nat
    BY <2>2, FS_CardinalityType
  <2>4. Cardinality(B) \in 0 .. n - 1
    BY <1>1, <2>1, <2>2, <2>3
  <2> QED BY <2>1, <2>2, <2>4 DEF B, Place
<1>3. ASSUME NEW c \in S, NEW d \in S, c < d
      PROVE  Place(S, c) < Place(S, d)
  <2> DEFINE B == Smaller(S, c)
             D == Smaller(S, d)
  <2>1. B \in SUBSET D /\ c \in D /\ c \notin B
    <3>1. c \in Nat /\ d \in Nat /\ \A x \in S : x \in Nat
      OBVIOUS
    <3>2. \A x \in Nat : x < c => x < d
      BY <1>3, <3>1
    <3>3. \A x \in B : x \in D
      BY <3>1, <3>2 DEF Smaller
    <3>4. c \in D /\ c \notin B
      BY <1>3, <3>1 DEF Smaller
    <3> QED BY <3>3, <3>4
  <2>2. IsFiniteSet(D)
    BY <1>2
  <2>3. Cardinality(B) \in Nat /\ Cardinality(D) \in Nat
    BY <1>1, <1>2 DEF Place
  <2> HIDE DEF B, D
  <2>4. Cardinality(B) <= Cardinality(D) /\ (Cardinality(D) = Cardinality(B) => D = B)
    BY <2>1, <2>2, FS_Subset
  <2>5. Cardinality(B) < Cardinality(D)
    BY <2>1, <2>3, <2>4
  <2> QED BY <2>5 DEF B, D, Place
<1>4. \A c, d \in S : Place(S, c) = Place(S, d) => c = d
  <2> SUFFICES ASSUME NEW c \in S, NEW d \in S, Place(S, c) = Place(S, d), c # d
               PROVE  FALSE
    OBVIOUS
  <2>1. c < d \/ d < c
    OBVIOUS
  <2>2. Place(S, c) \in Int /\ Place(S, d) \in Int
    BY <1>1, <1>2
  <2> QED BY <1>3, <2>1, <2>2
<1>5. place \in Injection(S, 0 .. n - 1)
  <2>1. place \in [S -> 0 .. n - 1]
    BY <1>2
  <2> QED BY <1>4, <2>1 DEF Injection, IsInjective
<1>6. place \in Surjection(S, 0 .. n - 1)
  <2> HIDE DEF place
  <2>1. 0 \in Int /\ n - 1 \in Int
    BY <1>1
  <2>2. IsFiniteSet(0 .. n - 1) /\ Cardinality(0 .. n - 1) = n
    BY <1>1, <2>1, FS_Interval
  <2> QED BY <1>5, <2>2, FS_Injection
<1>7. \A k \in 0 .. n - 1 : \E c \in S : place[c] = k
  BY <1>6 DEF Surjection
<1> QED BY <1>1, <1>2, <1>3, <1>7

(* What Ascending() makes of a set: all its elements, in order.            *)
Sorts(S, q) ==
    /\ q \in Seq(S) /\ Len(q) = Cardinality(S) /\ Cardinality(S) \in Nat
    /\ \A c \in S : \E k \in 1 .. Len(q) : q[k] = c
    /\ \A j, k \in 1 .. Len(q) : j < k => q[j] < q[k]

(* The sort of @fc2, @fc3 and @fc_common is one. *)
LEMMA AscendingSorts ==
    ASSUME NEW S \in SUBSET Nat, IsFiniteSet(S)
    PROVE  Sorts(S, Ascending(S))
<1> DEFINE n == Cardinality(S)
           q == Ascending(S)
<1>1. /\ n \in Nat
      /\ \A c \in S : Place(S, c) \in 0 .. n - 1
      /\ \A c, d \in S : c < d => Place(S, c) < Place(S, d)
      /\ \A k \in 0 .. n - 1 : \E c \in S : Place(S, c) = k
  BY InPlace
<1>2. q = [k \in 1 .. n |-> CHOOSE c \in S : Place(S, c) = k - 1]
  BY DEF Ascending, Place, Smaller
<1> HIDE DEF q, n
<1>3. ASSUME NEW k \in 1 .. n
      PROVE  q[k] \in S /\ Place(S, q[k]) = k - 1
  <2>1. \E c \in S : Place(S, c) = k - 1
    BY <1>1
  <2> QED BY <1>2, <2>1
<1>4. q \in Seq(S) /\ Len(q) = n
  BY <1>1, <1>2, <1>3
<1>5. \A c, d \in S : Place(S, c) = Place(S, d) => c = d
  <2> SUFFICES ASSUME NEW c \in S, NEW d \in S, Place(S, c) = Place(S, d), c # d
               PROVE  FALSE
    OBVIOUS
  <2>1. c < d \/ d < c
    OBVIOUS
  <2>2. Place(S, c) \in Int /\ Place(S, d) \in Int
    BY <1>1
  <2> QED BY <1>1, <2>1, <2>2
<1>6. ASSUME NEW c \in S PROVE \E k \in 1 .. n : q[k] = c
  <2>1. Place(S, c) + 1 \in 1 .. n /\ Place(S, c) \in Int
    BY <1>1
  <2>2. q[Place(S, c) + 1] \in S /\ Place(S, q[Place(S, c) + 1]) = Place(S, c)
    BY <1>3, <2>1
  <2> QED BY <1>5, <2>1, <2>2
<1>7. ASSUME NEW j \in 1 .. n, NEW k \in 1 .. n, j < k
      PROVE  q[j] < q[k]
  <2>1. /\ q[j] \in S /\ q[k] \in S
        /\ Place(S, q[j]) = j - 1 /\ Place(S, q[k]) = k - 1
    BY <1>3
  <2>2. j \in Int /\ k \in Int
    BY <1>1
  <2>3. ~(q[k] < q[j]) /\ q[k] # q[j]
    <3>1. q[k] < q[j] => Place(S, q[k]) < Place(S, q[j])
      BY <1>1, <2>1
    <3> QED BY <1>7, <2>1, <2>2, <3>1
  <2>4. q[j] \in Nat /\ q[k] \in Nat
    BY <2>1
  <2> QED BY <2>3, <2>4
<1>8. Sorts(S, q)
  BY <1>1, <1>4, <1>6, <1>7 DEF Sorts, n
<1> QED BY <1>8 DEF q

(* The greatest element comes last, the least first.                       *)
LEMMA FirstAndLast ==
    ASSUME NEW S \in SUBSET Nat, NEW q, Sorts(S, q), NEW c \in S
    PROVE  /\ Len(q) \in Nat \ {0} /\ q[1] \in S /\ q[Len(q)] \in S
           /\ q[1] <= c /\ c <= q[Len(q)]
<1>1. PICK k \in 1 .. Len(q) : q[k] = c
  BY DEF Sorts
<1>2. Len(q) \in Nat \ {0} /\ 1 \in 1 .. Len(q) /\ Len(q) \in 1 .. Len(q)
  BY <1>1 DEF Sorts
<1>3. q[1] \in S /\ q[Len(q)] \in S
  BY <1>2 DEF Sorts
<1>4. q[1] \in Nat /\ q[Len(q)] \in Nat /\ c \in Nat
  BY <1>3
<1>5. q[1] <= c
  <2>1. CASE k = 1
    BY <1>1, <1>4, <2>1
  <2>2. CASE 1 < k
    BY <1>1, <1>2, <1>4, <2>2 DEF Sorts
  <2> QED BY <1>1, <1>2, <2>1, <2>2
<1>6. c <= q[Len(q)]
  <2>1. CASE k = Len(q)
    BY <1>1, <1>4, <2>1
  <2>2. CASE k < Len(q)
    BY <1>1, <1>2, <1>4, <2>2 DEF Sorts
  <2> QED BY <1>1, <1>2, <2>1, <2>2
<1> QED BY <1>2, <1>3, <1>5, <1>6

-----------------------------------------------------------------------------
(* The rows of tbl2[] and tbl3[].                                          *)

FullOnes(n) == {c \in DOMAIN FoldF : Len(FoldF[c]) = n}

(* A row is a code point and its folding. *)
LEMMA RowIs ==
    ASSUME NEW S, NEW c \in S, NEW f \in Seq(S), NEW n \in Nat, Len(f) = n
    PROVE  /\ <<c>> \o f \in [1 .. n + 1 -> S]
           /\ (<<c>> \o f)[1] = c /\ Tail(<<c>> \o f) = f
<1> DEFINE r == <<c>> \o f
<1>1. <<c>> \in Seq(S) /\ Len(<<c>>) = 1 /\ <<c>>[1] = c
  OBVIOUS
<1>2. /\ r \in Seq(S) /\ Len(r) = 1 + n
      /\ \A k \in 1 .. 1 + n : r[k] = IF k <= 1 THEN <<c>>[k] ELSE f[k - 1]
  BY <1>1, ConcatProperties
<1> HIDE DEF r
<1>3. r \in [1 .. n + 1 -> S] /\ r[1] = c
  BY <1>1, <1>2
<1>4. r # << >>
  BY <1>2
<1>5. /\ Tail(r) \in Seq(S) /\ Len(Tail(r)) = n
      /\ \A k \in 1 .. n : Tail(r)[k] = r[k + 1]
  BY <1>2, <1>4, HeadTailProperties
<1>6. \A k \in 1 .. n : Tail(r)[k] = f[k]
  BY <1>2, <1>5
<1>7. Tail(r) = f
  BY <1>5, <1>6
<1> QED BY <1>3, <1>7 DEF r

(* A table is in order, and its rows are the F lines of its length.        *)
LEMMA FullFoldsAre ==
    ASSUME FoldFileOK, NEW n \in {2, 3}
    PROVE  /\ FoldRows(FullFolds(n), n + 1)
           /\ \A c : RowsFor(FullFolds(n), c) # {} <=> c \in FullOnes(n)
           /\ \A c : \A k \in RowsFor(FullFolds(n), c) :
                 Tail(FullFolds(n)[k]) = FoldF[c]
<1> DEFINE S == FullOnes(n)
           q == Ascending(S)
           t == FullFolds(n)
<1>1. S \in SUBSET (1 .. Bmp) /\ S \in SUBSET Nat /\ IsFiniteSet(S)
  <2>1. S \subseteq DOMAIN FoldF /\ IsFiniteSet(DOMAIN FoldF)
    BY DEF FoldFileOK, FullOnes
  <2>2. IsFiniteSet(S)
    BY <2>1, FS_Subset
  <2>3. DOMAIN FoldF \subseteq Ascii .. Bmp /\ Ascii \in Nat \ {0} /\ Bmp \in Nat
    BY UnitsOK DEF FoldFileOK
  <2> QED BY <2>1, <2>2, <2>3
<1>2. Sorts(S, q)
  BY <1>1, AscendingSorts
<1>3. t = [k \in DOMAIN q |-> <<q[k]>> \o FoldF[q[k]]]
  BY DEF FullFolds, FullOnes
<1>4. ASSUME NEW c \in S PROVE FoldF[c] \in Seq(1 .. Bmp) /\ Len(FoldF[c]) = n
  BY DEF FoldFileOK, FullOnes
<1> HIDE DEF S, q, t
<1>5. DOMAIN q = 1 .. Len(q) /\ Len(q) \in Nat
  BY <1>2 DEF Sorts
<1>6. ASSUME NEW k \in DOMAIN q
      PROVE  /\ q[k] \in S /\ t[k] \in [1 .. n + 1 -> 1 .. Bmp]
             /\ t[k][1] = q[k] /\ Tail(t[k]) = FoldF[q[k]]
  <2>1. q[k] \in S
    BY <1>2 DEF Sorts
  <2>2. PICK c : c = q[k]
    OBVIOUS
  <2>3. PICK T : T = 1 .. Bmp
    OBVIOUS
  <2>4. /\ c \in T /\ FoldF[c] \in Seq(T) /\ Len(FoldF[c]) = n /\ n \in Nat
    <3>1. c \in S
      BY <2>1, <2>2
    <3>2. FoldF[c] \in Seq(1 .. Bmp) /\ Len(FoldF[c]) = n
      BY <1>4, <3>1
    <3>3. c \in 1 .. Bmp /\ n \in Nat
      BY <1>1, <3>1
    <3> QED BY <2>3, <3>2, <3>3
  <2>5. /\ <<c>> \o FoldF[c] \in [1 .. n + 1 -> T]
        /\ (<<c>> \o FoldF[c])[1] = c /\ Tail(<<c>> \o FoldF[c]) = FoldF[c]
    BY <2>4, RowIs
  <2>6. t[k] = <<c>> \o FoldF[c]
    BY <1>3, <2>2
  <2> QED BY <2>1, <2>2, <2>3, <2>5, <2>6
<1>7. DOMAIN t = DOMAIN q
  BY <1>3
<1>8. FoldRows(t, n + 1)
  <2>1. t \in Seq([1 .. n + 1 -> 1 .. Bmp])
    <3> DEFINE T == [1 .. n + 1 -> 1 .. Bmp]
    <3>1. t = [k \in 1 .. Len(q) |-> t[k]] /\ \A k \in 1 .. Len(q) : t[k] \in T
      BY <1>3, <1>5, <1>6
    <3> HIDE DEF T
    <3>2. t \in [1 .. Len(q) -> T]
      BY <3>1
    <3>3. t \in Seq(T)
      BY <1>5, <3>2
    <3> QED BY <3>3 DEF T
  <2>2. ASSUME NEW j \in DOMAIN t, NEW k \in DOMAIN t, j < k
        PROVE  t[j][1] <= t[k][1]
    <3>1. q[j] < q[k] /\ q[j] \in Nat /\ q[k] \in Nat
      BY <1>1, <1>2, <1>5, <1>6, <1>7, <2>2 DEF Sorts
    <3> QED BY <1>6, <1>7, <3>1
  <2> QED BY <2>1, <2>2 DEF FoldRows
<1>9. ASSUME NEW c PROVE RowsFor(t, c) # {} <=> c \in S
  <2>1. RowsFor(t, c) = {k \in DOMAIN q : q[k] = c}
    BY <1>6, <1>7 DEF RowsFor
  <2> QED BY <1>2, <1>5, <1>6, <2>1 DEF Sorts
<1>10. ASSUME NEW c, NEW k \in RowsFor(t, c) PROVE Tail(t[k]) = FoldF[c]
  BY <1>6, <1>7 DEF RowsFor
<1> QED BY <1>8, <1>9, <1>10 DEF S, t

-----------------------------------------------------------------------------
(* The exceptions.                                                         *)

(* A set in which every element but the greatest has a successor has no    *)
(* gap.                                                                    *)
LEMMA NoGap ==
    ASSUME NEW S \in SUBSET Nat, IsFiniteSet(S),
           \A c \in S : c + 1 \in S \/ \A d \in S : d <= c,
           NEW a \in S, NEW b \in S, NEW c \in Nat, a <= c, c <= b
    PROVE  c \in S
<1> SUFFICES ASSUME c \notin S PROVE FALSE
  OBVIOUS
<1> DEFINE D == Smaller(S, c)
           q == Ascending(D)
<1>1. D \in SUBSET Nat /\ IsFiniteSet(D)
  <2>1. D \subseteq S
    BY DEF Smaller
  <2> QED BY <2>1, FS_Subset
<1>2. a \in D
  BY DEF Smaller
<1>3. Sorts(D, q)
  BY <1>1, AscendingSorts
<1> DEFINE m == q[Len(q)]
<1>4. m \in D /\ \A d \in D : d <= m
  <2> HIDE DEF D, q
  <2> QED BY <1>1, <1>2, <1>3, FirstAndLast
<1> HIDE DEF m
<1>5. m \in S /\ m < c /\ m \in Nat
  BY <1>1, <1>4 DEF Smaller
<1>6. b \in Nat
  OBVIOUS
<1>7. ~(b <= m)
  BY <1>5, <1>6
<1>8. m + 1 \in S
  BY <1>5, <1>7
<1>9. m + 1 # c /\ m + 1 <= c
  BY <1>5, <1>8
<1>10. m + 1 \in D
  BY <1>5, <1>8, <1>9 DEF Smaller
<1>11. m + 1 <= m
  BY <1>4, <1>10
<1> QED BY <1>5, <1>11

(* A group changes the code points it was made of, and no other between    *)
(* them.                                                                   *)
LEMMA GroupIs ==
    ASSUME FoldFileOK, NEW g \in SUBSET fcCommon, NEW c \in Nat
    PROVE  /\ Excepts(Group(g), c) <=> c \in g
           /\ c \in g => Excepted(Group(g), c) = FoldC[c]
<1> DEFINE q == Ascending(g)
           G == Group(g)
<1>1. g \in SUBSET Nat /\ IsFiniteSet(g) /\ \A d \in g : FoldC[d] \in Nat
  <2>1. fcCommon \subseteq DOMAIN FoldC
    BY DEF fcCommon
  <2>2. g \subseteq DOMAIN FoldC /\ DOMAIN FoldC \subseteq Nat
    BY <2>1 DEF FoldFileOK
  <2>3. IsFiniteSet(g)
    BY <2>2, FS_Subset DEF FoldFileOK
  <2>4. \A d \in fcCommon : FoldC[d] \in 1 .. Bmp
    BY DEF FoldFileOK
  <2> QED BY <2>2, <2>3, <2>4
<1>2. Sorts(g, q)
  BY <1>1, AscendingSorts
<1>3. /\ G.first = q[1] /\ G.last = q[Len(q)] /\ G.arith = IsArith(g)
      /\ G.delta = FoldC[q[1]] - q[1] /\ G.cases = [d \in g |-> FoldC[d]]
  BY DEF Group
<1> HIDE DEF q, G
<1>4. ASSUME c \in g
      PROVE  /\ q[1] \in g /\ q[1] <= c /\ c <= q[Len(q)]
  BY <1>1, <1>2, <1>4, FirstAndLast
<1>5. DOMAIN G.cases = g
  BY <1>3
<1>6. ASSUME ~IsArith(g)
      PROVE  /\ Excepts(G, c) <=> c \in g
             /\ c \in g => Excepted(G, c) = FoldC[c]
  <2>1. Excepts(G, c) <=> G.first <= c /\ c <= G.last /\ c \in g
    BY <1>3, <1>5, <1>6 DEF Excepts
  <2>2. c \in g => G.first <= c /\ c <= G.last
    BY <1>3, <1>4
  <2>3. c \in g => Excepted(G, c) = FoldC[c]
    BY <1>3, <1>6 DEF Excepted
  <2> QED BY <2>1, <2>2, <2>3
<1>7. ASSUME IsArith(g)
      PROVE  /\ Excepts(G, c) <=> c \in g
             /\ c \in g => Excepted(G, c) = FoldC[c]
  <2>1. /\ Cardinality(g) > MinArith
        /\ \A b, d \in g : FoldC[b] - b = FoldC[d] - d
        /\ \A d \in g : d + 1 \in g \/ \A e \in g : e <= d
    BY <1>7 DEF IsArith
  <2>2. q[1] \in g /\ q[Len(q)] \in g
    <3>1. Len(q) \in Nat \ {0}
      BY <1>2, <2>1 DEF Sorts, FoldFileOK
    <3>2. 1 \in 1 .. Len(q) /\ Len(q) \in 1 .. Len(q)
      BY <3>1
    <3> QED BY <1>2, <3>2 DEF Sorts
  <2>3. q[1] <= c /\ c <= q[Len(q)] => c \in g
    BY <1>1, <2>1, <2>2, NoGap
  <2>4. ASSUME c \in g PROVE c + (FoldC[q[1]] - q[1]) = FoldC[c]
    <3>1. FoldC[q[1]] - q[1] = FoldC[c] - c
      BY <2>1, <2>2, <2>4
    <3>2. FoldC[c] \in Nat /\ FoldC[q[1]] \in Nat /\ q[1] \in Nat
      BY <1>1, <2>2, <2>4
    <3> QED BY <3>1, <3>2
  <2>5. Excepts(G, c) <=> q[1] <= c /\ c <= q[Len(q)]
    BY <1>3, <1>7 DEF Excepts
  <2>6. Excepted(G, c) = c + (FoldC[q[1]] - q[1])
    BY <1>3, <1>7 DEF Excepted
  <2> QED BY <1>4, <2>3, <2>4, <2>5, <2>6
<1> QED BY <1>6, <1>7 DEF G

(* The groups change the code points that are exceptions, as their C lines *)
(* say, and no others.                                                     *)
LEMMA GroupsAre ==
    ASSUME FoldFileOK, NEW c \in Nat
    PROVE  /\ \A G \in groups : Excepts(G, c) =>
                  c \in fcCommon /\ Excepted(G, c) = FoldC[c]
           /\ c \in fcCommon => \E G \in groups : Excepts(G, c)
<1>1. ASSUME NEW b \in fcCommon PROVE GroupOf(b) \in SUBSET fcCommon
  BY DEF GroupOf
<1>2. ASSUME NEW G \in groups, Excepts(G, c)
      PROVE  c \in fcCommon /\ Excepted(G, c) = FoldC[c]
  <2>1. PICK b \in fcCommon : G = Group(GroupOf(b))
    BY DEF groups
  <2>2. GroupOf(b) \in SUBSET fcCommon
    BY <1>1
  <2>3. PICK g \in SUBSET fcCommon : g = GroupOf(b)
    BY <2>2
  <2>4. c \in g /\ Excepted(Group(g), c) = FoldC[c]
    BY <1>2, <2>1, <2>3, GroupIs
  <2> QED BY <2>1, <2>3, <2>4
<1>3. ASSUME c \in fcCommon PROVE \E G \in groups : Excepts(G, c)
  <2>1. PICK g \in SUBSET fcCommon : g = GroupOf(c)
    BY <1>1, <1>3
  <2>2. Near(c, c)
    <3>1. fcCommon \subseteq Nat
      BY DEF fcCommon, FoldFileOK
    <3>2. \A d \in fcCommon : ~(c < d /\ d <= c)
      BY <3>1
    <3>3. c <= c
      OBVIOUS
    <3> QED BY <3>2, <3>3 DEF Near
  <2>3. c \in g
    BY <1>3, <2>1, <2>2 DEF GroupOf
  <2>4. Excepts(Group(g), c)
    BY <2>3, GroupIs
  <2>5. Group(g) \in groups
    BY <1>3, <2>1 DEF groups
  <2> QED BY <2>4, <2>5
<1> QED BY <1>2, <1>3

-----------------------------------------------------------------------------
(* For every CaseFolding.txt the tables are what the loops of towfc.h need *)
(* them to be: in order, and all that groups of exceptions change is       *)
(* changed as its C line says, whether by a switch or by a distance.       *)
THEOREM FileTables ==
    ASSUME FoldFileOK
    PROVE  /\ FoldRows(tbl2, 3) /\ FoldRows(tbl3, 4)
           /\ \A G \in groups, c \in Nat : Excepts(G, c) =>
                 c \in fcCommon /\ Excepted(G, c) = FoldC[c]
<1>1. FoldRows(FullFolds(2), 2 + 1) /\ FoldRows(FullFolds(3), 3 + 1)
  BY FullFoldsAre
<1>2. 2 + 1 = 3 /\ 3 + 1 = 4
  OBVIOUS
<1> QED BY <1>1, <1>2, GroupsAre DEF tbl2, tbl3

(* What towfc.h has of a letter beyond ASCII is its folding in             *)
(* CaseFolding.txt, or its lowercase where the file has no line for it.    *)
LEMMA FileFolding ==
    ASSUME FromFile, NEW c \in FoldInputs, c >= Ascii
    PROVE  FoldingFromTables(c) =
             {IF c \in DOMAIN FoldF \cup DOMAIN FoldC THEN Folding(c)
              ELSE <<Lc(c)>>}
<1>1. c \in Nat /\ Ascii \in Nat /\ Lowered(c) = Lc(c) /\ FoldFileOK
  BY LettersOK, UnitsOK DEF FromFile
<1>2. /\ RowsFor(Tbl2, c) # {} <=> c \in FullOnes(2)
      /\ RowsFor(Tbl3, c) # {} <=> c \in FullOnes(3)
      /\ \A k \in RowsFor(Tbl2, c) : Tail(Tbl2[k]) = FoldF[c]
      /\ \A k \in RowsFor(Tbl3, c) : Tail(Tbl3[k]) = FoldF[c]
  BY <1>1, FullFoldsAre DEF FromFile, tbl2, tbl3
<1>3. c \in DOMAIN FoldF <=> c \in FullOnes(2) \cup FullOnes(3)
  BY <1>1 DEF FoldFileOK, FullOnes
<1>4. /\ \A G \in Groups : Excepts(G, c) =>
            c \in fcCommon /\ Excepted(G, c) = FoldC[c]
      /\ c \in fcCommon => \E G \in Groups : Excepts(G, c)
  BY <1>1, GroupsAre DEF FromFile
<1>5. ~(c < Ascii)
  BY <1>1
<1>6. CASE c \in DOMAIN FoldF
  <2>1. CASE RowsFor(Tbl2, c) # {}
    <3>1. {Tail(Tbl2[k]) : k \in RowsFor(Tbl2, c)} = {FoldF[c]}
      BY <1>2, <2>1
    <3> QED BY <1>5, <1>6, <2>1, <3>1 DEF FoldingFromTables, Folding
  <2>2. CASE RowsFor(Tbl2, c) = {}
    <3>1. RowsFor(Tbl3, c) # {}
      BY <1>2, <1>3, <1>6, <2>2
    <3>2. {Tail(Tbl3[k]) : k \in RowsFor(Tbl3, c)} = {FoldF[c]}
      BY <1>2, <3>1
    <3> QED BY <1>5, <1>6, <2>2, <3>1, <3>2 DEF FoldingFromTables, Folding
  <2> QED BY <2>1, <2>2
<1>7. CASE c \notin DOMAIN FoldF
  <2>1. RowsFor(Tbl2, c) = {} /\ RowsFor(Tbl3, c) = {}
    BY <1>2, <1>3, <1>7
  <2>2. CASE c \in fcCommon
    <3>1. Exceptions(c) # {} /\ \A G \in Exceptions(c) : Excepted(G, c) = FoldC[c]
      BY <1>4, <2>2 DEF Exceptions
    <3>2. {<<Excepted(G, c)>> : G \in Exceptions(c)} = {<<FoldC[c]>>}
      BY <3>1
    <3>3. c \in DOMAIN FoldC /\ Folding(c) = <<FoldC[c]>>
      BY <1>7, <2>2 DEF Folding, fcCommon
    <3> QED BY <1>5, <2>1, <3>1, <3>2, <3>3 DEF FoldingFromTables
  <2>3. CASE c \notin fcCommon
    <3>1. Exceptions(c) = {}
      BY <1>4, <2>3 DEF Exceptions
    <3>2. c \in DOMAIN FoldC => Folding(c) = <<Lc(c)>>
      BY <1>7, <2>3 DEF Folding, fcCommon
    <3> QED BY <1>1, <1>5, <2>1, <1>7, <3>1, <3>2 DEF FoldingFromTables
  <2> QED BY <2>2, <2>3
<1> QED BY <1>6, <1>7

(* ASCII letters are folded by tolower(), with the same exception.         *)
LEMMA AsciiFolding ==
    ASSUME FromFile, NEW c \in FoldInputs, c < Ascii
    PROVE  /\ FoldingFromTables(c) = {<<Lc(c)>>}
           /\ c \in DOMAIN FoldF \cup DOMAIN FoldC => Folding(c) = <<Lc(c)>>
<1>1. c \in Nat /\ Ascii \in Nat /\ Bmp \in Nat /\ Lowered(c) = Lc(c) /\ FoldFileOK
  BY LettersOK, UnitsOK DEF FromFile
<1>2. c \notin DOMAIN FoldF /\ c \notin fcCommon
  BY <1>1 DEF FoldFileOK
<1>3. c \in DOMAIN FoldC => FoldC[c] = Lc(c)
  BY <1>2 DEF fcCommon
<1> QED BY <1>1, <1>2, <1>3 DEF FoldingFromTables, Folding

(* For every CaseFolding.txt and every letter, what towfc.h has is its     *)
(* folding exactly if the file has a line for it or towlower() leaves it   *)
(* alone.                                                                  *)
LEMMA FoldedIfAligned ==
    ASSUME FromFile, NEW c \in FoldInputs
    PROVE  FoldingFromTables(c) = {Folding(c)} <=> Aligned(c)
<1> DEFINE lines == DOMAIN FoldF \cup DOMAIN FoldC
<1>1. c \in Nat /\ Ascii \in Nat
  BY LettersOK, UnitsOK
<1>2. /\ c \in lines => FoldingFromTables(c) = {Folding(c)}
      /\ c \notin lines => FoldingFromTables(c) = {<<Lc(c)>>}
  <2>1. CASE c < Ascii
    BY <2>1, AsciiFolding
  <2>2. CASE c >= Ascii
    BY <2>2, FileFolding
  <2> QED BY <1>1, <2>1, <2>2
<1>3. CASE c \in lines
  BY <1>2, <1>3 DEF Aligned
<1>4. CASE c \notin lines
  <2>1. Folding(c) = <<c>>
    BY <1>4 DEF Folding
  <2>2. <<Lc(c)>> = <<c>> <=> Lc(c) = c
    OBVIOUS
  <2>3. {<<Lc(c)>>} = {<<c>>} <=> <<Lc(c)>> = <<c>>
    OBVIOUS
  <2> QED BY <1>2, <1>4, <2>1, <2>2, <2>3 DEF Aligned
<1> QED BY <1>3, <1>4

(* For every CaseFolding.txt, what towfc.h has of a letter is what the     *)
(* file says exactly if the letter has a line or towlower() does not       *)
(* change it; the tables as a whole say what the file does exactly if this *)
(* is so of all letters.                                                   *)
THEOREM FileExact ==
    ASSUME FromFile
    PROVE  /\ \A c \in FoldInputs :
                FoldingFromTables(c) = {Folds(c)} <=> Aligned(c)
           /\ TablesFold <=> \A c \in FoldInputs : Aligned(c)
<1>1. \A c \in FoldInputs : FoldingFromTables(c) = {Folds(c)} <=> Aligned(c)
  BY FoldedIfAligned DEF FromFile
<1>2. FoldInputs \subseteq Nat /\ FoldFileOK
  BY LettersOK DEF FromFile
<1>3. ASSUME NEW c \in FoldInputs, NEW G \in Groups, Excepts(G, c)
      PROVE  Excepted(G, c) # c
  <2>1. c \in fcCommon /\ Excepted(G, c) = FoldC[c]
    BY <1>2, <1>3, GroupsAre DEF FromFile
  <2>2. FoldC[c] # c
    BY <1>2, <2>1 DEF FoldFileOK, fcCommon
  <2> QED BY <2>1, <2>2
<1>4. ASSUME NEW k \in DOMAIN Tbl2
      PROVE  ~IsPair(Tail(Tbl2[k]))
  <2> DEFINE c == Tbl2[k][1]
  <2>1. k \in RowsFor(FullFolds(2), c)
    BY DEF RowsFor, FromFile, tbl2
  <2>2. Tail(Tbl2[k]) = FoldF[c] /\ c \in FullOnes(2)
    BY <1>2, <2>1, FullFoldsAre DEF FromFile, tbl2
  <2> HIDE DEF c
  <2>3. ~IsPair(FoldF[c])
    BY <1>2, <2>2 DEF FoldFileOK, FullOnes
  <2> QED BY <2>2, <2>3
<1> QED BY <1>1, <1>3, <1>4 DEF TablesFold

(* FoldsExactly for every CaseFolding.txt and the UnicodeData.txt next to  *)
(* it, as long as no letter without a line is changed by towlower():       *)
(* towfc() writes the folding that the file asks for, and nothing that the *)
(* generator sorts, groups and leaves to towlower() loses any.             *)
THEOREM FileFolds ==
    ASSUME FromFile, PairsSuffice, \A c \in FoldInputs : Aligned(c)
    PROVE  FSpec => []FoldsExactly
<1>1. TablesFold
  BY FileExact
<1> QED BY <1>1, FoldsCorrect
=============================================================================
