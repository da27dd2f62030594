----------------------------- MODULE GenCasemap -----------------------------
(***************************************************************************)
(* gen_wctrans --table: the two-level tables in the style of newer musl.   *)
(* A code point is looked up in the table of its block, which gives one of *)
(* at most six rules of the block, packed three to a byte.  What does not  *)
(* fit goes to a list of exceptions of the block.                          *)
(*                                                                         *)
(* A rule is (delta << 8) | type.  Type 0 is applied by towlower(), 1 by   *)
(* towupper(); 2 refers to exceptions, 3 is a titlecase letter.            *)
(***************************************************************************)
EXTENDS Integers, Sequences, FiniteSets, SequencesExt, FiniteSetsExt

CONSTANTS
    Files,           \* pairs <<%upper, %lower>> of the mappings in the file
    NBlocks,         \* $NBLOCKS
    BlockSz          \* $BLOCKSZ

VARIABLES
    toLower,         \* %upper: code point -> lowercase
    toUpper,         \* %lower: code point -> uppercase
    phase,           \* the loop over the blocks that runs, or "ready"
    blocks,          \* per block the rules that got a slot, the exceptions
    rules,           \* @g_rules, from 1
    rulebases,       \* @g_rulebases, one per block
    exceptions,      \* @g_exceptions: <<offset, index of a rule>>
    seqBase,         \* %seq_to_base
    excIdx,          \* %exc_rule_to_gidx
    tabL1, tabL2     \* @tab_l1, @tab_l2_blocks

file == <<toLower, toUpper>>

gvars == <<file, phase, blocks, rules, rulebases, exceptions, seqBase,
           excIdx, tabL1, tabL2>>

ASSUME SizesOK ==
    /\ NBlocks \in Nat \ {0}
    /\ BlockSz \in 1 .. 256
    /\ \A f \in Files :
          /\ f = <<f[1], f[2]>>
          /\ \A h \in {f[1], f[2]} : \A c \in DOMAIN h :
                c \in 0 .. NBlocks * BlockSz - 1 /\ h[c] \in Nat \ {c}

Slots == 6

RuleInt(delta, type) == delta * 256 + type
RuleType(r) == r % 256
RuleDelta(r) == r \div 256

(* %cp_rule: %upper is stored last and wins. *)
CpRule(c) ==
    IF c \in DOMAIN toLower THEN RuleInt(toLower[c] - c, 0)
    ELSE IF c \in DOMAIN toUpper THEN RuleInt(toUpper[c] - c, 1)
    ELSE 0

HasBoth(c) == c \in DOMAIN toLower /\ c \in DOMAIN toUpper

Titlecase(c) == HasBoth(c) /\ toUpper[c] - c = -1 /\ toLower[c] - c = 1

Offsets == 0 .. BlockSz - 1

(* sort: the elements of S, each after those that come before it. *)
InOrder(S, Before(_, _)) ==
    [k \in 1 .. Cardinality(S) |->
       CHOOSE x \in S : Cardinality({y \in S : Before(y, x)}) = k - 1]

Ascending(S) == InOrder(S, <)

PlaceOf(s, x) == SelectInSeq(s, LAMBDA y : y = x)

RuleAt(b, o) == CpRule(b * BlockSz + o)

-----------------------------------------------------------------------------
(* Which rules of a block get a slot. *)

Frequency(b, r) == Cardinality({o \in Offsets : RuleAt(b, o) = r})

(* The rules of a block: identity first, then by frequency. *)
Ranked(b) ==
    LET found == {RuleAt(b, o) : o \in Offsets}
        Before(r, s) == \/ Frequency(b, r) > Frequency(b, s)
                        \/ Frequency(b, r) = Frequency(b, s) /\ r < s
    IN  (IF 0 \in found THEN <<0>> ELSE << >>)
          \o InOrder(found \ {0}, Before)

(* Mutant: no slot is given up for the reference to the exceptions.        *)
BlockKept(b) ==
    LET first == SubSeq(Ranked(b), 1, Min({Slots, Len(Ranked(b))}))
    IN  [rules |-> first,
         exc |-> {o \in Offsets : HasBoth(b * BlockSz + o)
                                    \/ ~Contains(first, RuleAt(b, o))}]

(* Rules beyond the sixth become exceptions, as do letters with both       *)
(* mappings; the reference to the exceptions takes a slot, the last one    *)
(* if there is no other.                                                   *)
Block(b) ==
    LET first == SubSeq(Ranked(b), 1, Min({Slots, Len(Ranked(b))}))
        some == \E o \in Offsets : HasBoth(b * BlockSz + o)
                                     \/ ~Contains(first, RuleAt(b, o))
        kept == IF some /\ Len(first) = Slots THEN Front(first) ELSE first
    IN  [rules |-> kept,
         exc |-> {o \in Offsets : HasBoth(b * BlockSz + o)
                                    \/ ~Contains(kept, RuleAt(b, o))}]

ExcRule(c) == IF Titlecase(c) THEN 3 ELSE CpRule(c)

-----------------------------------------------------------------------------
GInit ==
    /\ \E f \in Files : toLower = f[1] /\ toUpper = f[2]
    /\ phase = "blocks"
    /\ blocks = << >> /\ rules = << >> /\ rulebases = << >>
    /\ exceptions = << >> /\ seqBase = << >> /\ excIdx = << >>
    /\ tabL1 = << >> /\ tabL2 = << >>

(* Each loop runs over all blocks and gives way to the next. *)
Loop(this, done, after) ==
    /\ phase = this
    /\ phase' = IF done + 1 = NBlocks THEN after ELSE this

BuildBlock ==
    /\ Loop("blocks", Len(blocks), "rulebases")
    /\ blocks' = Append(blocks, Block(Len(blocks)))
    /\ UNCHANGED <<file, rules, rulebases, exceptions, seqBase, excIdx,
                   tabL1, tabL2>>

(* Mutant: a block with exceptions shares the rules of another, too.       *)
AllocateShared ==
    /\ Loop("rulebases", Len(rulebases), "tables")
    /\ LET blk == blocks[Len(rulebases) + 1]
           old == blk.rules \in DOMAIN seqBase
       IN  /\ rulebases' = Append(rulebases,
                  IF old THEN seqBase[blk.rules] ELSE Len(rules))
           /\ rules' = IF old THEN rules
                       ELSE rules \o blk.rules
                              \o (IF blk.exc = {} THEN << >> ELSE <<0>>)
           /\ seqBase' = [k \in DOMAIN seqBase \cup {blk.rules} |->
                  IF k \in DOMAIN seqBase THEN seqBase[k] ELSE Len(rules)]
    /\ UNCHANGED <<file, blocks, exceptions, excIdx, tabL1, tabL2>>

(* Pass 1: a block without exceptions shares the rules of an equal one.    *)
(* The place of the reference to the exceptions is left open.              *)
AllocateRules ==
    /\ Loop("rulebases", Len(rulebases), "tables")
    /\ LET blk == blocks[Len(rulebases) + 1] IN
       IF blk.exc = {} /\ blk.rules \in DOMAIN seqBase
       THEN /\ rulebases' = Append(rulebases, seqBase[blk.rules])
            /\ UNCHANGED <<rules, seqBase>>
       ELSE /\ rulebases' = Append(rulebases, Len(rules))
            /\ IF blk.exc # {}
               THEN rules' = rules \o blk.rules \o <<0>> /\ UNCHANGED seqBase
               ELSE /\ rules' = rules \o blk.rules
                    /\ seqBase' = [k \in DOMAIN seqBase \cup {blk.rules} |->
                          IF k = blk.rules THEN Len(rules) ELSE seqBase[k]]
    /\ UNCHANGED <<file, blocks, exceptions, excIdx, tabL1, tabL2>>

(* Blocks whose reference to the exceptions is still open. *)
ExcPos(b) == rulebases[b + 1] + Len(blocks[b + 1].rules)
Pending == {b \in 0 .. NBlocks - 1 :
              blocks[b + 1].exc # {} /\ rules[ExcPos(b) + 1] = 0}

FillWith(b, offsets) ==
    LET needed == [k \in 1 .. Len(offsets) |->
                     ExcRule(b * BlockSz + offsets[k])]
        first == {k \in DOMAIN needed : /\ needed[k] \notin DOMAIN excIdx
                                        /\ PlaceOf(needed, needed[k]) = k}
        fresh == [n \in 1 .. Cardinality(first) |-> needed[Ascending(first)[n]]]
        index == [r \in DOMAIN excIdx \cup ToSet(fresh) |->
                    IF r \in DOMAIN excIdx THEN excIdx[r]
                    ELSE Len(rules) + PlaceOf(fresh, r) - 1]
        refers == (Len(exceptions) * 256 + Len(offsets)) * 256 + 2
    IN  /\ excIdx' = index
        /\ exceptions' = exceptions
             \o [k \in 1 .. Len(offsets) |-> <<offsets[k], index[needed[k]]>>]
        /\ rules' = [rules EXCEPT ![ExcPos(b) + 1] = refers] \o fresh

(* Mutant: in the order they were found; what gave up its slot comes last. *)
FillUnsorted ==
    /\ phase = "tables" /\ Pending # {}
    /\ LET b == Min(Pending)
           Evicted(o) == /\ ~HasBoth(b * BlockSz + o)
                         /\ Contains(SubSeq(Ranked(b), 1, Slots), RuleAt(b, o))
           last == {o \in blocks[b + 1].exc : Evicted(o)}
       IN  FillWith(b, Ascending(blocks[b + 1].exc \ last) \o Ascending(last))
    /\ UNCHANGED <<file, phase, blocks, rulebases, seqBase, tabL1, tabL2>>

(* Pass 2: the exceptions of a block, sorted by code point, and their      *)
(* rules, which all blocks share.                                          *)
FillExceptions ==
    /\ phase = "tables" /\ Pending # {}
    /\ LET b == Min(Pending)
       IN  FillWith(b, Ascending(blocks[b + 1].exc))
    /\ UNCHANGED <<file, phase, blocks, rulebases, seqBase, tabL1, tabL2>>

-----------------------------------------------------------------------------
(* tab[] *)

Width == (BlockSz + 2) \div 3                       \* 86
L2Offset == (NBlocks + Width - 1) \div Width        \* $L2_OFFSET

(* The letters leave room: the count of a block's exceptions and the index *)
(* of a block in the second level are bytes.  In Unicode a code point of   *)
(* every block maps to itself, and fewer than 40 blocks have letters.      *)
Cased(f, b) ==
    {o \in Offsets : b * BlockSz + o \in DOMAIN f[1] \cup DOMAIN f[2]}
CasedBlocks(f) == {b \in 0 .. NBlocks - 1 : Cased(f, b) # {}}

ASSUME LettersFit ==
    \A f \in Files :
       /\ BlockSz < 256 \/ \A b \in 0 .. NBlocks - 1 : Cased(f, b) # Offsets
       /\ Cardinality(CasedBlocks(f)) + 1 + L2Offset <= 256

(* The slot of a code point in the rules of its block, %rule_map. *)
SlotOf(b, o) ==
    LET blk == blocks[b + 1] IN
    IF o \notin Offsets THEN 0
    ELSE IF o \in blk.exc THEN Len(blk.rules)
    ELSE PlaceOf(blk.rules, RuleAt(b, o)) - 1

Packed(b) ==
    [x \in 1 .. Width |->
       LET o == 3 * (x - 1)
       IN  SlotOf(b, o + 2) * 36 + SlotOf(b, o + 1) * 6 + SlotOf(b, o)]

(* Equal blocks are stored once; the first level refers to them. *)
PackBlock ==
    /\ Loop("tables", Len(tabL1), "ready")
    /\ Pending = {}
    /\ LET packed == Packed(Len(tabL1))
           known == PlaceOf(tabL2, packed)
           at == IF known = 0 THEN Len(tabL2) ELSE known - 1
       IN  /\ tabL2' = IF known = 0 THEN Append(tabL2, packed) ELSE tabL2
           /\ tabL1' = Append(tabL1, (at + L2Offset) % 256)
    /\ UNCHANGED <<file, blocks, rules, rulebases, exceptions, seqBase,
                   excIdx>>

(* tab[n] as emitted: level 1, padding, level 2. *)
TabAt(n) ==
    LET l2 == n - L2Offset * Width IN
    IF n < NBlocks THEN tabL1[n + 1]
    ELSE IF l2 < 0 THEN 0
    ELSE tabL2[l2 \div Width + 1][(l2 % Width) + 1]

Generate == BuildBlock \/ AllocateRules \/ FillExceptions \/ PackBlock
=============================================================================
