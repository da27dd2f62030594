# Verification of Unicode-Towctrans

`bin/gen_wctrans` reads the Unicode character data and writes two C headers:
`towctrans.h` with `_towcase(wc, lower)`, the simple case mappings behind
`towlower()` and `towupper()`, and `towfc.h` with `iswfc()` and `towfc()`, full
case folding. The headers checked in next to it are its output with default
options for Unicode 17. This directory models the generated functions, the
generator, and the tables that go from one to the other.

## Inventory

| Component | Code | State | Operations | Modules |
|---|---|---|---|---|
| Default lookup | `towctrans.h:291-372` | arguments, loop index, the process locale | `_towcase` | `CaseTables`, `CaseCall`, `CaseMapping`, `Towcase`, `Towctrans17` |
| Wrappers, unrolled search, bit-fields | `gen_wctrans` `--musl`, `--safec`, `--unroll`, `--bits` | none of their own | `towlower`, `towupper` | `Towctrans` |
| Bisecting lookups | `gen_wctrans` `--bsearch`, `--bsearch-both` | as above, `lo`, `hi`, `best` | `_towcase` | `TowcaseBsearch` |
| Compiled lookups | `gen_wctrans` `--if-tree` | the node evaluated | `_towcase` | `IfTree` |
| Case folding | `towfc.h` | `dest[]`, loop index | `iswfc`, `towfc` | `Towfc`, `Towfc17` |
| A program that includes both headers | outside the repository | the values so far | asks and folds again | `Caller` |
| Generator, simple mappings | `gen_wctrans:217-551, 829-1031, 1991-2468` | `%upper`, `%lower`, `@map`, `@pair` | scan, `add_map`, `add_lace`, `add_pair`, `simulate`, sorts, `add_excl` | `GenTables` |
| Generator, foldings | `gen_wctrans:878-925, 1724-1938` | `@fc2`, `@fc3`, `@fc_common` | sorting, grouping | `FoldTables`, `FoldFile` |
| `--table` mode, generator | `gen_wctrans:1115-1510` | block rules, `@g_rules`, `@g_exceptions`, `tab[]` | classify, allocate, fill, pack | `GenCasemap` |
| `--table` mode, lookup | `gen_wctrans:1512-1661` | `r`, `xb`, `xn` | `casemap`, `towlower`, `towupper` | `Casemap` |
| Options, downloads, tests, benchmarks, packaging | the rest of the repository | files | I/O | not modelled |

The components interact in one direction. The generator makes tables; a lookup
reads them and keeps no state between calls; `towfc()` calls `_towcase()` for
every code point it has no entry of its own for. The only shared mutable state
is the locale of the process, which `_towcase()` reads with `setlocale(LC_CTYPE,
NULL)` where it was compiled with `HAVE_LOCALE_TR`, and which another thread may
change at any time.

What is hard here, and what makes each part correct:

* The lookups leave loops early, skip tables by their span, subtract in
  `uint32_t` where it wraps, use one loop for two directions in which the tables
  are not equally sorted, and answer the titlecase digraphs by an exception.
  Whatever they skip, the answer has to be the one a full search gives.
* The lookups depend on tables made elsewhere: sorted, not overlapping in either
  direction, pairs with one key in a certain order, exclusions that hide no
  letter. The generator has to guarantee exactly that.
* The generator makes its tables in one pass that takes back decisions: it pops
  pairs, overwrites ranges of one code point, and leaves pairs out after
  simulating the lookup on tables that are not finished.
* `iswfc()` and `towfc()` decide separately what a caller relies on together:
  the room that is needed and the text that is written. With a 16-bit `wchar_t`
  `towfc()` writes surrogate pairs.
* `--table` packs three slots of a block into one byte, evicts the rules a block
  has no slot for, and shares rules, runs of rules and whole blocks. Its lookup
  has a binary search without an exit for a code point above the last exception
  that is left: it ends only because the tables always hold what it looks for.

## Modules

`CaseTables` says what one entry of `casemaps[]`, `casemapsl[]` or `pairs[]`
means: which code points it covers in a direction (`Covers`, with the wrapping
subtraction `Minus`) and what it answers (`Mapped`, with laces and digraphs).
`Answer(wc, lower)` is the reference: the first entry that covers `wc`, in the
order of the tables, whatever a search skips. `TableOK`, `PairsOK` and
`ExclusionSound` are what the generator guarantees; the lookups assume them,
`GenTables` shows them.

`CaseCall` is the part all variants of `_towcase` share: the call, the exclusion
test, the Turkish exception, the return, and the other thread's `setlocale()`.

`CaseMapping` is the abstract specification: a question is decided once, under
the locale in force at that instant. `CaseCall` holds the refinement mapping
`Mapping`: the answer is decided by the step that reads the locale, although the
search that finds it is still to run.

`Towcase` is the default lookup; one action is one iteration of a loop.
`SearchTable` is both range loops, `SearchPairs` the third. `pairl[]` is searched
right after `pairs[]` and in the same way, so `Pairs` stands for the two.

`Towctrans` is what programs see of the default lookup. `wrapped` says whether
a call goes through the `towlower()` and `towupper()` of `--musl` and `--safec`,
which leave ASCII to the C library, `unrolled` whether `casemapsl[]` is a
sequence of if statements (`Unrolled`: no early exit, no digraph exception), and
`packed` whether `casemaps[]` is made of bit-fields of the widths in `Fields`:
`Stored` is what the initialiser leaves in them, `Low` the distance read back.
`alpha` says whether the exclusion test asks `iswalpha()` (`--with-iswalpha`, which
`--musl` implies) in place of its first range; `Alphas` is what the C library calls
letters, and `AlphaOK` what the documentation demands of it.
`FieldsOK` says that the generator moves entries that do not fit to
`casemapsl[]`, and that no range goes down by one, which the stored distance
does not tell from a lace. The module's
refinement mapping, `Wrapped`, takes the way of calling for a part of the locale,
so that `CaseMapping` serves again. `Spec` of `Towcase` is the part of it in
which programs call `_towcase()` directly.

`TowcaseBsearch` extends `Towcase`: one action is one probe of a bisection or
one step of a walk over pairs with the same key. `header`, chosen at the start
and never changed, says which header the program includes: `"bsearch"` bisects
when lowering and takes the actions of `Towcase` for uppering, `"both"` bisects
in both directions through the index tables `CaseUpper`, `CaseLUpper` and
`PairsUpper`, and `"linear"`, for `Caller`, is the default header.

`IfTree` extends `TowcaseBsearch`: one action evaluates one node of a `?:`
expression. `[lo, hi]` is the range of entries below the node. Its assumption
`DigraphsOK` says that a lace answers the digraphs alike with and without the
exception.

`Towfc` is `iswfc()` followed by `towfc()` for the same code point, as a client
does that sizes its buffer first. `dest` starts as unwritten memory, and `wide`
says how wide `wchar_t` is in this build. `_towcase()` is used by its promise,
`Lowered`, and `iswupper()`, which belongs to the C library, is modelled as musl
implements it. `TablesFold` and `PairsSuffice` say what the generator has to
guarantee for the foldings to be right.

`Towctrans17` and `Towfc17` hold the tables of the headers in the repository.

`Caller` composes the two headers. A program asks `_towcase()` or `towfc()`,
feeds an answer back in, and goes on as its `plan` says; `values` is what it has
seen. The module extends `TowcaseBsearch` and `Towfc` and adds the calls: a step
is one of the program, of a lookup or of `towfc()`, and a result is any unit of
a folding. `ProgramOK` says how the two fit together: the `_towcase()` that
`towfc()` calls is the one of the other header, and results may be asked about
again. `MappingsSettle` and `FoldingsSettle` are what the data have to satisfy,
stated letter by letter and not along a chain of calls: an answer is its own
answer and comes back from the other case; what an entry of `towfc.h` folds to is
lowercase and has no entry; entries agree for the two cases of a letter.
`Exchanged` names the letters for which they do not hold, the Cherokee ones,
which the two headers exchange, and `Apart` U+0130 and U+0131, whose other case is
a plain letter i.

`GenTables` is the generator of the default tables. `upper` and `lower` are the
two hashes, `todo` the code points the current loop has not reached, `gen.map`
and `gen.pair` are `@map` and `@pair`, and `gen.lost`, which has no counterpart
in the code, collects the pairs `add_pair()` leaves out. One action is one
iteration of the scan (`ScanFirst`, `ScanNextLace`, `ScanNextMap`, `ScanHole`,
the branches of the loop) or of the loop over the one-way mappings (`AddExtra`),
then the sort, then `Emit`. `simulate()` is modelled as Perl computes it,
without wrapping, and with the directions as its callers pass them. `Header`
instantiates `CaseTables` with what was emitted; `caseUpper`, `pairsUpper` and
their long counterparts are the index tables of `--bsearch-both`. What the header
should answer is stated for letters that are `Settled` in the direction asked: the
file leaves no choice of the answer, and, for uppering, no second capital of the
letter has become part of a range or a lace (`Usurped`). In Unicode that is every
letter for lowering, and for uppering every letter but U+00DF and the digraphs
U+01C5, U+01C8, U+01CB, U+01CC, U+01F2 and U+01F3.

`FoldTables` makes `tbl2`, `tbl3` and the groups of exceptions from the lines of
`CaseFolding.txt`. `FoldFile` puts them under `Towfc`: `FromFile` says that its
tables are those of a file, with `towlower()` that of the `UnicodeData.txt` next to
it, and `FoldFileOK` what such a file is. `Aligned` names the letters that have a
line or that `towlower()` leaves alone.

`GenCasemap` is the generator of `--table`: one action handles one block in one
of the three loops over them. `BuildBlock` ranks the rules of a block, gives
slots to the most frequent ones and evicts the others to exceptions;
`AllocateRules` lays the slots out in `@g_rules`, sharing runs that were laid
out before; `FillExceptions`, once all rules are placed, sorts the exceptions of
a block and resolves their rules; `PackBlock` packs three slots into a byte and
shares equal blocks. `Casemap` extends it with the lookup in these tables
(`Fetch`, then one `Search` per iteration of the binary search) and with the
wrappers.

`Towcase_proofs`, `Towctrans_proofs`, `TowcaseBsearch_proofs`, `IfTree_proofs`,
`Towfc_proofs`, `Caller_proofs`, `GenTables_proofs` and `Casemap_proofs` hold the
theorems. The `MC*` modules supply instances.

## Runs

| Run | Configuration | Shows |
|---|---|---|
| `linear` | `MCTowcase.cfg` | `TypeOK`, `ReturnsAnswer`, `CallReturns`, `ImplementsWrapped` of the default lookup, with and without the wrappers, unrolled or not, with bit-fields or not, with exclusion ranges or `iswalpha()` |
| `unicode17` | `MCUnicode17.cfg` | over the real headers: `ReturnsAnswer` and `WindowKeepsHit` of the default header and of `--bsearch-both`; `FoldStable`, repeated mapping and folding settles; `FoldsAlike`, a letter folds as its other case does; `FoldingComplete`, `towfc.h` writes the foldings it has rows for and within the room `iswfc()` counts |
| `bsearch` | `MCTowcaseBsearch.cfg` | `BTypeOK`, `WindowKeepsHit`, `ReturnsAnswer`, `CallReturns`, `ImplementsMapping` for both bisecting headers |
| `iftree` | `MCIfTree.cfg` | `TreeKeepsHit`, `CompiledAnswer`, `CallReturns` for both headers |
| `iftree_laces` | `MCIfTreeLaces.cfg` | counterexample to `ReturnsAnswer` |
| `generator` | `MCGenTables.cfg` | `GTypeOK`, `NoneForgotten`, `NoneInvented`, `LeftOutOpposed`, `TablesExact`, `LookupReady` |
| `generator_left_out` | `MCGenTablesLeftOut.cfg` | counterexample to `LeftOutNotNeeded` |
| `fold` | `MCTowfc.cfg` | `Terminated`, `FoldsExactly`, `CountSuffices`, `CallsReturn` with a wide and with a 16-bit `wchar_t` |
| `fold_cherokee` | `MCTowfcSwapped.cfg` | counterexample to `FoldsExactly` |
| `fold_zero` | `MCTowfcZero.cfg` | counterexample to `ZeroStaysSame` |
| `table` | `MCCasemap.cfg` | `CTypeOK`, `SearchKeepsHit`, `AnswersFile`, `ImplementsMapping`: generator and lookup of `--table` together |
| `table_swapped` | `MCCasemapSwapped.cfg` | counterexample to `WrappersAnswer` |

### Bounds

* Small lookups: `Word = 64` stands for 2^32, so that subtraction wraps for
  inputs that occur; every one of the 64 code points is asked about in both
  directions under three locales. The tables hold an entry of every kind: ranges
  with positive and negative distance, a lace, a lace that meets a digraph, a
  long range, an entry of one code point, pairs that share an uppercase or a
  lowercase, exclusions before, between and after. `MCTowcase` has two long
  entries, so that leaving the unrolled search early would be seen, and bit-fields
  as narrow as its entries allow; in `MCIfTree`
  the pairs that share a key are placed so that the root of the expression is
  not the first of them, in either direction. A search treats an entry by its
  kind and its order only, so larger tables repeat these cases.
* The real tables: every cased code point, the neighbours of every range and of
  its image, and the ends of the exclusions with their neighbours; for the
  foldings every key of `tbl2`, `tbl3` and of the exceptions with its neighbours
  and the Cherokee letters, and whatever the headers answer for any of these.
  `Plans` applies `_towcase()` and `towfc()` up to four times in a row, always so
  that the second half asks again about what the first half came to. The index
  tables of `--bsearch-both` are written out, and the assumptions of
  `TowcaseBsearch` check that they are sorted.
* Generator: `N = 7` code points, every way to pair them up as upper- and
  lowercase letters in any order, each of these also with one lowercase letter
  or one uppercase letter whose mapping goes one way, and every file whatever
  over four code points: 77010 files. Decisions of the scan involve at most the
  code point at hand, the one before, the last pair and the last two entries. The
  fields are so narrow (`MaxUpper`, `MaxLower`, `MaxLen`, `MaxShort`) that
  entries spill into `casemapsl[]` and pairs into `pairl[]`; `MinExcl = 0`
  excludes every gap. `N = 6` suffices for the counterexample. Files are not
  restricted: `TablesExact` and `LookupReady` leave out, letter by letter and
  direction by direction, what is not `Settled`.
* Folding: a file with a line of every kind, 43 code points below and above the
  eight that are surrogates; `LoBits = 4` stands for 2^10, `Bmp = 35` for 0xffff and
  `Ascii = 4` for 128; buffers too small, sufficient and too large; both widths.
* `--table`: five blocks of ten code points and 1152 files. With all seven
  capitals a block has more rules than its six slots, and so has the block of
  their small letters; a letter without a way back, titlecase letters in their
  own and in another block, a block without letters that stay as they are, and
  equal blocks occur. `BlockSz = 10` is not a multiple of three, as 256 is not, and
  the five bytes of the first level are padded to eight, as 512 are to 516.

### Fairness

`WF(Step)` in its variants (`TStep` of `Towctrans` and of `IfTree`, `BStep`,
`CStep`, `FStep`): a call that has begun keeps executing. It is what
any processor does for a running thread, and nothing is assumed about callers or
about the thread that changes the locale. `CallReturns`, `CallsReturn` and the
temporal half of `ImplementsMapping` and `ImplementsWrapped` then say that the
loops terminate. The generators' invariants need no fairness.

## What is proved

The theorems hold for all tables, inputs, locales and sizes that satisfy the
named assumptions of the modules, which TLC evaluates on every instance, the real
tables included.

### Default lookup (`Towcase_proofs`)

* `TypeCorrect`: `TypeOK` always holds. In particular results stay in
  `uint32_t`, so that the sums the model leaves unreduced are those C computes.
* `AnswerCorrect`: `ReturnsAnswer` always holds.
* `Refinement`: `Spec` implements the safety part of `CaseMapping`.

`ReturnsAnswer` speaks of the end of a call and is not inductive. The invariant
`IInv` adds what the loops have passed: while a table is searched, none of its
entries before `i` covers `wc`, none of the tables before it has a hit, and a
call that is past the exclusion test or the Turkish exception has an input of
`Inputs`. Two lemmas carry the argument. `EarlyExit`: when lowering, no entry at
or after one whose `upper` is beyond `wc` covers `wc`; it needs the order of the
table and that an entry does not wrap. `PairsEarlyExit` says the same of pairs.
With `FirstHit` and `FirstPair`, the entry where a loop stops is the first hit,
which is what `Answer` is defined by. The refinement is a case split over the
actions: `LocaleTr` is the step that decides, all other steps of the search
stutter because `IInv` fixes the answer. The theorems are about `Spec` of
`Towcase`, that is, about direct calls of the default header.

### Wrappers, unrolled searches, bit-fields (`Towctrans_proofs`)

`TTypeCorrect` (`TypeOK`), `TAnswerCorrect` (`ReturnsAnswer`) and
`WrappedRefinement`, the safety part of `ImplementsWrapped`, for `TSpec`. The
invariant `TInv` is `IInv` and that no ASCII letter reaches the test for the
locale through a wrapper. `UnrolledSearch` shows that a statement does what an
iteration does: without a digraph in `CaseL` there is no exception to leave out
(`UnrollOK`), and without an early exit `IInv` holds as it does with one.
`PackedSearch` shows that a search over bit-fields is a step of the search over
the others, as `ReadStored` gets every entry back out of its fields (`FieldsOK`).
`NoLetterAnswer` says that `iswalpha()`, if it is as `AlphaOK` has it, turns away
no letter with an answer of its own.
`AnswerType`, which the C library's answers need, takes the first hit of a
non-empty set by well-founded induction on the indices (`FirstExists`).

### Bisecting lookups (`TowcaseBsearch_proofs`)

`BTypeCorrect` (`BTypeOK`), `WindowCorrect` (`WindowKeepsHit`), `BAnswerCorrect`
(`ReturnsAnswer`) and `BRefinement`. The invariant `BInv` adds three parts to
that of the linear lookup. `Windows`: every place of the table that covers `wc`
lies between `lo` and `hi`, of which `lo` is at most one and `hi` not at all beyond
the last entry, so that every probe is inside the table (`InsideTables`). `Narrow`
keeps it, as entries are apart in the order of the search (`InOrderOfPlaces`), and
`OnePlace` makes the hit unique, hence the first. `Left`: a table that was skipped
by its span has no hit (`Outside`, `SkipCaseL`). `Walks`: where pairs share a key,
`best` is the smallest index the walk has met, and the pairs not met lie on the
side it has still to go (`Best`, `BestOfMore`), so that the walk in the order of
the targets ends at the pair the linear search would have met first. A walk starts
at a place of `pairs[]` and ends at one that does not match or right after the
table (`WalkEnds`).

### Compiled lookups (`IfTree_proofs`)

`TreeCorrect` (`TreeKeepsHit`) and `CompiledCorrect` (`CompiledAnswer`). The
lemma `Descend` does what `Narrow` does for a bisection: the branch that is taken
keeps every place that covers `wc`; a leaf is not compared and has no other
place to lose. `CompiledAnswer` says what a compiled lookup answers at all: as
`Answer` does outside laces, by distance in a lace, and by one of the pairs that
have the key. With the Unicode 17 tables the last makes no difference.

### Case folding (`Towfc_proofs`)

`FoldTerminated` (`Terminated`), `CountCorrect` (`CountSuffices`) and, assuming
`TablesFold` and `PairsSuffice`, `FoldsCorrect` (`FoldsExactly`). The invariant
`FInv` adds to the properties: `Searched`, what the loops over `tbl2` and `tbl3`
have passed without a row for `src` (`FoldExit` justifies the early exit from
their order), once for `iswfc()` and once for `towfc()`; `Counts`, which links
the count of the first to the table the second will find; and `Opened`, the
terminator `towfc()` has written before it is done. `RemainderIs` and
`JoinedUnits` do the arithmetic of surrogates: the two units written are joined
to the letter again.

`FileTables`, `FileExact` and `FileFolds` go back to `CaseFolding.txt`, for every
file as `FoldFileOK` has it. `FileTables`: the rows of `tbl2[]` and `tbl3[]` are
sorted, which the early exit needs, and a group of exceptions changes no code
point but those of its C lines. The sort is by places again (`AscendingSorts`, from
`InPlace` by cardinalities). A group folded by arithmetic is tested by its first and
last letter only; `NoGap` shows that all between are members, and `GroupIs` that
one distance fits all. `FileExact` says exactly when the tables fold as the file
says: a letter has its folding if and only if it is `Aligned`, so that
the finding about Cherokee below is the one way in which they can be wrong.
`FoldedIfAligned` follows the order of `towfc()` for it: rows, then exceptions, then
`towlower()`, which answers whatever the generator left out because it agrees.
`FileFolds` is the result for
`towfc()` itself, `FoldsExactly` for all files without letters of that kind.

On the tables of `towfc.h` TLC checks the assumptions of the
theorems as part of `FoldingsSettle` of `Caller`, taking for `Folds` the rows
themselves.

### Both headers together (`Caller_proofs`)

`CallerStable` (`FoldStable`), `CallerFoldsAlike` (`FoldsAlike`), `CallerFolds`
(`FoldingComplete`) and `CallerAnswers` (`ReturnsAnswer` and `WindowKeepsHit`), for
`CSpec` and all tables that satisfy the assumptions of the modules. The invariant
`CInv` is that of the bisecting lookups, `BInv`, and that of case folding, `FInv`
and `FoldsExactly`: `LookupSteps` and `FoldingSteps` show that a step of the
composition is a step, or a stutter, of either header, since all the program asks
about are inputs of theirs. To these it adds `Chain`, every value is an answer to
the one before and can be asked about again, and `Calls`, which ties the
arguments of the call that runs to the latest value and says that `towfc()` is
not turned away by its guards. That the chain settles is then a matter of the
data: `MapSettles` for the plans of mappings, and `FoldSettles`, which takes any
unit of a folding, for the others, where `PlainFolding` reduces a letter without
an entry to its lowercase. The assumptions are about single letters; the runs'
properties are about chains of up to four calls with their searches.

### Generator of the default tables (`GenTables_proofs`)

`GTypeCorrect` (`GTypeOK`), `NothingForgotten` (`NoneForgotten`),
`NothingInvented` (`NoneInvented`) and `NothingLost` (`LeftOutOpposed`), for
every file whose code points are numbers (`UcdOK`). In particular nothing is
assumed about the order of the letters, nor which of them are one-way.

The invariant `GInv` says that each entry of `@map` is a range or a lace of
mappings of the file (`GenOK`), that each pair is one (`PairsGiven`), for as long
as the scan runs, and that what was scanned is kept. `PairsGiven` is what makes
popping a pair safe: `FollowsPair` looks at the pair alone, and `PoppedAdds` shows
that the lace that takes its place claims the same mapping. Each way the
scan changes the tables has a lemma with the same conclusion, `Adds`: the mapping
at hand is kept, nothing else is lost, and every claim is the file's. For
`PutEntry`, which overwrites an entry of one code point, `AddMapOK` and
`AddLaceOK` show that `add_pair()` or the new entry takes over what is
overwritten.

`NothingLost` says which pairs `add_pair()` can leave out, whatever is in the
tables when it asks. With the directions swapped `simulate()` answers with the
pair only where it finds the distance of the pair with the opposite sign, so that
some letter of the file has that distance (`Opposed`); `EntryOpposes` finds it in
the entry that matched. Where the pair goes up, that entry goes down and matches
everything below its end, and the letter is one scanned before: `InOrder`, a part
of the invariant, says that the ranges of `@map` begin in the order of the scan,
also after one was overwritten, and none beyond the code point at hand.
`UnopposedExact` draws the conclusion: for a file in which no letter is opposed
the header is exact, whatever the scan did. TLC evaluates that condition on the
mappings of Unicode 17 (`Unopposed17` in `MCUnicode17`). Letters with distances of
both signs are there, also with the lowercase letter before its uppercase; the
letters of Unicode that go down by a distance others go up by come after these.

Sorting is defined by the place each element gets, the number of elements before
it (`PairPlaces`), and not by the algorithm; `PairPlacesDiffer` and `ArrangedKeeps`
show that no element is lost.

### The header (`GenTables_proofs`, second part)

`HeaderExact` (`TablesExact`), `HeaderReady` (`LookupReady`) and `HeaderBisects`,
for every file, all field widths and every `MinExcl`. `UcdOK` is what is assumed:
code points are numbers below 2^32 - 1 and a file has finitely many.

`GInv` says that nothing is lost and nothing is made up, but not that a mapping is
in one place only, and a header with a letter in two entries answers for it by
whichever comes first. The second half of the inductive invariant is `HInv`:

* `Once`, while the scan runs: no uppercase letter is claimed by two entries, has
  two pairs, or an entry and a pair; and `ScanOnce`: the letters still to scan are
  in none. `OnceKept` shows it for any step that puts one letter in one new place
  (`Changes`), the lemmas up to `AddLaceOnce` that every way of adding a mapping is
  such a step, an overwritten entry and a popped pair included. Afterwards
  `ClaimedOnce` is left, as the one-way mappings share their uppercase with others.
* `AllNarrow`: an entry of distance 1 that is not a lace has one code point. A
  lookup tells a lace by its distance, so a longer range of that kind would be
  misread. Only the first mapping of the file can become one, and is never extended:
  `AddMapNarrow` needs that `add_map()` is called with distance 1 for that one only.
* `PairsOfFile` and `ExtrasKept`: pairs are mappings in either direction, and every
  lowercase letter whose uppercase maps elsewhere has its pair.
* `PairsDiffer`: no pair is listed twice, so that the index of a pair in its table
  is the one `pairs_upper[]` wants. It needs `ExtrasNew`: a one-way pair still to be
  added is not among the pairs.
* `PairsSorted`, and that the header is what `Emit` makes of the tables (`Made`).

What follows is about the finished header. `CoversUpper` and `CoversLower` say
what a lookup makes of an entry: where a range covers a code point it claims it,
and a lace covers, in either direction, the letters of the other case as well,
which it leaves as they are. `SortedIs`, `SelectedIs` and `PairsMade` carry the
entries and pairs through the sorts and the splits by width, keeping their order;
`RankIsPlace` gives the place an element gets in a sort as one that respects the
order. `TableUp` and `TableDown` then say that whatever entry is hit has the right
answer, so that neither the order of entries nor the split into two tables
matters. `AnswerUp` needs of the pairs that an authoritative one comes before
others with its uppercase, `AnswerDown` that the smallest uppercase comes first.
`GapsUncased` and `ExcludedUncased` show that the exclusions hold no cased letter,
although the unsigned test wraps. For `LookupReady`, `CoveredOnce` shows that what
covers one settled code point twice holds one mapping twice, and `EntriesApart`
takes for that code point the first one of the entry that begins later.

The index tables are sorts by a number: `ArrangedSorts` gives the places a sort
takes its elements from, each once and in the order of the keys. `TargetsReady`
makes of it an index of every entry, in the order in which targets begin, and
`TableBisectable` that the targets lie apart. `LowersReady` does the same for the
pairs, where the code looks the index up under the pair itself. `HeaderBisects`
puts that into the words of `TowcaseBsearch`: a table in which every entry begins
at a settled letter satisfies `Successive` and `SuccessiveTargets`, from which
the theorems about the bisections start.

`~Usurped` is part of `Settled` for uppering alone (`TableDown`): lowering is right
for every letter with one lowercase. In `LookupReady`, too, only the targets need
it to be apart.

### `--table`, generator and lookup (`Casemap_proofs`)

`CTypeCorrect` (`CTypeOK`), `SearchHits` (`SearchKeepsHit`), and for the lookup
itself, without the wrappers, which swap the directions: `TablesAnswerFile`
(`AnswersFile`) and `LookupIsMapping`, the safety part of `ImplementsMapping`.
They hold for every file, number of blocks and block size up to 256 for which
`LettersFit`: a block has no more exceptions than a byte counts, and the second
level no more blocks than a byte of the first can index. The code checks
neither. In the data of Unicode both hold: every block has a code point that
maps to itself, and of 512 blocks fewer than 40 have letters, where 249 may.

The invariant `CInv` is that of the generator, `GenInv`, and of a lookup,
`LookInv`. The parts of the first follow what the loops leave for each other.
`BlocksOK`: of a block, every code point that is no exception has a slot with
its rule, and at most five slots are taken if there are exceptions; that needs
eviction. `Placed`: the rules of a block are where its rule base says. `Apart`:
the places left open for references are not shared, so that filling one in
changes no rule of another block. `Indexed`: what an exception refers to is a
rule with that value, and no open place. `Referred`: a reference is open, or
leads to the exceptions of its block, sorted, each with its rule. `Tables`: the
bytes of a block are its packed slots, and the second level has at most one block
more than there are blocks with letters. `LookInv` adds `Searching`: the
exception for the code point is among those left, and these are exceptions of
its block, hence in order.

Sorting is again a matter of places: `Ranks` shows by cardinalities that in a
strict total order the elements of a finite set take the places 0 to n - 1, from
which `AscendingLists` gets the list without induction. `Decoded` is the
arithmetic of `mt[]`: multiplying by 2048, 342 or 57 and dividing by 2048 divides
every byte by 1, 6 or 36. `ReferenceParts` splits a reference into what it was
made of. `HalfKeeps` is the binary search.

### From the data to the answer

`HeaderExact` says that the reference `Answer` over the generated tables gives
what `UnicodeData.txt` gives, `HeaderReady` that these tables satisfy what the
lookups assume of them, and `AnswerCorrect` and its siblings that a lookup over
such tables returns `Answer`. Together: what a generated lookup returns is what
the data say, for every file without an opposed letter (`UnopposedExact`) and with
no pair that is cut short. The chain has the index tables of `--bsearch-both` as well
(`HeaderBisects`). For folding, `FileFolds` is the whole chain: from
`CaseFolding.txt` through tables and search to what `towfc()` writes.

Two things are outside the first chain: the exception for digraphs, which are not
`Settled` for uppering and where two laces begin, and the Turkish exception. The
run `unicode17` checks the first on the headers of the repository. `Header` takes
`pairs[]` and `pairl[]` for one table; that each of them has its own index in order
is a part of `LookupReady`.

For `--table`, `TablesAnswerFile` is about the tables and their lookup together.

### Only model-checked

* Liveness: that calls return (`CallReturns`, `CallsReturn`) and the temporal
  halves of the refinements.
* That the tables of Unicode 17 settle (`MappingsSettle`, `FoldingsSettle`) is
  evaluated by TLC when it starts the run `unicode17`.
* The properties of the runs that expect a violation.

## Where code and documentation disagree

* `gen_wctrans:520`: `add_pair()` calls `simulate()` with the directions
  swapped, and leaves out pairs whose answers the header does not give. It takes
  another letter with the same distance the other way (`LeftOutOpposed`); no letter
  of Unicode 17 meets one, and run on the data of Unicode 14, the generator leaves
  no pair out.
* `gen_wctrans:591`: the compiled lookups answer every member of a lace by
  distance. `CompiledAnswer` says that they are right everywhere else, up to the
  choice among pairs with the same key.
* `gen_wctrans:915`: code points that fold to themselves but have a lowercase
  are lowered, which turns Cherokee folding around.
* `towfc.h:227`: `iswfc()` answers 0 for lowercase letters that `towfc()`
  replaces.
* `gen_wctrans:1617`: the wrappers of `--table` pass 1 for uppercase to a lookup
  whose comment at line 1583, and whose tables, take 1 for lowercase.

* `gen_wctrans:2522`: `in_map_range()` is called without the code point, so that
  unrolled code never gets the digraph exception. With the default widths no
  unrolled lace needs it. With narrower fields one does: a header made with
  `--bits 16:10:4 --unroll 60` answers 0x1CB for `towupper(0x1CC)`. `UnrollOK`
  excludes these, so that this one is not a result of a run.

Two more things are as the code has them and stated by the properties. The help
at `gen_wctrans:108` offers `LOCALE_TR` with `--musl`, but the wrappers (3270)
answer ASCII before the lookup sees it, so that `towlower('I')` is never Turkish:
`ImplementsWrapped` says so. With a 16-bit `wchar_t` `iswfc()` counts 1 for a
letter for which `towfc()` writes a surrogate pair: `CountSuffices` allows just
that one unit more. A letter with two mappings keeps one rule in `--table` mode:
`Promised` in `Casemap` says which.

## Not modelled

Bit-fields and unrolled searches inside the bisecting and compiled lookups. The
separate search of `pairl[]` in the bisecting lookups and its unrolled form, as
the table is empty in Unicode 17. An unrolled `casemapsl[]` whose lace meets a
digraph (`UnrollOK`, see above). What a pair of `pairs[]`
means whose lowercase exceeds `unsigned short`: `gen_wctrans:2211` cuts it short, and
`Truncated` excludes files that have one, as Unicode has none. Options, downloads,
`--skip` and formatting are I/O and layout. Tests, benchmarks, the
vendored lookups they compare with, and the build are not part of the program.

## Plan

1. Bit-fields in the bisecting lookups; the search of `pairl[]`.
