# Verification of the UDX dictionary library

UDX is a C library for read-only dictionary files. A writer builds a file of one
or more databases; a reader opens the file and looks keys up, matches prefixes
and iterates. This directory holds TLA+ models of the library, the TLC
configurations that check them and proofs checked by TLAPS.

## 1. The system

| Part | Source | State | Operations |
|---|---|---|---|
| chunk writer | `udx_chunk.c` | buffer, table of chunk positions, chunk index | add a block, save a chunk, finish |
| chunk reader | `udx_chunk.c` | chunk table, cache of one chunk | create, get a block, destroy |
| index builder | `udx_writer.c` | iterator over the keys, separators, position of the last leaf's link | recursive build of the B+ tree |
| index search | `udx_reader.c` | the root node | lookup, prefix match |
| database iterator | `udx_reader.c` | a leaf, an index in it, the next leaf | create, next, destroy |
| writer and builder | `udx_writer.c` | parallel arrays of database offsets and names, "active" flag, FILE position | open, create a builder, add, finalize with rollback, close |
| file reader, databases | `udx_reader.c` | table of databases, header and root of a database | open, close, fetch values |
| keys container | `udx_keys.c` | B-tree of folded keys with their items | add, count, iterate |
| in-memory B-tree | `udx_btree.c` | nodes, item count | set, get, iterate |
| helpers | `udx_utils.c`, `udx_types*` | none | folding, arrays, serialization |

How they interact: a **builder** sends values to the **chunk writer**, which
returns addresses, and keys with addresses to the **keys container**. Finalizing
finishes the chunk table, walks the keys once to write the **index**, writes the
database header back to the place reserved for it and lists the database in the
**writer**, which writes the list when it is closed. A **reader** reads the list;
opening a **database** loads its root node and creates a **chunk reader**; a
lookup goes through the index to addresses and through the chunk reader to
values. All parts of a reader share one FILE and its position.

What is hard: every ftell, fseek, fread, fwrite, malloc, compression can fail at
any place, the caller may go on afterwards (repeat an add, create another builder,
call next again), and the state the failure left must still be sound. The library
has no threads of its own and declares itself not thread-safe: concurrency is
limited to a process that dies between two writes and to stdio's delayed writes.
There are no messages or timeouts.

What makes each part correct:

- *chunks*: each address leads to its block's bytes for good; the cache never
  serves another chunk's bytes.
- *index*: leaves hold all keys in order; separators direct each search to the
  right child; answers equal those of a search in the sorted list of keys.
- *iterator*: every key once, in order, whatever fails in between.
- *file*: a finalized database is never overwritten; a file is accepted only
  when it holds all of them, and what is opened by a name was finalized under it,
  unless a read failed where the code does not ask whether one did.
- *search of a node*: it ends, at the child or entry that the order of the keys
  demands, although it jumps into the middle of strings.
- *keys*: an add that fails changes nothing, one that succeeds adds one item to
  its folded key; the tree stays balanced and ordered and leaks no node; the walk
  of finalize delivers what the header counts.

## 2. Modules

```
ChunkFile <- ChunkWriter, ChunkReader <- ChunkStore <- MCChunkStore
                                             |    \<- ChunkStoreProofs
                                  BlockStore (abstract; Implements)
IndexFile <- IndexBuild, IndexRead <- IndexTree <- MCIndexTree
                                             \<- IndexBuildProofs <- IndexTreeProofs
                                                                    \<- IndexShapeProofs
UdxFile   <- UdxWriter, UdxReader  <- UdxStore  <- MCUdxStore
                                        |     \<- UdxStoreProofs <- DictionaryProofs
                                  Dictionary (abstract; Implements)
NodeSearch <- MCNodeSearch
      \<- NodeSearchProofs
BTree <- Keys <- MCKeys
          |  \<- KeysProofs
        KeyMap (abstract; Implements)
```

Each of the first three families has a module of what lies in the file, one for the side that writes,
one for the side that reads, and one that composes them and states the
properties. Definitions that begin with a comment "Mutant:" are never used by the
specifications: they are plausible errors which, put in place of the definition
that follows, break a property; `PROJECT.json` lists them.

### Chunk storage

`writer` and `reader` are the structs of `udx_chunk.c`. `AddBlock` and `Finish` are
`udx_chunk_writer_add_block` and `udx_chunk_writer_finish`, with
`chunk_writer_save_current` as the set of its outcomes `SaveResults`; `GetBlock` is
`udx_chunk_reader_get_block` over the outcomes `LoadResults` of
`chunk_reader_load_chunk`. The file is a sequence of items, and a position is an
item's index; bytes are values and an inflated chunk is its bytes. The address
arithmetic is that of the code with its widths as constants. `BlockStore` states
what a user relies on: unique addresses, and a get that returns the block or NULL;
`Implements` is the refinement.

### Index

`IndexBuild` turns the recursion of `build_bptree_node` into the variable `stack`, a
frame for each inner node under construction; `BuildLeaf`, `OpenNode`, `NextChild`,
`CloseNode`, `BuildDone` are its stretches between calls, and `BuildFails` stands for
every return of 0. `IndexRead` runs a lookup or prefix match in the steps of its
code (`Descend`, `SearchLeaf`, `EnterLeaf`, `ScanEntry`, `ScanLeaf`), and an
iterator between them. A folded key is its rank in strcmp order, and the keys that
have a given prefix are an interval of ranks (`PrefixEnd`). Binary searches are taken
by what they return. The items behind a key are left out, but for the size of a
leaf (`Weight`), which the reader limits. `fault` marks an answer given after a
failure. The key lists are what the container delivers: not empty and strictly
ascending (`KeysAssumption`; `finalize` refuses an empty database, and the order is
what `keys` checks of the container).

The code's `max_elements` is at least 64; the model has the constant
`MaxElements`, and nothing in the build or the search depends on its being large.

### Search of a node

`NodeSearch` goes through the loops that `IndexRead` (and `BTree`) take as one step:
`find_child_offset` jumps to the middle of the byte area of the separators, walks
back to the NUL before it, compares there, and in the end counts the strings up to
an address (`Jump`, `StepBack`, `CompareKey`, `Count`, `CountEnd`); `search_leaf_node`
and `btree_node_bsearch` halve a window of entries (`ProbeEntry`). A string is its
rank, and where the next begins is known only by the NULs, as in the code; a
comparison that began inside of a string could have any result. The answers are
compared with the numbers of keys not above, or below, the key: the definitions
`FindChild` and `LowerBound` of `IndexRead`, `Place` of `BTree`.

### Keys

`BTree` is the part of `udx_btree.c` that the library calls, in small steps. A node is
a position in `nodes`, everything allocated so far, and `live` the set of those not
freed. `call` is the call under way; its `path` is the frames of `btree_node_set`'s
recursion, or the loop of `btree_get0`. `Descend` goes down by one node;
`LeafMustSplit` and `BranchMustSplit` return `BTREE_MUST_SPLIT`; `SplitBelow` splits a
child and searches its parent again; `SplitRoot` is the code behind the label `set`
with its jump back; `FirstRoot` and `InsertIntoLeaf` end an insertion, and
`OutOfMemory` ends it at any of its allocations, with the splits that were done
left in the tree. The iterator pushes and pops one frame of its stack in each of
`IterBegin`, `IterDown`, `IterUp`.

`Keys` is `udx_keys.c` over that tree: `Add` with the limit of `total_items` and its
refusals, then `AddToEntry` for a key that is there, through the pointer
`udx_btree_get_mut` returns, or `SetBegins` and `SetReturns` around the insertion of a
new entry; then the walk that finalize makes, entry by entry, which refuses an entry
of too many items. `KeyMap` is what `udx_keys.h` promises, and `Entries`, what hangs in
the tree, is its `map`.

### File

The file is a sequence of cells, `file` as written and `disk` as far as it has
reached the disk: since the results of `fflush` and `fclose` are ignored, `disk` may
stay behind at any earlier prefix of the writes, whatever the calls return. Each
database is a header cell, zeros until it is finalized, and data cells of the
database's number, so an overwritten database shows. `BuilderCreate` and
`BuilderFinalize` contain every way to fail with its rollback, a failing seek of
the rollback included. `Crash` ends the process before, after or within a call.
`udx_reader_open` that fails halfway frees pointers it never set: that undefined
behaviour is the status `"UNDEFINED"`. A failing read inside a name, though, looks to it
like the end of the name (`fgetc` returns EOF, and nobody asks `ferror`), and the call
goes on: the field `whole` of `reader`, a history variable, is the number of entries
read before that, and `ReadEntry` gives what may be read: those entries as they are, the
next at its place with a part of its name (`Cut`), and behind it any name with a number
that only by chance is where a header begins (`Misread`), since reading goes on from the
middle of an entry. `Load` opens a database without a name (`NULL`) when the name cannot
be copied, and without a chunk reader when none can be created. A header written in part fails its checksum
(`Torn`); the main header's two fields are taken to be written whole or not at all.

`Dictionary` is the catalogue a user relies on: databases are finalized one by one
under different names, what a reader lists is all of them in that order, and a
database opened is the first of the list with its name. The two failures that go unseen
are part of it, as the code does not keep more: its variable `whole` says how many
entries of the list can be relied on, all of them when no read failed inside a name; the
list has the right length in any case, and the entry after those is the right
database. `Implements` maps the history `final` to it, and the reader's table by
what lies at its offsets on the disk.

## 3. Runs

| Run | Shows |
|---|---|
| `chunk_store` | type, soundness of the writer, resolution and disjointness of addresses, cache coherence, `Implements` under all failures |
| `chunk_dedicated` | violation: large blocks share a chunk |
| `index_tree` | the tree at every step of its construction; answers of lookups, prefix matches, iterators; that calls return |
| `index_lookup`, `index_faults`, `index_large` | violations, see below |
| `udx_store` | the writer's list, finalized databases intact, only complete files accepted, listed and opened under their names up to a read error inside a name, `Implements` the catalogue |
| `node_search` | the searches in a node: windows on key bounds, the right answer, and that they end |
| `keys` | the tree's shape, counts and nodes after every failure, the walk, `Implements` the map |
| `udx_close`, `udx_open`, `udx_whole` | violations, see below |

Bounds, and why they do:

- *chunks*: chunks of two bytes; blocks empty, smaller than, as large as and larger than
  a chunk, six of them added; 32-bit counters that end at four; two torn writes. So a
  chunk fills exactly, overflows by one block, is saved after one or two failures; a
  block is refused because it would overflow the buffer's size; and the offset table, of
  one slot at first, grows twice and is refused its third growth by the save of a
  fifth chunk, in an add or in finish.
- *index*: the seven words of at most two binary digits, which contain prefixes of
  each other, and each of the 127 sorted lists of them. With leaves of at most two
  keys the tree has one to three levels, of uneven depth; the limits are none and two,
  and a result array that starts with one element grows three times.
- *file*: two names, one of which is the other cut short, so that a name that was cut is
  another's; three builders, at most two databases, one optional block or
  metadata cell before the cells of chunk table and index: so a rollback happens
  before, between and behind finalized databases, and its remains are overwritten
  in part.

- *search of a node*: all inner nodes of up to four separators of one to three
  bytes, so that the middle falls on first and last bytes, NULs and between, in
  windows of odd and even size, and nodes of up to nine separators of one byte for
  longer searches; a key at, before and behind each separator.
- *keys*: nodes of at most three items, the least an odd maximum allows that still
  splits into two halves with items. A third level takes ten ascending keys; as all
  orders of ten are too many, behaviours begin empty with six keys in every order,
  or with nine keys, ascending or descending, that are one insertion short of the
  third level, to which odd keys add in any order (`Starts`). Every allocation of every
  call may fail. A second spelling of one key and a third item in an entry that may
  list two (`MaxListed`) reach grouping and the refusal; twelve items reach the limit of
  the total (`MaxTotal`).

Runs that set `CHECK_DEADLOCK FALSE` stop where the program does: all blocks
added and the readers gone, a build that failed, no builders left, a container
destroyed.

**Liveness.** `CallEnds` says that a lookup or a prefix match returns. Its
specification `FairSpec` is weakly fair to the next step of a call under way
(`CallStep`) and to nothing else: the library has no threads, waits for nothing and
calls nobody back, so a call that was made is executed on until it returns. No call is
fair, as a caller owes none, and neither is the success of a read or an allocation, so
a failed `udx_db_iter_next` need not ever succeed. `Termination` says that the searches
in a node end; `NodeSearch` is one loop of one function and weakly fair to its next
turn (`Step`), for the same reason. `CallsEnd` says that an add comes back, however often
it splits and searches again, and that the iterator reaches its next entry; `FairSpec`
of `Keys` is weakly fair to the steps of a call that was made (`CallNext`) and of the
way to an entry (`WalkStep`), not to making a call or a walk, nor to an allocation. The
other specifications assume no fairness.

## 4. Where code and documents differ

Each is a run that TLC finds violated.

1. `index_lookup` (`udx_reader.c:248`): a separator is the greatest key of the left
   subtree, but an equal key is searched to the right. In a database of more than
   64 keys the last key of every leaf but the last is not found by a lookup, nor by
   the prefix match of exactly that prefix. The iterator does deliver it. `index_tree`
   shows that separators are the only keys concerned.
2. `index_faults` (`udx_reader.c:745`, `:731`, `:390`): partial results with `UDX_OK`;
   out of memory is reported as not found.
3. `index_large` (`udx_writer.c:58`): nodes over 1 MB are written, then refused.
4. `chunk_dedicated` (`udx_chunk.c:177`): a block over 64 KB is appended behind what
   is buffered, so it shares its chunk.
5. `udx_close` (`udx_writer.c:469`): `UDX_OK` although `fclose` failed.
6. `udx_open` (`udx_reader.c:1016`): uninitialised pointers are freed.
7. `udx_whole` (`udx_reader.c:541`): a database opened without its values.

Also seen, without a run of its own:

- `udx_reader.c:996`: a read that fails inside a name of the table ends the name. The call
  returns `UDX_OK`, where `udx_reader.h:33` has "UDX_ERR_* on error", with a list in which
  a name is cut and the entries behind it are misread. In `udx_store`, whose abstract
  specification allows for it, a database finalized as `"ab"` is listed and opened as
  `"a"`, even where another was finalized as `"a"`.
- `udx_reader.c:495`: the copy of the name is not tested; `udx_db_open` returns `UDX_OK`
  and `udx_db_get_name` NULL. `udx_store` has it, too.

And: after a very large block, further blocks are refused until
a smaller one fits behind it and starts the flush, since `udx_chunk.c:172` compares
sizes before the flush; `udx_writer_close` accepts a file without databases, which
`udx_reader_open` refuses; `udx_keys_iter_peek` returns the last entry again when the
iterator is at its end, where `udx_keys.h:104` promises NULL; one more
`udx_btree_iter_next` after the end of an iterator would move the index of a frame
below its stack, which `finalize` never asks for (`IterFits`).

## 5. Proofs

`ChunkStoreProofs` proves for all values of the constants that satisfy
`ChunkAssumption`, `BlocksAssumption` and `ReadAssumption` what `chunk_store` checks on
a small instance: `TypeCorrect`, `WriterIsSound`, `AddressesAlwaysResolve`,
`BlocksNeverOverlap`, `ReadersUseFinalTable`, `CacheIsCoherent`, and
`ImplementsBlockStore`. The assumptions say that a chunk is no larger than the range
of an offset, and an offset's range no larger than 32 bits.

The inductive invariant `IInv` is the conjunction of the properties themselves: the
resolution of addresses needs that the position table, the index and the chunks
agree (`WriterSound`); the cache is coherent because the reader works from the final
table (`ReaderTable`), and no reader exists while the writer is open. One lemma per
outcome of a save and of a load carries a block's resolution over it; each action
has its preservation lemma. `AddressRoundTrip` is the arithmetic of addresses,
proved from `MultiplesApart` and `DivModUnique`. `WriterIsSound` also shows that the
test of the chunk index in `udx_chunk.c:135` never fails: the position table, limited
to 2^32 - 1 entries, refuses first.

`UdxStoreProofs` proves two invariants that `udx_store` checks, for any names, any number
of databases, builders and blocks.

- `TableOfFinalsHolds` follows from `TableInv`: while the writer is open it is
  either `Idle`, its lists being those of the finalized databases, or `Busy`, with
  one more entry, the builder's. The invariant is needed because a rollback only
  says that the last element of each list goes; that it is the builder's own is a
  fact about the earlier steps.
- `FinalsIntactHolds` follows from `FileInv`, which adds `Layout`: positions leave no
  gap, the cells behind the active builder's header are its own, and every finalized
  database ends before a limit, the builder's header or else the position. Every
  call writes at or behind the limit (`AfterConsecutive`, `AfterFinalizing`: what a
  sequence of writes leaves of a file), and no call, failed seeks included, leaves
  the position before it (`NoBuilderAfter`, `PartLeft`).

`DictionaryProofs` proves the rest of what `udx_store` checks: `AcceptedFilesAreComplete`,
`OpenedAsNamed`, `TypesAreCorrect` and `ImplementsDictionary`. `NameAssumption` says only
that names, and what is left of them when cut, are strings, and NULL is none. The argument: as long as the writer lives, the main header
names no table, so the disk, a prefix of the writes, is not accepted; the writes of a
close put the table behind all databases and the header's pointer after it, so
that a prefix of them either still has no table or has all of it, and every entry
leads to a header that `FileInv` keeps intact. From then on nothing is written. The
reader's list (`Listed`) agrees with the finalized databases up to the entry whose name
a failing read cut, at whatever entry that happens (`EntryRead`, `OpenReads`); the search
for a name stops at the first entry that has it (`FirstFound`), which need not be the only
one once names are cut; and what is loaded is what lies at that entry's offset, the
finalized database if the entry was read before the failure (`InvIsNamed`).

`NodeSearchProofs` proves for nodes and keys of any size and number (`SearchAssumption`:
keys ascend, each takes a byte at least) what `node_search` checks, but for its
termination. The invariant behind `WindowsOnKeys` says between which two key starts
the window lies, and during a step back that the position has not passed the start
of the key under the middle; behind `ChildrenAreRight` and `WalksMeetStop`, that the
walk stands at the start of key `entry` + 1 and `stop` is a start not before it.

`IndexBuildProofs`, `IndexTreeProofs` and `IndexShapeProofs` prove for every list of
ascending keys, every size of the leaves and every failure (`IndexAssumption`,
`KeysAssumption`, `ReadAssumption`) all that `index_tree` checks but `CallEnds`. What
lies below a node is defined by recursion over the tree; the proofs use the interval of
the sorted keys in its place. The invariant `BuildInv` says that there are numbers
`lo[p]` and `hi[p]` for each node, and `st[i]` for each frame of the stack, such that a
leaf holds the keys behind `lo[p]` up to `hi[p]`, the children of an inner node stand in
a `Row` whose ends meet, each separator is the last key of the child on its left, and
the call being made is for the keys from `From` to `To`.

- `SplitsAreExact`: no call is made for an empty leaf, since consecutive boundaries of
  a node of more than `MaxElements` keys differ (`BoundaryGrows`), and the last child
  takes the rest.
- `LookupsAnswer`: `find_child_offset` stays on the interval that holds the key
  (`ChildFound`), as long as the key is no separator; `search_leaf_node` ends at the
  number of entries below the key because these come first (`CountOfInitial`).
- `IteratorsExact`: an iterator in leaf `p` at entry `at` has delivered `lo[p] + at - 1`
  keys, and a link leads to the leaf that begins where this one ends (`LinkLeads`);
  a call that fails changes neither sum.
- `TypeCorrect` follows from the same invariant: the way down meets nodes only, and
  the scan along the links leaves only.

The properties of the tree's shape are stated with recursive functions over the nodes
or the keys (`Content`, `Depth`, `Listed`, `Matching`). What such a function is can be
proved where a function is known that solves its equation: a function that looks back
only (at the children of a node, which come before it; at the number before) has no
other solution, by the induction `UpTo` over positions.

- `TreesSound`: `Content` of a node is the interval between its numbers (`ContentIs`,
  with `Flattened` for the concatenation of the children), so the separators are what
  they should be and the root has all keys.
- `LeavesAreChained` needs `ChainInv`: the numbers `en[p]` of keys in the leaves up to
  each node, and the links as `build_leaf_node` left them.
- `HeightsAreDepth` needs `HeightInv`: every node has a number that is 1 at a leaf and
  one more than the greatest of its children's above, what `build_bptree_node` returned
  is that of the node it wrote, and a frame's `height` the greatest so far.
- `PrefixMatchesAnswer` needs `MatchInv`. For a prefix let the match begin behind key
  number `f` and end with number `u` (`Hits`; where the prefix itself is a separator, `f`
  leaves it out). On its way down a match stays at a node with `lo[p] <= f`, and
  `f < hi[p]` unless the node is the last (`NearKept`); at the leaf the search ends at
  `f`, or nothing matches (`LeafEntered`): a prefix that is a separator ends a leaf
  (`SeparatorIs`, `EndsApart`), and not this one, which reaches behind `f`. The scan
  has then gone behind some number of keys between `f` and `u` and has collected entries
  from there in order, all of them as long as nothing failed (`Scanned`), and an entry
  has the prefix exactly if `u` is not reached (`EntryBelongs`).

`KeysProofs` proves for every odd node size from three on, any keys, spellings and
folding and any order of failures (`BTreeAssumption`, `KeysAssumption`) all that `keys`
checks but `CallsEnd`. The properties see the tree from the root down, level by level;
a split, an insertion or a failure happens in the middle. So the inductive
invariant `TreeInv` says it node by node: there are numbers `lv[p]`, 1 at a leaf, and
keys `lo[p]` and `hi[p]`, such that a node's keys ascend between the two, each child is
one level lower and lies between the keys on its sides, and nodes of one level do
not overlap (`Shape`); that no node is too small or too large (`Sizes`); and where a
call stands: each node of its path is the child of the one before at the place of the
key (`OnPath`). `Calls` adds that a node that returned `BTREE_MUST_SPLIT` is full and
that no call is under way once the walk began; `Closed`, that a container that is
done with is empty.

- `TreeStaysSound`: that `tree.height` is the depth of all leaves follows from levels
  that fall by one at each step (`LevelsOf`). A split gives new numbers to its two
  halves and keeps those of all others; the half that is new is a leaf or
  takes children that hung in the old one.
- `NothingLeaks`: what hangs in the tree is what the levels reach, by induction over
  the levels; `live` gains exactly the nodes a split adds.
- `CountsAlwaysAgree`: the two counts are cardinalities of sets of entries and of items.
  A split keeps the set, an insertion adds an entry whose key no node has: the search
  ended in a leaf between whose numbers the key lies, and no other node has an
  entry there.
- `StackFits` and `WalkIsExact` need `WalkInv`: the frames of the stack are nodes on a way
  down, each at the child the next one is, so a stack is no longer than the tree is
  high; the entries delivered are those below the place the stack has come to,
  in order. What ends the walk is their number, which equals the header's because
  the tree has not changed since the header was made.
- `KeysImplementMap`: the steps within a call map to stutters, since they change neither
  entries nor the result; `AddToEntry` and `SetReturns` map to an add; the end of the walk
  to the delivery, with the order from `WalkInv`.

Only model-checked: liveness (`CallEnds`, `CallsEnd`, `Termination`), which is out of the
prover's reach, and the disagreements of section 4.

## 6. Not modelled

What the library never calls of `udx_btree.c`: deletion, pop, load, clones with copy
on write, search hints, ascend, descend, seek, prev and last. Byte layout, the
characters of folding, and text; what zlib does beyond being inverted or failing;
reads of corrupted or foreign files; more than one database open on a reader at a
time, and several threads. A builder used after its writer was closed is undefined
behaviour; the model ends it with its writer.

## 7. Plan

1. Chunk storage, its refinement and proofs. *Done.*
2. Index building and reading; the byte-level searches. *Done.*
3. The file's life with failures and crashes, the catalogue it implements. *Done.*
4. Keys container and B-tree insertion against an ordered map. *Done.*
5. Proofs of the file and of the searches in a node. *Done.*
6. Proofs of the index: the builder's splits, lookups and iterators; the tree's shape
   and the prefix matches. *Done.*
7. Proofs of the keys container: shape, counts, walk, the map it implements. *Done.*
8. Several databases open on one reader, sharing its FILE position.
