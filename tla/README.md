# A verification of ropey

ropey is a Rust library for editing large texts. A `Rope` keeps a text in the
leaves of a B-tree whose nodes are reference counted and shared between clones;
every internal node caches, for each of its children, how many bytes, chars,
UTF-16 surrogates and line breaks are below it. This directory holds TLA+ models
of it, configurations that check them with TLC, and proofs for TLAPS.

Paths below are relative to the repository; `src/` is the crate's source.

## The system

| component | source | state | operations |
|---|---|---|---|
| text summaries | `src/tree/text_info.rs`, `src/str_utils.rs` | none | count a text, add and subtract summaries |
| break finding | `src/crlf.rs` | none | find a byte where a text may be cut: not in a code point, not in a CRLF |
| leaf text | `src/tree/node_text.rs` | a small string | insert, remove, split in half, mend the seam of two texts |
| child array, storage | `src/tree/node_children.rs`, `mod inner` | two arrays of `MaybeUninit` slots and a length | push, pop, insert, remove, clone, drop |
| child array, methods | `src/tree/node_children.rs` | the array above | search by index, split, merge or even out two children, compact leaves |
| tree | `src/tree/node.rs` | the tree below a node | edit a chunk, remove a range, graft, split, repair an edge or a seam |
| rope | `src/rope.rs` | a root node | build, read, insert, remove, split off, append, clone, shrink; conversions, slices; write |
| builder | `src/rope_builder.rs` | the right edge of a tree, a text buffer | append a chunk, finish |
| iterators | `src/iter.rs` | a stack of positions in a tree | next, prev, reverse; over chunks, bytes, chars, lines |
| slices | `src/slice.rs` | a node and a range, or a small string | sub-slices, conversions, comparison, hash |
| errors | `src/lib.rs` | none | formatting, range bounds |

A method of `Rope` calls the tree operations on its root through
`Arc::make_mut`; these recurse, call the child array's methods on the way back
up, and the text operations at the leaves. The builder makes trees for
`from_str` and for large insertions. Iterators and slices only read.

Nothing is persisted. A call runs in one thread, but a `Rope` can be sent to
another thread and its clones share its nodes: every access to a reference count
interleaves with those of other threads. The rest of what is hard is sequential.
Cached infos are updated by differences, with corrections for CRLF pairs that an
edit joins or cuts. The tree's invariants are broken and repaired within an
operation, by several passes that rely on char and byte positions taken before
the earlier ones. The effect of a call depends on how the text happens to be cut
into leaves, which only a long sequence of calls determines. And the child array
does its own memory management.

`design/design.md` lists what has to hold between calls: leaves at one depth,
nodes populated, infos accurate, no empty leaf, no CRLF across leaves, leaves
of a moderate size. Those are the invariants here, and what they are for is the
property behind them: an edit of a rope is that edit of its text.

## Modules

| module | models | on top of |
|---|---|---|
| `RopeText` | bytes, `TextInfo`, `crlf.rs`, `node_text.rs` | |
| `NodeChildren` | the child array as a value: searches, splits, merges, compaction | `RopeText` |
| `NodeEdits` | one node's part in the edits of `node.rs`: a leaf, with the closures that `insert_internal` gives it, and an internal node once its child is done | `NodeChildren` |
| `TreePaths` | the operations of `node.rs` along one path of a tree: `edit_chunk_at_char`, `append_at_depth`, `prepend_at_depth`, `split` | `NodeEdits` |
| `Tree` | the recursive operations of `node.rs` | `TreePaths` |
| `Builder` | the operators of `RopeBuilder` on a builder value | `Tree` |
| `RopeOps` | the editing methods of `rope.rs` on root nodes | `RopeSlice` |
| `Rope` | a program with a few ropes that calls those methods: the state machine, its invariants | `RopeOps` |
| `AbstractRope` | what the documentation promises: a rope is a sequence of chars | |
| `MCRope`, `MCRopeEdits` | instances of `Rope` for TLC | `Rope` |
| `RopeSlice` | `slice.rs`: a slice as a range of a node or a small text, how it is made from a rope; the lookups of `node.rs` | `Builder` |
| `Chunks` | the `Chunks` iterator of `iter.rs`: how it is made, `next_impl`, `prev_impl` | `RopeSlice` |
| `BytesChars` | the `Bytes` and `Chars` iterators | `Chunks` |
| `Lines` | the `Lines` iterator and the line helpers of `str_utils.rs` | `Chunks` |
| `Iteration` | a program that iterates over a rope or a slice: the state machine, its properties | `BytesChars`, `Lines` |
| `Cursor` | what the documentation promises: an iterator is a cursor over a sequence of items | |
| `MCIteration` | instances of `Iteration` for TLC | `Iteration` |
| `FromReader` | `from_reader` up to the builder, and a program that feeds a builder chunks: a state machine, its properties | `RopeText` |
| `Streams` | the rope that is built of it, and `write_to` | `Chunks`, `FromReader` |
| `MCStreams` | instances of `Streams` for TLC | `Streams` |
| `Lookups` | conversions of indices, chunks and items by index, of ropes and slices | `Lines` |
| `Slicing` | `get_slice`, `get_byte_slice`, `get_line`, bounds and errors | `Lookups` |
| `Comparing` | equality, order and hash of slices | `Chunks` |
| `Queries` | a program that slices a rope and its slices and looks things up: the state machine, its properties | `Slicing`, `Comparing` |
| `TextView` | what the documentation promises: a slice is a part of a sequence of chars | |
| `MCQueries` | instances of `Queries` for TLC | `Queries` |
| `Sharing` | threads whose ropes share nodes: `Arc`, `make_mut`, copies, destructors | |
| `Clones` | what the documentation promises: each clone is a value of its own | |
| `MCSharing` | an instance for TLC | `Sharing` |
| `NodeChildrenInner` | the two arrays of slots and who owns which reference | |
| `ChildSeq` | what they promise: a vector of items | |
| `MCNodeChildrenInner` | an instance for TLC | `NodeChildrenInner` |

The proofs are in modules of their own.

| module | proves | about |
|---|---|---|
| `NodeChildrenInner_proofs` | the ownership of references; an array is a vector of items | `NodeChildrenInner`, `ChildSeq` |
| `Sharing_proofs` | counts, exclusion, no leak; a clone is a value | `Sharing`, `Clones` |
| `Induction` | induction and recursion on natural numbers, with sets and functions | |
| `RopeText_proofs` | break finding, splits, seams, sums of summaries | `RopeText` |
| `NodeEdits_proofs` | edits of a leaf | `NodeEdits` |
| `NodeChildren_proofs` | searches, splits and merges of children, the summary of an edited node | `NodeChildren`, `NodeEdits` |
| `TreePaths_proofs` | edits, grafts and splits of trees of any height; compaction | `TreePaths` |
| `FromReader_proofs` | nothing that is read is lost, and what is returned is right | `FromReader` |

### The rope

The state of `Rope` is `ropes`, the root node of each rope variable, `call`,
the last call with its arguments, and `program`, the texts that are inserted and
a bound, chosen once. A node is a record, a leaf with a
text or an internal node with a sequence of children, each with its cached
info. One action is one call of a public method, from its argument checks to
the last `pull_up_singular_nodes`: the library is sequential and a call is not
interrupted, so nothing can be seen in between.

A text is a sequence of bytes, and a byte is one of six symbols: an ASCII
letter, CR, LF, the first byte of a two-byte and of a four-byte char, and a
continuation byte. This is what the code distinguishes. Chars of four bytes
stand for those that take a UTF-16 surrogate pair. The line breaks other than
CR and LF that the `unicode_lines` feature knows are single chars that nothing
treats specially, and are left out; `CrLines` says whether a CR alone is a
break, and is true for the features `cr_lines` and `unicode_lines`.

The recursive methods of `node.rs` return the new node along with the method's
results. Those that go down one path of the tree and come back up it are in
`TreePaths`: the arguments of the calls are a function on the levels gone down,
their results one on the levels come back up. This is what proofs can be about, as
the prover takes no module with recursive operators; `Tree` has those, for the
methods that may call themselves for two children or again for the same, as
`remove_char_range`, `zip_fix_left` and `fix_tree_seam` do. `NodeEdits` has
what is done at one node. Where the code panics, no arm of a `CASE` applies or an
`Assert` fails, so that a run that ends shows it is not reached. Indices
into children are 1-based in the models and 0-based in the code.

`AbstractRope` says what each call does to the sequence of chars, for exactly
the arguments of the call. `ImplementsAbstract` is that `Rope` implements it,
with the chars of a rope's leaves as the refinement mapping.

### The iterators

The state of `Iteration` is one iterator and what it iterates over. `Init`
takes a text, makes the rope with the builder, takes all of it or any slice, by
chars or by bytes, and makes the iterator at any index that the methods
`bytes_at`, `chars_at`, `lines_at`, `chunks_at_byte`, `chunks_at_char` and
`chunks_at_line_break` accept. An action is one call: `NextItem`, `PrevItem`,
`ReverseIt`. The view says what is iterated: a `rope`, which is always a range
of its root, also when that is a leaf; a `slice` that spans leaves; a
`light_slice` inside one leaf; a `byte_slice`.

`Bytes` and `Chars` are the same code, except for the width of a step and for
their construction, and so one module with a parameter `unit`. Where Rust
matches on an enum, an iterator record has the field `full`. A stack entry's
child position is 1-based, so that the code's `0` is `1` and its `child_count`
is one more than the last. The loops over leaves of `Lines` are recursive
operators that carry what the loop keeps: a `Span`, the node that is the
`shared_parent`, the position in it and the length seen.

`Cursor` has the items, what was asked for as `start`, and the position. The
items are computed from the text alone, not from the tree (for chunks, from the
leaves and the range). `ImplementsCursor` maps each iterator to a position by
its own counters: `remaining`, `line_idx`, `byte_idx`.

### The child array

`NodeChildrenInner` is the module the crate calls the unsafe guts of
`NodeChildren`. Its state is that of several arrays, the slots of both of its
parts and the length, along with what the calling code holds (`hand`) and
which references exist (`alive`). A reference is a pair of a node and an
identity, so that `Arc::clone` makes a different reference to the same node,
while `ptr::copy` and `ptr::read` copy the same reference. Slots past the
length keep what was last in them, as in the code. An action is one call;
failed asserts are guards. `Edit` is what the safe code does with the slices
that the accessors return: it updates an info and calls `make_mut` on a node.

### Streams

`FromReader` has two beginnings. In one, the program calls `from_reader`: a `Read`
is a round of its loop, and the reader returns any number of bytes that there is
room for, none only at the end of the stream or if the buffer has no room; a
`ReadFails` may come instead. In the other, it feeds a `RopeBuilder` with any
chunks of a text, as `FromIterator` does. Both end with what was appended to the
builder, chunk by chunk (`appended`).

`Streams` adds the rope, and `write_to`, which goes through the rope's chunks and
gives each to a writer, which may fail after any part of it. What is in the builder
is not a variable: it is what appending the chunks so far makes of a new one. A
step of `Streams` is one of `FromReader`, or leaves its variables (`intake`) alone.

Bytes that come from a reader may be any: a stream may break off a char, or have
a continuation byte where none belongs. `ValidUpTo` is what `std::str::from_utf8`
says of it.

### Queries

The state of `Queries` is a rope and what is in view, the rope or a slice. The
actions are the methods that make a slice, `slice`, `byte_slice` and `line`,
with bounds of all three kinds up to one past the length, and their errors. What
is only looked up has no action, since it changes nothing: the invariants ask
for every index that a method accepts, and the first that it does not. The state
space is therefore all the slices that can be reached, with the node that each
of them holds on to, and that node matters: the same text can be a range of the
root, of a node below it, or a light slice.

`TextView` is the sequence of chars in view and what a slice by chars, bytes or
lines makes of it, written on chars alone. `ImplementsView` maps a slice to the
chars of its text.

### Sharing

`Sharing` leaves the texts alone (a leaf holds one of a few values) and looks at
the nodes as memory: who refers to which, how many references each counts, and
who is allowed to write. A reference is in a slot, which is the root of a thread's
rope, a local variable, or a child slot of a node. A step is one access to a
count with the pointer move that belongs to it. So `make_mut` is several:
`InPlace` when the count is one; otherwise `StartCopy` allocates, `CopyChild`
clones one reference after the other as `NodeChildrenInternal::clone` does, and
`EndCopy` puts the copy in the slot and releases the original. A release that
takes a count to zero makes the thread destroy the node, child by child
(`dying` is its stack of destructors). `pull_up_singular_nodes` is three steps.

An edit is not one of those of `Rope`: between `StartEdit` and `EndEdit` a thread
may do, in any order, each of the things that the tree operations do to nodes
they have from `make_mut`: write a leaf, make a node, move a child, remove one,
graft another rope's root, put a new root on top. This allows more than the code
does, and so what holds of it holds of the code. In one thing it must not
allow more: the code removes a node that has lost its last child before it is done
with the node above, and so no inner node without children is ever in a tree that is
shared. Hence `RemoveChild` and `EndEdit` ask that the lower nodes be `Complete`, so
that every slice has a text. `owned` is the set of nodes that
a thread holds a `&mut` to. A slice is a `chain` of plain references from the
root; a rope is not edited or dropped while it is borrowed, which is the borrow
checker's work and is taken as a guard. A rope is shared by cloning its root, or
by `Rope::from` of a slice, which clones a node below the root; the clone goes
to another thread.

`Clones` has the value of each thread's rope as a sequence of pieces, and says who
may change it, only its own thread and only while it edits, and what it may become:
a new text; a contiguous part of the text that it is made from; in an edit, pieces
that were there already or that this thread writes; with a graft, the other rope's
pieces too, which is then gone.

## Runs

Every passing run explores all its states; none of them is a sample.

| run | instance | shows |
|---|---|---|
| `RopeSequences` | one rope, every sequence of edits, by three programs: ASCII, at most 14 bytes; LFs and four-byte chars, at most 11; CRs, LFs and CRLFs, at most 6 | leaves stay at one depth, and no node but the root has too few children; infos are exact, no CRLF is cut; the LFs pushed onto full leaves and the chars that cannot be divided never add up to more than one char; each call does what it says |
| `RopeNoCrLines` | CRs and LFs, at most 5 bytes, without CR line breaks | the other set of line break corrections |
| `RopeEdits` | ropes of three levels: two edits in place of a text with every line break at every offset, and of four-byte chars between CRs and LFs; four cuts, joins and clones of two ropes; a rope made of each slice, edited or sliced again | the same on trees with inner nodes below the root, with splices, when leaves hold one char and mending empties them, when trees of different depths are joined |
| `NodeChildrenInner` | two arrays of three slots, two nodes with two references each | the ownership invariants and the refinement to vectors |
| `Iteration` | bytes, chars, chunks and lines of texts of up to four leaves in two subtrees, every slice, every start, every order of calls | each iterator is a cursor over its items; size hints are exact; the position reported with a `Chunks` is that of its next chunk; the counts of the lines yielded are right |
| `Streams` | every stream of up to three bytes of five kinds, and four longer ones, with every way of cutting it into reads; four texts in every cut into chunks; every failure of the reader and the writer | nothing is lost, doubled or kept back too long; a rope or an error as documented; the builder and the rope have all that was appended, and the tree is well-formed; what was written is a beginning of what was read; both calls return |
| `Sharing` | two threads, six nodes, two levels | counts exact at each step, no double, early or missing free, no write to a node that another thread or a slice can see, and each clone a value |
| `Queries` | six texts of up to three levels, every slice of every slice | a slice is what its bounds say; its counts, conversions, lookups, equality and hash are those of its text |
| `LightLinesCounted` | violation of `LinesCounted` | see below |
| `CutLinesCounted` | violation of `SizeHintExact` | see below |
| `InsertLeftSeam` | violation of `ImplementsAbstract` | see below |
| `CmpOrder` | violation of `OrderByText` | see below |

**Bounds.** `MAX_BYTES = 5`, `MIN_BYTES = 2`, `MAX_CHILDREN = 4` and
`MIN_CHILDREN = 2` are as small as the code's own relations allow
(`MIN_BYTES = MAX_BYTES / 2 - MAX_BYTES / 32`, one char of four bytes must fit
and leave room): the crate's own tests use 9 and 5 for the same reason. With
them, a rope of 14 bytes has up to three levels, a merge may or may not fit,
a node fills after a few edits, and the loops of the repairs run more than
once. `SpliceFactor` is the 6 of `try_insert`; it is 1 where large texts are
spliced. A program is a set of texts to insert and `max_len`, the bound on the
bytes of a rope; the programs of `RopeEdits` also say of what kind their edits
are, and `edits` bounds how many are made to the ropes they start with. These
runs stop there, which is why they do not check for deadlock. The `call`
variable is not part of a state's identity (`VIEW`): no step depends on it.
For `NodeChildrenInner`, three slots are enough for a
shift to move zero, one and two slots, and two arrays for a clone and its
original to live on while either changes.

The runs of `Iteration` need no bound on the calls: an iterator has finitely
many positions. With `MAX_CHILDREN = 3` four leaves make a tree with two inner
nodes, so that a step may stay at a node, climb, or end; the pieces of the texts
put a line break at the end, the start and the middle of a leaf, or nowhere in
it, and a slice starts and ends at any of these. `Iteration` leaves out what
does not hold (below): `CutEnds` is `FALSE`, `chunks_at_line_break` is not asked
of light slices, the counts of lines are checked of iterators over more than one
leaf, and no empty rope is iterated by lines. `Queries` takes no byte slice that
ends between a CR and its LF, for the same reason (`CutEnds`).

In `Streams` the buffer has ten bytes, twice `MAX_BYTES` as in the code, and two
of the streams are longer than it, one with an invalid byte early and one late.
In `Queries`, three children to a node and five bytes to a leaf make three levels
of at most 18 bytes; `BLOCK_SIZE` is 3, so that chunks are longer and shorter than
a block and leave part of one.

`Sharing` has two threads, since what can go wrong with a count goes wrong between
two who hold a reference, and six nodes, enough for both to copy a root with two
leaves at the same time. Its `VIEW` names the nodes by the place at which they
are first met from the threads. Two states with the same view differ in the
addresses of nodes alone. No step depends on an address, but for the choice of
a free one, and any is as good as another. So each of the two can do what the
other can, up to addresses, and no property speaks of an address. (It is the
symmetry of `Node`, done by hand: six nodes have 720 permutations.) An
instance with three levels and four nodes holds as well.

**Fairness.** Only `Streams` assumes any: weak fairness of `Read` and of
`WriteChunk`. A call that was made runs to its end without waiting for anyone
but its reader or writer, and each read or write is assumed to return. Which of
its outcomes it has is left open, and a program need not make a call. In `Sharing`
no thread waits for another: there is nothing to be starved of, and what it
promises is safety. That calls of `Rope` end is shown by the runs, since TLC
evaluates their recursions to the end.

### What does not hold

- `InsertLeftSeam`: a text with a leading LF that is inserted at the start of a
  leaf is inserted in two edits, the LF going to the end of the leaf before,
  which is looked up again by `char_idx - 1`. If the first edit fills the node,
  the lookup compacts its leaves before it descends, and the leaf found may
  hold more than the one meant: the LF lands further right. This takes leaves
  that are barely over `MIN_BYTES`, and so `MAX_BYTES = 32` in this instance.
- `LightLinesCounted`: `Lines::prev` over a text in one piece gives every line
  one line break, so that a last line without one claims two lines.
- `CutLinesCounted`: a byte slice that ends between a CR and its LF does not
  count that CR as a line break, as a char slice does; `len_lines` and the
  length of `lines()` are one short.
- `CmpOrder`: `cmp` empties the shorter left chunk before it takes that chunk's
  length off the right one (`src/slice.rs:1955`), so that it compares the next
  left chunk with the same bytes again. The order of slices is right when their
  chunks line up, and when they differ in the first.

These have no run of their own:

- `chunks_at_line_break` of a slice in one piece takes the number of its line
  breaks for the end (`src/slice.rs:1700`), so that 0 is the end of a slice with
  none, where the documentation says it is the first chunk. `ImplementsCursor`
  fails when such slices are added to the sources of `Iteration`.
- A leaf can exceed `MAX_BYTES` by an LF without a CRLF at its end or start, the
  only exception that `design/design.md:164` has: the closure at
  `src/rope.rs:471` checks the size for what is left of the text and not for the
  LF that it pushes. `LeafOverfillBounded` holds: the excess does not add up.
- `fix_crlf_seam` can leave an internal node with one child, as a comment on it
  admits (`src/tree/node.rs:739`); this is why `NodesPopulatedNarrow` leaves out
  the texts with four-byte chars.
- `lines_at(1)` of an empty rope starts before its only line (`src/iter.rs:617`):
  `ImplementsCursor` fails for `Sources = {<<>>} \X {"lines"} \X {"rope"}`.
- `Node::depth` returns 0 for a leaf, where its comment says 1
  (`src/tree/node.rs:658`); its only caller compares depths.

## Proofs

Every theorem holds for all values of the constants that satisfy the assumptions of
its module: these are few, named, and evaluated by TLC on the runs.

### The child array's storage

`NodeChildrenInner_proofs`, for any capacity up to 255, any number of arrays, nodes,
references and infos: `TypeOK`, `UsedInitialized`, `OwnedOnce`, `NothingDangles` and
`NothingLeaks` always hold. None of them is inductive alone: that a push does not
give a reference a second owner depends on the item being in nobody else's hands,
that a new reference is owned by nobody depends on owners holding live references
only, and that popped items are proper ones on used slots being initialized. The
inductive invariant `IInv` is the conjunction of all five. `push` and `insert` are
shown to have the same effect on the used slots, that of putting an item at a
position (`PutEffect`), and `pop` and `remove` that of taking one (`TakeEffect`);
the invariant is proved from these effects (`PutInv`, `TakeInv`), by following each
used slot to the one it came from. The assumptions: the capacity is between 1 and
255, as the length is a `u8`, and the content of an unwritten slot is neither a
reference nor an info.

The module also proves that the arrays implement `ChildSeq`: what a call does to
slots and to a length is what it promises of a sequence of items, which the two
effects give for insertions and removals. The invariant is needed, for an item in a
used slot to be one at all.

### Sharing

`Sharing_proofs`, for any finite sets of threads and nodes, any number of children
and any height: `TypeOK`, `CountsExact`, `FreedOnce`, `OwnedAlone`, `ReadersSafe`
and `NothingLeaks`. What the steps of one thread do to another is the heart of it.
The inductive invariant `IInv` says

- `CountsExact`: the count of a node is the number of slots that refer to it. The
  effect of a step on counts is that of one reference added, dropped or moved
  (`AddRef`, `DropRef`, `MoveRef`);
- `Control(t)`: what a thread holds at each point of its calls: a local reference
  just while it copies a node or pulls up a root, a `make_mut` only of a slot that
  it may write, no slice of a rope that it edits;
- `Alone(t)`: a node that the thread may mutate is in one slot, which it may write
  itself;
- `CopyUnderWay(t)`: a copy has one reference, the local one, and those of its
  children that were cloned are the original's: a reference never overwrites
  another;
- `ChainHangs(t)`: the nodes of a slice hang one below the other from the rope's
  root, which is why they are alive without being counted;
- `DyingDead(t)`: what a destructor is at work on has no reference left and is
  destroyed once;
- `Apart(t, u)`: what one thread mutates, no other mutates and no slice has; what it
  destroys, no other destroys;
- `Layered` and `FreeEmpty`: a child is one level lower than its node, and free
  memory refers to nothing.

A thread relies on a few slots only (`Relied`): its own, those of nodes that it
owns, copies or reads. A step of another one that leaves these as they are and makes
no reference to what the thread alone refers to leaves its part of the invariant as
it is (`ThreadFrame`), and each step is shown to be like that (`Undisturbed`).
`NothingLeaks` needs an induction of its own, up the levels of the trees:
`Induction` states induction on natural numbers of sets, as the library's theorem,
which is of operators, cannot be used.

The module also proves `ImplementsClones`. The text of a node is built level by
level, as a function on nodes for each height, and shown to depend on the nodes
below and on nothing else. `DataInv` is what must be added to the invariant: a node
that nobody is changing has children or is a leaf (`Populated`), free memory has no
text (`FreeBlank`), a copy under way has no other text than its original
(`CopiesText`), and what `pull_up_singular_nodes` puts in the root's place is all
the root has (`OnlyChild`). A step changes only what its thread alone refers to
(`Footprint`), so that all other threads keep their texts; for the thread itself,
either no node below its root has another text (a copy, a pull-up, a destructor: a
step that `Clones` does not see), or the thread is in an edit and all pieces are
from where `Clones` says.

The assumptions: nodes and threads are different things, as are texts and `Null`,
which stands for no node and for no text.

### Texts and leaves

`RopeText_proofs` is about `crlf.rs` and the functions of `node_text.rs`, for every
text and every `MAX_BYTES` of at least 5. `nearest_internal_break` finds the nearest
place in a text where it may be cut, `find_good_split` one that is next to the place
asked for. `insert_str_split` looks at eight bytes around the middle and yet cuts as
near to it as any cut is: a char has at most four bytes and a CRLF two, so that
there is always a place within three bytes. That a seam is mended by moving at most
three bytes (`SeamFixed`) is the same fact. All of this is about UTF-8 texts, which
is the hypothesis `Utf8` and what Rust guarantees of a `str`; places at which texts
are cut before mending are char boundaries (`IsBoundary`), which the code asserts or
computes. `InfoOfConcat` says when summaries add up: always, but for the break of a
CR and an LF that meet.

`NodeEdits_proofs` uses it for what an edit does to a leaf. When a leaf is not
split, and little is taken from it, the code does not count it again but corrects
its summary, with a case each for the CRs and LFs that are joined or parted at the
ends of what is inserted or removed: for every text, place and range, and for both
values of `CrLines`, the corrected summary is that of the new text
(`InsertedInfoRight`, `PushedLfInfoRight`, `RemovedInfoRight`). The closures of
`insert_internal` and `remove` make the text that was asked for, in one leaf or in
two whose seam is in no CRLF, and flag what is left to be mended
(`EditLeafTextRight`, `EditLeafLfRight`, `RemoveFromLeafRight`). `OverfillBounded`
says that an insertion leaves no leaf with more than three bytes too many. It is for
a leaf and a text of together less than twice `MAX_BYTES`. `insert` makes sure of
that by cutting large texts in pieces of `MAX_BYTES - 4` (`src/rope.rs:1305`), if
that is room for a char, as with every size that the crate is built with. For
smaller ones, the runs check it.

### Children

`NodeChildren_proofs` is about arrays of children of any kind that have a summary
each. The four searches find the right child, for every array (`SearchByteIdxRight`
and so on): the one before whose end, and not before whose start, the place is. This
rests on sums of summaries of the first children, as a recursive function.
`DistributeRight` and `InsertSplitRight` show that a full node is split into two
that are not undersized. `AfterChildEditRight` is a step of the argument that infos
are accurate: if the summary of an edited child is right, so is that of its node,
from which the old one is subtracted and to which the new one's is added, and also
those of both nodes if it has to be split. `MergeInternalsRight` and
`MergeLeavesRight` are about `merge_distribute`. The summary above stays right,
unless the two leaves end in a CR and start with an LF, as they may while a removal
is under way: then it counts one break too many. It is exact again at the end of the
call, as the runs check.

### Trees of any height

`TreePaths_proofs` is about whole trees. A sound tree of height 0 is a leaf whose
text is UTF-8, not empty, and at most three bytes larger than `MAX_BYTES`. A sound
tree of height `h + 1` is an internal node with 1 to `MAX_CHILDREN` children that
are sound trees of height `h`, whose infos are what `node_info` returns for them,
and whose texts meet in no code point and in no CRLF (`Row`). `Level[h]` is the set
of these trees, each with its text, so that it says what `assert_integrity`,
`assert_balance` and `assert_crlf_seams` check, of all trees at once. That a sound
tree's summary is that of its text (`LevelSound`) goes up the levels: summaries of
neighbours add up, as no CRLF lies across them.

The theorems say what an operation makes of every sound tree:

- `EditAlongRight`: `edit_chunk_at_char` leaves a sound tree of the same height, or
  two if the root was split, with the text edited at the char and the summaries it
  returns exact. On the way down, a node may compact its leaves, and the search
  finds the child that has the char; on the way up, the summary of a node is
  corrected and a residual goes in beside its sibling or splits the node. `EditDone`
  is what holds of a result at each level, with the text before and after the one
  the edit is in (`EditedAt`): it is the induction hypothesis that does not mention
  the path;
- `InsertAlongRight` and `PushLfAlongRight` are about the two edits of
  `insert_internal`, with the root that is put on top. The first inserts all of the
  text, or all but an LF at its start that may belong to a CRLF with the chunk
  before; then the second puts the LF at the end of the leaf that has the char
  before. Whether that is the leaf that ends at the place of insertion is not part
  of the theorem, and not always so: see `InsertLeftSeam` under the findings;
- `CompactLeavesRight`: a full node's leaves, written anew one after the other, keep
  their text, and no new seam is in a CRLF. The loop over leaves is a recursive
  function, and its invariant says which bytes are written, waiting and to come;
- `AppendAtDepthRight` and `PrependAtDepthRight`: a tree is grafted onto the edge of
  a higher one, `depth` levels down, into the node there, into two that share their
  children, or beside it, with a residual that may split each node on the way up;
- `SplitAlongRight`: a tree is cut in two of the same height, with the chars before
  the cut and the others.

What these need, and do not say:

- a leaf that is empty is only the root of an empty rope, which is no sound tree;
- the text inserted is not empty and has at most `MAX_BYTES - 4` bytes, as the
  pieces that `insert` makes (`IsTextEdit`);
- it does not start with two LFs, unless it goes to the rope's start. Where the
  first one is held back the second may come to follow a CR, a CRLF cut between two
  leaves, until the second edit has put the first in between. The runs have such
  texts;
- the two texts of a graft meet in no CRLF. `append` makes sure of nothing of the
  kind: it mends the seam afterwards, with the infos above it. A graft across a CRLF
  is model-checked, as is the mending;
- a split may halve a CRLF, as the code's may. The halves are then sound each;
- sound trees may have nodes with too few children, which compaction and splits do
  leave until `zip_fix_left`, `zip_fix_right` or `fix_tree_seam` has run.

### Texts that come in pieces

`FromReader_proofs`, for any set of streams and texts and any `MAX_BYTES` of at
least 5: `ReaderTyped`, `NothingLost` and `OutcomeRight` are invariants of
`ReaderSpec`. They are inductive with two more conjuncts (`IntakeInv`): the chunks
put together are UTF-8, and a program feeds its builder with UTF-8. The heart of it
is a fact about `from_utf8` (`ValidUpToConcat`): what is valid at the start of a
stream does not change what is valid from there on. A round of the loop looks at the
buffer only, at what it kept back and what was read, and finds there what it would
find in the whole stream. So it keeps back what follows the last whole char of all
that was given (`ReadStep`), an end with bytes kept back is an end of a stream that
is not UTF-8, and so is a buffer that is full of them. `ReadKeeps` and `ShiftKeeps`
say what a read and `copy_within` do to the bytes in the buffer that count.
`FlattenAppend` is what the library's `FlattenSeq` does, which is a recursive
function.

### Only model-checked

- The invariants and refinements of `Rope`, `Iteration` and `Queries`, and what
  `Streams` says of the builder's tree, the rope and `write_to`. The operators of
  `Builder`, `RopeOps`, of the iterators and of the lookups, and those of `Tree`
  that are not in `TreePaths`, are recursive on trees, which the prover does not
  take; of removals the step at a leaf and the merges are proved.
- The joining of the proved steps to the methods of `Rope`: these measure a tree's
  depth before they go down it, and a depth is a recursive operator.
- That no node but the root has too few children (`BTreeShape`): compaction may
  lower the number of a node's children, and that it never gets below the minimum is
  a matter of how leaves are filled.
- `CallsReturn`: the prover does not reach liveness.

## Not modelled

Left out:

- the messages of errors (`src/lib.rs`), `Debug` and `Display`, and `capacity`: they
  change nothing and no property is about them;
- the inlining of small strings (`NodeSmallString` over the external `SmallVec`),
  and the counting of chars, UTF-16 units and line breaks itself, which is an
  external crate and is modelled by what it returns;
- the order of memory accesses inside `Arc`: the steps of `Sharing` are sequentially
  consistent; weak references, which the code does not use;
- `shrink_to_fit`, `append` and `split_off` at the level of references: `Sharing`
  has the steps they are made of (grafts, moves, new nodes), not their order;
- line breaks other than CR and LF: single chars, counted like an LF.
