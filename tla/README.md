# A verification of the concurrent, persistent key-value store

TLA+ specifications of the store in `src/src/lib` and of the PNG library it
draws with, TLC configurations that check them on small instances, and proofs
that TLAPS checks for every instance.

The program is a hash table of key-value pairs that any number of threads read
and write. The pairs live in a memory-mapped file with an allocator of its own,
so that a process that dies leaves them to the next one. The file's use can be
drawn as a picture.

## 1. Inventory

| Component | State | Operations |
|---|---|---|
| `ConcurrentHashTable` (`hash_table.cpp`, `.hpp`) | `m_write_mutex`; `m_hash_table`, the atomic heads of the chains; `m_bucket_storage`, buckets that never move and are never removed | `put`, `get`, the loading constructor, the implicit destructor, `begin`/`end`, `print_stats` |
| `Bucket`, `KeyValuePair`, `BufferFreer` (same files) | a link to the next bucket and an atomic `shared_ptr` to a block | `set` publishes a block, `get` copies the pointer, the last copy to go calls `free` |
| `FileBackedBuffer` (`file_backed_buffer.cpp`, `.hpp`) | the mapped file: two list heads and blocks, each with links, size and data; `m_mutex` | constructor, `alloc`, `free`, iterators over both lists, `print_stats`, destructor |
| Usage diagram (`file_backed_buffer_diagrammer.cpp`, `font8x8_basic.h`) | an image, for the duration of a call | `dump_usage` walks both lists under `m_mutex`, paints a picture and has it encoded |
| fpng (`external_libs/fpng`) | streams and tables, for the duration of a call | `fpng_encode_image_to_file`, `fpng_decode_file` |
| Testers (`tester/`) | none that persists | clients; the basic one reads a key and puts back what it read with its name added |
| `build.zig` | none | build |

**How they interact.** `put` takes `m_write_mutex`, then calls `alloc` (which
takes `m_mutex` for its own duration), writes the strings, and publishes the
block with an atomic store. `get` takes no lock of its own: it reads the head of a chain,
then for each bucket copies the `shared_ptr`, compares the key, drops the copy,
and finally copies the pointer a second time to read the value. Whoever drops
the last pointer to a replaced block calls back into `FileBackedBuffer::free`,
which takes `m_mutex`: a writer, a reader, or the destructor. The used list in
the file is what the constructor of the next process rebuilds the table from.
`dump_usage` holds `m_mutex` while it draws and passes its image to fpng.

**What is hard here, and what makes each part correct**

* *`put` and `get`.* Readers run through a chain while it grows and while values
  along it are replaced. They must act as if each call happened at one instant;
  two puts of a new key must not both add it; a reader must return although a
  writer stopped half way, unless it has a block to free and the writer stopped
  inside the buffer.
* *Reclamation.* A block is given back by the last of several threads. It must
  go back once, after everyone has finished, and none may be lost.
* *Allocator.* Headers are written over bytes that held something else. In any
  order of calls the free list must stay sorted, merged and complete, and no
  caller's bytes may change.
* *Restart.* The table is volatile and the file is not. After a crash at any
  point, between two stores of the allocator too, the next process must find
  what the last one answered.
* *Opening a file.* Six steps with processes that may die between them, or start
  beside each other; sizes that an `int` makes negative, or positive and wrong.
* *Iteration and statistics.* Walks without a lock beside writers; sums that must
  account for the whole file.
* *Diagram.* Blocks at any byte, pixels of four bytes; text clipped at edges.
* *PNG.* Encoder and decoder carry filters, runs, code tables and a bit position
  independently and must agree; buffers sized by a guess, in 32 bits; short
  writes.

The hazards, each at its line, are listed in `PROJECT.json`.

## 2. Modules

    KeyValueStore          FirstFit                      what is promised
         ^ refines             ^ refines
    ConcurrentHashTable    FileBackedBuffer   BufferFile      what the code does
      ^          ^             ^
      |    TableIteration  BufferIteration
      |          ^             ^
      |          |         TornOperations
    StoreLifecycle             ^
      ^          |         MCFileBackedBuffer
    MCStoreLifecycle
           MCConcurrentHashTable (extends TableIteration)

    UsageDiagram  <- MCUsageDiagram

    FpngTables, HuffmanCodes <- DynamicBlock <- FpngEncode <- FpngDecode <- MCFpng

The proofs stand in modules of their own:

    ConcurrentHashTable <- ConcurrentHashTableProofs
    TableIteration, ConcurrentHashTableProofs  <- LinearizabilityProofs
    StoreLifecycle, LinearizabilityProofs  <- StoreLifecycleProofs
    FileBackedBuffer  <- FileBackedBufferProofs
    BufferIteration, FileBackedBufferProofs  <- BufferIterationProofs
    TornOperations, BufferIterationProofs  <- TornOperationsProofs
    BufferFile    <- BufferFileProofs
    UsageDiagram  <- UsageDiagramProofs

### KeyValueStore

The map a client may rely on. A call is invoked, takes effect once, and
returns. `Read` and `Write` are the two effects; `Refuse` is a `put` that
answers `false` and changes nothing.

### ConcurrentHashTable

One thread's call is a program with a label `pc[t]` and the local variables of
the C++ functions under their own names. A step is one access that another
thread can observe: the locking of a mutex, what is done under it up to its
unlocking, an atomic load or store, or a run of accesses to memory that only
this thread reaches. Between the locking and the rest a thread may stop.

Three mutexes are variables. `m_write_mutex` is the table's. `m_mutex` is the
buffer's: `alloc` and `free` lock it first (`LockBuffer`), and `PutAlloc`,
`PutAllocFails` and `FreeBlock` are what they do under it. `pointer_mutex` is the
C++ library's: `std::atomic_load` and `std::atomic_store` of a `shared_ptr` lock
one of a few mutexes, chosen by the pointer's address; the model takes the worst
case, one for all pointers (`LockPointer`, then `FindLoad`, `GetReload` or
`PutPublish`).

| Code | Actions |
|---|---|
| `find_bucket_with_key` | `FindHead`, then `FindLoad` and `FindCompare` per bucket |
| `get` | `CallGet`, `Find`, `GetReload`, `GetCopy`, `Return` |
| `put` | `CallPut`, `PutLock`, `PutAlloc` or `PutAllocFails`, `Find`, `PutNewBucket`, `PutUnlock`, `Return` |
| `KeyValuePair::set` | `PutWriteKey`, `PutWriteValue`, `PutPublish`, `PutDropOld` |
| `store_bucket` | `StoreBucket` |
| `~shared_ptr`, `BufferFreer` | `DropRef` inside the step that ends the pointer's life, then `LockBuffer` and `FreeBlock` |

A bucket is an index into `key_value_data` and `next_bucket`, the two fields of
the elements of `m_bucket_storage`: buckets only get added, so an index is as
good as an address. A block is a model value, and its bytes are its key and its
value. `alloc` may hand out any block not in use, with its old bytes, and may
refuse at any time (the buffer may be fragmented). A reference count is the set
of its owners.

The C++ memory model appears in one place. `store_bucket` writes the bucket's
link with a plain store and then the head with a release store, and readers
load the head with acquire. A reader that sees the bucket therefore sees its
link and its pair, which is why both writes are one step, `StoreBucket`: that
the link is written before the head is taken from the code and not checked, that
the pair is published before both is. The
plain field `next_bucket` is written only before its bucket can be reached, so
no data race is involved.

### TableIteration

`begin()` to `end()` and `print_stats()` of the table, as operators on the
state they run in: `Listing` is what a walk over `m_bucket_storage` meets,
`Unset` the buckets whose pointer it would find null. They are evaluated in
every state `threads` reaches.

### FirstFit and FileBackedBuffer

`FirstFit` has one variable, the held blocks and their capacity. The gaps
between them follow from it. A request gets the low end of the lowest gap that
fits, or the whole gap if too little would be left for a header and the slack
of 100 bytes.

`FileBackedBuffer` is the code. The file is `mem`, one cell per 8-byte word:
two list heads, then blocks of a previous link, a next link, a size and data. A
header that `alloc` splits off is a place in `mem` that held other things
before, and what is not assigned still holds them. The two loops over the free
list take one step per iteration; `remove_block_from_list` (`Unlink`),
`insert_block_to_used_list` (`PushUsed`), the linking and the merging
(`LinkFree`, `Coalesce`) are one step each. `m_mutex` is what `pc` stands for:
one operation at a time. `Fill` is the caller, `KeyValuePair::set`, writing
into the block just obtained; in the code it runs after `alloc` returned, and
`HeldDataIsIntact` shows that nothing else touches those bytes.

`Words` is what a word of a caller's text can be: zero, or eight characters,
which read as an offset lie far outside any file. An access outside the file, a
failed assertion, ends in `Abort`.

Two specifications share the actions. `Spec` is everything the code does.
`CleanSpec` stops where a block whose links were never set would enter the
empty free list (`CleanInsertFirst`): what follows that step depends on old
data, and finding 1 shows what can come of it. A freed block has its links
cleared, so `CleanSpec` excludes only the split of the single free block over
bytes that are not zero.

### BufferIteration

The two iterators, forth and back, and both halves of `print_stats()`, as
operators on the file: what a walk reaches in as many steps as there can be
blocks, and whether `end()` is among it.

### TornOperations

The steps of `FileBackedBuffer` taken apart into stores of one word. `Torn` is
every file that a kill can leave behind in the present state: any number of the
stores of the operation under way, in the order of the program. `Crash` goes on
with such a file, the used list of which the next process takes for what it
holds. Only the order of the program is considered: a compiler that reorders
plain stores could leave more behind.

### StoreLifecycle

`ConcurrentHashTable` within a process that comes and goes. `Run` is any of its
steps and keeps the used list of the file as `alloc` and `free` do, newest
block first. `Crash` loses every variable of the process and keeps the file.
`RecordedRun` and `UnrecordedRun` are `Run` with and without a history of what
`put` was called with, which only `OnlyPutValues` needs.
`Open` is the loading constructor: one bucket per block of the used list, each
stored in front of its chain. `Close`, `DestroyBucket` and `Unmap` are the
implicit destructor: members go in reverse order of declaration, each bucket's
pointer is the last one to its block, and `BufferFreer` frees it.

Stores into a `MAP_SHARED` mapping survive the process, so a block's bytes and
the used list are simply kept; a power failure is not modelled.

Three specifications differ in when a crash may come: `QuietSpec` only when
every block in use is a current value, `DuringGetsSpec` when no `put` is in
progress, `LifeSpec` at any step.

### BufferFile

The constructor of `FileBackedBuffer`, run by any number of processes on one
file: `OpenNew` or `OpenExisting` (the two calls of `open`), `Truncate`,
`Stat`, `Map`, and the stores that set a new file up, `InitFree`, `InitUsed`,
`InitSize`, `InitPrev`, `InitNext`. `Use` is the first `put` of a running
process, `Relink` what later calls do to the first block's links, `Kill` the end
of a process at any step and the start of another in its place. The file is its
size, its two list heads, and the size and the links of its first block. There
are no files but those that some process of the behaviour created, with any
`buffer_size`; a kill and a restart with another makes them old ones.

`AsInt` is what becomes of `st_size` in an `int`: the low bits, with a sign (32
in the code). So a size of twice the range and more is positive again, and
`mmap`, given that number, maps the beginning of the file. What line 70 stores is
computed from the same number, and so is every later process's view.

### UsageDiagram

`dump_usage`: `Begin` computes the dimensions and paints the header, then four
loops take one step per block: `PlotUsed`, `PlotFree`, `AnnotateUsed`,
`AnnotateFree`. `Layouts` are the files to draw. `draw_text` and `set_pixel` are
modelled with the glyphs that occur, since where text lands is what clips or
does not clip it.

### FpngTables, HuffmanCodes, DynamicBlock, FpngEncode, FpngDecode

`FpngTables` holds the constants of the one-pass encoders, number by number.
`HuffmanCodes` computes code lengths from counts and codes from lengths and
looks codes up, `DynamicBlock` writes and reads the head of a Deflate block bit
by bit.

`FpngEncode` is `fpng_encode_image_to_file`: `Begin` with its early returns and
the choice of one of `pixel_deflate_dyn_3_rle`, `pixel_deflate_dyn_4_rle` and
their two `_one_pass` variants; `Line`, `Pixel` (a pixel or a run) and `EndLine`;
`Count` and `MakeCodes` of the two-pass encoders; `Emit` with every check that
the output still fits; `Raw`, the stored blocks as a last resort; `Write`, of
which `fwrite` may fall short and `fclose` fail. The sizes of `temp_buf` and
`out_buf` are computed modulo `UINT32_MAX + 1` (`U32`), as the code computes them;
a store outside a buffer ends in `overrun`, since what follows it is undefined.
What is sent are tokens whose bits are counted. `FpngDecode` is
`fpng_decode_file` on that file, possibly arranged anew by another program
(`Rewrite`): `Open` reads the chunks and refuses what is too large (`Refusal`),
`Lengths` the zlib header and the block's
head, then one step per filter, pixel (`LitPixel`), run or stored block.

The recursion in these modules is by RECURSIVE operators, in halves where a
recursion of some hundred levels would not fit TLC's stack.

## 3. What is checked

| Run | Instance | Distinct states | Shows |
|---|---|---|---|
| `threads` | two writers, one reader, two keys in one chain, two values, three blocks | 366,767 | memory safety, shape of the chains, walks, linearizability |
| `progress` | two threads that call anything, two keys in one chain, three blocks | 177,231 | `get` returns if only readers are scheduled; `put` returns |
| `allocator` | a file of 20 words, requests of 1 and 4, slack 1 | 204,508 | the lists, the walks, the data, every kill, first fit, progress |
| `garbage_links` | the same, without the restriction to clean links | | violated: finding 1 |
| `quiet_restarts` | one thread, three keys in two chains, two values, three blocks | 638,347 | a loaded table is sound and answers as before |
| `clean_shutdown` | two threads, two keys in one chain, three blocks | | violated: finding 2 |
| `crash_during_get` | the same | | violated: finding 3 |
| `crash_during_put` | the same | | violated: finding 4 |
| `torn_list` | as `allocator`, all words zero, kills that the next process goes on from | | violated: finding 5 |
| `buffer_file` | three processes, files of 2, 5, 7, 8, 16 or 22 cells or empty, an int of 7 | 25,860 | every opening of a file, beside others and after kills |
| `usage_diagram` | files of one to three blocks with data of 1, 2, 3, 4, 7 or 20 bytes, the used list in any order | 35,102 | where pixels go and what they mean |
| `png` | 31 pictures, all flags, failed writes that lack up to 40 bytes, chunks added, moved, dropped or cut, both channel counts | 42,568 | encoder and decoder agree |

**Properties of ConcurrentHashTable.** `NoUseAfterFree` and `NoLeak` say who
owns each block at each instant. `SharedBlocksAreImmutable` says that the bytes
of a block stand still while any pointer owns it, so a reader never copies a
mixture. `ChainsAreComplete` says that from any bucket of a chain a walk meets
every older one. `KeysAreUnique` says that no key has two buckets.
`ListingIsTheMap` says that a walk lists the map while no `put` is in progress,
`OnlyTheLastIsUnset` which bucket alone it may find without a pair otherwise.
`Linearizable` says that the table implements `KeyValueStore`: the refinement
mapping puts the effect of `get` at the load of the value, or at the load of
the head for a key that is not there (even if it is added while the search
goes on), and the effect of `put` at the publication of a replaced value, at
the store of the head for a new bucket, or at the refusal. `GetsComplete` and
`PutsComplete` are its progress. The first is what `hash_table.hpp:15-16` says,
with its exception: a reader that is the last of an expiring value waits for a
writer that stopped inside `alloc` or `free` (`HeldUp`); it also waits for one that
stopped holding the library's mutex. It waits for no one else.

**Properties of FileBackedBuffer.** `FreeListIsTheGaps` and `UsedListIsHeld`
hold between operations: the free list is exactly the gaps, in order, merged
and linked both ways; the used list is exactly what the caller holds.
`HeldDataIsIntact` is about every step. `FailsOnlyWhenFull` says that fragments
never cost more than first fit itself does. `IsFirstFit` is the refinement of
`FirstFit`. `OperationsFinish` says that no list has a circle. `WalksAreExact`
and `StatsAddUp` say that the iterators visit each block once, in both
directions, and that `print_stats` accounts for the whole file.
`EveryStoreIsSafe` says of every file that a kill inside `alloc` or `free` can
leave behind that what is loaded from it is right: the used list, followed
forward, has what is in use and at most the block in question besides.

**Properties of StoreLifecycle.** `LoadedTableIsSound` asks of a loaded table
what the first component guarantees of a built one. `CrashKeepsTheMap`,
`CloseKeepsTheMap` and `OnlyPutValues` compare answers across processes.

**Properties of BufferFile.** `EveryViewIsInside`: whatever point of its
creation a process finds a file at, and whatever an `int` makes of its size, what
it has mapped lies inside the file and the block that a list leads to inside
that. The exception is a mapping smaller than a header and a block (5 cells, 40
bytes in the code), of which line 70 computes a `data_size` below zero.
`SetUpFileOpens`: every start on a file that was set up gets through the
constructor. `StoredIsKept`: no start sets a file up again that something was
stored in.

**Properties of UsageDiagram.** `StaysInImage`: no pixel is written outside the
vector, of which `set_pixel` only checks one side. `NoPixelTwice`: blocks at
any offset modulo four never hide each other. `ColoursAreHonest`: a pixel in
the colour of data shows a byte of data.

**Properties of fpng.** `DecodesToPicture`: what comes back is the picture,
alpha dropped or added as asked. `TruncatedIsRefused`: a file cut short by a
single byte is refused. `TablesAgree`: the decoder reads the codes the encoder
wrote with. `CodesAreOptimal`: the codes are complete, have at most 12 bits and
are as short as Huffman's. `BuffersHold`: nothing is stored outside `temp_buf` and
`out_buf`, and the assertions about sizes hold, for pictures whose stored blocks
take no more bytes than 32 bits count.

**Bounds, and why they are enough.** One chain with two keys has a first and a
second bucket, a miss, a hit on each, and an insertion in front of a walk. Two
writers contend for the mutex; a third would only wait in the same place. Only
the writer that has the mutex has a block in hand, so three blocks are enough
for both keys to be stored while a third is being filled, for a value to be
replaced twice while a reader still holds the first, for a freed block to be
handed out again while a reader is on its way, and for the buffer to run out.
In `threads` the roles of the threads are fixed, which is what makes them
interchangeable for symmetry; `progress` lets every thread call both, and uses
no symmetry. It has one value, since values do not influence control.

In `allocator` 18 words after the header make at most four blocks, so that a
freed block can have a free neighbour on the left, on the right, on both sides,
or none. Requests of 1 and 4 words reach each outcome of the split test,
equality included. `quiet_restarts` has one thread because a quiet crash
depends on no interleaving; three keys in two chains give a used list in which
the chains are intertwined.

In `buffer_file` one process creates while a second looks on, and a third takes
the place of a killed creator. Header and block take 5 cells, so 2 is too small
for them and 5 leaves no data. 7 is the largest `int`, 8 the first size that
becomes negative; 16 becomes 0, and 22 becomes 6, a file that is mapped for less
than it is. In `usage_diagram` the sizes cover every residue modulo four and
blocks too small for a pixel; `MAX_DIAGRAM_DIMENSION`, 12000 in the code, is 6, so
that some files are refused and every text is clipped.

In `png` the pictures have runs below, at and above the longest match of each
channel count (255 and 252 bytes), runs that end with a line, lines that repeat
the one above, one pixel only, and 1359 bytes
about as frequent as Lucas's numbers, whose Huffman codes would have more than
12 bits. Five constants shrink what the pictures must exceed:
`FPNG_MAX_SUPPORTED_DIM` (2^24) is 500, `MaxRawBlock` (65535) is 100 so that
there are several stored blocks, `HeaderDim` (2^16) is 490, `MaxPixels` (2^30)
480 and `UINT32_MAX` (2^32 - 1) 1919, with pictures beyond each of them.
`UINT32_MAX + 1` is four times `MaxPixels`, as in the code, so that a picture of
just 480 pixels is the boundary case: in three channels it is encoded, decoded
to three channels and refused for four; in four channels it is too large for
`temp_buf`. Others are too large for `out_buf`, compressed or stored, or make a
file larger than the decoder takes.

**Deadlock** is checked except in `allocator`, `garbage_links`, `torn_list`
(where `CleanStep` stops by design before the garbage would be used, and `Spec`
after an abort), and in `usage_diagram` and `png`, which are single calls that
return.

**Fairness.** `GetsComplete` and `PutsComplete` name theirs as antecedents, so
that one run can show both. `ReaderFairness` assumes only that a thread inside
`get` keeps being scheduled, and nothing about writers: that is what "lockless
on reads" promises. `Fairness` says that every thread inside a call keeps being
scheduled. Both add strong fairness of the locking of a mutex (`Acquire`), because
`std::mutex` is handed to a waiter sooner or later but not in any order. `FairCleanSpec`
assumes that the operation under way inside the allocator keeps being executed.
No fairness makes a thread call anything.

## 4. What the runs found

1. **Links of a split block** (`file_backed_buffer.cpp:171`). When `alloc`
   splits the only free block, the rest is inserted into an empty list, and
   `insert_block_to_free_list` returns before it sets the block's links. They
   are whatever the bytes were before. `garbage_links` ends in a failed
   assertion or an access outside the file. In the program: `alloc(4000)`, fill
   it with text, `free` it, then `alloc(100)` twice: segmentation fault. A file
   fresh from `ftruncate` is all zeros, which is why a store that only grows
   never shows it.
2. **Orderly destruction empties the store** (`hash_table.hpp:28`). The
   destructor of each bucket drops the last pointer to its block, and
   `BufferFreer` frees it in the file. The basic test leaks its table on purpose
   and so does not see it.
3. **A crash with a reader brings an old value back** (`hash_table.cpp:18`). A
   replaced value stays in the used list until its last reader is done. After a
   crash both blocks are loaded; the older one ends up in front.
4. **A crash inside put() leaves a half-written pair** (`hash_table.cpp:37`).
   The block is in the used list before its strings are written, and nothing in
   the file tells a complete pair from an incomplete one.
5. **A crash inside alloc() breaks a later free()** (`file_backed_buffer.cpp:156`).
   `insert_block_to_used_list` first stores the new block's offset into the old
   head's backward link. If that is the last store executed, every walk forward
   is still right (`EveryStoreIsSafe`), but a later `free` of the old head
   believes the backward link, does not update the list's head, and the freed
   block stays in the used list as well.

Two remarks that are no findings, for no text of the repository says otherwise.
The encoder accepts pictures of up to 2^24 by 2^24 pixels, but IHDR gets the
low 16 bits of width and height and the decoder takes at most 2^30 pixels, so
larger files are written without an error and not decoded; `DecodesToPicture`
names them as its exception. Its sizes have 32 bits, so that a picture of 2^30
pixels in four channels and more gets buffers that are too small; `BuffersHold`
names these as its exception, and `dump_usage` draws less than a sixth of that,
in three channels. A file whose creator was killed early stays
unusable for ever: empty, it stops every later start at an assertion; with a
size and no header, it opens as a store that is full.

## 5. What is proved

A theorem `Spec => ...` below holds for every value of the constants that the
named assumption allows; the runs of section 3 evaluate the assumptions and
check the same properties on small instances. The proof modules assume nothing
else.

### Threads: ConcurrentHashTableProofs, LinearizabilityProofs

For any number of threads, keys, values, chains and blocks:

| Theorem | Statement |
|---|---|
| `Invariance` | `Spec => []IInv` |
| `TypeCorrect` | `Spec => []TypeOK` |
| `NeverUsedAfterFree` | `Spec => []NoUseAfterFree` |
| `NeverLeaked` | `Spec => []NoLeak` |
| `NeverTorn` | `Spec => SharedBlocksAreImmutable` |
| `ChainInvariance` | `Spec => []ChainInv` |
| `ChainsComplete` | `Spec => []ChainsAreComplete` |
| `NoKeyTwice` | `Spec => []KeysAreUnique` |
| `CallsAreBounded` | `Spec =>` each step of a call lowers its measure, other threads' steps keep it |
| `IsLinearizable` | `Spec => Linearizable` |
| `WalksMeetOneUnsetBucket` | `Spec => []OnlyTheLastIsUnset` |
| `WalksListTheMap` | `Spec => []ListingIsTheMap` |

The only assumption is `HashAssumption`: the hash function maps keys to
indexes, and `NoThread` and `NoBlock` are neither threads nor blocks.

*Ownership.* The first five follow from one inductive invariant, `IInv`, which
joins four parts:

* `TypeOK`;
* `Linked`: a bucket that a chain leads to owns a block, so a search never
  loads a null pointer;
* `LocalsOK`: which local variables are set at which label, and at which labels a
  thread holds one of the two inner mutexes. Without it a thread
  at `publish` might have no block, or a thread at `load` no bucket;
* `Owned`: `NoUseAfterFree` and `NoLeak` together. Neither is inductive alone: a
  block that nobody owns, but is in use, could be handed to a thread twice by
  the one's failure and the other's.

`Owned` is proved from six lemmas that name the ways a block changes hands:
copying a pointer (`CopyKeepsOwned`), dropping one (`DropKeepsOwned`),
allocation, publication, freeing, and adding an empty bucket. Each action of
the specification is one of the six or leaves ownership alone. `NeverTorn` then
needs one more observation: only `PutWriteKey` and `PutWriteValue` write bytes,
and the block they write is private, hence not shared.

*Chains.* `ChainInv` adds to `IInv` what makes a chain a chain. Which buckets
are in the chain at an index is said without following a link (`InChain`): those
with a block whose key has that index, no newer than the head. Then

* `MutexHeld`: a thread between `PutLock` and `PutUnlock` is the one that
  `m_write_mutex` names, so there is one writer;
* `Rooted`, `LinksOK`, `KeysDiffer`: the head is in its chain, each link leads to
  the next older bucket of the chain, and no two have the same key;
* `AllPlaced`: a bucket is in the chain of its key, or a `put` is adding it;
* `NewestOK`, `SearchOK`, `PutOK`: what a call knows. A bucket being added is the
  last and in front of every chain. A search has met the bucket it is at in the
  chain of its key. A writer's search has passed no bucket of its key.

The proof rests on two facts about steps. Every step but `StoreBucket` leaves
every chain, its links and its keys alone (`SameChains`): publishing over an old
value changes the block, not the key. `StoreBucket` adds one bucket in front of
one chain (`BucketAdded`), and only the writer does it. So what a reader knows of
the chain behind it stays true (`BehindKept`), and what the writer's search
established, that its key has no bucket, is still true when it links the bucket.
`NoneNewer` is the conjunct that carries it from `FindHead` to `StoreBucket`.

*Bounds.* `GetsComplete` and `PutsComplete` stay with TLC, but what makes them
true is proved. A call has a measure, compared from left to right: its `Stage`
(the search is one), the bucket it is at, and what is to be done there
(`AtHand`: lock a mutex, load the pointer, free a block). Each own step lowers it
(`Closer`), in the search because a link leads to an older bucket (`LinksOK`), and no step of
another thread touches it (`OthersKeepMeasures`). So a search passes at most as
many buckets as there were when it read the head, however many puts lengthen the
chain meanwhile. What is left to liveness is that the steps are taken; of those
of a `get` only the locking of `m_mutex`, to free a block, and of the library's
mutex wait for another thread.

*Linearizability.* The mapping of section 3 is proved step by step. `Lookup`,
which is a choice from a set, is the value of the one bucket of its key
(`LookupIs`); `WillMiss` says that the chain from the search's bucket on has not
its key. A step of thread `t` leaves what the map shows of other threads as it
was (`OthersSeen`); this is where a reader that will miss keeps missing, since
buckets are added only in front of it. The map itself changes only at the
publication over an old value and at `StoreBucket` (`MapWritten`), and these are
`Write`. All other steps are `Invoke`, `Return`, `Read`, `Refuse`, or change
nothing that the map shows.

*Walks.* `OnlyTheLastIsUnset` and `ListingIsTheMap` follow from `ChainInv` in the
same state: without a writer all buckets are placed, so buckets and stored keys
are in a bijection, which gives the counts of `print_stats`.

### Restarts: StoreLifecycleProofs

| Theorem | Statement |
|---|---|
| `LifeInvariance` | `QuietSpec => []LifeInv` |
| `LoadedTablesAreSound` | `QuietSpec => []LoadedTableIsSound` |
| `CrashesKeepTheMap` | `QuietSpec => CrashKeepsTheMap` |

The assumption is `HashAssumption` again. `LifeInv` says what survives a
process. The used list is the blocks in use, each once (`ListOK`), in every
state. While the process is up, `ChainInv`; while it is down, no two blocks in
use have the same key, and they have the values `get` had answered
(`BlocksApart`, `Remembered`). A quiet crash leads from the first to the second
because every block in use is in a bucket and `KeysDiffer` (`QuietBlocks`). The
constructor leads back: its loop leaves at each index the newest bucket, and in
each bucket the next older one (`IsFront`, `OpenLoads`), from which every
conjunct of `ChainInv` follows (`LoadedTable`). From there on the steps of the
threads are those of the first component, whose `NextChainInv` is cited as it
stands. An orderly exit keeps `ListOK` too, down to the empty list.

### Allocator: FileBackedBufferProofs

For every size of the file, every set of request sizes, every slack and whatever
the callers' words are (`BufferAssumption`: the file has room for its header and
a block, requests are positive, and a caller's word is zero or no offset inside
the file):

| Theorem | Statement |
|---|---|
| `PoolInvariance` | `CleanSpec => []PoolInv` |
| `PoolTypes` | `CleanSpec => []TypeOK` |
| `NoAbort` | `CleanSpec => []NeverAborts` |
| `DataIsKept` | `CleanSpec => HeldDataIsIntact` |
| `FreeListIsComplete` | `CleanSpec => []FreeListIsTheGaps` |
| `UsedListIsComplete` | `CleanSpec => []UsedListIsHeld` |
| `FailureMeansFull` | `CleanSpec => FailsOnlyWhenFull` |
| `IsFirstFitAllocator` | `CleanSpec => IsFirstFit` |
| `OperationsAreBounded` | `CleanSpec =>` each step of an operation lowers its measure |

They are about `CleanSpec` because `Spec` does not have these properties
(finding 1). `NoAbort` is the counterpart of that finding: unset links that enter
the empty free list are the only way to a failed assertion or an access outside
the file.

`PoolInv` says that some function `s` from offsets to sizes, some set `F` of
free blocks and some order `r` of the used blocks describe the file:

* the blocks of `s` tile the file (`Tiles`): each ends where the next begins, the
  last at the end. The headers in the file agree with `s`, but for the block
  that a split has not shrunk yet (`SizesOK`);
* a block is in `F`, held, taken by `alloc`, or loose, about to be inserted
  (`PlacesOK`);
* the free list links `F` in the order of the file, the used list the held blocks
  in the order of `r` (`ListsOK`), and no two free blocks are neighbours, but for
  the one just inserted and its neighbours (`JoinedOK`);
* `AllocOK`, `InsertOK`: what the operation under way knows. All free blocks
  before the cursor, or before the one taken, are too small; the block cut by a
  split and its rest are one gap; those before the insertion cursor lie before
  the block to insert.

A list in an order is what the code's list is without the order of its stores:
lemmas about `Linked` say once that unlinking (`remove_block_from_list`), linking
in the middle and pushing in front keep a list linked and write only the links of
the block and its neighbours. Since blocks are apart, those are no words of a
caller's data, which is `DataIsKept`, and no links of the other list.
Tilings are only changed by cutting a block in two and by joining two neighbours
(`CutTiles`, `JoinTiles`); a split is the one, each merge the other.

For the refinement the gaps of `FirstFit`, defined from the held blocks alone,
are shown to be the tiles that are not held once no two of them are neighbours
(`GapsAre`). At the push, the taken block joined with what was cut from it is
such a gap, it has room, and all before it are too small (`TakenGap`).

`OperationsAreBounded` is the safety half of `OperationsFinish`: the measure is
the `Part` of the operation, of which there are seven in the order the code runs
them, and within its two loops the file `Ahead` of the cursor, which shrinks
because the free list is in the order of the file (`FreeNeighbours`).

### Walks over the file: BufferIterationProofs

| Theorem | Statement |
|---|---|
| `WalksVisitEveryBlock` | `CleanSpec => []WalksAreExact` |
| `StatsAccountForEveryByte` | `CleanSpec => []StatsAddUp` |

Both follow from `PoolInv` in the same state, under the same assumption. What
they are about is recursive, and the library's induction theorems cannot be
used. Instead each recursive function is compared with an explicit one, at the
smallest argument where the two would differ (`Smallest`: a set of natural
numbers has a smallest member). For a walk that is the set of blocks at
positions up to the number of its steps, where the position of a block is how
many come before it (`MetSteps`, `WalkIs`); a file has fewer blocks than a walk
takes steps (`FewBlocks`). For a sum over a list it is the number of cells that
its blocks occupy (`TotalIs`). By `Tiles` the blocks of both lists occupy every
cell behind the header, once (`TotalsFillTheFile`).

### Interrupted operations: TornOperationsProofs

| Theorem | Statement |
|---|---|
| `EveryPrefixIsSafe` | `CleanSpec => []EveryStoreIsSafe` |

It is about files no operation leaves behind: between two stores the backward
links are wrong (finding 5) and a block may be linked already but not yet of its
size. It follows from `PoolInv` in the state the stores begin in, in three parts:

* *Stores.* What a sequence of stores leaves, in full and cut off, is built up
  store by store (`OneMore`, `FourStores`, `InTurn`). In full it is shown to be
  what the operator of `FileBackedBuffer` for the same operation yields (`Leaves`
  says both);
* *Lists.* A restart follows forward links only. `Forward` is what `Linked` says
  of them, and `WalkIs`, the argument for the walks, needs no more. In each
  sequence one single store makes the change: before it the list is the old one,
  from it on the new one (`TornUnlink`, `TornPush`, `TornLinkFree`). All others
  write backward links, or links of a block that is in neither list;
* *Steps.* Each step of `alloc` and `free` is one of the three, a size, or
  nothing (`FreeCallIsSafe` to `ScanIsSafe`). A size matters when the header is
  listed: a merge enlarges a block only after the neighbour it takes in was
  unlinked (`TornHalf`, `CoalesceIsSafe`), and a split shrinks one that is in no
  list. So blocks never overlap, whichever store is the last
  (`SafeFile`).

The listed blocks are then those of one of the two lists the operation goes
between, which is the second half of `EveryStoreIsSafe`.

### Diagram: UsageDiagramProofs

For every set of layouts and every `MAX_DIAGRAM_DIMENSION` (`LayoutAssumption`:
the blocks of a layout lie inside the file, apart, and each is listed once):

| Theorem | Statement |
|---|---|
| `DiagramInvariance` | `Spec => []DiagramInv` |
| `NothingOutsideTheImage` | `Spec => []StaysInImage` |
| `ColoursShowBlocks` | `Spec => []ColoursAreHonest` |
| `BlocksDoNotHide` | `Spec => NoPixelTwice` |

The invariant says that the picture has at least a pixel for every four bytes
(`BigEnough`, which needs that the square root of the code exists and is rounded
up) and that the areas still to be plotted are black. Two blocks' areas do not
meet although both may begin within one pixel, because each area is rounded to
pixels in the same direction (`AreasApart`).

### Buffer file: BufferFileProofs

Proved, for any number of processes and any sizes:

| Theorem | Statement |
|---|---|
| `FileInvariance` | `Spec => []IInv` |
| `FileTypeCorrect` | `Spec => []TypeOK` |
| `ViewsAreInside` | `Spec => []EveryViewIsInside` |
| `SetUpFilesOpen` | `Spec => []SetUpFileOpens` |
| `NothingStoredIsLost` | `Spec => StoredIsKept` |

The assumption is `SizeAssumption`: sizes and the largest `int` are any natural
numbers, and a `size_t` holds every `int` that is not negative and the size of a
header and a block. No size is excluded. The invariant is again a conjunction:

* `Creating`: at most one process creates the file, because `O_EXCL` lets only
  one see it absent, and its size is set once;
* `Unwritten`: the first block is empty or as large as the `int` of the file's
  size leaves room for; while the file is being created there is no block and no
  list but the free one, so `InitUsed` clears nothing;
* `Viewed`: a process that got through `mmap` goes by the `int` of the file's
  size, not by the empty size of before `ftruncate`, and that number is positive;
* `Opened`: a file that was set up when a process opened it still is.

`SizesAsInt` is the arithmetic: the `int` of a size is no more than the size, so a
mapping that succeeds lies inside the file. `Starts`, `StepKeepsType` and
`StepKeepsRest` are the three facts of an inductive invariant.

### Only model-checked

* `GetsComplete`, `PutsComplete` and `OperationsFinish`: liveness under fairness
  is out of the prover's reach. `CallsAreBounded` and `OperationsAreBounded` are
  what can be proved of them.
* The five properties of fpng (`DecodesToPicture`, `TruncatedIsRefused`,
  `TablesAgree`, `CodesAreOptimal`, `BuffersHold`). What they say is what
  recursive definitions over the picture and over the code lengths compute, for
  every input: that is an induction over data, and the modules use RECURSIVE
  operators, which the prover does not take.
* The runs that end in a violation, which are counterexamples.

Three definitions were changed when they were reasoned about. `Answer`, `Scan`
and the codes of `FpngEncode` had CASE arms whose guards overlap; TLC takes the
first, but the language leaves the choice open, so they are nested IFs now.
`ListingIsTheMap` counted a key as stored if `get` answers something other than
the empty string; a stored empty string is a stored value, so `StoredKeys` asks
for a bucket instead. `TrackUsedList` is the one insertion or removal that
happens rather than an enumeration of a set and a filter.

## 6. What is not modelled

* `FileBackedBuffer`'s iterators and `print_stats` interleaved with `alloc` and
  `free`: the class promises nothing for it, and nothing in the repository does
  it. They are checked between operations.
* A second `open` that is refused (permissions): the process does not start.
  Two processes that run at once on a file already set up: the mutexes are
  private to each, and the store does not claim to be shared. Files that no
  constructor in the repository made, such as one of 4 GiB whose lists were laid
  out by a program with a wider `int`: there the lists would lead outside what
  is mapped.
* Lengths and averages in the table's `print_stats`, and a walk over the buckets
  step by step beside a `put`: `emplace_back` during a walk over the deque is a
  data race, and the testers walk when their threads have ended.
* Any holder of `m_mutex` but `alloc` and `free`: `dump_usage` holds it too while it
  draws and encodes, and a reader with a block to free waits as long.
* The bytes of a block: keys and values are atoms, so an embedded NUL does not
  occur. Sizes in words: a size that is not a multiple of eight does not occur
  in the allocator, and a header of a block is never half text and half zeros.
* Running out of ordinary memory in `get_new_bucket`, and exceptions.
* The diagram's floats, taken as exact: they are below 2^24 bytes, and for the
  store's own file of 2^29 bytes.
* In fpng: the values of CRC-32 and Adler-32 with their SSE, PCLMUL and
  table-driven variants and the detection of the processor; the training
  functions; failures of `fopen`, `fseek` and of memory; what happens behind a
  store outside a buffer; decoding of files that fpng did not write.
  The decoder's tables with two symbols per entry are
  modelled as one lookup per symbol.
* The testers, whose threads are clients, and the build.

## 7. Plan

`DuringGetsSpec`: which answers a crash beside readers may still change, as a
property that holds instead of the one that finding 3 refutes.
