-------------------------- MODULE FileBackedBuffer --------------------------
(***************************************************************************)
(* The allocator inside the buffer file: alloc() and free() over two       *)
(* doubly linked lists whose nodes are headers in the file itself.         *)
(*                                                                         *)
(* mem is the mapped file, one cell per 8-byte word, so what a header      *)
(* holds before it is written is whatever the bytes held before.  m_mutex  *)
(* makes the two operations exclude each other: one operation is under     *)
(* way at a time, in steps that are its loop iterations and its calls.     *)
(***************************************************************************)
EXTENDS Naturals

CONSTANTS BufferEnd,     \* m_db_size
          Slack,         \* the 100 bytes of the heuristic
          Sizes,         \* the sizes put() asks for
          Words          \* what a word of put()'s strings may look like

NULL_OFFSET == 0

\* The file: next_free_block_offset and next_used_block_offset ...
FREE_LIST  == 0
USED_LIST  == 1
HeaderSize == 2
\* ... then blocks: prev_block_offset, next_block_offset, data_size, data.
BlockSize  == 3

ASSUME BufferAssumption ==
    /\ BufferEnd \in Nat /\ BufferEnd >= HeaderSize + BlockSize
    /\ Slack \in Nat
    /\ Sizes \subseteq Nat \ {0}
    \* Eight characters, read as an offset, are far outside the file.
    /\ Words \subseteq {0} \cup {w \in Nat : w >= BufferEnd}

Cells == 0 .. BufferEnd - 1

VARIABLES mem,           \* the file's contents
          held,          \* the caller's pointers: block -> size it asked for
          pc,            \* "idle": nobody holds m_mutex
          alloc_size,
          block,         \* alloc(): the block found
          inserted,      \* insert_block_to_free_list(): its argument
          back,          \* ... and where its caller continues
          curr           \* the cursor of either loop over the free list

locals == <<alloc_size, block, inserted, back, curr>>
vars == <<mem, held, pc, locals>>

\* The cells of the header at offset b, and those of n words of its data.
PrevOf(b) == b
NextOf(b) == b + 1
SizeOf(b) == b + 2
Data(b, n) == b + BlockSize .. b + BlockSize + n - 1

\* Dereferencing a nonzero offset outside the mapping ends the process.
Wild(b) == b # NULL_OFFSET /\ b + BlockSize > BufferEnd

\* The constructor on a file it created: ftruncate() filled it with zeros.
Init ==
    /\ mem = [a \in Cells |->
                CASE a = FREE_LIST          -> HeaderSize
                  [] a = SizeOf(HeaderSize) -> BufferEnd - HeaderSize - BlockSize
                  [] OTHER                  -> 0]
    /\ held = [b \in {} |-> 0]
    /\ pc = "idle"
    /\ alloc_size = 0 /\ block = 0 /\ inserted = 0 /\ back = "idle" /\ curr = 0

\* The operation returns and its local variables are gone.
Finish ==
    /\ pc' = "idle"
    /\ alloc_size' = 0 /\ block' = 0 /\ inserted' = 0 /\ back' = "idle" /\ curr' = 0

\* A failed assertion or an access outside the mapping.
Abort == pc' = "abort" /\ UNCHANGED <<mem, held, locals>>

----------------------------------------------------------------------------
(* The lists.                                                              *)

\* Wrong: the next block keeps its old predecessor.
UnlinkOneWay(m, head, b) ==
    [m EXCEPT ![IF m[PrevOf(b)] # NULL_OFFSET THEN NextOf(m[PrevOf(b)]) ELSE head] = m[NextOf(b)],
              ![PrevOf(b)] = NULL_OFFSET,
              ![NextOf(b)] = NULL_OFFSET]

\* remove_block_from_list(): b's neighbours, or the head, bypass it, and its
\* own links are cleared.
Unlink(m, head, b) ==
    LET p == m[PrevOf(b)]
        n == m[NextOf(b)]
    IN  [m EXCEPT ![IF p # NULL_OFFSET THEN NextOf(p) ELSE head] = n,
                  ![IF n # NULL_OFFSET THEN PrevOf(n) ELSE PrevOf(b)] = p,
                  ![PrevOf(b)] = NULL_OFFSET,
                  ![NextOf(b)] = NULL_OFFSET]

\* Wrong: the block that was first has no predecessor still.
PushUsedOneWay(m, b) ==
    [m EXCEPT ![PrevOf(b)] = NULL_OFFSET,
              ![NextOf(b)] = m[USED_LIST],
              ![USED_LIST] = b]

\* insert_block_to_used_list(): in front.
PushUsed(m, b) ==
    LET n == m[USED_LIST]
    IN  [m EXCEPT ![IF n # NULL_OFFSET THEN PrevOf(n) ELSE PrevOf(b)] = b,
                  ![PrevOf(b)] = NULL_OFFSET,
                  ![NextOf(b)] = n,
                  ![USED_LIST] = b]

\* b goes between p and n in the free list.
LinkFree(m, p, b, n) ==
    [m EXCEPT ![PrevOf(b)] = p,
              ![NextOf(b)] = n,
              ![IF p # NULL_OFFSET THEN NextOf(p) ELSE FREE_LIST] = b,
              ![IF n # NULL_OFFSET THEN PrevOf(n) ELSE PrevOf(b)] =
                  IF n # NULL_OFFSET THEN b ELSE p]

\* The data of block b ends where the next block of the list starts.
Contiguous(m, b) == b + BlockSize + m[SizeOf(b)] = m[NextOf(b)]

PrevContiguous(m, b) == m[PrevOf(b)] # NULL_OFFSET /\ Contiguous(m, m[PrevOf(b)])
NextContiguous(m, b) == m[NextOf(b)] # NULL_OFFSET /\ Contiguous(m, b)

\* Wrong: a block is joined with the one behind it only.
CoalesceForward(m, b) ==
    LET n == m[NextOf(b)]
    IN  IF ~NextContiguous(m, b) THEN m
        ELSE [Unlink(m, FREE_LIST, n) EXCEPT
                ![SizeOf(b)] = @ + BlockSize + m[SizeOf(n)]]

\* The last part of insert_block_to_free_list(): b and its neighbours in the
\* list become one block if they are neighbours in the file.
Coalesce(m, b) ==
    LET p == m[PrevOf(b)]
        n == m[NextOf(b)]
        m1 == IF PrevContiguous(m, b) THEN Unlink(m, FREE_LIST, b) ELSE m
        m2 == IF NextContiguous(m, b) THEN Unlink(m1, FREE_LIST, n) ELSE m1
    IN  [m2 EXCEPT ![SizeOf(IF PrevContiguous(m, b) THEN p ELSE b)] = @
           + (IF PrevContiguous(m, b) THEN BlockSize + m[SizeOf(b)] ELSE 0)
           + (IF NextContiguous(m, b) THEN BlockSize + m[SizeOf(n)] ELSE 0)]

----------------------------------------------------------------------------
(* alloc()                                                                 *)

AllocCall(n) ==
    /\ pc = "idle"
    /\ alloc_size' = n
    /\ curr' = mem[FREE_LIST]
    /\ pc' = "scan"
    /\ UNCHANGED <<mem, held, block, inserted, back>>

\* The end of the list: alloc() returns nullptr.
AllocFails ==
    /\ pc = "scan" /\ curr = NULL_OFFSET
    /\ Finish
    /\ UNCHANGED <<mem, held>>

\* Wrong: a block that fits exactly is passed over.
AllocSkipExact ==
    /\ pc = "scan" /\ curr # NULL_OFFSET
    /\ IF Wild(curr) THEN Abort
       ELSE /\ mem[SizeOf(curr)] <= alloc_size
            /\ curr' = mem[NextOf(curr)]
            /\ UNCHANGED <<mem, held, pc, alloc_size, block, inserted, back>>

AllocSkip ==
    /\ pc = "scan" /\ curr # NULL_OFFSET
    /\ IF Wild(curr) THEN Abort
       ELSE /\ mem[SizeOf(curr)] < alloc_size
            /\ curr' = mem[NextOf(curr)]
            /\ UNCHANGED <<mem, held, pc, alloc_size, block, inserted, back>>

\* Wrong: the header of the split block is not counted.
AllocTakeNoHeader ==
    /\ pc = "scan" /\ curr # NULL_OFFSET /\ ~Wild(curr)
    /\ mem[SizeOf(curr)] >= alloc_size
    /\ mem' = Unlink(mem, FREE_LIST, curr)
    /\ block' = curr
    /\ pc' = IF mem[SizeOf(curr)] >= alloc_size + Slack THEN "split" ELSE "push"
    /\ UNCHANGED <<held, alloc_size, inserted, back, curr>>

\* Wrong: > for >=.
AllocTakeStrict ==
    /\ pc = "scan" /\ curr # NULL_OFFSET /\ ~Wild(curr)
    /\ mem[SizeOf(curr)] >= alloc_size
    /\ mem' = Unlink(mem, FREE_LIST, curr)
    /\ block' = curr
    /\ pc' = IF mem[SizeOf(curr)] > alloc_size + BlockSize + Slack THEN "split" ELSE "push"
    /\ UNCHANGED <<held, alloc_size, inserted, back, curr>>

AllocTake ==
    /\ pc = "scan" /\ curr # NULL_OFFSET /\ ~Wild(curr)
    /\ mem[SizeOf(curr)] >= alloc_size
    /\ IF Wild(mem[PrevOf(curr)]) \/ Wild(mem[NextOf(curr)]) THEN Abort
       ELSE /\ mem' = Unlink(mem, FREE_LIST, curr)
            /\ block' = curr
            /\ pc' = IF mem[SizeOf(curr)] >= alloc_size + BlockSize + Slack
                     THEN "split" ELSE "push"
            /\ UNCHANGED <<held, alloc_size, inserted, back, curr>>

\* Wrong: the new header starts inside the data of the block it is split from.
AllocSplitOverlapping ==
    /\ pc = "split"
    /\ LET split == block + BlockSize + alloc_size - 1
       IN  /\ mem' = [mem EXCEPT ![SizeOf(split)] = mem[SizeOf(block)] - alloc_size - BlockSize + 1]
           /\ inserted' = split
    /\ curr' = mem[FREE_LIST]
    /\ back' = "shrink"
    /\ pc' = "insert"
    /\ UNCHANGED <<held, alloc_size, block>>

\* Only the size of the new header is written: its links still are the bytes
\* that were there.
AllocSplit ==
    /\ pc = "split"
    /\ LET split == block + BlockSize + alloc_size
       IN  /\ mem' = [mem EXCEPT ![SizeOf(split)] = mem[SizeOf(block)] - alloc_size - BlockSize]
           /\ inserted' = split
    /\ curr' = mem[FREE_LIST]
    /\ back' = "shrink"
    /\ pc' = "insert"
    /\ UNCHANGED <<held, alloc_size, block>>

AllocShrink ==
    /\ pc = "shrink"
    /\ mem' = [mem EXCEPT ![SizeOf(block)] = alloc_size]
    /\ pc' = "push"
    /\ UNCHANGED <<held, locals>>

AllocPush ==
    /\ pc = "push"
    /\ mem' = PushUsed(mem, block)
    /\ held' = [b \in DOMAIN held \cup {block} |->
                  IF b = block THEN alloc_size ELSE held[b]]
    /\ pc' = "fill"
    /\ UNCHANGED locals

\* alloc() has returned, and KeyValuePair::set() writes the strings into the
\* block.  No other operation reads or writes those bytes before the next free().
Fill(w) ==
    /\ pc = "fill"
    /\ mem' = [a \in Cells |-> IF a \in Data(block, alloc_size) THEN w ELSE mem[a]]
    /\ Finish
    /\ UNCHANGED held

----------------------------------------------------------------------------
(* free(), and insert_block_to_free_list(), which alloc() calls too.       *)

FreeCall(b) ==
    /\ pc = "idle" /\ b \in DOMAIN held
    /\ held' = [c \in DOMAIN held \ {b} |-> held[c]]
    /\ mem' = Unlink(mem, USED_LIST, b)
    /\ inserted' = b
    /\ curr' = mem[FREE_LIST]
    /\ back' = "idle"
    /\ pc' = "insert"
    /\ UNCHANGED <<alloc_size, block>>

\* The caller of insert_block_to_free_list() continues.
Continue ==
    IF back = "idle" THEN Finish
    ELSE /\ pc' = back /\ inserted' = 0 /\ back' = "idle" /\ curr' = 0
         /\ UNCHANGED <<alloc_size, block>>

\* The early return: the head is set, and the block's own links are not.
InsertFirst ==
    /\ pc = "insert" /\ curr = NULL_OFFSET
    /\ mem' = [mem EXCEPT ![FREE_LIST] = inserted]
    /\ Continue
    /\ UNCHANGED held

\* Wrong: the loop reads the head again instead of the next block.
InsertSeekHead ==
    /\ pc = "insert" /\ curr # NULL_OFFSET
    /\ curr <= inserted /\ mem[NextOf(curr)] # NULL_OFFSET
    /\ curr' = mem[FREE_LIST]
    /\ UNCHANGED <<mem, held, pc, alloc_size, block, inserted, back>>

InsertSeek ==
    /\ pc = "insert" /\ curr # NULL_OFFSET
    /\ IF Wild(curr) THEN Abort
       ELSE /\ curr <= inserted /\ mem[NextOf(curr)] # NULL_OFFSET
            /\ curr' = mem[NextOf(curr)]
            /\ UNCHANGED <<mem, held, pc, alloc_size, block, inserted, back>>

\* The loop stopped at curr: insert before it, or after it if it is the last.
InsertLink ==
    /\ pc = "insert" /\ curr # NULL_OFFSET /\ ~Wild(curr)
    /\ curr > inserted \/ mem[NextOf(curr)] = NULL_OFFSET
    /\ LET p == IF curr < inserted THEN curr ELSE mem[PrevOf(curr)]
           n == IF curr < inserted THEN NULL_OFFSET ELSE curr
           asserted == /\ curr # inserted
                       /\ p < inserted
                       /\ p = NULL_OFFSET => curr = mem[FREE_LIST]
       IN  IF ~asserted THEN Abort
           ELSE /\ mem' = LinkFree(mem, p, inserted, n)
                /\ pc' = "coalesce"
                /\ UNCHANGED <<held, locals>>

InsertCoalesce ==
    /\ pc = "coalesce"
    /\ IF NextContiguous(mem, inserted) /\ Wild(mem[NextOf(mem[NextOf(inserted)])]) THEN Abort
       ELSE mem' = Coalesce(mem, inserted) /\ Continue /\ UNCHANGED held

----------------------------------------------------------------------------

AllocStep ==
    \/ AllocFails \/ AllocSkip \/ AllocTake \/ AllocSplit \/ AllocShrink \/ AllocPush
    \/ \E w \in Words : Fill(w)

InsertStep == InsertSeek \/ InsertLink \/ InsertCoalesce

Call ==
    \/ \E n \in Sizes : AllocCall(n)
    \/ \E b \in DOMAIN held : FreeCall(b)

Next == Call \/ AllocStep \/ InsertFirst \/ InsertStep

Spec == Init /\ [][Next]_vars

\* InsertFirst leaves the links of the block alone.  free() has cleared them;
\* those of a split block are old data, which may or may not read as zero.
LinksAreClear == mem[PrevOf(inserted)] = NULL_OFFSET /\ mem[NextOf(inserted)] = NULL_OFFSET

CleanInsertFirst == LinksAreClear /\ InsertFirst

CleanStep == AllocStep \/ CleanInsertFirst \/ InsertStep

\* The executions that do not, or not yet, put such garbage into the free list.
CleanSpec == Init /\ [][Call \/ CleanStep]_vars

----------------------------------------------------------------------------
(* What the lists are.                                                     *)

\* Every variable keeps to the values its C++ type and use allow: offsets and
\* sizes of headers stay inside the file.
TypeOK ==
    /\ mem \in [Cells -> 0 .. BufferEnd \cup Words]
    /\ DOMAIN held \subseteq HeaderSize .. BufferEnd - BlockSize
    /\ \A b \in DOMAIN held : held[b] \in Sizes
    /\ pc \in {"idle", "scan", "split", "shrink", "push", "fill", "insert",
               "coalesce", "abort"}
    /\ alloc_size \in Sizes \cup {0}
    /\ {block, inserted, curr} \subseteq {0} \cup HeaderSize .. BufferEnd - BlockSize
    /\ back \in {"idle", "shrink"}

Pool == INSTANCE FirstFit WITH capacity <- [b \in DOMAIN held |-> mem[SizeOf(b)]]

GapStarts == {gap[1] : gap \in Pool!Gaps}

\* Between operations the free list holds exactly the space between the used
\* blocks: one block for each gap, in the order of the file, linked both ways,
\* and as large as the gap.  So no space is lost or listed twice, and adjacent
\* free blocks are always joined ("will perform sorted insert and merges",
\* file_backed_buffer.hpp:75).
FreeListIsTheGaps ==
    pc = "idle" =>
      /\ mem[FREE_LIST] = NULL_OFFSET <=> GapStarts = {}
      /\ \A gap \in Pool!Gaps :
           LET f      == gap[1]
               before == {g \in GapStarts : g < f}
               behind == {g \in GapStarts : g > f}
           IN  /\ mem[SizeOf(f)] = Pool!Room(gap)
               /\ IF before = {} THEN mem[FREE_LIST] = f /\ mem[PrevOf(f)] = NULL_OFFSET
                  ELSE mem[PrevOf(f)] \in before /\ \A g \in before : g <= mem[PrevOf(f)]
               /\ IF behind = {} THEN mem[NextOf(f)] = NULL_OFFSET
                  ELSE mem[NextOf(f)] \in behind /\ \A g \in behind : g >= mem[NextOf(f)]

\* Between operations the used list, which a restart reloads, links exactly the
\* blocks the caller holds: its head has no predecessor, and every other block
\* is its predecessor's successor.
UsedListIsHeld ==
    pc = "idle" =>
      /\ mem[USED_LIST] = NULL_OFFSET <=> DOMAIN held = {}
      /\ \A b \in DOMAIN held :
           /\ IF mem[PrevOf(b)] = NULL_OFFSET THEN mem[USED_LIST] = b
              ELSE mem[PrevOf(b)] \in DOMAIN held /\ mem[NextOf(mem[PrevOf(b)])] = b
           /\ \/ mem[NextOf(b)] = NULL_OFFSET
              \/ mem[NextOf(b)] \in DOMAIN held /\ mem[PrevOf(mem[NextOf(b)])] = b

HeldDataKept ==
    \A b \in DOMAIN held :
        \/ pc = "fill" /\ block = b
        \/ \A a \in Data(b, held[b]) : mem'[a] = mem[a]

\* No alloc() or free() writes into the bytes a caller holds: headers that are
\* split off, linked and merged never reach into a block in use.
HeldDataIsIntact == [][HeldDataKept]_vars

\* alloc() returns nullptr only when no gap is large enough, however the file
\* was fragmented before.
FailsOnlyWhenFull == [][AllocFails => Pool!Fitting(alloc_size) = {}]_vars

\* alloc() and free() implement a first-fit allocator over the gaps.
IsFirstFit == Pool!Spec

FairCleanSpec == CleanSpec /\ WF_vars(CleanStep)

\* Every operation returns: the free list never runs in a circle.
OperationsFinish ==
    pc # "idle" ~> pc = "idle" \/ (pc = "insert" /\ curr = NULL_OFFSET /\ ~LinksAreClear)

\* "assert(curr_block->prev_block_offset == NULL_OFFSET || ...)" and the other
\* assertions of insert_block_to_free_list() hold, and no list leads out of the
\* file.
NeverAborts == pc # "abort"
=============================================================================
