--------------------------- MODULE BufferIteration ---------------------------
(***************************************************************************)
(* FileBackedBuffer's iterators over its two lists, and print_stats():     *)
(* operators on the state of the file they run in, for nothing they do     *)
(* changes it and they take no lock.                                       *)
(***************************************************************************)
EXTENDS FileBackedBuffer, FiniteSetsExt

\* const_iterator::operator++() and operator--(), from a block or from end().
Forth(m, b) == IF b = NULL_OFFSET THEN b ELSE m[NextOf(b)]
Back(m, b)  == IF b = NULL_OFFSET THEN b ELSE m[PrevOf(b)]

MaxBlocks == BufferEnd \div BlockSize

\* Where a walk from the offset in cell head gets in as many steps as there can
\* be blocks: end() is among them unless it leaves the file or runs in a circle.
Reached(m, head) ==
    LET upto[n \in 0 .. MaxBlocks] ==
          IF n = 0 THEN {m[head]}
          ELSE LET sofar == upto[n - 1]
               IN  sofar \cup {Forth(m, b) : b \in {c \in sofar : ~Wild(c)}}
    IN  upto[MaxBlocks]

WalkEnds(m, head) == NULL_OFFSET \in Reached(m, head)

\* The blocks that begin() to end() visits: begin_used() and begin_free().
Visited(m, head) == Reached(m, head) \ {NULL_OFFSET}

\* Wrong: what a block takes in the file is more than its data.
StatsOfData(m, head) ==
    LET blocks == Visited(m, head)
    IN  [num_blocks |-> Cardinality(blocks),
         largest_block_size |-> Max({m[SizeOf(b)] : b \in blocks} \cup {0}),
         total_block_size |-> MapThenSumSet(LAMBDA b : m[SizeOf(b)], blocks)]

\* One half of print_stats(): a block's size is that of its data and its header.
Stats(m, head) ==
    LET blocks == Visited(m, head)
        size(b) == m[SizeOf(b)] + BlockSize
    IN  [num_blocks |-> Cardinality(blocks),
         largest_block_size |-> Max({size(b) : b \in blocks} \cup {0}),
         total_block_size |-> MapThenSumSet(size, blocks)]

\* The numerator of the fragmentation that print_stats() reports.
FragmentedSpace(free) == free.total_block_size - free.largest_block_size

\* Between operations both walks end, visit the blocks in use and the gaps each
\* once, and operator--() leads back the way operator++() came.
WalksAreExact ==
    pc = "idle" =>
      /\ \A head \in {USED_LIST, FREE_LIST} :
           /\ WalkEnds(mem, head)
           /\ \A b \in Visited(mem, head) :
                Forth(mem, b) # NULL_OFFSET => Back(mem, Forth(mem, b)) = b
      /\ Visited(mem, USED_LIST) = DOMAIN held
      /\ Visited(mem, FREE_LIST) = GapStarts

\* Between operations the totals print_stats() reports account for every byte of
\* the file, and the fragmentation is zero exactly if a single block could take
\* all the free space.
StatsAddUp ==
    pc = "idle" =>
      LET used == Stats(mem, USED_LIST)
          free == Stats(mem, FREE_LIST)
      IN  /\ HeaderSize + used.total_block_size + free.total_block_size = BufferEnd
          /\ used.num_blocks = Cardinality(DOMAIN held)
          /\ FragmentedSpace(free) = 0 <=> Cardinality(Pool!Gaps) <= 1
=============================================================================
