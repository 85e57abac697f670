--------------------------- MODULE TornOperations ---------------------------
(***************************************************************************)
(* The process is killed inside alloc() or free().  The file is shared     *)
(* memory: each store is in it at once, and the next process finds as many *)
(* of an operation's stores as were executed, in the order of the program. *)
(*                                                                         *)
(* A step of FileBackedBuffer is a sequence of stores <<cell, word>>; the  *)
(* strings put() writes into a block are left out, they are in no list.    *)
(***************************************************************************)
EXTENDS BufferIteration, SequencesExt

Perform(m, stores) == FoldLeft(LAMBDA x, s : [x EXCEPT ![s[1]] = s[2]], m, stores)

\* The stores of remove_block_from_list().
UnlinkStores(m, head, b) ==
    LET p == m[PrevOf(b)]
        n == m[NextOf(b)]
    IN  << <<IF p # NULL_OFFSET THEN NextOf(p) ELSE head, n>> >>
          \o (IF n # NULL_OFFSET THEN << <<PrevOf(n), p>> >> ELSE <<>>)
          \o << <<PrevOf(b), NULL_OFFSET>>, <<NextOf(b), NULL_OFFSET>> >>

\* Wrong: the list's head leads to the block before the block leads on.
PushUsedStoresHeadFirst(m, b) ==
    LET n == m[USED_LIST]
    IN  << <<USED_LIST, b>> >>
          \o (IF n # NULL_OFFSET THEN << <<PrevOf(n), b>> >> ELSE <<>>)
          \o << <<PrevOf(b), NULL_OFFSET>>, <<NextOf(b), n>> >>

\* The stores of insert_block_to_used_list().
PushUsedStores(m, b) ==
    LET n == m[USED_LIST]
    IN  (IF n # NULL_OFFSET THEN << <<PrevOf(n), b>> >> ELSE <<>>)
          \o << <<PrevOf(b), NULL_OFFSET>>, <<NextOf(b), n>>, <<USED_LIST, b>> >>

\* The stores of insert_block_to_free_list() up to the merge.
LinkFreeStores(m, p, b, n) ==
    << <<PrevOf(b), p>>, <<NextOf(b), n>>,
       <<IF p # NULL_OFFSET THEN NextOf(p) ELSE FREE_LIST, b>> >>
      \o (IF n # NULL_OFFSET THEN << <<PrevOf(n), b>> >> ELSE <<>>)

\* The stores of the merge: the neighbours leave the list, then the size grows.
CoalesceStores(m, b) ==
    LET p == m[PrevOf(b)]
        n == m[NextOf(b)]
        joins_p == PrevContiguous(m, b)
        joins_n == NextContiguous(m, b)
        out_b == IF joins_p THEN UnlinkStores(m, FREE_LIST, b) ELSE <<>>
        out_n == IF joins_n THEN UnlinkStores(Perform(m, out_b), FREE_LIST, n) ELSE <<>>
        last  == IF joins_p THEN p ELSE b
    IN  IF ~joins_p /\ ~joins_n THEN <<>>
        ELSE out_b \o out_n \o << <<SizeOf(last), Coalesce(m, b)[SizeOf(last)]>> >>

\* Where insert_block_to_free_list() puts the block when its loop is over.
InsertStores ==
    IF curr = NULL_OFFSET THEN << <<FREE_LIST, inserted>> >>
    ELSE LinkFreeStores(mem, IF curr < inserted THEN curr ELSE mem[PrevOf(curr)],
                        inserted, IF curr < inserted THEN NULL_OFFSET ELSE curr)

\* The loop of insert_block_to_free_list() goes on; or, as in CleanSpec, a block
\* with unset links is about to become the whole free list.
NotInserting ==
    IF curr = NULL_OFFSET THEN ~LinksAreClear
    ELSE curr <= inserted /\ mem[NextOf(curr)] # NULL_OFFSET

\* What the operation that is under way, or is called next, stores in one step.
NextStores ==
    CASE pc = "idle"     -> {<<>>} \cup {UnlinkStores(mem, USED_LIST, b) : b \in DOMAIN held}
      [] pc = "scan"     -> {IF curr # NULL_OFFSET /\ mem[SizeOf(curr)] >= alloc_size
                             THEN UnlinkStores(mem, FREE_LIST, curr) ELSE <<>>}
      [] pc = "split"    -> {<< <<SizeOf(block + BlockSize + alloc_size),
                                  mem[SizeOf(block)] - alloc_size - BlockSize>> >>}
      [] pc = "shrink"   -> {<< <<SizeOf(block), alloc_size>> >>}
      [] pc = "push"     -> {PushUsedStores(mem, block)}
      [] pc = "insert"   -> {IF NotInserting THEN <<>> ELSE InsertStores}
      [] pc = "coalesce" -> {CoalesceStores(mem, inserted)}
      [] OTHER           -> {<<>>}

\* What a kill leaves in the file: some of those stores are done, in order.
Torn == UNION {{Perform(mem, SubSeq(s, 1, k)) : k \in 0 .. Len(s)} : s \in NextStores}

\* The file of the killed process is opened: the constructor of the table takes
\* every block of the used list into the new table.
Crash ==
    /\ mem' \in Torn
    /\ held' = [b \in Visited(mem', USED_LIST) |-> mem'[SizeOf(b)]]
    /\ Finish

TornSpec == Init /\ [][Crash \/ Call \/ CleanStep]_vars

----------------------------------------------------------------------------

Extent(m, b) == b .. b + BlockSize + m[SizeOf(b)] - 1

\* Followed forward, both lists end, and no two listed blocks overlap.
ForwardListsAreSound(m) ==
    LET used   == Visited(m, USED_LIST)
        free   == Visited(m, FREE_LIST)
        listed == used \cup free
    IN  /\ WalkEnds(m, USED_LIST) /\ WalkEnds(m, FREE_LIST)
        /\ used \cap free = {}
        /\ \A b \in listed : Extent(m, b) \subseteq HeaderSize .. BufferEnd - 1
        /\ \A b, c \in listed : b # c => Extent(m, b) \cap Extent(m, c) = {}

\* Whichever store of alloc() or free() is the last one executed, what the next
\* process loads is right: the used list, followed forward, has every block in
\* use, but for the one being freed, and at most the one just allocated besides;
\* and no block it has is, even in part, free ("data persistence across process
\* crashes", file_backed_buffer.hpp:14).
EveryStoreIsSafe ==
    \A m \in Torn :
      /\ ForwardListsAreSound(m)
      /\ Visited(m, USED_LIST) \in
           {DOMAIN held, DOMAIN held \cup {block}}
             \cup (IF pc = "idle" THEN {DOMAIN held \ {b} : b \in DOMAIN held} ELSE {})

\* Between operations a restart loads the blocks in use and no other.
LoadsWhatIsHeld == pc = "idle" => Visited(mem, USED_LIST) = DOMAIN held
=============================================================================
