------------------------------ MODULE FirstFit ------------------------------
(***************************************************************************)
(* What FileBackedBuffer promises its caller: a first-fit allocator.  Its  *)
(* whole state is which blocks are held.  The space between them is one    *)
(* gap each, however it came to be free, and a request is served from the  *)
(* low end of the lowest gap that can hold it.                             *)
(***************************************************************************)
EXTENDS Naturals

CONSTANTS BufferEnd,     \* size of the file
          HeaderSize,    \* sizeof(BufferHeader): where the first block starts
          BlockSize,     \* sizeof(Block): what each block costs besides data
          Slack,         \* a gap is split if this much data would be left
          Sizes          \* the sizes a caller asks for

VARIABLE capacity        \* held blocks: offset -> size of their data

End(b) == b + BlockSize + capacity[b]

\* The maximal free intervals, as pairs <<first offset, offset past the last>>.
Gaps ==
    LET used   == DOMAIN capacity
        starts == ({HeaderSize} \cup {End(b) : b \in used}) \ (used \cup {BufferEnd})
        after(lo) == {b \in used \cup {BufferEnd} : b > lo}
    IN  {<<lo, CHOOSE hi \in after(lo) : \A b \in after(lo) : hi <= b>> : lo \in starts}

Room(gap) == gap[2] - gap[1] - BlockSize

Fitting(n) == {gap \in Gaps : Room(gap) >= n}

Init == capacity = [b \in {} |-> 0]

\* The lowest fitting gap is taken, all of it if too little would be left.
Alloc(n) ==
    \E gap \in Fitting(n) :
      /\ \A other \in Fitting(n) : gap[1] <= other[1]
      /\ LET size == IF Room(gap) >= n + BlockSize + Slack THEN n ELSE Room(gap)
         IN  capacity' = [b \in DOMAIN capacity \cup {gap[1]} |->
                            IF b = gap[1] THEN size ELSE capacity[b]]

Free(b) == capacity' = [c \in DOMAIN capacity \ {b} |-> capacity[c]]

Next == (\E n \in Sizes : Alloc(n)) \/ (\E b \in DOMAIN capacity : Free(b))

Spec == Init /\ [][Next]_capacity
=============================================================================
