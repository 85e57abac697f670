----------------------- MODULE FileBackedBufferProofs -----------------------
(***************************************************************************)
(* Proofs about alloc() and free(), for every size of the file, every set  *)
(* of sizes asked for and whatever the callers' strings look like, of the  *)
(* executions that do not put a block with unset links into an empty free  *)
(* list (CleanSpec).                                                       *)
(*                                                                         *)
(* Both lists are sorted: the free list by offset, the used list by the    *)
(* time a block was put in front.  The first part proves, of any list in   *)
(* an order, that unlinking and linking a block keep it a list in that     *)
(* order and touch no cell but links.  The second part is the invariant:   *)
(* the file is tiled by blocks, each of which is in one list or in the     *)
(* hands of the operation that is under way.                               *)
(***************************************************************************)
EXTENDS FileBackedBuffer, Integers, TLAPS

Word    == 0 .. BufferEnd \cup Words
Memory  == [Cells -> Word]
Offsets == HeaderSize .. BufferEnd - BlockSize

\* No two of the blocks share a cell of their headers.
Apart(S) == S \subseteq Offsets /\ \A b, c \in S : b < c => b + BlockSize <= c

\* x is what follows, or precedes, f in S by the order r; 0 if nothing does.
Follows(S, r, f, x)  == IF x = NULL_OFFSET THEN \A g \in S : r[g] <= r[f]
                        ELSE x \in S /\ r[f] < r[x] /\ \A g \in S : r[g] <= r[f] \/ r[x] <= r[g]
Precedes(S, r, f, x) == IF x = NULL_OFFSET THEN \A g \in S : r[f] <= r[g]
                        ELSE x \in S /\ r[x] < r[f] /\ \A g \in S : r[f] <= r[g] \/ r[g] <= r[x]

\* x is the first of S; 0 if it is empty.
IsFirst(S, r, x) == IF x = NULL_OFFSET THEN S = {} ELSE x \in S /\ \A g \in S : r[x] <= r[g]

Ranks(S, r) == \A f, g \in S : r[f] \in Int /\ (r[f] = r[g] => f = g)

\* The list at head links the blocks of S in the order r.
Linked(m, head, S, r) ==
    /\ Ranks(S, r)
    /\ IsFirst(S, r, m[head])
    /\ \A f \in S : Follows(S, r, f, m[NextOf(f)]) /\ Precedes(S, r, f, m[PrevOf(f)])

Links(S) == S \cup {NextOf(b) : b \in S}

Heads == {FREE_LIST, USED_LIST}

\* Words are numbers, and offsets and sizes are words.
LEMMA WordsAreNumbers ==
    /\ Word \subseteq Nat /\ 0 .. BufferEnd \subseteq Word /\ Offsets \subseteq Word
    /\ BufferEnd \in Nat /\ NULL_OFFSET \in Word
<1>1. BufferEnd \in Nat /\ Words \subseteq Nat
  BY BufferAssumption
<1> QED
  BY <1>1 DEF Word, Offsets, HeaderSize, BlockSize, NULL_OFFSET

\* The cells of headers that are apart are all different, and are no head.
LEMMA HeaderCells ==
    ASSUME NEW S, Apart(S)
    PROVE  /\ \A b \in S : /\ b \in Nat /\ b >= 2
                           /\ PrevOf(b) = b /\ NextOf(b) = b + 1 /\ SizeOf(b) = b + 2
                           /\ {b, b + 1, b + 2} \subseteq Cells
           /\ \A b, c \in S : b # c => {b, b + 1, b + 2} \cap {c, c + 1, c + 2} = {}
           /\ Heads \subseteq Cells
<1>1. BufferEnd \in Nat /\ BufferEnd >= 5
  BY BufferAssumption DEF HeaderSize, BlockSize
<1>2. S \subseteq 2 .. BufferEnd - 3 /\ \A b, c \in S : b < c => b + 3 <= c
  BY DEF Apart, Offsets, HeaderSize, BlockSize
<1> QED
  BY <1>1, <1>2 DEF Cells, PrevOf, NextOf, SizeOf, Heads, FREE_LIST, USED_LIST

\* A block's neighbours in a list are others, not the same, and point back.
LEMMA Neighbours ==
    ASSUME NEW S, NEW m, NEW r, NEW head, Linked(m, head, S, r), NEW b \in S, NULL_OFFSET \notin S
    PROVE  LET p == m[PrevOf(b)]
               n == m[NextOf(b)]
           IN  /\ p # NULL_OFFSET => p \in S /\ p # b /\ r[p] < r[b] /\ m[NextOf(p)] = b
               /\ n # NULL_OFFSET => n \in S /\ n # b /\ r[b] < r[n] /\ m[PrevOf(n)] = b
               /\ p = n => p = NULL_OFFSET
               /\ p = NULL_OFFSET <=> m[head] = b
<1> DEFINE p == m[PrevOf(b)]
           n == m[NextOf(b)]
<1>1. Ranks(S, r) /\ IsFirst(S, r, m[head])
  BY DEF Linked
<1>2. Follows(S, r, b, n) /\ Precedes(S, r, b, p)
  BY DEF Linked
<1>3. \A f \in S : r[f] \in Int
  BY <1>1 DEF Ranks
<1>4. p # NULL_OFFSET => p \in S /\ p # b /\ r[p] < r[b]
  BY <1>2, <1>3 DEF Precedes
<1>5. n # NULL_OFFSET => n \in S /\ n # b /\ r[b] < r[n]
  BY <1>2, <1>3 DEF Follows
<1>6. ASSUME p # NULL_OFFSET
      PROVE  m[NextOf(p)] = b
  <2>1. p \in S /\ Follows(S, r, p, m[NextOf(p)]) /\ r[p] < r[b]
    BY <1>4, <1>6 DEF Linked
  <2>2. m[NextOf(p)] # NULL_OFFSET
    BY <1>3, <2>1 DEF Follows
  <2>3. m[NextOf(p)] \in S /\ r[p] < r[m[NextOf(p)]] /\ r[m[NextOf(p)]] <= r[b]
    BY <1>3, <2>1, <2>2 DEF Follows
  <2>4. r[b] <= r[m[NextOf(p)]]
    BY <1>2, <1>3, <1>6, <2>1, <2>3 DEF Precedes
  <2> QED
    BY <1>1, <1>3, <2>3, <2>4 DEF Ranks
<1>7. ASSUME n # NULL_OFFSET
      PROVE  m[PrevOf(n)] = b
  <2>1. n \in S /\ Precedes(S, r, n, m[PrevOf(n)]) /\ r[b] < r[n]
    BY <1>5, <1>7 DEF Linked
  <2>2. m[PrevOf(n)] # NULL_OFFSET
    BY <1>3, <2>1 DEF Precedes
  <2>3. m[PrevOf(n)] \in S /\ r[m[PrevOf(n)]] < r[n] /\ r[b] <= r[m[PrevOf(n)]]
    BY <1>3, <2>1, <2>2 DEF Precedes
  <2>4. r[m[PrevOf(n)]] <= r[b]
    BY <1>2, <1>3, <1>7, <2>1, <2>3 DEF Follows
  <2> QED
    BY <1>1, <1>3, <2>3, <2>4 DEF Ranks
<1>8. p = n => p = NULL_OFFSET
  BY <1>3, <1>4, <1>5
<1>9. p = NULL_OFFSET <=> m[head] = b
  <2>1. p = NULL_OFFSET => m[head] = b
    <3> SUFFICES ASSUME p = NULL_OFFSET
                 PROVE  m[head] = b
      OBVIOUS
    <3>1. \A g \in S : r[b] <= r[g]
      BY <1>2 DEF Precedes
    <3>2. m[head] \in S /\ r[m[head]] <= r[b]
      BY <1>1 DEF IsFirst
    <3> QED
      BY <1>1, <1>3, <3>1, <3>2 DEF Ranks
  <2>2. m[head] = b => p = NULL_OFFSET
    <3> SUFFICES ASSUME m[head] = b, p # NULL_OFFSET
                 PROVE  FALSE
      OBVIOUS
    <3>1. \A g \in S : r[b] <= r[g]
      BY <1>1 DEF IsFirst
    <3> QED
      BY <1>3, <1>4, <3>1
  <2> QED
    BY <2>1, <2>2
<1> QED
  BY <1>4, <1>5, <1>6, <1>7, <1>8, <1>9

\* What is not a link of a list, nor its head, is none of its business.
LEMMA LinkedFrame ==
    ASSUME NEW S, NEW m, NEW M, NEW r, NEW head, Linked(m, head, S, r),
           M[head] = m[head], \A a \in Links(S) : M[a] = m[a]
    PROVE  Linked(M, head, S, r)
<1>1. \A f \in S : M[NextOf(f)] = m[NextOf(f)] /\ M[PrevOf(f)] = m[PrevOf(f)]
  BY DEF Links, PrevOf
<1> QED
  BY <1>1 DEF Linked

\* What remove_block_from_list() writes, cell by cell.
LEMMA UnlinkCells ==
    ASSUME NEW S, Apart(S), NEW m \in Memory, NEW head \in Heads, NEW b \in S,
           NEW p, p = m[PrevOf(b)], NEW n, n = m[NextOf(b)],
           p # NULL_OFFSET => p \in S \ {b}, n # NULL_OFFSET => n \in S \ {b}
    PROVE  LET M == Unlink(m, head, b)
           IN  /\ M \in Memory
               /\ M[head] = IF p = NULL_OFFSET THEN n ELSE m[head]
               /\ \A f \in S \ {b} : /\ M[NextOf(f)] = IF f = p THEN n ELSE m[NextOf(f)]
                                     /\ M[PrevOf(f)] = IF f = n THEN p ELSE m[PrevOf(f)]
               /\ M[PrevOf(b)] = NULL_OFFSET /\ M[NextOf(b)] = NULL_OFFSET
               /\ \A a \in Cells : a # head /\ a \notin Links(S) => M[a] = m[a]
<1> DEFINE M == Unlink(m, head, b)
           x == IF p # NULL_OFFSET THEN p + 1 ELSE head
           y == IF n # NULL_OFFSET THEN n ELSE b
<1>1. /\ \A f \in S : /\ f \in Nat /\ f >= 2 /\ PrevOf(f) = f /\ NextOf(f) = f + 1
                      /\ f \in Cells /\ f + 1 \in Cells
      /\ \A f, g \in S : f # g => f # g + 1 /\ f + 1 # g /\ f + 1 # g + 1
      /\ head \in Cells /\ head \in {0, 1}
  <2>1. \A f, g \in S : f # g => {f, f + 1, f + 2} \cap {g, g + 1, g + 2} = {}
    BY HeaderCells
  <2>2. \A f \in S : /\ f \in Nat /\ f >= 2 /\ PrevOf(f) = f /\ NextOf(f) = f + 1
                     /\ f \in Cells /\ f + 1 \in Cells
    BY HeaderCells
  <2>3. head \in Cells /\ head \in {0, 1}
    BY HeaderCells DEF Heads, FREE_LIST, USED_LIST
  <2>4. \A f, g \in S : f # g => f # g + 1 /\ f + 1 # g /\ f + 1 # g + 1
    BY <2>1
  <2> QED
    BY <2>2, <2>3, <2>4
<1>2. /\ x \in Cells /\ y \in Cells /\ b \in Cells /\ b + 1 \in Cells
      /\ p \in Word /\ n \in Word /\ NULL_OFFSET \in Word
  BY <1>1, WordsAreNumbers DEF Memory
<1>3. M = [m EXCEPT ![x] = n, ![y] = p, ![b] = NULL_OFFSET, ![b + 1] = NULL_OFFSET]
  <2>1. p # NULL_OFFSET => NextOf(p) = p + 1
    BY <1>1
  <2>2. n # NULL_OFFSET => PrevOf(n) = n
    BY <1>1
  <2> QED
    BY <1>1, <2>1, <2>2 DEF Unlink
<1> HIDE DEF M, x, y
<1>4. /\ M \in Memory
      /\ \A a \in Cells : M[a] = IF a \in {b, b + 1} THEN NULL_OFFSET
                                 ELSE IF a = y THEN p ELSE IF a = x THEN n ELSE m[a]
  BY <1>2, <1>3 DEF Memory
<1>5. M[head] = IF p = NULL_OFFSET THEN n ELSE m[head]
  <2>1. head \notin {b, b + 1} /\ head # y
    BY <1>1 DEF y
  <2>2. head = x <=> p = NULL_OFFSET
    BY <1>1 DEF x
  <2> QED
    BY <1>1, <1>4, <2>1, <2>2
<1>6. ASSUME NEW f \in S \ {b}
      PROVE  /\ M[NextOf(f)] = IF f = p THEN n ELSE m[NextOf(f)]
             /\ M[PrevOf(f)] = IF f = n THEN p ELSE m[PrevOf(f)]
  <2>1. {f, f + 1} \cap {b, b + 1} = {}
    BY <1>1
  <2>2. f + 1 # y /\ (f + 1 = x <=> f = p)
    BY <1>1 DEF x, y, NULL_OFFSET
  <2>3. f # x /\ (f = y <=> f = n)
    BY <1>1 DEF x, y, NULL_OFFSET
  <2> QED
    BY <1>1, <1>4, <2>1, <2>2, <2>3
<1>7. M[PrevOf(b)] = NULL_OFFSET /\ M[NextOf(b)] = NULL_OFFSET
  BY <1>1, <1>4
<1>8. ASSUME NEW a \in Cells, a # head, a \notin Links(S)
      PROVE  M[a] = m[a]
  <2>1. a \notin {b, b + 1} /\ a # x /\ a # y
    BY <1>1, <1>8 DEF x, y, Links
  <2> QED
    BY <1>4, <2>1
<1> QED
  BY <1>4, <1>5, <1>6, <1>7, <1>8 DEF M

\* Taking a block out of a list leaves a list in the same order, clears the block's
\* links, and writes nothing but links and the head.
LEMMA UnlinkKeepsList ==
    ASSUME NEW S, Apart(S), NEW m \in Memory, NEW head \in Heads, NEW r,
           Linked(m, head, S, r), NEW b \in S
    PROVE  LET M == Unlink(m, head, b)
           IN  /\ M \in Memory
               /\ Linked(M, head, S \ {b}, r)
               /\ M[PrevOf(b)] = NULL_OFFSET /\ M[NextOf(b)] = NULL_OFFSET
               /\ \A a \in Cells : a # head /\ a \notin Links(S) => M[a] = m[a]
<1> DEFINE M == Unlink(m, head, b)
           T == S \ {b}
<1>1. NULL_OFFSET \notin S
  BY HeaderCells DEF NULL_OFFSET
<1>2. PICK p : p = m[PrevOf(b)]
  OBVIOUS
<1>3. PICK n : n = m[NextOf(b)]
  OBVIOUS
<1>4. /\ p # NULL_OFFSET => p \in S /\ p # b /\ r[p] < r[b] /\ m[NextOf(p)] = b
      /\ n # NULL_OFFSET => n \in S /\ n # b /\ r[b] < r[n] /\ m[PrevOf(n)] = b
      /\ p = NULL_OFFSET <=> m[head] = b
  BY <1>1, <1>2, <1>3, Neighbours
<1>5. /\ M \in Memory
      /\ M[head] = IF p = NULL_OFFSET THEN n ELSE m[head]
      /\ \A f \in T : /\ M[NextOf(f)] = IF f = p THEN n ELSE m[NextOf(f)]
                      /\ M[PrevOf(f)] = IF f = n THEN p ELSE m[PrevOf(f)]
      /\ M[PrevOf(b)] = NULL_OFFSET /\ M[NextOf(b)] = NULL_OFFSET
      /\ \A a \in Cells : a # head /\ a \notin Links(S) => M[a] = m[a]
  BY <1>2, <1>3, <1>4, UnlinkCells
<1> HIDE DEF M
<1>6. /\ Ranks(S, r) /\ \A f \in S : r[f] \in Int
      /\ IsFirst(S, r, m[head]) /\ Follows(S, r, b, n) /\ Precedes(S, r, b, p)
  BY <1>2, <1>3 DEF Linked, Ranks
<1>7. Ranks(T, r)
  BY <1>6 DEF Ranks
<1>8. IsFirst(T, r, M[head])
  <2>1. CASE p = NULL_OFFSET
    <3>1. M[head] = n /\ \A g \in S : r[b] <= r[g]
      BY <1>5, <1>6, <2>1 DEF Precedes
    <3>2. CASE n = NULL_OFFSET
      <4>1. \A g \in S : r[g] = r[b]
        BY <1>6, <3>1, <3>2 DEF Follows
      <4>2. S = {b}
        BY <1>6, <4>1 DEF Ranks
      <4> QED
        BY <3>1, <3>2, <4>2 DEF IsFirst
    <3>3. CASE n # NULL_OFFSET
      <4>1. n \in T
        BY <1>4, <3>3
      <4>2. \A g \in T : r[n] <= r[g]
        <5>1. \A g \in T : ~ (r[g] <= r[b])
          BY <1>6, <3>1 DEF Ranks
        <5> QED
          BY <1>6, <3>3, <5>1 DEF Follows
      <4> QED
        BY <3>1, <3>3, <4>1, <4>2 DEF IsFirst
    <3> QED
      BY <3>2, <3>3
  <2>2. CASE p # NULL_OFFSET
    <3>1. M[head] = m[head] /\ m[head] # b
      BY <1>4, <1>5, <2>2
    <3>2. m[head] # NULL_OFFSET
      BY <1>6 DEF IsFirst
    <3> QED
      BY <1>6, <3>1, <3>2 DEF IsFirst
  <2> QED
    BY <2>1, <2>2
<1>9. ASSUME NEW f \in T
      PROVE  Follows(T, r, f, M[NextOf(f)])
  <2>1. Follows(S, r, f, m[NextOf(f)])
    BY DEF Linked
  <2>2. CASE f = p
    <3>1. M[NextOf(f)] = n /\ f # NULL_OFFSET
      BY <1>1, <1>5, <2>2
    <3>2. m[NextOf(f)] = b /\ r[f] < r[b]
      BY <1>4, <2>2, <3>1
    <3>3. b # NULL_OFFSET
      BY <1>1
    <3>4. \A g \in S : r[g] <= r[f] \/ r[b] <= r[g]
      BY <2>1, <3>2, <3>3 DEF Follows
    <3>5. \A g \in T : r[g] # r[b]
      BY <1>6 DEF Ranks
    <3>6. CASE n = NULL_OFFSET
      <4>1. \A g \in S : r[g] <= r[b]
        BY <1>6, <3>6 DEF Follows
      <4>2. \A g \in T : r[g] <= r[f]
        BY <1>6, <3>4, <3>5, <4>1
      <4> QED
        BY <3>1, <3>6, <4>2 DEF Follows
    <3>7. CASE n # NULL_OFFSET
      <4>1. \A g \in S : r[g] <= r[b] \/ r[n] <= r[g]
        BY <1>6, <3>7 DEF Follows
      <4>2. \A g \in T : r[g] <= r[f] \/ r[n] <= r[g]
        BY <1>6, <3>4, <3>5, <4>1
      <4>3. n \in T /\ r[f] < r[n]
        BY <1>4, <1>6, <3>2, <3>7
      <4> QED
        BY <3>1, <3>7, <4>2, <4>3 DEF Follows
    <3> QED
      BY <3>6, <3>7
  <2>3. CASE f # p
    <3>1. M[NextOf(f)] = m[NextOf(f)]
      BY <1>5, <2>3
    <3>2. m[NextOf(f)] # b
      <4> SUFFICES ASSUME m[NextOf(f)] = b
                   PROVE  FALSE
        OBVIOUS
      <4>1. m[PrevOf(b)] = f
        BY <1>1, Neighbours
      <4> QED
        BY <1>2, <2>3, <4>1
    <3> QED
      BY <2>1, <3>1, <3>2 DEF Follows
  <2> QED
    BY <2>2, <2>3
<1>10. ASSUME NEW f \in T
       PROVE  Precedes(T, r, f, M[PrevOf(f)])
  <2>1. Precedes(S, r, f, m[PrevOf(f)])
    BY DEF Linked
  <2>2. CASE f = n
    <3>1. M[PrevOf(f)] = p /\ f # NULL_OFFSET
      BY <1>1, <1>5, <2>2
    <3>2. m[PrevOf(f)] = b /\ r[b] < r[f]
      BY <1>4, <2>2, <3>1
    <3>3. b # NULL_OFFSET
      BY <1>1
    <3>4. \A g \in S : r[f] <= r[g] \/ r[g] <= r[b]
      BY <2>1, <3>2, <3>3 DEF Precedes
    <3>5. \A g \in T : r[g] # r[b]
      BY <1>6 DEF Ranks
    <3>6. CASE p = NULL_OFFSET
      <4>1. \A g \in S : r[b] <= r[g]
        BY <1>6, <3>6 DEF Precedes
      <4>2. \A g \in T : r[f] <= r[g]
        BY <1>6, <3>4, <3>5, <4>1
      <4> QED
        BY <3>1, <3>6, <4>2 DEF Precedes
    <3>7. CASE p # NULL_OFFSET
      <4>1. \A g \in S : r[b] <= r[g] \/ r[g] <= r[p]
        BY <1>6, <3>7 DEF Precedes
      <4>2. \A g \in T : r[f] <= r[g] \/ r[g] <= r[p]
        BY <1>6, <3>4, <3>5, <4>1
      <4>3. p \in T /\ r[p] < r[f]
        BY <1>4, <1>6, <3>2, <3>7
      <4> QED
        BY <3>1, <3>7, <4>2, <4>3 DEF Precedes
    <3> QED
      BY <3>6, <3>7
  <2>3. CASE f # n
    <3>1. M[PrevOf(f)] = m[PrevOf(f)]
      BY <1>5, <2>3
    <3>2. m[PrevOf(f)] # b
      <4> SUFFICES ASSUME m[PrevOf(f)] = b
                   PROVE  FALSE
        OBVIOUS
      <4>1. m[NextOf(b)] = f
        BY <1>1, Neighbours
      <4> QED
        BY <1>3, <2>3, <4>1
    <3> QED
      BY <2>1, <3>1, <3>2 DEF Precedes
  <2> QED
    BY <2>2, <2>3
<1>11. Linked(M, head, T, r)
  BY <1>7, <1>8, <1>9, <1>10 DEF Linked
<1> QED
  BY <1>5, <1>11 DEF M

\* A block that gets the neighbours its rank calls for, and becomes theirs, is in
\* the list.
LEMMA InsertKeepsList ==
    ASSUME NEW S, NEW m, NEW M, NEW r, NEW head, Linked(m, head, S, r), NULL_OFFSET \notin S,
           NEW b, b \notin S, b # NULL_OFFSET, Ranks(S \cup {b}, r),
           NEW p, Precedes(S \cup {b}, r, b, p), NEW n, Follows(S \cup {b}, r, b, n),
           M[head] = (IF p = NULL_OFFSET THEN b ELSE m[head]),
           M[PrevOf(b)] = p, M[NextOf(b)] = n,
           \A f \in S : /\ M[NextOf(f)] = IF f = p THEN b ELSE m[NextOf(f)]
                        /\ M[PrevOf(f)] = IF f = n THEN b ELSE m[PrevOf(f)]
    PROVE  Linked(M, head, S \cup {b}, r)
<1> DEFINE T == S \cup {b}
<1>1. /\ \A f, g \in T : r[f] \in Int /\ (r[f] = r[g] => f = g)
      /\ IsFirst(S, r, m[head])
      /\ \A f \in S : Follows(S, r, f, m[NextOf(f)]) /\ Precedes(S, r, f, m[PrevOf(f)])
  BY DEF Linked, Ranks
<1>2. p # NULL_OFFSET => p \in S /\ r[p] < r[b]
  BY <1>1 DEF Precedes
<1>3. n # NULL_OFFSET => n \in S /\ r[b] < r[n]
  BY <1>1 DEF Follows
<1>4. \A g \in T : r[g] < r[b] => p # NULL_OFFSET /\ r[g] <= r[p]
  BY <1>1, <1>2 DEF Precedes
<1>5. \A g \in T : r[b] < r[g] => n # NULL_OFFSET /\ r[n] <= r[g]
  BY <1>1, <1>3 DEF Follows
<1>6. IsFirst(T, r, M[head])
  <2>1. CASE p = NULL_OFFSET
    <3>1. \A g \in T : r[b] <= r[g]
      BY <2>1 DEF Precedes
    <3> QED
      BY <2>1, <3>1 DEF IsFirst
  <2>2. CASE p # NULL_OFFSET
    <3>1. m[head] \in S /\ m[head] # NULL_OFFSET /\ \A g \in S : r[m[head]] <= r[g]
      BY <1>1, <1>2, <2>2 DEF IsFirst
    <3>2. r[m[head]] <= r[b]
      BY <1>1, <1>2, <2>2, <3>1
    <3> QED
      BY <2>2, <3>1, <3>2 DEF IsFirst
  <2> QED
    BY <2>1, <2>2
<1>7. ASSUME NEW f \in T
      PROVE  Follows(T, r, f, M[NextOf(f)])
  <2>1. CASE f = b
    BY <2>1
  <2>2. CASE f \in S /\ f = p
    <3>1. M[NextOf(f)] = b /\ r[f] < r[b]
      BY <1>2, <2>2
    <3>2. \A g \in T : r[g] <= r[f] \/ r[b] <= r[g]
      BY <1>1, <1>4, <2>2
    <3> QED
      BY <3>1, <3>2 DEF Follows
  <2>3. CASE f \in S /\ f # p
    <3>1. M[NextOf(f)] = m[NextOf(f)]
      BY <2>3
    <3>2. r[f] < r[b] => p # NULL_OFFSET /\ p \in S /\ r[f] < r[p] /\ r[p] < r[b]
      BY <1>1, <1>2, <1>4, <2>3
    <3>3. CASE m[NextOf(f)] = NULL_OFFSET
      <4>1. \A g \in S : r[g] <= r[f]
        BY <1>1, <2>3, <3>3 DEF Follows
      <4>2. r[b] <= r[f]
        BY <1>1, <2>3, <3>2, <4>1
      <4> QED
        BY <3>1, <3>3, <4>1, <4>2 DEF Follows
    <3>4. CASE m[NextOf(f)] # NULL_OFFSET
      <4>1. PICK x : x = m[NextOf(f)]
        OBVIOUS
      <4>2. x \in S /\ r[f] < r[x] /\ \A g \in S : r[g] <= r[f] \/ r[x] <= r[g]
        BY <1>1, <2>3, <3>4, <4>1 DEF Follows
      <4>3. r[b] <= r[f] \/ r[x] <= r[b]
        BY <1>1, <2>3, <3>2, <4>2
      <4> QED
        BY <3>1, <3>4, <4>1, <4>2, <4>3 DEF Follows
    <3> QED
      BY <3>3, <3>4
  <2> QED
    BY <2>1, <2>2, <2>3
<1>8. ASSUME NEW f \in T
      PROVE  Precedes(T, r, f, M[PrevOf(f)])
  <2>1. CASE f = b
    BY <2>1
  <2>2. CASE f \in S /\ f = n
    <3>1. M[PrevOf(f)] = b /\ r[b] < r[f]
      BY <1>3, <2>2
    <3>2. \A g \in T : r[f] <= r[g] \/ r[g] <= r[b]
      BY <1>1, <1>5, <2>2
    <3> QED
      BY <3>1, <3>2 DEF Precedes
  <2>3. CASE f \in S /\ f # n
    <3>1. M[PrevOf(f)] = m[PrevOf(f)]
      BY <2>3
    <3>2. r[b] < r[f] => n # NULL_OFFSET /\ n \in S /\ r[n] < r[f] /\ r[b] < r[n]
      BY <1>1, <1>3, <1>5, <2>3
    <3>3. CASE m[PrevOf(f)] = NULL_OFFSET
      <4>1. \A g \in S : r[f] <= r[g]
        BY <1>1, <2>3, <3>3 DEF Precedes
      <4>2. r[f] <= r[b]
        BY <1>1, <2>3, <3>2, <4>1
      <4> QED
        BY <3>1, <3>3, <4>1, <4>2 DEF Precedes
    <3>4. CASE m[PrevOf(f)] # NULL_OFFSET
      <4>1. PICK x : x = m[PrevOf(f)]
        OBVIOUS
      <4>2. x \in S /\ r[x] < r[f] /\ \A g \in S : r[f] <= r[g] \/ r[g] <= r[x]
        BY <1>1, <2>3, <3>4, <4>1 DEF Precedes
      <4>3. r[f] <= r[b] \/ r[b] <= r[x]
        BY <1>1, <2>3, <3>2, <4>2
      <4> QED
        BY <3>1, <3>4, <4>1, <4>2, <4>3 DEF Precedes
    <3> QED
      BY <3>3, <3>4
  <2> QED
    BY <2>1, <2>2, <2>3
<1> QED
  BY <1>6, <1>7, <1>8 DEF Linked

\* insert_block_to_free_list() up to the merge puts a block between its neighbours
\* in the order of the file.
LEMMA LinkFreeKeepsList ==
    ASSUME NEW S, NEW b, b \notin S, NEW T, T = S \cup {b}, Apart(T), NEW m \in Memory,
           NEW r, Linked(m, FREE_LIST, S, r), Ranks(T, r),
           NEW p, Precedes(T, r, b, p), NEW n, Follows(T, r, b, n)
    PROVE  LET M == LinkFree(m, p, b, n)
           IN  /\ M \in Memory
               /\ Linked(M, FREE_LIST, T, r)
               /\ \A a \in Cells : a # FREE_LIST /\ a \notin Links(T) => M[a] = m[a]
<1> DEFINE M == LinkFree(m, p, b, n)
           x == IF p # NULL_OFFSET THEN p + 1 ELSE FREE_LIST
           y == IF n # NULL_OFFSET THEN n ELSE b
           w == IF n # NULL_OFFSET THEN b ELSE p
<1>1. /\ \A f \in T : /\ f \in Nat /\ f >= 2 /\ PrevOf(f) = f /\ NextOf(f) = f + 1
                      /\ f \in Cells /\ f + 1 \in Cells
      /\ \A f, g \in T : f # g => {f, f + 1, f + 2} \cap {g, g + 1, g + 2} = {}
      /\ FREE_LIST \in Cells
  BY HeaderCells DEF Heads
<1>2. \A f, g \in T : f # g => f # g + 1 /\ f + 1 # g /\ f + 1 # g + 1
  BY <1>1
<1>3. /\ p # NULL_OFFSET => p \in S
      /\ n # NULL_OFFSET => n \in S
      /\ p = n => p = NULL_OFFSET
  <2>1. \A f \in T : r[f] \in Int
    BY DEF Ranks
  <2>2. p # NULL_OFFSET => p \in S /\ r[p] < r[b]
    BY <2>1 DEF Precedes
  <2>3. n # NULL_OFFSET => n \in S /\ r[b] < r[n]
    BY <2>1 DEF Follows
  <2> QED
    BY <2>1, <2>2, <2>3
<1>4. /\ x \in Cells /\ y \in Cells /\ b \in Cells /\ b + 1 \in Cells
      /\ p \in Word /\ n \in Word /\ b \in Word
  <2>1. T \subseteq Word /\ NULL_OFFSET \in Word
    BY WordsAreNumbers DEF Apart
  <2> QED
    BY <1>1, <1>3, <2>1
<1>5. M = [m EXCEPT ![b] = p, ![b + 1] = n, ![x] = b, ![y] = w]
  BY <1>1, <1>3 DEF LinkFree
<1> HIDE DEF M, x, y, w
<1>6. /\ M \in Memory
      /\ \A a \in Cells : M[a] = IF a = y THEN w ELSE IF a = x THEN b
                                 ELSE IF a = b + 1 THEN n ELSE IF a = b THEN p ELSE m[a]
  BY <1>4, <1>5 DEF Memory, w
<1>7. M[FREE_LIST] = IF p = NULL_OFFSET THEN b ELSE m[FREE_LIST]
  <2>1. FREE_LIST \notin {b, b + 1} /\ FREE_LIST # y
    BY <1>1, <1>3 DEF y, FREE_LIST
  <2>2. FREE_LIST = x <=> p = NULL_OFFSET
    BY <1>1, <1>3 DEF x, FREE_LIST
  <2> QED
    BY <1>1, <1>6, <2>1, <2>2
<1>8. M[PrevOf(b)] = p /\ M[NextOf(b)] = n
  <2>1. b # x /\ b + 1 # x /\ b + 1 # y /\ b # b + 1
    BY <1>1, <1>2, <1>3 DEF x, y, FREE_LIST
  <2>2. b = y => w = p
    BY <1>1, <1>3 DEF y, w
  <2> QED
    BY <1>1, <1>4, <1>6, <2>1, <2>2
<1>9. ASSUME NEW f \in S
      PROVE  /\ M[NextOf(f)] = IF f = p THEN b ELSE m[NextOf(f)]
             /\ M[PrevOf(f)] = IF f = n THEN b ELSE m[PrevOf(f)]
  <2>1. {f, f + 1} \cap {b, b + 1} = {}
    BY <1>1
  <2>2. f + 1 # y /\ (f + 1 = x <=> f = p)
    BY <1>1, <1>2, <1>3 DEF x, y, NULL_OFFSET, FREE_LIST
  <2>3. f # x /\ (f = y <=> f = n)
    BY <1>1, <1>2, <1>3 DEF x, y, NULL_OFFSET, FREE_LIST
  <2>4. f = n => w = b
    BY <1>1 DEF w, NULL_OFFSET
  <2>5. /\ M[f + 1] = IF f = p THEN b ELSE m[f + 1]
        /\ M[f] = IF f = n THEN b ELSE m[f]
    BY <1>1, <1>6, <2>1, <2>2, <2>3, <2>4
  <2> QED
    BY <1>1, <2>5
<1>10. Linked(M, FREE_LIST, T, r)
  <2>1. NULL_OFFSET \notin S /\ b # NULL_OFFSET
    BY <1>1 DEF NULL_OFFSET
  <2> QED
    BY <1>7, <1>8, <1>9, <2>1, InsertKeepsList
<1>11. ASSUME NEW a \in Cells, a # FREE_LIST, a \notin Links(T)
       PROVE  M[a] = m[a]
  <2>1. a \notin {b, b + 1} /\ a # x /\ a # y
    BY <1>1, <1>3, <1>11 DEF x, y, Links
  <2> QED
    BY <1>6, <2>1
<1> QED
  BY <1>6, <1>10, <1>11 DEF M

\* insert_block_to_used_list() puts a block in front of the others, whatever its
\* links were.
LEMMA PushUsedKeepsList ==
    ASSUME NEW S, NEW b, b \notin S, Apart(S \cup {b}), NEW m \in Memory, NEW r,
           Linked(m, USED_LIST, S, r), Ranks(S \cup {b}, r), \A g \in S : r[b] < r[g]
    PROVE  LET M == PushUsed(m, b)
           IN  /\ M \in Memory
               /\ Linked(M, USED_LIST, S \cup {b}, r)
               /\ \A a \in Cells : a # USED_LIST /\ a \notin Links(S \cup {b}) => M[a] = m[a]
<1> DEFINE M == PushUsed(m, b)
           T == S \cup {b}
<1>1. PICK n : n = m[USED_LIST]
  OBVIOUS
<1> DEFINE y == IF n # NULL_OFFSET THEN n ELSE b
<1>2. /\ \A f \in T : /\ f \in Nat /\ f >= 2 /\ PrevOf(f) = f /\ NextOf(f) = f + 1
                      /\ f \in Cells /\ f + 1 \in Cells
      /\ \A f, g \in T : f # g => {f, f + 1, f + 2} \cap {g, g + 1, g + 2} = {}
      /\ USED_LIST \in Cells
  BY HeaderCells DEF Heads
<1>3. \A f, g \in T : f # g => f # g + 1 /\ f + 1 # g /\ f + 1 # g + 1
  BY <1>2
<1>4. IsFirst(S, r, n) /\ (n # NULL_OFFSET => n \in S)
  BY <1>1 DEF Linked, IsFirst
<1>5. Precedes(T, r, b, NULL_OFFSET)
  BY DEF Precedes, Ranks
<1>6. Follows(T, r, b, n)
  <2>1. CASE n = NULL_OFFSET
    BY <1>4, <2>1 DEF IsFirst, Follows, Ranks
  <2>2. CASE n # NULL_OFFSET
    BY <1>4, <2>2 DEF IsFirst, Follows, Ranks
  <2> QED
    BY <2>1, <2>2
<1>7. /\ y \in Cells /\ b \in Cells /\ b + 1 \in Cells
      /\ NULL_OFFSET \in Word /\ n \in Word /\ b \in Word
  <2>1. T \subseteq Word /\ NULL_OFFSET \in Word
    BY WordsAreNumbers DEF Apart
  <2> QED
    BY <1>2, <1>4, <2>1
<1>8. M = [m EXCEPT ![y] = b, ![b] = NULL_OFFSET, ![b + 1] = n, ![USED_LIST] = b]
  BY <1>1, <1>2, <1>4 DEF PushUsed
<1> HIDE DEF M, y
<1>9. /\ M \in Memory
      /\ \A a \in Cells : M[a] = IF a = USED_LIST THEN b ELSE IF a = b + 1 THEN n
                                 ELSE IF a = b THEN NULL_OFFSET ELSE IF a = y THEN b ELSE m[a]
  BY <1>2, <1>7, <1>8 DEF Memory
<1>10. M[USED_LIST] = b
  BY <1>2, <1>9
<1>11. M[PrevOf(b)] = NULL_OFFSET /\ M[NextOf(b)] = n
  <2>1. USED_LIST \notin {b, b + 1}
    BY <1>2 DEF USED_LIST
  <2> QED
    BY <1>2, <1>9, <2>1
<1>12. ASSUME NEW f \in S
       PROVE  /\ M[NextOf(f)] = m[NextOf(f)]
              /\ M[PrevOf(f)] = IF f = n THEN b ELSE m[PrevOf(f)]
  <2>1. {f, f + 1} \cap {b, b + 1} = {} /\ USED_LIST \notin {f, f + 1}
    BY <1>2 DEF USED_LIST
  <2>2. f + 1 # y /\ (f = y <=> f = n)
    BY <1>2, <1>3, <1>4 DEF y, NULL_OFFSET
  <2>3. /\ M[f + 1] = m[f + 1]
        /\ M[f] = IF f = n THEN b ELSE m[f]
    BY <1>2, <1>9, <2>1, <2>2
  <2> QED
    BY <1>2, <2>3
<1>13. Linked(M, USED_LIST, T, r)
  <2>1. NULL_OFFSET \notin S /\ b # NULL_OFFSET
    BY <1>2 DEF NULL_OFFSET
  <2>2. \A f \in S : f # NULL_OFFSET
    BY <2>1
  <2> QED
    BY <1>5, <1>6, <1>10, <1>11, <1>12, <2>1, <2>2, InsertKeepsList
<1>14. ASSUME NEW a \in Cells, a # USED_LIST, a \notin Links(T)
       PROVE  M[a] = m[a]
  <2>1. a \notin {b, b + 1} /\ a # y
    BY <1>2, <1>4, <1>14 DEF y, Links
  <2> QED
    BY <1>9, <1>14, <2>1
<1> QED
  BY <1>9, <1>13, <1>14 DEF M

----------------------------------------------------------------------------
(* The blocks of the file, whichever list they are in: s gives the size of *)
(* each block's data.                                                      *)

EndIn(s, b) == b + BlockSize + s[b]

\* They fill the file behind its header, without a space or an overlap.
Tiles(s) ==
    /\ DOMAIN s \subseteq Offsets /\ HeaderSize \in DOMAIN s
    /\ \A b \in DOMAIN s : s[b] \in Nat /\ EndIn(s, b) \in DOMAIN s \cup {BufferEnd}
    /\ \A b, c \in DOMAIN s : b < c => EndIn(s, b) <= c
    /\ \A c \in DOMAIN s : c = HeaderSize \/ \E b \in DOMAIN s : EndIn(s, b) = c

\* The blocks after one is cut in two, and after one is joined with that behind it.
Cut(s, b, n) ==
    LET c == b + BlockSize + n
    IN  [x \in DOMAIN s \cup {c} |-> IF x = c THEN s[b] - n - BlockSize
                                     ELSE IF x = b THEN n ELSE s[x]]
Join(s, b, c) == [x \in DOMAIN s \ {c} |-> IF x = b THEN s[b] + BlockSize + s[c] ELSE s[x]]

\* Blocks that tile the file have their headers apart, and end before its end.
LEMMA TilesFacts ==
    ASSUME NEW s, Tiles(s)
    PROVE  /\ Apart(DOMAIN s)
           /\ \A S : S \subseteq DOMAIN s => Apart(S)
           /\ \A b \in DOMAIN s : /\ b \in Nat /\ b >= 2 /\ b + 3 <= BufferEnd
                                  /\ s[b] \in Nat /\ EndIn(s, b) = b + 3 + s[b]
                                  /\ EndIn(s, b) \in Nat /\ b < EndIn(s, b)
                                  /\ EndIn(s, b) <= BufferEnd /\ s[b] \in Word
           /\ \A b, c \in DOMAIN s : EndIn(s, b) = EndIn(s, c) => b = c
           /\ BufferEnd \notin DOMAIN s
<1>1. BufferEnd \in Nat
  BY BufferAssumption
<1>2. \A b \in DOMAIN s : b \in 2 .. BufferEnd - 3 /\ s[b] \in Nat /\ EndIn(s, b) = b + 3 + s[b]
  BY DEF Tiles, Offsets, HeaderSize, BlockSize, EndIn
<1>3. \A b \in DOMAIN s : EndIn(s, b) \in Nat /\ b < EndIn(s, b) /\ EndIn(s, b) <= BufferEnd
  <2> SUFFICES ASSUME NEW b \in DOMAIN s
               PROVE  EndIn(s, b) \in Nat /\ b < EndIn(s, b) /\ EndIn(s, b) <= BufferEnd
    OBVIOUS
  <2>1. EndIn(s, b) \in Nat /\ b < EndIn(s, b)
    BY <1>2
  <2>2. EndIn(s, b) \in DOMAIN s \cup {BufferEnd}
    BY DEF Tiles
  <2>3. EndIn(s, b) <= BufferEnd
    BY <1>1, <1>2, <2>1, <2>2
  <2> QED
    BY <2>1, <2>3
<1>4. \A b \in DOMAIN s : s[b] \in 0 .. BufferEnd
  BY <1>1, <1>2, <1>3
<1>5. Apart(DOMAIN s)
  <2>1. \A b, c \in DOMAIN s : b < c => EndIn(s, b) <= c
    BY DEF Tiles
  <2>2. \A b, c \in DOMAIN s : b < c => b + 3 <= c
    BY <1>2, <2>1
  <2> QED
    BY <2>2 DEF Tiles, Apart, BlockSize
<1>6. \A b, c \in DOMAIN s : EndIn(s, b) = EndIn(s, c) => b = c
  <2>1. \A b, c \in DOMAIN s : b < c => EndIn(s, b) <= c
    BY DEF Tiles
  <2>2. \A b, c \in DOMAIN s : b < c => EndIn(s, b) < EndIn(s, c)
    BY <1>2, <1>3, <2>1
  <2> QED
    BY <1>2, <1>3, <2>2
<1>7. BufferEnd \notin DOMAIN s
  BY <1>1, <1>2
<1>8. \A S : S \subseteq DOMAIN s => Apart(S)
  BY <1>5 DEF Apart
<1> QED
  BY <1>1, <1>2, <1>3, <1>4, <1>5, <1>6, <1>7, <1>8, WordsAreNumbers

\* Cutting a block in two leaves a tiling.
LEMMA CutTiles ==
    ASSUME NEW s, Tiles(s), NEW b \in DOMAIN s, NEW n \in Nat, s[b] >= n + BlockSize,
           NEW c, c = b + BlockSize + n, NEW t, t = Cut(s, b, n)
    PROVE  /\ c \notin DOMAIN s /\ c \in Offsets /\ b < c
           /\ Tiles(t) /\ DOMAIN t = DOMAIN s \cup {c}
           /\ EndIn(t, b) = c /\ EndIn(t, c) = EndIn(s, b)
           /\ t[b] = n /\ t[c] = s[b] - n - BlockSize
           /\ \A x \in DOMAIN s \ {b} : t[x] = s[x] /\ EndIn(t, x) = EndIn(s, x)
<1>1. \A x \in DOMAIN s : /\ x \in Nat /\ x >= 2 /\ x + 3 <= BufferEnd
                          /\ s[x] \in Nat /\ EndIn(s, x) = x + 3 + s[x]
                          /\ EndIn(s, x) \in Nat /\ x < EndIn(s, x) /\ EndIn(s, x) <= BufferEnd
  BY TilesFacts
<1>2. /\ HeaderSize \in DOMAIN s
      /\ \A x \in DOMAIN s : EndIn(s, x) \in DOMAIN s \cup {BufferEnd}
      /\ \A x, y \in DOMAIN s : x < y => EndIn(s, x) <= y
      /\ \A y \in DOMAIN s : y = HeaderSize \/ \E x \in DOMAIN s : EndIn(s, x) = y
      /\ DOMAIN s \subseteq Offsets
  BY DEF Tiles
<1>3. c = b + 3 + n /\ s[b] >= n + 3 /\ b < c /\ c + 3 <= EndIn(s, b) /\ c \in Nat
  BY <1>1 DEF BlockSize
<1>4. c \in Offsets
  BY <1>1, <1>3, BufferAssumption DEF Offsets, HeaderSize, BlockSize
<1>5. c \notin DOMAIN s
  <2>1. c \in DOMAIN s => EndIn(s, b) <= c
    BY <1>2, <1>3
  <2> QED
    BY <1>1, <1>3, <2>1
<1>6. /\ DOMAIN t = DOMAIN s \cup {c}
      /\ t[b] = n /\ t[c] = s[b] - n - BlockSize
      /\ \A x \in DOMAIN s \ {b} : t[x] = s[x]
  BY <1>3, <1>5 DEF Cut
<1>7. /\ EndIn(t, b) = c /\ EndIn(t, c) = EndIn(s, b)
      /\ \A x \in DOMAIN s \ {b} : EndIn(t, x) = EndIn(s, x)
      /\ t[c] \in Nat
  BY <1>1, <1>3, <1>6 DEF EndIn, BlockSize
<1>8. Tiles(t)
  <2>1. DOMAIN t \subseteq Offsets /\ HeaderSize \in DOMAIN t
    BY <1>2, <1>4, <1>6
  <2>2. \A x \in DOMAIN t : t[x] \in Nat /\ EndIn(t, x) \in DOMAIN t \cup {BufferEnd}
    BY <1>1, <1>2, <1>6, <1>7
  <2>3. ASSUME NEW x \in DOMAIN t, NEW y \in DOMAIN t, x < y
        PROVE  EndIn(t, x) <= y
    <3>1. CASE x = b
      <4>1. CASE y = c
        BY <1>3, <1>7, <3>1, <4>1
      <4>2. CASE y # c
        <5>1. EndIn(s, b) <= y /\ y \in Nat
          BY <1>1, <1>2, <1>6, <2>3, <3>1, <4>2
        <5> QED
          BY <1>1, <1>3, <1>7, <3>1, <5>1
      <4> QED
        BY <4>1, <4>2
    <3>2. CASE x = c
      <4>1. y \in DOMAIN s /\ y \in Nat /\ b < y
        BY <1>1, <1>3, <1>6, <2>3, <3>2
      <4> QED
        BY <1>2, <1>7, <3>2, <4>1
    <3>3. CASE x \in DOMAIN s \ {b}
      <4>1. CASE y = c
        <5>1. x < b \/ b < x
          BY <1>1, <3>3
        <5>2. b < x => EndIn(s, b) <= x
          BY <1>2, <3>3
        <5>3. x < b
          BY <1>1, <1>3, <2>3, <3>3, <4>1, <5>1, <5>2
        <5>4. EndIn(s, x) <= b
          BY <1>2, <3>3, <5>3
        <5> QED
          BY <1>1, <1>3, <1>7, <3>3, <4>1, <5>4
      <4>2. CASE y # c
        BY <1>2, <1>6, <1>7, <2>3, <3>3, <4>2
      <4> QED
        BY <4>1, <4>2
    <3> QED
      BY <1>6, <3>1, <3>2, <3>3
  <2>4. ASSUME NEW y \in DOMAIN t, y # HeaderSize
        PROVE  \E x \in DOMAIN t : EndIn(t, x) = y
    <3>1. CASE y = c
      BY <1>6, <1>7, <3>1
    <3>2. CASE y # c
      <4>1. PICK x \in DOMAIN s : EndIn(s, x) = y
        BY <1>2, <1>6, <2>4, <3>2
      <4>2. EndIn(t, IF x = b THEN c ELSE x) = y
        BY <1>7, <4>1
      <4> QED
        BY <1>6, <4>2
    <3> QED
      BY <3>1, <3>2
  <2> QED
    BY <2>1, <2>2, <2>3, <2>4 DEF Tiles
<1> QED
  BY <1>3, <1>4, <1>5, <1>6, <1>7, <1>8

\* So does joining a block with that behind it.
LEMMA JoinTiles ==
    ASSUME NEW s, Tiles(s), NEW b \in DOMAIN s, NEW c \in DOMAIN s, c = EndIn(s, b),
           NEW t, t = Join(s, b, c)
    PROVE  /\ Tiles(t) /\ DOMAIN t = DOMAIN s \ {c}
           /\ EndIn(t, b) = EndIn(s, c) /\ b < c
           /\ t[b] = s[b] + BlockSize + s[c]
           /\ \A x \in DOMAIN s \ {b, c} : t[x] = s[x] /\ EndIn(t, x) = EndIn(s, x)
<1>1. \A x \in DOMAIN s : /\ x \in Nat /\ x >= 2 /\ x + 3 <= BufferEnd
                          /\ s[x] \in Nat /\ EndIn(s, x) = x + 3 + s[x]
                          /\ EndIn(s, x) \in Nat /\ x < EndIn(s, x) /\ EndIn(s, x) <= BufferEnd
  BY TilesFacts
<1>2. /\ HeaderSize \in DOMAIN s
      /\ \A x \in DOMAIN s : EndIn(s, x) \in DOMAIN s \cup {BufferEnd}
      /\ \A x, y \in DOMAIN s : x < y => EndIn(s, x) <= y
      /\ \A y \in DOMAIN s : y = HeaderSize \/ \E x \in DOMAIN s : EndIn(s, x) = y
      /\ DOMAIN s \subseteq Offsets
  BY DEF Tiles
<1>3. b < c
  BY <1>1
<1>4. /\ DOMAIN t = DOMAIN s \ {c}
      /\ t[b] = s[b] + BlockSize + s[c]
      /\ \A x \in DOMAIN s \ {b, c} : t[x] = s[x]
  BY <1>3, <1>1 DEF Join
<1>5. /\ EndIn(t, b) = EndIn(s, c) /\ t[b] \in Nat
      /\ \A x \in DOMAIN s \ {b, c} : EndIn(t, x) = EndIn(s, x)
  BY <1>1, <1>4 DEF EndIn, BlockSize
<1>6. \A x, y \in DOMAIN s : EndIn(s, x) = EndIn(s, y) => x = y
  BY TilesFacts
<1>7. c # HeaderSize /\ b \in DOMAIN t
  BY <1>1, <1>3, <1>4 DEF HeaderSize
<1>8. Tiles(t)
  <2>1. DOMAIN t \subseteq Offsets /\ HeaderSize \in DOMAIN t
    BY <1>2, <1>4, <1>7
  <2>2. ASSUME NEW x \in DOMAIN t
        PROVE  t[x] \in Nat /\ EndIn(t, x) \in DOMAIN t \cup {BufferEnd}
    <3>1. CASE x = b
      <4>1. EndIn(s, c) # c
        BY <1>1
      <4> QED
        BY <1>2, <1>4, <1>5, <3>1, <4>1
    <3>2. CASE x # b
      <4>1. EndIn(s, x) # c
        BY <1>4, <1>6, <3>2
      <4> QED
        BY <1>1, <1>2, <1>4, <1>5, <3>2, <4>1
    <3> QED
      BY <3>1, <3>2
  <2>3. ASSUME NEW x \in DOMAIN t, NEW y \in DOMAIN t, x < y
        PROVE  EndIn(t, x) <= y
    <3>1. CASE x = b
      <4>1. EndIn(s, b) <= y /\ y # c /\ y \in Nat
        BY <1>1, <1>2, <1>4, <2>3, <3>1
      <4>2. c < y
        BY <1>1, <4>1
      <4> QED
        BY <1>2, <1>4, <1>5, <3>1, <4>2
    <3>2. CASE x # b
      BY <1>2, <1>4, <1>5, <2>3, <3>2
    <3> QED
      BY <3>1, <3>2
  <2>4. ASSUME NEW y \in DOMAIN t, y # HeaderSize
        PROVE  \E x \in DOMAIN t : EndIn(t, x) = y
    <3>1. PICK x \in DOMAIN s : EndIn(s, x) = y
      BY <1>2, <1>4, <2>4
    <3>2. x # b
      BY <1>4, <3>1
    <3>3. CASE x = c
      BY <1>5, <1>7, <3>1, <3>3
    <3>4. CASE x # c
      BY <1>4, <1>5, <3>1, <3>2, <3>4
    <3> QED
      BY <3>3, <3>4
  <2> QED
    BY <2>1, <2>2, <2>3, <2>4 DEF Tiles
<1> QED
  BY <1>3, <1>4, <1>5, <1>8

----------------------------------------------------------------------------
(* The inductive invariant.                                                *)

\* The block alloc() has found, and the block that is being inserted.
Allocating == pc \in {"split", "shrink", "push"} \/ back = "shrink"
Taken == IF Allocating THEN {block} ELSE {}
Loose == IF pc = "insert" THEN {inserted} ELSE {}

\* The header of a block that was cut in two still has the size of both.
Shrinking == pc = "shrink" \/ back = "shrink"

\* The order of the free list.
Place == [a \in Cells |-> a]

\* Every block is free, held, or in the hands of the operation, and in one only.
PlacesOK(s, F) ==
    /\ DOMAIN s = F \cup DOMAIN held \cup Taken \cup Loose
    /\ F \cap DOMAIN held = {} /\ (Taken \cup Loose) \cap (F \cup DOMAIN held) = {}

SizesOK(s) ==
    /\ \A b \in DOMAIN s : mem[SizeOf(b)] = s[b] \/ (Shrinking /\ b = block)
    /\ \A b \in DOMAIN held : held[b] <= s[b]

ListsOK(F, r) == Linked(mem, FREE_LIST, F, Place) /\ Linked(mem, USED_LIST, DOMAIN held, r)

\* Free blocks are not neighbours, but for the one that was just inserted.
JoinedOK(s, F) ==
    \A f \in F : EndIn(s, f) \in F => pc = "coalesce" /\ inserted \in {f, EndIn(s, f)}

\* The free block behind the one that alloc() took, after it was cut in two.
WasCut(s, F) ==
    LET c == EndIn(s, block)
    IN  /\ s[block] = alloc_size
        /\ c \in F \cup Loose /\ EndIn(s, c) \notin F
        /\ EndIn(s, c) - block - BlockSize >= alloc_size + BlockSize + Slack

\* alloc() took a block whole.
IsWhole(s, F) ==
    /\ EndIn(s, block) \notin F
    /\ alloc_size <= s[block] /\ s[block] < alloc_size + BlockSize + Slack

\* alloc(): what the cursor has passed, or is before the block found, is too small.
AllocOK(s, F) ==
    /\ pc = "scan" => /\ alloc_size \in Sizes /\ back = "idle"
                      /\ curr = NULL_OFFSET \/ curr \in F
                      /\ \A f \in F : curr = NULL_OFFSET \/ f < curr => s[f] < alloc_size
    /\ Allocating => /\ alloc_size \in Sizes
                     /\ \A f \in F : f < block => s[f] < alloc_size /\ EndIn(s, f) # block
    /\ pc = "split" => /\ EndIn(s, block) \notin F /\ back = "idle"
                       /\ s[block] >= alloc_size + BlockSize + Slack
    /\ pc = "shrink" => WasCut(s, F) /\ back = "idle"
    /\ back = "shrink" => /\ WasCut(s, F) /\ inserted = EndIn(s, block)
                          /\ pc \in {"insert", "coalesce"}
    /\ pc = "push" => (WasCut(s, F) \/ IsWhole(s, F)) /\ back = "idle"
    /\ pc = "fill" => block \in DOMAIN held /\ held[block] = alloc_size /\ back = "idle"
    /\ pc = "idle" => back = "idle"

\* insert_block_to_free_list(): what its cursor has passed is before the block.
InsertOK(F) ==
    /\ pc = "insert" => IF curr = NULL_OFFSET THEN F = {}
                        ELSE curr \in F /\ \A f \in F : f < curr => f < inserted
    /\ pc = "coalesce" => inserted \in F

PoolOK(s, F, r) ==
    /\ Tiles(s)
    /\ PlacesOK(s, F)
    /\ SizesOK(s)
    /\ ListsOK(F, r)
    /\ JoinedOK(s, F)
    /\ AllocOK(s, F)
    /\ InsertOK(F)

\* s: the blocks and their sizes; F: those in the free list; r: the order in which
\* those of the used list were put in front.
PoolInv ==
    /\ TypeOK
    /\ pc # "abort"
    /\ \E s, F, r : PoolOK(s, F, r)

\* What each proof of a step needs of the invariant.
LEMMA PoolFacts ==
    ASSUME TypeOK, NEW s, NEW F, NEW r, PoolOK(s, F, r)
    PROVE  /\ F \subseteq DOMAIN s /\ DOMAIN held \subseteq DOMAIN s
           /\ Apart(DOMAIN s) /\ Apart(F) /\ Apart(DOMAIN held)
           /\ mem \in Memory
           /\ \A b \in DOMAIN s : /\ b \in Nat /\ b >= 2 /\ b + 3 <= BufferEnd
                                  /\ b \in Offsets /\ ~ Wild(b) /\ b # NULL_OFFSET
                                  /\ PrevOf(b) = b /\ NextOf(b) = b + 1 /\ SizeOf(b) = b + 2
                                  /\ {b, b + 1, b + 2} \subseteq Cells /\ Place[b] = b
           /\ \A b, c \in DOMAIN s : b # c => {b, b + 1, b + 2} \cap {c, c + 1, c + 2} = {}
           /\ \A f \in F : mem[SizeOf(f)] = s[f]
           /\ Ranks(DOMAIN s, Place)
           /\ IsFirst(F, Place, mem[FREE_LIST])
           /\ \A f \in F : /\ Follows(F, Place, f, mem[NextOf(f)])
                           /\ Precedes(F, Place, f, mem[PrevOf(f)])
<1>1. /\ Tiles(s) /\ PlacesOK(s, F) /\ SizesOK(s) /\ ListsOK(F, r)
      /\ Linked(mem, FREE_LIST, F, Place)
  BY DEF PoolOK, ListsOK
<1>2. F \subseteq DOMAIN s /\ DOMAIN held \subseteq DOMAIN s
  BY <1>1 DEF PlacesOK
<1>3. Apart(DOMAIN s) /\ Apart(F) /\ Apart(DOMAIN held)
  BY <1>1, <1>2, TilesFacts
<1>4. mem \in Memory
  BY DEF TypeOK, Memory, Word
<1>5. \A b \in DOMAIN s : /\ b \in Nat /\ b >= 2
                          /\ PrevOf(b) = b /\ NextOf(b) = b + 1 /\ SizeOf(b) = b + 2
                          /\ {b, b + 1, b + 2} \subseteq Cells
  BY <1>3, HeaderCells
<1>6. \A b \in DOMAIN s : b + 3 <= BufferEnd /\ b \in Offsets
  BY <1>1, TilesFacts DEF Tiles
<1>7. \A b \in DOMAIN s : ~ Wild(b) /\ b # NULL_OFFSET
  BY <1>5, <1>6, BufferAssumption DEF Wild, NULL_OFFSET, BlockSize
<1>8. \A b, c \in DOMAIN s : b # c => {b, b + 1, b + 2} \cap {c, c + 1, c + 2} = {}
  BY <1>3, HeaderCells
<1>9. \A b \in DOMAIN s : Place[b] = b
  BY <1>5 DEF Place
<1>10. Ranks(DOMAIN s, Place)
  BY <1>5, <1>9 DEF Ranks
<1>11. \A f \in F : mem[SizeOf(f)] = s[f]
  <2>1. \A f \in F : Shrinking => f # block
    BY <1>1 DEF PlacesOK, Taken, Shrinking, Allocating
  <2> QED
    BY <1>1, <1>2, <2>1 DEF SizesOK
<1>12. /\ IsFirst(F, Place, mem[FREE_LIST])
       /\ \A f \in F : /\ Follows(F, Place, f, mem[NextOf(f)])
                       /\ Precedes(F, Place, f, mem[PrevOf(f)])
  BY <1>1 DEF Linked
<1> QED
  BY <1>2, <1>3, <1>4, <1>5, <1>6, <1>7, <1>8, <1>9, <1>10, <1>11, <1>12

\* What follows, or precedes, a free block in the list does so in the file.
LEMMA FreeNeighbours ==
    ASSUME TypeOK, NEW s, NEW F, NEW r, PoolOK(s, F, r), NEW f \in F,
           NEW n, n = mem[NextOf(f)], NEW p, p = mem[PrevOf(f)]
    PROVE  /\ n # NULL_OFFSET => n \in F /\ f < n /\ \A g \in F : g <= f \/ n <= g
           /\ n = NULL_OFFSET => \A g \in F : g <= f
           /\ p # NULL_OFFSET => p \in F /\ p < f /\ \A g \in F : f <= g \/ g <= p
           /\ p = NULL_OFFSET => \A g \in F : f <= g
<1>1. /\ F \subseteq DOMAIN s
      /\ \A b \in DOMAIN s : b \in Nat /\ Place[b] = b
      /\ Follows(F, Place, f, n) /\ Precedes(F, Place, f, p)
  BY PoolFacts
<1>2. \A g \in F : Place[g] = g
  BY <1>1
<1> QED
  BY <1>1, <1>2 DEF Follows, Precedes

\* Links of different blocks, sizes and heads are different cells.
LEMMA LinkCells ==
    ASSUME NEW A, Apart(A)
    PROVE  /\ \A S, T : S \subseteq A /\ T \subseteq A /\ S \cap T = {} =>
                          Links(S) \cap Links(T) = {}
           /\ \A S : S \subseteq A =>
                /\ FREE_LIST \notin Links(S) /\ USED_LIST \notin Links(S)
                /\ \A b \in A : SizeOf(b) \notin Links(S)
                /\ \A b \in A \ S : b \notin Links(S) /\ b + 1 \notin Links(S)
           /\ \A b \in A : SizeOf(b) \in Cells /\ SizeOf(b) \notin Heads
           /\ FREE_LIST \in Cells /\ USED_LIST \in Cells /\ FREE_LIST # USED_LIST
           /\ FREE_LIST \in Heads /\ USED_LIST \in Heads
           /\ Links(A) \subseteq Cells
<1>1. /\ \A b \in A : /\ b \in Nat /\ b >= 2
                      /\ PrevOf(b) = b /\ NextOf(b) = b + 1 /\ SizeOf(b) = b + 2
                      /\ {b, b + 1, b + 2} \subseteq Cells
      /\ \A b, c \in A : b # c => {b, b + 1, b + 2} \cap {c, c + 1, c + 2} = {}
      /\ Heads \subseteq Cells /\ Heads = {0, 1} /\ FREE_LIST = 0 /\ USED_LIST = 1
  BY HeaderCells DEF Heads, FREE_LIST, USED_LIST
<1>2. \A S : S \subseteq A => Links(S) = S \cup {b + 1 : b \in S}
  BY <1>1 DEF Links
<1>3. \A b, c \in A : /\ b # c => b # c + 1 /\ b + 1 # c /\ b + 1 # c + 1
                      /\ b + 2 # c /\ b + 2 # c + 1
  <2> SUFFICES ASSUME NEW b \in A, NEW c \in A
               PROVE  /\ b # c => b # c + 1 /\ b + 1 # c /\ b + 1 # c + 1
                      /\ b + 2 # c /\ b + 2 # c + 1
    OBVIOUS
  <2>1. CASE b = c
    BY <1>1, <2>1
  <2>2. CASE b # c
    BY <1>1, <2>2
  <2> QED
    BY <2>1, <2>2
<1>4. \A S, T : S \subseteq A /\ T \subseteq A /\ S \cap T = {} => Links(S) \cap Links(T) = {}
  BY <1>2, <1>3
<1>5. ASSUME NEW S, S \subseteq A
      PROVE  /\ FREE_LIST \notin Links(S) /\ USED_LIST \notin Links(S)
             /\ \A b \in A : SizeOf(b) \notin Links(S)
             /\ \A b \in A \ S : b \notin Links(S) /\ b + 1 \notin Links(S)
  <2>1. Links(S) = S \cup {b + 1 : b \in S}
    BY <1>2, <1>5
  <2>2. FREE_LIST \notin Links(S) /\ USED_LIST \notin Links(S)
    BY <1>1, <1>5, <2>1
  <2>3. \A b \in A : b + 2 \notin Links(S)
    BY <1>3, <1>5, <2>1
  <2>4. \A b \in A \ S : b \notin Links(S) /\ b + 1 \notin Links(S)
    BY <1>3, <1>5, <2>1
  <2> QED
    BY <1>1, <2>2, <2>3, <2>4
<1>6. /\ \A b \in A : SizeOf(b) \in Cells /\ SizeOf(b) \notin Heads
      /\ FREE_LIST \in Cells /\ USED_LIST \in Cells /\ FREE_LIST # USED_LIST
      /\ FREE_LIST \in Heads /\ USED_LIST \in Heads
  BY <1>1
<1>7. Links(A) \subseteq Cells
  BY <1>1, <1>2
<1> QED
  BY <1>4, <1>5, <1>6, <1>7

\* The bytes callers hold are no header's.
HeaderCellsOf(s) == Heads \cup UNION {{b, b + 1, b + 2} : b \in DOMAIN s}

\* A step that writes only headers leaves the data of the blocks in use alone.
LEMMA HeadersOnly ==
    ASSUME NEW s, Tiles(s), DOMAIN held \subseteq DOMAIN s,
           \A b \in DOMAIN held : held[b] \in Nat /\ held[b] <= s[b],
           \A a \in Cells \ HeaderCellsOf(s) : mem'[a] = mem[a]
    PROVE  HeldDataKept
<1> SUFFICES ASSUME NEW b \in DOMAIN held, NEW a \in Data(b, held[b])
             PROVE  mem'[a] = mem[a]
  BY DEF HeldDataKept
<1>1. \A x \in DOMAIN s : /\ x \in Nat /\ x >= 2 /\ x + 3 <= BufferEnd
                          /\ s[x] \in Nat /\ EndIn(s, x) = x + 3 + s[x]
                          /\ EndIn(s, x) \in Nat /\ x < EndIn(s, x) /\ EndIn(s, x) <= BufferEnd
  BY TilesFacts
<1>2. \A x, y \in DOMAIN s : x < y => EndIn(s, x) <= y
  BY DEF Tiles
<1>3. b \in DOMAIN s /\ held[b] \in Nat /\ held[b] <= s[b]
  OBVIOUS
<1>4. a \in Nat /\ b + 3 <= a /\ a < EndIn(s, b)
  BY <1>1, <1>3 DEF Data, BlockSize
<1>5. a \in Cells
  BY <1>1, <1>3, <1>4, BufferAssumption DEF Cells
<1>6. ASSUME NEW c \in DOMAIN s
      PROVE  a \notin {c, c + 1, c + 2}
  <2>1. CASE c = b
    BY <1>1, <1>4, <2>1
  <2>2. CASE c < b
    <3>1. c + 3 <= b
      BY <1>1, <1>2, <1>3, <2>2
    <3> QED
      BY <1>1, <1>3, <1>4, <3>1
  <2>3. CASE b < c
    <3>1. EndIn(s, b) <= c
      BY <1>2, <1>3, <2>3
    <3> QED
      BY <1>1, <1>3, <1>4, <3>1
  <2> QED
    BY <1>1, <1>3, <2>1, <2>2, <2>3
<1>7. a \notin Heads
  BY <1>1, <1>3, <1>4 DEF Heads, FREE_LIST, USED_LIST
<1> QED
  BY <1>5, <1>6, <1>7 DEF HeaderCellsOf

\* The blocks in use keep the size of their data.
HeldSizesKept == \A b \in DOMAIN held : mem'[SizeOf(b)] = mem[SizeOf(b)]

\* A step that writes nothing does neither.
LEMMA NothingWritten == UNCHANGED mem => HeldDataKept /\ HeldSizesKept
  BY DEF HeldDataKept, HeldSizesKept

\* What is known of the sizes asked for.
LEMMA HeldSizes ==
    ASSUME TypeOK, NEW s, NEW F, NEW r, PoolOK(s, F, r)
    PROVE  \A b \in DOMAIN held : held[b] \in Nat /\ held[b] <= s[b]
  BY BufferAssumption DEF TypeOK, PoolOK, SizesOK

----------------------------------------------------------------------------
(* alloc()                                                                 *)

\* The cursor begins at the first free block, of which none is before it.
LEMMA AllocCallStep ==
    ASSUME PoolInv, NEW n \in Sizes, AllocCall(n)
    PROVE  PoolInv' /\ HeldDataKept /\ HeldSizesKept
<1>1. TypeOK
  BY DEF PoolInv
<1>2. PICK s, F, r : PoolOK(s, F, r)
  BY DEF PoolInv
<1>3. /\ F \subseteq DOMAIN s /\ IsFirst(F, Place, mem[FREE_LIST])
      /\ \A b \in DOMAIN s : b \in Nat /\ b \in Offsets /\ Place[b] = b
  BY <1>1, <1>2, PoolFacts
<1>4. /\ pc = "idle" /\ pc' = "scan" /\ alloc_size' = n /\ curr' = mem[FREE_LIST]
      /\ UNCHANGED <<mem, held, block, inserted, back>> /\ back = "idle"
  BY <1>2 DEF AllocCall, PoolOK, AllocOK
<1>5. /\ curr' = NULL_OFFSET => F = {}
      /\ curr' # NULL_OFFSET => curr' \in F /\ \A f \in F : curr' <= f
  BY <1>3, <1>4 DEF IsFirst
<1>6. TypeOK'
  BY <1>1, <1>3, <1>4, <1>5 DEF TypeOK, Offsets, NULL_OFFSET
<1>7. PlacesOK(s, F)' /\ SizesOK(s)' /\ ListsOK(F, r)' /\ JoinedOK(s, F)' /\ InsertOK(F)'
  BY <1>2, <1>4 DEF PoolOK, PlacesOK, SizesOK, ListsOK, JoinedOK, InsertOK,
                    Taken, Loose, Allocating, Shrinking
<1>8. \A f \in F : ~ (curr' = NULL_OFFSET \/ f < curr')
  BY <1>3, <1>5
<1>9. AllocOK(s, F)'
  BY <1>4, <1>5, <1>8 DEF AllocOK, Allocating
<1>10. PoolOK(s, F, r)'
  BY <1>2, <1>7, <1>9 DEF PoolOK
<1> QED
  BY <1>4, <1>6, <1>10, NothingWritten DEF PoolInv

\* The end of alloc() without a block, and of any operation that wrote nothing more.
LEMMA AllocFailsStep ==
    ASSUME PoolInv, AllocFails
    PROVE  PoolInv' /\ HeldDataKept /\ HeldSizesKept
<1>1. TypeOK
  BY DEF PoolInv
<1>2. PICK s, F, r : PoolOK(s, F, r)
  BY DEF PoolInv
<1>3. /\ pc = "scan" /\ pc' = "idle" /\ UNCHANGED <<mem, held>>
      /\ alloc_size' = 0 /\ block' = 0 /\ inserted' = 0 /\ back' = "idle" /\ curr' = 0
      /\ back = "idle"
  BY <1>2 DEF AllocFails, Finish, PoolOK, AllocOK
<1>4. TypeOK'
  BY <1>1, <1>3 DEF TypeOK
<1>5. PoolOK(s, F, r)'
  BY <1>2, <1>3 DEF PoolOK, PlacesOK, SizesOK, ListsOK, JoinedOK, InsertOK, AllocOK,
                    Taken, Loose, Allocating, Shrinking
<1> QED
  BY <1>3, <1>4, <1>5, NothingWritten DEF PoolInv

\* A block that is too small is passed.
LEMMA AllocSkipStep ==
    ASSUME PoolInv, AllocSkip
    PROVE  PoolInv' /\ HeldDataKept /\ HeldSizesKept
<1>1. TypeOK
  BY DEF PoolInv
<1>2. PICK s, F, r : PoolOK(s, F, r)
  BY DEF PoolInv
<1>3. /\ F \subseteq DOMAIN s
      /\ \A b \in DOMAIN s : b \in Nat /\ b \in Offsets /\ ~ Wild(b)
      /\ \A f \in F : mem[SizeOf(f)] = s[f]
  BY <1>1, <1>2, PoolFacts
<1>4. pc = "scan" /\ back = "idle" /\ curr \in F /\ \A f \in F : f < curr => s[f] < alloc_size
  BY <1>2 DEF PoolOK, AllocOK, AllocSkip
<1>5. /\ mem[SizeOf(curr)] < alloc_size /\ curr' = mem[NextOf(curr)]
      /\ UNCHANGED <<mem, held, pc, alloc_size, block, inserted, back>>
  BY <1>3, <1>4 DEF AllocSkip
<1>6. /\ curr' # NULL_OFFSET => curr' \in F /\ curr < curr' /\ \A g \in F : g <= curr \/ curr' <= g
      /\ curr' = NULL_OFFSET => \A g \in F : g <= curr
  BY <1>1, <1>2, <1>4, <1>5, FreeNeighbours
<1>7. TypeOK'
  BY <1>1, <1>3, <1>5, <1>6 DEF TypeOK, Offsets, NULL_OFFSET
<1>8. PlacesOK(s, F)' /\ SizesOK(s)' /\ ListsOK(F, r)' /\ JoinedOK(s, F)' /\ InsertOK(F)'
  BY <1>2, <1>4, <1>5 DEF PoolOK, PlacesOK, SizesOK, ListsOK, JoinedOK, InsertOK,
                          Taken, Loose, Allocating, Shrinking
<1>9. \A f \in F : curr' = NULL_OFFSET \/ f < curr' => f <= curr
  BY <1>3, <1>4, <1>6
<1>10. \A f \in F : f <= curr => s[f] < alloc_size
  BY <1>3, <1>4, <1>5
<1>11. AllocOK(s, F)'
  BY <1>2, <1>4, <1>5, <1>6, <1>9, <1>10 DEF PoolOK, AllocOK, Allocating
<1>12. PoolOK(s, F, r)'
  BY <1>2, <1>8, <1>11 DEF PoolOK
<1> QED
  BY <1>4, <1>5, <1>7, <1>12, NothingWritten DEF PoolInv

\* The first block that is large enough leaves the free list.
LEMMA AllocTakeStep ==
    ASSUME PoolInv, AllocTake
    PROVE  PoolInv' /\ HeldDataKept /\ HeldSizesKept
<1>1. TypeOK
  BY DEF PoolInv
<1>2. PICK s, F, r : PoolOK(s, F, r)
  BY DEF PoolInv
<1>3. /\ F \subseteq DOMAIN s /\ DOMAIN held \subseteq DOMAIN s /\ Apart(DOMAIN s) /\ Apart(F)
      /\ mem \in Memory
      /\ \A b \in DOMAIN s : b \in Nat /\ b \in Offsets /\ ~ Wild(b)
      /\ \A f \in F : mem[SizeOf(f)] = s[f]
  BY <1>1, <1>2, PoolFacts
<1>4. /\ Tiles(s) /\ PlacesOK(s, F) /\ SizesOK(s) /\ ListsOK(F, r) /\ JoinedOK(s, F)
      /\ AllocOK(s, F)
  BY <1>2 DEF PoolOK
<1>5. PICK c : c = curr
  OBVIOUS
<1>6. /\ pc = "scan" /\ back = "idle" /\ c \in F /\ alloc_size \in Sizes
      /\ \A f \in F : f < c => s[f] < alloc_size
  BY <1>4, <1>5 DEF AllocOK, AllocTake
<1>7. ~ Wild(mem[PrevOf(c)]) /\ ~ Wild(mem[NextOf(c)])
  <2>1. mem[PrevOf(c)] \in F \cup {NULL_OFFSET} /\ mem[NextOf(c)] \in F \cup {NULL_OFFSET}
    BY <1>1, <1>2, <1>6, FreeNeighbours
  <2> QED
    BY <1>3, <2>1 DEF Wild
<1>8. /\ alloc_size <= s[c] /\ mem' = Unlink(mem, FREE_LIST, c) /\ block' = c
      /\ pc' = IF s[c] >= alloc_size + BlockSize + Slack THEN "split" ELSE "push"
      /\ UNCHANGED <<held, alloc_size, inserted, back, curr>>
  BY <1>3, <1>5, <1>6, <1>7 DEF AllocTake
<1>9. /\ FREE_LIST \in Heads /\ USED_LIST \in Cells /\ FREE_LIST # USED_LIST
      /\ USED_LIST \notin Links(F)
      /\ \A b \in DOMAIN s : SizeOf(b) \notin Links(F) /\ SizeOf(b) \in Cells /\ SizeOf(b) \notin Heads
      /\ Links(DOMAIN held) \cap Links(F) = {} /\ Links(DOMAIN held) \subseteq Cells
      /\ FREE_LIST \notin Links(DOMAIN held)
  <2>1. F \cap DOMAIN held = {}
    BY <1>4 DEF PlacesOK
  <2>2. Links(DOMAIN held) \subseteq Links(DOMAIN s)
    BY <1>3 DEF Links
  <2> QED
    BY <1>3, <2>1, <2>2, LinkCells
<1>10. /\ mem' \in Memory /\ Linked(mem', FREE_LIST, F \ {c}, Place)
       /\ \A a \in Cells : a # FREE_LIST /\ a \notin Links(F) => mem'[a] = mem[a]
  BY <1>3, <1>4, <1>6, <1>8, <1>9, UnlinkKeepsList DEF ListsOK
<1>11. Linked(mem', USED_LIST, DOMAIN held, r)
  BY <1>4, <1>9, <1>10, LinkedFrame DEF ListsOK
<1>12. \A b \in DOMAIN s : mem'[SizeOf(b)] = mem[SizeOf(b)]
  BY <1>9, <1>10 DEF Heads
<1>13. TypeOK'
  BY <1>1, <1>3, <1>6, <1>8, <1>10 DEF TypeOK, Offsets, Memory, Word
<1>14. ~ Shrinking /\ ~ Shrinking' /\ Taken = {} /\ Loose = {} /\ Taken' = {c} /\ Loose' = {}
  BY <1>6, <1>8 DEF Shrinking, Taken, Loose, Allocating
<1>15. PlacesOK(s, F \ {c})'
  BY <1>4, <1>6, <1>8, <1>14 DEF PlacesOK
<1>16. SizesOK(s)'
  BY <1>4, <1>8, <1>12, <1>14 DEF SizesOK
<1>17. ListsOK(F \ {c}, r)'
  BY <1>8, <1>10, <1>11 DEF ListsOK
<1>18. JoinedOK(s, F \ {c})' /\ EndIn(s, c) \notin F
  BY <1>4, <1>6 DEF JoinedOK
<1>19. AllocOK(s, F \ {c})'
  <2>1. \A f \in F \ {c} : f < block' => s[f] < alloc_size' /\ EndIn(s, f) # block'
    BY <1>4, <1>6, <1>8 DEF JoinedOK
  <2>2. CASE pc' = "split"
    <3>1. s[block'] >= alloc_size' + BlockSize + Slack
      BY <1>8, <2>2
    <3> QED
      BY <1>6, <1>8, <1>18, <2>1, <2>2, <3>1 DEF AllocOK, Allocating
  <2>3. CASE pc' # "split"
    <3>1. pc' = "push" /\ ~ (s[c] >= alloc_size + BlockSize + Slack)
      BY <1>8, <2>3
    <3>2. alloc_size \in Nat /\ s[c] \in Nat /\ Slack \in Nat
      BY <1>3, <1>4, <1>6, BufferAssumption DEF Tiles
    <3>3. s[c] < alloc_size + BlockSize + Slack
      BY <3>1, <3>2 DEF BlockSize
    <3>4. IsWhole(s, F \ {c})'
      BY <1>8, <1>18, <3>3 DEF IsWhole
    <3> QED
      BY <1>6, <1>8, <2>1, <3>1, <3>4 DEF AllocOK, Allocating
  <2> QED
    BY <2>2, <2>3
<1>20. InsertOK(F \ {c})' /\ pc' # "abort"
  BY <1>8 DEF InsertOK
<1>21. PoolOK(s, F \ {c}, r)'
  BY <1>4, <1>15, <1>16, <1>17, <1>18, <1>19, <1>20 DEF PoolOK
<1>22. HeldDataKept
  <2>1. \A a \in Cells \ HeaderCellsOf(s) : a # FREE_LIST /\ a \notin Links(F)
    BY <1>1, <1>2, <1>3, PoolFacts DEF HeaderCellsOf, Links, Heads
  <2> QED
    BY <1>1, <1>2, <1>3, <1>4, <1>10, <2>1, HeadersOnly, HeldSizes
<1>23. HeldSizesKept
  BY <1>3, <1>12 DEF HeldSizesKept
<1> QED
  BY <1>13, <1>20, <1>21, <1>22, <1>23 DEF PoolInv

\* The rest of the block gets a header of its own; it is in no list yet.
LEMMA AllocSplitStep ==
    ASSUME PoolInv, AllocSplit
    PROVE  PoolInv' /\ HeldDataKept /\ HeldSizesKept
<1>1. TypeOK
  BY DEF PoolInv
<1>2. PICK s, F, r : PoolOK(s, F, r)
  BY DEF PoolInv
<1>3. /\ F \subseteq DOMAIN s /\ DOMAIN held \subseteq DOMAIN s /\ Apart(DOMAIN s) /\ Apart(F)
      /\ mem \in Memory /\ IsFirst(F, Place, mem[FREE_LIST])
      /\ \A b \in DOMAIN s : b \in Nat /\ b \in Offsets /\ Place[b] = b
  BY <1>1, <1>2, PoolFacts
<1>4. /\ Tiles(s) /\ PlacesOK(s, F) /\ SizesOK(s) /\ ListsOK(F, r) /\ JoinedOK(s, F)
      /\ AllocOK(s, F)
  BY <1>2 DEF PoolOK
<1>5. PICK b : b = block
  OBVIOUS
<1>6. PICK n : n = alloc_size
  OBVIOUS
<1>7. /\ pc = "split" /\ back = "idle" /\ n \in Sizes /\ n \in Nat
      /\ \A f \in F : f < b => s[f] < n /\ EndIn(s, f) # b
      /\ EndIn(s, b) \notin F /\ s[b] >= n + BlockSize + Slack
  BY <1>4, <1>5, <1>6, BufferAssumption DEF AllocOK, AllocSplit, Allocating
<1>8. /\ Taken = {b} /\ Loose = {} /\ ~ Shrinking
      /\ b \in DOMAIN s /\ b \notin F /\ b \notin DOMAIN held
  BY <1>4, <1>5, <1>7 DEF PlacesOK, Taken, Loose, Shrinking, Allocating
<1>9. s[b] \in Nat /\ s[b] >= n + BlockSize
  BY <1>4, <1>7, <1>8, BufferAssumption DEF Tiles, BlockSize
<1>10. PICK c : c = b + BlockSize + n
  OBVIOUS
<1>11. PICK t : t = Cut(s, b, n)
  OBVIOUS
<1>12. /\ c \notin DOMAIN s /\ c \in Offsets /\ b < c
       /\ Tiles(t) /\ DOMAIN t = DOMAIN s \cup {c}
       /\ EndIn(t, b) = c /\ EndIn(t, c) = EndIn(s, b)
       /\ t[b] = n /\ t[c] = s[b] - n - BlockSize
       /\ \A x \in DOMAIN s \ {b} : t[x] = s[x] /\ EndIn(t, x) = EndIn(s, x)
  <2>1. Tiles(s) /\ b \in DOMAIN s /\ n \in Nat /\ s[b] >= n + BlockSize
    BY <1>4, <1>7, <1>8, <1>9
  <2> QED
    BY <1>10, <1>11, <2>1, CutTiles
<1>13. /\ Apart(DOMAIN t) /\ t[c] \in Nat /\ t[c] \in Word /\ EndIn(t, c) = c + 3 + t[c]
       /\ \A x, y \in DOMAIN t : EndIn(t, x) = EndIn(t, y) => x = y
       /\ c \in Nat
  BY <1>12, TilesFacts
<1>14. mem[SizeOf(b)] = s[b]
  BY <1>4, <1>8 DEF SizesOK
<1>15. /\ mem' = [mem EXCEPT ![SizeOf(c)] = t[c]] /\ inserted' = c
       /\ curr' = mem[FREE_LIST] /\ back' = "shrink" /\ pc' = "insert"
       /\ UNCHANGED <<held, alloc_size, block>>
  BY <1>5, <1>6, <1>7, <1>10, <1>12, <1>14 DEF AllocSplit
<1>16. /\ SizeOf(c) \in Cells /\ SizeOf(c) \notin Heads
       /\ SizeOf(c) \notin Links(F) /\ SizeOf(c) \notin Links(DOMAIN held)
       /\ FREE_LIST \in Heads /\ USED_LIST \in Heads /\ Heads \subseteq Cells
       /\ Links(F) \subseteq Cells /\ Links(DOMAIN held) \subseteq Cells
  <2>1. F \subseteq DOMAIN t /\ DOMAIN held \subseteq DOMAIN t /\ c \in DOMAIN t
    BY <1>3, <1>12
  <2>2. Links(F) \subseteq Links(DOMAIN t) /\ Links(DOMAIN held) \subseteq Links(DOMAIN t)
    BY <2>1 DEF Links
  <2>3. Heads = {FREE_LIST, USED_LIST}
    BY DEF Heads
  <2> QED
    BY <1>13, <2>1, <2>2, <2>3, LinkCells
<1>17. mem' \in Memory /\ \A a \in Cells : a # SizeOf(c) => mem'[a] = mem[a]
  BY <1>3, <1>13, <1>15 DEF Memory
<1>18. Linked(mem', FREE_LIST, F, Place) /\ Linked(mem', USED_LIST, DOMAIN held, r)
  <2>1. mem'[FREE_LIST] = mem[FREE_LIST] /\ mem'[USED_LIST] = mem[USED_LIST]
    BY <1>16, <1>17
  <2>2. \A a \in Links(F) : mem'[a] = mem[a]
    BY <1>16, <1>17
  <2>3. \A a \in Links(DOMAIN held) : mem'[a] = mem[a]
    BY <1>16, <1>17
  <2> QED
    BY <1>4, <2>1, <2>2, <2>3, LinkedFrame DEF ListsOK
<1>19. /\ mem'[SizeOf(c)] = t[c]
       /\ \A x \in DOMAIN s : mem'[SizeOf(x)] = mem[SizeOf(x)]
  <2>1. \A x \in DOMAIN s : SizeOf(x) \in Cells /\ SizeOf(x) # SizeOf(c)
    BY <1>12, <1>13, HeaderCells
  <2> QED
    BY <1>3, <1>15, <1>16, <1>17, <2>1 DEF Memory
<1>20. /\ mem[FREE_LIST] = NULL_OFFSET => F = {}
       /\ mem[FREE_LIST] # NULL_OFFSET => mem[FREE_LIST] \in F /\ \A f \in F : mem[FREE_LIST] <= f
  BY <1>3 DEF IsFirst
<1>21. TypeOK'
  BY <1>1, <1>3, <1>12, <1>15, <1>17, <1>20 DEF TypeOK, Offsets, Memory, Word, NULL_OFFSET
<1>22. Shrinking' /\ Taken' = {b} /\ Loose' = {c}
  BY <1>5, <1>15 DEF Shrinking, Taken, Loose, Allocating
<1>23. PlacesOK(t, F)'
  <2>1. DOMAIN s = F \cup DOMAIN held \cup {b} /\ F \cap DOMAIN held = {}
    BY <1>4, <1>8 DEF PlacesOK
  <2> QED
    BY <1>8, <1>12, <1>15, <1>22, <2>1 DEF PlacesOK
<1>24. SizesOK(t)'
  <2>1. \A x \in DOMAIN t : mem'[SizeOf(x)] = t[x] \/ (Shrinking' /\ x = block')
    BY <1>4, <1>5, <1>8, <1>12, <1>15, <1>19, <1>22 DEF SizesOK
  <2>2. \A x \in DOMAIN held' : held'[x] <= t[x]
    BY <1>3, <1>4, <1>8, <1>12, <1>15 DEF SizesOK
  <2> QED
    BY <2>1, <2>2 DEF SizesOK
<1>25. ListsOK(F, r)'
  BY <1>15, <1>18 DEF ListsOK
<1>26. JoinedOK(t, F)'
  <2>1. \A f \in F : EndIn(t, f) \notin F
    BY <1>3, <1>4, <1>7, <1>8, <1>12 DEF JoinedOK
  <2> QED
    BY <2>1 DEF JoinedOK
<1>27. AllocOK(t, F)'
  <2>1. \A f \in F : f < b => t[f] < n /\ EndIn(t, f) # b
    BY <1>3, <1>7, <1>8, <1>12
  <2>2. EndIn(t, c) - b - BlockSize >= n + BlockSize + Slack
    <3>1. EndIn(s, b) = b + BlockSize + s[b] /\ b \in Nat /\ Slack \in Nat
      BY <1>3, <1>8, BufferAssumption DEF EndIn
    <3> QED
      BY <1>7, <1>9, <1>12, <3>1 DEF BlockSize
  <2>3. WasCut(t, F)'
    BY <1>5, <1>6, <1>7, <1>12, <1>15, <1>22, <2>2 DEF WasCut
  <2> QED
    BY <1>5, <1>6, <1>7, <1>12, <1>15, <2>1, <2>3 DEF AllocOK, Allocating
<1>28. InsertOK(F)'
  <2>1. \A f \in F : ~ (f < curr')
    BY <1>3, <1>15, <1>20
  <2> QED
    BY <1>15, <1>20, <2>1 DEF InsertOK
<1>29. PoolOK(t, F, r)'
  BY <1>12, <1>23, <1>24, <1>25, <1>26, <1>27, <1>28 DEF PoolOK
<1>30. HeldDataKept
  <2>1. DOMAIN held \subseteq DOMAIN t
    BY <1>3, <1>12
  <2>2. \A x \in DOMAIN held : held[x] \in Nat /\ held[x] <= t[x]
    <3>1. \A x \in DOMAIN held : held[x] \in Nat /\ held[x] <= s[x]
      BY <1>1, <1>2, HeldSizes
    <3> QED
      BY <1>3, <1>8, <1>12, <3>1
  <2>3. \A a \in Cells \ HeaderCellsOf(t) : a # SizeOf(c)
    BY <1>12 DEF HeaderCellsOf, SizeOf
  <2> QED
    BY <1>12, <1>17, <2>1, <2>2, <2>3, HeadersOnly
<1>31. HeldSizesKept
  BY <1>3, <1>19 DEF HeldSizesKept
<1> QED
  BY <1>15, <1>21, <1>29, <1>30, <1>31 DEF PoolInv

\* The block that was cut gets the size that was asked for.
LEMMA AllocShrinkStep ==
    ASSUME PoolInv, AllocShrink
    PROVE  PoolInv' /\ HeldDataKept /\ HeldSizesKept
<1>1. TypeOK
  BY DEF PoolInv
<1>2. PICK s, F, r : PoolOK(s, F, r)
  BY DEF PoolInv
<1>3. /\ F \subseteq DOMAIN s /\ DOMAIN held \subseteq DOMAIN s /\ Apart(DOMAIN s)
      /\ mem \in Memory
  BY <1>1, <1>2, PoolFacts
<1>4. /\ Tiles(s) /\ PlacesOK(s, F) /\ SizesOK(s) /\ ListsOK(F, r) /\ JoinedOK(s, F)
      /\ AllocOK(s, F)
  BY <1>2 DEF PoolOK
<1>5. PICK b : b = block
  OBVIOUS
<1>6. /\ pc = "shrink" /\ back = "idle" /\ WasCut(s, F) /\ alloc_size \in Sizes
      /\ s[b] = alloc_size
      /\ \A f \in F : f < b => s[f] < alloc_size /\ EndIn(s, f) # b
  BY <1>4, <1>5 DEF AllocOK, AllocShrink, Allocating, WasCut
<1>7. Taken = {b} /\ Loose = {} /\ b \in DOMAIN s /\ Shrinking
  BY <1>4, <1>5, <1>6 DEF PlacesOK, Taken, Loose, Allocating, Shrinking
<1>8. /\ mem' = [mem EXCEPT ![SizeOf(b)] = s[b]] /\ pc' = "push"
      /\ UNCHANGED <<held, alloc_size, block, inserted, back, curr>>
  BY <1>5, <1>6 DEF AllocShrink, locals
<1>9. /\ SizeOf(b) \in Cells /\ SizeOf(b) \notin Heads /\ s[b] \in Word
      /\ SizeOf(b) \notin Links(F) /\ SizeOf(b) \notin Links(DOMAIN held)
      /\ Heads \subseteq Cells /\ Heads = {FREE_LIST, USED_LIST}
      /\ Links(F) \subseteq Cells /\ Links(DOMAIN held) \subseteq Cells
  <2>1. Links(F) \subseteq Links(DOMAIN s) /\ Links(DOMAIN held) \subseteq Links(DOMAIN s)
    BY <1>3 DEF Links
  <2>2. Heads = {FREE_LIST, USED_LIST}
    BY DEF Heads
  <2> QED
    BY <1>3, <1>4, <1>7, <2>1, <2>2, LinkCells, TilesFacts
<1>10. mem' \in Memory /\ \A a \in Cells : a # SizeOf(b) => mem'[a] = mem[a]
  BY <1>3, <1>8, <1>9 DEF Memory
<1>11. Linked(mem', FREE_LIST, F, Place) /\ Linked(mem', USED_LIST, DOMAIN held, r)
  <2>1. mem'[FREE_LIST] = mem[FREE_LIST] /\ mem'[USED_LIST] = mem[USED_LIST]
    BY <1>9, <1>10
  <2>2. \A a \in Links(F) : mem'[a] = mem[a]
    BY <1>9, <1>10
  <2>3. \A a \in Links(DOMAIN held) : mem'[a] = mem[a]
    BY <1>9, <1>10
  <2> QED
    BY <1>4, <2>1, <2>2, <2>3, LinkedFrame DEF ListsOK
<1>12. \A x \in DOMAIN s : mem'[SizeOf(x)] = s[x]
  <2>1. \A x \in DOMAIN s : SizeOf(x) \in Cells
    BY <1>3, LinkCells
  <2>2. \A x \in DOMAIN s : x # b => SizeOf(x) # SizeOf(b)
    BY <1>3, <1>7, HeaderCells
  <2>3. mem'[SizeOf(b)] = s[b]
    BY <1>3, <1>8, <1>9 DEF Memory
  <2>4. \A x \in DOMAIN s : x # b => mem[SizeOf(x)] = s[x]
    BY <1>4, <1>5 DEF SizesOK
  <2> QED
    BY <1>10, <2>1, <2>2, <2>3, <2>4
<1>13. TypeOK'
  BY <1>1, <1>8, <1>10 DEF TypeOK, Memory, Word
<1>14. Taken' = {b} /\ Loose' = {}
  BY <1>5, <1>6, <1>8 DEF Taken, Loose, Allocating
<1>15. PlacesOK(s, F)' /\ ListsOK(F, r)' /\ SizesOK(s)' /\ InsertOK(F)'
  BY <1>4, <1>7, <1>8, <1>11, <1>12, <1>14 DEF PlacesOK, ListsOK, SizesOK, InsertOK
<1>16. JoinedOK(s, F)'
  BY <1>4, <1>6 DEF JoinedOK
<1>17. WasCut(s, F)'
  BY <1>6, <1>7, <1>8, <1>14 DEF WasCut
<1>18. AllocOK(s, F)'
  BY <1>5, <1>6, <1>8, <1>17 DEF AllocOK, Allocating
<1>19. PoolOK(s, F, r)'
  BY <1>4, <1>15, <1>16, <1>18 DEF PoolOK
<1>20. HeldDataKept
  <2>1. \A a \in Cells \ HeaderCellsOf(s) : a # SizeOf(b)
    BY <1>7 DEF HeaderCellsOf, SizeOf
  <2> QED
    BY <1>1, <1>2, <1>3, <1>4, <1>10, <2>1, HeadersOnly, HeldSizes
<1>21. HeldSizesKept
  BY <1>3, <1>4, <1>5, <1>7, <1>12 DEF HeldSizesKept, PlacesOK, SizesOK
<1> QED
  BY <1>8, <1>13, <1>19, <1>20, <1>21 DEF PoolInv

\* There is always room in the order for one more block in front of the others.
LEMMA NewFirst ==
    ASSUME NEW S, NEW m, NEW r, NEW head, Linked(m, head, S, r), NEW b, b \notin S
    PROVE  \E q : /\ Linked(m, head, S, q) /\ Ranks(S \cup {b}, q)
                  /\ \A g \in S : q[b] < q[g]
<1>1. PICK first : first = m[head]
  OBVIOUS
<1>2. PICK low \in Int : \A g \in S : r[g] \in Int /\ low < r[g]
  <2>1. IsFirst(S, r, first) /\ \A g \in S : r[g] \in Int
    BY <1>1 DEF Linked, Ranks
  <2>2. CASE first = NULL_OFFSET
    <3>1. S = {}
      BY <2>1, <2>2 DEF IsFirst
    <3>2. 0 \in Int
      OBVIOUS
    <3> QED
      BY <3>1, <3>2
  <2>3. CASE first # NULL_OFFSET
    <3>1. first \in S /\ \A g \in S : r[first] <= r[g]
      BY <2>1, <2>3 DEF IsFirst
    <3>2. r[first] - 1 \in Int /\ \A g \in S : r[first] - 1 < r[g]
      BY <2>1, <3>1
    <3> QED
      BY <2>1, <3>2
  <2> QED
    BY <2>2, <2>3
<1> DEFINE q == [x \in S \cup {b} |-> IF x = b THEN low ELSE r[x]]
<1>3. q[b] = low /\ \A g \in S : q[g] = r[g]
  OBVIOUS
<1> HIDE DEF q
<1>4. Ranks(S, r)
  BY DEF Linked
<1>5. Ranks(S \cup {b}, q)
  BY <1>2, <1>3, <1>4 DEF Ranks
<1>6. Linked(m, head, S, q)
  <2>1. Ranks(S, q)
    BY <1>3, <1>4 DEF Ranks
  <2>2. IsFirst(S, q, m[head])
    BY <1>3 DEF Linked, IsFirst
  <2>3. ASSUME NEW f \in S
        PROVE  /\ Follows(S, q, f, m[NextOf(f)])
               /\ Precedes(S, q, f, m[PrevOf(f)])
    BY <1>3 DEF Linked, Follows, Precedes
  <2> QED
    BY <2>1, <2>2, <2>3 DEF Linked
<1>7. \A g \in S : q[b] < q[g]
  BY <1>2, <1>3
<1> QED
  BY <1>5, <1>6, <1>7

\* The block is put in front of the used list, and the caller has it.
LEMMA AllocPushStep ==
    ASSUME PoolInv, AllocPush
    PROVE  PoolInv' /\ HeldDataKept /\ HeldSizesKept
           /\ mem'[SizeOf(block)] = mem[SizeOf(block)]
<1>1. TypeOK
  BY DEF PoolInv
<1>2. PICK s, F, r : PoolOK(s, F, r)
  BY DEF PoolInv
<1>3. /\ F \subseteq DOMAIN s /\ DOMAIN held \subseteq DOMAIN s /\ Apart(DOMAIN s)
      /\ mem \in Memory
  BY <1>1, <1>2, PoolFacts
<1>4. /\ Tiles(s) /\ PlacesOK(s, F) /\ SizesOK(s) /\ ListsOK(F, r) /\ JoinedOK(s, F)
      /\ AllocOK(s, F)
  BY <1>2 DEF PoolOK
<1>5. PICK b : b = block
  OBVIOUS
<1>6. /\ pc = "push" /\ back = "idle" /\ alloc_size \in Sizes
      /\ WasCut(s, F) \/ IsWhole(s, F)
  BY <1>4 DEF AllocOK, AllocPush, Allocating
<1>7. Taken = {b} /\ Loose = {} /\ b \in DOMAIN s /\ b \notin F /\ b \notin DOMAIN held /\ ~ Shrinking
  BY <1>4, <1>5, <1>6 DEF PlacesOK, Taken, Loose, Allocating, Shrinking
<1>8. alloc_size \in Nat /\ s[b] \in Nat /\ alloc_size <= s[b]
  BY <1>4, <1>5, <1>6, <1>7, BufferAssumption DEF Tiles, WasCut, IsWhole
<1>9. /\ mem' = PushUsed(mem, b)
      /\ held' = [x \in DOMAIN held \cup {b} |-> IF x = b THEN alloc_size ELSE held[x]]
      /\ pc' = "fill" /\ UNCHANGED <<alloc_size, block, inserted, back, curr>>
  BY <1>5 DEF AllocPush, locals
<1>10. PICK q : /\ Linked(mem, USED_LIST, DOMAIN held, q) /\ Ranks(DOMAIN held \cup {b}, q)
                /\ \A g \in DOMAIN held : q[b] < q[g]
  BY <1>4, <1>7, NewFirst DEF ListsOK
<1>11. DOMAIN held' = DOMAIN held \cup {b} /\ DOMAIN held \cup {b} \subseteq DOMAIN s
  BY <1>3, <1>7, <1>9
<1>12. /\ FREE_LIST \in Cells /\ FREE_LIST # USED_LIST
       /\ FREE_LIST \notin Links(DOMAIN held \cup {b})
       /\ \A x \in DOMAIN s : SizeOf(x) \notin Links(DOMAIN held \cup {b}) /\ SizeOf(x) \in Cells
                              /\ SizeOf(x) \notin Heads
       /\ Links(F) \cap Links(DOMAIN held \cup {b}) = {} /\ Links(F) \subseteq Cells
       /\ USED_LIST \notin Links(F)
  <2>1. F \cap (DOMAIN held \cup {b}) = {}
    BY <1>4, <1>7 DEF PlacesOK
  <2>2. Links(F) \subseteq Links(DOMAIN s)
    BY <1>3 DEF Links
  <2> QED
    BY <1>3, <1>11, <2>1, <2>2, LinkCells
<1>13. /\ mem' \in Memory /\ Linked(mem', USED_LIST, DOMAIN held \cup {b}, q)
       /\ \A a \in Cells : a # USED_LIST /\ a \notin Links(DOMAIN held \cup {b}) => mem'[a] = mem[a]
  <2>1. Apart(DOMAIN held \cup {b})
    BY <1>4, <1>11, TilesFacts
  <2>2. PICK H : H = DOMAIN held
    OBVIOUS
  <2>3. /\ b \notin H /\ Apart(H \cup {b}) /\ mem \in Memory
        /\ Linked(mem, USED_LIST, H, q) /\ Ranks(H \cup {b}, q) /\ \A g \in H : q[b] < q[g]
    BY <1>3, <1>7, <1>10, <2>1, <2>2
  <2>4. /\ PushUsed(mem, b) \in Memory
        /\ Linked(PushUsed(mem, b), USED_LIST, H \cup {b}, q)
        /\ \A a \in Cells : a # USED_LIST /\ a \notin Links(H \cup {b})
                              => PushUsed(mem, b)[a] = mem[a]
    BY <2>3, PushUsedKeepsList
  <2> QED
    BY <1>9, <2>2, <2>4
<1>14. Linked(mem', FREE_LIST, F, Place)
  BY <1>4, <1>12, <1>13, LinkedFrame DEF ListsOK
<1>15. \A x \in DOMAIN s : mem'[SizeOf(x)] = mem[SizeOf(x)]
  BY <1>12, <1>13 DEF Heads
<1>16. TypeOK'
  <2>1. DOMAIN held' \subseteq HeaderSize .. BufferEnd - BlockSize
    BY <1>4, <1>11 DEF Tiles, Offsets
  <2>2. \A x \in DOMAIN held' : held'[x] \in Sizes
    BY <1>1, <1>6, <1>9 DEF TypeOK
  <2> QED
    BY <1>1, <1>9, <1>13, <2>1, <2>2 DEF TypeOK, Memory, Word
<1>17. Taken' = {} /\ Loose' = {} /\ ~ Shrinking'
  BY <1>6, <1>9 DEF Taken, Loose, Allocating, Shrinking
<1>18. PlacesOK(s, F)'
  BY <1>4, <1>7, <1>11, <1>17 DEF PlacesOK
<1>19. SizesOK(s)'
  <2>1. \A x \in DOMAIN held' : held'[x] <= s[x]
    BY <1>4, <1>8, <1>9 DEF SizesOK
  <2> QED
    BY <1>4, <1>7, <1>15, <2>1 DEF SizesOK
<1>20. ListsOK(F, q)' /\ JoinedOK(s, F)' /\ InsertOK(F)'
  BY <1>4, <1>6, <1>9, <1>11, <1>13, <1>14 DEF ListsOK, JoinedOK, InsertOK
<1>21. AllocOK(s, F)'
  <2>1. block' \in DOMAIN held' /\ held'[block'] = alloc_size'
    BY <1>5, <1>9
  <2> QED
    BY <1>6, <1>9, <2>1 DEF AllocOK, Allocating
<1>22. PoolOK(s, F, q)'
  BY <1>4, <1>18, <1>19, <1>20, <1>21 DEF PoolOK
<1>23. HeldDataKept
  <2>1. \A a \in Cells \ HeaderCellsOf(s) : a # USED_LIST /\ a \notin Links(DOMAIN held \cup {b})
    BY <1>1, <1>2, <1>11, PoolFacts DEF HeaderCellsOf, Links, Heads
  <2> QED
    BY <1>1, <1>2, <1>3, <1>4, <1>13, <2>1, HeadersOnly, HeldSizes
<1>24. HeldSizesKept
  BY <1>3, <1>15 DEF HeldSizesKept
<1> QED
  BY <1>5, <1>7, <1>9, <1>15, <1>16, <1>22, <1>23, <1>24 DEF PoolInv

\* put() writes its strings into the block and nowhere else.
LEMMA FillStep ==
    ASSUME PoolInv, NEW w \in Words, Fill(w)
    PROVE  PoolInv' /\ HeldDataKept /\ HeldSizesKept
<1>1. TypeOK
  BY DEF PoolInv
<1>2. PICK s, F, r : PoolOK(s, F, r)
  BY DEF PoolInv
<1>3. /\ F \subseteq DOMAIN s /\ DOMAIN held \subseteq DOMAIN s /\ Apart(DOMAIN s)
      /\ mem \in Memory
  BY <1>1, <1>2, PoolFacts
<1>4. /\ Tiles(s) /\ PlacesOK(s, F) /\ SizesOK(s) /\ ListsOK(F, r) /\ JoinedOK(s, F)
      /\ AllocOK(s, F)
  BY <1>2 DEF PoolOK
<1>5. PICK b : b = block
  OBVIOUS
<1>6. PICK n : n = alloc_size
  OBVIOUS
<1>7. /\ pc = "fill" /\ back = "idle" /\ b \in DOMAIN held /\ held[b] = n
      /\ n \in Nat /\ n <= s[b]
  <2>1. \A x \in DOMAIN held : held[x] \in Nat /\ held[x] <= s[x]
    BY <1>1, <1>2, HeldSizes
  <2> QED
    BY <1>4, <1>5, <1>6, <2>1 DEF AllocOK, Fill
<1>8. /\ mem' = [a \in Cells |-> IF a \in Data(b, n) THEN w ELSE mem[a]]
      /\ pc' = "idle" /\ alloc_size' = 0 /\ block' = 0 /\ inserted' = 0 /\ back' = "idle"
      /\ curr' = 0 /\ UNCHANGED held
  BY <1>5, <1>6 DEF Fill, Finish
<1>9. mem' \in Memory /\ \A a \in Cells : a \notin Data(b, n) => mem'[a] = mem[a]
  BY <1>3, <1>8 DEF Memory, Word
<1>10. \A x \in DOMAIN s : /\ x \in Nat /\ x >= 2 /\ x + 3 <= BufferEnd
                           /\ s[x] \in Nat /\ EndIn(s, x) = x + 3 + s[x]
  BY <1>4, TilesFacts
<1>11. \A x, y \in DOMAIN s : x < y => EndIn(s, x) <= y
  BY <1>4 DEF Tiles
<1>12. \A a \in Data(b, n) : a \in Nat /\ b + 3 <= a /\ a < EndIn(s, b)
  BY <1>3, <1>7, <1>10 DEF Data, BlockSize
<1>13. \A x \in DOMAIN s : {x, x + 1, x + 2} \cap Data(b, n) = {}
  <2> SUFFICES ASSUME NEW x \in DOMAIN s, NEW a \in Data(b, n)
               PROVE  a \notin {x, x + 1, x + 2}
    OBVIOUS
  <2>1. a \in Nat /\ b + 3 <= a /\ a < EndIn(s, b) /\ b \in DOMAIN s
    BY <1>3, <1>7, <1>12
  <2>2. CASE x = b
    BY <1>10, <2>1, <2>2
  <2>3. CASE x < b
    <3>1. EndIn(s, x) <= b
      BY <1>11, <2>1, <2>3
    <3> QED
      BY <1>10, <2>1, <3>1
  <2>4. CASE b < x
    <3>1. EndIn(s, b) <= x
      BY <1>11, <2>1, <2>4
    <3> QED
      BY <1>10, <2>1, <3>1
  <2> QED
    BY <1>10, <2>1, <2>2, <2>3, <2>4
<1>14. /\ \A x \in DOMAIN s : /\ mem'[PrevOf(x)] = mem[PrevOf(x)]
                              /\ mem'[NextOf(x)] = mem[NextOf(x)]
                              /\ mem'[SizeOf(x)] = mem[SizeOf(x)]
       /\ mem'[FREE_LIST] = mem[FREE_LIST] /\ mem'[USED_LIST] = mem[USED_LIST]
  <2>1. \A x \in DOMAIN s : /\ PrevOf(x) = x /\ NextOf(x) = x + 1 /\ SizeOf(x) = x + 2
                            /\ {x, x + 1, x + 2} \subseteq Cells
    BY <1>3, HeaderCells
  <2>2. {FREE_LIST, USED_LIST} \subseteq Cells /\ {FREE_LIST, USED_LIST} \cap Data(b, n) = {}
    <3>1. {FREE_LIST, USED_LIST} \subseteq Cells
      BY <1>3, LinkCells
    <3> QED
      BY <1>3, <1>7, <1>10, <1>12, <3>1 DEF FREE_LIST, USED_LIST
  <2> QED
    BY <1>9, <1>13, <2>1, <2>2
<1>15. Linked(mem', FREE_LIST, F, Place) /\ Linked(mem', USED_LIST, DOMAIN held, r)
  <2>1. \A S : S \subseteq DOMAIN s => \A a \in Links(S) : mem'[a] = mem[a]
    BY <1>14 DEF Links, PrevOf
  <2>2. \A a \in Links(F) : mem'[a] = mem[a]
    BY <1>3, <2>1
  <2>3. \A a \in Links(DOMAIN held) : mem'[a] = mem[a]
    BY <1>3, <2>1
  <2> QED
    BY <1>4, <1>14, <2>2, <2>3, LinkedFrame DEF ListsOK
<1>16. TypeOK'
  BY <1>1, <1>8, <1>9 DEF TypeOK, Memory, Word
<1>17. /\ Taken = {} /\ Loose = {} /\ ~ Shrinking
       /\ Taken' = {} /\ Loose' = {} /\ ~ Shrinking'
  BY <1>7, <1>8 DEF Taken, Loose, Allocating, Shrinking
<1>18. PlacesOK(s, F)' /\ SizesOK(s)' /\ ListsOK(F, r)' /\ JoinedOK(s, F)'
  BY <1>4, <1>7, <1>8, <1>14, <1>15, <1>17 DEF PlacesOK, SizesOK, ListsOK, JoinedOK
<1>19. AllocOK(s, F)' /\ InsertOK(F)'
  BY <1>8 DEF AllocOK, InsertOK, Allocating
<1>20. PoolOK(s, F, r)'
  BY <1>4, <1>18, <1>19 DEF PoolOK
<1>21. HeldDataKept
  <2> SUFFICES ASSUME NEW x \in DOMAIN held, x # b, NEW a \in Data(x, held[x])
               PROVE  mem'[a] = mem[a]
    BY <1>5, <1>7 DEF HeldDataKept
  <2>1. held[x] \in Nat /\ held[x] <= s[x]
    BY <1>1, <1>2, HeldSizes
  <2>2. a \in Nat /\ x + 3 <= a /\ a < EndIn(s, x)
    BY <1>3, <1>10, <2>1 DEF Data, BlockSize
  <2>3. x \in DOMAIN s /\ b \in DOMAIN s
    BY <1>3, <1>7
  <2>4. a \notin Data(b, n)
    <3>1. CASE x < b
      <4>1. EndIn(s, x) <= b
        BY <1>11, <2>3, <3>1
      <4> QED
        BY <1>10, <1>12, <2>2, <2>3, <4>1
    <3>2. CASE b < x
      <4>1. EndIn(s, b) <= x
        BY <1>11, <2>3, <3>2
      <4> QED
        BY <1>10, <1>12, <2>2, <2>3, <4>1
    <3> QED
      BY <1>10, <2>3, <3>1, <3>2
  <2>5. a \in Cells
    <3>1. EndIn(s, x) <= BufferEnd /\ BufferEnd \in Nat
      BY <1>4, <2>3, TilesFacts, BufferAssumption
    <3> QED
      BY <1>10, <2>2, <2>3, <3>1 DEF Cells
  <2> QED
    BY <1>9, <2>4, <2>5
<1>22. HeldSizesKept
  BY <1>3, <1>14 DEF HeldSizesKept
<1> QED
  BY <1>8, <1>16, <1>20, <1>21, <1>22 DEF PoolInv

----------------------------------------------------------------------------
(* free() and insert_block_to_free_list()                                  *)

\* The block leaves the used list; it is in no list yet.
LEMMA FreeCallStep ==
    ASSUME PoolInv, NEW b \in DOMAIN held, FreeCall(b)
    PROVE  PoolInv' /\ HeldDataKept /\ HeldSizesKept
<1>1. TypeOK
  BY DEF PoolInv
<1>2. PICK s, F, r : PoolOK(s, F, r)
  BY DEF PoolInv
<1>3. /\ F \subseteq DOMAIN s /\ DOMAIN held \subseteq DOMAIN s /\ Apart(DOMAIN s)
      /\ Apart(DOMAIN held) /\ mem \in Memory /\ IsFirst(F, Place, mem[FREE_LIST])
      /\ \A x \in DOMAIN s : x \in Nat /\ x \in Offsets /\ Place[x] = x
  BY <1>1, <1>2, PoolFacts
<1>4. /\ Tiles(s) /\ PlacesOK(s, F) /\ SizesOK(s) /\ ListsOK(F, r) /\ JoinedOK(s, F)
      /\ AllocOK(s, F)
  BY <1>2 DEF PoolOK
<1>5. PICK H : H = DOMAIN held
  OBVIOUS
<1>6. /\ pc = "idle" /\ back = "idle" /\ b \in H
      /\ held' = [c \in H \ {b} |-> held[c]] /\ mem' = Unlink(mem, USED_LIST, b)
      /\ inserted' = b /\ curr' = mem[FREE_LIST] /\ back' = "idle" /\ pc' = "insert"
      /\ UNCHANGED <<alloc_size, block>>
  BY <1>4, <1>5 DEF FreeCall, AllocOK
<1>7. /\ FREE_LIST \in Cells /\ FREE_LIST # USED_LIST /\ FREE_LIST \notin Links(H)
      /\ USED_LIST \in Heads
      /\ \A x \in DOMAIN s : SizeOf(x) \notin Links(H) /\ SizeOf(x) \in Cells /\ SizeOf(x) \notin Heads
      /\ Links(F) \cap Links(H) = {} /\ Links(F) \subseteq Cells
      /\ USED_LIST \notin Links(F)
  <2>1. F \cap H = {}
    BY <1>4, <1>5 DEF PlacesOK
  <2>2. Links(F) \subseteq Links(DOMAIN s)
    BY <1>3 DEF Links
  <2> QED
    BY <1>3, <1>5, <2>1, <2>2, LinkCells
<1>8. /\ mem' \in Memory /\ Linked(mem', USED_LIST, H \ {b}, r)
      /\ \A a \in Cells : a # USED_LIST /\ a \notin Links(H) => mem'[a] = mem[a]
  <2>1. Linked(mem, USED_LIST, H, r) /\ Apart(H)
    BY <1>3, <1>4, <1>5 DEF ListsOK
  <2> QED
    BY <1>3, <1>6, <1>7, <2>1, UnlinkKeepsList
<1>9. Linked(mem', FREE_LIST, F, Place)
  BY <1>4, <1>7, <1>8, LinkedFrame DEF ListsOK
<1>10. \A x \in DOMAIN s : mem'[SizeOf(x)] = mem[SizeOf(x)]
  BY <1>7, <1>8 DEF Heads
<1>11. DOMAIN held' = H \ {b} /\ \A x \in H \ {b} : held'[x] = held[x]
  BY <1>6
<1>12. /\ mem[FREE_LIST] = NULL_OFFSET => F = {}
       /\ mem[FREE_LIST] # NULL_OFFSET => mem[FREE_LIST] \in F /\ \A f \in F : mem[FREE_LIST] <= f
  BY <1>3 DEF IsFirst
<1>13. TypeOK'
  <2>1. b \in Offsets
    BY <1>3
  <2>2. curr' \in {0} \cup Offsets
    BY <1>3, <1>6, <1>12 DEF NULL_OFFSET
  <2>3. /\ DOMAIN held' \subseteq HeaderSize .. BufferEnd - BlockSize
        /\ \A x \in DOMAIN held' : held'[x] \in Sizes
    BY <1>1, <1>5, <1>11 DEF TypeOK
  <2> QED
    BY <1>1, <1>6, <1>8, <2>1, <2>2, <2>3 DEF TypeOK, Offsets, Memory, Word
<1>14. /\ Taken = {} /\ Loose = {} /\ ~ Shrinking
       /\ Taken' = {} /\ Loose' = {b} /\ ~ Shrinking'
  BY <1>6 DEF Taken, Loose, Allocating, Shrinking
<1>15. PlacesOK(s, F)'
  BY <1>4, <1>5, <1>11, <1>14 DEF PlacesOK
<1>16. SizesOK(s)'
  BY <1>4, <1>5, <1>10, <1>11, <1>14 DEF SizesOK
<1>17. ListsOK(F, r)'
  BY <1>8, <1>9, <1>11 DEF ListsOK
<1>18. JoinedOK(s, F)'
  BY <1>4, <1>6 DEF JoinedOK
<1>19. AllocOK(s, F)'
  BY <1>6 DEF AllocOK, Allocating
<1>20. InsertOK(F)'
  <2>1. \A f \in F : ~ (f < curr')
    BY <1>3, <1>6, <1>12
  <2> QED
    BY <1>6, <1>12, <2>1 DEF InsertOK
<1>21. PoolOK(s, F, r)'
  BY <1>4, <1>15, <1>16, <1>17, <1>18, <1>19, <1>20 DEF PoolOK
<1>22. HeldDataKept
  <2>1. \A a \in Cells \ HeaderCellsOf(s) : a # USED_LIST /\ a \notin Links(H)
    BY <1>1, <1>2, <1>3, <1>5, PoolFacts DEF HeaderCellsOf, Links, Heads
  <2> QED
    BY <1>1, <1>2, <1>3, <1>4, <1>8, <2>1, HeadersOnly, HeldSizes
<1>23. HeldSizesKept
  BY <1>3, <1>10 DEF HeldSizesKept
<1> QED
  BY <1>6, <1>13, <1>21, <1>22, <1>23 DEF PoolInv

\* insert_block_to_free_list() returns with every block in a list, or taken, and no
\* neighbours that are both free; alloc() still knows the block it cut.
LEMMA ContinueStep ==
    ASSUME TypeOK, pc \in {"insert", "coalesce"}, Continue, UNCHANGED held, mem' \in Memory,
           NEW s, NEW F, NEW r, Tiles(s),
           DOMAIN s = F \cup DOMAIN held \cup Taken, F \cap DOMAIN held = {},
           Taken \cap (F \cup DOMAIN held) = {},
           \A b \in DOMAIN s : mem'[SizeOf(b)] = s[b] \/ (Shrinking /\ b = block),
           \A b \in DOMAIN held : held[b] <= s[b],
           Linked(mem', FREE_LIST, F, Place), Linked(mem', USED_LIST, DOMAIN held, r),
           \A f \in F : EndIn(s, f) \notin F,
           back # "idle" => /\ back = "shrink" /\ alloc_size \in Sizes
                            /\ \A f \in F : f < block => s[f] < alloc_size /\ EndIn(s, f) # block
                            /\ s[block] = alloc_size /\ EndIn(s, block) \in F
                            /\ EndIn(s, EndIn(s, block)) - block - BlockSize
                                 >= alloc_size + BlockSize + Slack
    PROVE  PoolInv'
<1>1. CASE back = "idle"
  <2>1. /\ pc' = "idle" /\ alloc_size' = 0 /\ block' = 0 /\ inserted' = 0
        /\ back' = "idle" /\ curr' = 0
    BY <1>1 DEF Continue, Finish
  <2>2. TypeOK'
    BY <2>1 DEF TypeOK, Memory, Word
  <2>3. /\ Taken = {} /\ ~ Shrinking /\ Taken' = {} /\ Loose' = {} /\ ~ Shrinking'
    BY <1>1, <2>1 DEF Taken, Loose, Allocating, Shrinking
  <2>4. PlacesOK(s, F)' /\ SizesOK(s)' /\ ListsOK(F, r)'
    BY <2>3 DEF PlacesOK, SizesOK, ListsOK
  <2>5. JoinedOK(s, F)' /\ AllocOK(s, F)' /\ InsertOK(F)'
    BY <2>1 DEF JoinedOK, AllocOK, InsertOK, Allocating
  <2>6. PoolOK(s, F, r)'
    BY <2>4, <2>5 DEF PoolOK
  <2> QED
    BY <2>1, <2>2, <2>6 DEF PoolInv
<1>2. CASE back # "idle"
  <2>1. /\ back = "shrink" /\ pc' = "shrink" /\ inserted' = 0 /\ back' = "idle" /\ curr' = 0
        /\ UNCHANGED <<alloc_size, block>>
    BY <1>2 DEF Continue
  <2>2. TypeOK'
    BY <2>1 DEF TypeOK, Memory, Word
  <2>3. Taken' = Taken /\ Loose' = {} /\ Shrinking' /\ Shrinking
    BY <2>1 DEF Taken, Loose, Allocating, Shrinking
  <2>4. PlacesOK(s, F)' /\ SizesOK(s)' /\ ListsOK(F, r)'
    BY <2>1, <2>3 DEF PlacesOK, SizesOK, ListsOK
  <2>5. JoinedOK(s, F)' /\ InsertOK(F)'
    BY <2>1 DEF JoinedOK, InsertOK
  <2>6. WasCut(s, F)'
    BY <1>2, <2>1 DEF WasCut
  <2>7. AllocOK(s, F)'
    BY <1>2, <2>1, <2>6 DEF AllocOK, Allocating
  <2>8. PoolOK(s, F, r)'
    BY <2>4, <2>5, <2>7 DEF PoolOK
  <2> QED
    BY <2>1, <2>2, <2>8 DEF PoolInv
<1> QED
  BY <1>1, <1>2

\* A block with clear links becomes the whole free list.
LEMMA CleanInsertFirstStep ==
    ASSUME PoolInv, CleanInsertFirst
    PROVE  PoolInv' /\ HeldDataKept /\ HeldSizesKept
<1>1. TypeOK
  BY DEF PoolInv
<1>2. PICK s, F, r : PoolOK(s, F, r)
  BY DEF PoolInv
<1>3. /\ DOMAIN held \subseteq DOMAIN s /\ Apart(DOMAIN s) /\ mem \in Memory
      /\ \A x \in DOMAIN s : /\ x \in Nat /\ x \in Offsets /\ x # NULL_OFFSET /\ Place[x] = x
      /\ \A f \in F : mem[SizeOf(f)] = s[f]
  BY <1>1, <1>2, PoolFacts
<1>4. /\ Tiles(s) /\ PlacesOK(s, F) /\ SizesOK(s) /\ ListsOK(F, r) /\ JoinedOK(s, F)
      /\ AllocOK(s, F) /\ InsertOK(F)
  BY <1>2 DEF PoolOK
<1>5. PICK b : b = inserted
  OBVIOUS
<1>6. /\ pc = "insert" /\ curr = NULL_OFFSET /\ mem[PrevOf(b)] = NULL_OFFSET
      /\ mem[NextOf(b)] = NULL_OFFSET /\ mem' = [mem EXCEPT ![FREE_LIST] = b]
      /\ Continue /\ UNCHANGED held
  BY <1>5 DEF CleanInsertFirst, InsertFirst, LinksAreClear
<1>7. F = {}
  BY <1>4, <1>6 DEF InsertOK
<1>8. Loose = {b} /\ b \in DOMAIN s /\ b \notin DOMAIN held /\ b \notin Taken
  <2>1. Loose = {b} /\ b \in DOMAIN s /\ b \notin DOMAIN held
    BY <1>4, <1>5, <1>6 DEF PlacesOK, Loose
  <2>2. b \notin Taken
    <3>1. CASE back = "shrink"
      <4>1. b = EndIn(s, block) /\ block \in DOMAIN s
        BY <1>4, <1>5, <3>1 DEF AllocOK, PlacesOK, Taken, Allocating
      <4>2. block < EndIn(s, block) /\ block \in Nat
        BY <1>4, <4>1, TilesFacts
      <4> QED
        BY <1>3, <2>1, <4>1, <4>2 DEF Taken
    <3>2. CASE back # "shrink"
      BY <1>6, <3>2 DEF Taken, Allocating
    <3> QED
      BY <3>1, <3>2
  <2> QED
    BY <2>1, <2>2
<1>9. /\ FREE_LIST \in Cells /\ FREE_LIST # USED_LIST /\ USED_LIST \in Cells
      /\ FREE_LIST \notin Links(DOMAIN held) /\ Links(DOMAIN held) \subseteq Cells
      /\ \A x \in DOMAIN s : SizeOf(x) \in Cells /\ SizeOf(x) # FREE_LIST
      /\ PrevOf(b) \in Cells /\ NextOf(b) \in Cells
      /\ PrevOf(b) # FREE_LIST /\ NextOf(b) # FREE_LIST
  <2>1. Links(DOMAIN held) \subseteq Links(DOMAIN s)
    BY <1>3 DEF Links
  <2>2. PrevOf(b) \in Cells /\ NextOf(b) \in Cells /\ PrevOf(b) # FREE_LIST /\ NextOf(b) # FREE_LIST
    BY <1>3, <1>8, HeaderCells DEF FREE_LIST
  <2>3. \A x \in DOMAIN s : SizeOf(x) \notin Heads /\ SizeOf(x) \in Cells
    BY <1>3, LinkCells
  <2> QED
    BY <1>3, <2>1, <2>2, <2>3, LinkCells DEF Heads
<1>10. /\ mem' \in Memory /\ mem'[FREE_LIST] = b
       /\ \A a \in Cells : a # FREE_LIST => mem'[a] = mem[a]
  <2>1. b \in Word
    BY <1>3, <1>8, WordsAreNumbers
  <2> QED
    BY <1>3, <1>6, <1>9, <2>1 DEF Memory
<1>11. Linked(mem', USED_LIST, DOMAIN held, r)
  BY <1>4, <1>9, <1>10, LinkedFrame DEF ListsOK
<1>12. Linked(mem', FREE_LIST, {b}, Place)
  <2>1. mem'[PrevOf(b)] = NULL_OFFSET /\ mem'[NextOf(b)] = NULL_OFFSET
    BY <1>6, <1>9, <1>10
  <2>2. b # NULL_OFFSET /\ Place[b] \in Int /\ Place[b] <= Place[b]
    BY <1>3, <1>8
  <2> QED
    BY <1>10, <2>1, <2>2 DEF Linked, Ranks, IsFirst, Follows, Precedes
<1>13. /\ DOMAIN s = {b} \cup DOMAIN held \cup Taken /\ {b} \cap DOMAIN held = {}
       /\ Taken \cap ({b} \cup DOMAIN held) = {}
  BY <1>4, <1>7, <1>8 DEF PlacesOK
<1>14. /\ \A x \in DOMAIN s : mem'[SizeOf(x)] = s[x] \/ (Shrinking /\ x = block)
       /\ \A x \in DOMAIN held : held[x] <= s[x]
  BY <1>4, <1>9, <1>10 DEF SizesOK
<1>15. EndIn(s, b) # b
  BY <1>4, <1>8, TilesFacts
<1>16. ASSUME back # "idle"
       PROVE  /\ back = "shrink" /\ alloc_size \in Sizes
              /\ \A f \in {b} : f < block => s[f] < alloc_size /\ EndIn(s, f) # block
              /\ s[block] = alloc_size /\ EndIn(s, block) \in {b}
              /\ EndIn(s, EndIn(s, block)) - block - BlockSize
                   >= alloc_size + BlockSize + Slack
  <2>1. back = "shrink"
    BY <1>1, <1>16 DEF TypeOK
  <2>2. /\ alloc_size \in Sizes /\ b = EndIn(s, block) /\ WasCut(s, F) /\ block \in DOMAIN s
    BY <1>4, <1>5, <2>1 DEF AllocOK, Allocating, PlacesOK, Taken
  <2>3. block < b /\ block \in Nat /\ b \in Nat
    BY <1>3, <1>4, <1>8, <2>2, TilesFacts
  <2>4. ~ (b < block)
    BY <2>3
  <2> QED
    BY <2>1, <2>2, <2>4 DEF WasCut
<1>17. PoolInv'
  <2>1. \A f \in {b} : EndIn(s, f) \notin {b}
    BY <1>15
  <2> QED
    BY <1>1, <1>4, <1>6, <1>10, <1>11, <1>12, <1>13, <1>14, <1>16, <2>1, ContinueStep
<1>18. HeldDataKept
  <2>1. \A a \in Cells \ HeaderCellsOf(s) : a # FREE_LIST
    BY DEF HeaderCellsOf, Heads
  <2> QED
    BY <1>1, <1>2, <1>3, <1>4, <1>10, <2>1, HeadersOnly, HeldSizes
<1>19. HeldSizesKept
  BY <1>3, <1>9, <1>10 DEF HeldSizesKept
<1> QED
  BY <1>17, <1>18, <1>19

\* The cursor passes a block that is before the one to insert.
LEMMA InsertSeekStep ==
    ASSUME PoolInv, InsertSeek
    PROVE  PoolInv' /\ HeldDataKept /\ HeldSizesKept
<1>1. TypeOK
  BY DEF PoolInv
<1>2. PICK s, F, r : PoolOK(s, F, r)
  BY DEF PoolInv
<1>3. /\ F \subseteq DOMAIN s
      /\ \A b \in DOMAIN s : b \in Nat /\ b \in Offsets /\ ~ Wild(b)
  BY <1>1, <1>2, PoolFacts
<1>4. /\ pc = "insert" /\ curr \in F /\ (\A f \in F : f < curr => f < inserted)
      /\ inserted \in DOMAIN s /\ inserted \notin F
  BY <1>2 DEF PoolOK, InsertOK, InsertSeek, PlacesOK, Loose
<1>5. /\ curr <= inserted /\ mem[NextOf(curr)] # NULL_OFFSET /\ curr' = mem[NextOf(curr)]
      /\ UNCHANGED <<mem, held, pc, alloc_size, block, inserted, back>>
  BY <1>3, <1>4 DEF InsertSeek
<1>6. curr' \in F /\ curr < curr' /\ (\A g \in F : g <= curr \/ curr' <= g) /\ curr' # NULL_OFFSET
  BY <1>1, <1>2, <1>4, <1>5, FreeNeighbours
<1>7. TypeOK'
  BY <1>1, <1>3, <1>5, <1>6 DEF TypeOK, Offsets
<1>8. PlacesOK(s, F)' /\ SizesOK(s)' /\ ListsOK(F, r)' /\ JoinedOK(s, F)'
  BY <1>2, <1>4, <1>5 DEF PoolOK, PlacesOK, SizesOK, ListsOK, JoinedOK,
                          Taken, Loose, Allocating, Shrinking
<1>9. \A f \in F : f < curr' => f < inserted
  <2>1. \A f \in F : f < curr' => f <= curr
    BY <1>3, <1>6
  <2> QED
    BY <1>3, <1>4, <1>5, <2>1
<1>10. InsertOK(F)'
  BY <1>4, <1>5, <1>6, <1>9 DEF InsertOK
<1>11. AllocOK(s, F)'
  BY <1>2, <1>4, <1>5 DEF PoolOK, AllocOK, Allocating, WasCut, Loose
<1>12. PoolOK(s, F, r)'
  BY <1>2, <1>8, <1>10, <1>11 DEF PoolOK
<1> QED
  BY <1>4, <1>5, <1>7, <1>12, NothingWritten DEF PoolInv

\* The block that is being inserted is in no list and not the one alloc() took,
\* which it follows.
LEMMA LooseBlock ==
    ASSUME TypeOK, NEW s, NEW F, NEW r, PoolOK(s, F, r), pc = "insert"
    PROVE  /\ Loose = {inserted} /\ inserted \in DOMAIN s
           /\ inserted \notin F /\ inserted \notin DOMAIN held /\ inserted \notin Taken
           /\ back = "shrink" => block < inserted /\ EndIn(s, block) = inserted
<1>1. Tiles(s) /\ PlacesOK(s, F) /\ AllocOK(s, F)
  BY DEF PoolOK
<1>2. Loose = {inserted} /\ inserted \in DOMAIN s /\ inserted \notin F /\ inserted \notin DOMAIN held
  BY <1>1 DEF PlacesOK, Loose
<1>3. ASSUME back = "shrink"
      PROVE  block < inserted /\ EndIn(s, block) = inserted /\ block # inserted
  <2>1. inserted = EndIn(s, block) /\ block \in DOMAIN s
    BY <1>1, <1>3 DEF AllocOK, PlacesOK, Taken, Allocating
  <2>2. block < EndIn(s, block) /\ block \in Nat
    BY <1>1, <2>1, TilesFacts
  <2>3. block # inserted
    BY <2>1, <2>2
  <2> QED
    BY <2>1, <2>2, <2>3
<1>4. inserted \notin Taken
  BY <1>3 DEF Taken, Allocating
<1> QED
  BY <1>2, <1>3, <1>4

\* Where the loop stopped is where the block belongs in the order of the file.
LEMMA InsertionPoint ==
    ASSUME TypeOK, NEW s, NEW F, NEW r, PoolOK(s, F, r), pc = "insert",
           NEW b, b = inserted, NEW q, q = curr, q # NULL_OFFSET,
           q > b \/ mem[NextOf(q)] = NULL_OFFSET,
           NEW p, p = (IF q < b THEN q ELSE mem[PrevOf(q)]),
           NEW n, n = (IF q < b THEN NULL_OFFSET ELSE q)
    PROVE  /\ b \in DOMAIN s \ F /\ q \in F /\ p < b /\ q # b
           /\ p = NULL_OFFSET => q = mem[FREE_LIST]
           /\ Apart(F \cup {b}) /\ Ranks(F \cup {b}, Place)
           /\ Precedes(F \cup {b}, Place, b, p) /\ Follows(F \cup {b}, Place, b, n)
<1>1. /\ F \subseteq DOMAIN s /\ Apart(DOMAIN s)
      /\ IsFirst(F, Place, mem[FREE_LIST]) /\ Ranks(DOMAIN s, Place)
      /\ \A x \in DOMAIN s : x \in Nat /\ x >= 2 /\ x # NULL_OFFSET /\ Place[x] = x
  BY PoolFacts
<1>2. b \in DOMAIN s /\ b \notin F
  BY LooseBlock
<1>3. q \in F /\ \A f \in F : f < q => f < b
  BY DEF PoolOK, InsertOK
<1>4. /\ p # NULL_OFFSET => p \in F /\ p < b /\ \A g \in F : g <= p \/ b < g
      /\ p = NULL_OFFSET => \A g \in F : b < g
      /\ n # NULL_OFFSET => n \in F /\ b < n /\ \A g \in F : g < b \/ n <= g
      /\ n = NULL_OFFSET => \A g \in F : g < b
      /\ p = NULL_OFFSET => \A g \in F : q <= g
  <2>1. CASE q < b
    <3>1. p = q /\ n = NULL_OFFSET /\ mem[NextOf(q)] = NULL_OFFSET
      BY <1>1, <1>2, <1>3, <2>1
    <3>2. \A g \in F : g <= q
      BY <1>3, <3>1, FreeNeighbours
    <3> QED
      BY <1>1, <1>2, <1>3, <2>1, <3>1, <3>2
  <2>2. CASE ~ (q < b)
    <3>1. p = mem[PrevOf(q)] /\ n = q
      BY <2>2
    <3>2. /\ p # NULL_OFFSET => p \in F /\ p < q /\ \A g \in F : q <= g \/ g <= p
          /\ p = NULL_OFFSET => \A g \in F : q <= g
      BY <1>3, <3>1, FreeNeighbours
    <3>3. b < q
      BY <1>1, <1>2, <1>3, <2>2
    <3> QED
      BY <1>1, <1>2, <1>3, <3>1, <3>2, <3>3
  <2> QED
    BY <2>1, <2>2
<1>5. p = NULL_OFFSET => q = mem[FREE_LIST]
  <2> SUFFICES ASSUME p = NULL_OFFSET
               PROVE  q = mem[FREE_LIST]
    OBVIOUS
  <2>1. mem[FREE_LIST] \in F /\ Place[mem[FREE_LIST]] <= Place[q]
    BY <1>1, <1>3 DEF IsFirst
  <2> QED
    BY <1>1, <1>3, <1>4, <2>1
<1>6. p < b /\ q # b
  BY <1>1, <1>2, <1>3, <1>4 DEF NULL_OFFSET
<1>7. Precedes(F \cup {b}, Place, b, p) /\ Follows(F \cup {b}, Place, b, n)
  <2>1. \A g \in F \cup {b} : Place[g] = g /\ g \in Nat
    BY <1>1, <1>2
  <2>2. Precedes(F \cup {b}, Place, b, p)
    BY <1>4, <2>1 DEF Precedes
  <2>3. Follows(F \cup {b}, Place, b, n)
    BY <1>4, <2>1 DEF Follows
  <2> QED
    BY <2>2, <2>3
<1>8. Apart(F \cup {b}) /\ Ranks(F \cup {b}, Place)
  BY <1>1, <1>2 DEF Apart, Ranks
<1> QED
  BY <1>2, <1>3, <1>5, <1>6, <1>7, <1>8

\* So the assertions hold and it becomes one of the list.
LEMMA InsertLinkStep ==
    ASSUME PoolInv, InsertLink
    PROVE  PoolInv' /\ HeldDataKept /\ HeldSizesKept
<1>1. TypeOK
  BY DEF PoolInv
<1>2. PICK s, F, r : PoolOK(s, F, r)
  BY DEF PoolInv
<1>3. /\ F \subseteq DOMAIN s /\ DOMAIN held \subseteq DOMAIN s /\ Apart(DOMAIN s)
      /\ mem \in Memory /\ IsFirst(F, Place, mem[FREE_LIST]) /\ Ranks(DOMAIN s, Place)
      /\ \A x \in DOMAIN s : /\ x \in Nat /\ x >= 2 /\ x \in Offsets /\ ~ Wild(x)
                             /\ x # NULL_OFFSET /\ Place[x] = x
  BY <1>1, <1>2, PoolFacts
<1>4. /\ Tiles(s) /\ PlacesOK(s, F) /\ SizesOK(s) /\ ListsOK(F, r) /\ JoinedOK(s, F)
      /\ AllocOK(s, F) /\ InsertOK(F)
  BY <1>2 DEF PoolOK
<1>5. PICK b : b = inserted
  OBVIOUS
<1>6. PICK q : q = curr
  OBVIOUS
<1>7. PICK p : p = IF q < b THEN q ELSE mem[PrevOf(q)]
  OBVIOUS
<1>8. PICK n : n = IF q < b THEN NULL_OFFSET ELSE q
  OBVIOUS
<1>9. /\ pc = "insert" /\ q # NULL_OFFSET /\ q \in F
      /\ \A f \in F : f < q => f < b
      /\ q > b \/ mem[NextOf(q)] = NULL_OFFSET
  BY <1>4, <1>5, <1>6 DEF InsertLink, InsertOK
<1>10. /\ Loose = {b} /\ b \in DOMAIN s
       /\ b \notin F /\ b \notin DOMAIN held /\ b \notin Taken
       /\ back = "shrink" => block < b /\ EndIn(s, block) = b
  BY <1>1, <1>2, <1>5, <1>9, LooseBlock
<1>11. /\ p < b /\ q # b /\ (p = NULL_OFFSET => q = mem[FREE_LIST])
       /\ Apart(F \cup {b}) /\ Ranks(F \cup {b}, Place)
       /\ Precedes(F \cup {b}, Place, b, p) /\ Follows(F \cup {b}, Place, b, n)
  BY <1>1, <1>2, <1>5, <1>6, <1>7, <1>8, <1>9, InsertionPoint
<1>12. /\ mem' = LinkFree(mem, p, b, n) /\ pc' = "coalesce"
       /\ UNCHANGED <<held, alloc_size, block, inserted, back, curr>>
  BY <1>5, <1>6, <1>7, <1>8, <1>11 DEF InsertLink, locals
<1>13. /\ mem' \in Memory /\ Linked(mem', FREE_LIST, F \cup {b}, Place)
       /\ \A a \in Cells : a # FREE_LIST /\ a \notin Links(F \cup {b}) => mem'[a] = mem[a]
  <2>1. Apart(F \cup {b}) /\ Ranks(F \cup {b}, Place) /\ Linked(mem, FREE_LIST, F, Place)
    BY <1>4, <1>11 DEF ListsOK
  <2>2. PICK T : T = F \cup {b}
    OBVIOUS
  <2>3. /\ b \notin F /\ Apart(T) /\ mem \in Memory
        /\ Linked(mem, FREE_LIST, F, Place) /\ Ranks(T, Place)
        /\ Precedes(T, Place, b, p) /\ Follows(T, Place, b, n)
    BY <1>3, <1>10, <1>11, <2>1, <2>2
  <2>4. /\ LinkFree(mem, p, b, n) \in Memory
        /\ Linked(LinkFree(mem, p, b, n), FREE_LIST, T, Place)
        /\ \A a \in Cells : a # FREE_LIST /\ a \notin Links(T)
                              => LinkFree(mem, p, b, n)[a] = mem[a]
    BY <2>2, <2>3, LinkFreeKeepsList
  <2> QED
    BY <1>12, <2>2, <2>4
<1>14. /\ USED_LIST \in Cells /\ USED_LIST # FREE_LIST /\ USED_LIST \notin Links(F \cup {b})
       /\ Links(DOMAIN held) \subseteq Cells /\ FREE_LIST \notin Links(DOMAIN held)
       /\ Links(DOMAIN held) \cap Links(F \cup {b}) = {}
       /\ \A x \in DOMAIN s : /\ SizeOf(x) \in Cells /\ SizeOf(x) # FREE_LIST
                              /\ SizeOf(x) \notin Links(F \cup {b})
  <2>1. F \cup {b} \subseteq DOMAIN s /\ DOMAIN held \cap (F \cup {b}) = {}
    BY <1>3, <1>4, <1>10 DEF PlacesOK
  <2>2. Links(DOMAIN held) \subseteq Links(DOMAIN s)
    BY <1>3 DEF Links
  <2>3. \A x \in DOMAIN s : SizeOf(x) \notin Heads /\ SizeOf(x) \in Cells
    BY <1>3, LinkCells
  <2> QED
    BY <1>3, <2>1, <2>2, <2>3, LinkCells DEF Heads
<1>15. Linked(mem', USED_LIST, DOMAIN held, r)
  BY <1>4, <1>13, <1>14, LinkedFrame DEF ListsOK
<1>16. TypeOK'
  BY <1>1, <1>12, <1>13 DEF TypeOK, Memory, Word
<1>17. Taken' = Taken /\ Loose' = {} /\ (Shrinking' <=> Shrinking)
  BY <1>9, <1>12 DEF Taken, Loose, Allocating, Shrinking
<1>18. PlacesOK(s, F \cup {b})'
  BY <1>4, <1>10, <1>12, <1>17 DEF PlacesOK
<1>19. SizesOK(s)'
  BY <1>4, <1>12, <1>13, <1>14, <1>17 DEF SizesOK
<1>20. ListsOK(F \cup {b}, r)'
  BY <1>12, <1>13, <1>15 DEF ListsOK
<1>21. JoinedOK(s, F \cup {b})'
  BY <1>4, <1>5, <1>9, <1>12 DEF JoinedOK
<1>22. AllocOK(s, F \cup {b})'
  <2>1. CASE back = "shrink"
    <3>1. /\ WasCut(s, F) /\ alloc_size \in Sizes
          /\ \A f \in F : f < block => s[f] < alloc_size /\ EndIn(s, f) # block
      BY <1>4, <2>1 DEF AllocOK, Allocating
    <3>2. block < b /\ EndIn(s, block) = b /\ EndIn(s, b) # b /\ block \in Nat /\ b \in Nat
      <4>1. block \in DOMAIN s
        BY <1>4, <2>1 DEF PlacesOK, Taken, Allocating
      <4> QED
        BY <1>3, <1>4, <1>10, <2>1, <4>1, TilesFacts
    <3>3. WasCut(s, F \cup {b})'
      BY <1>12, <1>17, <3>1, <3>2 DEF WasCut
    <3>4. \A f \in F \cup {b} : f < block => s[f] < alloc_size /\ EndIn(s, f) # block
      BY <3>1, <3>2
    <3> QED
      BY <1>5, <1>12, <2>1, <3>1, <3>2, <3>3, <3>4 DEF AllocOK, Allocating
  <2>2. CASE back # "shrink"
    BY <1>12, <2>2 DEF AllocOK, Allocating
  <2> QED
    BY <2>1, <2>2
<1>23. InsertOK(F \cup {b})'
  BY <1>5, <1>12 DEF InsertOK
<1>24. PoolOK(s, F \cup {b}, r)'
  BY <1>4, <1>18, <1>19, <1>20, <1>21, <1>22, <1>23 DEF PoolOK
<1>25. HeldDataKept
  <2>1. \A x \in DOMAIN s : PrevOf(x) = x /\ NextOf(x) = x + 1
    BY <1>3, HeaderCells
  <2>2. \A a \in Cells \ HeaderCellsOf(s) : a # FREE_LIST /\ a \notin Links(F \cup {b})
    BY <1>3, <1>10, <2>1 DEF HeaderCellsOf, Links, Heads
  <2> QED
    BY <1>1, <1>2, <1>3, <1>4, <1>13, <2>2, HeadersOnly, HeldSizes
<1>26. HeldSizesKept
  BY <1>3, <1>13, <1>14 DEF HeldSizesKept
<1> QED
  BY <1>12, <1>16, <1>24, <1>25, <1>26 DEF PoolInv

\* t, G and M are the blocks, the free list and the memory after block e and the block
\* c behind it became one.
Merged(s, F, m, t, G, M, e, c) ==
    /\ M \in Memory /\ Linked(M, FREE_LIST, G, Place)
    /\ \A a \in Cells : a # FREE_LIST /\ a \notin Links(F) => M[a] = m[a]
    /\ G \subseteq F /\ e \in G
    /\ Tiles(t) /\ DOMAIN t = (DOMAIN s \ F) \cup G
    /\ t[e] = s[e] + (IF c # e THEN BlockSize + s[c] ELSE 0)
    /\ EndIn(t, e) = EndIn(s, c)
    /\ \A x \in DOMAIN t \ {e} : t[x] = s[x] /\ EndIn(t, x) = EndIn(s, x)

\* A block e of the list and the block c of the list right behind it become one: c
\* leaves the list, and the blocks still tile the file.
LEMMA MergeKeepsList ==
    ASSUME NEW s, Tiles(s), NEW F, F \subseteq DOMAIN s, NEW m \in Memory,
           Linked(m, FREE_LIST, F, Place), NEW e \in F, NEW c \in F, c = EndIn(s, e),
           NEW M, M = Unlink(m, FREE_LIST, c), NEW G, G = F \ {c}, NEW t, t = Join(s, e, c)
    PROVE  Merged(s, F, m, t, G, M, e, c)
<1>1. e \in DOMAIN s /\ c \in DOMAIN s
  OBVIOUS
<1>2. Apart(F) /\ FREE_LIST \in Heads
  BY TilesFacts DEF Heads
<1>3. /\ M \in Memory /\ Linked(M, FREE_LIST, G, Place)
      /\ \A a \in Cells : a # FREE_LIST /\ a \notin Links(F) => M[a] = m[a]
  BY <1>2, UnlinkKeepsList
<1>4. /\ Tiles(t) /\ DOMAIN t = DOMAIN s \ {c}
      /\ EndIn(t, e) = EndIn(s, c) /\ e < c
      /\ t[e] = s[e] + BlockSize + s[c]
      /\ \A x \in DOMAIN s \ {e, c} : t[x] = s[x] /\ EndIn(t, x) = EndIn(s, x)
  BY <1>1, JoinTiles
<1>5. s[e] \in Nat /\ s[c] \in Nat /\ e \in Nat
  BY <1>1, TilesFacts
<1>6. t[e] = s[e] + (BlockSize + s[c]) /\ e # c
  BY <1>4, <1>5 DEF BlockSize
<1> QED
  BY <1>1, <1>3, <1>4, <1>6 DEF Merged

\* The merge of block b with its neighbours p and n in the list, if they are neighbours
\* in the file, in two halves.  e is the block the result starts with, d the last of
\* those that become one; s1, F1, m1 are what there is after the first half, s2, F2, m2
\* after both.
Halves(s, F, b, p, n, e, d, s1, F1, m1, s2, F2, m2) ==
    /\ e = IF p # NULL_OFFSET /\ EndIn(s, p) = b THEN p ELSE b
    /\ d = IF n # NULL_OFFSET /\ EndIn(s, b) = n THEN n ELSE e
    /\ s1 = IF b # e THEN Join(s, e, b) ELSE s
    /\ F1 = IF b # e THEN F \ {b} ELSE F
    /\ m1 = IF b # e THEN Unlink(mem, FREE_LIST, b) ELSE mem
    /\ s2 = IF d # e THEN Join(s1, e, d) ELSE s1
    /\ F2 = IF d # e THEN F1 \ {d} ELSE F1
    /\ m2 = IF d # e THEN Unlink(m1, FREE_LIST, d) ELSE m1

\* What the halves make of the pool: the parts below say it in the order of the code.
HalvesFit(s, F, b, p, n, e, d, s1, F1, m1, s2, F2, m2) ==
    /\ b \in F /\ e \in F /\ d \in F1
    /\ e # b <=> (p # NULL_OFFSET /\ EndIn(s, p) = b)
    /\ e # b => e = p /\ e < b
    /\ d # e <=> (n # NULL_OFFSET /\ EndIn(s, b) = n)
    /\ d # e => d = n /\ b < d
    /\ PrevContiguous(mem, b) <=> e # b
    /\ NextContiguous(mem, b) <=> d # e
    /\ Merged(s, F, mem, s1, F1, m1, e, b) /\ Merged(s1, F1, m1, s2, F2, m2, e, d)
    /\ F2 \subseteq F /\ e \in F2 /\ DOMAIN s2 = (DOMAIN s \ F) \cup F2
    /\ b # e => b \notin F2
    /\ \A x \in DOMAIN s2 \ {e} : s2[x] = s[x] /\ EndIn(s2, x) = EndIn(s, x)
    /\ EndIn(s2, e) = IF d # e THEN EndIn(s, d) ELSE EndIn(s, b)
    /\ Coalesce(mem, b) = [m2 EXCEPT ![SizeOf(e)] = s2[e]]
    /\ s2[e] \in Word
    /\ SizeOf(e) \in Cells /\ SizeOf(e) # FREE_LIST /\ SizeOf(e) \notin Links(F)
    /\ \A a \in Cells : a # FREE_LIST /\ a \notin Links(F) => m2[a] = mem[a]

\* Each half keeps the list linked and the file tiled, and together they are what
\* insert_block_to_free_list() does.
LEMMA MergeInHalves ==
    ASSUME TypeOK, NEW s, NEW F, NEW r, PoolOK(s, F, r), pc = "coalesce",
           NEW b, b = inserted, NEW p, p = mem[PrevOf(b)], NEW n, n = mem[NextOf(b)],
           NEW e, NEW d, NEW s1, NEW F1, NEW m1, NEW s2, NEW F2, NEW m2,
           Halves(s, F, b, p, n, e, d, s1, F1, m1, s2, F2, m2)
    PROVE  HalvesFit(s, F, b, p, n, e, d, s1, F1, m1, s2, F2, m2)
<1>1. /\ F \subseteq DOMAIN s /\ DOMAIN held \subseteq DOMAIN s /\ Apart(DOMAIN s)
      /\ mem \in Memory
      /\ \A x \in DOMAIN s : /\ x \in Nat /\ x >= 2 /\ x # NULL_OFFSET /\ ~ Wild(x)
                             /\ SizeOf(x) = x + 2 /\ Place[x] = x
      /\ \A f \in F : mem[SizeOf(f)] = s[f]
  BY PoolFacts
<1>2. /\ Tiles(s) /\ PlacesOK(s, F) /\ SizesOK(s) /\ ListsOK(F, r) /\ JoinedOK(s, F)
      /\ AllocOK(s, F) /\ InsertOK(F)
  BY DEF PoolOK
<1>3. b \in F
  BY <1>2 DEF InsertOK
<1>4. e = IF p # NULL_OFFSET /\ EndIn(s, p) = b THEN p ELSE b
  BY DEF Halves
<1>5. d = IF n # NULL_OFFSET /\ EndIn(s, b) = n THEN n ELSE e
  BY DEF Halves
<1>6. s1 = IF b # e THEN Join(s, e, b) ELSE s
  BY DEF Halves
<1>7. F1 = IF b # e THEN F \ {b} ELSE F
  BY DEF Halves
<1>8. m1 = IF b # e THEN Unlink(mem, FREE_LIST, b) ELSE mem
  BY DEF Halves
<1>9. s2 = IF d # e THEN Join(s1, e, d) ELSE s1
  BY DEF Halves
<1>10. F2 = IF d # e THEN F1 \ {d} ELSE F1
  BY DEF Halves
<1>11. m2 = IF d # e THEN Unlink(m1, FREE_LIST, d) ELSE m1
  BY DEF Halves
<1>12. /\ n # NULL_OFFSET => n \in F /\ b < n /\ \A g \in F : g <= b \/ n <= g
       /\ n = NULL_OFFSET => \A g \in F : g <= b
       /\ p # NULL_OFFSET => p \in F /\ p < b /\ \A g \in F : b <= g \/ g <= p
       /\ p = NULL_OFFSET => \A g \in F : b <= g
  BY <1>3, FreeNeighbours
<1>13. /\ e \in F
       /\ e # b <=> (p # NULL_OFFSET /\ EndIn(s, p) = b)
       /\ e # b => e = p /\ e < b
  BY <1>4, <1>1, <1>3, <1>12
<1>14. /\ d \in F
       /\ d # e <=> (n # NULL_OFFSET /\ EndIn(s, b) = n)
       /\ d # e => d = n /\ b < d
  BY <1>5, <1>1, <1>3, <1>12, <1>13
<1>15. PrevContiguous(mem, b) <=> e # b
  <2>1. p # NULL_OFFSET => mem[NextOf(p)] = b
    <3>1. Linked(mem, FREE_LIST, F, Place) /\ NULL_OFFSET \notin F
      BY <1>1, <1>2 DEF ListsOK
    <3> QED
      BY <1>3, <3>1, Neighbours
  <2>2. p # NULL_OFFSET => mem[SizeOf(p)] = s[p]
    BY <1>1, <1>12
  <2> QED
    BY <1>13, <2>1, <2>2 DEF PrevContiguous, Contiguous, EndIn
<1>16. NextContiguous(mem, b) <=> d # e
  <2>1. mem[SizeOf(b)] = s[b]
    BY <1>1, <1>3
  <2> QED
    BY <1>14, <2>1 DEF NextContiguous, Contiguous, EndIn
<1>17. Merged(s, F, mem, s1, F1, m1, e, b)
  <2>1. /\ Tiles(s) /\ F \subseteq DOMAIN s /\ mem \in Memory
        /\ Linked(mem, FREE_LIST, F, Place)
        /\ e \in F /\ b \in F /\ (b # e => b = EndIn(s, e))
    BY <1>1, <1>2, <1>3, <1>13 DEF ListsOK
  <2>2. CASE b # e
    <3>1. b = EndIn(s, e) /\ m1 = Unlink(mem, FREE_LIST, b) /\ F1 = F \ {b} /\ s1 = Join(s, e, b)
      BY <1>6, <1>7, <1>8, <2>1, <2>2
    <3> QED
      BY <2>1, <3>1, MergeKeepsList
  <2>3. CASE b = e
    <3>1. m1 = mem /\ F1 = F /\ s1 = s /\ s[e] \in Nat
      BY <1>6, <1>7, <1>8, <2>1, <2>3, TilesFacts
    <3> QED
      BY <2>1, <2>3, <3>1 DEF Merged
  <2> QED
    BY <2>2, <2>3
<1>18. d \in F1 /\ (d # e => d = EndIn(s1, e))
  <2>1. d # e => d \in F /\ d = EndIn(s, b) /\ d # b
    BY <1>1, <1>3, <1>14
  <2> QED
    BY <1>17, <1>7, <2>1 DEF Merged
<1>19. Merged(s1, F1, m1, s2, F2, m2, e, d)
  <2>1. /\ Tiles(s1) /\ F1 \subseteq DOMAIN s1 /\ m1 \in Memory
        /\ Linked(m1, FREE_LIST, F1, Place)
        /\ e \in F1 /\ d \in F1 /\ (d # e => d = EndIn(s1, e))
    BY <1>17, <1>18 DEF Merged
  <2>2. CASE d # e
    <3>1. d = EndIn(s1, e) /\ m2 = Unlink(m1, FREE_LIST, d) /\ F2 = F1 \ {d} /\ s2 = Join(s1, e, d)
      BY <1>9, <1>10, <1>11, <2>1, <2>2
    <3> QED
      BY <2>1, <3>1, MergeKeepsList
  <2>3. CASE d = e
    <3>1. m2 = m1 /\ F2 = F1 /\ s2 = s1 /\ s1[e] \in Nat
      BY <1>9, <1>10, <1>11, <2>1, <2>3, TilesFacts
    <3> QED
      BY <2>1, <2>3, <3>1 DEF Merged
  <2> QED
    BY <2>2, <2>3
<1>20. /\ F2 \subseteq F /\ e \in F2 /\ DOMAIN s2 = (DOMAIN s \ F) \cup F2
       /\ b # e => b \notin F2
       /\ \A x \in DOMAIN s2 \ {e} : s2[x] = s[x] /\ EndIn(s2, x) = EndIn(s, x)
  <2>1. /\ F1 \subseteq F /\ DOMAIN s1 = (DOMAIN s \ F) \cup F1
        /\ \A x \in DOMAIN s1 \ {e} : s1[x] = s[x] /\ EndIn(s1, x) = EndIn(s, x)
    BY <1>17 DEF Merged
  <2>2. /\ F2 \subseteq F1 /\ e \in F2 /\ DOMAIN s2 = (DOMAIN s1 \ F1) \cup F2
        /\ \A x \in DOMAIN s2 \ {e} : s2[x] = s1[x] /\ EndIn(s2, x) = EndIn(s1, x)
    BY <1>19 DEF Merged
  <2>3. DOMAIN s1 \ F1 = DOMAIN s \ F
    BY <2>1
  <2>4. DOMAIN s2 \subseteq DOMAIN s1
    BY <2>1, <2>2
  <2>5. b # e => b \notin F1
    BY <1>7
  <2> QED
    BY <2>1, <2>2, <2>3, <2>4, <2>5
<1>21. EndIn(s2, e) = IF d # e THEN EndIn(s, d) ELSE EndIn(s, b)
  <2>1. EndIn(s2, e) = EndIn(s1, d) /\ EndIn(s1, e) = EndIn(s, b)
    BY <1>17, <1>19 DEF Merged
  <2>2. d # e => EndIn(s1, d) = EndIn(s, d)
    BY <1>17, <1>18 DEF Merged
  <2> QED
    BY <2>1, <2>2
<1>22. /\ SizeOf(e) \in Cells /\ SizeOf(e) # FREE_LIST /\ SizeOf(e) \notin Links(F)
       /\ m2 \in Memory /\ s2[e] \in Word
       /\ \A a \in Cells : a # FREE_LIST /\ a \notin Links(F) => m2[a] = mem[a]
  <2>1. /\ \A a \in Cells : a # FREE_LIST /\ a \notin Links(F) => m1[a] = mem[a]
        /\ \A a \in Cells : a # FREE_LIST /\ a \notin Links(F1) => m2[a] = m1[a]
        /\ m2 \in Memory /\ F1 \subseteq F /\ e \in F
    BY <1>13, <1>17, <1>19 DEF Merged
  <2>2. Links(F1) \subseteq Links(F)
    BY <2>1 DEF Links
  <2>3. SizeOf(e) \notin Heads /\ FREE_LIST \in Heads
    BY <1>1, <2>1, LinkCells
  <2>4. SizeOf(e) # FREE_LIST
    BY <2>3
  <2>5. SizeOf(e) \in Cells /\ SizeOf(e) \notin Links(F)
    BY <1>1, <2>1, LinkCells
  <2>6. Tiles(s2) /\ e \in DOMAIN s2
    BY <1>19 DEF Merged
  <2>7. s2[e] \in Word
    BY <2>6, TilesFacts
  <2> QED
    BY <2>1, <2>2, <2>4, <2>5, <2>7
<1>23. Coalesce(mem, b) = [m2 EXCEPT ![SizeOf(e)] = s2[e]]
  <2>1. e = (IF PrevContiguous(mem, b) THEN p ELSE b)
    BY <1>13, <1>15
  <2>2. Coalesce(mem, b)
          = [m2 EXCEPT ![SizeOf(e)] = @ + (IF b # e THEN BlockSize + mem[SizeOf(b)] ELSE 0)
                                        + (IF d # e THEN BlockSize + mem[SizeOf(d)] ELSE 0)]
    BY <1>14, <1>15, <1>16, <1>8, <1>11, <2>1 DEF Coalesce
  <2>3. m2[SizeOf(e)] = s[e]
    BY <1>1, <1>13, <1>22
  <2>4. s2[e] = s[e] + (IF b # e THEN BlockSize + s[b] ELSE 0)
                     + (IF d # e THEN BlockSize + s[d] ELSE 0)
    <3>1. s1[e] = s[e] + (IF b # e THEN BlockSize + s[b] ELSE 0)
      BY <1>17 DEF Merged
    <3>2. s2[e] = s1[e] + (IF d # e THEN BlockSize + s1[d] ELSE 0)
      BY <1>19 DEF Merged
    <3>3. d # e => s1[d] = s[d]
      BY <1>17, <1>18 DEF Merged
    <3> QED
      BY <3>1, <3>2, <3>3
  <2>5. mem[SizeOf(b)] = s[b] /\ mem[SizeOf(d)] = s[d]
    BY <1>1, <1>3, <1>14
  <2> QED
    BY <2>2, <2>3, <2>4, <2>5
<1> QED
  BY <1>3, <1>13, <1>14, <1>15, <1>16, <1>17, <1>18, <1>19, <1>20, <1>21, <1>22, <1>23
     DEF HalvesFit

\* The block and its neighbours in the list become one if they are neighbours in the
\* file; then no two free blocks are.
LEMMA InsertCoalesceStep ==
    ASSUME PoolInv, InsertCoalesce
    PROVE  PoolInv' /\ HeldDataKept /\ HeldSizesKept
<1>1. TypeOK
  BY DEF PoolInv
<1>2. PICK s, F, r : PoolOK(s, F, r)
  BY DEF PoolInv
<1>3. /\ F \subseteq DOMAIN s /\ DOMAIN held \subseteq DOMAIN s /\ Apart(DOMAIN s)
      /\ mem \in Memory
      /\ \A x \in DOMAIN s : /\ x \in Nat /\ x >= 2 /\ x # NULL_OFFSET /\ ~ Wild(x)
                             /\ SizeOf(x) = x + 2 /\ Place[x] = x
      /\ \A f \in F : mem[SizeOf(f)] = s[f]
  BY <1>1, <1>2, PoolFacts
<1>4. /\ Tiles(s) /\ PlacesOK(s, F) /\ SizesOK(s) /\ ListsOK(F, r) /\ JoinedOK(s, F)
      /\ AllocOK(s, F) /\ InsertOK(F)
  BY <1>2 DEF PoolOK
<1>5. PICK b : b = inserted
  OBVIOUS
<1>6. PICK p : p = mem[PrevOf(b)]
  OBVIOUS
<1>7. PICK n : n = mem[NextOf(b)]
  OBVIOUS
<1>8. pc = "coalesce" /\ b \in F /\ Loose = {}
  BY <1>4, <1>5 DEF InsertCoalesce, InsertOK, Loose
<1>9. /\ n # NULL_OFFSET => n \in F /\ b < n /\ \A g \in F : g <= b \/ n <= g
      /\ n = NULL_OFFSET => \A g \in F : g <= b
      /\ p # NULL_OFFSET => p \in F /\ p < b /\ \A g \in F : b <= g \/ g <= p
      /\ p = NULL_OFFSET => \A g \in F : b <= g
  BY <1>1, <1>2, <1>6, <1>7, <1>8, FreeNeighbours
\* e: the block the result starts with; d: the last of the blocks that become one.
<1>10. PICK e : e = IF p # NULL_OFFSET /\ EndIn(s, p) = b THEN p ELSE b
  OBVIOUS
<1>11. PICK d : d = IF n # NULL_OFFSET /\ EndIn(s, b) = n THEN n ELSE e
  OBVIOUS
<1>12. PICK m1 : m1 = IF b # e THEN Unlink(mem, FREE_LIST, b) ELSE mem
  OBVIOUS
<1>13. PICK m2 : m2 = IF d # e THEN Unlink(m1, FREE_LIST, d) ELSE m1
  OBVIOUS
<1>14. PICK F1 : F1 = IF b # e THEN F \ {b} ELSE F
  OBVIOUS
<1>15. PICK s1 : s1 = IF b # e THEN Join(s, e, b) ELSE s
  OBVIOUS
<1>16. PICK F2 : F2 = IF d # e THEN F1 \ {d} ELSE F1
  OBVIOUS
<1>17. PICK s2 : s2 = IF d # e THEN Join(s1, e, d) ELSE s1
  OBVIOUS
<1>18. /\ e \in F /\ d \in F1
       /\ e # b <=> (p # NULL_OFFSET /\ EndIn(s, p) = b)
       /\ e # b => e = p /\ e < b
       /\ d # e <=> (n # NULL_OFFSET /\ EndIn(s, b) = n)
       /\ d # e => d = n /\ b < d
       /\ NextContiguous(mem, b) <=> d # e
       /\ Merged(s, F, mem, s1, F1, m1, e, b) /\ Merged(s1, F1, m1, s2, F2, m2, e, d)
       /\ F2 \subseteq F /\ e \in F2 /\ DOMAIN s2 = (DOMAIN s \ F) \cup F2
       /\ b # e => b \notin F2
       /\ \A x \in DOMAIN s2 \ {e} : s2[x] = s[x] /\ EndIn(s2, x) = EndIn(s, x)
       /\ EndIn(s2, e) = IF d # e THEN EndIn(s, d) ELSE EndIn(s, b)
       /\ Coalesce(mem, b) = [m2 EXCEPT ![SizeOf(e)] = s2[e]] /\ s2[e] \in Word
       /\ SizeOf(e) \in Cells /\ SizeOf(e) # FREE_LIST /\ SizeOf(e) \notin Links(F)
       /\ \A a \in Cells : a # FREE_LIST /\ a \notin Links(F) => m2[a] = mem[a]
  <2>1. Halves(s, F, b, p, n, e, d, s1, F1, m1, s2, F2, m2)
    BY <1>10, <1>11, <1>12, <1>13, <1>14, <1>15, <1>16, <1>17 DEF Halves
  <2>2. HalvesFit(s, F, b, p, n, e, d, s1, F1, m1, s2, F2, m2)
    BY <1>1, <1>2, <1>5, <1>6, <1>7, <1>8, <2>1, MergeInHalves
  <2> QED
    BY <2>2 DEF HalvesFit
<1>19. /\ e \in F
       /\ e # b <=> (p # NULL_OFFSET /\ EndIn(s, p) = b)
       /\ e # b => e = p /\ e < b
  BY <1>18
<1>20. /\ d \in F
       /\ d # e <=> (n # NULL_OFFSET /\ EndIn(s, b) = n)
       /\ d # e => d = n /\ b < d
  BY <1>14, <1>18
<1>21. Merged(s, F, mem, s1, F1, m1, e, b) /\ Merged(s1, F1, m1, s2, F2, m2, e, d)
  BY <1>18
<1>22. /\ F2 \subseteq F /\ e \in F2 /\ DOMAIN s2 = (DOMAIN s \ F) \cup F2
       /\ b # e => b \notin F2
       /\ \A x \in DOMAIN s2 \ {e} : s2[x] = s[x] /\ EndIn(s2, x) = EndIn(s, x)
  BY <1>18
<1>23. EndIn(s2, e) = IF d # e THEN EndIn(s, d) ELSE EndIn(s, b)
  BY <1>18
<1>24. d # e => ~ Wild(mem[NextOf(n)])
  <2> SUFFICES ASSUME d # e
               PROVE  ~ Wild(mem[NextOf(n)])
    OBVIOUS
  <2>1. n \in F
    BY <1>20
  <2>2. mem[NextOf(n)] = NULL_OFFSET \/ mem[NextOf(n)] \in F
    BY <1>1, <1>2, <2>1, FreeNeighbours
  <2> QED
    BY <1>3, <2>2 DEF Wild
<1>25. mem' = Coalesce(mem, b) /\ Continue /\ UNCHANGED held
  BY <1>5, <1>7, <1>24, <1>18 DEF InsertCoalesce
<1>26. /\ mem' \in Memory /\ mem'[SizeOf(e)] = s2[e] /\ SizeOf(e) \in Cells
       /\ \A a \in Cells : a # FREE_LIST /\ a \notin Links(F) /\ a # SizeOf(e) => mem'[a] = mem[a]
       /\ \A a \in Cells : a # SizeOf(e) => mem'[a] = m2[a]
  <2>1. m2 \in Memory /\ mem' = [m2 EXCEPT ![SizeOf(e)] = s2[e]]
    BY <1>25, <1>21, <1>18 DEF Merged
  <2> QED
    BY <1>18, <2>1 DEF Memory
<1>27. Linked(mem', FREE_LIST, F2, Place)
  <2>1. Linked(m2, FREE_LIST, F2, Place)
    BY <1>21 DEF Merged
  <2>2. F2 \subseteq DOMAIN s /\ e \in DOMAIN s
    BY <1>3, <1>22
  <2>3. SizeOf(e) \notin Links(F2) /\ Links(F2) \subseteq Links(DOMAIN s)
    BY <1>3, <2>2, LinkCells DEF Links
  <2>4. FREE_LIST # SizeOf(e) /\ FREE_LIST \in Cells /\ Links(F2) \subseteq Cells
    <3>1. SizeOf(e) \notin Heads /\ FREE_LIST \in Heads /\ FREE_LIST \in Cells
          /\ Links(DOMAIN s) \subseteq Cells
      BY <1>3, <2>2, LinkCells
    <3> QED
      BY <2>3, <3>1
  <2>5. mem'[FREE_LIST] = m2[FREE_LIST] /\ \A a \in Links(F2) : mem'[a] = m2[a]
    BY <1>26, <2>3, <2>4
  <2> QED
    BY <2>1, <2>5, LinkedFrame
<1>28. Linked(mem', USED_LIST, DOMAIN held, r)
  <2>1. F \cap DOMAIN held = {} /\ e \in DOMAIN s
    BY <1>3, <1>4, <1>19 DEF PlacesOK
  <2>2. /\ Links(F) \cap Links(DOMAIN held) = {} /\ USED_LIST \notin Links(F)
        /\ FREE_LIST \notin Links(DOMAIN held) /\ SizeOf(e) \notin Links(DOMAIN held)
        /\ SizeOf(e) \notin Heads /\ USED_LIST \in Heads /\ USED_LIST \in Cells
        /\ USED_LIST # FREE_LIST /\ Links(DOMAIN s) \subseteq Cells
    BY <1>3, <2>1, LinkCells
  <2>3. Links(DOMAIN held) \subseteq Links(DOMAIN s)
    BY <1>3 DEF Links
  <2>4. mem'[USED_LIST] = mem[USED_LIST] /\ \A a \in Links(DOMAIN held) : mem'[a] = mem[a]
    BY <1>26, <2>2, <2>3
  <2> QED
    BY <1>4, <2>4, LinkedFrame DEF ListsOK
<1>29. /\ DOMAIN s2 = F2 \cup DOMAIN held \cup Taken /\ F2 \cap DOMAIN held = {}
       /\ Taken \cap (F2 \cup DOMAIN held) = {}
  BY <1>4, <1>8, <1>22 DEF PlacesOK
<1>30. /\ \A x \in DOMAIN s2 : mem'[SizeOf(x)] = s2[x] \/ (Shrinking /\ x = block)
       /\ \A x \in DOMAIN held : held[x] <= s2[x] /\ mem'[SizeOf(x)] = mem[SizeOf(x)]
  <2>1. DOMAIN s2 \subseteq DOMAIN s /\ e \in DOMAIN s
    BY <1>3, <1>19, <1>22
  <2>2. ASSUME NEW x \in DOMAIN s2 \ {e}
        PROVE  mem'[SizeOf(x)] = mem[SizeOf(x)]
    <3>1. x \in DOMAIN s /\ x \in Nat /\ e \in Nat /\ SizeOf(x) # SizeOf(e)
      BY <1>3, <2>1
    <3>2. SizeOf(x) \in Cells /\ SizeOf(x) \notin Heads /\ SizeOf(x) \notin Links(F) /\ FREE_LIST \in Heads
      BY <1>3, <3>1, LinkCells
    <3>3. SizeOf(x) # FREE_LIST
      BY <3>2
    <3> QED
      BY <1>26, <3>1, <3>2, <3>3
  <2>3. \A x \in DOMAIN s2 \ {e} : mem[SizeOf(x)] = s2[x] \/ (Shrinking /\ x = block)
    BY <1>4, <1>22, <2>1 DEF SizesOK
  <2>4. \A x \in DOMAIN held : x \in DOMAIN s2 \ {e}
    BY <1>19, <1>22, <1>29
  <2> QED
    BY <1>4, <1>22, <1>26, <2>2, <2>3, <2>4 DEF SizesOK
<1>31. ASSUME NEW f \in F2, EndIn(s2, f) \in F2
       PROVE  FALSE
  <2>1. \A x, y \in DOMAIN s : x < y => EndIn(s, x) <= y
    BY <1>4 DEF Tiles
  <2>2. \A x \in DOMAIN s : EndIn(s, x) \in Nat /\ x < EndIn(s, x)
    BY <1>4, TilesFacts
  <2>3. \A g \in F : EndIn(s, g) \in F => b \in {g, EndIn(s, g)}
    BY <1>4, <1>5 DEF JoinedOK
  <2>4. CASE f = e /\ d # e
    <3>1. EndIn(s, d) \in F /\ d \in F /\ b < d
      BY <1>20, <1>22, <1>23, <1>31, <2>4
    <3>2. b \in {d, EndIn(s, d)}
      BY <2>3, <3>1
    <3> QED
      BY <1>3, <1>8, <2>2, <3>1, <3>2
  <2>5. CASE f = e /\ d = e
    <3>1. EndIn(s, b) \in F /\ b < EndIn(s, b)
      BY <1>3, <1>8, <1>22, <1>23, <1>31, <2>2, <2>5
    <3>2. n \in F /\ b < n /\ n <= EndIn(s, b) /\ n # NULL_OFFSET
      BY <1>3, <1>8, <1>9, <3>1
    <3>3. EndIn(s, b) <= n
      BY <1>3, <1>8, <2>1, <3>2
    <3>4. EndIn(s, b) = n
      BY <1>3, <3>1, <3>2, <3>3
    <3> QED
      BY <1>20, <2>5, <3>2, <3>4
  <2>6. CASE f # e
    <3>1. f \in F /\ EndIn(s, f) \in F2 /\ EndIn(s, f) \in F
      BY <1>22, <1>29, <1>31, <2>6
    <3>2. b \in {f, EndIn(s, f)}
      BY <2>3, <3>1
    <3>3. CASE f = b
      BY <1>22, <2>6, <3>3
    <3>4. CASE EndIn(s, f) = b
      <4>1. b = e /\ f < b
        BY <1>3, <1>22, <2>2, <3>1, <3>4
      <4>2. p \in F /\ p < b /\ f <= p /\ p # NULL_OFFSET
        BY <1>3, <1>8, <1>9, <3>1, <4>1
      <4>3. ~ (f < p)
        <5>1. f < p => b <= p
          BY <1>3, <2>1, <3>1, <3>4, <4>2
        <5> QED
          BY <1>3, <1>8, <4>2, <5>1
      <4>4. f = p
        BY <1>3, <3>1, <4>2, <4>3
      <4> QED
        BY <1>19, <3>4, <4>1, <4>2, <4>4
    <3> QED
      BY <3>2, <3>3, <3>4
  <2> QED
    BY <2>4, <2>5, <2>6
<1>32. ASSUME back # "idle"
       PROVE  /\ back = "shrink" /\ alloc_size \in Sizes
              /\ \A f \in F2 : f < block => s2[f] < alloc_size /\ EndIn(s2, f) # block
              /\ s2[block] = alloc_size /\ EndIn(s2, block) \in F2
              /\ EndIn(s2, EndIn(s2, block)) - block - BlockSize
                   >= alloc_size + BlockSize + Slack
  <2>1. back = "shrink"
    BY <1>1, <1>32 DEF TypeOK
  <2>2. /\ alloc_size \in Sizes /\ b = EndIn(s, block) /\ WasCut(s, F)
        /\ block \in DOMAIN s /\ block \notin F
        /\ \A f \in F : f < block => s[f] < alloc_size /\ EndIn(s, f) # block
    BY <1>4, <1>5, <2>1 DEF AllocOK, Allocating, PlacesOK, Taken
  <2>3. EndIn(s, b) \notin F /\ s[block] = alloc_size
        /\ EndIn(s, b) - block - BlockSize >= alloc_size + BlockSize + Slack
    BY <2>2 DEF WasCut
  <2>4. d = e
    BY <1>9, <1>20, <2>3
  <2>5. b = e
    <3>1. e # b => e \in DOMAIN s /\ EndIn(s, e) = EndIn(s, block) /\ e \in F
      BY <1>3, <1>19, <2>2
    <3>2. e # b => e = block
      BY <1>4, <2>2, <3>1, TilesFacts
    <3> QED
      BY <2>2, <3>1, <3>2
  <2>6. F2 = F /\ s2 = s
    BY <1>14, <1>15, <1>16, <1>17, <2>4, <2>5
  <2> QED
    BY <1>8, <2>1, <2>2, <2>3, <2>6
<1>33. PoolInv'
  <2>1. Tiles(s2)
    BY <1>21 DEF Merged
  <2>2. \A f \in F2 : EndIn(s2, f) \notin F2
    BY <1>31
  <2>3. pc \in {"insert", "coalesce"} /\ Continue /\ UNCHANGED held /\ mem' \in Memory
    BY <1>8, <1>25, <1>26
  <2> QED
    BY <1>1, <1>27, <1>28, <1>29, <1>30, <1>32, <2>1, <2>2, <2>3, ContinueStep
<1>34. HeldDataKept
  <2>1. \A x \in DOMAIN s : PrevOf(x) = x /\ NextOf(x) = x + 1
    BY <1>3, HeaderCells
  <2>2. \A a \in Cells \ HeaderCellsOf(s) : a # FREE_LIST /\ a \notin Links(F) /\ a # SizeOf(e)
    BY <1>3, <1>19, <2>1 DEF HeaderCellsOf, Links, Heads
  <2> QED
    BY <1>1, <1>2, <1>3, <1>4, <1>26, <2>2, HeadersOnly, HeldSizes
<1>35. HeldSizesKept
  BY <1>30 DEF HeldSizesKept
<1> QED
  BY <1>33, <1>34, <1>35

----------------------------------------------------------------------------
(* The executions.                                                         *)

\* The file that was just created is one free block.
LEMMA InitialPool == Init => PoolInv
<1> SUFFICES ASSUME Init
             PROVE  PoolInv
  OBVIOUS
<1>1. BufferEnd \in Nat /\ BufferEnd >= 5 /\ Slack \in Nat
  BY BufferAssumption DEF HeaderSize, BlockSize
<1>2. PICK n : n = BufferEnd - 5
  OBVIOUS
<1>3. n \in Nat /\ n \in Word
  BY <1>1, <1>2 DEF Word
<1>4. /\ mem = [a \in Cells |-> IF a = 0 THEN 2 ELSE IF a = 4 THEN n ELSE 0]
      /\ held = [b \in {} |-> 0] /\ pc = "idle" /\ back = "idle"
      /\ alloc_size = 0 /\ block = 0 /\ inserted = 0 /\ curr = 0
  BY <1>1, <1>2 DEF Init, FREE_LIST, HeaderSize, SizeOf, BlockSize
<1>5. /\ {0, 1, 2, 3, 4} \subseteq Cells /\ 2 \in Word /\ 0 \in Word /\ 2 \in Offsets
  BY <1>1 DEF Cells, Word, Offsets, HeaderSize, BlockSize
<1>6. /\ mem[0] = 2 /\ mem[1] = 0 /\ mem[2] = 0 /\ mem[3] = 0 /\ mem[4] = n /\ mem \in Memory
  BY <1>3, <1>4, <1>5 DEF Memory
<1>7. DOMAIN held = {}
  BY <1>4
<1>8. TypeOK
  BY <1>4, <1>6, <1>7 DEF TypeOK, Memory, Word
<1>9. PICK s : s = [x \in {2} |-> n]
  OBVIOUS
<1>10. DOMAIN s = {2} /\ s[2] = n /\ EndIn(s, 2) = BufferEnd
  BY <1>1, <1>2, <1>9 DEF EndIn, BlockSize
<1>11. Tiles(s)
  BY <1>3, <1>5, <1>10 DEF Tiles, HeaderSize
<1>12. Taken = {} /\ Loose = {}
  BY <1>4 DEF Taken, Loose, Allocating
<1>13. PlacesOK(s, {2}) /\ SizesOK(s)
  BY <1>6, <1>7, <1>10, <1>12 DEF PlacesOK, SizesOK, SizeOf
<1>14. Linked(mem, FREE_LIST, {2}, Place)
  <2>1. Place[2] = 2
    BY <1>5 DEF Place
  <2> QED
    BY <1>6, <2>1 DEF Linked, Ranks, IsFirst, Follows, Precedes, FREE_LIST, NULL_OFFSET,
                      PrevOf, NextOf
<1>15. Linked(mem, USED_LIST, DOMAIN held, Place)
  BY <1>6, <1>7 DEF Linked, Ranks, IsFirst, USED_LIST, NULL_OFFSET
<1>16. JoinedOK(s, {2})
  <2>1. BufferEnd # 2
    BY <1>1
  <2> QED
    BY <1>10, <2>1 DEF JoinedOK
<1>17. AllocOK(s, {2}) /\ InsertOK({2})
  BY <1>4 DEF AllocOK, InsertOK, Allocating
<1>18. PoolOK(s, {2}, Place)
  BY <1>11, <1>13, <1>14, <1>15, <1>16, <1>17 DEF PoolOK, ListsOK
<1> QED
  BY <1>4, <1>8, <1>18 DEF PoolInv

\* Every step keeps the invariant, and what callers hold.
LEMMA PoolStep ==
    ASSUME PoolInv, [Call \/ CleanStep]_vars
    PROVE  PoolInv' /\ HeldDataKept /\ HeldSizesKept
<1>1. ASSUME NEW n \in Sizes, AllocCall(n)
      PROVE  PoolInv' /\ HeldDataKept /\ HeldSizesKept
  BY <1>1, AllocCallStep
<1>2. ASSUME NEW b \in DOMAIN held, FreeCall(b)
      PROVE  PoolInv' /\ HeldDataKept /\ HeldSizesKept
  BY <1>2, FreeCallStep
<1>3. CASE AllocFails
  BY <1>3, AllocFailsStep
<1>4. CASE AllocSkip
  BY <1>4, AllocSkipStep
<1>5. CASE AllocTake
  BY <1>5, AllocTakeStep
<1>6. CASE AllocSplit
  BY <1>6, AllocSplitStep
<1>7. CASE AllocShrink
  BY <1>7, AllocShrinkStep
<1>8. CASE AllocPush
  BY <1>8, AllocPushStep
<1>9. ASSUME NEW w \in Words, Fill(w)
      PROVE  PoolInv' /\ HeldDataKept /\ HeldSizesKept
  BY <1>9, FillStep
<1>10. CASE CleanInsertFirst
  BY <1>10, CleanInsertFirstStep
<1>11. CASE InsertSeek
  BY <1>11, InsertSeekStep
<1>12. CASE InsertLink
  BY <1>12, InsertLinkStep
<1>13. CASE InsertCoalesce
  BY <1>13, InsertCoalesceStep
<1>14. CASE UNCHANGED vars
  <2>1. UNCHANGED <<mem, held, pc, alloc_size, block, inserted, back, curr>>
    BY <1>14 DEF vars, locals
  <2>2. TypeOK' /\ pc' # "abort"
    BY <2>1 DEF PoolInv, TypeOK
  <2>3. ASSUME NEW s, NEW F, NEW r, PoolOK(s, F, r)
        PROVE  PoolOK(s, F, r)'
    BY <2>1, <2>3 DEF PoolOK, PlacesOK, SizesOK, ListsOK, JoinedOK, AllocOK, InsertOK,
                      WasCut, IsWhole, Taken, Loose, Shrinking, Allocating
  <2> QED
    BY <2>1, <2>2, <2>3, NothingWritten DEF PoolInv
<1> QED
  BY <1>1, <1>2, <1>3, <1>4, <1>5, <1>6, <1>7, <1>8, <1>9, <1>10, <1>11, <1>12, <1>13, <1>14
  DEF Call, CleanStep, AllocStep, InsertStep

\* PoolInv is an invariant: at every moment of every operation the blocks tile the
\* file and each is in one list, in its order, or with the operation.
THEOREM PoolInvariance == CleanSpec => []PoolInv
<1>1. Init => PoolInv
  BY InitialPool
<1>2. PoolInv /\ [Call \/ CleanStep]_vars => PoolInv'
  BY PoolStep
<1> QED
  BY <1>1, <1>2, PTL DEF CleanSpec

\* The offsets, sizes and cursors of alloc() and free() stay inside the file.
THEOREM PoolTypes == CleanSpec => []TypeOK
<1>1. PoolInv => TypeOK
  BY DEF PoolInv
<1> QED
  BY <1>1, PoolInvariance, PTL

\* No assertion of insert_block_to_free_list() fails, and neither list ever leads
\* alloc() or free() out of the mapping.
THEOREM NoAbort == CleanSpec => []NeverAborts
<1>1. PoolInv => NeverAborts
  BY DEF PoolInv, NeverAborts
<1> QED
  BY <1>1, PoolInvariance, PTL

\* No step of alloc() or free() writes into the data of a block that is in use.
THEOREM DataIsKept == CleanSpec => HeldDataIsIntact
<1>1. PoolInv /\ [Call \/ CleanStep]_vars => [HeldDataKept]_vars
  BY PoolStep
<1> QED
  BY <1>1, PoolInvariance, PTL DEF CleanSpec, HeldDataIsIntact

----------------------------------------------------------------------------
(* No operation takes more steps than there are offsets to pass.           *)

\* What an operation has still to do: its parts, in the order the code runs
\* them, alloc()'s before those it shares with free() ...
Part ==
    CASE pc = "scan"     -> 7
      [] pc = "split"    -> 6
      [] pc = "insert"   -> 5
      [] pc = "coalesce" -> 4
      [] pc = "shrink"   -> 3
      [] pc = "push"     -> 2
      [] pc = "fill"     -> 1
      [] OTHER           -> 0

\* ... and, in the two loops over the free list, the file behind the cursor.
Ahead == IF curr = NULL_OFFSET THEN 0 ELSE BufferEnd - curr

Nearer == Part' < Part \/ (Part' = Part /\ Ahead' < Ahead)

LEMMA PartsAndOffsets == PoolInv => Part \in 0 .. 7 /\ Ahead \in 0 .. BufferEnd
<1>1. ASSUME PoolInv
      PROVE  curr \in {0} \cup HeaderSize .. BufferEnd - BlockSize
  BY <1>1 DEF PoolInv, TypeOK
<1>2. ASSUME PoolInv
      PROVE  Ahead \in 0 .. BufferEnd
  BY <1>1, <1>2, BufferAssumption DEF Ahead, HeaderSize, BlockSize, NULL_OFFSET
<1>3. Part \in 0 .. 7
  BY DEF Part
<1> QED
  BY <1>2, <1>3

\* A loop goes on at the next free block, which is behind this one in the file.
LEMMA CursorMovesOn ==
    ASSUME PoolInv, pc' = pc, curr # NULL_OFFSET, curr' = mem[NextOf(curr)],
           pc \in {"scan", "insert"}
    PROVE  Nearer
<1>1. TypeOK
  BY DEF PoolInv
<1>2. PICK s, F, r : PoolOK(s, F, r)
  BY DEF PoolInv
<1>3. curr \in F
  BY <1>2 DEF PoolOK, AllocOK, InsertOK
<1>4. curr \in HeaderSize .. BufferEnd - BlockSize
  BY <1>1 DEF TypeOK, NULL_OFFSET
<1>5. curr' # NULL_OFFSET => curr' \in F /\ curr < curr'
  BY <1>1, <1>2, <1>3, FreeNeighbours
<1>6. F \subseteq DOMAIN s /\ \A b \in DOMAIN s : b \in Nat /\ b + 3 <= BufferEnd
  BY <1>1, <1>2, PoolFacts
<1>7. Ahead' < Ahead
  BY <1>4, <1>5, <1>6, BufferAssumption DEF Ahead, HeaderSize, BlockSize, NULL_OFFSET
<1>8. Part' = Part
  BY DEF Part
<1> QED
  BY <1>7, <1>8 DEF Nearer

\* Each step but a loop's ends its part and goes on with a later one.
LEMMA PartEnds ==
    ASSUME PoolInv, CleanStep, ~ AllocSkip, ~ InsertSeek
    PROVE  Part' < Part
<1>1. pc' # "abort"
  BY PoolStep DEF PoolInv
<1>2. CASE AllocFails
  BY <1>2 DEF AllocFails, Finish, Part
<1>3. CASE AllocTake
  BY <1>1, <1>3 DEF AllocTake, Abort, Part
<1>4. CASE AllocSplit
  BY <1>4 DEF AllocSplit, Part
<1>5. CASE AllocShrink
  BY <1>5 DEF AllocShrink, Part
<1>6. CASE AllocPush
  BY <1>6 DEF AllocPush, Part
<1>7. ASSUME NEW w \in Words, Fill(w)
      PROVE  Part' < Part
  BY <1>7 DEF Fill, Finish, Part
<1>8. back \in {"idle", "shrink"}
  BY DEF PoolInv, TypeOK
<1>9. CASE CleanInsertFirst
  BY <1>8, <1>9 DEF CleanInsertFirst, InsertFirst, Continue, Finish, Part
<1>10. CASE InsertLink
  BY <1>1, <1>10 DEF InsertLink, Abort, Part
<1>11. CASE InsertCoalesce
  BY <1>1, <1>8, <1>11 DEF InsertCoalesce, Abort, Continue, Finish, Part
<1> QED
  BY <1>2, <1>3, <1>4, <1>5, <1>6, <1>7, <1>9, <1>10, <1>11
  DEF CleanStep, AllocStep, InsertStep

LEMMA StepsAreNearer == PoolInv /\ CleanStep => Nearer
<1>1. ASSUME PoolInv, AllocSkip
      PROVE  Nearer
  <2>1. pc' # "abort"
    BY <1>1, AllocSkipStep DEF PoolInv
  <2> QED
    BY <1>1, <2>1, CursorMovesOn DEF AllocSkip, Abort
<1>2. ASSUME PoolInv, InsertSeek
      PROVE  Nearer
  <2>1. pc' # "abort"
    BY <1>2, InsertSeekStep DEF PoolInv
  <2> QED
    BY <1>2, <2>1, CursorMovesOn DEF InsertSeek, Abort
<1>3. ASSUME PoolInv, CleanStep, ~ AllocSkip, ~ InsertSeek
      PROVE  Nearer
  BY <1>3, PartEnds DEF Nearer
<1> QED
  BY <1>1, <1>2, <1>3

\* alloc() and free() cannot go on for ever: each of their steps begins a later one
\* of seven parts or brings a loop's cursor nearer the end of the file.
THEOREM OperationsAreBounded ==
    CleanSpec => /\ [](Part \in 0 .. 7 /\ Ahead \in 0 .. BufferEnd)
                 /\ [][CleanStep => Nearer]_vars
<1>1. PoolInv /\ [Call \/ CleanStep]_vars => [CleanStep => Nearer]_vars
  BY StepsAreNearer
<1> QED
  BY <1>1, PartsAndOffsets, PoolInvariance, PTL DEF CleanSpec

----------------------------------------------------------------------------
(* The gaps of the abstract allocator.                                     *)

\* If no two of the blocks that are not held are neighbours, each is a gap.
LEMMA GapsAre ==
    ASSUME NEW s, Tiles(s), NEW G, DOMAIN s = G \cup DOMAIN held, G \cap DOMAIN held = {},
           \A b \in DOMAIN held : mem[SizeOf(b)] = s[b],
           \A g \in G : EndIn(s, g) \notin G
    PROVE  Pool!Gaps = {<<g, EndIn(s, g)>> : g \in G}
<1>1. PICK H : H = DOMAIN held
  OBVIOUS
<1>2. /\ \A b \in DOMAIN s : /\ b \in Nat /\ EndIn(s, b) \in Nat /\ b < EndIn(s, b)
                             /\ EndIn(s, b) \in DOMAIN s \cup {BufferEnd}
      /\ \A b, c \in DOMAIN s : b < c => EndIn(s, b) <= c
      /\ \A c \in DOMAIN s : c = HeaderSize \/ \E b \in DOMAIN s : EndIn(s, b) = c
      /\ \A b \in DOMAIN s : EndIn(s, b) <= BufferEnd
      /\ HeaderSize \in DOMAIN s /\ BufferEnd \notin DOMAIN s /\ BufferEnd \in Nat
  BY TilesFacts, BufferAssumption DEF Tiles
<1>3. DOMAIN s = G \cup H /\ G \cap H = {}
  BY <1>1
<1>4. \A b \in H : Pool!End(b) = EndIn(s, b)
  BY <1>1 DEF Pool!End, EndIn
<1>5. ({HeaderSize} \cup {EndIn(s, b) : b \in H}) \ (H \cup {BufferEnd}) = G
  <2>1. ASSUME NEW g \in G
        PROVE  g \in ({HeaderSize} \cup {EndIn(s, b) : b \in H}) \ (H \cup {BufferEnd})
    <3>1. g \notin H /\ g # BufferEnd
      BY <1>2, <1>3
    <3>2. g = HeaderSize \/ \E b \in H : EndIn(s, b) = g
      BY <1>2, <1>3
    <3> QED
      BY <3>1, <3>2
  <2>2. ({HeaderSize} \cup {EndIn(s, b) : b \in H}) \ (H \cup {BufferEnd}) \subseteq G
    BY <1>2, <1>3
  <2> QED
    BY <2>1, <2>2
<1> DEFINE after(lo) == {b \in H \cup {BufferEnd} : b > lo}
           nearest(lo) == CHOOSE hi \in after(lo) : \A b \in after(lo) : hi <= b
<1>6. ASSUME NEW g \in G
      PROVE  nearest(g) = EndIn(s, g)
  <2>1. PICK e : e = EndIn(s, g)
    OBVIOUS
  <2>2. e \in after(g)
    BY <1>2, <1>3, <2>1
  <2>3. \A b \in after(g) : e <= b /\ b \in Nat
    BY <1>2, <1>3, <2>1
  <2>4. e \in Nat
    BY <1>2, <1>3, <2>1
  <2> HIDE DEF after
  <2>5. nearest(g) \in after(g) /\ \A b \in after(g) : nearest(g) <= b
    BY <2>2, <2>3
  <2>6. nearest(g) <= e /\ e <= nearest(g) /\ nearest(g) \in Nat
    BY <2>2, <2>3, <2>5
  <2> QED
    BY <2>1, <2>4, <2>6
<1>7. Pool!Gaps = {<<lo, nearest(lo)>> : lo \in G}
  <2>1. {EndIn(s, b) : b \in H} = {Pool!End(b) : b \in H}
    BY <1>4
  <2>2. DOMAIN [b \in DOMAIN held |-> mem[SizeOf(b)]] = H
    BY <1>1
  <2> QED
    BY <1>5, <2>1, <2>2 DEF Pool!Gaps
<1> HIDE DEF nearest
<1> QED
  BY <1>6, <1>7

\* While no block is with an operation, the free blocks are the gaps, each as large as
\* its header says.
LEMMA FreeBlocksAreGaps ==
    ASSUME TypeOK, NEW s, NEW F, NEW r, PoolOK(s, F, r), pc \in {"idle", "scan"}
    PROVE  /\ Pool!Gaps = {<<f, EndIn(s, f)>> : f \in F}
           /\ \A f \in F : Pool!Room(<<f, EndIn(s, f)>>) = s[f]
           /\ \A b \in DOMAIN held : mem[SizeOf(b)] = s[b]
<1>1. Tiles(s) /\ PlacesOK(s, F) /\ SizesOK(s) /\ JoinedOK(s, F) /\ AllocOK(s, F)
  BY DEF PoolOK
<1>2. back = "idle"
  BY <1>1 DEF AllocOK
<1>3. Taken = {} /\ Loose = {} /\ ~ Shrinking
  BY <1>2 DEF Taken, Loose, Allocating, Shrinking
<1>4. DOMAIN s = F \cup DOMAIN held /\ F \cap DOMAIN held = {}
  BY <1>1, <1>3 DEF PlacesOK
<1>5. \A b \in DOMAIN held : mem[SizeOf(b)] = s[b]
  BY <1>1, <1>3, <1>4 DEF SizesOK
<1>6. \A f \in F : EndIn(s, f) \notin F
  BY <1>1 DEF JoinedOK
<1>7. Pool!Gaps = {<<f, EndIn(s, f)>> : f \in F}
  BY <1>1, <1>4, <1>5, <1>6, GapsAre
<1>8. ASSUME NEW f \in F
      PROVE  Pool!Room(<<f, EndIn(s, f)>>) = s[f]
  <2>1. EndIn(s, f) = f + 3 + s[f] /\ f \in Nat /\ s[f] \in Nat
    BY <1>1, <1>4, TilesFacts
  <2> QED
    BY <2>1 DEF Pool!Room, BlockSize
<1> QED
  BY <1>5, <1>7, <1>8

\* Between operations the free list is the gaps, in the order of the file.
LEMMA IdleFreeList == PoolInv => FreeListIsTheGaps
<1> SUFFICES ASSUME PoolInv, pc = "idle"
             PROVE  /\ mem[FREE_LIST] = NULL_OFFSET <=> GapStarts = {}
                    /\ \A gap \in Pool!Gaps :
                         LET f      == gap[1]
                             before == {g \in GapStarts : g < f}
                             behind == {g \in GapStarts : g > f}
                         IN  /\ mem[SizeOf(f)] = Pool!Room(gap)
                             /\ IF before = {} THEN mem[FREE_LIST] = f /\ mem[PrevOf(f)] = NULL_OFFSET
                                ELSE mem[PrevOf(f)] \in before /\ \A g \in before : g <= mem[PrevOf(f)]
                             /\ IF behind = {} THEN mem[NextOf(f)] = NULL_OFFSET
                                ELSE mem[NextOf(f)] \in behind /\ \A g \in behind : g >= mem[NextOf(f)]
  BY DEF FreeListIsTheGaps
<1>1. TypeOK
  BY DEF PoolInv
<1>2. PICK s, F, r : PoolOK(s, F, r)
  BY DEF PoolInv
<1>3. /\ Pool!Gaps = {<<f, EndIn(s, f)>> : f \in F}
      /\ \A f \in F : Pool!Room(<<f, EndIn(s, f)>>) = s[f]
  BY <1>1, <1>2, FreeBlocksAreGaps
<1>4. /\ \A x \in F : x \in Nat /\ x # NULL_OFFSET /\ mem[SizeOf(x)] = s[x]
      /\ IsFirst(F, Place, mem[FREE_LIST]) /\ \A x \in F : Place[x] = x
  BY <1>1, <1>2, PoolFacts
<1>5. GapStarts = F
  <2>1. PICK Gs : Gs = Pool!Gaps
    OBVIOUS
  <2>2. GapStarts = {gap[1] : gap \in Gs} /\ Gs = {<<f, EndIn(s, f)>> : f \in F}
    BY <1>3, <2>1 DEF GapStarts
  <2>3. ASSUME NEW f \in F
        PROVE  f \in GapStarts
    <3>1. <<f, EndIn(s, f)>> \in Gs /\ <<f, EndIn(s, f)>>[1] = f
      BY <2>2
    <3> QED
      BY <2>2, <3>1
  <2>4. GapStarts \subseteq F
    BY <2>2
  <2> QED
    BY <2>3, <2>4
<1>6. mem[FREE_LIST] = NULL_OFFSET <=> GapStarts = {}
  BY <1>4, <1>5 DEF IsFirst
<1>7. ASSUME NEW f \in F
      PROVE  /\ IF {g \in F : g < f} = {} THEN mem[FREE_LIST] = f /\ mem[PrevOf(f)] = NULL_OFFSET
                ELSE /\ mem[PrevOf(f)] \in {g \in F : g < f}
                     /\ \A g \in {x \in F : x < f} : g <= mem[PrevOf(f)]
             /\ IF {g \in F : g > f} = {} THEN mem[NextOf(f)] = NULL_OFFSET
                ELSE /\ mem[NextOf(f)] \in {g \in F : g > f}
                     /\ \A g \in {x \in F : x > f} : g >= mem[NextOf(f)]
  <2>1. PICK p : p = mem[PrevOf(f)]
    OBVIOUS
  <2>2. PICK n : n = mem[NextOf(f)]
    OBVIOUS
  <2>3. /\ n # NULL_OFFSET => n \in F /\ f < n /\ \A g \in F : g <= f \/ n <= g
        /\ n = NULL_OFFSET => \A g \in F : g <= f
        /\ p # NULL_OFFSET => p \in F /\ p < f /\ \A g \in F : f <= g \/ g <= p
        /\ p = NULL_OFFSET => \A g \in F : f <= g
    BY <1>1, <1>2, <2>1, <2>2, FreeNeighbours
  <2>4. p = NULL_OFFSET => mem[FREE_LIST] = f
    <3> SUFFICES ASSUME p = NULL_OFFSET
                 PROVE  mem[FREE_LIST] = f
      OBVIOUS
    <3>1. mem[FREE_LIST] \in F /\ mem[FREE_LIST] <= f
      BY <1>4 DEF IsFirst
    <3> QED
      BY <1>4, <2>3, <3>1
  <2>5. IF {g \in F : g < f} = {} THEN mem[FREE_LIST] = f /\ p = NULL_OFFSET
        ELSE p \in {g \in F : g < f} /\ \A g \in {x \in F : x < f} : g <= p
    BY <1>4, <2>3, <2>4
  <2>6. IF {g \in F : g > f} = {} THEN n = NULL_OFFSET
        ELSE n \in {g \in F : g > f} /\ \A g \in {x \in F : x > f} : g >= n
    BY <1>4, <2>3
  <2> QED
    BY <2>1, <2>2, <2>5, <2>6
<1>8. \A gap \in Pool!Gaps : \E f \in F : gap = <<f, EndIn(s, f)>>
  BY <1>3
<1>9. ASSUME NEW gap \in Pool!Gaps
      PROVE  LET f      == gap[1]
                 before == {g \in GapStarts : g < f}
                 behind == {g \in GapStarts : g > f}
             IN  /\ mem[SizeOf(f)] = Pool!Room(gap)
                 /\ IF before = {} THEN mem[FREE_LIST] = f /\ mem[PrevOf(f)] = NULL_OFFSET
                    ELSE mem[PrevOf(f)] \in before /\ \A g \in before : g <= mem[PrevOf(f)]
                 /\ IF behind = {} THEN mem[NextOf(f)] = NULL_OFFSET
                    ELSE mem[NextOf(f)] \in behind /\ \A g \in behind : g >= mem[NextOf(f)]
  <2>1. PICK f \in F : gap = <<f, EndIn(s, f)>>
    BY <1>8
  <2>2. gap[1] = f /\ mem[SizeOf(f)] = Pool!Room(gap)
    BY <1>3, <1>4, <2>1
  <2> QED
    BY <1>5, <1>7, <2>2
<1> QED
  BY <1>6, <1>9

\* Between operations the free list is exactly the gaps between the blocks in use: no
\* space is lost, listed twice or left unmerged, however the file was used before.
THEOREM FreeListIsComplete == CleanSpec => []FreeListIsTheGaps
  BY PoolInvariance, IdleFreeList, PTL

\* Between operations the used list, which a restart reads, links exactly the blocks
\* in use, in both directions.
THEOREM UsedListIsComplete == CleanSpec => []UsedListIsHeld
<1>1. PoolInv => UsedListIsHeld
  <2> SUFFICES ASSUME PoolInv, pc = "idle"
               PROVE  /\ mem[USED_LIST] = NULL_OFFSET <=> DOMAIN held = {}
                      /\ \A b \in DOMAIN held :
                           /\ IF mem[PrevOf(b)] = NULL_OFFSET THEN mem[USED_LIST] = b
                              ELSE mem[PrevOf(b)] \in DOMAIN held /\ mem[NextOf(mem[PrevOf(b)])] = b
                           /\ \/ mem[NextOf(b)] = NULL_OFFSET
                              \/ mem[NextOf(b)] \in DOMAIN held /\ mem[PrevOf(mem[NextOf(b)])] = b
    BY DEF UsedListIsHeld
  <2>1. TypeOK
    BY DEF PoolInv
  <2>2. PICK s, F, r : PoolOK(s, F, r)
    BY DEF PoolInv
  <2>3. Linked(mem, USED_LIST, DOMAIN held, r)
    BY <2>2 DEF PoolOK, ListsOK
  <2>4. NULL_OFFSET \notin DOMAIN held
    BY <2>1, <2>2, PoolFacts
  <2>5. mem[USED_LIST] = NULL_OFFSET <=> DOMAIN held = {}
    BY <2>3, <2>4 DEF Linked, IsFirst
  <2>6. ASSUME NEW b \in DOMAIN held
        PROVE  /\ IF mem[PrevOf(b)] = NULL_OFFSET THEN mem[USED_LIST] = b
                  ELSE mem[PrevOf(b)] \in DOMAIN held /\ mem[NextOf(mem[PrevOf(b)])] = b
               /\ \/ mem[NextOf(b)] = NULL_OFFSET
                  \/ mem[NextOf(b)] \in DOMAIN held /\ mem[PrevOf(mem[NextOf(b)])] = b
    BY <2>3, <2>4, Neighbours
  <2> QED
    BY <2>5, <2>6
<1> QED
  BY <1>1, PoolInvariance, PTL

\* When alloc() gives up, every gap is too small.
LEMMA NothingFits ==
    ASSUME PoolInv, AllocFails
    PROVE  Pool!Fitting(alloc_size) = {}
<1>1. TypeOK
  BY DEF PoolInv
<1>2. PICK s, F, r : PoolOK(s, F, r)
  BY DEF PoolInv
<1>3. /\ Pool!Gaps = {<<f, EndIn(s, f)>> : f \in F}
      /\ \A f \in F : Pool!Room(<<f, EndIn(s, f)>>) = s[f]
  BY <1>1, <1>2, FreeBlocksAreGaps DEF AllocFails
<1>4. \A f \in F : s[f] < alloc_size
  BY <1>2 DEF AllocFails, PoolOK, AllocOK
<1>5. alloc_size \in Nat /\ \A f \in F : s[f] \in Nat
  BY <1>1, <1>2, BufferAssumption DEF TypeOK, PoolOK, PlacesOK, Tiles
<1>6. \A gap \in Pool!Gaps : ~ (Pool!Room(gap) >= alloc_size)
  BY <1>3, <1>4, <1>5
<1> QED
  BY <1>6 DEF Pool!Fitting

\* alloc() returns nullptr only if no gap is large enough.
THEOREM FailureMeansFull == CleanSpec => FailsOnlyWhenFull
<1>1. PoolInv /\ [Call \/ CleanStep]_vars => [AllocFails => Pool!Fitting(alloc_size) = {}]_vars
  BY NothingFits
<1> QED
  BY <1>1, PoolInvariance, PTL DEF CleanSpec, FailsOnlyWhenFull

----------------------------------------------------------------------------
(* alloc() and free() implement FirstFit.                                  *)

Capacity == [b \in DOMAIN held |-> mem[SizeOf(b)]]

\* The block that alloc() hands out is the low end of the lowest gap that fits: while
\* it is taken, it and what was cut from it are that gap.
LEMMA TakenGap ==
    ASSUME PoolInv, pc = "push"
    PROVE  \E t, G :
             /\ Tiles(t) /\ DOMAIN t = G \cup DOMAIN held /\ G \cap DOMAIN held = {}
             /\ \A b \in DOMAIN held : mem[SizeOf(b)] = t[b]
             /\ \A g \in G : EndIn(t, g) \notin G
             /\ block \in G /\ \A g \in G : g < block => t[g] < alloc_size
             /\ alloc_size \in Sizes /\ t[block] >= alloc_size
             /\ mem[SizeOf(block)] = IF t[block] >= alloc_size + BlockSize + Slack
                                     THEN alloc_size ELSE t[block]
<1>1. TypeOK
  BY DEF PoolInv
<1>2. PICK s, F, r : PoolOK(s, F, r)
  BY DEF PoolInv
<1>3. /\ Tiles(s) /\ PlacesOK(s, F) /\ SizesOK(s) /\ JoinedOK(s, F) /\ AllocOK(s, F)
  BY <1>2 DEF PoolOK
<1>4. PICK b : b = block
  OBVIOUS
<1>5. PICK n : n = alloc_size
  OBVIOUS
<1>6. /\ back = "idle" /\ n \in Sizes /\ n \in Nat /\ Slack \in Nat
      /\ WasCut(s, F) \/ IsWhole(s, F)
      /\ \A f \in F : f < b => s[f] < n /\ EndIn(s, f) # b
  BY <1>3, <1>4, <1>5, BufferAssumption DEF AllocOK, Allocating
<1>7. /\ Taken = {b} /\ Loose = {} /\ ~ Shrinking
      /\ b \in DOMAIN s /\ b \notin F /\ b \notin DOMAIN held
      /\ DOMAIN s = F \cup {b} \cup DOMAIN held /\ F \cap DOMAIN held = {}
  BY <1>3, <1>4, <1>6 DEF PlacesOK, Taken, Loose, Allocating, Shrinking
<1>8. /\ \A x \in DOMAIN s : /\ x \in Nat /\ s[x] \in Nat /\ EndIn(s, x) = x + 3 + s[x]
                             /\ EndIn(s, x) \in Nat /\ x < EndIn(s, x)
      /\ \A x \in DOMAIN s : mem[SizeOf(x)] = s[x]
      /\ \A f \in F : EndIn(s, f) \notin F
  BY <1>3, <1>7, TilesFacts DEF SizesOK, JoinedOK
<1>9. \A f \in F : EndIn(s, f) # b
  BY <1>6, <1>7, <1>8
<1>10. CASE WasCut(s, F)
  <2>1. PICK c : c = EndIn(s, b)
    OBVIOUS
  <2>2. /\ s[b] = n /\ c \in F /\ EndIn(s, c) \notin F
        /\ EndIn(s, c) - b - 3 >= n + BlockSize + Slack
    BY <1>4, <1>5, <1>7, <1>10, <2>1 DEF WasCut, BlockSize
  <2>3. PICK t : t = Join(s, b, c)
    OBVIOUS
  <2>4. PICK G : G = (F \ {c}) \cup {b}
    OBVIOUS
  <2>5. /\ Tiles(t) /\ DOMAIN t = DOMAIN s \ {c}
        /\ EndIn(t, b) = EndIn(s, c) /\ b < c
        /\ t[b] = s[b] + BlockSize + s[c]
        /\ \A x \in DOMAIN s \ {b, c} : t[x] = s[x] /\ EndIn(t, x) = EndIn(s, x)
    <3>1. c \in DOMAIN s
      BY <1>7, <2>2
    <3> QED
      BY <1>3, <1>7, <2>1, <2>3, <3>1, JoinTiles
  <2>6. DOMAIN t = G \cup DOMAIN held /\ G \cap DOMAIN held = {} /\ b \in G
    BY <1>7, <2>2, <2>4, <2>5
  <2>7. \A x \in DOMAIN held : mem[SizeOf(x)] = t[x]
    BY <1>7, <1>8, <2>2, <2>5
  <2>8. ASSUME NEW g \in G
        PROVE  EndIn(t, g) \notin G /\ (g < b => t[g] < n)
    <3>1. CASE g = b
      <4>1. EndIn(t, g) = EndIn(s, c) /\ b < EndIn(s, c) /\ b \in Nat /\ EndIn(s, c) \in Nat
        BY <1>7, <1>8, <2>2, <2>5, <3>1
      <4> QED
        BY <2>2, <2>4, <3>1, <4>1
    <3>2. CASE g # b
      <4>1. g \in F /\ EndIn(t, g) = EndIn(s, g) /\ t[g] = s[g]
        BY <1>7, <2>4, <2>5, <3>2
      <4> QED
        BY <1>6, <1>8, <1>9, <2>4, <4>1
    <3> QED
      BY <3>1, <3>2
  <2>9. t[b] >= n /\ t[b] >= n + BlockSize + Slack /\ mem[SizeOf(b)] = n
    <3>1. /\ EndIn(s, c) = c + 3 + s[c] /\ c = b + 3 + s[b]
          /\ s[c] \in Nat /\ s[b] \in Nat /\ b \in Nat
      BY <1>7, <1>8, <2>1, <2>2
    <3> QED
      BY <1>6, <1>7, <1>8, <2>2, <2>5, <3>1 DEF BlockSize
  <2>10. /\ \A g \in G : EndIn(t, g) \notin G
         /\ block \in G /\ \A g \in G : g < block => t[g] < alloc_size
         /\ alloc_size \in Sizes /\ t[block] >= alloc_size
    BY <1>4, <1>5, <1>6, <2>6, <2>8, <2>9
  <2>11. mem[SizeOf(block)] = IF t[block] >= alloc_size + BlockSize + Slack
                              THEN alloc_size ELSE t[block]
    BY <1>4, <1>5, <2>9
  <2>12. Tiles(t)
    BY <2>5
  <2> QED
    BY <2>6, <2>7, <2>10, <2>11, <2>12
<1>11. CASE IsWhole(s, F)
  <2>1. EndIn(s, b) \notin F /\ n <= s[b] /\ s[b] < n + BlockSize + Slack
    BY <1>4, <1>5, <1>11 DEF IsWhole
  <2>2. PICK G : G = F \cup {b}
    OBVIOUS
  <2>3. DOMAIN s = G \cup DOMAIN held /\ G \cap DOMAIN held = {} /\ b \in G
    BY <1>7, <2>2
  <2>4. ASSUME NEW g \in G
        PROVE  EndIn(s, g) \notin G /\ (g < b => s[g] < n)
    <3>1. CASE g = b
      <4>1. b < EndIn(s, b) /\ b \in Nat /\ EndIn(s, b) \in Nat
        BY <1>7, <1>8
      <4> QED
        BY <2>1, <2>2, <3>1, <4>1
    <3>2. CASE g # b
      BY <1>6, <1>8, <1>9, <2>2, <3>2
    <3> QED
      BY <3>1, <3>2
  <2>5. s[b] >= n /\ ~ (s[b] >= n + BlockSize + Slack) /\ mem[SizeOf(b)] = s[b]
    BY <1>6, <1>7, <1>8, <2>1 DEF BlockSize
  <2>6. \A x \in DOMAIN held : mem[SizeOf(x)] = s[x]
    BY <1>7, <1>8
  <2> QED
    BY <1>3, <1>4, <1>5, <1>6, <2>3, <2>4, <2>5, <2>6
<1> QED
  BY <1>6, <1>10, <1>11

\* insert_block_to_used_list() is where alloc() takes effect.
LEMMA PushIsAlloc ==
    ASSUME PoolInv, AllocPush
    PROVE  Pool!Alloc(alloc_size) /\ alloc_size \in Sizes
<1>1. PICK b : b = block
  OBVIOUS
<1>2. PICK n : n = alloc_size
  OBVIOUS
<1>3. PICK t, G :
        /\ Tiles(t) /\ DOMAIN t = G \cup DOMAIN held /\ G \cap DOMAIN held = {}
        /\ \A x \in DOMAIN held : mem[SizeOf(x)] = t[x]
        /\ \A g \in G : EndIn(t, g) \notin G
        /\ b \in G /\ \A g \in G : g < b => t[g] < n
        /\ n \in Sizes /\ t[b] >= n
        /\ mem[SizeOf(b)] = IF t[b] >= n + BlockSize + Slack THEN n ELSE t[b]
  BY <1>1, <1>2, TakenGap DEF AllocPush
<1>4. Pool!Gaps = {<<g, EndIn(t, g)>> : g \in G}
  BY <1>3, GapsAre
<1>5. \A g \in G : g \in Nat /\ t[g] \in Nat /\ Pool!Room(<<g, EndIn(t, g)>>) = t[g]
  <2>1. \A g \in G : g \in Nat /\ t[g] \in Nat /\ EndIn(t, g) = g + 3 + t[g]
    BY <1>3, TilesFacts
  <2> QED
    BY <2>1 DEF Pool!Room, BlockSize
<1>6. n \in Nat
  BY <1>3, BufferAssumption
<1>7. PICK gap : gap = <<b, EndIn(t, b)>>
  OBVIOUS
<1>8. gap[1] = b /\ Pool!Room(gap) = t[b] /\ gap \in Pool!Gaps
  BY <1>3, <1>4, <1>5, <1>7
<1>9. gap \in Pool!Fitting(n)
  BY <1>3, <1>8 DEF Pool!Fitting
<1>10. ASSUME NEW other \in Pool!Fitting(n)
       PROVE  gap[1] <= other[1]
  <2>1. other \in Pool!Gaps /\ Pool!Room(other) >= n
    BY DEF Pool!Fitting
  <2>2. PICK g \in G : other = <<g, EndIn(t, g)>>
    BY <1>4, <2>1
  <2>3. other[1] = g /\ t[g] >= n
    BY <1>5, <2>1, <2>2
  <2>4. g < b => t[g] < n
    BY <1>3
  <2>5. g \in Nat /\ b \in Nat /\ t[g] \in Nat
    BY <1>3, <1>5
  <2>6. ~ (g < b)
    BY <1>6, <2>3, <2>4, <2>5
  <2>7. b <= g
    BY <2>5, <2>6
  <2> QED
    BY <1>8, <2>3, <2>7
<1>11. Capacity' = [x \in DOMAIN Capacity \cup {b} |->
                      IF x = b THEN IF t[b] >= n + BlockSize + Slack THEN n ELSE t[b]
                      ELSE Capacity[x]]
  <2>1. PICK H : H = DOMAIN held
    OBVIOUS
  <2>2. DOMAIN held' = H \cup {b}
    BY <1>1, <2>1 DEF AllocPush
  <2>3. mem'[SizeOf(b)] = mem[SizeOf(b)] /\ \A x \in H : mem'[SizeOf(x)] = mem[SizeOf(x)]
    BY <1>1, <2>1, AllocPushStep DEF HeldSizesKept
  <2>4. Capacity' = [x \in H \cup {b} |-> mem'[SizeOf(x)]]
    BY <2>2 DEF Capacity
  <2>5. DOMAIN Capacity = H /\ \A x \in H : Capacity[x] = mem[SizeOf(x)]
    BY <2>1 DEF Capacity
  <2>6. b \notin H
    BY <1>3, <2>1
  <2> QED
    BY <1>3, <2>3, <2>4, <2>5, <2>6
<1>12. Pool!Alloc(n)
  <2>1. \E g \in Pool!Fitting(n) :
          /\ \A other \in Pool!Fitting(n) : g[1] <= other[1]
          /\ Capacity' = [x \in DOMAIN Capacity \cup {g[1]} |->
                            IF x = g[1] THEN IF Pool!Room(g) >= n + BlockSize + Slack
                                             THEN n ELSE Pool!Room(g)
                            ELSE Capacity[x]]
    BY <1>8, <1>9, <1>10, <1>11
  <2> QED
    BY <2>1 DEF Pool!Alloc, Capacity
<1> QED
  BY <1>2, <1>3, <1>12

\* Every other step but the call of free() leaves the blocks in use as they are.
LEMMA NextIsFirstFit ==
    ASSUME PoolInv, [Call \/ CleanStep]_vars
    PROVE  Pool!Next \/ UNCHANGED Capacity
<1>1. HeldSizesKept
  BY PoolStep
<1>2. CASE AllocPush
  BY <1>2, PushIsAlloc DEF Pool!Next
<1>3. ASSUME NEW b \in DOMAIN held, FreeCall(b)
      PROVE  Pool!Next
  <2>1. PICK H : H = DOMAIN held
    OBVIOUS
  <2>2. DOMAIN held' = H \ {b}
    BY <1>3, <2>1 DEF FreeCall
  <2>3. Capacity' = [x \in H \ {b} |-> mem'[SizeOf(x)]]
    BY <2>2 DEF Capacity
  <2>4. DOMAIN Capacity = H /\ \A x \in H : Capacity[x] = mem[SizeOf(x)]
    BY <2>1 DEF Capacity
  <2>5. Capacity' = [x \in DOMAIN Capacity \ {b} |-> Capacity[x]]
    BY <1>1, <2>1, <2>3, <2>4 DEF HeldSizesKept
  <2>6. Pool!Free(b) /\ b \in DOMAIN Capacity
    BY <2>1, <2>4, <2>5 DEF Pool!Free, Capacity
  <2> QED
    BY <2>6 DEF Pool!Next, Capacity
<1>4. CASE UNCHANGED held
  <2>1. PICK H : H = DOMAIN held
    OBVIOUS
  <2>2. Capacity' = [x \in H |-> mem'[SizeOf(x)]] /\ Capacity = [x \in H |-> mem[SizeOf(x)]]
    BY <1>4, <2>1 DEF Capacity
  <2> QED
    BY <1>1, <2>1, <2>2 DEF HeldSizesKept
<1> QED
  BY <1>2, <1>3, <1>4
  DEF Call, CleanStep, AllocStep, InsertStep, AllocCall, AllocFails, AllocSkip, AllocTake,
      AllocSplit, AllocShrink, Fill, CleanInsertFirst, InsertFirst, InsertSeek, InsertLink,
      InsertCoalesce, Abort, vars

\* alloc() and free() implement a first-fit allocator over the gaps between the blocks
\* in use, whatever the lists went through: alloc() serves a request from the low end
\* of the lowest gap that fits, and takes all of it if too little would be left.
THEOREM IsFirstFitAllocator == CleanSpec => IsFirstFit
<1>1. Init => Pool!Init
  <2> SUFFICES ASSUME Init
               PROVE  Pool!Init
    OBVIOUS
  <2>1. DOMAIN held = {}
    BY DEF Init
  <2> QED
    BY <2>1 DEF Pool!Init
<1>2. PoolInv /\ [Call \/ CleanStep]_vars => [Pool!Next]_Capacity
  BY NextIsFirstFit
<1> QED
  BY <1>1, <1>2, PoolInvariance, PTL DEF CleanSpec, IsFirstFit, Pool!Spec, Capacity
=============================================================================
