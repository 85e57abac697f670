------------------------ MODULE BufferIterationProofs ------------------------
(***************************************************************************)
(* Proofs about the walks over the allocator's lists and what              *)
(* print_stats() adds up, in every state between the operations of         *)
(* CleanSpec.                                                              *)
(*                                                                         *)
(* A walk is a recursive function of its length.  Its value is found by    *)
(* looking at the shortest walk that would differ (Smallest): a block's    *)
(* position in its list is the number of blocks before it, and the walk of *)
(* n steps meets exactly the blocks at positions up to n, and the end once *)
(* it has passed the last.                                                 *)
(***************************************************************************)
EXTENDS BufferIteration, FileBackedBufferProofs, FiniteSetTheorems,
        FunctionTheorems, WellFoundedInduction

\* A set of natural numbers has a smallest member.
LEMMA Smallest ==
    ASSUME NEW N, N \subseteq Nat, N # {}
    PROVE  \E n \in N : \A x \in N : n <= x
<1>1. PICK R : R = {ss \in Nat \X Nat : ss[1] < ss[2]}
  OBVIOUS
<1>2. IsWellFoundedOn(R, Nat)
  BY <1>1, NatLessThanWellFounded DEF OpToRel
<1>3. PICK n \in N : \A x \in N : ~ (<<x, n>> \in R)
  BY <1>2, WFMin
<1>4. \A x \in N : ~ (x < n)
  <2> SUFFICES ASSUME NEW x \in N, x < n
               PROVE  FALSE
    OBVIOUS
  <2>1. <<x, n>> \in Nat \X Nat /\ <<x, n>>[1] = x /\ <<x, n>>[2] = n
    OBVIOUS
  <2>2. <<x, n>> \in R
    BY <1>1, <2>1
  <2> QED
    BY <1>3, <2>2
<1>5. n \in Nat /\ \A x \in N : x \in Nat
  OBVIOUS
<1> QED
  BY <1>4, <1>5

----------------------------------------------------------------------------
(* The walks.                                                              *)

\* How many blocks of S come before b in the order r.
Before(S, r, b) == {g \in S : r[g] < r[b]}
Position(S, r, b) == Cardinality(Before(S, r, b))

\* Blocks with headers of their own are no more than the file has room for.
LEMMA FewBlocks ==
    ASSUME NEW S, Apart(S)
    PROVE  IsFiniteSet(S) /\ Cardinality(S) \in Nat /\ Cardinality(S) <= MaxBlocks
<1>1. PICK E \in Nat : E = BufferEnd
  BY BufferAssumption
<1>2. E >= 5 /\ MaxBlocks = E \div 3
  BY <1>1, BufferAssumption DEF MaxBlocks, HeaderSize, BlockSize
<1>3. S \subseteq 2 .. E - 3 /\ \A b, c \in S : b < c => b + 3 <= c
  BY <1>1 DEF Apart, Offsets, HeaderSize, BlockSize
<1>4. PICK q : q = [b \in S |-> b \div 3]
  OBVIOUS
<1>5. PICK m \in Nat : m = E \div 3
  BY <1>1
<1>6. q \in Injection(S, 0 .. m - 1)
  <2>1. ASSUME NEW b \in S
        PROVE  q[b] \in 0 .. m - 1
    BY <1>1, <1>3, <1>4, <1>5
  <2>2. ASSUME NEW b \in S, NEW c \in S, b < c
        PROVE  q[b] # q[c]
    <3>1. b \in Nat /\ c \in Nat /\ b + 3 <= c
      BY <1>3, <2>2
    <3>2. b \div 3 # c \div 3
      BY <3>1
    <3> QED
      BY <1>4, <3>2
  <2>3. \A b, c \in S : q[b] = q[c] => b = c
    BY <1>3, <2>2
  <2>4. q \in [S -> 0 .. m - 1]
    BY <1>4, <2>1
  <2> QED
    BY <2>3, <2>4, Fun_IsInj
<1>7. IsFiniteSet(0 .. m - 1) /\ Cardinality(0 .. m - 1) = m
  <2>1. 0 \in Int /\ m - 1 \in Int
    OBVIOUS
  <2>2. /\ IsFiniteSet(0 .. m - 1)
        /\ Cardinality(0 .. m - 1) = IF 0 > m - 1 THEN 0 ELSE (m - 1) - 0 + 1
    BY <2>1, FS_Interval
  <2> QED
    BY <2>2
<1>8. IsFiniteSet(S) /\ Cardinality(S) <= Cardinality(0 .. m - 1)
  BY <1>6, <1>7, FS_Injection
<1> QED
  BY <1>2, <1>5, <1>7, <1>8, FS_CardinalityType

\* Followed forward, the list at head has the blocks of S in the order r; what its
\* backward links are does not matter.
Forward(m, head, S, r) ==
    /\ Ranks(S, r)
    /\ IsFirst(S, r, m[head])
    /\ \A f \in S : Follows(S, r, f, m[NextOf(f)])

\* A list that is linked both ways is.
LEMMA LinkedForward ==
    ASSUME NEW S, NEW m, NEW r, NEW head, Linked(m, head, S, r)
    PROVE  Forward(m, head, S, r)
  BY DEF Linked, Forward

\* The blocks of a list are numbered in the order of its links, from nought on.
LEMMA Positions ==
    ASSUME NEW S, NEW m, NEW r, NEW head, Forward(m, head, S, r), IsFiniteSet(S),
           NULL_OFFSET \notin S, NEW b \in S
    PROVE  /\ Position(S, r, b) \in Nat /\ Position(S, r, b) < Cardinality(S)
           /\ m[head] = b <=> Position(S, r, b) = 0
           /\ LET n == m[NextOf(b)]
              IN  IF n = NULL_OFFSET THEN Cardinality(S) = Position(S, r, b) + 1
                  ELSE n \in S /\ Position(S, r, n) = Position(S, r, b) + 1
<1>1. /\ \A f, g \in S : r[f] \in Int /\ (r[f] = r[g] => f = g)
      /\ IsFirst(S, r, m[head]) /\ Follows(S, r, b, m[NextOf(b)])
  BY DEF Forward, Ranks
<1>2. PICK B : B = Before(S, r, b)
  OBVIOUS
<1>3. B \subseteq S /\ b \notin B /\ IsFiniteSet(B)
  <2>1. B \subseteq S /\ b \notin B
    BY <1>1, <1>2 DEF Before
  <2> QED
    BY <2>1, FS_Subset
<1>4. /\ Position(S, r, b) = Cardinality(B) /\ Cardinality(B) \in Nat /\ Cardinality(S) \in Nat
      /\ Cardinality(B \cup {b}) = Cardinality(B) + 1 /\ IsFiniteSet(B \cup {b})
  BY <1>2, <1>3, FS_CardinalityType, FS_AddElement DEF Position
<1>5. Cardinality(B \cup {b}) <= Cardinality(S)
  BY <1>3, FS_Subset
<1>6. m[head] = b <=> Position(S, r, b) = 0
  <2>1. m[head] \in S /\ \A g \in S : r[m[head]] <= r[g]
    BY <1>1 DEF IsFirst
  <2>2. m[head] = b <=> B = {}
    BY <1>1, <1>2, <2>1 DEF Before
  <2>3. B = {} <=> Cardinality(B) = 0
    BY <1>3, FS_EmptySet
  <2> QED
    BY <1>4, <2>2, <2>3
<1>7. PICK n : n = m[NextOf(b)]
  OBVIOUS
<1>8. ASSUME n = NULL_OFFSET
      PROVE  Cardinality(S) = Position(S, r, b) + 1
  <2>1. \A g \in S : r[g] <= r[b]
    BY <1>1, <1>7, <1>8 DEF Follows
  <2>2. S = B \cup {b}
    BY <1>1, <1>2, <2>1 DEF Before
  <2> QED
    BY <1>4, <2>2
<1>9. ASSUME n # NULL_OFFSET
      PROVE  n \in S /\ Position(S, r, n) = Position(S, r, b) + 1
  <2>1. n \in S /\ r[b] < r[n] /\ \A g \in S : r[g] <= r[b] \/ r[n] <= r[g]
    BY <1>1, <1>7, <1>9 DEF Follows
  <2>2. Before(S, r, n) = B \cup {b}
    BY <1>1, <1>2, <2>1 DEF Before
  <2> QED
    BY <1>4, <2>1, <2>2 DEF Position
<1> QED
  BY <1>4, <1>5, <1>6, <1>7, <1>8, <1>9

\* Every block but the first follows another.
LEMMA Predecessor ==
    ASSUME NEW S, NEW m, NEW r, NEW head, Forward(m, head, S, r), IsFiniteSet(S),
           NULL_OFFSET \notin S, NEW x \in S, m[head] # x
    PROVE  \E b \in S : m[NextOf(b)] = x
<1>1. /\ \A f, g \in S : r[f] \in Int /\ (r[f] = r[g] => f = g)
      /\ IsFirst(S, r, m[head]) /\ \A f \in S : Follows(S, r, f, m[NextOf(f)])
  BY DEF Forward, Ranks
<1>2. PICK P : P = [b \in S |-> Position(S, r, b)]
  OBVIOUS
<1>3. /\ \A b \in S : P[b] \in Nat /\ P[b] < Cardinality(S)
      /\ \A b \in S : m[NextOf(b)] # NULL_OFFSET => P[m[NextOf(b)]] = P[b] + 1
  <2> SUFFICES ASSUME NEW b \in S
               PROVE  /\ P[b] \in Nat /\ P[b] < Cardinality(S)
                      /\ m[NextOf(b)] # NULL_OFFSET => P[m[NextOf(b)]] = P[b] + 1
    OBVIOUS
  <2>1. PICK n : n = m[NextOf(b)]
    OBVIOUS
  <2>2. /\ Position(S, r, b) \in Nat /\ Position(S, r, b) < Cardinality(S)
        /\ n # NULL_OFFSET => n \in S /\ Position(S, r, n) = Position(S, r, b) + 1
    BY <2>1, Positions
  <2> QED
    BY <1>2, <2>1, <2>2
<1>4. PICK B : B = Before(S, r, x)
  OBVIOUS
<1>5. B \subseteq S /\ m[head] \in B
  BY <1>1, <1>4 DEF Before, IsFirst
<1>6. PICK N \in Nat : N = Cardinality(S)
  BY FS_CardinalityType
<1>7. PICK D : D = {N - P[b] : b \in B}
  OBVIOUS
<1>8. D \subseteq Nat /\ D # {}
  BY <1>3, <1>5, <1>6, <1>7
<1>9. PICK d \in D : \A y \in D : d <= y
  BY <1>8, Smallest
<1>10. PICK b \in B : d = N - P[b]
  BY <1>7
<1>11. PICK n : n = m[NextOf(b)]
  OBVIOUS
<1>12. b \in S /\ r[b] < r[x] /\ Follows(S, r, b, n)
  BY <1>1, <1>4, <1>5, <1>11 DEF Before
<1>13. n # NULL_OFFSET /\ n \in S /\ r[n] <= r[x]
  BY <1>1, <1>12 DEF Follows
<1>14. n \notin B
  <2> SUFFICES ASSUME n \in B
               PROVE  FALSE
    OBVIOUS
  <2>1. d <= N - P[n] /\ P[n] = P[b] + 1 /\ P[b] \in Nat
    BY <1>3, <1>7, <1>9, <1>11, <1>12, <1>13
  <2> QED
    BY <1>6, <1>10, <2>1
<1>15. n = x
  BY <1>1, <1>4, <1>13, <1>14 DEF Before
<1> QED
  BY <1>11, <1>12, <1>15

\* What a walk of n steps has met of a list.
Met(S, r, n) == {b \in S : Position(S, r, b) <= n}
                  \cup {e \in {NULL_OFFSET} : Cardinality(S) <= n}

\* It is where the walk starts, and one step takes it to the next.
LEMMA MetSteps ==
    ASSUME NEW S, NEW m, NEW r, NEW head, Forward(m, head, S, r), Apart(S)
    PROVE  /\ Met(S, r, 0) = {m[head]}
           /\ \A n \in Nat \ {0} :
                Met(S, r, n) = Met(S, r, n - 1)
                  \cup {Forth(m, b) : b \in {c \in Met(S, r, n - 1) : ~Wild(c)}}
<1>1. /\ IsFiniteSet(S) /\ Cardinality(S) \in Nat
      /\ \A b \in S : b # NULL_OFFSET /\ ~ Wild(b)
      /\ ~ Wild(NULL_OFFSET)
  <2>1. IsFiniteSet(S) /\ Cardinality(S) \in Nat
    BY FewBlocks
  <2>2. \A b \in S : b \in Nat /\ b >= 2 /\ b + 3 <= BufferEnd
    BY BufferAssumption DEF Apart, Offsets, HeaderSize, BlockSize
  <2>3. \A b \in S : b # NULL_OFFSET /\ ~ Wild(b)
    BY <2>2, BufferAssumption DEF Wild, NULL_OFFSET, BlockSize
  <2> QED
    BY <2>1, <2>3 DEF Wild
<1>2. PICK N \in Nat : N = Cardinality(S)
  BY <1>1
<1>3. PICK P : P = [b \in S |-> Position(S, r, b)]
  OBVIOUS
<1>4. NULL_OFFSET \notin S
  BY <1>1
<1>5. \A b \in S : /\ P[b] \in Nat /\ P[b] < N
                   /\ m[head] = b <=> P[b] = 0
                   /\ m[NextOf(b)] = NULL_OFFSET => N = P[b] + 1
                   /\ m[NextOf(b)] # NULL_OFFSET =>
                        m[NextOf(b)] \in S /\ P[m[NextOf(b)]] = P[b] + 1
  <2> SUFFICES ASSUME NEW b \in S
               PROVE  /\ P[b] \in Nat /\ P[b] < N
                      /\ m[head] = b <=> P[b] = 0
                      /\ m[NextOf(b)] = NULL_OFFSET => N = P[b] + 1
                      /\ m[NextOf(b)] # NULL_OFFSET =>
                           m[NextOf(b)] \in S /\ P[m[NextOf(b)]] = P[b] + 1
    OBVIOUS
  <2>1. PICK n : n = m[NextOf(b)]
    OBVIOUS
  <2>2. /\ Position(S, r, b) \in Nat /\ Position(S, r, b) < Cardinality(S)
        /\ m[head] = b <=> Position(S, r, b) = 0
        /\ IF n = NULL_OFFSET THEN Cardinality(S) = Position(S, r, b) + 1
           ELSE n \in S /\ Position(S, r, n) = Position(S, r, b) + 1
    BY <1>1, <1>4, <2>1, Positions
  <2> QED
    BY <1>2, <1>3, <2>1, <2>2
<1>6. \A n, x : x \in Met(S, r, n) <=> (x \in S /\ P[x] <= n) \/ (x = NULL_OFFSET /\ N <= n)
  BY <1>2, <1>3 DEF Met
<1>7. IF m[head] = NULL_OFFSET THEN S = {} ELSE m[head] \in S
  BY DEF Forward, IsFirst
<1>8. S = {} <=> N = 0
  BY <1>1, <1>2, FS_EmptySet
<1>9. Met(S, r, 0) = {m[head]}
  <2>1. \A x : x \in Met(S, r, 0) <=> x = m[head]
    BY <1>1, <1>5, <1>6, <1>7, <1>8
  <2> QED
    BY <2>1
<1>10. ASSUME NEW n \in Nat \ {0}, NEW x
       PROVE  x \in Met(S, r, n)
                <=> \/ x \in Met(S, r, n - 1)
                    \/ \E b \in Met(S, r, n - 1) : ~ Wild(b) /\ x = Forth(m, b)
  <2>1. \A b \in Met(S, r, n - 1) : Forth(m, b) = IF b = NULL_OFFSET THEN b ELSE m[NextOf(b)]
    BY DEF Forth
  <2>2. ASSUME NEW b \in Met(S, r, n - 1), x = Forth(m, b)
        PROVE  x \in Met(S, r, n)
    <3>1. CASE b = NULL_OFFSET
      BY <1>2, <1>4, <1>6, <2>1, <2>2, <3>1
    <3>2. CASE b # NULL_OFFSET
      <4>1. b \in S /\ P[b] <= n - 1 /\ x = m[NextOf(b)]
        BY <1>6, <2>1, <2>2, <3>2
      <4>2. x = NULL_OFFSET => N <= n
        <5> SUFFICES ASSUME x = NULL_OFFSET
                     PROVE  N <= n
          OBVIOUS
        <5>1. PICK k \in Nat : k = P[b]
          BY <1>5, <4>1
        <5>2. N = k + 1 /\ k <= n - 1
          BY <1>5, <4>1, <5>1
        <5> QED
          BY <5>2
      <4>3. x # NULL_OFFSET => x \in S /\ P[x] <= n
        BY <1>5, <4>1
      <4> QED
        BY <1>6, <4>2, <4>3
    <3> QED
      BY <3>1, <3>2
  <2>3. ASSUME x \in Met(S, r, n - 1)
        PROVE  x \in Met(S, r, n)
    BY <1>2, <1>5, <1>6, <2>3
  <2>4. ASSUME x \in Met(S, r, n), x \notin Met(S, r, n - 1)
        PROVE  \E b \in Met(S, r, n - 1) : ~ Wild(b) /\ x = Forth(m, b)
    <3>1. CASE x = NULL_OFFSET
      <4>1. N = n /\ S # {}
        BY <1>2, <1>4, <1>6, <1>8, <2>4, <3>1
      <4>2. PICK D : D = {N - 1 - P[b] : b \in S}
        OBVIOUS
      <4>3. D \subseteq Nat /\ D # {}
        BY <1>5, <4>1, <4>2
      <4>4. PICK d \in D : \A e \in D : d <= e
        BY <4>3, Smallest
      <4>5. PICK b \in S : d = N - 1 - P[b]
        BY <4>2
      <4>6. m[NextOf(b)] = NULL_OFFSET
        <5> SUFFICES ASSUME m[NextOf(b)] # NULL_OFFSET
                     PROVE  FALSE
          OBVIOUS
        <5>1. PICK c \in S : P[c] = P[b] + 1
          BY <1>5
        <5>2. d <= N - 1 - P[c]
          BY <4>2, <4>4
        <5> QED
          BY <1>5, <4>5, <5>1, <5>2
      <4>7. b \in Met(S, r, n - 1) /\ b # NULL_OFFSET
        BY <1>1, <1>5, <1>6, <4>1
      <4> QED
        BY <1>1, <2>1, <3>1, <4>6, <4>7
    <3>2. CASE x # NULL_OFFSET
      <4>1. x \in S /\ P[x] = n
        BY <1>5, <1>6, <2>4, <3>2
      <4>2. m[head] # x
        BY <1>5, <4>1
      <4>3. PICK b \in S : m[NextOf(b)] = x
        BY <1>1, <1>4, <4>1, <4>2, Predecessor
      <4>4. P[x] = P[b] + 1
        BY <1>5, <3>2, <4>3
      <4>5. b \in Met(S, r, n - 1) /\ b # NULL_OFFSET
        BY <1>1, <1>5, <1>6, <4>1, <4>4
      <4> QED
        BY <1>1, <2>1, <4>3, <4>5
    <3> QED
      BY <3>1, <3>2
  <2> QED
    BY <2>2, <2>3, <2>4
<1>11. ASSUME NEW n \in Nat \ {0}
       PROVE  Met(S, r, n) = Met(S, r, n - 1)
                \cup {Forth(m, b) : b \in {c \in Met(S, r, n - 1) : ~Wild(c)}}
  BY <1>10
<1> QED
  BY <1>9, <1>11

\* A walk from begin() meets every block of the list and ends.
LEMMA WalkIs ==
    ASSUME NEW S, NEW m, NEW r, NEW head, Forward(m, head, S, r), Apart(S)
    PROVE  Reached(m, head) = S \cup {NULL_OFFSET}
<1>1. PICK M \in Nat : M = MaxBlocks
  BY BufferAssumption DEF MaxBlocks, BlockSize
<1> DEFINE Walk(g) == [n \in 0 .. M |->
                         IF n = 0 THEN {m[head]}
                         ELSE g[n - 1] \cup {Forth(m, b) : b \in {c \in g[n - 1] : ~Wild(c)}}]
<1>2. PICK f : f = [n \in 0 .. M |-> Met(S, r, n)]
  OBVIOUS
<1>3. /\ Met(S, r, 0) = {m[head]}
      /\ \A n \in Nat \ {0} :
           Met(S, r, n) = Met(S, r, n - 1)
             \cup {Forth(m, b) : b \in {c \in Met(S, r, n - 1) : ~Wild(c)}}
  BY MetSteps
<1>4. f = Walk(f)
  <2>1. ASSUME NEW n \in 0 .. M, n # 0
        PROVE  /\ f[n] = Met(S, r, n) /\ f[n - 1] = Met(S, r, n - 1)
               /\ f[n] = f[n - 1] \cup {Forth(m, b) : b \in {c \in f[n - 1] : ~Wild(c)}}
    <3>1. n - 1 \in 0 .. M /\ n \in Nat \ {0}
      BY <2>1
    <3>2. f[n] = Met(S, r, n) /\ f[n - 1] = Met(S, r, n - 1)
      BY <1>2, <3>1
    <3> QED
      BY <1>3, <3>1, <3>2
  <2>2. f[0] = {m[head]}
    BY <1>2, <1>3
  <2>3. \A n \in 0 .. M : f[n] = Walk(f)[n]
    BY <2>1, <2>2
  <2> QED
    BY <1>2, <2>3
<1>5. Reached(m, head) = (CHOOSE g : g = Walk(g))[M]
  BY <1>1 DEF Reached
<1>6. PICK g : g = Walk(g) /\ Reached(m, head) = g[M]
  BY <1>4, <1>5
<1>7. \A n \in 0 .. M : g[n] = f[n]
  <2> SUFFICES ASSUME NEW l \in 0 .. M, g[l] # f[l]
               PROVE  FALSE
    OBVIOUS
  <2>1. PICK N : N = {n \in 0 .. M : g[n] # f[n]}
    OBVIOUS
  <2>2. N \subseteq Nat /\ N # {}
    BY <2>1
  <2>3. PICK n \in N : \A x \in N : n <= x
    BY <2>2, Smallest
  <2>4. n \in 0 .. M /\ g[n] # f[n]
    BY <2>1
  <2>5. g[n] = Walk(g)[n] /\ f[n] = Walk(f)[n]
    BY <1>4, <1>6
  <2>6. n # 0
    BY <2>4, <2>5
  <2>7. g[n - 1] = f[n - 1]
    BY <2>1, <2>3, <2>4, <2>6
  <2>8. Walk(g)[n] = Walk(f)[n]
    BY <2>4, <2>6, <2>7
  <2> QED
    BY <2>4, <2>5, <2>8
<1>8. Reached(m, head) = Met(S, r, M)
  BY <1>1, <1>2, <1>6, <1>7
<1>9. IsFiniteSet(S) /\ Cardinality(S) \in Nat /\ Cardinality(S) <= M
  BY <1>1, FewBlocks
<1>10. NULL_OFFSET \notin S
  BY HeaderCells DEF NULL_OFFSET
<1>11. \A b \in S : Position(S, r, b) \in Nat /\ Position(S, r, b) < Cardinality(S)
  BY <1>9, <1>10, Positions
<1>12. \A b \in S : Position(S, r, b) <= M
  BY <1>9, <1>11
<1> QED
  BY <1>8, <1>9, <1>12 DEF Met

\* In a list the iterators go back the way they came.
LEMMA BackAndForth ==
    ASSUME NEW S, NEW m, NEW r, NEW head, Linked(m, head, S, r), Apart(S)
    PROVE  /\ WalkEnds(m, head) /\ Visited(m, head) = S
           /\ \A b \in S : Forth(m, b) # NULL_OFFSET => Back(m, Forth(m, b)) = b
<1>1. NULL_OFFSET \notin S
  BY HeaderCells DEF NULL_OFFSET
<1>2. WalkEnds(m, head) /\ Visited(m, head) = S
  BY <1>1, LinkedForward, WalkIs DEF WalkEnds, Visited
<1>3. ASSUME NEW b \in S, Forth(m, b) # NULL_OFFSET
      PROVE  Back(m, Forth(m, b)) = b
  <2>1. Forth(m, b) = m[NextOf(b)]
    BY <1>1 DEF Forth
  <2>2. m[PrevOf(m[NextOf(b)])] = b
    BY <1>1, <1>3, <2>1, Neighbours
  <2> QED
    BY <1>3, <2>1, <2>2 DEF Back
<1> QED
  BY <1>2, <1>3

\* Where the blocks of the free list start, the gaps do.
LEMMA GapStartsAre ==
    ASSUME TypeOK, NEW s, NEW F, NEW r, PoolOK(s, F, r), pc = "idle"
    PROVE  GapStarts = F
<1>1. PICK Gs : Gs = Pool!Gaps
  OBVIOUS
<1>2. GapStarts = {gap[1] : gap \in Gs} /\ Gs = {<<f, EndIn(s, f)>> : f \in F}
  BY <1>1, FreeBlocksAreGaps DEF GapStarts
<1>3. ASSUME NEW f \in F
      PROVE  f \in GapStarts
  <2>1. <<f, EndIn(s, f)>> \in Gs /\ <<f, EndIn(s, f)>>[1] = f
    BY <1>2
  <2> QED
    BY <1>2, <2>1
<1>4. GapStarts \subseteq F
  BY <1>2
<1> QED
  BY <1>3, <1>4

\* Between operations both walks end, visit the blocks in use and the gaps, and lead
\* back the way they came.
THEOREM WalksVisitEveryBlock == CleanSpec => []WalksAreExact
<1>1. PoolInv => WalksAreExact
  <2> SUFFICES ASSUME PoolInv, pc = "idle"
               PROVE  /\ \A head \in {USED_LIST, FREE_LIST} :
                           /\ WalkEnds(mem, head)
                           /\ \A b \in Visited(mem, head) :
                                Forth(mem, b) # NULL_OFFSET => Back(mem, Forth(mem, b)) = b
                      /\ Visited(mem, USED_LIST) = DOMAIN held
                      /\ Visited(mem, FREE_LIST) = GapStarts
    BY DEF WalksAreExact
  <2>1. TypeOK
    BY DEF PoolInv
  <2>2. PICK s, F, r : PoolOK(s, F, r)
    BY DEF PoolInv
  <2>3. Apart(F) /\ Apart(DOMAIN held)
    BY <2>1, <2>2, PoolFacts
  <2>4. Linked(mem, FREE_LIST, F, Place) /\ Linked(mem, USED_LIST, DOMAIN held, r)
    BY <2>2 DEF PoolOK, ListsOK
  <2>5. /\ WalkEnds(mem, FREE_LIST) /\ Visited(mem, FREE_LIST) = F
        /\ \A b \in F : Forth(mem, b) # NULL_OFFSET => Back(mem, Forth(mem, b)) = b
    BY <2>3, <2>4, BackAndForth
  <2>6. /\ WalkEnds(mem, USED_LIST) /\ Visited(mem, USED_LIST) = DOMAIN held
        /\ \A b \in DOMAIN held : Forth(mem, b) # NULL_OFFSET => Back(mem, Forth(mem, b)) = b
    BY <2>3, <2>4, BackAndForth
  <2>7. GapStarts = F
    BY <2>1, <2>2, GapStartsAre
  <2> QED
    BY <2>5, <2>6, <2>7
<1> QED
  BY <1>1, PoolInvariance, PTL

----------------------------------------------------------------------------
(* The totals of print_stats(): a sum over a list is the number of cells   *)
(* its blocks take, and the blocks of both lists take every cell once.     *)

SpaceOf(m, b) == m[SizeOf(b)] + BlockSize
Span(m, b) == b .. b + SpaceOf(m, b) - 1
Occupied(m, S) == UNION {Span(m, b) : b \in S}

\* The blocks lie in the file and none reaches into another.
Disjoint(m, S) ==
    /\ \A b \in S : b \in Nat /\ SpaceOf(m, b) \in Nat \ {0} /\ b + SpaceOf(m, b) <= BufferEnd
    /\ \A b, c \in S : b < c => b + SpaceOf(m, b) <= c

\* What a block takes, it alone takes.
LEMMA OccupiedBy ==
    ASSUME NEW m, NEW S, Disjoint(m, S)
    PROVE  /\ IsFiniteSet(Occupied(m, S)) /\ Cardinality(Occupied(m, S)) \in Nat
           /\ S = {} => Cardinality(Occupied(m, S)) = 0
           /\ \A b \in S : Cardinality(Occupied(m, S))
                             = SpaceOf(m, b) + Cardinality(Occupied(m, S \ {b}))
<1>1. PICK E \in Nat : E = BufferEnd
  BY BufferAssumption
<1>2. /\ \A b \in S : b \in Nat /\ SpaceOf(m, b) \in Nat \ {0} /\ b + SpaceOf(m, b) <= E
      /\ \A b, c \in S : b < c => b + SpaceOf(m, b) <= c
  BY <1>1 DEF Disjoint
<1>3. IsFiniteSet(0 .. E)
  BY FS_Interval
<1>4. \A T : T \subseteq S => IsFiniteSet(Occupied(m, T)) /\ Cardinality(Occupied(m, T)) \in Nat
  <2> SUFFICES ASSUME NEW T, T \subseteq S
               PROVE  IsFiniteSet(Occupied(m, T)) /\ Cardinality(Occupied(m, T)) \in Nat
    OBVIOUS
  <2>1. \A b \in T : Span(m, b) \subseteq 0 .. E
    BY <1>2 DEF Span
  <2>2. Occupied(m, T) \subseteq 0 .. E
    BY <2>1 DEF Occupied
  <2>3. IsFiniteSet(Occupied(m, T))
    BY <1>3, <2>2, FS_Subset
  <2> QED
    BY <2>3, FS_CardinalityType
<1>5. S = {} => Cardinality(Occupied(m, S)) = 0
  <2>1. S = {} => Occupied(m, S) = {}
    BY DEF Occupied
  <2> QED
    BY <2>1, FS_EmptySet
<1>6. ASSUME NEW b \in S
      PROVE  Cardinality(Occupied(m, S)) = SpaceOf(m, b) + Cardinality(Occupied(m, S \ {b}))
  <2>1. PICK n \in Nat : n = SpaceOf(m, b)
    BY <1>2
  <2>2. IsFiniteSet(Span(m, b)) /\ Cardinality(Span(m, b)) = n
    <3>1. b \in Int /\ b + n - 1 \in Int /\ n > 0
      BY <1>2, <2>1
    <3>2. /\ IsFiniteSet(b .. b + n - 1)
          /\ Cardinality(b .. b + n - 1) = IF b > b + n - 1 THEN 0 ELSE (b + n - 1) - b + 1
      BY <3>1, FS_Interval
    <3> QED
      BY <2>1, <3>1, <3>2 DEF Span
  <2>3. PICK A : A = Occupied(m, S \ {b})
    OBVIOUS
  <2>4. Occupied(m, S) = Span(m, b) \cup A
    BY <2>3 DEF Occupied
  <2>5. Span(m, b) \cap A = {}
    <3>1. ASSUME NEW c \in S \ {b}
          PROVE  Span(m, b) \cap Span(m, c) = {}
      <4>1. b \in Nat /\ c \in Nat /\ (b < c \/ c < b)
        BY <1>2
      <4>2. b + SpaceOf(m, b) <= c \/ c + SpaceOf(m, c) <= b
        BY <1>2, <4>1
      <4>3. SpaceOf(m, b) \in Nat /\ SpaceOf(m, c) \in Nat
        BY <1>2
      <4> QED
        BY <4>1, <4>2, <4>3 DEF Span
    <3> QED
      BY <2>3, <3>1 DEF Occupied
  <2>6. IsFiniteSet(A) /\ Cardinality(A) \in Nat
    BY <1>4, <2>3
  <2>7. Cardinality(Span(m, b) \cup A)
          = Cardinality(Span(m, b)) + Cardinality(A) - Cardinality(Span(m, b) \cap A)
    BY <2>2, <2>6, FS_Union
  <2>8. Cardinality(Span(m, b) \cap A) = 0
    BY <2>5, FS_EmptySet
  <2> QED
    BY <2>1, <2>2, <2>3, <2>4, <2>6, <2>7, <2>8
<1> QED
  BY <1>4, <1>5, <1>6

\* The total that print_stats() adds up over a list.
LEMMA TotalIs ==
    ASSUME NEW m, NEW head, NEW S, S = Visited(m, head), IsFiniteSet(S), Disjoint(m, S)
    PROVE  Stats(m, head).total_block_size = Cardinality(Occupied(m, S))
<1> DEFINE Sum(g) == [T \in SUBSET S |->
                        IF T = {} THEN 0
                        ELSE m[SizeOf(CHOOSE x \in T : TRUE)] + BlockSize
                               + g[T \ {CHOOSE x \in T : TRUE}]]
<1>1. Stats(m, head).total_block_size = (CHOOSE g : g = Sum(g))[S]
  BY DEF Stats, MapThenSumSet, MapThenFoldSet
<1>2. PICK f : f = [T \in SUBSET S |-> Cardinality(Occupied(m, T))]
  OBVIOUS
<1>3. \A T \in SUBSET S : T # {} => (CHOOSE x \in T : TRUE) \in T
  OBVIOUS
<1>4. f = Sum(f)
  <2>1. ASSUME NEW T \in SUBSET S
        PROVE  f[T] = Sum(f)[T]
    <3>1. Disjoint(m, T)
      BY DEF Disjoint
    <3>2. CASE T = {}
      BY <1>2, <3>1, <3>2, OccupiedBy
    <3>3. CASE T # {}
      <4>1. PICK x \in T : x = CHOOSE y \in T : TRUE
        BY <1>3, <3>3
      <4>2. Cardinality(Occupied(m, T)) = SpaceOf(m, x) + Cardinality(Occupied(m, T \ {x}))
        BY <3>1, OccupiedBy
      <4>3. T \ {x} \in SUBSET S
        OBVIOUS
      <4>4. f[T] = m[SizeOf(x)] + BlockSize + f[T \ {x}]
        BY <1>2, <4>2, <4>3 DEF SpaceOf
      <4> QED
        BY <3>3, <4>1, <4>4
    <3> QED
      BY <3>2, <3>3
  <2> QED
    BY <1>2, <2>1
<1>5. PICK g : g = Sum(g) /\ Stats(m, head).total_block_size = g[S]
  BY <1>1, <1>4
<1>6. \A T \in SUBSET S : g[T] = f[T]
  <2> SUFFICES ASSUME NEW U \in SUBSET S, g[U] # f[U]
               PROVE  FALSE
    OBVIOUS
  <2>1. PICK N : N = {Cardinality(T) : T \in {V \in SUBSET S : g[V] # f[V]}}
    OBVIOUS
  <2>2. \A T \in SUBSET S : IsFiniteSet(T) /\ Cardinality(T) \in Nat
    BY FS_Subset, FS_CardinalityType
  <2>3. N \subseteq Nat /\ N # {}
    BY <2>1, <2>2
  <2>4. PICK n \in N : \A k \in N : n <= k
    BY <2>3, Smallest
  <2>5. PICK T \in SUBSET S : g[T] # f[T] /\ n = Cardinality(T)
    BY <2>1
  <2>6. g[T] = Sum(g)[T] /\ f[T] = Sum(f)[T]
    BY <1>4, <1>5
  <2>7. T # {}
    BY <2>5, <2>6
  <2>8. PICK x \in T : x = CHOOSE y \in T : TRUE
    BY <1>3, <2>7
  <2>9. T \ {x} \in SUBSET S /\ Cardinality(T \ {x}) = Cardinality(T) - 1
    BY <2>2, FS_RemoveElement
  <2>10. g[T \ {x}] = f[T \ {x}]
    BY <2>1, <2>2, <2>4, <2>5, <2>9
  <2>11. Sum(g)[T] = Sum(f)[T]
    BY <2>7, <2>8, <2>10
  <2> QED
    BY <2>5, <2>6, <2>11
<1> QED
  BY <1>2, <1>5, <1>6

\* A bounded set of numbers has a largest member.
LEMMA MaxIs ==
    ASSUME NEW E \in Nat, NEW V, V \subseteq 0 .. E, V # {}
    PROVE  Max(V) \in V /\ \A v \in V : v <= Max(V)
<1>1. PICK D : D = {E - v : v \in V}
  OBVIOUS
<1>2. D \subseteq Nat /\ D # {}
  <2>1. \A v \in V : v \in 0 .. E /\ E - v \in Nat
    OBVIOUS
  <2>2. D \subseteq Nat
    BY <1>1, <2>1
  <2>3. PICK v : v \in V
    OBVIOUS
  <2>4. E - v \in D
    BY <1>1, <2>3
  <2> QED
    BY <2>2, <2>4
<1>3. PICK d \in D : \A e \in D : d <= e
  BY <1>2, Smallest
<1>4. PICK x \in V : d = E - x
  BY <1>1
<1>5. \A v \in V : v \in 0 .. E /\ E - v \in D
  BY <1>1
<1>6. \A v \in V : x >= v
  BY <1>3, <1>4, <1>5
<1>7. Max(V) \in V /\ \A v \in V : Max(V) >= v
  BY <1>6 DEF Max
<1> QED
  BY <1>5, <1>7

\* All but the largest block take no space exactly if there is no other.
LEMMA Fragments ==
    ASSUME NEW m, NEW S, IsFiniteSet(S), Disjoint(m, S),
           NEW total, total = Cardinality(Occupied(m, S)),
           NEW largest, largest = Max({m[SizeOf(b)] + BlockSize : b \in S} \cup {0})
    PROVE  total - largest = 0 <=> Cardinality(S) <= 1
<1>1. PICK E \in Nat : E = BufferEnd
  BY BufferAssumption
<1>2. \A b \in S : b \in Nat /\ SpaceOf(m, b) \in Nat \ {0} /\ b + SpaceOf(m, b) <= E
  BY <1>1 DEF Disjoint
<1>3. PICK V : V = {SpaceOf(m, b) : b \in S} \cup {0}
  OBVIOUS
<1>4. V \subseteq 0 .. E /\ V # {}
  BY <1>2, <1>3
<1>5. largest = Max(V)
  BY <1>3 DEF SpaceOf
<1>6. largest \in V /\ largest \in Nat /\ \A v \in V : v <= largest
  <2>1. PICK x : x = Max(V)
    OBVIOUS
  <2>2. x \in V /\ \A v \in V : v <= x
    BY <1>4, <2>1, MaxIs
  <2>3. x \in 0 .. E
    BY <1>4, <2>2
  <2>4. x = largest
    BY <1>5, <2>1
  <2> QED
    BY <2>2, <2>3, <2>4
<1>7. Cardinality(S) \in Nat /\ (Cardinality(S) = 0 <=> S = {})
      /\ (Cardinality(S) = 1 <=> \E b : S = {b})
  BY FS_CardinalityType, FS_EmptySet, FS_Singleton
<1>8. CASE S = {}
  <2>1. total = 0
    BY <1>8, OccupiedBy
  <2>2. largest = 0
    BY <1>3, <1>6, <1>8
  <2> QED
    BY <1>7, <1>8, <2>1, <2>2
<1>9. CASE S # {}
  <2>1. largest # 0
    <3>1. PICK b \in S : SpaceOf(m, b) \in V /\ SpaceOf(m, b) \in Nat \ {0}
      BY <1>2, <1>3, <1>9
    <3> QED
      BY <1>6, <3>1
  <2>2. PICK f \in S : largest = SpaceOf(m, f)
    BY <1>3, <1>6, <2>1
  <2>3. PICK T : T = S \ {f}
    OBVIOUS
  <2>4. PICK rest : rest = Cardinality(Occupied(m, T))
    OBVIOUS
  <2>5. total = largest + rest
    BY <2>2, <2>3, <2>4, OccupiedBy
  <2>6. Disjoint(m, T)
    BY <2>3 DEF Disjoint
  <2>7. rest \in Nat /\ (T = {} => rest = 0)
    BY <2>4, <2>6, OccupiedBy
  <2>8. ASSUME T # {}
        PROVE  rest # 0
    <3>1. PICK b \in T : SpaceOf(m, b) \in Nat \ {0}
      BY <1>2, <2>3, <2>8
    <3>2. rest = SpaceOf(m, b) + Cardinality(Occupied(m, T \ {b}))
      BY <2>4, <2>6, OccupiedBy
    <3>3. Disjoint(m, T \ {b})
      BY <2>6 DEF Disjoint
    <3>4. Cardinality(Occupied(m, T \ {b})) \in Nat
      BY <3>3, OccupiedBy
    <3> QED
      BY <3>1, <3>2, <3>4
  <2>9. total - largest = 0 <=> T = {}
    BY <1>6, <2>5, <2>7, <2>8
  <2>10. T = {} <=> \E b : S = {b}
    BY <2>2, <2>3
  <2>11. S # {} => (Cardinality(S) <= 1 <=> Cardinality(S) = 1)
    BY <1>7
  <2> QED
    BY <1>7, <1>9, <2>9, <2>10, <2>11
<1> QED
  BY <1>8, <1>9

\* The blocks of both lists take every cell behind the file's header, once.
LEMMA EveryCellIsTaken ==
    ASSUME NEW m, NEW s, Tiles(s), \A b \in DOMAIN s : m[SizeOf(b)] = s[b]
    PROVE  Disjoint(m, DOMAIN s) /\ Occupied(m, DOMAIN s) = HeaderSize .. BufferEnd - 1
<1>1. PICK E \in Nat : E = BufferEnd
  BY BufferAssumption
<1>2. /\ \A b \in DOMAIN s : /\ b \in Nat /\ b >= 2 /\ EndIn(s, b) \in Nat
                             /\ b < EndIn(s, b) /\ EndIn(s, b) <= E
                             /\ EndIn(s, b) \in DOMAIN s \cup {E}
      /\ \A b, c \in DOMAIN s : b < c => EndIn(s, b) <= c
      /\ 2 \in DOMAIN s
  BY <1>1, TilesFacts DEF Tiles, HeaderSize
<1>3. \A b \in DOMAIN s : /\ s[b] \in Nat /\ SpaceOf(m, b) = s[b] + 3
                          /\ EndIn(s, b) = b + SpaceOf(m, b)
  <2>1. \A b \in DOMAIN s : s[b] \in Nat /\ EndIn(s, b) = b + 3 + s[b]
    BY TilesFacts
  <2>2. \A b \in DOMAIN s : SpaceOf(m, b) = s[b] + 3
    BY DEF SpaceOf, BlockSize
  <2> QED
    BY <1>2, <2>1, <2>2
<1>4. Disjoint(m, DOMAIN s)
  BY <1>1, <1>2, <1>3 DEF Disjoint
<1>5. ASSUME NEW b \in DOMAIN s
      PROVE  Span(m, b) = b .. EndIn(s, b) - 1
  <2>1. PICK n \in Nat : n = SpaceOf(m, b)
    BY <1>3
  <2>2. EndIn(s, b) = b + n /\ b \in Nat
    BY <1>2, <1>3, <2>1
  <2>3. Span(m, b) = b .. b + n - 1
    BY <2>1 DEF Span
  <2> QED
    BY <2>2, <2>3
<1>6. ASSUME NEW a \in 2 .. E - 1
      PROVE  \E b \in DOMAIN s : a \in Span(m, b)
  <2>1. PICK N : N = {a - b : b \in {c \in DOMAIN s : c <= a}}
    OBVIOUS
  <2>2. N \subseteq Nat /\ N # {}
    <3>1. \A c \in DOMAIN s : c <= a => a - c \in Nat
      BY <1>2
    <3>2. N \subseteq Nat
      BY <2>1, <3>1
    <3>3. a - 2 \in N
      BY <1>2, <2>1
    <3> QED
      BY <3>2, <3>3
  <2>3. PICK n \in N : \A x \in N : n <= x
    BY <2>2, Smallest
  <2>4. PICK b \in DOMAIN s : b <= a /\ n = a - b
    BY <2>1
  <2>5. EndIn(s, b) > a
    <3> SUFFICES ASSUME EndIn(s, b) <= a
                 PROVE  FALSE
      BY <1>2
    <3>1. EndIn(s, b) \in DOMAIN s
      BY <1>2
    <3>2. n <= a - EndIn(s, b)
      BY <2>1, <2>3, <3>1
    <3> QED
      BY <1>2, <2>4, <3>2
  <2> QED
    BY <1>2, <1>5, <2>4, <2>5
<1>7. ASSUME NEW b \in DOMAIN s
      PROVE  Span(m, b) \subseteq 2 .. E - 1
  BY <1>2, <1>5
<1> QED
  BY <1>1, <1>4, <1>6, <1>7 DEF Occupied, HeaderSize

\* Together the two lists account for every byte of the file.
LEMMA TotalsFillTheFile ==
    ASSUME NEW m, NEW s, Tiles(s), \A b \in DOMAIN s : m[SizeOf(b)] = s[b],
           NEW U, NEW F, DOMAIN s = U \cup F, U \cap F = {}
    PROVE  /\ Disjoint(m, U) /\ Disjoint(m, F)
           /\ HeaderSize + Cardinality(Occupied(m, U)) + Cardinality(Occupied(m, F)) = BufferEnd
<1>1. PICK E \in Nat : E = BufferEnd /\ E >= 5
  BY BufferAssumption DEF HeaderSize, BlockSize
<1>2. /\ Disjoint(m, DOMAIN s)
      /\ Occupied(m, DOMAIN s) = 2 .. E - 1
  BY <1>1, EveryCellIsTaken DEF HeaderSize
<1>3. Disjoint(m, U) /\ Disjoint(m, F)
  BY <1>2 DEF Disjoint
<1>4. PICK u, A : A = Occupied(m, U) /\ u = Cardinality(A) /\ u \in Nat /\ IsFiniteSet(A)
  BY <1>3, OccupiedBy
<1>5. PICK f, B : B = Occupied(m, F) /\ f = Cardinality(B) /\ f \in Nat /\ IsFiniteSet(B)
  BY <1>3, OccupiedBy
<1>6. A \cup B = 2 .. E - 1
  BY <1>2, <1>4, <1>5 DEF Occupied
<1>7. A \cap B = {}
  <2>1. ASSUME NEW b \in U, NEW c \in F
        PROVE  Span(m, b) \cap Span(m, c) = {}
    <3>1. /\ b \in Nat /\ c \in Nat /\ (b < c \/ c < b)
          /\ SpaceOf(m, b) \in Nat /\ SpaceOf(m, c) \in Nat
      BY <1>2 DEF Disjoint
    <3>2. b + SpaceOf(m, b) <= c \/ c + SpaceOf(m, c) <= b
      BY <1>2, <3>1 DEF Disjoint
    <3> QED
      BY <3>1, <3>2 DEF Span
  <2> QED
    BY <1>4, <1>5, <2>1 DEF Occupied
<1>8. Cardinality(2 .. E - 1) = u + f - Cardinality({})
  <2>1. Cardinality(A \cup B) = Cardinality(A) + Cardinality(B) - Cardinality(A \cap B)
    BY <1>4, <1>5, FS_Union
  <2> QED
    BY <1>4, <1>5, <1>6, <1>7, <2>1
<1>9. Cardinality(2 .. E - 1) = E - 2
  <2>1. 2 \in Int /\ E - 1 \in Int /\ ~ (2 > E - 1)
    BY <1>1
  <2>2. Cardinality(2 .. E - 1) = IF 2 > E - 1 THEN 0 ELSE (E - 1) - 2 + 1
    BY <2>1, FS_Interval
  <2> QED
    BY <2>1, <2>2
<1>10. Cardinality({}) = 0
  BY FS_EmptySet
<1>11. 2 + u + f = E
  BY <1>4, <1>5, <1>8, <1>9, <1>10
<1> QED
  BY <1>1, <1>3, <1>4, <1>5, <1>11 DEF HeaderSize

\* Between operations what print_stats() reports of both lists adds up to the file,
\* and fragmentation is reported exactly if the free space is in several pieces.
THEOREM StatsAccountForEveryByte == CleanSpec => []StatsAddUp
<1>1. PoolInv => StatsAddUp
  <2> SUFFICES ASSUME PoolInv, pc = "idle"
               PROVE  /\ HeaderSize + Stats(mem, USED_LIST).total_block_size
                           + Stats(mem, FREE_LIST).total_block_size = BufferEnd
                      /\ Stats(mem, USED_LIST).num_blocks = Cardinality(DOMAIN held)
                      /\ FragmentedSpace(Stats(mem, FREE_LIST)) = 0
                           <=> Cardinality(Pool!Gaps) <= 1
    BY DEF StatsAddUp
  <2>1. TypeOK
    BY DEF PoolInv
  <2>2. PICK s, F, r : PoolOK(s, F, r)
    BY DEF PoolInv
  <2>3. PICK U : U = DOMAIN held
    OBVIOUS
  <2>4. Apart(F) /\ Apart(U) /\ \A f \in F : mem[SizeOf(f)] = s[f]
    BY <2>1, <2>2, <2>3, PoolFacts
  <2>5. Linked(mem, FREE_LIST, F, Place) /\ Linked(mem, USED_LIST, U, r)
    BY <2>2, <2>3 DEF PoolOK, ListsOK
  <2>6. Visited(mem, FREE_LIST) = F /\ Visited(mem, USED_LIST) = U
    BY <2>4, <2>5, BackAndForth
  <2>7. /\ Pool!Gaps = {<<f, EndIn(s, f)>> : f \in F}
        /\ \A b \in U : mem[SizeOf(b)] = s[b]
    BY <2>1, <2>2, <2>3, FreeBlocksAreGaps
  <2>8. Tiles(s) /\ DOMAIN s = U \cup F /\ U \cap F = {}
    <3>1. Tiles(s) /\ PlacesOK(s, F) /\ AllocOK(s, F)
      BY <2>2 DEF PoolOK
    <3>2. Taken = {} /\ Loose = {}
      BY <3>1 DEF AllocOK, Taken, Loose, Allocating
    <3> QED
      BY <2>3, <3>1, <3>2 DEF PlacesOK
  <2>9. \A b \in DOMAIN s : mem[SizeOf(b)] = s[b]
    BY <2>4, <2>7, <2>8
  <2>10. /\ Disjoint(mem, U) /\ Disjoint(mem, F)
         /\ HeaderSize + Cardinality(Occupied(mem, U)) + Cardinality(Occupied(mem, F)) = BufferEnd
    BY <2>8, <2>9, TotalsFillTheFile
  <2>11. IsFiniteSet(F) /\ IsFiniteSet(U)
    BY <2>4, FewBlocks
  <2>12. PICK u : u = Stats(mem, USED_LIST).total_block_size
    OBVIOUS
  <2>13. PICK f : f = Stats(mem, FREE_LIST).total_block_size
    OBVIOUS
  <2>14. u = Cardinality(Occupied(mem, U)) /\ f = Cardinality(Occupied(mem, F))
    BY <2>6, <2>10, <2>11, <2>12, <2>13, TotalIs
  <2>15. HeaderSize + u + f = BufferEnd
    BY <2>10, <2>14
  <2>16. Stats(mem, USED_LIST).num_blocks = Cardinality(U)
    BY <2>6 DEF Stats
  <2>17. PICK l : l = Max({mem[SizeOf(b)] + BlockSize : b \in F} \cup {0})
    OBVIOUS
  <2>18. Stats(mem, FREE_LIST).largest_block_size = l
    BY <2>6, <2>17 DEF Stats
  <2>19. f - l = 0 <=> Cardinality(F) <= 1
    BY <2>10, <2>11, <2>14, <2>17, Fragments
  <2>20. Cardinality(Pool!Gaps) = Cardinality(F)
    <3>1. PICK Gs : Gs = Pool!Gaps
      OBVIOUS
    <3>2. PICK q : q = [x \in F |-> <<x, EndIn(s, x)>>]
      OBVIOUS
    <3>3. Gs = {q[x] : x \in F}
      BY <2>7, <3>1, <3>2
    <3>4. \A x, y \in F : q[x] = q[y] => x = y
      BY <3>2
    <3>5. q \in [F -> Gs]
      BY <3>2, <3>3
    <3>6. q \in Bijection(F, Gs)
      BY <3>3, <3>4, <3>5, Fun_IsBij
    <3>7. ExistsBijection(F, Gs)
      BY <3>6 DEF ExistsBijection
    <3> QED
      BY <2>11, <3>1, <3>7, FS_Bijection
  <2>21. FragmentedSpace(Stats(mem, FREE_LIST)) = f - l
    BY <2>13, <2>18 DEF FragmentedSpace
  <2> QED
    BY <2>3, <2>12, <2>13, <2>15, <2>16, <2>19, <2>20, <2>21
<1> QED
  BY <1>1, PoolInvariance, PTL
=============================================================================
