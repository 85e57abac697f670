------------------------ MODULE TornOperationsProofs ------------------------
(***************************************************************************)
(* Proof that the file is safe to reload whichever store of alloc() or     *)
(* free() is the last one executed, in the executions of CleanSpec.        *)
(*                                                                         *)
(* The first part computes what a sequence of stores leaves.  The second   *)
(* part follows the stores of each operation on a list: only the forward   *)
(* links matter to a restart, and in each of the sequences one store makes *)
(* the change to them.  The third part goes through the steps of alloc()   *)
(* and free() under the allocator's invariant.                             *)
(***************************************************************************)
EXTENDS TornOperations, BufferIterationProofs, SequenceTheorems

----------------------------------------------------------------------------
(* Sequences of stores.                                                    *)

Store == Cells \X Word

\* What one store leaves.
Write(m, x) == [m EXCEPT ![x[1]] = x[2]]

\* What the stores numbered in T leave: in each cell the last of those to it.
After(m, s, T) ==
    [a \in Cells |-> LET to == {i \in T : s[i][1] = a}
                     IN  IF to = {} THEN m[a] ELSE s[Max(to)][2]]

\* A set of numbers up to n has a largest member.
LEMMA Largest ==
    ASSUME NEW n \in Nat, NEW T, T \subseteq 1 .. n, T # {}
    PROVE  Max(T) \in T /\ \A x \in T : Max(T) >= x
<1>1. PICK N : N = {n - x : x \in T}
  OBVIOUS
<1>2. N \subseteq Nat /\ N # {}
  <2>1. \A x \in T : n - x \in Nat
    OBVIOUS
  <2> QED
    BY <1>1, <2>1
<1>3. PICK y \in N : \A z \in N : y <= z
  BY <1>2, Smallest
<1>4. PICK x \in T : y = n - x
  BY <1>1, <1>3
<1>5. \A z \in T : x >= z
  <2> SUFFICES ASSUME NEW z \in T
               PROVE  x >= z
    OBVIOUS
  <2>1. n - x <= n - z
    BY <1>1, <1>3, <1>4
  <2>2. x \in Nat /\ z \in Nat
    OBVIOUS
  <2> QED
    BY <2>1, <2>2
<1>6. \E x_1 \in T : \A z \in T : x_1 >= z
  BY <1>5
<1> QED
  BY <1>6 DEF Max

LEMMA LargestIs ==
    ASSUME NEW n \in Nat, NEW T, T \subseteq 1 .. n, NEW x \in T, \A z \in T : x >= z
    PROVE  Max(T) = x
<1>1. PICK y : y = Max(T)
  OBVIOUS
<1>2. y \in T /\ y >= x /\ x >= y
  BY <1>1, Largest
<1>3. y \in Nat /\ x \in Nat
  BY <1>2
<1> QED
  BY <1>1, <1>2, <1>3

\* The last store of a set comes after the others.
LEMMA LastStore ==
    ASSUME NEW s \in Seq(Store), NEW m \in Memory, NEW T, T \subseteq 1 .. Len(s), T # {},
           NEW x, x = Max(T)
    PROVE  After(m, s, T) = Write(After(m, s, T \ {x}), s[x])
<1>0. PICK n \in Nat : n = Len(s)
  OBVIOUS
<1>1. x \in T /\ \A z \in T : x >= z
  BY <1>0, Largest
<1>2. x \in 1 .. Len(s) /\ s[x] \in Store /\ s[x][1] \in Cells
  BY <1>1 DEF Store
<1>3. ASSUME NEW a \in Cells
      PROVE  After(m, s, T)[a] = IF a = s[x][1] THEN s[x][2] ELSE After(m, s, T \ {x})[a]
  <2>1. PICK to : to = {i \in T : s[i][1] = a}
    OBVIOUS
  <2>2. After(m, s, T)[a] = IF to = {} THEN m[a] ELSE s[Max(to)][2]
    BY <2>1 DEF After
  <2>3. PICK to1 : to1 = {i \in T \ {x} : s[i][1] = a}
    OBVIOUS
  <2>4. After(m, s, T \ {x})[a] = IF to1 = {} THEN m[a] ELSE s[Max(to1)][2]
    BY <2>3 DEF After
  <2>5. CASE a = s[x][1]
    <3>1. x \in to /\ to \subseteq 1 .. n /\ \A z \in to : x >= z
      BY <1>0, <1>1, <2>1, <2>5
    <3>2. Max(to) = x
      BY <3>1, LargestIs
    <3> QED
      BY <2>2, <2>5, <3>1, <3>2
  <2>6. CASE a # s[x][1]
    <3>1. to = to1
      BY <2>1, <2>3, <2>6
    <3> QED
      BY <2>2, <2>4, <2>6, <3>1
  <2> QED
    BY <2>5, <2>6
<1>4. After(m, s, T) = [a \in Cells |-> After(m, s, T)[a]] /\ DOMAIN After(m, s, T \ {x}) = Cells
  BY DEF After
<1> QED
  BY <1>3, <1>4 DEF Write

\* So that is what performing the stores leaves.
LEMMA PerformIs ==
    ASSUME NEW s \in Seq(Store), NEW m \in Memory
    PROVE  Perform(m, s) = After(m, s, 1 .. Len(s))
<1>1. PICK D : D = DOMAIN s /\ D = 1 .. Len(s)
  OBVIOUS
<1> DEFINE Iter(g) == [T \in SUBSET D |->
                         IF T = {} THEN m ELSE Write(g[T \ {Max(T)}], s[Max(T)])]
<1>2. PICK f : f = [T \in SUBSET D |-> After(m, s, T)]
  OBVIOUS
<1>3. f = Iter(f)
  <2>1. ASSUME NEW T \in SUBSET D
        PROVE  f[T] = Iter(f)[T]
    <3>1. CASE T = {}
      BY <1>2, <3>1 DEF After, Memory
    <3>2. CASE T # {}
      <4>1. After(m, s, T) = Write(After(m, s, T \ {Max(T)}), s[Max(T)])
        BY <1>1, <3>2, LastStore
      <4>2. T \ {Max(T)} \in SUBSET D
        OBVIOUS
      <4>3. f[T] = After(m, s, T) /\ f[T \ {Max(T)}] = After(m, s, T \ {Max(T)})
        BY <1>2, <4>2
      <4> QED
        BY <3>2, <4>1, <4>3
    <3> QED
      BY <3>1, <3>2
  <2> QED
    BY <1>2, <2>1
<1>4. Perform(m, s) = (CHOOSE g : g = Iter(g))[D]
  BY <1>1 DEF Perform, FoldLeft, MapThenFoldSet, Write
<1>5. PICK g : g = Iter(g) /\ Perform(m, s) = g[D]
  BY <1>3, <1>4
<1>6. \A k \in 0 .. Len(s) : g[1 .. k] = f[1 .. k]
  <2> SUFFICES ASSUME NEW l \in 0 .. Len(s), g[1 .. l] # f[1 .. l]
               PROVE  FALSE
    OBVIOUS
  <2>1. PICK N : N = {k \in 0 .. Len(s) : g[1 .. k] # f[1 .. k]}
    OBVIOUS
  <2>2. N \subseteq Nat /\ N # {}
    BY <2>1
  <2>3. PICK k \in N : \A x \in N : k <= x
    BY <2>2, Smallest
  <2>4. k \in 0 .. Len(s) /\ g[1 .. k] # f[1 .. k]
    BY <2>1
  <2>5. 1 .. k \in SUBSET D
    BY <1>1, <2>4
  <2>6. g[1 .. k] = Iter(g)[1 .. k] /\ f[1 .. k] = Iter(f)[1 .. k]
    BY <1>3, <1>5
  <2>7. k # 0
    <3>1. k = 0 => 1 .. k = {}
      OBVIOUS
    <3> QED
      BY <2>4, <2>5, <2>6, <3>1
  <2>8. Max(1 .. k) = k /\ (1 .. k) \ {k} = 1 .. (k - 1) /\ 1 .. k # {}
    <3>1. k \in 1 .. k /\ \A z \in 1 .. k : k >= z
      BY <2>4, <2>7
    <3>2. Max(1 .. k) = k
      <4>1. k \in Nat /\ 1 .. k \subseteq 1 .. k
        BY <2>4
      <4> QED
        BY <3>1, <4>1, LargestIs
    <3> QED
      BY <2>4, <3>1, <3>2
  <2>9. g[1 .. (k - 1)] = f[1 .. (k - 1)]
    <3>1. k - 1 \in 0 .. Len(s) /\ k - 1 \notin N
      BY <2>3, <2>4, <2>7
    <3> QED
      BY <2>1, <3>1
  <2>10. Iter(g)[1 .. k] = Iter(f)[1 .. k]
    BY <2>5, <2>8, <2>9
  <2> QED
    BY <2>4, <2>6, <2>10
<1>7. g[D] = f[D]
  BY <1>1, <1>6
<1> QED
  BY <1>1, <1>2, <1>5, <1>7

\* The file keeps its form, and no stores leave it as it is.
LEMMA Performed ==
    ASSUME NEW s \in Seq(Store), NEW m \in Memory
    PROVE  Perform(m, s) \in Memory /\ Perform(m, <<>>) = m
<1>1. PICK n : n = Len(s)
  OBVIOUS
<1>2. n \in Nat /\ \A i \in 1 .. n : s[i] \in Store
  BY <1>1, LenProperties, ElementOfSeq
<1>3. After(m, s, 1 .. n) \in Memory
  <2>1. ASSUME NEW a \in Cells
        PROVE  After(m, s, 1 .. n)[a] \in Word
    <3>1. PICK to : to = {i \in 1 .. n : s[i][1] = a}
      OBVIOUS
    <3>2. After(m, s, 1 .. n)[a] = IF to = {} THEN m[a] ELSE s[Max(to)][2]
      BY <3>1 DEF After
    <3>3. to # {} => Max(to) \in to
      BY <1>2, <3>1, Largest
    <3>4. to # {} => s[Max(to)] \in Store
      BY <1>2, <3>1, <3>3
    <3> QED
      BY <3>2, <3>4 DEF Store, Memory
  <2> QED
    BY <2>1 DEF After, Memory
<1>4. Perform(m, <<>>) = m
  <2>1. PICK e : e = <<>> /\ e \in Seq(Store) /\ Len(e) = 0
    BY EmptySeq
  <2>2. Perform(m, e) = After(m, e, 1 .. Len(e))
    BY <2>1, PerformIs
  <2>3. 1 .. Len(e) = {}
    BY <2>1
  <2>4. After(m, e, {}) = m
    BY DEF After, Memory
  <2> QED
    BY <2>1, <2>2, <2>3, <2>4
<1> QED
  BY <1>1, <1>3, <1>4, PerformIs

\* Stores are performed one by one.
LEMMA OneByOne ==
    ASSUME NEW s \in Seq(Store), NEW x \in Store, NEW m \in Memory
    PROVE  Perform(m, s \o <<x>>) = Write(Perform(m, s), x)
<1>1. PICK n : n = Len(s)
  OBVIOUS
<1>2. PICK u : u = s \o <<x>>
  OBVIOUS
<1>3. /\ n \in Nat /\ u \in Seq(Store) /\ Len(u) = n + 1
      /\ u[n + 1] = x /\ \A i \in 1 .. n : u[i] = s[i] /\ s[i] \in Store
  <2>1. <<x>> \in Seq(Store) /\ Len(<<x>>) = 1 /\ <<x>>[1] = x
    OBVIOUS
  <2>2. n \in Nat /\ \A i \in 1 .. n : s[i] \in Store
    BY <1>1, LenProperties, ElementOfSeq
  <2>3. u \in Seq(Store) /\ Len(u) = Len(s) + Len(<<x>>)
        /\ \A i \in 1 .. Len(s) + Len(<<x>>) : u[i] = IF i <= Len(s) THEN s[i] ELSE <<x>>[i - Len(s)]
    BY <1>2, <2>1, ConcatProperties
  <2> QED
    BY <1>1, <2>1, <2>2, <2>3
<1>4. Max(1 .. n + 1) = n + 1 /\ (1 .. n + 1) \ {n + 1} = 1 .. n /\ 1 .. n + 1 # {}
  <2>1. n + 1 \in Nat /\ n + 1 \in 1 .. n + 1 /\ \A z \in 1 .. n + 1 : n + 1 >= z
    BY <1>3
  <2>2. Max(1 .. n + 1) = n + 1
    BY <2>1, LargestIs
  <2> QED
    BY <1>3, <2>1, <2>2
<1>5. After(m, u, 1 .. n + 1) = Write(After(m, u, 1 .. n), x)
  <2>1. 1 .. n + 1 \subseteq 1 .. Len(u)
    BY <1>3
  <2> QED
    BY <1>3, <1>4, <2>1, LastStore
<1>6. After(m, u, 1 .. n) = After(m, s, 1 .. n)
  <2>1. ASSUME NEW a \in Cells
        PROVE  After(m, u, 1 .. n)[a] = After(m, s, 1 .. n)[a]
    <3>1. PICK to : to = {i \in 1 .. n : s[i][1] = a}
      OBVIOUS
    <3>2. to = {i \in 1 .. n : u[i][1] = a}
      BY <1>3, <3>1
    <3>3. /\ After(m, s, 1 .. n)[a] = IF to = {} THEN m[a] ELSE s[Max(to)][2]
          /\ After(m, u, 1 .. n)[a] = IF to = {} THEN m[a] ELSE u[Max(to)][2]
      BY <3>1, <3>2 DEF After
    <3>4. to # {} => Max(to) \in to
      BY <1>3, <3>1, Largest
    <3>5. to # {} => u[Max(to)] = s[Max(to)]
      BY <1>3, <3>1, <3>4
    <3> QED
      BY <3>3, <3>5
  <2> QED
    BY <2>1 DEF After
<1>7. Perform(m, s) = After(m, s, 1 .. n) /\ Perform(m, u) = After(m, u, 1 .. n + 1)
  BY <1>1, <1>3, PerformIs
<1> QED
  BY <1>2, <1>5, <1>6, <1>7

\* What the file may hold while the stores are performed.
Midway(m, s) == {Perform(m, SubSeq(s, 1, k)) : k \in 0 .. Len(s)}

\* One sequence after the other.
LEMMA OneAfterTheOther ==
    ASSUME NEW s \in Seq(Store), NEW t \in Seq(Store), NEW m \in Memory,
           NEW M, M = Perform(m, s)
    PROVE  /\ M \in Memory
           /\ Perform(m, s \o t) = Perform(M, t)
           /\ Midway(m, s \o t) = Midway(m, s) \cup Midway(M, t)
<1>1. PICK l \in Nat, n \in Nat : l = Len(s) /\ n = Len(t)
  BY LenProperties
<1>2. M \in Memory
  BY Performed
<1>3. PICK g : g = [k \in 0 .. n |-> SubSeq(t, 1, k)]
  OBVIOUS
<1>4. /\ g[0] = <<>> /\ g[n] = t
      /\ \A k \in 0 .. n : g[k] \in Seq(Store) /\ g[k] = SubSeq(t, 1, k)
      /\ \A k \in 1 .. n : g[k] = g[k - 1] \o <<t[k]>> /\ t[k] \in Store
  <2>1. g[0] = <<>>
    BY <1>3, SubSeqEmpty
  <2>2. g[n] = t
    BY <1>1, <1>3, SubSeqFull
  <2>3. \A k \in 1 .. n : t[k] \in Store
    BY <1>1, ElementOfSeq
  <2>4. ASSUME NEW k \in 0 .. n
        PROVE  g[k] \in Seq(Store) /\ g[k] = SubSeq(t, 1, k)
    <3>1. k \in Int /\ \A i \in 1 .. k : t[i] \in Store
      BY <2>3
    <3> QED
      BY <1>3, <3>1, SubSeqProperties
  <2>5. ASSUME NEW k \in 1 .. n
        PROVE  g[k] = g[k - 1] \o <<t[k]>>
    <3>1. 1 \in 1 .. Len(t) /\ k \in 1 .. Len(t) /\ k - 1 \in 0 .. n /\ k \in 0 .. n
      BY <1>1
    <3>2. SubSeq(t, 1, k) = SubSeq(t, 1, k - 1) \o <<t[k]>>
      BY <3>1, SubSeqRecursiveSecond
    <3> QED
      BY <1>3, <3>1, <3>2
  <2> QED
    BY <2>1, <2>2, <2>3, <2>4, <2>5
<1>5. \A k \in 0 .. n : Perform(m, s \o g[k]) = Perform(M, g[k])
  <2> SUFFICES ASSUME NEW j \in 0 .. n, Perform(m, s \o g[j]) # Perform(M, g[j])
               PROVE  FALSE
    OBVIOUS
  <2>1. PICK N : N = {k \in 0 .. n : Perform(m, s \o g[k]) # Perform(M, g[k])}
    OBVIOUS
  <2>2. N \subseteq Nat /\ N # {}
    BY <2>1
  <2>3. PICK k \in N : \A x \in N : k <= x
    BY <2>2, Smallest
  <2>4. k \in 0 .. n /\ Perform(m, s \o g[k]) # Perform(M, g[k])
    BY <2>1
  <2>5. k # 0
    <3>1. Perform(M, <<>>) = M /\ s \o <<>> = s
      BY <1>2, Performed, ConcatEmptySeq
    <3> QED
      BY <1>4, <2>4, <3>1
  <2>6. k - 1 \in 0 .. n /\ k - 1 \notin N /\ k \in 1 .. n
    BY <2>3, <2>4, <2>5
  <2>7. Perform(m, s \o g[k - 1]) = Perform(M, g[k - 1])
    BY <2>1, <2>6
  <2>8. PICK h \in Seq(Store), x \in Store : h = g[k - 1] /\ x = t[k] /\ g[k] = h \o <<x>>
    BY <1>4, <2>6
  <2>9. PICK u \in Seq(Store) : u = s \o h
    BY ConcatProperties
  <2>10. Perform(m, s \o g[k]) = Write(Perform(m, u), x)
    <3>1. <<x>> \in Seq(Store)
      OBVIOUS
    <3>2. (s \o h) \o <<x>> = s \o (h \o <<x>>)
      BY <3>1, ConcatAssociative
    <3>3. Perform(m, u \o <<x>>) = Write(Perform(m, u), x)
      BY OneByOne
    <3> QED
      BY <2>8, <2>9, <3>2, <3>3
  <2>11. Perform(M, g[k]) = Write(Perform(M, h), x)
    BY <1>2, <2>8, OneByOne
  <2> QED
    BY <2>4, <2>7, <2>8, <2>9, <2>10, <2>11
<1>6. Perform(m, s \o t) = Perform(M, t)
  BY <1>4, <1>5
<1>7. Len(s \o t) = l + n
  BY <1>1, ConcatProperties
<1>8. \A k \in 0 .. l : SubSeq(s \o t, 1, k) = SubSeq(s, 1, k)
  <2> SUFFICES ASSUME NEW k \in 0 .. l
               PROVE  SubSeq(s \o t, 1, k) = SubSeq(s, 1, k)
    OBVIOUS
  <2>1. CASE k = 0
    BY <2>1, SubSeqEmpty
  <2>2. CASE k # 0
    <3>1. 1 \in 1 .. Len(s) /\ k \in 1 .. Len(s)
      BY <1>1, <2>2
    <3> QED
      BY <3>1, SubSeqOfConcat1
  <2> QED
    BY <2>1, <2>2
<1>9. \A k \in 0 .. n : SubSeq(s \o t, 1, l + k) = s \o g[k]
  <2> SUFFICES ASSUME NEW k \in 0 .. n
               PROVE  SubSeq(s \o t, 1, l + k) = s \o g[k]
    OBVIOUS
  <2>1. PICK u : u = s \o t /\ u \in Seq(Store) /\ Len(u) = l + n
    BY <1>1, ConcatProperties
  <2>2. SubSeq(u, 1, l) = s
    BY <1>1, <1>8, <2>1, SubSeqFull
  <2>3. CASE k = 0
    BY <1>4, <2>1, <2>2, <2>3, ConcatEmptySeq
  <2>4. CASE k # 0
    <3>1. SubSeq(u, 1, l) \o SubSeq(u, l + 1, l + k) = SubSeq(u, 1, l + k)
      <4>1. 1 \in 1 .. Len(u) + 1 /\ l \in 1 - 1 .. Len(u) /\ l + k \in l .. Len(u)
        BY <2>1
      <4> QED
        BY <2>1, <4>1, ConcatAdjacentSubSeq
    <3>2. SubSeq(u, l + 1, l + k) = SubSeq(t, 1, k)
      <4>1. /\ l + 1 \in Len(s) + 1 .. Len(s) + Len(t) /\ l + k \in Len(s) + 1 .. Len(s) + Len(t)
            /\ (l + 1) - Len(s) = 1 /\ (l + k) - Len(s) = k
        BY <1>1, <2>4
      <4> QED
        BY <2>1, <4>1, SubSeqOfConcat2
    <3> QED
      BY <1>4, <2>1, <2>2, <3>1, <3>2
  <2> QED
    BY <2>3, <2>4
<1>10. ASSUME NEW X
       PROVE  X \in Midway(m, s \o t) <=> X \in Midway(m, s) \cup Midway(M, t)
  <2>1. ASSUME NEW k \in 0 .. l + n, X = Perform(m, SubSeq(s \o t, 1, k))
        PROVE  X \in Midway(m, s) \cup Midway(M, t)
    <3>1. CASE k <= l
      <4>1. k \in 0 .. l
        BY <3>1
      <4>2. X = Perform(m, SubSeq(s, 1, k))
        BY <1>8, <2>1, <4>1
      <4> QED
        BY <1>1, <4>1, <4>2 DEF Midway
    <3>2. CASE ~ (k <= l)
      <4>1. PICK j \in 0 .. n : k = l + j
        <5>1. k - l \in 0 .. n /\ k = l + (k - l)
          BY <2>1, <3>2
        <5> QED
          BY <5>1
      <4>2. X = Perform(M, SubSeq(t, 1, j))
        BY <1>4, <1>5, <1>9, <2>1, <4>1
      <4> QED
        BY <1>1, <4>2 DEF Midway
    <3> QED
      BY <3>1, <3>2
  <2>2. ASSUME NEW k \in 0 .. l, X = Perform(m, SubSeq(s, 1, k))
        PROVE  X \in Midway(m, s \o t)
    <3>1. k \in 0 .. l + n
      OBVIOUS
    <3>2. X = Perform(m, SubSeq(s \o t, 1, k))
      BY <1>8, <2>2
    <3> QED
      BY <1>7, <3>1, <3>2 DEF Midway
  <2>3. ASSUME NEW j \in 0 .. n, X = Perform(M, SubSeq(t, 1, j))
        PROVE  X \in Midway(m, s \o t)
    <3>1. l + j \in 0 .. l + n
      OBVIOUS
    <3>2. X = Perform(m, SubSeq(s \o t, 1, l + j))
      BY <1>4, <1>5, <1>9, <2>3
    <3> QED
      BY <1>7, <3>1, <3>2 DEF Midway
  <2> QED
    BY <1>1, <1>7, <2>1, <2>2, <2>3 DEF Midway
<1> QED
  BY <1>2, <1>6, <1>10

\* A store that is made if there is a block at c, and what it leaves.
If(c, x) == IF c # NULL_OFFSET THEN <<x>> ELSE <<>>
WriteIf(c, m, x) == IF c # NULL_OFFSET THEN Write(m, x) ELSE m

LEMMA AtMostOne ==
    ASSUME NEW m \in Memory, NEW x \in Store, NEW c,
           NEW s, s = If(c, x), NEW M, M = WriteIf(c, m, x)
    PROVE  s \in Seq(Store) /\ M \in Memory /\ Perform(m, s) = M /\ Midway(m, s) = {m, M}
<1>1. Perform(m, <<>>) = m
  <2>1. <<>> \in Seq(Store)
    BY EmptySeq
  <2> QED
    BY <2>1, Performed
<1>2. CASE c # NULL_OFFSET
  <2>1. PICK u : u = <<x>> /\ u \in Seq(Store) /\ Len(u) = 1
    <3>1. <<x>> \in Seq(Store) /\ Len(<<x>>) = 1
      OBVIOUS
    <3> QED
      BY <3>1
  <2>2. Perform(m, <<>> \o <<x>>) = Write(Perform(m, <<>>), x)
    <3>1. <<>> \in Seq(Store)
      BY EmptySeq
    <3> QED
      BY <3>1, OneByOne
  <2>3. <<>> \o <<x>> = u
    BY <2>1, ConcatEmptySeq
  <2>4. Perform(m, u) = M /\ M \in Memory
    <3>1. Perform(m, u) \in Memory
      BY <2>1, Performed
    <3>2. Perform(m, u) = Write(m, x)
      BY <1>1, <2>2, <2>3
    <3> QED
      BY <1>2, <3>1, <3>2 DEF WriteIf
  <2>5. SubSeq(u, 1, 0) = <<>> /\ SubSeq(u, 1, 1) = u
    <3>1. SubSeq(u, 1, 0) = <<>>
      BY SubSeqEmpty
    <3>2. SubSeq(u, 1, Len(u)) = u
      BY <2>1, SubSeqFull
    <3> QED
      BY <2>1, <3>1, <3>2
  <2>6. \A k \in 0 .. Len(u) : k = 0 \/ k = 1
    BY <2>1
  <2>7. 0 \in 0 .. Len(u) /\ 1 \in 0 .. Len(u)
    BY <2>1
  <2>8. Midway(m, u) = {Perform(m, SubSeq(u, 1, 0)), Perform(m, SubSeq(u, 1, 1))}
    BY <2>6, <2>7 DEF Midway
  <2>9. s = u
    BY <1>2, <2>1 DEF If
  <2> QED
    BY <1>1, <2>1, <2>4, <2>5, <2>8, <2>9
<1>3. CASE c = NULL_OFFSET
  <2>1. PICK e : e = <<>> /\ e \in Seq(Store) /\ Len(e) = 0
    BY EmptySeq
  <2>2. s = e /\ M = m
    BY <1>3, <2>1 DEF If, WriteIf
  <2>3. SubSeq(e, 1, 0) = e
    BY <2>1, SubSeqEmpty
  <2>4. \A k \in 0 .. Len(e) : k = 0
    BY <2>1
  <2>5. 0 \in 0 .. Len(e)
    BY <2>1
  <2>6. Midway(m, e) = {Perform(m, SubSeq(e, 1, 0))}
    BY <2>4, <2>5 DEF Midway
  <2> QED
    BY <1>1, <2>1, <2>2, <2>3, <2>6
<1> QED
  BY <1>2, <1>3

\* The stores s, performed on m, leave M, and one of X if they are cut short.
Leaves(m, s, M, X) ==
    /\ s \in Seq(Store) /\ M \in Memory
    /\ Perform(m, s) = M /\ Midway(m, s) = X /\ M \in X

\* One more store, or none, after others.
LEMMA OneMore ==
    ASSUME NEW m \in Memory, NEW u, NEW L, NEW X, Leaves(m, u, L, X), NEW x \in Store, NEW c,
           NEW s, s = u \o If(c, x), NEW M, M = WriteIf(c, L, x)
    PROVE  Leaves(m, s, M, X \cup {M})
<1>1. u \in Seq(Store) /\ L \in Memory /\ Perform(m, u) = L /\ Midway(m, u) = X /\ L \in X
  BY DEF Leaves
<1>2. PICK w : w = If(c, x)
  OBVIOUS
<1>3. w \in Seq(Store) /\ M \in Memory /\ Perform(L, w) = M /\ Midway(L, w) = {L, M}
  BY <1>1, <1>2, AtMostOne
<1>4. /\ Perform(m, u \o w) = Perform(L, w)
      /\ Midway(m, u \o w) = Midway(m, u) \cup Midway(L, w)
  BY <1>1, <1>3, OneAfterTheOther
<1>5. u \o w \in Seq(Store)
  BY <1>1, <1>3, ConcatProperties
<1>6. X \cup {L, M} = X \cup {M}
  BY <1>1
<1> QED
  BY <1>1, <1>2, <1>3, <1>4, <1>5, <1>6 DEF Leaves

\* Four stores, any of which may be left out.
Four(c1, x1, c2, x2, c3, x3, c4, x4) ==
    ((If(c1, x1) \o If(c2, x2)) \o If(c3, x3)) \o If(c4, x4)

FourWrites(m, c1, x1, m1, c2, x2, m2, c3, x3, m3, c4, x4, m4) ==
    /\ m1 = WriteIf(c1, m, x1) /\ m2 = WriteIf(c2, m1, x2)
    /\ m3 = WriteIf(c3, m2, x3) /\ m4 = WriteIf(c4, m3, x4)

LEMMA FourStores ==
    ASSUME NEW m \in Memory,
           NEW x1 \in Store, NEW x2 \in Store, NEW x3 \in Store, NEW x4 \in Store,
           NEW c1, NEW c2, NEW c3, NEW c4, NEW m1, NEW m2, NEW m3, NEW m4,
           FourWrites(m, c1, x1, m1, c2, x2, m2, c3, x3, m3, c4, x4, m4)
    PROVE  Leaves(m, Four(c1, x1, c2, x2, c3, x3, c4, x4), m4, {m, m1, m2, m3, m4})
<1>0. /\ m1 = WriteIf(c1, m, x1) /\ m2 = WriteIf(c2, m1, x2)
      /\ m3 = WriteIf(c3, m2, x3) /\ m4 = WriteIf(c4, m3, x4)
  BY DEF FourWrites
<1>1. PICK s1 : s1 = If(c1, x1)
  OBVIOUS
<1>2. PICK s2 : s2 = s1 \o If(c2, x2)
  OBVIOUS
<1>3. PICK s3 : s3 = s2 \o If(c3, x3)
  OBVIOUS
<1>4. Leaves(m, s1, m1, {m, m1})
  BY <1>0, <1>1, AtMostOne DEF Leaves
<1>5. Leaves(m, s2, m2, {m, m1} \cup {m2})
  BY <1>0, <1>2, <1>4, OneMore
<1>6. Leaves(m, s3, m3, ({m, m1} \cup {m2}) \cup {m3})
  BY <1>0, <1>3, <1>5, OneMore
<1>7. PICK s : s = s3 \o If(c4, x4)
  OBVIOUS
<1>8. Leaves(m, s, m4, (({m, m1} \cup {m2}) \cup {m3}) \cup {m4})
  BY <1>0, <1>6, <1>7, OneMore
<1>9. {m, m1, m2, m3, m4} = (({m, m1} \cup {m2}) \cup {m3}) \cup {m4}
  OBVIOUS
<1>10. s = Four(c1, x1, c2, x2, c3, x3, c4, x4)
  BY <1>1, <1>2, <1>3, <1>7 DEF Four
<1> QED
  BY <1>8, <1>9, <1>10

\* A sequence of stores after another.
LEMMA InTurn ==
    ASSUME NEW m \in Memory, NEW s, NEW M, NEW X, Leaves(m, s, M, X),
           NEW t, NEW N, NEW Y, Leaves(M, t, N, Y)
    PROVE  Leaves(m, s \o t, N, X \cup Y)
<1>1. s \in Seq(Store) /\ t \in Seq(Store)
  BY DEF Leaves
<1>2. M = Perform(m, s) /\ N = Perform(M, t) /\ N \in Memory /\ N \in Y
      /\ Midway(m, s) = X /\ Midway(M, t) = Y
  BY DEF Leaves
<1>3. Perform(m, s \o t) = Perform(M, t) /\ Midway(m, s \o t) = Midway(m, s) \cup Midway(M, t)
  BY <1>1, <1>2, OneAfterTheOther
<1>4. s \o t \in Seq(Store)
  BY <1>1, ConcatProperties
<1> QED
  BY <1>2, <1>3, <1>4 DEF Leaves

\* Sequences of two and three, store by store.
LEMMA TwoMore ==
    ASSUME NEW u \in Seq(Store), NEW x \in Store, NEW y \in Store
    PROVE  u \o <<x, y>> = (u \o <<x>>) \o <<y>>
<1>1. <<x>> \in Seq(Store) /\ <<y>> \in Seq(Store)
  OBVIOUS
<1>2. <<x, y>> = <<x>> \o <<y>>
  <2>1. <<x>> \o <<y>> \in Seq(Store) /\ <<x, y>> \in Seq(Store)
    BY <1>1, ConcatProperties
  <2>2. Len(<<x>> \o <<y>>) = 2 /\ (<<x>> \o <<y>>)[1] = x /\ (<<x>> \o <<y>>)[2] = y
    OBVIOUS
  <2>3. Len(<<x, y>>) = 2 /\ <<x, y>>[1] = x /\ <<x, y>>[2] = y
    OBVIOUS
  <2>4. \A i \in 1 .. 2 : i = 1 \/ i = 2
    OBVIOUS
  <2>5. \A i \in 1 .. 2 : <<x, y>>[i] = (<<x>> \o <<y>>)[i]
    BY <2>2, <2>3, <2>4
  <2> QED
    BY <2>1, <2>2, <2>3, <2>5, SeqEqual
<1>3. (u \o <<x>>) \o <<y>> = u \o (<<x>> \o <<y>>)
  BY <1>1, ConcatAssociative
<1> QED
  BY <1>2, <1>3

LEMMA ThreeMore ==
    ASSUME NEW u \in Seq(Store), NEW x \in Store, NEW y \in Store, NEW z \in Store
    PROVE  u \o <<x, y, z>> = ((u \o <<x>>) \o <<y>>) \o <<z>>
<1>1. <<x>> \in Seq(Store) /\ <<y, z>> \in Seq(Store) /\ <<x, y, z>> = <<x>> \o <<y, z>>
  OBVIOUS
<1>2. u \o <<x>> \in Seq(Store)
  BY <1>1, ConcatProperties
<1>3. u \o <<x, y, z>> = (u \o <<x>>) \o <<y, z>>
  BY <1>1, ConcatAssociative
<1> QED
  BY <1>2, <1>3, TwoMore

----------------------------------------------------------------------------
(* The stores of the operations on a list.                                 *)

\* Only the head and the links forward make a list that is followed forward.
LEMMA ForwardFrame ==
    ASSUME NEW S, NEW m, NEW M, NEW r, NEW head, Forward(m, head, S, r),
           M[head] = m[head], \A f \in S : M[NextOf(f)] = m[NextOf(f)]
    PROVE  Forward(M, head, S, r)
  BY DEF Forward

\* M is m but for the list at head and the links of the blocks S.
OnlyLinks(m, M, head, S) ==
    M \in Memory /\ \A a \in Cells : a # head /\ a \notin Links(S) => M[a] = m[a]

\* What each of the memories X is when the stores of a list operation are cut short:
\* a list of S or of T, and nothing else has changed.
Either(m, X, head, S, T, r) ==
    \A M \in X : OnlyLinks(m, M, head, S \cup T) /\ (Forward(M, head, S, r) \/ Forward(M, head, T, r))

\* A store into the head or a link.
LinkWrite(L, M, c, a, w) == M = WriteIf(c, L, <<a, w>>)
Differ(L, M, c, a, w) ==
    \A k \in Cells : M[k] = IF c # NULL_OFFSET /\ k = a THEN w ELSE L[k]

LEMMA LinkStore ==
    ASSUME NEW m \in Memory, NEW L, NEW head \in Cells, NEW S, Links(S) \subseteq Cells,
           OnlyLinks(m, L, head, S), NEW c, NEW a, c # NULL_OFFSET => a \in Links(S) \cup {head},
           NEW w \in Word, NEW M, LinkWrite(L, M, c, a, w)
    PROVE  OnlyLinks(m, M, head, S) /\ Differ(L, M, c, a, w)
<1>1. L \in Memory
  BY DEF OnlyLinks
<1>2. CASE c = NULL_OFFSET
  BY <1>2 DEF WriteIf, LinkWrite, Differ
<1>3. CASE c # NULL_OFFSET
  <2>1. M = [L EXCEPT ![a] = w] /\ a \in Cells
    BY <1>3 DEF WriteIf, Write, LinkWrite
  <2>2. M \in Memory /\ \A k \in Cells : M[k] = IF k = a THEN w ELSE L[k]
    BY <1>1, <2>1 DEF Memory
  <2> QED
    BY <1>3, <2>2 DEF OnlyLinks, Differ
<1> QED
  BY <1>2, <1>3

\* Four such stores: the i-th writes w[i] into the cell a[i] if there is a block at c[i].
FourLinks(c, a, w) ==
    Four(c[1], <<a[1], w[1]>>, c[2], <<a[2], w[2]>>, c[3], <<a[3], w[3]>>, c[4], <<a[4], w[4]>>)

StoreByStore(m, head, S, c, a, w, m1, m2, m3, m4) ==
    /\ Leaves(m, FourLinks(c, a, w), m4, {m, m1, m2, m3, m4})
    /\ OnlyLinks(m, m1, head, S) /\ Differ(m, m1, c[1], a[1], w[1])
    /\ OnlyLinks(m, m2, head, S) /\ Differ(m1, m2, c[2], a[2], w[2])
    /\ OnlyLinks(m, m3, head, S) /\ Differ(m2, m3, c[3], a[3], w[3])
    /\ OnlyLinks(m, m4, head, S) /\ Differ(m3, m4, c[4], a[4], w[4])

LEMMA FourLinkStores ==
    ASSUME NEW m \in Memory, NEW head \in Cells, NEW S, Links(S) \subseteq Cells,
           NEW c, NEW a, NEW w,
           \A i \in 1 .. 4 : /\ a[i] \in Cells /\ w[i] \in Word
                             /\ c[i] # NULL_OFFSET => a[i] \in Links(S) \cup {head}
    PROVE  \E m1, m2, m3, m4 : StoreByStore(m, head, S, c, a, w, m1, m2, m3, m4)
<1>1. PICK x1 \in Store, x2 \in Store, x3 \in Store, x4 \in Store :
        x1 = <<a[1], w[1]>> /\ x2 = <<a[2], w[2]>> /\ x3 = <<a[3], w[3]>> /\ x4 = <<a[4], w[4]>>
  <2>1. \A i \in 1 .. 4 : <<a[i], w[i]>> \in Store
    BY DEF Store
  <2>2. 1 \in 1 .. 4 /\ 2 \in 1 .. 4 /\ 3 \in 1 .. 4 /\ 4 \in 1 .. 4
    OBVIOUS
  <2> QED
    BY <2>1, <2>2
<1>2. PICK m1 : m1 = WriteIf(c[1], m, x1)
  OBVIOUS
<1>3. PICK m2 : m2 = WriteIf(c[2], m1, x2)
  OBVIOUS
<1>4. PICK m3 : m3 = WriteIf(c[3], m2, x3)
  OBVIOUS
<1>5. PICK m4 : m4 = WriteIf(c[4], m3, x4)
  OBVIOUS
<1>6. Leaves(m, FourLinks(c, a, w), m4, {m, m1, m2, m3, m4})
  <2>1. FourWrites(m, c[1], x1, m1, c[2], x2, m2, c[3], x3, m3, c[4], x4, m4)
    BY <1>2, <1>3, <1>4, <1>5 DEF FourWrites
  <2>2. Leaves(m, Four(c[1], x1, c[2], x2, c[3], x3, c[4], x4), m4, {m, m1, m2, m3, m4})
    BY <2>1, FourStores
  <2> QED
    BY <1>1, <2>2 DEF FourLinks
<1>7. OnlyLinks(m, m, head, S)
  BY DEF OnlyLinks
<1>8. ASSUME NEW i \in 1 .. 4, NEW L, OnlyLinks(m, L, head, S),
             NEW M, M = WriteIf(c[i], L, <<a[i], w[i]>>)
      PROVE  OnlyLinks(m, M, head, S) /\ Differ(L, M, c[i], a[i], w[i])
  <2>1. c[i] # NULL_OFFSET => a[i] \in Links(S) \cup {head}
    OBVIOUS
  <2>2. w[i] \in Word
    OBVIOUS
  <2>3. LinkWrite(L, M, c[i], a[i], w[i])
    BY <1>8 DEF LinkWrite
  <2> QED
    BY <1>8, <2>1, <2>2, <2>3, LinkStore
<1>9. OnlyLinks(m, m1, head, S) /\ Differ(m, m1, c[1], a[1], w[1])
  <2>1. 1 \in 1 .. 4 /\ m1 = WriteIf(c[1], m, <<a[1], w[1]>>)
    BY <1>1, <1>2
  <2> QED
    BY <1>7, <1>8, <2>1
<1>10. OnlyLinks(m, m2, head, S) /\ Differ(m1, m2, c[2], a[2], w[2])
  <2>1. 2 \in 1 .. 4 /\ m2 = WriteIf(c[2], m1, <<a[2], w[2]>>)
    BY <1>1, <1>3
  <2> QED
    BY <1>9, <1>8, <2>1
<1>11. OnlyLinks(m, m3, head, S) /\ Differ(m2, m3, c[3], a[3], w[3])
  <2>1. 3 \in 1 .. 4 /\ m3 = WriteIf(c[3], m2, <<a[3], w[3]>>)
    BY <1>1, <1>4
  <2> QED
    BY <1>10, <1>8, <2>1
<1>12. OnlyLinks(m, m4, head, S) /\ Differ(m3, m4, c[4], a[4], w[4])
  <2>1. 4 \in 1 .. 4 /\ m4 = WriteIf(c[4], m3, <<a[4], w[4]>>)
    BY <1>1, <1>5
  <2> QED
    BY <1>11, <1>8, <2>1
<1> QED
  BY <1>6, <1>9, <1>10, <1>11, <1>12 DEF StoreByStore

\* The head and the links of a list are different cells.
LEMMA ListCells ==
    ASSUME NEW S, Apart(S), NEW head \in Heads
    PROVE  /\ Links(S) \subseteq Cells /\ head \notin Links(S)
           /\ \A f \in S : f \in Links(S) /\ NextOf(f) \in Links(S) /\ f # head /\ NextOf(f) # head
           /\ \A f, g \in S : NextOf(f) # g /\ (f # g => NextOf(f) # NextOf(g))
<1>1. /\ \A f \in S : /\ f \in Nat /\ f >= 2 /\ PrevOf(f) = f /\ NextOf(f) = f + 1
                      /\ f \in Cells /\ f + 1 \in Cells
      /\ \A f, g \in S : f # g => {f, f + 1, f + 2} \cap {g, g + 1, g + 2} = {}
  BY HeaderCells DEF Heads
<1>2. \A f, g \in S : f + 1 # g
  <2> SUFFICES ASSUME NEW f \in S, NEW g \in S
               PROVE  f + 1 # g
    OBVIOUS
  <2>1. CASE f = g
    BY <1>1, <2>1
  <2>2. CASE f # g
    BY <1>1, <2>2
  <2> QED
    BY <2>1, <2>2
<1>3. \A f, g \in S : f # g => f + 1 # g + 1
  BY <1>1
<1>4. head = 0 \/ head = 1
  BY DEF Heads, FREE_LIST, USED_LIST
<1> QED
  BY <1>1, <1>2, <1>3, <1>4 DEF Links

\* remove_block_from_list(): the first store takes the block out.
LEMMA TornUnlink ==
    ASSUME NEW S, Apart(S), NEW m \in Memory, NEW head \in Heads, NEW r,
           Linked(m, head, S, r), NEW b \in S
    PROVE  \E X : /\ Leaves(m, UnlinkStores(m, head, b), Unlink(m, head, b), X)
                  /\ Either(m, X, head, S, S \ {b}, r)
<1>1. /\ \A f \in S : /\ f \in Nat /\ f >= 2 /\ PrevOf(f) = f /\ NextOf(f) = f + 1
                      /\ f \in Cells /\ f + 1 \in Cells
      /\ \A f, g \in S : f # g => {f, f + 1, f + 2} \cap {g, g + 1, g + 2} = {}
      /\ head \in Cells /\ FREE_LIST \in Cells
  BY HeaderCells DEF Heads
<1>2. NULL_OFFSET \notin S /\ b # NULL_OFFSET
  BY <1>1 DEF NULL_OFFSET
<1>3. PICK p : p = m[PrevOf(b)]
  OBVIOUS
<1>4. PICK n : n = m[NextOf(b)]
  OBVIOUS
<1>5. (p # NULL_OFFSET => p \in S \ {b}) /\ (n # NULL_OFFSET => n \in S \ {b})
  BY <1>2, <1>3, <1>4, Neighbours
<1>6. p \in Word /\ n \in Word /\ NULL_OFFSET \in Word
  BY <1>1, <1>3, <1>4, WordsAreNumbers DEF Memory
<1>7. /\ Links(S) \subseteq Cells /\ head \notin Links(S)
      /\ \A f \in S : f \in Links(S) /\ NextOf(f) \in Links(S) /\ f # head /\ NextOf(f) # head
      /\ \A f \in S \ {b} : \A g \in S : NextOf(f) # g /\ NextOf(f) # NextOf(b)
  BY ListCells
<1>8. PICK a1 : a1 = IF p # NULL_OFFSET THEN NextOf(p) ELSE head
  OBVIOUS
<1>9. a1 \in Links(S) \cup {head} /\ a1 \in Cells /\ a1 # b /\ a1 # NextOf(b)
  BY <1>5, <1>7, <1>8, <1>1
<1>10. PICK a2 : a2 = PrevOf(n)
  OBVIOUS
<1>11. /\ a2 \in Cells
       /\ n # NULL_OFFSET => a2 = n /\ a2 \in Links(S)
  BY <1>1, <1>5, <1>7, <1>10 DEF PrevOf, NULL_OFFSET, FREE_LIST
<1>12. PICK st : st = UnlinkStores(m, head, b)
  OBVIOUS
<1>13. PICK c, a, w : c = <<b, n, b, b>> /\ a = <<a1, a2, b, NextOf(b)>>
                      /\ w = <<n, p, NULL_OFFSET, NULL_OFFSET>>
  OBVIOUS
<1>14. st = FourLinks(c, a, w)
  <2>1. PICK x1 \in Store, x2 \in Store, x3 \in Store, x4 \in Store :
          /\ x1 = <<a1, n>> /\ x2 = <<a2, p>>
          /\ x3 = <<b, NULL_OFFSET>> /\ x4 = <<NextOf(b), NULL_OFFSET>>
    BY <1>1, <1>6, <1>7, <1>9, <1>11 DEF Store
  <2>2. PICK u : u = If(b, x1) \o If(n, x2)
    OBVIOUS
  <2>3. st = u \o <<x3, x4>>
    BY <1>1, <1>2, <1>3, <1>4, <1>8, <1>10, <1>12, <2>1, <2>2 DEF UnlinkStores, If
  <2>4. u \in Seq(Store)
    BY <1>2, <2>2 DEF If
  <2>5. st = (u \o <<x3>>) \o <<x4>>
    BY <2>3, <2>4, TwoMore
  <2>6. <<x3>> = If(b, x3) /\ <<x4>> = If(b, x4)
    BY <1>2 DEF If
  <2>7. st = Four(b, x1, n, x2, b, x3, b, x4)
    BY <2>2, <2>5, <2>6 DEF Four
  <2> QED
    BY <1>13, <2>1, <2>7 DEF FourLinks
<1>15. PICK m1, m2, m3, m4 : StoreByStore(m, head, S, c, a, w, m1, m2, m3, m4)
  <2>1. \A i \in 1 .. 4 : /\ a[i] \in Cells /\ w[i] \in Word
                          /\ c[i] # NULL_OFFSET => a[i] \in Links(S) \cup {head}
    <3>1. \A i \in 1 .. 4 : i = 1 \/ i = 2 \/ i = 3 \/ i = 4
      OBVIOUS
    <3>2. a[1] \in Cells /\ w[1] \in Word /\ a[1] \in Links(S) \cup {head}
      BY <1>6, <1>9, <1>13
    <3>3. a[2] \in Cells /\ w[2] \in Word /\ (c[2] # NULL_OFFSET => a[2] \in Links(S))
      BY <1>6, <1>11, <1>13
    <3>4. a[3] \in Cells /\ w[3] \in Word /\ a[3] \in Links(S)
      BY <1>1, <1>6, <1>7, <1>13
    <3>5. a[4] \in Cells /\ w[4] \in Word /\ a[4] \in Links(S)
      BY <1>1, <1>6, <1>7, <1>13
    <3> QED
      BY <3>1, <3>2, <3>3, <3>4, <3>5
  <2>2. head \in Cells /\ Links(S) \subseteq Cells
    BY <1>1, <1>7
  <2> QED
    BY <2>1, <2>2, FourLinkStores
<1>16. /\ Leaves(m, st, m4, {m, m1, m2, m3, m4})
       /\ OnlyLinks(m, m1, head, S) /\ OnlyLinks(m, m2, head, S)
       /\ OnlyLinks(m, m3, head, S) /\ OnlyLinks(m, m4, head, S)
  BY <1>14, <1>15 DEF StoreByStore
<1>17. /\ \A k \in Cells : m1[k] = IF k = a1 THEN n ELSE m[k]
       /\ \A k \in Cells : m2[k] = IF n # NULL_OFFSET /\ k = a2 THEN p ELSE m1[k]
       /\ \A k \in Cells : m3[k] = IF k = b THEN NULL_OFFSET ELSE m2[k]
       /\ \A k \in Cells : m4[k] = IF k = NextOf(b) THEN NULL_OFFSET ELSE m3[k]
  <2>1. /\ Differ(m, m1, b, a1, n) /\ Differ(m1, m2, n, a2, p)
        /\ Differ(m2, m3, b, b, NULL_OFFSET) /\ Differ(m3, m4, b, NextOf(b), NULL_OFFSET)
    BY <1>13, <1>15 DEF StoreByStore
  <2> QED
    BY <1>2, <2>1 DEF Differ
<1>18. m4 = Unlink(m, head, b)
  <2>1. PICK M : M = Unlink(m, head, b)
    OBVIOUS
  <2>2. M = [m EXCEPT ![a1] = n, ![IF n # NULL_OFFSET THEN PrevOf(n) ELSE PrevOf(b)] = p,
                      ![b] = NULL_OFFSET, ![NextOf(b)] = NULL_OFFSET]
    BY <1>1, <1>3, <1>4, <1>8, <2>1 DEF Unlink
  <2>3. M = [k \in Cells |-> IF k = NextOf(b) \/ k = b THEN NULL_OFFSET
                             ELSE IF n # NULL_OFFSET /\ k = a2 THEN p
                             ELSE IF k = a1 THEN n ELSE m[k]]
    BY <1>1, <1>10, <2>2 DEF Memory
  <2>4. \A k \in Cells : M[k] = m4[k]
    BY <1>17, <2>3
  <2>5. M = [k \in Cells |-> M[k]] /\ m4 = [k \in Cells |-> m4[k]]
    BY <1>16, <2>3 DEF OnlyLinks, Memory
  <2> QED
    BY <2>1, <2>4, <2>5
<1>19. Forward(m, head, S, r) /\ Forward(m4, head, S \ {b}, r)
  BY <1>18, UnlinkKeepsList, LinkedForward
<1>20. /\ m1[head] = m4[head] /\ m2[head] = m4[head] /\ m3[head] = m4[head]
       /\ \A f \in S \ {b} : LET k == NextOf(f) IN m1[k] = m4[k] /\ m2[k] = m4[k] /\ m3[k] = m4[k]
  BY <1>1, <1>5, <1>7, <1>11, <1>17
<1>21. Forward(m1, head, S \ {b}, r) /\ Forward(m2, head, S \ {b}, r) /\ Forward(m3, head, S \ {b}, r)
  BY <1>19, <1>20, ForwardFrame
<1>22. OnlyLinks(m, m, head, S)
  BY DEF OnlyLinks
<1>23. Either(m, {m, m1, m2, m3, m4}, head, S, S \ {b}, r)
  <2>1. S \cup (S \ {b}) = S
    OBVIOUS
  <2> QED
    BY <1>16, <1>19, <1>21, <1>22, <2>1 DEF Either
<1> QED
  BY <1>12, <1>16, <1>18, <1>23

\* insert_block_to_used_list(): the last store puts the block in.
LEMMA TornPush ==
    ASSUME NEW S, NEW b, b \notin S, NEW T, T = S \cup {b}, Apart(T), NEW m \in Memory,
           NEW r, Linked(m, USED_LIST, S, r), Ranks(T, r), \A g \in S : r[b] < r[g]
    PROVE  \E X : /\ Leaves(m, PushUsedStores(m, b), PushUsed(m, b), X)
                  /\ Either(m, X, USED_LIST, S, T, r)
<1>1. /\ \A f \in T : /\ f \in Nat /\ f >= 2 /\ PrevOf(f) = f /\ NextOf(f) = f + 1
                      /\ f \in Cells /\ f + 1 \in Cells /\ f \in Offsets
      /\ USED_LIST \in Cells /\ FREE_LIST \in Cells /\ USED_LIST \in Heads
  BY HeaderCells DEF Heads, Apart
<1>2. b \in T /\ b # NULL_OFFSET
  BY <1>1 DEF NULL_OFFSET
<1>3. PICK n : n = m[USED_LIST]
  OBVIOUS
<1>4. n # NULL_OFFSET => n \in S
  BY <1>3 DEF Linked, IsFirst
<1>5. b \in Word /\ n \in Word /\ NULL_OFFSET \in Word
  BY <1>1, <1>2, <1>3, WordsAreNumbers DEF Memory
<1>6. /\ Links(T) \subseteq Cells /\ USED_LIST \notin Links(T)
      /\ \A f \in T : f \in Links(T) /\ NextOf(f) \in Links(T) /\ f # USED_LIST /\ NextOf(f) # USED_LIST
      /\ \A f, g \in T : NextOf(f) # g /\ (f # g => NextOf(f) # NextOf(g))
  <2>1. USED_LIST \in Heads
    BY <1>1
  <2> QED
    BY <2>1, ListCells
<1>7. PICK a1 : a1 = PrevOf(n)
  OBVIOUS
<1>8. /\ a1 \in Cells
      /\ n # NULL_OFFSET => a1 = n /\ a1 \in Links(T)
  BY <1>1, <1>4, <1>6, <1>7 DEF PrevOf, NULL_OFFSET, FREE_LIST
<1>9. PICK st : st = PushUsedStores(m, b)
  OBVIOUS
<1>10. PICK c, a, w : c = <<n, b, b, b>> /\ a = <<a1, b, NextOf(b), USED_LIST>>
                      /\ w = <<b, NULL_OFFSET, n, b>>
  OBVIOUS
<1>11. st = FourLinks(c, a, w)
  <2>1. PICK x1 \in Store, x2 \in Store, x3 \in Store, x4 \in Store :
          /\ x1 = <<a1, b>> /\ x2 = <<b, NULL_OFFSET>>
          /\ x3 = <<NextOf(b), n>> /\ x4 = <<USED_LIST, b>>
    BY <1>1, <1>2, <1>5, <1>8 DEF Store
  <2>2. PICK u : u = If(n, x1)
    OBVIOUS
  <2>3. st = u \o <<x2, x3, x4>>
    BY <1>1, <1>2, <1>3, <1>7, <1>9, <2>1, <2>2 DEF PushUsedStores, If
  <2>4. u \in Seq(Store)
    BY <2>2 DEF If
  <2>5. st = ((u \o <<x2>>) \o <<x3>>) \o <<x4>>
    BY <2>3, <2>4, ThreeMore
  <2>6. <<x2>> = If(b, x2) /\ <<x3>> = If(b, x3) /\ <<x4>> = If(b, x4)
    BY <1>2 DEF If
  <2>7. st = Four(n, x1, b, x2, b, x3, b, x4)
    BY <2>2, <2>5, <2>6 DEF Four
  <2> QED
    BY <1>10, <2>1, <2>7 DEF FourLinks
<1>12. PICK m1, m2, m3, m4 : StoreByStore(m, USED_LIST, T, c, a, w, m1, m2, m3, m4)
  <2>1. \A i \in 1 .. 4 : /\ a[i] \in Cells /\ w[i] \in Word
                          /\ c[i] # NULL_OFFSET => a[i] \in Links(T) \cup {USED_LIST}
    <3>1. \A i \in 1 .. 4 : i = 1 \/ i = 2 \/ i = 3 \/ i = 4
      OBVIOUS
    <3>2. a[1] \in Cells /\ w[1] \in Word /\ (c[1] # NULL_OFFSET => a[1] \in Links(T))
      BY <1>5, <1>8, <1>10
    <3>3. a[2] \in Cells /\ w[2] \in Word /\ a[2] \in Links(T)
      BY <1>1, <1>2, <1>5, <1>6, <1>10
    <3>4. a[3] \in Cells /\ w[3] \in Word /\ a[3] \in Links(T)
      BY <1>1, <1>2, <1>5, <1>6, <1>10
    <3>5. a[4] \in Cells /\ w[4] \in Word /\ a[4] = USED_LIST
      BY <1>1, <1>5, <1>10
    <3> QED
      BY <3>1, <3>2, <3>3, <3>4, <3>5
  <2> QED
    BY <1>1, <1>6, <2>1, FourLinkStores
<1>13. /\ Leaves(m, st, m4, {m, m1, m2, m3, m4})
       /\ OnlyLinks(m, m1, USED_LIST, T) /\ OnlyLinks(m, m2, USED_LIST, T)
       /\ OnlyLinks(m, m3, USED_LIST, T) /\ OnlyLinks(m, m4, USED_LIST, T)
  BY <1>11, <1>12 DEF StoreByStore
<1>14. /\ \A k \in Cells : m1[k] = IF n # NULL_OFFSET /\ k = a1 THEN b ELSE m[k]
       /\ \A k \in Cells : m2[k] = IF k = b THEN NULL_OFFSET ELSE m1[k]
       /\ \A k \in Cells : m3[k] = IF k = NextOf(b) THEN n ELSE m2[k]
       /\ \A k \in Cells : m4[k] = IF k = USED_LIST THEN b ELSE m3[k]
  <2>1. /\ Differ(m, m1, n, a1, b) /\ Differ(m1, m2, b, b, NULL_OFFSET)
        /\ Differ(m2, m3, b, NextOf(b), n) /\ Differ(m3, m4, b, USED_LIST, b)
    BY <1>10, <1>12 DEF StoreByStore
  <2> QED
    BY <1>2, <2>1 DEF Differ
<1>15. m4 = PushUsed(m, b)
  <2>1. PICK M : M = PushUsed(m, b)
    OBVIOUS
  <2>2. M = [m EXCEPT ![IF n # NULL_OFFSET THEN PrevOf(n) ELSE PrevOf(b)] = b,
                      ![b] = NULL_OFFSET, ![NextOf(b)] = n, ![USED_LIST] = b]
    BY <1>1, <1>2, <1>3, <2>1 DEF PushUsed
  <2>3. M = [k \in Cells |-> IF k = USED_LIST THEN b ELSE IF k = NextOf(b) THEN n
                             ELSE IF k = b THEN NULL_OFFSET
                             ELSE IF n # NULL_OFFSET /\ k = a1 THEN b ELSE m[k]]
    BY <1>1, <1>2, <1>7, <2>2 DEF Memory
  <2>4. \A k \in Cells : M[k] = m4[k]
    BY <1>14, <2>3
  <2>5. M = [k \in Cells |-> M[k]] /\ m4 = [k \in Cells |-> m4[k]]
    BY <1>13, <2>3 DEF OnlyLinks, Memory
  <2> QED
    BY <2>1, <2>4, <2>5
<1>16. Forward(m, USED_LIST, S, r) /\ Forward(m4, USED_LIST, T, r)
  <2>1. Linked(PushUsed(m, b), USED_LIST, S \cup {b}, r)
    BY PushUsedKeepsList
  <2> QED
    BY <1>15, <2>1, LinkedForward
<1>17. /\ m1[USED_LIST] = m[USED_LIST] /\ m2[USED_LIST] = m[USED_LIST] /\ m3[USED_LIST] = m[USED_LIST]
       /\ \A f \in S : LET k == NextOf(f) IN m1[k] = m[k] /\ m2[k] = m[k] /\ m3[k] = m[k]
  BY <1>1, <1>2, <1>4, <1>6, <1>8, <1>14
<1>18. Forward(m1, USED_LIST, S, r) /\ Forward(m2, USED_LIST, S, r) /\ Forward(m3, USED_LIST, S, r)
  BY <1>16, <1>17, ForwardFrame
<1>19. OnlyLinks(m, m, USED_LIST, T)
  BY DEF OnlyLinks
<1>20. Either(m, {m, m1, m2, m3, m4}, USED_LIST, S, T, r)
  <2>1. S \cup T = T
    OBVIOUS
  <2> QED
    BY <1>13, <1>16, <1>18, <1>19, <2>1 DEF Either
<1> QED
  BY <1>9, <1>13, <1>15, <1>20

\* insert_block_to_free_list() up to the merge: the third store puts the block in.
LEMMA TornLinkFree ==
    ASSUME NEW S, NEW b, b \notin S, NEW T, T = S \cup {b}, Apart(T), NEW m \in Memory,
           NEW r, Linked(m, FREE_LIST, S, r), Ranks(T, r),
           NEW p, Precedes(T, r, b, p), NEW n, Follows(T, r, b, n)
    PROVE  \E X : /\ Leaves(m, LinkFreeStores(m, p, b, n), LinkFree(m, p, b, n), X)
                  /\ Either(m, X, FREE_LIST, S, T, r)
<1>1. /\ \A f \in T : /\ f \in Nat /\ f >= 2 /\ PrevOf(f) = f /\ NextOf(f) = f + 1
                      /\ f \in Cells /\ f + 1 \in Cells /\ f \in Offsets
      /\ FREE_LIST \in Cells /\ FREE_LIST \in Heads
  BY HeaderCells DEF Heads, Apart
<1>2. b \in T /\ b # NULL_OFFSET
  BY <1>1 DEF NULL_OFFSET
<1>3. (p # NULL_OFFSET => p \in S) /\ (n # NULL_OFFSET => n \in S)
  BY DEF Precedes, Follows, Ranks
<1>4. b \in Word /\ p \in Word /\ n \in Word
  BY <1>1, <1>2, <1>3, WordsAreNumbers
<1>5. /\ Links(T) \subseteq Cells /\ FREE_LIST \notin Links(T)
      /\ \A f \in T : f \in Links(T) /\ NextOf(f) \in Links(T) /\ f # FREE_LIST /\ NextOf(f) # FREE_LIST
      /\ \A f, g \in T : NextOf(f) # g /\ (f # g => NextOf(f) # NextOf(g))
  BY <1>1, ListCells
<1>6. PICK a3 : a3 = IF p # NULL_OFFSET THEN NextOf(p) ELSE FREE_LIST
  OBVIOUS
<1>7. a3 \in Links(T) \cup {FREE_LIST} /\ a3 \in Cells
  BY <1>1, <1>3, <1>5, <1>6
<1>8. PICK a4 : a4 = PrevOf(n)
  OBVIOUS
<1>9. /\ a4 \in Cells
      /\ n # NULL_OFFSET => a4 = n /\ a4 \in Links(T)
  BY <1>1, <1>3, <1>5, <1>8 DEF PrevOf, NULL_OFFSET, FREE_LIST
<1>10. PICK st : st = LinkFreeStores(m, p, b, n)
  OBVIOUS
<1>11. PICK c, a, w : c = <<b, b, b, n>> /\ a = <<b, NextOf(b), a3, a4>> /\ w = <<p, n, b, b>>
  OBVIOUS
<1>12. st = FourLinks(c, a, w)
  <2>1. PICK x1 \in Store, x2 \in Store, x3 \in Store, x4 \in Store :
          x1 = <<b, p>> /\ x2 = <<NextOf(b), n>> /\ x3 = <<a3, b>> /\ x4 = <<a4, b>>
    BY <1>1, <1>2, <1>4, <1>7, <1>9 DEF Store
  <2>2. PICK u : u = If(n, x4)
    OBVIOUS
  <2>3. st = <<x1, x2, x3>> \o u
    BY <1>1, <1>2, <1>6, <1>8, <1>10, <2>1, <2>2 DEF LinkFreeStores, If
  <2>4. <<x1, x2, x3>> = (<<x1>> \o <<x2>>) \o <<x3>>
    <3>1. <<x1, x2, x3>> = <<x1>> \o <<x2, x3>>
      OBVIOUS
    <3>2. <<x1>> \in Seq(Store)
      OBVIOUS
    <3>3. <<x1>> \o <<x2, x3>> = (<<x1>> \o <<x2>>) \o <<x3>>
      BY <3>2, TwoMore
    <3> QED
      BY <3>1, <3>3
  <2>5. <<x1>> = If(b, x1) /\ <<x2>> = If(b, x2) /\ <<x3>> = If(b, x3)
    BY <1>2 DEF If
  <2>6. st = Four(b, x1, b, x2, b, x3, n, x4)
    BY <2>2, <2>3, <2>4, <2>5 DEF Four
  <2> QED
    BY <1>11, <2>1, <2>6 DEF FourLinks
<1>13. PICK m1, m2, m3, m4 : StoreByStore(m, FREE_LIST, T, c, a, w, m1, m2, m3, m4)
  <2>1. \A i \in 1 .. 4 : /\ a[i] \in Cells /\ w[i] \in Word
                          /\ c[i] # NULL_OFFSET => a[i] \in Links(T) \cup {FREE_LIST}
    <3>1. \A i \in 1 .. 4 : i = 1 \/ i = 2 \/ i = 3 \/ i = 4
      OBVIOUS
    <3>2. a[1] \in Cells /\ w[1] \in Word /\ a[1] \in Links(T)
      BY <1>1, <1>2, <1>4, <1>5, <1>11
    <3>3. a[2] \in Cells /\ w[2] \in Word /\ a[2] \in Links(T)
      BY <1>1, <1>2, <1>4, <1>5, <1>11
    <3>4. a[3] \in Cells /\ w[3] \in Word /\ a[3] \in Links(T) \cup {FREE_LIST}
      BY <1>4, <1>7, <1>11
    <3>5. a[4] \in Cells /\ w[4] \in Word /\ (c[4] # NULL_OFFSET => a[4] \in Links(T))
      BY <1>4, <1>9, <1>11
    <3> QED
      BY <3>1, <3>2, <3>3, <3>4, <3>5
  <2> QED
    BY <1>1, <1>5, <2>1, FourLinkStores
<1>14. /\ Leaves(m, st, m4, {m, m1, m2, m3, m4})
       /\ OnlyLinks(m, m1, FREE_LIST, T) /\ OnlyLinks(m, m2, FREE_LIST, T)
       /\ OnlyLinks(m, m3, FREE_LIST, T) /\ OnlyLinks(m, m4, FREE_LIST, T)
  BY <1>12, <1>13 DEF StoreByStore
<1>15. /\ \A k \in Cells : m1[k] = IF k = b THEN p ELSE m[k]
       /\ \A k \in Cells : m2[k] = IF k = NextOf(b) THEN n ELSE m1[k]
       /\ \A k \in Cells : m3[k] = IF k = a3 THEN b ELSE m2[k]
       /\ \A k \in Cells : m4[k] = IF n # NULL_OFFSET /\ k = a4 THEN b ELSE m3[k]
  <2>1. /\ Differ(m, m1, b, b, p) /\ Differ(m1, m2, b, NextOf(b), n)
        /\ Differ(m2, m3, b, a3, b) /\ Differ(m3, m4, n, a4, b)
    BY <1>11, <1>13 DEF StoreByStore
  <2> QED
    BY <1>2, <2>1 DEF Differ
<1>16. m4 = LinkFree(m, p, b, n)
  <2>1. PICK M : M = LinkFree(m, p, b, n)
    OBVIOUS
  <2>2. M = [m EXCEPT ![b] = p, ![NextOf(b)] = n, ![a3] = b,
                      ![IF n # NULL_OFFSET THEN a4 ELSE b] = IF n # NULL_OFFSET THEN b ELSE p]
    BY <1>1, <1>2, <1>6, <1>8, <2>1 DEF LinkFree
  <2>3. b # NextOf(b) /\ b # a3
    BY <1>2, <1>3, <1>5, <1>6
  <2>4. M = [k \in Cells |-> IF n # NULL_OFFSET /\ k = a4 THEN b ELSE IF k = a3 THEN b
                             ELSE IF k = NextOf(b) THEN n ELSE IF k = b THEN p ELSE m[k]]
    BY <2>2, <2>3 DEF Memory
  <2>5. \A k \in Cells : M[k] = m4[k]
    BY <1>15, <2>4
  <2>6. M = [k \in Cells |-> M[k]] /\ m4 = [k \in Cells |-> m4[k]]
    BY <1>14, <2>4 DEF OnlyLinks, Memory
  <2> QED
    BY <2>1, <2>5, <2>6
<1>17. Forward(m, FREE_LIST, S, r) /\ Forward(m4, FREE_LIST, T, r)
  BY <1>16, LinkFreeKeepsList, LinkedForward
<1>18. /\ m1[FREE_LIST] = m[FREE_LIST] /\ m2[FREE_LIST] = m[FREE_LIST] /\ m3[FREE_LIST] = m4[FREE_LIST]
       /\ \A f \in S : LET k == NextOf(f) IN m1[k] = m[k] /\ m2[k] = m[k]
       /\ \A f \in T : LET k == NextOf(f) IN m3[k] = m4[k]
  BY <1>1, <1>2, <1>3, <1>5, <1>9, <1>15
<1>19. Forward(m1, FREE_LIST, S, r) /\ Forward(m2, FREE_LIST, S, r) /\ Forward(m3, FREE_LIST, T, r)
  BY <1>17, <1>18, ForwardFrame
<1>20. OnlyLinks(m, m, FREE_LIST, T)
  BY DEF OnlyLinks
<1>21. Either(m, {m, m1, m2, m3, m4}, FREE_LIST, S, T, r)
  <2>1. S \cup T = T
    OBVIOUS
  <2> QED
    BY <1>14, <1>17, <1>19, <1>20, <2>1 DEF Either
<1> QED
  BY <1>10, <1>14, <1>16, <1>21

----------------------------------------------------------------------------
(* The steps of alloc() and free().                                        *)

\* What a restart loads is right if the lists, followed forward, have different
\* blocks of a file that is tiled, and those blocks have their sizes.
LEMMA SafeFile ==
    ASSUME NEW t, Tiles(t), NEW U, U \subseteq DOMAIN t, NEW G, G \subseteq DOMAIN t,
           U \cap G = {}, NEW M, NEW q, Forward(M, USED_LIST, U, q),
           NEW r, Forward(M, FREE_LIST, G, r), \A x \in U \cup G : M[SizeOf(x)] = t[x]
    PROVE  ForwardListsAreSound(M) /\ Visited(M, USED_LIST) = U
<1>1. Apart(U) /\ Apart(G)
  BY TilesFacts
<1>2. /\ Reached(M, USED_LIST) = U \cup {NULL_OFFSET}
      /\ Reached(M, FREE_LIST) = G \cup {NULL_OFFSET}
  BY <1>1, WalkIs
<1>3. NULL_OFFSET \notin U /\ NULL_OFFSET \notin G
  BY <1>1, HeaderCells DEF NULL_OFFSET
<1>4. /\ Visited(M, USED_LIST) = U /\ Visited(M, FREE_LIST) = G
      /\ WalkEnds(M, USED_LIST) /\ WalkEnds(M, FREE_LIST)
  BY <1>2, <1>3 DEF Visited, WalkEnds
<1>5. PICK E \in Nat : E = BufferEnd
  BY BufferAssumption
<1>6. \A x \in DOMAIN t : /\ x \in Nat /\ x >= 2 /\ t[x] \in Nat
                          /\ EndIn(t, x) = x + 3 + t[x] /\ EndIn(t, x) <= E
  BY <1>5, TilesFacts
<1>7. \A x, y \in DOMAIN t : x < y => EndIn(t, x) <= y
  BY DEF Tiles
<1>8. \A x \in U \cup G : Extent(M, x) = x .. EndIn(t, x) - 1
  <2> SUFFICES ASSUME NEW x \in U \cup G
               PROVE  Extent(M, x) = x .. EndIn(t, x) - 1
    OBVIOUS
  <2>1. M[SizeOf(x)] = t[x]
    OBVIOUS
  <2>2. Extent(M, x) = x .. x + BlockSize + M[SizeOf(x)] - 1
    BY DEF Extent
  <2>3. EndIn(t, x) = x + 3 + t[x] /\ x \in Nat /\ t[x] \in Nat
    BY <1>6
  <2>4. x + BlockSize + t[x] - 1 = EndIn(t, x) - 1
    BY <2>3 DEF BlockSize
  <2> QED
    BY <2>1, <2>2, <2>4
<1>9. \A x \in U \cup G : Extent(M, x) \subseteq HeaderSize .. BufferEnd - 1
  <2> SUFFICES ASSUME NEW x \in U \cup G, NEW a \in Extent(M, x)
               PROVE  a \in HeaderSize .. BufferEnd - 1
    OBVIOUS
  <2>1. x \in DOMAIN t
    OBVIOUS
  <2>2. a \in x .. EndIn(t, x) - 1
    BY <1>8
  <2>3. a \in 2 .. E - 1
    BY <1>6, <2>1, <2>2
  <2> QED
    BY <1>5, <2>3 DEF HeaderSize
<1>10. \A x, y \in U \cup G : x < y => Extent(M, x) \cap Extent(M, y) = {}
  <2> SUFFICES ASSUME NEW x \in U \cup G, NEW y \in U \cup G, x < y,
                      NEW a, a \in Extent(M, x), a \in Extent(M, y)
               PROVE  FALSE
    OBVIOUS
  <2>1. x \in DOMAIN t /\ y \in DOMAIN t
    OBVIOUS
  <2>2. a \in x .. EndIn(t, x) - 1 /\ a \in y .. EndIn(t, y) - 1
    BY <1>8
  <2>3. EndIn(t, x) <= y
    BY <1>7, <2>1
  <2> QED
    BY <1>6, <2>1, <2>2, <2>3
<1>11. \A x, y \in U \cup G : x # y => Extent(M, x) \cap Extent(M, y) = {}
  <2>1. \A x, y \in U \cup G : x # y => x < y \/ y < x
    BY <1>6
  <2> QED
    BY <1>10, <2>1
<1> QED
  BY <1>4, <1>9, <1>11 DEF ForwardListsAreSound

\* What EveryStoreIsSafe says of one of the memories.
SafeToLoad(M) ==
    /\ ForwardListsAreSound(M)
    /\ Visited(M, USED_LIST) \in
         {DOMAIN held, DOMAIN held \cup {block}}
           \cup (IF pc = "idle" THEN {DOMAIN held \ {b} : b \in DOMAIN held} ELSE {})

\* Stores into the links of one list leave all sizes, and the other list, as they were.
SameSizes(m, M, A) == \A x \in A : M[SizeOf(x)] = m[SizeOf(x)]

LEMMA OtherSizes ==
    ASSUME NEW A, Apart(A), NEW T, T \subseteq A, NEW head \in Heads,
           NEW m, NEW M, OnlyLinks(m, M, head, T)
    PROVE  SameSizes(m, M, A)
<1>1. \A a \in Cells : a # head /\ a \notin Links(T) => M[a] = m[a]
  BY DEF OnlyLinks
<1>2. \A x \in A : SizeOf(x) \notin Links(T) /\ SizeOf(x) \in Cells /\ SizeOf(x) \notin Heads
  BY LinkCells
<1> QED
  BY <1>1, <1>2 DEF SameSizes

LEMMA OtherList ==
    ASSUME NEW A, Apart(A), NEW T, T \subseteq A, NEW head \in Heads,
           NEW m, NEW M, OnlyLinks(m, M, head, T), NEW h \in Heads, h # head,
           NEW S, S \subseteq A, S \cap T = {}, NEW q, Forward(m, h, S, q)
    PROVE  Forward(M, h, S, q)
<1>1. \A a \in Cells : a # head /\ a \notin Links(T) => M[a] = m[a]
  BY DEF OnlyLinks
<1>2. Links(S) \cap Links(T) = {} /\ Links(A) \subseteq Cells /\ h \in Cells
  BY LinkCells DEF Heads
<1>3. Apart(S) /\ Apart(T)
  BY DEF Apart
<1>4. h \notin Links(T)
  BY <1>3, ListCells
<1>5. \A f \in S : NextOf(f) \in Links(S) /\ NextOf(f) # head /\ NextOf(f) \in Cells
  BY <1>3, ListCells
<1>6. M[h] = m[h]
  BY <1>1, <1>2, <1>4
<1>7. \A f \in S : M[NextOf(f)] = m[NextOf(f)]
  BY <1>1, <1>2, <1>5
<1> QED
  BY <1>6, <1>7, ForwardFrame

\* What the cases below start from.
LEMMA SafeFacts ==
    ASSUME TypeOK, NEW s, NEW F, NEW r, PoolOK(s, F, r), NEW H, H = DOMAIN held
    PROVE  /\ Tiles(s) /\ Apart(DOMAIN s) /\ mem \in Memory
           /\ H \subseteq DOMAIN s /\ F \subseteq DOMAIN s /\ H \cap F = {} /\ Apart(H) /\ Apart(F)
           /\ Linked(mem, USED_LIST, H, r) /\ Linked(mem, FREE_LIST, F, Place)
           /\ Forward(mem, USED_LIST, H, r) /\ Forward(mem, FREE_LIST, F, Place)
           /\ \A x \in DOMAIN s : mem[SizeOf(x)] = s[x] \/ (Shrinking /\ x = block)
           /\ \A x \in H \cup F : mem[SizeOf(x)] = s[x]
<1>1. /\ Tiles(s) /\ PlacesOK(s, F) /\ SizesOK(s) /\ ListsOK(F, r)
      /\ Linked(mem, FREE_LIST, F, Place) /\ Linked(mem, USED_LIST, H, r)
  BY DEF PoolOK, ListsOK
<1>2. /\ H \subseteq DOMAIN s /\ F \subseteq DOMAIN s /\ H \cap F = {}
      /\ Apart(DOMAIN s) /\ mem \in Memory
  BY <1>1, PoolFacts DEF PlacesOK
<1>3. \A x \in H \cup F : ~ (Shrinking /\ x = block)
  BY <1>1 DEF PlacesOK, Taken, Allocating, Shrinking
<1>4. Apart(H) /\ Apart(F)
  BY <1>1, <1>2, TilesFacts
<1>5. Forward(mem, USED_LIST, H, r) /\ Forward(mem, FREE_LIST, F, Place)
  BY <1>1, LinkedForward
<1> QED
  BY <1>1, <1>2, <1>3, <1>4, <1>5 DEF SizesOK

\* Before the first store.
LEMMA UntouchedIsSafe ==
    ASSUME TypeOK, NEW s, NEW F, NEW r, PoolOK(s, F, r)
    PROVE  SafeToLoad(mem)
<1>1. PICK H : H = DOMAIN held
  OBVIOUS
<1>2. /\ Tiles(s) /\ H \subseteq DOMAIN s /\ F \subseteq DOMAIN s /\ H \cap F = {}
      /\ Forward(mem, USED_LIST, H, r) /\ Forward(mem, FREE_LIST, F, Place)
      /\ \A x \in H \cup F : mem[SizeOf(x)] = s[x]
  BY <1>1, SafeFacts
<1>3. ForwardListsAreSound(mem) /\ Visited(mem, USED_LIST) = H
  BY <1>2, SafeFile
<1> QED
  BY <1>1, <1>3 DEF SafeToLoad

\* Stores into the free list, or into a block that is about to be in it.
LEMMA TornFree ==
    ASSUME TypeOK, NEW s, NEW F, NEW r, PoolOK(s, F, r),
           NEW T, T \subseteq DOMAIN s, T \cap DOMAIN held = {},
           NEW M, OnlyLinks(mem, M, FREE_LIST, T),
           NEW G, G \subseteq T, Forward(M, FREE_LIST, G, Place),
           \A x \in G : mem[SizeOf(x)] = s[x]
    PROVE  SafeToLoad(M)
<1>1. PICK H : H = DOMAIN held
  OBVIOUS
<1>2. /\ Tiles(s) /\ Apart(DOMAIN s) /\ H \subseteq DOMAIN s
      /\ Forward(mem, USED_LIST, H, r)
      /\ \A x \in H : mem[SizeOf(x)] = s[x]
  BY <1>1, SafeFacts
<1>3. FREE_LIST \in Heads /\ USED_LIST \in Heads /\ USED_LIST # FREE_LIST
  BY DEF Heads, FREE_LIST, USED_LIST
<1>4. \A x \in DOMAIN s : M[SizeOf(x)] = mem[SizeOf(x)]
  <2>1. PICK A : A = DOMAIN s
    OBVIOUS
  <2>2. Apart(A) /\ T \subseteq A
    BY <1>2, <2>1
  <2>3. SameSizes(mem, M, A)
    BY <1>3, <2>2, OtherSizes
  <2> QED
    BY <2>1, <2>3 DEF SameSizes
<1>5. Forward(M, USED_LIST, H, r)
  <2>1. H \subseteq DOMAIN s /\ H \cap T = {}
    BY <1>1, <1>2
  <2> QED
    BY <1>2, <1>3, <2>1, OtherList
<1>6. \A x \in H \cup G : M[SizeOf(x)] = s[x]
  BY <1>2, <1>4
<1>7. G \subseteq DOMAIN s /\ H \cap G = {}
  BY <1>1
<1>8. ForwardListsAreSound(M) /\ Visited(M, USED_LIST) = H
  BY <1>2, <1>5, <1>6, <1>7, SafeFile
<1> QED
  BY <1>1, <1>8 DEF SafeToLoad

\* Stores into the used list, or into a block that is about to be in it.
LEMMA TornUsed ==
    ASSUME TypeOK, NEW s, NEW F, NEW r, PoolOK(s, F, r),
           NEW T, T \subseteq DOMAIN s, T \cap F = {},
           NEW M, OnlyLinks(mem, M, USED_LIST, T),
           NEW U, U \subseteq T, NEW q, Forward(M, USED_LIST, U, q),
           \A x \in U : mem[SizeOf(x)] = s[x]
    PROVE  ForwardListsAreSound(M) /\ Visited(M, USED_LIST) = U
<1>1. /\ Tiles(s) /\ Apart(DOMAIN s) /\ F \subseteq DOMAIN s
      /\ Forward(mem, FREE_LIST, F, Place)
      /\ \A x \in F : mem[SizeOf(x)] = s[x]
  BY SafeFacts
<1>2. USED_LIST \in Heads /\ FREE_LIST \in Heads /\ FREE_LIST # USED_LIST
  BY DEF Heads, FREE_LIST, USED_LIST
<1>3. \A x \in DOMAIN s : M[SizeOf(x)] = mem[SizeOf(x)]
  <2>1. PICK A : A = DOMAIN s
    OBVIOUS
  <2>2. Apart(A) /\ T \subseteq A
    BY <1>1, <2>1
  <2>3. SameSizes(mem, M, A)
    BY <1>2, <2>2, OtherSizes
  <2> QED
    BY <2>1, <2>3 DEF SameSizes
<1>4. Forward(M, FREE_LIST, F, Place)
  <2>1. F \cap T = {}
    OBVIOUS
  <2> QED
    BY <1>1, <1>2, <2>1, OtherList
<1>5. \A x \in U \cup F : M[SizeOf(x)] = s[x]
  BY <1>1, <1>3
<1>6. U \subseteq DOMAIN s /\ U \cap F = {}
  OBVIOUS
<1> QED
  BY <1>1, <1>4, <1>5, <1>6, SafeFile

\* free() takes the block out of the used list.
LEMMA FreeCallIsSafe ==
    ASSUME TypeOK, NEW s, NEW F, NEW r, PoolOK(s, F, r), pc = "idle",
           NEW b \in DOMAIN held, NEW M \in Midway(mem, UnlinkStores(mem, USED_LIST, b))
    PROVE  SafeToLoad(M)
<1>1. PICK H : H = DOMAIN held
  OBVIOUS
<1>2. /\ mem \in Memory /\ H \subseteq DOMAIN s /\ H \cap F = {} /\ Apart(H)
      /\ Linked(mem, USED_LIST, H, r) /\ \A x \in H : mem[SizeOf(x)] = s[x]
  BY <1>1, SafeFacts
<1>3. USED_LIST \in Heads /\ b \in H
  BY <1>1 DEF Heads
<1>4. PICK X : /\ Leaves(mem, UnlinkStores(mem, USED_LIST, b), Unlink(mem, USED_LIST, b), X)
               /\ Either(mem, X, USED_LIST, H, H \ {b}, r)
  BY <1>2, <1>3, TornUnlink
<1>5. M \in X
  BY <1>4 DEF Leaves
<1>6. PICK U : /\ U = H \/ U = H \ {b}
               /\ Forward(M, USED_LIST, U, r) /\ OnlyLinks(mem, M, USED_LIST, H)
  <2>1. H \cup (H \ {b}) = H
    OBVIOUS
  <2>2. OnlyLinks(mem, M, USED_LIST, H \cup (H \ {b}))
        /\ (Forward(M, USED_LIST, H, r) \/ Forward(M, USED_LIST, H \ {b}, r))
    BY <1>4, <1>5 DEF Either
  <2>3. OnlyLinks(mem, M, USED_LIST, H)
    BY <2>1, <2>2
  <2> QED
    BY <2>2, <2>3
<1>7. ForwardListsAreSound(M) /\ Visited(M, USED_LIST) = U
  <2>1. U \subseteq H /\ \A x \in U : mem[SizeOf(x)] = s[x]
    BY <1>2, <1>6
  <2> QED
    BY <1>2, <1>6, <2>1, TornUsed
<1> QED
  BY <1>1, <1>6, <1>7 DEF SafeToLoad

\* alloc() takes the block out of the free list.
LEMMA TakeIsSafe ==
    ASSUME TypeOK, NEW s, NEW F, NEW r, PoolOK(s, F, r), NEW b \in F,
           NEW M \in Midway(mem, UnlinkStores(mem, FREE_LIST, b))
    PROVE  SafeToLoad(M)
<1>1. PICK H : H = DOMAIN held
  OBVIOUS
<1>2. /\ mem \in Memory /\ F \subseteq DOMAIN s /\ H \cap F = {} /\ Apart(F)
      /\ Linked(mem, FREE_LIST, F, Place) /\ \A x \in F : mem[SizeOf(x)] = s[x]
  BY <1>1, SafeFacts
<1>3. FREE_LIST \in Heads
  BY DEF Heads
<1>4. PICK X : /\ Leaves(mem, UnlinkStores(mem, FREE_LIST, b), Unlink(mem, FREE_LIST, b), X)
               /\ Either(mem, X, FREE_LIST, F, F \ {b}, Place)
  BY <1>2, <1>3, TornUnlink
<1>5. M \in X
  BY <1>4 DEF Leaves
<1>6. PICK G : /\ G = F \/ G = F \ {b}
               /\ Forward(M, FREE_LIST, G, Place) /\ OnlyLinks(mem, M, FREE_LIST, F)
  <2>1. F \cup (F \ {b}) = F
    OBVIOUS
  <2>2. OnlyLinks(mem, M, FREE_LIST, F \cup (F \ {b}))
        /\ (Forward(M, FREE_LIST, F, Place) \/ Forward(M, FREE_LIST, F \ {b}, Place))
    BY <1>4, <1>5 DEF Either
  <2>3. OnlyLinks(mem, M, FREE_LIST, F)
    BY <2>1, <2>2
  <2> QED
    BY <2>2, <2>3
<1>7. G \subseteq F /\ \A x \in G : mem[SizeOf(x)] = s[x]
  BY <1>2, <1>6
<1>8. F \cap DOMAIN held = {}
  BY <1>1, <1>2
<1> QED
  BY <1>2, <1>6, <1>7, <1>8, TornFree

\* A single store.
LEMMA OneStore ==
    ASSUME NEW m \in Memory, NEW a \in Cells, NEW w \in Word, NEW M, M = [m EXCEPT ![a] = w]
    PROVE  Leaves(m, << <<a, w>> >>, M, {m, M})
<1>1. PICK x \in Store : x = <<a, w>>
  BY DEF Store
<1>2. PICK c : c = 1 /\ c # NULL_OFFSET
  BY DEF NULL_OFFSET
<1>3. PICK st : st = If(c, x)
  OBVIOUS
<1>4. M = WriteIf(c, m, x)
  BY <1>1, <1>2 DEF WriteIf, Write
<1>5. st \in Seq(Store) /\ M \in Memory /\ Perform(m, st) = M /\ Midway(m, st) = {m, M}
  BY <1>3, <1>4, AtMostOne
<1>6. st = << <<a, w>> >>
  BY <1>1, <1>2, <1>3 DEF If
<1> QED
  BY <1>5, <1>6 DEF Leaves

\* A store into the size of a block that is in neither list.
LEMMA SizeIsSafe ==
    ASSUME TypeOK, NEW s, NEW F, NEW r, PoolOK(s, F, r),
           NEW t, Tiles(t), DOMAIN s \subseteq DOMAIN t,
           \A x \in F \cup DOMAIN held : t[x] = s[x],
           NEW c \in DOMAIN t, c \notin F, c \notin DOMAIN held, NEW w \in Word,
           NEW M \in Midway(mem, << <<SizeOf(c), w>> >>)
    PROVE  SafeToLoad(M)
<1>1. PICK H : H = DOMAIN held
  OBVIOUS
<1>2. /\ mem \in Memory /\ H \subseteq DOMAIN t /\ F \subseteq DOMAIN t /\ H \cap F = {}
      /\ Forward(mem, USED_LIST, H, r) /\ Forward(mem, FREE_LIST, F, Place)
      /\ \A x \in H \cup F : mem[SizeOf(x)] = t[x]
  BY <1>1, SafeFacts
<1>3. PICK A : A = DOMAIN t /\ Apart(A)
  BY TilesFacts
<1>4. PICK d : d = SizeOf(c)
  OBVIOUS
<1>5. /\ d \in Cells /\ d \notin Heads /\ d \notin Links(H) /\ d \notin Links(F)
      /\ FREE_LIST \in Heads /\ USED_LIST \in Heads
  BY <1>2, <1>3, <1>4, LinkCells
<1>6. PICK N : N = [mem EXCEPT ![d] = w]
  OBVIOUS
<1>7. Leaves(mem, << <<d, w>> >>, N, {mem, N})
  BY <1>2, <1>5, <1>6, OneStore
<1>8. M = mem \/ M = N
  BY <1>4, <1>7 DEF Leaves
<1>9. CASE M = mem
  BY <1>9, UntouchedIsSafe
<1>10. CASE M = N
  <2>1. \A a \in Cells : a # d => M[a] = mem[a]
    BY <1>2, <1>6, <1>10 DEF Memory
  <2>2. USED_LIST \in Cells /\ FREE_LIST \in Cells
    BY <1>3, LinkCells
  <2>3. M[USED_LIST] = mem[USED_LIST] /\ M[FREE_LIST] = mem[FREE_LIST]
    BY <1>5, <2>1, <2>2
  <2>4. Apart(H) /\ Apart(F)
    BY <1>2, <1>3 DEF Apart
  <2>5. \A f \in H : NextOf(f) \in Cells /\ NextOf(f) \in Links(H)
    BY <1>5, <2>4, ListCells
  <2>6. \A f \in F : NextOf(f) \in Cells /\ NextOf(f) \in Links(F)
    BY <1>5, <2>4, ListCells
  <2>7. Forward(M, USED_LIST, H, r)
    <3>1. \A f \in H : M[NextOf(f)] = mem[NextOf(f)]
      BY <1>5, <2>1, <2>5
    <3> QED
      BY <1>2, <2>3, <3>1, ForwardFrame
  <2>8. Forward(M, FREE_LIST, F, Place)
    <3>1. \A f \in F : M[NextOf(f)] = mem[NextOf(f)]
      BY <1>5, <2>1, <2>6
    <3> QED
      BY <1>2, <2>3, <3>1, ForwardFrame
  <2>9. \A x \in H \cup F : M[SizeOf(x)] = t[x]
    <3> SUFFICES ASSUME NEW x \in H \cup F
                 PROVE  M[SizeOf(x)] = t[x]
      OBVIOUS
    <3>1. x \in A /\ c \in A /\ x # c
      BY <1>1, <1>2, <1>3
    <3>2. SizeOf(x) \in Cells /\ SizeOf(x) # SizeOf(c)
      BY <1>3, <3>1, HeaderCells
    <3> QED
      BY <1>2, <1>4, <2>1, <3>2
  <2>10. ForwardListsAreSound(M) /\ Visited(M, USED_LIST) = H
    BY <1>2, <2>7, <2>8, <2>9, SafeFile
  <2> QED
    BY <1>1, <2>10 DEF SafeToLoad
<1> QED
  BY <1>8, <1>9, <1>10

\* The block is cut in two: the second half gets a size.
LEMMA SplitIsSafe ==
    ASSUME PoolInv, pc = "split",
           NEW M \in Midway(mem, << <<SizeOf(block + BlockSize + alloc_size),
                                      mem[SizeOf(block)] - alloc_size - BlockSize>> >>)
    PROVE  SafeToLoad(M)
<1>1. TypeOK
  BY DEF PoolInv
<1>2. PICK s, F, r : PoolOK(s, F, r)
  BY DEF PoolInv
<1>3. Tiles(s) /\ PlacesOK(s, F) /\ SizesOK(s) /\ AllocOK(s, F)
  BY <1>2 DEF PoolOK
<1>4. PICK b : b = block
  OBVIOUS
<1>5. PICK n : n = alloc_size
  OBVIOUS
<1>6. n \in Nat /\ s[b] >= n + BlockSize + Slack
  BY <1>3, <1>4, <1>5, BufferAssumption DEF AllocOK, Allocating
<1>7. Taken = {b} /\ ~ Shrinking /\ b \in DOMAIN s /\ b \notin F /\ b \notin DOMAIN held
  <2>1. back = "idle"
    BY <1>3 DEF AllocOK
  <2> QED
    BY <1>3, <1>4, <2>1 DEF PlacesOK, Taken, Shrinking, Allocating
<1>8. s[b] \in Nat /\ s[b] >= n + BlockSize /\ mem[SizeOf(b)] = s[b]
  BY <1>3, <1>6, <1>7, BufferAssumption DEF Tiles, SizesOK, BlockSize
<1>9. PICK c : c = b + BlockSize + n
  OBVIOUS
<1>10. PICK t : t = Cut(s, b, n)
  OBVIOUS
<1>11. /\ c \notin DOMAIN s /\ Tiles(t) /\ DOMAIN t = DOMAIN s \cup {c}
       /\ t[c] = s[b] - n - BlockSize
       /\ \A x \in DOMAIN s \ {b} : t[x] = s[x]
  BY <1>3, <1>6, <1>7, <1>8, <1>9, <1>10, CutTiles
<1>12. F \subseteq DOMAIN s /\ DOMAIN held \subseteq DOMAIN s
  BY <1>3 DEF PlacesOK
<1>13. \A x \in F \cup DOMAIN held : t[x] = s[x]
  BY <1>7, <1>11, <1>12
<1>14. /\ DOMAIN s \subseteq DOMAIN t
       /\ c \in DOMAIN t /\ c \notin F /\ c \notin DOMAIN held /\ t[c] \in Word
  BY <1>11, <1>12, TilesFacts
<1>15. M \in Midway(mem, << <<SizeOf(c), t[c]>> >>)
  BY <1>4, <1>5, <1>8, <1>9, <1>11
<1>16. PICK w \in Word : w = t[c]
  BY <1>14
<1> QED
  BY <1>1, <1>2, <1>11, <1>13, <1>14, <1>15, <1>16, SizeIsSafe

\* The first half gets the size that was asked for.
LEMMA ShrinkIsSafe ==
    ASSUME PoolInv, pc = "shrink", NEW M \in Midway(mem, << <<SizeOf(block), alloc_size>> >>)
    PROVE  SafeToLoad(M)
<1>1. TypeOK
  BY DEF PoolInv
<1>2. PICK s, F, r : PoolOK(s, F, r)
  BY DEF PoolInv
<1>3. Tiles(s) /\ PlacesOK(s, F) /\ AllocOK(s, F)
  BY <1>2 DEF PoolOK
<1>4. PICK b : b = block
  OBVIOUS
<1>5. WasCut(s, F) /\ s[b] = alloc_size
  BY <1>3, <1>4 DEF AllocOK, WasCut
<1>6. Taken = {b} /\ b \in DOMAIN s /\ b \notin F /\ b \notin DOMAIN held
  BY <1>3, <1>4 DEF PlacesOK, Taken, Allocating
<1>7. PICK w \in Word : w = s[b]
  BY <1>3, <1>6, TilesFacts
<1>8. M \in Midway(mem, << <<SizeOf(b), w>> >>)
  BY <1>4, <1>5, <1>7
<1>9. PICK t : t = s /\ Tiles(t) /\ DOMAIN s \subseteq DOMAIN t /\ b \in DOMAIN t
               /\ \A x \in F \cup DOMAIN held : t[x] = s[x]
  BY <1>3, <1>6
<1> QED
  BY <1>1, <1>2, <1>6, <1>8, <1>9, SizeIsSafe

\* The block is put in front of the used list.
LEMMA PushIsSafe ==
    ASSUME PoolInv, pc = "push", NEW M \in Midway(mem, PushUsedStores(mem, block))
    PROVE  SafeToLoad(M)
<1>1. TypeOK
  BY DEF PoolInv
<1>2. PICK s, F, r : PoolOK(s, F, r)
  BY DEF PoolInv
<1>3. Tiles(s) /\ PlacesOK(s, F) /\ SizesOK(s) /\ AllocOK(s, F)
  BY <1>2 DEF PoolOK
<1>4. PICK b : b = block
  OBVIOUS
<1>5. PICK H : H = DOMAIN held
  OBVIOUS
<1>6. /\ mem \in Memory /\ H \subseteq DOMAIN s /\ H \cap F = {}
      /\ Linked(mem, USED_LIST, H, r) /\ \A x \in H : mem[SizeOf(x)] = s[x]
  BY <1>1, <1>2, <1>5, SafeFacts
<1>7. Taken = {b} /\ ~ Shrinking /\ b \in DOMAIN s /\ b \notin F /\ b \notin H
  <2>1. back = "idle"
    BY <1>3 DEF AllocOK
  <2> QED
    BY <1>3, <1>4, <1>5, <2>1 DEF PlacesOK, Taken, Shrinking, Allocating
<1>8. mem[SizeOf(b)] = s[b]
  BY <1>3, <1>7 DEF SizesOK
<1>9. PICK q : /\ Linked(mem, USED_LIST, H, q) /\ Ranks(H \cup {b}, q)
               /\ \A g \in H : q[b] < q[g]
  BY <1>6, <1>7, NewFirst
<1>10. PICK T : T = H \cup {b} /\ T \subseteq DOMAIN s /\ T \cap F = {} /\ Apart(T)
                /\ \A x \in T : mem[SizeOf(x)] = s[x]
  <2>1. Apart(H \cup {b})
    BY <1>3, <1>6, <1>7, TilesFacts
  <2> QED
    BY <1>6, <1>7, <1>8, <2>1
<1>11. Ranks(T, q)
  BY <1>9, <1>10
<1>12. PICK X : /\ Leaves(mem, PushUsedStores(mem, b), PushUsed(mem, b), X)
                /\ Either(mem, X, USED_LIST, H, T, q)
  BY <1>6, <1>7, <1>9, <1>10, <1>11, TornPush
<1>13. M \in X
  BY <1>4, <1>12 DEF Leaves
<1>14. PICK U : /\ U = H \/ U = T
                /\ Forward(M, USED_LIST, U, q) /\ OnlyLinks(mem, M, USED_LIST, T)
  <2>1. H \cup T = T
    BY <1>10
  <2>2. OnlyLinks(mem, M, USED_LIST, H \cup T)
        /\ (Forward(M, USED_LIST, H, q) \/ Forward(M, USED_LIST, T, q))
    BY <1>12, <1>13 DEF Either
  <2>3. OnlyLinks(mem, M, USED_LIST, T)
    BY <2>1, <2>2
  <2> QED
    BY <2>2, <2>3
<1>15. ForwardListsAreSound(M) /\ Visited(M, USED_LIST) = U
  <2>1. U \subseteq T /\ \A x \in U : mem[SizeOf(x)] = s[x]
    BY <1>6, <1>10, <1>14
  <2> QED
    BY <1>1, <1>2, <1>10, <1>14, <2>1, TornUsed
<1> QED
  BY <1>4, <1>5, <1>10, <1>14, <1>15 DEF SafeToLoad

\* No store at all.
LEMMA NoStore ==
    ASSUME NEW m \in Memory, NEW s, s = <<>>
    PROVE  Leaves(m, s, m, {m})
<1>1. PICK c : c = NULL_OFFSET
  OBVIOUS
<1>2. PICK x : x \in Store
  <2>1. FREE_LIST \in Cells
    BY BufferAssumption DEF FREE_LIST, Cells, HeaderSize, BlockSize
  <2>2. <<FREE_LIST, m[FREE_LIST]>> \in Store
    BY <2>1 DEF Store, Memory
  <2> QED
    BY <2>2
<1>3. s = If(c, x) /\ m = WriteIf(c, m, x)
  BY <1>1 DEF If, WriteIf
<1> QED
  BY <1>2, <1>3, AtMostOne DEF Leaves

\* The block goes into the free list.
LEMMA InsertIsSafe ==
    ASSUME PoolInv, pc = "insert",
           NEW M \in Midway(mem, IF NotInserting THEN <<>> ELSE InsertStores)
    PROVE  SafeToLoad(M)
<1>1. TypeOK
  BY DEF PoolInv
<1>2. PICK s, F, r : PoolOK(s, F, r)
  BY DEF PoolInv
<1>3. Tiles(s) /\ PlacesOK(s, F) /\ SizesOK(s) /\ AllocOK(s, F) /\ InsertOK(F)
  BY <1>2 DEF PoolOK
<1>4. PICK b : b = inserted
  OBVIOUS
<1>5. /\ b \in DOMAIN s /\ b \notin F /\ b \notin DOMAIN held /\ b \notin Taken
  BY <1>1, <1>2, <1>4, LooseBlock
<1>6. /\ mem \in Memory /\ Apart(DOMAIN s) /\ F \subseteq DOMAIN s /\ F \cap DOMAIN held = {}
      /\ Linked(mem, FREE_LIST, F, Place) /\ \A x \in F : mem[SizeOf(x)] = s[x]
  BY <1>1, <1>2, SafeFacts
<1>7. mem[SizeOf(b)] = s[b]
  <2>1. ~ (Shrinking /\ b = block)
    BY <1>5 DEF Taken, Shrinking, Allocating
  <2> QED
    BY <1>3, <1>5, <2>1 DEF SizesOK
<1>8. PICK T : T = F \cup {b} /\ T \subseteq DOMAIN s /\ T \cap DOMAIN held = {} /\ Apart(T)
               /\ \A x \in T : mem[SizeOf(x)] = s[x]
  <2>1. Apart(F \cup {b})
    BY <1>3, <1>5, <1>6, TilesFacts
  <2> QED
    BY <1>5, <1>6, <1>7, <2>1
<1>9. ASSUME NEW G, G \subseteq T, Forward(M, FREE_LIST, G, Place), OnlyLinks(mem, M, FREE_LIST, T)
      PROVE  SafeToLoad(M)
  <2>1. \A x \in G : mem[SizeOf(x)] = s[x]
    BY <1>8, <1>9
  <2> QED
    BY <1>1, <1>2, <1>8, <1>9, <2>1, TornFree
<1>10. CASE NotInserting
  <2>1. PICK st : st = <<>> /\ M \in Midway(mem, st)
    BY <1>10
  <2>2. Leaves(mem, st, mem, {mem})
    BY <1>6, <2>1, NoStore
  <2>3. M = mem
    BY <2>1, <2>2 DEF Leaves
  <2> QED
    BY <1>1, <1>2, <2>3, UntouchedIsSafe
<1>11. CASE ~ NotInserting /\ curr = NULL_OFFSET
  <2>1. F = {} /\ mem[NextOf(b)] = NULL_OFFSET
    BY <1>3, <1>4, <1>11 DEF InsertOK, NotInserting, LinksAreClear
  <2>2. /\ b \in Nat /\ b \in Cells /\ b # FREE_LIST /\ NextOf(b) # FREE_LIST
        /\ NextOf(b) \in Cells /\ FREE_LIST \in Cells
    <3>1. PICK A : A = DOMAIN s /\ Apart(A) /\ b \in A
      BY <1>5, <1>6
    <3>2. b \in Nat /\ b >= 2 /\ b \in Cells /\ NextOf(b) = b + 1 /\ b + 1 \in Cells
      BY <3>1, HeaderCells
    <3>3. FREE_LIST = 0 /\ FREE_LIST \in Cells
      BY <3>1, LinkCells DEF FREE_LIST
    <3> QED
      BY <3>2, <3>3
  <2>3. b \in Word /\ b # NULL_OFFSET
    BY <1>5, <1>6, <2>2, WordsAreNumbers DEF Apart, FREE_LIST, NULL_OFFSET
  <2>4. PICK N : N = [mem EXCEPT ![FREE_LIST] = b]
    OBVIOUS
  <2>5. Leaves(mem, << <<FREE_LIST, b>> >>, N, {mem, N})
    BY <1>6, <2>2, <2>3, <2>4, OneStore
  <2>6. M \in Midway(mem, << <<FREE_LIST, b>> >>)
    BY <1>4, <1>11 DEF InsertStores
  <2>7. M = mem \/ M = N
    BY <2>5, <2>6 DEF Leaves
  <2>8. CASE M = mem
    BY <1>1, <1>2, <2>8, UntouchedIsSafe
  <2>9. CASE M = N
    <3>1. N \in Memory /\ N[FREE_LIST] = b /\ \A a \in Cells : a # FREE_LIST => N[a] = mem[a]
      BY <1>6, <2>2, <2>3, <2>4 DEF Memory
    <3>2. N[NextOf(b)] = NULL_OFFSET
      BY <2>1, <2>2, <3>1
    <3>3. T = {b} /\ Place[b] = b
      BY <1>8, <2>1, <2>2 DEF Place
    <3>4. Ranks(T, Place)
      BY <2>2, <3>3 DEF Ranks
    <3>5. IsFirst(T, Place, N[FREE_LIST])
      BY <2>2, <2>3, <3>1, <3>3 DEF IsFirst
    <3>6. \A f \in T : Follows(T, Place, f, N[NextOf(f)])
      BY <2>2, <3>2, <3>3 DEF Follows
    <3>7. Forward(N, FREE_LIST, T, Place)
      BY <3>4, <3>5, <3>6 DEF Forward
    <3>8. OnlyLinks(mem, N, FREE_LIST, T)
      BY <3>1 DEF OnlyLinks
    <3> QED
      BY <1>9, <2>9, <3>7, <3>8
  <2> QED
    BY <2>7, <2>8, <2>9
<1>12. CASE ~ NotInserting /\ curr # NULL_OFFSET
  <2>1. PICK q : q = curr /\ q # NULL_OFFSET
    BY <1>12
  <2>2. PICK p : p = IF q < b THEN q ELSE mem[PrevOf(q)]
    OBVIOUS
  <2>3. PICK n : n = IF q < b THEN NULL_OFFSET ELSE q
    OBVIOUS
  <2>4. q \in F /\ q \in Nat /\ b \in Nat
    <3>1. q \in F
      BY <1>3, <2>1 DEF InsertOK
    <3> QED
      BY <1>5, <1>6, <3>1, HeaderCells
  <2>5. q > b \/ mem[NextOf(q)] = NULL_OFFSET
    BY <1>4, <1>12, <2>1, <2>4 DEF NotInserting
  <2>6. /\ Apart(F \cup {b}) /\ Ranks(F \cup {b}, Place)
        /\ Precedes(F \cup {b}, Place, b, p) /\ Follows(F \cup {b}, Place, b, n)
    BY <1>1, <1>2, <1>4, <2>1, <2>2, <2>3, <2>5, InsertionPoint
  <2>7. /\ Ranks(T, Place)
        /\ Precedes(T, Place, b, p) /\ Follows(T, Place, b, n)
    BY <1>8, <2>6
  <2>8. PICK X : /\ Leaves(mem, LinkFreeStores(mem, p, b, n), LinkFree(mem, p, b, n), X)
                 /\ Either(mem, X, FREE_LIST, F, T, Place)
    BY <1>5, <1>6, <1>8, <2>7, TornLinkFree
  <2>9. M \in Midway(mem, LinkFreeStores(mem, p, b, n))
    BY <1>4, <1>12, <2>1, <2>2, <2>3 DEF InsertStores
  <2>10. M \in X
    BY <2>8, <2>9 DEF Leaves
  <2>11. PICK G : /\ G = F \/ G = T
                  /\ Forward(M, FREE_LIST, G, Place) /\ OnlyLinks(mem, M, FREE_LIST, T)
    <3>1. F \cup T = T
      BY <1>8
    <3>2. OnlyLinks(mem, M, FREE_LIST, F \cup T)
          /\ (Forward(M, FREE_LIST, F, Place) \/ Forward(M, FREE_LIST, T, Place))
      BY <2>8, <2>10 DEF Either
    <3>3. OnlyLinks(mem, M, FREE_LIST, T)
      BY <3>1, <3>2
    <3> QED
      BY <3>2, <3>3
  <2>12. G \subseteq T
    BY <1>8, <2>11
  <2> QED
    BY <1>9, <2>11, <2>12
<1> QED
  BY <1>10, <1>11, <1>12

\* Stores into the free list alone, that leave it a list of some of its blocks.
Fewer(m, X, S) ==
    \A M \in X : /\ OnlyLinks(m, M, FREE_LIST, S)
                 /\ \E G \in SUBSET S : Forward(M, FREE_LIST, G, Place)

\* One half of the merge: a block leaves the free list, or it does not.
LEMMA TornHalf ==
    ASSUME NEW S, Apart(S), NEW m \in Memory, Linked(m, FREE_LIST, S, Place), NEW c \in S,
           NEW joins \in BOOLEAN, NEW st, st = IF joins THEN UnlinkStores(m, FREE_LIST, c) ELSE <<>>,
           NEW M, M = IF joins THEN Unlink(m, FREE_LIST, c) ELSE m
    PROVE  \E X : Leaves(m, st, M, X) /\ Fewer(m, X, S)
<1>1. FREE_LIST \in Heads
  BY DEF Heads
<1>2. CASE joins
  <2>1. PICK X : /\ Leaves(m, UnlinkStores(m, FREE_LIST, c), Unlink(m, FREE_LIST, c), X)
                 /\ Either(m, X, FREE_LIST, S, S \ {c}, Place)
    BY <1>1, TornUnlink
  <2>2. Fewer(m, X, S)
    <3>1. S \cup (S \ {c}) = S
      OBVIOUS
    <3>2. \A N \in X : OnlyLinks(m, N, FREE_LIST, S)
      BY <2>1, <3>1 DEF Either
    <3>3. \A N \in X : Forward(N, FREE_LIST, S, Place) \/ Forward(N, FREE_LIST, S \ {c}, Place)
      BY <2>1 DEF Either
    <3>4. S \in SUBSET S /\ S \ {c} \in SUBSET S
      OBVIOUS
    <3>5. \A N \in X : \E G \in SUBSET S : Forward(N, FREE_LIST, G, Place)
      BY <3>3, <3>4
    <3> QED
      BY <3>2, <3>5 DEF Fewer
  <2> QED
    BY <1>2, <2>1, <2>2
<1>3. CASE ~ joins
  <2>1. Leaves(m, st, M, {m})
    BY <1>3, NoStore
  <2>2. OnlyLinks(m, m, FREE_LIST, S) /\ Forward(m, FREE_LIST, S, Place) /\ S \in SUBSET S
    BY LinkedForward DEF OnlyLinks
  <2>3. Fewer(m, {m}, S)
    BY <2>2 DEF Fewer
  <2> QED
    BY <2>1, <2>3
<1> QED
  BY <1>2, <1>3

\* The merge: its last store changes a size in the file's list of blocks for good.
LEMMA CoalesceIsSafe ==
    ASSUME PoolInv, pc = "coalesce", NEW M \in Midway(mem, CoalesceStores(mem, inserted))
    PROVE  SafeToLoad(M)
<1>1. TypeOK
  BY DEF PoolInv
<1>2. PICK s, F, r : PoolOK(s, F, r)
  BY DEF PoolInv
<1>3. PICK b : b = inserted
  OBVIOUS
<1>4. PICK p : p = mem[PrevOf(b)]
  OBVIOUS
<1>5. PICK n : n = mem[NextOf(b)]
  OBVIOUS
<1>6. PICK H : H = DOMAIN held
  OBVIOUS
<1>7. /\ Apart(DOMAIN s) /\ mem \in Memory
      /\ H \subseteq DOMAIN s /\ F \subseteq DOMAIN s /\ H \cap F = {} /\ Apart(H) /\ Apart(F)
      /\ Linked(mem, FREE_LIST, F, Place) /\ Forward(mem, USED_LIST, H, r)
      /\ \A x \in H \cup F : mem[SizeOf(x)] = s[x]
  BY <1>1, <1>2, <1>6, SafeFacts
<1>8. PICK e : e = IF p # NULL_OFFSET /\ EndIn(s, p) = b THEN p ELSE b
  OBVIOUS
<1>9. PICK d : d = IF n # NULL_OFFSET /\ EndIn(s, b) = n THEN n ELSE e
  OBVIOUS
<1>10. PICK m1 : m1 = IF b # e THEN Unlink(mem, FREE_LIST, b) ELSE mem
  OBVIOUS
<1>11. PICK m2 : m2 = IF d # e THEN Unlink(m1, FREE_LIST, d) ELSE m1
  OBVIOUS
<1>12. PICK F1 : F1 = IF b # e THEN F \ {b} ELSE F
  OBVIOUS
<1>13. PICK s1 : s1 = IF b # e THEN Join(s, e, b) ELSE s
  OBVIOUS
<1>14. PICK F2 : F2 = IF d # e THEN F1 \ {d} ELSE F1
  OBVIOUS
<1>15. PICK s2 : s2 = IF d # e THEN Join(s1, e, d) ELSE s1
  OBVIOUS
<1>16. HalvesFit(s, F, b, p, n, e, d, s1, F1, m1, s2, F2, m2)
  <2>1. Halves(s, F, b, p, n, e, d, s1, F1, m1, s2, F2, m2)
    BY <1>8, <1>9, <1>10, <1>11, <1>12, <1>13, <1>14, <1>15 DEF Halves
  <2> QED
    BY <1>1, <1>2, <1>3, <1>4, <1>5, <2>1, MergeInHalves
<1>17. /\ b \in F /\ d \in F1 /\ (e # b => e = p) /\ (d # e => d = n)
       /\ PrevContiguous(mem, b) <=> e # b
       /\ NextContiguous(mem, b) <=> d # e
       /\ F2 \subseteq F /\ e \in F2 /\ DOMAIN s2 = (DOMAIN s \ F) \cup F2
       /\ \A x \in DOMAIN s2 \ {e} : s2[x] = s[x]
       /\ Coalesce(mem, b) = [m2 EXCEPT ![SizeOf(e)] = s2[e]]
       /\ s2[e] \in Word /\ SizeOf(e) \in Cells
       /\ \A a \in Cells : a # FREE_LIST /\ a \notin Links(F) => m2[a] = mem[a]
  BY <1>16 DEF HalvesFit
<1>18. /\ m1 \in Memory /\ Linked(m1, FREE_LIST, F1, Place) /\ F1 \subseteq F
       /\ \A a \in Cells : a # FREE_LIST /\ a \notin Links(F) => m1[a] = mem[a]
       /\ m2 \in Memory /\ Linked(m2, FREE_LIST, F2, Place) /\ Tiles(s2)
  BY <1>16 DEF HalvesFit, Merged
<1>19. PICK st1 : st1 = IF e # b THEN UnlinkStores(mem, FREE_LIST, b) ELSE <<>>
  OBVIOUS
<1>20. PICK st2 : st2 = IF d # e THEN UnlinkStores(m1, FREE_LIST, d) ELSE <<>>
  OBVIOUS
<1>21. PICK X1 : Leaves(mem, st1, m1, X1) /\ Fewer(mem, X1, F)
  <2>1. PICK joins \in BOOLEAN : joins <=> e # b
    OBVIOUS
  <2>2. /\ st1 = IF joins THEN UnlinkStores(mem, FREE_LIST, b) ELSE <<>>
        /\ m1 = IF joins THEN Unlink(mem, FREE_LIST, b) ELSE mem
    BY <1>10, <1>19, <2>1
  <2> QED
    BY <1>7, <1>17, <2>2, TornHalf
<1>22. PICK X2 : Leaves(m1, st2, m2, X2) /\ Fewer(m1, X2, F1)
  <2>1. PICK joins \in BOOLEAN : joins <=> d # e
    OBVIOUS
  <2>2. /\ st2 = IF joins THEN UnlinkStores(m1, FREE_LIST, d) ELSE <<>>
        /\ m2 = IF joins THEN Unlink(m1, FREE_LIST, d) ELSE m1
    BY <1>11, <1>20, <2>1
  <2>3. Apart(F1)
    BY <1>7, <1>18 DEF Apart
  <2> QED
    BY <1>17, <1>18, <2>2, <2>3, TornHalf
<1>23. PICK w \in Word : w = s2[e]
  BY <1>17
<1>24. PICK N : N = [m2 EXCEPT ![SizeOf(e)] = w]
  OBVIOUS
<1>25. PICK st3 : st3 = << <<SizeOf(e), w>> >> /\ Leaves(m2, st3, N, {m2, N})
  <2>1. PICK a \in Cells : a = SizeOf(e)
    BY <1>17
  <2> QED
    BY <1>18, <1>24, <2>1, OneStore
<1>26. Leaves(mem, (st1 \o st2) \o st3, N, (X1 \cup X2) \cup {m2, N})
  <2>1. PICK st : st = st1 \o st2
    OBVIOUS
  <2>2. Leaves(mem, st, m2, X1 \cup X2)
    BY <1>7, <1>18, <1>21, <1>22, <2>1, InTurn
  <2> QED
    BY <1>7, <1>18, <1>25, <2>1, <2>2, InTurn
<1>27. CoalesceStores(mem, b) = IF e = b /\ d = e THEN <<>> ELSE (st1 \o st2) \o st3
  <2>1. PICK last : last = IF PrevContiguous(mem, b) THEN p ELSE b
    OBVIOUS
  <2>2. last = e
    BY <1>17, <2>1
  <2>3. Coalesce(mem, b)[SizeOf(last)] = w
    BY <1>17, <1>18, <1>23, <2>2 DEF Memory
  <2>4. << <<SizeOf(last), Coalesce(mem, b)[SizeOf(last)]>> >> = st3
    BY <1>25, <2>2, <2>3
  <2>5. st1 = IF PrevContiguous(mem, b) THEN UnlinkStores(mem, FREE_LIST, b) ELSE <<>>
    BY <1>17, <1>19
  <2>6. Perform(mem, st1) = m1
    BY <1>21 DEF Leaves
  <2>7. st2 = IF NextContiguous(mem, b) THEN UnlinkStores(Perform(mem, st1), FREE_LIST, n) ELSE <<>>
    BY <1>17, <1>20, <2>6
  <2>8. CoalesceStores(mem, b) =
          IF ~ PrevContiguous(mem, b) /\ ~ NextContiguous(mem, b) THEN <<>>
          ELSE st1 \o st2 \o << <<SizeOf(last), Coalesce(mem, b)[SizeOf(last)]>> >>
    BY <1>4, <1>5, <2>1, <2>5, <2>7 DEF CoalesceStores
  <2> QED
    BY <1>17, <2>4, <2>8
<1>28. M = mem \/ M \in X1 \/ M \in X2 \/ M = N
  <2>1. PICK st : st = CoalesceStores(mem, b)
    OBVIOUS
  <2>2. M \in Midway(mem, st)
    BY <1>3, <2>1
  <2>3. CASE e = b /\ d = e
    <3>1. Leaves(mem, st, mem, {mem})
      BY <1>7, <1>27, <2>1, <2>3, NoStore
    <3> QED
      BY <2>2, <3>1 DEF Leaves
  <2>4. CASE ~ (e = b /\ d = e)
    <3>1. Leaves(mem, st, N, (X1 \cup X2) \cup {m2, N})
      BY <1>26, <1>27, <2>1, <2>4
    <3>2. M \in (X1 \cup X2) \cup {m2, N}
      BY <2>2, <3>1 DEF Leaves
    <3>3. m2 \in X2
      BY <1>22 DEF Leaves
    <3> QED
      BY <3>2, <3>3
  <2> QED
    BY <2>3, <2>4
<1>29. ASSUME OnlyLinks(mem, M, FREE_LIST, F), NEW G, G \subseteq F, Forward(M, FREE_LIST, G, Place)
       PROVE  SafeToLoad(M)
  <2>1. F \cap DOMAIN held = {} /\ \A x \in G : mem[SizeOf(x)] = s[x]
    BY <1>6, <1>7, <1>29
  <2> QED
    BY <1>1, <1>2, <1>7, <1>29, <2>1, TornFree
<1>30. CASE M = mem
  BY <1>1, <1>2, <1>30, UntouchedIsSafe
<1>31. CASE M \in X1
  BY <1>21, <1>29, <1>31 DEF Fewer
<1>32. CASE M \in X2
  <2>1. OnlyLinks(m1, M, FREE_LIST, F1)
    BY <1>22, <1>32 DEF Fewer
  <2>2. PICK G \in SUBSET F1 : Forward(M, FREE_LIST, G, Place)
    BY <1>22, <1>32 DEF Fewer
  <2>3. G \subseteq F
    BY <1>18
  <2>4. Links(F1) \subseteq Links(F)
    BY <1>18 DEF Links
  <2>5. OnlyLinks(mem, M, FREE_LIST, F)
    BY <1>18, <2>1, <2>4 DEF OnlyLinks
  <2> QED
    BY <1>29, <2>2, <2>3, <2>5
<1>33. CASE M = N
  <2>1. PICK A : A = DOMAIN s /\ Apart(A) /\ H \subseteq A /\ F \subseteq A /\ F2 \subseteq A /\ e \in A
    BY <1>7, <1>17
  <2>2. PICK z : z = SizeOf(e)
    OBVIOUS
  <2>3. N[z] = w /\ \A a \in Cells : a # z => N[a] = m2[a]
    BY <1>17, <1>18, <1>24, <2>2 DEF Memory
  <2>4. /\ z \notin Heads /\ z \notin Links(H) /\ z \notin Links(F2)
        /\ Links(H) \cap Links(F) = {} /\ FREE_LIST \notin Links(H) /\ USED_LIST \notin Links(F)
        /\ FREE_LIST \in Heads /\ USED_LIST \in Heads /\ FREE_LIST # USED_LIST
        /\ FREE_LIST \in Cells /\ USED_LIST \in Cells
    BY <1>7, <2>1, <2>2, LinkCells
  <2>5. \A f \in H : NextOf(f) \in Links(H) /\ NextOf(f) \in Cells
    BY <1>7, <2>4, ListCells
  <2>6. Apart(F2)
    BY <1>7, <1>17 DEF Apart
  <2>7. \A f \in F2 : NextOf(f) \in Links(F2) /\ NextOf(f) \in Cells
    BY <2>4, <2>6, ListCells
  <2>8. Forward(N, USED_LIST, H, r)
    <3>1. N[USED_LIST] = mem[USED_LIST]
      BY <1>17, <2>3, <2>4
    <3>2. \A f \in H : N[NextOf(f)] = mem[NextOf(f)]
      BY <1>17, <2>3, <2>4, <2>5
    <3> QED
      BY <1>7, <3>1, <3>2, ForwardFrame
  <2>9. Forward(N, FREE_LIST, F2, Place)
    <3>1. Forward(m2, FREE_LIST, F2, Place)
      BY <1>18, LinkedForward
    <3>2. N[FREE_LIST] = m2[FREE_LIST]
      BY <2>3, <2>4
    <3>3. \A f \in F2 : N[NextOf(f)] = m2[NextOf(f)]
      BY <2>3, <2>4, <2>7
    <3> QED
      BY <3>1, <3>2, <3>3, ForwardFrame
  <2>10. \A x \in H \cup F2 : N[SizeOf(x)] = s2[x]
    <3> SUFFICES ASSUME NEW x \in H \cup F2
                 PROVE  N[SizeOf(x)] = s2[x]
      OBVIOUS
    <3>1. CASE x = e
      BY <1>23, <2>2, <2>3, <3>1
    <3>2. CASE x # e
      <4>1. x \in A /\ SizeOf(x) \in Cells /\ SizeOf(x) # z
        BY <2>1, <2>2, <3>2, HeaderCells
      <4>2. SizeOf(x) # FREE_LIST /\ SizeOf(x) \notin Links(F)
        BY <2>1, <2>4, <4>1, LinkCells
      <4>3. N[SizeOf(x)] = mem[SizeOf(x)]
        BY <1>17, <2>3, <4>1, <4>2
      <4>4. mem[SizeOf(x)] = s[x] /\ s2[x] = s[x]
        BY <1>7, <1>17, <2>1, <3>2
      <4> QED
        BY <4>3, <4>4
    <3> QED
      BY <3>1, <3>2
  <2>11. H \subseteq DOMAIN s2 /\ F2 \subseteq DOMAIN s2 /\ H \cap F2 = {}
    BY <1>7, <1>17
  <2>12. ForwardListsAreSound(N) /\ Visited(N, USED_LIST) = H
    BY <1>18, <2>8, <2>9, <2>10, <2>11, SafeFile
  <2> QED
    BY <1>6, <1>33, <2>12 DEF SafeToLoad
<1> QED
  BY <1>28, <1>30, <1>31, <1>32, <1>33

----------------------------------------------------------------------------

\* alloc() looks at a block, and takes it if it is large enough.
LEMMA ScanIsSafe ==
    ASSUME PoolInv, pc = "scan",
           NEW M \in Midway(mem, IF curr # NULL_OFFSET /\ mem[SizeOf(curr)] >= alloc_size
                                 THEN UnlinkStores(mem, FREE_LIST, curr) ELSE <<>>)
    PROVE  SafeToLoad(M)
<1>1. TypeOK
  BY DEF PoolInv
<1>2. PICK s, F, r : PoolOK(s, F, r)
  BY DEF PoolInv
<1>3. curr = NULL_OFFSET \/ curr \in F
  BY <1>2 DEF PoolOK, AllocOK
<1>4. CASE curr # NULL_OFFSET /\ mem[SizeOf(curr)] >= alloc_size
  <2>1. PICK b : b = curr /\ b \in F
    BY <1>3, <1>4
  <2>2. M \in Midway(mem, UnlinkStores(mem, FREE_LIST, b))
    BY <1>4, <2>1
  <2> QED
    BY <1>1, <1>2, <2>1, <2>2, TakeIsSafe
<1>5. CASE ~ (curr # NULL_OFFSET /\ mem[SizeOf(curr)] >= alloc_size)
  <2>1. PICK st : st = <<>> /\ M \in Midway(mem, st)
    BY <1>5
  <2>2. mem \in Memory
    BY <1>1, <1>2, PoolFacts
  <2>3. Leaves(mem, st, mem, {mem})
    BY <2>1, <2>2, NoStore
  <2>4. M = mem
    BY <2>1, <2>3 DEF Leaves
  <2> QED
    BY <1>1, <1>2, <2>4, UntouchedIsSafe
<1> QED
  BY <1>4, <1>5

\* So it is in every step.
LEMMA StoresAreSafe == PoolInv => EveryStoreIsSafe
<1> SUFFICES ASSUME PoolInv, NEW M \in Torn
             PROVE  SafeToLoad(M)
  BY DEF EveryStoreIsSafe, SafeToLoad
<1>1. PICK st \in NextStores : M \in Midway(mem, st)
  BY DEF Torn, Midway
<1>2. TypeOK
  BY DEF PoolInv
<1>3. PICK s, F, r : PoolOK(s, F, r)
  BY DEF PoolInv
<1>4. mem \in Memory
  BY <1>2, <1>3, PoolFacts
<1>5. ASSUME st = <<>>
      PROVE  SafeToLoad(M)
  <2>1. Leaves(mem, st, mem, {mem})
    BY <1>4, <1>5, NoStore
  <2>2. M = mem
    BY <1>1, <2>1 DEF Leaves
  <2> QED
    BY <1>2, <1>3, <2>2, UntouchedIsSafe
<1>6. CASE pc = "idle"
  <2>1. st = <<>> \/ \E b \in DOMAIN held : st = UnlinkStores(mem, USED_LIST, b)
    BY <1>1, <1>6 DEF NextStores
  <2>2. ASSUME NEW b \in DOMAIN held, st = UnlinkStores(mem, USED_LIST, b)
        PROVE  SafeToLoad(M)
    BY <1>1, <1>2, <1>3, <1>6, <2>2, FreeCallIsSafe
  <2> QED
    BY <1>5, <2>1, <2>2
<1>7. CASE pc = "scan"
  <2>1. st = IF curr # NULL_OFFSET /\ mem[SizeOf(curr)] >= alloc_size
             THEN UnlinkStores(mem, FREE_LIST, curr) ELSE <<>>
    BY <1>1, <1>7 DEF NextStores
  <2> QED
    BY <1>1, <1>7, <2>1, ScanIsSafe
<1>8. CASE pc = "split"
  <2>1. st = << <<SizeOf(block + BlockSize + alloc_size),
                  mem[SizeOf(block)] - alloc_size - BlockSize>> >>
    BY <1>1, <1>8 DEF NextStores
  <2> QED
    BY <1>1, <1>8, <2>1, SplitIsSafe
<1>9. CASE pc = "shrink"
  <2>1. st = << <<SizeOf(block), alloc_size>> >>
    BY <1>1, <1>9 DEF NextStores
  <2> QED
    BY <1>1, <1>9, <2>1, ShrinkIsSafe
<1>10. CASE pc = "push"
  <2>1. st = PushUsedStores(mem, block)
    BY <1>1, <1>10 DEF NextStores
  <2> QED
    BY <1>1, <1>10, <2>1, PushIsSafe
<1>11. CASE pc = "insert"
  <2>1. st = IF NotInserting THEN <<>> ELSE InsertStores
    BY <1>1, <1>11 DEF NextStores
  <2> QED
    BY <1>1, <1>11, <2>1, InsertIsSafe
<1>12. CASE pc = "coalesce"
  <2>1. st = CoalesceStores(mem, inserted)
    BY <1>1, <1>12 DEF NextStores
  <2> QED
    BY <1>1, <1>12, <2>1, CoalesceIsSafe
<1>13. CASE pc \notin {"idle", "scan", "split", "shrink", "push", "insert", "coalesce"}
  <2>1. st = <<>>
    BY <1>1, <1>13 DEF NextStores
  <2> QED
    BY <1>5, <2>1
<1> QED
  BY <1>6, <1>7, <1>8, <1>9, <1>10, <1>11, <1>12, <1>13

\* However large the file and whatever was allocated and freed before: when the process
\* is killed after any of the stores of alloc() or free(), the next one finds two lists
\* that end, of blocks that do not overlap, and in the used list the blocks in use, but
\* for the one the interrupted call was about (FileBackedBuffer::alloc() and free()).
THEOREM EveryPrefixIsSafe == CleanSpec => []EveryStoreIsSafe
  BY PoolInvariance, StoresAreSafe, PTL
=============================================================================
