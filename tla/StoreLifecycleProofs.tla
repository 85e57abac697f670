------------------------ MODULE StoreLifecycleProofs ------------------------
(***************************************************************************)
(* Proofs that a restart loads a sound table, and the map that get() had   *)
(* answered from, if the process died between calls (QuietSpec), for any   *)
(* number of threads, calls and restarts.                                  *)
(*                                                                         *)
(* The file keeps two facts while the process is down: the used list is    *)
(* the blocks in use, each once, and no two of them have the same key.     *)
(* From those the constructor's loop builds a table that satisfies the     *)
(* invariant of the chains: there the proofs about threads take over.      *)
(***************************************************************************)
EXTENDS StoreLifecycle, LinearizabilityProofs, FiniteSetTheorems, SequenceTheorems

\* The used list of the file: the blocks in use, each once.
ListOK ==
    /\ used_list \in Seq(Blocks)
    /\ \A i, j \in DOMAIN used_list : used_list[i] = used_list[j] => i = j
    /\ m_buffer = {used_list[i] : i \in DOMAIN used_list}

\* Between calls a thread keeps no bucket.
IdleKeepsNothing ==
    \A t \in Threads : pc[t] = "idle" => curr[t] = NULL /\ bucket[t] = NULL

\* No thread is in a call, and so none has a pointer or a lock.
NobodyInside ==
    /\ {m_write_mutex, m_mutex, pointer_mutex} = {NoThread}
    /\ block_key   \in [Blocks -> Keys \cup {Empty}]
    /\ block_value \in [Blocks -> Values \cup {Empty}]
    /\ pc          = [t \in Threads |-> "idle"]
    /\ op          = [t \in Threads |-> "none"]
    /\ key         \in [Threads -> Keys \cup {Empty}]
    /\ value       \in [Threads -> Values \cup {Empty}]
    /\ data_buffer = [t \in Threads |-> NoBlock]
    /\ curr        = [t \in Threads |-> NULL]
    /\ bucket      = [t \in Threads |-> NULL]
    /\ ref         = [t \in Threads |-> NoBlock]
    /\ doomed      = [t \in Threads |-> NoBlock]
    /\ result      = [t \in Threads |-> Empty]

\* What the destructor has still to free, it has a bucket for.
Closing ==
    /\ NobodyInside
    /\ last_exit = "close"
    /\ key_value_data \in Seq(Blocks \cup {NoBlock})
    /\ m_buffer \subseteq {key_value_data[i] : i \in DOMAIN key_value_data}

\* The blocks in the file have keys of their own.
BlocksApart ==
    /\ \A b \in m_buffer : block_key[b] \in Keys
    /\ \A b, c \in m_buffer : block_key[b] = block_key[c] => b = c

\* What get(k) answered last, read off the blocks in the file.
Remembered ==
    \A k \in Keys :
      /\ \A b \in m_buffer : block_key[b] = k => remembered[k] = block_value[b]
      /\ (\A b \in m_buffer : block_key[b] # k) => remembered[k] = Empty

Down ==
    /\ NobodyInside
    /\ BlocksApart
    /\ last_exit = "crash" => Remembered

\* The inductive invariant.
LifeInv ==
    /\ process \in {"up", "closing", "down"}
    /\ ListOK
    /\ process = "up" => ChainInv /\ IdleKeepsNothing
    /\ process = "closing" => Closing
    /\ process = "down" => Down

----------------------------------------------------------------------------
(* The used list follows the blocks in use.                                *)

\* alloc() and free() are called for one block at a time.
LEMMA OneBlock ==
    ASSUME IInv, NEW t \in Threads, Call(t) \/ Step(t)
    PROVE  \/ m_buffer' = m_buffer
           \/ \E b \in Blocks : m_buffer' = m_buffer \cup {b}
           \/ \E b : m_buffer' = m_buffer \ {b}
BY DEF Call, Step, Lock, LockBuffer, LockPointer, Find, GetStep, PutStep, FindHead, FindLoad,
   FindCompare, GetReload, GetCopy, PutLock, PutAlloc, PutAllocFails, PutNewBucket, PutPublish,
   PutDropOld, StoreBucket, PutUnlock, Return, FreeBlock, CallGet, CallPut, PutWriteKey,
   PutWriteValue, UnderBufferMutex, blockVars, callVars, tableVars

\* With one element in front the others move back.
LEMMA FrontAdded ==
    ASSUME NEW S, NEW s \in Seq(S), NEW b \in S, NEW r, r = <<b>> \o s
    PROVE  /\ r \in Seq(S) /\ DOMAIN r = 1 .. Len(s) + 1 /\ DOMAIN s = 1 .. Len(s)
           /\ Len(s) \in Nat /\ r[1] = b
           /\ \A i \in 1 .. Len(s) : r[i + 1] = s[i]
           /\ \A i \in 2 .. Len(s) + 1 : r[i] = s[i - 1]
OBVIOUS

\* Without the k-th element the later ones move up.
LEMMA OneRemoved ==
    ASSUME NEW S, NEW s \in Seq(S), NEW k \in DOMAIN s, NEW r, r = RemoveAt(s, k)
    PROVE  /\ r \in Seq(S) /\ DOMAIN r = 1 .. Len(s) - 1 /\ DOMAIN s = 1 .. Len(s)
           /\ Len(s) \in Nat
           /\ \A i \in 1 .. Len(s) - 1 : r[i] = IF i < k THEN s[i] ELSE s[i + 1]
<1>1. Len(s) \in Nat /\ DOMAIN s = 1 .. Len(s) /\ k \in 1 .. Len(s)
  OBVIOUS
<1>2. PICK n \in Nat : n = Len(s)
  BY <1>1
<1>3. PICK u : u = SubSeq(s, 1, k - 1)
  OBVIOUS
<1>4. PICK v : v = SubSeq(s, k + 1, n)
  OBVIOUS
<1>5. u \in Seq(S) /\ Len(u) = k - 1 /\ \A i \in 1 .. k - 1 : u[i] = s[i]
  BY <1>1, <1>3, SubSeqProperties
<1>6. v \in Seq(S) /\ Len(v) = n - k /\ \A i \in 1 .. n - k : v[i] = s[k + i]
  BY <1>1, <1>2, <1>4, SubSeqProperties
<1>7. r = u \o v
  BY <1>2, <1>3, <1>4 DEF RemoveAt
<1>8. r \in Seq(S) /\ Len(r) = n - 1
  <2>1. u \in Seq(S) /\ v \in Seq(S)
    BY <1>5, <1>6
  <2>2. r \in Seq(S) /\ Len(r) = Len(u) + Len(v)
    BY <1>7, <2>1, ConcatProperties
  <2>3. Len(u) = k - 1 /\ Len(v) = n - k /\ k \in Int
    BY <1>1, <1>5, <1>6
  <2> QED
    BY <2>2, <2>3
<1>9. \A i \in 1 .. n - 1 : r[i] = IF i <= k - 1 THEN u[i] ELSE v[i - (k - 1)]
  BY <1>1, <1>2, <1>5, <1>6, <1>7
<1>10. ASSUME NEW i \in 1 .. n - 1
       PROVE  r[i] = IF i < k THEN s[i] ELSE s[i + 1]
  <2>1. i \in Int /\ k \in Int /\ k >= 1
    BY <1>1, <1>2
  <2>2. CASE i < k
    <3>1. r[i] = u[i] /\ i \in 1 .. k - 1
      BY <1>9, <2>1, <2>2
    <3> QED
      BY <1>5, <2>2, <3>1
  <2>3. CASE ~ (i < k)
    <3>1. PICK j : j = i - (k - 1)
      OBVIOUS
    <3>2. j \in 1 .. n - k /\ k + j = i + 1
      BY <1>1, <1>2, <2>1, <2>3, <3>1
    <3>3. r[i] = v[j] /\ v[j] = s[k + j]
      BY <1>6, <1>9, <2>1, <2>3, <3>1, <3>2
    <3> QED
      BY <2>3, <3>2, <3>3
  <2> QED
    BY <2>2, <2>3
<1> QED
  BY <1>1, <1>2, <1>8, <1>10

\* m_buffer has changed by at most one block.
ByOneBlock ==
    \/ m_buffer' = m_buffer
    \/ \E b \in Blocks : m_buffer' = m_buffer \cup {b}
    \/ \E b : m_buffer' = m_buffer \ {b}

\* insert_block_to_used_list() and remove_block_from_list() keep the list exact.
LEMMA ListStep ==
    ASSUME ListOK, ByOneBlock, TrackUsedList
    PROVE  ListOK'
<1>1. PICK s : s = used_list
  OBVIOUS
<1>2. PICK r : r = used_list'
  OBVIOUS
<1>3. /\ s \in Seq(Blocks) /\ m_buffer = {s[i] : i \in DOMAIN s}
      /\ \A i, j \in DOMAIN s : s[i] = s[j] => i = j
  BY <1>1 DEF ListOK
<1>4. SUFFICES /\ r \in Seq(Blocks) /\ m_buffer' = {r[i] : i \in DOMAIN r}
               /\ \A i, j \in DOMAIN r : r[i] = r[j] => i = j
  BY <1>2 DEF ListOK
<1>5. CASE m_buffer' = m_buffer /\ UNCHANGED used_list
  BY <1>1, <1>2, <1>3, <1>5
<1>6. ASSUME NEW b \in m_buffer' \ m_buffer, used_list' = <<b>> \o used_list
      PROVE  /\ r \in Seq(Blocks) /\ m_buffer' = {r[i] : i \in DOMAIN r}
             /\ \A i, j \in DOMAIN r : r[i] = r[j] => i = j
  <2>1. b \in Blocks /\ m_buffer' = m_buffer \cup {b} /\ b \notin m_buffer
    BY DEF ByOneBlock
  <2>2. r = <<b>> \o s
    BY <1>1, <1>2, <1>6
  <2>3. /\ r \in Seq(Blocks) /\ DOMAIN r = 1 .. Len(s) + 1 /\ DOMAIN s = 1 .. Len(s)
        /\ Len(s) \in Nat /\ r[1] = b
        /\ \A i \in 1 .. Len(s) : r[i + 1] = s[i]
        /\ \A i \in 2 .. Len(s) + 1 : r[i] = s[i - 1]
    BY <1>3, <2>1, <2>2, FrontAdded
  <2>4. \A i \in DOMAIN r : \/ i = 1 /\ r[i] = b
                            \/ i - 1 \in DOMAIN s /\ r[i] = s[i - 1]
    BY <2>3
  <2>5. \A i \in DOMAIN s : i + 1 \in DOMAIN r /\ r[i + 1] = s[i]
    BY <2>3
  <2>6. m_buffer' = {r[i] : i \in DOMAIN r}
    <3>1. ASSUME NEW x \in m_buffer'
          PROVE  \E i \in DOMAIN r : r[i] = x
      <4>1. 1 \in DOMAIN r /\ r[1] = b
        BY <2>3
      <4> QED
        BY <1>3, <2>1, <2>5, <4>1
    <3>2. ASSUME NEW i \in DOMAIN r
          PROVE  r[i] \in m_buffer'
      BY <1>3, <2>1, <2>4
    <3> QED
      BY <3>1, <3>2
  <2>7. ASSUME NEW i \in DOMAIN r, NEW j \in DOMAIN r, r[i] = r[j]
        PROVE  i = j
    <3>1. \A k \in DOMAIN s : s[k] # b
      BY <1>3, <2>1
    <3>2. i \in Int /\ j \in Int
      BY <2>3
    <3>3. \/ i = 1 /\ j = 1
          \/ i - 1 \in DOMAIN s /\ j - 1 \in DOMAIN s /\ s[i - 1] = s[j - 1]
      BY <2>4, <2>7, <3>1
    <3>4. i = j \/ i - 1 = j - 1
      BY <1>3, <3>3
    <3> QED
      BY <3>2, <3>4
  <2> QED
    BY <2>3, <2>6, <2>7
<1>7. ASSUME NEW k \in DOMAIN used_list, used_list[k] \notin m_buffer',
             used_list' = RemoveAt(used_list, k)
      PROVE  /\ r \in Seq(Blocks) /\ m_buffer' = {r[i] : i \in DOMAIN r}
             /\ \A i, j \in DOMAIN r : r[i] = r[j] => i = j
  <2>1. k \in DOMAIN s /\ r = RemoveAt(s, k) /\ s[k] \notin m_buffer' /\ s[k] \in m_buffer
    BY <1>1, <1>2, <1>3, <1>7
  <2>2. m_buffer' = m_buffer \ {s[k]}
    BY <2>1 DEF ByOneBlock
  <2>3. /\ r \in Seq(Blocks) /\ DOMAIN r = 1 .. Len(s) - 1 /\ DOMAIN s = 1 .. Len(s)
        /\ Len(s) \in Nat
        /\ \A i \in 1 .. Len(s) - 1 : r[i] = IF i < k THEN s[i] ELSE s[i + 1]
    BY <1>3, <2>1, OneRemoved
  <2>4. k \in Nat
    BY <2>1, <2>3
  <2>5. PICK place : place = [i \in DOMAIN r |-> IF i < k THEN i ELSE i + 1]
    OBVIOUS
  <2>6. \A i \in DOMAIN r : /\ place[i] \in DOMAIN s /\ place[i] # k /\ r[i] = s[place[i]]
    BY <2>1, <2>3, <2>4, <2>5
  <2>7. \A i, j \in DOMAIN r : place[i] = place[j] => i = j
    BY <2>3, <2>4, <2>5
  <2>8. ASSUME NEW m \in DOMAIN s, m # k
        PROVE  \E i \in DOMAIN r : place[i] = m
    <3>1. PICK i \in DOMAIN r : i = IF m < k THEN m ELSE m - 1
      BY <2>1, <2>3, <2>4, <2>8
    <3>2. m \in Int /\ i \in Int /\ (i < k => i = m) /\ (~ (i < k) => i + 1 = m)
      BY <2>3, <2>4, <2>8, <3>1
    <3>3. place[i] = IF i < k THEN i ELSE i + 1
      BY <2>5
    <3>4. place[i] = m
      BY <3>2, <3>3
    <3> QED
      BY <3>4
  <2>9. m_buffer' = {r[i] : i \in DOMAIN r}
    <3>1. ASSUME NEW x \in m_buffer'
          PROVE  \E i \in DOMAIN r : r[i] = x
      <4>1. PICK m \in DOMAIN s : x = s[m] /\ m # k
        BY <1>3, <2>2
      <4> QED
        BY <2>6, <2>8, <4>1
    <3>2. ASSUME NEW i \in DOMAIN r
          PROVE  r[i] \in m_buffer'
      BY <1>3, <2>1, <2>2, <2>6
    <3> QED
      BY <3>1, <3>2
  <2>10. \A i, j \in DOMAIN r : r[i] = r[j] => i = j
    BY <1>3, <2>6, <2>7
  <2> QED
    BY <2>3, <2>9, <2>10
<1> QED
  BY <1>5, <1>6, <1>7 DEF TrackUsedList

----------------------------------------------------------------------------
(* The constructor.                                                        *)

\* Max of a set of bucket numbers: how many numbers are below some member.
LEMMA Largest ==
    ASSUME NEW n \in Nat, NEW S, S \subseteq 1 .. n, S # {}
    PROVE  Max(S) \in S /\ \A x \in S : x <= Max(S)
<1> DEFINE Below == {c \in 0 .. n : \E x \in S : c < x}
<1>1. PICK B : B = Below
  OBVIOUS
<1>2. /\ \A c : c \in B <=> c \in 0 .. n /\ \E x \in S : c < x
      /\ B \subseteq 0 .. n
  BY <1>1
<1>3. PICK k : k = Cardinality(B)
  OBVIOUS
<1>4. IsFiniteSet(0 .. n) /\ IsFiniteSet(B) /\ k \in Nat
  <2>1. IsFiniteSet(0 .. n)
    BY FS_Interval
  <2>2. IsFiniteSet(B)
    BY <1>2, <2>1, FS_Subset
  <2> QED
    BY <1>3, <2>1, <2>2, FS_CardinalityType
<1>5. \A c \in B : 0 .. c \subseteq B
  <2> SUFFICES ASSUME NEW c \in B, NEW d \in 0 .. c
               PROVE  d \in B
    OBVIOUS
  <2>1. PICK x \in S : c < x
    BY <1>2
  <2>2. c \in 0 .. n /\ x \in Nat /\ d \in 0 .. n /\ d < x
    BY <1>2, <2>1
  <2> QED
    BY <1>2, <2>2
<1>6. ASSUME NEW c \in B
      PROVE  c + 1 <= k
  <2>1. c \in Nat
    BY <1>2
  <2>2. IsFiniteSet(0 .. c) /\ Cardinality(0 .. c) = c + 1
    BY <2>1, FS_Interval
  <2>3. Cardinality(0 .. c) <= Cardinality(B)
    BY <1>4, <1>5, FS_Subset
  <2> QED
    BY <1>3, <2>2, <2>3
<1>7. ASSUME NEW c \in 0 .. n, c \notin B
      PROVE  k <= c
  <2>1. \A d \in B : d \in 0 .. c - 1
    <3> SUFFICES ASSUME NEW d \in B
                 PROVE  d < c
      BY <1>2
    <3>1. c \notin 0 .. d /\ d \in 0 .. n
      BY <1>2, <1>5, <1>7
    <3> QED
      BY <3>1
  <2>2. IsFiniteSet(0 .. c - 1) /\ Cardinality(0 .. c - 1) = c
    BY FS_Interval
  <2>3. Cardinality(B) <= Cardinality(0 .. c - 1)
    BY <2>1, <2>2, FS_Subset
  <2> QED
    BY <1>3, <2>2, <2>3
<1>8. n \notin B
  BY <1>2
<1>9. k \in 0 .. n
  <2>1. k <= n
    BY <1>7, <1>8
  <2> QED
    BY <1>4, <2>1
<1>10. k \notin B
  <2>1. ASSUME k \in B PROVE FALSE
    <3>1. k + 1 <= k
      BY <1>6, <2>1
    <3> QED
      BY <1>4, <3>1
  <2> QED
    BY <2>1
<1>11. \A x \in S : x <= k
  BY <1>2, <1>9, <1>10
<1>12. k >= 1
  <2>1. PICK x \in S : x \in 1 .. n
    OBVIOUS
  <2> QED
    BY <1>9, <1>11, <2>1
<1>13. k - 1 \in B
  <2>1. k - 1 \in 0 .. n
    BY <1>9, <1>12
  <2>2. ASSUME k - 1 \notin B PROVE FALSE
    <3>1. k <= k - 1
      BY <1>7, <2>1, <2>2
    <3> QED
      BY <1>4, <3>1
  <2> QED
    BY <2>2
<1>14. k \in S
  <2>1. PICK x \in S : k - 1 < x
    BY <1>2, <1>13
  <2>2. x \in Nat /\ x <= k
    BY <1>11, <2>1
  <2>3. x = k
    BY <1>4, <2>1, <2>2
  <2> QED
    BY <2>3
<1>15. k \in S /\ \A y \in S : k >= y
  BY <1>4, <1>11, <1>14
<1>16. Max(S) \in S /\ \A y \in S : Max(S) >= y
  BY <1>15 DEF Max
<1> QED
  BY <1>16

\* Bucket f is the newest of buckets 1 to m that go into the chain at index.
IsFront(f, home, index, m) ==
    /\ f \in 0 .. m
    /\ f # NULL => home[f] = index
    /\ \A i \in 1 .. m : home[i] = index => i <= f

\* Storing buckets 1 to m, each in front of its chain, leaves the newest in front.
LEMMA FrontIsNewest ==
    ASSUME NEW m \in Nat, NEW home, NEW index, NEW S, S = {i \in 1 .. m : home[i] = index},
           NEW f, f = IF S = {} THEN NULL ELSE Max(S)
    PROVE  IsFront(f, home, index, m)
<1>1. S \subseteq 1 .. m /\ \A i : i \in S <=> i \in 1 .. m /\ home[i] = index
  OBVIOUS
<1>2. CASE S = {}
  BY <1>1, <1>2 DEF IsFront, NULL
<1>3. CASE S # {}
  <2>1. f \in S /\ \A x \in S : x <= f
    BY <1>1, <1>3, Largest
  <2> QED
    BY <1>1, <2>1 DEF IsFront, NULL
<1> QED
  BY <1>2, <1>3

\* The table that the constructor's loop over the used list has built: bucket i has
\* the i-th block of the list and leads to the next older one of its chain.
LoadedFrom(s, home) ==
    /\ key_value_data = s
    /\ next_bucket  \in [1 .. Len(s) -> Nat]
    /\ m_hash_table \in [Indexes -> Nat]
    /\ \A i \in 1 .. Len(s) : IsFront(next_bucket[i], home, home[i], i - 1)
    /\ \A index \in Indexes : IsFront(m_hash_table[index], home, index, Len(s))

\* The blocks that it was built from.
GoodList(s, home) ==
    /\ s \in Seq(Blocks)
    /\ home \in [1 .. Len(s) -> Indexes]
    /\ m_buffer = {s[i] : i \in DOMAIN s}
    /\ \A i \in DOMAIN s : home[i] = Hash[block_key[s[i]]] /\ block_key[s[i]] \in Keys
    /\ \A i, j \in DOMAIN s : block_key[s[i]] = block_key[s[j]] => i = j

\* The constructor builds that table, and touches no block.
LEMMA OpenLoads ==
    ASSUME ListOK, Down, Open
    PROVE  /\ NobodyInside' /\ ListOK'
           /\ \E s, home : LoadedFrom(s, home)' /\ GoodList(s, home)'
<1>1. PICK s : s = used_list
  OBVIOUS
<1>2. PICK n : n = Len(s)
  OBVIOUS
<1>3. /\ s \in Seq(Blocks) /\ n \in Nat /\ DOMAIN s = 1 .. n
      /\ m_buffer = {s[i] : i \in DOMAIN s}
      /\ \A i, j \in DOMAIN s : s[i] = s[j] => i = j
  BY <1>1, <1>2 DEF ListOK
<1>4. PICK home : home = [i \in 1 .. n |-> Hash[block_key[s[i]]]]
  OBVIOUS
<1>5. /\ \A i \in 1 .. n : s[i] \in m_buffer /\ s[i] \in Blocks /\ block_key[s[i]] \in Keys
      /\ \A i, j \in DOMAIN s : block_key[s[i]] = block_key[s[j]] => i = j
  BY <1>3 DEF Down, BlocksApart
<1>6. home \in [1 .. n -> Indexes] /\ \A i \in DOMAIN s : home[i] = Hash[block_key[s[i]]]
  BY <1>3, <1>4, <1>5, HashAssumption
<1>7. /\ NobodyInside' /\ ListOK' /\ m_buffer' = m_buffer /\ block_key' = block_key
  BY DEF Open, Down, NobodyInside, ListOK, mutexVars, blockVars, callVars
<1>8. GoodList(s, home)'
  BY <1>2, <1>3, <1>5, <1>6, <1>7 DEF GoodList
<1> DEFINE S(index, m) == {i \in 1 .. m : home[i] = index}
           F(index, m) == IF S(index, m) = {} THEN NULL ELSE Max(S(index, m))
<1>9. \A m \in 0 .. n : \A index :
        S(index, m) = {i \in 1 .. m : Hash[block_key[used_list[i]]] = index}
  BY <1>1, <1>3, <1>4
<1>10. /\ key_value_data' = s
       /\ next_bucket' = [i \in 1 .. n |-> F(home[i], i - 1)]
       /\ m_hash_table' = [index \in Indexes |-> F(index, n)]
  <2>1. key_value_data' = s
    BY <1>1 DEF Open
  <2>2. next_bucket' = [i \in 1 .. n |-> F(home[i], i - 1)]
    <3>1. next_bucket' = [i \in 1 .. n |->
            IF {j \in 1 .. i - 1 : Hash[block_key[used_list[j]]] = Hash[block_key[used_list[i]]]} = {}
            THEN NULL
            ELSE Max({j \in 1 .. i - 1 : Hash[block_key[used_list[j]]] = Hash[block_key[used_list[i]]]})]
      BY <1>1, <1>2 DEF Open
    <3>2. ASSUME NEW i \in 1 .. n
          PROVE  {j \in 1 .. i - 1 : Hash[block_key[used_list[j]]] = Hash[block_key[used_list[i]]]}
                   = S(home[i], i - 1)
      <4>1. i - 1 \in 0 .. n /\ home[i] = Hash[block_key[used_list[i]]]
        BY <1>1, <1>3, <1>4
      <4> QED
        BY <1>9, <4>1
    <3> HIDE DEF S
    <3> QED
      BY <3>1, <3>2
  <2>3. m_hash_table' = [index \in Indexes |-> F(index, n)]
    <3>1. m_hash_table' = [index \in Indexes |->
            IF {j \in 1 .. n : Hash[block_key[used_list[j]]] = index} = {}
            THEN NULL
            ELSE Max({j \in 1 .. n : Hash[block_key[used_list[j]]] = index})]
      BY <1>1, <1>2 DEF Open
    <3>2. ASSUME NEW index
          PROVE  {j \in 1 .. n : Hash[block_key[used_list[j]]] = index} = S(index, n)
      BY <1>3, <1>9
    <3> HIDE DEF S
    <3> QED
      BY <3>1, <3>2
  <2> QED
    BY <2>1, <2>2, <2>3
<1>11. ASSUME NEW index, NEW m \in 0 .. n
       PROVE  IsFront(F(index, m), home, index, m) /\ F(index, m) \in Nat
  <2>1. IsFront(F(index, m), home, index, m)
    BY FrontIsNewest
  <2> HIDE DEF F
  <2> QED
    BY <2>1 DEF IsFront
<1> HIDE DEF F
<1>12. LoadedFrom(s, home)'
  <2>1. \A i \in 1 .. n : i - 1 \in 0 .. n
    BY <1>3
  <2>2. next_bucket' \in [1 .. n -> Nat] /\ m_hash_table' \in [Indexes -> Nat]
    BY <1>3, <1>10, <1>11, <2>1
  <2>3. \A i \in 1 .. n : IsFront(next_bucket'[i], home, home[i], i - 1)
    BY <1>10, <1>11, <2>1
  <2>4. \A index \in Indexes : IsFront(m_hash_table'[index], home, index, n)
    BY <1>3, <1>10, <1>11
  <2> QED
    BY <1>2, <1>10, <2>2, <2>3, <2>4 DEF LoadedFrom
<1> QED
  BY <1>7, <1>8, <1>12

\* Its chains are the buckets by their index.
LEMMA LoadedChains ==
    ASSUME NEW s, NEW home, LoadedFrom(s, home), GoodList(s, home)
    PROVE  /\ Len(s) \in Nat /\ Buckets = 1 .. Len(s)
           /\ \A i \in Buckets : /\ key_value_data[i] \in m_buffer /\ KeyOf(i) \in Keys
                                 /\ key_value_data[i] \in Blocks
           /\ \A i, index : InChain(i, index) => i \in Buckets /\ home[i] = index
           /\ \A i \in Buckets : \A index \in Indexes : home[i] = index => InChain(i, index)
           /\ \A i, j \in Buckets : KeyOf(i) = KeyOf(j) => i = j
<1>1. PICK n : n = Len(s)
  OBVIOUS
<1>2. /\ n \in Nat /\ DOMAIN s = 1 .. n /\ Buckets = 1 .. n /\ key_value_data = s
      /\ \A i \in 1 .. n : s[i] \in Blocks
  BY <1>1 DEF LoadedFrom, GoodList, Buckets
<1>3. /\ \A i \in 1 .. n : s[i] \in m_buffer /\ home[i] = Hash[KeyOf(i)] /\ KeyOf(i) \in Keys
      /\ \A i, j \in 1 .. n : KeyOf(i) = KeyOf(j) => i = j
  BY <1>2 DEF GoodList, KeyOf
<1>4. ASSUME NEW i \in 1 .. n, NEW index \in Indexes, home[i] = index
      PROVE  InChain(i, index)
  <2>1. i <= m_hash_table[index]
    BY <1>1, <1>4 DEF LoadedFrom, IsFront
  <2>2. key_value_data[i] # NoBlock
    BY <1>2, HashAssumption
  <2> QED
    BY <1>2, <1>3, <1>4, <2>1, <2>2 DEF InChain
<1>5. \A i, index : InChain(i, index) => i \in 1 .. n /\ home[i] = index
  BY <1>2, <1>3 DEF InChain
<1> QED
  BY <1>1, <1>2, <1>3, <1>4, <1>5

\* Nobody uses a block but through a bucket.
LEMMA LoadedIInv ==
    ASSUME NobodyInside, NEW s, NEW home, LoadedFrom(s, home), GoodList(s, home)
    PROVE  IInv
<1>1. PICK n : n = Len(s)
  OBVIOUS
<1>2. /\ n \in Nat /\ Buckets = 1 .. n /\ key_value_data = s /\ s \in Seq(Blocks)
      /\ \A i \in 1 .. n : s[i] \in Blocks /\ s[i] \in m_buffer
      /\ m_buffer = {s[i] : i \in 1 .. n}
  <2>1. key_value_data = s /\ s \in Seq(Blocks) /\ n \in Nat /\ DOMAIN s = 1 .. n
    BY <1>1 DEF LoadedFrom, GoodList
  <2>2. m_buffer = {s[i] : i \in 1 .. n}
    BY <2>1 DEF GoodList
  <2> QED
    BY <2>1, <2>2 DEF Buckets
<1>3. \A f, index, m : m \in 0 .. n /\ IsFront(f, home, index, m) => f \in 1 .. n \cup {NULL}
  BY <1>2 DEF IsFront, NULL
<1>4. /\ next_bucket \in [1 .. n -> 1 .. n \cup {NULL}]
      /\ m_hash_table \in [Indexes -> 1 .. n \cup {NULL}]
  <2>1. \A i \in 1 .. n : next_bucket[i] \in 1 .. n \cup {NULL}
    <3>1. \A i \in 1 .. n : i - 1 \in 0 .. n
      BY <1>2
    <3> QED
      BY <1>1, <1>3, <3>1 DEF LoadedFrom
  <2>2. \A index \in Indexes : m_hash_table[index] \in 1 .. n \cup {NULL}
    BY <1>1, <1>2, <1>3 DEF LoadedFrom
  <2> QED
    BY <1>1, <2>1, <2>2 DEF LoadedFrom
<1>5. TypeOK
  <2>1. next_bucket \in Seq(Buckets \cup {NULL}) /\ Len(next_bucket) = Len(key_value_data)
    BY <1>1, <1>2, <1>4
  <2>2. m_hash_table \in [Indexes -> Buckets \cup {NULL}]
    BY <1>2, <1>4
  <2>3. key_value_data \in Seq(Blocks \cup {NoBlock}) /\ m_buffer \subseteq Blocks
    BY <1>2
  <2> QED
    BY <2>1, <2>2, <2>3 DEF TypeOK, NobodyInside, Labels
<1>6. Linked
  <2>1. \A i \in Buckets : key_value_data[i] # NoBlock
    BY <1>2, HashAssumption
  <2> QED
    BY <1>2, <1>4, <2>1 DEF Linked, NobodyInside, NULL
<1>7. LocalsOK
  BY HashAssumption DEF LocalsOK, NobodyInside, Filling
<1>8. Owned
  <2>1. \A b \in Blocks : Shared(b) <=> b \in m_buffer
    BY <1>2, HashAssumption DEF Shared, NobodyInside
  <2>2. \A b \in Blocks : ~ Private(b)
    BY HashAssumption DEF Private, NobodyInside
  <2>3. \A t \in Threads : {data_buffer[t], doomed[t]} \ {NoBlock} = {}
    BY DEF NobodyInside
  <2> QED
    BY <1>2, <2>1, <2>2, <2>3 DEF Owned, NoUseAfterFree, NoLeak
<1> QED
  BY <1>5, <1>6, <1>7, <1>8 DEF IInv

\* Every block in use is in a bucket of the table.
BlocksInChains ==
    \A b \in m_buffer :
      \E index \in Indexes, i \in Nat : InChain(i, index) /\ key_value_data[i] = b

\* What get() answers is what the blocks in use say.
MapIsBlocks ==
    \A k \in Keys :
      /\ \A b \in m_buffer : block_key[b] = k => Lookup(k) = block_value[b]
      /\ (\A b \in m_buffer : block_key[b] # k) => Lookup(k) = Empty

\* If nothing else is in use, the blocks are the map, each key in one of them.
LEMMA QuietBlocks ==
    ASSUME ChainInv, BlocksInChains
    PROVE  BlocksApart /\ MapIsBlocks
<1>1. LookupOK /\ TypeOK /\ KeysDiffer
  BY LookupIs DEF ChainInv, IInv, TableOK
<1>2. ASSUME NEW b \in m_buffer
      PROVE  \E i \in Nat : /\ InChain(i, Hash[block_key[b]]) /\ key_value_data[i] = b
                           /\ KeyOf(i) = block_key[b] /\ block_key[b] \in Keys
  <2>1. PICK index \in Indexes, i \in Nat : InChain(i, index) /\ key_value_data[i] = b
    BY DEF BlocksInChains
  <2>2. KeyOf(i) = block_key[b] /\ index = Hash[block_key[b]] /\ i \in Buckets
    BY <2>1 DEF InChain, KeyOf
  <2>3. ASSUME NEW t \in Threads, Adding(t) /\ bucket[t] = i
        PROVE  FALSE
    <3>1. m_hash_table[index] < i /\ i <= m_hash_table[index]
      BY <2>1, <2>3 DEF ChainInv, ThreadOK, NewestOK, InChain
    <3>2. m_hash_table[index] \in Nat
      BY <1>1 DEF TypeOK, Buckets, NULL
    <3> QED
      BY <3>1, <3>2
  <2>4. KeyOf(i) \in Keys
    BY <2>2, <2>3 DEF ChainInv, AllPlaced
  <2> QED
    BY <2>1, <2>2, <2>4
<1>3. ASSUME NEW b \in m_buffer, NEW c \in m_buffer, block_key[b] = block_key[c]
      PROVE  b = c
  <2>1. PICK i \in Nat : /\ InChain(i, Hash[block_key[b]]) /\ key_value_data[i] = b
                        /\ KeyOf(i) = block_key[b] /\ block_key[b] \in Keys
    BY <1>2
  <2>2. PICK j \in Nat : /\ InChain(j, Hash[block_key[c]]) /\ key_value_data[j] = c
                        /\ KeyOf(j) = block_key[c]
    BY <1>2
  <2>3. i = j
    BY <1>1, <1>3, <2>1, <2>2, HashAssumption DEF KeysDiffer
  <2> QED
    BY <2>1, <2>2, <2>3
<1>4. ASSUME NEW k \in Keys, NEW b \in m_buffer, block_key[b] = k
      PROVE  Lookup(k) = block_value[b]
  <2>1. PICK i \in Nat : InChain(i, Hash[k]) /\ key_value_data[i] = b /\ KeyOf(i) = k
    BY <1>2, <1>4
  <2>2. Lookup(k) = ValueOf(i)
    BY <1>1, <2>1 DEF LookupOK
  <2> QED
    BY <2>1, <2>2 DEF ValueOf
<1>5. ASSUME NEW k \in Keys, \A b \in m_buffer : block_key[b] # k
      PROVE  Lookup(k) = Empty
  <2>1. ASSUME NEW i \in Nat, InChain(i, Hash[k])
        PROVE  KeyOf(i) # k
    <3>1. i \in Buckets /\ key_value_data[i] # NoBlock
      BY <2>1 DEF InChain
    <3>2. key_value_data[i] \in Blocks
      BY <1>1, <3>1 DEF TypeOK, Buckets
    <3>3. key_value_data[i] \in m_buffer
      BY <3>1, <3>2 DEF ChainInv, IInv, Owned, NoUseAfterFree, Shared
    <3> QED
      BY <1>5, <3>3 DEF KeyOf
  <2> QED
    BY <1>1, <2>1 DEF LookupOK
<1>6. \A b \in m_buffer : block_key[b] \in Keys
  BY <1>2
<1> QED
  BY <1>3, <1>4, <1>5, <1>6 DEF BlocksApart, MapIsBlocks

\* The constructor's table satisfies the invariant that put() and get() keep.
LEMMA LoadedTable ==
    NobodyInside /\ (\E s, home : LoadedFrom(s, home) /\ GoodList(s, home))
      => ChainInv /\ IdleKeepsNothing /\ MapIsBlocks
<1> SUFFICES ASSUME NobodyInside, NEW s, NEW home, LoadedFrom(s, home), GoodList(s, home)
             PROVE  ChainInv /\ IdleKeepsNothing /\ MapIsBlocks
  OBVIOUS
<1>1. IInv
  BY LoadedIInv
<1>2. PICK n : n = Len(s)
  OBVIOUS
<1>3. /\ n \in Nat /\ Buckets = 1 .. n
      /\ \A i, index : InChain(i, index) => i \in 1 .. n /\ home[i] = index
      /\ \A i \in 1 .. n : \A index \in Indexes : home[i] = index => InChain(i, index)
      /\ \A i, j \in 1 .. n : KeyOf(i) = KeyOf(j) => i = j
      /\ \A i \in 1 .. n : KeyOf(i) \in Keys
  BY <1>2, LoadedChains
<1>4. Rooted
  <2> SUFFICES ASSUME NEW index \in Indexes, m_hash_table[index] # NULL
               PROVE  InChain(m_hash_table[index], index)
    BY DEF Rooted
  <2>1. m_hash_table[index] \in 1 .. n /\ home[m_hash_table[index]] = index
    BY <1>2, <1>3 DEF LoadedFrom, IsFront, NULL
  <2> QED
    BY <1>3, <2>1
<1>5. LinksOK
  <2> SUFFICES ASSUME NEW index \in Indexes, NEW i \in Nat, InChain(i, index)
               PROVE  LinkOK(i, index)
    BY DEF LinksOK
  <2>1. i \in 1 .. n /\ home[i] = index
    BY <1>3
  <2>2. PICK f : f = next_bucket[i]
    OBVIOUS
  <2>3. /\ f \in 0 .. i - 1 /\ (f # 0 => home[f] = index)
        /\ \A j \in 1 .. i - 1 : home[j] = index => j <= f
    BY <1>2, <2>1, <2>2 DEF LoadedFrom, IsFront, NULL
  <2>4. \A j \in Nat : InChain(j, index) /\ j < i => j \in 1 .. i - 1 /\ home[j] = index
    BY <1>3, <2>1
  <2>5. CASE f = 0
    <3>1. \A j \in Nat : InChain(j, index) => i <= j
      BY <2>1, <2>3, <2>4, <2>5
    <3> QED
      BY <2>2, <2>5, <3>1 DEF LinkOK, NULL
  <2>6. CASE f # 0
    <3>1. InChain(f, index) /\ f < i
      BY <1>3, <2>1, <2>3, <2>6
    <3> QED
      BY <2>2, <2>3, <2>4, <3>1 DEF LinkOK
  <2> QED
    BY <2>5, <2>6
<1>6. KeysDiffer
  BY <1>3 DEF KeysDiffer
<1>7. AllPlaced
  <2>1. \A i \in 1 .. n : home[i] = Hash[KeyOf(i)] /\ home[i] \in Indexes
    BY <1>2, <1>3 DEF LoadedFrom, GoodList, KeyOf, Buckets
  <2> QED
    BY <1>3, <2>1 DEF AllPlaced
<1>8. MutexHeld
  BY HashAssumption DEF MutexHeld, Writing, NobodyInside
<1>9. \A t \in Threads : ThreadOK(t)
  BY DEF ThreadOK, NewestOK, SearchOK, PutOK, Adding, Replacing, NobodyInside
<1>10. IdleKeepsNothing
  BY DEF IdleKeepsNothing, NobodyInside
<1>11. ChainInv
  BY <1>1, <1>4, <1>5, <1>6, <1>7, <1>8, <1>9 DEF ChainInv, TableOK
<1>12. BlocksInChains
  <2> SUFFICES ASSUME NEW b \in m_buffer
               PROVE  \E index \in Indexes, i \in Nat : InChain(i, index) /\ key_value_data[i] = b
    BY DEF BlocksInChains
  <2>1. PICK i \in 1 .. n : key_value_data[i] = b
    BY <1>2, <1>3 DEF LoadedFrom, GoodList, Buckets
  <2>2. home[i] \in Indexes /\ i \in Nat
    BY <1>2, <1>3 DEF GoodList
  <2> QED
    BY <1>3, <2>1, <2>2
<1> QED
  BY <1>10, <1>11, <1>12, QuietBlocks

\* So it does after the constructor.
LEMMA NextLoadedTable ==
    NobodyInside' /\ (\E s, home : LoadedFrom(s, home) /\ GoodList(s, home))'
      => ChainInv' /\ IdleKeepsNothing' /\ MapIsBlocks'
BY LoadedTable, PTL

\* The constructor of the next process.
LEMMA OpenStep ==
    ASSUME LifeInv, Open
    PROVE  LifeInv' /\ RestartKept("crash")
<1>1. process = "down" /\ process' = "up" /\ ListOK /\ Down
  BY DEF LifeInv, Open
<1>2. ListOK' /\ ChainInv' /\ IdleKeepsNothing' /\ MapIsBlocks'
  <2>1. (\E s, home : LoadedFrom(s, home) /\ GoodList(s, home))' /\ NobodyInside' /\ ListOK'
    BY <1>1, OpenLoads
  <2> QED
    BY <2>1, NextLoadedTable
<1>3. LifeInv'
  BY <1>1, <1>2 DEF LifeInv
<1>4. ASSUME NEW k \in Keys, last_exit = "crash"
      PROVE  Lookup(k)' = remembered[k]
  <2>1. m_buffer' = m_buffer /\ block_key' = block_key /\ block_value' = block_value
    BY DEF Open, blockVars
  <2>2. Remembered
    BY <1>1, <1>4 DEF Down
  <2>3. /\ \A b \in m_buffer : block_key[b] = k => Lookup(k)' = block_value[b]
        /\ (\A b \in m_buffer : block_key[b] # k) => Lookup(k)' = Empty
    BY <1>2, <2>1 DEF MapIsBlocks
  <2>4. /\ \A b \in m_buffer : block_key[b] = k => remembered[k] = block_value[b]
        /\ (\A b \in m_buffer : block_key[b] # k) => remembered[k] = Empty
    BY <2>2 DEF Remembered
  <2> QED
    BY <2>3, <2>4
<1> QED
  BY <1>3, <1>4 DEF RestartKept

----------------------------------------------------------------------------
(* The other steps.                                                        *)

\* A call starts without a bucket and forgets the one it found when it returns.
LEMMA IdleStep ==
    ASSUME IInv, IdleKeepsNothing, NEW t \in Threads, Call(t) \/ Step(t)
    PROVE  IdleKeepsNothing'
<1>1. OthersKept(t)
  BY OthersStep DEF IInv
<1>2. pc'[t] = "idle" => curr'[t] = NULL /\ bucket'[t] = NULL
  <2>1. pc \in [Threads -> Labels] /\ DOMAIN curr = Threads /\ DOMAIN bucket = Threads
    BY DEF IInv, TypeOK
  <2>2. ASSUME Return(t) PROVE curr'[t] = NULL /\ bucket'[t] = NULL
    BY <2>1, <2>2 DEF Return
  <2>3. ASSUME FreeBlock(t) \/ Lock(t) PROVE pc' = pc /\ curr' = curr /\ bucket' = bucket
    BY <2>3 DEF FreeBlock, Lock, LockBuffer, LockPointer
  <2>4. Return(t) \/ FreeBlock(t) \/ Lock(t) \/ pc'[t] # "idle"
    BY <2>1 DEF Call, Step, Lock, LockBuffer, LockPointer, Find, GetStep, PutStep, FindHead,
       FindLoad, FindCompare, GetReload, GetCopy, PutLock, PutAlloc, PutAllocFails, PutNewBucket,
       PutPublish, PutDropOld, StoreBucket, PutUnlock, CallGet, CallPut, PutWriteKey,
       PutWriteValue, Goto, AfterHit, AfterMiss
  <2> QED
    BY <2>2, <2>3, <2>4 DEF IdleKeepsNothing
<1> QED
  BY <1>1, <1>2 DEF OthersKept, IdleKeepsNothing

\* Threads run as in ConcurrentHashTable.
LEMMA RunStep ==
    ASSUME LifeInv, Run
    PROVE  LifeInv' /\ process = "up" /\ process' = "up"
<1>1. process = "up" /\ process' = "up" /\ ListOK /\ ChainInv /\ IdleKeepsNothing
  BY DEF LifeInv, Run
<1>2. PICK t \in Threads : Call(t) \/ Step(t)
  BY DEF Run
<1>3. ChainInv'
  <2>1. Next
    BY <1>2 DEF Next
  <2> QED
    BY <1>1, <2>1, NextChainInv
<1>4. IInv
  BY <1>1 DEF ChainInv
<1>5. IdleKeepsNothing'
  BY <1>1, <1>2, <1>4, IdleStep
<1>6. ListOK'
  <2>1. ByOneBlock
    BY <1>2, <1>4, OneBlock DEF ByOneBlock
  <2>2. TrackUsedList
    BY DEF Run
  <2> QED
    BY <1>1, <2>1, <2>2, ListStep
<1> QED
  BY <1>1, <1>3, <1>5, <1>6 DEF LifeInv

\* A process that dies between calls leaves the map in its blocks.
LEMMA CrashStep ==
    ASSUME LifeInv, QuietCrash
    PROVE  LifeInv'
<1>1. /\ process = "up" /\ process' = "down" /\ ListOK /\ ChainInv
      /\ UNCHANGED <<blockVars, used_list>> /\ LoseMemory
      /\ remembered' = [k \in Keys |-> Lookup(k)]
  BY DEF LifeInv, QuietCrash, Crash
<1>2. TypeOK
  BY <1>1 DEF ChainInv, IInv
<1>3. BlocksInChains
  <2> SUFFICES ASSUME NEW b \in m_buffer
               PROVE  \E index \in Indexes, i \in Nat : InChain(i, index) /\ key_value_data[i] = b
    BY DEF BlocksInChains
  <2>1. PICK index \in Indexes : \E i \in Chain(index) : key_value_data[i] = b
    BY DEF QuietCrash, NothingExpiredOrPending
  <2>2. PICK i \in Chain(index) : key_value_data[i] = b
    BY <2>1
  <2> QED
    BY <1>2, <2>2, ChainMembers, BucketNumbers
<1>4. BlocksApart /\ MapIsBlocks
  BY <1>1, <1>3, QuietBlocks
<1>5. m_buffer' = m_buffer /\ block_key' = block_key /\ block_value' = block_value
  BY <1>1 DEF blockVars
<1>6. NobodyInside'
  <2>1. /\ block_key \in [Blocks -> Keys \cup {Empty}]
        /\ block_value \in [Blocks -> Values \cup {Empty}]
    BY <1>2 DEF TypeOK
  <2> QED
    BY <1>1, <1>5, <2>1 DEF LoseMemory, NobodyInside
<1>7. BlocksApart' /\ Remembered'
  BY <1>1, <1>4, <1>5 DEF BlocksApart, Remembered, MapIsBlocks
<1>8. ListOK'
  BY <1>1, <1>5 DEF ListOK
<1> QED
  BY <1>1, <1>6, <1>7, <1>8 DEF LifeInv, Down

\* The destructor starts: every block in use is in a bucket.
LEMMA CloseStep ==
    ASSUME LifeInv, Close
    PROVE  LifeInv'
<1>1. /\ process = "up" /\ process' = "closing" /\ ListOK /\ ChainInv /\ IdleKeepsNothing
      /\ last_exit' = "close" /\ \A t \in Threads : pc[t] = "idle" /\ doomed[t] = NoBlock
  BY DEF LifeInv, Close, At
<1>2. TypeOK /\ LocalsOK /\ NoLeak
  BY <1>1 DEF ChainInv, IInv, Owned
<1>3. \A t \in Threads : /\ op[t] = "none" /\ data_buffer[t] = NoBlock /\ ref[t] = NoBlock
                         /\ curr[t] = NULL /\ bucket[t] = NULL /\ result[t] = Empty
  <2> SUFFICES ASSUME NEW t \in Threads
               PROVE  /\ op[t] = "none" /\ data_buffer[t] = NoBlock /\ ref[t] = NoBlock
                      /\ curr[t] = NULL /\ bucket[t] = NULL /\ result[t] = Empty
    OBVIOUS
  <2>1. op[t] = "none" /\ ref[t] = NoBlock /\ data_buffer[t] \notin Blocks
    BY <1>1, <1>2 DEF LocalsOK
  <2>2. data_buffer[t] = NoBlock
    BY <1>2, <2>1 DEF TypeOK
  <2>3. curr[t] = NULL /\ bucket[t] = NULL
    BY <1>1 DEF IdleKeepsNothing
  <2>4. result[t] = Empty
    BY <1>1, <2>1 DEF ChainInv, ThreadOK, PutOK
  <2> QED
    BY <2>1, <2>2, <2>3, <2>4
<1>4. {m_write_mutex, m_mutex, pointer_mutex} = {NoThread}
  <2>1. m_write_mutex = NoThread
    BY <1>1, <1>2, <1>3 DEF ChainInv, MutexHeld, Writing, TypeOK
  <2>2. m_mutex = NoThread /\ pointer_mutex = NoThread
    BY <1>1, <1>2 DEF LocalsOK, TypeOK
  <2> QED
    BY <2>1, <2>2
<1>5. NobodyInside
  BY <1>1, <1>2, <1>3, <1>4 DEF NobodyInside, TypeOK
<1>6. m_buffer \subseteq {key_value_data[i] : i \in DOMAIN key_value_data}
  <2> SUFFICES ASSUME NEW b \in m_buffer
               PROVE  \E i \in DOMAIN key_value_data : key_value_data[i] = b
    OBVIOUS
  <2>1. b \in Blocks /\ b # NoBlock
    BY <1>2, HashAssumption DEF TypeOK
  <2>2. Shared(b)
    BY <1>1, <1>2, <1>3, <2>1 DEF NoLeak, Private
  <2> QED
    BY <1>3, <2>1, <2>2 DEF Shared, Buckets
<1>7. NobodyInside' /\ ListOK' /\ m_buffer' = m_buffer /\ key_value_data' = key_value_data
  BY <1>1, <1>5 DEF Close, NobodyInside, ListOK, mutexVars, blockVars, callVars
<1>8. Closing'
  BY <1>1, <1>2, <1>6, <1>7 DEF Closing, TypeOK
<1> QED
  BY <1>1, <1>7, <1>8 DEF LifeInv

\* It destroys one bucket, and the block of that bucket goes.
LEMMA DestroyStep ==
    ASSUME LifeInv, DestroyBucket
    PROVE  LifeInv'
<1>1. process = "closing" /\ process' = "closing" /\ ListOK /\ Closing
  BY DEF LifeInv, DestroyBucket
<1>2. NobodyInside' /\ last_exit' = "close"
  BY <1>1 DEF DestroyBucket, Closing, NobodyInside, mutexVars, callVars, history
<1>3. ListOK'
  <2>1. ByOneBlock /\ TrackUsedList
    BY DEF DestroyBucket, ByOneBlock
  <2> QED
    BY <1>1, <2>1, ListStep
<1>4. PICK s : s = key_value_data
  OBVIOUS
<1>5. /\ s \in Seq(Blocks \cup {NoBlock}) /\ s # <<>> /\ key_value_data' = Tail(s)
      /\ m_buffer' = m_buffer \ {Head(s)} /\ \A b \in m_buffer : \E i \in DOMAIN s : s[i] = b
  BY <1>1, <1>4 DEF DestroyBucket, Closing
<1>6. PICK r : r = Tail(s)
  OBVIOUS
<1>7. /\ r \in Seq(Blocks \cup {NoBlock}) /\ Len(r) = Len(s) - 1
      /\ \A i \in 1 .. Len(r) : r[i] = s[i + 1]
      /\ Head(s) = s[1] /\ Len(s) \in Nat
      /\ DOMAIN s = 1 .. Len(s) /\ DOMAIN r = 1 .. Len(r)
  BY <1>5, <1>6, HeadTailProperties
<1>8. ASSUME NEW b \in m_buffer'
      PROVE  \E i \in DOMAIN r : r[i] = b
  <2>1. PICK i \in 1 .. Len(s) : s[i] = b /\ i # 1
    BY <1>5, <1>7
  <2>2. i - 1 \in 1 .. Len(r) /\ r[i - 1] = s[i]
    BY <1>7, <2>1
  <2> QED
    BY <1>7, <2>1, <2>2
<1>9. Closing'
  BY <1>2, <1>5, <1>6, <1>7, <1>8 DEF Closing
<1> QED
  BY <1>1, <1>3, <1>9 DEF LifeInv

\* After the last one the file has no block in use.
LEMMA UnmapStep ==
    ASSUME LifeInv, Unmap
    PROVE  LifeInv'
<1>1. process = "closing" /\ process' = "down" /\ ListOK /\ Closing /\ key_value_data = <<>>
  BY DEF LifeInv, Unmap
<1>2. m_buffer = {}
  BY <1>1 DEF Closing
<1>3. UNCHANGED <<m_buffer, used_list, last_exit>> /\ NobodyInside'
  BY <1>1 DEF Unmap, Closing, NobodyInside, vars, mutexVars, blockVars, callVars, history
<1>4. ListOK'
  BY <1>1, <1>3 DEF ListOK
<1>5. BlocksApart' /\ last_exit' # "crash"
  BY <1>1, <1>2, <1>3 DEF BlocksApart, Closing
<1> QED
  BY <1>1, <1>3, <1>4, <1>5 DEF LifeInv, Down

\* The store begins on a new file.
LEMMA InitLife == LifeInit => LifeInv
<1> SUFFICES ASSUME LifeInit PROVE LifeInv
  OBVIOUS
<1>1. ChainInv
  BY InitChainInv DEF LifeInit
<1>2. IdleKeepsNothing
  BY DEF LifeInit, Init, IdleKeepsNothing
<1>3. ListOK
  BY DEF LifeInit, Init, ListOK
<1> QED
  BY <1>1, <1>2, <1>3 DEF LifeInv, LifeInit

\* No step of a life whose crashes are quiet breaks the invariant, and the
\* constructor after a crash restores what get() had answered.
LEMMA LifeStep ==
    LifeInv /\ [UnrecordedRun \/ QuietCrash \/ Open \/ Destruct]_lifeVars
      => LifeInv' /\ [RestartKept("crash")]_lifeVars
<1> SUFFICES ASSUME LifeInv, [UnrecordedRun \/ QuietCrash \/ Open \/ Destruct]_lifeVars
             PROVE  LifeInv' /\ [RestartKept("crash")]_lifeVars
  OBVIOUS
<1>1. CASE UnrecordedRun
  BY <1>1, RunStep DEF UnrecordedRun, RestartKept
<1>2. CASE QuietCrash
  BY <1>2, CrashStep DEF QuietCrash, Crash, RestartKept
<1>3. CASE Open
  BY <1>3, OpenStep
<1>4. CASE Destruct
  BY <1>4, CloseStep, DestroyStep, UnmapStep
  DEF Destruct, Close, DestroyBucket, Unmap, RestartKept
<1>5. CASE UNCHANGED lifeVars
  <2>1. UNCHANGED vars /\ UNCHANGED <<process, used_list, last_exit, remembered>>
    BY <1>5 DEF lifeVars, history
  <2>2. ChainInv => ChainInv'
    BY <2>1, NextChainInv
  <2>3. UNCHANGED <<mutexVars, tableVars, blockVars, callVars, pc, data_buffer, curr, bucket,
                    ref, doomed, result>>
    BY <2>1 DEF vars
  <2>4. (ListOK => ListOK') /\ (IdleKeepsNothing => IdleKeepsNothing')
    BY <2>1, <2>3 DEF ListOK, IdleKeepsNothing, blockVars
  <2>5. NobodyInside => NobodyInside'
    BY <2>3 DEF NobodyInside, mutexVars, blockVars, callVars
  <2>6. (Closing => Closing') /\ (Down => Down')
    BY <2>1, <2>3, <2>5 DEF Closing, Down, BlocksApart, Remembered, blockVars, tableVars
  <2> QED
    BY <1>5, <2>1, <2>2, <2>4, <2>6 DEF LifeInv
<1> QED
  BY <1>1, <1>2, <1>3, <1>4, <1>5

----------------------------------------------------------------------------
(* The theorems.                                                           *)

\* The invariant holds through any number of calls, quiet crashes and restarts.
THEOREM LifeInvariance == QuietSpec => []LifeInv
<1>1. LifeInv /\ [UnrecordedRun \/ QuietCrash \/ Open \/ Destruct]_lifeVars => LifeInv'
  BY LifeStep
<1> QED
  BY <1>1, InitLife, PTL DEF QuietSpec

\* The table that the constructor loads has one bucket per key, complete chains and
\* a block for each bucket that nobody else has, and put() and get() keep it so.
THEOREM LoadedTablesAreSound == QuietSpec => []LoadedTableIsSound
<1>1. ASSUME ChainInv
      PROVE  KeysAreUnique /\ ChainsAreComplete /\ NoUseAfterFree /\ NoLeak
  BY <1>1, ChainInvIsSound DEF ChainInv, IInv, Owned
<1>2. LifeInv => LoadedTableIsSound
  BY <1>1 DEF LifeInv, LoadedTableIsSound
<1> QED
  BY <1>2, LifeInvariance, PTL

\* What get() answered when the process was killed between calls, it answers once the
\* file is opened again.
THEOREM CrashesKeepTheMap == QuietSpec => CrashKeepsTheMap
<1>1. LifeInv /\ [UnrecordedRun \/ QuietCrash \/ Open \/ Destruct]_lifeVars
        => [RestartKept("crash")]_lifeVars
  BY LifeStep
<1> QED
  BY <1>1, LifeInvariance, PTL DEF QuietSpec, CrashKeepsTheMap
=============================================================================
