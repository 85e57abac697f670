------------------------ MODULE LinearizabilityProofs ------------------------
(***************************************************************************)
(* Proof that ConcurrentHashTable implements KeyValueStore: every get()    *)
(* and put() takes effect at one instant between its call and its return,  *)
(* for any number of threads and any interleaving.                         *)
(*                                                                         *)
(* A step of thread t changes what the map shows of t alone (OthersSeen),  *)
(* and the map itself only if it publishes over an old value or links a    *)
(* new bucket.  Each action is then one action of KeyValueStore, or Quiet: *)
(* the map, t's status, request and answer are as they were.               *)
(*                                                                         *)
(* The last part is about the walks of TableIteration: what they list      *)
(* while no put() is in progress is that map.                              *)
(***************************************************************************)
EXTENDS TableIteration, ConcurrentHashTableProofs, FiniteSetTheorems, FunctionTheorems

\* What get(k) answers, read off the one bucket of its key.
LookupOK ==
    \A k \in Keys :
      /\ \A i \in Nat : InChain(i, Hash[k]) /\ KeyOf(i) = k => Lookup(k) = ValueOf(i)
      /\ (\A i \in Nat : InChain(i, Hash[k]) => KeyOf(i) # k) => Lookup(k) = Empty

\* No bucket of t's key from where t is.
WillMissOK ==
    \A t \in Threads :
      WillMiss(t) <=> /\ pc[t] \in {"load", "compare"}
                      /\ \A j \in Nat :
                           InChain(j, Hash[key[t]]) /\ j <= curr[t] => KeyOf(j) # key[t]

\* No key is in two buckets of its chain, so Lookup's choice is that bucket.
LEMMA LookupIs == ChainInv => LookupOK
<1> SUFFICES ASSUME ChainInv, NEW k \in Keys
             PROVE  /\ \A i \in Nat : InChain(i, Hash[k]) /\ KeyOf(i) = k => Lookup(k) = ValueOf(i)
                    /\ (\A i \in Nat : InChain(i, Hash[k]) => KeyOf(i) # k) => Lookup(k) = Empty
  BY DEF LookupOK
<1> DEFINE hits == {i \in Chain(Hash[k]) : KeyOf(i) = k}
<1>1. TypeOK /\ Hash[k] \in Indexes
  BY HashAssumption DEF ChainInv, IInv
<1>2. \A i : i \in hits <=> InChain(i, Hash[k]) /\ KeyOf(i) = k
  BY <1>1, ChainMembers
<1>3. \A i : InChain(i, Hash[k]) => i \in Nat
  BY <1>1, BucketNumbers
<1>4. ASSUME NEW i \in Nat, InChain(i, Hash[k]), KeyOf(i) = k PROVE Lookup(k) = ValueOf(i)
  <2>1. hits = {i}
    BY <1>1, <1>2, <1>3, <1>4 DEF ChainInv, TableOK, KeysDiffer
  <2>2. (CHOOSE j \in hits : \A h \in hits : h <= j) = i
    BY <2>1
  <2> QED
    BY <2>1, <2>2 DEF Lookup, ValueOf
<1>5. (\A i \in Nat : InChain(i, Hash[k]) => KeyOf(i) # k) => Lookup(k) = Empty
  BY <1>2, <1>3 DEF Lookup
<1> QED
  BY <1>4, <1>5

\* What a search has ahead of it is its chain from the bucket it has reached.
LEMMA WillMissIs == ChainInv => WillMissOK
<1> SUFFICES ASSUME ChainInv, NEW t \in Threads, pc[t] \in {"load", "compare"}
             PROVE  \A j : j \in Behind(curr[t], Hash[key[t]])
                             <=> j \in Nat /\ InChain(j, Hash[key[t]]) /\ j <= curr[t]
  BY DEF WillMissOK, WillMiss
<1>1. /\ TypeOK /\ Hash[key[t]] \in Indexes /\ InChain(curr[t], Hash[key[t]])
      /\ m_hash_table[Hash[key[t]]] \in Nat
  BY HashAssumption DEF ChainInv, IInv, TypeOK, ThreadOK, SearchOK, Buckets, NULL
<1>2. curr[t] \in Nat /\ curr[t] <= m_hash_table[Hash[key[t]]]
  BY <1>1, BucketNumbers DEF InChain
<1> QED
  BY <1>1, <1>2, ChainMembers, BucketNumbers

\* Both hold after a step, too.
LEMMA NextLookupIs == ChainInv' => LookupOK' /\ WillMissOK'
BY LookupIs, WillMissIs, PTL

\* store_bucket() adds in front: what is behind a bucket of a chain stays.
LEMMA BehindKept ==
    ASSUME ChainInv, NEW t \in Threads, Call(t) \/ Step(t),
           NEW index \in Indexes, NEW i \in Nat, InChain(i, index)
    PROVE  \A j \in Nat :
             j <= i => /\ InChain(j, index)' <=> InChain(j, index)
                       /\ InChain(j, index) => KeyOf(j)' = KeyOf(j)
<1>1. CASE StoreBucket(t)
  <2>1. PICK b \in Buckets, home \in Indexes :
          b = bucket[t] /\ home = Hash[key[t]] /\ BucketAdded(b, home)
    BY <1>1, StoreStep
  <2>2. m_hash_table[index] < b /\ m_hash_table[index] \in Nat /\ b \in Nat
    BY <1>1, <2>1 DEF StoreBucket, At, ChainInv, IInv, TypeOK, LocalsOK, ThreadOK, SearchOK,
       NewestOK, Adding, Buckets, NULL
  <2>3. i < b
    BY <2>2 DEF InChain
  <2> QED
    BY <2>1, <2>2, <2>3 DEF BucketAdded
<1>2. CASE ~StoreBucket(t)
  BY <1>2, SameStep DEF SameChains
<1> QED
  BY <1>1, <1>2

\* Whatever a step of t does, the calls of the other threads neither take effect
\* by it nor come to another answer.
LEMMA OthersSeen ==
    ASSUME ChainInv, NEW t \in Threads, Call(t) \/ Step(t), NEW u \in Threads \ {t}
    PROVE  /\ StatusOf(u)' = StatusOf(u) /\ RequestOf(u)' = RequestOf(u)
           /\ Answer(u)' = Answer(u)
<1>1. /\ pc'[u] = pc[u] /\ op'[u] = op[u] /\ key'[u] = key[u] /\ value'[u] = value[u]
      /\ curr'[u] = curr[u] /\ ref'[u] = ref[u] /\ result'[u] = result[u]
  BY OthersStep DEF ChainInv, OthersKept
<1>2. WillMissOK /\ WillMissOK'
  BY WillMissIs, NextLookupIs, NextChainInv DEF Next
<1>3. WillMiss(u)' <=> WillMiss(u)
  <2>1. CASE pc[u] \in {"load", "compare"}
    <3>1. PICK i \in Nat, index \in Indexes :
            i = curr[u] /\ index = Hash[key[u]] /\ InChain(i, index)
      BY <2>1, BucketNumbers, HashAssumption DEF ChainInv, IInv, TypeOK, ThreadOK, SearchOK
    <3>2. \A j \in Nat :
            j <= i => /\ InChain(j, index)' <=> InChain(j, index)
                      /\ InChain(j, index) => KeyOf(j)' = KeyOf(j)
      BY <3>1, BehindKept
    <3>3. WillMiss(u) <=> \A j \in Nat : InChain(j, index) /\ j <= i => KeyOf(j) # key[u]
      BY <1>2, <2>1, <3>1 DEF WillMissOK
    <3>4. WillMiss(u)' <=> \A j \in Nat : InChain(j, index)' /\ j <= i => KeyOf(j)' # key[u]
      BY <1>1, <1>2, <2>1, <3>1 DEF WillMissOK, InChain
    <3> QED
      BY <3>2, <3>3, <3>4
  <2>2. CASE pc[u] \notin {"load", "compare"}
    BY <1>1, <2>2 DEF WillMiss
  <2> QED
    BY <2>1, <2>2
<1>4. TookEffect(u)' <=> TookEffect(u)
  BY <1>1, <1>3 DEF TookEffect
<1>5. pc[u] = "copy" => block_value'[ref[u]] = block_value[ref[u]]
  BY BytesStep DEF ChainInv, IInv, TypeOK, LocalsOK, SharedBytesKept, Shared
<1> QED
  BY <1>1, <1>4, <1>5 DEF StatusOf, RequestOf, Answer

----------------------------------------------------------------------------
(* What a step does to the map.                                            *)

\* A step that neither replaces a value nor links a bucket leaves the map alone.
LEMMA MapKept ==
    ASSUME ChainInv, NEW t \in Threads, Call(t) \/ Step(t), ~StoreBucket(t),
           ~(PutPublish(t) /\ curr[t] # NULL), NEW k \in Keys
    PROVE  Lookup(k)' = Lookup(k)
<1>1. LookupOK /\ LookupOK' /\ Hash[k] \in Indexes
  BY LookupIs, NextLookupIs, NextChainInv, HashAssumption DEF Next
<1>2. SameChains
  BY SameStep
<1>3. ASSUME NEW i \in Nat, InChain(i, Hash[k]) PROVE ValueOf(i)' = ValueOf(i)
  <2>0. m_hash_table[Hash[k]] \in Nat
    <3>1. m_hash_table \in [Indexes -> Buckets \cup {NULL}] /\ TypeOK
      BY DEF ChainInv, IInv, TypeOK
    <3>2. Buckets = 1 .. Len(key_value_data) /\ Len(key_value_data) \in Nat
      BY <3>1, BucketNumbers
    <3>3. m_hash_table[Hash[k]] \in Buckets \cup {NULL}
      BY <1>1, <3>1
    <3> QED
      BY <3>2, <3>3 DEF NULL
  <2> USE DEF ChainInv, IInv
  <2>1. i \in Buckets /\ key_value_data[i] # NoBlock /\ i <= m_hash_table[Hash[k]]
    BY <1>3 DEF InChain
  <2>2. key_value_data'[i] = key_value_data[i]
    <3>1. CASE PutPublish(t)
      <4>1. m_hash_table[Hash[k]] < bucket[t]
        BY <1>1, <3>1 DEF LocalsOK, ThreadOK, NewestOK, Adding, PutPublish, At
      <4>2. i # bucket[t]
        BY <2>0, <2>1, <4>1
      <4> QED
        BY <2>1, <3>1, <4>2 DEF PutPublish, TypeOK, Buckets
    <3>2. CASE PutNewBucket(t)
      BY <2>1, <3>2 DEF PutNewBucket, TypeOK, Buckets
    <3>3. CASE ~PutPublish(t) /\ ~PutNewBucket(t)
      BY <3>3 DEF tableVars, Call, Step, Lock, LockBuffer, LockPointer, Find, GetStep, PutStep,
         FindHead, FindLoad, FindCompare, GetReload, GetCopy, PutLock, PutAlloc, PutAllocFails,
         PutWriteKey, PutWriteValue, PutDropOld, PutUnlock, Return, FreeBlock, CallGet, CallPut
    <3> QED
      BY <3>1, <3>2, <3>3
  <2> QED
    <3>1. key_value_data[i] \in Blocks /\ Shared(key_value_data[i])
      BY <2>1 DEF TypeOK, Buckets, Shared
    <3> QED
      BY <2>2, <3>1, BytesStep DEF SharedBytesKept, ValueOf
<1>4. CASE \E i \in Nat : InChain(i, Hash[k]) /\ KeyOf(i) = k
  BY <1>1, <1>2, <1>3, <1>4 DEF SameChains, LookupOK
<1>5. CASE \A i \in Nat : InChain(i, Hash[k]) => KeyOf(i) # k
  BY <1>1, <1>2, <1>5 DEF SameChains, LookupOK
<1> QED
  BY <1>4, <1>5

\* put() writes its value under its key, and nothing else: when it publishes in
\* the bucket it found, or when it links the one it added.
LEMMA MapWritten ==
    ASSUME ChainInv, NEW t \in Threads,
           StoreBucket(t) \/ (PutPublish(t) /\ curr[t] # NULL), NEW k \in Keys
    PROVE  Lookup(k)' = IF k = key[t] THEN value[t] ELSE Lookup(k)
<1>1. /\ LookupOK /\ LookupOK' /\ Hash[k] \in Indexes
      /\ TypeOK /\ LocalsOK /\ NewestOK(t) /\ SearchOK(t) /\ PutOK(t)
  BY LookupIs, NextLookupIs, NextChainInv, HashAssumption
     DEF Next, Step, PutStep, ChainInv, IInv, ThreadOK
<1>2. PICK i \in Buckets, home \in Indexes : i = bucket[t] /\ home = Hash[key[t]]
  BY <1>1, HashAssumption DEF TypeOK, LocalsOK, StoreBucket, PutPublish, At
<1>3. op[t] = "put" /\ key[t] \in Keys /\ i \in Nat
  BY <1>1, <1>2 DEF TypeOK, Buckets, LocalsOK, StoreBucket, PutPublish, At
<1>4. /\ InChain(i, home)' /\ KeyOf(i)' = key[t] /\ ValueOf(i)' = value[t]
      /\ \A index \in Indexes : InChain(i, index) => KeyOf(i) = key[t]
      /\ \A index \in Indexes : \A j \in Nat \ {i} :
           /\ InChain(j, index)' <=> InChain(j, index)
           /\ InChain(j, index) => KeyOf(j)' = KeyOf(j) /\ ValueOf(j)' = ValueOf(j)
  <2>1. CASE StoreBucket(t)
    <3>1. PICK b \in Buckets, h \in Indexes :
            b = bucket[t] /\ h = Hash[key[t]] /\ BucketAdded(b, h)
      BY <2>1, StoreStep
    <3>2. BucketAdded(i, home)
      BY <1>2, <3>1
    <3>3. UNCHANGED <<key_value_data, block_key, block_value>>
      BY <2>1 DEF StoreBucket, blockVars
    <3>4. KeyOf(i) = key[t] /\ ValueOf(i) = value[t]
      BY <1>1, <1>2, <1>3, <2>1 DEF StoreBucket, At, SearchOK, NewestOK, Adding
    <3> QED
      BY <3>2, <3>3, <3>4 DEF BucketAdded, KeyOf, ValueOf
  <2>2. CASE PutPublish(t) /\ curr[t] # NULL
    <3>1. SameChains
      BY <2>2, SameStep DEF Step, PutStep, PutPublish, StoreBucket, At
    <3>2. InChain(i, home) /\ KeyOf(i) = key[t]
      BY <1>1, <1>2, <1>3, <2>2 DEF PutPublish, At, PutOK, Replacing
    <3>3. /\ key_value_data' = [key_value_data EXCEPT ![i] = data_buffer[t]]
          /\ block_value' = block_value /\ block_value[data_buffer[t]] = value[t]
      BY <1>1, <1>2, <2>2 DEF PutPublish, blockVars, At, PutOK
    <3>4. ValueOf(i)' = value[t]
      BY <1>1, <1>2, <3>3 DEF ValueOf, TypeOK, Buckets
    <3>5. \A j \in Buckets \ {i} : ValueOf(j)' = ValueOf(j)
      BY <1>1, <1>2, <3>3 DEF ValueOf, TypeOK, Buckets
    <3>6. \A index \in Indexes, j \in Nat : InChain(j, index) => j \in Buckets
      BY DEF InChain
    <3> QED
      BY <1>3, <3>1, <3>2, <3>4, <3>5, <3>6 DEF SameChains
  <2> QED
    BY <2>1, <2>2
<1>5. CASE k = key[t]
  BY <1>1, <1>2, <1>3, <1>4, <1>5 DEF LookupOK
<1>6. CASE k # key[t]
  <2>1. ASSUME NEW j \in Nat, InChain(j, Hash[k]), KeyOf(j) = k PROVE Lookup(k)' = Lookup(k)
    BY <1>1, <1>4, <1>6, <2>1 DEF LookupOK
  <2>2. CASE \A j \in Nat : InChain(j, Hash[k]) => KeyOf(j) # k
    <3>1. \A j \in Nat : InChain(j, Hash[k])' => KeyOf(j)' # k
      BY <1>1, <1>4, <1>6, <2>2
    <3>2. Lookup(k)' = Empty
      BY <1>1, <3>1 DEF LookupOK
    <3>3. Lookup(k) = Empty
      BY <1>1, <2>2 DEF LookupOK
    <3> QED
      BY <1>6, <3>2, <3>3
  <2> QED
    BY <1>6, <2>1, <2>2
<1> QED
  BY <1>5, <1>6

----------------------------------------------------------------------------
(* What a step shows of its own call.                                      *)

\* The call of u is where it was: called, done or none, with one answer.
Same(u) ==
    /\ StatusOf(u)' = StatusOf(u) /\ RequestOf(u)' = RequestOf(u)
    /\ Answer(u)' = Answer(u)

\* The call of t takes effect in this step, and a is what it will answer.
Takes(t, a) ==
    /\ StatusOf(t) = "called" /\ StatusOf(t)' = "done"
    /\ RequestOf(t)' = RequestOf(t) /\ Answer(t)' = a

\* The search of a get() takes effect when it loads the head of a chain without its
\* key; that of a put() changes nothing a client sees.
LEMMA SearchSeen ==
    ASSUME ChainInv, NEW t \in Threads, Find(t)
    PROVE  Same(t) \/ (op[t] = "get" /\ Takes(t, Lookup(key[t])))
<1> DEFINE home == Hash[key[t]]
<1>1. /\ TypeOK /\ LocalsOK /\ SearchOK(t) /\ PutOK(t) /\ TypeOK' /\ LocalsOK'
      /\ LookupOK /\ WillMissOK /\ WillMissOK'
  BY LookupIs, WillMissIs, NextLookupIs, NextChainInv
     DEF Next, Step, ChainInv, IInv, ThreadOK
<1>2. /\ home \in Indexes /\ UNCHANGED <<key, op, value, result>>
      /\ UNCHANGED tableVars /\ UNCHANGED blockVars /\ m_hash_table \in [Indexes -> Nat]
  BY <1>1, HashAssumption DEF TypeOK, Find, FindHead, FindLoad, FindCompare, callVars, tableVars,
     blockVars, Buckets, NULL
<1>3. PICK index \in Indexes : index = home
  BY <1>2
<1>4. /\ \A j : InChain(j, index)' <=> InChain(j, index)
      /\ \A j : KeyOf(j)' = KeyOf(j)
  BY <1>2 DEF InChain, KeyOf, Buckets, tableVars, blockVars
<1>5. op[t] \in {"get", "put"} /\ key[t] \in Keys
  BY <1>1 DEF TypeOK, LocalsOK, Find, FindHead, FindLoad, FindCompare, At
<1>6. CASE op[t] = "put"
  <2>1. pc[t] \in {"find", "load", "compare"} /\ pc'[t] \in {"load", "compare", "write_key", "new_bucket"}
    BY <1>1, <1>6 DEF Find, FindHead, FindLoad, FindCompare, At, Goto, TypeOK, AfterHit, AfterMiss
  <2> QED
    BY <1>2, <1>6, <2>1 DEF Same, StatusOf, RequestOf, Answer, TookEffect
<1>7. ASSUME op[t] = "get",
             \/ pc[t] \in {"load", "compare"} /\ pc'[t] = "load" /\ (WillMiss(t)' <=> WillMiss(t))
             \/ pc[t] = "load" /\ pc'[t] = "compare" /\ (WillMiss(t)' <=> WillMiss(t))
             \/ pc[t] = "compare" /\ pc'[t] = "reload" /\ ~WillMiss(t)
             \/ pc[t] = "compare" /\ pc'[t] = "return" /\ WillMiss(t)
      PROVE  Same(t)
  <2>1. result[t] = Empty /\ result'[t] = Empty
    BY <1>1, <1>2, <1>7 DEF PutOK
  <2>2. TookEffect(t)' <=> TookEffect(t)
    BY <1>2, <1>7 DEF TookEffect, WillMiss
  <2> QED
    BY <1>2, <1>7, <2>1, <2>2 DEF Same, StatusOf, RequestOf, Answer
<1>8. WillMiss(t) <=> /\ pc[t] \in {"load", "compare"}
                      /\ \A j \in Nat : InChain(j, index) /\ j <= curr[t] => KeyOf(j) # key[t]
  BY <1>1, <1>3 DEF WillMissOK
<1>9. WillMiss(t)' <=> /\ pc'[t] \in {"load", "compare"}
                       /\ \A j \in Nat : InChain(j, index) /\ j <= curr'[t] => KeyOf(j) # key[t]
  <2>1. WillMiss(t)' <=> /\ pc'[t] \in {"load", "compare"}
                         /\ \A j \in Nat : InChain(j, index)' /\ j <= curr'[t] => KeyOf(j)' # key[t]
    BY <1>1, <1>2, <1>3 DEF WillMissOK, InChain
  <2> QED
    BY <1>4, <2>1
<1>10. CASE op[t] = "get" /\ FindHead(t)
  <2>1. PICK head \in Nat : head = m_hash_table[index]
    BY <1>2
  <2>2. /\ pc[t] = "find" /\ curr'[t] = head
        /\ pc'[t] = IF head = NULL THEN "return" ELSE "load"
    BY <1>1, <1>3, <1>10, <2>1 DEF FindHead, At, Goto, TypeOK, AfterMiss
  <2>3. \A j : InChain(j, index) => j \in Nat /\ j > 0 /\ j <= head
    BY <1>1, <2>1, BucketNumbers DEF InChain
  <2>4. ~TookEffect(t) /\ result[t] = Empty /\ result'[t] = Empty
    BY <1>1, <1>2, <1>10, <2>2 DEF TookEffect, WillMiss, PutOK
  <2>5. CASE \A j \in Nat : InChain(j, index) => KeyOf(j) # key[t]
    <3>1. Lookup(key[t]) = Empty
      BY <1>1, <1>3, <1>5, <2>5 DEF LookupOK
    <3>2. TookEffect(t)' /\ pc'[t] # "copy"
      BY <1>2, <1>9, <1>10, <2>2, <2>5 DEF TookEffect
    <3> QED
      BY <1>2, <1>10, <2>2, <2>4, <3>1, <3>2 DEF Takes, StatusOf, RequestOf, Answer
  <2>6. CASE \E j \in Nat : InChain(j, index) /\ KeyOf(j) = key[t]
    <3>1. head # NULL /\ ~WillMiss(t)'
      BY <1>9, <2>2, <2>3, <2>6 DEF NULL
    <3>2. ~TookEffect(t)'
      BY <1>2, <1>10, <2>2, <3>1 DEF TookEffect
    <3> QED
      BY <1>2, <1>10, <2>2, <2>4, <3>2 DEF Same, StatusOf, RequestOf, Answer
  <2> QED
    BY <2>5, <2>6
<1>11. CASE op[t] = "get" /\ FindLoad(t)
  <2>1. pc[t] = "load" /\ pc'[t] = "compare" /\ curr'[t] = curr[t]
    BY <1>1, <1>11 DEF FindLoad, At, Goto, TypeOK
  <2> QED
    BY <1>7, <1>8, <1>9, <1>11, <2>1
<1>12. CASE op[t] = "get" /\ FindCompare(t)
  <2>1. PICK i \in Nat, next \in Nat :
          /\ i = curr[t] /\ next = next_bucket[i] /\ i # NULL
          /\ InChain(i, index) /\ block_key[ref[t]] = KeyOf(i) /\ pc[t] = "compare"
    BY <1>1, <1>3, <1>12 DEF FindCompare, At, SearchOK, InChain, TypeOK, LocalsOK, Buckets, NULL
  <2>2. CASE KeyOf(i) = key[t]
    <3>1. pc'[t] = "reload"
      BY <1>1, <1>12, <2>1, <2>2 DEF FindCompare, Goto, TypeOK, AfterHit
    <3>2. ~WillMiss(t)
      BY <1>8, <2>1, <2>2
    <3> QED
      BY <1>7, <1>12, <2>1, <3>1, <3>2
  <2>3. CASE KeyOf(i) # key[t]
    <3>1. curr'[t] = next /\ pc'[t] = IF next = NULL THEN "return" ELSE "load"
      BY <1>1, <1>12, <2>1, <2>3 DEF FindCompare, Goto, TypeOK, AfterMiss
    <3>2. LinkOK(i, index)
      BY <2>1 DEF ChainInv, TableOK, LinksOK
    <3>3. CASE next = NULL
      <4>1. \A j \in Nat : InChain(j, index) => i <= j
        <5>1. \A j : InChain(j, index) => j > 0
          BY <1>1, BucketNumbers
        <5> QED
          BY <2>1, <3>2, <3>3, <5>1 DEF LinkOK, NULL
      <4>2. \A j \in Nat : InChain(j, index) /\ j <= i => j = i
        BY <2>1, <4>1
      <4>3. WillMiss(t)
        BY <1>8, <2>1, <2>3, <4>2
      <4> QED
        BY <1>7, <1>12, <2>1, <3>1, <3>3, <4>3
    <3>4. CASE next # NULL
      <4>1. next < i /\ \A j \in Nat : InChain(j, index) /\ j <= i => j <= next \/ j = i
        BY <2>1, <3>2, <3>4 DEF LinkOK
      <4>2. WillMiss(t)' <=> WillMiss(t)
        BY <1>8, <1>9, <2>1, <2>3, <3>1, <3>4, <4>1
      <4> QED
        BY <1>7, <1>12, <2>1, <3>1, <3>4, <4>2
    <3> QED
      BY <3>3, <3>4
  <2> QED
    BY <2>2, <2>3
<1> QED
  BY <1>5, <1>6, <1>10, <1>11, <1>12 DEF Find

\* Loading the value of the bucket it found is where a get() takes effect; copying
\* the value out changes nothing a client sees.
LEMMA GetSeen ==
    ASSUME ChainInv, NEW t \in Threads, GetStep(t)
    PROVE  Same(t) \/ (op[t] = "get" /\ Takes(t, Lookup(key[t])))
<1>1. TypeOK /\ LocalsOK /\ SearchOK(t) /\ LookupOK
  BY LookupIs DEF ChainInv, IInv, ThreadOK
<1>2. op[t] = "get" /\ key[t] \in Keys /\ UNCHANGED <<op, key, value, blockVars>>
  BY <1>1 DEF GetStep, GetReload, GetCopy, At, LocalsOK, callVars, blockVars
<1>3. CASE GetReload(t)
  <2>1. PICK i \in Nat : i = curr[t] /\ InChain(i, Hash[key[t]]) /\ KeyOf(i) = key[t]
    BY <1>1, <1>3, BucketNumbers DEF GetReload, At, SearchOK
  <2>2. Lookup(key[t]) = ValueOf(i)
    BY <1>1, <1>2, <2>1 DEF LookupOK
  <2>3. pc[t] = "reload" /\ pc'[t] = "copy" /\ (block_value[ref[t]])' = ValueOf(i)
    BY <1>1, <1>2, <1>3, <2>1 DEF GetReload, At, Goto, TypeOK, LoadPair, ValueOf, blockVars
  <2> QED
    BY <1>2, <2>2, <2>3 DEF Takes, StatusOf, RequestOf, Answer, TookEffect, WillMiss
<1>4. CASE GetCopy(t)
  <2>1. pc[t] = "copy" /\ pc'[t] = "return" /\ result'[t] = block_value[ref[t]]
    BY <1>1, <1>4 DEF GetCopy, At, Goto, TypeOK
  <2> QED
    BY <1>2, <2>1 DEF Same, StatusOf, RequestOf, Answer, TookEffect
<1> QED
  BY <1>3, <1>4 DEF GetStep

\* A put() takes effect when it is refused, when it publishes over an old value or
\* when it links its new bucket.
LEMMA PutSeen ==
    ASSUME ChainInv, NEW t \in Threads, PutStep(t)
    PROVE  /\ op[t] = "put" /\ key[t] \in Keys /\ value[t] \in Values
           /\ IF StoreBucket(t) \/ (PutPublish(t) /\ curr[t] # NULL) THEN Takes(t, "stored")
              ELSE IF PutAllocFails(t) THEN Takes(t, "refused")
              ELSE Same(t)
<1> USE DEF StatusOf, RequestOf, Answer, At, Goto, callVars
<1>1. TypeOK /\ LocalsOK /\ PutOK(t) /\ SearchOK(t)
  BY DEF ChainInv, IInv, ThreadOK
<1>2. op[t] = "put" /\ key[t] \in Keys /\ value[t] \in Values /\ UNCHANGED <<op, key, value>>
  BY <1>1 DEF PutStep, PutLock, PutAlloc, PutAllocFails, PutNewBucket, PutWriteKey, PutWriteValue,
     PutPublish, PutDropOld, StoreBucket, PutUnlock, LocalsOK
<1>3. CASE \/ PutLock(t) \/ PutAlloc(t) \/ PutNewBucket(t) \/ PutWriteKey(t) \/ PutWriteValue(t)
  <2>1. /\ pc[t] \in {"lock", "alloc", "new_bucket", "write_key", "write_value"}
        /\ pc'[t] \in {"alloc", "find", "write_key", "write_value", "publish"}
    BY <1>1, <1>3 DEF PutLock, PutAlloc, PutNewBucket, PutWriteKey, PutWriteValue, TypeOK
  <2>2. ~StoreBucket(t) /\ ~PutPublish(t)
    BY <2>1 DEF StoreBucket, PutPublish
  <2>3. ~PutAllocFails(t)
    BY <1>1, <1>3 DEF PutAllocFails, PutLock, PutAlloc, PutNewBucket, PutWriteKey, PutWriteValue,
       TypeOK
  <2> QED
    BY <1>2, <2>1, <2>2, <2>3 DEF Same, TookEffect
<1>4. CASE PutAllocFails(t)
  <2>1. pc[t] = "alloc" /\ pc'[t] = "unlock" /\ result'[t] = "refused"
    BY <1>1, <1>4 DEF PutAllocFails, TypeOK
  <2>2. ~StoreBucket(t) /\ ~PutPublish(t)
    BY <2>1 DEF StoreBucket, PutPublish
  <2> QED
    BY <1>2, <1>4, <2>1, <2>2 DEF Takes, TookEffect
<1>5. CASE PutPublish(t)
  <2>1. pc[t] = "publish" /\ pc'[t] = "swapped" /\ curr' = curr
    BY <1>1, <1>5 DEF PutPublish, TypeOK
  <2>2. ~StoreBucket(t) /\ ~PutAllocFails(t)
    BY <2>1 DEF StoreBucket, PutAllocFails
  <2>3. ~TookEffect(t) /\ (TookEffect(t)' <=> curr[t] # NULL)
    BY <1>2, <2>1 DEF TookEffect
  <2>4. CASE curr[t] # NULL
    <3>1. Takes(t, "stored")
      BY <1>2, <2>1, <2>3, <2>4 DEF Takes
    <3> QED
      BY <1>2, <1>5, <2>4, <3>1
  <2>5. CASE curr[t] = NULL
    <3>1. Same(t)
      BY <1>2, <2>1, <2>3, <2>5 DEF Same
    <3> QED
      BY <1>2, <2>2, <2>5, <3>1
  <2> QED
    BY <2>4, <2>5
<1>6. CASE PutDropOld(t)
  <2>1. /\ pc[t] = "swapped" /\ pc'[t] = (IF curr[t] = NULL THEN "store" ELSE "unlock")
        /\ result'[t] = "stored" /\ curr' = curr
    BY <1>1, <1>6 DEF PutDropOld, TypeOK
  <2>2. ~StoreBucket(t) /\ ~PutPublish(t) /\ ~PutAllocFails(t)
    BY <2>1 DEF StoreBucket, PutPublish, PutAllocFails
  <2>3. (TookEffect(t) <=> curr[t] # NULL) /\ (TookEffect(t)' <=> curr[t] # NULL)
    BY <1>2, <2>1 DEF TookEffect
  <2>4. Same(t)
    BY <1>2, <2>1, <2>3 DEF Same
  <2> QED
    BY <1>2, <2>2, <2>4
<1>7. CASE StoreBucket(t)
  <2>1. pc[t] = "store" /\ pc'[t] = "unlock" /\ result'[t] = "stored"
    BY <1>1, <1>2, <1>7 DEF StoreBucket, TypeOK, PutOK
  <2> QED
    BY <1>2, <1>7, <2>1 DEF Takes, TookEffect
<1>8. CASE PutUnlock(t)
  <2>1. pc[t] = "unlock" /\ pc'[t] = "return" /\ result' = result
    BY <1>1, <1>8 DEF PutUnlock, TypeOK
  <2>2. ~StoreBucket(t) /\ ~PutPublish(t) /\ ~PutAllocFails(t)
    BY <2>1 DEF StoreBucket, PutPublish, PutAllocFails
  <2> QED
    BY <1>2, <2>1, <2>2 DEF Same, TookEffect
<1> QED
  BY <1>2, <1>3, <1>4, <1>5, <1>6, <1>7, <1>8 DEF PutStep

MapSame == \A k \in Keys : Lookup(k)' = Lookup(k)

\* BufferFreer does its work unseen, and so does who locks a mutex.
LEMMA FreeSeen ==
    ASSUME ChainInv, NEW t \in Threads, FreeBlock(t) \/ Lock(t) PROVE Same(t) /\ MapSame
<1>1. UNCHANGED <<tableVars, block_key, block_value, callVars, pc, curr, ref, result>>
  BY DEF FreeBlock, Lock, LockBuffer, LockPointer, blockVars
<1> QED
  BY <1>1 DEF Same, MapSame, StatusOf, RequestOf, Answer, TookEffect, WillMiss, Lookup, Chain,
     Behind, KeyOf, Buckets, tableVars, callVars

----------------------------------------------------------------------------
(* Every step is a step of KeyValueStore.                                  *)

MapWrites(t) == \A k \in Keys : Lookup(k)' = IF k = key[t] THEN value[t] ELSE Lookup(k)

\* A step that shows nothing is no step of the map.
LEMMA Stutters == ASSUME \A u \in Threads : Same(u), MapSame PROVE UNCHANGED KV!kvVars
BY DEF Same, MapSame, KV!kvVars

\* The calls and returns of t.
LEMMA Invokes ==
    ASSUME NEW t \in Threads, \A u \in Threads \ {t} : Same(u), MapSame, NEW r \in KV!Requests,
           StatusOf(t) = "idle", StatusOf(t)' = "called", RequestOf(t)' = r,
           Answer(t)' = Answer(t)
    PROVE  KV!Next
<1>1. KV!Invoke(t, r)
  BY DEF Same, MapSame, KV!Invoke
<1> QED
  BY <1>1 DEF KV!Next

\* A call that took effect leaves the map when it returns.
LEMMA Returns ==
    ASSUME NEW t \in Threads, \A u \in Threads \ {t} : Same(u), MapSame,
           StatusOf(t) = "done", StatusOf(t)' = "idle", RequestOf(t)' = KV!NoRequest,
           Answer(t)' = Empty
    PROVE  KV!Next
<1>1. KV!Return(t)
  BY DEF Same, MapSame, KV!Return
<1> QED
  BY <1>1 DEF KV!Next

\* The three ways a call takes effect.
LEMMA Reads ==
    ASSUME NEW t \in Threads, \A u \in Threads \ {t} : Same(u), MapSame,
           op[t] = "get", key[t] \in Keys, Takes(t, Lookup(key[t]))
    PROVE  KV!Next
<1>1. RequestOf(t).op = "get" /\ RequestOf(t).key = key[t]
  BY DEF RequestOf
<1>2. KV!Read(t)
  BY <1>1 DEF Same, MapSame, Takes, KV!Read, KV!TakesEffect
<1> QED
  BY <1>2 DEF KV!Next

\* A put() takes effect when it changes the value of its key, and no other.
LEMMA Writes ==
    ASSUME NEW t \in Threads, \A u \in Threads \ {t} : Same(u), MapWrites(t),
           op[t] = "put", key[t] \in Keys, Takes(t, "stored")
    PROVE  KV!Next
<1>1. /\ RequestOf(t).op = "put" /\ RequestOf(t).key = key[t]
      /\ RequestOf(t).value = value[t]
  BY DEF RequestOf
<1>2. KV!Write(t)
  BY <1>1 DEF Same, MapWrites, Takes, KV!Write, KV!TakesEffect
<1> QED
  BY <1>2 DEF KV!Next

\* A put() without a block takes effect without a change of the map.
LEMMA Refuses ==
    ASSUME NEW t \in Threads, \A u \in Threads \ {t} : Same(u), MapSame,
           op[t] = "put", Takes(t, "refused")
    PROVE  KV!Next
<1>1. RequestOf(t).op = "put"
  BY DEF RequestOf
<1>2. KV!Refuse(t)
  BY <1>1 DEF Same, MapSame, Takes, KV!Refuse, KV!TakesEffect
<1> QED
  BY <1>2 DEF KV!Next

\* Entering and leaving a call.
LEMMA CallImplements ==
    ASSUME ChainInv, NEW t \in Threads, Call(t) \/ Return(t) PROVE KV!Next
<1>1. TypeOK /\ LocalsOK /\ PutOK(t)
  BY DEF ChainInv, IInv, ThreadOK
<1>2. \A u \in Threads \ {t} : Same(u)
  BY OthersSeen DEF Same, Step
<1>3. MapSame
  BY MapKept DEF MapSame, Step, Call, CallGet, CallPut, Return, StoreBucket, PutPublish, At
<1> USE DEF StatusOf, RequestOf, Answer, TookEffect, At, Goto
<1>4. ASSUME NEW k \in Keys, CallGet(t, k) PROVE KV!Next
  <2>1. /\ op[t] = "none" /\ op'[t] = "get" /\ key'[t] = k /\ pc[t] = "idle" /\ pc'[t] = "find"
    BY <1>1, <1>4 DEF CallGet, TypeOK, LocalsOK
  <2>2. StatusOf(t) = "idle" /\ StatusOf(t)' = "called" /\ Answer(t)' = Empty /\ Answer(t) = Empty
    BY <2>1 DEF WillMiss
  <2>3. RequestOf(t)' = [op |-> "get", key |-> k]
    BY <2>1
  <2>4. [op |-> "get", key |-> k] \in KV!Requests
    BY DEF KV!Requests
  <2> HIDE DEF StatusOf, RequestOf, Answer
  <2> QED
    BY <1>2, <1>3, <2>2, <2>3, <2>4, Invokes
<1>5. ASSUME NEW k \in Keys, NEW v \in Values, CallPut(t, k, v) PROVE KV!Next
  <2>1. /\ op[t] = "none" /\ op'[t] = "put" /\ key'[t] = k /\ value'[t] = v
        /\ pc[t] = "idle" /\ pc'[t] = "lock"
    BY <1>1, <1>5 DEF CallPut, TypeOK, LocalsOK
  <2>2. StatusOf(t) = "idle" /\ StatusOf(t)' = "called" /\ Answer(t)' = Empty /\ Answer(t) = Empty
    BY <2>1
  <2>3. RequestOf(t)' = [op |-> "put", key |-> k, value |-> v]
    BY <2>1
  <2>4. [op |-> "put", key |-> k, value |-> v] \in KV!Requests
    BY DEF KV!Requests
  <2> HIDE DEF StatusOf, RequestOf, Answer
  <2> QED
    BY <1>2, <1>3, <2>2, <2>3, <2>4, Invokes
<1>6. ASSUME Return(t) PROVE KV!Next
  <2>1. pc[t] = "return" /\ op[t] # "none" /\ op'[t] = "none" /\ pc'[t] = "idle"
    BY <1>1, <1>6 DEF Return, TypeOK, LocalsOK
  <2>2. StatusOf(t) = "done" /\ StatusOf(t)' = "idle" /\ Answer(t)' = Empty
    BY <2>1
  <2>3. RequestOf(t)' = KV!NoRequest
    BY <2>1 DEF KV!NoRequest
  <2> HIDE DEF StatusOf, RequestOf, Answer
  <2> QED
    BY <1>2, <1>3, <2>2, <2>3, Returns
<1> QED
  BY <1>4, <1>5, <1>6 DEF Call

\* A step inside a call.
LEMMA StepImplements ==
    ASSUME ChainInv, NEW t \in Threads,
           Lock(t) \/ Find(t) \/ GetStep(t) \/ PutStep(t) \/ FreeBlock(t)
    PROVE  KV!Next \/ UNCHANGED KV!kvVars
<1>1. TypeOK /\ LocalsOK /\ Step(t)
  BY DEF ChainInv, IInv, Step
<1>2. \A u \in Threads \ {t} : Same(u)
  BY <1>1, OthersSeen DEF Same
<1>3. CASE Find(t) \/ GetStep(t)
  <2>1. MapSame
    BY <1>1, <1>3, MapKept DEF MapSame, Find, FindHead, FindLoad, FindCompare, GetStep, GetReload,
       GetCopy, StoreBucket, PutPublish, At
  <2>2. op[t] = "get" => key[t] \in Keys
    BY <1>1 DEF LocalsOK
  <2> QED
    BY <1>2, <1>3, <2>1, <2>2, SearchSeen, GetSeen, Reads, Stutters
<1>4. CASE PutStep(t)
  <2>1. CASE StoreBucket(t) \/ (PutPublish(t) /\ curr[t] # NULL)
    <3>1. MapWrites(t)
      BY <2>1, MapWritten DEF MapWrites
    <3> QED
      BY <1>2, <1>4, <2>1, <3>1, PutSeen, Writes
  <2>2. CASE ~(StoreBucket(t) \/ (PutPublish(t) /\ curr[t] # NULL))
    <3>1. MapSame
      BY <1>1, <2>2, MapKept DEF MapSame
    <3> QED
      BY <1>2, <1>4, <2>2, <3>1, PutSeen, Refuses, Stutters
  <2> QED
    BY <2>1, <2>2
<1>5. CASE FreeBlock(t) \/ Lock(t)
  BY <1>2, <1>5, FreeSeen, Stutters
<1> QED
  BY <1>3, <1>4, <1>5

\* On the empty table every key answers the empty string and no call is under way.
LEMMA InitImplements == Init => KV!Init
<1> SUFFICES ASSUME Init PROVE KV!Init
  OBVIOUS
<1>1. \A k \in Keys : Lookup(k) = Empty
  BY DEF Init, Lookup, Chain, Behind, Buckets
<1>2. \A t \in Threads : StatusOf(t) = "idle" /\ RequestOf(t) = KV!NoRequest /\ Answer(t) = Empty
  BY DEF Init, StatusOf, RequestOf, Answer, TookEffect, KV!NoRequest
<1> QED
  BY <1>1, <1>2 DEF KV!Init

\* Every step of the table is a step of the atomic map, or none.
LEMMA NextImplements ==
    ASSUME ChainInv, [Next]_vars PROVE KV!Next \/ UNCHANGED KV!kvVars
<1>1. CASE Next
  <2>1. PICK t \in Threads : Call(t) \/ Step(t)
    BY <1>1 DEF Next
  <2> QED
    BY <2>1, CallImplements, StepImplements DEF Step
<1>2. CASE UNCHANGED vars
  <2>1. \A u \in Threads : Same(u)
    BY <1>2 DEF Same, StatusOf, RequestOf, Answer, TookEffect, WillMiss, Behind, KeyOf, Buckets,
       vars, tableVars, blockVars, callVars
  <2>2. MapSame
    BY <1>2 DEF MapSame, Lookup, Chain, Behind, KeyOf, Buckets, vars, tableVars, blockVars
  <2> QED
    BY <2>1, <2>2, Stutters
<1> QED
  BY <1>1, <1>2

\* The table implements the atomic map: "Strongly consistent, writes take effect
\* as immediately as possible" (README.md).  A get() overlapping any puts of its
\* key answers a value the key had during the call, and once a put() returned no
\* get() that starts later answers an older one.
THEOREM IsLinearizable == Spec => Linearizable
<1>1. ChainInv /\ [Next]_vars => [KV!Next]_KV!kvVars
  BY NextImplements
<1> QED
  BY <1>1, InitImplements, ChainInvariance, PTL DEF Spec, Linearizable, KV!Spec

----------------------------------------------------------------------------
(* Walks: a bucket is in the chain of its key or is being added by the one *)
(* writer (AllPlaced, NewestOK).                                           *)

\* A walk beside a put() can meet a null pointer only in the last bucket, and only
\* while that put() has not yet set it.
THEOREM WalksMeetOneUnsetBucket == Spec => []OnlyTheLastIsUnset
<1>1. ChainInv => OnlyTheLastIsUnset
  <2> SUFFICES ASSUME ChainInv, NEW i \in Unset
               PROVE  /\ i = Len(key_value_data)
                      /\ m_write_mutex # NoThread
                      /\ bucket[m_write_mutex] = i
                      /\ pc[m_write_mutex] \in {"write_key", "write_value", "publish"}
    BY DEF OnlyTheLastIsUnset
  <2>1. i \in Buckets /\ key_value_data[i] = NoBlock
    BY DEF Unset
  <2>2. PICK t \in Threads : Adding(t) /\ bucket[t] = i
    BY <2>1 DEF ChainInv, AllPlaced, InChain
  <2>3. m_write_mutex = t
    BY <2>2 DEF ChainInv, MutexHeld, Writing, Adding
  <2>4. i = Len(key_value_data)
    BY <2>2 DEF ChainInv, ThreadOK, NewestOK
  <2>5. pc[t] \notin {"swapped", "store"}
    BY <2>1, <2>2 DEF ChainInv, IInv, LocalsOK
  <2> QED
    BY <2>2, <2>3, <2>4, <2>5, HashAssumption DEF Adding
<1> QED
  BY <1>1, ChainInvariance, PTL

\* Without a writer every bucket is in the chain of its key.
LEMMA QuietTable ==
    ASSUME ChainInv, m_write_mutex = NoThread
    PROVE  \A i \in Buckets : InChain(i, Hash[KeyOf(i)]) /\ KeyOf(i) \in Keys
BY HashAssumption DEF ChainInv, AllPlaced, MutexHeld, Writing, Adding

\* What print_stats() and a loop from begin() to end() meet while no put() is in
\* progress: every stored key once, with the value get() answers.
THEOREM WalksListTheMap == Spec => []ListingIsTheMap
<1>1. ChainInv => ListingIsTheMap
  <2> SUFFICES ASSUME ChainInv, m_write_mutex = NoThread
               PROVE  /\ Unset = {}
                      /\ {Listing[i] : i \in Buckets} = {<<k, Lookup(k)>> : k \in StoredKeys}
                      /\ Stats.num_key_value_pairs = Cardinality(StoredKeys)
                      /\ Stats.num_table_elements = Cardinality({Hash[k] : k \in StoredKeys})
    BY DEF ListingIsTheMap
  <2>1. /\ TypeOK /\ LookupOK
        /\ \A i \in Buckets : InChain(i, Hash[KeyOf(i)]) /\ KeyOf(i) \in Keys
    BY LookupIs, QuietTable DEF ChainInv, IInv
  <2>2. Buckets = 1 .. Len(key_value_data) /\ Len(key_value_data) \in Nat
    BY <2>1, BucketNumbers
  <2>3. \A k \in Keys : Hash[k] \in Indexes
    BY HashAssumption
  <2>4. \A k : k \in StoredKeys <=> k \in Keys /\ \E i \in Buckets : KeyOf(i) = k
    <3>1. \A k \in Keys : \A i : i \in Chain(Hash[k]) <=> InChain(i, Hash[k])
      BY <2>1, ChainMembers
    <3> QED
      BY <2>1, <3>1 DEF StoredKeys, InChain
  <2>5. Unset = {}
    BY <2>1 DEF Unset, InChain
  <2>6. \A i \in Buckets : Listing[i] = <<KeyOf(i), Lookup(KeyOf(i))>>
    BY <2>1, <2>2 DEF LookupOK, Listing, Listed, KeyOf, ValueOf
  <2>7. {Listing[i] : i \in Buckets} = {<<k, Lookup(k)>> : k \in StoredKeys}
    BY <2>1, <2>4, <2>6
  <2>8. Len(key_value_data) = Cardinality(StoredKeys)
    <3> DEFINE f == [i \in Buckets |-> KeyOf(i)]
    <3>1. f \in Bijection(Buckets, StoredKeys)
      <4>1. \A i, j \in Buckets : KeyOf(i) = KeyOf(j) => i = j
        BY <2>1, <2>2, <2>3 DEF ChainInv, TableOK, KeysDiffer
      <4>2. f \in [Buckets -> StoredKeys]
        BY <2>1, <2>4
      <4> QED
        BY <2>4, <4>1, <4>2, Fun_IsBij
    <3>2. IsFiniteSet(Buckets) /\ Cardinality(Buckets) = Len(key_value_data)
      <4>1. PICK n \in Nat : n = Len(key_value_data)
        BY <2>2
      <4>2. IsFiniteSet(1 .. n) /\ Cardinality(1 .. n) = IF 1 > n THEN 0 ELSE n - 1 + 1
        BY 1 \in Int, n \in Int, FS_Interval
      <4>3. Cardinality(1 .. n) = n
        BY <4>2
      <4> QED
        BY <2>2, <4>1, <4>2, <4>3
    <3>3. ExistsBijection(Buckets, StoredKeys)
      BY <3>1 DEF ExistsBijection
    <3> HIDE DEF f
    <3> QED
      BY <3>2, <3>3, FS_Bijection
  <2>9. Stats.num_key_value_pairs = Len(key_value_data)
    BY <2>2 DEF Stats, Listing
  <2>10. {i \in Indexes : m_hash_table[i] # NULL} = {Hash[k] : k \in StoredKeys}
    <3>1. ASSUME NEW i \in Indexes, m_hash_table[i] # NULL
          PROVE  \E k \in StoredKeys : Hash[k] = i
      <4>1. InChain(m_hash_table[i], i)
        BY <3>1 DEF ChainInv, TableOK, Rooted
      <4> QED
        BY <2>1, <2>4, <4>1 DEF InChain
    <3>2. ASSUME NEW k \in StoredKeys PROVE m_hash_table[Hash[k]] # NULL /\ Hash[k] \in Indexes
      BY <2>1, <2>2, <2>3, <2>4 DEF InChain, NULL
    <3> QED
      BY <3>1, <3>2
  <2> QED
    BY <2>5, <2>7, <2>8, <2>9, <2>10 DEF Stats
<1> QED
  BY <1>1, ChainInvariance, PTL
=============================================================================
