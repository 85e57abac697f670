---------------------- MODULE ConcurrentHashTableProofs ----------------------
(***************************************************************************)
(* Proofs that put() and get() never touch a block after it was freed, and *)
(* never forget one, for any number of threads, keys, values, chains and   *)
(* blocks; and, in the second part, that every chain stays complete and    *)
(* holds no key twice.                                                     *)
(*                                                                         *)
(* Every block is in one of three hands: free, shared by pointers (Shared) *)
(* or held by exactly one thread that fills or frees it (Private).  A call *)
(* moves blocks between them in six ways, and a lemma per way shows that   *)
(* Owned survives; the inductive invariant adds what the program counter   *)
(* says of the local variables, so that each action is one of the six or   *)
(* leaves every block where it is.                                         *)
(***************************************************************************)
EXTENDS ConcurrentHashTable, TLAPS

\* A bucket a search can reach owns a block: only store_bucket() links one, and
\* put() has published into it by then.
Linked ==
    /\ \A i \in Indexes : m_hash_table[i] # NULL => key_value_data[m_hash_table[i]] # NoBlock
    /\ \A j \in Buckets : next_bucket[j] # NULL => key_value_data[next_bucket[j]] # NoBlock
    /\ \A t \in Threads : curr[t] # NULL => key_value_data[curr[t]] # NoBlock

\* put() has obtained its block and not yet published it.
Filling == {"find", "load", "compare", "new_bucket", "write_key", "write_value", "publish"}

\* What the place a call has reached says of its local variables.
LocalsOK ==
    \A t \in Threads :
      /\ pc[t] = "idle" <=> op[t] = "none"
      /\ pc[t] \in {"reload", "copy"} => op[t] = "get"
      /\ pc[t] \in {"lock", "alloc", "new_bucket", "write_key", "write_value",
                    "publish", "swapped", "store", "unlock"} => op[t] = "put"
      /\ op[t] # "none" => key[t] \in Keys
      /\ op[t] = "put" => value[t] \in Values
      /\ data_buffer[t] \in Blocks <=> (op[t] = "put" /\ pc[t] \in Filling)
      /\ ref[t] # NoBlock => pc[t] \in {"compare", "copy", "swapped"}
      /\ pc[t] \in {"compare", "copy"} => ref[t] # NoBlock
      /\ pc[t] \in {"load", "compare", "reload"} => curr[t] # NULL
      /\ pc[t] \in {"write_key", "write_value", "publish", "swapped", "store"} => bucket[t] # NULL
      /\ pc[t] \in {"swapped", "store"} => key_value_data[bucket[t]] # NoBlock
      /\ doomed[t] # NoBlock => ref[t] = NoBlock /\ doomed[t] # data_buffer[t]
      /\ m_mutex = t => pc[t] = "alloc" \/ doomed[t] # NoBlock
      /\ pointer_mutex = t => pc[t] \in {"load", "reload", "publish"}

Owned == NoUseAfterFree /\ NoLeak

ownVars == <<m_buffer, key_value_data, ref, data_buffer, doomed>>

\* The inductive invariant.
IInv == TypeOK /\ Linked /\ LocalsOK /\ Owned

----------------------------------------------------------------------------
(* The ways blocks change hands.                                           *)

\* atomic_load of a bucket's pointer: one more pointer shares the block.
LEMMA CopyKeepsOwned ==
    ASSUME TypeOK, Owned, NEW t \in Threads, NEW i \in Buckets,
           ref[t] = NoBlock, LoadPair(t, i),
           UNCHANGED <<m_buffer, key_value_data, data_buffer, doomed>>
    PROVE  Owned'
<1> USE HashAssumption DEF TypeOK, LoadPair, Buckets
<1>1. \A b \in Blocks : Shared(b)' <=> Shared(b)
  BY DEF Shared
<1>2. \A b \in Blocks : Private(b)' <=> Private(b)
  BY DEF Private
<1> QED
  BY <1>1, <1>2 DEF Owned, NoUseAfterFree, NoLeak

\* ~shared_ptr: if no other pointer shares the block it becomes this thread's to
\* free, otherwise ownership is as it was.
LEMMA DropKeepsOwned ==
    ASSUME TypeOK, Owned, NEW t \in Threads,
           doomed[t] = NoBlock, DropRef(t),
           UNCHANGED <<m_buffer, key_value_data, data_buffer>>
    PROVE  Owned'
<1> DEFINE old == ref[t]
<1> USE HashAssumption DEF TypeOK, DropRef, Buckets
<1>1. CASE SharedByOther(t, old) \/ old = NoBlock
  <2>1. doomed' = doomed
    BY <1>1
  <2>2. \A b \in Blocks : Shared(b)' <=> Shared(b)
    BY <1>1 DEF Shared, SharedByOther
  <2>3. \A b \in Blocks : Private(b)' <=> Private(b)
    BY <2>1 DEF Private
  <2> QED
    BY <2>1, <2>2, <2>3 DEF Owned, NoUseAfterFree, NoLeak
<1>2. CASE ~SharedByOther(t, old) /\ old # NoBlock
  <2>1. doomed' = [doomed EXCEPT ![t] = old] /\ old \in Blocks
    BY <1>2
  <2>2. \A b \in Blocks : Shared(b)' <=> Shared(b) /\ b # old
    BY <1>2 DEF Shared, SharedByOther
  <2>3. \A b \in Blocks : Private(b)' <=> Private(b) \/ b = old
    BY <2>1 DEF Private
  <2>4. Shared(old) /\ old \in m_buffer /\ ~Private(old)
    BY <2>1 DEF Shared, Owned, NoUseAfterFree
  <2>5. NoLeak'
    BY <2>2, <2>3 DEF Owned, NoLeak
  <2>6. \A b \in Blocks : Shared(b)' => b \in m_buffer' /\ ~Private(b)'
    BY <2>2, <2>3 DEF Owned, NoUseAfterFree
  <2>7. ASSUME NEW u \in Threads, NEW b \in {data_buffer'[u], doomed'[u]} \ {NoBlock}
        PROVE  /\ b \in m_buffer'
               /\ \A w \in Threads \ {u} : b \notin {data_buffer'[w], doomed'[w]}
    <3>1. CASE b = old
      <4>1. u = t /\ \A w \in Threads : old \notin {data_buffer[w], doomed[w]}
        BY <2>1, <2>4, <2>7, <3>1 DEF Private
      <4> QED
        BY <2>1, <2>4, <3>1, <4>1
    <3>2. CASE b # old
      <4>1. b \in {data_buffer[u], doomed[u]}
        BY <2>1, <2>7, <3>2
      <4> QED
        BY <2>1, <3>2, <4>1 DEF Owned, NoUseAfterFree
    <3> QED
      BY <3>1, <3>2
  <2> QED
    BY <2>5, <2>6, <2>7 DEF Owned, NoUseAfterFree
<1> QED
  BY <1>1, <1>2

\* m_buffer.alloc(): a block no pointer and no thread had becomes put()'s own.
LEMMA AllocKeepsOwned ==
    ASSUME TypeOK, Owned, NEW t \in Threads, NEW b \in Blocks \ m_buffer,
           data_buffer[t] = NoBlock,
           m_buffer' = m_buffer \cup {b},
           data_buffer' = [data_buffer EXCEPT ![t] = b],
           UNCHANGED <<key_value_data, ref, doomed>>
    PROVE  Owned'
<1> USE HashAssumption DEF TypeOK, Buckets
<1>1. \A c \in Blocks : Shared(c)' <=> Shared(c)
  BY DEF Shared
<1>2. \A c \in Blocks : Private(c)' <=> Private(c) \/ c = b
  BY DEF Private
<1>3. ~Shared(b) /\ \A u \in Threads : b \notin {data_buffer[u], doomed[u]}
  BY DEF Owned, NoUseAfterFree
<1>4. ASSUME NEW u \in Threads, NEW c \in {data_buffer'[u], doomed'[u]} \ {NoBlock}
      PROVE  /\ c \in m_buffer'
             /\ \A w \in Threads \ {u} : c \notin {data_buffer'[w], doomed'[w]}
  <2>1. CASE c = b
    BY <1>3, <1>4, <2>1
  <2>2. CASE c # b
    <3>1. c \in {data_buffer[u], doomed[u]}
      BY <1>4, <2>2
    <3> QED
      BY <2>2, <3>1 DEF Owned, NoUseAfterFree
  <2> QED
    BY <2>1, <2>2
<1>5. NoLeak'
  BY <1>1, <1>2 DEF Owned, NoLeak
<1>6. \A c \in Blocks : Shared(c)' => c \in m_buffer' /\ ~Private(c)'
  BY <1>1, <1>2, <1>3 DEF Owned, NoUseAfterFree
<1> QED
  BY <1>4, <1>5, <1>6 DEF Owned, NoUseAfterFree

\* atomic_store of a filled block: put()'s own block becomes shared, and the
\* pointer it replaces moves to a temporary, so the old block stays shared.
LEMMA PublishKeepsOwned ==
    ASSUME TypeOK, Owned, NEW t \in Threads, NEW i \in Buckets,
           ref[t] = NoBlock, doomed[t] = NoBlock, data_buffer[t] \in Blocks,
           LoadPair(t, i),
           key_value_data' = [key_value_data EXCEPT ![i] = data_buffer[t]],
           data_buffer' = [data_buffer EXCEPT ![t] = NoBlock],
           UNCHANGED <<m_buffer, doomed>>
    PROVE  Owned'
<1> DEFINE new == data_buffer[t]
<1> USE HashAssumption DEF TypeOK, LoadPair, Buckets
<1>1. \A b \in Blocks : Shared(b)' <=> Shared(b) \/ b = new
  BY DEF Shared
<1>2. new \in m_buffer /\ \A u \in Threads \ {t} : new \notin {data_buffer[u], doomed[u]}
  BY DEF Owned, NoUseAfterFree
<1>3. \A b \in Blocks : Private(b)' <=> Private(b) /\ b # new
  BY <1>2 DEF Private
<1>4. NoLeak'
  BY <1>1, <1>3 DEF Owned, NoLeak
<1>5. \A b \in Blocks : Shared(b)' => b \in m_buffer' /\ ~Private(b)'
  BY <1>1, <1>2, <1>3 DEF Owned, NoUseAfterFree
<1>6. ASSUME NEW u \in Threads, NEW c \in {data_buffer'[u], doomed'[u]} \ {NoBlock}
      PROVE  /\ c \in m_buffer'
             /\ \A w \in Threads \ {u} : c \notin {data_buffer'[w], doomed'[w]}
  <2>1. c \in {data_buffer[u], doomed[u]}
    BY <1>6
  <2> QED
    BY <2>1 DEF Owned, NoUseAfterFree
<1> QED
  BY <1>4, <1>5, <1>6 DEF Owned, NoUseAfterFree

\* BufferFreer: only this thread had the block, so nobody misses it.
LEMMA FreeKeepsOwned ==
    ASSUME TypeOK, Owned, NEW t \in Threads,
           doomed[t] # NoBlock, doomed[t] # data_buffer[t],
           m_buffer' = m_buffer \ {doomed[t]},
           doomed' = [doomed EXCEPT ![t] = NoBlock],
           UNCHANGED <<key_value_data, ref, data_buffer>>
    PROVE  Owned'
<1> DEFINE old == doomed[t]
<1> USE HashAssumption DEF TypeOK, Buckets
<1>1. \A b \in Blocks : Shared(b)' <=> Shared(b)
  BY DEF Shared
<1>2. \A u \in Threads \ {t} : old \notin {data_buffer[u], doomed[u]}
  BY DEF Owned, NoUseAfterFree
<1>3. \A b \in Blocks : Private(b)' <=> Private(b) /\ b # old
  BY <1>2 DEF Private
<1>4. ~Shared(old)
  BY DEF Owned, NoUseAfterFree, Private
<1> QED
  BY <1>1, <1>2, <1>3, <1>4 DEF Owned, NoUseAfterFree, NoLeak

\* get_new_bucket(): a bucket without a block shares none.
LEMMA NewBucketKeepsOwned ==
    ASSUME TypeOK, Owned, key_value_data' = Append(key_value_data, NoBlock),
           UNCHANGED <<m_buffer, ref, data_buffer, doomed>>
    PROVE  Owned'
<1> USE HashAssumption DEF TypeOK, Buckets
<1>1. \A b \in Blocks : Shared(b)' <=> Shared(b)
  BY DEF Shared
<1>2. \A b \in Blocks : Private(b)' <=> Private(b)
  BY DEF Private
<1> QED
  BY <1>1, <1>2 DEF Owned, NoUseAfterFree, NoLeak

\* A step that moves no pointer and no block.
LEMMA SameKeepsOwned == Owned /\ UNCHANGED ownVars => Owned'
BY DEF Owned, ownVars, NoUseAfterFree, NoLeak, Shared, Private, Buckets

----------------------------------------------------------------------------
(* The actions keep the types.                                             *)

\* Every step of a call keeps every variable in its type.  It needs LocalsOK:
\* a block is written at data_buffer[t], a bucket at bucket[t].
LEMMA TypeStep == ASSUME IInv, NEW t \in Threads, Call(t) \/ Step(t) PROVE TypeOK'
<1> USE HashAssumption DEF IInv, TypeOK, Linked, LocalsOK, Labels, Filling, NULL, Buckets,
        At, Goto, UnderBufferMutex, UnderPointerMutex, mutexVars, tableVars, blockVars, callVars,
        LoadPair, DropRef, AfterHit, AfterMiss
<1>1. ASSUME FindHead(t) PROVE TypeOK'
  BY <1>1 DEF FindHead
<1>2. ASSUME FindLoad(t) PROVE TypeOK'
  BY <1>2 DEF FindLoad
<1>3. ASSUME FindCompare(t) PROVE TypeOK'
  <2>1. /\ ref[t] \in Blocks /\ curr[t] \in Buckets
        /\ next_bucket[curr[t]] \in Buckets \cup {NULL}
    BY <1>3 DEF FindCompare
  <2> HIDE DEF Linked, LocalsOK
  <2>2. CASE block_key[ref[t]] = key[t]
    BY <1>3, <2>1, <2>2 DEF FindCompare
  <2>3. CASE block_key[ref[t]] # key[t]
    BY <1>3, <2>1, <2>3 DEF FindCompare
  <2> QED
    BY <2>2, <2>3
<1>4. ASSUME GetReload(t) PROVE TypeOK'
  BY <1>4 DEF GetReload
<1>5. ASSUME GetCopy(t) PROVE TypeOK'
  BY <1>5 DEF GetCopy
<1>6. ASSUME PutLock(t) PROVE TypeOK'
  BY <1>6 DEF PutLock
<1>7. ASSUME PutAlloc(t) PROVE TypeOK'
  BY <1>7 DEF PutAlloc
<1>8. ASSUME PutAllocFails(t) PROVE TypeOK'
  BY <1>8 DEF PutAllocFails
<1>9. ASSUME PutNewBucket(t) PROVE TypeOK'
  BY <1>9 DEF PutNewBucket
<1>10. ASSUME PutWriteKey(t) PROVE TypeOK'
  BY <1>10 DEF PutWriteKey
<1>11. ASSUME PutWriteValue(t) PROVE TypeOK'
  BY <1>11 DEF PutWriteValue
<1>12. ASSUME PutPublish(t) PROVE TypeOK'
  BY <1>12 DEF PutPublish
<1>13. ASSUME PutDropOld(t) PROVE TypeOK'
  BY <1>13 DEF PutDropOld
<1>14. ASSUME StoreBucket(t) PROVE TypeOK'
  BY <1>14 DEF StoreBucket
<1>15. ASSUME PutUnlock(t) PROVE TypeOK'
  BY <1>15 DEF PutUnlock
<1>16. ASSUME Return(t) PROVE TypeOK'
  BY <1>16 DEF Return
<1>17. ASSUME FreeBlock(t) PROVE TypeOK'
  BY <1>17 DEF FreeBlock
<1>18. ASSUME NEW k \in Keys, CallGet(t, k) PROVE TypeOK'
  BY <1>18 DEF CallGet
<1>19. ASSUME NEW k \in Keys, NEW v \in Values, CallPut(t, k, v) PROVE TypeOK'
  BY <1>19 DEF CallPut
<1>20. ASSUME Lock(t) PROVE TypeOK'
  BY <1>20 DEF Lock, LockBuffer, LockPointer
<1> QED
  BY <1>1, <1>2, <1>3, <1>4, <1>5, <1>6,
     <1>7, <1>8, <1>9, <1>10, <1>11, <1>12,
     <1>13, <1>14, <1>15, <1>16, <1>17, <1>18, <1>19, <1>20
     DEF Call, Step, Find, GetStep, PutStep

\* Nothing unlinks a bucket or empties one, and store_bucket() links a bucket
\* only after set() gave it a block.
LEMMA LinkedStep ==
    ASSUME IInv, NEW t \in Threads, Call(t) \/ Step(t), TypeOK' PROVE Linked'
<1> USE HashAssumption DEF IInv, TypeOK, Linked, LocalsOK, NULL, Buckets,
        At, Goto, UnderBufferMutex, UnderPointerMutex, mutexVars, tableVars, blockVars, callVars,
        LoadPair, DropRef, AfterHit, AfterMiss
<1>1. ASSUME FindHead(t) PROVE Linked'
  BY <1>1 DEF FindHead
<1>2. ASSUME FindLoad(t) PROVE Linked'
  BY <1>2 DEF FindLoad
<1>3. ASSUME FindCompare(t) PROVE Linked'
  <2>1. /\ UNCHANGED <<m_hash_table, key_value_data, next_bucket>> /\ curr[t] \in Buckets
        /\ curr' = curr \/ curr' = [curr EXCEPT ![t] = next_bucket[curr[t]]]
    BY <1>3 DEF FindCompare
  <2> QED
    BY <2>1
<1>4. ASSUME GetReload(t) PROVE Linked'
  BY <1>4 DEF GetReload
<1>5. ASSUME GetCopy(t) PROVE Linked'
  BY <1>5 DEF GetCopy
<1>6. ASSUME PutLock(t) PROVE Linked'
  BY <1>6 DEF PutLock
<1>7. ASSUME PutAlloc(t) PROVE Linked'
  BY <1>7 DEF PutAlloc
<1>8. ASSUME PutAllocFails(t) PROVE Linked'
  BY <1>8 DEF PutAllocFails
<1>9. ASSUME PutNewBucket(t) PROVE Linked'
  BY <1>9 DEF PutNewBucket
<1>10. ASSUME PutWriteKey(t) PROVE Linked'
  BY <1>10 DEF PutWriteKey
<1>11. ASSUME PutWriteValue(t) PROVE Linked'
  BY <1>11 DEF PutWriteValue
<1>12. ASSUME PutPublish(t) PROVE Linked'
  <2>1. data_buffer[t] \in Blocks
    BY <1>12 DEF PutPublish, Filling
  <2>2. \A j \in Buckets : key_value_data[j] # NoBlock => key_value_data'[j] # NoBlock
    BY <1>12, <2>1 DEF PutPublish
  <2> QED
    BY <1>12, <2>2 DEF PutPublish
<1>13. ASSUME PutDropOld(t) PROVE Linked'
  BY <1>13 DEF PutDropOld
<1>14. ASSUME StoreBucket(t) PROVE Linked'
  BY <1>14 DEF StoreBucket
<1>15. ASSUME PutUnlock(t) PROVE Linked'
  BY <1>15 DEF PutUnlock
<1>16. ASSUME Return(t) PROVE Linked'
  BY <1>16 DEF Return
<1>17. ASSUME FreeBlock(t) PROVE Linked'
  BY <1>17 DEF FreeBlock
<1>18. ASSUME NEW k \in Keys, CallGet(t, k) PROVE Linked'
  BY <1>18 DEF CallGet
<1>19. ASSUME NEW k \in Keys, NEW v \in Values, CallPut(t, k, v) PROVE Linked'
  BY <1>19 DEF CallPut
<1>20. ASSUME Lock(t) PROVE Linked'
  BY <1>20 DEF Lock, LockBuffer, LockPointer
<1> QED
  BY <1>1, <1>2, <1>3, <1>4, <1>5, <1>6,
     <1>7, <1>8, <1>9, <1>10, <1>11, <1>12,
     <1>13, <1>14, <1>15, <1>16, <1>17, <1>18, <1>19, <1>20
     DEF Call, Step, Find, GetStep, PutStep

\* A thread's local variables stay in step with its program counter, whatever
\* the other threads do to the table.
LEMMA LocalsStep ==
    ASSUME IInv, NEW t \in Threads, Call(t) \/ Step(t), TypeOK' PROVE LocalsOK'
<1> USE HashAssumption DEF IInv, TypeOK, Linked, LocalsOK, Labels, Filling, NULL, Buckets,
        At, Goto, UnderBufferMutex, UnderPointerMutex, mutexVars, tableVars, blockVars, callVars,
        LoadPair, DropRef, AfterHit, AfterMiss
<1>1. ASSUME FindHead(t) PROVE LocalsOK'
  BY <1>1 DEF FindHead
<1>2. ASSUME FindLoad(t) PROVE LocalsOK'
  BY <1>2 DEF FindLoad
<1>3. ASSUME FindCompare(t) PROVE LocalsOK'
  <2>1. ref[t] \in Blocks /\ Shared(ref[t])
    BY <1>3 DEF FindCompare, Shared
  <2>2. /\ curr[t] \in Buckets /\ doomed[t] = NoBlock
        /\ ref'[t] = NoBlock /\ pc[t] = "compare" /\ op[t] \in {"get", "put"}
        /\ \A u \in Threads \ {t} : /\ pc'[u] = pc[u] /\ curr'[u] = curr[u]
                                   /\ bucket'[u] = bucket[u] /\ ref'[u] = ref[u]
                                   /\ doomed'[u] = doomed[u]
        /\ UNCHANGED <<op, key, value, data_buffer, key_value_data>>
        /\ mutexVars' = mutexVars /\ m_mutex # t /\ pointer_mutex # t
    BY <1>3 DEF FindCompare
  <2>3. doomed'[t] # NoBlock => doomed'[t] # data_buffer[t]
    <3>1. data_buffer[t] # ref[t]
      BY <2>1 DEF Owned, NoUseAfterFree, Private
    <3> QED
      BY <1>3, <3>1 DEF FindCompare
  <2>4. \/ pc'[t] = "reload" /\ op[t] = "get" /\ curr'[t] # NULL
        \/ pc'[t] = "write_key" /\ op[t] = "put" /\ bucket'[t] # NULL
        \/ pc'[t] = "return" /\ op[t] = "get"
        \/ pc'[t] = "new_bucket" /\ op[t] = "put"
        \/ pc'[t] = "load" /\ curr'[t] # NULL
    BY <1>3, <2>2 DEF FindCompare
  <2> QED
    BY <2>2, <2>3, <2>4
<1>4. ASSUME GetReload(t) PROVE LocalsOK'
  BY <1>4 DEF GetReload
<1>5. ASSUME GetCopy(t) PROVE LocalsOK'
  BY <1>5 DEF GetCopy
<1>6. ASSUME PutLock(t) PROVE LocalsOK'
  BY <1>6 DEF PutLock
<1>7. ASSUME PutAlloc(t) PROVE LocalsOK'
  BY <1>7 DEF PutAlloc
<1>8. ASSUME PutAllocFails(t) PROVE LocalsOK'
  BY <1>8 DEF PutAllocFails
<1>9. ASSUME PutNewBucket(t) PROVE LocalsOK'
  BY <1>9 DEF PutNewBucket
<1>10. ASSUME PutWriteKey(t) PROVE LocalsOK'
  BY <1>10 DEF PutWriteKey
<1>11. ASSUME PutWriteValue(t) PROVE LocalsOK'
  BY <1>11 DEF PutWriteValue
<1>12. ASSUME PutPublish(t) PROVE LocalsOK'
  BY <1>12 DEF PutPublish
<1>13. ASSUME PutDropOld(t) PROVE LocalsOK'
  BY <1>13 DEF PutDropOld
<1>14. ASSUME StoreBucket(t) PROVE LocalsOK'
  BY <1>14 DEF StoreBucket
<1>15. ASSUME PutUnlock(t) PROVE LocalsOK'
  BY <1>15 DEF PutUnlock
<1>16. ASSUME Return(t) PROVE LocalsOK'
  BY <1>16 DEF Return
<1>17. ASSUME FreeBlock(t) PROVE LocalsOK'
  BY <1>17 DEF FreeBlock
<1>18. ASSUME NEW k \in Keys, CallGet(t, k) PROVE LocalsOK'
  BY <1>18 DEF CallGet
<1>19. ASSUME NEW k \in Keys, NEW v \in Values, CallPut(t, k, v) PROVE LocalsOK'
  BY <1>19 DEF CallPut
<1>20. ASSUME Lock(t) PROVE LocalsOK'
  BY <1>20 DEF Lock, LockBuffer, LockPointer
<1> QED
  BY <1>1, <1>2, <1>3, <1>4, <1>5, <1>6,
     <1>7, <1>8, <1>9, <1>10, <1>11, <1>12,
     <1>13, <1>14, <1>15, <1>16, <1>17, <1>18, <1>19, <1>20
     DEF Call, Step, Find, GetStep, PutStep

\* Each action moves blocks in one of the six ways, or not at all.
LEMMA OwnedStep ==
    ASSUME IInv, NEW t \in Threads, Call(t) \/ Step(t) PROVE Owned'
<1> USE HashAssumption DEF IInv, TypeOK, LocalsOK, NULL, Buckets,
        At, Goto, UnderBufferMutex, UnderPointerMutex, mutexVars, tableVars, blockVars, callVars
<1>1. ASSUME FindHead(t) PROVE Owned'
  BY <1>1, SameKeepsOwned DEF FindHead, ownVars
<1>2. ASSUME FindLoad(t) PROVE Owned'
  BY <1>2, CopyKeepsOwned DEF FindLoad
<1>3. ASSUME FindCompare(t) PROVE Owned'
  BY <1>3, DropKeepsOwned DEF FindCompare
<1>4. ASSUME GetReload(t) PROVE Owned'
  BY <1>4, CopyKeepsOwned DEF GetReload
<1>5. ASSUME GetCopy(t) PROVE Owned'
  BY <1>5, DropKeepsOwned DEF GetCopy
<1>6. ASSUME PutLock(t) PROVE Owned'
  BY <1>6, SameKeepsOwned DEF PutLock, ownVars
<1>7. ASSUME PutAlloc(t) PROVE Owned'
  <2>1. PICK b \in Blocks \ m_buffer :
           m_buffer' = m_buffer \cup {b} /\ data_buffer' = [data_buffer EXCEPT ![t] = b]
    BY <1>7 DEF PutAlloc
  <2>2. data_buffer[t] = NoBlock
    BY <1>7 DEF PutAlloc, Filling
  <2> QED
    BY <1>7, <2>1, <2>2, AllocKeepsOwned DEF PutAlloc
<1>8. ASSUME PutAllocFails(t) PROVE Owned'
  BY <1>8, SameKeepsOwned DEF PutAllocFails, ownVars
<1>9. ASSUME PutNewBucket(t) PROVE Owned'
  BY <1>9, NewBucketKeepsOwned DEF PutNewBucket
<1>10. ASSUME PutWriteKey(t) PROVE Owned'
  BY <1>10, SameKeepsOwned DEF PutWriteKey, ownVars
<1>11. ASSUME PutWriteValue(t) PROVE Owned'
  BY <1>11, SameKeepsOwned DEF PutWriteValue, ownVars
<1>12. ASSUME PutPublish(t) PROVE Owned'
  <2>1. data_buffer[t] \in Blocks /\ bucket[t] \in Buckets /\ ref[t] = NoBlock
    BY <1>12 DEF PutPublish, Filling
  <2> QED
    BY <1>12, <2>1, PublishKeepsOwned DEF PutPublish
<1>13. ASSUME PutDropOld(t) PROVE Owned'
  BY <1>13, DropKeepsOwned DEF PutDropOld
<1>14. ASSUME StoreBucket(t) PROVE Owned'
  BY <1>14, SameKeepsOwned DEF StoreBucket, ownVars
<1>15. ASSUME PutUnlock(t) PROVE Owned'
  BY <1>15, SameKeepsOwned DEF PutUnlock, ownVars
<1>16. ASSUME Return(t) PROVE Owned'
  BY <1>16, SameKeepsOwned DEF Return, ownVars
<1>17. ASSUME FreeBlock(t) PROVE Owned'
  BY <1>17, FreeKeepsOwned DEF FreeBlock
<1>18. ASSUME NEW k \in Keys, CallGet(t, k) PROVE Owned'
  BY <1>18, SameKeepsOwned DEF CallGet, ownVars
<1>19. ASSUME NEW k \in Keys, NEW v \in Values, CallPut(t, k, v) PROVE Owned'
  BY <1>19, SameKeepsOwned DEF CallPut, ownVars
<1>20. ASSUME Lock(t) PROVE Owned'
  BY <1>20, SameKeepsOwned DEF Lock, LockBuffer, LockPointer, ownVars
<1> QED
  BY <1>1, <1>2, <1>3, <1>4, <1>5, <1>6,
     <1>7, <1>8, <1>9, <1>10, <1>11, <1>12,
     <1>13, <1>14, <1>15, <1>16, <1>17, <1>18, <1>19, <1>20
     DEF Call, Step, Find, GetStep, PutStep

----------------------------------------------------------------------------
(* The theorems.                                                           *)

\* The empty table of the constructor on a new file satisfies the invariant.
LEMMA InitIInv == Init => IInv
<1> SUFFICES ASSUME Init PROVE IInv
  OBVIOUS
<1> USE HashAssumption DEF Init, Buckets, NULL
<1>1. TypeOK
  BY DEF TypeOK, Labels
<1>2. Linked
  BY DEF Linked
<1>3. LocalsOK
  BY DEF LocalsOK, Filling
<1>4. Owned
  BY DEF Owned, NoUseAfterFree, NoLeak, Shared, Private
<1> QED
  BY <1>1, <1>2, <1>3, <1>4 DEF IInv

\* Every step of every thread keeps the invariant.
LEMMA NextIInv == IInv /\ [Next]_vars => IInv'
<1> SUFFICES ASSUME IInv, [Next]_vars PROVE IInv'
  OBVIOUS
<1>1. CASE Next
  <2>1. PICK t \in Threads : Call(t) \/ Step(t)
    BY <1>1 DEF Next
  <2>2. TypeOK'
    BY <2>1, TypeStep
  <2> QED
    BY <2>1, <2>2, LinkedStep, LocalsStep, OwnedStep DEF IInv
<1>2. CASE UNCHANGED vars
  BY <1>2 DEF IInv, vars, mutexVars, tableVars, blockVars, callVars, TypeOK, Linked, LocalsOK,
     Owned, NoUseAfterFree, NoLeak, Shared, Private, Buckets
<1> QED
  BY <1>1, <1>2

\* The invariant holds in every reachable state.
THEOREM Invariance == Spec => []IInv
<1> QED
  BY InitIInv, NextIInv, PTL DEF Spec

\* Every variable keeps its type, whatever the number of threads: in particular
\* no call dereferences a bucket or block number that does not exist.
THEOREM TypeCorrect == Spec => []TypeOK
<1>1. IInv => TypeOK
  BY DEF IInv
<1> QED
  BY <1>1, Invariance, PTL

\* get() and put() never reach a block that BufferFreer gave back to m_buffer,
\* and no block is freed twice or while a reader still copies its value.
THEOREM NeverUsedAfterFree == Spec => []NoUseAfterFree
<1>1. IInv => NoUseAfterFree
  BY DEF IInv, Owned
<1> QED
  BY <1>1, Invariance, PTL

\* Every block put() obtained is reachable or about to be freed: overwriting a
\* key any number of times, with any readers, exhausts nothing.
THEOREM NeverLeaked == Spec => []NoLeak
<1>1. IInv => NoLeak
  BY DEF IInv, Owned
<1> QED
  BY <1>1, Invariance, PTL

\* What a pointer shares nobody writes: put() writes the block it obtained, and
\* no pointer reaches that one.
LEMMA BytesStep == ASSUME IInv, NEW t \in Threads, Call(t) \/ Step(t) PROVE SharedBytesKept
<1> SUFFICES ASSUME NEW b \in Blocks, Shared(b)
             PROVE  block_key'[b] = block_key[b] /\ block_value'[b] = block_value[b]
  BY DEF SharedBytesKept
<1>1. CASE block_key' = block_key /\ block_value' = block_value
  BY <1>1
<1>2. CASE PutWriteKey(t) \/ PutWriteValue(t)
  <2>1. b # data_buffer[t]
    BY DEF IInv, Owned, NoUseAfterFree, Private
  <2> QED
    BY <1>2, <2>1 DEF PutWriteKey, PutWriteValue, IInv, TypeOK
<1>3. \/ block_key' = block_key /\ block_value' = block_value
      \/ PutWriteKey(t) \/ PutWriteValue(t)
  BY DEF Call, Step, Lock, LockBuffer, LockPointer, Find, GetStep, PutStep, FindHead, FindLoad,
     FindCompare, GetReload, GetCopy, PutLock, PutAlloc, PutAllocFails, PutNewBucket, PutPublish,
     PutDropOld, StoreBucket, PutUnlock, Return, FreeBlock, CallGet, CallPut, blockVars,
     callVars, tableVars
<1> QED
  BY <1>1, <1>2, <1>3

\* The bytes of a published value never change under a reader: put() writes
\* only the block it has not published.
THEOREM NeverTorn == Spec => SharedBlocksAreImmutable
<1>1. IInv /\ [Next]_vars => [SharedBytesKept]_vars
  <2> SUFFICES ASSUME IInv, Next PROVE SharedBytesKept
    OBVIOUS
  <2>1. PICK t \in Threads : Call(t) \/ Step(t)
    BY DEF Next
  <2> QED
    BY <2>1, BytesStep
<1> QED
  BY <1>1, Invariance, PTL DEF Spec, SharedBlocksAreImmutable

----------------------------------------------------------------------------
(* The chains: each is complete and holds no key twice, however puts and   *)
(* gets interleave.                                                        *)
(*                                                                         *)
(* InChain says which buckets the table has, without following a link.     *)
(* Every action but StoreBucket leaves it, the links and the keys of its   *)
(* buckets as they were (SameChains); StoreBucket adds one bucket in front *)
(* of one chain (BucketAdded).  That the bucket is new to its chain,       *)
(* and its key too, rests on the one writer: since m_write_mutex was       *)
(* taken, nobody else added to what find_bucket_with_key() has seen.       *)

\* put() between taking m_write_mutex and releasing it.
Writing(t) == op[t] = "put" /\ pc[t] \notin {"lock", "return"}

MutexHeld == \A t \in Threads : Writing(t) <=> m_write_mutex = t

\* put() has a new bucket that no chain leads to yet.
Adding(t) ==
    /\ op[t] = "put" /\ curr[t] = NULL
    /\ pc[t] \in {"write_key", "write_value", "publish", "swapped", "store"}

\* put() is about to replace the value of the bucket it found.
Replacing(t) ==
    /\ op[t] = "put" /\ curr[t] # NULL
    /\ pc[t] \in {"write_key", "write_value", "publish"}

ValueOf(i) == block_value[key_value_data[i]]

\* Bucket i is one that a search of the chain can meet.
InChain(i, index) ==
    /\ i \in Buckets /\ key_value_data[i] # NoBlock
    /\ Hash[KeyOf(i)] = index /\ i <= m_hash_table[index]

\* A chain in use starts at a bucket of its own.
Rooted ==
    \A index \in Indexes : m_hash_table[index] # NULL => InChain(m_hash_table[index], index)

\* A link leads to the next older bucket of the chain, the last one nowhere.
LinkOK(i, index) ==
    \/ /\ next_bucket[i] = NULL
       /\ \A j \in Nat : InChain(j, index) => i <= j
    \/ /\ InChain(next_bucket[i], index) /\ next_bucket[i] < i
       /\ \A j \in Nat : InChain(j, index) /\ j < i => j <= next_bucket[i]

LinksOK == \A index \in Indexes : \A i \in Nat : InChain(i, index) => LinkOK(i, index)

KeysDiffer ==
    \A index \in Indexes : \A i, j \in Nat :
      InChain(i, index) /\ InChain(j, index) /\ KeyOf(i) = KeyOf(j) => i = j

\* Every bucket ever emplaced is in the chain of its key, or being added.
AllPlaced ==
    \A i \in Buckets :
      \/ InChain(i, Hash[KeyOf(i)]) /\ KeyOf(i) \in Keys
      \/ \E t \in Threads : Adding(t) /\ bucket[t] = i

\* The bucket being added is the last one, in front of every chain.
NewestOK(t) ==
    Adding(t) =>
      /\ bucket[t] = Len(key_value_data)
      /\ \A index \in Indexes : m_hash_table[index] < bucket[t]
      /\ pc[t] \in {"write_key", "write_value", "publish"} => key_value_data[bucket[t]] = NoBlock
      /\ pc[t] \in {"swapped", "store"} =>
           KeyOf(bucket[t]) = key[t] /\ ValueOf(bucket[t]) = value[t]

\* The search has passed no bucket of its key.
NoneNewer(t) ==
    \A j \in Nat : InChain(j, Hash[key[t]]) /\ j > curr[t] => KeyOf(j) # key[t]

\* What a search knows of the bucket it has reached.
SearchOK(t) ==
    /\ pc[t] \in {"load", "compare", "reload"} => InChain(curr[t], Hash[key[t]])
    /\ pc[t] = "compare" => block_key[ref[t]] = KeyOf(curr[t])
    /\ pc[t] = "reload" => KeyOf(curr[t]) = key[t]
    /\ op[t] = "put" /\ pc[t] \in {"load", "compare", "new_bucket"} => NoneNewer(t)
    /\ pc[t] \in {"new_bucket", "store"} => curr[t] = NULL

\* What put() knows of its bucket and of the block it fills.
PutOK(t) ==
    /\ Adding(t) => NoneNewer(t)
    /\ Replacing(t) => /\ bucket[t] = curr[t] /\ InChain(curr[t], Hash[key[t]])
                       /\ KeyOf(curr[t]) = key[t]
    /\ pc[t] \in {"write_value", "publish"} => block_key[data_buffer[t]] = key[t]
    /\ pc[t] = "publish" => block_value[data_buffer[t]] = value[t]
    /\ pc[t] = "store" => result[t] = "stored"
    /\ op[t] # "put" /\ pc[t] # "return" => result[t] = Empty

ThreadOK(t) == NewestOK(t) /\ SearchOK(t) /\ PutOK(t)

TableOK == Rooted /\ LinksOK /\ KeysDiffer

\* The inductive invariant.
ChainInv == IInv /\ MutexHeld /\ TableOK /\ AllPlaced /\ \A t \in Threads : ThreadOK(t)

----------------------------------------------------------------------------
(* What a step does to the chains.                                         *)

\* The chains, their links and their keys are as they were.
SameChains ==
    /\ m_hash_table' = m_hash_table
    /\ \A index \in Indexes : \A i \in Nat :
         /\ InChain(i, index)' <=> InChain(i, index)
         /\ InChain(i, index) => /\ KeyOf(i)' = KeyOf(i)
                                 /\ next_bucket'[i] = next_bucket[i]

\* Bucket i is now the first of the chain at home, and nothing else has changed.
BucketAdded(i, home) ==
    /\ m_hash_table' = [m_hash_table EXCEPT ![home] = i]
    /\ InChain(i, home)' /\ ~InChain(i, home)
    /\ next_bucket'[i] = m_hash_table[home]
    /\ \A index \in Indexes : \A j \in Nat :
         /\ InChain(j, index)' <=> InChain(j, index) \/ (j = i /\ index = home)
         /\ InChain(j, index) => KeyOf(j)' = KeyOf(j) /\ next_bucket'[j] = next_bucket[j]

\* The local variables of the other threads are their own.
OthersKept(t) ==
    \A u \in Threads \ {t} :
      /\ pc'[u] = pc[u] /\ op'[u] = op[u] /\ key'[u] = key[u] /\ value'[u] = value[u]
      /\ data_buffer'[u] = data_buffer[u] /\ curr'[u] = curr[u] /\ bucket'[u] = bucket[u]
      /\ ref'[u] = ref[u] /\ result'[u] = result[u] /\ doomed'[u] = doomed[u]

\* Buckets are numbered from 1.
LEMMA BucketNumbers ==
    ASSUME TypeOK
    PROVE  /\ Buckets = 1 .. Len(key_value_data) /\ Len(key_value_data) \in Nat
           /\ \A i, index : InChain(i, index) => i \in Nat /\ i > 0
BY DEF TypeOK, Buckets, InChain

\* No action writes a local variable of another thread.
LEMMA OthersStep ==
    ASSUME IInv, NEW t \in Threads, Call(t) \/ Step(t) PROVE OthersKept(t)
<1> USE DEF IInv, TypeOK, OthersKept, At, Goto, UnderBufferMutex, UnderPointerMutex, mutexVars,
        tableVars, blockVars, callVars, LoadPair, DropRef
<1>1. ASSUME Find(t) PROVE OthersKept(t)
  BY <1>1 DEF Find, FindHead, FindLoad, FindCompare
<1>2. ASSUME GetStep(t) PROVE OthersKept(t)
  BY <1>2 DEF GetStep, GetReload, GetCopy
<1>3. ASSUME PutLock(t) \/ PutAlloc(t) \/ PutAllocFails(t) \/ PutNewBucket(t) \/ PutWriteKey(t)
      PROVE  OthersKept(t)
  BY <1>3 DEF PutLock, PutAlloc, PutAllocFails, PutNewBucket, PutWriteKey
<1>4. ASSUME PutWriteValue(t) \/ PutPublish(t) \/ PutDropOld(t) \/ StoreBucket(t) \/ PutUnlock(t)
      PROVE  OthersKept(t)
  BY <1>4 DEF PutWriteValue, PutPublish, PutDropOld, StoreBucket, PutUnlock
<1>5. ASSUME Lock(t) \/ FreeBlock(t) \/ Return(t) PROVE OthersKept(t)
  BY <1>5 DEF Lock, LockBuffer, LockPointer, FreeBlock, Return
<1>6. ASSUME Call(t) PROVE OthersKept(t)
  BY <1>6 DEF Call, CallGet, CallPut
<1> QED
  BY <1>1, <1>2, <1>3, <1>4, <1>5, <1>6 DEF Step, PutStep

\* A step that leaves the table alone leaves the chains alone: no byte of a
\* block that a bucket owns changes.
LEMMA SameTable ==
    ASSUME IInv, UNCHANGED tableVars, SharedBytesKept PROVE SameChains
<1> USE DEF IInv, TypeOK, tableVars
<1>1. \A i \in Buckets : key_value_data[i] # NoBlock => KeyOf(i)' = KeyOf(i)
  BY DEF SharedBytesKept, Shared, KeyOf, Buckets
<1> QED
  BY <1>1 DEF SameChains, InChain, Buckets

\* Every action but StoreBucket leaves the chains as they are: get_new_bucket()
\* emplaces a bucket behind no head, and set() gives a found bucket a block with
\* the key it has, or a new one its first block.
LEMMA SameStep ==
    ASSUME ChainInv, NEW t \in Threads, Call(t) \/ Step(t), ~StoreBucket(t) PROVE SameChains
<1> USE DEF ChainInv
<1>1. SharedBytesKept
  BY BytesStep
<1>2. CASE PutNewBucket(t)
  <2> USE <1>2 DEF IInv, TypeOK, PutNewBucket
  <2>1. \A i \in Buckets : /\ i \in Buckets' /\ key_value_data'[i] = key_value_data[i]
                           /\ next_bucket'[i] = next_bucket[i]
    BY DEF Buckets
  <2>2. \A i \in Buckets' \ Buckets : key_value_data'[i] = NoBlock
    BY DEF Buckets
  <2>3. block_key' = block_key /\ m_hash_table' = m_hash_table
    BY DEF blockVars
  <2> QED
    BY <2>1, <2>2, <2>3 DEF SameChains, InChain, KeyOf
<1>3. CASE PutPublish(t)
  <2>0. PICK i \in Buckets : i = bucket[t]
    BY <1>3 DEF PutPublish, At, IInv, TypeOK, LocalsOK
  <2>1. /\ i = bucket[t] /\ data_buffer[t] \in Blocks /\ op[t] = "put" /\ pc[t] = "publish"
        /\ key_value_data' = [key_value_data EXCEPT ![i] = data_buffer[t]]
        /\ UNCHANGED <<m_hash_table, next_bucket, block_key>> /\ Buckets' = Buckets
    BY <1>3, <2>0 DEF PutPublish, At, IInv, TypeOK, LocalsOK, Filling, Buckets, blockVars
  <2>2. KeyOf(i)' = key[t]
    BY <2>1 DEF IInv, TypeOK, ThreadOK, PutOK, KeyOf, Buckets
  <2>3. \A j \in Buckets \ {i} : key_value_data'[j] = key_value_data[j] /\ KeyOf(j)' = KeyOf(j)
    BY <2>1 DEF IInv, TypeOK, KeyOf, Buckets
  <2>4. CASE curr[t] = NULL
    <3>1. key_value_data[i] = NoBlock /\ \A index \in Indexes : m_hash_table[index] < i
      BY <2>1, <2>4 DEF ThreadOK, NewestOK, Adding
    <3>2. i \in Nat /\ \A index \in Indexes : m_hash_table[index] \in Nat
      BY <2>1 DEF IInv, TypeOK, NULL, Buckets
    <3>3. \A index \in Indexes : ~InChain(i, index) /\ ~InChain(i, index)'
      BY <2>1, <3>1, <3>2 DEF InChain
    <3> QED
      BY <2>1, <2>3, <3>3 DEF SameChains, InChain
  <2>5. CASE curr[t] # NULL
    <3>1. InChain(i, Hash[key[t]]) /\ KeyOf(i) = key[t]
      BY <2>1, <2>5 DEF ThreadOK, PutOK, Replacing
    <3>2. key_value_data'[i] # NoBlock /\ KeyOf(i)' = KeyOf(i)
      BY <2>1, <2>2, <3>1, HashAssumption DEF Buckets
    <3> QED
      BY <2>1, <2>3, <3>1, <3>2 DEF SameChains, InChain
  <2> QED
    BY <2>4, <2>5
<1>4. CASE ~PutNewBucket(t) /\ ~PutPublish(t)
  <2>1. UNCHANGED tableVars
    BY <1>4 DEF tableVars, Call, Step, Lock, LockBuffer, LockPointer, Find, GetStep, PutStep,
       FindHead, FindLoad, FindCompare, GetReload, GetCopy, PutLock, PutAlloc, PutAllocFails,
       PutWriteKey, PutWriteValue, PutDropOld, PutUnlock, Return, FreeBlock, CallGet, CallPut
  <2> QED
    BY <1>1, <2>1, SameTable
<1> QED
  BY <1>2, <1>3, <1>4

\* store_bucket() adds the bucket of t to the front of the chain of its key, and
\* no other one: the buckets newer than the head are not set, or those of another
\* writer, and there is none.
LEMMA StoreStep ==
    ASSUME ChainInv, NEW t \in Threads, StoreBucket(t)
    PROVE  \E i \in Buckets, home \in Indexes :
             i = bucket[t] /\ home = Hash[key[t]] /\ BucketAdded(i, home)
<1> USE DEF ChainInv
<1>1. PICK i \in Buckets : i = bucket[t]
  BY DEF StoreBucket, At, IInv, TypeOK, LocalsOK
<1>2. PICK home \in Indexes : home = Hash[key[t]]
  BY HashAssumption DEF IInv, TypeOK
<1>3. /\ pc[t] = "store" /\ op[t] = "put" /\ m_write_mutex = t /\ Adding(t)
      /\ key_value_data[i] # NoBlock
  BY <1>1 DEF StoreBucket, At, IInv, LocalsOK, ThreadOK, SearchOK, Adding, MutexHeld, Writing
<1>4. /\ \A index \in Indexes : m_hash_table[index] < i
      /\ KeyOf(i) = key[t]
  BY <1>1, <1>3 DEF ThreadOK, NewestOK
<1>5. /\ m_hash_table' = [m_hash_table EXCEPT ![home] = i]
      /\ next_bucket' = [next_bucket EXCEPT ![i] = m_hash_table[home]]
      /\ UNCHANGED <<key_value_data, block_key>> /\ Buckets' = Buckets
      /\ \A j : KeyOf(j)' = KeyOf(j)
  BY <1>1, <1>2 DEF StoreBucket, blockVars, Buckets, KeyOf
<1>6. Buckets \subseteq Nat /\ m_hash_table \in [Indexes -> Nat]
  BY DEF Buckets, IInv, TypeOK, NULL
<1>7. ASSUME NEW j \in Buckets, key_value_data[j] # NoBlock, Hash[KeyOf(j)] = home,
             m_hash_table[home] < j
      PROVE  j = i
  <2>1. PICK u \in Threads : Adding(u) /\ bucket[u] = j
    BY <1>6, <1>7 DEF AllPlaced, InChain
  <2>2. u = t
    BY <1>3, <2>1 DEF MutexHeld, Writing, Adding
  <2> QED
    BY <1>1, <2>1, <2>2
<1>8. /\ \A index \in Indexes : ~InChain(i, index)
      /\ InChain(i, home)'
  BY <1>2, <1>3, <1>4, <1>5, <1>6 DEF InChain
<1>9. ASSUME NEW index \in Indexes, NEW j \in Nat
      PROVE  InChain(j, index)' <=> InChain(j, index) \/ (j = i /\ index = home)
  <2>1. CASE index # home
    BY <1>5, <1>6, <2>1 DEF InChain
  <2>2. CASE index = home
    BY <1>4, <1>5, <1>6, <1>7, <1>8, <2>2 DEF InChain
  <2> QED
    BY <2>1, <2>2
<1>10. next_bucket'[i] = m_hash_table[home] /\ \A j \in Buckets \ {i} : next_bucket'[j] = next_bucket[j]
  BY <1>5 DEF Buckets, IInv, TypeOK
<1>11. \A index \in Indexes, j \in Nat : InChain(j, index) => next_bucket'[j] = next_bucket[j]
  BY <1>8, <1>10 DEF InChain
<1>12. BucketAdded(i, home)
  BY <1>5, <1>8, <1>9, <1>10, <1>11 DEF BucketAdded
<1> QED
  BY <1>1, <1>2, <1>12

\* Either way the chains stay rooted, linked in order and free of double keys.
LEMMA SameKeepsTable ==
    ASSUME TypeOK, TypeOK', TableOK, SameChains PROVE TableOK'
<1> USE DEF TableOK, SameChains
<1>1. /\ m_hash_table \in [Indexes -> Nat]
      /\ \A index, j : InChain(j, index) => j \in Nat
      /\ \A j \in Buckets : next_bucket[j] \in Nat
  BY DEF TypeOK, Buckets, InChain, NULL
<1>2. Rooted'
  BY <1>1 DEF Rooted
<1>3. LinksOK'
  <2> SUFFICES ASSUME NEW index \in Indexes, NEW i \in Nat, InChain(i, index)'
               PROVE  LinkOK(i, index)'
    BY DEF LinksOK
  <2>1. InChain(i, index) /\ next_bucket'[i] = next_bucket[i] /\ LinkOK(i, index)
    BY DEF LinksOK
  <2>2. next_bucket[i] \in Nat
    BY <1>1, <2>1 DEF InChain
  <2> QED
    BY <2>1, <2>2 DEF LinkOK
<1>4. KeysDiffer'
  BY DEF KeysDiffer
<1> QED
  BY <1>2, <1>3, <1>4

\* store_bucket() puts a bucket with a new key in front of its chain.
LEMMA AddKeepsTable ==
    ASSUME ChainInv, TypeOK', NEW t \in Threads, StoreBucket(t) PROVE TableOK'
<1> USE DEF ChainInv, TableOK
<1>1. PICK i \in Buckets, home \in Indexes :
        i = bucket[t] /\ home = Hash[key[t]] /\ BucketAdded(i, home)
  BY StoreStep
<1>3. /\ m_hash_table' = [m_hash_table EXCEPT ![home] = i]
      /\ InChain(i, home)' /\ ~InChain(i, home)
      /\ next_bucket'[i] = m_hash_table[home]
      /\ \A index \in Indexes : \A j \in Nat :
             /\ InChain(j, index)' <=> InChain(j, index) \/ (j = i /\ index = home)
             /\ InChain(j, index) => KeyOf(j)' = KeyOf(j) /\ next_bucket'[j] = next_bucket[j]
  BY <1>1 DEF BucketAdded
<1>4. /\ i \in Nat /\ m_hash_table \in [Indexes -> Nat]
      /\ \A index, j : InChain(j, index) => j \in Nat /\ j > 0
      /\ \A j \in Buckets : next_bucket[j] \in Nat
  BY DEF IInv, TypeOK, Buckets, InChain, NULL
<1>5. /\ pc[t] = "store" /\ curr[t] = NULL /\ Adding(t) /\ NoneNewer(t)
      /\ \A index \in Indexes : m_hash_table[index] < i
      /\ KeyOf(i) = key[t] /\ KeyOf(i)' = KeyOf(i)
  BY <1>1 DEF StoreBucket, At, IInv, LocalsOK, ThreadOK, SearchOK, Adding, NewestOK, PutOK,
     KeyOf, blockVars
<1>6. \A j \in Nat : InChain(j, home) => j <= m_hash_table[home] /\ j < i
  BY <1>4, <1>5 DEF InChain
<1>7. Rooted'
  BY <1>3, <1>4 DEF Rooted, IInv, TypeOK
<1>8. ASSUME NEW index \in Indexes, NEW j \in Nat, InChain(j, index)'
      PROVE  LinkOK(j, index)'
  <2>1. CASE InChain(j, index)
    <3>1. LinkOK(j, index) /\ next_bucket'[j] = next_bucket[j] /\ next_bucket[j] \in Nat
      BY <1>3, <1>4, <2>1 DEF LinksOK, InChain
    <3> QED
      BY <1>3, <1>4, <1>5, <1>6, <2>1, <3>1 DEF LinkOK
  <2>2. CASE j = i /\ index = home
    <3>1. CASE m_hash_table[home] = NULL
      <4>1. \A k \in Nat : ~InChain(k, home)
        BY <1>4, <1>6, <3>1 DEF NULL
      <4> QED
        BY <1>3, <1>4, <2>2, <3>1, <4>1 DEF LinkOK
    <3>2. CASE m_hash_table[home] # NULL
      <4>1. InChain(m_hash_table[home], home)
        BY <3>2 DEF Rooted
      <4> QED
        BY <1>3, <1>4, <1>5, <1>6, <2>2, <4>1 DEF LinkOK
    <3> QED
      BY <3>1, <3>2
  <2> QED
    BY <1>3, <1>8, <2>1, <2>2
<1>9. KeysDiffer'
  <2>1. \A j \in Nat : InChain(j, home) => KeyOf(j) # key[t]
    BY <1>1, <1>4, <1>5 DEF NoneNewer, NULL
  <2> QED
    BY <1>3, <1>5, <2>1 DEF KeysDiffer
<1> QED
  BY <1>7, <1>8, <1>9 DEF LinksOK

----------------------------------------------------------------------------
(* One writer at a time, and what the threads know of the chains.          *)

\* Every put() takes m_write_mutex first and releases it last.
LEMMA MutexStep ==
    ASSUME ChainInv, NEW t \in Threads, Call(t) \/ Step(t) PROVE MutexHeld'
<1> USE DEF ChainInv, IInv, LocalsOK, At, Goto, mutexVars, callVars, AfterHit, AfterMiss
<1>1. \A u \in Threads \ {t} : Writing(u)' <=> Writing(u)
  BY OthersStep DEF OthersKept, Writing
<1>2. CASE PutLock(t)
  <2>1. m_write_mutex = NoThread /\ m_write_mutex' = t /\ Writing(t)'
    BY <1>2 DEF PutLock, TypeOK, Writing
  <2> QED
    BY <1>1, <2>1, HashAssumption DEF MutexHeld
<1>3. CASE PutUnlock(t)
  <2>1. Writing(t) /\ m_write_mutex' = NoThread /\ ~Writing(t)'
    BY <1>3 DEF PutUnlock, TypeOK, Writing
  <2> QED
    BY <1>1, <2>1, HashAssumption DEF MutexHeld
<1>4. CASE ~PutLock(t) /\ ~PutUnlock(t)
  <2>1. m_write_mutex' = m_write_mutex
    BY <1>4 DEF Call, Step, Lock, LockBuffer, LockPointer, Find, GetStep, PutStep, FindHead,
       FindLoad, FindCompare, GetReload, GetCopy, PutAlloc, PutAllocFails, PutNewBucket,
       PutWriteKey, PutWriteValue, PutPublish, PutDropOld, StoreBucket, Return, FreeBlock,
       CallGet, CallPut
  <2>2. ASSUME Call(t) PROVE Writing(t)' <=> Writing(t)
    BY <2>2 DEF Call, CallGet, CallPut, TypeOK, Writing
  <2>3. ASSUME Find(t) PROVE Writing(t)' <=> Writing(t)
    BY <2>3 DEF Find, FindHead, FindLoad, FindCompare, TypeOK, Writing
  <2>4. ASSUME GetStep(t) PROVE Writing(t)' <=> Writing(t)
    BY <2>4 DEF GetStep, GetReload, GetCopy, TypeOK, Writing
  <2>5. ASSUME PutStep(t) PROVE Writing(t)' <=> Writing(t)
    BY <1>4, <2>5 DEF PutStep, PutAlloc, PutAllocFails, PutNewBucket, PutWriteKey, PutWriteValue,
       PutPublish, PutDropOld, StoreBucket, TypeOK, Writing
  <2>6. ASSUME Lock(t) \/ FreeBlock(t) \/ Return(t) PROVE Writing(t)' <=> Writing(t)
    BY <2>6 DEF Lock, LockBuffer, LockPointer, FreeBlock, Return, TypeOK, Writing
  <2> QED
    BY <1>1, <2>1, <2>2, <2>3, <2>4, <2>5, <2>6 DEF Step, MutexHeld
<1> QED
  BY <1>2, <1>3, <1>4

\* Only the writer changes the table.
LEMMA ReadersKeepTable ==
    ASSUME ChainInv, NEW t \in Threads, Call(t) \/ Step(t), ~Writing(t)
    PROVE  UNCHANGED tableVars /\ ~StoreBucket(t) /\ ~PutPublish(t)
<1>1. ~StoreBucket(t) /\ ~PutPublish(t) /\ ~PutNewBucket(t)
  BY DEF ChainInv, IInv, LocalsOK, Writing, StoreBucket, PutPublish, PutNewBucket, At
<1> QED
  BY <1>1 DEF tableVars, Call, Step, Lock, LockBuffer, LockPointer, Find, GetStep, PutStep,
     FindHead, FindLoad, FindCompare, GetReload, GetCopy, PutLock, PutAlloc, PutAllocFails,
     PutWriteKey, PutWriteValue, PutDropOld, PutUnlock, Return, FreeBlock, CallGet, CallPut

\* A bucket of a chain stays in it, with its key.
LEMMA ChainsOnlyGrow ==
    ASSUME ChainInv, NEW t \in Threads, Call(t) \/ Step(t)
    PROVE  \A index \in Indexes, i \in Nat :
             InChain(i, index) => InChain(i, index)' /\ KeyOf(i)' = KeyOf(i)
BY SameStep, StoreStep DEF SameChains, BucketAdded

\* A block put() has not published yet is written by no other thread.
LEMMA PrivateBytesKept ==
    ASSUME IInv, NEW t \in Threads, Call(t) \/ Step(t),
           NEW u \in Threads \ {t}, data_buffer[u] \in Blocks
    PROVE  LET b == data_buffer[u]
           IN  block_key'[b] = block_key[b] /\ block_value'[b] = block_value[b]
<1> USE DEF IInv, TypeOK, Owned, NoUseAfterFree
<1>1. CASE PutWriteKey(t) \/ PutWriteValue(t)
  <2>1. data_buffer[u] # data_buffer[t]
    BY HashAssumption
  <2> QED
    BY <1>1, <2>1 DEF PutWriteKey, PutWriteValue
<1>2. CASE ~PutWriteKey(t) /\ ~PutWriteValue(t)
  BY <1>2 DEF Call, Step, Lock, LockBuffer, LockPointer, Find, GetStep, PutStep, FindHead,
     FindLoad, FindCompare, GetReload, GetCopy, PutLock, PutAlloc, PutAllocFails, PutNewBucket,
     PutPublish, PutDropOld, StoreBucket, PutUnlock, Return, FreeBlock, CallGet, CallPut,
     blockVars, callVars, tableVars
<1> QED
  BY <1>1, <1>2

\* What a thread knows of the chains no step of another one makes wrong: chains
\* only grow, and while it writes nobody else does.
LEMMA OtherThread ==
    ASSUME ChainInv, NEW t \in Threads, Call(t) \/ Step(t), NEW u \in Threads \ {t}
    PROVE  ThreadOK(u)'
<1>1. /\ pc'[u] = pc[u] /\ op'[u] = op[u] /\ key'[u] = key[u] /\ value'[u] = value[u]
      /\ data_buffer'[u] = data_buffer[u] /\ curr'[u] = curr[u] /\ bucket'[u] = bucket[u]
      /\ ref'[u] = ref[u] /\ result'[u] = result[u]
  BY OthersStep DEF ChainInv, OthersKept
<1>2. /\ TypeOK /\ LocalsOK /\ Hash[key[u]] \in Indexes /\ curr[u] \in Nat
      /\ NewestOK(u) /\ SearchOK(u) /\ PutOK(u)
  BY HashAssumption DEF ChainInv, IInv, TypeOK, ThreadOK, Buckets, NULL
<1>3. InChain(curr[u], Hash[key[u]]) =>
        InChain(curr[u], Hash[key[u]])' /\ KeyOf(curr[u])' = KeyOf(curr[u])
  BY <1>1, <1>2, ChainsOnlyGrow DEF InChain, KeyOf
<1>4. ref[u] # NoBlock => block_key'[ref[u]] = block_key[ref[u]]
  BY <1>2, BytesStep DEF ChainInv, SharedBytesKept, Shared, TypeOK
<1>5. Writing(u) => UNCHANGED tableVars /\ SameChains
  BY ReadersKeepTable, SameStep DEF ChainInv, MutexHeld
<1>6. Writing(u) /\ NoneNewer(u) => NoneNewer(u)'
  BY <1>1, <1>2, <1>5 DEF NoneNewer, SameChains
<1>7. NewestOK(u)'
  <2>1. CASE Adding(u)
    <3>1. UNCHANGED tableVars /\ bucket[u] \in Buckets
      BY <1>2, <1>5, <2>1 DEF Writing, Adding, TypeOK, LocalsOK
    <3>2. key_value_data[bucket[u]] # NoBlock =>
            KeyOf(bucket[u])' = KeyOf(bucket[u]) /\ ValueOf(bucket[u])' = ValueOf(bucket[u])
      BY <1>1, <1>2, <3>1, BytesStep
         DEF ChainInv, SharedBytesKept, Shared, TypeOK, KeyOf, ValueOf, Buckets, tableVars
    <3> QED
      BY <1>1, <1>2, <2>1, <3>1, <3>2 DEF NewestOK, Adding, LocalsOK, tableVars
  <2>2. CASE ~Adding(u)
    BY <1>1, <2>2 DEF NewestOK, Adding
  <2> QED
    BY <2>1, <2>2
<1>8. SearchOK(u)'
  BY <1>1, <1>2, <1>3, <1>4, <1>6 DEF SearchOK, LocalsOK, Writing
<1>9. PutOK(u)'
  <2>1. pc[u] \in {"write_value", "publish"} =>
          /\ block_key'[data_buffer[u]] = block_key[data_buffer[u]]
          /\ block_value'[data_buffer[u]] = block_value[data_buffer[u]]
    BY <1>2, PrivateBytesKept DEF ChainInv, LocalsOK, Filling
  <2> QED
    BY <1>1, <1>2, <1>3, <1>6, <2>1 DEF PutOK, Adding, Replacing, Writing
<1> QED
  BY <1>7, <1>8, <1>9 DEF ThreadOK

\* A step keeps the invariant of ConcurrentHashTableProofs.
LEMMA IInvStep == ASSUME IInv, NEW t \in Threads, Call(t) \/ Step(t) PROVE IInv'
BY NextIInv DEF Next

\* The search of find_bucket_with_key(): the head of a chain has none in front of
\* it, and the link of a bucket skips none.
LEMMA SearchStep ==
    ASSUME ChainInv, NEW t \in Threads, Find(t) PROVE ThreadOK(t)'
<1> DEFINE home == Hash[key[t]]
<1>1. /\ TypeOK /\ LocalsOK /\ TypeOK' /\ LocalsOK' /\ SearchOK(t) /\ PutOK(t)
  BY IInvStep DEF ChainInv, IInv, Step, ThreadOK
<1>2. /\ home \in Indexes /\ key' = key /\ op' = op /\ result' = result
      /\ m_hash_table \in [Indexes -> Nat]
  BY <1>1, HashAssumption DEF TypeOK, Find, FindHead, FindLoad, FindCompare, callVars, Buckets, NULL
<1>3. SameChains /\ UNCHANGED tableVars /\ UNCHANGED blockVars
  BY SameStep DEF Step, Find, FindHead, FindLoad, FindCompare, tableVars,
     StoreBucket, At
<1>4. \A j : InChain(j, home) => InChain(j, home)' /\ j \in Nat /\ j > 0 /\ j <= m_hash_table[home]
  BY <1>1, <1>2, <1>3, BucketNumbers DEF SameChains, InChain
<1>5. \A j \in Nat : InChain(j, home)' => InChain(j, home)
  BY <1>2, <1>3 DEF SameChains
<1>6. \A j : KeyOf(j)' = KeyOf(j)
  BY <1>3 DEF KeyOf, tableVars, blockVars
<1>7. ASSUME FindHead(t) PROVE ThreadOK(t)'
  <2>1. PICK head \in Nat : head = m_hash_table[home]
    BY <1>2
  <2>2. /\ pc[t] = "find" /\ curr'[t] = head
        /\ pc'[t] = IF head = NULL THEN AfterMiss(t) ELSE "load"
    BY <1>1, <1>7, <2>1 DEF FindHead, At, Goto, TypeOK
  <2>3. head # NULL => InChain(head, home)'
    BY <1>2, <1>4, <2>1 DEF ChainInv, TableOK, Rooted
  <2>4. NoneNewer(t)'
    BY <1>2, <1>4, <1>5, <2>1, <2>2 DEF NoneNewer
  <2> QED
    BY <1>1, <1>2, <2>2, <2>3, <2>4
       DEF AfterMiss, ThreadOK, NewestOK, SearchOK, PutOK, Adding, Replacing
<1>8. ASSUME FindLoad(t) PROVE ThreadOK(t)'
  <2>1. /\ pc[t] = "load" /\ pc'[t] = "compare" /\ curr'[t] = curr[t]
        /\ ref'[t] = key_value_data[curr[t]]
    BY <1>1, <1>8 DEF FindLoad, At, Goto, TypeOK, LoadPair
  <2>2. InChain(curr[t], home)' /\ (block_key[ref[t]])' = KeyOf(curr[t])'
    BY <1>1, <1>2, <1>3, <1>4, <2>1 DEF SearchOK, InChain, KeyOf, tableVars, blockVars
  <2>3. NoneNewer(t) => NoneNewer(t)'
    BY <1>2, <1>5, <1>6, <2>1 DEF NoneNewer
  <2> QED
    BY <1>1, <1>2, <2>1, <2>2, <2>3 DEF ThreadOK, NewestOK, SearchOK, PutOK, Adding, Replacing
<1>9. ASSUME FindCompare(t) PROVE ThreadOK(t)'
  <2>1. PICK i \in Nat, next \in Nat :
          /\ i = curr[t] /\ next = next_bucket[i] /\ i # NULL
          /\ InChain(i, home) /\ block_key[ref[t]] = KeyOf(i) /\ pc[t] = "compare"
    BY <1>1, <1>9 DEF FindCompare, At, SearchOK, InChain, TypeOK, LocalsOK, Buckets, NULL
  <2>2. CASE KeyOf(i) = key[t]
    <3>1. /\ curr'[t] = i /\ pc'[t] = AfterHit(t)
          /\ bucket'[t] = IF op[t] = "put" THEN i ELSE bucket[t]
      BY <1>1, <1>9, <2>1, <2>2 DEF FindCompare, Goto, TypeOK
    <3>2. InChain(curr[t], home)' /\ KeyOf(curr[t])' = key[t]
      BY <1>4, <1>6, <2>1, <2>2, <3>1 DEF InChain, KeyOf
    <3> QED
      BY <1>1, <1>2, <2>1, <3>1, <3>2
         DEF AfterHit, ThreadOK, NewestOK, SearchOK, PutOK, Adding, Replacing
  <2>3. CASE KeyOf(i) # key[t]
    <3>1. /\ curr'[t] = next /\ pc'[t] = IF next = NULL THEN AfterMiss(t) ELSE "load"
      BY <1>1, <1>9, <2>1, <2>3 DEF FindCompare, Goto, TypeOK
    <3>2. LinkOK(i, home)
      BY <1>2, <2>1 DEF ChainInv, TableOK, LinksOK
    <3>3. next # NULL => InChain(next, home)'
      BY <1>4, <2>1, <3>2 DEF LinkOK
    <3>4. \A j \in Nat : InChain(j, home) /\ j > next => j >= i
      BY <2>1, <3>2 DEF LinkOK
    <3>5. NoneNewer(t) => NoneNewer(t)'
      BY <1>2, <1>5, <1>6, <2>1, <2>3, <3>1, <3>4 DEF NoneNewer
    <3> QED
      BY <1>1, <1>2, <2>1, <3>1, <3>3, <3>5
         DEF AfterMiss, ThreadOK, NewestOK, SearchOK, PutOK, Adding, Replacing
  <2> QED
    BY <2>2, <2>3
<1> QED
  BY <1>7, <1>8, <1>9 DEF Find

\* get_new_bucket() and KeyValuePair::set(): the bucket is new and last, the block
\* gets the key of the call before the bucket gets the block.
LEMMA FillStep ==
    ASSUME ChainInv, NEW t \in Threads,
           PutNewBucket(t) \/ PutWriteKey(t) \/ PutWriteValue(t) \/ PutPublish(t) \/ PutDropOld(t)
    PROVE  ThreadOK(t)'
<1> DEFINE home == Hash[key[t]]
<1>1. /\ TypeOK /\ LocalsOK /\ TypeOK' /\ LocalsOK'
      /\ NewestOK(t) /\ SearchOK(t) /\ PutOK(t)
  BY IInvStep DEF ChainInv, IInv, Step, PutStep, ThreadOK
<1>2. /\ home \in Indexes /\ key' = key /\ op' = op /\ value' = value /\ curr' = curr
      /\ op[t] = "put" /\ doomed[t] = NoBlock
      /\ m_hash_table' = m_hash_table /\ m_hash_table \in [Indexes -> Nat]
      /\ \A index \in Indexes : m_hash_table[index] <= Len(key_value_data)
  BY <1>1, HashAssumption DEF TypeOK, LocalsOK, Buckets, NULL, At, callVars, tableVars,
     PutNewBucket, PutWriteKey, PutWriteValue, PutPublish, PutDropOld
<1>3. SameChains
  BY SameStep DEF Step, PutStep, StoreBucket, At,
     PutNewBucket, PutWriteKey, PutWriteValue, PutPublish, PutDropOld
<1>4. NoneNewer(t) => NoneNewer(t)'
  BY <1>2, <1>3 DEF NoneNewer, SameChains
<1>5. InChain(curr[t], home) => InChain(curr[t], home)' /\ KeyOf(curr[t])' = KeyOf(curr[t])
  <2> SUFFICES ASSUME InChain(curr[t], home)
               PROVE  InChain(curr[t], home)' /\ KeyOf(curr[t])' = KeyOf(curr[t])
    OBVIOUS
  <2>1. PICK i \in Nat, index \in Indexes : i = curr[t] /\ index = home
    BY <1>1, <1>2, BucketNumbers
  <2>2. InChain(i, index)' /\ KeyOf(i)' = KeyOf(i)
    BY <1>3, <2>1 DEF SameChains
  <2> QED
    BY <1>2, <2>1, <2>2 DEF InChain, KeyOf
<1>6. ASSUME PutNewBucket(t) PROVE ThreadOK(t)'
  <2>1. /\ pc[t] = "new_bucket" /\ pc'[t] = "write_key" /\ curr[t] = NULL
        /\ key_value_data' = Append(key_value_data, NoBlock)
        /\ bucket'[t] = Len(key_value_data) + 1
    BY <1>1, <1>6 DEF PutNewBucket, At, Goto, TypeOK, SearchOK
  <2>2. Len(key_value_data') = Len(key_value_data) + 1 /\ key_value_data'[bucket'[t]] = NoBlock
    BY <1>1, <2>1 DEF TypeOK
  <2>3. NewestOK(t)'
    BY <1>1, <1>2, <2>1, <2>2 DEF NewestOK, TypeOK
  <2> QED
    BY <1>1, <1>2, <1>4, <2>1, <2>3 DEF ThreadOK, SearchOK, PutOK, Replacing
<1>7. ASSUME PutWriteKey(t) \/ PutWriteValue(t) PROVE ThreadOK(t)'
  <2>1. /\ UNCHANGED <<bucket, data_buffer, result, tableVars>> /\ data_buffer[t] \in Blocks
        /\ \/ /\ pc[t] = "write_key" /\ pc'[t] = "write_value"
              /\ block_key'[data_buffer[t]] = key[t]
           \/ /\ pc[t] = "write_value" /\ pc'[t] = "publish"
              /\ block_key' = block_key /\ block_value'[data_buffer[t]] = value[t]
    BY <1>1, <1>7 DEF PutWriteKey, PutWriteValue, At, Goto, TypeOK, LocalsOK, Filling
  <2> QED
    BY <1>1, <1>2, <1>4, <1>5, <2>1
       DEF ThreadOK, NewestOK, SearchOK, PutOK, Adding, Replacing, tableVars
<1>8. ASSUME PutPublish(t) PROVE ThreadOK(t)'
  <2>1. /\ bucket' = bucket /\ bucket[t] \in Buckets /\ result' = result
        /\ pc[t] = "publish" /\ pc'[t] = "swapped" /\ UNCHANGED blockVars
        /\ key_value_data' = [key_value_data EXCEPT ![bucket[t]] = data_buffer[t]]
    BY <1>1, <1>8 DEF PutPublish, At, Goto, TypeOK, LocalsOK
  <2>2. /\ KeyOf(bucket[t])' = key[t] /\ ValueOf(bucket[t])' = value[t]
        /\ Len(key_value_data') = Len(key_value_data)
    BY <1>1, <2>1 DEF PutOK, KeyOf, ValueOf, Buckets, TypeOK, blockVars
  <2> QED
    BY <1>1, <1>2, <1>4, <2>1, <2>2 DEF ThreadOK, NewestOK, SearchOK, PutOK, Adding, Replacing
<1>9. ASSUME PutDropOld(t) PROVE ThreadOK(t)'
  <2>1. /\ UNCHANGED <<bucket, tableVars, blockVars>> /\ pc[t] = "swapped"
        /\ pc'[t] = (IF curr[t] = NULL THEN "store" ELSE "unlock") /\ result'[t] = "stored"
    BY <1>1, <1>9 DEF PutDropOld, At, Goto, TypeOK
  <2> QED
    BY <1>1, <1>2, <1>4, <2>1
       DEF ThreadOK, NewestOK, SearchOK, PutOK, Adding, Replacing, KeyOf, ValueOf,
           tableVars, blockVars
<1> QED
  BY <1>6, <1>7, <1>8, <1>9

\* BufferFreer, and the mutexes that are locked for one operation: the thread is
\* where it was, and so are the chains.
LEMMA FreeStep ==
    ASSUME ChainInv, NEW t \in Threads, FreeBlock(t) \/ Lock(t) PROVE ThreadOK(t)'
<1>1. UNCHANGED <<tableVars, block_key, block_value, callVars, pc, data_buffer, curr, bucket, ref,
                  result>>
  BY DEF FreeBlock, Lock, LockBuffer, LockPointer, blockVars
<1> QED
  BY <1>1 DEF ChainInv, ThreadOK, NewestOK, SearchOK, PutOK, NoneNewer, Adding, Replacing,
     InChain, KeyOf, ValueOf, Buckets, tableVars, callVars

\* A thread's own step keeps what it knows of the chains.
LEMMA OwnThread ==
    ASSUME ChainInv, NEW t \in Threads, Call(t) \/ Step(t) PROVE ThreadOK(t)'
<1>1. ASSUME \/ GetStep(t) \/ PutLock(t) \/ PutAlloc(t) \/ PutAllocFails(t)
             \/ StoreBucket(t) \/ PutUnlock(t) \/ Return(t) \/ Call(t)
      PROVE  ThreadOK(t)'
  <2>1. PutOK(t) /\ TypeOK /\ LocalsOK
    BY DEF ChainInv, ThreadOK, IInv
  <2>2. /\ pc'[t] \in {"copy", "return", "alloc", "find", "unlock", "idle", "lock"}
        /\ op'[t] # "put" /\ pc'[t] # "return" => result'[t] = Empty
    <3> USE DEF TypeOK, LocalsOK, PutOK, At, Goto, callVars
    <3>1. CASE GetStep(t)
      BY <2>1, <3>1 DEF GetStep, GetReload, GetCopy
    <3>2. CASE PutLock(t) \/ PutAlloc(t) \/ PutAllocFails(t)
      BY <2>1, <3>2 DEF PutLock, PutAlloc, PutAllocFails
    <3>3. CASE StoreBucket(t) \/ PutUnlock(t)
      BY <2>1, <3>3 DEF StoreBucket, PutUnlock
    <3>4. CASE Return(t) \/ Call(t)
      BY <2>1, <3>4 DEF Return, Call, CallGet, CallPut
    <3> QED
      BY <1>1, <3>1, <3>2, <3>3, <3>4
  <2> QED
    BY <2>2 DEF ThreadOK, NewestOK, SearchOK, PutOK, Adding, Replacing
<1> QED
  BY <1>1, SearchStep, FillStep, FreeStep DEF Step, PutStep

\* put() does not leave a bucket behind that no chain leads to: from
\* get_new_bucket() to store_bucket() it goes on adding it.
LEMMA PlacedStep ==
    ASSUME ChainInv, NEW t \in Threads, Call(t) \/ Step(t) PROVE AllPlaced'
<1>1. TypeOK /\ LocalsOK /\ ThreadOK(t)
  BY DEF ChainInv, IInv
<1>2. ASSUME NEW i \in Buckets, NEW home, home = Hash[KeyOf(i)], InChain(i, home), KeyOf(i) \in Keys
      PROVE  InChain(i, Hash[KeyOf(i)])' /\ KeyOf(i)' \in Keys
  <2>1. i \in Nat /\ home \in Indexes
    BY <1>1, <1>2, HashAssumption DEF Buckets, TypeOK
  <2>2. InChain(i, home)' /\ KeyOf(i)' = KeyOf(i)
    BY <1>2, <2>1, ChainsOnlyGrow
  <2> QED
    BY <1>2, <2>2 DEF InChain, KeyOf
<1>3. ASSUME NEW u \in Threads \ {t}, Adding(u) PROVE Adding(u)' /\ bucket'[u] = bucket[u]
  BY <1>3, OthersStep DEF ChainInv, OthersKept, Adding
<1>4. ASSUME PutNewBucket(t) PROVE AllPlaced'
  <2>1. bucket'[t] = Len(key_value_data) + 1 /\ Adding(t)' /\ ~Adding(t)
    BY <1>1, <1>4 DEF PutNewBucket, At, Goto, TypeOK, LocalsOK, ThreadOK, SearchOK, Adding, callVars
  <2>2. Buckets' = Buckets \cup {Len(key_value_data) + 1}
    BY <1>1, <1>4 DEF PutNewBucket, Buckets, TypeOK
  <2> QED
    BY <1>2, <1>3, <2>1, <2>2 DEF AllPlaced, ChainInv
<1>5. ASSUME StoreBucket(t) PROVE AllPlaced'
  <2>1. PICK i \in Buckets, home \in Indexes :
          i = bucket[t] /\ home = Hash[key[t]] /\ BucketAdded(i, home)
    BY <1>5, StoreStep
  <2>2. KeyOf(i)' = key[t] /\ key[t] \in Keys /\ Buckets' = Buckets
    BY <1>1, <1>5, <2>1 DEF StoreBucket, At, LocalsOK, ThreadOK, SearchOK, NewestOK, Adding,
       KeyOf, blockVars, Buckets
  <2>3. InChain(i, Hash[KeyOf(i)])' /\ KeyOf(i)' \in Keys
    BY <2>1, <2>2 DEF BucketAdded, InChain, KeyOf
  <2> QED
    BY <1>2, <1>3, <2>1, <2>2, <2>3 DEF AllPlaced, ChainInv
<1>6. ASSUME ~PutNewBucket(t), ~StoreBucket(t) PROVE AllPlaced'
  <2>1. Buckets' = Buckets
    BY <1>1, <1>6 DEF Buckets, TypeOK, LocalsOK, Call, Step, Lock, LockBuffer, LockPointer, Find,
       GetStep, PutStep, FindHead, FindLoad, FindCompare, GetReload, GetCopy, PutLock, PutAlloc,
       PutAllocFails, PutWriteKey, PutWriteValue, PutPublish, PutDropOld, PutUnlock, Return,
       FreeBlock, CallGet, CallPut, tableVars
  <2>2. ASSUME Adding(t) PROVE Adding(t)' /\ bucket'[t] = bucket[t]
    <3>1. \/ PutWriteKey(t) \/ PutWriteValue(t) \/ PutPublish(t) \/ PutDropOld(t)
          \/ FreeBlock(t) \/ Lock(t)
      BY <1>6, <2>2 DEF Adding, At, Call, Step, Lock, LockBuffer, LockPointer, Find, GetStep,
         PutStep, FindHead, FindLoad, FindCompare, GetReload, GetCopy, PutLock, PutAlloc,
         PutAllocFails, PutUnlock, Return, CallGet, CallPut
    <3> QED
      BY <1>1, <2>2, <3>1 DEF Adding, At, Goto, TypeOK, callVars,
         PutWriteKey, PutWriteValue, PutPublish, PutDropOld, FreeBlock, Lock, LockBuffer,
         LockPointer
  <2> QED
    BY <1>2, <1>3, <2>1, <2>2 DEF AllPlaced, ChainInv
<1> QED
  BY <1>4, <1>5, <1>6

----------------------------------------------------------------------------
(* The theorems.                                                           *)

\* The empty table has no chain and no writer.
LEMMA InitChainInv == Init => ChainInv
<1> SUFFICES ASSUME Init PROVE ChainInv
  OBVIOUS
<1>1. IInv
  BY InitIInv
<1>2. \A i, index : ~InChain(i, index)
  BY DEF Init, InChain, Buckets
<1>3. MutexHeld
  BY HashAssumption DEF Init, MutexHeld, Writing
<1>4. TableOK
  BY <1>2 DEF TableOK, Rooted, LinksOK, KeysDiffer, Init, NULL
<1>5. AllPlaced
  BY DEF AllPlaced, Init, Buckets
<1>6. \A t \in Threads : ThreadOK(t)
  BY <1>2 DEF ThreadOK, NewestOK, SearchOK, PutOK, Adding, Replacing, Init
<1> QED
  BY <1>1, <1>3, <1>4, <1>5, <1>6 DEF ChainInv

\* Every step of every thread keeps the invariant.
LEMMA NextChainInv == ChainInv /\ [Next]_vars => ChainInv'
<1> SUFFICES ASSUME ChainInv, [Next]_vars PROVE ChainInv'
  OBVIOUS
<1>1. IInv'
  BY NextIInv DEF ChainInv
<1>2. CASE Next
  <2>1. PICK t \in Threads : Call(t) \/ Step(t)
    BY <1>2 DEF Next
  <2>2. TypeOK /\ TypeOK'
    BY <1>1 DEF ChainInv, IInv
  <2>3. TableOK'
    BY <2>1, <2>2, SameStep, SameKeepsTable, AddKeepsTable DEF ChainInv
  <2>4. MutexHeld' /\ AllPlaced'
    BY <2>1, MutexStep, PlacedStep
  <2>5. \A u \in Threads : ThreadOK(u)'
    BY <2>1, OwnThread, OtherThread
  <2> QED
    BY <1>1, <2>3, <2>4, <2>5 DEF ChainInv
<1>3. CASE UNCHANGED vars
  <2> USE <1>3 DEF ChainInv, vars, mutexVars, tableVars, blockVars, callVars
  <2>1. \A i, index : InChain(i, index)' <=> InChain(i, index)
    BY DEF InChain, Buckets, KeyOf
  <2>2. MutexHeld'
    BY DEF MutexHeld, Writing
  <2>3. TableOK'
    BY <2>1 DEF TableOK, Rooted, LinksOK, LinkOK, KeysDiffer, KeyOf
  <2>4. AllPlaced'
    BY DEF AllPlaced, InChain, Buckets, KeyOf, Adding
  <2>5. \A u \in Threads : ThreadOK(u)'
    BY DEF ThreadOK, NewestOK, SearchOK, PutOK, NoneNewer, Adding, Replacing, InChain, KeyOf,
       ValueOf, Buckets
  <2> QED
    BY <1>1, <2>2, <2>3, <2>4, <2>5
<1> QED
  BY <1>2, <1>3

\* The invariant holds in every reachable state.
THEOREM ChainInvariance == Spec => []ChainInv
<1> QED
  BY InitChainInv, NextChainInv, PTL DEF Spec

\* InChain is membership in the Chain of the specification.
LEMMA ChainMembers ==
    ASSUME TypeOK, NEW index
    PROVE  /\ \A i : i \in Chain(index) <=> InChain(i, index)
           /\ \A n, i : i \in Behind(n, index) /\ n <= m_hash_table[index]
                         /\ n \in Nat /\ m_hash_table[index] \in Nat
                         => InChain(i, index) /\ i <= n
           /\ \A n, i : InChain(i, index) /\ i <= n => i \in Behind(n, index)
BY DEF Chain, Behind, InChain, Buckets, TypeOK

\* The invariant is what a reader of the chains relies on.
LEMMA ChainInvIsSound == ChainInv => ChainsAreComplete /\ KeysAreUnique
<1>1. ChainInv => ChainsAreComplete
  <2> SUFFICES ASSUME ChainInv, NEW index \in Indexes, NEW i \in Chain(index)
               PROVE  LET older == Behind(i - 1, index)
                      IN  IF older = {} THEN next_bucket[i] = NULL
                          ELSE next_bucket[i] \in older /\ \A j \in older : j <= next_bucket[i]
    BY DEF ChainsAreComplete
  <2>1. TypeOK /\ m_hash_table[index] \in Nat
    BY DEF ChainInv, IInv, TypeOK, Buckets, NULL
  <2>2. InChain(i, index) /\ i \in Nat /\ i > 0 /\ i <= m_hash_table[index]
    BY <2>1, ChainMembers, BucketNumbers DEF InChain
  <2>3. LinkOK(i, index)
    BY <2>2 DEF ChainInv, TableOK, LinksOK
  <2>4. \A j : j \in Behind(i - 1, index) <=> InChain(j, index) /\ j < i
    BY <2>1, <2>2, BucketNumbers, ChainMembers
  <2>5. \A j : InChain(j, index) => j \in Nat /\ j > 0
    BY <2>1, BucketNumbers
  <2> QED
    BY <2>2, <2>3, <2>4, <2>5 DEF LinkOK, NULL
<1>2. ChainInv => KeysAreUnique
  BY ChainMembers, BucketNumbers DEF ChainInv, IInv, TableOK, KeysDiffer, KeysAreUnique
<1> QED
  BY <1>1, <1>2

\* find_bucket_with_key() meets every bucket of its chain behind the one it is at,
\* each once, and comes to the end: store_bucket() never loses one.
THEOREM ChainsComplete == Spec => []ChainsAreComplete
<1> QED
  BY ChainInvIsSound, ChainInvariance, PTL

\* Two put() of one new key never both add a bucket for it: m_write_mutex covers
\* find_bucket_with_key() and store_bucket() together.
THEOREM NoKeyTwice == Spec => []KeysAreUnique
<1> QED
  BY ChainInvIsSound, ChainInvariance, PTL

----------------------------------------------------------------------------
(* No call takes more steps of its own than its chain has buckets to pass. *)

\* What a call has still to do: its parts, in the order the code runs them; the
\* search is one, and so a get() has fewer than a put() ...
Stage(t) ==
    CASE pc[t] = "lock"                -> 12
      [] pc[t] = "alloc"               -> 11
      [] pc[t] = "find"                -> 10
      [] pc[t] \in {"load", "compare"} -> 9
      [] pc[t] = "new_bucket"          -> 8
      [] pc[t] = "write_key"           -> 7
      [] pc[t] = "write_value"         -> 6
      [] pc[t] = "publish"             -> 5
      [] pc[t] \in {"swapped", "reload"} -> 4
      [] pc[t] \in {"store", "copy"}   -> 3
      [] pc[t] = "unlock"              -> 2
      [] pc[t] = "return"              -> 1
      [] OTHER                         -> 0

\* ... in the search, the buckets up to the one it is at, and at each place what
\* is to be done before it goes on: load the pointer, free a block, and lock the
\* mutex for either.
AtHand(t) ==
    (IF pc[t] = "load" THEN 1 ELSE 0)
    + (IF pc[t] \in {"load", "reload", "publish"} /\ pointer_mutex # t THEN 1 ELSE 0)
    + (IF doomed[t] # NoBlock THEN 2 ELSE 0)
    + (IF (doomed[t] # NoBlock \/ pc[t] = "alloc") /\ m_mutex # t THEN 1 ELSE 0)

Closer(t) ==
    \/ Stage(t)' < Stage(t)
    \/ Stage(t)' = Stage(t) /\ curr'[t] < curr[t]
    \/ Stage(t)' = Stage(t) /\ curr'[t] = curr[t] /\ AtHand(t)' < AtHand(t)

MeasuresOK(t) == Stage(t) \in 0 .. 12 /\ curr[t] \in Nat /\ AtHand(t) \in 0 .. 5

LEMMA MeasuresAreNumbers == IInv => \A t \in Threads : MeasuresOK(t)
<1> SUFFICES ASSUME IInv, NEW t \in Threads PROVE MeasuresOK(t)
  OBVIOUS
<1>1. Stage(t) \in 0 .. 12
  BY DEF Stage
<1>2. curr[t] \in Nat
  BY DEF IInv, TypeOK, Buckets, NULL
<1>3. AtHand(t) \in 0 .. 5
  BY DEF AtHand
<1> QED
  BY <1>1, <1>2, <1>3 DEF MeasuresOK

\* A mutex changes hands between one thread and nobody.
LEMMA OneMutexStep ==
    ASSUME NEW t \in Threads, Call(t) \/ Step(t)
    PROVE  /\ m_mutex' = m_mutex \/ {m_mutex, m_mutex'} = {t, NoThread}
           /\ \/ pointer_mutex' = pointer_mutex
              \/ {pointer_mutex, pointer_mutex'} = {t, NoThread}
BY DEF Call, Step, Lock, LockBuffer, LockPointer, Find, GetStep, PutStep, FindHead,
   FindLoad, FindCompare, GetReload, GetCopy, PutLock, PutAlloc, PutAllocFails, PutNewBucket,
   PutWriteKey, PutWriteValue, PutPublish, PutDropOld, StoreBucket, PutUnlock, Return, FreeBlock,
   CallGet, CallPut, UnderBufferMutex, UnderPointerMutex, mutexVars

\* What other threads do is not counted: they neither lengthen nor shorten a call.
LEMMA OthersKeepMeasures ==
    ASSUME IInv, NEW t \in Threads, Call(t) \/ Step(t), NEW u \in Threads \ {t}
    PROVE  Stage(u)' = Stage(u) /\ curr'[u] = curr[u] /\ AtHand(u)' = AtHand(u)
<1>1. pc'[u] = pc[u] /\ curr'[u] = curr[u] /\ doomed'[u] = doomed[u]
  BY OthersStep DEF OthersKept
<1>2. /\ m_mutex' = u <=> m_mutex = u
      /\ pointer_mutex' = u <=> pointer_mutex = u
  BY OneMutexStep, HashAssumption
<1> QED
  BY <1>1, <1>2 DEF Stage, AtHand

\* The search loop goes on at an older bucket, or is over.
LEMMA SearchIsCloser == ASSUME ChainInv, NEW t \in Threads, Find(t) PROVE Closer(t)
<1>1. /\ pc \in [Threads -> Labels] /\ doomed \in [Threads -> Blocks \cup {NoBlock}]
      /\ curr \in [Threads -> Buckets \cup {NULL}]
  BY DEF ChainInv, IInv, TypeOK
<1> USE <1>1 DEF At, Goto
<1>2. CASE FindHead(t)
  BY <1>2 DEF FindHead, Closer, Stage, AfterMiss
<1>3. CASE FindLoad(t)
  <2>1. /\ pc[t] = "load" /\ pc'[t] = "compare" /\ curr'[t] = curr[t] /\ doomed'[t] = doomed[t]
        /\ m_mutex' = m_mutex
    BY <1>3 DEF FindLoad, UnderPointerMutex
  <2> QED
    BY <2>1 DEF Closer, Stage, AtHand
<1>4. CASE FindCompare(t)
  <2>1. pc[t] = "compare"
    BY <1>4 DEF FindCompare
  <2>2. CASE block_key[ref[t]] = key[t]
    BY <1>4, <2>1, <2>2 DEF FindCompare, Closer, Stage, AfterHit
  <2>3. CASE block_key[ref[t]] # key[t] /\ next_bucket[curr[t]] = NULL
    BY <1>4, <2>1, <2>3 DEF FindCompare, Closer, Stage, AfterMiss
  <2>4. CASE block_key[ref[t]] # key[t] /\ next_bucket[curr[t]] # NULL
    <3>1. InChain(curr[t], Hash[key[t]])
      BY <2>1 DEF ChainInv, ThreadOK, SearchOK
    <3>2. curr[t] \in Nat /\ Hash[key[t]] \in Indexes
      BY HashAssumption DEF ChainInv, IInv, TypeOK, Buckets, NULL
    <3>3. next_bucket[curr[t]] < curr[t]
      BY <2>4, <3>1, <3>2 DEF ChainInv, TableOK, LinksOK, LinkOK
    <3>4. curr'[t] = next_bucket[curr[t]] /\ pc'[t] = "load"
      BY <1>4, <2>4 DEF FindCompare
    <3> QED
      BY <2>1, <3>3, <3>4 DEF Closer, Stage
  <2> QED
    BY <2>2, <2>3, <2>4
<1> QED
  BY <1>2, <1>3, <1>4 DEF Find

LEMMA StepIsCloser == ASSUME ChainInv, NEW t \in Threads, Step(t) PROVE Closer(t)
<1>1. /\ pc \in [Threads -> Labels] /\ doomed \in [Threads -> Blocks \cup {NoBlock}]
  BY DEF ChainInv, IInv, TypeOK
<1> USE <1>1 DEF At, Goto, Closer, Stage
<1>2. CASE Find(t)
  BY <1>2, SearchIsCloser
<1>3. CASE GetStep(t)
  BY <1>3 DEF GetStep, GetReload, GetCopy
<1>4. CASE PutLock(t) \/ PutAlloc(t) \/ PutAllocFails(t) \/ PutNewBucket(t) \/ PutWriteKey(t)
  BY <1>4 DEF PutLock, PutAlloc, PutAllocFails, PutNewBucket, PutWriteKey
<1>5. CASE PutWriteValue(t) \/ PutPublish(t) \/ PutDropOld(t) \/ StoreBucket(t) \/ PutUnlock(t)
  BY <1>5 DEF PutWriteValue, PutPublish, PutDropOld, StoreBucket, PutUnlock
<1>6. CASE FreeBlock(t)
  <2>1. /\ pc'[t] = pc[t] /\ curr'[t] = curr[t] /\ doomed[t] # NoBlock /\ doomed'[t] = NoBlock
        /\ m_mutex = t /\ pointer_mutex' = pointer_mutex
    BY <1>6 DEF FreeBlock, UnderBufferMutex
  <2> QED
    BY <2>1 DEF AtHand
<1>7. CASE Return(t)
  BY <1>7 DEF Return
<1>8. CASE Lock(t)
  <2>1. pc'[t] = pc[t] /\ curr'[t] = curr[t] /\ doomed'[t] = doomed[t] /\ t # NoThread
    BY <1>8, HashAssumption DEF Lock, LockBuffer, LockPointer
  <2>2. CASE LockBuffer(t)
    BY <2>1, <2>2 DEF LockBuffer, AtHand
  <2>3. CASE LockPointer(t)
    BY <2>1, <2>3 DEF LockPointer, AtHand
  <2> QED
    BY <1>8, <2>2, <2>3 DEF Lock
<1> QED
  BY <1>2, <1>3, <1>4, <1>5, <1>6, <1>7, <1>8 DEF Step, PutStep

\* Each step of a call of get() or put() brings it closer to its return, and no step
\* of another thread takes it further away, however many buckets are added while it
\* searches: a call repeats nothing, whatever it may have to wait for.
THEOREM CallsAreBounded ==
    Spec => /\ [](\A t \in Threads : MeasuresOK(t))
            /\ [][\A t \in Threads : Step(t) => Closer(t)]_vars
            /\ [][\A t, u \in Threads : t # u /\ (Call(t) \/ Step(t)) =>
                    Stage(u)' = Stage(u) /\ curr'[u] = curr[u] /\ AtHand(u)' = AtHand(u)]_vars
<1>1. ChainInv => \A t \in Threads : MeasuresOK(t)
  BY MeasuresAreNumbers DEF ChainInv
<1>2. ChainInv /\ [Next]_vars => [\A t \in Threads : Step(t) => Closer(t)]_vars
  BY StepIsCloser
<1>3. ChainInv /\ [Next]_vars =>
        [\A t, u \in Threads : t # u /\ (Call(t) \/ Step(t)) =>
           Stage(u)' = Stage(u) /\ curr'[u] = curr[u] /\ AtHand(u)' = AtHand(u)]_vars
  BY OthersKeepMeasures DEF ChainInv
<1> QED
  BY <1>1, <1>2, <1>3, ChainInvariance, PTL DEF Spec
=============================================================================
