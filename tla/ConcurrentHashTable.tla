------------------------- MODULE ConcurrentHashTable -------------------------
(***************************************************************************)
(* put() and get() of ConcurrentHashTable, run by any number of threads.   *)
(* Writers hold m_write_mutex.  A value lives in a block of m_buffer,      *)
(* owned by a reference-counted pointer: each put publishes a new block,   *)
(* and whoever drops the last pointer to the old one, a writer or a        *)
(* reader, gives it back to the buffer, under the buffer's own mutex.      *)
(*                                                                         *)
(* A step is what no other thread can observe the middle of: the locking   *)
(* of a mutex, all that is done under it up to its unlocking (a thread may *)
(* stop between the two), one atomic load or store, or a run of accesses   *)
(* to memory only this thread can reach.                                   *)
(***************************************************************************)
EXTENDS Naturals, Sequences

CONSTANTS Threads, Keys, Values,
          Empty,         \* the empty string
          Indexes,       \* 0 .. HASH_TABLE_SIZE - 1
          Hash,          \* hasher(key) % m_hash_table.size()
          Blocks,        \* the blocks m_buffer can hand out
          NoThread, NoBlock

ASSUME HashAssumption ==
    /\ Hash \in [Keys \cup {Empty} -> Indexes]
    /\ NoThread \notin Threads
    /\ NoBlock \notin Blocks

NULL == 0                \* the null Bucket *; buckets are numbered from 1

VARIABLES
    m_write_mutex,       \* the writer inside put(), or NoThread
    m_mutex,             \* m_buffer's: who is inside alloc() or free()
    pointer_mutex,       \* the library's, inside atomic_load and atomic_store
    m_hash_table,        \* first bucket of each chain
    \* m_bucket_storage: a bucket is an index into both of these
    next_bucket,
    key_value_data,      \* the block each bucket's shared pointer owns
    m_buffer,            \* the blocks in use
    \* a block's bytes: <key> '\0' <value> '\0'
    block_key, block_value,
    \* the local variables of each thread's call
    pc, op, key, value,
    data_buffer,         \* put(): the block obtained, until it is published
    curr,                \* find_bucket_with_key(): curr_bucket, then its result
    bucket,              \* put(): the bucket to set
    ref,                 \* the thread's own copy of a shared pointer, or null
    doomed,              \* the block its BufferFreer is about to free
    result

mutexVars == <<m_write_mutex, m_mutex, pointer_mutex>>
tableVars == <<m_hash_table, next_bucket, key_value_data>>
blockVars == <<m_buffer, block_key, block_value>>
callVars  == <<op, key, value>>
vars == <<mutexVars, tableVars, blockVars, callVars, pc,
          data_buffer, curr, bucket, ref, doomed, result>>

Buckets == DOMAIN key_value_data

Init ==
    /\ m_write_mutex  = NoThread
    /\ m_mutex        = NoThread
    /\ pointer_mutex  = NoThread
    /\ m_hash_table   = [i \in Indexes |-> NULL]
    /\ next_bucket    = <<>>
    /\ key_value_data = <<>>
    /\ m_buffer       = {}
    /\ block_key      = [b \in Blocks |-> Empty]
    /\ block_value    = [b \in Blocks |-> Empty]
    /\ pc             = [t \in Threads |-> "idle"]
    /\ op             = [t \in Threads |-> "none"]
    /\ key            = [t \in Threads |-> Empty]
    /\ value          = [t \in Threads |-> Empty]
    /\ data_buffer    = [t \in Threads |-> NoBlock]
    /\ curr           = [t \in Threads |-> NULL]
    /\ bucket         = [t \in Threads |-> NULL]
    /\ ref            = [t \in Threads |-> NoBlock]
    /\ doomed         = [t \in Threads |-> NoBlock]
    /\ result         = [t \in Threads |-> Empty]

\* t is about to execute l, and no destructor of the step before is running.
At(t, l)   == pc[t] = l /\ doomed[t] = NoBlock
Goto(t, l) == pc' = [pc EXCEPT ![t] = l]

----------------------------------------------------------------------------
(* The two mutexes that are locked for one operation.                      *)

\* std::unique_lock<std::mutex> write_lock(m_mutex), in alloc() of put() and in
\* free() of a BufferFreer.
LockBuffer(t) ==
    /\ At(t, "alloc") \/ doomed[t] # NoBlock
    /\ m_mutex = NoThread
    /\ m_mutex' = t
    /\ UNCHANGED <<m_write_mutex, pointer_mutex, tableVars, blockVars, callVars,
                   pc, data_buffer, curr, bucket, ref, doomed, result>>

\* std::atomic_load and atomic_store of a shared_ptr lock a mutex the library
\* picks by the pointer's address; the worst case, one mutex for all of them.
LockPointer(t) ==
    /\ At(t, "load") \/ At(t, "reload") \/ At(t, "publish")
    /\ pointer_mutex = NoThread
    /\ pointer_mutex' = t
    /\ UNCHANGED <<m_write_mutex, m_mutex, tableVars, blockVars, callVars, pc,
                   data_buffer, curr, bucket, ref, doomed, result>>

Lock(t) == LockBuffer(t) \/ LockPointer(t)

\* What was done under the mutex is done, and the mutex unlocked.
UnderBufferMutex(t) ==
    m_mutex = t /\ m_mutex' = NoThread /\ UNCHANGED pointer_mutex

UnderPointerMutex(t) ==
    pointer_mutex = t /\ pointer_mutex' = NoThread /\ UNCHANGED m_mutex

----------------------------------------------------------------------------
(* std::shared_ptr: copies are counted, the last one frees.                *)

\* Wrong: readers copy a bare pointer and nobody counts them.
SharedByOtherUncounted(t, b) == \E i \in Buckets : key_value_data[i] = b

\* Some shared pointer other than t's own owns block b.
SharedByOther(t, b) ==
    \/ \E i \in Buckets : key_value_data[i] = b
    \/ \E u \in Threads \ {t} : ref[u] = b

\* KeyValuePair::get(): one atomic load copies the pointer and counts the copy.
LoadPair(t, i) == ref' = [ref EXCEPT ![t] = key_value_data[i]]

\* t destroys its copy; if it was the last, BufferFreer must run.
DropRef(t) ==
    /\ ref'    = [ref EXCEPT ![t] = NoBlock]
    /\ doomed' = [doomed EXCEPT ![t] =
                    IF SharedByOther(t, ref[t]) THEN NoBlock ELSE ref[t]]

\* BufferFreer: m_buffer.free() of the block, under the buffer's mutex.
FreeBlock(t) ==
    /\ doomed[t] # NoBlock
    /\ UnderBufferMutex(t)
    /\ m_buffer' = m_buffer \ {doomed[t]}
    /\ doomed'   = [doomed EXCEPT ![t] = NoBlock]
    /\ UNCHANGED <<m_write_mutex, tableVars, block_key, block_value, callVars,
                   pc, data_buffer, curr, bucket, ref, result>>

----------------------------------------------------------------------------
(* find_bucket_with_key(), called by get() and by put().                   *)

\* Where a call continues when its key has a bucket, and when it has none.
AfterHit(t)  == IF op[t] = "get" THEN "reload" ELSE "write_key"
AfterMiss(t) == IF op[t] = "get" THEN "return" ELSE "new_bucket"

\* Wrong: the search waits for the writer.
FindHeadLocked(t) ==
    /\ At(t, "find")
    /\ m_write_mutex \in {NoThread, t}
    /\ LET head == m_hash_table[Hash[key[t]]]
       IN  /\ curr' = [curr EXCEPT ![t] = head]
           /\ Goto(t, IF head = NULL THEN AfterMiss(t) ELSE "load")
    /\ UNCHANGED <<mutexVars, tableVars, blockVars, callVars, data_buffer,
                   bucket, ref, doomed, result>>

\* m_hash_table[hash_table_index].load(std::memory_order_acquire)
FindHead(t) ==
    /\ At(t, "find")
    /\ LET head == m_hash_table[Hash[key[t]]]
       IN  /\ curr' = [curr EXCEPT ![t] = head]
           /\ Goto(t, IF head = NULL THEN AfterMiss(t) ELSE "load")
    /\ UNCHANGED <<mutexVars, tableVars, blockVars, callVars, data_buffer,
                   bucket, ref, doomed, result>>

FindLoad(t) ==
    /\ At(t, "load")
    /\ UnderPointerMutex(t)
    /\ LoadPair(t, curr[t])
    /\ Goto(t, "compare")
    /\ UNCHANGED <<m_write_mutex, tableVars, blockVars, callVars, data_buffer,
                   curr, bucket, doomed, result>>

\* Compare the keys, drop the copied pointer, and step to the next bucket
\* unless the keys agree.
FindCompare(t) ==
    /\ At(t, "compare")
    /\ IF block_key[ref[t]] = key[t]
       THEN /\ bucket' = [bucket EXCEPT ![t] = IF op[t] = "put" THEN curr[t] ELSE @]
            /\ Goto(t, AfterHit(t))
            /\ UNCHANGED curr
       ELSE LET next == next_bucket[curr[t]]
            IN  /\ curr' = [curr EXCEPT ![t] = next]
                /\ Goto(t, IF next = NULL THEN AfterMiss(t) ELSE "load")
                /\ UNCHANGED bucket
    /\ DropRef(t)
    /\ UNCHANGED <<mutexVars, tableVars, blockVars, callVars, data_buffer,
                   result>>

----------------------------------------------------------------------------
(* get()                                                                   *)

CallGet(t, k) ==
    /\ At(t, "idle")
    /\ op'  = [op EXCEPT ![t] = "get"]
    /\ key' = [key EXCEPT ![t] = k]
    /\ Goto(t, "find")
    /\ UNCHANGED <<mutexVars, tableVars, blockVars, value, data_buffer,
                   curr, bucket, ref, doomed, result>>

\* Wrong: the first bucket of the chain is read, not the one that was found.
GetReloadHead(t) ==
    /\ At(t, "reload")
    /\ UnderPointerMutex(t)
    /\ LoadPair(t, m_hash_table[Hash[key[t]]])
    /\ Goto(t, "copy")
    /\ UNCHANGED <<m_write_mutex, tableVars, blockVars, callVars, data_buffer,
                   curr, bucket, doomed, result>>

\* result.first->key_value_pair.get(): the bucket's pointer is read again.
GetReload(t) ==
    /\ At(t, "reload")
    /\ UnderPointerMutex(t)
    /\ LoadPair(t, curr[t])
    /\ Goto(t, "copy")
    /\ UNCHANGED <<m_write_mutex, tableVars, blockVars, callVars, data_buffer,
                   curr, bucket, doomed, result>>

\* Copy the value into the returned string, then destroy the temporary pair.
GetCopy(t) ==
    /\ At(t, "copy")
    /\ result' = [result EXCEPT ![t] = block_value[ref[t]]]
    /\ DropRef(t)
    /\ Goto(t, "return")
    /\ UNCHANGED <<mutexVars, tableVars, blockVars, callVars, data_buffer,
                   curr, bucket>>

----------------------------------------------------------------------------
(* put()                                                                   *)

CallPut(t, k, v) ==
    /\ At(t, "idle")
    /\ op'    = [op EXCEPT ![t] = "put"]
    /\ key'   = [key EXCEPT ![t] = k]
    /\ value' = [value EXCEPT ![t] = v]
    /\ Goto(t, "lock")
    /\ UNCHANGED <<mutexVars, tableVars, blockVars, data_buffer, curr,
                   bucket, ref, doomed, result>>

\* Wrong: a second writer does not wait for the first.
PutLockUnguarded(t) ==
    /\ At(t, "lock")
    /\ m_write_mutex' = t
    /\ Goto(t, "alloc")
    /\ UNCHANGED <<m_mutex, pointer_mutex, tableVars, blockVars, callVars,
                   data_buffer, curr, bucket, ref, doomed, result>>

PutLock(t) ==
    /\ At(t, "lock")
    /\ m_write_mutex = NoThread
    /\ m_write_mutex' = t
    /\ Goto(t, "alloc")
    /\ UNCHANGED <<m_mutex, pointer_mutex, tableVars, blockVars, callVars,
                   data_buffer, curr, bucket, ref, doomed, result>>

\* m_buffer.alloc() hands out a block not in use, its old bytes still there.
PutAlloc(t) ==
    /\ At(t, "alloc")
    /\ UnderBufferMutex(t)
    /\ \E b \in Blocks \ m_buffer :
         /\ m_buffer' = m_buffer \cup {b}
         /\ data_buffer' = [data_buffer EXCEPT ![t] = b]
    /\ Goto(t, "find")
    /\ UNCHANGED <<m_write_mutex, tableVars, block_key, block_value, callVars,
                   curr, bucket, ref, doomed, result>>

\* No free block is large enough: the buffer may be fragmented, so this can
\* happen whatever is in use.
PutAllocFails(t) ==
    /\ At(t, "alloc")
    /\ UnderBufferMutex(t)
    /\ result' = [result EXCEPT ![t] = "refused"]
    /\ Goto(t, "unlock")
    /\ UNCHANGED <<m_write_mutex, tableVars, blockVars, callVars, data_buffer,
                   curr, bucket, ref, doomed>>

\* Wrong: the address is the end of m_bucket_storage, not its last element.
PutNewBucketPastEnd(t) ==
    /\ At(t, "new_bucket")
    /\ next_bucket'    = Append(next_bucket, NULL)
    /\ key_value_data' = Append(key_value_data, NoBlock)
    /\ bucket' = [bucket EXCEPT ![t] = Len(key_value_data) + 2]
    /\ Goto(t, "write_key")
    /\ UNCHANGED <<mutexVars, m_hash_table, blockVars, callVars,
                   data_buffer, curr, ref, doomed, result>>

\* get_new_bucket(): no chain leads to the bucket yet, and it owns no block.
PutNewBucket(t) ==
    /\ At(t, "new_bucket")
    /\ next_bucket'    = Append(next_bucket, NULL)
    /\ key_value_data' = Append(key_value_data, NoBlock)
    /\ bucket' = [bucket EXCEPT ![t] = Len(key_value_data) + 1]
    /\ Goto(t, "write_key")
    /\ UNCHANGED <<mutexVars, m_hash_table, blockVars, callVars,
                   data_buffer, curr, ref, doomed, result>>

PutWriteKey(t) ==
    /\ At(t, "write_key")
    /\ block_key' = [block_key EXCEPT ![data_buffer[t]] = key[t]]
    /\ Goto(t, "write_value")
    /\ UNCHANGED <<mutexVars, tableVars, m_buffer, block_value, callVars,
                   data_buffer, curr, bucket, ref, doomed, result>>

PutWriteValue(t) ==
    /\ At(t, "write_value")
    /\ block_value' = [block_value EXCEPT ![data_buffer[t]] = value[t]]
    /\ Goto(t, "publish")
    /\ UNCHANGED <<mutexVars, tableVars, m_buffer, block_key, callVars,
                   data_buffer, curr, bucket, ref, doomed, result>>

\* Wrong: the replaced pointer is overwritten, not released.
PutPublishForgets(t) ==
    /\ At(t, "publish")
    /\ UnderPointerMutex(t)
    /\ key_value_data' = [key_value_data EXCEPT ![bucket[t]] = data_buffer[t]]
    /\ data_buffer' = [data_buffer EXCEPT ![t] = NoBlock]
    /\ Goto(t, "swapped")
    /\ UNCHANGED <<m_write_mutex, m_hash_table, next_bucket, blockVars,
                   callVars, curr, bucket, ref, doomed, result>>

\* std::atomic_store_explicit(&m_key_value_data, ...): the new pointer goes
\* in, and the one it replaces is left in a temporary of this thread.
PutPublish(t) ==
    /\ At(t, "publish")
    /\ UnderPointerMutex(t)
    /\ LoadPair(t, bucket[t])
    /\ key_value_data' = [key_value_data EXCEPT ![bucket[t]] = data_buffer[t]]
    /\ data_buffer' = [data_buffer EXCEPT ![t] = NoBlock]
    /\ Goto(t, "swapped")
    /\ UNCHANGED <<m_write_mutex, m_hash_table, next_bucket, blockVars,
                   callVars, curr, bucket, doomed, result>>

\* The temporary is destroyed; a bucket that was not found is still unlinked.
PutDropOld(t) ==
    /\ At(t, "swapped")
    /\ DropRef(t)
    /\ Goto(t, IF curr[t] = NULL THEN "store" ELSE "unlock")
    /\ result' = [result EXCEPT ![t] = "stored"]
    /\ UNCHANGED <<mutexVars, tableVars, blockVars, callVars, data_buffer,
                   curr, bucket>>

\* Wrong: the new bucket replaces the chain instead of leading to it.
StoreBucketAlone(t) ==
    /\ At(t, "store")
    /\ m_hash_table' = [m_hash_table EXCEPT ![Hash[key[t]]] = bucket[t]]
    /\ Goto(t, "unlock")
    /\ UNCHANGED <<mutexVars, next_bucket, key_value_data, blockVars,
                   callVars, data_buffer, curr, bucket, ref, doomed, result>>

\* Wrong: the head is stored first, so the bucket's link leads to itself.
StoreBucketSwapped(t) ==
    /\ At(t, "store")
    /\ m_hash_table' = [m_hash_table EXCEPT ![Hash[key[t]]] = bucket[t]]
    /\ next_bucket'  = [next_bucket EXCEPT ![bucket[t]] = bucket[t]]
    /\ Goto(t, "unlock")
    /\ UNCHANGED <<mutexVars, key_value_data, blockVars, callVars,
                   data_buffer, curr, bucket, ref, doomed, result>>

\* store_bucket(): link the bucket in front of its chain.  Its own link is
\* written first, and the release store of the head makes both visible.
StoreBucket(t) ==
    /\ At(t, "store")
    /\ LET i == Hash[key[t]]
       IN  /\ next_bucket'  = [next_bucket EXCEPT ![bucket[t]] = m_hash_table[i]]
           /\ m_hash_table' = [m_hash_table EXCEPT ![i] = bucket[t]]
    /\ Goto(t, "unlock")
    /\ UNCHANGED <<mutexVars, key_value_data, blockVars, callVars,
                   data_buffer, curr, bucket, ref, doomed, result>>

PutUnlock(t) ==
    /\ At(t, "unlock")
    /\ m_write_mutex' = NoThread
    /\ Goto(t, "return")
    /\ UNCHANGED <<m_mutex, pointer_mutex, tableVars, blockVars, callVars,
                   data_buffer, curr, bucket, ref, doomed, result>>

----------------------------------------------------------------------------

\* The call returns its result, and its local variables are gone.
Return(t) ==
    /\ At(t, "return")
    /\ Goto(t, "idle")
    /\ op'     = [op EXCEPT ![t] = "none"]
    /\ key'    = [key EXCEPT ![t] = Empty]
    /\ value'  = [value EXCEPT ![t] = Empty]
    /\ curr'   = [curr EXCEPT ![t] = NULL]
    /\ bucket' = [bucket EXCEPT ![t] = NULL]
    /\ result' = [result EXCEPT ![t] = Empty]
    /\ UNCHANGED <<mutexVars, tableVars, blockVars, data_buffer, ref, doomed>>

Find(t) == FindHead(t) \/ FindLoad(t) \/ FindCompare(t)

GetStep(t) == GetReload(t) \/ GetCopy(t)

PutStep(t) ==
    \/ PutLock(t) \/ PutAlloc(t) \/ PutAllocFails(t)
    \/ PutNewBucket(t) \/ PutWriteKey(t) \/ PutWriteValue(t)
    \/ PutPublish(t) \/ PutDropOld(t) \/ StoreBucket(t) \/ PutUnlock(t)

\* What thread t does once it is inside a call.
Step(t) ==
    Lock(t) \/ Find(t) \/ GetStep(t) \/ PutStep(t) \/ FreeBlock(t) \/ Return(t)

Call(t) == \E k \in Keys : CallGet(t, k) \/ \E v \in Values : CallPut(t, k, v)

Next == \E t \in Threads : Call(t) \/ Step(t)

Spec == Init /\ [][Next]_vars

----------------------------------------------------------------------------
(* Type correctness and the ownership of blocks.                           *)

Labels == {"idle", "lock", "alloc", "find", "load", "compare", "reload", "copy",
           "new_bucket", "write_key", "write_value", "publish", "swapped",
           "store", "unlock", "return"}

\* Every variable keeps to the values its C++ type and use allow, and a
\* thread's bucket numbers and block references are set where they are used.
TypeOK ==
    /\ {m_write_mutex, m_mutex, pointer_mutex} \subseteq Threads \cup {NoThread}
    /\ m_hash_table   \in [Indexes -> Buckets \cup {NULL}]
    /\ key_value_data \in Seq(Blocks \cup {NoBlock})
    /\ next_bucket    \in Seq(Buckets \cup {NULL})
    /\ Len(next_bucket) = Len(key_value_data)
    /\ m_buffer       \subseteq Blocks
    /\ block_key      \in [Blocks -> Keys \cup {Empty}]
    /\ block_value    \in [Blocks -> Values \cup {Empty}]
    /\ pc             \in [Threads -> Labels]
    /\ op             \in [Threads -> {"none", "get", "put"}]
    /\ key            \in [Threads -> Keys \cup {Empty}]
    /\ value          \in [Threads -> Values \cup {Empty}]
    /\ data_buffer    \in [Threads -> Blocks \cup {NoBlock}]
    /\ curr           \in [Threads -> Buckets \cup {NULL}]
    /\ bucket         \in [Threads -> Buckets \cup {NULL}]
    /\ ref            \in [Threads -> Blocks \cup {NoBlock}]
    /\ doomed         \in [Threads -> Blocks \cup {NoBlock}]
    /\ result         \in [Threads -> Values \cup {Empty, "stored", "refused"}]

\* A shared pointer, in a bucket or in a local variable, owns b.
Shared(b) ==
    \/ \E i \in Buckets : key_value_data[i] = b
    \/ \E t \in Threads : ref[t] = b

\* A thread has b to itself: put() is filling it, or BufferFreer has it.
Private(b) == \E t \in Threads : b \in {data_buffer[t], doomed[t]}

\* No block is read, filled or freed once it went back to the buffer: whatever
\* a pointer reaches is in use, and what one thread has to itself (a block put()
\* is filling, a block a BufferFreer is about to free) no pointer reaches and no
\* other thread has.  "the last reader of an expiring value needs to deallocate"
\* (hash_table.hpp:15): exactly one thread does, after every reader is done.
NoUseAfterFree ==
    /\ \A b \in Blocks : Shared(b) => b \in m_buffer /\ ~Private(b)
    /\ \A t \in Threads :
         \A b \in {data_buffer[t], doomed[t]} \ {NoBlock} :
           /\ b \in m_buffer
           /\ \A u \in Threads \ {t} : b \notin {data_buffer[u], doomed[u]}

\* No overwritten value is forgotten: every block in use is owned by a bucket
\* or a local pointer, or some thread is filling or freeing it.
NoLeak == \A b \in m_buffer : Shared(b) \/ Private(b)

SharedBytesKept ==
    \A b \in Blocks :
      Shared(b) => block_key'[b] = block_key[b] /\ block_value'[b] = block_value[b]

\* While any shared pointer owns a block its bytes do not change: a get() that
\* overlaps puts copies one value, never a mixture of an old and a new one.
SharedBlocksAreImmutable == [][SharedBytesKept]_vars

----------------------------------------------------------------------------
(* The map that readers see.                                               *)

KeyOf(i) == block_key[key_value_data[i]]

\* The buckets a search of the chain can meet from bucket i on: chains only
\* grow at the front, so those of the same index and no newer than i.
Behind(i, index) ==
    {j \in Buckets : j <= i /\ key_value_data[j] # NoBlock /\ Hash[KeyOf(j)] = index}

Chain(index) == Behind(m_hash_table[index], index)

\* Each link leads to the next older bucket of the same chain, so a search
\* from any bucket meets all the older ones, each once, and ends.
ChainsAreComplete ==
    \A index \in Indexes : \A i \in Chain(index) :
      LET older == Behind(i - 1, index)
      IN  IF older = {} THEN next_bucket[i] = NULL
          ELSE next_bucket[i] \in older /\ \A j \in older : j <= next_bucket[i]

\* No key has two buckets: find_bucket_with_key() and store_bucket() of two
\* puts of a new key never both miss it and both add it.
KeysAreUnique ==
    \A index \in Indexes : \A i, j \in Chain(index) : KeyOf(i) = KeyOf(j) => i = j

\* What get(k) answers if it runs now, alone.
Lookup(k) ==
    LET hits == {i \in Chain(Hash[k]) : KeyOf(i) = k}
    IN  IF hits = {} THEN Empty
        ELSE block_value[key_value_data[CHOOSE i \in hits : \A j \in hits : j <= i]]

\* t's search loaded the chain before its key was there: it will miss.
WillMiss(t) ==
    /\ pc[t] \in {"load", "compare"}
    /\ \A i \in Behind(curr[t], Hash[key[t]]) : KeyOf(i) # key[t]

\* The instant a call takes effect is the atomic step that decides its answer:
\* get() when it loads the head of a chain without its key, or loads its value;
\* put() when it publishes over an old value, links a new bucket, or is refused.
TookEffect(t) ==
    IF op[t] = "get"
    THEN pc[t] \in {"copy", "return"} \/ WillMiss(t)
    ELSE pc[t] \in {"unlock", "return"} \/ (pc[t] = "swapped" /\ curr[t] # NULL)

Answer(t) ==
    IF ~TookEffect(t)         THEN Empty
    ELSE IF pc[t] = "copy"    THEN block_value[ref[t]]
    ELSE IF pc[t] = "swapped" THEN "stored"
    ELSE result[t]

StatusOf(t) ==
    IF op[t] = "none" THEN "idle" ELSE IF TookEffect(t) THEN "done" ELSE "called"

RequestOf(t) ==
    CASE op[t] = "none" -> [op |-> "none"]
      [] op[t] = "get"  -> [op |-> "get", key |-> key[t]]
      [] op[t] = "put"  -> [op |-> "put", key |-> key[t], value |-> value[t]]

KV == INSTANCE KeyValueStore WITH
    store   <- [k \in Keys |-> Lookup(k)],
    status  <- [t \in Threads |-> StatusOf(t)],
    request <- [t \in Threads |-> RequestOf(t)],
    answer  <- [t \in Threads |-> Answer(t)]

\* get() and put() are linearizable: the table, with all its interleavings,
\* implements the atomic map of KeyValueStore.
Linearizable == KV!Spec

----------------------------------------------------------------------------
(* Progress.                                                               *)

\* A thread inside a call keeps being scheduled.
ThreadFairness(t) == WF_vars(Step(t))

\* std::mutex hands a lock to a waiting thread sooner or later.
Acquire(t) == PutLock(t) \/ Lock(t)

\* Only readers are scheduled for sure: a writer may stop anywhere, even
\* holding a mutex.
ReaderFairness ==
    \A t \in Threads : /\ WF_vars(op[t] = "get" /\ Step(t))
                       /\ SF_vars(op[t] = "get" /\ Acquire(t))

\* w is inside alloc() or free() while t has a block to free, or inside an
\* atomic operation on a pointer while t is at one.
HoldsUp(w, t) ==
    \/ m_mutex = w /\ doomed[t] # NoBlock
    \/ pointer_mutex = w /\ (At(t, "load") \/ At(t, "reload"))

\* A reader waits for good only for a writer that stopped in the middle of one
\* operation on the buffer or on a pointer.
HeldUp(t) == \E w \in Threads : <>[](op[w] = "put" /\ HoldsUp(w, t))

\* "it locks on writes and is lockless on reads (except when the last reader of
\* an expiring value needs to deallocate" (hash_table.hpp:15-16): a get() returns
\* however the writers are scheduled, even if one stops for good inside put()
\* holding m_write_mutex, and however many puts lengthen the chain it searches;
\* unless it is the last reader of a replaced value and a writer stopped inside
\* alloc() or free(), or the library's own mutex was never unlocked.
GetsComplete ==
    ReaderFairness =>
      \A t \in Threads : (op[t] = "get" ~> op[t] = "none") \/ HeldUp(t)

Fairness == \A t \in Threads : ThreadFairness(t) /\ SF_vars(Acquire(t))

\* Every put() returns: each mutex is released on every path, and no thread
\* waits for one while it holds another that its holder needs.
PutsComplete ==
    Fairness => \A t \in Threads : op[t] = "put" ~> op[t] = "none"
=============================================================================
