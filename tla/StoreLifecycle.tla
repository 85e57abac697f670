--------------------------- MODULE StoreLifecycle ---------------------------
(***************************************************************************)
(* The life of a store across processes: a ConcurrentHashTable is used,    *)
(* its process dies or destroys it, and the constructor of the next one    *)
(* loads what is in the buffer file.  The file is the blocks in use, their *)
(* bytes, and the used list that links them, newest first; every store to  *)
(* it is in the page cache at once and survives the process.               *)
(***************************************************************************)
EXTENDS ConcurrentHashTable, SequencesExt

VARIABLES
    process,             \* "up", "closing" (in the destructor) or "down"
    used_list,           \* the file's used list
    last_exit,           \* how the last process ended: "none", "crash", "close"
    remembered,          \* what get() answered for each key when it did
    ever_put             \* the <<key, value>> pairs some put() was called with

volatile == <<mutexVars, tableVars, callVars, pc, data_buffer,
              curr, bucket, ref, doomed, result>>
history  == <<last_exit, remembered, ever_put>>
lifeVars == <<vars, process, used_list, history>>

LifeInit ==
    /\ Init
    /\ process = "up"
    /\ used_list = <<>>
    /\ last_exit = "none"
    /\ remembered = [k \in Keys |-> Empty]
    /\ ever_put = {}

\* alloc() inserts the block in front of the used list, free() takes it out.
TrackUsedList ==
    \/ m_buffer' = m_buffer /\ UNCHANGED used_list
    \/ \E b \in m_buffer' \ m_buffer : used_list' = <<b>> \o used_list
    \/ \E i \in DOMAIN used_list : /\ used_list[i] \notin m_buffer'
                                  /\ used_list' = RemoveAt(used_list, i)

\* A thread takes a step, or calls get() or put().
Run ==
    /\ process = "up"
    /\ \E t \in Threads : Call(t) \/ Step(t)
    /\ TrackUsedList
    /\ UNCHANGED <<process, last_exit, remembered>>

\* The same, with the history of what put() was called with, and without.
RecordedRun ==
    /\ Run
    /\ ever_put' = ever_put \cup {<<key'[t], value'[t]>> : t \in {u \in Threads : op'[u] = "put"}}

UnrecordedRun == Run /\ UNCHANGED ever_put

\* The memory of the process is gone; the file is as it is.
LoseMemory ==
    /\ m_write_mutex'  = NoThread
    /\ m_mutex'        = NoThread
    /\ pointer_mutex'  = NoThread
    /\ m_hash_table'   = [i \in Indexes |-> NULL]
    /\ next_bucket'    = <<>>
    /\ key_value_data' = <<>>
    /\ pc'          = [t \in Threads |-> "idle"]
    /\ op'          = [t \in Threads |-> "none"]
    /\ key'         = [t \in Threads |-> Empty]
    /\ value'       = [t \in Threads |-> Empty]
    /\ data_buffer' = [t \in Threads |-> NoBlock]
    /\ curr'        = [t \in Threads |-> NULL]
    /\ bucket'      = [t \in Threads |-> NULL]
    /\ ref'         = [t \in Threads |-> NoBlock]
    /\ doomed'      = [t \in Threads |-> NoBlock]
    /\ result'      = [t \in Threads |-> Empty]

\* The process is killed while threads are anywhere in get() and put().
Crash ==
    /\ process = "up"
    /\ process' = "down"
    /\ LoseMemory
    /\ last_exit' = "crash"
    /\ remembered' = [k \in Keys |-> Lookup(k)]
    /\ UNCHANGED <<blockVars, used_list, ever_put>>

----------------------------------------------------------------------------
(* The constructor.                                                        *)

\* Wrong: the loop forgets store_bucket()'s link to the rest of the chain.
OpenUnlinked ==
    /\ process = "down"
    /\ process' = "up"
    /\ LET blocksOf(index) == {i \in DOMAIN used_list : Hash[block_key[used_list[i]]] = index}
       IN  m_hash_table' = [index \in Indexes |->
                              IF blocksOf(index) = {} THEN NULL ELSE Max(blocksOf(index))]
    /\ key_value_data' = used_list
    /\ next_bucket'    = [i \in DOMAIN used_list |-> NULL]
    /\ UNCHANGED <<mutexVars, blockVars, callVars, pc, data_buffer, curr,
                   bucket, ref, doomed, result, used_list, history>>

\* Wrong: every block goes into the chain of the first.
OpenOneChain ==
    /\ process = "down"
    /\ process' = "up"
    /\ key_value_data' = used_list
    /\ next_bucket'    = [i \in DOMAIN used_list |-> i - 1]
    /\ m_hash_table'   = [index \in Indexes |->
                            IF used_list # <<>> /\ index = Hash[block_key[used_list[1]]]
                            THEN Len(used_list) ELSE NULL]
    /\ UNCHANGED <<mutexVars, blockVars, callVars, pc, data_buffer, curr,
                   bucket, ref, doomed, result, used_list, history>>

\* One bucket per block of the used list, in its order, each stored in front
\* of its chain.  Nothing looks for a bucket that has the key already.
Open ==
    /\ process = "down"
    /\ process' = "up"
    /\ LET indexOf(i) == Hash[block_key[used_list[i]]]
           newest(index, n) == {i \in 1 .. n : indexOf(i) = index}
           front(index, n) == IF newest(index, n) = {} THEN NULL ELSE Max(newest(index, n))
           n == Len(used_list)
       IN  /\ key_value_data' = used_list
           /\ next_bucket'    = [i \in 1 .. n |-> front(indexOf(i), i - 1)]
           /\ m_hash_table'   = [index \in Indexes |-> front(index, n)]
    /\ UNCHANGED <<mutexVars, blockVars, callVars, pc, data_buffer, curr,
                   bucket, ref, doomed, result, used_list, history>>

----------------------------------------------------------------------------
(* The destructor: its members go in reverse order, m_hash_table first,    *)
(* then m_bucket_storage bucket by bucket, then m_buffer unmaps the file.  *)

Close ==
    /\ process = "up"
    /\ \A t \in Threads : At(t, "idle")
    /\ process' = "closing"
    /\ m_hash_table' = [i \in Indexes |-> NULL]
    /\ last_exit' = "close"
    /\ remembered' = [k \in Keys |-> Lookup(k)]
    /\ UNCHANGED <<mutexVars, next_bucket, key_value_data, blockVars, callVars,
                   pc, data_buffer, curr, bucket, ref, doomed, result, used_list,
                   ever_put>>

\* ~Bucket() destroys the last pointer to its block, and BufferFreer frees it.
DestroyBucket ==
    /\ process = "closing" /\ key_value_data # <<>>
    /\ m_buffer'       = m_buffer \ {Head(key_value_data)}
    /\ key_value_data' = Tail(key_value_data)
    /\ next_bucket'    = Tail(next_bucket)
    /\ TrackUsedList
    /\ UNCHANGED <<mutexVars, m_hash_table, block_key, block_value, callVars,
                   pc, data_buffer, curr, bucket, ref, doomed, result, process,
                   history>>

\* munmap() and close(): the process goes on or exits, without a store.
Unmap ==
    /\ process = "closing" /\ key_value_data = <<>>
    /\ process' = "down"
    /\ UNCHANGED <<vars, used_list, history>>

----------------------------------------------------------------------------

\* Every block in use holds a value some bucket of the table leads to: no put()
\* is between alloc() and store_bucket(), and nobody still has a replaced value.
NothingExpiredOrPending ==
    \A b \in m_buffer : \E index \in Indexes : \E i \in Chain(index) : key_value_data[i] = b

\* No put() is in progress; get() may be.
NoPutInProgress == \A t \in Threads : op[t] # "put"

QuietCrash      == NothingExpiredOrPending /\ Crash
CrashDuringGets == NoPutInProgress /\ Crash

Destruct == Close \/ DestroyBucket \/ Unmap

QuietSpec      == LifeInit /\ [][UnrecordedRun \/ QuietCrash \/ Open \/ Destruct]_lifeVars
DuringGetsSpec == LifeInit /\ [][UnrecordedRun \/ CrashDuringGets \/ Open \/ Destruct]_lifeVars
LifeSpec       == LifeInit /\ [][RecordedRun \/ Crash \/ Open \/ Destruct]_lifeVars

----------------------------------------------------------------------------

\* A table that a restart loaded is as good as one that was built by put(): one
\* bucket per key, complete chains, and every block owned by exactly who uses
\* it, through any number of further calls and restarts.
LoadedTableIsSound ==
    process = "up" => /\ KeysAreUnique /\ ChainsAreComplete
                      /\ NoUseAfterFree /\ NoLeak

RestartKept(exit) ==
    process = "down" /\ process' = "up" /\ last_exit = exit =>
      \A k \in Keys : Lookup(k)' = remembered[k]

\* What get() answered when the process crashed, it answers after the restart.
CrashKeepsTheMap == [][RestartKept("crash")]_lifeVars

\* "Persistent, the store is backed by an mmap()'d file" (README.md:11): what
\* get() answered when the store was destroyed, it answers when it is opened.
CloseKeepsTheMap == [][RestartKept("close")]_lifeVars

\* get() "returns empty string if key is not found" (hash_table.hpp:69), and
\* otherwise a value that some put() stored under that key.
OnlyPutValues ==
    process = "up" => \A k \in Keys : Lookup(k) = Empty \/ <<k, Lookup(k)>> \in ever_put
=============================================================================
