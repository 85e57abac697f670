--------------------------- MODULE TableIteration ---------------------------
(***************************************************************************)
(* begin() to end() of ConcurrentHashTable, and print_stats(): a walk over *)
(* m_bucket_storage and one over m_hash_table, neither of which takes      *)
(* m_write_mutex.  Each is an operator on the state it runs in; lengths of *)
(* values are left out.                                                    *)
(***************************************************************************)
EXTENDS ConcurrentHashTable, FiniteSets

\* const_iterator::operator*() on bucket i, which dereferences its pointer.
Listed(i) == <<block_key[key_value_data[i]], block_value[key_value_data[i]]>>

\* operator++() from begin() to end(): the buckets in the order put() added them.
Listing == [i \in Buckets |-> Listed(i)]

\* The buckets whose pointer the walk would find null.
Unset == {i \in Buckets : key_value_data[i] = NoBlock}

\* Wrong: the chains' heads are counted, not what is behind them.
StatsOfHeads ==
    LET heads == {i \in Indexes : m_hash_table[i] # NULL}
    IN  [num_key_value_pairs |-> Cardinality(heads),
         num_table_elements  |-> Cardinality(heads)]

\* print_stats(): entries listed, and chains in use.
Stats ==
    [num_key_value_pairs |-> Len(Listing),
     num_table_elements  |-> Cardinality({i \in Indexes : m_hash_table[i] # NULL})]

\* The keys find_bucket_with_key() finds a bucket for.
StoredKeys == {k \in Keys : \E i \in Chain(Hash[k]) : KeyOf(i) = k}

\* While no put() is in progress, whatever the readers do, a walk lists the map:
\* every key stored, once, with the value get() would answer; so print_stats()
\* counts each key once, and no chain in use that has no key.
ListingIsTheMap ==
    m_write_mutex = NoThread =>
      /\ Unset = {}
      /\ {Listing[i] : i \in Buckets} = {<<k, Lookup(k)>> : k \in StoredKeys}
      /\ Stats.num_key_value_pairs = Cardinality(StoredKeys)
      /\ Stats.num_table_elements = Cardinality({Hash[k] : k \in StoredKeys})

\* At any moment, a put() in progress included, the only pointer a walk can find
\* null is that of the last bucket, which the writer has emplaced and not set:
\* "second writer is locked out at the beginning of put()" (hash_table.hpp:106).
OnlyTheLastIsUnset ==
    \A i \in Unset :
      /\ i = Len(key_value_data)
      /\ m_write_mutex # NoThread
      /\ bucket[m_write_mutex] = i
      /\ pc[m_write_mutex] \in {"write_key", "write_value", "publish"}
=============================================================================
