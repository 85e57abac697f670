------------------------ MODULE MCConcurrentHashTable ------------------------
(* Small instances of ConcurrentHashTable and TableIteration for TLC.       *)
EXTENDS TableIteration, TLC

CONSTANTS Writers, Readers   \* which threads call put() and which call get()

\* All keys in one chain.
OneChain == [k \in Keys \cup {Empty} |-> CHOOSE i \in Indexes : TRUE]

MCCall(t) ==
    \E k \in Keys : \/ t \in Readers /\ CallGet(t, k)
                    \/ t \in Writers /\ \E v \in Values : CallPut(t, k, v)

MCNext == \E t \in Threads : MCCall(t) \/ Step(t)

MCSpec == Init /\ [][MCNext]_vars

Symmetry ==
    Permutations(Writers) \cup Permutations(Readers) \cup Permutations(Keys)
      \cup Permutations(Values) \cup Permutations(Blocks)
=============================================================================
