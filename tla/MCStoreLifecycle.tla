-------------------------- MODULE MCStoreLifecycle --------------------------
(* Small instances of StoreLifecycle for TLC.                              *)
EXTENDS StoreLifecycle

\* All keys in one chain.
OneChain == [k \in Keys \cup {Empty} |-> CHOOSE i \in Indexes : TRUE]

\* One key in a chain of its own, the others together.
TwoChains ==
    LET alone == CHOOSE k \in Keys : TRUE
    IN  [k \in Keys \cup {Empty} |-> IF k = alone THEN 1 ELSE 0]

\* Keys are not interchangeable under TwoChains.
Symmetry ==
    Permutations(Threads) \cup Permutations(Values) \cup Permutations(Blocks)
=============================================================================
