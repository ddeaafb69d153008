--------------------------- MODULE MCEmailOutbox ---------------------------
EXTENDS EmailOutbox, TLC

MCDelays == [n \in 1..4 |-> IF n = 1 THEN 1 ELSE 2]
Symmetry == Permutations(Workers)
============================================================================
