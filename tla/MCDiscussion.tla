---------------------------- MODULE MCDiscussion ----------------------------
EXTENDS Discussion, TLC

CONSTANTS ann, ben, i1, c1

(* The reader reported the issue that the comment is on. *)
MCOn == [c \in Comments |-> i1]
MCReporter == [i \in Issues |-> ben]

Symmetry == Permutations(Requests)
=============================================================================
