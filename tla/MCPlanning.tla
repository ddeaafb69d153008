---------------------------- MODULE MCPlanning ----------------------------
EXTENDS Planning, TLC

CONSTANTS p1, p2, a, b, c, d, s, t, g1, g2

(* Two issues share a project, a third one is elsewhere. *)
MCHome == [x \in Issues \cup Sprints |-> IF x \in {c, d} THEN p2 ELSE p1]

Symmetry == Permutations(Requests)
============================================================================
