----------------------------- MODULE MCLifecycle -----------------------------
(* Model-checking instances of Lifecycle. *)
EXTENDS Lifecycle, TLC

CONSTANTS c1, c2

(* Every CR has an fsName of its own. *)
DistinctNames == [c \in CRs |-> c]

Symmetry == Permutations(CRs) \cup Permutations(Ids) \cup Permutations(Operators)
=============================================================================
