------------------------------ MODULE MCVolumes ------------------------------
(* Volumes with one CR, its claim and its volume. *)
EXTENDS Volumes

CONSTANTS c1, n1, k1, v1

OneName == [c \in {c1} |-> n1]
OneClaim == [c \in {c1} |-> k1]
OneVolume == [k \in {k1} |-> v1]
=============================================================================
