------------------------------ MODULE MCTTLCache ------------------------------
(* Constants of the runs of TTLCache. *)
EXTENDS TTLCache

CONSTANTS k1, k2, v1, v2, g1, g2
=============================================================================
