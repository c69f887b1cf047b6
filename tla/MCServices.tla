------------------------------ MODULE MCServices ------------------------------
(***************************************************************************)
(* Model values for the runs of Services.                                  *)
(***************************************************************************)
EXTENDS Services

CONSTANTS k1, k2, v1, v2, g1, g2, g3  \* keys, users, values and goroutines
=============================================================================
