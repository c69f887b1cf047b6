---------------------------- MODULE MCEventBroker ----------------------------
(* Constants of the runs of EventBroker. *)
EXTENDS EventBroker, TLC

CONSTANTS s1, s2, t1, t2, p1, p2, c1, c2

(* Interchangeable subscribers, publishers and closers (safety runs only).  *)
Symmetry ==
  Permutations(Subs) \cup Permutations(Publishers) \cup Permutations(Closers)
=============================================================================
