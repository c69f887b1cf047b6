------------------------------ MODULE MCStores -------------------------------
(***************************************************************************)
(* The instance of Stores that the run checks.                             *)
(***************************************************************************)
EXTENDS Stores

CONSTANTS
  g1, g2, g3,      \* goroutines and calls
  a, b, c, d       \* URLs, titles, keys and values

(* Two of the three keys share a shard, one has a shard of its own.         *)
Hashes == a :> 5 @@ b :> 2 @@ c :> 7

SomeNames == {"", "ann"}
SomeEmails == {"", "a@b", "c@d"}

ThreePids == 1..3
ThreeSizes == 0..2

UpToThree == 0..3
=============================================================================
