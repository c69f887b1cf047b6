-------------------------------- MODULE MCFlows --------------------------------
(***************************************************************************)
(* The instance of Flows that the run checks.                              *)
(***************************************************************************)
EXTENDS Flows

CONSTANTS w1, w2  \* the workers of the scanner

(* One channel or three, read through FanIn or in turn.                     *)
AllUses == {1, 3} \X {"fan_in", "in_turn"}

(* An empty list, a list of which nothing is kept, and longer ones than the *)
(* stages hold.                                                             *)
SomeLists == {<<>>, <<1, 3>>, <<2, 1, 4, 3, 6, 5, 8, 2>>, <<4, 4, 2, 2, 1>>}

Even == {v \in 0..64 : v % 2 = 0}

FivePorts == 8..12

(* Nothing to say, one message, and even and odd numbers of them.          *)
UpTo24 == -1..24
=============================================================================
