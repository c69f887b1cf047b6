------------------------------- MODULE MCFanOut -------------------------------
(***************************************************************************)
(* The instance of FanOutFanIn that TestFanOut is.                         *)
(***************************************************************************)
EXTENDS FanOutFanIn

(* main_test.go:29 and 34: three channels, read one after another.          *)
ThreeInTurn == {<<3, "in_turn">>}
=============================================================================
