------------------------------ MODULE Pipeline -------------------------------
(***************************************************************************)
(* Generate, Square and Filter of 06-concurrency-patterns/exercises/easy/  *)
(* 01-pipeline/solution/main.go, put together as in TestPipeline, and the  *)
(* caller that reads their last channel.  The channels are unbuffered: a   *)
(* send and its receive are one step.                                      *)
(***************************************************************************)
EXTENDS Naturals, Sequences, SequencesExt

CONSTANTS
  Lists,  \* the arguments of Generate
  Kept    \* the values pred accepts

Stages == 1..3  \* Generate, Square, Filter

VARIABLES
  nums,    \* the argument of Generate
  taken,   \* how many of them its loop has taken
  hand,    \* the value each stage is sending, <<>> or <<value>>
  closed,  \* the stages that have closed their channels and ended
  got,     \* what the caller has read
  reading  \* whether the caller goes on: it may leave at any time

vars == <<nums, taken, hand, closed, got, reading>>

Init ==
  /\ nums \in Lists /\ taken = 0
  /\ hand = [k \in Stages |-> <<>>]
  /\ closed = {}
  /\ got = <<>> /\ reading = TRUE

(* lines 7-8: the loop of Generate comes to its next number                 *)
Generate ==
  /\ taken < Len(nums) /\ hand[1] = <<>>
  /\ taken' = taken + 1
  /\ hand' = [hand EXCEPT ![1] = <<nums[taken + 1]>>]
  /\ UNCHANGED <<nums, closed, got, reading>>

(* lines 8 and 18-19: from Generate to Square                               *)
Square ==
  /\ hand[1] # <<>> /\ hand[2] = <<>>
  /\ LET n == hand[1][1] IN hand' = [hand EXCEPT ![1] = <<>>, ![2] = <<n * n>>]
  /\ UNCHANGED <<nums, taken, closed, got, reading>>

(* line 30: what Filter sends on of a value                                 *)
Passed(v) == IF v \in Kept THEN <<v>> ELSE <<>>

Filter_Swapped ==
  /\ hand[2] # <<>>
  /\ hand' = [hand EXCEPT ![2] = <<>>, ![3] = Passed(hand[2][1]) \o @]
  /\ UNCHANGED <<nums, taken, closed, got, reading>>

(* lines 19 and 29-31: from Square to Filter, which drops what pred rejects *)
Filter ==
  /\ hand[2] # <<>> /\ hand[3] = <<>>
  /\ hand' = [hand EXCEPT ![2] = <<>>, ![3] = Passed(hand[2][1])]
  /\ UNCHANGED <<nums, taken, closed, got, reading>>

(* line 31: from Filter to the caller                                       *)
Deliver ==
  /\ reading /\ hand[3] # <<>>
  /\ got' = got \o hand[3]
  /\ hand' = [hand EXCEPT ![3] = <<>>]
  /\ UNCHANGED <<nums, taken, closed, reading>>

(* Nothing more comes to a stage.                                           *)
InputEnds(k) == IF k = 1 THEN taken = Len(nums) ELSE k - 1 \in closed

(* lines 6, 17 and 28: the loop ends and the deferred close runs            *)
CloseOut(k) ==
  /\ k \notin closed /\ hand[k] = <<>> /\ InputEnds(k)
  /\ closed' = closed \cup {k}
  /\ UNCHANGED <<nums, taken, hand, got, reading>>

(* A caller that stops reading before the channel is closed (external).     *)
Abandon ==
  /\ reading /\ 3 \notin closed
  /\ reading' = FALSE
  /\ UNCHANGED <<nums, taken, hand, closed, got>>

Stage == Generate \/ Square \/ Filter \/ Deliver \/ \E k \in Stages : CloseOut(k)

Next == Stage \/ Abandon

-----------------------------------------------------------------------------
(* What the functions compute: of the first numbers, and of all.            *)
WantOf[k \in 0..Len(nums)] ==
  IF k = 0 THEN <<>> ELSE WantOf[k - 1] \o Passed(nums[k] * nums[k])

Want == WantOf[Len(nums)]

(* The caller reads the values of the composed functions in their order,    *)
(* and a closed channel means that it has read all of them.                 *)
InOrderAndAll ==
  /\ IsPrefix(got, Want)
  /\ 3 \in closed => got = Want

(* A caller that goes on reading sees the end, and all goroutines end.      *)
AllRead == <>(~reading \/ (closed = Stages /\ got = Want))
=============================================================================
