----------------------------- MODULE FanOutFanIn -----------------------------
(***************************************************************************)
(* FanOut and FanIn of                                                     *)
(* 06-concurrency-patterns/exercises/medium/01-fan-out-fan-in/solution/    *)
(* main.go, between a producer and a caller that collects.  All channels   *)
(* are unbuffered: a send and its receive are one step, and both sides     *)
(* must have come to it.                                                   *)
(*                                                                         *)
(* The values are 1..Count, in the order in which they are produced.       *)
(* reader says who reads the channels of FanOut: the goroutines of FanIn,  *)
(* as in TestRoundTrip, or the caller, one channel after another, as in    *)
(* TestFanOut.                                                             *)
(***************************************************************************)
EXTENDS Integers, Sequences

CONSTANTS
  Uses,    \* the calls: pairs of a number of channels and a reader
  Count    \* the number of values produced

VARIABLES
  n,         \* the number of channels
  reader,    \* "fan_in" or "in_turn"
  produced,  \* how many values the producer has sent
  inClosed,  \* whether the producer has closed in
  dealer,    \* the goroutine of FanOut: "recv", "send", "close" or "ended"
  hand,      \* the value it is sending
  i,         \* its local i
  closed,    \* the channels of FanOut it has closed
  dealt,     \* history: per channel, the values received from it
  worker,    \* the goroutine of FanIn of each channel: "recv", "send" or "ended"
  carry,     \* the value it is sending
  running,   \* the counter of wg
  outClosed, \* whether the last goroutine of FanIn has closed out
  turn,      \* the channel the caller reads when it reads in turn
  got,       \* what the caller has collected
  caller,    \* "collecting" or "returned"
  panic      \* the runtime panic that ended the program, or "none"

vars == <<n, reader, produced, inClosed, dealer, hand, i, closed, dealt, worker,
          carry, running, outClosed, turn, got, caller, panic>>

useVars      == <<n, reader>>
producerVars == <<produced, inClosed>>
fanOutVars   == <<dealer, hand, i, closed, dealt>>
fanInVars    == <<worker, carry, running, outClosed>>
callerVars   == <<turn, got, caller>>

Chans  == 0..(n - 1)
Nums   == 1..Count
Nobody == 0           \* no value

Init ==
  /\ \E u \in Uses : n = u[1] /\ reader = u[2]
  /\ produced = 0 /\ inClosed = FALSE
  /\ dealer = "recv" /\ hand = Nobody /\ i = 0
  /\ closed = {} /\ dealt = [c \in Chans |-> <<>>]
  /\ worker = [c \in Chans |-> IF reader = "fan_in" THEN "recv" ELSE "ended"]
  /\ carry = [c \in Chans |-> Nobody]
  /\ running = IF reader = "fan_in" THEN n ELSE 0
  /\ outClosed = FALSE
  /\ turn = 0 /\ got = <<>> /\ caller = "collecting"
  /\ panic = "none"

-----------------------------------------------------------------------------
(* The producer: sends its values to in, then closes it (external: gen of   *)
(* the tests).  The receive is line 12 of FanOut.                           *)
Produce ==
  /\ produced < Count /\ dealer = "recv"
  /\ produced' = produced + 1
  /\ hand' = produced + 1
  /\ dealer' = "send"
  /\ UNCHANGED <<inClosed, i, closed, dealt, fanInVars, callerVars, panic>>

CloseIn ==
  /\ produced = Count /\ ~inClosed
  /\ inClosed' = TRUE
  /\ UNCHANGED <<produced, fanOutVars, fanInVars, callerVars, panic>>

-----------------------------------------------------------------------------
(* The goroutine of FanOut.                                                 *)

(* line 13: the channel of the k-th value                                   *)
Channel(k) == k % n

(* lines 13-14: its side of sending the value in hand to channel c          *)
Deal(c) ==
  /\ dealer = "send" /\ c = Channel(i) /\ c \notin closed
  /\ dealt' = [dealt EXCEPT ![c] = Append(@, hand)]
  /\ hand' = Nobody
  /\ i' = i + 1
  /\ dealer' = "recv"
  /\ UNCHANGED closed

(* line 12: in is closed, the loop ends                                     *)
DealerEnds ==
  /\ dealer = "recv" /\ inClosed
  /\ dealer' = "close"
  /\ UNCHANGED <<producerVars, hand, i, closed, dealt, fanInVars, callerVars,
                 panic>>

(* lines 16-18: close the channels, the first one first                     *)
CloseOuts ==
  /\ dealer = "close"
  /\ \E c \in Chans \ closed :
       /\ \A d \in Chans \ closed : c <= d
       /\ closed' = closed \cup {c}
       /\ dealer' = IF closed' = Chans THEN "ended" ELSE "close"
  /\ UNCHANGED <<producerVars, hand, i, dealt, fanInVars, callerVars, panic>>

-----------------------------------------------------------------------------
(* The goroutines of FanIn.                                                 *)

(* lines 13 and 35: a value passes from FanOut to the goroutine of c        *)
WorkerTakes(c) ==
  /\ worker[c] = "recv"
  /\ Deal(c)
  /\ carry' = [carry EXCEPT ![c] = hand]
  /\ worker' = [worker EXCEPT ![c] = "send"]
  /\ UNCHANGED <<producerVars, running, outClosed, callerVars, panic>>

WorkerSends_OrDrops(c) ==
  /\ worker[c] = "send"
  /\ \/ caller = "collecting" /\ got' = Append(got, carry[c])
     \/ UNCHANGED got
  /\ carry' = [carry EXCEPT ![c] = Nobody]
  /\ worker' = [worker EXCEPT ![c] = "recv"]
  /\ UNCHANGED <<producerVars, fanOutVars, running, outClosed, turn, caller,
                 panic>>

(* line 36: send it to out; a closed out panics                             *)
WorkerSends(c) ==
  /\ worker[c] = "send"
  /\ IF outClosed
       THEN panic' = "send_on_closed" /\ UNCHANGED <<fanInVars, callerVars>>
       ELSE /\ caller = "collecting"
            /\ got' = Append(got, carry[c])
            /\ carry' = [carry EXCEPT ![c] = Nobody]
            /\ worker' = [worker EXCEPT ![c] = "recv"]
            /\ UNCHANGED <<running, outClosed, turn, caller, panic>>
  /\ UNCHANGED <<producerVars, fanOutVars>>

(* lines 34-35: its channel is closed; wg.Done                              *)
WorkerEnds(c) ==
  /\ worker[c] = "recv" /\ c \in closed
  /\ worker' = [worker EXCEPT ![c] = "ended"]
  /\ running' = running - 1
  /\ UNCHANGED <<producerVars, fanOutVars, carry, outClosed, callerVars, panic>>

CloseOut_WhenAllDealt ==
  /\ reader = "fan_in" /\ ~outClosed
  /\ dealer = "ended"
  /\ outClosed' = TRUE
  /\ UNCHANGED <<producerVars, fanOutVars, worker, carry, running, callerVars,
                 panic>>

(* lines 40-43: close out when the counter is zero                          *)
CloseOut ==
  /\ reader = "fan_in" /\ ~outClosed
  /\ running = 0
  /\ outClosed' = TRUE
  /\ UNCHANGED <<producerVars, fanOutVars, worker, carry, running, callerVars,
                 panic>>

-----------------------------------------------------------------------------
(* The caller (external: collect of the tests).                             *)

(* collect(FanIn(...)): it ends when out is closed                          *)
CallerEnds ==
  /\ reader = "fan_in" /\ caller = "collecting" /\ outClosed
  /\ caller' = "returned"
  /\ UNCHANGED <<producerVars, fanOutVars, fanInVars, turn, got, panic>>

(* collect on the channels of FanOut in turn: a value of channel turn ...   *)
CallerTakes ==
  /\ reader = "in_turn" /\ caller = "collecting"
  /\ Deal(turn)
  /\ got' = Append(got, hand)
  /\ UNCHANGED <<producerVars, fanInVars, turn, caller, panic>>

(* ... and the next channel when it is closed                               *)
CallerMoves ==
  /\ reader = "in_turn" /\ caller = "collecting" /\ turn \in closed
  /\ IF turn + 1 < n
       THEN turn' = turn + 1 /\ UNCHANGED caller
       ELSE caller' = "returned" /\ UNCHANGED turn
  /\ UNCHANGED <<producerVars, fanOutVars, fanInVars, got, panic>>

Step ==
  \/ Produce \/ CloseIn
  \/ DealerEnds \/ CloseOuts
  \/ \E c \in Chans : WorkerTakes(c) \/ WorkerSends(c) \/ WorkerEnds(c)
  \/ CloseOut
  \/ CallerEnds \/ CallerTakes \/ CallerMoves

(* A panic in any goroutine ends the program: nothing runs after it.        *)
Next == panic = "none" /\ Step /\ UNCHANGED useVars

Spec == Init /\ [][Next]_vars

(* Goroutines that can run do run.  Every step takes something nearer to    *)
(* its end, so fairness of the whole is as good as of each.                 *)
FairSpec == Spec /\ WF_vars(Next)

-----------------------------------------------------------------------------
(* Properties.                                                              *)

(* The values a channel gives are every n-th one, in the order produced,    *)
(* from its own first one on (lines 13-14).                                 *)
RoundRobin ==
  \A c \in Chans : \A k \in DOMAIN dealt[c] :
    dealt[c][k] = c + 1 + (k - 1) * n

(* Where value v is.                                                        *)
Places(v) ==
  (IF hand = v THEN {<<"dealer", 0>>} ELSE {})
    \cup {<<"carry", c>> : c \in {c \in Chans : carry[c] = v}}
    \cup {<<"got", k>> : k \in {k \in DOMAIN got : got[k] = v}}

(* No value is lost or doubled, whatever the order of the goroutines: each  *)
(* one produced is in exactly one hand or was collected exactly once.       *)
NothingLost ==
  \A v \in Nums : IF v <= produced THEN \E p \in Places(v) : Places(v) = {p}
                                   ELSE Places(v) = {}

(* Both: the values go out in turn and come back once each.                 *)
InTurnAndOnce == RoundRobin /\ NothingLost

(* out is closed only behind the last value: all channels are closed by     *)
(* then, every value has been collected and no goroutine of FanIn can still *)
(* send (task.md:6, all channels are closed correctly).                     *)
ClosedBehindAll ==
  outClosed => /\ closed = Chans
               /\ Len(got) = Count
               /\ \A c \in Chans : worker[c] = "ended"

(* A caller that reads through FanIn, or reads the only channel there is,   *)
(* collects every value and comes to its end.                               *)
AllCollected ==
  (reader = "fan_in" \/ n = 1) ~> (caller = "returned" /\ Len(got) = Count)

(* What TestFanOut expects (main_test.go:34-43): a caller that reads the    *)
(* channels one after another gets every value as well.  Not so: it stays   *)
(* at the first channel, which nobody closes before the second value has    *)
(* been taken from the second channel (line 13).                            *)
InTurnCollected ==
  reader = "in_turn" ~> (caller = "returned" /\ Len(got) = Count)
=============================================================================
