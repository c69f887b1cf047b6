------------------------------- MODULE PingPong -------------------------------
(***************************************************************************)
(* PingPong of 04-concurrency/exercises/easy/01-ping-pong/solution/        *)
(* main.go: two goroutines hand a turn to each other over unbuffered       *)
(* channels and append to one slice without a lock; the caller returns the *)
(* slice when done is closed.                                              *)
(*                                                                         *)
(* A send over an unbuffered channel and its receive are one step.  Since  *)
(* the slice has room for n messages from the start (line 12), an append   *)
(* that races the return shows or does not show in what is returned, and   *)
(* that is all: the order of the two steps decides.                        *)
(***************************************************************************)
EXTENDS Integers, Sequences

CONSTANTS Calls   \* the n with which PingPong is called

VARIABLES
  n,       \* the argument of this call
  result,  \* the slice
  ping,    \* the goroutine ping: "none", "recv", "append", "send", "close", "ended"
  i,       \* its loop variable
  pong,    \* the goroutine pong, likewise
  j,       \* its loop variable (i of line 29)
  main,    \* the caller: "start", "send", "wait" or "returned"
  ret,     \* what it returned
  done,    \* whether done has been closed
  panic    \* the runtime panic that ended the program, or "none"

vars == <<n, result, ping, i, pong, j, main, ret, done, panic>>

(* The k-th message.                                                        *)
Msg(k) == IF k % 2 = 1 THEN "ping" ELSE "pong"

Init ==
  /\ n \in Calls
  /\ result = <<>>
  /\ ping = "none" /\ i = 0
  /\ pong = "none" /\ j = 1
  /\ main = "start"
  /\ ret = <<>>
  /\ done = FALSE
  /\ panic = "none"

-----------------------------------------------------------------------------
(* The loops: where a goroutine goes with its loop variable at k.           *)
PingAt(k) == IF k < n THEN "recv" ELSE "close"

(* lines 29 and 36                                                          *)
PongAt(k) == IF k < n THEN "recv" ELSE IF n = 1 THEN "close" ELSE "ended"

(* lines 6-8: nothing to do                                                 *)
ReturnAtOnce ==
  /\ main = "start" /\ n <= 0
  /\ main' = "returned"
  /\ UNCHANGED <<n, result, ping, i, pong, j, ret, done, panic>>

(* lines 10-39: start both goroutines                                       *)
Start ==
  /\ main = "start" /\ n > 0
  /\ main' = "send"
  /\ ping' = PingAt(0)
  /\ pong' = PongAt(1)
  /\ UNCHANGED <<n, result, i, j, ret, done, panic>>

(* lines 42 and 18: the caller gives the first turn to ping                 *)
FirstTurn ==
  /\ main = "send" /\ ping = "recv"
  /\ main' = "wait"
  /\ ping' = "append"
  /\ UNCHANGED <<n, result, i, pong, j, ret, done, panic>>

(* lines 19-20: ping appends; the turn goes on if a message is left         *)
PingAppends ==
  /\ ping = "append"
  /\ result' = Append(result, "ping")
  /\ IF i + 1 < n THEN ping' = "send" /\ UNCHANGED i
                  ELSE ping' = PingAt(i + 2) /\ i' = i + 2
  /\ UNCHANGED <<n, pong, j, main, ret, done, panic>>

PingGives_AndGoesOn ==
  /\ ping = "send" /\ pong = "recv"
  /\ pong' = "append"
  /\ i' = i + 2
  /\ ping' = IF i + 2 < n THEN "append" ELSE "close"
  /\ UNCHANGED <<n, result, j, main, ret, done, panic>>

(* lines 21 and 30: ping gives the turn to pong and goes round its loop     *)
PingGives ==
  /\ ping = "send" /\ pong = "recv"
  /\ pong' = "append"
  /\ i' = i + 2
  /\ ping' = PingAt(i + 2)
  /\ UNCHANGED <<n, result, j, main, ret, done, panic>>

(* lines 31-32: pong appends; the turn goes on if a message is left         *)
PongAppends ==
  /\ pong = "append"
  /\ result' = Append(result, "pong")
  /\ IF j + 1 < n THEN pong' = "send" /\ UNCHANGED j
                  ELSE pong' = PongAt(j + 2) /\ j' = j + 2
  /\ UNCHANGED <<n, ping, i, main, ret, done, panic>>

(* lines 33 and 18: pong gives the turn back and goes round its loop        *)
PongGives ==
  /\ pong = "send" /\ ping = "recv"
  /\ ping' = "append"
  /\ j' = j + 2
  /\ pong' = PongAt(j + 2)
  /\ UNCHANGED <<n, result, i, main, ret, done, panic>>

(* close(done): of a closed channel it panics                               *)
CloseDone ==
  /\ done' = TRUE
  /\ panic' = IF done THEN "close_of_closed" ELSE "none"

PingCloses_Never ==
  /\ ping = "close"
  /\ ping' = "ended"
  /\ UNCHANGED <<n, result, i, pong, j, main, ret, done, panic>>

(* line 24                                                                  *)
PingCloses ==
  /\ ping = "close"
  /\ CloseDone
  /\ ping' = "ended"
  /\ UNCHANGED <<n, result, i, pong, j, main, ret>>

(* line 37                                                                  *)
PongCloses ==
  /\ pong = "close"
  /\ CloseDone
  /\ pong' = "ended"
  /\ UNCHANGED <<n, result, ping, i, j, main, ret>>

Return_AtOnce ==
  /\ main = "wait"
  /\ main' = "returned"
  /\ ret' = result
  /\ UNCHANGED <<n, result, ping, i, pong, j, done, panic>>

(* lines 43-45: return the slice as it is when done is closed               *)
Return ==
  /\ main = "wait" /\ done
  /\ main' = "returned"
  /\ ret' = result
  /\ UNCHANGED <<n, result, ping, i, pong, j, done, panic>>

Step ==
  \/ ReturnAtOnce \/ Start \/ FirstTurn \/ Return
  \/ PingAppends \/ PingGives \/ PingCloses
  \/ PongAppends \/ PongGives \/ PongCloses

(* A panic in any goroutine ends the program: nothing runs after it.        *)
Next == panic = "none" /\ Step

Spec == Init /\ [][Next]_vars

(* Goroutines that can run do run.  No step can be taken for ever, so       *)
(* fairness of the whole is as good as of each goroutine.                   *)
FairSpec == Spec /\ WF_vars(Next)

-----------------------------------------------------------------------------
(* Properties.                                                              *)

(* The places of a goroutine in its code.                                   *)
Pcs == {"none", "recv", "append", "send", "close", "ended"}

(* Types; the slice never outgrows the room it was made with (line 12), and *)
(* done is closed a second time only when n is 1.                           *)
TypeOK ==
  /\ n \in Calls
  /\ result \in Seq({"ping", "pong"})
  /\ ping \in Pcs
  /\ i \in Nat
  /\ pong \in Pcs
  /\ j \in Nat
  /\ main \in {"start", "send", "wait", "returned"}
  /\ ret \in Seq({"ping", "pong"})
  /\ done \in BOOLEAN
  /\ panic \in {"none", "close_of_closed"}
  /\ n > 0 => Len(result) <= n
  /\ panic # "none" => n = 1

(* The two goroutines append to one slice without a lock, never at the same *)
(* time: the turn they hand to each other is the lock (lines 18-33).        *)
OneAppends == ~(ping = "append" /\ pong = "append")

(* The messages are in the order in which they are sent: ping, pong, ping,  *)
(* ... (task.md:3), whatever the goroutines' speeds.                        *)
Alternates ==
  \A k \in 1..Len(result) : result[k] = Msg(k)

(* Both: what the turn is for.                                              *)
TakeTurns == OneAppends /\ Alternates

(* How much of the slice the caller returns: all of it for an odd n but 1,  *)
(* and for any other n all but the last message at least (lines 24 and 45). *)
ReturnsMost ==
  main = "returned" =>
    /\ Len(ret) >= n - 1
    /\ n % 2 = 1 /\ n > 1 => Len(ret) = n
    /\ \A k \in 1..Len(ret) : ret[k] = Msg(k)

(* PingPong returns n messages (main.go:4).  Not so for an even n, nor for  *)
(* 1: done can be closed before the last message is appended.               *)
ReturnsAll == main = "returned" /\ n > 0 => Len(ret) = n

(* The caller gets an answer, unless a panic ends the program first.        *)
Returns == <>(main = "returned" \/ panic # "none")
=============================================================================
