------------------------------ MODULE RateLimiter ------------------------------
(***************************************************************************)
(* RateLimiter of 04-concurrency/exercises/hard/01-rate-limiter/solution/  *)
(* main.go: Allow, called by anybody, and Wait.  A token is Scale parts,   *)
(* so that what a unit of time brings is a whole number of parts; the      *)
(* rounding of float64 is left out.                                        *)
(***************************************************************************)
EXTENDS Integers, FiniteSetsExt

CONSTANTS
  Scale,    \* the parts of a token
  Rate,     \* the parts that come in a unit of time
  Burst,    \* the tokens there may be
  Waiters,  \* goroutines that call Wait, each any number of times
  Horizon   \* bound: the longest window looked at, in units of time

VARIABLES
  tokens,  \* in parts
  idle,    \* the time since last, up to what fills an empty limiter
  waiter,  \* each Wait: "out", "try", "select" or "woken" (its timer has fired)
  ctxDone, \* the waiters whose ctx is cancelled
  through  \* history: age -> the calls let through in the last age units of time

vars == <<tokens, idle, waiter, ctxDone, through>>

(* The units of time that fill an empty limiter.                            *)
Fill == CHOOSE t \in 1..(Burst * Scale) : t * Rate >= Burst * Scale

(* lines 17-24                                                              *)
Init ==
  /\ tokens = Burst * Scale /\ idle = 0
  /\ waiter = [w \in Waiters |-> "out"] /\ ctxDone = {}
  /\ through = [age \in 0..Horizon |-> 0]

(* A unit of time goes by (external: time).                                 *)
Advance ==
  /\ idle' = Min({idle + 1, Fill})
  /\ through' = [age \in 0..Horizon |-> IF age = 0 THEN 0 ELSE through[age - 1]]
  /\ UNCHANGED <<tokens, waiter, ctxDone>>

Refilled_NoCap == tokens + idle * Rate

(* lines 28-32                                                              *)
Refilled == Min({tokens + idle * Rate, Burst * Scale})

(* lines 36-45, under the mutex: refill, and take a token if there is one   *)
Take ==
  /\ Refilled >= Scale
  /\ tokens' = Refilled - Scale /\ idle' = 0
  /\ through' = [age \in 0..Horizon |-> through[age] + 1]

Refuse ==
  /\ Refilled < Scale
  /\ tokens' = Refilled /\ idle' = 0
  /\ UNCHANGED through

Allow == (Take \/ Refuse) /\ UNCHANGED <<waiter, ctxDone>>

(* line 47: with a ctx that may be cancelled already                        *)
WaitCalled(w) ==
  /\ waiter[w] = "out"
  /\ waiter' = [waiter EXCEPT ![w] = "try"]
  /\ ctxDone' \in {ctxDone \ {w}, ctxDone \cup {w}}
  /\ UNCHANGED <<tokens, idle, through>>

Cancel(w) ==
  /\ waiter[w] # "out" /\ ctxDone' = ctxDone \cup {w}
  /\ UNCHANGED <<tokens, idle, waiter, through>>

(* lines 49-51                                                              *)
Try(w) ==
  /\ waiter[w] = "try"
  /\ \/ Take /\ waiter' = [waiter EXCEPT ![w] = "out"]
     \/ Refuse /\ waiter' = [waiter EXCEPT ![w] = "select"]
  /\ UNCHANGED ctxDone

(* line 55: time.After fires                                                *)
Fire(w) ==
  /\ waiter[w] = "select" /\ waiter' = [waiter EXCEPT ![w] = "woken"]
  /\ UNCHANGED <<tokens, idle, ctxDone, through>>

Retry(w) ==
  /\ waiter[w] = "woken" /\ waiter' = [waiter EXCEPT ![w] = "try"]
  /\ UNCHANGED <<tokens, idle, ctxDone, through>>

(* lines 53-54: also when the timer has fired too, select picks one         *)
GiveUp(w) ==
  /\ waiter[w] \in {"select", "woken"} /\ w \in ctxDone
  /\ waiter' = [waiter EXCEPT ![w] = "out"]
  /\ UNCHANGED <<tokens, idle, ctxDone, through>>

Poll(w) == Try(w) \/ Fire(w) \/ Retry(w)

Next ==
  \/ Advance \/ Allow
  \/ \E w \in Waiters : WaitCalled(w) \/ Cancel(w) \/ Poll(w) \/ GiveUp(w)

-----------------------------------------------------------------------------
(* In no window of time, however the calls fall, do more calls succeed than *)
(* the burst and what comes in that time (task.md:5-8).                     *)
WindowBound ==
  \A age \in 0..Horizon : through[age] * Scale <= Burst * Scale + Rate * age

(* Wait comes back when its ctx is done, whoever else takes the tokens.     *)
WaitEnds == \A w \in Waiters : (w \in ctxDone) ~> (waiter[w] = "out" \/ w \notin ctxDone)
=============================================================================
