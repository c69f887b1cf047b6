----------------------------- MODULE ParallelFetch -----------------------------
(***************************************************************************)
(* FetchAll of 04-concurrency/exercises/medium/01-parallel-fetch/solution/ *)
(* main.go together with the part of golang.org/x/sync/errgroup it is      *)
(* built on (vendor/golang.org/x/sync/errgroup/errgroup.go): the group's   *)
(* semaphore, its wait group, its first error and its context.             *)
(*                                                                         *)
(* The URLs are 1..Count, in the order of the argument.  fetch is the      *)
(* caller's: it ends with a body or an error, whether it heeds the context *)
(* or not.  ctx may be cancelled at any moment, before the call too; the   *)
(* cancellation reaches the group's context gCtx a moment later.           *)
(***************************************************************************)
EXTENDS Integers, FiniteSets

CONSTANTS
  Count,   \* the number of URLs
  Limit    \* the limit of the group, 10 in line 22

ASSUME FetchAssumption == Count \in Nat /\ Limit \in Nat \ {0}

Urls == 1..Count

VARIABLES
  ctxDone,  \* whether the caller's ctx is cancelled
  gDone,    \* whether gCtx is cancelled
  next,     \* the URL the loop of FetchAll is at
  sem,      \* tokens in the semaphore of the group
  wg,       \* the counter of its wait group
  err,      \* its first error: "nil" or "canceled"
  job,      \* the goroutine of each URL: "none", "fetch", "check", "fail",
            \* "release", "leave" or "left"
  results,  \* the outcome stored for each URL: "none", "body" or "error"
  main,     \* the call: "loop", "wait" or "returned"
  retErr,   \* the error it returned
  inTime    \* history: gCtx was cancelled while a fetch was still to be checked

vars == <<ctxDone, gDone, next, sem, wg, err, job, results, main, retErr, inTime>>

groupVars == <<next, sem, wg, main, retErr>>

(* The fetches whose result still will be weighed against gCtx (line 33).   *)
Unchecked == {u \in Urls : job[u] \in {"none", "fetch", "check"}}

Init ==
  /\ ctxDone \in BOOLEAN
  /\ gDone = ctxDone
  /\ next = 1 /\ sem = 0 /\ wg = 0 /\ err = "nil"
  /\ job = [u \in Urls |-> "none"]
  /\ results = [u \in Urls |-> "none"]
  /\ main = "loop"
  /\ retErr = "nil"
  /\ inTime = (ctxDone /\ Count > 0)

-----------------------------------------------------------------------------
(* The contexts (external: context).                                        *)

CancelCtx ==
  /\ ~ctxDone /\ ctxDone' = TRUE
  /\ UNCHANGED <<gDone, groupVars, err, job, results, inTime>>

Propagate ==
  /\ ctxDone /\ ~gDone
  /\ gDone' = TRUE
  /\ inTime' = (Unchecked # {})
  /\ UNCHANGED <<ctxDone, groupVars, err, job, results>>

-----------------------------------------------------------------------------
Slot_Unlimited == TRUE

(* errgroup.go:73-75: room in the semaphore                                 *)
Slot == sem < Limit

(* lines 24-26, errgroup.go:72-79: the loop starts a goroutine for the next *)
(* URL when the group has a slot                                            *)
Go ==
  /\ main = "loop" /\ next <= Count /\ Slot
  /\ sem' = sem + 1
  /\ wg' = wg + 1
  /\ job' = [job EXCEPT ![next] = "fetch"]
  /\ next' = next + 1
  /\ UNCHANGED <<ctxDone, gDone, err, results, main, retErr, inTime>>

LoopEnds ==
  /\ main = "loop" /\ next > Count
  /\ main' = "wait"
  /\ UNCHANGED <<ctxDone, gDone, next, sem, wg, err, job, results, retErr, inTime>>

(* lines 27-32: the fetch ends, its outcome is stored at the URL's place    *)
FetchEnds(u) ==
  /\ job[u] = "fetch"
  /\ \E out \in {"body", "error"} : results' = [results EXCEPT ![u] = out]
  /\ job' = [job EXCEPT ![u] = "check"]
  /\ UNCHANGED <<ctxDone, gDone, groupVars, err, inTime>>

Check_FetchError(u) ==
  /\ job[u] = "check"
  /\ job' = [job EXCEPT ![u] = IF results[u] = "error" THEN "fail" ELSE "release"]
  /\ UNCHANGED <<ctxDone, gDone, groupVars, err, results, inTime>>

(* lines 33-36: the goroutine fails if gCtx is cancelled by now             *)
Check(u) ==
  /\ job[u] = "check"
  /\ job' = [job EXCEPT ![u] = IF gDone THEN "fail" ELSE "release"]
  /\ UNCHANGED <<ctxDone, gDone, groupVars, err, results, inTime>>

(* errgroup.go:93-99: the first error is kept and cancels gCtx              *)
Fail(u) ==
  /\ job[u] = "fail"
  /\ err' = "canceled"
  /\ gDone' = TRUE
  /\ job' = [job EXCEPT ![u] = "release"]
  /\ UNCHANGED <<ctxDone, groupVars, results, inTime>>

Release_Keeps(u) ==
  /\ job[u] = "release"
  /\ job' = [job EXCEPT ![u] = "leave"]
  /\ UNCHANGED <<ctxDone, gDone, groupVars, err, results, inTime>>

(* errgroup.go:37-39: give the slot back                                    *)
Release(u) ==
  /\ job[u] = "release"
  /\ sem' = sem - 1
  /\ job' = [job EXCEPT ![u] = "leave"]
  /\ UNCHANGED <<ctxDone, gDone, next, wg, err, results, main, retErr, inTime>>

(* errgroup.go:40: wg.Done                                                  *)
Leave(u) ==
  /\ job[u] = "leave"
  /\ wg' = wg - 1
  /\ job' = [job EXCEPT ![u] = "left"]
  /\ UNCHANGED <<ctxDone, gDone, next, sem, err, results, main, retErr, inTime>>

Wait_ForSlots ==
  /\ main = "wait" /\ sem = 0
  /\ gDone' = TRUE
  /\ retErr' = err
  /\ main' = "returned"
  /\ UNCHANGED <<ctxDone, next, sem, wg, err, job, results, inTime>>

(* lines 40-44, errgroup.go:55-61: when all have left, gCtx is cancelled    *)
(* for good and the first error returned                                    *)
Wait ==
  /\ main = "wait" /\ wg = 0
  /\ gDone' = TRUE
  /\ retErr' = err
  /\ main' = "returned"
  /\ UNCHANGED <<ctxDone, next, sem, wg, err, job, results, inTime>>

Job(u) == FetchEnds(u) \/ Check(u) \/ Fail(u) \/ Release(u) \/ Leave(u)

Call == Go \/ LoopEnds \/ Wait

Next ==
  \/ CancelCtx \/ Propagate
  \/ Call
  \/ \E u \in Urls : Job(u)

Spec == Init /\ [][Next]_vars

(* The goroutines run, and every fetch ends some time (the caller's fetch   *)
(* is expected to; FetchAll has no timeout of its own).                     *)
FairSpec ==
  Spec /\ WF_vars(Call) /\ \A u \in Urls : WF_vars(Job(u))

-----------------------------------------------------------------------------
(* Properties.                                                              *)

(* The goroutines that hold a slot, and those that are to be waited for.    *)
Holding == {u \in Urls : job[u] \in {"fetch", "check", "fail", "release"}}
Counted == Holding \cup {u \in Urls : job[u] = "leave"}

(* Types; the semaphore and the counter of the group agree with the         *)
(* goroutines that are in it.                                               *)
TypeOK ==
  /\ ctxDone \in BOOLEAN /\ gDone \in BOOLEAN
  /\ next \in 1..(Count + 1)
  /\ sem = Cardinality(Holding)
  /\ wg = Cardinality(Counted)
  /\ err \in {"nil", "canceled"}
  /\ job \in [Urls -> {"none", "fetch", "check", "fail", "release", "leave", "left"}]
  /\ results \in [Urls -> {"none", "body", "error"}]
  /\ main \in {"loop", "wait", "returned"}
  /\ retErr \in {"nil", "canceled"}
  /\ inTime \in BOOLEAN

(* No more than Limit fetches run at once (task.md:10).                     *)
LimitKept == Cardinality({u \in Urls : job[u] = "fetch"}) <= Limit

(* A call that has returned left nothing behind: every fetch has ended and  *)
(* has its own outcome in its place (task.md:11), none runs on.             *)
AllThere ==
  main = "returned" => \A u \in Urls : results[u] # "none" /\ job[u] = "left"

(* The error of a fetch never ends the call (task.md:12): only when ctx was *)
(* cancelled does it fail.                                                  *)
OnlyCancelFails == retErr # "nil" => ctxDone

(* A cancellation that reached the group while any fetch was yet to be      *)
(* weighed against it, is reported (main.go:18).                            *)
CancelReported == main = "returned" /\ inTime => retErr = "canceled"

(* Both: the error of the call speaks of the caller's ctx and nothing else. *)
FailsIfCancelled == OnlyCancelFails /\ CancelReported

(* The call returns, provided every fetch ends.                             *)
Returns == <>(main = "returned")
=============================================================================
