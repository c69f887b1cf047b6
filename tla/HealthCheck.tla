------------------------------ MODULE HealthCheck ------------------------------
(***************************************************************************)
(* HealthChecker of 18-production/exercises/medium/01-health-check/        *)
(* solution/main.go: AddCheck at any time, and a request to Handler, which *)
(* runs all checks at once.  Requests share nothing but the checks, so one *)
(* after another is enough.                                                *)
(*                                                                         *)
(* A check either heeds the ctx of five seconds it is given, and so comes  *)
(* back, or is deaf to it and may never do.                                *)
(***************************************************************************)
EXTENDS Naturals

CONSTANTS
  Names,
  NoCheck   \* a name without a check

VARIABLES
  checks,   \* name -> "heeds", "deaf" or NoCheck
  asked,    \* the copy of it the handler has made
  phase,    \* the request: "none", "running" or "answered"
  job,      \* the goroutine of each name, with the status in hand: "none",
            \* "check", "mark", "store_up", "store_down", "leave" or "left"
  healthy,
  results,  \* name -> "up", "down" or NoCheck
  answer,   \* [code, checks] of the response
  failed    \* history: the names whose checks failed

vars == <<checks, asked, phase, job, healthy, results, answer, failed>>

NoChecks == [n \in Names |-> NoCheck]
Asked == {n \in Names : asked[n] # NoCheck}

Init ==
  /\ checks = NoChecks /\ asked = NoChecks /\ results = NoChecks
  /\ phase = "none" /\ healthy = TRUE /\ failed = {}
  /\ job = [n \in Names |-> "none"]
  /\ answer = [code |-> 200, checks |-> NoChecks]

(* lines 33-37                                                              *)
AddCheck(n, kind) ==
  /\ checks' = [checks EXCEPT ![n] = kind]
  /\ UNCHANGED <<asked, phase, job, healthy, results, answer, failed>>

(* lines 41-55: copy the checks under the read lock, start a goroutine each *)
Begin ==
  /\ phase \in {"none", "answered"}
  /\ phase' = "running" /\ asked' = checks /\ healthy' = TRUE
  /\ results' = NoChecks /\ failed' = {}
  /\ job' = [n \in Names |-> IF checks[n] = NoCheck THEN "none" ELSE "check"]
  /\ UNCHANGED <<checks, answer>>

(* lines 61-70: the check comes back, with an error or not                  *)
CheckReturns(n) ==
  /\ job[n] = "check"
  /\ \/ job' = [job EXCEPT ![n] = "store_up"] /\ UNCHANGED failed
     \/ job' = [job EXCEPT ![n] = "mark"] /\ failed' = failed \cup {n}
  /\ UNCHANGED <<checks, asked, phase, healthy, results, answer>>

(* lines 71-73                                                              *)
MarkDown(n) ==
  /\ job[n] = "mark"
  /\ healthy' = FALSE
  /\ job' = [job EXCEPT ![n] = "store_down"]
  /\ UNCHANGED <<checks, asked, phase, results, answer, failed>>

(* lines 76-78                                                              *)
Store(n) ==
  /\ job[n] \in {"store_up", "store_down"}
  /\ results' = [results EXCEPT ![n] = IF job[n] = "store_down" THEN "down" ELSE "up"]
  /\ job' = [job EXCEPT ![n] = "leave"]
  /\ UNCHANGED <<checks, asked, phase, healthy, answer, failed>>

Leave_IfUp(n) ==
  /\ job[n] = "leave" /\ n \notin failed
  /\ job' = [job EXCEPT ![n] = "left"]
  /\ UNCHANGED <<checks, asked, phase, healthy, results, answer, failed>>

(* line 56: wg.Done                                                         *)
Leave(n) ==
  /\ job[n] = "leave"
  /\ job' = [job EXCEPT ![n] = "left"]
  /\ UNCHANGED <<checks, asked, phase, healthy, results, answer, failed>>

Answer_AfterChecks ==
  /\ phase = "running" /\ \A n \in Asked : job[n] \notin {"check", "mark"}
  /\ phase' = "answered"
  /\ answer' = [code |-> IF healthy THEN 200 ELSE 503, checks |-> results]
  /\ UNCHANGED <<checks, asked, job, healthy, results, failed>>

(* lines 81-95: all have left; the code of the response goes first          *)
Answer ==
  /\ phase = "running" /\ \A n \in Asked : job[n] = "left"
  /\ phase' = "answered"
  /\ answer' = [code |-> IF healthy THEN 200 ELSE 503, checks |-> results]
  /\ UNCHANGED <<checks, asked, job, healthy, results, failed>>

Job(n) == MarkDown(n) \/ Store(n) \/ Leave(n)

Next ==
  \/ \E n \in Names, kind \in {"heeds", "deaf"} : AddCheck(n, kind)
  \/ Begin \/ Answer
  \/ \E n \in Names : CheckReturns(n) \/ Job(n)

Spec == Init /\ [][Next]_vars

-----------------------------------------------------------------------------
(* The response tells of every check there was when the request came, and   *)
(* of no other, what that check said; its code is 503 if one of them failed *)
(* and 200 otherwise, however the goroutines and AddCheck interleave.       *)
AnswerMatches ==
  phase = "answered" =>
    /\ \A n \in Names : answer.checks[n] =
         IF n \notin Asked THEN NoCheck ELSE IF n \in failed THEN "down" ELSE "up"
    /\ answer.code = IF failed = {} THEN 200 ELSE 503

(* A request is answered, unless one of its checks is deaf to its ctx:      *)
(* the handler waits for all goroutines and not for the five seconds.       *)
Answered ==
  (phase = "running" /\ \A n \in Names : asked[n] # "deaf") ~> (phase = "answered")
=============================================================================
