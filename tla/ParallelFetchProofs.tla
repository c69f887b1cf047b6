-------------------------- MODULE ParallelFetchProofs --------------------------
(***************************************************************************)
(* Proofs about ParallelFetch, for every number of URLs and every limit.   *)
(* The semaphore counts the goroutines that hold a slot and never exceeds  *)
(* the limit; a cancellation that came in time is always on its way: some  *)
(* goroutine is yet to see it, is about to report it, or has.              *)
(***************************************************************************)
EXTENDS ParallelFetch, FiniteSetTheorems, TLAPS

(* How far each goroutine is, by the loop and by what it has stored.        *)
Progress ==
  /\ \A u \in Urls : job[u] = "none" <=> u >= next
  /\ \A u \in Urls : results[u] = "none" <=> job[u] \in {"none", "fetch"}
  /\ main # "loop" => next = Count + 1
  /\ main = "returned" => wg = 0
  /\ sem <= Limit

(* Where a cancellation is on its way from ctx to the error of the call.    *)
Canceling ==
  /\ gDone /\ main # "returned" => ctxDone
  /\ err = "canceled" => ctxDone
  /\ \A u \in Urls : job[u] = "fail" => ctxDone
  /\ inTime => gDone
  /\ inTime => \/ err = "canceled"
               \/ \E u \in Urls : job[u] \in {"none", "fetch", "check", "fail"}
  /\ retErr = IF main = "returned" THEN err ELSE "nil"

IInv == TypeOK /\ Progress /\ Canceling

LEMMA FiniteUrls == IsFiniteSet(Urls) /\ \A S \in SUBSET Urls : IsFiniteSet(S)
<1>1. IsFiniteSet(Urls)
  BY FetchAssumption, FS_Interval DEF Urls
<1>2. QED
  BY <1>1, FS_Subset

LEMMA InitIInv == Init => IInv
<1> SUFFICES ASSUME Init PROVE IInv
  OBVIOUS
<1> USE FetchAssumption DEF Init
<1>1. Holding = {} /\ Counted = {}
  BY DEF Holding, Counted
<1>2. sem = Cardinality(Holding) /\ wg = Cardinality(Counted)
  BY <1>1, FS_EmptySet
<1>3. TypeOK
  BY <1>2 DEF TypeOK
<1>4. Progress
  BY DEF Progress, Urls
<1>5. Canceling
  <2>1. inTime => gDone /\ Count > 0
    OBVIOUS
  <2>2. Count > 0 => \E u \in Urls : job[u] = "none"
    <3>1. Count > 0 => 1 \in Urls
      BY DEF Urls
    <3>2. QED
      BY <3>1
  <2>3. QED
    BY <2>1, <2>2 DEF Canceling
<1>6. QED
  BY <1>3, <1>4, <1>5 DEF IInv

(* The counters are numbers of goroutines.                                  *)
LEMMA CountersAreNumbers ==
  ASSUME TypeOK
  PROVE  /\ sem \in Nat /\ wg \in Nat
         /\ IsFiniteSet(Holding) /\ IsFiniteSet(Counted)
         /\ wg = 0 => Counted = {}
<1>1. Holding \in SUBSET Urls /\ Counted \in SUBSET Urls
  BY DEF Holding, Counted
<1>2. IsFiniteSet(Holding) /\ IsFiniteSet(Counted)
  BY <1>1, FiniteUrls
<1>3. QED
  BY <1>2, FS_CardinalityType, FS_EmptySet DEF TypeOK

(* A step keeps the counters right.                                         *)
LEMMA CountersKept ==
  ASSUME TypeOK, Progress, [Next]_vars
  PROVE  sem' = Cardinality(Holding') /\ wg' = Cardinality(Counted')
<1> USE DEF TypeOK
<1>0. /\ sem \in Nat /\ wg \in Nat
      /\ IsFiniteSet(Holding) /\ IsFiniteSet(Counted)
  BY CountersAreNumbers
<1>1. CASE Go
  <2>1. next \in Urls /\ job[next] = "none" /\ next \notin Counted /\ next \notin Holding
    BY <1>1, FetchAssumption DEF Go, Progress, Urls, Counted, Holding
  <2>2. Holding' = Holding \cup {next} /\ Counted' = Counted \cup {next}
    BY <1>1, <2>1 DEF Go, Holding, Counted
  <2>3. /\ Cardinality(Holding') = Cardinality(Holding) + 1
        /\ Cardinality(Counted') = Cardinality(Counted) + 1
    BY <1>0, <2>1, <2>2, FS_AddElement
  <2>4. QED
    BY <1>1, <2>3 DEF Go
<1>2. CASE \E u \in Urls : Release(u)
  <2>1. PICK u \in Urls : Release(u)
    BY <1>2
  <2>2. u \in Holding /\ Holding' = Holding \ {u} /\ Counted' = Counted
    BY <2>1 DEF Release, Holding, Counted
  <2>3. Cardinality(Holding') = Cardinality(Holding) - 1
    BY <1>0, <2>2, FS_RemoveElement
  <2>4. QED
    BY <2>1, <2>2, <2>3 DEF Release
<1>3. CASE \E u \in Urls : Leave(u)
  <2>1. PICK u \in Urls : Leave(u)
    BY <1>3
  <2>2. u \in Counted /\ Counted' = Counted \ {u} /\ Holding' = Holding
    BY <2>1 DEF Leave, Holding, Counted
  <2>3. Cardinality(Counted') = Cardinality(Counted) - 1
    BY <1>0, <2>2, FS_RemoveElement
  <2>4. QED
    BY <2>1, <2>2, <2>3 DEF Leave
<1>4. CASE \E u \in Urls : FetchEnds(u) \/ Check(u) \/ Fail(u)
  <2>1. sem' = sem /\ wg' = wg
    BY <1>4 DEF FetchEnds, Check, Fail, groupVars
  <2>2. Holding' = Holding /\ Counted' = Counted
    BY <1>4 DEF FetchEnds, Check, Fail, Holding, Counted
  <2>3. QED
    BY <2>1, <2>2
<1>5. CASE CancelCtx \/ Propagate \/ LoopEnds \/ Wait \/ UNCHANGED vars
  <2>1. sem' = sem /\ wg' = wg /\ job' = job
    BY <1>5 DEF CancelCtx, Propagate, LoopEnds, Wait, vars, groupVars
  <2>2. QED
    BY <2>1 DEF Holding, Counted
<1>6. QED
  BY <1>1, <1>2, <1>3, <1>4, <1>5 DEF Next, Call, Job

(* A step keeps the types.                                                  *)
LEMMA TypesKept ==
  ASSUME TypeOK, Progress, [Next]_vars
  PROVE  TypeOK'
<1> USE FetchAssumption
<1>1. sem' = Cardinality(Holding') /\ wg' = Cardinality(Counted')
  BY CountersKept
<1>2. CASE Go
  BY <1>1, <1>2 DEF TypeOK, Go, Urls
<1>3. ASSUME NEW u \in Urls, Job(u) PROVE TypeOK'
  BY <1>1, <1>3 DEF TypeOK, Job, FetchEnds, Check, Fail, Release, Leave, groupVars
<1>4. CASE CancelCtx \/ Propagate
  BY <1>1, <1>4 DEF TypeOK, CancelCtx, Propagate, groupVars
<1>5. CASE LoopEnds \/ Wait \/ UNCHANGED vars
  BY <1>1, <1>5 DEF TypeOK, LoopEnds, Wait, vars
<1>6. QED
  BY <1>2, <1>3, <1>4, <1>5 DEF Next, Call

(* A step keeps what the progress of the goroutines says.                   *)
LEMMA ProgressKept ==
  ASSUME TypeOK, Progress, [Next]_vars
  PROVE  Progress'
<1> USE FetchAssumption DEF TypeOK
<1>0. sem \in Nat /\ wg \in Nat /\ (wg = 0 => Counted = {})
  BY CountersAreNumbers
<1>1. CASE Go
  BY <1>0, <1>1 DEF Progress, Go, Slot, Urls
<1>2. ASSUME NEW u \in Urls, Job(u) PROVE Progress'
  <2>1. job[u] # "none" /\ job'[u] # "none"
    BY <1>2 DEF Job, FetchEnds, Check, Fail, Release, Leave
  <2>2. wg # 0
    <3>1. u \in Counted
      BY <1>2 DEF Job, FetchEnds, Check, Fail, Release, Leave, Counted, Holding
    <3>2. QED
      BY <1>0, <3>1
  <2>3. QED
    BY <1>0, <1>2, <2>1, <2>2
       DEF Progress, Job, FetchEnds, Check, Fail, Release, Leave, groupVars
<1>3. CASE CancelCtx \/ Propagate
  BY <1>3 DEF Progress, CancelCtx, Propagate, groupVars
<1>4. CASE LoopEnds \/ Wait \/ UNCHANGED vars
  BY <1>4 DEF Progress, LoopEnds, Wait, vars
<1>5. QED
  BY <1>1, <1>2, <1>3, <1>4 DEF Next, Call

(* A step keeps a cancellation on its way.                                  *)
LEMMA CancelingKept ==
  ASSUME TypeOK, Progress, Canceling, [Next]_vars
  PROVE  Canceling'
<1> USE FetchAssumption DEF TypeOK
<1>0. wg = 0 => Counted = {}
  BY CountersAreNumbers
<1>1. CASE Go
  BY <1>1 DEF Canceling, Go
<1>2. ASSUME NEW u \in Urls, Job(u) PROVE Canceling'
  <2>1. main # "returned"
    BY <1>0, <1>2 DEF Progress, Job, FetchEnds, Check, Fail, Release, Leave,
                      Counted, Holding
  <2>2. CASE FetchEnds(u)
    BY <2>1, <2>2 DEF Canceling, FetchEnds, groupVars
  <2>3. CASE Check(u)
    BY <2>1, <2>3 DEF Canceling, Check, groupVars
  <2>4. CASE Fail(u)
    BY <2>1, <2>4 DEF Canceling, Fail, groupVars
  <2>5. CASE Release(u) \/ Leave(u)
    BY <2>1, <2>5 DEF Canceling, Release, Leave
  <2>6. QED
    BY <1>2, <2>2, <2>3, <2>4, <2>5 DEF Job
<1>3. CASE CancelCtx
  BY <1>3 DEF Canceling, CancelCtx, groupVars
<1>4. CASE Propagate
  BY <1>4 DEF Canceling, Propagate, groupVars, Unchecked
<1>5. CASE Wait
  BY <1>5 DEF Canceling, Wait
<1>6. CASE LoopEnds \/ UNCHANGED vars
  BY <1>6 DEF Canceling, LoopEnds, vars
<1>7. QED
  BY <1>1, <1>2, <1>3, <1>4, <1>5, <1>6 DEF Next, Call

LEMMA Invariance == Spec => []IInv
<1>1. IInv /\ [Next]_vars => IInv'
  BY TypesKept, ProgressKept, CancelingKept DEF IInv
<1>2. QED
  BY <1>1, InitIInv, PTL DEF Spec

(* Types; the semaphore and the wait group of errgroup count the goroutines *)
(* that are in the group.                                                   *)
THEOREM TypeCorrect == Spec => []TypeOK
<1>1. IInv => TypeOK
  BY DEF IInv
<1>2. QED
  BY <1>1, Invariance, PTL

(* At most Limit fetches run at once (task.md:10).                          *)
THEOREM LimitIsKept == Spec => []LimitKept
<1>1. ASSUME IInv PROVE LimitKept
  <2> DEFINE F == {u \in Urls : job[u] = "fetch"}
  <2>1. F \subseteq Holding
    BY DEF Holding
  <2>2. IsFiniteSet(Holding) /\ sem = Cardinality(Holding) /\ sem <= Limit
    BY <1>1, CountersAreNumbers DEF IInv, TypeOK, Progress
  <2>3. Cardinality(F) \in Nat /\ Cardinality(F) <= Cardinality(Holding)
    BY <2>1, <2>2, FS_Subset, FS_CardinalityType
  <2>4. sem \in Nat /\ Limit \in Nat
    BY <1>1, CountersAreNumbers, FetchAssumption DEF IInv
  <2>5. QED
    BY <2>2, <2>3, <2>4 DEF LimitKept
<1>2. QED
  BY <1>1, Invariance, PTL

(* A call that has returned has every outcome in its place and leaves no    *)
(* goroutine behind.                                                        *)
THEOREM NothingLeft == Spec => []AllThere
<1>1. ASSUME IInv PROVE AllThere
  <2>1. main = "returned" => Counted = {} /\ next = Count + 1
    BY <1>1, CountersAreNumbers DEF IInv, Progress
  <2>2. ASSUME main = "returned", NEW u \in Urls
        PROVE  results[u] # "none" /\ job[u] = "left"
    <3>1. job[u] # "none"
      BY <1>1, <2>1, <2>2, FetchAssumption DEF IInv, Progress, Urls
    <3>2. job[u] = "left"
      BY <1>1, <2>1, <2>2, <3>1 DEF IInv, TypeOK, Counted, Holding
    <3>3. QED
      BY <1>1, <3>2 DEF IInv, Progress
  <2>3. QED
    BY <2>2 DEF AllThere
<1>2. QED
  BY <1>1, Invariance, PTL

(* The call fails only if ctx was cancelled, never for a fetch (task.md:12).*)
THEOREM FailsOnlyCancelled == Spec => []OnlyCancelFails
<1>1. IInv => OnlyCancelFails
  BY DEF IInv, TypeOK, Canceling, OnlyCancelFails
<1>2. QED
  BY <1>1, Invariance, PTL

(* A cancellation that reached the group while a fetch was yet to be weighed *)
(* against it is reported by the call (main.go:18).                         *)
THEOREM CancelIsReported == Spec => []CancelReported
<1>1. ASSUME IInv, main = "returned", inTime PROVE retErr = "canceled"
  <2>1. Counted = {} /\ next = Count + 1
    BY <1>1, CountersAreNumbers DEF IInv, Progress
  <2>2. \A u \in Urls : job[u] \notin {"none", "fetch", "check", "fail"}
    BY <1>1, <2>1, FetchAssumption DEF IInv, Progress, Urls, Counted, Holding
  <2>3. QED
    BY <1>1, <2>2 DEF IInv, Canceling
<1>2. IInv => CancelReported
  BY <1>1 DEF CancelReported
<1>3. QED
  BY <1>2, Invariance, PTL

(* Together: the error of the call speaks of ctx and of nothing else.       *)
THEOREM FailsOnCancelAlone == Spec => []FailsIfCancelled
<1>1. OnlyCancelFails /\ CancelReported => FailsIfCancelled
  BY DEF FailsIfCancelled
<1>2. QED
  BY <1>1, FailsOnlyCancelled, CancelIsReported, PTL
=============================================================================
