------------------------------ MODULE FlowsProofs ------------------------------
(***************************************************************************)
(* Proofs about Flows, for any calls, numbers of values, lists, ports and  *)
(* workers: what the composition lets FanOutFanIn, Pipeline, PortScanner   *)
(* and PingPong do keeps the promise of each.  One inductive invariant per *)
(* component, and what every step of the composition is to it at the end.  *)
(***************************************************************************)
EXTENDS Flows, FiniteSetTheorems, FunctionTheorems, SequenceTheorems,
        NaturalsInduction, WellFoundedInduction, TLAPS

(* The least element of a set of numbers, by which the proofs below go      *)
(* through the ports, the numbers of a list and the places of a queue.      *)
Less == {p \in Nat \X Nat : p[1] < p[2]}

LEMMA LessWF == IsWellFoundedOn(Less, Nat)
<1>1. OpToRel(<, Nat) = Less
  BY DEF OpToRel, Less
<1>2. QED
  BY <1>1, NatLessThanWellFounded

LEMMA NatMin ==
  ASSUME NEW T, T \subseteq Nat, T # {}
  PROVE \E x \in T : \A y \in T : x <= y
<1>1. \E x \in T : \A y \in T : ~(<<y, x>> \in Less)
  BY WFMin, LessWF
<1>2. \A x, y \in Nat : <<y, x>> \in Less <=> y < x
  BY DEF Less
<1>3. QED
  <2>1. PICK x \in T : \A y \in T : ~(<<y, x>> \in Less)
    BY <1>1
  <2>2. ASSUME NEW y \in T PROVE x <= y
    <3>1. x \in Nat /\ y \in Nat
      OBVIOUS
    <3>2. ~(<<y, x>> \in Less)
      BY <2>1
    <3>3. ~(y < x)
      BY <3>1, <3>2, <1>2
    <3>4. QED
      BY <3>1, <3>3
  <2>3. QED
    BY <2>2

-----------------------------------------------------------------------------
(* FanOutFanIn.  A value is with the goroutine of FanOut, with one of FanIn *)
(* or collected; the channels take turns, so each is as far as its turn.    *)

FanShape ==
  /\ n \in Nat \ {0}
  /\ produced \in 0..Values /\ inClosed \in BOOLEAN
  /\ dealer \in {"recv", "send", "close", "ended"}
  /\ i \in Nat
  /\ fanClosed \subseteq FAN!Chans
  /\ dealt \in [FAN!Chans -> Seq(Nat)]
  /\ worker \in [FAN!Chans -> {"recv", "send", "ended"}]
  /\ carry \in [FAN!Chans -> Nat]
  /\ collected \in Seq(Nat)
  /\ outClosed \in BOOLEAN

(* The goroutines of FanIn that have not ended, and those with a value.     *)
Busy == {c \in FAN!Chans : worker[c] # "ended"}
Sending == {c \in FAN!Chans : worker[c] = "send"}

(* How far everybody is; what has been produced is counted where it is.     *)
Progress ==
  /\ fanHand = IF dealer = "send" THEN i + 1 ELSE 0
  /\ produced = IF dealer = "send" THEN i + 1 ELSE i
  /\ i = Len(collected) + Cardinality(Sending)
  /\ inClosed => produced = Values
  /\ dealer \in {"close", "ended"} => inClosed
  /\ fanClosed # {} => dealer \in {"close", "ended"}
  /\ \A c \in FAN!Chans : worker[c] = "send" <=> carry[c] # 0
  /\ reader = "fan_in" => \A c \in FAN!Chans : worker[c] = "ended" => c \in fanClosed
  /\ running = Cardinality(Busy)
  /\ outClosed => reader = "fan_in" /\ Busy = {}

(* A channel is as many rounds behind as its turn to come says.             *)
Turns ==
  \A c \in FAN!Chans :
    /\ i <= c + Len(dealt[c]) * n /\ c + Len(dealt[c]) * n < i + n
    /\ \A k \in 1..Len(dealt[c]) : dealt[c][k] = c + 1 + (k - 1) * n

(* Nobody has what another has, and every value is with somebody.           *)
Apart ==
  /\ \A c \in FAN!Chans : carry[c] <= i
  /\ \A k \in 1..Len(collected) : collected[k] \in 1..i
  /\ \A c, d \in FAN!Chans : c # d /\ carry[c] # 0 => carry[c] # carry[d]
  /\ \A j, k \in 1..Len(collected) : j # k => collected[j] # collected[k]
  /\ \A c \in FAN!Chans, k \in 1..Len(collected) : carry[c] # collected[k]
  /\ \A v \in 1..i : \/ \E c \in FAN!Chans : carry[c] = v
                     \/ \E k \in 1..Len(collected) : collected[k] = v

FanInv == FanShape /\ Progress /\ Turns /\ Apart

LEMMA ChansFinite ==
  ASSUME FanShape
  PROVE  /\ IsFiniteSet(FAN!Chans) /\ Cardinality(FAN!Chans) = n
         /\ IsFiniteSet(Busy) /\ Cardinality(Busy) \in Nat
         /\ IsFiniteSet(Sending) /\ Cardinality(Sending) \in Nat
<1>1. n \in Nat /\ n - 1 \in Int /\ FAN!Chans = 0..(n - 1) /\ 0 <= n - 1
  BY DEF FanShape, FAN!Chans
<1>2. IsFiniteSet(FAN!Chans) /\ Cardinality(FAN!Chans) = n
  BY <1>1, FS_Interval
<1>3. Busy \subseteq FAN!Chans /\ Sending \subseteq FAN!Chans
  BY DEF Busy, Sending
<1>4. QED
  BY <1>2, <1>3, FS_Subset, FS_CardinalityType

LEMMA RestOf ==
  ASSUME NEW N \in Nat \ {0}, NEW c \in 0..(N - 1), NEW L \in Nat
  PROVE  (c + L * N) % N = c
OBVIOUS

(* In which channel's turn the k-th value is, and the turn in which channel *)
(* c is when it has had L.                                                  *)
Rest(k, N) == k % N
Rounds(c, L, N) == c + L * N

(* A channel's next turn is the k-th, or comes up before its channel is the *)
(* k-th's again: only then it is that turn.                                 *)
LEMMA TurnOf ==
  ASSUME NEW N \in Nat \ {0}, NEW k \in Nat, NEW c \in 0..(N - 1), NEW L \in Nat,
         k <= Rounds(c, L, N), Rounds(c, L, N) < k + N
  PROVE  Rest(k, N) = c <=> k = Rounds(c, L, N)
<1> DEFINE e == c + L * N - k
<1>1. e \in 0..(N - 1) /\ L * N \in Nat /\ k = c + L * N - e
  BY DEF Rounds
<1> HIDE DEF e
<1>2. CASE e = 0
  BY <1>1, <1>2, RestOf DEF Rest, Rounds
<1>3. CASE e # 0 /\ e <= c
  <2>1. c - e \in 0..(N - 1) /\ k = (c - e) + L * N
    BY <1>1, <1>3
  <2>2. Rest(k, N) = c - e
    BY <2>1, RestOf DEF Rest
  <2>3. QED
    BY <1>1, <1>3, <2>1, <2>2 DEF Rounds
<1>4. CASE e > c
  <2>1. L # 0
    BY <1>1, <1>4
  <2>2. (L - 1) * N = L * N - N /\ L - 1 \in Nat
    BY <2>1
  <2>3. c - e + N \in 0..(N - 1) /\ k = (c - e + N) + (L - 1) * N
    BY <1>1, <1>4, <2>2
  <2>4. Rest(k, N) = c - e + N
    BY <2>2, <2>3, RestOf DEF Rest
  <2>5. QED
    BY <1>1, <1>4, <2>3, <2>4 DEF Rounds
<1>5. QED
  BY <1>1, <1>2, <1>3, <1>4

LEMMA FanInit == FAN!Init => FanInv
<1> SUFFICES ASSUME FAN!Init PROVE FanInv
  OBVIOUS
<1> USE DEF FAN!Init, FAN!Nobody
<1>1. n \in Nat \ {0} /\ Values \in Nat
  BY UsesAssumption
<1>2. FAN!Chans = 0..(n - 1)
  BY DEF FAN!Chans
<1>3. FanShape
  <2>1. <<>> \in Seq(Nat) /\ 0 \in 0..Values
    BY <1>1
  <2>2. /\ dealt \in [FAN!Chans -> Seq(Nat)] /\ carry \in [FAN!Chans -> Nat]
        /\ worker \in [FAN!Chans -> {"recv", "send", "ended"}]
    BY <2>1
  <2>3. QED
    BY <1>1, <2>1, <2>2 DEF FanShape
<1>4. Progress
  <2>1. Sending = {} /\ Cardinality({}) = 0
    BY FS_EmptySet DEF Sending
  <2>2. Busy = IF reader = "fan_in" THEN FAN!Chans ELSE {}
    BY DEF Busy
  <2>3. running = Cardinality(Busy)
    BY <1>3, <2>1, <2>2, ChansFinite
  <2>4. Len(collected) = 0 /\ i = 0
    OBVIOUS
  <2>5. QED
    BY <1>1, <2>1, <2>3, <2>4 DEF Progress
<1>5. Turns
  <2>1. ASSUME NEW c \in FAN!Chans
        PROVE  dealt[c] = <<>> /\ Len(dealt[c]) * n = 0 /\ c \in Nat /\ c < n
    BY <1>1, <1>2
  <2>2. QED
    BY <1>1, <2>1 DEF Turns
<1>6. Apart
  BY DEF Apart
<1>7. QED
  BY <1>3, <1>4, <1>5, <1>6 DEF FanInv

(* FanOut's side of passing a value on: it is the next turn's.              *)
LEMMA DealTurns ==
  ASSUME FanShape, Turns, fanHand = i + 1, NEW c, FAN!Deal(c), n' = n
  PROVE  c \in FAN!Chans /\ Turns' /\ dealt' \in [FAN!Chans -> Seq(Nat)]
<1>1. /\ n \in Nat \ {0} /\ i \in Nat /\ FAN!Chans = 0..(n - 1) /\ FAN!Chans' = FAN!Chans
      /\ c \in 0..(n - 1) /\ i' = i + 1
      /\ dealt' = [dealt EXCEPT ![c] = Append(dealt[c], i + 1)]
  BY DEF FanShape, FAN!Deal, FAN!Channel, FAN!Chans
<1>2. c = i % n
  BY DEF FAN!Deal, FAN!Channel
<1>3. ASSUME NEW d \in FAN!Chans
      PROVE  dealt[d] \in Seq(Nat) /\ Len(dealt[d]) \in Nat /\ Len(dealt[d]) * n \in Nat
  BY <1>1, LenProperties DEF FanShape
<1>4. /\ Append(dealt[c], i + 1) \in Seq(Nat)
      /\ Len(Append(dealt[c], i + 1)) = Len(dealt[c]) + 1
      /\ \A k \in 1..Len(dealt[c]) : Append(dealt[c], i + 1)[k] = dealt[c][k]
      /\ Append(dealt[c], i + 1)[Len(dealt[c]) + 1] = i + 1
  BY <1>1, <1>3, AppendProperties
<1>5. ASSUME NEW d \in FAN!Chans
      PROVE  i % n = d <=> i = d + Len(dealt[d]) * n
  <2> DEFINE L == Len(dealt[d])
  <2>1. n \in Nat \ {0}
    BY <1>1
  <2>2. i \in Nat
    BY <1>1
  <2>3. d \in 0..(n - 1)
    BY <1>1
  <2>4. L \in Nat
    BY <1>3
  <2>5. i <= Rounds(d, L, n) /\ Rounds(d, L, n) < i + n
    BY DEF Turns, Rounds
  <2> HIDE DEF L
  <2>6. Rest(i, n) = d <=> i = Rounds(d, L, n)
    BY <2>1, <2>2, <2>3, <2>4, <2>5, TurnOf
  <2>7. QED
    BY <2>6 DEF L, Rest, Rounds
<1>6. i = c + Len(dealt[c]) * n
  BY <1>1, <1>2, <1>5
<1>7. ASSUME NEW d \in FAN!Chans
      PROVE  /\ i' <= d + Len(dealt'[d]) * n /\ d + Len(dealt'[d]) * n < i' + n
             /\ \A k \in 1..Len(dealt'[d]) : dealt'[d][k] = d + 1 + (k - 1) * n
  <2> DEFINE L == Len(dealt[d])
             P == L * n
  <2>1. L \in Nat /\ P \in Nat /\ d \in 0..(n - 1)
    BY <1>1, <1>3
  <2>2. i <= d + P /\ d + P < i + n /\ \A k \in 1..L : dealt[d][k] = d + 1 + (k - 1) * n
    BY DEF Turns
  <2>3. CASE d = c
    <3>1. /\ dealt'[d] = Append(dealt[c], i + 1) /\ Len(dealt'[d]) = L + 1
          /\ \A k \in 1..L : dealt'[d][k] = dealt[d][k]
          /\ dealt'[d][L + 1] = i + 1
      BY <1>1, <1>4, <2>3 DEF FanShape
    <3>2. (L + 1) * n = P + n /\ ((L + 1) - 1) * n = P
      BY <1>1, <2>1
    <3>3. \A k \in 1..(L + 1) : k \in 1..L \/ k = L + 1
      BY <2>1
    <3>4. i = c + P
      BY <1>6, <2>3
    <3> HIDE DEF L, P
    <3>5. \A k \in 1..(L + 1) : dealt'[d][k] = d + 1 + (k - 1) * n
      <4>1. dealt'[d][L + 1] = d + 1 + ((L + 1) - 1) * n
        <5>1. i + 1 = d + 1 + P
          BY <1>1, <2>1, <2>3, <3>4
        <5>2. QED
          BY <3>1, <3>2, <5>1
      <4>2. \A k \in 1..L : dealt'[d][k] = d + 1 + (k - 1) * n
        BY <2>2, <3>1
      <4>3. QED
        BY <3>3, <4>1, <4>2
    <3>6. i + 1 <= d + (P + n) /\ d + (P + n) < (i + 1) + n
      BY <1>1, <2>1, <2>3, <3>4
    <3>7. QED
      BY <1>1, <3>1, <3>2, <3>5, <3>6
  <2>4. CASE d # c
    <3>1. dealt'[d] = dealt[d]
      BY <1>1, <2>4 DEF FanShape
    <3>2. Len(dealt'[d]) * n = P
      BY <3>1
    <3>4. i # d + P
      BY <1>2, <1>5, <2>4
    <3> HIDE DEF L, P
    <3>5. i + 1 <= d + P /\ d + P < (i + 1) + n
      BY <1>1, <2>1, <2>2, <3>4
    <3>6. \A k \in 1..Len(dealt'[d]) : dealt'[d][k] = d + 1 + (k - 1) * n
      BY <2>2, <3>1 DEF L
    <3>7. QED
      BY <1>1, <3>2, <3>5, <3>6
  <2>5. QED
    BY <2>3, <2>4
<1>8. dealt' \in [FAN!Chans -> Seq(Nat)]
  BY <1>1, <1>4 DEF FanShape
<1>9. QED
  BY <1>1, <1>7, <1>8 DEF Turns

(* Steps that pass no value on leave turns, hands and what is collected.    *)
LEMMA NothingPassed ==
  ASSUME FanInv, UNCHANGED <<n, reader, i, dealt, carry, collected>>
  PROVE  Turns' /\ Apart' /\ FAN!Chans' = FAN!Chans
<1>1. FAN!Chans' = FAN!Chans
  BY DEF FAN!Chans
<1>2. Turns'
  BY <1>1 DEF FanInv, Turns
<1>3. Apart'
  BY <1>1 DEF FanInv, Apart
<1>4. QED
  BY <1>1, <1>2, <1>3

(* The producer, FanOut's last steps and the caller's.                      *)
LEMMA SidesKeep ==
  ASSUME FanInv, UNCHANGED <<n, reader>>,
         FAN!Produce \/ FAN!CloseIn \/ FAN!DealerEnds \/ FAN!CloseOuts
           \/ FAN!CloseOut \/ FAN!CallerEnds \/ FAN!CallerMoves
  PROVE  FanInv'
<1> USE DEF FanInv, FAN!producerVars, FAN!fanOutVars, FAN!fanInVars, FAN!callerVars
<1>1. UNCHANGED <<i, dealt, worker, carry, running, collected>>
  BY DEF FAN!Produce, FAN!CloseIn, FAN!DealerEnds, FAN!CloseOuts, FAN!CloseOut,
         FAN!CallerEnds, FAN!CallerMoves
<1>2. Turns' /\ Apart' /\ FAN!Chans' = FAN!Chans
  BY <1>1, NothingPassed
<1>3. Busy' = Busy /\ Sending' = Sending
  BY <1>1, <1>2 DEF Busy, Sending
<1>4. Busy = {} <=> running = 0
  BY ChansFinite, FS_EmptySet DEF Progress
<1>5. FanShape' /\ Progress'
  <2>1. CASE FAN!Produce
    BY <1>1, <1>2, <1>3, <2>1, UsesAssumption DEF FAN!Produce, FanShape, Progress
  <2>2. CASE FAN!CloseIn
    BY <1>1, <1>2, <1>3, <2>2 DEF FAN!CloseIn, FanShape, Progress
  <2>3. CASE FAN!DealerEnds
    BY <1>1, <1>2, <1>3, <2>3 DEF FAN!DealerEnds, FanShape, Progress
  <2>4. CASE FAN!CloseOuts
    BY <1>1, <1>2, <1>3, <2>4 DEF FAN!CloseOuts, FanShape, Progress
  <2>5. CASE FAN!CloseOut
    BY <1>1, <1>2, <1>3, <1>4, <2>5 DEF FAN!CloseOut, FanShape, Progress
  <2>6. CASE FAN!CallerEnds \/ FAN!CallerMoves
    BY <1>1, <1>2, <1>3, <2>6 DEF FAN!CallerEnds, FAN!CallerMoves, FanShape, Progress
  <2>7. QED
    BY <2>1, <2>2, <2>3, <2>4, <2>5, <2>6
<1>6. QED
  BY <1>2, <1>5

LEMMA WorkerTakesKeeps ==
  ASSUME FanInv, UNCHANGED <<n, reader>>, NEW c \in FAN!Chans, FAN!WorkerTakes(c)
  PROVE  FanInv'
<1> USE DEF FanInv, FAN!producerVars, FAN!callerVars
<1>1. /\ dealer = "send" /\ dealer' = "recv" /\ fanHand = i + 1 /\ fanHand' = 0 /\ i' = i + 1
      /\ worker[c] = "recv" /\ worker' = [worker EXCEPT ![c] = "send"]
      /\ carry' = [carry EXCEPT ![c] = i + 1]
      /\ i \in Nat /\ n \in Nat \ {0}
      /\ UNCHANGED <<produced, inClosed, fanClosed, running, outClosed, collected>>
  BY DEF FAN!WorkerTakes, FAN!Deal, FAN!Nobody, Progress, FanShape
<1>2. FAN!Chans' = FAN!Chans /\ c \notin fanClosed
  BY DEF FAN!Chans, FAN!WorkerTakes, FAN!Deal
<1>3. Turns' /\ dealt' \in [FAN!Chans -> Seq(Nat)]
  BY <1>1, DealTurns DEF FAN!WorkerTakes
<1>4. FanShape'
  <2>1. i + 1 \in Nat
    BY <1>1
  <2>2. /\ worker' \in [FAN!Chans -> {"recv", "send", "ended"}]
        /\ carry' \in [FAN!Chans -> Nat]
    BY <1>1, <2>1 DEF FanShape
  <2>3. QED
    BY <1>1, <1>2, <1>3, <2>1, <2>2 DEF FanShape
<1>5. /\ \A d \in FAN!Chans : worker'[d] = IF d = c THEN "send" ELSE worker[d]
      /\ \A d \in FAN!Chans : carry'[d] = IF d = c THEN i + 1 ELSE carry[d]
  BY <1>1 DEF FanShape
<1>6. Progress'
  <2>1. Busy' = Busy
    BY <1>1, <1>2, <1>5 DEF Busy
  <2>2. Sending' = Sending \cup {c} /\ c \notin Sending
    BY <1>1, <1>2, <1>5 DEF Sending
  <2>3. Cardinality(Sending') = Cardinality(Sending) + 1
    BY <2>2, ChansFinite, FS_AddElement
  <2>4. i = Len(collected) + Cardinality(Sending) /\ Len(collected) \in Nat
    BY LenProperties DEF Progress, FanShape
  <2>5. i' = Len(collected) + Cardinality(Sending')
    BY <1>1, <2>3, <2>4, ChansFinite
  <2>6. \A d \in FAN!Chans : worker'[d] = "send" <=> carry'[d] # 0
    BY <1>1, <1>5 DEF Progress
  <2>7. QED
    BY <1>1, <1>2, <1>5, <2>1, <2>5, <2>6 DEF Progress
<1>7. Apart'
  <2>1. \A d \in FAN!Chans : carry[d] \in Nat /\ carry[d] <= i
    BY DEF Apart, FanShape
  <2>2. \A v \in 1..(i + 1) : v \in 1..i \/ v = i + 1
    BY <1>1
  <2>3. \A k \in 1..Len(collected) : collected[k] \in 1..i /\ collected[k] \in 1..(i + 1)
    BY <1>1 DEF Apart
  <2>4. \A v \in 1..(i + 1) : \/ \E d \in FAN!Chans : carry'[d] = v
                              \/ \E k \in 1..Len(collected) : collected[k] = v
    <3>1. ASSUME NEW v \in 1..i
          PROVE  \/ \E d \in FAN!Chans : carry'[d] = v
                 \/ \E k \in 1..Len(collected) : collected[k] = v
      <4>1. carry[c] # v
        BY <1>1, <3>1 DEF Progress
      <4>2. QED
        BY <1>5, <4>1 DEF Apart
    <3>2. QED
      BY <1>5, <2>2, <3>1
  <2>5. /\ \A d \in FAN!Chans : carry'[d] <= i + 1
        /\ \A d, e \in FAN!Chans : d # e /\ carry'[d] # 0 => carry'[d] # carry'[e]
        /\ \A d \in FAN!Chans, k \in 1..Len(collected) : carry'[d] # collected[k]
    <3>1. i + 1 \in Nat /\ ~(i + 1 <= i) /\ i + 1 \notin 1..i
      BY <1>1
    <3>2. \A d \in FAN!Chans : carry'[d] <= i + 1
      BY <1>1, <1>5, <2>1
    <3>3. \A d, e \in FAN!Chans : d # e /\ carry'[d] # 0 => carry'[d] # carry'[e]
      BY <1>5, <2>1, <3>1 DEF Apart
    <3>4. \A d \in FAN!Chans, k \in 1..Len(collected) : carry'[d] # collected[k]
      BY <1>5, <2>3, <3>1 DEF Apart
    <3>5. QED
      BY <3>2, <3>3, <3>4
  <2>6. QED
    BY <1>1, <1>2, <2>3, <2>4, <2>5 DEF Apart
<1>8. QED
  BY <1>3, <1>4, <1>6, <1>7

(* A value that one hand gives up is collected.                             *)
LEMMA CollectKeeps ==
  ASSUME NEW line \in Seq(Nat), NEW m \in Nat,
         \A k \in 1..Len(line) : line[k] # m,
         \A j, k \in 1..Len(line) : j # k => line[j] # line[k]
  PROVE  /\ Append(line, m) \in Seq(Nat) /\ Len(Append(line, m)) = Len(line) + 1
         /\ Len(line) \in Nat
         /\ \A v : (\E k \in 1..Len(Append(line, m)) : Append(line, m)[k] = v)
                     <=> v = m \/ \E k \in 1..Len(line) : line[k] = v
         /\ \A k \in 1..Len(Append(line, m)) :
              Append(line, m)[k] = m \/ \E j \in 1..Len(line) : line[j] = Append(line, m)[k]
         /\ \A j, k \in 1..Len(Append(line, m)) :
              j # k => Append(line, m)[j] # Append(line, m)[k]
<1>1. /\ Append(line, m) \in Seq(Nat) /\ Len(Append(line, m)) = Len(line) + 1
      /\ Len(line) \in Nat
      /\ \A k \in 1..Len(line) : Append(line, m)[k] = line[k]
      /\ Append(line, m)[Len(line) + 1] = m
  BY AppendProperties, LenProperties
<1>2. /\ \A k \in 1..(Len(line) + 1) : k \in 1..Len(line) \/ k = Len(line) + 1
      /\ 1..Len(line) \subseteq 1..(Len(line) + 1)
      /\ Len(line) + 1 \in 1..(Len(line) + 1)
  BY <1>1
<1>3. QED
  BY <1>1, <1>2

LEMMA WorkerSendsKeeps ==
  ASSUME FanInv, UNCHANGED <<n, reader>>, NEW c \in FAN!Chans, FAN!WorkerSends(c)
  PROVE  FanInv'
<1> USE DEF FanInv, FAN!producerVars, FAN!fanOutVars
<1>1. ~outClosed /\ worker[c] = "send"
  BY DEF FAN!WorkerSends, Progress, Busy
<1>2. /\ collected' = Append(collected, carry[c])
      /\ worker' = [worker EXCEPT ![c] = "recv"] /\ carry' = [carry EXCEPT ![c] = 0]
      /\ UNCHANGED <<produced, inClosed, dealer, fanHand, i, fanClosed, dealt, running, outClosed>>
      /\ FAN!Chans' = FAN!Chans
  BY <1>1 DEF FAN!WorkerSends, FAN!Nobody, FAN!Chans
<1>3. /\ \A d \in FAN!Chans : worker'[d] = IF d = c THEN "recv" ELSE worker[d]
      /\ \A d \in FAN!Chans : carry'[d] = IF d = c THEN 0 ELSE carry[d]
  BY <1>2 DEF FanShape
<1>4. carry[c] \in 1..i /\ carry[c] \in Nat /\ i \in Nat
  BY <1>1 DEF FanShape, Progress, Apart
<1>5. /\ collected' \in Seq(Nat) /\ Len(collected') = Len(collected) + 1
      /\ Len(collected) \in Nat
      /\ \A v : (\E k \in 1..Len(collected') : collected'[k] = v)
                  <=> v = carry[c] \/ \E k \in 1..Len(collected) : collected[k] = v
      /\ \A k \in 1..Len(collected') :
           collected'[k] = carry[c] \/ \E j \in 1..Len(collected) : collected[j] = collected'[k]
      /\ \A j, k \in 1..Len(collected') : j # k => collected'[j] # collected'[k]
  <2>1. collected \in Seq(Nat)
    BY DEF FanShape
  <2>2. \A k \in 1..Len(collected) : collected[k] # carry[c]
    BY DEF Apart
  <2>3. \A j, k \in 1..Len(collected) : j # k => collected[j] # collected[k]
    BY DEF Apart
  <2>4. QED
    <3> DEFINE v == carry[c]
    <3>1. v \in Nat /\ (\A k \in 1..Len(collected) : collected[k] # v)
      BY <1>4, <2>2
    <3>2. collected' = Append(collected, v)
      BY <1>2
    <3> HIDE DEF v
    <3>3. /\ Append(collected, v) \in Seq(Nat)
          /\ Len(Append(collected, v)) = Len(collected) + 1
          /\ Len(collected) \in Nat
          /\ \A x : (\E k \in 1..Len(Append(collected, v)) : Append(collected, v)[k] = x)
                      <=> x = v \/ \E k \in 1..Len(collected) : collected[k] = x
          /\ \A k \in 1..Len(Append(collected, v)) :
               \/ Append(collected, v)[k] = v
               \/ \E j \in 1..Len(collected) : collected[j] = Append(collected, v)[k]
          /\ \A j, k \in 1..Len(Append(collected, v)) :
               j # k => Append(collected, v)[j] # Append(collected, v)[k]
      BY <2>1, <2>3, <3>1, CollectKeeps, Zenon
    <3>4. QED
      BY <3>2, <3>3, Zenon DEF v
<1>6. FanShape'
  BY <1>2, <1>5 DEF FanShape
<1>7. Turns'
  BY <1>2 DEF Turns
<1>8. Progress'
  <2>1. Busy' = Busy
    BY <1>1, <1>2, <1>3 DEF Busy
  <2>2. Sending' = Sending \ {c} /\ c \in Sending
    BY <1>1, <1>2, <1>3 DEF Sending
  <2>3. Cardinality(Sending') = Cardinality(Sending) - 1
    BY <2>2, ChansFinite, FS_RemoveElement
  <2>4. i' = Len(collected') + Cardinality(Sending')
    BY <1>2, <1>5, <2>3, ChansFinite DEF Progress
  <2>5. \A d \in FAN!Chans : worker'[d] = "send" <=> carry'[d] # 0
    BY <1>3 DEF Progress
  <2>6. QED
    BY <1>1, <1>2, <1>3, <2>1, <2>4, <2>5 DEF Progress
<1>9. Apart'
  <2>1. \A k \in 1..Len(collected') : collected'[k] \in 1..i
    BY <1>4, <1>5 DEF Apart
  <2>2. \A d \in FAN!Chans, k \in 1..Len(collected') : carry'[d] # collected'[k]
    <3>1. \A d \in FAN!Chans : d # c => carry[d] # carry[c]
      BY <1>4 DEF Apart
    <3>2. \A k \in 1..Len(collected') :
             collected'[k] # 0 /\ \A d \in FAN!Chans : d # c => carry[d] # collected'[k]
      <4> SUFFICES ASSUME NEW k \in 1..Len(collected')
                   PROVE  /\ collected'[k] # 0
                          /\ \A d \in FAN!Chans : d # c => carry[d] # collected'[k]
        OBVIOUS
      <4>1. collected'[k] \in 1..i
        BY <2>1
      <4>2. collected'[k] = carry[c] \/ \E j \in 1..Len(collected) : collected[j] = collected'[k]
        BY <1>5
      <4>3. \A d \in FAN!Chans, j \in 1..Len(collected) : carry[d] # collected[j]
        BY DEF Apart
      <4>4. QED
        BY <3>1, <4>1, <4>2, <4>3, <1>4
    <3>3. QED
      BY <1>3, <3>2
  <2>3. \A v \in 1..i : \/ \E d \in FAN!Chans : carry'[d] = v
                        \/ \E k \in 1..Len(collected') : collected'[k] = v
    BY <1>3, <1>5 DEF Apart
  <2>4. \A d \in FAN!Chans : carry'[d] <= i
    BY <1>3, <1>4 DEF Apart
  <2>5. \A d, e \in FAN!Chans : d # e /\ carry'[d] # 0 => carry'[d] # carry'[e]
    BY <1>3 DEF Apart
  <2>6. i' = i /\ FAN!Chans' = FAN!Chans
    BY <1>2
  <2>7. \A j, k \in 1..Len(collected') : j # k => collected'[j] # collected'[k]
    BY <1>5
  <2>8. QED
    BY <2>1, <2>2, <2>3, <2>4, <2>5, <2>6, <2>7 DEF Apart
<1>10. QED
  BY <1>6, <1>7, <1>8, <1>9

LEMMA WorkerEndsKeeps ==
  ASSUME FanInv, UNCHANGED <<n, reader>>, NEW c \in FAN!Chans, FAN!WorkerEnds(c)
  PROVE  FanInv'
<1> USE DEF FanInv, FAN!producerVars, FAN!fanOutVars, FAN!callerVars
<1>1. /\ worker[c] = "recv" /\ c \in fanClosed /\ running' = running - 1
      /\ worker' = [worker EXCEPT ![c] = "ended"]
      /\ UNCHANGED <<produced, inClosed, dealer, fanHand, i, fanClosed, dealt, carry,
                     outClosed, collected>>
  BY DEF FAN!WorkerEnds
<1>2. Turns' /\ Apart' /\ FAN!Chans' = FAN!Chans
  BY <1>1, NothingPassed
<1>3. \A d \in FAN!Chans : worker'[d] = IF d = c THEN "ended" ELSE worker[d]
  BY <1>1 DEF FanShape
<1>4. FanShape'
  BY <1>1, <1>2 DEF FanShape
<1>5. Progress'
  <2>1. Busy' = Busy \ {c} /\ c \in Busy
    BY <1>1, <1>2, <1>3 DEF Busy
  <2>2. Sending' = Sending
    BY <1>1, <1>2, <1>3 DEF Sending
  <2>3. running' = Cardinality(Busy')
    BY <1>1, <2>1, ChansFinite, FS_RemoveElement DEF Progress
  <2>4. QED
    BY <1>1, <1>2, <1>3, <2>1, <2>2, <2>3 DEF Progress
<1>6. QED
  BY <1>2, <1>4, <1>5

LEMMA CallerTakesKeeps ==
  ASSUME FanInv, UNCHANGED <<n, reader>>, FAN!CallerTakes
  PROVE  FanInv'
<1> USE DEF FanInv, FAN!producerVars, FAN!fanInVars
<1>1. /\ dealer = "send" /\ dealer' = "recv" /\ fanHand = i + 1 /\ fanHand' = 0 /\ i' = i + 1
      /\ collected' = Append(collected, i + 1)
      /\ i \in Nat /\ i + 1 \in Nat /\ n \in Nat \ {0} /\ FAN!Deal(turn)
      /\ UNCHANGED <<produced, inClosed, fanClosed, worker, carry, running, outClosed>>
      /\ FAN!Chans' = FAN!Chans
  BY DEF FAN!CallerTakes, FAN!Deal, FAN!Nobody, FAN!Chans, Progress, FanShape
<1>2. Turns' /\ dealt' \in [FAN!Chans -> Seq(Nat)]
  BY <1>1, DealTurns
<1>3. i + 1 \notin 1..i /\ ~(i + 1 <= i) /\ 1..i \subseteq 1..(i + 1) /\ i + 1 # 0
      /\ \A v \in 1..(i + 1) : v \in 1..i \/ v = i + 1
  BY <1>1
<1>4. /\ collected' \in Seq(Nat) /\ Len(collected') = Len(collected) + 1
      /\ Len(collected) \in Nat
      /\ \A v : (\E k \in 1..Len(collected') : collected'[k] = v)
                  <=> v = i + 1 \/ \E k \in 1..Len(collected) : collected[k] = v
      /\ \A k \in 1..Len(collected') :
           collected'[k] = i + 1 \/ \E j \in 1..Len(collected) : collected[j] = collected'[k]
      /\ \A j, k \in 1..Len(collected') : j # k => collected'[j] # collected'[k]
  <2>1. \A k \in 1..Len(collected) : collected[k] # i + 1
    BY <1>3 DEF Apart
  <2>2. collected \in Seq(Nat)
    BY DEF FanShape
  <2>3. \A j, k \in 1..Len(collected) : j # k => collected[j] # collected[k]
    BY DEF Apart
  <2>4. QED
    <3> DEFINE v == i + 1
    <3>1. v \in Nat /\ (\A k \in 1..Len(collected) : collected[k] # v)
      BY <1>1, <2>1
    <3>2. collected' = Append(collected, v)
      BY <1>1
    <3> HIDE DEF v
    <3>3. /\ Append(collected, v) \in Seq(Nat)
          /\ Len(Append(collected, v)) = Len(collected) + 1
          /\ Len(collected) \in Nat
          /\ \A x : (\E k \in 1..Len(Append(collected, v)) : Append(collected, v)[k] = x)
                      <=> x = v \/ \E k \in 1..Len(collected) : collected[k] = x
          /\ \A k \in 1..Len(Append(collected, v)) :
               \/ Append(collected, v)[k] = v
               \/ \E j \in 1..Len(collected) : collected[j] = Append(collected, v)[k]
          /\ \A j, k \in 1..Len(Append(collected, v)) :
               j # k => Append(collected, v)[j] # Append(collected, v)[k]
      BY <2>2, <2>3, <3>1, CollectKeeps, Zenon
    <3>4. QED
      BY <3>2, <3>3, Zenon DEF v
<1>5. FanShape'
  BY <1>1, <1>2, <1>4 DEF FanShape
<1>6. Progress'
  <2>1. Busy' = Busy /\ Sending' = Sending
    BY <1>1 DEF Busy, Sending
  <2>2. i' = Len(collected') + Cardinality(Sending')
    BY <1>1, <1>4, <2>1, ChansFinite DEF Progress
  <2>3. QED
    BY <1>1, <2>1, <2>2 DEF Progress
<1>7. Apart'
  <2>1. \A k \in 1..Len(collected') : collected'[k] \in 1..(i + 1)
    BY <1>1, <1>3, <1>4 DEF Apart
  <2>2. \A d \in FAN!Chans, k \in 1..Len(collected') : carry[d] # collected'[k]
    BY <1>3, <1>4 DEF Apart
  <2>3. \A v \in 1..(i + 1) : \/ \E d \in FAN!Chans : carry[d] = v
                              \/ \E k \in 1..Len(collected') : collected'[k] = v
    BY <1>3, <1>4 DEF Apart
  <2>4. \A d \in FAN!Chans : carry[d] <= i + 1
    BY <1>1 DEF Apart, FanShape
  <2>5. i' = i + 1 /\ FAN!Chans' = FAN!Chans /\ carry' = carry
    BY <1>1
  <2>6. \A j, k \in 1..Len(collected') : j # k => collected'[j] # collected'[k]
    BY <1>4
  <2>7. \A d, e \in FAN!Chans : d # e /\ carry[d] # 0 => carry[d] # carry[e]
    BY DEF Apart
  <2>8. QED
    BY <2>1, <2>2, <2>3, <2>4, <2>5, <2>6, <2>7 DEF Apart
<1>8. QED
  BY <1>2, <1>5, <1>6, <1>7

LEMMA FanStep == FanInv /\ [FAN!Next]_(FAN!vars) => FanInv'
<1> SUFFICES ASSUME FanInv, [FAN!Next]_(FAN!vars) PROVE FanInv'
  OBVIOUS
<1>1. CASE FAN!Next
  <2>1. UNCHANGED <<n, reader>> /\ FAN!Step
    BY <1>1 DEF FAN!Next, FAN!useVars
  <2>2. QED
    BY <2>1, SidesKeep, WorkerTakesKeeps, WorkerSendsKeeps, WorkerEndsKeeps, CallerTakesKeeps
       DEF FAN!Step
<1>2. CASE UNCHANGED FAN!vars
  <2>1. UNCHANGED <<n, reader, produced, inClosed, dealer, fanHand, i, fanClosed, dealt,
                    worker, carry, running, outClosed, collected>>
    BY <1>2 DEF FAN!vars
  <2>2. Turns' /\ Apart' /\ FAN!Chans' = FAN!Chans
    BY <2>1, NothingPassed
  <2>3. Busy' = Busy /\ Sending' = Sending
    BY <2>1, <2>2 DEF Busy, Sending
  <2>4. FanShape' /\ Progress'
    BY <2>1, <2>2, <2>3 DEF FanInv, FanShape, Progress
  <2>5. QED
    BY <2>2, <2>4 DEF FanInv
<1>3. QED
  BY <1>1, <1>2

LEMMA FanSafe == FanInv => InTurnAndOnce /\ ClosedBehindAll
<1> SUFFICES ASSUME FanInv PROVE InTurnAndOnce /\ ClosedBehindAll
  OBVIOUS
<1> USE DEF FanInv
<1>1. /\ n \in Nat \ {0} /\ i \in Nat /\ produced \in 0..Values
      /\ collected \in Seq(Nat) /\ Len(collected) \in Nat
      /\ DOMAIN collected = 1..Len(collected)
  BY LenProperties DEF FanShape
<1>2. FAN!RoundRobin
  <2>1. \A c \in FAN!Chans : DOMAIN dealt[c] = 1..Len(dealt[c])
    BY LenProperties DEF FanShape
  <2>2. QED
    BY <2>1 DEF FAN!RoundRobin, Turns
<1>3. FAN!NothingLost
  <2> SUFFICES ASSUME NEW v \in FAN!Nums
               PROVE  IF v <= produced THEN \E p \in FAN!Places(v) : FAN!Places(v) = {p}
                                       ELSE FAN!Places(v) = {}
    BY DEF FAN!NothingLost
  <2>1. v \in Nat /\ v # 0
    BY DEF FAN!Nums
  <2>2. CASE dealer = "send" /\ v = i + 1
    <3>1. fanHand = v /\ v <= produced
      BY <1>1, <2>1, <2>2 DEF Progress
    <3>2. \A c \in FAN!Chans : carry[c] # v
      BY <1>1, <2>2 DEF Apart, FanShape
    <3>3. \A k \in 1..Len(collected) : collected[k] # v
      BY <1>1, <2>2 DEF Apart
    <3>4. FAN!Places(v) = {<<"dealer", 0>>}
      BY <1>1, <3>1, <3>2, <3>3 DEF FAN!Places
    <3>5. QED
      BY <3>1, <3>4
  <2>3. CASE v \in 1..i
    <3>1. fanHand # v /\ v <= produced
      BY <1>1, <2>1, <2>3 DEF Progress
    <3>2. CASE \E c \in FAN!Chans : carry[c] = v
      <4>1. PICK c \in FAN!Chans : carry[c] = v
        BY <3>2
      <4>2. /\ \A d \in FAN!Chans : carry[d] = v => d = c
            /\ \A k \in 1..Len(collected) : collected[k] # v
        BY <2>1, <4>1 DEF Apart
      <4>3. FAN!Places(v) = {<<"carry", c>>}
        BY <1>1, <3>1, <4>1, <4>2 DEF FAN!Places
      <4>4. QED
        BY <3>1, <4>3
    <3>3. CASE \E k \in 1..Len(collected) : collected[k] = v
      <4>1. PICK k \in 1..Len(collected) : collected[k] = v
        BY <3>3
      <4>2. /\ \A j \in 1..Len(collected) : collected[j] = v => j = k
            /\ \A d \in FAN!Chans : carry[d] # v
        BY <2>1, <4>1 DEF Apart
      <4>3. FAN!Places(v) = {<<"got", k>>}
        BY <1>1, <3>1, <4>1, <4>2 DEF FAN!Places
      <4>4. QED
        BY <3>1, <4>3
    <3>4. QED
      BY <2>3, <3>2, <3>3 DEF Apart
  <2>4. CASE ~(dealer = "send" /\ v = i + 1) /\ v \notin 1..i
    <3>1. fanHand # v /\ ~(v <= produced)
      BY <1>1, <2>1, <2>4 DEF Progress
    <3>2. \A c \in FAN!Chans : carry[c] # v
      BY <1>1, <2>1, <2>4 DEF Apart, FanShape
    <3>3. \A k \in 1..Len(collected) : collected[k] # v
      BY <2>4 DEF Apart
    <3>4. FAN!Places(v) = {}
      BY <1>1, <3>1, <3>2, <3>3 DEF FAN!Places
    <3>5. QED
      BY <3>1, <3>4
  <2>5. QED
    BY <2>2, <2>3, <2>4
<1>4. FAN!ClosedBehindAll
  <2> SUFFICES ASSUME outClosed
               PROVE  /\ fanClosed = FAN!Chans
                      /\ Len(collected) = Values
                      /\ \A c \in FAN!Chans : worker[c] = "ended"
    BY DEF FAN!ClosedBehindAll
  <2>1. \A c \in FAN!Chans : worker[c] = "ended"
    BY DEF Progress, Busy
  <2>2. fanClosed = FAN!Chans
    BY <2>1 DEF Progress, FanShape
  <2>3. 0 \in FAN!Chans
    BY <1>1 DEF FAN!Chans
  <2>4. produced = Values /\ i = produced
    BY <2>2, <2>3 DEF Progress
  <2>5. Cardinality(Sending) = 0
    BY <2>1, FS_EmptySet DEF Sending
  <2>6. QED
    BY <1>1, <2>1, <2>2, <2>4, <2>5 DEF Progress
<1>5. QED
  BY <1>2, <1>3, <1>4 DEF InTurnAndOnce, FAN!InTurnAndOnce, ClosedBehindAll

-----------------------------------------------------------------------------
(* Pipeline.  What was read and what the stages hold, from the last to the  *)
(* first, are together what the numbers taken so far give.                  *)

PipeShape ==
  /\ nums \in Seq(Int) /\ taken \in 0..Len(nums)
  /\ hand \in [1..3 -> Seq(Int)]
  /\ closed \subseteq 1..3
  /\ got \in Seq(Int)

(* What a stage will send on of the value it holds.                         *)
OfSquare == IF hand[2] = <<>> THEN <<>> ELSE PIP!Passed(hand[2][1])
OfGenerate == IF hand[1] = <<>> THEN <<>> ELSE PIP!Passed(hand[1][1] * hand[1][1])

(* What has been read and what the stages hold of it, from the last to the  *)
(* first, are what the numbers taken so far give.                           *)
InFlight == (got \o hand[3]) \o (OfSquare \o OfGenerate) = PIP!WantOf[taken]

ClosedInTurn ==
  /\ 1 \in closed => hand[1] = <<>> /\ taken = Len(nums)
  /\ 2 \in closed => hand[2] = <<>> /\ 1 \in closed
  /\ 3 \in closed => hand[3] = <<>> /\ 2 \in closed

PipeInv == PipeShape /\ InFlight /\ ClosedInTurn

LEMMA PassedType == \A v \in Int : PIP!Passed(v) \in Seq(Int)
BY DEF PIP!Passed

(* WantOf says what it computes: there is such a function, however long the *)
(* list.                                                                    *)
LEMMA WantOfDef ==
  ASSUME nums \in Seq(Int)
  PROVE  /\ PIP!WantOf[0] = <<>>
         /\ \A k \in 1..Len(nums) :
              PIP!WantOf[k] = PIP!WantOf[k - 1] \o PIP!Passed(nums[k] * nums[k])
<1> DEFINE N == Len(nums)
           item(k) == PIP!Passed(nums[k] * nums[k])
           isUpTo(f, m) == f = [k \in 0..m |-> IF k = 0 THEN <<>> ELSE f[k - 1] \o item(k)]
           missing == {m \in 0..N : ~ \E f : isUpTo(f, m)}
<1>1. N \in Nat
  BY LenProperties
<1>2. missing = {}
  <2> SUFFICES ASSUME missing # {} PROVE FALSE
    OBVIOUS
  <2>1. PICK m \in missing : \A x \in missing : m <= x
    <3> HIDE DEF isUpTo
    <3>1. missing \subseteq Nat
      BY <1>1
    <3> HIDE DEF missing
    <3>2. QED
      BY <3>1, NatMin
  <2>2. m # 0
    <3> DEFINE f == [k \in 0..0 |-> <<>>]
    <3>1. f = [k \in 0..0 |-> IF k = 0 THEN <<>> ELSE f[k - 1] \o item(k)]
      OBVIOUS
    <3>2. isUpTo(f, 0)
      BY <3>1
    <3> HIDE DEF f, isUpTo
    <3>3. QED
      BY <2>1, <3>2
  <2>3. m - 1 \in 0..N /\ m - 1 \notin missing /\ m \in 0..N
    <3> HIDE DEF isUpTo, N
    <3>1. m \in 0..N
      BY <2>1
    <3>2. m - 1 \in 0..N /\ ~(m <= m - 1)
      BY <1>1, <2>2, <3>1
    <3> HIDE DEF missing
    <3>3. QED
      BY <2>1, <3>1, <3>2
  <2>4. PICK f : isUpTo(f, m - 1)
    BY <2>3
  <2> DEFINE g == [k \in 0..m |-> IF k = m THEN f[m - 1] \o item(m) ELSE f[k]]
  <2>5. /\ \A k \in 0..(m - 1) : f[k] = IF k = 0 THEN <<>> ELSE f[k - 1] \o item(k)
    BY <2>4
  <2>6. ASSUME NEW k \in 0..m
        PROVE  g[k] = IF k = 0 THEN <<>> ELSE g[k - 1] \o item(k)
    <3> HIDE DEF item, isUpTo
    <3>1. CASE k = m
      <4>1. k - 1 \in 0..m /\ k - 1 # m /\ k - 1 = m - 1 /\ k # 0
        BY <2>2, <2>3, <3>1
      <4>2. g[k - 1] = f[m - 1]
        BY <4>1
      <4>3. QED
        BY <3>1, <4>1, <4>2
    <3>2. CASE k = 0 /\ k # m
      BY <2>3, <2>5, <3>2
    <3>3. CASE k # m /\ k # 0
      <4>1. k \in 0..(m - 1) /\ k - 1 \in 0..m /\ k - 1 # m
        BY <2>3, <3>3
      <4>2. g[k] = f[k] /\ g[k - 1] = f[k - 1]
        BY <3>3, <4>1
      <4>3. QED
        BY <2>5, <3>3, <4>1, <4>2
    <3>4. QED
      BY <3>1, <3>2, <3>3
  <2>7. isUpTo(g, m)
    <3> HIDE DEF item
    <3> DEFINE h == [k \in 0..m |-> IF k = 0 THEN <<>> ELSE g[k - 1] \o item(k)]
    <3>1. g = [k \in 0..m |-> g[k]]
      OBVIOUS
    <3> HIDE DEF g
    <3>2. \A k \in 0..m : g[k] = h[k]
      BY <2>6
    <3>3. g = h
      BY <3>1, <3>2
    <3>4. QED
      BY <3>3
  <2> HIDE DEF g, isUpTo
  <2>8. QED
    BY <2>1, <2>7
<1>3. PICK f : isUpTo(f, N)
  <2> HIDE DEF isUpTo
  <2>1. N \in 0..N
    BY <1>1
  <2>2. QED
    BY <1>2, <2>1
<1>4. isUpTo(PIP!WantOf, N)
  BY <1>3 DEF PIP!WantOf
<1>5. \A k \in 0..N : PIP!WantOf[k] = IF k = 0 THEN <<>> ELSE PIP!WantOf[k - 1] \o item(k)
  BY <1>4
<1> HIDE DEF item
<1>6. PIP!WantOf[0] = <<>>
  BY <1>1, <1>5
<1>7. ASSUME NEW k \in 1..N PROVE PIP!WantOf[k] = PIP!WantOf[k - 1] \o item(k)
  <2>1. k \in 0..N /\ k # 0
    BY <1>1
  <2>2. QED
    BY <1>5, <2>1
<1>8. QED
  BY <1>6, <1>7 DEF item

LEMMA WantOfType ==
  ASSUME nums \in Seq(Int)
  PROVE  \A k \in 0..Len(nums) : PIP!WantOf[k] \in Seq(Int)
<1> DEFINE bad == {k \in 0..Len(nums) : PIP!WantOf[k] \notin Seq(Int)}
<1>1. Len(nums) \in Nat /\ \A k \in 1..Len(nums) : nums[k] \in Int
  BY LenProperties
<1>2. SUFFICES ASSUME bad # {} PROVE FALSE
  OBVIOUS
<1>3. bad \subseteq Nat
  BY <1>1
<1>4. PICK m \in bad : \A x \in bad : m <= x
  <2> HIDE DEF bad
  <2>1. QED
    BY <1>2, <1>3, NatMin
<1>5. m # 0
  <2>1. PIP!WantOf[m] \notin Seq(Int)
    BY <1>4
  <2>2. PIP!WantOf[0] \in Seq(Int)
    <3>1. PIP!WantOf[0] = <<>>
      BY WantOfDef
    <3>2. <<>> \in Seq(Int)
      OBVIOUS
    <3>3. QED
      BY <3>1, <3>2, Zenon
  <2>3. QED
    BY <2>1, <2>2
<1>6. m \in 1..Len(nums) /\ m - 1 \in 0..Len(nums) /\ ~(m <= m - 1)
  BY <1>1, <1>4, <1>5
<1>7. PIP!WantOf[m - 1] \in Seq(Int)
  BY <1>4, <1>6
<1>8. PIP!Passed(nums[m] * nums[m]) \in Seq(Int)
  <2>1. nums[m] * nums[m] \in Int
    BY <1>1, <1>6
  <2>2. QED
    BY <2>1, PassedType
<1>9. PIP!WantOf[m] \in Seq(Int)
  BY <1>6, <1>7, <1>8, WantOfDef, ConcatProperties
<1>10. QED
  BY <1>4, <1>9

(* t begins with s.                                                         *)
Begins(t, s) == Len(s) <= Len(t) /\ \A k \in 1..Len(s) : t[k] = s[k]

LEMMA BeginsPrefix ==
  ASSUME NEW s \in Seq(Int), NEW t \in Seq(Int), Begins(t, s)
  PROVE  PIP!IsPrefix(s, t)
<1>1. Len(s) \in Nat /\ Len(t) \in Nat /\ Len(s) <= Len(t)
  BY LenProperties DEF Begins
<1>2. \A k \in 1..Len(s) : s[k] \in Int /\ t[k] \in Int /\ t[k] = s[k]
  BY <1>1, LenProperties DEF Begins
<1> DEFINE a == SubSeq(s, 1, Len(s))
           b == SubSeq(t, 1, Len(s))
<1>3. /\ a \in Seq(Int) /\ b \in Seq(Int)
      /\ \A k \in 1..(Len(s) - 1 + 1) : a[k] = s[1 + k - 1] /\ b[k] = t[1 + k - 1]
      /\ Len(a) = (IF 1 <= Len(s) THEN Len(s) - 1 + 1 ELSE 0)
      /\ Len(b) = (IF 1 <= Len(s) THEN Len(s) - 1 + 1 ELSE 0)
  BY <1>1, <1>2, SubSeqProperties
<1>4. Len(a) = Len(s) /\ Len(b) = Len(s)
  BY <1>1, <1>3
<1>5. ASSUME NEW k \in 1..Len(a) PROVE a[k] = b[k]
  <2>1. k \in 1..Len(s) /\ k \in 1..(Len(s) - 1 + 1) /\ 1 + k - 1 = k
    BY <1>1, <1>4
  <2>2. QED
    BY <1>2, <1>3, <2>1
<1>6. a = b
  <2> HIDE DEF a, b
  <2>1. QED
    BY <1>3, <1>4, <1>5, SeqEqual
<1>7. QED
  BY <1>1, <1>6 DEF PIP!IsPrefix

LEMMA ConcatBegins ==
  ASSUME NEW r \in Seq(Int), NEW s \in Seq(Int), NEW t \in Seq(Int), Begins(s, r)
  PROVE  Begins(s \o t, r)
<1>1. Len(r) \in Nat /\ Len(s) \in Nat /\ Len(t) \in Nat
  BY LenProperties
<1>2. Len(s \o t) = Len(s) + Len(t) /\ \A k \in 1..Len(s) : (s \o t)[k] = s[k]
  <2>1. Len(s \o t) = Len(s) + Len(t)
    BY ConcatProperties
  <2>2. ASSUME NEW k \in 1..Len(s) PROVE (s \o t)[k] = s[k]
    <3>1. k \in 1..(Len(s) + Len(t)) /\ k <= Len(s)
      BY <1>1
    <3>2. QED
      BY <3>1, ConcatProperties
  <2>3. QED
    BY <2>1, <2>2
<1>3. Len(r) <= Len(s) /\ \A k \in 1..Len(r) : k \in 1..Len(s) /\ s[k] = r[k]
  BY <1>1 DEF Begins
<1>4. QED
  BY <1>1, <1>2, <1>3 DEF Begins

(* What is wanted of all numbers begins with what is wanted of the first.   *)
LEMMA WantBegins ==
  ASSUME nums \in Seq(Int), NEW s \in Seq(Int), NEW j \in 0..Len(nums),
         Begins(PIP!WantOf[j], s)
  PROVE  \A k \in j..Len(nums) : Begins(PIP!WantOf[k], s)
<1> DEFINE bad == {k \in j..Len(nums) : ~Begins(PIP!WantOf[k], s)}
<1>1. Len(nums) \in Nat /\ \A k \in 1..Len(nums) : nums[k] \in Int
  BY LenProperties
<1>2. SUFFICES ASSUME bad # {} PROVE FALSE
  OBVIOUS
<1>3. bad \subseteq Nat
  BY <1>1
<1>4. PICK m \in bad : \A x \in bad : m <= x
  <2> HIDE DEF bad
  <2>1. QED
    BY <1>2, <1>3, NatMin
<1>5. m # j
  BY <1>4
<1>6. /\ m \in 1..Len(nums) /\ m - 1 \in j..Len(nums) /\ m - 1 \in 0..Len(nums)
      /\ ~(m <= m - 1)
  BY <1>1, <1>4, <1>5
<1>7. Begins(PIP!WantOf[m - 1], s)
  BY <1>4, <1>6
<1>8. PIP!WantOf[m - 1] \in Seq(Int) /\ PIP!Passed(nums[m] * nums[m]) \in Seq(Int)
  <2>1. nums[m] * nums[m] \in Int
    BY <1>1, <1>6
  <2>2. QED
    BY <1>6, <2>1, PassedType, WantOfType
<1>9. Begins(PIP!WantOf[m], s)
  BY <1>6, <1>7, <1>8, WantOfDef, ConcatBegins
<1>10. QED
  BY <1>4, <1>9

LEMMA PipeInit == PIP!Init => PipeInv
<1> SUFFICES ASSUME PIP!Init PROVE PipeInv
  OBVIOUS
<1>1. /\ nums \in Seq(Int) /\ taken = 0 /\ closed = {} /\ got = <<>>
      /\ hand[1] = <<>> /\ hand[2] = <<>> /\ hand[3] = <<>>
  BY ListsAssumption DEF PIP!Init, PIP!Stages
<1>2. PipeShape
  <2>1. hand \in [1..3 -> Seq(Int)]
    BY DEF PIP!Init, PIP!Stages
  <2>2. QED
    BY <1>1, <2>1, LenProperties DEF PipeShape
<1>3. InFlight
  <2>1. OfSquare = <<>> /\ OfGenerate = <<>>
    BY <1>1 DEF OfSquare, OfGenerate
  <2>2. <<>> \o <<>> = <<>>
    OBVIOUS
  <2>3. PIP!WantOf[taken] = <<>>
    BY <1>1, WantOfDef
  <2>4. QED
    BY <1>1, <2>1, <2>2, <2>3, Zenon DEF InFlight
<1>4. ClosedInTurn
  BY <1>1 DEF ClosedInTurn
<1>5. QED
  BY <1>2, <1>3, <1>4 DEF PipeInv

LEMMA InAnyOrder ==
  ASSUME NEW r \in Seq(Int), NEW s \in Seq(Int), NEW t \in Seq(Int)
  PROVE  (r \o s) \o t = r \o (s \o t)
BY ConcatAssociative

(* The types of what the stages hold.                                       *)
LEMMA InHand ==
  ASSUME PipeInv
  PROVE  /\ \A k \in 1..3 : hand[k] \in Seq(Int) /\ (hand[k] # <<>> => hand[k][1] \in Int)
         /\ OfSquare \in Seq(Int) /\ OfGenerate \in Seq(Int)
         /\ got \o hand[3] \in Seq(Int)
<1>1. ASSUME NEW k \in 1..3
      PROVE  hand[k] \in Seq(Int) /\ (hand[k] # <<>> => hand[k][1] \in Int)
  <2>1. hand[k] \in Seq(Int)
    BY DEF PipeInv, PipeShape
  <2>2. QED
    BY <2>1, EmptySeq, LenProperties
<1>2. OfSquare \in Seq(Int)
  <2>1. hand[2] # <<>> => PIP!Passed(hand[2][1]) \in Seq(Int)
    <3>1. hand[2] # <<>> => hand[2][1] \in Int
      BY <1>1
    <3>2. QED
      BY <3>1, PassedType, Zenon
  <2>2. <<>> \in Seq(Int)
    OBVIOUS
  <2>3. QED
    BY <2>1, <2>2, Zenon DEF OfSquare
<1>3. OfGenerate \in Seq(Int)
  <2>1. hand[1] # <<>> => hand[1][1] * hand[1][1] \in Int
    BY <1>1
  <2>2. QED
    BY <2>1, PassedType DEF OfGenerate
<1>4. got \o hand[3] \in Seq(Int)
  BY <1>1, ConcatProperties DEF PipeInv, PipeShape
<1>5. QED
  BY <1>1, <1>2, <1>3, <1>4

LEMMA PipeStep == PipeInv /\ [PIP!Next]_(PIP!vars) => PipeInv'
<1> SUFFICES ASSUME PipeInv, [PIP!Next]_(PIP!vars) PROVE PipeInv'
  OBVIOUS
<1>1. /\ nums \in Seq(Int) /\ taken \in 0..Len(nums) /\ Len(nums) \in Nat
      /\ hand \in [1..3 -> Seq(Int)] /\ got \in Seq(Int)
      /\ closed \subseteq 1..3
      /\ \A k \in 1..Len(nums) : nums[k] \in Int
  BY LenProperties DEF PipeInv, PipeShape
<1>2. InFlight /\ ClosedInTurn
  BY DEF PipeInv
<1>3. CASE PIP!Generate
  <2> DEFINE v == nums[taken + 1]
  <2>1. /\ taken < Len(nums) /\ hand[1] = <<>> /\ taken' = taken + 1
        /\ hand' = [hand EXCEPT ![1] = <<v>>]
        /\ UNCHANGED <<nums, closed, got>>
    BY <1>3 DEF PIP!Generate
  <2>2. taken + 1 \in 1..Len(nums) /\ (taken + 1) - 1 = taken /\ v \in Int
    BY <1>1, <2>1
  <2>3. <<v>> # <<>> /\ <<v>>[1] = v /\ <<v>> \in Seq(Int)
    BY <2>2
  <2> HIDE DEF v
  <2>4. hand'[1] = <<v>> /\ hand'[2] = hand[2] /\ hand'[3] = hand[3]
    BY <1>1, <2>1
  <2>5. PipeShape'
    BY <1>1, <2>1, <2>2, <2>3 DEF PipeShape
  <2>6. OfGenerate = <<>> /\ OfSquare' = OfSquare
    BY <2>1, <2>4 DEF OfGenerate, OfSquare
  <2>7. OfGenerate' = PIP!Passed(v * v)
    BY <2>3, <2>4, Zenon DEF OfGenerate
  <2>8. PIP!WantOf' = PIP!WantOf
    BY <2>1 DEF PIP!WantOf
  <2>9. PIP!WantOf[taken + 1] = PIP!WantOf[taken] \o PIP!Passed(v * v)
    BY <1>1, <2>2, WantOfDef DEF v
  <2>10. PIP!Passed(v * v) \in Seq(Int)
    <3>1. v * v \in Int
      BY <2>2
    <3>2. QED
      BY <3>1, PassedType
  <2>11. PIP!WantOf[taken] = (got \o hand[3]) \o OfSquare
    BY <1>2, <2>6, InHand, ConcatEmptySeq DEF InFlight
  <2>12. ((got \o hand[3]) \o OfSquare) \o PIP!Passed(v * v)
           = (got \o hand[3]) \o (OfSquare \o PIP!Passed(v * v))
    BY <2>10, InHand, InAnyOrder, Zenon
  <2>13. InFlight'
    BY <2>1, <2>4, <2>6, <2>7, <2>8, <2>9, <2>11, <2>12 DEF InFlight
  <2>14. ClosedInTurn'
    <3>1. 1 \notin closed
      BY <1>1, <1>2, <2>1 DEF ClosedInTurn
    <3>2. QED
      BY <1>2, <2>1, <2>4, <3>1 DEF ClosedInTurn
  <2>15. QED
    BY <2>5, <2>13, <2>14 DEF PipeInv
<1>4. CASE PIP!Square
  <2> DEFINE v == hand[1][1]
  <2>1. /\ hand[1] # <<>> /\ hand[2] = <<>>
        /\ hand' = [hand EXCEPT ![1] = <<>>, ![2] = <<v * v>>]
        /\ UNCHANGED <<nums, taken, closed, got>>
    BY <1>4 DEF PIP!Square
  <2>2. v * v \in Int
    BY <2>1, InHand
  <2>3. <<v * v>> # <<>> /\ <<v * v>>[1] = v * v /\ <<v * v>> \in Seq(Int)
    BY <2>2
  <2>4. OfGenerate = PIP!Passed(v * v) /\ OfSquare = <<>>
    BY <2>1 DEF OfGenerate, OfSquare
  <2> HIDE DEF v
  <2>5. hand'[1] = <<>> /\ hand'[2] = <<v * v>> /\ hand'[3] = hand[3]
    BY <1>1, <2>1
  <2>6. PipeShape'
    <3>1. hand' \in [1..3 -> Seq(Int)]
      <4>1. <<>> \in Seq(Int)
        OBVIOUS
      <4>2. QED
        BY <1>1, <2>1, <2>3, <4>1
    <3>2. QED
      BY <1>1, <2>1, <3>1 DEF PipeShape
  <2>7. OfSquare' = PIP!Passed(v * v) /\ OfGenerate' = <<>>
    BY <2>3, <2>5, Zenon DEF OfSquare, OfGenerate
  <2>8. PIP!WantOf' = PIP!WantOf
    BY <2>1 DEF PIP!WantOf
  <2>9. OfSquare \o OfGenerate = OfGenerate /\ OfSquare' \o OfGenerate' = OfGenerate
    BY <2>4, <2>7, InHand, ConcatEmptySeq
  <2>10. InFlight'
    BY <1>2, <2>1, <2>5, <2>8, <2>9 DEF InFlight
  <2>11. ClosedInTurn'
    <3>1. 1 \notin closed /\ 2 \notin closed
      BY <1>2, <2>1 DEF ClosedInTurn
    <3>2. QED
      BY <1>2, <2>1, <2>5, <3>1 DEF ClosedInTurn
  <2>12. QED
    BY <2>6, <2>10, <2>11 DEF PipeInv
<1>5. CASE PIP!Filter
  <2>1. /\ hand[2] # <<>> /\ hand[3] = <<>>
        /\ hand' = [hand EXCEPT ![2] = <<>>, ![3] = PIP!Passed(hand[2][1])]
        /\ UNCHANGED <<nums, taken, closed, got>>
    BY <1>5 DEF PIP!Filter
  <2>2. OfSquare = PIP!Passed(hand[2][1])
    BY <2>1 DEF OfSquare
  <2>3. hand'[2] = <<>> /\ hand'[3] = OfSquare /\ hand'[1] = hand[1]
    BY <1>1, <2>1, <2>2
  <2>4. PipeShape'
    <3>1. hand' \in [1..3 -> Seq(Int)]
      <4>1. <<>> \in Seq(Int) /\ PIP!Passed(hand[2][1]) \in Seq(Int)
        BY <2>2, InHand
      <4>2. QED
        BY <1>1, <2>1, <4>1
    <3>2. QED
      BY <1>1, <2>1, <3>1 DEF PipeShape
  <2>5. OfSquare' = <<>> /\ OfGenerate' = OfGenerate
    BY <2>3 DEF OfSquare, OfGenerate
  <2>6. PIP!WantOf' = PIP!WantOf
    BY <2>1 DEF PIP!WantOf
  <2>7. got \o hand[3] = got /\ <<>> \o OfGenerate = OfGenerate
    BY <1>1, <2>1, InHand, ConcatEmptySeq
  <2>8. got \o (OfSquare \o OfGenerate) = (got \o OfSquare) \o OfGenerate
    BY <1>1, InHand, InAnyOrder, Zenon
  <2>9. InFlight'
    BY <1>2, <2>1, <2>3, <2>5, <2>6, <2>7, <2>8 DEF InFlight
  <2>10. ClosedInTurn'
    <3>1. 2 \notin closed /\ 3 \notin closed
      BY <1>2, <2>1 DEF ClosedInTurn
    <3>2. QED
      BY <1>2, <2>1, <2>3, <3>1 DEF ClosedInTurn
  <2>11. QED
    BY <2>4, <2>9, <2>10 DEF PipeInv
<1>6. CASE PIP!Deliver
  <2>1. /\ hand[3] # <<>> /\ got' = got \o hand[3]
        /\ hand' = [hand EXCEPT ![3] = <<>>]
        /\ UNCHANGED <<nums, taken, closed>>
    BY <1>6 DEF PIP!Deliver
  <2>2. hand'[3] = <<>> /\ hand'[1] = hand[1] /\ hand'[2] = hand[2]
    BY <1>1, <2>1
  <2>3. PipeShape'
    <3>1. hand' \in [1..3 -> Seq(Int)]
      <4>1. <<>> \in Seq(Int)
        OBVIOUS
      <4>2. QED
        BY <1>1, <2>1, <4>1
    <3>2. QED
      BY <1>1, <2>1, <3>1, InHand DEF PipeShape
  <2>4. OfSquare' = OfSquare /\ OfGenerate' = OfGenerate
    BY <2>2 DEF OfSquare, OfGenerate
  <2>5. PIP!WantOf' = PIP!WantOf
    BY <2>1 DEF PIP!WantOf
  <2>6. got' \o hand'[3] = got \o hand[3]
    BY <2>1, <2>2, InHand, ConcatEmptySeq
  <2>7. InFlight'
    BY <1>2, <2>1, <2>4, <2>5, <2>6 DEF InFlight
  <2>8. ClosedInTurn'
    BY <1>2, <2>1, <2>2 DEF ClosedInTurn
  <2>9. QED
    BY <2>3, <2>7, <2>8 DEF PipeInv
<1>7. ASSUME NEW k \in 1..3, PIP!CloseOut(k)
      PROVE  PipeInv'
  <2>1. /\ hand[k] = <<>> /\ PIP!InputEnds(k) /\ closed' = closed \cup {k}
        /\ UNCHANGED <<nums, taken, hand, got>>
    BY <1>7 DEF PIP!CloseOut
  <2>2. PipeShape'
    BY <1>1, <2>1 DEF PipeShape
  <2>3. PIP!WantOf' = PIP!WantOf /\ OfSquare' = OfSquare /\ OfGenerate' = OfGenerate
    BY <2>1 DEF PIP!WantOf, OfSquare, OfGenerate
  <2>4. InFlight'
    BY <1>2, <2>1, <2>3 DEF InFlight
  <2>5. ClosedInTurn'
    BY <1>2, <2>1 DEF ClosedInTurn, PIP!InputEnds
  <2>6. QED
    BY <2>2, <2>4, <2>5 DEF PipeInv
<1>8. CASE UNCHANGED <<nums, taken, hand, closed, got>>
  <2>1. PIP!WantOf' = PIP!WantOf
    BY <1>8 DEF PIP!WantOf
  <2>2. QED
    BY <1>1, <1>2, <1>8, <2>1
       DEF PipeInv, PipeShape, InFlight, OfSquare, OfGenerate, ClosedInTurn
<1>9. PIP!Abandon \/ UNCHANGED PIP!vars => UNCHANGED <<nums, taken, hand, closed, got>>
  BY DEF PIP!Abandon, PIP!vars
<1>10. QED
  BY <1>3, <1>4, <1>5, <1>6, <1>7, <1>8, <1>9 DEF PIP!Next, PIP!Stage, PIP!Stages

LEMMA PipeSafe == PipeInv => InOrderAndAll
<1> SUFFICES ASSUME PipeInv PROVE PIP!InOrderAndAll
  BY DEF InOrderAndAll
<1>1. /\ nums \in Seq(Int) /\ taken \in 0..Len(nums) /\ Len(nums) \in Nat /\ got \in Seq(Int)
      /\ InFlight /\ ClosedInTurn
  BY LenProperties DEF PipeInv, PipeShape
<1>2. PIP!IsPrefix(got, PIP!Want)
  <2>1. Begins(got, got)
    BY <1>1, LenProperties DEF Begins
  <2>2. Begins(got \o hand[3], got)
    BY <1>1, <2>1, InHand, ConcatBegins
  <2>3. OfSquare \o OfGenerate \in Seq(Int)
    BY InHand, ConcatProperties
  <2>4. Begins(PIP!WantOf[taken], got)
    BY <1>1, <2>2, <2>3, InHand, ConcatBegins DEF InFlight
  <2>5. Len(nums) \in taken..Len(nums) /\ Len(nums) \in 0..Len(nums)
    BY <1>1
  <2>6. Begins(PIP!Want, got) /\ PIP!Want \in Seq(Int)
    BY <1>1, <2>4, <2>5, WantBegins, WantOfType DEF PIP!Want
  <2>7. QED
    BY <1>1, <2>6, BeginsPrefix
<1>3. ASSUME 3 \in closed PROVE got = PIP!Want
  <2>1. hand[1] = <<>> /\ hand[2] = <<>> /\ hand[3] = <<>> /\ taken = Len(nums)
    BY <1>1, <1>3 DEF ClosedInTurn
  <2>2. OfSquare = <<>> /\ OfGenerate = <<>> /\ got \o <<>> = got
    BY <1>1, <2>1, ConcatEmptySeq DEF OfSquare, OfGenerate
  <2>3. <<>> \o <<>> = <<>>
    OBVIOUS
  <2>4. QED
    BY <1>1, <2>1, <2>2, <2>3 DEF InFlight, PIP!Want
<1>4. QED
  BY <1>2, <1>3 DEF PIP!InOrderAndAll

-----------------------------------------------------------------------------
(* PortScanner.  A port is still to be fed, in the channel or dialled; one  *)
(* that answered is with its worker or in the slice, once.                  *)

ScanShape ==
  /\ team \subseteq Workers
  /\ scan \in {"feed", "wait", "returned"}
  /\ port \in 0..SCAN!PortCount
  /\ ports \in Seq(Nat)
  /\ dial \in [Workers -> [port : Nat, up : BOOLEAN]]
  /\ ended \subseteq team
  /\ open \in Seq(Nat)
  /\ dialled \in [Ports -> Seq(BOOLEAN)]

(* The ports go through the channel in their order: the ones before the     *)
(* head have been dialled.                                                  *)
AtHead == SCAN!First + (port - Len(ports))

InQueue ==
  /\ Len(ports) <= port
  /\ \A k \in 1..Len(ports) : ports[k] = AtHead + (k - 1)
  /\ \A p \in Ports : IF p < AtHead THEN dialled[p] \in {<<TRUE>>, <<FALSE>>}
                                    ELSE dialled[p] = <<>>

(* A port that answered is in the slice or with the worker that dialled it. *)
Answered == {p \in Ports : dialled[p] = <<TRUE>>}

Found ==
  /\ \A k \in 1..Len(open) : open[k] \in Answered
  /\ \A j, k \in 1..Len(open) : j # k => open[j] # open[k]
  /\ \A w \in Workers : dial[w].up =>
       /\ dial[w].port \in Answered
       /\ \A k \in 1..Len(open) : open[k] # dial[w].port
       /\ \A v \in Workers \ {w} : dial[v].up => dial[v].port # dial[w].port
  /\ \A p \in Answered : \/ \E k \in 1..Len(open) : open[k] = p
                         \/ \E w \in Workers : dial[w].up /\ dial[w].port = p

(* Who has left, and what that says of the rest.                            *)
Leaving ==
  /\ scan # "feed" => port = SCAN!PortCount
  /\ ended # {} => scan # "feed" /\ ports = <<>>
  /\ \A w \in ended : dial[w] = SCAN!Idle
  /\ \A w \in Workers \ team : dial[w] = SCAN!Idle
  /\ team = {} => port = 0 /\ ports = <<>>
  /\ scan = "returned" => ended = team /\ found = SCAN!Sorted(open)

ScanInv == ScanShape /\ InQueue /\ Found /\ Leaving

LEMMA PortsNumbered ==
  /\ SCAN!PortCount \in Nat
  /\ \A k \in Nat : k < SCAN!PortCount => SCAN!First \in Nat /\ SCAN!First + k \in Ports
  /\ \A p \in Ports : SCAN!First \in Nat /\ SCAN!First <= p /\ p < SCAN!First + SCAN!PortCount
<1>1. SCAN!PortCount = Cardinality(Ports) /\ Cardinality(Ports) \in Nat
  BY PortsAssumption, FS_CardinalityType DEF SCAN!PortCount, SCAN!Cardinality, Cardinality
<1>2. CASE Ports = {}
  BY <1>1, <1>2, FS_EmptySet
<1>3. CASE Ports # {}
  <2> DEFINE f == SCAN!First
  <2>1. f \in Ports /\ (\A q \in Ports : f <= q) /\ f \in Nat
    BY <1>3, PortsAssumption, NatMin DEF SCAN!First
  <2> HIDE DEF f
  <2>2. ASSUME NEW k \in Nat, k < SCAN!PortCount, f + k \notin Ports
        PROVE  FALSE
    <3>1. \A q \in Ports : q \in Nat /\ q < f + k
      BY <2>1, <2>2, PortsAssumption
    <3>2. Ports \subseteq f..(f + k - 1)
      BY <2>1, <3>1
    <3>3. f + k - 1 \in Int /\ (f + k - 1) - f + 1 = k /\ (f > f + k - 1 <=> k = 0)
      BY <2>1
    <3>4. IsFiniteSet(f..(f + k - 1)) /\ Cardinality(f..(f + k - 1)) = k
      BY <2>1, <3>3, FS_Interval
    <3>5. Cardinality(Ports) <= k
      BY <3>2, <3>4, FS_Subset
    <3>6. QED
      BY <1>1, <2>2, <3>5
  <2>3. ASSUME NEW p \in Ports, ~(p < f + SCAN!PortCount)
        PROVE  FALSE
    <3>1. p \in Nat /\ f..p \subseteq Ports /\ p >= f
      BY <2>1, PortsAssumption
    <3>2. Cardinality(f..p) = p - f + 1
      BY <2>1, <3>1, FS_Interval
    <3>3. Cardinality(f..p) <= Cardinality(Ports)
      BY <3>1, PortsAssumption, FS_Subset
    <3>4. QED
      BY <1>1, <2>1, <2>3, <3>1, <3>2, <3>3
  <2>4. QED
    BY <1>1, <2>1, <2>2, <2>3 DEF f
<1>4. QED
  BY <1>2, <1>3

(* How many of the numbers of a sequence are at most the k-th: its place    *)
(* when they are sorted.                                                    *)
LEMMA SortingOrder ==
  ASSUME NEW s \in Seq(Nat), \A j, k \in 1..Len(s) : j # k => s[j] # s[k]
  PROVE  \E p \in SCAN!Bijection(DOMAIN s, DOMAIN s) :
           \A a, b \in DOMAIN s : a < b => s[p[a]] <= s[p[b]]
<1> DEFINE D == 1..Len(s)
           upTo(k) == {j \in D : s[j] <= s[k]}
           rank == [k \in D |-> Cardinality(upTo(k))]
<1>1. DOMAIN s = D /\ Len(s) \in Nat /\ \A k \in D : s[k] \in Nat
  BY LenProperties
<1>2. IsFiniteSet(D) /\ Cardinality(D) = Len(s)
  <2>1. Len(s) \in Int /\ 1 \in Int /\ (IF 1 > Len(s) THEN 0 ELSE Len(s) - 1 + 1) = Len(s)
    BY <1>1
  <2>2. IsFiniteSet(1..Len(s))
    BY <2>1, FS_Interval, Zenon
  <2>3. Cardinality(1..Len(s)) = IF 1 > Len(s) THEN 0 ELSE Len(s) - 1 + 1
    BY <2>1, FS_Interval, Zenon
  <2>4. QED
    BY <2>1, <2>2, <2>3
<1>3. ASSUME NEW k \in D
      PROVE  rank[k] \in D /\ IsFiniteSet(upTo(k)) /\ k \in upTo(k)
  <2>1. k \in upTo(k) /\ upTo(k) \subseteq D
    BY <1>1
  <2>2. IsFiniteSet(upTo(k)) /\ Cardinality(upTo(k)) <= Len(s) /\ Cardinality(upTo(k)) \in Nat
    BY <1>2, <2>1, FS_Subset, FS_CardinalityType
  <2>3. Cardinality(upTo(k)) # 0
    BY <2>1, <2>2, FS_EmptySet
  <2>4. QED
    BY <1>1, <2>1, <2>2, <2>3
<1>4. ASSUME NEW j \in D, NEW k \in D, s[j] < s[k]
      PROVE  rank[j] < rank[k]
  <2>1. upTo(j) \subseteq upTo(k) /\ k \in upTo(k) /\ k \notin upTo(j)
    BY <1>1, <1>4
  <2>2. Cardinality(upTo(j)) <= Cardinality(upTo(k)) /\ Cardinality(upTo(j)) # Cardinality(upTo(k))
    BY <1>3, <2>1, FS_Subset
  <2>3. QED
    BY <1>1, <1>3, <2>2
<1>5. rank \in Injection(D, D)
  <2>1. rank \in [D -> D]
    BY <1>3
  <2>2. ASSUME NEW j \in D, NEW k \in D, rank[j] = rank[k] PROVE j = k
    <3> SUFFICES ASSUME j # k PROVE FALSE
      OBVIOUS
    <3>1. s[j] < s[k] \/ s[k] < s[j]
      BY <1>1
    <3>2. rank[j] \in Int /\ rank[k] \in Int
      BY <1>1, <1>3
    <3> HIDE DEF rank
    <3>3. QED
      BY <1>4, <2>2, <3>1, <3>2
  <2> HIDE DEF rank, D
  <2>3. QED
    BY <2>1, <2>2 DEF Injection, IsInjective
<1> HIDE DEF rank, D
<1>6. rank \in Bijection(D, D)
  BY <1>2, <1>5, FS_Injection DEF Bijection
<1> DEFINE p == Inverse(rank, D, D)
<1>7. p \in Bijection(D, D) /\ \A a \in D : p[a] \in D /\ rank[p[a]] = a
  <2>1. p \in Bijection(D, D)
    BY <1>6, Fun_BijInverse
  <2>2. p \in [D -> D]
    BY <2>1 DEF Bijection, Injection
  <2>3. ASSUME NEW a \in D PROVE rank[p[a]] = a
    <3>1. PICK k \in D : rank[k] = a
      BY <1>6 DEF Bijection, Surjection
    <3>2. p[rank[k]] = k
      BY <1>6, Fun_BijInverse
    <3>3. QED
      BY <3>1, <3>2
  <2>4. QED
    BY <2>1, <2>2, <2>3
<1> HIDE DEF p
<1>8. ASSUME NEW a \in D, NEW b \in D, a < b PROVE s[p[a]] <= s[p[b]]
  <2> SUFFICES ASSUME s[p[b]] < s[p[a]] PROVE FALSE
    BY <1>1, <1>7
  <2>1. b < a
    BY <1>4, <1>7
  <2>2. QED
    BY <1>1, <1>8, <2>1 DEF D
<1>9. Bijection(D, D) = SCAN!Bijection(D, D)
  BY DEF Bijection, Injection, Surjection, IsInjective, SCAN!Bijection, SCAN!Injection,
         SCAN!Surjection, SCAN!IsInjective
<1>10. QED
  BY <1>1, <1>7, <1>8, <1>9

LEMMA SortedIsSorted ==
  ASSUME NEW s \in Seq(Nat), \A j, k \in 1..Len(s) : j # k => s[j] # s[k]
  PROVE  /\ DOMAIN SCAN!Sorted(s) = 1..Len(s) /\ Len(SCAN!Sorted(s)) = Len(s)
         /\ \A k \in 1..Len(s) : \E j \in 1..Len(s) : SCAN!Sorted(s)[k] = s[j]
         /\ \A k \in 1..Len(s) : \E j \in 1..Len(s) : SCAN!Sorted(s)[j] = s[k]
         /\ \A k \in 2..Len(s) : SCAN!Sorted(s)[k - 1] < SCAN!Sorted(s)[k]
<1>1. DOMAIN s = 1..Len(s) /\ Len(s) \in Nat /\ \A k \in 1..Len(s) : s[k] \in Nat
  BY LenProperties
<1>2. PICK p \in SCAN!Bijection(DOMAIN s, DOMAIN s) :
        /\ \A a, b \in DOMAIN s : a < b => s[p[a]] <= s[p[b]]
        /\ SCAN!Sorted(s) = [k \in DOMAIN s |-> s[p[k]]]
  BY SortingOrder DEF SCAN!Sorted
<1>3. /\ \A k \in 1..Len(s) : p[k] \in 1..Len(s)
      /\ \A j, k \in 1..Len(s) : p[j] = p[k] => j = k
      /\ \A a \in 1..Len(s) : \E k \in 1..Len(s) : p[k] = a
  BY <1>1 DEF SCAN!Bijection, SCAN!Injection, SCAN!Surjection, SCAN!IsInjective
<1>4. /\ DOMAIN SCAN!Sorted(s) = 1..Len(s)
      /\ \A k \in 1..Len(s) : SCAN!Sorted(s)[k] = s[p[k]]
  BY <1>1, <1>2
<1>5. Len(SCAN!Sorted(s)) = Len(s)
  <2>1. SCAN!Sorted(s) \in [1..Len(s) -> Nat]
    BY <1>1, <1>2, <1>3
  <2>2. SCAN!Sorted(s) \in Seq(Nat)
    BY <1>1, <2>1, SeqDef
  <2>3. QED
    BY <1>1, <1>4, <2>2, LenProperties
<1>6. /\ \A k \in 1..Len(s) : \E j \in 1..Len(s) : SCAN!Sorted(s)[k] = s[j]
      /\ \A k \in 1..Len(s) : \E j \in 1..Len(s) : SCAN!Sorted(s)[j] = s[k]
  <2>1. ASSUME NEW k \in 1..Len(s) PROVE \E j \in 1..Len(s) : SCAN!Sorted(s)[k] = s[j]
    BY <1>3, <1>4
  <2>2. ASSUME NEW k \in 1..Len(s) PROVE \E j \in 1..Len(s) : SCAN!Sorted(s)[j] = s[k]
    <3>1. PICK j \in 1..Len(s) : p[j] = k
      BY <1>3
    <3>2. QED
      BY <1>4, <3>1
  <2>3. QED
    BY <2>1, <2>2
<1>7. ASSUME NEW k \in 2..Len(s)
      PROVE  SCAN!Sorted(s)[k - 1] < SCAN!Sorted(s)[k]
  <2>1. k - 1 \in 1..Len(s) /\ k \in 1..Len(s) /\ k - 1 < k /\ k - 1 # k
    BY <1>1
  <2>2. p[k - 1] \in 1..Len(s) /\ p[k] \in 1..Len(s) /\ p[k - 1] # p[k]
    BY <1>3, <2>1
  <2>3. s[p[k - 1]] # s[p[k]]
    BY <2>2
  <2>4. s[p[k - 1]] <= s[p[k]]
    BY <1>1, <1>2, <2>1
  <2>5. s[p[k - 1]] \in Nat /\ s[p[k]] \in Nat
    BY <1>1, <1>3, <2>1
  <2>6. s[p[k - 1]] < s[p[k]]
    BY <2>3, <2>4, <2>5
  <2>7. QED
    BY <1>4, <2>1, <2>6
<1>8. QED
  BY <1>4, <1>5, <1>6, <1>7

LEMMA OneAnswer ==
  ASSUME NEW up \in BOOLEAN
  PROVE  /\ <<>> # <<up>> /\ <<up>> \in {<<TRUE>>, <<FALSE>>}
         /\ <<up>> = <<TRUE>> <=> up
         /\ Append(<<>>, up) = <<up>> /\ <<up>> \in Seq(BOOLEAN)
<1>1. Len(<<>>) = 0 /\ Len(<<up>>) = 1 /\ <<up>>[1] = up /\ <<TRUE>>[1] = TRUE
  OBVIOUS
<1>2. <<>> # <<up>>
  BY <1>1
<1>3. Append(<<>>, up) = <<up>> /\ <<up>> \in Seq(BOOLEAN)
  OBVIOUS
<1>4. <<up>> = <<TRUE>> <=> up
  BY <1>1, Zenon
<1>5. <<up>> \in {<<TRUE>>, <<FALSE>>}
  <2>1. up = TRUE \/ up = FALSE
    OBVIOUS
  <2>2. QED
    BY <2>1, Zenon
<1>6. QED
  BY <1>2, <1>3, <1>4, <1>5

LEMMA ScanInit == SCAN!Init => ScanInv
<1> SUFFICES ASSUME SCAN!Init PROVE ScanInv
  OBVIOUS
<1>1. ScanShape
  BY PortsNumbered DEF SCAN!Init, SCAN!Idle, ScanShape
<1>2. InQueue
  <2>1. Len(ports) = 0 /\ port = 0
    BY DEF SCAN!Init
  <2>2. \A p \in Ports : ~(p < AtHead)
    BY <2>1, PortsNumbered, PortsAssumption DEF AtHead
  <2>3. QED
    BY <2>1, <2>2 DEF SCAN!Init, InQueue
<1>3. Found
  <2>1. Answered = {}
    BY OneAnswer DEF SCAN!Init, Answered
  <2>2. Len(open) = 0 /\ \A w \in Workers : dial[w].up = FALSE
    BY DEF SCAN!Init, SCAN!Idle
  <2>3. QED
    BY <2>1, <2>2 DEF Found
<1>4. Leaving
  BY DEF SCAN!Init, Leaving
<1>5. QED
  BY <1>1, <1>2, <1>3, <1>4 DEF ScanInv

(* AtHead is the number of the next port to be dialled.                     *)
LEMMA HeadPort ==
  ASSUME ScanInv, ports # <<>>
  PROVE  /\ Head(ports) = AtHead /\ AtHead \in Ports /\ AtHead \in Nat
         /\ dialled[AtHead] = <<>>
         /\ Len(Tail(ports)) = Len(ports) - 1 /\ Tail(ports) \in Seq(Nat)
         /\ Len(ports) \in Nat /\ Len(ports) > 0
         /\ \A k \in 1..(Len(ports) - 1) : Tail(ports)[k] = AtHead + k
<1>1. Len(ports) \in Nat /\ Len(ports) > 0 /\ Len(ports) <= port
  BY EmptySeq, LenProperties DEF ScanInv, ScanShape, InQueue
<1>2. port \in Nat /\ port <= SCAN!PortCount
  BY PortsNumbered DEF ScanInv, ScanShape
<1>3. port - Len(ports) \in Nat /\ port - Len(ports) < SCAN!PortCount
  BY <1>1, <1>2, PortsNumbered
<1>4. AtHead \in Ports /\ AtHead \in Nat
  BY <1>3, PortsNumbered, PortsAssumption DEF AtHead
<1>5. Head(ports) = AtHead
  <2>1. Head(ports) = ports[1] /\ ports[1] = AtHead + (1 - 1)
    BY <1>1 DEF ScanInv, ScanShape, InQueue
  <2>2. QED
    BY <1>4, <2>1
<1>6. dialled[AtHead] = <<>>
  <2>1. ~(AtHead < AtHead)
    BY <1>4
  <2>2. QED
    BY <1>4, <2>1, Zenon DEF ScanInv, InQueue
<1>7. Len(Tail(ports)) = Len(ports) - 1 /\ Tail(ports) \in Seq(Nat)
  BY <1>1, HeadTailProperties DEF ScanInv, ScanShape
<1>8. ASSUME NEW k \in 1..(Len(ports) - 1) PROVE Tail(ports)[k] = AtHead + k
  <2>1. k + 1 \in 1..Len(ports) /\ k \in Nat
    BY <1>1
  <2>2. Tail(ports)[k] = ports[k + 1]
    BY <1>1, HeadTailProperties DEF ScanInv, ScanShape
  <2>3. ports[k + 1] = AtHead + ((k + 1) - 1)
    BY <2>1 DEF ScanInv, InQueue
  <2>4. QED
    BY <1>4, <2>1, <2>2, <2>3
<1>9. QED
  BY <1>1, <1>4, <1>5, <1>6, <1>7, <1>8

LEMMA FeedKeeps == ScanInv /\ SCAN!Feed => ScanInv'
<1> SUFFICES ASSUME ScanInv, SCAN!Feed PROVE ScanInv'
  OBVIOUS
<1>1. /\ scan = "feed" /\ port < SCAN!PortCount /\ port' = port + 1
      /\ ports' = Append(ports, SCAN!First + port)
      /\ UNCHANGED <<team, scan, dial, ended, open, found, dialled>>
      /\ Len(ports) < Cardinality(team)
  BY DEF SCAN!Feed, SCAN!Room, SCAN!Cardinality, Cardinality
<1>2. port \in Nat /\ SCAN!PortCount \in Nat /\ SCAN!First \in Nat /\ SCAN!First + port \in Nat
  BY <1>1, PortsNumbered DEF ScanInv, ScanShape
<1>3. /\ ports' \in Seq(Nat) /\ Len(ports') = Len(ports) + 1 /\ Len(ports) \in Nat
      /\ \A k \in 1..Len(ports) : ports'[k] = ports[k]
      /\ ports'[Len(ports) + 1] = SCAN!First + port
  BY <1>1, <1>2, AppendProperties, LenProperties DEF ScanInv, ScanShape
<1>4. AtHead' = AtHead /\ AtHead = SCAN!First + (port - Len(ports))
  BY <1>1, <1>2, <1>3 DEF AtHead
<1>5. ScanShape'
  BY <1>1, <1>2, <1>3 DEF ScanInv, ScanShape
<1>6. InQueue'
  <2>1. Len(ports') <= port'
    BY <1>1, <1>2, <1>3 DEF ScanInv, InQueue
  <2>2. ASSUME NEW k \in 1..Len(ports') PROVE ports'[k] = AtHead + (k - 1)
    <3>1. CASE k \in 1..Len(ports)
      BY <1>3, <3>1 DEF ScanInv, InQueue
    <3>2. CASE k = Len(ports) + 1
      BY <1>2, <1>3, <1>4, <3>2
    <3>3. QED
      BY <1>3, <3>1, <3>2
  <2>3. QED
    BY <1>1, <1>4, <2>1, <2>2 DEF ScanInv, InQueue
<1>7. Found'
  BY <1>1 DEF ScanInv, Found, Answered
<1>8. Leaving'
  <2>1. team # {}
    <3> SUFFICES ASSUME team = {} PROVE FALSE
      OBVIOUS
    <3>1. Cardinality(team) = 0
      BY FS_EmptySet
    <3>2. QED
      BY <1>1, <1>3, <3>1
  <2>2. ended = {}
    BY <1>1 DEF ScanInv, Leaving
  <2>3. QED
    BY <1>1, <2>1, <2>2 DEF ScanInv, Leaving
<1>9. QED
  BY <1>5, <1>6, <1>7, <1>8 DEF ScanInv

LEMMA CloseQueueKeeps == ScanInv /\ SCAN!CloseQueue => ScanInv'
<1> SUFFICES ASSUME ScanInv, SCAN!CloseQueue PROVE ScanInv'
  OBVIOUS
<1>1. /\ scan = "feed" /\ port = SCAN!PortCount /\ scan' = "wait"
      /\ UNCHANGED <<team, port, ports, dial, ended, open, found, dialled>>
  BY DEF SCAN!CloseQueue
<1>2. ScanShape' /\ Found' /\ Leaving'
  BY <1>1 DEF ScanInv, ScanShape, Found, Answered, Leaving
<1>3. InQueue'
  BY <1>1 DEF ScanInv, InQueue, AtHead
<1>4. QED
  BY <1>2, <1>3 DEF ScanInv

LEMMA DialKeeps == \A w \in Workers : ScanInv /\ SCAN!Dial(w) => ScanInv'
<1> SUFFICES ASSUME NEW w \in Workers, ScanInv, SCAN!Dial(w) PROVE ScanInv'
  OBVIOUS
<1> DEFINE h == AtHead
<1>1. /\ h = Head(ports) /\ h \in Ports /\ h \in Nat /\ dialled[h] = <<>>
      /\ Len(Tail(ports)) = Len(ports) - 1 /\ Tail(ports) \in Seq(Nat)
      /\ Len(ports) \in Nat /\ Len(ports) > 0
      /\ \A k \in 1..(Len(ports) - 1) : Tail(ports)[k] = h + k
  BY HeadPort DEF SCAN!Dial
<1>2. h = SCAN!First + (port - Len(ports))
  BY DEF AtHead
<1> HIDE DEF h
<1>3. PICK up \in BOOLEAN :
        /\ dial' = [dial EXCEPT ![w] = [port |-> h, up |-> up]]
        /\ dialled' = [dialled EXCEPT ![h] = Append(@, up)]
  BY <1>1 DEF SCAN!Dial
<1>4. /\ w \in team /\ dial[w] = SCAN!Idle /\ ports' = Tail(ports)
      /\ UNCHANGED <<team, scan, port, ended, open, found>>
      /\ ports # <<>>
  BY DEF SCAN!Dial
<1>5. dial \in [Workers -> [port : Nat, up : BOOLEAN]] /\ dialled \in [Ports -> Seq(BOOLEAN)]
  BY DEF ScanInv, ScanShape
<1>6. /\ dialled'[h] = <<up>>
      /\ \A p \in Ports \ {h} : dialled'[p] = dialled[p]
      /\ dial'[w].port = h /\ dial'[w].up = up /\ dial[w].up = FALSE
      /\ \A v \in Workers \ {w} : dial'[v] = dial[v]
  <2>1. Append(<<>>, up) = <<up>>
    OBVIOUS
  <2>2. dialled'[h] = <<up>> /\ \A p \in Ports \ {h} : dialled'[p] = dialled[p]
    BY <1>1, <1>3, <1>5, <2>1
  <2>3. QED
    BY <1>3, <1>4, <1>5, <2>2 DEF SCAN!Idle
<1>7. ScanShape'
  <2>1. <<up>> \in Seq(BOOLEAN)
    OBVIOUS
  <2>2. dialled' \in [Ports -> Seq(BOOLEAN)]
    BY <1>1, <1>3, <1>5, <1>6, <2>1
  <2>3. dial' \in [Workers -> [port : Nat, up : BOOLEAN]]
    BY <1>1, <1>3, <1>5
  <2>4. QED
    BY <1>1, <1>4, <2>2, <2>3 DEF ScanInv, ScanShape
<1>8. AtHead' = h + 1 /\ port \in Nat /\ SCAN!First \in Nat
  <2>1. port \in Nat /\ SCAN!First \in Nat
    BY <1>1, PortsNumbered DEF ScanInv, ScanShape
  <2>2. AtHead' = SCAN!First + (port - (Len(ports) - 1))
    BY <1>1, <1>4 DEF AtHead
  <2>3. QED
    BY <1>1, <1>2, <2>1, <2>2
<1>9. InQueue'
  <2>1. Len(ports') <= port'
    BY <1>1, <1>4, <1>8 DEF ScanInv, InQueue
  <2>2. ASSUME NEW k \in 1..Len(ports') PROVE ports'[k] = AtHead' + (k - 1)
    <3>1. k \in 1..(Len(ports) - 1) /\ ports'[k] = Tail(ports)[k]
      BY <1>1, <1>4
    <3>2. ports'[k] = h + k
      BY <1>1, <3>1
    <3>3. h + k = (h + 1) + (k - 1)
      BY <1>1, <3>1
    <3>4. QED
      BY <1>8, <3>2, <3>3
  <2>3. ASSUME NEW p \in Ports
        PROVE  IF p < AtHead' THEN dialled'[p] \in {<<TRUE>>, <<FALSE>>}
                              ELSE dialled'[p] = <<>>
    <3>1. CASE p = h
      <4>1. p < AtHead' /\ dialled'[p] = <<up>>
        BY <1>1, <1>6, <1>8, <3>1
      <4>2. QED
        BY <4>1, OneAnswer, Zenon
    <3>2. CASE p # h
      <4>1. p \in Nat
        BY PortsAssumption
      <4>2. IF p < h THEN dialled[p] \in {<<TRUE>>, <<FALSE>>} ELSE dialled[p] = <<>>
        BY DEF ScanInv, InQueue, h
      <4>3. p < h <=> p < AtHead'
        BY <1>1, <1>8, <3>2, <4>1
      <4>4. QED
        BY <1>6, <3>2, <4>2, <4>3
    <3>3. QED
      BY <3>1, <3>2
  <2>4. QED
    BY <2>1, <2>2, <2>3 DEF InQueue
<1>10. Answered' = IF up THEN Answered \cup {h} ELSE Answered
  <2>1. Answered' = {p \in Ports : dialled'[p] = <<TRUE>>}
    BY DEF Answered
  <2>2. h \notin Answered
    BY <1>1, OneAnswer, Zenon DEF Answered
  <2>3. dialled'[h] = <<TRUE>> <=> up
    BY <1>6, OneAnswer, Zenon
  <2>4. ASSUME NEW p \in Ports
        PROVE  p \in Answered' <=> p \in Answered \/ (p = h /\ up)
    <3>1. CASE p = h
      BY <2>1, <2>2, <2>3, <3>1
    <3>2. CASE p # h
      BY <1>6, <2>1, <3>2 DEF Answered
    <3>3. QED
      BY <3>1, <3>2
  <2>5. Answered \subseteq Ports /\ Answered' \subseteq Ports
    BY <2>1 DEF Answered
  <2>6. QED
    BY <1>1, <2>4, <2>5
<1>11. h \notin Answered /\ Answered \subseteq Answered'
  <2>1. h \notin Answered
    BY <1>1, OneAnswer, Zenon DEF Answered
  <2>2. QED
    BY <1>10, <2>1
<1>12. Found'
  <2>1. \A k \in 1..Len(open') : open'[k] \in Answered'
    BY <1>4, <1>11 DEF ScanInv, Found
  <2>2. \A j, k \in 1..Len(open') : j # k => open'[j] # open'[k]
    BY <1>4 DEF ScanInv, Found
  <2>3. ASSUME NEW v \in Workers, dial'[v].up
        PROVE  /\ dial'[v].port \in Answered'
               /\ \A k \in 1..Len(open') : open'[k] # dial'[v].port
               /\ \A u \in Workers \ {v} : dial'[u].up => dial'[u].port # dial'[v].port
    <3>1. CASE v = w
      <4>1. \A k \in 1..Len(open) : open[k] # h
        BY <1>11 DEF ScanInv, Found
      <4>2. \A u \in Workers \ {w} : dial[u].up => dial[u].port # h
        BY <1>11 DEF ScanInv, Found
      <4>3. h \in Answered'
        BY <1>6, <1>10, <2>3, <3>1
      <4>4. QED
        BY <1>4, <1>6, <3>1, <4>1, <4>2, <4>3
    <3>2. CASE v # w
      <4>1. dial'[v] = dial[v] /\ dial[v].up
        BY <1>6, <2>3, <3>2
      <4>2. /\ dial[v].port \in Answered
            /\ \A k \in 1..Len(open) : open[k] # dial[v].port
            /\ \A u \in Workers \ {v} : dial[u].up => dial[u].port # dial[v].port
        BY <4>1 DEF ScanInv, Found
      <4>3. dial[v].port # h
        BY <1>11, <4>2
      <4>4. QED
        BY <1>4, <1>6, <1>11, <4>1, <4>2, <4>3
    <3>3. QED
      BY <3>1, <3>2
  <2>4. ASSUME NEW p \in Answered'
        PROVE  \/ \E k \in 1..Len(open') : open'[k] = p
               \/ \E v \in Workers : dial'[v].up /\ dial'[v].port = p
    <3>1. CASE p \in Answered
      <4>1. CASE \E k \in 1..Len(open) : open[k] = p
        BY <1>4, <4>1
      <4>2. CASE \E v \in Workers : dial[v].up /\ dial[v].port = p
        <5>1. PICK v \in Workers : dial[v].up /\ dial[v].port = p
          BY <4>2
        <5>2. v # w
          BY <1>6, <5>1
        <5>3. QED
          BY <1>6, <5>1, <5>2
      <4>3. QED
        BY <3>1, <4>1, <4>2 DEF ScanInv, Found
    <3>2. CASE p \notin Answered
      BY <1>6, <1>10, <2>4, <3>2
    <3>3. QED
      BY <3>1, <3>2
  <2>5. QED
    BY <2>1, <2>2, <2>3, <2>4 DEF Found
<1>13. Leaving'
  <2>1. ended = {} /\ team # {}
    BY <1>4 DEF ScanInv, Leaving
  <2>2. \A v \in Workers \ team : dial'[v] = SCAN!Idle
    BY <1>4, <1>6 DEF ScanInv, Leaving
  <2>3. scan # "returned"
    BY <1>4, <2>1 DEF ScanInv, Leaving
  <2>4. QED
    BY <1>4, <2>1, <2>2, <2>3 DEF ScanInv, Leaving
<1>14. QED
  BY <1>7, <1>9, <1>12, <1>13 DEF ScanInv

LEMMA RecordKeeps == \A w \in Workers : ScanInv /\ SCAN!Record(w) => ScanInv'
<1> SUFFICES ASSUME NEW w \in Workers, ScanInv, SCAN!Record(w) PROVE ScanInv'
  OBVIOUS
<1>1. /\ dial[w] # SCAN!Idle
      /\ open' = IF dial[w].up THEN Append(open, dial[w].port) ELSE open
      /\ dial' = [dial EXCEPT ![w] = SCAN!Idle]
      /\ UNCHANGED <<team, scan, port, ports, ended, found, dialled>>
  BY DEF SCAN!Record
<1>2. /\ dial \in [Workers -> [port : Nat, up : BOOLEAN]]
      /\ open \in Seq(Nat) /\ Len(open) \in Nat
  BY LenProperties DEF ScanInv, ScanShape
<1>3. w \in team \ ended
  BY <1>1 DEF ScanInv, Leaving
<1>4. /\ dial'[w] = SCAN!Idle /\ dial'[w].up = FALSE
      /\ \A v \in Workers \ {w} : dial'[v] = dial[v]
  BY <1>1, <1>2 DEF SCAN!Idle
<1>5. /\ open' \in Seq(Nat) /\ Len(open') \in Nat
      /\ Len(open') = IF dial[w].up THEN Len(open) + 1 ELSE Len(open)
      /\ \A k \in 1..Len(open) : open'[k] = open[k]
      /\ dial[w].up => open'[Len(open) + 1] = dial[w].port
  BY <1>1, <1>2, AppendProperties
<1>6. ScanShape'
  <2>1. dial' \in [Workers -> [port : Nat, up : BOOLEAN]]
    BY <1>1, <1>2 DEF SCAN!Idle
  <2>2. QED
    BY <1>1, <1>5, <2>1 DEF ScanInv, ScanShape
<1>7. InQueue' /\ Answered' = Answered
  BY <1>1 DEF ScanInv, InQueue, AtHead, Answered
<1>8. Found'
  <2>1. ASSUME NEW k \in 1..Len(open')
        PROVE  \/ k \in 1..Len(open) /\ open'[k] = open[k]
               \/ k = Len(open) + 1 /\ dial[w].up /\ open'[k] = dial[w].port
    BY <1>2, <1>5
  <2>2. /\ \A k \in 1..Len(open) : open[k] \in Answered
        /\ \A j, k \in 1..Len(open) : j # k => open[j] # open[k]
        /\ \A v \in Workers : dial[v].up =>
             /\ dial[v].port \in Answered
             /\ \A k \in 1..Len(open) : open[k] # dial[v].port
             /\ \A u \in Workers \ {v} : dial[u].up => dial[u].port # dial[v].port
        /\ \A p \in Answered : \/ \E k \in 1..Len(open) : open[k] = p
                               \/ \E v \in Workers : dial[v].up /\ dial[v].port = p
    BY DEF ScanInv, Found
  <2>3. \A k \in 1..Len(open') : open'[k] \in Answered
    BY <2>1, <2>2
  <2>4. \A j, k \in 1..Len(open') : j # k => open'[j] # open'[k]
    <3> SUFFICES ASSUME NEW j \in 1..Len(open'), NEW k \in 1..Len(open'), j # k
                 PROVE  open'[j] # open'[k]
      OBVIOUS
    <3>1. /\ \/ j \in 1..Len(open) /\ open'[j] = open[j]
             \/ j = Len(open) + 1 /\ dial[w].up /\ open'[j] = dial[w].port
          /\ \/ k \in 1..Len(open) /\ open'[k] = open[k]
             \/ k = Len(open) + 1 /\ dial[w].up /\ open'[k] = dial[w].port
      BY <2>1
    <3>2. QED
      BY <2>2, <3>1
  <2>5. ASSUME NEW v \in Workers, dial'[v].up
        PROVE  /\ dial'[v].port \in Answered
               /\ \A k \in 1..Len(open') : open'[k] # dial'[v].port
               /\ \A u \in Workers \ {v} : dial'[u].up => dial'[u].port # dial'[v].port
    <3>1. v # w /\ dial'[v] = dial[v] /\ dial[v].up
      BY <1>4, <2>5
    <3>2. ASSUME NEW k \in 1..Len(open') PROVE open'[k] # dial[v].port
      BY <2>1, <2>2, <3>1
    <3>3. ASSUME NEW u \in Workers \ {v}, dial'[u].up PROVE dial'[u].port # dial[v].port
      BY <1>4, <2>2, <3>1, <3>3
    <3>4. QED
      BY <2>2, <3>1, <3>2, <3>3
  <2>6. ASSUME NEW p \in Answered
        PROVE  \/ \E k \in 1..Len(open') : open'[k] = p
               \/ \E v \in Workers : dial'[v].up /\ dial'[v].port = p
    <3>1. CASE \E k \in 1..Len(open) : open[k] = p
      <4>1. PICK k \in 1..Len(open) : open[k] = p
        BY <3>1
      <4>2. k \in 1..Len(open') /\ open'[k] = p
        BY <1>2, <1>5, <4>1
      <4>3. QED
        BY <4>2
    <3>2. CASE \E v \in Workers : dial[v].up /\ dial[v].port = p
      <4>1. PICK v \in Workers : dial[v].up /\ dial[v].port = p
        BY <3>2
      <4>2. CASE v = w
        <5>1. Len(open) + 1 \in 1..Len(open') /\ open'[Len(open) + 1] = p
          BY <1>2, <1>5, <4>1, <4>2
        <5>2. QED
          BY <5>1
      <4>3. CASE v # w
        BY <1>4, <4>1, <4>3
      <4>4. QED
        BY <4>2, <4>3
    <3>3. QED
      BY <2>2, <3>1, <3>2
  <2>7. QED
    BY <1>7, <2>3, <2>4, <2>5, <2>6 DEF Found
<1>9. Leaving'
  <2>1. scan # "returned"
    BY <1>3 DEF ScanInv, Leaving
  <2>2. QED
    BY <1>1, <1>4, <2>1 DEF ScanInv, Leaving
<1>10. QED
  BY <1>6, <1>7, <1>8, <1>9 DEF ScanInv

LEMMA ExitKeeps == \A w \in Workers : ScanInv /\ SCAN!Exit(w) => ScanInv'
<1> SUFFICES ASSUME NEW w \in Workers, ScanInv, SCAN!Exit(w) PROVE ScanInv'
  OBVIOUS
<1>1. /\ w \in team \ ended /\ dial[w] = SCAN!Idle /\ ports = <<>> /\ scan = "wait"
      /\ ended' = ended \cup {w}
      /\ UNCHANGED <<team, scan, port, ports, dial, open, found, dialled>>
  BY DEF SCAN!Exit
<1>2. ScanShape' /\ Found' /\ Leaving'
  BY <1>1 DEF ScanInv, ScanShape, Found, Answered, Leaving
<1>3. InQueue'
  BY <1>1 DEF ScanInv, InQueue, AtHead
<1>4. QED
  BY <1>2, <1>3 DEF ScanInv

LEMMA ReturnKeeps == ScanInv /\ SCAN!Return => ScanInv'
<1> SUFFICES ASSUME ScanInv, SCAN!Return PROVE ScanInv'
  OBVIOUS
<1>1. /\ scan = "wait" /\ ended = team /\ scan' = "returned"
      /\ found' = SCAN!Sorted(open)
      /\ UNCHANGED <<team, port, ports, dial, ended, open, dialled>>
  BY DEF SCAN!Return
<1>2. ScanShape' /\ Found'
  BY <1>1 DEF ScanInv, ScanShape, Found, Answered
<1>3. SCAN!Sorted(open)' = SCAN!Sorted(open)
  BY <1>1 DEF SCAN!Sorted
<1>4. Leaving'
  BY <1>1, <1>3 DEF ScanInv, Leaving
<1>5. InQueue'
  BY <1>1 DEF ScanInv, InQueue, AtHead
<1>6. QED
  BY <1>2, <1>4, <1>5 DEF ScanInv

LEMMA ScanStep == ScanInv /\ [SCAN!Next]_(SCAN!vars) => ScanInv'
<1> SUFFICES ASSUME ScanInv, [SCAN!Next]_(SCAN!vars) PROVE ScanInv'
  OBVIOUS
<1>1. CASE SCAN!Next
  BY <1>1, FeedKeeps, CloseQueueKeeps, DialKeeps, RecordKeeps, ExitKeeps, ReturnKeeps
     DEF SCAN!Next
<1>2. CASE UNCHANGED SCAN!vars
  <2>1. UNCHANGED <<team, scan, port, ports, dial, ended, open, found, dialled>>
    BY <1>2 DEF SCAN!vars
  <2>2. ScanShape' /\ Found'
    BY <2>1 DEF ScanInv, ScanShape, Found, Answered
  <2>3. InQueue'
    BY <2>1 DEF ScanInv, InQueue, AtHead
  <2>4. Leaving'
    BY <2>1 DEF ScanInv, Leaving, SCAN!Sorted
  <2>5. QED
    BY <2>2, <2>3, <2>4 DEF ScanInv
<1>3. QED
  BY <1>1, <1>2

LEMMA ScanSafe == ScanInv => EachPortOnce
<1> SUFFICES ASSUME ScanInv PROVE SCAN!EachPortOnce
  BY DEF EachPortOnce
<1>1. \A p \in Ports : dialled[p] = <<>> \/ dialled[p] \in {<<TRUE>>, <<FALSE>>}
  BY DEF ScanInv, InQueue
<1>2. Len(<<>>) = 0 /\ Len(<<TRUE>>) = 1 /\ Len(<<FALSE>>) = 1
  OBVIOUS
<1>3. \A p \in Ports : Len(dialled[p]) <= 1
  <2>1. TAKE p \in Ports
  <2>2. Len(dialled[p]) = 0 \/ Len(dialled[p]) = 1
    BY <1>1, <1>2, Zenon
  <2>3. 0 <= 1 /\ 1 <= 1
    OBVIOUS
  <2>4. QED
    BY <2>2, <2>3, Zenon
<1>4. ASSUME scan = "returned"
      PROVE  /\ \A p \in Ports : Len(dialled[p]) = 1
             /\ {found[k] : k \in DOMAIN found} = Answered
             /\ \A k \in 2..Len(found) : found[k - 1] < found[k]
  <2>1. ended = team /\ found = SCAN!Sorted(open) /\ port = SCAN!PortCount
    BY <1>4 DEF ScanInv, Leaving
  <2>2. ports = <<>>
    BY <2>1 DEF ScanInv, Leaving
  <2>3. port \in Nat /\ Len(ports) = 0 /\ AtHead = SCAN!First + (port - Len(ports))
    BY <2>1, <2>2, PortsNumbered DEF AtHead
  <2>4. ASSUME NEW p \in Ports PROVE Len(dialled[p]) = 1
    <3>1. p \in Nat /\ SCAN!First \in Nat /\ p < SCAN!First + port
      BY <2>1, PortsNumbered, PortsAssumption
    <3>2. p < AtHead
      BY <2>3, <3>1
    <3>3. dialled[p] \in {<<TRUE>>, <<FALSE>>}
      BY <3>2, Zenon DEF ScanInv, InQueue
    <3>4. QED
      BY <1>2, <3>3, Zenon
  <2>5. \A w \in Workers : dial[w].up = FALSE
    <3>1. TAKE w \in Workers
    <3>2. dial[w] = SCAN!Idle
      BY <2>1 DEF ScanInv, Leaving
    <3>3. QED
      BY <3>2 DEF SCAN!Idle
  <2>6. open \in Seq(Nat) /\ \A j, k \in 1..Len(open) : j # k => open[j] # open[k]
    BY DEF ScanInv, ScanShape, Found
  <2>7. /\ DOMAIN found = 1..Len(open) /\ Len(found) = Len(open)
        /\ \A k \in 1..Len(open) : \E j \in 1..Len(open) : found[k] = open[j]
        /\ \A k \in 1..Len(open) : \E j \in 1..Len(open) : found[j] = open[k]
        /\ \A k \in 2..Len(open) : found[k - 1] < found[k]
    BY <2>1, <2>6, SortedIsSorted
  <2>8. \A k \in DOMAIN found : found[k] \in Answered
    BY <2>7 DEF ScanInv, Found
  <2>9. \A p \in Answered : \E k \in DOMAIN found : found[k] = p
    <3>1. TAKE p \in Answered
    <3>2. \/ \E k \in 1..Len(open) : open[k] = p
          \/ \E w \in Workers : dial[w].up /\ dial[w].port = p
      BY Zenon DEF ScanInv, Found
    <3>3. PICK k \in 1..Len(open) : open[k] = p
      BY <2>5, <3>2
    <3>4. PICK j \in 1..Len(open) : found[j] = open[k]
      BY <2>7
    <3>5. QED
      BY <2>7, <3>3, <3>4
  <2>10. {found[k] : k \in DOMAIN found} = Answered
    BY <2>8, <2>9
  <2>11. QED
    BY <2>4, <2>7, <2>10
<1>5. QED
  BY <1>3, <1>4 DEF SCAN!EachPortOnce, Answered

-----------------------------------------------------------------------------
(* PingPong.  While a call is under way exactly one goroutine has the turn, *)
(* and who has it, together with the loop variables, determines how many    *)
(* messages there are (Turn).  The slice is then always a prefix of ping,   *)
(* pong, ping, ...                                                          *)

(* Before the caller gives the first turn (line 42).                        *)
Before ==
  /\ said = <<>> /\ pingI = 0 /\ pongJ = 1
  /\ \/ /\ play = "start" \/ (play = "returned" /\ times <= 0)
        /\ ping = "none" /\ pong = "none"
     \/ /\ play = "send" /\ times > 0
        /\ ping = "recv"
        /\ \/ pong = "recv" /\ times > 1
           \/ pong \in {"close", "ended"} /\ times = 1

(* ping has it, with i messages so far, and appends the next.               *)
PingHas ==
  /\ ping = "append" /\ pingI % 2 = 0 /\ pingI < times
  /\ Len(said) = pingI
  /\ \/ pong = "recv" /\ pongJ = pingI + 1 /\ pongJ < times
     \/ pong \in {"close", "ended"} /\ pingI + 1 >= times

(* ping has appended and gives the turn to pong.                            *)
PingPasses ==
  /\ ping = "send" /\ pingI % 2 = 0 /\ pingI + 1 < times
  /\ Len(said) = pingI + 1
  /\ pong = "recv" /\ pongJ = pingI + 1

(* pong has it.  After the last but one message ping has left its loop.     *)
PongHas ==
  /\ pong = "append" /\ pongJ % 2 = 1 /\ pongJ < times
  /\ Len(said) = pongJ
  /\ pingI = pongJ + 1
  /\ \/ ping = "recv" /\ pingI < times
     \/ ping \in {"close", "ended"} /\ pingI >= times

PongPasses ==
  /\ pong = "send" /\ pongJ % 2 = 1 /\ pongJ + 1 < times
  /\ Len(said) = pongJ + 1
  /\ ping = "recv" /\ pingI = pongJ + 1

(* All n messages are there.                                                *)
AllSent ==
  /\ Len(said) = times
  /\ ping \in {"close", "ended"} /\ pong \in {"close", "ended"}

Turn ==
  \/ Before
  \/ times > 0 /\ play \in {"wait", "returned"}
       /\ (PingHas \/ PingPasses \/ PongHas \/ PongPasses \/ AllSent)

(* Who closes done, and what the caller has returned.                       *)
Closing ==
  /\ pong = "close" => times = 1
  /\ done => ping = "ended" \/ times = 1
  /\ times <= 0 => play \in {"start", "returned"} /\ ret = <<>>
  /\ fault # "none" => times = 1

TurnInv == TURN!TypeOK /\ TURN!Alternates /\ Turn /\ Closing /\ TURN!ReturnsMost

(* The invariant holds at the start.                                        *)
LEMMA TurnInit == TURN!Init => TurnInv
<1> SUFFICES ASSUME TURN!Init PROVE TurnInv
  OBVIOUS
<1> USE CallsAssumption DEF TURN!Init
<1>1. TURN!TypeOK /\ TURN!Alternates
  <2>1. said = <<>> /\ Len(said) = 0 /\ said \in Seq({"ping", "pong"})
    OBVIOUS
  <2>2. ret \in Seq({"ping", "pong"})
    OBVIOUS
  <2>3. times \in Int /\ (times > 0 => Len(said) <= times)
    BY <2>1
  <2>4. TURN!TypeOK
    BY <2>1, <2>2, <2>3 DEF TURN!TypeOK, TURN!Pcs
  <2>5. TURN!Alternates
    BY <2>1 DEF TURN!Alternates
  <2>6. QED
    BY <2>4, <2>5
<1>2. Turn /\ Closing /\ TURN!ReturnsMost
  BY DEF Turn, Before, Closing, TURN!ReturnsMost
<1>3. QED
  BY <1>1, <1>2 DEF TurnInv

(* Appending the message whose turn it is keeps the slice alternating.      *)
LEMMA AppendAlternates ==
  ASSUME NEW s \in Seq({"ping", "pong"}), NEW m \in {"ping", "pong"},
         \A k \in 1..Len(s) : s[k] = TURN!Msg(k),
         m = TURN!Msg(Len(s) + 1)
  PROVE  /\ Append(s, m) \in Seq({"ping", "pong"})
         /\ Len(Append(s, m)) = Len(s) + 1
         /\ \A k \in 1..Len(Append(s, m)) : Append(s, m)[k] = TURN!Msg(k)
<1>1. /\ Append(s, m) \in Seq({"ping", "pong"})
      /\ Len(Append(s, m)) = Len(s) + 1
      /\ Len(s) \in Nat
  OBVIOUS
<1>2. ASSUME NEW k \in 1..(Len(s) + 1)
      PROVE  Append(s, m)[k] = TURN!Msg(k)
  <2>1. CASE k = Len(s) + 1
    BY <2>1
  <2>2. CASE k # Len(s) + 1
    <3>1. k \in 1..Len(s) /\ Append(s, m)[k] = s[k]
      BY <1>1, <2>2
    <3>2. QED
      BY <3>1
  <2>3. QED
    BY <2>1, <2>2
<1>3. QED
  BY <1>1, <1>2

(* A step keeps the invariant.                                              *)
LEMMA TurnStep == TurnInv /\ [TURN!Next]_(TURN!vars) => TurnInv'
<1> SUFFICES ASSUME TurnInv, [TURN!Next]_(TURN!vars) PROVE TurnInv'
  OBVIOUS
<1> USE CallsAssumption DEF TurnInv
<1> times \in Int /\ pingI \in Nat /\ pongJ \in Nat /\ Len(said) \in Nat
  BY DEF TURN!TypeOK
<1>1. CASE TURN!ReturnAtOnce
  BY <1>1 DEF TURN!ReturnAtOnce, TURN!TypeOK, TURN!Alternates, Turn, Before, PingHas, PingPasses,
            PongHas, PongPasses, AllSent, Closing, TURN!ReturnsMost, TURN!Pcs
<1>2. CASE TURN!Start
  BY <1>2 DEF TURN!Start, TURN!PingAt, TURN!PongAt, TURN!TypeOK, TURN!Alternates, Turn, Before,
            PingHas, PingPasses,
            PongHas, PongPasses, AllSent, Closing, TURN!ReturnsMost, TURN!Pcs
<1>3. CASE TURN!FirstTurn
  BY <1>3 DEF TURN!FirstTurn, TURN!TypeOK, TURN!Alternates, Turn, Before, PingHas, PingPasses,
            PongHas, PongPasses, AllSent, Closing, TURN!ReturnsMost, TURN!Pcs
<1>4. CASE TURN!PingAppends
  <2> USE <1>4 DEF TURN!PingAppends
  <2>1. PingHas /\ play \in {"wait", "returned"} /\ times > 0
    BY DEF Turn, Before, PingHas, PingPasses, PongHas, PongPasses, AllSent
  <2>2. "ping" = TURN!Msg(Len(said) + 1)
    BY <2>1 DEF PingHas, TURN!Msg
  <2>3. /\ said' \in Seq({"ping", "pong"})
        /\ Len(said') = Len(said) + 1
        /\ TURN!Alternates'
    BY <2>2, AppendAlternates DEF TURN!TypeOK, TURN!Alternates
  <2>4. TURN!TypeOK'
    BY <2>1, <2>3 DEF TURN!TypeOK, TURN!Pcs, PingHas, TURN!PingAt
  <2>5. Turn'
    BY <2>1, <2>3 DEF Turn, PingHas, PingPasses, AllSent, TURN!PingAt
  <2>6. Closing' /\ TURN!ReturnsMost'
    BY <2>1 DEF Closing, TURN!ReturnsMost, PingHas, TURN!PingAt
  <2>7. QED
    BY <2>3, <2>4, <2>5, <2>6
<1>5. CASE TURN!PingGives
  BY <1>5 DEF TURN!PingGives, TURN!PingAt, TURN!TypeOK, TURN!Alternates, Turn, Before, PingHas,
            PingPasses,
            PongHas, PongPasses, AllSent, Closing, TURN!ReturnsMost, TURN!Pcs
<1>6. CASE TURN!PongAppends
  <2> USE <1>6 DEF TURN!PongAppends
  <2>1. PongHas /\ play \in {"wait", "returned"} /\ times > 0
    BY DEF Turn, Before, PingHas, PingPasses, PongHas, PongPasses, AllSent
  <2>2. "pong" = TURN!Msg(Len(said) + 1)
    BY <2>1 DEF PongHas, TURN!Msg
  <2>3. /\ said' \in Seq({"ping", "pong"})
        /\ Len(said') = Len(said) + 1
        /\ TURN!Alternates'
    BY <2>2, AppendAlternates DEF TURN!TypeOK, TURN!Alternates
  <2>4. TURN!TypeOK'
    BY <2>1, <2>3 DEF TURN!TypeOK, TURN!Pcs, PongHas, TURN!PongAt
  <2>5. Turn'
    BY <2>1, <2>3 DEF Turn, PongHas, PongPasses, AllSent, TURN!PongAt
  <2>6. Closing' /\ TURN!ReturnsMost'
    BY <2>1 DEF Closing, TURN!ReturnsMost, PongHas, TURN!PongAt
  <2>7. QED
    BY <2>3, <2>4, <2>5, <2>6
<1>7. CASE TURN!PongGives
  BY <1>7 DEF TURN!PongGives, TURN!PongAt, TURN!TypeOK, TURN!Alternates, Turn, Before, PingHas,
            PingPasses,
            PongHas, PongPasses, AllSent, Closing, TURN!ReturnsMost, TURN!Pcs
<1>8. CASE TURN!PingCloses
  BY <1>8 DEF TURN!PingCloses, TURN!CloseDone, TURN!TypeOK, TURN!Alternates, Turn, Before,
            PingHas, PingPasses,
            PongHas, PongPasses, AllSent, Closing, TURN!ReturnsMost, TURN!Pcs
<1>9. CASE TURN!PongCloses
  BY <1>9 DEF TURN!PongCloses, TURN!CloseDone, TURN!TypeOK, TURN!Alternates, Turn, Before,
            PingHas, PingPasses,
            PongHas, PongPasses, AllSent, Closing, TURN!ReturnsMost, TURN!Pcs
<1>10. CASE TURN!Return
  BY <1>10 DEF TURN!Return, TURN!TypeOK, TURN!Alternates, Turn, Before, PingHas, PingPasses,
            PongHas, PongPasses, AllSent, Closing, TURN!ReturnsMost, TURN!Pcs
<1>11. CASE UNCHANGED TURN!vars
  BY <1>11 DEF TURN!vars, TURN!TypeOK, TURN!Alternates, Turn, Before, PingHas, PingPasses,
            PongHas, PongPasses, AllSent, Closing, TURN!ReturnsMost, TURN!Pcs
<1>12. QED
  BY <1>1, <1>2, <1>3, <1>4, <1>5, <1>6, <1>7, <1>8, <1>9, <1>10, <1>11
     DEF TURN!Next, TURN!Step

LEMMA TurnSafe == TurnInv => TakeTurns /\ ReturnsMost
<1>1. TurnInv => TURN!OneAppends
  BY DEF TurnInv, Turn, Before, PingHas, PingPasses, PongHas, PongPasses, AllSent,
         TURN!OneAppends
<1>2. QED
  BY <1>1 DEF TurnInv, TakeTurns, TURN!TakeTurns, ReturnsMost

-----------------------------------------------------------------------------
(* The composition.                                                         *)

(* A step of the composition is one of the component's own, or leaves it    *)
(* where it is.                                                             *)
LEMMA FlowsSteps ==
  ASSUME [FlowsNext]_flows
  PROVE  /\ [Next]_vars
         /\ [FAN!Next]_(FAN!vars)
         /\ [PIP!Next]_(PIP!vars)
         /\ [SCAN!Next]_(SCAN!vars)
         /\ [TURN!Next]_(TURN!vars)
BY DEF FlowsNext, flows, fetchAll, fan, pipe, scanner, turns, vars,
       FAN!vars, PIP!vars, SCAN!vars, TURN!vars

LEMMA FlowsInits == FlowsInit => Init /\ FAN!Init /\ PIP!Init /\ SCAN!Init /\ TURN!Init
BY DEF FlowsInit

(* In the composition each component does what its own specification says,  *)
(* so what is proved of ParallelFetch alone holds here too.                 *)
THEOREM EachFlowAsAlone ==
  Flows => /\ Spec
           /\ FAN!Spec
           /\ PIP!Init /\ [][PIP!Next]_(PIP!vars)
           /\ SCAN!Init /\ [][SCAN!Next]_(SCAN!vars)
           /\ TURN!Spec
BY FlowsSteps, FlowsInits, PTL DEF Flows, Spec, FAN!Spec, TURN!Spec

(* The values go out to the channels in turn and come back once each        *)
(* (FanOut, lines 9-19; FanIn, lines 33-46), for any number of channels and *)
(* of values, read through FanIn or in turn.                                *)
THEOREM InTurn == Flows => []InTurnAndOnce
BY EachFlowAsAlone, FanInit, FanStep, FanSafe, PTL DEF FAN!Spec

(* out is closed behind the last value, when no goroutine of FanIn can      *)
(* still send (FanIn, lines 40-43), for any number of channels and values.  *)
THEOREM OutClosedLast == Flows => []ClosedBehindAll
BY EachFlowAsAlone, FanInit, FanStep, FanSafe, PTL DEF FAN!Spec

(* The caller reads the squares that pred accepts in the order of their     *)
(* numbers, and the end only behind all of them (Generate, Square and       *)
(* Filter, lines 3-36), for any list and predicate.                         *)
THEOREM ComposedInOrder == Flows => []InOrderAndAll
BY EachFlowAsAlone, PipeInit, PipeStep, PipeSafe, PTL

(* Each port of the range is dialled once and those that answered come back *)
(* sorted (ScanRange, lines 22-49), for any range and number of workers.    *)
THEOREM PortsScanned == Flows => []EachPortOnce
BY EachFlowAsAlone, ScanInit, ScanStep, ScanSafe, PTL

(* The goroutines of PingPong never append at the same time (lines 18-33),  *)
(* and the slice is always a prefix of ping, pong, ping, ... (task.md:3).   *)
THEOREM TurnsTaken == Flows => []TakeTurns
BY EachFlowAsAlone, TurnInit, TurnStep, TurnSafe, PTL DEF TURN!Spec

(* PingPong returns every message for an odd n but 1, and otherwise all but *)
(* the last at least (lines 24 and 45), for any set of calls.               *)
THEOREM MostReturned == Flows => []ReturnsMost
BY EachFlowAsAlone, TurnInit, TurnStep, TurnSafe, PTL DEF TURN!Spec
=============================================================================
