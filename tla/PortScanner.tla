----------------------------- MODULE PortScanner -----------------------------
(***************************************************************************)
(* ScanRange of 26-networking/exercises/medium/01-tcp-scanner/solution/    *)
(* main.go: the caller feeds the ports to a channel as long as the number  *)
(* of workers, the workers dial and append to one slice under a mutex.     *)
(***************************************************************************)
EXTENDS Naturals, Sequences, FiniteSets, SequencesExt

CONSTANTS
  Workers,  \* the goroutines there may be
  Ports     \* the argument: the ports from startPort to endPort

VARIABLES
  team,   \* the workers of this call: the argument workers is their number
  main,   \* "feed", "wait" or "returned"
  next,   \* p of line 41, as its place in the range
  ports,  \* the channel
  job,    \* the port each worker dials, its dial's success, or Idle
  ended,  \* the workers that have run wg.Done
  open,   \* the slice, in the order of the appends
  result, \* what the call returned
  dialled \* history: port -> whether its dials succeeded, in order

vars == <<team, main, next, ports, job, ended, open, result, dialled>>

First == CHOOSE p \in Ports : \A q \in Ports : p <= q
Idle == [port |-> 0, up |-> FALSE]

Init ==
  /\ team \in SUBSET Workers
  /\ main = "feed" /\ next = 0 /\ ports = <<>>
  /\ job = [w \in Workers |-> Idle]
  /\ ended = {}
  /\ open = <<>> /\ result = <<>>
  /\ dialled = [p \in Ports |-> <<>>]

PortCount == Cardinality(Ports)

(* slices.Sort: the same numbers, in ascending order (external).            *)
Sorted(s) ==
  LET order == CHOOSE p \in Bijection(DOMAIN s, DOMAIN s) :
                 \A a, b \in DOMAIN s : a < b => s[p[a]] <= s[p[b]]
  IN  [k \in DOMAIN s |-> s[order[k]]]

(* Room in the channel; with no workers it has none, and no receiver        *)
Room == Len(ports) < Cardinality(team)

(* lines 41-43                                                              *)
Feed ==
  /\ main = "feed" /\ next < PortCount /\ Room
  /\ ports' = Append(ports, First + next)
  /\ next' = next + 1
  /\ UNCHANGED <<team, main, job, ended, open, result, dialled>>

(* line 44                                                                  *)
CloseQueue ==
  /\ main = "feed" /\ next = PortCount
  /\ main' = "wait"
  /\ UNCHANGED <<team, next, ports, job, ended, open, result, dialled>>

(* lines 31-32, 11-19: the dial of the next port succeeds or fails          *)
Dial(w) ==
  /\ w \in team /\ job[w] = Idle /\ ports # <<>>
  /\ \E up \in BOOLEAN :
       /\ job' = [job EXCEPT ![w] = [port |-> Head(ports), up |-> up]]
       /\ dialled' = [dialled EXCEPT ![Head(ports)] = Append(@, up)]
  /\ ports' = Tail(ports)
  /\ UNCHANGED <<team, main, next, ended, open, result>>

(* lines 33-35: an open port is appended under the mutex                    *)
Record(w) ==
  /\ job[w] # Idle
  /\ open' = IF job[w].up THEN Append(open, job[w].port) ELSE open
  /\ job' = [job EXCEPT ![w] = Idle]
  /\ UNCHANGED <<team, main, next, ports, ended, result, dialled>>

Exit_WhenDrained(w) ==
  /\ w \in team \ ended /\ ports = <<>> /\ main = "wait"
  /\ ended' = ended \cup {w}
  /\ UNCHANGED <<team, main, next, ports, job, open, result, dialled>>

(* lines 30-31: the channel is closed and empty; wg.Done                    *)
Exit(w) ==
  /\ w \in team \ ended /\ job[w] = Idle /\ ports = <<>> /\ main = "wait"
  /\ ended' = ended \cup {w}
  /\ UNCHANGED <<team, main, next, ports, job, open, result, dialled>>

(* lines 45-48: all workers are done; the slice is sorted                   *)
Return ==
  /\ main = "wait" /\ ended = team
  /\ main' = "returned"
  /\ result' = Sorted(open)
  /\ UNCHANGED <<team, next, ports, job, ended, open, dialled>>

Next ==
  \/ Feed \/ CloseQueue \/ Return
  \/ \E w \in Workers : Dial(w) \/ Record(w) \/ Exit(w)

-----------------------------------------------------------------------------
(* Each port is dialled once at most while the call runs; the call returns  *)
(* when all have been, and returns those that answered, in ascending order, *)
(* whatever order the workers came in.                                      *)
EachPortOnce ==
  /\ \A p \in Ports : Len(dialled[p]) <= 1
  /\ main = "returned" =>
       /\ \A p \in Ports : Len(dialled[p]) = 1
       /\ {result[i] : i \in DOMAIN result} = {p \in Ports : dialled[p] = <<TRUE>>}
       /\ \A i \in 2..Len(result) : result[i - 1] < result[i]

(* The call returns if it has a worker or nothing to scan; with workers = 0 *)
(* it waits at line 42 for ever.                                            *)
Ends == <>(main = "returned" \/ (team = {} /\ Ports # {}))
=============================================================================
