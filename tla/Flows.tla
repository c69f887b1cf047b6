--------------------------------- MODULE Flows ---------------------------------
(***************************************************************************)
(* The functions that pass values through goroutines, put together: a      *)
(* behaviour picks ParallelFetch, FanOutFanIn, Pipeline, PortScanner or    *)
(* PingPong, and the others stand still.                                   *)
(***************************************************************************)
EXTENDS ParallelFetch, Sequences

CONSTANTS
  Uses, Values,    \* FanOutFanIn: the calls, and the number of values
  Lists, Kept,     \* Pipeline
  Workers, Ports,  \* PortScanner
  Calls            \* PingPong

(* FanOut divides by the number of channels.                                *)
ASSUME UsesAssumption == Values \in Nat /\ \A u \in Uses : u[1] \in Nat \ {0}

ASSUME ListsAssumption == Lists \subseteq Seq(Int)

(* A range of ports.                                                        *)
ASSUME PortsAssumption ==
  IsFiniteSet(Ports) /\ Ports \subseteq Nat /\ \A p, q \in Ports : p..q \subseteq Ports

ASSUME CallsAssumption == Calls \subseteq Int

VARIABLES
  flow,                                                           \* the one picked
  n, reader, produced, inClosed, dealer, fanHand, i, fanClosed,   \* FanOutFanIn
  dealt, worker, carry, running, outClosed, turn, collected, caller, panic,
  nums, taken, hand, closed, got, reading,                        \* Pipeline
  team, scan, port, ports, dial, ended, open, found, dialled,     \* PortScanner
  times, said, ping, pingI, pong, pongJ, play, ret, done, fault   \* PingPong

FAN == INSTANCE FanOutFanIn WITH
         Count <- Values, hand <- fanHand, closed <- fanClosed, got <- collected
PIP == INSTANCE Pipeline
SCAN == INSTANCE PortScanner WITH
          main <- scan, next <- port, job <- dial, result <- found
TURN == INSTANCE PingPong WITH
          n <- times, result <- said, i <- pingI, j <- pongJ, main <- play, panic <- fault

fetchAll == vars
fan == <<n, reader, produced, inClosed, dealer, fanHand, i, fanClosed, dealt, worker,
         carry, running, outClosed, turn, collected, caller, panic>>
pipe == <<nums, taken, hand, closed, got, reading>>
scanner == <<team, scan, port, ports, dial, ended, open, found, dialled>>
turns == <<times, said, ping, pingI, pong, pongJ, play, ret, done, fault>>
flows == <<flow, fetchAll, fan, pipe, scanner, turns>>

FlowsInit ==
  /\ flow \in {"fetch", "fan", "pipeline", "scanner", "turns"}
  /\ Init /\ PIP!Init
  /\ FAN!Init /\ (flow # "fan" => <<n, reader>> = CHOOSE u \in Uses : TRUE)
  /\ SCAN!Init /\ (flow # "scanner" => team = {})
  /\ TURN!Init /\ (flow # "turns" => times = CHOOSE c \in Calls : TRUE)
  /\ (flow # "pipeline" => nums = CHOOSE l \in Lists : TRUE) /\ (flow # "fetch" => ~ctxDone)

FlowsNext ==
  /\ \/ flow = "fetch" /\ Next /\ UNCHANGED <<fan, pipe, scanner, turns>>
     \/ flow = "fan" /\ FAN!Next /\ UNCHANGED <<fetchAll, pipe, scanner, turns>>
     \/ flow = "pipeline" /\ PIP!Next /\ UNCHANGED <<fetchAll, fan, scanner, turns>>
     \/ flow = "scanner" /\ SCAN!Next /\ UNCHANGED <<fetchAll, fan, pipe, turns>>
     \/ flow = "turns" /\ TURN!Next /\ UNCHANGED <<fetchAll, fan, pipe, scanner>>
  /\ UNCHANGED flow

Flows == FlowsInit /\ [][FlowsNext]_flows

(* Goroutines that can run do run, every fetch and every dial ends; nobody  *)
(* must cancel a context or leave a channel unread.                         *)
FlowsSpec ==
  /\ Flows
  /\ WF_flows(flow = "fetch" /\ Call /\ UNCHANGED <<flow, fan, pipe, scanner, turns>>)
  /\ \A u \in Urls :
       WF_flows(flow = "fetch" /\ Job(u) /\ UNCHANGED <<flow, fan, pipe, scanner, turns>>)
  /\ WF_flows(flow = "fan" /\ FlowsNext)
  /\ WF_flows(/\ flow = "pipeline" /\ PIP!Stage
              /\ UNCHANGED <<flow, fetchAll, fan, scanner, turns>>)
  /\ WF_flows(flow \in {"scanner", "turns"} /\ FlowsNext)

-----------------------------------------------------------------------------
(* The properties, where they are stated and explained; those of            *)
(* ParallelFetch go by their own names.                                     *)

(* FanOut: the values go out in turn and come back once each.               *)
InTurnAndOnce == FAN!InTurnAndOnce

(* FanIn closes out behind the last value, and no goroutine sends to it.    *)
ClosedBehindAll == FAN!ClosedBehindAll

(* Pipeline: the composed functions, in order, to the end.                  *)
InOrderAndAll == PIP!InOrderAndAll

(* PortScanner: each port is dialled once, the open ones come back sorted.  *)
EachPortOnce == SCAN!EachPortOnce

(* PingPong: one appends at a time, and the messages alternate.             *)
TakeTurns == TURN!TakeTurns

(* PingPong: all messages are returned, or all but the last.                *)
ReturnsMost == TURN!ReturnsMost

(* Each comes to its end, but for the uses that cannot (see the modules).   *)
FlowsEnd ==
  /\ flow = "fetch" => Returns
  /\ flow = "fan" => FAN!AllCollected
  /\ flow = "pipeline" => PIP!AllRead
  /\ flow = "scanner" => SCAN!Ends
  /\ flow = "turns" => TURN!Returns
=============================================================================
