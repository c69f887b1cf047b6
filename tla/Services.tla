------------------------------- MODULE Services -------------------------------
(***************************************************************************)
(* The objects that many goroutines call, put together: a behaviour picks  *)
(* TTLCache, ChatServer, RateLimiter, HealthCheck or GracefulServer, and   *)
(* the others stand still.                                                 *)
(***************************************************************************)
EXTENDS TTLCache, FiniteSets

CONSTANTS
  Users, Senders, MaxCalls, Cap, MaxSends,  \* ChatServer
  Scale, Rate, Burst, Waiters, Horizon,     \* RateLimiter
  Names, NoCheck,                           \* HealthCheck
  Starts, Requests, NoServer                \* GracefulServer

ASSUME ChatAssumption == MaxCalls \in Nat /\ MaxSends \in Nat /\ Cap \in Nat

(* A limiter lets something through.                                        *)
ASSUME LimiterAssumption ==
  /\ Scale \in Nat \ {0} /\ Rate \in Nat \ {0} /\ Burst \in Nat \ {0}
  /\ Horizon \in Nat

ASSUME RequestsAssumption == IsFiniteSet(Requests)

VARIABLES
  service,                                                     \* the one picked
  subscribers, user, ch, closed, sends, sending, todo, fault,  \* ChatServer
  after, returned, got, dropped, since,
  tokens, idle, waiter, ctxDone, through,                      \* RateLimiter
  checks, asked, stage, job, healthy, results, answer, failed, \* HealthCheck
  server, start, listening, shut, active, request, at, call, target,
  before                                                       \* GracefulServer

CHAT == INSTANCE ChatServer WITH panic <- fault
LIM == INSTANCE RateLimiter
HEALTH == INSTANCE HealthCheck WITH phase <- stage
SRV == INSTANCE GracefulServer

cache == vars
chat == <<subscribers, user, ch, closed, sends, sending, todo, fault, after,
          returned, got, dropped, since>>
limiter == <<tokens, idle, waiter, ctxDone, through>>
health == <<checks, asked, stage, job, healthy, results, answer, failed>>
graceful == <<server, start, listening, shut, active, request, at, call, target, before>>
services == <<service, cache, chat, limiter, health, graceful>>

ServicesInit ==
  /\ service \in {"cache", "chat", "limiter", "health", "server"}
  /\ Init /\ CHAT!Init /\ LIM!Init /\ HEALTH!Init /\ SRV!Init

ServicesNext ==
  /\ \/ service = "cache" /\ Next /\ UNCHANGED <<chat, limiter, health, graceful>>
     \/ service = "chat" /\ CHAT!Next /\ UNCHANGED <<cache, limiter, health, graceful>>
     \/ service = "limiter" /\ LIM!Next /\ UNCHANGED <<cache, chat, health, graceful>>
     \/ service = "health" /\ HEALTH!Next /\ UNCHANGED <<cache, chat, limiter, graceful>>
     \/ service = "server" /\ SRV!Next /\ UNCHANGED <<cache, chat, limiter, health>>
  /\ UNCHANGED service

(* With the fairness of TTLCache; a Wait that has begun goes on, and its    *)
(* select does not pass over a done ctx for ever; a handler's goroutines    *)
(* run, and checks that heed their ctx come back.                           *)
Cleaning(A) ==
  service = "cache" /\ panic = "none" /\ A /\ Watch
    /\ UNCHANGED <<service, chat, limiter, health, graceful>>
Waiting(A) == service = "limiter" /\ A /\ UNCHANGED <<service, cache, chat, health, graceful>>
Handling(A) == service = "health" /\ A /\ UNCHANGED <<service, cache, chat, limiter, graceful>>

Services == ServicesInit /\ [][ServicesNext]_services

ServicesSpec ==
  /\ Services
  /\ WF_services(Cleaning(Advance)) /\ WF_services(Cleaning(Sweep)) /\ WF_services(Cleaning(Stop))
  /\ \A w \in Waiters : WF_services(Waiting(LIM!Poll(w))) /\ SF_services(Waiting(LIM!GiveUp(w)))
  /\ WF_services(Handling(HEALTH!Answer))
  /\ \A n \in Names :
       /\ WF_services(Handling(HEALTH!Job(n)))
       /\ WF_services(Handling(asked[n] = "heeds" /\ HEALTH!CheckReturns(n)))

-----------------------------------------------------------------------------
(* The properties, where they are stated and explained; those of TTLCache   *)
(* go by their own names.                                                   *)

(* ChatServer: once each and in order, and all but what a full channel      *)
(* could not take; never to a closed channel.                               *)
ChatDelivers == CHAT!ChatDelivers

(* RateLimiter: no window of time lets more calls through than it may.      *)
WindowBound == LIM!WindowBound

(* HealthCheck: the response says what the checks of the request said.      *)
AnswerMatches == HEALTH!AnswerMatches

(* GracefulServer: nothing is left of the server that was shut down.        *)
DrainedWhenNil == SRV!DrainedWhenNil

(* What task.md:8 says of GracefulServer: after Shutdown no new requests.   *)
StopsTaking == SRV!StopsTaking

(* An expired entry goes, Close stops cleanup; Wait ends with its ctx; a    *)
(* health request without a deaf check is answered.                         *)
ServicesAnswer ==
  /\ service = "cache" => ExpiredGoes /\ CloseStopsCleanup
  /\ service = "limiter" => LIM!WaitEnds
  /\ service = "health" => HEALTH!Answered
=============================================================================
