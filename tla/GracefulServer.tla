---------------------------- MODULE GracefulServer ----------------------------
(***************************************************************************)
(* GracefulServer of interview-problems/hard/02-graceful-server/solution/  *)
(* main.go.  A call of Start makes an http.Server of its own, so the       *)
(* servers are named after the calls.  What http.Server promises is        *)
(* external: Shutdown closes the listener, waits for the requests on the   *)
(* server's connections or for ctx, and a server that has been shut down   *)
(* does not listen any more.                                               *)
(*                                                                         *)
(* Start stores gs.server and Shutdown reads it twice, all without a lock. *)
(***************************************************************************)
EXTENDS Integers, FiniteSets

CONSTANTS
  Starts,    \* calls of Start, and their servers
  Requests,  \* clients, each sends a request after another
  NoServer

VARIABLES
  server,    \* gs.server
  start,     \* each Start: "none", "stored" or "begun" (in ListenAndServe)
  listening, \* the servers that take requests
  shut,      \* the servers whose Shutdown has been called
  active,    \* the counter
  request,   \* each client: "out", "accepted", "counted" or "served"
  at,        \* the server of its request
  call,      \* Shutdown: "none", "checked", "draining", "nil" or "timeout"
  target,    \* the server it has read, or NoServer
  before     \* history: the Starts called before it

vars == <<server, start, listening, shut, active, request, at, call, target, before>>

Init ==
  /\ server = NoServer /\ start = [s \in Starts |-> "none"]
  /\ listening = {} /\ shut = {} /\ active = 0
  /\ request = [r \in Requests |-> "out"] /\ at = [r \in Requests |-> NoServer]
  /\ call = "none" /\ target = NoServer /\ before = {}

(* lines 32-35                                                              *)
StoreServer(s) ==
  /\ start[s] = "none"
  /\ server' = s
  /\ start' = [start EXCEPT ![s] = "stored"]
  /\ UNCHANGED <<listening, shut, active, request, at, call, target, before>>

(* line 36: the server that is in the field by now listens                  *)
Listen(s) ==
  /\ start[s] = "stored"
  /\ start' = [start EXCEPT ![s] = "begun"]
  /\ listening' = listening \cup ({server} \ shut)
  /\ UNCHANGED <<server, shut, active, request, at, call, target, before>>

(* A listening server takes a request (external: net/http).                 *)
Accept(r) ==
  /\ request[r] = "out"
  /\ \E s \in listening : at' = [at EXCEPT ![r] = s]
  /\ request' = [request EXCEPT ![r] = "accepted"]
  /\ UNCHANGED <<server, start, listening, shut, active, call, target, before>>

Progress(r, from, to) == request[r] = from /\ request' = [request EXCEPT ![r] = to]

(* lines 25-28: the middleware counts while the handler runs                *)
Count(r) ==
  /\ Progress(r, "accepted", "counted") /\ active' = active + 1
  /\ UNCHANGED <<server, start, listening, shut, at, call, target, before>>

Uncount(r) ==
  /\ Progress(r, "counted", "served") /\ active' = active - 1
  /\ UNCHANGED <<server, start, listening, shut, at, call, target, before>>

(* The connection is done with the request (external: net/http).            *)
Respond(r) ==
  /\ Progress(r, "served", "out")
  /\ UNCHANGED <<server, start, listening, shut, active, at, call, target, before>>

(* lines 40-42: nothing to shut down if Start has not got as far            *)
Check ==
  /\ call \in {"none", "nil", "timeout"}
  /\ call' = IF server = NoServer THEN "nil" ELSE "checked"
  /\ target' = NoServer /\ before' = {s \in Starts : start[s] # "none"}
  /\ UNCHANGED <<server, start, listening, shut, active, request, at>>

(* line 43: the field is read again; the server stops listening             *)
Drain ==
  /\ call = "checked" /\ call' = "draining"
  /\ target' = server
  /\ shut' = shut \cup {server}
  /\ listening' = listening \ {server}
  /\ UNCHANGED <<server, start, active, request, at, before>>

Finish_AsClose ==
  /\ call = "draining"
  /\ call' \in {"nil", "timeout"}
  /\ UNCHANGED <<server, start, listening, shut, active, request, at, target, before>>

(* line 43: nil when the requests of that server are done, else the error   *)
(* of ctx, which may end at any time                                        *)
Finish ==
  /\ call = "draining"
  /\ \/ call' = "nil" /\ \A r \in Requests : at[r] = target => request[r] = "out"
     \/ call' = "timeout"
  /\ UNCHANGED <<server, start, listening, shut, active, request, at, target, before>>

Next ==
  \/ \E s \in Starts : StoreServer(s) \/ Listen(s)
  \/ \E r \in Requests : Accept(r) \/ Count(r) \/ Uncount(r) \/ Respond(r)
  \/ Check \/ Drain \/ Finish

Spec == Init /\ [][Next]_vars

-----------------------------------------------------------------------------
(* When Shutdown has returned nil, the server it shut down has no request   *)
(* under way and takes none, and ActiveRequests counts what other servers   *)
(* have to do: nothing, if Start was called once.                           *)
DrainedWhenNil ==
  call = "nil" /\ target # NoServer =>
    /\ target \notin listening
    /\ \A r \in Requests : at[r] = target => request[r] = "out"
    /\ active = Cardinality({r \in Requests : request[r] = "counted" /\ at[r] # target})

(* What task.md:8 says: Shutdown makes the GracefulServer stop taking new   *)
(* requests.  Not so: when Start has been called twice, the server that the *)
(* field no longer holds goes on.                                           *)
StopsTaking ==
  [][\A r \in Requests : call = "nil" /\ Accept(r) => at'[r] \notin before]_vars
=============================================================================
