---------------------------- MODULE ProcessMonitor ----------------------------
(***************************************************************************)
(* TopByMemory of 28-linux/exercises/medium/01-process-monitor/solution/   *)
(* main.go, through ListProcesses and GetProcessInfo, while processes are  *)
(* born and exit, and pids are used again.  Of a process's status, the     *)
(* memory is kept, and whether there was anything to read.                 *)
(***************************************************************************)
EXTENDS Integers, Sequences, FiniteSets, SequencesExt, FiniteSetsExt

CONSTANTS
  Pids,
  Sizes,  \* what the VmRSS of a process may be; 0 also when it has none
  Tops    \* the arguments n

VARIABLES
  alive,   \* the processes there are
  phase,   \* "called", "listing" or "returned"
  n,
  entries, \* the pids that the loop has yet to come to
  file,    \* the status open for reading: [pid, gone], or NoFile
  procs,   \* the list, of [pid, size, blank]
  top,     \* what the call returned
  globbed, \* history: the processes the Glob found
  stayed   \* history: those of them that have not exited since

vars == <<alive, phase, n, entries, file, procs, top, globbed, stayed>>

callVars == <<phase, n, entries, procs, top, globbed>>

NoFile == [pid |-> 0, gone |-> FALSE]

Init ==
  /\ alive \in SUBSET Pids /\ phase = "called" /\ n \in Tops
  /\ entries = <<>> /\ file = NoFile /\ procs = <<>> /\ top = <<>>
  /\ globbed = {} /\ stayed = {}

(* Processes come and go (external).                                        *)
Birth(p) ==
  /\ phase = "listing" /\ alive' = alive \cup {p}
  /\ UNCHANGED <<callVars, file, stayed>>

Exit(p) ==
  /\ phase = "listing" /\ p \in alive
  /\ alive' = alive \ {p} /\ stayed' = stayed \ {p}
  /\ file' = [file EXCEPT !.gone = @ \/ file.pid = p]
  /\ UNCHANGED callVars

(* line 55: the names come sorted, which is no order of the pids            *)
Glob ==
  /\ phase = "called"
  /\ phase' = "listing" /\ entries' \in SetToSeqs(alive)
  /\ globbed' = alive /\ stayed' = alive
  /\ UNCHANGED <<alive, n, file, procs, top>>

(* lines 61-66 and 20-26                                                    *)
Open ==
  /\ phase = "listing" /\ file = NoFile /\ entries # <<>> /\ Head(entries) \in alive
  /\ entries' = Tail(entries) /\ file' = [NoFile EXCEPT !.pid = Head(entries)]
  /\ UNCHANGED <<alive, phase, n, procs, top, globbed, stayed>>

PassOver_EndsTheLoop ==
  /\ phase = "listing" /\ file = NoFile /\ entries # <<>> /\ Head(entries) \notin alive
  /\ entries' = <<>>
  /\ UNCHANGED <<alive, phase, n, file, procs, top, globbed, stayed>>

(* lines 66-70: a process that is gone by now                               *)
PassOver ==
  /\ phase = "listing" /\ file = NoFile /\ entries # <<>> /\ Head(entries) \notin alive
  /\ entries' = Tail(entries)
  /\ UNCHANGED <<alive, phase, n, file, procs, top, globbed, stayed>>

(* lines 28-51 and 71: the read of a process that has exited fails, which   *)
(* the scanner tells nobody: its fields stay empty                          *)
Read ==
  /\ file # NoFile
  /\ \E size \in IF file.gone THEN {0} ELSE Sizes :
       procs' = Append(procs, [pid |-> file.pid, size |-> size, blank |-> file.gone])
  /\ file' = NoFile
  /\ UNCHANGED <<alive, phase, n, entries, top, globbed, stayed>>

(* lines 77-87: sort by size, the largest first, equals anyhow; cut to n    *)
Return ==
  /\ phase = "listing" /\ file = NoFile /\ entries = <<>>
  /\ phase' = "returned"
  /\ \E sorted \in SetToSeqs(ToSet(procs)) :
       /\ \A i \in 2..Len(sorted) : sorted[i].size <= sorted[i - 1].size
       /\ top' = IF Len(sorted) > n THEN SubSeq(sorted, 1, n) ELSE sorted
  /\ UNCHANGED <<alive, n, entries, file, procs, globbed, stayed>>

Next ==
  \/ \E p \in Pids : Birth(p) \/ Exit(p)
  \/ Glob \/ Open \/ PassOver \/ Read \/ Return

-----------------------------------------------------------------------------
(* The list has every process that was there all the time, none twice and   *)
(* none that was not there at first; empty entries are of processes that    *)
(* exited meanwhile.  The result is its n largest, in order.                *)
ListIsFair ==
  phase = "returned" =>
    LET listed == {procs[i].pid : i \in DOMAIN procs}
    IN /\ stayed \subseteq listed /\ listed \subseteq globbed
       /\ Cardinality(listed) = Len(procs)
       /\ \A i \in DOMAIN procs : procs[i].blank => procs[i].pid \notin stayed
       /\ ToSet(top) \subseteq ToSet(procs) /\ Len(top) = Min({n, Len(procs)})
       /\ \A i \in DOMAIN top, p \in ToSet(procs) :
            p.size <= top[i].size \/ \E j \in 1..(i - 1) : top[j] = p
=============================================================================
