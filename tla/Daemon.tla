------------------------------- MODULE Daemon -------------------------------
(***************************************************************************)
(* `openkiro start`, `stop` and `status` (cmd/openkiro/main.go) and the    *)
(* PID file they share (internal/daemon/daemon.go).  Each command is a     *)
(* process of its own: it reads the file, asks whether that process runs,  *)
(* and acts on the answer, with nothing that keeps two commands apart.     *)
(* The daemon itself never touches the file.                               *)
(*                                                                         *)
(* Processes are external: the system gives a free identifier to a new     *)
(* process, so that of a daemon that ended may come back as another        *)
(* program's.  A spawned daemon stays a zombie, alive to signals, until    *)
(* the `start` that spawned it has ended.                                  *)
(*                                                                         *)
(* os.WriteFile empties the file as it opens it and then writes at its     *)
(* start: a shorter identifier written over a longer one leaves a number   *)
(* that begins with the one and ends with the other, and what is written   *)
(* to a file that another command has removed is gone.                     *)
(***************************************************************************)
EXTENDS Naturals

CONSTANTS Users,    \* terminals, each running one command at a time
          Pids,     \* process identifiers
          Residents, \* those of programs that run as long as the machine does
          Over,     \* Over[q][p]: the number p leaves when it is written over q
          Ports,    \* ports a daemon may be started on
          NoPid, NoPort,
          Absent,   \* there is no PID file
          Empty     \* the file is truncated and not yet written: no number

ASSUME DaemonAssumption ==
  /\ {NoPid, Absent, Empty} \cap Pids = {} /\ Absent # Empty
  /\ NoPort \notin Ports

ASSUME OverAssumption == Over \in [Pids -> [Pids -> Pids]]

ASSUME ResidentsAssumption == Residents \subseteq Pids

VARIABLES proc,       \* "free", "other", "starting" or "listening", for each identifier
          port,       \* the port a daemon holds or is about to bind
          signalled,  \* daemons that got SIGTERM
          file,       \* the PID file
          open,       \* starts whose open file is the one at its path
          op,         \* the command each user runs
          pc,         \* where it is
          seen,       \* the identifier it read or, for a start, spawned
          quiet,      \* nothing crashes, fails or comes from outside any more
          overlapped, \* history: commands that ran while another one did
          astray      \* history: daemons whose start was one of those or was cut, and
                      \* identifiers whose daemon ended without an orderly stop or that
                      \* starts which overlapped left in the file

world == <<proc, port, signalled>>
commands == <<op, pc, seen>>
pidFile == <<file, open>>
vars == <<world, pidFile, commands, quiet, overlapped, astray>>

Daemons == {p \in Pids : proc[p] \in {"starting", "listening"}}

\* The child of a start that is still under way.
Child(p) == \E u \in Users : pc[u] \in {"truncate", "write"} /\ seen[u] = p

\* Identifiers that the file, a command or a daemon has; the others need no history.
InUse == {file} \cup {seen[u] : u \in Users} \cup Daemons

Busy == {u \in Users : pc[u] # "idle"}

-----------------------------------------------------------------------------
(* The PID file.                                                           *)

\* What a start that has opened the file leaves in it.
Written(p) == IF file = Empty THEN p ELSE Over[file][p]

\* os.Remove takes the file from its path, and from those who have it open there.
Unlinked == file' = Absent /\ open' = {}

\* mutant: only asks os.FindProcess, which on Unix finds every identifier.
FindsProcess(p) == p \in Pids

\* Signal 0 gets through, to a zombie too.
IsRunning(p) == proc[p] # "free" \/ Child(p)

\* ReadPID, whose error is the same to every caller but CleanStalePID.
Readable == file \in Pids

-----------------------------------------------------------------------------
(* The commands.                                                           *)

Goto(u, label) == pc' = [pc EXCEPT ![u] = label]

Sees(u, p) ==
  /\ seen' = [seen EXCEPT ![u] = p]
  /\ UNCHANGED <<op, overlapped>>

\* The process of the command ends.
Return(u) ==
  /\ Goto(u, "idle")
  /\ op' = [op EXCEPT ![u] = "none"]
  /\ seen' = [seen EXCEPT ![u] = NoPid]
  /\ overlapped' = overlapped \ {u}

Begin(u, o) ==
  /\ pc[u] = "idle"
  /\ op' = [op EXCEPT ![u] = o]
  /\ Goto(u, IF o = "start" THEN "clean" ELSE "read")
  /\ overlapped' = IF Busy = {} THEN overlapped ELSE Busy \cup {u}
  /\ astray' = astray \cap InUse
  /\ UNCHANGED <<world, pidFile, seen, quiet>>

\* CleanStalePID, from a start or from a status; what it reports is only printed.
AfterClean(u) ==
  IF op[u] = "start"
  THEN Goto(u, "read") /\ Sees(u, NoPid)
  ELSE Return(u)

Clean(u) ==
  /\ pc[u] = "clean"
  /\ IF Readable
     THEN Goto(u, "stale") /\ Sees(u, file)
     ELSE AfterClean(u)
  /\ UNCHANGED <<world, pidFile, quiet, astray>>

\* mutant: the file goes whether its process runs or not.
UnlinkAnyway(u) ==
  /\ pc[u] = "stale"
  /\ Goto(u, "unlink") /\ Sees(u, NoPid)
  /\ UNCHANGED <<world, pidFile, quiet, astray>>

Stale(u) ==
  /\ pc[u] = "stale"
  /\ IF IsRunning(seen[u])
     THEN AfterClean(u)
     ELSE Goto(u, "unlink") /\ Sees(u, NoPid)
  /\ UNCHANGED <<world, pidFile, quiet, astray>>

Unlink(u) ==
  /\ pc[u] = "unlink"
  /\ Unlinked
  /\ AfterClean(u)
  /\ UNCHANGED <<world, quiet, astray>>

Read(u) ==
  /\ pc[u] = "read"
  /\ IF Readable
     THEN Goto(u, "check") /\ Sees(u, file)
     ELSE IF op[u] = "start"
          THEN Goto(u, "spawn") /\ Sees(u, NoPid)
          ELSE Return(u)
  /\ UNCHANGED <<world, pidFile, quiet, astray>>

\* Where a command goes once it knows whether the process it read about runs.
Decision(o, running) ==
  CASE o = "start"  -> IF running THEN "idle" ELSE "spawn"
    [] o = "stop"   -> IF running THEN "signal" ELSE "remove"
    [] o = "status" -> IF running THEN "idle" ELSE "clean"

Check(u) ==
  /\ pc[u] = "check"
  /\ LET then == Decision(op[u], IsRunning(seen[u]))
     IN  IF then = "idle" THEN Return(u) ELSE Goto(u, then) /\ Sees(u, seen[u])
  /\ UNCHANGED <<world, pidFile, quiet, astray>>

Available(p) == proc[p] = "free" /\ ~Child(p)

\* cmd.Start: the daemon is a session of its own and survives the command.
Spawn(u) ==
  /\ pc[u] = "spawn"
  /\ \E p \in Pids, n \in Ports :
       /\ Available(p)
       /\ proc' = [proc EXCEPT ![p] = "starting"]
       /\ port' = [port EXCEPT ![p] = n]
       /\ seen' = [seen EXCEPT ![u] = p]
       /\ astray' = astray \ {p}
  /\ Goto(u, "truncate")
  /\ UNCHANGED <<signalled, pidFile, op, quiet, overlapped>>

\* The system has no process left to give.
SpawnFails(u) ==
  /\ pc[u] = "spawn" /\ \A p \in Pids : ~Available(p)
  /\ Return(u)
  /\ UNCHANGED <<world, pidFile, quiet, astray>>

\* os.WriteFile empties the file before it writes.
Truncate(u) ==
  /\ pc[u] = "truncate"
  /\ file' = Empty /\ open' = open \cup {u}
  /\ Goto(u, "write")
  /\ UNCHANGED <<world, op, seen, quiet, overlapped, astray>>

\* The daemon and the number that a start beside another command leaves.
Strays(u) == {seen[u]} \cup (IF u \in open THEN {Written(seen[u])} ELSE {})

Write(u) ==
  /\ pc[u] = "write"
  /\ file' = IF u \in open THEN Written(seen[u]) ELSE file
  /\ open' = open \ {u}
  /\ astray' = IF u \in overlapped THEN astray \cup Strays(u) ELSE astray
  /\ Return(u)
  /\ UNCHANGED <<world, quiet>>

\* mutant: leaves the file to CleanStalePID.
SignalOnly(u) ==
  /\ pc[u] = "signal"
  /\ signalled' = IF seen[u] \in Daemons THEN signalled \cup {seen[u]} ELSE signalled
  /\ Return(u)
  /\ UNCHANGED <<proc, port, pidFile, quiet, astray>>

\* SIGTERM; to a process that has ended meanwhile it fails, and stop leaves the file.
Signal(u) ==
  /\ pc[u] = "signal"
  /\ signalled' = IF seen[u] \in Daemons THEN signalled \cup {seen[u]} ELSE signalled
  /\ IF IsRunning(seen[u])
     THEN Goto(u, "remove") /\ Sees(u, seen[u])
     ELSE Return(u)
  /\ UNCHANGED <<proc, port, pidFile, quiet, astray>>

\* stop does not wait for the daemon to end.
Remove(u) ==
  /\ pc[u] = "remove"
  /\ Unlinked
  /\ Return(u)
  /\ UNCHANGED <<world, quiet, astray>>

\* Ctrl-C, or a write, a removal or a spawn that fails.
Cut(u) ==
  /\ ~quiet /\ pc[u] # "idle"
  /\ astray' = IF pc[u] \in {"truncate", "write", "remove"} THEN astray \cup {seen[u]} ELSE astray
  /\ open' = open \ {u}
  /\ Return(u)
  /\ UNCHANGED <<world, file, quiet>>

Step(u) ==
  \/ Clean(u) \/ Stale(u) \/ Unlink(u) \/ Read(u) \/ Check(u) \/ Spawn(u)
  \/ SpawnFails(u) \/ Truncate(u) \/ Write(u) \/ Signal(u) \/ Remove(u)

-----------------------------------------------------------------------------
(* Processes.                                                              *)

Free(ps) ==
  /\ proc' = [p \in Pids |-> IF p \in ps THEN "free" ELSE proc[p]]
  /\ port' = [p \in Pids |-> IF p \in ps THEN NoPort ELSE port[p]]
  /\ signalled' = signalled \ ps

Holders(n) == {p \in Pids : proc[p] = "listening" /\ port[p] = n}

\* mutant: the signal handler is installed last and misses what came before.
ListenUnasked(d) ==
  /\ proc[d] = "starting" /\ Holders(port[d]) = {}
  /\ proc' = [proc EXCEPT ![d] = "listening"]
  /\ signalled' = signalled \ {d}
  /\ UNCHANGED <<port, pidFile, commands, quiet, overlapped, astray>>

\* ListenAndServe, also of a daemon that was signalled a moment ago.
Listen(d) ==
  /\ proc[d] = "starting" /\ Holders(port[d]) = {}
  /\ proc' = [proc EXCEPT ![d] = "listening"]
  /\ UNCHANGED <<port, signalled, pidFile, commands, quiet, overlapped, astray>>

\* The port is taken: "Failed to start server" and exit 1.
Refused(d) ==
  /\ proc[d] = "starting" /\ Holders(port[d]) # {}
  /\ Free({d})
  /\ astray' = astray \cup {d}
  /\ UNCHANGED <<pidFile, commands, quiet, overlapped>>

\* The cancelled context closes the listener, and the process ends with it.
End(d) ==
  /\ d \in signalled
  /\ Free({d})
  /\ UNCHANGED <<pidFile, commands, quiet, overlapped, astray>>

Crash(d) ==
  /\ ~quiet /\ d \in Daemons
  /\ Free({d})
  /\ astray' = astray \cup {d}
  /\ UNCHANGED <<pidFile, commands, quiet, overlapped>>

\* Another program; one that holds the port of a daemon is to it like a crash.
OtherBegins(p) ==
  /\ ~quiet /\ Available(p)
  /\ \A q \in Pids \ Residents : proc[q] # "other"
  /\ proc' = [proc EXCEPT ![p] = "other"]
  /\ UNCHANGED <<port, signalled, pidFile, commands, quiet, overlapped, astray>>

OtherEnds(p) ==
  /\ ~quiet /\ proc[p] = "other" /\ p \notin Residents
  /\ Free({p})
  /\ UNCHANGED <<pidFile, commands, quiet, overlapped, astray>>

\* Only the file is left.
Reboot ==
  /\ ~quiet
  /\ Free(Pids \ Residents)
  /\ open' = {}
  /\ astray' = astray \cup Daemons \cup {seen[u] : u \in {v \in Users : pc[v] = "remove"}}
  /\ pc' = [u \in Users |-> "idle"] /\ op' = [u \in Users |-> "none"]
  /\ seen' = [u \in Users |-> NoPid]
  /\ overlapped' = {}
  /\ UNCHANGED <<file, quiet>>

Rest ==
  /\ ~quiet
  /\ quiet' = TRUE
  /\ UNCHANGED <<world, pidFile, commands, overlapped, astray>>

-----------------------------------------------------------------------------

Init ==
  /\ proc = [p \in Pids |-> IF p \in Residents THEN "other" ELSE "free"]
  /\ port = [p \in Pids |-> NoPort]
  /\ signalled = {} /\ file = Absent /\ open = {}
  /\ op = [u \in Users |-> "none"]
  /\ pc = [u \in Users |-> "idle"] /\ seen = [u \in Users |-> NoPid]
  /\ quiet = FALSE
  /\ overlapped = {} /\ astray = {}

Next ==
  \/ \E u \in Users : Step(u) \/ Cut(u) \/ \E o \in {"start", "stop", "status"} : Begin(u, o)
  \/ \E d \in Pids : Listen(d) \/ Refused(d) \/ End(d) \/ Crash(d)
  \/ \E p \in Pids : OtherBegins(p) \/ OtherEnds(p)
  \/ Reboot \/ Rest

Spec == Init /\ [][Next]_vars

\* A command runs to its end, a daemon comes to listen, and one that was signalled ends.
FairSpec ==
  /\ Spec
  /\ \A u \in Users : WF_vars(Step(u))
  /\ \A d \in Pids \ Residents : WF_vars(Listen(d) \/ Refused(d)) /\ WF_vars(End(d))

-----------------------------------------------------------------------------
(* What the commands promise.                                              *)

Commands == {"start", "stop", "status"}

Labels == {"idle", "clean", "stale", "unlink", "read", "check", "spawn", "truncate",
           "write", "signal", "remove"}

TypeOK ==
  /\ proc \in [Pids -> {"free", "other", "starting", "listening"}]
  /\ port \in [Pids -> Ports \cup {NoPort}]
  /\ signalled \subseteq Daemons
  /\ file \in Pids \cup {Absent, Empty}
  /\ open \subseteq Users
  /\ op \in [Users -> Commands \cup {"none"}] /\ pc \in [Users -> Labels]
  /\ seen \in [Users -> Pids \cup {NoPid}]
  /\ quiet \in BOOLEAN
  /\ overlapped \subseteq Busy /\ astray \subseteq Pids

\* A daemon that nobody has stopped, whose start is over and was not disturbed.
Settled(d) == d \in Daemons \ (signalled \cup astray) /\ ~Child(d)

\* The file keeps naming a daemon whose start nothing disturbed, whatever commands run
\* afterwards and in whatever order their steps come, until it is signalled: `stop` and
\* `status` find it, and there is never a second one (main.go cmdStart, cmdStop, cmdStatus).
Findable == \A d \in Pids : Settled(d) => file = d

\* SIGTERM reaches a program that is no daemon of ours only if the daemon of that
\* identifier ended by itself or its start or stop was disturbed, or if two starts that
\* overlapped left that number in the file, one written over the other: commands that run
\* one after the other never leave an identifier behind for another program to inherit.
SparesOthers ==
  [][\A u \in Users : Signal(u) /\ proc[seen[u]] = "other"
        => seen[u] \in astray \/ u \in overlapped]_vars

\* A stop that begins while a daemon is settled ends that daemon, whatever other commands
\* do meanwhile, if no step of it fails.
StopEnds ==
  \A u \in Users, d \in Pids \ Residents :
    (quiet /\ op[u] = "stop" /\ pc[u] = "read" /\ Settled(d)) ~> (d \notin Daemons)

\* A start leads to a daemon that listens, whatever a crash, a reboot or two starts at once
\* left behind, when nothing but daemons answers to the identifier in the file (no other
\* program, no zombie); what may still keep it from listening is a stop, whose daemon may
\* hold the port for a while.
StartServes ==
  \A u \in Users :
    (/\ quiet /\ op[u] = "start" /\ pc[u] = "clean"
     /\ \A p \in Pids : /\ proc[p] = "other" => p \in Residents \ {file}
                        /\ Child(p) => p \in Daemons)
      ~> (signalled # {} \/ \E d \in Pids : proc[d] = "listening")
=============================================================================
