-------------------------- MODULE HeadroomManager --------------------------
(***************************************************************************)
(* internal/headroom/manager.go: the Manager that runs the headroom proxy  *)
(* as a child process.                                                     *)
(*                                                                         *)
(* Start launches a child and holds m.mu until the child is healthy or has *)
(* been stopped; a goroutine per child, the monitor, waits for the child   *)
(* to exit, clears m.running under m.mu and then closes m.done, which it   *)
(* reads only then and without the lock.  Stop, and a Start that fails,    *)
(* release m.mu while they wait for m.done.                                *)
(*                                                                         *)
(* The children and the context of the server are external.  The channel   *)
(* made for a child has the child's number.                                *)
(***************************************************************************)
EXTENDS Integers

CONSTANTS Callers,   \* goroutines that call Start and Stop
          Nobody,    \* not a caller
          MaxStarts  \* bound on the children ever launched

ASSUME HeadroomAssumption == Nobody \notin Callers /\ MaxStarts \in Nat

VARIABLES mu,         \* the caller that holds m.mu between two steps, or Nobody
          running,    \* m.running
          cmd,        \* m.cmd: a child, or None
          done,       \* m.done: a channel, or None
          closed,     \* the channels that are closed
          child,      \* the state of each child process
          monitor,    \* where the monitor of each child is
          pc,         \* where each caller is
          target,     \* the locals of stopLocked: the child it stops ...
          waitOn,     \* ... and the channel it waits for
          cancelled,  \* the context is done
          ended,      \* how the program has ended: "no", "panic" or "exit"
          overtaken   \* history: a child was launched while the monitor or the stop of
                      \* an earlier one was not through

manager == <<mu, running, cmd, done, closed>>
caller  == <<pc, target, waitOn>>
vars    == <<manager, child, monitor, caller, cancelled, ended, overtaken>>

Children == 1..MaxStarts
None     == 0

Return(c) == pc' = [pc EXCEPT ![c] = "idle"]

-----------------------------------------------------------------------------
(* Start.                                                                  *)

CallStart(c) ==
  /\ pc[c] = "idle"
  /\ pc' = [pc EXCEPT ![c] = "start"]
  /\ UNCHANGED <<manager, child, monitor, target, waitOn, cancelled, ended, overtaken>>

\* Nothing to do, or no binary, or no child: cmd.Start fails when the context is done.
StartReturns(c) ==
  /\ pc[c] = "start" /\ mu = Nobody
  /\ Return(c)
  /\ UNCHANGED <<manager, child, monitor, target, waitOn, cancelled, ended, overtaken>>

MayLaunch == ~running /\ ~cancelled

\* mutant: m.running is set by nobody before the child is healthy.
SetRunningLater == running' = running

SetRunning == running' = TRUE

Launch(c) ==
  /\ pc[c] = "start" /\ mu = Nobody /\ MayLaunch
  /\ \E i \in Children :
       /\ child[i] = "none"
       /\ \A j \in Children : child[j] = "none" => i <= j
       /\ child' = [child EXCEPT ![i] = "alive"]
       /\ monitor' = [monitor EXCEPT ![i] = "wait"]
       /\ cmd' = i /\ done' = i
  /\ SetRunning
  /\ mu' = c
  /\ pc' = [pc EXCEPT ![c] = "health"]
  /\ overtaken' = (overtaken \/ (\E j \in Children : monitor[j] \notin {"none", "end"})
                             \/ (\E d \in Callers : pc[d] \in {"stopping", "relock"}))
  /\ UNCHANGED <<closed, target, waitOn, cancelled, ended>>

\* mutant: an early return without the deferred Unlock.
HealthyKeepsLock(c) ==
  /\ pc[c] = "health"
  /\ \E i \in Children : child[i] = "alive"
  /\ Return(c)
  /\ UNCHANGED <<manager, child, monitor, target, waitOn, cancelled, ended, overtaken>>

\* /health is answered on the port: by whichever child is there.
Healthy(c) ==
  /\ pc[c] = "health"
  /\ \E i \in Children : child[i] = "alive"
  /\ mu' = Nobody
  /\ Return(c)
  /\ UNCHANGED <<running, cmd, done, closed, child, monitor, target, waitOn, cancelled,
                 ended, overtaken>>

-----------------------------------------------------------------------------
(* stopLocked, in Stop and in a Start whose child does not become healthy. *)

\* A signal to a child that has exited fails, and so does the Kill that follows.
Interrupted == [child EXCEPT ![cmd] = IF @ = "alive" THEN "interrupted" ELSE @]

StopLocked(c) ==
  /\ child' = Interrupted
  /\ target' = [target EXCEPT ![c] = cmd]
  /\ waitOn' = [waitOn EXCEPT ![c] = done]
  /\ mu' = Nobody
  /\ pc' = [pc EXCEPT ![c] = "stopping"]
  /\ UNCHANGED <<running, cmd, done, closed, monitor, cancelled, ended, overtaken>>

\* HealthTimeout is over, or the context is done.
Unhealthy(c) == pc[c] = "health" /\ StopLocked(c)

CallStop(c) ==
  /\ pc[c] = "idle"
  /\ pc' = [pc EXCEPT ![c] = "stop"]
  /\ UNCHANGED <<manager, child, monitor, target, waitOn, cancelled, ended, overtaken>>

Stop(c) ==
  /\ pc[c] = "stop" /\ mu = Nobody
  /\ \/ running /\ StopLocked(c)
     \/ /\ ~running
        /\ Return(c)
        /\ UNCHANGED <<manager, child, monitor, target, waitOn, cancelled, ended, overtaken>>

DoneClosed(c) ==
  /\ pc[c] = "stopping" /\ waitOn[c] \in closed
  /\ pc' = [pc EXCEPT ![c] = "relock"]
  /\ UNCHANGED <<manager, child, monitor, target, waitOn, cancelled, ended, overtaken>>

\* mutant: the stop gives up on the child without killing it.
LeaveChild(i) == child

Killed(i) == [child EXCEPT ![i] = IF @ \in {"alive", "interrupted"} THEN "killed" ELSE @]

\* mutant: the stop closes the channel itself, so that nobody waits any longer.
StopTimeoutCloses(c) ==
  /\ pc[c] = "stopping"
  /\ child' = Killed(target[c])
  /\ pc' = [pc EXCEPT ![c] = "relock"]
  /\ closed' = closed \cup {waitOn[c]}
  /\ UNCHANGED <<mu, running, cmd, done, monitor, target, waitOn, cancelled, ended, overtaken>>

\* The five seconds are over.
StopTimeout(c) ==
  /\ pc[c] = "stopping"
  /\ child' = Killed(target[c])
  /\ pc' = [pc EXCEPT ![c] = "relock"]
  /\ UNCHANGED <<manager, monitor, target, waitOn, cancelled, ended, overtaken>>

\* Whatever child m.running is about by now.
Relock(c) ==
  /\ pc[c] = "relock" /\ mu = Nobody
  /\ running' = FALSE
  /\ Return(c)
  /\ UNCHANGED <<mu, cmd, done, closed, child, monitor, target, waitOn, cancelled,
                 ended, overtaken>>

-----------------------------------------------------------------------------
(* The monitor, the children and the context.                              *)

MonitorWait(i) ==
  /\ monitor[i] = "wait" /\ child[i] = "exited"
  /\ monitor' = [monitor EXCEPT ![i] = "lock"]
  /\ UNCHANGED <<manager, child, caller, cancelled, ended, overtaken>>

\* mutant: the flag is left to stopLocked.
MonitorLeavesRunning(i) ==
  /\ monitor[i] = "lock" /\ mu = Nobody
  /\ monitor' = [monitor EXCEPT ![i] = "close"]
  /\ UNCHANGED <<manager, child, caller, cancelled, ended, overtaken>>

MonitorLock(i) ==
  /\ monitor[i] = "lock" /\ mu = Nobody
  /\ running' = FALSE
  /\ monitor' = [monitor EXCEPT ![i] = "close"]
  /\ UNCHANGED <<mu, cmd, done, closed, child, caller, cancelled, ended, overtaken>>

\* m.done, not the channel that was made with the child.
MonitorClose(i) ==
  /\ monitor[i] = "close" /\ done \notin closed
  /\ closed' = closed \cup {done}
  /\ monitor' = [monitor EXCEPT ![i] = "end"]
  /\ UNCHANGED <<mu, running, cmd, done, child, caller, cancelled, ended, overtaken>>

\* All goroutines end at once; the children live on.
Ends(how) ==
  /\ ended' = how
  /\ monitor' = [j \in Children |-> "dead"]
  /\ pc' = [c \in Callers |-> "dead"]
  /\ UNCHANGED <<manager, child, target, waitOn, cancelled, overtaken>>

\* The close of a closed channel, in whichever monitor.
MonitorPanics(i) ==
  /\ monitor[i] = "close" /\ done \in closed
  /\ Ends("panic")

\* Once main is out of Start it may leave without a Stop, or in the middle of one: its
\* listener is closed or its port is taken, or a request has met os.Exit.
ProgramExits ==
  /\ ended = "no" /\ \A c \in Callers : pc[c] \notin {"start", "health"}
  /\ Ends("exit")

\* A child may crash, and need not heed an interrupt.
ChildExits(i) ==
  /\ child[i] \in {"alive", "interrupted", "killed"}
  /\ child' = [child EXCEPT ![i] = "exited"]
  /\ UNCHANGED <<manager, monitor, caller, cancelled, ended, overtaken>>

\* exec.CommandContext.
ContextKills(i) ==
  /\ cancelled /\ monitor[i] = "wait" /\ child[i] \in {"alive", "interrupted"}
  /\ child' = Killed(i)
  /\ UNCHANGED <<manager, monitor, caller, cancelled, ended, overtaken>>

Cancel ==
  /\ ~cancelled
  /\ cancelled' = TRUE
  /\ UNCHANGED <<manager, child, monitor, caller, ended, overtaken>>

-----------------------------------------------------------------------------

Init ==
  /\ mu = Nobody /\ running = FALSE /\ cmd = None /\ done = None /\ closed = {}
  /\ child = [i \in Children |-> "none"]
  /\ monitor = [i \in Children |-> "none"]
  /\ pc = [c \in Callers |-> "idle"]
  /\ target = [c \in Callers |-> None]
  /\ waitOn = [c \in Callers |-> None]
  /\ cancelled = FALSE /\ ended = "no" /\ overtaken = FALSE

\* What a caller does inside Start and Stop.
Step(c) ==
  \/ StartReturns(c) \/ Launch(c) \/ Healthy(c) \/ Unhealthy(c)
  \/ Stop(c) \/ DoneClosed(c) \/ StopTimeout(c) \/ Relock(c)

Monitor(i) == MonitorWait(i) \/ MonitorLock(i) \/ MonitorClose(i) \/ MonitorPanics(i)

Next ==
  \/ \E c \in Callers : CallStart(c) \/ CallStop(c) \/ Step(c)
  \/ \E i \in Children : Monitor(i) \/ ChildExits(i) \/ ContextKills(i)
  \/ Cancel \/ ProgramExits

Spec == Init /\ [][Next]_vars

Die(i) == child[i] = "killed" /\ ChildExits(i)

\* Go's mutex starves nobody, timers fire, and a child that is killed dies.
Fairness ==
  /\ \A c \in Callers : SF_vars(Step(c))
  /\ \A i \in Children : /\ SF_vars(Monitor(i))
                         /\ WF_vars(ContextKills(i))
                         /\ WF_vars(Die(i))

FairSpec == Spec /\ Fairness

-----------------------------------------------------------------------------

\* The types, and whose lock it is: that of the Start that waits for its child.
TypeOK ==
  /\ mu \in Callers \cup {Nobody}
  /\ running \in BOOLEAN
  /\ cmd \in Children \cup {None} /\ done = cmd
  /\ closed \subseteq Children
  /\ child \in [Children -> {"none", "alive", "interrupted", "killed", "exited"}]
  /\ monitor \in [Children -> {"none", "wait", "lock", "close", "end", "dead"}]
  /\ pc \in [Callers -> {"idle", "start", "health", "stop", "stopping", "relock", "dead"}]
  /\ target \in [Callers -> Children \cup {None}]
  /\ waitOn \in [Callers -> Children \cup {None}]
  /\ cancelled \in BOOLEAN /\ ended \in {"no", "panic", "exit"} /\ overtaken \in BOOLEAN
  /\ \A c \in Callers : /\ pc[c] = "health" => mu = c
                        /\ mu = c => pc[c] \in {"health", "dead"}

\* No channel is closed twice, unless a child was launched before the monitor and the
\* stop of the one before were through.
NoPanic == (ended = "panic") => overtaken

\* Likewise no child that nobody has told to stop escapes Stop: it is m.cmd, m.running
\* is set, and so it is also the only one.
NoOrphan ==
  overtaken \/ \A i \in Children : child[i] = "alive" => cmd = i /\ running

\* And when a stop returns, its child has exited or been killed.
StopStops ==
  [][\A c \in Callers :
       pc[c] = "relock" /\ pc'[c] = "idle" /\ ~overtaken =>
         child[target[c]] \in {"killed", "exited"}]_pc

\* When a child that was ever launched is gone and its monitor is through, the Manager
\* knows it, so the next Start launches another.
ExitNoticed ==
  (\A i \in Children : monitor[i] \in {"none", "end"}) => ~running

\* Start and Stop return, though one waits for a child while it holds m.mu and the
\* other for a monitor that needs m.mu.
CallsReturn == \A c \in Callers : pc[c] # "idle" ~> (pc[c] = "idle" \/ ended # "no")

\* Once the context is done, every child ends and none is launched any more, unless the
\* program itself ends before (the goroutine of main.go:547 may never come to its Stop).
ChildrenEnd ==
  cancelled ~> (ended # "no" \/ [](\A i \in Children : child[i] \in {"none", "exited"}))
=============================================================================
