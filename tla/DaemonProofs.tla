---------------------------- MODULE DaemonProofs ----------------------------
(***************************************************************************)
(* The PID file, for any terminals, identifiers and ports.                 *)
(*                                                                         *)
(* The argument: a command that nothing overlapped is the only one, so the *)
(* file is as it read it.  A daemon whose start was such a one is named by *)
(* the file when the start returns; every later command reads that name,   *)
(* finds the daemon running and leaves the file alone, or signals it.  And *)
(* a daemon that was signalled is named by the file no longer than the     *)
(* stop that signalled it is about to remove the file.                     *)
(***************************************************************************)
EXTENDS Daemon, TLAPS

\* What each label of a command presupposes.
Labelled ==
  \A u \in Users :
    /\ pc[u] # "idle" => op[u] \in Commands
    /\ pc[u] \in {"clean", "stale", "unlink"} => op[u] \in {"start", "status"}
    /\ pc[u] \in {"stale", "check", "truncate", "write", "signal", "remove"} => seen[u] \in Pids

\* A command that no other overlapped is the only one.
Alone == \A u, v \in Users : pc[u] # "idle" /\ u \notin overlapped /\ pc[v] # "idle" => v = u

\* While a daemon is settled no command is about to change the file.
Harmless ==
  \A d \in Pids, u \in Users :
    Settled(d) => \/ pc[u] \in {"idle", "clean", "read"}
                  \/ pc[u] \in {"stale", "check", "signal"} /\ seen[u] = d

\* The child of a start that no command overlapped has not been signalled.
Unsignalled ==
  \A u \in Users :
    pc[u] \in {"truncate", "write"} /\ u \notin overlapped =>
      seen[u] \in astray \/ seen[u] \in Daemons \ signalled

\* Who has the file open has a file, and one that no command overlapped an empty one.
Emptied ==
  /\ \A u \in open : pc[u] = "write" /\ file # Absent
  /\ \A u \in Users : pc[u] = "write" /\ u \notin overlapped => u \in open /\ file = Empty

\* The file names an orderly stopped daemon only until it is removed.
Named ==
  \A p \in Pids :
    file = p /\ p \notin astray /\ (p \in Daemons => p \in signalled) =>
      \E u \in Users : pc[u] = "remove" /\ seen[u] = p

\* What a command that no other overlapped has read is still there.
StillThere ==
  \A u \in Users : pc[u] \in {"check", "signal"} /\ u \notin overlapped => file = seen[u]

DaemonInv ==
  /\ TypeOK /\ Labelled /\ Alone /\ Findable /\ Harmless /\ Unsignalled /\ Named
  /\ StillThere /\ Emptied

-----------------------------------------------------------------------------
(* The inductive invariant.                                                *)

\* Nothing runs and there is no file.
LEMMA InitInv == Init => DaemonInv
<1>. SUFFICES ASSUME Init PROVE DaemonInv
  OBVIOUS
<1>1. TypeOK
  BY DEF Init, TypeOK, Daemons, Busy, Labels
<1>2. Labelled /\ Alone /\ Unsignalled /\ StillThere /\ Emptied
  BY DEF Init, Labelled, Alone, Unsignalled, StillThere, Emptied
<1>3. Findable /\ Harmless /\ Named
  BY DaemonAssumption DEF Init, Findable, Harmless, Named, Settled, Daemons
<1>. QED  BY <1>1, <1>2, <1>3 DEF DaemonInv

\* A command that begins beside another one overlaps it.
LEMMA BeginInv ==
  ASSUME DaemonInv, NEW u \in Users, NEW o \in Commands, Begin(u, o)
  PROVE  DaemonInv'
<1>. USE DaemonAssumption DEF DaemonInv, TypeOK, Labels, Commands, world, commands, pidFile,
                             Begin, InUse, Goto
<1>1. TypeOK'
  BY DEF Labelled, Busy, Daemons
<1>2. Labelled'
  BY DEF Labelled, Commands
<1>3. Alone'
  BY DEF Alone, Busy
<1>4. Findable'
  BY DEF Findable, Harmless, Settled, Daemons, Child
<1>5. Harmless'
  BY DEF Harmless, Findable, Settled, Daemons, Child
<1>6. Unsignalled'
  BY DEF Unsignalled, Daemons, Child
<1>7. Named'
  BY DEF Named, Unsignalled, Daemons
<1>8. StillThere'
  BY DEF StillThere, Alone
<1>9. Emptied'
  BY DEF Emptied, Alone
<1>. QED  BY <1>1, <1>2, <1>3, <1>4, <1>5, <1>6, <1>7, <1>8, <1>9

\* CleanStalePID reads the file.
LEMMA CleanInv ==
  ASSUME DaemonInv, NEW u \in Users, Clean(u)
  PROVE  DaemonInv'
<1>. USE DaemonAssumption DEF DaemonInv, TypeOK, Labels, Commands, world, commands, pidFile,
                             Clean, Readable, AfterClean, Goto, Sees, Return
<1>1. TypeOK'
  BY DEF Labelled, Busy, Daemons
<1>2. Labelled'
  BY DEF Labelled, Commands
<1>3. Alone'
  BY DEF Alone, Busy
<1>4. Findable'
  BY DEF Findable, Harmless, Settled, Daemons, Child
<1>5. Harmless'
  BY DEF Harmless, Findable, Settled, Daemons, Child
<1>6. Unsignalled'
  BY DEF Unsignalled, Daemons, Child
<1>7. Named'
  BY DEF Named, Unsignalled, Daemons
<1>8. StillThere'
  BY DEF StillThere, Alone
<1>9. Emptied'
  BY DEF Emptied, Alone
<1>. QED  BY <1>1, <1>2, <1>3, <1>4, <1>5, <1>6, <1>7, <1>8, <1>9

\* CleanStalePID finds a settled daemon running, since the file names it.
LEMMA StaleInv ==
  ASSUME DaemonInv, NEW u \in Users, Stale(u)
  PROVE  DaemonInv'
<1>. USE DaemonAssumption DEF DaemonInv, TypeOK, Labels, Commands, world, commands, pidFile,
                             Stale, IsRunning, AfterClean, Goto, Sees, Return
<1>1. TypeOK'
  BY DEF Labelled, Busy, Daemons
<1>2. Labelled'
  BY DEF Labelled, Commands
<1>3. Alone'
  BY DEF Alone, Busy
<1>4. Findable'
  BY DEF Findable, Harmless, Settled, Daemons, Child
<1>5. Harmless'
  BY DEF Harmless, Findable, Settled, Daemons, Child
<1>6. Unsignalled'
  BY DEF Unsignalled, Daemons, Child
<1>7. Named'
  BY DEF Named, Unsignalled, Daemons
<1>8. StillThere'
  BY DEF StillThere, Alone
<1>9. Emptied'
  BY DEF Emptied, Alone
<1>. QED  BY <1>1, <1>2, <1>3, <1>4, <1>5, <1>6, <1>7, <1>8, <1>9

\* CleanStalePID removes a file that names no settled daemon.
LEMMA UnlinkInv ==
  ASSUME DaemonInv, NEW u \in Users, Unlink(u)
  PROVE  DaemonInv'
<1>. USE DaemonAssumption DEF DaemonInv, TypeOK, Labels, Commands, world, commands, pidFile,
                             Unlink, Unlinked, AfterClean, Goto, Sees, Return
<1>1. TypeOK'
  BY DEF Labelled, Busy, Daemons
<1>2. Labelled'
  BY DEF Labelled, Commands
<1>3. Alone'
  BY DEF Alone, Busy
<1>4. Findable'
  BY DEF Findable, Harmless, Settled, Daemons, Child
<1>5. Harmless'
  BY DEF Harmless, Findable, Settled, Daemons, Child
<1>6. Unsignalled'
  BY DEF Unsignalled, Daemons, Child
<1>7. Named'
  BY DEF Named, Unsignalled, Daemons
<1>8. StillThere'
  BY DEF StillThere, Alone
<1>9. Emptied'
  BY DEF Emptied, Alone
<1>. QED  BY <1>1, <1>2, <1>3, <1>4, <1>5, <1>6, <1>7, <1>8, <1>9

\* A command reads the name of the settled daemon, if there is one.
LEMMA ReadInv ==
  ASSUME DaemonInv, NEW u \in Users, Read(u)
  PROVE  DaemonInv'
<1>. USE DaemonAssumption DEF DaemonInv, TypeOK, Labels, Commands, world, commands, pidFile,
                             Read, Readable, Goto, Sees, Return
<1>1. TypeOK'
  BY DEF Labelled, Busy, Daemons
<1>2. Labelled'
  BY DEF Labelled, Commands
<1>3. Alone'
  BY DEF Alone, Busy
<1>4. Findable'
  BY DEF Findable, Harmless, Settled, Daemons, Child
<1>5. Harmless'
  BY DEF Harmless, Findable, Settled, Daemons, Child
<1>6. Unsignalled'
  BY DEF Unsignalled, Daemons, Child
<1>7. Named'
  BY DEF Named, Unsignalled, Daemons
<1>8. StillThere'
  BY DEF StillThere, Alone
<1>9. Emptied'
  BY DEF Emptied, Alone
<1>. QED  BY <1>1, <1>2, <1>3, <1>4, <1>5, <1>6, <1>7, <1>8, <1>9

\* IsRunning, and what start, stop and status make of it.
LEMMA CheckInv ==
  ASSUME DaemonInv, NEW u \in Users, Check(u)
  PROVE  DaemonInv'
<1>. USE DaemonAssumption DEF DaemonInv, TypeOK, Labels, Commands, world, commands, pidFile,
                             Check, Decision, Goto, Sees, Return
<1>0. /\ pc[u] = "check" /\ seen[u] \in Pids /\ op[u] \in Commands
      /\ UNCHANGED <<world, file, quiet, astray>>
      /\ \/ /\ pc' = [pc EXCEPT ![u] = "idle"] /\ op' = [op EXCEPT ![u] = "none"]
            /\ seen' = [seen EXCEPT ![u] = NoPid] /\ overlapped' = overlapped \ {u}
         \/ \E to \in {"spawn", "signal", "remove", "clean"} :
              /\ pc' = [pc EXCEPT ![u] = to] /\ UNCHANGED <<seen, op, overlapped>>
              /\ to = "spawn" => op[u] = "start"
              /\ to = "clean" => op[u] = "status"
              /\ to # "signal" => ~IsRunning(seen[u])
  BY DEF Labelled
<1>1. TypeOK'
  BY <1>0 DEF Labelled, Busy, Daemons
<1>2. Labelled'
  BY <1>0 DEF Labelled, Commands
<1>3. Alone'
  BY <1>0 DEF Alone, Busy
<1>4. Findable'
  BY <1>0 DEF Findable, Harmless, Settled, Daemons, Child, IsRunning
<1>5. Harmless'
  BY <1>0 DEF Harmless, Findable, Settled, Daemons, Child, IsRunning
<1>6. Unsignalled'
  BY <1>0 DEF Unsignalled, Daemons, Child
<1>7. Named'
  BY <1>0 DEF Named, Unsignalled, Daemons
<1>8. StillThere'
  BY <1>0 DEF StillThere, Alone
<1>9. Emptied'
  BY <1>0 DEF Emptied, Alone
<1>. QED  BY <1>1, <1>2, <1>3, <1>4, <1>5, <1>6, <1>7, <1>8, <1>9

\* There is no settled daemon when a start spawns one.
LEMMA SpawnInv ==
  ASSUME DaemonInv, NEW u \in Users, Spawn(u)
  PROVE  DaemonInv'
<1>. USE DaemonAssumption DEF DaemonInv, TypeOK, Labels, Commands, world, commands, pidFile,
                             Spawn, Available, Goto
<1>1. TypeOK'
  BY DEF Labelled, Busy, Daemons
<1>2. Labelled'
  BY DEF Labelled, Commands
<1>3. Alone'
  BY DEF Alone, Busy
<1>4. Findable'
  BY DEF Findable, Harmless, Settled, Daemons, Child
<1>5. Harmless'
  BY DEF Harmless, Findable, Settled, Daemons, Child
<1>6. Unsignalled'
  BY DEF Unsignalled, Daemons, Child
<1>7. Named'
  BY DEF Named, Unsignalled, Daemons
<1>8. StillThere'
  BY DEF StillThere, Alone
<1>9. Emptied'
  BY DEF Emptied, Alone
<1>. QED  BY <1>1, <1>2, <1>3, <1>4, <1>5, <1>6, <1>7, <1>8, <1>9

\* A start that cannot spawn returns.
LEMMA SpawnFailsInv ==
  ASSUME DaemonInv, NEW u \in Users, SpawnFails(u)
  PROVE  DaemonInv'
<1>. USE DaemonAssumption DEF DaemonInv, TypeOK, Labels, Commands, world, commands, pidFile,
                             SpawnFails, Goto, Return
<1>1. TypeOK'
  BY DEF Labelled, Busy, Daemons
<1>2. Labelled'
  BY DEF Labelled, Commands
<1>3. Alone'
  BY DEF Alone, Busy
<1>4. Findable'
  BY DEF Findable, Harmless, Settled, Daemons, Child
<1>5. Harmless'
  BY DEF Harmless, Findable, Settled, Daemons, Child
<1>6. Unsignalled'
  BY DEF Unsignalled, Daemons, Child
<1>7. Named'
  BY DEF Named, Unsignalled, Daemons
<1>8. StillThere'
  BY DEF StillThere, Alone
<1>9. Emptied'
  BY DEF Emptied, Alone
<1>. QED  BY <1>1, <1>2, <1>3, <1>4, <1>5, <1>6, <1>7, <1>8, <1>9

\* The file is emptied for a child whose start is not over.
LEMMA TruncateInv ==
  ASSUME DaemonInv, NEW u \in Users, Truncate(u)
  PROVE  DaemonInv'
<1>. USE DaemonAssumption DEF DaemonInv, TypeOK, Labels, Commands, world, commands, pidFile,
                             Truncate, Goto
<1>1. TypeOK'
  BY DEF Labelled, Busy, Daemons
<1>2. Labelled'
  BY DEF Labelled, Commands
<1>3. Alone'
  BY DEF Alone, Busy
<1>4. Findable'
  BY DEF Findable, Harmless, Settled, Daemons, Child
<1>5. Harmless'
  BY DEF Harmless, Findable, Settled, Daemons, Child
<1>6. Unsignalled'
  BY DEF Unsignalled, Daemons, Child
<1>7. Named'
  BY DEF Named, Unsignalled, Daemons
<1>8. StillThere'
  BY DEF StillThere, Alone
<1>9. Emptied'
  BY DEF Emptied, Alone
<1>. QED  BY <1>1, <1>2, <1>3, <1>4, <1>5, <1>6, <1>7, <1>8, <1>9

\* os.WriteFile has written the identifier, and the start returns.
LEMMA WriteInv ==
  ASSUME DaemonInv, NEW u \in Users, Write(u)
  PROVE  DaemonInv'
<1>. USE DaemonAssumption
<1>a. TypeOK /\ Labelled /\ Alone /\ Findable /\ Harmless /\ Unsignalled /\ Named
      /\ StillThere /\ Emptied
  BY DEF DaemonInv
<1>0. /\ pc[u] = "write" /\ seen[u] \in Pids
      /\ pc' = [pc EXCEPT ![u] = "idle"] /\ op' = [op EXCEPT ![u] = "none"]
      /\ seen' = [seen EXCEPT ![u] = NoPid] /\ overlapped' = overlapped \ {u}
      /\ open' = open \ {u}
      /\ UNCHANGED <<proc, port, signalled, quiet>>
  BY <1>a DEF Write, Return, Goto, Labelled, world
<1>b. /\ file' = file \/ file' \in Pids
      /\ astray \subseteq astray' /\ astray' \subseteq Pids
      /\ open # {} => file' # Absent
  <2>1. CASE u \notin open
    BY <2>1, <1>0, <1>a DEF Write, Strays, TypeOK, Emptied
  <2>2. CASE u \in open
    <3>1. file \in Pids \cup {Empty}
      BY <2>2, <1>a DEF TypeOK, Emptied
    <3>2. Written(seen[u]) \in Pids
      BY <3>1, <1>0, OverAssumption DEF Written
    <3>. QED  BY <2>2, <3>2, <1>0, <1>a DEF Write, Strays, TypeOK
  <2>. QED  BY <2>1, <2>2
<1>c. u \notin overlapped => file' = seen[u] /\ astray' = astray
  BY <1>0, <1>a DEF Write, Written, Emptied
<1>d. u \in overlapped => seen[u] \in astray' /\ (file' = file \/ file' \in astray')
  BY <1>0 DEF Write, Strays
<1>e. u \notin overlapped => \A v \in Users : v # u => pc[v] = "idle"
  BY <1>0, <1>a DEF Alone
<1>1. TypeOK'
  BY <1>0, <1>a, <1>b DEF TypeOK, Busy, Daemons, Labels, Commands
<1>2. Labelled'
  BY <1>0, <1>a DEF Labelled, TypeOK
<1>3. Alone'
  BY <1>0, <1>a DEF Alone, TypeOK
<1>f. ASSUME NEW d \in Pids, Settled(d)', d # seen[u] PROVE FALSE
  <2>1. Settled(d)
    BY <1>f, <1>0, <1>b, <1>a DEF Settled, Daemons, Child, TypeOK
  <2>. QED  BY <2>1, <1>0, <1>a DEF Harmless
<1>g. ASSUME NEW d \in Pids, Settled(d)' PROVE d = seen[u] /\ u \notin overlapped
  BY <1>f, <1>g, <1>d DEF Settled
<1>4. Findable'
  BY <1>g, <1>c DEF Findable
<1>5. Harmless'
  BY <1>g, <1>e, <1>0, <1>a DEF Harmless, TypeOK
<1>6. Unsignalled'
  BY <1>0, <1>a, <1>b DEF Unsignalled, Daemons, TypeOK
<1>7. Named'
  <2>1. CASE u \notin overlapped
    BY <2>1, <1>0, <1>a, <1>c DEF Named, Unsignalled, Daemons
  <2>2. ASSUME file' = file, NEW p \in Pids, file = p, p \notin astray',
               p \in Daemons' => p \in signalled'
        PROVE  \E v \in Users : pc'[v] = "remove" /\ seen'[v] = p
    <3>1. p \notin astray /\ (p \in Daemons => p \in signalled)
      BY <2>2, <1>0, <1>b DEF Daemons
    <3>2. PICK v \in Users : pc[v] = "remove" /\ seen[v] = p
      BY <2>2, <3>1, <1>a DEF Named
    <3>. QED  BY <3>2, <1>0, <1>a DEF TypeOK
  <2>3. CASE u \in overlapped /\ file' \in astray'
    BY <2>3 DEF Named
  <2>. QED  BY <2>1, <2>2, <2>3, <1>d DEF Named
<1>8. StillThere'
  BY <1>0, <1>a, <1>e DEF StillThere, Alone, TypeOK
<1>9. Emptied'
  BY <1>0, <1>a, <1>b, <1>e DEF Emptied, Alone, TypeOK
<1>. QED  BY <1>1, <1>2, <1>3, <1>4, <1>5, <1>6, <1>7, <1>8, <1>9 DEF DaemonInv

\* SIGTERM: the daemon is settled no more, and the file is about to be removed.
LEMMA SignalInv ==
  ASSUME DaemonInv, NEW u \in Users, Signal(u)
  PROVE  DaemonInv'
<1>. USE DaemonAssumption DEF DaemonInv, TypeOK, Labels, Commands, world, commands, pidFile,
                             Signal, IsRunning, Goto, Sees, Return
<1>1. TypeOK'
  BY DEF Labelled, Busy, Daemons
<1>2. Labelled'
  BY DEF Labelled, Commands
<1>3. Alone'
  BY DEF Alone, Busy
<1>4. Findable'
  BY DEF Findable, Harmless, Settled, Daemons, Child
<1>5. Harmless'
  BY DEF Harmless, Findable, Settled, Daemons, Child
<1>6. Unsignalled'
  <2>1. \A v \in Users : pc[v] \in {"truncate", "write"} => v \in overlapped
    BY DEF Alone
  <2>. QED  BY <2>1 DEF Unsignalled
<1>7. Named'
  BY DEF Named, Unsignalled, Daemons
<1>8. StillThere'
  BY DEF StillThere, Alone
<1>9. Emptied'
  BY DEF Emptied, Alone
<1>. QED  BY <1>1, <1>2, <1>3, <1>4, <1>5, <1>6, <1>7, <1>8, <1>9

\* A stop removes the name of the daemon it has signalled.
LEMMA RemoveInv ==
  ASSUME DaemonInv, NEW u \in Users, Remove(u)
  PROVE  DaemonInv'
<1>. USE DaemonAssumption DEF DaemonInv, TypeOK, Labels, Commands, world, commands, pidFile,
                             Remove, Unlinked, Goto, Return
<1>1. TypeOK'
  BY DEF Labelled, Busy, Daemons
<1>2. Labelled'
  BY DEF Labelled, Commands
<1>3. Alone'
  BY DEF Alone, Busy
<1>4. Findable'
  BY DEF Findable, Harmless, Settled, Daemons, Child
<1>5. Harmless'
  BY DEF Harmless, Findable, Settled, Daemons, Child
<1>6. Unsignalled'
  BY DEF Unsignalled, Daemons, Child
<1>7. Named'
  BY DEF Named, Unsignalled, Daemons
<1>8. StillThere'
  BY DEF StillThere, Alone
<1>9. Emptied'
  BY DEF Emptied, Alone
<1>. QED  BY <1>1, <1>2, <1>3, <1>4, <1>5, <1>6, <1>7, <1>8, <1>9

\* What a command that is cut leaves behind is astray.
LEMMA CutInv ==
  ASSUME DaemonInv, NEW u \in Users, Cut(u)
  PROVE  DaemonInv'
<1>. USE DaemonAssumption DEF DaemonInv, TypeOK, Labels, Commands, world, commands, pidFile,
                             Cut, Goto, Return
<1>1. TypeOK'
  BY DEF Labelled, Busy, Daemons
<1>2. Labelled'
  BY DEF Labelled, Commands
<1>3. Alone'
  BY DEF Alone, Busy
<1>4. Findable'
  BY DEF Findable, Harmless, Settled, Daemons, Child
<1>5. Harmless'
  BY DEF Harmless, Findable, Settled, Daemons, Child
<1>6. Unsignalled'
  BY DEF Unsignalled, Daemons, Child
<1>7. Named'
  BY DEF Named, Unsignalled, Daemons
<1>8. StillThere'
  BY DEF StillThere, Alone
<1>9. Emptied'
  BY DEF Emptied, Alone
<1>. QED  BY <1>1, <1>2, <1>3, <1>4, <1>5, <1>6, <1>7, <1>8, <1>9

-----------------------------------------------------------------------------
(* Processes.                                                              *)

\* A daemon that listens is the daemon it was.
LEMMA ListenInv ==
  ASSUME DaemonInv, NEW d \in Pids, Listen(d)
  PROVE  DaemonInv'
<1>. USE DaemonAssumption DEF DaemonInv, TypeOK, Labels, Commands, world, commands, pidFile,
                             Listen
<1>1. TypeOK'
  BY DEF Labelled, Busy, Daemons
<1>2. Labelled'
  BY DEF Labelled, Commands
<1>3. Alone'
  BY DEF Alone, Busy
<1>4. Findable'
  BY DEF Findable, Harmless, Settled, Daemons, Child
<1>5. Harmless'
  BY DEF Harmless, Findable, Settled, Daemons, Child
<1>6. Unsignalled'
  BY DEF Unsignalled, Daemons, Child
<1>7. Named'
  BY DEF Named, Unsignalled, Daemons
<1>8. StillThere'
  BY DEF StillThere, Alone
<1>9. Emptied'
  BY DEF Emptied, Alone
<1>. QED  BY <1>1, <1>2, <1>3, <1>4, <1>5, <1>6, <1>7, <1>8, <1>9

\* A daemon that finds its port taken ends astray.
LEMMA RefusedInv ==
  ASSUME DaemonInv, NEW d \in Pids, Refused(d)
  PROVE  DaemonInv'
<1>. USE DaemonAssumption DEF DaemonInv, TypeOK, Labels, Commands, world, commands, pidFile,
                             Refused, Free
<1>1. TypeOK'
  BY DEF Labelled, Busy, Daemons
<1>2. Labelled'
  BY DEF Labelled, Commands
<1>3. Alone'
  BY DEF Alone, Busy
<1>4. Findable'
  BY DEF Findable, Harmless, Settled, Daemons, Child
<1>5. Harmless'
  BY DEF Harmless, Findable, Settled, Daemons, Child
<1>6. Unsignalled'
  BY DEF Unsignalled, Daemons, Child
<1>7. Named'
  BY DEF Named, Unsignalled, Daemons
<1>8. StillThere'
  BY DEF StillThere, Alone
<1>9. Emptied'
  BY DEF Emptied, Alone
<1>. QED  BY <1>1, <1>2, <1>3, <1>4, <1>5, <1>6, <1>7, <1>8, <1>9

\* A daemon that was signalled was not settled.
LEMMA EndInv ==
  ASSUME DaemonInv, NEW d \in Pids, End(d)
  PROVE  DaemonInv'
<1>. USE DaemonAssumption DEF DaemonInv, TypeOK, Labels, Commands, world, commands, pidFile,
                             End, Free
<1>1. TypeOK'
  BY DEF Labelled, Busy, Daemons
<1>2. Labelled'
  BY DEF Labelled, Commands
<1>3. Alone'
  BY DEF Alone, Busy
<1>4. Findable'
  BY DEF Findable, Harmless, Settled, Daemons, Child
<1>5. Harmless'
  BY DEF Harmless, Findable, Settled, Daemons, Child
<1>6. Unsignalled'
  BY DEF Unsignalled, Daemons, Child
<1>7. Named'
  BY DEF Named, Unsignalled, Daemons
<1>8. StillThere'
  BY DEF StillThere, Alone
<1>9. Emptied'
  BY DEF Emptied, Alone
<1>. QED  BY <1>1, <1>2, <1>3, <1>4, <1>5, <1>6, <1>7, <1>8, <1>9

\* A daemon that crashes ends astray.
LEMMA CrashInv ==
  ASSUME DaemonInv, NEW d \in Pids, Crash(d)
  PROVE  DaemonInv'
<1>. USE DaemonAssumption DEF DaemonInv, TypeOK, Labels, Commands, world, commands, pidFile,
                             Crash, Free
<1>1. TypeOK'
  BY DEF Labelled, Busy, Daemons
<1>2. Labelled'
  BY DEF Labelled, Commands
<1>3. Alone'
  BY DEF Alone, Busy
<1>4. Findable'
  BY DEF Findable, Harmless, Settled, Daemons, Child
<1>5. Harmless'
  BY DEF Harmless, Findable, Settled, Daemons, Child
<1>6. Unsignalled'
  BY DEF Unsignalled, Daemons, Child
<1>7. Named'
  BY DEF Named, Unsignalled, Daemons
<1>8. StillThere'
  BY DEF StillThere, Alone
<1>9. Emptied'
  BY DEF Emptied, Alone
<1>. QED  BY <1>1, <1>2, <1>3, <1>4, <1>5, <1>6, <1>7, <1>8, <1>9

\* Another program takes an identifier that is free.
LEMMA OtherBeginsInv ==
  ASSUME DaemonInv, NEW p \in Pids, OtherBegins(p)
  PROVE  DaemonInv'
<1>. USE DaemonAssumption DEF DaemonInv, TypeOK, Labels, Commands, world, commands, pidFile,
                             OtherBegins, Available
<1>1. TypeOK'
  BY DEF Labelled, Busy, Daemons
<1>2. Labelled'
  BY DEF Labelled, Commands
<1>3. Alone'
  BY DEF Alone, Busy
<1>4. Findable'
  BY DEF Findable, Harmless, Settled, Daemons, Child
<1>5. Harmless'
  BY DEF Harmless, Findable, Settled, Daemons, Child
<1>6. Unsignalled'
  BY DEF Unsignalled, Daemons, Child
<1>7. Named'
  BY DEF Named, Unsignalled, Daemons
<1>8. StillThere'
  BY DEF StillThere, Alone
<1>9. Emptied'
  BY DEF Emptied, Alone
<1>. QED  BY <1>1, <1>2, <1>3, <1>4, <1>5, <1>6, <1>7, <1>8, <1>9

\* Another program ends.
LEMMA OtherEndsInv ==
  ASSUME DaemonInv, NEW p \in Pids, OtherEnds(p)
  PROVE  DaemonInv'
<1>. USE DaemonAssumption DEF DaemonInv, TypeOK, Labels, Commands, world, commands, pidFile,
                             OtherEnds, Free
<1>1. TypeOK'
  BY DEF Labelled, Busy, Daemons
<1>2. Labelled'
  BY DEF Labelled, Commands
<1>3. Alone'
  BY DEF Alone, Busy
<1>4. Findable'
  BY DEF Findable, Harmless, Settled, Daemons, Child
<1>5. Harmless'
  BY DEF Harmless, Findable, Settled, Daemons, Child
<1>6. Unsignalled'
  BY DEF Unsignalled, Daemons, Child
<1>7. Named'
  BY DEF Named, Unsignalled, Daemons
<1>8. StillThere'
  BY DEF StillThere, Alone
<1>9. Emptied'
  BY DEF Emptied, Alone
<1>. QED  BY <1>1, <1>2, <1>3, <1>4, <1>5, <1>6, <1>7, <1>8, <1>9

\* After a reboot nothing runs.
LEMMA RebootInv ==
  ASSUME DaemonInv, Reboot
  PROVE  DaemonInv'
<1>. USE DaemonAssumption DEF DaemonInv, TypeOK, Labels, Commands, world, commands, pidFile,
                             Reboot, Free
<1>1. TypeOK'
  BY DEF Labelled, Busy, Daemons
<1>2. Labelled'
  BY DEF Labelled, Commands
<1>3. Alone'
  BY DEF Alone, Busy
<1>4. Findable'
  BY DEF Findable, Harmless, Settled, Daemons, Child
<1>5. Harmless'
  BY DEF Harmless, Findable, Settled, Daemons, Child
<1>6. Unsignalled'
  BY DEF Unsignalled, Daemons, Child
<1>7. Named'
  BY DEF Named, Unsignalled, Daemons
<1>8. StillThere'
  BY DEF StillThere, Alone
<1>9. Emptied'
  BY DEF Emptied, Alone
<1>. QED  BY <1>1, <1>2, <1>3, <1>4, <1>5, <1>6, <1>7, <1>8, <1>9

\* Nothing else changes when the world comes to rest.
LEMMA RestInv ==
  ASSUME DaemonInv, Rest
  PROVE  DaemonInv'
<1>. USE DaemonAssumption DEF DaemonInv, TypeOK, Labels, Commands, world, commands, pidFile,
                             Rest
<1>1. TypeOK'
  BY DEF Labelled, Busy, Daemons
<1>2. Labelled'
  BY DEF Labelled, Commands
<1>3. Alone'
  BY DEF Alone, Busy
<1>4. Findable'
  BY DEF Findable, Harmless, Settled, Daemons, Child
<1>5. Harmless'
  BY DEF Harmless, Findable, Settled, Daemons, Child
<1>6. Unsignalled'
  BY DEF Unsignalled, Daemons, Child
<1>7. Named'
  BY DEF Named, Unsignalled, Daemons
<1>8. StillThere'
  BY DEF StillThere, Alone
<1>9. Emptied'
  BY DEF Emptied, Alone
<1>. QED  BY <1>1, <1>2, <1>3, <1>4, <1>5, <1>6, <1>7, <1>8, <1>9

-----------------------------------------------------------------------------
(* The theorems.                                                           *)

\* Every step of a command, of a daemon and of the world.
LEMMA NextInv == DaemonInv /\ [Next]_vars => DaemonInv'
<1>. SUFFICES ASSUME DaemonInv, [Next]_vars PROVE DaemonInv'
  OBVIOUS
<1>1. ASSUME NEW u \in Users, Step(u) PROVE DaemonInv'
  BY <1>1, CleanInv, StaleInv, UnlinkInv, ReadInv, CheckInv, SpawnInv, SpawnFailsInv,
     TruncateInv, WriteInv, SignalInv, RemoveInv DEF Step
<1>2. ASSUME NEW u \in Users, Cut(u) \/ \E o \in Commands : Begin(u, o) PROVE DaemonInv'
  BY <1>2, CutInv, BeginInv
<1>3. ASSUME NEW d \in Pids, Listen(d) \/ Refused(d) \/ End(d) \/ Crash(d) PROVE DaemonInv'
  BY <1>3, ListenInv, RefusedInv, EndInv, CrashInv
<1>4. ASSUME NEW p \in Pids, OtherBegins(p) \/ OtherEnds(p) PROVE DaemonInv'
  BY <1>4, OtherBeginsInv, OtherEndsInv
<1>5. CASE Reboot \/ Rest
  BY <1>5, RebootInv, RestInv
<1>6. CASE UNCHANGED vars
  BY <1>6 DEF vars, world, commands, pidFile, DaemonInv, TypeOK, Labelled, Alone,
              Findable, Harmless, Unsignalled, Named, StillThere, Emptied, Settled, Daemons,
              Child, Busy
<1>. QED  BY <1>1, <1>2, <1>3, <1>4, <1>5, <1>6 DEF Next, Commands

\* The inductive invariant holds in every reachable state of the commands, the daemons
\* and their PID file.
THEOREM Inductive == Spec => []DaemonInv
<1>. QED  BY InitInv, NextInv, PTL DEF Spec

\* The types of the commands, the processes and the file.
THEOREM TypeCorrect == Spec => []TypeOK
<1>1. DaemonInv => TypeOK
  BY DEF DaemonInv
<1>. QED  BY <1>1, Inductive, PTL

\* The file names a daemon whose start nothing disturbed until it is signalled, whatever
\* start, stop and status do, so there is never a second one.
THEOREM FindableAlways == Spec => []Findable
<1>1. DaemonInv => Findable
  BY DEF DaemonInv
<1>. QED  BY <1>1, Inductive, PTL

\* An undisturbed stop signals another program only in the place of a daemon that has
\* ended astray.
LEMMA SignalsDaemon ==
  ASSUME DaemonInv, NEW u \in Users, Signal(u), proc[seen[u]] = "other"
  PROVE  seen[u] \in astray \/ u \in overlapped
<1>. SUFFICES ASSUME seen[u] \notin astray, u \notin overlapped PROVE FALSE
  OBVIOUS
<1>1. pc[u] = "signal" /\ seen[u] \in Pids /\ file = seen[u]
  BY DEF Signal, DaemonInv, Labelled, StillThere
<1>2. seen[u] \notin Daemons
  BY DEF Daemons
<1>3. PICK v \in Users : pc[v] = "remove"
  BY <1>1, <1>2 DEF DaemonInv, Named
<1>. QED  BY <1>1, <1>3 DEF DaemonInv, Alone

\* The SIGTERM of a stop reaches another program only when the daemon whose identifier
\* it has ended by itself, or when commands overlapped or were cut; that includes a number
\* two overlapping starts have made of two identifiers, whatever Over says it is.
THEOREM SparesOthersAlways == Spec => SparesOthers
<1>1. DaemonInv /\ [Next]_vars =>
        [\A u \in Users : Signal(u) /\ proc[seen[u]] = "other"
            => seen[u] \in astray \/ u \in overlapped]_vars
  BY SignalsDaemon
<1>. QED  BY <1>1, Inductive, PTL DEF Spec, SparesOthers
=============================================================================
