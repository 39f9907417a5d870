--------------------------- MODULE HeadroomProofs ---------------------------
(***************************************************************************)
(* The Manager of the headroom child, for any callers and number of        *)
(* children.                                                               *)
(*                                                                         *)
(* The argument: as long as no child is launched before the monitor and    *)
(* the stop of the one before are through, there is one monitor at work,   *)
(* that of m.cmd, whose channel is still open, and every stop is about     *)
(* m.cmd and its channel.                                                  *)
(***************************************************************************)
EXTENDS HeadroomManager, TLAPS

\* A Start that waits for its child holds m.mu, and a stop has a child to wait for.
Working ==
  \A c \in Callers :
    /\ pc[c] = "health" => cmd \in Children /\ running
    /\ pc[c] \in {"stopping", "relock"} => target[c] \in Children /\ waitOn[c] = target[c]

\* m.running is about a child whose monitor has not cleared it, and m.cmd is about one as
\* soon as one was launched.
Watched ==
  /\ running => cmd \in Children /\ monitor[cmd] \in {"wait", "lock", "dead"}
  /\ \A i \in Children : child[i] # "none" => cmd \in Children

\* A child is there until its monitor has seen it exit, and none is before it is launched.
Reaped ==
  \A i \in Children :
    /\ monitor[i] = "none" => child[i] = "none"
    /\ child[i] = "none" => monitor[i] \in {"none", "dead"}
    /\ monitor[i] \in {"lock", "close", "end"} => child[i] = "exited"

\* Goroutines die together.
Dead ==
  /\ ended = "no" => \A i \in Children : monitor[i] # "dead"
  /\ ended # "no" => /\ \A i \in Children : monitor[i] = "dead"
                     /\ \A c \in Callers : pc[c] = "dead"

\* One monitor is at work, and its channel is the one that m.done holds.
OneMonitor ==
  /\ \A i \in Children : monitor[i] \in {"wait", "lock", "close"} => i = cmd /\ i \notin closed
  /\ \A i \in closed : child[i] = "exited"

\* What a stop is about is m.cmd, which it has told to exit.
Told ==
  \A c \in Callers :
    /\ pc[c] \in {"stopping", "relock"} =>
         target[c] = cmd /\ child[cmd] \in {"interrupted", "killed", "exited"}
    /\ pc[c] = "relock" => child[cmd] \in {"killed", "exited"}

HeadroomInv ==
  /\ TypeOK /\ Working /\ Watched /\ Reaped /\ Dead /\ NoPanic /\ NoOrphan
  /\ overtaken \/ (OneMonitor /\ Told)

-----------------------------------------------------------------------------
(* The inductive invariant.                                                *)

\* At first there is no child.
LEMMA InitInv == Init => HeadroomInv
<1>. SUFFICES ASSUME Init PROVE HeadroomInv
  OBVIOUS
<1>. USE HeadroomAssumption DEF Init, Children, None
<1>1. TypeOK
  BY DEF TypeOK
<1>2. Working /\ Watched /\ Reaped /\ Dead
  BY DEF Working, Watched, Reaped, Dead
<1>3. OneMonitor /\ Told
  BY DEF OneMonitor, Told
<1>4. NoPanic /\ NoOrphan
  BY DEF NoPanic, NoOrphan
<1>. QED  BY <1>1, <1>2, <1>3, <1>4 DEF HeadroomInv

\* A call begins.
LEMMA CallInv ==
  ASSUME HeadroomInv, NEW c \in Callers, CallStart(c) \/ CallStop(c)
  PROVE  HeadroomInv'
<1>. USE HeadroomAssumption
     DEF CallStart, CallStop, manager, caller, Children, None
<1>1. TypeOK'
  BY DEF HeadroomInv, TypeOK, Working, Watched
<1>2. Working'
  BY DEF HeadroomInv, TypeOK, Working, Watched
<1>3. Watched'
  BY DEF HeadroomInv, TypeOK, Watched
<1>4. Reaped'
  BY DEF HeadroomInv, TypeOK, Working, Watched, Reaped
<1>5. Dead'
  BY DEF HeadroomInv, TypeOK, Dead
<1>6. NoPanic'
  BY DEF HeadroomInv, TypeOK, NoPanic, OneMonitor
<1>7. NoOrphan'
  BY DEF HeadroomInv, TypeOK, Working, Watched, Reaped, Dead, NoOrphan, OneMonitor, Told
<1>8. (overtaken \/ OneMonitor)'
  BY DEF HeadroomInv, TypeOK, Working, Watched, Reaped, Dead, OneMonitor, Told
<1>9. (overtaken \/ Told)'
  BY DEF HeadroomInv, TypeOK, Working, Watched, Reaped, Dead, OneMonitor, Told
<1>. QED  BY <1>1, <1>2, <1>3, <1>4, <1>5, <1>6, <1>7, <1>8, <1>9 DEF HeadroomInv

\* Start has nothing to do.
LEMMA StartReturnsInv ==
  ASSUME HeadroomInv, NEW c \in Callers, StartReturns(c)
  PROVE  HeadroomInv'
<1>. USE HeadroomAssumption
     DEF StartReturns, Return, manager, caller, Children, None
<1>1. TypeOK'
  BY DEF HeadroomInv, TypeOK, Working, Watched
<1>2. Working'
  BY DEF HeadroomInv, TypeOK, Working, Watched
<1>3. Watched'
  BY DEF HeadroomInv, TypeOK, Watched
<1>4. Reaped'
  BY DEF HeadroomInv, TypeOK, Working, Watched, Reaped
<1>5. Dead'
  BY DEF HeadroomInv, TypeOK, Dead
<1>6. NoPanic'
  BY DEF HeadroomInv, TypeOK, NoPanic, OneMonitor
<1>7. NoOrphan'
  BY DEF HeadroomInv, TypeOK, Working, Watched, Reaped, Dead, NoOrphan, OneMonitor, Told
<1>8. (overtaken \/ OneMonitor)'
  BY DEF HeadroomInv, TypeOK, Working, Watched, Reaped, Dead, OneMonitor, Told
<1>9. (overtaken \/ Told)'
  BY DEF HeadroomInv, TypeOK, Working, Watched, Reaped, Dead, OneMonitor, Told
<1>. QED  BY <1>1, <1>2, <1>3, <1>4, <1>5, <1>6, <1>7, <1>8, <1>9 DEF HeadroomInv

\* A child is launched: before it, no monitor is at work, or it overtakes one.
LEMMA LaunchInv ==
  ASSUME HeadroomInv, NEW c \in Callers, Launch(c)
  PROVE  HeadroomInv'
<1>. USE HeadroomAssumption
     DEF Launch, MayLaunch, SetRunning, manager, caller, Children, None
<1>1. TypeOK'
  BY DEF HeadroomInv, TypeOK, Working, Watched
<1>2. Working'
  BY DEF HeadroomInv, TypeOK, Working, Watched
<1>3. Watched'
  BY DEF HeadroomInv, TypeOK, Watched
<1>4. Reaped'
  BY DEF HeadroomInv, TypeOK, Working, Watched, Reaped
<1>5. Dead'
  BY DEF HeadroomInv, TypeOK, Dead
<1>6. NoPanic'
  BY DEF HeadroomInv, TypeOK, NoPanic, OneMonitor
<1>7. NoOrphan'
  BY DEF HeadroomInv, TypeOK, Working, Watched, Reaped, Dead, NoOrphan, OneMonitor, Told
<1>8. (overtaken \/ OneMonitor)'
  <2>. SUFFICES ASSUME ~overtaken' PROVE OneMonitor'
    OBVIOUS
  <2>1. PICK i \in Children :
          /\ child[i] = "none"
          /\ child' = [child EXCEPT ![i] = "alive"]
          /\ monitor' = [monitor EXCEPT ![i] = "wait"]
          /\ cmd' = i /\ done' = i
    OBVIOUS
  <2>2. /\ ~overtaken /\ OneMonitor
        /\ \A j \in Children : monitor[j] \in {"none", "end"}
        /\ \A d \in Callers : pc[d] \notin {"stopping", "relock"}
    BY DEF HeadroomInv
  <2>3. i \notin closed
    BY <2>1, <2>2 DEF OneMonitor
  <2>4. \A j \in Children : monitor'[j] \in {"wait", "lock", "close"} => j = i
    BY <2>1, <2>2 DEF HeadroomInv, TypeOK
  <2>5. \A j \in closed : child'[j] = "exited"
    BY <2>1, <2>2, <2>3 DEF OneMonitor, HeadroomInv, TypeOK
  <2>. QED  BY <2>1, <2>3, <2>4, <2>5 DEF OneMonitor
<1>9. (overtaken \/ Told)'
  <2>. SUFFICES ASSUME ~overtaken' PROVE Told'
    OBVIOUS
  <2>1. \A d \in Callers : pc[d] \notin {"stopping", "relock"}
    OBVIOUS
  <2>2. \A d \in Callers : pc'[d] \notin {"stopping", "relock"}
    BY <2>1 DEF HeadroomInv, TypeOK
  <2>. QED  BY <2>2 DEF Told
<1>. QED  BY <1>1, <1>2, <1>3, <1>4, <1>5, <1>6, <1>7, <1>8, <1>9 DEF HeadroomInv

\* A child answers, and Start returns.
LEMMA HealthyInv ==
  ASSUME HeadroomInv, NEW c \in Callers, Healthy(c)
  PROVE  HeadroomInv'
<1>. USE HeadroomAssumption
     DEF Healthy, Return, manager, caller, Children, None
<1>1. TypeOK'
  BY DEF HeadroomInv, TypeOK, Working, Watched
<1>2. Working'
  BY DEF HeadroomInv, TypeOK, Working, Watched
<1>3. Watched'
  BY DEF HeadroomInv, TypeOK, Watched
<1>4. Reaped'
  BY DEF HeadroomInv, TypeOK, Working, Watched, Reaped
<1>5. Dead'
  BY DEF HeadroomInv, TypeOK, Dead
<1>6. NoPanic'
  BY DEF HeadroomInv, TypeOK, NoPanic, OneMonitor
<1>7. NoOrphan'
  BY DEF HeadroomInv, TypeOK, Working, Watched, Reaped, Dead, NoOrphan, OneMonitor, Told
<1>8. (overtaken \/ OneMonitor)'
  BY DEF HeadroomInv, TypeOK, Working, Watched, Reaped, Dead, OneMonitor, Told
<1>9. (overtaken \/ Told)'
  BY DEF HeadroomInv, TypeOK, Working, Watched, Reaped, Dead, OneMonitor, Told
<1>. QED  BY <1>1, <1>2, <1>3, <1>4, <1>5, <1>6, <1>7, <1>8, <1>9 DEF HeadroomInv

\* m.cmd is told to exit, and m.mu is released.
LEMMA StopLockedInv ==
  ASSUME HeadroomInv, NEW c \in Callers, pc[c] = "health" \/ (pc[c] = "stop" /\ mu = Nobody),
         running, StopLocked(c)
  PROVE  HeadroomInv'
<1>. USE HeadroomAssumption
     DEF StopLocked, Interrupted, manager, caller, Children, None
<1>1. TypeOK'
  BY DEF HeadroomInv, TypeOK, Working, Watched
<1>2. Working'
  BY DEF HeadroomInv, TypeOK, Working, Watched
<1>3. Watched'
  BY DEF HeadroomInv, TypeOK, Watched
<1>4. Reaped'
  BY DEF HeadroomInv, TypeOK, Working, Watched, Reaped
<1>5. Dead'
  BY DEF HeadroomInv, TypeOK, Dead
<1>6. NoPanic'
  BY DEF HeadroomInv, TypeOK, NoPanic, OneMonitor
<1>7. NoOrphan'
  BY DEF HeadroomInv, TypeOK, Working, Watched, Reaped, Dead, NoOrphan, OneMonitor, Told
<1>8. (overtaken \/ OneMonitor)'
  BY DEF HeadroomInv, TypeOK, Working, Watched, Reaped, Dead, OneMonitor, Told
<1>9. (overtaken \/ Told)'
  BY DEF HeadroomInv, TypeOK, Working, Watched, Reaped, Dead, OneMonitor, Told
<1>. QED  BY <1>1, <1>2, <1>3, <1>4, <1>5, <1>6, <1>7, <1>8, <1>9 DEF HeadroomInv

\* The monitor of the child that was told to exit is through.
LEMMA DoneClosedInv ==
  ASSUME HeadroomInv, NEW c \in Callers, DoneClosed(c)
  PROVE  HeadroomInv'
<1>. USE HeadroomAssumption
     DEF DoneClosed, manager, caller, Children, None
<1>1. TypeOK'
  BY DEF HeadroomInv, TypeOK, Working, Watched
<1>2. Working'
  BY DEF HeadroomInv, TypeOK, Working, Watched
<1>3. Watched'
  BY DEF HeadroomInv, TypeOK, Watched
<1>4. Reaped'
  BY DEF HeadroomInv, TypeOK, Working, Watched, Reaped
<1>5. Dead'
  BY DEF HeadroomInv, TypeOK, Dead
<1>6. NoPanic'
  BY DEF HeadroomInv, TypeOK, NoPanic, OneMonitor
<1>7. NoOrphan'
  BY DEF HeadroomInv, TypeOK, Working, Watched, Reaped, Dead, NoOrphan, OneMonitor, Told
<1>8. (overtaken \/ OneMonitor)'
  BY DEF HeadroomInv, TypeOK, Working, Watched, Reaped, Dead, OneMonitor, Told
<1>9. (overtaken \/ Told)'
  BY DEF HeadroomInv, TypeOK, Working, Watched, Reaped, Dead, OneMonitor, Told
<1>. QED  BY <1>1, <1>2, <1>3, <1>4, <1>5, <1>6, <1>7, <1>8, <1>9 DEF HeadroomInv

\* The child is killed.
LEMMA StopTimeoutInv ==
  ASSUME HeadroomInv, NEW c \in Callers, StopTimeout(c)
  PROVE  HeadroomInv'
<1>. USE HeadroomAssumption
     DEF StopTimeout, Killed, manager, caller, Children, None
<1>1. TypeOK'
  BY DEF HeadroomInv, TypeOK, Working, Watched
<1>2. Working'
  BY DEF HeadroomInv, TypeOK, Working, Watched
<1>3. Watched'
  BY DEF HeadroomInv, TypeOK, Watched
<1>4. Reaped'
  BY DEF HeadroomInv, TypeOK, Working, Watched, Reaped
<1>5. Dead'
  BY DEF HeadroomInv, TypeOK, Dead
<1>6. NoPanic'
  BY DEF HeadroomInv, TypeOK, NoPanic, OneMonitor
<1>7. NoOrphan'
  BY DEF HeadroomInv, TypeOK, Working, Watched, Reaped, Dead, NoOrphan, OneMonitor, Told
<1>8. (overtaken \/ OneMonitor)'
  BY DEF HeadroomInv, TypeOK, Working, Watched, Reaped, Dead, OneMonitor, Told
<1>9. (overtaken \/ Told)'
  BY DEF HeadroomInv, TypeOK, Working, Watched, Reaped, Dead, OneMonitor, Told
<1>. QED  BY <1>1, <1>2, <1>3, <1>4, <1>5, <1>6, <1>7, <1>8, <1>9 DEF HeadroomInv

\* m.running is cleared, of a child that has exited or was killed.
LEMMA RelockInv ==
  ASSUME HeadroomInv, NEW c \in Callers, Relock(c)
  PROVE  HeadroomInv'
<1>. USE HeadroomAssumption
     DEF Relock, Return, manager, caller, Children, None
<1>1. TypeOK'
  BY DEF HeadroomInv, TypeOK, Working, Watched
<1>2. Working'
  BY DEF HeadroomInv, TypeOK, Working, Watched
<1>3. Watched'
  BY DEF HeadroomInv, TypeOK, Watched
<1>4. Reaped'
  BY DEF HeadroomInv, TypeOK, Working, Watched, Reaped
<1>5. Dead'
  BY DEF HeadroomInv, TypeOK, Dead
<1>6. NoPanic'
  BY DEF HeadroomInv, TypeOK, NoPanic, OneMonitor
<1>7. NoOrphan'
  BY DEF HeadroomInv, TypeOK, Working, Watched, Reaped, Dead, NoOrphan, OneMonitor, Told
<1>8. (overtaken \/ OneMonitor)'
  BY DEF HeadroomInv, TypeOK, Working, Watched, Reaped, Dead, OneMonitor, Told
<1>9. (overtaken \/ Told)'
  BY DEF HeadroomInv, TypeOK, Working, Watched, Reaped, Dead, OneMonitor, Told
<1>. QED  BY <1>1, <1>2, <1>3, <1>4, <1>5, <1>6, <1>7, <1>8, <1>9 DEF HeadroomInv

\* The monitor sees its child exit.
LEMMA MonitorWaitInv ==
  ASSUME HeadroomInv, NEW i \in Children, MonitorWait(i)
  PROVE  HeadroomInv'
<1>. USE HeadroomAssumption
     DEF MonitorWait, manager, caller, Children, None
<1>1. TypeOK'
  BY DEF HeadroomInv, TypeOK, Working, Watched
<1>2. Working'
  BY DEF HeadroomInv, TypeOK, Working, Watched
<1>3. Watched'
  BY DEF HeadroomInv, TypeOK, Watched
<1>4. Reaped'
  BY DEF HeadroomInv, TypeOK, Working, Watched, Reaped
<1>5. Dead'
  BY DEF HeadroomInv, TypeOK, Dead
<1>6. NoPanic'
  BY DEF HeadroomInv, TypeOK, NoPanic, OneMonitor
<1>7. NoOrphan'
  BY DEF HeadroomInv, TypeOK, Working, Watched, Reaped, Dead, NoOrphan, OneMonitor, Told
<1>8. (overtaken \/ OneMonitor)'
  BY DEF HeadroomInv, TypeOK, Working, Watched, Reaped, Dead, OneMonitor, Told
<1>9. (overtaken \/ Told)'
  BY DEF HeadroomInv, TypeOK, Working, Watched, Reaped, Dead, OneMonitor, Told
<1>. QED  BY <1>1, <1>2, <1>3, <1>4, <1>5, <1>6, <1>7, <1>8, <1>9 DEF HeadroomInv

\* The monitor clears m.running.
LEMMA MonitorLockInv ==
  ASSUME HeadroomInv, NEW i \in Children, MonitorLock(i)
  PROVE  HeadroomInv'
<1>. USE HeadroomAssumption
     DEF MonitorLock, manager, caller, Children, None
<1>1. TypeOK'
  BY DEF HeadroomInv, TypeOK, Working, Watched
<1>2. Working'
  BY DEF HeadroomInv, TypeOK, Working, Watched
<1>3. Watched'
  BY DEF HeadroomInv, TypeOK, Watched
<1>4. Reaped'
  BY DEF HeadroomInv, TypeOK, Working, Watched, Reaped
<1>5. Dead'
  BY DEF HeadroomInv, TypeOK, Dead
<1>6. NoPanic'
  BY DEF HeadroomInv, TypeOK, NoPanic, OneMonitor
<1>7. NoOrphan'
  BY DEF HeadroomInv, TypeOK, Working, Watched, Reaped, Dead, NoOrphan, OneMonitor, Told
<1>8. (overtaken \/ OneMonitor)'
  BY DEF HeadroomInv, TypeOK, Working, Watched, Reaped, Dead, OneMonitor, Told
<1>9. (overtaken \/ Told)'
  BY DEF HeadroomInv, TypeOK, Working, Watched, Reaped, Dead, OneMonitor, Told
<1>. QED  BY <1>1, <1>2, <1>3, <1>4, <1>5, <1>6, <1>7, <1>8, <1>9 DEF HeadroomInv

\* The monitor closes the channel in m.done.
LEMMA MonitorCloseInv ==
  ASSUME HeadroomInv, NEW i \in Children, MonitorClose(i)
  PROVE  HeadroomInv'
<1>. USE HeadroomAssumption
     DEF MonitorClose, manager, caller, Children, None
<1>1. TypeOK'
  BY DEF HeadroomInv, TypeOK, Watched, Reaped
<1>2. Working'
  BY DEF HeadroomInv, TypeOK, Working, Watched
<1>3. Watched'
  BY DEF HeadroomInv, TypeOK, Watched
<1>4. Reaped'
  BY DEF HeadroomInv, TypeOK, Working, Watched, Reaped
<1>5. Dead'
  BY DEF HeadroomInv, TypeOK, Dead
<1>6. NoPanic'
  BY DEF HeadroomInv, TypeOK, NoPanic, OneMonitor
<1>7. NoOrphan'
  BY DEF HeadroomInv, TypeOK, Working, Watched, Reaped, Dead, NoOrphan, OneMonitor, Told
<1>8. (overtaken \/ OneMonitor)'
  BY DEF HeadroomInv, TypeOK, Working, Watched, Reaped, Dead, OneMonitor, Told
<1>9. (overtaken \/ Told)'
  BY DEF HeadroomInv, TypeOK, Working, Watched, Reaped, Dead, OneMonitor, Told
<1>. QED  BY <1>1, <1>2, <1>3, <1>4, <1>5, <1>6, <1>7, <1>8, <1>9 DEF HeadroomInv

\* All goroutines end.
LEMMA EndsInv ==
  ASSUME HeadroomInv, NEW how \in {"panic", "exit"}, Ends(how), how = "panic" => overtaken
  PROVE  HeadroomInv'
<1>. USE HeadroomAssumption
     DEF Ends, manager, caller, Children, None
<1>1. TypeOK'
  BY DEF HeadroomInv, TypeOK, Working, Watched
<1>2. Working'
  BY DEF HeadroomInv, TypeOK, Working, Watched
<1>3. Watched'
  BY DEF HeadroomInv, TypeOK, Watched
<1>4. Reaped'
  BY DEF HeadroomInv, TypeOK, Working, Watched, Reaped
<1>5. Dead'
  BY DEF HeadroomInv, TypeOK, Dead
<1>6. NoPanic'
  BY DEF HeadroomInv, TypeOK, NoPanic, OneMonitor
<1>7. NoOrphan'
  BY DEF HeadroomInv, TypeOK, Working, Watched, Reaped, Dead, NoOrphan, OneMonitor, Told
<1>8. (overtaken \/ OneMonitor)'
  BY DEF HeadroomInv, TypeOK, Working, Watched, Reaped, Dead, OneMonitor, Told
<1>9. (overtaken \/ Told)'
  BY DEF HeadroomInv, TypeOK, Working, Watched, Reaped, Dead, OneMonitor, Told
<1>. QED  BY <1>1, <1>2, <1>3, <1>4, <1>5, <1>6, <1>7, <1>8, <1>9 DEF HeadroomInv

\* A child exits.
LEMMA ChildExitsInv ==
  ASSUME HeadroomInv, NEW i \in Children, ChildExits(i)
  PROVE  HeadroomInv'
<1>. USE HeadroomAssumption
     DEF ChildExits, manager, caller, Children, None
<1>1. TypeOK'
  BY DEF HeadroomInv, TypeOK, Working, Watched
<1>2. Working'
  BY DEF HeadroomInv, TypeOK, Working, Watched
<1>3. Watched'
  BY DEF HeadroomInv, TypeOK, Watched
<1>4. Reaped'
  BY DEF HeadroomInv, TypeOK, Working, Watched, Reaped
<1>5. Dead'
  BY DEF HeadroomInv, TypeOK, Dead
<1>6. NoPanic'
  BY DEF HeadroomInv, TypeOK, NoPanic, OneMonitor
<1>7. NoOrphan'
  BY DEF HeadroomInv, TypeOK, Working, Watched, Reaped, Dead, NoOrphan, OneMonitor, Told
<1>8. (overtaken \/ OneMonitor)'
  BY DEF HeadroomInv, TypeOK, Working, Watched, Reaped, Dead, OneMonitor, Told
<1>9. (overtaken \/ Told)'
  BY DEF HeadroomInv, TypeOK, Working, Watched, Reaped, Dead, OneMonitor, Told
<1>. QED  BY <1>1, <1>2, <1>3, <1>4, <1>5, <1>6, <1>7, <1>8, <1>9 DEF HeadroomInv

\* The context kills a child.
LEMMA ContextKillsInv ==
  ASSUME HeadroomInv, NEW i \in Children, ContextKills(i)
  PROVE  HeadroomInv'
<1>. USE HeadroomAssumption
     DEF ContextKills, Killed, manager, caller, Children, None
<1>1. TypeOK'
  BY DEF HeadroomInv, TypeOK, Working, Watched
<1>2. Working'
  BY DEF HeadroomInv, TypeOK, Working, Watched
<1>3. Watched'
  BY DEF HeadroomInv, TypeOK, Watched
<1>4. Reaped'
  BY DEF HeadroomInv, TypeOK, Working, Watched, Reaped
<1>5. Dead'
  BY DEF HeadroomInv, TypeOK, Dead
<1>6. NoPanic'
  BY DEF HeadroomInv, TypeOK, NoPanic, OneMonitor
<1>7. NoOrphan'
  BY DEF HeadroomInv, TypeOK, Working, Watched, Reaped, Dead, NoOrphan, OneMonitor, Told
<1>8. (overtaken \/ OneMonitor)'
  BY DEF HeadroomInv, TypeOK, Working, Watched, Reaped, Dead, OneMonitor, Told
<1>9. (overtaken \/ Told)'
  BY DEF HeadroomInv, TypeOK, Working, Watched, Reaped, Dead, OneMonitor, Told
<1>. QED  BY <1>1, <1>2, <1>3, <1>4, <1>5, <1>6, <1>7, <1>8, <1>9 DEF HeadroomInv

-----------------------------------------------------------------------------
(* The theorems.                                                           *)

\* A step of Start or Stop.
LEMMA StepInv ==
  ASSUME HeadroomInv, NEW c \in Callers, Step(c)
  PROVE  HeadroomInv'
<1>1. CASE StartReturns(c)  BY <1>1, StartReturnsInv
<1>2. CASE Launch(c)  BY <1>2, LaunchInv
<1>3. CASE Healthy(c)  BY <1>3, HealthyInv
<1>4. CASE Unhealthy(c)
  BY <1>4, StopLockedInv DEF Unhealthy, HeadroomInv, Working
<1>5. CASE Stop(c)
  <2>1. CASE running /\ StopLocked(c)
    BY <1>5, <2>1, StopLockedInv DEF Stop
  <2>2. CASE Return(c) /\ UNCHANGED <<manager, child, monitor, target, waitOn, cancelled, ended,
                                     overtaken>>
    BY <1>5, <2>2
       DEF Stop, Return, manager, HeadroomInv, TypeOK, Working, Watched, Reaped, Dead, NoPanic,
           NoOrphan, OneMonitor, Told
  <2>. QED  BY <1>5, <2>1, <2>2 DEF Stop
<1>6. CASE DoneClosed(c)  BY <1>6, DoneClosedInv
<1>7. CASE StopTimeout(c)  BY <1>7, StopTimeoutInv
<1>8. CASE Relock(c)  BY <1>8, RelockInv
<1>. QED  BY <1>1, <1>2, <1>3, <1>4, <1>5, <1>6, <1>7, <1>8 DEF Step

\* A step of a monitor.  It closes a channel twice only when it was overtaken.
LEMMA MonitorInv ==
  ASSUME HeadroomInv, NEW i \in Children, Monitor(i)
  PROVE  HeadroomInv'
<1>1. CASE MonitorPanics(i)
  <2>1. overtaken
    BY <1>1 DEF MonitorPanics, HeadroomInv, TypeOK, OneMonitor
  <2>. QED  BY <1>1, <2>1, EndsInv DEF MonitorPanics
<1>. QED  BY <1>1, MonitorWaitInv, MonitorLockInv, MonitorCloseInv DEF Monitor

\* Every step of the callers, the monitors, the children and the program.
LEMMA NextInv == HeadroomInv /\ [Next]_vars => HeadroomInv'
<1>. SUFFICES ASSUME HeadroomInv, [Next]_vars PROVE HeadroomInv'
  OBVIOUS
<1>1. ASSUME NEW c \in Callers, CallStart(c) \/ CallStop(c) \/ Step(c) PROVE HeadroomInv'
  BY <1>1, CallInv, StepInv
<1>2. ASSUME NEW i \in Children, Monitor(i) \/ ChildExits(i) \/ ContextKills(i)
      PROVE  HeadroomInv'
  BY <1>2, MonitorInv, ChildExitsInv, ContextKillsInv
<1>3. CASE ProgramExits
  BY <1>3, EndsInv DEF ProgramExits
<1>4. CASE Cancel
  BY <1>4 DEF Cancel, manager, caller, HeadroomInv, TypeOK, Working, Watched, Reaped, Dead,
              NoPanic, NoOrphan, OneMonitor, Told
<1>5. CASE UNCHANGED vars
  BY <1>5 DEF vars, manager, caller, HeadroomInv, TypeOK, Working, Watched, Reaped, Dead,
              NoPanic, NoOrphan, OneMonitor, Told
<1>. QED  BY <1>1, <1>2, <1>3, <1>4, <1>5 DEF Next

\* The inductive invariant holds in every reachable state of the Manager.
THEOREM Inductive == Spec => []HeadroomInv
<1>. QED  BY InitInv, NextInv, PTL DEF Spec

\* The types of the Manager, its callers, monitors and children; m.mu is held between
\* two steps only by a Start that waits for its child.
THEOREM TypeCorrect == Spec => []TypeOK
<1>1. HeadroomInv => TypeOK
  BY DEF HeadroomInv
<1>. QED  BY <1>1, Inductive, PTL

\* No monitor closes a channel that is closed, unless a child was launched before the
\* monitor and the stop of the one before were through.
THEOREM NoPanicAlways == Spec => []NoPanic
<1>1. HeadroomInv => NoPanic
  BY DEF HeadroomInv
<1>. QED  BY <1>1, Inductive, PTL

\* Likewise a child that nobody has told to exit is the one that Stop would stop.
THEOREM NoOrphanAlways == Spec => []NoOrphan
<1>1. HeadroomInv => NoOrphan
  BY DEF HeadroomInv
<1>. QED  BY <1>1, Inductive, PTL

\* Whatever overtakes whatever, m.running is not left set when no monitor is at work.
THEOREM ExitNoticedAlways == Spec => []ExitNoticed
<1>1. HeadroomInv => ExitNoticed
  BY DEF HeadroomInv, Watched, ExitNoticed
<1>. QED  BY <1>1, Inductive, PTL

\* A stop returns only when its child has exited or was killed, unless it was overtaken.
THEOREM StopStopsAlways == Spec => StopStops
<1>1. HeadroomInv =>
        [\A c \in Callers :
           pc[c] = "relock" /\ pc'[c] = "idle" /\ ~overtaken =>
             child[target[c]] \in {"killed", "exited"}]_pc
  BY DEF HeadroomInv, Told
<1>. QED  BY <1>1, Inductive, PTL DEF StopStops
=============================================================================
