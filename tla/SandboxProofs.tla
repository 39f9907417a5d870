--------------------------- MODULE SandboxProofs ---------------------------
(***************************************************************************)
(* The Manager of the sandboxes, for any identifiers, callers and number   *)
(* of containers.                                                          *)
(*                                                                         *)
(* The argument: a process inside docker start or docker stop holds the    *)
(* lock of its sandbox, which only becomes destroyed under that lock, and  *)
(* docker rm comes after that.  And as long as no two Creates and no two   *)
(* Destroys of one identifier overlap, a Create finds the identifier free  *)
(* until it inserts its sandbox, and a Destroy finds its sandbox there     *)
(* until it deletes it, so neither overwrites another container's entry.   *)
(***************************************************************************)
EXTENDS SandboxManager, TLAPS

\* The method a process is in, and the sandbox it works on.
Working ==
  \A p \in Processes :
    /\ pc[p] = "get" => op[p] \in {"Create", "Start", "Stop", "Destroy"}
    /\ pc[p] \in {"create", "insert"} => op[p] = "Create"
    /\ pc[p] = "start" => op[p] = "Start"
    /\ pc[p] \in {"remove", "delete"} => op[p] = "Destroy"
    /\ pc[p] = "lock" => op[p] \in {"Start", "Stop", "Destroy"}
    /\ pc[p] = "stop" => op[p] \in {"Stop", "Destroy"}
    /\ pc[p] \in {"insert", "lock", "start", "stop", "remove", "delete"} =>
         sb[p] \in Sandboxes /\ docker[sb[p]] # "none"

\* Docker works on a sandbox that is not destroyed, and removes one that is.
Guarded ==
  \A p \in Processes :
    /\ pc[p] \in {"start", "stop"} => state[sb[p]] # "destroyed"
    /\ pc[p] \in {"remove", "delete"} => state[sb[p]] = "destroyed"
    /\ pc[p] = "delete" => docker[sb[p]] = "removed"

\* A sandbox in the map was made, one that was not made is not destroyed, and only
\* one that is destroyed has lost its container.
Made ==
  /\ \A i \in Ids : sandboxes[i] # None => docker[sandboxes[i]] # "none"
  /\ \A s \in Sandboxes : docker[s] = "none" => state[s] # "destroyed"
  /\ \A s \in Sandboxes : docker[s] = "removed" => state[s] = "destroyed"

\* There are no two Creates and no two Destroys of one identifier.
Apart ==
  \A p, q \in Processes :
    pc[p] # "idle" /\ pc[q] # "idle" /\ op[p] \in {"Create", "Destroy"} /\ op[q] = op[p]
      /\ id[q] = id[p] => q = p

\* What a Create and a Destroy have found in the map is still so.
StillThere ==
  \A p \in Processes :
    /\ pc[p] \in {"create", "insert"} => sandboxes[id[p]] = None
    /\ pc[p] = "insert" => idOf[sb[p]] = id[p]
    /\ pc[p] \in {"lock", "stop", "remove", "delete"} /\ op[p] = "Destroy" =>
         sandboxes[id[p]] = sb[p]

SandboxInv ==
  /\ TypeOK /\ Working /\ Guarded /\ Made
  /\ raced \/ (Apart /\ StillThere)
  /\ NoLeak

-----------------------------------------------------------------------------
(* The inductive invariant.                                                *)

\* At first there is nothing.
LEMMA InitInv == Init => SandboxInv
<1>. SUFFICES ASSUME Init PROVE SandboxInv
  OBVIOUS
<1>. USE SandboxAssumption DEF Init, Sandboxes, None, AnyId, Live, Processes
<1>1. TypeOK
  BY DEF TypeOK
<1>2. Working /\ Guarded /\ Made
  BY DEF Working, Guarded, Made
<1>3. Apart /\ StillThere
  BY DEF Apart, StillThere
<1>4. NoLeak
  BY DEF NoLeak
<1>. QED  BY <1>1, <1>2, <1>3, <1>4 DEF SandboxInv

\* A process that leaves its method changes nothing that others rely on.
LEMMA ReturnInv ==
  ASSUME SandboxInv, NEW p \in Processes, Return(p), pc[p] # "insert",
         reading' \subseteq Callers, UNCHANGED <<sandboxes, boxes, waiting, past>>
  PROVE  SandboxInv'
<1>. USE SandboxAssumption
     DEF Return,
         boxes, mu, frame, past, Sandboxes, None, Live, Processes
<1>1. TypeOK'
  BY DEF SandboxInv, TypeOK, Working
<1>2. Working'
  BY DEF SandboxInv, TypeOK, Working
<1>3. Guarded'
  BY DEF SandboxInv, TypeOK, Working, Guarded, Made
<1>4. Made'
  BY DEF SandboxInv, TypeOK, Working, Guarded, Made
<1>5. (raced \/ Apart)'
  BY DEF SandboxInv, TypeOK, Working, Apart
<1>6. (raced \/ StillThere)'
  BY DEF SandboxInv, TypeOK, Working, Apart, StillThere, Made
<1>7. NoLeak'
  BY DEF SandboxInv, TypeOK, Working, Guarded, Made, NoLeak, StillThere
<1>. QED  BY <1>1, <1>2, <1>3, <1>4, <1>5, <1>6, <1>7 DEF SandboxInv

\* A process takes the lock of a sandbox that is not destroyed.
LEMMA HoldInv ==
  ASSUME SandboxInv, NEW p \in Processes, NEW next \in {"start", "stop"}, Lock(p), Hold(p, next),
         state[sb[p]] # "destroyed",
         op[p] = "Start" \/ (next = "stop" /\ op[p] \in {"Stop", "Destroy"}),
         op[p] = "Start" => next = "start",
         UNCHANGED <<sandboxes, mu, past>>
  PROVE  SandboxInv'
<1>. USE SandboxAssumption
     DEF Lock, Hold, GoOn,
         boxes, mu, frame, past, Sandboxes, None, Live, Processes
<1>1. TypeOK'
  BY DEF SandboxInv, TypeOK, Working
<1>2. Working'
  BY DEF SandboxInv, TypeOK, Working
<1>3. Guarded'
  BY DEF SandboxInv, TypeOK, Working, Guarded, Made
<1>4. Made'
  BY DEF SandboxInv, TypeOK, Working, Guarded, Made
<1>5. (raced \/ Apart)'
  BY DEF SandboxInv, TypeOK, Working, Apart
<1>6. (raced \/ StillThere)'
  BY DEF SandboxInv, TypeOK, Working, Apart, StillThere, Made
<1>7. NoLeak'
  BY DEF SandboxInv, TypeOK, Working, Guarded, Made, NoLeak, StillThere
<1>. QED  BY <1>1, <1>2, <1>3, <1>4, <1>5, <1>6, <1>7 DEF SandboxInv

\* A call begins: if no other of its kind runs on the identifier, it is the only one.
LEMMA EnterInv ==
  ASSUME SandboxInv, NEW p \in Processes, NEW i \in Ids,
         NEW o \in {"Create", "Start", "Stop", "Destroy"}, Enter(p, o, i)
  PROVE  SandboxInv'
<1>. USE SandboxAssumption
     DEF Enter, Overlaps,
         boxes, mu, frame, past, Sandboxes, None, Live, Processes
<1>1. TypeOK'
  BY DEF SandboxInv, TypeOK, Working
<1>2. Working'
  BY DEF SandboxInv, TypeOK, Working
<1>3. Guarded'
  BY DEF SandboxInv, TypeOK, Working, Guarded, Made
<1>4. Made'
  BY DEF SandboxInv, TypeOK, Working, Guarded, Made
<1>5. (raced \/ Apart)'
  BY DEF SandboxInv, TypeOK, Working, Apart
<1>6. (raced \/ StillThere)'
  BY DEF SandboxInv, TypeOK, Working, Apart, StillThere, Made
<1>7. NoLeak'
  BY DEF SandboxInv, TypeOK, Working, Guarded, Made, NoLeak, StillThere
<1>. QED  BY <1>1, <1>2, <1>3, <1>4, <1>5, <1>6, <1>7 DEF SandboxInv

\* The map is read: Create goes on if it finds no sandbox, the others if they find one.
LEMMA GetInv ==
  ASSUME SandboxInv, NEW p \in Processes, Get(p)
  PROVE  SandboxInv'
<1>. USE SandboxAssumption DEF boxes, mu, frame, past, Sandboxes, None, Live, Processes
<1>1. CASE /\ pc[p] = "get" /\ op[p] = "Create" /\ sandboxes[id[p]] = None
           /\ pc' = [pc EXCEPT ![p] = "create"]
           /\ UNCHANGED <<sandboxes, boxes, mu, frame, past>>
  <2>. USE <1>1
  <2>1. TypeOK'
    BY DEF SandboxInv, TypeOK, Working
  <2>2. Working'
    BY DEF SandboxInv, TypeOK, Working, Guarded, Made
  <2>3. Guarded'
    BY DEF SandboxInv, TypeOK, Working, Guarded, Made
  <2>4. Made'
    BY DEF SandboxInv, TypeOK, Working, Guarded, Made
  <2>5. (raced \/ Apart)'
    BY DEF SandboxInv, TypeOK, Working, Apart
  <2>6. (raced \/ StillThere)'
    BY DEF SandboxInv, TypeOK, Working, Apart, StillThere, Made
  <2>7. NoLeak'
    BY DEF SandboxInv, TypeOK, Working, Guarded, Made, NoLeak, StillThere
  <2>. QED  BY <2>1, <2>2, <2>3, <2>4, <2>5, <2>6, <2>7 DEF SandboxInv
<1>2. CASE /\ pc[p] = "get" /\ op[p] # "Create" /\ sandboxes[id[p]] # None
           /\ pc' = [pc EXCEPT ![p] = "lock"]
           /\ sb' = [sb EXCEPT ![p] = sandboxes[id[p]]]
           /\ UNCHANGED <<sandboxes, boxes, mu, op, id, seen, past>>
  <2>. USE <1>2
  <2>1. TypeOK'
    BY DEF SandboxInv, TypeOK, Working
  <2>2. Working'
    BY DEF SandboxInv, TypeOK, Working, Guarded, Made
  <2>3. Guarded'
    BY DEF SandboxInv, TypeOK, Working, Guarded, Made
  <2>4. Made'
    BY DEF SandboxInv, TypeOK, Working, Guarded, Made
  <2>5. (raced \/ Apart)'
    BY DEF SandboxInv, TypeOK, Working, Apart
  <2>6. (raced \/ StillThere)'
    BY DEF SandboxInv, TypeOK, Working, Apart, StillThere, Made
  <2>7. NoLeak'
    BY DEF SandboxInv, TypeOK, Working, Guarded, Made, NoLeak, StillThere
  <2>. QED  BY <2>1, <2>2, <2>3, <2>4, <2>5, <2>6, <2>7 DEF SandboxInv
<1>3. CASE Return(p)
  BY <1>3, ReturnInv DEF Get, SandboxInv, TypeOK
<1>. QED  BY <1>1, <1>2, <1>3 DEF Get, GoOn

\* A writer waits.
LEMMA WaitToWriteInv ==
  ASSUME SandboxInv, NEW p \in Processes, WaitToWrite(p)
  PROVE  SandboxInv'
<1>. USE SandboxAssumption
     DEF WaitToWrite,
         boxes, mu, frame, past, Sandboxes, None, Live, Processes
<1>1. TypeOK'
  BY DEF SandboxInv, TypeOK, Working
<1>2. Working'
  BY DEF SandboxInv, TypeOK, Working
<1>3. Guarded'
  BY DEF SandboxInv, TypeOK, Working, Guarded, Made
<1>4. Made'
  BY DEF SandboxInv, TypeOK, Working, Guarded, Made
<1>5. (raced \/ Apart)'
  BY DEF SandboxInv, TypeOK, Working, Apart
<1>6. (raced \/ StillThere)'
  BY DEF SandboxInv, TypeOK, Working, Apart, StillThere, Made
<1>7. NoLeak'
  BY DEF SandboxInv, TypeOK, Working, Guarded, Made, NoLeak, StillThere
<1>. QED  BY <1>1, <1>2, <1>3, <1>4, <1>5, <1>6, <1>7 DEF SandboxInv

\* A container is made, for an identifier no other Create is about.
LEMMA DockerCreateInv ==
  ASSUME SandboxInv, NEW p \in Processes, DockerCreate(p)
  PROVE  SandboxInv'
<1>. USE SandboxAssumption
     DEF DockerCreate, Makes,
         boxes, mu, frame, past, Sandboxes, None, Live, Processes
<1>1. TypeOK'
  BY DEF SandboxInv, TypeOK, Working
<1>2. Working'
  BY DEF SandboxInv, TypeOK, Working
<1>3. Guarded'
  BY DEF SandboxInv, TypeOK, Working, Guarded, Made
<1>4. Made'
  BY DEF SandboxInv, TypeOK, Working, Guarded, Made
<1>5. (raced \/ Apart)'
  BY DEF SandboxInv, TypeOK, Working, Apart
<1>6. (raced \/ StillThere)'
  BY DEF SandboxInv, TypeOK, Working, Apart, StillThere, Made
<1>7. NoLeak'
  BY DEF SandboxInv, TypeOK, Working, Guarded, Made, NoLeak, StillThere
<1>. QED  BY <1>1, <1>2, <1>3, <1>4, <1>5, <1>6, <1>7 DEF SandboxInv

\* A docker create fails after it made a container: no map will ever have it.
LEMMA MadeAndFailedInv ==
  ASSUME SandboxInv, NEW p \in Processes, NEW s \in Sandboxes, pc[p] = "create", Makes(p, s),
         unreported' = unreported \cup {s}, Return(p),
         UNCHANGED <<sandboxes, state, idle, owner, mu, raced, forgotten>>
  PROVE  SandboxInv'
<1>. USE SandboxAssumption
     DEF Makes, Return,
         boxes, mu, frame, past, Sandboxes, None, Live, Processes
<1>1. TypeOK'
  BY DEF SandboxInv, TypeOK, Working
<1>2. Working'
  BY DEF SandboxInv, TypeOK, Working
<1>3. Guarded'
  BY DEF SandboxInv, TypeOK, Working, Guarded, Made
<1>4. Made'
  BY DEF SandboxInv, TypeOK, Working, Guarded, Made
<1>5. (raced \/ Apart)'
  BY DEF SandboxInv, TypeOK, Working, Apart
<1>6. (raced \/ StillThere)'
  BY DEF SandboxInv, TypeOK, Working, Apart, StillThere, Made
<1>7. NoLeak'
  BY DEF SandboxInv, TypeOK, Working, Guarded, Made, NoLeak, StillThere
<1>. QED  BY <1>1, <1>2, <1>3, <1>4, <1>5, <1>6, <1>7 DEF SandboxInv

\* A docker create fails, with or without a container.
LEMMA CreateFailsInv ==
  ASSUME SandboxInv, NEW p \in Processes, CreateFails(p)
  PROVE  SandboxInv'
<1>1. CASE UNCHANGED <<docker, idOf, unreported>>
  BY <1>1, ReturnInv DEF CreateFails, boxes, mu, past, SandboxInv, TypeOK
<1>2. ASSUME NEW s \in Sandboxes, Makes(p, s), unreported' = unreported \cup {s}
      PROVE  SandboxInv'
  BY <1>2, MadeAndFailedInv DEF CreateFails
<1>. QED  BY <1>1, <1>2 DEF CreateFails

\* A sandbox is inserted where there was none.
LEMMA InsertInv ==
  ASSUME SandboxInv, NEW p \in Processes, Insert(p)
  PROVE  SandboxInv'
<1>. USE SandboxAssumption
     DEF Insert, WriteMap, Return,
         boxes, mu, frame, past, Sandboxes, None, Live, Processes
<1>1. TypeOK'
  BY DEF SandboxInv, TypeOK, Working
<1>2. Working'
  BY DEF SandboxInv, TypeOK, Working
<1>3. Guarded'
  BY DEF SandboxInv, TypeOK, Working, Guarded, Made
<1>4. Made'
  BY DEF SandboxInv, TypeOK, Working, Guarded, Made
<1>5. (raced \/ Apart)'
  BY DEF SandboxInv, TypeOK, Working, Apart
<1>6. (raced \/ StillThere)'
  <2>. SUFFICES ASSUME ~raced, NEW q \in Processes, q # p, pc[q] # "idle"
                PROVE  StillThere!(q)'
    BY DEF SandboxInv, TypeOK, StillThere
  <2>1. op[q] = "Create" => id[q] # id[p]
    BY DEF SandboxInv, TypeOK, Working, Apart
  <2>2. pc[q] \in {"lock", "stop", "remove", "delete"} /\ op[q] = "Destroy" => id[q] # id[p]
    BY DEF SandboxInv, TypeOK, Working, StillThere
  <2>. QED  BY <2>1, <2>2 DEF SandboxInv, TypeOK, Working, StillThere
<1>7. NoLeak'
  BY DEF SandboxInv, TypeOK, Working, Guarded, Made, NoLeak, StillThere
<1>. QED  BY <1>1, <1>2, <1>3, <1>4, <1>5, <1>6, <1>7 DEF SandboxInv

\* Start has the lock, or leaves the sandbox alone.
LEMMA LockStartInv ==
  ASSUME SandboxInv, NEW p \in Processes, LockStart(p)
  PROVE  SandboxInv'
<1>1. CASE Hold(p, "start") /\ state[sb[p]] # "destroyed"
  BY <1>1, HoldInv DEF LockStart
<1>2. CASE Return(p) /\ UNCHANGED boxes
  BY <1>2, ReturnInv DEF LockStart, Lock, SandboxInv, TypeOK, mu
<1>. QED  BY <1>1, <1>2 DEF LockStart, MayStart

\* Stop has the lock, or leaves the sandbox alone.
LEMMA LockStopInv ==
  ASSUME SandboxInv, NEW p \in Processes, LockStop(p)
  PROVE  SandboxInv'
<1>1. CASE Hold(p, "stop") /\ state[sb[p]] # "destroyed"
  BY <1>1, HoldInv DEF LockStop
<1>2. CASE Return(p) /\ UNCHANGED boxes
  BY <1>2, ReturnInv DEF LockStop, Lock, SandboxInv, TypeOK, mu
<1>. QED  BY <1>1, <1>2 DEF LockStop, MayStart

\* Destroy has the lock, or need not stop the container.
LEMMA LockDestroyInv ==
  ASSUME SandboxInv, NEW p \in Processes, LockDestroy(p)
  PROVE  SandboxInv'
<1>1. CASE state[sb[p]] = "running"
  BY <1>1, HoldInv DEF LockDestroy
<1>2. CASE /\ pc[p] = "lock" /\ op[p] = "Destroy" /\ owner[sb[p]] = Nobody
           /\ state' = [state EXCEPT ![sb[p]] = "destroyed"]
           /\ pc' = [pc EXCEPT ![p] = "remove"]
           /\ UNCHANGED <<sandboxes, idle, owner, docker, idOf, mu, frame, past>>
  <2>. USE <1>2, SandboxAssumption DEF boxes, mu, frame, past, Sandboxes, None, Live, Processes
  <2>1. TypeOK'
    BY DEF SandboxInv, TypeOK, Working
  <2>2. Working'
    BY DEF SandboxInv, TypeOK, Working, Guarded, Made
  <2>3. Guarded'
    BY DEF SandboxInv, TypeOK, Working, Guarded, Made
  <2>4. Made'
    BY DEF SandboxInv, TypeOK, Working, Guarded, Made
  <2>5. (raced \/ Apart)'
    BY DEF SandboxInv, TypeOK, Working, Apart
  <2>6. (raced \/ StillThere)'
    BY DEF SandboxInv, TypeOK, Working, Apart, StillThere, Made
  <2>7. NoLeak'
    BY DEF SandboxInv, TypeOK, Working, Guarded, Made, NoLeak, StillThere
  <2>. QED  BY <2>1, <2>2, <2>3, <2>4, <2>5, <2>6, <2>7 DEF SandboxInv
<1>. QED  BY <1>1, <1>2 DEF LockDestroy, Lock, GoOn

\* docker start, while the lock is held.
LEMMA DockerStartInv ==
  ASSUME SandboxInv, NEW p \in Processes, DockerStart(p)
  PROVE  SandboxInv'
<1>. USE SandboxAssumption
     DEF DockerStart, Unlock, Return,
         boxes, mu, frame, past, Sandboxes, None, Live, Processes
<1>1. TypeOK'
  BY DEF SandboxInv, TypeOK, Working
<1>2. Working'
  BY DEF SandboxInv, TypeOK, Working
<1>3. Guarded'
  BY DEF SandboxInv, TypeOK, Working, Guarded, Made
<1>4. Made'
  BY DEF SandboxInv, TypeOK, Working, Guarded, Made
<1>5. (raced \/ Apart)'
  BY DEF SandboxInv, TypeOK, Working, Apart
<1>6. (raced \/ StillThere)'
  BY DEF SandboxInv, TypeOK, Working, Apart, StillThere, Made
<1>7. NoLeak'
  BY DEF SandboxInv, TypeOK, Working, Guarded, Made, NoLeak, StillThere
<1>. QED  BY <1>1, <1>2, <1>3, <1>4, <1>5, <1>6, <1>7 DEF SandboxInv

\* docker start fails, and may have taken effect.
LEMMA StartFailsInv ==
  ASSUME SandboxInv, NEW p \in Processes, StartFails(p)
  PROVE  SandboxInv'
<1>. USE SandboxAssumption
     DEF StartFails, Unlock, Return,
         boxes, mu, frame, past, Sandboxes, None, Live, Processes
<1>1. TypeOK'
  <2>1. docker' \in [Sandboxes -> {"none", "created", "running", "exited", "removed"}]
    BY DEF SandboxInv, TypeOK
  <2>2. state' \in [Sandboxes -> {"creating", "running", "stopped", "destroyed", "failed"}]
    BY DEF SandboxInv, TypeOK
  <2>3. \A q \in Processes : pc'[q] \in {"start", "stop"} => owner'[sb'[q]] = q
    BY DEF SandboxInv, TypeOK
  <2>. QED  BY <2>1, <2>2, <2>3 DEF SandboxInv, TypeOK
<1>2. Working'
  BY DEF SandboxInv, TypeOK, Working
<1>3. Guarded'
  BY DEF SandboxInv, TypeOK, Working, Guarded, Made
<1>4. Made'
  BY DEF SandboxInv, TypeOK, Working, Guarded, Made
<1>5. (raced \/ Apart)'
  BY DEF SandboxInv, TypeOK, Working, Apart
<1>6. (raced \/ StillThere)'
  BY DEF SandboxInv, TypeOK, Working, Apart, StillThere, Made
<1>7. NoLeak'
  BY DEF SandboxInv, TypeOK, Working, Guarded, Made, NoLeak, StillThere
<1>. QED  BY <1>1, <1>2, <1>3, <1>4, <1>5, <1>6, <1>7 DEF SandboxInv

\* docker stop, while the lock is held.
LEMMA DockerStopInv ==
  ASSUME SandboxInv, NEW p \in Processes, DockerStop(p)
  PROVE  SandboxInv'
<1>. USE SandboxAssumption
     DEF Exited, Unlock, Return, boxes, mu, frame, past, Sandboxes, None, Live, Processes
<1>. /\ pc[p] = "stop" /\ op[p] = "Stop" /\ Unlock(p) /\ Return(p)
     /\ UNCHANGED <<sandboxes, idle, idOf, mu, past>>
  BY DEF DockerStop
<1>1. CASE docker' = Exited(sb[p]) /\ state' = [state EXCEPT ![sb[p]] = "stopped"]
  <2>. USE <1>1
  <2>1. TypeOK'
    BY DEF SandboxInv, TypeOK, Working
  <2>2. Working'
    BY DEF SandboxInv, TypeOK, Working
  <2>3. Guarded'
    BY DEF SandboxInv, TypeOK, Working, Guarded, Made
  <2>4. Made'
    BY DEF SandboxInv, TypeOK, Working, Guarded, Made
  <2>5. (raced \/ Apart)'
    BY DEF SandboxInv, TypeOK, Working, Apart
  <2>6. (raced \/ StillThere)'
    BY DEF SandboxInv, TypeOK, Working, Apart, StillThere, Made
  <2>7. NoLeak'
    BY DEF SandboxInv, TypeOK, Working, Guarded, Made, NoLeak, StillThere
  <2>. QED  BY <2>1, <2>2, <2>3, <2>4, <2>5, <2>6, <2>7 DEF SandboxInv
<1>2. CASE docker' = docker /\ UNCHANGED state
  <2>. USE <1>2
  <2>1. TypeOK'
    BY DEF SandboxInv, TypeOK, Working
  <2>2. Working'
    BY DEF SandboxInv, TypeOK, Working
  <2>3. Guarded'
    BY DEF SandboxInv, TypeOK, Working, Guarded, Made
  <2>4. Made'
    BY DEF SandboxInv, TypeOK, Working, Guarded, Made
  <2>5. (raced \/ Apart)'
    BY DEF SandboxInv, TypeOK, Working, Apart
  <2>6. (raced \/ StillThere)'
    BY DEF SandboxInv, TypeOK, Working, Apart, StillThere, Made
  <2>7. NoLeak'
    BY DEF SandboxInv, TypeOK, Working, Guarded, Made, NoLeak, StillThere
  <2>. QED  BY <2>1, <2>2, <2>3, <2>4, <2>5, <2>6, <2>7 DEF SandboxInv
<1>3. CASE docker' = Exited(sb[p]) /\ UNCHANGED state
  <2>. USE <1>3
  <2>1. TypeOK'
    BY DEF SandboxInv, TypeOK, Working
  <2>2. Working'
    BY DEF SandboxInv, TypeOK, Working
  <2>3. Guarded'
    BY DEF SandboxInv, TypeOK, Working, Guarded, Made
  <2>4. Made'
    BY DEF SandboxInv, TypeOK, Working, Guarded, Made
  <2>5. (raced \/ Apart)'
    BY DEF SandboxInv, TypeOK, Working, Apart
  <2>6. (raced \/ StillThere)'
    BY DEF SandboxInv, TypeOK, Working, Apart, StillThere, Made
  <2>7. NoLeak'
    BY DEF SandboxInv, TypeOK, Working, Guarded, Made, NoLeak, StillThere
  <2>. QED  BY <2>1, <2>2, <2>3, <2>4, <2>5, <2>6, <2>7 DEF SandboxInv
<1>. QED  BY <1>1, <1>2, <1>3 DEF DockerStop

\* docker stop in a Destroy, which sets the state before it unlocks.
LEMMA StopForDestroyInv ==
  ASSUME SandboxInv, NEW p \in Processes, StopForDestroy(p)
  PROVE  SandboxInv'
<1>. USE SandboxAssumption
     DEF StopForDestroy, Exited, Unlock, GoOn,
         boxes, mu, frame, past, Sandboxes, None, Live, Processes
<1>1. TypeOK'
  BY DEF SandboxInv, TypeOK, Working
<1>2. Working'
  BY DEF SandboxInv, TypeOK, Working
<1>3. Guarded'
  BY DEF SandboxInv, TypeOK, Working, Guarded, Made
<1>4. Made'
  BY DEF SandboxInv, TypeOK, Working, Guarded, Made
<1>5. (raced \/ Apart)'
  BY DEF SandboxInv, TypeOK, Working, Apart
<1>6. (raced \/ StillThere)'
  BY DEF SandboxInv, TypeOK, Working, Apart, StillThere, Made
<1>7. NoLeak'
  BY DEF SandboxInv, TypeOK, Working, Guarded, Made, NoLeak, StillThere
<1>. QED  BY <1>1, <1>2, <1>3, <1>4, <1>5, <1>6, <1>7 DEF SandboxInv

\* docker rm, after the lock was released: the sandbox is destroyed.
LEMMA DockerRemoveInv ==
  ASSUME SandboxInv, NEW p \in Processes, DockerRemove(p)
  PROVE  SandboxInv'
<1>. USE SandboxAssumption
     DEF DockerRemove, GoOn,
         boxes, mu, frame, past, Sandboxes, None, Live, Processes
<1>1. TypeOK'
  BY DEF SandboxInv, TypeOK, Working
<1>2. Working'
  BY DEF SandboxInv, TypeOK, Working
<1>3. Guarded'
  BY DEF SandboxInv, TypeOK, Working, Guarded, Made
<1>4. Made'
  BY DEF SandboxInv, TypeOK, Working, Guarded, Made
<1>5. (raced \/ Apart)'
  BY DEF SandboxInv, TypeOK, Working, Apart
<1>6. (raced \/ StillThere)'
  BY DEF SandboxInv, TypeOK, Working, Apart, StillThere, Made
<1>7. NoLeak'
  BY DEF SandboxInv, TypeOK, Working, Guarded, Made, NoLeak, StillThere
<1>. QED  BY <1>1, <1>2, <1>3, <1>4, <1>5, <1>6, <1>7 DEF SandboxInv

\* docker rm fails, and may have taken effect: the sandbox is destroyed, and in the map.
LEMMA RemoveFailsInv ==
  ASSUME SandboxInv, NEW p \in Processes, RemoveFails(p)
  PROVE  SandboxInv'
<1>1. CASE UNCHANGED docker
  BY <1>1, ReturnInv DEF RemoveFails, boxes, mu, past, SandboxInv, TypeOK
<1>2. CASE docker' = [docker EXCEPT ![sb[p]] = "removed"]
  <2>. USE <1>2, SandboxAssumption
       DEF RemoveFails, Return,
           boxes, mu, frame, past, Sandboxes, None, Live, Processes
  <2>1. TypeOK'
    BY DEF SandboxInv, TypeOK, Working
  <2>2. Working'
    BY DEF SandboxInv, TypeOK, Working
  <2>3. Guarded'
    BY DEF SandboxInv, TypeOK, Working, Guarded, Made
  <2>4. Made'
    BY DEF SandboxInv, TypeOK, Working, Guarded, Made
  <2>5. (raced \/ Apart)'
    BY DEF SandboxInv, TypeOK, Working, Apart
  <2>6. (raced \/ StillThere)'
    BY DEF SandboxInv, TypeOK, Working, Apart, StillThere, Made
  <2>7. NoLeak'
    BY DEF SandboxInv, TypeOK, Working, Guarded, Made, NoLeak, StillThere
  <2>. QED  BY <2>1, <2>2, <2>3, <2>4, <2>5, <2>6, <2>7 DEF SandboxInv
<1>. QED  BY <1>1, <1>2 DEF RemoveFails

\* The map loses the sandbox whose container was removed.
LEMMA DeleteInv ==
  ASSUME SandboxInv, NEW p \in Processes, Delete(p)
  PROVE  SandboxInv'
<1>. USE SandboxAssumption
     DEF Delete, WriteMap, Return,
         boxes, mu, frame, past, Sandboxes, None, Live, Processes
<1>1. TypeOK'
  BY DEF SandboxInv, TypeOK, Working
<1>2. Working'
  BY DEF SandboxInv, TypeOK, Working
<1>3. Guarded'
  BY DEF SandboxInv, TypeOK, Working, Guarded, Made
<1>4. Made'
  BY DEF SandboxInv, TypeOK, Working, Guarded, Made
<1>5. (raced \/ Apart)'
  BY DEF SandboxInv, TypeOK, Working, Apart
<1>6. (raced \/ StillThere)'
  <2>. SUFFICES ASSUME ~raced, NEW q \in Processes, q # p, pc[q] # "idle"
                PROVE  StillThere!(q)'
    BY DEF SandboxInv, TypeOK, StillThere
  <2>1. op[q] = "Destroy" => id[q] # id[p]
    BY DEF SandboxInv, TypeOK, Working, Apart
  <2>. QED  BY <2>1 DEF SandboxInv, TypeOK, Working, StillThere
<1>7. NoLeak'
  BY DEF SandboxInv, TypeOK, Working, Guarded, Made, NoLeak, StillThere
<1>. QED  BY <1>1, <1>2, <1>3, <1>4, <1>5, <1>6, <1>7 DEF SandboxInv

\* A process that goes on listing, like one that leaves, disturbs nobody.
LEMMA ListInv ==
  ASSUME SandboxInv, NEW p \in Processes, ListStart(p) \/ ListRead(p) \/ ListEnd(p)
  PROVE  SandboxInv'
<1>. USE SandboxAssumption DEF boxes, mu, frame, past, Sandboxes, None, Live, Processes
<1>1. CASE ListStart(p)
  <2>. USE <1>1 DEF ListStart
  <2>1. TypeOK'
    BY DEF SandboxInv, TypeOK, Working
  <2>2. Working'
    BY DEF SandboxInv, TypeOK, Working
  <2>3. Guarded'
    BY DEF SandboxInv, TypeOK, Working, Guarded, Made
  <2>4. Made'
    BY DEF SandboxInv, TypeOK, Working, Guarded, Made
  <2>5. (raced \/ Apart)'
    BY DEF SandboxInv, TypeOK, Working, Apart
  <2>6. (raced \/ StillThere)'
    BY DEF SandboxInv, TypeOK, Working, Apart, StillThere, Made
  <2>7. NoLeak'
    BY DEF SandboxInv, TypeOK, Working, Guarded, Made, NoLeak, StillThere
  <2>. QED  BY <2>1, <2>2, <2>3, <2>4, <2>5, <2>6, <2>7 DEF SandboxInv
<1>2. CASE ListRead(p)
  <2>. USE <1>2 DEF ListRead, Tracked
  <2>1. TypeOK'
    BY DEF SandboxInv, TypeOK, Working
  <2>2. Working'
    BY DEF SandboxInv, TypeOK, Working
  <2>3. Guarded'
    BY DEF SandboxInv, TypeOK, Working, Guarded, Made
  <2>4. Made'
    BY DEF SandboxInv, TypeOK, Working, Guarded, Made
  <2>5. (raced \/ Apart)'
    BY DEF SandboxInv, TypeOK, Working, Apart
  <2>6. (raced \/ StillThere)'
    BY DEF SandboxInv, TypeOK, Working, Apart, StillThere, Made
  <2>7. NoLeak'
    BY DEF SandboxInv, TypeOK, Working, Guarded, Made, NoLeak, StillThere
  <2>. QED  BY <2>1, <2>2, <2>3, <2>4, <2>5, <2>6, <2>7 DEF SandboxInv
<1>3. CASE ListEnd(p)
  <2>1. reading' \subseteq Callers
    BY <1>3 DEF ListEnd, SandboxInv, TypeOK
  <2>. QED  BY <1>3, <2>1, ReturnInv DEF ListEnd
<1>. QED  BY <1>1, <1>2, <1>3

\* Time goes by: only the idle times change.
LEMMA IdleInv ==
  ASSUME SandboxInv, NEW s \in Sandboxes, Touch(s) \/ IdleTimeout(s)
  PROVE  SandboxInv'
<1>1. /\ idle' \in [Sandboxes -> BOOLEAN]
      /\ UNCHANGED <<sandboxes, state, owner, docker, idOf, mu, pc, frame, past>>
  BY DEF Touch, IdleTimeout, SandboxInv, TypeOK
<1>. QED  BY <1>1 DEF SandboxInv, TypeOK, Working, Guarded, Made, Apart, StillThere, NoLeak,
                       Live, mu, frame, past

\* A container ends by itself, and is still there.
LEMMA ContainerExitsInv ==
  ASSUME SandboxInv, NEW s \in Sandboxes, ContainerExits(s)
  PROVE  SandboxInv'
<1>. USE SandboxAssumption
     DEF ContainerExits, Exited,
         boxes, mu, frame, past, Sandboxes, None, Live, Processes
<1>1. TypeOK'
  BY DEF SandboxInv, TypeOK, Working
<1>2. Working'
  BY DEF SandboxInv, TypeOK, Working
<1>3. Guarded'
  BY DEF SandboxInv, TypeOK, Working, Guarded, Made
<1>4. Made'
  BY DEF SandboxInv, TypeOK, Working, Guarded, Made
<1>5. (raced \/ Apart)'
  BY DEF SandboxInv, TypeOK, Working, Apart
<1>6. (raced \/ StillThere)'
  BY DEF SandboxInv, TypeOK, Working, Apart, StillThere, Made
<1>7. NoLeak'
  BY DEF SandboxInv, TypeOK, Working, Guarded, Made, NoLeak, StillThere
<1>. QED  BY <1>1, <1>2, <1>3, <1>4, <1>5, <1>6, <1>7 DEF SandboxInv

\* A new Manager forgets every container.
LEMMA NewProcessInv ==
  ASSUME SandboxInv, NewProcess
  PROVE  SandboxInv'
<1>. USE SandboxAssumption
     DEF NewProcess,
         boxes, mu, frame, past, Sandboxes, None, Live, Processes
<1>1. TypeOK'
  BY DEF SandboxInv, TypeOK, Working
<1>2. Working'
  BY DEF SandboxInv, TypeOK, Working
<1>3. Guarded'
  BY DEF SandboxInv, TypeOK, Working, Guarded, Made
<1>4. Made'
  BY DEF SandboxInv, TypeOK, Working, Guarded, Made
<1>5. (raced \/ Apart)'
  BY DEF SandboxInv, TypeOK, Working, Apart
<1>6. (raced \/ StillThere)'
  BY DEF SandboxInv, TypeOK, Working, Apart, StillThere, Made
<1>7. NoLeak'
  BY DEF SandboxInv, TypeOK, Working, Guarded, Made, NoLeak, StillThere
<1>. QED  BY <1>1, <1>2, <1>3, <1>4, <1>5, <1>6, <1>7 DEF SandboxInv

-----------------------------------------------------------------------------
(* The theorems.                                                           *)

\* Every step of the callers, of the auto-heal loop and of the world.
LEMMA NextInv == SandboxInv /\ [Next]_vars => SandboxInv'
<1>. SUFFICES ASSUME SandboxInv, [Next]_vars PROVE SandboxInv'
  OBVIOUS
<1>1. ASSUME NEW p \in Processes, Step(p) PROVE SandboxInv'
  <2>1. CASE Get(p)  BY <2>1, GetInv
  <2>2. CASE WaitToWrite(p)  BY <2>2, WaitToWriteInv
  <2>3. CASE DockerCreate(p)  BY <2>3, DockerCreateInv
  <2>4. CASE CreateFails(p)  BY <2>4, CreateFailsInv
  <2>5. CASE Insert(p)  BY <2>5, InsertInv
  <2>6. CASE LockStart(p)  BY <2>6, LockStartInv
  <2>7. CASE DockerStart(p)  BY <2>7, DockerStartInv
  <2>8. CASE StartFails(p)  BY <2>8, StartFailsInv
  <2>9. CASE LockStop(p)  BY <2>9, LockStopInv
  <2>10. CASE DockerStop(p)  BY <2>10, DockerStopInv
  <2>11. CASE LockDestroy(p)  BY <2>11, LockDestroyInv
  <2>12. CASE StopForDestroy(p)  BY <2>12, StopForDestroyInv
  <2>13. CASE DockerRemove(p)  BY <2>13, DockerRemoveInv
  <2>14. CASE RemoveFails(p)  BY <2>14, RemoveFailsInv
  <2>15. CASE Delete(p)  BY <2>15, DeleteInv
  <2>16. CASE ListRead(p) \/ ListEnd(p)  BY <2>16, ListInv
  <2>. QED  BY <1>1, <2>1, <2>2, <2>3, <2>4, <2>5, <2>6, <2>7, <2>8, <2>9, <2>10, <2>11,
               <2>12, <2>13, <2>14, <2>15, <2>16 DEF Step
<1>2. ASSUME NEW p \in Processes, Call(p) PROVE SandboxInv'
  BY <1>2, EnterInv DEF Call
<1>3. ASSUME NEW p \in Processes, ListStart(p) PROVE SandboxInv'
  BY <1>3, ListInv
<1>4. ASSUME NEW i \in Ids, Heal(i) PROVE SandboxInv'
  BY <1>4, EnterInv DEF Heal, Processes
<1>5. ASSUME NEW s \in Sandboxes, Touch(s) \/ IdleTimeout(s) \/ ContainerExits(s)
      PROVE  SandboxInv'
  BY <1>5, IdleInv, ContainerExitsInv
<1>6. CASE NewProcess
  BY <1>6, NewProcessInv
<1>7. CASE UNCHANGED vars
  BY <1>7 DEF vars, boxes, mu, frame, past, SandboxInv, TypeOK, Working, Guarded, Made, Apart,
              StillThere, NoLeak, Live
<1>. QED  BY <1>1, <1>2, <1>3, <1>4, <1>5, <1>6, <1>7 DEF Next

\* The inductive invariant holds in every reachable state of the Manager.
THEOREM Inductive == Spec => []SandboxInv
<1>. QED  BY InitInv, NextInv, PTL DEF Spec

\* The types of the map, the sandboxes and the processes; the lock of a sandbox is held
\* by the process inside docker start or docker stop.
THEOREM TypeCorrect == Spec => []TypeOK
<1>1. SandboxInv => TypeOK
  BY DEF SandboxInv
<1>. QED  BY <1>1, Inductive, PTL

\* docker start and docker stop are never run on a container that docker rm, which runs
\* outside the lock, has removed.
THEOREM ContainerExistsAlways == Spec => []ContainerExists
<1>1. SandboxInv => ContainerExists
  <2>. SUFFICES ASSUME SandboxInv PROVE ContainerExists
    OBVIOUS
  <2>1. \A p \in Processes : pc[p] \in {"start", "stop"} => Live(sb[p])
    BY DEF SandboxInv, TypeOK, Working, Guarded, Made, Live
  <2>. QED  BY <2>1 DEF SandboxInv, Made, ContainerExists
<1>. QED  BY <1>1, Inductive, PTL

\* Unless two Creates or two Destroys of one identifier overlap, no container that a docker
\* create of this process has reported is lost, whatever fails half-way; one that was made by
\* a docker create that failed is never found.
THEOREM NoLeakAlways == Spec => []NoLeak
<1>1. SandboxInv => NoLeak
  BY DEF SandboxInv
<1>. QED  BY <1>1, Inductive, PTL

\* No step brings back a sandbox that is destroyed.
LEMMA StepKeepsDestroyed ==
  ASSUME SandboxInv, [Next]_vars, NEW s \in Sandboxes, state[s] = "destroyed"
  PROVE  state'[s] = "destroyed"
<1>1. ASSUME NEW p \in Processes, DockerCreate(p) PROVE state'[s] = "destroyed"
  BY <1>1 DEF DockerCreate, Makes, SandboxInv, TypeOK, Made
<1>2. ASSUME NEW p \in Processes, DockerStart(p) \/ StartFails(p) \/ DockerStop(p)
      PROVE  state'[s] = "destroyed"
  BY <1>2 DEF DockerStart, StartFails, DockerStop, SandboxInv, TypeOK, Guarded
<1>3. ASSUME NEW p \in Processes, LockDestroy(p) \/ StopForDestroy(p)
      PROVE  state'[s] = "destroyed"
  BY <1>3 DEF LockDestroy, StopForDestroy, Hold, SandboxInv, TypeOK
<1>4. ASSUME NEW p \in Processes, Step(p), UNCHANGED state PROVE state'[s] = "destroyed"
  BY <1>4
<1>5. ASSUME NEW p \in Processes, Step(p) PROVE state'[s] = "destroyed"
  BY <1>1, <1>2, <1>3, <1>5
     DEF Step, Get, WaitToWrite, CreateFails, Insert, LockStart, LockStop, DockerRemove,
         RemoveFails, Delete, WriteMap, Hold, ListRead, ListEnd, boxes
<1>6. CASE UNCHANGED vars
  BY <1>6 DEF vars, boxes
<1>. QED  BY <1>5, <1>6 DEF Next, Call, Heal, Enter, ListStart, Touch, IdleTimeout, ContainerExits,
                             NewProcess, boxes

\* A sandbox that was destroyed stays so, whatever the callers that waited for its lock
\* and the auto-heal loop were about to do.
THEOREM DestroyedForGoodAlways == Spec => DestroyedForGood
<1>1. SandboxInv /\ [Next]_vars =>
        [\A s \in Sandboxes : state[s] = "destroyed" => state'[s] = "destroyed"]_state
  BY StepKeepsDestroyed
<1>. QED  BY <1>1, Inductive, PTL DEF Spec, DestroyedForGood
=============================================================================
