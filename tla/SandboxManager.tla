--------------------------- MODULE SandboxManager ---------------------------
(***************************************************************************)
(* internal/sandbox/sandbox.go: the Manager of the sandbox containers.     *)
(*                                                                         *)
(* Callers and the auto-heal loop use one Manager concurrently.  m.mu      *)
(* guards the map only; a sandbox's own mu guards its state and is held    *)
(* while docker starts or stops its container, but not while docker        *)
(* creates or removes it.  List reads every sandbox while it holds m.mu,   *)
(* and a writer that waits for m.mu keeps new readers out, as              *)
(* sync.RWMutex does.                                                      *)
(*                                                                         *)
(* Docker is external: a command may fail, and one that fails may have     *)
(* taken effect; a container may exit on its own.  Every container and the *)
(* Sandbox made for it have the same number.  DestroyAll is a sequence of  *)
(* Destroy calls; Inspect changes nothing.                                 *)
(***************************************************************************)
EXTENDS Integers, FiniteSets

CONSTANTS Ids,          \* session identifiers
          Callers,      \* goroutines that call the Manager
          Healer,       \* the goroutine of StartAutoHeal
          Nobody,       \* no process
          MaxSandboxes  \* bound on the containers ever created

ASSUME SandboxAssumption ==
  /\ Ids # {}
  /\ Healer \notin Callers /\ Nobody \notin Callers \cup {Healer}
  /\ MaxSandboxes \in Nat

VARIABLES sandboxes,  \* the Manager's map: a Sandbox for each identifier, or None
          state,      \* Sandbox.state
          idle,       \* more than IdleTimeout has passed since LastActivityAt
          owner,      \* the writer that holds a Sandbox's mu, or Nobody
          docker,     \* what docker knows of each container
          idOf,       \* the identifier in a container's name
          reading,    \* the List calls that hold m.mu for reading
          waiting,    \* the writers that wait for m.mu
          pc,         \* where each process is
          op,         \* the method it is in
          id,         \* its argument
          sb,         \* the Sandbox it works on, or None
          seen,       \* the Sandboxes its List has read
          raced,      \* history: two Creates or two Destroys of one sandbox overlapped
          forgotten,  \* history: the containers that earlier processes left behind
          unreported  \* history: the containers of a docker create that failed

boxes == <<state, idle, owner, docker, idOf>>
mu    == <<reading, waiting>>
frame == <<op, id, sb, seen>>
past  == <<raced, forgotten, unreported>>
vars  == <<sandboxes, boxes, mu, pc, frame, past>>

Processes == Callers \cup {Healer}
Sandboxes == 1..MaxSandboxes
None      == 0
AnyId     == CHOOSE i \in Ids : TRUE

\* The container exists.
Live(s) == docker[s] \in {"created", "running", "exited"}

-----------------------------------------------------------------------------
(* Leaving a method, and moving on in it.                                  *)

Return(p) ==
  /\ pc' = [pc EXCEPT ![p] = "idle"]
  /\ op' = [op EXCEPT ![p] = "none"]
  /\ sb' = [sb EXCEPT ![p] = None]
  /\ seen' = [seen EXCEPT ![p] = {}]
  /\ UNCHANGED id

GoOn(p, next) ==
  /\ pc' = [pc EXCEPT ![p] = next]
  /\ UNCHANGED frame

-----------------------------------------------------------------------------
(* m.mu.  Sections that only read or write the map are single steps.       *)

MayRead == waiting = {}

\* The step that finds the lock held joins the writers that wait.
WaitToWrite(p) ==
  /\ pc[p] \in {"insert", "delete"}
  /\ reading # {} /\ p \notin waiting
  /\ waiting' = waiting \cup {p}
  /\ UNCHANGED <<sandboxes, boxes, reading, pc, frame, past>>

WriteMap(p, s) ==
  /\ reading = {}
  /\ waiting' = waiting \ {p}
  /\ sandboxes' = [sandboxes EXCEPT ![id[p]] = s]
  /\ Return(p)
  /\ UNCHANGED <<boxes, reading, past>>

-----------------------------------------------------------------------------
(* Calls, and what every method begins with.                               *)

Overlaps(p, o, i) ==
  o \in {"Create", "Destroy"} /\ \E q \in Processes \ {p} :
                                   pc[q] # "idle" /\ op[q] = o /\ id[q] = i

Enter(p, o, i) ==
  /\ pc[p] = "idle"
  /\ pc' = [pc EXCEPT ![p] = "get"]
  /\ op' = [op EXCEPT ![p] = o]
  /\ id' = [id EXCEPT ![p] = i]
  /\ raced' = (raced \/ Overlaps(p, o, i))
  /\ UNCHANGED <<sandboxes, boxes, mu, sb, seen, forgotten, unreported>>

Call(p) ==
  \E o \in {"Create", "Start", "Stop", "Destroy"}, i \in Ids : p \in Callers /\ Enter(p, o, i)

\* healAll reads a sandbox and lets go of its lock before it acts.
Heal(i) ==
  LET s == sandboxes[i]
  IN  /\ MayRead /\ s # None
      /\ owner[s] = Nobody
      /\ \/ state[s] = "failed" /\ Enter(Healer, "Start", i)
         \/ state[s] = "running" /\ idle[s] /\ Enter(Healer, "Destroy", i)

\* Create must not find the sandbox, the others must.
Get(p) ==
  /\ pc[p] = "get" /\ MayRead
  /\ LET s == sandboxes[id[p]]
     IN  IF op[p] = "Create" /\ s = None THEN GoOn(p, "create")
         ELSE IF op[p] # "Create" /\ s # None
         THEN /\ pc' = [pc EXCEPT ![p] = "lock"]
              /\ sb' = [sb EXCEPT ![p] = s]
              /\ UNCHANGED <<op, id, seen>>
         ELSE Return(p)
  /\ UNCHANGED <<sandboxes, boxes, mu, past>>

-----------------------------------------------------------------------------
(* Create.                                                                 *)

\* docker makes the next container, and refuses a name that is in use.
Makes(p, s) ==
  /\ docker[s] = "none"
  /\ \A t \in Sandboxes : docker[t] = "none" => s <= t
  /\ \A t \in Sandboxes : Live(t) => idOf[t] # id[p]
  /\ docker' = [docker EXCEPT ![s] = "created"]
  /\ idOf' = [idOf EXCEPT ![s] = id[p]]

DockerCreate(p) ==
  /\ pc[p] = "create"
  /\ \E s \in Sandboxes :
       /\ Makes(p, s)
       /\ state' = [state EXCEPT ![s] = "creating"]
       /\ idle' = [idle EXCEPT ![s] = FALSE]
       /\ sb' = [sb EXCEPT ![p] = s]
  /\ pc' = [pc EXCEPT ![p] = "insert"]
  /\ UNCHANGED <<sandboxes, owner, op, id, seen, mu, past>>

\* Also a docker create that ctx killed when the container was made: Create returns the
\* error and keeps no Sandbox for it.
CreateFails(p) ==
  /\ pc[p] = "create"
  /\ \/ UNCHANGED <<docker, idOf, unreported>>
     \/ \E s \in Sandboxes : Makes(p, s) /\ unreported' = unreported \cup {s}
  /\ Return(p)
  /\ UNCHANGED <<sandboxes, state, idle, owner, mu, raced, forgotten>>

Insert(p) == pc[p] = "insert" /\ WriteMap(p, sb[p])

-----------------------------------------------------------------------------
(* Start, Stop and Destroy lock the sandbox, then look at its state.       *)

\* mutant: Start does not look for StateDestroyed.
MayStartDestroyed(s) == state[s] # "running"

MayStart(s) == state[s] \notin {"running", "destroyed"}

Lock(p) == pc[p] = "lock" /\ owner[sb[p]] = Nobody

Hold(p, next) ==
  /\ owner' = [owner EXCEPT ![sb[p]] = p]
  /\ GoOn(p, next)
  /\ UNCHANGED <<state, idle, docker, idOf>>

LockStart(p) ==
  /\ Lock(p) /\ op[p] = "Start"
  /\ IF MayStart(sb[p]) THEN Hold(p, "start") ELSE Return(p) /\ UNCHANGED boxes
  /\ UNCHANGED <<sandboxes, mu, past>>

LockStop(p) ==
  /\ Lock(p) /\ op[p] = "Stop"
  /\ IF state[sb[p]] \in {"stopped", "destroyed"} THEN Return(p) /\ UNCHANGED boxes
     ELSE Hold(p, "stop")
  /\ UNCHANGED <<sandboxes, mu, past>>

LockDestroy(p) ==
  /\ Lock(p) /\ op[p] = "Destroy"
  /\ IF state[sb[p]] = "running" THEN Hold(p, "stop")
     ELSE /\ state' = [state EXCEPT ![sb[p]] = "destroyed"]
          /\ GoOn(p, "remove")
          /\ UNCHANGED <<idle, owner, docker, idOf>>
  /\ UNCHANGED <<sandboxes, mu, past>>

Unlock(p) == owner' = [owner EXCEPT ![sb[p]] = Nobody]

DockerStart(p) ==
  /\ pc[p] = "start" /\ Live(sb[p])
  /\ docker' = [docker EXCEPT ![sb[p]] = "running"]
  /\ state' = [state EXCEPT ![sb[p]] = "running"]
  /\ idle' = [idle EXCEPT ![sb[p]] = FALSE]
  /\ Unlock(p) /\ Return(p)
  /\ UNCHANGED <<sandboxes, idOf, mu, past>>

StartFails(p) ==
  /\ pc[p] = "start"
  /\ \/ UNCHANGED docker
     \/ Live(sb[p]) /\ docker' = [docker EXCEPT ![sb[p]] = "running"]
  /\ state' = [state EXCEPT ![sb[p]] = "failed"]
  /\ Unlock(p) /\ Return(p)
  /\ UNCHANGED <<sandboxes, idle, idOf, mu, past>>

\* The container, if docker stop took effect.
Exited(s) == [docker EXCEPT ![s] = IF @ = "running" THEN "exited" ELSE @]

DockerStop(p) ==
  /\ pc[p] = "stop" /\ op[p] = "Stop"
  /\ \/ docker' = Exited(sb[p]) /\ state' = [state EXCEPT ![sb[p]] = "stopped"]
     \/ docker' \in {docker, Exited(sb[p])} /\ UNCHANGED state
  /\ Unlock(p) /\ Return(p)
  /\ UNCHANGED <<sandboxes, idle, idOf, mu, past>>

\* mutant: the state is not set before the lock is released.
StopAndForget(p) ==
  /\ pc[p] = "stop" /\ op[p] = "Destroy"
  /\ docker' \in {docker, Exited(sb[p])}
  /\ Unlock(p)
  /\ GoOn(p, "remove")
  /\ UNCHANGED <<sandboxes, state, idle, idOf, mu, past>>

\* Destroy ignores the error of docker stop.
StopForDestroy(p) ==
  /\ pc[p] = "stop" /\ op[p] = "Destroy"
  /\ docker' \in {docker, Exited(sb[p])}
  /\ state' = [state EXCEPT ![sb[p]] = "destroyed"]
  /\ Unlock(p)
  /\ GoOn(p, "remove")
  /\ UNCHANGED <<sandboxes, idle, idOf, mu, past>>

\* docker rm --force, also of a container that is gone.
DockerRemove(p) ==
  /\ pc[p] = "remove"
  /\ docker' = [docker EXCEPT ![sb[p]] = "removed"]
  /\ GoOn(p, "delete")
  /\ UNCHANGED <<sandboxes, state, idle, owner, idOf, mu, past>>

\* mutant: the map forgets the sandbox although its container is there.
RemoveFailsAndDeletes(p) ==
  /\ pc[p] = "remove"
  /\ GoOn(p, "delete")
  /\ UNCHANGED <<sandboxes, boxes, mu, past>>

\* mutant: Destroy begins again when docker rm fails.
RemoveFailsRetries(p) ==
  /\ pc[p] = "remove"
  /\ GoOn(p, "lock")
  /\ UNCHANGED <<sandboxes, boxes, mu, past>>

RemoveFails(p) ==
  /\ pc[p] = "remove"
  /\ \/ UNCHANGED docker
     \/ docker' = [docker EXCEPT ![sb[p]] = "removed"]
  /\ Return(p)
  /\ UNCHANGED <<sandboxes, state, idle, owner, idOf, mu, past>>

\* Whatever the identifier stands for by now.
Delete(p) == pc[p] = "delete" /\ WriteMap(p, None)

-----------------------------------------------------------------------------
(* List and Touch.                                                         *)

ListStart(p) ==
  /\ p \in Callers /\ pc[p] = "idle" /\ MayRead
  /\ reading' = reading \cup {p}
  /\ op' = [op EXCEPT ![p] = "List"]
  /\ pc' = [pc EXCEPT ![p] = "list"]
  /\ UNCHANGED <<sandboxes, boxes, waiting, id, sb, seen, past>>

Tracked == {sandboxes[i] : i \in Ids} \ {None}

ListRead(p) ==
  /\ pc[p] = "list"
  /\ \E s \in Tracked \ seen[p] :
       owner[s] = Nobody /\ seen' = [seen EXCEPT ![p] = @ \cup {s}]
  /\ UNCHANGED <<sandboxes, boxes, mu, pc, op, id, sb, past>>

ListEnd(p) ==
  /\ pc[p] = "list" /\ Tracked \subseteq seen[p]
  /\ reading' = reading \ {p}
  /\ Return(p)
  /\ UNCHANGED <<sandboxes, boxes, waiting, past>>

Touch(s) ==
  /\ idle[s] /\ owner[s] = Nobody
  /\ idle' = [idle EXCEPT ![s] = FALSE]
  /\ UNCHANGED <<sandboxes, state, owner, docker, idOf, mu, pc, frame, past>>

-----------------------------------------------------------------------------
(* Time, docker and the process.                                           *)

IdleTimeout(s) ==
  /\ state[s] = "running" /\ ~idle[s]
  /\ idle' = [idle EXCEPT ![s] = TRUE]
  /\ UNCHANGED <<sandboxes, state, owner, docker, idOf, mu, pc, frame, past>>

ContainerExits(s) ==
  /\ docker[s] = "running"
  /\ docker' = Exited(s)
  /\ UNCHANGED <<sandboxes, state, idle, owner, idOf, mu, pc, frame, past>>

\* The next `openkiro sandbox` command is a new process with a new Manager.
NewProcess ==
  /\ \A p \in Processes : pc[p] = "idle"
  /\ Tracked # {}
  /\ sandboxes' = [i \in Ids |-> None]
  /\ forgotten' = {s \in Sandboxes : Live(s)}
  /\ UNCHANGED <<boxes, mu, pc, frame, raced, unreported>>

-----------------------------------------------------------------------------

Init ==
  /\ sandboxes = [i \in Ids |-> None]
  /\ state = [s \in Sandboxes |-> "creating"]
  /\ idle = [s \in Sandboxes |-> FALSE]
  /\ owner = [s \in Sandboxes |-> Nobody]
  /\ docker = [s \in Sandboxes |-> "none"]
  /\ idOf = [s \in Sandboxes |-> AnyId]
  /\ reading = {} /\ waiting = {}
  /\ pc = [p \in Processes |-> "idle"]
  /\ op = [p \in Processes |-> "none"]
  /\ id = [p \in Processes |-> AnyId]
  /\ sb = [p \in Processes |-> None]
  /\ seen = [p \in Processes |-> {}]
  /\ raced = FALSE /\ forgotten = {} /\ unreported = {}

\* What a process does inside a method.
Step(p) ==
  \/ Get(p) \/ WaitToWrite(p)
  \/ DockerCreate(p) \/ CreateFails(p) \/ Insert(p)
  \/ LockStart(p) \/ DockerStart(p) \/ StartFails(p)
  \/ LockStop(p) \/ DockerStop(p)
  \/ LockDestroy(p) \/ StopForDestroy(p) \/ DockerRemove(p) \/ RemoveFails(p) \/ Delete(p)
  \/ ListRead(p) \/ ListEnd(p)

Next ==
  \/ \E p \in Processes : Call(p) \/ Step(p) \/ ListStart(p)
  \/ \E i \in Ids : Heal(i)
  \/ \E s \in Sandboxes : Touch(s) \/ IdleTimeout(s) \/ ContainerExits(s)
  \/ NewProcess

Spec == Init /\ [][Next]_vars

\* docker commands end, and Go's locks starve nobody.
FairSpec == Spec /\ \A p \in Processes : SF_vars(Step(p))

-----------------------------------------------------------------------------

\* The types, and who holds a sandbox's lock: the process inside docker start or stop.
TypeOK ==
  /\ sandboxes \in [Ids -> Sandboxes \cup {None}]
  /\ state \in [Sandboxes -> {"creating", "running", "stopped", "destroyed", "failed"}]
  /\ idle \in [Sandboxes -> BOOLEAN]
  /\ owner \in [Sandboxes -> Processes \cup {Nobody}]
  /\ docker \in [Sandboxes -> {"none", "created", "running", "exited", "removed"}]
  /\ idOf \in [Sandboxes -> Ids]
  /\ reading \subseteq Callers /\ waiting \subseteq Processes
  /\ pc \in [Processes -> {"idle", "get", "create", "insert", "lock", "start", "stop",
                           "remove", "delete", "list"}]
  /\ op \in [Processes -> {"none", "Create", "Start", "Stop", "Destroy", "List"}]
  /\ id \in [Processes -> Ids]
  /\ sb \in [Processes -> Sandboxes \cup {None}]
  /\ seen \in [Processes -> SUBSET Sandboxes]
  /\ raced \in BOOLEAN /\ forgotten \subseteq Sandboxes /\ unreported \subseteq Sandboxes
  /\ \A p \in Processes : pc[p] \in {"start", "stop"} => owner[sb[p]] = p

\* A sandbox that was destroyed is never brought back, neither by a Start that was
\* waiting for its lock nor by the auto-heal loop acting on what it read before.
DestroyedForGood ==
  [][\A s \in Sandboxes : state[s] = "destroyed" => state'[s] = "destroyed"]_state

\* A sandbox that is not destroyed has its container, so docker start and docker stop
\* are never run on a container that docker rm, outside the lock, has removed.
ContainerExists ==
  /\ \A s \in Sandboxes : docker[s] = "removed" => state[s] = "destroyed"
  /\ \A p \in Processes : pc[p] \in {"start", "stop"} => Live(sb[p])

\* Unless two Creates or two Destroys of one sandbox overlap, every container that docker
\* create has reported is in the map, where Destroy and the auto-heal loop find it, or about
\* to be, whatever failed half-way.  One whose docker create failed after it was made is
\* in no map, and its name stays taken (sandbox.go:203-206).
NoLeak ==
  raced \/ \A s \in Sandboxes \ (forgotten \cup unreported) :
             Live(s) => \/ sandboxes[idOf[s]] = s
                        \/ \E p \in Processes : pc[p] = "insert" /\ sb[p] = s

\* Every call returns: nobody waits forever for a sandbox that docker works on, for
\* List or for a writer of the map.
CallsReturn == \A p \in Processes : pc[p] # "idle" ~> pc[p] = "idle"
=============================================================================
