--------------------------- MODULE GatewayProofs ----------------------------
(***************************************************************************)
(* The gateway's registry, for any containers, labels, ports and numbers   *)
(* of requests that run Discover.                                          *)
(*                                                                         *)
(* The argument: while a discovery is under way, a server that is up all   *)
(* the while has been found or its container is still to be inspected, and *)
(* what has been found was up at some time of it.  So what is stored may   *)
(* be registered by the abstract Registry, and it holds every server that  *)
(* was registered before the discovery began and is still up.              *)
(***************************************************************************)
EXTENDS Gateway, TLAPS

Window == [open : BOOLEAN, throughout : SUBSET Server, sometime : SUBSET Server]

\* A discovery is under way while its window is open.
Looking ==
  /\ window \in [Discoverers -> Window]
  /\ \A d \in Discoverers :
       /\ pc[d] = "idle" => window[d] = R!Closed /\ todo[d] = {} /\ found[d] = {}
       /\ pc[d] # "idle" => window[d].open /\ Up \subseteq window[d].sometime
       /\ pc[d] = "store" => todo[d] = {}

\* What a discovery has found so far.
Finding ==
  \A d \in Discoverers :
    /\ found[d] \subseteq window[d].sometime
    /\ \A s \in window[d].throughout : s \in found[d] \/ s.id \in todo[d]

\* A discovery that nothing was stored beside sees what was found before.
Ahead ==
  \A d \in Discoverers :
    window[d].open /\ d \notin passed => promised \subseteq window[d].throughout

GatewayInv == TypeOK /\ Looking /\ Finding /\ Ahead /\ FoundStays

-----------------------------------------------------------------------------
(* Containers.                                                             *)

\* The servers that are up, spelled out.
LEMMA UpIs ==
  ASSUME NEW s
  PROVE  s \in Up <=> \E c \in Enabled : status[c] = "running" /\ s = ServerOf(c)
BY DEF Up, Running

\* What is up are servers.
LEMMA UpType ==
  ASSUME TypeOK
  PROVE  Up \subseteq Server
BY UpIs DEF Server, ServerOf, Enabled, TypeOK

\* What is up when only container c has changed.
LEMMA OneChanges ==
  ASSUME TypeOK, NEW c \in Containers,
         \A b \in Containers \ {c} : status'[b] = status[b] /\ address'[b] = address[b],
         NEW a, a = [id |-> c, address |-> address'[c]]
  PROVE  /\ \A s : s.id # c => (s \in Up' <=> s \in Up)
         /\ \A s \in Up' : s.id = c => s = a
         /\ a \in Up' <=> c \in Enabled /\ status'[c] = "running"
         /\ \A s \in Up : s.id = c => s = ServerOf(c) /\ status[c] = "running"
<1>. USE DEF Enabled, ServerOf
<1>1. \A s : s \in Up' <=> \E b \in Enabled : status'[b] = "running" /\ s = ServerOf(b)'
  BY DEF Up, Running
<1>2. \A b \in Containers \ {c} : ServerOf(b)' = ServerOf(b)
  OBVIOUS
<1>. QED  BY <1>1, <1>2, UpIs

\* A container that changes closes no window and opens none.
LEMMA ObservedInv ==
  ASSUME GatewayInv, NEW c \in Containers, Observed(c),
         \A b \in Containers \ {c} : status'[b] = status[b] /\ address'[b] = address[b],
         status' \in [Containers -> {"none", "running", "stopped", "removed"}],
         address' \in [Containers -> Addresses]
  PROVE  GatewayInv'
<1>. DEFINE a == [id |-> c, address |-> address'[c]]
<1>1. /\ \A s : s.id # c => (s \in Up' <=> s \in Up)
      /\ \A s \in Up' : s.id = c => s = a
      /\ a \in Up' <=> c \in Enabled /\ status'[c] = "running"
      /\ \A s \in Up : s.id = c => s = ServerOf(c) /\ status[c] = "running"
  BY OneChanges DEF GatewayInv
<1>2. Up' \subseteq Server
  <2>1. a \in Server
    BY DEF Server
  <2>2. Up \subseteq Server
    BY UpType DEF GatewayInv
  <2>. QED  BY <1>1, <2>1, <2>2
<1>. HIDE DEF a
<1>3. /\ window' = [d \in Discoverers |-> R!Seen(window[d], Up')]
      /\ promised' = {s \in promised : s.id # c}
      /\ UNCHANGED <<servers, pc, todo, found, serving, quiet, passed, overtaken>>
  BY DEF Observed, calls
<1>4. \A d \in Discoverers :
        /\ window'[d] \in Window
        /\ window'[d].open = window[d].open
        /\ ~window[d].open => window'[d] = window[d]
        /\ window[d].open => /\ window'[d].throughout = window[d].throughout \cap Up'
                             /\ window'[d].sometime = window[d].sometime \cup Up'
  BY <1>2, <1>3 DEF GatewayInv, Looking, Window, R!Seen
<1>. USE <1>3, <1>4 DEF GatewayInv, TypeOK
<1>5. promised' \subseteq Up'
  BY <1>1
<1>6. TypeOK'
  <2>1. ASSUME NEW d \in Discoverers PROVE window'[d].throughout \subseteq Up'
    BY DEF Looking, R!Closed
  <2>. QED  BY <2>1, <1>5 DEF Window
<1>7. Looking'
  <2>1. window' \in [Discoverers -> Window]
    BY <1>3
  <2>2. \A d \in Discoverers : window[d] = R!Closed => window'[d] = window[d]
    BY DEF R!Closed
  <2>. QED  BY <2>1, <2>2 DEF Looking
<1>8. Finding'
  BY DEF Finding
<1>9. Ahead'
  BY <1>5 DEF Ahead
<1>10. FoundStays'
  BY DEF FoundStays
<1>. QED  BY <1>6, <1>7, <1>8, <1>9, <1>10

\* A container starts.
LEMMA StartInv ==
  ASSUME GatewayInv, NEW c \in Containers, StartContainer(c)
  PROVE  GatewayInv'
<1>1. PICK a \in Mapping[c] : address' = [address EXCEPT ![c] = a]
  BY DEF StartContainer
<1>2. a \in Addresses /\ status' = [status EXCEPT ![c] = "running"] /\ Observed(c)
  BY GatewayAssumption DEF StartContainer
<1>. QED  BY <1>1, <1>2, ObservedInv DEF GatewayInv, TypeOK

\* A container stops, or is removed.
LEMMA StopInv ==
  ASSUME GatewayInv, NEW c \in Containers, StopContainer(c) \/ RemoveContainer(c)
  PROVE  GatewayInv'
<1>1. /\ status' = [status EXCEPT ![c] = "stopped"] \/ status' = [status EXCEPT ![c] = "removed"]
      /\ address' = [address EXCEPT ![c] = Unmapped] /\ Observed(c)
  BY DEF StopContainer, RemoveContainer
<1>. QED  BY <1>1, ObservedInv DEF GatewayInv, TypeOK, Addresses

\* The world comes to rest.
LEMMA RestInv ==
  ASSUME GatewayInv, Rest
  PROVE  GatewayInv'
BY DEF Rest, calls, history, GatewayInv, TypeOK, Looking, Finding, Ahead, FoundStays, Up, Running, ServerOf

-----------------------------------------------------------------------------
(* Discoveries.                                                            *)

\* What does not concern the containers leaves alone what is up.
LEMMA SameUp ==
  ASSUME UNCHANGED world
  PROVE  Up' = Up /\ \A c : ServerOf(c)' = ServerOf(c)
BY DEF world, Up, Running, ServerOf

\* docker ps: the discovery begins with all that is up still to be inspected.
LEMMA ListInv ==
  ASSUME GatewayInv, NEW d \in Discoverers, ListContainers(d)
  PROVE  GatewayInv'
<1>. USE SameUp DEF GatewayInv, TypeOK
<1>1. /\ pc[d] = "idle"
      /\ window' = [window EXCEPT ![d] = R!Opened(Up)]
      /\ todo' = [todo EXCEPT ![d] = Running]
      /\ pc' = [pc EXCEPT ![d] = IF Running = {} THEN "store" ELSE "inspect"]
      /\ UNCHANGED <<status, address, quiet, servers, found, serving, promised, passed, overtaken>>
      /\ Up' = Up
  BY DEF ListContainers, MayDiscover, Inspecting, world
<1>2. R!Opened(Up) \in Window /\ R!Opened(Up).open
      /\ R!Opened(Up).throughout = Up /\ R!Opened(Up).sometime = Up
  BY UpType DEF Window, R!Opened
<1>3. Running \subseteq Enabled /\ \A s \in Up : s.id \in Running
  BY DEF Running, Up, ServerOf
<1>. USE <1>1, <1>2
<1>4. TypeOK'
  BY <1>3 DEF Window
<1>5. Looking'
  BY DEF Looking
<1>6. Finding'
  BY <1>3 DEF Finding, Looking
<1>7. Ahead' /\ FoundStays'
  BY DEF Ahead, FoundStays
<1>. QED  BY <1>4, <1>5, <1>6, <1>7

\* docker inspect: a container is running and found, or its server is not up.
LEMMA InspectContainerInv ==
  ASSUME GatewayInv, NEW d \in Discoverers, InspectContainer(d)
  PROVE  GatewayInv'
<1>. USE SameUp DEF GatewayInv, TypeOK
<1>1. PICK c \in todo[d] :
        /\ found' = [found EXCEPT ![d] = @ \cup FoundRunning(c)]
        /\ todo' = [todo EXCEPT ![d] = todo[d] \ {c}]
        /\ pc' = [pc EXCEPT ![d] = IF todo[d] \ {c} = {} THEN "store" ELSE "inspect"]
  BY DEF InspectContainer, Inspecting
<1>2. /\ pc[d] = "inspect" /\ UNCHANGED <<status, address, quiet, servers, serving>>
      /\ UNCHANGED <<window, promised, passed, overtaken>> /\ Up' = Up
  BY DEF InspectContainer, world, history
<1>3. c \in Enabled /\ c \in Containers
  BY <1>1 DEF Enabled
<1>4. FoundRunning(c) \subseteq Up
  BY <1>3, UpIs DEF FoundRunning
<1>5. \A s \in Up : s.id = c => s \in FoundRunning(c)
  BY UpIs DEF FoundRunning, ServerOf
<1>. USE <1>1, <1>2
<1>6. TypeOK'
  BY <1>4, UpType
<1>7. Looking'
  BY DEF Looking
<1>8. Finding'
  BY <1>4, <1>5 DEF Finding, Looking
<1>9. Ahead' /\ FoundStays'
  BY DEF Ahead, FoundStays
<1>. QED  BY <1>6, <1>7, <1>8, <1>9

\* A discovery that fails gives up its window and nothing else.
LEMMA FailedInv ==
  ASSUME GatewayInv, NEW d \in Discoverers, Failed(d)
  PROVE  GatewayInv'
<1>. USE SameUp DEF GatewayInv, TypeOK
<1>1. /\ pc' = [pc EXCEPT ![d] = "idle"]
      /\ todo' = [todo EXCEPT ![d] = {}] /\ found' = [found EXCEPT ![d] = {}]
      /\ window' = [window EXCEPT ![d] = R!Closed] /\ serving' = TRUE
      /\ passed' = passed \ {d}
      /\ UNCHANGED <<status, address, quiet, servers, promised, overtaken>> /\ Up' = Up
  BY DEF Failed, Returned, world
<1>2. R!Closed \in Window /\ ~R!Closed.open /\ R!Closed.throughout = {}
      /\ R!Closed.sometime = {}
  BY DEF Window, R!Closed
<1>. USE <1>1, <1>2
<1>3. TypeOK'
  BY DEF Window
<1>4. Looking'
  BY DEF Looking
<1>5. Finding'
  BY DEF Finding, Looking
<1>6. Ahead' /\ FoundStays'
  BY DEF Ahead, FoundStays, Looking
<1>. QED  BY <1>3, <1>4, <1>5, <1>6

\* A discovery stores what it has found, which nothing is left to be added to.
LEMMA StoreInv ==
  ASSUME GatewayInv, NEW d \in Discoverers, Store(d)
  PROVE  GatewayInv'
<1>. USE SameUp DEF GatewayInv, TypeOK
<1>1. /\ pc[d] = "store" /\ servers' = found[d]
      /\ pc' = [pc EXCEPT ![d] = "idle"]
      /\ todo' = [todo EXCEPT ![d] = {}] /\ found' = [found EXCEPT ![d] = {}]
      /\ window' = [window EXCEPT ![d] = R!Closed] /\ serving' = TRUE
      /\ promised' = (promised \cup found[d]) \cap Up
      /\ passed' = {e \in Discoverers \ {d} : window[e].open}
      /\ overtaken' = (d \in passed)
      /\ UNCHANGED <<status, address, quiet>> /\ Up' = Up
  BY DEF Store, Stored, Returned, world
<1>2. R!Closed \in Window /\ ~R!Closed.open /\ R!Closed.throughout = {}
      /\ R!Closed.sometime = {}
  BY DEF Window, R!Closed
<1>3. window[d].open /\ \A s \in window[d].throughout : s \in found[d]
  BY <1>1 DEF Looking, Finding
<1>. USE <1>1, <1>2
<1>4. TypeOK'
  BY DEF Window
<1>5. Looking'
  BY DEF Looking
<1>6. Finding'
  BY DEF Finding, Looking
<1>7. Ahead'
  BY DEF Ahead, Looking
<1>8. FoundStays'
  BY <1>3 DEF Ahead, FoundStays
<1>. QED  BY <1>4, <1>5, <1>6, <1>7, <1>8

-----------------------------------------------------------------------------
(* The theorems.                                                           *)

\* No container runs and nobody looks.
LEMMA InitInv == Init => GatewayInv
<1>. SUFFICES ASSUME Init PROVE GatewayInv
  OBVIOUS
<1>1. Up = {}
  BY UpIs DEF Init, Enabled
<1>2. R!Closed \in Window /\ ~R!Closed.open /\ R!Closed.throughout = {}
      /\ R!Closed.sometime = {}
  BY DEF Window, R!Closed
<1>3. TypeOK
  BY <1>2 DEF Init, TypeOK, Addresses, Window
<1>4. Looking /\ Finding
  BY <1>2 DEF Init, Looking, Finding
<1>. QED  BY <1>2, <1>3, <1>4 DEF Init, GatewayInv, Ahead, FoundStays

\* Every step of the containers and of a discovery.
LEMMA NextInv == GatewayInv /\ [Next]_vars => GatewayInv'
<1>. SUFFICES ASSUME GatewayInv, [Next]_vars PROVE GatewayInv'
  OBVIOUS
<1>1. ASSUME NEW c \in Containers, StartContainer(c) \/ StopContainer(c) \/ RemoveContainer(c)
      PROVE  GatewayInv'
  BY <1>1, StartInv, StopInv
<1>2. CASE Rest
  BY <1>2, RestInv
<1>3. ASSUME NEW d \in Discoverers, Discover(d) PROVE GatewayInv'
  BY <1>3, ListInv, InspectContainerInv, FailedInv, StoreInv
     DEF Discover, Inspect, InspectMissing, DockerFails
<1>4. CASE UNCHANGED vars
  BY <1>4 DEF vars, world, calls, history, GatewayInv, TypeOK, Looking, Finding, Ahead,
              FoundStays, Up, Running, ServerOf
<1>. QED  BY <1>1, <1>2, <1>3, <1>4 DEF Next

\* The inductive invariant holds in every reachable state of the discoveries.
THEOREM Inductive == Spec => []GatewayInv
<1>. QED  BY InitInv, NextInv, PTL DEF Spec

\* The types of the containers, the registry and the runs of Discover.
THEOREM TypeCorrect == Spec => []TypeOK
<1>1. GatewayInv => TypeOK
  BY DEF GatewayInv
<1>. QED  BY <1>1, Inductive, PTL

\* Discover forgets no server that was found and is still up, whatever fails, unless
\* another run of it stored while it looked.
THEOREM FoundStaysAlways == Spec => []FoundStays
<1>1. GatewayInv => FoundStays
  BY DEF GatewayInv
<1>. QED  BY <1>1, Inductive, PTL

-----------------------------------------------------------------------------
(* The gateway implements the abstract registry.                           *)

\* A container that changes is a server that comes up or goes down.
LEMMA ObservedChanges ==
  ASSUME GatewayInv, NEW c \in Containers, Observed(c),
         \A b \in Containers \ {c} : status'[b] = status[b] /\ address'[b] = address[b],
         address' \in [Containers -> Addresses],
         status[c] = "running" => status'[c] # "running"
  PROVE  R!Change
<1>. DEFINE a == [id |-> c, address |-> address'[c]]
<1>1. /\ \A s : s.id # c => (s \in Up' <=> s \in Up)
      /\ \A s \in Up' : s.id = c => s = a
      /\ a \in Up' <=> c \in Enabled /\ status'[c] = "running"
      /\ \A s \in Up : s.id = c => s = ServerOf(c) /\ status[c] = "running"
  BY OneChanges DEF GatewayInv
<1>2. ServerOf(c) \in Server /\ a \in Server /\ ServerOf(c).id = c /\ a.id = c
  BY DEF ServerOf, Server, GatewayInv, TypeOK
<1>. HIDE DEF a
<1>3. \E s \in Server : Up' = Up \cup {s} \/ Up' = Up \ {s}
  <2>1. CASE status[c] = "running"
    <3>1. Up' = Up \ {ServerOf(c)}
      BY <1>1, <1>2, <2>1
    <3>. QED  BY <3>1, <1>2
  <2>2. CASE status[c] # "running"
    <3>1. Up' = Up \cup {a} \/ Up' = Up \ {a}
      BY <1>1, <1>2, <2>2
    <3>. QED  BY <3>1, <1>2
  <2>. QED  BY <2>1, <2>2
<1>4. /\ window' = [d \in Discoverers |-> R!Seen(window[d], Up')]
      /\ servers' = servers
  BY DEF Observed
<1>. QED  BY <1>3, <1>4 DEF R!Change

\* What happens to a container is a change of the abstract registry, or invisible.
LEMMA ContainerRefines ==
  ASSUME GatewayInv, NEW c \in Containers,
         StartContainer(c) \/ StopContainer(c) \/ RemoveContainer(c)
  PROVE  R!Change
<1>1. CASE StartContainer(c)
  <2>1. PICK a \in Mapping[c] : address' = [address EXCEPT ![c] = a]
    BY <1>1 DEF StartContainer
  <2>2. a \in Addresses /\ status[c] # "running"
        /\ status' = [status EXCEPT ![c] = "running"] /\ Observed(c)
    BY <1>1, GatewayAssumption DEF StartContainer
  <2>. QED  BY <2>1, <2>2, ObservedChanges DEF GatewayInv, TypeOK
<1>2. CASE StopContainer(c) \/ RemoveContainer(c)
  <2>1. /\ \/ status' = [status EXCEPT ![c] = "stopped"]
           \/ status' = [status EXCEPT ![c] = "removed"]
        /\ address' = [address EXCEPT ![c] = Unmapped] /\ Observed(c)
    BY <1>2 DEF StopContainer, RemoveContainer
  <2>. QED  BY <2>1, ObservedChanges DEF GatewayInv, TypeOK, Addresses
<1>. QED  BY <1>1, <1>2

\* A step of Discover is a look, a storing or a giving up, or invisible.
LEMMA DiscoverRefines ==
  ASSUME GatewayInv, NEW d \in Discoverers, Discover(d)
  PROVE  R!RegistryNext \/ UNCHANGED <<Up, window, servers>>
<1>. USE SameUp DEF GatewayInv
<1>1. CASE ListContainers(d)
  <2>1. /\ pc[d] = "idle" /\ window' = [window EXCEPT ![d] = R!Opened(Up)]
        /\ UNCHANGED <<Up, servers>>
    BY <1>1 DEF ListContainers, MayDiscover
  <2>2. ~window[d].open
    BY <2>1 DEF Looking, R!Closed
  <2>. QED  BY <2>1, <2>2 DEF R!Look, R!RegistryNext
<1>2. CASE InspectContainer(d)
  BY <1>2 DEF InspectContainer, history
<1>3. CASE Failed(d)
  <2>1. window' = [window EXCEPT ![d] = R!Closed] /\ UNCHANGED <<Up, servers>>
    BY <1>3 DEF Failed, Returned
  <2>2. CASE window[d].open
    BY <2>1, <2>2 DEF R!GiveUp, R!RegistryNext
  <2>3. CASE ~window[d].open
    <3>1. window[d] = R!Closed
      BY <2>3 DEF Looking, TypeOK
    <3>. QED  BY <2>1, <3>1 DEF Looking
  <2>. QED  BY <2>2, <2>3
<1>4. CASE Store(d)
  <2>1. /\ window' = [window EXCEPT ![d] = R!Closed] /\ Up' = Up
        /\ servers' = found[d] /\ pc[d] = "store"
    BY <1>4 DEF Store, Stored, Returned
  <2>2. /\ window[d].open /\ found[d] \subseteq window[d].sometime
        /\ window[d].throughout \subseteq found[d]
    BY <2>1 DEF Looking, Finding
  <2>. QED  BY <2>1, <2>2 DEF R!Register, R!RegistryNext
<1>. QED  BY <1>1, <1>2, <1>3, <1>4 DEF Discover, Inspect, InspectMissing, DockerFails

\* Every step of Discover and of the containers is one of the abstract registry: what is
\* stored misses no server that was up from docker ps to the storing, and holds none that
\* was not up in between.
THEOREM Refinement == Spec => Regular
<1>1. Init => R!RegistryInit
  BY UpIs DEF Init, Enabled, R!RegistryInit
<1>2. GatewayInv /\ [Next]_vars => [R!RegistryNext]_R!registryVars
  <2>. SUFFICES ASSUME GatewayInv, [Next]_vars
                PROVE  R!RegistryNext \/ UNCHANGED <<Up, window, servers>>
    BY DEF R!registryVars
  <2>1. ASSUME NEW c \in Containers,
               StartContainer(c) \/ StopContainer(c) \/ RemoveContainer(c)
        PROVE  R!RegistryNext \/ UNCHANGED <<Up, window, servers>>
    BY <2>1, ContainerRefines DEF R!RegistryNext
  <2>2. CASE Rest
    BY <2>2 DEF Rest, history, Up, Running, ServerOf
  <2>3. ASSUME NEW d \in Discoverers, Discover(d)
        PROVE  R!RegistryNext \/ UNCHANGED <<Up, window, servers>>
    BY <2>3, DiscoverRefines
  <2>4. CASE UNCHANGED vars
    BY <2>4 DEF vars, world, history, Up, Running, ServerOf
  <2>. QED  BY <2>1, <2>2, <2>3, <2>4 DEF Next
<1>. QED  BY <1>1, <1>2, Inductive, PTL DEF Spec, Regular, R!RegistrySpec
=============================================================================
