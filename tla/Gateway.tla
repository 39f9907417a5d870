------------------------------ MODULE Gateway ------------------------------
(***************************************************************************)
(* internal/gateway/gateway.go and runServer of cmd/mcp-gateway: the       *)
(* registry of tool servers that run in docker containers.  Discover lists *)
(* the containers with `docker ps`, inspects them with `docker inspect`,   *)
(* and then replaces the registry; only the replacing is done under the    *)
(* lock.  The background loop and any number of POST /discover requests    *)
(* run it at the same time, while containers start, stop and are removed.  *)
(*                                                                         *)
(* Docker is external.  An address is a host port, or Unmapped when the    *)
(* container's own port stands for it; docker gives a port to one          *)
(* container at a time, and a new one at every start.                      *)
(***************************************************************************)
CONSTANTS Containers,  \* identifiers of containers, never used twice
          Labels,      \* the labels a container was created with
          Ports,       \* host ports
          Unmapped,    \* in place of a port, when none is mapped
          Mapping,     \* the addresses a container may get when it starts
          Posts,       \* handlers of POST /discover
          Loop         \* main's first Discover, then the goroutine of StartDiscovery

NoName == ""

Addresses == Ports \cup {Unmapped}

ASSUME GatewayAssumption ==
  /\ Unmapped \notin Ports /\ Loop \notin Posts
  /\ Mapping \in [Containers -> SUBSET Addresses]
  /\ Labels \in [Containers ->
                   [enable : BOOLEAN, name : STRING, transport : {"", "http", "stdio"}]]

VARIABLES status,    \* "none", "running", "stopped" or "removed"
          address,   \* where a container is reached while it runs
          servers,   \* g.servers
          pc,        \* where each run of Discover is
          todo,      \* the listed containers not inspected yet
          found,     \* the servers of the containers inspected so far
          serving,   \* runServer has come to ListenAndServe
          quiet,     \* the world has come to rest: containers and docker itself
          window,    \* history: what was up during each run of Discover
          promised,  \* history: registered servers that are up since
          passed,    \* history: the runs of Discover during which another one stored
          overtaken  \* history: the run that stored last is one of them

world == <<status, address, quiet>>
calls == <<pc, todo, found>>
history == <<window, promised, passed, overtaken>>
vars  == <<world, servers, calls, serving, history>>

Discoverers == {Loop} \cup Posts

-----------------------------------------------------------------------------
(* Servers.                                                                *)

Server == [id : Containers, address : Addresses]

Enabled == {c \in Containers : Labels[c].enable}

\* What serverFromInspect takes from the labels: the name, with the container's
\* identifier as default, and the transport, http by default.
NameOf(c) == IF Labels[c].name = NoName THEN c ELSE Labels[c].name

TransportOf(c) == IF Labels[c].transport = "" THEN "http" ELSE Labels[c].transport

ServerOf(c) == [id |-> c, address |-> address[c]]

Running == {c \in Enabled : status[c] = "running"}

Up == {ServerOf(c) : c \in Running}

R == INSTANCE Registry WITH Servers <- Server, Lookers <- Discoverers, up <- Up

\* What GET /tools may answer: of several servers of one name the map's order picks
\* one, and a name of nobody or of a stdio server gets an error.
ToolEndpoint(name) ==
  LET named == {s \in servers : NameOf(s.id) = name}
  IN  IF named = {} THEN {"not found"}
      ELSE {IF TransportOf(s.id) = "http" THEN s.address ELSE "not http" : s \in named}

-----------------------------------------------------------------------------
(* Containers.                                                             *)

\* After a step of the world, in which only c has changed.
Observed(c) ==
  /\ window' = [d \in Discoverers |-> R!Seen(window[d], Up')]
  /\ promised' = {s \in promised : s.id # c}
  /\ UNCHANGED <<servers, calls, serving, quiet, passed, overtaken>>

StartContainer(c) ==
  /\ ~quiet /\ status[c] \in {"none", "stopped"}
  /\ \E a \in Mapping[c] :
       /\ a \in Ports => \A b \in Containers : address[b] # a
       /\ address' = [address EXCEPT ![c] = a]
  /\ status' = [status EXCEPT ![c] = "running"]
  /\ Observed(c)

StopContainer(c) ==
  /\ ~quiet /\ status[c] = "running"
  /\ status' = [status EXCEPT ![c] = "stopped"]
  /\ address' = [address EXCEPT ![c] = Unmapped]
  /\ Observed(c)

\* docker rm, or the end of a container run with --rm.
RemoveContainer(c) ==
  /\ ~quiet /\ status[c] \in {"running", "stopped"}
  /\ status' = [status EXCEPT ![c] = "removed"]
  /\ address' = [address EXCEPT ![c] = Unmapped]
  /\ Observed(c)

\* From here on no container changes and no docker command fails.
Rest ==
  /\ ~quiet
  /\ quiet' = TRUE
  /\ UNCHANGED <<status, address, servers, calls, serving, history>>

-----------------------------------------------------------------------------
(* Discover.                                                               *)

MayDiscover(d) == pc[d] = "idle" /\ (d \in Posts => serving)

\* After listing or inspecting: the containers still to be inspected.
Inspecting(d, ids) ==
  /\ todo' = [todo EXCEPT ![d] = ids]
  /\ pc' = [pc EXCEPT ![d] = IF ids = {} THEN "store" ELSE "inspect"]

\* docker ps lists what runs and has the label.
ListContainers(d) ==
  /\ MayDiscover(d)
  /\ Inspecting(d, Running)
  /\ window' = [window EXCEPT ![d] = R!Opened(Up)]
  /\ UNCHANGED <<world, servers, found, serving, promised, passed, overtaken>>

\* mutant: State.Running is not looked at.
FoundAtAll(c) == {ServerOf(c)}

FoundRunning(c) == IF status[c] = "running" THEN {ServerOf(c)} ELSE {}

\* docker inspect comes to a container that exists.
InspectContainer(d) ==
  /\ pc[d] = "inspect"
  /\ \E c \in todo[d] :
       /\ status[c] # "removed"
       /\ found' = [found EXCEPT ![d] = @ \cup FoundRunning(c)]
       /\ Inspecting(d, todo[d] \ {c})
  /\ UNCHANGED <<world, servers, serving, history>>

\* Discover returns; runServer goes on to listen after the first run.
Returned(d) ==
  /\ pc' = [pc EXCEPT ![d] = "idle"]
  /\ todo' = [todo EXCEPT ![d] = {}]
  /\ found' = [found EXCEPT ![d] = {}]
  /\ window' = [window EXCEPT ![d] = R!Closed]
  /\ serving' = TRUE

\* mutant: the registry is emptied when a discovery fails.
FailedForgets(d) ==
  /\ Returned(d)
  /\ passed' = passed \ {d}
  /\ servers' = {}
  /\ UNCHANGED <<world, promised, overtaken>>

\* An error is printed and no more.
Failed(d) ==
  /\ Returned(d)
  /\ passed' = passed \ {d}
  /\ UNCHANGED <<world, servers, promised, overtaken>>

\* A container that is gone makes docker inspect fail, whatever else it has found.
InspectMissing(d) ==
  /\ pc[d] = "inspect" /\ \E c \in todo[d] : status[c] = "removed"
  /\ Failed(d)

\* Docker is not reachable, or the context is done: the client of a POST has gone.
DockerFails(d) ==
  /\ ~quiet /\ (MayDiscover(d) \/ pc[d] = "inspect")
  /\ Failed(d)

\* mutant: what was found is added to what was known.
StoredToo(d) == servers \cup found[d]

Stored(d) == found[d]

\* g.mu.Lock(); g.servers = servers; g.mu.Unlock()
Store(d) ==
  /\ pc[d] = "store"
  /\ servers' = Stored(d)
  /\ Returned(d)
  /\ promised' = (promised \cup Stored(d)) \cap Up
  /\ passed' = {e \in Discoverers \ {d} : window[e].open}
  /\ overtaken' = (d \in passed)
  /\ UNCHANGED world

-----------------------------------------------------------------------------

Init ==
  /\ status = [c \in Containers |-> "none"]
  /\ address = [c \in Containers |-> Unmapped]
  /\ servers = {}
  /\ pc = [d \in Discoverers |-> "idle"]
  /\ todo = [d \in Discoverers |-> {}]
  /\ found = [d \in Discoverers |-> {}]
  /\ serving = FALSE /\ quiet = FALSE
  /\ window = [d \in Discoverers |-> R!Closed]
  /\ promised = {} /\ passed = {} /\ overtaken = FALSE

Inspect(d) == InspectContainer(d) \/ InspectMissing(d)

Discover(d) == ListContainers(d) \/ Inspect(d) \/ DockerFails(d) \/ Store(d)

Next ==
  \/ \E c \in Containers : StartContainer(c) \/ StopContainer(c) \/ RemoveContainer(c)
  \/ Rest
  \/ \E d \in Discoverers : Discover(d)

Spec == Init /\ [][Next]_vars

\* The ticker of StartDiscovery fires, goroutines are scheduled and a docker command
\* ends: the gateway sets no time limit on one.  POST requests need not come.
Fairness ==
  /\ WF_vars(ListContainers(Loop))
  /\ \A d \in Discoverers : WF_vars(Inspect(d)) /\ WF_vars(Store(d))

FairSpec == Spec /\ Fairness

-----------------------------------------------------------------------------

TypeOK ==
  /\ status \in [Containers -> {"none", "running", "stopped", "removed"}]
  /\ address \in [Containers -> Addresses]
  /\ servers \subseteq Server
  /\ pc \in [Discoverers -> {"idle", "inspect", "store"}]
  /\ todo \in [Discoverers -> SUBSET Enabled]
  /\ found \in [Discoverers -> SUBSET Server]
  /\ serving \in BOOLEAN /\ quiet \in BOOLEAN
  /\ \A d \in Discoverers :
       /\ window[d].throughout \subseteq Up
       /\ window[d].sometime \subseteq Server
  /\ promised \subseteq Up /\ passed \subseteq Discoverers /\ overtaken \in BOOLEAN

\* The registry is replaced by what one discovery found, which misses no server that
\* was up from its `docker ps` to its storing, and holds none that was not up in
\* between with that very address; a failing discovery leaves the registry alone.
Regular == R!RegistrySpec

\* A server that was found stays registered for as long as it stays up, whatever
\* fails; only a discovery that listed the containers before another one stored, and
\* stores after it, may forget the server, until the next discovery.
FoundStays == overtaken \/ promised \subseteq servers

\* Once containers and docker rest, the registry comes to hold the servers that are up,
\* and stays so: GET /servers lists them, and GET /tools sends a client to the server
\* of a name whenever one HTTP server has that name alone.
Reflects ==
  <>[](quiet =>
         /\ servers = Up
         /\ \A s \in Up :
              /\ TransportOf(s.id) = "http"
              /\ \A t \in Up : NameOf(t.id) = NameOf(s.id) => t = s
              => ToolEndpoint(NameOf(s.id)) = {s.address})
=============================================================================
