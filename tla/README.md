# A TLA+ model of openkiro

openkiro is a proxy on the user's machine: it takes requests in Anthropic's
format, sends them to CodeWhisperer with the token of the Kiro login, and turns
the binary event stream of the answer into Anthropic's events or into one
message.  Around the proxy the repository has managers for a compressing child
process (headroom) and for sandbox containers (docker), a small memory server
(icm), a gateway to tool servers (MCP), and the commands that start and stop all this.

This directory holds TLA+ modules that model the parts with state, the TLC
configurations that check them on small instances, and proofs for TLAPS.

## Inventory

| Component | State | Operations | Hard behaviour |
|---|---|---|---|
| SSE parser, `internal/protocol/sse_parser.go` | the open block, its number, tool and name; the next number; whether a `message_delta` was sent | read a frame, emit its batch, finalize | frames in any order; a response cut off; a failing emit |
| Response assembly, `internal/proxy/response.go` | blocks by index, stop reason | assemble a message from events, make events of a message | agreeing with what a streaming client sees |
| Proxy server, `internal/proxy/server.go` | one goroutine per request; the write deadline; the listener | `POST /v1/messages`, streaming or not; shutdown | concurrent requests, retries after 400 and 403, deadlines, exits |
| Token store, `internal/token` | the token file, Kiro's database | `GetToken`, `RefreshToken` | unlocked rewriting by several goroutines and processes |
| Payload, `internal/proxy/request.go` | the request that is being built and cut | `BuildCodeWhispererRequest`, `EnsurePayloadFits`, the cut after a 400 | what is paired, blank or last; limits and the order of cuts |
| Middleware chain, `internal/middleware` | none | `ProcessRequest` of the headroom middleware | headroom may answer any list in place of the messages, or fail |
| Profile cache, `internal/proxy/profile.go` | the profile ARN and its age | `ResolveProfileArn`, `FetchProfileArn`, `ApplyProfileModelFallback` | stale values, concurrent misses, reads without the lock |
| Sandbox manager, `internal/sandbox` | a map of sandboxes, each with a state and a lock | `Create`, `Start`, `Stop`, `Destroy`, `List`, `Touch`, auto-heal | two levels of locks, docker outside the locks, failing commands |
| Headroom manager, `internal/headroom/manager.go` | the child, `running`, the channel `done` | `Start`, `Stop`, a monitor per child | a lock released in the middle, crashes, cancellation |
| ICM, `cmd/icm/main.go` | a map and its file | `/remember`, `/forget`, `icm store`, load | saves outside the lock, crashes, two processes |
| MCP gateway, `internal/gateway`, `cmd/mcp-gateway` | a map of servers | `Discover` by a loop and by requests, lookups | overlapping discoveries, containers that change meanwhile |
| Daemon, `internal/daemon`, `cmd/openkiro` | the PID file | `start`, `stop`, `status` | check-then-act between processes, identifiers used again, crashes |
| `cmd/rtk`, `cmd/headroom`, Windows service, aliases, plists | none | filters and text | none |

Interactions: the proxy calls the parser with a callback that writes to the
client; it calls the payload builder before the first attempt and cuts again
between attempts; a request refreshes the token file that all requests and
`openkiro refresh` share.  The server's context ends the headroom child and
starts the shutdown.  Everything docker, the upstream service, Kiro's database
and the file system are external.

What makes each component correct: the parser and the assembly lose and
reorder nothing and speak a protocol a client can follow; the proxy answers
every request, with a stream or a message only of what the upstream gave, and never
sends half a token; the payload builder gives up as little as it can, oldest first, and parts no tool
result from its call without need; the managers lose no container and no child
and never block for good; the memory server finds after a restart what it had;
a profile that is known is neither lost nor mixed with another one; the gateway
comes to list what is up; a daemon can be found and stopped, and nobody else is.

## Modules

`SSEProtocol` is an abstract specification: a client receives events one at a
time, blocks are numbered from 0 without gaps and do not overlap, deltas belong
to the open block, and a message is complete only with no block open and, once
there was one, after a `message_delta`.

`EventStream` is `ParseEventStream`.  A frame is read and turned into a batch
(`AppendAssistantEvent` is the function of that name over the parser's state and
the events so far), then `EmitOne` delivers the batch event by event or
`EmitFails` drops the rest.  EOF, a truncated frame and a bad length leave the
loop in the same way (`EndOfStream`).  A frame keeps what the parser tells
apart: content or not, tool call, name, input, stop, context usage.  It
implements `SSEProtocol` through `SSE == INSTANCE SSEProtocol`, the client's
variables being shared and `status` being a function of `phase`.

`Response` extends it with the two callers of the parser.  For a non-streaming request
the events are collected (`Collect`) and `AssembleAnthropicResponse` puts them
together to a message; whether the raw input of a tool call is JSON is left open, but
a call that was cut off or given no input gets `{}`.  `parsable` and `lastReason`
remember, for the comparison with the stream, which input is JSON and which stop
reason was told last.  The loops over events (`BlockMap`, `Followed`) are recursive
functions, each value from the one before it: the proofs can follow these, while a
fold takes the step as an operator.

`Proxy` is one request per goroutine, from `GetToken` to the last byte, beside
runs of `openkiro refresh`.  `pc` follows the code's blocking points; the token
file is a pair of a token and a length, so that a truncated file and the tail of
a longer token are visible.  `conn` is the write deadline: `Late` is the moment
it passes, and the next write after it is lost.  The attempt counter is the
loop's.  Kiro's login (`Issue`, `LogOut`), the upstream's expiry (`Expire`) and
SIGTERM (`Signal`, `GraceEnds`, `Terminate`) are actions of the environment.
The upstream refuses exactly the tokens that have expired.  A handler may end in an
error before any answer, from `GetToken` to a panic that is recovered (`GiveUp`), and
the handler that does not stream never looks at the status, only at the body
(`SingleReplies`).

`Translation` holds the pure functions between an Anthropic request and the
upstream's: what of a block is text, a tool call or a result, which messages
are skipped as blank, and what the headroom middleware sends and takes back.
Blocks are reduced to kind, identifier and whether they say anything.  What headroom
answers is not checked by the code, so `Compressions` holds, beside the messages
shortened in place, every list of up to `MaxCompressed` of these messages and of some
that headroom wrote itself: reordered, repeated, with the last one missing or of an
unknown role.  `Chosen` (a
loop that keeps some elements) and `Total` are recursive functions, not folds over an
operator, so that proofs can follow them.  `Payload`
takes a request through the chain (`Compress`, `PassThrough`, with the panic
that a request without messages would be), through `EnsurePayloadFits`, a step
per marshalling, and through the retries of the streaming handler that cut
again.  Sizes are added up from the parts of the request.  What clients ask is
what the API allows (`Proper`, `Linked`): a tool result answers a call of the message
before it.  Of headroom's list that is not known; `linked` remembers whether it is so
of what is translated, and `newest` what the last message answers.

`Profile` is one request per handler from the token to the request sent, around
the profile cache.  A store is two steps (`Store`, `Stored`), since a Go string
is two words and the error paths of `FetchProfileArn` read it without the lock:
such a read gets the old value, the new one or `Torn`.  The upstream may name a
profile without an ARN, which is stored like any other.

`Registry` is an abstract specification of anything that keeps a list of servers
by looking for them: a look may find nothing that was not up while it lasted, and
may miss nothing that was up throughout.  `Gateway` is `Discover` as `docker
ps`, a `docker inspect` per container and the storing, run by the loop of
`StartDiscovery` and by any number of `POST /discover`, while containers start,
stop and are removed and docker fails.  It implements `Registry` through
`R == INSTANCE Registry WITH up <- Up, ...`; `window` is the history that
`Registry` speaks of.  `docker inspect` is one command in the code; its containers
are looked at one after the other, in any order, as docker does.

`Daemon` is the three commands around the PID file, each command a process with
the steps of its code (`CleanStalePID`, `ReadPID`, `IsRunning`, the spawn, the
truncation and writing of the file, the signal, the removal), any of which may
be the last (`Cut`).  Of two starts that both truncated the file the second writes
over what the first one wrote; `Over` is the number that remains when the shorter
one covers only the beginning of the longer one, and what is written to a file that
a stop has removed is gone.  Identifiers are given out again, to daemons and to another
program; a daemon that ended is a zombie while the `start` that spawned it lives;
`Reboot` leaves only the file.

`SandboxManager` is the Manager with its two locks.  Sections under `m.mu` that
only touch the map are single steps; `List` holds it over several, and a waiting
writer keeps new readers out, as `sync.RWMutex` does.  A docker command that
fails, or is killed through its context, may have taken effect: `RemoveFails` may
have removed the container and `CreateFails` may have made one, which then is in no
map (`unreported`).  `NewProcess` empties the map: every
`openkiro sandbox` command has a Manager of its own.

`HeadroomManager` is `Start`, `Stop` and `stopLocked`, split where `m.mu` is
released, a monitor per child, and the children, which may crash at any time
and need not heed an interrupt.  Closing a closed channel is an action of its
own, `MonitorPanics`; `ProgramExits` is every other end of the program.  After
either all goroutines are dead and the children live on.

`IcmStore` is the memory server and the `icm store` command over one file; a
save is a snapshot, an `Open` that truncates, and a `Write`, each of which may
be the last.

`MC*` modules give the constants their values.  `EventStreamProofs`,
`IcmStoreProofs`, `DaemonProofs`, `GatewayProofs`, `SandboxProofs`,
`HeadroomProofs` and `ProxyProofs` hold the theorems about the component each is
named after (`EventStreamProofs` also those about `Response`), `RequestProofs` those
about `Payload` and `Profile`.  Definitions marked `mutant` are variants of the
definition below them with a plausible mistake; with one of them in the place of
the original the property it is listed for in PROJECT.json is violated.

## Runs

| Run | Bounds | States | Shows |
|---|---|---|---|
| EventStream | 2 tool calls, every kind of frame, 4 frames | 1.0 M | `WellFormedStream` (refinement), `InOrder`, `BlocksNamed`, `ToolUseAfterTool`, `TypeOK`; `SameMessage`, `StreamedAgain` of the assembled reply |
| Proxy | 1 request, 2 `openkiro refresh`, 2 tokens of different lengths | 1.5 M | `HonestReply`, `WholeTokens`, `FreshAfterRefresh`, `FileReadable`, and `Answered` under fairness |
| ProxyShutdown | 2 requests | - | `ShutdownDrains` fails: main does not wait for `Shutdown` |
| Sandbox | 2 callers and the healer, 1 identifier, 2 containers | 265 k | `ContainerExists`, `NoLeak`, `DestroyedForGood`, `CallsReturn` |
| Headroom | 2 callers, 2 children | 14 k | `NoPanic`, `NoOrphan`, `ExitNoticed`, `StopStops`, `CallsReturn`, `ChildrenEnd` |
| Icm | 2 requests, 1 command, 2 keys, 2 values, 4 calls | 340 k | `RestartFindsAll`, `FileParses` |
| IcmPersisted | 2 requests, 3 calls | - | `Persisted` fails: the older snapshot is written last |
| Payload | 15,876 conversations: up to 5 messages and 2 tools, lists of up to 3 from headroom, limit 600 | 473 k | `CurrentIsNewest`, `NewestKept`, `Paired`, `FitsOrBare`, `NothingNeedless`, `RetryHasNoMore` |
| Gateway | 2 containers, the loop and 1 POST, ports 8080 and 8081 | 1.2 M | `Regular` (refinement), `FoundStays`, and `Reflects` under fairness |
| Daemon | 2 terminals, 3 identifiers, one of another program's, 1 port | 389 k | `Findable`, `SparesOthers`; `StopEnds` and `StartServes` under fairness |
| Profile | 3 requests, 2 profiles, 2 models | 1.1 M | `Whole`, `NeverForgets` |
| ProfileTTL | 2 requests, 2 profiles | - | `CachedForTTL` fails: the age of the cache is never looked at |

Why the bounds are enough.  The parser forgets all of a response but the open block
and two counters: four frames open, feed, switch and close a block with each kind of
frame before and after, and two tool calls are the least that can be mixed up.  In the
proxy another request matters to the first one in two ways: by rewriting the token
file, which a run of `openkiro refresh` does in the same steps, and by ending the
process; so one request beside two refreshes has all that can disturb it.  The second
token is the shorter one, so that a tail can remain, and all three attempts are in.
Two requests are in ProxyShutdown, and the theorems hold of any number.  Two
containers allow a second `Create` while the first container is being removed; two
children allow one to be launched while the one before is being stopped (three were
also checked).  Four calls to the memory server allow two overlapping saves, and a
third and fourth after them that repair the file; keys, values and requests are
symmetric in the properties checked there, all of which are invariants.  The
conversations of `MCPayload` have every cut in them: five messages are two calls with
their results and the history to be cut between and around them, one message asks for
two calls at once, and the sizes lie on both sides of the 80, 100 and `MaxToolDescLen`
bytes and of the limit; three messages of headroom's are a call, its result and a
current message, in any order and number.  In the gateway two containers are the least
of which one can be missing when the other one is inspected, one of them changes its
port with each start, and two runs of `Discover` are the least that can overtake each
other.  For the PID file two terminals are the least that can overlap, and two
identifiers let a second daemon, or a stranger, come while the first one still holds
the port; a third one belongs to another program, one identifier is shorter than the
second, and the third is what it leaves when written over the second.  Three requests
let one fail while another stores and a third one reads; requests and profiles are
symmetric there, and the properties invariants or about single steps.  `MaxFrames`,
`MaxSandboxes`, `MaxStarts` and `MaxCalls` are the only bounds in guards; the tokens
are bounded by the length of `TokenLen`, headroom's lists by `MaxCompressed`.

Deadlock is checked where a state without a step would mean a blocked program
(Sandbox, Icm, Gateway, Daemon, Profile); elsewhere a run may end: a response is
parsed, a request is answered, all children are spent, the program has ended.
In Sandbox and Headroom `CallsReturn` says more.

Several properties have a history variable in them that names the one
circumstance under which the code does not keep them.  The runs then show that
this is the only circumstance:

* Proxy: `clash`, two refreshes overlapped, or one died in the middle.
* Sandbox: `raced`, two `Create`s or two `Destroy`s of one identifier overlapped;
  `unreported`, containers made by a docker create that failed, and `forgotten`, those
  of an earlier process.
* Headroom: `overtaken`, a child was launched while the monitor or the stop of
  the one before was not through.
* Icm: `torn`, two saves overlapped or one was cut short; `settled`, the server has
  since restarted, or made a save that nothing overlapped.
* Payload: `linked`, whether each result follows its call in what is translated, which
  a list of headroom's may not keep.
* EventStream: `unnamed`, a fragment that opens a block does not name its tool.
* Gateway: `overtaken`, the run that stored last had listed the containers before
  another run stored (`passed`).
* Daemon: `overlapped`, commands that ran while another one did; `astray`, daemons
  whose start was one of those or was cut, identifiers whose daemon ended without an
  orderly stop, and numbers that one identifier written over another left.
* Profile: `raced`, requests whose own fetch failed while another one stored;
  `known`, requests that began with a profile cached, until an empty one is stored
  over it; `named` only remembers what there was.

## Fairness

`Proxy!FairSpec`: goroutines are scheduled and the upstream answers and ends its
response.  The streaming client has no timeout (token.go:289), so an upstream
that neither sends nor closes would hold a request forever.  Locks, signals,
lateness, logins and `openkiro refresh` get no fairness.
`SandboxManager!FairSpec`: strong fairness of every step inside a method, which
stands for docker commands that end (they run under a context) and for Go's
mutexes, which hand the lock to a waiter that has waited for a millisecond.
`HeadroomManager!FairSpec`: the same for the callers and monitors; timers fire,
`exec.CommandContext` kills, and a killed child dies.  A child that ignores an
interrupt, or never becomes healthy, need not end on its own.
`Gateway!FairSpec`: the ticker of the loop fires and a run of `Discover` goes on;
requests need not come.  Containers change and docker fails as often as they like
until `quiet`, from when on `Reflects` must hold in the end.
`Daemon!FairSpec`: a command runs on, a daemon comes to listen or to find its port
taken, and one that was signalled ends.  `StopEnds` and `StartServes` speak of
commands under way when the world has become `quiet`, that is without further
crashes, cuts and strangers; all that happened before stays as it is.

## Proofs

Every safety property the passing runs check is also proved, for all values of the
constants: any sets of tools, frames, keys (finite), values, requests, refreshes,
tokens, commands, profiles, models, terminals, process identifiers, ports,
containers, labels, callers and sandbox identifiers, conversations, tools and
limits, and bounds of any size.  The type invariants of `EventStream`, `IcmStore`,
`Profile`, `Payload`, `Daemon`, `Gateway`, `SandboxManager`, `HeadroomManager` and
`Proxy` are proved too, so only the run EventStream still checks one.

`EventStreamProofs`:

* `Inductive`: `Spec => []IInv`.  `WellFormedStream` is not inductive by itself:
  when a batch has been built the parser's state is already that after the whole
  batch, while the client has received none of it.  `IInv` therefore says, beside
  the types it needs, that while frames are read and while the parse is finished
  the pending events can be followed from the client's block (`LegalRun`: each is
  legal after the ones before) and lead to the block the parser holds to be open,
  with its next number (`Agrees`); that `hadMessageDelta` is never ahead of what
  the client received; that while the parse is finished no block is open in the
  parser and, if there was one, the client got a `message_delta` or gets it last;
  and that a finished parse left the client so.
* `Refinement`: `Spec => WellFormedStream`, the safety part of the
  refinement: `Init` implies `SSEInit`, and under `IInv` every step is a step of
  `SSENext` or changes nothing the client sees.

The others each need `IInv` and one strengthening:

* `TypeCorrect`: `Spec => []TypeOK`.
* `InOrderAlways`: `Spec => []InOrder`.  One frame holds at most one fragment, so
  at most one pending event is a delta and it carries the fragment read last
  (`OrderInv`); that the client files it under the right block is `Legal`, from
  the refinement.
* `BlocksNamedAlways`: `Spec => []BlocksNamed`; the pending events that open a
  block are named too (`NamedInv`).
* `ToolUseAlways`: `Spec => ToolUseAfterTool`.  A pending `message_delta` with the
  reason `tool_use` comes straight after a pending stop of a tool_use block, or is
  the first pending event and that stop was just received (`ToolInv`).

And of `Response`, whose steps are steps of `EventStream` (`ResponseRefines`), so that
all of the above holds of it:

* `ResponseInductive`: `ResponseSpec => []ResponseInv`.  `SameMessage` speaks of the
  end only; what holds at every step before it is that the events collected so far
  already build the blocks the client was told of and the pieces it received
  (`Builds`), with the index of the newest block one below their number (`Told`).  A
  pending event that opens or feeds a block has one of two kinds, and a tool exactly
  if it is a tool call (`AllShaped`), without which a tool call could be filled in
  from the next delta.  The events also hold the stop reason told last (`Reasoned`).
  `Drained` and `Answered` tie the message to a parse that is over.
* `SameMessageAlways`: `ResponseSpec => []SameMessage`, from `ResponseInv`, `InOrder`
  and `BlocksNamed`: the blocks, names and pieces, what a tool call's pieces make of its
  input, and the stop reason.  The blocks have indices without gaps, so sorting them
  changes nothing (`OrderedInterval`).
* `StreamedAgainAlways`: `ResponseSpec => []StreamedAgain`.  The events made of the
  first k blocks show a client those blocks and leave none open (`Shows`), for k up to
  all of them; the `message_delta` comes last, so its reason is the one found.

What the loops compute for a response of any length is not proved with an induction
theorem, which takes an operator: a set of numbers that holds 0 and each member's
successor holds them all, or a number missing from it would have a least one
(`Climb`, from the library's `WFMin`).  With it `MapAdd`, `HeardAdd` and `JoinAdd` say
what one event, or one block, more changes in `BlockMap`, `Followed` and `FlattenSeq`,
and the rest is the invariant.

`IcmStoreProofs`, from the invariant `SaveInv`:

* `TypeCorrect`, `RestartFindsAllAlways` and `FileParsesAlways`.  `RestartFindsAll`
  speaks of moments without requests, which says nothing of how they are reached.
  `SaveInv` adds that a save that is still alone is the only one and finds the
  file empty when it writes (`Alone`), that it holds the server's memories or a
  request is on its way that will save them again (`Current`), and that without a
  torn save there is one save at a time and the file parses between saves
  (`OneSave`).

`RequestProofs`, of `Profile` from the invariant `ProfileInv`:

* `WholeAlways`, `NeverForgetsAlways`.  `Whole` speaks of requests
  that are sent; `ProfileInv` says where what they send comes from: what is about
  to be stored was named by the upstream, so the cache holds a named profile or
  none (`Cached`), a request that is through with the cache holds one of these
  (`Decided`), and a request that began with a full cache still finds it full, while
  nobody is about to store an empty ARN (`Known`, `Emptying`).

and of `Payload` from the invariant `PayloadInv`:

* `CurrentAlways`, `NewestKeptAlways`, `PairedAlways`.  These compare a request that
  several cuts have shortened with what was translated: the client's messages or
  whatever headroom answered in their place.  The history is made of all but the last
  of them without the blank ones, and as a message that calls a tool is never blank,
  an answer that followed its call still does (`HistoryPairs`); what the cuts leave of
  the history is its newest entries (`Carried`, `KeepKeep`).
* `FitsOrBareAlways`, `NothingNeedlessAlways`, `RetryAlways`.  At each stage of
  `EnsurePayloadFits` the invariant remembers what did not fit before (`Cutting`): with
  one entry of the history more, and, once the tools are cut, without any history.
* A sum, or what a loop has kept, is a recursive function over a sequence of any
  length.  That each exists and what it returns is proved from its least
  counterexample (`Least`, `Climb`, from `WFMin`), in place of an induction.

`DaemonProofs`, from the invariant `DaemonInv`:

* `FindableAlways`.  That the file names a settled daemon is not inductive: some
  command could be about to remove it.  `DaemonInv` adds that while a daemon is
  settled every command is where it will not change the file, or has read that
  daemon's identifier (`Harmless`), which holds because a daemon becomes settled
  only when its `start` was alone (`Alone`) and its child was not signalled
  meanwhile (`Unsignalled`).
* `SparesOthersAlways`.  The file names a daemon that was stopped only until the
  stop that did it removes the file (`Named`), what a command that nothing overlapped
  has read is still there when it signals (`StillThere`), and such a command finds the
  file empty when it writes (`Emptied`).  What two overlapping writes make of the file
  is astray, whatever number `Over` says it is.

`GatewayProofs`, from the invariant `GatewayInv`:

* `Refinement`: `Spec => Regular`.  A server that is up throughout a discovery has
  been found or its container is still to be inspected, and what has been found
  was up at some time of it (`Finding`); when nothing is left to be inspected, what
  is stored is a `Register` step of `Registry`.  A change of a container is a
  `Change` of what is up, or invisible.
* `FoundStaysAlways`.  What was promised and is still up was up throughout every
  discovery beside which nothing was stored (`Ahead`), so by `Finding` it is found
  again.

`SandboxProofs`, from the invariant `SandboxInv`:

* `ContainerExistsAlways` and `DestroyedForGoodAlways`.  A method that runs docker
  start or docker stop holds the lock of a sandbox that is not destroyed, and
  docker rm, which runs outside the lock, comes after `Destroy` has set the state
  under it (`Guarded`); only a sandbox whose container was made can be destroyed
  (`Made`, `Working`).  A method that has read a destroyed state returns without
  writing, and one that has read another state still holds the lock.
* `NoLeakAlways`.  The map alone does not tell why no entry is overwritten or
  deleted that another container needs.  As long as nothing `raced`, there is one
  `Create` and one `Destroy` per identifier (`Apart`), and what each has found in
  the map, nothing or its own sandbox, is found there until it writes
  (`StillThere`): a `Create` returns early while the identifier is taken, so it
  cannot fill a place that a `Destroy` is about to delete.  A container that docker
  create made as it failed is not reported to the Manager, and none of its sandboxes
  ever stands for it.

`HeadroomProofs`, from the invariant `HeadroomInv`:

* `NoPanicAlways`, `NoOrphanAlways` and `StopStopsAlways`.  `m.mu` is released
  while `stopLocked` waits and while a monitor waits for its child, so nothing of
  these holds by a lock.  As long as no child was launched too early (`overtaken`),
  the only monitor before its close is that of `m.cmd` and its channel is open
  (`OneMonitor`), and every stop that waits or locks again is about `m.cmd`, which
  it has told to exit (`Told`), so that a child that is still alive is one nobody
  stops, with `m.running` set.
* `ExitNoticedAlways` holds even when monitors overtake each other: `m.running` is
  only ever set together with a new `m.cmd`, whose monitor has not yet cleared it
  (`Watched`).

`ProxyProofs`, from the invariant `ProxyInv`:

* `WholeTokensAlways`.  What `GetToken` makes of a file that is not a whole token
  is an error, so a request only ever holds the whole content of the file, and what
  is written there was issued (`IssuedOnly`, `Held`); no assumption on overlaps.
* `FileReadableAlways` and `FreshAfterRefreshAlways`.  Until there is a `clash` one
  process at a time is between Kiro's database and the file (`Alone`), what it has
  read is the newest that anyone has read (`Newest`), and the file is empty while it
  writes, else whole and as new as what any living process fetched (`FileWhole`).
  So what a request reads after its refresh is as new as what it fetched (`Fresh`).
* `HonestReplyAlways`.  What the client holds follows from where its handler is
  (`Received`), and a handler that comes back to the database or the file was answered
  403 with an attempt left (`Handling`); a stream that was opened, or a message with
  content, is therefore of the answer to its last attempt, and that had status 200.  An
  empty message may also stand for a refusal (see Findings).  That a client with a
  broken connection holds the start of a reply is a conjunct of `TypeOK` and proved
  with it.

Assumed are only `FramesAssumption`, `IcmAssumption`, `ProfileAssumption`,
`TranslationAssumption`, `PayloadAssumption`, `DaemonAssumption`, `OverAssumption`,
`ResidentsAssumption`, `GatewayAssumption`, `SandboxAssumption`, `HeadroomAssumption`
and `ProxyAssumption`, which TLC evaluates in each run of these modules.

Only model-checked, and why:

* All liveness properties (`Answered`, `CallsReturn`, `ChildrenEnd`, `Reflects`,
  `StopEnds`, `StartServes`): fairness and `ENABLED` are out of the prover's reach.

## Findings

Three statements of the documents have a run whose trace shows that they do not hold
of the code (PROJECT.json, "findings"): the drained shutdown, the memories that are
persisted, and the profile that is cached for `profileCacheTTL` (profile.go:37;
`ResolveProfileArn` returns it however old it is).  Others were met while modelling;
the models do what the code does, and need no run to show it:

* sse_parser.go:38 calls the event sequence complete; a response without blocks
  gets no `message_delta`, which `SSEProtocol` therefore allows.
* The proxy's instructions want errors of a refresh returned; `RefreshToken` ends
  the process with `os.Exit` (token.go:96), with all requests in flight.
* docs/PRD.md:149 has `openkiro sandbox destroy` remove a sandbox of an earlier
  command, but each command begins with an empty map (`NewProcess`).
* The launchd plist passes `--port PORT` to `openkiro server` (daemon.go:173),
  which takes its first argument, `--port`, for the port (main.go:67).
* A request that does not stream never looks at the upstream's status: a 403, like any
  refusal whose body is not "Improperly formed request.", is parsed as a response and
  answered with HTTP 200 and an empty message (server.go:443-470).  Only the streaming
  handler refreshes the token and retries, though docs/ARCHITECTURE.md:263 tells it of
  every request.  `HonestReply` allows the empty message and names when.
* A tool call that is cut off is assembled with the input `{}`, while the client of a
  stream holds part of its input; streams announce 0 output tokens (sse_parser.go:274)
  and assembled messages the number of pieces.  `SameMessage` says so.
* A docker create that fails or is killed through its context may have made the container,
  which no map knows and whose name stays taken (sandbox.go:203-206; `unreported`).
* What headroom answers is used unchecked (headroom.go:116-140): it may leave out or move
  the message the client has just sent, which is then not the current one, or part a
  result from its call (`linked`).
* `FetchProfileArn` stores an empty ARN over a cached one, if the upstream's first profile
  has none (profile.go:84; `NeverForgets` excepts it).
* Two `openkiro start` at once may leave a PID file that names neither daemon, but perhaps
  another program, which the next stop signals (daemon.go:71; `SparesOthers` excepts it).
* When the program ends before `Stop` is through, the headroom child outlives it
  (`ProgramExits`): nothing waits for the goroutine of main.go:547.

## Not modelled, and the plan

Left out for good: text and formatting (`SimplifySchema`, model names and
identifiers, aliases, plists, the environment files and `~/.claude.json`); the
filters over text (`cmd/rtk`, `cmd/headroom`) and the commands that keep no state
(`mcp-gateway list`, `version`); the binary framing below the level of a frame;
Windows, where a stop kills and services differ.  `ApplyProfileModelFallback`
changes the model of the current message only; the entries of the history keep
theirs, which `Payload` does not tell apart.  In `Daemon` a program that holds the
port is to a daemon like a crash, and so is a failing `GetToken` at its start.
In `Gateway` a docker that fails at every look, or containers that change for ever,
can starve the registry, which is why `Reflects` waits for `quiet`.

Next, in this order:

1. `Proxy` with the parser's events in place of "events", as a refinement of a
   whole reply seen by a client.
