------------------------------ MODULE IcmStore ------------------------------
(***************************************************************************)
(* cmd/icm/main.go: the memory server and its file.                        *)
(*                                                                         *)
(* `icm serve` keeps the memories in a map that store.mu guards, and every *)
(* /remember and /forget rewrites the whole file from a snapshot of that   *)
(* map, outside the lock.  `icm store` is a process of its own: it reads   *)
(* the file, adds one memory and rewrites the file.  os.WriteFile          *)
(* truncates the file and then writes it.  A save that fails is not told   *)
(* to the caller, and a file that does not parse is taken for an empty     *)
(* one.  Nothing handles a signal.                                         *)
(*                                                                         *)
(* A file is reduced to the memories written last and to its length; how   *)
(* long a JSON text is, to how many memories it holds.                     *)
(***************************************************************************)
EXTENDS Integers, FiniteSets

CONSTANTS Keys,      \* keys of memories
          Values,    \* their values
          Absent,    \* no value: the key is not in the map
          Requests,  \* POST /remember and DELETE /forget requests in progress
          Commands,  \* `icm store` processes
          MaxCalls   \* bound on the requests and commands ever begun

ASSUME IcmAssumption ==
  /\ IsFiniteSet(Keys)
  /\ Absent \notin Values
  /\ Requests \cap Commands = {}
  /\ MaxCalls \in Nat

VARIABLES up,        \* `icm serve` is running
          data,      \* memoryStore.data of the server
          file,      \* the file
          pc,        \* where each request and command is
          snapshot,  \* the memories it writes
          calls,     \* number of requests and commands begun
          alone,     \* history: its save and no other's overlapped so far
          settled,   \* history: since the last restart, or the last save that was alone,
                     \* nothing else touched the file and no save failed
          torn,      \* history: two saves overlapped, or one was cut short
          failed     \* history: a save failed

procs == <<pc, snapshot, calls, alone>>
vars  == <<up, data, file, procs, settled, torn, failed>>

Processes == Requests \cup Commands

Memories == [Keys -> Values \cup {Absent}]

NoMemories == [k \in Keys |-> Absent]

-----------------------------------------------------------------------------
(* The file.                                                               *)

\* The length of the JSON text, "{}" being 1.
Length(d) == 1 + Cardinality({k \in Keys : d[k] # Absent})

File == [data : Memories, len : Nat]

Empty == [data |-> NoMemories, len |-> 0]

Parses(f) == f.len = Length(f.data)

Load(f) == IF Parses(f) THEN f.data ELSE NoMemories

\* mutant: the file is not opened with O_TRUNC.
KeepContent(f) == f

Truncated(f) == Empty

\* Writing at the start of the file leaves the end of what is longer.
Written(f, d) == [data |-> d, len |-> IF f.len > Length(d) THEN f.len ELSE Length(d)]

Saving(p) == pc[p] \in {"open", "write"}

Idle == \A p \in Requests : pc[p] = "idle"

-----------------------------------------------------------------------------
(* save, by a request or a command.                                        *)

\* The memories are snapshot, and the file is not opened yet.
Begin(p, d) ==
  /\ snapshot' = [snapshot EXCEPT ![p] = d]
  /\ pc' = [pc EXCEPT ![p] = "open"]
  /\ LET others == {q \in Processes \ {p} : Saving(q)}
     IN  /\ alone' = [q \in Processes |-> IF q = p THEN others = {}
                                          ELSE alone[q] /\ ~Saving(q)]
         /\ torn' = (torn \/ others # {})

Open(p) ==
  /\ pc[p] = "open"
  /\ file' = Truncated(file)
  /\ pc' = [pc EXCEPT ![p] = "write"]
  /\ settled' = FALSE
  /\ UNCHANGED <<up, data, snapshot, calls, alone, torn, failed>>

Write(p) ==
  /\ pc[p] = "write"
  /\ file' = Written(file, snapshot[p])
  /\ pc' = [pc EXCEPT ![p] = "idle"]
  /\ settled' = (p \in Requests /\ alone[p])
  /\ UNCHANGED <<up, data, snapshot, calls, alone, torn, failed>>

\* The directory or the file cannot be opened or written; the caller is told "ok".
SaveFails(p) ==
  /\ Saving(p)
  /\ pc' = [pc EXCEPT ![p] = "idle"]
  /\ settled' = FALSE
  /\ torn' = (torn \/ pc[p] = "write")
  /\ failed' = TRUE
  /\ UNCHANGED <<up, data, file, snapshot, calls, alone>>

-----------------------------------------------------------------------------
(* The server.                                                             *)

Start(p) ==
  /\ pc[p] = "idle" /\ calls < MaxCalls
  /\ calls' = calls + 1

\* /remember and /forget change the map before they save it.
Change(p, k, v) ==
  /\ up /\ Start(p)
  /\ data' = [data EXCEPT ![k] = v]
  /\ pc' = [pc EXCEPT ![p] = "changed"]
  /\ UNCHANGED <<up, file, snapshot, alone, settled, torn, failed>>

Remember(p) == \E k \in Keys, v \in Values : Change(p, k, v)

\* mutant: /forget does not save.
ForgetInMemory(p) ==
  /\ up /\ Start(p)
  /\ \E k \in Keys : data' = [data EXCEPT ![k] = Absent]
  /\ UNCHANGED <<up, file, pc, snapshot, alone, settled, torn, failed>>

Forget(p) == \E k \in Keys : Change(p, k, Absent)

Snapshot(p) ==
  /\ pc[p] = "changed"
  /\ Begin(p, data)
  /\ UNCHANGED <<up, data, file, calls, settled, failed>>

\* The server dies, and with it the requests in progress.
Crash ==
  /\ up
  /\ up' = FALSE
  /\ data' = NoMemories
  /\ torn' = (torn \/ \E p \in Requests : pc[p] = "write")
  /\ pc' = [p \in Processes |-> IF p \in Requests THEN "idle" ELSE pc[p]]
  /\ UNCHANGED <<file, snapshot, calls, alone, settled, failed>>

Restart ==
  /\ ~up
  /\ up' = TRUE
  /\ data' = Load(file)
  /\ settled' = TRUE
  /\ UNCHANGED <<file, procs, torn, failed>>

-----------------------------------------------------------------------------
(* icm store KEY VALUE.                                                    *)

Store(p) ==
  /\ Start(p)
  /\ \E k \in Keys, v \in Values : Begin(p, [Load(file) EXCEPT ![k] = v])
  /\ UNCHANGED <<up, data, file, settled, failed>>

\* Interrupted.
Kill(p) ==
  /\ Saving(p)
  /\ pc' = [pc EXCEPT ![p] = "idle"]
  /\ torn' = (torn \/ pc[p] = "write")
  /\ UNCHANGED <<up, data, file, snapshot, calls, alone, settled, failed>>

-----------------------------------------------------------------------------

\* No file is like a file without memories.
Init ==
  /\ up = TRUE
  /\ data = NoMemories
  /\ file = Written(Empty, NoMemories)
  /\ pc = [p \in Processes |-> "idle"]
  /\ snapshot = [p \in Processes |-> NoMemories]
  /\ calls = 0
  /\ alone = [p \in Processes |-> TRUE]
  /\ settled = TRUE
  /\ torn = FALSE /\ failed = FALSE

Next ==
  \/ \E p \in Requests : Remember(p) \/ Forget(p) \/ Snapshot(p)
  \/ \E p \in Processes : Open(p) \/ Write(p) \/ SaveFails(p)
  \/ \E p \in Commands : Store(p) \/ Kill(p)
  \/ Crash \/ Restart

Spec == Init /\ [][Next]_vars

-----------------------------------------------------------------------------

TypeOK ==
  /\ up \in BOOLEAN
  /\ data \in Memories
  /\ file \in File
  /\ pc \in [Processes -> {"idle", "changed", "open", "write"}]
  /\ \A p \in Commands : pc[p] # "changed"
  /\ snapshot \in [Processes -> Memories]
  /\ calls \in 0..MaxCalls
  /\ alone \in [Processes -> BOOLEAN]
  /\ settled \in BOOLEAN /\ torn \in BOOLEAN /\ failed \in BOOLEAN
  /\ ~up => data = NoMemories /\ Idle

\* One save that nothing overlaps is enough: from then on, whatever was lost before,
\* a restart finds exactly what the server answers with, as long as no other process
\* and no failed save comes in between.
RestartFindsAll == up /\ settled /\ Idle => Load(file) = data

\* The file does not parse only while it is written, or after two saves overlapped or
\* one was cut short.
FileParses == Parses(file) \/ torn \/ \E p \in Processes : pc[p] = "write"

\* "Memories are persisted to /workspace/.icm-store.json when writable"
\* (cmd/icm/main.go, printUsage).  When two requests overlap, both are answered "ok"
\* and the file may hold the older snapshot.
Persisted == up /\ Idle /\ ~failed => Load(file) = data
=============================================================================
