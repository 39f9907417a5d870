--------------------------- MODULE IcmStoreProofs ---------------------------
(***************************************************************************)
(* The memory server's file, for any keys, values, requests and commands.  *)
(*                                                                         *)
(* The argument: a save that no other overlaps finds the file as long as   *)
(* it left it, which is empty, and it writes either the memories the       *)
(* server has or there is a request on its way that will save them again.  *)
(***************************************************************************)
EXTENDS IcmStore, FiniteSetTheorems, TLAPS

\* What a save that is alone relies on.
Alone ==
  \A p \in Processes : alone[p] /\ Saving(p) =>
    /\ \A q \in Processes : Saving(q) => q = p
    /\ pc[p] = "write" => file.len = 0

\* As long as no saves overlapped and none was cut short.
OneSave ==
  ~torn => /\ \A p, q \in Processes : Saving(p) /\ Saving(q) => p = q
           /\ \A p \in Processes : pc[p] = "write" => file.len = 0
           /\ (\A p \in Processes : pc[p] # "write") => Parses(file)

\* A request that is alone saves what the server holds, or another one will.
Current ==
  \A p \in Requests : alone[p] /\ Saving(p) =>
    snapshot[p] = data \/ \E q \in Requests : pc[q] = "changed"

Settled == up /\ settled => Load(file) = data \/ ~Idle

SaveInv == TypeOK /\ Alone /\ OneSave /\ Current /\ Settled

-----------------------------------------------------------------------------
(* The file.                                                               *)

LEMMA LengthPositive ==
  ASSUME NEW d \in Memories
  PROVE  Length(d) \in Nat /\ Length(d) >= 1
<1>. DEFINE K == {k \in Keys : d[k] # Absent}
<1>1. IsFiniteSet(K)
  <2>1. K \subseteq Keys /\ IsFiniteSet(Keys)
    BY IcmAssumption
  <2>. QED  BY <2>1, FS_Subset
<1>2. Cardinality(K) \in Nat
  BY <1>1, FS_CardinalityType
<1>. HIDE DEF K
<1>3. 1 + Cardinality(K) \in Nat /\ 1 + Cardinality(K) >= 1
  BY <1>2
<1>. QED  BY <1>3 DEF Length, K

LEMMA WrittenFile ==
  ASSUME NEW f \in File, NEW d \in Memories
  PROVE  /\ Written(f, d) \in File
         /\ f.len = 0 => Parses(Written(f, d)) /\ Load(Written(f, d)) = d
<1>1. Length(d) \in Nat /\ Length(d) >= 1 /\ f.len \in Nat
  BY LengthPositive DEF File
<1>. DEFINE n == IF f.len > Length(d) THEN f.len ELSE Length(d)
<1>2. n \in Nat /\ (f.len = 0 => n = Length(d))
  BY <1>1
<1>3. Written(f, d) = [data |-> d, len |-> n]
  BY DEF Written
<1>. HIDE DEF n
<1>4. Written(f, d).data = d /\ Written(f, d).len = n
  BY <1>3
<1>. QED  BY <1>2, <1>3, <1>4 DEF File, Parses, Load

LEMMA EmptyFile ==
  /\ NoMemories \in Memories /\ Empty \in File /\ Empty.len = 0
  /\ \A f : Truncated(f) = Empty
<1>1. NoMemories \in Memories
  BY DEF NoMemories, Memories
<1>. QED  BY <1>1 DEF Empty, File, Truncated

LEMMA LoadType ==
  ASSUME NEW f \in File
  PROVE  Load(f) \in Memories
  BY EmptyFile DEF Load, File

-----------------------------------------------------------------------------
(* The types.                                                              *)

LEMMA InitTypes == Init => TypeOK
<1>. SUFFICES ASSUME Init PROVE TypeOK
  OBVIOUS
<1>1. file \in File /\ data \in Memories
  BY EmptyFile, WrittenFile DEF Init
<1>2. calls \in 0..MaxCalls
  <2>1. calls = 0 /\ MaxCalls \in Nat
    BY IcmAssumption DEF Init
  <2>. QED  BY <2>1
<1>3. /\ pc \in [Processes -> {"idle", "changed", "open", "write"}]
      /\ \A p \in Processes : pc[p] = "idle"
  BY DEF Init
<1>4. snapshot \in [Processes -> Memories] /\ alone \in [Processes -> BOOLEAN]
  BY EmptyFile DEF Init
<1>. QED  BY <1>1, <1>2, <1>3, <1>4 DEF Init, TypeOK, Processes

\* What Begin, of a request or of a command, does to the types.
LEMMA BeginTypes ==
  ASSUME TypeOK, NEW p \in Processes, NEW d \in Memories, Begin(p, d)
  PROVE  /\ snapshot' \in [Processes -> Memories]
         /\ pc' \in [Processes -> {"idle", "changed", "open", "write"}]
         /\ alone' \in [Processes -> BOOLEAN]
         /\ torn' \in BOOLEAN
         /\ \A q \in Processes : pc'[q] = IF q = p THEN "open" ELSE pc[q]
         /\ \A q \in Processes : snapshot'[q] = IF q = p THEN d ELSE snapshot[q]
         /\ alone'[p] <=> \A q \in Processes \ {p} : ~Saving(q)
         /\ \A q \in Processes \ {p} : alone'[q] <=> alone[q] /\ ~Saving(q)
         /\ ~torn' => ~torn /\ \A q \in Processes \ {p} : ~Saving(q)
<1>1. /\ pc \in [Processes -> {"idle", "changed", "open", "write"}]
      /\ snapshot \in [Processes -> Memories]
      /\ alone \in [Processes -> BOOLEAN]
      /\ torn \in BOOLEAN
  BY DEF TypeOK
<1>2. snapshot' = [snapshot EXCEPT ![p] = d] /\ pc' = [pc EXCEPT ![p] = "open"]
  BY DEF Begin
<1>. DEFINE others == {q \in Processes \ {p} : Saving(q)}
<1>3. /\ alone' = [q \in Processes |-> IF q = p THEN others = {}
                                       ELSE alone[q] /\ ~Saving(q)]
      /\ torn' = (torn \/ others # {})
  BY DEF Begin
<1>4. others = {} <=> \A q \in Processes \ {p} : ~Saving(q)
  OBVIOUS
<1>. HIDE DEF others
<1>5. alone'[p] = (others = {}) /\ \A q \in Processes \ {p} : alone'[q] = (alone[q] /\ ~Saving(q))
  BY <1>3
<1>6. alone' \in [Processes -> BOOLEAN]
  <2>1. \A q \in Processes : (IF q = p THEN others = {} ELSE alone[q] /\ ~Saving(q)) \in BOOLEAN
    BY <1>1
  <2>. QED  BY <1>3, <2>1
<1>. QED  BY <1>1, <1>2, <1>3, <1>4, <1>5, <1>6

LEMMA TypesStep ==
  ASSUME TypeOK, [Next]_vars
  PROVE  TypeOK'
<1>1. /\ up \in BOOLEAN /\ data \in Memories /\ file \in File
      /\ pc \in [Processes -> {"idle", "changed", "open", "write"}]
      /\ \A p \in Commands : pc[p] # "changed"
      /\ snapshot \in [Processes -> Memories]
      /\ calls \in 0..MaxCalls /\ MaxCalls \in Nat
      /\ alone \in [Processes -> BOOLEAN]
      /\ settled \in BOOLEAN /\ torn \in BOOLEAN /\ failed \in BOOLEAN
      /\ ~up => data = NoMemories /\ Idle
      /\ Requests \cap Commands = {} /\ Processes = Requests \cup Commands
  BY IcmAssumption DEF TypeOK, Processes
<1>2. ASSUME NEW p \in Requests, NEW k \in Keys, NEW v \in Values \cup {Absent}, Change(p, k, v)
      PROVE  TypeOK'
  <2>1. data' \in Memories
    BY <1>1, <1>2 DEF Change, Memories
  <2>2. calls' \in 0..MaxCalls
    BY <1>1, <1>2 DEF Change, Start
  <2>3. /\ pc' \in [Processes -> {"idle", "changed", "open", "write"}]
        /\ \A q \in Commands : pc'[q] = pc[q]
    BY <1>1, <1>2 DEF Change
  <2>. QED  BY <1>1, <1>2, <2>1, <2>2, <2>3 DEF Change, TypeOK
<1>3. ASSUME NEW p \in Requests, Snapshot(p) PROVE TypeOK'
  <2>1. p \in Processes /\ Begin(p, data) /\ UNCHANGED <<up, data, file, calls, settled, failed>>
    BY <1>1, <1>3 DEF Snapshot
  <2>2. up
    BY <1>1, <1>3 DEF Snapshot, Idle
  <2>3. \A q \in Commands : pc'[q] # "changed"
    BY <1>1, <2>1, BeginTypes
  <2>. QED  BY <1>1, <2>1, <2>2, <2>3, BeginTypes DEF TypeOK
<1>4. ASSUME NEW p \in Processes, Open(p) PROVE TypeOK'
  <2>1. pc' = [pc EXCEPT ![p] = "write"] /\ pc[p] = "open" /\ file' = Empty
    BY <1>4, EmptyFile DEF Open
  <2>2. pc' \in [Processes -> {"idle", "changed", "open", "write"}]
    BY <1>1, <2>1
  <2>3. \A q \in Commands : pc'[q] # "changed"
    BY <1>1, <2>1
  <2>4. ~up => p \notin Requests
    BY <1>1, <2>1 DEF Idle
  <2>5. ~up => Idle'
    BY <1>1, <2>1, <2>4 DEF Idle
  <2>. QED  BY <1>1, <1>4, <2>1, <2>2, <2>3, <2>5, EmptyFile DEF Open, TypeOK
<1>5. ASSUME NEW p \in Processes, pc' = [pc EXCEPT ![p] = "idle"]
      PROVE  /\ pc' \in [Processes -> {"idle", "changed", "open", "write"}]
             /\ \A q \in Commands : pc'[q] # "changed"
             /\ ~up => Idle'
  BY <1>1, <1>5 DEF Idle
<1>6. ASSUME NEW p \in Processes, Write(p) PROVE TypeOK'
  <2>1. file' \in File
    BY <1>1, <1>6, WrittenFile DEF Write
  <2>2. settled' \in BOOLEAN
    BY <1>6 DEF Write
  <2>. QED  BY <1>1, <1>5, <1>6, <2>1, <2>2 DEF Write, TypeOK
<1>7. ASSUME NEW p \in Processes, SaveFails(p) PROVE TypeOK'
  BY <1>1, <1>5, <1>7 DEF SaveFails, TypeOK
<1>8. ASSUME NEW p \in Commands, Store(p) PROVE TypeOK'
  <2>1. PICK k \in Keys, v \in Values : Begin(p, [Load(file) EXCEPT ![k] = v])
    BY <1>8 DEF Store
  <2>2. [Load(file) EXCEPT ![k] = v] \in Memories
    BY <1>1, LoadType DEF Memories
  <2>3. p \in Processes
    BY <1>1
  <2>. DEFINE d == [Load(file) EXCEPT ![k] = v]
  <2>. HIDE DEF d
  <2>4. /\ snapshot' \in [Processes -> Memories]
        /\ pc' \in [Processes -> {"idle", "changed", "open", "write"}]
        /\ alone' \in [Processes -> BOOLEAN] /\ torn' \in BOOLEAN
        /\ \A q \in Processes : pc'[q] = IF q = p THEN "open" ELSE pc[q]
    BY <2>1, <2>2, <2>3, BeginTypes DEF d
  <2>5. calls' \in 0..MaxCalls
    BY <1>1, <1>8 DEF Store, Start
  <2>6. UNCHANGED <<up, data, file, settled, failed>>
    BY <1>8 DEF Store
  <2>7. \A q \in Commands : pc'[q] # "changed"
    BY <1>1, <2>4
  <2>8. ~up => Idle'
    BY <1>1, <2>4, <2>6 DEF Idle
  <2>. QED  BY <1>1, <2>4, <2>5, <2>6, <2>7, <2>8 DEF TypeOK
<1>9. ASSUME NEW p \in Commands, Kill(p) PROVE TypeOK'
  BY <1>1, <1>5, <1>9 DEF Kill, TypeOK
<1>10. CASE Crash
  <2>1. /\ pc' = [p \in Processes |-> IF p \in Requests THEN "idle" ELSE pc[p]]
        /\ data' = NoMemories /\ torn' \in BOOLEAN
    BY <1>10 DEF Crash
  <2>2. pc' \in [Processes -> {"idle", "changed", "open", "write"}] /\ Idle'
    BY <1>1, <2>1 DEF Idle
  <2>3. \A q \in Commands : pc'[q] # "changed"
    BY <1>1, <2>1
  <2>. QED  BY <1>1, <1>10, <2>1, <2>2, <2>3, EmptyFile DEF Crash, TypeOK
<1>11. CASE Restart
  BY <1>1, <1>11, LoadType DEF Restart, TypeOK, procs
<1>12. CASE UNCHANGED vars
  BY <1>1, <1>12 DEF vars, procs, TypeOK, Idle
<1>. QED  BY <1>2, <1>3, <1>4, <1>6, <1>7, <1>8, <1>9, <1>10, <1>11, <1>12
          DEF Next, Remember, Forget

\* Every memory stays a value of a key, and the server that is down has no memories
\* and no requests.
THEOREM TypeCorrect == Spec => []TypeOK
<1>. QED  BY InitTypes, TypesStep, PTL DEF Spec

-----------------------------------------------------------------------------
(* The saves.                                                              *)

\* When a save begins, no other that is in progress is alone any longer.
LEMMA BeginKeeps ==
  ASSUME SaveInv, NEW p \in Processes, NEW d \in Memories, ~Saving(p), Begin(p, d),
         UNCHANGED <<data, file>>, p \in Requests => d = data
  PROVE  Alone' /\ OneSave' /\ Current'
<1>1. /\ \A q \in Processes : pc'[q] = IF q = p THEN "open" ELSE pc[q]
      /\ snapshot'[p] = d
      /\ alone'[p] <=> \A q \in Processes \ {p} : ~Saving(q)
      /\ \A q \in Processes \ {p} : alone'[q] <=> alone[q] /\ ~Saving(q)
      /\ ~torn' => ~torn /\ \A q \in Processes \ {p} : ~Saving(q)
  BY BeginTypes DEF SaveInv
<1>2. \A q \in Processes \ {p} : Saving(q)' <=> Saving(q)
  BY <1>1 DEF Saving
<1>3. \A q \in Processes : alone'[q] /\ Saving(q)' => q = p
  BY <1>1, <1>2
<1>4. pc'[p] = "open" /\ pc[p] # "write"
  BY <1>1 DEF Saving
<1>5. Alone'
  BY <1>1, <1>2, <1>3, <1>4 DEF Alone
<1>6. OneSave'
  <2>. SUFFICES ASSUME ~torn'
                PROVE  /\ \A q, r \in Processes : Saving(q)' /\ Saving(r)' => q = r
                       /\ \A q \in Processes : pc'[q] = "write" => file'.len = 0
                       /\ (\A q \in Processes : pc'[q] # "write") => Parses(file')
    BY DEF OneSave
  <2>1. \A q \in Processes : Saving(q)' => q = p
    BY <1>1, <1>2
  <2>2. \A q \in Processes : pc'[q] # "write"
    BY <1>4, <2>1 DEF Saving
  <2>3. \A q \in Processes : pc[q] # "write"
    BY <1>1, <1>4, <2>2
  <2>4. Parses(file)
    BY <1>1, <2>3 DEF SaveInv, OneSave
  <2>. QED  BY <2>1, <2>2, <2>4
<1>7. Current'
  BY <1>1, <1>3 DEF Current, Processes
<1>. QED  BY <1>5, <1>6, <1>7

\* When a save ends, none that is still in progress is alone.
LEMMA EndKeeps ==
  ASSUME SaveInv, NEW p \in Processes, Saving(p), pc' = [pc EXCEPT ![p] = "idle"],
         UNCHANGED alone
  PROVE  /\ Alone' /\ Current'
         /\ \A q \in Processes : pc'[q] = IF q = p THEN "idle" ELSE pc[q]
         /\ ~torn => \A q \in Processes : q = p \/ ~Saving(q)
         /\ ~torn => \A q \in Processes : ~Saving(q)'
<1>1. \A q \in Processes : pc'[q] = IF q = p THEN "idle" ELSE pc[q]
  BY DEF SaveInv, TypeOK
<1>2. \A q \in Processes : Saving(q)' => Saving(q) /\ q # p
  BY <1>1 DEF Saving
<1>3. \A q \in Processes : ~(alone'[q] /\ Saving(q)')
  BY <1>2 DEF SaveInv, Alone
<1>4. Alone'
  BY <1>3 DEF Alone
<1>5. Current'
  BY <1>3 DEF Current, Processes
<1>6. ~torn => \A q \in Processes : q = p \/ ~Saving(q)
  BY DEF SaveInv, OneSave
<1>. QED  BY <1>1, <1>2, <1>4, <1>5, <1>6

\* A save that ends without having written.
LEMMA AbandonKeeps ==
  ASSUME SaveInv, NEW p \in Processes, Saving(p), pc' = [pc EXCEPT ![p] = "idle"],
         UNCHANGED <<alone, file>>, torn' = (torn \/ pc[p] = "write")
  PROVE  Alone' /\ OneSave' /\ Current'
<1>1. /\ Alone' /\ Current'
      /\ \A q \in Processes : pc'[q] = IF q = p THEN "idle" ELSE pc[q]
      /\ ~torn => \A q \in Processes : q = p \/ ~Saving(q)
      /\ ~torn => \A q \in Processes : ~Saving(q)'
  BY EndKeeps
<1>2. OneSave'
  <2>. SUFFICES ASSUME ~torn'
                PROVE  /\ \A q, r \in Processes : Saving(q)' /\ Saving(r)' => q = r
                       /\ \A q \in Processes : pc'[q] = "write" => file'.len = 0
                       /\ (\A q \in Processes : pc'[q] # "write") => Parses(file')
    BY DEF OneSave
  <2>1. ~torn /\ pc[p] # "write"
    OBVIOUS
  <2>2. \A q \in Processes : pc[q] # "write"
    BY <1>1, <2>1 DEF Saving
  <2>3. Parses(file)
    BY <2>1, <2>2 DEF SaveInv, OneSave
  <2>4. \A q \in Processes : pc'[q] # "write"
    BY <1>1, <2>1 DEF Saving
  <2>. QED  BY <1>1, <2>1, <2>3, <2>4
<1>. QED  BY <1>1, <1>2

LEMMA ChangeStep ==
  ASSUME SaveInv, NEW p \in Requests, NEW k \in Keys, NEW v, Change(p, k, v)
  PROVE  Alone' /\ OneSave' /\ Current' /\ Settled'
<1>1. /\ pc[p] = "idle" /\ pc' = [pc EXCEPT ![p] = "changed"]
      /\ UNCHANGED <<up, file, snapshot, alone, settled, torn, failed>>
      /\ p \in Processes
  BY DEF Change, Start, Processes
<1>2. \A q \in Processes : pc'[q] = IF q = p THEN "changed" ELSE pc[q]
  BY <1>1 DEF SaveInv, TypeOK
<1>3. \A q \in Processes : (Saving(q)' <=> Saving(q)) /\ (pc'[q] = "write" <=> pc[q] = "write")
  BY <1>1, <1>2 DEF Saving
<1>4. Alone'
  BY <1>1, <1>3 DEF SaveInv, Alone
<1>5. OneSave'
  BY <1>1, <1>3 DEF SaveInv, OneSave
<1>6. Current'
  BY <1>1, <1>2 DEF Current
<1>7. ~Idle'
  BY <1>1, <1>2 DEF Idle
<1>. QED  BY <1>4, <1>5, <1>6, <1>7 DEF Settled

LEMMA SnapshotStep ==
  ASSUME SaveInv, NEW p \in Requests, Snapshot(p)
  PROVE  Alone' /\ OneSave' /\ Current' /\ Settled'
<1>1. /\ p \in Processes /\ data \in Memories /\ Begin(p, data) /\ ~Saving(p)
      /\ UNCHANGED <<data, file>>
  BY DEF Snapshot, Processes, Saving, SaveInv, TypeOK
<1>2. Alone' /\ OneSave' /\ Current'
  BY <1>1, BeginKeeps
<1>3. ~Idle'
  BY <1>1, BeginTypes DEF Idle, SaveInv
<1>. QED  BY <1>2, <1>3 DEF Settled

LEMMA StoreStep ==
  ASSUME SaveInv, NEW p \in Commands, Store(p)
  PROVE  Alone' /\ OneSave' /\ Current' /\ Settled'
<1>1. PICK k \in Keys, v \in Values : Begin(p, [Load(file) EXCEPT ![k] = v])
  BY DEF Store
<1>. DEFINE d == [Load(file) EXCEPT ![k] = v]
<1>2. /\ p \in Processes /\ p \notin Requests /\ ~Saving(p)
      /\ UNCHANGED <<up, data, file, settled, failed>>
  BY IcmAssumption DEF Store, Start, Processes, Saving
<1>3. d \in Memories
  BY LoadType DEF Memories, SaveInv, TypeOK
<1>. HIDE DEF d
<1>4. Begin(p, d)
  BY <1>1 DEF d
<1>5. Alone' /\ OneSave' /\ Current'
  BY <1>2, <1>3, <1>4, BeginKeeps
<1>6. \A q \in Requests : pc'[q] = pc[q]
  BY <1>2, <1>3, <1>4, BeginTypes DEF SaveInv, Processes
<1>7. Idle' <=> Idle
  BY <1>6 DEF Idle
<1>. QED  BY <1>2, <1>5, <1>7 DEF SaveInv, Settled

LEMMA OpenStep ==
  ASSUME SaveInv, NEW p \in Processes, Open(p)
  PROVE  Alone' /\ OneSave' /\ Current' /\ Settled'
<1>1. /\ pc[p] = "open" /\ pc' = [pc EXCEPT ![p] = "write"] /\ file' = Empty
      /\ ~settled' /\ UNCHANGED <<data, snapshot, alone, torn>>
  BY EmptyFile DEF Open
<1>2. \A q \in Processes : pc'[q] = IF q = p THEN "write" ELSE pc[q]
  BY <1>1 DEF SaveInv, TypeOK
<1>3. \A q \in Processes : (Saving(q)' <=> Saving(q))
                           /\ (pc'[q] = "changed" <=> pc[q] = "changed")
  BY <1>1, <1>2 DEF Saving
<1>4. file'.len = 0
  BY <1>1, EmptyFile
<1>5. Alone'
  BY <1>1, <1>3, <1>4 DEF SaveInv, Alone
<1>6. OneSave'
  BY <1>1, <1>2, <1>3, <1>4 DEF SaveInv, OneSave
<1>7. Current'
  BY <1>1, <1>3 DEF SaveInv, Current, Processes
<1>. QED  BY <1>1, <1>5, <1>6, <1>7 DEF Settled

LEMMA WriteStep ==
  ASSUME SaveInv, NEW p \in Processes, Write(p)
  PROVE  Alone' /\ OneSave' /\ Current' /\ Settled'
<1>1. /\ pc[p] = "write" /\ pc' = [pc EXCEPT ![p] = "idle"]
      /\ file' = Written(file, snapshot[p])
      /\ settled' = (p \in Requests /\ alone[p])
      /\ UNCHANGED <<up, data, alone, torn>>
  BY DEF Write
<1>2. Saving(p) /\ file \in File /\ snapshot[p] \in Memories
  BY <1>1 DEF Saving, SaveInv, TypeOK
<1>3. /\ Alone' /\ Current'
      /\ \A q \in Processes : pc'[q] = IF q = p THEN "idle" ELSE pc[q]
      /\ ~torn => \A q \in Processes : ~Saving(q)'
  BY <1>1, <1>2, EndKeeps
<1>4. file.len = 0 => Parses(file') /\ Load(file') = snapshot[p]
  BY <1>1, <1>2, WrittenFile
<1>5. OneSave'
  <2>. SUFFICES ASSUME ~torn'
                PROVE  /\ \A q, r \in Processes : Saving(q)' /\ Saving(r)' => q = r
                       /\ \A q \in Processes : pc'[q] = "write" => file'.len = 0
                       /\ (\A q \in Processes : pc'[q] # "write") => Parses(file')
    BY DEF OneSave
  <2>1. ~torn
    BY <1>1
  <2>2. Parses(file')
    BY <1>1, <1>4, <2>1 DEF SaveInv, OneSave
  <2>. QED  BY <1>3, <2>1, <2>2 DEF Saving
<1>6. Settled'
  <2>. SUFFICES ASSUME settled' PROVE Load(file') = data' \/ ~Idle'
    BY DEF Settled
  <2>1. p \in Requests /\ alone[p]
    BY <1>1
  <2>2. Load(file') = snapshot[p]
    BY <1>1, <1>2, <1>4, <2>1 DEF SaveInv, Alone
  <2>3. snapshot[p] = data \/ \E q \in Requests : pc[q] = "changed"
    BY <1>2, <2>1 DEF SaveInv, Current
  <2>4. (\E q \in Requests : pc[q] = "changed") => ~Idle'
    BY <1>1, <1>3 DEF Idle, Processes
  <2>. QED  BY <1>1, <2>2, <2>3, <2>4
<1>. QED  BY <1>3, <1>5, <1>6

LEMMA SaveFailsStep ==
  ASSUME SaveInv, NEW p \in Processes, SaveFails(p)
  PROVE  Alone' /\ OneSave' /\ Current' /\ Settled'
<1>1. Alone' /\ OneSave' /\ Current'
  BY AbandonKeeps DEF SaveFails
<1>2. ~settled'
  BY DEF SaveFails
<1>. QED  BY <1>1, <1>2 DEF Settled

LEMMA KillStep ==
  ASSUME SaveInv, NEW p \in Commands, Kill(p)
  PROVE  Alone' /\ OneSave' /\ Current' /\ Settled'
<1>1. /\ Saving(p) /\ pc' = [pc EXCEPT ![p] = "idle"]
      /\ torn' = (torn \/ pc[p] = "write")
      /\ UNCHANGED <<up, data, file, snapshot, calls, alone, settled, failed>>
      /\ p \in Processes /\ p \notin Requests
  BY IcmAssumption DEF Kill, Processes
<1>2. Alone' /\ OneSave' /\ Current'
  BY <1>1, AbandonKeeps
<1>3. Idle' <=> Idle
  BY <1>1 DEF Idle, SaveInv, TypeOK, Processes
<1>. QED  BY <1>1, <1>2, <1>3 DEF SaveInv, Settled

LEMMA CrashStep ==
  ASSUME SaveInv, Crash
  PROVE  Alone' /\ OneSave' /\ Current' /\ Settled'
<1>1. /\ ~up' /\ UNCHANGED <<file, snapshot, alone>>
      /\ torn' = (torn \/ \E p \in Requests : pc[p] = "write")
      /\ \A p \in Processes : pc'[p] = IF p \in Requests THEN "idle" ELSE pc[p]
  BY DEF Crash
<1>2. \A p \in Processes : Saving(p)' => Saving(p) /\ p \notin Requests /\ pc'[p] = pc[p]
  BY <1>1 DEF Saving
<1>3. Alone'
  BY <1>1, <1>2 DEF SaveInv, Alone
<1>4. OneSave'
  <2>. SUFFICES ASSUME ~torn'
                PROVE  /\ \A q, r \in Processes : Saving(q)' /\ Saving(r)' => q = r
                       /\ \A q \in Processes : pc'[q] = "write" => file'.len = 0
                       /\ (\A q \in Processes : pc'[q] # "write") => Parses(file')
    BY DEF OneSave
  <2>1. ~torn /\ \A p \in Processes : pc'[p] = "write" <=> pc[p] = "write"
    BY <1>1
  <2>. QED  BY <1>1, <1>2, <2>1 DEF SaveInv, OneSave
<1>5. Current'
  BY <1>2 DEF Current, Processes
<1>. QED  BY <1>1, <1>3, <1>4, <1>5 DEF Settled

LEMMA RestartStep ==
  ASSUME SaveInv, Restart
  PROVE  Alone' /\ OneSave' /\ Current' /\ Settled'
<1>1. /\ data' = Load(file) /\ UNCHANGED <<file, pc, snapshot, alone, torn>>
      /\ \A p \in Requests : pc[p] = "idle"
  BY DEF Restart, procs, SaveInv, TypeOK, Idle
<1>2. Alone' /\ OneSave'
  BY <1>1 DEF SaveInv, Alone, OneSave, Saving
<1>3. Current'
  BY <1>1 DEF Current, Saving
<1>4. Settled'
  BY <1>1 DEF Settled
<1>. QED  BY <1>2, <1>3, <1>4

LEMMA NextSaveInv == SaveInv /\ [Next]_vars => SaveInv'
<1>. SUFFICES ASSUME SaveInv, [Next]_vars PROVE SaveInv'
  OBVIOUS
<1>1. TypeOK'
  BY TypesStep DEF SaveInv
<1>. SUFFICES Alone' /\ OneSave' /\ Current' /\ Settled'
  BY <1>1 DEF SaveInv
<1>2. ASSUME NEW p \in Requests, Remember(p) \/ Forget(p) \/ Snapshot(p)
      PROVE  Alone' /\ OneSave' /\ Current' /\ Settled'
  BY <1>2, ChangeStep, SnapshotStep DEF Remember, Forget
<1>3. ASSUME NEW p \in Processes, Open(p) \/ Write(p) \/ SaveFails(p)
      PROVE  Alone' /\ OneSave' /\ Current' /\ Settled'
  BY <1>3, OpenStep, WriteStep, SaveFailsStep
<1>4. ASSUME NEW p \in Commands, Store(p) \/ Kill(p)
      PROVE  Alone' /\ OneSave' /\ Current' /\ Settled'
  BY <1>4, StoreStep, KillStep
<1>5. CASE Crash
  BY <1>5, CrashStep
<1>6. CASE Restart
  BY <1>6, RestartStep
<1>7. CASE UNCHANGED vars
  BY <1>7 DEF vars, procs, SaveInv, Alone, OneSave, Current, Settled, Saving, Idle
<1>. QED  BY <1>2, <1>3, <1>4, <1>5, <1>6, <1>7 DEF Next

LEMMA InitSaveInv == Init => SaveInv
<1>. SUFFICES ASSUME Init PROVE SaveInv
  OBVIOUS
<1>1. /\ \A p \in Processes : pc[p] = "idle"
      /\ file = Written(Empty, NoMemories) /\ data = NoMemories
  BY DEF Init
<1>2. Parses(file) /\ Load(file) = data
  BY <1>1, EmptyFile, WrittenFile
<1>3. Alone /\ OneSave
  BY <1>1, <1>2 DEF Alone, OneSave, Saving
<1>4. Current
  BY <1>1 DEF Current, Processes, Saving
<1>. QED  BY <1>2, <1>3, <1>4, InitTypes DEF SaveInv, Settled

LEMMA Saves == Spec => []SaveInv
<1>. QED  BY InitSaveInv, NextSaveInv, PTL DEF Spec

\* One save of a request that no other save overlapped is enough for a restart to find
\* what the server answers with, however many requests and commands there are and
\* whatever was lost before.
THEOREM RestartFindsAllAlways == Spec => []RestartFindsAll
<1>1. SaveInv => RestartFindsAll
  BY DEF SaveInv, Settled, RestartFindsAll
<1>. QED  BY <1>1, Saves, PTL

\* The file parses whenever it is not being written, as long as no two saves have
\* overlapped and none was cut short.
THEOREM FileParsesAlways == Spec => []FileParses
<1>1. SaveInv => FileParses
  BY DEF SaveInv, OneSave, FileParses
<1>. QED  BY <1>1, Saves, PTL
=============================================================================
