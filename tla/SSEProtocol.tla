---------------------------- MODULE SSEProtocol ----------------------------
(***************************************************************************)
(* What a client may rely on while it reads one message from the proxy as  *)
(* server-sent events: content blocks come one at a time, numbered from 0  *)
(* without gaps, every delta belongs to the block that is open and carries *)
(* that block's kind and tool, a message_delta is sent only between        *)
(* blocks, and a message that is complete has no open block and, once it   *)
(* had a block, a message_delta.                                           *)
(*                                                                         *)
(* This is the abstract specification EventStream implements.              *)
(***************************************************************************)
EXTENDS Integers

CONSTANTS ToolIds,  \* identifiers of the tool calls a message may hold
          NoTool    \* the empty identifier ""

VARIABLES event,    \* the event received last
          block,    \* the newest content block, as the client accumulates it
          stopped,  \* a message_delta was received
          status    \* "streaming", "complete" or "broken"

sseVars == <<event, block, stopped, status>>

BlockKinds == {"", "text", "tool_use"}

\* A block record; a closed block keeps only its number.
Block == [open : BOOLEAN, index : Nat \cup {-1}, kind : BlockKinds,
          tool : ToolIds \cup {NoTool}]

NoBlock == [open |-> FALSE, index |-> -1, kind |-> "", tool |-> NoTool]

EventTypes == {"ping", "content_block_start", "content_block_delta",
               "content_block_stop", "message_delta"}

\* Every event has every field, the ones its type lacks being empty.
Event == [type : EventTypes, index : Int, kind : BlockKinds,
          tool : ToolIds \cup {NoTool}, name : ToolIds \cup {NoTool},
          reason : {"", "tool_use", "end_turn"}]

Ev(type, index, kind, tool, name, reason) ==
  [type |-> type, index |-> index, kind |-> kind, tool |-> tool, name |-> name,
   reason |-> reason]

Ping == Ev("ping", -1, "", NoTool, NoTool, "")

\* May the client, having accumulated block b, be sent event e next?
Legal(b, e) ==
  \/ e.type = "ping"
  \/ /\ e.type = "content_block_start"
     /\ ~b.open
     /\ e.index = b.index + 1
     /\ e.kind # ""
  \/ /\ e.type = "content_block_delta"
     /\ b.open
     /\ e.index = b.index /\ e.kind = b.kind /\ e.tool = b.tool
  \/ e.type = "content_block_stop" /\ b.open /\ e.index = b.index
  \/ e.type = "message_delta" /\ ~b.open

\* The client's block once it has received e.
Receive(b, e) ==
  IF e.type = "content_block_start"
  THEN [open |-> TRUE, index |-> e.index, kind |-> e.kind, tool |-> e.tool]
  ELSE IF e.type = "content_block_stop"
  THEN [open |-> FALSE, index |-> e.index, kind |-> "", tool |-> NoTool]
  ELSE b

\* The ping that follows message_start is the first event of every message.
SSEInit == event = Ping /\ block = NoBlock /\ stopped = FALSE /\ status = "streaming"

\* One event reaches the client.
SendEvent ==
  /\ status = "streaming"
  /\ event' \in Event
  /\ Legal(block, event')
  /\ block' = Receive(block, event')
  /\ stopped' = (stopped \/ event'.type = "message_delta")
  /\ UNCHANGED status

\* The message ends: complete only between blocks and after a message_delta.
Complete ==
  /\ status = "streaming"
  /\ ~block.open
  /\ block.index >= 0 => stopped
  /\ status' = "complete"
  /\ UNCHANGED <<event, block, stopped>>

\* The connection to the client breaks, at any point of the message.
Break ==
  /\ status = "streaming"
  /\ status' = "broken"
  /\ UNCHANGED <<event, block, stopped>>

SSENext == SendEvent \/ Complete \/ Break

SSESpec == SSEInit /\ [][SSENext]_sseVars
=============================================================================
