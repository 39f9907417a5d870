---------------------------- MODULE EventStream ----------------------------
(***************************************************************************)
(* internal/protocol/sse_parser.go: ParseEventStream reads the binary      *)
(* frames of one CodeWhisperer response and emits Anthropic SSE events.    *)
(*                                                                         *)
(* A frame is handled in two parts, as in the code: appendAssistantEvent   *)
(* updates the parser's state and builds a batch of events, then the batch *)
(* is emitted one event at a time, and any emit may fail and end the       *)
(* parse.  The reader ends at EOF, at a truncated frame or at a negative   *)
(* payload length, which the code does not tell apart.                     *)
(*                                                                         *)
(* A frame is reduced to what the parser looks at: whether it has content, *)
(* its tool call and the name given with it, whether it has input, the     *)
(* stop flag and whether it has a contextUsagePercentage.                  *)
(***************************************************************************)
EXTENDS Integers, SequencesExt

CONSTANTS ToolIds,   \* identifiers of tool calls; a tool's name is its identifier
          NoTool,    \* the empty identifier (and the empty name)
          Frames,    \* the frames the upstream may send
          MaxFrames  \* bound on the length of one response

VARIABLES phase,            \* "reading", "closing", "done" or "failed"
          state,            \* parserState
          hadMessageDelta,  \* the local of ParseEventStream
          pending,          \* the part of the batch not emitted yet
          frames,           \* number of frames read
          consumed,         \* history: the fragments read, in order
          event,            \* the event the client received last
          block,            \* the client's newest content block
          stopped,          \* the client received a message_delta
          delivered,        \* history: the fragments the client received
          blocks,           \* history: the blocks the client was told of
          unnamed           \* history: a fragment without a name opened a block

parser == <<phase, state, hadMessageDelta, pending, frames, consumed, unnamed>>
client == <<event, block, stopped, delivered, blocks>>
vars   == <<parser, client>>

Status == IF phase = "done" THEN "complete"
          ELSE IF phase = "failed" THEN "broken"
          ELSE "streaming"

SSE == INSTANCE SSEProtocol WITH status <- Status

\* A fragment of a tool call gives the name of its tool or none.
Frame == {f \in [content : BOOLEAN, toolUseId : ToolIds \cup {NoTool},
                 name : ToolIds \cup {NoTool}, input : BOOLEAN, stop : BOOLEAN,
                 contextUsage : BOOLEAN] : f.name \in {f.toolUseId, NoTool}}

ASSUME FramesAssumption ==
  NoTool \notin ToolIds /\ Frames \subseteq Frame /\ MaxFrames \in Nat

ParserState == [currentBlockType : SSE!BlockKinds,
                currentBlockIndex : Nat \cup {-1},
                currentToolUseID : ToolIds \cup {NoTool},
                currentToolName : ToolIds \cup {NoTool},
                nextBlockIndex : Nat]

\* What a fragment of the message is: text, or input of one tool call.
Fragment == [kind : {"text", "tool_use"}, tool : ToolIds \cup {NoTool}]

-----------------------------------------------------------------------------
(* The functions that build a batch: b.st is the parser's state and b.out  *)
(* the events appended so far.                                             *)

Batch == [st : ParserState, out : Seq(SSE!Event)]

Parser(type, index, tool, name, next) ==
  [currentBlockType |-> type, currentBlockIndex |-> index, currentToolUseID |-> tool,
   currentToolName |-> name, nextBlockIndex |-> next]

BlockStart(st) ==
  SSE!Ev("content_block_start", st.currentBlockIndex, st.currentBlockType,
         st.currentToolUseID, st.currentToolName, "")

\* A delta goes to the block the parser holds to be open.
BlockDelta(st, kind, tool, name) ==
  SSE!Ev("content_block_delta", st.currentBlockIndex, kind, tool, name, "")

BlockStop(st) == SSE!Ev("content_block_stop", st.currentBlockIndex, "", NoTool, NoTool, "")

\* mutant: the stop reason of the frame is not used.
MessageDeltaAnyReason(reason) ==
  SSE!Ev("message_delta", -1, "", NoTool, NoTool, "tool_use")

MessageDelta(reason) == SSE!Ev("message_delta", -1, "", NoTool, NoTool, reason)

Emit(b, e) == [st |-> b.st, out |-> Append(b.out, e)]

NoBlockOpen(st) == st.currentBlockType = "" \/ st.currentBlockIndex < 0

CloseCurrentBlock(b) ==
  IF NoBlockOpen(b.st) THEN b
  ELSE [st |-> Parser("", -1, NoTool, NoTool, b.st.nextBlockIndex),
        out |-> Append(b.out, BlockStop(b.st))]

StartBlock(b, kind, tool, name) ==
  LET index == b.st.nextBlockIndex
      st    == Parser(kind, index, tool, name, index + 1)
  IN  [st |-> st, out |-> Append(b.out, BlockStart(st))]

StartTextBlock(b) == StartBlock(b, "text", NoTool, NoTool)

StartToolBlock(b, tool, name) == StartBlock(b, "tool_use", tool, name)

\* case evt.Content != "": a stop flag or a tool call in the same frame is ignored.
AppendText(b) ==
  LET opened == IF b.st.currentBlockType = "text" THEN b
                ELSE StartTextBlock(CloseCurrentBlock(b))
  IN  Emit(opened, BlockDelta(opened.st, "text", NoTool, NoTool))

\* mutant: a tool block that is open is taken for the one of any tool call.
ContinuesAnyTool(st, f) == st.currentBlockType = "tool_use"

\* mutant: the parser's name wins over the frame's.
ToolNameOfBlock(st, f) == IF st.currentToolName # NoTool THEN st.currentToolName ELSE f.name

\* The block that is open is the one of the frame's tool call.
Continues(st, f) ==
  st.currentBlockType = "tool_use" /\ st.currentToolUseID = f.toolUseId

\* An empty name is taken from the block that is open, whichever tool that is of.
ToolName(st, f) == IF f.name = NoTool THEN st.currentToolName ELSE f.name

\* case evt.ToolUseId != "".
AppendToolUse(b, f) ==
  LET name   == ToolName(b.st, f)
      opened == IF Continues(b.st, f) THEN b
                ELSE StartToolBlock(CloseCurrentBlock(b), f.toolUseId, name)
      fed    == IF f.input
                THEN Emit(opened, BlockDelta(opened.st, "tool_use", f.toolUseId, name))
                ELSE opened
  IN  IF f.stop THEN Emit(CloseCurrentBlock(fed), MessageDelta("tool_use")) ELSE fed

AppendAssistantEvent(st, f) ==
  LET b == [st |-> st, out |-> <<>>]
  IN  IF f.content THEN AppendText(b)
      ELSE IF f.toolUseId # NoTool THEN AppendToolUse(b, f)
      ELSE Emit(CloseCurrentBlock(b), MessageDelta("end_turn"))

\* mutant: a message_delta sent earlier is taken to mean that no block is open.
FinalizeOnlyWithoutDelta(st, had) ==
  LET b == [st |-> st, out |-> <<>>]
  IN  IF st.nextBlockIndex > 0 /\ ~had
      THEN Emit(CloseCurrentBlock(b), MessageDelta("end_turn"))
      ELSE b

\* The events after the loop: close what is open and make up a message_delta, but
\* only if some block was sent.
Finalize(st, had) ==
  LET b == [st |-> st, out |-> <<>>]
      closed == CloseCurrentBlock(b)
  IN  IF st.nextBlockIndex > 0 /\ (st.currentBlockType # "" \/ ~had)
      THEN IF had THEN closed ELSE Emit(closed, MessageDelta("end_turn"))
      ELSE b

-----------------------------------------------------------------------------

\* mutant: both counters start at -1.
InitNextAtMinusOne ==
  /\ phase = "reading"
  /\ state = Parser("", -1, NoTool, NoTool, -1)
  /\ hadMessageDelta = FALSE /\ pending = <<>> /\ frames = 0 /\ consumed = <<>>
  /\ event = SSE!Ping /\ block = SSE!NoBlock /\ stopped = FALSE
  /\ delivered = <<>> /\ blocks = <<>> /\ unnamed = FALSE

Init ==
  /\ phase = "reading"
  /\ state = Parser("", -1, NoTool, NoTool, 0)
  /\ hadMessageDelta = FALSE
  /\ pending = <<>>
  /\ frames = 0
  /\ consumed = <<>>
  /\ event = SSE!Ping
  /\ block = SSE!NoBlock
  /\ stopped = FALSE
  /\ delivered = <<>>
  /\ blocks = <<>>
  /\ unnamed = FALSE

\* The loop reads a frame when the batch of the frame before is emitted.
Read(f) ==
  /\ phase = "reading" /\ pending = <<>>
  /\ frames < MaxFrames
  /\ frames' = frames + 1
  /\ UNCHANGED <<phase, hadMessageDelta, client>>

IsAssistantEvent(f) == f.content \/ f.toolUseId # NoTool \/ f.stop

ReadAssistantEvent(f) ==
  /\ Read(f)
  /\ IsAssistantEvent(f)
  /\ LET b == AppendAssistantEvent(state, f)
     IN  state' = b.st /\ pending' = b.out
  /\ consumed' = IF f.content THEN Append(consumed, [kind |-> "text", tool |-> NoTool])
                 ELSE IF f.toolUseId # NoTool /\ f.input
                 THEN Append(consumed, [kind |-> "tool_use", tool |-> f.toolUseId])
                 ELSE consumed
  /\ unnamed' = (unnamed \/ (/\ ~f.content
                             /\ f.toolUseId # NoTool
                             /\ f.name = NoTool
                             /\ ~Continues(state, f)))

\* Context usage is passed on as a ping; metering and unknown frames are dropped.
ReadMetadata(f) ==
  /\ Read(f)
  /\ ~IsAssistantEvent(f)
  /\ pending' = IF f.contextUsage THEN <<SSE!Ping>> ELSE <<>>
  /\ UNCHANGED <<state, consumed, unnamed>>

\* EOF, a truncated frame or a negative payload length: the loop is left.
EndOfStream ==
  /\ phase = "reading" /\ pending = <<>>
  /\ phase' = "closing"
  /\ LET b == Finalize(state, hadMessageDelta)
     IN  state' = b.st /\ pending' = b.out
  /\ UNCHANGED <<hadMessageDelta, frames, consumed, unnamed, client>>

\* The next event of the batch reaches the client.  The final events are emitted
\* without emitOne, so they do not set hadMessageDelta.
EmitOne ==
  /\ phase \in {"reading", "closing"}
  /\ pending # <<>>
  /\ LET e == Head(pending)
     IN  /\ event' = e
         /\ block' = SSE!Receive(block, e)
         /\ stopped' = (stopped \/ e.type = "message_delta")
         /\ delivered' = IF e.type = "content_block_delta"
                         THEN Append(delivered, [kind |-> block.kind, tool |-> block.tool])
                         ELSE delivered
         /\ hadMessageDelta' =
              (hadMessageDelta \/ (phase = "reading" /\ e.type = "message_delta"))
         /\ blocks' = IF e.type = "content_block_start"
                      THEN Append(blocks, [kind |-> e.kind, tool |-> e.tool, name |-> e.name])
                      ELSE blocks
  /\ pending' = Tail(pending)
  /\ UNCHANGED <<phase, state, frames, consumed, unnamed>>

\* emit returns an error: the rest of the batch is dropped and the parse ends.
EmitFails ==
  /\ phase \in {"reading", "closing"}
  /\ pending # <<>>
  /\ phase' = "failed"
  /\ pending' = <<>>
  /\ UNCHANGED <<state, hadMessageDelta, frames, consumed, unnamed, client>>

Return ==
  /\ phase = "closing" /\ pending = <<>>
  /\ phase' = "done"
  /\ UNCHANGED <<state, hadMessageDelta, pending, frames, consumed, unnamed, client>>

ReadFrame == \E f \in Frames : ReadAssistantEvent(f) \/ ReadMetadata(f)

Next == ReadFrame \/ EndOfStream \/ EmitOne \/ EmitFails \/ Return

Spec == Init /\ [][Next]_vars

-----------------------------------------------------------------------------

TypeOK ==
  /\ phase \in {"reading", "closing", "done", "failed"}
  /\ state \in ParserState
  /\ hadMessageDelta \in BOOLEAN
  /\ pending \in Seq(SSE!Event)
  /\ frames \in 0..MaxFrames
  /\ consumed \in Seq(Fragment)
  /\ event \in SSE!Event
  /\ block \in SSE!Block
  /\ stopped \in BOOLEAN
  /\ delivered \in Seq([kind : SSE!BlockKinds, tool : ToolIds \cup {NoTool}])
  /\ blocks \in Seq([kind : SSE!BlockKinds, tool : ToolIds \cup {NoTool},
                     name : ToolIds \cup {NoTool}])
  /\ unnamed \in BOOLEAN

\* Whatever frames the upstream sends, in whatever order, and wherever it is cut
\* off, the events ParseEventStream emits are a stream a client can follow, and a
\* parse that returns nil leaves no block open and no block without a message_delta.
WellFormedStream == SSE!SSESpec

\* Every text and every piece of tool input reaches the client once, in the order
\* the upstream sent it, and under a block of its own kind and its own tool call;
\* only a failed emit loses the end.
InOrder ==
  /\ IsPrefix(delivered, consumed)
  /\ pending = <<>> /\ phase # "failed" => delivered = consumed

\* The client is told to run tools only straight after a tool_use block.
ToolUseAfterTool ==
  [][event'.type = "message_delta" /\ event'.reason = "tool_use" =>
       /\ event.type = "content_block_stop"
       /\ Last(blocks).kind = "tool_use"]_event

\* As long as every fragment that opens a block names its tool, no tool call is
\* announced under the name of another one, although nameless fragments take
\* their name from the parser's state.
BlocksNamed ==
  ~unnamed => \A i \in DOMAIN blocks : blocks[i].name = blocks[i].tool
=============================================================================
