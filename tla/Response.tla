------------------------------ MODULE Response ------------------------------
(***************************************************************************)
(* internal/proxy/response.go: the reply to a request that does not        *)
(* stream.  HandleNonStreamRequest collects the events of ParseEventStream *)
(* (ParseEvents) and AssembleAnthropicResponse makes one message of them;  *)
(* HandleStreamRequest passes the events on.  This module puts either of   *)
(* the two behind the parser of EventStream.                               *)
(*                                                                         *)
(* The text of a block, and the raw input of a tool call, are reduced to   *)
(* the number of pieces they were put together from.  The loops over       *)
(* events are recursive functions, which the proofs can follow and the     *)
(* folds over an operator are not.                                         *)
(***************************************************************************)
EXTENDS EventStream

VARIABLES consumer,  \* who reads the events: "stream" or "single"
          events,    \* the events ParseEvents has collected, without the pings
          response,  \* the message that was assembled, or NoResponse
          parsable,  \* history: the blocks, by their index, whose raw input is JSON
          lastReason \* history: the stop reason the client was told last

allVars == <<vars, consumer, events, response, parsable, lastReason>>

-----------------------------------------------------------------------------
(* AssembleAnthropicResponse.                                              *)

ResponseBlock == [kind : SSE!BlockKinds, tool : ToolIds \cup {NoTool},
                  name : ToolIds \cup {NoTool}, pieces : Nat, input : {"empty", "given"}]

NoResponse == [blocks |-> <<>>, reason |-> "", outputTokens |-> 0]

NewBlock(kind) ==
  [kind |-> kind, tool |-> NoTool, name |-> NoTool, pieces |-> 0, input |-> "empty"]

\* ensureBlock: the blocks by index, with one for e.
EnsureBlock(acc, e) ==
  IF e.index \in DOMAIN acc THEN acc
  ELSE [i \in DOMAIN acc \cup {e.index} |-> IF i = e.index THEN NewBlock(e.kind) ELSE acc[i]]

\* What the start of a tool call tells of its block.
Opened(b, e) ==
  IF e.kind = "tool_use" THEN [b EXCEPT !.tool = e.tool, !.name = e.name] ELSE b

OpenBlock(acc, e) == [EnsureBlock(acc, e) EXCEPT ![e.index] = Opened(@, e)]

\* A delta adds a piece, and fills in what the block's start did not tell.
Fed(b, e) ==
  [kind   |-> b.kind,
   tool   |-> IF b.tool = NoTool THEN e.tool ELSE b.tool,
   name   |-> IF b.name = NoTool THEN e.name ELSE b.name,
   pieces |-> b.pieces + 1,
   input  |-> b.input]

\* mutant: a piece replaces what the block holds.
AddPieceReplaces(acc, e) ==
  [EnsureBlock(acc, e) EXCEPT ![e.index] = [Fed(@, e) EXCEPT !.pieces = 1]]

AddPiece(acc, e) == [EnsureBlock(acc, e) EXCEPT ![e.index] = Fed(@, e)]

Accumulate(acc, e) ==
  CASE e.type = "content_block_start" -> OpenBlock(acc, e)
    [] e.type = "content_block_delta" -> AddPiece(acc, e)
    [] OTHER -> acc

BlockMap(evs) ==
  LET map[n \in 0..Len(evs)] == IF n = 0 THEN <<>> ELSE Accumulate(map[n - 1], evs[n])
  IN  map[Len(evs)]

\* The events of a type, by their places.
OfType(evs, type) == {i \in DOMAIN evs : evs[i].type = type}

\* The last one given; without any, what the blocks look like.
StopReason(evs, blks) ==
  LET given == OfType(evs, "message_delta")
  IN  IF given # {} THEN evs[Max(given)].reason
      ELSE IF blks # <<>> /\ Last(blks).kind = "tool_use" THEN "tool_use"
      ELSE "end_turn"

\* sort.Ints.
Ordered(K) ==
  [n \in 1..Cardinality(K) |-> CHOOSE i \in K : Cardinality({j \in K : j < i}) = n - 1]

\* The raw input of the tool calls in parsed is a JSON object; any other tool call, one
\* that was cut off too, gets the input {}.
AssembleAnthropicResponse(evs, parsed) ==
  LET map   == BlockMap(evs)
      order == Ordered({i \in DOMAIN map : map[i].kind # ""})
      blks  == [n \in DOMAIN order |->
                  [map[order[n]] EXCEPT !.input = IF order[n] \in parsed THEN "given" ELSE "empty"]]
  IN  [blocks |-> blks, reason |-> StopReason(evs, blks),
       outputTokens |-> Cardinality(OfType(evs, "content_block_delta"))]

\* The tool calls with an input that may or may not be JSON: the upstream may have
\* been cut off.
Inputs(evs) ==
  LET map == BlockMap(evs)
  IN  {i \in DOMAIN map : map[i].kind = "tool_use" /\ map[i].pieces > 0}

-----------------------------------------------------------------------------
(* BuildAnthropicStreamEvents: a message as a stream, all of it at once.   *)

BlockEvents(index, b) ==
  LET start == SSE!Ev("content_block_start", index, b.kind, b.tool,
                      IF b.kind = "tool_use" THEN b.name ELSE NoTool, "")
      delta == SSE!Ev("content_block_delta", index, b.kind, b.tool, b.name, "")
      stop  == SSE!Ev("content_block_stop", index, "", NoTool, NoTool, "")
  IN  IF b.kind = "text" \/ b.input = "given" THEN <<start, delta, stop>> ELSE <<start, stop>>

\* mutant: blocks are counted from 1.
BuildStreamEventsFromOne(r) ==
  FlattenSeq([n \in DOMAIN r.blocks |-> BlockEvents(n, r.blocks[n])])
    \o <<MessageDelta(r.reason)>>

BuildAnthropicStreamEvents(r) ==
  FlattenSeq([n \in DOMAIN r.blocks |-> BlockEvents(n - 1, r.blocks[n])])
    \o <<MessageDelta(r.reason)>>

-----------------------------------------------------------------------------

ResponseInit ==
  /\ Init
  /\ consumer \in {"stream", "single"}
  /\ events = <<>>
  /\ response = NoResponse
  /\ parsable = {} /\ lastReason = ""

\* Each event is handed to the callback, which collects it if it is ParseEvents'.
Collect ==
  /\ EmitOne
  /\ events' = IF consumer = "single" /\ event'.type # "ping" THEN Append(events, event')
               ELSE events
  /\ lastReason' = IF event'.type = "message_delta" THEN event'.reason ELSE lastReason
  /\ UNCHANGED <<consumer, response, parsable>>

\* ParseEvents' callback never fails.
Parse ==
  /\ ReadFrame \/ EndOfStream \/ Return \/ (consumer = "stream" /\ EmitFails)
  /\ UNCHANGED <<consumer, events, response, parsable, lastReason>>

Assemble ==
  /\ consumer = "single" /\ phase = "done" /\ response = NoResponse
  /\ parsable' \in SUBSET Inputs(events)
  /\ response' = AssembleAnthropicResponse(events, parsable')
  /\ UNCHANGED <<vars, consumer, events, lastReason>>

ResponseNext == Collect \/ Parse \/ Assemble

ResponseSpec == ResponseInit /\ [][ResponseNext]_allVars

-----------------------------------------------------------------------------

Pieces(b) == [i \in 1..b.pieces |-> [kind |-> b.kind, tool |-> b.tool]]

\* The assembled message has what a streaming client was told of the same response of
\* the upstream: the same blocks in the same order, of the same pieces, none of them
\* counted twice, and the stop reason it was told last; told of none, it says what the
\* last block is.  A tool call has the input its pieces make up if that is JSON; a call
\* whose pieces are not, because it was cut off, or that has none, has the input {},
\* where the streaming client is left with what it was sent.  The output tokens are the
\* pieces, of which a stream says 0.
SameMessage ==
  response # NoResponse =>
    /\ FlattenSeq([n \in DOMAIN response.blocks |-> Pieces(response.blocks[n])]) = consumed
    /\ Len(response.blocks) = Len(blocks)
    /\ \A n \in DOMAIN blocks :
         /\ response.blocks[n].kind = blocks[n].kind /\ response.blocks[n].tool = blocks[n].tool
         /\ response.blocks[n].name \in {blocks[n].name} \cup (IF unnamed THEN ToolIds ELSE {})
         /\ response.blocks[n].input = IF n - 1 \in parsable THEN "given" ELSE "empty"
    /\ response.reason = IF stopped THEN lastReason
                         ELSE IF blocks # <<>> /\ Last(blocks).kind = "tool_use" THEN "tool_use"
                         ELSE "end_turn"
    /\ response.outputTokens = Len(consumed)

\* What becomes of a client that is sent evs: whether it could follow, and its block.
Hear(c, e) == [ok |-> c.ok /\ SSE!Legal(c.block, e), block |-> SSE!Receive(c.block, e)]

Followed(evs) ==
  LET heard[n \in 0..Len(evs)] ==
        IF n = 0 THEN [ok |-> TRUE, block |-> SSE!NoBlock] ELSE Hear(heard[n - 1], evs[n])
  IN  heard[Len(evs)]

\* A message that is made into a stream again is one a client can follow, and puts
\* together to the same blocks and the same stop reason.
StreamedAgain ==
  response # NoResponse =>
    LET evs   == BuildAnthropicStreamEvents(response)
        again == AssembleAnthropicResponse(evs, {})
    IN  /\ Followed(evs).ok /\ ~Followed(evs).block.open
        /\ again.reason = response.reason
        /\ [n \in DOMAIN again.blocks |-> <<again.blocks[n].kind, again.blocks[n].tool,
                                            again.blocks[n].name>>] =
           [n \in DOMAIN response.blocks |-> <<response.blocks[n].kind, response.blocks[n].tool,
                                               response.blocks[n].name>>]
=============================================================================
