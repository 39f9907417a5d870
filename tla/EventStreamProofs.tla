------------------------- MODULE EventStreamProofs -------------------------
(***************************************************************************)
(* EventStream implements SSEProtocol, for any number of tool calls and    *)
(* responses of any length.  The argument: what is left of the current     *)
(* batch is at every moment a legal continuation of what the client has    *)
(* received, and it leads to the block the parser holds to be open.        *)
(*                                                                         *)
(* The second half is about Response: what ParseEvents has collected       *)
(* builds, at every moment, the blocks and the pieces a streaming client   *)
(* of the same response was told, so the message put together in the end   *)
(* is the same one, and it survives being made into a stream again.        *)
(***************************************************************************)
EXTENDS Response, SequenceTheorems, FiniteSetTheorems, WellFoundedInduction, TLAPS

\* The client's block after a block event it was allowed to receive, read off the
\* event alone.
AfterEvent(e) ==
  IF e.type = "content_block_stop"
  THEN [open |-> FALSE, index |-> e.index, kind |-> "", tool |-> NoTool]
  ELSE [open |-> TRUE, index |-> e.index, kind |-> e.kind, tool |-> e.tool]

IsBlockEvent(e) ==
  e.type \in {"content_block_start", "content_block_delta", "content_block_stop"}

\* The client's block just before the i-th event of q, starting from b.
Before(b, q, i) == IF i = 1 THEN b ELSE AfterEvent(q[i-1])

\* A client at b may be sent the events of q; only the last may be no block event.
LegalRun(b, q) ==
  \A i \in 1..Len(q) : /\ Before(b, q, i) \in SSE!Block
                       /\ SSE!Legal(Before(b, q, i), q[i])
                       /\ i < Len(q) => IsBlockEvent(q[i])

\* The client's block after all of q.
EndOf(b, q) == IF q = <<>> THEN b
               ELSE SSE!Receive(Before(b, q, Len(q)), q[Len(q)])

\* The parser and a client that received everything agree on the open block.
Agrees(st, b) ==
  /\ st.nextBlockIndex = b.index + 1
  /\ st.currentBlockType = b.kind
  /\ st.currentToolUseID = b.tool
  /\ b.open <=> b.kind # ""
  /\ ~b.open => b.tool = NoTool
  /\ b.kind = "text" => b.tool = NoTool
  /\ st.currentBlockIndex = IF b.open THEN b.index ELSE -1
  /\ b.open => b.index >= 0

\* A batch under construction, that events may still be added to.
GoodBatch(b, p) ==
  /\ p \in Batch
  /\ \A i \in 1..Len(p.out) : IsBlockEvent(p.out[i])
  /\ LegalRun(b, p.out)
  /\ Agrees(p.st, EndOf(b, p.out))

-----------------------------------------------------------------------------
(* Runs of events.                                                         *)

LEMMA BlockFields ==
  ASSUME NEW b \in SSE!Block
  PROVE  /\ b.open \in BOOLEAN /\ b.index \in Int /\ b.index + 1 \in Nat
         /\ b.kind \in SSE!BlockKinds /\ b.tool \in ToolIds \cup {NoTool}
         /\ b = [open |-> b.open, index |-> b.index, kind |-> b.kind, tool |-> b.tool]
<1>1. b.index \in Nat \cup {-1}
  BY DEF SSE!Block
<1>. QED  BY <1>1 DEF SSE!Block

LEMMA EventFields ==
  ASSUME NEW e \in SSE!Event
  PROVE  /\ e.type \in SSE!EventTypes /\ e.index \in Int
         /\ e.kind \in SSE!BlockKinds /\ e.tool \in ToolIds \cup {NoTool}
  BY DEF SSE!Event

LEMMA ReceiveType ==
  ASSUME NEW b \in SSE!Block, NEW e \in SSE!Event, SSE!Legal(b, e)
  PROVE  SSE!Receive(b, e) \in SSE!Block
<1>. USE BlockFields, EventFields
<1>1. CASE e.type = "content_block_start"
  <2>1. e.index \in Nat
    BY <1>1 DEF SSE!Legal
  <2>. QED  BY <1>1, <2>1 DEF SSE!Receive, SSE!Block
<1>2. CASE e.type = "content_block_stop"
  <2>1. e.index \in Nat \cup {-1}
    BY <1>2 DEF SSE!Legal
  <2>. QED  BY <1>2, <2>1 DEF SSE!Receive, SSE!Block, SSE!BlockKinds
<1>3. CASE e.type \notin {"content_block_start", "content_block_stop"}
  BY <1>3 DEF SSE!Receive
<1>. QED  BY <1>1, <1>2, <1>3

LEMMA ReceiveIsAfter ==
  ASSUME NEW b \in SSE!Block, NEW e \in SSE!Event, SSE!Legal(b, e), IsBlockEvent(e)
  PROVE  SSE!Receive(b, e) = AfterEvent(e)
<1>1. CASE e.type = "content_block_delta"
  BY <1>1, BlockFields DEF SSE!Receive, SSE!Legal, AfterEvent
<1>2. CASE e.type \in {"content_block_start", "content_block_stop"}
  BY <1>2 DEF SSE!Receive, AfterEvent
<1>. QED  BY <1>1, <1>2 DEF IsBlockEvent

LEMMA EndOfType ==
  ASSUME NEW b \in SSE!Block, NEW q \in Seq(SSE!Event), LegalRun(b, q)
  PROVE  EndOf(b, q) \in SSE!Block
<1>1. CASE q = <<>>
  BY <1>1 DEF EndOf
<1>2. CASE q # <<>>
  <2>1. Len(q) \in 1..Len(q) /\ q[Len(q)] \in SSE!Event
    BY <1>2
  <2>. QED  BY <1>2, <2>1, ReceiveType DEF EndOf, LegalRun
<1>. QED  BY <1>1, <1>2

\* After a run of block events the client is at the end of it.
LEMMA BeforeEnd ==
  ASSUME NEW b \in SSE!Block, NEW q \in Seq(SSE!Event), NEW r \in Seq(SSE!Event),
         LegalRun(b, q), \A i \in 1..Len(q) : IsBlockEvent(q[i]) /\ r[i] = q[i]
  PROVE  Before(b, r, Len(q) + 1) = EndOf(b, q)
<1>. DEFINE n == Len(q)
<1>1. n \in Nat
  OBVIOUS
<1>2. CASE q = <<>>
  BY <1>2 DEF Before, EndOf
<1>3. CASE q # <<>>
  <2>1. n \in 1..n /\ q[n] \in SSE!Event /\ n + 1 # 1 /\ (n + 1) - 1 = n /\ r[n] = q[n]
    BY <1>1, <1>3
  <2>2. Before(b, r, n + 1) = AfterEvent(q[n])
    BY <2>1 DEF Before
  <2>3. SSE!Receive(Before(b, q, n), q[n]) = AfterEvent(q[n])
    BY <2>1, ReceiveIsAfter DEF LegalRun
  <2>. QED  BY <1>3, <2>2, <2>3 DEF EndOf
<1>. QED  BY <1>2, <1>3

\* A legal event may be added to a run of block events.
LEMMA ExtendRun ==
  ASSUME NEW b \in SSE!Block, NEW q \in Seq(SSE!Event), NEW e \in SSE!Event,
         LegalRun(b, q), \A i \in 1..Len(q) : IsBlockEvent(q[i]),
         SSE!Legal(EndOf(b, q), e)
  PROVE  /\ Append(q, e) \in Seq(SSE!Event)
         /\ LegalRun(b, Append(q, e))
         /\ EndOf(b, Append(q, e)) = SSE!Receive(EndOf(b, q), e)
<1>. DEFINE r == Append(q, e)
            n == Len(q)
<1>1. /\ r \in Seq(SSE!Event) /\ Len(r) = n + 1 /\ n \in Nat
      /\ \A i \in 1..n : r[i] = q[i]
      /\ r[n + 1] = e
      /\ r # <<>>
  BY AppendProperties
<1>2. \A i \in 1..n : Before(b, r, i) = Before(b, q, i)
  BY <1>1 DEF Before
<1>3. Before(b, r, n + 1) = EndOf(b, q)
  BY <1>1, BeforeEnd
<1>4. LegalRun(b, r)
  <2>. SUFFICES ASSUME NEW i \in 1..Len(r)
                PROVE  /\ Before(b, r, i) \in SSE!Block
                       /\ SSE!Legal(Before(b, r, i), r[i])
                       /\ i < Len(r) => IsBlockEvent(r[i])
    BY DEF LegalRun
  <2>1. CASE i \in 1..n
    BY <2>1, <1>1, <1>2 DEF LegalRun
  <2>2. CASE i = n + 1
    BY <2>2, <1>1, <1>3, EndOfType
  <2>. QED  BY <2>1, <2>2, <1>1
<1>5. EndOf(b, r) = SSE!Receive(EndOf(b, q), e)
  BY <1>1, <1>3 DEF EndOf
<1>. QED  BY <1>1, <1>4, <1>5

\* Once its first event is received, the rest of a run is a run.
LEMMA ConsumeRun ==
  ASSUME NEW b \in SSE!Block, NEW q \in Seq(SSE!Event), q # <<>>, LegalRun(b, q)
  PROVE  /\ SSE!Legal(b, Head(q))
         /\ LegalRun(SSE!Receive(b, Head(q)), Tail(q))
         /\ EndOf(SSE!Receive(b, Head(q)), Tail(q)) = EndOf(b, q)
<1>. DEFINE t == Tail(q)
            c == SSE!Receive(b, Head(q))
<1>1. /\ t \in Seq(SSE!Event) /\ Len(q) \in Nat /\ Len(q) >= 1 /\ Len(t) = Len(q) - 1
      /\ \A i \in 1..Len(t) : t[i] = q[i + 1]
      /\ Head(q) = q[1] /\ q[1] \in SSE!Event
  BY HeadTailProperties
<1>2. Before(b, q, 1) = b /\ SSE!Legal(b, q[1])
  BY <1>1 DEF Before, LegalRun
<1>3. \A i \in 1..Len(t) : Before(c, t, i) = Before(b, q, i + 1)
  <2>. SUFFICES ASSUME NEW i \in 1..Len(t)
                PROVE  Before(c, t, i) = Before(b, q, i + 1)
    OBVIOUS
  <2>1. CASE i = 1
    <3>1. IsBlockEvent(q[1])
      BY <1>1, <2>1 DEF LegalRun
    <3>2. c = AfterEvent(q[1])
      BY <3>1, <1>1, <1>2, ReceiveIsAfter
    <3>. QED  BY <2>1, <3>2 DEF Before
  <2>2. CASE i # 1
    <3>1. i - 1 \in 1..Len(t) /\ i + 1 # 1 /\ (i - 1) + 1 = i /\ (i + 1) - 1 = i
      BY <2>2, <1>1
    <3>2. t[i - 1] = q[i]
      BY <3>1, <1>1
    <3>. QED  BY <2>2, <3>1, <3>2 DEF Before
  <2>. QED  BY <2>1, <2>2
<1>4. LegalRun(c, t)
  <2>. SUFFICES ASSUME NEW i \in 1..Len(t)
                PROVE  /\ Before(c, t, i) \in SSE!Block
                       /\ SSE!Legal(Before(c, t, i), t[i])
                       /\ i < Len(t) => IsBlockEvent(t[i])
    BY DEF LegalRun
  <2>1. i + 1 \in 1..Len(q) /\ t[i] = q[i + 1] /\ (i < Len(t) => i + 1 < Len(q))
    BY <1>1
  <2>. QED  BY <2>1, <1>3 DEF LegalRun
<1>5. EndOf(c, t) = EndOf(b, q)
  <2>1. CASE t = <<>>
    <3>1. Len(t) = 0
      BY <2>1, EmptySeq
    <3>2. Len(q) = 1
      BY <3>1, <1>1
    <3>. QED  BY <3>2, <2>1, <1>1, <1>2 DEF EndOf
  <2>2. CASE t # <<>>
    <3>1. Len(t) \in 1..Len(t) /\ Len(t) + 1 = Len(q)
      BY <2>2, <1>1
    <3>2. t[Len(t)] = q[Len(q)] /\ Before(c, t, Len(t)) = Before(b, q, Len(q))
      BY <3>1, <1>1, <1>3
    <3>. QED  BY <2>2, <3>2 DEF EndOf
  <2>. QED  BY <2>1, <2>2
<1>. QED  BY <1>1, <1>2, <1>4, <1>5

-----------------------------------------------------------------------------
(* The functions that build a batch keep it good.                          *)

LEMMA EmitGood ==
  ASSUME NEW b \in SSE!Block, NEW p, GoodBatch(b, p), NEW e \in SSE!Event,
         SSE!Legal(EndOf(b, p.out), e), IsBlockEvent(e), NEW st \in ParserState,
         Agrees(st, SSE!Receive(EndOf(b, p.out), e))
  PROVE  GoodBatch(b, [st |-> st, out |-> Append(p.out, e)])
<1>1. p.out \in Seq(SSE!Event)
  BY DEF GoodBatch, Batch
<1>2. /\ Append(p.out, e) \in Seq(SSE!Event)
      /\ LegalRun(b, Append(p.out, e))
      /\ EndOf(b, Append(p.out, e)) = SSE!Receive(EndOf(b, p.out), e)
  BY <1>1, ExtendRun DEF GoodBatch
<1>3. \A i \in 1..Len(Append(p.out, e)) : IsBlockEvent(Append(p.out, e)[i])
  BY <1>1, AppendProperties DEF GoodBatch
<1>. QED  BY <1>2, <1>3 DEF GoodBatch, Batch

LEMMA ParserFields ==
  ASSUME NEW st \in ParserState
  PROVE  /\ st.currentBlockType \in SSE!BlockKinds /\ st.currentBlockIndex \in Int
         /\ st.currentToolUseID \in ToolIds \cup {NoTool}
         /\ st.currentToolName \in ToolIds \cup {NoTool} /\ st.nextBlockIndex \in Nat
<1>1. st.currentBlockIndex \in Nat \cup {-1}
  BY DEF ParserState
<1>. QED  BY <1>1 DEF ParserState

LEMMA StopEvent ==
  ASSUME NEW st \in ParserState
  PROVE  /\ BlockStop(st) \in SSE!Event /\ IsBlockEvent(BlockStop(st))
         /\ BlockStop(st).type = "content_block_stop"
         /\ BlockStop(st).index = st.currentBlockIndex
  BY ParserFields DEF BlockStop, SSE!Ev, SSE!Event, SSE!EventTypes, SSE!BlockKinds,
                      IsBlockEvent

LEMMA StartEvent ==
  ASSUME NEW st \in ParserState
  PROVE  /\ BlockStart(st) \in SSE!Event /\ IsBlockEvent(BlockStart(st))
         /\ BlockStart(st).type = "content_block_start"
         /\ BlockStart(st).index = st.currentBlockIndex
         /\ BlockStart(st).kind = st.currentBlockType
         /\ BlockStart(st).tool = st.currentToolUseID
  BY ParserFields DEF BlockStart, SSE!Ev, SSE!Event, SSE!EventTypes, IsBlockEvent

LEMMA DeltaEvent ==
  ASSUME NEW st \in ParserState, NEW kind \in SSE!BlockKinds,
         NEW tool \in ToolIds \cup {NoTool}, NEW name \in ToolIds \cup {NoTool}
  PROVE  LET e == BlockDelta(st, kind, tool, name)
         IN  /\ e \in SSE!Event /\ IsBlockEvent(e)
             /\ e.type = "content_block_delta" /\ e.index = st.currentBlockIndex
             /\ e.kind = kind /\ e.tool = tool
  BY ParserFields DEF BlockDelta, SSE!Ev, SSE!Event, SSE!EventTypes, IsBlockEvent

LEMMA AgreesNoBlock ==
  ASSUME NEW st \in ParserState, NEW x \in SSE!Block, Agrees(st, x)
  PROVE  NoBlockOpen(st) <=> ~x.open
<1>1. CASE x.open
  <2>1. st.currentBlockType # ""
    BY <1>1 DEF Agrees
  <2>2. st.currentBlockIndex = x.index /\ x.index >= 0
    BY <1>1 DEF Agrees
  <2>3. x.index \in Int
    BY BlockFields
  <2>4. ~(st.currentBlockIndex < 0)
    BY <2>2, <2>3
  <2>. QED  BY <1>1, <2>1, <2>4 DEF NoBlockOpen
<1>2. CASE ~x.open
  BY <1>2 DEF NoBlockOpen, Agrees
<1>. QED  BY <1>1, <1>2

LEMMA AgreesClosed ==
  ASSUME NEW i \in Int, i + 1 \in Nat
  PROVE  /\ Parser("", -1, NoTool, NoTool, i + 1) \in ParserState
         /\ Agrees(Parser("", -1, NoTool, NoTool, i + 1),
                   [open |-> FALSE, index |-> i, kind |-> "", tool |-> NoTool])
  BY DEF Parser, ParserState, SSE!BlockKinds, Agrees

LEMMA AgreesOpened ==
  ASSUME NEW i \in Nat, NEW kind \in {"text", "tool_use"},
         NEW tool \in ToolIds \cup {NoTool}, NEW name \in ToolIds \cup {NoTool},
         kind = "text" => tool = NoTool
  PROVE  /\ Parser(kind, i, tool, name, i + 1) \in ParserState
         /\ Agrees(Parser(kind, i, tool, name, i + 1),
                   [open |-> TRUE, index |-> i, kind |-> kind, tool |-> tool])
<1>1. kind \in SSE!BlockKinds
  BY DEF SSE!BlockKinds
<1>2. Parser(kind, i, tool, name, i + 1) \in ParserState
  BY <1>1 DEF Parser, ParserState
<1>3. kind # ""
  OBVIOUS
<1>4. i >= 0
  OBVIOUS
<1>5. Agrees(Parser(kind, i, tool, name, i + 1),
             [open |-> TRUE, index |-> i, kind |-> kind, tool |-> tool])
  BY <1>3, <1>4 DEF Parser, Agrees
<1>. QED  BY <1>2, <1>5

LEMMA CloseGood ==
  ASSUME NEW b \in SSE!Block, NEW p, GoodBatch(b, p)
  PROVE  /\ GoodBatch(b, CloseCurrentBlock(p))
         /\ ~EndOf(b, CloseCurrentBlock(p).out).open
         /\ CloseCurrentBlock(p).st.currentBlockType = ""
         /\ CloseCurrentBlock(p).st.nextBlockIndex = p.st.nextBlockIndex
<1>. DEFINE x  == EndOf(b, p.out)
            e  == BlockStop(p.st)
            st == Parser("", -1, NoTool, NoTool, p.st.nextBlockIndex)
            c  == [open |-> FALSE, index |-> x.index, kind |-> "", tool |-> NoTool]
<1>1. x \in SSE!Block /\ p.st \in ParserState /\ p.out \in Seq(SSE!Event) /\ Agrees(p.st, x)
  BY EndOfType DEF GoodBatch, Batch
<1>2. NoBlockOpen(p.st) <=> ~x.open
  BY <1>1, AgreesNoBlock
<1>3. CASE ~x.open
  <2>1. CloseCurrentBlock(p) = p
    BY <1>2, <1>3 DEF CloseCurrentBlock
  <2>2. p.st.currentBlockType = ""
    BY <1>1, <1>3 DEF Agrees
  <2>. QED  BY <1>3, <2>1, <2>2
<1>4. CASE x.open
  <2>1. /\ CloseCurrentBlock(p) = [st |-> st, out |-> Append(p.out, e)]
        /\ CloseCurrentBlock(p).out = Append(p.out, e)
        /\ CloseCurrentBlock(p).st = st
    BY <1>2, <1>4 DEF CloseCurrentBlock
  <2>2. st.currentBlockType = "" /\ st.nextBlockIndex = p.st.nextBlockIndex
    BY DEF Parser
  <2>3. SSE!Legal(x, e)
    BY <1>1, <1>4, StopEvent DEF SSE!Legal, Agrees
  <2>4. SSE!Receive(x, e) = c
    BY <1>1, <1>4, StopEvent DEF SSE!Receive, Agrees
  <2>5. p.st.nextBlockIndex = x.index + 1
    BY <1>1 DEF Agrees
  <2>6. st \in ParserState /\ Agrees(st, SSE!Receive(x, e))
    BY <1>1, <2>4, <2>5, BlockFields, AgreesClosed
  <2>7. GoodBatch(b, [st |-> st, out |-> Append(p.out, e)])
    BY <1>1, <2>3, <2>6, StopEvent, EmitGood
  <2>8. EndOf(b, Append(p.out, e)) = c
    BY <1>1, <2>3, <2>4, StopEvent, ExtendRun DEF GoodBatch
  <2>9. ~EndOf(b, CloseCurrentBlock(p).out).open
    <3>1. ~c.open
      OBVIOUS
    <3>2. EndOf(b, CloseCurrentBlock(p).out) = c
      BY <2>1, <2>8
    <3>. HIDE DEF c
    <3>. QED  BY <3>1, <3>2
  <2>. QED  BY <2>1, <2>2, <2>7, <2>9
<1>. QED  BY <1>3, <1>4

LEMMA StartGood ==
  ASSUME NEW b \in SSE!Block, NEW p, GoodBatch(b, p), ~EndOf(b, p.out).open,
         NEW kind \in {"text", "tool_use"}, NEW tool \in ToolIds \cup {NoTool},
         NEW name \in ToolIds \cup {NoTool}, kind = "text" => tool = NoTool
  PROVE  /\ GoodBatch(b, StartBlock(p, kind, tool, name))
         /\ StartBlock(p, kind, tool, name).st.currentBlockType = kind
         /\ StartBlock(p, kind, tool, name).st.currentToolUseID = tool
<1>. DEFINE x  == EndOf(b, p.out)
            i  == p.st.nextBlockIndex
            st == Parser(kind, i, tool, name, i + 1)
            e  == BlockStart(st)
            c  == [open |-> TRUE, index |-> i, kind |-> kind, tool |-> tool]
<1>1. x \in SSE!Block /\ p.st \in ParserState /\ p.out \in Seq(SSE!Event) /\ Agrees(p.st, x)
  BY EndOfType DEF GoodBatch, Batch
<1>2. i \in Nat
  BY <1>1, ParserFields
<1>3. i = x.index + 1
  BY <1>1 DEF Agrees
<1>4. st \in ParserState /\ Agrees(st, c)
  BY <1>2, AgreesOpened
<1>5. /\ st.currentBlockType = kind /\ st.currentBlockIndex = i
      /\ st.currentToolUseID = tool
  BY DEF Parser
<1>6. kind # ""
  OBVIOUS
<1>7. /\ e \in SSE!Event /\ IsBlockEvent(e) /\ e.type = "content_block_start"
      /\ e.index = i /\ e.kind = kind /\ e.tool = tool
  BY <1>4, <1>5, StartEvent
<1>8. SSE!Legal(x, e)
  BY <1>3, <1>6, <1>7 DEF SSE!Legal
<1>9. SSE!Receive(x, e) = c
  BY <1>7 DEF SSE!Receive
<1>10. GoodBatch(b, [st |-> st, out |-> Append(p.out, e)])
  BY <1>4, <1>7, <1>8, <1>9, EmitGood
<1>11. StartBlock(p, kind, tool, name) = [st |-> st, out |-> Append(p.out, e)]
  BY DEF StartBlock
<1>. QED  BY <1>5, <1>10, <1>11

LEMMA FeedGood ==
  ASSUME NEW b \in SSE!Block, NEW p, GoodBatch(b, p),
         NEW kind \in {"text", "tool_use"}, NEW tool \in ToolIds \cup {NoTool},
         NEW name \in ToolIds \cup {NoTool},
         p.st.currentBlockType = kind, p.st.currentToolUseID = tool
  PROVE  GoodBatch(b, Emit(p, BlockDelta(p.st, kind, tool, name)))
<1>. DEFINE x == EndOf(b, p.out)
            e == BlockDelta(p.st, kind, tool, name)
<1>1. x \in SSE!Block /\ p.st \in ParserState /\ Agrees(p.st, x)
  BY EndOfType DEF GoodBatch, Batch
<1>2. kind \in SSE!BlockKinds
  BY DEF SSE!BlockKinds
<1>3. /\ e \in SSE!Event /\ IsBlockEvent(e) /\ e.type = "content_block_delta"
      /\ e.index = p.st.currentBlockIndex /\ e.kind = kind /\ e.tool = tool
  BY <1>1, <1>2, DeltaEvent
<1>4. kind # ""
  OBVIOUS
<1>5. x.open /\ x.kind = kind /\ x.tool = tool
  BY <1>1, <1>4 DEF Agrees
<1>6. x.index = p.st.currentBlockIndex
  BY <1>1, <1>5 DEF Agrees
<1>7. SSE!Legal(x, e)
  BY <1>3, <1>5, <1>6 DEF SSE!Legal
<1>8. SSE!Receive(x, e) = x
  BY <1>3 DEF SSE!Receive
<1>. QED  BY <1>1, <1>3, <1>7, <1>8, EmitGood DEF Emit

\* A batch that begins in a state that agrees with the client.
LEMMA EmptyGood ==
  ASSUME NEW b \in SSE!Block, NEW st \in ParserState, Agrees(st, b)
  PROVE  /\ GoodBatch(b, [st |-> st, out |-> <<>>])
         /\ EndOf(b, <<>>) = b
<1>1. <<>> \in Seq(SSE!Event) /\ Len(<<>>) = 0
  BY EmptySeq
<1>2. EndOf(b, <<>>) = b
  BY DEF EndOf
<1>3. LegalRun(b, <<>>)
  BY <1>1 DEF LegalRun
<1>. QED  BY <1>1, <1>2, <1>3 DEF GoodBatch, Batch

\* What the client may be left to receive while the parser is in state st.
Follows(b, st, q) ==
  /\ st \in ParserState
  /\ q \in Seq(SSE!Event)
  /\ LegalRun(b, q)
  /\ Agrees(st, EndOf(b, q))

LEMMA GoodFollows ==
  ASSUME NEW b \in SSE!Block, NEW p, GoodBatch(b, p)
  PROVE  Follows(b, p.st, p.out)
  BY DEF GoodBatch, Batch, Follows

\* A message_delta may end any good batch that leaves no block open.
LEMMA DeltaFollows ==
  ASSUME NEW b \in SSE!Block, NEW p, GoodBatch(b, p), ~EndOf(b, p.out).open,
         NEW reason \in {"tool_use", "end_turn"}
  PROVE  /\ Follows(b, Emit(p, MessageDelta(reason)).st, Emit(p, MessageDelta(reason)).out)
         /\ Emit(p, MessageDelta(reason)).st = p.st
         /\ Emit(p, MessageDelta(reason)).out # <<>>
         /\ Last(Emit(p, MessageDelta(reason)).out).type = "message_delta"
<1>. DEFINE e == MessageDelta(reason)
            r == Append(p.out, e)
<1>1. /\ p.st \in ParserState /\ p.out \in Seq(SSE!Event) /\ LegalRun(b, p.out)
      /\ Agrees(p.st, EndOf(b, p.out)) /\ \A i \in 1..Len(p.out) : IsBlockEvent(p.out[i])
  BY DEF GoodBatch, Batch
<1>2. e \in SSE!Event /\ e.type = "message_delta"
  <2>1. e.type = "message_delta"
    BY DEF MessageDelta, SSE!Ev
  <2>2. CASE reason = "tool_use"
    BY <2>2 DEF MessageDelta, SSE!Ev, SSE!Event, SSE!EventTypes, SSE!BlockKinds
  <2>3. CASE reason = "end_turn"
    BY <2>3 DEF MessageDelta, SSE!Ev, SSE!Event, SSE!EventTypes, SSE!BlockKinds
  <2>. QED  BY <2>1, <2>2, <2>3
<1>3. SSE!Legal(EndOf(b, p.out), e)
  BY <1>2 DEF SSE!Legal
<1>4. SSE!Receive(EndOf(b, p.out), e) = EndOf(b, p.out)
  BY <1>2 DEF SSE!Receive
<1>5. r \in Seq(SSE!Event) /\ LegalRun(b, r) /\ EndOf(b, r) = EndOf(b, p.out)
  BY <1>1, <1>2, <1>3, <1>4, ExtendRun
<1>6. r # <<>> /\ r[Len(r)] = e
  BY <1>1, <1>2, AppendProperties
<1>. QED  BY <1>1, <1>2, <1>5, <1>6 DEF Follows, Emit, Last

LEMMA TextGood ==
  ASSUME NEW b \in SSE!Block, NEW p, GoodBatch(b, p)
  PROVE  GoodBatch(b, AppendText(p))
<1>. DEFINE q == IF p.st.currentBlockType = "text" THEN p
                 ELSE StartTextBlock(CloseCurrentBlock(p))
<1>1. GoodBatch(b, q) /\ q.st.currentBlockType = "text"
  <2>1. CASE p.st.currentBlockType = "text"
    BY <2>1
  <2>2. CASE p.st.currentBlockType # "text"
    <3>1. /\ GoodBatch(b, CloseCurrentBlock(p))
          /\ ~EndOf(b, CloseCurrentBlock(p).out).open
      BY CloseGood
    <3>2. /\ GoodBatch(b, StartBlock(CloseCurrentBlock(p), "text", NoTool, NoTool))
          /\ StartBlock(CloseCurrentBlock(p), "text", NoTool, NoTool).st.currentBlockType = "text"
      BY <3>1, StartGood
    <3>. QED  BY <2>2, <3>2 DEF StartTextBlock
  <2>. QED  BY <2>1, <2>2
<1>2. q.st.currentToolUseID = NoTool
  BY <1>1 DEF GoodBatch, Agrees
<1>3. GoodBatch(b, Emit(q, BlockDelta(q.st, "text", NoTool, NoTool)))
  <2>. HIDE DEF q
  <2>. QED  BY <1>1, <1>2, FeedGood
<1>. QED  BY <1>3 DEF AppendText

\* A tool call feeds a batch that ends in the open block of a tool, and a stop flag
\* closes that block.
LEMMA ToolUseGood ==
  ASSUME NEW b \in SSE!Block, NEW p, GoodBatch(b, p), NEW f \in Frame,
         f.toolUseId # NoTool
  PROVE  \E r : /\ GoodBatch(b, r) /\ r.st.currentBlockType = "tool_use"
                /\ AppendToolUse(p, f)
                     = IF f.stop THEN Emit(CloseCurrentBlock(r), MessageDelta("tool_use"))
                       ELSE r
<1>. DEFINE name == ToolName(p.st, f)
            q == IF Continues(p.st, f) THEN p
                 ELSE StartToolBlock(CloseCurrentBlock(p), f.toolUseId, name)
            r == IF f.input
                 THEN Emit(q, BlockDelta(q.st, "tool_use", f.toolUseId, name))
                 ELSE q
<1>1. f.toolUseId \in ToolIds \cup {NoTool} /\ f.name \in ToolIds \cup {NoTool}
  BY DEF Frame
<1>2. p.st \in ParserState
  BY DEF GoodBatch, Batch
<1>3. name \in ToolIds \cup {NoTool}
  BY <1>1, <1>2, ParserFields DEF ToolName
<1>. HIDE DEF name
<1>4. /\ GoodBatch(b, q) /\ q.st.currentBlockType = "tool_use"
      /\ q.st.currentToolUseID = f.toolUseId
  <2>1. CASE Continues(p.st, f)
    BY <2>1 DEF Continues
  <2>2. CASE ~Continues(p.st, f)
    <3>. DEFINE s == StartBlock(CloseCurrentBlock(p), "tool_use", f.toolUseId, name)
    <3>1. /\ GoodBatch(b, CloseCurrentBlock(p))
          /\ ~EndOf(b, CloseCurrentBlock(p).out).open
      BY CloseGood
    <3>2. /\ GoodBatch(b, s) /\ s.st.currentBlockType = "tool_use"
          /\ s.st.currentToolUseID = f.toolUseId
      BY <3>1, <1>1, <1>3, StartGood
    <3>. QED  BY <2>2, <3>2 DEF StartToolBlock
  <2>. QED  BY <2>1, <2>2
<1>. HIDE DEF q
<1>5. GoodBatch(b, r)
  BY <1>1, <1>3, <1>4, FeedGood
<1>6. r.st.currentBlockType = "tool_use"
  <2>1. r.st = q.st
    BY DEF Emit
  <2>. QED  BY <1>4, <2>1
<1>. HIDE DEF r
<1>7. AppendToolUse(p, f) = IF f.stop THEN Emit(CloseCurrentBlock(r), MessageDelta("tool_use"))
                            ELSE r
  BY DEF AppendToolUse, name, q, r
<1>. QED  BY <1>5, <1>6, <1>7

LEMMA ToolUseFollows ==
  ASSUME NEW b \in SSE!Block, NEW p, GoodBatch(b, p), NEW f \in Frame,
         f.toolUseId # NoTool
  PROVE  Follows(b, AppendToolUse(p, f).st, AppendToolUse(p, f).out)
<1>1. PICK r : /\ GoodBatch(b, r)
               /\ AppendToolUse(p, f)
                    = IF f.stop THEN Emit(CloseCurrentBlock(r), MessageDelta("tool_use"))
                      ELSE r
  BY ToolUseGood
<1>2. Follows(b, Emit(CloseCurrentBlock(r), MessageDelta("tool_use")).st,
              Emit(CloseCurrentBlock(r), MessageDelta("tool_use")).out)
  BY <1>1, CloseGood, DeltaFollows
<1>. QED  BY <1>1, <1>2, GoodFollows

LEMMA AssistantFollows ==
  ASSUME NEW b \in SSE!Block, NEW st \in ParserState, Agrees(st, b), NEW f \in Frame
  PROVE  Follows(b, AppendAssistantEvent(st, f).st, AppendAssistantEvent(st, f).out)
<1>. DEFINE p == [st |-> st, out |-> <<>>]
<1>1. GoodBatch(b, p)
  BY EmptyGood
<1>. HIDE DEF p
<1>2. CASE f.content
  BY <1>1, <1>2, TextGood, GoodFollows DEF AppendAssistantEvent, p
<1>3. CASE ~f.content /\ f.toolUseId # NoTool
  BY <1>1, <1>3, ToolUseFollows DEF AppendAssistantEvent, p
<1>4. CASE ~f.content /\ f.toolUseId = NoTool
  BY <1>1, <1>4, CloseGood, DeltaFollows DEF AppendAssistantEvent, p
<1>. QED  BY <1>2, <1>3, <1>4

-----------------------------------------------------------------------------
(* The inductive invariant.  It needs, besides the types, what is left of  *)
(* the batch to be a run the client may receive, and the parser to agree   *)
(* with the client at the end of that run: the index, kind and tool the    *)
(* next events carry are read from the parser's state alone.  While the    *)
(* parser finishes, no block is open and a message_delta was sent or comes *)
(* last.                                                                   *)

CoreType ==
  /\ phase \in {"reading", "closing", "done", "failed"}
  /\ hadMessageDelta \in BOOLEAN
  /\ event \in SSE!Event
  /\ block \in SSE!Block
  /\ stopped \in BOOLEAN

DeltaComes == pending # <<>> /\ Last(pending).type = "message_delta"

IInv ==
  /\ CoreType
  /\ phase \in {"reading", "closing"} => Follows(block, state, pending)
  /\ hadMessageDelta => stopped
  /\ phase = "closing" => /\ state.currentBlockType = ""
                          /\ state.nextBlockIndex > 0 => stopped \/ DeltaComes
  /\ phase = "done" => ~block.open /\ (block.index >= 0 => stopped)

LEMMA InitIInv == Init => IInv
<1>. SUFFICES ASSUME Init PROVE IInv
  OBVIOUS
<1>1. SSE!Ping \in SSE!Event
  BY DEF SSE!Ping, SSE!Ev, SSE!Event, SSE!EventTypes, SSE!BlockKinds
<1>2. SSE!NoBlock \in SSE!Block
  BY DEF SSE!NoBlock, SSE!Block, SSE!BlockKinds
<1>3. CoreType
  BY <1>1, <1>2 DEF Init, CoreType
<1>4. state \in ParserState /\ Agrees(state, block)
  <2>1. /\ Parser("", -1, NoTool, NoTool, -1 + 1) \in ParserState
        /\ Agrees(Parser("", -1, NoTool, NoTool, -1 + 1),
                  [open |-> FALSE, index |-> -1, kind |-> "", tool |-> NoTool])
    <3>1. -1 \in Int /\ -1 + 1 \in Nat
      OBVIOUS
    <3>. QED  BY <3>1, AgreesClosed
  <2>2. -1 + 1 = 0
    OBVIOUS
  <2>. QED  BY <2>1, <2>2 DEF Init, SSE!NoBlock
<1>5. Follows(block, state, pending)
  <2>1. GoodBatch(block, [st |-> state, out |-> <<>>])
    BY <1>2, <1>3, <1>4, EmptyGood DEF CoreType
  <2>2. Follows(block, state, <<>>)
    BY <2>1, <1>3, GoodFollows DEF CoreType
  <2>. QED  BY <2>2 DEF Init
<1>. QED  BY <1>3, <1>5 DEF Init, IInv

LEMMA ReadAssistantStep ==
  ASSUME IInv, NEW f \in Frames, ReadAssistantEvent(f)
  PROVE  IInv'
<1>1. /\ phase = "reading" /\ phase' = "reading" /\ pending = <<>>
      /\ state' = AppendAssistantEvent(state, f).st
      /\ pending' = AppendAssistantEvent(state, f).out
      /\ UNCHANGED <<hadMessageDelta, event, block, stopped>>
  BY DEF ReadAssistantEvent, Read, client
<1>2. Follows(block, state, pending) /\ block \in SSE!Block
  BY <1>1 DEF IInv, CoreType
<1>3. state \in ParserState /\ Agrees(state, block)
  BY <1>1, <1>2 DEF Follows, EndOf
<1>4. f \in Frame
  BY FramesAssumption
<1>5. Follows(block, state', pending')
  BY <1>1, <1>2, <1>3, <1>4, AssistantFollows
<1>6. Follows(block', state', pending')
  BY <1>1, <1>5
<1>. QED  BY <1>1, <1>6 DEF IInv, CoreType

LEMMA ReadMetadataStep ==
  ASSUME IInv, NEW f \in Frames, ReadMetadata(f)
  PROVE  IInv'
<1>1. /\ phase = "reading" /\ phase' = "reading" /\ pending = <<>>
      /\ pending' = IF f.contextUsage THEN <<SSE!Ping>> ELSE <<>>
      /\ UNCHANGED <<state, hadMessageDelta, event, block, stopped>>
  BY DEF ReadMetadata, Read, client
<1>2. Follows(block, state, <<>>) /\ block \in SSE!Block
  BY <1>1 DEF IInv, CoreType
<1>3. Follows(block, state, <<SSE!Ping>>)
  <2>1. SSE!Ping \in SSE!Event /\ SSE!Ping.type = "ping"
    BY DEF SSE!Ping, SSE!Ev, SSE!Event, SSE!EventTypes, SSE!BlockKinds
  <2>2. SSE!Legal(block, SSE!Ping) /\ SSE!Receive(block, SSE!Ping) = block
    BY <2>1 DEF SSE!Legal, SSE!Receive
  <2>3. EndOf(block, <<>>) = block /\ <<>> \in Seq(SSE!Event) /\ LegalRun(block, <<>>)
    BY <1>2 DEF EndOf, Follows
  <2>4. Append(<<>>, SSE!Ping) = <<SSE!Ping>>
    OBVIOUS
  <2>5. \A i \in 1..Len(<<>>) : IsBlockEvent(<<>>[i])
    BY EmptySeq
  <2>6. /\ <<SSE!Ping>> \in Seq(SSE!Event) /\ LegalRun(block, <<SSE!Ping>>)
        /\ EndOf(block, <<SSE!Ping>>) = block
    BY <1>2, <2>1, <2>2, <2>3, <2>4, <2>5, ExtendRun
  <2>. QED  BY <1>2, <2>3, <2>6 DEF Follows
<1>4. Follows(block', state', pending')
  BY <1>1, <1>2, <1>3
<1>. QED  BY <1>1, <1>4 DEF IInv, CoreType

LEMMA EndOfStreamStep ==
  ASSUME IInv, EndOfStream
  PROVE  IInv'
<1>. DEFINE p == [st |-> state, out |-> <<>>]
            c == CloseCurrentBlock(p)
            e == Emit(c, MessageDelta("end_turn"))
<1>1. /\ phase = "reading" /\ phase' = "closing" /\ pending = <<>>
      /\ state' = Finalize(state, hadMessageDelta).st
      /\ pending' = Finalize(state, hadMessageDelta).out
      /\ UNCHANGED <<hadMessageDelta, event, block, stopped>>
  BY DEF EndOfStream, client
<1>2. Follows(block, state, pending) /\ block \in SSE!Block /\ hadMessageDelta \in BOOLEAN
  BY <1>1 DEF IInv, CoreType
<1>3. state \in ParserState /\ Agrees(state, block)
  BY <1>1, <1>2 DEF Follows, EndOf
<1>4. GoodBatch(block, p)
  BY <1>2, <1>3, EmptyGood
<1>. HIDE DEF p
<1>5. /\ GoodBatch(block, c) /\ ~EndOf(block, c.out).open
      /\ c.st.currentBlockType = ""
  BY <1>2, <1>4, CloseGood
<1>6. CASE state.nextBlockIndex > 0 /\ ~hadMessageDelta
  <2>1. Finalize(state, hadMessageDelta) = e
    BY <1>6 DEF Finalize, p
  <2>2. Follows(block, e.st, e.out) /\ e.st = c.st /\ e.out # <<>>
        /\ Last(e.out).type = "message_delta"
    BY <1>2, <1>5, DeltaFollows
  <2>3. Follows(block', state', pending') /\ state'.currentBlockType = "" /\ DeltaComes'
    BY <1>1, <1>5, <2>1, <2>2 DEF DeltaComes
  <2>. QED  BY <1>1, <2>3 DEF IInv, CoreType
<1>7. CASE state.nextBlockIndex > 0 /\ hadMessageDelta /\ state.currentBlockType # ""
  <2>1. Finalize(state, hadMessageDelta) = c
    BY <1>7 DEF Finalize, p
  <2>2. Follows(block', state', pending') /\ state'.currentBlockType = ""
    BY <1>1, <1>2, <1>5, <2>1, GoodFollows
  <2>3. stopped'
    BY <1>1, <1>7 DEF IInv
  <2>. QED  BY <1>1, <2>2, <2>3 DEF IInv, CoreType
<1>8. CASE state.nextBlockIndex > 0 /\ hadMessageDelta /\ state.currentBlockType = ""
  <2>1. Finalize(state, hadMessageDelta) = [st |-> state, out |-> <<>>]
    BY <1>8 DEF Finalize
  <2>2. state' = state /\ pending' = pending /\ block' = block
    BY <1>1, <2>1
  <2>3. Follows(block', state', pending') /\ state'.currentBlockType = ""
    BY <1>2, <1>8, <2>2
  <2>4. stopped'
    BY <1>1, <1>8 DEF IInv
  <2>. QED  BY <1>1, <2>3, <2>4 DEF IInv, CoreType
<1>9. CASE ~(state.nextBlockIndex > 0)
  <2>1. Finalize(state, hadMessageDelta) = [st |-> state, out |-> <<>>]
    BY <1>9 DEF Finalize
  <2>2. state.currentBlockType = ""
    <3>1. state.nextBlockIndex = block.index + 1
      BY <1>3 DEF Agrees
    <3>2. block.index \in Int /\ state.nextBlockIndex \in Nat
      BY <1>2, <1>3, BlockFields, ParserFields
    <3>3. ~(block.index >= 0)
      BY <1>9, <3>1, <3>2
    <3>4. ~block.open
      BY <1>3, <3>3 DEF Agrees
    <3>. QED  BY <1>3, <3>4 DEF Agrees
  <2>3. state' = state /\ pending' = pending /\ block' = block
    BY <1>1, <2>1
  <2>4. Follows(block', state', pending') /\ state'.currentBlockType = ""
        /\ ~(state'.nextBlockIndex > 0)
    BY <1>2, <1>9, <2>2, <2>3
  <2>. QED  BY <1>1, <2>4 DEF IInv, CoreType
<1>. QED  BY <1>2, <1>6, <1>7, <1>8, <1>9

LEMMA EmitOneStep ==
  ASSUME IInv, EmitOne
  PROVE  /\ IInv'
         /\ event' \in SSE!Event /\ SSE!Legal(block, event')
<1>. DEFINE e == Head(pending)
            t == Tail(pending)
<1>1. /\ phase \in {"reading", "closing"} /\ phase' = phase /\ pending # <<>>
      /\ pending' = t /\ state' = state /\ event' = e
      /\ block' = SSE!Receive(block, e)
      /\ stopped' = (stopped \/ e.type = "message_delta")
      /\ hadMessageDelta' =
           (hadMessageDelta \/ (phase = "reading" /\ e.type = "message_delta"))
  BY DEF EmitOne
<1>2. /\ Follows(block, state, pending) /\ block \in SSE!Block
      /\ hadMessageDelta \in BOOLEAN /\ stopped \in BOOLEAN
      /\ hadMessageDelta => stopped
  BY <1>1 DEF IInv, CoreType
<1>3. pending \in Seq(SSE!Event) /\ LegalRun(block, pending)
  BY <1>2 DEF Follows
<1>4. e \in SSE!Event /\ t \in Seq(SSE!Event)
  BY <1>1, <1>3, HeadTailProperties
<1>5. SSE!Legal(block, e)
  BY <1>1, <1>2, <1>3, ConsumeRun
<1>6. Follows(SSE!Receive(block, e), state, t)
  BY <1>1, <1>2, <1>3, <1>4, ConsumeRun DEF Follows
<1>7. CoreType'
  <2>1. block' \in SSE!Block
    BY <1>1, <1>2, <1>4, <1>5, ReceiveType
  <2>. QED  BY <1>1, <1>2, <1>4, <2>1 DEF CoreType
<1>8. hadMessageDelta' => stopped'
  BY <1>1, <1>2
<1>9. DeltaComes => stopped' \/ DeltaComes'
  <2>. SUFFICES ASSUME DeltaComes PROVE stopped' \/ DeltaComes'
    OBVIOUS
  <2>1. /\ Len(pending) \in Nat /\ Len(pending) >= 1 /\ Len(t) = Len(pending) - 1
        /\ \A i \in 1..Len(t) : t[i] = pending[i + 1]
        /\ e = pending[1]
    BY <1>1, <1>3, HeadTailProperties
  <2>2. pending[Len(pending)].type = "message_delta"
    BY DEF DeltaComes, Last
  <2>3. CASE t = <<>>
    <3>1. Len(t) = 0
      BY <2>3, EmptySeq
    <3>2. Len(pending) = 1
      BY <2>1, <3>1
    <3>. QED  BY <1>1, <2>1, <2>2, <3>2
  <2>4. CASE t # <<>>
    <3>1. Len(t) \in 1..Len(t)
      BY <1>4, <2>4
    <3>2. t[Len(t)] = pending[Len(pending)]
      BY <2>1, <3>1
    <3>. QED  BY <1>1, <2>2, <2>4, <3>2 DEF DeltaComes, Last
  <2>. QED  BY <2>3, <2>4
<1>10. Follows(block', state', pending')
  BY <1>1, <1>6
<1>11. phase' = "closing" => /\ state'.currentBlockType = ""
                             /\ state'.nextBlockIndex > 0 => stopped' \/ DeltaComes'
  BY <1>1, <1>2, <1>9 DEF IInv
<1>. QED  BY <1>1, <1>4, <1>5, <1>7, <1>8, <1>10, <1>11 DEF IInv

LEMMA EmitFailsStep ==
  ASSUME IInv, EmitFails
  PROVE  IInv'
  BY DEF IInv, CoreType, EmitFails, client

LEMMA ReturnStep ==
  ASSUME IInv, Return
  PROVE  /\ IInv'
         /\ ~block.open
         /\ block.index >= 0 => stopped
<1>1. /\ phase = "closing" /\ phase' = "done" /\ pending = <<>>
      /\ UNCHANGED <<hadMessageDelta, event, block, stopped>>
  BY DEF Return, client
<1>2. /\ Follows(block, state, pending) /\ block \in SSE!Block
      /\ state.currentBlockType = ""
      /\ state.nextBlockIndex > 0 => stopped \/ DeltaComes
  BY <1>1 DEF IInv, CoreType
<1>3. Agrees(state, block)
  BY <1>1, <1>2 DEF Follows, EndOf
<1>4. ~block.open
  BY <1>2, <1>3 DEF Agrees
<1>5. block.index >= 0 => stopped
  <2>1. state.nextBlockIndex = block.index + 1
    BY <1>3 DEF Agrees
  <2>2. block.index \in Int
    BY <1>2, BlockFields
  <2>3. block.index >= 0 => state.nextBlockIndex > 0
    BY <2>1, <2>2
  <2>4. ~DeltaComes
    BY <1>1 DEF DeltaComes
  <2>. QED  BY <1>2, <2>3, <2>4
<1>. QED  BY <1>1, <1>4, <1>5 DEF IInv, CoreType

LEMMA StutterStep ==
  ASSUME IInv, UNCHANGED vars
  PROVE  IInv'
  BY DEF IInv, CoreType, DeltaComes, vars, parser, client

LEMMA NextIInv == IInv /\ [Next]_vars => IInv'
<1>. SUFFICES ASSUME IInv, [Next]_vars PROVE IInv'
  OBVIOUS
<1>1. ASSUME NEW f \in Frames, ReadAssistantEvent(f) PROVE IInv'
  BY <1>1, ReadAssistantStep
<1>2. ASSUME NEW f \in Frames, ReadMetadata(f) PROVE IInv'
  BY <1>2, ReadMetadataStep
<1>3. CASE EndOfStream
  BY <1>3, EndOfStreamStep
<1>4. CASE EmitOne
  BY <1>4, EmitOneStep
<1>5. CASE EmitFails
  BY <1>5, EmitFailsStep
<1>6. CASE Return
  BY <1>6, ReturnStep
<1>7. CASE UNCHANGED vars
  BY <1>7, StutterStep
<1>. QED  BY <1>1, <1>2, <1>3, <1>4, <1>5, <1>6, <1>7 DEF Next, ReadFrame

\* What is left of the current batch always continues what the client received,
\* and leads to the block that parserState holds to be open.
THEOREM Inductive == Spec => []IInv
<1>. QED  BY InitIInv, NextIInv, PTL DEF Spec

\* ParseEventStream implements the event sequence of SSEProtocol: for any tool
\* calls and any response, of any length and cut off anywhere.
THEOREM Refinement == Spec => WellFormedStream
<1>1. Init => SSE!SSEInit
  BY DEF Init, SSE!SSEInit, Status
<1>2. IInv /\ [Next]_vars => [SSE!SSENext]_SSE!sseVars
  <2>. SUFFICES ASSUME IInv, [Next]_vars PROVE [SSE!SSENext]_SSE!sseVars
    OBVIOUS
  <2>1. ASSUME NEW f \in Frames, ReadAssistantEvent(f) \/ ReadMetadata(f)
        PROVE  UNCHANGED SSE!sseVars
    BY <2>1 DEF ReadAssistantEvent, ReadMetadata, Read, client, Status, SSE!sseVars
  <2>2. CASE EndOfStream
    BY <2>2 DEF EndOfStream, client, Status, SSE!sseVars
  <2>3. CASE EmitOne
    <3>1. event' \in SSE!Event /\ SSE!Legal(block, event')
      BY <2>3, EmitOneStep
    <3>2. /\ Status = "streaming" /\ Status' = Status
          /\ block' = SSE!Receive(block, event')
          /\ stopped' = (stopped \/ event'.type = "message_delta")
      BY <2>3 DEF EmitOne, Status
    <3>. QED  BY <3>1, <3>2 DEF SSE!SSENext, SSE!SendEvent
  <2>4. CASE EmitFails
    BY <2>4 DEF EmitFails, client, Status, SSE!SSENext, SSE!Break
  <2>5. CASE Return
    <3>1. ~block.open /\ (block.index >= 0 => stopped)
      BY <2>5, ReturnStep
    <3>2. /\ Status = "streaming" /\ Status' = "complete"
          /\ UNCHANGED <<event, block, stopped>>
      BY <2>5 DEF Return, client, Status
    <3>. QED  BY <3>1, <3>2 DEF SSE!SSENext, SSE!Complete
  <2>6. CASE UNCHANGED vars
    BY <2>6 DEF vars, parser, client, Status, SSE!sseVars
  <2>. QED  BY <2>1, <2>2, <2>3, <2>4, <2>5, <2>6 DEF Next, ReadFrame
<1>. QED  BY <1>1, <1>2, Inductive, PTL DEF Spec, WellFormedStream, SSE!SSESpec

-----------------------------------------------------------------------------
(***************************************************************************)
(* The invariants that do not follow from the refinement: the types, the   *)
(* order in which fragments are delivered, and the names under which tool  *)
(* calls are announced.                                                    *)
(*                                                                         *)
(* The argument for the order: one frame holds at most one fragment, so of *)
(* the events not emitted yet at most one is a delta, and it carries the   *)
(* fragment read last.                                                     *)
(***************************************************************************)

IsDelta(e) == e.type = "content_block_delta"

\* The fragment a delta carries.
Carried(e) == [kind |-> e.kind, tool |-> e.tool]

NoDelta(q) == \A i \in 1..Len(q) : ~IsDelta(q[i])

\* One event of q is a delta, and it carries g.
OneDelta(q, g) == \E i \in 1..Len(q) : /\ IsDelta(q[i]) /\ Carried(q[i]) = g
                                       /\ \A j \in 1..Len(q) : IsDelta(q[j]) => j = i

\* The blocks that q opens have the names of their tools.
StartsNamed(q) ==
  \A i \in 1..Len(q) : q[i].type = "content_block_start" => q[i].name = q[i].tool

-----------------------------------------------------------------------------
(* Adding an event to a batch, and taking the first one from it.           *)

LEMMA AppendOther ==
  ASSUME NEW q \in Seq(SSE!Event), NEW e \in SSE!Event, ~IsDelta(e)
  PROVE  /\ NoDelta(q) => NoDelta(Append(q, e))
         /\ \A g : OneDelta(q, g) => OneDelta(Append(q, e), g)
<1>. DEFINE r == Append(q, e)
<1>1. /\ Len(q) \in Nat /\ Len(r) = Len(q) + 1
      /\ \A i \in 1..Len(q) : r[i] = q[i]
      /\ r[Len(r)] = e
  BY AppendProperties
<1>. HIDE DEF r
<1>2. \A i \in 1..Len(r) : IsDelta(r[i]) => i \in 1..Len(q) /\ IsDelta(q[i])
  BY <1>1
<1>3. NoDelta(q) => NoDelta(r)
  BY <1>2 DEF NoDelta
<1>4. ASSUME NEW g, OneDelta(q, g) PROVE OneDelta(r, g)
  <2>1. PICK i \in 1..Len(q) : /\ IsDelta(q[i]) /\ Carried(q[i]) = g
                               /\ \A j \in 1..Len(q) : IsDelta(q[j]) => j = i
    BY <1>4 DEF OneDelta
  <2>2. i \in 1..Len(r) /\ r[i] = q[i]
    BY <1>1
  <2>3. \A j \in 1..Len(r) : IsDelta(r[j]) => j = i
    BY <2>1, <1>1, <1>2
  <2>. QED  BY <2>1, <2>2, <2>3 DEF OneDelta
<1>. QED  BY <1>3, <1>4 DEF r

LEMMA AppendDelta ==
  ASSUME NEW q \in Seq(SSE!Event), NEW e \in SSE!Event, IsDelta(e), NoDelta(q)
  PROVE  OneDelta(Append(q, e), Carried(e))
<1>. DEFINE r == Append(q, e)
<1>1. /\ Len(q) \in Nat /\ Len(r) = Len(q) + 1
      /\ \A i \in 1..Len(q) : r[i] = q[i]
      /\ r[Len(r)] = e
  BY AppendProperties
<1>. HIDE DEF r
<1>2. Len(r) \in 1..Len(r)
  BY <1>1
<1>3. \A j \in 1..Len(r) : IsDelta(r[j]) => j = Len(r)
  BY <1>1 DEF NoDelta
<1>. QED  BY <1>1, <1>2, <1>3 DEF OneDelta, r

LEMMA AppendNamed ==
  ASSUME NEW q \in Seq(SSE!Event), NEW e \in SSE!Event, StartsNamed(q),
         e.type = "content_block_start" => e.name = e.tool
  PROVE  StartsNamed(Append(q, e))
<1>. DEFINE r == Append(q, e)
<1>1. /\ Len(q) \in Nat /\ Len(r) = Len(q) + 1
      /\ \A i \in 1..Len(q) : r[i] = q[i]
      /\ r[Len(r)] = e
  BY AppendProperties
<1>. HIDE DEF r
<1>2. \A i \in 1..Len(r) : i \in 1..Len(q) \/ i = Len(r)
  BY <1>1
<1>. QED  BY <1>1, <1>2 DEF StartsNamed, r

LEMMA TailOfBatch ==
  ASSUME NEW q \in Seq(SSE!Event), q # <<>>
  PROVE  /\ Head(q) \in SSE!Event /\ Tail(q) \in Seq(SSE!Event)
         /\ NoDelta(q) => ~IsDelta(Head(q)) /\ NoDelta(Tail(q))
         /\ \A g : OneDelta(q, g) =>
              \/ IsDelta(Head(q)) /\ Carried(Head(q)) = g /\ NoDelta(Tail(q))
              \/ ~IsDelta(Head(q)) /\ OneDelta(Tail(q), g)
         /\ StartsNamed(q) =>
              /\ StartsNamed(Tail(q))
              /\ Head(q).type = "content_block_start" => Head(q).name = Head(q).tool
<1>. DEFINE t == Tail(q)
<1>1. /\ t \in Seq(SSE!Event) /\ Len(q) \in Nat /\ Len(q) >= 1 /\ Len(t) = Len(q) - 1
      /\ \A i \in 1..Len(t) : t[i] = q[i + 1]
      /\ Head(q) = q[1] /\ q[1] \in SSE!Event
  BY HeadTailProperties
<1>. HIDE DEF t
<1>2. 1 \in 1..Len(q) /\ \A i \in 1..Len(t) : i + 1 \in 1..Len(q) /\ i + 1 # 1
  BY <1>1
<1>3. NoDelta(q) => ~IsDelta(Head(q)) /\ NoDelta(t)
  BY <1>1, <1>2 DEF NoDelta
<1>4. ASSUME NEW g, OneDelta(q, g)
      PROVE  \/ IsDelta(Head(q)) /\ Carried(Head(q)) = g /\ NoDelta(t)
             \/ ~IsDelta(Head(q)) /\ OneDelta(t, g)
  <2>1. PICK i \in 1..Len(q) : /\ IsDelta(q[i]) /\ Carried(q[i]) = g
                               /\ \A j \in 1..Len(q) : IsDelta(q[j]) => j = i
    BY <1>4 DEF OneDelta
  <2>2. CASE i = 1
    <3>1. NoDelta(t)
      BY <1>1, <1>2, <2>1, <2>2 DEF NoDelta
    <3>. QED  BY <1>1, <2>1, <2>2, <3>1
  <2>3. CASE i # 1
    <3>1. ~IsDelta(Head(q))
      BY <1>1, <1>2, <2>1, <2>3
    <3>2. i - 1 \in 1..Len(t) /\ t[i - 1] = q[i]
      BY <1>1, <2>3
    <3>3. ASSUME NEW j \in 1..Len(t), IsDelta(t[j]) PROVE j = i - 1
      <4>1. IsDelta(q[j + 1]) /\ j + 1 \in 1..Len(q)
        BY <1>1, <1>2, <3>3
      <4>2. j + 1 = i
        BY <2>1, <4>1
      <4>. QED  BY <4>2
    <3>4. OneDelta(t, g)
      BY <2>1, <3>2, <3>3 DEF OneDelta
    <3>. QED  BY <3>1, <3>4
  <2>. QED  BY <2>2, <2>3
<1>5. StartsNamed(q) => StartsNamed(t)
  BY <1>1, <1>2 DEF StartsNamed
<1>6. StartsNamed(q) /\ Head(q).type = "content_block_start" => Head(q).name = Head(q).tool
  BY <1>1, <1>2 DEF StartsNamed
<1>. QED  BY <1>1, <1>3, <1>4, <1>5, <1>6 DEF t
-----------------------------------------------------------------------------
(* What the functions that build a batch add to it.                        *)

\* A batch does not begin to hold, and does not cease to hold, a fragment or an
\* unnamed block.
KeepsOut(p, q) ==
  /\ q \in Batch
  /\ NoDelta(p.out) => NoDelta(q.out)
  /\ \A g : OneDelta(p.out, g) => OneDelta(q.out, g)

LEMMA EmitKeeps ==
  ASSUME NEW p \in Batch, NEW st \in ParserState, NEW e \in SSE!Event, ~IsDelta(e),
         e.type # "content_block_start"
  PROVE  /\ KeepsOut(p, [st |-> st, out |-> Append(p.out, e)])
         /\ StartsNamed(p.out) => StartsNamed(Append(p.out, e))
<1>1. p.out \in Seq(SSE!Event)
  BY DEF Batch
<1>2. Append(p.out, e) \in Seq(SSE!Event)
  BY <1>1, AppendProperties
<1>3. [st |-> st, out |-> Append(p.out, e)] \in Batch
  BY <1>2 DEF Batch
<1>. QED  BY <1>1, <1>3, AppendOther, AppendNamed DEF KeepsOut

LEMMA CloseKeeps ==
  ASSUME NEW p \in Batch
  PROVE  /\ KeepsOut(p, CloseCurrentBlock(p))
         /\ StartsNamed(p.out) => StartsNamed(CloseCurrentBlock(p).out)
<1>. DEFINE st == Parser("", -1, NoTool, NoTool, p.st.nextBlockIndex)
            e  == BlockStop(p.st)
<1>1. CASE NoBlockOpen(p.st)
  BY <1>1 DEF CloseCurrentBlock, KeepsOut
<1>2. CASE ~NoBlockOpen(p.st)
  <2>1. p.st \in ParserState
    BY DEF Batch
  <2>2. p.st.nextBlockIndex \in Nat
    BY <2>1, ParserFields
  <2>3. st \in ParserState
    BY <2>2 DEF Parser, ParserState, SSE!BlockKinds
  <2>4. e \in SSE!Event /\ e.type = "content_block_stop"
    BY <2>1, StopEvent
  <2>5. ~IsDelta(e) /\ e.type # "content_block_start"
    BY <2>4 DEF IsDelta
  <2>6. CloseCurrentBlock(p) = [st |-> st, out |-> Append(p.out, e)]
    BY <1>2 DEF CloseCurrentBlock
  <2>. HIDE DEF st, e
  <2>. QED  BY <2>3, <2>4, <2>5, <2>6, EmitKeeps
<1>. QED  BY <1>1, <1>2

LEMMA StartKeeps ==
  ASSUME NEW p \in Batch, NEW kind \in {"text", "tool_use"},
         NEW tool \in ToolIds \cup {NoTool}, NEW name \in ToolIds \cup {NoTool}
  PROVE  /\ KeepsOut(p, StartBlock(p, kind, tool, name))
         /\ StartsNamed(p.out) /\ name = tool => StartsNamed(StartBlock(p, kind, tool, name).out)
<1>. DEFINE i  == p.st.nextBlockIndex
            st == Parser(kind, i, tool, name, i + 1)
            e  == BlockStart(st)
<1>1. p.st \in ParserState
  BY DEF Batch
<1>2. i \in Nat
  BY <1>1, ParserFields
<1>3. st \in ParserState
  <2>1. kind \in SSE!BlockKinds
    BY DEF SSE!BlockKinds
  <2>. QED  BY <1>2, <2>1 DEF Parser, ParserState
<1>4. e \in SSE!Event /\ e.type = "content_block_start"
  BY <1>3, StartEvent
<1>5. e.tool = tool /\ e.name = name
  BY DEF BlockStart, Parser, SSE!Ev
<1>6. StartBlock(p, kind, tool, name) = [st |-> st, out |-> Append(p.out, e)]
  BY DEF StartBlock
<1>. HIDE DEF st, e
<1>7. ~IsDelta(e)
  BY <1>4 DEF IsDelta
<1>8. p.out \in Seq(SSE!Event)
  BY DEF Batch
<1>9. KeepsOut(p, [st |-> st, out |-> Append(p.out, e)])
  <2>1. Append(p.out, e) \in Seq(SSE!Event)
    BY <1>4, <1>8, AppendProperties
  <2>. QED  BY <1>3, <1>4, <1>7, <1>8, <2>1, AppendOther DEF KeepsOut, Batch
<1>10. StartsNamed(p.out) /\ name = tool => StartsNamed(Append(p.out, e))
  BY <1>4, <1>5, <1>8, AppendNamed
<1>. QED  BY <1>6, <1>9, <1>10

\* A message_delta holds no fragment and opens no block.
LEMMA MessageDeltaKeeps ==
  ASSUME NEW p \in Batch, NEW reason \in {"tool_use", "end_turn"}
  PROVE  /\ KeepsOut(p, Emit(p, MessageDelta(reason)))
         /\ StartsNamed(p.out) => StartsNamed(Emit(p, MessageDelta(reason)).out)
<1>. DEFINE e == MessageDelta(reason)
<1>1. e.type = "message_delta"
  BY DEF MessageDelta, SSE!Ev
<1>2. e \in SSE!Event
  <2>1. CASE reason = "tool_use"
    BY <2>1 DEF MessageDelta, SSE!Ev, SSE!Event, SSE!EventTypes, SSE!BlockKinds
  <2>2. CASE reason = "end_turn"
    BY <2>2 DEF MessageDelta, SSE!Ev, SSE!Event, SSE!EventTypes, SSE!BlockKinds
  <2>. QED  BY <2>1, <2>2
<1>3. p.st \in ParserState
  BY DEF Batch
<1>. HIDE DEF e
<1>4. ~IsDelta(e) /\ e.type # "content_block_start"
  BY <1>1 DEF IsDelta
<1>5. Emit(p, e) = [st |-> p.st, out |-> Append(p.out, e)]
  BY DEF Emit
<1>6. /\ KeepsOut(p, [st |-> p.st, out |-> Append(p.out, e)])
      /\ StartsNamed(p.out) => StartsNamed(Append(p.out, e))
  BY <1>2, <1>3, <1>4, EmitKeeps
<1>. QED  BY <1>5, <1>6 DEF e

\* A delta adds its fragment.
LEMMA BlockDeltaAdds ==
  ASSUME NEW p \in Batch, NEW kind \in {"text", "tool_use"},
         NEW tool \in ToolIds \cup {NoTool}, NEW name \in ToolIds \cup {NoTool}
  PROVE  /\ Emit(p, BlockDelta(p.st, kind, tool, name)) \in Batch
         /\ NoDelta(p.out) => OneDelta(Emit(p, BlockDelta(p.st, kind, tool, name)).out,
                                       [kind |-> kind, tool |-> tool])
         /\ StartsNamed(p.out) =>
              StartsNamed(Emit(p, BlockDelta(p.st, kind, tool, name)).out)
<1>. DEFINE e == BlockDelta(p.st, kind, tool, name)
<1>1. p.st \in ParserState /\ p.out \in Seq(SSE!Event)
  BY DEF Batch
<1>2. kind \in SSE!BlockKinds
  BY DEF SSE!BlockKinds
<1>3. e \in SSE!Event /\ e.type = "content_block_delta" /\ e.kind = kind /\ e.tool = tool
  BY <1>1, <1>2, DeltaEvent
<1>. HIDE DEF e
<1>4. IsDelta(e) /\ e.type # "content_block_start" /\ Carried(e) = [kind |-> kind, tool |-> tool]
  BY <1>3 DEF IsDelta, Carried
<1>5. Emit(p, e) = [st |-> p.st, out |-> Append(p.out, e)]
  BY DEF Emit
<1>6. Append(p.out, e) \in Seq(SSE!Event)
  BY <1>1, <1>3, AppendProperties
<1>7. Emit(p, e) \in Batch
  BY <1>1, <1>5, <1>6 DEF Batch
<1>8. NoDelta(p.out) => OneDelta(Append(p.out, e), [kind |-> kind, tool |-> tool])
  BY <1>1, <1>3, <1>4, AppendDelta
<1>9. StartsNamed(p.out) => StartsNamed(Append(p.out, e))
  BY <1>1, <1>3, <1>4, AppendNamed
<1>. QED  BY <1>5, <1>7, <1>8, <1>9 DEF e
-----------------------------------------------------------------------------
(* The batch of a frame: at most one delta, with the frame's fragment.     *)

LEMMA TextBatch ==
  ASSUME NEW p \in Batch, NoDelta(p.out), StartsNamed(p.out)
  PROVE  /\ OneDelta(AppendText(p).out, [kind |-> "text", tool |-> NoTool])
         /\ StartsNamed(AppendText(p).out)
<1>. DEFINE q == IF p.st.currentBlockType = "text" THEN p
                 ELSE StartTextBlock(CloseCurrentBlock(p))
<1>1. q \in Batch /\ NoDelta(q.out) /\ StartsNamed(q.out)
  <2>1. CASE p.st.currentBlockType = "text"
    BY <2>1
  <2>2. CASE p.st.currentBlockType # "text"
    <3>1. /\ CloseCurrentBlock(p) \in Batch /\ NoDelta(CloseCurrentBlock(p).out)
          /\ StartsNamed(CloseCurrentBlock(p).out)
      BY CloseKeeps DEF KeepsOut
    <3>. DEFINE s == StartBlock(CloseCurrentBlock(p), "text", NoTool, NoTool)
    <3>2. s \in Batch /\ NoDelta(s.out) /\ StartsNamed(s.out)
      BY <3>1, StartKeeps DEF KeepsOut
    <3>. QED  BY <2>2, <3>2 DEF StartTextBlock
  <2>. QED  BY <2>1, <2>2
<1>2. AppendText(p) = Emit(q, BlockDelta(q.st, "text", NoTool, NoTool))
  BY DEF AppendText
<1>. HIDE DEF q
<1>. QED  BY <1>1, <1>2, BlockDeltaAdds

LEMMA ToolUseBatch ==
  ASSUME NEW p \in Batch, NoDelta(p.out), StartsNamed(p.out),
         NEW f \in Frame, f.toolUseId # NoTool
  PROVE  /\ f.input => OneDelta(AppendToolUse(p, f).out,
                                [kind |-> "tool_use", tool |-> f.toolUseId])
         /\ ~f.input => NoDelta(AppendToolUse(p, f).out)
         /\ f.name # NoTool \/ Continues(p.st, f) => StartsNamed(AppendToolUse(p, f).out)
         /\ AppendToolUse(p, f) \in Batch
<1>. DEFINE name  == ToolName(p.st, f)
            c     == CloseCurrentBlock(p)
            s     == StartToolBlock(c, f.toolUseId, name)
            q     == IF Continues(p.st, f) THEN p ELSE s
            r     == IF f.input
                     THEN Emit(q, BlockDelta(q.st, "tool_use", f.toolUseId, name))
                     ELSE q
            g     == [kind |-> "tool_use", tool |-> f.toolUseId]
            named == f.name # NoTool \/ Continues(p.st, f)
            last  == Emit(CloseCurrentBlock(r), MessageDelta("tool_use"))
<1>1. /\ f.toolUseId \in ToolIds \cup {NoTool} /\ f.name \in ToolIds \cup {NoTool}
      /\ f.name # NoTool => f.name = f.toolUseId
  BY DEF Frame
<1>2. p.st \in ParserState
  BY DEF Batch
<1>3. name \in ToolIds \cup {NoTool} /\ (f.name # NoTool => name = f.toolUseId)
  BY <1>1, <1>2, ParserFields DEF ToolName
<1>. HIDE DEF name
<1>4. c \in Batch /\ NoDelta(c.out) /\ StartsNamed(c.out)
  BY CloseKeeps DEF KeepsOut
<1>. HIDE DEF c
<1>5. s \in Batch /\ NoDelta(s.out) /\ (f.name # NoTool => StartsNamed(s.out))
  BY <1>1, <1>3, <1>4, StartKeeps DEF KeepsOut, StartToolBlock
<1>. HIDE DEF s
<1>6. q \in Batch /\ NoDelta(q.out) /\ (named => StartsNamed(q.out))
  BY <1>5
<1>. HIDE DEF q
<1>7. /\ r \in Batch
      /\ f.input => OneDelta(r.out, g)
      /\ ~f.input => NoDelta(r.out)
      /\ named => StartsNamed(r.out)
  BY <1>1, <1>3, <1>6, BlockDeltaAdds
<1>8. AppendToolUse(p, f) = IF f.stop THEN last ELSE r
  BY DEF AppendToolUse, name, c, s, q, r
<1>. HIDE DEF r, g
<1>9. /\ CloseCurrentBlock(r) \in Batch
      /\ f.input => OneDelta(CloseCurrentBlock(r).out, g)
      /\ ~f.input => NoDelta(CloseCurrentBlock(r).out)
      /\ named => StartsNamed(CloseCurrentBlock(r).out)
  BY <1>7, CloseKeeps DEF KeepsOut
<1>10. /\ last \in Batch
       /\ f.input => OneDelta(last.out, g)
       /\ ~f.input => NoDelta(last.out)
       /\ named => StartsNamed(last.out)
  BY <1>9, MessageDeltaKeeps DEF KeepsOut
<1>. QED  BY <1>7, <1>8, <1>10 DEF g

LEMMA FinalizeBatch ==
  ASSUME NEW st \in ParserState, NEW had \in BOOLEAN
  PROVE  NoDelta(Finalize(st, had).out) /\ StartsNamed(Finalize(st, had).out)
<1>. DEFINE p == [st |-> st, out |-> <<>>]
            c == CloseCurrentBlock(p)
            e == Emit(c, MessageDelta("end_turn"))
<1>1. p \in Batch /\ NoDelta(p.out) /\ StartsNamed(p.out)
  BY EmptySeq DEF Batch, NoDelta, StartsNamed
<1>2. Finalize(st, had) \in {p, c, e}
  BY DEF Finalize
<1>. HIDE DEF p
<1>3. c \in Batch /\ NoDelta(c.out) /\ StartsNamed(c.out)
  BY <1>1, CloseKeeps DEF KeepsOut
<1>. HIDE DEF c
<1>4. NoDelta(e.out) /\ StartsNamed(e.out)
  BY <1>3, MessageDeltaKeeps DEF KeepsOut
<1>. HIDE DEF e
<1>. QED  BY <1>1, <1>2, <1>3, <1>4
-----------------------------------------------------------------------------
(* The types.                                                              *)

\* The client's histories only grow by what they may hold.
LEMMA EmitOneTypes ==
  ASSUME TypeOK, EmitOne
  PROVE  /\ delivered' \in Seq([kind : SSE!BlockKinds, tool : ToolIds \cup {NoTool}])
         /\ blocks' \in Seq([kind : SSE!BlockKinds, tool : ToolIds \cup {NoTool},
                             name : ToolIds \cup {NoTool}])
         /\ pending' \in Seq(SSE!Event)
<1>. DEFINE e == Head(pending)
<1>1. pending \in Seq(SSE!Event) /\ pending # <<>> /\ pending' = Tail(pending)
  BY DEF EmitOne, TypeOK
<1>2. e \in SSE!Event /\ pending' \in Seq(SSE!Event)
  BY <1>1, HeadTailProperties
<1>3. [kind |-> block.kind, tool |-> block.tool]
        \in [kind : SSE!BlockKinds, tool : ToolIds \cup {NoTool}]
  BY BlockFields DEF TypeOK
<1>4. [kind |-> e.kind, tool |-> e.tool, name |-> e.name]
        \in [kind : SSE!BlockKinds, tool : ToolIds \cup {NoTool},
             name : ToolIds \cup {NoTool}]
  BY <1>2 DEF SSE!Event
<1>5. delivered' \in {delivered, Append(delivered, [kind |-> block.kind, tool |-> block.tool])}
  BY DEF EmitOne
<1>6. blocks' \in {blocks, Append(blocks, [kind |-> e.kind, tool |-> e.tool,
                                           name |-> e.name])}
  BY DEF EmitOne
<1>7. /\ delivered \in Seq([kind : SSE!BlockKinds, tool : ToolIds \cup {NoTool}])
      /\ blocks \in Seq([kind : SSE!BlockKinds, tool : ToolIds \cup {NoTool},
                          name : ToolIds \cup {NoTool}])
  BY DEF TypeOK
<1>8. Append(delivered, [kind |-> block.kind, tool |-> block.tool])
        \in Seq([kind : SSE!BlockKinds, tool : ToolIds \cup {NoTool}])
  BY <1>3, <1>7, AppendProperties
<1>9. Append(blocks, [kind |-> e.kind, tool |-> e.tool, name |-> e.name])
        \in Seq([kind : SSE!BlockKinds, tool : ToolIds \cup {NoTool},
                 name : ToolIds \cup {NoTool}])
  BY <1>4, <1>7, AppendProperties
<1>. QED  BY <1>2, <1>5, <1>6, <1>7, <1>8, <1>9

LEMMA TypesStep ==
  ASSUME TypeOK, IInv, IInv', [Next]_vars
  PROVE  TypeOK'
<1>1. CoreType'
  BY DEF IInv
<1>2. phase' \in {"reading", "closing"} => state' \in ParserState /\ pending' \in Seq(SSE!Event)
  BY DEF IInv, Follows
<1>3. ASSUME NEW f \in Frames, ReadAssistantEvent(f) PROVE TypeOK'
  <2>1. phase' = "reading" /\ frames' = frames + 1 /\ frames < MaxFrames
        /\ UNCHANGED <<delivered, blocks>>
    BY <1>3 DEF ReadAssistantEvent, Read, client
  <2>2. f \in Frame
    BY FramesAssumption
  <2>3. /\ [kind |-> "text", tool |-> NoTool] \in Fragment
        /\ [kind |-> "tool_use", tool |-> f.toolUseId] \in Fragment
    BY <2>2 DEF Frame, Fragment
  <2>4. consumed' \in {consumed, Append(consumed, [kind |-> "text", tool |-> NoTool]),
                       Append(consumed, [kind |-> "tool_use", tool |-> f.toolUseId])}
    BY <1>3 DEF ReadAssistantEvent
  <2>5. consumed' \in Seq(Fragment)
    <3>1. consumed \in Seq(Fragment)
      BY DEF TypeOK
    <3>2. /\ Append(consumed, [kind |-> "text", tool |-> NoTool]) \in Seq(Fragment)
          /\ Append(consumed, [kind |-> "tool_use", tool |-> f.toolUseId]) \in Seq(Fragment)
      BY <2>3, <3>1, AppendProperties
    <3>. QED  BY <2>4, <3>1, <3>2
  <2>6. unnamed' \in BOOLEAN
    BY <1>3 DEF ReadAssistantEvent
  <2>7. frames' \in 0..MaxFrames
    BY <2>1, FramesAssumption DEF TypeOK
  <2>. QED  BY <1>1, <1>2, <2>1, <2>5, <2>6, <2>7 DEF TypeOK, CoreType
<1>4. ASSUME NEW f \in Frames, ReadMetadata(f) PROVE TypeOK'
  <2>1. phase' = "reading" /\ frames' = frames + 1 /\ frames < MaxFrames
        /\ UNCHANGED <<delivered, blocks, consumed, unnamed>>
    BY <1>4 DEF ReadMetadata, Read, client
  <2>2. frames' \in 0..MaxFrames
    BY <2>1, FramesAssumption DEF TypeOK
  <2>. QED  BY <1>1, <1>2, <2>1, <2>2 DEF TypeOK, CoreType
<1>5. CASE EndOfStream
  BY <1>1, <1>2, <1>5 DEF EndOfStream, TypeOK, CoreType, client
<1>6. CASE EmitOne
  <2>1. UNCHANGED <<state, frames, consumed, unnamed>>
    BY <1>6 DEF EmitOne
  <2>. QED  BY <1>1, <1>6, <2>1, EmitOneTypes DEF TypeOK, CoreType
<1>7. CASE EmitFails
  BY <1>1, <1>7, EmptySeq DEF EmitFails, TypeOK, CoreType, client
<1>8. CASE Return
  BY <1>1, <1>8 DEF Return, TypeOK, CoreType, client
<1>9. CASE UNCHANGED vars
  BY <1>9 DEF vars, parser, client, TypeOK
<1>. QED  BY <1>3, <1>4, <1>5, <1>6, <1>7, <1>8, <1>9 DEF Next, ReadFrame

LEMMA InitTypes == Init => TypeOK
<1>. SUFFICES ASSUME Init PROVE TypeOK
  OBVIOUS
<1>1. CoreType /\ state \in ParserState /\ pending \in Seq(SSE!Event)
  BY InitIInv DEF Init, IInv, Follows
<1>2. frames \in 0..MaxFrames
  <2>1. frames = 0
    BY DEF Init
  <2>2. MaxFrames \in Nat
    BY FramesAssumption
  <2>. QED  BY <2>1, <2>2
<1>3. /\ consumed \in Seq(Fragment)
      /\ delivered \in Seq([kind : SSE!BlockKinds, tool : ToolIds \cup {NoTool}])
      /\ blocks \in Seq([kind : SSE!BlockKinds, tool : ToolIds \cup {NoTool},
                         name : ToolIds \cup {NoTool}])
  BY EmptySeq DEF Init
<1>. QED  BY <1>1, <1>2, <1>3 DEF TypeOK, CoreType, Init

\* Every variable of ParseEventStream keeps its type: among others, the index of the
\* open block and the next index never leave their ranges.
THEOREM TypeCorrect == Spec => []TypeOK
<1>1. TypeOK /\ IInv /\ IInv' /\ [Next]_vars => TypeOK'
  BY TypesStep
<1>. QED  BY <1>1, InitTypes, Inductive, PTL DEF Spec

-----------------------------------------------------------------------------
(* The order of the fragments and the names of the blocks.                 *)

OrderInv ==
  /\ phase # "failed" =>
       \/ NoDelta(pending) /\ delivered = consumed
       \/ \E g \in Fragment : OneDelta(pending, g) /\ consumed = Append(delivered, g)
  /\ phase = "failed" => IsPrefix(delivered, consumed)

NamedInv == ~unnamed => StartsNamed(pending) /\ BlocksNamed

LEMMA NothingPending == NoDelta(<<>>) /\ StartsNamed(<<>>) /\ \A g : ~OneDelta(<<>>, g)
  BY EmptySeq DEF NoDelta, StartsNamed, OneDelta

LEMMA PrefixSelf ==
  ASSUME NEW S, NEW s \in Seq(S)
  PROVE  IsPrefix(s, s) /\ \A x \in S : IsPrefix(s, Append(s, x))
<1>1. IsPrefix(s, s)
  BY DEF IsPrefix
<1>2. ASSUME NEW x \in S PROVE IsPrefix(s, Append(s, x))
  <2>1. /\ Append(s, x) \in Seq(S) /\ Len(Append(s, x)) = Len(s) + 1 /\ Len(s) \in Nat
        /\ \A i \in 1..Len(s) : Append(s, x)[i] = s[i]
    BY AppendProperties
  <2>2. SubSeq(s, 1, Len(s)) = SubSeq(Append(s, x), 1, Len(s))
    BY <2>1
  <2>. QED  BY <2>1, <2>2 DEF IsPrefix
<1>. QED  BY <1>1, <1>2

\* Why OrderInv gives InOrder.
LEMMA OrderGivesInOrder ==
  ASSUME TypeOK, OrderInv
  PROVE  InOrder
<1>. DEFINE Piece == [kind : SSE!BlockKinds, tool : ToolIds \cup {NoTool}]
<1>1. delivered \in Seq(Piece) /\ Fragment \subseteq Piece
  BY DEF TypeOK, Fragment, SSE!BlockKinds
<1>2. CASE phase = "failed"
  BY <1>2 DEF OrderInv, InOrder
<1>3. CASE phase # "failed" /\ NoDelta(pending) /\ delivered = consumed
  BY <1>1, <1>3, PrefixSelf DEF InOrder
<1>4. ASSUME NEW g \in Fragment, phase # "failed", OneDelta(pending, g),
             consumed = Append(delivered, g)
      PROVE  InOrder
  <2>1. IsPrefix(delivered, consumed)
    BY <1>1, <1>4, PrefixSelf
  <2>2. pending # <<>>
    BY <1>4, NothingPending
  <2>. QED  BY <2>1, <2>2 DEF InOrder
<1>. QED  BY <1>2, <1>3, <1>4 DEF OrderInv

LEMMA ReadAssistantOrder ==
  ASSUME TypeOK, OrderInv, NamedInv, NEW f \in Frames, ReadAssistantEvent(f)
  PROVE  OrderInv' /\ NamedInv'
<1>. DEFINE p == [st |-> state, out |-> <<>>]
            text == [kind |-> "text", tool |-> NoTool]
            input == [kind |-> "tool_use", tool |-> f.toolUseId]
<1>1. /\ phase = "reading" /\ phase' = "reading" /\ pending = <<>>
      /\ pending' = AppendAssistantEvent(state, f).out
      /\ UNCHANGED <<delivered, blocks>>
  BY DEF ReadAssistantEvent, Read, client
<1>2. delivered = consumed
  BY <1>1, NothingPending DEF OrderInv
<1>3. f \in Frame /\ state \in ParserState
  BY FramesAssumption DEF TypeOK
<1>4. p \in Batch /\ NoDelta(p.out) /\ StartsNamed(p.out) /\ p.st = state
  BY <1>3, EmptySeq, NothingPending DEF Batch
<1>5. text \in Fragment /\ input \in Fragment
  BY <1>3 DEF Frame, Fragment
<1>6. AppendAssistantEvent(state, f)
        = IF f.content THEN AppendText(p)
          ELSE IF f.toolUseId # NoTool THEN AppendToolUse(p, f)
          ELSE Emit(CloseCurrentBlock(p), MessageDelta("end_turn"))
  BY DEF AppendAssistantEvent
<1>7. /\ consumed' = IF f.content THEN Append(consumed, text)
                     ELSE IF f.toolUseId # NoTool /\ f.input THEN Append(consumed, input)
                     ELSE consumed
      /\ unnamed' = (unnamed \/ (/\ ~f.content
                                 /\ f.toolUseId # NoTool
                                 /\ f.name = NoTool
                                 /\ ~Continues(state, f)))
  BY DEF ReadAssistantEvent
<1>. HIDE DEF p, text, input
<1>8. CASE f.content
  <2>1. OneDelta(pending', text) /\ StartsNamed(pending')
    BY <1>1, <1>4, <1>6, <1>8, TextBatch DEF text
  <2>2. consumed' = Append(delivered', text) /\ (~unnamed' => ~unnamed)
    BY <1>1, <1>2, <1>7, <1>8
  <2>. QED  BY <1>1, <1>5, <2>1, <2>2 DEF OrderInv, NamedInv, BlocksNamed
<1>9. CASE ~f.content /\ f.toolUseId # NoTool
  <2>1. /\ f.input => OneDelta(pending', input)
        /\ ~f.input => NoDelta(pending')
        /\ f.name # NoTool \/ Continues(state, f) => StartsNamed(pending')
    BY <1>1, <1>3, <1>4, <1>6, <1>9, ToolUseBatch DEF input
  <2>2. /\ f.input => consumed' = Append(delivered', input)
        /\ ~f.input => consumed' = delivered'
        /\ ~unnamed' => ~unnamed /\ (f.name # NoTool \/ Continues(state, f))
    BY <1>1, <1>2, <1>7, <1>9
  <2>. QED  BY <1>1, <1>5, <2>1, <2>2 DEF OrderInv, NamedInv, BlocksNamed
<1>10. CASE ~f.content /\ f.toolUseId = NoTool
  <2>1. NoDelta(pending') /\ StartsNamed(pending')
    <3>1. /\ CloseCurrentBlock(p) \in Batch /\ NoDelta(CloseCurrentBlock(p).out)
          /\ StartsNamed(CloseCurrentBlock(p).out)
      BY <1>4, CloseKeeps DEF KeepsOut
    <3>. QED  BY <1>1, <1>6, <1>10, <3>1, MessageDeltaKeeps DEF KeepsOut
  <2>2. consumed' = delivered' /\ (~unnamed' => ~unnamed)
    BY <1>1, <1>2, <1>7, <1>10
  <2>. QED  BY <1>1, <2>1, <2>2 DEF OrderInv, NamedInv, BlocksNamed
<1>. QED  BY <1>8, <1>9, <1>10

LEMMA ReadMetadataOrder ==
  ASSUME OrderInv, NamedInv, NEW f \in Frames, ReadMetadata(f)
  PROVE  OrderInv' /\ NamedInv'
<1>1. /\ phase = "reading" /\ phase' = "reading" /\ pending = <<>>
      /\ pending' \in {<<SSE!Ping>>, <<>>}
      /\ UNCHANGED <<delivered, blocks, consumed, unnamed>>
  BY DEF ReadMetadata, Read, client
<1>2. delivered = consumed
  BY <1>1, NothingPending DEF OrderInv
<1>3. NoDelta(<<SSE!Ping>>) /\ StartsNamed(<<SSE!Ping>>)
  <2>1. SSE!Ping.type = "ping"
    BY DEF SSE!Ping, SSE!Ev
  <2>2. Len(<<SSE!Ping>>) = 1 /\ <<SSE!Ping>>[1] = SSE!Ping
    OBVIOUS
  <2>3. \A i \in 1..Len(<<SSE!Ping>>) : <<SSE!Ping>>[i] = SSE!Ping
    BY <2>2
  <2>. QED  BY <2>1, <2>3 DEF NoDelta, StartsNamed, IsDelta
<1>4. NoDelta(pending') /\ StartsNamed(pending')
  BY <1>1, <1>3, NothingPending
<1>. QED  BY <1>1, <1>2, <1>4 DEF OrderInv, NamedInv, BlocksNamed

LEMMA EndOfStreamOrder ==
  ASSUME TypeOK, OrderInv, NamedInv, EndOfStream
  PROVE  OrderInv' /\ NamedInv'
<1>1. /\ phase = "reading" /\ phase' = "closing" /\ pending = <<>>
      /\ pending' = Finalize(state, hadMessageDelta).out
      /\ UNCHANGED <<delivered, blocks, consumed, unnamed>>
  BY DEF EndOfStream, client
<1>2. delivered = consumed
  BY <1>1, NothingPending DEF OrderInv
<1>3. NoDelta(pending') /\ StartsNamed(pending')
  BY <1>1, FinalizeBatch DEF TypeOK
<1>. QED  BY <1>1, <1>2, <1>3 DEF OrderInv, NamedInv, BlocksNamed

\* The client files a delta under its own block, and the refinement says that this is
\* the block the delta is for.
LEMMA EmitOneOrder ==
  ASSUME TypeOK, IInv, OrderInv, NamedInv, EmitOne
  PROVE  OrderInv' /\ NamedInv'
<1>. DEFINE e == Head(pending)
            Piece == [kind : SSE!BlockKinds, tool : ToolIds \cup {NoTool}]
            Name == [kind : SSE!BlockKinds, tool : ToolIds \cup {NoTool},
                     name : ToolIds \cup {NoTool}]
            b == [kind |-> e.kind, tool |-> e.tool, name |-> e.name]
<1>1. /\ phase # "failed" /\ phase' = phase /\ pending # <<>>
      /\ pending' = Tail(pending) /\ event' = e
      /\ UNCHANGED <<consumed, unnamed>>
      /\ delivered' = IF IsDelta(e)
                      THEN Append(delivered, [kind |-> block.kind, tool |-> block.tool])
                      ELSE delivered
      /\ blocks' = IF e.type = "content_block_start" THEN Append(blocks, b) ELSE blocks
  BY DEF EmitOne, IsDelta
<1>2. pending \in Seq(SSE!Event) /\ delivered \in Seq(Piece) /\ blocks \in Seq(Name)
  BY DEF TypeOK
<1>3. e \in SSE!Event
  BY <1>1, <1>2, TailOfBatch
<1>4. IsDelta(e) => [kind |-> block.kind, tool |-> block.tool] = Carried(e)
  <2>1. SSE!Legal(block, e)
    BY <1>1, EmitOneStep
  <2>. QED  BY <2>1 DEF SSE!Legal, IsDelta, Carried
<1>5. OrderInv'
  <2>1. CASE NoDelta(pending) /\ delivered = consumed
    <3>1. ~IsDelta(e) /\ NoDelta(pending')
      BY <1>1, <1>2, <2>1, TailOfBatch
    <3>2. delivered' = consumed'
      BY <1>1, <2>1, <3>1
    <3>. QED  BY <1>1, <3>1, <3>2 DEF OrderInv
  <2>2. ASSUME NEW g \in Fragment, OneDelta(pending, g), consumed = Append(delivered, g)
        PROVE  OrderInv'
    <3>1. \/ IsDelta(e) /\ Carried(e) = g /\ NoDelta(pending')
          \/ ~IsDelta(e) /\ OneDelta(pending', g)
      BY <1>1, <1>2, <2>2, TailOfBatch
    <3>2. CASE IsDelta(e) /\ Carried(e) = g /\ NoDelta(pending')
      <4>1. delivered' = consumed'
        BY <1>1, <1>4, <2>2, <3>2
      <4>. QED  BY <1>1, <3>2, <4>1 DEF OrderInv
    <3>3. CASE ~IsDelta(e) /\ OneDelta(pending', g)
      <4>1. consumed' = Append(delivered', g)
        BY <1>1, <2>2, <3>3
      <4>. QED  BY <1>1, <2>2, <3>3, <4>1 DEF OrderInv
    <3>. QED  BY <3>1, <3>2, <3>3
  <2>. QED  BY <1>1, <2>1, <2>2 DEF OrderInv
<1>6. NamedInv'
  <2>. SUFFICES ASSUME ~unnamed' PROVE StartsNamed(pending') /\ BlocksNamed'
    BY DEF NamedInv
  <2>1. /\ ~unnamed /\ StartsNamed(pending)
        /\ \A i \in DOMAIN blocks : blocks[i].name = blocks[i].tool
    BY <1>1 DEF NamedInv, BlocksNamed
  <2>2. /\ StartsNamed(pending')
        /\ e.type = "content_block_start" => e.name = e.tool
    BY <1>1, <1>2, <2>1, TailOfBatch
  <2>3. CASE e.type = "content_block_start"
    <3>1. b \in Name /\ b.name = b.tool
      BY <1>3, <2>2, <2>3 DEF SSE!Event
    <3>. HIDE DEF b, Name
    <3>2. /\ Len(Append(blocks, b)) = Len(blocks) + 1 /\ Len(blocks) \in Nat
          /\ Append(blocks, b) \in Seq(Name)
          /\ \A i \in 1..Len(blocks) : Append(blocks, b)[i] = blocks[i]
          /\ Append(blocks, b)[Len(blocks) + 1] = b
      BY <1>2, <3>1, AppendProperties
    <3>3. blocks' = Append(blocks, b)
      BY <1>1, <2>3
    <3>4. DOMAIN blocks' = 1..(Len(blocks) + 1) /\ DOMAIN blocks = 1..Len(blocks)
      BY <1>2, <3>2, <3>3
    <3>5. ASSUME NEW i \in DOMAIN blocks' PROVE blocks'[i].name = blocks'[i].tool
      <4>1. CASE i = Len(blocks) + 1
        BY <3>1, <3>2, <3>3, <4>1
      <4>2. CASE i # Len(blocks) + 1
        <5>1. i \in 1..Len(blocks)
          BY <3>2, <3>4, <3>5, <4>2
        <5>. QED  BY <2>1, <3>2, <3>3, <3>4, <5>1
      <4>. QED  BY <4>1, <4>2
    <3>. QED  BY <2>1, <2>2, <3>5, <1>1 DEF BlocksNamed
  <2>4. CASE e.type # "content_block_start"
    BY <1>1, <2>1, <2>2, <2>4 DEF BlocksNamed
  <2>. QED  BY <2>3, <2>4
<1>. QED  BY <1>5, <1>6

LEMMA EmitFailsOrder ==
  ASSUME TypeOK, OrderInv, NamedInv, EmitFails
  PROVE  OrderInv' /\ NamedInv'
<1>1. /\ phase # "failed" /\ phase' = "failed" /\ pending' = <<>>
      /\ UNCHANGED <<delivered, blocks, consumed, unnamed>>
  BY DEF EmitFails, client
<1>2. IsPrefix(delivered, consumed)
  BY OrderGivesInOrder DEF InOrder
<1>. QED  BY <1>1, <1>2, NothingPending DEF OrderInv, NamedInv, BlocksNamed

LEMMA OrderStep ==
  ASSUME TypeOK, IInv, OrderInv, NamedInv, [Next]_vars
  PROVE  OrderInv' /\ NamedInv'
<1>1. ASSUME NEW f \in Frames, ReadAssistantEvent(f) PROVE OrderInv' /\ NamedInv'
  BY <1>1, ReadAssistantOrder
<1>2. ASSUME NEW f \in Frames, ReadMetadata(f) PROVE OrderInv' /\ NamedInv'
  BY <1>2, ReadMetadataOrder
<1>3. CASE EndOfStream
  BY <1>3, EndOfStreamOrder
<1>4. CASE EmitOne
  BY <1>4, EmitOneOrder
<1>5. CASE EmitFails
  BY <1>5, EmitFailsOrder
<1>6. CASE Return
  BY <1>6 DEF Return, client, OrderInv, NamedInv, BlocksNamed
<1>7. CASE UNCHANGED vars
  BY <1>7 DEF vars, parser, client, OrderInv, NamedInv, BlocksNamed
<1>. QED  BY <1>1, <1>2, <1>3, <1>4, <1>5, <1>6, <1>7 DEF Next, ReadFrame

LEMMA InitOrder == Init => OrderInv /\ NamedInv
<1>. SUFFICES ASSUME Init PROVE OrderInv /\ NamedInv
  OBVIOUS
<1>1. phase = "reading" /\ pending = <<>> /\ delivered = <<>> /\ consumed = <<>>
      /\ blocks = <<>>
  BY DEF Init
<1>2. DOMAIN blocks = {}
  BY <1>1
<1>. QED  BY <1>1, <1>2, NothingPending DEF OrderInv, NamedInv, BlocksNamed

LEMMA OrderAndNames == Spec => [](OrderInv /\ NamedInv)
<1>1. TypeOK /\ IInv /\ OrderInv /\ NamedInv /\ [Next]_vars => OrderInv' /\ NamedInv'
  BY OrderStep
<1>. QED  BY <1>1, InitOrder, TypeCorrect, Inductive, PTL DEF Spec

\* appendAssistantEvent and emitOne lose, repeat and reorder no piece of text or of
\* tool input, and put none into the block of another tool call.
THEOREM InOrderAlways == Spec => []InOrder
<1>1. TypeOK /\ OrderInv => InOrder
  BY OrderGivesInOrder
<1>. QED  BY <1>1, TypeCorrect, OrderAndNames, PTL

\* toolNameOrCurrent never gives a block the name of another tool call, if every
\* fragment that opens a block brings its name.
THEOREM BlocksNamedAlways == Spec => []BlocksNamed
<1>1. NamedInv => BlocksNamed
  BY DEF NamedInv, BlocksNamed
<1>. QED  BY <1>1, OrderAndNames, PTL

-----------------------------------------------------------------------------
(* The client runs tools only after a tool_use block.                      *)

IsToolUse(e) == e.type = "message_delta" /\ e.reason = "tool_use"

\* What a tool_use message_delta at the i-th place of q comes straight after, for a
\* client at b.
TailOfTool(b, q, i) ==
  q[i-1].type = "content_block_stop" /\ Before(b, q, i-1).kind = "tool_use"

AfterTool(b, q) == \A i \in 1..Len(q) : IsToolUse(q[i]) => i # 1 /\ TailOfTool(b, q, i)

AfterToolBlock == event.type = "content_block_stop" /\ Last(blocks).kind = "tool_use"

\* The first pending event is covered by what the client received last, a later one by
\* the one before it.
ToolInv ==
  /\ block.open => blocks # <<>> /\ Last(blocks).kind = block.kind
  /\ phase \in {"reading", "closing"} =>
       \A i \in 1..Len(pending) : IsToolUse(pending[i]) =>
         IF i = 1 THEN AfterToolBlock ELSE TailOfTool(block, pending, i)

\* A batch under construction has no message_delta.
LEMMA GoodNoToolUse ==
  ASSUME NEW b, NEW p, GoodBatch(b, p)
  PROVE  \A i \in 1..Len(p.out) : ~IsToolUse(p.out[i])
  BY DEF GoodBatch, IsBlockEvent, IsToolUse

\* A message_delta for another reason may follow anything.
LEMMA EndTurnAfterTool ==
  ASSUME NEW b, NEW p, GoodBatch(b, p)
  PROVE  AfterTool(b, Emit(p, MessageDelta("end_turn")).out)
<1>. DEFINE e == MessageDelta("end_turn")
            r == Append(p.out, e)
<1>1. e.reason = "end_turn" /\ e \in SSE!Event
  BY DEF MessageDelta, SSE!Ev, SSE!Event, SSE!EventTypes, SSE!BlockKinds
<1>2. ~IsToolUse(e)
  BY <1>1 DEF IsToolUse
<1>. HIDE DEF e
<1>3. p.out \in Seq(SSE!Event)
  BY DEF GoodBatch, Batch
<1>4. /\ Len(p.out) \in Nat /\ Len(r) = Len(p.out) + 1 /\ r[Len(r)] = e
      /\ \A i \in 1..Len(p.out) : r[i] = p.out[i]
  BY <1>1, <1>3, AppendProperties
<1>. HIDE DEF r
<1>5. \A i \in 1..Len(r) : ~IsToolUse(r[i])
  BY <1>2, <1>4, GoodNoToolUse
<1>. QED  BY <1>5 DEF Emit, AfterTool, e, r

\* The stop flag of a tool call: the block it closes is a tool_use block.
LEMMA StopAfterTool ==
  ASSUME NEW b \in SSE!Block, NEW p, GoodBatch(b, p), p.st.currentBlockType = "tool_use"
  PROVE  AfterTool(b, Emit(CloseCurrentBlock(p), MessageDelta("tool_use")).out)
<1>. DEFINE n == Len(p.out)
            s == BlockStop(p.st)
            c == Append(p.out, s)
            e == MessageDelta("tool_use")
            r == Append(c, e)
<1>1. p.st \in ParserState /\ p.out \in Seq(SSE!Event) /\ n \in Nat
  BY DEF GoodBatch, Batch
<1>2. EndOf(b, p.out) \in SSE!Block /\ Agrees(p.st, EndOf(b, p.out))
  BY <1>1, EndOfType DEF GoodBatch
<1>3. EndOf(b, p.out).kind = "tool_use"
  BY <1>2 DEF Agrees
<1>4. ~NoBlockOpen(p.st)
  <2>1. EndOf(b, p.out).open
    BY <1>2, <1>3 DEF Agrees
  <2>. QED  BY <1>1, <1>2, <2>1, AgreesNoBlock
<1>5. s \in SSE!Event /\ s.type = "content_block_stop"
  BY <1>1, StopEvent
<1>6. e \in SSE!Event
  BY DEF MessageDelta, SSE!Ev, SSE!Event, SSE!EventTypes, SSE!BlockKinds
<1>7. Emit(CloseCurrentBlock(p), e).out = r
  BY <1>4 DEF Emit, CloseCurrentBlock
<1>. HIDE DEF s, e
<1>8. /\ c \in Seq(SSE!Event) /\ Len(c) = n + 1 /\ c[n + 1] = s
      /\ \A i \in 1..n : c[i] = p.out[i]
  BY <1>1, <1>5, AppendProperties
<1>. HIDE DEF c
<1>9. /\ r \in Seq(SSE!Event) /\ Len(r) = n + 2 /\ r[n + 1] = s
      /\ \A i \in 1..n : r[i] = p.out[i]
  <2>1. /\ r \in Seq(SSE!Event) /\ Len(r) = Len(c) + 1
        /\ \A i \in 1..Len(c) : r[i] = c[i]
    BY <1>6, <1>8, AppendProperties
  <2>. QED  BY <1>1, <1>8, <2>1
<1>. HIDE DEF r
<1>10. Before(b, r, n + 1) = EndOf(b, p.out)
  BY <1>1, <1>9, BeforeEnd DEF GoodBatch
<1>11. ASSUME NEW i \in 1..Len(r), IsToolUse(r[i]) PROVE i # 1 /\ TailOfTool(b, r, i)
  <2>1. i \notin 1..n
    BY <1>9, <1>11, GoodNoToolUse
  <2>2. i # n + 1
    BY <1>5, <1>9, <1>11 DEF IsToolUse
  <2>3. i = n + 2 /\ i # 1 /\ i - 1 = n + 1
    BY <1>1, <1>9, <2>1, <2>2
  <2>4. TailOfTool(b, r, i)
    BY <1>3, <1>5, <1>9, <1>10, <2>3 DEF TailOfTool
  <2>. QED  BY <2>3, <2>4
<1>. QED  BY <1>7, <1>11 DEF AfterTool, e

LEMMA AssistantAfterTool ==
  ASSUME NEW b \in SSE!Block, NEW st \in ParserState, Agrees(st, b), NEW f \in Frame
  PROVE  AfterTool(b, AppendAssistantEvent(st, f).out)
<1>. DEFINE p == [st |-> st, out |-> <<>>]
<1>1. GoodBatch(b, p)
  BY EmptyGood
<1>. HIDE DEF p
<1>2. CASE f.content
  <2>1. GoodBatch(b, AppendText(p))
    BY <1>1, TextGood
  <2>. QED  BY <1>2, <2>1, GoodNoToolUse DEF AppendAssistantEvent, AfterTool, p
<1>3. CASE ~f.content /\ f.toolUseId # NoTool
  <2>1. PICK r : /\ GoodBatch(b, r) /\ r.st.currentBlockType = "tool_use"
                 /\ AppendToolUse(p, f)
                      = IF f.stop THEN Emit(CloseCurrentBlock(r), MessageDelta("tool_use"))
                        ELSE r
    BY <1>1, <1>3, ToolUseGood
  <2>2. AfterTool(b, r.out)
    BY <2>1, GoodNoToolUse DEF AfterTool
  <2>3. AfterTool(b, AppendToolUse(p, f).out)
    BY <2>1, <2>2, StopAfterTool
  <2>. QED  BY <1>3, <2>3 DEF AppendAssistantEvent, p
<1>4. CASE ~f.content /\ f.toolUseId = NoTool
  <2>1. GoodBatch(b, CloseCurrentBlock(p))
    BY <1>1, CloseGood
  <2>. QED  BY <1>4, <2>1, EndTurnAfterTool DEF AppendAssistantEvent, p
<1>. QED  BY <1>2, <1>3, <1>4

LEMMA FinalizeAfterTool ==
  ASSUME NEW b \in SSE!Block, NEW st \in ParserState, Agrees(st, b), NEW had \in BOOLEAN
  PROVE  AfterTool(b, Finalize(st, had).out)
<1>. DEFINE p == [st |-> st, out |-> <<>>]
            c == CloseCurrentBlock(p)
            e == Emit(c, MessageDelta("end_turn"))
<1>1. GoodBatch(b, p)
  BY EmptyGood
<1>2. Finalize(st, had) \in {p, c, e}
  BY DEF Finalize
<1>. HIDE DEF p
<1>3. GoodBatch(b, c)
  BY <1>1, CloseGood
<1>. HIDE DEF c
<1>4. AfterTool(b, p.out) /\ AfterTool(b, c.out)
  BY <1>1, <1>3, GoodNoToolUse DEF AfterTool
<1>5. AfterTool(b, e.out)
  BY <1>3, EndTurnAfterTool
<1>. HIDE DEF e
<1>. QED  BY <1>2, <1>4, <1>5

\* What a client that is at b relies on once it has received the first event of q.
LEMMA AfterToolTail ==
  ASSUME NEW b \in SSE!Block, NEW q \in Seq(SSE!Event), q # <<>>, LegalRun(b, q),
         NEW i \in 1..Len(Tail(q)), i # 1, TailOfTool(b, q, i + 1)
  PROVE  TailOfTool(SSE!Receive(b, Head(q)), Tail(q), i)
<1>. DEFINE t == Tail(q)
            c == SSE!Receive(b, Head(q))
<1>1. /\ Len(q) \in Nat /\ Len(t) = Len(q) - 1
      /\ \A j \in 1..Len(t) : t[j] = q[j + 1]
      /\ Head(q) = q[1] /\ q[1] \in SSE!Event
  BY HeadTailProperties
<1>. HIDE DEF t
<1>2. i - 1 \in 1..Len(t) /\ (i - 1) + 1 = i /\ (i + 1) - 1 = i
  BY <1>1 DEF t
<1>3. t[i - 1] = q[i]
  BY <1>1, <1>2
<1>4. Before(b, q, i) = Before(c, t, i - 1)
  <2>1. CASE i - 1 = 1
    <3>1. 1 \in 1..Len(q) /\ 1 < Len(q) /\ i = 2 /\ 2 - 1 = 1
      BY <1>1, <1>2, <2>1
    <3>2. IsBlockEvent(q[1]) /\ SSE!Legal(b, q[1])
      BY <3>1 DEF LegalRun, Before
    <3>3. c = AfterEvent(q[1])
      BY <1>1, <3>2, ReceiveIsAfter
    <3>. QED  BY <2>1, <3>1, <3>3 DEF Before
  <2>2. CASE i - 1 # 1
    <3>1. (i - 1) - 1 \in 1..Len(t) /\ ((i - 1) - 1) + 1 = i - 1
      BY <1>1, <1>2, <2>2
    <3>2. t[(i - 1) - 1] = q[i - 1]
      BY <1>1, <3>1
    <3>. QED  BY <2>2, <3>2 DEF Before
  <2>. QED  BY <2>1, <2>2
<1>. QED  BY <1>2, <1>3, <1>4 DEF TailOfTool, t

\* Reading a frame or the end of the stream leaves the client alone.
LEMMA BatchToolInv ==
  ASSUME ToolInv, UNCHANGED <<event, block, blocks>>, AfterTool(block, pending')
  PROVE  ToolInv'
  BY DEF ToolInv, AfterTool, AfterToolBlock

LEMMA ReadAssistantTool ==
  ASSUME TypeOK, IInv, ToolInv, NEW f \in Frames, ReadAssistantEvent(f)
  PROVE  ToolInv'
<1>1. /\ phase = "reading" /\ pending = <<>>
      /\ pending' = AppendAssistantEvent(state, f).out
      /\ UNCHANGED <<event, block, blocks>>
  BY DEF ReadAssistantEvent, Read, client
<1>2. f \in Frame /\ state \in ParserState /\ block \in SSE!Block
  BY FramesAssumption DEF TypeOK
<1>3. Agrees(state, block)
  BY <1>1 DEF IInv, Follows, EndOf
<1>. QED  BY <1>1, <1>2, <1>3, AssistantAfterTool, BatchToolInv

LEMMA ReadMetadataTool ==
  ASSUME ToolInv, NEW f \in Frames, ReadMetadata(f)
  PROVE  ToolInv'
<1>1. /\ pending' \in {<<SSE!Ping>>, <<>>}
      /\ UNCHANGED <<event, block, blocks>>
  BY DEF ReadMetadata, Read, client
<1>2. SSE!Ping.type = "ping"
  BY DEF SSE!Ping, SSE!Ev
<1>3. \A i \in 1..Len(<<SSE!Ping>>) : <<SSE!Ping>>[i] = SSE!Ping
  OBVIOUS
<1>4. AfterTool(block, <<SSE!Ping>>)
  BY <1>2, <1>3 DEF AfterTool, IsToolUse
<1>5. AfterTool(block, <<>>)
  BY EmptySeq DEF AfterTool
<1>6. AfterTool(block, pending')
  BY <1>1, <1>4, <1>5
<1>. QED  BY <1>1, <1>6, BatchToolInv

LEMMA EndOfStreamTool ==
  ASSUME TypeOK, IInv, ToolInv, EndOfStream
  PROVE  ToolInv'
<1>1. /\ phase = "reading" /\ pending = <<>>
      /\ pending' = Finalize(state, hadMessageDelta).out
      /\ UNCHANGED <<event, block, blocks>>
  BY DEF EndOfStream, client
<1>2. Agrees(state, block)
  BY <1>1 DEF IInv, Follows, EndOf
<1>3. AfterTool(block, pending')
  BY <1>1, <1>2, FinalizeAfterTool DEF TypeOK
<1>. QED  BY <1>1, <1>3, BatchToolInv

\* The client's open block is the one it was told of last.
LEMMA EmitOneTool ==
  ASSUME TypeOK, IInv, ToolInv, EmitOne
  PROVE  /\ ToolInv'
         /\ IsToolUse(event') => AfterToolBlock
<1>. DEFINE e == Head(pending)
            t == Tail(pending)
            b == [kind |-> e.kind, tool |-> e.tool, name |-> e.name]
            Named == [kind : SSE!BlockKinds, tool : ToolIds \cup {NoTool},
                      name : ToolIds \cup {NoTool}]
<1>1. /\ phase \in {"reading", "closing"} /\ phase' = phase /\ pending # <<>>
      /\ pending' = t /\ event' = e /\ block' = SSE!Receive(block, e)
      /\ blocks' = IF e.type = "content_block_start" THEN Append(blocks, b) ELSE blocks
  BY DEF EmitOne
<1>2. /\ pending \in Seq(SSE!Event) /\ blocks \in Seq(Named) /\ block \in SSE!Block
      /\ LegalRun(block, pending)
  BY <1>1 DEF TypeOK, IInv, Follows
<1>3. /\ Len(pending) \in Nat /\ Len(pending) >= 1 /\ Len(t) = Len(pending) - 1
      /\ \A i \in 1..Len(t) : t[i] = pending[i + 1]
      /\ e = pending[1] /\ e \in SSE!Event /\ t \in Seq(SSE!Event)
  BY <1>1, <1>2, HeadTailProperties
<1>4. SSE!Legal(block, e)
  BY <1>1, <1>2, ConsumeRun
<1>5. IsToolUse(event') => AfterToolBlock
  BY <1>1, <1>3 DEF ToolInv
<1>6. block'.open => blocks' # <<>> /\ Last(blocks').kind = block'.kind
  <2>1. CASE e.type = "content_block_start"
    <3>1. b \in Named /\ b.kind = e.kind
      BY <1>3 DEF SSE!Event
    <3>. HIDE DEF b, Named
    <3>2. /\ Append(blocks, b) # <<>> /\ Len(Append(blocks, b)) = Len(blocks) + 1
          /\ Append(blocks, b)[Len(blocks) + 1] = b
      BY <1>2, <3>1, AppendProperties
    <3>3. blocks' # <<>> /\ Last(blocks') = b
      BY <1>1, <2>1, <3>2 DEF Last
    <3>4. block'.kind = e.kind
      BY <1>1, <2>1 DEF SSE!Receive
    <3>. QED  BY <3>1, <3>3, <3>4
  <2>2. CASE e.type = "content_block_stop"
    BY <1>1, <2>2 DEF SSE!Receive
  <2>3. CASE e.type \notin {"content_block_start", "content_block_stop"}
    <3>1. block' = block /\ blocks' = blocks
      BY <1>1, <2>3 DEF SSE!Receive
    <3>. QED  BY <3>1 DEF ToolInv
  <2>. QED  BY <2>1, <2>2, <2>3
<1>7. ASSUME NEW i \in 1..Len(t), IsToolUse(t[i])
      PROVE  IF i = 1 THEN AfterToolBlock' ELSE TailOfTool(block', t, i)
  <2>1. i + 1 \in 1..Len(pending) /\ i + 1 # 1 /\ t[i] = pending[i + 1]
    BY <1>3
  <2>2. TailOfTool(block, pending, i + 1)
    BY <1>1, <1>7, <2>1 DEF ToolInv
  <2>3. CASE i = 1
    <3>1. (i + 1) - 1 = 1
      BY <2>3
    <3>2. e.type = "content_block_stop" /\ block.kind = "tool_use"
      BY <1>3, <2>2, <3>1 DEF TailOfTool, Before
    <3>3. block.open
      BY <1>4, <3>2 DEF SSE!Legal
    <3>4. Last(blocks).kind = "tool_use" /\ blocks' = blocks
      BY <1>1, <3>2, <3>3 DEF ToolInv
    <3>. QED  BY <1>1, <2>3, <3>2, <3>4 DEF AfterToolBlock
  <2>4. CASE i # 1
    <3>1. TailOfTool(SSE!Receive(block, e), t, i)
      BY <1>1, <1>2, <2>2, <2>4, AfterToolTail
    <3>. QED  BY <1>1, <2>4, <3>1
  <2>. QED  BY <2>3, <2>4
<1>. QED  BY <1>1, <1>5, <1>6, <1>7 DEF ToolInv

LEMMA ToolStep ==
  ASSUME TypeOK, IInv, ToolInv, [Next]_vars
  PROVE  /\ ToolInv'
         /\ event' # event /\ IsToolUse(event') => AfterToolBlock
<1>1. ASSUME NEW f \in Frames, ReadAssistantEvent(f) PROVE ToolInv' /\ event' = event
  BY <1>1, ReadAssistantTool DEF ReadAssistantEvent, Read, client
<1>2. ASSUME NEW f \in Frames, ReadMetadata(f) PROVE ToolInv' /\ event' = event
  BY <1>2, ReadMetadataTool DEF ReadMetadata, Read, client
<1>3. CASE EndOfStream
  BY <1>3, EndOfStreamTool DEF EndOfStream, client
<1>4. CASE EmitOne
  BY <1>4, EmitOneTool
<1>5. CASE EmitFails
  BY <1>5 DEF EmitFails, client, ToolInv
<1>6. CASE Return
  BY <1>6 DEF Return, client, ToolInv
<1>7. CASE UNCHANGED vars
  BY <1>7 DEF vars, parser, client, ToolInv, AfterToolBlock
<1>. QED  BY <1>1, <1>2, <1>3, <1>4, <1>5, <1>6, <1>7 DEF Next, ReadFrame

LEMMA InitTool == Init => ToolInv
<1>. SUFFICES ASSUME Init PROVE ToolInv
  OBVIOUS
<1>1. ~block.open /\ pending = <<>>
  BY DEF Init, SSE!NoBlock
<1>. QED  BY <1>1, EmptySeq DEF ToolInv

\* appendAssistantEvent tells the client to run tools (stop reason tool_use) only when
\* the event before was the end of a tool_use block.
THEOREM ToolUseAlways == Spec => ToolUseAfterTool
<1>1. TypeOK /\ IInv /\ ToolInv /\ [Next]_vars => ToolInv'
  BY ToolStep
<1>2. TypeOK /\ IInv /\ ToolInv /\ [Next]_vars =>
        [event'.type = "message_delta" /\ event'.reason = "tool_use" =>
           /\ event.type = "content_block_stop"
           /\ Last(blocks).kind = "tool_use"]_event
  BY ToolStep DEF IsToolUse, AfterToolBlock
<1>. QED  BY <1>1, <1>2, InitTool, TypeCorrect, Inductive, PTL DEF Spec, ToolUseAfterTool

-----------------------------------------------------------------------------
(* The assembled reply.  First the loops over events, which are recursive  *)
(* functions.  A least counterexample stands for induction.                *)

\* Of any numbers one is the least.
LEMMA Least ==
  ASSUME NEW T, T \subseteq Nat, T # {}
  PROVE  \E n \in T : \A m \in T : n <= m
<1>1. PICK n \in T : \A m \in T : <<m, n>> \notin OpToRel(<, Nat)
  BY NatLessThanWellFounded, WFMin, Zenon
<1>2. \A m \in T : ~(m < n)
  BY <1>1, Zenon DEF OpToRel
<1>. QED  BY <1>2

\* What holds of zero, and of each number's successor, holds of all.
LEMMA Climb ==
  ASSUME NEW T, 0 \in T, \A n \in Nat : n \in T => n + 1 \in T
  PROVE  Nat \subseteq T
<1>. SUFFICES ASSUME Nat \ T # {} PROVE FALSE
  OBVIOUS
<1>1. PICK n \in Nat \ T : \A m \in Nat \ T : n <= m
  BY Least
<1>2. n # 0 /\ n - 1 \in Nat
  BY <1>1
<1>3. n - 1 \in T
  BY <1>1, <1>2
<1>. QED  BY <1>1, <1>2, <1>3

\* A client that was sent nothing.
Unsent == [ok |-> TRUE, block |-> SSE!NoBlock]

\* A value of the function in BlockMap, from the one before it.
MapAt(evs, g, n) == IF n = 0 THEN <<>> ELSE Accumulate(g[n - 1], evs[n])

\* The function in BlockMap exists.
LEMMA MapFunction ==
  ASSUME NEW evs, Len(evs) \in Nat
  PROVE  \E g : /\ g = [n \in 0..Len(evs) |-> MapAt(evs, g, n)]
                /\ BlockMap(evs) = g[Len(evs)]
<1>. DEFINE T == {k \in Nat : \E g : g = [n \in 0..k |-> MapAt(evs, g, n)]}
<1>1. 0 \in T
  <2>. DEFINE g == [n \in 0..0 |-> <<>>]
  <2>1. g = [n \in 0..0 |-> MapAt(evs, g, n)]
    BY DEF MapAt
  <2>. HIDE DEF g
  <2>. QED  BY <2>1
<1>2. ASSUME NEW k \in Nat, k \in T PROVE k + 1 \in T
  <2>1. PICK g : g = [n \in 0..k |-> MapAt(evs, g, n)]
    BY <1>2
  <2>. DEFINE h == [n \in 0..(k + 1) |-> IF n = k + 1 THEN MapAt(evs, g, n) ELSE g[n]]
  <2>2. \A n \in 0..(k + 1) : MapAt(evs, h, n) = MapAt(evs, g, n)
    BY DEF MapAt
  <2>3. \A n \in 0..k : g[n] = MapAt(evs, g, n)
    BY <2>1
  <2>4. h = [n \in 0..(k + 1) |-> MapAt(evs, h, n)]
    BY <2>2, <2>3
  <2>. HIDE DEF h
  <2>. QED  BY <2>4
<1>. HIDE DEF T
<1>3. Len(evs) \in T
  BY <1>1, <1>2, Climb
<1>4. \E g : g = [n \in 0..Len(evs) |-> MapAt(evs, g, n)]
  BY <1>3 DEF T
<1>. DEFINE map == CHOOSE g : g = [n \in 0..Len(evs) |-> MapAt(evs, g, n)]
<1>5. map = [n \in 0..Len(evs) |-> MapAt(evs, map, n)]
  BY <1>4
<1>6. BlockMap(evs) = map[Len(evs)]
  BY DEF BlockMap, MapAt
<1>. HIDE DEF map
<1>. QED  BY <1>5, <1>6

\* One event more adds to the blocks what it says.
LEMMA MapAdd ==
  ASSUME NEW S, NEW evs \in Seq(S), NEW e \in S
  PROVE  /\ BlockMap(<<>>) = <<>>
         /\ BlockMap(Append(evs, e)) = Accumulate(BlockMap(evs), e)
<1>. DEFINE more == Append(evs, e)
            l    == Len(evs)
<1>1. /\ l \in Nat /\ Len(more) = l + 1
      /\ \A n \in 1..l : more[n] = evs[n]
      /\ more[l + 1] = e
  BY AppendProperties
<1>. HIDE DEF more
<1>2. PICK g : g = [n \in 0..l |-> MapAt(evs, g, n)] /\ BlockMap(evs) = g[l]
  BY <1>1, MapFunction
<1>3. PICK h : h = [n \in 0..(l + 1) |-> MapAt(more, h, n)] /\ BlockMap(more) = h[l + 1]
  BY <1>1, MapFunction
<1>4. /\ \A n \in 0..l : g[n] = MapAt(evs, g, n)
      /\ \A n \in 0..(l + 1) : h[n] = MapAt(more, h, n)
  BY <1>2, <1>3
<1>. HIDE DEF l
<1>. DEFINE T == {n \in Nat : n <= l => h[n] = g[n]}
<1>5. 0 \in T
  <2>1. 0 \in 0..l /\ 0 \in 0..(l + 1)
    BY <1>1
  <2>2. g[0] = MapAt(evs, g, 0) /\ h[0] = MapAt(more, h, 0)
    BY <1>4, <2>1
  <2>. QED  BY <2>2 DEF MapAt
<1>6. ASSUME NEW n \in Nat, n \in T PROVE n + 1 \in T
  <2>. SUFFICES ASSUME n + 1 <= l PROVE h[n + 1] = g[n + 1]
    BY DEF T
  <2>1. /\ n <= l /\ n + 1 \in 1..l /\ n + 1 \in 0..l /\ n + 1 \in 0..(l + 1)
        /\ n + 1 # 0 /\ (n + 1) - 1 = n
    BY <1>1
  <2>2. h[n] = g[n] /\ more[n + 1] = evs[n + 1]
    BY <1>1, <1>6, <2>1
  <2>3. g[n + 1] = MapAt(evs, g, n + 1) /\ h[n + 1] = MapAt(more, h, n + 1)
    BY <1>4, <2>1
  <2>. QED  BY <2>1, <2>2, <2>3 DEF MapAt
<1>7. h[l] = g[l]
  <2>1. l \in T
    <3>. HIDE DEF T
    <3>. QED  BY <1>1, <1>5, <1>6, Climb
  <2>. QED  BY <1>1, <2>1
<1>8. BlockMap(more) = Accumulate(BlockMap(evs), e)
  <2>1. l + 1 \in 0..(l + 1) /\ l + 1 # 0 /\ (l + 1) - 1 = l
    BY <1>1
  <2>2. h[l + 1] = MapAt(more, h, l + 1)
    BY <1>4, <2>1
  <2>. QED  BY <1>1, <1>2, <1>3, <1>7, <2>1, <2>2 DEF MapAt
<1>9. BlockMap(<<>>) = <<>>
  <2>1. Len(<<>>) = 0 /\ 0 \in 0..0
    BY EmptySeq
  <2>2. PICK f : f = [n \in 0..0 |-> MapAt(<<>>, f, n)] /\ BlockMap(<<>>) = f[0]
    BY <2>1, MapFunction
  <2>3. f[0] = MapAt(<<>>, f, 0)
    BY <2>1, <2>2
  <2>. QED  BY <2>2, <2>3 DEF MapAt
<1>. QED  BY <1>8, <1>9 DEF more

\* A value of the function in Followed, from the one before it.
HeardAt(evs, g, n) == IF n = 0 THEN Unsent ELSE Hear(g[n - 1], evs[n])

\* The function in Followed exists.
LEMMA HeardFunction ==
  ASSUME NEW evs, Len(evs) \in Nat
  PROVE  \E g : /\ g = [n \in 0..Len(evs) |-> HeardAt(evs, g, n)]
                /\ Followed(evs) = g[Len(evs)]
<1>. DEFINE T == {k \in Nat : \E g : g = [n \in 0..k |-> HeardAt(evs, g, n)]}
<1>1. 0 \in T
  <2>. DEFINE g == [n \in 0..0 |-> Unsent]
  <2>1. g = [n \in 0..0 |-> HeardAt(evs, g, n)]
    BY DEF HeardAt
  <2>. HIDE DEF g
  <2>. QED  BY <2>1
<1>2. ASSUME NEW k \in Nat, k \in T PROVE k + 1 \in T
  <2>1. PICK g : g = [n \in 0..k |-> HeardAt(evs, g, n)]
    BY <1>2
  <2>. DEFINE h == [n \in 0..(k + 1) |-> IF n = k + 1 THEN HeardAt(evs, g, n) ELSE g[n]]
  <2>2. \A n \in 0..(k + 1) : HeardAt(evs, h, n) = HeardAt(evs, g, n)
    BY DEF HeardAt
  <2>3. \A n \in 0..k : g[n] = HeardAt(evs, g, n)
    BY <2>1
  <2>4. h = [n \in 0..(k + 1) |-> HeardAt(evs, h, n)]
    BY <2>2, <2>3
  <2>. HIDE DEF h
  <2>. QED  BY <2>4
<1>. HIDE DEF T
<1>3. Len(evs) \in T
  BY <1>1, <1>2, Climb
<1>4. \E g : g = [n \in 0..Len(evs) |-> HeardAt(evs, g, n)]
  BY <1>3 DEF T
<1>. DEFINE heard == CHOOSE g : g = [n \in 0..Len(evs) |-> HeardAt(evs, g, n)]
<1>5. heard = [n \in 0..Len(evs) |-> HeardAt(evs, heard, n)]
  BY <1>4
<1>6. Followed(evs) = heard[Len(evs)]
  BY DEF Followed, HeardAt, Unsent
<1>. HIDE DEF heard
<1>. QED  BY <1>5, <1>6

\* A client that is sent one event more hears it where the others left it.
LEMMA HeardAdd ==
  ASSUME NEW S, NEW evs \in Seq(S), NEW e \in S
  PROVE  /\ Followed(<<>>) = Unsent
         /\ Followed(Append(evs, e)) = Hear(Followed(evs), e)
<1>. DEFINE more == Append(evs, e)
            l    == Len(evs)
<1>1. /\ l \in Nat /\ Len(more) = l + 1
      /\ \A n \in 1..l : more[n] = evs[n]
      /\ more[l + 1] = e
  BY AppendProperties
<1>. HIDE DEF more
<1>2. PICK g : g = [n \in 0..l |-> HeardAt(evs, g, n)] /\ Followed(evs) = g[l]
  BY <1>1, HeardFunction
<1>3. PICK h : h = [n \in 0..(l + 1) |-> HeardAt(more, h, n)] /\ Followed(more) = h[l + 1]
  BY <1>1, HeardFunction
<1>4. /\ \A n \in 0..l : g[n] = HeardAt(evs, g, n)
      /\ \A n \in 0..(l + 1) : h[n] = HeardAt(more, h, n)
  BY <1>2, <1>3
<1>. HIDE DEF l
<1>. DEFINE T == {n \in Nat : n <= l => h[n] = g[n]}
<1>5. 0 \in T
  <2>1. 0 \in 0..l /\ 0 \in 0..(l + 1)
    BY <1>1
  <2>2. g[0] = HeardAt(evs, g, 0) /\ h[0] = HeardAt(more, h, 0)
    BY <1>4, <2>1
  <2>. QED  BY <2>2 DEF HeardAt
<1>6. ASSUME NEW n \in Nat, n \in T PROVE n + 1 \in T
  <2>. SUFFICES ASSUME n + 1 <= l PROVE h[n + 1] = g[n + 1]
    BY DEF T
  <2>1. /\ n <= l /\ n + 1 \in 1..l /\ n + 1 \in 0..l /\ n + 1 \in 0..(l + 1)
        /\ n + 1 # 0 /\ (n + 1) - 1 = n
    BY <1>1
  <2>2. h[n] = g[n] /\ more[n + 1] = evs[n + 1]
    BY <1>1, <1>6, <2>1
  <2>3. g[n + 1] = HeardAt(evs, g, n + 1) /\ h[n + 1] = HeardAt(more, h, n + 1)
    BY <1>4, <2>1
  <2>. QED  BY <2>1, <2>2, <2>3 DEF HeardAt
<1>7. h[l] = g[l]
  <2>1. l \in T
    <3>. HIDE DEF T
    <3>. QED  BY <1>1, <1>5, <1>6, Climb
  <2>. QED  BY <1>1, <2>1
<1>8. Followed(more) = Hear(Followed(evs), e)
  <2>1. l + 1 \in 0..(l + 1) /\ l + 1 # 0 /\ (l + 1) - 1 = l
    BY <1>1
  <2>2. h[l + 1] = HeardAt(more, h, l + 1)
    BY <1>4, <2>1
  <2>. QED  BY <1>1, <1>2, <1>3, <1>7, <2>1, <2>2 DEF HeardAt
<1>9. Followed(<<>>) = Unsent
  <2>1. Len(<<>>) = 0 /\ 0 \in 0..0
    BY EmptySeq
  <2>2. PICK f : f = [n \in 0..0 |-> HeardAt(<<>>, f, n)] /\ Followed(<<>>) = f[0]
    BY <2>1, HeardFunction
  <2>3. f[0] = HeardAt(<<>>, f, 0)
    BY <2>1, <2>2
  <2>. QED  BY <2>2, <2>3 DEF HeardAt
<1>. QED  BY <1>8, <1>9 DEF more

\* A value of the function in FlattenSeq, from the one before it.
JoinAt(ss, g, n) == IF n = 1 THEN ss[n] ELSE g[n - 1] \o ss[n]

\* The function in FlattenSeq exists.
LEMMA JoinFunction ==
  ASSUME NEW ss, NEW l \in Nat, Len(ss) = l + 1
  PROVE  \E g : /\ g = [n \in 1..(l + 1) |-> JoinAt(ss, g, n)]
                /\ FlattenSeq(ss) = g[l + 1]
<1>. DEFINE T == {k \in Nat : \E g : g = [n \in 1..(k + 1) |-> JoinAt(ss, g, n)]}
<1>1. 0 \in T
  <2>. DEFINE g == [n \in 1..1 |-> ss[1]]
  <2>1. g = [n \in 1..1 |-> JoinAt(ss, g, n)]
    BY DEF JoinAt
  <2>. HIDE DEF g
  <2>2. 0 + 1 = 1
    OBVIOUS
  <2>. QED  BY <2>1, <2>2
<1>2. ASSUME NEW k \in Nat, k \in T PROVE k + 1 \in T
  <2>1. PICK g : g = [n \in 1..(k + 1) |-> JoinAt(ss, g, n)]
    BY <1>2
  <2>. DEFINE m == (k + 1) + 1
              h == [n \in 1..m |-> IF n = m THEN JoinAt(ss, g, n) ELSE g[n]]
  <2>2. \A n \in 1..m : JoinAt(ss, h, n) = JoinAt(ss, g, n)
    BY DEF JoinAt
  <2>3. \A n \in 1..(k + 1) : g[n] = JoinAt(ss, g, n)
    BY <2>1
  <2>4. h = [n \in 1..m |-> JoinAt(ss, h, n)]
    BY <2>2, <2>3
  <2>. HIDE DEF h
  <2>. QED  BY <2>4
<1>. HIDE DEF T
<1>3. l \in T
  BY <1>1, <1>2, Climb
<1>4. \E g : g = [n \in 1..(l + 1) |-> JoinAt(ss, g, n)]
  BY <1>3 DEF T
<1>. DEFINE flatten == CHOOSE g : g = [n \in 1..(l + 1) |-> JoinAt(ss, g, n)]
<1>5. flatten = [n \in 1..(l + 1) |-> JoinAt(ss, flatten, n)]
  BY <1>4
<1>6. FlattenSeq(ss) = flatten[l + 1]
  <2>1. Len(ss) # 0
    OBVIOUS
  <2>. QED  BY <2>1 DEF FlattenSeq, JoinAt
<1>. HIDE DEF flatten
<1>. QED  BY <1>5, <1>6

\* Sequences are strung together in their order.
LEMMA JoinAdd ==
  ASSUME NEW S, NEW ss \in Seq(Seq(S)), NEW x \in Seq(S)
  PROVE  /\ FlattenSeq(<<>>) = <<>>
         /\ FlattenSeq(ss) \in Seq(S)
         /\ FlattenSeq(Append(ss, x)) = FlattenSeq(ss) \o x
<1>. DEFINE more == Append(ss, x)
<1>1. /\ Len(ss) \in Nat /\ Len(more) = Len(ss) + 1
      /\ \A n \in 1..Len(ss) : more[n] = ss[n] /\ ss[n] \in Seq(S)
      /\ more[Len(ss) + 1] = x
  BY AppendProperties
<1>. HIDE DEF more
<1>2. FlattenSeq(<<>>) = <<>>
  BY EmptySeq DEF FlattenSeq
<1>3. PICK h : /\ h = [n \in 1..(Len(ss) + 1) |-> JoinAt(more, h, n)]
               /\ FlattenSeq(more) = h[Len(ss) + 1]
  BY <1>1, JoinFunction
<1>4. \A n \in 1..(Len(ss) + 1) : h[n] = JoinAt(more, h, n)
  BY <1>3
<1>5. CASE ss = <<>>
  <2>1. Len(ss) = 0
    BY <1>5, EmptySeq
  <2>2. h[1] = more[1]
    BY <1>4, <2>1 DEF JoinAt
  <2>3. <<>> \o x = x
    BY ConcatEmptySeq
  <2>4. FlattenSeq(more) = x
    BY <1>1, <1>3, <2>1, <2>2
  <2>5. FlattenSeq(ss) = <<>>
    BY <1>2, <1>5
  <2>6. FlattenSeq(ss) \in Seq(S)
    BY <2>5
  <2>. QED  BY <1>2, <2>3, <2>4, <2>5, <2>6 DEF more
<1>6. CASE ss # <<>>
  <2>. DEFINE l == Len(ss) - 1
  <2>1. l \in Nat /\ Len(ss) = l + 1
    BY <1>1, <1>6
  <2>. HIDE DEF l
  <2>2. PICK g : g = [n \in 1..(l + 1) |-> JoinAt(ss, g, n)] /\ FlattenSeq(ss) = g[l + 1]
    BY <2>1, JoinFunction
  <2>3. \A n \in 1..(l + 1) : g[n] = JoinAt(ss, g, n)
    BY <2>2
  <2>. DEFINE T == {n \in Nat : n <= l => /\ g[n + 1] \in Seq(S) /\ h[n + 1] = g[n + 1]}
  <2>4. 0 \in T
    <3>1. 1 \in 1..(l + 1) /\ 1 \in 1..(Len(ss) + 1) /\ 1 \in 1..Len(ss) /\ 0 + 1 = 1
      BY <2>1
    <3>2. g[1] = ss[1] /\ h[1] = more[1]
      BY <1>4, <2>3, <3>1 DEF JoinAt
    <3>. QED  BY <1>1, <3>1, <3>2
  <2>5. ASSUME NEW n \in Nat, n \in T PROVE n + 1 \in T
    <3>. DEFINE m == (n + 1) + 1
    <3>. SUFFICES ASSUME n + 1 <= l PROVE g[m] \in Seq(S) /\ h[m] = g[m]
      BY DEF T
    <3>1. /\ n <= l /\ m \in 1..(l + 1) /\ m \in 1..Len(ss) /\ m \in 1..(Len(ss) + 1)
          /\ m # 1 /\ m - 1 = n + 1
      BY <2>1
    <3>. HIDE DEF m
    <3>2. g[n + 1] \in Seq(S) /\ h[n + 1] = g[n + 1]
      BY <2>5, <3>1
    <3>3. g[m] = g[n + 1] \o ss[m] /\ h[m] = h[n + 1] \o more[m]
      BY <1>4, <2>3, <3>1 DEF JoinAt
    <3>4. more[m] = ss[m] /\ ss[m] \in Seq(S)
      BY <1>1, <3>1
    <3>5. g[n + 1] \o ss[m] \in Seq(S)
      BY <3>2, <3>4, ConcatProperties
    <3>. QED  BY <3>2, <3>3, <3>4, <3>5
  <2>. HIDE DEF T
  <2>6. l \in T
    BY <2>1, <2>4, <2>5, Climb
  <2>7. g[l + 1] \in Seq(S) /\ h[l + 1] = g[l + 1]
    BY <2>1, <2>6 DEF T
  <2>8. h[Len(ss) + 1] = h[l + 1] \o more[Len(ss) + 1]
    <3>1. /\ Len(ss) + 1 \in 1..(Len(ss) + 1) /\ Len(ss) + 1 # 1
          /\ (Len(ss) + 1) - 1 = l + 1
      BY <1>1, <2>1
    <3>2. h[Len(ss) + 1] = JoinAt(more, h, Len(ss) + 1)
      BY <1>4, <3>1
    <3>. QED  BY <3>1, <3>2 DEF JoinAt
  <2>. QED  BY <1>1, <1>2, <1>3, <2>2, <2>7, <2>8 DEF more
<1>. QED  BY <1>5, <1>6

-----------------------------------------------------------------------------
(* Blocks, and what they hold.                                             *)

\* A function on 1..l is a sequence.
LEMMA ListIsSeq ==
  ASSUME NEW S, NEW l \in Nat, NEW q \in [1..l -> S]
  PROVE  q \in Seq(S) /\ Len(q) = l /\ DOMAIN q = 1..l
<1>1. q \in Seq(S)
  OBVIOUS
<1>. QED  BY <1>1, LenProperties

\* Adding to the second of two lists adds to both.
LEMMA ConcatAppend ==
  ASSUME NEW S, NEW s \in Seq(S), NEW t \in Seq(S), NEW g \in S
  PROVE  s \o Append(t, g) = Append(s \o t, g)
  OBVIOUS

\* Counting from 0 and counting from 1.
LEMMA Shifted ==
  ASSUME NEW l \in Nat
  PROVE  /\ \A i \in 0..(l - 1) : i + 1 \in 1..l /\ (i + 1) - 1 = i
         /\ \A n \in 1..l : n - 1 \in 0..(l - 1)
  OBVIOUS

\* A list with one element more.
LEMMA ListAdd ==
  ASSUME NEW S, NEW l \in Nat, NEW f \in [1..l -> S], NEW h \in [1..(l + 1) -> S],
         \A n \in 1..l : h[n] = f[n]
  PROVE  f \in Seq(S) /\ h[l + 1] \in S /\ h = Append(f, h[l + 1])
<1>1. f \in Seq(S) /\ Len(f) = l /\ h[l + 1] \in S
  BY ListIsSeq
<1>2. PICK r : r = Append(f, h[l + 1])
  OBVIOUS
<1>3. /\ r \in Seq(S) /\ Len(r) = l + 1 /\ r[l + 1] = h[l + 1]
      /\ \A n \in 1..l : r[n] = f[n]
  BY <1>1, <1>2, AppendProperties
<1>4. r \in [1..(l + 1) -> S]
  BY <1>3
<1>5. \A n \in 1..(l + 1) : n \in 1..l \/ n = l + 1
  OBVIOUS
<1>6. \A n \in 1..(l + 1) : r[n] = h[n]
  BY <1>3, <1>5
<1>. QED  BY <1>1, <1>2, <1>4, <1>6

\* What a block record holds.
LEMMA ResponseBlockFields ==
  ASSUME NEW b \in ResponseBlock
  PROVE  /\ b.kind \in SSE!BlockKinds /\ b.tool \in ToolIds \cup {NoTool}
         /\ b.name \in ToolIds \cup {NoTool} /\ b.pieces \in Nat
         /\ b.input \in {"empty", "given"}
         /\ b = [kind |-> b.kind, tool |-> b.tool, name |-> b.name, pieces |-> b.pieces,
                 input |-> b.input]
  BY DEF ResponseBlock

\* The block that e opens.
Begun(e) == Opened(NewBlock(e.kind), e)

\* What the start of a block says of it.
LEMMA BegunFields ==
  ASSUME NEW e \in SSE!Event
  PROVE  /\ Begun(e) \in ResponseBlock
         /\ Begun(e).kind = e.kind /\ Begun(e).pieces = 0
         /\ e.kind = "tool_use" => Begun(e).tool = e.tool /\ Begun(e).name = e.name
         /\ e.kind # "tool_use" => Begun(e).tool = NoTool /\ Begun(e).name = NoTool
<1>1. /\ e.kind \in SSE!BlockKinds /\ e.tool \in ToolIds \cup {NoTool}
      /\ e.name \in ToolIds \cup {NoTool}
  BY DEF SSE!Event
<1>2. CASE e.kind = "tool_use"
  <2>1. Begun(e) = [kind |-> e.kind, tool |-> e.tool, name |-> e.name, pieces |-> 0,
              input |-> "empty"]
    BY <1>2 DEF Begun, Opened, NewBlock
  <2>. QED  BY <1>1, <1>2, <2>1 DEF ResponseBlock
<1>3. CASE e.kind # "tool_use"
  <2>1. Begun(e) = [kind |-> e.kind, tool |-> NoTool, name |-> NoTool, pieces |-> 0,
              input |-> "empty"]
    BY <1>3 DEF Begun, Opened, NewBlock
  <2>. QED  BY <1>1, <1>3, <2>1 DEF ResponseBlock
<1>. QED  BY <1>2, <1>3

\* What a delta changes in a block.
LEMMA FedFields ==
  ASSUME NEW b \in ResponseBlock, NEW e \in SSE!Event
  PROVE  /\ Fed(b, e) \in ResponseBlock
         /\ Fed(b, e).kind = b.kind /\ Fed(b, e).pieces = b.pieces + 1
         /\ Fed(b, e).tool = (IF b.tool = NoTool THEN e.tool ELSE b.tool)
         /\ Fed(b, e).name = (IF b.name = NoTool THEN e.name ELSE b.name)
<1>1. e.tool \in ToolIds \cup {NoTool} /\ e.name \in ToolIds \cup {NoTool}
  BY DEF SSE!Event
<1>. DEFINE tool == IF b.tool = NoTool THEN e.tool ELSE b.tool
            name == IF b.name = NoTool THEN e.name ELSE b.name
<1>2. Fed(b, e) = [kind |-> b.kind, tool |-> tool, name |-> name, pieces |-> b.pieces + 1,
                   input |-> b.input]
  BY DEF Fed
<1>3. /\ tool \in ToolIds \cup {NoTool} /\ name \in ToolIds \cup {NoTool}
      /\ b.pieces + 1 \in Nat
  BY <1>1, ResponseBlockFields
<1>. HIDE DEF tool, name
<1>4. Fed(b, e) \in ResponseBlock
  BY <1>2, <1>3, ResponseBlockFields DEF ResponseBlock
<1>. QED  BY <1>2, <1>4 DEF tool, name

\* content_block_start of a new block.
LEMMA OpenAdds ==
  ASSUME NEW acc, NEW e, e.index \notin DOMAIN acc, e.type = "content_block_start"
  PROVE  /\ DOMAIN Accumulate(acc, e) = DOMAIN acc \cup {e.index}
         /\ \A i \in DOMAIN acc : Accumulate(acc, e)[i] = acc[i]
         /\ Accumulate(acc, e)[e.index] = Begun(e)
<1>. DEFINE m == EnsureBlock(acc, e)
<1>1. m = [i \in DOMAIN acc \cup {e.index} |->
             IF i = e.index THEN NewBlock(e.kind) ELSE acc[i]]
  BY DEF EnsureBlock
<1>2. Accumulate(acc, e) = [m EXCEPT ![e.index] = Opened(m[e.index], e)]
  BY DEF Accumulate, OpenBlock
<1>. HIDE DEF m
<1>3. /\ DOMAIN m = DOMAIN acc \cup {e.index} /\ m[e.index] = NewBlock(e.kind)
      /\ \A i \in DOMAIN acc : m[i] = acc[i] /\ i # e.index
  BY <1>1
<1>. QED  BY <1>2, <1>3 DEF Begun

\* content_block_delta to a block that is there.
LEMMA PieceAdds ==
  ASSUME NEW acc, NEW e, e.index \in DOMAIN acc, e.type = "content_block_delta"
  PROVE  /\ DOMAIN Accumulate(acc, e) = DOMAIN acc
         /\ \A i \in DOMAIN acc : i # e.index => Accumulate(acc, e)[i] = acc[i]
         /\ Accumulate(acc, e)[e.index] = Fed(acc[e.index], e)
<1>1. EnsureBlock(acc, e) = acc
  BY DEF EnsureBlock
<1>2. Accumulate(acc, e) = [acc EXCEPT ![e.index] = Fed(acc[e.index], e)]
  BY <1>1 DEF Accumulate, AddPiece
<1>. QED  BY <1>2

\* The other events say nothing of blocks.
LEMMA OtherAdds ==
  ASSUME NEW acc, NEW e, e.type \notin {"content_block_start", "content_block_delta"}
  PROVE  Accumulate(acc, e) = acc
  BY DEF Accumulate

\* sort.Ints leaves indices without gaps as they are.
LEMMA OrderedInterval ==
  ASSUME NEW l \in Nat
  PROVE  Ordered(0..(l - 1)) = [n \in 1..l |-> n - 1]
<1>. DEFINE K == 0..(l - 1)
<1>1. Cardinality(K) = l
  <2>1. 0 \in Int /\ l - 1 \in Int
    OBVIOUS
  <2>2. Cardinality(K) = IF 0 > l - 1 THEN 0 ELSE (l - 1) - 0 + 1
    BY <2>1, FS_Interval
  <2>. QED  BY <2>2
<1>2. ASSUME NEW i \in K PROVE Cardinality({j \in K : j < i}) = i
  <2>1. {j \in K : j < i} = 0..(i - 1)
    OBVIOUS
  <2>2. 0 \in Int /\ i - 1 \in Int /\ i \in Nat
    OBVIOUS
  <2>3. Cardinality(0..(i - 1)) = IF 0 > i - 1 THEN 0 ELSE (i - 1) - 0 + 1
    BY <2>2, FS_Interval
  <2>4. (IF 0 > i - 1 THEN 0 ELSE (i - 1) - 0 + 1) = i
    BY <2>2
  <2>. QED  BY <2>1, <2>3, <2>4
<1>3. ASSUME NEW n \in 1..l
      PROVE  (CHOOSE i \in K : Cardinality({j \in K : j < i}) = n - 1) = n - 1
  <2>1. n - 1 \in K
    OBVIOUS
  <2>. HIDE DEF K
  <2>. QED  BY <1>2, <2>1
<1>4. Ordered(K) = [n \in 1..l |-> CHOOSE i \in K : Cardinality({j \in K : j < i}) = n - 1]
  BY <1>1 DEF Ordered
<1>. HIDE DEF K
<1>5. Ordered(K) = [n \in 1..l |-> n - 1]
  BY <1>3, <1>4
<1>. QED  BY <1>5 DEF K

\* One more event is counted if it is of the type counted.
LEMMA OfTypeAdd ==
  ASSUME NEW evs \in Seq(SSE!Event), NEW e, NEW type
  PROVE  /\ IsFiniteSet(OfType(evs, type))
         /\ e.type = type =>
              Cardinality(OfType(Append(evs, e), type)) = Cardinality(OfType(evs, type)) + 1
         /\ e.type # type => OfType(Append(evs, e), type) = OfType(evs, type)
<1>. DEFINE S == SSE!Event \cup {e}
            r == Append(evs, e)
            l == Len(evs)
<1>1. evs \in Seq(S) /\ e \in S
  OBVIOUS
<1>. HIDE DEF S
<1>2. /\ l \in Nat /\ DOMAIN evs = 1..l /\ DOMAIN r = 1..(l + 1)
      /\ \A i \in 1..l : r[i] = evs[i]
      /\ r[l + 1] = e
  BY <1>1, AppendProperties
<1>. HIDE DEF r, l
<1>3. OfType(evs, type) \subseteq 1..l
  BY <1>2 DEF OfType
<1>4. IsFiniteSet(OfType(evs, type))
  <2>1. IsFiniteSet(1..l)
    BY <1>2, FS_Interval
  <2>. QED  BY <1>3, <2>1, FS_Subset
<1>5. 1..(l + 1) = (1..l) \cup {l + 1} /\ l + 1 \notin 1..l
  BY <1>2
<1>6. OfType(r, type) = OfType(evs, type) \cup (IF e.type = type THEN {l + 1} ELSE {})
  BY <1>2, <1>5 DEF OfType
<1>7. l + 1 \notin OfType(evs, type)
  BY <1>3, <1>5
<1>8. ASSUME e.type = type
      PROVE  Cardinality(OfType(r, type)) = Cardinality(OfType(evs, type)) + 1
  <2>1. OfType(r, type) = OfType(evs, type) \cup {l + 1}
    BY <1>6, <1>8
  <2>. QED  BY <1>4, <1>7, <2>1, FS_AddElement
<1>9. ASSUME e.type # type PROVE OfType(r, type) = OfType(evs, type)
  BY <1>6, <1>9
<1>. QED  BY <1>4, <1>8, <1>9 DEF r

-----------------------------------------------------------------------------
(* What was collected is what a streaming client was told.                 *)

Piece == [kind : SSE!BlockKinds, tool : ToolIds \cup {NoTool}]

\* The pieces of a block are as many as it counts.
LEMMA PiecesType ==
  ASSUME NEW b \in ResponseBlock
  PROVE  Pieces(b) \in Seq(Piece) /\ Len(Pieces(b)) = b.pieces
<1>1. b.pieces \in Nat /\ [kind |-> b.kind, tool |-> b.tool] \in Piece
  BY ResponseBlockFields DEF Piece
<1>2. Pieces(b) \in [1..b.pieces -> Piece]
  BY <1>1 DEF Pieces
<1>3. Pieces(b) \in Seq(Piece)
  BY <1>1, <1>2
<1>. QED  BY <1>1, <1>2, <1>3, LenProperties

\* The pieces in the blocks of m, by block.
Parts(m, l) == [n \in 1..l |-> Pieces(m[n - 1])]

\* One block more adds its pieces.
LEMMA PartsAdd ==
  ASSUME NEW m, NEW l \in Nat, \A n \in 1..(l + 1) : m[n - 1] \in ResponseBlock
  PROVE  /\ FlattenSeq(Parts(m, 0)) = <<>>
         /\ FlattenSeq(Parts(m, l)) \in Seq(Piece)
         /\ FlattenSeq(Parts(m, l + 1)) = FlattenSeq(Parts(m, l)) \o Pieces(m[l])
<1>1. \A n \in 1..(l + 1) : Pieces(m[n - 1]) \in Seq(Piece)
  BY PiecesType
<1>2. /\ Parts(m, l) \in [1..l -> Seq(Piece)] /\ Parts(m, l + 1) \in [1..(l + 1) -> Seq(Piece)]
      /\ \A n \in 1..l : Parts(m, l)[n] = Pieces(m[n - 1])
      /\ \A n \in 1..(l + 1) : Parts(m, l + 1)[n] = Pieces(m[n - 1])
  BY <1>1 DEF Parts
<1>3. l + 1 \in 1..(l + 1) /\ (l + 1) - 1 = l /\ \A n \in 1..l : n \in 1..(l + 1)
  OBVIOUS
<1>4. Parts(m, l + 1)[l + 1] = Pieces(m[l]) /\ Pieces(m[l]) \in Seq(Piece)
  BY <1>1, <1>2, <1>3
<1>5. Parts(m, l) \in Seq(Seq(Piece)) /\ Parts(m, l + 1) = Append(Parts(m, l), Pieces(m[l]))
  BY <1>2, <1>3, <1>4, ListAdd
<1>6. Parts(m, 0) = <<>>
  BY DEF Parts
<1>. QED  BY <1>4, <1>5, <1>6, JoinAdd

\* The pieces are those of the blocks, whatever else these hold.
LEMMA PartsSame ==
  ASSUME NEW m, NEW k, NEW l \in Nat,
         \A n \in 1..l : Pieces(m[n - 1]) = Pieces(k[n - 1])
  PROVE  Parts(m, l) = Parts(k, l)
  BY DEF Parts

\* A block told to a client has one of two kinds, and only a tool call has a tool.
OneKind(b) ==
  /\ b.kind \in {"text", "tool_use"}
  /\ b.kind = "text" => b.tool = NoTool /\ b.name = NoTool
  /\ b.kind = "tool_use" => b.tool # NoTool

\* The block b that was put together is the block t that a client was told of; a tool
\* call that began without a name may have got one later.
SameBlock(b, t) ==
  /\ b \in ResponseBlock
  /\ b.kind = t.kind /\ b.tool = t.tool
  /\ \/ b.name = t.name
     \/ t.name = NoTool /\ t.kind = "tool_use" /\ b.name \in ToolIds

\* From evs are put together the blocks told, and in them the pieces got.
Builds(evs, told, got) ==
  /\ evs \in Seq(SSE!Event)
  /\ DOMAIN BlockMap(evs) = 0..(Len(told) - 1)
  /\ \A n \in 1..Len(told) : SameBlock(BlockMap(evs)[n - 1], told[n])
  /\ FlattenSeq(Parts(BlockMap(evs), Len(told))) = got
  /\ Cardinality(OfType(evs, "content_block_delta")) = Len(got)

\* No events are no blocks.
LEMMA BuildsNothing == Builds(<<>>, <<>>, <<>>)
<1>1. <<>> \in Seq(SSE!Event) /\ Len(<<>>) = 0
  BY EmptySeq
<1>2. BlockMap(<<>>) = <<>>
  <2>1. <<>> \in Seq({0}) /\ 0 \in {0}
    OBVIOUS
  <2>. QED  BY <2>1, MapAdd
<1>3. DOMAIN BlockMap(<<>>) = 0..(0 - 1)
  BY <1>2
<1>4. FlattenSeq(Parts(BlockMap(<<>>), 0)) = <<>>
  <2>1. Parts(BlockMap(<<>>), 0) = <<>>
    BY DEF Parts
  <2>. QED  BY <2>1, JoinAdd, EmptySeq
<1>5. Cardinality(OfType(<<>>, "content_block_delta")) = 0
  <2>1. OfType(<<>>, "content_block_delta") = {}
    BY DEF OfType
  <2>. QED  BY <2>1, FS_EmptySet
<1>. QED  BY <1>1, <1>3, <1>4, <1>5 DEF Builds

\* A block that is told starts as the same block.
LEMMA StartBuilds ==
  ASSUME NEW S, NEW evs, NEW told \in Seq(S), NEW got, Builds(evs, told, got),
         NEW e \in SSE!Event, e.type = "content_block_start", e.index = Len(told),
         OneKind(e), NEW t \in S, t.kind = e.kind, t.tool = e.tool, t.name = e.name
  PROVE  Builds(Append(evs, e), Append(told, t), got)
<1>. DEFINE m == BlockMap(evs)
            k == BlockMap(Append(evs, e))
            l == Len(told)
<1>1. /\ evs \in Seq(SSE!Event) /\ Append(evs, e) \in Seq(SSE!Event) /\ l \in Nat
      /\ Len(Append(told, t)) = l + 1 /\ Append(told, t)[l + 1] = t
      /\ \A n \in 1..l : Append(told, t)[n] = told[n]
  BY AppendProperties DEF Builds
<1>2. k = Accumulate(m, e)
  BY <1>1, MapAdd
<1>3. DOMAIN m = 0..(l - 1) /\ \A n \in 1..l : SameBlock(m[n - 1], told[n])
  BY DEF Builds
<1>4. FlattenSeq(Parts(m, l)) = got /\ Cardinality(OfType(evs, "content_block_delta")) = Len(got)
  BY DEF Builds
<1>. HIDE DEF m, k, l
<1>5. e.index \notin DOMAIN m /\ e.index = l
  <2>1. l \notin 0..(l - 1)
    BY <1>1
  <2>. QED  BY <1>3, <2>1 DEF l
<1>6. /\ DOMAIN k = DOMAIN m \cup {l} /\ k[l] = Begun(e)
      /\ \A i \in DOMAIN m : k[i] = m[i]
  <2>1. /\ DOMAIN Accumulate(m, e) = DOMAIN m \cup {e.index}
        /\ \A i \in DOMAIN m : Accumulate(m, e)[i] = m[i]
        /\ Accumulate(m, e)[e.index] = Begun(e)
    BY <1>5, OpenAdds
  <2>. QED  BY <1>2, <1>5, <2>1
<1>7. DOMAIN k = 0..((l + 1) - 1) /\ \A n \in 1..l : k[n - 1] = m[n - 1]
  <2>1. (0..(l - 1)) \cup {l} = 0..((l + 1) - 1) /\ \A n \in 1..l : n - 1 \in 0..(l - 1)
    BY <1>1
  <2>. QED  BY <1>3, <1>6, <2>1
<1>8. SameBlock(k[l], t)
  <2>1. k[l] \in ResponseBlock /\ k[l].kind = t.kind
    BY <1>6, BegunFields
  <2>2. k[l].tool = t.tool /\ k[l].name = t.name
    BY <1>6, BegunFields DEF OneKind
  <2>. QED  BY <2>1, <2>2 DEF SameBlock
<1>9. \A n \in 1..(l + 1) : SameBlock(k[n - 1], Append(told, t)[n])
  <2>1. \A n \in 1..(l + 1) : n \in 1..l \/ n = l + 1
    BY <1>1
  <2>2. (l + 1) - 1 = l
    BY <1>1
  <2>3. \A n \in 1..l : SameBlock(k[n - 1], Append(told, t)[n])
    BY <1>1, <1>3, <1>7
  <2>. QED  BY <1>1, <1>8, <2>1, <2>2, <2>3
<1>10. FlattenSeq(Parts(k, l + 1)) = got
  <2>1. \A n \in 1..(l + 1) : k[n - 1] \in ResponseBlock
    BY <1>9 DEF SameBlock
  <2>2. /\ FlattenSeq(Parts(k, l)) \in Seq(Piece)
        /\ FlattenSeq(Parts(k, l + 1)) = FlattenSeq(Parts(k, l)) \o Pieces(k[l])
    BY <1>1, <2>1, PartsAdd
  <2>3. Parts(k, l) = Parts(m, l)
    BY <1>1, <1>7, PartsSame
  <2>4. Pieces(k[l]) = <<>>
    BY <1>6, BegunFields DEF Pieces
  <2>. QED  BY <1>4, <2>2, <2>3, <2>4, ConcatEmptySeq
<1>11. Cardinality(OfType(Append(evs, e), "content_block_delta")) = Len(got)
  BY <1>1, <1>4, OfTypeAdd
<1>. QED  BY <1>1, <1>7, <1>9, <1>10, <1>11 DEF Builds, k

\* A piece for the block that is open goes to the same block.
LEMMA DeltaBuilds ==
  ASSUME NEW S, NEW evs, NEW told \in Seq(S), NEW got \in Seq(Piece), Builds(evs, told, got),
         NEW e \in SSE!Event, e.type = "content_block_delta", Len(told) > 0,
         e.index = Len(told) - 1, OneKind(e), OneKind(told[Len(told)]),
         e.kind = told[Len(told)].kind, e.tool = told[Len(told)].tool
  PROVE  Builds(Append(evs, e), told, Append(got, [kind |-> e.kind, tool |-> e.tool]))
<1>. DEFINE m == BlockMap(evs)
            k == BlockMap(Append(evs, e))
            l == Len(told) - 1
            t == told[Len(told)]
            g == [kind |-> e.kind, tool |-> e.tool]
<1>1. /\ evs \in Seq(SSE!Event) /\ Append(evs, e) \in Seq(SSE!Event) /\ l \in Nat
      /\ Len(told) = l + 1 /\ e.index = l
  BY AppendProperties DEF Builds
<1>2. k = Accumulate(m, e)
  BY <1>1, MapAdd
<1>3. DOMAIN m = 0..(Len(told) - 1) /\ \A n \in 1..Len(told) : SameBlock(m[n - 1], told[n])
  BY DEF Builds
<1>4. /\ FlattenSeq(Parts(m, Len(told))) = got
      /\ Cardinality(OfType(evs, "content_block_delta")) = Len(got)
  BY DEF Builds
<1>. HIDE DEF m, k, l
<1>5. /\ l \in DOMAIN m /\ l + 1 \in 1..Len(told) /\ (l + 1) - 1 = l
      /\ \A n \in 1..l : n - 1 \in DOMAIN m /\ n - 1 # l /\ n \in 1..Len(told)
  <2>1. /\ l \in 0..((l + 1) - 1) /\ l + 1 \in 1..(l + 1) /\ (l + 1) - 1 = l
        /\ \A n \in 1..l : n - 1 \in 0..((l + 1) - 1) /\ n - 1 # l /\ n \in 1..(l + 1)
    BY <1>1
  <2>. QED  BY <1>1, <1>3, <2>1
<1>6. SameBlock(m[l], t)
  BY <1>1, <1>3, <1>5
<1>7. /\ DOMAIN k = DOMAIN m /\ k[l] = Fed(m[l], e)
      /\ \A n \in 1..l : k[n - 1] = m[n - 1]
  BY <1>1, <1>2, <1>5, PieceAdds
<1>8. /\ SameBlock(k[l], t) /\ k[l].kind = e.kind /\ k[l].tool = e.tool
      /\ k[l].pieces = m[l].pieces + 1
  <2>1. /\ m[l] \in ResponseBlock /\ m[l].kind = e.kind /\ m[l].tool = e.tool
        /\ \/ m[l].name = t.name
           \/ t.name = NoTool /\ t.kind = "tool_use" /\ m[l].name \in ToolIds
    BY <1>6 DEF SameBlock
  <2>2. /\ k[l] \in ResponseBlock /\ k[l].kind = e.kind /\ k[l].tool = e.tool
        /\ k[l].pieces = m[l].pieces + 1
        /\ k[l].name = (IF m[l].name = NoTool THEN e.name ELSE m[l].name)
    BY <1>7, <2>1, FedFields
  <2>3. e.name \in ToolIds \cup {NoTool} /\ NoTool \notin ToolIds
    BY FramesAssumption DEF SSE!Event
  <2>4. \/ k[l].name = t.name
        \/ t.name = NoTool /\ t.kind = "tool_use" /\ k[l].name \in ToolIds
    BY <2>1, <2>2, <2>3 DEF OneKind
  <2>. QED  BY <2>2, <2>4 DEF SameBlock
<1>9. \A n \in 1..Len(told) : SameBlock(k[n - 1], told[n])
  <2>1. \A n \in 1..Len(told) : n \in 1..l \/ n = l + 1
    BY <1>1
  <2>2. \A n \in 1..l : SameBlock(k[n - 1], told[n])
    BY <1>3, <1>5, <1>7
  <2>. QED  BY <1>1, <1>5, <1>8, <2>1, <2>2
<1>10. FlattenSeq(Parts(k, Len(told))) = Append(got, g)
  <2>1. /\ \A n \in 1..(l + 1) : m[n - 1] \in ResponseBlock
        /\ \A n \in 1..(l + 1) : k[n - 1] \in ResponseBlock
    BY <1>1, <1>3, <1>9 DEF SameBlock
  <2>2. /\ FlattenSeq(Parts(m, l)) \in Seq(Piece)
        /\ FlattenSeq(Parts(m, l + 1)) = FlattenSeq(Parts(m, l)) \o Pieces(m[l])
        /\ FlattenSeq(Parts(k, l + 1)) = FlattenSeq(Parts(k, l)) \o Pieces(k[l])
    BY <1>1, <2>1, PartsAdd
  <2>3. Parts(k, l) = Parts(m, l)
    BY <1>1, <1>7, PartsSame
  <2>4. m[l] \in ResponseBlock /\ k[l] \in ResponseBlock /\ m[l].kind = e.kind /\ m[l].tool = e.tool
    BY <1>6, <1>8 DEF SameBlock
  <2>5. Pieces(m[l]) \in Seq(Piece) /\ Pieces(k[l]) = Append(Pieces(m[l]), g)
    <3>1. Pieces(m[l]) \in Seq(Piece) /\ Len(Pieces(m[l])) = m[l].pieces /\ m[l].pieces \in Nat
      BY <2>4, PiecesType, ResponseBlockFields
    <3>2. /\ Pieces(m[l]) = [i \in 1..m[l].pieces |-> g]
          /\ Pieces(k[l]) = [i \in 1..(m[l].pieces + 1) |-> g]
      BY <1>8, <2>4 DEF Pieces
    <3>3. g \in Piece
      BY DEF Piece, SSE!Event
    <3>. HIDE DEF g
    <3>. QED  BY <3>1, <3>2, <3>3
  <2>6. g \in Piece
    BY DEF Piece, SSE!Event
  <2>. HIDE DEF g
  <2>7. FlattenSeq(Parts(m, l)) \o Append(Pieces(m[l]), g)
          = Append(FlattenSeq(Parts(m, l)) \o Pieces(m[l]), g)
    BY <2>2, <2>5, <2>6, ConcatAppend
  <2>. QED  BY <1>1, <1>4, <2>2, <2>3, <2>5, <2>7
<1>11. Cardinality(OfType(Append(evs, e), "content_block_delta")) = Len(Append(got, g))
  <2>1. g \in Piece
    BY DEF Piece, SSE!Event
  <2>2. Len(Append(got, g)) = Len(got) + 1
    BY <2>1, AppendProperties
  <2>. QED  BY <1>1, <1>4, <2>2, OfTypeAdd
<1>. QED  BY <1>1, <1>3, <1>7, <1>9, <1>10, <1>11 DEF Builds, k

\* The other events add nothing.
LEMMA OtherBuilds ==
  ASSUME NEW evs, NEW told, NEW got, Builds(evs, told, got), NEW e \in SSE!Event,
         e.type \notin {"content_block_start", "content_block_delta"}
  PROVE  Builds(Append(evs, e), told, got)
<1>1. evs \in Seq(SSE!Event) /\ Append(evs, e) \in Seq(SSE!Event)
  BY AppendProperties DEF Builds
<1>2. BlockMap(Append(evs, e)) = BlockMap(evs)
  BY <1>1, MapAdd, OtherAdds
<1>3. OfType(Append(evs, e), "content_block_delta") = OfType(evs, "content_block_delta")
  BY <1>1, OfTypeAdd
<1>. QED  BY <1>1, <1>2, <1>3 DEF Builds

-----------------------------------------------------------------------------
(* What a batch tells of blocks: the kind and the tool of each.            *)

AllShaped(q) ==
  \A i \in 1..Len(q) :
    q[i].type \in {"content_block_start", "content_block_delta"} => OneKind(q[i])

\* Adding an event of one kind, and taking one away.
LEMMA AppendShaped ==
  ASSUME NEW q \in Seq(SSE!Event), AllShaped(q), NEW e \in SSE!Event,
         e.type \in {"content_block_start", "content_block_delta"} => OneKind(e)
  PROVE  AllShaped(Append(q, e))
<1>. DEFINE r == Append(q, e)
<1>1. /\ Len(q) \in Nat /\ Len(r) = Len(q) + 1
      /\ \A i \in 1..Len(q) : r[i] = q[i]
      /\ r[Len(r)] = e
  BY AppendProperties
<1>. HIDE DEF r
<1>2. \A i \in 1..Len(r) : i \in 1..Len(q) \/ i = Len(r)
  BY <1>1
<1>. QED  BY <1>1, <1>2 DEF AllShaped, r

LEMMA TailShaped ==
  ASSUME NEW q \in Seq(SSE!Event), q # <<>>, AllShaped(q)
  PROVE  /\ AllShaped(Tail(q))
         /\ Head(q).type \in {"content_block_start", "content_block_delta"} => OneKind(Head(q))
<1>. DEFINE t == Tail(q)
<1>1. /\ Len(q) \in Nat /\ Len(q) >= 1 /\ Len(t) = Len(q) - 1
      /\ \A i \in 1..Len(t) : t[i] = q[i + 1]
      /\ Head(q) = q[1]
  BY HeadTailProperties
<1>. HIDE DEF t
<1>2. 1 \in 1..Len(q) /\ \A i \in 1..Len(t) : i + 1 \in 1..Len(q)
  BY <1>1
<1>. QED  BY <1>1, <1>2 DEF AllShaped, t

\* Each function that builds a batch leaves it so.
LEMMA CloseShaped ==
  ASSUME NEW p \in Batch, AllShaped(p.out)
  PROVE  CloseCurrentBlock(p) \in Batch /\ AllShaped(CloseCurrentBlock(p).out)
<1>1. CloseCurrentBlock(p) \in Batch
  BY CloseKeeps DEF KeepsOut
<1>2. CASE NoBlockOpen(p.st)
  BY <1>1, <1>2 DEF CloseCurrentBlock
<1>3. CASE ~NoBlockOpen(p.st)
  <2>1. p.st \in ParserState /\ p.out \in Seq(SSE!Event)
    BY DEF Batch
  <2>2. BlockStop(p.st) \in SSE!Event /\ BlockStop(p.st).type = "content_block_stop"
    BY <2>1, StopEvent
  <2>3. CloseCurrentBlock(p).out = Append(p.out, BlockStop(p.st))
    BY <1>3 DEF CloseCurrentBlock
  <2>. QED  BY <1>1, <2>1, <2>2, <2>3, AppendShaped
<1>. QED  BY <1>2, <1>3

LEMMA StartShaped ==
  ASSUME NEW p \in Batch, AllShaped(p.out), NEW kind \in {"text", "tool_use"},
         NEW tool \in ToolIds \cup {NoTool}, NEW name \in ToolIds \cup {NoTool},
         kind = "text" => tool = NoTool /\ name = NoTool, kind = "tool_use" => tool # NoTool
  PROVE  /\ StartBlock(p, kind, tool, name) \in Batch
         /\ AllShaped(StartBlock(p, kind, tool, name).out)
<1>. DEFINE i  == p.st.nextBlockIndex
            st == Parser(kind, i, tool, name, i + 1)
            e  == BlockStart(st)
<1>1. StartBlock(p, kind, tool, name) \in Batch
  BY StartKeeps DEF KeepsOut
<1>2. p.st \in ParserState /\ p.out \in Seq(SSE!Event)
  BY DEF Batch
<1>3. i \in Nat
  BY <1>2, ParserFields
<1>4. st \in ParserState
  BY <1>3, AgreesOpened
<1>5. e \in SSE!Event
  BY <1>4, StartEvent
<1>6. e.kind = kind /\ e.tool = tool /\ e.name = name
  BY DEF BlockStart, Parser, SSE!Ev
<1>7. StartBlock(p, kind, tool, name).out = Append(p.out, e)
  BY DEF StartBlock
<1>. HIDE DEF e, st
<1>8. OneKind(e)
  BY <1>6 DEF OneKind
<1>. QED  BY <1>1, <1>2, <1>5, <1>7, <1>8, AppendShaped

LEMMA BlockDeltaShaped ==
  ASSUME NEW p \in Batch, AllShaped(p.out), NEW kind \in {"text", "tool_use"},
         NEW tool \in ToolIds \cup {NoTool}, NEW name \in ToolIds \cup {NoTool},
         kind = "text" => tool = NoTool /\ name = NoTool, kind = "tool_use" => tool # NoTool
  PROVE  /\ Emit(p, BlockDelta(p.st, kind, tool, name)) \in Batch
         /\ AllShaped(Emit(p, BlockDelta(p.st, kind, tool, name)).out)
<1>. DEFINE e == BlockDelta(p.st, kind, tool, name)
<1>1. Emit(p, e) \in Batch
  BY BlockDeltaAdds
<1>2. p.st \in ParserState /\ p.out \in Seq(SSE!Event)
  BY DEF Batch
<1>3. kind \in SSE!BlockKinds
  BY DEF SSE!BlockKinds
<1>4. /\ e \in SSE!Event /\ e.type = "content_block_delta"
      /\ e.kind = kind /\ e.tool = tool
  <2>1. p.st.currentBlockIndex \in Int
    BY <1>2, ParserFields
  <2>. QED  BY <1>3, <2>1 DEF BlockDelta, SSE!Ev, SSE!Event, SSE!EventTypes
<1>5. e.name = name
  BY DEF BlockDelta, SSE!Ev
<1>6. Emit(p, e).out = Append(p.out, e)
  BY DEF Emit
<1>. HIDE DEF e
<1>7. OneKind(e)
  BY <1>4, <1>5 DEF OneKind
<1>8. AllShaped(Emit(p, e).out)
  BY <1>2, <1>4, <1>6, <1>7, AppendShaped
<1>. QED  BY <1>1, <1>8 DEF e

LEMMA MessageDeltaShaped ==
  ASSUME NEW p \in Batch, AllShaped(p.out), NEW reason \in {"tool_use", "end_turn"}
  PROVE  /\ Emit(p, MessageDelta(reason)) \in Batch
         /\ AllShaped(Emit(p, MessageDelta(reason)).out)
<1>. DEFINE e == MessageDelta(reason)
<1>1. Emit(p, e) \in Batch
  BY MessageDeltaKeeps DEF KeepsOut
<1>2. p.out \in Seq(SSE!Event)
  BY DEF Batch
<1>3. e.type = "message_delta"
  BY DEF MessageDelta, SSE!Ev
<1>4. e \in SSE!Event
  <2>1. CASE reason = "tool_use"
    BY <2>1 DEF MessageDelta, SSE!Ev, SSE!Event, SSE!EventTypes, SSE!BlockKinds
  <2>2. CASE reason = "end_turn"
    BY <2>2 DEF MessageDelta, SSE!Ev, SSE!Event, SSE!EventTypes, SSE!BlockKinds
  <2>. QED  BY <2>1, <2>2
<1>5. Emit(p, e).out = Append(p.out, e)
  BY DEF Emit
<1>. HIDE DEF e
<1>6. AllShaped(Emit(p, e).out)
  BY <1>2, <1>3, <1>4, <1>5, AppendShaped
<1>. QED  BY <1>1, <1>6 DEF e

LEMMA TextShaped ==
  ASSUME NEW p \in Batch, AllShaped(p.out)
  PROVE  AllShaped(AppendText(p).out)
<1>. DEFINE q == IF p.st.currentBlockType = "text" THEN p
                 ELSE StartTextBlock(CloseCurrentBlock(p))
<1>1. q \in Batch /\ AllShaped(q.out)
  <2>1. CASE p.st.currentBlockType = "text"
    BY <2>1
  <2>2. CASE p.st.currentBlockType # "text"
    <3>1. CloseCurrentBlock(p) \in Batch /\ AllShaped(CloseCurrentBlock(p).out)
      BY CloseShaped
    <3>. DEFINE s == StartBlock(CloseCurrentBlock(p), "text", NoTool, NoTool)
    <3>2. s \in Batch /\ AllShaped(s.out)
      BY <3>1, StartShaped
    <3>. QED  BY <2>2, <3>2 DEF StartTextBlock
  <2>. QED  BY <2>1, <2>2
<1>2. AppendText(p) = Emit(q, BlockDelta(q.st, "text", NoTool, NoTool))
  BY DEF AppendText
<1>. HIDE DEF q
<1>. QED  BY <1>1, <1>2, BlockDeltaShaped

LEMMA ToolUseShaped ==
  ASSUME NEW p \in Batch, AllShaped(p.out), NEW f \in Frame, f.toolUseId # NoTool
  PROVE  AllShaped(AppendToolUse(p, f).out)
<1>. DEFINE name == ToolName(p.st, f)
            c    == CloseCurrentBlock(p)
            s    == StartToolBlock(c, f.toolUseId, name)
            q    == IF Continues(p.st, f) THEN p ELSE s
            r    == IF f.input
                    THEN Emit(q, BlockDelta(q.st, "tool_use", f.toolUseId, name))
                    ELSE q
            last == Emit(CloseCurrentBlock(r), MessageDelta("tool_use"))
<1>1. f.toolUseId \in ToolIds \cup {NoTool} /\ f.name \in ToolIds \cup {NoTool}
  BY DEF Frame
<1>2. p.st \in ParserState
  BY DEF Batch
<1>3. name \in ToolIds \cup {NoTool}
  BY <1>1, <1>2, ParserFields DEF ToolName
<1>. HIDE DEF name
<1>4. c \in Batch /\ AllShaped(c.out)
  BY CloseShaped
<1>. HIDE DEF c
<1>5. s \in Batch /\ AllShaped(s.out)
  BY <1>1, <1>3, <1>4, StartShaped DEF StartToolBlock
<1>. HIDE DEF s
<1>6. q \in Batch /\ AllShaped(q.out)
  BY <1>5
<1>. HIDE DEF q
<1>7. r \in Batch /\ AllShaped(r.out)
  BY <1>1, <1>3, <1>6, BlockDeltaShaped
<1>8. AppendToolUse(p, f) = IF f.stop THEN last ELSE r
  BY DEF AppendToolUse, name, c, s, q, r
<1>. HIDE DEF r
<1>9. CloseCurrentBlock(r) \in Batch /\ AllShaped(CloseCurrentBlock(r).out)
  BY <1>7, CloseShaped
<1>10. AllShaped(last.out)
  BY <1>9, MessageDeltaShaped
<1>. QED  BY <1>7, <1>8, <1>10

LEMMA AssistantShaped ==
  ASSUME NEW st \in ParserState, NEW f \in Frame
  PROVE  AllShaped(AppendAssistantEvent(st, f).out)
<1>. DEFINE p == [st |-> st, out |-> <<>>]
            c == CloseCurrentBlock(p)
<1>1. p \in Batch /\ AllShaped(p.out)
  BY EmptySeq DEF Batch, AllShaped
<1>2. AppendAssistantEvent(st, f) = IF f.content THEN AppendText(p)
                                    ELSE IF f.toolUseId # NoTool THEN AppendToolUse(p, f)
                                    ELSE Emit(c, MessageDelta("end_turn"))
  BY DEF AppendAssistantEvent
<1>. HIDE DEF p
<1>3. c \in Batch /\ AllShaped(c.out)
  BY <1>1, CloseShaped
<1>. HIDE DEF c
<1>4. AllShaped(Emit(c, MessageDelta("end_turn")).out)
  BY <1>3, MessageDeltaShaped
<1>5. AllShaped(AppendText(p).out)
  BY <1>1, TextShaped
<1>6. f.toolUseId # NoTool => AllShaped(AppendToolUse(p, f).out)
  BY <1>1, ToolUseShaped
<1>. QED  BY <1>2, <1>4, <1>5, <1>6

LEMMA FinalizeShaped ==
  ASSUME NEW st \in ParserState, NEW had \in BOOLEAN
  PROVE  AllShaped(Finalize(st, had).out)
<1>. DEFINE p == [st |-> st, out |-> <<>>]
            c == CloseCurrentBlock(p)
            e == Emit(c, MessageDelta("end_turn"))
<1>1. p \in Batch /\ AllShaped(p.out)
  BY EmptySeq DEF Batch, AllShaped
<1>2. Finalize(st, had) \in {p, c, e}
  BY DEF Finalize
<1>. HIDE DEF p
<1>3. c \in Batch /\ AllShaped(c.out)
  BY <1>1, CloseShaped
<1>. HIDE DEF c
<1>4. AllShaped(e.out)
  BY <1>3, MessageDeltaShaped
<1>. HIDE DEF e
<1>. QED  BY <1>1, <1>2, <1>3, <1>4

-----------------------------------------------------------------------------
(* What the client is told, and the invariant of the collected events.     *)

\* The newest block of a client is the last it was told of.
Told ==
  /\ block.index = Len(blocks) - 1
  /\ block.open => /\ Len(blocks) > 0
                   /\ blocks[Len(blocks)].kind = block.kind
                   /\ blocks[Len(blocks)].tool = block.tool
  /\ \A n \in 1..Len(blocks) : OneKind(blocks[n])

\* The reply was put together from what was collected, by a parse that is over.
Answered ==
  response # NoResponse =>
    /\ consumer = "single" /\ phase = "done"
    /\ response = AssembleAnthropicResponse(events, parsable)

\* r is the reason of the last message_delta of evs.
LatestReason(evs, r) ==
  \E k \in OfType(evs, "message_delta") :
    /\ \A i \in OfType(evs, "message_delta") : i <= k
    /\ evs[k].reason = r

\* What was collected knows the reason the client of a stream was told last.
Reasoned ==
  IF stopped THEN LatestReason(events, lastReason) ELSE OfType(events, "message_delta") = {}

\* A parse that returned nil has emitted all its events.
Drained == phase = "done" => pending = <<>>

ResponseInv ==
  /\ AllShaped(pending)
  /\ Drained
  /\ Told
  /\ consumer = "single" => Builds(events, blocks, delivered) /\ Reasoned
  /\ Answered

\* A response is read by the parser of EventStream.
LEMMA ResponseRefines == ResponseSpec => Spec
<1>1. ResponseInit => Init
  BY DEF ResponseInit
<1>2. [ResponseNext]_allVars => [Next]_vars
  <2>1. Collect => EmitOne
    BY DEF Collect
  <2>2. Parse => ReadFrame \/ EndOfStream \/ Return \/ EmitFails
    BY DEF Parse
  <2>3. Assemble \/ UNCHANGED allVars => UNCHANGED vars
    BY DEF Assemble, allVars
  <2>. QED  BY <2>1, <2>2, <2>3 DEF ResponseNext, Next
<1>. QED  BY <1>1, <1>2, PTL DEF ResponseSpec, Spec

\* An event that a client may receive tells it of the block it has open.
LEMMA EmitOneTold ==
  ASSUME TypeOK, IInv, Told, AllShaped(pending), EmitOne
  PROVE  /\ Told'
         /\ event' = Head(pending) /\ event' \in SSE!Event /\ SSE!Legal(block, event')
<1>. DEFINE e == Head(pending)
            t == [kind |-> e.kind, tool |-> e.tool, name |-> e.name]
            T == [kind : SSE!BlockKinds, tool : ToolIds \cup {NoTool},
                  name : ToolIds \cup {NoTool}]
<1>1. /\ event' = e /\ event' \in SSE!Event /\ SSE!Legal(block, event')
      /\ block' = SSE!Receive(block, e)
      /\ blocks' = IF e.type = "content_block_start" THEN Append(blocks, t) ELSE blocks
  BY EmitOneStep DEF EmitOne
<1>2. /\ blocks \in Seq(T) /\ Len(blocks) \in Nat /\ block \in SSE!Block
      /\ pending \in Seq(SSE!Event) /\ pending # <<>>
  BY DEF TypeOK, EmitOne
<1>3. e.type \in {"content_block_start", "content_block_delta"} => OneKind(e)
  BY <1>2, TailShaped
<1>4. e \in SSE!Event /\ SSE!Legal(block, e)
  BY <1>1
<1>. HIDE DEF e
<1>5. CASE e.type = "content_block_start"
  <2>1. /\ block' = [open |-> TRUE, index |-> e.index, kind |-> e.kind, tool |-> e.tool]
        /\ blocks' = Append(blocks, t)
    BY <1>1, <1>5 DEF SSE!Receive
  <2>2. e.index = block.index + 1 /\ block.index = Len(blocks) - 1
    BY <1>4, <1>5 DEF SSE!Legal, Told
  <2>3. e.index = Len(blocks)
    BY <1>2, <2>2
  <2>4. t \in T
    BY <1>4 DEF SSE!Event
  <2>5. /\ Len(blocks') = Len(blocks) + 1 /\ blocks'[Len(blocks) + 1] = t
        /\ \A n \in 1..Len(blocks) : blocks'[n] = blocks[n]
    BY <1>2, <2>1, <2>4, AppendProperties
  <2>6. block'.index = Len(blocks') - 1 /\ Len(blocks') > 0
    <3>1. block'.index = Len(blocks)
      BY <2>1, <2>3
    <3>. QED  BY <1>2, <2>5, <3>1
  <2>7. /\ blocks'[Len(blocks')].kind = block'.kind
        /\ blocks'[Len(blocks')].tool = block'.tool
    BY <2>1, <2>5
  <2>8. OneKind(t)
    BY <1>3, <1>5 DEF OneKind
  <2>9. \A n \in 1..Len(blocks') : n \in 1..Len(blocks) \/ n = Len(blocks) + 1
    BY <1>2, <2>5
  <2>10. \A n \in 1..Len(blocks') : OneKind(blocks'[n])
    BY <2>5, <2>8, <2>9 DEF Told
  <2>. QED  BY <1>1, <2>6, <2>7, <2>10 DEF Told, e
<1>6. CASE e.type = "content_block_stop"
  <2>1. block'.open = FALSE /\ block'.index = e.index /\ blocks' = blocks
    BY <1>1, <1>6 DEF SSE!Receive
  <2>2. e.index = block.index
    BY <1>4, <1>6 DEF SSE!Legal
  <2>. QED  BY <1>1, <2>1, <2>2 DEF Told, e
<1>7. CASE e.type \notin {"content_block_start", "content_block_stop"}
  <2>1. block' = block /\ blocks' = blocks
    BY <1>1, <1>7 DEF SSE!Receive
  <2>. QED  BY <1>1, <2>1 DEF Told, e
<1>. QED  BY <1>5, <1>6, <1>7

\* The event that is collected adds to the blocks what it tells the client.
LEMMA EmitOneBuilds ==
  ASSUME TypeOK, IInv, Told, AllShaped(pending), EmitOne, Builds(events, blocks, delivered),
         events' = IF event'.type # "ping" THEN Append(events, event') ELSE events
  PROVE  Builds(events, blocks, delivered)'
<1>. DEFINE e == Head(pending)
            t == [kind |-> e.kind, tool |-> e.tool, name |-> e.name]
            T == [kind : SSE!BlockKinds, tool : ToolIds \cup {NoTool},
                  name : ToolIds \cup {NoTool}]
            g == [kind |-> block.kind, tool |-> block.tool]
<1>1. /\ event' = e /\ e \in SSE!Event /\ SSE!Legal(block, e)
      /\ blocks' = IF e.type = "content_block_start" THEN Append(blocks, t) ELSE blocks
      /\ delivered' = IF e.type = "content_block_delta" THEN Append(delivered, g) ELSE delivered
  BY EmitOneTold DEF EmitOne
<1>2. /\ blocks \in Seq(T) /\ Len(blocks) \in Nat /\ delivered \in Seq(Piece)
      /\ pending \in Seq(SSE!Event) /\ pending # <<>>
  BY DEF TypeOK, EmitOne, Piece
<1>3. e.type \in {"content_block_start", "content_block_delta"} => OneKind(e)
  BY <1>2, TailShaped
<1>. HIDE DEF e
<1>4. CASE e.type = "content_block_start"
  <2>1. events' = Append(events, e) /\ blocks' = Append(blocks, t) /\ delivered' = delivered
    BY <1>1, <1>4
  <2>2. e.index = block.index + 1 /\ block.index = Len(blocks) - 1
    BY <1>1, <1>4 DEF SSE!Legal, Told
  <2>3. e.index = Len(blocks)
    BY <1>2, <2>2
  <2>4. t \in T
    BY <1>1 DEF SSE!Event
  <2>5. t.kind = e.kind /\ t.tool = e.tool /\ t.name = e.name
    OBVIOUS
  <2>. HIDE DEF t, T
  <2>6. Builds(Append(events, e), Append(blocks, t), delivered)
    BY <1>1, <1>2, <1>3, <1>4, <2>3, <2>4, <2>5, StartBuilds
  <2>. QED  BY <2>1, <2>6
<1>5. CASE e.type = "content_block_delta"
  <2>1. events' = Append(events, e) /\ blocks' = blocks /\ delivered' = Append(delivered, g)
    BY <1>1, <1>5
  <2>2. block.open /\ e.index = block.index /\ e.kind = block.kind /\ e.tool = block.tool
    BY <1>1, <1>5 DEF SSE!Legal
  <2>3. /\ block.index = Len(blocks) - 1 /\ Len(blocks) > 0
        /\ blocks[Len(blocks)].kind = block.kind
        /\ blocks[Len(blocks)].tool = block.tool
        /\ \A n \in 1..Len(blocks) : OneKind(blocks[n])
    BY <2>2 DEF Told
  <2>4. Len(blocks) \in 1..Len(blocks)
    BY <1>2, <2>3
  <2>5. g = [kind |-> e.kind, tool |-> e.tool]
    BY <2>2
  <2>. HIDE DEF g, T
  <2>6. Builds(Append(events, e), blocks, Append(delivered, g))
    BY <1>1, <1>2, <1>3, <1>5, <2>2, <2>3, <2>4, <2>5, DeltaBuilds
  <2>. QED  BY <2>1, <2>6
<1>6. CASE e.type \notin {"content_block_start", "content_block_delta"}
  <2>1. blocks' = blocks /\ delivered' = delivered
    BY <1>1, <1>6
  <2>2. events' = events \/ events' = Append(events, e)
    BY <1>1
  <2>3. Builds(Append(events, e), blocks, delivered)
    BY <1>1, <1>6, OtherBuilds
  <2>. QED  BY <2>1, <2>2, <2>3
<1>. QED  BY <1>4, <1>5, <1>6

\* An event is the last message_delta if it is one, and leaves the last one alone if not.
LEMMA ReasonAdd ==
  ASSUME NEW evs \in Seq(SSE!Event), NEW e \in SSE!Event
  PROVE  /\ e.type = "message_delta" => LatestReason(Append(evs, e), e.reason)
         /\ e.type # "message_delta" =>
              /\ OfType(Append(evs, e), "message_delta") = OfType(evs, "message_delta")
              /\ \A r : LatestReason(evs, r) => LatestReason(Append(evs, e), r)
<1>. DEFINE q == Append(evs, e)
            l == Len(evs)
<1>1. /\ l \in Nat /\ DOMAIN evs = 1..l /\ DOMAIN q = 1..(l + 1)
      /\ \A i \in 1..l : q[i] = evs[i]
      /\ q[l + 1] = e
  BY AppendProperties
<1>2. e.type # "message_delta" =>
        OfType(q, "message_delta") = OfType(evs, "message_delta")
  BY OfTypeAdd
<1>. HIDE DEF q, l
<1>3. ASSUME e.type = "message_delta" PROVE LatestReason(q, e.reason)
  <2>1. l + 1 \in OfType(q, "message_delta")
    BY <1>1, <1>3 DEF OfType
  <2>2. \A i \in OfType(q, "message_delta") : i <= l + 1
    BY <1>1 DEF OfType
  <2>. QED  BY <1>1, <2>1, <2>2 DEF LatestReason
<1>4. ASSUME e.type # "message_delta", NEW r, LatestReason(evs, r) PROVE LatestReason(q, r)
  <2>1. PICK k \in OfType(evs, "message_delta") :
          /\ \A i \in OfType(evs, "message_delta") : i <= k
          /\ evs[k].reason = r
    BY <1>4 DEF LatestReason
  <2>2. k \in 1..l
    BY <1>1 DEF OfType
  <2>3. q[k].reason = r
    BY <1>1, <2>1, <2>2
  <2>. QED  BY <1>2, <1>4, <2>1, <2>3 DEF LatestReason
<1>. QED  BY <1>2, <1>3, <1>4 DEF q

\* What was collected goes on knowing the reason told last.
LEMMA EmitOneReasoned ==
  ASSUME TypeOK, IInv, Told, AllShaped(pending), EmitOne, Reasoned,
         events \in Seq(SSE!Event),
         events' = IF event'.type # "ping" THEN Append(events, event') ELSE events,
         lastReason' = IF event'.type = "message_delta" THEN event'.reason ELSE lastReason
  PROVE  Reasoned'
<1>. DEFINE e == event'
<1>1. e \in SSE!Event /\ stopped' = (stopped \/ e.type = "message_delta")
  BY EmitOneTold DEF EmitOne
<1>2. /\ events' = IF e.type # "ping" THEN Append(events, e) ELSE events
      /\ lastReason' = IF e.type = "message_delta" THEN e.reason ELSE lastReason
  OBVIOUS
<1>. HIDE DEF e
<1>3. CASE e.type = "message_delta"
  <2>1. events' = Append(events, e) /\ lastReason' = e.reason
    BY <1>2, <1>3
  <2>2. LatestReason(Append(events, e), e.reason)
    BY <1>1, <1>3, ReasonAdd
  <2>. QED  BY <1>1, <1>3, <2>1, <2>2 DEF Reasoned
<1>4. CASE e.type # "message_delta"
  <2>1. lastReason' = lastReason /\ (stopped' <=> stopped)
    BY <1>1, <1>2, <1>4
  <2>2. events' = events \/ events' = Append(events, e)
    BY <1>2
  <2>3. CASE events' = events
    BY <2>1, <2>3 DEF Reasoned
  <2>4. CASE events' = Append(events, e)
    <3>1. /\ OfType(Append(events, e), "message_delta") = OfType(events, "message_delta")
          /\ \A r : LatestReason(events, r) => LatestReason(Append(events, e), r)
      BY <1>1, <1>4, ReasonAdd
    <3>. QED  BY <2>1, <2>4, <3>1 DEF Reasoned
  <2>. QED  BY <2>2, <2>3, <2>4
<1>. QED  BY <1>3, <1>4

\* The steps of a response.
LEMMA CollectStep ==
  ASSUME TypeOK, IInv, ResponseInv, Collect
  PROVE  ResponseInv'
<1>1. /\ EmitOne
      /\ events' = IF consumer = "single" /\ event'.type # "ping" THEN Append(events, event')
                   ELSE events
      /\ lastReason' = IF event'.type = "message_delta" THEN event'.reason ELSE lastReason
      /\ UNCHANGED <<consumer, response, parsable>>
  BY DEF Collect
<1>2. Told /\ AllShaped(pending) /\ pending \in Seq(SSE!Event) /\ pending # <<>>
  BY <1>1 DEF ResponseInv, TypeOK, EmitOne
<1>3. Told'
  BY <1>1, <1>2, EmitOneTold
<1>4. AllShaped(pending)'
  <2>1. pending' = Tail(pending)
    BY <1>1 DEF EmitOne
  <2>. QED  BY <1>2, <2>1, TailShaped
<1>5. (consumer = "single" => Builds(events, blocks, delivered) /\ Reasoned)'
  <2>. SUFFICES ASSUME consumer = "single"
                PROVE  Builds(events, blocks, delivered)' /\ Reasoned'
    BY <1>1
  <2>1. events' = IF event'.type # "ping" THEN Append(events, event') ELSE events
    BY <1>1
  <2>2. Builds(events, blocks, delivered) /\ Reasoned
    BY DEF ResponseInv
  <2>3. Builds(events, blocks, delivered)'
    BY <1>1, <1>2, <2>1, <2>2, EmitOneBuilds
  <2>4. events \in Seq(SSE!Event)
    BY <2>2 DEF Builds
  <2>5. Reasoned'
    BY <1>1, <1>2, <2>1, <2>2, <2>4, EmitOneReasoned
  <2>. QED  BY <2>3, <2>5
<1>6. Answered'
  <2>1. phase # "done"
    BY <1>1 DEF EmitOne
  <2>. QED  BY <1>1, <2>1 DEF ResponseInv, Answered
<1>7. Drained'
  BY <1>1 DEF EmitOne, Drained
<1>. QED  BY <1>3, <1>4, <1>5, <1>6, <1>7 DEF ResponseInv

LEMMA ParseStep ==
  ASSUME TypeOK, ResponseInv, Parse
  PROVE  ResponseInv'
<1>1. UNCHANGED <<consumer, events, response, parsable, lastReason>>
  BY DEF Parse
<1>2. client' = client /\ phase # "done"
  BY DEF Parse, ReadFrame, ReadAssistantEvent, ReadMetadata, Read, EndOfStream, Return,
         EmitFails, client
<1>3. AllShaped(pending)'
  <2>1. state \in ParserState /\ hadMessageDelta \in BOOLEAN /\ AllShaped(pending)
    BY DEF TypeOK, ResponseInv
  <2>2. ASSUME NEW f \in Frames, ReadAssistantEvent(f) PROVE AllShaped(pending')
    <3>1. f \in Frame /\ pending' = AppendAssistantEvent(state, f).out
      BY <2>2, FramesAssumption DEF ReadAssistantEvent
    <3>. QED  BY <2>1, <3>1, AssistantShaped
  <2>3. ASSUME NEW f \in Frames, ReadMetadata(f) PROVE AllShaped(pending')
    <3>1. pending' = <<SSE!Ping>> \/ pending' = <<>>
      BY <2>3 DEF ReadMetadata
    <3>2. SSE!Ping.type = "ping"
      BY DEF SSE!Ping, SSE!Ev
    <3>. QED  BY <3>1, <3>2, EmptySeq DEF AllShaped
  <2>4. CASE EndOfStream
    <3>1. pending' = Finalize(state, hadMessageDelta).out
      BY <2>4 DEF EndOfStream
    <3>. QED  BY <2>1, <3>1, FinalizeShaped
  <2>5. CASE Return
    BY <2>1, <2>5 DEF Return
  <2>6. CASE EmitFails
    BY <2>6, EmptySeq DEF EmitFails, AllShaped
  <2>. QED  BY <2>2, <2>3, <2>4, <2>5, <2>6 DEF Parse, ReadFrame
<1>4. UNCHANGED <<block, blocks, delivered, stopped>>
  BY <1>2 DEF client
<1>5. Told'
  BY <1>4 DEF ResponseInv, Told
<1>6. (consumer = "single" => Builds(events, blocks, delivered) /\ Reasoned)'
  BY <1>1, <1>4 DEF ResponseInv, Reasoned
<1>7. Answered'
  BY <1>1, <1>2 DEF ResponseInv, Answered
<1>8. Drained'
  <2>1. phase' = "done" => Return
    BY <1>2 DEF Parse, ReadFrame, ReadAssistantEvent, ReadMetadata, Read, EndOfStream, EmitFails
  <2>. QED  BY <2>1 DEF Return, Drained
<1>. QED  BY <1>3, <1>5, <1>6, <1>7, <1>8 DEF ResponseInv

LEMMA AssembleStep ==
  ASSUME ResponseInv, Assemble
  PROVE  ResponseInv'
<1>1. /\ consumer = "single" /\ phase = "done"
      /\ response' = AssembleAnthropicResponse(events, parsable')
      /\ UNCHANGED <<vars, consumer, events, lastReason>>
  BY DEF Assemble
<1>2. UNCHANGED <<phase, pending, block, blocks, delivered, stopped, consumer, events,
                  lastReason>>
  BY <1>1 DEF vars, parser, client
<1>3. Answered'
  BY <1>1, <1>2 DEF Answered
<1>4. Told' /\ Drained'
  BY <1>2 DEF ResponseInv, Told, Drained
<1>5. /\ AllShaped(pending)'
      /\ (consumer = "single" => Builds(events, blocks, delivered) /\ Reasoned)'
  BY <1>2 DEF ResponseInv, Reasoned
<1>. QED  BY <1>3, <1>4, <1>5 DEF ResponseInv

LEMMA UnchangedStep ==
  ASSUME ResponseInv, UNCHANGED allVars
  PROVE  ResponseInv'
<1>1. UNCHANGED <<phase, pending, block, blocks, delivered, stopped, consumer, events,
                  response, parsable, lastReason>>
  BY DEF allVars, vars, parser, client
<1>2. Answered' /\ Told' /\ Drained'
  BY <1>1 DEF ResponseInv, Answered, Told, Drained
<1>3. /\ AllShaped(pending)'
      /\ (consumer = "single" => Builds(events, blocks, delivered) /\ Reasoned)'
  BY <1>1 DEF ResponseInv, Reasoned
<1>. QED  BY <1>2, <1>3 DEF ResponseInv

LEMMA InitResponse == ResponseInit => ResponseInv
<1>. SUFFICES ASSUME ResponseInit PROVE ResponseInv
  OBVIOUS
<1>1. /\ pending = <<>> /\ blocks = <<>> /\ delivered = <<>> /\ block = SSE!NoBlock
      /\ events = <<>> /\ response = NoResponse /\ stopped = FALSE
  BY DEF ResponseInit, Init
<1>2. AllShaped(pending)
  BY <1>1, EmptySeq DEF AllShaped
<1>3. Told
  <2>1. block.index = -1 /\ ~block.open
    BY <1>1 DEF SSE!NoBlock
  <2>2. Len(blocks) = 0
    BY <1>1, EmptySeq
  <2>. QED  BY <2>1, <2>2 DEF Told
<1>4. Reasoned
  <2>1. OfType(events, "message_delta") = {}
    BY <1>1, EmptySeq DEF OfType
  <2>. QED  BY <1>1, <2>1 DEF Reasoned
<1>. QED  BY <1>1, <1>2, <1>3, <1>4, BuildsNothing DEF ResponseInv, Answered, Drained

\* What ParseEvents collects is at every moment what the client of a stream was told.
THEOREM ResponseInductive == ResponseSpec => []ResponseInv
<1>1. TypeOK /\ IInv /\ ResponseInv /\ [ResponseNext]_allVars => ResponseInv'
  BY CollectStep, ParseStep, AssembleStep, UnchangedStep DEF ResponseNext
<1>. QED  BY <1>1, InitResponse, ResponseRefines, TypeCorrect, Inductive, PTL DEF ResponseSpec

-----------------------------------------------------------------------------
(* What the assembled message holds.                                       *)

\* The blocks of m are numbered from 0 without gaps.
Numbered(m, l) ==
  /\ DOMAIN m = 0..(l - 1)
  /\ \A n \in 1..l : m[n - 1] \in ResponseBlock /\ m[n - 1].kind # ""

\* The blocks of m, each at its place, with the input of those in parsed.
Lists(bs, m, l, parsed) ==
  /\ bs \in Seq(ResponseBlock) /\ DOMAIN bs = 1..l /\ Len(bs) = l
  /\ \A n \in 1..l : bs[n].input = IF n - 1 \in parsed THEN "given" ELSE "empty"
  /\ \A n \in 1..l : /\ bs[n].kind = m[n - 1].kind /\ bs[n].tool = m[n - 1].tool
                     /\ bs[n].name = m[n - 1].name /\ bs[n].pieces = m[n - 1].pieces

\* The message that is assembled has each of the blocks at its place.
LEMMA AssembledBlocks ==
  ASSUME NEW evs, NEW parsed, NEW l \in Nat, Numbered(BlockMap(evs), l)
  PROVE  LET r == AssembleAnthropicResponse(evs, parsed)
         IN  /\ Lists(r.blocks, BlockMap(evs), l, parsed)
             /\ r.reason = StopReason(evs, r.blocks)
             /\ r.outputTokens = Cardinality(OfType(evs, "content_block_delta"))
<1>. DEFINE m == BlockMap(evs)
            r == AssembleAnthropicResponse(evs, parsed)
<1>1. DOMAIN m = 0..(l - 1) /\ \A n \in 1..l : m[n - 1] \in ResponseBlock /\ m[n - 1].kind # ""
  BY DEF Numbered
<1>. DEFINE order == Ordered({i \in DOMAIN m : m[i].kind # ""})
            B(n)  == [m[order[n]] EXCEPT !.input = IF order[n] \in parsed THEN "given" ELSE "empty"]
            blks  == [n \in DOMAIN order |-> B(n)]
<1>4. /\ r.blocks = blks /\ r.reason = StopReason(evs, blks)
      /\ r.outputTokens = Cardinality(OfType(evs, "content_block_delta"))
  BY DEF AssembleAnthropicResponse
<1>. HIDE DEF m
<1>2. {i \in DOMAIN m : m[i].kind # ""} = 0..(l - 1)
  <2>1. \A i \in 0..(l - 1) : i + 1 \in 1..l /\ (i + 1) - 1 = i
    BY Shifted
  <2>2. \A i \in 0..(l - 1) : m[i].kind # ""
    BY <1>1, <2>1
  <2>. QED  BY <1>1, <2>2
<1>3. order = [n \in 1..l |-> n - 1]
  BY <1>2, OrderedInterval
<1>. HIDE DEF order
<1>5. DOMAIN order = 1..l /\ \A n \in 1..l : order[n] = n - 1
  BY <1>3
<1>6. ASSUME NEW n \in 1..l
      PROVE  /\ B(n) \in ResponseBlock
             /\ B(n).kind = m[n - 1].kind /\ B(n).tool = m[n - 1].tool
             /\ B(n).name = m[n - 1].name /\ B(n).pieces = m[n - 1].pieces
             /\ B(n).input = IF n - 1 \in parsed THEN "given" ELSE "empty"
  <2>. DEFINE b == m[n - 1]
              i == IF n - 1 \in parsed THEN "given" ELSE "empty"
  <2>1. b \in ResponseBlock /\ order[n] = n - 1
    BY <1>1, <1>5
  <2>2. PICK c : c = B(n)
    OBVIOUS
  <2>3. c = [b EXCEPT !.input = i]
    BY <2>1, <2>2
  <2>. HIDE DEF b, B
  <2>4. i \in {"empty", "given"}
    OBVIOUS
  <2>. HIDE DEF i
  <2>5. c = [kind |-> b.kind, tool |-> b.tool, name |-> b.name, pieces |-> b.pieces,
             input |-> i]
    BY <2>1, <2>3 DEF ResponseBlock
  <2>6. c \in ResponseBlock
    BY <2>1, <2>4, <2>5, ResponseBlockFields DEF ResponseBlock
  <2>7. /\ c.kind = b.kind /\ c.tool = b.tool /\ c.name = b.name /\ c.pieces = b.pieces
        /\ c.input = i
    BY <2>5
  <2>. QED  BY <2>2, <2>6, <2>7 DEF b, i
<1>. HIDE DEF B
<1>7. DOMAIN blks = 1..l /\ \A n \in 1..l : blks[n] = B(n)
  BY <1>5
<1>8. blks \in [1..l -> ResponseBlock]
  BY <1>5, <1>6
<1>. HIDE DEF blks
<1>9. blks \in Seq(ResponseBlock) /\ Len(blks) = l
  BY <1>8, ListIsSeq
<1>10. \A n \in 1..l : /\ blks[n].kind = m[n - 1].kind /\ blks[n].tool = m[n - 1].tool
                       /\ blks[n].name = m[n - 1].name /\ blks[n].pieces = m[n - 1].pieces
                       /\ blks[n].input = IF n - 1 \in parsed THEN "given" ELSE "empty"
  BY <1>6, <1>7
<1>. QED  BY <1>4, <1>7, <1>9, <1>10 DEF Lists, m

\* The blocks of the reply are those a streaming client was told of.
LEMMA ReplyBlocks ==
  ASSUME TypeOK, ResponseInv, response # NoResponse
  PROVE  /\ response.blocks \in Seq(ResponseBlock) /\ DOMAIN blocks = 1..Len(blocks)
         /\ Len(blocks) \in Nat
         /\ DOMAIN response.blocks = 1..Len(blocks) /\ Len(response.blocks) = Len(blocks)
         /\ \A n \in 1..Len(blocks) : /\ SameBlock(response.blocks[n], blocks[n])
                                      /\ OneKind(blocks[n]) /\ OneKind(response.blocks[n])
         /\ FlattenSeq([n \in 1..Len(blocks) |-> Pieces(response.blocks[n])]) = delivered
         /\ response.outputTokens = Len(delivered)
         /\ \A n \in 1..Len(blocks) :
              response.blocks[n].input = IF n - 1 \in parsable THEN "given" ELSE "empty"
         /\ response.reason = StopReason(events, response.blocks)
<1>. DEFINE l == Len(blocks)
            m == BlockMap(events)
<1>1. l \in Nat /\ DOMAIN blocks = 1..l
  BY DEF TypeOK
<1>2. response = AssembleAnthropicResponse(events, parsable)
  BY DEF ResponseInv, Answered
<1>3. Builds(events, blocks, delivered) /\ \A n \in 1..l : OneKind(blocks[n])
  BY DEF ResponseInv, Answered, Told
<1>4. /\ DOMAIN m = 0..(l - 1) /\ \A n \in 1..l : SameBlock(m[n - 1], blocks[n])
      /\ FlattenSeq(Parts(m, l)) = delivered
      /\ Cardinality(OfType(events, "content_block_delta")) = Len(delivered)
  BY <1>3 DEF Builds
<1>5. Numbered(m, l)
  BY <1>3, <1>4 DEF SameBlock, OneKind, Numbered
<1>. HIDE DEF l
<1>6. /\ Lists(response.blocks, m, l, parsable)
      /\ response.reason = StopReason(events, response.blocks)
      /\ response.outputTokens = Cardinality(OfType(events, "content_block_delta"))
  BY <1>1, <1>2, <1>5, AssembledBlocks
<1>. HIDE DEF m
<1>7. \A n \in 1..l : response.blocks[n] \in ResponseBlock
  BY <1>6 DEF Lists
<1>8. \A n \in 1..l : SameBlock(response.blocks[n], blocks[n])
  BY <1>4, <1>6, <1>7 DEF SameBlock, Lists
<1>9. \A n \in 1..l : OneKind(response.blocks[n])
  BY <1>3, <1>8 DEF SameBlock, OneKind, l
<1>10. FlattenSeq([n \in 1..l |-> Pieces(response.blocks[n])]) = delivered
  <2>1. \A n \in 1..l : Pieces(response.blocks[n]) = Pieces(m[n - 1])
    BY <1>6 DEF Pieces, Lists
  <2>2. [n \in 1..l |-> Pieces(response.blocks[n])] = Parts(m, l)
    BY <2>1 DEF Parts
  <2>. QED  BY <1>4, <2>2
<1>. QED  BY <1>1, <1>3, <1>4, <1>6, <1>8, <1>9, <1>10 DEF l, Lists

\* The stop reason of the reply is the one the client was told last, or is read off the
\* last block.
LEMMA ReplyReason ==
  ASSUME TypeOK, ResponseInv, response # NoResponse
  PROVE  response.reason =
           IF stopped THEN lastReason
           ELSE IF blocks # <<>> /\ Last(blocks).kind = "tool_use" THEN "tool_use"
           ELSE "end_turn"
<1>. DEFINE l  == Len(blocks)
            bs == response.blocks
            G  == OfType(events, "message_delta")
<1>1. /\ bs \in Seq(ResponseBlock) /\ l \in Nat /\ Len(bs) = l
      /\ \A n \in 1..l : SameBlock(bs[n], blocks[n])
      /\ response.reason = StopReason(events, bs)
  BY ReplyBlocks
<1>2. Reasoned
  BY DEF ResponseInv, Answered
<1>3. blocks # <<>> <=> l # 0
  BY DEF TypeOK
<1>4. bs # <<>> <=> l # 0
  BY <1>1
<1>5. ASSUME l # 0 PROVE Last(bs).kind = Last(blocks).kind
  <2>1. l \in 1..l
    BY <1>1, <1>5
  <2>2. Last(bs) = bs[l] /\ Last(blocks) = blocks[l]
    BY <1>1 DEF Last
  <2>. QED  BY <1>1, <2>1, <2>2 DEF SameBlock
<1>6. ASSUME stopped PROVE G # {} /\ events[Max(G)].reason = lastReason
  <2>1. PICK k \in G : (\A i \in G : i <= k) /\ events[k].reason = lastReason
    BY <1>2, <1>6 DEF Reasoned, LatestReason
  <2>2. Builds(events, blocks, delivered)
    BY DEF ResponseInv, Answered
  <2>3. events \in Seq(SSE!Event)
    BY <2>2 DEF Builds
  <2>4. G \subseteq Nat
    BY <2>3 DEF OfType
  <2>. HIDE DEF G
  <2>5. Max(G) = k
    <3>1. k \in G /\ \A y \in G : k >= y
      BY <2>1, <2>4
    <3>2. \A x \in G : (\A y \in G : x >= y) => x = k
      BY <2>1, <2>4, <3>1
    <3>. QED  BY <3>1, <3>2, Zenon DEF Max
  <2>. QED  BY <2>1, <2>5
<1>7. ASSUME ~stopped PROVE G = {}
  BY <1>2, <1>7 DEF Reasoned
<1>8. response.reason = IF G # {} THEN events[Max(G)].reason
                        ELSE IF bs # <<>> /\ Last(bs).kind = "tool_use" THEN "tool_use"
                        ELSE "end_turn"
  BY <1>1 DEF StopReason
<1>. HIDE DEF G, bs, l
<1>. QED  BY <1>3, <1>4, <1>5, <1>6, <1>7, <1>8

\* The reply that is not streamed has the blocks, the pieces and the stop reason that a
\* client of the stream was told of the same response; a tool call has the input its
\* pieces make up where that is JSON and {} where it is not, and the output tokens are
\* the number of the pieces.
THEOREM SameMessageAlways == ResponseSpec => []SameMessage
<1>1. TypeOK /\ ResponseInv /\ InOrder /\ BlocksNamed => SameMessage
  <2>. SUFFICES ASSUME TypeOK, ResponseInv, InOrder, BlocksNamed, response # NoResponse
                PROVE  SameMessage
    BY DEF SameMessage
  <2>1. delivered = consumed
    BY DEF ResponseInv, Answered, Drained, InOrder
  <2>2. /\ DOMAIN blocks = 1..Len(blocks)
        /\ DOMAIN response.blocks = 1..Len(blocks) /\ Len(response.blocks) = Len(blocks)
        /\ \A n \in 1..Len(blocks) : SameBlock(response.blocks[n], blocks[n])
                                       /\ OneKind(blocks[n])
        /\ FlattenSeq([n \in 1..Len(blocks) |-> Pieces(response.blocks[n])]) = delivered
        /\ response.outputTokens = Len(delivered)
        /\ \A n \in 1..Len(blocks) :
             response.blocks[n].input = IF n - 1 \in parsable THEN "given" ELSE "empty"
    BY ReplyBlocks
  <2>3. ASSUME NEW n \in DOMAIN blocks
        PROVE  /\ response.blocks[n].kind = blocks[n].kind
               /\ response.blocks[n].tool = blocks[n].tool
               /\ response.blocks[n].name \in
                    {blocks[n].name} \cup (IF unnamed THEN ToolIds ELSE {})
               /\ response.blocks[n].input = IF n - 1 \in parsable THEN "given" ELSE "empty"
    <3>1. SameBlock(response.blocks[n], blocks[n]) /\ OneKind(blocks[n])
      BY <2>2
    <3>2. ~unnamed => blocks[n].name = blocks[n].tool
      BY DEF BlocksNamed
    <3>. QED  BY <2>2, <3>1, <3>2 DEF SameBlock, OneKind
  <2>4. response.reason = IF stopped THEN lastReason
                          ELSE IF blocks # <<>> /\ Last(blocks).kind = "tool_use"
                          THEN "tool_use" ELSE "end_turn"
    BY ReplyReason
  <2>. QED  BY <2>1, <2>2, <2>3, <2>4 DEF SameMessage
<1>. QED  BY <1>1, ResponseInductive, ResponseRefines, TypeCorrect, InOrderAlways,
             BlocksNamedAlways, PTL

-----------------------------------------------------------------------------
(* A message that is made into a stream again.                             *)

\* The same block, whatever was fed to it.
LikeBlock(a, b) ==
  a \in ResponseBlock /\ a.kind = b.kind /\ a.tool = b.tool /\ a.name = b.name

\* No block is open, and i is the index of the last one.
Closed(i) == [open |-> FALSE, index |-> i, kind |-> "", tool |-> NoTool]

\* q shows a client the first k blocks of bs, and leaves none open.
Shows(q, bs, k) ==
  /\ q \in Seq(SSE!Event)
  /\ OfType(q, "message_delta") = {}
  /\ DOMAIN BlockMap(q) = 0..(k - 1)
  /\ \A n \in 1..k : LikeBlock(BlockMap(q)[n - 1], bs[n])
  /\ Followed(q) = [ok |-> TRUE, block |-> Closed(k - 1)]

\* No events show no blocks.
LEMMA ShowsNothing ==
  ASSUME NEW bs
  PROVE  Shows(<<>>, bs, 0)
<1>1. <<>> \in Seq({0}) /\ 0 \in {0}
  OBVIOUS
<1>2. BlockMap(<<>>) = <<>> /\ Followed(<<>>) = Unsent
  BY <1>1, MapAdd, HeardAdd
<1>3. Unsent = [ok |-> TRUE, block |-> Closed(0 - 1)]
  BY DEF Unsent, Closed, SSE!NoBlock
<1>4. DOMAIN BlockMap(<<>>) = 0..(0 - 1)
  BY <1>2
<1>5. <<>> \in Seq(SSE!Event) /\ OfType(<<>>, "message_delta") = {}
  BY DEF OfType
<1>. QED  BY <1>2, <1>3, <1>4, <1>5 DEF Shows

\* The events of a block b with index k: its start, its stop and maybe a delta.
EventsFor(s, d, t, k, b) ==
  /\ BlockEvents(k, b) = <<s, d, t>> \/ BlockEvents(k, b) = <<s, t>>
  /\ s.type = "content_block_start" /\ d.type = "content_block_delta"
  /\ t.type = "content_block_stop"
  /\ s.index = k /\ d.index = k /\ t.index = k
  /\ s.kind = b.kind /\ d.kind = b.kind /\ s.tool = b.tool /\ d.tool = b.tool
  /\ s.name = b.name /\ d.name = b.name

\* BuildAnthropicStreamEvents gives a block these events.
LEMMA EventsOfBlock ==
  ASSUME NEW k \in Nat, NEW b \in ResponseBlock, OneKind(b)
  PROVE  \E s, d, t \in SSE!Event : EventsFor(s, d, t, k, b)
<1>. DEFINE name == IF b.kind = "tool_use" THEN b.name ELSE NoTool
            s == SSE!Ev("content_block_start", k, b.kind, b.tool, name, "")
            d == SSE!Ev("content_block_delta", k, b.kind, b.tool, b.name, "")
            t == SSE!Ev("content_block_stop", k, "", NoTool, NoTool, "")
<1>1. name = b.name
  BY DEF OneKind
<1>2. BlockEvents(k, b) = <<s, d, t>> \/ BlockEvents(k, b) = <<s, t>>
  BY DEF BlockEvents
<1>. HIDE DEF name
<1>3. /\ b.kind \in SSE!BlockKinds
      /\ b.tool \in ToolIds \cup {NoTool} /\ b.name \in ToolIds \cup {NoTool}
  BY ResponseBlockFields
<1>4. s \in SSE!Event /\ d \in SSE!Event
  BY <1>1, <1>3 DEF SSE!Ev, SSE!Event, SSE!EventTypes
<1>5. t \in SSE!Event
  BY DEF SSE!Ev, SSE!Event, SSE!EventTypes, SSE!BlockKinds
<1>6. /\ s.type = "content_block_start" /\ s.index = k /\ s.kind = b.kind /\ s.tool = b.tool
      /\ s.name = b.name
  BY <1>1 DEF SSE!Ev
<1>7. /\ d.type = "content_block_delta" /\ d.index = k /\ d.kind = b.kind /\ d.tool = b.tool
      /\ d.name = b.name
  BY DEF SSE!Ev
<1>8. t.type = "content_block_stop" /\ t.index = k
  BY DEF SSE!Ev
<1>. HIDE DEF s, d, t
<1>. QED  BY <1>2, <1>4, <1>5, <1>6, <1>7, <1>8 DEF EventsFor

\* A client that may be sent e goes on.
LEMMA HearLegal ==
  ASSUME NEW b, NEW e, SSE!Legal(b, e)
  PROVE  Hear([ok |-> TRUE, block |-> b], e) = [ok |-> TRUE, block |-> SSE!Receive(b, e)]
<1>. DEFINE c == [ok |-> TRUE, block |-> b]
<1>1. c.ok = TRUE /\ c.block = b
  OBVIOUS
<1>. HIDE DEF c
<1>2. (c.ok /\ SSE!Legal(c.block, e)) = TRUE
  BY <1>1
<1>3. Hear(c, e) = [ok |-> TRUE, block |-> SSE!Receive(c.block, e)]
  BY <1>2, Zenon DEF Hear
<1>. QED  BY <1>1, <1>3 DEF c

\* One event more, as a client and the assembly take it.
LEMMA EventMore ==
  ASSUME NEW q \in Seq(SSE!Event), NEW e \in SSE!Event
  PROVE  /\ Append(q, e) \in Seq(SSE!Event)
         /\ BlockMap(Append(q, e)) = Accumulate(BlockMap(q), e)
         /\ Followed(Append(q, e)) = Hear(Followed(q), e)
         /\ e.type # "message_delta" =>
              OfType(Append(q, e), "message_delta") = OfType(q, "message_delta")
<1>1. Append(q, e) \in Seq(SSE!Event)
  BY AppendProperties
<1>. QED  BY <1>1, MapAdd, HeardAdd, OfTypeAdd

\* The events of one block more show that block.
LEMMA ShowsMore ==
  ASSUME NEW q, NEW bs, NEW k \in Nat, Shows(q, bs, k), bs[k + 1] \in ResponseBlock,
         OneKind(bs[k + 1])
  PROVE  Shows(q \o BlockEvents(k, bs[k + 1]), bs, k + 1)
<1>. DEFINE b == bs[k + 1]
            m == BlockMap(q)
<1>0. PICK s \in SSE!Event, d \in SSE!Event, t \in SSE!Event : EventsFor(s, d, t, k, b)
  BY EventsOfBlock
<1>1. /\ BlockEvents(k, b) = <<s, d, t>> \/ BlockEvents(k, b) = <<s, t>>
      /\ s.type = "content_block_start" /\ d.type = "content_block_delta"
      /\ t.type = "content_block_stop"
      /\ s.index = k /\ d.index = k /\ t.index = k
      /\ s.kind = b.kind /\ d.kind = b.kind /\ s.tool = b.tool /\ d.tool = b.tool
      /\ s.name = b.name /\ d.name = b.name
  BY <1>0 DEF EventsFor
<1>2. /\ q \in Seq(SSE!Event) /\ OfType(q, "message_delta") = {}
      /\ DOMAIN m = 0..(k - 1) /\ \A n \in 1..k : LikeBlock(m[n - 1], bs[n])
      /\ Followed(q) = [ok |-> TRUE, block |-> Closed(k - 1)]
  BY DEF Shows
<1>. DEFINE open == [open |-> TRUE, index |-> k, kind |-> b.kind, tool |-> b.tool]
            \* x shows the blocks before k, and block k is open.
            Open(x) == /\ x \in Seq(SSE!Event) /\ OfType(x, "message_delta") = {}
                       /\ DOMAIN BlockMap(x) = 0..k
                       /\ \A n \in 1..k : BlockMap(x)[n - 1] = m[n - 1]
                       /\ LikeBlock(BlockMap(x)[k], b)
                       /\ Followed(x) = [ok |-> TRUE, block |-> open]
<1>. HIDE DEF m
<1>3. /\ k \notin 0..(k - 1) /\ (0..(k - 1)) \cup {k} = 0..k /\ (k - 1) + 1 = k /\ k \in 0..k
      /\ \A n \in 1..k : n - 1 \in 0..(k - 1) /\ n - 1 \in 0..k /\ n - 1 # k
  OBVIOUS
<1>4. b.kind # "" /\ (b.kind # "tool_use" => b.tool = NoTool /\ b.name = NoTool)
  BY DEF OneKind
<1>. HIDE DEF b
<1>5. Open(Append(q, s))
  <2>. DEFINE x == Append(q, s)
  <2>1. /\ x \in Seq(SSE!Event) /\ BlockMap(x) = Accumulate(m, s)
        /\ Followed(x) = Hear(Followed(q), s) /\ OfType(x, "message_delta") = {}
    BY <1>1, <1>2, EventMore DEF m
  <2>2. /\ DOMAIN Accumulate(m, s) = DOMAIN m \cup {k} /\ Accumulate(m, s)[k] = Begun(s)
        /\ \A i \in DOMAIN m : Accumulate(m, s)[i] = m[i]
    <3>1. s.index \notin DOMAIN m
      BY <1>1, <1>2, <1>3
    <3>2. /\ DOMAIN Accumulate(m, s) = DOMAIN m \cup {s.index}
          /\ Accumulate(m, s)[s.index] = Begun(s)
          /\ \A i \in DOMAIN m : Accumulate(m, s)[i] = m[i]
      BY <1>1, <3>1, OpenAdds
    <3>. QED  BY <1>1, <3>2
  <2>3. LikeBlock(Begun(s), b)
    BY <1>1, <1>4, BegunFields DEF LikeBlock
  <2>4. Hear(Followed(q), s) = [ok |-> TRUE, block |-> open]
    <3>1. SSE!Legal(Closed(k - 1), s)
      BY <1>1, <1>3, <1>4 DEF SSE!Legal, Closed
    <3>2. SSE!Receive(Closed(k - 1), s) = open
      BY <1>1 DEF SSE!Receive
    <3>3. Hear([ok |-> TRUE, block |-> Closed(k - 1)], s) = [ok |-> TRUE, block |-> open]
      BY <3>1, <3>2, HearLegal
    <3>. QED  BY <1>2, <3>3
  <2>. HIDE DEF x, open
  <2>5. DOMAIN Accumulate(m, s) = 0..k /\ \A n \in 1..k : Accumulate(m, s)[n - 1] = m[n - 1]
    BY <1>2, <1>3, <2>2
  <2>. QED  BY <2>1, <2>2, <2>3, <2>4, <2>5 DEF x
<1>6. ASSUME NEW x, Open(x) PROVE Open(Append(x, d))
  <2>. DEFINE y == Append(x, d)
              n == BlockMap(x)
  <2>1. /\ x \in Seq(SSE!Event) /\ OfType(x, "message_delta") = {}
        /\ DOMAIN n = 0..k /\ \A i \in 1..k : n[i - 1] = m[i - 1]
        /\ LikeBlock(n[k], b) /\ Followed(x) = [ok |-> TRUE, block |-> open]
    BY <1>6
  <2>2. /\ y \in Seq(SSE!Event) /\ BlockMap(y) = Accumulate(n, d)
        /\ Followed(y) = Hear(Followed(x), d) /\ OfType(y, "message_delta") = {}
    BY <1>1, <2>1, EventMore
  <2>. HIDE DEF n, y
  <2>3. /\ DOMAIN Accumulate(n, d) = 0..k /\ Accumulate(n, d)[k] = Fed(n[k], d)
        /\ \A i \in DOMAIN n : i # k => Accumulate(n, d)[i] = n[i]
    <3>1. d.index \in DOMAIN n
      BY <1>1, <1>3, <2>1
    <3>2. /\ DOMAIN Accumulate(n, d) = DOMAIN n /\ Accumulate(n, d)[d.index] = Fed(n[d.index], d)
          /\ \A i \in DOMAIN n : i # d.index => Accumulate(n, d)[i] = n[i]
      BY <1>1, <3>1, PieceAdds
    <3>. QED  BY <1>1, <2>1, <3>2
  <2>4. LikeBlock(Fed(n[k], d), b)
    BY <1>1, <2>1, FedFields DEF LikeBlock
  <2>5. Hear(Followed(x), d) = [ok |-> TRUE, block |-> open]
    <3>1. SSE!Legal(open, d)
      BY <1>1 DEF SSE!Legal
    <3>2. SSE!Receive(open, d) = open
      BY <1>1 DEF SSE!Receive
    <3>3. Hear([ok |-> TRUE, block |-> open], d) = [ok |-> TRUE, block |-> open]
      BY <3>1, <3>2, HearLegal
    <3>. QED  BY <2>1, <3>3
  <2>6. \A i \in 1..k : Accumulate(n, d)[i - 1] = m[i - 1]
    BY <1>3, <2>1, <2>3
  <2>. HIDE DEF open
  <2>. QED  BY <2>2, <2>3, <2>4, <2>5, <2>6 DEF y
<1>7. ASSUME NEW x, Open(x) PROVE Shows(Append(x, t), bs, k + 1)
  <2>. DEFINE y == Append(x, t)
              n == BlockMap(x)
  <2>1. /\ x \in Seq(SSE!Event) /\ OfType(x, "message_delta") = {}
        /\ DOMAIN n = 0..k /\ \A i \in 1..k : n[i - 1] = m[i - 1]
        /\ LikeBlock(n[k], b) /\ Followed(x) = [ok |-> TRUE, block |-> open]
    BY <1>7
  <2>2. /\ y \in Seq(SSE!Event) /\ BlockMap(y) = Accumulate(n, t)
        /\ Followed(y) = Hear(Followed(x), t) /\ OfType(y, "message_delta") = {}
    BY <1>1, <2>1, EventMore
  <2>. HIDE DEF n, y
  <2>3. BlockMap(y) = n
    BY <1>1, <2>2, OtherAdds
  <2>4. (k + 1) - 1 = k /\ \A i \in 1..(k + 1) : i \in 1..k \/ i = k + 1
    OBVIOUS
  <2>5. Followed(y) = [ok |-> TRUE, block |-> Closed((k + 1) - 1)]
    <3>1. SSE!Legal(open, t)
      BY <1>1 DEF SSE!Legal
    <3>2. SSE!Receive(open, t) = Closed(k)
      BY <1>1 DEF SSE!Receive, Closed
    <3>3. Hear([ok |-> TRUE, block |-> open], t) = [ok |-> TRUE, block |-> Closed(k)]
      BY <3>1, <3>2, HearLegal
    <3>. QED  BY <2>1, <2>2, <2>4, <3>3
  <2>6. \A i \in 1..(k + 1) : LikeBlock(n[i - 1], bs[i])
    BY <1>2, <2>1, <2>4 DEF b
  <2>. QED  BY <2>1, <2>2, <2>3, <2>4, <2>5, <2>6 DEF Shows, y
<1>. HIDE DEF Open
<1>8. CASE BlockEvents(k, b) = <<s, d, t>>
  <2>1. q \o <<s, d, t>> = Append(Append(Append(q, s), d), t)
    BY <1>1, <1>2
  <2>2. Open(Append(Append(q, s), d))
    BY <1>5, <1>6
  <2>. QED  BY <1>7, <1>8, <2>1, <2>2 DEF b
<1>9. CASE BlockEvents(k, b) = <<s, t>>
  <2>1. q \o <<s, t>> = Append(Append(q, s), t)
    BY <1>1, <1>2
  <2>. QED  BY <1>5, <1>7, <1>9, <2>1 DEF b
<1>. QED  BY <1>1, <1>8, <1>9

\* The events of a block are events.
LEMMA EventsAreEvents ==
  ASSUME NEW k \in Nat, NEW b \in ResponseBlock, OneKind(b)
  PROVE  BlockEvents(k, b) \in Seq(SSE!Event)
<1>1. PICK s \in SSE!Event, d \in SSE!Event, t \in SSE!Event : EventsFor(s, d, t, k, b)
  BY EventsOfBlock
<1>2. <<s, d, t>> \in Seq(SSE!Event) /\ <<s, t>> \in Seq(SSE!Event)
  OBVIOUS
<1>. QED  BY <1>1, <1>2 DEF EventsFor

\* The events of all the blocks show all of them.
LEMMA AllShown ==
  ASSUME NEW bs \in Seq(ResponseBlock), \A n \in 1..Len(bs) : OneKind(bs[n])
  PROVE  Shows(FlattenSeq([n \in 1..Len(bs) |-> BlockEvents(n - 1, bs[n])]), bs, Len(bs))
<1>. DEFINE Q(k) == [n \in 1..k |-> BlockEvents(n - 1, bs[n])]
            T == {k \in Nat : k <= Len(bs) => Shows(FlattenSeq(Q(k)), bs, k)}
<1>1. Len(bs) \in Nat /\ \A n \in 1..Len(bs) : bs[n] \in ResponseBlock
  OBVIOUS
<1>2. \A n \in 1..Len(bs) : BlockEvents(n - 1, bs[n]) \in Seq(SSE!Event)
  <2>. SUFFICES ASSUME NEW n \in 1..Len(bs)
                PROVE  BlockEvents(n - 1, bs[n]) \in Seq(SSE!Event)
    OBVIOUS
  <2>1. n - 1 \in Nat /\ bs[n] \in ResponseBlock /\ OneKind(bs[n])
    BY <1>1
  <2>. QED  BY <2>1, EventsAreEvents
<1>3. 0 \in T
  <2>1. Q(0) = <<>>
    OBVIOUS
  <2>2. FlattenSeq(<<>>) = <<>>
    BY EmptySeq, JoinAdd
  <2>. QED  BY <2>1, <2>2, ShowsNothing
<1>4. ASSUME NEW k \in Nat, k \in T PROVE k + 1 \in T
  <2>. SUFFICES ASSUME k + 1 <= Len(bs) PROVE Shows(FlattenSeq(Q(k + 1)), bs, k + 1)
    BY DEF T
  <2>1. k <= Len(bs) /\ k + 1 \in 1..Len(bs) /\ (k + 1) - 1 = k
    BY <1>1
  <2>2. Shows(FlattenSeq(Q(k)), bs, k)
    BY <1>4, <2>1
  <2>3. /\ \A n \in 1..k : n \in 1..Len(bs)
        /\ \A n \in 1..(k + 1) : n \in 1..Len(bs)
        /\ \A n \in 1..k : n \in 1..(k + 1) /\ k + 1 \in 1..(k + 1)
    BY <1>1, <2>1
  <2>4. /\ Q(k) \in [1..k -> Seq(SSE!Event)] /\ Q(k + 1) \in [1..(k + 1) -> Seq(SSE!Event)]
        /\ \A n \in 1..k : Q(k + 1)[n] = Q(k)[n]
        /\ Q(k + 1)[k + 1] = BlockEvents(k, bs[k + 1])
    BY <1>2, <2>1, <2>3
  <2>. HIDE DEF Q, T
  <2>5. /\ Q(k) \in Seq(Seq(SSE!Event)) /\ Q(k + 1)[k + 1] \in Seq(SSE!Event)
        /\ Q(k + 1) = Append(Q(k), Q(k + 1)[k + 1])
    BY <2>4, ListAdd
  <2>6. FlattenSeq(Q(k + 1)) = FlattenSeq(Q(k)) \o BlockEvents(k, bs[k + 1])
    BY <2>4, <2>5, JoinAdd
  <2>7. bs[k + 1] \in ResponseBlock /\ OneKind(bs[k + 1])
    BY <1>1, <2>1
  <2>. QED  BY <2>2, <2>6, <2>7, ShowsMore
<1>. HIDE DEF T
<1>5. Len(bs) \in T
  BY <1>1, <1>3, <1>4, Climb
<1>. QED  BY <1>1, <1>5 DEF T

\* A message_delta that is added at the end is the last, and gives the reason to stop.
LEMMA ReasonGiven ==
  ASSUME NEW q \in Seq(SSE!Event), OfType(q, "message_delta") = {}, NEW reason, NEW blks
  PROVE  StopReason(q \o <<MessageDelta(reason)>>, blks) = reason
<1>. DEFINE e   == MessageDelta(reason)
            S   == SSE!Event \cup {e}
            evs == q \o <<e>>
            n   == Len(q) + 1
<1>1. e.type = "message_delta" /\ e.reason = reason
  BY DEF MessageDelta, SSE!Ev
<1>. HIDE DEF e
<1>2. q \in Seq(S) /\ e \in S
  OBVIOUS
<1>. HIDE DEF S
<1>3. evs = Append(q, e)
  BY <1>2
<1>. HIDE DEF evs
<1>4. /\ n \in Nat /\ DOMAIN q = 1..Len(q) /\ DOMAIN evs = 1..n /\ evs[n] = e
      /\ \A i \in 1..Len(q) : evs[i] = q[i]
  BY <1>2, <1>3, AppendProperties
<1>5. n \in 1..n /\ \A i \in 1..n : i \in 1..Len(q) \/ i = n
  BY <1>4
<1>. HIDE DEF n
<1>6. OfType(evs, "message_delta") = {n}
  BY <1>1, <1>4, <1>5 DEF OfType
<1>7. Max({n}) = n
  BY <1>4 DEF Max
<1>8. StopReason(evs, blks) = reason
  BY <1>1, <1>4, <1>6, <1>7 DEF StopReason
<1>. QED  BY <1>8 DEF evs, e

\* It changes no block, and a client without an open block may be sent it.
LEMMA ReasonHeard ==
  ASSUME NEW q, NEW bs, NEW l \in Nat, Shows(q, bs, l), NEW reason
  PROVE  LET evs == q \o <<MessageDelta(reason)>>
         IN  /\ BlockMap(evs) = BlockMap(q)
             /\ Followed(evs) = [ok |-> TRUE, block |-> Closed(l - 1)]
<1>. DEFINE e   == MessageDelta(reason)
            S   == SSE!Event \cup {e}
            evs == q \o <<e>>
<1>1. q \in Seq(SSE!Event) /\ Followed(q) = [ok |-> TRUE, block |-> Closed(l - 1)]
  BY DEF Shows
<1>2. e.type = "message_delta"
  BY DEF MessageDelta, SSE!Ev
<1>. HIDE DEF e
<1>3. q \in Seq(S) /\ e \in S
  BY <1>1
<1>. HIDE DEF S
<1>4. evs = Append(q, e)
  BY <1>3
<1>. HIDE DEF evs
<1>5. BlockMap(evs) = BlockMap(q)
  BY <1>2, <1>3, <1>4, MapAdd, OtherAdds
<1>6. Followed(evs) = [ok |-> TRUE, block |-> Closed(l - 1)]
  <2>1. SSE!Legal(Closed(l - 1), e) /\ SSE!Receive(Closed(l - 1), e) = Closed(l - 1)
    BY <1>2 DEF SSE!Legal, SSE!Receive, Closed
  <2>2. Hear([ok |-> TRUE, block |-> Closed(l - 1)], e) = [ok |-> TRUE, block |-> Closed(l - 1)]
    BY <2>1, HearLegal
  <2>3. Followed(evs) = Hear(Followed(q), e)
    BY <1>3, <1>4, HeardAdd
  <2>. QED  BY <1>1, <2>2, <2>3
<1>. QED  BY <1>5, <1>6 DEF evs, e

\* The reply, made into a stream again, is one a client can follow to its end, and the
\* same reply is put together of it.
THEOREM StreamedAgainAlways == ResponseSpec => []StreamedAgain
<1>1. TypeOK /\ ResponseInv => StreamedAgain
  <2>. SUFFICES ASSUME TypeOK, ResponseInv, response # NoResponse
                PROVE  StreamedAgain
    BY DEF StreamedAgain
  <2>. DEFINE bs    == response.blocks
              l     == Len(blocks)
              q     == FlattenSeq([n \in 1..l |-> BlockEvents(n - 1, bs[n])])
              evs   == BuildAnthropicStreamEvents(response)
              again == AssembleAnthropicResponse(evs, {})
  <2>1. /\ bs \in Seq(ResponseBlock) /\ l \in Nat /\ DOMAIN bs = 1..l /\ Len(bs) = l
        /\ \A n \in 1..l : OneKind(bs[n])
    BY ReplyBlocks
  <2>2. Shows(q, bs, l)
    BY <2>1, AllShown
  <2>3. evs = q \o <<MessageDelta(response.reason)>>
    BY <2>1 DEF BuildAnthropicStreamEvents
  <2>. HIDE DEF bs, l, q, evs
  <2>4. BlockMap(evs) = BlockMap(q) /\ Followed(evs) = [ok |-> TRUE, block |-> Closed(l - 1)]
    BY <2>1, <2>2, <2>3, ReasonHeard
  <2>5. DOMAIN BlockMap(evs) = 0..(l - 1) /\ \A n \in 1..l : LikeBlock(BlockMap(evs)[n - 1], bs[n])
    BY <2>2, <2>4 DEF Shows
  <2>6. Numbered(BlockMap(evs), l)
    BY <2>1, <2>5 DEF Numbered, LikeBlock, OneKind
  <2>7. Lists(again.blocks, BlockMap(evs), l, {}) /\ again.reason = StopReason(evs, again.blocks)
    BY <2>1, <2>6, AssembledBlocks
  <2>8. again.reason = response.reason
    <3>1. q \in Seq(SSE!Event) /\ OfType(q, "message_delta") = {}
      BY <2>2 DEF Shows
    <3>. HIDE DEF again
    <3>2. StopReason(evs, again.blocks) = response.reason
      BY <2>3, <3>1, ReasonGiven
    <3>. QED  BY <2>7, <3>2
  <2>9. Followed(evs).ok /\ ~Followed(evs).block.open
    <3>1. Followed(evs).ok = TRUE /\ Followed(evs).block = Closed(l - 1)
      BY <2>4
    <3>2. Closed(l - 1).open = FALSE
      BY DEF Closed
    <3>. QED  BY <3>1, <3>2, Zenon
  <2>10. /\ DOMAIN again.blocks = 1..l
         /\ \A n \in 1..l : /\ again.blocks[n].kind = bs[n].kind
                            /\ again.blocks[n].tool = bs[n].tool
                            /\ again.blocks[n].name = bs[n].name
    BY <2>5, <2>7 DEF Lists, LikeBlock
  <2>. HIDE DEF again
  <2>11. [n \in DOMAIN again.blocks |-> <<again.blocks[n].kind, again.blocks[n].tool,
                                          again.blocks[n].name>>] =
         [n \in DOMAIN bs |-> <<bs[n].kind, bs[n].tool, bs[n].name>>]
    BY <2>1, <2>10
  <2>. QED  BY <2>8, <2>9, <2>11 DEF StreamedAgain, bs, evs, again
<1>. QED  BY <1>1, ResponseInductive, ResponseRefines, TypeCorrect, PTL
=============================================================================
