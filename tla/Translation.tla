---------------------------- MODULE Translation ----------------------------
(***************************************************************************)
(* internal/middleware/headroom.go and internal/proxy/request.go: what     *)
(* becomes of the messages of an Anthropic request.  The headroom proxy    *)
(* may put a list of its own in their place first.                         *)
(* BuildCodeWhispererRequest makes all but the last the history and the    *)
(* last one the current message; the tool calls and the tool results among *)
(* a message's blocks are listed beside its text.                          *)
(*                                                                         *)
(* A block is reduced to its kind, the tool call it makes or answers, and  *)
(* what it says: some text, blanks, nothing at all (the field it is read   *)
(* from is missing), or, of a tool result that has an identifier, be it    *)
(* the empty one, that its content is absent.  A string for a content is   *)
(* one text block.  A role that is none of the three is "other".           *)
(***************************************************************************)
EXTENDS Naturals, SequencesExt

CONSTANTS Ids,            \* identifiers of tool calls
          NoId,           \* no identifier, or an empty one
          MaxToolDescLen, \* the length a tool's description is cut to
          MaxCompressed,  \* the most messages of a list that headroom makes up
          HeadroomOwn     \* messages that headroom writes itself

Block ==
  {b \in [kind : {"text", "thought", "tool_use", "tool_result", "tool_search", "image", "other"},
          id : Ids \cup {NoId},
          says : {"text", "blank", "nothing", "absent"}] :
     b.says = "absent" => b.kind = "tool_result"}

Message == [role : {"user", "assistant", "system", "other"}, content : Seq(Block), size : Nat]

Entry == [n : Nat, size : Nat, role : {"user", "assistant"},
          uses : SUBSET Ids, results : SUBSET Ids]

Tool == [desc : Nat, schema : Nat]

AnthropicRequest ==
  [system : Nat, messages : Seq(Message) \ {<<>>}, tools : Seq(Tool), rest : Nat]

ASSUME TranslationAssumption ==
  /\ NoId \notin Ids
  /\ MaxToolDescLen \in Nat /\ MaxCompressed \in Nat
  /\ HeadroomOwn \subseteq Message

-----------------------------------------------------------------------------
(* Sequences, by recursive functions, which the proofs can follow and the  *)
(* folds over an operator are not.                                         *)

\* The elements of s at the places in K, in their order.
Chosen(s, K) ==
  LET chosen[i \in 0..Len(s)] ==
        IF i = 0 THEN <<>>
        ELSE IF i \in K THEN Append(chosen[i - 1], s[i]) ELSE chosen[i - 1]
  IN  chosen[Len(s)]

Total(s) ==
  LET total[i \in 0..Len(s)] == IF i = 0 THEN 0 ELSE total[i - 1] + s[i]
  IN  total[Len(s)]

-----------------------------------------------------------------------------
(* Blocks.                                                                 *)

\* What a block adds to the text.  A thought, a search and a call that has a name are put
\* in words around them, and so is it that a result has no content yet.
Text(b) ==
  CASE b.kind \in {"image", "other"} -> "text"
    [] b.kind \in {"thought", "tool_use", "tool_search"} /\ b.says # "nothing" -> "text"
    [] b.kind = "tool_result" /\ b.says = "absent" -> "text"
    [] OTHER -> b.says

\* Whether there is text; of blocks that say nothing it is the JSON of them all.
GetMessageContent(content) ==
  LET said == {Text(content[i]) : i \in DOMAIN content}
  IN  IF said \subseteq {"nothing"} \/ "text" \in said THEN "text" ELSE "blank"

BlocksOf(content, kind) == {b \in Range(content) : b.kind = kind}

ExtractToolResults(content) ==
  {b.id : b \in BlocksOf(content, "tool_result")} \ {NoId}

ExtractToolUses(content) ==
  {b.id : b \in {c \in BlocksOf(content, "tool_use") : c.says # "nothing"}} \ {NoId}

HasToolResults(content) == BlocksOf(content, "tool_result") # {}

-----------------------------------------------------------------------------
(* The middleware.  System prompts are one text of some length.            *)

MessagesSize(messages) == Total([i \in DOMAIN messages |-> messages[i].size])

System(messages) == Chosen(messages, {i \in DOMAIN messages : messages[i].role = "system"})

Spoken(messages) == Chosen(messages, {i \in DOMAIN messages : messages[i].role # "system"})

anthropicToHeadroomMessages(a) ==
  (IF a.system > 0 THEN <<[role |-> "system", content |-> <<>>, size |-> a.system]>> ELSE <<>>)
    \o a.messages

\* What headroom may answer: all that it is sent, in half the bytes, or whatever list it
\* likes, for nothing is asked of the list: messages may be missing from it, come twice, in
\* another order or be headroom's own.
Compressions(messages) ==
  LET half == [i \in DOMAIN messages |-> [messages[i] EXCEPT !.size = @ \div 2]]
  IN  {half} \cup UNION {[1..n -> Range(half) \cup HeadroomOwn] : n \in 0..MaxCompressed}

\* mutant: nothing to fall back to.
ApplyAll(a, compressed) ==
  [a EXCEPT !.messages = Spoken(compressed),
            !.system = MessagesSize(System(compressed))]

applyCompressedMessages(a, compressed) ==
  IF Spoken(compressed) = <<>> THEN a
  ELSE [a EXCEPT !.messages = Spoken(compressed),
                 !.system = MessagesSize(System(compressed))]

-----------------------------------------------------------------------------
(* The request.                                                            *)

\* mutant: a message is kept for its own words only.
KeptForWords(m) ==
  \E i \in DOMAIN m.content : m.content[i].kind = "text" /\ m.content[i].says = "text"

Kept(m) == GetMessageContent(m.content) # "blank" \/ HasToolResults(m.content)

HistoryEntry(m, n) ==
  [n |-> n, size |-> m.size, role |-> IF m.role = "assistant" THEN "assistant" ELSE "user",
   uses |-> IF m.role = "assistant" THEN ExtractToolUses(m.content) ELSE {},
   results |-> IF m.role = "assistant" THEN {} ELSE ExtractToolResults(m.content)]

History(messages) ==
  LET entries == [i \in 1..(Len(messages) - 1) |-> HistoryEntry(messages[i], i)]
  IN  Chosen(entries, {i \in DOMAIN entries : Kept(messages[i])})

\* The length of TruncateString(s, max), for an s of length n.
Truncated(n, max) == IF n <= max THEN n ELSE max

TruncateDescriptions(tools, max) ==
  [i \in DOMAIN tools |-> [tools[i] EXCEPT !.desc = Truncated(@, max)]]

BuildCodeWhispererTools(tools) == TruncateDescriptions(tools, MaxToolDescLen)

\* The length of the current message: the system prompt and the last message.
BuildCurrentMessageContent(a) == a.system + Last(a.messages).size

BuildCodeWhispererRequest(a) ==
  [rest |-> a.rest + BuildCurrentMessageContent(a),
   results |-> IF Last(a.messages).role = "user"
               THEN ExtractToolResults(Last(a.messages).content) ELSE {},
   history |-> History(a.messages),
   tools |-> BuildCodeWhispererTools(a.tools)]

-----------------------------------------------------------------------------
(* What the Anthropic API asks of a client: a tool result answers a call   *)
(* of the message before it, which names its tool.                         *)

Linked(messages) ==
  \A i \in 2..Len(messages) :
    ExtractToolResults(messages[i].content) # {} =>
      /\ messages[i].role = "user" /\ messages[i - 1].role = "assistant"
      /\ ExtractToolResults(messages[i].content) \subseteq ExtractToolUses(messages[i - 1].content)

Proper(a) == ExtractToolResults(a.messages[1].content) = {} /\ Linked(a.messages)
=============================================================================
