------------------------------ MODULE Payload ------------------------------
(***************************************************************************)
(* internal/proxy/request.go and server.go: how the payload of a request   *)
(* is cut to size.  EnsurePayloadFits gives up history, then the tools'    *)
(* descriptions, then their schemas, then the tools; a streaming request   *)
(* that the upstream calls improperly formed is cut once more and sent     *)
(* again.                                                                  *)
(*                                                                         *)
(* A request is what Translation makes of an Anthropic one: the history,   *)
(* each entry with a size; the tools, each the length of its description   *)
(* and of its schema; and the size of the rest.  Sizes are bytes of JSON,  *)
(* without the commas.                                                     *)
(***************************************************************************)
EXTENDS Integers, Translation

CONSTANTS MaxPayloadBytes,  \* the limit EnsurePayloadFits cuts to
          AnthropicRequests \* what clients may ask

Request == [rest : Nat, results : SUBSET Ids, history : Seq(Entry), tools : Seq(Tool)]

ASSUME PayloadAssumption ==
  /\ MaxPayloadBytes \in Nat
  /\ AnthropicRequests \subseteq AnthropicRequest
  /\ \A a \in AnthropicRequests : Proper(a)

VARIABLES anthropicReq, \* what the client asks, until it is translated
          newest,       \* history: the tool calls the last message answers: the client's, or
                        \* that of the list headroom puts in place of the messages
          linked,       \* history: of what is translated, each result follows its call
          original,     \* the request as it was built
          cwReq,        \* what was built, as it is cut
          body,         \* what cwReqBody was made from
          stage,        \* "chain", what EnsurePayloadFits cuts next, "send", "done", "panic"
          attempt       \* the loop variable of HandleStreamRequest

payloadVars == <<anthropicReq, newest, linked, original, cwReq, body, stage, attempt>>

maxRetries == 3

-----------------------------------------------------------------------------
(* Sizes.                                                                  *)

HistorySize(h) == Total([i \in DOMAIN h |-> h[i].size])

ToolsSize(t) == Total([i \in DOMAIN t |-> t[i].desc + t[i].schema])

Size(r) == r.rest + HistorySize(r.history) + ToolsSize(r.tools)

Fits(r) == Size(r) <= MaxPayloadBytes

-----------------------------------------------------------------------------
(* The cuts.                                                               *)

\* mutant: the entry that is removed is the newest one.
TrimNewest(h) == Front(h)

TrimOldestHistoryMessage(h) == Tail(h)

\* mutant: the oldest entries are kept.
KeepLeastRecentHistory(h, keep) == IF Len(h) <= keep THEN h ELSE SubSeq(h, 1, keep)

KeepMostRecentHistory(h, keep) ==
  IF Len(h) <= keep THEN h ELSE SubSeq(h, Len(h) - keep + 1, Len(h))

\* {"type":"object"}, which is longer than the schema {}.
ObjectSchema == 17

StripSchemas(tools) == [i \in DOMAIN tools |-> [tools[i] EXCEPT !.schema = ObjectSchema]]

-----------------------------------------------------------------------------
(* The middleware chain and the translation.                               *)

Nothing == [rest |-> 0, results |-> {}, history |-> <<>>, tools |-> <<>>]

Nobody == [system |-> 0, messages |-> <<>>, tools |-> <<>>, rest |-> 0]

\* The tool calls a message answers; only a user answers any.
Answering(m) == IF m.role = "user" THEN ExtractToolResults(m.content) ELSE {}

PayloadInit ==
  /\ anthropicReq \in AnthropicRequests
  /\ newest = Answering(Last(anthropicReq.messages)) /\ linked = TRUE
  /\ original = Nothing /\ cwReq = Nothing /\ body = Nothing
  /\ stage = "chain"
  /\ attempt = 0

\* The translation looks at the last message, and panics if there is none.
Translate(a) ==
  /\ anthropicReq' = Nobody
  /\ linked' = Linked(a.messages)
  /\ UNCHANGED attempt
  /\ IF a.messages = <<>>
     THEN stage' = "panic" /\ UNCHANGED <<original, cwReq, body>>
     ELSE /\ original' = BuildCodeWhispererRequest(a)
          /\ cwReq' = original' /\ body' = original'
          /\ stage' = "history"

\* There is no middleware, or headroom cannot be reached or fails.
PassThrough ==
  /\ stage = "chain"
  /\ Translate(anthropicReq)
  /\ UNCHANGED newest

Compress ==
  /\ stage = "chain"
  /\ \E compressed \in Compressions(anthropicToHeadroomMessages(anthropicReq)) :
       /\ Translate(applyCompressedMessages(anthropicReq, compressed))
       /\ newest' = IF Spoken(compressed) = <<>> THEN newest
                    ELSE Answering(Last(Spoken(compressed)))

-----------------------------------------------------------------------------
(* EnsurePayloadFits, one step for each time the request is marshalled.    *)

Cut(r, next) ==
  /\ cwReq' = r
  /\ stage' = next
  /\ UNCHANGED <<anthropicReq, newest, linked, original, body, attempt>>

Ready ==
  /\ stage \in {"history", "descriptions", "schemas"} /\ Fits(cwReq)
  /\ body' = cwReq
  /\ stage' = "send"
  /\ UNCHANGED <<anthropicReq, newest, linked, original, cwReq, attempt>>

TrimHistory ==
  /\ stage = "history" /\ ~Fits(cwReq) /\ cwReq.history # <<>>
  /\ Cut([cwReq EXCEPT !.history = TrimOldestHistoryMessage(@)], "history")

\* mutant: descriptions are cut before the history is given up.
TrimDescriptionsEarly ==
  /\ stage = "history" /\ ~Fits(cwReq)
  /\ Cut([cwReq EXCEPT !.tools = TruncateDescriptions(@, 100)], "descriptions")

TrimDescriptions ==
  /\ stage = "history" /\ ~Fits(cwReq) /\ cwReq.history = <<>>
  /\ Cut([cwReq EXCEPT !.tools = TruncateDescriptions(@, 100)], "descriptions")

TrimSchemas ==
  /\ stage = "descriptions" /\ ~Fits(cwReq)
  /\ Cut([cwReq EXCEPT !.tools = StripSchemas(@)], "schemas")

\* mutant: the body is not marshalled again.
DropToolsLate ==
  /\ stage = "schemas" /\ ~Fits(cwReq)
  /\ cwReq' = [cwReq EXCEPT !.tools = <<>>]
  /\ body' = cwReq
  /\ stage' = "send"
  /\ UNCHANGED <<anthropicReq, newest, linked, original, attempt>>

\* The last resort; whether it fits now is not looked at.
DropTools ==
  /\ stage = "schemas" /\ ~Fits(cwReq)
  /\ cwReq' = [cwReq EXCEPT !.tools = <<>>]
  /\ body' = cwReq'
  /\ stage' = "send"
  /\ UNCHANGED <<anthropicReq, newest, linked, original, attempt>>

-----------------------------------------------------------------------------
(* The attempts.                                                           *)

MayRetry == stage = "send" /\ attempt < maxRetries - 1

\* 400 "Improperly formed request".  The size is not looked at again.
Improper ==
  /\ MayRetry
  /\ cwReq' = [cwReq EXCEPT
                   !.history = KeepMostRecentHistory(@, 2),
                   !.tools = StripSchemas(TruncateDescriptions(@, 80))]
  /\ body' = cwReq'
  /\ attempt' = attempt + 1
  /\ UNCHANGED <<anthropicReq, newest, linked, original, stage>>

\* 403: the same payload under a new token.
Forbidden ==
  /\ MayRetry
  /\ attempt' = attempt + 1
  /\ UNCHANGED <<anthropicReq, newest, linked, original, cwReq, body, stage>>

\* 200, an error that is not retried, or the last attempt.
Answered ==
  /\ stage = "send"
  /\ stage' = "done"
  /\ UNCHANGED <<anthropicReq, newest, linked, original, cwReq, body, attempt>>

PayloadNext ==
  \/ PassThrough \/ Compress
  \/ Ready \/ TrimHistory \/ TrimDescriptions \/ TrimSchemas \/ DropTools
  \/ Improper \/ Forbidden \/ Answered

PayloadSpec == PayloadInit /\ [][PayloadNext]_payloadVars

-----------------------------------------------------------------------------

PayloadTypeOK ==
  /\ anthropicReq \in AnthropicRequests \cup {Nobody} /\ newest \subseteq Ids /\ linked \in BOOLEAN
  /\ original \in Request /\ cwReq \in Request
  /\ body \in Request
  /\ stage \in {"chain", "history", "descriptions", "schemas", "send", "done", "panic"}
  /\ attempt \in 0..(maxRetries - 1)

\* The current message is the last one there is, whatever list headroom makes of the
\* messages and whatever is cut: the client's own where headroom is not used or leaves none
\* but system prompts, else the last that it leaves.  There always is one for the translation
\* to index (request.go:590), and through all cuts and retries it answers just the tool calls
\* which that message answers.
CurrentIsNewest ==
  /\ stage # "panic"
  /\ stage # "chain" => body.results = newest

\* Whatever is given up, what is sent of the history is its newest part, without gaps.
NewestKept == IsSuffix(body.history, original.history)

\* The payload sent first fits the limit, or neither history nor tools are left in it.
FitsOrBare ==
  stage = "send" /\ attempt = 0 => Fits(body) \/ (body.history = <<>> /\ body.tools = <<>>)

\* Where each result follows its call in what is translated, a result is sent without its
\* call only if the history was cut just between them: in the oldest entry that is left, or in
\* the current message when no entry is.  Neither the skipping of blank messages nor any cut
\* but that parts the two (request.go:248 cuts by single entries; the API wants each result to
\* have its call).  A list of headroom's may itself have parted them, which nobody looks at.
Paired ==
  LET h == body.history
  IN  linked =>
        /\ \A i \in 2..Len(h) : h[i].results \subseteq h[i - 1].uses
        /\ h # <<>> => body.results \subseteq Last(h).uses

\* The n newest entries of the history, with all the tools as they were.
WithNewest(n) ==
  [original EXCEPT !.history = KeepMostRecentHistory(@, n)]

\* Nothing is given up without need: one more entry of the history would not have
\* fitted, and the tools are touched only if they did not fit without any history.
NothingNeedless ==
  stage = "send" /\ attempt = 0 =>
    /\ body.history # original.history => ~Fits(WithNewest(Len(body.history) + 1))
    /\ body.tools # original.tools => ~Fits(WithNewest(0))

\* A payload that was sent once is never sent again with more in it: a retry has no
\* more entries, tools and description bytes.
RetryHasNoMore ==
  [][stage = "send" =>
       /\ IsSuffix(body'.history, body.history)
       /\ Len(body'.tools) = Len(body.tools)
       /\ \A i \in DOMAIN body.tools : body'.tools[i].desc <= body.tools[i].desc]_payloadVars
=============================================================================
