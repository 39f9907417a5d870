----------------------------- MODULE MCPayload -----------------------------
(* Conversations of up to five messages with calls of tools, and up to two *)
(* tools described, around the limits of the code: 80, 100 and             *)
(* MaxToolDescLen bytes of description, and the payload limit itself.      *)
EXTENDS Payload

B(kind, id, says) == [kind |-> kind, id |-> id, says |-> says]

MCAsks == {<<B("text", NoId, "text")>>, <<B("text", NoId, "blank")>>}

\* A call alone, a call among words, and a message that is skipped.
MCAnswers(id) ==
  {<<B("text", NoId, "text")>>, <<B("text", NoId, "blank")>>,
   <<B("tool_use", id, "text")>>, <<B("text", NoId, "blank"), B("tool_use", id, "text")>>}

\* The result of a call, which may be empty or absent.
MCResults(id) ==
  {<<B("tool_result", id, says)>> : says \in {"text", "blank", "absent"}}

M(role, content, size) == [role |-> role, content |-> content, size |-> size]

\* What the user says after the answer.
MCReplies(answer) ==
  IF ExtractToolUses(answer) = {} THEN {<<B("text", NoId, "text")>>}
  ELSE UNION {MCResults(id) : id \in ExtractToolUses(answer)}

MCShort == {<<M("user", q, s)>> : q \in MCAsks, s \in {100, 250}}

MCThree ==
  UNION {{<<M("user", q, s), M("assistant", a, t), M("user", r, 100)>> :
            q \in MCAsks, s \in {100, 250}, t \in {100, 250}, r \in MCReplies(a)} :
         a \in MCAnswers("t1")}

MCFive ==
  UNION {{<<M("user", <<B("text", NoId, "text")>>, s), M("assistant", a, 100),
            M("user", r, t), M("assistant", b, u), M("user", q, 100)>> :
            s \in {100, 250}, t \in {100, 250}, u \in {100, 250},
            r \in MCReplies(a), q \in MCReplies(b)} :
         a \in MCAnswers("t1"), b \in MCAnswers("t2")}

\* Two calls at once, answered in the other order.
MCParallel ==
  {<<M("user", <<B("text", NoId, "text")>>, s),
     M("assistant", <<B("tool_use", "t1", "text"), B("tool_use", "t2", "text")>>, t),
     M("user", <<B("tool_result", "t2", "text"), B("tool_result", "t1", "blank")>>, 250)>> \o rest :
     s \in {100, 250}, t \in {100, 250},
     rest \in {<<>>, <<M("assistant", <<B("text", NoId, "text")>>, 100),
                     M("user", <<B("image", NoId, "text")>>, 100)>>}}

MCTools == [desc : {60, 90, 200}, schema : {2, 300}]

D(desc, schema) == [desc |-> desc, schema |-> schema]

MCToolLists ==
  {<<>>, <<D(90, 300), D(90, 300)>>, <<D(60, 2), D(200, 300)>>} \cup {<<t>> : t \in MCTools}

MCAsked(system, rest) ==
  [system : {system}, messages : MCShort \cup MCThree \cup MCFive \cup MCParallel,
   tools : MCToolLists, rest : {rest}]

MCAnthropicRequests == MCAsked(0, 50) \cup MCAsked(120, 301) \cup MCAsked(0, 500)

\* Headroom's own: a summary, and a result under the role of a tool.
MCHeadroomOwn ==
  {M("assistant", <<B("text", NoId, "text")>>, 60),
   M("other", <<B("tool_result", "t1", "text")>>, 60)}
=============================================================================
