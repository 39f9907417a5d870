---------------------------- MODULE RequestProofs ----------------------------
(***************************************************************************)
(* What is made of a request: its payload, for any conversations, tools    *)
(* and limits, and its profile, for any requests, profiles and models.     *)
(*                                                                         *)
(* The payload.  Whatever list headroom answers, messages are left, its    *)
(* own or the client's (Applied); the history keeps their order and every  *)
(* message that calls a tool, so a result that follows its call among them *)
(* still does (HistoryPairs).  From then on what is left of the history is *)
(* always its newest entries (Newest), while the current message stays;    *)
(* PayloadInv remembers of each stage what did not fit before it.          *)
(*                                                                         *)
(* The profile.  Whatever is stored was named by the upstream a moment     *)
(* before, so the cache, once it holds something, holds a named profile    *)
(* and becomes empty only if the upstream names an empty one; what a       *)
(* request takes from it till then is a profile too.                       *)
(***************************************************************************)
EXTENDS Payload, Profile, SequenceTheorems, WellFoundedInduction, TLAPS

-----------------------------------------------------------------------------
(* Numbers and sequences.  A least counterexample stands for induction.    *)

\* Of any numbers one is the least.
LEMMA Least ==
  ASSUME NEW T, T \subseteq Nat, T # {}
  PROVE  \E n \in T : \A m \in T : n <= m
<1>1. PICK n \in T : \A m \in T : <<m, n>> \notin OpToRel(<, Nat)
  BY NatLessThanWellFounded, WFMin, Zenon
<1>2. \A m \in T : ~(m < n)
  BY <1>1, Zenon DEF OpToRel
<1>. QED  BY <1>2

\* What holds of zero, and of each number's successor, holds of all.
LEMMA Climb ==
  ASSUME NEW T, 0 \in T, \A n \in Nat : n \in T => n + 1 \in T
  PROVE  Nat \subseteq T
<1>. SUFFICES ASSUME Nat \ T # {} PROVE FALSE
  OBVIOUS
<1>1. PICK n \in Nat \ T : \A m \in Nat \ T : n <= m
  BY Least
<1>2. n # 0 /\ n - 1 \in Nat
  BY <1>1
<1>3. n - 1 \in T
  BY <1>1, <1>2
<1>. QED  BY <1>1, <1>2, <1>3

\* A value of the function in Chosen, from the one before it.
ChosenAt(s, K, g, i) ==
  IF i = 0 THEN <<>> ELSE IF i \in K THEN Append(g[i - 1], s[i]) ELSE g[i - 1]

\* The function in Chosen exists.
LEMMA ChosenFunction ==
  ASSUME NEW s, NEW K, Len(s) \in Nat
  PROVE  \E g : /\ g = [i \in 0..Len(s) |-> ChosenAt(s, K, g, i)]
                /\ Chosen(s, K) = g[Len(s)]
<1>. DEFINE T == {n \in Nat : \E g : g = [i \in 0..n |-> ChosenAt(s, K, g, i)]}
<1>1. 0 \in T
  <2>. DEFINE g == [i \in 0..0 |-> <<>>]
  <2>1. g = [i \in 0..0 |-> ChosenAt(s, K, g, i)]
    BY DEF ChosenAt
  <2>. HIDE DEF g
  <2>. QED  BY <2>1
<1>2. ASSUME NEW n \in Nat, n \in T PROVE n + 1 \in T
  <2>1. PICK g : g = [i \in 0..n |-> ChosenAt(s, K, g, i)]
    BY <1>2
  <2>. DEFINE h == [i \in 0..(n + 1) |-> IF i = n + 1 THEN ChosenAt(s, K, g, i) ELSE g[i]]
  <2>2. \A i \in 0..(n + 1) : ChosenAt(s, K, h, i) = ChosenAt(s, K, g, i)
    BY DEF ChosenAt
  <2>3. \A i \in 0..n : g[i] = ChosenAt(s, K, g, i)
    BY <2>1
  <2>4. h = [i \in 0..(n + 1) |-> ChosenAt(s, K, h, i)]
    BY <2>2, <2>3
  <2>. HIDE DEF h
  <2>. QED  BY <2>4
<1>. HIDE DEF T
<1>3. Len(s) \in T
  BY <1>1, <1>2, Climb
<1>4. \E g : g = [i \in 0..Len(s) |-> ChosenAt(s, K, g, i)]
  BY <1>3 DEF T
<1>. DEFINE chosen == CHOOSE g : g = [i \in 0..Len(s) |-> ChosenAt(s, K, g, i)]
<1>5. chosen = [i \in 0..Len(s) |-> ChosenAt(s, K, chosen, i)]
  BY <1>4
<1>6. Chosen(s, K) = chosen[Len(s)]
  BY DEF Chosen, ChosenAt
<1>. HIDE DEF chosen
<1>. QED  BY <1>5, <1>6

\* The sequence c is made of the elements of s at the places in K up to the n-th; p says
\* where each is from.
IsChoice(c, p, s, K, n) ==
  /\ p \in [1..Len(c) -> 1..n]
  /\ \A i, j \in 1..Len(c) : i < j => p[i] < p[j]
  /\ \A i \in 1..Len(c) : p[i] \in K /\ c[i] = s[p[i]]
  /\ \A k \in 1..n : k \in K => \E i \in 1..Len(c) : p[i] = k

\* Chosen keeps the order and loses nothing.
LEMMA ChosenFacts ==
  ASSUME NEW S, NEW s \in Seq(S), NEW K
  PROVE  /\ Chosen(s, K) \in Seq(S)
         /\ \E p : IsChoice(Chosen(s, K), p, s, K, Len(s))
<1>1. Len(s) \in Nat /\ \A i \in 1..Len(s) : s[i] \in S
  OBVIOUS
<1>2. PICK g : /\ g = [i \in 0..Len(s) |-> ChosenAt(s, K, g, i)]
               /\ Chosen(s, K) = g[Len(s)]
  BY <1>1, ChosenFunction
<1>3. \A i \in 0..Len(s) : g[i] = ChosenAt(s, K, g, i)
  BY <1>2
<1>. DEFINE T == {n \in Nat : n <= Len(s) =>
                     g[n] \in Seq(S) /\ \E p : IsChoice(g[n], p, s, K, n)}
<1>4. 0 \in T
  <2>1. g[0] = <<>>
    BY <1>1, <1>3 DEF ChosenAt
  <2>. DEFINE p == [i \in 1..0 |-> 1]
  <2>2. IsChoice(<<>>, p, s, K, 0)
    BY DEF IsChoice
  <2>. HIDE DEF p
  <2>3. g[0] \in Seq(S)
    BY <2>1
  <2>4. \E q : IsChoice(g[0], q, s, K, 0)
    BY <2>1, <2>2
  <2>. QED  BY <2>3, <2>4
<1>5. ASSUME NEW n \in Nat, n \in T PROVE n + 1 \in T
  <2>. SUFFICES ASSUME n + 1 <= Len(s)
               PROVE  g[n + 1] \in Seq(S) /\ \E p : IsChoice(g[n + 1], p, s, K, n + 1)
    OBVIOUS
  <2>1. PICK p : g[n] \in Seq(S) /\ IsChoice(g[n], p, s, K, n)
    BY <1>5, <1>1
  <2>2. n + 1 \in 0..Len(s) /\ n + 1 # 0 /\ s[n + 1] \in S /\ (n + 1) - 1 = n
    BY <1>1
  <2>3. CASE n + 1 \notin K
    <3>1. g[n + 1] = g[n]
      BY <1>3, <2>2, <2>3 DEF ChosenAt
    <3>2. IsChoice(g[n], p, s, K, n + 1)
      BY <2>1, <2>3 DEF IsChoice
    <3>. QED  BY <2>1, <3>1, <3>2
  <2>4. CASE n + 1 \in K
    <3>. DEFINE c == Append(g[n], s[n + 1])
    <3>1. g[n + 1] = c
      BY <1>3, <2>2, <2>4 DEF ChosenAt
    <3>2. /\ c \in Seq(S) /\ Len(g[n]) \in Nat /\ Len(c) = Len(g[n]) + 1
          /\ \A i \in 1..Len(g[n]) : c[i] = g[n][i]
          /\ c[Len(g[n]) + 1] = s[n + 1]
      BY <2>1, <2>2, AppendProperties
    <3>. DEFINE q == [i \in 1..(Len(g[n]) + 1) |-> IF i = Len(g[n]) + 1 THEN n + 1 ELSE p[i]]
    <3>. HIDE DEF c
    <3>3. q \in [1..Len(c) -> 1..(n + 1)]
      BY <2>1, <3>2 DEF IsChoice
    <3>4. ASSUME NEW i \in 1..Len(c), NEW j \in 1..Len(c), i < j PROVE q[i] < q[j]
      <4>1. i \in 1..Len(g[n]) /\ q[i] = p[i] /\ p[i] \in 1..n
        <5>1. i \in 1..Len(g[n]) /\ Len(g[n]) \in Nat
          BY <3>2, <3>4
        <5>2. p[i] \in 1..n
          BY <2>1, <5>1 DEF IsChoice
        <5>. QED  BY <5>1, <5>2
      <4>2. CASE j = Len(g[n]) + 1
        BY <4>1, <4>2
      <4>3. CASE j # Len(g[n]) + 1
        BY <2>1, <3>2, <3>4, <4>1, <4>3 DEF IsChoice
      <4>. QED  BY <4>2, <4>3
    <3>5. \A i \in 1..Len(c) : q[i] \in K /\ c[i] = s[q[i]]
      BY <2>1, <2>4, <3>2 DEF IsChoice
    <3>6. ASSUME NEW k \in 1..(n + 1), k \in K PROVE \E i \in 1..Len(c) : q[i] = k
      <4>1. CASE k = n + 1
        BY <3>2, <4>1
      <4>2. CASE k # n + 1
        <5>1. PICK i \in 1..Len(g[n]) : p[i] = k
          BY <2>1, <3>6, <4>2 DEF IsChoice
        <5>2. q[i] = k /\ i \in 1..Len(c)
          BY <3>2, <5>1
        <5>. QED  BY <5>2
      <4>. QED  BY <4>1, <4>2
    <3>. HIDE DEF q
    <3>7. IsChoice(c, q, s, K, n + 1)
      BY <3>3, <3>4, <3>5, <3>6 DEF IsChoice
    <3>. QED  BY <3>1, <3>2, <3>7
  <2>. QED  BY <2>3, <2>4
<1>. HIDE DEF T
<1>6. Len(s) \in T
  BY <1>1, <1>4, <1>5, Climb
<1>. QED  BY <1>1, <1>2, <1>6 DEF T

\* A value of the function in Total, from the one before it.
TotalAt(s, g, i) == IF i = 0 THEN 0 ELSE g[i - 1] + s[i]

\* A sum of natural numbers is one.
LEMMA TotalNat ==
  ASSUME NEW s \in Seq(Nat)
  PROVE  Total(s) \in Nat
<1>1. Len(s) \in Nat /\ \A i \in 1..Len(s) : s[i] \in Nat
  OBVIOUS
<1>. DEFINE T == {n \in Nat : n <= Len(s) => \E g \in [0..n -> Nat] :
                                               g = [i \in 0..n |-> TotalAt(s, g, i)]}
<1>2. 0 \in T
  <2>. DEFINE g == [i \in 0..0 |-> 0]
  <2>1. g = [i \in 0..0 |-> TotalAt(s, g, i)] /\ g \in [0..0 -> Nat]
    BY DEF TotalAt
  <2>. HIDE DEF g
  <2>. QED  BY <2>1
<1>3. ASSUME NEW n \in Nat, n \in T PROVE n + 1 \in T
  <2>. SUFFICES ASSUME n + 1 <= Len(s)
               PROVE  \E g \in [0..(n + 1) -> Nat] :
                        g = [i \in 0..(n + 1) |-> TotalAt(s, g, i)]
    OBVIOUS
  <2>1. PICK g \in [0..n -> Nat] : g = [i \in 0..n |-> TotalAt(s, g, i)]
    BY <1>1, <1>3
  <2>. DEFINE h == [i \in 0..(n + 1) |-> IF i = n + 1 THEN TotalAt(s, g, i) ELSE g[i]]
  <2>2. \A i \in 0..(n + 1) : TotalAt(s, h, i) = TotalAt(s, g, i)
    BY DEF TotalAt
  <2>3. \A i \in 0..n : g[i] = TotalAt(s, g, i)
    BY <2>1
  <2>4. h = [i \in 0..(n + 1) |-> TotalAt(s, h, i)]
    BY <2>2, <2>3
  <2>5. TotalAt(s, g, n + 1) \in Nat
    BY <1>1, <2>1 DEF TotalAt
  <2>6. h \in [0..(n + 1) -> Nat]
    <3>1. ASSUME NEW i \in 0..(n + 1)
          PROVE  (IF i = n + 1 THEN TotalAt(s, g, i) ELSE g[i]) \in Nat
      <4>1. CASE i = n + 1
        BY <2>5, <4>1
      <4>2. CASE i # n + 1
        <5>1. i \in 0..n
          BY <4>2
        <5>. QED  BY <2>1, <4>2, <5>1
      <4>. QED  BY <4>1, <4>2
    <3>. QED  BY <3>1
  <2>. HIDE DEF h
  <2>. QED  BY <2>4, <2>6
<1>. HIDE DEF T
<1>4. Len(s) \in T
  BY <1>1, <1>2, <1>3, Climb
<1>5. PICK g \in [0..Len(s) -> Nat] : g = [i \in 0..Len(s) |-> TotalAt(s, g, i)]
  BY <1>1, <1>4 DEF T
<1>. DEFINE total == CHOOSE f : f = [i \in 0..Len(s) |-> TotalAt(s, f, i)]
<1>6. total = [i \in 0..Len(s) |-> TotalAt(s, total, i)]
  BY <1>5
<1>7. Total(s) = total[Len(s)]
  BY DEF Total, TotalAt
<1>. HIDE DEF total
<1>. DEFINE U == {n \in Nat : n <= Len(s) => total[n] \in Nat}
<1>8. \A i \in 0..Len(s) : total[i] = TotalAt(s, total, i)
  BY <1>6
<1>9. 0 \in U
  BY <1>1, <1>8 DEF TotalAt
<1>10. ASSUME NEW n \in Nat, n \in U PROVE n + 1 \in U
  <2>. SUFFICES ASSUME n + 1 <= Len(s) PROVE total[n + 1] \in Nat
    OBVIOUS
  <2>1. total[n] \in Nat /\ s[n + 1] \in Nat /\ n + 1 \in 0..Len(s) /\ (n + 1) - 1 = n
    BY <1>1, <1>10
  <2>. QED  BY <1>8, <2>1 DEF TotalAt
<1>. HIDE DEF U
<1>11. Len(s) \in U
  BY <1>1, <1>9, <1>10, Climb
<1>. QED  BY <1>1, <1>7, <1>11 DEF U

-----------------------------------------------------------------------------
(* The translation.                                                        *)

\* The tool calls and results of a message are among the identifiers.
LEMMA BlockIds ==
  ASSUME NEW content \in Seq(Block)
  PROVE  ExtractToolUses(content) \subseteq Ids /\ ExtractToolResults(content) \subseteq Ids
<1>1. \A b \in Range(content) : b \in Block
  BY DEF Range
<1>. QED  BY <1>1 DEF ExtractToolUses, ExtractToolResults, BlocksOf, Block

\* A message that calls a tool has something to say.
LEMMA CallsKept ==
  ASSUME NEW m \in Message, ExtractToolUses(m.content) # {}
  PROVE  Kept(m)
<1>1. PICK b \in Range(m.content) : b.kind = "tool_use" /\ b.says # "nothing"
  BY DEF ExtractToolUses, BlocksOf
<1>2. PICK i \in DOMAIN m.content : m.content[i] = b
  BY DEF Range
<1>3. Text(m.content[i]) = "text"
  BY <1>1, <1>2 DEF Text
<1>4. GetMessageContent(m.content) = "text"
  BY <1>3 DEF GetMessageContent
<1>. QED  BY <1>4 DEF Kept

\* What the middleware sends are messages: the system prompt, if there is one, and the client's.
LEMMA HeadroomMessages ==
  ASSUME NEW a \in AnthropicRequest
  PROVE  anthropicToHeadroomMessages(a) \in Seq(Message)
<1>. DEFINE e == [role |-> "system", content |-> <<>>, size |-> a.system]
<1>1. a.messages \in Seq(Message) /\ a.system \in Nat
  BY DEF AnthropicRequest
<1>2. e \in Message
  <2>1. <<>> \in Seq(Block)
    OBVIOUS
  <2>. QED  BY <1>1, <2>1 DEF Message
<1>3. anthropicToHeadroomMessages(a) = (IF a.system > 0 THEN <<e>> ELSE <<>>) \o a.messages
  BY DEF anthropicToHeadroomMessages
<1>. HIDE DEF e
<1>. QED  BY <1>1, <1>2, <1>3

\* Half the bytes of messages are messages.
LEMMA Halved ==
  ASSUME NEW s \in Seq(Message)
  PROVE  [i \in DOMAIN s |-> [s[i] EXCEPT !.size = @ \div 2]] \in Seq(Message)
<1>. DEFINE h == [i \in DOMAIN s |-> [s[i] EXCEPT !.size = @ \div 2]]
<1>1. Len(s) \in Nat /\ DOMAIN s = 1..Len(s)
  OBVIOUS
<1>2. ASSUME NEW i \in 1..Len(s) PROVE h[i] \in Message
  <2>. DEFINE e == s[i]  n == e.size \div 2
  <2>1. h[i] = [e EXCEPT !.size = n] /\ e \in Message
    BY <1>1, ElementOfSeq
  <2>2. n \in Nat
    BY <2>1 DEF Message
  <2>. HIDE DEF e, n
  <2>3. [e EXCEPT !.size = n] \in Message
    BY <2>1, <2>2 DEF Message
  <2>. QED  BY <2>1, <2>3
<1>3. h \in [1..Len(s) -> Message]
  BY <1>1, <1>2
<1>. QED  BY <1>1, <1>3

\* Whatever headroom answers are messages.
LEMMA Compressed ==
  ASSUME NEW s \in Seq(Message), NEW compressed \in Compressions(s)
  PROVE  compressed \in Seq(Message)
<1>. DEFINE half == [i \in DOMAIN s |-> [s[i] EXCEPT !.size = @ \div 2]]
            parts == Range(half) \cup HeadroomOwn
<1>1. half \in Seq(Message)
  BY Halved
<1>2. compressed = half \/ \E n \in 0..MaxCompressed : compressed \in [1..n -> parts]
  BY DEF Compressions
<1>3. parts \subseteq Message
  <2>. HIDE DEF half
  <2>1. \A m \in Range(half) : m \in Message
    BY <1>1 DEF Range
  <2>. QED  BY <2>1, TranslationAssumption
<1>. HIDE DEF half, parts
<1>4. ASSUME NEW n \in 0..MaxCompressed, compressed \in [1..n -> parts]
      PROVE  compressed \in Seq(Message)
  <2>1. n \in Nat
    BY TranslationAssumption
  <2>2. compressed \in [1..n -> Message]
    BY <1>3, <1>4
  <2>. QED  BY <2>1, <2>2
<1>. QED  BY <1>1, <1>2, <1>4

\* What is left after the middleware: the messages of the list that headroom answers, or all
\* of the client's if there are none in it.
LEMMA Applied ==
  ASSUME NEW a \in AnthropicRequest,
         NEW compressed \in Compressions(anthropicToHeadroomMessages(a)),
         NEW b, b = applyCompressedMessages(a, compressed)
  PROVE  /\ b \in AnthropicRequest
         /\ b.messages = IF Spoken(compressed) = <<>> THEN a.messages ELSE Spoken(compressed)
<1>1. /\ a.messages \in Seq(Message) /\ a.messages # <<>>
      /\ a.system \in Nat /\ a.tools \in Seq(Tool) /\ a.rest \in Nat
  BY DEF AnthropicRequest
<1>2. compressed \in Seq(Message)
  BY HeadroomMessages, Compressed
<1>3. Spoken(compressed) \in Seq(Message)
  BY <1>2, ChosenFacts DEF Spoken
<1>4. MessagesSize(System(compressed)) \in Nat
  <2>. DEFINE t == System(compressed)
              sizes == [i \in DOMAIN t |-> t[i].size]
  <2>1. t \in Seq(Message)
    BY <1>2, ChosenFacts DEF System
  <2>. HIDE DEF t
  <2>2. \A i \in 1..Len(t) : t[i].size \in Nat
    <3>1. \A i \in 1..Len(t) : t[i] \in Message
      BY <2>1, ElementOfSeq
    <3>. QED  BY <3>1 DEF Message
  <2>3. sizes \in Seq(Nat)
    <3>1. Len(t) \in Nat /\ DOMAIN t = 1..Len(t)
      BY <2>1
    <3>2. sizes \in [1..Len(t) -> Nat]
      BY <2>2, <3>1
    <3>. QED  BY <3>1, <3>2
  <2>. HIDE DEF sizes
  <2>4. Total(sizes) \in Nat
    BY <2>3, TotalNat
  <2>. QED  BY <2>4 DEF MessagesSize, sizes, t
<1>5. CASE Spoken(compressed) = <<>>
  BY <1>5 DEF applyCompressedMessages
<1>6. CASE Spoken(compressed) # <<>>
  <2>1. b = [a EXCEPT !.messages = Spoken(compressed),
                      !.system = MessagesSize(System(compressed))]
    BY <1>6 DEF applyCompressedMessages
  <2>2. Spoken(compressed) \in Seq(Message) \ {<<>>}
    BY <1>3, <1>6
  <2>3. b \in AnthropicRequest /\ b.messages = Spoken(compressed)
    BY <1>4, <2>1, <2>2 DEF AnthropicRequest
  <2>. QED  BY <1>6, <2>3
<1>. QED  BY <1>5, <1>6

\* Shorter descriptions are still those of all the tools.
LEMMA DescriptionsTruncated ==
  ASSUME NEW tools \in Seq(Tool), NEW max \in Nat, NEW t, t = TruncateDescriptions(tools, max)
  PROVE  /\ t \in Seq(Tool) /\ Len(t) = Len(tools)
         /\ \A i \in 1..Len(tools) : t[i].desc <= tools[i].desc
<1>1. Len(tools) \in Nat /\ DOMAIN tools = 1..Len(tools)
  OBVIOUS
<1>2. \A i \in 1..Len(tools) : tools[i] \in Tool
  BY ElementOfSeq
<1>3. ASSUME NEW i \in 1..Len(tools)
      PROVE  t[i] \in Tool /\ t[i].desc <= tools[i].desc
  <2>1. t[i] = [tools[i] EXCEPT !.desc = Truncated(@, max)]
    BY <1>1 DEF TruncateDescriptions
  <2>2. tools[i].desc \in Nat
    BY <1>2 DEF Tool
  <2>3. Truncated(tools[i].desc, max) \in Nat
    BY <2>2 DEF Truncated
  <2>4. Truncated(tools[i].desc, max) <= tools[i].desc
    BY <2>2 DEF Truncated
  <2>. QED  BY <1>2, <2>1, <2>3, <2>4 DEF Tool
<1>4. t \in [1..Len(tools) -> Tool]
  BY <1>1, <1>3 DEF TruncateDescriptions
<1>. QED  BY <1>1, <1>3, <1>4

\* So are stripped schemas, and the descriptions stay.
LEMMA SchemasStripped ==
  ASSUME NEW tools \in Seq(Tool), NEW t, t = StripSchemas(tools)
  PROVE  /\ t \in Seq(Tool) /\ Len(t) = Len(tools)
         /\ \A i \in 1..Len(tools) : t[i].desc = tools[i].desc
<1>1. Len(tools) \in Nat /\ DOMAIN tools = 1..Len(tools)
  OBVIOUS
<1>2. \A i \in 1..Len(tools) : tools[i] \in Tool
  BY ElementOfSeq
<1>3. ASSUME NEW i \in 1..Len(tools)
      PROVE  t[i] \in Tool /\ t[i].desc = tools[i].desc
  <2>1. t[i] = [tools[i] EXCEPT !.schema = ObjectSchema]
    BY <1>1 DEF StripSchemas
  <2>2. ObjectSchema \in Nat
    BY DEF ObjectSchema
  <2>. QED  BY <1>2, <2>1, <2>2 DEF Tool
<1>4. t \in [1..Len(tools) -> Tool]
  BY <1>1, <1>3 DEF StripSchemas
<1>. QED  BY <1>1, <1>3, <1>4

\* Each result of a request has its call: in the entry before, or, of the current message,
\* in the last one.
Pairs(r) ==
  /\ \A i \in 2..Len(r.history) : r.history[i].results \subseteq r.history[i - 1].uses
  /\ r.history # <<>> => r.results \subseteq Last(r.history).uses

\* A message that answers a call, with the one before it.
LEMMA Answers ==
  ASSUME NEW m \in Seq(Message), Linked(m), NEW i \in 2..Len(m),
         ExtractToolResults(m[i].content) # {}
  PROVE  /\ m[i - 1].role = "assistant" /\ Kept(m[i - 1])
         /\ ExtractToolResults(m[i].content) \subseteq ExtractToolUses(m[i - 1].content)
<1>1. /\ m[i - 1].role = "assistant"
      /\ ExtractToolResults(m[i].content) \subseteq ExtractToolUses(m[i - 1].content)
  BY DEF Linked
<1>2. m[i - 1] \in Message
  <2>1. Len(m) \in Nat /\ i - 1 \in 1..Len(m)
    OBVIOUS
  <2>. QED  BY <2>1, ElementOfSeq
<1>3. Kept(m[i - 1])
  BY <1>1, <1>2, CallsKept
<1>. QED  BY <1>1, <1>3

\* The entry made of a message.
LEMMA EntryFacts ==
  ASSUME NEW m \in Message, NEW n \in Nat
  PROVE  /\ HistoryEntry(m, n) \in Entry
         /\ HistoryEntry(m, n).results \subseteq ExtractToolResults(m.content)
         /\ m.role = "assistant" => HistoryEntry(m, n).uses = ExtractToolUses(m.content)
<1>1. m.content \in Seq(Block) /\ m.size \in Nat
  BY DEF Message
<1>2. ExtractToolUses(m.content) \subseteq Ids /\ ExtractToolResults(m.content) \subseteq Ids
  BY <1>1, BlockIds
<1>. QED  BY <1>1, <1>2 DEF HistoryEntry, Entry

\* Of messages in which each result follows its call so does the history, and the current
\* message the history: a message with calls is never skipped.
LEMMA HistoryPairs ==
  ASSUME NEW m \in Seq(Message), Len(m) # 0, NEW h, h = History(m)
  PROVE  /\ h \in Seq(Entry)
         /\ Linked(m) =>
              /\ \A i \in 2..Len(h) : h[i].results \subseteq h[i - 1].uses
              /\ h # <<>> => ExtractToolResults(m[Len(m)].content) \subseteq h[Len(h)].uses
<1>. DEFINE entries == [i \in 1..(Len(m) - 1) |-> HistoryEntry(m[i], i)]
            K == {i \in DOMAIN entries : Kept(m[i])}
<1>1. m \in Seq(Message) /\ Len(m) \in Nat
  OBVIOUS
<1>2. \A i \in 1..Len(m) : m[i] \in Message
  BY <1>1, ElementOfSeq
<1>3. entries \in Seq(Entry) /\ Len(entries) = Len(m) - 1 /\ Len(m) - 1 \in Nat
  <2>1. Len(m) - 1 \in Nat
    BY <1>1
  <2>2. \A i \in 1..(Len(m) - 1) : HistoryEntry(m[i], i) \in Entry
    <3>. TAKE i \in 1..(Len(m) - 1)
    <3>1. m[i] \in Message /\ i \in Nat
      BY <1>1, <1>2
    <3>. QED  BY <3>1, EntryFacts
  <2>3. entries \in [1..(Len(m) - 1) -> Entry]
    BY <2>2
  <2>. QED  BY <2>1, <2>3
<1>4. h = Chosen(entries, K)
  BY DEF History
<1>5. \A i \in 1..(Len(m) - 1) : entries[i] = HistoryEntry(m[i], i) /\ (i \in K <=> Kept(m[i]))
  BY <1>3
<1>. HIDE DEF entries, K
<1>6. PICK p : h \in Seq(Entry) /\ IsChoice(h, p, entries, K, Len(m) - 1)
  BY <1>3, <1>4, ChosenFacts
<1>7. /\ Len(h) \in Nat
      /\ \A i \in 1..Len(h) : p[i] \in 1..(Len(m) - 1) /\ h[i] = HistoryEntry(m[p[i]], p[i])
  <2>1. Len(h) \in Nat
    BY <1>6
  <2>2. \A i \in 1..Len(h) : p[i] \in 1..(Len(m) - 1) /\ h[i] = entries[p[i]]
    BY <1>6 DEF IsChoice
  <2>. QED  BY <1>5, <2>1, <2>2
<1>8. \A i, l \in 1..Len(h) : i < l => p[i] < p[l]
  BY <1>6 DEF IsChoice
<1>9. \A n \in 1..(Len(m) - 1) : Kept(m[n]) => \E i \in 1..Len(h) : p[i] = n
  BY <1>5, <1>6 DEF IsChoice
<1>10. ASSUME Linked(m), NEW i \in 2..Len(h) PROVE h[i].results \subseteq h[i - 1].uses
  <2>. DEFINE n == p[i]
  <2>1. /\ i \in 1..Len(h) /\ i - 1 \in 1..Len(h) /\ i - 1 < i
        /\ n \in 1..(Len(m) - 1) /\ h[i] = HistoryEntry(m[n], n)
    BY <1>7
  <2>2. p[i - 1] \in 1..(Len(m) - 1) /\ p[i - 1] < n
    BY <1>7, <1>8, <2>1
  <2>. HIDE DEF n
  <2>3. n \in 2..Len(m) /\ n \in 1..Len(m) /\ n \in Nat /\ n - 1 \in 1..(Len(m) - 1)
    BY <1>1, <2>1, <2>2
  <2>4. h[i].results \subseteq ExtractToolResults(m[n].content)
    BY <1>2, <2>1, <2>3, EntryFacts
  <2>5. CASE ExtractToolResults(m[n].content) = {}
    BY <2>4, <2>5
  <2>6. CASE ExtractToolResults(m[n].content) # {}
    <3>1. /\ m[n - 1].role = "assistant" /\ Kept(m[n - 1])
          /\ ExtractToolResults(m[n].content) \subseteq ExtractToolUses(m[n - 1].content)
      BY <1>10, <2>3, <2>6, Answers
    <3>2. PICK l \in 1..Len(h) : p[l] = n - 1
      BY <1>9, <2>3, <3>1
    <3>3. l = i - 1
      <4>1. ~(i <= l)
        <5>1. i < l => n < p[l]
          BY <1>8, <2>1 DEF n
        <5>2. i = l => n = p[l]
          BY DEF n
        <5>. QED  BY <2>3, <3>2, <5>1, <5>2
      <4>2. ~(l < i - 1)
        <5>1. l < i - 1 => p[l] < p[i - 1]
          BY <1>8, <2>1
        <5>. QED  BY <2>2, <2>3, <3>2, <5>1
      <4>. QED  BY <1>7, <4>1, <4>2
    <3>4. h[i - 1] = HistoryEntry(m[n - 1], n - 1) /\ m[n - 1] \in Message /\ n - 1 \in Nat
      <4>1. h[l] = HistoryEntry(m[p[l]], p[l])
        BY <1>7
      <4>. QED  BY <1>2, <2>3, <3>2, <3>3, <4>1
    <3>5. h[i - 1].uses = ExtractToolUses(m[n - 1].content)
      BY <3>1, <3>4, EntryFacts
    <3>. QED  BY <2>4, <3>1, <3>5
  <2>. QED  BY <2>5, <2>6
<1>11. ASSUME Linked(m), h # <<>>, ExtractToolResults(m[Len(m)].content) # {}
       PROVE  ExtractToolResults(m[Len(m)].content) \subseteq h[Len(h)].uses
  <2>. DEFINE n == Len(m)
  <2>1. Len(h) \in 1..Len(h)
    BY <1>6, <1>7, <1>11, EmptySeq
  <2>2. p[Len(h)] \in 1..(n - 1) /\ h[Len(h)] = HistoryEntry(m[p[Len(h)]], p[Len(h)])
    BY <1>7, <2>1
  <2>3. n \in 2..Len(m) /\ n - 1 \in 1..(Len(m) - 1) /\ n - 1 \in Nat
    BY <1>1, <2>2
  <2>. HIDE DEF n
  <2>4. /\ m[n - 1].role = "assistant" /\ Kept(m[n - 1])
        /\ ExtractToolResults(m[n].content) \subseteq ExtractToolUses(m[n - 1].content)
    BY <1>11, <2>3, Answers DEF n
  <2>5. PICK l \in 1..Len(h) : p[l] = n - 1
    BY <1>9, <2>3, <2>4
  <2>6. l = Len(h)
    <3>1. l < Len(h) => p[l] < p[Len(h)]
      BY <1>8, <2>1
    <3>. QED  BY <1>7, <2>2, <2>3, <2>5, <3>1
  <2>7. m[n - 1] \in Message
    BY <1>1, <1>2, <2>3
  <2>8. h[Len(h)].uses = ExtractToolUses(m[n - 1].content)
    BY <2>2, <2>3, <2>4, <2>5, <2>6, <2>7, EntryFacts
  <2>. QED  BY <2>4, <2>8 DEF n
<1>. QED  BY <1>6, <1>10, <1>11

\* What is built of what is left of the messages: it answers the calls that the last of them
\* answers, and each result has its call if it has it there.
LEMMA Built ==
  ASSUME NEW b \in AnthropicRequest, NEW r, r = BuildCodeWhispererRequest(b)
  PROVE  /\ r \in Request /\ (Linked(b.messages) => Pairs(r))
         /\ r.results = Answering(Last(b.messages))
<1>. DEFINE m == b.messages  n == Len(m)
<1>1. /\ m \in Seq(Message) /\ n \in Nat \ {0} /\ b.system \in Nat
      /\ b.tools \in Seq(Tool) /\ b.rest \in Nat
  <2>1. m \in Seq(Message) \ {<<>>}
    BY DEF AnthropicRequest
  <2>2. n \in Nat \ {0}
    BY <2>1, EmptySeq
  <2>. QED  BY <2>1, <2>2 DEF AnthropicRequest
<1>5. m[n] \in Message
  BY <1>1, ElementOfSeq
<1>. DEFINE x == ExtractToolResults(m[n].content)
<1>6. x \subseteq Ids /\ m[n].size \in Nat
  <2>1. m[n].content \in Seq(Block) /\ m[n].size \in Nat
    BY <1>5 DEF Message
  <2>. QED  BY <2>1, BlockIds
<1>7. r.results = IF m[n].role = "user" THEN x ELSE {}
  BY DEF BuildCodeWhispererRequest, Last
<1>8. r.results \subseteq x /\ r.results = Answering(Last(m))
  BY <1>7 DEF Answering, Last
<1>9. /\ History(m) \in Seq(Entry)
      /\ Linked(m) =>
           /\ \A i \in 2..Len(History(m)) : History(m)[i].results \subseteq History(m)[i - 1].uses
           /\ History(m) # <<>> => x \subseteq History(m)[Len(History(m))].uses
  BY <1>1, HistoryPairs
<1>10. BuildCodeWhispererTools(b.tools) \in Seq(Tool)
  BY <1>1, DescriptionsTruncated, TranslationAssumption DEF BuildCodeWhispererTools
<1>11. BuildCurrentMessageContent(b) \in Nat
  BY <1>1, <1>6 DEF BuildCurrentMessageContent, Last
<1>12. /\ r = [rest |-> b.rest + BuildCurrentMessageContent(b), results |-> r.results,
               history |-> History(m), tools |-> BuildCodeWhispererTools(b.tools)]
  BY DEF BuildCodeWhispererRequest
<1>. HIDE DEF x
<1>13. r \in Request
  <2>1. b.rest + BuildCurrentMessageContent(b) \in Nat
    BY <1>1, <1>11
  <2>. QED  BY <1>6, <1>8, <1>9, <1>10, <1>12, <2>1 DEF Request
<1>14. ASSUME Linked(m) PROVE Pairs(r)
  <2>1. r.history = History(m)
    BY <1>12
  <2>. QED  BY <1>8, <1>9, <1>14, <2>1 DEF Pairs, Last
<1>. QED  BY <1>8, <1>13, <1>14

-----------------------------------------------------------------------------
(* The newest entries.                                                     *)

\* What KeepMostRecentHistory keeps.
LEMMA KeepFacts ==
  ASSUME NEW S, NEW h \in Seq(S), NEW n \in Nat, NEW k, k = KeepMostRecentHistory(h, n)
  PROVE  /\ k \in Seq(S) /\ Len(h) \in Nat
         /\ Len(k) = IF Len(h) <= n THEN Len(h) ELSE n
         /\ \A i \in 1..Len(k) : /\ k[i] = h[Len(h) - Len(k) + i]
                                 /\ Len(h) - Len(k) + i \in 1..Len(h)
<1>1. Len(h) \in Nat
  OBVIOUS
<1>2. CASE Len(h) <= n
  <2>1. k = h
    BY <1>2 DEF KeepMostRecentHistory
  <2>2. \A i \in 1..Len(h) : Len(h) - Len(h) + i = i
    BY <1>1
  <2>. QED  BY <1>1, <1>2, <2>1, <2>2
<1>3. CASE ~(Len(h) <= n)
  <2>. DEFINE m == Len(h) - n + 1
  <2>1. k = SubSeq(h, m, Len(h))
    BY <1>3 DEF KeepMostRecentHistory
  <2>2. m \in 1..(Len(h) + 1) /\ Len(h) - m + 1 = n
    BY <1>1, <1>3
  <2>3. \A i \in m..Len(h) : h[i] \in S
    BY <1>1, <2>2, ElementOfSeq
  <2>4. /\ k \in Seq(S)
        /\ Len(k) = IF m <= Len(h) THEN Len(h) - m + 1 ELSE 0
        /\ \A i \in 1..(Len(h) - m + 1) : k[i] = h[m + i - 1]
    BY <1>1, <2>1, <2>2, <2>3, SubSeqProperties
  <2>5. Len(k) = n
    BY <1>1, <2>2, <2>4
  <2>6. \A i \in 1..n : m + i - 1 = Len(h) - n + i /\ Len(h) - n + i \in 1..Len(h)
    BY <1>1, <1>3
  <2>. QED  BY <1>1, <1>3, <2>2, <2>4, <2>5, <2>6
<1>. QED  BY <1>2, <1>3

\* To keep some of what is kept is to keep fewer.
LEMMA KeepKeep ==
  ASSUME NEW S, NEW h \in Seq(S), NEW n \in Nat, NEW l \in Nat,
         NEW k, k = KeepMostRecentHistory(KeepMostRecentHistory(h, n), l)
  PROVE  k \in Seq(S) /\ k = KeepMostRecentHistory(h, Len(k))
<1>. DEFINE g == KeepMostRecentHistory(h, n)  m == KeepMostRecentHistory(h, Len(k))
<1>1. /\ g \in Seq(S) /\ Len(h) \in Nat
      /\ Len(g) = IF Len(h) <= n THEN Len(h) ELSE n
      /\ \A i \in 1..Len(g) : g[i] = h[Len(h) - Len(g) + i]
  BY KeepFacts
<1>. HIDE DEF g
<1>2. /\ k \in Seq(S) /\ Len(g) \in Nat
      /\ Len(k) = IF Len(g) <= l THEN Len(g) ELSE l
      /\ \A i \in 1..Len(k) : /\ k[i] = g[Len(g) - Len(k) + i]
                              /\ Len(g) - Len(k) + i \in 1..Len(g)
  <2>1. k = KeepMostRecentHistory(g, l)
    BY DEF g
  <2>. QED  BY <1>1, <2>1, KeepFacts
<1>3. Len(k) \in Nat /\ Len(k) <= Len(h)
  BY <1>1, <1>2
<1>4. /\ m \in Seq(S)
      /\ Len(m) = Len(k)
      /\ \A i \in 1..Len(m) : m[i] = h[Len(h) - Len(m) + i]
  <2>1. m = KeepMostRecentHistory(h, Len(k))
    OBVIOUS
  <2>. HIDE DEF m
  <2>2. /\ m \in Seq(S)
        /\ Len(m) = IF Len(h) <= Len(k) THEN Len(h) ELSE Len(k)
        /\ \A i \in 1..Len(m) : m[i] = h[Len(h) - Len(m) + i]
    BY <1>3, <2>1, KeepFacts
  <2>3. Len(m) = Len(k)
    BY <1>1, <1>3, <2>2
  <2>. QED  BY <2>2, <2>3
<1>. HIDE DEF m
<1>5. ASSUME NEW i \in 1..Len(k) PROVE k[i] = m[i]
  <2>1. k[i] = h[Len(h) - Len(g) + (Len(g) - Len(k) + i)]
    <3>1. k[i] = g[Len(g) - Len(k) + i] /\ Len(g) - Len(k) + i \in 1..Len(g)
      BY <1>2
    <3>. QED  BY <1>1, <3>1
  <2>2. Len(h) - Len(g) + (Len(g) - Len(k) + i) = Len(h) - Len(k) + i
    <3>1. Len(h) \in Int /\ Len(g) \in Int /\ Len(k) \in Int /\ i \in Int
      BY <1>1, <1>2, <1>3
    <3>2. \A u, v, w, x \in Int : u - v + (v - w + x) = u - w + x
      OBVIOUS
    <3>. QED  BY <3>1, <3>2
  <2>3. m[i] = h[Len(h) - Len(k) + i]
    BY <1>4
  <2>. QED  BY <2>1, <2>2, <2>3
<1>6. k = m
  BY <1>2, <1>4, <1>5, SeqEqual
<1>. QED  BY <1>2, <1>6 DEF m

\* A history is all of its newest entries, and none are the empty one.
LEMMA KeepEnds ==
  ASSUME NEW S, NEW h \in Seq(S)
  PROVE  /\ KeepMostRecentHistory(h, Len(h)) = h
         /\ KeepMostRecentHistory(h, 0) = <<>>
<1>1. Len(h) \in Nat
  OBVIOUS
<1>2. KeepMostRecentHistory(h, Len(h)) = h
  BY <1>1 DEF KeepMostRecentHistory
<1>. DEFINE k == KeepMostRecentHistory(h, 0)
<1>3. k \in Seq(S) /\ Len(k) = IF Len(h) <= 0 THEN Len(h) ELSE 0
  BY KeepFacts
<1>. HIDE DEF k
<1>4. k = <<>>
  <2>1. Len(k) = 0
    BY <1>1, <1>3
  <2>. QED  BY <1>3, <2>1, EmptySeq
<1>. QED  BY <1>2, <1>4 DEF k

\* Without the oldest of the newest there is one less of them.
LEMMA KeepTail ==
  ASSUME NEW S, NEW h \in Seq(S), NEW k, k = KeepMostRecentHistory(h, Len(k)),
         k \in Seq(S), k # <<>>
  PROVE  /\ TrimOldestHistoryMessage(k) \in Seq(S)
         /\ Len(TrimOldestHistoryMessage(k)) = Len(k) - 1
         /\ TrimOldestHistoryMessage(k) = KeepMostRecentHistory(h, Len(k) - 1)
<1>. DEFINE t == TrimOldestHistoryMessage(k)  m == KeepMostRecentHistory(h, Len(k) - 1)
<1>1. Len(k) \in Nat \ {0} /\ Len(k) - 1 \in Nat
  BY EmptySeq
<1>2. /\ Len(h) \in Nat
      /\ Len(k) = IF Len(h) <= Len(k) THEN Len(h) ELSE Len(k)
      /\ \A i \in 1..Len(k) : k[i] = h[Len(h) - Len(k) + i]
  BY <1>1, KeepFacts
<1>3. t \in Seq(S) /\ Len(t) = Len(k) - 1 /\ \A i \in 1..Len(t) : t[i] = k[i + 1]
  BY HeadTailProperties DEF TrimOldestHistoryMessage
<1>4. /\ m \in Seq(S)
      /\ Len(m) = IF Len(h) <= Len(k) - 1 THEN Len(h) ELSE Len(k) - 1
      /\ \A i \in 1..Len(m) : m[i] = h[Len(h) - Len(m) + i]
  BY <1>1, KeepFacts
<1>. HIDE DEF t, m
<1>5. Len(m) = Len(k) - 1
  BY <1>1, <1>2, <1>4
<1>6. ASSUME NEW i \in 1..Len(t) PROVE t[i] = m[i]
  <2>1. i + 1 \in 1..Len(k) /\ Len(h) - Len(k) + (i + 1) = Len(h) - Len(m) + i
    BY <1>1, <1>2, <1>3, <1>5
  <2>2. t[i] = h[Len(h) - Len(k) + (i + 1)]
    BY <1>2, <1>3, <2>1
  <2>3. m[i] = h[Len(h) - Len(m) + i]
    BY <1>3, <1>4, <1>5
  <2>. QED  BY <2>1, <2>2, <2>3
<1>7. t = m
  BY <1>3, <1>4, <1>5, <1>6, SeqEqual
<1>. QED  BY <1>3, <1>7 DEF t, m

\* A sequence read backwards.
LEMMA Backwards ==
  ASSUME NEW S, NEW s \in Seq(S)
  PROVE  /\ Reverse(s) \in Seq(S) /\ Len(Reverse(s)) = Len(s)
         /\ \A i \in 1..Len(s) : Reverse(s)[i] = s[(Len(s) - i) + 1]
<1>1. Len(s) \in Nat
  OBVIOUS
<1>2. \A i \in 1..Len(s) : (Len(s) - i) + 1 \in 1..Len(s)
  BY <1>1
<1>3. \A i \in 1..Len(s) : s[(Len(s) - i) + 1] \in S
  BY <1>2, ElementOfSeq
<1>4. Reverse(s) \in [1..Len(s) -> S]
  BY <1>3 DEF Reverse
<1>. QED  BY <1>1, <1>4 DEF Reverse

\* The newest entries are an end of the history.
LEMMA KeepIsSuffix ==
  ASSUME NEW S, NEW h \in Seq(S), NEW n \in Nat, NEW k, k = KeepMostRecentHistory(h, n)
  PROVE  IsSuffix(k, h)
<1>1. /\ k \in Seq(S) /\ Len(h) \in Nat
      /\ Len(k) = IF Len(h) <= n THEN Len(h) ELSE n
      /\ \A i \in 1..Len(k) : /\ k[i] = h[Len(h) - Len(k) + i]
                              /\ Len(h) - Len(k) + i \in 1..Len(h)
  BY KeepFacts, SMTT(30)
<1>2. Len(k) \in Nat /\ Len(k) <= Len(h)
  BY <1>1
<1>. DEFINE r == Reverse(k)  q == Reverse(h)
<1>3. /\ r \in Seq(S) /\ Len(r) = Len(k)
      /\ \A i \in 1..Len(k) : r[i] = k[(Len(k) - i) + 1]
  BY <1>1, Backwards
<1>4. /\ q \in Seq(S) /\ Len(q) = Len(h)
      /\ \A i \in 1..Len(h) : q[i] = h[(Len(h) - i) + 1]
  BY Backwards
<1>. HIDE DEF r, q
<1>5. ASSUME NEW i \in 1..Len(k) PROVE r[i] = q[i]
  <2>1. (Len(k) - i) + 1 \in 1..Len(k) /\ i \in 1..Len(h)
    BY <1>1, <1>2
  <2>2. Len(h) - Len(k) + ((Len(k) - i) + 1) = (Len(h) - i) + 1
    <3>1. Len(h) \in Int /\ Len(k) \in Int /\ i \in Int
      BY <1>1, <1>2
    <3>2. \A u, v, w \in Int : u - v + ((v - w) + 1) = (u - w) + 1
      OBVIOUS
    <3>. QED  BY <3>1, <3>2
  <2>3. r[i] = h[Len(h) - Len(k) + ((Len(k) - i) + 1)]
    BY <1>1, <1>3, <2>1
  <2>. QED  BY <1>4, <2>1, <2>2, <2>3
<1>6. SubSeq(r, 1, Len(r)) = r
  BY <1>3, SubSeqFull
<1>. DEFINE t == SubSeq(q, 1, Len(r))
<1>7. t \in Seq(S) /\ Len(t) = Len(r) /\ \A i \in 1..Len(r) : t[i] = q[i]
  <2>1. \A i \in 1..Len(r) : q[i] \in S
    BY <1>2, <1>3, <1>4, ElementOfSeq
  <2>2. /\ t \in Seq(S)
        /\ Len(t) = IF 1 <= Len(r) THEN Len(r) - 1 + 1 ELSE 0
        /\ \A i \in 1..(Len(r) - 1 + 1) : t[i] = q[1 + i - 1]
    BY <1>2, <1>3, <2>1, SubSeqProperties
  <2>. HIDE DEF t
  <2>3. Len(r) - 1 + 1 = Len(r) /\ Len(t) = Len(r)
    BY <1>2, <1>3, <2>2
  <2>4. \A i \in 1..Len(r) : 1 + i - 1 = i
    BY <1>2, <1>3
  <2>. QED  BY <2>2, <2>3, <2>4
<1>. HIDE DEF t
<1>8. r = t
  BY <1>3, <1>5, <1>7, SeqEqual
<1>9. IsPrefix(r, q)
  BY <1>2, <1>3, <1>4, <1>6, <1>8 DEF IsPrefix, t
<1>. QED  BY <1>9 DEF IsSuffix, r, q

\* In the newest entries the results still have their calls.
LEMMA KeepPairs ==
  ASSUME NEW r \in Request, Pairs(r), NEW s \in Request, s.results = r.results,
         s.history = KeepMostRecentHistory(r.history, Len(s.history))
  PROVE  Pairs(s)
<1>. DEFINE h == r.history  k == s.history
<1>1. h \in Seq(Entry) /\ k \in Seq(Entry)
  BY DEF Request
<1>. HIDE DEF h, k
<1>2. Len(k) \in Nat
  BY <1>1
<1>3. /\ Len(h) \in Nat /\ Len(k) <= Len(h)
      /\ \A i \in 1..Len(k) : /\ k[i] = h[Len(h) - Len(k) + i]
                              /\ Len(h) - Len(k) + i \in 1..Len(h)
  <2>1. k = KeepMostRecentHistory(h, Len(k))
    BY DEF h, k
  <2>2. /\ Len(h) \in Nat /\ Len(k) = IF Len(h) <= Len(k) THEN Len(h) ELSE Len(k)
        /\ \A i \in 1..Len(k) : /\ k[i] = h[Len(h) - Len(k) + i]
                                /\ Len(h) - Len(k) + i \in 1..Len(h)
    BY <1>1, <1>2, <2>1, KeepFacts
  <2>. QED  BY <1>2, <2>2
<1>4. ASSUME NEW i \in 2..Len(k) PROVE k[i].results \subseteq k[i - 1].uses
  <2>1. /\ i \in 1..Len(k) /\ i - 1 \in 1..Len(k)
        /\ Len(h) - Len(k) + i \in 2..Len(h)
        /\ Len(h) - Len(k) + (i - 1) = (Len(h) - Len(k) + i) - 1
    BY <1>2, <1>3
  <2>2. h[Len(h) - Len(k) + i].results \subseteq h[(Len(h) - Len(k) + i) - 1].uses
    BY <2>1 DEF Pairs, h
  <2>. QED  BY <1>3, <2>1, <2>2
<1>5. ASSUME k # <<>> PROVE s.results \subseteq Last(k).uses
  <2>1. Len(k) \in 1..Len(k) /\ Len(h) - Len(k) + Len(k) = Len(h)
    BY <1>1, <1>2, <1>3, <1>5, EmptySeq
  <2>2. k[Len(k)] = h[Len(h)]
    BY <1>3, <2>1
  <2>3. h # <<>>
    BY <1>1, <1>3, <2>1, EmptySeq
  <2>4. r.results \subseteq Last(h).uses
    BY <2>3 DEF Pairs, h
  <2>. QED  BY <2>2, <2>4 DEF Last
<1>. QED  BY <1>4, <1>5 DEF Pairs, k

-----------------------------------------------------------------------------
(* The invariant.                                                          *)

\* Until the translation nothing is built, and the client's last message is known.
Chaining ==
  stage = "chain" =>
    /\ anthropicReq \in AnthropicRequests
    /\ newest = Answering(Last(anthropicReq.messages))
    /\ original = Nothing

\* The entries h are the newest of the history that was built.
Newest(h) == h = KeepMostRecentHistory(original.history, Len(h))

\* What no cut changes: the current message, and that the newest entries are left.
Carried ==
  /\ linked => Pairs(original)
  /\ stage # "panic"
  /\ stage # "chain" => original.results = newest
  /\ cwReq.results = original.results /\ body.results = original.results
  /\ Newest(cwReq.history) /\ Newest(body.history)

\* How far EnsurePayloadFits has come, and what has not fitted so far.
Cutting ==
  /\ stage = "history" =>
       /\ cwReq = WithNewest(Len(cwReq.history))
       /\ cwReq.history # original.history => ~Fits(WithNewest(Len(cwReq.history) + 1))
  /\ stage \in {"descriptions", "schemas"} =>
       /\ cwReq.history = <<>> /\ ~Fits(WithNewest(0))
       /\ original.history # <<>> => ~Fits(WithNewest(1))
  /\ stage = "send" => body = cwReq

PayloadInv == PayloadTypeOK /\ Chaining /\ Carried /\ Cutting /\ FitsOrBare /\ NothingNeedless

-----------------------------------------------------------------------------
(* The invariant holds.                                                    *)

\* Requests before they are built are requests.
LEMMA NothingFacts ==
  Nothing \in Request /\ Nothing.results = {} /\ Nothing.history = <<>> /\ Nothing.tools = <<>>
<1>1. <<>> \in Seq(Entry) /\ <<>> \in Seq(Tool)
  OBVIOUS
<1>. QED  BY <1>1 DEF Nothing, Request

\* A history is made of its newest entries, however many they are.
LEMMA AllNewest ==
  ASSUME NEW r \in Request
  PROVE  /\ r.history \in Seq(Entry) /\ Len(r.history) \in Nat
         /\ r.history = KeepMostRecentHistory(r.history, Len(r.history))
         /\ KeepMostRecentHistory(r.history, 0) = <<>>
<1>1. r.history \in Seq(Entry)
  BY DEF Request
<1>. DEFINE h == r.history
<1>2. h = KeepMostRecentHistory(h, Len(h)) /\ KeepMostRecentHistory(h, 0) = <<>> /\ Len(h) \in Nat
  <2>. HIDE DEF h
  <2>1. h \in Seq(Entry)
    BY <1>1 DEF h
  <2>. QED  BY <2>1, KeepEnds
<1>. QED  BY <1>1, <1>2

\* At first a client asks, and nothing is built.
LEMMA PayloadInitInv == PayloadInit => PayloadInv
<1>. SUFFICES ASSUME PayloadInit PROVE PayloadInv
  OBVIOUS
<1>1. /\ anthropicReq \in AnthropicRequests /\ stage = "chain" /\ attempt = 0
      /\ newest = Answering(Last(anthropicReq.messages))
      /\ original = Nothing /\ cwReq = Nothing /\ body = Nothing
  BY DEF PayloadInit
<1>2. newest \subseteq Ids
  <2>1. anthropicReq.messages \in Seq(Message) \ {<<>>}
    BY <1>1, PayloadAssumption DEF AnthropicRequest
  <2>2. Len(anthropicReq.messages) \in 1..Len(anthropicReq.messages)
    BY <2>1, EmptySeq
  <2>3. Last(anthropicReq.messages) \in Message
    BY <2>1, <2>2, ElementOfSeq DEF Last
  <2>4. Last(anthropicReq.messages).content \in Seq(Block)
    BY <2>3 DEF Message
  <2>. QED  BY <1>1, <2>4, BlockIds DEF Answering
<1>3. PayloadTypeOK
  <2>1. linked \in BOOLEAN
    BY DEF PayloadInit
  <2>. QED  BY <1>1, <1>2, <2>1, NothingFacts DEF PayloadTypeOK, maxRetries
<1>4. Chaining
  BY <1>1 DEF Chaining
<1>5. Carried
  <2>1. Pairs(Nothing)
    BY NothingFacts DEF Pairs
  <2>2. Nothing.history = KeepMostRecentHistory(Nothing.history, Len(Nothing.history))
    BY NothingFacts, AllNewest
  <2>. QED  BY <1>1, <2>1, <2>2 DEF Carried, Newest
<1>6. Cutting /\ FitsOrBare /\ NothingNeedless
  BY <1>1 DEF Cutting, FitsOrBare, NothingNeedless
<1>. QED  BY <1>3, <1>4, <1>5, <1>6 DEF PayloadInv

\* The request is built of what the middleware has left of the messages.
LEMMA TranslateInv ==
  ASSUME PayloadInv, stage = "chain", NEW b \in AnthropicRequest, Translate(b),
         newest' = Answering(Last(b.messages))
  PROVE  PayloadInv'
<1>. DEFINE r == BuildCodeWhispererRequest(b)
<1>1. r \in Request /\ (Linked(b.messages) => Pairs(r)) /\ r.results = newest'
  BY Built
<1>2. /\ anthropicReq' = Nobody /\ attempt' = attempt /\ linked' = Linked(b.messages)
      /\ original' = r /\ cwReq' = r /\ body' = r /\ stage' = "history"
  <2>1. b.messages # <<>>
    BY DEF AnthropicRequest
  <2>. QED  BY <2>1 DEF Translate
<1>. HIDE DEF r
<1>3. r.history = KeepMostRecentHistory(r.history, Len(r.history))
  BY <1>1, AllNewest
<1>4. linked' \in BOOLEAN
  BY <1>2 DEF Linked
<1>5. PayloadTypeOK'
  <2>1. newest' \subseteq Ids
    BY <1>1 DEF Request
  <2>. QED  BY <1>1, <1>2, <1>4, <2>1 DEF PayloadInv, PayloadTypeOK
<1>6. Chaining' /\ FitsOrBare' /\ NothingNeedless'
  BY <1>2 DEF Chaining, FitsOrBare, NothingNeedless
<1>7. Carried'
  BY <1>1, <1>2, <1>3 DEF Carried, Newest
<1>8. Cutting'
  <2>1. WithNewest(Len(cwReq.history))' = r
    BY <1>1, <1>2, <1>3 DEF WithNewest, Request
  <2>. QED  BY <1>2, <2>1 DEF Cutting
<1>. QED  BY <1>5, <1>6, <1>7, <1>8 DEF PayloadInv

\* Without the middleware, the client's messages are left.
LEMMA PassThroughInv ==
  ASSUME PayloadInv, PassThrough
  PROVE  PayloadInv'
<1>1. /\ stage = "chain" /\ anthropicReq \in AnthropicRequest
      /\ newest = Answering(Last(anthropicReq.messages))
  BY PayloadAssumption DEF PayloadInv, Chaining, PassThrough
<1>2. Translate(anthropicReq) /\ newest' = newest
  BY DEF PassThrough
<1>. QED  BY <1>1, <1>2, TranslateInv

\* With it, those of headroom's list, or the client's if it has none.
LEMMA CompressInv ==
  ASSUME PayloadInv, Compress
  PROVE  PayloadInv'
<1>1. /\ stage = "chain" /\ anthropicReq \in AnthropicRequest
      /\ newest = Answering(Last(anthropicReq.messages))
  BY PayloadAssumption DEF PayloadInv, Chaining, Compress
<1>2. PICK compressed \in Compressions(anthropicToHeadroomMessages(anthropicReq)) :
        /\ Translate(applyCompressedMessages(anthropicReq, compressed))
        /\ newest' = IF Spoken(compressed) = <<>> THEN newest
                     ELSE Answering(Last(Spoken(compressed)))
  BY DEF Compress
<1>. DEFINE b == applyCompressedMessages(anthropicReq, compressed)
<1>3. /\ b \in AnthropicRequest
      /\ b.messages = IF Spoken(compressed) = <<>> THEN anthropicReq.messages
                      ELSE Spoken(compressed)
  BY <1>1, Applied
<1>4. Translate(b)
  BY <1>2
<1>. HIDE DEF b
<1>5. newest' = Answering(Last(b.messages))
  BY <1>1, <1>2, <1>3
<1>. QED  BY <1>1, <1>3, <1>4, <1>5, TranslateInv

\* What fits is sent.
LEMMA ReadyInv ==
  ASSUME PayloadInv, Ready
  PROVE  PayloadInv'
<1>1. /\ stage \in {"history", "descriptions", "schemas"} /\ Fits(cwReq)
      /\ body' = cwReq /\ stage' = "send"
      /\ UNCHANGED <<anthropicReq, newest, linked, original, cwReq, attempt>>
  BY DEF Ready
<1>2. PayloadTypeOK'
  BY <1>1 DEF PayloadInv, PayloadTypeOK
<1>3. Chaining'
  BY <1>1 DEF Chaining
<1>4. Carried'
  BY <1>1 DEF PayloadInv, Carried, Newest
<1>5. Cutting'
  BY <1>1 DEF Cutting
<1>6. FitsOrBare'
  BY <1>1 DEF FitsOrBare
<1>7. NothingNeedless'
  <2>1. cwReq.history # original.history => ~Fits(WithNewest(Len(cwReq.history) + 1))
    <3>1. CASE stage = "history"
      BY <3>1 DEF PayloadInv, Cutting
    <3>2. CASE stage \in {"descriptions", "schemas"}
      <4>1. cwReq.history = <<>> /\ (original.history # <<>> => ~Fits(WithNewest(1)))
        BY <3>2 DEF PayloadInv, Cutting
      <4>2. Len(cwReq.history) + 1 = 1
        BY <4>1
      <4>. QED  BY <4>1, <4>2
    <3>. QED  BY <1>1, <3>1, <3>2
  <2>2. cwReq.tools # original.tools => ~Fits(WithNewest(0))
    <3>1. CASE stage = "history"
      <4>1. cwReq = WithNewest(Len(cwReq.history)) /\ original \in Request
        BY <3>1 DEF PayloadInv, Cutting, PayloadTypeOK
      <4>2. cwReq.tools = original.tools
        BY <4>1 DEF WithNewest, Request
      <4>. QED  BY <4>2
    <3>2. CASE stage \in {"descriptions", "schemas"}
      BY <3>2 DEF PayloadInv, Cutting
    <3>. QED  BY <1>1, <3>1, <3>2
  <2>. QED  BY <1>1, <2>1, <2>2 DEF NothingNeedless, WithNewest
<1>. QED  BY <1>2, <1>3, <1>4, <1>5, <1>6, <1>7 DEF PayloadInv

\* The oldest entry goes, as one more than the rest did not fit.
LEMMA TrimHistoryInv ==
  ASSUME PayloadInv, TrimHistory
  PROVE  PayloadInv'
<1>. DEFINE h == cwReq.history  t == TrimOldestHistoryMessage(h)  o == original.history
<1>1. /\ stage = "history" /\ ~Fits(cwReq) /\ h # <<>>
      /\ cwReq' = [cwReq EXCEPT !.history = t] /\ stage' = "history"
      /\ UNCHANGED <<anthropicReq, newest, linked, original, body, attempt>>
  BY DEF TrimHistory, Cut
<1>2. /\ original \in Request /\ cwReq \in Request /\ cwReq = WithNewest(Len(h))
      /\ h = KeepMostRecentHistory(o, Len(h))
  BY <1>1 DEF PayloadInv, PayloadTypeOK, Carried, Newest, Cutting
<1>3. o \in Seq(Entry) /\ h \in Seq(Entry)
  BY <1>2, AllNewest
<1>4. t \in Seq(Entry) /\ Len(t) = Len(h) - 1 /\ t = KeepMostRecentHistory(o, Len(h) - 1)
  <2>. HIDE DEF h, o
  <2>. QED  BY <1>1, <1>2, <1>3, KeepTail
<1>. HIDE DEF t
<1>5. /\ cwReq' \in Request /\ cwReq'.history = t /\ cwReq'.results = cwReq.results
      /\ cwReq'.tools = cwReq.tools /\ cwReq'.rest = cwReq.rest
  BY <1>1, <1>2, <1>4 DEF Request
<1>6. PayloadTypeOK'
  BY <1>1, <1>5 DEF PayloadInv, PayloadTypeOK
<1>7. Chaining' /\ FitsOrBare' /\ NothingNeedless'
  BY <1>1 DEF Chaining, FitsOrBare, NothingNeedless
<1>8. Carried'
  BY <1>1, <1>4, <1>5 DEF PayloadInv, Carried, Newest
<1>9. Cutting'
  <2>1. cwReq' = WithNewest(Len(t))
    BY <1>1, <1>2, <1>4 DEF WithNewest, Request
  <2>2. ~Fits(WithNewest(Len(t) + 1))
    <3>1. Len(t) + 1 = Len(h)
      BY <1>3, <1>4
    <3>. QED  BY <1>1, <1>2, <3>1
  <2>. QED  BY <1>1, <1>5, <2>1, <2>2 DEF Cutting, WithNewest
<1>. QED  BY <1>6, <1>7, <1>8, <1>9 DEF PayloadInv

\* Descriptions are cut when no history is left.
LEMMA TrimDescriptionsInv ==
  ASSUME PayloadInv, TrimDescriptions
  PROVE  PayloadInv'
<1>. DEFINE t == TruncateDescriptions(cwReq.tools, 100)
<1>1. /\ stage = "history" /\ ~Fits(cwReq) /\ cwReq.history = <<>>
      /\ cwReq' = [cwReq EXCEPT !.tools = t] /\ stage' = "descriptions"
      /\ UNCHANGED <<anthropicReq, newest, linked, original, body, attempt>>
  BY DEF TrimDescriptions, Cut
<1>2. /\ cwReq \in Request /\ cwReq = WithNewest(Len(cwReq.history))
      /\ cwReq.history # original.history => ~Fits(WithNewest(Len(cwReq.history) + 1))
  BY <1>1 DEF PayloadInv, PayloadTypeOK, Cutting
<1>3. t \in Seq(Tool)
  <2>1. cwReq.tools \in Seq(Tool)
    BY <1>2 DEF Request
  <2>. QED  BY <2>1, DescriptionsTruncated
<1>. HIDE DEF t
<1>4. /\ cwReq' \in Request /\ cwReq'.history = <<>> /\ cwReq'.results = cwReq.results
  BY <1>1, <1>2, <1>3 DEF Request
<1>5. PayloadTypeOK'
  BY <1>1, <1>4 DEF PayloadInv, PayloadTypeOK
<1>6. Chaining' /\ FitsOrBare' /\ NothingNeedless'
  BY <1>1 DEF Chaining, FitsOrBare, NothingNeedless
<1>7. Carried'
  BY <1>1, <1>4 DEF PayloadInv, Carried, Newest
<1>8. Cutting'
  <2>1. Len(cwReq.history) = 0 /\ Len(cwReq.history) + 1 = 1
    BY <1>1
  <2>2. ~Fits(WithNewest(0)) /\ (original.history # <<>> => ~Fits(WithNewest(1)))
    BY <1>1, <1>2, <2>1
  <2>. QED  BY <1>1, <1>4, <2>2 DEF Cutting, WithNewest
<1>. QED  BY <1>5, <1>6, <1>7, <1>8 DEF PayloadInv

\* Then the schemas.
LEMMA TrimSchemasInv ==
  ASSUME PayloadInv, TrimSchemas
  PROVE  PayloadInv'
<1>. DEFINE t == StripSchemas(cwReq.tools)
<1>1. /\ stage = "descriptions"
      /\ cwReq' = [cwReq EXCEPT !.tools = t] /\ stage' = "schemas"
      /\ UNCHANGED <<anthropicReq, newest, linked, original, body, attempt>>
  BY DEF TrimSchemas, Cut
<1>2. cwReq \in Request
  BY DEF PayloadInv, PayloadTypeOK
<1>3. t \in Seq(Tool)
  <2>1. cwReq.tools \in Seq(Tool)
    BY <1>2 DEF Request
  <2>. QED  BY <2>1, SchemasStripped
<1>. HIDE DEF t
<1>4. /\ cwReq' \in Request /\ cwReq'.history = cwReq.history /\ cwReq'.results = cwReq.results
  BY <1>1, <1>2, <1>3 DEF Request
<1>5. PayloadTypeOK'
  BY <1>1, <1>4 DEF PayloadInv, PayloadTypeOK
<1>6. Chaining' /\ FitsOrBare' /\ NothingNeedless'
  BY <1>1 DEF Chaining, FitsOrBare, NothingNeedless
<1>7. Carried'
  BY <1>1, <1>4 DEF PayloadInv, Carried, Newest
<1>8. Cutting'
  <2>1. /\ cwReq.history = <<>> /\ ~Fits(WithNewest(0))
        /\ original.history # <<>> => ~Fits(WithNewest(1))
    BY <1>1 DEF PayloadInv, Cutting
  <2>. QED  BY <1>1, <1>4, <2>1 DEF Cutting, WithNewest
<1>. QED  BY <1>5, <1>6, <1>7, <1>8 DEF PayloadInv

\* Then the tools; nothing but the rest is left.
LEMMA DropToolsInv ==
  ASSUME PayloadInv, DropTools
  PROVE  PayloadInv'
<1>1. /\ stage = "schemas"
      /\ cwReq' = [cwReq EXCEPT !.tools = <<>>] /\ body' = cwReq' /\ stage' = "send"
      /\ UNCHANGED <<anthropicReq, newest, linked, original, attempt>>
  BY DEF DropTools
<1>2. cwReq \in Request
  BY DEF PayloadInv, PayloadTypeOK
<1>3. /\ cwReq.history = <<>> /\ ~Fits(WithNewest(0))
      /\ original.history # <<>> => ~Fits(WithNewest(1))
  BY <1>1 DEF PayloadInv, Cutting
<1>4. /\ cwReq' \in Request /\ cwReq'.history = <<>> /\ cwReq'.tools = <<>>
      /\ cwReq'.results = cwReq.results
  <2>1. <<>> \in Seq(Tool)
    OBVIOUS
  <2>. QED  BY <1>1, <1>2, <1>3, <2>1 DEF Request
<1>5. PayloadTypeOK'
  BY <1>1, <1>4 DEF PayloadInv, PayloadTypeOK
<1>6. Chaining' /\ Cutting' /\ FitsOrBare'
  BY <1>1, <1>4 DEF Chaining, Cutting, FitsOrBare
<1>7. Carried'
  BY <1>1, <1>3, <1>4 DEF PayloadInv, Carried, Newest
<1>8. NothingNeedless'
  <2>1. Len(<<>>) + 1 = 1
    OBVIOUS
  <2>. QED  BY <1>1, <1>3, <1>4, <2>1 DEF NothingNeedless, WithNewest
<1>. QED  BY <1>5, <1>6, <1>7, <1>8 DEF PayloadInv

\* What the cut after a 400 leaves, beside a request it was made from.
LEMMA ImproperFacts ==
  ASSUME PayloadInv, Improper
  PROVE  /\ body = cwReq /\ body' = cwReq' /\ cwReq' \in Request
         /\ cwReq'.history = KeepMostRecentHistory(cwReq.history, 2)
         /\ cwReq'.results = cwReq.results
         /\ Len(cwReq'.tools) = Len(cwReq.tools)
         /\ \A i \in 1..Len(cwReq.tools) : cwReq'.tools[i].desc <= cwReq.tools[i].desc
<1>. DEFINE h == KeepMostRecentHistory(cwReq.history, 2)
            d == TruncateDescriptions(cwReq.tools, 80)
            t == StripSchemas(d)
<1>1. /\ stage = "send" /\ body' = cwReq'
      /\ cwReq' = [cwReq EXCEPT !.history = h, !.tools = t]
  BY DEF Improper, MayRetry
<1>2. cwReq \in Request /\ body = cwReq
  BY <1>1 DEF PayloadInv, PayloadTypeOK, Cutting
<1>3. cwReq.history \in Seq(Entry) /\ cwReq.tools \in Seq(Tool)
  BY <1>2 DEF Request
<1>4. h \in Seq(Entry)
  BY <1>3, KeepFacts
<1>5. /\ d \in Seq(Tool) /\ Len(d) = Len(cwReq.tools)
      /\ \A i \in 1..Len(cwReq.tools) : d[i].desc <= cwReq.tools[i].desc
  BY <1>3, DescriptionsTruncated
<1>. HIDE DEF d
<1>6. /\ t \in Seq(Tool) /\ Len(t) = Len(d)
      /\ \A i \in 1..Len(d) : t[i].desc = d[i].desc
  BY <1>5, SchemasStripped
<1>. HIDE DEF h, t
<1>7. /\ cwReq' \in Request /\ cwReq'.history = h /\ cwReq'.tools = t
      /\ cwReq'.results = cwReq.results
  BY <1>1, <1>2, <1>4, <1>6 DEF Request
<1>. QED  BY <1>1, <1>2, <1>5, <1>6, <1>7 DEF h

\* Cut once more, and sent again.
LEMMA ImproperInv ==
  ASSUME PayloadInv, Improper
  PROVE  PayloadInv'
<1>1. /\ stage = "send" /\ stage' = stage /\ attempt < 2 /\ attempt' = attempt + 1
      /\ UNCHANGED <<anthropicReq, newest, linked, original>>
  BY DEF Improper, MayRetry, maxRetries
<1>2. /\ body = cwReq /\ body' = cwReq' /\ cwReq' \in Request
      /\ cwReq'.history = KeepMostRecentHistory(cwReq.history, 2)
      /\ cwReq'.results = cwReq.results
  BY ImproperFacts
<1>3. attempt \in 0..2 /\ original \in Request /\ cwReq \in Request
  BY DEF PayloadInv, PayloadTypeOK, maxRetries
<1>4. attempt' \in 0..2 /\ attempt' # 0
  BY <1>1, <1>3
<1>5. PayloadTypeOK'
  BY <1>1, <1>2, <1>4 DEF PayloadInv, PayloadTypeOK, maxRetries
<1>6. Chaining' /\ Cutting' /\ FitsOrBare' /\ NothingNeedless'
  BY <1>1, <1>2, <1>4 DEF Chaining, Cutting, FitsOrBare, NothingNeedless
<1>7. Carried'
  <2>. DEFINE o == original.history  h == cwReq.history  k == KeepMostRecentHistory(h, 2)
  <2>1. o \in Seq(Entry) /\ h \in Seq(Entry) /\ Len(h) \in Nat
    BY <1>3, AllNewest
  <2>2. h = KeepMostRecentHistory(o, Len(h))
    BY DEF PayloadInv, Carried, Newest
  <2>. HIDE DEF o, h
  <2>3. k = KeepMostRecentHistory(o, Len(k))
    <3>1. k = KeepMostRecentHistory(KeepMostRecentHistory(o, Len(h)), 2)
      BY <2>2
    <3>. HIDE DEF k
    <3>. QED  BY <2>1, <3>1, KeepKeep
  <2>4. Newest(cwReq.history)' /\ Newest(body.history)'
    BY <1>1, <1>2, <2>3 DEF Newest, o, h
  <2>. QED  BY <1>1, <1>2, <2>4 DEF PayloadInv, Carried
<1>. QED  BY <1>5, <1>6, <1>7 DEF PayloadInv

\* A new token, or the end: the payload stays.
LEMMA EndInv ==
  ASSUME PayloadInv, Forbidden \/ Answered
  PROVE  PayloadInv'
<1>1. CASE Forbidden
  <2>1. /\ stage = "send" /\ attempt < 2 /\ attempt' = attempt + 1
        /\ UNCHANGED <<anthropicReq, newest, linked, original, cwReq, body, stage>>
    BY <1>1 DEF Forbidden, MayRetry, maxRetries
  <2>2. attempt \in 0..2
    BY DEF PayloadInv, PayloadTypeOK, maxRetries
  <2>3. attempt' \in 0..2 /\ attempt' # 0
    BY <2>1, <2>2
  <2>4. PayloadTypeOK'
    BY <2>1, <2>3 DEF PayloadInv, PayloadTypeOK, maxRetries
  <2>5. Chaining' /\ FitsOrBare' /\ NothingNeedless'
    BY <2>1, <2>3 DEF Chaining, FitsOrBare, NothingNeedless
  <2>6. Carried' /\ Cutting'
    BY <2>1 DEF PayloadInv, Carried, Newest, Cutting
  <2>. QED  BY <2>4, <2>5, <2>6 DEF PayloadInv
<1>2. CASE Answered
  <2>1. /\ stage = "send" /\ stage' = "done"
        /\ UNCHANGED <<anthropicReq, newest, linked, original, cwReq, body, attempt>>
    BY <1>2 DEF Answered
  <2>2. PayloadTypeOK'
    BY <2>1 DEF PayloadInv, PayloadTypeOK
  <2>3. Chaining' /\ Cutting' /\ FitsOrBare' /\ NothingNeedless'
    BY <2>1 DEF Chaining, Cutting, FitsOrBare, NothingNeedless
  <2>4. Carried'
    BY <2>1 DEF PayloadInv, Carried, Newest
  <2>. QED  BY <2>2, <2>3, <2>4 DEF PayloadInv
<1>. QED  BY <1>1, <1>2

\* Every step keeps it.
LEMMA PayloadNextInv == PayloadInv /\ [PayloadNext]_payloadVars => PayloadInv'
<1>. SUFFICES ASSUME PayloadInv, [PayloadNext]_payloadVars PROVE PayloadInv'
  OBVIOUS
<1>1. CASE PassThrough
  BY <1>1, PassThroughInv
<1>2. CASE Compress
  BY <1>2, CompressInv
<1>3. CASE Ready
  BY <1>3, ReadyInv
<1>4. CASE TrimHistory
  BY <1>4, TrimHistoryInv
<1>5. CASE TrimDescriptions
  BY <1>5, TrimDescriptionsInv
<1>6. CASE TrimSchemas
  BY <1>6, TrimSchemasInv
<1>7. CASE DropTools
  BY <1>7, DropToolsInv
<1>8. CASE Improper
  BY <1>8, ImproperInv
<1>9. CASE Forbidden \/ Answered
  BY <1>9, EndInv
<1>10. CASE UNCHANGED payloadVars
  BY <1>10 DEF payloadVars, PayloadInv, PayloadTypeOK, Chaining, Carried, Newest, Cutting,
               FitsOrBare, NothingNeedless, WithNewest
<1>. QED
  BY <1>1, <1>2, <1>3, <1>4, <1>5, <1>6, <1>7, <1>8, <1>9, <1>10 DEF PayloadNext

\* The invariant of the translation and the cuts.
THEOREM PayloadInductive == PayloadSpec => []PayloadInv
<1>. QED  BY PayloadInitInv, PayloadNextInv, PTL DEF PayloadSpec

\* Each variable of the payload's course has its type: in particular the history that is
\* left of any conversation is one of entries, and the tools are tools.
THEOREM PayloadTypeCorrect == PayloadSpec => []PayloadTypeOK
<1>1. PayloadInv => PayloadTypeOK
  BY DEF PayloadInv
<1>. QED  BY <1>1, PayloadInductive, PTL

\* The current message always exists, whatever list headroom answers: it is the last one of
\* that list, or the client's last one if there is no message in it or it is not used, and it
\* keeps its results through every cut (BuildCodeWhispererRequest, EnsurePayloadFits).
THEOREM CurrentAlways == PayloadSpec => []CurrentIsNewest
<1>1. PayloadInv => CurrentIsNewest
  BY DEF PayloadInv, Carried, CurrentIsNewest
<1>. QED  BY <1>1, PayloadInductive, PTL

\* What is sent of the history is an end of what was built, without gaps.
THEOREM NewestKeptAlways == PayloadSpec => []NewestKept
<1>1. PayloadInv => NewestKept
  <2>. SUFFICES ASSUME PayloadInv PROVE NewestKept
    OBVIOUS
  <2>1. original \in Request /\ body \in Request
    BY DEF PayloadInv, PayloadTypeOK
  <2>. DEFINE o == original.history  h == body.history
  <2>2. o \in Seq(Entry) /\ Len(h) \in Nat
    BY <2>1, AllNewest
  <2>3. h = KeepMostRecentHistory(o, Len(h))
    BY DEF PayloadInv, Carried, Newest
  <2>4. IsSuffix(h, o)
    <3>. HIDE DEF o, h
    <3>. QED  BY <2>2, <2>3, KeepIsSuffix
  <2>. QED  BY <2>4 DEF NewestKept
<1>. QED  BY <1>1, PayloadInductive, PTL

\* Unless headroom's list has parted them, no result is sent without its call but where the
\* history was cut between the two.
THEOREM PairedAlways == PayloadSpec => []Paired
<1>1. PayloadInv => Paired
  <2>. SUFFICES ASSUME PayloadInv, linked PROVE Paired
    BY DEF Paired
  <2>1. original \in Request /\ body \in Request
    BY DEF PayloadInv, PayloadTypeOK
  <2>2. /\ Pairs(original) /\ body.results = original.results
        /\ body.history = KeepMostRecentHistory(original.history, Len(body.history))
    BY DEF PayloadInv, Carried, Newest
  <2>3. Pairs(body)
    BY <2>1, <2>2, KeepPairs
  <2>. QED  BY <2>3 DEF Pairs, Paired
<1>. QED  BY <1>1, PayloadInductive, PTL

\* The payload sent first fits the limit, or has neither history nor tools.
THEOREM FitsOrBareAlways == PayloadSpec => []FitsOrBare
<1>1. PayloadInv => FitsOrBare
  BY DEF PayloadInv
<1>. QED  BY <1>1, PayloadInductive, PTL

\* EnsurePayloadFits gives up nothing that would have fitted.
THEOREM NothingNeedlessAlways == PayloadSpec => []NothingNeedless
<1>1. PayloadInv => NothingNeedless
  BY DEF PayloadInv
<1>. QED  BY <1>1, PayloadInductive, PTL

\* A payload is never sent again with more in it.
THEOREM RetryAlways == PayloadSpec => RetryHasNoMore
<1>1. ASSUME PayloadInv, [PayloadNext]_payloadVars
      PROVE  [stage = "send" =>
                /\ IsSuffix(body'.history, body.history)
                /\ Len(body'.tools) = Len(body.tools)
                /\ \A i \in DOMAIN body.tools :
                     body'.tools[i].desc <= body.tools[i].desc]_payloadVars
  <2>. SUFFICES ASSUME stage = "send"
               PROVE  /\ IsSuffix(body'.history, body.history)
                      /\ Len(body'.tools) = Len(body.tools)
                      /\ \A i \in DOMAIN body.tools :
                           body'.tools[i].desc <= body.tools[i].desc
    OBVIOUS
  <2>1. body \in Request /\ body = cwReq
    BY <1>1 DEF PayloadInv, PayloadTypeOK, Cutting
  <2>. DEFINE h == body.history  tools == body.tools
  <2>2. /\ h \in Seq(Entry) /\ h = KeepMostRecentHistory(h, Len(h)) /\ Len(h) \in Nat
        /\ tools \in Seq(Tool)
    BY <2>1, AllNewest DEF Request
  <2>. HIDE DEF h, tools
  <2>3. DOMAIN tools = 1..Len(tools) /\ \A i \in 1..Len(tools) : tools[i].desc \in Nat
    <3>1. \A i \in 1..Len(tools) : tools[i] \in Tool
      BY <2>2, ElementOfSeq
    <3>. QED  BY <2>2, <3>1 DEF Tool
  <2>4. CASE Improper
    <3>1. /\ body'.history = KeepMostRecentHistory(h, 2)
          /\ Len(body'.tools) = Len(tools)
          /\ \A i \in 1..Len(tools) : body'.tools[i].desc <= tools[i].desc
      BY <1>1, <2>1, <2>4, ImproperFacts DEF h, tools
    <3>2. IsSuffix(body'.history, h)
      BY <2>2, <3>1, KeepIsSuffix
    <3>. QED  BY <2>3, <3>1, <3>2 DEF h, tools
  <2>5. CASE UNCHANGED body
    <3>1. IsSuffix(h, h)
      BY <2>2, KeepIsSuffix
    <3>2. \A i \in DOMAIN tools : tools[i].desc <= tools[i].desc
      BY <2>3
    <3>. QED  BY <2>5, <3>1, <3>2 DEF h, tools
  <2>6. Improper \/ UNCHANGED body
    BY <1>1 DEF PayloadNext, PassThrough, Compress, Ready, TrimHistory, TrimDescriptions,
           TrimSchemas, DropTools, Forbidden, Answered, payloadVars
  <2>. QED  BY <2>4, <2>5, <2>6
<1>. QED  BY <1>1, PayloadInductive, PTL DEF PayloadSpec, RetryHasNoMore

-----------------------------------------------------------------------------
(* The profile.                                                            *)

\* The cache and what is about to be stored in it.
Cached ==
  /\ cache # NoArn => cache \in named
  /\ storing # NoRequest => pc[storing] = "store"
  /\ \A r \in Requests : pc[r] = "store" => arn[r] \in named

\* What a request holds when it is through with the profile.
Decided ==
  \A r \in Requests :
    pc[r] \in {"fallback", "sent"} => arn[r] \in named \cup {NoArn, override} \/ r \in raced

\* A request that began when a profile was cached, which is there still and stays there.
Known ==
  \A r \in known :
    /\ cache # NoArn /\ ~Emptying
    /\ pc[r] \in {"fallback", "sent"} => arn[r] # NoArn
    /\ model[r] = asked[r]

ProfileInv == TypeOK /\ Cached /\ Decided /\ Known

-----------------------------------------------------------------------------

\* Before the first request nothing is cached.
LEMMA InitInv == Init => ProfileInv
<1>. SUFFICES ASSUME Init PROVE ProfileInv
  OBVIOUS
<1>1. TypeOK
  BY DEF Init, TypeOK
<1>2. Cached /\ Decided /\ Known
  BY DEF Init, Cached, Decided, Known
<1>. QED  BY <1>1, <1>2 DEF ProfileInv

\* A request begins: it is known if a profile is cached.
LEMMA BeginInv ==
  ASSUME ProfileInv, NEW r \in Requests, NEW m \in Models, Begin(r, m)
  PROVE  ProfileInv'
<1>. USE DEF Begin, Goto, cached, ProfileInv, TypeOK
<1>1. TypeOK'
  OBVIOUS
<1>2. Cached'
  BY DEF Cached
<1>3. Decided'
  BY DEF Decided
<1>4. Known'
  BY ProfileAssumption DEF Cached, Known, Emptying
<1>. QED  BY <1>1, <1>2, <1>3, <1>4

\* Each step of a request, from its look at the cache to its being sent.
LEMMA StepInv ==
  ASSUME ProfileInv, NEW r \in Requests, Step(r)
  PROVE  ProfileInv'
<1>. USE ProfileAssumption DEF Goto, cached, request, ProfileInv, TypeOK
<1>1. CASE Resolve(r)
  <2>. USE <1>1 DEF Resolve
  <2>1. TypeOK'
    OBVIOUS
  <2>2. Cached'
    BY DEF Cached
  <2>3. Decided'
    BY DEF Cached, Decided
  <2>4. Known'
    BY DEF Cached, Known, Emptying
  <2>. QED  BY <2>1, <2>2, <2>3, <2>4
<1>2. CASE Fetch(r)
  <2>. USE <1>2 DEF Fetch
  <2>1. TypeOK'
    OBVIOUS
  <2>2. Cached'
    BY DEF Cached
  <2>3. Decided'
    BY DEF Cached, Decided
  <2>4. Known'
    BY DEF Cached, Known, Emptying
  <2>. QED  BY <2>1, <2>2, <2>3, <2>4
<1>3. CASE Answer(r)
  <2>. USE <1>3 DEF Answer
  <2>1. TypeOK'
    OBVIOUS
  <2>2. Cached'
    BY DEF Cached
  <2>3. Decided'
    BY DEF Decided
  <2>4. Known'
    BY DEF Cached, Known, Emptying
  <2>. QED  BY <2>1, <2>2, <2>3, <2>4
<1>4. CASE Fail(r)
  <2>1. PICK read \in IF storing = NoRequest THEN {cache} ELSE {cache, arn[storing], Torn} :
          arn' = [arn EXCEPT ![r] = read]
    BY <1>4 DEF Fail
  <2>2. /\ pc' = [pc EXCEPT ![r] = "fallback"] /\ pc[r] = "call"
        /\ raced' = IF storing = NoRequest THEN raced ELSE raced \cup {r}
        /\ UNCHANGED <<cache, fresh, storing, override, account, token, model, asked, known, named>>
    BY <1>4 DEF Fail
  <2>3. read \in Arns \cup {NoArn, Torn}
    OBVIOUS
  <2>4. r \in known => read # NoArn
    BY DEF Known, Emptying
  <2>5. TypeOK'
    BY <2>1, <2>2, <2>3
  <2>6. Cached'
    BY <2>1, <2>2 DEF Cached
  <2>7. Decided'
    BY <2>1, <2>2 DEF Cached, Decided
  <2>8. Known'
    BY <2>1, <2>2, <2>4 DEF Cached, Known, Emptying
  <2>. QED  BY <2>5, <2>6, <2>7, <2>8
<1>5. CASE Store(r)
  <2>. USE <1>5 DEF Store
  <2>1. TypeOK'
    OBVIOUS
  <2>2. Cached'
    BY DEF Cached
  <2>3. Decided'
    BY DEF Decided
  <2>4. Known'
    BY DEF Cached, Known, Emptying
  <2>. QED  BY <2>1, <2>2, <2>3, <2>4
<1>6. CASE Stored(r)
  <2>. USE <1>6 DEF Stored
  <2>1. pc[r] = "store" /\ arn[r] \in named
    BY DEF Cached
  <2>2. TypeOK'
    BY <2>1
  <2>3. Cached'
    BY <2>1 DEF Cached
  <2>4. Decided'
    BY <2>1 DEF Decided
  <2>5. Known'
    BY <2>1 DEF Cached, Known, Emptying
  <2>. QED  BY <2>2, <2>3, <2>4, <2>5
<1>7. CASE Send(r)
  <2>. USE <1>7 DEF Send
  <2>1. TypeOK'
    OBVIOUS
  <2>2. Cached'
    BY DEF Cached
  <2>3. Decided'
    BY DEF Decided
  <2>4. Known'
    BY DEF Cached, Known, Emptying
  <2>. QED  BY <2>1, <2>2, <2>3, <2>4
<1>. QED  BY <1>1, <1>2, <1>3, <1>4, <1>5, <1>6, <1>7 DEF Step

\* Neither the age of the cache nor another account disturbs the invariant.
LEMMA NextInv == ProfileInv /\ [Next]_vars => ProfileInv'
<1>. SUFFICES ASSUME ProfileInv, [Next]_vars PROVE ProfileInv'
  OBVIOUS
<1>1. CASE \E r \in Requests : Step(r)
  BY <1>1, StepInv
<1>2. CASE \E r \in Requests, m \in Models : Begin(r, m)
  BY <1>2, BeginInv
<1>3. CASE Expire
  BY <1>3 DEF Expire, cached, request, ProfileInv, TypeOK, Cached, Decided, Known, Emptying
<1>4. CASE SwitchAccount
  BY <1>4 DEF SwitchAccount, cached, request, ProfileInv, TypeOK, Cached, Decided, Known, Emptying
<1>5. CASE UNCHANGED vars
  BY <1>5 DEF vars, cached, request, ProfileInv, TypeOK, Cached, Decided, Known, Emptying
<1>. QED  BY <1>1, <1>2, <1>3, <1>4, <1>5 DEF Next

\* The inductive invariant holds in every reachable state of FetchProfileArn and its
\* callers.
THEOREM Inductive == Spec => []ProfileInv
<1>. QED  BY InitInv, NextInv, PTL DEF Spec

\* The types of the cache and the requests.
THEOREM TypeCorrect == Spec => []TypeOK
<1>1. ProfileInv => TypeOK
  BY DEF ProfileInv
<1>. QED  BY <1>1, Inductive, PTL

\* Only a request whose own fetch failed while another one stored its profile can be
\* sent with half a string for its profile.
THEOREM WholeAlways == Spec => []Whole
<1>1. ProfileInv => Whole
  BY DEF ProfileInv, Decided, Whole, Sent
<1>. QED  BY <1>1, Inductive, PTL

\* No request that begins when a profile is cached loses it, or its model with it, unless
\* the upstream names an empty one (FetchProfileArn).
THEOREM NeverForgetsAlways == Spec => []NeverForgets
<1>1. ProfileInv => NeverForgets
  BY DEF ProfileInv, TypeOK, Known, NeverForgets, Sent
<1>. QED  BY <1>1, Inductive, PTL
=============================================================================
