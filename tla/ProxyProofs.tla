---------------------------- MODULE ProxyProofs ----------------------------
(***************************************************************************)
(* The handling of POST /v1/messages, for any requests, runs of `openkiro  *)
(* refresh` and tokens.                                                    *)
(*                                                                         *)
(* The argument, for the token file: while no two refreshes overlap and    *)
(* none is cut short, one process at a time is between the database and    *)
(* the file, no token is newer than its own, and the file is empty while   *)
(* it writes and else whole and as new as any token fetched before.  For   *)
(* the reply: what a client has been sent follows from where its request   *)
(* is, and a request that is back at the token file was answered 403 with  *)
(* an attempt left.                                                        *)
(***************************************************************************)
EXTENDS Proxy, SequenceTheorems, TLAPS

\* Kiro's database holds its newest token, nobody has one that was not issued, and who is
\* about to write the file has one.
IssuedOnly ==
  /\ db # NoToken => db = issued
  /\ file.tok <= issued
  /\ \A p \in Processes : fetched[p] <= issued /\ (Refreshing(p) => fetched[p] # NoToken)

\* What a request has taken from the file is a whole token.
Held ==
  \A r \in Requests : pc[r] \in {"body", "send"} => token[r] \in {File(t) : t \in 1..issued}

\* One process at a time is at the file.
Alone == \A p, q \in Processes : Refreshing(p) /\ Refreshing(q) => p = q

\* Its token is the newest that was fetched.
Newest ==
  \A p \in Processes :
    Refreshing(p) => fetched[p] # NoToken /\ \A q \in Processes : fetched[q] <= fetched[p]

\* While it writes the file is empty; else it is whole, and as new as any token that a
\* process fetched and did not die with.
FileWhole ==
  /\ \A p \in Processes : pc[p] = "write" => file = Empty
  /\ (\A p \in Processes : pc[p] # "write") =>
       /\ Whole(file)
       /\ \A q \in Processes : pc[q] \notin {"truncate", "exited"} => file.tok >= fetched[q]

\* So a request is as new as its refresh.
Fresh == \A r \in Requests : pc[r] \in {"body", "send"} => token[r].tok >= fetched[r]

\* What a stream's client has before the end, and at the end.
Started  == {<<"message_start", "ping">>, <<"message_start", "ping", "events">>}
Streamed == {<<"message_start", "ping", "message_stop">>,
             <<"message_start", "ping", "events", "message_stop">>,
             <<"message_start", "ping", "error">>,
             <<"message_start", "ping", "events", "error">>}

\* A request that is back at the database or the file was refused with an attempt left,
\* and nothing is sent before the handler is done or the upstream has answered.
Handling(r) ==
  /\ pc[r] = "new" => kind[r] = "unread"
  /\ pc[r] \in {"readDb", "truncate", "write"} => kind[r] = "stream"
  /\ kind[r] = "stream"
       /\ pc[r] \in {"readDb", "truncate", "write", "getToken", "getTokenAgain"} =>
     attempt[r] < maxRetries - 1 /\ answer[r] = "forbidden"
  /\ pc[r] \in {"answered", "streaming"} => answer[r] = "ok" /\ kind[r] = "stream"

\* What the client of a request has received.
Received(r) ==
  /\ pc[r] \notin {"streaming", "done"} => sent[r] = <<>>
  /\ pc[r] = "streaming" => sent[r] \in Started \/ (conn[r] = "broken" /\ sent[r] = <<>>)
  /\ pc[r] = "done" => \/ sent[r] \in Replies
                       \/ conn[r] = "broken" /\ sent[r] \in Started \cup {<<>>}
  /\ pc[r] = "done" /\ sent[r] \in Started \cup Streamed \cup {<<"message">>} =>
       answer[r] = "ok"
  /\ pc[r] = "done" /\ sent[r] = <<"empty_message">> =>
       answer[r] \in {"improper", "forbidden", "other"}

\* All that a clash may break.
Calm == Alone /\ Newest /\ FileWhole /\ Fresh

ProxyInv ==
  /\ Typed /\ IssuedOnly /\ Held
  /\ clash \/ Calm
  /\ \A r \in Requests : Handling(r) /\ Received(r)

-----------------------------------------------------------------------------
(* Tokens and replies.                                                     *)

\* Kiro's tokens are numbered from one, and none is empty.
LEMMA TokenFacts ==
  /\ Len(TokenLen) \in Nat \ {0}
  /\ Tokens = 1..Len(TokenLen)
  /\ \A t \in Tokens : TokenLen[t] \in Nat \ {0}
  /\ NoToken \notin Tokens
<1>1. TokenLen \in Seq(Nat \ {0}) /\ TokenLen # <<>>
  BY ProxyAssumption
<1>2. DOMAIN TokenLen = 1..Len(TokenLen) /\ Len(TokenLen) \in Nat
  BY <1>1
<1>3. Len(TokenLen) # 0
  BY <1>1, EmptySeq
<1>4. \A t \in 1..Len(TokenLen) : TokenLen[t] \in Nat \ {0}
  BY <1>1
<1>. QED  BY <1>2, <1>3, <1>4 DEF Tokens, NoToken

\* A file that holds a whole token holds what File makes of it.
LEMMA WholeFile ==
  ASSUME NEW c \in Content, Whole(c)
  PROVE  c = File(c.tok) /\ c.tok \in Tokens
BY DEF Content, Whole, File

\* Writing to an empty file makes a whole token.
LEMMA WrittenWhole ==
  ASSUME NEW t \in Tokens
  PROVE  Written(Empty, t) = File(t) /\ Whole(File(t)) /\ File(t).tok = t
BY TokenFacts DEF Written, Empty, File, Whole, NoToken

\* A write leaves a content, of the token that is written.
LEMMA WrittenContent ==
  ASSUME NEW c \in Content, NEW t \in Tokens
  PROVE  Written(c, t) \in Content /\ Written(c, t).tok = t
BY TokenFacts DEF Written, Content

\* Which items a reply is made of.
LEMMA ItemSets ==
  /\ ToSet(<<>>) = {}
  /\ \A a : ToSet(<<a>>) = {a}
  /\ \A a, b : ToSet(<<a, b>>) = {a, b}
  /\ \A a, b, c : ToSet(<<a, b, c>>) = {a, b, c}
  /\ \A a, b, c, d : ToSet(<<a, b, c, d>>) = {a, b, c, d}
BY DEF ToSet

\* How replies grow.
LEMMA Appended ==
  /\ \A a : <<>> \o <<a>> = <<a>>
  /\ \A a, b : <<>> \o <<a, b>> = <<a, b>>
  /\ \A a, b : <<a, b>> \o <<>> = <<a, b>>
  /\ \A a, b, c : <<a, b>> \o <<c>> = <<a, b, c>>
  /\ \A a, b, c, d : <<a, b, c>> \o <<d>> = <<a, b, c, d>>
  /\ \A a, b, c : <<a, b, c>> \o <<>> = <<a, b, c>>
<1>1. \A a : <<>> \o <<a>> = <<a>>
  OBVIOUS
<1>2. \A a, b : <<>> \o <<a, b>> = <<a, b>>
  OBVIOUS
<1>3. \A a, b : <<a, b>> \o <<>> = <<a, b>>
  OBVIOUS
<1>4. ASSUME NEW a, NEW b, NEW c PROVE <<a, b>> \o <<c>> = <<a, b, c>>
  <2>. DEFINE S == {a, b, c}
  <2>1. <<a, b>> \in Seq(S) /\ <<c>> \in Seq(S) /\ <<a, b, c>> \in Seq(S)
    OBVIOUS
  <2>2. Len(<<a, b>>) = 2 /\ Len(<<c>>) = 1 /\ Len(<<a, b, c>>) = 3
    OBVIOUS
  <2>. DEFINE s == <<a, b>> \o <<c>>
  <2>3. /\ s \in Seq(S) /\ Len(s) = 3
        /\ \A i \in 1..3 : s[i] = IF i <= 2 THEN <<a, b>>[i] ELSE <<c>>[i - 2]
    BY <2>1, <2>2, ConcatProperties
  <2>4. \A i \in 1..3 : s[i] = <<a, b, c>>[i]
    BY <2>3
  <2>. QED  BY <2>1, <2>2, <2>3, <2>4, SeqEqual
<1>5. ASSUME NEW a, NEW b, NEW c, NEW d PROVE <<a, b, c>> \o <<d>> = <<a, b, c, d>>
  <2>. DEFINE S == {a, b, c, d}
  <2>1. <<a, b, c>> \in Seq(S) /\ <<d>> \in Seq(S) /\ <<a, b, c, d>> \in Seq(S)
    OBVIOUS
  <2>2. Len(<<a, b, c>>) = 3 /\ Len(<<d>>) = 1 /\ Len(<<a, b, c, d>>) = 4
    OBVIOUS
  <2>. DEFINE s == <<a, b, c>> \o <<d>>
  <2>3. /\ s \in Seq(S) /\ Len(s) = 4
        /\ \A i \in 1..4 : s[i] = IF i <= 3 THEN <<a, b, c>>[i] ELSE <<d>>[i - 3]
    BY <2>1, <2>2, ConcatProperties
  <2>4. \A i \in 1..4 : s[i] = <<a, b, c, d>>[i]
    BY <2>3
  <2>. QED  BY <2>1, <2>2, <2>3, <2>4, SeqEqual
<1>6. \A a, b, c : <<a, b, c>> \o <<>> = <<a, b, c>>
  OBVIOUS
<1>. QED  BY <1>1, <1>2, <1>3, <1>4, <1>5, <1>6

\* Any start of a reply is one, and every reply is one.
LEMMA ReplyStarts ==
  ASSUME NEW reply \in Replies \cup Started \cup {<<>>}
  PROVE  \E full \in Replies : IsPrefix(reply, full)
<1>1. CASE reply \in Replies
  <2>1. Len(reply) \in Nat
    <3>1. \/ \E a : reply = <<a>>
          \/ \E a, b, c : reply = <<a, b, c>>
          \/ \E a, b, c, d : reply = <<a, b, c, d>>
      BY <1>1, Zenon DEF Replies
    <3>. QED  BY <3>1
  <2>2. IsPrefix(reply, reply)
    BY <2>1 DEF IsPrefix
  <2>. QED  BY <1>1, <2>2
<1>2. CASE reply = <<>>
  <2>1. IsPrefix(reply, <<"error">>)
    BY <1>2 DEF IsPrefix
  <2>. QED  BY <2>1 DEF Replies
<1>3. CASE reply = <<"message_start", "ping">>
  <2>1. IsPrefix(reply, <<"message_start", "ping", "message_stop">>)
    BY <1>3 DEF IsPrefix
  <2>. QED  BY <2>1 DEF Replies
<1>4. CASE reply = <<"message_start", "ping", "events">>
  <2>1. IsPrefix(reply, <<"message_start", "ping", "events", "message_stop">>)
    BY <1>4 DEF IsPrefix
  <2>. QED  BY <2>1 DEF Replies
<1>5. \/ reply \in Replies \/ reply = <<>>
      \/ reply = <<"message_start", "ping">> \/ reply = <<"message_start", "ping", "events">>
  BY DEF Started
<1>6. QED
  BY <1>1, <1>2, <1>3, <1>4, <1>5

\* The replies of a stream.
LEMMA StreamReplies ==
  /\ Streamed \subseteq Replies
  /\ \A a : <<a>> \notin Streamed \cup Started \cup {<<>>}
  /\ <<>> \notin Streamed \cup Started
  /\ Streamed \cup Started \cup {<<>>} \subseteq Seq(Items)
  /\ \A s \in Started : s \o <<"message_stop">> \in Streamed /\ s \o <<"error">> \in Streamed
<1>1. Streamed \subseteq Replies
  BY Zenon DEF Streamed, Replies
<1>2. ASSUME NEW x PROVE <<x>> \notin Streamed \cup Started \cup {<<>>}
  <2>1. \A a, b, c : <<x>> # <<a, b, c>>
    OBVIOUS
  <2>2. \A a, b, c, d : <<x>> # <<a, b, c, d>>
    OBVIOUS
  <2>3. \A a, b : <<x>> # <<a, b>>
    OBVIOUS
  <2>4. <<x>> # <<>>
    OBVIOUS
  <2>. QED  BY <2>1, <2>2, <2>3, <2>4, Zenon DEF Streamed, Started
<1>3. <<>> \notin Streamed \cup Started
  <2>1. /\ \A a, b : <<>> # <<a, b>>
        /\ \A a, b, c : <<>> # <<a, b, c>>
        /\ \A a, b, c, d : <<>> # <<a, b, c, d>>
    OBVIOUS
  <2>. QED  BY <2>1, Zenon DEF Streamed, Started
<1>4. ASSUME NEW s \in Streamed \cup Started \cup {<<>>} PROVE s \in Seq(Items)
  <2>1. <<>> \in Seq(Items) /\ <<"message_start", "ping">> \in Seq(Items)
    BY DEF Items
  <2>2. <<"message_start", "ping", "events">> \in Seq(Items)
    BY DEF Items
  <2>3. <<"message_start", "ping", "message_stop">> \in Seq(Items)
    BY DEF Items
  <2>4. <<"message_start", "ping", "events", "message_stop">> \in Seq(Items)
    BY DEF Items
  <2>5. <<"message_start", "ping", "error">> \in Seq(Items)
    BY DEF Items
  <2>6. <<"message_start", "ping", "events", "error">> \in Seq(Items)
    BY DEF Items
  <2>. QED  BY <2>1, <2>2, <2>3, <2>4, <2>5, <2>6, Zenon DEF Streamed, Started
<1>5. ASSUME NEW s \in Started PROVE s \o <<"error">> \in Streamed
  <2>1. <<"message_start", "ping">> \o <<"error">> = <<"message_start", "ping", "error">>
    BY Appended
  <2>2. <<"message_start", "ping", "events">> \o <<"error">>
          = <<"message_start", "ping", "events", "error">>
    BY Appended
  <2>. QED  BY <2>1, <2>2, Zenon DEF Streamed, Started
<1>6. ASSUME NEW s \in Started PROVE s \o <<"message_stop">> \in Streamed
  <2>1. <<"message_start", "ping">> \o <<"message_stop">>
          = <<"message_start", "ping", "message_stop">>
    BY Appended
  <2>2. <<"message_start", "ping", "events">> \o <<"message_stop">>
          = <<"message_start", "ping", "events", "message_stop">>
    BY Appended
  <2>. QED  BY <2>1, <2>2, Zenon DEF Streamed, Started
<1>. QED  BY <1>1, <1>2, <1>3, <1>4, <1>5, <1>6

-----------------------------------------------------------------------------
(* What a step must show.                                                  *)

\* A request that nothing happens to stays right.
LEMMA SameRequest ==
  ASSUME NEW q, pc'[q] = pc[q], kind'[q] = kind[q], attempt'[q] = attempt[q],
         answer'[q] = answer[q], conn'[q] = conn[q], sent'[q] = sent[q],
         Handling(q), Received(q)
  PROVE  (Handling(q) /\ Received(q))'
<1>1. Handling(q)'
  BY DEF Handling
<1>2. Received(q)'
  BY DEF Received
<1>. QED  BY <1>1, <1>2

\* A step of a process that is not at the file leaves the file and the refreshes as they
\* are: what remains is its own state.
LEMMA HandlerStep ==
  ASSUME ProxyInv, NEW r \in Processes, NEW x,
         UNCHANGED <<file, db, issued, clash, token, fetched>>,
         pc' = [pc EXCEPT ![r] = x],
         pc[r] \notin {"truncate", "write", "exited"}, x \notin {"truncate", "write"},
         x \in {"body", "send"} => pc[r] \in {"body", "send"},
         \A q \in Requests \ {r} :
           /\ kind'[q] = kind[q] /\ attempt'[q] = attempt[q] /\ answer'[q] = answer[q]
           /\ conn'[q] = conn[q] /\ sent'[q] = sent[q],
         Typed', r \in Requests => (Handling(r) /\ Received(r))'
  PROVE  ProxyInv'
<1>. USE DEF ProxyInv, Typed, Processes
<1>1. \A q \in Processes \ {r} : pc'[q] = pc[q]
  OBVIOUS
<1>2. pc'[r] = x
  OBVIOUS
<1>3. IssuedOnly'
  BY <1>1, <1>2 DEF IssuedOnly, Refreshing
<1>4. Held'
  BY <1>1, <1>2 DEF Held, File
<1>5. (clash \/ Calm)'
  <2>. SUFFICES ASSUME ~clash PROVE Calm'
    OBVIOUS
  <2>1. \A p \in Processes : /\ Refreshing(p)' <=> Refreshing(p)
                             /\ pc'[p] = "write" <=> pc[p] = "write"
    BY <1>1, <1>2 DEF Refreshing
  <2>2. Alone' /\ Newest'
    BY <2>1 DEF Calm, Alone, Newest
  <2>3. FileWhole'
    BY <1>1, <1>2, <2>1 DEF Calm, FileWhole, Whole
  <2>4. Fresh'
    BY <1>1, <1>2 DEF Calm, Fresh
  <2>. QED  BY <2>2, <2>3, <2>4 DEF Calm
<1>6. \A q \in Requests : (Handling(q) /\ Received(q))'
  <2>1. ASSUME NEW q \in Requests \ {r} PROVE (Handling(q) /\ Received(q))'
    <3>1. pc'[q] = pc[q]
      BY <1>1
    <3>. QED  BY <3>1, SameRequest
  <2>. QED  BY <2>1
<1>. QED  BY <1>3, <1>4, <1>5, <1>6

\* A step that leaves every process where it is and the file as it is.
LEMMA WorldStep ==
  ASSUME ProxyInv,
         UNCHANGED <<file, token, fetched, pc>>,
         issued <= issued', clash => clash',
         Typed', IssuedOnly', \A q \in Requests : (Handling(q) /\ Received(q))'
  PROVE  ProxyInv'
<1>. USE DEF ProxyInv
<1>1. Held'
  <2>1. issued \in Nat /\ issued' \in Nat
    <3>1. issued \in Tokens /\ issued' \in Tokens
      BY DEF Typed
    <3>. QED  BY <3>1, TokenFacts
  <2>2. \A t \in 1..issued : t \in 1..issued'
    BY <2>1
  <2>. QED  BY <2>2 DEF Held, File
<1>2. (clash \/ Calm)'
  BY DEF Calm, Alone, Newest, FileWhole, Fresh, Refreshing, Whole, Typed
<1>. QED  BY <1>1, <1>2

\* What a reply of one item does to a client that has nothing yet.
Replied(r, item) ==
  /\ \/ sent'[r] = <<item>> /\ conn'[r] = "open"
     \/ sent'[r] = <<>> /\ conn'[r] = "broken"
  /\ conn' \in [Requests -> {"open", "late", "broken"}] /\ sent' \in [Requests -> Seq(Items)]
  /\ \A q \in Requests \ {r} : conn'[q] = conn[q] /\ sent'[q] = sent[q]

\* The reply arrives, or the deadline or the client was gone before.
LEMMA SendOne ==
  ASSUME ProxyInv, NEW r \in Requests, NEW item \in Items, sent[r] = <<>>, Send(r, <<item>>)
  PROVE  Replied(r, item)
<1>1. conn \in [Requests -> {"open", "late", "broken"}] /\ sent \in [Requests -> Seq(Items)]
  BY DEF ProxyInv, Typed
<1>2. sent'[r] = IF conn[r] = "open" THEN <<item>> ELSE <<>>
  BY <1>1, Appended DEF Send
<1>3. conn'[r] = IF conn[r] = "late" THEN "broken" ELSE conn[r]
  BY <1>1 DEF Send
<1>4. \A q \in Requests \ {r} : conn'[q] = conn[q] /\ sent'[q] = sent[q]
  BY <1>1 DEF Send
<1>5. conn' \in [Requests -> {"open", "late", "broken"}]
  BY <1>1 DEF Send
<1>6. sent' \in [Requests -> Seq(Items)]
  <2>1. sent[r] \o <<item>> \in Seq(Items)
    BY Appended
  <2>. QED  BY <1>1, <2>1 DEF Send
<1>. QED  BY <1>1, <1>2, <1>3, <1>4, <1>5, <1>6 DEF Replied

\* A request moves on, and nothing is sent.
LEMMA MoveInv ==
  ASSUME ProxyInv, NEW r \in Requests,
         NEW x \in Places \ {"truncate", "write", "streaming", "done"},
         NEW k \in {"unread", "stream", "single"}, NEW n \in 0..2,
         NEW a \in {"none", "ok", "improper", "forbidden", "other", "failed"},
         pc[r] \notin {"truncate", "write", "exited", "streaming", "done"},
         x \in {"body", "send"} => pc[r] \in {"body", "send"},
         UNCHANGED <<server, file, db, issued, expired, clash, token, fetched, conn, sent>>,
         pc' = [pc EXCEPT ![r] = x], kind' = [kind EXCEPT ![r] = k],
         attempt' = [attempt EXCEPT ![r] = n], answer' = [answer EXCEPT ![r] = a],
         Handling(r)'
  PROVE  ProxyInv'
<1>0. Typed /\ Received(r) /\ r \in Processes
  BY DEF ProxyInv, Processes
<1>1. pc' \in [Processes -> Places] /\ pc'[r] = x
  BY <1>0 DEF Typed
<1>2. /\ kind' \in [Requests -> {"unread", "stream", "single"}]
      /\ answer' \in [Requests -> {"none", "ok", "improper", "forbidden", "other", "failed"}]
  BY <1>0 DEF Typed
<1>3. attempt' \in [Requests -> 0..(maxRetries - 1)]
  BY <1>0 DEF Typed, maxRetries
<1>4. Typed'
  BY <1>0, <1>1, <1>2, <1>3 DEF Typed
<1>5. Received(r)'
  BY <1>0, <1>1 DEF Received
<1>6. \A q \in Requests \ {r} :
        /\ kind'[q] = kind[q] /\ attempt'[q] = attempt[q] /\ answer'[q] = answer[q]
        /\ conn'[q] = conn[q] /\ sent'[q] = sent[q]
  BY <1>0 DEF Typed
<1>. QED  BY <1>0, <1>4, <1>5, <1>6, HandlerStep

\* It only moves on.
LEMMA WalkInv ==
  ASSUME ProxyInv, NEW r \in Requests,
         NEW x \in Places \ {"truncate", "write", "streaming", "done"},
         pc[r] \notin {"truncate", "write", "exited", "streaming", "done"},
         x \in {"body", "send"} => pc[r] \in {"body", "send"},
         UNCHANGED <<server, file, db, issued, expired, clash, token, fetched, conn, sent,
                     kind, attempt, answer>>,
         pc' = [pc EXCEPT ![r] = x], Handling(r)'
  PROVE  ProxyInv'
<1>1. /\ kind[r] \in {"unread", "stream", "single"} /\ attempt[r] \in 0..2
      /\ answer[r] \in {"none", "ok", "improper", "forbidden", "other", "failed"}
      /\ kind' = [kind EXCEPT ![r] = kind[r]] /\ attempt' = [attempt EXCEPT ![r] = attempt[r]]
      /\ answer' = [answer EXCEPT ![r] = answer[r]]
  BY DEF ProxyInv, Typed, maxRetries
<1>. QED  BY <1>1, MoveInv

\* A handler ends with a reply of one item.
LEMMA FinishInv ==
  ASSUME ProxyInv, NEW r \in Requests,
         NEW item \in {"error", "http_error", "message", "empty_message"},
         NEW a \in {"none", "ok", "improper", "forbidden", "other", "failed"},
         pc[r] \in {"getTokenAgain", "body", "send", "answered"},
         UNCHANGED <<server, file, db, issued, expired, clash, token, fetched, kind, attempt>>,
         Finish(r, <<item>>), answer' = [answer EXCEPT ![r] = a],
         item = "message" => a = "ok",
         item = "empty_message" => a \in {"improper", "forbidden", "other"}
  PROVE  ProxyInv'
<1>0. Typed /\ Received(r) /\ r \in Processes
  BY DEF ProxyInv, Processes
<1>1. Replied(r, item)
  <2>1. sent[r] = <<>>
    BY <1>0 DEF Received
  <2>2. item \in Items
    BY DEF Items
  <2>. QED  BY <2>1, <2>2, SendOne DEF Finish
<1>2. pc' = [pc EXCEPT ![r] = "done"] /\ pc'[r] = "done" /\ pc' \in [Processes -> Places]
  BY <1>0 DEF Finish, Typed, Places
<1>3. /\ answer'[r] = a
      /\ answer' \in [Requests -> {"none", "ok", "improper", "forbidden", "other", "failed"}]
      /\ \A q \in Requests \ {r} : answer'[q] = answer[q]
  BY <1>0 DEF Typed
<1>4. Typed'
  BY <1>0, <1>1, <1>2, <1>3 DEF Typed, Replied
<1>5. Handling(r)'
  BY <1>2 DEF Handling
<1>6. Received(r)'
  BY <1>1, <1>2, <1>3 DEF Replied, Received, Replies, Started, Streamed
<1>7. \A q \in Requests \ {r} :
        /\ kind'[q] = kind[q] /\ attempt'[q] = attempt[q] /\ answer'[q] = answer[q]
        /\ conn'[q] = conn[q] /\ sent'[q] = sent[q]
  BY <1>1, <1>3 DEF Replied
<1>. QED  BY <1>0, <1>2, <1>4, <1>5, <1>6, <1>7, HandlerStep

-----------------------------------------------------------------------------
(* The token file and the refreshes.                                       *)

\* A request takes what is a whole token; one that is on its way back has an attempt left.
LEMMA GotTokenInv ==
  ASSUME ProxyInv, NEW r \in Requests, pc[r] \in {"getToken", "getTokenAgain"},
         Whole(file), GotToken(r),
         UNCHANGED <<server, file, db, issued, expired, clash, fetched, kind, answer, conn, sent>>
  PROVE  ProxyInv'
<1>0. /\ Typed /\ IssuedOnly /\ Held /\ (clash \/ Calm)
      /\ Handling(r) /\ Received(r)
  BY DEF ProxyInv
<1>a. /\ attempt \in [Requests -> 0..2] /\ maxRetries = 3
      /\ kind[r] = "stream" => attempt[r] < 2 /\ answer[r] = "forbidden"
  BY <1>0 DEF Typed, Handling, maxRetries
<1>b. kind[r] = "stream" => Goto(NextAttempt(r)) = "send"
  BY <1>a DEF Goto, NextAttempt
<1>1. PICK x \in {"body", "send"} : pc' = [pc EXCEPT ![r] = x]
  BY <1>b DEF GotToken
<1>2. token' = [token EXCEPT ![r] = file] /\ file \in Content
  BY <1>0 DEF GotToken, Typed
<1>3. \/ attempt' = attempt
      \/ attempt' = [attempt EXCEPT ![r] = attempt[r] + 1] /\ kind[r] = "stream"
  BY DEF GotToken, NextAttempt
<1>4. /\ pc'[r] = x /\ token'[r] = file
      /\ \A p \in Processes \ {r} : pc'[p] = pc[p]
      /\ \A q \in Requests \ {r} : token'[q] = token[q] /\ attempt'[q] = attempt[q]
  BY <1>0, <1>1, <1>2, <1>3 DEF Typed, Processes
<1>6. Typed'
  <2>1. attempt' \in [Requests -> 0..2]
    BY <1>3, <1>a
  <2>2. token' \in [Requests -> Content]
    BY <1>0, <1>2 DEF Typed
  <2>3. pc' \in [Processes -> Places]
    BY <1>0, <1>1 DEF Typed, Places
  <2>. QED  BY <1>0, <1>a, <2>1, <2>2, <2>3 DEF Typed
<1>7. IssuedOnly'
  BY <1>0, <1>1, <1>4 DEF IssuedOnly, Refreshing
<1>8. Held'
  <2>0. file.tok \in Tokens /\ issued \in Tokens /\ file.tok <= issued
    BY <1>0, <1>2, WholeFile DEF Typed, IssuedOnly
  <2>1. file.tok \in 1..issued
    BY <2>0, TokenFacts
  <2>2. file \in {File(t) : t \in 1..issued}
    BY <1>2, <2>1, WholeFile
  <2>. QED  BY <1>0, <1>4, <2>2 DEF Held, Processes, File
<1>9. (clash \/ Calm)'
  <2>. SUFFICES ASSUME ~clash PROVE Calm'
    OBVIOUS
  <2>1. \A p \in Processes : /\ Refreshing(p)' <=> Refreshing(p)
                             /\ pc'[p] = "write" <=> pc[p] = "write"
                             /\ pc'[p] \in {"truncate", "exited"} <=> pc[p] \in {"truncate", "exited"}
    BY <1>1, <1>4 DEF Refreshing
  <2>2. Alone' /\ Newest'
    BY <1>0, <2>1 DEF Calm, Alone, Newest
  <2>3. FileWhole'
    BY <1>0, <2>1 DEF Calm, FileWhole, Whole
  <2>4. file.tok >= fetched[r]
    <3>1. FileWhole /\ r \in Processes
      BY <1>0 DEF Calm, Processes
    <3>2. \A p \in Processes : pc[p] # "write"
      BY <3>1 DEF FileWhole, Whole, Empty
    <3>. QED  BY <3>1, <3>2 DEF FileWhole
  <2>5. Fresh'
    BY <1>0, <1>4, <2>4 DEF Calm, Fresh, Processes
  <2>. QED  BY <2>2, <2>3, <2>5 DEF Calm
<1>10. ASSUME NEW q \in Requests PROVE (Handling(q) /\ Received(q))'
  <2>1. CASE q = r
    <3>1. Handling(r)'
      BY <1>0, <1>1, <1>3, <1>4, <1>a DEF Handling
    <3>2. Received(r)'
      BY <1>0, <1>1, <1>4 DEF Received
    <3>. QED  BY <2>1, <3>1, <3>2
  <2>2. CASE q # r
    BY <1>4, <2>2, SameRequest DEF ProxyInv, Processes
  <2>. QED  BY <2>1, <2>2
<1>. QED  BY <1>6, <1>7, <1>8, <1>9, <1>10 DEF ProxyInv

\* A request reads the file, and tries once more when what it read is no token.
LEMMA ReadTokenInv ==
  ASSUME ProxyInv, NEW r \in Requests, ReadToken(r)
  PROVE  ProxyInv'
<1>1. CASE Whole(file) /\ GotToken(r)
  BY <1>1, GotTokenInv DEF ReadToken, shared, client
<1>2. CASE ~Whole(file)
  <2>1. /\ Handling(r) /\ pc[r] = "getToken" /\ pc' = [pc EXCEPT ![r] = "getTokenAgain"]
        /\ UNCHANGED <<server, file, db, issued, expired, clash, token, fetched, conn, sent,
                       kind, attempt, answer>>
    BY <1>2 DEF ReadToken, shared, client, ProxyInv
  <2>2. pc'[r] = "getTokenAgain"
    BY <2>1 DEF ProxyInv, Typed, Processes
  <2>3. Handling(r)'
    BY <2>1, <2>2 DEF Handling
  <2>. QED  BY <2>1, <2>3, WalkInv DEF Places
<1>. QED  BY <1>1, <1>2 DEF ReadToken

\* The retry; it ends in a reply when the file is still no token.
LEMMA ReadTokenAgainInv ==
  ASSUME ProxyInv, NEW r \in Requests, ReadTokenAgain(r)
  PROVE  ProxyInv'
<1>1. CASE Whole(file) /\ GotToken(r) /\ UNCHANGED client
  BY <1>1, GotTokenInv DEF ReadTokenAgain, shared, client
<1>2. CASE Finish(r, ErrorReply(r)) /\ UNCHANGED <<token, attempt>>
  <2>0. /\ Typed /\ Handling(r) /\ pc[r] = "getTokenAgain"
        /\ UNCHANGED <<server, file, db, issued, expired, clash, token, fetched, kind, attempt,
                       answer>>
    BY <1>2 DEF ReadTokenAgain, shared, ProxyInv
  <2>1. PICK item \in {"error", "http_error"} :
          item = IF kind[r] = "stream" THEN "error" ELSE "http_error"
    OBVIOUS
  <2>3. /\ answer' = [answer EXCEPT ![r] = answer[r]]
        /\ answer[r] \in {"none", "ok", "improper", "forbidden", "other", "failed"}
    BY <2>0 DEF Typed
  <2>4. Finish(r, <<item>>)
    BY <1>2, <2>1 DEF ErrorReply
  <2>. QED  BY <2>0, <2>3, <2>4, FinishInv
<1>. QED  BY <1>1, <1>2 DEF ReadTokenAgain

-----------------------------------------------------------------------------
(* The handler.                                                            *)

\* A request arrives.
LEMMA ReceiveInv ==
  ASSUME ProxyInv, NEW r \in Requests, Receive(r)
  PROVE  ProxyInv'
<1>1. /\ Handling(r) /\ pc[r] = "new" /\ pc' = [pc EXCEPT ![r] = "getToken"]
      /\ UNCHANGED <<server, file, db, issued, expired, clash, token, fetched, conn, sent,
                     kind, attempt, answer>>
  BY DEF Receive, shared, calls, client, ProxyInv
<1>2. pc'[r] = "getToken"
  BY <1>1 DEF ProxyInv, Typed, Processes
<1>3. Handling(r)'
  BY <1>1, <1>2 DEF Handling
<1>. QED  BY <1>1, <1>3, WalkInv DEF Places

\* The body is refused, or the request goes to the upstream.
LEMMA ReadBodyInv ==
  ASSUME ProxyInv, NEW r \in Requests, ReadBody(r)
  PROVE  ProxyInv'
<1>1. /\ pc[r] = "body"
      /\ UNCHANGED <<server, file, db, issued, expired, clash, token, fetched, attempt, answer>>
      /\ attempt[r] \in 0..2
      /\ answer[r] \in {"none", "ok", "improper", "forbidden", "other", "failed"}
      /\ attempt' = [attempt EXCEPT ![r] = attempt[r]]
      /\ answer' = [answer EXCEPT ![r] = answer[r]]
  BY DEF ReadBody, shared, ProxyInv, Typed, maxRetries
<1>2. CASE Finish(r, <<"http_error">>) /\ UNCHANGED kind
  BY <1>1, <1>2, FinishInv
<1>3. CASE /\ \E k \in {"stream", "single"} : kind' = [kind EXCEPT ![r] = k]
           /\ pc' = [pc EXCEPT ![r] = "send"]
           /\ UNCHANGED client
  <2>1. pc'[r] = "send"
    BY <1>3 DEF ProxyInv, Typed, Processes
  <2>2. Handling(r)'
    BY <2>1 DEF Handling
  <2>3. PICK k \in {"unread", "stream", "single"} : kind' = [kind EXCEPT ![r] = k]
    BY <1>3
  <2>. QED  BY <1>1, <1>3, <2>2, <2>3, MoveInv DEF Places, client
<1>. QED  BY <1>2, <1>3 DEF ReadBody

\* The upstream answers: what an answer leaves alone.
LEMMA AnswerFacts ==
  ASSUME ProxyInv, NEW r \in Requests, NEW a, Answer(r, a)
  PROVE  /\ pc[r] = "send" /\ answer' = [answer EXCEPT ![r] = a]
         /\ UNCHANGED <<server, file, db, issued, expired, clash, token, fetched, kind>>
         /\ kind[r] \in {"unread", "stream", "single"} /\ kind' = [kind EXCEPT ![r] = kind[r]]
         /\ attempt[r] \in 0..2 /\ attempt = [attempt EXCEPT ![r] = attempt[r]]
         /\ pc \in [Processes -> Places] /\ r \in Processes
         /\ kind' [r] = kind[r] /\ answer'[r] = a
BY DEF Answer, shared, ProxyInv, Typed, maxRetries, Processes

\* A stream is opened.
LEMMA StreamAcceptedInv ==
  ASSUME ProxyInv, NEW r \in Requests, StreamAccepted(r)
  PROVE  ProxyInv'
<1>1. /\ Answer(r, "ok") /\ pc' = [pc EXCEPT ![r] = "answered"] /\ kind[r] = "stream"
      /\ UNCHANGED <<attempt, conn, sent>>
  BY DEF StreamAccepted, client
<1>2. Handling(r)'
  BY <1>1, AnswerFacts DEF Handling
<1>. QED  BY <1>1, <1>2, AnswerFacts, MoveInv DEF Places

\* "Improperly formed": another attempt.
LEMMA RetryImproperInv ==
  ASSUME ProxyInv, NEW r \in Requests, RetryImproper(r)
  PROVE  ProxyInv'
<1>1. /\ Answer(r, "improper") /\ UNCHANGED <<conn, sent>> /\ attempt[r] < 2
      /\ attempt' = [attempt EXCEPT ![r] = NextAttempt(r)]
      /\ pc' = [pc EXCEPT ![r] = Goto(NextAttempt(r))]
  BY DEF RetryImproper, MayRetry, maxRetries, client
<1>2. NextAttempt(r) \in 0..2 /\ Goto(NextAttempt(r)) = "send"
  BY <1>1, AnswerFacts DEF NextAttempt, Goto, maxRetries
<1>3. Handling(r)'
  BY <1>1, <1>2, AnswerFacts DEF Handling
<1>. QED  BY <1>1, <1>2, <1>3, AnswerFacts, MoveInv DEF Places

\* 403 with an attempt left: to the database.
LEMMA RefreshForbiddenInv ==
  ASSUME ProxyInv, NEW r \in Requests, RefreshForbidden(r)
  PROVE  ProxyInv'
<1>1. /\ Answer(r, "forbidden") /\ UNCHANGED <<attempt, conn, sent>>
      /\ attempt[r] < maxRetries - 1 /\ kind[r] = "stream"
      /\ pc' = [pc EXCEPT ![r] = "readDb"]
  BY DEF RefreshForbidden, MayRetry, client
<1>2. Handling(r)'
  BY <1>1, AnswerFacts DEF Handling
<1>. QED  BY <1>1, <1>2, AnswerFacts, MoveInv DEF Places

\* An error ends the request.
LEMMA StreamRefusedInv ==
  ASSUME ProxyInv, NEW r \in Requests, StreamRefused(r)
  PROVE  ProxyInv'
<1>1. PICK a \in {"improper", "forbidden", "other", "failed"} : Answer(r, a)
  BY DEF StreamRefused, Answers
<1>2. Finish(r, <<"error">>) /\ UNCHANGED attempt
  BY DEF StreamRefused
<1>. QED  BY <1>1, <1>2, AnswerFacts, FinishInv

\* A message, or what HandleNonStreamRequest makes of a refusal.
LEMMA SingleAnsweredInv ==
  ASSUME ProxyInv, NEW r \in Requests, SingleAnswered(r)
  PROVE  ProxyInv'
<1>1. PICK a \in {"ok", "improper", "forbidden", "other", "failed"} :
        /\ Answer(r, a)
        /\ \E reply \in SingleReplies(a) : Finish(r, <<reply>>)
  BY DEF SingleAnswered, Answers
<1>2. PICK item \in {"http_error", "message", "empty_message"} :
        /\ Finish(r, <<item>>)
        /\ item = "message" => a = "ok"
        /\ item = "empty_message" => a \in {"improper", "forbidden", "other"}
  BY <1>1 DEF SingleReplies
<1>3. UNCHANGED attempt
  BY DEF SingleAnswered
<1>. QED  BY <1>1, <1>2, <1>3, AnswerFacts, FinishInv

\* The head of a stream.
LEMMA StartStreamInv ==
  ASSUME ProxyInv, NEW r \in Requests, StartStream(r)
  PROVE  ProxyInv'
<1>0. /\ pc[r] = "answered" /\ pc' = [pc EXCEPT ![r] = "streaming"]
      /\ UNCHANGED <<server, file, db, issued, expired, clash, token, fetched, kind, attempt,
                     answer>>
      /\ Typed /\ answer[r] = "ok" /\ kind[r] = "stream" /\ sent[r] = <<>> /\ r \in Processes
  BY DEF StartStream, shared, calls, ProxyInv, Handling, Received, Processes
<1>1. sent' = [sent EXCEPT ![r] = IF conn[r] = "open" THEN <<"message_start", "ping">> ELSE <<>>]
  BY <1>0, Appended DEF StartStream, Send
<1>2. conn' = [conn EXCEPT ![r] = IF @ = "late" THEN "broken" ELSE @]
  BY DEF StartStream, Send
<1>3. /\ conn' \in [Requests -> {"open", "late", "broken"}] /\ sent' \in [Requests -> Seq(Items)]
      /\ sent'[r] \in Started \/ (conn'[r] = "broken" /\ sent'[r] = <<>>)
      /\ \A q \in Requests \ {r} : conn'[q] = conn[q] /\ sent'[q] = sent[q]
  <2>1. <<"message_start", "ping">> \in Started
    BY DEF Started
  <2>2. <<"message_start", "ping">> \in Seq(Items) /\ <<>> \in Seq(Items)
    BY <2>1, StreamReplies
  <2>. QED  BY <1>0, <1>1, <1>2, <2>1, <2>2 DEF Typed
<1>4. pc' \in [Processes -> Places] /\ pc'[r] = "streaming"
  BY <1>0 DEF Typed, Places
<1>5. Typed'
  BY <1>0, <1>3, <1>4 DEF Typed
<1>6. (Handling(r) /\ Received(r))'
  BY <1>0, <1>3, <1>4 DEF Handling, Received
<1>. QED  BY <1>0, <1>3, <1>5, <1>6, HandlerStep

\* Events, once or more.
LEMMA SendEventsInv ==
  ASSUME ProxyInv, NEW r \in Requests, SendEvents(r)
  PROVE  ProxyInv'
<1>0. /\ pc[r] = "streaming"
      /\ UNCHANGED <<server, file, db, issued, expired, clash, pc, token, fetched, kind, attempt,
                     answer>>
      /\ Typed /\ IssuedOnly /\ Handling(r)
      /\ sent[r] \in Started \/ (conn[r] = "broken" /\ sent[r] = <<>>)
  BY DEF SendEvents, shared, calls, ProxyInv, Received
<1>1. conn' = [conn EXCEPT ![r] = IF @ = "late" THEN "open" ELSE @]
  BY DEF SendEvents, SendInTime
<1>2. \/ conn[r] = "broken" /\ sent' = [sent EXCEPT ![r] = sent[r]]
      \/ sent[r] \in Started
         /\ sent' = [sent EXCEPT ![r] = <<"message_start", "ping", "events">>]
  <2>1. CASE conn[r] = "broken"
    BY <2>1 DEF SendEvents, SendInTime
  <2>2. CASE conn[r] # "broken" /\ sent[r] = <<"message_start", "ping">>
    <3>1. "events" \notin ToSet(sent[r])
      BY <2>2, ItemSets
    <3>2. sent' = [sent EXCEPT ![r] = sent[r] \o <<"events">>]
      BY <2>2, <3>1 DEF SendEvents, SendInTime
    <3>3. sent[r] \o <<"events">> = <<"message_start", "ping", "events">>
      BY <2>2, Appended
    <3>. QED  BY <2>2, <3>2, <3>3 DEF Started
  <2>3. CASE conn[r] # "broken" /\ sent[r] = <<"message_start", "ping", "events">>
    <3>1. "events" \in ToSet(sent[r])
      BY <2>3, ItemSets
    <3>2. sent' = [sent EXCEPT ![r] = sent[r] \o <<>>]
      BY <2>3, <3>1 DEF SendEvents, SendInTime
    <3>3. sent[r] \o <<>> = <<"message_start", "ping", "events">>
      BY <2>3, Appended
    <3>. QED  BY <2>3, <3>2, <3>3 DEF Started
  <2>. QED  BY <1>0, <2>1, <2>2, <2>3 DEF Started
<1>3. /\ conn' \in [Requests -> {"open", "late", "broken"}] /\ sent' \in [Requests -> Seq(Items)]
      /\ \A q \in Requests \ {r} : conn'[q] = conn[q] /\ sent'[q] = sent[q]
  <2>1. <<"message_start", "ping", "events">> \in Seq(Items)
    BY DEF Items
  <2>. QED  BY <1>0, <1>1, <1>2, <2>1 DEF Typed
<1>4. sent'[r] \in Started \/ (conn'[r] = "broken" /\ sent'[r] = <<>>)
  BY <1>0, <1>1, <1>2 DEF Typed, Started
<1>5. Typed'
  BY <1>0, <1>3 DEF Typed
<1>6. IssuedOnly'
  BY <1>0 DEF IssuedOnly, Refreshing
<1>7. ASSUME NEW q \in Requests PROVE (Handling(q) /\ Received(q))'
  <2>1. CASE q = r
    BY <1>0, <1>4, <2>1 DEF Handling, Received
  <2>2. CASE q # r
    BY <1>0, <1>3, <2>2, SameRequest DEF ProxyInv
  <2>. QED  BY <2>1, <2>2
<1>8. issued <= issued' /\ (clash => clash')
  <2>1. issued \in Nat
    BY <1>0, TokenFacts DEF Typed
  <2>. QED  BY <1>0, <2>1
<1>. QED  BY <1>0, <1>5, <1>6, <1>7, <1>8, WorldStep

\* The end of a stream.
LEMMA EndStreamInv ==
  ASSUME ProxyInv, NEW r \in Requests, EndStream(r)
  PROVE  ProxyInv'
<1>0. /\ pc[r] = "streaming" /\ pc' = [pc EXCEPT ![r] = "done"]
      /\ UNCHANGED <<server, file, db, issued, expired, clash, token, fetched, kind, attempt,
                     answer>>
      /\ Typed /\ answer[r] = "ok" /\ r \in Processes
      /\ sent[r] \in Started \/ (conn[r] = "broken" /\ sent[r] = <<>>)
  BY DEF EndStream, shared, calls, ProxyInv, Handling, Received, Processes
<1>1. conn' = [conn EXCEPT ![r] = IF @ = "late" THEN "open" ELSE @]
  BY DEF EndStream, SendInTime
<1>2. PICK full \in Streamed \cup Started \cup {<<>>} :
        /\ sent' = [sent EXCEPT ![r] = full]
        /\ full \in Streamed \/ conn[r] = "broken"
  <2>1. CASE conn[r] = "broken"
    <3>1. sent' = [sent EXCEPT ![r] = sent[r]]
      BY <2>1 DEF EndStream, SendInTime
    <3>. QED  BY <1>0, <2>1, <3>1
  <2>2. CASE conn[r] # "broken"
    <3>1. sent' = [sent EXCEPT ![r] = sent[r] \o <<"message_stop">>] /\ sent[r] \in Started
      BY <1>0, <2>2 DEF EndStream, SendInTime
    <3>2. sent[r] \o <<"message_stop">> \in Streamed
      BY <3>1, StreamReplies
    <3>. QED  BY <3>1, <3>2
  <2>. QED  BY <2>1, <2>2
<1>3. /\ conn' \in [Requests -> {"open", "late", "broken"}] /\ sent' \in [Requests -> Seq(Items)]
      /\ sent'[r] = full /\ (conn[r] = "broken" => conn'[r] = "broken")
      /\ \A q \in Requests \ {r} : conn'[q] = conn[q] /\ sent'[q] = sent[q]
  <2>1. full \in Seq(Items)
    BY StreamReplies
  <2>. QED  BY <1>0, <1>1, <1>2, <2>1 DEF Typed
<1>4. pc' \in [Processes -> Places] /\ pc'[r] = "done"
  BY <1>0 DEF Typed, Places
<1>5. Typed'
  BY <1>0, <1>3, <1>4 DEF Typed
<1>6. Handling(r)'
  BY <1>4 DEF Handling
<1>7. Received(r)'
  <2>1. /\ full \notin {<<"message">>, <<"empty_message">>}
        /\ full \in Streamed => full \in Replies
    BY StreamReplies
  <2>. QED  BY <1>0, <1>2, <1>3, <1>4, <2>1 DEF Received
<1>. QED  BY <1>0, <1>3, <1>5, <1>6, <1>7, HandlerStep

\* An error in the place of what was to come.
LEMMA GiveUpInv ==
  ASSUME ProxyInv, NEW r \in Requests, GiveUp(r)
  PROVE  ProxyInv'
<1>0. /\ Finish(r, ErrorReply(r)) /\ pc[r] \in {"send", "answered", "streaming"}
      /\ UNCHANGED <<server, file, db, issued, expired, clash, token, fetched, kind, attempt,
                     answer>>
      /\ Typed /\ Handling(r) /\ Received(r) /\ r \in Processes
  BY DEF GiveUp, shared, calls, ProxyInv, Processes
<1>1. CASE pc[r] # "streaming"
  <2>1. PICK item \in {"error", "http_error"} : Finish(r, <<item>>)
    BY <1>0 DEF ErrorReply
  <2>2. /\ answer' = [answer EXCEPT ![r] = answer[r]]
        /\ answer[r] \in {"none", "ok", "improper", "forbidden", "other", "failed"}
    BY <1>0 DEF Typed
  <2>. QED  BY <1>0, <1>1, <2>1, <2>2, FinishInv
<1>2. CASE pc[r] = "streaming"
  <2>1. /\ answer[r] = "ok" /\ kind[r] = "stream"
        /\ sent[r] \in Started \/ (conn[r] = "broken" /\ sent[r] = <<>>)
    BY <1>0, <1>2 DEF Handling, Received
  <2>2. /\ pc' = [pc EXCEPT ![r] = "done"]
        /\ conn' = [conn EXCEPT ![r] = IF @ = "late" THEN "broken" ELSE @]
        /\ sent' = [sent EXCEPT ![r] = IF conn[r] = "open" THEN @ \o <<"error">> ELSE @]
    BY <1>0, <2>1 DEF Finish, Send, ErrorReply
  <2>3. PICK full \in Streamed \cup Started \cup {<<>>} :
          /\ sent' = [sent EXCEPT ![r] = full]
          /\ full \in Streamed \/ conn[r] # "open"
    <3>1. CASE conn[r] # "open"
      <4>1. sent' = [sent EXCEPT ![r] = sent[r]]
        BY <2>2, <3>1
      <4>2. sent[r] \in Streamed \cup Started \cup {<<>>}
        BY <2>1
      <4>. QED  BY <3>1, <4>1, <4>2
    <3>2. CASE conn[r] = "open"
      <4>1. sent' = [sent EXCEPT ![r] = sent[r] \o <<"error">>] /\ sent[r] \in Started
        BY <2>1, <2>2, <3>2
      <4>2. sent[r] \o <<"error">> \in Streamed
        BY <4>1, StreamReplies
      <4>. QED  BY <4>1, <4>2
    <3>. QED  BY <3>1, <3>2
  <2>4. /\ conn' \in [Requests -> {"open", "late", "broken"}] /\ sent' \in [Requests -> Seq(Items)]
        /\ sent'[r] = full /\ (conn[r] # "open" => conn'[r] = "broken")
        /\ \A q \in Requests \ {r} : conn'[q] = conn[q] /\ sent'[q] = sent[q]
    <3>1. full \in Seq(Items)
      BY StreamReplies
    <3>. QED  BY <1>0, <2>2, <2>3, <3>1 DEF Typed
  <2>5. pc' \in [Processes -> Places] /\ pc'[r] = "done"
    BY <1>0, <2>2 DEF Typed, Places
  <2>6. Typed'
    BY <1>0, <2>4, <2>5 DEF Typed
  <2>7. Handling(r)'
    BY <2>5 DEF Handling
  <2>8. Received(r)'
    <3>1. /\ full \notin {<<"message">>, <<"empty_message">>}
          /\ full \in Streamed => full \in Replies
      BY StreamReplies
    <3>. QED  BY <1>0, <2>1, <2>3, <2>4, <2>5, <3>1 DEF Received
  <2>9. /\ UNCHANGED <<file, db, issued, clash, token, fetched>>
        /\ pc[r] \notin {"truncate", "write", "exited"}
        /\ \A q \in Requests \ {r} :
             /\ kind'[q] = kind[q] /\ attempt'[q] = attempt[q] /\ answer'[q] = answer[q]
             /\ conn'[q] = conn[q] /\ sent'[q] = sent[q]
    BY <1>0, <1>2, <2>4
  <2>10. pc' = [pc EXCEPT ![r] = "done"] /\ r \in Processes
    BY <1>0, <2>2
  <2>. QED  BY <2>6, <2>7, <2>8, <2>9, <2>10, HandlerStep
<1>. QED  BY <1>1, <1>2

-----------------------------------------------------------------------------
(* RefreshToken.                                                           *)

\* A step of a refresh in a request: what it leaves to a client and its handler.
LEMMA RefreshHandling ==
  ASSUME ProxyInv, NEW p \in Processes, NEW x \in Places \ {"new", "answered", "streaming", "done"},
         pc[p] \notin {"streaming", "done"},
         pc' = [pc EXCEPT ![p] = x],
         x \in {"truncate", "write", "getToken"} => pc[p] \in {"readDb", "truncate", "write"},
         x \notin {"readDb", "getTokenAgain"},
         UNCHANGED <<kind, attempt, answer, conn, sent>>
  PROVE  \A q \in Requests : (Handling(q) /\ Received(q))'
<1>0. pc'[p] = x /\ (\A q \in Processes \ {p} : pc'[q] = pc[q]) /\ Requests \subseteq Processes
  BY DEF ProxyInv, Typed, Processes
<1>1. ASSUME NEW q \in Requests, q # p PROVE (Handling(q) /\ Received(q))'
  BY <1>0, <1>1, SameRequest DEF ProxyInv
<1>2. ASSUME p \in Requests PROVE (Handling(p) /\ Received(p))'
  <2>1. Handling(p) /\ Received(p)
    BY <1>2 DEF ProxyInv
  <2>2. Handling(p)'
    BY <1>0, <2>1 DEF Handling
  <2>3. Received(p)'
    BY <1>0, <2>1 DEF Received
  <2>. QED  BY <2>2, <2>3
<1>. QED  BY <1>1, <1>2

\* `openkiro refresh` starts.
LEMMA StartRefreshInv ==
  ASSUME ProxyInv, NEW p \in Refreshers, StartRefresh(p)
  PROVE  ProxyInv'
<1>1. /\ pc[p] = "new" /\ pc' = [pc EXCEPT ![p] = "readDb"]
      /\ UNCHANGED <<server, file, db, issued, expired, clash, token, fetched, kind, attempt,
                     answer, conn, sent>>
      /\ Typed /\ p \in Processes /\ p \notin Requests
  BY ProxyAssumption DEF StartRefresh, shared, calls, client, ProxyInv, Processes
<1>2. pc' \in [Processes -> Places]
  BY <1>1 DEF Typed, Places
<1>3. Typed'
  BY <1>1, <1>2 DEF Typed
<1>. QED  BY <1>1, <1>3, HandlerStep

\* The token is read: from now on another process at the file is a clash.
LEMMA ReadDatabaseInv ==
  ASSUME ProxyInv, NEW p \in Processes, ReadDatabase(p)
  PROVE  ProxyInv'
<1>0. /\ pc[p] = "readDb" /\ db # NoToken /\ pc' = [pc EXCEPT ![p] = "truncate"]
      /\ fetched' = [fetched EXCEPT ![p] = db]
      /\ clash' = (clash \/ \E q \in Processes \ {p} : Refreshing(q))
      /\ UNCHANGED <<server, file, db, issued, expired, token, kind, attempt, answer, conn, sent>>
  BY DEF ReadDatabase, client
<1>1. Typed /\ IssuedOnly /\ Held /\ (clash \/ Calm)
  BY DEF ProxyInv
<1>2. /\ pc'[p] = "truncate" /\ fetched'[p] = issued
      /\ \A q \in Processes \ {p} : pc'[q] = pc[q] /\ fetched'[q] = fetched[q]
      /\ Requests \subseteq Processes
  BY <1>0, <1>1 DEF Typed, IssuedOnly, Processes
<1>3. issued \in Tokens /\ issued \in Nat \ {0}
  BY <1>1, TokenFacts DEF Typed
<1>4. Typed'
  <2>1. pc' \in [Processes -> Places]
    BY <1>0, <1>1 DEF Typed, Places
  <2>2. fetched' \in [Processes -> Tokens \cup {NoToken}]
    BY <1>0, <1>1 DEF Typed
  <2>3. clash' \in BOOLEAN
    BY <1>0, <1>1 DEF Typed
  <2>. QED  BY <1>0, <1>1, <2>1, <2>2, <2>3 DEF Typed
<1>5. IssuedOnly'
  BY <1>0, <1>1, <1>2, <1>3 DEF IssuedOnly, Refreshing, NoToken
<1>6. Held'
  BY <1>0, <1>1, <1>2 DEF Held, File
<1>7. (clash \/ Calm)'
  <2>. SUFFICES ASSUME ~clash' PROVE Calm'
    OBVIOUS
  <2>1. Calm /\ \A q \in Processes \ {p} : ~Refreshing(q)
    BY <1>0, <1>1
  <2>2. \A q \in Processes : Refreshing(q)' => q = p
    BY <1>2, <2>1 DEF Refreshing
  <2>3. Alone'
    BY <2>2 DEF Alone
  <2>4. Newest'
    BY <1>1, <1>2, <1>3, <2>2 DEF IssuedOnly, Newest, NoToken
  <2>5. FileWhole'
    <3>1. \A q \in Processes : pc[q] # "write"
      BY <1>0, <2>1 DEF Refreshing
    <3>2. Whole(file) /\ \A q \in Processes : pc[q] \notin {"truncate", "exited"} =>
                                                file.tok >= fetched[q]
      BY <2>1, <3>1 DEF Calm, FileWhole
    <3>3. Whole(file')
      BY <1>0, <3>2
    <3>. QED  BY <1>0, <1>2, <3>1, <3>2, <3>3 DEF FileWhole
  <2>6. Fresh'
    BY <1>0, <1>2, <2>1 DEF Calm, Fresh
  <2>. QED  BY <2>3, <2>4, <2>5, <2>6 DEF Calm
<1>8. \A q \in Requests : (Handling(q) /\ Received(q))'
  BY <1>0, RefreshHandling DEF Places
<1>. QED  BY <1>4, <1>5, <1>6, <1>7, <1>8 DEF ProxyInv

\* The file is truncated.
LEMMA TruncateInv ==
  ASSUME ProxyInv, NEW p \in Processes, Truncate(p)
  PROVE  ProxyInv'
<1>0. /\ pc[p] = "truncate" /\ pc' = [pc EXCEPT ![p] = "write"] /\ file' = Empty
      /\ UNCHANGED <<server, db, issued, expired, clash, token, fetched, kind, attempt, answer,
                     conn, sent>>
  BY DEF Truncate, Truncated, calls, client
<1>1. Typed /\ IssuedOnly /\ Held /\ (clash \/ Calm)
  BY DEF ProxyInv
<1>2. /\ pc'[p] = "write" /\ \A q \in Processes \ {p} : pc'[q] = pc[q]
      /\ Requests \subseteq Processes
  BY <1>0, <1>1 DEF Typed, Processes
<1>3. issued \in Nat \ {0}
  BY <1>1, TokenFacts DEF Typed
<1>4. Typed'
  <2>1. pc' \in [Processes -> Places]
    BY <1>0, <1>1 DEF Typed, Places
  <2>2. file' \in Content
    BY <1>0 DEF Content, Empty
  <2>. QED  BY <1>0, <1>1, <2>1, <2>2 DEF Typed
<1>5. IssuedOnly'
  <2>1. file'.tok <= issued
    BY <1>0, <1>3 DEF Empty, NoToken
  <2>. QED  BY <1>0, <1>1, <1>2, <2>1 DEF IssuedOnly, Refreshing
<1>6. Held'
  BY <1>0, <1>1, <1>2 DEF Held, File
<1>7. (clash \/ Calm)'
  <2>. SUFFICES ASSUME ~clash PROVE Calm'
    BY <1>0
  <2>1. Calm /\ Refreshing(p)
    BY <1>0, <1>1 DEF Refreshing
  <2>2. \A q \in Processes : Refreshing(q)' <=> Refreshing(q)
    BY <1>0, <1>2 DEF Refreshing
  <2>3. Alone' /\ Newest'
    BY <1>0, <2>1, <2>2 DEF Calm, Alone, Newest
  <2>4. FileWhole'
    BY <1>0, <1>2 DEF FileWhole
  <2>5. Fresh'
    BY <1>0, <1>2, <2>1 DEF Calm, Fresh
  <2>. QED  BY <2>3, <2>4, <2>5 DEF Calm
<1>8. \A q \in Requests : (Handling(q) /\ Received(q))'
  BY <1>0, RefreshHandling DEF Places
<1>. QED  BY <1>4, <1>5, <1>6, <1>7, <1>8 DEF ProxyInv

\* The token is written, and a request goes back to the file.
LEMMA WriteInv ==
  ASSUME ProxyInv, NEW p \in Processes, Write(p)
  PROVE  ProxyInv'
<1>0. /\ pc[p] = "write" /\ file' = Written(file, fetched[p])
      /\ pc' = [pc EXCEPT ![p] = IF p \in Requests THEN "getToken" ELSE "done"]
      /\ UNCHANGED <<server, db, issued, expired, clash, token, fetched, kind, attempt, answer,
                     conn, sent>>
  BY DEF Write, calls, client
<1>1. Typed /\ IssuedOnly /\ Held /\ (clash \/ Calm)
  BY DEF ProxyInv
<1>2. PICK x \in {"getToken", "done"} :
        /\ x = IF p \in Requests THEN "getToken" ELSE "done"
        /\ pc' = [pc EXCEPT ![p] = x]
  BY <1>0
<1>3. /\ pc'[p] = x /\ \A q \in Processes \ {p} : pc'[q] = pc[q]
      /\ Requests \subseteq Processes
  BY <1>1, <1>2 DEF Typed, Processes
<1>4. fetched[p] \in Tokens /\ fetched[p] <= issued
  BY <1>0, <1>1 DEF Typed, IssuedOnly, Refreshing
<1>5. file' \in Content /\ file'.tok = fetched[p]
  BY <1>0, <1>1, <1>4, WrittenContent DEF Typed
<1>6. Typed'
  <2>1. pc' \in [Processes -> Places]
    BY <1>1, <1>2 DEF Typed, Places
  <2>. QED  BY <1>0, <1>1, <1>5, <2>1 DEF Typed
<1>7. IssuedOnly'
  BY <1>0, <1>1, <1>3, <1>4, <1>5 DEF IssuedOnly, Refreshing
<1>8. Held'
  BY <1>0, <1>1, <1>3 DEF Held, File
<1>9. (clash \/ Calm)'
  <2>. SUFFICES ASSUME ~clash PROVE Calm'
    BY <1>0
  <2>1. Calm /\ Refreshing(p)
    BY <1>0, <1>1 DEF Refreshing
  <2>2. \A q \in Processes : ~Refreshing(q)'
    BY <1>3, <2>1 DEF Calm, Alone, Refreshing
  <2>3. Alone' /\ Newest'
    BY <2>2 DEF Alone, Newest
  <2>4. file' = File(fetched[p]) /\ Whole(file')
    BY <1>0, <1>4, <2>1, WrittenWhole DEF Calm, FileWhole
  <2>5. FileWhole'
    <3>1. \A q \in Processes : pc'[q] # "write"
      BY <2>2 DEF Refreshing
    <3>2. \A q \in Processes : fetched[q] <= fetched[p]
      BY <2>1 DEF Calm, Newest
    <3>3. \A q \in Processes : fetched[q] \in Nat
      BY <1>1, TokenFacts DEF Typed, NoToken
    <3>4. \A q \in Processes : file'.tok >= fetched'[q]
      BY <1>0, <1>5, <3>2, <3>3
    <3>. QED  BY <2>4, <3>1, <3>4 DEF FileWhole
  <2>6. Fresh'
    BY <1>0, <1>3, <2>1 DEF Calm, Fresh
  <2>. QED  BY <2>3, <2>5, <2>6 DEF Calm
<1>10. \A q \in Requests : (Handling(q) /\ Received(q))'
  <2>1. CASE p \in Requests
    BY <1>0, <1>2, <2>1, RefreshHandling DEF Places
  <2>2. CASE p \notin Requests
    <3>1. ASSUME NEW q \in Requests PROVE (Handling(q) /\ Received(q))'
      BY <1>0, <1>3, <2>2, <3>1, SameRequest DEF ProxyInv
    <3>. QED  BY <3>1
  <2>. QED  BY <2>1, <2>2
<1>. QED  BY <1>6, <1>7, <1>8, <1>9, <1>10 DEF ProxyInv

\* A refresh fails and ends its process; one that is cut short while it writes is a clash.
LEMMA ExitInv ==
  ASSUME ProxyInv, NEW p \in Processes, Exit(p)
  PROVE  ProxyInv'
<1>0. /\ pc[p] \in {"readDb", "truncate", "write"} /\ pc' = [pc EXCEPT ![p] = "exited"]
      /\ UNCHANGED <<file, db, issued, expired, token, fetched, kind, attempt, answer, conn,
                     sent>>
      /\ server' \in {server, "down"}
  BY DEF Exit, calls, client
<1>1. /\ clash' \in BOOLEAN /\ (clash => clash') /\ (pc[p] = "write" => clash')
  <2>. DEFINE killed == IF p \in Requests THEN Requests ELSE {p}
  <2>1. clash' = (clash \/ \E q \in killed : pc[q] = "write")
    BY DEF Exit
  <2>2. p \in killed
    OBVIOUS
  <2>3. clash \in BOOLEAN
    BY DEF ProxyInv, Typed
  <2>. HIDE DEF killed
  <2>. QED  BY <2>1, <2>2, <2>3
<1>2. Typed /\ IssuedOnly /\ Held /\ (clash \/ Calm)
  BY DEF ProxyInv
<1>3. /\ pc'[p] = "exited" /\ \A q \in Processes \ {p} : pc'[q] = pc[q]
      /\ Requests \subseteq Processes
  BY <1>0, <1>2 DEF Typed, Processes
<1>4. Typed'
  <2>1. pc' \in [Processes -> Places]
    BY <1>0, <1>2 DEF Typed, Places
  <2>. QED  BY <1>0, <1>1, <1>2, <2>1 DEF Typed
<1>5. IssuedOnly'
  BY <1>0, <1>2, <1>3 DEF IssuedOnly, Refreshing
<1>6. Held'
  BY <1>0, <1>2, <1>3 DEF Held, File
<1>7. (clash \/ Calm)'
  <2>. SUFFICES ASSUME ~clash' PROVE Calm'
    OBVIOUS
  <2>1. Calm /\ pc[p] # "write"
    BY <1>1, <1>2
  <2>2. \A q \in Processes : /\ Refreshing(q)' => Refreshing(q)
                             /\ pc'[q] = "write" <=> pc[q] = "write"
                             /\ pc[q] = "truncate" => pc'[q] \in {"truncate", "exited"}
                             /\ pc[q] = "exited" => pc'[q] = "exited"
    BY <1>3, <2>1 DEF Refreshing
  <2>3. Alone' /\ Newest'
    BY <1>0, <2>1, <2>2 DEF Calm, Alone, Newest
  <2>4. FileWhole'
    BY <1>0, <2>1, <2>2 DEF Calm, FileWhole, Whole
  <2>5. Fresh'
    BY <1>0, <1>3, <2>1 DEF Calm, Fresh
  <2>. QED  BY <2>3, <2>4, <2>5 DEF Calm
<1>8. \A q \in Requests : (Handling(q) /\ Received(q))'
  BY <1>0, RefreshHandling DEF Places
<1>. QED  BY <1>4, <1>5, <1>6, <1>7, <1>8 DEF ProxyInv

-----------------------------------------------------------------------------
(* The rest of the world, and every step.                                  *)

\* The deadline of a reply passes, or its client goes away.
LEMMA ConnectionInv ==
  ASSUME ProxyInv, NEW r \in Requests, Late(r) \/ Disconnect(r)
  PROVE  ProxyInv'
<1>0. /\ InFlight(r)
      /\ UNCHANGED <<server, file, db, issued, expired, clash, pc, token, fetched, kind, attempt,
                     answer, sent>>
      /\ \/ conn[r] = "open" /\ conn' = [conn EXCEPT ![r] = "late"]
         \/ conn' = [conn EXCEPT ![r] = "broken"]
  BY DEF Late, Disconnect, shared, calls
<1>1. Typed /\ IssuedOnly /\ Handling(r) /\ Received(r)
  BY DEF ProxyInv
<1>2. /\ conn' \in [Requests -> {"open", "late", "broken"}]
      /\ conn[r] = "broken" => conn'[r] = "broken"
      /\ \A q \in Requests \ {r} : conn'[q] = conn[q]
  BY <1>0, <1>1 DEF Typed
<1>3. Typed'
  BY <1>0, <1>1, <1>2 DEF Typed
<1>4. IssuedOnly'
  BY <1>0, <1>1 DEF IssuedOnly, Refreshing
<1>5. ASSUME NEW q \in Requests PROVE (Handling(q) /\ Received(q))'
  <2>1. CASE q = r
    <3>1. Handling(r)'
      BY <1>0, <1>1 DEF Handling
    <3>2. Received(r)'
      BY <1>0, <1>1, <1>2 DEF Received, InFlight
    <3>. QED  BY <2>1, <3>1, <3>2
  <2>2. CASE q # r
    BY <1>0, <1>2, <2>2, SameRequest DEF ProxyInv
  <2>. QED  BY <2>1, <2>2
<1>6. issued <= issued' /\ (clash => clash')
  <2>1. issued \in Nat
    BY <1>1, TokenFacts DEF Typed
  <2>. QED  BY <1>0, <2>1
<1>. QED  BY <1>0, <1>3, <1>4, <1>5, <1>6, WorldStep

\* Kiro issues and expires tokens, its user logs out, and the server is stopped.
LEMMA OutsideInv ==
  ASSUME ProxyInv, Issue \/ LogOut \/ Expire \/ Signal \/ GraceEnds \/ Terminate
  PROVE  ProxyInv'
<1>0. /\ UNCHANGED <<file, pc, token, fetched, kind, attempt, answer, conn, sent>>
      /\ \/ issued < Len(TokenLen) /\ issued' = issued + 1 /\ db' = issued + 1
            /\ UNCHANGED <<server, expired, clash>>
         \/ db' = NoToken /\ UNCHANGED <<server, issued, expired, clash>>
         \/ expired < issued /\ expired' = expired + 1 /\ UNCHANGED <<server, issued, db, clash>>
         \/ server' \in {"stopping", "overdue"} /\ UNCHANGED <<issued, db, expired, clash>>
         \/ /\ server' = "down" /\ clash' = (clash \/ \E r \in Requests : pc[r] = "write")
            /\ UNCHANGED <<issued, db, expired>>
  BY DEF Issue, LogOut, Expire, Signal, GraceEnds, Terminate, calls, client
<1>1. Typed /\ IssuedOnly
  BY DEF ProxyInv
<1>2. issued \in 1..Len(TokenLen) /\ Len(TokenLen) \in Nat /\ Tokens = 1..Len(TokenLen)
  BY <1>1, TokenFacts DEF Typed
<1>3. issued <= issued' /\ issued' \in Tokens /\ (clash => clash') /\ clash' \in BOOLEAN
  <2>1. issued <= issued' /\ issued' \in 1..Len(TokenLen)
    BY <1>0, <1>2
  <2>2. (clash => clash') /\ clash' \in BOOLEAN
    BY <1>0, <1>1 DEF Typed
  <2>. QED  BY <1>2, <2>1, <2>2
<1>4. db' \in Tokens \cup {NoToken} /\ (db' # NoToken => db' = issued')
  BY <1>0, <1>1, <1>2 DEF Typed, IssuedOnly, NoToken
<1>5. expired' \in 0..issued'
  <2>1. expired \in 0..issued
    BY <1>1 DEF Typed
  <2>. QED  BY <1>0, <1>2, <2>1
<1>6. server' \in {"up", "stopping", "overdue", "down"}
  BY <1>0, <1>1 DEF Typed
<1>7. Typed'
  BY <1>0, <1>1, <1>3, <1>4, <1>5, <1>6 DEF Typed
<1>8. IssuedOnly'
  <2>1. file.tok \in Nat /\ \A p \in Processes : fetched[p] \in Nat
    BY <1>1, <1>2 DEF Typed, Content, NoToken
  <2>2. issued \in Nat /\ issued' \in Nat
    BY <1>2, <1>3
  <2>3. file'.tok <= issued'
    BY <1>0, <1>1, <1>3, <2>1, <2>2 DEF IssuedOnly
  <2>4. \A p \in Processes : fetched'[p] <= issued' /\ (Refreshing(p)' => fetched'[p] # NoToken)
    BY <1>0, <1>1, <1>3, <2>1, <2>2 DEF IssuedOnly, Refreshing
  <2>. QED  BY <1>4, <2>3, <2>4 DEF IssuedOnly
<1>9. ASSUME NEW q \in Requests PROVE (Handling(q) /\ Received(q))'
  BY <1>0, SameRequest DEF ProxyInv
<1>. QED  BY <1>0, <1>3, <1>7, <1>8, <1>9, WorldStep

\* At first the file holds Kiro's token.
LEMMA InitInv == Init => ProxyInv
<1>. SUFFICES ASSUME Init PROVE ProxyInv
  OBVIOUS
<1>0. 1 \in Tokens
  BY TokenFacts
<1>1. File(1) \in Content /\ Whole(File(1)) /\ File(1).tok = 1 /\ Empty \in Content
  BY <1>0, TokenFacts DEF File, Content, Whole, NoToken, Empty
<1>2. Typed
  <2>1. pc \in [Processes -> Places] /\ sent \in [Requests -> Seq(Items)]
    BY DEF Init, Places
  <2>2. token \in [Requests -> Content] /\ fetched \in [Processes -> Tokens \cup {NoToken}]
    BY <1>1 DEF Init
  <2>3. attempt \in [Requests -> 0..(maxRetries - 1)] /\ expired \in 0..issued
    BY DEF Init, maxRetries
  <2>. QED  BY <1>0, <1>1, <2>1, <2>2, <2>3 DEF Init, Typed
<1>3. IssuedOnly /\ Held
  BY <1>1 DEF Init, IssuedOnly, Held, Refreshing, NoToken, Processes
<1>4. Calm
  BY <1>1 DEF Init, Calm, Alone, Newest, FileWhole, Fresh, Refreshing, NoToken, Processes
<1>5. ASSUME NEW r \in Requests PROVE Handling(r) /\ Received(r)
  BY DEF Init, Handling, Received, Processes
<1>. QED  BY <1>2, <1>3, <1>4, <1>5 DEF ProxyInv

\* A step of RefreshToken.
LEMMA RefreshInv ==
  ASSUME ProxyInv, NEW p \in Processes, Refresh(p)
  PROVE  ProxyInv'
BY ReadDatabaseInv, TruncateInv, WriteInv, ExitInv DEF Refresh

\* A step of a handler.
LEMMA HandleInv ==
  ASSUME ProxyInv, NEW r \in Requests, Handle(r)
  PROVE  ProxyInv'
<1>1. CASE ReadToken(r) \/ ReadTokenAgain(r) \/ ReadBody(r)
  BY <1>1, ReadTokenInv, ReadTokenAgainInv, ReadBodyInv
<1>2. CASE StreamAccepted(r) \/ RetryImproper(r) \/ RefreshForbidden(r) \/ StreamRefused(r)
  BY <1>2, StreamAcceptedInv, RetryImproperInv, RefreshForbiddenInv, StreamRefusedInv
<1>3. CASE StartStream(r) \/ SendEvents(r) \/ EndStream(r) \/ SingleAnswered(r) \/ GiveUp(r)
  BY <1>3, StartStreamInv, SendEventsInv, EndStreamInv, SingleAnsweredInv, GiveUpInv
<1>4. CASE Refresh(r)
  BY <1>4, RefreshInv DEF Processes
<1>. QED  BY <1>1, <1>2, <1>3, <1>4 DEF Handle

\* Every step of the requests, the refreshes and the world.
LEMMA NextInv == ProxyInv /\ [Next]_vars => ProxyInv'
<1>. SUFFICES ASSUME ProxyInv, [Next]_vars PROVE ProxyInv'
  OBVIOUS
<1>1. ASSUME NEW r \in Requests, Receive(r) \/ Handle(r) \/ Late(r) \/ Disconnect(r)
      PROVE  ProxyInv'
  BY <1>1, ReceiveInv, HandleInv, ConnectionInv
<1>2. ASSUME NEW p \in Refreshers, StartRefresh(p) \/ Refresh(p) PROVE ProxyInv'
  BY <1>2, StartRefreshInv, RefreshInv DEF Processes
<1>3. CASE Issue \/ LogOut \/ Expire \/ Signal \/ GraceEnds \/ Terminate
  BY <1>3, OutsideInv
<1>4. CASE UNCHANGED vars
  <2>1. UNCHANGED <<server, file, db, issued, expired, clash, pc, token, fetched, kind, attempt,
                    answer, conn, sent>>
    BY <1>4 DEF vars, shared, calls, client
  <2>2. Typed' /\ IssuedOnly' /\ issued <= issued'
    BY <2>1, TokenFacts DEF ProxyInv, Typed, IssuedOnly, Refreshing
  <2>3. ASSUME NEW q \in Requests PROVE (Handling(q) /\ Received(q))'
    BY <2>1, SameRequest DEF ProxyInv
  <2>. QED  BY <2>1, <2>2, <2>3, WorldStep
<1>. QED  BY <1>1, <1>2, <1>3, <1>4 DEF Next

-----------------------------------------------------------------------------
(* The theorems.                                                           *)

\* The inductive invariant holds in every reachable state of the server.
THEOREM Inductive == Spec => []ProxyInv
<1>. QED  BY InitInv, NextInv, PTL DEF Spec

\* The types of the server, its requests and refreshes; no loop counter exceeds the three
\* attempts, and what a client has is the start of a reply.
THEOREM TypeCorrect == Spec => []TypeOK
<1>1. ProxyInv => TypeOK
  <2>. SUFFICES ASSUME ProxyInv, NEW r \in Requests
                PROVE  \E full \in Replies : IsPrefix(sent[r], full)
    BY DEF ProxyInv, TypeOK
  <2>1. sent[r] \in Replies \cup Started \cup {<<>>}
    BY DEF ProxyInv, Received
  <2>. QED  BY <2>1, ReplyStarts
<1>. QED  BY <1>1, Inductive, PTL

\* Whatever others do to the file meanwhile, a request goes to the upstream with a whole
\* token that Kiro issued.
THEOREM WholeTokensAlways == Spec => []WholeTokens
<1>1. ProxyInv => WholeTokens
  BY DEF ProxyInv, Held, WholeTokens
<1>. QED  BY <1>1, Inductive, PTL

\* A request that was refreshed is retried with a token at least as new as the one its
\* refresh read, unless refreshes overlapped or one was cut short.
THEOREM FreshAfterRefreshAlways == Spec => []FreshAfterRefresh
<1>1. ProxyInv => FreshAfterRefresh
  BY DEF ProxyInv, Calm, Fresh, FreshAfterRefresh
<1>. QED  BY <1>1, Inductive, PTL

\* The file is readable when nobody writes it, with the same exception.
THEOREM FileReadableAlways == Spec => []FileReadable
<1>1. ProxyInv => FileReadable
  BY DEF ProxyInv, Calm, FileWhole, FileReadable
<1>. QED  BY <1>1, Inductive, PTL

\* For any requests, retries and refreshes: a client gets one whole reply unless its
\* connection fails, none of it while an attempt may follow, a stream or a message with
\* content only of an answer with status 200, and an empty message only of a refusal.
THEOREM HonestReplyAlways == Spec => []HonestReply
<1>1. ProxyInv => HonestReply
  <2>. SUFFICES ASSUME ProxyInv, NEW r \in Requests
                PROVE  /\ pc[r] = "done" /\ conn[r] # "broken" => sent[r] \in Replies
                       /\ sent[r] # <<>> => pc[r] \in {"streaming", "done"}
                       /\ ToSet(sent[r]) \cap {"message_start", "message"} # {} =>
                            answer[r] = "ok"
                       /\ "empty_message" \in ToSet(sent[r]) =>
                            answer[r] \in {"improper", "forbidden", "other"}
    BY DEF HonestReply
  <2>1. Handling(r) /\ Received(r)
    BY DEF ProxyInv
  <2>2. /\ sent[r] \in Replies \cup Started \cup {<<>>}
        /\ pc[r] = "done" /\ conn[r] # "broken" => sent[r] \in Replies
        /\ sent[r] # <<>> => pc[r] \in {"streaming", "done"}
    BY <2>1 DEF Received
  <2>3. CASE sent[r] = <<>>
    <3>1. ToSet(sent[r]) = {}
      BY <2>3, ItemSets
    <3>. QED  BY <2>2, <3>1
  <2>4. CASE sent[r] \in Started \cup Streamed
    <3>1. sent[r] # <<>>
      BY <2>4, StreamReplies
    <3>2. answer[r] = "ok"
      BY <2>1, <2>2, <2>4, <3>1 DEF Handling, Received
    <3>3. "empty_message" \notin ToSet(sent[r])
      BY <2>4, ItemSets DEF Started, Streamed
    <3>. QED  BY <2>2, <3>2, <3>3
  <2>5. CASE \E item \in {"http_error", "message", "empty_message", "error"} : sent[r] = <<item>>
    <3>1. PICK item \in {"http_error", "message", "empty_message", "error"} : sent[r] = <<item>>
      BY <2>5
    <3>2. ToSet(sent[r]) = {item}
      BY <3>1, ItemSets
    <3>3. pc[r] = "done"
      <4>1. sent[r] # <<>> /\ sent[r] \notin Started
        BY <3>1, StreamReplies
      <4>. QED  BY <2>1, <2>2, <4>1 DEF Received
    <3>4. /\ item = "message" => answer[r] = "ok"
          /\ item = "empty_message" => answer[r] \in {"improper", "forbidden", "other"}
      BY <2>1, <3>1, <3>3 DEF Received
    <3>. QED  BY <2>2, <3>2, <3>4
  <2>. QED  BY <2>2, <2>3, <2>4, <2>5 DEF Replies, Started, Streamed
<1>. QED  BY <1>1, Inductive, PTL
=============================================================================
