------------------------------- MODULE Proxy -------------------------------
(***************************************************************************)
(* internal/proxy/server.go and internal/token/token.go: the handling of   *)
(* POST /v1/messages, from the token file to the last byte of the reply.   *)
(*                                                                         *)
(* Every request runs in a goroutine of its own.  They share the token     *)
(* file, which a streaming request rewrites when the upstream answers 403  *)
(* and which `openkiro refresh`, another process, rewrites too; nothing    *)
(* locks it.  os.WriteFile truncates the file before it writes, so a       *)
(* reader may find it empty, and two writers may leave the end of a longer *)
(* token behind a shorter one.  RefreshToken ends the process when it      *)
(* fails, and a signal ends it while requests are served.                  *)
(*                                                                         *)
(* The upstream service, Kiro's database and the clients are external.     *)
(* What ParseEventStream sends is modelled in EventStream; here it is a    *)
(* single item, "events".  The payload of the request is modelled in       *)
(* Payload.                                                                *)
(***************************************************************************)
EXTENDS Integers, SequencesExt

CONSTANTS Requests,    \* requests, each one client's
          Refreshers,  \* runs of `openkiro refresh`
          TokenLen     \* length of the file that holds Kiro's i-th token

ASSUME ProxyAssumption ==
  /\ Requests \cap Refreshers = {}
  /\ TokenLen \in Seq(Nat \ {0}) /\ TokenLen # <<>>

VARIABLES server,   \* "up", "stopping" (the listener is closed), "overdue" (10s later)
                    \* or "down"
          file,     \* the token file
          db,       \* the token in Kiro's database, 0 when logged out
          issued,   \* the newest token Kiro issued
          expired,  \* the upstream refuses the tokens up to this one
          pc,       \* where each request and each refresher is
          token,    \* what each request read from the file
          fetched,  \* the token a process read from the database, 0 if it did not
          kind,     \* what a request turned out to be: "unread", "stream" or "single"
          attempt,  \* the loop variable of HandleStreamRequest
          answer,   \* the upstream's last answer to a request
          conn,     \* the connection to the client: "open", "late" or "broken"
          sent,     \* what the client received
          clash     \* history: two writes of the file overlapped, or one was cut short

shared == <<server, file, db, issued, expired, clash>>
calls  == <<token, fetched, kind, attempt, answer>>
client == <<conn, sent>>
vars   == <<shared, pc, calls, client>>

Processes  == Requests \cup Refreshers
maxRetries == 3
NoToken    == 0
Tokens     == DOMAIN TokenLen

-----------------------------------------------------------------------------
(* The token file: the token its first bytes are of, and how long it is.   *)

Content == [tok : Tokens \cup {NoToken}, len : Nat]

Empty == [tok |-> NoToken, len |-> 0]

File(t) == [tok |-> t, len |-> TokenLen[t]]

\* mutant: the length is not looked at, as if a partial token parsed.
WholeAnyLength(c) == c.tok # NoToken

\* json.Unmarshal accepts a whole token and nothing else.
Whole(c) == c.tok # NoToken /\ c.len = TokenLen[c.tok]

\* mutant: the file is not opened with O_TRUNC.
KeepContent(c) == c

Truncated(c) == Empty

\* Writing at the start of the file leaves the end of what is longer.
Written(c, t) == [tok |-> t, len |-> IF c.len > TokenLen[t] THEN c.len ELSE TokenLen[t]]

\* Between reading the database and having written the file.
Refreshing(p) == pc[p] \in {"truncate", "write"}

Alive(p) == p \in Refreshers \/ server # "down"

InFlight(r) == pc[r] \notin {"new", "done"}

-----------------------------------------------------------------------------
(* Replies.  The server's WriteTimeout is a deadline for each reply; once  *)
(* it has passed the next write fails, and so does every write after it.   *)

Send(r, items) ==
  /\ sent' = [sent EXCEPT ![r] = IF conn[r] = "open" THEN @ \o items ELSE @]
  /\ conn' = [conn EXCEPT ![r] = IF @ = "late" THEN "broken" ELSE @]

Finish(r, items) ==
  /\ Send(r, items)
  /\ pc' = [pc EXCEPT ![r] = "done"]

\* SetWriteDeadline, then a write.
SendInTime(r, items) ==
  /\ conn' = [conn EXCEPT ![r] = IF @ = "late" THEN "open" ELSE @]
  /\ sent' = [sent EXCEPT ![r] = IF conn[r] # "broken" THEN @ \o items ELSE @]

\* sendErrorEvent, or http.Error where nothing is streamed.
ErrorReply(r) == <<IF kind[r] = "stream" THEN "error" ELSE "http_error">>

Late(r) ==
  /\ Alive(r) /\ InFlight(r) /\ conn[r] = "open"
  /\ conn' = [conn EXCEPT ![r] = "late"]
  /\ UNCHANGED <<shared, pc, calls, sent>>

Disconnect(r) ==
  /\ Alive(r) /\ InFlight(r) /\ conn[r] # "broken"
  /\ conn' = [conn EXCEPT ![r] = "broken"]
  /\ UNCHANGED <<shared, pc, calls, sent>>

-----------------------------------------------------------------------------
(* GetToken, called for every request and after every refresh.             *)

\* mutant: the loop variable is not advanced.
SameAttempt(r) == attempt[r]

NextAttempt(r) == attempt[r] + 1

\* After an attempt: the next one, or the end of the loop.
Goto(n) == IF n < maxRetries THEN "send" ELSE "answered"

\* mutant: the handler keeps the accessToken it was called with.
KeepFirstToken(r) ==
  /\ token' = [token EXCEPT ![r] = IF kind[r] = "stream" THEN @ ELSE file]
  /\ IF kind[r] = "stream"
     THEN /\ attempt' = [attempt EXCEPT ![r] = NextAttempt(r)]
          /\ pc' = [pc EXCEPT ![r] = Goto(NextAttempt(r))]
     ELSE pc' = [pc EXCEPT ![r] = "body"] /\ UNCHANGED attempt

GotToken(r) ==
  /\ token' = [token EXCEPT ![r] = file]
  /\ IF kind[r] = "stream"
     THEN /\ attempt' = [attempt EXCEPT ![r] = NextAttempt(r)]
          /\ pc' = [pc EXCEPT ![r] = Goto(NextAttempt(r))]
     ELSE pc' = [pc EXCEPT ![r] = "body"] /\ UNCHANGED attempt

ReadToken(r) ==
  /\ Alive(r) /\ pc[r] = "getToken"
  /\ \/ Whole(file) /\ GotToken(r)
     \/ /\ ~Whole(file)
        /\ pc' = [pc EXCEPT ![r] = "getTokenAgain"]
        /\ UNCHANGED <<token, attempt>>
  /\ UNCHANGED <<shared, fetched, kind, answer, client>>

\* The one retry, 100ms later.
ReadTokenAgain(r) ==
  /\ Alive(r) /\ pc[r] = "getTokenAgain"
  /\ \/ Whole(file) /\ GotToken(r) /\ UNCHANGED client
     \/ /\ ~Whole(file)
        /\ Finish(r, ErrorReply(r))
        /\ UNCHANGED <<token, attempt>>
  /\ UNCHANGED <<shared, fetched, kind, answer>>

-----------------------------------------------------------------------------
(* RefreshToken, in a request or in `openkiro refresh`.                    *)

\* os.Exit(1), when sqlite3 is missing, Kiro is logged out or the file cannot be
\* written.  A request takes the whole server with it.
Exit(p) ==
  /\ Alive(p) /\ pc[p] \in {"readDb", "truncate", "write"}
  /\ LET killed == IF p \in Requests THEN Requests ELSE {p}
     IN  clash' = (clash \/ \E q \in killed : pc[q] = "write")
  /\ server' = IF p \in Requests THEN "down" ELSE server
  /\ pc' = [pc EXCEPT ![p] = "exited"]
  /\ UNCHANGED <<file, db, issued, expired, calls, client>>

StartRefresh(p) ==
  /\ p \in Refreshers /\ pc[p] = "new"
  /\ pc' = [pc EXCEPT ![p] = "readDb"]
  /\ UNCHANGED <<shared, calls, client>>

ReadDatabase(p) ==
  /\ Alive(p) /\ pc[p] = "readDb" /\ db # NoToken
  /\ fetched' = [fetched EXCEPT ![p] = db]
  /\ clash' = (clash \/ \E q \in Processes \ {p} : Refreshing(q))
  /\ pc' = [pc EXCEPT ![p] = "truncate"]
  /\ UNCHANGED <<server, file, db, issued, expired, token, kind, attempt, answer, client>>

Truncate(p) ==
  /\ Alive(p) /\ pc[p] = "truncate"
  /\ file' = Truncated(file)
  /\ pc' = [pc EXCEPT ![p] = "write"]
  /\ UNCHANGED <<server, db, issued, expired, clash, calls, client>>

Write(p) ==
  /\ Alive(p) /\ pc[p] = "write"
  /\ file' = Written(file, fetched[p])
  /\ pc' = [pc EXCEPT ![p] = IF p \in Requests THEN "getToken" ELSE "done"]
  /\ UNCHANGED <<server, db, issued, expired, clash, calls, client>>

-----------------------------------------------------------------------------
(* The handler.                                                            *)

Receive(r) ==
  /\ server = "up" /\ pc[r] = "new"
  /\ pc' = [pc EXCEPT ![r] = "getToken"]
  /\ UNCHANGED <<shared, calls, client>>

\* The body is too large, not JSON or lacks a field, or it is passed on.  A failing
\* middleware does not change where the request goes.
ReadBody(r) ==
  /\ Alive(r) /\ pc[r] = "body"
  /\ \/ Finish(r, <<"http_error">>) /\ UNCHANGED kind
     \/ /\ \E k \in {"stream", "single"} : kind' = [kind EXCEPT ![r] = k]
        /\ pc' = [pc EXCEPT ![r] = "send"]
        /\ UNCHANGED client
  /\ UNCHANGED <<shared, token, fetched, attempt, answer>>

\* "failed" is client.Do's error: no connection, or the client went away.
Answers(r) ==
  IF token[r].tok <= expired THEN {"forbidden", "failed"}
  ELSE {"ok", "improper", "other", "failed"}

Answer(r, a) ==
  /\ Alive(r) /\ pc[r] = "send"
  /\ answer' = [answer EXCEPT ![r] = a]
  /\ UNCHANGED <<shared, token, fetched, kind>>

\* mutant: the last attempt may be retried too.
MayRetryLast(r) == attempt[r] < maxRetries

MayRetry(r) == attempt[r] < maxRetries - 1

StreamAccepted(r) ==
  /\ kind[r] = "stream"
  /\ "ok" \in Answers(r) /\ Answer(r, "ok")
  /\ pc' = [pc EXCEPT ![r] = "answered"]
  /\ UNCHANGED <<attempt, client>>

RetryImproper(r) ==
  /\ kind[r] = "stream" /\ MayRetry(r)
  /\ "improper" \in Answers(r) /\ Answer(r, "improper")
  /\ attempt' = [attempt EXCEPT ![r] = NextAttempt(r)]
  /\ pc' = [pc EXCEPT ![r] = Goto(NextAttempt(r))]
  /\ UNCHANGED client

RefreshForbidden(r) ==
  /\ kind[r] = "stream" /\ MayRetry(r)
  /\ "forbidden" \in Answers(r) /\ Answer(r, "forbidden")
  /\ pc' = [pc EXCEPT ![r] = "readDb"]
  /\ UNCHANGED <<attempt, client>>

StreamRefused(r) ==
  /\ kind[r] = "stream"
  /\ \E a \in Answers(r) \ {"ok"} :
       /\ a \in {"improper", "forbidden"} => ~MayRetry(r)
       /\ Answer(r, a)
  /\ Finish(r, <<"error">>)
  /\ UNCHANGED attempt

StartStream(r) ==
  /\ Alive(r) /\ pc[r] = "answered"
  /\ Send(r, <<"message_start", "ping">>)
  /\ pc' = [pc EXCEPT ![r] = "streaming"]
  /\ UNCHANGED <<shared, calls>>

\* Events of ParseEventStream: "events" stands for one or more.
SendEvents(r) ==
  /\ Alive(r) /\ pc[r] = "streaming"
  /\ SendInTime(r, IF "events" \in ToSet(sent[r]) THEN <<>> ELSE <<"events">>)
  /\ UNCHANGED <<shared, pc, calls>>

\* The upstream's response ends or breaks off; the parser cannot tell.
EndStream(r) ==
  /\ Alive(r) /\ pc[r] = "streaming"
  /\ SendInTime(r, <<"message_stop">>)
  /\ pc' = [pc EXCEPT ![r] = "done"]
  /\ UNCHANGED <<shared, calls>>

\* No request to the upstream can be made, or the handler panics and recovers.
GiveUp(r) ==
  /\ Alive(r) /\ pc[r] \in {"send", "answered", "streaming"}
  /\ Finish(r, ErrorReply(r))
  /\ UNCHANGED <<shared, calls>>

\* HandleNonStreamRequest looks at the body of the answer, never at its status: any body
\* may have "Improperly formed request." in it or may fail to be read.
SingleReplies(a) ==
  {"http_error"} \cup (IF a = "failed" THEN {}
                      ELSE IF a = "ok" THEN {"message"} ELSE {"empty_message"})

SingleAnswered(r) ==
  /\ kind[r] = "single"
  /\ \E a \in Answers(r) :
       /\ Answer(r, a)
       /\ \E reply \in SingleReplies(a) : Finish(r, <<reply>>)
  /\ UNCHANGED attempt

-----------------------------------------------------------------------------
(* The rest of the world.                                                  *)

\* Kiro logs in or renews its token.
Issue ==
  /\ issued < Len(TokenLen)
  /\ issued' = issued + 1 /\ db' = issued + 1
  /\ UNCHANGED <<server, file, expired, clash, pc, calls, client>>

LogOut ==
  /\ db # NoToken
  /\ db' = NoToken
  /\ UNCHANGED <<server, file, issued, expired, clash, pc, calls, client>>

Expire ==
  /\ expired < issued
  /\ expired' = expired + 1
  /\ UNCHANGED <<server, file, db, issued, clash, pc, calls, client>>

\* SIGTERM: Shutdown closes the listener, ListenAndServe returns and so does main,
\* which nothing keeps waiting for Shutdown.
Signal ==
  /\ server = "up"
  /\ server' = "stopping"
  /\ UNCHANGED <<file, db, issued, expired, clash, pc, calls, client>>

\* The 10 seconds that Shutdown waits for requests are over.
GraceEnds ==
  /\ server = "stopping"
  /\ server' = "overdue"
  /\ UNCHANGED <<file, db, issued, expired, clash, pc, calls, client>>

Terminate ==
  /\ server \in {"stopping", "overdue"}
  /\ server' = "down"
  /\ clash' = (clash \/ \E r \in Requests : pc[r] = "write")
  /\ UNCHANGED <<file, db, issued, expired, pc, calls, client>>

-----------------------------------------------------------------------------

Init ==
  /\ server = "up"
  /\ file = File(1)
  /\ db = 1 /\ issued = 1 /\ expired = 0
  /\ clash = FALSE
  /\ pc = [p \in Processes |-> "new"]
  /\ token = [r \in Requests |-> Empty]
  /\ fetched = [p \in Processes |-> NoToken]
  /\ kind = [r \in Requests |-> "unread"]
  /\ attempt = [r \in Requests |-> 0]
  /\ answer = [r \in Requests |-> "none"]
  /\ conn = [r \in Requests |-> "open"]
  /\ sent = [r \in Requests |-> <<>>]

Refresh(p) == ReadDatabase(p) \/ Truncate(p) \/ Write(p) \/ Exit(p)

Handle(r) ==
  \/ ReadToken(r) \/ ReadTokenAgain(r) \/ ReadBody(r)
  \/ StreamAccepted(r) \/ RetryImproper(r) \/ RefreshForbidden(r) \/ StreamRefused(r)
  \/ StartStream(r) \/ SendEvents(r) \/ EndStream(r) \/ SingleAnswered(r) \/ GiveUp(r)
  \/ Refresh(r)

Next ==
  \/ \E r \in Requests : Receive(r) \/ Handle(r) \/ Late(r) \/ Disconnect(r)
  \/ \E p \in Refreshers : StartRefresh(p) \/ Refresh(p)
  \/ Issue \/ LogOut \/ Expire \/ Signal \/ GraceEnds \/ Terminate

Spec == Init /\ [][Next]_vars

\* Goroutines are scheduled, and the upstream answers and ends its response: nothing
\* else bounds a stream, GetStreamingUpstreamClient has no timeout.
Fairness == \A r \in Requests : WF_vars(Handle(r)) /\ WF_vars(EndStream(r))

FairSpec == Spec /\ Fairness

-----------------------------------------------------------------------------

\* What a client may have received when the handler is done with it.
Replies == {<<"http_error">>, <<"message">>, <<"empty_message">>, <<"error">>,
            <<"message_start", "ping", "message_stop">>,
            <<"message_start", "ping", "events", "message_stop">>,
            <<"message_start", "ping", "error">>,
            <<"message_start", "ping", "events", "error">>}

Places == {"new", "getToken", "getTokenAgain", "body", "send", "readDb", "truncate", "write",
           "answered", "streaming", "done", "exited"}

Items == {"http_error", "message", "empty_message", "error", "message_start", "ping",
          "events", "message_stop"}

Typed ==
  /\ server \in {"up", "stopping", "overdue", "down"}
  /\ file \in Content
  /\ db \in Tokens \cup {NoToken} /\ issued \in Tokens /\ expired \in 0..issued
  /\ clash \in BOOLEAN
  /\ pc \in [Processes -> Places]
  /\ token \in [Requests -> Content]
  /\ fetched \in [Processes -> Tokens \cup {NoToken}]
  /\ kind \in [Requests -> {"unread", "stream", "single"}]
  /\ attempt \in [Requests -> 0..(maxRetries - 1)]
  /\ answer \in [Requests -> {"none", "ok", "improper", "forbidden", "other", "failed"}]
  /\ conn \in [Requests -> {"open", "late", "broken"}]
  /\ sent \in [Requests -> Seq(Items)]

TypeOK ==
  /\ Typed
  /\ \A r \in Requests : \E full \in Replies : IsPrefix(sent[r], full)

\* A client that stays and is served in time gets one whole reply, and none of it before
\* the last attempt is made, whatever retries and refreshes went before.  A stream is
\* opened, and a message put together, only of an answer with status 200; an error may
\* end a reply at any point.  A request that does not stream and is refused, with a 403
\* too, may get an empty message with status 200 instead of an error.
HonestReply ==
  \A r \in Requests :
    /\ pc[r] = "done" /\ conn[r] # "broken" => sent[r] \in Replies
    /\ sent[r] # <<>> => pc[r] \in {"streaming", "done"}
    /\ ToSet(sent[r]) \cap {"message_start", "message"} # {} => answer[r] = "ok"
    /\ "empty_message" \in ToSet(sent[r]) => answer[r] \in {"improper", "forbidden", "other"}

\* No request reaches the upstream with part of a token or a mixture of two,
\* although the file is read while others truncate and write it.
WholeTokens ==
  \A r \in Requests : pc[r] = "send" => token[r] \in {File(t) : t \in 1..issued}

\* A request retried after a 403 carries a token at least as new as the one its
\* refresh read from the database, unless two refreshes overlapped.
FreshAfterRefresh ==
  \A r \in Requests :
    pc[r] = "send" /\ ~clash => token[r].tok >= fetched[r]

\* The token file is unreadable only while a refresh writes it, or after two
\* refreshes overlapped or one died.
FileReadable == Whole(file) \/ clash \/ \E p \in Processes : pc[p] = "write"

\* Every request ends with a reply unless the process ends before: attempts are
\* bounded and no refresh waits for another one.
Answered ==
  \A r \in Requests : pc[r] = "getToken" ~> (pc[r] = "done" \/ server = "down")

\* "in-flight streaming request completes before exit (up to 10s)"
\* (task-breakdown.md:376).  main returns as soon as Shutdown closes the listener.
ShutdownDrains ==
  [][server = "stopping" /\ server' = "down" => \A r \in Requests : ~InFlight(r)]_server
=============================================================================
