-------------------------------- MODULE Chat ---------------------------------
(***************************************************************************)
(* The employee chat: the browser side (hooks/useWebSocket.ts and the      *)
(* components that call it) against the connection handler of the server   *)
(* (chat_handler.py).  Every await of sendMessage and every callback of a  *)
(* socket is a step of its own, so a send may be overtaken by a close      *)
(* event, a timer, another send or a change of session.                    *)
(***************************************************************************)
EXTENDS ChatStore

CONSTANTS Gestures,       \* the gestures the employee makes
          Outcomes,       \* how the server may end the retrieval of a turn
          NumTokens,      \* tokens of one generated answer
          MaxEvents       \* screenshots, session changes, lost connections and handlers
                          \* that fail, together

ASSUME ChatEnvironment ==
  /\ Gestures \subseteq {"compose", "retry", "related", "attach", "new", "open"}
  /\ Outcomes \subseteq {"answer", "insufficient", "cached"}
  /\ NumTokens \in Nat \ {0} /\ MaxEvents \in Nat

VARIABLES sends,        \* the calls of sendMessage, one per turn
          sockets,      \* the WebSocket objects of the tab, with both queues
          servers,      \* the handler of each connection
          events,       \* how many of the MaxEvents have happened
          undisturbed   \* no turn was cut by a session change, a parallel send, a lost
                        \* connection, a close event or the failure of its handler, and
                        \* no token came before its relay

vars == <<messages, streaming, session, current, shot, sends, sockets, servers, events, undisturbed>>

SendPc == {"unsent", "upload", "token", "connecting", "sent", "failed"}
SocketState == {"unborn", "connecting", "open", "closing", "closed"}
ServerPc == {"off", "auth", "idle", "retrieving", "generating", "relaying", "validating"}

Clean == 1000
AuthFailure == 4001
PongTimeoutCode == 4002
Abnormal == 1006

Frame == [type : {"session_ready", "token", "stream_complete", "validation_result", "error"},
          turn : Turns \cup {0}]

ChatInit ==
  /\ StoreInit
  /\ sends = [t \in Turns |-> [pc |-> "unsent", session |-> NoSession, socket |-> NoSocket]]
  /\ sockets = [k \in Sockets |-> [state |-> "unborn", code |-> 0, session |-> NoSession,
                                   outbox |-> <<>>, inbox |-> <<>>]]
  /\ servers = [k \in Sockets |-> [pc |-> "off", turn |-> 0, left |-> 0, relay |-> FALSE,
                                   cached |-> FALSE]]
  /\ events = 0
  /\ undisturbed = TRUE

IsOpen(k) == k # NoSocket /\ sockets[k].state = "open"
Pending(t) == sends[t].pc \in {"upload", "token", "connecting"}
Working(k) == servers[k].pc \notin {"off", "auth", "idle"} \/ sockets[k].outbox # <<>>

\* A connection whose handler has returned and left it open: nothing answers on it.
Deaf(k) == sockets[k].state = "open" /\ servers[k].pc = "off"

----------------------------------------------------------------------------
(* What the employee does                                                  *)

\* sendMessage up to its first await: message, state, screenshot, captured session.
StartSend(t) ==
  /\ sends[t].pc = "unsent" /\ \A u \in 1 .. (t - 1) : sends[u].pc # "unsent"
  /\ messages' = Append(messages, UserMessage(t))
  /\ streaming' = "thinking"
  /\ shot' = FALSE
  /\ undisturbed' = (undisturbed /\ ~Busy /\ \A u \in Turns : ~Pending(u))
  /\ UNCHANGED <<session, current, events, servers>>
  /\ IF shot
     THEN /\ sends' = [sends EXCEPT ![t] = [@ EXCEPT !.pc = "upload", !.session = session]]
          /\ UNCHANGED sockets
     ELSE IF IsOpen(current)
     THEN /\ sends' = [sends EXCEPT ![t].pc = "sent"]
          /\ sockets' = [sockets EXCEPT ![current].outbox = Append(@, t)]
     ELSE /\ sends' = [sends EXCEPT ![t] = [@ EXCEPT !.pc = "token", !.session = session]]
          /\ UNCHANGED sockets

\* The compose bar sends only when nothing is in progress.
Compose(t) == "compose" \in Gestures /\ ~Busy /\ StartSend(t)

\* The empty chat offers suggestions, whatever the state.
Suggestion(t) == "compose" \in Gestures /\ messages = <<>> /\ StartSend(t)

\* Retry under an interrupted message has no guard on the state.
Retry(t) ==
  /\ "retry" \in Gestures
  /\ \E i \in DOMAIN messages : messages[i].incomplete
  /\ StartSend(t)

\* MessageList gives every bubble but the last answer's the state complete.
BubbleState(i) == IF \E j \in Answers(messages) : j > i THEN "complete" ELSE streaming

\* Under an answer with a badge; the last user message is sent again.
Regenerate(t) ==
  /\ "related" \in Gestures
  /\ \E i \in Answers(messages) :
       messages[i].badge # "unset" /\ BubbleState(i) \in {"idle", "complete", "error"}
  /\ StartSend(t)

RelatedQuestion(t) ==
  /\ "related" \in Gestures
  /\ \E i \in Answers(messages) :
       messages[i].badge = "validated" /\ BubbleState(i) \in {"complete", "error"}
  /\ StartSend(t)

Event == events < MaxEvents /\ events' = events + 1

\* handleScreenshotAccepted, from the file picker or a drop; one image at a time.
Attach ==
  /\ "attach" \in Gestures /\ ~shot /\ Event
  /\ shot' = TRUE
  /\ UNCHANGED <<messages, streaming, session, current, sends, sockets, servers, undisturbed>>

RemoveScreenshot ==
  /\ shot
  /\ shot' = FALSE
  /\ UNCHANGED <<messages, streaming, session, current, sends, sockets, servers, events, undisturbed>>

\* ws.close(): frames that arrive later are ignored, the event comes later.
Closing(k, code) ==
  [sockets EXCEPT ![k] = [@ EXCEPT !.state = "closing", !.code = code, !.inbox = <<>>]]

\* disconnect and resetForNewSession; sends in progress are not cancelled.
NewSession ==
  /\ "new" \in Gestures
  /\ messages # <<>> /\ Event
  /\ sockets' = IF IsOpen(current) THEN Closing(current, Clean) ELSE sockets
  /\ messages' = <<>>
  /\ streaming' = "idle"
  /\ session' = NoSession
  /\ current' = NoSocket
  /\ shot' = FALSE
  /\ undisturbed' = FALSE
  /\ UNCHANGED <<sends, servers>>

\* The page loads a past session; the socket and the state stay as they are.
OpenSession ==
  /\ "open" \in Gestures
  /\ session # Historical /\ Event
  /\ messages' = LoadedMessages
  /\ session' = Historical
  /\ undisturbed' = FALSE
  /\ UNCHANGED <<streaming, current, shot, sends, sockets, servers>>

----------------------------------------------------------------------------
(* sendMessage after each of its awaits                                    *)

\* Mutant: the catch of sendMessage forgets the state.
Mut_Fail(t) ==
  /\ sends' = [sends EXCEPT ![t].pc = "failed"]
  /\ UNCHANGED streaming

Fail(t) ==
  /\ sends' = [sends EXCEPT ![t].pc = "failed"]
  /\ streaming' = "error"

\* Mutant: after the upload the send on the open socket does not end sendMessage.
Mut_Uploaded(t) ==
  /\ sends[t].pc = "upload"
  /\ sends' = [sends EXCEPT ![t].pc = "token"]
  /\ sockets' = IF IsOpen(current)
                THEN [sockets EXCEPT ![current].outbox = Append(@, t)] ELSE sockets
  /\ UNCHANGED <<messages, streaming, session, current, shot, servers, events, undisturbed>>

\* The upload ends; the socket of the store is read only now.
Uploaded(t) ==
  /\ sends[t].pc = "upload"
  /\ IF IsOpen(current)
     THEN /\ sends' = [sends EXCEPT ![t].pc = "sent"]
          /\ sockets' = [sockets EXCEPT ![current].outbox = Append(@, t)]
     ELSE /\ sends' = [sends EXCEPT ![t].pc = "token"]
          /\ UNCHANGED sockets
  /\ UNCHANGED <<messages, streaming, session, current, shot, servers, events, undisturbed>>

\* The upload or the request for a token is refused.
SendRefused(t) ==
  /\ sends[t].pc \in {"upload", "token"}
  /\ Fail(t)
  /\ UNCHANGED <<messages, session, current, shot, sockets, servers, events, undisturbed>>

\* connect creates the socket and puts it in the store at once.
Connect(t) ==
  /\ sends[t].pc = "token"
  /\ \E k \in Sockets :
       /\ sockets[k].state = "unborn" /\ \A j \in 1 .. (k - 1) : sockets[j].state # "unborn"
       /\ sockets' = [sockets EXCEPT ![k] = [@ EXCEPT !.state = "connecting",
                                                      !.session = sends[t].session]]
       /\ sends' = [sends EXCEPT ![t] = [@ EXCEPT !.pc = "connecting", !.socket = k]]
       /\ current' = k
  /\ UNCHANGED <<messages, streaming, session, shot, servers, events, undisturbed>>

\* onopen resolves the promise, and the message is sent in the same turn of the loop.
Opened(t) ==
  /\ sends[t].pc = "connecting"
  /\ LET k == sends[t].socket IN
       /\ sockets[k].state = "connecting"
       /\ sockets' = [sockets EXCEPT ![k] = [@ EXCEPT !.state = "open",
                                                      !.outbox = Append(sockets[k].outbox, t)]]
       /\ servers' = [servers EXCEPT ![k].pc = "auth"]
  /\ sends' = [sends EXCEPT ![t].pc = "sent"]
  /\ UNCHANGED <<storeVars, events, undisturbed>>

\* Eight seconds without onopen: the promise is rejected and the socket closed,
\* whatever has happened to the socket and to the chat in the meantime.
ConnectTimeout(t) ==
  /\ sends[t].pc = "connecting"
  /\ Fail(t)
  /\ sockets' = IF sockets[sends[t].socket].state = "connecting"
                THEN Closing(sends[t].socket, Abnormal) ELSE sockets
  /\ UNCHANGED <<messages, session, current, shot, servers, events, undisturbed>>

----------------------------------------------------------------------------
(* The callbacks of a socket                                               *)

\* Mutant: a dropped connection marks the message but leaves the state.
Mut_OnClose(code) ==
  /\ current' = NoSocket
  /\ IF code = Clean THEN UNCHANGED <<messages, streaming>>
     ELSE IF code = AuthFailure THEN streaming' = "error" /\ UNCHANGED messages
     ELSE /\ messages' = MarkLastMessageIncomplete(messages)
          /\ UNCHANGED streaming

\* onclose: the store forgets its socket, even when it already holds another.
OnClose(code) ==
  /\ current' = NoSocket
  /\ IF code = Clean THEN UNCHANGED <<messages, streaming>>
     ELSE IF code = AuthFailure THEN streaming' = "error" /\ UNCHANGED messages
     ELSE IF Busy
     THEN /\ messages' = MarkLastMessageIncomplete(messages)
          /\ streaming' = "error"
     ELSE UNCHANGED <<messages, streaming>>

\* The event of a connection that was given up may find the turn of another.
CloseEvent(k) ==
  /\ sockets[k].state = "closing"
  /\ sockets' = [sockets EXCEPT ![k].state = "closed"]
  /\ OnClose(sockets[k].code)
  /\ undisturbed' = (undisturbed /\ (Busy => sockets[k].code \in {Clean, AuthFailure}))
  /\ UNCHANGED <<session, shot, sends, servers, events>>

\* The network or the server takes a connection down: state and event together.
ConnectionLost(k) ==
  /\ Event
  /\ sockets[k].state \in {"connecting", "open"}
  /\ sockets' = [sockets EXCEPT ![k] = [@ EXCEPT !.state = "closed", !.inbox = <<>>]]
  /\ OnClose(Abnormal)
  /\ undisturbed' = (undisturbed /\ ~Working(k) /\ ~Busy)
  /\ UNCHANGED <<session, shot, sends, servers>>

\* No pong within ten seconds: the server answers pings only between two turns.
PongTimeout(k) ==
  /\ Event
  /\ sockets[k].state = "open"
  /\ sockets' = Closing(k, PongTimeoutCode)
  /\ undisturbed' = (undisturbed /\ ~Working(k))
  /\ UNCHANGED <<storeVars, sends, servers>>

\* A deaf connection answers no ping.  The timer that runs out is the page's latest, and
\* useWebSocket keeps one for all sockets: it may close another open one first.
PongMissing(k) ==
  /\ \E j \in Sockets : Deaf(j)
  /\ sockets[k].state = "open"
  /\ sockets' = Closing(k, PongTimeoutCode)
  /\ undisturbed' = (undisturbed /\ ~Working(k))
  /\ UNCHANGED <<storeVars, sends, servers, events>>

\* handleIncomingMessage.
ClientReceive(k) ==
  /\ sockets[k].state = "open" /\ sockets[k].inbox # <<>>
  /\ sockets' = [sockets EXCEPT ![k].inbox = Tail(@)]
  /\ LET f == Head(sockets[k].inbox) IN
       \/ /\ f.type = "session_ready"
          /\ session' = sockets[k].session
          /\ UNCHANGED <<messages, streaming>>
       \/ /\ f.type = "token"
          /\ streaming' = "streaming"
          /\ messages' = AppendToken(messages, [turn |-> f.turn, kind |-> "token"])
          /\ UNCHANGED session
       \/ /\ f.type = "stream_complete"
          /\ streaming' = "validating"
          /\ UNCHANGED <<messages, session>>
       \/ /\ f.type = "validation_result"
          /\ messages' = UpdateLastMessageValidation(messages, f.turn)
          /\ streaming' = "complete"
          /\ UNCHANGED session
       \/ /\ f.type = "error"
          /\ messages' = Append(messages, ErrorMessage(f.turn))
          /\ streaming' = "error"
          /\ UNCHANGED session
  /\ UNCHANGED <<current, shot, sends, servers, events, undisturbed>>

----------------------------------------------------------------------------
(* The connection handler of the server                                    *)

\* A frame reaches the tab while its socket is open.
Deliver(socks, k, type, turn) ==
  IF socks[k].state = "open"
  THEN [socks EXCEPT ![k].inbox = Append(@, [type |-> type, turn |-> turn])] ELSE socks

Goto(k, pc) == servers' = [servers EXCEPT ![k].pc = pc]

clientVars == <<messages, streaming, session, current, shot, sends, events, undisturbed>>

\* ws_authenticate: the session asked for is resumed, else a fresh one is made.
Authenticate(k) ==
  /\ servers[k].pc = "auth"
  /\ \/ /\ LET s == IF sockets[k].session = NoSession THEN k ELSE sockets[k].session
           IN  sockets' = Deliver([sockets EXCEPT ![k].session = s], k, "session_ready", 0)
        /\ Goto(k, "idle")
     \/ /\ sockets[k].state = "open"
        /\ sockets' = Closing(k, AuthFailure)
        /\ Goto(k, "off")
  /\ UNCHANGED clientVars

\* One message at a time: the next is read when the turn before has ended.
ServerReceive(k) ==
  /\ servers[k].pc = "idle" /\ sockets[k].outbox # <<>>
  /\ sockets' = [sockets EXCEPT ![k].outbox = Tail(@)]
  /\ servers' = [servers EXCEPT ![k] = [@ EXCEPT !.pc = "retrieving", !.cached = FALSE,
                                                 !.turn = Head(sockets[k].outbox)]]
  /\ UNCHANGED clientVars

\* Cache hit: one token and stream_complete, and the handler returns.
CachedAnswer(k) ==
  /\ servers[k].pc = "retrieving" /\ "cached" \in Outcomes
  /\ sockets' = Deliver(Deliver(sockets, k, "token", servers[k].turn),
                        k, "stream_complete", servers[k].turn)
  /\ servers' = [servers EXCEPT ![k] = [@ EXCEPT !.pc = "idle", !.cached = TRUE]]
  /\ UNCHANGED clientVars

Insufficient(k) ==
  /\ servers[k].pc = "retrieving" /\ "insufficient" \in Outcomes
  /\ sockets' = Deliver(sockets, k, "error", servers[k].turn)
  /\ Goto(k, "idle")
  /\ UNCHANGED clientVars

\* The relay task starts with the generation, not before it.
Generate(k) ==
  /\ servers[k].pc = "retrieving" /\ "answer" \in Outcomes
  /\ servers' = [servers EXCEPT ![k] = [@ EXCEPT !.pc = "generating", !.left = NumTokens,
                                                 !.relay = FALSE]]
  /\ UNCHANGED <<clientVars, sockets>>

Subscribe(k) ==
  /\ servers[k].pc \in {"generating", "relaying"} /\ ~servers[k].relay
  /\ servers' = [servers EXCEPT ![k].relay = TRUE]
  /\ UNCHANGED <<clientVars, sockets>>

\* The channel is named by the session: every relay of the session hears it.
Listeners(k) == {j \in Sockets : servers[j].relay /\ sockets[j].session = sockets[k].session}

Publish(k, type) ==
  sockets' = [j \in Sockets |-> IF j \in Listeners(k)
                                THEN Deliver(sockets, j, type, servers[k].turn)[j]
                                ELSE sockets[j]]

\* Mutant: the stream does not stop at the last token.
Mut_PublishToken(k) ==
  /\ servers[k].pc = "generating"
  /\ Publish(k, "token")
  /\ servers' = [servers EXCEPT ![k].left = @ - 1]
  /\ UNCHANGED clientVars

PublishToken(k) ==
  /\ servers[k].pc = "generating" /\ servers[k].left > 0
  /\ Publish(k, "token")
  /\ servers' = [servers EXCEPT ![k].left = @ - 1]
  /\ undisturbed' = (undisturbed /\ servers[k].relay)
  /\ UNCHANGED <<storeVars, sends, events>>

\* A relay ends at the first stream_complete it hears.
PublishComplete(k) ==
  /\ servers[k].pc = "generating" /\ servers[k].left = 0
  /\ Publish(k, "stream_complete")
  /\ servers' = [j \in Sockets |->
       [servers[j] EXCEPT !.relay = @ /\ j \notin Listeners(k),
                          !.pc = IF j = k THEN "relaying" ELSE @]]
  /\ UNCHANGED clientVars

\* The handler goes on when the relay has ended, or cancels it after five seconds.
RelayEnded(k) ==
  /\ servers[k].pc = "relaying"
  /\ servers' = [servers EXCEPT ![k] = [@ EXCEPT !.pc = "validating", !.relay = FALSE]]
  /\ UNCHANGED <<clientVars, sockets>>

\* An exception at any await of a turn (Redis, retrieval, a queue, the session written
\* after the result) or between two turns is logged and the handler returns: no error
\* frame, no close.  The relay is waited for, or cancelled, first.
HandlerFails(k) ==
  /\ Event
  /\ servers[k].pc \in {"idle", "retrieving", "generating", "relaying", "validating"}
  /\ servers' = [servers EXCEPT ![k] = [@ EXCEPT !.pc = "off", !.relay = FALSE]]
  /\ undisturbed' = (undisturbed /\ ~Working(k))
  /\ UNCHANGED <<storeVars, sends, sockets>>

\* A send on a connection that is gone raises and ends the handler.
SendResult(k) ==
  /\ servers[k].pc = "validating"
  /\ sockets' = Deliver(sockets, k, "validation_result", servers[k].turn)
  /\ Goto(k, IF sockets[k].state = "open" THEN "idle" ELSE "off")
  /\ UNCHANGED clientVars

----------------------------------------------------------------------------
(* The specification                                                       *)

Employee == \/ \E t \in Turns : Compose(t) \/ Suggestion(t) \/ Retry(t)
                              \/ Regenerate(t) \/ RelatedQuestion(t)
            \/ Attach \/ RemoveScreenshot \/ NewSession \/ OpenSession

SendStep(t) == Uploaded(t) \/ SendRefused(t) \/ Connect(t) \/ Opened(t) \/ ConnectTimeout(t)

ServerStep(k) ==
  \/ Authenticate(k) \/ ServerReceive(k) \/ CachedAnswer(k) \/ Insufficient(k) \/ Generate(k)
  \/ Subscribe(k) \/ PublishToken(k) \/ PublishComplete(k) \/ RelayEnded(k) \/ SendResult(k)

ChatNext ==
  \/ Employee
  \/ \E t \in Turns : SendStep(t)
  \/ \E k \in Sockets : CloseEvent(k) \/ ConnectionLost(k) \/ PongTimeout(k) \/ PongMissing(k)
                        \/ ClientReceive(k) \/ HandlerFails(k) \/ ServerStep(k)

\* The browser and the server run what they have queued, and while a connection is deaf
\* the timer of some ping runs out; nobody must act and nothing must fail.
ChatFairness ==
  /\ \A t \in Turns : WF_vars(SendStep(t))
  /\ \A k \in Sockets : WF_vars(CloseEvent(k)) /\ WF_vars(ClientReceive(k)) /\ WF_vars(ServerStep(k))
  /\ WF_vars(\E k \in Sockets : PongMissing(k))

ChatSpec == ChatInit /\ [][ChatNext]_vars /\ ChatFairness

----------------------------------------------------------------------------
(* Properties                                                              *)

\* Types of the store, of the sends in progress, of the sockets and of the handlers:
\* a handler never publishes more tokens than its answer has.
ChatTypeOK ==
  /\ StoreTypeOK
  /\ sends \in [Turns -> [pc : SendPc, session : Sessions \cup {NoSession},
                          socket : Sockets \cup {NoSocket}]]
  /\ sockets \in [Sockets -> [state : SocketState, session : Sessions \cup {NoSession},
                              code : {0, Clean, AuthFailure, PongTimeoutCode, Abnormal},
                              outbox : Seq(Turns), inbox : Seq(Frame)]]
  /\ servers \in [Sockets -> [pc : ServerPc, turn : Turns \cup {0}, left : 0 .. NumTokens,
                              relay : BOOLEAN, cached : BOOLEAN]]
  /\ events \in 0 .. MaxEvents
  /\ undisturbed \in BOOLEAN

\* The last turn of some open connection was answered from the cache.
CacheAnswered == \E k \in Sockets : sockets[k].state = "open" /\ servers[k].cached

\* The compose bar is locked only while something can still unlock it: a send in
\* progress, an open connection with frames left or a handler at work, one the keepalive
\* will close because its handler has gone, a close event that will report an error.  A
\* turn answered from the cache is the exception (TurnsEnd).
BusyHasCause ==
  Busy => \/ CacheAnswered
          \/ \E t \in Turns : Pending(t)
          \/ \E k \in Sockets :
               \/ Deaf(k)
               \/ sockets[k].state = "open" /\ (Working(k) \/ sockets[k].inbox # <<>>)
               \/ sockets[k].state = "closing" /\ sockets[k].code # Clean

Shows(m, t) == m.text = <<[turn |-> t, kind |-> "final"]>>

\* When a turn that nothing disturbed is complete, the last message is the final text
\* of that turn with its badge, whatever tokens were shown before it.
AnswersStand ==
  undisturbed /\ streaming = "complete" =>
       LET m == messages[Len(messages)]
           t == CHOOSE u \in Turns : /\ sends[u].pc # "unsent"
                                     /\ \A v \in Turns : v > u => sends[v].pc = "unsent"
       IN  m.badge = "validated" /\ ~m.incomplete /\ Shows(m, t)

\* Every send ends: the bar is unlocked again, whatever fails on the way (the handler of
\* its connection included), except after an answer from the cache.
BusyEnds == Busy ~> (~Busy \/ CacheAnswered)

\* The same for every answer: "Validation Result Message (sent after stream_complete)"
\* (AEGIS_DATA_CONTRACTS.md:707) is what unlocks the bar, after a cached answer too.
TurnsEnd == Busy ~> ~Busy

----------------------------------------------------------------------------
(* Each question once                                                      *)

Answering(k, t) == servers[k].pc \notin {"off", "auth", "idle"} /\ servers[k].turn = t
Queues(k, t) == \E i \in DOMAIN sockets[k].outbox : sockets[k].outbox[i] = t

Stages == [t \in Turns |->
  IF \E k \in Sockets : Answering(k, t) THEN "answering"
  ELSE IF \E k \in Sockets : Queues(k, t) THEN "handed"
  ELSE IF sends[t].pc = "unsent" THEN "unasked"
  ELSE IF Pending(t) THEN "waiting"
  ELSE IF sends[t].pc = "failed" THEN "failed"
  ELSE "answered"]

Holders == [t \in Turns |-> {k \in Sockets : Answering(k, t) \/ Queues(k, t)}]

Question == INSTANCE Questions
  WITH Asked <- Turns, Connections <- Sockets, stage <- Stages, holders <- Holders

\* However sends, timers, closes and retries interleave, a question reaches one
\* connection at most and is answered once at most, never after sendMessage reported
\* that it failed, and a connection answers one question at a time.
EachQuestionOnce == Question!Spec
==============================================================================
