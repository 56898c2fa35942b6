------------------------------ MODULE ChatStore ------------------------------
(***************************************************************************)
(* The chat store of the browser tab (stores/chatStore.ts): the list of    *)
(* messages, the streaming state machine, the session and the socket the   *)
(* store holds, and the operations the socket handlers call on them.  The  *)
(* text of a message is the sequence of the fragments it was built from,   *)
(* each named by the turn it answers: that is all the properties tell      *)
(* apart.  A turn is one call of sendMessage.                              *)
(***************************************************************************)
EXTENDS Integers, Sequences, FiniteSets

CONSTANTS MaxTurns,    \* calls of sendMessage in a behaviour
          NumSockets   \* WebSocket objects the tab creates

ASSUME ChatBounds == MaxTurns \in Nat \ {0} /\ NumSockets \in Nat \ {0}

Turns == 1 .. MaxTurns
Sockets == 1 .. NumSockets
NoSocket == 0
NoSession == -1
Historical == 0
\* A fresh session is named after the connection the server made it for.
Sessions == {Historical} \cup Sockets

StreamingState == {"idle", "thinking", "streaming", "validating", "complete", "error"}
Kinds == {"token", "final", "escalation", "past"}
Fragment == [turn : Turns \cup {0}, kind : Kinds]
Badges == {"unset", "validated", "none"}

Message(role, turn, text, badge) ==
  [role |-> role, turn |-> turn, text |-> text, badge |-> badge, incomplete |-> FALSE]

UserMessage(t) == Message("user", t, <<>>, "unset")
ErrorMessage(t) == Message("assistant", t, <<[turn |-> t, kind |-> "escalation"]>>, "none")
\* What GET /api/sessions/:id returns: one finished turn.
LoadedMessages ==
  << UserMessage(0), Message("assistant", 0, <<[turn |-> 0, kind |-> "past"]>>, "validated") >>

VARIABLES messages,   \* the message list
          streaming,  \* streamingState
          session,    \* currentSessionId
          current,    \* websocket: the socket the store holds
          shot        \* pendingScreenshot is set

storeVars == <<messages, streaming, session, current, shot>>

StoreInit ==
  /\ messages = <<>>
  /\ streaming = "idle"
  /\ session = NoSession
  /\ current = NoSocket
  /\ shot = FALSE

Busy == streaming \notin {"idle", "complete", "error"}

LastIsAnswer(ms) == ms # <<>> /\ ms[Len(ms)].role = "assistant"

AppendToken(ms, f) ==
  IF LastIsAnswer(ms)
  THEN [ms EXCEPT ![Len(ms)].text = Append(@, f)]
  ELSE Append(ms, Message("assistant", f.turn, <<f>>, "unset"))

\* Mutant: the tokens stay, the authoritative text is ignored.
Mut_UpdateLastMessageValidation(ms, t) ==
  IF LastIsAnswer(ms)
  THEN [ms EXCEPT ![Len(ms)] = [@ EXCEPT !.badge = "validated", !.incomplete = FALSE]]
  ELSE ms

\* The result replaces the text; it is dropped when no answer is last.
UpdateLastMessageValidation(ms, t) ==
  IF LastIsAnswer(ms)
  THEN [ms EXCEPT ![Len(ms)] = [@ EXCEPT !.text = <<[turn |-> t, kind |-> "final"]>>,
                                          !.badge = "validated", !.incomplete = FALSE]]
  ELSE ms

Answers(ms) == {i \in DOMAIN ms : ms[i].role = "assistant"}

\* Marks the newest assistant message, whichever turn it answers.
MarkLastMessageIncomplete(ms) ==
  IF Answers(ms) = {} THEN ms
  ELSE LET last == CHOOSE i \in Answers(ms) : \A j \in Answers(ms) : j <= i
       IN  [ms EXCEPT ![last].incomplete = TRUE]

StoreTypeOK ==
  /\ messages \in Seq([role : {"user", "assistant"}, turn : Turns \cup {0},
                       text : Seq(Fragment), badge : Badges, incomplete : BOOLEAN])
  /\ streaming \in StreamingState
  /\ session \in Sessions \cup {NoSession}
  /\ current \in Sockets \cup {NoSocket}
  /\ shot \in BOOLEAN
==============================================================================
