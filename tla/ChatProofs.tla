------------------------------- MODULE ChatProofs -------------------------------
(***************************************************************************)
(* The promises of the employee chat, for any number of turns, sockets and *)
(* tokens: the compose bar is locked only while something can still unlock *)
(* it, the turn that ends undisturbed leaves its final text last, and a    *)
(* question is answered once at most, on one connection.                   *)
(***************************************************************************)
EXTENDS Chat, SequenceTheorems, TLAPS

-----------------------------------------------------------------------------
(* Types.                                                                  *)

MessageRecords == [role : {"user", "assistant"}, turn : Turns \cup {0},
                   text : Seq(Fragment), badge : Badges, incomplete : BOOLEAN]

SendRecords == [pc : SendPc, session : Sessions \cup {NoSession},
                socket : Sockets \cup {NoSocket}]

SocketRecords == [state : SocketState, session : Sessions \cup {NoSession},
                  code : {0, Clean, AuthFailure, PongTimeoutCode, Abnormal},
                  outbox : Seq(Turns), inbox : Seq(Frame)]

ServerRecords == [pc : ServerPc, turn : Turns \cup {0}, left : 0..NumTokens,
                  relay : BOOLEAN, cached : BOOLEAN]

StoreTyped ==
    /\ messages \in Seq(MessageRecords) /\ streaming \in StreamingState
    /\ session \in Sessions \cup {NoSession} /\ current \in Sockets \cup {NoSocket}
    /\ shot \in BOOLEAN

WiresTyped ==
    /\ sends \in [Turns -> SendRecords]
    /\ sockets \in [Sockets -> SocketRecords]
    /\ servers \in [Sockets -> ServerRecords]

Typed == StoreTyped /\ WiresTyped /\ events \in 0..MaxEvents /\ undisturbed \in BOOLEAN

LEMMA TypedIsOK == Typed <=> ChatTypeOK
BY Zenon DEF Typed, StoreTyped, WiresTyped, ChatTypeOK, StoreTypeOK,
             MessageRecords, SendRecords, SocketRecords, ServerRecords

LEMMA Numbers == NoSocket \notin Sockets /\ 0 \notin Turns /\ Sockets \subseteq Nat /\ Turns \subseteq Nat
BY ChatBounds DEF NoSocket, Sockets, Turns

-----------------------------------------------------------------------------
(* Sequences.                                                              *)

\* a queue that grows
LEMMA Appended ==
    ASSUME NEW S, NEW s \in Seq(S), NEW e \in S
    PROVE  /\ Append(s, e) \in Seq(S) /\ Append(s, e) # <<>>
           /\ Len(s) \in Nat /\ DOMAIN s = 1..Len(s)
           /\ Len(Append(s, e)) = Len(s) + 1
           /\ DOMAIN Append(s, e) = 1..(Len(s) + 1)
           /\ \A i \in 1..Len(s) : Append(s, e)[i] = s[i]
           /\ Append(s, e)[Len(s) + 1] = e
<1>1. Append(s, e) \in Seq(S) /\ Append(s, e) # <<>>
  BY AppendProperties, Zenon
<1>2. /\ Len(Append(s, e)) = Len(s) + 1
      /\ \A i \in 1..Len(s) : Append(s, e)[i] = s[i]
      /\ Append(s, e)[Len(s) + 1] = e
  BY AppendProperties
<1>3. Len(s) \in Nat /\ DOMAIN s = 1..Len(s) /\ DOMAIN Append(s, e) = 1..Len(Append(s, e))
  BY <1>1, LenProperties, Zenon
<1> QED BY <1>1, <1>2, <1>3

\* the first entry of an empty queue
LEMMA FirstAppended == ASSUME NEW e PROVE Append(<<>>, e) = <<e>>
OBVIOUS

\* a queue that is read
LEMMA Shortened ==
    ASSUME NEW S, NEW s \in Seq(S), s # <<>>
    PROVE  /\ Head(s) \in S /\ Head(s) = s[1] /\ Tail(s) \in Seq(S)
           /\ Len(s) \in Nat /\ Len(s) > 0 /\ DOMAIN s = 1..Len(s)
           /\ Len(Tail(s)) = Len(s) - 1
           /\ DOMAIN Tail(s) = 1..(Len(s) - 1)
           /\ \A i \in 1..(Len(s) - 1) : Tail(s)[i] = s[i + 1]
           /\ Tail(s) = <<>> <=> Len(s) = 1
<1>1. /\ Head(s) \in S /\ Tail(s) \in Seq(S) /\ Len(Tail(s)) = Len(s) - 1
      /\ \A i \in 1..Len(Tail(s)) : Tail(s)[i] = s[i + 1]
  BY HeadTailProperties, Zenon
<1>2. Len(s) \in Nat \ {0}
  BY EmptySeq, Zenon
<1>3. DOMAIN s = 1..Len(s) /\ DOMAIN Tail(s) = 1..Len(Tail(s))
  BY <1>1, LenProperties, Zenon
<1>4. Head(s) = s[1]
  BY DEF Head
<1>5. Tail(s) = <<>> => Len(Tail(s)) = 0
  BY EmptySeq, Zenon
<1>6. Len(Tail(s)) = 0 => Tail(s) = <<>>
  BY <1>1, EmptySeq
<1> QED BY <1>1, <1>2, <1>3, <1>4, <1>5, <1>6

\* an entry that changes
LEMMA Replaced ==
    ASSUME NEW S, NEW s \in Seq(S), NEW i \in DOMAIN s, NEW e \in S
    PROVE  /\ [s EXCEPT ![i] = e] \in Seq(S)
           /\ Len([s EXCEPT ![i] = e]) = Len(s)
           /\ \A j \in DOMAIN s : [s EXCEPT ![i] = e][j] = IF j = i THEN e ELSE s[j]
<1>1. DOMAIN s = 1..Len(s)
  BY LenProperties, Zenon
<1>2. i \in 1..Len(s)
  BY <1>1
<1> QED BY <1>1, <1>2, ExceptSeq, Zenon

-----------------------------------------------------------------------------
(* The operations of the store.                                            *)

LEMMA LastAnswer ==
    ASSUME NEW ms \in Seq(MessageRecords), LastIsAnswer(ms)
    PROVE  /\ Len(ms) \in DOMAIN ms /\ ms[Len(ms)] \in MessageRecords
           /\ ms[Len(ms)].role = "assistant"
<1>1. ms # <<>> /\ ms[Len(ms)].role = "assistant"
  BY DEF LastIsAnswer
<1>2. Len(ms) \in 1..Len(ms) /\ DOMAIN ms = 1..Len(ms)
  BY <1>1, Shortened
<1> QED BY <1>1, <1>2, ElementOfSeq, Zenon

\* a token leaves an answer last
LEMMA TokenAppended ==
    ASSUME NEW ms \in Seq(MessageRecords), NEW f \in Fragment
    PROVE  AppendToken(ms, f) \in Seq(MessageRecords) /\ LastIsAnswer(AppendToken(ms, f))
<1>1. CASE LastIsAnswer(ms)
  <2> DEFINE i == Len(ms)
             m == [ms[i] EXCEPT !.text = Append(@, f)]
  <2>1. i \in DOMAIN ms /\ ms[i] \in MessageRecords /\ ms[i].role = "assistant"
    BY <1>1, LastAnswer
  <2>2. ms[i].text \in Seq(Fragment)
    BY <2>1 DEF MessageRecords
  <2>3. Append(ms[i].text, f) \in Seq(Fragment)
    BY <2>2, Appended, Zenon
  <2>4. m \in MessageRecords /\ m.role = "assistant"
    BY <2>1, <2>3 DEF MessageRecords
  <2>5. AppendToken(ms, f) = [ms EXCEPT ![i] = m]
    BY <1>1, <2>1 DEF AppendToken
  <2> HIDE DEF m
  <2>6. /\ [ms EXCEPT ![i] = m] \in Seq(MessageRecords)
        /\ Len([ms EXCEPT ![i] = m]) = i /\ [ms EXCEPT ![i] = m][i] = m
    BY <2>1, <2>4, Replaced
  <2>7. [ms EXCEPT ![i] = m] # <<>>
    <3>1. Len(<<>>) = 0
      OBVIOUS
    <3>2. i # 0
      BY <2>1, Shortened, <1>1 DEF LastIsAnswer
    <3> QED BY <2>6, <3>1, <3>2
  <2> QED BY <2>4, <2>5, <2>6, <2>7 DEF LastIsAnswer
<1>2. CASE ~LastIsAnswer(ms)
  <2> DEFINE m == Message("assistant", f.turn, <<f>>, "unset")
  <2>1. m \in MessageRecords /\ m.role = "assistant"
    BY DEF MessageRecords, Message, Fragment, Badges
  <2>2. AppendToken(ms, f) = Append(ms, m)
    BY <1>2 DEF AppendToken
  <2> HIDE DEF m
  <2> QED BY <2>1, <2>2, Appended DEF LastIsAnswer
<1> QED BY <1>1, <1>2

LEMMA AnswerAppended ==
    ASSUME NEW ms \in Seq(MessageRecords), NEW m \in MessageRecords
    PROVE  /\ Append(ms, m) \in Seq(MessageRecords)
           /\ m.role = "assistant" => LastIsAnswer(Append(ms, m))
BY Appended DEF LastIsAnswer

\* a result finds the last answer and leaves it final
LEMMA ResultShown ==
    ASSUME NEW ms \in Seq(MessageRecords), NEW t \in Turns \cup {0}
    PROVE  LET us == UpdateLastMessageValidation(ms, t)
           IN  /\ us \in Seq(MessageRecords)
               /\ LastIsAnswer(ms) =>
                     /\ LastIsAnswer(us) /\ us[Len(us)].badge = "validated"
                     /\ ~us[Len(us)].incomplete /\ Shows(us[Len(us)], t)
<1>1. CASE LastIsAnswer(ms)
  <2> DEFINE i == Len(ms)
             final == <<[turn |-> t, kind |-> "final"]>>
             m == [ms[i] EXCEPT !.text = final, !.badge = "validated", !.incomplete = FALSE]
  <2>1. i \in DOMAIN ms /\ ms[i] \in MessageRecords /\ ms[i].role = "assistant"
    BY <1>1, LastAnswer
  <2>2. final \in Seq(Fragment)
    BY DEF Fragment, Kinds
  <2> HIDE DEF final
  <2>3. /\ m \in MessageRecords /\ m.role = "assistant" /\ m.badge = "validated"
        /\ ~m.incomplete /\ m.text = final
    BY <2>1, <2>2 DEF MessageRecords, Badges
  <2>4. UpdateLastMessageValidation(ms, t) = [ms EXCEPT ![i] = m]
    BY <1>1, <2>1 DEF UpdateLastMessageValidation, final
  <2> HIDE DEF m
  <2>5. /\ [ms EXCEPT ![i] = m] \in Seq(MessageRecords)
        /\ Len([ms EXCEPT ![i] = m]) = i /\ [ms EXCEPT ![i] = m][i] = m
    BY <2>1, <2>3, Replaced
  <2>6. [ms EXCEPT ![i] = m] # <<>>
    <3>1. Len(<<>>) = 0
      OBVIOUS
    <3>2. i # 0
      BY <2>1, Shortened, <1>1 DEF LastIsAnswer
    <3> QED BY <2>5, <3>1, <3>2
  <2> QED BY <2>3, <2>4, <2>5, <2>6 DEF LastIsAnswer, Shows, final
<1>2. CASE ~LastIsAnswer(ms)
  BY <1>2 DEF UpdateLastMessageValidation
<1> QED BY <1>1, <1>2

LEMMA Marked ==
    ASSUME NEW ms \in Seq(MessageRecords)
    PROVE  MarkLastMessageIncomplete(ms) \in Seq(MessageRecords)
<1>1. CASE Answers(ms) = {}
  BY <1>1 DEF MarkLastMessageIncomplete
<1>2. CASE Answers(ms) # {}
  <2> DEFINE last == CHOOSE i \in Answers(ms) : \A j \in Answers(ms) : j <= i
  <2>1. MarkLastMessageIncomplete(ms) = [ms EXCEPT ![last].incomplete = TRUE]
    BY <1>2, Zenon DEF MarkLastMessageIncomplete
  <2> HIDE DEF last
  <2>2. CASE last \in DOMAIN ms
    <3> DEFINE m == [ms[last] EXCEPT !.incomplete = TRUE]
    <3>1. ms[last] \in MessageRecords
      BY <2>2, ElementOfSeq, LenProperties
    <3>2. m \in MessageRecords
      BY <3>1 DEF MessageRecords
    <3>3. [ms EXCEPT ![last].incomplete = TRUE] = [ms EXCEPT ![last] = m]
      BY <2>2
    <3> HIDE DEF m
    <3>4. [ms EXCEPT ![last] = m] \in Seq(MessageRecords)
      BY <2>2, <3>2, Replaced
    <3> QED BY <2>1, <3>3, <3>4
  <2>3. CASE last \notin DOMAIN ms
    <3>1. ms = [i \in DOMAIN ms |-> ms[i]]
      BY LenProperties
    <3>2. [ms EXCEPT ![last].incomplete = TRUE] = ms
      BY <2>3, <3>1
    <3> QED BY <2>1, <3>2
  <2> QED BY <2>2, <2>3
<1> QED BY <1>1, <1>2

-----------------------------------------------------------------------------
(* What a step does to the connections.                                    *)

SocketIs(k, state, code, outbox, inbox) ==
    /\ sockets'[k].state = state /\ sockets'[k].code = code
    /\ sockets'[k].outbox = outbox /\ sockets'[k].inbox = inbox

ServerIs(k, pc, turn, left, relay, cached) ==
    /\ servers'[k].pc = pc /\ servers'[k].turn = turn /\ servers'[k].left = left
    /\ servers'[k].relay = relay /\ servers'[k].cached = cached

SocketStays(k) ==
    SocketIs(k, sockets[k].state, sockets[k].code, sockets[k].outbox, sockets[k].inbox)

OthersStay(k) == \A j \in Sockets \ {k} : sockets'[j] = sockets[j] /\ servers'[j] = servers[j]

OtherSends(t) == \A u \in Turns \ {t} : sends'[u] = sends[u]

\* turn t is put on connection k
Queued(k, t) ==
    /\ k \in Sockets /\ sockets[k].state = "open"
    /\ SocketIs(k, "open", sockets[k].code, Append(sockets[k].outbox, t), sockets[k].inbox)
    /\ servers'[k] = servers[k] /\ OthersStay(k)

\* the inbox of k with a frame more, if it is open
Received(k, type, turn) ==
    IF sockets[k].state = "open"
    THEN Append(sockets[k].inbox, [type |-> type, turn |-> turn]) ELSE sockets[k].inbox

LEMMA SocketParts ==
    ASSUME Typed, NEW k \in Sockets
    PROVE  /\ sockets[k] \in SocketRecords
           /\ sockets[k].outbox \in Seq(Turns) /\ sockets[k].inbox \in Seq(Frame)
           /\ servers[k] \in ServerRecords /\ servers[k].turn \in Turns \cup {0}
           /\ servers[k].pc \in ServerPc /\ sockets[k].state \in SocketState
           /\ servers[k].left \in 0..NumTokens
BY DEF Typed, WiresTyped, SocketRecords, ServerRecords

LEMMA SocketChanged ==
    ASSUME Typed, NEW k \in Sockets, NEW s \in SocketRecords, sockets' = [sockets EXCEPT ![k] = s]
    PROVE  /\ sockets' \in [Sockets -> SocketRecords] /\ sockets'[k] = s
           /\ \A j \in Sockets \ {k} : sockets'[j] = sockets[j]
BY DEF Typed, WiresTyped

LEMMA ServerChanged ==
    ASSUME Typed, NEW k \in Sockets, NEW s \in ServerRecords, servers' = [servers EXCEPT ![k] = s]
    PROVE  /\ servers' \in [Sockets -> ServerRecords] /\ servers'[k] = s
           /\ \A j \in Sockets \ {k} : servers'[j] = servers[j]
BY DEF Typed, WiresTyped

LEMMA SendChanged ==
    ASSUME Typed, NEW t \in Turns, NEW s \in SendRecords, sends' = [sends EXCEPT ![t] = s]
    PROVE  /\ sends' \in [Turns -> SendRecords] /\ sends'[t] = s
           /\ OtherSends(t)
BY DEF Typed, WiresTyped, OtherSends

LEMMA QueuedIs ==
    ASSUME Typed, NEW k \in Sockets, NEW t \in Turns, sockets[k].state = "open",
           sockets' = [sockets EXCEPT ![k].outbox = Append(@, t)], servers' = servers
    PROVE  sockets' \in [Sockets -> SocketRecords] /\ Queued(k, t)
<1> DEFINE s == [sockets[k] EXCEPT !.outbox = Append(@, t)]
<1>1. sockets[k] \in SocketRecords /\ sockets[k].outbox \in Seq(Turns)
  BY SocketParts
<1>2. Append(sockets[k].outbox, t) \in Seq(Turns)
  BY <1>1, Appended, Zenon
<1>3. /\ s \in SocketRecords /\ s.state = sockets[k].state /\ s.code = sockets[k].code
      /\ s.outbox = Append(sockets[k].outbox, t) /\ s.inbox = sockets[k].inbox
  BY <1>1, <1>2 DEF SocketRecords
<1>4. sockets' = [sockets EXCEPT ![k] = s]
  OBVIOUS
<1> HIDE DEF s
<1>5. /\ sockets' \in [Sockets -> SocketRecords] /\ sockets'[k] = s
      /\ \A j \in Sockets \ {k} : sockets'[j] = sockets[j]
  BY <1>3, <1>4, SocketChanged, Zenon
<1> QED BY <1>3, <1>5 DEF Queued, SocketIs, OthersStay

LEMMA StartSendIs ==
    ASSUME Typed, NEW t \in Turns, StartSend(t)
    PROVE  /\ Typed' /\ streaming' = "thinking" /\ servers' = servers
           /\ undisturbed' => undisturbed /\ ~Busy /\ \A u \in Turns : ~Pending(u)
           /\ sends[t].pc = "unsent" /\ \A u \in 1..(t - 1) : sends[u].pc # "unsent"
           /\ OtherSends(t)
           /\ \/ sends'[t].pc \in {"upload", "token"} /\ sockets' = sockets
              \/ sends'[t].pc = "sent" /\ \E k \in Sockets : Queued(k, t)
<1>1. /\ sends[t].pc = "unsent" /\ \A u \in 1..(t - 1) : sends[u].pc # "unsent"
      /\ messages' = Append(messages, UserMessage(t)) /\ streaming' = "thinking"
      /\ shot' = FALSE /\ session' = session /\ current' = current /\ events' = events
      /\ undisturbed' = (undisturbed /\ ~Busy /\ \A u \in Turns : ~Pending(u))
      /\ servers' = servers
  BY Zenon DEF StartSend
<1>2. UserMessage(t) \in MessageRecords
  <2>1. <<>> \in Seq(Fragment)
    BY EmptySeq, Zenon
  <2> HIDE DEF Fragment
  <2> QED BY <2>1 DEF UserMessage, Message, MessageRecords, Badges
<1>3. StoreTyped'
  <2>1. messages' \in Seq(MessageRecords)
    BY <1>1, <1>2, Appended, Zenon DEF Typed, StoreTyped
  <2> QED BY <1>1, <2>1 DEF Typed, StoreTyped, StreamingState
<1>4. events' \in 0..MaxEvents /\ undisturbed' \in BOOLEAN
  BY <1>1, Zenon DEF Typed
<1>5. sends[t] \in SendRecords /\ session \in Sessions \cup {NoSession}
  BY DEF Typed, StoreTyped, WiresTyped
<1>6. CASE shot
  <2> DEFINE s == [sends[t] EXCEPT !.pc = "upload", !.session = session]
  <2>1. sends' = [sends EXCEPT ![t] = s] /\ sockets' = sockets
    BY <1>6, Zenon DEF StartSend
  <2>2. s \in SendRecords /\ s.pc = "upload"
    BY <1>5 DEF SendRecords, SendPc
  <2> HIDE DEF s
  <2>3. sends' \in [Turns -> SendRecords] /\ sends'[t] = s /\ OtherSends(t)
    BY <2>1, <2>2, SendChanged, Zenon
  <2> QED BY <1>1, <1>3, <1>4, <2>1, <2>2, <2>3 DEF Typed, WiresTyped
<1>7. CASE ~shot /\ IsOpen(current)
  <2> DEFINE s == [sends[t] EXCEPT !.pc = "sent"]
  <2>1. sends' = [sends EXCEPT ![t] = s] /\ sockets' = [sockets EXCEPT ![current].outbox = Append(@, t)]
    BY <1>7, Zenon DEF StartSend
  <2>2. s \in SendRecords /\ s.pc = "sent"
    BY <1>5 DEF SendRecords, SendPc
  <2> HIDE DEF s
  <2>3. sends' \in [Turns -> SendRecords] /\ sends'[t] = s /\ OtherSends(t)
    BY <2>1, <2>2, SendChanged, Zenon
  <2>4. current \in Sockets /\ sockets[current].state = "open"
    BY <1>7 DEF IsOpen, Typed, StoreTyped
  <2>5. sockets' \in [Sockets -> SocketRecords] /\ Queued(current, t)
    BY <1>1, <2>1, <2>4, QueuedIs, Zenon
  <2>6. \E k \in Sockets : Queued(k, t)
    BY <2>4, <2>5, Zenon
  <2> QED BY <1>1, <1>3, <1>4, <2>1, <2>2, <2>3, <2>5, <2>6 DEF Typed, WiresTyped
<1>8. CASE ~shot /\ ~IsOpen(current)
  <2> DEFINE s == [sends[t] EXCEPT !.pc = "token", !.session = session]
  <2>1. sends' = [sends EXCEPT ![t] = s] /\ sockets' = sockets
    BY <1>8, Zenon DEF StartSend
  <2>2. s \in SendRecords /\ s.pc = "token"
    BY <1>5 DEF SendRecords, SendPc
  <2> HIDE DEF s
  <2>3. sends' \in [Turns -> SendRecords] /\ sends'[t] = s /\ OtherSends(t)
    BY <2>1, <2>2, SendChanged, Zenon
  <2> QED BY <1>1, <1>3, <1>4, <2>1, <2>2, <2>3 DEF Typed, WiresTyped
<1> QED BY <1>6, <1>7, <1>8

LEMMA UploadedIs ==
    ASSUME Typed, NEW t \in Turns, Uploaded(t)
    PROVE  /\ Typed' /\ streaming' = streaming /\ messages' = messages /\ servers' = servers
           /\ undisturbed' = undisturbed
           /\ sends[t].pc = "upload" /\ OtherSends(t)
           /\ \/ sends'[t].pc = "token" /\ sockets' = sockets
              \/ sends'[t].pc = "sent" /\ \E k \in Sockets : Queued(k, t)
<1>1. /\ sends[t].pc = "upload" /\ UNCHANGED <<storeVars, servers, events, undisturbed>>
  BY Zenon DEF Uploaded, storeVars
<1>2. StoreTyped' /\ events' \in 0..MaxEvents /\ undisturbed' \in BOOLEAN
  BY <1>1 DEF Typed, StoreTyped, storeVars
<1>3. sends[t] \in SendRecords
  BY DEF Typed, WiresTyped
<1>4. CASE IsOpen(current)
  <2> DEFINE s == [sends[t] EXCEPT !.pc = "sent"]
  <2>1. sends' = [sends EXCEPT ![t] = s] /\ sockets' = [sockets EXCEPT ![current].outbox = Append(@, t)]
    BY <1>4, Zenon DEF Uploaded
  <2>2. s \in SendRecords /\ s.pc = "sent"
    BY <1>3 DEF SendRecords, SendPc
  <2> HIDE DEF s
  <2>3. sends' \in [Turns -> SendRecords] /\ sends'[t] = s /\ OtherSends(t)
    BY <2>1, <2>2, SendChanged, Zenon
  <2>4. current \in Sockets /\ sockets[current].state = "open"
    BY <1>4 DEF IsOpen, Typed, StoreTyped
  <2>5. sockets' \in [Sockets -> SocketRecords] /\ Queued(current, t)
    BY <1>1, <2>1, <2>4, QueuedIs, Zenon
  <2>6. \E k \in Sockets : Queued(k, t)
    BY <2>4, <2>5, Zenon
  <2> QED BY <1>1, <1>2, <2>2, <2>3, <2>5, <2>6 DEF Typed, WiresTyped, storeVars
<1>5. CASE ~IsOpen(current)
  <2> DEFINE s == [sends[t] EXCEPT !.pc = "token"]
  <2>1. sends' = [sends EXCEPT ![t] = s] /\ sockets' = sockets
    BY <1>5, Zenon DEF Uploaded
  <2>2. s \in SendRecords /\ s.pc = "token"
    BY <1>3 DEF SendRecords, SendPc
  <2> HIDE DEF s
  <2>3. sends' \in [Turns -> SendRecords] /\ sends'[t] = s /\ OtherSends(t)
    BY <2>1, <2>2, SendChanged, Zenon
  <2> QED BY <1>1, <1>2, <2>1, <2>2, <2>3 DEF Typed, WiresTyped, storeVars
<1> QED BY <1>4, <1>5

LEMMA FailIs ==
    ASSUME Typed, NEW t \in Turns, Fail(t)
    PROVE  /\ sends' \in [Turns -> SendRecords] /\ sends'[t].pc = "failed" /\ OtherSends(t)
           /\ streaming' = "error" /\ streaming' \in StreamingState
<1> DEFINE s == [sends[t] EXCEPT !.pc = "failed"]
<1>1. sends' = [sends EXCEPT ![t] = s] /\ streaming' = "error"
  BY Zenon DEF Fail
<1>2. s \in SendRecords /\ s.pc = "failed"
  BY DEF Typed, WiresTyped, SendRecords, SendPc
<1> HIDE DEF s
<1>3. sends' \in [Turns -> SendRecords] /\ sends'[t] = s /\ OtherSends(t)
  BY <1>1, <1>2, SendChanged, Zenon
<1> QED BY <1>1, <1>2, <1>3 DEF StreamingState

LEMMA SendRefusedIs ==
    ASSUME Typed, NEW t \in Turns, SendRefused(t)
    PROVE  /\ Typed' /\ messages' = messages /\ sockets' = sockets /\ servers' = servers
           /\ undisturbed' = undisturbed /\ streaming' = "error"
           /\ sends[t].pc \in {"upload", "token"} /\ sends'[t].pc = "failed" /\ OtherSends(t)
<1>1. /\ sends[t].pc \in {"upload", "token"} /\ Fail(t)
      /\ UNCHANGED <<messages, session, current, shot, sockets, servers, events, undisturbed>>
  BY Zenon DEF SendRefused
<1>2. /\ sends' \in [Turns -> SendRecords] /\ sends'[t].pc = "failed" /\ OtherSends(t)
      /\ streaming' = "error" /\ streaming' \in StreamingState
  BY <1>1, FailIs, Zenon
<1> QED BY <1>1, <1>2 DEF Typed, StoreTyped, WiresTyped

LEMMA ConnectIs ==
    ASSUME Typed, NEW t \in Turns, Connect(t)
    PROVE  /\ Typed' /\ messages' = messages /\ streaming' = streaming /\ servers' = servers
           /\ undisturbed' = undisturbed
           /\ sends[t].pc = "token" /\ sends'[t].pc = "connecting" /\ OtherSends(t)
           /\ sends'[t].socket \in Sockets
           /\ \E k \in Sockets : /\ sockets[k].state = "unborn" /\ OthersStay(k)
                                 /\ SocketIs(k, "connecting", sockets[k].code,
                                             sockets[k].outbox, sockets[k].inbox)
<1>1. /\ sends[t].pc = "token"
      /\ UNCHANGED <<messages, streaming, session, shot, servers, events, undisturbed>>
  BY Zenon DEF Connect
<1>2. PICK k \in Sockets :
        /\ sockets[k].state = "unborn"
        /\ sockets' = [sockets EXCEPT ![k] = [@ EXCEPT !.state = "connecting",
                                                       !.session = sends[t].session]]
        /\ sends' = [sends EXCEPT ![t] = [@ EXCEPT !.pc = "connecting", !.socket = k]]
        /\ current' = k
  BY Zenon DEF Connect
<1> DEFINE s == [sockets[k] EXCEPT !.state = "connecting", !.session = sends[t].session]
           u == [sends[t] EXCEPT !.pc = "connecting", !.socket = k]
<1>3. sockets' = [sockets EXCEPT ![k] = s] /\ sends' = [sends EXCEPT ![t] = u]
  BY <1>2
<1>4. sockets[k] \in SocketRecords /\ sends[t] \in SendRecords
  BY DEF Typed, WiresTyped
<1>5. u \in SendRecords /\ u.pc = "connecting" /\ u.socket = k
  BY <1>4 DEF SendRecords, SendPc
<1>6. /\ s \in SocketRecords /\ s.state = "connecting" /\ s.code = sockets[k].code
      /\ s.outbox = sockets[k].outbox /\ s.inbox = sockets[k].inbox
  BY <1>4 DEF SocketRecords, SendRecords, SocketState
<1> HIDE DEF s, u
<1>7. sends' \in [Turns -> SendRecords] /\ sends'[t] = u /\ OtherSends(t)
  BY <1>3, <1>5, SendChanged, Zenon
<1>8. /\ sockets' \in [Sockets -> SocketRecords] /\ sockets'[k] = s
      /\ \A j \in Sockets \ {k} : sockets'[j] = sockets[j]
  BY <1>3, <1>6, SocketChanged, Zenon
<1>9. OthersStay(k) /\ SocketIs(k, "connecting", sockets[k].code, sockets[k].outbox, sockets[k].inbox)
  BY <1>1, <1>6, <1>8 DEF OthersStay, SocketIs
<1>10. Typed'
  BY <1>1, <1>2, <1>7, <1>8 DEF Typed, StoreTyped, WiresTyped
<1> QED BY <1>1, <1>2, <1>5, <1>7, <1>9, <1>10

LEMMA OpenedIs ==
    ASSUME Typed, NEW t \in Turns, Opened(t), sends[t].socket \in Sockets
    PROVE  /\ Typed' /\ messages' = messages /\ streaming' = streaming
           /\ undisturbed' = undisturbed
           /\ sends[t].pc = "connecting" /\ sends'[t].pc = "sent" /\ OtherSends(t)
           /\ \E k \in Sockets : /\ sockets[k].state = "connecting" /\ OthersStay(k)
                                 /\ SocketIs(k, "open", sockets[k].code,
                                             Append(sockets[k].outbox, t), sockets[k].inbox)
                                 /\ ServerIs(k, "auth", servers[k].turn, servers[k].left,
                                             servers[k].relay, servers[k].cached)
<1> DEFINE k == sends[t].socket
           s == [sockets[k] EXCEPT !.state = "open", !.outbox = Append(@, t)]
           u == [sends[t] EXCEPT !.pc = "sent"]
           w == [servers[k] EXCEPT !.pc = "auth"]
<1>1. /\ sends[t].pc = "connecting" /\ UNCHANGED <<storeVars, events, undisturbed>>
      /\ sockets[k].state = "connecting" /\ k \in Sockets
      /\ sockets' = [sockets EXCEPT ![k] = s] /\ servers' = [servers EXCEPT ![k] = w]
      /\ sends' = [sends EXCEPT ![t] = u]
  BY Zenon DEF Opened
<1> HIDE DEF k
<1>2. /\ sockets[k] \in SocketRecords /\ sends[t] \in SendRecords /\ servers[k] \in ServerRecords
      /\ sockets[k].outbox \in Seq(Turns)
  BY <1>1 DEF Typed, WiresTyped, SocketRecords
<1>3. Append(sockets[k].outbox, t) \in Seq(Turns)
  BY <1>2, Appended, Zenon
<1>4. u \in SendRecords /\ u.pc = "sent"
  BY <1>2 DEF SendRecords, SendPc
<1>5. /\ s \in SocketRecords /\ s.state = "open" /\ s.code = sockets[k].code
      /\ s.outbox = Append(sockets[k].outbox, t) /\ s.inbox = sockets[k].inbox
  BY <1>2, <1>3 DEF SocketRecords, SocketState
<1>6. /\ w \in ServerRecords /\ w.pc = "auth" /\ w.turn = servers[k].turn /\ w.left = servers[k].left
      /\ w.relay = servers[k].relay /\ w.cached = servers[k].cached
  BY <1>2 DEF ServerRecords, ServerPc
<1> HIDE DEF s, u, w
<1>7. sends' \in [Turns -> SendRecords] /\ sends'[t] = u /\ OtherSends(t)
  BY <1>1, <1>4, SendChanged, Zenon
<1>8. /\ sockets' \in [Sockets -> SocketRecords] /\ sockets'[k] = s
      /\ \A j \in Sockets \ {k} : sockets'[j] = sockets[j]
  BY <1>1, <1>5, SocketChanged, Zenon
<1>9. /\ servers' \in [Sockets -> ServerRecords] /\ servers'[k] = w
      /\ \A j \in Sockets \ {k} : servers'[j] = servers[j]
  BY <1>1, <1>6, ServerChanged, Zenon
<1>10. /\ OthersStay(k)
       /\ SocketIs(k, "open", sockets[k].code, Append(sockets[k].outbox, t), sockets[k].inbox)
       /\ ServerIs(k, "auth", servers[k].turn, servers[k].left, servers[k].relay, servers[k].cached)
  BY <1>5, <1>6, <1>8, <1>9 DEF OthersStay, SocketIs, ServerIs
<1>11. Typed'
  BY <1>1, <1>7, <1>8, <1>9 DEF Typed, StoreTyped, WiresTyped, storeVars
<1> QED BY <1>1, <1>4, <1>7, <1>10, <1>11 DEF storeVars

\* ws.close() of connection k
Closed(k, code) ==
    /\ k \in Sockets /\ SocketIs(k, "closing", code, sockets[k].outbox, <<>>)
    /\ \A j \in Sockets \ {k} : sockets'[j] = sockets[j]

LEMMA ClosingIs ==
    ASSUME Typed, NEW k \in Sockets, NEW code \in {Clean, AuthFailure, PongTimeoutCode, Abnormal},
           sockets' = Closing(k, code)
    PROVE  sockets' \in [Sockets -> SocketRecords] /\ Closed(k, code)
<1> DEFINE s == [sockets[k] EXCEPT !.state = "closing", !.code = code, !.inbox = <<>>]
<1>1. sockets' = [sockets EXCEPT ![k] = s]
  BY DEF Closing
<1>2. <<>> \in Seq(Frame) /\ sockets[k] \in SocketRecords
  BY EmptySeq, SocketParts, Zenon
<1>3. /\ s \in SocketRecords /\ s.state = "closing" /\ s.code = code
      /\ s.outbox = sockets[k].outbox /\ s.inbox = <<>>
  <2> HIDE DEF Frame
  <2> QED BY <1>2 DEF SocketRecords, SocketState
<1> HIDE DEF s
<1>4. /\ sockets' \in [Sockets -> SocketRecords] /\ sockets'[k] = s
      /\ \A j \in Sockets \ {k} : sockets'[j] = sockets[j]
  BY <1>1, <1>3, SocketChanged, Zenon
<1> QED BY <1>3, <1>4 DEF Closed, SocketIs

LEMMA ConnectTimeoutIs ==
    ASSUME Typed, NEW t \in Turns, ConnectTimeout(t), sends[t].socket \in Sockets
    PROVE  /\ Typed' /\ messages' = messages /\ servers' = servers
           /\ undisturbed' = undisturbed /\ streaming' = "error"
           /\ sends[t].pc = "connecting" /\ sends'[t].pc = "failed" /\ OtherSends(t)
           /\ \/ sockets' = sockets
              \/ \E k \in Sockets : sockets[k].state = "connecting" /\ Closed(k, Abnormal)
<1> DEFINE k == sends[t].socket
<1>1. /\ sends[t].pc = "connecting" /\ Fail(t)
      /\ UNCHANGED <<messages, session, current, shot, servers, events, undisturbed>>
      /\ k \in Sockets
      /\ sockets' = IF sockets[k].state = "connecting" THEN Closing(k, Abnormal) ELSE sockets
  BY Zenon DEF ConnectTimeout
<1> HIDE DEF k
<1>2. /\ sends' \in [Turns -> SendRecords] /\ sends'[t].pc = "failed" /\ OtherSends(t)
      /\ streaming' = "error" /\ streaming' \in StreamingState
  BY <1>1, FailIs, Zenon
<1>3. CASE sockets[k].state = "connecting"
  <2>1. sockets' \in [Sockets -> SocketRecords] /\ Closed(k, Abnormal)
    BY <1>1, <1>3, ClosingIs, Zenon
  <2> QED BY <1>1, <1>2, <1>3, <2>1 DEF Typed, StoreTyped, WiresTyped
<1>4. CASE sockets[k].state # "connecting"
  BY <1>1, <1>2, <1>4 DEF Typed, StoreTyped, WiresTyped
<1> QED BY <1>3, <1>4

LEMMA EventCounted ==
    ASSUME Typed, Event
    PROVE  events' \in 0..MaxEvents
BY ChatEnvironment DEF Typed, Event

LEMMA AttachIs ==
    ASSUME Typed, Attach \/ RemoveScreenshot
    PROVE  /\ Typed' /\ messages' = messages /\ streaming' = streaming /\ sends' = sends
           /\ sockets' = sockets /\ servers' = servers /\ undisturbed' = undisturbed
<1>1. /\ shot' \in BOOLEAN /\ (Event \/ events' = events)
      /\ UNCHANGED <<messages, streaming, session, current, sends, sockets, servers, undisturbed>>
  BY Zenon DEF Attach, RemoveScreenshot
<1>2. events' \in 0..MaxEvents
  BY <1>1, EventCounted, Zenon DEF Typed
<1> QED BY <1>1, <1>2 DEF Typed, StoreTyped, WiresTyped

LEMMA NewSessionIs ==
    ASSUME Typed, NewSession
    PROVE  /\ Typed' /\ streaming' = "idle" /\ undisturbed' = FALSE
           /\ sends' = sends /\ servers' = servers
           /\ \/ sockets' = sockets
              \/ \E k \in Sockets : Closed(k, Clean)
<1>1. /\ messages' = <<>> /\ streaming' = "idle" /\ session' = NoSession /\ current' = NoSocket
      /\ shot' = FALSE /\ undisturbed' = FALSE /\ UNCHANGED <<sends, servers>> /\ Event
      /\ sockets' = IF IsOpen(current) THEN Closing(current, Clean) ELSE sockets
  BY Zenon DEF NewSession
<1>2. events' \in 0..MaxEvents
  BY <1>1, EventCounted, Zenon
<1>3. messages' \in Seq(MessageRecords)
  BY <1>1, EmptySeq
<1>4. CASE IsOpen(current)
  <2>1. current \in Sockets
    BY <1>4 DEF IsOpen, Typed, StoreTyped
  <2>2. sockets' \in [Sockets -> SocketRecords] /\ Closed(current, Clean)
    BY <1>1, <1>4, <2>1, ClosingIs, Zenon
  <2> QED BY <1>1, <1>2, <1>3, <2>1, <2>2 DEF Typed, StoreTyped, WiresTyped, StreamingState
<1>5. CASE ~IsOpen(current)
  BY <1>1, <1>2, <1>3, <1>5 DEF Typed, StoreTyped, WiresTyped, StreamingState
<1> QED BY <1>4, <1>5

LEMMA OpenSessionIs ==
    ASSUME Typed, OpenSession
    PROVE  /\ Typed' /\ streaming' = streaming /\ undisturbed' = FALSE
           /\ sends' = sends /\ servers' = servers /\ sockets' = sockets
<1>1. /\ messages' = LoadedMessages /\ session' = Historical /\ undisturbed' = FALSE /\ Event
      /\ UNCHANGED <<streaming, current, shot, sends, sockets, servers>>
  BY Zenon DEF OpenSession
<1>2. events' \in 0..MaxEvents
  BY <1>1, EventCounted, Zenon
<1>3. messages' \in Seq(MessageRecords)
  <2> DEFINE past == <<[turn |-> 0, kind |-> "past"]>>
             a == UserMessage(0)
             b == Message("assistant", 0, past, "validated")
  <2>1. past \in Seq(Fragment) /\ <<>> \in Seq(Fragment)
    BY EmptySeq DEF Fragment, Kinds
  <2> HIDE DEF past
  <2>2. a \in MessageRecords /\ b \in MessageRecords
    BY <2>1 DEF UserMessage, Message, MessageRecords, Badges
  <2>3. LoadedMessages = <<a, b>>
    BY DEF LoadedMessages, past
  <2> HIDE DEF a, b
  <2> QED BY <1>1, <2>2, <2>3
<1>4. session' \in Sessions \cup {NoSession}
  BY <1>1 DEF Sessions
<1> QED BY <1>1, <1>2, <1>3, <1>4 DEF Typed, StoreTyped, WiresTyped

LEMMA OnCloseIs ==
    ASSUME Typed, NEW code, OnClose(code)
    PROVE  /\ messages' \in Seq(MessageRecords) /\ streaming' \in StreamingState
           /\ current' = NoSocket
           /\ \/ /\ messages' = messages /\ streaming' = streaming
                 /\ code # Clean => ~Busy /\ code # AuthFailure
              \/ messages' = messages /\ streaming' = "error" /\ code = AuthFailure
              \/ streaming' = "error" /\ code # Clean /\ code # AuthFailure /\ Busy
<1>1. messages \in Seq(MessageRecords) /\ streaming \in StreamingState /\ "error" \in StreamingState
  BY DEF Typed, StoreTyped, StreamingState
<1>2. MarkLastMessageIncomplete(messages) \in Seq(MessageRecords)
  BY <1>1, Marked, Zenon
<1>3. current' = NoSocket
  BY Zenon DEF OnClose
<1>4. CASE code = Clean
  BY <1>1, <1>3, <1>4 DEF OnClose
<1>5. CASE code = AuthFailure
  BY <1>1, <1>3, <1>5 DEF OnClose, Clean, AuthFailure
<1>6. CASE code # Clean /\ code # AuthFailure /\ Busy
  BY <1>1, <1>2, <1>3, <1>6, Zenon DEF OnClose
<1>7. CASE code # Clean /\ code # AuthFailure /\ ~Busy
  BY <1>1, <1>3, <1>7, Zenon DEF OnClose
<1> QED BY <1>4, <1>5, <1>6, <1>7

LEMMA CloseEventIs ==
    ASSUME Typed, NEW k \in Sockets, CloseEvent(k)
    PROVE  /\ Typed' /\ sends' = sends /\ servers' = servers
           /\ sockets[k].state = "closing" /\ OthersStay(k)
           /\ SocketIs(k, "closed", sockets[k].code, sockets[k].outbox, sockets[k].inbox)
           /\ undisturbed' = (undisturbed /\ (Busy => sockets[k].code \in {Clean, AuthFailure}))
           /\ \/ /\ messages' = messages /\ streaming' = streaming
                 /\ sockets[k].code # Clean => ~Busy /\ sockets[k].code # AuthFailure
              \/ messages' = messages /\ streaming' = "error" /\ sockets[k].code = AuthFailure
              \/ /\ streaming' = "error" /\ Busy
                 /\ sockets[k].code # Clean /\ sockets[k].code # AuthFailure
<1> DEFINE s == [sockets[k] EXCEPT !.state = "closed"]
<1>1. /\ sockets[k].state = "closing" /\ OnClose(sockets[k].code)
      /\ undisturbed' = (undisturbed /\ (Busy => sockets[k].code \in {Clean, AuthFailure}))
      /\ UNCHANGED <<session, shot, sends, servers, events>>
      /\ sockets' = [sockets EXCEPT ![k] = s]
  BY Zenon DEF CloseEvent
<1>2. /\ s \in SocketRecords /\ s.state = "closed" /\ s.code = sockets[k].code
      /\ s.outbox = sockets[k].outbox /\ s.inbox = sockets[k].inbox
  BY SocketParts DEF SocketRecords, SocketState
<1> HIDE DEF s
<1>3. /\ sockets' \in [Sockets -> SocketRecords] /\ sockets'[k] = s
      /\ \A j \in Sockets \ {k} : sockets'[j] = sockets[j]
  BY <1>1, <1>2, SocketChanged, Zenon
<1>4. /\ messages' \in Seq(MessageRecords) /\ streaming' \in StreamingState /\ current' = NoSocket
      /\ \/ /\ messages' = messages /\ streaming' = streaming
            /\ sockets[k].code # Clean => ~Busy /\ sockets[k].code # AuthFailure
         \/ messages' = messages /\ streaming' = "error" /\ sockets[k].code = AuthFailure
         \/ /\ streaming' = "error" /\ Busy
            /\ sockets[k].code # Clean /\ sockets[k].code # AuthFailure
  BY <1>1, OnCloseIs
<1>5. undisturbed' \in BOOLEAN
  BY <1>1, Zenon DEF Typed
<1>6. Typed'
  BY <1>1, <1>3, <1>4, <1>5 DEF Typed, StoreTyped, WiresTyped
<1>7. OthersStay(k) /\ SocketIs(k, "closed", sockets[k].code, sockets[k].outbox, sockets[k].inbox)
  BY <1>1, <1>2, <1>3 DEF OthersStay, SocketIs
<1> QED BY <1>1, <1>4, <1>6, <1>7

LEMMA ConnectionLostIs ==
    ASSUME Typed, NEW k \in Sockets, ConnectionLost(k)
    PROVE  /\ Typed' /\ sends' = sends /\ servers' = servers
           /\ sockets[k].state \in {"connecting", "open"} /\ OthersStay(k)
           /\ SocketIs(k, "closed", sockets[k].code, sockets[k].outbox, <<>>)
           /\ undisturbed' = (undisturbed /\ ~Working(k) /\ ~Busy)
           /\ \/ messages' = messages /\ streaming' = streaming /\ ~Busy
              \/ streaming' = "error" /\ Busy
<1> DEFINE s == [sockets[k] EXCEPT !.state = "closed", !.inbox = <<>>]
<1>1. /\ sockets[k].state \in {"connecting", "open"} /\ OnClose(Abnormal) /\ Event
      /\ undisturbed' = (undisturbed /\ ~Working(k) /\ ~Busy)
      /\ UNCHANGED <<session, shot, sends, servers>>
      /\ sockets' = [sockets EXCEPT ![k] = s]
  BY Zenon DEF ConnectionLost
<1>2. <<>> \in Seq(Frame) /\ sockets[k] \in SocketRecords
  BY EmptySeq, SocketParts, Zenon
<1>3. /\ s \in SocketRecords /\ s.state = "closed" /\ s.code = sockets[k].code
      /\ s.outbox = sockets[k].outbox /\ s.inbox = <<>>
  BY <1>2 DEF SocketRecords, SocketState
<1> HIDE DEF s
<1>4. /\ sockets' \in [Sockets -> SocketRecords] /\ sockets'[k] = s
      /\ \A j \in Sockets \ {k} : sockets'[j] = sockets[j]
  BY <1>1, <1>3, SocketChanged, Zenon
<1>5. /\ messages' \in Seq(MessageRecords) /\ streaming' \in StreamingState /\ current' = NoSocket
      /\ \/ messages' = messages /\ streaming' = streaming /\ ~Busy
         \/ streaming' = "error" /\ Busy
  BY <1>1, OnCloseIs DEF Abnormal, Clean, AuthFailure
<1>6. undisturbed' \in BOOLEAN /\ events' \in 0..MaxEvents
  BY <1>1, EventCounted, Zenon DEF Typed
<1>7. Typed'
  BY <1>1, <1>4, <1>5, <1>6 DEF Typed, StoreTyped, WiresTyped
<1>8. OthersStay(k) /\ SocketIs(k, "closed", sockets[k].code, sockets[k].outbox, <<>>)
  BY <1>1, <1>3, <1>4 DEF OthersStay, SocketIs
<1> QED BY <1>1, <1>5, <1>7, <1>8

LEMMA PongTimeoutIs ==
    ASSUME Typed, NEW k \in Sockets, PongTimeout(k) \/ PongMissing(k)
    PROVE  /\ Typed' /\ sends' = sends /\ servers' = servers
           /\ messages' = messages /\ streaming' = streaming
           /\ sockets[k].state = "open" /\ Closed(k, PongTimeoutCode)
           /\ undisturbed' = (undisturbed /\ ~Working(k))
<1>1. /\ sockets[k].state = "open" /\ (Event \/ events' = events)
      /\ sockets' = Closing(k, PongTimeoutCode)
      /\ undisturbed' = (undisturbed /\ ~Working(k)) /\ UNCHANGED <<storeVars, sends, servers>>
  BY Zenon DEF PongTimeout, PongMissing
<1>2. sockets' \in [Sockets -> SocketRecords] /\ Closed(k, PongTimeoutCode)
  BY <1>1, ClosingIs, Zenon
<1>3. undisturbed' \in BOOLEAN /\ events' \in 0..MaxEvents
  BY <1>1, EventCounted, Zenon DEF Typed
<1>4. Typed'
  BY <1>1, <1>2, <1>3 DEF Typed, StoreTyped, WiresTyped, storeVars
<1> QED BY <1>1, <1>2, <1>4 DEF storeVars

\* what a frame does to the store
Handled(f) ==
    \/ f.type = "session_ready" /\ UNCHANGED <<messages, streaming>>
    \/ f.type = "token" /\ streaming' = "streaming" /\ LastIsAnswer(messages')
    \/ f.type = "stream_complete" /\ streaming' = "validating" /\ UNCHANGED messages
    \/ /\ f.type = "validation_result" /\ streaming' = "complete"
       /\ LastIsAnswer(messages) => /\ LastIsAnswer(messages')
                                    /\ messages'[Len(messages')].badge = "validated"
                                    /\ ~messages'[Len(messages')].incomplete
                                    /\ Shows(messages'[Len(messages')], f.turn)
    \/ f.type = "error" /\ streaming' = "error" /\ LastIsAnswer(messages')

LEMMA ClientReceiveIs ==
    ASSUME Typed, NEW k \in Sockets, ClientReceive(k)
    PROVE  /\ Typed' /\ sends' = sends /\ servers' = servers /\ undisturbed' = undisturbed
           /\ sockets[k].state = "open" /\ sockets[k].inbox # <<>> /\ OthersStay(k)
           /\ SocketIs(k, "open", sockets[k].code, sockets[k].outbox, Tail(sockets[k].inbox))
           /\ Head(sockets[k].inbox) \in Frame /\ Handled(Head(sockets[k].inbox))
<1> DEFINE f == Head(sockets[k].inbox)
           s == [sockets[k] EXCEPT !.inbox = Tail(@)]
<1>1. /\ sockets[k].state = "open" /\ sockets[k].inbox # <<>>
      /\ UNCHANGED <<current, shot, sends, servers, events, undisturbed>>
      /\ sockets' = [sockets EXCEPT ![k].inbox = Tail(@)]
      /\ \/ /\ f.type = "session_ready" /\ session' = sockets[k].session
            /\ UNCHANGED <<messages, streaming>>
         \/ /\ f.type = "token" /\ streaming' = "streaming" /\ UNCHANGED session
            /\ messages' = AppendToken(messages, [turn |-> f.turn, kind |-> "token"])
         \/ f.type = "stream_complete" /\ streaming' = "validating" /\ UNCHANGED <<messages, session>>
         \/ /\ f.type = "validation_result" /\ streaming' = "complete" /\ UNCHANGED session
            /\ messages' = UpdateLastMessageValidation(messages, f.turn)
         \/ /\ f.type = "error" /\ streaming' = "error" /\ UNCHANGED session
            /\ messages' = Append(messages, ErrorMessage(f.turn))
  BY Zenon DEF ClientReceive
<1>2. sockets[k] \in SocketRecords /\ sockets[k].inbox \in Seq(Frame)
  BY SocketParts, Zenon
<1>3. f \in Frame /\ Tail(sockets[k].inbox) \in Seq(Frame)
  BY <1>1, <1>2, Shortened, Zenon
<1>4. /\ s \in SocketRecords /\ s.state = "open" /\ s.code = sockets[k].code
      /\ s.outbox = sockets[k].outbox /\ s.inbox = Tail(sockets[k].inbox)
  <2> HIDE DEF Frame
  <2> QED BY <1>1, <1>2, <1>3 DEF SocketRecords, SocketState
<1>5. sockets' = [sockets EXCEPT ![k] = s]
  BY <1>1
<1> HIDE DEF s, f
<1>6. /\ sockets' \in [Sockets -> SocketRecords] /\ sockets'[k] = s
      /\ \A j \in Sockets \ {k} : sockets'[j] = sockets[j]
  BY <1>4, <1>5, SocketChanged, Zenon
<1>7. OthersStay(k) /\ SocketIs(k, "open", sockets[k].code, sockets[k].outbox, Tail(sockets[k].inbox))
  BY <1>1, <1>4, <1>6 DEF OthersStay, SocketIs
<1>8. messages \in Seq(MessageRecords) /\ f.turn \in Turns \cup {0}
  BY <1>3 DEF Typed, StoreTyped, Frame
<1>9. streaming' \in StreamingState /\ session' \in Sessions \cup {NoSession}
  BY <1>1, <1>2 DEF Typed, StoreTyped, StreamingState, SocketRecords
<1>10. messages' \in Seq(MessageRecords) /\ Handled(f)
  <2>1. CASE f.type \in {"session_ready", "stream_complete"}
    BY <1>1, <1>8, <2>1 DEF Handled
  <2>2. CASE f.type = "token"
    <3> DEFINE g == [turn |-> f.turn, kind |-> "token"]
    <3>1. g \in Fragment
      BY <1>8 DEF Fragment, Kinds
    <3>2. messages' = AppendToken(messages, g) /\ streaming' = "streaming"
      BY <1>1, <2>2
    <3> HIDE DEF g
    <3>3. AppendToken(messages, g) \in Seq(MessageRecords) /\ LastIsAnswer(AppendToken(messages, g))
      BY <1>8, <3>1, TokenAppended, Zenon
    <3>4. messages' \in Seq(MessageRecords) /\ LastIsAnswer(messages')
      BY <3>2, <3>3
    <3> QED BY <2>2, <3>2, <3>4, Zenon DEF Handled
  <2>3. CASE f.type = "validation_result"
    <3>1. messages' = UpdateLastMessageValidation(messages, f.turn) /\ streaming' = "complete"
      BY <1>1, <2>3
    <3>2. /\ messages' \in Seq(MessageRecords)
          /\ LastIsAnswer(messages) => /\ LastIsAnswer(messages')
                                       /\ messages'[Len(messages')].badge = "validated"
                                       /\ ~messages'[Len(messages')].incomplete
                                       /\ Shows(messages'[Len(messages')], f.turn)
      BY <1>8, <3>1, ResultShown
    <3> QED BY <2>3, <3>1, <3>2, Zenon DEF Handled
  <2>4. CASE f.type = "error"
    <3> DEFINE m == ErrorMessage(f.turn)
    <3>1. m \in MessageRecords /\ m.role = "assistant"
      <4> DEFINE x == <<[turn |-> f.turn, kind |-> "escalation"]>>
      <4>1. x \in Seq(Fragment)
        BY <1>8 DEF Fragment, Kinds
      <4>2. m = Message("assistant", f.turn, x, "none")
        BY DEF ErrorMessage
      <4> HIDE DEF x
      <4> QED BY <1>8, <4>1, <4>2 DEF Message, MessageRecords, Badges
    <3>2. messages' = Append(messages, m) /\ streaming' = "error"
      BY <1>1, <2>4
    <3> HIDE DEF m
    <3>3. Append(messages, m) \in Seq(MessageRecords) /\ LastIsAnswer(Append(messages, m))
      BY <1>8, <3>1, AnswerAppended, Zenon
    <3>4. messages' \in Seq(MessageRecords) /\ LastIsAnswer(messages')
      BY <3>2, <3>3
    <3> QED BY <2>4, <3>2, <3>4, Zenon DEF Handled
  <2> QED BY <1>1, <2>1, <2>2, <2>3, <2>4
<1>11. Typed'
  BY <1>1, <1>6, <1>9, <1>10 DEF Typed, StoreTyped, WiresTyped
<1> QED BY <1>1, <1>3, <1>7, <1>10, <1>11 DEF f

FrameTypes == {"session_ready", "token", "stream_complete", "validation_result", "error"}

LEMMA Delivered ==
    ASSUME NEW socks \in [Sockets -> SocketRecords], NEW k \in Sockets,
           NEW type \in FrameTypes, NEW turn \in Turns \cup {0}
    PROVE  LET ds == Deliver(socks, k, type, turn)
               f == [type |-> type, turn |-> turn]
           IN  /\ ds \in [Sockets -> SocketRecords]
               /\ \A j \in Sockets \ {k} : ds[j] = socks[j]
               /\ ds[k].state = socks[k].state /\ ds[k].code = socks[k].code
               /\ ds[k].outbox = socks[k].outbox
               /\ ds[k].inbox = IF socks[k].state = "open" THEN Append(socks[k].inbox, f)
                                ELSE socks[k].inbox
<1> DEFINE f == [type |-> type, turn |-> turn]
           s == [socks[k] EXCEPT !.inbox = Append(@, f)]
           ds == Deliver(socks, k, type, turn)
<1>1. f \in Frame
  BY DEF Frame, FrameTypes
<1>2. socks[k] \in SocketRecords /\ socks[k].inbox \in Seq(Frame)
  BY DEF SocketRecords
<1>3. ds = IF socks[k].state = "open" THEN [socks EXCEPT ![k] = s] ELSE socks
  BY DEF Deliver
<1> HIDE DEF f, ds
<1>4. Append(socks[k].inbox, f) \in Seq(Frame)
  BY <1>1, <1>2, Appended, Zenon
<1>5. /\ s \in SocketRecords /\ s.state = socks[k].state /\ s.code = socks[k].code
      /\ s.outbox = socks[k].outbox /\ s.inbox = Append(socks[k].inbox, f)
  <2> HIDE DEF Frame
  <2> QED BY <1>2, <1>4 DEF SocketRecords
<1> HIDE DEF s
<1>6. CASE socks[k].state = "open"
  <2>1. ds \in [Sockets -> SocketRecords] /\ ds[k] = s /\ \A j \in Sockets \ {k} : ds[j] = socks[j]
    BY <1>3, <1>5, <1>6
  <2> QED BY <1>5, <1>6, <2>1 DEF ds, f
<1>7. CASE socks[k].state # "open"
  BY <1>3, <1>7 DEF ds
<1> QED BY <1>6, <1>7

LEMMA ServerMoved ==
    ASSUME Typed, NEW k \in Sockets, NEW pc \in ServerPc, Goto(k, pc)
    PROVE  /\ servers' \in [Sockets -> ServerRecords]
           /\ ServerIs(k, pc, servers[k].turn, servers[k].left, servers[k].relay, servers[k].cached)
           /\ \A j \in Sockets \ {k} : servers'[j] = servers[j]
<1> DEFINE s == [servers[k] EXCEPT !.pc = pc]
<1>1. servers' = [servers EXCEPT ![k] = s]
  BY DEF Goto
<1>2. /\ s \in ServerRecords /\ s.pc = pc /\ s.turn = servers[k].turn /\ s.left = servers[k].left
      /\ s.relay = servers[k].relay /\ s.cached = servers[k].cached
  BY SocketParts DEF ServerRecords
<1> HIDE DEF s
<1>3. /\ servers' \in [Sockets -> ServerRecords] /\ servers'[k] = s
      /\ \A j \in Sockets \ {k} : servers'[j] = servers[j]
  BY <1>1, <1>2, ServerChanged, Zenon
<1> QED BY <1>2, <1>3 DEF ServerIs

\* a step of the server leaves the tab alone
ClientStays == messages' = messages /\ streaming' = streaming /\ sends' = sends

LEMMA ClientTyped ==
    ASSUME Typed, UNCHANGED clientVars
    PROVE  StoreTyped' /\ sends' \in [Turns -> SendRecords] /\ events' \in 0..MaxEvents
           /\ undisturbed' \in BOOLEAN /\ ClientStays /\ undisturbed' = undisturbed
BY DEF Typed, StoreTyped, WiresTyped, clientVars, ClientStays

LEMMA AuthenticateIs ==
    ASSUME Typed, NEW k \in Sockets, Authenticate(k)
    PROVE  /\ Typed' /\ ClientStays /\ undisturbed' = undisturbed /\ OthersStay(k)
           /\ servers[k].pc = "auth"
           /\ \/ /\ ServerIs(k, "idle", servers[k].turn, servers[k].left, servers[k].relay, servers[k].cached)
                 /\ SocketIs(k, sockets[k].state, sockets[k].code, sockets[k].outbox,
                             Received(k, "session_ready", 0))
              \/ /\ ServerIs(k, "off", servers[k].turn, servers[k].left, servers[k].relay, servers[k].cached)
                 /\ sockets[k].state = "open" /\ Closed(k, AuthFailure)
<1>1. servers[k].pc = "auth" /\ UNCHANGED clientVars
  BY Zenon DEF Authenticate
<1>2. /\ StoreTyped' /\ sends' \in [Turns -> SendRecords] /\ events' \in 0..MaxEvents
      /\ undisturbed' \in BOOLEAN /\ ClientStays /\ undisturbed' = undisturbed
  BY <1>1, ClientTyped, Zenon
<1> DEFINE s == IF sockets[k].session = NoSession THEN k ELSE sockets[k].session
           named == [sockets EXCEPT ![k].session = s]
<1>3. CASE sockets' = Deliver(named, k, "session_ready", 0) /\ Goto(k, "idle")
  <2>1. /\ servers' \in [Sockets -> ServerRecords]
        /\ ServerIs(k, "idle", servers[k].turn, servers[k].left, servers[k].relay, servers[k].cached)
        /\ \A j \in Sockets \ {k} : servers'[j] = servers[j]
    BY <1>3, ServerMoved DEF ServerPc
  <2>2. s \in Sessions \cup {NoSession}
    BY SocketParts DEF SocketRecords, Sessions
  <2> HIDE DEF s
  <2>3. /\ named \in [Sockets -> SocketRecords] /\ \A j \in Sockets \ {k} : named[j] = sockets[j]
        /\ named[k].state = sockets[k].state /\ named[k].code = sockets[k].code
        /\ named[k].outbox = sockets[k].outbox /\ named[k].inbox = sockets[k].inbox
    <3> DEFINE r == [sockets[k] EXCEPT !.session = s]
    <3>1. /\ r \in SocketRecords /\ r.state = sockets[k].state /\ r.code = sockets[k].code
          /\ r.outbox = sockets[k].outbox /\ r.inbox = sockets[k].inbox
      BY <2>2, SocketParts DEF SocketRecords
    <3>2. named = [sockets EXCEPT ![k] = r]
      OBVIOUS
    <3> HIDE DEF r, named
    <3> QED BY <3>1, <3>2 DEF Typed, WiresTyped
  <2> HIDE DEF named
  <2>4. /\ sockets' \in [Sockets -> SocketRecords]
        /\ \A j \in Sockets \ {k} : sockets'[j] = named[j]
        /\ sockets'[k].state = named[k].state /\ sockets'[k].code = named[k].code
        /\ sockets'[k].outbox = named[k].outbox
        /\ sockets'[k].inbox = IF named[k].state = "open"
                               THEN Append(named[k].inbox, [type |-> "session_ready", turn |-> 0])
                               ELSE named[k].inbox
    BY <1>3, <2>3, Delivered DEF FrameTypes
  <2>5. SocketIs(k, sockets[k].state, sockets[k].code, sockets[k].outbox, Received(k, "session_ready", 0))
    BY <2>3, <2>4 DEF SocketIs, Received
  <2>6. OthersStay(k)
    BY <2>1, <2>3, <2>4 DEF OthersStay
  <2> QED BY <1>1, <1>2, <2>1, <2>4, <2>5, <2>6 DEF Typed, WiresTyped
<1>4. CASE sockets[k].state = "open" /\ sockets' = Closing(k, AuthFailure) /\ Goto(k, "off")
  <2>1. /\ servers' \in [Sockets -> ServerRecords]
        /\ ServerIs(k, "off", servers[k].turn, servers[k].left, servers[k].relay, servers[k].cached)
        /\ \A j \in Sockets \ {k} : servers'[j] = servers[j]
    BY <1>4, ServerMoved DEF ServerPc
  <2>2. sockets' \in [Sockets -> SocketRecords] /\ Closed(k, AuthFailure)
    BY <1>4, ClosingIs
  <2>3. OthersStay(k)
    BY <2>1, <2>2 DEF OthersStay, Closed
  <2> QED BY <1>1, <1>2, <1>4, <2>1, <2>2, <2>3 DEF Typed, WiresTyped
<1> QED BY <1>3, <1>4, Zenon DEF Authenticate

LEMMA ServerReceiveIs ==
    ASSUME Typed, NEW k \in Sockets, ServerReceive(k)
    PROVE  /\ Typed' /\ ClientStays /\ undisturbed' = undisturbed /\ OthersStay(k)
           /\ servers[k].pc = "idle" /\ sockets[k].outbox # <<>>
           /\ ServerIs(k, "retrieving", Head(sockets[k].outbox), servers[k].left, servers[k].relay, FALSE)
           /\ SocketIs(k, sockets[k].state, sockets[k].code, Tail(sockets[k].outbox), sockets[k].inbox)
<1> DEFINE s == [sockets[k] EXCEPT !.outbox = Tail(@)]
           w == [servers[k] EXCEPT !.pc = "retrieving", !.cached = FALSE, !.turn = Head(sockets[k].outbox)]
<1>1. /\ servers[k].pc = "idle" /\ sockets[k].outbox # <<>> /\ UNCHANGED clientVars
      /\ sockets' = [sockets EXCEPT ![k].outbox = Tail(@)] /\ servers' = [servers EXCEPT ![k] = w]
  BY Zenon DEF ServerReceive
<1>2. /\ StoreTyped' /\ sends' \in [Turns -> SendRecords] /\ events' \in 0..MaxEvents
      /\ undisturbed' \in BOOLEAN /\ ClientStays /\ undisturbed' = undisturbed
  BY <1>1, ClientTyped, Zenon
<1>3. sockets[k].outbox \in Seq(Turns)
  BY SocketParts
<1>4. Head(sockets[k].outbox) \in Turns /\ Tail(sockets[k].outbox) \in Seq(Turns)
  BY <1>1, <1>3, Shortened, Zenon
<1>5. /\ s \in SocketRecords /\ s.state = sockets[k].state /\ s.code = sockets[k].code
      /\ s.outbox = Tail(sockets[k].outbox) /\ s.inbox = sockets[k].inbox
  BY <1>4, SocketParts DEF SocketRecords
<1>6. /\ w \in ServerRecords /\ w.pc = "retrieving" /\ w.turn = Head(sockets[k].outbox)
      /\ w.left = servers[k].left /\ w.relay = servers[k].relay /\ w.cached = FALSE
  BY <1>4, SocketParts DEF ServerRecords, ServerPc
<1>7. sockets' = [sockets EXCEPT ![k] = s]
  BY <1>1
<1> HIDE DEF s, w
<1>8. /\ sockets' \in [Sockets -> SocketRecords] /\ sockets'[k] = s
      /\ \A j \in Sockets \ {k} : sockets'[j] = sockets[j]
  BY <1>5, <1>7, SocketChanged, Zenon
<1>9. /\ servers' \in [Sockets -> ServerRecords] /\ servers'[k] = w
      /\ \A j \in Sockets \ {k} : servers'[j] = servers[j]
  BY <1>1, <1>6, ServerChanged, Zenon
<1> QED BY <1>1, <1>2, <1>5, <1>6, <1>8, <1>9 DEF Typed, WiresTyped, OthersStay, SocketIs, ServerIs

LEMMA CachedAnswerIs ==
    ASSUME Typed, NEW k \in Sockets, CachedAnswer(k)
    PROVE  /\ Typed' /\ ClientStays /\ undisturbed' = undisturbed /\ OthersStay(k)
           /\ servers[k].pc = "retrieving"
           /\ ServerIs(k, "idle", servers[k].turn, servers[k].left, servers[k].relay, TRUE)
           /\ \/ SocketStays(k) /\ sockets[k].state # "open"
              \/ /\ sockets[k].state = "open"
                 /\ SocketIs(k, "open", sockets[k].code, sockets[k].outbox,
                             Append(Append(sockets[k].inbox, [type |-> "token", turn |-> servers[k].turn]),
                                    [type |-> "stream_complete", turn |-> servers[k].turn]))
<1> DEFINE w == [servers[k] EXCEPT !.pc = "idle", !.cached = TRUE]
           turn == servers[k].turn
           told == Deliver(sockets, k, "token", turn)
<1>1. /\ servers[k].pc = "retrieving" /\ UNCHANGED clientVars
      /\ sockets' = Deliver(told, k, "stream_complete", turn) /\ servers' = [servers EXCEPT ![k] = w]
  BY Zenon DEF CachedAnswer
<1>2. /\ StoreTyped' /\ sends' \in [Turns -> SendRecords] /\ events' \in 0..MaxEvents
      /\ undisturbed' \in BOOLEAN /\ ClientStays /\ undisturbed' = undisturbed
  BY <1>1, ClientTyped, Zenon
<1>3. turn \in Turns \cup {0} /\ sockets \in [Sockets -> SocketRecords]
  BY SocketParts DEF Typed, WiresTyped
<1>4. /\ w \in ServerRecords /\ w.pc = "idle" /\ w.turn = turn
      /\ w.left = servers[k].left /\ w.relay = servers[k].relay /\ w.cached = TRUE
  BY SocketParts DEF ServerRecords, ServerPc
<1> HIDE DEF w, turn
<1>5. /\ told \in [Sockets -> SocketRecords]
      /\ \A j \in Sockets \ {k} : told[j] = sockets[j]
      /\ told[k].state = sockets[k].state /\ told[k].code = sockets[k].code
      /\ told[k].outbox = sockets[k].outbox
      /\ told[k].inbox = IF sockets[k].state = "open"
                         THEN Append(sockets[k].inbox, [type |-> "token", turn |-> turn])
                         ELSE sockets[k].inbox
  BY <1>3, Delivered DEF FrameTypes
<1> HIDE DEF told
<1>6. /\ sockets' \in [Sockets -> SocketRecords]
      /\ \A j \in Sockets \ {k} : sockets'[j] = told[j]
      /\ sockets'[k].state = told[k].state /\ sockets'[k].code = told[k].code
      /\ sockets'[k].outbox = told[k].outbox
      /\ sockets'[k].inbox = IF told[k].state = "open"
                             THEN Append(told[k].inbox, [type |-> "stream_complete", turn |-> turn])
                             ELSE told[k].inbox
  BY <1>1, <1>3, <1>5, Delivered DEF FrameTypes
<1>7. /\ servers' \in [Sockets -> ServerRecords] /\ servers'[k] = w
      /\ \A j \in Sockets \ {k} : servers'[j] = servers[j]
  BY <1>1, <1>4, ServerChanged, Zenon
<1>8. /\ \/ SocketStays(k) /\ sockets[k].state # "open"
         \/ /\ sockets[k].state = "open"
            /\ SocketIs(k, "open", sockets[k].code, sockets[k].outbox,
                        Append(Append(sockets[k].inbox, [type |-> "token", turn |-> turn]),
                               [type |-> "stream_complete", turn |-> turn]))
  BY <1>5, <1>6 DEF SocketStays, SocketIs
<1> QED BY <1>1, <1>2, <1>4, <1>5, <1>6, <1>7, <1>8 DEF Typed, WiresTyped, OthersStay, ServerIs, turn

LEMMA InsufficientIs ==
    ASSUME Typed, NEW k \in Sockets, Insufficient(k)
    PROVE  /\ Typed' /\ ClientStays /\ undisturbed' = undisturbed /\ OthersStay(k)
           /\ servers[k].pc = "retrieving"
           /\ ServerIs(k, "idle", servers[k].turn, servers[k].left, servers[k].relay, servers[k].cached)
           /\ SocketIs(k, sockets[k].state, sockets[k].code, sockets[k].outbox,
                       Received(k, "error", servers[k].turn))
<1>1. /\ servers[k].pc = "retrieving" /\ UNCHANGED clientVars
      /\ sockets' = Deliver(sockets, k, "error", servers[k].turn) /\ Goto(k, "idle")
  BY Zenon DEF Insufficient
<1>2. /\ StoreTyped' /\ sends' \in [Turns -> SendRecords] /\ events' \in 0..MaxEvents
      /\ undisturbed' \in BOOLEAN /\ ClientStays /\ undisturbed' = undisturbed
  BY <1>1, ClientTyped, Zenon
<1>3. /\ servers' \in [Sockets -> ServerRecords]
      /\ ServerIs(k, "idle", servers[k].turn, servers[k].left, servers[k].relay, servers[k].cached)
      /\ \A j \in Sockets \ {k} : servers'[j] = servers[j]
  BY <1>1, ServerMoved DEF ServerPc
<1>4. servers[k].turn \in Turns \cup {0} /\ sockets \in [Sockets -> SocketRecords]
  BY SocketParts DEF Typed, WiresTyped
<1>5. /\ sockets' \in [Sockets -> SocketRecords]
      /\ \A j \in Sockets \ {k} : sockets'[j] = sockets[j]
      /\ SocketIs(k, sockets[k].state, sockets[k].code, sockets[k].outbox,
                  Received(k, "error", servers[k].turn))
  BY <1>1, <1>4, Delivered DEF FrameTypes, SocketIs, Received
<1> QED BY <1>1, <1>2, <1>3, <1>5 DEF Typed, WiresTyped, OthersStay

LEMMA SendResultIs ==
    ASSUME Typed, NEW k \in Sockets, SendResult(k)
    PROVE  /\ Typed' /\ ClientStays /\ undisturbed' = undisturbed /\ OthersStay(k)
           /\ servers[k].pc = "validating"
           /\ ServerIs(k, IF sockets[k].state = "open" THEN "idle" ELSE "off", servers[k].turn,
                       servers[k].left, servers[k].relay, servers[k].cached)
           /\ SocketIs(k, sockets[k].state, sockets[k].code, sockets[k].outbox,
                       Received(k, "validation_result", servers[k].turn))
<1> DEFINE pc == IF sockets[k].state = "open" THEN "idle" ELSE "off"
<1>1. /\ servers[k].pc = "validating" /\ UNCHANGED clientVars
      /\ sockets' = Deliver(sockets, k, "validation_result", servers[k].turn) /\ Goto(k, pc)
  BY Zenon DEF SendResult
<1>2. /\ StoreTyped' /\ sends' \in [Turns -> SendRecords] /\ events' \in 0..MaxEvents
      /\ undisturbed' \in BOOLEAN /\ ClientStays /\ undisturbed' = undisturbed
  BY <1>1, ClientTyped, Zenon
<1>3. pc \in ServerPc
  BY DEF ServerPc
<1> HIDE DEF pc
<1>4. /\ servers' \in [Sockets -> ServerRecords]
      /\ ServerIs(k, pc, servers[k].turn, servers[k].left, servers[k].relay, servers[k].cached)
      /\ \A j \in Sockets \ {k} : servers'[j] = servers[j]
  BY <1>1, <1>3, ServerMoved
<1>5. servers[k].turn \in Turns \cup {0} /\ sockets \in [Sockets -> SocketRecords]
  BY SocketParts DEF Typed, WiresTyped
<1>6. /\ sockets' \in [Sockets -> SocketRecords]
      /\ \A j \in Sockets \ {k} : sockets'[j] = sockets[j]
      /\ SocketIs(k, sockets[k].state, sockets[k].code, sockets[k].outbox,
                  Received(k, "validation_result", servers[k].turn))
  BY <1>1, <1>5, Delivered DEF FrameTypes, SocketIs, Received
<1> QED BY <1>1, <1>2, <1>4, <1>6 DEF Typed, WiresTyped, OthersStay, pc

\* the steps of a handler that send nothing
Quiet(k) == Generate(k) \/ Subscribe(k) \/ RelayEnded(k)

LEMMA QuietIs ==
    ASSUME Typed, NEW k \in Sockets, Quiet(k)
    PROVE  /\ Typed' /\ ClientStays /\ undisturbed' = undisturbed /\ OthersStay(k)
           /\ sockets' = sockets
           /\ \/ /\ servers[k].pc = "retrieving"
                 /\ ServerIs(k, "generating", servers[k].turn, NumTokens, FALSE, servers[k].cached)
              \/ /\ servers[k].pc \in {"generating", "relaying"}
                 /\ ServerIs(k, servers[k].pc, servers[k].turn, servers[k].left, TRUE, servers[k].cached)
              \/ /\ servers[k].pc = "relaying"
                 /\ ServerIs(k, "validating", servers[k].turn, servers[k].left, FALSE, servers[k].cached)
<1>1. UNCHANGED clientVars /\ sockets' = sockets
  BY Zenon DEF Quiet, Generate, Subscribe, RelayEnded
<1>2. /\ StoreTyped' /\ sends' \in [Turns -> SendRecords] /\ events' \in 0..MaxEvents
      /\ undisturbed' \in BOOLEAN /\ ClientStays /\ undisturbed' = undisturbed
  BY <1>1, ClientTyped, Zenon
<1>3. servers[k] \in ServerRecords /\ NumTokens \in 0..NumTokens
  BY SocketParts, ChatEnvironment
<1>4. ASSUME NEW w \in ServerRecords, servers' = [servers EXCEPT ![k] = w]
      PROVE  Typed' /\ OthersStay(k) /\ ServerIs(k, w.pc, w.turn, w.left, w.relay, w.cached)
  <2>1. /\ servers' \in [Sockets -> ServerRecords] /\ servers'[k] = w
        /\ \A j \in Sockets \ {k} : servers'[j] = servers[j]
    BY <1>4, ServerChanged, Zenon
  <2> QED BY <1>1, <1>2, <2>1 DEF Typed, WiresTyped, OthersStay, ServerIs
<1>5. CASE Generate(k)
  <2> DEFINE w == [servers[k] EXCEPT !.pc = "generating", !.left = NumTokens, !.relay = FALSE]
  <2>1. servers[k].pc = "retrieving" /\ servers' = [servers EXCEPT ![k] = w]
    BY <1>5, Zenon DEF Generate
  <2>2. /\ w \in ServerRecords /\ w.pc = "generating" /\ w.turn = servers[k].turn
        /\ w.left = NumTokens /\ w.relay = FALSE /\ w.cached = servers[k].cached
    BY <1>3 DEF ServerRecords, ServerPc
  <2> HIDE DEF w
  <2>3. Typed' /\ OthersStay(k) /\ ServerIs(k, w.pc, w.turn, w.left, w.relay, w.cached)
    BY <1>4, <2>1, <2>2, Zenon
  <2> QED BY <1>1, <1>2, <2>1, <2>2, <2>3
<1>6. CASE Subscribe(k)
  <2> DEFINE w == [servers[k] EXCEPT !.relay = TRUE]
  <2>1. servers[k].pc \in {"generating", "relaying"} /\ servers' = [servers EXCEPT ![k] = w]
    BY <1>6, Zenon DEF Subscribe
  <2>2. /\ w \in ServerRecords /\ w.pc = servers[k].pc /\ w.turn = servers[k].turn
        /\ w.left = servers[k].left /\ w.relay = TRUE /\ w.cached = servers[k].cached
    BY <1>3 DEF ServerRecords
  <2> HIDE DEF w
  <2>3. Typed' /\ OthersStay(k) /\ ServerIs(k, w.pc, w.turn, w.left, w.relay, w.cached)
    BY <1>4, <2>1, <2>2, Zenon
  <2> QED BY <1>1, <1>2, <2>1, <2>2, <2>3
<1>7. CASE RelayEnded(k)
  <2> DEFINE w == [servers[k] EXCEPT !.pc = "validating", !.relay = FALSE]
  <2>1. servers[k].pc = "relaying" /\ servers' = [servers EXCEPT ![k] = w]
    BY <1>7, Zenon DEF RelayEnded
  <2>2. /\ w \in ServerRecords /\ w.pc = "validating" /\ w.turn = servers[k].turn
        /\ w.left = servers[k].left /\ w.relay = FALSE /\ w.cached = servers[k].cached
    BY <1>3 DEF ServerRecords, ServerPc
  <2> HIDE DEF w
  <2>3. Typed' /\ OthersStay(k) /\ ServerIs(k, w.pc, w.turn, w.left, w.relay, w.cached)
    BY <1>4, <2>1, <2>2, Zenon
  <2> QED BY <1>1, <1>2, <2>1, <2>2, <2>3
<1> QED BY <1>5, <1>6, <1>7 DEF Quiet

LEMMA HandlerFailsIs ==
    ASSUME Typed, NEW k \in Sockets, HandlerFails(k)
    PROVE  /\ Typed' /\ ClientStays /\ OthersStay(k) /\ sockets' = sockets
           /\ servers[k].pc \in {"idle", "retrieving", "generating", "relaying", "validating"}
           /\ ServerIs(k, "off", servers[k].turn, servers[k].left, FALSE, servers[k].cached)
           /\ undisturbed' = (undisturbed /\ ~Working(k))
<1> DEFINE w == [servers[k] EXCEPT !.pc = "off", !.relay = FALSE]
<1>1. /\ servers[k].pc \in {"idle", "retrieving", "generating", "relaying", "validating"}
      /\ Event /\ servers' = [servers EXCEPT ![k] = w]
      /\ undisturbed' = (undisturbed /\ ~Working(k)) /\ UNCHANGED <<storeVars, sends, sockets>>
  BY Zenon DEF HandlerFails
<1>2. servers[k] \in ServerRecords
  BY SocketParts
<1>3. /\ w \in ServerRecords /\ w.pc = "off" /\ w.turn = servers[k].turn
      /\ w.left = servers[k].left /\ w.relay = FALSE /\ w.cached = servers[k].cached
  BY <1>2 DEF ServerRecords, ServerPc
<1> HIDE DEF w
<1>4. /\ servers' \in [Sockets -> ServerRecords] /\ servers'[k] = w
      /\ \A j \in Sockets \ {k} : servers'[j] = servers[j]
  BY <1>1, <1>3, ServerChanged, Zenon
<1>5. undisturbed' \in BOOLEAN /\ events' \in 0..MaxEvents
  BY <1>1, EventCounted, Zenon DEF Typed
<1>6. Typed'
  BY <1>1, <1>4, <1>5 DEF Typed, StoreTyped, WiresTyped, storeVars
<1>7. ClientStays /\ OthersStay(k)
  BY <1>1, <1>4 DEF ClientStays, OthersStay, storeVars
<1>8. ServerIs(k, "off", servers[k].turn, servers[k].left, FALSE, servers[k].cached)
  BY <1>3, <1>4 DEF ServerIs
<1> QED BY <1>1, <1>6, <1>7, <1>8

\* a frame published on the channel of k reaches the relays that listen
Relayed(k, type) ==
    \A j \in Sockets :
        /\ SocketIs(j, sockets[j].state, sockets[j].code, sockets[j].outbox,
                    IF j \in Listeners(k) THEN Received(j, type, servers[k].turn)
                    ELSE sockets[j].inbox)
        /\ j \notin Listeners(k) => sockets'[j] = sockets[j]

LEMMA PublishIs ==
    ASSUME Typed, NEW k \in Sockets, NEW type \in FrameTypes, Publish(k, type)
    PROVE  sockets' \in [Sockets -> SocketRecords] /\ Relayed(k, type)
<1>1. sockets' = [j \in Sockets |-> IF j \in Listeners(k)
                                    THEN Deliver(sockets, j, type, servers[k].turn)[j]
                                    ELSE sockets[j]]
  BY Zenon DEF Publish
<1>2. servers[k].turn \in Turns \cup {0} /\ sockets \in [Sockets -> SocketRecords]
  BY SocketParts DEF Typed, WiresTyped
<1>3. ASSUME NEW j \in Sockets
      PROVE  /\ sockets'[j] \in SocketRecords
             /\ j \notin Listeners(k) => sockets'[j] = sockets[j]
             /\ SocketIs(j, sockets[j].state, sockets[j].code, sockets[j].outbox,
                         IF j \in Listeners(k) THEN Received(j, type, servers[k].turn)
                         ELSE sockets[j].inbox)
  <2> DEFINE ds == Deliver(sockets, j, type, servers[k].turn)
  <2>1. /\ ds \in [Sockets -> SocketRecords]
        /\ ds[j].state = sockets[j].state /\ ds[j].code = sockets[j].code
        /\ ds[j].outbox = sockets[j].outbox
        /\ ds[j].inbox = IF sockets[j].state = "open"
                         THEN Append(sockets[j].inbox, [type |-> type, turn |-> servers[k].turn])
                         ELSE sockets[j].inbox
    BY <1>2, Delivered
  <2>2. sockets'[j] = IF j \in Listeners(k) THEN ds[j] ELSE sockets[j]
    BY <1>1
  <2> HIDE DEF ds
  <2> QED BY <1>2, <2>1, <2>2 DEF SocketIs, Received
<1>4. sockets' \in [Sockets -> SocketRecords]
  BY <1>1, <1>3
<1> QED BY <1>3, <1>4 DEF Relayed

LEMMA PublishTokenIs ==
    ASSUME Typed, NEW k \in Sockets, PublishToken(k)
    PROVE  /\ Typed' /\ ClientStays /\ undisturbed' = (undisturbed /\ servers[k].relay)
           /\ servers[k].pc = "generating" /\ Relayed(k, "token")
           /\ servers[k].left \in 1..NumTokens
           /\ ServerIs(k, "generating", servers[k].turn, servers[k].left - 1,
                       servers[k].relay, servers[k].cached)
           /\ \A j \in Sockets \ {k} : servers'[j] = servers[j]
<1> DEFINE w == [servers[k] EXCEPT !.left = @ - 1]
<1>1. /\ servers[k].pc = "generating" /\ servers[k].left > 0 /\ Publish(k, "token")
      /\ servers' = [servers EXCEPT ![k].left = @ - 1]
      /\ undisturbed' = (undisturbed /\ servers[k].relay) /\ UNCHANGED <<storeVars, sends, events>>
  BY Zenon DEF PublishToken
<1>2. sockets' \in [Sockets -> SocketRecords] /\ Relayed(k, "token")
  BY <1>1, PublishIs DEF FrameTypes
<1>3. servers[k].left \in 1..NumTokens /\ servers[k].left - 1 \in 0..NumTokens
  BY <1>1, SocketParts, ChatEnvironment
<1>4. servers' = [servers EXCEPT ![k] = w]
  BY <1>1
<1>5. /\ w \in ServerRecords /\ w.pc = "generating" /\ w.turn = servers[k].turn
      /\ w.left = servers[k].left - 1 /\ w.relay = servers[k].relay /\ w.cached = servers[k].cached
  BY <1>1, <1>3, SocketParts DEF ServerRecords
<1> HIDE DEF w
<1>6. /\ servers' \in [Sockets -> ServerRecords] /\ servers'[k] = w
      /\ \A j \in Sockets \ {k} : servers'[j] = servers[j]
  BY <1>4, <1>5, ServerChanged, Zenon
<1>7. undisturbed' \in BOOLEAN
  BY <1>1, Zenon DEF Typed
<1>8. Typed'
  BY <1>1, <1>2, <1>6, <1>7 DEF Typed, StoreTyped, WiresTyped, storeVars
<1>9. ClientStays /\ ServerIs(k, "generating", servers[k].turn, servers[k].left - 1,
                              servers[k].relay, servers[k].cached)
  BY <1>1, <1>5, <1>6 DEF ClientStays, storeVars, ServerIs
<1> QED BY <1>1, <1>2, <1>3, <1>6, <1>8, <1>9

LEMMA PublishCompleteIs ==
    ASSUME Typed, NEW k \in Sockets, PublishComplete(k)
    PROVE  /\ Typed' /\ ClientStays /\ undisturbed' = undisturbed
           /\ servers[k].pc = "generating" /\ servers[k].left = 0 /\ Relayed(k, "stream_complete")
           /\ \A j \in Sockets :
                 /\ ServerIs(j, IF j = k THEN "relaying" ELSE servers[j].pc, servers[j].turn, servers[j].left,
                             servers[j].relay /\ j \notin Listeners(k), servers[j].cached)
                 /\ j # k /\ j \notin Listeners(k) => servers'[j] = servers[j]
<1> DEFINE w(j) == [servers[j] EXCEPT !.relay = @ /\ j \notin Listeners(k),
                                      !.pc = IF j = k THEN "relaying" ELSE @]
<1>1. /\ servers[k].pc = "generating" /\ servers[k].left = 0 /\ Publish(k, "stream_complete")
      /\ servers' = [j \in Sockets |-> w(j)] /\ UNCHANGED clientVars
  BY Zenon DEF PublishComplete
<1>2. /\ StoreTyped' /\ sends' \in [Turns -> SendRecords] /\ events' \in 0..MaxEvents
      /\ undisturbed' \in BOOLEAN /\ ClientStays /\ undisturbed' = undisturbed
  BY <1>1, ClientTyped, Zenon
<1>3. sockets' \in [Sockets -> SocketRecords] /\ Relayed(k, "stream_complete")
  BY <1>1, PublishIs DEF FrameTypes
<1>4. ASSUME NEW j \in Sockets
      PROVE  /\ w(j) \in ServerRecords
             /\ w(j).pc = IF j = k THEN "relaying" ELSE servers[j].pc
             /\ w(j).turn = servers[j].turn /\ w(j).left = servers[j].left
             /\ w(j).relay = (servers[j].relay /\ j \notin Listeners(k))
             /\ w(j).cached = servers[j].cached
             /\ j # k /\ j \notin Listeners(k) => w(j) = servers[j]
  <2>1. servers[j] \in ServerRecords
    BY SocketParts
  <2>2. (servers[j].relay /\ j \notin Listeners(k)) \in BOOLEAN
    BY Zenon
  <2>3. j # k /\ j \notin Listeners(k) => w(j) = servers[j]
    BY <2>1 DEF ServerRecords
  <2> QED BY <2>1, <2>2, <2>3 DEF ServerRecords, ServerPc
<1> HIDE DEF w
<1>5. servers' \in [Sockets -> ServerRecords] /\ \A j \in Sockets : servers'[j] = w(j)
  BY <1>1, <1>4
<1>6. \A j \in Sockets :
         /\ ServerIs(j, IF j = k THEN "relaying" ELSE servers[j].pc, servers[j].turn, servers[j].left,
                     servers[j].relay /\ j \notin Listeners(k), servers[j].cached)
         /\ j # k /\ j \notin Listeners(k) => servers'[j] = servers[j]
  BY <1>4, <1>5 DEF ServerIs
<1> QED BY <1>1, <1>2, <1>3, <1>5, <1>6 DEF Typed, WiresTyped

-----------------------------------------------------------------------------
(* What the compose bar waits for.                                         *)

\* a connection has a handler from its opening until it fails; its first turn is queued
\* as it opens
Served(k) ==
    /\ sockets[k].state \in {"unborn", "connecting"} =>
          servers[k].pc = "off" /\ sockets[k].inbox = <<>> /\ sockets[k].outbox = <<>>
    /\ sockets[k].state = "open" /\ servers[k].pc = "auth" => sockets[k].outbox # <<>>
    /\ servers[k].relay => servers[k].pc \in {"generating", "relaying"}

\* the frames on their way end with one that unlocks the bar, or more will come, or the
\* keepalive will close the connection
Unlocking(k) ==
    sockets[k].state = "open" /\ sockets[k].inbox # <<>> =>
        \/ sockets[k].inbox[Len(sockets[k].inbox)].type \in {"validation_result", "error"}
        \/ Working(k)
        \/ Deaf(k)
        \/ servers[k].cached

Flow == \A k \in Sockets : Served(k) /\ Unlocking(k)

\* connection k is a reason to wait
Cause(k) ==
    \/ sockets[k].state = "open" /\ (Working(k) \/ sockets[k].inbox # <<>> \/ servers[k].cached)
    \/ Deaf(k)
    \/ sockets[k].state = "closing" /\ sockets[k].code # Clean

BusyWaits == Busy => (\E t \in Turns : Pending(t)) \/ (\E k \in Sockets : Cause(k))

LEMMA BusyWaitsIs == BusyWaits <=> BusyHasCause
BY Zenon DEF BusyWaits, BusyHasCause, CacheAnswered, Cause

\* turns start in their order, and a send that connects has its socket
SendsFit ==
    /\ \A t \in Turns : sends[t].pc = "connecting" => sends[t].socket \in Sockets
    /\ \A t, u \in Turns : u < t /\ sends[t].pc # "unsent" => sends[u].pc # "unsent"

\* the inductive invariant of the compose bar
WaitInv == Typed /\ Flow /\ BusyWaits /\ SendsFit

LEMMA OthersKeep ==
    ASSUME NEW k \in Sockets, OthersStay(k), NEW j \in Sockets \ {k}
    PROVE  /\ sockets'[j] = sockets[j] /\ servers'[j] = servers[j]
           /\ Served(j)' <=> Served(j)
           /\ Unlocking(j)' <=> Unlocking(j)
           /\ Cause(j)' <=> Cause(j)
           /\ Working(j)' <=> Working(j)
<1>1. sockets'[j] = sockets[j] /\ servers'[j] = servers[j]
  BY Zenon DEF OthersStay
<1> QED BY <1>1 DEF Served, Unlocking, Cause, Working, Deaf

LEMMA FlowKept ==
    ASSUME NEW k \in Sockets, Flow, OthersStay(k), Served(k)', Unlocking(k)'
    PROVE  Flow'
BY OthersKeep, Zenon DEF Flow

LEMMA FlowStays ==
    ASSUME Flow, sockets' = sockets, servers' = servers
    PROVE  Flow'
BY DEF Flow, Served, Unlocking, Working, Deaf

LEMMA BusyKept ==
    ASSUME NEW k \in Sockets, BusyWaits, OthersStay(k), Busy' => Busy,
           \A t \in Turns : Pending(t) => Pending(t)', Cause(k) => Cause(k)'
    PROVE  BusyWaits'
BY OthersKeep, Zenon DEF BusyWaits

LEMMA SendsKept ==
    ASSUME SendsFit, sends' = sends
    PROVE  SendsFit' /\ \A t \in Turns : Pending(t)' <=> Pending(t)
BY DEF SendsFit, Pending

LEMMA SendMoved ==
    ASSUME SendsFit, NEW t \in Turns, OtherSends(t), sends[t].pc # "unsent",
           sends'[t].pc \in {"token", "connecting", "sent", "failed"},
           sends'[t].pc = "connecting" => sends'[t].socket \in Sockets
    PROVE  SendsFit'
<1>1. \A u \in Turns : sends'[u].pc # "unsent" <=> sends[u].pc # "unsent"
  BY DEF OtherSends
<1>2. \A u \in Turns : sends'[u].pc = "connecting" => sends'[u].socket \in Sockets
  BY DEF OtherSends, SendsFit
<1> QED BY <1>1, <1>2 DEF SendsFit

LEMMA QueuedFlows ==
    ASSUME WaitInv, NEW k \in Sockets, NEW t \in Turns, Queued(k, t)
    PROVE  Flow' /\ Cause(k)' /\ Working(k)'
<1>1. /\ k \in Sockets /\ sockets[k].state = "open" /\ servers'[k] = servers[k] /\ OthersStay(k)
      /\ SocketIs(k, "open", sockets[k].code, Append(sockets[k].outbox, t), sockets[k].inbox)
  BY DEF Queued
<1>2. Append(sockets[k].outbox, t) # <<>>
  BY <1>1, SocketParts, Appended DEF WaitInv
<1>3. Working(k)'
  BY <1>1, <1>2 DEF Working, SocketIs
<1>4. Served(k)
  BY <1>1 DEF WaitInv, Flow
<1>5. Served(k)' /\ Unlocking(k)' /\ Cause(k)'
  BY <1>1, <1>2, <1>3, <1>4 DEF Served, Unlocking, Cause, Deaf, SocketIs
<1> QED BY <1>1, <1>3, <1>5, FlowKept, Zenon DEF WaitInv

LEMMA ClosedFlows ==
    ASSUME Flow, NEW k \in Sockets, NEW code, Closed(k, code), OthersStay(k),
           servers'[k].relay => servers'[k].pc \in {"generating", "relaying"}
    PROVE  Flow'
<1>1. Served(k)' /\ Unlocking(k)'
  BY DEF Served, Unlocking, Deaf, Closed, SocketIs
<1> QED BY <1>1, FlowKept, Zenon

LEMMA WaitInit == ChatInit => WaitInv
<1> SUFFICES ASSUME ChatInit PROVE WaitInv
  OBVIOUS
<1>1. <<>> \in Seq(MessageRecords) /\ <<>> \in Seq(Turns) /\ <<>> \in Seq(Frame)
  BY EmptySeq, Zenon
<1>2. Typed
  <2>1. messages \in Seq(MessageRecords)
    BY <1>1 DEF ChatInit, StoreInit
  <2>2. StoreTyped
    BY <2>1 DEF ChatInit, StoreInit, StoreTyped, StreamingState
  <2>3. sends \in [Turns -> SendRecords]
    BY DEF ChatInit, SendRecords, SendPc
  <2>4. sockets \in [Sockets -> SocketRecords]
    <3> DEFINE s == [state |-> "unborn", code |-> 0, session |-> NoSession,
                     outbox |-> <<>>, inbox |-> <<>>]
    <3>1. s \in SocketRecords
      <4> HIDE DEF Frame
      <4> QED BY <1>1 DEF SocketRecords, SocketState
    <3>2. sockets = [k \in Sockets |-> s]
      BY DEF ChatInit
    <3> HIDE DEF s
    <3> QED BY <3>1, <3>2
  <2>5. servers \in [Sockets -> ServerRecords]
    BY ChatEnvironment DEF ChatInit, ServerRecords, ServerPc
  <2>6. events \in 0..MaxEvents /\ undisturbed \in BOOLEAN
    BY ChatEnvironment DEF ChatInit
  <2> QED BY <2>2, <2>3, <2>4, <2>5, <2>6 DEF Typed, WiresTyped
<1>3. Flow
  BY DEF ChatInit, Flow, Served, Unlocking
<1>4. BusyWaits
  BY DEF ChatInit, StoreInit, BusyWaits, Busy
<1>5. SendsFit
  BY DEF ChatInit, SendsFit
<1> QED BY <1>2, <1>3, <1>4, <1>5 DEF WaitInv

LEMMA WaitStart ==
    ASSUME WaitInv, NEW t \in Turns, StartSend(t)
    PROVE  WaitInv'
<1>1. /\ Typed' /\ streaming' = "thinking" /\ servers' = servers
      /\ sends[t].pc = "unsent" /\ \A u \in 1..(t - 1) : sends[u].pc # "unsent"
      /\ OtherSends(t)
      /\ \/ sends'[t].pc \in {"upload", "token"} /\ sockets' = sockets
         \/ sends'[t].pc = "sent" /\ \E k \in Sockets : Queued(k, t)
  BY StartSendIs, Zenon DEF WaitInv
<1>2. SendsFit'
  <2>1. \A u \in Turns \ {t} : sends'[u] = sends[u]
    BY <1>1, Zenon DEF OtherSends
  <2>2. sends'[t].pc # "unsent" /\ sends'[t].pc # "connecting"
    BY <1>1
  <2>3. \A u \in Turns : u < t => u \in 1..(t - 1)
    BY Numbers DEF Turns
  <2>4. \A u \in Turns : u < t => sends[u].pc # "unsent"
    BY <1>1, <2>3, Zenon
  <2>5. t \notin Turns \/ ~(t < t)
    BY Numbers
  <2> QED BY <2>1, <2>2, <2>4, <2>5, Numbers DEF WaitInv, SendsFit
<1>3. CASE sends'[t].pc \in {"upload", "token"} /\ sockets' = sockets
  <2>1. Flow'
    BY <1>1, <1>3, FlowStays, Zenon DEF WaitInv
  <2>2. BusyWaits'
    BY <1>3 DEF BusyWaits, Pending
  <2> QED BY <1>1, <1>2, <2>1, <2>2 DEF WaitInv
<1>4. CASE \E k \in Sockets : Queued(k, t)
  <2>1. PICK k \in Sockets : Queued(k, t)
    BY <1>4
  <2>2. Flow' /\ BusyWaits'
    BY <2>1, QueuedFlows, Zenon DEF BusyWaits
  <2> QED BY <1>1, <1>2, <2>1, <2>2 DEF WaitInv
<1> QED BY <1>1, <1>3, <1>4

LEMMA WaitSend ==
    ASSUME WaitInv, NEW t \in Turns, SendStep(t)
    PROVE  WaitInv'
<1> USE DEF WaitInv
<1>1. CASE Uploaded(t)
  <2>1. /\ Typed' /\ streaming' = streaming /\ servers' = servers
        /\ sends[t].pc = "upload" /\ OtherSends(t)
        /\ \/ sends'[t].pc = "token" /\ sockets' = sockets
           \/ sends'[t].pc = "sent" /\ \E k \in Sockets : Queued(k, t)
    BY <1>1, UploadedIs, Zenon
  <2>2. SendsFit'
    BY <2>1, SendMoved
  <2>3. CASE sends'[t].pc = "token" /\ sockets' = sockets
    <3>1. Flow'
      BY <2>1, <2>3, FlowStays, Zenon
    <3>2. BusyWaits'
      BY <2>3 DEF BusyWaits, Pending
    <3> QED BY <2>1, <2>2, <3>1, <3>2
  <2>4. CASE \E k \in Sockets : Queued(k, t)
    <3>1. PICK k \in Sockets : Queued(k, t)
      BY <2>4
    <3>2. Flow' /\ BusyWaits'
      BY <3>1, QueuedFlows, Zenon DEF BusyWaits
    <3> QED BY <2>1, <2>2, <3>2
  <2> QED BY <2>1, <2>3, <2>4
<1>2. CASE SendRefused(t)
  <2>1. /\ Typed' /\ sockets' = sockets /\ servers' = servers /\ streaming' = "error"
        /\ sends[t].pc \in {"upload", "token"} /\ sends'[t].pc = "failed" /\ OtherSends(t)
    BY <1>2, SendRefusedIs, Zenon
  <2>2. SendsFit'
    BY <2>1, SendMoved
  <2>3. Flow' /\ BusyWaits'
    BY <2>1, FlowStays DEF BusyWaits, Busy
  <2> QED BY <2>1, <2>2, <2>3
<1>3. CASE Connect(t)
  <2>1. /\ Typed' /\ streaming' = streaming /\ servers' = servers
        /\ sends[t].pc = "token" /\ sends'[t].pc = "connecting" /\ OtherSends(t)
        /\ sends'[t].socket \in Sockets
    BY <1>3, ConnectIs, Zenon
  <2>2. PICK k \in Sockets : /\ sockets[k].state = "unborn" /\ OthersStay(k)
                             /\ SocketIs(k, "connecting", sockets[k].code,
                                         sockets[k].outbox, sockets[k].inbox)
    BY <1>3, ConnectIs, Zenon
  <2>3. SendsFit'
    BY <2>1, SendMoved
  <2>4. Served(k)
    BY DEF Flow
  <2>5. Served(k)' /\ Unlocking(k)'
    BY <2>1, <2>2, <2>4 DEF Served, Unlocking, Deaf, SocketIs
  <2>6. Flow'
    BY <2>2, <2>5, FlowKept, Zenon
  <2>7. BusyWaits'
    BY <2>1 DEF BusyWaits, Pending
  <2> QED BY <2>1, <2>3, <2>6, <2>7
<1>4. CASE Opened(t)
  <2>1. sends[t].pc = "connecting"
    BY <1>4, Zenon DEF Opened
  <2>2. sends[t].socket \in Sockets
    BY <2>1, Zenon DEF SendsFit
  <2>3. /\ Typed' /\ streaming' = streaming /\ sends'[t].pc = "sent" /\ OtherSends(t)
    BY <1>4, <2>2, OpenedIs, Zenon
  <2>4. PICK k \in Sockets : /\ sockets[k].state = "connecting" /\ OthersStay(k)
                             /\ SocketIs(k, "open", sockets[k].code,
                                         Append(sockets[k].outbox, t), sockets[k].inbox)
                             /\ ServerIs(k, "auth", servers[k].turn, servers[k].left,
                                         servers[k].relay, servers[k].cached)
    BY <1>4, <2>2, OpenedIs, Zenon
  <2>5. SendsFit'
    BY <2>1, <2>3, SendMoved
  <2>6. Served(k)
    BY DEF Flow
  <2>7. Append(sockets[k].outbox, t) # <<>>
    BY SocketParts, Appended
  <2>8. Served(k)' /\ Unlocking(k)' /\ Cause(k)'
    BY <2>4, <2>6, <2>7 DEF Served, Unlocking, Cause, Working, Deaf, SocketIs, ServerIs
  <2>9. Flow'
    BY <2>4, <2>8, FlowKept, Zenon
  <2>10. BusyWaits'
    BY <2>8, Zenon DEF BusyWaits
  <2> QED BY <2>3, <2>5, <2>9, <2>10
<1>5. CASE ConnectTimeout(t)
  <2>1. sends[t].pc = "connecting"
    BY <1>5, Zenon DEF ConnectTimeout
  <2>2. sends[t].socket \in Sockets
    BY <2>1, Zenon DEF SendsFit
  <2>3. /\ Typed' /\ servers' = servers /\ streaming' = "error"
        /\ sends'[t].pc = "failed" /\ OtherSends(t)
        /\ \/ sockets' = sockets
           \/ \E k \in Sockets : sockets[k].state = "connecting" /\ Closed(k, Abnormal)
    BY <1>5, <2>2, ConnectTimeoutIs, Zenon
  <2>4. SendsFit'
    BY <2>1, <2>3, SendMoved
  <2>5. BusyWaits'
    BY <2>3 DEF BusyWaits, Busy
  <2>6. CASE sockets' = sockets
    <3>1. Flow'
      BY <2>3, <2>6, FlowStays
    <3> QED BY <2>3, <2>4, <2>5, <3>1
  <2>7. CASE \E k \in Sockets : sockets[k].state = "connecting" /\ Closed(k, Abnormal)
    <3>1. PICK k \in Sockets : sockets[k].state = "connecting" /\ Closed(k, Abnormal)
      BY <2>7
    <3>2. OthersStay(k)
      BY <2>3, <3>1 DEF OthersStay, Closed
    <3>3. servers'[k].relay => servers'[k].pc \in {"generating", "relaying"}
      BY <2>3 DEF Flow, Served
    <3>4. Flow'
      BY <3>1, <3>2, <3>3, ClosedFlows
    <3> QED BY <2>3, <2>4, <2>5, <3>4
  <2> QED BY <2>3, <2>6, <2>7
<1> QED BY <1>1, <1>2, <1>3, <1>4, <1>5 DEF SendStep

LEMMA WaitEmployee ==
    ASSUME WaitInv, Attach \/ RemoveScreenshot \/ NewSession \/ OpenSession
    PROVE  WaitInv'
<1> USE DEF WaitInv
<1>1. CASE Attach \/ RemoveScreenshot
  <2>1. /\ Typed' /\ streaming' = streaming /\ sends' = sends
        /\ sockets' = sockets /\ servers' = servers
    BY <1>1, AttachIs, Zenon
  <2>2. Flow' /\ SendsFit'
    BY <2>1, FlowStays, SendsKept, Zenon
  <2>3. BusyWaits'
    BY <2>1 DEF BusyWaits, Busy, Pending, Cause, Working, Deaf
  <2> QED BY <2>1, <2>2, <2>3
<1>2. CASE NewSession
  <2>1. /\ Typed' /\ streaming' = "idle" /\ sends' = sends /\ servers' = servers
        /\ sockets' = sockets \/ \E k \in Sockets : Closed(k, Clean)
    BY <1>2, NewSessionIs, Zenon
  <2>2. SendsFit'
    BY <2>1, SendsKept, Zenon
  <2>3. BusyWaits'
    BY <2>1 DEF BusyWaits, Busy
  <2>4. CASE sockets' = sockets
    <3>1. Flow'
      BY <2>1, <2>4, FlowStays, Zenon
    <3> QED BY <2>1, <2>2, <2>3, <3>1
  <2>5. CASE \E k \in Sockets : Closed(k, Clean)
    <3>1. PICK k \in Sockets : Closed(k, Clean)
      BY <2>5
    <3>2. OthersStay(k)
      BY <2>1, <3>1 DEF OthersStay, Closed
    <3>3. servers'[k].relay => servers'[k].pc \in {"generating", "relaying"}
      BY <2>1 DEF Flow, Served
    <3>4. Flow'
      BY <3>1, <3>2, <3>3, ClosedFlows
    <3> QED BY <2>1, <2>2, <2>3, <3>4
  <2> QED BY <2>1, <2>4, <2>5
<1>3. CASE OpenSession
  <2>1. /\ Typed' /\ streaming' = streaming /\ sends' = sends
        /\ sockets' = sockets /\ servers' = servers
    BY <1>3, OpenSessionIs, Zenon
  <2>2. Flow' /\ SendsFit'
    BY <2>1, FlowStays, SendsKept, Zenon
  <2>3. BusyWaits'
    BY <2>1 DEF BusyWaits, Busy, Pending, Cause, Working, Deaf
  <2> QED BY <2>1, <2>2, <2>3
<1> QED BY <1>1, <1>2, <1>3

LEMMA WaitSocket ==
    ASSUME WaitInv, NEW k \in Sockets,
           CloseEvent(k) \/ ConnectionLost(k) \/ PongTimeout(k) \/ PongMissing(k)
    PROVE  WaitInv'
<1> USE DEF WaitInv
<1>1. Served(k) /\ sends' = sends /\ servers' = servers
  BY Zenon DEF Flow, CloseEvent, ConnectionLost, PongTimeout, PongMissing
<1>2. SendsFit' /\ \A t \in Turns : Pending(t)' <=> Pending(t)
  BY <1>1, SendsKept, Zenon
<1>3. CASE CloseEvent(k)
  <2>1. /\ Typed' /\ sockets[k].state = "closing" /\ OthersStay(k)
        /\ SocketIs(k, "closed", sockets[k].code, sockets[k].outbox, sockets[k].inbox)
    BY <1>3, CloseEventIs, Zenon
  <2>2. Busy' => Busy /\ (sockets[k].code # Clean => ~Busy)
    BY <1>3, CloseEventIs DEF Busy
  <2>3. Served(k)' /\ Unlocking(k)'
    BY <1>1, <2>1 DEF Served, Unlocking, Deaf, SocketIs
  <2>4. Flow'
    BY <2>1, <2>3, FlowKept, Zenon
  <2>5. Busy' => ~Cause(k)
    BY <2>1, <2>2 DEF Cause, Deaf
  <2>6. BusyWaits'
    <3> SUFFICES ASSUME Busy' PROVE BusyWaits'
      BY DEF BusyWaits
    <3>1. Busy /\ ~Cause(k)
      BY <2>2, <2>5
    <3> QED BY <1>2, <2>1, <3>1, BusyKept, Zenon
  <2> QED BY <1>2, <2>1, <2>4, <2>6
<1>4. CASE ConnectionLost(k)
  <2>1. /\ Typed' /\ OthersStay(k)
        /\ SocketIs(k, "closed", sockets[k].code, sockets[k].outbox, <<>>)
    BY <1>4, ConnectionLostIs, Zenon
  <2>2. ~Busy'
    BY <1>4, ConnectionLostIs DEF Busy
  <2>3. Served(k)' /\ Unlocking(k)'
    BY <1>1, <2>1 DEF Served, Unlocking, Deaf, SocketIs
  <2>4. Flow'
    BY <2>1, <2>3, FlowKept, Zenon
  <2> QED BY <1>2, <2>1, <2>2, <2>4 DEF BusyWaits
<1>5. CASE PongTimeout(k) \/ PongMissing(k)
  <2>1. Typed' /\ streaming' = streaming /\ Closed(k, PongTimeoutCode)
    BY <1>5, PongTimeoutIs, Zenon
  <2>2. OthersStay(k)
    BY <1>1, <2>1 DEF OthersStay, Closed
  <2>3. servers'[k].relay => servers'[k].pc \in {"generating", "relaying"}
    BY <1>1 DEF Served
  <2>4. Flow'
    BY <2>1, <2>2, <2>3, ClosedFlows
  <2>5. Cause(k)'
    BY <2>1 DEF Cause, Closed, SocketIs, PongTimeoutCode, Clean
  <2>6. BusyWaits'
    BY <2>5, Zenon DEF BusyWaits
  <2> QED BY <1>2, <2>1, <2>4, <2>6
<1> QED BY <1>3, <1>4, <1>5

LEMMA WaitReceive ==
    ASSUME WaitInv, NEW k \in Sockets, ClientReceive(k)
    PROVE  WaitInv'
<1> USE DEF WaitInv
<1> DEFINE s == sockets[k].inbox
           f == Head(s)
<1>1. /\ Typed' /\ sends' = sends /\ servers' = servers
      /\ sockets[k].state = "open" /\ s # <<>> /\ OthersStay(k)
      /\ SocketIs(k, "open", sockets[k].code, sockets[k].outbox, Tail(s))
      /\ Handled(f)
  BY ClientReceiveIs, Zenon
<1>2. SendsFit' /\ \A t \in Turns : Pending(t)' <=> Pending(t)
  BY <1>1, SendsKept, Zenon
<1>3. Served(k) /\ Unlocking(k)
  BY DEF Flow
<1>4. s \in Seq(Frame)
  BY SocketParts
<1>5. /\ f = s[1] /\ Len(s) \in Nat /\ Len(s) > 0 /\ Len(Tail(s)) = Len(s) - 1
      /\ \A i \in 1..(Len(s) - 1) : Tail(s)[i] = s[i + 1]
      /\ Tail(s) = <<>> <=> Len(s) = 1
  BY <1>1, <1>4, Shortened, Zenon
<1>6. Tail(s) # <<>> => Tail(s)[Len(Tail(s))] = s[Len(s)]
  BY <1>5
<1> HIDE DEF s, f
<1>7. Working(k)' <=> Working(k)
  BY <1>1 DEF Working, SocketIs
<1>8. Served(k)'
  BY <1>1, <1>3 DEF Served, SocketIs
<1>9. Unlocking(k)'
  BY <1>1, <1>3, <1>6, <1>7 DEF Unlocking, Deaf, SocketIs, s
<1>10. Flow'
  BY <1>1, <1>8, <1>9, FlowKept, Zenon
<1>11. BusyWaits'
  <2> SUFFICES ASSUME Busy' PROVE BusyWaits'
    BY DEF BusyWaits
  <2>1. f.type \notin {"validation_result", "error"}
    BY <1>1 DEF Handled, Busy
  <2>2. Tail(s) = <<>> => Working(k) \/ Deaf(k) \/ servers[k].cached
    BY <1>1, <1>3, <1>5, <2>1 DEF Unlocking, Deaf, s
  <2>3. Cause(k)'
    BY <1>1, <1>7, <2>2 DEF Cause, Deaf, SocketIs
  <2> QED BY <2>3, Zenon DEF BusyWaits
<1> QED BY <1>1, <1>2, <1>10, <1>11

LEMMA LastReceived ==
    ASSUME Typed, NEW k \in Sockets, NEW type \in FrameTypes, NEW turn \in Turns \cup {0},
           sockets[k].state = "open"
    PROVE  LET in == Received(k, type, turn)
           IN  in # <<>> /\ in[Len(in)].type = type
<1> DEFINE f == [type |-> type, turn |-> turn]
<1>1. f \in Frame /\ f.type = type
  BY DEF Frame, FrameTypes
<1>2. Received(k, type, turn) = Append(sockets[k].inbox, f)
  BY DEF Received
<1> HIDE DEF f
<1> QED BY <1>1, <1>2, SocketParts, Appended

LEMMA WaitServer ==
    ASSUME WaitInv, NEW k \in Sockets, ServerStep(k)
    PROVE  WaitInv'
<1> USE DEF WaitInv
<1>1. Served(k) /\ servers[k].turn \in Turns \cup {0} /\ 0 \in Turns \cup {0}
  BY SocketParts DEF Flow
<1>2. ASSUME ClientStays
      PROVE  /\ SendsFit' /\ (Busy' => Busy)
             /\ \A t \in Turns : Pending(t) => Pending(t)'
  BY <1>2, SendsKept DEF ClientStays, Busy
<1>3. ASSUME ClientStays, Typed', OthersStay(k), Served(k)', Unlocking(k)', Cause(k) => Cause(k)'
      PROVE  WaitInv'
  <2>1. Flow'
    BY <1>3, FlowKept, Zenon
  <2>2. BusyWaits'
    BY <1>2, <1>3, BusyKept, Zenon
  <2> QED BY <1>2, <1>3, <2>1, <2>2
<1>4. CASE Authenticate(k)
  <2>1. Typed' /\ ClientStays /\ OthersStay(k) /\ servers[k].pc = "auth"
    BY <1>4, AuthenticateIs, Zenon
  <2>2. CASE /\ ServerIs(k, "idle", servers[k].turn, servers[k].left, servers[k].relay, servers[k].cached)
             /\ SocketIs(k, sockets[k].state, sockets[k].code, sockets[k].outbox,
                         Received(k, "session_ready", 0))
    <3>1. sockets[k].state = "open" => Received(k, "session_ready", 0) # <<>>
      BY <1>1, LastReceived DEF FrameTypes
    <3>2. Served(k)' /\ Unlocking(k)' /\ (Cause(k) => Cause(k)')
      BY <1>1, <2>1, <2>2, <3>1 DEF Served, Unlocking, Cause, Working, Deaf, SocketIs, ServerIs
    <3> QED BY <1>3, <2>1, <3>2, Zenon
  <2>3. CASE /\ ServerIs(k, "off", servers[k].turn, servers[k].left, servers[k].relay, servers[k].cached)
             /\ sockets[k].state = "open" /\ Closed(k, AuthFailure)
    <3>1. Served(k)' /\ Unlocking(k)' /\ Cause(k)'
      BY <1>1, <2>1, <2>3
         DEF Served, Unlocking, Cause, Deaf, Closed, SocketIs, ServerIs, AuthFailure, Clean
    <3> QED BY <1>3, <2>1, <3>1, Zenon
  <2> QED BY <1>4, <2>2, <2>3, AuthenticateIs, Zenon
<1>5. CASE ServerReceive(k)
  <2>1. /\ Typed' /\ ClientStays /\ OthersStay(k) /\ servers[k].pc = "idle"
        /\ ServerIs(k, "retrieving", Head(sockets[k].outbox), servers[k].left, servers[k].relay, FALSE)
        /\ SocketIs(k, sockets[k].state, sockets[k].code, Tail(sockets[k].outbox), sockets[k].inbox)
    BY <1>5, ServerReceiveIs, Zenon
  <2>2. Served(k)' /\ Unlocking(k)' /\ (Cause(k) => Cause(k)')
    BY <1>1, <2>1 DEF Served, Unlocking, Cause, Working, Deaf, SocketIs, ServerIs
  <2> QED BY <1>3, <2>1, <2>2, Zenon
<1>6. CASE CachedAnswer(k)
  <2>1. /\ Typed' /\ ClientStays /\ OthersStay(k) /\ servers[k].pc = "retrieving"
        /\ ServerIs(k, "idle", servers[k].turn, servers[k].left, servers[k].relay, TRUE)
    BY <1>6, CachedAnswerIs, Zenon
  <2>2. sockets'[k].state = sockets[k].state /\ sockets'[k].code = sockets[k].code
    BY <1>6, CachedAnswerIs DEF SocketIs, SocketStays
  <2>3. Served(k)' /\ Unlocking(k)' /\ (Cause(k) => Cause(k)')
    BY <1>1, <2>1, <2>2 DEF Served, Unlocking, Cause, Deaf, ServerIs
  <2> QED BY <1>3, <2>1, <2>3, Zenon
<1>7. CASE Insufficient(k)
  <2>1. /\ Typed' /\ ClientStays /\ OthersStay(k) /\ servers[k].pc = "retrieving"
        /\ ServerIs(k, "idle", servers[k].turn, servers[k].left, servers[k].relay, servers[k].cached)
        /\ SocketIs(k, sockets[k].state, sockets[k].code, sockets[k].outbox,
                    Received(k, "error", servers[k].turn))
    BY <1>7, InsufficientIs, Zenon
  <2>2. sockets[k].state = "open" =>
           LET in == Received(k, "error", servers[k].turn) IN in # <<>> /\ in[Len(in)].type = "error"
    BY <1>1, LastReceived DEF FrameTypes
  <2>3. Served(k)' /\ Unlocking(k)' /\ (Cause(k) => Cause(k)')
    BY <1>1, <2>1, <2>2 DEF Served, Unlocking, Cause, Deaf, SocketIs, ServerIs
  <2> QED BY <1>3, <2>1, <2>3, Zenon
<1>8. CASE SendResult(k)
  <2>1. /\ Typed' /\ ClientStays /\ OthersStay(k) /\ servers[k].pc = "validating"
        /\ ServerIs(k, IF sockets[k].state = "open" THEN "idle" ELSE "off", servers[k].turn,
                    servers[k].left, servers[k].relay, servers[k].cached)
        /\ SocketIs(k, sockets[k].state, sockets[k].code, sockets[k].outbox,
                    Received(k, "validation_result", servers[k].turn))
    BY <1>8, SendResultIs, Zenon
  <2>2. sockets[k].state = "open" =>
           LET in == Received(k, "validation_result", servers[k].turn)
           IN  in # <<>> /\ in[Len(in)].type = "validation_result"
    BY <1>1, LastReceived DEF FrameTypes
  <2>3. Served(k)' /\ Unlocking(k)' /\ (Cause(k) => Cause(k)')
    BY <1>1, <2>1, <2>2 DEF Served, Unlocking, Cause, Deaf, SocketIs, ServerIs
  <2> QED BY <1>3, <2>1, <2>3, Zenon
<1>9. CASE Quiet(k)
  <2>1. /\ Typed' /\ ClientStays /\ OthersStay(k) /\ sockets' = sockets
        /\ \/ /\ servers[k].pc = "retrieving"
              /\ ServerIs(k, "generating", servers[k].turn, NumTokens, FALSE, servers[k].cached)
           \/ /\ servers[k].pc \in {"generating", "relaying"}
              /\ ServerIs(k, servers[k].pc, servers[k].turn, servers[k].left, TRUE, servers[k].cached)
           \/ /\ servers[k].pc = "relaying"
              /\ ServerIs(k, "validating", servers[k].turn, servers[k].left, FALSE, servers[k].cached)
    BY <1>9, QuietIs, Zenon
  <2>2. Served(k)' /\ Unlocking(k)' /\ (Cause(k) => Cause(k)')
    BY <1>1, <2>1 DEF Served, Unlocking, Cause, Working, Deaf, ServerIs
  <2> QED BY <1>3, <2>1, <2>2, Zenon
<1>10. CASE PublishToken(k) \/ PublishComplete(k)
  <2>1. Typed' /\ ClientStays /\ servers[k].pc = "generating"
    BY <1>10, PublishTokenIs, PublishCompleteIs, Zenon
  <2>2. PICK type \in {"token", "stream_complete"} : Relayed(k, type)
    BY <1>10, PublishTokenIs, PublishCompleteIs
  <2>3. \A j \in Sockets : /\ \/ servers'[j].pc = servers[j].pc
                              \/ j = k /\ servers'[k].pc \in {"generating", "relaying"}
                           /\ servers'[j].cached = servers[j].cached
                           /\ servers'[j].relay => servers[j].relay
    BY <1>10, PublishTokenIs, PublishCompleteIs DEF ServerIs
  <2>4. ASSUME NEW j \in Sockets
        PROVE  Served(j)' /\ Unlocking(j)' /\ (Cause(j) => Cause(j)')
    <3>1. Served(j) /\ Unlocking(j)
      BY DEF Flow
    <3>2. SocketIs(j, sockets[j].state, sockets[j].code, sockets[j].outbox,
                   IF j \in Listeners(k) THEN Received(j, type, servers[k].turn) ELSE sockets[j].inbox)
      BY <2>2 DEF Relayed
    <3>3. Working(j) => Working(j)'
      BY <2>1, <2>3, <3>2 DEF Working, SocketIs
    <3>4. CASE j \in Listeners(k)
      <4>1. servers[j].relay
        BY <3>4 DEF Listeners
      <4>2. servers[j].pc \in {"generating", "relaying"}
        BY <3>1, <4>1 DEF Served
      <4>3. Working(j) /\ servers'[j].pc \in {"generating", "relaying"}
        BY <2>3, <4>2 DEF Working
      <4>4. sockets[j].state \notin {"unborn", "connecting"}
        BY <3>1, <4>2 DEF Served
      <4> QED BY <3>2, <3>3, <4>3, <4>4 DEF Served, Unlocking, Cause, Deaf, SocketIs
    <3>5. CASE j \notin Listeners(k)
      <4>1. SocketIs(j, sockets[j].state, sockets[j].code, sockets[j].outbox, sockets[j].inbox)
        BY <3>2, <3>5
      <4>2. /\ servers'[j].pc = "off" <=> servers[j].pc = "off"
            /\ servers'[j].pc = "auth" <=> servers[j].pc = "auth"
            /\ servers[j].pc \in {"generating", "relaying"} => servers'[j].pc \in {"generating", "relaying"}
        BY <2>1, <2>3
      <4> QED BY <2>3, <3>1, <3>3, <4>1, <4>2 DEF Served, Unlocking, Cause, Deaf, SocketIs
    <3> QED BY <3>4, <3>5
  <2>5. Flow'
    BY <2>4 DEF Flow
  <2>6. BusyWaits'
    BY <1>2, <2>1, <2>4, Zenon DEF BusyWaits
  <2> QED BY <1>2, <2>1, <2>5, <2>6
<1> QED BY <1>4, <1>5, <1>6, <1>7, <1>8, <1>9, <1>10 DEF ServerStep, Quiet

LEMMA WaitFails ==
    ASSUME WaitInv, NEW k \in Sockets, HandlerFails(k)
    PROVE  WaitInv'
<1>1. /\ Typed' /\ ClientStays /\ OthersStay(k) /\ sockets' = sockets
      /\ servers[k].pc # "off"
      /\ ServerIs(k, "off", servers[k].turn, servers[k].left, FALSE, servers[k].cached)
  BY HandlerFailsIs DEF WaitInv
<1>2. Served(k)
  BY DEF WaitInv, Flow
<1>3. Served(k)' /\ Unlocking(k)' /\ (Cause(k) => Cause(k)')
  BY <1>1, <1>2 DEF Served, Unlocking, Cause, Deaf, ServerIs
<1>4. Flow'
  BY <1>1, <1>3, FlowKept, Zenon DEF WaitInv
<1>5. SendsFit' /\ (Busy' => Busy) /\ \A t \in Turns : Pending(t) => Pending(t)'
  BY <1>1, SendsKept DEF WaitInv, ClientStays, Busy
<1>6. BusyWaits'
  BY <1>1, <1>3, <1>5, BusyKept, Zenon DEF WaitInv
<1> QED BY <1>1, <1>4, <1>5, <1>6 DEF WaitInv

LEMMA WaitNext == WaitInv /\ [ChatNext]_vars => WaitInv'
<1> SUFFICES ASSUME WaitInv, [ChatNext]_vars PROVE WaitInv'
  OBVIOUS
<1>1. CASE UNCHANGED vars
  <2>1. /\ Typed' <=> Typed
        /\ SendsFit' <=> SendsFit
    BY <1>1 DEF vars, Typed, StoreTyped, WiresTyped, SendsFit
  <2>2. Flow' <=> Flow
    BY <1>1 DEF vars, Flow, Served, Unlocking, Working, Deaf
  <2>3. BusyWaits' <=> BusyWaits
    BY <1>1 DEF vars, BusyWaits, Busy, Pending, Cause, Working, Deaf
  <2> QED BY <2>1, <2>2, <2>3 DEF WaitInv
<1>2. ASSUME NEW t \in Turns, StartSend(t) PROVE WaitInv'
  BY <1>2, WaitStart
<1>3. CASE Employee
  BY <1>2, <1>3, WaitEmployee, Zenon
     DEF Employee, Compose, Suggestion, Retry, Regenerate, RelatedQuestion
<1>4. CASE \E t \in Turns : SendStep(t)
  BY <1>4, WaitSend, Zenon
<1>5. CASE \E k \in Sockets : CloseEvent(k) \/ ConnectionLost(k) \/ PongTimeout(k) \/ PongMissing(k)
                              \/ ClientReceive(k) \/ HandlerFails(k) \/ ServerStep(k)
  BY <1>5, WaitSocket, WaitReceive, WaitFails, WaitServer, Zenon
<1> QED BY <1>1, <1>3, <1>4, <1>5, Zenon DEF ChatNext

\* For any number of turns, sockets and tokens, the store, the sends, the sockets and
\* the handlers keep their types, and the compose bar is locked only while a send is in
\* progress, an open connection has work, frames or a cached answer or has lost its
\* handler and waits for the keepalive, or a close event will report an error
\* (useWebSocket.ts, chatStore.ts, chat_handler.py).
THEOREM BarSafety == ChatSpec => [](ChatTypeOK /\ BusyHasCause)
<1>1. WaitInv => ChatTypeOK /\ BusyHasCause
  BY TypedIsOK, BusyWaitsIs DEF WaitInv
<1> QED BY WaitInit, WaitNext, <1>1, PTL DEF ChatSpec

-----------------------------------------------------------------------------
(* One turn at a time, while nothing disturbs it.                          *)

Newest(t) == sends[t].pc # "unsent" /\ \A v \in Turns : v > t => sends[v].pc = "unsent"

NewestTurns == {t \in Turns : Newest(t)}

Active == {"retrieving", "generating", "relaying", "validating"}

\* connection k carries a turn: a message, its answer, or the refusal that ends it
Laden(k) ==
    \/ servers[k].pc # "off" /\ Working(k)
    \/ sockets[k].state = "open" /\ sockets[k].inbox # <<>>
    \/ sockets[k].state = "closing" /\ sockets[k].code = AuthFailure

Alone ==
    /\ \A t \in Turns : Pending(t) => Newest(t) /\ Busy /\ \A k \in Sockets : ~Laden(k)
    /\ \A k \in Sockets : Laden(k) => Busy /\ \A j \in Sockets \ {k} : ~Laden(j)

Has(q, type) == \E i \in DOMAIN q : q[i].type = type

HasFinal(q) == Has(q, "validation_result") \/ Has(q, "error")

FinalOnlyLast(q) ==
    \A i \in DOMAIN q : q[i].type \in {"validation_result", "error"} => i = Len(q)

FramesOf(q, turns) == \A i \in DOMAIN q : q[i].type = "session_ready" \/ q[i].turn \in turns

\* a turn was begun in the tab: a token is shown or on its way
Begun(k) ==
    \/ servers[k].pc \in {"relaying", "validating"}
    \/ servers[k].pc = "generating" /\ servers[k].left < NumTokens
    \/ Has(sockets[k].inbox, "validation_result")

\* what connection k carries is the newest turn, from its message to its last frame
Straight(k) ==
    /\ servers[k].pc # "off" /\ Working(k) => sockets[k].state = "open"
    /\ servers[k].pc \in Active => servers[k].turn \in NewestTurns /\ sockets[k].outbox = <<>>
    /\ servers[k].pc \in {"auth", "idle"} =>
          sockets[k].outbox = <<>> \/ \E t \in NewestTurns : sockets[k].outbox = <<t>>
    /\ sockets[k].state = "open" =>
          /\ FramesOf(sockets[k].inbox, NewestTurns) /\ FinalOnlyLast(sockets[k].inbox)
          /\ HasFinal(sockets[k].inbox) =>
                servers[k].pc \in {"idle", "off"} /\ sockets[k].outbox = <<>>
          /\ Begun(k) => LastIsAnswer(messages) \/ Has(sockets[k].inbox, "token")

StandInv == undisturbed => Alone /\ (\A k \in Sockets : Straight(k)) /\ AnswersStand

\* the inductive invariant of the chat
ChatInv == WaitInv /\ StandInv

-----------------------------------------------------------------------------
(* The frames in a queue, and the newest turn.                             *)

LEMMA NothingQueued ==
    ASSUME NEW turns
    PROVE  /\ \A type : ~Has(<<>>, type)
           /\ ~HasFinal(<<>>) /\ FinalOnlyLast(<<>>) /\ FramesOf(<<>>, turns)
<1>1. DOMAIN <<>> = {}
  OBVIOUS
<1> QED BY <1>1, Zenon DEF Has, HasFinal, FinalOnlyLast, FramesOf

LEMMA FrameQueued ==
    ASSUME NEW q \in Seq(Frame), NEW f \in Frame, NEW turns
    PROVE  /\ \A type : Has(Append(q, f), type) <=> Has(q, type) \/ f.type = type
           /\ FramesOf(q, turns) /\ (f.type = "session_ready" \/ f.turn \in turns)
                 => FramesOf(Append(q, f), turns)
           /\ ~HasFinal(q) => FinalOnlyLast(Append(q, f))
<1> DEFINE p == Append(q, f)
           n == Len(q)
<1>1. /\ n \in Nat /\ DOMAIN q = 1..n /\ DOMAIN p = 1..(n + 1) /\ Len(p) = n + 1
      /\ \A i \in 1..n : p[i] = q[i]
      /\ p[n + 1] = f
  BY Appended
<1> HIDE DEF p, n
<1>2. \A type : Has(p, type) <=> Has(q, type) \/ f.type = type
  BY <1>1 DEF Has
<1>3. FramesOf(q, turns) /\ (f.type = "session_ready" \/ f.turn \in turns) => FramesOf(p, turns)
  BY <1>1 DEF FramesOf
<1>4. ~HasFinal(q) => FinalOnlyLast(p)
  BY <1>1 DEF HasFinal, Has, FinalOnlyLast
<1> QED BY <1>2, <1>3, <1>4 DEF p

LEMMA FrameRead ==
    ASSUME NEW q \in Seq(Frame), q # <<>>, NEW turns
    PROVE  /\ \A type : Has(Tail(q), type) => Has(q, type)
           /\ \A type : Has(q, type) => Has(Tail(q), type) \/ Head(q).type = type
           /\ FramesOf(q, turns) => /\ FramesOf(Tail(q), turns)
                                    /\ Head(q).type = "session_ready" \/ Head(q).turn \in turns
           /\ FinalOnlyLast(q) => FinalOnlyLast(Tail(q))
           /\ FinalOnlyLast(q) /\ Head(q).type \in {"validation_result", "error"} => Tail(q) = <<>>
           /\ Head(q).type \in {"validation_result", "error"} => HasFinal(q)
           /\ Has(q, Head(q).type)
<1> DEFINE p == Tail(q)
           f == Head(q)
           n == Len(q)
<1>1. /\ f = q[1] /\ n \in Nat /\ n > 0 /\ Len(p) = n - 1
      /\ DOMAIN q = 1..n /\ DOMAIN p = 1..(n - 1)
      /\ \A i \in 1..(n - 1) : p[i] = q[i + 1]
      /\ p = <<>> <=> n = 1
  BY Shortened, Zenon
<1> HIDE DEF p, f, n
<1>2. \A type : Has(p, type) => Has(q, type)
  <2> SUFFICES ASSUME NEW type, NEW i \in 1..(n - 1), p[i].type = type PROVE Has(q, type)
    BY <1>1, Zenon DEF Has
  <2>1. i + 1 \in 1..n
    BY <1>1
  <2>2. q[i + 1].type = type
    BY <1>1
  <2> QED BY <1>1, <2>1, <2>2, Zenon DEF Has
<1>3. \A type : Has(q, type) => Has(p, type) \/ f.type = type
  <2> SUFFICES ASSUME NEW type, NEW i \in 1..n, q[i].type = type PROVE Has(p, type) \/ f.type = type
    BY <1>1, Zenon DEF Has
  <2>1. CASE i = 1
    BY <1>1, <2>1
  <2>2. CASE i # 1
    <3>1. i - 1 \in 1..(n - 1) /\ p[i - 1] = q[i]
      BY <1>1, <2>2
    <3> QED BY <1>1, <3>1, Zenon DEF Has
  <2> QED BY <2>1, <2>2
<1>4. FramesOf(q, turns) => FramesOf(p, turns) /\ (f.type = "session_ready" \/ f.turn \in turns)
  BY <1>1 DEF FramesOf
<1>5. FinalOnlyLast(q) => FinalOnlyLast(p)
  BY <1>1 DEF FinalOnlyLast
<1>6. FinalOnlyLast(q) /\ f.type \in {"validation_result", "error"} => p = <<>>
  BY <1>1 DEF FinalOnlyLast
<1>7. Has(q, f.type) /\ (f.type \in {"validation_result", "error"} => HasFinal(q))
  <2>1. 1 \in DOMAIN q
    BY <1>1
  <2>2. Has(q, f.type)
    BY <1>1, <2>1, Zenon DEF Has
  <2> QED BY <2>2 DEF HasFinal
<1> QED BY <1>2, <1>3, <1>4, <1>5, <1>6, <1>7 DEF p, f

LEMMA OneNewest ==
    ASSUME NEW t \in Turns, NEW u \in Turns, Newest(t), Newest(u)
    PROVE  t = u
BY Numbers DEF Newest, Turns

\* the turns that are started do not change
LEMMA NewestKept ==
    ASSUME NEW t \in Turns, OtherSends(t), sends[t].pc # "unsent", sends'[t].pc # "unsent"
    PROVE  NewestTurns' = NewestTurns /\ \A u \in Turns : Newest(u)' <=> Newest(u)
<1>1. \A u \in Turns : sends'[u].pc = "unsent" <=> sends[u].pc = "unsent"
  BY DEF OtherSends
<1>2. \A u \in Turns : Newest(u)' <=> Newest(u)
  BY <1>1 DEF Newest
<1> QED BY <1>2, Zenon DEF NewestTurns

LEMMA NewestStays ==
    ASSUME sends' = sends
    PROVE  /\ NewestTurns' = NewestTurns
           /\ \A u \in Turns : Newest(u)' <=> Newest(u)
           /\ \A u \in Turns : Pending(u)' <=> Pending(u)
BY DEF NewestTurns, Newest, Pending

\* a connection that carries nothing has nothing in its queues
LEMMA UnladenIsEmpty ==
    ASSUME NEW k \in Sockets, ~Laden(k)
    PROVE  /\ servers[k].pc \notin Active
           /\ servers[k].pc # "off" => sockets[k].outbox = <<>>
           /\ sockets[k].state = "open" => sockets[k].inbox = <<>>
BY DEF Laden, Active, Working

\* and after a step, nothing to get wrong
LEMMA UnladenIsStraight ==
    ASSUME NEW k \in Sockets, ~Laden(k)'
    PROVE  Straight(k)'
<1>1. /\ servers'[k].pc # "off" => ~Working(k)'
      /\ sockets'[k].state = "open" => sockets'[k].inbox = <<>>
  BY DEF Laden
<1>2. servers'[k].pc \notin Active /\ (servers'[k].pc # "off" => sockets'[k].outbox = <<>>)
  BY <1>1 DEF Active, Working
<1>3. sockets'[k].state = "open" =>
         /\ FramesOf(sockets'[k].inbox, NewestTurns') /\ FinalOnlyLast(sockets'[k].inbox)
         /\ ~HasFinal(sockets'[k].inbox) /\ ~Begun(k)'
  BY <1>1, <1>2, NothingQueued DEF Begun, Active
<1> QED BY <1>1, <1>2, <1>3 DEF Straight

LEMMA LadenKept ==
    ASSUME NEW k \in Sockets, OthersStay(k), NEW j \in Sockets \ {k}
    PROVE  Laden(j)' <=> Laden(j)
<1>1. sockets'[j] = sockets[j] /\ servers'[j] = servers[j]
  BY OthersKeep, Zenon
<1> QED BY <1>1 DEF Laden, Working

LEMMA StraightKept ==
    ASSUME NEW k \in Sockets, OthersStay(k), NEW j \in Sockets \ {k}, ClientStays, Straight(j)
    PROVE  Straight(j)'
<1>1. sockets'[j] = sockets[j] /\ servers'[j] = servers[j]
  BY OthersKeep, Zenon
<1>2. NewestTurns' = NewestTurns /\ messages' = messages
  BY NewestStays DEF ClientStays
<1> QED BY <1>1, <1>2 DEF Straight, Working, Begun

\* the answer that stands is that of the newest turn
LEMMA Standing ==
    ASSUME NEW u \in Turns, Newest(u), sends' = sends,
           messages'[Len(messages')].badge = "validated",
           ~messages'[Len(messages')].incomplete,
           Shows(messages'[Len(messages')], u)
    PROVE  AnswersStand'
<1> DEFINE t == CHOOSE w \in Turns : /\ sends[w].pc # "unsent"
                                     /\ \A v \in Turns : v > w => sends[v].pc = "unsent"
<1>1. t \in Turns /\ Newest(t)
  BY Zenon DEF Newest
<1> HIDE DEF t
<1>2. t = u
  BY <1>1, OneNewest
<1> QED BY <1>2 DEF AnswersStand, t

\* when nothing is carried after a step, nothing is left to show wrong
LEMMA AllUnladen ==
    ASSUME \A k \in Sockets : ~Laden(k)', \A t \in Turns : Pending(t)' => Newest(t)' /\ Busy',
           AnswersStand'
    PROVE  StandInv'
<1>1. \A k \in Sockets : Straight(k)'
  BY UnladenIsStraight, Zenon
<1> QED BY <1>1, Zenon DEF StandInv, Alone

\* after a step, one connection carries the newest turn
LEMMA OneLaden ==
    ASSUME NEW k \in Sockets, \A j \in Sockets \ {k} : ~Laden(j)',
           \A t \in Turns : ~Pending(t)', Laden(k)' => Busy', Straight(k)', AnswersStand'
    PROVE  StandInv'
<1>1. \A j \in Sockets : Straight(j)'
  BY UnladenIsStraight, Zenon
<1> QED BY <1>1, Zenon DEF StandInv, Alone

LEMMA QueuedStraight ==
    ASSUME ChatInv, NEW k \in Sockets, NEW t \in Turns, Queued(k, t), Typed',
           \A j \in Sockets : ~Laden(j), Newest(t)', Busy', \A u \in Turns : ~Pending(u)',
           AnswersStand'
    PROVE  StandInv'
<1>1. /\ sockets[k].state = "open" /\ servers'[k] = servers[k] /\ OthersStay(k)
      /\ SocketIs(k, "open", sockets[k].code, Append(sockets[k].outbox, t), sockets[k].inbox)
  BY DEF Queued
<1>2. /\ servers[k].pc \notin Active /\ sockets[k].inbox = <<>>
      /\ servers[k].pc # "off" => sockets[k].outbox = <<>>
  BY <1>1, UnladenIsEmpty
<1>3. \A j \in Sockets \ {k} : ~Laden(j)'
  BY <1>1, LadenKept, Zenon
<1>4. CASE servers[k].pc = "off"
  <2>1. ~Laden(k)'
    BY <1>1, <1>2, <1>4 DEF Laden, SocketIs
  <2> QED BY <1>3, <2>1, AllUnladen, Zenon
<1>5. CASE servers[k].pc # "off"
  <2>1. t \in NewestTurns' /\ sockets'[k].outbox = <<t>> /\ sockets'[k].inbox = <<>>
    BY <1>1, <1>2, <1>5, FirstAppended DEF NewestTurns, SocketIs
  <2>2. FramesOf(<<>>, NewestTurns') /\ FinalOnlyLast(<<>>) /\ ~HasFinal(<<>>) /\ ~Begun(k)'
    BY <1>1, <1>2, <2>1, NothingQueued DEF Begun, Active
  <2>3. servers'[k].pc \notin Active /\ sockets'[k].state = "open"
    BY <1>1, <1>2 DEF SocketIs
  <2>4. Straight(k)'
    BY <2>1, <2>2, <2>3 DEF Straight
  <2> QED BY <1>3, <2>4, OneLaden, Zenon
<1> QED BY <1>4, <1>5

LEMMA StandStart ==
    ASSUME ChatInv, NEW t \in Turns, StartSend(t), Typed'
    PROVE  StandInv'
<1> SUFFICES ASSUME undisturbed' PROVE StandInv'
  BY DEF StandInv
<1>1. /\ streaming' = "thinking" /\ servers' = servers
      /\ undisturbed /\ ~Busy /\ \A u \in Turns : ~Pending(u)
      /\ sends[t].pc = "unsent" /\ OtherSends(t)
      /\ \/ sends'[t].pc \in {"upload", "token"} /\ sockets' = sockets
         \/ sends'[t].pc = "sent" /\ \E k \in Sockets : Queued(k, t)
  BY StartSendIs, Zenon DEF ChatInv, WaitInv
<1>2. \A k \in Sockets : ~Laden(k)
  BY <1>1 DEF ChatInv, StandInv, Alone
<1>3. AnswersStand' /\ Busy'
  BY <1>1 DEF AnswersStand, Busy
<1>4. Newest(t)'
  <2>1. \A v \in Turns : v > t => sends[v].pc = "unsent"
    BY <1>1, Numbers DEF ChatInv, WaitInv, SendsFit
  <2>2. \A v \in Turns : v > t => sends'[v] = sends[v]
    BY <1>1, Numbers DEF OtherSends
  <2>3. sends'[t].pc # "unsent"
    BY <1>1
  <2> QED BY <2>1, <2>2, <2>3 DEF Newest
<1>5. \A u \in Turns : Pending(u)' => u = t
  BY <1>1 DEF OtherSends, Pending
<1>6. CASE sends'[t].pc \in {"upload", "token"} /\ sockets' = sockets
  <2>1. \A k \in Sockets : ~Laden(k)'
    BY <1>1, <1>2, <1>6 DEF Laden, Working
  <2> QED BY <1>3, <1>4, <1>5, <2>1, AllUnladen, Zenon
<1>7. CASE sends'[t].pc = "sent" /\ \E k \in Sockets : Queued(k, t)
  <2>1. PICK k \in Sockets : Queued(k, t)
    BY <1>7
  <2>2. \A u \in Turns : ~Pending(u)'
    BY <1>5, <1>7 DEF Pending
  <2> QED BY <1>2, <1>3, <1>4, <2>1, <2>2, QueuedStraight, Zenon
<1> QED BY <1>1, <1>6, <1>7

LEMMA StandSend ==
    ASSUME ChatInv, NEW t \in Turns, SendStep(t), Typed'
    PROVE  StandInv'
<1> SUFFICES ASSUME undisturbed' PROVE StandInv'
  BY DEF StandInv
<1>1. undisturbed' = undisturbed /\ Pending(t)
  BY Zenon DEF SendStep, Uploaded, SendRefused, Connect, Opened, ConnectTimeout, Pending
<1>2. undisturbed /\ Newest(t) /\ Busy /\ (\A k \in Sockets : ~Laden(k)) /\ AnswersStand
  BY <1>1 DEF ChatInv, StandInv, Alone
<1>3. \A u \in Turns : Pending(u) => u = t
  BY <1>1, <1>2, OneNewest DEF ChatInv, StandInv, Alone
<1>4. Typed /\ \A k \in Sockets : Served(k)
  BY DEF ChatInv, WaitInv, Flow
<1>5. sends[t].pc # "unsent"
  BY <1>1 DEF Pending
<1>6. streaming # "complete"
  BY <1>2 DEF Busy
<1>7. ASSUME OtherSends(t), sends'[t].pc # "unsent"
      PROVE  Newest(t)' /\ \A u \in Turns : Pending(u)' => u = t
  BY <1>2, <1>3, <1>5, <1>7, NewestKept DEF OtherSends, Pending
<1>8. CASE Uploaded(t)
  <2>1. /\ streaming' = streaming /\ servers' = servers /\ OtherSends(t)
        /\ \/ sends'[t].pc = "token" /\ sockets' = sockets
           \/ sends'[t].pc = "sent" /\ \E k \in Sockets : Queued(k, t)
    BY <1>4, <1>8, UploadedIs, Zenon
  <2>2. Newest(t)' /\ \A u \in Turns : Pending(u)' => u = t
    BY <1>7, <2>1
  <2>3. AnswersStand' /\ Busy'
    BY <1>2, <1>6, <2>1 DEF AnswersStand, Busy
  <2>4. CASE sends'[t].pc = "token" /\ sockets' = sockets
    <3>1. \A k \in Sockets : ~Laden(k)'
      BY <1>2, <2>1, <2>4 DEF Laden, Working
    <3> QED BY <2>2, <2>3, <3>1, AllUnladen, Zenon
  <2>5. CASE sends'[t].pc = "sent" /\ \E k \in Sockets : Queued(k, t)
    <3>1. PICK k \in Sockets : Queued(k, t)
      BY <2>5
    <3>2. \A u \in Turns : ~Pending(u)'
      BY <2>2, <2>5 DEF Pending
    <3> QED BY <1>2, <2>2, <2>3, <3>1, <3>2, QueuedStraight, Zenon
  <2> QED BY <2>1, <2>4, <2>5
<1>9. CASE SendRefused(t)
  <2>1. /\ sockets' = sockets /\ servers' = servers /\ streaming' = "error"
        /\ sends'[t].pc = "failed" /\ OtherSends(t)
    BY <1>4, <1>9, SendRefusedIs, Zenon
  <2>2. \A u \in Turns : ~Pending(u)'
    BY <1>7, <2>1 DEF Pending
  <2>3. \A k \in Sockets : ~Laden(k)'
    BY <1>2, <2>1 DEF Laden, Working
  <2>4. AnswersStand'
    BY <2>1 DEF AnswersStand
  <2> QED BY <2>2, <2>3, <2>4, AllUnladen, Zenon
<1>10. CASE Connect(t)
  <2>1. /\ streaming' = streaming /\ servers' = servers
        /\ sends'[t].pc = "connecting" /\ OtherSends(t)
    BY <1>4, <1>10, ConnectIs, Zenon
  <2>2. PICK k \in Sockets : /\ sockets[k].state = "unborn" /\ OthersStay(k)
                             /\ SocketIs(k, "connecting", sockets[k].code,
                                         sockets[k].outbox, sockets[k].inbox)
    BY <1>4, <1>10, ConnectIs, Zenon
  <2>3. ~Laden(k)'
    BY <1>4, <2>1, <2>2 DEF Served, Laden, SocketIs
  <2>4. \A j \in Sockets : ~Laden(j)'
    BY <1>2, <2>2, <2>3, LadenKept, Zenon
  <2>5. Newest(t)' /\ \A u \in Turns : Pending(u)' => u = t
    BY <1>7, <2>1
  <2>6. AnswersStand' /\ Busy'
    BY <1>2, <1>6, <2>1 DEF AnswersStand, Busy
  <2> QED BY <2>4, <2>5, <2>6, AllUnladen, Zenon
<1>11. CASE Opened(t)
  <2>1. sends[t].pc = "connecting"
    BY <1>11, Zenon DEF Opened
  <2>2. sends[t].socket \in Sockets
    BY <2>1, Zenon DEF ChatInv, WaitInv, SendsFit
  <2>3. streaming' = streaming /\ sends'[t].pc = "sent" /\ OtherSends(t)
    BY <1>4, <1>11, <2>2, OpenedIs, Zenon
  <2>4. PICK k \in Sockets : /\ sockets[k].state = "connecting" /\ OthersStay(k)
                             /\ SocketIs(k, "open", sockets[k].code,
                                         Append(sockets[k].outbox, t), sockets[k].inbox)
                             /\ ServerIs(k, "auth", servers[k].turn, servers[k].left,
                                         servers[k].relay, servers[k].cached)
    BY <1>4, <1>11, <2>2, OpenedIs, Zenon
  <2>5. sockets[k].outbox = <<>> /\ sockets[k].inbox = <<>>
    BY <1>4, <2>4 DEF Served
  <2>6. Newest(t)' /\ \A u \in Turns : ~Pending(u)'
    BY <1>7, <2>3 DEF Pending
  <2>7. AnswersStand' /\ Busy'
    BY <1>2, <1>6, <2>3 DEF AnswersStand, Busy
  <2>8. \A j \in Sockets \ {k} : ~Laden(j)'
    BY <1>2, <2>4, LadenKept, Zenon
  <2>9. t \in NewestTurns' /\ sockets'[k].outbox = <<t>> /\ sockets'[k].inbox = <<>>
    BY <2>4, <2>5, <2>6, FirstAppended DEF NewestTurns, SocketIs
  <2>10. servers'[k].pc = "auth" /\ sockets'[k].state = "open"
    BY <2>4 DEF SocketIs, ServerIs
  <2>11. FramesOf(<<>>, NewestTurns') /\ FinalOnlyLast(<<>>) /\ ~HasFinal(<<>>) /\ ~Begun(k)'
    BY <2>9, <2>10, NothingQueued DEF Begun
  <2>12. Straight(k)'
    BY <2>9, <2>10, <2>11 DEF Straight, Active
  <2> QED BY <2>6, <2>7, <2>8, <2>12, OneLaden, Zenon
<1>12. CASE ConnectTimeout(t)
  <2>1. sends[t].pc = "connecting"
    BY <1>12, Zenon DEF ConnectTimeout
  <2>2. sends[t].socket \in Sockets
    BY <2>1, Zenon DEF ChatInv, WaitInv, SendsFit
  <2>3. /\ servers' = servers /\ streaming' = "error" /\ sends'[t].pc = "failed" /\ OtherSends(t)
        /\ \/ sockets' = sockets
           \/ \E k \in Sockets : sockets[k].state = "connecting" /\ Closed(k, Abnormal)
    BY <1>4, <1>12, <2>2, ConnectTimeoutIs, Zenon
  <2>4. \A u \in Turns : ~Pending(u)'
    BY <1>7, <2>3 DEF Pending
  <2>5. AnswersStand'
    BY <2>3 DEF AnswersStand
  <2>6. \A j \in Sockets : ~Laden(j)'
    <3>1. CASE sockets' = sockets
      BY <1>2, <2>3, <3>1 DEF Laden, Working
    <3>2. CASE \E k \in Sockets : sockets[k].state = "connecting" /\ Closed(k, Abnormal)
      <4>1. PICK k \in Sockets : sockets[k].state = "connecting" /\ Closed(k, Abnormal)
        BY <3>2
      <4>2. OthersStay(k)
        BY <2>3, <4>1 DEF OthersStay, Closed
      <4>3. ~Laden(k)'
        BY <1>4, <2>3, <4>1 DEF Served, Laden, Closed, SocketIs, Abnormal, AuthFailure
      <4> QED BY <1>2, <4>2, <4>3, LadenKept, Zenon
    <3> QED BY <2>3, <3>1, <3>2
  <2> QED BY <2>4, <2>5, <2>6, AllUnladen, Zenon
<1> QED BY <1>8, <1>9, <1>10, <1>11, <1>12 DEF SendStep

LEMMA StandStays ==
    ASSUME StandInv, ClientStays, sockets' = sockets, servers' = servers, undisturbed' = undisturbed
    PROVE  StandInv'
<1>1. /\ NewestTurns' = NewestTurns
      /\ \A t \in Turns : (Newest(t)' <=> Newest(t)) /\ (Pending(t)' <=> Pending(t))
  BY NewestStays, Zenon DEF ClientStays
<1>2. \A k \in Sockets : Laden(k)' <=> Laden(k)
  BY DEF Laden, Working
<1>3. \A k \in Sockets : Straight(k)' <=> Straight(k)
  BY <1>1 DEF Straight, Working, Begun, ClientStays
<1>4. (Busy' <=> Busy) /\ (AnswersStand' <=> AnswersStand)
  BY DEF Busy, AnswersStand, ClientStays
<1>5. Alone' <=> Alone
  BY <1>1, <1>2, <1>4, Zenon DEF Alone
<1> QED BY <1>3, <1>4, <1>5 DEF StandInv

\* a step of one connection that takes on no turn
LEMMA CarriedOn ==
    ASSUME ChatInv, NEW k \in Sockets, OthersStay(k), ClientStays, undisturbed,
           Laden(k)' => Laden(k), Laden(k)' => Straight(k)'
    PROVE  StandInv'
<1>1. \A t \in Turns : (Newest(t)' <=> Newest(t)) /\ (Pending(t)' <=> Pending(t))
  BY NewestStays, Zenon DEF ClientStays
<1>2. (Busy' <=> Busy) /\ (AnswersStand => AnswersStand')
  BY DEF Busy, AnswersStand, ClientStays
<1>3. Alone /\ (\A j \in Sockets : Straight(j)) /\ AnswersStand
  BY DEF ChatInv, StandInv
<1>4. \A j \in Sockets : Laden(j)' => Laden(j)
  BY LadenKept, Zenon
<1>5. \A j \in Sockets : Straight(j)'
  BY <1>3, StraightKept, UnladenIsStraight, Zenon
<1>6. Alone'
  BY <1>1, <1>2, <1>3, <1>4, Zenon DEF Alone
<1> QED BY <1>2, <1>3, <1>5, <1>6, Zenon DEF StandInv

LEMMA StandEmployee ==
    ASSUME ChatInv, Attach \/ RemoveScreenshot \/ NewSession \/ OpenSession
    PROVE  StandInv'
<1>1. Typed
  BY DEF ChatInv, WaitInv
<1>2. CASE Attach \/ RemoveScreenshot
  BY <1>1, <1>2, AttachIs, StandStays, Zenon DEF ClientStays, ChatInv
<1>3. CASE NewSession \/ OpenSession
  BY <1>1, <1>3, NewSessionIs, OpenSessionIs DEF StandInv
<1> QED BY <1>2, <1>3

LEMMA StandSocket ==
    ASSUME ChatInv, NEW k \in Sockets,
           CloseEvent(k) \/ ConnectionLost(k) \/ PongTimeout(k) \/ PongMissing(k)
    PROVE  StandInv'
<1> SUFFICES ASSUME undisturbed' PROVE StandInv'
  BY DEF StandInv
<1>1. Typed /\ Served(k) /\ sends' = sends /\ servers' = servers
  BY Zenon DEF ChatInv, WaitInv, Flow, CloseEvent, ConnectionLost, PongTimeout, PongMissing
<1>2. undisturbed
  BY DEF CloseEvent, ConnectionLost, PongTimeout, PongMissing
<1>3. Alone /\ (\A j \in Sockets : Straight(j)) /\ AnswersStand
  BY <1>2 DEF ChatInv, StandInv
<1>4. \A t \in Turns : (Newest(t)' <=> Newest(t)) /\ (Pending(t)' <=> Pending(t))
  BY <1>1, NewestStays, Zenon
<1>5. CASE CloseEvent(k)
  <2>1. /\ sockets[k].state = "closing" /\ OthersStay(k)
        /\ SocketIs(k, "closed", sockets[k].code, sockets[k].outbox, sockets[k].inbox)
        /\ Busy => sockets[k].code \in {Clean, AuthFailure}
        /\ \/ messages' = messages /\ streaming' = streaming
           \/ streaming' = "error" /\ sockets[k].code = AuthFailure
    BY <1>1, <1>5, CloseEventIs
  <2>2. ~Laden(k)'
    BY <1>1, <1>3, <2>1 DEF Straight, Laden, Working, SocketIs
  <2>3. CASE messages' = messages /\ streaming' = streaming
    BY <1>1, <1>2, <2>1, <2>2, <2>3, CarriedOn DEF ClientStays
  <2>4. CASE streaming' = "error" /\ sockets[k].code = AuthFailure
    <3>1. Laden(k)
      BY <2>1, <2>4 DEF Laden
    <3>2. \A j \in Sockets \ {k} : ~Laden(j)
      BY <1>3, <3>1 DEF Alone
    <3>3. \A j \in Sockets : ~Laden(j)'
      BY <2>1, <2>2, <3>2, LadenKept, Zenon
    <3>4. \A t \in Turns : ~Pending(t)'
      BY <1>3, <1>4, <3>1, Zenon DEF Alone
    <3>5. AnswersStand'
      BY <2>4 DEF AnswersStand
    <3> QED BY <3>3, <3>4, <3>5, AllUnladen, Zenon
  <2> QED BY <2>1, <2>3, <2>4
<1>6. CASE ConnectionLost(k)
  <2>1. /\ OthersStay(k) /\ ~Working(k) /\ ~Busy
        /\ SocketIs(k, "closed", sockets[k].code, sockets[k].outbox, <<>>)
        /\ messages' = messages /\ streaming' = streaming
    BY <1>1, <1>6, ConnectionLostIs
  <2>2. ~Laden(k)'
    BY <1>1, <2>1 DEF Laden, Working, SocketIs
  <2> QED BY <1>1, <1>2, <2>1, <2>2, CarriedOn DEF ClientStays
<1>7. CASE PongTimeout(k) \/ PongMissing(k)
  <2>1. /\ messages' = messages /\ streaming' = streaming /\ ~Working(k)
        /\ Closed(k, PongTimeoutCode)
    BY <1>1, <1>7, PongTimeoutIs
  <2>2. OthersStay(k)
    BY <1>1, <2>1 DEF OthersStay, Closed
  <2>3. ~Laden(k)'
    BY <1>1, <2>1 DEF Laden, Working, Closed, SocketIs, PongTimeoutCode, AuthFailure
  <2> QED BY <1>1, <1>2, <2>1, <2>2, <2>3, CarriedOn DEF ClientStays
<1> QED BY <1>5, <1>6, <1>7

LEMMA StandReceive ==
    ASSUME ChatInv, NEW k \in Sockets, ClientReceive(k)
    PROVE  StandInv'
<1> SUFFICES ASSUME undisturbed' PROVE StandInv'
  BY DEF StandInv
<1> DEFINE q == sockets[k].inbox
           f == Head(q)
<1>1. Typed /\ q \in Seq(Frame)
  BY SocketParts DEF ChatInv, WaitInv
<1>2. /\ sends' = sends /\ servers' = servers /\ undisturbed' = undisturbed
      /\ sockets[k].state = "open" /\ q # <<>> /\ OthersStay(k)
      /\ SocketIs(k, "open", sockets[k].code, sockets[k].outbox, Tail(q))
      /\ Handled(f)
  BY <1>1, ClientReceiveIs, Zenon
<1>3. Alone /\ Straight(k) /\ AnswersStand
  BY <1>2 DEF ChatInv, StandInv
<1>4. Laden(k)
  BY <1>2 DEF Laden
<1>5. Busy /\ \A j \in Sockets \ {k} : ~Laden(j)
  BY <1>3, <1>4 DEF Alone
<1>6. \A j \in Sockets \ {k} : ~Laden(j)'
  BY <1>2, <1>5, LadenKept, Zenon
<1>7. \A t \in Turns : ~Pending(t)'
  BY <1>2, <1>3, <1>4, NewestStays, Zenon DEF Alone
<1>8. /\ \A type : Has(Tail(q), type) => Has(q, type)
      /\ \A type : Has(q, type) => Has(Tail(q), type) \/ f.type = type
      /\ FramesOf(q, NewestTurns) => /\ FramesOf(Tail(q), NewestTurns)
                                     /\ f.type = "session_ready" \/ f.turn \in NewestTurns
      /\ FinalOnlyLast(q) => FinalOnlyLast(Tail(q))
      /\ FinalOnlyLast(q) /\ f.type \in {"validation_result", "error"} => Tail(q) = <<>>
      /\ f.type \in {"validation_result", "error"} => HasFinal(q)
      /\ Has(q, f.type)
  BY <1>1, <1>2, FrameRead, Zenon
<1>9. NewestTurns' = NewestTurns
  BY <1>2, NewestStays
<1> HIDE DEF q, f
<1>10. /\ FramesOf(q, NewestTurns) /\ FinalOnlyLast(q)
       /\ HasFinal(q) => servers[k].pc \in {"idle", "off"} /\ sockets[k].outbox = <<>>
       /\ Begun(k) => LastIsAnswer(messages) \/ Has(q, "token")
  BY <1>2, <1>3 DEF Straight, q
<1>11. LastIsAnswer(messages) => LastIsAnswer(messages')
  BY <1>2 DEF Handled, LastIsAnswer
<1>12. f.type = "token" => LastIsAnswer(messages')
  BY <1>2 DEF Handled
<1>13. HasFinal(Tail(q)) => HasFinal(q)
  BY <1>8 DEF HasFinal
<1>14. Begun(k)' => Begun(k)
  BY <1>2, <1>8 DEF Begun, SocketIs, q
<1>15. Begun(k)' => LastIsAnswer(messages') \/ Has(Tail(q), "token")
  BY <1>8, <1>10, <1>11, <1>12, <1>14
<1>16. Straight(k)'
  <2>1. /\ FramesOf(Tail(q), NewestTurns) /\ FinalOnlyLast(Tail(q))
        /\ HasFinal(Tail(q)) => servers[k].pc \in {"idle", "off"} /\ sockets[k].outbox = <<>>
    BY <1>8, <1>10, <1>13
  <2> QED BY <1>2, <1>3, <1>9, <1>15, <2>1 DEF Straight, Working, SocketIs
<1>17. Laden(k)' => Busy'
  <2>1. CASE f.type \in {"validation_result", "error"}
    <3>1. Tail(q) = <<>> /\ servers[k].pc \in {"idle", "off"} /\ sockets[k].outbox = <<>>
      BY <1>8, <1>10, <2>1
    <3>2. ~Laden(k)'
      BY <1>2, <3>1 DEF Laden, Working, SocketIs
    <3> QED BY <3>2
  <2>2. CASE f.type \notin {"validation_result", "error"}
    BY <1>2, <1>5, <2>2 DEF Handled, Busy
  <2> QED BY <2>1, <2>2
<1>18. AnswersStand'
  <2>1. CASE f.type = "validation_result"
    <3>1. Tail(q) = <<>> /\ f.turn \in NewestTurns /\ Has(q, "validation_result")
      BY <1>8, <1>10, <2>1
    <3>2. ~Has(Tail(q), "token") /\ ~Has(q, "token")
      <4>1. ~Has(Tail(q), "token")
        BY <3>1, NothingQueued
      <4> QED BY <1>8, <2>1, <4>1
    <3>3. LastIsAnswer(messages)
      BY <1>10, <3>1, <3>2 DEF Begun, q
    <3>4. /\ messages'[Len(messages')].badge = "validated"
          /\ ~messages'[Len(messages')].incomplete
          /\ Shows(messages'[Len(messages')], f.turn)
      BY <1>2, <2>1, <3>3 DEF Handled
    <3>5. f.turn \in Turns /\ Newest(f.turn)
      BY <3>1, Zenon DEF NewestTurns
    <3> QED BY <1>2, <3>4, <3>5, Standing, Zenon
  <2>2. CASE f.type # "validation_result"
    <3>1. streaming' # "complete"
      BY <1>2, <1>5, <2>2 DEF Handled, Busy
    <3> QED BY <3>1 DEF AnswersStand
  <2> QED BY <2>1, <2>2
<1> QED BY <1>6, <1>7, <1>16, <1>17, <1>18, OneLaden, Zenon

LEMMA FrameReceived ==
    ASSUME Typed, NEW k \in Sockets, NEW type \in FrameTypes, NEW turn \in Turns \cup {0},
           sockets[k].state = "open", ~HasFinal(sockets[k].inbox),
           FramesOf(sockets[k].inbox, NewestTurns), type = "session_ready" \/ turn \in NewestTurns
    PROVE  LET in == Received(k, type, turn)
           IN  /\ FramesOf(in, NewestTurns) /\ FinalOnlyLast(in)
               /\ Has(in, "token") <=> Has(sockets[k].inbox, "token") \/ type = "token"
               /\ Has(in, "validation_result") <=> type = "validation_result"
               /\ Has(in, "error") <=> type = "error"
<1> DEFINE f == [type |-> type, turn |-> turn]
           q == sockets[k].inbox
<1>1. f \in Frame /\ f.type = type /\ f.turn = turn
  BY DEF Frame, FrameTypes
<1>2. Received(k, type, turn) = Append(q, f) /\ q \in Seq(Frame)
  BY SocketParts DEF Received
<1>3. ~Has(q, "validation_result") /\ ~Has(q, "error") /\ ~HasFinal(q) /\ FramesOf(q, NewestTurns)
  BY DEF HasFinal
<1> HIDE DEF f, q
<1>4. /\ \A ty : Has(Append(q, f), ty) <=> Has(q, ty) \/ f.type = ty
      /\ FramesOf(q, NewestTurns) /\ (f.type = "session_ready" \/ f.turn \in NewestTurns)
            => FramesOf(Append(q, f), NewestTurns)
      /\ ~HasFinal(q) => FinalOnlyLast(Append(q, f))
  BY <1>1, <1>2, FrameQueued, Zenon
<1>5. FramesOf(Append(q, f), NewestTurns) /\ FinalOnlyLast(Append(q, f))
  BY <1>1, <1>3, <1>4
<1>6. /\ Has(Append(q, f), "token") <=> Has(q, "token") \/ type = "token"
      /\ Has(Append(q, f), "validation_result") <=> type = "validation_result"
      /\ Has(Append(q, f), "error") <=> type = "error"
  BY <1>1, <1>3, <1>4
<1> QED BY <1>2, <1>5, <1>6 DEF q

LEMMA StandServer ==
    ASSUME ChatInv, NEW k \in Sockets, ServerStep(k)
    PROVE  StandInv'
<1> SUFFICES ASSUME undisturbed' PROVE StandInv'
  BY DEF StandInv
<1> DEFINE q == sockets[k].inbox
<1>1. Typed /\ Served(k) /\ 0 \in Turns \cup {0} /\ servers[k].turn \in Turns \cup {0}
  BY SocketParts DEF ChatInv, WaitInv, Flow
<1>2. undisturbed
  BY Zenon DEF ServerStep, Authenticate, ServerReceive, CachedAnswer, Insufficient, Generate, Subscribe,
         PublishToken, PublishComplete, RelayEnded, SendResult, clientVars
<1>3. Alone /\ Straight(k)
  BY <1>2 DEF ChatInv, StandInv
<1>4. ASSUME OthersStay(k), ClientStays, Laden(k)' => Laden(k), Laden(k)' => Straight(k)'
      PROVE  StandInv'
  BY <1>2, <1>4, CarriedOn
<1>5. ASSUME ClientStays
      PROVE  NewestTurns' = NewestTurns /\ messages' = messages
  BY <1>5, NewestStays DEF ClientStays
<1>6. CASE Authenticate(k)
  <2>1. ClientStays /\ OthersStay(k) /\ servers[k].pc = "auth"
    BY <1>1, <1>6, AuthenticateIs, Zenon
  <2>2. CASE /\ ServerIs(k, "idle", servers[k].turn, servers[k].left, servers[k].relay, servers[k].cached)
             /\ SocketIs(k, sockets[k].state, sockets[k].code, sockets[k].outbox,
                         Received(k, "session_ready", 0))
    <3>1. sockets[k].state = "open" => sockets[k].outbox # <<>>
      BY <1>1, <2>1 DEF Served
    <3>2. Laden(k)' => Laden(k)
      BY <2>1, <2>2, <3>1 DEF Laden, Working, SocketIs, ServerIs
    <3>3. ASSUME sockets[k].state = "open"
          PROVE  LET in == Received(k, "session_ready", 0)
                 IN  /\ FramesOf(in, NewestTurns) /\ FinalOnlyLast(in)
                     /\ ~Has(in, "validation_result") /\ ~Has(in, "error")
      <4>1. ~HasFinal(q) /\ FramesOf(q, NewestTurns)
        BY <1>3, <2>1, <3>3 DEF Straight
      <4> QED BY <1>1, <3>3, <4>1, FrameReceived DEF FrameTypes
    <3>4. Straight(k)'
      BY <1>3, <1>5, <2>1, <2>2, <3>3 DEF Straight, HasFinal, Begun, Active, Working, SocketIs, ServerIs
    <3> QED BY <1>4, <2>1, <3>2, <3>4, Zenon
  <2>3. CASE /\ ServerIs(k, "off", servers[k].turn, servers[k].left, servers[k].relay, servers[k].cached)
             /\ sockets[k].state = "open" /\ Closed(k, AuthFailure)
    <3>1. Laden(k)
      BY <1>1, <2>1, <2>3 DEF Laden, Working, Served
    <3>2. Straight(k)'
      BY <2>3 DEF Straight, Active, Closed, SocketIs, ServerIs
    <3> QED BY <1>4, <2>1, <3>1, <3>2, Zenon
  <2> QED BY <1>1, <1>6, <2>2, <2>3, AuthenticateIs, Zenon
<1>7. CASE ServerReceive(k)
  <2>1. /\ ClientStays /\ OthersStay(k) /\ servers[k].pc = "idle" /\ sockets[k].outbox # <<>>
        /\ ServerIs(k, "retrieving", Head(sockets[k].outbox), servers[k].left, servers[k].relay, FALSE)
        /\ SocketIs(k, sockets[k].state, sockets[k].code, Tail(sockets[k].outbox), q)
    BY <1>1, <1>7, ServerReceiveIs, Zenon
  <2>2. Laden(k)
    BY <2>1 DEF Laden, Working
  <2>3. PICK t \in NewestTurns : sockets[k].outbox = <<t>>
    BY <1>3, <2>1 DEF Straight
  <2>4. Head(sockets[k].outbox) = t /\ Tail(sockets[k].outbox) = <<>>
    BY <2>3
  <2>5. sockets[k].state = "open" /\ ~HasFinal(q)
    BY <1>3, <2>1 DEF Straight, Working
  <2>6. ~Has(q, "validation_result")
    BY <2>5 DEF HasFinal
  <2>7. Straight(k)'
    BY <1>3, <1>5, <2>1, <2>4, <2>5, <2>6 DEF Straight, Begun, Active, SocketIs, ServerIs
  <2> QED BY <1>4, <2>1, <2>2, <2>7, Zenon
<1>8. CASE servers[k].pc \in Active
  <2>1. /\ sockets[k].state = "open" /\ Laden(k) /\ sockets[k].outbox = <<>>
        /\ servers[k].turn \in NewestTurns
        /\ ~HasFinal(q) /\ FramesOf(q, NewestTurns) /\ FinalOnlyLast(q)
        /\ Begun(k) => LastIsAnswer(messages) \/ Has(q, "token")
    BY <1>3, <1>8 DEF Straight, Laden, Working, Active
  <2>2. ~Has(q, "validation_result") /\ ~Has(q, "error")
    BY <2>1 DEF HasFinal
  <2>3. ASSUME NEW type \in {"token", "stream_complete", "validation_result", "error"}
        PROVE  LET in == Received(k, type, servers[k].turn)
               IN  /\ FramesOf(in, NewestTurns) /\ FinalOnlyLast(in)
                   /\ Has(in, "token") <=> Has(q, "token") \/ type = "token"
                   /\ Has(in, "validation_result") <=> type = "validation_result"
                   /\ Has(in, "error") <=> type = "error"
    BY <1>1, <2>1, FrameReceived DEF FrameTypes
  <2>4. CASE CachedAnswer(k)
    <3> DEFINE f == [type |-> "token", turn |-> servers[k].turn]
               g == [type |-> "stream_complete", turn |-> servers[k].turn]
               p == Append(q, f)
    <3>1. /\ ClientStays /\ OthersStay(k)
          /\ ServerIs(k, "idle", servers[k].turn, servers[k].left, servers[k].relay, TRUE)
      BY <1>1, <2>4, CachedAnswerIs, Zenon
    <3>2. SocketIs(k, "open", sockets[k].code, sockets[k].outbox, Append(p, g))
      BY <1>1, <2>1, <2>4, CachedAnswerIs
    <3>3. f \in Frame /\ g \in Frame /\ f.turn \in NewestTurns /\ g.turn \in NewestTurns
      BY <1>1, <2>1 DEF Frame
    <3>4. q \in Seq(Frame) /\ p \in Seq(Frame)
      BY <1>1, <3>3, SocketParts, Appended
    <3>5. f.type = "token" /\ g.type = "stream_complete"
      OBVIOUS
    <3> HIDE DEF f, g, q
    <3>6. /\ \A ty : Has(p, ty) <=> Has(q, ty) \/ f.type = ty
          /\ FramesOf(p, NewestTurns)
      BY <2>1, <3>3, <3>4, FrameQueued, Zenon
    <3> HIDE DEF p
    <3>7. /\ \A ty : Has(Append(p, g), ty) <=> Has(p, ty) \/ g.type = ty
          /\ FramesOf(Append(p, g), NewestTurns)
          /\ ~HasFinal(p) => FinalOnlyLast(Append(p, g))
      BY <3>3, <3>4, <3>6, FrameQueued, Zenon
    <3>8. ~Has(p, "validation_result") /\ ~Has(p, "error")
      BY <2>2, <3>5, <3>6
    <3>9. /\ ~Has(Append(p, g), "validation_result") /\ ~Has(Append(p, g), "error")
          /\ FinalOnlyLast(Append(p, g))
      BY <3>5, <3>7, <3>8 DEF HasFinal
    <3>10. Straight(k)'
      BY <1>5, <2>1, <3>1, <3>2, <3>7, <3>9 DEF Straight, HasFinal, Begun, Active, Working, SocketIs, ServerIs
    <3> QED BY <1>4, <2>1, <3>1, <3>10, Zenon
  <2>5. CASE Insufficient(k)
    <3>1. /\ ClientStays /\ OthersStay(k)
          /\ ServerIs(k, "idle", servers[k].turn, servers[k].left, servers[k].relay, servers[k].cached)
          /\ SocketIs(k, sockets[k].state, sockets[k].code, sockets[k].outbox,
                      Received(k, "error", servers[k].turn))
      BY <1>1, <2>5, InsufficientIs, Zenon
    <3>2. Straight(k)'
      BY <1>5, <2>1, <2>3, <3>1 DEF Straight, HasFinal, Begun, Active, Working, SocketIs, ServerIs
    <3> QED BY <1>4, <2>1, <3>1, <3>2, Zenon
  <2>6. CASE SendResult(k)
    <3>1. /\ ClientStays /\ OthersStay(k) /\ servers[k].pc = "validating"
          /\ ServerIs(k, IF sockets[k].state = "open" THEN "idle" ELSE "off", servers[k].turn,
                      servers[k].left, servers[k].relay, servers[k].cached)
          /\ SocketIs(k, sockets[k].state, sockets[k].code, sockets[k].outbox,
                      Received(k, "validation_result", servers[k].turn))
      BY <1>1, <2>6, SendResultIs, Zenon
    <3>2. LastIsAnswer(messages) \/ Has(q, "token")
      BY <2>1, <3>1 DEF Begun
    <3>3. Straight(k)'
      BY <1>5, <2>1, <2>3, <3>1, <3>2 DEF Straight, HasFinal, Begun, Active, Working, SocketIs, ServerIs
    <3> QED BY <1>4, <2>1, <3>1, <3>3, Zenon
  <2>7. CASE Quiet(k)
    <3>1. /\ ClientStays /\ OthersStay(k) /\ sockets' = sockets
          /\ \/ /\ servers[k].pc = "retrieving"
                /\ ServerIs(k, "generating", servers[k].turn, NumTokens, FALSE, servers[k].cached)
             \/ /\ servers[k].pc \in {"generating", "relaying"}
                /\ ServerIs(k, servers[k].pc, servers[k].turn, servers[k].left, TRUE, servers[k].cached)
             \/ /\ servers[k].pc = "relaying"
                /\ ServerIs(k, "validating", servers[k].turn, servers[k].left, FALSE, servers[k].cached)
      BY <1>1, <2>7, QuietIs, Zenon
    <3>2. ~(NumTokens < NumTokens)
      BY ChatEnvironment
    <3>3. Begun(k)' => Begun(k)
      BY <2>2, <3>1, <3>2 DEF Begun, ServerIs
    <3>4. Straight(k)'
      BY <1>5, <2>1, <3>1, <3>3 DEF Straight, Active, Working, ServerIs
    <3> QED BY <1>4, <2>1, <3>1, <3>4, Zenon
  <2>8. Listeners(k) \subseteq {k}
    <3> SUFFICES ASSUME NEW j \in Sockets, j # k, servers[j].relay PROVE FALSE
      BY DEF Listeners
    <3>1. servers[j].pc \in {"generating", "relaying"}
      BY DEF ChatInv, WaitInv, Flow, Served
    <3>2. Laden(j)
      BY <3>1 DEF Laden, Working
    <3> QED BY <1>3, <2>1, <3>2, Zenon DEF Alone
  <2>9. CASE PublishToken(k)
    <3>1. /\ ClientStays /\ servers[k].relay /\ servers[k].pc = "generating" /\ Relayed(k, "token")
          /\ servers[k].left \in 1..NumTokens
          /\ ServerIs(k, "generating", servers[k].turn, servers[k].left - 1,
                      servers[k].relay, servers[k].cached)
          /\ \A j \in Sockets \ {k} : servers'[j] = servers[j]
      BY <1>1, <2>9, PublishTokenIs
    <3>2. k \in Listeners(k)
      BY <3>1 DEF Listeners
    <3>3. OthersStay(k)
      BY <2>8, <3>1 DEF Relayed, OthersStay
    <3>4. SocketIs(k, sockets[k].state, sockets[k].code, sockets[k].outbox,
                   Received(k, "token", servers[k].turn))
      BY <3>1, <3>2 DEF Relayed
    <3>5. Straight(k)'
      BY <1>5, <2>1, <2>3, <3>1, <3>4 DEF Straight, HasFinal, Begun, Active, Working, SocketIs, ServerIs
    <3> QED BY <1>4, <2>1, <3>1, <3>3, <3>5, Zenon
  <2>10. CASE PublishComplete(k)
    <3>1. /\ ClientStays /\ servers[k].pc = "generating" /\ servers[k].left = 0
          /\ Relayed(k, "stream_complete")
          /\ \A j \in Sockets : j # k /\ j \notin Listeners(k) => servers'[j] = servers[j]
          /\ ServerIs(k, "relaying", servers[k].turn, servers[k].left,
                      servers[k].relay /\ k \notin Listeners(k), servers[k].cached)
      BY <1>1, <2>10, PublishCompleteIs
    <3>2. Begun(k)
      BY <3>1, ChatEnvironment DEF Begun
    <3>3. OthersStay(k)
      BY <2>8, <3>1 DEF Relayed, OthersStay
    <3>4. PICK in \in {q, Received(k, "stream_complete", servers[k].turn)} :
             SocketIs(k, sockets[k].state, sockets[k].code, sockets[k].outbox, in)
      BY <3>1 DEF Relayed
    <3>5. /\ FramesOf(in, NewestTurns) /\ FinalOnlyLast(in)
          /\ Has(q, "token") => Has(in, "token")
          /\ ~Has(in, "validation_result") /\ ~Has(in, "error")
      BY <2>1, <2>2, <2>3, <3>4
    <3>6. Straight(k)'
      BY <1>5, <2>1, <3>1, <3>2, <3>4, <3>5 DEF Straight, HasFinal, Active, Working, SocketIs, ServerIs
    <3> QED BY <1>4, <2>1, <3>1, <3>3, <3>6, Zenon
  <2>11. ServerStep(k) /\ servers[k].pc \in Active =>
            \/ CachedAnswer(k) \/ Insufficient(k) \/ SendResult(k) \/ Quiet(k)
            \/ PublishToken(k) \/ PublishComplete(k)
    BY DEF ServerStep, Quiet, Active, Authenticate, ServerReceive
  <2> QED BY <1>8, <2>4, <2>5, <2>6, <2>7, <2>9, <2>10, <2>11
<1>9. Authenticate(k) \/ ServerReceive(k) \/ servers[k].pc \in Active
  BY DEF ServerStep, Active, CachedAnswer, Insufficient, Generate, Subscribe, PublishToken,
         PublishComplete, RelayEnded, SendResult
<1> QED BY <1>6, <1>7, <1>8, <1>9

LEMMA StandFails ==
    ASSUME ChatInv, NEW k \in Sockets, HandlerFails(k)
    PROVE  StandInv'
<1> SUFFICES ASSUME undisturbed' PROVE StandInv'
  BY DEF StandInv
<1>1. Typed
  BY DEF ChatInv, WaitInv
<1>2. /\ ClientStays /\ OthersStay(k) /\ sockets' = sockets
      /\ ServerIs(k, "off", servers[k].turn, servers[k].left, FALSE, servers[k].cached)
      /\ undisturbed /\ ~Working(k)
  BY <1>1, HandlerFailsIs
<1>3. servers[k].pc \in {"off", "auth", "idle"} /\ sockets[k].outbox = <<>>
  BY <1>2 DEF Working
<1>4. Laden(k)' => Laden(k)
  BY <1>2 DEF Laden, ServerIs
<1>5. Straight(k) /\ NewestTurns' = NewestTurns /\ messages' = messages
  BY <1>2, NewestStays DEF ChatInv, StandInv, ClientStays
<1>6. Straight(k)'
  BY <1>2, <1>3, <1>5 DEF Straight, Active, Begun, ServerIs
<1> QED BY <1>2, <1>4, <1>6, CarriedOn, Zenon

LEMMA StandInit == ChatInit => StandInv
<1> SUFFICES ASSUME ChatInit PROVE StandInv
  OBVIOUS
<1>1. \A t \in Turns : ~Pending(t)
  BY DEF ChatInit, Pending
<1>2. \A k \in Sockets : ~Laden(k)
  BY DEF ChatInit, Laden
<1>3. \A k \in Sockets : Straight(k)
  BY DEF ChatInit, Straight, Active
<1>4. AnswersStand
  BY DEF ChatInit, StoreInit, AnswersStand
<1> QED BY <1>1, <1>2, <1>3, <1>4 DEF StandInv, Alone

LEMMA ChatInvNext == ChatInv /\ [ChatNext]_vars => ChatInv'
<1> SUFFICES ASSUME ChatInv, [ChatNext]_vars PROVE ChatInv'
  OBVIOUS
<1>1. WaitInv' /\ Typed'
  BY WaitNext DEF ChatInv, WaitInv
<1>2. CASE UNCHANGED vars
  <2>1. ClientStays /\ sockets' = sockets /\ servers' = servers /\ undisturbed' = undisturbed
    BY <1>2 DEF vars, ClientStays
  <2> QED BY <1>1, <2>1, StandStays DEF ChatInv
<1>3. ASSUME NEW t \in Turns, StartSend(t) PROVE StandInv'
  BY <1>1, <1>3, StandStart
<1>4. CASE Employee
  <2>1. StandInv'
    BY <1>3, <1>4, StandEmployee, Zenon
       DEF Employee, Compose, Suggestion, Retry, Regenerate, RelatedQuestion
  <2> QED BY <1>1, <2>1 DEF ChatInv
<1>5. CASE \E t \in Turns : SendStep(t)
  <2>1. StandInv'
    BY <1>1, <1>5, StandSend, Zenon
  <2> QED BY <1>1, <2>1 DEF ChatInv
<1>6. CASE \E k \in Sockets : CloseEvent(k) \/ ConnectionLost(k) \/ PongTimeout(k) \/ PongMissing(k)
                              \/ ClientReceive(k) \/ HandlerFails(k) \/ ServerStep(k)
  <2>1. StandInv'
    BY <1>6, StandSocket, StandReceive, StandFails, StandServer, Zenon
  <2> QED BY <1>1, <2>1 DEF ChatInv
<1> QED BY <1>2, <1>4, <1>5, <1>6, Zenon DEF ChatNext

\* For any number of turns, sockets and tokens, when a turn that nothing disturbed is
\* complete, the last message is the final text of that turn with its badge, whatever
\* tokens were shown before it (useWebSocket.ts, chatStore.ts, chat_handler.py).
THEOREM AnswerSafety == ChatSpec => []AnswersStand
<1>1. ChatInit => ChatInv
  BY WaitInit, StandInit DEF ChatInv
<1>2. ChatInv => AnswersStand
  BY Zenon DEF ChatInv, StandInv, AnswersStand
<1> QED BY <1>1, <1>2, ChatInvNext, PTL DEF ChatSpec

-----------------------------------------------------------------------------
(* Each question once.                                                     *)

Distinct(q) == \A i, j \in DOMAIN q : q[i] = q[j] => i = j

\* connection k has question t, waiting or in work
Holds(k, t) == Answering(k, t) \/ Queues(k, t)

\* A question has one place at most, and one that was not sent has none.
OnePlace ==
    /\ \A t \in Turns, k \in Sockets : Holds(k, t) => sends[t].pc = "sent"
    /\ \A t \in Turns, j, k \in Sockets : Holds(j, t) /\ Holds(k, t) => j = k
    /\ \A t \in Turns, k \in Sockets : ~(Answering(k, t) /\ Queues(k, t))
    /\ \A k \in Sockets : Distinct(sockets[k].outbox)

\* the inductive invariant of the questions
OnceInv == WaitInv /\ OnePlace

\* what connection k has stays with it
Untouched(k) ==
    /\ sockets'[k].outbox = sockets[k].outbox
    /\ \A t \in Turns : Answering(k, t)' <=> Answering(k, t)

\* a send goes on or fails; nothing is handed over
GoesOn(t) ==
    /\ OtherSends(t)
    /\ \/ sends[t].pc = "unsent" /\ Pending(t)'
       \/ Pending(t) /\ Pending(t)'
       \/ Pending(t) /\ sends'[t].pc = "failed"

\* question t is handed to connection k
HandedTo(t, k) ==
    /\ OtherSends(t) /\ sends[t].pc # "sent" /\ sends[t].pc # "failed" /\ sends'[t].pc = "sent"
    /\ sockets'[k].outbox = Append(sockets[k].outbox, t)
    /\ \A u \in Turns : Answering(k, u)' <=> Answering(k, u)
    /\ \A j \in Sockets \ {k} : Untouched(j)

\* the handler of connection k begins the question that waits first
TakenBy(k) ==
    /\ sends' = sends /\ sockets[k].outbox # <<>>
    /\ sockets'[k].outbox = Tail(sockets[k].outbox)
    /\ \A u \in Turns : ~Answering(k, u) /\ (Answering(k, u)' <=> u = Head(sockets[k].outbox))
    /\ \A j \in Sockets \ {k} : Untouched(j)

\* the handler of connection k is done with question t
EndedBy(t, k) ==
    /\ sends' = sends /\ Answering(k, t)
    /\ sockets'[k].outbox = sockets[k].outbox
    /\ \A u \in Turns : ~Answering(k, u)'
    /\ \A j \in Sockets \ {k} : Untouched(j)

\* all that a step can do to the questions
QuestionEffect ==
    \/ (\A k \in Sockets : Untouched(k)) /\ (sends' = sends \/ \E t \in Turns : GoesOn(t))
    \/ \E t \in Turns, k \in Sockets : HandedTo(t, k) \/ EndedBy(t, k)
    \/ \E k \in Sockets : TakenBy(k)

\* OthersUntouched: a connection that a step leaves alone keeps what it has.
LEMMA OthersUntouched ==
    ASSUME NEW j, sockets'[j] = sockets[j], servers'[j] = servers[j]
    PROVE  Untouched(j)
BY DEF Untouched, Answering

\* HandlerGoesOn: a handler that stays idle, or at work on the same question, keeps it.
LEMMA HandlerGoesOn ==
    ASSUME NEW k, sockets'[k].outbox = sockets[k].outbox, servers'[k].turn = servers[k].turn,
           servers'[k].pc \in {"off", "auth", "idle"} <=> servers[k].pc \in {"off", "auth", "idle"}
    PROVE  Untouched(k)
BY DEF Untouched, Answering

\* HandlerEnds: a handler that was at work and is idle has ended its question.
LEMMA HandlerEnds ==
    ASSUME NEW k \in Sockets, sockets'[k].outbox = sockets[k].outbox, sends' = sends,
           servers'[k].pc \in {"off", "auth", "idle"}, \A j \in Sockets \ {k} : Untouched(j)
    PROVE  QuestionEffect
<1>1. \A u \in Turns : ~Answering(k, u)'
  BY DEF Answering
<1>2. CASE \E t \in Turns : Answering(k, t)
  <2>1. PICK t \in Turns : Answering(k, t)
    BY <1>2
  <2>2. EndedBy(t, k)
    BY <1>1, <2>1 DEF EndedBy
  <2> QED
    BY <2>2 DEF QuestionEffect
<1>3. CASE ~\E t \in Turns : Answering(k, t)
  <2>1. Untouched(k)
    BY <1>1, <1>3 DEF Untouched
  <2> QED
    BY <2>1 DEF QuestionEffect
<1> QED
  BY <1>2, <1>3

\* OutboxKept: closing a connection or receiving a frame leaves the questions alone.
LEMMA OutboxKept ==
    ASSUME servers' = servers, sends' = sends,
           \A k \in Sockets : sockets'[k].outbox = sockets[k].outbox
    PROVE  QuestionEffect
<1>1. ASSUME NEW k \in Sockets PROVE Untouched(k)
  BY DEF Untouched, Answering
<1> QED
  BY <1>1 DEF QuestionEffect

\* OneQueued: a send on an open connection hands its question over.
LEMMA OneQueued ==
    ASSUME NEW t \in Turns, NEW k \in Sockets, Queued(k, t), OtherSends(t),
           sends[t].pc # "sent", sends[t].pc # "failed", sends'[t].pc = "sent"
    PROVE  QuestionEffect
<1>1. /\ servers'[k] = servers[k] /\ OthersStay(k)
      /\ sockets'[k].outbox = Append(sockets[k].outbox, t)
  BY DEF Queued, SocketIs
<1>2. \A j \in Sockets \ {k} : Untouched(j)
  BY <1>1, OthersUntouched, Zenon DEF OthersStay
<1>3. \A u \in Turns : Answering(k, u)' <=> Answering(k, u)
  BY <1>1 DEF Answering
<1>4. HandedTo(t, k)
  BY <1>1, <1>2, <1>3 DEF HandedTo
<1> QED
  BY <1>4 DEF QuestionEffect

\* NothingHanded: a send that goes on or fails hands nothing over.
LEMMA NothingHanded ==
    ASSUME NEW t \in Turns, GoesOn(t), servers' = servers,
           \A k \in Sockets : sockets'[k].outbox = sockets[k].outbox
    PROVE  QuestionEffect
<1>1. ASSUME NEW k \in Sockets PROVE Untouched(k)
  BY DEF Untouched, Answering
<1> QED
  BY <1>1 DEF QuestionEffect

\* StartEffect: a question is asked, and handed over when a connection is open.
LEMMA StartEffect ==
    ASSUME WaitInv, NEW t \in Turns, StartSend(t)
    PROVE  QuestionEffect
<1>1. /\ servers' = servers /\ sends[t].pc = "unsent" /\ OtherSends(t)
      /\ \/ sends'[t].pc \in {"upload", "token"} /\ sockets' = sockets
         \/ sends'[t].pc = "sent" /\ \E k \in Sockets : Queued(k, t)
  BY StartSendIs, Zenon DEF WaitInv
<1>2. CASE sends'[t].pc \in {"upload", "token"} /\ sockets' = sockets
  <2>1. GoesOn(t)
    BY <1>1, <1>2 DEF GoesOn, Pending
  <2> QED
    BY <1>1, <1>2, <2>1, NothingHanded
<1>3. CASE sends'[t].pc = "sent" /\ \E k \in Sockets : Queued(k, t)
  BY <1>1, <1>3, OneQueued
<1> QED
  BY <1>1, <1>2, <1>3

\* SendEffect: the steps of sendMessage after its awaits.
LEMMA SendEffect ==
    ASSUME WaitInv, NEW t \in Turns, SendStep(t)
    PROVE  QuestionEffect
<1>1. CASE Uploaded(t)
  <2>1. /\ servers' = servers /\ sends[t].pc = "upload" /\ OtherSends(t)
        /\ \/ sends'[t].pc = "token" /\ sockets' = sockets
           \/ sends'[t].pc = "sent" /\ \E k \in Sockets : Queued(k, t)
    BY <1>1, UploadedIs, Zenon DEF WaitInv
  <2>2. CASE sends'[t].pc = "token" /\ sockets' = sockets
    <3>1. GoesOn(t)
      BY <2>1, <2>2 DEF GoesOn, Pending
    <3> QED
      BY <2>1, <2>2, <3>1, NothingHanded
  <2>3. CASE sends'[t].pc = "sent" /\ \E k \in Sockets : Queued(k, t)
    BY <2>1, <2>3, OneQueued
  <2> QED
    BY <2>1, <2>2, <2>3
<1>2. CASE SendRefused(t)
  <2>1. /\ sockets' = sockets /\ servers' = servers /\ sends[t].pc \in {"upload", "token"}
        /\ sends'[t].pc = "failed" /\ OtherSends(t)
    BY <1>2, SendRefusedIs, Zenon DEF WaitInv
  <2>2. GoesOn(t)
    BY <2>1 DEF GoesOn, Pending
  <2> QED
    BY <2>1, <2>2, NothingHanded
<1>3. CASE Connect(t)
  <2>1. /\ servers' = servers /\ sends[t].pc = "token" /\ sends'[t].pc = "connecting"
        /\ OtherSends(t)
        /\ \E k \in Sockets : OthersStay(k)
              /\ SocketIs(k, "connecting", sockets[k].code, sockets[k].outbox, sockets[k].inbox)
    BY <1>3, ConnectIs, Zenon DEF WaitInv
  <2>2. \A k \in Sockets : sockets'[k].outbox = sockets[k].outbox
    BY <2>1, Zenon DEF OthersStay, SocketIs
  <2>3. GoesOn(t)
    BY <2>1 DEF GoesOn, Pending
  <2> QED
    BY <2>1, <2>2, <2>3, NothingHanded
<1>4. CASE Opened(t)
  <2>1. sends[t].pc = "connecting"
    BY <1>4 DEF Opened
  <2>2. sends[t].socket \in Sockets
    BY <2>1 DEF WaitInv, SendsFit
  <2>3. /\ sends'[t].pc = "sent" /\ OtherSends(t)
        /\ \E k \in Sockets : /\ sockets[k].state = "connecting" /\ OthersStay(k)
                              /\ SocketIs(k, "open", sockets[k].code,
                                          Append(sockets[k].outbox, t), sockets[k].inbox)
                              /\ ServerIs(k, "auth", servers[k].turn, servers[k].left,
                                          servers[k].relay, servers[k].cached)
    BY <1>4, <2>2, OpenedIs, Zenon DEF WaitInv
  <2>4. PICK k \in Sockets :
           /\ sockets[k].state = "connecting" /\ OthersStay(k)
           /\ SocketIs(k, "open", sockets[k].code, Append(sockets[k].outbox, t), sockets[k].inbox)
           /\ ServerIs(k, "auth", servers[k].turn, servers[k].left, servers[k].relay,
                       servers[k].cached)
    BY <2>3, Zenon
  <2>5. servers[k].pc = "off" /\ servers'[k].pc = "auth"
    BY <2>4 DEF WaitInv, Flow, Served, ServerIs
  <2>6. \A u \in Turns : Answering(k, u)' <=> Answering(k, u)
    BY <2>5 DEF Answering
  <2>7. \A j \in Sockets \ {k} : Untouched(j)
    BY <2>4, OthersUntouched, Zenon DEF OthersStay
  <2>8. HandedTo(t, k)
    BY <2>1, <2>3, <2>4, <2>6, <2>7 DEF HandedTo, SocketIs
  <2> QED
    BY <2>8 DEF QuestionEffect
<1>5. CASE ConnectTimeout(t)
  <2>1. sends[t].pc = "connecting"
    BY <1>5 DEF ConnectTimeout
  <2>2. sends[t].socket \in Sockets
    BY <2>1 DEF WaitInv, SendsFit
  <2>3. /\ servers' = servers /\ sends'[t].pc = "failed" /\ OtherSends(t)
        /\ sockets' = sockets \/ \E k \in Sockets : Closed(k, Abnormal)
    BY <1>5, <2>2, ConnectTimeoutIs, Zenon DEF WaitInv
  <2>4. \A k \in Sockets : sockets'[k].outbox = sockets[k].outbox
    BY <2>3, Zenon DEF Closed, SocketIs
  <2>5. GoesOn(t)
    BY <2>1, <2>3 DEF GoesOn, Pending
  <2> QED
    BY <2>3, <2>4, <2>5, NothingHanded
<1> QED
  BY <1>1, <1>2, <1>3, <1>4, <1>5 DEF SendStep

\* TabEffect: gestures, close events and frames leave the questions where they are.
LEMMA TabEffect ==
    ASSUME WaitInv,
           \/ Attach \/ RemoveScreenshot \/ NewSession \/ OpenSession
           \/ \E k \in Sockets : CloseEvent(k) \/ ConnectionLost(k) \/ PongTimeout(k)
                                 \/ PongMissing(k) \/ ClientReceive(k)
    PROVE  QuestionEffect
<1>1. CASE Attach \/ RemoveScreenshot
  BY <1>1, AttachIs, OutboxKept, Zenon DEF WaitInv
<1>2. CASE NewSession
  <2>1. /\ sends' = sends /\ servers' = servers
        /\ sockets' = sockets \/ \E k \in Sockets : Closed(k, Clean)
    BY <1>2, NewSessionIs, Zenon DEF WaitInv
  <2>2. \A k \in Sockets : sockets'[k].outbox = sockets[k].outbox
    BY <2>1, Zenon DEF Closed, SocketIs
  <2> QED
    BY <2>1, <2>2, OutboxKept
<1>3. CASE OpenSession
  BY <1>3, OpenSessionIs, OutboxKept, Zenon DEF WaitInv
<1>4. ASSUME NEW k \in Sockets,
             \/ CloseEvent(k) \/ ConnectionLost(k) \/ PongTimeout(k) \/ PongMissing(k)
             \/ ClientReceive(k)
      PROVE  QuestionEffect
  <2>1. CASE CloseEvent(k)
    <3>1. /\ sends' = sends /\ servers' = servers /\ OthersStay(k)
          /\ SocketIs(k, "closed", sockets[k].code, sockets[k].outbox, sockets[k].inbox)
      BY <2>1, CloseEventIs, Zenon DEF WaitInv
    <3>2. \A j \in Sockets : sockets'[j].outbox = sockets[j].outbox
      BY <3>1, Zenon DEF OthersStay, SocketIs
    <3> QED
      BY <3>1, <3>2, OutboxKept
  <2>2. CASE ConnectionLost(k)
    <3>1. /\ sends' = sends /\ servers' = servers /\ OthersStay(k)
          /\ SocketIs(k, "closed", sockets[k].code, sockets[k].outbox, <<>>)
      BY <2>2, ConnectionLostIs, Zenon DEF WaitInv
    <3>2. \A j \in Sockets : sockets'[j].outbox = sockets[j].outbox
      BY <3>1, Zenon DEF OthersStay, SocketIs
    <3> QED
      BY <3>1, <3>2, OutboxKept
  <2>3. CASE PongTimeout(k) \/ PongMissing(k)
    <3>1. sends' = sends /\ servers' = servers /\ Closed(k, PongTimeoutCode)
      BY <2>3, PongTimeoutIs, Zenon DEF WaitInv
    <3>2. \A j \in Sockets : sockets'[j].outbox = sockets[j].outbox
      BY <3>1, Zenon DEF Closed, SocketIs
    <3> QED
      BY <3>1, <3>2, OutboxKept
  <2>4. CASE ClientReceive(k)
    <3>1. /\ sends' = sends /\ servers' = servers /\ OthersStay(k)
          /\ SocketIs(k, "open", sockets[k].code, sockets[k].outbox, Tail(sockets[k].inbox))
      BY <2>4, ClientReceiveIs, Zenon DEF WaitInv
    <3>2. \A j \in Sockets : sockets'[j].outbox = sockets[j].outbox
      BY <3>1, Zenon DEF OthersStay, SocketIs
    <3> QED
      BY <3>1, <3>2, OutboxKept
  <2> QED
    BY <1>4, <2>1, <2>2, <2>3, <2>4
<1> QED
  BY <1>1, <1>2, <1>3, <1>4

\* AllUntouched: nothing happens to the questions.
LEMMA AllUntouched ==
    ASSUME sends' = sends, \A k \in Sockets : Untouched(k)
    PROVE  QuestionEffect
BY DEF QuestionEffect

\* ServerEffect: the handler of a connection begins a question, works on it, ends it.
LEMMA ServerEffect ==
    ASSUME WaitInv, NEW k \in Sockets, ServerStep(k)
    PROVE  QuestionEffect
<1>1. ASSUME OthersStay(k) PROVE \A j \in Sockets \ {k} : Untouched(j)
  BY <1>1, OthersUntouched, Zenon DEF OthersStay
<1>2. CASE Authenticate(k)
  <2>1. /\ sends' = sends /\ OthersStay(k) /\ servers[k].pc = "auth"
        /\ servers'[k].pc \in {"idle", "off"} /\ servers'[k].turn = servers[k].turn
        /\ sockets'[k].outbox = sockets[k].outbox
    BY <1>2, AuthenticateIs DEF WaitInv, ClientStays, ServerIs, SocketIs, Closed
  <2>2. Untouched(k)
    BY <2>1, HandlerGoesOn
  <2> QED
    BY <1>1, <2>1, <2>2, AllUntouched
<1>3. CASE ServerReceive(k)
  <2>1. /\ sends' = sends /\ OthersStay(k) /\ servers[k].pc = "idle" /\ sockets[k].outbox # <<>>
        /\ servers'[k].pc = "retrieving" /\ servers'[k].turn = Head(sockets[k].outbox)
        /\ sockets'[k].outbox = Tail(sockets[k].outbox)
    BY <1>3, ServerReceiveIs DEF WaitInv, ClientStays, ServerIs, SocketIs
  <2>2. \A u \in Turns : ~Answering(k, u) /\ (Answering(k, u)' <=> u = Head(sockets[k].outbox))
    BY <2>1 DEF Answering
  <2>3. TakenBy(k)
    BY <1>1, <2>1, <2>2 DEF TakenBy
  <2> QED
    BY <2>3 DEF QuestionEffect
<1>4. CASE CachedAnswer(k)
  <2>1. /\ sends' = sends /\ OthersStay(k) /\ servers'[k].pc = "idle"
        /\ sockets'[k].outbox = sockets[k].outbox
    BY <1>4, CachedAnswerIs DEF WaitInv, ClientStays, ServerIs, SocketIs, SocketStays
  <2> QED
    BY <1>1, <2>1, HandlerEnds
<1>5. CASE Insufficient(k)
  <2>1. /\ sends' = sends /\ OthersStay(k) /\ servers'[k].pc = "idle"
        /\ sockets'[k].outbox = sockets[k].outbox
    BY <1>5, InsufficientIs DEF WaitInv, ClientStays, ServerIs, SocketIs
  <2> QED
    BY <1>1, <2>1, HandlerEnds
<1>6. CASE SendResult(k)
  <2>1. /\ sends' = sends /\ OthersStay(k) /\ servers'[k].pc \in {"idle", "off"}
        /\ sockets'[k].outbox = sockets[k].outbox
    BY <1>6, SendResultIs DEF WaitInv, ClientStays, ServerIs, SocketIs
  <2> QED
    BY <1>1, <2>1, HandlerEnds
<1>7. CASE Quiet(k)
  <2>1. /\ sends' = sends /\ OthersStay(k) /\ sockets' = sockets
        /\ servers'[k].turn = servers[k].turn
        /\ servers[k].pc \in Active /\ servers'[k].pc \in Active
    BY <1>7, QuietIs DEF WaitInv, ClientStays, ServerIs, Active
  <2>2. Untouched(k)
    BY <2>1, HandlerGoesOn DEF Active
  <2> QED
    BY <1>1, <2>1, <2>2, AllUntouched
<1>8. CASE PublishToken(k)
  <2>1. /\ sends' = sends /\ servers[k].pc = "generating" /\ servers'[k].pc = "generating"
        /\ servers'[k].turn = servers[k].turn
        /\ \A j \in Sockets \ {k} : servers'[j] = servers[j]
        /\ \A j \in Sockets : sockets'[j].outbox = sockets[j].outbox
    BY <1>8, PublishTokenIs DEF WaitInv, ClientStays, ServerIs, SocketIs, Relayed
  <2>2. ASSUME NEW j \in Sockets PROVE Untouched(j)
    BY <2>1, HandlerGoesOn
  <2> QED
    BY <2>1, <2>2, AllUntouched
<1>9. CASE PublishComplete(k)
  <2>1. /\ sends' = sends /\ servers[k].pc = "generating"
        /\ \A j \in Sockets : /\ servers'[j].pc = IF j = k THEN "relaying" ELSE servers[j].pc
                              /\ servers'[j].turn = servers[j].turn
                              /\ sockets'[j].outbox = sockets[j].outbox
    BY <1>9, PublishCompleteIs DEF WaitInv, ClientStays, ServerIs, SocketIs, Relayed
  <2>2. ASSUME NEW j \in Sockets PROVE Untouched(j)
    BY <2>1, HandlerGoesOn
  <2> QED
    BY <2>1, <2>2, AllUntouched
<1> QED
  BY <1>2, <1>3, <1>4, <1>5, <1>6, <1>7, <1>8, <1>9 DEF ServerStep, Quiet

\* FailEffect: a handler that fails has ended the question it was at work on.
LEMMA FailEffect ==
    ASSUME WaitInv, NEW k \in Sockets, HandlerFails(k)
    PROVE  QuestionEffect
<1>1. /\ sends' = sends /\ OthersStay(k) /\ servers'[k].pc = "off"
      /\ sockets'[k].outbox = sockets[k].outbox
  BY HandlerFailsIs DEF WaitInv, ClientStays, ServerIs
<1>2. \A j \in Sockets \ {k} : Untouched(j)
  BY <1>1, OthersUntouched, Zenon DEF OthersStay
<1> QED
  BY <1>1, <1>2, HandlerEnds

\* Effects: every step has one of these effects on the questions.
LEMMA Effects ==
    ASSUME WaitInv, [ChatNext]_vars
    PROVE  QuestionEffect
<1>1. CASE UNCHANGED vars
  BY <1>1, OutboxKept DEF vars
<1>2. CASE Employee
  BY <1>2, StartEffect, TabEffect, Zenon
     DEF Employee, Compose, Suggestion, Retry, Regenerate, RelatedQuestion
<1>3. CASE \E t \in Turns : SendStep(t)
  BY <1>3, SendEffect, Zenon
<1>4. CASE \E k \in Sockets : CloseEvent(k) \/ ConnectionLost(k) \/ PongTimeout(k) \/ PongMissing(k)
                              \/ ClientReceive(k) \/ HandlerFails(k) \/ ServerStep(k)
  BY <1>4, TabEffect, FailEffect, ServerEffect, Zenon
<1> QED
  BY <1>1, <1>2, <1>3, <1>4, Zenon DEF ChatNext

\* UntouchedKeeps: an untouched connection has the same questions, waiting and in work.
LEMMA UntouchedKeeps ==
    ASSUME NEW k, Untouched(k)
    PROVE  /\ \A u \in Turns : /\ Answering(k, u)' <=> Answering(k, u)
                               /\ Queues(k, u)' <=> Queues(k, u)
           /\ Distinct(sockets[k].outbox)' <=> Distinct(sockets[k].outbox)
BY DEF Untouched, Queues, Distinct

\* QueueLonger: what waits at a connection that is handed question t.
LEMMA QueueLonger ==
    ASSUME Typed, NEW k \in Sockets, NEW t \in Turns,
           sockets'[k].outbox = Append(sockets[k].outbox, t)
    PROVE  /\ \A u \in Turns : Queues(k, u)' <=> Queues(k, u) \/ u = t
           /\ Distinct(sockets[k].outbox) /\ ~Queues(k, t) => Distinct(sockets[k].outbox)'
<1> DEFINE q == sockets[k].outbox
           r == sockets'[k].outbox
<1>1. /\ Len(q) \in Nat /\ DOMAIN q = 1..Len(q) /\ DOMAIN r = 1..(Len(q) + 1)
      /\ r[Len(q) + 1] = t /\ \A i \in 1..Len(q) : r[i] = q[i]
  BY SocketParts, Appended
<1>2. \A u : Queues(k, u) <=> \E i \in DOMAIN q : q[i] = u
  BY DEF Queues
<1>3. \A u : Queues(k, u)' <=> \E i \in DOMAIN r : r[i] = u
  BY DEF Queues
<1>4. /\ Distinct(sockets[k].outbox) <=> \A i, j \in DOMAIN q : q[i] = q[j] => i = j
      /\ Distinct(sockets[k].outbox)' <=> \A i, j \in DOMAIN r : r[i] = r[j] => i = j
  BY DEF Distinct
<1> HIDE DEF q, r
<1>5. \A i \in DOMAIN r : i \in DOMAIN q \/ i = Len(q) + 1
  BY <1>1
<1>6. DOMAIN q \subseteq DOMAIN r /\ Len(q) + 1 \in DOMAIN r
  BY <1>1
<1>7. ASSUME NEW u \in Turns PROVE Queues(k, u)' <=> Queues(k, u) \/ u = t
  BY <1>1, <1>2, <1>3, <1>5, <1>6
<1>8. ASSUME Distinct(sockets[k].outbox), ~Queues(k, t), NEW i \in DOMAIN r, NEW j \in DOMAIN r,
             r[i] = r[j]
      PROVE  i = j
  BY <1>1, <1>2, <1>4, <1>5, <1>8
<1> QED
  BY <1>4, <1>7, <1>8

\* QueueShorter: what waits at a connection whose first question is begun.
LEMMA QueueShorter ==
    ASSUME Typed, NEW k \in Sockets, sockets[k].outbox # <<>>, Distinct(sockets[k].outbox),
           sockets'[k].outbox = Tail(sockets[k].outbox)
    PROVE  /\ Head(sockets[k].outbox) \in Turns /\ Queues(k, Head(sockets[k].outbox))
           /\ \A u \in Turns : Queues(k, u)' <=> Queues(k, u) /\ u # Head(sockets[k].outbox)
           /\ Distinct(sockets[k].outbox)'
<1> DEFINE q == sockets[k].outbox
           r == sockets'[k].outbox
           n == Len(q)
           h == Head(q)
<1>1. /\ n \in Nat /\ n > 0 /\ DOMAIN q = 1..n /\ DOMAIN r = 1..(n - 1)
      /\ h \in Turns /\ h = q[1] /\ \A i \in 1..(n - 1) : r[i] = q[i + 1]
  BY SocketParts, Shortened
<1>2. \A u : Queues(k, u) <=> \E i \in DOMAIN q : q[i] = u
  BY DEF Queues
<1>3. \A u : Queues(k, u)' <=> \E i \in DOMAIN r : r[i] = u
  BY DEF Queues
<1>4. /\ \A i, j \in DOMAIN q : q[i] = q[j] => i = j
      /\ Distinct(sockets[k].outbox)' <=> \A i, j \in DOMAIN r : r[i] = r[j] => i = j
  BY DEF Distinct
<1> HIDE DEF q, r, n, h
<1>5. \A i \in 1..(n - 1) : i + 1 \in 1..n /\ i + 1 # 1
  BY <1>1
<1>6. ASSUME NEW i \in 1..n, i # 1 PROVE i - 1 \in 1..(n - 1) /\ (i - 1) + 1 = i
  BY <1>1, <1>6
<1>7. ASSUME NEW u \in Turns, Queues(k, u)' PROVE Queues(k, u) /\ u # h
  <2>1. PICK i \in 1..(n - 1) : r[i] = u
    BY <1>1, <1>3, <1>7
  <2>2. i + 1 \in DOMAIN q /\ i + 1 # 1 /\ q[i + 1] = u /\ 1 \in DOMAIN q
    BY <1>1, <1>5, <2>1
  <2> QED
    BY <1>1, <1>2, <1>4, <2>2
<1>8. ASSUME NEW u \in Turns, Queues(k, u), u # h PROVE Queues(k, u)'
  <2>1. PICK i \in 1..n : q[i] = u
    BY <1>1, <1>2, <1>8
  <2>2. i - 1 \in 1..(n - 1) /\ r[i - 1] = u
    BY <1>1, <1>6, <1>8, <2>1
  <2> QED
    BY <1>1, <1>3, <2>2
<1>9. ASSUME NEW i \in DOMAIN r, NEW j \in DOMAIN r, r[i] = r[j] PROVE i = j
  <2>1. i + 1 \in DOMAIN q /\ j + 1 \in DOMAIN q /\ q[i + 1] = q[j + 1]
    BY <1>1, <1>5, <1>9
  <2>2. i + 1 = j + 1 /\ i \in Nat /\ j \in Nat
    BY <1>1, <1>4, <2>1
  <2> QED
    BY <2>2
<1>10. h = Head(sockets[k].outbox) /\ Queues(k, h)
  BY <1>1, <1>2 DEF h, q
<1> QED
  BY <1>1, <1>4, <1>7, <1>8, <1>9, <1>10

\* OnceStays: a question stays where it is.
LEMMA OnceStays ==
    ASSUME OnePlace, \A k \in Sockets : Untouched(k),
           sends' = sends \/ \E t \in Turns : GoesOn(t)
    PROVE  OnePlace'
<1>1. \A u \in Turns, k \in Sockets : /\ Answering(k, u)' <=> Answering(k, u)
                                      /\ Queues(k, u)' <=> Queues(k, u)
                                      /\ Holds(k, u)' <=> Holds(k, u)
  BY UntouchedKeeps DEF Holds
<1>2. \A u \in Turns : sends[u].pc = "sent" => sends'[u].pc = "sent"
  BY DEF GoesOn, OtherSends, Pending
<1>3. \A k \in Sockets : Distinct(sockets[k].outbox)'
  BY UntouchedKeeps DEF OnePlace
<1> QED
  BY <1>1, <1>2, <1>3 DEF OnePlace

\* OnceHanded: a question that was not sent has no place before it is handed over.
LEMMA OnceHanded ==
    ASSUME Typed, OnePlace, NEW t \in Turns, NEW k \in Sockets, HandedTo(t, k)
    PROVE  /\ OnePlace'
           /\ \A u \in Turns : Queues(k, u)' <=> Queues(k, u) \/ u = t
<1>1. \A j \in Sockets : ~Holds(j, t)
  BY DEF OnePlace, HandedTo
<1>2. ~Queues(k, t)
  BY <1>1 DEF Holds
<1>3. sockets'[k].outbox = Append(sockets[k].outbox, t) /\ Distinct(sockets[k].outbox)
  BY DEF HandedTo, OnePlace
<1>4. /\ \A u \in Turns : Queues(k, u)' <=> Queues(k, u) \/ u = t
      /\ Distinct(sockets[k].outbox)'
  BY <1>2, <1>3, QueueLonger
<1>5. \A j \in Sockets \ {k}, u \in Turns : /\ Answering(j, u)' <=> Answering(j, u)
                                            /\ Queues(j, u)' <=> Queues(j, u)
  BY UntouchedKeeps DEF HandedTo
<1>6. \A u \in Turns : Answering(k, u)' <=> Answering(k, u)
  BY DEF HandedTo
<1>7. \A j \in Sockets, u \in Turns : Holds(j, u)' <=> Holds(j, u) \/ (j = k /\ u = t)
  BY <1>4, <1>5, <1>6 DEF Holds
<1>8. \A u \in Turns : sends'[u].pc = IF u = t THEN "sent" ELSE sends[u].pc
  BY DEF HandedTo, OtherSends
<1>9. \A j \in Sockets : Distinct(sockets[j].outbox)'
  BY <1>4, UntouchedKeeps DEF HandedTo, OnePlace
<1>10. \A u \in Turns, j \in Sockets : ~(Answering(j, u) /\ Queues(j, u))'
  BY <1>1, <1>4, <1>5, <1>6 DEF OnePlace, Holds
<1>11. \A u \in Turns, i, j \in Sockets : Holds(i, u)' /\ Holds(j, u)' => i = j
  BY <1>1, <1>7 DEF OnePlace
<1>12. \A u \in Turns, j \in Sockets : Holds(j, u)' => sends'[u].pc = "sent"
  BY <1>7, <1>8 DEF OnePlace
<1> QED
  BY <1>4, <1>9, <1>10, <1>11, <1>12 DEF OnePlace

\* OnceTaken: the question that is begun leaves the queue.
LEMMA OnceTaken ==
    ASSUME Typed, OnePlace, NEW k \in Sockets, TakenBy(k)
    PROVE  LET t == Head(sockets[k].outbox)
           IN  /\ OnePlace' /\ t \in Turns /\ Queues(k, t)
               /\ \A u \in Turns : Queues(k, u)' <=> Queues(k, u) /\ u # t
<1> DEFINE t == Head(sockets[k].outbox)
<1>1. /\ sockets[k].outbox # <<>> /\ sockets'[k].outbox = Tail(sockets[k].outbox)
      /\ Distinct(sockets[k].outbox)
  BY DEF TakenBy, OnePlace
<1>2. /\ t \in Turns /\ Queues(k, t) /\ Distinct(sockets[k].outbox)'
      /\ \A u \in Turns : Queues(k, u)' <=> Queues(k, u) /\ u # t
  BY <1>1, QueueShorter
<1>3. \A u \in Turns : ~Answering(k, u) /\ (Answering(k, u)' <=> u = t)
  BY DEF TakenBy
<1> HIDE DEF t
<1>4. \A j \in Sockets \ {k}, u \in Turns : /\ Answering(j, u)' <=> Answering(j, u)
                                            /\ Queues(j, u)' <=> Queues(j, u)
  BY UntouchedKeeps DEF TakenBy
<1>5. \A u \in Turns, j \in Sockets : Holds(j, u)' <=> Holds(j, u)
  BY <1>2, <1>3, <1>4 DEF Holds
<1>6. \A u \in Turns, j \in Sockets : ~(Answering(j, u) /\ Queues(j, u))'
  BY <1>2, <1>3, <1>4 DEF OnePlace
<1>7. \A j \in Sockets : Distinct(sockets[j].outbox)'
  BY <1>2, UntouchedKeeps DEF TakenBy, OnePlace
<1>8. \A u \in Turns : sends'[u].pc = sends[u].pc
  BY DEF TakenBy
<1>9. OnePlace'
  BY <1>5, <1>6, <1>7, <1>8 DEF OnePlace
<1> QED
  BY <1>2, <1>9 DEF t

\* OnceEnded: the question that ends leaves its handler.
LEMMA OnceEnded ==
    ASSUME OnePlace, NEW t \in Turns, NEW k \in Sockets, EndedBy(t, k)
    PROVE  /\ OnePlace'
           /\ \A u \in Turns : Queues(k, u)' <=> Queues(k, u)
<1>1. /\ \A u \in Turns : Queues(k, u)' <=> Queues(k, u)
      /\ Distinct(sockets[k].outbox)' <=> Distinct(sockets[k].outbox)
  BY DEF EndedBy, Queues, Distinct
<1>2. \A j \in Sockets \ {k}, u \in Turns : /\ Answering(j, u)' <=> Answering(j, u)
                                            /\ Queues(j, u)' <=> Queues(j, u)
  BY UntouchedKeeps DEF EndedBy
<1>3. \A u \in Turns : ~Answering(k, u)'
  BY DEF EndedBy
<1>4. \A u \in Turns, j \in Sockets : Holds(j, u)' => Holds(j, u)
  BY <1>1, <1>2, <1>3 DEF Holds
<1>5. \A u \in Turns, j \in Sockets : ~(Answering(j, u) /\ Queues(j, u))'
  BY <1>1, <1>2, <1>3 DEF OnePlace
<1>6. \A j \in Sockets : Distinct(sockets[j].outbox)'
  BY <1>1, UntouchedKeeps DEF EndedBy, OnePlace
<1>7. \A u \in Turns : sends'[u].pc = sends[u].pc
  BY DEF EndedBy
<1>8. OnePlace'
  BY <1>4, <1>5, <1>6, <1>7 DEF OnePlace
<1> QED
  BY <1>1, <1>8

\* OnceInit: nothing was sent.
LEMMA OnceInit == ChatInit => OnceInv
<1> SUFFICES ASSUME ChatInit PROVE OnceInv
  OBVIOUS
<1>1. \A k \in Sockets : sockets[k].outbox = <<>> /\ servers[k].pc = "off"
  BY DEF ChatInit
<1>2. \A k \in Sockets, t \in Turns : ~Holds(k, t)
  BY <1>1 DEF Holds, Answering, Queues
<1>3. \A k \in Sockets : Distinct(sockets[k].outbox)
  BY <1>1 DEF Distinct
<1>4. \A k \in Sockets, t \in Turns : ~Answering(k, t)
  BY <1>2 DEF Holds
<1> QED
  BY <1>2, <1>3, <1>4, WaitInit DEF OnceInv, OnePlace

\* OnceNext: the places of the questions, step by step.
LEMMA OnceNext == OnceInv /\ [ChatNext]_vars => OnceInv'
<1> SUFFICES ASSUME OnceInv, [ChatNext]_vars PROVE OnceInv'
  OBVIOUS
<1>1. WaitInv' /\ QuestionEffect /\ Typed /\ OnePlace
  BY WaitNext, Effects DEF OnceInv, WaitInv
<1>2. OnePlace'
  BY <1>1, OnceStays, OnceHanded, OnceTaken, OnceEnded, Zenon DEF QuestionEffect
<1> QED
  BY <1>1, <1>2 DEF OnceInv

-----------------------------------------------------------------------------
(* The refinement of Questions.                                            *)

\* PlaceKept: a question that nothing touches keeps its stage and its holders.
LEMMA PlaceKept ==
    ASSUME NEW u \in Turns, sends'[u].pc = sends[u].pc,
           \A k \in Sockets : /\ Answering(k, u)' <=> Answering(k, u)
                              /\ Queues(k, u)' <=> Queues(k, u)
    PROVE  Stages'[u] = Stages[u] /\ Holders'[u] = Holders[u]
BY DEF Stages, Holders, Pending

\* Placed: a question that a connection has.
LEMMA Placed ==
    ASSUME OnePlace, NEW t \in Turns, NEW k \in Sockets, Holds(k, t)
    PROVE  /\ Holders[t] = {k}
           /\ Stages[t] = IF Answering(k, t) THEN "answering" ELSE "handed"
<1>1. \A j \in Sockets \ {k} : ~Answering(j, t) /\ ~Queues(j, t)
  BY DEF OnePlace, Holds
<1> QED
  BY <1>1 DEF Holds, Stages, Holders

\* PlacedThen: the same after the step.
LEMMA PlacedThen ==
    ASSUME OnePlace', NEW t \in Turns, NEW k \in Sockets, Holds(k, t)'
    PROVE  /\ Holders'[t] = {k}
           /\ Stages'[t] = IF Answering(k, t)' THEN "answering" ELSE "handed"
<1>1. \A j \in Sockets \ {k} : ~Answering(j, t)' /\ ~Queues(j, t)'
  BY DEF OnePlace, Holds
<1> QED
  BY <1>1 DEF Holds, Stages, Holders

\* Unplaced: a question that no connection has.
LEMMA Unplaced ==
    ASSUME NEW t \in Turns, \A k \in Sockets : ~Holds(k, t)
    PROVE  /\ Holders[t] = {}
           /\ sends[t].pc = "unsent" => Stages[t] = "unasked"
           /\ Pending(t) => Stages[t] = "waiting"
BY DEF Holds, Stages, Holders, Pending

\* UnplacedThen: the same after the step.
LEMMA UnplacedThen ==
    ASSUME NEW t \in Turns, \A k \in Sockets : ~Holds(k, t)'
    PROVE  /\ Holders'[t] = {}
           /\ Pending(t)' => Stages'[t] = "waiting"
           /\ sends'[t].pc = "failed" => Stages'[t] = "failed"
           /\ sends'[t].pc = "sent" => Stages'[t] = "answered"
BY DEF Holds, Stages, Holders, Pending

\* what a step of Questions does to question t
Moves(t) ==
    \/ Stages[t] = "unasked" /\ Stages'[t] = "waiting" /\ Holders'[t] = Holders[t]
    \/ Stages[t] = "waiting" /\ Stages'[t] = "failed" /\ Holders'[t] = Holders[t]
    \/ /\ Stages[t] \in {"unasked", "waiting"} /\ Stages'[t] = "handed"
       /\ \E k \in Sockets : Holders'[t] = {k}
    \/ /\ Stages[t] = "handed" /\ Stages'[t] = "answering" /\ Holders'[t] = Holders[t]
       /\ \A u \in Turns : Stages[u] = "answering" => Holders[u] # Holders[t]
    \/ Stages[t] = "answering" /\ Stages'[t] = "answered" /\ Holders'[t] = {}

OthersRest(t) ==
    \A u \in Turns \ {t} : Stages'[u] = Stages[u] /\ Holders'[u] = Holders[u]

\* OneMoves: such a step is a step of Questions.
LEMMA OneMoves ==
    ASSUME NEW t \in Turns, Moves(t), OthersRest(t)
    PROVE  Question!Next
<1>1. /\ Stages = [u \in Turns |-> Stages[u]] /\ Stages' = [u \in Turns |-> Stages'[u]]
      /\ Holders = [u \in Turns |-> Holders[u]] /\ Holders' = [u \in Turns |-> Holders'[u]]
  BY DEF Stages, Holders
<1>2. /\ Stages' = [Stages EXCEPT ![t] = Stages'[t]]
      /\ Holders' = [Holders EXCEPT ![t] = Holders'[t]]
  BY <1>1 DEF OthersRest
<1>3. Holders'[t] = Holders[t] => Holders' = Holders
  BY <1>1 DEF OthersRest
<1> QED
  BY <1>2, <1>3 DEF Moves, Question!Next, Question!Ask, Question!GiveUp, Question!Hand,
                    Question!Take, Question!End

\* NothingMoves: a step that touches no question is none of Questions.
LEMMA NothingMoves ==
    ASSUME \A u \in Turns : Stages'[u] = Stages[u] /\ Holders'[u] = Holders[u]
    PROVE  UNCHANGED Question!vars
<1>1. /\ Stages = [u \in Turns |-> Stages[u]] /\ Stages' = [u \in Turns |-> Stages'[u]]
      /\ Holders = [u \in Turns |-> Holders[u]] /\ Holders' = [u \in Turns |-> Holders'[u]]
  BY DEF Stages, Holders
<1> QED
  BY <1>1 DEF Question!vars

\* QuestionInit: no question is asked.
LEMMA QuestionInit == ChatInit => Question!Init
<1> SUFFICES ASSUME ChatInit PROVE Question!Init
  OBVIOUS
<1>1. \A t \in Turns : sends[t].pc = "unsent" /\ \A k \in Sockets : ~Holds(k, t)
  BY DEF ChatInit, Holds, Answering, Queues
<1>2. \A t \in Turns : Stages[t] = "unasked" /\ Holders[t] = {}
  BY <1>1, Unplaced
<1>3. Stages = [u \in Turns |-> Stages[u]] /\ Holders = [u \in Turns |-> Holders[u]]
  BY DEF Stages, Holders
<1> QED
  BY <1>2, <1>3 DEF Question!Init

\* QuestionStep: every effect on the questions is a step of Questions or none.
LEMMA QuestionStep ==
    ASSUME OnceInv, [ChatNext]_vars
    PROVE  [Question!Next]_(Question!vars)
<1>1. Typed /\ OnePlace /\ OnePlace' /\ QuestionEffect
  BY OnceNext, Effects DEF OnceInv, WaitInv
<1>2. CASE (\A k \in Sockets : Untouched(k)) /\ sends' = sends
  <2>1. ASSUME NEW u \in Turns PROVE Stages'[u] = Stages[u] /\ Holders'[u] = Holders[u]
    <3>1. \A k \in Sockets : /\ Answering(k, u)' <=> Answering(k, u)
                             /\ Queues(k, u)' <=> Queues(k, u)
      BY <1>2, UntouchedKeeps
    <3> QED
      BY <1>2, <3>1, PlaceKept
  <2> QED
    BY <2>1, NothingMoves
<1>3. ASSUME \A k \in Sockets : Untouched(k), NEW t \in Turns, GoesOn(t)
      PROVE  [Question!Next]_(Question!vars)
  <2>1. \A k \in Sockets, u \in Turns : /\ Answering(k, u)' <=> Answering(k, u)
                                        /\ Queues(k, u)' <=> Queues(k, u)
    BY <1>3, UntouchedKeeps
  <2>2. OthersRest(t)
    <3> SUFFICES ASSUME NEW u \in Turns \ {t}
                 PROVE  Stages'[u] = Stages[u] /\ Holders'[u] = Holders[u]
      BY DEF OthersRest
    <3>1. sends'[u].pc = sends[u].pc
      BY <1>3 DEF GoesOn, OtherSends
    <3> QED
      BY <2>1, <3>1, PlaceKept
  <2>3. \A k \in Sockets : ~Holds(k, t)
    BY <1>1, <1>3 DEF OnePlace, GoesOn, Pending
  <2>4. \A k \in Sockets : ~Holds(k, t)'
    BY <2>1, <2>3 DEF Holds
  <2>5. Holders'[t] = Holders[t]
    BY <2>3, <2>4, Unplaced, UnplacedThen
  <2>6. CASE Pending(t) /\ Pending(t)'
    <3>1. Stages'[t] = Stages[t]
      BY <2>3, <2>4, <2>6, Unplaced, UnplacedThen
    <3> QED
      BY <2>2, <2>5, <3>1, NothingMoves DEF OthersRest
  <2>7. CASE \/ sends[t].pc = "unsent" /\ Pending(t)'
             \/ Pending(t) /\ sends'[t].pc = "failed"
    <3>1. Moves(t)
      BY <2>3, <2>4, <2>5, <2>7, Unplaced, UnplacedThen DEF Moves
    <3> QED
      BY <2>2, <3>1, OneMoves
  <2> QED
    BY <1>3, <2>6, <2>7 DEF GoesOn
<1>4. ASSUME NEW t \in Turns, NEW k \in Sockets, HandedTo(t, k)
      PROVE  [Question!Next]_(Question!vars)
  <2>1. \A u \in Turns : /\ Queues(k, u)' <=> Queues(k, u) \/ u = t
                         /\ Answering(k, u)' <=> Answering(k, u)
    BY <1>1, <1>4, OnceHanded DEF HandedTo
  <2>2. \A j \in Sockets \ {k}, u \in Turns : /\ Answering(j, u)' <=> Answering(j, u)
                                              /\ Queues(j, u)' <=> Queues(j, u)
    BY <1>4, UntouchedKeeps DEF HandedTo
  <2>3. OthersRest(t)
    <3> SUFFICES ASSUME NEW u \in Turns \ {t}
                 PROVE  Stages'[u] = Stages[u] /\ Holders'[u] = Holders[u]
      BY DEF OthersRest
    <3>1. sends'[u].pc = sends[u].pc
      BY <1>4 DEF HandedTo, OtherSends
    <3>2. \A j \in Sockets : /\ Answering(j, u)' <=> Answering(j, u)
                             /\ Queues(j, u)' <=> Queues(j, u)
      BY <2>1, <2>2
    <3> QED
      BY <3>1, <3>2, PlaceKept
  <2>4. \A j \in Sockets : ~Holds(j, t)
    BY <1>1, <1>4 DEF OnePlace, HandedTo
  <2>5. sends[t].pc = "unsent" \/ Pending(t)
    BY <1>1, <1>4 DEF HandedTo, Pending, Typed, WiresTyped, SendRecords, SendPc
  <2>6. Stages[t] \in {"unasked", "waiting"}
    BY <2>4, <2>5, Unplaced
  <2>7. Holds(k, t)' /\ ~Answering(k, t)'
    BY <2>1, <2>4 DEF Holds
  <2>8. Stages'[t] = "handed" /\ Holders'[t] = {k}
    BY <1>1, <2>7, PlacedThen
  <2>9. Moves(t)
    BY <2>6, <2>8 DEF Moves
  <2> QED
    BY <2>3, <2>9, OneMoves
<1>5. ASSUME NEW k \in Sockets, TakenBy(k)
      PROVE  [Question!Next]_(Question!vars)
  <2>1. PICK t \in Turns :
           /\ t = Head(sockets[k].outbox) /\ Queues(k, t)
           /\ \A u \in Turns : Queues(k, u)' <=> Queues(k, u) /\ u # t
    BY <1>1, <1>5, OnceTaken
  <2>2. /\ \A u \in Turns : ~Answering(k, u) /\ (Answering(k, u)' <=> u = t)
        /\ sends' = sends
    BY <1>5, <2>1 DEF TakenBy
  <2>3. \A j \in Sockets \ {k}, u \in Turns : /\ Answering(j, u)' <=> Answering(j, u)
                                              /\ Queues(j, u)' <=> Queues(j, u)
    BY <1>5, UntouchedKeeps DEF TakenBy
  <2>4. OthersRest(t)
    <3> SUFFICES ASSUME NEW u \in Turns \ {t}
                 PROVE  Stages'[u] = Stages[u] /\ Holders'[u] = Holders[u]
      BY DEF OthersRest
    <3>1. \A j \in Sockets : /\ Answering(j, u)' <=> Answering(j, u)
                             /\ Queues(j, u)' <=> Queues(j, u)
      BY <2>1, <2>2, <2>3
    <3> QED
      BY <2>2, <3>1, PlaceKept
  <2>5. Stages[t] = "handed" /\ Holders[t] = {k}
    BY <1>1, <2>1, <2>2, Placed DEF Holds
  <2>6. Holds(k, t)' /\ Answering(k, t)'
    BY <2>1, <2>2 DEF Holds
  <2>7. Stages'[t] = "answering" /\ Holders'[t] = {k}
    BY <1>1, <2>1, <2>6, PlacedThen
  <2>8. ASSUME NEW u \in Turns, Stages[u] = "answering" PROVE Holders[u] # Holders[t]
    <3>1. PICK j \in Sockets : Answering(j, u)
      BY <2>8 DEF Stages
    <3>2. j \in Holders[u] /\ j # k
      BY <2>2, <3>1 DEF Holders
    <3> QED
      BY <2>5, <3>2
  <2>9. Moves(t)
    BY <2>5, <2>7, <2>8 DEF Moves
  <2> QED
    BY <2>1, <2>4, <2>9, OneMoves
<1>6. ASSUME NEW t \in Turns, NEW k \in Sockets, EndedBy(t, k)
      PROVE  [Question!Next]_(Question!vars)
  <2>1. \A u \in Turns : Queues(k, u)' <=> Queues(k, u)
    BY <1>1, <1>6, OnceEnded
  <2>2. /\ \A u \in Turns : ~Answering(k, u)' /\ (Answering(k, u) => u = t)
        /\ sends' = sends /\ Answering(k, t)
    BY <1>6 DEF EndedBy, Answering
  <2>3. \A j \in Sockets \ {k}, u \in Turns : /\ Answering(j, u)' <=> Answering(j, u)
                                              /\ Queues(j, u)' <=> Queues(j, u)
    BY <1>6, UntouchedKeeps DEF EndedBy
  <2>4. OthersRest(t)
    <3> SUFFICES ASSUME NEW u \in Turns \ {t}
                 PROVE  Stages'[u] = Stages[u] /\ Holders'[u] = Holders[u]
      BY DEF OthersRest
    <3>1. \A j \in Sockets : /\ Answering(j, u)' <=> Answering(j, u)
                             /\ Queues(j, u)' <=> Queues(j, u)
      BY <2>1, <2>2, <2>3
    <3> QED
      BY <2>2, <3>1, PlaceKept
  <2>5. Holds(k, t) /\ ~Queues(k, t) /\ \A j \in Sockets \ {k} : ~Holds(j, t)
    BY <1>1, <2>2 DEF OnePlace, Holds
  <2>6. Stages[t] = "answering"
    BY <1>1, <2>2, <2>5, Placed
  <2>7. \A j \in Sockets : ~Holds(j, t)'
    BY <2>1, <2>2, <2>3, <2>5 DEF Holds
  <2>8. sends'[t].pc = "sent"
    BY <1>1, <2>2, <2>5 DEF OnePlace
  <2>9. Stages'[t] = "answered" /\ Holders'[t] = {}
    BY <2>7, <2>8, UnplacedThen
  <2>10. Moves(t)
    BY <2>6, <2>9 DEF Moves
  <2> QED
    BY <2>4, <2>10, OneMoves
<1> QED
  BY <1>1, <1>2, <1>3, <1>4, <1>5, <1>6, Zenon DEF QuestionEffect

\* For any number of turns, sockets and tokens, the chat implements Questions: however
\* sends, timers, closes and retries interleave, a question is handed to one connection
\* at most and answered at most once, never after its send failed, and a connection
\* answers one at a time (useWebSocket.ts, chat_handler.py).
THEOREM QuestionSafety == ChatSpec => EachQuestionOnce
<1>1. OnceInv /\ [ChatNext]_vars => [Question!Next]_(Question!vars)
  BY QuestionStep
<1> QED
  BY <1>1, OnceInit, OnceNext, QuestionInit, PTL DEF ChatSpec, EachQuestionOnce, Question!Spec

===============================================================================
