---------------------- MODULE MqttAsyncPromises_proofs ----------------------
(***************************************************************************)
(* Proofs about MqttAsync, continued: what the client promises its         *)
(* application over many steps.  A client with automaticReconnect that is  *)
(* never disconnected is never left offline for good, a call is answered   *)
(* once at most, as AsyncCalls has it, and a QoS 1 publication is kept     *)
(* until it is answered.                                                   *)
(***************************************************************************)
EXTENDS MqttAsync_proofs

USE CallsAssumption, NumbersAssumption, OptionsAssumption
-----------------------------------------------------------------------------
(***************************************************************************)
(* A step is either quiet, it leaves alone what gets the client connected, *)
(* or it closes the connection and then starts a retry.                    *)
(***************************************************************************)

Asks(q) == \E i \in DOMAIN q : q[i].type = "CONNECT"

\* A disconnect under way is one the client asked for itself: the
\* application's would not be followed by a retry.
Retries(s) ==
    /\ s.shouldBeConnected = 1 =>
          s.connected = 1 \/ s.connect_state # "NOT_IN_PROGRESS" \/ s.retrying = 1 \/ Asks(s.commands)
    /\ s.connect_state = "DISCONNECTING" => s.disconnect = INTERNAL

\* e is s after a change that has nothing to do with the connection.
Quiet(s, e) ==
    /\ e.connected = s.connected /\ e.connect_state = s.connect_state
    /\ e.retrying = s.retrying /\ e.shouldBeConnected = s.shouldBeConnected
    /\ e.disconnect = s.disconnect
    /\ Asks(s.commands) => Asks(e.commands)

RetryInv == Disconnects = {} /\ AutoReconnect = 1 => Retries(m)

-----------------------------------------------------------------------------
(* The operators on the structure.                                         *)

LEMMA QuietRetries ==
    ASSUME NEW s, NEW e, Retries(s), Quiet(s, e)
    PROVE  Retries(e)
  BY DEF Quiet, Retries

LEMMA QuietAgain ==
    ASSUME NEW s, NEW e, NEW f, Quiet(s, e), Quiet(e, f)
    PROVE  Quiet(s, f)
  BY DEF Quiet

LEMMA QuietNothing == \A s : Quiet(s, s)
  BY DEF Quiet

\* A longer queue asks for what a shorter one asked for.
LEMMA AsksLonger ==
    ASSUME NEW q \in Seq(Commands), NEW c \in Commands
    PROVE  /\ Asks(q) => Asks(Append(q, c)) /\ Asks(<<c>> \o q)
           /\ c.type = "CONNECT" => Asks(Append(q, c)) /\ Asks(<<c>> \o q)
           /\ q # <<>> /\ Head(q).type = "CONNECT" => Asks(q)
<1>1. Len(q) \in Nat /\ DOMAIN q = 1..Len(q)
  BY LenProperties
<1>2. /\ DOMAIN Append(q, c) = 1..(Len(q) + 1)
      /\ \A i \in 1..Len(q) : Append(q, c)[i] = q[i]
      /\ Append(q, c)[Len(q) + 1] = c
  BY AppendProperties, LenProperties
<1>3. /\ DOMAIN (<<c>> \o q) = 1..(Len(q) + 1)
      /\ (<<c>> \o q)[1] = c
      /\ \A i \in 1..Len(q) : (<<c>> \o q)[i + 1] = q[i]
  <2>1. <<c>> \in Seq(Commands) /\ Len(<<c>>) = 1 /\ <<c>>[1] = c
    OBVIOUS
  <2>2. Len(<<c>> \o q) = 1 + Len(q) /\ (<<c>> \o q) \in Seq(Commands)
    BY <2>1, ConcatProperties
  <2>3. \A i \in 1..(1 + Len(q)) : (<<c>> \o q)[i] = IF i <= 1 THEN <<c>>[i] ELSE q[i - 1]
    BY <2>1, ConcatProperties
  <2> QED BY <1>1, <2>1, <2>2, <2>3, LenProperties
<1> DEFINE a == Append(q, c)
           b == <<c>> \o q
<1> HIDE DEF a, b
<1>4. Asks(q) => Asks(a) /\ Asks(b)
  <2> SUFFICES ASSUME Asks(q) PROVE Asks(a) /\ Asks(b)
    OBVIOUS
  <2>1. PICK i \in 1..Len(q) : q[i].type = "CONNECT"
    BY <1>1 DEF Asks
  <2>2. i \in DOMAIN a /\ a[i] = q[i] /\ i + 1 \in DOMAIN b /\ b[i + 1] = q[i]
    BY <1>1, <1>2, <1>3, <2>1 DEF a, b
  <2> QED BY <2>1, <2>2 DEF Asks
<1>5. c.type = "CONNECT" => Asks(a) /\ Asks(b)
  <2>1. Len(q) + 1 \in DOMAIN a /\ a[Len(q) + 1] = c /\ 1 \in DOMAIN b /\ b[1] = c
    BY <1>1, <1>2, <1>3 DEF a, b
  <2> QED BY <2>1 DEF Asks
<1>6. q # <<>> /\ Head(q).type = "CONNECT" => Asks(q)
  BY HeadTailProperties, EmptySeq, <1>1 DEF Asks
<1> QED BY <1>4, <1>5, <1>6 DEF a, b

\* A shorter one too, unless what it lost was a CONNECT.
LEMMA AsksShorter ==
    ASSUME NEW q \in Seq(Commands), q # <<>>, Head(q).type # "CONNECT", Asks(q)
    PROVE  Asks(Tail(q))
<1>1. PICK i \in DOMAIN q : q[i].type = "CONNECT"
  BY DEF Asks
<1>2. Len(q) \in Nat /\ DOMAIN q = 1..Len(q) /\ Head(q) = q[1]
  BY LenProperties, HeadTailProperties
<1>3. /\ Tail(q) \in Seq(Commands) /\ Len(Tail(q)) = Len(q) - 1
      /\ \A j \in 1..Len(Tail(q)) : Tail(q)[j] = q[j + 1]
  BY HeadTailProperties
<1>4. DOMAIN Tail(q) = 1..(Len(q) - 1)
  BY <1>3, LenProperties
<1>5. i # 1 /\ i \in 1..Len(q)
  BY <1>1, <1>2
<1> DEFINE j == i - 1
<1>6. j \in 1..(Len(q) - 1) /\ j + 1 = i
  BY <1>2, <1>5
<1> HIDE DEF j
<1>7. j \in DOMAIN Tail(q) /\ Tail(q)[j] = q[i]
  BY <1>3, <1>4, <1>6
<1> QED BY <1>1, <1>7 DEF Asks

\* MQTTAsync_addCommand.
LEMMA AddCommandQuiet ==
    ASSUME NEW s \in MQTTAsyncs, NEW c \in Commands
    PROVE  /\ AddCommand(s, c) \in MQTTAsyncs /\ Quiet(s, AddCommand(s, c))
           /\ c.type = "CONNECT" => Asks(AddCommand(s, c).commands)
<1>1. s.commands \in Seq(Commands)
  BY DEF MQTTAsyncs
<1> DEFINE a == Append(s.commands, c)
           b == <<c>> \o s.commands
           d == [s EXCEPT !.commands = a]
           e == [s EXCEPT !.commands = b]
<1>2. \/ AddCommand(s, c) = s /\ (c.type = "CONNECT" => s.commands # <<>> /\ Head(s.commands).type = "CONNECT")
      \/ AddCommand(s, c) = d
      \/ AddCommand(s, c) = e
  BY <1>1 DEF AddCommand
<1>3. /\ Asks(s.commands) \/ c.type = "CONNECT" => Asks(a) /\ Asks(b)
      /\ s.commands # <<>> /\ Head(s.commands).type = "CONNECT" => Asks(s.commands)
  BY <1>1, AsksLonger
<1>6. a \in Seq(Commands) /\ b \in Seq(Commands)
  BY <1>1, AppendProperties, ConcatProperties
<1> HIDE DEF a, b
<1>7. d \in MQTTAsyncs /\ e \in MQTTAsyncs
  BY <1>6 DEF MQTTAsyncs
<1>4. /\ d.connected = s.connected /\ d.connect_state = s.connect_state /\ d.retrying = s.retrying
      /\ d.shouldBeConnected = s.shouldBeConnected /\ d.disconnect = s.disconnect /\ d.commands = a
  BY <1>1 DEF MQTTAsyncs
<1>5. /\ e.connected = s.connected /\ e.connect_state = s.connect_state /\ e.retrying = s.retrying
      /\ e.shouldBeConnected = s.shouldBeConnected /\ e.disconnect = s.disconnect /\ e.commands = b
  BY <1>1 DEF MQTTAsyncs
<1> HIDE DEF d, e
<1> QED BY <1>2, <1>3, <1>4, <1>5, <1>7 DEF Quiet

\* MQTTAsync_disconnect_internal.
LEMMA DisconnectInternalQuiet ==
    ASSUME NEW s \in MQTTAsyncs
    PROVE  DisconnectInternal(s) \in MQTTAsyncs /\ Quiet(s, DisconnectInternal(s))
  BY AddCommandQuiet, AttemptIsCommand, QuietNothing DEF DisconnectInternal

\* A callback.
LEMMA AnswerQuiet ==
    ASSUME NEW s \in MQTTAsyncs, NEW c, NEW how
    PROVE  Quiet(s, Answer(s, c, how))
<1> DEFINE o == EndWith(s.outcome, how, {c.call})
           e == [s EXCEPT !.outcome = o]
<1>2. Answer(s, c, how) = e
  BY DEF Answer
<1> HIDE DEF o
<1>3. Quiet(s, e)
  BY DEF MQTTAsyncs, Quiet
<1> QED BY <1>2, <1>3

\* A write, with the answer it may have.
LEMMA WriteQuiet ==
    ASSUME NEW s \in MQTTAsyncs, NEW how, NEW reply \in Packets
    PROVE  Write(s, how, reply) \in MQTTAsyncs /\ Quiet(s, Write(s, how, reply))
<1> DEFINE d == [s EXCEPT !.unsent = <<reply>>]
           e == [s EXCEPT !.inbox = Append(s.inbox, reply)]
<1>1. Append(s.inbox, reply) \in Seq(Packets)
  BY AppendProperties DEF MQTTAsyncs
<1>2. d \in MQTTAsyncs /\ e \in MQTTAsyncs /\ Quiet(s, d) /\ Quiet(s, e)
  BY <1>1 DEF MQTTAsyncs, Quiet
<1>3. Write(s, how, reply) \in {s, d, e}
  BY DEF Write
<1> QED BY <1>2, <1>3, QuietNothing

\* The lists of responses and of messages in flight.
LEMMA ResponsesQuiet ==
    ASSUME NEW s \in MQTTAsyncs, NEW q
    PROVE  Quiet(s, [s EXCEPT !.responses = q]) /\ Quiet(s, [s EXCEPT !.outboundMsgs = q])
  BY DEF MQTTAsyncs, Quiet

LEMMA FinishResponseQuiet ==
    ASSUME NEW s, Sound(s), NEW p \in Packets, p.type \in {"SUBACK", "PUBACK"}
    PROVE  Quiet(s, FinishResponse(s, p))
<1> DEFINE i == ResponseTo(s, p.token)
           how == IF s.responses[i].call = p.call THEN p.val ELSE "mistaken"
           a == Answer(s, s.responses[i], how)
<1>1. how \in Outcomes
  BY PacketValue DEF Outcomes
<1>2. FinishResponse(s, p) = IF i = 0 THEN s ELSE [a EXCEPT !.responses = RemoveAt(@, i)]
  BY DEF FinishResponse
<1> HIDE DEF i, how
<1>3. Sound(a) /\ Quiet(s, a)
  BY <1>1, AnswerSound, AnswerQuiet DEF Sound
<1> HIDE DEF a
<1>4. [a EXCEPT !.responses = RemoveAt(@, i)] = [a EXCEPT !.responses = RemoveAt(a.responses, i)]
  BY <1>3 DEF Sound, MQTTAsyncs
<1>5. Quiet(a, [a EXCEPT !.responses = RemoveAt(a.responses, i)])
  BY <1>3, ResponsesQuiet DEF Sound
<1> QED BY <1>2, <1>3, <1>4, <1>5, QuietNothing, QuietAgain

LEMMA RemoveMessageQuiet ==
    ASSUME NEW s, Sound(s), NEW t
    PROVE  Quiet(s, RemoveMessage(s, t))
<1> DEFINE i == SelectInSeq(s.outboundMsgs, LAMBDA x : x.token = t)
           q == RemoveAt(s.outboundMsgs, i)
<1>1. RemoveMessage(s, t) = IF i = 0 THEN s ELSE [s EXCEPT !.outboundMsgs = q]
  BY DEF RemoveMessage, Sound, MQTTAsyncs
<1> HIDE DEF i, q
<1>2. Quiet(s, [s EXCEPT !.outboundMsgs = q])
  BY ResponsesQuiet DEF Sound
<1> QED BY <1>1, <1>2, QuietNothing

\* MQTTAsync_writeComplete.
LEMMA WriteCompleteQuiet ==
    ASSUME NEW s \in MQTTAsyncs, NEW how, NEW read
    PROVE  Quiet(s, WriteComplete(s, how, read))
<1> DEFINE o == EndWith(EndWith(s.outcome, how, IF read THEN {s.pending_write} ELSE {}),
                        "lost", {Head(s.responses).call})
           d == [s EXCEPT !.pending_write = 0]
           e == [s EXCEPT !.pending_write = 0, !.responses = Tail(s.responses), !.outcome = o]
<1>2. WriteComplete(s, how, read) \in {s, d, e}
  BY DEF WriteComplete, MQTTAsyncs
<1> HIDE DEF o
<1>3. Quiet(s, d) /\ Quiet(s, e)
  BY DEF MQTTAsyncs, Quiet
<1> QED BY <1>2, <1>3, QuietNothing

\* MQTTProtocol_retries.
LEMMA ResendQuiet ==
    ASSUME NEW s, Sound(s), s.connect # NoCommand, NEW n \in 0..Len(s.outboundMsgs), NEW how
    PROVE  Quiet(s, Resend(s, n, how))
<1> DEFINE acks == [i \in 1..n |-> PUBACK(s.outboundMsgs[i])]
           q == s.inbox \o (IF s.link = "open" THEN acks ELSE <<>>)
           e == [s EXCEPT !.inbox = q]
           d == [e EXCEPT !.unsent = <<PUBACK(s.outboundMsgs[n + 1])>>]
<1>1. s \in MQTTAsyncs /\ s.outboundMsgs \in Seq(Messages) /\ s.inbox \in Seq(Packets)
  BY DEF Sound, MQTTAsyncs
<1>2. n \in Nat /\ \A i \in 1..n : PUBACK(s.outboundMsgs[i]) \in Packets
  BY <1>1, PacketTyped, ElementOfSeq, LenProperties
<1>3. acks \in Seq(Packets)
  BY <1>2
<1> HIDE DEF acks
<1>4. q \in Seq(Packets)
  BY <1>1, <1>3, Nothing, ConcatProperties
<1>5. Resend(s, n, how) \in {e, d, DisconnectInternal(e)}
  <2>1. [s EXCEPT !.inbox = @ \o IF s.link = "open" THEN acks ELSE <<>>] = e
    BY <1>1 DEF MQTTAsyncs
  <2> QED BY <2>1 DEF Resend, acks
<1> HIDE DEF q
<1>6. e \in MQTTAsyncs
  BY <1>1, <1>4 DEF MQTTAsyncs
<1>8. Quiet(s, e) /\ Quiet(s, d)
  BY <1>1 DEF MQTTAsyncs, Quiet
<1> HIDE DEF e, d
<1> QED BY <1>5, <1>6, <1>8, DisconnectInternalQuiet, QuietAgain

\* What closes a session does not forget that it should be connected.
LEMMA CloseSessionCloses ==
    ASSUME NEW s, Sound(s)
    PROVE  /\ CloseSession(s).connect_state = "NOT_IN_PROGRESS"
           /\ CloseSession(s).shouldBeConnected = s.shouldBeConnected
           /\ CloseOnly(s).connect_state = "NOT_IN_PROGRESS"
           /\ CloseOnly(s).shouldBeConnected = s.shouldBeConnected
           /\ CloseOnly(s).commands = s.commands /\ CloseOnly(s).retrying = s.retrying
<1> DEFINE c == CloseOnly(s)
           e == [c EXCEPT !.outboundMsgs = <<>>, !.msgID = 0]
           d == RemoveResponsesAndCommands(e)
<1>1. s \in MQTTAsyncs
  BY DEF Sound
<1>2. /\ c.connect_state = "NOT_IN_PROGRESS" /\ c.shouldBeConnected = s.shouldBeConnected
      /\ c.commands = s.commands /\ c.retrying = s.retrying
  BY <1>1 DEF MQTTAsyncs, CloseOnly
<1>3. Sound(c)
  BY CloseOnlySound
<1>4. CloseSession(s) \in {c, d}
  BY DEF CloseSession, CleanSessionState
<1> HIDE DEF c
<1>5. c \in MQTTAsyncs
  BY <1>3 DEF Sound
<1>6. e \in MQTTAsyncs
  BY <1>5, Ids, Nothing DEF MQTTAsyncs
<1>7. e.connect_state = c.connect_state /\ e.shouldBeConnected = c.shouldBeConnected
  BY <1>5 DEF MQTTAsyncs
<1> HIDE DEF e
<1>8. d.connect_state = e.connect_state /\ d.shouldBeConnected = e.shouldBeConnected
  BY <1>6 DEF MQTTAsyncs, RemoveResponsesAndCommands
<1> HIDE DEF d
<1> QED BY <1>2, <1>4, <1>7, <1>8 DEF c

\* MQTTAsync_startConnectRetry.
LEMMA RetryStarted ==
    ASSUME NEW s, s \in MQTTAsyncs, s.connect_state = "NOT_IN_PROGRESS", AutoReconnect = 1
    PROVE  Retries(StartConnectRetry(s))
<1> DEFINE e == [s EXCEPT !.retrying = 1]
<1>1. e.retrying = 1 /\ e.connect_state = "NOT_IN_PROGRESS"
  BY DEF MQTTAsyncs
<1>2. StartConnectRetry(s) = e \/ (StartConnectRetry(s) = s /\ s.shouldBeConnected # 1)
  BY DEF StartConnectRetry
<1> HIDE DEF e
<1> QED BY <1>1, <1>2 DEF Retries

\* nextOrClose: another attempt, or the retries.
LEMMA NextOrCloseRetries ==
    ASSUME NEW s, Sound(s), s.connect # NoCommand, AutoReconnect = 1
    PROVE  Retries(NextOrClose(s))
<1> DEFINE a == NextAttempt(s.connect)
           b == CloseOnly(s)
           e == CloseSession(s)
<1>1. s.connect \in Attempts
  BY DEF Sound, MQTTAsyncs
<1>2. CASE CheckConn(s.connect)
  <2>1. a \in Attempts /\ a \in Commands /\ a.type = "CONNECT"
    BY <1>1, <1>2, NextAttemptTyped, AttemptIsCommand
  <2>2. Sound(b) /\ b.connect_state = "NOT_IN_PROGRESS"
    BY CloseOnlySound, CloseSessionCloses
  <2>3. NextOrClose(s) = AddCommand(b, a)
    BY <1>2 DEF NextOrClose
  <2> HIDE DEF a, b
  <2> DEFINE f == AddCommand(b, a)
  <2>4. Quiet(b, f) /\ Asks(f.commands)
    BY <2>1, <2>2, AddCommandQuiet DEF Sound
  <2> HIDE DEF f
  <2>5. Retries(f)
    BY <2>2, <2>4 DEF Quiet, Retries
  <2> QED BY <2>3, <2>5 DEF f
<1>3. CASE ~CheckConn(s.connect)
  <2>1. e \in MQTTAsyncs /\ e.connect_state = "NOT_IN_PROGRESS"
    BY CloseSessionSound, CloseSessionCloses DEF Sound
  <2> HIDE DEF e
  <2>2. Retries(StartConnectRetry(e))
    BY <2>1, RetryStarted
  <2> QED BY <1>3, <2>2 DEF NextOrClose, e
<1> QED BY <1>2, <1>3

\* MQTTAsync_checkDisconnect, for a disconnect of the client's own.
LEMMA CheckDisconnectRetries ==
    ASSUME NEW s, Sound(s), Retries(s), AutoReconnect = 1, NEW elapsed
    PROVE  Retries(CheckDisconnect(s, INTERNAL, elapsed))
<1> DEFINE e == CloseSession(s)
<1>1. e \in MQTTAsyncs /\ e.connect_state = "NOT_IN_PROGRESS"
  BY CloseSessionSound, CloseSessionCloses DEF Sound
<1>2. CheckDisconnect(s, INTERNAL, elapsed) \in {s, StartConnectRetry(e)}
  BY AttemptIsCommand DEF CheckDisconnect
<1> HIDE DEF e
<1>3. Retries(StartConnectRetry(e))
  BY <1>1, RetryStarted
<1> QED BY <1>2, <1>3

\* MQTTAsync_completeConnection stops the retries of a client that is
\* connected.
LEMMA CompleteConnectionRetries ==
    ASSUME NEW s, Sound(s), NEW p
    PROVE  Retries(CompleteConnection(s, p))
<1> DEFINE c == [s EXCEPT !.retrying = 0, !.connected = 1, !.connect_state = "NOT_IN_PROGRESS"]
           e == [c EXCEPT !.outboundMsgs = <<>>, !.msgID = 0]
           d == RemoveResponsesAndCommands(e)
<1>1. c \in MQTTAsyncs
  BY DEF Sound, MQTTAsyncs, ConnectStates
<1>2. c.connected = 1 /\ c.connect_state = "NOT_IN_PROGRESS"
  BY DEF Sound, MQTTAsyncs
<1>3. CompleteConnection(s, p) \in {c, d}
  BY DEF CompleteConnection, CleanSessionState
<1> HIDE DEF c
<1>4. e \in MQTTAsyncs
  BY <1>1, Ids, Nothing DEF MQTTAsyncs
<1>5. e.connected = c.connected /\ e.connect_state = c.connect_state
  BY <1>1 DEF MQTTAsyncs
<1> HIDE DEF e
<1>6. d.connected = e.connected /\ d.connect_state = e.connect_state
  BY <1>4 DEF MQTTAsyncs, RemoveResponsesAndCommands
<1> HIDE DEF d
<1> QED BY <1>2, <1>3, <1>5, <1>6 DEF Retries
-----------------------------------------------------------------------------
(* The actions.                                                            *)


\* The steps that leave alone what gets the client connected.
LEMMA ApplicationQuiet ==
    ASSUME Inv, NEW t \in Threads, (\E r \in Calls : Request(t, r)) \/ Add(t)
    PROVE  Quiet(m, m')
<1>1. m \in MQTTAsyncs
  BY DEF Inv, Sound
<1>2. CASE \E r \in Calls : Request(t, r)
  <2>1. \E id : m' = [m EXCEPT !.msgID = id] \/ m' = m
    BY <1>2 DEF Request
  <2>2. PICK id : m' = [m EXCEPT !.msgID = id] \/ m' = m
    BY <2>1
  <2>3. Quiet(m, [m EXCEPT !.msgID = id])
    BY <1>1 DEF MQTTAsyncs, Quiet
  <2> QED BY <2>2, <2>3, QuietNothing
<1>3. CASE Add(t)
  <2> DEFINE c == app[t]
             a == AddCommand(m, c)
             e == [a EXCEPT !.outcome[c.call] = "pending"]
  <2>1. c \in Commands /\ m' = e
    BY <1>3, AttemptIsCommand DEF Inv, TypeOK, Add
  <2> HIDE DEF c
  <2>2. Sound(a) /\ Quiet(m, a)
    BY <2>1, AddCommandSound, AddCommandQuiet DEF Inv, Sound
  <2> HIDE DEF a
  <2>3. Quiet(a, e)
    BY <2>2 DEF Sound, MQTTAsyncs, Quiet
  <2> QED BY <2>1, <2>2, <2>3, QuietAgain
<1> QED BY <1>2, <1>3

\* processCommand takes a command off the queue.
LEMMA DetachedQuiet ==
    ASSUME Inv, NEW c, First(c), c.type # "CONNECT"
    PROVE  Quiet(m, Detached)
<1>1. m \in MQTTAsyncs /\ m.commands \in Seq(Commands) /\ m.commands # <<>> /\ c = Head(m.commands)
  BY DEF Inv, Sound, MQTTAsyncs, First
<1>2. Asks(m.commands) => Asks(Tail(m.commands))
  BY <1>1, AsksShorter
<1> DEFINE q == Tail(m.commands)
           e == [m EXCEPT !.commands = q]
<1>3. Detached = e
  BY <1>1 DEF Detached, MQTTAsyncs
<1> HIDE DEF q
<1>4. /\ e.connected = m.connected /\ e.connect_state = m.connect_state /\ e.retrying = m.retrying
      /\ e.shouldBeConnected = m.shouldBeConnected /\ e.disconnect = m.disconnect /\ e.commands = q
  BY <1>1 DEF MQTTAsyncs
<1> HIDE DEF e
<1> QED BY <1>2, <1>3, <1>4 DEF Quiet, q

LEMMA ProcessAcknowledgedQuiet ==
    ASSUME Inv, NEW c, First(c), ProcessAcknowledged(c)
    PROVE  Quiet(m, m')
<1> DEFINE d == Detached
           y == [d EXCEPT !.outboundMsgs = Append(d.outboundMsgs, Message(c))]
           s == IF c.type = "SUBSCRIBE" THEN d ELSE y
           reply(val) == IF c.type = "SUBSCRIBE" THEN SUBACK(c, val) ELSE PUBACK(c)
<1>1. c \in Requests /\ c.type \in {"SUBSCRIBE", "PUBLISH1"}
  BY ReadyConnected DEF ProcessAcknowledged
<1>2. Sound(d) /\ d \in MQTTAsyncs /\ Quiet(m, d)
  BY <1>1, DetachedSound, DetachedQuiet DEF Sound
<1>3. PICK how \in Writes(m), val \in {"ok", "fail"} :
        m' = IF how = "error" THEN Answer(DisconnectInternal(s), c, "fail")
             ELSE [Write(s, how, reply(val)) EXCEPT !.responses = Append(@, c)]
  BY <1>2 DEF ProcessAcknowledged, MQTTAsyncs
<1> HIDE DEF d
<1>4. Quiet(d, y)
  BY <1>2, ResponsesQuiet
<1>5. y \in MQTTAsyncs \/ c.type = "SUBSCRIBE"
  <2> DEFINE q == Append(d.outboundMsgs, Message(c))
  <2>1. c.type = "PUBLISH1" => q \in Seq(Messages)
    BY <1>1, <1>2, PacketTyped, AppendProperties DEF MQTTAsyncs
  <2> HIDE DEF q
  <2>2. c.type = "PUBLISH1" => [d EXCEPT !.outboundMsgs = q] \in MQTTAsyncs
    BY <1>2, <2>1 DEF MQTTAsyncs
  <2> QED BY <1>1, <2>2 DEF q
<1> HIDE DEF y
<1>6. s \in MQTTAsyncs /\ Quiet(m, s)
  BY <1>2, <1>4, <1>5, QuietAgain
<1> HIDE DEF s
<1>7. CASE how = "error"
  <2> DEFINE a == DisconnectInternal(s)
  <2>1. a \in MQTTAsyncs /\ Quiet(s, a)
    BY <1>6, DisconnectInternalQuiet
  <2> HIDE DEF a
  <2>2. Quiet(a, Answer(a, c, "fail"))
    BY <2>1, AnswerQuiet
  <2>3. m' = Answer(a, c, "fail")
    BY <1>3, <1>7 DEF a
  <2> QED BY <1>6, <2>1, <2>2, <2>3, QuietAgain
<1>8. CASE how # "error"
  <2> DEFINE w == Write(s, how, reply(val))
  <2>1. reply(val) \in Packets
    BY <1>1, <1>3, PacketTyped
  <2>2. w \in MQTTAsyncs /\ Quiet(s, w)
    BY <1>6, <2>1, WriteQuiet
  <2>3. m' = [w EXCEPT !.responses = Append(@, c)]
    BY <1>3, <1>8
  <2> HIDE DEF w
  <2>4. m' = [w EXCEPT !.responses = Append(w.responses, c)]
    BY <2>2, <2>3 DEF MQTTAsyncs
  <2>5. Quiet(w, m')
    BY <2>2, <2>4, ResponsesQuiet
  <2> QED BY <1>6, <2>2, <2>5, QuietAgain
<1> QED BY <1>7, <1>8

LEMMA ProcessPublish0Quiet ==
    ASSUME Inv, NEW c, First(c), ProcessPublish0(c)
    PROVE  Quiet(m, m')
<1> DEFINE d == Detached
           e == [d EXCEPT !.pending_write = c.call]
           b == DisconnectInternal(e)
<1>1. c \in Requests /\ c.type = "PUBLISH0" /\ c.call \in Publishes0
  BY ReadyConnected, RequestFields DEF ProcessPublish0
<1>2. d \in MQTTAsyncs /\ Quiet(m, d)
  BY <1>1, DetachedSound, DetachedQuiet DEF Sound
<1>3. PICK how : m' \in {Answer(d, c, "ok"), Write(d, how, NoPacket), Answer(b, c, "fail")}
  BY DEF ProcessPublish0
<1> HIDE DEF d
<1>4. e \in MQTTAsyncs /\ Quiet(d, e)
  BY <1>1, <1>2 DEF MQTTAsyncs, Quiet
<1> HIDE DEF e
<1>5. b \in MQTTAsyncs /\ Quiet(e, b)
  BY <1>4, DisconnectInternalQuiet
<1> HIDE DEF b
<1>6. /\ Quiet(d, Answer(d, c, "ok"))
      /\ Quiet(d, Write(d, how, NoPacket))
      /\ Quiet(b, Answer(b, c, "fail"))
  BY <1>2, <1>5, AnswerQuiet, WriteQuiet, PacketTyped
<1>7. Quiet(m, b)
  BY <1>2, <1>4, <1>5, QuietAgain
<1> QED BY <1>2, <1>3, <1>6, <1>7, QuietAgain

LEMMA SendingQuiet ==
    ASSUME Inv, FlagPendingWrite \/ AppendResponse \/ Wait \/ Wake
    PROVE  Quiet(m, m')
<1>1. m \in MQTTAsyncs
  BY DEF Inv, Sound
<1>2. CASE FlagPendingWrite
  BY <1>1, <1>2 DEF FlagPendingWrite, MQTTAsyncs, Quiet
<1>3. CASE AppendResponse
  <2>1. m' = [m EXCEPT !.responses = Append(m.responses, taken.cmd)]
    BY <1>1, <1>3 DEF AppendResponse, MQTTAsyncs
  <2> QED BY <1>1, <2>1, ResponsesQuiet
<1>4. CASE Wait \/ Wake
  BY <1>4, QuietNothing DEF Wait, Wake
<1> QED BY <1>2, <1>3, <1>4

LEMMA ContinueWritesQuiet ==
    ASSUME Inv, ContinueWrites
    PROVE  Quiet(m, m')
<1> DEFINE s == [m EXCEPT !.unsent = <<>>]
           w == Write(s, "complete", m.unsent[1])
<1>1. m \in MQTTAsyncs
  BY DEF Inv, Sound
<1>2. s \in MQTTAsyncs /\ Quiet(m, s)
  BY <1>1, Nothing DEF MQTTAsyncs, Quiet
<1>3. PICK read : m' \in {WriteComplete(w, "ok", read), WriteComplete(s, "fail", read)}
  BY DEF ContinueWrites
<1>4. m.unsent[1] \in Packets
  <2>1. m.unsent \in {<<>>} \cup {<<p>> : p \in Packets} /\ m.unsent # <<>>
    BY <1>1 DEF ContinueWrites, MQTTAsyncs
  <2>2. PICK p \in Packets : m.unsent = <<p>>
    BY <2>1
  <2> QED BY <2>2
<1> HIDE DEF s
<1>5. w \in MQTTAsyncs /\ Quiet(s, w)
  BY <1>2, <1>4, WriteQuiet
<1> HIDE DEF w
<1>6. Quiet(w, WriteComplete(w, "ok", read)) /\ Quiet(s, WriteComplete(s, "fail", read))
  BY <1>2, <1>5, WriteCompleteQuiet
<1> QED BY <1>2, <1>3, <1>5, <1>6, QuietAgain

LEMMA CyclePacketQuiet ==
    ASSUME Inv, CyclePacket
    PROVE  Quiet(m, m')
<1> DEFINE p == Head(m.inbox)
           q == Tail(m.inbox)
           s == [m EXCEPT !.inbox = q]
           r == RemoveMessage(s, p.token)
           f == FinishResponse(r, p)
<1>1. m \in MQTTAsyncs /\ m.inbox \in Seq(Packets) /\ m.inbox # <<>> /\ m.connect # NoCommand
  BY DEF Inv, Sound, MQTTAsyncs, Started, CyclePacket
<1>2. p \in Packets /\ q \in Seq(Packets)
  BY <1>1, HeadTailProperties
<1>3. (p.type = "PUBACK" /\ m' = f) \/ m' = s
  <2>1. [m EXCEPT !.inbox = Tail(@)] = s
    BY <1>1 DEF MQTTAsyncs
  <2> QED BY <2>1 DEF CyclePacket
<1> HIDE DEF p, q
<1>4. s \in MQTTAsyncs /\ Quiet(m, s)
  BY <1>1, <1>2 DEF MQTTAsyncs, Quiet
<1>5. /\ s.connected = m.connected /\ s.connect_state = m.connect_state /\ s.link = m.link
      /\ s.connect = m.connect /\ s.outboundMsgs = m.outboundMsgs
  BY <1>1 DEF MQTTAsyncs
<1> HIDE DEF s
<1>6. Sound(s)
  BY <1>1, <1>4, <1>5 DEF Inv, Sound, Agrees, Started, Bounded
<1>7. Sound(r) /\ Quiet(s, r)
  BY <1>6, RemoveMessageSound, RemoveMessageQuiet
<1> HIDE DEF r
<1>8. p.type = "PUBACK" => Quiet(r, f)
  BY <1>2, <1>7, FinishResponseQuiet
<1> HIDE DEF f
<1> QED BY <1>3, <1>4, <1>7, <1>8, QuietAgain

LEMMA NetworkQuiet ==
    ASSUME Inv, Keepalive \/ DispatchNothing \/ DispatchSuback \/ Break \/ Expire
    PROVE  Quiet(m, m')
<1>1. m \in MQTTAsyncs
  BY DEF Inv, Sound
<1>2. CASE Keepalive
  BY <1>1, <1>2, DisconnectInternalQuiet DEF Keepalive
<1>3. CASE DispatchNothing \/ Expire
  BY <1>3, QuietNothing DEF DispatchNothing, Expire
<1>4. CASE DispatchSuback
  BY <1>4, FinishResponseQuiet DEF DispatchSuback, Inv, TypeOK
<1>5. CASE Break
  <2>1. PICK left : m' = [m EXCEPT !.link = "broken", !.inbox = left]
    BY <1>5 DEF Break
  <2> QED BY <1>1, <2>1 DEF MQTTAsyncs, Quiet
<1> QED BY <1>2, <1>3, <1>4, <1>5

-----------------------------------------------------------------------------
(* The steps that open or close a connection.                              *)

\* A client that the application never disconnects, and its retries.
Kept == Inv /\ Retries(m) /\ Disconnects = {} /\ AutoReconnect = 1

LEMMA ConnectRetries ==
    ASSUME Kept, Connect \/ Reconnect
    PROVE  Retries(m')
<1>1. m \in MQTTAsyncs /\ (m.connect_state = "DISCONNECTING" => m.disconnect = INTERNAL)
  BY DEF Kept, Inv, Sound, Retries
<1>2. CASE Connect
  <2> DEFINE e == [m EXCEPT !.shouldBeConnected = 1]
             c == Command("CONNECT", 0, 0, 0, 0)
  <2>1. c \in Commands /\ c.type = "CONNECT" /\ m' = AddCommand(e, c)
    BY <1>2, AttemptIsCommand DEF Connect, Command, Attempts, UriIds, Versions
  <2>2. /\ e \in MQTTAsyncs
        /\ e.connect_state = m.connect_state /\ e.disconnect = m.disconnect
    BY <1>1 DEF MQTTAsyncs
  <2> HIDE DEF c, e
  <2>3. Quiet(e, m') /\ Asks(m'.commands)
    BY <2>1, <2>2, AddCommandQuiet
  <2> QED BY <1>1, <2>2, <2>3 DEF Quiet, Retries
<1>3. CASE Reconnect
  <2> DEFINE e == [m EXCEPT !.reconnectNow = 1, !.retrying = 1]
  <2>1. m' = e
    BY <1>3 DEF Reconnect, Kept
  <2>2. e.connect_state = m.connect_state /\ e.disconnect = m.disconnect /\ e.retrying = 1
    BY <1>1 DEF MQTTAsyncs
  <2> HIDE DEF e
  <2> QED BY <1>1, <2>1, <2>2 DEF Retries
<1> QED BY <1>2, <1>3

LEMMA ProcessConnectRetries ==
    ASSUME Kept, NEW c, First(c), ProcessBusyConnect(c) \/ ProcessConnect(c) \/ ProcessConnectFails(c)
    PROVE  Retries(m')
<1> DEFINE d == Detached
           a == [c EXCEPT !.ver = AttemptVersion(c)]
<1>1. m \in MQTTAsyncs /\ Sound(d) /\ d \in MQTTAsyncs
      /\ d.connected = m.connected /\ d.connect_state = m.connect_state
  BY DetachedSound DEF Kept, Inv, Sound
<1>2. d.disconnect = m.disconnect
  BY <1>1 DEF Detached, MQTTAsyncs
<1>3. a \in Attempts
  BY DetachedSound, CommandKinds, AttemptTyped DEF ProcessBusyConnect, ProcessConnect, ProcessConnectFails, Kept
<1>4. CASE ProcessBusyConnect(c)
  <2> DEFINE e == [d EXCEPT !.connect = c]
  <2>1. m' = e /\ (m.connected = 1 \/ m.connect_state # "NOT_IN_PROGRESS")
    BY <1>4 DEF ProcessBusyConnect
  <2> HIDE DEF d
  <2>2. e.connected = d.connected /\ e.connect_state = d.connect_state /\ e.disconnect = d.disconnect
    BY <1>1 DEF MQTTAsyncs
  <2> HIDE DEF e
  <2> QED BY <1>1, <1>2, <2>1, <2>2 DEF Kept, Retries
<1>5. CASE ProcessConnect(c)
  <2>1. m'.connect_state \in {"TCP_IN_PROGRESS", "WAIT_FOR_CONNACK"}
    BY <1>1, <1>5 DEF ProcessConnect, MQTTAsyncs
  <2> QED BY <2>1 DEF Retries
<1>6. CASE ProcessConnectFails(c)
  <2>1. PICK left \in {"none", "broken"} :
          m' = IF CheckConn(a) THEN AddCommand(Failed(d, left), NextAttempt(a))
               ELSE StartConnectRetry([Failed(d, left) EXCEPT !.connect = a])
    BY <1>6 DEF ProcessConnectFails, Failed
  <2> DEFINE e == Failed(d, left)
             f == [e EXCEPT !.connect = a]
             n == NextAttempt(a)
  <2>2. d.connect_state = "NOT_IN_PROGRESS"
    BY <1>1, <1>6 DEF ProcessConnectFails
  <2> HIDE DEF a, d
  <2>3. e \in MQTTAsyncs /\ e.connect_state = "NOT_IN_PROGRESS"
    BY <1>1, <2>2, FailedTyped
  <2> HIDE DEF e
  <2>4. f \in MQTTAsyncs /\ f.connect_state = "NOT_IN_PROGRESS"
    BY <1>3, <2>3 DEF MQTTAsyncs
  <2> HIDE DEF f
  <2>5. m' = IF CheckConn(a) THEN AddCommand(e, n) ELSE StartConnectRetry(f)
    BY <2>1 DEF e, f
  <2>6. CheckConn(a) => n \in Commands /\ n.type = "CONNECT"
    BY <1>3, NextAttemptTyped, AttemptIsCommand
  <2> HIDE DEF n
  <2>7. CASE CheckConn(a)
    <3>1. Quiet(e, m') /\ Asks(m'.commands)
      BY <2>3, <2>5, <2>6, <2>7, AddCommandQuiet
    <3> QED BY <2>3, <3>1 DEF Quiet, Retries
  <2>8. CASE ~CheckConn(a)
    BY <2>4, <2>5, <2>8, RetryStarted DEF Kept
  <2> QED BY <2>7, <2>8
<1> QED BY <1>4, <1>5, <1>6

\* Without the application's disconnects there are only the client's own.
LEMMA OwnDisconnects ==
    ASSUME Kept, NEW c \in Commands, c.type \in {"DISCONNECT", "INTERNAL"}
    PROVE  c = INTERNAL
<1>1. ASSUME c \in Requests PROVE c.type # "DISCONNECT"
  <2>1. c.call \in Calls /\ c.type = TypeOf(c.call)
    BY <1>1 DEF Requests
  <2>2. c.call \in Subscribes \cup Publishes0 \cup Publishes1
    BY <2>1 DEF Calls, Kept
  <2> QED BY <2>1, <2>2 DEF TypeOf
<1> QED BY <1>1, CommandKinds

LEMMA ProcessDisconnectRetries ==
    ASSUME Kept, NEW c, First(c), ProcessDisconnect(c)
    PROVE  Retries(m')
<1> DEFINE d == Detached
           state == IF d.connect_state = "NOT_IN_PROGRESS" THEN d.connect_state ELSE "DISCONNECTING"
           e == [d EXCEPT !.disconnect = c, !.connect_state = state]
<1>1. Sound(d) /\ d \in MQTTAsyncs /\ c \in Commands
      /\ d.connected = m.connected /\ d.connect_state = m.connect_state
  BY DetachedSound DEF Kept, Sound
<1>2. c = INTERNAL /\ c.type # "CONNECT"
  BY <1>1, OwnDisconnects, AttemptIsCommand DEF ProcessDisconnect
<1>3. Quiet(m, d)
  BY <1>2, DetachedQuiet DEF Kept
<1>4. m' = e \/ \E elapsed : m' = CheckDisconnect(e, INTERNAL, elapsed)
  BY <1>1, <1>2 DEF ProcessDisconnect, MQTTAsyncs
<1> HIDE DEF d
<1>5. state \in ConnectStates
  BY <1>1 DEF MQTTAsyncs, ConnectStates
<1>6. e \in MQTTAsyncs
  <2> HIDE DEF state
  <2> QED BY <1>1, <1>5 DEF MQTTAsyncs
<1>7. /\ e.connected = d.connected /\ e.connect_state = state /\ e.link = d.link
      /\ e.connect = d.connect /\ e.retrying = d.retrying /\ e.inbox = d.inbox
      /\ e.outboundMsgs = d.outboundMsgs /\ e.disconnect = c
      /\ e.shouldBeConnected = d.shouldBeConnected /\ e.commands = d.commands
  BY <1>1 DEF MQTTAsyncs
<1> HIDE DEF e
<1>8. d.connected \in {0, 1} /\ d.connect_state \in ConnectStates
  BY <1>1 DEF MQTTAsyncs
<1>9. Sound(e)
  BY <1>1, <1>6, <1>7, <1>8 DEF Sound, Agrees, Started, Bounded, ConnectStates
<1>10. Retries(e)
  BY <1>1, <1>2, <1>3, <1>7 DEF Kept, Quiet, Retries
<1> QED BY <1>4, <1>9, <1>10, CheckDisconnectRetries DEF Kept

LEMMA CheckTimeoutsRetries ==
    ASSUME Kept, CheckTimeouts
    PROVE  Retries(m')
<1>1. PICK elapsed \in Elapsed(m.disconnect), late \in BOOLEAN, due \in BOOLEAN :
        LET s == IF m.connect_state = "DISCONNECTING"
                 THEN CheckDisconnect(m, m.disconnect, elapsed) ELSE m
            expired == late /\ s.connect_state # "NOT_IN_PROGRESS"
            retry == AutoReconnect = 1 /\ s.retrying = 1 /\ (s.reconnectNow = 1 \/ due)
        IN  m' = IF expired THEN NextOrClose(s)
                 ELSE IF retry THEN [AddCommand(s, Restarted(s.connect)) EXCEPT !.reconnectNow = 0]
                 ELSE s
  BY DEF CheckTimeouts
<1> DEFINE s == IF m.connect_state = "DISCONNECTING"
                THEN CheckDisconnect(m, m.disconnect, elapsed) ELSE m
           a == AddCommand(s, Restarted(s.connect))
           e == [a EXCEPT !.reconnectNow = 0]
<1>2. \/ s.connect_state # "NOT_IN_PROGRESS" /\ m' = NextOrClose(s)
      \/ s.retrying = 1 /\ m' = e
      \/ m' = s
  BY <1>1
<1>3. Sound(m) /\ (m.connect_state = "DISCONNECTING" => m.disconnect = INTERNAL /\ m.connect # NoCommand)
  BY DEF Kept, Inv, Sound, Started, Retries
<1>4. Sound(s) /\ Retries(s)
  BY <1>3, CheckDisconnectSound, CheckDisconnectRetries DEF Kept
<1> HIDE DEF s
<1>5. CASE s.connect_state # "NOT_IN_PROGRESS" /\ m' = NextOrClose(s)
  <2>1. s.connect # NoCommand
    BY <1>4, <1>5 DEF Sound, Started
  <2>2. Retries(NextOrClose(s))
    BY <1>4, <2>1, NextOrCloseRetries DEF Kept
  <2> QED BY <1>5, <2>2
<1>6. CASE s.retrying = 1 /\ m' = e
  <2>1. s \in MQTTAsyncs /\ s.connect \in Attempts
    BY <1>4, <1>6 DEF Sound, Started, MQTTAsyncs
  <2>2. Restarted(s.connect) \in Commands
    BY <2>1, AttemptTyped, AttemptIsCommand
  <2>3. a \in MQTTAsyncs /\ Quiet(s, a)
    BY <2>1, <2>2, AddCommandQuiet
  <2> HIDE DEF a
  <2>4. Quiet(a, e)
    BY <2>3 DEF MQTTAsyncs, Quiet
  <2> QED BY <1>4, <1>6, <2>3, <2>4, QuietRetries
<1> QED BY <1>2, <1>4, <1>5, <1>6

LEMMA ReceivingRetries ==
    ASSUME Kept, CycleConnecting \/ CycleError \/ DispatchError \/ DispatchRefused
    PROVE  Retries(m')
<1>1. Sound(m) /\ m \in MQTTAsyncs /\ Retries(m)
  BY DEF Kept, Inv, Sound
<1>2. m.connect # NoCommand => Retries(NextOrClose(m))
  BY <1>1, NextOrCloseRetries DEF Kept
<1>3. m.connect_state # "NOT_IN_PROGRESS" => m.connect # NoCommand
  BY <1>1 DEF Sound, Started
<1>4. CASE CycleConnecting
  <2>1. m'.connect_state = "WAIT_FOR_CONNACK" \/ m' = NextOrClose(m)
    BY <1>1, <1>4 DEF CycleConnecting, MQTTAsyncs
  <2>2. m.connect_state = "TCP_IN_PROGRESS"
    BY <1>4 DEF CycleConnecting
  <2> QED BY <1>2, <1>3, <2>1, <2>2 DEF Retries
<1>5. CASE CycleError
  BY <1>1, <1>2, <1>3, <1>5 DEF CycleError
<1>6. CASE DispatchError
  <2> DEFINE a == DisconnectInternal(m)
             c == CloseOnly(m)
  <2>1. \/ m' = a
        \/ m.connect_state # "NOT_IN_PROGRESS" /\ m' = NextOrClose(m)
        \/ m.connected # 1 /\ m.connect_state = "NOT_IN_PROGRESS" /\ m' = c
    BY <1>6 DEF DispatchError
  <2>2. Quiet(m, a)
    BY <1>1, DisconnectInternalQuiet
  <2>3. /\ c.connect_state = "NOT_IN_PROGRESS" /\ c.shouldBeConnected = m.shouldBeConnected
        /\ c.commands = m.commands /\ c.retrying = m.retrying
    BY <1>1, CloseSessionCloses
  <2> HIDE DEF a, c
  <2>4. m.connected # 1 /\ m.connect_state = "NOT_IN_PROGRESS" => Retries(c)
    BY <1>1, <2>3 DEF Retries
  <2> QED BY <1>1, <1>2, <1>3, <2>1, <2>2, <2>4, QuietRetries
<1>7. CASE DispatchRefused
  BY <1>2, <1>7 DEF DispatchRefused, Kept, Inv, GotInv
<1> QED BY <1>4, <1>5, <1>6, <1>7

LEMMA DispatchConnackRetries ==
    ASSUME Kept, DispatchConnack
    PROVE  Retries(m')
<1> DEFINE s == CompleteConnection(m, got)
<1>1. m.connect # NoCommand /\ m.connect_state = "WAIT_FOR_CONNACK" /\ Sound(m)
  BY DEF DispatchConnack, Kept, Inv, GotInv
<1>2. Sound(s) /\ s.connect = m.connect /\ Retries(s)
  BY <1>1, CompleteConnectionSound, CompleteConnectionRetries
<1>3. PICK n \in 0..Len(s.outboundMsgs), how \in Writes(s) : m' = Resend(s, n, how)
  BY DEF DispatchConnack
<1> HIDE DEF s
<1>4. Quiet(s, Resend(s, n, how))
  BY <1>1, <1>2, <1>3, ResendQuiet
<1> QED BY <1>2, <1>3, <1>4, QuietRetries
-----------------------------------------------------------------------------
(* The theorem.                                                            *)

LEMMA NextRetries ==
    ASSUME Kept, [Next]_vars
    PROVE  Retries(m')
<1>1. Inv /\ Retries(m)
  BY DEF Kept
<1>2. ASSUME NEW t \in Threads, (\E r \in Calls : Request(t, r)) \/ Add(t) PROVE Retries(m')
  BY <1>1, <1>2, ApplicationQuiet, QuietRetries
<1>3. ASSUME NEW t \in Threads, NEW r \in Calls, Disconnect(t, r) PROVE FALSE
  BY <1>3 DEF Disconnect, Kept
<1>4. CASE Connect \/ Reconnect
  BY <1>4, ConnectRetries
<1>5. CASE ProcessCommand
  <2>1. PICK c : /\ First(c)
                 /\ \/ ProcessBusyConnect(c) \/ ProcessConnect(c) \/ ProcessConnectFails(c)
                    \/ ProcessAcknowledged(c) \/ ProcessPublish0(c) \/ ProcessDisconnect(c)
    BY <1>5 DEF ProcessCommand
  <2>2. CASE ProcessAcknowledged(c) \/ ProcessPublish0(c)
    BY <1>1, <2>1, <2>2, ProcessAcknowledgedQuiet, ProcessPublish0Quiet, QuietRetries
  <2> QED BY <2>1, <2>2, ProcessConnectRetries, ProcessDisconnectRetries
<1>6. CASE FlagPendingWrite \/ AppendResponse \/ Wait \/ Wake
  BY <1>1, <1>6, SendingQuiet, QuietRetries
<1>7. CASE CheckTimeouts
  BY <1>7, CheckTimeoutsRetries
<1>8. CASE ContinueWrites \/ CyclePacket
  BY <1>1, <1>8, ContinueWritesQuiet, CyclePacketQuiet, QuietRetries
<1>9. CASE Keepalive \/ DispatchNothing \/ DispatchSuback \/ Break \/ Expire
  BY <1>1, <1>9, NetworkQuiet, QuietRetries
<1>10. CASE CycleConnecting \/ CycleError \/ DispatchError \/ DispatchRefused
  BY <1>10, ReceivingRetries
<1>11. CASE DispatchConnack
  BY <1>11, DispatchConnackRetries
<1>12. CASE UNCHANGED vars
  BY <1>1, <1>12 DEF vars
<1> QED BY <1>2, <1>3, <1>4, <1>5, <1>6, <1>7, <1>8, <1>9, <1>10, <1>11, <1>12
        DEF Next, Application, SendThread, ReceiveThread

\* For any number of threads, calls, URIs and faults: while the client should
\* be connected, it is, or an attempt is under way, queued or due, whichever
\* of its failure paths it took (MQTTAsync.c: nextOrClose,
\* MQTTAsync_startConnectRetry, MQTTAsync_checkDisconnect).
THEOREM AlwaysRetries == Spec => []NeverStranded
<1>1. Init => Inv /\ RetryInv
  <2>1. Init => Retries(m)
    BY DEF Init, Retries
  <2> QED BY <2>1, InitInv DEF RetryInv
<1>2. Inv /\ RetryInv /\ [Next]_vars => (Inv /\ RetryInv)'
  <2> SUFFICES ASSUME Inv, RetryInv, [Next]_vars PROVE Inv' /\ RetryInv'
    OBVIOUS
  <2>1. Disconnects = {} /\ AutoReconnect = 1 => Retries(m')
    BY NextRetries DEF Kept, RetryInv
  <2> QED BY <2>1, NextInv DEF RetryInv
<1>3. Inv /\ RetryInv => NeverStranded
  BY DEF RetryInv, Retries, Asks, NeverStranded
<1> QED BY <1>1, <1>2, <1>3, PTL DEF Spec
-----------------------------------------------------------------------------
(***************************************************************************)
(* A call that is pending is in one place at most: among the commands,     *)
(* among the responses, or the disconnect under way.  Whoever ends a call  *)
(* takes it out of its place, so nobody ends it again.                     *)
(***************************************************************************)

Promised == Calls \ Publishes0
Ended == {"ok", "fail", "mistaken", "lost"}

\* No promised call is in a queue twice.
Single(q) == \A i, j \in DOMAIN q : q[i].call = q[j].call /\ q[i].call \in Promised => i = j

Queued(s) == CallsIn(s.commands) \cup CallsIn(s.responses)

\* A promised call that has been taken out of the queues and not ended yet.
Free(s, c) == c.call \in Promised => s.outcome[c.call] = "pending" /\ c.call \notin Queued(s)

\* Every pending call is in one place at most.
Filed(s) ==
    /\ Single(s.commands) /\ Single(s.responses)
    /\ \A r \in Promised : r \in CallsIn(s.commands) => r \notin CallsIn(s.responses)
    /\ \A r \in Promised : r \in Queued(s) => s.outcome[r] = "pending"
    /\ \A r \in Promised : s.outcome[r] # "twice"
    /\ s.connect_state = "DISCONNECTING" => Free(s, s.disconnect)

\* What the application's threads are about to add has not been made.
Unmade ==
    /\ \A t \in Threads : app[t].call \in Promised => m.outcome[app[t].call] = "unmade"
    /\ \A t, u \in Threads : app[t].call = app[u].call /\ app[t].call \in Promised => t = u

CallsInv == Filed(m) /\ Unmade

\* From s to e nothing happens to promised calls but that pending ones end.
Settles(s, e) ==
    /\ Filed(e)
    /\ \A r \in Promised :
          e.outcome[r] = s.outcome[r] \/ (s.outcome[r] = "pending" /\ e.outcome[r] \in Ended)

\* And the call in hand is not touched.
Spares(s, e) ==
    /\ Settles(s, e)
    /\ \A c : Free(s, c) => Free(e, c)
    /\ e.connect_state = "DISCONNECTING" => s.connect_state = "DISCONNECTING" /\ e.disconnect = s.disconnect

\* From s to e the queues lose promised calls, among them those of S, and
\* those of S end.
Shrinks(s, e, S) ==
    /\ Single(e.commands) /\ Single(e.responses)
    /\ \A r \in Promised : r \in CallsIn(e.commands) => r \in CallsIn(s.commands) /\ r \notin S
    /\ \A r \in Promised : r \in CallsIn(e.responses) => r \in CallsIn(s.responses) /\ r \notin S
    /\ \A r \in Promised : r \notin S => e.outcome[r] = s.outcome[r]
    /\ \A r \in Promised : r \in S => s.outcome[r] = "pending" /\ e.outcome[r] \in Ended
    /\ e.connect_state = "DISCONNECTING" =>
          s.connect_state = "DISCONNECTING" /\ e.disconnect = s.disconnect /\ s.disconnect.call \notin S

-----------------------------------------------------------------------------
(* Queues and the calls in them.                                           *)

LEMMA SettlesAgain ==
    ASSUME NEW s, NEW e, NEW f, Settles(s, e), Settles(e, f)
    PROVE  Settles(s, f)
  BY DEF Settles, Ended

LEMMA SparesAgain ==
    ASSUME NEW s, NEW e, NEW f, Spares(s, e), Spares(e, f)
    PROVE  Spares(s, f)
<1>1. Settles(s, f)
  BY SettlesAgain DEF Spares
<1> QED BY <1>1 DEF Spares

LEMMA SparesNothing ==
    ASSUME NEW s, Filed(s)
    PROVE  Spares(s, s)
  BY DEF Spares, Settles

LEMMA ShrinksSettles ==
    ASSUME NEW s, NEW e, NEW S, Filed(s), Shrinks(s, e, S)
    PROVE  Settles(s, e)
<1>1. \A r \in Promised : r \in CallsIn(e.commands) => r \notin CallsIn(e.responses)
  BY DEF Filed, Shrinks
<1>2. \A r \in Promised : r \in Queued(e) => r \in Queued(s) /\ r \notin S
  BY DEF Shrinks, Queued
<1>3. \A r \in Promised : e.outcome[r] = s.outcome[r] \/ (s.outcome[r] = "pending" /\ e.outcome[r] \in Ended)
  BY DEF Shrinks
<1>4. \A r \in Promised : r \in Queued(e) => e.outcome[r] = "pending"
  BY <1>2 DEF Filed, Shrinks
<1>5. \A r \in Promised : e.outcome[r] # "twice"
  BY <1>3 DEF Filed, Ended
<1>6. e.connect_state = "DISCONNECTING" => Free(e, e.disconnect)
  BY <1>2 DEF Filed, Shrinks, Free
<1>7. Single(e.commands) /\ Single(e.responses)
  BY DEF Shrinks
<1> QED BY <1>1, <1>3, <1>4, <1>5, <1>6, <1>7 DEF Filed, Settles

LEMMA ShrinksSpares ==
    ASSUME NEW s, NEW e, NEW S, Filed(s), Shrinks(s, e, S), S \subseteq Queued(s)
    PROVE  Spares(s, e)
<1>1. Settles(s, e)
  BY ShrinksSettles
<1>2. ASSUME NEW c, Free(s, c) PROVE Free(e, c)
  <2>1. c.call \in Promised => c.call \notin S
    BY <1>2 DEF Free
  <2> QED BY <1>2, <2>1 DEF Free, Shrinks, Queued
<1> QED BY <1>1, <1>2 DEF Spares, Shrinks

\* A change of other fields.
Same(s, e) ==
    /\ e.commands = s.commands /\ e.responses = s.responses /\ e.outcome = s.outcome
    /\ e.connect_state = "DISCONNECTING" => s.connect_state = "DISCONNECTING" /\ e.disconnect = s.disconnect

LEMMA SameSpares ==
    ASSUME NEW s, NEW e, Filed(s), Same(s, e)
    PROVE  Spares(s, e)
<1>1. Shrinks(s, e, {})
  BY DEF Filed, Same, Shrinks
<1> QED BY <1>1, ShrinksSpares

LEMMA CallsLonger ==
    ASSUME NEW T, NEW q \in Seq(T), NEW c \in T
    PROVE  /\ CallsIn(Append(q, c)) = CallsIn(q) \cup {c.call}
           /\ CallsIn(<<c>> \o q) = CallsIn(q) \cup {c.call}
           /\ Single(q) /\ (c.call \in Promised => c.call \notin CallsIn(q)) =>
                 Single(Append(q, c)) /\ Single(<<c>> \o q)
<1>1. Len(q) \in Nat /\ DOMAIN q = 1..Len(q)
  BY LenProperties
<1>2. /\ DOMAIN Append(q, c) = 1..(Len(q) + 1)
      /\ \A i \in 1..Len(q) : Append(q, c)[i] = q[i]
      /\ Append(q, c)[Len(q) + 1] = c
  BY AppendProperties, LenProperties
<1>3. /\ DOMAIN (<<c>> \o q) = 1..(Len(q) + 1)
      /\ (<<c>> \o q)[1] = c
      /\ \A i \in 1..Len(q) : (<<c>> \o q)[i + 1] = q[i]
  <2>1. <<c>> \in Seq(T) /\ Len(<<c>>) = 1 /\ <<c>>[1] = c
    OBVIOUS
  <2>2. Len(<<c>> \o q) = 1 + Len(q) /\ (<<c>> \o q) \in Seq(T)
    BY <2>1, ConcatProperties
  <2>3. \A i \in 1..(1 + Len(q)) : (<<c>> \o q)[i] = IF i <= 1 THEN <<c>>[i] ELSE q[i - 1]
    BY <2>1, ConcatProperties
  <2> QED BY <1>1, <2>1, <2>2, <2>3, LenProperties
<1> DEFINE a == Append(q, c)
           b == <<c>> \o q
           n == Len(q)
<1> HIDE DEF a, b, n
<1>4. CallsIn(a) = CallsIn(q) \cup {c.call}
  <2>1. \A i \in DOMAIN a : a[i].call \in CallsIn(q) \cup {c.call}
    BY <1>1, <1>2 DEF a, n, CallsIn
  <2>2. \A i \in DOMAIN q : i \in DOMAIN a /\ a[i] = q[i]
    BY <1>1, <1>2 DEF a, n
  <2>3. n + 1 \in DOMAIN a /\ a[n + 1] = c
    BY <1>1, <1>2 DEF a, n
  <2> QED BY <2>1, <2>2, <2>3 DEF CallsIn
<1>5. CallsIn(b) = CallsIn(q) \cup {c.call}
  <2>1. \A i \in DOMAIN b : i = 1 \/ (i - 1 \in DOMAIN q /\ b[i] = q[i - 1])
    <3> SUFFICES ASSUME NEW i \in DOMAIN b, i # 1 PROVE i - 1 \in DOMAIN q /\ b[i] = q[i - 1]
      OBVIOUS
    <3>1. i \in 1..(n + 1) /\ n \in Nat
      BY <1>1, <1>3 DEF b, n
    <3>2. i - 1 \in 1..n /\ (i - 1) + 1 = i
      BY <3>1
    <3> QED BY <1>1, <1>3, <3>2 DEF b, n
  <2>2. \A i \in DOMAIN q : i + 1 \in DOMAIN b /\ b[i + 1] = q[i]
    BY <1>1, <1>3 DEF b, n
  <2>3. 1 \in DOMAIN b /\ b[1] = c
    BY <1>1, <1>3 DEF b, n
  <2> QED BY <2>1, <2>2, <2>3 DEF CallsIn
<1>6. ASSUME Single(q), c.call \in Promised => c.call \notin CallsIn(q)
      PROVE  Single(a) /\ Single(b)
  <2>1. \A i \in DOMAIN q : q[i].call \in CallsIn(q)
    BY DEF CallsIn
  <2>2. ASSUME NEW i \in DOMAIN a, NEW j \in DOMAIN a, a[i].call = a[j].call, a[i].call \in Promised
        PROVE  i = j
    <3>1. i \in 1..(n + 1) /\ j \in 1..(n + 1) /\ n \in Nat
      BY <1>1, <1>2 DEF a, n
    <3>2. \A k \in 1..(n + 1) : k = n + 1 \/ (k \in DOMAIN q /\ a[k] = q[k])
      BY <1>1, <1>2 DEF a, n
    <3>3. a[n + 1] = c
      BY <1>2 DEF a, n
    <3> QED BY <1>6, <2>1, <2>2, <3>1, <3>2, <3>3 DEF Single
  <2>3. ASSUME NEW i \in DOMAIN b, NEW j \in DOMAIN b, b[i].call = b[j].call, b[i].call \in Promised
        PROVE  i = j
    <3>1. i \in 1..(n + 1) /\ j \in 1..(n + 1) /\ n \in Nat
      BY <1>1, <1>3 DEF b, n
    <3>2. ASSUME NEW k \in 1..(n + 1), k # 1 PROVE k - 1 \in DOMAIN q /\ b[k] = q[k - 1]
      <4>1. k - 1 \in 1..n /\ (k - 1) + 1 = k
        BY <3>1, <3>2
      <4> QED BY <1>1, <1>3, <4>1 DEF b, n
    <3>3. b[1] = c
      BY <1>3 DEF b
    <3>4. CASE i # 1 /\ j # 1
      <4>1. i - 1 = j - 1
        BY <1>6, <2>3, <3>1, <3>2, <3>4 DEF Single
      <4> QED BY <3>1, <4>1
    <3>5. CASE i = 1 /\ j # 1
      BY <1>6, <2>1, <2>3, <3>1, <3>2, <3>3, <3>5
    <3>6. CASE i # 1 /\ j = 1
      BY <1>6, <2>1, <2>3, <3>1, <3>2, <3>3, <3>6
    <3> QED BY <3>4, <3>5, <3>6
  <2> QED BY <2>2, <2>3 DEF Single
<1> QED BY <1>4, <1>5, <1>6 DEF a, b

LEMMA CallsShorter ==
    ASSUME NEW T, NEW q \in Seq(T), q # <<>>
    PROVE  /\ CallsIn(q) = CallsIn(Tail(q)) \cup {Head(q).call}
           /\ Single(q) => Single(Tail(q)) /\ (Head(q).call \in Promised => Head(q).call \notin CallsIn(Tail(q)))
<1> DEFINE p == Tail(q)
           n == Len(q)
<1>1. n \in Nat /\ n # 0 /\ DOMAIN q = 1..n /\ Head(q) = q[1]
  BY LenProperties, HeadTailProperties, EmptySeq
<1>2. /\ p \in Seq(T) /\ Len(p) = n - 1
      /\ \A j \in 1..Len(p) : p[j] = q[j + 1]
  BY HeadTailProperties
<1>3. DOMAIN p = 1..(n - 1)
  BY <1>2, LenProperties
<1> HIDE DEF p, n
<1>4. \A j \in DOMAIN p : j + 1 \in DOMAIN q /\ p[j] = q[j + 1] /\ j \in Nat /\ j # 0
  BY <1>1, <1>2, <1>3
<1>5. ASSUME NEW i \in DOMAIN q, i # 1 PROVE i - 1 \in DOMAIN p /\ p[i - 1] = q[i]
  <2>1. i - 1 \in 1..(n - 1) /\ (i - 1) + 1 = i
    BY <1>1, <1>5
  <2> QED BY <1>2, <1>3, <2>1
<1>6. 1 \in DOMAIN q
  BY <1>1
<1>7. CallsIn(q) = CallsIn(p) \cup {Head(q).call}
  <2>1. \A i \in DOMAIN q : q[i].call \in CallsIn(p) \cup {Head(q).call}
    BY <1>1, <1>5 DEF CallsIn
  <2>2. \A j \in DOMAIN p : p[j].call \in CallsIn(q)
    BY <1>4 DEF CallsIn
  <2>3. Head(q).call \in CallsIn(q)
    BY <1>1, <1>6 DEF CallsIn
  <2> QED BY <2>1, <2>2, <2>3 DEF CallsIn
<1>8. ASSUME Single(q) PROVE Single(p) /\ (Head(q).call \in Promised => Head(q).call \notin CallsIn(p))
  <2>1. ASSUME NEW i \in DOMAIN p, NEW j \in DOMAIN p, p[i].call = p[j].call, p[i].call \in Promised
        PROVE  i = j
    <3>1. i + 1 = j + 1
      BY <1>4, <1>8, <2>1 DEF Single
    <3> QED BY <1>4, <3>1
  <2>2. ASSUME NEW j \in DOMAIN p, Head(q).call \in Promised PROVE p[j].call # Head(q).call
    <3>1. p[j].call = Head(q).call => j + 1 = 1
      BY <1>1, <1>4, <1>6, <1>8, <2>2 DEF Single
    <3> QED BY <1>4, <3>1
  <2> QED BY <2>1, <2>2 DEF Single, CallsIn
<1> QED BY <1>7, <1>8 DEF p

LEMMA CallsRemoved ==
    ASSUME NEW T, NEW q \in Seq(T), NEW i \in 1..Len(q)
    PROVE  /\ CallsIn(RemoveAt(q, i)) \subseteq CallsIn(q)
           /\ q[i].call \in CallsIn(q)
           /\ Single(q) => /\ Single(RemoveAt(q, i))
                           /\ q[i].call \in Promised => q[i].call \notin CallsIn(RemoveAt(q, i))
<1> DEFINE n == Len(q)
           a == SubSeq(q, 1, i - 1)
           b == SubSeq(q, i + 1, n)
           p == RemoveAt(q, i)
<1>1. n \in Nat /\ i \in 1..n /\ DOMAIN q = 1..n
  BY LenProperties
<1>2. a \in Seq(T) /\ Len(a) = i - 1 /\ \A k \in 1..(i - 1) : a[k] = q[k]
  BY <1>1, SubSeqProperties
<1>3. b \in Seq(T) /\ Len(b) = n - i /\ \A k \in 1..(n - i) : b[k] = q[i + k]
  <2>1. i + 1 \in 1..(n + 1) /\ n \in ((i + 1) - 1)..n
    BY <1>1
  <2>2. b \in Seq(T) /\ Len(b) = n - (i + 1) + 1
        /\ \A k \in 1..(n - (i + 1) + 1) : b[k] = q[(i + 1) + k - 1]
    BY <2>1, SubSeqProperties
  <2>3. n - (i + 1) + 1 = n - i /\ \A k \in 1..(n - i) : (i + 1) + k - 1 = i + k
    BY <1>1
  <2> QED BY <2>2, <2>3
<1>4. p = a \o b
  BY DEF RemoveAt
<1> HIDE DEF n, a, b, p
<1>5. /\ p \in Seq(T) /\ Len(p) = n - 1
      /\ \A k \in 1..(n - 1) : p[k] = IF k <= i - 1 THEN a[k] ELSE b[k - (i - 1)]
  <2>1. Len(a) + Len(b) = n - 1
    BY <1>1, <1>2, <1>3
  <2>2. a \in Seq(T) /\ b \in Seq(T)
    BY <1>2, <1>3
  <2>3. /\ a \o b \in Seq(T) /\ Len(a \o b) = Len(a) + Len(b)
        /\ \A k \in 1..(Len(a) + Len(b)) : (a \o b)[k] = IF k <= Len(a) THEN a[k] ELSE b[k - Len(a)]
    BY <2>2, ConcatProperties
  <2> QED BY <1>2, <1>4, <2>1, <2>3
<1>6. DOMAIN p = 1..(n - 1)
  BY <1>5, LenProperties
<1> DEFINE at(k) == IF k < i THEN k ELSE k + 1
<1>7. ASSUME NEW k \in DOMAIN p PROVE at(k) \in DOMAIN q /\ at(k) # i /\ p[k] = q[at(k)]
  <2>1. k \in 1..(n - 1)
    BY <1>6
  <2>2. CASE k < i
    BY <1>1, <1>2, <1>5, <2>1, <2>2
  <2>3. CASE ~(k < i)
    <3>1. k - (i - 1) \in 1..(n - i) /\ i + (k - (i - 1)) = k + 1 /\ ~(k <= i - 1)
      BY <1>1, <2>1, <2>3
    <3>2. p[k] = b[k - (i - 1)]
      BY <1>5, <2>1, <3>1
    <3>3. b[k - (i - 1)] = q[k + 1]
      BY <1>3, <3>1
    <3> QED BY <1>1, <2>1, <2>3, <3>2, <3>3
  <2> QED BY <2>2, <2>3
<1>8. \A j, k \in DOMAIN p : at(j) = at(k) => j = k
  BY <1>1, <1>6
<1> HIDE DEF at
<1>9. i \in DOMAIN q
  BY <1>1
<1>10. CallsIn(p) \subseteq CallsIn(q) /\ q[i].call \in CallsIn(q)
  BY <1>7, <1>9 DEF CallsIn
<1>11. ASSUME Single(q) PROVE Single(p) /\ (q[i].call \in Promised => q[i].call \notin CallsIn(p))
  BY <1>7, <1>8, <1>9, <1>11 DEF Single, CallsIn
<1> QED BY <1>10, <1>11 DEF p
-----------------------------------------------------------------------------
(* The operators on the structure.                                         *)

\* What EndWith does to the calls of a set and to the others.
LEMMA EndWithCalls ==
    ASSUME NEW o, NEW how, NEW calls, NEW r \in Promised
    PROVE  /\ r \notin calls => EndWith(o, how, calls)[r] = o[r]
           /\ r \in calls /\ o[r] = "pending" => EndWith(o, how, calls)[r] = how
  BY DEF EndWith, Promised

\* A callback of a call that is in no place any more.
LEMMA AnswerSettles ==
    ASSUME NEW s \in MQTTAsyncs, Filed(s), NEW c, NEW how \in Ended, Free(s, c),
           s.connect_state = "DISCONNECTING" /\ c.call \in Promised => s.disconnect.call # c.call
    PROVE  Settles(s, Answer(s, c, how))
<1> DEFINE o == EndWith(s.outcome, how, {c.call})
           e == [s EXCEPT !.outcome = o]
           S == {c.call} \cap Promised
<1>1. Answer(s, c, how) = e
  BY DEF Answer
<1>2. \A r \in Promised : r \notin S => o[r] = s.outcome[r]
  BY EndWithCalls
<1>3. \A r \in Promised : r \in S => s.outcome[r] = "pending" /\ o[r] = how
  BY EndWithCalls DEF Free
<1> HIDE DEF o
<1>4. /\ e.commands = s.commands /\ e.responses = s.responses /\ e.outcome = o
      /\ e.connect_state = s.connect_state /\ e.disconnect = s.disconnect
  BY DEF MQTTAsyncs
<1> HIDE DEF e
<1>5. \A r \in Promised : r \in S => r \notin CallsIn(s.commands) /\ r \notin CallsIn(s.responses)
  BY DEF Free, Queued
<1>6. s.connect_state = "DISCONNECTING" => s.disconnect.call \notin S
  OBVIOUS
<1> HIDE DEF S
<1>7. Shrinks(s, e, S)
  BY <1>2, <1>3, <1>4, <1>5, <1>6 DEF Filed, Shrinks
<1> QED BY <1>1, <1>7, ShrinksSettles

\* A callback of a QoS 0 publication.
LEMMA AnswerOther ==
    ASSUME NEW s \in MQTTAsyncs, Filed(s), NEW c, c.call \notin Promised, NEW how
    PROVE  Settles(s, Answer(s, c, how))
<1> DEFINE o == EndWith(s.outcome, how, {c.call})
           e == [s EXCEPT !.outcome = o]
<1>1. Answer(s, c, how) = e
  BY DEF Answer
<1>2. \A r \in Promised : o[r] = s.outcome[r]
  BY EndWithCalls
<1> HIDE DEF o
<1>3. /\ e.commands = s.commands /\ e.responses = s.responses /\ e.outcome = o
      /\ e.connect_state = s.connect_state /\ e.disconnect = s.disconnect
  BY DEF MQTTAsyncs
<1> HIDE DEF e
<1>4. Shrinks(s, e, {})
  BY <1>2, <1>3 DEF Filed, Shrinks
<1> QED BY <1>1, <1>4, ShrinksSettles

\* Types alone.
LEMMA AddCommandTyped ==
    ASSUME NEW s \in MQTTAsyncs, NEW c \in Commands
    PROVE  AddCommand(s, c) \in MQTTAsyncs
<1> DEFINE a == Append(s.commands, c)
           b == <<c>> \o s.commands
<1>1. a \in Seq(Commands) /\ b \in Seq(Commands)
  <2>1. s.commands \in Seq(Commands)
    BY DEF MQTTAsyncs
  <2> QED BY <2>1, AppendProperties, ConcatProperties
<1>2. AddCommand(s, c) \in {s, [s EXCEPT !.commands = a], [s EXCEPT !.commands = b]}
  BY DEF AddCommand, MQTTAsyncs
<1> HIDE DEF a, b
<1>3. [s EXCEPT !.commands = a] \in MQTTAsyncs /\ [s EXCEPT !.commands = b] \in MQTTAsyncs
  BY <1>1 DEF MQTTAsyncs
<1> QED BY <1>2, <1>3

LEMMA WriteTyped ==
    ASSUME NEW s \in MQTTAsyncs, NEW how, NEW reply \in Packets
    PROVE  Write(s, how, reply) \in MQTTAsyncs
<1> DEFINE d == [s EXCEPT !.unsent = <<reply>>]
           e == [s EXCEPT !.inbox = Append(s.inbox, reply)]
<1>1. Append(s.inbox, reply) \in Seq(Packets)
  BY AppendProperties DEF MQTTAsyncs
<1>2. d \in MQTTAsyncs /\ e \in MQTTAsyncs
  BY <1>1 DEF MQTTAsyncs
<1>3. Write(s, how, reply) \in {s, d, e}
  BY DEF Write, MQTTAsyncs
<1> QED BY <1>2, <1>3

\* MQTTAsync_removeResponsesAndCommands.
LEMMA RemoveResponsesAndCommandsSpares ==
    ASSUME NEW s \in MQTTAsyncs, Filed(s)
    PROVE  Spares(s, RemoveResponsesAndCommands(s))
<1> DEFINE S == CallsIn(s.responses) \cup CallsIn(s.commands)
           o == EndWith(s.outcome, "fail", S)
           e == [s EXCEPT !.responses = <<>>, !.commands = <<>>, !.outcome = o]
<1>1. RemoveResponsesAndCommands(s) = e
  BY DEF RemoveResponsesAndCommands, MQTTAsyncs
<1>2. \A r \in Promised : r \notin S => o[r] = s.outcome[r]
  BY EndWithCalls
<1>3. \A r \in Promised : r \in S => s.outcome[r] = "pending" /\ o[r] = "fail"
  BY EndWithCalls DEF Filed, Queued
<1> HIDE DEF o
<1>4. /\ e.commands = <<>> /\ e.responses = <<>> /\ e.outcome = o
      /\ e.connect_state = s.connect_state /\ e.disconnect = s.disconnect
  BY DEF MQTTAsyncs
<1> HIDE DEF e
<1>5. Single(<<>>) /\ CallsIn(<<>>) = {}
  BY DEF Single, CallsIn
<1>6. S = Queued(s)
  BY DEF Queued
<1> HIDE DEF S
<1>7. s.connect_state = "DISCONNECTING" /\ s.disconnect.call \in Promised => s.disconnect.call \notin S
  BY <1>6 DEF Filed, Free
<1> DEFINE T == S \cap Promised
<1>8. Shrinks(s, e, T)
  BY <1>2, <1>3, <1>4, <1>5, <1>7 DEF Shrinks, Ended
<1>9. T \subseteq Queued(s)
  BY <1>6
<1> QED BY <1>1, <1>8, <1>9, ShrinksSpares

\* MQTTAsync_cleanSession.
LEMMA CleanSessionSpares ==
    ASSUME NEW s \in MQTTAsyncs, Filed(s)
    PROVE  Spares(s, CleanSessionState(s))
<1> DEFINE e == [s EXCEPT !.outboundMsgs = <<>>, !.msgID = 0]
<1>1. e \in MQTTAsyncs
  BY Ids, Nothing DEF MQTTAsyncs
<1>2. Same(s, e)
  BY DEF MQTTAsyncs, Same
<1>3. CleanSessionState(s) = RemoveResponsesAndCommands(e)
  BY DEF CleanSessionState
<1> HIDE DEF e
<1>4. Spares(s, e) /\ Filed(e)
  BY <1>2, SameSpares DEF Spares, Settles
<1>5. Spares(e, RemoveResponsesAndCommands(e))
  BY <1>1, <1>4, RemoveResponsesAndCommandsSpares
<1> QED BY <1>3, <1>4, <1>5, SparesAgain

\* MQTTAsync_closeOnly and closeSession: no disconnect is under way any more.
LEMMA CloseSpares ==
    ASSUME NEW s, Sound(s), Filed(s)
    PROVE  /\ Spares(s, CloseOnly(s)) /\ CloseOnly(s).connect_state # "DISCONNECTING"
           /\ Spares(s, CloseSession(s)) /\ CloseSession(s).connect_state # "DISCONNECTING"
<1> DEFINE e == CloseOnly(s)
<1>1. s \in MQTTAsyncs /\ e \in MQTTAsyncs
  BY CloseOnlySound DEF Sound
<1>2. Same(s, e) /\ e.connect_state # "DISCONNECTING"
  BY <1>1 DEF MQTTAsyncs, Same, CloseOnly
<1>3. CloseSession(s) \in {e, CleanSessionState(e)}
  BY DEF CloseSession
<1> HIDE DEF e
<1>4. Spares(s, e) /\ Filed(e)
  BY <1>2, SameSpares DEF Spares, Settles
<1>5. Spares(e, CleanSessionState(e))
  BY <1>1, <1>4, CleanSessionSpares
<1>6. Spares(s, CloseSession(s)) /\ CloseSession(s).connect_state # "DISCONNECTING"
  BY <1>2, <1>3, <1>4, <1>5, SparesAgain DEF Spares
<1> QED BY <1>2, <1>4, <1>6 DEF e

\* MQTTAsync_addCommand, of a command of the client's own.
LEMMA AddCommandSpares ==
    ASSUME NEW s \in MQTTAsyncs, Filed(s), NEW c \in Commands, c.call = 0
    PROVE  Spares(s, AddCommand(s, c))
<1>1. s.commands \in Seq(Commands) /\ c.call \notin Promised
  BY CallsArePositive DEF MQTTAsyncs, Promised
<1> DEFINE a == Append(s.commands, c)
           b == <<c>> \o s.commands
<1>2. AddCommand(s, c) \in {s, [s EXCEPT !.commands = a], [s EXCEPT !.commands = b]}
  BY DEF AddCommand, MQTTAsyncs
<1>3. /\ CallsIn(a) = CallsIn(s.commands) \cup {c.call} /\ Single(a)
      /\ CallsIn(b) = CallsIn(s.commands) \cup {c.call} /\ Single(b)
  <2>1. Single(s.commands)
    BY DEF Filed
  <2> QED BY <1>1, <2>1, CallsLonger
<1> HIDE DEF a, b
<1>4. ASSUME NEW q, CallsIn(q) = CallsIn(s.commands) \cup {c.call}, Single(q)
      PROVE  Spares(s, [s EXCEPT !.commands = q])
  <2> DEFINE e == [s EXCEPT !.commands = q]
  <2>1. /\ e.commands = q /\ e.responses = s.responses /\ e.outcome = s.outcome
        /\ e.connect_state = s.connect_state /\ e.disconnect = s.disconnect
    BY DEF MQTTAsyncs
  <2> HIDE DEF e
  <2>2. Shrinks(s, e, {})
    BY <1>1, <1>4, <2>1 DEF Filed, Shrinks
  <2> QED BY <2>2, ShrinksSpares DEF e
<1> QED BY <1>2, <1>3, <1>4, SparesNothing

\* The client's own commands have no call.
LEMMA OwnCommands ==
    /\ INTERNAL \in Commands /\ INTERNAL.call = 0
    /\ \A c \in Attempts : c \in Commands /\ c.call = 0
  BY AttemptIsCommand DEF INTERNAL, Command, Attempts

LEMMA DisconnectInternalSpares ==
    ASSUME NEW s \in MQTTAsyncs, Filed(s)
    PROVE  Spares(s, DisconnectInternal(s))
  BY AddCommandSpares, OwnCommands, SparesNothing DEF DisconnectInternal

LEMMA StartConnectRetrySpares ==
    ASSUME NEW s \in MQTTAsyncs, Filed(s)
    PROVE  Spares(s, StartConnectRetry(s))
<1> DEFINE e == [s EXCEPT !.retrying = 1]
<1>1. Same(s, e)
  BY DEF MQTTAsyncs, Same
<1>2. StartConnectRetry(s) \in {s, e}
  BY DEF StartConnectRetry
<1> HIDE DEF e
<1> QED BY <1>1, <1>2, SameSpares, SparesNothing

LEMMA NextOrCloseSpares ==
    ASSUME NEW s, Sound(s), Filed(s), s.connect # NoCommand
    PROVE  Spares(s, NextOrClose(s))
<1> DEFINE e == CloseOnly(s)
           f == CloseSession(s)
           a == NextAttempt(s.connect)
<1>1. s.connect \in Attempts
  BY DEF Sound, MQTTAsyncs
<1>2. /\ e \in MQTTAsyncs /\ Spares(s, e) /\ Filed(e)
      /\ f \in MQTTAsyncs /\ Spares(s, f) /\ Filed(f)
  BY CloseOnlySound, CloseSessionSound, CloseSpares DEF Sound, Spares, Settles
<1>3. CheckConn(s.connect) => a \in Attempts
  BY <1>1, NextAttemptTyped
<1>4. NextOrClose(s) = IF CheckConn(s.connect) THEN AddCommand(e, a) ELSE StartConnectRetry(f)
  BY DEF NextOrClose
<1> HIDE DEF e, f, a
<1>5. CheckConn(s.connect) => Spares(e, AddCommand(e, a))
  BY <1>2, <1>3, AddCommandSpares, OwnCommands
<1>6. Spares(f, StartConnectRetry(f))
  BY <1>2, StartConnectRetrySpares
<1> QED BY <1>2, <1>4, <1>5, <1>6, SparesAgain

\* MQTTAsync_checkDisconnect ends the call of the disconnect it carries out.
LEMMA CheckDisconnectSettles ==
    ASSUME NEW s, Sound(s), Filed(s), NEW c, Free(s, c), NEW elapsed
    PROVE  Settles(s, CheckDisconnect(s, c, elapsed))
<1> DEFINE f == CloseSession(s)
<1>1. f \in MQTTAsyncs /\ Spares(s, f) /\ Filed(f) /\ f.connect_state # "DISCONNECTING"
  BY CloseSessionSound, CloseSpares DEF Sound, Spares, Settles
<1>2. CheckDisconnect(s, c, elapsed) \in {s, StartConnectRetry(f), Answer(f, c, "ok")}
  BY DEF CheckDisconnect
<1> HIDE DEF f
<1>3. Settles(s, s) /\ Settles(s, f) /\ Free(f, c)
  BY <1>1, SparesNothing DEF Spares
<1>4. Settles(f, StartConnectRetry(f))
  BY <1>1, StartConnectRetrySpares DEF Spares
<1>5. Settles(f, Answer(f, c, "ok"))
  BY <1>1, <1>3, AnswerSettles DEF Ended
<1> QED BY <1>2, <1>3, <1>4, <1>5, SettlesAgain

LEMMA WriteSpares ==
    ASSUME NEW s \in MQTTAsyncs, Filed(s), NEW how, NEW reply
    PROVE  Spares(s, Write(s, how, reply))
<1> DEFINE d == [s EXCEPT !.unsent = <<reply>>]
           e == [s EXCEPT !.inbox = Append(s.inbox, reply)]
<1>1. Same(s, d) /\ Same(s, e)
  BY DEF MQTTAsyncs, Same
<1>2. Write(s, how, reply) \in {s, d, e}
  BY DEF Write, MQTTAsyncs
<1> HIDE DEF d, e
<1> QED BY <1>1, <1>2, SameSpares, SparesNothing

LEMMA RemoveMessageSpares ==
    ASSUME NEW s \in MQTTAsyncs, Filed(s), NEW t
    PROVE  Spares(s, RemoveMessage(s, t))
<1> DEFINE i == SelectInSeq(s.outboundMsgs, LAMBDA x : x.token = t)
           q == RemoveAt(s.outboundMsgs, i)
           e == [s EXCEPT !.outboundMsgs = q]
<1>1. RemoveMessage(s, t) \in {s, e}
  BY DEF RemoveMessage, MQTTAsyncs
<1> HIDE DEF i, q
<1>2. Same(s, e)
  BY DEF MQTTAsyncs, Same
<1> HIDE DEF e
<1> QED BY <1>1, <1>2, SameSpares, SparesNothing

\* The answer to a request ends the call whose response it removes.
LEMMA FinishResponseSettles ==
    ASSUME NEW s, Sound(s), Filed(s), NEW p \in Packets, p.type \in {"SUBACK", "PUBACK"}
    PROVE  Settles(s, FinishResponse(s, p))
<1> DEFINE i == ResponseTo(s, p.token)
           c == s.responses[i]
           how == IF c.call = p.call THEN p.val ELSE "mistaken"
           q == RemoveAt(s.responses, i)
           S == {c.call}
           o == EndWith(s.outcome, how, S)
           e == [s EXCEPT !.outcome = o, !.responses = q]
<1>1. s \in MQTTAsyncs /\ s.responses \in Seq(Requests)
  BY DEF Sound, MQTTAsyncs
<1>2. i \in 0..Len(s.responses)
  BY <1>1, FirstIndex DEF ResponseTo, SelectInSeq
<1>3. how \in Ended
  BY PacketValue DEF Ended
<1>4. FinishResponse(s, p) = IF i = 0 THEN s ELSE e
  BY <1>1 DEF FinishResponse, Answer, MQTTAsyncs
<1> HIDE DEF i, how
<1>5. CASE i = 0
  BY <1>4, <1>5, SparesNothing DEF Spares
<1>6. CASE i # 0
  <2>1. i \in 1..Len(s.responses)
    BY <1>1, <1>2, <1>6, LenProperties
  <2>2. /\ CallsIn(q) \subseteq CallsIn(s.responses) /\ c.call \in CallsIn(s.responses)
        /\ Single(q) /\ (c.call \in Promised => c.call \notin CallsIn(q))
    BY <1>1, <2>1, CallsRemoved DEF Filed
  <2>3. c.call \in Promised => s.outcome[c.call] = "pending" /\ c.call \notin CallsIn(s.commands)
    BY <2>2 DEF Filed, Queued
  <2>4. /\ \A r \in Promised : r \notin S => o[r] = s.outcome[r]
        /\ \A r \in Promised : r \in S => o[r] = how
    BY <2>3, EndWithCalls
  <2>5. s.connect_state = "DISCONNECTING" /\ s.disconnect.call \in Promised => s.disconnect.call \notin S
    BY <2>2 DEF Filed, Free, Queued
  <2> HIDE DEF o, q, c
  <2>6. /\ e.commands = s.commands /\ e.responses = q /\ e.outcome = o
        /\ e.connect_state = s.connect_state /\ e.disconnect = s.disconnect
    BY <1>1 DEF MQTTAsyncs
  <2> HIDE DEF e
  <2> DEFINE T == S \cap Promised
  <2>7. Shrinks(s, e, T)
    BY <1>3, <2>2, <2>3, <2>4, <2>5, <2>6 DEF Shrinks, Filed
  <2> HIDE DEF T
  <2> QED BY <1>4, <1>6, <2>7, ShrinksSettles
<1> QED BY <1>5, <1>6

\* MQTTAsync_writeComplete takes the first response for that of the pending
\* write: whatever call it is of is ended with it.
LEMMA WriteCompleteSettles ==
    ASSUME NEW s, Sound(s), Filed(s), NEW how, NEW read
    PROVE  Settles(s, WriteComplete(s, how, read))
<1> DEFINE h == Head(s.responses).call
           S == {h}
           x == EndWith(s.outcome, how, IF read THEN {s.pending_write} ELSE {})
           o == EndWith(x, "lost", S)
           q == Tail(s.responses)
           d == [s EXCEPT !.pending_write = 0]
           e == [s EXCEPT !.pending_write = 0, !.responses = q, !.outcome = o]
<1>1. s \in MQTTAsyncs /\ s.responses \in Seq(Requests) /\ s.pending_write \in Publishes0 \cup {0}
  BY DEF Sound, MQTTAsyncs
<1>2. WriteComplete(s, how, read) = IF s.pending_write = 0 THEN s
                                    ELSE IF s.responses = <<>> THEN d ELSE e
  BY <1>1 DEF WriteComplete, MQTTAsyncs
<1>3. Same(s, d)
  BY <1>1 DEF Same, MQTTAsyncs
<1> HIDE DEF d
<1>4. Settles(s, s) /\ Settles(s, d)
  BY <1>3, SameSpares, SparesNothing DEF Spares
<1>5. CASE s.responses # <<>>
  <2>1. /\ CallsIn(s.responses) = CallsIn(q) \cup {h}
        /\ Single(q) /\ (h \in Promised => h \notin CallsIn(q))
    BY <1>1, <1>5, CallsShorter DEF Filed
  <2>2. \A r \in Promised : x[r] = s.outcome[r]
    <3>1. s.pending_write \notin Promised
      BY <1>1, CallsArePositive DEF Promised
    <3> QED BY <3>1, EndWithCalls
  <2>3. h \in Promised => s.outcome[h] = "pending" /\ h \notin CallsIn(s.commands)
    BY <2>1 DEF Filed, Queued
  <2> HIDE DEF x
  <2>4. /\ \A r \in Promised : r \notin S => o[r] = s.outcome[r]
        /\ \A r \in Promised : r \in S => o[r] = "lost"
    BY <2>2, <2>3, EndWithCalls
  <2>5. s.connect_state = "DISCONNECTING" /\ s.disconnect.call \in Promised => s.disconnect.call \notin S
    BY <2>1 DEF Filed, Free, Queued
  <2> HIDE DEF o, q, h
  <2>6. /\ e.commands = s.commands /\ e.responses = q /\ e.outcome = o
        /\ e.connect_state = s.connect_state /\ e.disconnect = s.disconnect
    BY <1>1 DEF MQTTAsyncs
  <2> HIDE DEF e
  <2> DEFINE T == S \cap Promised
  <2>7. Shrinks(s, e, T)
    BY <2>1, <2>3, <2>4, <2>5, <2>6 DEF Shrinks, Filed, Ended
  <2> HIDE DEF T
  <2> QED BY <1>2, <1>4, <2>7, ShrinksSettles
<1> QED BY <1>2, <1>4, <1>5

\* MQTTAsync_completeConnection and MQTTProtocol_retries.
LEMMA CompleteConnectionSpares ==
    ASSUME NEW s \in MQTTAsyncs, Filed(s), NEW p
    PROVE  Spares(s, CompleteConnection(s, p))
<1> DEFINE e == [s EXCEPT !.retrying = 0, !.connected = 1, !.connect_state = "NOT_IN_PROGRESS"]
<1>1. e \in MQTTAsyncs
  BY DEF MQTTAsyncs, ConnectStates
<1>2. Same(s, e)
  BY DEF MQTTAsyncs, Same
<1>3. CompleteConnection(s, p) \in {CleanSessionState(e), e}
  BY DEF CompleteConnection
<1> HIDE DEF e
<1>4. Spares(s, e) /\ Filed(e)
  BY <1>2, SameSpares DEF Spares, Settles
<1>5. Spares(e, CleanSessionState(e))
  BY <1>1, <1>4, CleanSessionSpares
<1> QED BY <1>3, <1>4, <1>5, SparesAgain

LEMMA ResendSpares ==
    ASSUME NEW s, Sound(s), Filed(s), NEW n \in 0..Len(s.outboundMsgs), NEW how
    PROVE  Spares(s, Resend(s, n, how))
<1> DEFINE acks == [i \in 1..n |-> PUBACK(s.outboundMsgs[i])]
           q == s.inbox \o (IF s.link = "open" THEN acks ELSE <<>>)
           e == [s EXCEPT !.inbox = q]
           d == [e EXCEPT !.unsent = <<PUBACK(s.outboundMsgs[n + 1])>>]
<1>1. s \in MQTTAsyncs /\ s.outboundMsgs \in Seq(Messages) /\ s.inbox \in Seq(Packets)
  BY DEF Sound, MQTTAsyncs
<1>2. n \in Nat /\ \A i \in 1..n : PUBACK(s.outboundMsgs[i]) \in Packets
  BY <1>1, PacketTyped, ElementOfSeq, LenProperties
<1>3. acks \in Seq(Packets)
  BY <1>2
<1> HIDE DEF acks
<1>4. q \in Seq(Packets)
  BY <1>1, <1>3, Nothing, ConcatProperties
<1>5. Resend(s, n, how) \in {e, d, DisconnectInternal(e)}
  <2>1. [s EXCEPT !.inbox = @ \o IF s.link = "open" THEN acks ELSE <<>>] = e
    BY <1>1 DEF MQTTAsyncs
  <2> QED BY <2>1 DEF Resend, acks
<1> HIDE DEF q
<1>6. e \in MQTTAsyncs
  BY <1>1, <1>4 DEF MQTTAsyncs
<1>7. Same(s, e) /\ Same(s, d)
  BY <1>1 DEF MQTTAsyncs, Same
<1> HIDE DEF e, d
<1>8. Spares(s, e) /\ Spares(s, d) /\ Filed(e)
  BY <1>7, SameSpares DEF Spares, Settles
<1>9. Spares(e, DisconnectInternal(e))
  BY <1>6, <1>8, DisconnectInternalSpares
<1> QED BY <1>5, <1>8, <1>9, SparesAgain
-----------------------------------------------------------------------------
(* The actions.                                                            *)

\* The structure and the calls in it.
Held == Inv /\ CallsInv

LEMMA Standing ==
    ASSUME Held
    PROVE  Sound(m) /\ m \in MQTTAsyncs /\ Filed(m) /\ m.commands \in Seq(Commands) /\ m.responses \in Seq(Requests)
  BY DEF Held, Inv, CallsInv, Sound, MQTTAsyncs

\* processCommand takes a command off the queue: its call is in no place.
LEMMA DetachedSpares ==
    ASSUME Held, NEW c, First(c)
    PROVE  /\ Settles(m, Detached) /\ Free(Detached, c)
           /\ Detached.connect_state = "DISCONNECTING" /\ c.call \in Promised => Detached.disconnect.call # c.call
<1> DEFINE q == Tail(m.commands)
           e == [m EXCEPT !.commands = q]
<1>1. m \in MQTTAsyncs /\ Filed(m) /\ m.commands \in Seq(Commands) /\ m.commands # <<>> /\ c = Head(m.commands)
  BY Standing DEF First
<1>2. /\ CallsIn(m.commands) = CallsIn(q) \cup {c.call}
      /\ Single(q) /\ (c.call \in Promised => c.call \notin CallsIn(q))
  BY <1>1, CallsShorter DEF Filed
<1>3. Detached = e
  BY <1>1 DEF Detached, MQTTAsyncs
<1> HIDE DEF q
<1>4. /\ e.commands = q /\ e.responses = m.responses /\ e.outcome = m.outcome
      /\ e.connect_state = m.connect_state /\ e.disconnect = m.disconnect
  BY <1>1 DEF MQTTAsyncs
<1> HIDE DEF e
<1>5. Shrinks(m, e, {})
  BY <1>1, <1>2, <1>4 DEF Shrinks, Filed
<1>6. Settles(m, e)
  BY <1>1, <1>5, ShrinksSettles
<1>7. Free(e, c)
  BY <1>1, <1>2, <1>4 DEF Free, Filed, Queued
<1>8. e.connect_state = "DISCONNECTING" /\ c.call \in Promised => e.disconnect.call # c.call
  BY <1>1, <1>2, <1>4 DEF Free, Filed, Queued
<1> QED BY <1>3, <1>6, <1>7, <1>8

\* The command joins the responses.
LEMMA AppendResponseSettles ==
    ASSUME NEW s \in MQTTAsyncs, Filed(s), NEW c \in Requests, Free(s, c),
           s.connect_state = "DISCONNECTING" /\ c.call \in Promised => s.disconnect.call # c.call
    PROVE  Settles(s, [s EXCEPT !.responses = Append(@, c)])
<1> DEFINE q == Append(s.responses, c)
           e == [s EXCEPT !.responses = q]
<1>1. s.responses \in Seq(Requests)
  BY DEF MQTTAsyncs
<1>2. Single(s.responses) /\ (c.call \in Promised => c.call \notin CallsIn(s.responses))
  BY DEF Filed, Free, Queued
<1>3. CallsIn(q) = CallsIn(s.responses) \cup {c.call} /\ Single(q)
  <2> DEFINE p == s.responses
  <2>1. p \in Seq(Requests) /\ Single(p) /\ (c.call \in Promised => c.call \notin CallsIn(p))
    BY <1>1, <1>2
  <2> HIDE DEF p
  <2>2. /\ CallsIn(Append(p, c)) = CallsIn(p) \cup {c.call} /\ Single(Append(p, c))
        /\ CallsIn(<<c>> \o p) = CallsIn(p) \cup {c.call} /\ Single(<<c>> \o p)
    BY <2>1, CallsLonger
  <2> QED BY <2>2 DEF p
<1>4. [s EXCEPT !.responses = Append(@, c)] = e
  BY DEF MQTTAsyncs
<1> HIDE DEF q
<1>5. /\ e.commands = s.commands /\ e.responses = q /\ e.outcome = s.outcome
      /\ e.connect_state = s.connect_state /\ e.disconnect = s.disconnect
  BY DEF MQTTAsyncs
<1> HIDE DEF e
<1>6. \A r \in Promised : r \in CallsIn(e.commands) => r \notin CallsIn(e.responses)
  BY <1>3, <1>5 DEF Filed, Free, Queued
<1>7. \A r \in Promised : r \in Queued(e) => e.outcome[r] = "pending"
  BY <1>3, <1>5 DEF Filed, Free, Queued
<1>8. e.connect_state = "DISCONNECTING" => Free(e, e.disconnect)
  BY <1>3, <1>5 DEF Filed, Free, Queued
<1>9. Filed(e)
  BY <1>3, <1>5, <1>6, <1>7, <1>8 DEF Filed
<1> QED BY <1>4, <1>5, <1>9 DEF Settles

LEMMA ProcessConnectSettles ==
    ASSUME Held, NEW c, First(c), ProcessBusyConnect(c) \/ ProcessConnect(c) \/ ProcessConnectFails(c)
    PROVE  Settles(m, m')
<1> DEFINE d == Detached
           a == [c EXCEPT !.ver = AttemptVersion(c)]
<1>1. Sound(d) /\ d \in MQTTAsyncs /\ Settles(m, d) /\ Filed(d)
      /\ d.connect_state = m.connect_state
  BY DetachedSound, DetachedSpares DEF Held, Sound, Settles
<1>2. a \in Attempts
  BY DetachedSound, CommandKinds, AttemptTyped DEF ProcessBusyConnect, ProcessConnect, ProcessConnectFails, Held
<1>3. CASE ProcessBusyConnect(c)
  <2> DEFINE e == [d EXCEPT !.connect = c]
  <2>1. m' = e
    BY <1>3 DEF ProcessBusyConnect
  <2> HIDE DEF d
  <2>2. Same(d, e)
    BY <1>1 DEF MQTTAsyncs, Same
  <2> HIDE DEF e
  <2>3. Settles(d, e)
    BY <1>1, <2>2, SameSpares DEF Spares
  <2> QED BY <1>1, <2>1, <2>3, SettlesAgain
<1>4. CASE ProcessConnect(c)
  <2>1. \/ m' = [[d EXCEPT !.connect = a, !.unsent = <<>>] EXCEPT
                    !.link = "connecting", !.inbox = <<>>, !.connect_state = "TCP_IN_PROGRESS"]
        \/ \E val : m' = [[d EXCEPT !.connect = a, !.unsent = <<>>] EXCEPT
                    !.link = "open", !.inbox = <<CONNACK(val)>>, !.connect_state = "WAIT_FOR_CONNACK"]
    BY <1>4 DEF ProcessConnect
  <2> HIDE DEF d, a
  <2> DEFINE e == [d EXCEPT !.connect = a, !.unsent = <<>>]
  <2>4. e \in MQTTAsyncs /\ Same(d, e)
    BY <1>1, <1>2, Nothing DEF MQTTAsyncs, Same
  <2> HIDE DEF e
  <2>5. Same(e, [e EXCEPT !.link = "connecting", !.inbox = <<>>, !.connect_state = "TCP_IN_PROGRESS"])
    BY <2>4 DEF MQTTAsyncs, Same
  <2>6. \A p : Same(e, [e EXCEPT !.link = "open", !.inbox = <<p>>, !.connect_state = "WAIT_FOR_CONNACK"])
    BY <2>4 DEF MQTTAsyncs, Same
  <2>2. Same(d, m')
    <3>1. Same(e, m')
      BY <2>1, <2>5, <2>6 DEF e
    <3> QED BY <2>4, <3>1 DEF Same
  <2>3. Settles(d, m')
    BY <1>1, <2>2, SameSpares DEF Spares
  <2> QED BY <1>1, <2>3, SettlesAgain
<1>5. CASE ProcessConnectFails(c)
  <2>1. PICK left \in {"none", "broken"} :
          m' = IF CheckConn(a) THEN AddCommand(Failed(d, left), NextAttempt(a))
               ELSE StartConnectRetry([Failed(d, left) EXCEPT !.connect = a])
    BY <1>5 DEF ProcessConnectFails, Failed
  <2> DEFINE e == Failed(d, left)
             f == [e EXCEPT !.connect = a]
             n == NextAttempt(a)
  <2> HIDE DEF a, d
  <2>2. e \in MQTTAsyncs
    BY <1>1, FailedTyped
  <2>3. Same(d, e)
    BY <1>1 DEF MQTTAsyncs, Same, Failed
  <2> HIDE DEF e
  <2>4. f \in MQTTAsyncs /\ Same(e, f)
    BY <1>2, <2>2 DEF MQTTAsyncs, Same
  <2> HIDE DEF f
  <2>5. m' = IF CheckConn(a) THEN AddCommand(e, n) ELSE StartConnectRetry(f)
    BY <2>1 DEF e, f
  <2>6. CheckConn(a) => n \in Attempts
    BY <1>2, NextAttemptTyped
  <2> HIDE DEF n
  <2>7. Settles(d, e) /\ Filed(e) /\ Settles(e, f) /\ Filed(f)
    BY <1>1, <2>3, <2>4, SameSpares DEF Spares, Settles
  <2>8. CheckConn(a) => Settles(e, AddCommand(e, n))
    BY <2>2, <2>6, <2>7, AddCommandSpares, OwnCommands DEF Spares
  <2>9. Settles(f, StartConnectRetry(f))
    BY <2>4, <2>7, StartConnectRetrySpares DEF Spares
  <2> QED BY <1>1, <2>5, <2>7, <2>8, <2>9, SettlesAgain
<1> QED BY <1>3, <1>4, <1>5

LEMMA ProcessAcknowledgedSettles ==
    ASSUME Held, NEW c, First(c), ProcessAcknowledged(c)
    PROVE  Settles(m, m')
<1> DEFINE d == Detached
           y == [d EXCEPT !.outboundMsgs = Append(d.outboundMsgs, Message(c))]
           s == IF c.type = "SUBSCRIBE" THEN d ELSE y
           reply(val) == IF c.type = "SUBSCRIBE" THEN SUBACK(c, val) ELSE PUBACK(c)
<1>1. c \in Requests /\ c.type \in {"SUBSCRIBE", "PUBLISH1"}
  BY ReadyConnected DEF ProcessAcknowledged, Held
<1>2. d \in MQTTAsyncs /\ Settles(m, d) /\ Filed(d) /\ Free(d, c)
      /\ (d.connect_state = "DISCONNECTING" /\ c.call \in Promised => d.disconnect.call # c.call)
  BY DetachedSound, DetachedSpares DEF Held, Sound, Settles
<1>3. PICK how \in Writes(m), val \in {"ok", "fail"} :
        m' = IF how = "error" THEN Answer(DisconnectInternal(s), c, "fail")
             ELSE [Write(s, how, reply(val)) EXCEPT !.responses = Append(@, c)]
  BY <1>2 DEF ProcessAcknowledged, MQTTAsyncs
<1> HIDE DEF d
<1>4. Same(d, y)
  BY <1>2 DEF MQTTAsyncs, Same
<1>5. y \in MQTTAsyncs \/ c.type = "SUBSCRIBE"
  <2> DEFINE q == Append(d.outboundMsgs, Message(c))
  <2>1. c.type = "PUBLISH1" => q \in Seq(Messages)
    BY <1>1, <1>2, PacketTyped, AppendProperties DEF MQTTAsyncs
  <2> HIDE DEF q
  <2>2. c.type = "PUBLISH1" => [d EXCEPT !.outboundMsgs = q] \in MQTTAsyncs
    BY <1>2, <2>1 DEF MQTTAsyncs
  <2> QED BY <1>1, <2>2 DEF q
<1> HIDE DEF y
<1>6. s \in MQTTAsyncs /\ Spares(d, s)
  BY <1>2, <1>4, <1>5, SameSpares, SparesNothing
<1> HIDE DEF s
<1> DEFINE a == DisconnectInternal(s)
           w == Write(s, how, reply(val))
<1>7. reply(val) \in Packets
  BY <1>1, <1>3, PacketTyped
<1> HIDE DEF reply
<1>8. Filed(s)
  BY <1>6 DEF Spares, Settles
<1>9. a \in MQTTAsyncs /\ w \in MQTTAsyncs /\ Spares(d, a) /\ Spares(d, w)
  <2>1. a \in MQTTAsyncs
    BY <1>6, AddCommandTyped, AttemptIsCommand DEF DisconnectInternal
  <2>2. w \in MQTTAsyncs
    BY <1>6, <1>7, WriteTyped
  <2>3. Spares(s, a) /\ Spares(s, w)
    BY <1>6, <1>8, DisconnectInternalSpares, WriteSpares
  <2> QED BY <1>6, <2>1, <2>2, <2>3, SparesAgain
<1>10. m' = IF how = "error" THEN Answer(a, c, "fail") ELSE [w EXCEPT !.responses = Append(@, c)]
  BY <1>3
<1> HIDE DEF a, w
<1>11. ASSUME NEW e, Spares(d, e)
       PROVE  /\ Filed(e) /\ Settles(m, e) /\ Free(e, c)
              /\ e.connect_state = "DISCONNECTING" /\ c.call \in Promised => e.disconnect.call # c.call
  BY <1>2, <1>11, SettlesAgain DEF Spares, Settles
<1>12. Settles(a, Answer(a, c, "fail")) /\ Settles(w, [w EXCEPT !.responses = Append(@, c)])
  BY <1>1, <1>9, <1>11, AnswerSettles, AppendResponseSettles DEF Ended
<1> QED BY <1>9, <1>10, <1>11, <1>12, SettlesAgain

LEMMA ProcessPublish0Settles ==
    ASSUME Held, NEW c, First(c), ProcessPublish0(c)
    PROVE  Settles(m, m')
<1> DEFINE d == Detached
           e == [d EXCEPT !.pending_write = c.call]
           b == DisconnectInternal(e)
<1>1. c \in Requests /\ c.call \in Publishes0
  BY ReadyConnected, RequestFields DEF ProcessPublish0, Held
<1>2. c.call \notin Promised
  BY <1>1 DEF Promised
<1>3. d \in MQTTAsyncs /\ Settles(m, d) /\ Filed(d)
  BY DetachedSound, DetachedSpares DEF Held, Sound, Settles
<1>4. PICK how : m' \in {Answer(d, c, "ok"), Write(d, how, NoPacket), Answer(b, c, "fail")}
  BY DEF ProcessPublish0
<1> HIDE DEF d
<1>5. e \in MQTTAsyncs /\ Same(d, e)
  BY <1>1, <1>3 DEF MQTTAsyncs, Same
<1> HIDE DEF e
<1>6. Settles(d, e) /\ Filed(e)
  BY <1>3, <1>5, SameSpares DEF Spares, Settles
<1>7. b \in MQTTAsyncs /\ Settles(e, b) /\ Filed(b)
  <2>1. b \in MQTTAsyncs
    BY <1>5, AddCommandTyped, AttemptIsCommand DEF DisconnectInternal
  <2>2. Spares(e, b)
    BY <1>5, <1>6, DisconnectInternalSpares
  <2> QED BY <2>1, <2>2 DEF Spares, Settles
<1> HIDE DEF b
<1>8. Settles(d, Answer(d, c, "ok")) /\ Settles(b, Answer(b, c, "fail"))
  BY <1>2, <1>3, <1>7, AnswerOther
<1>9. Settles(d, Write(d, how, NoPacket))
  BY <1>3, WriteSpares DEF Spares
<1> QED BY <1>3, <1>4, <1>6, <1>7, <1>8, <1>9, SettlesAgain

LEMMA ProcessDisconnectSettles ==
    ASSUME Held, NEW c, First(c), ProcessDisconnect(c)
    PROVE  Settles(m, m')
<1> DEFINE d == Detached
           state == IF d.connect_state = "NOT_IN_PROGRESS" THEN d.connect_state ELSE "DISCONNECTING"
           e == [d EXCEPT !.disconnect = c, !.connect_state = state]
<1>1. Sound(d) /\ d \in MQTTAsyncs /\ c \in Commands /\ d.connect_state = m.connect_state
      /\ d.connected = m.connected
  BY DetachedSound DEF Held, Sound
<1>2. Settles(m, d) /\ Filed(d) /\ Free(d, c)
  BY DetachedSpares DEF Settles
<1>3. m' = e \/ \E elapsed : m' = CheckDisconnect(e, c, elapsed)
  BY <1>1 DEF ProcessDisconnect, MQTTAsyncs
<1> HIDE DEF d
<1>4. state \in ConnectStates
  BY <1>1 DEF MQTTAsyncs, ConnectStates
<1>5. e \in MQTTAsyncs
  <2> HIDE DEF state
  <2> QED BY <1>1, <1>4 DEF MQTTAsyncs
<1>6. /\ e.connected = d.connected /\ e.connect_state = state /\ e.link = d.link
      /\ e.connect = d.connect /\ e.retrying = d.retrying /\ e.inbox = d.inbox
      /\ e.outboundMsgs = d.outboundMsgs /\ e.disconnect = c
      /\ e.commands = d.commands /\ e.responses = d.responses /\ e.outcome = d.outcome
  BY <1>1 DEF MQTTAsyncs
<1> HIDE DEF e
<1>7. d.connected \in {0, 1} /\ d.connect_state \in ConnectStates
  BY <1>1 DEF MQTTAsyncs
<1>8. Sound(e)
  BY <1>1, <1>5, <1>6, <1>7 DEF Sound, Agrees, Started, Bounded, ConnectStates
<1>9. Free(e, c)
  BY <1>2, <1>6 DEF Free, Queued
<1>10. Filed(e) /\ Settles(d, e)
  BY <1>2, <1>6, <1>9 DEF Filed, Settles, Queued
<1>11. \A elapsed : Settles(e, CheckDisconnect(e, c, elapsed))
  BY <1>8, <1>9, <1>10, CheckDisconnectSettles
<1> QED BY <1>2, <1>3, <1>10, <1>11, SettlesAgain

LEMMA SendingSettles ==
    ASSUME Held, FlagPendingWrite \/ AppendResponse \/ Wait \/ Wake
    PROVE  Settles(m, m')
<1>1. m \in MQTTAsyncs /\ Filed(m)
  BY Standing
<1>2. CASE FlagPendingWrite
  <2>1. Same(m, m')
    BY <1>1, <1>2 DEF FlagPendingWrite, MQTTAsyncs, Same
  <2> QED BY <1>1, <2>1, SameSpares DEF Spares
<1>3. CASE AppendResponse
  <2> DEFINE c == taken.cmd
  <2>1. c \in Requests /\ c.type = "PUBLISH0" /\ m' = [m EXCEPT !.responses = Append(@, c)]
    BY <1>3, AttemptIsCommand DEF AppendResponse, Held, Inv, TypeOK, TakenInv
  <2> HIDE DEF c
  <2>2. c.call \notin Promised
    BY <2>1, RequestFields DEF Promised
  <2>3. Free(m, c)
    BY <2>2 DEF Free
  <2> QED BY <1>1, <2>1, <2>2, <2>3, AppendResponseSettles
<1>4. CASE Wait \/ Wake
  BY <1>1, <1>4, SparesNothing DEF Wait, Wake, Spares
<1> QED BY <1>2, <1>3, <1>4

LEMMA CheckTimeoutsSettles ==
    ASSUME Held, CheckTimeouts
    PROVE  Settles(m, m')
<1>1. PICK elapsed \in Elapsed(m.disconnect), late \in BOOLEAN, due \in BOOLEAN :
        LET s == IF m.connect_state = "DISCONNECTING"
                 THEN CheckDisconnect(m, m.disconnect, elapsed) ELSE m
            expired == late /\ s.connect_state # "NOT_IN_PROGRESS"
            retry == AutoReconnect = 1 /\ s.retrying = 1 /\ (s.reconnectNow = 1 \/ due)
        IN  m' = IF expired THEN NextOrClose(s)
                 ELSE IF retry THEN [AddCommand(s, Restarted(s.connect)) EXCEPT !.reconnectNow = 0]
                 ELSE s
  BY DEF CheckTimeouts
<1> DEFINE s == IF m.connect_state = "DISCONNECTING"
                THEN CheckDisconnect(m, m.disconnect, elapsed) ELSE m
           a == AddCommand(s, Restarted(s.connect))
           e == [a EXCEPT !.reconnectNow = 0]
<1>2. \/ s.connect_state # "NOT_IN_PROGRESS" /\ m' = NextOrClose(s)
      \/ s.retrying = 1 /\ m' = e
      \/ m' = s
  BY <1>1
<1>3. Sound(m) /\ Filed(m) /\ (m.connect_state = "DISCONNECTING" => m.connect # NoCommand /\ Free(m, m.disconnect))
  BY Standing DEF Sound, Started, Filed
<1>4. Sound(s) /\ Settles(m, s)
  BY <1>3, CheckDisconnectSound, CheckDisconnectSettles, SparesNothing DEF Spares
<1> HIDE DEF s
<1>5. Filed(s)
  BY <1>4 DEF Settles
<1>6. CASE s.connect_state # "NOT_IN_PROGRESS" /\ m' = NextOrClose(s)
  <2>1. s.connect # NoCommand
    BY <1>4, <1>6 DEF Sound, Started
  <2>2. Settles(s, NextOrClose(s))
    BY <1>4, <1>5, <2>1, NextOrCloseSpares DEF Spares
  <2> QED BY <1>4, <1>6, <2>2, SettlesAgain
<1>7. CASE s.retrying = 1 /\ m' = e
  <2>1. s \in MQTTAsyncs /\ s.connect \in Attempts
    BY <1>4, <1>7 DEF Sound, Started, MQTTAsyncs
  <2>2. Restarted(s.connect) \in Attempts
    BY <2>1, AttemptTyped
  <2>3. a \in MQTTAsyncs /\ Spares(s, a)
    BY <1>5, <2>1, <2>2, AddCommandTyped, AddCommandSpares, OwnCommands
  <2> HIDE DEF a
  <2>4. Same(a, e)
    BY <2>3 DEF MQTTAsyncs, Same
  <2> HIDE DEF e
  <2>5. Settles(s, a) /\ Settles(a, e)
    BY <2>3, <2>4, SameSpares DEF Spares, Settles
  <2> QED BY <1>4, <1>7, <2>5, SettlesAgain
<1> QED BY <1>2, <1>4, <1>6, <1>7

LEMMA ContinueWritesSettles ==
    ASSUME Held, ContinueWrites
    PROVE  Settles(m, m')
<1> DEFINE s == [m EXCEPT !.unsent = <<>>]
           w == Write(s, "complete", m.unsent[1])
<1>1. m \in MQTTAsyncs /\ Filed(m)
  BY Standing
<1>2. s \in MQTTAsyncs /\ Same(m, s)
  BY <1>1, Nothing DEF MQTTAsyncs, Same
<1>3. PICK read : m' \in {WriteComplete(w, "ok", read), WriteComplete(s, "fail", read)}
  BY DEF ContinueWrites
<1>4. m.unsent[1] \in Packets
  <2>1. m.unsent \in {<<>>} \cup {<<p>> : p \in Packets} /\ m.unsent # <<>>
    BY <1>1 DEF ContinueWrites, MQTTAsyncs
  <2>2. PICK p \in Packets : m.unsent = <<p>>
    BY <2>1
  <2> QED BY <2>2
<1>5. /\ s.connected = m.connected /\ s.connect_state = m.connect_state /\ s.link = m.link
      /\ s.connect = m.connect /\ s.retrying = m.retrying /\ s.inbox = m.inbox
      /\ s.outboundMsgs = m.outboundMsgs
  BY <1>1 DEF MQTTAsyncs
<1> HIDE DEF s
<1>6. Sound(s)
  BY <1>2, <1>5 DEF Held, Inv, Sound, Agrees, Started, Bounded
<1>7. Settles(m, s) /\ Filed(s)
  BY <1>1, <1>2, SameSpares DEF Spares, Settles
<1>8. Sound(w) /\ Settles(s, w) /\ Filed(w)
  BY <1>2, <1>4, <1>6, <1>7, WriteSound, WriteSpares DEF Spares, Settles
<1> HIDE DEF w
<1>9. Settles(w, WriteComplete(w, "ok", read)) /\ Settles(s, WriteComplete(s, "fail", read))
  BY <1>6, <1>7, <1>8, WriteCompleteSettles
<1> QED BY <1>3, <1>7, <1>8, <1>9, SettlesAgain

LEMMA CyclePacketSettles ==
    ASSUME Held, CyclePacket
    PROVE  Settles(m, m')
<1> DEFINE p == Head(m.inbox)
           q == Tail(m.inbox)
           s == [m EXCEPT !.inbox = q]
           r == RemoveMessage(s, p.token)
           f == FinishResponse(r, p)
<1>1. m \in MQTTAsyncs /\ m.inbox \in Seq(Packets) /\ m.inbox # <<>> /\ m.connect # NoCommand /\ Filed(m)
  BY Standing DEF Held, Inv, Sound, MQTTAsyncs, Started, CyclePacket
<1>2. p \in Packets /\ q \in Seq(Packets)
  BY <1>1, HeadTailProperties
<1>3. (p.type = "PUBACK" /\ m' = f) \/ m' = s
  <2>1. [m EXCEPT !.inbox = Tail(@)] = s
    BY <1>1 DEF MQTTAsyncs
  <2> QED BY <2>1 DEF CyclePacket
<1> HIDE DEF p, q
<1>4. s \in MQTTAsyncs /\ Same(m, s)
  BY <1>1, <1>2 DEF MQTTAsyncs, Same
<1>5. /\ s.connected = m.connected /\ s.connect_state = m.connect_state /\ s.link = m.link
      /\ s.connect = m.connect /\ s.outboundMsgs = m.outboundMsgs
  BY <1>1 DEF MQTTAsyncs
<1> HIDE DEF s
<1>6. Sound(s)
  BY <1>1, <1>4, <1>5 DEF Held, Inv, Sound, Agrees, Started, Bounded
<1>7. Settles(m, s) /\ Filed(s)
  BY <1>1, <1>4, SameSpares DEF Spares, Settles
<1>8. Sound(r) /\ Settles(s, r) /\ Filed(r)
  BY <1>4, <1>6, <1>7, RemoveMessageSound, RemoveMessageSpares DEF Spares, Settles
<1> HIDE DEF r
<1>9. p.type = "PUBACK" => Settles(r, f)
  BY <1>2, <1>8, FinishResponseSettles
<1> HIDE DEF f
<1> QED BY <1>3, <1>7, <1>8, <1>9, SettlesAgain

LEMMA NetworkSettles ==
    ASSUME Held, Keepalive \/ DispatchNothing \/ DispatchSuback \/ Break \/ Expire
    PROVE  Settles(m, m')
<1>1. m \in MQTTAsyncs /\ Filed(m) /\ Sound(m)
  BY Standing
<1>2. CASE Keepalive
  BY <1>1, <1>2, DisconnectInternalSpares DEF Keepalive, Spares
<1>3. CASE DispatchNothing \/ Expire
  BY <1>1, <1>3, SparesNothing DEF DispatchNothing, Expire, Spares
<1>4. CASE DispatchSuback
  BY <1>1, <1>4, FinishResponseSettles DEF DispatchSuback, Held, Inv, TypeOK
<1>5. CASE Break
  <2>1. PICK left : m' = [m EXCEPT !.link = "broken", !.inbox = left]
    BY <1>5 DEF Break
  <2>2. Same(m, m')
    BY <1>1, <2>1 DEF MQTTAsyncs, Same
  <2> QED BY <1>1, <2>2, SameSpares DEF Spares
<1> QED BY <1>2, <1>3, <1>4, <1>5

LEMMA ReceivingSettles ==
    ASSUME Held, CycleConnecting \/ CycleError \/ DispatchError \/ DispatchRefused
    PROVE  Settles(m, m')
<1>1. m \in MQTTAsyncs /\ Filed(m) /\ Sound(m)
  BY Standing
<1>2. m.connect # NoCommand => Settles(m, NextOrClose(m))
  BY <1>1, NextOrCloseSpares DEF Spares
<1>3. m.connect_state # "NOT_IN_PROGRESS" => m.connect # NoCommand
  BY <1>1 DEF Sound, Started
<1>4. Settles(m, m)
  BY <1>1, SparesNothing DEF Spares
<1>5. CASE CycleConnecting
  <2>1. \/ \E val : m' = [m EXCEPT !.link = "open", !.inbox = <<CONNACK(val)>>,
                                  !.connect_state = "WAIT_FOR_CONNACK"]
        \/ m' = NextOrClose(m)
    BY <1>5 DEF CycleConnecting
  <2>2. \A x : Same(m, [m EXCEPT !.link = "open", !.inbox = <<x>>, !.connect_state = "WAIT_FOR_CONNACK"])
    BY <1>1 DEF MQTTAsyncs, Same
  <2>3. m' = NextOrClose(m) \/ Same(m, m')
    BY <2>1, <2>2
  <2>4. m.connect_state # "NOT_IN_PROGRESS"
    BY <1>5 DEF CycleConnecting
  <2> QED BY <1>1, <1>2, <1>3, <2>3, <2>4, SameSpares DEF Spares
<1>6. CASE CycleError
  BY <1>2, <1>3, <1>4, <1>6 DEF CycleError
<1>7. CASE DispatchError
  <2>1. \/ m' = DisconnectInternal(m) \/ m' = CloseOnly(m)
        \/ m.connect_state # "NOT_IN_PROGRESS" /\ m' = NextOrClose(m)
    BY <1>7 DEF DispatchError
  <2>2. Settles(m, DisconnectInternal(m)) /\ Settles(m, CloseOnly(m))
    BY <1>1, DisconnectInternalSpares, CloseSpares DEF Spares
  <2> QED BY <1>2, <1>3, <2>1, <2>2
<1>8. CASE DispatchRefused
  BY <1>2, <1>8 DEF DispatchRefused, Held, Inv, GotInv
<1> QED BY <1>5, <1>6, <1>7, <1>8

LEMMA DispatchConnackSettles ==
    ASSUME Held, DispatchConnack
    PROVE  Settles(m, m')
<1> DEFINE s == CompleteConnection(m, got)
<1>1. m.connect # NoCommand /\ m.connect_state = "WAIT_FOR_CONNACK" /\ Sound(m) /\ m \in MQTTAsyncs /\ Filed(m)
  BY Standing DEF DispatchConnack, Held, Inv, GotInv
<1>2. Sound(s) /\ Settles(m, s) /\ Filed(s)
  BY <1>1, CompleteConnectionSound, CompleteConnectionSpares DEF Spares, Settles
<1>3. PICK n \in 0..Len(s.outboundMsgs), how \in Writes(s) : m' = Resend(s, n, how)
  BY DEF DispatchConnack
<1> HIDE DEF s
<1>4. Settles(s, Resend(s, n, how))
  BY <1>2, <1>3, ResendSpares DEF Spares
<1> QED BY <1>2, <1>3, <1>4, SettlesAgain

LEMMA ConnectSettles ==
    ASSUME Held, Connect \/ Reconnect
    PROVE  Settles(m, m')
<1>1. m \in MQTTAsyncs /\ Filed(m)
  BY Standing
<1>2. CASE Connect
  <2> DEFINE e == [m EXCEPT !.shouldBeConnected = 1]
             c == Command("CONNECT", 0, 0, 0, 0)
  <2>1. c \in Attempts /\ m' = AddCommand(e, c)
    BY <1>2 DEF Connect, Command, Attempts, UriIds, Versions
  <2>2. e \in MQTTAsyncs /\ Same(m, e)
    BY <1>1 DEF MQTTAsyncs, Same
  <2> HIDE DEF c, e
  <2>3. Settles(m, e) /\ Filed(e)
    BY <1>1, <2>2, SameSpares DEF Spares, Settles
  <2>4. Settles(e, AddCommand(e, c))
    BY <2>1, <2>2, <2>3, AddCommandSpares, OwnCommands DEF Spares
  <2> QED BY <2>1, <2>3, <2>4, SettlesAgain
<1>3. CASE Reconnect
  <2> DEFINE e == [m EXCEPT !.reconnectNow = 1, !.retrying = 1]
             c == Restarted(m.connect)
  <2>1. m' = e \/ m' = AddCommand(m, c)
    BY <1>3 DEF Reconnect
  <2>2. Same(m, e)
    BY <1>1 DEF MQTTAsyncs, Same
  <2> HIDE DEF e
  <2>3. m.connect \in Attempts
    BY <1>1, <1>3, AttemptIsCommand DEF Reconnect, MQTTAsyncs
  <2>4. c \in Commands /\ c.call = 0
    BY <2>3, AttemptTyped, OwnCommands
  <2> HIDE DEF c
  <2>5. Settles(m, e) /\ Settles(m, AddCommand(m, c))
    BY <1>1, <2>2, <2>4, SameSpares, AddCommandSpares DEF Spares
  <2> QED BY <2>1, <2>5
<1> QED BY <1>2, <1>3

\* The steps after which nothing but ends has happened to a promised call.
LEMMA OthersSettle ==
    ASSUME Held, Connect \/ Reconnect \/ SendThread \/ ReceiveThread \/ Break \/ Expire \/ UNCHANGED vars
    PROVE  Settles(m, m') /\ app' = app
<1>1. CASE Connect \/ Reconnect
  BY <1>1, ConnectSettles DEF Connect, Reconnect
<1>2. CASE ProcessCommand
  <2>1. PICK c : /\ First(c)
                 /\ \/ ProcessBusyConnect(c) \/ ProcessConnect(c) \/ ProcessConnectFails(c)
                    \/ ProcessAcknowledged(c) \/ ProcessPublish0(c) \/ ProcessDisconnect(c)
                 /\ app' = app
    BY <1>2 DEF ProcessCommand
  <2> QED BY <2>1, ProcessConnectSettles, ProcessAcknowledgedSettles, ProcessPublish0Settles, ProcessDisconnectSettles
<1>3. CASE FlagPendingWrite \/ AppendResponse \/ Wait \/ Wake
  BY <1>3, SendingSettles DEF FlagPendingWrite, AppendResponse, Wait, Wake
<1>4. CASE CheckTimeouts
  BY <1>4, CheckTimeoutsSettles DEF CheckTimeouts
<1>5. CASE ContinueWrites \/ CyclePacket
  BY <1>5, ContinueWritesSettles, CyclePacketSettles DEF ContinueWrites, CyclePacket
<1>6. CASE Keepalive \/ DispatchNothing \/ DispatchSuback \/ Break \/ Expire
  BY <1>6, NetworkSettles DEF Keepalive, DispatchNothing, DispatchSuback, Break, Expire, Dispatch
<1>7. CASE CycleConnecting \/ CycleError \/ DispatchError \/ DispatchRefused
  BY <1>7, ReceivingSettles DEF CycleConnecting, CycleError, DispatchError, DispatchRefused, Dispatch
<1>8. CASE DispatchConnack
  BY <1>8, DispatchConnackSettles DEF DispatchConnack, Dispatch
<1>9. CASE UNCHANGED vars
  BY <1>9, Standing, SparesNothing DEF Spares, vars
<1> QED BY <1>1, <1>2, <1>3, <1>4, <1>5, <1>6, <1>7, <1>8, <1>9 DEF SendThread, ReceiveThread
-----------------------------------------------------------------------------
(* The application's steps.                                                *)

\* A thread asks for nothing, or is about to add a call nobody has made.
LEMMA AskingUnmade ==
    ASSUME Held, NEW t \in Threads, NEW r \in Calls, Callable(t, r),
           NEW c, c.call = r, m'.outcome = m.outcome,
           app' = app \/ app' = [app EXCEPT ![t] = c]
    PROVE  Unmade'
<1>1. Unmade /\ app \in [Threads -> Requests \cup {NoCommand}]
  BY DEF Held, CallsInv, Inv, TypeOK
<1>2. m.outcome[r] = "unmade" /\ \A u \in Threads : app[u].call # r
  BY DEF Callable
<1>3. CASE app' = app
  BY <1>1, <1>3 DEF Unmade
<1>4. CASE app' = [app EXCEPT ![t] = c]
  <2>1. app'[t] = c /\ \A u \in Threads : u # t => app'[u] = app[u]
    BY <1>1, <1>4
  <2> QED BY <1>1, <1>2, <2>1 DEF Unmade
<1> QED BY <1>3, <1>4

LEMMA RequestSettles ==
    ASSUME Held, NEW t \in Threads, NEW r \in Calls, Request(t, r)
    PROVE  Settles(m, m') /\ Unmade'
<1> DEFINE id == IF r \in Publishes0 THEN 0 ELSE AssignMsgId(m)
           c == Command(TypeOf(r), r, id, 0, 0)
<1>1. /\ m' = m \/ m' = [m EXCEPT !.msgID = id]
      /\ app' = app \/ app' = [app EXCEPT ![t] = c]
      /\ Callable(t, r)
  BY DEF Request
<1>2. c.call = r
  BY DEF Command
<1> HIDE DEF id, c
<1>3. Same(m, m')
  BY <1>1, Standing DEF Same, MQTTAsyncs
<1>4. Settles(m, m')
  BY <1>3, Standing, SameSpares DEF Spares
<1>5. m'.outcome = m.outcome
  BY <1>3 DEF Same
<1> QED BY <1>1, <1>2, <1>4, <1>5, AskingUnmade

LEMMA DisconnectSettles ==
    ASSUME Held, NEW t \in Threads, NEW r \in Calls, Disconnect(t, r)
    PROVE  Settles(m, m') /\ Unmade'
<1> DEFINE c == Command("DISCONNECT", r, 0, 0, 0)
<1>1. /\ m' = [m EXCEPT !.shouldBeConnected = 0]
      /\ app' = app \/ app' = [app EXCEPT ![t] = c]
      /\ Callable(t, r)
  BY DEF Disconnect
<1>2. c.call = r
  BY DEF Command
<1> HIDE DEF c
<1>3. Same(m, m')
  BY <1>1, Standing DEF Same, MQTTAsyncs
<1>4. Settles(m, m')
  BY <1>3, Standing, SameSpares DEF Spares
<1>5. m'.outcome = m.outcome
  BY <1>3 DEF Same
<1> QED BY <1>1, <1>2, <1>4, <1>5, AskingUnmade

\* What happens to the promised calls, a call of the application's included.
Moves(s, e) ==
    \A r \in Promised : \/ e.outcome[r] = s.outcome[r]
                        \/ s.outcome[r] = "unmade" /\ e.outcome[r] = "pending"
                        \/ s.outcome[r] = "pending" /\ e.outcome[r] \in Ended

LEMMA AddMoves ==
    ASSUME Held, NEW t \in Threads, Add(t)
    PROVE  Moves(m, m') /\ CallsInv'
<1> DEFINE c == app[t]
           q == Append(m.commands, c)
           b == <<c>> \o m.commands
           x == [m EXCEPT !.commands = q]
           e == [x EXCEPT !.outcome[c.call] = "pending"]
<1>1. /\ app \in [Threads -> Requests \cup {NoCommand}] /\ Unmade
      /\ c \in Requests /\ app' = [app EXCEPT ![t] = NoCommand]
  BY DEF Held, CallsInv, Inv, TypeOK, Add
<1>2. c.type \notin {"CONNECT", "INTERNAL"} /\ c \in Commands /\ c.call \in Calls
  BY <1>1 DEF Requests, Commands
<1>3. m \in MQTTAsyncs /\ Filed(m) /\ m.commands \in Seq(Commands)
  BY Standing
<1>4. m' = e
  BY <1>2, Zenon DEF Add, AddCommand
<1>5. c.call \in Promised => m.outcome[c.call] = "unmade"
  BY <1>1 DEF Unmade
<1>6. c.call \in Promised => c.call \notin Queued(m)
  BY <1>3, <1>5 DEF Filed
<1>7. /\ CallsIn(q) = CallsIn(m.commands) \cup {c.call} /\ Single(q)
      /\ CallsIn(b) = CallsIn(m.commands) \cup {c.call} /\ Single(b)
  <2>1. Single(m.commands) /\ (c.call \in Promised => c.call \notin CallsIn(m.commands))
    BY <1>3, <1>6 DEF Filed, Queued
  <2> QED BY <1>2, <1>3, <2>1, CallsLonger
<1> HIDE DEF q, b
<1>8. /\ e.commands = q /\ e.responses = m.responses
      /\ e.connect_state = m.connect_state /\ e.disconnect = m.disconnect
      /\ e.outcome[c.call] = "pending" /\ \A r \in Calls : r # c.call => e.outcome[r] = m.outcome[r]
  BY <1>2, <1>3 DEF MQTTAsyncs
<1> HIDE DEF e, x
<1>9. Moves(m, e)
  BY <1>5, <1>8 DEF Moves, Promised
<1>10. Filed(e)
  <2>1. \A r \in Promised : r \in Queued(e) => r \in Queued(m) \/ r = c.call
    BY <1>7, <1>8 DEF Queued
  <2>2. \A r \in Promised : r \in Queued(e) => e.outcome[r] = "pending"
    BY <1>3, <1>8, <2>1 DEF Filed, Promised
  <2>3. \A r \in Promised : e.outcome[r] # "twice"
    BY <1>3, <1>8 DEF Filed, Promised
  <2>4. \A r \in Promised : r \in CallsIn(e.commands) => r \notin CallsIn(e.responses)
    BY <1>3, <1>6, <1>7, <1>8 DEF Filed, Queued
  <2>5. e.connect_state = "DISCONNECTING" => Free(e, e.disconnect)
    BY <1>3, <1>5, <1>8, <2>1 DEF Filed, Free, Promised
  <2>6. Single(e.commands) /\ Single(e.responses)
    BY <1>3, <1>7, <1>8 DEF Filed
  <2> QED BY <2>2, <2>3, <2>4, <2>5, <2>6 DEF Filed
<1>11. Unmade'
  <2>1. app'[t] = NoCommand /\ \A u \in Threads : u # t => app'[u] = app[u]
    BY <1>1
  <2>2. NoCommand.call \notin Promised
    BY CallsArePositive DEF NoCommand, Command, Promised
  <2>3. ASSUME NEW u \in Threads, app'[u].call \in Promised
        PROVE  u # t /\ app[u].call \in Promised /\ app[u].call # c.call
    BY <1>1, <2>1, <2>2, <2>3 DEF Unmade
  <2>4. ASSUME NEW u \in Threads, app'[u].call \in Promised
        PROVE  m'.outcome[app'[u].call] = "unmade"
    BY <1>1, <1>4, <1>8, <2>1, <2>3, <2>4 DEF Unmade, Promised
  <2>5. ASSUME NEW u \in Threads, NEW w \in Threads, app'[u].call = app'[w].call, app'[u].call \in Promised
        PROVE  u = w
    BY <1>1, <2>1, <2>3, <2>5 DEF Unmade
  <2> QED BY <2>4, <2>5 DEF Unmade
<1> QED BY <1>4, <1>9, <1>10, <1>11 DEF CallsInv
-----------------------------------------------------------------------------
(* The refinement.                                                         *)

LEMMA InitCalls == Init => CallsInv
<1> SUFFICES ASSUME Init PROVE CallsInv
  OBVIOUS
<1>1. /\ m.commands = <<>> /\ m.responses = <<>> /\ m.connect_state = "NOT_IN_PROGRESS"
      /\ \A r \in Calls : m.outcome[r] = "unmade"
      /\ \A t \in Threads : app[t] = NoCommand
  BY DEF Init
<1>2. NoCommand.call \notin Promised
  BY CallsArePositive DEF NoCommand, Command, Promised
<1>3. Filed(m)
  BY <1>1 DEF Filed, Single, CallsIn, Queued, Promised
<1>4. Unmade
  BY <1>1, <1>2 DEF Unmade
<1> QED BY <1>3, <1>4 DEF CallsInv

LEMMA NextCalls == Held /\ [Next]_vars => CallsInv' /\ Moves(m, m')
<1> SUFFICES ASSUME Held, [Next]_vars PROVE CallsInv' /\ Moves(m, m')
  OBVIOUS
<1>1. ASSUME Settles(m, m'), Unmade' PROVE CallsInv' /\ Moves(m, m')
  BY <1>1 DEF CallsInv, Settles, Moves
<1>2. ASSUME NEW t \in Threads, NEW r \in Calls, Request(t, r) \/ Disconnect(t, r)
      PROVE  CallsInv' /\ Moves(m, m')
  BY <1>1, <1>2, RequestSettles, DisconnectSettles
<1>3. ASSUME NEW t \in Threads, Add(t) PROVE CallsInv' /\ Moves(m, m')
  BY <1>3, AddMoves
<1>4. CASE Connect \/ Reconnect \/ SendThread \/ ReceiveThread \/ Break \/ Expire \/ UNCHANGED vars
  <2>1. Settles(m, m') /\ app' = app
    BY <1>4, OthersSettle
  <2>2. Unmade
    BY DEF Held, CallsInv
  <2>3. Unmade'
    BY <2>1, <2>2 DEF Settles, Unmade
  <2> QED BY <1>1, <2>1, <2>3
<1> QED BY <1>2, <1>3, <1>4 DEF Next, Application

LEMMA MovesPromised ==
    ASSUME m \in MQTTAsyncs, m' \in MQTTAsyncs, Filed(m)', Moves(m, m')
    PROVE  Promise!Progress
<1> DEFINE next == [r \in Calls \ Publishes0 |-> Stage(m'.outcome[r])]
<1>1. \A r \in Promised : m'.outcome[r] \in Outcomes /\ m'.outcome[r] # "twice"
  BY DEF MQTTAsyncs, Filed, Promised
<1>2. next \in [Calls \ Publishes0 -> {"unmade", "pending", "ended"}]
  BY <1>1 DEF Stage, Promised
<1>3. ASSUME NEW r \in Promised
      PROVE  \/ Stage(m'.outcome[r]) = Stage(m.outcome[r])
             \/ Stage(m.outcome[r]) = "unmade" /\ Stage(m'.outcome[r]) = "pending"
             \/ Stage(m.outcome[r]) = "pending" /\ Stage(m'.outcome[r]) = "ended"
  BY <1>3 DEF Moves, Stage, Ended
<1>4. \A r \in Calls \ Publishes0 :
         Promise!May([x \in Calls \ Publishes0 |-> Stage(m.outcome[x])][r], next[r])
  BY <1>3 DEF Promised, Promise!May
<1> QED BY <1>2, <1>4 DEF Promise!Progress, Promise!Stages

\* A subscription, a QoS 1 publication or a disconnect is answered once at
\* most and never before it was made, whatever the threads, the broker and
\* the network do: the client implements AsyncCalls.
THEOREM AnsweredOnce == Spec => CalledOnce
<1> DEFINE Made == [r \in Calls \ Publishes0 |-> Stage(m.outcome[r])]
<1>1. Init => Held
  BY InitInv, InitCalls DEF Held
<1>2. Held /\ [Next]_vars => Held'
  BY NextInv, NextCalls DEF Held
<1>3. Init => Promise!Init
  BY DEF Init, Promise!Init, Stage
<1>4. Held /\ Held' /\ [Next]_vars => [Promise!Progress]_Made
  BY NextCalls, MovesPromised DEF Held, Inv, Sound, CallsInv
<1> QED BY <1>1, <1>2, <1>3, <1>4, PTL DEF Spec, CalledOnce, Promise!Spec
-----------------------------------------------------------------------------
(***************************************************************************)
(* The bookkeeping of QoS 1.  A pending publication is among the commands  *)
(* or the responses, and what is among the responses is in flight too: a   *)
(* PUBACK takes the message and the response of its id away together.      *)
(* That needs the ids of all that waits to be distinct, and they are if    *)
(* one thread alone asks for ids: MQTTAsync_assignMsgId looks at the two   *)
(* queues, and an id it has given out is in neither until addCommand.      *)
(***************************************************************************)

Waiting(s) == Range(s.commands) \cup Range(s.responses)

\* The pending publications that are in no queue.
Forgotten(s) == {r \in Publishes1 : s.outcome[r] = "pending" /\ r \notin Queued(s)}

\* No two requests wait under one id.
Numbered(s) == \A c, d \in Waiting(s) : c.token = d.token /\ c.token # 0 => c.call = d.call

\* A publication that waits for its PUBACK can be sent again.
Sent(s) == \A c \in Range(s.responses) : c.type = "PUBLISH1" => c.token \in TokensIn(s.outboundMsgs)

\* The id a thread has been given and not used yet is nobody else's.
Fresh == \A t \in Threads : app[t].token # 0 => \A c \in Waiting(m) : c.token # app[t].token

\* MQTTAsync.c reserves no id: only a single thread is sure of its own.
OneThread == \A t, u \in Threads : t = u

TokensInv == OneThread => Numbered(m) /\ Sent(m) /\ Fresh

\* From s to e no request of the application's is queued and none is lost.
Tracks(s, e) ==
    /\ \A c \in Waiting(e) : c.token # 0 => c \in Waiting(s)
    /\ Numbered(s) /\ Sent(s) => Sent(e)
    /\ Forgotten(e) \subseteq Forgotten(s)

-----------------------------------------------------------------------------
(* Queues and what is in them.                                             *)

LEMMA TracksAgain ==
    ASSUME NEW s, NEW e, NEW f, Tracks(s, e), Tracks(e, f)
    PROVE  Tracks(s, f)
<1>1. Numbered(s) => Numbered(e)
  BY DEF Tracks, Numbered
<1> QED BY <1>1 DEF Tracks

LEMMA TracksNothing == \A s : Tracks(s, s)
  BY DEF Tracks

\* The calls and the ids in a queue are those of the commands in it.
LEMMA RangeOf ==
    ASSUME NEW q
    PROVE  /\ \A r : r \in CallsIn(q) <=> \E c \in Range(q) : c.call = r
           /\ \A t : t \in TokensIn(q) <=> \E c \in Range(q) : c.token = t
  BY DEF CallsIn, TokensIn, Range

LEMMA RangeLonger ==
    ASSUME NEW T, NEW q \in Seq(T), NEW c \in T
    PROVE  /\ Range(Append(q, c)) = Range(q) \cup {c}
           /\ Range(<<c>> \o q) = Range(q) \cup {c}
<1>1. Len(q) \in Nat /\ DOMAIN q = 1..Len(q)
  BY LenProperties
<1>2. /\ DOMAIN Append(q, c) = 1..(Len(q) + 1)
      /\ \A i \in 1..Len(q) : Append(q, c)[i] = q[i]
      /\ Append(q, c)[Len(q) + 1] = c
  BY AppendProperties, LenProperties
<1>3. <<c>> \in Seq(T) /\ Range(<<c>>) = {c}
  <2>1. <<c>> \in Seq(T) /\ DOMAIN <<c>> = 1..1 /\ <<c>>[1] = c
    OBVIOUS
  <2> QED BY <2>1 DEF Range
<1>4. Range(<<c>> \o q) = Range(<<c>>) \cup Range(q)
  <2> DEFINE b == <<c>>
  <2>1. b \in Seq(T)
    BY <1>3
  <2> HIDE DEF b
  <2>2. Range(b \o q) = Range(b) \cup Range(q)
    BY <2>1, RangeConcatenation
  <2> QED BY <2>2 DEF b
<1> DEFINE a == Append(q, c)
           n == Len(q)
<1>5. /\ DOMAIN a = 1..(n + 1) /\ a[n + 1] = c /\ \A i \in 1..n : a[i] = q[i]
      /\ n \in Nat /\ DOMAIN q = 1..n
  BY <1>1, <1>2
<1> HIDE DEF a, n
<1>6. Range(a) = Range(q) \cup {c}
  <2>1. n + 1 \in DOMAIN a /\ \A i \in DOMAIN q : i \in DOMAIN a /\ a[i] = q[i]
    BY <1>5
  <2>2. \A i \in DOMAIN a : i = n + 1 \/ (i \in DOMAIN q /\ a[i] = q[i])
    BY <1>5
  <2> QED BY <1>5, <2>1, <2>2 DEF Range
<1> QED BY <1>3, <1>4, <1>6 DEF a

LEMMA RangeShorter ==
    ASSUME NEW T, NEW q \in Seq(T), q # <<>>
    PROVE  Range(q) = Range(Tail(q)) \cup {Head(q)}
<1> DEFINE p == Tail(q)
           n == Len(q)
<1>1. n \in Nat /\ n # 0 /\ DOMAIN q = 1..n /\ Head(q) = q[1]
  BY LenProperties, HeadTailProperties, EmptySeq
<1>2. p \in Seq(T) /\ Len(p) = n - 1 /\ \A j \in 1..Len(p) : p[j] = q[j + 1]
  BY HeadTailProperties
<1>3. DOMAIN p = 1..(n - 1)
  BY <1>2, LenProperties
<1> HIDE DEF p, n
<1>4. \A j \in DOMAIN p : j + 1 \in DOMAIN q /\ p[j] = q[j + 1]
  BY <1>1, <1>2, <1>3
<1>5. ASSUME NEW i \in DOMAIN q, i # 1 PROVE i - 1 \in DOMAIN p /\ p[i - 1] = q[i]
  <2>1. i - 1 \in 1..(n - 1) /\ (i - 1) + 1 = i
    BY <1>1, <1>5
  <2> QED BY <1>2, <1>3, <2>1
<1>6. 1 \in DOMAIN q
  BY <1>1
<1>7. \A j \in DOMAIN p : p[j] \in Range(q)
  BY <1>4 DEF Range
<1>8. \A i \in DOMAIN q : q[i] \in Range(p) \cup {Head(q)}
  BY <1>1, <1>5 DEF Range
<1>9. Head(q) \in Range(q)
  BY <1>1, <1>6 DEF Range
<1> QED BY <1>7, <1>8, <1>9 DEF Range, p

LEMMA RangeRemoved ==
    ASSUME NEW T, NEW q \in Seq(T), NEW i \in 1..Len(q)
    PROVE  Range(q) = Range(RemoveAt(q, i)) \cup {q[i]}
<1> DEFINE n == Len(q)
           a == SubSeq(q, 1, i - 1)
           b == SubSeq(q, i + 1, n)
<1>1. n \in Nat /\ i \in 1..n /\ DOMAIN q = 1..n
  BY LenProperties
<1>2. a \in Seq(T) /\ Len(a) = i - 1 /\ \A k \in 1..(i - 1) : a[k] = q[k]
  BY <1>1, SubSeqProperties
<1>3. b \in Seq(T) /\ Len(b) = n - i /\ \A k \in 1..(n - i) : b[k] = q[i + k]
  <2>1. i + 1 \in 1..(n + 1) /\ n \in ((i + 1) - 1)..n
    BY <1>1
  <2>2. b \in Seq(T) /\ Len(b) = n - (i + 1) + 1
        /\ \A k \in 1..(n - (i + 1) + 1) : b[k] = q[(i + 1) + k - 1]
    BY <2>1, SubSeqProperties
  <2>3. n - (i + 1) + 1 = n - i /\ \A k \in 1..(n - i) : (i + 1) + k - 1 = i + k
    BY <1>1
  <2> QED BY <2>2, <2>3
<1>4. RemoveAt(q, i) = a \o b
  BY DEF RemoveAt
<1> HIDE DEF n, a, b
<1>5. Range(a \o b) = Range(a) \cup Range(b)
  BY <1>2, <1>3, RangeConcatenation
<1>6. DOMAIN a = 1..(i - 1) /\ DOMAIN b = 1..(n - i)
  BY <1>2, <1>3, LenProperties
<1>7. \A k \in DOMAIN a : k \in DOMAIN q /\ a[k] = q[k]
  BY <1>1, <1>2, <1>6
<1>8. \A k \in DOMAIN b : i + k \in DOMAIN q /\ b[k] = q[i + k]
  BY <1>1, <1>3, <1>6
<1>9. ASSUME NEW j \in DOMAIN q
      PROVE  j = i \/ (j \in DOMAIN a /\ a[j] = q[j]) \/ (j - i \in DOMAIN b /\ b[j - i] = q[j])
  <2>1. CASE j < i
    BY <1>1, <1>2, <1>6, <2>1
  <2>2. CASE j > i
    <3>1. j - i \in 1..(n - i) /\ i + (j - i) = j
      BY <1>1, <2>2
    <3> QED BY <1>3, <1>6, <3>1
  <2>3. i \in Nat /\ j \in Nat
    BY <1>1
  <2> QED BY <2>1, <2>2, <2>3
<1>10. i \in DOMAIN q
  BY <1>1
<1>11. \A x \in Range(a) \cup Range(b) : x \in Range(q)
  BY <1>7, <1>8 DEF Range
<1>12. \A j \in DOMAIN q : q[j] \in Range(a) \cup Range(b) \cup {q[i]}
  BY <1>9 DEF Range
<1>13. \A x \in Range(q) : \E j \in DOMAIN q : x = q[j]
  BY DEF Range
<1>14. q[i] \in Range(q)
  BY <1>10 DEF Range
<1> QED BY <1>4, <1>5, <1>11, <1>12, <1>13, <1>14
-----------------------------------------------------------------------------
(* The operators on the structure, and what they keep track of.            *)

\* A change of other fields.
Alike(s, e) ==
    /\ e.commands = s.commands /\ e.responses = s.responses
    /\ e.outcome = s.outcome /\ e.outboundMsgs = s.outboundMsgs

LEMMA AlikeTracks ==
    ASSUME NEW s, NEW e, Alike(s, e)
    PROVE  Tracks(s, e)
  BY DEF Alike, Tracks, Waiting, Sent, Forgotten, Queued

\* A call that has ended is not pending, and one that was not is not now.
LEMMA EndedNotPending ==
    ASSUME NEW o, NEW how, how # "pending", NEW calls, NEW r \in Calls
    PROVE  /\ EndWith(o, how, calls)[r] = "pending" => o[r] = "pending"
           /\ r \in calls => EndWith(o, how, calls)[r] # "pending"
  BY DEF EndWith

\* A callback.
LEMMA AnswerTracks ==
    ASSUME NEW s \in MQTTAsyncs, NEW c, NEW how, how # "pending"
    PROVE  /\ Tracks(s, Answer(s, c, how))
           /\ c.call \notin Forgotten(Answer(s, c, how))
<1> DEFINE o == EndWith(s.outcome, how, {c.call})
           e == [s EXCEPT !.outcome = o]
<1>1. Answer(s, c, how) = e
  BY DEF Answer
<1>2. \A r \in Publishes1 : o[r] = "pending" => s.outcome[r] = "pending" /\ r # c.call
  BY EndedNotPending DEF Calls
<1> HIDE DEF o
<1>3. /\ e.commands = s.commands /\ e.responses = s.responses
      /\ e.outcome = o /\ e.outboundMsgs = s.outboundMsgs
  BY DEF MQTTAsyncs
<1> HIDE DEF e
<1>4. Forgotten(e) \subseteq Forgotten(s) /\ c.call \notin Forgotten(e)
  BY <1>2, <1>3 DEF Forgotten, Queued
<1>5. Waiting(e) = Waiting(s) /\ (Sent(s) => Sent(e))
  BY <1>3 DEF Waiting, Sent
<1> QED BY <1>1, <1>4, <1>5 DEF Tracks

\* MQTTAsync_removeResponsesAndCommands leaves nothing that waits.
LEMMA RemoveResponsesAndCommandsTracks ==
    ASSUME NEW s \in MQTTAsyncs
    PROVE  LET e == RemoveResponsesAndCommands(s)
           IN  Waiting(e) = {} /\ Sent(e) /\ Forgotten(e) \subseteq Forgotten(s)
<1> DEFINE S == CallsIn(s.responses) \cup CallsIn(s.commands)
           o == EndWith(s.outcome, "fail", S)
           e == [s EXCEPT !.responses = <<>>, !.commands = <<>>, !.outcome = o]
<1>1. RemoveResponsesAndCommands(s) = e
  BY DEF RemoveResponsesAndCommands, MQTTAsyncs
<1>2. \A r \in Publishes1 : o[r] = "pending" => s.outcome[r] = "pending" /\ r \notin S
  BY EndedNotPending DEF Calls
<1>3. S = Queued(s)
  BY DEF Queued
<1> HIDE DEF o, S
<1>4. e.commands = <<>> /\ e.responses = <<>> /\ e.outcome = o
  BY DEF MQTTAsyncs
<1> HIDE DEF e
<1>5. Range(<<>>) = {}
  BY DEF Range
<1>6. Waiting(e) = {} /\ Sent(e)
  BY <1>4, <1>5 DEF Waiting, Sent
<1>7. Forgotten(e) \subseteq Forgotten(s)
  BY <1>2, <1>3, <1>4 DEF Forgotten
<1> QED BY <1>1, <1>6, <1>7

\* MQTTAsync_cleanSession drops the messages in flight with the responses.
LEMMA CleanSessionTracks ==
    ASSUME NEW s \in MQTTAsyncs
    PROVE  Tracks(s, CleanSessionState(s))
<1> DEFINE e == [s EXCEPT !.outboundMsgs = <<>>, !.msgID = 0]
           f == RemoveResponsesAndCommands(e)
<1>1. e \in MQTTAsyncs
  BY Ids, Nothing DEF MQTTAsyncs
<1>2. e.commands = s.commands /\ e.responses = s.responses /\ e.outcome = s.outcome
  BY DEF MQTTAsyncs
<1>3. CleanSessionState(s) = f
  BY DEF CleanSessionState
<1> HIDE DEF e
<1>4. Forgotten(e) = Forgotten(s)
  BY <1>2 DEF Forgotten, Queued
<1>5. Waiting(f) = {} /\ Sent(f) /\ Forgotten(f) \subseteq Forgotten(e)
  BY <1>1, RemoveResponsesAndCommandsTracks
<1> HIDE DEF f
<1> QED BY <1>3, <1>4, <1>5 DEF Tracks

\* MQTTAsync_closeOnly and closeSession.
LEMMA CloseTracks ==
    ASSUME NEW s, Sound(s)
    PROVE  Tracks(s, CloseOnly(s)) /\ Tracks(s, CloseSession(s))
<1> DEFINE e == CloseOnly(s)
<1>1. s \in MQTTAsyncs /\ e \in MQTTAsyncs
  BY CloseOnlySound DEF Sound
<1>2. Alike(s, e)
  BY <1>1 DEF MQTTAsyncs, Alike, CloseOnly
<1>3. CloseSession(s) \in {e, CleanSessionState(e)}
  BY DEF CloseSession
<1> HIDE DEF e
<1>4. Tracks(s, e) /\ Tracks(e, CleanSessionState(e))
  BY <1>1, <1>2, AlikeTracks, CleanSessionTracks
<1> QED BY <1>3, <1>4, TracksAgain DEF e

\* MQTTAsync_addCommand, of a command that has no id.
LEMMA AddCommandTracks ==
    ASSUME NEW s \in MQTTAsyncs, NEW c \in Commands
    PROVE  /\ \A x \in Waiting(AddCommand(s, c)) : x = c \/ x \in Waiting(s)
           /\ Sent(s) => Sent(AddCommand(s, c))
           /\ Forgotten(AddCommand(s, c)) \subseteq Forgotten(s)
           /\ c.token = 0 => Tracks(s, AddCommand(s, c))
<1>1. s.commands \in Seq(Commands)
  BY DEF MQTTAsyncs
<1> DEFINE a == Append(s.commands, c)
           b == <<c>> \o s.commands
<1>2. AddCommand(s, c) \in {s, [s EXCEPT !.commands = a], [s EXCEPT !.commands = b]}
  BY DEF AddCommand, MQTTAsyncs
<1>3. Range(a) = Range(s.commands) \cup {c} /\ Range(b) = Range(s.commands) \cup {c}
  BY <1>1, RangeLonger
<1> HIDE DEF a, b
<1> DEFINE Longer(e) == /\ \A x \in Waiting(e) : x = c \/ x \in Waiting(s)
                        /\ Sent(s) => Sent(e)
                        /\ Forgotten(e) \subseteq Forgotten(s)
<1>4. ASSUME NEW q, Range(q) = Range(s.commands) \cup {c}
      PROVE  Longer([s EXCEPT !.commands = q])
  <2> DEFINE e == [s EXCEPT !.commands = q]
  <2>1. /\ e.commands = q /\ e.responses = s.responses
        /\ e.outcome = s.outcome /\ e.outboundMsgs = s.outboundMsgs
    BY DEF MQTTAsyncs
  <2> HIDE DEF e
  <2>2. \A r \in Queued(s) : r \in Queued(e)
    BY <1>4, <2>1, RangeOf DEF Queued
  <2>3. Forgotten(e) \subseteq Forgotten(s)
    BY <2>1, <2>2 DEF Forgotten
  <2>4. \A x \in Waiting(e) : x = c \/ x \in Waiting(s)
    BY <1>4, <2>1 DEF Waiting
  <2>5. Sent(s) => Sent(e)
    BY <2>1 DEF Sent
  <2> QED BY <2>3, <2>4, <2>5 DEF e
<1>5. Longer(s)
  OBVIOUS
<1>6. Longer(AddCommand(s, c))
  BY <1>2, <1>3, <1>4, <1>5
<1> QED BY <1>6 DEF Tracks

\* The client's own commands have no id.
LEMMA OwnHaveNoId ==
    /\ INTERNAL \in Commands /\ INTERNAL.token = 0
    /\ \A c \in Attempts : c \in Commands /\ c.token = 0
  BY AttemptIsCommand DEF INTERNAL, Command, Attempts

LEMMA DisconnectInternalTracks ==
    ASSUME NEW s \in MQTTAsyncs
    PROVE  Tracks(s, DisconnectInternal(s))
  BY AddCommandTracks, OwnHaveNoId, TracksNothing DEF DisconnectInternal

LEMMA StartConnectRetryTracks ==
    ASSUME NEW s \in MQTTAsyncs
    PROVE  Tracks(s, StartConnectRetry(s))
<1> DEFINE e == [s EXCEPT !.retrying = 1]
<1>1. Alike(s, e)
  BY DEF MQTTAsyncs, Alike
<1>2. StartConnectRetry(s) \in {s, e}
  BY DEF StartConnectRetry
<1> HIDE DEF e
<1> QED BY <1>1, <1>2, AlikeTracks, TracksNothing

LEMMA NextOrCloseTracks ==
    ASSUME NEW s, Sound(s), s.connect # NoCommand
    PROVE  Tracks(s, NextOrClose(s))
<1> DEFINE e == CloseOnly(s)
           f == CloseSession(s)
           a == NextAttempt(s.connect)
<1>1. s.connect \in Attempts
  BY DEF Sound, MQTTAsyncs
<1>2. e \in MQTTAsyncs /\ Tracks(s, e) /\ f \in MQTTAsyncs /\ Tracks(s, f)
  BY CloseOnlySound, CloseSessionSound, CloseTracks DEF Sound
<1>3. CheckConn(s.connect) => a \in Attempts
  BY <1>1, NextAttemptTyped
<1>4. NextOrClose(s) = IF CheckConn(s.connect) THEN AddCommand(e, a) ELSE StartConnectRetry(f)
  BY DEF NextOrClose
<1> HIDE DEF e, f, a
<1>5. CheckConn(s.connect) => Tracks(e, AddCommand(e, a))
  BY <1>2, <1>3, AddCommandTracks, OwnHaveNoId
<1>6. Tracks(f, StartConnectRetry(f))
  BY <1>2, StartConnectRetryTracks
<1> QED BY <1>2, <1>4, <1>5, <1>6, TracksAgain

LEMMA CheckDisconnectTracks ==
    ASSUME NEW s, Sound(s), NEW c, NEW elapsed
    PROVE  Tracks(s, CheckDisconnect(s, c, elapsed))
<1> DEFINE f == CloseSession(s)
<1>1. f \in MQTTAsyncs /\ Tracks(s, f)
  BY CloseSessionSound, CloseTracks DEF Sound
<1>2. CheckDisconnect(s, c, elapsed) \in {s, StartConnectRetry(f), Answer(f, c, "ok")}
  BY DEF CheckDisconnect
<1> HIDE DEF f
<1>3. Tracks(f, StartConnectRetry(f)) /\ Tracks(f, Answer(f, c, "ok"))
  BY <1>1, StartConnectRetryTracks, AnswerTracks
<1> QED BY <1>1, <1>2, <1>3, TracksNothing, TracksAgain

LEMMA WriteTracks ==
    ASSUME NEW s \in MQTTAsyncs, NEW how, NEW reply
    PROVE  Alike(s, Write(s, how, reply))
<1> DEFINE d == [s EXCEPT !.unsent = <<reply>>]
           e == [s EXCEPT !.inbox = Append(s.inbox, reply)]
<1>1. Alike(s, d) /\ Alike(s, e) /\ Alike(s, s)
  BY DEF MQTTAsyncs, Alike
<1>2. Write(s, how, reply) \in {s, d, e}
  BY DEF Write, MQTTAsyncs
<1> HIDE DEF d, e
<1> QED BY <1>1, <1>2

\* The command joins the responses: the call in hand is not forgotten.
LEMMA AppendResponseTracks ==
    ASSUME NEW s \in MQTTAsyncs, NEW c \in Requests
    PROVE  LET e == [s EXCEPT !.responses = Append(@, c)]
           IN  /\ Waiting(e) = Waiting(s) \cup {c}
               /\ Forgotten(e) \subseteq Forgotten(s) \ {c.call}
               /\ Sent(s) /\ (c.type = "PUBLISH1" => c.token \in TokensIn(s.outboundMsgs)) => Sent(e)
<1> DEFINE q == Append(s.responses, c)
           e == [s EXCEPT !.responses = q]
<1>1. s.responses \in Seq(Requests)
  BY DEF MQTTAsyncs
<1>2. Range(q) = Range(s.responses) \cup {c}
  <2> DEFINE p == s.responses
  <2>1. p \in Seq(Requests)
    BY <1>1
  <2> HIDE DEF p
  <2>2. Range(Append(p, c)) = Range(p) \cup {c} /\ Range(<<c>> \o p) = Range(p) \cup {c}
    BY <2>1, RangeLonger
  <2> QED BY <2>2 DEF p
<1>3. [s EXCEPT !.responses = Append(@, c)] = e
  BY DEF MQTTAsyncs
<1> HIDE DEF q
<1>4. /\ e.commands = s.commands /\ e.responses = q
      /\ e.outcome = s.outcome /\ e.outboundMsgs = s.outboundMsgs
  BY DEF MQTTAsyncs
<1> HIDE DEF e
<1>5. \A r : r \in Queued(s) \cup {c.call} => r \in Queued(e)
  BY <1>2, <1>4, RangeOf DEF Queued
<1>6. Forgotten(e) \subseteq Forgotten(s) \ {c.call}
  BY <1>4, <1>5 DEF Forgotten
<1>7. Waiting(e) = Waiting(s) \cup {c}
  BY <1>2, <1>4 DEF Waiting
<1>8. Sent(s) /\ (c.type = "PUBLISH1" => c.token \in TokensIn(s.outboundMsgs)) => Sent(e)
  BY <1>2, <1>4 DEF Sent
<1> QED BY <1>3, <1>6, <1>7, <1>8

\* The first element with a token, as the client looks for it.
FirstWith(q, t) == SelectInSeq(q, LAMBDA x : x.token = t)

LEMMA FirstWithToken ==
    ASSUME NEW S, NEW q \in Seq(S), NEW t
    PROVE  /\ FirstWith(q, t) # 0 => FirstWith(q, t) \in 1..Len(q) /\ q[FirstWith(q, t)].token = t
           /\ FirstWith(q, t) = 0 => \A c \in Range(q) : c.token # t
<1> DEFINE I == {j \in 1..Len(q) : q[j].token = t}
           i == IF I # {} THEN Min(I) ELSE 0
<1>1. I \in SUBSET Nat /\ 0 \notin I
  OBVIOUS
<1>2. I # {} => Min(I) \in I
  BY <1>1, Least DEF Min
<1>3. i # 0 => i \in I
  BY <1>2
<1>4. i = 0 => I = {}
  BY <1>1, <1>2
<1>5. DOMAIN q = 1..Len(q)
  BY LenProperties
<1>6. I = {} => \A c \in Range(q) : c.token # t
  BY <1>5 DEF Range
<1>7. \A k \in I : k \in 1..Len(q) /\ q[k].token = t
  OBVIOUS
<1>8. FirstWith(q, t) = i
  BY DEF FirstWith, SelectInSeq
<1> HIDE DEF I, i
<1> QED BY <1>3, <1>4, <1>6, <1>7, <1>8

\* The answer to a request takes away the response of its id.
LEMMA FinishResponseTracks ==
    ASSUME NEW s, Sound(s), NEW p \in Packets, p.type \in {"SUBACK", "PUBACK"}
    PROVE  LET e == FinishResponse(s, p)
           IN  /\ Waiting(e) \subseteq Waiting(s)
               /\ Range(e.responses) \subseteq Range(s.responses)
               /\ e.outboundMsgs = s.outboundMsgs
               /\ Forgotten(e) \subseteq Forgotten(s)
               /\ Numbered(s) /\ Filed(s) /\ p.token # 0 =>
                     \A c \in Range(e.responses) : c.type = "PUBLISH1" => c.token # p.token
<1> DEFINE i == ResponseTo(s, p.token)
           c == s.responses[i]
           how == IF c.call = p.call THEN p.val ELSE "mistaken"
           q == RemoveAt(s.responses, i)
           o == EndWith(s.outcome, how, {c.call})
           e == [s EXCEPT !.outcome = o, !.responses = q]
<1>1. s \in MQTTAsyncs /\ s.responses \in Seq(Requests)
  BY DEF Sound, MQTTAsyncs
<1>2. /\ i # 0 => i \in 1..Len(s.responses) /\ c.token = p.token
      /\ i = 0 => \A x \in Range(s.responses) : x.token # p.token
  BY <1>1, FirstWithToken DEF ResponseTo, FirstWith
<1>3. how # "pending"
  BY PacketValue
<1>4. FinishResponse(s, p) = IF i = 0 THEN s ELSE e
  BY <1>1 DEF FinishResponse, Answer, MQTTAsyncs
<1> HIDE DEF i, how
<1>5. CASE i = 0
  BY <1>2, <1>4, <1>5
<1>6. CASE i # 0
  <2>1. Range(s.responses) = Range(q) \cup {c}
    BY <1>1, <1>2, <1>6, RangeRemoved
  <2>2. Filed(s) /\ c.call \in Promised => c.call \notin CallsIn(q)
    BY <1>1, <1>2, <1>6, CallsRemoved DEF Filed
  <2>3. \A r \in Publishes1 : o[r] = "pending" => s.outcome[r] = "pending" /\ r # c.call
    BY <1>3, EndedNotPending DEF Calls
  <2> HIDE DEF o, q, c
  <2>4. /\ e.commands = s.commands /\ e.responses = q
        /\ e.outcome = o /\ e.outboundMsgs = s.outboundMsgs
    BY <1>1 DEF MQTTAsyncs
  <2> HIDE DEF e
  <2>5. \A r : r \in Queued(s) => r \in Queued(e) \/ r = c.call
    BY <2>1, <2>4, RangeOf DEF Queued
  <2>6. Forgotten(e) \subseteq Forgotten(s)
    BY <2>3, <2>4, <2>5 DEF Forgotten
  <2>7. Waiting(e) \subseteq Waiting(s) /\ Range(q) \subseteq Range(s.responses)
    BY <2>1, <2>4 DEF Waiting
  <2>8. ASSUME Numbered(s), Filed(s), p.token # 0, NEW x \in Range(q), x.type = "PUBLISH1"
        PROVE  x.token # p.token
    <3>1. x \in Waiting(s) /\ c \in Waiting(s)
      BY <2>1 DEF Waiting
    <3>2. x.token = p.token => x.call = c.call
      BY <1>2, <1>6, <2>8, <3>1 DEF Numbered, c
    <3>3. x.call \in Promised
      <4>1. x \in Requests
        BY <1>1, <2>1, RangeOfSeq
      <4> QED BY <2>8, <4>1, RequestFields DEF Promised, Calls
    <3>4. x.call \in CallsIn(q)
      BY RangeOf
    <3> QED BY <2>2, <2>8, <3>2, <3>3, <3>4
  <2> QED BY <1>4, <1>6, <2>4, <2>6, <2>7, <2>8
<1> QED BY <1>5, <1>6

\* Only messages of its id leave the messages in flight.
LEMMA RemoveMessageTracks ==
    ASSUME NEW s, Sound(s), NEW t
    PROVE  LET e == RemoveMessage(s, t)
           IN  /\ e.commands = s.commands /\ e.responses = s.responses /\ e.outcome = s.outcome
               /\ \A x \in TokensIn(s.outboundMsgs) : x = t \/ x \in TokensIn(e.outboundMsgs)
<1> DEFINE i == FirstWith(s.outboundMsgs, t)
           q == RemoveAt(s.outboundMsgs, i)
           e == [s EXCEPT !.outboundMsgs = q]
<1>1. s \in MQTTAsyncs /\ s.outboundMsgs \in Seq(Messages)
  BY DEF Sound, MQTTAsyncs
<1>2. i # 0 => i \in 1..Len(s.outboundMsgs) /\ s.outboundMsgs[i].token = t
  BY <1>1, FirstWithToken
<1>3. RemoveMessage(s, t) = IF i = 0 THEN s ELSE e
  BY <1>1 DEF RemoveMessage, FirstWith, MQTTAsyncs
<1> HIDE DEF i
<1>4. i # 0 => Range(s.outboundMsgs) = Range(q) \cup {s.outboundMsgs[i]}
  BY <1>1, <1>2, RangeRemoved
<1> HIDE DEF q
<1>5. /\ e.commands = s.commands /\ e.responses = s.responses /\ e.outcome = s.outcome
      /\ e.outboundMsgs = q
  BY <1>1 DEF MQTTAsyncs
<1> HIDE DEF e
<1>6. i # 0 => \A x \in TokensIn(s.outboundMsgs) : x = t \/ x \in TokensIn(q)
  BY <1>2, <1>4, RangeOf
<1> QED BY <1>3, <1>5, <1>6

\* A PUBACK: the message and the response go together.
LEMMA AcknowledgedTracks ==
    ASSUME NEW s, Sound(s), Filed(s), NEW p \in Packets, p.type = "PUBACK"
    PROVE  Tracks(s, FinishResponse(RemoveMessage(s, p.token), p))
<1> DEFINE r == RemoveMessage(s, p.token)
           e == FinishResponse(r, p)
<1>1. s \in MQTTAsyncs
  BY DEF Sound
<1>2. Sound(r) /\ Filed(r)
  BY <1>1, RemoveMessageSound, RemoveMessageSpares DEF Spares, Settles
<1>3. /\ r.commands = s.commands /\ r.responses = s.responses /\ r.outcome = s.outcome
      /\ \A x \in TokensIn(s.outboundMsgs) : x = p.token \/ x \in TokensIn(r.outboundMsgs)
  BY RemoveMessageTracks
<1>4. p.token # 0
  BY Ids DEF Packets, Packet, NoPacket, SocketError, CONNACK
<1> HIDE DEF r
<1>5. /\ Waiting(e) \subseteq Waiting(r)
      /\ Range(e.responses) \subseteq Range(r.responses)
      /\ e.outboundMsgs = r.outboundMsgs
      /\ Forgotten(e) \subseteq Forgotten(r)
      /\ Numbered(r) => \A c \in Range(e.responses) : c.type = "PUBLISH1" => c.token # p.token
  BY <1>2, <1>4, FinishResponseTracks
<1> HIDE DEF e
<1>6. Waiting(r) = Waiting(s) /\ Forgotten(r) = Forgotten(s) /\ (Numbered(s) => Numbered(r))
  BY <1>3 DEF Waiting, Forgotten, Queued, Numbered
<1>7. ASSUME Numbered(s), Sent(s) PROVE Sent(e)
  BY <1>3, <1>5, <1>6, <1>7 DEF Sent
<1> QED BY <1>5, <1>6, <1>7 DEF Tracks, r, e

\* MQTTAsync_writeComplete: the call it takes the response of has ended.
LEMMA WriteCompleteTracks ==
    ASSUME NEW s \in MQTTAsyncs, NEW how, how # "pending", NEW read
    PROVE  Tracks(s, WriteComplete(s, how, read))
<1> DEFINE h == Head(s.responses)
           x == EndWith(s.outcome, how, IF read THEN {s.pending_write} ELSE {})
           o == EndWith(x, "lost", {h.call})
           q == Tail(s.responses)
           d == [s EXCEPT !.pending_write = 0]
           e == [s EXCEPT !.pending_write = 0, !.responses = q, !.outcome = o]
<1>1. s.responses \in Seq(Requests)
  BY DEF MQTTAsyncs
<1>2. WriteComplete(s, how, read) = IF s.pending_write = 0 THEN s
                                    ELSE IF s.responses = <<>> THEN d ELSE e
  BY DEF WriteComplete, MQTTAsyncs
<1>3. Alike(s, d)
  BY DEF Alike, MQTTAsyncs
<1> HIDE DEF d
<1>4. CASE s.responses # <<>>
  <2>1. Range(s.responses) = Range(q) \cup {h}
    BY <1>1, <1>4, RangeShorter
  <2>2. \A r \in Publishes1 : x[r] = "pending" => s.outcome[r] = "pending"
    BY EndedNotPending DEF Calls
  <2> HIDE DEF x
  <2>3. \A r \in Publishes1 : o[r] = "pending" => x[r] = "pending" /\ r # h.call
    BY EndedNotPending DEF Calls
  <2> HIDE DEF o, q, h
  <2>4. /\ e.commands = s.commands /\ e.responses = q
        /\ e.outcome = o /\ e.outboundMsgs = s.outboundMsgs
    BY DEF MQTTAsyncs
  <2> HIDE DEF e
  <2>5. \A r : r \in Queued(s) => r \in Queued(e) \/ r = h.call
    BY <2>1, <2>4, RangeOf DEF Queued
  <2>6. Forgotten(e) \subseteq Forgotten(s)
    BY <2>2, <2>3, <2>4, <2>5 DEF Forgotten
  <2>7. Waiting(e) \subseteq Waiting(s) /\ (Sent(s) => Sent(e))
    BY <2>1, <2>4 DEF Waiting, Sent
  <2>8. Tracks(s, e)
    BY <2>6, <2>7 DEF Tracks
  <2> QED BY <1>2, <1>3, <1>4, <2>8, AlikeTracks, TracksNothing
<1> QED BY <1>2, <1>3, <1>4, AlikeTracks, TracksNothing

\* MQTTAsync_completeConnection and MQTTProtocol_retries.
LEMMA CompleteConnectionTracks ==
    ASSUME NEW s \in MQTTAsyncs, NEW p
    PROVE  Tracks(s, CompleteConnection(s, p))
<1> DEFINE e == [s EXCEPT !.retrying = 0, !.connected = 1, !.connect_state = "NOT_IN_PROGRESS"]
<1>1. e \in MQTTAsyncs
  BY DEF MQTTAsyncs, ConnectStates
<1>2. Alike(s, e)
  BY DEF MQTTAsyncs, Alike
<1>3. CompleteConnection(s, p) \in {CleanSessionState(e), e}
  BY DEF CompleteConnection
<1> HIDE DEF e
<1>4. Tracks(s, e) /\ Tracks(e, CleanSessionState(e))
  BY <1>1, <1>2, AlikeTracks, CleanSessionTracks
<1> QED BY <1>3, <1>4, TracksAgain

LEMMA ResendTracks ==
    ASSUME NEW s, Sound(s), NEW n \in 0..Len(s.outboundMsgs), NEW how
    PROVE  Tracks(s, Resend(s, n, how))
<1> DEFINE acks == [i \in 1..n |-> PUBACK(s.outboundMsgs[i])]
           q == s.inbox \o (IF s.link = "open" THEN acks ELSE <<>>)
           e == [s EXCEPT !.inbox = q]
           d == [e EXCEPT !.unsent = <<PUBACK(s.outboundMsgs[n + 1])>>]
<1>1. s \in MQTTAsyncs /\ s.outboundMsgs \in Seq(Messages) /\ s.inbox \in Seq(Packets)
  BY DEF Sound, MQTTAsyncs
<1>2. n \in Nat /\ \A i \in 1..n : PUBACK(s.outboundMsgs[i]) \in Packets
  BY <1>1, PacketTyped, ElementOfSeq, LenProperties
<1>3. acks \in Seq(Packets)
  BY <1>2
<1> HIDE DEF acks
<1>4. q \in Seq(Packets)
  BY <1>1, <1>3, Nothing, ConcatProperties
<1>5. Resend(s, n, how) \in {e, d, DisconnectInternal(e)}
  <2>1. [s EXCEPT !.inbox = @ \o IF s.link = "open" THEN acks ELSE <<>>] = e
    BY <1>1 DEF MQTTAsyncs
  <2> QED BY <2>1 DEF Resend, acks
<1> HIDE DEF q
<1>6. e \in MQTTAsyncs
  BY <1>1, <1>4 DEF MQTTAsyncs
<1>7. Alike(s, e) /\ Alike(s, d)
  BY <1>1 DEF MQTTAsyncs, Alike
<1> HIDE DEF e, d
<1>8. Tracks(s, e) /\ Tracks(s, d) /\ Tracks(e, DisconnectInternal(e))
  BY <1>6, <1>7, AlikeTracks, DisconnectInternalTracks
<1> QED BY <1>5, <1>8, TracksAgain
-----------------------------------------------------------------------------
(* The actions.                                                            *)

\* processCommand takes a command off the queue, and if it is a publication
\* of QoS 1 it has it in hand.
LEMMA DetachedTracks ==
    ASSUME Held, NEW c, First(c)
    PROVE  /\ c \in Waiting(m) /\ Waiting(Detached) \subseteq Waiting(m)
           /\ Sent(m) => Sent(Detached)
           /\ Forgotten(Detached) \subseteq Forgotten(m) \cup {c.call}
           /\ c.call \notin Publishes1 => Tracks(m, Detached)
<1> DEFINE q == Tail(m.commands)
           e == [m EXCEPT !.commands = q]
<1>1. m \in MQTTAsyncs /\ m.commands \in Seq(Commands) /\ m.commands # <<>> /\ c = Head(m.commands)
  BY Standing DEF First
<1>2. Range(m.commands) = Range(q) \cup {c}
  BY <1>1, RangeShorter
<1>3. Detached = e
  BY <1>1 DEF Detached, MQTTAsyncs
<1> HIDE DEF q
<1>4. /\ e.commands = q /\ e.responses = m.responses
      /\ e.outcome = m.outcome /\ e.outboundMsgs = m.outboundMsgs
  BY <1>1 DEF MQTTAsyncs
<1> HIDE DEF e
<1>5. \A r : r \in Queued(m) => r \in Queued(e) \/ r = c.call
  BY <1>2, <1>4, RangeOf DEF Queued
<1>6. Forgotten(e) \subseteq Forgotten(m) \cup {c.call}
  BY <1>4, <1>5 DEF Forgotten
<1>7. c \in Waiting(m) /\ Waiting(e) \subseteq Waiting(m) /\ (Sent(m) => Sent(e))
  BY <1>2, <1>4 DEF Waiting, Sent
<1>8. c.call \notin Publishes1 => Forgotten(e) \subseteq Forgotten(m)
  BY <1>6 DEF Forgotten
<1> QED BY <1>3, <1>6, <1>7, <1>8 DEF Tracks

LEMMA ProcessConnectTracks ==
    ASSUME Held, NEW c, First(c), ProcessBusyConnect(c) \/ ProcessConnect(c) \/ ProcessConnectFails(c)
    PROVE  Tracks(m, m')
<1> DEFINE d == Detached
           a == [c EXCEPT !.ver = AttemptVersion(c)]
<1>1. c \in Attempts /\ a \in Attempts
  BY DetachedSound, CommandKinds, AttemptTyped DEF ProcessBusyConnect, ProcessConnect, ProcessConnectFails, Held
<1>2. Sound(d) /\ d \in MQTTAsyncs
  BY DetachedSound DEF Held, Sound
<1>3. c.call \notin Publishes1
  BY <1>1, OwnCommands, CallsArePositive DEF Calls
<1>4. Tracks(m, d)
  BY <1>3, DetachedTracks
<1>5. CASE ProcessBusyConnect(c)
  <2> DEFINE e == [d EXCEPT !.connect = c]
  <2>1. m' = e
    BY <1>5 DEF ProcessBusyConnect
  <2> HIDE DEF d
  <2>2. Alike(d, e)
    BY <1>2 DEF MQTTAsyncs, Alike
  <2> HIDE DEF e
  <2> QED BY <1>4, <2>1, <2>2, AlikeTracks, TracksAgain
<1>6. CASE ProcessConnect(c)
  <2>1. \/ m' = [[d EXCEPT !.connect = a, !.unsent = <<>>] EXCEPT
                    !.link = "connecting", !.inbox = <<>>, !.connect_state = "TCP_IN_PROGRESS"]
        \/ \E val : m' = [[d EXCEPT !.connect = a, !.unsent = <<>>] EXCEPT
                    !.link = "open", !.inbox = <<CONNACK(val)>>, !.connect_state = "WAIT_FOR_CONNACK"]
    BY <1>6 DEF ProcessConnect
  <2> HIDE DEF d, a
  <2> DEFINE e == [d EXCEPT !.connect = a, !.unsent = <<>>]
  <2>2. e \in MQTTAsyncs /\ Alike(d, e)
    BY <1>1, <1>2, Nothing DEF MQTTAsyncs, Alike
  <2> HIDE DEF e
  <2>3. Alike(e, [e EXCEPT !.link = "connecting", !.inbox = <<>>, !.connect_state = "TCP_IN_PROGRESS"])
    BY <2>2 DEF MQTTAsyncs, Alike
  <2>4. \A p : Alike(e, [e EXCEPT !.link = "open", !.inbox = <<p>>, !.connect_state = "WAIT_FOR_CONNACK"])
    BY <2>2 DEF MQTTAsyncs, Alike
  <2>5. Alike(e, m')
    BY <2>1, <2>3, <2>4 DEF e
  <2> QED BY <1>4, <2>2, <2>5, AlikeTracks, TracksAgain
<1>7. CASE ProcessConnectFails(c)
  <2>1. PICK left \in {"none", "broken"} :
          m' = IF CheckConn(a) THEN AddCommand(Failed(d, left), NextAttempt(a))
               ELSE StartConnectRetry([Failed(d, left) EXCEPT !.connect = a])
    BY <1>7 DEF ProcessConnectFails, Failed
  <2> DEFINE e == Failed(d, left)
             f == [e EXCEPT !.connect = a]
             n == NextAttempt(a)
  <2> HIDE DEF a, d
  <2>2. e \in MQTTAsyncs
    BY <1>2, FailedTyped
  <2>3. Alike(d, e)
    BY <1>2 DEF MQTTAsyncs, Alike, Failed
  <2> HIDE DEF e
  <2>4. f \in MQTTAsyncs /\ Alike(e, f)
    BY <1>1, <2>2 DEF MQTTAsyncs, Alike
  <2> HIDE DEF f
  <2>5. m' = IF CheckConn(a) THEN AddCommand(e, n) ELSE StartConnectRetry(f)
    BY <2>1 DEF e, f
  <2>6. CheckConn(a) => n \in Attempts
    BY <1>1, NextAttemptTyped
  <2> HIDE DEF n
  <2>7. CheckConn(a) => Tracks(e, AddCommand(e, n))
    BY <2>2, <2>6, AddCommandTracks, OwnHaveNoId
  <2>8. Tracks(f, StartConnectRetry(f))
    BY <2>4, StartConnectRetryTracks
  <2> QED BY <1>4, <2>3, <2>4, <2>5, <2>7, <2>8, AlikeTracks, TracksAgain
<1> QED BY <1>5, <1>6, <1>7

\* A publication enters outboundMsgs before its response is appended.
LEMMA ProcessAcknowledgedTracks ==
    ASSUME Held, NEW c, First(c), ProcessAcknowledged(c)
    PROVE  Tracks(m, m')
<1> DEFINE d == Detached
           msgs == Append(d.outboundMsgs, Message(c))
           y == [d EXCEPT !.outboundMsgs = msgs]
           s == IF c.type = "SUBSCRIBE" THEN d ELSE y
           reply(val) == IF c.type = "SUBSCRIBE" THEN SUBACK(c, val) ELSE PUBACK(c)
<1>1. c \in Requests /\ c.type \in {"SUBSCRIBE", "PUBLISH1"}
  BY ReadyConnected DEF ProcessAcknowledged, Held
<1>2. /\ d \in MQTTAsyncs /\ c \in Waiting(m) /\ Waiting(d) \subseteq Waiting(m)
      /\ Sent(m) => Sent(d)
      /\ Forgotten(d) \subseteq Forgotten(m) \cup {c.call}
  BY DetachedSound, DetachedTracks DEF Held, Sound
<1>3. PICK how \in Writes(m), val \in {"ok", "fail"} :
        m' = IF how = "error" THEN Answer(DisconnectInternal(s), c, "fail")
             ELSE [Write(s, how, reply(val)) EXCEPT !.responses = Append(@, c)]
  BY <1>2 DEF ProcessAcknowledged, MQTTAsyncs
<1> HIDE DEF d
<1>4. c.type = "PUBLISH1" => msgs \in Seq(Messages) /\ TokensIn(msgs) = TokensIn(d.outboundMsgs) \cup {c.token}
  <2> SUFFICES ASSUME c.type = "PUBLISH1"
               PROVE  msgs \in Seq(Messages) /\ TokensIn(msgs) = TokensIn(d.outboundMsgs) \cup {c.token}
    OBVIOUS
  <2> DEFINE p == d.outboundMsgs
             x == Message(c)
  <2>1. p \in Seq(Messages) /\ x \in Messages /\ x.token = c.token
    BY <1>1, <1>2, PacketTyped DEF MQTTAsyncs, Message
  <2> HIDE DEF p, x
  <2>2. Append(p, x) \in Seq(Messages)
    BY <2>1, AppendProperties
  <2>3. Range(Append(p, x)) = Range(p) \cup {x} /\ Range(<<x>> \o p) = Range(p) \cup {x}
    BY <2>1, RangeLonger
  <2>4. \A t : t \in TokensIn(Append(p, x)) <=> t \in TokensIn(p) \cup {c.token}
    BY <2>1, <2>3, RangeOf
  <2> QED BY <2>2, <2>4 DEF p, x
<1> HIDE DEF msgs
<1>5. c.type = "PUBLISH1" => y \in MQTTAsyncs
  BY <1>2, <1>4 DEF MQTTAsyncs
<1>6. /\ y.commands = d.commands /\ y.responses = d.responses /\ y.outcome = d.outcome
      /\ y.outboundMsgs = msgs
  BY <1>2 DEF MQTTAsyncs
<1> HIDE DEF y
<1>7. /\ s \in MQTTAsyncs /\ Waiting(s) = Waiting(d) /\ Forgotten(s) = Forgotten(d)
      /\ Sent(d) => Sent(s)
      /\ c.type = "PUBLISH1" => c.token \in TokensIn(s.outboundMsgs)
  BY <1>1, <1>2, <1>4, <1>5, <1>6 DEF Waiting, Forgotten, Queued, Sent
<1> HIDE DEF s
<1>8. reply(val) \in Packets
  BY <1>1, <1>3, PacketTyped
<1> HIDE DEF reply
<1>9. CASE how = "error"
  <2> DEFINE a == DisconnectInternal(s)
             e == Answer(a, c, "fail")
  <2>1. a \in MQTTAsyncs
    BY <1>7, AddCommandTyped, AttemptIsCommand DEF DisconnectInternal
  <2>2. Tracks(s, a)
    BY <1>7, DisconnectInternalTracks
  <2> HIDE DEF a
  <2>3. Tracks(a, e) /\ c.call \notin Forgotten(e)
    BY <2>1, AnswerTracks
  <2>4. m' = e
    BY <1>3, <1>9 DEF a
  <2> HIDE DEF e
  <2>5. Tracks(s, e)
    BY <2>2, <2>3, TracksAgain
  <2>6. Numbered(m) => Numbered(s)
    BY <1>2, <1>7 DEF Numbered
  <2>7. Numbered(m) /\ Sent(m) => Sent(e)
    BY <1>2, <1>7, <2>5, <2>6 DEF Tracks
  <2>8. Forgotten(e) \subseteq Forgotten(m)
    BY <1>2, <1>7, <2>3, <2>5 DEF Tracks
  <2>9. \A x \in Waiting(e) : x.token # 0 => x \in Waiting(m)
    BY <1>2, <1>7, <2>5 DEF Tracks
  <2> QED BY <2>4, <2>7, <2>8, <2>9 DEF Tracks
<1>10. CASE how # "error"
  <2> DEFINE w == Write(s, how, reply(val))
             e == [w EXCEPT !.responses = Append(@, c)]
  <2>1. w \in MQTTAsyncs /\ Alike(s, w)
    BY <1>7, <1>8, WriteTyped, WriteTracks
  <2> HIDE DEF w
  <2>2. /\ Waiting(e) = Waiting(w) \cup {c}
        /\ Forgotten(e) \subseteq Forgotten(w) \ {c.call}
        /\ Sent(w) /\ (c.type = "PUBLISH1" => c.token \in TokensIn(w.outboundMsgs)) => Sent(e)
    BY <1>1, <2>1, AppendResponseTracks
  <2>3. m' = e
    BY <1>3, <1>10 DEF w
  <2> HIDE DEF e
  <2>4. /\ Waiting(w) = Waiting(s) /\ Forgotten(w) = Forgotten(s) /\ (Sent(s) => Sent(w))
        /\ w.outboundMsgs = s.outboundMsgs
    BY <2>1 DEF Alike, Waiting, Forgotten, Queued, Sent
  <2> QED BY <1>2, <1>7, <2>2, <2>3, <2>4 DEF Tracks
<1> QED BY <1>9, <1>10

LEMMA ProcessPublish0Tracks ==
    ASSUME Held, NEW c, First(c), ProcessPublish0(c)
    PROVE  Tracks(m, m')
<1> DEFINE d == Detached
           e == [d EXCEPT !.pending_write = c.call]
           b == DisconnectInternal(e)
<1>1. c \in Requests /\ c.call \in Publishes0
  BY ReadyConnected, RequestFields DEF ProcessPublish0, Held
<1>2. d \in MQTTAsyncs /\ Tracks(m, d)
  BY <1>1, DetachedSound, DetachedTracks DEF Held, Sound
<1>3. PICK how : m' \in {Answer(d, c, "ok"), Write(d, how, NoPacket), Answer(b, c, "fail")}
  BY DEF ProcessPublish0
<1> HIDE DEF d
<1>4. e \in MQTTAsyncs /\ Alike(d, e)
  BY <1>1, <1>2 DEF MQTTAsyncs, Alike
<1> HIDE DEF e
<1>5. b \in MQTTAsyncs /\ Tracks(e, b)
  BY <1>4, DisconnectInternalTracks, AddCommandTyped, AttemptIsCommand DEF DisconnectInternal
<1> HIDE DEF b
<1>6. Tracks(d, Answer(d, c, "ok")) /\ Tracks(b, Answer(b, c, "fail"))
  BY <1>2, <1>5, AnswerTracks
<1>7. Tracks(d, Write(d, how, NoPacket)) /\ Tracks(d, e)
  BY <1>2, <1>4, WriteTracks, AlikeTracks
<1> QED BY <1>2, <1>3, <1>5, <1>6, <1>7, TracksAgain

LEMMA ProcessDisconnectTracks ==
    ASSUME Held, NEW c, First(c), ProcessDisconnect(c)
    PROVE  Tracks(m, m')
<1> DEFINE d == Detached
           state == IF d.connect_state = "NOT_IN_PROGRESS" THEN d.connect_state ELSE "DISCONNECTING"
           e == [d EXCEPT !.disconnect = c, !.connect_state = state]
<1>1. Sound(d) /\ d \in MQTTAsyncs /\ c \in Commands /\ d.connect_state = m.connect_state
      /\ d.connected = m.connected
  BY DetachedSound DEF Held, Sound
<1>2. c.call \notin Publishes1
  <2>1. CASE c = INTERNAL
    BY <2>1, OwnCommands, CallsArePositive DEF Calls
  <2>2. CASE c \in Requests /\ c.type = "DISCONNECT"
    BY <2>2 DEF Requests, TypeOf
  <2> QED BY <1>1, <2>1, <2>2, CommandKinds DEF ProcessDisconnect
<1>3. Tracks(m, d)
  BY <1>2, DetachedTracks
<1>4. m' = e \/ \E elapsed : m' = CheckDisconnect(e, c, elapsed)
  BY <1>1 DEF ProcessDisconnect, MQTTAsyncs
<1> HIDE DEF d
<1>5. state \in ConnectStates
  BY <1>1 DEF MQTTAsyncs, ConnectStates
<1>6. e \in MQTTAsyncs
  <2> HIDE DEF state
  <2> QED BY <1>1, <1>5 DEF MQTTAsyncs
<1>7. /\ e.connected = d.connected /\ e.connect_state = state /\ e.link = d.link
      /\ e.connect = d.connect /\ e.retrying = d.retrying /\ e.inbox = d.inbox
      /\ e.outboundMsgs = d.outboundMsgs
      /\ e.commands = d.commands /\ e.responses = d.responses /\ e.outcome = d.outcome
  BY <1>1 DEF MQTTAsyncs
<1> HIDE DEF e
<1>8. d.connected \in {0, 1} /\ d.connect_state \in ConnectStates
  BY <1>1 DEF MQTTAsyncs
<1>9. Sound(e)
  BY <1>1, <1>6, <1>7, <1>8 DEF Sound, Agrees, Started, Bounded, ConnectStates
<1>10. Tracks(d, e)
  BY <1>7, AlikeTracks DEF Alike
<1>11. \A elapsed : Tracks(e, CheckDisconnect(e, c, elapsed))
  BY <1>9, CheckDisconnectTracks
<1> QED BY <1>3, <1>4, <1>10, <1>11, TracksAgain

LEMMA SendingTracks ==
    ASSUME Held, FlagPendingWrite \/ AppendResponse \/ Wait \/ Wake
    PROVE  Tracks(m, m')
<1>1. m \in MQTTAsyncs
  BY Standing
<1>2. CASE FlagPendingWrite
  <2>1. Alike(m, m')
    BY <1>1, <1>2 DEF FlagPendingWrite, MQTTAsyncs, Alike
  <2> QED BY <2>1, AlikeTracks
<1>3. CASE AppendResponse
  <2> DEFINE c == taken.cmd
  <2>1. c \in Requests /\ c.type = "PUBLISH0" /\ m' = [m EXCEPT !.responses = Append(@, c)]
    BY <1>3, AttemptIsCommand DEF AppendResponse, Held, Inv, TypeOK, TakenInv
  <2> HIDE DEF c
  <2>2. c.token = 0
    BY <2>1, RequestFields
  <2> DEFINE e == [m EXCEPT !.responses = Append(@, c)]
  <2>3. /\ Waiting(e) = Waiting(m) \cup {c}
        /\ Forgotten(e) \subseteq Forgotten(m) \ {c.call}
        /\ Sent(m) /\ (c.type = "PUBLISH1" => c.token \in TokensIn(m.outboundMsgs)) => Sent(e)
    BY <1>1, <2>1, AppendResponseTracks
  <2>4. m' = e
    BY <2>1
  <2> HIDE DEF e
  <2> QED BY <2>1, <2>2, <2>3, <2>4 DEF Tracks
<1>4. CASE Wait \/ Wake
  BY <1>4, TracksNothing DEF Wait, Wake
<1> QED BY <1>2, <1>3, <1>4

LEMMA CheckTimeoutsTracks ==
    ASSUME Held, CheckTimeouts
    PROVE  Tracks(m, m')
<1>1. PICK elapsed \in Elapsed(m.disconnect), late \in BOOLEAN, due \in BOOLEAN :
        LET s == IF m.connect_state = "DISCONNECTING"
                 THEN CheckDisconnect(m, m.disconnect, elapsed) ELSE m
            expired == late /\ s.connect_state # "NOT_IN_PROGRESS"
            retry == AutoReconnect = 1 /\ s.retrying = 1 /\ (s.reconnectNow = 1 \/ due)
        IN  m' = IF expired THEN NextOrClose(s)
                 ELSE IF retry THEN [AddCommand(s, Restarted(s.connect)) EXCEPT !.reconnectNow = 0]
                 ELSE s
  BY DEF CheckTimeouts
<1> DEFINE s == IF m.connect_state = "DISCONNECTING"
                THEN CheckDisconnect(m, m.disconnect, elapsed) ELSE m
           a == AddCommand(s, Restarted(s.connect))
           e == [a EXCEPT !.reconnectNow = 0]
<1>2. \/ s.connect_state # "NOT_IN_PROGRESS" /\ m' = NextOrClose(s)
      \/ s.retrying = 1 /\ m' = e
      \/ m' = s
  BY <1>1
<1>3. Sound(m) /\ (m.connect_state = "DISCONNECTING" => m.connect # NoCommand)
  BY Standing DEF Sound, Started
<1>4. Sound(s) /\ Tracks(m, s)
  BY <1>3, CheckDisconnectSound, CheckDisconnectTracks, TracksNothing
<1> HIDE DEF s
<1>5. CASE s.connect_state # "NOT_IN_PROGRESS" /\ m' = NextOrClose(s)
  <2>1. s.connect # NoCommand
    BY <1>4, <1>5 DEF Sound, Started
  <2> QED BY <1>4, <1>5, <2>1, NextOrCloseTracks, TracksAgain
<1>6. CASE s.retrying = 1 /\ m' = e
  <2>1. s \in MQTTAsyncs /\ s.connect \in Attempts
    BY <1>4, <1>6 DEF Sound, Started, MQTTAsyncs
  <2>2. Restarted(s.connect) \in Attempts
    BY <2>1, AttemptTyped
  <2>3. a \in MQTTAsyncs /\ Tracks(s, a)
    BY <2>1, <2>2, AddCommandTyped, AddCommandTracks, OwnHaveNoId
  <2> HIDE DEF a
  <2>4. Alike(a, e)
    BY <2>3 DEF MQTTAsyncs, Alike
  <2> HIDE DEF e
  <2> QED BY <1>4, <1>6, <2>3, <2>4, AlikeTracks, TracksAgain
<1> QED BY <1>2, <1>4, <1>5, <1>6

LEMMA ContinueWritesTracks ==
    ASSUME Held, ContinueWrites
    PROVE  Tracks(m, m')
<1> DEFINE s == [m EXCEPT !.unsent = <<>>]
           w == Write(s, "complete", m.unsent[1])
<1>1. m \in MQTTAsyncs
  BY Standing
<1>2. s \in MQTTAsyncs /\ Alike(m, s)
  BY <1>1, Nothing DEF MQTTAsyncs, Alike
<1>3. PICK read : m' \in {WriteComplete(w, "ok", read), WriteComplete(s, "fail", read)}
  BY DEF ContinueWrites
<1>4. m.unsent[1] \in Packets
  <2>1. m.unsent \in {<<>>} \cup {<<p>> : p \in Packets} /\ m.unsent # <<>>
    BY <1>1 DEF ContinueWrites, MQTTAsyncs
  <2>2. PICK p \in Packets : m.unsent = <<p>>
    BY <2>1
  <2> QED BY <2>2
<1> HIDE DEF s
<1>5. w \in MQTTAsyncs /\ Alike(s, w)
  BY <1>2, <1>4, WriteTyped, WriteTracks
<1> HIDE DEF w
<1>6. Tracks(w, WriteComplete(w, "ok", read)) /\ Tracks(s, WriteComplete(s, "fail", read))
  BY <1>2, <1>5, WriteCompleteTracks
<1> QED BY <1>2, <1>3, <1>5, <1>6, AlikeTracks, TracksAgain

LEMMA CyclePacketTracks ==
    ASSUME Held, CyclePacket
    PROVE  Tracks(m, m')
<1> DEFINE p == Head(m.inbox)
           q == Tail(m.inbox)
           s == [m EXCEPT !.inbox = q]
           f == FinishResponse(RemoveMessage(s, p.token), p)
<1>1. m \in MQTTAsyncs /\ m.inbox \in Seq(Packets) /\ m.inbox # <<>> /\ m.connect # NoCommand /\ Filed(m)
  BY Standing DEF Held, Inv, Sound, MQTTAsyncs, Started, CyclePacket
<1>2. p \in Packets /\ q \in Seq(Packets)
  BY <1>1, HeadTailProperties
<1>3. (p.type = "PUBACK" /\ m' = f) \/ m' = s
  <2>1. [m EXCEPT !.inbox = Tail(@)] = s
    BY <1>1 DEF MQTTAsyncs
  <2> QED BY <2>1 DEF CyclePacket
<1> HIDE DEF p, q
<1>4. s \in MQTTAsyncs /\ Same(m, s) /\ Alike(m, s)
  BY <1>1, <1>2 DEF MQTTAsyncs, Same, Alike
<1>5. /\ s.connected = m.connected /\ s.connect_state = m.connect_state /\ s.link = m.link
      /\ s.connect = m.connect /\ s.outboundMsgs = m.outboundMsgs
  BY <1>1 DEF MQTTAsyncs
<1> HIDE DEF s
<1>6. Sound(s)
  BY <1>1, <1>4, <1>5 DEF Held, Inv, Sound, Agrees, Started, Bounded
<1>7. Filed(s)
  BY <1>1, <1>4, SameSpares DEF Spares, Settles
<1>8. p.type = "PUBACK" => Tracks(s, f)
  BY <1>2, <1>6, <1>7, AcknowledgedTracks
<1> HIDE DEF f
<1> QED BY <1>3, <1>4, <1>8, AlikeTracks, TracksAgain

LEMMA NetworkTracks ==
    ASSUME Held, Keepalive \/ DispatchNothing \/ DispatchSuback \/ Break \/ Expire
    PROVE  Tracks(m, m')
<1>1. m \in MQTTAsyncs /\ Sound(m)
  BY Standing
<1>2. CASE Keepalive
  BY <1>1, <1>2, DisconnectInternalTracks DEF Keepalive
<1>3. CASE DispatchNothing \/ Expire
  BY <1>3, TracksNothing DEF DispatchNothing, Expire
<1>4. CASE DispatchSuback
  <2> DEFINE e == FinishResponse(m, got)
  <2>1. got \in Packets /\ got.type = "SUBACK" /\ m' = e
    BY <1>4 DEF DispatchSuback, Held, Inv, TypeOK
  <2>2. /\ Waiting(e) \subseteq Waiting(m)
        /\ Range(e.responses) \subseteq Range(m.responses)
        /\ e.outboundMsgs = m.outboundMsgs
        /\ Forgotten(e) \subseteq Forgotten(m)
    BY <1>1, <2>1, FinishResponseTracks
  <2> HIDE DEF e
  <2> QED BY <2>1, <2>2 DEF Tracks, Sent
<1>5. CASE Break
  <2>1. PICK left : m' = [m EXCEPT !.link = "broken", !.inbox = left]
    BY <1>5 DEF Break
  <2>2. Alike(m, m')
    BY <1>1, <2>1 DEF MQTTAsyncs, Alike
  <2> QED BY <2>2, AlikeTracks
<1> QED BY <1>2, <1>3, <1>4, <1>5

LEMMA ReceivingTracks ==
    ASSUME Held, CycleConnecting \/ CycleError \/ DispatchError \/ DispatchRefused
    PROVE  Tracks(m, m')
<1>1. m \in MQTTAsyncs /\ Sound(m)
  BY Standing
<1>2. m.connect # NoCommand => Tracks(m, NextOrClose(m))
  BY <1>1, NextOrCloseTracks
<1>3. m.connect_state # "NOT_IN_PROGRESS" => m.connect # NoCommand
  BY <1>1 DEF Sound, Started
<1>4. Tracks(m, m)
  BY TracksNothing
<1>5. CASE CycleConnecting
  <2>1. \/ \E val : m' = [m EXCEPT !.link = "open", !.inbox = <<CONNACK(val)>>,
                                  !.connect_state = "WAIT_FOR_CONNACK"]
        \/ m' = NextOrClose(m)
    BY <1>5 DEF CycleConnecting
  <2>2. \A x : Alike(m, [m EXCEPT !.link = "open", !.inbox = <<x>>, !.connect_state = "WAIT_FOR_CONNACK"])
    BY <1>1 DEF MQTTAsyncs, Alike
  <2>3. m' = NextOrClose(m) \/ Alike(m, m')
    BY <2>1, <2>2
  <2>4. m.connect_state # "NOT_IN_PROGRESS"
    BY <1>5 DEF CycleConnecting
  <2> QED BY <1>2, <1>3, <2>3, <2>4, AlikeTracks
<1>6. CASE CycleError
  BY <1>2, <1>3, <1>4, <1>6 DEF CycleError
<1>7. CASE DispatchError
  <2>1. \/ m' = DisconnectInternal(m) \/ m' = CloseOnly(m)
        \/ m.connect_state # "NOT_IN_PROGRESS" /\ m' = NextOrClose(m)
    BY <1>7 DEF DispatchError
  <2> QED BY <1>1, <1>2, <1>3, <2>1, DisconnectInternalTracks, CloseTracks
<1>8. CASE DispatchRefused
  BY <1>2, <1>8 DEF DispatchRefused, Held, Inv, GotInv
<1> QED BY <1>5, <1>6, <1>7, <1>8

LEMMA DispatchConnackTracks ==
    ASSUME Held, DispatchConnack
    PROVE  Tracks(m, m')
<1> DEFINE s == CompleteConnection(m, got)
<1>1. m.connect # NoCommand /\ m.connect_state = "WAIT_FOR_CONNACK" /\ Sound(m) /\ m \in MQTTAsyncs
  BY Standing DEF DispatchConnack, Held, Inv, GotInv
<1>2. Sound(s) /\ Tracks(m, s)
  BY <1>1, CompleteConnectionSound, CompleteConnectionTracks
<1>3. PICK n \in 0..Len(s.outboundMsgs), how \in Writes(s) : m' = Resend(s, n, how)
  BY DEF DispatchConnack
<1> HIDE DEF s
<1> QED BY <1>2, <1>3, ResendTracks, TracksAgain

LEMMA ConnectTracks ==
    ASSUME Held, Connect \/ Reconnect
    PROVE  Tracks(m, m')
<1>1. m \in MQTTAsyncs
  BY Standing
<1>2. CASE Connect
  <2> DEFINE e == [m EXCEPT !.shouldBeConnected = 1]
             c == Command("CONNECT", 0, 0, 0, 0)
  <2>1. c \in Attempts /\ m' = AddCommand(e, c)
    BY <1>2 DEF Connect, Command, Attempts, UriIds, Versions
  <2>2. e \in MQTTAsyncs /\ Alike(m, e)
    BY <1>1 DEF MQTTAsyncs, Alike
  <2> HIDE DEF c, e
  <2>3. Tracks(e, AddCommand(e, c))
    BY <2>1, <2>2, AddCommandTracks, OwnHaveNoId
  <2> QED BY <2>1, <2>2, <2>3, AlikeTracks, TracksAgain
<1>3. CASE Reconnect
  <2> DEFINE e == [m EXCEPT !.reconnectNow = 1, !.retrying = 1]
             c == Restarted(m.connect)
  <2>1. m' = e \/ m' = AddCommand(m, c)
    BY <1>3 DEF Reconnect
  <2>2. Alike(m, e)
    BY <1>1 DEF MQTTAsyncs, Alike
  <2> HIDE DEF e
  <2>3. m.connect \in Attempts
    BY <1>1, <1>3, AttemptIsCommand DEF Reconnect, MQTTAsyncs
  <2>4. c \in Commands /\ c.token = 0
    BY <2>3, AttemptTyped, OwnHaveNoId
  <2> HIDE DEF c
  <2>5. Tracks(m, AddCommand(m, c))
    BY <1>1, <2>4, AddCommandTracks
  <2> QED BY <2>1, <2>2, <2>5, AlikeTracks
<1> QED BY <1>2, <1>3

LEMMA OthersTrack ==
    ASSUME Held, Connect \/ Reconnect \/ SendThread \/ ReceiveThread \/ Break \/ Expire \/ UNCHANGED vars
    PROVE  Tracks(m, m')
<1>1. CASE Connect \/ Reconnect
  BY <1>1, ConnectTracks
<1>2. CASE ProcessCommand
  <2>1. PICK c : /\ First(c)
                 /\ \/ ProcessBusyConnect(c) \/ ProcessConnect(c) \/ ProcessConnectFails(c)
                    \/ ProcessAcknowledged(c) \/ ProcessPublish0(c) \/ ProcessDisconnect(c)
    BY <1>2 DEF ProcessCommand
  <2> QED BY <2>1, ProcessConnectTracks, ProcessAcknowledgedTracks, ProcessPublish0Tracks, ProcessDisconnectTracks
<1>3. CASE FlagPendingWrite \/ AppendResponse \/ Wait \/ Wake
  BY <1>3, SendingTracks
<1>4. CASE CheckTimeouts
  BY <1>4, CheckTimeoutsTracks
<1>5. CASE ContinueWrites \/ CyclePacket
  BY <1>5, ContinueWritesTracks, CyclePacketTracks
<1>6. CASE Keepalive \/ DispatchNothing \/ DispatchSuback \/ Break \/ Expire
  BY <1>6, NetworkTracks
<1>7. CASE CycleConnecting \/ CycleError \/ DispatchError \/ DispatchRefused
  BY <1>7, ReceivingTracks
<1>8. CASE DispatchConnack
  BY <1>8, DispatchConnackTracks
<1>9. CASE UNCHANGED vars
  BY <1>9, TracksNothing DEF vars
<1> QED BY <1>1, <1>2, <1>3, <1>4, <1>5, <1>6, <1>7, <1>8, <1>9 DEF SendThread, ReceiveThread
-----------------------------------------------------------------------------
(* The ids.                                                                *)

\* MQTTAsync_assignMsgId gives out an id that is in neither queue.
LEMMA AssignMsgIdFree ==
    ASSUME NEW s \in MQTTAsyncs, AssignMsgId(s) # 0
    PROVE  \A c \in Waiting(s) : c.token # AssignMsgId(s)
<1> DEFINE k == CHOOSE k \in FreeSteps(s) : \A j \in FreeSteps(s) : k <= j
<1>1. FreeSteps(s) \in SUBSET Nat
  BY DEF FreeSteps
<1>2. FreeSteps(s) # {} => k \in FreeSteps(s)
  BY <1>1, Least
<1>3. AssignMsgId(s) = Successor(s.msgID, k) /\ FreeSteps(s) # {}
  BY DEF AssignMsgId, k
<1> HIDE DEF k
<1>4. Successor(s.msgID, k) \notin TokensIn(s.commands) \cup TokensIn(s.responses)
  BY <1>2, <1>3 DEF FreeSteps
<1>5. \A c \in Waiting(s) : c.token \in TokensIn(s.commands) \cup TokensIn(s.responses)
  BY RangeOf DEF Waiting
<1> QED BY <1>3, <1>4, <1>5

\* A step that queues nothing of the application's, in which a thread has
\* been given an id at most, and that id was free.
LEMMA TokensKept ==
    ASSUME TokensInv, Tracks(m, m'),
           \A t \in Threads : \/ app'[t].token = app[t].token \/ app'[t].token = 0
                              \/ \A c \in Waiting(m) : c.token # app'[t].token
    PROVE  TokensInv'
<1> SUFFICES ASSUME OneThread PROVE (Numbered(m) /\ Sent(m) /\ Fresh)'
  BY DEF TokensInv, OneThread
<1>1. Numbered(m) /\ Sent(m) /\ Fresh
  BY DEF TokensInv
<1>2. Numbered(m')
  BY <1>1 DEF Tracks, Numbered
<1>3. Sent(m')
  BY <1>1 DEF Tracks
<1>4. ASSUME NEW t \in Threads, app'[t].token # 0, NEW c \in Waiting(m')
      PROVE  c.token # app'[t].token
  BY <1>1, <1>4 DEF Tracks, Fresh
<1> QED BY <1>2, <1>3, <1>4 DEF Numbered, Sent, Fresh, Waiting, Tracks

LEMMA AskingTracks ==
    ASSUME Held, TokensInv, NEW t \in Threads, NEW r \in Calls, Request(t, r) \/ Disconnect(t, r)
    PROVE  Tracks(m, m') /\ TokensInv'
<1> DEFINE id == IF r \in Publishes0 THEN 0 ELSE AssignMsgId(m)
           c == Command(TypeOf(r), r, id, 0, 0)
           d == Command("DISCONNECT", r, 0, 0, 0)
<1>1. m \in MQTTAsyncs /\ app \in [Threads -> Requests \cup {NoCommand}]
  BY Standing DEF Held, Inv, TypeOK
<1>2. /\ m' \in {m, [m EXCEPT !.msgID = id], [m EXCEPT !.shouldBeConnected = 0]}
      /\ app' \in {app, [app EXCEPT ![t] = c], [app EXCEPT ![t] = d]}
  BY DEF Request, Disconnect
<1>3. c.token = id /\ d.token = 0
  BY DEF Command
<1>4. id # 0 => \A x \in Waiting(m) : x.token # id
  BY <1>1, AssignMsgIdFree
<1> HIDE DEF id, c, d
<1>5. Alike(m, m')
  BY <1>1, <1>2 DEF MQTTAsyncs, Alike
<1>6. \A u \in Threads : app'[u] \in {app[u], c, d}
  BY <1>1, <1>2
<1>7. Tracks(m, m')
  BY <1>5, AlikeTracks
<1>8. \A u \in Threads : \/ app'[u].token = app[u].token \/ app'[u].token = 0
                         \/ \A x \in Waiting(m) : x.token # app'[u].token
  BY <1>3, <1>4, <1>6
<1> QED BY <1>7, <1>8, TokensKept

\* addCommand queues the id that is fresh, and the thread holds none then.
LEMMA AddTracks ==
    ASSUME Held, TokensInv, NEW t \in Threads, Add(t)
    PROVE  Forgotten(m') \subseteq Forgotten(m) /\ TokensInv'
<1> DEFINE c == app[t]
           q == Append(m.commands, c)
           b == <<c>> \o m.commands
           x == [m EXCEPT !.commands = q]
           e == [x EXCEPT !.outcome[c.call] = "pending"]
<1>1. /\ app \in [Threads -> Requests \cup {NoCommand}]
      /\ c \in Requests /\ app' = [app EXCEPT ![t] = NoCommand]
  BY DEF Held, Inv, TypeOK, Add
<1>2. c.type \notin {"CONNECT", "INTERNAL"} /\ c \in Commands /\ c.call \in Calls
  BY <1>1 DEF Requests, Commands
<1>3. m \in MQTTAsyncs /\ m.commands \in Seq(Commands)
  BY Standing
<1>4. m' = e
  BY <1>2, Zenon DEF Add, AddCommand
<1>5. Range(q) = Range(m.commands) \cup {c} /\ Range(b) = Range(m.commands) \cup {c}
  BY <1>2, <1>3, RangeLonger
<1> HIDE DEF q, b
<1>6. /\ e.commands = q /\ e.responses = m.responses /\ e.outboundMsgs = m.outboundMsgs
      /\ \A r \in Calls : r # c.call => e.outcome[r] = m.outcome[r]
  BY <1>2, <1>3 DEF MQTTAsyncs
<1> HIDE DEF e, x
<1>7. \A r : r \in Queued(m) \cup {c.call} => r \in Queued(e)
  BY <1>5, <1>6, RangeOf DEF Queued
<1>8. Forgotten(e) \subseteq Forgotten(m)
  BY <1>6, <1>7 DEF Forgotten, Calls
<1>9. Waiting(e) = Waiting(m) \cup {c} /\ (Sent(m) => Sent(e))
  BY <1>5, <1>6 DEF Waiting, Sent
<1>10. ASSUME OneThread PROVE (Numbered(m) /\ Sent(m) /\ Fresh)'
  <2>1. Numbered(m) /\ Sent(m) /\ Fresh
    BY <1>10 DEF TokensInv
  <2>2. c.token # 0 => \A y \in Waiting(m) : y.token # c.token
    BY <2>1 DEF Fresh
  <2>3. Numbered(e)
    <3> SUFFICES ASSUME NEW y \in Waiting(e), NEW z \in Waiting(e), y.token = z.token, y.token # 0
                 PROVE  y.call = z.call
      BY DEF Numbered
    <3> HIDE DEF c
    <3>1. y \in Waiting(m) \cup {c} /\ z \in Waiting(m) \cup {c}
      BY <1>9
    <3>2. CASE y \in Waiting(m) /\ z \in Waiting(m)
      BY <2>1, <3>2 DEF Numbered
    <3> QED BY <2>2, <3>1, <3>2
  <2>4. \A u \in Threads : u = t
    BY <1>10 DEF OneThread
  <2>5. NoCommand.token = 0
    BY DEF NoCommand, Command
  <2>6. \A u \in Threads : app'[u].token = 0
    BY <1>1, <2>4, <2>5
  <2>7. Fresh'
    BY <2>6 DEF Fresh
  <2>8. Numbered(m') /\ Sent(m')
    BY <1>4, <1>9, <2>1, <2>3
  <2> QED BY <2>7, <2>8 DEF Numbered, Sent, Waiting
<1>11. TokensInv'
  BY <1>10 DEF TokensInv, OneThread
<1> QED BY <1>4, <1>8, <1>11

LEMMA InitTokens == Init => Forgotten(m) = {} /\ TokensInv
<1> SUFFICES ASSUME Init PROVE Forgotten(m) = {} /\ TokensInv
  OBVIOUS
<1>1. /\ m.commands = <<>> /\ m.responses = <<>>
      /\ \A r \in Calls : m.outcome[r] = "unmade"
      /\ \A t \in Threads : app[t] = NoCommand
  BY DEF Init
<1>2. NoCommand.token = 0
  BY DEF NoCommand, Command
<1>3. Waiting(m) = {} /\ Range(m.responses) = {}
  BY <1>1 DEF Waiting, Range
<1>4. Forgotten(m) = {}
  BY <1>1 DEF Forgotten, Calls
<1>5. Numbered(m) /\ Sent(m) /\ Fresh
  BY <1>1, <1>2, <1>3 DEF Numbered, Sent, Fresh
<1> QED BY <1>4, <1>5 DEF TokensInv

LEMMA NextTokens ==
    Held /\ TokensInv /\ [Next]_vars => Forgotten(m') \subseteq Forgotten(m) /\ TokensInv'
<1> SUFFICES ASSUME Held, TokensInv, [Next]_vars
             PROVE  Forgotten(m') \subseteq Forgotten(m) /\ TokensInv'
  OBVIOUS
<1>1. ASSUME NEW t \in Threads, NEW r \in Calls, Request(t, r) \/ Disconnect(t, r)
      PROVE  Forgotten(m') \subseteq Forgotten(m) /\ TokensInv'
  BY <1>1, AskingTracks DEF Tracks
<1>2. ASSUME NEW t \in Threads, Add(t) PROVE Forgotten(m') \subseteq Forgotten(m) /\ TokensInv'
  BY <1>2, AddTracks
<1>3. CASE Connect \/ Reconnect \/ SendThread \/ ReceiveThread \/ Break \/ Expire \/ UNCHANGED vars
  <2>1. Tracks(m, m') /\ app' = app
    BY <1>3, OthersTrack, OthersSettle
  <2>2. TokensInv'
    BY <2>1, TokensKept
  <2> QED BY <2>1, <2>2 DEF Tracks
<1> QED BY <1>1, <1>2, <1>3 DEF Next, Application
-----------------------------------------------------------------------------
(* What an application may rely on.                                        *)

Tracked == Held /\ Forgotten(m) = {} /\ TokensInv

LEMMA StaysTracked == Spec => []Tracked
<1>1. Init => Tracked
  BY InitInv, InitCalls, InitTokens DEF Tracked, Held
<1>2. Tracked /\ [Next]_vars => Tracked'
  <2> SUFFICES ASSUME Tracked, [Next]_vars PROVE Tracked'
    OBVIOUS
  <2>1. Held' /\ TokensInv'
    BY NextInv, NextCalls, NextTokens DEF Tracked, Held
  <2>2. Forgotten(m') = {}
    BY NextTokens DEF Tracked
  <2> QED BY <2>1, <2>2 DEF Tracked, Forgotten, Queued
<1> QED BY <1>1, <1>2, PTL DEF Spec

\* A QoS 1 publication that has not been answered is among the commands or
\* the responses, however many threads share the client and however often
\* the connection is lost, closed or made again: none is dropped unanswered.
THEOREM NoneForgotten ==
    Spec => [](\A r \in Publishes1 : m.outcome[r] = "pending" =>
                    r \in CallsIn(m.commands) \cup CallsIn(m.responses))
<1>1. Spec => []Tracked
  BY StaysTracked
<1>2. Tracked => \A r \in Publishes1 : m.outcome[r] = "pending" =>
                    r \in CallsIn(m.commands) \cup CallsIn(m.responses)
  BY DEF Tracked, Forgotten, Queued
<1> QED BY <1>1, <1>2, PTL

\* With one application thread MQTTAsync_isComplete tells the truth of every
\* QoS 1 message, for any number of calls, ids, URIs and failures: until its
\* callback the message is queued, or in flight and there to be sent again.
THEOREM PublicationsTracked == Spec => [](OneThread => PendingIsTracked)
<1>1. Spec => []Tracked
  BY StaysTracked
<1>2. Tracked => (OneThread => PendingIsTracked)
  <2> SUFFICES ASSUME Tracked, OneThread PROVE PendingIsTracked
    OBVIOUS
  <2>1. Sent(m)
    BY DEF Tracked, TokensInv
  <2>2. \A i \in DOMAIN m.responses : m.responses[i] \in Range(m.responses)
    BY DEF Range
  <2>3. \A i \in DOMAIN m.responses : m.responses[i].type = "PUBLISH1" =>
            ~IsComplete(m.responses[i].token)
    BY <2>1, <2>2 DEF Sent, IsComplete
  <2> QED BY <2>3 DEF Tracked, Forgotten, Queued, PendingIsTracked
<1> QED BY <1>1, <1>2, PTL
=============================================================================
