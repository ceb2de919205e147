-------------------------- MODULE MqttAsync_proofs --------------------------
(***************************************************************************)
(* Proofs about MqttAsync: its type invariant, that the connection state   *)
(* agrees with the socket whichever thread changed it last, and that the   *)
(* receive maximum is never exceeded.                                      *)
(*                                                                         *)
(* Every operator on the MQTTAsyncs structure has a lemma: it keeps a      *)
(* sound structure sound.  The actions follow from these.                  *)
(***************************************************************************)
EXTENDS MqttAsync, TLAPS, WellFoundedInduction, SequenceTheorems

\* Until the first attempt to connect there is nothing to repeat, and
\* nothing that could ask for a repetition.
Started(s) ==
    s.connect = NoCommand =>
        /\ s.connected = 0
        /\ s.connect_state = "NOT_IN_PROGRESS"
        /\ s.retrying = 0
        /\ s.link # "open"
        /\ s.inbox = <<>>

Bounded(s) == Version = 5 => Len(s.outboundMsgs) <= MaxInflight

Sound(s) == s \in MQTTAsyncs /\ Agrees(s) /\ Started(s) /\ Bounded(s)

\* A CONNACK waits for its dispatch only after an attempt.
GotInv == got.type = "CONNACK" => m.connect # NoCommand

\* The send thread holds the command of an unfinished QoS 0 write.
TakenInv == taken.stage \in {"flag", "append"} => taken.cmd.type = "PUBLISH0"

Inv == TypeOK /\ Sound(m) /\ GotInv /\ TakenInv
-----------------------------------------------------------------------------
(* Commands, packets and sequences.                                        *)

USE CallsAssumption, NumbersAssumption, OptionsAssumption

\* 0 is the call of no command an application made.
LEMMA CallsArePositive == Calls \subseteq Nat \ {0}
  OBVIOUS

\* An identifier is a token.
LEMMA Ids == MsgIds = Tokens \ {0} /\ 0 \in Tokens /\ Tokens \subseteq Nat
  BY DEF MsgIds, Tokens

\* The three kinds of commands have types of their own.
LEMMA CommandKinds ==
    ASSUME NEW c \in Commands
    PROVE  /\ c # NoCommand
           /\ c.type = "CONNECT" <=> c \in Attempts
           /\ c.type = "INTERNAL" <=> c = INTERNAL
           /\ c.type \in {"SUBSCRIBE", "PUBLISH0", "PUBLISH1", "DISCONNECT"} <=> c \in Requests
           /\ c.type \in {"CONNECT", "INTERNAL", "SUBSCRIBE", "PUBLISH0", "PUBLISH1", "DISCONNECT"}
<1>1. NoCommand.type = "none" /\ INTERNAL.type = "INTERNAL"
  BY DEF NoCommand, INTERNAL, Command
<1>2. CASE c \in Requests
  BY <1>1, <1>2 DEF Requests, Attempts
<1>3. CASE c \in Attempts
  BY <1>1, <1>3 DEF Requests, Attempts
<1>4. CASE c = INTERNAL
  BY <1>1, <1>4 DEF Requests, Attempts
<1> QED BY <1>2, <1>3, <1>4 DEF Commands

\* An attempt is a command, no command is none.
LEMMA AttemptIsCommand ==
    /\ Attempts \subseteq Commands /\ Requests \subseteq Commands /\ INTERNAL \in Commands
    /\ NoCommand \notin Commands /\ NoCommand.type = "none"
    /\ \A c \in Attempts : c.type = "CONNECT" /\ c # NoCommand
    /\ INTERNAL.type = "INTERNAL"
<1>1. NoCommand.type = "none" /\ INTERNAL.type = "INTERNAL"
  BY DEF NoCommand, INTERNAL, Command
<1>2. Attempts \subseteq Commands /\ Requests \subseteq Commands /\ INTERNAL \in Commands
  BY DEF Commands
<1>3. NoCommand \notin Commands
  BY CommandKinds
<1>4. \A c \in Attempts : c.type = "CONNECT" /\ c # NoCommand
  BY <1>1 DEF Attempts
<1> QED BY <1>1, <1>2, <1>3, <1>4

\* A request belongs to a call, and one that is acknowledged has an id.
LEMMA RequestFields ==
    ASSUME NEW c \in Requests
    PROVE  /\ c.call \in Calls /\ c.call # 0 /\ c.token \in Tokens
           /\ c.type = "SUBSCRIBE" => c.call \in Subscribes /\ c.token \in MsgIds
           /\ c.type = "PUBLISH1" => c.call \in Publishes1 /\ c.token \in MsgIds
           /\ c.type = "PUBLISH0" => c.call \in Publishes0
           /\ c.token # 0 => c.call \in Subscribes \cup Publishes1
<1>1. c.call \in Calls /\ c.token \in Tokens /\ c.type = TypeOf(c.call)
      /\ (c.type \in {"SUBSCRIBE", "PUBLISH1"} <=> c.token # 0)
  BY DEF Requests
<1>2. c.type = "SUBSCRIBE" => c.call \in Subscribes
  BY <1>1 DEF TypeOf
<1>3. c.type = "PUBLISH1" => c.call \in Publishes1
  BY <1>1 DEF TypeOf
<1>4. c.type = "PUBLISH0" => c.call \in Publishes0
  BY <1>1 DEF TypeOf
<1> QED BY <1>1, <1>2, <1>3, <1>4, Ids, CallsArePositive

\* What the API calls put together is a request.
LEMMA RequestTyped ==
    ASSUME NEW r \in Calls, NEW t \in Tokens, r \in Subscribes \cup Publishes1 <=> t # 0
    PROVE  Command(TypeOf(r), r, t, 0, 0) \in Requests
<1>1. TypeOf(r) \in {"SUBSCRIBE", "PUBLISH0", "PUBLISH1", "DISCONNECT"}
  BY DEF TypeOf
<1>2. TypeOf(r) \in {"SUBSCRIBE", "PUBLISH1"} <=> r \in Subscribes \cup Publishes1
  BY DEF TypeOf
<1> QED BY <1>1, <1>2 DEF Command, Requests

\* The packets the model makes are packets.
LEMMA PacketTyped ==
    /\ NoPacket \in Packets /\ SocketError \in Packets
    /\ NoPacket.type = "none" /\ SocketError.type = "error"
    /\ \A v \in {"refused", "fresh", "present"} : CONNACK(v) \in Packets
    /\ \A c \in Requests, v \in {"ok", "fail"} : c.type = "SUBSCRIBE" => SUBACK(c, v) \in Packets
    /\ \A c \in Requests : c.type = "PUBLISH1" => PUBACK(c) \in Packets /\ Message(c) \in Messages
    /\ \A x \in Messages : PUBACK(x) \in Packets
<1>1. NoPacket \in Packets /\ SocketError \in Packets
  BY DEF Packets
<1>2. NoPacket.type = "none" /\ SocketError.type = "error"
  BY DEF NoPacket, SocketError, Packet
<1>3. \A v \in {"refused", "fresh", "present"} : CONNACK(v) \in Packets
  BY DEF Packets
<1>4. ASSUME NEW c \in Requests, NEW v \in {"ok", "fail"}, c.type = "SUBSCRIBE"
      PROVE  SUBACK(c, v) \in Packets
  BY <1>4, RequestFields DEF Packets, SUBACK
<1>5. ASSUME NEW x, x.token \in MsgIds, x.call \in Publishes1
      PROVE  PUBACK(x) \in Packets
  BY <1>5 DEF Packets, PUBACK
<1>6. ASSUME NEW c \in Requests, c.type = "PUBLISH1"
      PROVE  PUBACK(c) \in Packets /\ Message(c) \in Messages
  BY <1>5, <1>6, RequestFields DEF Message, Messages
<1>7. \A x \in Messages : PUBACK(x) \in Packets
  BY <1>5 DEF Messages
<1> QED BY <1>1, <1>2, <1>3, <1>4, <1>6, <1>7

\* What an answer says is an outcome.
LEMMA PacketValue ==
    ASSUME NEW p \in Packets, p.type \in {"SUBACK", "PUBACK"}
    PROVE  p.val \in {"ok", "fail"}
  BY DEF Packets, NoPacket, SocketError, CONNACK, Packet

\* Every set of natural numbers but the empty one has a least element.
LEMMA Least ==
    ASSUME NEW I \in SUBSET Nat, I # {}
    PROVE  \E x \in I : \A y \in I : x =< y
<1> DEFINE R == {ss \in Nat \X Nat : ss[1] < ss[2]}
<1>1. PICK x \in I : \A y \in I : ~(<<y, x>> \in OpToRel(<, Nat))
  BY WFMin, NatLessThanWellFounded
<1>2. OpToRel(<, Nat) = R
  BY DEF OpToRel
<1>3. \A y \in I : ~(<<y, x>> \in R)
  BY <1>1, <1>2
<1>4. ASSUME NEW y \in I PROVE x =< y
  <2>1. <<y, x>> \in Nat \X Nat
    OBVIOUS
  <2>2. ~(<<y, x>>[1] < <<y, x>>[2])
    BY <1>3, <2>1
  <2>3. x \in Nat /\ y \in Nat
    OBVIOUS
  <2>4. ~(y < x)
    BY <2>2
  <2> QED BY <2>3, <2>4
<1> QED BY <1>4

\* The first element with a token, if there is one: SelectInSeq.
LEMMA FirstIndex ==
    ASSUME NEW q, NEW S, q \in Seq(S), NEW t
    PROVE  LET I == {i \in 1..Len(q) : q[i].token = t}
           IN  (IF I # {} THEN Min(I) ELSE 0) \in 0..Len(q)
<1> DEFINE I == {i \in 1..Len(q) : q[i].token = t}
<1>1. I \in SUBSET Nat
  OBVIOUS
<1>2. I # {} => Min(I) \in I
  BY <1>1, Least DEF Min
<1>3. Len(q) \in Nat
  BY LenProperties
<1> QED BY <1>2, <1>3

\* One element less.
LEMMA Removed ==
    ASSUME NEW S, NEW q \in Seq(S), NEW i \in 1..Len(q)
    PROVE  RemoveAt(q, i) \in Seq(S) /\ Len(RemoveAt(q, i)) = Len(q) - 1
<1> DEFINE a == SubSeq(q, 1, i - 1)
           b == SubSeq(q, i + 1, Len(q))
<1>1. a \in Seq(S) /\ Len(a) = i - 1
  BY LenProperties, SubSeqProperties
<1>2. b \in Seq(S) /\ Len(b) = Len(q) - i
  BY LenProperties, SubSeqProperties
<1>3. RemoveAt(q, i) = a \o b
  BY DEF RemoveAt
<1>4. a \o b \in Seq(S) /\ Len(a \o b) = Len(a) + Len(b)
  <2> HIDE DEF a, b
  <2> QED BY <1>1, <1>2, ConcatProperties
<1> HIDE DEF a, b
<1>5. Len(q) \in Nat /\ i \in Nat
  BY LenProperties
<1> QED BY <1>1, <1>2, <1>3, <1>4, <1>5

\* Empty lists have their types.
LEMMA Nothing ==
    /\ <<>> \in Seq(Commands) /\ <<>> \in Seq(Requests)
    /\ <<>> \in Seq(Messages) /\ <<>> \in Seq(Packets)
    /\ <<>> \in {<<>>} \cup {<<p>> : p \in Packets}
  OBVIOUS
-----------------------------------------------------------------------------
(* The operators on the structure.                                         *)

\* Calls end with an outcome.
LEMMA EndWithTyped ==
    ASSUME NEW o \in [Calls -> Outcomes], NEW how \in Outcomes, NEW calls
    PROVE  EndWith(o, how, calls) \in [Calls -> Outcomes]
  BY DEF EndWith, Outcomes

\* MQTTAsync_removeResponsesAndCommands.
LEMMA RemoveResponsesAndCommandsSound ==
    ASSUME NEW s, Sound(s)
    PROVE  /\ Sound(RemoveResponsesAndCommands(s))
           /\ RemoveResponsesAndCommands(s).connect = s.connect
<1> DEFINE o == EndWith(s.outcome, "fail", CallsIn(s.responses) \cup CallsIn(s.commands))
           e == RemoveResponsesAndCommands(s)
<1>1. s \in MQTTAsyncs
  BY DEF Sound
<1>2. o \in [Calls -> Outcomes]
  BY <1>1, EndWithTyped DEF MQTTAsyncs, Outcomes
<1>3. e = [s EXCEPT !.responses = <<>>, !.commands = <<>>, !.outcome = o]
  BY <1>1 DEF RemoveResponsesAndCommands
<1> HIDE DEF o, e
<1>4. e \in MQTTAsyncs
  BY <1>1, <1>2, <1>3, Nothing DEF MQTTAsyncs
<1>5. /\ e.connected = s.connected /\ e.connect_state = s.connect_state /\ e.link = s.link
      /\ e.connect = s.connect /\ e.retrying = s.retrying /\ e.inbox = s.inbox
      /\ e.outboundMsgs = s.outboundMsgs
  BY <1>1, <1>3 DEF MQTTAsyncs
<1>6. Sound(e)
  BY <1>4, <1>5 DEF Sound, Agrees, Started, Bounded
<1> QED BY <1>5, <1>6 DEF e

\* MQTTAsync_cleanSession.
LEMMA CleanSessionSound ==
    ASSUME NEW s, Sound(s)
    PROVE  /\ Sound(CleanSessionState(s))
           /\ CleanSessionState(s).connect = s.connect
<1> DEFINE e == [s EXCEPT !.outboundMsgs = <<>>, !.msgID = 0]
<1>1. s \in MQTTAsyncs
  BY DEF Sound
<1>2. e \in MQTTAsyncs /\ e.outboundMsgs = <<>>
  BY <1>1, Ids, Nothing DEF MQTTAsyncs
<1>3. /\ e.connected = s.connected /\ e.connect_state = s.connect_state /\ e.link = s.link
      /\ e.connect = s.connect /\ e.retrying = s.retrying /\ e.inbox = s.inbox
  BY <1>1 DEF MQTTAsyncs
<1> HIDE DEF e
<1>4. Bounded(e)
  BY <1>2 DEF Bounded
<1>5. Sound(e)
  BY <1>2, <1>3, <1>4 DEF Sound, Agrees, Started
<1>6. CleanSessionState(s) = RemoveResponsesAndCommands(e)
  BY DEF CleanSessionState, e
<1> QED BY <1>3, <1>5, <1>6, RemoveResponsesAndCommandsSound

\* MQTTAsync_closeOnly.
LEMMA CloseOnlySound ==
    ASSUME NEW s, Sound(s)
    PROVE  /\ Sound(CloseOnly(s))
           /\ CloseOnly(s).connect = s.connect
<1> DEFINE e == CloseOnly(s)
<1>1. s \in MQTTAsyncs
  BY DEF Sound
<1>2. e \in MQTTAsyncs
  BY <1>1, Nothing DEF MQTTAsyncs, CloseOnly, ConnectStates
<1>3. /\ e.connected = 0 /\ e.connect_state = "NOT_IN_PROGRESS" /\ e.link = "none"
      /\ e.connect = s.connect /\ e.retrying = s.retrying /\ e.inbox = <<>>
      /\ e.outboundMsgs = s.outboundMsgs
  BY <1>1 DEF MQTTAsyncs, CloseOnly
<1> HIDE DEF e
<1>4. Sound(e)
  BY <1>2, <1>3 DEF Sound, Agrees, Started, Bounded
<1> QED BY <1>3, <1>4 DEF e

\* MQTTAsync_closeSession.
LEMMA CloseSessionSound ==
    ASSUME NEW s, Sound(s)
    PROVE  /\ Sound(CloseSession(s))
           /\ CloseSession(s).connect = s.connect
  BY CloseOnlySound, CleanSessionSound DEF CloseSession

\* MQTTAsync_addCommand.
LEMMA AddCommandSound ==
    ASSUME NEW s, Sound(s), NEW c \in Commands
    PROVE  /\ Sound(AddCommand(s, c))
           /\ AddCommand(s, c).connect = s.connect
<1>1. s \in MQTTAsyncs
  BY DEF Sound
<1>2. \E q \in Seq(Commands) : AddCommand(s, c) = [s EXCEPT !.commands = q]
  <2>1. s.commands \in Seq(Commands)
    BY <1>1 DEF MQTTAsyncs
  <2>2. Append(s.commands, c) \in Seq(Commands) /\ <<c>> \o s.commands \in Seq(Commands)
    BY <2>1, AppendProperties, ConcatProperties
  <2>3. s = [s EXCEPT !.commands = s.commands]
    BY <1>1 DEF MQTTAsyncs
  <2>4. \/ AddCommand(s, c) = s
        \/ AddCommand(s, c) = [s EXCEPT !.commands = Append(s.commands, c)]
        \/ AddCommand(s, c) = [s EXCEPT !.commands = <<c>> \o s.commands]
    BY <1>1 DEF AddCommand
  <2> QED BY <2>1, <2>2, <2>3, <2>4
<1>3. PICK q \in Seq(Commands) : AddCommand(s, c) = [s EXCEPT !.commands = q]
  BY <1>2
<1> DEFINE e == [s EXCEPT !.commands = q]
<1>4. e \in MQTTAsyncs
  BY <1>1 DEF MQTTAsyncs
<1>5. /\ e.connected = s.connected /\ e.connect_state = s.connect_state /\ e.link = s.link
      /\ e.connect = s.connect /\ e.retrying = s.retrying /\ e.inbox = s.inbox
      /\ e.outboundMsgs = s.outboundMsgs
  BY <1>1 DEF MQTTAsyncs
<1> HIDE DEF e
<1>6. Sound(e)
  BY <1>4, <1>5 DEF Sound, Agrees, Started, Bounded
<1> QED BY <1>3, <1>5, <1>6 DEF e

\* A callback.
LEMMA AnswerSound ==
    ASSUME NEW s, Sound(s), NEW c, NEW how \in Outcomes
    PROVE  /\ Sound(Answer(s, c, how))
           /\ Answer(s, c, how).connect = s.connect
           /\ Answer(s, c, how).responses = s.responses
<1> DEFINE o == EndWith(s.outcome, how, {c.call})
           e == [s EXCEPT !.outcome = o]
<1>1. s \in MQTTAsyncs
  BY DEF Sound
<1>2. o \in [Calls -> Outcomes]
  BY <1>1, EndWithTyped DEF MQTTAsyncs
<1> HIDE DEF o
<1>3. e \in MQTTAsyncs
  BY <1>1, <1>2 DEF MQTTAsyncs
<1>4. /\ e.connected = s.connected /\ e.connect_state = s.connect_state /\ e.link = s.link
      /\ e.connect = s.connect /\ e.retrying = s.retrying /\ e.inbox = s.inbox
      /\ e.outboundMsgs = s.outboundMsgs /\ e.responses = s.responses
  BY <1>1 DEF MQTTAsyncs
<1>5. Answer(s, c, how) = e
  BY DEF Answer, o
<1> HIDE DEF e
<1>6. Sound(e)
  BY <1>3, <1>4 DEF Sound, Agrees, Started, Bounded
<1> QED BY <1>4, <1>5, <1>6

\* MQTTAsync_startConnectRetry, which needs a connect to repeat.
LEMMA StartConnectRetrySound ==
    ASSUME NEW s, Sound(s), s.connect # NoCommand
    PROVE  /\ Sound(StartConnectRetry(s))
           /\ StartConnectRetry(s).connect = s.connect
<1> DEFINE e == [s EXCEPT !.retrying = 1]
<1>1. s \in MQTTAsyncs
  BY DEF Sound
<1>2. e \in MQTTAsyncs
  BY <1>1 DEF MQTTAsyncs
<1>3. /\ e.connected = s.connected /\ e.connect_state = s.connect_state /\ e.link = s.link
      /\ e.connect = s.connect /\ e.outboundMsgs = s.outboundMsgs
  BY <1>1 DEF MQTTAsyncs
<1>4. StartConnectRetry(s) \in {e, s}
  BY DEF StartConnectRetry
<1> HIDE DEF e
<1>5. Sound(e)
  BY <1>2, <1>3 DEF Sound, Agrees, Started, Bounded
<1> QED BY <1>3, <1>4, <1>5

\* MQTTAsync_disconnect_internal.
LEMMA DisconnectInternalSound ==
    ASSUME NEW s, Sound(s)
    PROVE  /\ Sound(DisconnectInternal(s))
           /\ DisconnectInternal(s).connect = s.connect
  BY AddCommandSound, AttemptIsCommand DEF DisconnectInternal

\* The next attempt is an attempt, as long as there is one.
LEMMA NextAttemptTyped ==
    ASSUME NEW c \in Attempts, CheckConn(c)
    PROVE  NextAttempt(c) \in Attempts
<1>1. c.uri \in UriIds /\ c.ver \in Versions /\ 0 \in Versions
  BY DEF Attempts, Versions
<1>2. CASE Version # 0
  <2>1. c.uri + 1 \in UriIds
    BY <1>1, <1>2 DEF CheckConn, UriIds
  <2> QED BY <2>1, <1>2 DEF NextAttempt, Attempts
<1>3. CASE Version = 0 /\ c.ver = 3
  <2>1. c.uri + 1 \in UriIds
    BY <1>1, <1>3 DEF CheckConn, UriIds
  <2> QED BY <2>1, <1>1, <1>3 DEF NextAttempt, Attempts
<1>4. CASE Version = 0 /\ c.ver # 3
  BY <1>4 DEF NextAttempt
<1> QED BY <1>2, <1>3, <1>4

\* So are a first attempt, one with its version chosen, and a repeated one.
LEMMA AttemptTyped ==
    ASSUME NEW c \in Attempts
    PROVE  /\ [c EXCEPT !.ver = AttemptVersion(c)] \in Attempts
           /\ Restarted(c) \in Attempts
<1>1. AttemptVersion(c) \in Versions /\ 0 \in Versions
  BY DEF AttemptVersion, Versions
<1> QED BY <1>1 DEF Attempts, Restarted

\* nextOrClose.
LEMMA NextOrCloseSound ==
    ASSUME NEW s, Sound(s), s.connect # NoCommand
    PROVE  /\ Sound(NextOrClose(s))
           /\ NextOrClose(s).connect = s.connect
<1>1. s.connect \in Attempts
  BY DEF Sound, MQTTAsyncs
<1>2. CheckConn(s.connect) => NextAttempt(s.connect) \in Commands
  BY <1>1, NextAttemptTyped, AttemptIsCommand
<1>3. CASE CheckConn(s.connect)
  <2>1. NextOrClose(s) = AddCommand(CloseOnly(s), NextAttempt(s.connect))
    BY <1>3 DEF NextOrClose
  <2> QED BY <2>1, <1>2, <1>3, CloseOnlySound, AddCommandSound
<1>4. CASE ~CheckConn(s.connect)
  <2>1. NextOrClose(s) = StartConnectRetry(CloseSession(s))
    BY <1>4 DEF NextOrClose
  <2> QED BY <2>1, CloseSessionSound, StartConnectRetrySound
<1> QED BY <1>3, <1>4

\* MQTTAsync_checkDisconnect.
LEMMA CheckDisconnectSound ==
    ASSUME NEW s, Sound(s), s.connect # NoCommand, NEW c, NEW elapsed
    PROVE  /\ Sound(CheckDisconnect(s, c, elapsed))
           /\ CheckDisconnect(s, c, elapsed).connect = s.connect
<1>1. "ok" \in Outcomes
  BY DEF Outcomes
<1>2. /\ Sound(CloseSession(s)) /\ CloseSession(s).connect = s.connect
  BY CloseSessionSound
<1>3. CheckDisconnect(s, c, elapsed) \in
        {s, StartConnectRetry(CloseSession(s)), Answer(CloseSession(s), c, "ok")}
  BY DEF CheckDisconnect
<1> QED BY <1>1, <1>2, <1>3, StartConnectRetrySound, AnswerSound

\* A write, with the answer it may have.
LEMMA WriteSound ==
    ASSUME NEW s, Sound(s), NEW how, NEW reply \in Packets
    PROVE  /\ Sound(Write(s, how, reply))
           /\ Write(s, how, reply).connect = s.connect
           /\ Write(s, how, reply).responses = s.responses
<1> DEFINE d == [s EXCEPT !.unsent = <<reply>>]
           e == [s EXCEPT !.inbox = Append(s.inbox, reply)]
<1>1. s \in MQTTAsyncs
  BY DEF Sound
<1>2. d \in MQTTAsyncs
  BY <1>1 DEF MQTTAsyncs
<1>3. /\ d.connected = s.connected /\ d.connect_state = s.connect_state /\ d.link = s.link
      /\ d.connect = s.connect /\ d.outboundMsgs = s.outboundMsgs /\ d.responses = s.responses
      /\ d.retrying = s.retrying /\ d.inbox = s.inbox
  BY <1>1 DEF MQTTAsyncs
<1>4. Append(s.inbox, reply) \in Seq(Packets)
  BY <1>1, AppendProperties DEF MQTTAsyncs
<1>5. e \in MQTTAsyncs
  BY <1>1, <1>4 DEF MQTTAsyncs
<1>6. /\ e.connected = s.connected /\ e.connect_state = s.connect_state /\ e.link = s.link
      /\ e.connect = s.connect /\ e.outboundMsgs = s.outboundMsgs /\ e.responses = s.responses
  BY <1>1 DEF MQTTAsyncs
<1>7. Write(s, how, reply) \in {s, d} \/ (s.link = "open" /\ Write(s, how, reply) = e)
  BY DEF Write
<1> HIDE DEF d, e
<1>8. Sound(d) /\ (s.link = "open" => Sound(e))
  BY <1>2, <1>3, <1>5, <1>6 DEF Sound, Agrees, Started, Bounded
<1> QED BY <1>3, <1>6, <1>7, <1>8

\* Responses may come and go: nothing but the type depends on them.
LEMMA ResponsesSound ==
    ASSUME NEW s, Sound(s), NEW q \in Seq(Requests)
    PROVE  /\ Sound([s EXCEPT !.responses = q])
           /\ [s EXCEPT !.responses = q].connect = s.connect
<1> DEFINE e == [s EXCEPT !.responses = q]
<1>1. s \in MQTTAsyncs
  BY DEF Sound
<1>2. e \in MQTTAsyncs
  BY <1>1 DEF MQTTAsyncs
<1>3. /\ e.connected = s.connected /\ e.connect_state = s.connect_state /\ e.link = s.link
      /\ e.connect = s.connect /\ e.retrying = s.retrying /\ e.inbox = s.inbox
      /\ e.outboundMsgs = s.outboundMsgs
  BY <1>1 DEF MQTTAsyncs
<1> HIDE DEF e
<1>4. Sound(e)
  BY <1>2, <1>3 DEF Sound, Agrees, Started, Bounded
<1> QED BY <1>3, <1>4 DEF e

\* A waiting command joins the responses.
LEMMA AppendResponseSound ==
    ASSUME NEW s, Sound(s), NEW c \in Requests
    PROVE  /\ Sound([s EXCEPT !.responses = Append(@, c)])
           /\ [s EXCEPT !.responses = Append(@, c)].connect = s.connect
<1>1. s \in MQTTAsyncs
  BY DEF Sound
<1>2. Append(s.responses, c) \in Seq(Requests)
  BY <1>1, AppendProperties DEF MQTTAsyncs
<1>3. [s EXCEPT !.responses = Append(@, c)] = [s EXCEPT !.responses = Append(s.responses, c)]
  BY <1>1 DEF MQTTAsyncs
<1> QED BY <1>2, <1>3, ResponsesSound

\* The answer to a request ends it, or the call it is taken for.
LEMMA FinishResponseSound ==
    ASSUME NEW s, Sound(s), NEW p \in Packets, p.type \in {"SUBACK", "PUBACK"}
    PROVE  /\ Sound(FinishResponse(s, p))
           /\ FinishResponse(s, p).connect = s.connect
<1> DEFINE i == ResponseTo(s, p.token)
           how == IF s.responses[i].call = p.call THEN p.val ELSE "mistaken"
           a == Answer(s, s.responses[i], how)
           q == RemoveAt(s.responses, i)
<1>1. s \in MQTTAsyncs /\ s.responses \in Seq(Requests)
  BY DEF Sound, MQTTAsyncs
<1>2. i \in 0..Len(s.responses)
  BY <1>1, FirstIndex DEF ResponseTo, SelectInSeq
<1>3. how \in Outcomes
  BY PacketValue DEF Outcomes
<1> HIDE DEF i, how
<1>4. Sound(a) /\ a.connect = s.connect /\ a.responses = s.responses
  BY <1>3, AnswerSound
<1> HIDE DEF a
<1>5. CASE i = 0
  <2>1. FinishResponse(s, p) = s
    BY <1>5 DEF FinishResponse, i
  <2> QED BY <2>1
<1>6. CASE i # 0
  <2>1. i \in 1..Len(s.responses)
    BY <1>1, <1>2, <1>6, LenProperties
  <2>2. q \in Seq(Requests)
    BY <1>1, <2>1, Removed
  <2>3. FinishResponse(s, p) = [a EXCEPT !.responses = RemoveAt(@, i)]
    BY <1>6 DEF FinishResponse, i, how, a
  <2>4. a \in MQTTAsyncs
    BY <1>4 DEF Sound
  <2>5. [a EXCEPT !.responses = RemoveAt(@, i)] = [a EXCEPT !.responses = q]
    BY <1>4, <2>4 DEF MQTTAsyncs
  <2> HIDE DEF q
  <2> QED BY <1>4, <2>2, <2>3, <2>5, ResponsesSound
<1> QED BY <1>5, <1>6

\* MQTTProtocol_handlePubacks takes one message away at most.
LEMMA RemoveMessageSound ==
    ASSUME NEW s, Sound(s), NEW t
    PROVE  /\ Sound(RemoveMessage(s, t))
           /\ RemoveMessage(s, t).connect = s.connect
<1> DEFINE i == SelectInSeq(s.outboundMsgs, LAMBDA x : x.token = t)
           q == RemoveAt(s.outboundMsgs, i)
           e == [s EXCEPT !.outboundMsgs = q]
<1>1. s \in MQTTAsyncs /\ s.outboundMsgs \in Seq(Messages)
  BY DEF Sound, MQTTAsyncs
<1>2. i \in 0..Len(s.outboundMsgs)
  BY <1>1, FirstIndex DEF SelectInSeq
<1>3. RemoveMessage(s, t) = IF i = 0 THEN s ELSE e
  BY <1>1 DEF RemoveMessage, MQTTAsyncs
<1> HIDE DEF i
<1>4. i # 0 => q \in Seq(Messages) /\ Len(q) = Len(s.outboundMsgs) - 1
  <2>1. i # 0 => i \in 1..Len(s.outboundMsgs)
    BY <1>1, <1>2, LenProperties
  <2> QED BY <1>1, <2>1, Removed
<1> HIDE DEF q
<1>5. CASE i # 0
  <2>1. e \in MQTTAsyncs
    BY <1>1, <1>4, <1>5 DEF MQTTAsyncs
  <2>2. /\ e.connected = s.connected /\ e.connect_state = s.connect_state /\ e.link = s.link
        /\ e.connect = s.connect /\ e.retrying = s.retrying /\ e.inbox = s.inbox
        /\ e.outboundMsgs = q
    BY <1>1 DEF MQTTAsyncs
  <2>3. Len(s.outboundMsgs) \in Nat
    BY <1>1, LenProperties
  <2> HIDE DEF e
  <2>4. Bounded(e)
    BY <1>4, <1>5, <2>2, <2>3 DEF Sound, Bounded
  <2>5. Sound(e)
    BY <2>1, <2>2, <2>4 DEF Sound, Agrees, Started
  <2> QED BY <1>3, <1>5, <2>2, <2>5
<1> QED BY <1>3, <1>5

\* MQTTAsync_completeConnection, once there is a connection to complete.
LEMMA CompleteConnectionSound ==
    ASSUME NEW s, Sound(s), s.connect # NoCommand, s.connect_state = "WAIT_FOR_CONNACK", NEW p
    PROVE  /\ Sound(CompleteConnection(s, p))
           /\ CompleteConnection(s, p).connect = s.connect
<1> DEFINE e == [s EXCEPT !.retrying = 0, !.connected = 1, !.connect_state = "NOT_IN_PROGRESS"]
<1>1. s \in MQTTAsyncs
  BY DEF Sound
<1>2. e \in MQTTAsyncs
  BY <1>1 DEF MQTTAsyncs, ConnectStates
<1>3. /\ e.connected = 1 /\ e.connect_state = "NOT_IN_PROGRESS" /\ e.link = s.link
      /\ e.connect = s.connect /\ e.outboundMsgs = s.outboundMsgs
  BY <1>1 DEF MQTTAsyncs
<1>4. CompleteConnection(s, p) \in {CleanSessionState(e), e}
  BY DEF CompleteConnection
<1> HIDE DEF e
<1>5. Sound(e)
  BY <1>2, <1>3 DEF Sound, Agrees, Started, Bounded
<1> QED BY <1>3, <1>4, <1>5, CleanSessionSound

\* MQTTProtocol_retries.
LEMMA ResendSound ==
    ASSUME NEW s, Sound(s), s.connect # NoCommand,
           NEW n \in 0..Len(s.outboundMsgs), NEW how \in {"complete", "interrupted", "error"},
           n = Len(s.outboundMsgs) <=> how = "complete"
    PROVE  /\ Sound(Resend(s, n, how))
           /\ Resend(s, n, how).connect = s.connect
<1> DEFINE acks == [i \in 1..n |-> PUBACK(s.outboundMsgs[i])]
           q == s.inbox \o (IF s.link = "open" THEN acks ELSE <<>>)
           e == [s EXCEPT !.inbox = q]
           d == [e EXCEPT !.unsent = <<PUBACK(s.outboundMsgs[n + 1])>>]
<1>1. s \in MQTTAsyncs /\ s.outboundMsgs \in Seq(Messages) /\ s.inbox \in Seq(Packets)
  BY DEF Sound, MQTTAsyncs
<1>2. n \in Nat /\ Len(s.outboundMsgs) \in Nat
  BY <1>1, LenProperties
<1>3. \A i \in 1..Len(s.outboundMsgs) : PUBACK(s.outboundMsgs[i]) \in Packets
  BY <1>1, PacketTyped, ElementOfSeq
<1>4. acks \in Seq(Packets)
  BY <1>2, <1>3
<1> HIDE DEF acks
<1>5. q \in Seq(Packets)
  BY <1>1, <1>4, Nothing, ConcatProperties
<1>6. Resend(s, n, how) = IF how = "complete" THEN e
                          ELSE IF how = "interrupted" THEN d ELSE DisconnectInternal(e)
  <2>1. [s EXCEPT !.inbox = @ \o IF s.link = "open" THEN acks ELSE <<>>] = e
    BY <1>1 DEF MQTTAsyncs
  <2> QED BY <2>1 DEF Resend, acks
<1> HIDE DEF q
<1>7. e \in MQTTAsyncs
  BY <1>1, <1>5 DEF MQTTAsyncs
<1>8. /\ e.connected = s.connected /\ e.connect_state = s.connect_state /\ e.link = s.link
      /\ e.connect = s.connect /\ e.outboundMsgs = s.outboundMsgs
  BY <1>1 DEF MQTTAsyncs
<1> HIDE DEF e
<1>9. Sound(e)
  BY <1>7, <1>8 DEF Sound, Agrees, Started, Bounded
<1>10. CASE how = "interrupted"
  <2>1. PUBACK(s.outboundMsgs[n + 1]) \in Packets
    BY <1>2, <1>3, <1>10
  <2>2. d \in MQTTAsyncs
    BY <1>7, <2>1 DEF MQTTAsyncs
  <2>3. /\ d.connected = e.connected /\ d.connect_state = e.connect_state /\ d.link = e.link
        /\ d.connect = e.connect /\ d.outboundMsgs = e.outboundMsgs
    BY <1>7 DEF MQTTAsyncs
  <2> HIDE DEF d
  <2>4. Sound(d)
    BY <1>8, <1>9, <2>2, <2>3 DEF Sound, Agrees, Started, Bounded
  <2> QED BY <1>6, <1>8, <1>10, <2>3, <2>4
<1>11. CASE how # "interrupted"
  BY <1>6, <1>8, <1>9, <1>11, DisconnectInternalSound
<1> QED BY <1>10, <1>11

\* MQTTAsync_writeComplete.
LEMMA WriteCompleteSound ==
    ASSUME NEW s, Sound(s), NEW how \in {"ok", "fail"}, NEW read
    PROVE  /\ Sound(WriteComplete(s, how, read))
           /\ WriteComplete(s, how, read).connect = s.connect
<1> DEFINE o == EndWith(EndWith(s.outcome, how, IF read THEN {s.pending_write} ELSE {}),
                        "lost", {Head(s.responses).call})
           q == Tail(s.responses)
           d == [s EXCEPT !.pending_write = 0]
           e == [s EXCEPT !.pending_write = 0, !.responses = q, !.outcome = o]
<1>1. s \in MQTTAsyncs /\ s.responses \in Seq(Requests) /\ s.outcome \in [Calls -> Outcomes]
  BY DEF Sound, MQTTAsyncs
<1>2. how \in Outcomes /\ "lost" \in Outcomes
  BY DEF Outcomes
<1>3. o \in [Calls -> Outcomes]
  BY <1>1, <1>2, EndWithTyped
<1>4. s.responses # <<>> => q \in Seq(Requests)
  BY <1>1, HeadTailProperties
<1>5. WriteComplete(s, how, read) = IF s.pending_write = 0 THEN s
                                    ELSE IF s.responses = <<>> THEN d ELSE e
  BY <1>1 DEF WriteComplete, MQTTAsyncs
<1> HIDE DEF o, q
<1>6. d \in MQTTAsyncs /\ (s.responses # <<>> => e \in MQTTAsyncs)
  BY <1>1, <1>3, <1>4 DEF MQTTAsyncs
<1>7. /\ d.connected = s.connected /\ d.connect_state = s.connect_state /\ d.link = s.link
      /\ d.connect = s.connect /\ d.retrying = s.retrying /\ d.inbox = s.inbox
      /\ d.outboundMsgs = s.outboundMsgs
  BY <1>1 DEF MQTTAsyncs
<1>8. /\ e.connected = s.connected /\ e.connect_state = s.connect_state /\ e.link = s.link
      /\ e.connect = s.connect /\ e.retrying = s.retrying /\ e.inbox = s.inbox
      /\ e.outboundMsgs = s.outboundMsgs
  BY <1>1 DEF MQTTAsyncs
<1> HIDE DEF d, e
<1>9. Sound(d)
  BY <1>6, <1>7 DEF Sound, Agrees, Started, Bounded
<1>10. s.responses # <<>> => Sound(e)
  BY <1>6, <1>8 DEF Sound, Agrees, Started, Bounded
<1> QED BY <1>5, <1>7, <1>8, <1>9, <1>10

\* MQTTAsync_assignMsgId finds an id, or none.
LEMMA AssignMsgIdTyped ==
    ASSUME NEW s, s \in MQTTAsyncs
    PROVE  AssignMsgId(s) \in Tokens
<1> DEFINE k == CHOOSE k \in FreeSteps(s) : \A j \in FreeSteps(s) : k <= j
<1>1. s.msgID \in Nat
  BY Ids DEF MQTTAsyncs
<1>2. FreeSteps(s) \in SUBSET Nat
  BY DEF FreeSteps
<1>3. FreeSteps(s) # {} => k \in Nat
  BY <1>2, Least
<1> HIDE DEF k
<1>4. ASSUME NEW x \in Nat PROVE Successor(s.msgID, x) \in Tokens
  <2> DEFINE y == s.msgID + x - 1
  <2>1. y \in Int
    BY <1>1
  <2> HIDE DEF y
  <2>2. y % MAX_MSG_ID \in 0..(MAX_MSG_ID - 1)
    BY <2>1
  <2>3. (y % MAX_MSG_ID) + 1 \in 0..MAX_MSG_ID
    BY <2>2
  <2> QED BY <2>3 DEF Successor, Tokens, y
<1>5. AssignMsgId(s) = IF FreeSteps(s) = {} THEN 0 ELSE Successor(s.msgID, k)
  BY DEF AssignMsgId, k
<1> QED BY <1>3, <1>4, <1>5, Ids
-----------------------------------------------------------------------------
(* The actions.                                                            *)

\* What most steps leave alone.
LEMMA Framed ==
    ASSUME Inv, Sound(m'), m'.connect = m.connect \/ m'.connect # NoCommand,
           got' \in {got, NoPacket, SocketError}, taken' = taken, app' = app,
           conns' = conns, session' \in {0, 1}, faults' \in 0..MaxFaults
    PROVE  Inv'
  BY PacketTyped DEF Inv, TypeOK, Sound, GotInv, TakenInv

\* A fault counts.
LEMMA FaultTyped ==
    ASSUME faults \in 0..MaxFaults, (\E k \in FaultKinds : Fault(k)) \/ NoFault
    PROVE  faults' \in 0..MaxFaults
  BY DEF Fault, NoFault

\* The broker's CONNACK and the session it leaves.
LEMMA ConnackTyped ==
    ASSUME Inv, NEW v, NEW val, Connack(v, val)
    PROVE  /\ CONNACK(val) \in Packets
           /\ session' \in {0, 1} /\ faults' \in 0..MaxFaults
<1>1. val \in {"refused", "fresh", "present"} /\ session \in {0, 1} /\ faults \in 0..MaxFaults
  BY DEF Connack, Inv, TypeOK
<1>2. session' \in {0, 1}
  BY <1>1 DEF Connack
<1>3. "reject" \in FaultKinds
  BY DEF FaultKinds
<1>4. faults' \in 0..MaxFaults
  BY <1>1, <1>3, FaultTyped DEF Connack
<1> QED BY <1>1, <1>2, <1>4, PacketTyped

LEMMA RequestInv ==
    ASSUME Inv, NEW t \in Threads, NEW r \in Calls, Request(t, r)
    PROVE  Inv'
<1> DEFINE id == IF r \in Publishes0 THEN 0 ELSE AssignMsgId(m)
           e == [m EXCEPT !.msgID = id]
<1>1. m \in MQTTAsyncs
  BY DEF Inv, Sound
<1>2. id \in Tokens
  BY <1>1, AssignMsgIdTyped, Ids
<1>3. r \in Publishes0 \/ id # 0
  BY DEF Request
<1>13. r \in Publishes0 => id = 0 /\ r \notin Subscribes \cup Publishes1
  OBVIOUS
<1>14. r \notin Disconnects
  BY DEF Request
<1>4. m' \in {m, e} /\ app' \in {app, [app EXCEPT ![t] = Command(TypeOf(r), r, id, 0, 0)]}
  BY DEF Request
<1> HIDE DEF id
<1>5. e \in MQTTAsyncs
  BY <1>1, <1>2 DEF MQTTAsyncs
<1>6. /\ e.connected = m.connected /\ e.connect_state = m.connect_state /\ e.link = m.link
      /\ e.connect = m.connect /\ e.retrying = m.retrying /\ e.inbox = m.inbox
      /\ e.outboundMsgs = m.outboundMsgs
  BY <1>1 DEF MQTTAsyncs
<1> HIDE DEF e
<1>7. Sound(e)
  BY <1>5, <1>6 DEF Inv, Sound, Agrees, Started, Bounded
<1>8. Sound(m') /\ m'.connect = m.connect
  BY <1>4, <1>6, <1>7 DEF Inv
<1>9. r \in Subscribes \cup Publishes1 <=> id # 0
  BY <1>3, <1>13, <1>14 DEF Calls
<1>10. Command(TypeOf(r), r, id, 0, 0) \in Requests
  BY <1>2, <1>9, RequestTyped
<1>11. app' \in [Threads -> Requests \cup {NoCommand}]
  BY <1>4, <1>10 DEF Inv, TypeOK
<1>12. UNCHANGED <<taken, got, conns, session, faults>>
  BY DEF Request
<1> QED BY <1>8, <1>11, <1>12 DEF Inv, TypeOK, Sound, GotInv, TakenInv

LEMMA DisconnectInv ==
    ASSUME Inv, NEW t \in Threads, NEW r \in Calls, Disconnect(t, r)
    PROVE  Inv'
<1> DEFINE e == [m EXCEPT !.shouldBeConnected = 0]
<1>1. m \in MQTTAsyncs
  BY DEF Inv, Sound
<1>2. m' = e /\ app' \in {app, [app EXCEPT ![t] = Command("DISCONNECT", r, 0, 0, 0)]}
  BY DEF Disconnect
<1>3. e \in MQTTAsyncs
  BY <1>1 DEF MQTTAsyncs
<1>4. /\ e.connected = m.connected /\ e.connect_state = m.connect_state /\ e.link = m.link
      /\ e.connect = m.connect /\ e.retrying = m.retrying /\ e.inbox = m.inbox
      /\ e.outboundMsgs = m.outboundMsgs
  BY <1>1 DEF MQTTAsyncs
<1> HIDE DEF e
<1>5. Sound(e)
  BY <1>3, <1>4 DEF Inv, Sound, Agrees, Started, Bounded
<1>6. TypeOf(r) = "DISCONNECT" /\ r \notin Subscribes \cup Publishes1
  BY DEF Disconnect, TypeOf
<1>7. Command("DISCONNECT", r, 0, 0, 0) \in Requests
  BY <1>6, Ids, RequestTyped
<1>8. app' \in [Threads -> Requests \cup {NoCommand}]
  BY <1>2, <1>7 DEF Inv, TypeOK
<1>9. UNCHANGED <<taken, got, conns, session, faults>>
  BY DEF Disconnect
<1> QED BY <1>2, <1>4, <1>5, <1>8, <1>9 DEF Inv, TypeOK, Sound, GotInv, TakenInv

LEMMA AddInv ==
    ASSUME Inv, NEW t \in Threads, Add(t)
    PROVE  Inv'
<1> DEFINE c == app[t]
           a == AddCommand(m, c)
           e == [a EXCEPT !.outcome[c.call] = "pending"]
<1>1. c \in Requests /\ app' = [app EXCEPT ![t] = NoCommand]
  BY DEF Inv, TypeOK, Add
<1>2. m' = e
  BY DEF Add
<1> HIDE DEF c
<1>3. Sound(a) /\ a.connect = m.connect
  BY <1>1, AddCommandSound, AttemptIsCommand DEF Inv
<1> HIDE DEF a
<1>4. a \in MQTTAsyncs
  BY <1>3 DEF Sound
<1>5. [a.outcome EXCEPT ![c.call] = "pending"] \in [Calls -> Outcomes]
  BY <1>4 DEF MQTTAsyncs, Outcomes
<1>6. e \in MQTTAsyncs
  BY <1>4, <1>5 DEF MQTTAsyncs
<1>7. /\ e.connected = a.connected /\ e.connect_state = a.connect_state /\ e.link = a.link
      /\ e.connect = a.connect /\ e.retrying = a.retrying /\ e.inbox = a.inbox
      /\ e.outboundMsgs = a.outboundMsgs
  BY <1>4 DEF MQTTAsyncs
<1> HIDE DEF e
<1>8. Sound(e)
  BY <1>3, <1>6, <1>7 DEF Sound, Agrees, Started, Bounded
<1>9. app' \in [Threads -> Requests \cup {NoCommand}]
  BY <1>1 DEF Inv, TypeOK
<1>10. UNCHANGED <<taken, got, conns, session, faults>>
  BY DEF Add
<1> QED BY <1>2, <1>3, <1>7, <1>8, <1>9, <1>10 DEF Inv, TypeOK, Sound, GotInv, TakenInv

LEMMA ConnectInv ==
    ASSUME Inv, Connect
    PROVE  Inv'
<1> DEFINE e == [m EXCEPT !.shouldBeConnected = 1]
           c == Command("CONNECT", 0, 0, 0, 0)
<1>1. m \in MQTTAsyncs
  BY DEF Inv, Sound
<1>2. e \in MQTTAsyncs
  BY <1>1 DEF MQTTAsyncs
<1>3. /\ e.connected = m.connected /\ e.connect_state = m.connect_state /\ e.link = m.link
      /\ e.connect = m.connect /\ e.retrying = m.retrying /\ e.inbox = m.inbox
      /\ e.outboundMsgs = m.outboundMsgs
  BY <1>1 DEF MQTTAsyncs
<1>4. m' = AddCommand(e, c)
  BY DEF Connect
<1> HIDE DEF e
<1>5. Sound(e)
  BY <1>2, <1>3 DEF Inv, Sound, Agrees, Started, Bounded
<1>6. c \in Attempts
  BY DEF Command, Attempts, UriIds, Versions
<1>7. Sound(m') /\ m'.connect = m.connect
  BY <1>3, <1>4, <1>5, <1>6, AddCommandSound, AttemptIsCommand
<1>8. conns' \in 0..MaxConnects
  BY DEF Inv, TypeOK, Connect
<1>9. UNCHANGED <<taken, got, app, session, faults>>
  BY DEF Connect
<1> QED BY <1>7, <1>8, <1>9 DEF Inv, TypeOK, Sound, GotInv, TakenInv

LEMMA ReconnectInv ==
    ASSUME Inv, Reconnect
    PROVE  Inv'
<1> DEFINE e == [m EXCEPT !.reconnectNow = 1, !.retrying = 1]
<1>1. m \in MQTTAsyncs /\ m.connect \in Attempts
  BY AttemptIsCommand DEF Inv, Sound, MQTTAsyncs, Reconnect
<1>2. e \in MQTTAsyncs
  BY <1>1 DEF MQTTAsyncs
<1>3. /\ e.connected = m.connected /\ e.connect_state = m.connect_state /\ e.link = m.link
      /\ e.connect = m.connect /\ e.inbox = m.inbox /\ e.outboundMsgs = m.outboundMsgs
  BY <1>1 DEF MQTTAsyncs
<1>4. m' \in {e, AddCommand(m, Restarted(m.connect))}
  BY DEF Reconnect
<1> HIDE DEF e
<1>5. Sound(e)
  BY <1>1, <1>2, <1>3, AttemptIsCommand DEF Inv, Sound, Agrees, Started, Bounded
<1> DEFINE a == AddCommand(m, Restarted(m.connect))
<1>6. Restarted(m.connect) \in Commands
  BY <1>1, AttemptTyped, AttemptIsCommand
<1>9. Sound(a) /\ a.connect = m.connect
  BY <1>6, AddCommandSound DEF Inv
<1> HIDE DEF a
<1>10. m' \in {e, a}
  BY <1>4 DEF a
<1>11. Sound(m') /\ m'.connect = m.connect
  BY <1>3, <1>5, <1>9, <1>10
<1>7. conns' \in 0..MaxConnects
  BY DEF Inv, TypeOK, Reconnect
<1>8. UNCHANGED <<taken, got, app, session, faults>>
  BY DEF Reconnect
<1> QED BY <1>7, <1>8, <1>11 DEF Inv, TypeOK, Sound, GotInv, TakenInv

\* processCommand takes a command off the queue.
LEMMA DetachedSound ==
    ASSUME Inv, NEW c, First(c)
    PROVE  /\ c \in Commands /\ Sound(Detached)
           /\ Detached.connected = m.connected /\ Detached.connect_state = m.connect_state
           /\ Detached.link = m.link /\ Detached.connect = m.connect
           /\ Detached.outboundMsgs = m.outboundMsgs
<1>1. m \in MQTTAsyncs /\ m.commands \in Seq(Commands) /\ m.commands # <<>> /\ c = Head(m.commands)
  BY DEF Inv, Sound, MQTTAsyncs, First
<1>2. c \in Commands /\ Tail(m.commands) \in Seq(Commands)
  BY <1>1, HeadTailProperties
<1> DEFINE q == Tail(m.commands)
           e == [m EXCEPT !.commands = q]
<1>3. Detached = e
  BY <1>1 DEF Detached, MQTTAsyncs
<1> HIDE DEF q
<1>4. q \in Seq(Commands)
  BY <1>2 DEF q
<1>5. e \in MQTTAsyncs
  BY <1>1, <1>4 DEF MQTTAsyncs
<1>6. /\ e.connected = m.connected /\ e.connect_state = m.connect_state /\ e.link = m.link
      /\ e.connect = m.connect /\ e.retrying = m.retrying /\ e.inbox = m.inbox
      /\ e.outboundMsgs = m.outboundMsgs
  BY <1>1 DEF MQTTAsyncs
<1> HIDE DEF e
<1>7. Sound(e)
  BY <1>5, <1>6 DEF Inv, Sound, Agrees, Started, Bounded
<1> QED BY <1>2, <1>3, <1>6, <1>7

LEMMA ProcessBusyConnectInv ==
    ASSUME Inv, NEW c, First(c), ProcessBusyConnect(c), UNCHANGED <<app, conns>>
    PROVE  Inv'
<1> DEFINE d == Detached
           e == [d EXCEPT !.connect = c]
<1>1. c \in Attempts /\ c # NoCommand
  BY DetachedSound, CommandKinds, AttemptIsCommand DEF ProcessBusyConnect
<1>2. m' = e
  BY DEF ProcessBusyConnect
<1>3. Sound(d)
  BY DetachedSound
<1> HIDE DEF d
<1>4. d \in MQTTAsyncs
  BY <1>3 DEF Sound
<1>5. e \in MQTTAsyncs
  BY <1>1, <1>4 DEF MQTTAsyncs
<1>6. /\ e.connected = d.connected /\ e.connect_state = d.connect_state /\ e.link = d.link
      /\ e.connect = c /\ e.outboundMsgs = d.outboundMsgs
  BY <1>4 DEF MQTTAsyncs
<1> HIDE DEF e
<1>7. Sound(e)
  BY <1>1, <1>3, <1>5, <1>6 DEF Sound, Agrees, Started, Bounded
<1>8. UNCHANGED <<taken, got, session, faults>>
  BY DEF ProcessBusyConnect
<1> QED BY <1>1, <1>2, <1>6, <1>7, <1>8, Framed DEF Inv, TypeOK

LEMMA ProcessConnectInv ==
    ASSUME Inv, NEW c, First(c), ProcessConnect(c), UNCHANGED <<app, conns>>
    PROVE  Inv'
<1> DEFINE a == [c EXCEPT !.ver = AttemptVersion(c)]
           d == Detached
           x == [d EXCEPT !.connect = a, !.unsent = <<>>, !.link = "connecting",
                          !.inbox = <<>>, !.connect_state = "TCP_IN_PROGRESS"]
           y(val) == [d EXCEPT !.connect = a, !.unsent = <<>>, !.link = "open",
                          !.inbox = <<CONNACK(val)>>, !.connect_state = "WAIT_FOR_CONNACK"]
<1>1. a \in Attempts /\ a # NoCommand
  BY DetachedSound, CommandKinds, AttemptIsCommand, AttemptTyped DEF ProcessConnect
<1>2. Sound(d) /\ d.connected = 0 /\ d \in MQTTAsyncs
  BY DetachedSound DEF ProcessConnect, Sound
<1>3. \/ m' = x /\ UNCHANGED <<session, faults>>
      \/ \E val \in {"refused", "fresh", "present"} : Connack(a.ver, val) /\ m' = y(val)
  BY <1>2 DEF ProcessConnect, MQTTAsyncs
<1>4. taken' = taken /\ got' \in {got, NoPacket}
  BY DEF ProcessConnect, Orphaned
<1> HIDE DEF a, d
<1>5. CASE m' = x /\ UNCHANGED <<session, faults>>
  <2>1. x \in MQTTAsyncs
    BY <1>1, <1>2, Nothing DEF MQTTAsyncs, ConnectStates
  <2>2. /\ x.connected = 0 /\ x.connect_state = "TCP_IN_PROGRESS" /\ x.link = "connecting"
        /\ x.connect = a /\ x.outboundMsgs = d.outboundMsgs
    BY <1>2 DEF MQTTAsyncs
  <2> HIDE DEF x
  <2>3. Sound(x)
    BY <1>1, <1>2, <2>1, <2>2 DEF Sound, Agrees, Started, Bounded
  <2> QED BY <1>1, <1>4, <1>5, <2>2, <2>3, Framed DEF Inv, TypeOK
<1>6. CASE \E val \in {"refused", "fresh", "present"} : Connack(a.ver, val) /\ m' = y(val)
  <2>1. PICK val \in {"refused", "fresh", "present"} : Connack(a.ver, val) /\ m' = y(val)
    BY <1>6
  <2>2. CONNACK(val) \in Packets /\ session' \in {0, 1} /\ faults' \in 0..MaxFaults
    BY <2>1, ConnackTyped
  <2> DEFINE p == CONNACK(val)
             z == y(val)
  <2> HIDE DEF p
  <2>3. <<p>> \in Seq(Packets)
    BY <2>2 DEF p
  <2>4. z \in MQTTAsyncs
    BY <1>1, <1>2, <2>3, Nothing DEF MQTTAsyncs, ConnectStates, p
  <2>5. /\ z.connected = 0 /\ z.connect_state = "WAIT_FOR_CONNACK" /\ z.link = "open"
        /\ z.connect = a /\ z.outboundMsgs = d.outboundMsgs
    BY <1>2 DEF MQTTAsyncs
  <2>6. m' = z
    BY <2>1
  <2> HIDE DEF z
  <2>7. Sound(z)
    BY <1>1, <1>2, <2>4, <2>5 DEF Sound, Agrees, Started, Bounded
  <2> QED BY <1>1, <1>4, <2>2, <2>5, <2>6, <2>7, Framed
<1> QED BY <1>3, <1>5, <1>6

\* The socket a failed connect leaves, if any, is not that of a connection.
Failed(s, left) ==
    [s EXCEPT !.shouldBeConnected = 1, !.link = left, !.inbox = <<>>, !.unsent = <<>>]

LEMMA FailedTyped ==
    ASSUME NEW s, s \in MQTTAsyncs, NEW left \in {"none", "broken"}
    PROVE  /\ Failed(s, left) \in MQTTAsyncs
           /\ Failed(s, left).connected = s.connected
           /\ Failed(s, left).connect_state = s.connect_state
           /\ Failed(s, left).connect = s.connect /\ Failed(s, left).link = left
           /\ Failed(s, left).inbox = <<>> /\ Failed(s, left).retrying = s.retrying
           /\ Failed(s, left).outboundMsgs = s.outboundMsgs
<1> DEFINE e == Failed(s, left)
<1>1. e \in MQTTAsyncs
  BY Nothing DEF MQTTAsyncs, Failed
<1>2. /\ e.connected = s.connected /\ e.connect_state = s.connect_state /\ e.connect = s.connect
      /\ e.inbox = <<>> /\ e.retrying = s.retrying /\ e.outboundMsgs = s.outboundMsgs /\ e.link = left
  BY DEF MQTTAsyncs, Failed
<1> QED BY <1>1, <1>2

LEMMA FailedSound ==
    ASSUME NEW s, Sound(s), s.connected = 0, s.connect_state = "NOT_IN_PROGRESS",
           NEW left \in {"none", "broken"}
    PROVE  /\ Sound(Failed(s, left)) /\ Failed(s, left).connect = s.connect
           /\ Failed(s, left).connected = 0 /\ Failed(s, left).connect_state = "NOT_IN_PROGRESS"
<1> DEFINE e == Failed(s, left)
<1>1. /\ e \in MQTTAsyncs
      /\ e.connected = s.connected /\ e.connect_state = s.connect_state /\ e.connect = s.connect
      /\ e.inbox = <<>> /\ e.retrying = s.retrying /\ e.outboundMsgs = s.outboundMsgs /\ e.link = left
  BY FailedTyped DEF Sound
<1> HIDE DEF e
<1>2. Sound(e)
  BY <1>1 DEF Sound, Agrees, Started, Bounded
<1> QED BY <1>1, <1>2 DEF e

LEMMA ProcessConnectFailsInv ==
    ASSUME Inv, NEW c, First(c), ProcessConnectFails(c), UNCHANGED <<app, conns>>
    PROVE  Inv'
<1> DEFINE a == [c EXCEPT !.ver = AttemptVersion(c)]
           d == Detached
           x(left) == Failed(d, left)
<1>1. a \in Attempts /\ a # NoCommand
  BY DetachedSound, CommandKinds, AttemptIsCommand, AttemptTyped DEF ProcessConnectFails
<1>2. /\ Sound(d) /\ d.connected = 0 /\ d.connect_state = "NOT_IN_PROGRESS"
      /\ d \in MQTTAsyncs /\ d.connect = m.connect
  BY DetachedSound DEF ProcessConnectFails, Sound
<1>3. PICK left \in {"none", "broken"} :
        m' = IF CheckConn(a) THEN AddCommand(x(left), NextAttempt(a))
             ELSE StartConnectRetry([x(left) EXCEPT !.connect = a])
  BY DEF ProcessConnectFails, Failed
<1>4. taken' = taken /\ got' \in {got, NoPacket} /\ session' \in {0, 1}
  BY DEF ProcessConnectFails, Orphaned, Inv, TypeOK
<1>5. faults' \in 0..MaxFaults
  BY FaultTyped DEF ProcessConnectFails, Inv, TypeOK, FaultKinds
<1> HIDE DEF a, d
<1> DEFINE e == x(left)
           f == [e EXCEPT !.connect = a]
<1>6. Sound(e) /\ e.connect = m.connect /\ e.connected = 0 /\ e.connect_state = "NOT_IN_PROGRESS"
  <2>1. left \in {"none", "broken"}
    BY <1>3
  <2> QED BY <1>2, <2>1, FailedSound
<1>7. e \in MQTTAsyncs
  BY <1>6 DEF Sound
<1>8. m' = IF CheckConn(a) THEN AddCommand(e, NextAttempt(a)) ELSE StartConnectRetry(f)
  BY <1>3
<1> HIDE DEF e
<1>10. f \in MQTTAsyncs
  BY <1>1, <1>7 DEF MQTTAsyncs
<1>11. /\ f.connected = 0 /\ f.connect_state = "NOT_IN_PROGRESS" /\ f.connect = a
       /\ f.outboundMsgs = e.outboundMsgs
  BY <1>6, <1>7 DEF MQTTAsyncs
<1> HIDE DEF f
<1>12. Sound(f)
  BY <1>1, <1>6, <1>10, <1>11 DEF Sound, Agrees, Started, Bounded
<1>13. CASE CheckConn(a)
  <2> DEFINE b == AddCommand(e, NextAttempt(a))
  <2>1. NextAttempt(a) \in Commands
    BY <1>1, <1>13, NextAttemptTyped, AttemptIsCommand
  <2>2. Sound(b) /\ b.connect = m.connect
    BY <1>6, <2>1, AddCommandSound
  <2>3. m' = b
    BY <1>8, <1>13
  <2> HIDE DEF b
  <2> QED BY <1>4, <1>5, <2>2, <2>3, Framed
<1>14. CASE ~CheckConn(a)
  <2> DEFINE b == StartConnectRetry(f)
  <2>1. Sound(b) /\ b.connect = a
    BY <1>1, <1>11, <1>12, StartConnectRetrySound
  <2>2. m' = b
    BY <1>8, <1>14
  <2> HIDE DEF b
  <2> QED BY <1>1, <1>4, <1>5, <2>1, <2>2, Framed
<1> QED BY <1>13, <1>14

\* A write ends in one of three ways, and only one of them is a fault.
LEMMA WritesTyped ==
    ASSUME Inv, NEW s, NEW how \in Writes(s), WriteFault(how)
    PROVE  how \in {"complete", "interrupted", "error"} /\ faults' \in 0..MaxFaults
  BY FaultTyped DEF Writes, WriteFault, Inv, TypeOK, FaultKinds

\* What is not an attempt and not a disconnect waits for a connection.
LEMMA ReadyConnected ==
    ASSUME Inv, NEW c, First(c), c.type \in {"SUBSCRIBE", "PUBLISH0", "PUBLISH1"}
    PROVE  /\ c \in Requests /\ m.connect # NoCommand
           /\ c.type = "PUBLISH1" /\ Version = 5 => Len(m.outboundMsgs) < MaxInflight
  BY DetachedSound, CommandKinds DEF First, Ready, Inv, Sound, Started, MQTTAsyncs

LEMMA ProcessAcknowledgedInv ==
    ASSUME Inv, NEW c, First(c), ProcessAcknowledged(c), UNCHANGED <<app, conns>>
    PROVE  Inv'
<1> DEFINE d == Detached
           x == [d EXCEPT !.outboundMsgs = Append(d.outboundMsgs, Message(c))]
           s == IF c.type = "SUBSCRIBE" THEN d ELSE x
           reply(val) == IF c.type = "SUBSCRIBE" THEN SUBACK(c, val) ELSE PUBACK(c)
<1>1. c \in Requests /\ m.connect # NoCommand /\ c.type \in {"SUBSCRIBE", "PUBLISH1"}
      /\ (c.type = "PUBLISH1" /\ Version = 5 => Len(m.outboundMsgs) < MaxInflight)
  BY ReadyConnected DEF ProcessAcknowledged
<1>2. Sound(d) /\ d \in MQTTAsyncs /\ d.connect = m.connect /\ d.outboundMsgs = m.outboundMsgs
  BY DetachedSound DEF Sound
<1>3. PICK how \in Writes(m), val \in {"ok", "fail"} :
        /\ WriteFault(how)
        /\ m' = IF how = "error" THEN Answer(DisconnectInternal(s), c, "fail")
                ELSE [Write(s, how, reply(val)) EXCEPT !.responses = Append(@, c)]
  BY <1>2 DEF ProcessAcknowledged, MQTTAsyncs
<1>4. faults' \in 0..MaxFaults
  BY <1>3, WritesTyped
<1>5. taken' = taken /\ got' = got /\ session' \in {0, 1}
  BY DEF ProcessAcknowledged, Inv, TypeOK
<1> HIDE DEF d
<1>6. c.type = "PUBLISH1" => Sound(x) /\ x.connect = m.connect
  <2> SUFFICES ASSUME c.type = "PUBLISH1" PROVE Sound(x) /\ x.connect = m.connect
    OBVIOUS
  <2> DEFINE q == Append(d.outboundMsgs, Message(c))
             y == [d EXCEPT !.outboundMsgs = q]
  <2>1. d.outboundMsgs \in Seq(Messages) /\ Message(c) \in Messages
    BY <1>1, <1>2, PacketTyped DEF MQTTAsyncs
  <2>2. q \in Seq(Messages) /\ Len(q) = Len(d.outboundMsgs) + 1 /\ Len(d.outboundMsgs) \in Nat
    BY <2>1, AppendProperties, LenProperties
  <2>3. x = y
    OBVIOUS
  <2> HIDE DEF q
  <2>4. y \in MQTTAsyncs
    BY <1>2, <2>2 DEF MQTTAsyncs
  <2>5. /\ y.connected = d.connected /\ y.connect_state = d.connect_state /\ y.link = d.link
        /\ y.connect = d.connect /\ y.retrying = d.retrying /\ y.inbox = d.inbox
        /\ y.outboundMsgs = q
    BY <1>2 DEF MQTTAsyncs
  <2> HIDE DEF y
  <2>6. Bounded(y)
    BY <1>1, <1>2, <2>2, <2>5 DEF Bounded
  <2>7. Sound(y)
    BY <1>2, <2>4, <2>5, <2>6 DEF Sound, Agrees, Started
  <2> HIDE DEF x
  <2> QED BY <1>2, <2>3, <2>5, <2>7
<1> HIDE DEF x
<1>7. Sound(s) /\ s.connect = m.connect
  BY <1>1, <1>2, <1>6
<1> HIDE DEF s
<1>8. CASE how = "error"
  <2> DEFINE a == Answer(DisconnectInternal(s), c, "fail")
  <2>1. Sound(a) /\ a.connect = m.connect
    BY <1>7, DisconnectInternalSound, AnswerSound DEF Outcomes
  <2>2. m' = a
    BY <1>3, <1>8
  <2> HIDE DEF a
  <2> QED BY <1>4, <1>5, <2>1, <2>2, Framed
<1>9. CASE how # "error"
  <2> DEFINE w == Write(s, how, reply(val))
             a == [w EXCEPT !.responses = Append(@, c)]
  <2>1. reply(val) \in Packets
    BY <1>1, <1>3, PacketTyped
  <2>2. Sound(w) /\ w.connect = m.connect
    BY <1>1, <1>7, <2>1, WriteSound
  <2>3. m' = a
    BY <1>3, <1>9
  <2> HIDE DEF w
  <2>4. Sound(a) /\ a.connect = m.connect
    BY <1>1, <2>2, AppendResponseSound
  <2> HIDE DEF a
  <2> QED BY <1>4, <1>5, <2>3, <2>4, Framed
<1> QED BY <1>8, <1>9

LEMMA ProcessPublish0Inv ==
    ASSUME Inv, NEW c, First(c), ProcessPublish0(c), UNCHANGED <<app, conns>>
    PROVE  Inv'
<1> DEFINE d == Detached
           e == [d EXCEPT !.pending_write = c.call]
<1>1. c \in Requests /\ m.connect # NoCommand /\ c.type = "PUBLISH0" /\ c.call \in Publishes0
  BY ReadyConnected, RequestFields DEF ProcessPublish0
<1>2. Sound(d) /\ d \in MQTTAsyncs /\ d.connect = m.connect
  BY DetachedSound DEF Sound
<1>3. PICK how \in Writes(m) :
        /\ WriteFault(how)
        /\ taken' = IF how = "interrupted" THEN [cmd |-> c, stage |-> "flag"] ELSE taken
        /\ m' = IF how = "complete" THEN Answer(d, c, "ok")
                ELSE IF how = "interrupted" THEN Write(d, how, NoPacket)
                ELSE Answer(DisconnectInternal(e), c, "fail")
  BY DEF ProcessPublish0
<1>4. faults' \in 0..MaxFaults
  BY <1>3, WritesTyped
<1>5. got' = got /\ session' = session
  BY DEF ProcessPublish0
<1> HIDE DEF d
<1>6. e \in MQTTAsyncs
  BY <1>1, <1>2 DEF MQTTAsyncs
<1>7. /\ e.connected = d.connected /\ e.connect_state = d.connect_state /\ e.link = d.link
      /\ e.connect = d.connect /\ e.retrying = d.retrying /\ e.inbox = d.inbox
      /\ e.outboundMsgs = d.outboundMsgs
  BY <1>2 DEF MQTTAsyncs
<1> HIDE DEF e
<1>8. Sound(e)
  BY <1>2, <1>6, <1>7 DEF Sound, Agrees, Started, Bounded
<1> DEFINE a == Answer(d, c, "ok")
           b == Write(d, how, NoPacket)
           f == Answer(DisconnectInternal(e), c, "fail")
<1>9. m' \in {a, b, f}
  BY <1>3
<1>10. /\ Sound(a) /\ a.connect = m.connect
       /\ Sound(b) /\ b.connect = m.connect
       /\ Sound(f) /\ f.connect = m.connect
  BY <1>1, <1>2, <1>7, <1>8, AnswerSound, WriteSound, DisconnectInternalSound, PacketTyped DEF Outcomes
<1> HIDE DEF a, b, f
<1>11. Sound(m') /\ m'.connect = m.connect
  BY <1>9, <1>10
<1>12. /\ taken' \in [cmd : Requests \cup {NoCommand}, stage : {"loop", "flag", "append", "wait"}]
       /\ TakenInv'
  BY <1>1, <1>3 DEF Inv, TypeOK, TakenInv
<1> QED BY <1>4, <1>5, <1>11, <1>12 DEF Inv, TypeOK, Sound, GotInv

LEMMA ProcessDisconnectInv ==
    ASSUME Inv, NEW c, First(c), ProcessDisconnect(c), UNCHANGED <<app, conns>>
    PROVE  Inv'
<1> DEFINE d == Detached
           state == IF d.connect_state = "NOT_IN_PROGRESS" THEN d.connect_state ELSE "DISCONNECTING"
           e == [d EXCEPT !.disconnect = c, !.connect_state = state]
<1>1. c \in Commands /\ Sound(d) /\ d \in MQTTAsyncs /\ d.connect = m.connect
      /\ d.connected = m.connected /\ d.connect_state = m.connect_state
  BY DetachedSound DEF Sound
<1>2. \/ m' = e
      \/ /\ ~(m.connected = 0 /\ m.connect_state = "NOT_IN_PROGRESS")
         /\ \E elapsed \in Elapsed(c) : m' = CheckDisconnect(e, c, elapsed)
  BY <1>1 DEF ProcessDisconnect, MQTTAsyncs
<1>3. UNCHANGED <<taken, got, session, faults>>
  BY DEF ProcessDisconnect
<1> HIDE DEF d
<1>4. state \in ConnectStates
  BY <1>1 DEF MQTTAsyncs, ConnectStates
<1>5. e \in MQTTAsyncs
  <2> HIDE DEF state
  <2> QED BY <1>1, <1>4 DEF MQTTAsyncs
<1>6. /\ e.connected = d.connected /\ e.connect_state = state /\ e.link = d.link
      /\ e.connect = d.connect /\ e.retrying = d.retrying /\ e.inbox = d.inbox
      /\ e.outboundMsgs = d.outboundMsgs
  BY <1>1 DEF MQTTAsyncs
<1> HIDE DEF e
<1>7. d.connected \in {0, 1} /\ d.connect_state \in ConnectStates
  BY <1>1 DEF MQTTAsyncs
<1>8. Sound(e)
  BY <1>1, <1>5, <1>6, <1>7 DEF Sound, Agrees, Started, Bounded, ConnectStates
<1>9. CASE m' = e
  BY <1>1, <1>3, <1>6, <1>8, <1>9, Framed DEF Inv, TypeOK
<1>10. ASSUME NEW elapsed \in Elapsed(c), m' = CheckDisconnect(e, c, elapsed),
              ~(m.connected = 0 /\ m.connect_state = "NOT_IN_PROGRESS")
       PROVE  Inv'
  <2> DEFINE a == CheckDisconnect(e, c, elapsed)
  <2>1. e.connect # NoCommand
    BY <1>1, <1>6, <1>7, <1>10 DEF Sound, Started
  <2>2. Sound(a) /\ a.connect = m.connect
    BY <1>1, <1>6, <1>8, <2>1, CheckDisconnectSound
  <2>3. m' = a
    BY <1>10
  <2> HIDE DEF a
  <2> QED BY <1>3, <2>2, <2>3, Framed DEF Inv, TypeOK
<1> QED BY <1>2, <1>9, <1>10

LEMMA ProcessCommandInv ==
    ASSUME Inv, ProcessCommand
    PROVE  Inv'
<1>1. PICK c : /\ First(c)
               /\ \/ ProcessBusyConnect(c)
                  \/ ProcessConnect(c)
                  \/ ProcessConnectFails(c)
                  \/ ProcessAcknowledged(c)
                  \/ ProcessPublish0(c)
                  \/ ProcessDisconnect(c)
               /\ UNCHANGED <<app, conns>>
  BY DEF ProcessCommand
<1> QED BY <1>1, ProcessBusyConnectInv, ProcessConnectInv, ProcessConnectFailsInv,
           ProcessAcknowledgedInv, ProcessPublish0Inv, ProcessDisconnectInv

LEMMA FlagPendingWriteInv ==
    ASSUME Inv, FlagPendingWrite
    PROVE  Inv'
<1> DEFINE c == taken.cmd
           e == [m EXCEPT !.pending_write = c.call]
<1>1. m \in MQTTAsyncs
  BY DEF Inv, Sound
<1>2. c \in Requests /\ c.type = "PUBLISH0" /\ taken' = [taken EXCEPT !.stage = "append"]
  BY AttemptIsCommand DEF Inv, TypeOK, TakenInv, FlagPendingWrite
<1>3. c.call \in Publishes0
  BY <1>2, RequestFields
<1>4. m' = e
  BY DEF FlagPendingWrite
<1> HIDE DEF c
<1>5. e \in MQTTAsyncs
  BY <1>1, <1>3 DEF MQTTAsyncs
<1>6. /\ e.connected = m.connected /\ e.connect_state = m.connect_state /\ e.link = m.link
      /\ e.connect = m.connect /\ e.retrying = m.retrying /\ e.inbox = m.inbox
      /\ e.outboundMsgs = m.outboundMsgs
  BY <1>1 DEF MQTTAsyncs
<1> HIDE DEF e
<1>7. Sound(e)
  BY <1>5, <1>6 DEF Inv, Sound, Agrees, Started, Bounded
<1>8. /\ taken' \in [cmd : Requests \cup {NoCommand}, stage : {"loop", "flag", "append", "wait"}]
      /\ TakenInv'
  BY <1>2 DEF Inv, TypeOK, TakenInv, c
<1>9. UNCHANGED <<got, app, conns, session, faults>>
  BY DEF FlagPendingWrite
<1> QED BY <1>4, <1>6, <1>7, <1>8, <1>9 DEF Inv, TypeOK, Sound, GotInv

LEMMA AppendResponseInv ==
    ASSUME Inv, AppendResponse
    PROVE  Inv'
<1> DEFINE c == taken.cmd
           e == [m EXCEPT !.responses = Append(@, c)]
<1>1. c \in Requests /\ taken' = [cmd |-> NoCommand, stage |-> "loop"]
  BY AttemptIsCommand DEF Inv, TypeOK, TakenInv, AppendResponse
<1>2. m' = e
  BY DEF AppendResponse
<1> HIDE DEF c
<1>3. Sound(e) /\ e.connect = m.connect
  BY <1>1, AppendResponseSound DEF Inv
<1> HIDE DEF e
<1>4. /\ taken' \in [cmd : Requests \cup {NoCommand}, stage : {"loop", "flag", "append", "wait"}]
      /\ TakenInv'
  BY <1>1 DEF TakenInv
<1>5. UNCHANGED <<got, app, conns, session, faults>>
  BY DEF AppendResponse
<1> QED BY <1>2, <1>3, <1>4, <1>5 DEF Inv, TypeOK, Sound, GotInv

LEMMA WaitInv ==
    ASSUME Inv, Wait \/ Wake
    PROVE  Inv'
<1>1. UNCHANGED <<m, got, app, conns, session, faults>>
  BY DEF Wait, Wake
<1>2. /\ taken' \in [cmd : Requests \cup {NoCommand}, stage : {"loop", "flag", "append", "wait"}]
      /\ TakenInv'
  BY DEF Inv, TypeOK, TakenInv, Wait, Wake
<1> QED BY <1>1, <1>2 DEF Inv, TypeOK, GotInv

LEMMA CheckTimeoutsInv ==
    ASSUME Inv, CheckTimeouts
    PROVE  Inv'
<1>1. PICK elapsed \in Elapsed(m.disconnect), late \in BOOLEAN, due \in BOOLEAN :
        LET s == IF m.connect_state = "DISCONNECTING"
                 THEN CheckDisconnect(m, m.disconnect, elapsed) ELSE m
            expired == late /\ s.connect_state # "NOT_IN_PROGRESS"
            retry == AutoReconnect = 1 /\ s.retrying = 1 /\ (s.reconnectNow = 1 \/ due)
        IN  /\ IF expired THEN Fault("timeout") ELSE NoFault
            /\ m' = IF expired THEN NextOrClose(s)
                    ELSE IF retry THEN [AddCommand(s, Restarted(s.connect)) EXCEPT !.reconnectNow = 0]
                    ELSE s
  BY DEF CheckTimeouts
<1> DEFINE s == IF m.connect_state = "DISCONNECTING"
                THEN CheckDisconnect(m, m.disconnect, elapsed) ELSE m
           expired == late /\ s.connect_state # "NOT_IN_PROGRESS"
           a == AddCommand(s, Restarted(s.connect))
           e == [a EXCEPT !.reconnectNow = 0]
<1>2. /\ IF expired THEN Fault("timeout") ELSE NoFault
      /\ \/ expired /\ m' = NextOrClose(s)
         \/ s.retrying = 1 /\ m' = e
         \/ m' = s
  BY <1>1
<1>3. faults' \in 0..MaxFaults
  <2> HIDE DEF expired
  <2> QED BY <1>2, FaultTyped DEF FaultKinds, Inv, TypeOK
<1>4. taken' = [taken EXCEPT !.stage = "loop"] /\ UNCHANGED <<got, app, conns, session>>
  BY DEF CheckTimeouts
<1>5. /\ taken' \in [cmd : Requests \cup {NoCommand}, stage : {"loop", "flag", "append", "wait"}]
      /\ TakenInv'
  BY <1>4 DEF Inv, TypeOK, TakenInv
<1>6. Sound(s) /\ s.connect = m.connect
  <2>1. m.connect_state = "DISCONNECTING" => m.connect # NoCommand
    BY DEF Inv, Sound, Started
  <2> QED BY <2>1, CheckDisconnectSound DEF Inv
<1> HIDE DEF s
<1>7. /\ expired => s.connect # NoCommand
      /\ s.retrying = 1 => s.connect # NoCommand
  BY <1>6 DEF Sound, Started
<1>8. s.connect # NoCommand => Restarted(s.connect) \in Commands
  BY <1>6, AttemptTyped, AttemptIsCommand DEF Sound, MQTTAsyncs
<1>9. expired => Sound(NextOrClose(s)) /\ NextOrClose(s).connect = m.connect
  BY <1>6, <1>7, NextOrCloseSound
<1>10. s.retrying = 1 => Sound(a) /\ a.connect = m.connect
  BY <1>6, <1>7, <1>8, AddCommandSound
<1> HIDE DEF a
<1>11. s.retrying = 1 => Sound(e) /\ e.connect = m.connect
  <2> SUFFICES ASSUME s.retrying = 1 PROVE Sound(e) /\ e.connect = m.connect
    OBVIOUS
  <2>1. Sound(a) /\ a \in MQTTAsyncs /\ a.connect = m.connect
    BY <1>10 DEF Sound
  <2>2. e \in MQTTAsyncs
    BY <2>1 DEF MQTTAsyncs
  <2>3. /\ e.connected = a.connected /\ e.connect_state = a.connect_state /\ e.link = a.link
        /\ e.connect = a.connect /\ e.retrying = a.retrying /\ e.inbox = a.inbox
        /\ e.outboundMsgs = a.outboundMsgs
    BY <2>1 DEF MQTTAsyncs
  <2> HIDE DEF e
  <2> QED BY <2>1, <2>2, <2>3 DEF Sound, Agrees, Started, Bounded
<1> HIDE DEF e
<1> DEFINE b == NextOrClose(s)
<1>12. Sound(m') /\ m'.connect = m.connect
  <2>1. expired => Sound(b) /\ b.connect = m.connect
    BY <1>9
  <2>2. (expired /\ m' = b) \/ (s.retrying = 1 /\ m' = e) \/ m' = s
    BY <1>2
  <2> HIDE DEF b, expired
  <2> QED BY <1>6, <1>11, <2>1, <2>2
<1> QED BY <1>3, <1>4, <1>5, <1>12 DEF Inv, TypeOK, Sound, GotInv

LEMMA ContinueWritesInv ==
    ASSUME Inv, ContinueWrites
    PROVE  Inv'
<1> DEFINE s == [m EXCEPT !.unsent = <<>>]
           w == Write(s, "complete", m.unsent[1])
<1>1. m \in MQTTAsyncs
  BY DEF Inv, Sound
<1>2. s \in MQTTAsyncs
  BY <1>1, Nothing DEF MQTTAsyncs
<1>3. /\ s.connected = m.connected /\ s.connect_state = m.connect_state /\ s.link = m.link
      /\ s.connect = m.connect /\ s.retrying = m.retrying /\ s.inbox = m.inbox
      /\ s.outboundMsgs = m.outboundMsgs
  BY <1>1 DEF MQTTAsyncs
<1>4. PICK read \in BOOLEAN : m' \in {WriteComplete(w, "ok", read), WriteComplete(s, "fail", read)}
  BY DEF ContinueWrites
<1>5. m.unsent[1] \in Packets
  <2>1. m.unsent \in {<<>>} \cup {<<p>> : p \in Packets} /\ m.unsent # <<>>
    BY <1>1 DEF ContinueWrites, MQTTAsyncs
  <2>2. PICK p \in Packets : m.unsent = <<p>>
    BY <2>1
  <2> QED BY <2>2
<1>6. UNCHANGED <<taken, got, app, conns, session, faults>>
  BY DEF ContinueWrites
<1> HIDE DEF s
<1>7. Sound(s)
  BY <1>2, <1>3 DEF Inv, Sound, Agrees, Started, Bounded
<1>8. Sound(w) /\ w.connect = m.connect
  BY <1>3, <1>5, <1>7, WriteSound
<1> HIDE DEF w
<1> DEFINE a == WriteComplete(w, "ok", read)
           b == WriteComplete(s, "fail", read)
<1>9. Sound(a) /\ a.connect = m.connect /\ Sound(b) /\ b.connect = m.connect
  BY <1>3, <1>7, <1>8, WriteCompleteSound
<1>10. m' \in {a, b}
  BY <1>4
<1> HIDE DEF a, b
<1> QED BY <1>6, <1>9, <1>10, Framed DEF Inv, TypeOK

LEMMA CycleConnectingInv ==
    ASSUME Inv, CycleConnecting
    PROVE  Inv'
<1>1. m \in MQTTAsyncs /\ m.connect_state = "TCP_IN_PROGRESS" /\ m.connect # NoCommand
      /\ UNCHANGED <<taken, app, conns>>
  BY DEF CycleConnecting, Inv, Sound, Started
<1>2. \/ \E val \in {"refused", "fresh", "present"} :
            /\ Connack(m.connect.ver, val)
            /\ m' = [m EXCEPT !.link = "open", !.inbox = <<CONNACK(val)>>,
                              !.connect_state = "WAIT_FOR_CONNACK"]
            /\ got' = got
      \/ /\ got' \in {NoPacket, SocketError}
         /\ Fault("refuse")
         /\ m' = NextOrClose(m)
         /\ session' = session
  BY DEF CycleConnecting
<1>3. ASSUME NEW val \in {"refused", "fresh", "present"}, Connack(m.connect.ver, val), got' = got,
             m' = [m EXCEPT !.link = "open", !.inbox = <<CONNACK(val)>>,
                            !.connect_state = "WAIT_FOR_CONNACK"]
      PROVE  Inv'
  <2> DEFINE p == CONNACK(val)
             e == [m EXCEPT !.link = "open", !.inbox = <<p>>, !.connect_state = "WAIT_FOR_CONNACK"]
  <2>1. p \in Packets /\ session' \in {0, 1} /\ faults' \in 0..MaxFaults
    BY <1>3, ConnackTyped
  <2>2. m' = e
    BY <1>3
  <2> HIDE DEF p
  <2>3. <<p>> \in Seq(Packets)
    BY <2>1
  <2>4. e \in MQTTAsyncs
    BY <1>1, <2>3 DEF MQTTAsyncs, ConnectStates
  <2>5. /\ e.connected = m.connected /\ e.connect_state = "WAIT_FOR_CONNACK" /\ e.link = "open"
        /\ e.connect = m.connect /\ e.outboundMsgs = m.outboundMsgs
    BY <1>1 DEF MQTTAsyncs
  <2> HIDE DEF e
  <2>6. Sound(e)
    BY <1>1, <2>4, <2>5 DEF Inv, Sound, Agrees, Started, Bounded
  <2> QED BY <1>1, <1>3, <2>1, <2>2, <2>5, <2>6, Framed
<1>4. CASE got' \in {NoPacket, SocketError} /\ Fault("refuse") /\ m' = NextOrClose(m) /\ session' = session
  <2> DEFINE e == NextOrClose(m)
  <2>1. Sound(e) /\ e.connect = m.connect
    BY <1>1, NextOrCloseSound DEF Inv
  <2>2. faults' \in 0..MaxFaults
    BY <1>4, FaultTyped DEF FaultKinds, Inv, TypeOK
  <2>3. m' = e
    BY <1>4
  <2> HIDE DEF e
  <2> QED BY <1>1, <1>4, <2>1, <2>2, <2>3, Framed DEF Inv, TypeOK
<1> QED BY <1>2, <1>3, <1>4

LEMMA CycleErrorInv ==
    ASSUME Inv, CycleError
    PROVE  Inv'
<1> DEFINE e == NextOrClose(m)
<1>1. m.connect_state = "WAIT_FOR_CONNACK" => Sound(e) /\ e.connect = m.connect
  BY NextOrCloseSound DEF Inv, Sound, Started
<1>2. m' = IF m.connect_state = "WAIT_FOR_CONNACK" THEN e ELSE m
  BY DEF CycleError
<1>3. got' = SocketError /\ UNCHANGED <<taken, app, conns, session, faults>>
  BY DEF CycleError
<1> HIDE DEF e
<1> QED BY <1>1, <1>2, <1>3, Framed DEF Inv, TypeOK

LEMMA CyclePacketInv ==
    ASSUME Inv, CyclePacket
    PROVE  Inv'
<1> DEFINE p == Head(m.inbox)
           q == Tail(m.inbox)
           s == [m EXCEPT !.inbox = q]
           r == RemoveMessage(s, p.token)
           f == FinishResponse(r, p)
<1>1. m \in MQTTAsyncs /\ m.inbox \in Seq(Packets) /\ m.inbox # <<>> /\ m.connect # NoCommand
  BY DEF Inv, Sound, MQTTAsyncs, Started, CyclePacket
<1>2. p \in Packets /\ q \in Seq(Packets)
  BY <1>1, HeadTailProperties
<1>3. \/ p.type = "PUBACK" /\ m' = f /\ got' = got
      \/ m' = s /\ got' = p
  <2>1. [m EXCEPT !.inbox = Tail(@)] = s
    BY <1>1 DEF MQTTAsyncs
  <2> QED BY <2>1 DEF CyclePacket
<1>4. UNCHANGED <<taken, app, conns, session, faults>>
  BY DEF CyclePacket
<1> HIDE DEF p, q
<1>5. s \in MQTTAsyncs
  BY <1>1, <1>2 DEF MQTTAsyncs
<1>6. /\ s.connected = m.connected /\ s.connect_state = m.connect_state /\ s.link = m.link
      /\ s.connect = m.connect /\ s.outboundMsgs = m.outboundMsgs
  BY <1>1 DEF MQTTAsyncs
<1> HIDE DEF s
<1>7. Sound(s)
  BY <1>1, <1>5, <1>6 DEF Inv, Sound, Agrees, Started, Bounded
<1>8. Sound(r) /\ r.connect = m.connect
  BY <1>6, <1>7, RemoveMessageSound
<1> HIDE DEF r
<1>9. p.type = "PUBACK" => Sound(f) /\ f.connect = m.connect
  BY <1>2, <1>8, FinishResponseSound
<1> HIDE DEF f
<1>10. Sound(m') /\ m'.connect = m.connect
  BY <1>3, <1>6, <1>7, <1>9
<1>11. got' \in Packets /\ GotInv'
  BY <1>1, <1>2, <1>3, <1>10 DEF Inv, TypeOK, GotInv
<1> QED BY <1>4, <1>10, <1>11 DEF Inv, TypeOK, Sound, TakenInv

LEMMA KeepaliveInv ==
    ASSUME Inv, Keepalive
    PROVE  Inv'
<1> DEFINE e == DisconnectInternal(m)
<1>1. Sound(e) /\ e.connect = m.connect
  BY DisconnectInternalSound DEF Inv
<1>2. m' = e /\ UNCHANGED <<taken, got, app, conns, session>>
  BY DEF Keepalive
<1>3. faults' \in 0..MaxFaults
  BY FaultTyped DEF FaultKinds, Inv, TypeOK, Keepalive
<1> HIDE DEF e
<1> QED BY <1>1, <1>2, <1>3, Framed DEF Inv, TypeOK

\* Nothing to dispatch to, or a broken connection.
LEMMA DispatchNothingInv ==
    ASSUME Inv, DispatchNothing
    PROVE  Inv'
<1>1. got' = NoPacket /\ UNCHANGED <<m, taken, app, conns, session, faults>>
  BY DEF DispatchNothing, Dispatch
<1> QED BY <1>1, Framed DEF Inv, TypeOK

LEMMA DispatchErrorInv ==
    ASSUME Inv, DispatchError
    PROVE  Inv'
<1> DEFINE a == DisconnectInternal(m)
           b == NextOrClose(m)
           c == CloseOnly(m)
<1>1. got' = NoPacket /\ UNCHANGED <<taken, app, conns, session, faults>>
  BY DEF DispatchError, Dispatch, NoFault
<1>2. m' \in {a, c} \/ (m.connect_state # "NOT_IN_PROGRESS" /\ m' = b)
  BY DEF DispatchError
<1>3. Sound(a) /\ a.connect = m.connect /\ Sound(c) /\ c.connect = m.connect
  BY DisconnectInternalSound, CloseOnlySound DEF Inv
<1>4. m.connect_state # "NOT_IN_PROGRESS" => Sound(b) /\ b.connect = m.connect
  BY NextOrCloseSound DEF Inv, Sound, Started
<1> HIDE DEF a, b, c
<1> QED BY <1>1, <1>2, <1>3, <1>4, Framed DEF Inv, TypeOK

LEMMA DispatchConnackInv ==
    ASSUME Inv, DispatchConnack
    PROVE  Inv'
<1> DEFINE s == CompleteConnection(m, got)
<1>1. m.connect # NoCommand /\ m.connect_state = "WAIT_FOR_CONNACK" /\ Sound(m)
  BY DEF DispatchConnack, Inv, GotInv
<1>2. Sound(s) /\ s.connect = m.connect
  BY <1>1, CompleteConnectionSound
<1>3. PICK n \in 0..Len(s.outboundMsgs), how \in Writes(s) :
        /\ (n = Len(s.outboundMsgs)) = (how = "complete")
        /\ WriteFault(how)
        /\ m' = Resend(s, n, how)
  BY DEF DispatchConnack
<1>4. how \in {"complete", "interrupted", "error"} /\ faults' \in 0..MaxFaults
  BY <1>3, WritesTyped
<1>5. got' = NoPacket /\ UNCHANGED <<taken, app, conns, session>>
  BY DEF DispatchConnack, Dispatch
<1> HIDE DEF s
<1> DEFINE e == Resend(s, n, how)
<1>6. Sound(e) /\ e.connect = m.connect
  BY <1>1, <1>2, <1>3, <1>4, ResendSound
<1>7. m' = e
  BY <1>3
<1> HIDE DEF e
<1> QED BY <1>4, <1>5, <1>6, <1>7, Framed DEF Inv, TypeOK

LEMMA DispatchRefusedInv ==
    ASSUME Inv, DispatchRefused
    PROVE  Inv'
<1> DEFINE e == NextOrClose(m)
<1>1. Sound(e) /\ e.connect = m.connect
  BY NextOrCloseSound DEF DispatchRefused, Inv, GotInv
<1>2. m' = e /\ got' = NoPacket /\ UNCHANGED <<taken, app, conns, session, faults>>
  BY DEF DispatchRefused, Dispatch, NoFault
<1> HIDE DEF e
<1> QED BY <1>1, <1>2, Framed DEF Inv, TypeOK

LEMMA DispatchSubackInv ==
    ASSUME Inv, DispatchSuback
    PROVE  Inv'
<1> DEFINE e == FinishResponse(m, got)
<1>1. Sound(e) /\ e.connect = m.connect
  BY FinishResponseSound DEF DispatchSuback, Inv, TypeOK
<1>2. m' = e /\ got' = NoPacket /\ UNCHANGED <<taken, app, conns, session, faults>>
  BY DEF DispatchSuback, Dispatch, NoFault
<1> HIDE DEF e
<1> QED BY <1>1, <1>2, Framed DEF Inv, TypeOK

LEMMA BreakInv ==
    ASSUME Inv, Break
    PROVE  Inv'
<1>1. m \in MQTTAsyncs
  BY DEF Inv, Sound
<1>2. PICK left \in {m.inbox, <<>>} : m' = [m EXCEPT !.link = "broken", !.inbox = left]
  BY DEF Break
<1> DEFINE e == [m EXCEPT !.link = "broken", !.inbox = left]
<1>3. left \in Seq(Packets) /\ (m.inbox = <<>> => left = <<>>)
  BY <1>1, <1>2, Nothing DEF MQTTAsyncs
<1>4. e \in MQTTAsyncs
  BY <1>1, <1>3 DEF MQTTAsyncs
<1>5. /\ e.connected = m.connected /\ e.connect_state = m.connect_state /\ e.link = "broken"
      /\ e.connect = m.connect /\ e.retrying = m.retrying /\ e.inbox = left
      /\ e.outboundMsgs = m.outboundMsgs
  BY <1>1 DEF MQTTAsyncs
<1>6. m' = e
  BY <1>2
<1> HIDE DEF e
<1>7. m.link = "open" \/ m.connect_state = "DISCONNECTING"
  BY DEF Break
<1>8. Sound(e)
  BY <1>3, <1>4, <1>5, <1>7 DEF Inv, Sound, Agrees, Started, Bounded
<1>9. faults' \in 0..MaxFaults /\ UNCHANGED <<taken, got, app, conns, session>>
  BY FaultTyped DEF FaultKinds, Inv, TypeOK, Break
<1> QED BY <1>5, <1>6, <1>8, <1>9, Framed DEF Inv, TypeOK

LEMMA ExpireInv ==
    ASSUME Inv, Expire
    PROVE  Inv'
<1>1. UNCHANGED <<m, taken, got, app, conns>> /\ session' \in {0, 1}
  BY DEF Expire
<1>2. faults' \in 0..MaxFaults
  BY FaultTyped DEF FaultKinds, Inv, TypeOK, Expire
<1> QED BY <1>1, <1>2, Framed DEF Inv, TypeOK
-----------------------------------------------------------------------------
(* The theorems.                                                           *)

LEMMA InitInv == Init => Inv
<1> SUFFICES ASSUME Init PROVE Inv
  OBVIOUS
<1>1. /\ m.connected = 0 /\ m.connect_state = "NOT_IN_PROGRESS" /\ m.link = "none"
      /\ m.connect = NoCommand /\ m.retrying = 0 /\ m.inbox = <<>> /\ m.outboundMsgs = <<>>
  BY DEF Init
<1>2. m \in MQTTAsyncs
  <2>1. [r \in Calls |-> "unmade"] \in [Calls -> Outcomes]
    BY DEF Outcomes
  <2> QED BY <2>1, Nothing, Ids DEF Init, MQTTAsyncs, ConnectStates
<1>3. Sound(m)
  BY <1>1, <1>2 DEF Sound, Agrees, Started, Bounded
<1>4. TypeOK /\ GotInv /\ TakenInv
  BY <1>2, PacketTyped DEF Init, TypeOK, GotInv, TakenInv
<1> QED BY <1>3, <1>4 DEF Inv

LEMMA NextInv == Inv /\ [Next]_vars => Inv'
<1> SUFFICES ASSUME Inv, [Next]_vars PROVE Inv'
  OBVIOUS
<1>1. ASSUME NEW t \in Threads, NEW r \in Calls, Request(t, r) \/ Disconnect(t, r) PROVE Inv'
  BY <1>1, RequestInv, DisconnectInv
<1>2. ASSUME NEW t \in Threads, Add(t) PROVE Inv'
  BY <1>2, AddInv
<1>3. CASE Connect \/ Reconnect
  BY <1>3, ConnectInv, ReconnectInv
<1>4. CASE SendThread
  BY <1>4, ProcessCommandInv, FlagPendingWriteInv, AppendResponseInv, WaitInv, CheckTimeoutsInv
     DEF SendThread
<1>5. CASE ReceiveThread
  BY <1>5, ContinueWritesInv, CycleConnectingInv, CycleErrorInv, CyclePacketInv, KeepaliveInv,
     DispatchNothingInv, DispatchErrorInv, DispatchConnackInv, DispatchRefusedInv, DispatchSubackInv
     DEF ReceiveThread
<1>6. CASE Break \/ Expire
  BY <1>6, BreakInv, ExpireInv
<1>7. CASE UNCHANGED vars
  BY <1>7 DEF vars, Inv, TypeOK, GotInv, TakenInv
<1> QED BY <1>1, <1>2, <1>3, <1>4, <1>5, <1>6, <1>7 DEF Next, Application

\* The connection state, the receive maximum and the types, for any number
\* of threads, calls, URIs, ids and faults.
THEOREM Invariant == Spec => []Inv
<1> QED BY InitInv, NextInv, PTL DEF Spec

\* Every variable and every field of the structure has its type.
THEOREM TypeCorrect == Spec => []TypeOK
<1>1. Inv => TypeOK
  BY DEF Inv
<1> QED BY <1>1, Invariant, PTL

\* connected, connect_state and the socket agree, whichever thread opened,
\* completed, lost or closed the connection last.
THEOREM ConnectionSound == Spec => []ConnectionAgrees
<1>1. Inv => ConnectionAgrees
  BY DEF Inv, Sound, ConnectionAgrees
<1> QED BY <1>1, Invariant, PTL

\* processCommand never exceeds the receive maximum of an MQTT 5 broker.
THEOREM ReceiveMaximumRespected == Spec => []InflightBounded
<1>1. Inv => InflightBounded
  BY DEF Inv, Sound, Bounded, InflightBounded
<1> QED BY <1>1, Invariant, PTL
=============================================================================
