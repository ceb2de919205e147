----------------------------- MODULE MqttAsync -----------------------------
(***************************************************************************)
(* One client handle of the asynchronous MQTT client, MQTTAsync.c, and the *)
(* threads that share it:                                                  *)
(*   the application's threads, which queue commands,                      *)
(*   the send thread, which takes them from the queue (processCommand) and *)
(*   watches the timeouts (checkTimeouts),                                 *)
(*   the receive thread, which reads a packet (cycle), releases            *)
(*   mqttasync_mutex, takes it again and dispatches the packet.            *)
(*                                                                         *)
(* m is the MQTTAsyncs structure with its Clients, its part of the global  *)
(* command list and its socket.  A function of the source that is called   *)
(* with mqttasync_mutex held is an operator from m to m, so a handler is   *)
(* one step; it is cut where the code lets go of the mutex or where the    *)
(* other threads do not need it: an API call between its checks and        *)
(* addCommand, cycle before the dispatch, and a QoS 0 publication whose    *)
(* write stopped half way, between the write, the flag pending_write and   *)
(* the list of responses.                                                  *)
(*                                                                         *)
(* The network and the broker are external: a packet written in full puts  *)
(* its answer in m.inbox, to be read at any later time or lost with the    *)
(* connection.  QoS 2, persistence and incoming publications are left to   *)
(* another module, TLS and WebSockets are not built in, subscribe stands   *)
(* for unsubscribe, and a time that has passed is a free choice.           *)
(***************************************************************************)
EXTENDS Naturals, Sequences, FiniteSets, SequencesExt

CONSTANTS
    Threads,        \* the application's threads
    Subscribes,     \* the calls of MQTTAsync_subscribe,
    Publishes0,     \* of MQTTAsync_send with QoS 0,
    Publishes1,     \* with QoS 1,
    Disconnects,    \* and of MQTTAsync_disconnect
    MaxConnects,    \* bound on calls of MQTTAsync_connect and reconnect
    MAX_MSG_ID,     \* 65535 in the source
    Uris,           \* serverURIcount, 1 for a single serverURI
    Version,        \* MQTTVersion, 0 is MQTTVERSION_DEFAULT
    CleanSession,   \* 1: cleansession, or cleanstart in MQTT 5
    KeepSession,    \* 1: MQTT 5 sessionExpiry is not 0
    AutoReconnect,  \* 1: automaticReconnect
    Buffered,       \* maxBufferedMessages and sendWhileDisconnected, 0: no createOptions
    MaxInflight,    \* maxInflightMessages
    DisconnectTimeout, \* 0, or 1 for a disconnect timeout above 0
    Faults,         \* what may go wrong
    MaxFaults       \* bound on how often

Calls == Subscribes \cup Publishes0 \cup Publishes1 \cup Disconnects
FaultKinds == {"refuse",   \* a TCP connection cannot be made
               "reject",   \* the broker refuses the CONNECT packet
               "break",    \* the connection breaks
               "partial",  \* a packet is written in part
               "silent",   \* no PINGRESP within the keepalive interval
               "timeout",  \* connectTimeout passes
               "expire"}   \* the broker forgets the session

ASSUME CallsAssumption ==
    /\ Calls \subseteq Nat \ {0}
    /\ Subscribes \cap (Publishes0 \cup Publishes1 \cup Disconnects) = {}
    /\ Publishes0 \cap (Publishes1 \cup Disconnects) = {}
    /\ Publishes1 \cap Disconnects = {}
ASSUME NumbersAssumption ==
    /\ MaxConnects \in Nat
    /\ MAX_MSG_ID \in Nat \ {0}
    /\ Uris \in Nat \ {0}
    /\ Buffered \in Nat
    /\ MaxInflight \in Nat \ {0}
    /\ MaxFaults \in Nat
ASSUME OptionsAssumption ==
    /\ Version \in {0, 3, 4, 5}
    /\ {CleanSession, KeepSession, AutoReconnect, DisconnectTimeout} \subseteq {0, 1}
    /\ Faults \subseteq FaultKinds

TypeOf(r) ==
    IF r \in Subscribes THEN "SUBSCRIBE" ELSE IF r \in Publishes0 THEN "PUBLISH0"
    ELSE IF r \in Publishes1 THEN "PUBLISH1" ELSE "DISCONNECT"

MsgIds == 1..MAX_MSG_ID
Tokens == 0..MAX_MSG_ID
Versions == {0, 3, 4, 5}
UriIds == 0..(Uris - 1)

\* call is the API call that asked for the command and holds its callbacks,
\* 0 for a CONNECT and an internal disconnect.
Command(type, call, token, uri, ver) ==
    [type |-> type, call |-> call, token |-> token, uri |-> uri, ver |-> ver]
NoCommand == Command("none", 0, 0, 0, 0)
INTERNAL == Command("INTERNAL", 0, 0, 0, 0)

\* call is not in the packet: it is the call whose packet is answered.
Packet(type, token, val, call) == [type |-> type, token |-> token, val |-> val, call |-> call]
NoPacket == Packet("none", 0, "none", 0)
SocketError == Packet("error", 0, "none", 0)
CONNACK(val) == Packet("CONNACK", 0, val, 0)
SUBACK(c, val) == Packet("SUBACK", c.token, val, c.call)
PUBACK(msg) == Packet("PUBACK", msg.token, "ok", msg.call)
Packets ==
    {NoPacket, SocketError}
    \cup {CONNACK(v) : v \in {"refused", "fresh", "present"}}
    \cup {Packet("SUBACK", t, v, r) : t \in MsgIds, v \in {"ok", "fail"}, r \in Subscribes}
    \cup {Packet("PUBACK", t, "ok", r) : t \in MsgIds, r \in Publishes1}

\* A message of outboundMsgs, with the call that sent it.
Message(c) == [token |-> c.token, call |-> c.call]
Messages == [token : MsgIds, call : Publishes1]

VARIABLES
    m,        \* the MQTTAsyncs structure
    taken,    \* where the send thread is, and the command of an unfinished write
    got,      \* what cycle returned and the receive thread has not dispatched
    app,      \* the command each application thread is about to add
    conns,    \* calls of connect and reconnect so far
    session,  \* 1: the broker keeps a session for this client
    faults    \* faults so far

vars == <<m, taken, got, app, conns, session, faults>>

Fault(k) == k \in Faults /\ faults < MaxFaults /\ faults' = faults + 1
NoFault == faults' = faults
----------------------------------------------------------------------------
(* The end of a call: its callback, or its memory freed without one.       *)

EndWith(outcome, how, calls) ==
    [r \in Calls |->
        IF r \notin calls THEN outcome[r]
        ELSE IF outcome[r] = "pending" THEN how
        ELSE IF how = "lost" THEN outcome[r] ELSE "twice"]

Answer(s, c, how) == [s EXCEPT !.outcome = EndWith(s.outcome, how, {c.call})]

CallsIn(q) == {q[i].call : i \in DOMAIN q}
TokensIn(q) == {q[i].token : i \in DOMAIN q}

\* Mutant of RemoveResponsesAndCommands: the responses are not emptied.
MutRemoveResponsesAndCommands(s) ==
    [s EXCEPT !.commands = <<>>,
              !.outcome = EndWith(@, "fail", CallsIn(s.responses) \cup CallsIn(s.commands))]

\* MQTTAsync_removeResponsesAndCommands.
RemoveResponsesAndCommands(s) ==
    [s EXCEPT !.responses = <<>>, !.commands = <<>>,
              !.outcome = EndWith(@, "fail", CallsIn(s.responses) \cup CallsIn(s.commands))]

\* Mutant of CleanSessionState: the responses and commands stay.
MutCleanSessionState(s) == [s EXCEPT !.outboundMsgs = <<>>, !.msgID = 0]

CleanSessionState(s) ==
    RemoveResponsesAndCommands([s EXCEPT !.outboundMsgs = <<>>, !.msgID = 0])

\* Mutant of CloseOnly: connect_state is not reset.
MutCloseOnly(s) == [s EXCEPT !.link = "none", !.inbox = <<>>, !.unsent = <<>>, !.connected = 0]

\* MQTTAsync_closeOnly; a number of a closed socket is given out again.
CloseOnly(s) ==
    [s EXCEPT !.link = "none", !.inbox = <<>>, !.unsent = <<>>,
              !.connected = 0, !.connect_state = "NOT_IN_PROGRESS"]

CleansOnClose == IF Version = 5 THEN KeepSession = 0 ELSE CleanSession = 1
CloseSession(s) == IF CleansOnClose THEN CleanSessionState(CloseOnly(s)) ELSE CloseOnly(s)

\* Mutant of AddCommand: a CONNECT is ignored behind any command.
MutAddCommand(s, c) ==
    IF c.type = "CONNECT" /\ s.commands # <<>> THEN s ELSE [s EXCEPT !.commands = Append(@, c)]

\* A CONNECT or internal disconnect goes first, unless one like it is first.
AddCommand(s, c) ==
    IF c.type \notin {"CONNECT", "INTERNAL"} THEN [s EXCEPT !.commands = Append(@, c)]
    ELSE IF /\ s.commands # <<>>
            /\ \/ Head(s.commands).type = c.type
               \/ c.type = "INTERNAL" /\ Head(s.commands).type = "DISCONNECT"
         THEN s
         ELSE [s EXCEPT !.commands = <<c>> \o @]

StartConnectRetry(s) ==
    IF AutoReconnect = 1 /\ s.shouldBeConnected = 1 THEN [s EXCEPT !.retrying = 1] ELSE s

DisconnectInternal(s) == IF s.connected = 1 THEN AddCommand(s, INTERNAL) ELSE s

\* The attempts: every URI in turn, with MQTT 3.1.1 and then 3.1 by default.
CheckConn(c) == c.uri + 1 < Uris \/ (c.ver = 4 /\ Version = 0)
NextAttempt(c) ==
    IF Version # 0 THEN [c EXCEPT !.uri = @ + 1]
    ELSE IF c.ver = 3 THEN [c EXCEPT !.uri = @ + 1, !.ver = 0]
    ELSE c
AttemptVersion(c) ==
    IF Version # 0 THEN Version ELSE IF c.ver = 0 THEN 4 ELSE 3
Restarted(c) == IF Version = 0 THEN [c EXCEPT !.ver = 0] ELSE c

\* Mutant of NextOrClose: the last attempt starts no retry.
MutNextOrClose(s) ==
    IF CheckConn(s.connect) THEN AddCommand(CloseOnly(s), NextAttempt(s.connect)) ELSE CloseSession(s)

NextOrClose(s) ==
    IF CheckConn(s.connect) THEN AddCommand(CloseOnly(s), NextAttempt(s.connect))
    ELSE StartConnectRetry(CloseSession(s))

\* elapsed: the timeout of the disconnect command has passed.
CheckDisconnect(s, c, elapsed) ==
    IF s.outboundMsgs # <<>> /\ ~elapsed THEN s
    ELSE IF c.type = "INTERNAL" THEN StartConnectRetry(CloseSession(s))
    ELSE Answer(CloseSession(s), c, "ok")
Elapsed(c) == IF c.type = "INTERNAL" \/ DisconnectTimeout = 0 THEN {TRUE} ELSE BOOLEAN
----------------------------------------------------------------------------
(* The socket.                                                             *)

\* How a write ends: in full, in part, or with SOCKET_ERROR.  A broken
\* connection may still accept a packet.
Writes(s) == IF s.link = "open" THEN {"complete", "interrupted"} ELSE {"complete", "error"}
Write(s, how, reply) ==
    IF how = "interrupted" THEN [s EXCEPT !.unsent = <<reply>>]
    ELSE IF how = "complete" /\ s.link = "open" /\ reply # NoPacket
    THEN [s EXCEPT !.inbox = Append(@, reply)]
    ELSE s
WriteFault(how) == IF how = "interrupted" THEN Fault("partial") ELSE NoFault

\* The answer to a CONNECT packet of version v, and the session it leaves.
Connack(v, val) ==
    /\ val \in {"refused", "fresh", "present"}
    /\ IF val = "refused" THEN Fault("reject") ELSE NoFault
    /\ val # "refused" => (val = "present") = (session = 1 /\ CleanSession = 0 /\ v >= 4)
    /\ session' = IF val = "refused" THEN session ELSE 1 - CleanSession
----------------------------------------------------------------------------
(* The application.                                                        *)

\* Mutant of Successor: the ids do not wrap.
MutSuccessor(i, k) == i + k

\* MQTTAsync_assignMsgId looks at the two lists, not at ids in other hands.
Successor(i, k) == ((i + k - 1) % MAX_MSG_ID) + 1
FreeSteps(s) ==
    {k \in 1..(IF s.msgID = 0 THEN MAX_MSG_ID ELSE MAX_MSG_ID - 1) :
        Successor(s.msgID, k) \notin TokensIn(s.commands) \cup TokensIn(s.responses)}
AssignMsgId(s) ==
    IF FreeSteps(s) = {} THEN 0
    ELSE Successor(s.msgID, CHOOSE k \in FreeSteps(s) : \A j \in FreeSteps(s) : k <= j)

Publications(q) == {i \in DOMAIN q : q[i].type \in {"PUBLISH0", "PUBLISH1"}}
MayBuffer(s) == Buffered > 0 /\ s.shouldBeConnected = 1
BufferFull(s) == Buffered > 0 /\ Cardinality(Publications(s.commands)) >= Buffered

Callable(t, r) ==
    /\ app[t] = NoCommand
    /\ m.outcome[r] = "unmade"
    /\ \A u \in Threads : app[u].call # r

\* The checks of MQTTAsync_send and subscribeMany, up to addCommand.
Request(t, r) ==
    /\ r \in Publishes0 \/ taken.cmd = NoCommand
    /\ r \notin Disconnects
    /\ Callable(t, r)
    /\ m.connected = 1 \/ (r \notin Subscribes /\ MayBuffer(m))
    /\ LET id == IF r \in Publishes0 THEN 0 ELSE AssignMsgId(m)
           full == r \notin Subscribes /\ BufferFull(m)
       IN  /\ r \in Publishes0 \/ id # 0
           /\ m' = IF id = 0 THEN m ELSE [m EXCEPT !.msgID = id]
           /\ app' = IF full THEN app ELSE [app EXCEPT ![t] = Command(TypeOf(r), r, id, 0, 0)]
    /\ UNCHANGED <<taken, got, conns, session, faults>>

\* The checks of MQTTAsync_disconnect1.
Disconnect(t, r) ==
    /\ r \in Disconnects
    /\ Callable(t, r)
    /\ m' = [m EXCEPT !.shouldBeConnected = 0]
    /\ app' = IF m.connected = 0 THEN app
              ELSE [app EXCEPT ![t] = Command("DISCONNECT", r, 0, 0, 0)]
    /\ UNCHANGED <<taken, got, conns, session, faults>>

\* addCommand takes mqttcommand_mutex only.
Add(t) ==
    /\ app[t] # NoCommand
    /\ m' = [AddCommand(m, app[t]) EXCEPT !.outcome[app[t].call] = "pending"]
    /\ app' = [app EXCEPT ![t] = NoCommand]
    /\ UNCHANGED <<taken, got, conns, session, faults>>

\* MQTTAsync_connect takes no mutex for the handle.
Connect ==
    /\ conns < MaxConnects
    /\ conns' = conns + 1
    /\ m' = AddCommand([m EXCEPT !.shouldBeConnected = 1], Command("CONNECT", 0, 0, 0, 0))
    /\ UNCHANGED <<taken, got, app, session, faults>>

\* Called after the first attempt to connect.
Reconnect ==
    /\ taken.cmd = NoCommand
    /\ conns \in 1..(MaxConnects - 1)
    /\ conns' = conns + 1
    /\ m.connect.type = "CONNECT"
    /\ IF AutoReconnect = 1
       THEN /\ m.shouldBeConnected = 1
            /\ m' = [m EXCEPT !.reconnectNow = 1, !.retrying = 1]
       ELSE m' = AddCommand(m, Restarted(m.connect))
    /\ UNCHANGED <<taken, got, app, session, faults>>
----------------------------------------------------------------------------
(* The send thread: processCommand.                                        *)

\* Mutant of Ready: one message more than the receive maximum.
MutReady(c) ==
    \/ c.type \in {"CONNECT", "DISCONNECT", "INTERNAL"}
    \/ /\ m.connected = 1
       /\ m.connect_state = "NOT_IN_PROGRESS"
       /\ m.unsent = <<>>
       /\ Len(m.outboundMsgs) < MAX_MSG_ID - 1
       /\ Version = 5 /\ c.type # "PUBLISH0" => Len(m.outboundMsgs) <= MaxInflight

\* Only the first command may go; with one client the others follow it.
Ready(c) ==
    \/ c.type \in {"CONNECT", "DISCONNECT", "INTERNAL"}
    \/ /\ m.connected = 1
       /\ m.connect_state = "NOT_IN_PROGRESS"
       /\ m.unsent = <<>>
       /\ Len(m.outboundMsgs) < MAX_MSG_ID - 1
       /\ Version = 5 /\ c.type # "PUBLISH0" => Len(m.outboundMsgs) < MaxInflight

First(c) ==
    /\ taken.stage = "loop"
    /\ m.commands # <<>>
    /\ c = Head(m.commands)
    /\ Ready(c)
Detached == [m EXCEPT !.commands = Tail(@)]

ProcessBusyConnect(c) ==
    /\ c.type = "CONNECT"
    /\ m.connected = 1 \/ m.connect_state # "NOT_IN_PROGRESS"
    /\ m' = [Detached EXCEPT !.connect = c]
    /\ UNCHANGED <<taken, got, session, faults>>

\* A socket left open keeps its number: what was read from it finds no client.
Orphaned == IF m.link = "none" THEN got ELSE NoPacket

\* MQTTProtocol_connect: under way, or complete at once and CONNECT sent.
ProcessConnect(c) ==
    /\ c.type = "CONNECT"
    /\ m.connected = 0 /\ m.connect_state = "NOT_IN_PROGRESS"
    /\ LET a == [c EXCEPT !.ver = AttemptVersion(c)]
           s == [Detached EXCEPT !.connect = a, !.unsent = <<>>]
       IN  \/ /\ m' = [s EXCEPT !.link = "connecting", !.inbox = <<>>,
                                !.connect_state = "TCP_IN_PROGRESS"]
              /\ UNCHANGED <<session, faults>>
           \/ \E val \in {"refused", "fresh", "present"} :
                 /\ Connack(a.ver, val)
                 /\ m' = [s EXCEPT !.link = "open", !.inbox = <<CONNACK(val)>>,
                                   !.connect_state = "WAIT_FOR_CONNACK"]
    /\ got' = Orphaned
    /\ UNCHANGED taken

\* No connection, or the CONNECT packet cannot be written: the socket then
\* stays, although no connection is in progress.
ProcessConnectFails(c) ==
    /\ c.type = "CONNECT"
    /\ m.connected = 0 /\ m.connect_state = "NOT_IN_PROGRESS"
    /\ Fault("refuse")
    /\ \E left \in {"none", "broken"} :
         LET a == [c EXCEPT !.ver = AttemptVersion(c)]
             s == [Detached EXCEPT !.shouldBeConnected = 1, !.link = left,
                                   !.inbox = <<>>, !.unsent = <<>>]
         IN  m' = IF CheckConn(a) THEN AddCommand(s, NextAttempt(a))
                  ELSE StartConnectRetry([s EXCEPT !.connect = a])
    /\ got' = Orphaned
    /\ UNCHANGED <<taken, session>>

\* Subscribe and QoS 1: the message is in outboundMsgs before it is written.
ProcessAcknowledged(c) ==
    /\ c.type \in {"SUBSCRIBE", "PUBLISH1"}
    /\ \E how \in Writes(m), val \in {"ok", "fail"} :
         LET reply == IF c.type = "SUBSCRIBE" THEN SUBACK(c, val) ELSE PUBACK(c)
             s == IF c.type = "SUBSCRIBE" THEN Detached
                  ELSE [Detached EXCEPT !.outboundMsgs = Append(@, Message(c))]
         IN  /\ WriteFault(how)
             /\ m' = IF how = "error" THEN Answer(DisconnectInternal(s), c, "fail")
                     ELSE [Write(s, how, reply) EXCEPT !.responses = Append(@, c)]
    /\ UNCHANGED <<taken, got, session>>

\* QoS 0: done, failed with pending_write left behind, or written in part.
ProcessPublish0(c) ==
    /\ c.type = "PUBLISH0"
    /\ \E how \in Writes(m) :
         /\ WriteFault(how)
         /\ taken' = IF how = "interrupted" THEN [cmd |-> c, stage |-> "flag"] ELSE taken
         /\ m' = IF how = "complete" THEN Answer(Detached, c, "ok")
                 ELSE IF how = "interrupted" THEN Write(Detached, how, NoPacket)
                 ELSE Answer(DisconnectInternal([Detached EXCEPT !.pending_write = c.call]), c, "fail")
    /\ UNCHANGED <<got, session>>

ProcessDisconnect(c) ==
    /\ c.type \in {"DISCONNECT", "INTERNAL"}
    /\ LET s == [Detached EXCEPT !.disconnect = c,
                     !.connect_state = IF @ = "NOT_IN_PROGRESS" THEN @ ELSE "DISCONNECTING"]
       IN  IF m.connected = 0 /\ m.connect_state = "NOT_IN_PROGRESS" THEN m' = s
           ELSE \E elapsed \in Elapsed(c) : m' = CheckDisconnect(s, c, elapsed)
    /\ UNCHANGED <<taken, got, session, faults>>

ProcessCommand ==
    \E c \in {Head(m.commands) : i \in DOMAIN m.commands} :
      /\ First(c)
      /\ \/ ProcessBusyConnect(c)
         \/ ProcessConnect(c)
         \/ ProcessConnectFails(c)
         \/ ProcessAcknowledged(c)
         \/ ProcessPublish0(c)
         \/ ProcessDisconnect(c)
      /\ UNCHANGED <<app, conns>>

\* The rest of processCommand after a QoS 0 write that stopped half way.
FlagPendingWrite ==
    /\ taken.stage = "flag"
    /\ m' = [m EXCEPT !.pending_write = taken.cmd.call]
    /\ taken' = [taken EXCEPT !.stage = "append"]
    /\ UNCHANGED <<got, app, conns, session, faults>>

AppendResponse ==
    /\ taken.stage = "append"
    /\ m' = [m EXCEPT !.responses = Append(@, taken.cmd)]
    /\ taken' = [cmd |-> NoCommand, stage |-> "loop"]
    /\ UNCHANGED <<got, app, conns, session, faults>>

\* Nothing to do: the send thread waits on send_cond, for a second at most.
Wait ==
    /\ taken.stage = "loop"
    /\ m.commands # <<>> => ~Ready(Head(m.commands))
    /\ taken' = [taken EXCEPT !.stage = "wait"]
    /\ UNCHANGED <<m, got, app, conns, session, faults>>

\* The wait is over; checkTimeouts has an effect every three seconds.
Wake ==
    /\ taken.stage = "wait"
    /\ taken' = [taken EXCEPT !.stage = "loop"]
    /\ UNCHANGED <<m, got, app, conns, session, faults>>

\* Disconnect, then connect and then retry timeouts, in one turn.
CheckTimeouts ==
    /\ taken.stage = "wait"
    /\ taken' = [taken EXCEPT !.stage = "loop"]
    /\ \E elapsed \in Elapsed(m.disconnect), late, due \in BOOLEAN :
         LET s == IF m.connect_state = "DISCONNECTING"
                  THEN CheckDisconnect(m, m.disconnect, elapsed) ELSE m
             expired == late /\ s.connect_state # "NOT_IN_PROGRESS"
             retry == AutoReconnect = 1 /\ s.retrying = 1 /\ (s.reconnectNow = 1 \/ due)
         IN  /\ IF expired THEN Fault("timeout") ELSE NoFault
             /\ m' = IF expired THEN NextOrClose(s)
                     ELSE IF retry THEN [AddCommand(s, Restarted(s.connect)) EXCEPT !.reconnectNow = 0]
                     ELSE s
             /\ m' # m
    /\ UNCHANGED <<got, app, conns, session>>
----------------------------------------------------------------------------
(* The receive thread.                                                     *)

\* The write goes on in Socket_getReadySocket, without mqttasync_mutex, and
\* ends in MQTTAsync_writeComplete.  Whatever response is first is taken for
\* that of the pending write.  A pending_write whose command has been freed
\* is read all the same, with or without a callback.
Dangling(s) == s.pending_write \notin CallsIn(s.responses) \cup {taken.cmd.call}
WriteComplete(s, how, read) ==
    IF s.pending_write = 0 THEN s
    ELSE IF s.responses = <<>> THEN [s EXCEPT !.pending_write = 0]
    ELSE [s EXCEPT
            !.pending_write = 0,
            !.responses = Tail(@),
            !.outcome = EndWith(EndWith(@, how, IF read THEN {s.pending_write} ELSE {}),
                                "lost", {Head(s.responses).call})]

ContinueWrites ==
    /\ got = NoPacket
    /\ m.unsent # <<>>
    /\ \E read \in IF Dangling(m) THEN BOOLEAN ELSE {TRUE} :
         LET s == [m EXCEPT !.unsent = <<>>]
         IN  \/ m.link = "open" /\ m' = WriteComplete(Write(s, "complete", m.unsent[1]), "ok", read)
             \/ m.link = "broken" /\ m' = WriteComplete(s, "fail", read)
    /\ UNCHANGED <<taken, got, app, conns, session, faults>>

Cycle == got = NoPacket /\ taken.cmd = NoCommand

\* MQTTAsync_connecting: the TCP connection is complete, it has failed, or
\* the CONNECT packet cannot be written, which is a SOCKET_ERROR.
CycleConnecting ==
    /\ Cycle
    /\ m.connect_state = "TCP_IN_PROGRESS"
    /\ \/ \E val \in {"refused", "fresh", "present"} :
            /\ Connack(m.connect.ver, val)
            /\ m' = [m EXCEPT !.link = "open", !.inbox = <<CONNACK(val)>>,
                              !.connect_state = "WAIT_FOR_CONNACK"]
            /\ got' = got
       \/ \E error \in {NoPacket, SocketError} :
            /\ Fault("refuse")
            /\ m' = NextOrClose(m)
            /\ got' = error
            /\ UNCHANGED session
    /\ UNCHANGED <<taken, app, conns>>

\* The end of a broken connection, after the packets that came before it.
CycleError ==
    /\ Cycle
    /\ m.link = "broken"
    /\ m.inbox = <<>>
    /\ m.connect_state # "TCP_IN_PROGRESS"
    /\ m' = IF m.connect_state = "WAIT_FOR_CONNACK" THEN NextOrClose(m) ELSE m
    /\ got' = SocketError
    /\ UNCHANGED <<taken, app, conns, session, faults>>

ResponseTo(s, t) == SelectInSeq(s.responses, LAMBDA c : c.token = t)
FinishResponse(s, p) ==
    LET i == ResponseTo(s, p.token)
        c == s.responses[i]
    IN  IF i = 0 THEN s
        ELSE [Answer(s, c, IF c.call = p.call THEN p.val ELSE "mistaken")
                EXCEPT !.responses = RemoveAt(@, i)]

\* Mutant of RemoveMessage: an acknowledged message stays in flight.
MutRemoveMessage(s, t) == s

RemoveMessage(s, t) ==
    LET i == SelectInSeq(s.outboundMsgs, LAMBDA msg : msg.token = t)
    IN  IF i = 0 THEN s ELSE [s EXCEPT !.outboundMsgs = RemoveAt(@, i)]

\* A PUBACK is handled in cycle, the other packets are left to the dispatch.
CyclePacket ==
    /\ Cycle
    /\ m.inbox # <<>>
    /\ LET p == Head(m.inbox)
           s == [m EXCEPT !.inbox = Tail(@)]
       IN  IF p.type = "PUBACK"
           THEN /\ m' = FinishResponse(RemoveMessage(s, p.token), p)
                /\ got' = got
           ELSE m' = s /\ got' = p
    /\ UNCHANGED <<taken, app, conns, session, faults>>

\* MQTTProtocol_keepalive, called at the end of every cycle.
Keepalive ==
    /\ Cycle
    /\ m.connected = 1
    /\ Fault("silent")
    /\ m' = DisconnectInternal(m)
    /\ UNCHANGED <<taken, got, app, conns, session>>

Dispatch ==
    /\ taken.cmd = NoCommand
    /\ got' = NoPacket
    /\ UNCHANGED <<taken, app, conns, session>>

\* sock is no longer the socket of a client.
DispatchNothing ==
    /\ got # NoPacket
    /\ m.link = "none"
    /\ Dispatch
    /\ UNCHANGED <<m, faults>>

DispatchError ==
    /\ got = SocketError
    /\ m.link # "none"
    /\ Dispatch
    /\ m' = IF m.connected = 1 THEN DisconnectInternal(m)
            ELSE IF m.connect_state # "NOT_IN_PROGRESS" THEN NextOrClose(m)
            ELSE CloseOnly(m)
    /\ NoFault

\* MQTTProtocol_retries on reconnection: all of outboundMsgs in order, up to
\* a write that stops half way or fails.
Resend(s, n, how) ==
    LET sent == [s EXCEPT !.inbox = @ \o
                    IF s.link = "open" THEN [i \in 1..n |-> PUBACK(s.outboundMsgs[i])] ELSE <<>>]
    IN  IF how = "complete" THEN sent
        ELSE IF how = "interrupted" THEN [sent EXCEPT !.unsent = <<PUBACK(s.outboundMsgs[n + 1])>>]
        ELSE DisconnectInternal(sent)

CleansOnConnect(p) == CleanSession = 1 \/ (Version >= 4 /\ p.val = "fresh")
CompleteConnection(s, p) ==
    LET c == [s EXCEPT !.retrying = 0, !.connected = 1, !.connect_state = "NOT_IN_PROGRESS"]
    IN  IF CleansOnConnect(p) THEN CleanSessionState(c) ELSE c

\* MQTTAsync_completeConnection; connect.onSuccess is not followed.
DispatchConnack ==
    /\ got.type = "CONNACK"
    /\ m.link # "none"
    /\ m.connect_state = "WAIT_FOR_CONNACK"
    /\ got.val # "refused"
    /\ Dispatch
    /\ LET s == CompleteConnection(m, got)
       IN  \E n \in 0..Len(s.outboundMsgs), how \in Writes(s) :
             /\ (n = Len(s.outboundMsgs)) = (how = "complete")
             /\ WriteFault(how)
             /\ m' = Resend(s, n, how)

DispatchRefused ==
    /\ got.type = "CONNACK"
    /\ m.link # "none"
    /\ m.connect_state # "WAIT_FOR_CONNACK" \/ got.val = "refused"
    /\ Dispatch
    /\ m' = NextOrClose(m)
    /\ NoFault

DispatchSuback ==
    /\ got.type = "SUBACK"
    /\ m.link # "none"
    /\ Dispatch
    /\ m' = FinishResponse(m, got)
    /\ NoFault
----------------------------------------------------------------------------
(* The network and the broker.                                             *)

Break ==
    /\ m.link = "open" \/ (m.link = "connecting" /\ m.connect_state = "DISCONNECTING")
    /\ Fault("break")
    /\ \E left \in {m.inbox, <<>>} : m' = [m EXCEPT !.link = "broken", !.inbox = left]
    /\ UNCHANGED <<taken, got, app, conns, session>>

Expire ==
    /\ session = 1
    /\ Fault("expire")
    /\ session' = 0
    /\ UNCHANGED <<m, taken, got, app, conns>>
----------------------------------------------------------------------------
Init ==
    /\ m = [connected |-> 0, connect_state |-> "NOT_IN_PROGRESS", shouldBeConnected |-> 0,
            retrying |-> 0, reconnectNow |-> 0, commands |-> <<>>, responses |-> <<>>,
            connect |-> NoCommand, disconnect |-> NoCommand, outboundMsgs |-> <<>>,
            msgID |-> 0, pending_write |-> 0, link |-> "none", inbox |-> <<>>,
            unsent |-> <<>>, outcome |-> [r \in Calls |-> "unmade"]]
    /\ taken = [cmd |-> NoCommand, stage |-> "loop"]
    /\ got = NoPacket
    /\ app = [t \in Threads |-> NoCommand]
    /\ conns = 0
    /\ session = 0
    /\ faults = 0

Application == (\E t \in Threads : Add(t) \/ \E r \in Calls : Request(t, r) \/ Disconnect(t, r))
               \/ Connect \/ Reconnect
SendThread == ProcessCommand \/ FlagPendingWrite \/ AppendResponse \/ Wait \/ Wake \/ CheckTimeouts
ReceiveThread == ContinueWrites \/ CycleConnecting \/ CycleError \/ CyclePacket \/ Keepalive
                 \/ DispatchNothing \/ DispatchError \/ DispatchConnack \/ DispatchRefused
                 \/ DispatchSuback
Next == Application \/ SendThread \/ ReceiveThread \/ Break \/ Expire

Spec == Init /\ [][Next]_vars

\* Each thread is scheduled again and again, checkTimeouts finds the time to
\* have passed now and then, and every packet under way arrives or is lost.
\* Nothing makes the application call.
Fairness ==
    /\ \A t \in Threads : WF_vars(Add(t))
    /\ WF_vars(ProcessCommand) /\ WF_vars(FlagPendingWrite) /\ WF_vars(AppendResponse)
    /\ WF_vars(Wait) /\ WF_vars(Wake) /\ SF_vars(CheckTimeouts)
    /\ WF_vars(ReceiveThread)
LiveSpec == Spec /\ Fairness
----------------------------------------------------------------------------
(* What the client promises.                                               *)

\* The commands the API calls queue, and those of the client itself.
Requests ==
    {c \in [type : {"SUBSCRIBE", "PUBLISH0", "PUBLISH1", "DISCONNECT"}, call : Calls,
            token : Tokens, uri : {0}, ver : {0}] :
        /\ c.type = TypeOf(c.call)
        /\ c.type \in {"SUBSCRIBE", "PUBLISH1"} <=> c.token # 0}
Attempts == [type : {"CONNECT"}, call : {0}, token : {0}, uri : UriIds, ver : Versions]
Commands == Requests \cup Attempts \cup {INTERNAL}

ConnectStates == {"NOT_IN_PROGRESS", "TCP_IN_PROGRESS", "WAIT_FOR_CONNACK", "DISCONNECTING"}
Outcomes == {"unmade", "pending", "ok", "fail", "mistaken", "lost", "twice"}
MQTTAsyncs ==
    [connected : {0, 1}, connect_state : ConnectStates, shouldBeConnected : {0, 1},
     retrying : {0, 1}, reconnectNow : {0, 1}, commands : Seq(Commands), responses : Seq(Requests),
     connect : Attempts \cup {NoCommand}, disconnect : Commands \cup {NoCommand},
     outboundMsgs : Seq(Messages),
     msgID : Tokens, pending_write : Publishes0 \cup {0},
     link : {"none", "connecting", "open", "broken"}, inbox : Seq(Packets),
     unsent : {<<>>} \cup {<<p>> : p \in Packets}, outcome : [Calls -> Outcomes]]

\* Every variable and every field of the structure has its type.
TypeOK ==
    /\ m \in MQTTAsyncs
    /\ taken \in [cmd : Requests \cup {NoCommand}, stage : {"loop", "flag", "append", "wait"}]
    /\ got \in Packets
    /\ app \in [Threads -> Requests \cup {NoCommand}]
    /\ conns \in 0..MaxConnects
    /\ session \in {0, 1}
    /\ faults \in 0..MaxFaults

Agrees(s) ==
    /\ s.connected = 1 => s.connect_state = "NOT_IN_PROGRESS" /\ s.link \in {"open", "broken"}
    /\ s.connect_state = "TCP_IN_PROGRESS" => s.link = "connecting"
    /\ s.connect_state = "WAIT_FOR_CONNACK" => s.link \in {"open", "broken"}
    /\ s.connect_state = "DISCONNECTING" => s.link # "none"

\* connected, connect_state and the socket agree whatever thread last opened,
\* completed, lost or closed the connection: a client that counts as
\* connected, or as waiting for a CONNACK, has a socket to read.
ConnectionAgrees == Agrees(m)

\* A client with automaticReconnect that should be connected always has
\* something under way that gets it connected, or it would stay offline:
\* no failure path forgets both the CONNECT command and retrying.
NeverStranded ==
    Disconnects = {} /\ AutoReconnect = 1 /\ m.shouldBeConnected = 1 =>
        \/ m.connected = 1
        \/ m.connect_state # "NOT_IN_PROGRESS"
        \/ m.retrying = 1
        \/ \E i \in DOMAIN m.commands : m.commands[i].type = "CONNECT"

\* MQTTAsync_isComplete tells the truth of a QoS 1 message: until its
\* callback its id is that of a queued command or of a message in flight,
\* and whatever waits for a PUBACK is still there to be sent again.
IsComplete(t) == t \notin TokensIn(m.commands) /\ t \notin TokensIn(m.outboundMsgs)
PendingIsTracked ==
    /\ \A r \in Publishes1 : m.outcome[r] = "pending" =>
            r \in CallsIn(m.commands) \cup CallsIn(m.responses)
    /\ \A i \in DOMAIN m.responses : m.responses[i].type = "PUBLISH1" =>
            ~IsComplete(m.responses[i].token)

\* The receive maximum of an MQTT 5 broker is never exceeded, sent again
\* messages included.
InflightBounded == Version = 5 => Len(m.outboundMsgs) <= MaxInflight

\* The queue promises what AsyncCalls says of every call but a QoS 0
\* publication: one callback at most, and none before it was made.
Stage(o) == IF o \in {"unmade", "pending"} THEN o ELSE IF o = "twice" THEN "twice" ELSE "ended"
Promise == INSTANCE AsyncCalls WITH
    Calls <- Calls \ Publishes0,
    stage <- [r \in Calls \ Publishes0 |-> Stage(m.outcome[r])]
CalledOnce == Promise!Spec

\* Every QoS 1 publication gets its callback, across broken connections.
PublishCompletes == \A r \in Publishes1 : m.outcome[r] = "pending" ~> m.outcome[r] # "pending"

\* automaticReconnect gets the client connected again after any failure.
Reconnects == (m.shouldBeConnected = 1 /\ conns > 0) ~> m.connected = 1

\* Documented for the disconnect timeout, and not so: the client disconnects
\* once it has passed, whatever is still in flight.
DisconnectCarriedOut ==
    \A r \in Disconnects : m.connected = 1 /\ m.outcome[r] = "pending" ~> m.connected = 0
=============================================================================
