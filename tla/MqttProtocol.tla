---------------------------- MODULE MqttProtocol ----------------------------
(***************************************************************************)
(* QoS 1 and 2 between the client and its broker, in both directions, with *)
(* the file store that is to carry them over a crash.  It models           *)
(*   MQTTProtocolClient.c   the handlers of the acknowledgement packets,   *)
(*   MQTTPersistence.c      what is stored, removed and restored,          *)
(*   MQTTPacket.c           where a packet is stored before it is written, *)
(*   MQTTAsync.c            the queued commands, the message queue and the *)
(*                          ids, as far as the protocol needs them.        *)
(*                                                                         *)
(* Every handler runs under mqttasync_mutex, so only a crash can see it    *)
(* half done.  A handler is the sequence of worlds it leads through, one   *)
(* for each file it changes, each packet it writes and each callback it    *)
(* makes; it ends in the last of them or the process dies in another.      *)
(*                                                                         *)
(* How a connection is made and lost is the subject of MqttAsync; here it  *)
(* is there or not.  A packet written just before the connection goes is   *)
(* one the broker never reads, so the client learns of the loss at once.   *)
(* The session is kept (cleansession is 0).  All files are those of one    *)
(* version, and no file operation fails.                                   *)
(*                                                                         *)
(* The broker is external: it keeps the session, answers as the standard   *)
(* says and sends again what is not acknowledged on every new connection.  *)
(***************************************************************************)
EXTENDS Naturals, Sequences, FiniteSets, SequencesExt

CONSTANTS
    Outbound1,     \* messages the application publishes with QoS 1
    Outbound2,     \* and with QoS 2
    Inbound1,      \* messages the broker has for the client with QoS 1
    Inbound2,      \* and with QoS 2
    MAX_MSG_ID,    \* the largest message id of the client
    BrokerIds,     \* the ids the broker uses
    Version,       \* 3 for MQTT 3.1, 4 for 3.1.1, 5
    Persistence,   \* 1 when the client has a persistent store
    Faults,        \* what may go wrong
    MaxFaults      \* and how often in all

FaultKinds == {"break",     \* the connection is lost
               "busy",      \* messageArrived returns 0
               "pending",   \* the last write is still going on
               "crash",     \* the process dies and is started again
               "resume"}    \* and then publishes as it did before

Outbound == Outbound1 \cup Outbound2
Inbound == Inbound1 \cup Inbound2
MessageSets == <<Outbound1, Outbound2, Inbound1, Inbound2>>

ASSUME MessagesAssumption ==
    /\ \A i \in DOMAIN MessageSets : MessageSets[i] \subseteq Nat \ {0}
    /\ \A i, j \in DOMAIN MessageSets : i # j => MessageSets[i] \cap MessageSets[j] = {}
ASSUME IdsAssumption == MAX_MSG_ID \in Nat \ {0} /\ BrokerIds \subseteq Nat \ {0}
ASSUME OptionsAssumption == Version \in {3, 4, 5} /\ Persistence \in {0, 1}
ASSUME FaultsAssumption == Faults \subseteq FaultKinds /\ MaxFaults \in Nat

VARIABLES
    c,           \* the Clients structure and the queues of the process
    disk,        \* the files of the persistent store
    toBroker,    \* packets on their way to the broker
    arrived,     \* how often messageArrived has accepted each message, to two
    toClient,    \* external: packets on their way to the client
    b,           \* external: the session the broker keeps
    sent,        \* external: how often it has taken each message, to two
    asked,       \* messages MQTTAsync_send has accepted
    restarts,    \* 1 once the process has been started again
    faults       \* how much has gone wrong

vars == <<c, disk, toBroker, arrived, toClient, b, sent, asked, restarts, faults>>
external == <<toClient, b, sent>>

Bump(n) == IF n = 2 THEN 2 ELSE n + 1

\* A world: all that a handler can change.
Now == [c |-> c, disk |-> disk, toBroker |-> toBroker, arrived |-> arrived]

\* A process that is not running, or has just been created.
NewClient(running) ==
    [running |-> running, connected |-> 0, msgID |-> 0, commands |-> <<>>, command_seqno |-> 0,
     responses |-> {}, outboundMsgs |-> <<>>, inboundMsgs |-> {}, messageQueue |-> <<>>, qentry_seqno |-> 0]

May(fault) == fault \in Faults /\ faults < MaxFaults
Fault(fault) == May(fault) /\ faults' = faults + 1
NoFault == faults' = faults

Become(w) == c' = w.c /\ disk' = w.disk /\ toBroker' = w.toBroker /\ arrived' = w.arrived
Die(w) == Become([w EXCEPT !.c = NewClient(0)])

\* A handler goes through its worlds, or a crash ends it in one of them.
Handle(worlds) ==
    \/ Become(worlds[Len(worlds)]) /\ NoFault
    \/ /\ Fault("crash")
       /\ \E i \in 1..(Len(worlds) - 1) : Die(worlds[i])
----------------------------------------------------------------------------
(* The persistent store: files by key, the stem in "key", the number in n. *)

File(key, n, id, msg) == [key |-> key, n |-> n, id |-> id, msg |-> msg]
PublishSent(id, msg) == File("s", id, id, msg)
PubrelSent(id) == File("sc", id, id, 0)
PublishReceived(id, msg) == File("r", id, id, msg)
CommandFile(n, id, msg) == File("c", n, id, msg)
QueueFile(n, msg) == File("q", n, 0, msg)

Unlinked(d, key, n) == {f \in d : ~(f.key = key /\ f.n = n)}
Stored(d, f) == IF Persistence = 1 THEN Unlinked(d, f.key, f.n) \cup {f} ELSE d

Put(w, f) == [w EXCEPT !.disk = Stored(@, f)]
Unlink(w, key, n) == [w EXCEPT !.disk = Unlinked(@, key, n)]

Packet(type, id, msg, dup) == [type |-> type, id |-> id, msg |-> msg, dup |-> dup]
Ack(type, id) == Packet(type, id, 0, 0)
Written(w, p) == [w EXCEPT !.toBroker = Append(@, p)]
----------------------------------------------------------------------------
(* Publishing.                                                             *)

\* MQTTAsync_assignMsgId asks the queued commands and the responses only:
\* what has been restored into outboundMsgs is in neither.
IdsInUse == {c.commands[i].id : i \in DOMAIN c.commands} \cup {r.id : r \in c.responses}

\* Mutant of After: the first id after the largest is 0.
MutAfter(id, k) == (id + k - 1) % MAX_MSG_ID

After(id, k) == ((id + k - 1) % MAX_MSG_ID) + 1
NextId ==
    LET k == CHOOSE k \in 1..MAX_MSG_ID :
                /\ After(c.msgID, k) \notin IdsInUse
                /\ \A j \in 1..(k - 1) : After(c.msgID, j) \in IdsInUse
    IN  After(c.msgID, k)

\* MQTTAsync_send and MQTTAsync_addCommand.
Publish(m) ==
    /\ c.connected = 1
    /\ m \notin asked
    /\ restarts = 0 \/ "resume" \in Faults
    /\ 1..MAX_MSG_ID \ IdsInUse # {}
    /\ LET n == c.command_seqno + Persistence
           w == [Now EXCEPT !.c.msgID = NextId, !.c.command_seqno = n,
                            !.c.commands = Append(@, [seqno |-> n, id |-> NextId, msg |-> m])]
       IN  Become(Put(w, CommandFile(n, NextId, m)))
    /\ asked' = asked \cup {m}
    /\ NoFault
    /\ UNCHANGED <<external, restarts>>

FirstAnswer(m) == IF m \in Outbound1 THEN "PUBACK" ELSE "PUBREC"

\* MQTTAsync_processCommand: the command leaves the store before the
\* PUBLISH enters it.
ProcessCommand ==
    /\ c.connected = 1
    /\ c.commands # <<>>
    /\ Len(c.outboundMsgs) < MAX_MSG_ID - 1
    /\ LET cmd == Head(c.commands)
           gone == Unlink([Now EXCEPT !.c.commands = Tail(@)], "c", cmd.seqno)
           stored == Put(gone, PublishSent(cmd.id, cmd.msg))
           done == [stored EXCEPT
                      !.c.outboundMsgs = Append(@, [id |-> cmd.id, msg |-> cmd.msg, next |-> FirstAnswer(cmd.msg)]),
                      !.c.responses = @ \cup {[id |-> cmd.id, msg |-> cmd.msg]}]
       IN  Handle(<<gone, stored, Written(done, Packet("PUBLISH", cmd.id, cmd.msg, 0))>>)
    /\ UNCHANGED <<external, asked, restarts>>

Arrives(type) == c.connected = 1 /\ toClient # <<>> /\ Head(toClient).type = type
Take == toClient' = Tail(toClient) /\ UNCHANGED <<b, sent, asked, restarts>>

\* Mutant of Outgoing: only the oldest message is looked at.
MutOutgoing(id) == IF c.outboundMsgs # <<>> /\ Head(c.outboundMsgs).id = id THEN 1 ELSE 0

\* The first message of outboundMsgs with this id, 0 when there is none.
Outgoing(id) == SelectInSeq(c.outboundMsgs, LAMBDA e : e.id = id)
Waiting(id, next) == Outgoing(id) # 0 /\ c.outboundMsgs[Outgoing(id)].next = next

\* Mutant of Removal: the PUBREL goes first.
MutRemoval(w, id) == <<Unlink(w, "sc", id), Unlink(Unlink(w, "sc", id), "s", id)>>

\* The end of an exchange: its files go in this order, then the message.
Removal(w, id) == <<Unlink(w, "s", id), Unlink(Unlink(w, "s", id), "sc", id)>>

Answered(w, id) == [w EXCEPT !.c.responses = {r \in @ : r.id # id}]
Completed(id, next) ==
    IF ~Waiting(id, next) THEN <<Answered(Now, id)>>
    ELSE LET files == Removal(Now, id)
         IN  <<files[1], files[2], [Answered(files[2], id) EXCEPT !.c.outboundMsgs = RemoveAt(@, Outgoing(id))]>>

\* MQTTProtocol_handlePubacks and handlePubcomps.
ReceivePuback == Arrives("PUBACK") /\ Take /\ Handle(Completed(Head(toClient).id, "PUBACK"))
ReceivePubcomp == Arrives("PUBCOMP") /\ Take /\ Handle(Completed(Head(toClient).id, "PUBCOMP"))

\* Mutant of Release: the message goes on waiting for its PUBREC.
MutRelease(w, i) == w
Release(w, i) == [w EXCEPT !.c.outboundMsgs[i].next = "PUBCOMP"]

\* Mutant of PubrelStored: the PUBREL is written but not stored.
MutPubrelStored(w, id) == w
PubrelStored(w, id) == Put(w, PubrelSent(id))

\* MQTTProtocol_handlePubrecs.
ReceivePubrec ==
    /\ Arrives("PUBREC")
    /\ Take
    /\ LET id == Head(toClient).id
           stored == PubrelStored(Now, id)
       IN  IF ~Waiting(id, "PUBREC") THEN Handle(<<Now>>)
           ELSE Handle(<<stored, Written(Release(stored, Outgoing(id)), Ack("PUBREL", id))>>)
----------------------------------------------------------------------------
(* Receiving.                                                              *)

\* What the application may answer to messageArrived.
Answers == IF "busy" \in Faults THEN {1, 0} ELSE {1}

\* Mutant of Enqueue: a message the application refuses is dropped.
MutEnqueue(w, m) == w

\* The message queue, and the file of its entry.
Enqueue(w, m) ==
    LET n == w.c.qentry_seqno + Persistence
    IN  Put([w EXCEPT !.c.qentry_seqno = n, !.c.messageQueue = Append(@, [seqno |-> n, msg |-> m])],
            QueueFile(n, m))

\* Protocol_processPublication: messageArrived at once, unless others wait.
ProcessPublication(w, m, rc) ==
    IF w.c.messageQueue = <<>> /\ rc = 1 THEN [w EXCEPT !.arrived[m] = Bump(@)] ELSE Enqueue(w, m)

Incoming(id) == {e \in c.inboundMsgs : e.id = id}

\* MQTTProtocol_handlePublishes with QoS 1: acknowledged, then delivered.
ReceivePublish1 ==
    /\ Arrives("PUBLISH") /\ Head(toClient).msg \in Inbound1
    /\ Take
    /\ LET p == Head(toClient)
           acked == Written(Now, Ack("PUBACK", p.id))
       IN  \E rc \in Answers : Handle(<<Now, acked, ProcessPublication(acked, p.msg, rc)>>)

\* With QoS 2: MQTTPacket_Factory has stored the packet, a message of the
\* same id is replaced, and MQTT 5 delivers what it has not had before.
Kept(w, p, publish) ==
    [w EXCEPT !.c.inboundMsgs = {e \in @ : e.id # p.id} \cup {[id |-> p.id, msg |-> p.msg, publish |-> publish]}]

\* Mutant of AlreadyReceived: every PUBLISH is taken for a new one.
MutAlreadyReceived(p) == FALSE

AlreadyReceived(p) == Incoming(p.id) # {}
ReceivePublish2 ==
    /\ Arrives("PUBLISH") /\ Head(toClient).msg \in Inbound2
    /\ Take
    /\ LET p == Head(toClient)
           stored == Put(Now, PublishReceived(p.id, p.msg))
           acked == Written(Kept(stored, p, "kept"), Ack("PUBREC", p.id))
           delivered(rc) == Kept(ProcessPublication(acked, p.msg, rc), p, "null")
       IN  IF Version = 5 /\ ~AlreadyReceived(p)
           THEN \E rc \in Answers : Handle(<<Now, stored, acked, delivered(rc)>>)
           ELSE Handle(<<Now, stored, acked>>)

\* A message of MQTT 5 that has been restored has had its payload freed, and
\* replacing it frees the payload again: the process may not survive it.
FreedTwice ==
    /\ Arrives("PUBLISH") /\ Head(toClient).msg \in Inbound2
    /\ \E e \in Incoming(Head(toClient).id) : e.publish = "freed"
    /\ Take
    /\ Die(Put(Now, PublishReceived(Head(toClient).id, Head(toClient).msg)))
    /\ NoFault

\* Mutant of Forgotten: the message stays in inboundMsgs.
MutForgotten(w, id) == w
Forgotten(w, id) == [w EXCEPT !.c.inboundMsgs = {e \in @ : e.id # id}]

\* Mutant of DeliversAtPubrel: the versions are swapped.
MutDeliversAtPubrel == Version = 5

DeliversAtPubrel == Version < 5

\* Mutant of AnswersUnknown: a PUBREL for no message is ignored.
MutAnswersUnknown(p) == FALSE

AnswersUnknown(p) == p.dup = 1

\* MQTTProtocol_handlePubrels: of an unknown message only a PUBREL with the
\* dup flag is acknowledged; up to 3.1.1 this is where a known one is
\* delivered, between the PUBCOMP and the end of its file.
ReceivePubrel ==
    /\ Arrives("PUBREL")
    /\ Take
    /\ LET p == Head(toClient)
           acked == Written(Now, Ack("PUBCOMP", p.id))
           m == (CHOOSE e \in Incoming(p.id) : TRUE).msg
           delivered(rc) == IF DeliversAtPubrel THEN ProcessPublication(acked, m, rc) ELSE acked
           unlinked(rc) == Unlink(delivered(rc), "r", p.id)
       IN  IF Incoming(p.id) = {} THEN Handle(<<IF AnswersUnknown(p) THEN acked ELSE Now>>)
           ELSE \E rc \in Answers :
                   Handle(<<Now, acked, delivered(rc), unlinked(rc), Forgotten(unlinked(rc), p.id)>>)

\* A PUBLISH or PUBREL that finds a write still going on is SOCKET_ERROR,
\* and the connection is closed; the PUBLISH has been stored all the same.
PendingWrites ==
    /\ Arrives("PUBLISH") \/ (Arrives("PUBREL") /\ Incoming(Head(toClient).id) # {})
    /\ Fault("pending")
    /\ LET p == Head(toClient)
           read == IF p.msg \in Inbound2 THEN Put(Now, PublishReceived(p.id, p.msg)) ELSE Now
       IN  Become([read EXCEPT !.c.connected = 0])
    /\ toClient' = <<>>
    /\ UNCHANGED <<b, sent, asked, restarts>>

\* The receive thread offers the head of the queue again whenever a socket
\* had something to read.  The entry of an MQTT 5 client has another key
\* than the one that is removed.
QueueUnlinked(w, n) == IF Version = 5 THEN w ELSE Unlink(w, "q", n)
FlushQueue ==
    /\ c.connected = 1
    /\ c.messageQueue # <<>>
    /\ LET e == Head(c.messageQueue)
           arrives == [Now EXCEPT !.arrived[e.msg] = Bump(@)]
           unlinked == QueueUnlinked(arrives, e.seqno)
       IN  Handle(<<Now, arrives, unlinked, [unlinked EXCEPT !.c.messageQueue = Tail(@)]>>)
    /\ UNCHANGED <<external, asked, restarts>>
----------------------------------------------------------------------------
(* The connection, a crash and what is restored after it.                  *)

Again(e) == IF e.next = "PUBCOMP" THEN Ack("PUBREL", e.id) ELSE Packet("PUBLISH", e.id, e.msg, 1)
StoredAgain(e) == IF e.next = "PUBCOMP" THEN PubrelSent(e.id) ELSE PublishSent(e.id, e.msg)

\* A file is written over by the next one of its key and number.
SameFile(f, g) == f.key = g.key /\ f.n = g.n
StoredAll(d, files) ==
    IF Persistence = 0 THEN d
    ELSE LET last == {files[i] : i \in {i \in DOMAIN files :
                                   \A j \in DOMAIN files : j > i => ~SameFile(files[i], files[j])}}
         IN  {f \in d : \A g \in last : ~SameFile(f, g)} \cup last

\* MQTTProtocol_retry with regardless 1, after the CONNACK: everything in
\* outboundMsgs is stored and written again.  The broker does the same.
BrokerAgain(e) ==
    IF e.next = "PUBCOMP" THEN Packet("PUBREL", e.id, 0, IF Version = 3 THEN 1 ELSE 0)
    ELSE Packet("PUBLISH", e.id, e.msg, 1)
Connect ==
    /\ c.running = 1 /\ c.connected = 0
    /\ c' = [c EXCEPT !.connected = 1]
    /\ disk' = StoredAll(disk, [i \in DOMAIN c.outboundMsgs |-> StoredAgain(c.outboundMsgs[i])])
    /\ toBroker' = [i \in DOMAIN c.outboundMsgs |-> Again(c.outboundMsgs[i])]
    /\ toClient' = [i \in DOMAIN b.out |-> BrokerAgain(b.out[i])]
    /\ NoFault
    /\ UNCHANGED <<arrived, b, sent, asked, restarts>>

Break ==
    /\ c.connected = 1
    /\ Fault("break")
    /\ c' = [c EXCEPT !.connected = 0]
    /\ toClient' = <<>>
    /\ UNCHANGED <<disk, toBroker, arrived, b, sent, asked, restarts>>

Crash ==
    /\ c.running = 1
    /\ Fault("crash")
    /\ Die(Now)
    /\ UNCHANGED <<external, asked, restarts>>

Files(key) == {f \in disk : f.key = key}

\* MQTTPersistence_insertInOrder and MQTTPersistence_wrapMsgID: by id, then
\* turned so that the largest gap between ids is the one at the end.
ById(files) ==
    [i \in 1..Cardinality(files) |->
        CHOOSE f \in files : Cardinality({g \in files : g.n < f.n}) = i - 1]
Gap(s, i) == IF i = 1 THEN MAX_MSG_ID - s[Len(s)].n + s[1].n ELSE s[i].n - s[i - 1].n
Wrapped(s) ==
    LET i == CHOOSE i \in DOMAIN s :
                /\ \A j \in DOMAIN s : Gap(s, j) <= Gap(s, i)
                /\ \A j \in 1..(i - 1) : Gap(s, j) < Gap(s, i)
    IN  IF s = <<>> THEN s ELSE SubSeq(s, i, Len(s)) \o SubSeq(s, 1, i - 1)

Released(id) == \E f \in disk : f.key = "sc" /\ f.n = id
RestoredOutbound(f) ==
    [id |-> f.id, msg |-> f.msg,
     next |-> IF f.msg \in Outbound2 /\ Released(f.id) THEN "PUBCOMP" ELSE FirstAnswer(f.msg)]
OutboundOnDisk ==
    LET s == Wrapped(ById(Files("s"))) IN [i \in DOMAIN s |-> RestoredOutbound(s[i])]
InboundOnDisk ==
    {[id |-> f.id, msg |-> f.msg, publish |-> IF Version = 5 THEN "freed" ELSE "kept"] : f \in Files("r")}

Highest(S) == IF S = {} THEN 0 ELSE CHOOSE n \in S : \A k \in S : k <= n

\* Mutant of RestoredCommands: no command is read.
MutRestoredCommands == {}

\* MQTTAsync_restoreCommands reads all commands as those of MQTT 5, which
\* the others are not, and puts them in the order of the directory.
RestoredCommands == IF Version = 5 THEN Files("c") ELSE {}
CommandsOnDisk ==
    {[i \in DOMAIN s |-> [seqno |-> s[i].n, id |-> s[i].id, msg |-> s[i].msg]] :
        s \in SetToSeqs(RestoredCommands)}

\* MQTTPersistence_restore removes what it cannot read, the queue of an
\* MQTT 5 client among it, and a PUBREL without its PUBLISH.
Unreadable == IF Version = 5 THEN Files("q") ELSE {}
Orphans == {f \in Files("sc") : \A g \in Files("s") : g.n # f.n}
QueueOnDisk ==
    LET s == ById(Files("q") \ Unreadable) IN [i \in DOMAIN s |-> [seqno |-> s[i].n, msg |-> s[i].msg]]

\* MQTTAsync_create of the next process.
Restart ==
    /\ c.running = 0
    /\ \E cmds \in CommandsOnDisk :
         c' = [NewClient(1) EXCEPT
                 !.outboundMsgs = OutboundOnDisk, !.inboundMsgs = InboundOnDisk,
                 !.commands = cmds, !.command_seqno = Highest({f.n : f \in RestoredCommands}),
                 !.messageQueue = QueueOnDisk, !.qentry_seqno = Highest({f.n : f \in Files("q") \ Unreadable})]
    /\ disk' = disk \ (Orphans \cup Unreadable)
    /\ toClient' = <<>>
    /\ restarts' = 1
    /\ NoFault
    /\ UNCHANGED <<toBroker, arrived, b, sent, asked>>
----------------------------------------------------------------------------
(* The broker.                                                             *)

BrokerEntry(id) == SelectInSeq(b.out, LAMBDA e : e.id = id)
IdsOut == {b.out[i].id : i \in DOMAIN b.out}
ToClient(packets) == toClient' = IF c.connected = 1 THEN toClient \o packets ELSE toClient
BrokerOnly == NoFault /\ UNCHANGED <<c, disk, arrived, asked, restarts>>

BrokerPublish(m) ==
    /\ c.connected = 1
    /\ m \in b.todo
    /\ \E id \in BrokerIds \ IdsOut :
         /\ b' = [b EXCEPT !.todo = @ \ {m},
                           !.out = Append(@, [id |-> id, msg |-> m, next |-> IF m \in Inbound1 THEN "PUBACK" ELSE "PUBREC"])]
         /\ ToClient(<<Packet("PUBLISH", id, m, 0)>>)
    /\ UNCHANGED <<toBroker, sent>>
    /\ BrokerOnly

BrokerTake(type) == toBroker # <<>> /\ Head(toBroker).type = type /\ toBroker' = Tail(toBroker) /\ BrokerOnly

BrokerReceivePublish ==
    /\ BrokerTake("PUBLISH")
    /\ LET p == Head(toBroker)
           new == p.msg \in Outbound1 \/ p.id \notin b.in
       IN  /\ sent' = IF new THEN [sent EXCEPT ![p.msg] = Bump(@)] ELSE sent
           /\ b' = IF p.msg \in Outbound2 THEN [b EXCEPT !.in = @ \cup {p.id}] ELSE b
           /\ ToClient(<<Ack(IF p.msg \in Outbound1 THEN "PUBACK" ELSE "PUBREC", p.id)>>)

BrokerReceivePubrel ==
    /\ BrokerTake("PUBREL")
    /\ b' = [b EXCEPT !.in = @ \ {Head(toBroker).id}]
    /\ ToClient(<<Ack("PUBCOMP", Head(toBroker).id)>>)
    /\ UNCHANGED sent

BrokerReceivePubrec ==
    /\ BrokerTake("PUBREC")
    /\ LET i == BrokerEntry(Head(toBroker).id)
       IN  IF i = 0 THEN UNCHANGED <<b, toClient>>
           ELSE /\ b' = [b EXCEPT !.out[i].next = "PUBCOMP"]
                /\ ToClient(<<Ack("PUBREL", Head(toBroker).id)>>)
    /\ UNCHANGED sent

BrokerReceiveLast ==
    /\ \E type \in {"PUBACK", "PUBCOMP"} : BrokerTake(type)
    /\ LET i == BrokerEntry(Head(toBroker).id)
       IN  b' = IF i = 0 THEN b ELSE [b EXCEPT !.out = RemoveAt(@, i)]
    /\ UNCHANGED <<toClient, sent>>
----------------------------------------------------------------------------
Init ==
    /\ c = NewClient(1)
    /\ disk = {}
    /\ toBroker = <<>> /\ toClient = <<>>
    /\ arrived = [m \in Inbound |-> 0]
    /\ sent = [m \in Outbound |-> 0]
    /\ b = [in |-> {}, out |-> <<>>, todo |-> Inbound]
    /\ asked = {}
    /\ restarts = 0 /\ faults = 0

Application == \E m \in Outbound : Publish(m)
Receive == ReceivePuback \/ ReceivePubrec \/ ReceivePubcomp \/ ReceivePublish1 \/ ReceivePublish2
           \/ ReceivePubrel \/ FreedTwice
Client == ProcessCommand \/ Receive \/ FlushQueue \/ Connect \/ Restart
Broker == (\E m \in Inbound : BrokerPublish(m)) \/ BrokerReceivePublish \/ BrokerReceivePubrel
          \/ BrokerReceivePubrec \/ BrokerReceiveLast
Next == Application \/ Client \/ Broker \/ PendingWrites \/ Break \/ Crash

Spec == Init /\ [][Next]_vars

\* Both threads go on, the application connects again and is started again,
\* a PINGRESP now and then lets the queue be offered, and the broker answers.
Fairness ==
    /\ WF_vars(ProcessCommand) /\ WF_vars(Receive) /\ WF_vars(FlushQueue)
    /\ WF_vars(Connect) /\ WF_vars(Restart) /\ WF_vars(Broker)
LiveSpec == Spec /\ Fairness
----------------------------------------------------------------------------
(* What the protocol promises.                                             *)

Ids == 1..MAX_MSG_ID
Types == {"PUBLISH", "PUBACK", "PUBREC", "PUBREL", "PUBCOMP"}
NextTypes == {"PUBACK", "PUBREC", "PUBCOMP"}
Packets == [type : Types, id : Ids \cup BrokerIds, msg : Outbound \cup Inbound \cup {0}, dup : {0, 1}]
Clients ==
    [running : {0, 1}, connected : {0, 1}, msgID : Ids \cup {0},
     commands : Seq([seqno : Nat, id : Ids, msg : Outbound]), command_seqno : Nat,
     responses : SUBSET [id : Ids, msg : Outbound],
     outboundMsgs : Seq([id : Ids, msg : Outbound, next : NextTypes]),
     inboundMsgs : SUBSET [id : BrokerIds, msg : Inbound2, publish : {"kept", "null", "freed"}],
     messageQueue : Seq([seqno : Nat, msg : Inbound]), qentry_seqno : Nat]

\* Every variable and every field of the client's structures has its type.
TypeOK ==
    /\ c \in Clients
    /\ disk \subseteq [key : {"s", "sc", "r", "c", "q"}, n : Nat, id : Ids \cup BrokerIds \cup {0},
                       msg : Outbound \cup Inbound \cup {0}]
    /\ toBroker \in Seq(Packets) /\ toClient \in Seq(Packets)
    /\ arrived \in [Inbound -> 0..2] /\ sent \in [Outbound -> 0..2]
    /\ b \in [in : SUBSET Ids, todo : SUBSET Inbound,
              out : Seq([id : BrokerIds, msg : Inbound, next : NextTypes])]
    /\ asked \subseteq Outbound
    /\ restarts \in {0, 1} /\ faults \in 0..MaxFaults

\* The two directions of the session are what Delivery promises: only what
\* was published arrives, and with QoS 2 only once, whichever packets,
\* acknowledgements and connections are lost in between.
Sending == INSTANCE Delivery WITH
    Messages <- Outbound, Once <- Outbound2, accepted <- asked, count <- sent
Receiving == INSTANCE Delivery WITH
    Messages <- Inbound, Once <- Inbound2, accepted <- Inbound \ b.todo, count <- arrived
SendsOnce == Sending!Spec
ArrivesOnce == Receiving!Spec

Held(m) == \E i \in DOMAIN c.messageQueue : c.messageQueue[i].msg = m
InFlight(m) == \E i \in DOMAIN b.out : b.out[i].msg = m

\* What the client has acknowledged for good has reached the application or
\* waits in the message queue for it: the broker will not send it again.
AcknowledgedIsKept ==
    \A m \in Inbound : m \notin b.todo /\ ~InFlight(m) => arrived[m] > 0 \/ Held(m)

\* How far an id is ahead of the oldest, over the end of the range.  Ids in
\* flight that are half a range apart or no longer in the order of their
\* messages have an acknowledgement missing for half a range of messages.
Ahead(q, i) == (q[i].id + MAX_MSG_ID - q[1].id) % MAX_MSG_ID
Recent(q) ==
    /\ \A i \in DOMAIN q : 2 * Ahead(q, i) < MAX_MSG_ID
    /\ \A i, j \in DOMAIN q : i < j => Ahead(q, i) < Ahead(q, j)

\* Whenever the process dies, the next one has the same messages in flight
\* at the same point of their exchange, and in the same order.
RestartKeepsOutbound ==
    Persistence = 1 /\ c.running = 1 =>
        /\ ToSet(OutboundOnDisk) = ToSet(c.outboundMsgs)
        /\ Recent(c.outboundMsgs) => OutboundOnDisk = c.outboundMsgs

\* Every publication the client takes reaches the broker and ends.
PublicationEnds ==
    \A m \in Outbound : m \in asked ~> sent[m] > 0 /\ m \notin {c.outboundMsgs[i].msg : i \in DOMAIN c.outboundMsgs}

\* Every message the broker has for the client reaches the application.
MessageArrives == \A m \in Inbound : <>(arrived[m] > 0)

\* The exchange ends at the broker too, and its id is free again.
ExchangeEnds == \A m \in Inbound : InFlight(m) ~> ~InFlight(m)

\* Documented for the persistent store, and so for MQTT 5 only: a command
\* that is stored when the process dies is queued again by the next one.
Queued(cmds) == {cmds[i].msg : i \in DOMAIN cmds}
RestartKeepsCommands ==
    [][c.running = 0 /\ c'.running = 1 => {f.msg : f \in Files("c")} \subseteq Queued(c'.commands)]_vars
=============================================================================
