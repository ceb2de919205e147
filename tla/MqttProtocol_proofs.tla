------------------------ MODULE MqttProtocol_proofs ------------------------
(***************************************************************************)
(* Proofs about MqttProtocol, for all messages, ids, versions and faults:  *)
(* the types, and the messages from the client to the broker.  Of each     *)
(* step there is a lemma that says what it does to each part of the state  *)
(* (...Does), and one that says what that means for the exchanges in       *)
(* progress (Out...).  The messages from the broker to the client are the  *)
(* subject of MqttProtocolInbound_proofs, which builds on the former.      *)
(***************************************************************************)
EXTENDS MqttProtocol, LeastNumber, SequenceTheorems

Asks == {"PUBLISH", "PUBREL"}
Replies == {"PUBACK", "PUBREC", "PUBCOMP"}

\* The packets each side sends and the files of each kind, with the messages
\* and ids they may have.
BrokerBound ==
    {p \in Packets :
        /\ p.type = "PUBLISH" => p.id \in Ids /\ p.msg \in Outbound
        /\ p.type = "PUBREL" => p.id \in Ids}
ClientBound ==
    {p \in Packets :
        /\ p.type = "PUBLISH" => p.id \in BrokerIds /\ p.msg \in Inbound
        /\ p.type = "PUBREL" => p.id \in BrokerIds}
FileSet ==
    {f \in [key : {"s", "sc", "r", "c", "q"}, n : Nat, id : Ids \cup BrokerIds \cup {0},
            msg : Outbound \cup Inbound \cup {0}] :
        /\ f.key \in {"s", "sc", "r"} => f.n = f.id
        /\ f.key \in {"s", "c"} => f.id \in Ids /\ f.msg \in Outbound
        /\ f.key = "sc" => f.id \in Ids /\ f.msg = 0
        /\ f.key = "r" => f.id \in BrokerIds /\ f.msg \in Inbound2
        /\ f.key = "q" => f.msg \in Inbound}
SameFiles(d) == \A f, g \in d : SameFile(f, g) => f = g
Disks == {d \in SUBSET FileSet : IsFiniteSet(d) /\ SameFiles(d)}
OutEntries == [id : Ids, msg : Outbound, next : NextTypes]
Commands == [seqno : Nat, id : Ids, msg : Outbound]
Waiters == [seqno : Nat, msg : Inbound]
Pendings == [id : Ids, msg : Outbound]
InEntries == [id : BrokerIds, msg : Inbound2, publish : {"kept", "null", "freed"}]
BrokerEntries == [id : BrokerIds, msg : Inbound, next : NextTypes]
Sessions == [in : SUBSET Ids, todo : SUBSET Inbound, out : Seq(BrokerEntries)]

Worlds == [c : Clients, disk : Disks, toBroker : Seq(BrokerBound), arrived : [Inbound -> 0..2]]

Typed ==
    /\ Now \in Worlds
    /\ toClient \in Seq(ClientBound)
    /\ b \in Sessions
    /\ sent \in [Outbound -> 0..2]
    /\ asked \subseteq Outbound
    /\ restarts \in {0, 1} /\ faults \in 0..MaxFaults

USE MessagesAssumption, IdsAssumption, OptionsAssumption, FaultsAssumption
-----------------------------------------------------------------------------
(* Sequences.                                                              *)

LEMMA TailOf ==
    ASSUME NEW S, NEW q \in Seq(S), q # <<>>
    PROVE  /\ Head(q) \in S /\ Tail(q) \in Seq(S)
           /\ ToSet(q) = ToSet(Tail(q)) \cup {Head(q)}
           /\ DOMAIN q = 1..Len(q) /\ Len(q) \in Nat \ {0}
           /\ DOMAIN Tail(q) = 1..(Len(q) - 1)
           /\ q[1] = Head(q) /\ \A i \in 1..(Len(q) - 1) : Tail(q)[i] = q[i + 1]
<1>1. Len(q) \in Nat \ {0} /\ DOMAIN q = 1..Len(q)
  BY EmptySeq, LenProperties
<1>2. /\ Head(q) \in S /\ Tail(q) \in Seq(S) /\ Len(Tail(q)) = Len(q) - 1
      /\ \A i \in 1..(Len(q) - 1) : Tail(q)[i] = q[i + 1]
  BY HeadTailProperties
<1>3. DOMAIN Tail(q) = 1..(Len(q) - 1)
  BY <1>2, LenProperties
<1>4. Head(q) = q[1]
  OBVIOUS
<1>5. ToSet(q) = ToSet(Tail(q)) \cup {Head(q)}
  <2>1. ASSUME NEW i \in 1..Len(q) PROVE q[i] \in ToSet(Tail(q)) \cup {Head(q)}
    <3>1. CASE i = 1
      BY <1>4, <3>1
    <3>2. CASE i # 1
      <4>1. PICK k \in 1..(Len(q) - 1) : k + 1 = i
        <5>1. i - 1 \in 1..(Len(q) - 1) /\ (i - 1) + 1 = i
          BY <1>1, <3>2
        <5> QED BY <5>1
      <4>2. Tail(q)[k] = q[i]
        BY <1>2, <4>1
      <4>3. k \in DOMAIN Tail(q)
        BY <1>3
      <4> QED BY <4>2, <4>3 DEF ToSet
    <3> QED BY <3>1, <3>2
  <2>2. ASSUME NEW i \in 1..(Len(q) - 1) PROVE Tail(q)[i] \in ToSet(q)
    <3>1. i + 1 \in 1..Len(q)
      BY <1>1
    <3> QED BY <1>1, <1>2, <3>1 DEF ToSet
  <2>3. Head(q) \in ToSet(q)
    BY <1>1, <1>4 DEF ToSet
  <2> QED BY <1>1, <1>3, <2>1, <2>2, <2>3 DEF ToSet
<1> QED BY <1>1, <1>2, <1>3, <1>4, <1>5

LEMMA Longer ==
    ASSUME NEW S, NEW q \in Seq(S), NEW x \in S
    PROVE  /\ Append(q, x) \in Seq(S)
           /\ ToSet(Append(q, x)) = ToSet(q) \cup {x}
           /\ DOMAIN q = 1..Len(q) /\ Len(q) \in Nat
           /\ DOMAIN Append(q, x) = 1..(Len(q) + 1)
           /\ Append(q, x)[Len(q) + 1] = x /\ \A i \in 1..Len(q) : Append(q, x)[i] = q[i]
<1>1. Len(q) \in Nat /\ DOMAIN q = 1..Len(q)
  BY LenProperties
<1>2. /\ Append(q, x) \in Seq(S) /\ DOMAIN Append(q, x) = 1..(Len(q) + 1)
      /\ Append(q, x)[Len(q) + 1] = x /\ \A i \in 1..Len(q) : Append(q, x)[i] = q[i]
  BY <1>1, AppendProperties, LenProperties
<1>3. ToSet(Append(q, x)) = ToSet(q) \cup {x}
  BY <1>1, <1>2 DEF ToSet
<1> QED BY <1>1, <1>2, <1>3

LEMMA Members ==
    ASSUME NEW S, NEW q \in Seq(S)
    PROVE  ToSet(q) \subseteq S /\ DOMAIN q = 1..Len(q) /\ Len(q) \in Nat
  BY LenProperties DEF ToSet

\* The packets that are appended when there is a connection.
LEMMA OneMore ==
    ASSUME NEW S, NEW q \in Seq(S), NEW x \in S
    PROVE  q \o <<x>> = Append(q, x)
  OBVIOUS

\* One element less.
LEMMA Without ==
    ASSUME NEW S, NEW q \in Seq(S), NEW i \in DOMAIN q
    PROVE  /\ RemoveAt(q, i) \in Seq(S)
           /\ DOMAIN RemoveAt(q, i) = 1..(Len(q) - 1)
           /\ \A j \in 1..(Len(q) - 1) : RemoveAt(q, i)[j] = IF j < i THEN q[j] ELSE q[j + 1]
           /\ ToSet(RemoveAt(q, i)) = {q[j] : j \in DOMAIN q \ {i}}
<1> DEFINE x == SubSeq(q, 1, i - 1)
           y == SubSeq(q, i + 1, Len(q))
           n == Len(q)
<1>1. n \in Nat /\ DOMAIN q = 1..n /\ i \in 1..n
  BY LenProperties
<1>2. \A j \in 1..n : q[j] \in S
  BY <1>1
<1>3. /\ x \in Seq(S) /\ Len(x) = i - 1
      /\ \A j \in 1..(i - 1) : x[j] = q[j]
  <2>1. \A j \in 1..(i - 1) : q[j] \in S
    BY <1>1, <1>2
  <2>2. i - 1 \in Int /\ 1 \in Int
    BY <1>1
  <2>3. /\ x \in Seq(S) /\ Len(x) = IF 1 <= i - 1 THEN (i - 1) - 1 + 1 ELSE 0
        /\ \A j \in 1..((i - 1) - 1 + 1) : x[j] = q[1 + j - 1]
    BY <2>1, <2>2, SubSeqProperties
  <2> HIDE DEF x
  <2> QED BY <1>1, <2>3
<1>4. /\ y \in Seq(S) /\ Len(y) = n - i
      /\ \A j \in 1..(n - i) : y[j] = q[i + j]
  <2>1. \A j \in (i + 1)..n : q[j] \in S
    BY <1>1, <1>2
  <2>2. i + 1 \in Int /\ n \in Int
    BY <1>1
  <2>3. /\ y \in Seq(S) /\ Len(y) = IF i + 1 <= n THEN n - (i + 1) + 1 ELSE 0
        /\ \A j \in 1..(n - (i + 1) + 1) : y[j] = q[(i + 1) + j - 1]
    BY <2>1, <2>2, SubSeqProperties
  <2> HIDE DEF y
  <2>4. Len(y) = n - i /\ 1..(n - (i + 1) + 1) = 1..(n - i)
    BY <1>1, <2>3
  <2>5. ASSUME NEW j \in 1..(n - i) PROVE y[j] = q[i + j]
    <3>1. y[j] = q[(i + 1) + j - 1]
      BY <2>3, <2>4
    <3>2. (i + 1) + j - 1 = i + j
      BY <1>1
    <3> QED BY <3>1, <3>2
  <2> QED BY <2>3, <2>4, <2>5
<1>5. RemoveAt(q, i) = x \o y
  BY DEF RemoveAt
<1> HIDE DEF x, y
<1>6. /\ x \o y \in Seq(S) /\ Len(x \o y) = n - 1
      /\ \A j \in 1..(n - 1) : (x \o y)[j] = IF j <= i - 1 THEN x[j] ELSE y[j - (i - 1)]
  <2>1. /\ x \o y \in Seq(S) /\ Len(x \o y) = Len(x) + Len(y)
        /\ \A j \in 1..(Len(x) + Len(y)) : (x \o y)[j] = IF j <= Len(x) THEN x[j] ELSE y[j - Len(x)]
    <3>1. x \in Seq(S) /\ y \in Seq(S)
      BY <1>3, <1>4
    <3> QED BY <3>1, ConcatProperties
  <2>2. Len(x) + Len(y) = n - 1
    BY <1>1, <1>3, <1>4
  <2> QED BY <1>3, <2>1, <2>2
<1> HIDE DEF n
<1>7. DOMAIN (x \o y) = 1..(n - 1)
  BY <1>6, LenProperties
<1>8. \A j \in 1..(n - 1) : (x \o y)[j] = IF j < i THEN q[j] ELSE q[j + 1]
  <2> SUFFICES ASSUME NEW j \in 1..(n - 1) PROVE (x \o y)[j] = IF j < i THEN q[j] ELSE q[j + 1]
    OBVIOUS
  <2>1. CASE j < i
    BY <1>1, <1>3, <1>6, <2>1
  <2>2. CASE ~(j < i)
    <3>1. PICK k \in 1..(n - i) : k = j - (i - 1) /\ i + k = j + 1
      <4>1. j - (i - 1) \in 1..(n - i) /\ i + (j - (i - 1)) = j + 1
        BY <1>1, <2>2
      <4> QED BY <4>1
    <3>2. ~(j <= i - 1)
      BY <1>1, <2>2
    <3>3. (x \o y)[j] = y[k]
      BY <1>6, <3>1, <3>2
    <3>4. y[k] = q[j + 1]
      BY <1>4, <3>1
    <3> QED BY <2>2, <3>3, <3>4
  <2> QED BY <2>1, <2>2
<1>9. ToSet(x \o y) = {q[j] : j \in DOMAIN q \ {i}}
  <2>1. ASSUME NEW j \in 1..(n - 1) PROVE (x \o y)[j] \in {q[k] : k \in DOMAIN q \ {i}}
    <3>1. CASE j < i
      <4>1. j \in DOMAIN q \ {i}
        BY <1>1, <3>1
      <4> QED BY <1>8, <3>1, <4>1
    <3>2. CASE ~(j < i)
      <4>1. j + 1 \in DOMAIN q \ {i}
        BY <1>1, <3>2
      <4> QED BY <1>8, <3>2, <4>1
    <3> QED BY <3>1, <3>2
  <2>2. ASSUME NEW j \in (1..n) \ {i} PROVE q[j] \in ToSet(x \o y)
    <3>1. CASE j < i
      <4>1. j \in 1..(n - 1)
        BY <1>1, <3>1
      <4> QED BY <1>7, <1>8, <3>1, <4>1 DEF ToSet
    <3>2. CASE ~(j < i)
      <4>1. j - 1 \in 1..(n - 1) /\ ~(j - 1 < i) /\ (j - 1) + 1 = j
        BY <1>1, <3>2
      <4> QED BY <1>7, <1>8, <4>1 DEF ToSet
    <3> QED BY <3>1, <3>2
  <2> QED BY <1>1, <1>7, <2>1, <2>2 DEF ToSet
<1> QED BY <1>5, <1>6, <1>7, <1>8, <1>9 DEF n

\* The first element with an id, if there is one: SelectInSeq.
LEMMA FirstWith ==
    ASSUME NEW S, NEW q \in Seq(S), NEW id
    PROVE  LET I == {i \in 1..Len(q) : q[i].id = id}
               k == IF I # {} THEN Min(I) ELSE 0
           IN  /\ k = 0 => \A i \in DOMAIN q : q[i].id # id
               /\ k # 0 => k \in DOMAIN q /\ q[k].id = id
<1> DEFINE I == {i \in 1..Len(q) : q[i].id = id}
<1>1. DOMAIN q = 1..Len(q) /\ Len(q) \in Nat
  BY LenProperties
<1>2. I \subseteq Nat
  BY <1>1
<1>3. I # {} => Min(I) \in I
  BY <1>2, Least DEF Min
<1>4. \A i \in I : i # 0
  BY <1>1
<1> QED BY <1>1, <1>3, <1>4
-----------------------------------------------------------------------------
(* The client's structure, its files and packets: the types.               *)

LEMMA IdsAreNumbers ==
    /\ Ids \subseteq Nat \ {0} /\ BrokerIds \subseteq Nat \ {0} /\ MAX_MSG_ID \in Nat \ {0}
    /\ 0 \notin Outbound /\ 0 \notin Inbound /\ Outbound \cap Inbound = {}
    /\ Outbound1 \cap Outbound2 = {} /\ Inbound1 \cap Inbound2 = {}
<1>1. DOMAIN MessageSets = 1..4
  BY DEF MessageSets
<1>2. /\ MessageSets[1] = Outbound1 /\ MessageSets[2] = Outbound2
      /\ MessageSets[3] = Inbound1 /\ MessageSets[4] = Inbound2
  BY DEF MessageSets
<1>3. \A i \in 1..4 : MessageSets[i] \subseteq Nat \ {0}
  BY <1>1
<1>4. \A i, j \in 1..4 : i # j => MessageSets[i] \cap MessageSets[j] = {}
  BY <1>1
<1>5. /\ Outbound1 \subseteq Nat \ {0} /\ Outbound2 \subseteq Nat \ {0}
      /\ Inbound1 \subseteq Nat \ {0} /\ Inbound2 \subseteq Nat \ {0}
  BY <1>2, <1>3
<1>6. /\ Outbound1 \cap Outbound2 = {} /\ Inbound1 \cap Inbound2 = {}
      /\ Outbound1 \cap Inbound1 = {} /\ Outbound1 \cap Inbound2 = {}
      /\ Outbound2 \cap Inbound1 = {} /\ Outbound2 \cap Inbound2 = {}
  BY <1>2, <1>4
<1> QED BY <1>5, <1>6 DEF Outbound, Inbound, Ids

LEMMA OutgoingIs ==
    ASSUME c \in Clients, NEW id
    PROVE  /\ Outgoing(id) = 0 => \A i \in DOMAIN c.outboundMsgs : c.outboundMsgs[i].id # id
           /\ Outgoing(id) # 0 => Outgoing(id) \in DOMAIN c.outboundMsgs /\ c.outboundMsgs[Outgoing(id)].id = id
<1>1. c.outboundMsgs \in Seq(OutEntries)
  BY DEF Clients, OutEntries
<1> QED BY <1>1, FirstWith DEF Outgoing, SelectInSeq

LEMMA BrokerEntryIs ==
    ASSUME b \in Sessions, NEW id
    PROVE  /\ BrokerEntry(id) = 0 => \A i \in DOMAIN b.out : b.out[i].id # id
           /\ BrokerEntry(id) # 0 => BrokerEntry(id) \in DOMAIN b.out /\ b.out[BrokerEntry(id)].id = id
<1>1. b.out \in Seq(BrokerEntries)
  BY DEF Sessions
<1> QED BY <1>1, FirstWith DEF BrokerEntry, SelectInSeq

\* A file that is put replaces that of its key and number, if there is one.
LEMMA StoredTyped ==
    ASSUME NEW d \in Disks, NEW f \in FileSet, NEW key, NEW n
    PROVE  Stored(d, f) \in Disks /\ Unlinked(d, key, n) \in Disks
<1>1. d \subseteq FileSet /\ IsFiniteSet(d) /\ SameFiles(d)
  BY DEF Disks
<1>2. ASSUME NEW k, NEW i
      PROVE  Unlinked(d, k, i) \subseteq d /\ IsFiniteSet(Unlinked(d, k, i))
  <2>1. Unlinked(d, k, i) \subseteq d
    BY DEF Unlinked
  <2> QED BY <1>1, <2>1, FS_Subset
<1>3. Unlinked(d, key, n) \in Disks
  BY <1>1, <1>2 DEF Disks, SameFiles
<1> DEFINE e == Unlinked(d, f.key, f.n)
<1>4. IsFiniteSet(e \cup {f})
  BY <1>2, FS_AddElement
<1>5. SameFiles(e \cup {f})
  BY <1>1 DEF SameFiles, SameFile, Unlinked
<1>6. e \cup {f} \subseteq FileSet
  BY <1>1, <1>2
<1>7. e \cup {f} \in Disks
  BY <1>4, <1>5, <1>6 DEF Disks
<1> QED BY <1>3, <1>7 DEF Stored

LEMMA PutIs ==
    ASSUME NEW w \in Worlds, NEW f \in FileSet
    PROVE  /\ Put(w, f) \in Worlds
           /\ Put(w, f).c = w.c /\ Put(w, f).toBroker = w.toBroker /\ Put(w, f).arrived = w.arrived
           /\ Put(w, f).disk = Stored(w.disk, f)
<1>1. Stored(w.disk, f) \in Disks
  BY StoredTyped DEF Worlds
<1> QED BY <1>1 DEF Put, Worlds

LEMMA UnlinkIs ==
    ASSUME NEW w \in Worlds, NEW key, NEW n
    PROVE  /\ Unlink(w, key, n) \in Worlds
           /\ Unlink(w, key, n).c = w.c /\ Unlink(w, key, n).toBroker = w.toBroker
           /\ Unlink(w, key, n).arrived = w.arrived
           /\ Unlink(w, key, n).disk = Unlinked(w.disk, key, n)
<1>1. Unlinked(w.disk, key, n) \in Disks
  <2>1. w.disk \subseteq FileSet /\ IsFiniteSet(w.disk) /\ SameFiles(w.disk)
    BY DEF Worlds, Disks
  <2>2. Unlinked(w.disk, key, n) \subseteq w.disk
    BY DEF Unlinked
  <2> QED BY <2>1, <2>2, FS_Subset DEF Disks, SameFiles
<1> QED BY <1>1 DEF Unlink, Worlds

LEMMA WrittenIs ==
    ASSUME NEW w \in Worlds, NEW p \in BrokerBound
    PROVE  /\ Written(w, p) \in Worlds
           /\ Written(w, p).c = w.c /\ Written(w, p).disk = w.disk /\ Written(w, p).arrived = w.arrived
           /\ Written(w, p).toBroker = Append(w.toBroker, p)
<1>1. Append(w.toBroker, p) \in Seq(BrokerBound)
  BY Longer DEF Worlds
<1> QED BY <1>1 DEF Written, Worlds

\* Another client structure.
LEMMA ClientIs ==
    ASSUME NEW w \in Worlds, NEW x \in Clients
    PROVE  /\ [w EXCEPT !.c = x] \in Worlds
           /\ [w EXCEPT !.c = x].c = x /\ [w EXCEPT !.c = x].disk = w.disk
           /\ [w EXCEPT !.c = x].toBroker = w.toBroker /\ [w EXCEPT !.c = x].arrived = w.arrived
  BY DEF Worlds

\* What a handler and a crash leave.
LEMMA BecomeIs ==
    ASSUME NEW w \in Worlds, Become(w)
    PROVE  Now' = w /\ Now' \in Worlds /\ c' = w.c /\ disk' = w.disk /\ toBroker' = w.toBroker /\ arrived' = w.arrived
  BY DEF Become, Now, Worlds

LEMMA NewClientTyped == ASSUME NEW r \in {0, 1} PROVE NewClient(r) \in Clients
  BY DEF NewClient, Clients

LEMMA DieIs ==
    ASSUME NEW w \in Worlds, Die(w)
    PROVE  /\ Now' = [w EXCEPT !.c = NewClient(0)] /\ Now' \in Worlds
           /\ c' = NewClient(0) /\ disk' = w.disk /\ toBroker' = w.toBroker /\ arrived' = w.arrived
<1> DEFINE x == [w EXCEPT !.c = NewClient(0)]
<1>1. x \in Worlds /\ x.c = NewClient(0) /\ x.disk = w.disk /\ x.toBroker = w.toBroker /\ x.arrived = w.arrived
  BY ClientIs, NewClientTyped
<1>2. Become(x)
  BY DEF Die
<1> HIDE DEF x
<1>3. /\ Now' = x /\ Now' \in Worlds
      /\ c' = NewClient(0) /\ disk' = w.disk /\ toBroker' = w.toBroker /\ arrived' = w.arrived
  BY <1>1, <1>2, BecomeIs
<1> QED BY <1>3 DEF x
LEMMA FieldsOf ==
    ASSUME NEW x \in Clients
    PROVE  /\ x.running \in {0, 1} /\ x.connected \in {0, 1} /\ x.msgID \in Ids \cup {0}
           /\ x.commands \in Seq(Commands) /\ x.command_seqno \in Nat
           /\ x.responses \subseteq Pendings /\ x.outboundMsgs \in Seq(OutEntries)
           /\ x.inboundMsgs \subseteq InEntries
           /\ x.messageQueue \in Seq(Waiters) /\ x.qentry_seqno \in Nat
  BY DEF Clients, Commands, Pendings, OutEntries, InEntries, Waiters

\* What two client structures have in common: the connection, what has to do
\* with publishing, and what has to do with receiving.
LinkSame(x, y) == y.running = x.running /\ y.connected = x.connected
OutSame(x, y) ==
    /\ y.msgID = x.msgID /\ y.commands = x.commands /\ y.command_seqno = x.command_seqno
    /\ y.responses = x.responses /\ y.outboundMsgs = x.outboundMsgs
InSame(x, y) ==
    /\ y.inboundMsgs = x.inboundMsgs
    /\ y.messageQueue = x.messageQueue /\ y.qentry_seqno = x.qentry_seqno

-----------------------------------------------------------------------------
(* The steps keep the types.                                               *)

\* The remainder of a number below M, and of one below 2 * M.
LEMMA Remainder ==
    ASSUME NEW M \in Nat \ {0}, NEW r \in 0..(M - 1)
    PROVE  r % M = r /\ (r + M) % M = r
<1>1. ASSUME NEW x \in Nat, NEW q \in Int, x = M * q + r PROVE x % M = r
  <2> DEFINE d == x \div M
             m == x % M
  <2>1. x = M * d + m /\ m \in 0..(M - 1) /\ d \in Int
    OBVIOUS
  <2> HIDE DEF d, m
  <2>2. M * (d - q) = M * d - M * q /\ M * (d - q) = r - m
    BY <1>1, <2>1
  <2>3. d - q >= 1 => M * (d - q) >= M
    BY <2>1
  <2>4. d - q <= -1 => M * (d - q) <= -M
    BY <2>1
  <2>5. d = q
    BY <2>1, <2>2, <2>3, <2>4
  <2> QED BY <1>1, <2>1, <2>5 DEF m
<1>2. r \in Nat /\ r + M \in Nat /\ r = M * 0 + r /\ r + M = M * 1 + r
  OBVIOUS
<1> QED BY <1>1, <1>2

\* Every id comes after msgID.
LEMMA AfterAll ==
    ASSUME NEW i \in 0..MAX_MSG_ID, NEW id \in Ids
    PROVE  \E k \in 1..MAX_MSG_ID : After(i, k) = id
<1>1. MAX_MSG_ID \in Nat \ {0} /\ i \in Nat /\ i <= MAX_MSG_ID /\ id \in Nat /\ 1 <= id /\ id <= MAX_MSG_ID
  BY DEF Ids
<1>2. \E k \in 1..MAX_MSG_ID : i + k - 1 = id - 1 \/ i + k - 1 = (id - 1) + MAX_MSG_ID
  <2>1. CASE id > i
    <3>1. id - i \in 1..MAX_MSG_ID /\ i + (id - i) - 1 = id - 1
      BY <1>1, <2>1
    <3> QED BY <3>1
  <2>2. CASE ~(id > i)
    <3>1. id - i + MAX_MSG_ID \in 1..MAX_MSG_ID /\ i + (id - i + MAX_MSG_ID) - 1 = (id - 1) + MAX_MSG_ID
      BY <1>1, <2>2
    <3> QED BY <3>1
  <2> QED BY <2>1, <2>2
<1>3. PICK k \in 1..MAX_MSG_ID : i + k - 1 = id - 1 \/ i + k - 1 = (id - 1) + MAX_MSG_ID
  BY <1>2
<1>4. (id - 1) % MAX_MSG_ID = id - 1 /\ ((id - 1) + MAX_MSG_ID) % MAX_MSG_ID = id - 1
  BY <1>1, Remainder
<1>5. (i + k - 1) % MAX_MSG_ID = id - 1
  BY <1>3, <1>4
<1>6. After(i, k) = id
  BY <1>1, <1>5 DEF After
<1> QED BY <1>6

LEMMA AfterTyped ==
    ASSUME NEW i \in 0..MAX_MSG_ID, NEW k \in 1..MAX_MSG_ID
    PROVE  After(i, k) \in Ids
<1>1. i + k - 1 \in Nat
  OBVIOUS
<1>2. (i + k - 1) % MAX_MSG_ID \in 0..(MAX_MSG_ID - 1)
  BY <1>1
<1> QED BY <1>2 DEF After, Ids

LEMMA NextIdIsFree ==
    ASSUME c \in Clients, 1..MAX_MSG_ID \ IdsInUse # {}
    PROVE  NextId \in Ids /\ NextId \notin IdsInUse
<1> DEFINE T == {k \in 1..MAX_MSG_ID : After(c.msgID, k) \notin IdsInUse}
           k == CHOOSE k \in 1..MAX_MSG_ID :
                   /\ After(c.msgID, k) \notin IdsInUse
                   /\ \A j \in 1..(k - 1) : After(c.msgID, j) \in IdsInUse
<1>1. c.msgID \in 0..MAX_MSG_ID
  BY DEF Clients, Ids
<1>2. T # {}
  <2>1. PICK id \in Ids : id \notin IdsInUse
    BY DEF Ids
  <2> QED BY <1>1, <2>1, AfterAll
<1>3. PICK n \in T : \A j \in T : n <= j
  <2>1. T \subseteq Nat
    OBVIOUS
  <2> HIDE DEF T
  <2> QED BY <1>2, <2>1, Least
<1>4. \A j \in 1..(n - 1) : After(c.msgID, j) \in IdsInUse
  BY <1>3
<1>5. k \in 1..MAX_MSG_ID /\ After(c.msgID, k) \notin IdsInUse
  BY <1>3, <1>4
<1>6. NextId = After(c.msgID, k)
  BY DEF NextId
<1> HIDE DEF k
<1> QED BY <1>1, <1>5, <1>6, AfterTyped

LEMMA HandleOne ==
    ASSUME NEW x, Handle(<<x>>)
    PROVE  Become(x) /\ faults' = faults
<1>1. Len(<<x>>) = 1 /\ <<x>>[1] = x /\ 1..(1 - 1) = {}
  OBVIOUS
<1> QED BY <1>1 DEF Handle, NoFault

LEMMA CrashCounted ==
    ASSUME faults \in 0..MaxFaults, NEW k, Fault(k)
    PROVE  k \in Faults /\ faults' \in 0..MaxFaults
  BY DEF Fault, May

LEMMA HandleTwo ==
    ASSUME faults \in 0..MaxFaults, NEW x, NEW y, Handle(<<x, y>>)
    PROVE  /\ faults' \in 0..MaxFaults
           /\ Become(y) \/ ("crash" \in Faults /\ Die(x))
<1> DEFINE q == <<x, y>>
<1>1. Len(q) = 2 /\ q[1] = x /\ q[2] = y /\ 1..(2 - 1) = {1}
  OBVIOUS
<1>2. (Become(q[2]) /\ faults' = faults) \/ (Fault("crash") /\ \E i \in {1} : Die(q[i]))
  BY <1>1 DEF Handle, NoFault
<1> QED BY <1>1, <1>2, CrashCounted

LEMMA HandleThree ==
    ASSUME faults \in 0..MaxFaults, NEW x, NEW y, NEW z, Handle(<<x, y, z>>)
    PROVE  /\ faults' \in 0..MaxFaults
           /\ Become(z) \/ ("crash" \in Faults /\ (Die(x) \/ Die(y)))
<1> DEFINE q == <<x, y, z>>
<1>1. Len(q) = 3 /\ q[1] = x /\ q[2] = y /\ q[3] = z /\ 1..(3 - 1) = {1, 2}
  OBVIOUS
<1>2. (Become(q[3]) /\ faults' = faults) \/ (Fault("crash") /\ \E i \in {1, 2} : Die(q[i]))
  BY <1>1 DEF Handle, NoFault
<1> QED BY <1>1, <1>2, CrashCounted

LEMMA HandleFour ==
    ASSUME faults \in 0..MaxFaults, NEW x, NEW y, NEW z, NEW u, Handle(<<x, y, z, u>>)
    PROVE  /\ faults' \in 0..MaxFaults
           /\ Become(u) \/ ("crash" \in Faults /\ (Die(x) \/ Die(y) \/ Die(z)))
<1> DEFINE q == <<x, y, z, u>>
<1>1. Len(q) = 4 /\ q[1] = x /\ q[2] = y /\ q[3] = z /\ q[4] = u /\ 1..(4 - 1) = {1, 2, 3}
  OBVIOUS
<1>2. (Become(q[4]) /\ faults' = faults) \/ (Fault("crash") /\ \E i \in {1, 2, 3} : Die(q[i]))
  BY <1>1 DEF Handle, NoFault
<1> QED BY <1>1, <1>2, CrashCounted

LEMMA HandleFive ==
    ASSUME faults \in 0..MaxFaults, NEW x, NEW y, NEW z, NEW u, NEW v, Handle(<<x, y, z, u, v>>)
    PROVE  /\ faults' \in 0..MaxFaults
           /\ Become(v) \/ ("crash" \in Faults /\ (Die(x) \/ Die(y) \/ Die(z) \/ Die(u)))
<1> DEFINE q == <<x, y, z, u, v>>
<1>1. /\ Len(q) = 5 /\ q[1] = x /\ q[2] = y /\ q[3] = z /\ q[4] = u /\ q[5] = v
      /\ 1..(5 - 1) = {1, 2, 3, 4}
  OBVIOUS
<1>2. (Become(q[5]) /\ faults' = faults) \/ (Fault("crash") /\ \E i \in {1, 2, 3, 4} : Die(q[i]))
  BY <1>1 DEF Handle, NoFault
<1> QED BY <1>1, <1>2, CrashCounted

LEMMA NowIs ==
    ASSUME Typed
    PROVE  /\ Now \in Worlds /\ Now.c = c /\ Now.disk = disk /\ Now.toBroker = toBroker /\ Now.arrived = arrived
           /\ c \in Clients /\ disk \in Disks /\ toBroker \in Seq(BrokerBound)
           /\ toClient \in Seq(ClientBound) /\ b \in Sessions /\ sent \in [Outbound -> 0..2]
           /\ arrived \in [Inbound -> 0..2] /\ asked \subseteq Outbound /\ faults \in 0..MaxFaults
           /\ restarts \in {0, 1}
  BY DEF Typed, Now, Worlds

LEMMA FileTyped ==
    /\ \A id \in Ids, m \in Outbound : PublishSent(id, m) \in FileSet
    /\ \A id \in Ids : PubrelSent(id) \in FileSet
    /\ \A id \in BrokerIds, m \in Inbound2 : PublishReceived(id, m) \in FileSet
    /\ \A n \in Nat, id \in Ids, m \in Outbound : CommandFile(n, id, m) \in FileSet
    /\ \A n \in Nat, m \in Inbound : QueueFile(n, m) \in FileSet
  BY IdsAreNumbers DEF PublishSent, PubrelSent, PublishReceived, CommandFile, QueueFile, File, FileSet, Inbound

\* The types of the next state, from the world it is and from the rest.
LEMMA TypedAfter ==
    ASSUME Now' \in Worlds, toClient' \in Seq(ClientBound), b' \in Sessions, sent' \in [Outbound -> 0..2],
           asked' \subseteq Outbound, restarts' \in {0, 1}, faults' \in 0..MaxFaults
    PROVE  Typed'
  BY DEF Typed

\* MQTTAsync_send.
LEMMA PublishDoes ==
    ASSUME Typed, NEW m \in Outbound, Publish(m)
    PROVE  LET n == c.command_seqno + Persistence
           IN  /\ Typed'
               /\ NextId \in Ids /\ NextId \notin IdsInUse /\ n \in Nat
               /\ restarts = 0 \/ "resume" \in Faults
               /\ c'.commands = Append(c.commands, [seqno |-> n, id |-> NextId, msg |-> m])
               /\ c'.command_seqno = n /\ c'.outboundMsgs = c.outboundMsgs /\ c'.responses = c.responses
               /\ LinkSame(c, c') /\ InSame(c, c') /\ c.connected = 1
               /\ disk' = Stored(disk, CommandFile(n, NextId, m))
               /\ toBroker' = toBroker /\ arrived' = arrived /\ toClient' = toClient /\ b' = b /\ sent' = sent
               /\ restarts' = restarts /\ asked' = asked \cup {m} /\ m \notin asked
<1> DEFINE n == c.command_seqno + Persistence
           cmd == [seqno |-> n, id |-> NextId, msg |-> m]
           q == Append(c.commands, cmd)
           x == [c EXCEPT !.commands = q, !.command_seqno = n, !.msgID = NextId]
           w == [Now EXCEPT !.c = x]
           f == CommandFile(n, NextId, m)
<1>1. NextId \in Ids /\ NextId \notin IdsInUse
  BY NowIs, NextIdIsFree DEF Publish
<1>2. c \in Clients /\ n \in Nat /\ c.commands \in Seq(Commands)
  BY NowIs, FieldsOf
<1>3. q \in Seq(Commands)
  <2>1. cmd \in Commands
    BY <1>1, <1>2 DEF Commands
  <2> HIDE DEF cmd
  <2> QED BY <1>2, <2>1, Longer
<1>4. Become(Put(w, f))
  <2>1. w = [Now EXCEPT !.c.msgID = NextId, !.c.command_seqno = n, !.c.commands = Append(@, cmd)]
    BY <1>2 DEF Now, Clients
  <2> QED BY <2>1 DEF Publish
<1>5. f \in FileSet
  BY <1>1, <1>2, FileTyped
<1>a. x = [c EXCEPT !.commands = q, !.command_seqno = n, !.msgID = NextId]
  OBVIOUS
<1> HIDE DEF n, q, x
<1>6. /\ x \in Clients /\ x.commands = q /\ x.command_seqno = n
      /\ x.outboundMsgs = c.outboundMsgs /\ x.responses = c.responses
      /\ LinkSame(c, x) /\ InSame(c, x)
  BY <1>1, <1>2, <1>3, <1>a DEF Clients, Commands, LinkSame, InSame
<1> HIDE DEF f
<1>7. w \in Worlds /\ w.c = x /\ w.disk = disk /\ w.toBroker = toBroker /\ w.arrived = arrived
  BY <1>6, NowIs, ClientIs
<1> HIDE DEF w
<1>8. /\ Put(w, f) \in Worlds /\ Put(w, f).c = x /\ Put(w, f).disk = Stored(disk, f)
      /\ Put(w, f).toBroker = toBroker /\ Put(w, f).arrived = arrived
  BY <1>5, <1>7, PutIs
<1>9. /\ Now' \in Worlds /\ c' = x /\ disk' = Stored(disk, f)
      /\ toBroker' = toBroker /\ arrived' = arrived
  BY <1>4, <1>8, BecomeIs
<1>10. /\ toClient' = toClient /\ b' = b /\ sent' = sent /\ restarts' = restarts /\ faults' = faults
       /\ asked' = asked \cup {m} /\ m \notin asked /\ c.connected = 1
       /\ restarts = 0 \/ "resume" \in Faults
  BY DEF Publish, external, NoFault
<1>11. Typed'
  BY <1>9, <1>10, NowIs, TypedAfter
<1> QED BY <1>1, <1>2, <1>6, <1>9, <1>10, <1>11 DEF f, n, q

\* MQTTProtocol_startPublish: the command becomes a message in flight.
InFlightFor(cmd) == [id |-> cmd.id, msg |-> cmd.msg, next |-> FirstAnswer(cmd.msg)]

LEMMA ProcessCommandDoes ==
    ASSUME Typed, ProcessCommand
    PROVE  LET cmd == Head(c.commands)
               gone == Unlinked(disk, "c", cmd.seqno)
               stored == Stored(gone, PublishSent(cmd.id, cmd.msg))
               p == Packet("PUBLISH", cmd.id, cmd.msg, 0)
           IN  /\ Typed'
               /\ c.connected = 1 /\ c.commands # <<>> /\ cmd \in Commands
               /\ \/ /\ c'.commands = Tail(c.commands) /\ c'.command_seqno = c.command_seqno
                     /\ c'.outboundMsgs = Append(c.outboundMsgs, InFlightFor(cmd))
                     /\ c'.responses = c.responses \cup {[id |-> cmd.id, msg |-> cmd.msg]}
                     /\ InFlightFor(cmd) \in OutEntries
                     /\ LinkSame(c, c') /\ InSame(c, c')
                     /\ disk' = stored
                     /\ toBroker' = Append(toBroker, p) /\ p \in BrokerBound
                  \/ /\ "crash" \in Faults /\ c' = NewClient(0) /\ disk' \in {gone, stored} /\ toBroker' = toBroker
               /\ arrived' = arrived /\ toClient' = toClient /\ b' = b /\ sent' = sent
               /\ restarts' = restarts /\ asked' = asked
<1> DEFINE cmd == Head(c.commands)
           x == [c EXCEPT !.commands = Tail(c.commands), !.command_seqno = c.command_seqno, !.msgID = c.msgID]
           q == Append(c.outboundMsgs, InFlightFor(cmd))
           R == c.responses \cup {[id |-> cmd.id, msg |-> cmd.msg]}
           y == [x EXCEPT !.outboundMsgs = q, !.responses = R]
           w == [Now EXCEPT !.c = x]
           gone == Unlink(w, "c", cmd.seqno)
           f == PublishSent(cmd.id, cmd.msg)
           stored == Put(gone, f)
           done == [stored EXCEPT !.c = y]
           p == Packet("PUBLISH", cmd.id, cmd.msg, 0)
<1>1. c \in Clients /\ c.commands \in Seq(Commands) /\ c.commands # <<>> /\ c.connected = 1
  BY NowIs, FieldsOf DEF ProcessCommand
<1>2. cmd \in Commands /\ Tail(c.commands) \in Seq(Commands)
  BY <1>1, TailOf
<1>3. cmd.id \in Ids /\ cmd.msg \in Outbound /\ cmd.seqno \in Nat
  BY <1>2 DEF Commands
<1>4. f \in FileSet /\ p \in BrokerBound
  BY <1>3, FileTyped DEF Packet, BrokerBound, Packets, Types, Outbound, Inbound, Ids
<1>7. [Now EXCEPT !.c.commands = Tail(@)] = w
  <2>1. x = [c EXCEPT !.commands = Tail(@)]
    BY <1>1 DEF Clients
  <2> QED BY <2>1 DEF Now
<1>a. /\ x = [c EXCEPT !.commands = Tail(c.commands), !.command_seqno = c.command_seqno, !.msgID = c.msgID]
      /\ y = [x EXCEPT !.outboundMsgs = q, !.responses = R]
  OBVIOUS
<1> HIDE DEF x, y
<1>5. /\ x \in Clients /\ x.commands = Tail(c.commands) /\ x.command_seqno = c.command_seqno
      /\ x.outboundMsgs = c.outboundMsgs /\ x.responses = c.responses
      /\ LinkSame(c, x) /\ InSame(c, x)
  BY <1>1, <1>2, <1>a DEF Clients, Commands, LinkSame, InSame
<1>6. InFlightFor(cmd) \in OutEntries /\ q \in Seq(OutEntries) /\ R \in SUBSET Pendings
  <2>1. InFlightFor(cmd) \in OutEntries
    BY <1>3 DEF InFlightFor, OutEntries, FirstAnswer, NextTypes
  <2>2. c.outboundMsgs \in Seq(OutEntries) /\ c.responses \subseteq Pendings
    BY <1>1, FieldsOf
  <2>3. [id |-> cmd.id, msg |-> cmd.msg] \in Pendings
    BY <1>3 DEF Pendings
  <2>4. q \in Seq(OutEntries)
    BY <2>1, <2>2, Longer
  <2> QED BY <2>1, <2>2, <2>3, <2>4
<1> HIDE DEF q, R
<1>8. /\ y \in Clients /\ y.outboundMsgs = q /\ y.responses = R
      /\ y.commands = x.commands /\ y.command_seqno = x.command_seqno
      /\ LinkSame(x, y) /\ InSame(x, y)
  BY <1>5, <1>6, <1>a DEF Clients, OutEntries, Pendings, LinkSame, InSame
<1>9. LinkSame(c, y) /\ InSame(c, y)
  BY <1>5, <1>8 DEF LinkSame, InSame
<1>10. w \in Worlds /\ w.c = x /\ w.disk = disk /\ w.toBroker = toBroker /\ w.arrived = arrived
  BY <1>5, NowIs, ClientIs
<1> HIDE DEF w, f, p
<1>11. /\ gone \in Worlds /\ gone.disk = Unlinked(disk, "c", cmd.seqno) /\ gone.c = x
       /\ gone.toBroker = toBroker /\ gone.arrived = arrived
  BY <1>10, UnlinkIs
<1> HIDE DEF gone
<1>12. /\ stored \in Worlds /\ stored.disk = Stored(gone.disk, f) /\ stored.c = x
       /\ stored.toBroker = toBroker /\ stored.arrived = arrived
  BY <1>4, <1>11, PutIs
<1> HIDE DEF stored
<1>13. [stored EXCEPT !.c.outboundMsgs = Append(@, [id |-> cmd.id, msg |-> cmd.msg, next |-> FirstAnswer(cmd.msg)]),
                      !.c.responses = @ \cup {[id |-> cmd.id, msg |-> cmd.msg]}] = done
  BY <1>5, <1>12 DEF InFlightFor, Worlds, q, R, y
<1>14. Handle(<<gone, stored, Written(done, p)>>)
  BY <1>7, <1>13 DEF ProcessCommand, gone, stored, f, p
<1>15. done \in Worlds /\ done.c = y /\ done.disk = stored.disk /\ done.toBroker = toBroker /\ done.arrived = arrived
  BY <1>8, <1>12, ClientIs
<1> HIDE DEF done
<1>16. /\ Written(done, p) \in Worlds /\ Written(done, p).c = y /\ Written(done, p).disk = stored.disk
       /\ Written(done, p).toBroker = Append(toBroker, p) /\ Written(done, p).arrived = arrived
  BY <1>4, <1>15, WrittenIs
<1>17. /\ toClient' = toClient /\ b' = b /\ sent' = sent /\ restarts' = restarts /\ asked' = asked
  BY DEF ProcessCommand, external
<1>18. /\ faults' \in 0..MaxFaults
       /\ Become(Written(done, p)) \/ ("crash" \in Faults /\ (Die(gone) \/ Die(stored)))
  BY <1>14, NowIs, HandleThree
<1>19. CASE Become(Written(done, p))
  <2>1. /\ Now' \in Worlds /\ c' = y /\ disk' = stored.disk
        /\ toBroker' = Append(toBroker, p) /\ arrived' = arrived
    BY <1>16, <1>19, BecomeIs
  <2>2. Typed'
    BY <1>17, <1>18, <2>1, NowIs, TypedAfter
  <2> QED BY <1>1, <1>2, <1>4, <1>5, <1>6, <1>8, <1>9, <1>11, <1>12, <1>17, <2>1, <2>2 DEF f, p, q, R
<1>20. CASE "crash" \in Faults /\ (Die(gone) \/ Die(stored))
  <2>1. /\ Now' \in Worlds /\ c' = NewClient(0) /\ disk' \in {gone.disk, stored.disk}
        /\ toBroker' = toBroker /\ arrived' = arrived
    BY <1>11, <1>12, <1>20, DieIs
  <2>2. Typed'
    BY <1>17, <1>18, <2>1, NowIs, TypedAfter
  <2> QED BY <1>1, <1>2, <1>11, <1>12, <1>17, <1>20, <2>1, <2>2 DEF f
<1> QED BY <1>18, <1>19, <1>20

\* The receive thread takes a packet.
LEMMA TakeDoes ==
    ASSUME Typed, NEW type, Arrives(type), Take
    PROVE  /\ toClient # <<>> /\ Head(toClient) \in ClientBound /\ Head(toClient).type = type
           /\ toClient' = Tail(toClient) /\ toClient' \in Seq(ClientBound) /\ c.connected = 1
           /\ b' = b /\ sent' = sent /\ asked' = asked /\ restarts' = restarts
  BY NowIs, TailOf DEF Arrives, Take

\* MQTTProtocol_handlePubacks and handlePubcomps.
LEMMA CompletedDoes ==
    ASSUME Typed, NEW type, Arrives(type), Take, NEW next, Handle(Completed(Head(toClient).id, next))
    PROVE  LET id == Head(toClient).id
               i == Outgoing(id)
               left == Unlinked(disk, "s", id)
           IN  /\ Typed'
               /\ \/ /\ ~Waiting(id, next) /\ c'.outboundMsgs = c.outboundMsgs /\ disk' = disk
                     /\ c'.commands = c.commands /\ c'.command_seqno = c.command_seqno
                     /\ c'.responses = {r \in c.responses : r.id # id}
                     /\ LinkSame(c, c') /\ InSame(c, c')
                  \/ /\ Waiting(id, next) /\ c'.outboundMsgs = RemoveAt(c.outboundMsgs, i)
                     /\ disk' = Unlinked(left, "sc", id)
                     /\ c'.commands = c.commands /\ c'.command_seqno = c.command_seqno
                     /\ c'.responses = {r \in c.responses : r.id # id}
                     /\ LinkSame(c, c') /\ InSame(c, c')
                  \/ /\ Waiting(id, next) /\ "crash" \in Faults /\ c' = NewClient(0)
                     /\ disk' \in {left, Unlinked(left, "sc", id)}
               /\ toBroker' = toBroker /\ arrived' = arrived
<1> DEFINE id == Head(toClient).id
           i == Outgoing(id)
           R == {r \in c.responses : r.id # id}
           q == RemoveAt(c.outboundMsgs, i)
           x == [c EXCEPT !.responses = R]
           y == [x EXCEPT !.outboundMsgs = q]
           u == Unlink(Now, "s", id)
           v == Unlink(u, "sc", id)
<1>1. c \in Clients /\ c.outboundMsgs \in Seq(OutEntries) /\ R \in SUBSET Pendings
  BY NowIs, FieldsOf
<1>2. /\ toClient' \in Seq(ClientBound) /\ b' = b /\ sent' = sent /\ asked' = asked /\ restarts' = restarts
  BY TakeDoes
<1>3. [Now EXCEPT !.c = x] = Answered(Now, id)
  BY DEF Answered, Now
<1>a. x = [c EXCEPT !.responses = R] /\ y = [x EXCEPT !.outboundMsgs = q]
  OBVIOUS
<1> HIDE DEF x, R
<1>4. /\ x \in Clients /\ x.responses = R /\ x.outboundMsgs = c.outboundMsgs
      /\ x.commands = c.commands /\ x.command_seqno = c.command_seqno
      /\ LinkSame(c, x) /\ InSame(c, x)
  BY <1>1, <1>a DEF Clients, Pendings, LinkSame, InSame
<1>5. CASE ~Waiting(id, next)
  <2>1. Handle(<<Answered(Now, id)>>)
    BY <1>5 DEF Completed
  <2>2. Become([Now EXCEPT !.c = x]) /\ faults' = faults
    BY <1>3, <2>1, HandleOne
  <2> DEFINE w == [Now EXCEPT !.c = x]
  <2>3. w \in Worlds /\ w.c = x /\ w.disk = disk /\ w.toBroker = toBroker /\ w.arrived = arrived
    BY <1>4, NowIs, ClientIs
  <2> HIDE DEF w
  <2>4. Now' \in Worlds /\ c' = x /\ disk' = disk /\ toBroker' = toBroker /\ arrived' = arrived
    <3>1. Become(w)
      BY <2>2 DEF w
    <3> QED BY <2>3, <3>1, BecomeIs
  <2>5. Typed'
    BY <1>2, <2>2, <2>4, NowIs, TypedAfter
  <2> QED BY <1>4, <1>5, <2>4, <2>5 DEF R
<1>6. CASE Waiting(id, next)
  <2>1. i \in DOMAIN c.outboundMsgs
    BY <1>1, <1>6, OutgoingIs DEF Waiting
  <2>2. q \in Seq(OutEntries)
    BY <1>1, <2>1, Without
  <2> HIDE DEF i, q, y
  <2>3. /\ y \in Clients /\ y.responses = R /\ y.outboundMsgs = q
        /\ y.commands = c.commands /\ y.command_seqno = c.command_seqno
        /\ LinkSame(c, y) /\ InSame(c, y)
    BY <1>4, <1>a, <2>2 DEF Clients, OutEntries, LinkSame, InSame
  <2>4. /\ u \in Worlds /\ u.c = c /\ u.disk = Unlinked(disk, "s", id)
        /\ u.toBroker = toBroker /\ u.arrived = arrived
    BY NowIs, UnlinkIs
  <2> HIDE DEF u, id
  <2>5. /\ v \in Worlds /\ v.c = c /\ v.disk = Unlinked(u.disk, "sc", id)
        /\ v.toBroker = toBroker /\ v.arrived = arrived
    BY <2>4, UnlinkIs
  <2> HIDE DEF v
  <2> DEFINE w == [v EXCEPT !.c = y]
  <2>6. w \in Worlds /\ w.c = y /\ w.disk = v.disk /\ w.toBroker = toBroker /\ w.arrived = arrived
    BY <2>3, <2>5, ClientIs
  <2>7. [Answered(v, id) EXCEPT !.c.outboundMsgs = RemoveAt(@, Outgoing(id))] = w
    <3>1. Answered(v, id) = [v EXCEPT !.c = x]
      BY <2>5, <1>a DEF Answered, Worlds, R
    <3>2. [v EXCEPT !.c = x] \in Worlds /\ [v EXCEPT !.c = x].c = x
      BY <1>4, <2>5, ClientIs
    <3>3. [[v EXCEPT !.c = x] EXCEPT !.c.outboundMsgs = RemoveAt(@, Outgoing(id))] = w
      BY <1>4, <1>a, <2>5, <3>2 DEF Worlds, q, i
    <3> QED BY <3>1, <3>3
  <2>8. Completed(id, next) = <<u, v, w>>
    <3>1. Removal(Now, id) = <<u, v>>
      BY DEF Removal, u, v
    <3> HIDE DEF w
    <3>2. <<u, v>>[1] = u /\ <<u, v>>[2] = v
      OBVIOUS
    <3> QED BY <1>6, <2>7, <3>1, <3>2 DEF Completed
  <2> HIDE DEF w
  <2>9. /\ faults' \in 0..MaxFaults
        /\ Become(w) \/ ("crash" \in Faults /\ (Die(u) \/ Die(v)))
    <3>1. Handle(<<u, v, w>>)
      BY <2>8 DEF id
    <3> QED BY <3>1, NowIs, HandleThree
  <2>10. CASE Become(w)
    <3>1. Now' \in Worlds /\ c' = y /\ disk' = v.disk /\ toBroker' = toBroker /\ arrived' = arrived
      BY <2>6, <2>10, BecomeIs
    <3>2. Typed'
      BY <1>2, <2>9, <3>1, NowIs, TypedAfter
    <3> QED BY <1>6, <2>3, <2>4, <2>5, <3>1, <3>2 DEF q, i, R, id
  <2>11. CASE "crash" \in Faults /\ (Die(u) \/ Die(v))
    <3>1. /\ Now' \in Worlds /\ c' = NewClient(0) /\ disk' \in {u.disk, v.disk}
          /\ toBroker' = toBroker /\ arrived' = arrived
      BY <2>4, <2>5, <2>11, DieIs
    <3>2. Typed'
      BY <1>2, <2>9, <3>1, NowIs, TypedAfter
    <3> QED BY <1>6, <2>4, <2>5, <2>11, <3>1, <3>2 DEF id
  <2> QED BY <2>9, <2>10, <2>11
<1> QED BY <1>5, <1>6

\* MQTTProtocol_handlePubrecs.
LEMMA ReceivePubrecDoes ==
    ASSUME Typed, ReceivePubrec
    PROVE  LET id == Head(toClient).id
               i == Outgoing(id)
           IN  /\ Typed'
               /\ \/ /\ ~Waiting(id, "PUBREC") /\ c' = c /\ disk' = disk /\ toBroker' = toBroker
                  \/ /\ Waiting(id, "PUBREC") /\ i \in DOMAIN c.outboundMsgs /\ id \in Ids
                     /\ c'.outboundMsgs = [c.outboundMsgs EXCEPT ![i] = [@ EXCEPT !.next = "PUBCOMP"]]
                     /\ c'.commands = c.commands /\ c'.command_seqno = c.command_seqno
                     /\ c'.responses = c.responses
                     /\ LinkSame(c, c') /\ InSame(c, c')
                     /\ disk' = Stored(disk, PubrelSent(id)) /\ toBroker' = Append(toBroker, Ack("PUBREL", id))
                     /\ Ack("PUBREL", id) \in BrokerBound
                  \/ /\ Waiting(id, "PUBREC") /\ id \in Ids /\ "crash" \in Faults /\ c' = NewClient(0)
                     /\ disk' = Stored(disk, PubrelSent(id)) /\ toBroker' = toBroker
               /\ arrived' = arrived
<1> DEFINE id == Head(toClient).id
           i == Outgoing(id)
           q == [c.outboundMsgs EXCEPT ![i] = [@ EXCEPT !.next = "PUBCOMP"]]
           y == [c EXCEPT !.outboundMsgs = q]
           f == PubrelSent(id)
           v == Put(Now, f)
           w == [v EXCEPT !.c = y]
           p == Ack("PUBREL", id)
<1>1. c \in Clients /\ c.outboundMsgs \in Seq(OutEntries)
  BY NowIs, FieldsOf
<1>2. /\ toClient' \in Seq(ClientBound) /\ b' = b /\ sent' = sent /\ asked' = asked /\ restarts' = restarts
  BY TakeDoes DEF ReceivePubrec
<1>3. CASE ~Waiting(id, "PUBREC")
  <2>1. Become(Now) /\ faults' = faults
    BY <1>3, HandleOne DEF ReceivePubrec
  <2>2. Now' \in Worlds /\ c' = c /\ disk' = disk /\ toBroker' = toBroker /\ arrived' = arrived
    BY <2>1, BecomeIs, NowIs
  <2>3. Typed'
    BY <1>2, <2>1, <2>2, NowIs, TypedAfter
  <2> QED BY <1>3, <2>2, <2>3
<1>4. CASE Waiting(id, "PUBREC")
  <2>1. i \in DOMAIN c.outboundMsgs /\ c.outboundMsgs[i].id = id
    BY <1>1, <1>4, OutgoingIs DEF Waiting
  <2>2. c.outboundMsgs[i] \in OutEntries
    BY <1>1, <2>1
  <2>3. id \in Ids
    BY <2>1, <2>2 DEF OutEntries
  <2>4. [c.outboundMsgs[i] EXCEPT !.next = "PUBCOMP"] \in OutEntries
    BY <2>2 DEF OutEntries, NextTypes
  <2>5. q \in Seq(OutEntries)
    BY <1>1, <2>1, <2>4
  <2>6. f \in FileSet /\ p \in BrokerBound
    BY <2>3, FileTyped DEF Ack, Packet, BrokerBound, Packets, Types
  <2>b. y = [c EXCEPT !.outboundMsgs = q]
    OBVIOUS
  <2> HIDE DEF i, q, y
  <2>7. /\ y \in Clients /\ y.responses = c.responses /\ y.outboundMsgs = q
        /\ y.commands = c.commands /\ y.command_seqno = c.command_seqno
        /\ LinkSame(c, y) /\ InSame(c, y)
    BY <1>1, <2>5, <2>b DEF Clients, OutEntries, LinkSame, InSame
  <2> HIDE DEF f, p
  <2>8. /\ v \in Worlds /\ v.c = c /\ v.disk = Stored(disk, f)
        /\ v.toBroker = toBroker /\ v.arrived = arrived
    BY <2>6, NowIs, PutIs
  <2> HIDE DEF v
  <2>9. w \in Worlds /\ w.c = y /\ w.disk = v.disk /\ w.toBroker = toBroker /\ w.arrived = arrived
    BY <2>7, <2>8, ClientIs
  <2>10. Release(v, i) = w
    BY <1>1, <2>1, <2>8 DEF Release, Worlds, y, q
  <2> HIDE DEF w
  <2>11. /\ Written(w, p) \in Worlds /\ Written(w, p).c = y /\ Written(w, p).disk = v.disk
         /\ Written(w, p).toBroker = Append(toBroker, p) /\ Written(w, p).arrived = arrived
    BY <2>6, <2>9, WrittenIs
  <2>12. /\ faults' \in 0..MaxFaults
         /\ Become(Written(w, p)) \/ ("crash" \in Faults /\ Die(v))
    <3>1. Handle(<<v, Written(w, p)>>)
      BY <1>4, <2>10 DEF ReceivePubrec, PubrelStored, v, f, p, i
    <3> QED BY <3>1, NowIs, HandleTwo
  <2>13. CASE Become(Written(w, p))
    <3>1. Now' \in Worlds /\ c' = y /\ disk' = v.disk /\ toBroker' = Append(toBroker, p) /\ arrived' = arrived
      BY <2>11, <2>13, BecomeIs
    <3>2. Typed'
      BY <1>2, <2>12, <3>1, NowIs, TypedAfter
    <3> QED BY <1>4, <2>1, <2>3, <2>6, <2>7, <2>8, <3>1, <3>2 DEF q, i, f, p
  <2>14. CASE "crash" \in Faults /\ Die(v)
    <3>1. /\ Now' \in Worlds /\ c' = NewClient(0) /\ disk' = v.disk
          /\ toBroker' = toBroker /\ arrived' = arrived
      BY <2>8, <2>14, DieIs
    <3>2. Typed'
      BY <1>2, <2>12, <3>1, NowIs, TypedAfter
    <3> QED BY <1>4, <2>3, <2>8, <2>14, <3>1, <3>2 DEF f
  <2> QED BY <2>12, <2>13, <2>14
<1> QED BY <1>3, <1>4

\* The files of the two directions are not those of each other.
OutFiles(d) == {f \in d : f.key \in {"s", "sc", "c"}}
InFiles(d) == {f \in d : f.key \in {"r", "q"}}

LEMMA OtherFiles ==
    ASSUME NEW d
    PROVE  /\ \A f : f.key \in {"r", "q"} => OutFiles(Stored(d, f)) = OutFiles(d)
           /\ \A f : f.key \in {"s", "sc", "c"} => InFiles(Stored(d, f)) = InFiles(d)
           /\ \A key \in {"r", "q"} : \A n : OutFiles(Unlinked(d, key, n)) = OutFiles(d)
           /\ \A key \in {"s", "sc", "c"} : \A n : InFiles(Unlinked(d, key, n)) = InFiles(d)
  BY DEF OutFiles, InFiles, Stored, Unlinked

LEMMA FileKeys ==
    /\ \A id, m : PublishSent(id, m).key = "s" /\ PubrelSent(id).key = "sc" /\ PublishReceived(id, m).key = "r"
    /\ \A n, m : QueueFile(n, m).key = "q" /\ \A id : CommandFile(n, id, m).key = "c"
  BY DEF PublishSent, PubrelSent, PublishReceived, CommandFile, QueueFile, File

\* Between w and e a message is offered to the application: it has taken it,
\* or it waits in the queue.
Offers(w, m, e) ==
    \/ /\ w.c.messageQueue = <<>> /\ e.c.messageQueue = w.c.messageQueue
       /\ e.arrived = [w.arrived EXCEPT ![m] = Bump(@)] /\ e.disk = w.disk
    \/ /\ \E n \in Nat : /\ e.c.messageQueue = Append(w.c.messageQueue, [seqno |-> n, msg |-> m])
                         /\ e.disk = Stored(w.disk, QueueFile(n, m))
       /\ e.arrived = w.arrived

LEMMA ProcessPublicationDoes ==
    ASSUME NEW w \in Worlds, NEW m \in Inbound, NEW rc, NEW e, e = ProcessPublication(w, m, rc)
    PROVE  /\ e \in Worlds /\ Offers(w, m, e) /\ e.toBroker = w.toBroker
           /\ e.c.inboundMsgs = w.c.inboundMsgs /\ LinkSame(w.c, e.c) /\ OutSame(w.c, e.c)
           /\ OutFiles(e.disk) = OutFiles(w.disk)
<1>1. w.c \in Clients /\ w.arrived \in [Inbound -> 0..2] /\ w.disk \in Disks /\ w.toBroker \in Seq(BrokerBound)
  BY DEF Worlds
<1>2. CASE w.c.messageQueue = <<>> /\ rc = 1
  <2>1. e = [w EXCEPT !.arrived[m] = Bump(@)]
    BY <1>2 DEF ProcessPublication
  <2>2. [w.arrived EXCEPT ![m] = Bump(@)] \in [Inbound -> 0..2]
    BY <1>1 DEF Bump
  <2>3. /\ e \in Worlds /\ e.c = w.c /\ e.disk = w.disk /\ e.toBroker = w.toBroker
        /\ e.arrived = [w.arrived EXCEPT ![m] = Bump(@)]
    BY <2>1, <2>2 DEF Worlds
  <2> QED BY <1>2, <2>3 DEF Offers, LinkSame, OutSame
<1>3. CASE ~(w.c.messageQueue = <<>> /\ rc = 1)
  <2> DEFINE n == w.c.qentry_seqno + Persistence
             entry == [seqno |-> n, msg |-> m]
             q == Append(w.c.messageQueue, entry)
             y == [w.c EXCEPT !.qentry_seqno = n, !.messageQueue = q]
             v == [w EXCEPT !.c = y]
             f == QueueFile(n, m)
  <2>1. e = Put([w EXCEPT !.c.qentry_seqno = n, !.c.messageQueue = Append(@, entry)], f)
    BY <1>3 DEF ProcessPublication, Enqueue
  <2>2. [w EXCEPT !.c.qentry_seqno = n, !.c.messageQueue = Append(@, entry)] = v
    BY <1>1 DEF Worlds, Clients
  <2>3. n \in Nat
    BY <1>1, FieldsOf
  <2> HIDE DEF n
  <2>4. entry \in Waiters
    BY <2>3 DEF Waiters
  <2>5. f \in FileSet
    BY <2>3, FileTyped
  <2>6. q \in Seq(Waiters)
    <3> HIDE DEF entry
    <3>1. w.c.messageQueue \in Seq(Waiters)
      BY <1>1, FieldsOf
    <3> QED BY <2>4, <3>1, Longer
  <2>7. y = [w.c EXCEPT !.qentry_seqno = n, !.messageQueue = q]
    OBVIOUS
  <2> HIDE DEF y, q
  <2>8. /\ y \in Clients /\ y.messageQueue = q /\ y.inboundMsgs = w.c.inboundMsgs
        /\ LinkSame(w.c, y) /\ OutSame(w.c, y)
    BY <1>1, <2>3, <2>6, <2>7 DEF Clients, Waiters, LinkSame, OutSame
  <2>9. v \in Worlds /\ v.c = y /\ v.disk = w.disk /\ v.toBroker = w.toBroker /\ v.arrived = w.arrived
    BY <2>8, ClientIs
  <2>a. e = Put(v, f)
    BY <2>1, <2>2
  <2> HIDE DEF v, f
  <2>10. /\ e \in Worlds /\ e.c = y /\ e.disk = Stored(w.disk, f)
         /\ e.toBroker = w.toBroker /\ e.arrived = w.arrived
    BY <2>a, <2>5, <2>9, PutIs
  <2>11. OutFiles(e.disk) = OutFiles(w.disk)
    BY <2>10, OtherFiles, FileKeys DEF f
  <2> QED BY <2>3, <2>8, <2>10, <2>11 DEF Offers, q, f
<1> QED BY <1>2, <1>3

\* Another set of messages that are known.
Knowing(w, S) == [w EXCEPT !.c.inboundMsgs = S]

LEMMA KnownIs ==
    ASSUME NEW w \in Worlds, NEW S \in SUBSET InEntries, NEW e, e = Knowing(w, S)
    PROVE  /\ e \in Worlds /\ e.c.inboundMsgs = S /\ e.c.messageQueue = w.c.messageQueue
           /\ LinkSame(w.c, e.c) /\ OutSame(w.c, e.c)
           /\ e.disk = w.disk /\ e.toBroker = w.toBroker /\ e.arrived = w.arrived
<1> DEFINE y == [w.c EXCEPT !.inboundMsgs = S]
<1>1. w.c \in Clients
  BY DEF Worlds
<1>2. y \in Clients /\ y.inboundMsgs = S /\ y.messageQueue = w.c.messageQueue /\ LinkSame(w.c, y) /\ OutSame(w.c, y)
  BY <1>1 DEF Clients, InEntries, LinkSame, OutSame
<1>3. e = [w EXCEPT !.c = y]
  BY DEF Knowing
<1> HIDE DEF y
<1>4. e \in Worlds /\ e.c = y /\ e.disk = w.disk /\ e.toBroker = w.toBroker /\ e.arrived = w.arrived
  BY <1>2, <1>3 DEF Worlds
<1> QED BY <1>2, <1>4

\* The messages that are known when one is.
KnownWith(S, p, publish) == {x \in S : x.id # p.id} \cup {[id |-> p.id, msg |-> p.msg, publish |-> publish]}

LEMMA KeptIs ==
    ASSUME NEW w \in Worlds, NEW p, p.id \in BrokerIds, p.msg \in Inbound2,
           NEW publish \in {"kept", "null", "freed"}
    PROVE  LET e == Kept(w, p, publish)
           IN  /\ e \in Worlds /\ e.c.inboundMsgs = KnownWith(w.c.inboundMsgs, p, publish)
               /\ e.c.messageQueue = w.c.messageQueue
               /\ LinkSame(w.c, e.c) /\ OutSame(w.c, e.c)
               /\ e.disk = w.disk /\ e.toBroker = w.toBroker /\ e.arrived = w.arrived
<1> DEFINE S == KnownWith(w.c.inboundMsgs, p, publish)
           e == Kept(w, p, publish)
<1>1. w.c \in Clients
  BY DEF Worlds
<1>2. w.c.inboundMsgs \subseteq InEntries
  BY <1>1, FieldsOf
<1>3. S \in SUBSET InEntries
  <2>1. [id |-> p.id, msg |-> p.msg, publish |-> publish] \in InEntries
    BY DEF InEntries
  <2> QED BY <1>2, <2>1 DEF KnownWith
<1>4. e = Knowing(w, S)
  BY DEF Kept, KnownWith, Knowing
<1> HIDE DEF S, e
<1>5. /\ e \in Worlds /\ e.c.inboundMsgs = S /\ e.c.messageQueue = w.c.messageQueue
      /\ LinkSame(w.c, e.c) /\ OutSame(w.c, e.c)
      /\ e.disk = w.disk /\ e.toBroker = w.toBroker /\ e.arrived = w.arrived
  BY <1>3, <1>4, KnownIs
<1> QED BY <1>5 DEF S, e

\* MQTTProtocol_handlePublishes with QoS 1.
LEMMA ReceivePublish1Does ==
    ASSUME Typed, ReceivePublish1
    PROVE  LET p == Head(toClient)
               ack == Ack("PUBACK", p.id)
           IN  /\ Typed' /\ p.id \in BrokerIds /\ p.msg \in Inbound1 /\ ack \in BrokerBound
               /\ \/ /\ Offers(Now, p.msg, Now') /\ c'.inboundMsgs = c.inboundMsgs
                     /\ LinkSame(c, c') /\ OutSame(c, c') /\ toBroker' = Append(toBroker, ack)
                  \/ /\ "crash" \in Faults /\ c' = NewClient(0) /\ disk' = disk /\ arrived' = arrived
                     /\ toBroker' \in {toBroker, Append(toBroker, ack)}
               /\ OutFiles(disk') = OutFiles(disk)
<1> DEFINE p == Head(toClient)
           ack == Ack("PUBACK", p.id)
           w == Written(Now, ack)
<1>1. /\ p \in ClientBound /\ p.type = "PUBLISH" /\ p.msg \in Inbound1
      /\ toClient' \in Seq(ClientBound) /\ b' = b /\ sent' = sent /\ asked' = asked /\ restarts' = restarts
  BY TakeDoes DEF ReceivePublish1
<1>2. p.id \in BrokerIds /\ p.msg \in Inbound
  BY <1>1 DEF ClientBound
<1>3. ack \in BrokerBound
  BY <1>2, IdsAreNumbers DEF Ack, Packet, BrokerBound, Packets, Types
<1>4. PICK rc \in Answers : Handle(<<Now, w, ProcessPublication(w, p.msg, rc)>>)
  BY DEF ReceivePublish1
<1> HIDE DEF ack, p
<1>5. /\ w \in Worlds /\ w.c = c /\ w.disk = disk /\ w.toBroker = Append(toBroker, ack) /\ w.arrived = arrived
  BY <1>3, NowIs, WrittenIs
<1> HIDE DEF w
<1> DEFINE e == ProcessPublication(w, p.msg, rc)
<1>6. /\ faults' \in 0..MaxFaults
      /\ Become(e) \/ ("crash" \in Faults /\ (Die(Now) \/ Die(w)))
  BY <1>4, NowIs, HandleThree
<1>a. e = ProcessPublication(w, p.msg, rc)
  OBVIOUS
<1> HIDE DEF e
<1>7. /\ e \in Worlds /\ Offers(w, p.msg, e) /\ e.toBroker = w.toBroker
      /\ e.c.inboundMsgs = w.c.inboundMsgs /\ LinkSame(w.c, e.c) /\ OutSame(w.c, e.c)
      /\ OutFiles(e.disk) = OutFiles(w.disk)
  BY <1>2, <1>5, <1>a, ProcessPublicationDoes
<1>8. CASE Become(e)
  <2>1. Now' = e /\ Now' \in Worlds /\ c' = e.c /\ disk' = e.disk /\ toBroker' = e.toBroker
    BY <1>7, <1>8, BecomeIs
  <2>2. Offers(Now, p.msg, Now')
    BY <1>5, <1>7, <2>1, NowIs DEF Offers
  <2>3. Typed'
    BY <1>1, <1>6, <2>1, NowIs, TypedAfter
  <2> QED BY <1>1, <1>2, <1>3, <1>5, <1>7, <2>1, <2>2, <2>3 DEF p, ack
<1>9. CASE "crash" \in Faults /\ (Die(Now) \/ Die(w))
  <2>1. /\ Now' \in Worlds /\ c' = NewClient(0) /\ disk' = disk /\ arrived' = arrived
        /\ toBroker' \in {toBroker, Append(toBroker, ack)}
    BY <1>5, <1>9, NowIs, DieIs
  <2>2. Typed'
    BY <1>1, <1>6, <2>1, NowIs, TypedAfter
  <2> QED BY <1>1, <1>2, <1>3, <1>9, <2>1, <2>2 DEF p, ack
<1> QED BY <1>6, <1>8, <1>9

\* With QoS 2.
LEMMA ReceivePublish2Does ==
    ASSUME Typed, ReceivePublish2
    PROVE  LET p == Head(toClient)
               ack == Ack("PUBREC", p.id)
               f == PublishReceived(p.id, p.msg)
               new == Version = 5 /\ ~AlreadyReceived(p)
           IN  /\ Typed' /\ p.id \in BrokerIds /\ p.msg \in Inbound2 /\ ack \in BrokerBound
               /\ \/ /\ ~new /\ c'.inboundMsgs = KnownWith(c.inboundMsgs, p, "kept")
                     /\ c'.messageQueue = c.messageQueue
                     /\ disk' = Stored(disk, f) /\ arrived' = arrived
                     /\ LinkSame(c, c') /\ OutSame(c, c') /\ toBroker' = Append(toBroker, ack)
                  \/ /\ new /\ c'.inboundMsgs = KnownWith(c.inboundMsgs, p, "null")
                     /\ \E v \in Worlds : v.c.messageQueue = c.messageQueue /\ v.disk = Stored(disk, f)
                                          /\ v.arrived = arrived /\ Offers(v, p.msg, Now')
                     /\ LinkSame(c, c') /\ OutSame(c, c') /\ toBroker' = Append(toBroker, ack)
                  \/ /\ "crash" \in Faults /\ c' = NewClient(0) /\ arrived' = arrived
                     /\ \/ disk' = disk /\ toBroker' = toBroker
                        \/ disk' = Stored(disk, f) /\ toBroker' \in {toBroker, Append(toBroker, ack)}
               /\ OutFiles(disk') = OutFiles(disk)
<1> DEFINE p == Head(toClient)
           ack == Ack("PUBREC", p.id)
           f == PublishReceived(p.id, p.msg)
           u == Put(Now, f)
           v == Kept(u, p, "kept")
           w == Written(v, ack)
<1>1. /\ p \in ClientBound /\ p.type = "PUBLISH" /\ p.msg \in Inbound2
      /\ toClient' \in Seq(ClientBound) /\ b' = b /\ sent' = sent /\ asked' = asked /\ restarts' = restarts
  BY TakeDoes DEF ReceivePublish2
<1>2. p.id \in BrokerIds /\ p.msg \in Inbound
  BY <1>1 DEF ClientBound
<1>3. ack \in BrokerBound /\ f \in FileSet
  BY <1>1, <1>2, IdsAreNumbers, FileTyped DEF Ack, Packet, BrokerBound, Packets, Types
<1>4. IF Version = 5 /\ ~AlreadyReceived(p)
      THEN \E rc \in Answers : Handle(<<Now, u, w, Kept(ProcessPublication(w, p.msg, rc), p, "null")>>)
      ELSE Handle(<<Now, u, w>>)
  BY DEF ReceivePublish2
<1>5. OutFiles(Stored(disk, f)) = OutFiles(disk)
  BY OtherFiles, FileKeys
<1> HIDE DEF ack, p, f
<1>6. u \in Worlds /\ u.c = c /\ u.disk = Stored(disk, f) /\ u.toBroker = toBroker /\ u.arrived = arrived
  BY <1>3, NowIs, PutIs
<1>a. v = Kept(u, p, "kept")
  OBVIOUS
<1> HIDE DEF u, v
<1>7. /\ v \in Worlds /\ v.c.inboundMsgs = KnownWith(c.inboundMsgs, p, "kept")
      /\ v.c.messageQueue = c.messageQueue /\ LinkSame(c, v.c) /\ OutSame(c, v.c)
      /\ v.disk = Stored(disk, f) /\ v.toBroker = toBroker /\ v.arrived = arrived
  <2>1. "kept" \in {"kept", "null", "freed"}
    OBVIOUS
  <2>2. /\ v \in Worlds /\ v.c.inboundMsgs = KnownWith(u.c.inboundMsgs, p, "kept")
        /\ v.c.messageQueue = u.c.messageQueue /\ LinkSame(u.c, v.c) /\ OutSame(u.c, v.c)
        /\ v.disk = u.disk /\ v.toBroker = u.toBroker /\ v.arrived = u.arrived
    BY <1>1, <1>2, <1>6, <1>a, <2>1, KeptIs
  <2> QED BY <1>6, <2>2
<1>8. /\ w \in Worlds /\ w.c = v.c /\ w.disk = Stored(disk, f) /\ w.arrived = arrived
      /\ w.toBroker = Append(toBroker, ack)
  BY <1>3, <1>7, WrittenIs
<1> HIDE DEF w
<1>9. ASSUME "crash" \in Faults, Die(Now) \/ Die(u) \/ Die(w), faults' \in 0..MaxFaults
      PROVE  /\ Typed' /\ c' = NewClient(0) /\ arrived' = arrived
             /\ \/ disk' = disk /\ toBroker' = toBroker
                \/ disk' = Stored(disk, f) /\ toBroker' \in {toBroker, Append(toBroker, ack)}
  <2>1. /\ Now' \in Worlds /\ c' = NewClient(0) /\ arrived' = arrived
        /\ \/ disk' = disk /\ toBroker' = toBroker
           \/ disk' = Stored(disk, f) /\ toBroker' \in {toBroker, Append(toBroker, ack)}
    <3>1. CASE Die(Now)
      BY <3>1, NowIs, DieIs
    <3>2. CASE Die(u)
      BY <3>2, <1>6, DieIs
    <3>3. CASE Die(w)
      BY <3>3, <1>8, DieIs
    <3> QED BY <1>9, <3>1, <3>2, <3>3
  <2> QED BY <1>1, <1>9, <2>1, NowIs, TypedAfter
<1>10. CASE Version = 5 /\ ~AlreadyReceived(p)
  <2>1. PICK rc \in Answers : Handle(<<Now, u, w, Kept(ProcessPublication(w, p.msg, rc), p, "null")>>)
    BY <1>4, <1>10
  <2> DEFINE g == ProcessPublication(w, p.msg, rc)
             e == Kept(g, p, "null")
  <2>2. /\ faults' \in 0..MaxFaults
        /\ Become(e) \/ ("crash" \in Faults /\ (Die(Now) \/ Die(u) \/ Die(w)))
    BY <2>1, NowIs, HandleFour
  <2>a. g = ProcessPublication(w, p.msg, rc) /\ e = Kept(g, p, "null")
    OBVIOUS
  <2> HIDE DEF e, g
  <2>3. /\ g \in Worlds /\ Offers(w, p.msg, g) /\ g.toBroker = w.toBroker
        /\ g.c.inboundMsgs = w.c.inboundMsgs /\ LinkSame(w.c, g.c) /\ OutSame(w.c, g.c)
        /\ OutFiles(g.disk) = OutFiles(w.disk)
    BY <1>2, <1>8, <2>a, ProcessPublicationDoes
  <2>4. /\ e \in Worlds /\ e.c.inboundMsgs = KnownWith(g.c.inboundMsgs, p, "null")
        /\ e.c.messageQueue = g.c.messageQueue /\ LinkSame(g.c, e.c) /\ OutSame(g.c, e.c)
        /\ e.disk = g.disk /\ e.toBroker = g.toBroker /\ e.arrived = g.arrived
    <3>1. "null" \in {"kept", "null", "freed"}
      OBVIOUS
    <3>2. e = Kept(g, p, "null") /\ g \in Worlds /\ p.id \in BrokerIds /\ p.msg \in Inbound2
      BY <1>1, <1>2, <2>3, <2>a
    <3> QED BY <3>1, <3>2, KeptIs
  <2>5. CASE Become(e)
    <3>1. Now' = e /\ Now' \in Worlds /\ c' = e.c /\ disk' = e.disk /\ toBroker' = e.toBroker
      BY <2>4, <2>5, BecomeIs
    <3>2. Offers(w, p.msg, Now')
      BY <2>3, <2>4, <3>1 DEF Offers
    <3>3. c'.inboundMsgs = KnownWith(c.inboundMsgs, p, "null")
      BY <1>7, <1>8, <2>3, <2>4, <3>1 DEF KnownWith
    <3>4. LinkSame(c, c') /\ OutSame(c, c')
      BY <1>7, <1>8, <2>3, <2>4, <3>1 DEF LinkSame, OutSame
    <3>5. Typed'
      BY <1>1, <2>2, <3>1, NowIs, TypedAfter
    <3>6. w.c.messageQueue = c.messageQueue /\ w.disk = Stored(disk, f) /\ w.arrived = arrived
          /\ toBroker' = Append(toBroker, ack) /\ OutFiles(disk') = OutFiles(disk)
      BY <1>5, <1>7, <1>8, <2>3, <2>4, <3>1
    <3> QED BY <1>1, <1>2, <1>3, <1>8, <1>10, <3>2, <3>3, <3>4, <3>5, <3>6 DEF p, ack, f
  <2> QED BY <1>1, <1>2, <1>3, <1>5, <1>9, <2>2, <2>5 DEF p, ack, f
<1>11. CASE ~(Version = 5 /\ ~AlreadyReceived(p))
  <2>1. /\ faults' \in 0..MaxFaults
        /\ Become(w) \/ ("crash" \in Faults /\ (Die(Now) \/ Die(u)))
    <3>1. Handle(<<Now, u, w>>)
      BY <1>4, <1>11
    <3> QED BY <3>1, NowIs, HandleThree
  <2>2. CASE Become(w)
    <3>1. Now' = w /\ Now' \in Worlds /\ c' = w.c /\ disk' = w.disk /\ toBroker' = w.toBroker /\ arrived' = w.arrived
      BY <1>8, <2>2, BecomeIs
    <3>2. Typed'
      BY <1>1, <2>1, <3>1, NowIs, TypedAfter
    <3> QED BY <1>1, <1>2, <1>3, <1>5, <1>7, <1>8, <1>11, <3>1, <3>2 DEF p, ack, f
  <2> QED BY <1>1, <1>2, <1>3, <1>5, <1>9, <2>1, <2>2 DEF p, ack, f
<1> QED BY <1>10, <1>11

\* A message that has been freed is freed again.
LEMMA FreedTwiceDoes ==
    ASSUME Typed, FreedTwice
    PROVE  LET p == Head(toClient)
               f == PublishReceived(p.id, p.msg)
           IN  /\ Typed' /\ p.id \in BrokerIds /\ p.msg \in Inbound2
               /\ \E x \in c.inboundMsgs : x.id = p.id /\ x.publish = "freed"
               /\ c' = NewClient(0) /\ disk' = Stored(disk, f) /\ toBroker' = toBroker /\ arrived' = arrived
               /\ OutFiles(disk') = OutFiles(disk)
<1> DEFINE p == Head(toClient)
           f == PublishReceived(p.id, p.msg)
           u == Put(Now, f)
<1>1. /\ p \in ClientBound /\ p.type = "PUBLISH" /\ p.msg \in Inbound2
      /\ toClient' \in Seq(ClientBound) /\ b' = b /\ sent' = sent /\ asked' = asked /\ restarts' = restarts
  BY TakeDoes DEF FreedTwice
<1>2. p.id \in BrokerIds
  BY <1>1 DEF ClientBound
<1>3. f \in FileSet
  BY <1>1, <1>2, FileTyped
<1>4. OutFiles(Stored(disk, f)) = OutFiles(disk)
  BY OtherFiles, FileKeys
<1>5. Die(u) /\ faults' = faults /\ \E x \in c.inboundMsgs : x.id = p.id /\ x.publish = "freed"
  BY DEF FreedTwice, NoFault, Incoming
<1> HIDE DEF p, f
<1>6. u \in Worlds /\ u.disk = Stored(disk, f) /\ u.toBroker = toBroker /\ u.arrived = arrived
  BY <1>3, NowIs, PutIs
<1> HIDE DEF u
<1>7. /\ Now' \in Worlds /\ c' = NewClient(0) /\ disk' = Stored(disk, f)
      /\ toBroker' = toBroker /\ arrived' = arrived
  BY <1>5, <1>6, DieIs
<1>8. Typed'
  BY <1>1, <1>5, <1>7, NowIs, TypedAfter
<1> QED BY <1>1, <1>2, <1>4, <1>5, <1>7, <1>8 DEF p, f

\* MQTTProtocol_handlePubrels.
LEMMA ReceivePubrelDoes ==
    ASSUME Typed, ReceivePubrel
    PROVE  LET p == Head(toClient)
               ack == Ack("PUBCOMP", p.id)
           IN  /\ Typed' /\ p.id \in BrokerIds /\ ack \in BrokerBound
               /\ \/ /\ Incoming(p.id) = {} /\ c' = c /\ disk' = disk /\ arrived' = arrived
                     /\ toBroker' = IF p.dup = 1 THEN Append(toBroker, ack) ELSE toBroker
                  \/ /\ c'.inboundMsgs = {y \in c.inboundMsgs : y.id # p.id}
                     /\ LinkSame(c, c') /\ OutSame(c, c') /\ toBroker' = Append(toBroker, ack)
                     /\ \E x \in Incoming(p.id), g \in Worlds :
                           /\ IF Version < 5 THEN Offers(Now, x.msg, g)
                              ELSE g.c.messageQueue = c.messageQueue /\ g.arrived = arrived /\ g.disk = disk
                           /\ c'.messageQueue = g.c.messageQueue /\ arrived' = g.arrived
                           /\ disk' = Unlinked(g.disk, "r", p.id)
                  \/ /\ "crash" \in Faults /\ Incoming(p.id) # {} /\ c' = NewClient(0)
                     /\ toBroker' \in {toBroker, Append(toBroker, ack)}
                     /\ Version = 5 => arrived' = arrived /\ disk' \in {disk, Unlinked(disk, "r", p.id)}
               /\ OutFiles(disk') = OutFiles(disk)
<1> DEFINE p == Head(toClient)
           ack == Ack("PUBCOMP", p.id)
           w == Written(Now, ack)
           x == CHOOSE y \in Incoming(p.id) : TRUE
<1>1. /\ p \in ClientBound /\ p.type = "PUBREL" /\ toClient' \in Seq(ClientBound)
      /\ b' = b /\ sent' = sent /\ asked' = asked /\ restarts' = restarts
  BY TakeDoes DEF ReceivePubrel
<1>2. p.id \in BrokerIds
  BY <1>1 DEF ClientBound
<1>3. ack \in BrokerBound
  BY <1>2, IdsAreNumbers DEF Ack, Packet, BrokerBound, Packets, Types
<1>4. IF Incoming(p.id) = {} THEN Handle(<<IF AnswersUnknown(p) THEN w ELSE Now>>)
      ELSE \E rc \in Answers :
              LET g == IF DeliversAtPubrel THEN ProcessPublication(w, x.msg, rc) ELSE w
                  h == Unlink(g, "r", p.id)
              IN  Handle(<<Now, w, g, h, Forgotten(h, p.id)>>)
  BY DEF ReceivePubrel
<1> HIDE DEF ack, p, x
<1>5. /\ w \in Worlds /\ w.c = c /\ w.disk = disk /\ w.toBroker = Append(toBroker, ack) /\ w.arrived = arrived
  BY <1>3, NowIs, WrittenIs
<1> HIDE DEF w
<1>6. CASE Incoming(p.id) = {}
  <2>1. Handle(<<IF AnswersUnknown(p) THEN w ELSE Now>>)
    BY <1>4, <1>6
  <2> DEFINE v == IF AnswersUnknown(p) THEN w ELSE Now
  <2>2. /\ v \in Worlds /\ v.c = c /\ v.disk = disk /\ v.arrived = arrived
        /\ v.toBroker = IF p.dup = 1 THEN Append(toBroker, ack) ELSE toBroker
    BY <1>5, NowIs DEF AnswersUnknown
  <2> HIDE DEF v
  <2>3. Become(v) /\ faults' = faults
    <3>1. Handle(<<v>>)
      BY <2>1 DEF v
    <3> QED BY <3>1, HandleOne
  <2>4. /\ Now' \in Worlds /\ c' = c /\ disk' = disk /\ arrived' = arrived
        /\ toBroker' = IF p.dup = 1 THEN Append(toBroker, ack) ELSE toBroker
    BY <2>2, <2>3, BecomeIs
  <2>5. Typed'
    BY <1>1, <2>3, <2>4, NowIs, TypedAfter
  <2> QED BY <1>2, <1>3, <1>6, <2>4, <2>5 DEF p, ack
<1>7. CASE Incoming(p.id) # {}
  <2>1. x \in Incoming(p.id)
    BY <1>7 DEF x
  <2>2. x.msg \in Inbound
    <3>1. x \in InEntries
      BY <2>1, NowIs, FieldsOf DEF Incoming
    <3> QED BY <3>1 DEF InEntries, Inbound
  <2>3. PICK rc \in Answers :
          LET g == IF DeliversAtPubrel THEN ProcessPublication(w, x.msg, rc) ELSE w
              h == Unlink(g, "r", p.id)
          IN  Handle(<<Now, w, g, h, Forgotten(h, p.id)>>)
    BY <1>4, <1>7
  <2> DEFINE g == IF DeliversAtPubrel THEN ProcessPublication(w, x.msg, rc) ELSE w
             h == Unlink(g, "r", p.id)
             e == Forgotten(h, p.id)
  <2>4. /\ faults' \in 0..MaxFaults
        /\ Become(e) \/ ("crash" \in Faults /\ (Die(Now) \/ Die(w) \/ Die(g) \/ Die(h)))
    <3>1. Handle(<<Now, w, g, h, e>>)
      BY <2>3
    <3> HIDE DEF e, h, g
    <3> QED BY <3>1, NowIs, HandleFive
  <2>5. /\ g \in Worlds /\ g.toBroker = Append(toBroker, ack) /\ g.c.inboundMsgs = c.inboundMsgs
        /\ LinkSame(c, g.c) /\ OutSame(c, g.c) /\ OutFiles(g.disk) = OutFiles(disk)
        /\ IF Version < 5 THEN Offers(w, x.msg, g)
           ELSE g.c.messageQueue = c.messageQueue /\ g.arrived = arrived /\ g.disk = disk
    <3>1. CASE Version < 5
      <4>1. g = ProcessPublication(w, x.msg, rc)
        BY <3>1 DEF DeliversAtPubrel
      <4> HIDE DEF g
      <4>2. /\ g \in Worlds /\ Offers(w, x.msg, g) /\ g.toBroker = w.toBroker
            /\ g.c.inboundMsgs = w.c.inboundMsgs /\ LinkSame(w.c, g.c) /\ OutSame(w.c, g.c)
            /\ OutFiles(g.disk) = OutFiles(w.disk)
        BY <1>5, <2>2, <4>1, ProcessPublicationDoes
      <4> QED BY <1>5, <3>1, <4>2
    <3>2. CASE ~(Version < 5)
      <4>1. g = w
        BY <3>2 DEF DeliversAtPubrel
      <4> QED BY <1>5, <3>2, <4>1 DEF LinkSame, OutSame
    <3> QED BY <3>1, <3>2
  <2>6. IF Version < 5 THEN Offers(Now, x.msg, g)
        ELSE g.c.messageQueue = c.messageQueue /\ g.arrived = arrived /\ g.disk = disk
    BY <1>5, <2>5, NowIs DEF Offers
  <2>a. h = Unlink(g, "r", p.id) /\ e = Forgotten(h, p.id)
    OBVIOUS
  <2> HIDE DEF g, h, e
  <2>7. /\ h \in Worlds /\ h.c = g.c /\ h.disk = Unlinked(g.disk, "r", p.id)
        /\ h.toBroker = g.toBroker /\ h.arrived = g.arrived
    BY <2>5, <2>a, UnlinkIs
  <2>8. OutFiles(h.disk) = OutFiles(disk)
    BY <2>5, <2>7, OtherFiles
  <2> DEFINE S == {y \in h.c.inboundMsgs : y.id # p.id}
  <2>9. S \in SUBSET InEntries /\ S = {y \in c.inboundMsgs : y.id # p.id}
    <3>1. h.c.inboundMsgs = c.inboundMsgs
      BY <2>5, <2>7
    <3>2. c.inboundMsgs \subseteq InEntries
      BY NowIs, FieldsOf
    <3> QED BY <3>1, <3>2
  <2>10. e = Knowing(h, S)
    BY <2>a DEF Forgotten, Knowing
  <2> HIDE DEF S
  <2>11. /\ e \in Worlds /\ e.c.inboundMsgs = S /\ e.c.messageQueue = h.c.messageQueue
         /\ LinkSame(h.c, e.c) /\ OutSame(h.c, e.c)
         /\ e.disk = h.disk /\ e.toBroker = h.toBroker /\ e.arrived = h.arrived
    BY <2>7, <2>9, <2>10, KnownIs
  <2>12. CASE Become(e)
    <3>1. Now' = e /\ Now' \in Worlds /\ c' = e.c /\ disk' = e.disk /\ toBroker' = e.toBroker /\ arrived' = e.arrived
      BY <2>11, <2>12, BecomeIs
    <3>2. LinkSame(c, c') /\ OutSame(c, c')
      BY <2>5, <2>7, <2>11, <3>1 DEF LinkSame, OutSame
    <3>3. Typed'
      BY <1>1, <2>4, <3>1, NowIs, TypedAfter
    <3>4. /\ c'.messageQueue = g.c.messageQueue /\ arrived' = g.arrived
          /\ disk' = Unlinked(g.disk, "r", p.id) /\ toBroker' = Append(toBroker, ack)
          /\ c'.inboundMsgs = {y \in c.inboundMsgs : y.id # p.id} /\ OutFiles(disk') = OutFiles(disk)
      BY <2>5, <2>7, <2>8, <2>9, <2>11, <3>1
    <3>5. \E y \in Incoming(p.id), v \in Worlds :
             /\ IF Version < 5 THEN Offers(Now, y.msg, v)
                ELSE v.c.messageQueue = c.messageQueue /\ v.arrived = arrived /\ v.disk = disk
             /\ c'.messageQueue = v.c.messageQueue /\ arrived' = v.arrived
             /\ disk' = Unlinked(v.disk, "r", p.id)
      BY <2>1, <2>5, <2>6, <3>4
    <3> QED BY <1>2, <1>3, <3>2, <3>3, <3>4, <3>5 DEF p, ack
  <2>13. CASE "crash" \in Faults /\ (Die(Now) \/ Die(w) \/ Die(g) \/ Die(h))
    <3>1. /\ Now' \in Worlds /\ c' = NewClient(0) /\ toBroker' \in {toBroker, Append(toBroker, ack)}
          /\ Version = 5 => arrived' = arrived /\ disk' \in {disk, Unlinked(disk, "r", p.id)}
          /\ OutFiles(disk') = OutFiles(disk)
      <4>1. CASE Die(Now)
        BY <4>1, NowIs, DieIs
      <4>2. CASE Die(w)
        BY <4>2, <1>5, DieIs
      <4>3. CASE Die(g)
        BY <4>3, <2>5, DieIs
      <4>4. CASE Die(h)
        BY <4>4, <2>5, <2>7, <2>8, DieIs
      <4> QED BY <2>13, <4>1, <4>2, <4>3, <4>4
    <3>2. Typed'
      BY <1>1, <2>4, <3>1, NowIs, TypedAfter
    <3> QED BY <1>2, <1>3, <1>7, <2>13, <3>1, <3>2 DEF p, ack
  <2> QED BY <2>4, <2>12, <2>13
<1> QED BY <1>6, <1>7

\* MQTTPacket_Factory and the failed acknowledgement.
LEMMA PendingWritesDoes ==
    ASSUME Typed, PendingWrites
    PROVE  LET p == Head(toClient)
           IN  /\ Typed' /\ LinkSame([c EXCEPT !.connected = 0], c') /\ OutSame(c, c') /\ InSame(c, c')
               /\ c.connected = 1 /\ toClient # <<>>
               /\ \/ disk' = disk
                  \/ p.id \in BrokerIds /\ p.msg \in Inbound2 /\ disk' = Stored(disk, PublishReceived(p.id, p.msg))
               /\ toBroker' = toBroker /\ arrived' = arrived /\ toClient' = <<>>
               /\ b' = b /\ sent' = sent /\ asked' = asked /\ restarts' = restarts
               /\ OutFiles(disk') = OutFiles(disk)
<1> DEFINE p == Head(toClient)
           f == PublishReceived(p.id, p.msg)
           u == IF p.msg \in Inbound2 THEN Put(Now, f) ELSE Now
           y == [c EXCEPT !.connected = 0]
<1>1. p \in ClientBound /\ c.connected = 1 /\ toClient # <<>>
  BY NowIs, TailOf DEF PendingWrites, Arrives
<1>2. p.type \in {"PUBLISH", "PUBREL"}
  BY DEF PendingWrites, Arrives
<1>3. p.id \in BrokerIds
  BY <1>1, <1>2 DEF ClientBound
<1>4. p.msg \in Inbound2 => f \in FileSet
  BY <1>3, FileTyped
<1>5. OutFiles(Stored(disk, f)) = OutFiles(disk)
  BY OtherFiles, FileKeys
<1>6. /\ Become([u EXCEPT !.c.connected = 0]) /\ Fault("pending") /\ toClient' = <<>>
      /\ b' = b /\ sent' = sent /\ asked' = asked /\ restarts' = restarts
  BY DEF PendingWrites
<1>7. /\ y \in Clients /\ y.connected = 0 /\ LinkSame([c EXCEPT !.connected = 0], y) /\ OutSame(c, y) /\ InSame(c, y)
  BY NowIs DEF Clients, LinkSame, OutSame, InSame
<1> HIDE DEF p, f
<1>8. /\ u \in Worlds /\ u.c = c /\ u.toBroker = toBroker /\ u.arrived = arrived
      /\ \/ u.disk = disk
         \/ p.msg \in Inbound2 /\ u.disk = Stored(disk, f)
  BY <1>4, NowIs, PutIs
<1> HIDE DEF u
<1> DEFINE w == [u EXCEPT !.c = y]
<1>9. [u EXCEPT !.c.connected = 0] = w
  BY <1>8 DEF Worlds
<1> HIDE DEF y
<1>10. w \in Worlds /\ w.c = y /\ w.disk = u.disk /\ w.toBroker = toBroker /\ w.arrived = arrived
  BY <1>7, <1>8, ClientIs
<1> HIDE DEF w
<1>11. Now' \in Worlds /\ c' = y /\ disk' = u.disk /\ toBroker' = toBroker /\ arrived' = arrived
  BY <1>6, <1>9, <1>10, BecomeIs
<1>12. faults' \in 0..MaxFaults
  BY <1>6, NowIs, CrashCounted
<1>13. Typed'
  <2>1. <<>> \in Seq(ClientBound)
    OBVIOUS
  <2> QED BY <1>6, <1>11, <1>12, <2>1, NowIs, TypedAfter
<1> QED BY <1>1, <1>3, <1>5, <1>6, <1>7, <1>8, <1>11, <1>13 DEF p, f

\* The head of the message queue is offered again.
LEMMA FlushQueueDoes ==
    ASSUME Typed, FlushQueue
    PROVE  LET e == Head(c.messageQueue)
               bumped == [arrived EXCEPT ![e.msg] = Bump(@)]
               left == IF Version = 5 THEN disk ELSE Unlinked(disk, "q", e.seqno)
           IN  /\ Typed' /\ c.messageQueue # <<>> /\ e \in Waiters
               /\ \/ /\ c'.messageQueue = Tail(c.messageQueue) /\ c'.inboundMsgs = c.inboundMsgs
                     /\ LinkSame(c, c') /\ OutSame(c, c') /\ arrived' = bumped /\ disk' = left
                  \/ /\ "crash" \in Faults /\ c' = NewClient(0)
                     /\ arrived' \in {arrived, bumped} /\ disk' \in {disk, left}
               /\ toBroker' = toBroker /\ OutFiles(disk') = OutFiles(disk)
               /\ toClient' = toClient /\ b' = b /\ sent' = sent /\ asked' = asked /\ restarts' = restarts
<1> DEFINE e == Head(c.messageQueue)
           bumped == [arrived EXCEPT ![e.msg] = Bump(@)]
           left == IF Version = 5 THEN disk ELSE Unlinked(disk, "q", e.seqno)
           u == [Now EXCEPT !.arrived[e.msg] = Bump(@)]
           v == QueueUnlinked(u, e.seqno)
           q == Tail(c.messageQueue)
           y == [c EXCEPT !.messageQueue = q]
           w == [v EXCEPT !.c = y]
<1>1. c \in Clients /\ c.messageQueue \in Seq(Waiters) /\ c.messageQueue # <<>>
  BY NowIs, FieldsOf DEF FlushQueue
<1>2. e \in Waiters /\ q \in Seq(Waiters)
  BY <1>1, TailOf
<1>3. e.msg \in Inbound
  BY <1>2 DEF Waiters
<1>4. Handle(<<Now, u, v, [v EXCEPT !.c.messageQueue = Tail(@)]>>)
  BY DEF FlushQueue
<1>5. bumped \in [Inbound -> 0..2]
  BY <1>3, NowIs DEF Bump
<1>6. u = [Now EXCEPT !.arrived = bumped]
  BY DEF Now
<1>a. y = [c EXCEPT !.messageQueue = q]
  OBVIOUS
<1> HIDE DEF e, bumped, u, q, y
<1>7. u \in Worlds /\ u.c = c /\ u.disk = disk /\ u.toBroker = toBroker /\ u.arrived = bumped
  BY <1>5, <1>6, NowIs DEF Worlds
<1>8. v \in Worlds /\ v.c = c /\ v.disk = left /\ v.toBroker = toBroker /\ v.arrived = bumped
  BY <1>7, UnlinkIs DEF QueueUnlinked
<1>9. OutFiles(left) = OutFiles(disk)
  BY OtherFiles
<1> HIDE DEF v, left
<1>10. /\ y \in Clients /\ y.messageQueue = q /\ y.inboundMsgs = c.inboundMsgs
       /\ LinkSame(c, y) /\ OutSame(c, y)
  BY <1>1, <1>2, <1>a DEF Clients, Waiters, LinkSame, OutSame
<1>11. w \in Worlds /\ w.c = y /\ w.disk = left /\ w.toBroker = toBroker /\ w.arrived = bumped
  BY <1>8, <1>10, ClientIs
<1>12. [v EXCEPT !.c.messageQueue = Tail(@)] = w
  BY <1>8, <1>a DEF Worlds, q
<1> HIDE DEF w
<1>13. /\ faults' \in 0..MaxFaults
       /\ Become(w) \/ ("crash" \in Faults /\ (Die(Now) \/ Die(u) \/ Die(v)))
  <2>1. Handle(<<Now, u, v, w>>)
    BY <1>4, <1>12
  <2> QED BY <2>1, NowIs, HandleFour
<1>14. /\ toClient' = toClient /\ b' = b /\ sent' = sent /\ asked' = asked /\ restarts' = restarts
  BY DEF FlushQueue, external
<1>15. CASE Become(w)
  <2>1. /\ Now' \in Worlds /\ c' = y /\ disk' = left /\ toBroker' = toBroker /\ arrived' = bumped
    BY <1>11, <1>15, BecomeIs
  <2>2. Typed'
    BY <1>13, <1>14, <2>1, NowIs, TypedAfter
  <2> QED BY <1>1, <1>2, <1>9, <1>10, <1>14, <2>1, <2>2 DEF e, bumped, left, q
<1>16. CASE "crash" \in Faults /\ (Die(Now) \/ Die(u) \/ Die(v))
  <2>1. /\ Now' \in Worlds /\ c' = NewClient(0) /\ toBroker' = toBroker
        /\ arrived' \in {arrived, bumped} /\ disk' \in {disk, left}
    BY <1>7, <1>8, <1>16, NowIs, DieIs
  <2>2. Typed'
    BY <1>13, <1>14, <2>1, NowIs, TypedAfter
  <2> QED BY <1>1, <1>2, <1>9, <1>14, <1>16, <2>1, <2>2 DEF e, bumped, left
<1> QED BY <1>13, <1>15, <1>16

LEMMA BreakDoes ==
    ASSUME Typed, Break
    PROVE  /\ Typed' /\ LinkSame([c EXCEPT !.connected = 0], c') /\ OutSame(c, c') /\ InSame(c, c')
           /\ disk' = disk /\ toBroker' = toBroker /\ arrived' = arrived /\ toClient' = <<>>
           /\ b' = b /\ sent' = sent /\ asked' = asked /\ restarts' = restarts
<1>1. /\ c' = [c EXCEPT !.connected = 0] /\ Fault("break") /\ toClient' = <<>>
      /\ disk' = disk /\ toBroker' = toBroker /\ arrived' = arrived
      /\ b' = b /\ sent' = sent /\ asked' = asked /\ restarts' = restarts
  BY DEF Break
<1>2. c' \in Clients /\ LinkSame([c EXCEPT !.connected = 0], c') /\ OutSame(c, c') /\ InSame(c, c')
  BY <1>1, NowIs DEF Clients, LinkSame, OutSame, InSame
<1>3. Now' \in Worlds
  BY <1>1, <1>2, NowIs DEF Now, Worlds
<1>4. <<>> \in Seq(ClientBound)
  OBVIOUS
<1> QED BY <1>1, <1>2, <1>3, <1>4, NowIs, CrashCounted, TypedAfter

LEMMA CrashDoes ==
    ASSUME Typed, Crash
    PROVE  /\ Typed' /\ "crash" \in Faults /\ c' = NewClient(0)
           /\ disk' = disk /\ toBroker' = toBroker /\ arrived' = arrived /\ toClient' = toClient
           /\ b' = b /\ sent' = sent /\ asked' = asked /\ restarts' = restarts
<1>1. /\ Die(Now) /\ Fault("crash") /\ toClient' = toClient
      /\ b' = b /\ sent' = sent /\ asked' = asked /\ restarts' = restarts
  BY DEF Crash, external
<1>2. /\ Now' \in Worlds /\ c' = NewClient(0) /\ disk' = disk /\ toBroker' = toBroker /\ arrived' = arrived
  BY <1>1, NowIs, DieIs
<1> QED BY <1>1, <1>2, NowIs, CrashCounted, TypedAfter

LEMMA ImageIsFinite ==
    ASSUME NEW S, IsFiniteSet(S), NEW f
    PROVE  IsFiniteSet({f[x] : x \in S})
<1> DEFINE T == {f[x] : x \in S}
           g == [x \in S |-> f[x]]
<1>1. g \in Surjection(S, T)
  BY DEF Surjection
<1> HIDE DEF g, T
<1>2. IsFiniteSet(T)
  BY <1>1, FS_Surjection
<1> QED BY <1>2 DEF T

\* MQTTProtocol_retries: the files that are written, the last one of each
\* key and number.
AgainFiles == [i \in DOMAIN c.outboundMsgs |-> StoredAgain(c.outboundMsgs[i])]
LastOf(files) == {files[i] : i \in {i \in DOMAIN files : \A j \in DOMAIN files : j > i => ~SameFile(files[i], files[j])}}

LEMMA StoredAllIs ==
    ASSUME NEW d \in Disks, NEW n \in Nat, NEW files \in [1..n -> FileSet]
    PROVE  /\ StoredAll(d, files) \in Disks
           /\ StoredAll(d, files) =
                IF Persistence = 0 THEN d ELSE {f \in d : \A g \in LastOf(files) : ~SameFile(f, g)} \cup LastOf(files)
<1> DEFINE L == LastOf(files)
           I == {i \in DOMAIN files : \A j \in DOMAIN files : j > i => ~SameFile(files[i], files[j])}
           keep == {f \in d : \A g \in L : ~SameFile(f, g)}
<1>1. DOMAIN files = 1..n
  OBVIOUS
<1>2. StoredAll(d, files) = IF Persistence = 0 THEN d ELSE keep \cup L
  BY DEF StoredAll, LastOf
<1>3. L = {files[i] : i \in I}
  BY DEF LastOf
<1>4. IsFiniteSet(I)
  <2>1. IsFiniteSet(1..n)
    BY FS_Interval
  <2>2. I \subseteq 1..n
    BY <1>1
  <2> QED BY <2>1, <2>2, FS_Subset
<1>5. \A f, g \in L : SameFile(f, g) => f = g
  <2> SUFFICES ASSUME NEW f \in L, NEW g \in L, SameFile(f, g) PROVE f = g
    OBVIOUS
  <2>1. PICK i \in I : f = files[i]
    BY <1>3
  <2>2. PICK j \in I : g = files[j]
    BY <1>3
  <2>3. i \in Nat /\ j \in Nat /\ i \in DOMAIN files /\ j \in DOMAIN files
    BY <1>1
  <2>4. ~(j > i)
    BY <2>1, <2>2, <2>3
  <2>5. ~(i > j)
    <3>1. SameFile(files[j], files[i])
      BY <2>1, <2>2 DEF SameFile
    <3> QED BY <2>3, <3>1
  <2> QED BY <2>1, <2>2, <2>3, <2>4, <2>5
<1>6. L \subseteq FileSet
  BY <1>1, <1>3
<1>7. IsFiniteSet(L)
  <2> HIDE DEF I
  <2> QED BY <1>3, <1>4, ImageIsFinite
<1>8. d \subseteq FileSet /\ IsFiniteSet(d) /\ SameFiles(d)
  BY DEF Disks
<1>9. keep \subseteq d
  OBVIOUS
<1> HIDE DEF L
<1>10. IsFiniteSet(keep)
  BY <1>8, <1>9, FS_Subset
<1>11. IsFiniteSet(keep \cup L)
  BY <1>7, <1>10, FS_Union
<1>12. SameFiles(keep \cup L)
  <2> SUFFICES ASSUME NEW f \in keep \cup L, NEW g \in keep \cup L, SameFile(f, g) PROVE f = g
    BY DEF SameFiles
  <2>1. SameFile(g, f)
    BY DEF SameFile
  <2> QED BY <1>5, <1>8, <2>1 DEF SameFiles
<1>13. keep \cup L \in Disks
  BY <1>6, <1>8, <1>9, <1>11, <1>12 DEF Disks
<1> QED BY <1>2, <1>13 DEF L

\* The rank of a file among files of different numbers, and the file of
\* each rank: ById.
Below(files, f) == {g \in files : g.n < f.n}
Numbered(files) == IsFiniteSet(files) /\ \A f, g \in files : f.n \in Nat /\ (f.n = g.n => f = g)

LEMMA RankIs ==
    ASSUME NEW files, Numbered(files), NEW f \in files
    PROVE  /\ IsFiniteSet(Below(files, f)) /\ Cardinality(Below(files, f)) \in 0..(Cardinality(files) - 1)
           /\ \A g \in files : g.n < f.n => Cardinality(Below(files, g)) < Cardinality(Below(files, f))
<1>1. IsFiniteSet(files) /\ \A g \in files : g.n \in Nat
  BY DEF Numbered
<1>2. IsFiniteSet(files \ {f}) /\ Cardinality(files \ {f}) = Cardinality(files) - 1
  BY <1>1, FS_RemoveElement
<1>3. Below(files, f) \subseteq files \ {f}
  BY <1>1 DEF Below
<1>4. IsFiniteSet(Below(files, f)) /\ Cardinality(Below(files, f)) <= Cardinality(files) - 1
  BY <1>2, <1>3, FS_Subset
<1>5. Cardinality(Below(files, f)) \in Nat /\ Cardinality(files) \in Nat
  BY <1>1, <1>4, FS_CardinalityType
<1>6. ASSUME NEW g \in files, g.n < f.n PROVE Cardinality(Below(files, g)) < Cardinality(Below(files, f))
  <2>1. f.n \in Nat /\ g.n \in Nat
    BY <1>1
  <2>2. Below(files, g) \subseteq Below(files, f) /\ g \in Below(files, f) /\ g \notin Below(files, g)
    BY <1>1, <1>6, <2>1 DEF Below
  <2>3. IsFiniteSet(Below(files, g)) /\ Cardinality(Below(files, g)) <= Cardinality(Below(files, f))
        /\ (Cardinality(Below(files, f)) = Cardinality(Below(files, g)) => Below(files, f) = Below(files, g))
    BY <1>4, <2>2, FS_Subset
  <2>4. Cardinality(Below(files, g)) \in Nat
    BY <2>3, FS_CardinalityType
  <2> QED BY <1>5, <2>2, <2>3, <2>4
<1> QED BY <1>4, <1>5, <1>6

LEMMA ByIdIs ==
    ASSUME NEW files, Numbered(files)
    PROVE  /\ ById(files) \in Seq(files) /\ Len(ById(files)) = Cardinality(files) /\ Cardinality(files) \in Nat
           /\ DOMAIN ById(files) = 1..Cardinality(files)
           /\ \A f \in files : \E i \in 1..Cardinality(files) : ById(files)[i] = f
           /\ \A i, j \in 1..Cardinality(files) : i < j => ById(files)[i].n < ById(files)[j].n
<1> DEFINE N == Cardinality(files)
           rank == [f \in files |-> Cardinality(Below(files, f))]
           q == ById(files)
<1>1. IsFiniteSet(files) /\ N \in Nat /\ \A f, g \in files : f.n \in Nat /\ (f.n = g.n => f = g)
  BY FS_CardinalityType DEF Numbered
<1>2. rank \in [files -> 0..(N - 1)]
  BY RankIs
<1>3. \A f, g \in files : f.n < g.n => rank[f] < rank[g]
  BY RankIs
<1>a. \A f \in files : rank[f] = Cardinality(Below(files, f))
  OBVIOUS
<1> HIDE DEF rank, N
<1>4. \A f, g \in files : rank[f] = rank[g] => f = g
  <2> SUFFICES ASSUME NEW f \in files, NEW g \in files, f # g PROVE rank[f] # rank[g]
    OBVIOUS
  <2>1. f.n \in Nat /\ g.n \in Nat /\ f.n # g.n
    BY <1>1
  <2>2. rank[f] \in 0..(N - 1) /\ rank[g] \in 0..(N - 1)
    BY <1>2
  <2> QED BY <1>1, <1>3, <2>1, <2>2
<1>5. \A k \in 0..(N - 1) : \E f \in files : rank[f] = k
  <2>1. rank \in Injection(files, 0..(N - 1))
    BY <1>2, <1>4 DEF Injection, IsInjective
  <2>2. IsFiniteSet(0..(N - 1)) /\ Cardinality(0..(N - 1)) = N
    <3>1. 0 \in Int /\ N - 1 \in Int
      BY <1>1
    <3>2. IsFiniteSet(0..(N - 1)) /\ Cardinality(0..(N - 1)) = IF 0 > N - 1 THEN 0 ELSE (N - 1) - 0 + 1
      BY <3>1, FS_Interval
    <3> QED BY <1>1, <3>2
  <2>3. Cardinality(files) = N
    BY DEF N
  <2>4. rank \in Surjection(files, 0..(N - 1))
    BY <2>1, <2>2, <2>3, FS_Injection
  <2> QED BY <2>4 DEF Surjection
<1>6. DOMAIN q = 1..N /\ \A i \in 1..N : q[i] = CHOOSE f \in files : Cardinality({g \in files : g.n < f.n}) = i - 1
  BY DEF ById, N
<1>7. ASSUME NEW i \in 1..N PROVE q[i] \in files /\ rank[q[i]] = i - 1
  <2>1. i - 1 \in 0..(N - 1)
    BY <1>1
  <2>2. PICK f \in files : rank[f] = i - 1
    BY <1>5, <2>1
  <2>3. Cardinality({g \in files : g.n < f.n}) = i - 1
    BY <1>a, <2>2 DEF Below
  <2>4. q[i] \in files /\ Cardinality({g \in files : g.n < q[i].n}) = i - 1
    BY <1>6, <2>3
  <2> QED BY <1>a, <2>4 DEF Below
<1> HIDE DEF q
<1>8. ASSUME NEW f \in files PROVE \E i \in 1..N : q[i] = f
  <2>1. rank[f] \in 0..(N - 1)
    BY <1>2
  <2>2. PICK i \in 1..N : i = rank[f] + 1
    <3>1. rank[f] + 1 \in 1..N
      BY <1>1, <2>1
    <3> QED BY <3>1
  <2>3. rank[q[i]] = rank[f] /\ q[i] \in files
    BY <1>7, <2>1, <2>2
  <2> QED BY <1>4, <2>3
<1>9. ASSUME NEW i \in 1..N, NEW j \in 1..N, i < j PROVE q[i].n < q[j].n
  <2>1. q[i] \in files /\ q[j] \in files /\ rank[q[i]] = i - 1 /\ rank[q[j]] = j - 1
    BY <1>7
  <2>2. q[i].n \in Nat /\ q[j].n \in Nat
    BY <1>1, <2>1
  <2>3. ~(q[j].n < q[i].n)
    BY <1>1, <1>3, <1>9, <2>1
  <2>4. q[i].n # q[j].n
    BY <1>1, <1>9, <2>1
  <2> QED BY <2>2, <2>3, <2>4
<1>10. q \in Seq(files) /\ Len(q) = N
  <2>1. q = [i \in 1..N |-> CHOOSE f \in files : Cardinality({g \in files : g.n < f.n}) = i - 1]
    BY DEF q, ById, N
  <2>2. q \in [1..N -> files]
    BY <1>6, <1>7, <2>1
  <2> QED BY <1>1, <2>2, LenProperties
<1> QED BY <1>1, <1>6, <1>8, <1>9, <1>10 DEF q, N

\* The greatest number, if there is one.
LEMMA HighestIs ==
    ASSUME NEW files, Numbered(files)
    PROVE  LET h == Highest({f.n : f \in files})
           IN  h \in Nat /\ \A f \in files : f.n <= h
<1> DEFINE N == Cardinality(files)
           q == ById(files)
           T == {f.n : f \in files}
<1>1. \A f \in files : f.n \in Nat
  BY DEF Numbered
<1>2. CASE files = {}
  <2>1. T = {}
    BY <1>2
  <2> QED BY <1>2, <2>1 DEF Highest
<1>3. CASE files # {}
  <2>1. /\ q \in Seq(files) /\ Len(q) = N /\ N \in Nat
        /\ \A f \in files : \E i \in 1..N : q[i] = f
        /\ \A i, j \in 1..N : i < j => q[i].n < q[j].n
    BY ByIdIs
  <2>2. DOMAIN q = 1..N
    BY <2>1, LenProperties
  <2> HIDE DEF q, N
  <2>3. N \in 1..N
    BY <1>3, <2>1
  <2>4. q[N] \in files
    BY <2>1, <2>2, <2>3
  <2>5. \A f \in files : f.n <= q[N].n
    <3> SUFFICES ASSUME NEW f \in files PROVE f.n <= q[N].n
      OBVIOUS
    <3>1. PICK i \in 1..N : q[i] = f
      BY <2>1
    <3>2. CASE i = N
      BY <1>1, <3>1, <3>2
    <3>3. CASE i # N
      <4>1. i < N
        BY <2>1, <3>3
      <4>2. q[i].n < q[N].n
        BY <2>1, <2>3, <4>1
      <4> QED BY <1>1, <2>4, <3>1, <4>2
    <3> QED BY <3>2, <3>3
  <2>6. q[N].n \in T /\ \A k \in T : k <= q[N].n
    BY <2>4, <2>5
  <2>7. T # {} /\ T \subseteq Nat
    BY <1>1, <1>3
  <2> HIDE DEF T
  <2>8. Highest(T) \in T /\ \A k \in T : k <= Highest(T)
    BY <2>6, <2>7 DEF Highest
  <2> QED BY <2>7, <2>8 DEF T
<1> QED BY <1>2, <1>3

\* What is stored and written again has its type.
LEMMA AgainTyped ==
    /\ \A e \in OutEntries : StoredAgain(e) \in FileSet /\ Again(e) \in BrokerBound
    /\ \A e \in BrokerEntries : BrokerAgain(e) \in ClientBound
<1>1. ASSUME NEW e \in OutEntries PROVE StoredAgain(e) \in FileSet /\ Again(e) \in BrokerBound
  <2>1. e.id \in Ids /\ e.msg \in Outbound
    BY DEF OutEntries
  <2>2. StoredAgain(e) \in FileSet
    BY <2>1, FileTyped DEF StoredAgain
  <2>3. Again(e) \in BrokerBound
    BY <2>1 DEF Again, Ack, Packet, BrokerBound, Packets, Types
  <2> QED BY <2>2, <2>3
<1>2. ASSUME NEW e \in BrokerEntries PROVE BrokerAgain(e) \in ClientBound
  <2>1. e.id \in BrokerIds /\ e.msg \in Inbound
    BY DEF BrokerEntries
  <2> QED BY <2>1 DEF BrokerAgain, Packet, ClientBound, Packets, Types
<1> QED BY <1>1, <1>2

LEMMA AgainFilesTyped ==
    ASSUME Typed
    PROVE  /\ AgainFiles \in [1..Len(c.outboundMsgs) -> FileSet] /\ Len(c.outboundMsgs) \in Nat
           /\ DOMAIN c.outboundMsgs = 1..Len(c.outboundMsgs)
<1>1. c.outboundMsgs \in Seq(OutEntries)
  BY NowIs, FieldsOf
<1>2. DOMAIN c.outboundMsgs = 1..Len(c.outboundMsgs) /\ Len(c.outboundMsgs) \in Nat
  BY <1>1, LenProperties
<1>3. \A i \in DOMAIN c.outboundMsgs : c.outboundMsgs[i] \in OutEntries
  BY <1>1, <1>2
<1>4. AgainFiles \in [1..Len(c.outboundMsgs) -> FileSet]
  BY <1>2, <1>3, AgainTyped DEF AgainFiles
<1> QED BY <1>2, <1>4

\* MQTTProtocol_retry on a new connection.
LEMMA ConnectDoes ==
    ASSUME Typed, Connect
    PROVE  /\ Typed' /\ c.running = 1 /\ c.connected = 0
           /\ c'.connected = 1 /\ c'.running = c.running /\ OutSame(c, c') /\ InSame(c, c')
           /\ disk' = StoredAll(disk, AgainFiles)
           /\ toBroker' = [i \in DOMAIN c.outboundMsgs |-> Again(c.outboundMsgs[i])]
           /\ toClient' = [i \in DOMAIN b.out |-> BrokerAgain(b.out[i])]
           /\ arrived' = arrived /\ b' = b /\ sent' = sent /\ asked' = asked /\ restarts' = restarts
<1>1. /\ c.running = 1 /\ c.connected = 0 /\ c' = [c EXCEPT !.connected = 1]
      /\ disk' = StoredAll(disk, AgainFiles)
      /\ toBroker' = [i \in DOMAIN c.outboundMsgs |-> Again(c.outboundMsgs[i])]
      /\ toClient' = [i \in DOMAIN b.out |-> BrokerAgain(b.out[i])]
      /\ arrived' = arrived /\ b' = b /\ sent' = sent /\ asked' = asked /\ restarts' = restarts /\ faults' = faults
  BY DEF Connect, AgainFiles, NoFault
<1>2. c' \in Clients /\ c'.connected = 1 /\ c'.running = c.running /\ OutSame(c, c') /\ InSame(c, c')
  BY <1>1, NowIs DEF Clients, OutSame, InSame
<1>3. disk' \in Disks
  BY <1>1, AgainFilesTyped, NowIs, StoredAllIs
<1>4. toBroker' \in Seq(BrokerBound)
  <2>1. c.outboundMsgs \in Seq(OutEntries)
    BY NowIs, FieldsOf
  <2>2. DOMAIN c.outboundMsgs = 1..Len(c.outboundMsgs) /\ Len(c.outboundMsgs) \in Nat
    BY <2>1, LenProperties
  <2>3. \A i \in DOMAIN c.outboundMsgs : Again(c.outboundMsgs[i]) \in BrokerBound
    BY <2>1, <2>2, AgainTyped
  <2>4. toBroker' \in [1..Len(c.outboundMsgs) -> BrokerBound]
    BY <1>1, <2>2, <2>3
  <2> QED BY <2>2, <2>4
<1>5. toClient' \in Seq(ClientBound)
  <2>1. b.out \in Seq(BrokerEntries)
    BY NowIs DEF Sessions
  <2>2. DOMAIN b.out = 1..Len(b.out) /\ Len(b.out) \in Nat
    BY <2>1, LenProperties
  <2>3. \A i \in DOMAIN b.out : BrokerAgain(b.out[i]) \in ClientBound
    BY <2>1, <2>2, AgainTyped
  <2>4. toClient' \in [1..Len(b.out) -> ClientBound]
    BY <1>1, <2>2, <2>3
  <2> QED BY <2>2, <2>4
<1>6. Now' \in Worlds
  BY <1>1, <1>2, <1>3, <1>4, NowIs DEF Now, Worlds
<1>7. Typed'
  BY <1>1, <1>5, <1>6, NowIs, TypedAfter
<1> QED BY <1>1, <1>2, <1>7

\* A sequence that begins at another place and goes on from the front.
LEMMA RotatedIs ==
    ASSUME NEW S, NEW s \in Seq(S), NEW i \in 1..Len(s)
    PROVE  LET t == SubSeq(s, i, Len(s)) \o SubSeq(s, 1, i - 1)
               n == Len(s)
           IN  /\ t \in Seq(S) /\ Len(t) = n /\ n \in Nat
               /\ \A j \in 1..(n - i + 1) : t[j] = s[i + j - 1]
               /\ \A j \in (n - i + 2)..n : t[j] = s[j - (n - i + 1)]
<1> DEFINE n == Len(s)
           x == SubSeq(s, i, n)
           y == SubSeq(s, 1, i - 1)
<1>1. n \in Nat /\ i \in Nat /\ i >= 1 /\ i <= n /\ \A j \in 1..n : s[j] \in S
  BY LenProperties
<1>2. x \in Seq(S) /\ Len(x) = n - i + 1 /\ \A j \in 1..(n - i + 1) : x[j] = s[i + j - 1]
  <2>1. \A j \in i..n : s[j] \in S
    BY <1>1
  <2>2. i \in Int /\ n \in Int
    BY <1>1
  <2>3. /\ x \in Seq(S) /\ Len(x) = IF i <= n THEN n - i + 1 ELSE 0
        /\ \A j \in 1..(n - i + 1) : x[j] = s[i + j - 1]
    BY <2>1, <2>2, SubSeqProperties
  <2> HIDE DEF x
  <2> QED BY <1>1, <2>3
<1>3. y \in Seq(S) /\ Len(y) = i - 1 /\ \A j \in 1..(i - 1) : y[j] = s[j]
  <2>1. \A j \in 1..(i - 1) : s[j] \in S
    BY <1>1
  <2>2. 1 \in Int /\ i - 1 \in Int
    BY <1>1
  <2>3. /\ y \in Seq(S) /\ Len(y) = IF 1 <= i - 1 THEN (i - 1) - 1 + 1 ELSE 0
        /\ \A j \in 1..((i - 1) - 1 + 1) : y[j] = s[1 + j - 1]
    BY <2>1, <2>2, SubSeqProperties
  <2> HIDE DEF y
  <2> QED BY <1>1, <2>3
<1> HIDE DEF x, y
<1>4. /\ x \o y \in Seq(S) /\ Len(x \o y) = Len(x) + Len(y)
      /\ \A j \in 1..(Len(x) + Len(y)) : (x \o y)[j] = IF j <= Len(x) THEN x[j] ELSE y[j - Len(x)]
  <2>1. x \in Seq(S) /\ y \in Seq(S)
    BY <1>2, <1>3
  <2> QED BY <2>1, ConcatProperties
<1>5. Len(x) + Len(y) = n
  BY <1>1, <1>2, <1>3
<1>6. ASSUME NEW j \in 1..(n - i + 1) PROVE (x \o y)[j] = s[i + j - 1]
  <2>1. j \in 1..n /\ j <= Len(x)
    BY <1>1, <1>2
  <2>2. (x \o y)[j] = x[j]
    BY <1>4, <1>5, <2>1
  <2> QED BY <1>2, <2>2
<1>7. ASSUME NEW j \in (n - i + 2)..n PROVE (x \o y)[j] = s[j - (n - i + 1)]
  <2>1. j \in 1..n /\ ~(j <= n - i + 1) /\ j - (n - i + 1) \in 1..(i - 1)
    BY <1>1
  <2>2. (x \o y)[j] = y[j - (n - i + 1)]
    BY <1>2, <1>4, <1>5, <2>1
  <2> QED BY <1>3, <2>1, <2>2
<1> QED BY <1>1, <1>4, <1>5, <1>6, <1>7 DEF x, y

\* Every element is there once.
Rotated(s, i) == SubSeq(s, i, Len(s)) \o SubSeq(s, 1, i - 1)
OnceEach(s) == \A j, k \in 1..Len(s) : s[j] = s[k] => j = k

LEMMA RotatedAll ==
    ASSUME NEW S, NEW s \in Seq(S), NEW i \in 1..Len(s), OnceEach(s)
    PROVE  /\ Rotated(s, i) \in Seq(S) /\ Len(Rotated(s, i)) = Len(s)
           /\ \A k \in 1..Len(s) : \E j \in 1..Len(s) : Rotated(s, i)[j] = s[k]
           /\ OnceEach(Rotated(s, i))
<1> DEFINE t == Rotated(s, i)
           n == Len(s)
<1>1. /\ t \in Seq(S) /\ Len(t) = n /\ n \in Nat
      /\ \A j \in 1..(n - i + 1) : t[j] = s[i + j - 1]
      /\ \A j \in (n - i + 2)..n : t[j] = s[j - (n - i + 1)]
  BY RotatedIs DEF Rotated
<1> HIDE DEF t
<1> DEFINE from(j) == IF j <= n - i + 1 THEN i + j - 1 ELSE j - (n - i + 1)
<1>2. \A j \in 1..n : from(j) \in 1..n
  BY <1>1
<1>3. \A j \in 1..n : t[j] = s[from(j)]
  <2> SUFFICES ASSUME NEW j \in 1..n PROVE t[j] = s[from(j)]
    OBVIOUS
  <2>1. CASE j <= n - i + 1
    <3>1. j \in 1..(n - i + 1)
      BY <1>1, <2>1
    <3> QED BY <1>1, <2>1, <3>1
  <2>2. CASE ~(j <= n - i + 1)
    <3>1. j \in (n - i + 2)..n
      BY <1>1, <2>2
    <3> QED BY <1>1, <2>2, <3>1
  <2> QED BY <2>1, <2>2
<1>4. \A j, k \in 1..n : from(j) = from(k) => j = k
  BY <1>1
<1>5. \A k \in 1..n : \E j \in 1..n : from(j) = k
  <2> SUFFICES ASSUME NEW k \in 1..n PROVE \E j \in 1..n : from(j) = k
    OBVIOUS
  <2>1. CASE k >= i
    <3>1. k - i + 1 \in 1..n /\ from(k - i + 1) = k
      BY <1>1, <2>1
    <3> QED BY <3>1
  <2>2. CASE ~(k >= i)
    <3>1. k + (n - i + 1) \in 1..n /\ from(k + (n - i + 1)) = k
      BY <1>1, <2>2
    <3> QED BY <3>1
  <2> QED BY <2>1, <2>2
<1>6. \A k \in 1..n : \E j \in 1..n : t[j] = s[k]
  <2> HIDE DEF from
  <2> QED BY <1>3, <1>5
<1>8. \A j, k \in 1..n : t[j] = t[k] => j = k
  <2> HIDE DEF from
  <2> SUFFICES ASSUME NEW j \in 1..n, NEW k \in 1..n, t[j] = t[k] PROVE j = k
    OBVIOUS
  <2>1. from(j) \in 1..n /\ from(k) \in 1..n
    BY <1>2
  <2>2. s[from(j)] = s[from(k)]
    BY <1>3
  <2>3. from(j) = from(k)
    BY <2>1, <2>2 DEF OnceEach
  <2> QED BY <1>4, <2>3
<1> QED BY <1>1, <1>6, <1>8 DEF t, OnceEach

\* MQTTPersistence_wrapMsgID turns the sequence at the first largest gap.
LEMMA WrappedIs ==
    ASSUME NEW S, NEW s \in Seq(S), s # <<>>,
           \A i \in 1..Len(s) : s[i].n \in 1..MAX_MSG_ID,
           \A i, j \in 1..Len(s) : i < j => s[i].n < s[j].n
    PROVE  \E i \in 1..Len(s) :
              /\ Wrapped(s) = Rotated(s, i)
              /\ \A j \in 1..Len(s) : Gap(s, j) <= Gap(s, i)
              /\ \A j \in 1..(i - 1) : Gap(s, j) < Gap(s, i)
<1> DEFINE n == Len(s)
           G == {Gap(s, j) : j \in 1..n}
<1>1. n \in Nat \ {0} /\ DOMAIN s = 1..n /\ MAX_MSG_ID \in Nat
  BY EmptySeq, LenProperties
<1>2. \A j \in 1..n : Gap(s, j) \in 0..(2 * MAX_MSG_ID)
  <2> SUFFICES ASSUME NEW j \in 1..n PROVE Gap(s, j) \in 0..(2 * MAX_MSG_ID)
    OBVIOUS
  <2>1. s[j].n \in 1..MAX_MSG_ID /\ s[1].n \in 1..MAX_MSG_ID /\ s[n].n \in 1..MAX_MSG_ID
    BY <1>1
  <2>2. CASE j = 1
    BY <1>1, <2>1, <2>2 DEF Gap
  <2>3. CASE j # 1
    <3>1. j - 1 \in 1..n /\ j - 1 < j
      BY <1>1, <2>3
    <3>2. s[j - 1].n < s[j].n /\ s[j - 1].n \in 1..MAX_MSG_ID
      BY <3>1
    <3> QED BY <1>1, <2>1, <2>3, <3>2 DEF Gap
  <2> QED BY <2>2, <2>3
<1>3. PICK g \in G : \A h \in G : h <= g
  <2>1. G \subseteq 0..(2 * MAX_MSG_ID)
    BY <1>2
  <2>2. G # {}
    <3>1. 1 \in 1..n
      BY <1>1
    <3> QED BY <3>1
  <2>3. 2 * MAX_MSG_ID \in Nat
    BY <1>1
  <2> HIDE DEF G
  <2> QED BY <2>1, <2>2, <2>3, Greatest
<1> DEFINE T == {j \in 1..n : Gap(s, j) = g}
<1>4. PICK k \in T : \A j \in T : k <= j
  <2>1. T \subseteq Nat /\ T # {}
    BY <1>1, <1>3
  <2> HIDE DEF T
  <2> QED BY <2>1, Least
<1> DEFINE Turns(i) == /\ \A j \in DOMAIN s : Gap(s, j) <= Gap(s, i)
                       /\ \A j \in 1..(i - 1) : Gap(s, j) < Gap(s, i)
<1>5. k \in DOMAIN s /\ Turns(k)
  <2>1. k \in 1..n /\ Gap(s, k) = g
    BY <1>4
  <2>2. \A j \in 1..n : Gap(s, j) <= Gap(s, k)
    BY <1>3, <2>1
  <2>3. ASSUME NEW j \in 1..(k - 1) PROVE Gap(s, j) < Gap(s, k)
    <3>1. j \in 1..n /\ j < k
      BY <1>1, <2>1
    <3>2. j \notin T
      BY <1>1, <1>4, <2>1, <3>1
    <3>3. Gap(s, j) # g
      BY <3>1, <3>2
    <3> QED BY <1>2, <2>1, <2>2, <3>1, <3>3
  <2> QED BY <1>1, <2>1, <2>2, <2>3
<1> DEFINE i == CHOOSE i \in DOMAIN s : Turns(i)
<1>6. i \in DOMAIN s /\ Turns(i)
  BY <1>5
<1>7. Wrapped(s) = Rotated(s, i)
  BY DEF Wrapped, Rotated
<1> HIDE DEF i
<1> QED BY <1>1, <1>6, <1>7

\* What MQTTPersistence_restore finds of the messages in flight.
LEMMA FilesNumbered ==
    ASSUME Typed, NEW key
    PROVE  Numbered(Files(key)) /\ \A S \in SUBSET Files(key) : Numbered(S)
<1>1. disk \subseteq FileSet /\ IsFiniteSet(disk) /\ SameFiles(disk)
  BY NowIs DEF Disks
<1>2. ASSUME NEW S \in SUBSET Files(key) PROVE Numbered(S)
  <2>1. S \subseteq disk /\ \A f \in S : f.key = key
    BY DEF Files
  <2>2. IsFiniteSet(S)
    BY <1>1, <2>1, FS_Subset
  <2>3. \A f \in S : f.n \in Nat
    BY <1>1, <2>1 DEF FileSet
  <2>4. \A f, g \in S : f.n = g.n => f = g
    BY <1>1, <2>1 DEF SameFiles, SameFile
  <2> QED BY <2>2, <2>3, <2>4 DEF Numbered
<1> QED BY <1>2

LEMMA SentFileIs ==
    ASSUME Typed, NEW f \in Files("s")
    PROVE  f.n \in Ids /\ f.id = f.n /\ f.msg \in Outbound /\ RestoredOutbound(f) \in OutEntries
<1>1. f \in FileSet /\ f.key = "s"
  BY NowIs DEF Files, Disks
<1>2. f.id \in Ids /\ f.msg \in Outbound /\ f.n = f.id
  BY <1>1 DEF FileSet
<1> QED BY <1>2 DEF RestoredOutbound, OutEntries, FirstAnswer, NextTypes

\* The files in the order they are restored in.
RestoredFiles == Wrapped(ById(Files("s")))

LEMMA RestoredFilesAre ==
    ASSUME Typed
    PROVE  /\ RestoredFiles \in Seq(Files("s"))
           /\ \A f \in Files("s") : \E i \in 1..Len(RestoredFiles) : RestoredFiles[i] = f
           /\ OnceEach(RestoredFiles)
<1> DEFINE S == Files("s")
           s == ById(S)
           n == Len(s)
<1>1. /\ s \in Seq(S) /\ n \in Nat /\ DOMAIN s = 1..n
      /\ \A f \in S : \E i \in 1..n : s[i] = f
      /\ \A i, j \in 1..n : i < j => s[i].n < s[j].n
  BY FilesNumbered, ByIdIs
<1>2. \A i \in 1..n : s[i] \in S
  BY <1>1
<1>3. \A i \in 1..n : s[i].n \in 1..MAX_MSG_ID
  BY <1>2, SentFileIs DEF Ids
<1> HIDE DEF s, S
<1>4. OnceEach(s)
  <2> SUFFICES ASSUME NEW i \in 1..n, NEW j \in 1..n, s[i] = s[j], i # j PROVE FALSE
    BY DEF OnceEach
  <2>1. i < j \/ j < i
    BY <1>1
  <2>2. s[i].n \in Nat
    BY <1>3
  <2> QED BY <1>1, <2>1, <2>2
<1>5. CASE s = <<>>
  <2>1. RestoredFiles = s
    BY <1>5 DEF RestoredFiles, Wrapped, s, S
  <2> QED BY <1>1, <1>4, <2>1 DEF S
<1>6. CASE s # <<>>
  <2>1. PICK i \in 1..n : Wrapped(s) = Rotated(s, i)
    BY <1>1, <1>3, <1>6, WrappedIs
  <2> DEFINE t == Rotated(s, i)
  <2>2. /\ t \in Seq(S) /\ Len(t) = n
        /\ \A k \in 1..n : \E j \in 1..n : t[j] = s[k]
        /\ OnceEach(t)
    BY <1>1, <1>4, RotatedAll
  <2>3. RestoredFiles = t
    BY <2>1 DEF RestoredFiles, s, S
  <2> HIDE DEF t
  <2>4. ASSUME NEW f \in S PROVE \E j \in 1..n : t[j] = f
    <3>1. PICK k \in 1..n : s[k] = f
      BY <1>1
    <3>2. PICK j \in 1..n : t[j] = s[k]
      BY <2>2
    <3> QED BY <3>1, <3>2
  <2> QED BY <2>2, <2>3, <2>4 DEF S
<1> QED BY <1>5, <1>6

LEMMA OutboundOnDiskIs ==
    ASSUME Typed
    PROVE  /\ OutboundOnDisk \in Seq(OutEntries)
           /\ ToSet(OutboundOnDisk) = {RestoredOutbound(f) : f \in Files("s")}
           /\ \A i, j \in DOMAIN OutboundOnDisk : OutboundOnDisk[i].id = OutboundOnDisk[j].id => i = j
<1> DEFINE t == RestoredFiles
           S == Files("s")
           n == Len(t)
           q == OutboundOnDisk
<1>1. /\ t \in Seq(S) /\ \A f \in S : \E i \in 1..n : t[i] = f
      /\ OnceEach(t)
  BY RestoredFilesAre
<1>2. DOMAIN t = 1..n /\ n \in Nat
  BY <1>1, LenProperties
<1>3. q = [i \in DOMAIN t |-> RestoredOutbound(t[i])]
  BY DEF OutboundOnDisk, RestoredFiles
<1> HIDE DEF t, q
<1>4. \A i \in 1..n : t[i] \in S
  BY <1>1, <1>2
<1>5. \A i \in 1..n : q[i] = RestoredOutbound(t[i]) /\ q[i] \in OutEntries
  BY <1>2, <1>3, <1>4, SentFileIs
<1>6. q \in [1..n -> OutEntries] /\ DOMAIN q = 1..n
  BY <1>2, <1>3, <1>5
<1>7. q \in Seq(OutEntries)
  BY <1>2, <1>6
<1>8. ToSet(q) = {RestoredOutbound(f) : f \in S}
  <2>1. ASSUME NEW i \in 1..n PROVE q[i] \in {RestoredOutbound(f) : f \in S}
    BY <1>4, <1>5
  <2>2. ASSUME NEW f \in S PROVE \E i \in 1..n : q[i] = RestoredOutbound(f)
    <3>1. PICK i \in 1..n : t[i] = f
      BY <1>1
    <3> QED BY <1>5, <3>1
  <2> HIDE DEF S
  <2> QED BY <1>6, <2>1, <2>2 DEF ToSet
<1>9. ASSUME NEW i \in 1..n, NEW j \in 1..n, q[i].id = q[j].id PROVE i = j
  <2>1. t[i].id = t[j].id
    <3>1. \A f : RestoredOutbound(f).id = f.id
      BY DEF RestoredOutbound
    <3> QED BY <1>5, <1>9, <3>1
  <2>2. t[i].n = t[j].n
    BY <1>4, <2>1, SentFileIs
  <2>3. t[i] = t[j]
    BY <1>4, <2>2, FilesNumbered DEF Numbered
  <2> QED BY <1>1, <2>3 DEF OnceEach
<1> QED BY <1>6, <1>7, <1>8, <1>9 DEF q

\* The commands and the message queue that are restored.
LEMMA CommandsOnDiskAre ==
    ASSUME Typed, NEW cmds \in CommandsOnDisk
    PROVE  /\ cmds \in Seq(Commands)
           /\ \A i \in DOMAIN cmds : \E f \in RestoredCommands :
                 cmds[i].seqno = f.n /\ cmds[i].id = f.id /\ cmds[i].msg = f.msg
           /\ \A f \in RestoredCommands : \E i \in DOMAIN cmds : cmds[i].id = f.id /\ cmds[i].msg = f.msg
           /\ \A i, j \in DOMAIN cmds : i # j => \E f, g \in RestoredCommands :
                 f # g /\ cmds[i].id = f.id /\ cmds[j].id = g.id
<1> DEFINE R == RestoredCommands
           N == Cardinality(R)
<1>1. R \subseteq Files("c") /\ IsFiniteSet(R) /\ N \in Nat
  <2>1. R \subseteq Files("c")
    BY DEF RestoredCommands
  <2>2. Numbered(R)
    BY <2>1, FilesNumbered
  <2> QED BY <2>1, <2>2, FS_CardinalityType DEF Numbered
<1>2. \A f \in R : f.n \in Nat /\ f.id \in Ids /\ f.msg \in Outbound
  BY <1>1, NowIs DEF Files, Disks, FileSet
<1>3. PICK s \in SetToSeqs(R) : cmds = [i \in DOMAIN s |-> [seqno |-> s[i].n, id |-> s[i].id, msg |-> s[i].msg]]
  BY DEF CommandsOnDisk
<1>4. s \in [1..N -> R] /\ \A i, j \in 1..N : i # j => s[i] # s[j]
  BY <1>3 DEF SetToSeqs
<1>a. R = RestoredCommands
  OBVIOUS
<1> HIDE DEF R, N
<1>5. DOMAIN s = 1..N /\ \A i \in 1..N : s[i] \in R
  BY <1>4
<1>6. DOMAIN cmds = 1..N /\ \A i \in 1..N : cmds[i] = [seqno |-> s[i].n, id |-> s[i].id, msg |-> s[i].msg]
  BY <1>3, <1>5
<1>7. \A i \in 1..N : cmds[i] \in Commands
  BY <1>2, <1>5, <1>6 DEF Commands
<1>8. cmds \in [1..N -> Commands]
  BY <1>3, <1>5, <1>6, <1>7
<1>9. cmds \in Seq(Commands)
  BY <1>1, <1>8
<1>10. \A i \in 1..N : cmds[i].seqno = s[i].n /\ cmds[i].id = s[i].id /\ cmds[i].msg = s[i].msg
  BY <1>6
<1>11. \A f \in R : \E i \in 1..N : s[i] = f
  <2>1. s \in Injection(1..N, R)
    BY <1>4 DEF Injection, IsInjective
  <2>2. Cardinality(1..N) = N
    <3>1. 1 \in Int /\ N \in Int
      BY <1>1
    <3>2. Cardinality(1..N) = IF 1 > N THEN 0 ELSE N - 1 + 1
      BY <3>1, FS_Interval
    <3> QED BY <1>1, <3>2
  <2>3. Cardinality(R) = N
    BY DEF N
  <2>4. s \in Surjection(1..N, R)
    BY <1>1, <2>1, <2>2, <2>3, FS_Injection
  <2> QED BY <2>4 DEF Surjection
<1>12. \A f \in R : \E i \in 1..N : cmds[i].id = f.id /\ cmds[i].msg = f.msg
  BY <1>10, <1>11
<1>13. \A i \in 1..N : \E f \in R : cmds[i].seqno = f.n /\ cmds[i].id = f.id /\ cmds[i].msg = f.msg
  BY <1>5, <1>10
<1>14. \A i, j \in 1..N : i # j => \E f, g \in R : f # g /\ cmds[i].id = f.id /\ cmds[j].id = g.id
  BY <1>4, <1>5, <1>10
<1>15. DOMAIN cmds = 1..N
  BY <1>6
<1>16. \A i \in DOMAIN cmds : \E f \in RestoredCommands :
          cmds[i].seqno = f.n /\ cmds[i].id = f.id /\ cmds[i].msg = f.msg
  BY <1>a, <1>13, <1>15
<1>17. \A f \in RestoredCommands : \E i \in DOMAIN cmds : cmds[i].id = f.id /\ cmds[i].msg = f.msg
  BY <1>a, <1>12, <1>15
<1>18. \A i, j \in DOMAIN cmds : i # j => \E f, g \in RestoredCommands :
          f # g /\ cmds[i].id = f.id /\ cmds[j].id = g.id
  BY <1>a, <1>14, <1>15
<1> QED BY <1>9, <1>16, <1>17, <1>18

LEMMA QueueOnDiskIs ==
    ASSUME Typed
    PROVE  /\ QueueOnDisk \in Seq(Waiters)
           /\ \A i \in DOMAIN QueueOnDisk : \E f \in Files("q") \ Unreadable : QueueOnDisk[i].msg = f.msg
           /\ Version = 5 => QueueOnDisk = <<>>
<1> DEFINE R == Files("q") \ Unreadable
           s == ById(R)
           N == Cardinality(R)
           q == QueueOnDisk
<1>1. R \subseteq Files("q") /\ Numbered(R)
  BY FilesNumbered
<1>2. \A f \in R : f.n \in Nat /\ f.msg \in Inbound
  BY <1>1, NowIs DEF Files, Disks, FileSet
<1>3. s \in Seq(R) /\ Len(s) = N /\ N \in Nat /\ DOMAIN s = 1..N
  BY <1>1, ByIdIs
<1>4. q = [i \in DOMAIN s |-> [seqno |-> s[i].n, msg |-> s[i].msg]]
  BY DEF QueueOnDisk
<1>5. Version = 5 => N = 0
  <2>1. Version = 5 => R = {}
    BY DEF Unreadable
  <2> QED BY <2>1, FS_EmptySet
<1>a. R = Files("q") \ Unreadable
  OBVIOUS
<1> HIDE DEF s, R, N, q
<1>6. \A i \in 1..N : s[i] \in R
  BY <1>3
<1>7. DOMAIN q = 1..N /\ \A i \in 1..N : q[i] = [seqno |-> s[i].n, msg |-> s[i].msg]
  BY <1>3, <1>4
<1>8. \A i \in 1..N : q[i] \in Waiters /\ q[i].msg = s[i].msg
  BY <1>2, <1>6, <1>7 DEF Waiters
<1>9. q \in [1..N -> Waiters]
  BY <1>4, <1>3, <1>7, <1>8
<1>10. q \in Seq(Waiters)
  BY <1>3, <1>9
<1>11. Version = 5 => q = <<>>
  <2>1. Version = 5 => Len(q) = 0
    BY <1>3, <1>5, <1>7, <1>10, LenProperties
  <2> QED BY <1>10, <2>1, EmptySeq
<1> QED BY <1>6, <1>7, <1>8, <1>10, <1>11, <1>a DEF q

\* MQTTAsync_create of the next process.
LEMMA RestartDoes ==
    ASSUME Typed, Restart
    PROVE  /\ Typed' /\ c.running = 0
           /\ c'.running = 1 /\ c'.connected = 0
           /\ c'.outboundMsgs = OutboundOnDisk /\ c'.commands \in CommandsOnDisk /\ c'.responses = {}
           /\ c'.inboundMsgs = InboundOnDisk /\ c'.messageQueue = QueueOnDisk
           /\ disk' = disk \ (Orphans \cup Unreadable)
           /\ toBroker' = toBroker /\ arrived' = arrived /\ toClient' = <<>>
           /\ b' = b /\ sent' = sent /\ asked' = asked /\ restarts' = 1
<1>1. /\ c.running = 0 /\ disk' = disk \ (Orphans \cup Unreadable)
      /\ toBroker' = toBroker /\ arrived' = arrived /\ toClient' = <<>>
      /\ b' = b /\ sent' = sent /\ asked' = asked /\ restarts' = 1 /\ faults' = faults
  BY DEF Restart, NoFault
<1> DEFINE n == Highest({f.n : f \in RestoredCommands})
           k == Highest({f.n : f \in Files("q") \ Unreadable})
<1>2. PICK cmds \in CommandsOnDisk :
        c' = [NewClient(1) EXCEPT !.outboundMsgs = OutboundOnDisk, !.inboundMsgs = InboundOnDisk,
                 !.commands = cmds, !.command_seqno = n, !.messageQueue = QueueOnDisk, !.qentry_seqno = k]
  BY DEF Restart
<1>3. n \in Nat /\ k \in Nat
  <2>1. RestoredCommands \in SUBSET Files("c") /\ Files("q") \ Unreadable \in SUBSET Files("q")
    BY DEF RestoredCommands
  <2>2. Numbered(RestoredCommands) /\ Numbered(Files("q") \ Unreadable)
    BY <2>1, FilesNumbered
  <2> QED BY <2>2, HighestIs
<1>4. InboundOnDisk \in SUBSET InEntries
  <2>1. \A f \in Files("r") : f.id \in BrokerIds /\ f.msg \in Inbound2
    BY NowIs DEF Files, Disks, FileSet
  <2> QED BY <2>1 DEF InboundOnDisk, InEntries
<1>5. OutboundOnDisk \in Seq(OutEntries) /\ cmds \in Seq(Commands) /\ QueueOnDisk \in Seq(Waiters)
  BY OutboundOnDiskIs, CommandsOnDiskAre, QueueOnDiskIs
<1> HIDE DEF n, k
<1>6. /\ c' \in Clients /\ c'.running = 1 /\ c'.connected = 0
      /\ c'.outboundMsgs = OutboundOnDisk /\ c'.commands = cmds /\ c'.responses = {}
      /\ c'.inboundMsgs = InboundOnDisk /\ c'.messageQueue = QueueOnDisk
  BY <1>2, <1>3, <1>4, <1>5 DEF NewClient, Clients, OutEntries, Commands, Waiters, InEntries
<1>7. disk' \in Disks
  <2>1. disk \subseteq FileSet /\ IsFiniteSet(disk) /\ SameFiles(disk) /\ disk' \subseteq disk
    BY <1>1, NowIs DEF Disks
  <2> QED BY <2>1, FS_Subset DEF Disks, SameFiles
<1>8. Now' \in Worlds
  BY <1>1, <1>6, <1>7, NowIs DEF Now, Worlds
<1>9. <<>> \in Seq(ClientBound)
  OBVIOUS
<1>10. Typed'
  BY <1>1, <1>8, <1>9, NowIs, TypedAfter
<1> QED BY <1>1, <1>6, <1>10

\* The broker's steps.
LEMMA ToClientIs ==
    ASSUME Typed, NEW p \in ClientBound, ToClient(<<p>>)
    PROVE  toClient' \in Seq(ClientBound) /\ toClient' = IF c.connected = 1 THEN Append(toClient, p) ELSE toClient
<1>1. toClient \in Seq(ClientBound)
  BY NowIs
<1>2. toClient \o <<p>> = Append(toClient, p) /\ Append(toClient, p) \in Seq(ClientBound)
  BY <1>1, OneMore, Longer
<1> QED BY <1>1, <1>2 DEF ToClient

LEMMA BrokerOnlyTyped ==
    ASSUME Typed, BrokerOnly, toBroker' \in Seq(BrokerBound), toClient' \in Seq(ClientBound),
           b' \in Sessions, sent' \in [Outbound -> 0..2]
    PROVE  /\ Typed' /\ c' = c /\ disk' = disk /\ arrived' = arrived /\ asked' = asked /\ restarts' = restarts
<1>1. c' = c /\ disk' = disk /\ arrived' = arrived /\ asked' = asked /\ restarts' = restarts /\ faults' = faults
  BY DEF BrokerOnly, NoFault
<1>2. Now' \in Worlds
  BY <1>1, NowIs DEF Now, Worlds
<1> QED BY <1>1, <1>2, NowIs, TypedAfter

LEMMA BrokerTakeDoes ==
    ASSUME Typed, NEW type, BrokerTake(type)
    PROVE  /\ toBroker # <<>> /\ Head(toBroker) \in BrokerBound /\ Head(toBroker).type = type
           /\ toBroker' = Tail(toBroker) /\ toBroker' \in Seq(BrokerBound) /\ BrokerOnly
  BY NowIs, TailOf DEF BrokerTake

LEMMA SessionIs ==
    ASSUME b \in Sessions
    PROVE  b.out \in Seq(BrokerEntries) /\ b.in \subseteq Ids /\ b.todo \subseteq Inbound
  BY DEF Sessions

LEMMA BrokerPublishDoes ==
    ASSUME Typed, NEW m \in Inbound, BrokerPublish(m)
    PROVE  /\ Typed' /\ c.connected = 1 /\ m \in b.todo
           /\ \E id \in BrokerIds :
                 /\ \A i \in DOMAIN b.out : b.out[i].id # id
                 /\ b'.todo = b.todo \ {m} /\ b'.in = b.in
                 /\ b'.out = Append(b.out, [id |-> id, msg |-> m, next |-> IF m \in Inbound1 THEN "PUBACK" ELSE "PUBREC"])
                 /\ toClient' = Append(toClient, Packet("PUBLISH", id, m, 0))
           /\ toBroker' = toBroker /\ sent' = sent
           /\ c' = c /\ disk' = disk /\ arrived' = arrived /\ asked' = asked /\ restarts' = restarts
<1>1. c.connected = 1 /\ m \in b.todo /\ toBroker' = toBroker /\ sent' = sent /\ BrokerOnly
  BY DEF BrokerPublish
<1>2. PICK id \in BrokerIds \ IdsOut :
        /\ b' = [b EXCEPT !.todo = @ \ {m},
                          !.out = Append(@, [id |-> id, msg |-> m, next |-> IF m \in Inbound1 THEN "PUBACK" ELSE "PUBREC"])]
        /\ ToClient(<<Packet("PUBLISH", id, m, 0)>>)
  BY DEF BrokerPublish
<1> DEFINE e == [id |-> id, msg |-> m, next |-> IF m \in Inbound1 THEN "PUBACK" ELSE "PUBREC"]
           q == Append(b.out, e)
<1>3. Packet("PUBLISH", id, m, 0) \in ClientBound
  BY DEF Packet, ClientBound, Packets, Types
<1>4. toClient' \in Seq(ClientBound) /\ toClient' = Append(toClient, Packet("PUBLISH", id, m, 0))
  BY <1>1, <1>2, <1>3, ToClientIs
<1>5. b \in Sessions /\ b.out \in Seq(BrokerEntries) /\ b.todo \subseteq Inbound
  BY NowIs, SessionIs
<1>6. e \in BrokerEntries
  BY DEF BrokerEntries, NextTypes
<1>7. q \in Seq(BrokerEntries)
  <2> HIDE DEF e
  <2> QED BY <1>5, <1>6, Longer
<1>8. b' = [b EXCEPT !.todo = @ \ {m}, !.out = q]
  BY <1>2
<1> HIDE DEF q
<1>9. b' \in Sessions /\ b'.todo = b.todo \ {m} /\ b'.in = b.in /\ b'.out = q
  BY <1>5, <1>7, <1>8 DEF Sessions
<1>10. \A i \in DOMAIN b.out : b.out[i].id # id
  BY <1>2 DEF IdsOut
<1>11. /\ Typed' /\ c' = c /\ disk' = disk /\ arrived' = arrived /\ asked' = asked /\ restarts' = restarts
  BY <1>1, <1>4, <1>9, NowIs, BrokerOnlyTyped
<1> QED BY <1>1, <1>4, <1>9, <1>10, <1>11 DEF q

LEMMA BrokerReceivePublishDoes ==
    ASSUME Typed, BrokerReceivePublish
    PROVE  LET p == Head(toBroker)
               ack == Ack(IF p.msg \in Outbound1 THEN "PUBACK" ELSE "PUBREC", p.id)
           IN  /\ Typed' /\ toBroker # <<>> /\ p \in BrokerBound /\ p.type = "PUBLISH"
               /\ p.id \in Ids /\ p.msg \in Outbound
               /\ toBroker' = Tail(toBroker) /\ ack \in ClientBound
               /\ toClient' = IF c.connected = 1 THEN Append(toClient, ack) ELSE toClient
               /\ sent' = IF p.msg \in Outbound1 \/ p.id \notin b.in THEN [sent EXCEPT ![p.msg] = Bump(@)] ELSE sent
               /\ b'.in = IF p.msg \in Outbound2 THEN b.in \cup {p.id} ELSE b.in
               /\ b'.out = b.out /\ b'.todo = b.todo
               /\ c' = c /\ disk' = disk /\ arrived' = arrived /\ asked' = asked /\ restarts' = restarts
<1> DEFINE p == Head(toBroker)
           ack == Ack(IF p.msg \in Outbound1 THEN "PUBACK" ELSE "PUBREC", p.id)
<1>1. BrokerTake("PUBLISH")
  BY DEF BrokerReceivePublish
<1>2. /\ toBroker # <<>> /\ p \in BrokerBound /\ p.type = "PUBLISH"
      /\ toBroker' = Tail(toBroker) /\ toBroker' \in Seq(BrokerBound) /\ BrokerOnly
  BY <1>1, BrokerTakeDoes
<1>3. p.id \in Ids /\ p.msg \in Outbound
  BY <1>2 DEF BrokerBound
<1>4. /\ sent' = IF p.msg \in Outbound1 \/ p.id \notin b.in THEN [sent EXCEPT ![p.msg] = Bump(@)] ELSE sent
      /\ b' = IF p.msg \in Outbound2 THEN [b EXCEPT !.in = @ \cup {p.id}] ELSE b
      /\ ToClient(<<ack>>)
  BY DEF BrokerReceivePublish
<1> HIDE DEF p
<1>5. ack \in ClientBound
  BY <1>3 DEF Ack, Packet, ClientBound, Packets, Types
<1> HIDE DEF ack
<1>6. toClient' \in Seq(ClientBound) /\ toClient' = IF c.connected = 1 THEN Append(toClient, ack) ELSE toClient
  BY <1>4, <1>5, ToClientIs
<1>7. b \in Sessions /\ sent \in [Outbound -> 0..2]
  BY NowIs
<1>8. sent' \in [Outbound -> 0..2]
  BY <1>3, <1>4, <1>7 DEF Bump
<1>9. /\ b' \in Sessions /\ b'.out = b.out /\ b'.todo = b.todo
      /\ b'.in = IF p.msg \in Outbound2 THEN b.in \cup {p.id} ELSE b.in
  BY <1>3, <1>4, <1>7 DEF Sessions
<1>10. /\ Typed' /\ c' = c /\ disk' = disk /\ arrived' = arrived /\ asked' = asked /\ restarts' = restarts
  BY <1>2, <1>6, <1>8, <1>9, BrokerOnlyTyped
<1> QED BY <1>2, <1>3, <1>4, <1>5, <1>6, <1>9, <1>10 DEF p, ack

LEMMA BrokerReceivePubrelDoes ==
    ASSUME Typed, BrokerReceivePubrel
    PROVE  LET p == Head(toBroker)
               ack == Ack("PUBCOMP", p.id)
           IN  /\ Typed' /\ toBroker # <<>> /\ p \in BrokerBound /\ p.type = "PUBREL" /\ p.id \in Ids
               /\ toBroker' = Tail(toBroker) /\ ack \in ClientBound
               /\ toClient' = IF c.connected = 1 THEN Append(toClient, ack) ELSE toClient
               /\ b'.in = b.in \ {p.id} /\ b'.out = b.out /\ b'.todo = b.todo /\ sent' = sent
               /\ c' = c /\ disk' = disk /\ arrived' = arrived /\ asked' = asked /\ restarts' = restarts
<1> DEFINE p == Head(toBroker)
           ack == Ack("PUBCOMP", p.id)
<1>1. BrokerTake("PUBREL")
  BY DEF BrokerReceivePubrel
<1>2. /\ toBroker # <<>> /\ p \in BrokerBound /\ p.type = "PUBREL"
      /\ toBroker' = Tail(toBroker) /\ toBroker' \in Seq(BrokerBound) /\ BrokerOnly
  BY <1>1, BrokerTakeDoes
<1>3. p.id \in Ids
  BY <1>2 DEF BrokerBound
<1>4. sent' = sent /\ b' = [b EXCEPT !.in = @ \ {p.id}] /\ ToClient(<<ack>>)
  BY DEF BrokerReceivePubrel
<1> HIDE DEF p
<1>5. ack \in ClientBound
  BY <1>3 DEF Ack, Packet, ClientBound, Packets, Types
<1> HIDE DEF ack
<1>6. toClient' \in Seq(ClientBound) /\ toClient' = IF c.connected = 1 THEN Append(toClient, ack) ELSE toClient
  BY <1>4, <1>5, ToClientIs
<1>7. b \in Sessions /\ sent \in [Outbound -> 0..2]
  BY NowIs
<1>8. b' \in Sessions /\ b'.out = b.out /\ b'.todo = b.todo /\ b'.in = b.in \ {p.id}
  BY <1>4, <1>7 DEF Sessions
<1>9. /\ Typed' /\ c' = c /\ disk' = disk /\ arrived' = arrived /\ asked' = asked /\ restarts' = restarts
  BY <1>2, <1>4, <1>6, <1>7, <1>8, BrokerOnlyTyped
<1> QED BY <1>2, <1>3, <1>4, <1>5, <1>6, <1>8, <1>9 DEF p, ack

LEMMA BrokerReceivePubrecDoes ==
    ASSUME Typed, BrokerReceivePubrec
    PROVE  LET p == Head(toBroker)
               i == BrokerEntry(p.id)
               rel == Ack("PUBREL", p.id)
           IN  /\ Typed' /\ toBroker # <<>> /\ p \in BrokerBound /\ p.type = "PUBREC"
               /\ toBroker' = Tail(toBroker)
               /\ \/ i = 0 /\ b' = b /\ toClient' = toClient
                  \/ /\ i \in DOMAIN b.out /\ b.out[i].id = p.id /\ rel \in ClientBound
                     /\ b'.out = [b.out EXCEPT ![i] = [@ EXCEPT !.next = "PUBCOMP"]]
                     /\ b'.in = b.in /\ b'.todo = b.todo
                     /\ toClient' = IF c.connected = 1 THEN Append(toClient, rel) ELSE toClient
               /\ sent' = sent
               /\ c' = c /\ disk' = disk /\ arrived' = arrived /\ asked' = asked /\ restarts' = restarts
<1> DEFINE p == Head(toBroker)
           i == BrokerEntry(p.id)
           rel == Ack("PUBREL", p.id)
<1>1. BrokerTake("PUBREC") /\ sent' = sent
  BY DEF BrokerReceivePubrec
<1>2. /\ toBroker # <<>> /\ p \in BrokerBound /\ p.type = "PUBREC"
      /\ toBroker' = Tail(toBroker) /\ toBroker' \in Seq(BrokerBound) /\ BrokerOnly
  BY <1>1, BrokerTakeDoes
<1>3. b \in Sessions /\ sent \in [Outbound -> 0..2] /\ toClient \in Seq(ClientBound)
  BY NowIs
<1>4. \/ i = 0 /\ b' = b /\ toClient' = toClient
      \/ i # 0 /\ b' = [b EXCEPT !.out[i].next = "PUBCOMP"] /\ ToClient(<<rel>>)
  BY DEF BrokerReceivePubrec
<1>5. i # 0 => i \in DOMAIN b.out /\ b.out[i].id = p.id
  BY <1>3, BrokerEntryIs
<1> HIDE DEF i, p
<1>6. CASE i = 0
  <2>1. b' = b /\ toClient' = toClient
    BY <1>4, <1>6
  <2>2. /\ Typed' /\ c' = c /\ disk' = disk /\ arrived' = arrived /\ asked' = asked /\ restarts' = restarts
    BY <1>1, <1>2, <1>3, <2>1, BrokerOnlyTyped
  <2> QED BY <1>1, <1>2, <1>6, <2>1, <2>2 DEF p, i
<1>7. CASE i # 0
  <2> DEFINE out == [b.out EXCEPT ![i] = [@ EXCEPT !.next = "PUBCOMP"]]
  <2>1. i \in DOMAIN b.out /\ b.out[i].id = p.id /\ b.out \in Seq(BrokerEntries)
    BY <1>3, <1>5, <1>7, SessionIs
  <2>a. b.out[i] \in BrokerEntries
    BY <2>1, LenProperties
  <2>2. b.out[i] \in BrokerEntries /\ p.id \in BrokerIds
    BY <2>1, <2>a DEF BrokerEntries
  <2>3. rel \in ClientBound
    BY <2>2 DEF Ack, Packet, ClientBound, Packets, Types
  <2>4. [b.out[i] EXCEPT !.next = "PUBCOMP"] \in BrokerEntries
    BY <2>2 DEF BrokerEntries, NextTypes
  <2>5. out \in Seq(BrokerEntries)
    BY <2>1, <2>4
  <2>6. b' = [b EXCEPT !.out = out] /\ ToClient(<<rel>>)
    BY <1>4, <1>7
  <2> HIDE DEF out, rel
  <2>7. toClient' \in Seq(ClientBound) /\ toClient' = IF c.connected = 1 THEN Append(toClient, rel) ELSE toClient
    BY <2>3, <2>6, ToClientIs
  <2>8. b' \in Sessions /\ b'.out = out /\ b'.in = b.in /\ b'.todo = b.todo
    BY <1>3, <2>5, <2>6 DEF Sessions
  <2>9. /\ Typed' /\ c' = c /\ disk' = disk /\ arrived' = arrived /\ asked' = asked /\ restarts' = restarts
    BY <1>1, <1>2, <1>3, <2>7, <2>8, BrokerOnlyTyped
  <2> QED BY <1>1, <1>2, <2>1, <2>3, <2>7, <2>8, <2>9 DEF p, i, out, rel
<1> QED BY <1>6, <1>7

LEMMA BrokerReceiveLastDoes ==
    ASSUME Typed, BrokerReceiveLast
    PROVE  LET p == Head(toBroker)
               i == BrokerEntry(p.id)
           IN  /\ Typed' /\ toBroker # <<>> /\ p \in BrokerBound /\ p.type \in {"PUBACK", "PUBCOMP"}
               /\ toBroker' = Tail(toBroker)
               /\ \/ i = 0 /\ b' = b
                  \/ /\ i \in DOMAIN b.out /\ b.out[i].id = p.id
                     /\ b'.out = RemoveAt(b.out, i) /\ b'.in = b.in /\ b'.todo = b.todo
               /\ sent' = sent /\ toClient' = toClient
               /\ c' = c /\ disk' = disk /\ arrived' = arrived /\ asked' = asked /\ restarts' = restarts
<1> DEFINE p == Head(toBroker)
           i == BrokerEntry(p.id)
<1>1. PICK type \in {"PUBACK", "PUBCOMP"} : BrokerTake(type)
  BY DEF BrokerReceiveLast
<1>2. /\ toBroker # <<>> /\ p \in BrokerBound /\ p.type \in {"PUBACK", "PUBCOMP"}
      /\ toBroker' = Tail(toBroker) /\ toBroker' \in Seq(BrokerBound) /\ BrokerOnly
  BY <1>1, BrokerTakeDoes
<1>3. b \in Sessions /\ sent \in [Outbound -> 0..2] /\ toClient \in Seq(ClientBound)
  BY NowIs
<1>4. /\ b' = IF i = 0 THEN b ELSE [b EXCEPT !.out = RemoveAt(@, i)]
      /\ sent' = sent /\ toClient' = toClient
  BY DEF BrokerReceiveLast
<1>5. i # 0 => i \in DOMAIN b.out /\ b.out[i].id = p.id
  BY <1>3, BrokerEntryIs
<1> HIDE DEF i, p
<1>6. /\ b' \in Sessions
      /\ \/ i = 0 /\ b' = b
         \/ /\ i \in DOMAIN b.out /\ b.out[i].id = p.id
            /\ b'.out = RemoveAt(b.out, i) /\ b'.in = b.in /\ b'.todo = b.todo
  <2>1. CASE i = 0
    BY <1>3, <1>4, <2>1
  <2>2. CASE i # 0
    <3> DEFINE out == RemoveAt(b.out, i)
    <3>1. i \in DOMAIN b.out /\ b.out[i].id = p.id /\ b.out \in Seq(BrokerEntries)
      BY <1>3, <1>5, <2>2, SessionIs
    <3>2. out \in Seq(BrokerEntries)
      BY <3>1, Without
    <3>3. b' = [b EXCEPT !.out = out]
      BY <1>4, <2>2
    <3> HIDE DEF out
    <3>4. b' \in Sessions /\ b'.out = out /\ b'.in = b.in /\ b'.todo = b.todo
      BY <1>3, <3>2, <3>3 DEF Sessions
    <3> QED BY <3>1, <3>4 DEF out
  <2> QED BY <2>1, <2>2
<1>7. /\ Typed' /\ c' = c /\ disk' = disk /\ arrived' = arrived /\ asked' = asked /\ restarts' = restarts
  BY <1>2, <1>3, <1>4, <1>6, BrokerOnlyTyped
<1> QED BY <1>2, <1>4, <1>6, <1>7 DEF p, i
-----------------------------------------------------------------------------
(* The types.                                                              *)

LEMMA InitTyped == ASSUME Init PROVE Typed
<1>1. /\ c = NewClient(1) /\ disk = {} /\ toBroker = <<>> /\ toClient = <<>>
      /\ arrived = [m \in Inbound |-> 0] /\ sent = [m \in Outbound |-> 0]
      /\ b = [in |-> {}, out |-> <<>>, todo |-> Inbound] /\ asked = {} /\ restarts = 0 /\ faults = 0
  BY DEF Init
<1>2. c \in Clients
  BY <1>1, NewClientTyped
<1>3. disk \in Disks
  BY <1>1, FS_EmptySet DEF Disks, SameFiles
<1>4. toBroker \in Seq(BrokerBound) /\ toClient \in Seq(ClientBound) /\ <<>> \in Seq(BrokerEntries)
  BY <1>1
<1>5. arrived \in [Inbound -> 0..2] /\ sent \in [Outbound -> 0..2]
  BY <1>1
<1>6. b \in Sessions
  BY <1>1, <1>4 DEF Sessions
<1>7. Now \in Worlds
  BY <1>2, <1>3, <1>4, <1>5 DEF Now, Worlds
<1> QED BY <1>1, <1>4, <1>5, <1>6, <1>7 DEF Typed

LEMMA TypesFollow == ASSUME Typed PROVE TypeOK
<1>1. /\ c \in Clients /\ disk \in Disks /\ toBroker \in Seq(BrokerBound) /\ toClient \in Seq(ClientBound)
      /\ b \in Sessions /\ sent \in [Outbound -> 0..2] /\ arrived \in [Inbound -> 0..2]
      /\ asked \subseteq Outbound /\ faults \in 0..MaxFaults /\ restarts \in {0, 1}
  BY NowIs
<1>2. disk \subseteq [key : {"s", "sc", "r", "c", "q"}, n : Nat, id : Ids \cup BrokerIds \cup {0},
                      msg : Outbound \cup Inbound \cup {0}]
  <2>1. disk \subseteq FileSet
    BY <1>1 DEF Disks
  <2> QED BY <2>1 DEF FileSet
<1>3. toBroker \in Seq(Packets)
  <2>1. BrokerBound \subseteq Packets
    BY DEF BrokerBound
  <2> QED BY <1>1, <2>1
<1>4. toClient \in Seq(Packets)
  <2>1. ClientBound \subseteq Packets
    BY DEF ClientBound
  <2> QED BY <1>1, <2>1
<1>5. b \in [in : SUBSET Ids, todo : SUBSET Inbound, out : Seq([id : BrokerIds, msg : Inbound, next : NextTypes])]
  BY <1>1 DEF Sessions, BrokerEntries
<1> QED BY <1>1, <1>2, <1>3, <1>4, <1>5 DEF TypeOK

LEMMA NextTyped == ASSUME Typed, [Next]_vars PROVE Typed'
<1>1. ASSUME NEW m \in Outbound, Publish(m) PROVE Typed'
  BY <1>1, PublishDoes
<1>2. CASE ProcessCommand
  BY <1>2, ProcessCommandDoes
<1>3. CASE ReceivePuback
  BY <1>3, CompletedDoes DEF ReceivePuback
<1>4. CASE ReceivePubcomp
  BY <1>4, CompletedDoes DEF ReceivePubcomp
<1>5. CASE ReceivePubrec
  BY <1>5, ReceivePubrecDoes
<1>6. CASE ReceivePublish1
  BY <1>6, ReceivePublish1Does
<1>7. CASE ReceivePublish2
  BY <1>7, ReceivePublish2Does
<1>8. CASE ReceivePubrel
  BY <1>8, ReceivePubrelDoes
<1>9. CASE FreedTwice
  BY <1>9, FreedTwiceDoes
<1>10. CASE FlushQueue
  BY <1>10, FlushQueueDoes
<1>11. CASE Connect
  BY <1>11, ConnectDoes
<1>12. CASE Restart
  BY <1>12, RestartDoes
<1>13. ASSUME NEW m \in Inbound, BrokerPublish(m) PROVE Typed'
  BY <1>13, BrokerPublishDoes
<1>14. CASE BrokerReceivePublish
  BY <1>14, BrokerReceivePublishDoes
<1>15. CASE BrokerReceivePubrel
  BY <1>15, BrokerReceivePubrelDoes
<1>16. CASE BrokerReceivePubrec
  BY <1>16, BrokerReceivePubrecDoes
<1>17. CASE BrokerReceiveLast
  BY <1>17, BrokerReceiveLastDoes
<1>18. CASE PendingWrites
  BY <1>18, PendingWritesDoes
<1>19. CASE Break
  BY <1>19, BreakDoes
<1>20. CASE Crash
  BY <1>20, CrashDoes
<1>21. CASE UNCHANGED vars
  BY <1>21 DEF vars, Typed, Now
<1> QED BY <1>1, <1>2, <1>3, <1>4, <1>5, <1>6, <1>7, <1>8, <1>9, <1>10, <1>11, <1>12, <1>13, <1>14, <1>15,
           <1>16, <1>17, <1>18, <1>19, <1>20, <1>21
        DEF Next, Application, Client, Receive, Broker

\* The structures of MQTTProtocolClient.c and MQTTPersistence.c, the store
\* and both directions of the connection have their types, whatever the
\* messages, ids, version, store and faults are.
THEOREM TypeCorrect == Spec => []TypeOK
<1>1. Init => Typed
  BY InitTyped
<1>2. Typed /\ [Next]_vars => Typed'
  BY NextTyped
<1>3. Typed => TypeOK
  BY TypesFollow
<1> QED BY <1>1, <1>2, <1>3, PTL DEF Spec
-----------------------------------------------------------------------------
(* The exchanges in progress.  A side begins one with the packets of types *)
(* T on q and the other answers it with those of types U on r: of each     *)
(* exchange there is one packet on its way at most.                        *)

Packs(q, T) == {p \in ToSet(q) : p.type \in T}
Tokens(q, T, r, U) == Packs(q, T) \cup Packs(r, U)
Alone(q, T) == \A i, j \in DOMAIN q : q[i].type \in T /\ q[j].type \in T /\ q[i].id = q[j].id => i = j
Single(q, T, r, U) ==
    /\ Alone(q, T) /\ Alone(r, U)
    /\ \A p \in Packs(q, T), s \in Packs(r, U) : p.id # s.id

LEMMA SingleTurned ==
    ASSUME NEW q, NEW T, NEW r, NEW U, Single(q, T, r, U)
    PROVE  Single(r, U, q, T) /\ Tokens(r, U, q, T) = Tokens(q, T, r, U)
  BY DEF Single, Tokens

LEMMA TokenTaken ==
    ASSUME NEW S, NEW q \in Seq(S), q # <<>>, NEW T, NEW r, NEW U, Single(q, T, r, U)
    PROVE  /\ Single(Tail(q), T, r, U)
           /\ Tokens(Tail(q), T, r, U) \subseteq Tokens(q, T, r, U)
           /\ Head(q).type \notin T => Tokens(Tail(q), T, r, U) = Tokens(q, T, r, U)
           /\ Head(q).type \in T =>
                 /\ Head(q) \in Tokens(q, T, r, U)
                 /\ \A p \in Tokens(Tail(q), T, r, U) : p.id # Head(q).id
<1> DEFINE t == Tail(q)
           h == Head(q)
           n == Len(q)
<1>1. /\ ToSet(q) = ToSet(t) \cup {h}
      /\ DOMAIN q = 1..n /\ n \in Nat \ {0} /\ DOMAIN t = 1..(n - 1)
      /\ q[1] = h /\ \A i \in 1..(n - 1) : t[i] = q[i + 1]
  BY TailOf
<1> HIDE DEF t, h, n
<1>2. Alone(q, T) /\ Alone(r, U) /\ \A p \in Packs(q, T), s \in Packs(r, U) : p.id # s.id
  BY DEF Single
<1>3. Alone(t, T)
  <2> SUFFICES ASSUME NEW i \in 1..(n - 1), NEW j \in 1..(n - 1), t[i].type \in T, t[j].type \in T, t[i].id = t[j].id
               PROVE  i = j
    BY <1>1 DEF Alone
  <2>1. i + 1 \in 1..n /\ j + 1 \in 1..n /\ (i + 1 = j + 1 => i = j)
    BY <1>1
  <2>2. PICK k \in 1..n : k = i + 1 /\ q[k] = t[i]
    BY <1>1, <2>1
  <2>3. PICK l \in 1..n : l = j + 1 /\ q[l] = t[j]
    BY <1>1, <2>1
  <2>4. k = l
    BY <1>1, <1>2, <2>2, <2>3 DEF Alone
  <2> QED BY <2>1, <2>2, <2>3, <2>4
<1>4. Packs(t, T) \subseteq Packs(q, T) /\ (h.type \notin T => Packs(t, T) = Packs(q, T))
  BY <1>1 DEF Packs
<1>5. Single(t, T, r, U)
  BY <1>2, <1>3, <1>4 DEF Single
<1>6. /\ Tokens(t, T, r, U) \subseteq Tokens(q, T, r, U)
      /\ h.type \notin T => Tokens(t, T, r, U) = Tokens(q, T, r, U)
  BY <1>4 DEF Tokens
<1>7. ASSUME h.type \in T
      PROVE  h \in Tokens(q, T, r, U) /\ \A p \in Tokens(t, T, r, U) : p.id # h.id
  <2>1. h \in Packs(q, T)
    BY <1>1, <1>7 DEF Packs
  <2>2. ASSUME NEW p \in Packs(t, T) PROVE p.id # h.id
    <3>1. PICK i \in 1..(n - 1) : t[i] = p /\ p.type \in T
      BY <1>1, <2>2 DEF Packs, ToSet
    <3>2. 1 \in 1..n /\ i + 1 \in 1..n /\ i + 1 # 1 /\ q[i + 1] = p
      BY <1>1, <3>1
    <3> QED BY <1>1, <1>2, <1>7, <3>1, <3>2 DEF Alone
  <2>3. \A p \in Packs(r, U) : p.id # h.id
    BY <1>2, <2>1
  <2> QED BY <2>1, <2>2, <2>3 DEF Tokens
<1> QED BY <1>5, <1>6, <1>7 DEF t, h

LEMMA TokenSent ==
    ASSUME NEW S, NEW q \in Seq(S), NEW p \in S, NEW T, NEW r, NEW U, Single(q, T, r, U),
           p.type \in T => \A t \in Tokens(q, T, r, U) : t.id # p.id
    PROVE  /\ Single(Append(q, p), T, r, U)
           /\ p.type \in T => Tokens(Append(q, p), T, r, U) = Tokens(q, T, r, U) \cup {p}
           /\ p.type \notin T => Tokens(Append(q, p), T, r, U) = Tokens(q, T, r, U)
<1> DEFINE a == Append(q, p)
           n == Len(q)
<1>1. /\ ToSet(a) = ToSet(q) \cup {p} /\ DOMAIN q = 1..n /\ n \in Nat /\ DOMAIN a = 1..(n + 1)
      /\ a[n + 1] = p /\ \A i \in 1..n : a[i] = q[i]
  BY Longer
<1> HIDE DEF a, n
<1>2. Alone(q, T) /\ Alone(r, U) /\ \A x \in Packs(q, T), s \in Packs(r, U) : x.id # s.id
  BY DEF Single
<1>3. /\ p.type \in T => Packs(a, T) = Packs(q, T) \cup {p}
      /\ p.type \notin T => Packs(a, T) = Packs(q, T)
  BY <1>1 DEF Packs
<1>4. p.type \in T => (\A i \in 1..n : q[i].type \in T => q[i].id # p.id) /\ \A s \in Packs(r, U) : p.id # s.id
  BY <1>1 DEF Tokens, Packs, ToSet
<1>5. Alone(a, T)
  <2> SUFFICES ASSUME NEW i \in 1..(n + 1), NEW j \in 1..(n + 1), a[i].type \in T, a[j].type \in T, a[i].id = a[j].id
               PROVE  i = j
    BY <1>1 DEF Alone
  <2>1. (i \in 1..n \/ i = n + 1) /\ (j \in 1..n \/ j = n + 1)
    BY <1>1
  <2>2. CASE i \in 1..n /\ j \in 1..n
    BY <1>1, <1>2, <2>2 DEF Alone
  <2>3. CASE i \in 1..n /\ j = n + 1
    BY <1>1, <1>4, <2>3
  <2>4. CASE i = n + 1 /\ j \in 1..n
    BY <1>1, <1>4, <2>4
  <2> QED BY <2>1, <2>2, <2>3, <2>4
<1>6. Single(a, T, r, U)
  BY <1>2, <1>3, <1>4, <1>5 DEF Single
<1> QED BY <1>3, <1>6 DEF a, Tokens

\* A connection that is lost, or a queue that has been emptied.
LEMMA TokensLost ==
    ASSUME NEW q, NEW T, NEW r, NEW U, Single(q, T, r, U)
    PROVE  /\ Single(q, T, <<>>, U) /\ Tokens(q, T, <<>>, U) \subseteq Tokens(q, T, r, U)
           /\ Single(<<>>, T, r, U) /\ Tokens(<<>>, T, r, U) \subseteq Tokens(q, T, r, U)
<1>1. DOMAIN <<>> = {} /\ ToSet(<<>>) = {}
  BY DEF ToSet
<1>2. Alone(<<>>, T) /\ Alone(<<>>, U) /\ Packs(<<>>, T) = {} /\ Packs(<<>>, U) = {}
  BY <1>1 DEF Alone, Packs
<1> QED BY <1>2 DEF Single, Tokens

\* The packets that a new connection begins with.
LEMMA TokensAgain ==
    ASSUME NEW N, NEW q, NEW T, NEW r, NEW U, DOMAIN q = N,
           \A i \in N : q[i].type \in T, \A i, j \in N : q[i].id = q[j].id => i = j,
           \A i \in DOMAIN r : r[i].type \notin U
    PROVE  /\ Single(q, T, r, U) /\ Tokens(q, T, r, U) = {q[i] : i \in N}
           /\ Single(r, U, q, T) /\ Tokens(r, U, q, T) = {q[i] : i \in N}
<1>1. Alone(q, T) /\ Alone(r, U)
  BY DEF Alone
<1>2. Packs(q, T) = {q[i] : i \in N} /\ Packs(r, U) = {}
  BY DEF Packs, ToSet
<1> QED BY <1>1, <1>2 DEF Single, Tokens
-----------------------------------------------------------------------------
(* The messages to the broker, as sets: E are those in flight, K those     *)
(* still queued as commands, F the packets of the exchanges, in the ids    *)
(* of QoS 2 the broker holds, snt what it has taken, ask what was asked.   *)

Fits(p, e, in) ==
    /\ e.id = p.id
    /\ p.type = "PUBLISH" => p.msg = e.msg /\ e.next = FirstAnswer(e.msg)
    /\ p.type \in {"PUBREL", "PUBCOMP"} => e.next = "PUBCOMP"
    /\ p.type = "PUBACK" => e.next = "PUBACK"
    /\ p.type = "PUBREC" => e.next = "PUBREC" /\ e.id \in in
    /\ p.type = "PUBCOMP" => e.id \notin in

\* No id and no message is used twice, what is queued has not been sent,
\* and the broker has taken a message of QoS 2 once when it holds its id.
OutInv(E, K, F, in, snt, ask) ==
    /\ \A x, y \in E : x.id = y.id \/ x.msg = y.msg => x = y
    /\ \A x, y \in K : x.id = y.id \/ x.msg = y.msg => x = y
    /\ \A x \in E, y \in K : x.id # y.id /\ x.msg # y.msg
    /\ \A x \in E \cup K : x.msg \in ask
    /\ \A x \in K : snt[x.msg] = 0
    /\ \A m \in Outbound \ ask : snt[m] = 0
    /\ \A e \in E : e.next = FirstAnswer(e.msg) \/ (e.msg \in Outbound2 /\ e.next = "PUBCOMP")
    /\ \A e \in E : e.next = "PUBREC" => (snt[e.msg] = 0 /\ e.id \notin in) \/ (snt[e.msg] = 1 /\ e.id \in in)
    /\ \A i \in in : \E e \in E : e.id = i /\ e.msg \in Outbound2
    /\ \A p \in F : \E e \in E : Fits(p, e, in)

LEMMA FirstAnswerIs ==
    ASSUME NEW m \in Outbound
    PROVE  /\ m \in Outbound1 => FirstAnswer(m) = "PUBACK" /\ m \notin Outbound2
           /\ m \in Outbound2 => FirstAnswer(m) = "PUBREC" /\ m \notin Outbound1
           /\ FirstAnswer(m) # "PUBCOMP" /\ FirstAnswer(m) \in NextTypes
  BY IdsAreNumbers DEF FirstAnswer, NextTypes, Outbound

LEMMA OutFewer ==
    ASSUME NEW E, NEW K, NEW F, NEW in, NEW snt, NEW ask, OutInv(E, K, F, in, snt, ask), NEW G \in SUBSET F
    PROVE  OutInv(E, K, G, in, snt, ask)
  BY DEF OutInv

LEMMA OutAsked ==
    ASSUME NEW E, NEW K, NEW F, NEW in, NEW snt, NEW ask, OutInv(E, K, F, in, snt, ask),
           NEW m \in Outbound, m \notin ask, NEW k, k.msg = m, \A x \in E \cup K : x.id # k.id
    PROVE  OutInv(E, K \cup {k}, F, in, snt, ask \cup {m})
  BY DEF OutInv

\* A command that is taken, with and without its entry and its packet.
LEMMA OutTaken ==
    ASSUME NEW E, NEW K, NEW F, NEW in, NEW snt, NEW ask, OutInv(E, K, F, in, snt, ask), NEW k \in K
    PROVE  OutInv(E, K \ {k}, F, in, snt, ask)
  BY DEF OutInv

Begins(k, e, p) ==
    /\ e.id = k.id /\ e.msg = k.msg /\ e.next = FirstAnswer(k.msg)
    /\ p.type = "PUBLISH" /\ p.id = k.id /\ p.msg = k.msg

Begun(E, K, F, in, snt, ask, k, e, p) ==
    /\ OutInv(E \cup {e}, K \ {k}, F, in, snt, ask)
    /\ OutInv(E \cup {e}, K \ {k}, F \cup {p}, in, snt, ask)
    /\ \A t \in F : t.id # p.id

LEMMA OutBegun ==
    ASSUME NEW E, NEW K, NEW F, NEW in, NEW snt, NEW ask, OutInv(E, K, F, in, snt, ask), NEW k \in K,
           NEW e, NEW p, Begins(k, e, p)
    PROVE  Begun(E, K, F, in, snt, ask, k, e, p)
<1>0. /\ e.id = k.id /\ e.msg = k.msg /\ e.next = FirstAnswer(k.msg)
      /\ p.type = "PUBLISH" /\ p.id = k.id /\ p.msg = k.msg
  BY DEF Begins
<1> DEFINE G == E \cup {e}
           L == K \ {k}
<1>1. \A x, y \in G : x.id = y.id \/ x.msg = y.msg => x = y
  BY <1>0 DEF OutInv
<1>2. \A x, y \in L : x.id = y.id \/ x.msg = y.msg => x = y
  BY <1>0 DEF OutInv
<1>3. \A x \in G, y \in L : x.id # y.id /\ x.msg # y.msg
  BY <1>0 DEF OutInv
<1>4. /\ \A x \in G \cup L : x.msg \in ask
      /\ \A x \in L : snt[x.msg] = 0
      /\ \A m \in Outbound \ ask : snt[m] = 0
  BY <1>0 DEF OutInv
<1>5. \A x \in G : x.next = FirstAnswer(x.msg) \/ (x.msg \in Outbound2 /\ x.next = "PUBCOMP")
  BY <1>0 DEF OutInv
<1>6. e.id \notin in /\ snt[e.msg] = 0
  BY <1>0 DEF OutInv
<1>7. \A x \in G : x.next = "PUBREC" => (snt[x.msg] = 0 /\ x.id \notin in) \/ (snt[x.msg] = 1 /\ x.id \in in)
  BY <1>0, <1>6 DEF OutInv
<1>8. \A i \in in : \E x \in G : x.id = i /\ x.msg \in Outbound2
  BY <1>0 DEF OutInv
<1>9. \A t \in F : \E x \in G : Fits(t, x, in)
  BY <1>0 DEF OutInv
<1>10. Fits(p, e, in)
  BY <1>0 DEF Fits
<1>11. \A t \in F : t.id # p.id
  BY <1>0 DEF OutInv, Fits
<1> QED BY <1>1, <1>2, <1>3, <1>4, <1>5, <1>7, <1>8, <1>9, <1>10, <1>11 DEF OutInv, Begun

\* The broker takes a PUBLISH, and answers it.
SentBy(p, in, snt) == IF p.msg \in Outbound1 \/ p.id \notin in THEN [snt EXCEPT ![p.msg] = Bump(@)] ELSE snt
InBy(p, in) == IF p.msg \in Outbound2 THEN in \cup {p.id} ELSE in

Published(E, K, G, in, snt, ask, p, a) ==
    /\ OutInv(E, K, G, InBy(p, in), SentBy(p, in, snt), ask)
    /\ OutInv(E, K, G \cup {a}, InBy(p, in), SentBy(p, in, snt), ask)
    /\ p.msg \in ask /\ (p.msg \in Outbound2 /\ p.id \notin in => snt[p.msg] = 0)

LEMMA OutPublished ==
    ASSUME NEW E \in SUBSET OutEntries, NEW K, NEW F, NEW in, NEW snt \in [Outbound -> 0..2], NEW ask,
           OutInv(E, K, F, in, snt, ask),
           NEW p \in F, p.type = "PUBLISH", p.msg \in Outbound, NEW G \in SUBSET F, \A t \in G : t.id # p.id,
           NEW a, a.id = p.id, a.type = FirstAnswer(p.msg)
    PROVE  Published(E, K, G, in, snt, ask, p, a)
<1> DEFINE snt2 == SentBy(p, in, snt)
           in2 == InBy(p, in)
<1>0. /\ snt2 = IF p.msg \in Outbound1 \/ p.id \notin in THEN [snt EXCEPT ![p.msg] = Bump(@)] ELSE snt
      /\ in2 = IF p.msg \in Outbound2 THEN in \cup {p.id} ELSE in
  BY DEF SentBy, InBy
<1> HIDE DEF snt2, in2
<1>1. PICK e \in E : Fits(p, e, in)
  BY DEF OutInv
<1>2. e.id = p.id /\ e.msg = p.msg /\ e.next = FirstAnswer(p.msg)
  BY <1>1 DEF Fits
<1>3. p.msg \in ask /\ \A x \in E : x # e => x.id # e.id /\ x.msg # e.msg
  BY <1>2 DEF OutInv
<1>4. \A y \in K : y.msg # p.msg
  BY <1>2 DEF OutInv
<1>5. p.msg \in Outbound2 => e.next = "PUBREC" /\ p.msg \notin Outbound1 /\ a.type = "PUBREC"
  BY <1>2, FirstAnswerIs
<1>6. p.msg \notin Outbound2 => p.msg \in Outbound1 /\ e.next = "PUBACK" /\ a.type = "PUBACK"
  BY <1>2, FirstAnswerIs DEF Outbound
<1>7. e.next = "PUBREC" => (snt[p.msg] = 0 /\ p.id \notin in) \/ (snt[p.msg] = 1 /\ p.id \in in)
  BY <1>2 DEF OutInv
<1>8. /\ \A m \in Outbound : m # p.msg => snt2[m] = snt[m]
      /\ p.msg \in Outbound2 => snt2[p.msg] = 1 /\ p.id \in in2
  BY <1>0, <1>5, <1>7 DEF Bump
<1>9. \A i : i # p.id => (i \in in2 <=> i \in in)
  BY <1>0
<1>10. \A x \in E : x.msg \in Outbound
  BY DEF OutEntries
<1>11. \A x \in K : snt2[x.msg] = 0
  <2>1. ASSUME NEW x \in K PROVE snt2[x.msg] = snt[x.msg]
    BY <1>0, <1>4
  <2> QED BY <2>1 DEF OutInv
<1>12. \A m \in Outbound \ ask : snt2[m] = 0
  BY <1>3, <1>8 DEF OutInv
<1>13. ASSUME NEW x \in E, x.next = "PUBREC"
       PROVE  (snt2[x.msg] = 0 /\ x.id \notin in2) \/ (snt2[x.msg] = 1 /\ x.id \in in2)
  <2>1. CASE x = e
    BY <1>2, <1>5, <1>6, <1>8, <1>13, <2>1
  <2>2. CASE x # e
    <3>1. x.id # p.id /\ x.msg # p.msg
      BY <1>2, <1>3, <2>2
    <3>2. snt2[x.msg] = snt[x.msg] /\ (x.id \in in2 <=> x.id \in in)
      BY <1>8, <1>9, <1>10, <3>1
    <3> QED BY <1>13, <3>2 DEF OutInv
  <2> QED BY <2>1, <2>2
<1>14. \A i \in in2 : \E x \in E : x.id = i /\ x.msg \in Outbound2
  BY <1>0, <1>2 DEF OutInv
<1>15. \A t \in G : \E x \in E : Fits(t, x, in2)
  <2> SUFFICES ASSUME NEW t \in G PROVE \E x \in E : Fits(t, x, in2)
    OBVIOUS
  <2>1. PICK x \in E : Fits(t, x, in)
    BY DEF OutInv
  <2>2. x.id = t.id /\ t.id # p.id
    BY <2>1 DEF Fits
  <2>3. Fits(t, x, in2)
    BY <1>9, <2>1, <2>2 DEF Fits
  <2> QED BY <2>3
<1>16. Fits(a, e, in2)
  BY <1>2, <1>5, <1>6, <1>8 DEF Fits
<1>17. OutInv(E, K, G, in2, snt2, ask)
  BY <1>11, <1>12, <1>13, <1>14, <1>15 DEF OutInv
<1>18. \A t \in G \cup {a} : \E x \in E : Fits(t, x, in2)
  BY <1>15, <1>16
<1>19. OutInv(E, K, G \cup {a}, in2, snt2, ask)
  BY <1>17, <1>18 DEF OutInv
<1>20. p.msg \in Outbound2 /\ p.id \notin in => snt[p.msg] = 0
  BY <1>5, <1>7
<1> QED BY <1>3, <1>17, <1>19, <1>20 DEF Published, snt2, in2

\* The broker takes a PUBREL, and answers it.
LEMMA OutReleased ==
    ASSUME NEW E, NEW K, NEW F, NEW in, NEW snt, NEW ask, OutInv(E, K, F, in, snt, ask),
           NEW p \in F, p.type = "PUBREL", NEW G \in SUBSET F, \A t \in G : t.id # p.id,
           NEW a, a.id = p.id, a.type = "PUBCOMP"
    PROVE  OutInv(E, K, G, in \ {p.id}, snt, ask) /\ OutInv(E, K, G \cup {a}, in \ {p.id}, snt, ask)
<1> DEFINE in2 == in \ {p.id}
<1>1. PICK e \in E : Fits(p, e, in)
  BY DEF OutInv
<1>2. e.id = p.id /\ e.next = "PUBCOMP"
  BY <1>1 DEF Fits
<1>3. \A x \in E : x.next = "PUBREC" => x.id # p.id
  BY <1>2 DEF OutInv
<1>4. \A i : i # p.id => (i \in in2 <=> i \in in)
  OBVIOUS
<1>5. p.id \notin in2 /\ in2 \subseteq in
  OBVIOUS
<1> HIDE DEF in2
<1>6. \A x \in E : x.next = "PUBREC" => (snt[x.msg] = 0 /\ x.id \notin in2) \/ (snt[x.msg] = 1 /\ x.id \in in2)
  BY <1>3, <1>4 DEF OutInv
<1>7. \A i \in in2 : \E x \in E : x.id = i /\ x.msg \in Outbound2
  BY <1>5 DEF OutInv
<1>8. \A t \in G : \E x \in E : Fits(t, x, in2)
  <2> SUFFICES ASSUME NEW t \in G PROVE \E x \in E : Fits(t, x, in2)
    OBVIOUS
  <2>1. PICK x \in E : Fits(t, x, in)
    BY DEF OutInv
  <2>2. Fits(t, x, in2)
    BY <1>4, <2>1 DEF Fits
  <2> QED BY <2>2
<1>9. Fits(a, e, in2)
  BY <1>2, <1>5 DEF Fits
<1>10. OutInv(E, K, G, in2, snt, ask)
  BY <1>6, <1>7, <1>8 DEF OutInv
<1>11. \A t \in G \cup {a} : \E x \in E : Fits(t, x, in2)
  BY <1>8, <1>9
<1>12. OutInv(E, K, G \cup {a}, in2, snt, ask)
  BY <1>10, <1>11 DEF OutInv
<1> QED BY <1>10, <1>12 DEF in2

\* The client takes a PUBREC: the message goes on to the PUBREL.
LEMMA OutAnswered ==
    ASSUME NEW E \in SUBSET OutEntries, NEW K, NEW F, NEW in, NEW snt, NEW ask, OutInv(E, K, F, in, snt, ask),
           NEW p \in F, p.type = "PUBREC", NEW G \in SUBSET F, \A t \in G : t.id # p.id,
           NEW e \in E, e.id = p.id, NEW f, f.id = e.id, f.msg = e.msg, f.next = "PUBCOMP",
           NEW a, a.id = p.id, a.type = "PUBREL"
    PROVE  /\ OutInv((E \ {e}) \cup {f}, K, G, in, snt, ask)
           /\ OutInv((E \ {e}) \cup {f}, K, G \cup {a}, in, snt, ask)
           /\ e.next = "PUBREC" /\ e.msg \in Outbound2
<1> DEFINE D == (E \ {e}) \cup {f}
<1>1. PICK x \in E : Fits(p, x, in)
  BY DEF OutInv
<1>2. x = e /\ e.next = "PUBREC" /\ e.id \in in
  <2>1. x.id = e.id /\ x.next = "PUBREC" /\ x.id \in in
    BY <1>1 DEF Fits
  <2>2. x = e
    BY <2>1 DEF OutInv
  <2> QED BY <2>1, <2>2
<1>3. e.msg \in Outbound2
  <2>1. e.msg \in Outbound
    BY DEF OutEntries
  <2>2. e.next = FirstAnswer(e.msg) \/ e.msg \in Outbound2
    BY DEF OutInv
  <2> QED BY <1>2, <2>1, <2>2, FirstAnswerIs DEF Outbound
<1>4. \A y \in D : \E z \in E : y.id = z.id /\ y.msg = z.msg /\ (y = z \/ (y = f /\ z = e))
  OBVIOUS
<1>5. \A z \in E : \E y \in D : y.id = z.id /\ y.msg = z.msg /\ (y = z \/ (y = f /\ z = e))
  OBVIOUS
<1>6. \A y, z \in D : y.id = z.id \/ y.msg = z.msg => y = z
  BY DEF OutInv
<1> HIDE DEF D
<1>7. \A y \in D, z \in K : y.id # z.id /\ y.msg # z.msg
  BY <1>4 DEF OutInv
<1>8. \A y \in D \cup K : y.msg \in ask
  BY <1>4 DEF OutInv
<1>9. \A y \in D : y.next = FirstAnswer(y.msg) \/ (y.msg \in Outbound2 /\ y.next = "PUBCOMP")
  BY <1>3, <1>4 DEF OutInv
<1>10. \A y \in D : y.next = "PUBREC" => (snt[y.msg] = 0 /\ y.id \notin in) \/ (snt[y.msg] = 1 /\ y.id \in in)
  BY <1>4 DEF OutInv
<1>11. \A i \in in : \E y \in D : y.id = i /\ y.msg \in Outbound2
  BY <1>5 DEF OutInv
<1>12. \A t \in G : \E y \in D : Fits(t, y, in)
  <2> SUFFICES ASSUME NEW t \in G PROVE \E y \in D : Fits(t, y, in)
    OBVIOUS
  <2>1. PICK z \in E : Fits(t, z, in)
    BY DEF OutInv
  <2>2. z.id = t.id /\ t.id # p.id
    BY <2>1 DEF Fits
  <2>3. z \in D
    BY <2>2 DEF D
  <2> QED BY <2>1, <2>3
<1>13. f \in D /\ Fits(a, f, in)
  BY DEF Fits, D
<1>14. \A t \in G \cup {a} : \E y \in D : Fits(t, y, in)
  BY <1>12, <1>13
<1>15. OutInv(D, K, G, in, snt, ask)
  BY <1>6, <1>7, <1>8, <1>9, <1>10, <1>11, <1>12 DEF OutInv
<1>16. OutInv(D, K, G \cup {a}, in, snt, ask)
  BY <1>14, <1>15 DEF OutInv
<1> QED BY <1>2, <1>3, <1>15, <1>16 DEF D

\* The client takes the last answer: the exchange is over.
LEMMA OutEnded ==
    ASSUME NEW E \in SUBSET OutEntries, NEW K, NEW F, NEW in, NEW snt, NEW ask, OutInv(E, K, F, in, snt, ask),
           NEW p \in F, p.type \in {"PUBACK", "PUBCOMP"}, NEW G \in SUBSET F, \A t \in G : t.id # p.id,
           NEW e \in E, e.id = p.id
    PROVE  OutInv(E \ {e}, K, G, in, snt, ask) /\ e.next = p.type
<1> DEFINE D == E \ {e}
<1>1. PICK x \in E : Fits(p, x, in)
  BY DEF OutInv
<1>2. x.id = e.id /\ x.next = p.type /\ (p.type = "PUBCOMP" => x.id \notin in)
  BY <1>1 DEF Fits
<1>3. x = e
  BY <1>2 DEF OutInv
<1>4. e.id \notin in
  <2>1. CASE p.type = "PUBCOMP"
    BY <1>2, <1>3, <2>1
  <2>2. CASE p.type = "PUBACK"
    <3>1. e.msg \in Outbound /\ e.next = "PUBACK"
      BY <1>2, <1>3, <2>2 DEF OutEntries
    <3>2. e.next = FirstAnswer(e.msg)
      BY <3>1 DEF OutInv
    <3>3. e.msg \notin Outbound2
      BY <3>1, <3>2, FirstAnswerIs DEF Outbound
    <3> QED BY <3>3 DEF OutInv
  <2> QED BY <2>1, <2>2
<1>5. \A i \in in : \E y \in D : y.id = i /\ y.msg \in Outbound2
  BY <1>4 DEF OutInv
<1>6. \A t \in G : \E y \in D : Fits(t, y, in)
  <2> SUFFICES ASSUME NEW t \in G PROVE \E y \in D : Fits(t, y, in)
    OBVIOUS
  <2>1. PICK z \in E : Fits(t, z, in)
    BY DEF OutInv
  <2>2. z.id = t.id /\ t.id # p.id
    BY <2>1 DEF Fits
  <2> QED BY <2>1, <2>2
<1>7. D \subseteq E
  OBVIOUS
<1> HIDE DEF D
<1>8. OutInv(D, K, G, in, snt, ask)
  BY <1>5, <1>6, <1>7 DEF OutInv
<1> QED BY <1>2, <1>3, <1>8 DEF D

\* Everything in flight is sent again on a new connection.
LEMMA OutAgain ==
    ASSUME NEW E, NEW K, NEW F, NEW in, NEW snt, NEW ask, OutInv(E, K, F, in, snt, ask)
    PROVE  OutInv(E, K, {Again(e) : e \in E}, in, snt, ask)
<1>1. \A e \in E : Fits(Again(e), e, in)
  <2> SUFFICES ASSUME NEW e \in E PROVE Fits(Again(e), e, in)
    OBVIOUS
  <2>1. e.next = FirstAnswer(e.msg) \/ e.next = "PUBCOMP"
    BY DEF OutInv
  <2>2. CASE e.next = "PUBCOMP"
    <3>1. Again(e) = Ack("PUBREL", e.id)
      BY <2>2 DEF Again
    <3>2. Again(e).id = e.id /\ Again(e).type = "PUBREL"
      BY <3>1 DEF Ack, Packet
    <3> QED BY <2>2, <3>2 DEF Fits
  <2>3. CASE e.next # "PUBCOMP"
    <3>1. Again(e) = Packet("PUBLISH", e.id, e.msg, 1)
      BY <2>3 DEF Again
    <3>2. Again(e).id = e.id /\ Again(e).type = "PUBLISH" /\ Again(e).msg = e.msg
      BY <3>1 DEF Packet
    <3> QED BY <2>1, <2>3, <3>2 DEF Fits
  <2> QED BY <2>2, <2>3
<1> QED BY <1>1 DEF OutInv
-----------------------------------------------------------------------------
(* What the store says of the messages to the broker.                      *)

Named(d, key) == {f \in d : f.key = key}
EntryOf(d, f) ==
    [id |-> f.id, msg |-> f.msg,
     next |-> IF f.msg \in Outbound2 /\ (\E g \in Named(d, "sc") : g.n = f.n) THEN "PUBCOMP" ELSE FirstAnswer(f.msg)]
Entries(d) == {EntryOf(d, f) : f \in Named(d, "s")}
RelSound(d) == \A f \in Named(d, "sc") : \E g \in Named(d, "s") : g.n = f.n

\* The messages in flight, and those that are queued: with a store what it
\* holds, which is what a new process begins with.
Ongoing(x, d) == IF Persistence = 1 THEN Entries(d) ELSE ToSet(x.outboundMsgs)
Commanded(x, d) == IF Persistence = 1 THEN Named(d, "c") ELSE ToSet(x.commands)

\* A running process has in memory what is stored.
MemorySound(x, d) ==
    /\ \A i, j \in DOMAIN x.outboundMsgs : x.outboundMsgs[i].id = x.outboundMsgs[j].id => i = j
    /\ \A i, j \in DOMAIN x.commands : x.commands[i].id = x.commands[j].id => i = j
    /\ Persistence = 1 =>
         /\ Entries(d) = ToSet(x.outboundMsgs)
         /\ \A i \in DOMAIN x.commands : CommandFile(x.commands[i].seqno, x.commands[i].id, x.commands[i].msg) \in d
         /\ RelSound(d)

\* The first process has every id that is in use where assignMsgId looks.
FirstSound(x, d) ==
    /\ \A e \in Ongoing(x, d) : \E r \in x.responses : r.id = e.id
    /\ \A k \in Commanded(x, d) : \E i \in DOMAIN x.commands : x.commands[i].id = k.id
    /\ Persistence = 1 => \A f \in Named(d, "c") : f.n <= x.command_seqno

LEMMA NamedIs ==
    ASSUME NEW d \in Disks
    PROVE  /\ \A f \in Named(d, "s") : f \in d /\ f.key = "s" /\ f.n = f.id /\ f.id \in Ids /\ f.msg \in Outbound
                                       /\ f = PublishSent(f.id, f.msg)
           /\ \A f \in Named(d, "sc") : f \in d /\ f.key = "sc" /\ f.n = f.id /\ f.id \in Ids
                                        /\ f = PubrelSent(f.id)
           /\ \A f \in Named(d, "c") : f \in d /\ f.key = "c" /\ f.id \in Ids /\ f.msg \in Outbound /\ f.n \in Nat
                                       /\ f = CommandFile(f.n, f.id, f.msg)
           /\ \A f, g \in d : f.key = g.key /\ f.n = g.n => f = g
<1>1. d \subseteq FileSet /\ SameFiles(d)
  BY DEF Disks
<1>2. \A f, g \in d : f.key = g.key /\ f.n = g.n => f = g
  BY <1>1 DEF SameFiles, SameFile
<1>3. ASSUME NEW f \in Named(d, "s")
      PROVE  f \in d /\ f.key = "s" /\ f.n = f.id /\ f.id \in Ids /\ f.msg \in Outbound /\ f = PublishSent(f.id, f.msg)
  <2>1. f \in d /\ f.key = "s"
    BY DEF Named
  <2>2. f.n = f.id /\ f.id \in Ids /\ f.msg \in Outbound
    BY <1>1, <2>1 DEF FileSet
  <2>3. f = [key |-> f.key, n |-> f.n, id |-> f.id, msg |-> f.msg]
    BY <1>1, <2>1 DEF FileSet
  <2> QED BY <2>1, <2>2, <2>3 DEF PublishSent, File
<1>4. ASSUME NEW f \in Named(d, "sc")
      PROVE  f \in d /\ f.key = "sc" /\ f.n = f.id /\ f.id \in Ids /\ f = PubrelSent(f.id)
  <2>1. f \in d /\ f.key = "sc"
    BY DEF Named
  <2>2. f.n = f.id /\ f.id \in Ids /\ f.msg = 0
    BY <1>1, <2>1 DEF FileSet
  <2>3. f = [key |-> f.key, n |-> f.n, id |-> f.id, msg |-> f.msg]
    BY <1>1, <2>1 DEF FileSet
  <2> QED BY <2>1, <2>2, <2>3 DEF PubrelSent, File
<1>5. ASSUME NEW f \in Named(d, "c")
      PROVE  f \in d /\ f.key = "c" /\ f.id \in Ids /\ f.msg \in Outbound /\ f.n \in Nat /\ f = CommandFile(f.n, f.id, f.msg)
  <2>1. f \in d /\ f.key = "c"
    BY DEF Named
  <2>2. f.id \in Ids /\ f.msg \in Outbound /\ f.n \in Nat
    BY <1>1, <2>1 DEF FileSet
  <2>3. f = [key |-> f.key, n |-> f.n, id |-> f.id, msg |-> f.msg]
    BY <1>1, <2>1 DEF FileSet
  <2> QED BY <2>1, <2>2, <2>3 DEF CommandFile, File
<1> QED BY <1>2, <1>3, <1>4, <1>5

LEMMA EntryIs ==
    ASSUME NEW d \in Disks, NEW f \in Named(d, "s")
    PROVE  /\ EntryOf(d, f) \in OutEntries /\ EntryOf(d, f) \in Entries(d)
           /\ EntryOf(d, f).id = f.id /\ EntryOf(d, f).msg = f.msg
<1>1. f.id \in Ids /\ f.msg \in Outbound
  BY NamedIs
<1>2. FirstAnswer(f.msg) \in NextTypes /\ "PUBCOMP" \in NextTypes
  BY <1>1, FirstAnswerIs DEF NextTypes
<1> QED BY <1>1, <1>2 DEF EntryOf, Entries, OutEntries

LEMMA EntriesTyped ==
    ASSUME NEW d \in Disks
    PROVE  /\ Entries(d) \subseteq OutEntries
           /\ \A e \in Entries(d) : \E f \in Named(d, "s") : e = EntryOf(d, f) /\ e.id = f.id /\ e.msg = f.msg
           /\ \A e, g \in Entries(d) : e.id = g.id => e = g
<1>1. \A e \in Entries(d) : \E f \in Named(d, "s") : e = EntryOf(d, f) /\ e.id = f.id /\ e.msg = f.msg
  BY EntryIs DEF Entries
<1>2. Entries(d) \subseteq OutEntries
  BY <1>1, EntryIs
<1>3. \A e, g \in Entries(d) : e.id = g.id => e = g
  BY <1>1, NamedIs
<1> QED BY <1>1, <1>2, <1>3

LEMMA SameNamed ==
    ASSUME NEW d, NEW e, OutFiles(e) = OutFiles(d)
    PROVE  /\ Named(e, "s") = Named(d, "s") /\ Named(e, "sc") = Named(d, "sc") /\ Named(e, "c") = Named(d, "c")
           /\ Entries(e) = Entries(d)
           /\ RelSound(d) => RelSound(e)
<1>1. /\ \A k \in {"s", "sc", "c"} : Named(d, k) = {f \in OutFiles(d) : f.key = k}
      /\ \A k \in {"s", "sc", "c"} : Named(e, k) = {f \in OutFiles(e) : f.key = k}
  BY DEF Named, OutFiles
<1>2. Named(e, "s") = Named(d, "s") /\ Named(e, "sc") = Named(d, "sc") /\ Named(e, "c") = Named(d, "c")
  BY <1>1
<1>3. \A f : EntryOf(e, f) = EntryOf(d, f)
  BY <1>2 DEF EntryOf
<1> QED BY <1>2, <1>3 DEF Entries, RelSound

LEMMA OutViewSame ==
    ASSUME NEW x, NEW d, NEW y, NEW e, OutSame(x, y), OutFiles(e) = OutFiles(d)
    PROVE  /\ Ongoing(y, e) = Ongoing(x, d) /\ Commanded(y, e) = Commanded(x, d)
           /\ MemorySound(x, d) => MemorySound(y, e)
           /\ FirstSound(x, d) => FirstSound(y, e)
<1>1. /\ y.outboundMsgs = x.outboundMsgs /\ y.commands = x.commands /\ y.responses = x.responses
      /\ y.command_seqno = x.command_seqno
  BY DEF OutSame
<1>2. /\ Named(e, "c") = Named(d, "c") /\ Entries(e) = Entries(d) /\ (RelSound(d) => RelSound(e))
  BY SameNamed
<1>3. Ongoing(y, e) = Ongoing(x, d) /\ Commanded(y, e) = Commanded(x, d)
  BY <1>1, <1>2 DEF Ongoing, Commanded
<1>4. \A n, id, m : CommandFile(n, id, m) \in d => CommandFile(n, id, m) \in e
  <2> TAKE n, id, m
  <2>1. CommandFile(n, id, m).key = "c"
    BY FileKeys
  <2> HIDE DEF CommandFile
  <2> QED BY <1>2, <2>1 DEF Named
<1>5. MemorySound(x, d) => MemorySound(y, e)
  BY <1>1, <1>2, <1>4 DEF MemorySound
<1>6. FirstSound(x, d) => FirstSound(y, e)
  BY <1>1, <1>2, <1>3 DEF FirstSound
<1> QED BY <1>3, <1>5, <1>6
-----------------------------------------------------------------------------
(* How the store changes.                                                  *)

LEMMA CommandUnlinked ==
    ASSUME NEW d \in Disks, NEW n
    PROVE  LET e == Unlinked(d, "c", n)
           IN  /\ Named(e, "s") = Named(d, "s") /\ Named(e, "sc") = Named(d, "sc")
               /\ Named(e, "c") = {f \in Named(d, "c") : f.n # n}
               /\ Entries(e) = Entries(d) /\ (RelSound(d) => RelSound(e))
<1> DEFINE e == Unlinked(d, "c", n)
<1>1. /\ Named(e, "s") = Named(d, "s") /\ Named(e, "sc") = Named(d, "sc")
      /\ Named(e, "c") = {f \in Named(d, "c") : f.n # n}
  BY DEF Named, Unlinked
<1> HIDE DEF e
<1>2. \A f : EntryOf(e, f) = EntryOf(d, f)
  BY <1>1 DEF EntryOf
<1>3. Entries(e) = Entries(d) /\ (RelSound(d) => RelSound(e))
  BY <1>1, <1>2 DEF Entries, RelSound
<1> QED BY <1>1, <1>3 DEF e

LEMMA CommandStored ==
    ASSUME NEW d \in Disks, NEW n, NEW id, NEW m, Persistence = 1, \A f \in Named(d, "c") : f.n # n
    PROVE  LET e == Stored(d, CommandFile(n, id, m))
           IN  /\ Named(e, "c") = Named(d, "c") \cup {CommandFile(n, id, m)}
               /\ Entries(e) = Entries(d) /\ (RelSound(d) => RelSound(e))
<1> DEFINE g == CommandFile(n, id, m)
           e == Stored(d, g)
<1>1. g.key = "c" /\ g.n = n
  BY DEF CommandFile, File
<1> HIDE DEF g
<1>2. e = Unlinked(d, "c", n) \cup {g}
  BY <1>1 DEF Stored
<1>3. Unlinked(d, "c", n) = d
  BY DEF Unlinked, Named
<1>4. e = d \cup {g}
  BY <1>2, <1>3
<1> HIDE DEF e
<1>5. /\ Named(e, "s") = Named(d, "s") /\ Named(e, "sc") = Named(d, "sc")
      /\ Named(e, "c") = Named(d, "c") \cup {g}
  BY <1>1, <1>4 DEF Named
<1>6. \A f : EntryOf(e, f) = EntryOf(d, f)
  BY <1>5 DEF EntryOf
<1>7. Entries(e) = Entries(d) /\ (RelSound(d) => RelSound(e))
  BY <1>5, <1>6 DEF Entries, RelSound
<1> QED BY <1>5, <1>7 DEF e, g

LEMMA PublishStored ==
    ASSUME NEW d \in Disks, NEW id, NEW m, Persistence = 1, RelSound(d), \A e \in Entries(d) : e.id # id
    PROVE  LET e == Stored(d, PublishSent(id, m))
           IN  /\ Named(e, "c") = Named(d, "c")
               /\ Entries(e) = Entries(d) \cup {[id |-> id, msg |-> m, next |-> FirstAnswer(m)]}
               /\ RelSound(e)
<1> DEFINE g == PublishSent(id, m)
           e == Stored(d, g)
<1>1. g.key = "s" /\ g.n = id /\ g.id = id /\ g.msg = m
  BY DEF PublishSent, File
<1>2. \A f \in Named(d, "s") : f.n # id
  <2> TAKE f \in Named(d, "s")
  <2>1. EntryOf(d, f) \in Entries(d) /\ EntryOf(d, f).id = f.id /\ f.n = f.id
    BY EntryIs, NamedIs
  <2> QED BY <2>1
<1> HIDE DEF g
<1>3. e = Unlinked(d, "s", id) \cup {g}
  BY <1>1 DEF Stored
<1>4. Unlinked(d, "s", id) = d
  BY <1>2 DEF Unlinked, Named
<1>5. e = d \cup {g}
  BY <1>3, <1>4
<1> HIDE DEF e
<1>6. /\ Named(e, "s") = Named(d, "s") \cup {g} /\ Named(e, "sc") = Named(d, "sc")
      /\ Named(e, "c") = Named(d, "c")
  BY <1>1, <1>5 DEF Named
<1>7. \A f : EntryOf(e, f) = EntryOf(d, f)
  BY <1>6 DEF EntryOf
<1>8. \A f \in Named(e, "sc") : f.n # id
  BY <1>2, <1>6 DEF RelSound
<1>9. EntryOf(e, g) = [id |-> id, msg |-> m, next |-> FirstAnswer(m)]
  BY <1>1, <1>8 DEF EntryOf
<1>10. Entries(e) = {EntryOf(e, f) : f \in Named(d, "s")} \cup {EntryOf(e, g)}
  BY <1>6 DEF Entries
<1>11. Entries(e) = Entries(d) \cup {EntryOf(e, g)}
  BY <1>7, <1>10 DEF Entries
<1>12. RelSound(e)
  BY <1>6 DEF RelSound
<1> QED BY <1>6, <1>9, <1>11, <1>12 DEF e, g

LEMMA PublishUnlinked ==
    ASSUME NEW d \in Disks, NEW id
    PROVE  LET l == Unlinked(d, "s", id)
               e == Unlinked(l, "sc", id)
           IN  /\ Named(l, "c") = Named(d, "c") /\ Named(e, "c") = Named(d, "c")
               /\ Entries(l) = {x \in Entries(d) : x.id # id} /\ Entries(e) = {x \in Entries(d) : x.id # id}
               /\ RelSound(d) => RelSound(e)
<1> DEFINE l == Unlinked(d, "s", id)
           e == Unlinked(l, "sc", id)
<1>1. /\ Named(l, "s") = {f \in Named(d, "s") : f.n # id} /\ Named(l, "sc") = Named(d, "sc")
      /\ Named(l, "c") = Named(d, "c")
  BY DEF Named, Unlinked
<1>2. /\ Named(e, "s") = Named(l, "s") /\ Named(e, "sc") = {f \in Named(d, "sc") : f.n # id}
      /\ Named(e, "c") = Named(d, "c")
  BY DEF Named, Unlinked
<1> HIDE DEF e, l
<1>3. \A f : EntryOf(l, f) = EntryOf(d, f)
  BY <1>1 DEF EntryOf
<1>4. \A f \in Named(l, "s") : EntryOf(e, f) = EntryOf(d, f)
  BY <1>1, <1>2 DEF EntryOf
<1>5. \A f \in Named(d, "s") : f.n # id <=> EntryOf(d, f).id # id
  BY NamedIs, EntryIs
<1>6. {EntryOf(d, f) : f \in Named(l, "s")} = {x \in Entries(d) : x.id # id}
  BY <1>1, <1>5 DEF Entries
<1>7. Entries(l) = {x \in Entries(d) : x.id # id}
  BY <1>3, <1>6 DEF Entries
<1>8. Entries(e) = {x \in Entries(d) : x.id # id}
  <2>1. Entries(e) = {EntryOf(e, f) : f \in Named(l, "s")}
    BY <1>2 DEF Entries
  <2>2. Entries(e) = {EntryOf(d, f) : f \in Named(l, "s")}
    BY <1>4, <2>1
  <2> QED BY <1>6, <2>2
<1>9. RelSound(d) => RelSound(e)
  BY <1>1, <1>2 DEF RelSound
<1> QED BY <1>1, <1>2, <1>7, <1>8, <1>9 DEF e, l

LEMMA PubrelStoredIs ==
    ASSUME NEW d \in Disks, Persistence = 1, NEW x \in Entries(d), x.msg \in Outbound2
    PROVE  LET e == Stored(d, PubrelSent(x.id))
           IN  /\ Named(e, "c") = Named(d, "c")
               /\ Entries(e) = (Entries(d) \ {x}) \cup {[x EXCEPT !.next = "PUBCOMP"]}
               /\ RelSound(d) => RelSound(e)
<1> DEFINE g == PubrelSent(x.id)
           e == Stored(d, g)
           y == [x EXCEPT !.next = "PUBCOMP"]
<1>1. g.key = "sc" /\ g.n = x.id
  BY DEF PubrelSent, File
<1> HIDE DEF g
<1>2. e = Unlinked(d, "sc", x.id) \cup {g}
  BY <1>1 DEF Stored
<1> HIDE DEF e
<1>3. /\ Named(e, "s") = Named(d, "s") /\ Named(e, "c") = Named(d, "c")
      /\ Named(e, "sc") = {f \in Named(d, "sc") : f.n # x.id} \cup {g}
  BY <1>1, <1>2 DEF Named, Unlinked
<1>4. PICK h \in Named(d, "s") : x = EntryOf(d, h) /\ x.id = h.id /\ x.msg = h.msg
  BY EntriesTyped
<1>5. h.n = h.id /\ \A f \in Named(d, "s") : f.n = h.n => f = h
  BY <1>4, NamedIs
<1>6. EntryOf(e, h) = [id |-> h.id, msg |-> h.msg, next |-> "PUBCOMP"]
  BY <1>1, <1>3, <1>4, <1>5 DEF EntryOf
<1>7. y = [id |-> x.id, msg |-> x.msg, next |-> "PUBCOMP"]
  <2>1. x \in OutEntries
    BY EntriesTyped
  <2> QED BY <2>1 DEF OutEntries
<1>8. EntryOf(e, h) = y
  BY <1>4, <1>6, <1>7
<1>9. \A f \in Named(d, "s") : f # h => EntryOf(e, f) = EntryOf(d, f)
  <2> SUFFICES ASSUME NEW f \in Named(d, "s"), f # h PROVE EntryOf(e, f) = EntryOf(d, f)
    OBVIOUS
  <2>1. f.n # x.id
    BY <1>4, <1>5
  <2>2. (\E k \in Named(e, "sc") : k.n = f.n) <=> (\E k \in Named(d, "sc") : k.n = f.n)
    BY <1>1, <1>3, <2>1
  <2> QED BY <2>2 DEF EntryOf
<1>10. \A f \in Named(d, "s") : f # h => EntryOf(d, f) # x
  BY <1>4, <1>5, EntryIs, NamedIs
<1> HIDE DEF y
<1>11. Entries(e) = {EntryOf(e, f) : f \in Named(d, "s")}
  BY <1>3 DEF Entries
<1>12. Entries(d) = {EntryOf(d, f) : f \in Named(d, "s")}
  BY DEF Entries
<1>13. Entries(e) \subseteq (Entries(d) \ {x}) \cup {y}
  BY <1>8, <1>9, <1>10, <1>11, <1>12
<1>14. y \in Entries(e)
  BY <1>8, <1>11
<1>15. Entries(d) \ {x} \subseteq Entries(e)
  BY <1>4, <1>9, <1>11, <1>12
<1>16. RelSound(d) => RelSound(e)
  BY <1>1, <1>3, <1>4, <1>5 DEF RelSound
<1> QED BY <1>3, <1>13, <1>14, <1>15, <1>16 DEF e, g, y
-----------------------------------------------------------------------------
(* When the process runs.                                                  *)

\* It is connected only then, it has died or begun again only by a crash,
\* and only then are there messages whose payload has been freed.
ProcessSound ==
    /\ c.connected = 1 => c.running = 1
    /\ c.running = 0 \/ restarts = 1 => "crash" \in Faults
    /\ \A x \in c.inboundMsgs : x.publish = "freed" => "crash" \in Faults

LEMMA ProcessDied ==
    ASSUME "crash" \in Faults, c' = NewClient(0)
    PROVE  ProcessSound'
  BY DEF ProcessSound, NewClient

LEMMA ProcessStays ==
    ASSUME ProcessSound, c'.running = c.running, c'.connected \in {c.connected, 0}, restarts' = restarts,
           \A x \in c'.inboundMsgs : x \in c.inboundMsgs \/ x.publish # "freed"
    PROVE  ProcessSound'
  BY DEF ProcessSound

LEMMA ProcessNext ==
    ASSUME Typed, ProcessSound, [Next]_vars
    PROVE  ProcessSound'
<1>1. ASSUME NEW m \in Outbound, Publish(m) PROVE ProcessSound'
  <2>1. LinkSame(c, c') /\ InSame(c, c') /\ restarts' = restarts
    BY <1>1, PublishDoes
  <2> QED BY <2>1, ProcessStays DEF LinkSame, InSame
<1>2. CASE ProcessCommand
  <2>1. restarts' = restarts /\ ((LinkSame(c, c') /\ InSame(c, c')) \/ ("crash" \in Faults /\ c' = NewClient(0)))
    BY <1>2, ProcessCommandDoes
  <2> QED BY <2>1, ProcessStays, ProcessDied DEF LinkSame, InSame
<1>3. CASE ReceivePuback \/ ReceivePubcomp
  <2>1. PICK type \in Types : Arrives(type) /\ Take /\ Handle(Completed(Head(toClient).id, type))
    BY <1>3 DEF ReceivePuback, ReceivePubcomp, Types
  <2>2. restarts' = restarts
    BY <2>1, TakeDoes
  <2>3. (LinkSame(c, c') /\ InSame(c, c')) \/ ("crash" \in Faults /\ c' = NewClient(0))
    BY <2>1, CompletedDoes
  <2> QED BY <2>2, <2>3, ProcessStays, ProcessDied DEF LinkSame, InSame
<1>4. CASE ReceivePubrec
  <2>1. restarts' = restarts
    BY <1>4, TakeDoes DEF ReceivePubrec
  <2>2. c' = c \/ (LinkSame(c, c') /\ InSame(c, c')) \/ ("crash" \in Faults /\ c' = NewClient(0))
    BY <1>4, ReceivePubrecDoes
  <2> QED BY <2>1, <2>2, ProcessStays, ProcessDied DEF LinkSame, InSame
<1>5. CASE ReceivePublish1
  <2>1. restarts' = restarts
    BY <1>5, TakeDoes DEF ReceivePublish1
  <2>2. (LinkSame(c, c') /\ c'.inboundMsgs = c.inboundMsgs) \/ ("crash" \in Faults /\ c' = NewClient(0))
    BY <1>5, ReceivePublish1Does
  <2> QED BY <2>1, <2>2, ProcessStays, ProcessDied DEF LinkSame
<1>6. CASE ReceivePublish2
  <2> DEFINE p == Head(toClient)
  <2>1. restarts' = restarts
    BY <1>6, TakeDoes DEF ReceivePublish2
  <2>2. \/ LinkSame(c, c') /\ c'.inboundMsgs = KnownWith(c.inboundMsgs, p, "kept")
        \/ LinkSame(c, c') /\ c'.inboundMsgs = KnownWith(c.inboundMsgs, p, "null")
        \/ "crash" \in Faults /\ c' = NewClient(0)
    BY <1>6, ReceivePublish2Does
  <2> HIDE DEF p
  <2>3. \A k \in {"kept", "null"} : \A x \in KnownWith(c.inboundMsgs, p, k) : x \in c.inboundMsgs \/ x.publish # "freed"
    BY DEF KnownWith
  <2> QED BY <2>1, <2>2, <2>3, ProcessStays, ProcessDied DEF LinkSame
<1>7. CASE ReceivePubrel
  <2>1. restarts' = restarts
    BY <1>7, TakeDoes DEF ReceivePubrel
  <2>2. \/ c' = c
        \/ LinkSame(c, c') /\ c'.inboundMsgs \subseteq c.inboundMsgs
        \/ "crash" \in Faults /\ c' = NewClient(0)
    BY <1>7, ReceivePubrelDoes
  <2> QED BY <2>1, <2>2, ProcessStays, ProcessDied DEF LinkSame
<1>8. CASE FreedTwice
  <2>1. c' = NewClient(0) /\ \E x \in c.inboundMsgs : x.publish = "freed"
    BY <1>8, FreedTwiceDoes
  <2> QED BY <2>1, ProcessDied DEF ProcessSound
<1>9. CASE FlushQueue
  <2>1. restarts' = restarts
    BY <1>9, FlushQueueDoes
  <2>2. (LinkSame(c, c') /\ c'.inboundMsgs = c.inboundMsgs) \/ ("crash" \in Faults /\ c' = NewClient(0))
    BY <1>9, FlushQueueDoes
  <2> QED BY <2>1, <2>2, ProcessStays, ProcessDied DEF LinkSame
<1>10. CASE Connect
  <2>1. c.running = 1 /\ c'.running = c.running /\ InSame(c, c') /\ restarts' = restarts
    BY <1>10, ConnectDoes
  <2> QED BY <2>1 DEF ProcessSound, InSame
<1>11. CASE Restart
  <2>1. c.running = 0 /\ c'.running = 1
    BY <1>11, RestartDoes
  <2> QED BY <2>1 DEF ProcessSound
<1>12. CASE PendingWrites \/ Break
  <2>1. LinkSame([c EXCEPT !.connected = 0], c') /\ InSame(c, c') /\ restarts' = restarts
    BY <1>12, PendingWritesDoes, BreakDoes
  <2>2. c'.running = c.running /\ c'.connected = 0
    BY <2>1, NowIs DEF LinkSame, Clients
  <2> QED BY <2>1, <2>2, ProcessStays DEF InSame
<1>13. CASE Crash
  BY <1>13, CrashDoes, ProcessDied
<1>14. CASE Broker
  <2>1. c' = c /\ restarts' = restarts
    BY <1>14, BrokerPublishDoes, BrokerReceivePublishDoes, BrokerReceivePubrelDoes, BrokerReceivePubrecDoes,
       BrokerReceiveLastDoes DEF Broker
  <2> QED BY <2>1 DEF ProcessSound
<1>15. CASE UNCHANGED vars
  BY <1>15 DEF vars, ProcessSound
<1> QED BY <1>1, <1>2, <1>3, <1>4, <1>5, <1>6, <1>7, <1>8, <1>9, <1>10, <1>11, <1>12, <1>13, <1>14, <1>15
        DEF Next, Application, Client, Receive
-----------------------------------------------------------------------------
(* The messages to the broker: every step keeps them sound.                *)

\* Without a store a crash loses the session, and MQTTAsync_assignMsgId may
\* give the id of a message that has been restored to another.
OutFaults == "resume" \notin Faults /\ ("crash" \in Faults => Persistence = 1)

OutTokens == Tokens(toBroker, Asks, toClient, Replies)
OutCore ==
    /\ Single(toBroker, Asks, toClient, Replies)
    /\ OutInv(Ongoing(c, disk), Commanded(c, disk), OutTokens, b.in, sent, asked)
OutMemory == c.running = 1 => MemorySound(c, disk) /\ (restarts = 0 => FirstSound(c, disk))
OutSound == OutCore /\ OutMemory

LEMMA OngoingTyped ==
    ASSUME Typed
    PROVE  Ongoing(c, disk) \subseteq OutEntries
<1>1. c \in Clients /\ disk \in Disks
  BY NowIs
<1>2. c.outboundMsgs \in Seq(OutEntries)
  BY <1>1, FieldsOf
<1>3. ToSet(c.outboundMsgs) \subseteq OutEntries
  BY <1>2, Members
<1> QED BY <1>1, <1>3, EntriesTyped DEF Ongoing

\* A process that has died has nothing but the store.
LEMMA OutDied ==
    ASSUME OutFaults, "crash" \in Faults, c' = NewClient(0), OutCore'
    PROVE  OutSound'
<1>1. c'.running = 0 /\ c'.connected = 0
  BY DEF NewClient
<1> QED BY <1>1 DEF OutSound, OutMemory

LEMMA OnDisk ==
    ASSUME Persistence = 1, NEW x, NEW d
    PROVE  Ongoing(x, d) = Entries(d) /\ Commanded(x, d) = Named(d, "c")
  BY DEF Ongoing, Commanded

LEMMA OnlyInMemory ==
    ASSUME Persistence # 1, NEW x, NEW d
    PROVE  Ongoing(x, d) = ToSet(x.outboundMsgs) /\ Commanded(x, d) = ToSet(x.commands)
  BY DEF Ongoing, Commanded

\* A step that is none of this direction.
LEMMA OutQuiet ==
    ASSUME OutFaults, OutSound,
           \/ c'.running = c.running /\ OutSame(c, c')
           \/ "crash" \in Faults /\ c' = NewClient(0),
           OutFiles(disk') = OutFiles(disk),
           Single(toBroker, Asks, toClient, Replies)', OutTokens' \subseteq OutTokens,
           b'.in = b.in, sent' = sent, asked' = asked, restarts' = restarts
    PROVE  OutSound'
<1>1. OutInv(Ongoing(c, disk), Commanded(c, disk), OutTokens', b.in, sent, asked)
  BY OutFewer DEF OutSound, OutCore
<1>2. CASE c'.running = c.running /\ OutSame(c, c')
  <2>1. Ongoing(c', disk') = Ongoing(c, disk) /\ Commanded(c', disk') = Commanded(c, disk)
    BY <1>2, OutViewSame
  <2>2. OutCore'
    BY <1>1, <2>1 DEF OutCore
  <2>3. OutMemory'
    BY <1>2, OutViewSame DEF OutMemory, OutSound
  <2> QED BY <2>2, <2>3 DEF OutSound
<1>3. CASE "crash" \in Faults /\ c' = NewClient(0)
  <2>1. Persistence = 1
    BY <1>3 DEF OutFaults
  <2>2. Ongoing(c', disk') = Ongoing(c, disk) /\ Commanded(c', disk') = Commanded(c, disk)
    BY <2>1, OnDisk, SameNamed
  <2>3. OutCore'
    BY <1>1, <2>2 DEF OutCore
  <2> QED BY <1>3, <2>3, OutDied
<1> QED BY <1>2, <1>3

\* What a packet from the broker, and one to it, means to this direction.
LEMMA ReplyTaken ==
    ASSUME Typed, OutCore, NEW type, Arrives(type), Take
    PROVE  LET p == Head(toClient)
               G == Tokens(toBroker, Asks, toClient', Replies)
           IN  /\ Single(toBroker, Asks, toClient', Replies) /\ G \subseteq OutTokens
               /\ type \in Replies => p \in OutTokens /\ \A t \in G : t.id # p.id
<1>1. /\ toClient # <<>> /\ Head(toClient).type = type /\ toClient' = Tail(toClient)
  BY TakeDoes
<1>2. toClient \in Seq(ClientBound) /\ Single(toBroker, Asks, toClient, Replies)
  BY NowIs DEF OutCore
<1>3. Single(toClient, Replies, toBroker, Asks) /\ Tokens(toClient, Replies, toBroker, Asks) = OutTokens
  BY <1>2, SingleTurned DEF OutTokens
<1>4. /\ Single(toClient', Replies, toBroker, Asks)
      /\ Tokens(toClient', Replies, toBroker, Asks) \subseteq OutTokens
      /\ type \in Replies =>
           /\ Head(toClient) \in OutTokens
           /\ \A t \in Tokens(toClient', Replies, toBroker, Asks) : t.id # Head(toClient).id
  BY <1>1, <1>2, <1>3, TokenTaken
<1>5. /\ Single(toBroker, Asks, toClient', Replies)
      /\ Tokens(toBroker, Asks, toClient', Replies) = Tokens(toClient', Replies, toBroker, Asks)
  BY <1>4, SingleTurned
<1> QED BY <1>4, <1>5

LEMMA InboundTaken ==
    ASSUME Typed, OutCore, NEW type, Arrives(type), Take, NEW a \in BrokerBound, a.type \notin Asks,
           toBroker' \in {toBroker, Append(toBroker, a)}
    PROVE  Single(toBroker, Asks, toClient, Replies)' /\ OutTokens' \subseteq OutTokens
<1>1. /\ Single(toBroker, Asks, toClient', Replies) /\ Tokens(toBroker, Asks, toClient', Replies) \subseteq OutTokens
  BY ReplyTaken
<1>2. toBroker \in Seq(BrokerBound)
  BY NowIs
<1>3. CASE toBroker' = toBroker
  BY <1>1, <1>3 DEF OutTokens
<1>4. CASE toBroker' = Append(toBroker, a)
  <2>1. /\ Single(Append(toBroker, a), Asks, toClient', Replies)
        /\ Tokens(Append(toBroker, a), Asks, toClient', Replies) = Tokens(toBroker, Asks, toClient', Replies)
    BY <1>1, <1>2, TokenSent
  <2> QED BY <1>1, <1>4, <2>1 DEF OutTokens
<1> QED BY <1>3, <1>4

LEMMA AckIs ==
    ASSUME NEW type, NEW id
    PROVE  Ack(type, id).type = type /\ Ack(type, id).id = id
  BY DEF Ack, Packet

LEMMA OutReceivePublish1 ==
    ASSUME Typed, OutFaults, OutSound, ReceivePublish1
    PROVE  OutSound'
<1> DEFINE p == Head(toClient)
           ack == Ack("PUBACK", p.id)
<1>1. Arrives("PUBLISH") /\ Take
  BY DEF ReceivePublish1
<1>2. b' = b /\ sent' = sent /\ asked' = asked /\ restarts' = restarts
  BY <1>1, TakeDoes
<1>3. /\ ack \in BrokerBound /\ OutFiles(disk') = OutFiles(disk) /\ toBroker' \in {toBroker, Append(toBroker, ack)}
      /\ (LinkSame(c, c') /\ OutSame(c, c')) \/ ("crash" \in Faults /\ c' = NewClient(0))
  BY ReceivePublish1Does
<1>4. ack.type \notin Asks
  BY AckIs DEF Asks
<1>5. OutCore
  BY DEF OutSound
<1> HIDE DEF ack
<1>6. Single(toBroker, Asks, toClient, Replies)' /\ OutTokens' \subseteq OutTokens
  BY <1>1, <1>3, <1>4, <1>5, InboundTaken
<1>7. \/ c'.running = c.running /\ OutSame(c, c')
      \/ "crash" \in Faults /\ c' = NewClient(0)
  BY <1>3 DEF LinkSame
<1> QED BY <1>2, <1>3, <1>6, <1>7, OutQuiet

LEMMA OutReceivePublish2 ==
    ASSUME Typed, OutFaults, OutSound, ReceivePublish2
    PROVE  OutSound'
<1> DEFINE p == Head(toClient)
           ack == Ack("PUBREC", p.id)
<1>1. Arrives("PUBLISH") /\ Take
  BY DEF ReceivePublish2
<1>2. b' = b /\ sent' = sent /\ asked' = asked /\ restarts' = restarts
  BY <1>1, TakeDoes
<1>3. /\ ack \in BrokerBound /\ OutFiles(disk') = OutFiles(disk) /\ toBroker' \in {toBroker, Append(toBroker, ack)}
      /\ (LinkSame(c, c') /\ OutSame(c, c')) \/ ("crash" \in Faults /\ c' = NewClient(0))
  BY ReceivePublish2Does
<1>4. ack.type \notin Asks
  BY AckIs DEF Asks
<1>5. OutCore
  BY DEF OutSound
<1> HIDE DEF ack
<1>6. Single(toBroker, Asks, toClient, Replies)' /\ OutTokens' \subseteq OutTokens
  BY <1>1, <1>3, <1>4, <1>5, InboundTaken
<1>7. \/ c'.running = c.running /\ OutSame(c, c')
      \/ "crash" \in Faults /\ c' = NewClient(0)
  BY <1>3 DEF LinkSame
<1> QED BY <1>2, <1>3, <1>6, <1>7, OutQuiet

LEMMA OutReceivePubrel ==
    ASSUME Typed, OutFaults, OutSound, ReceivePubrel
    PROVE  OutSound'
<1> DEFINE p == Head(toClient)
           ack == Ack("PUBCOMP", p.id)
<1>1. Arrives("PUBREL") /\ Take
  BY DEF ReceivePubrel
<1>2. b' = b /\ sent' = sent /\ asked' = asked /\ restarts' = restarts
  BY <1>1, TakeDoes
<1>3. /\ ack \in BrokerBound /\ OutFiles(disk') = OutFiles(disk) /\ toBroker' \in {toBroker, Append(toBroker, ack)}
      /\ c' = c \/ (LinkSame(c, c') /\ OutSame(c, c')) \/ ("crash" \in Faults /\ c' = NewClient(0))
  BY ReceivePubrelDoes
<1>4. ack.type \notin Asks
  BY AckIs DEF Asks
<1>5. OutCore
  BY DEF OutSound
<1> HIDE DEF ack
<1>6. Single(toBroker, Asks, toClient, Replies)' /\ OutTokens' \subseteq OutTokens
  BY <1>1, <1>3, <1>4, <1>5, InboundTaken
<1>7. \/ c'.running = c.running /\ OutSame(c, c')
      \/ "crash" \in Faults /\ c' = NewClient(0)
  BY <1>3 DEF LinkSame, OutSame
<1> QED BY <1>2, <1>3, <1>6, <1>7, OutQuiet

LEMMA OutLost ==
    ASSUME OutCore, toBroker' = toBroker, toClient' = <<>>
    PROVE  Single(toBroker, Asks, toClient, Replies)' /\ OutTokens' \subseteq OutTokens
  BY TokensLost DEF OutCore, OutTokens

LEMMA OutStays ==
    ASSUME OutCore, toBroker' = toBroker, toClient' = toClient
    PROVE  Single(toBroker, Asks, toClient, Replies)' /\ OutTokens' \subseteq OutTokens
  BY DEF OutCore, OutTokens

LEMMA OutPendingWrites ==
    ASSUME Typed, OutFaults, OutSound, PendingWrites
    PROVE  OutSound'
<1>1. /\ LinkSame([c EXCEPT !.connected = 0], c') /\ OutSame(c, c') /\ OutFiles(disk') = OutFiles(disk)
      /\ toBroker' = toBroker /\ toClient' = <<>> /\ b' = b /\ sent' = sent /\ asked' = asked /\ restarts' = restarts
  BY PendingWritesDoes
<1>2. c'.running = c.running /\ c'.connected = 0
  BY <1>1, NowIs DEF LinkSame, Clients
<1>3. OutCore
  BY DEF OutSound
<1>4. Single(toBroker, Asks, toClient, Replies)' /\ OutTokens' \subseteq OutTokens
  BY <1>1, <1>3, OutLost
<1> QED BY <1>1, <1>2, <1>4, OutQuiet

LEMMA OutBreak ==
    ASSUME Typed, OutFaults, OutSound, Break
    PROVE  OutSound'
<1>1. /\ LinkSame([c EXCEPT !.connected = 0], c') /\ OutSame(c, c') /\ disk' = disk
      /\ toBroker' = toBroker /\ toClient' = <<>> /\ b' = b /\ sent' = sent /\ asked' = asked /\ restarts' = restarts
  BY BreakDoes
<1>2. c'.running = c.running /\ c'.connected = 0
  BY <1>1, NowIs DEF LinkSame, Clients
<1>3. OutCore
  BY DEF OutSound
<1>4. Single(toBroker, Asks, toClient, Replies)' /\ OutTokens' \subseteq OutTokens
  BY <1>1, <1>3, OutLost
<1> QED BY <1>1, <1>2, <1>4, OutQuiet

LEMMA OutCrash ==
    ASSUME Typed, OutFaults, OutSound, Crash
    PROVE  OutSound'
<1>1. /\ "crash" \in Faults /\ c' = NewClient(0) /\ disk' = disk /\ toBroker' = toBroker /\ toClient' = toClient
      /\ b' = b /\ sent' = sent /\ asked' = asked /\ restarts' = restarts
  BY CrashDoes
<1>2. OutCore
  BY DEF OutSound
<1>3. Single(toBroker, Asks, toClient, Replies)' /\ OutTokens' \subseteq OutTokens
  BY <1>1, <1>2, OutStays
<1> QED BY <1>1, <1>3, OutQuiet

LEMMA OutFlushQueue ==
    ASSUME Typed, OutFaults, OutSound, FlushQueue
    PROVE  OutSound'
<1>1. /\ toBroker' = toBroker /\ OutFiles(disk') = OutFiles(disk) /\ toClient' = toClient
      /\ b' = b /\ sent' = sent /\ asked' = asked /\ restarts' = restarts
      /\ (LinkSame(c, c') /\ OutSame(c, c')) \/ ("crash" \in Faults /\ c' = NewClient(0))
  BY FlushQueueDoes
<1>2. OutCore
  BY DEF OutSound
<1>3. Single(toBroker, Asks, toClient, Replies)' /\ OutTokens' \subseteq OutTokens
  BY <1>1, <1>2, OutStays
<1>4. \/ c'.running = c.running /\ OutSame(c, c')
      \/ "crash" \in Faults /\ c' = NewClient(0)
  BY <1>1, <1>2 DEF LinkSame
<1> QED BY <1>1, <1>3, <1>4, OutQuiet

LEMMA OutFreedTwice ==
    ASSUME Typed, ProcessSound, OutFaults, OutSound, FreedTwice
    PROVE  OutSound'
<1>1. Arrives("PUBLISH") /\ Take
  BY DEF FreedTwice
<1>2. b' = b /\ sent' = sent /\ asked' = asked /\ restarts' = restarts
  BY <1>1, TakeDoes
<1>3. /\ c' = NewClient(0) /\ OutFiles(disk') = OutFiles(disk) /\ toBroker' = toBroker
      /\ \E x \in c.inboundMsgs : x.publish = "freed"
  BY FreedTwiceDoes
<1>4. "crash" \in Faults
  BY <1>3 DEF ProcessSound
<1>5. OutCore
  BY DEF OutSound
<1>6. /\ Single(toBroker, Asks, toClient', Replies) /\ Tokens(toBroker, Asks, toClient', Replies) \subseteq OutTokens
  BY <1>1, <1>5, ReplyTaken
<1>7. Single(toBroker, Asks, toClient, Replies)' /\ OutTokens' \subseteq OutTokens
  BY <1>3, <1>6 DEF OutTokens
<1> QED BY <1>2, <1>3, <1>4, <1>7, OutQuiet

\* An element is added to a queue whose ids differ.
Distinct(q) == \A i, j \in DOMAIN q : q[i].id = q[j].id => i = j
NoneHas(q, id) == \A i \in DOMAIN q : q[i].id # id

LEMMA QueueLonger ==
    ASSUME NEW S, NEW q \in Seq(S), NEW k \in S, Distinct(q), NoneHas(q, k.id)
    PROVE  LET r == Append(q, k)
           IN  /\ ToSet(r) = ToSet(q) \cup {k}
               /\ \A i, j \in DOMAIN r : r[i].id = r[j].id => i = j
               /\ \A i \in DOMAIN r : r[i] = k \/ (i \in DOMAIN q /\ r[i] = q[i])
               /\ \A i \in DOMAIN q : i \in DOMAIN r /\ r[i] = q[i]
               /\ \E i \in DOMAIN r : r[i] = k
<1> DEFINE r == Append(q, k)
           n == Len(q)
<1>1. /\ ToSet(r) = ToSet(q) \cup {k} /\ DOMAIN q = 1..n /\ n \in Nat
      /\ DOMAIN r = 1..(n + 1) /\ r[n + 1] = k /\ \A i \in 1..n : r[i] = q[i]
  BY Longer
<1> HIDE DEF r, n
<1>2. \A i \in 1..(n + 1) : i = n + 1 \/ i \in 1..n
  BY <1>1
<1>3. \A i \in 1..n : i \in 1..(n + 1)
  BY <1>1
<1>4. n + 1 \in 1..(n + 1)
  BY <1>1
<1>5. \A i, j \in DOMAIN r : r[i].id = r[j].id => i = j
  BY <1>1, <1>2 DEF Distinct, NoneHas
<1> QED BY <1>1, <1>2, <1>3, <1>4, <1>5 DEF r

LEMMA OutPublish ==
    ASSUME Typed, ProcessSound, OutFaults, OutSound, NEW m \in Outbound, Publish(m)
    PROVE  OutSound'
<1> DEFINE n == c.command_seqno + Persistence
           id == NextId
           k == [seqno |-> n, id |-> id, msg |-> m]
           f == CommandFile(n, id, m)
           E == Ongoing(c, disk)
           K == Commanded(c, disk)
<1>1. /\ id \in Ids /\ id \notin IdsInUse /\ n \in Nat /\ (restarts = 0 \/ "resume" \in Faults)
      /\ c'.commands = Append(c.commands, k) /\ c'.command_seqno = n /\ c'.outboundMsgs = c.outboundMsgs
      /\ c'.responses = c.responses /\ LinkSame(c, c') /\ c.connected = 1
      /\ disk' = Stored(disk, f) /\ toBroker' = toBroker /\ toClient' = toClient /\ b' = b /\ sent' = sent
      /\ restarts' = restarts /\ asked' = asked \cup {m} /\ m \notin asked
  BY PublishDoes
<1>2. c.running = 1 /\ restarts = 0
  BY <1>1 DEF ProcessSound, OutFaults
<1>3. MemorySound(c, disk) /\ FirstSound(c, disk)
  BY <1>2 DEF OutSound, OutMemory
<1>4. c \in Clients /\ disk \in Disks /\ c.commands \in Seq(Commands) /\ c.command_seqno \in Nat
  BY NowIs, FieldsOf
<1>5. /\ \A i \in DOMAIN c.commands : c.commands[i].id # id
      /\ \A r \in c.responses : r.id # id
  BY <1>1 DEF IdsInUse
<1> HIDE DEF id
<1>6. k \in Commands /\ k.id = id /\ k.msg = m /\ k.seqno = n
  BY <1>1 DEF Commands
<1>7. f.id = id /\ f.msg = m /\ f.n = n /\ f.key = "c"
  BY DEF CommandFile, File
<1>8. \A x \in E \cup K : x.id # id
  BY <1>3, <1>5 DEF FirstSound
<1> HIDE DEF k, n
<1>9. LET r == c'.commands
      IN  /\ ToSet(r) = ToSet(c.commands) \cup {k}
          /\ \A i, j \in DOMAIN r : r[i].id = r[j].id => i = j
          /\ \A i \in DOMAIN r : r[i] = k \/ (i \in DOMAIN c.commands /\ r[i] = c.commands[i])
          /\ \A i \in DOMAIN c.commands : i \in DOMAIN r /\ r[i] = c.commands[i]
          /\ \E i \in DOMAIN r : r[i] = k
  <2>1. Distinct(c.commands)
    BY <1>3 DEF MemorySound, Distinct
  <2>2. NoneHas(c.commands, k.id)
    BY <1>5, <1>6 DEF NoneHas
  <2> QED BY <1>1, <1>4, <1>6, <2>1, <2>2, QueueLonger
<1>10. OutInv(E, K, OutTokens, b.in, sent, asked)
  BY DEF OutSound, OutCore
<1>11. CASE Persistence = 1
  <2>1. \A g \in Named(disk, "c") : g.n # n
    <3>1. \A g \in Named(disk, "c") : g.n \in Nat /\ g.n <= c.command_seqno
      BY <1>3, <1>4, <1>11, NamedIs DEF FirstSound
    <3>2. n = c.command_seqno + 1
      BY <1>11 DEF n
    <3> QED BY <1>4, <3>1, <3>2
  <2>2. /\ Named(disk', "c") = Named(disk, "c") \cup {f}
        /\ Entries(disk') = Entries(disk) /\ (RelSound(disk) => RelSound(disk'))
    BY <1>1, <1>4, <1>11, <2>1, CommandStored
  <2>3. /\ E = Entries(disk) /\ K = Named(disk, "c")
        /\ Ongoing(c', disk') = Entries(disk') /\ Commanded(c', disk') = Named(disk', "c")
    BY <1>11, OnDisk
  <2> HIDE DEF E, K, f
  <2>4. Ongoing(c', disk') = E /\ Commanded(c', disk') = K \cup {f}
    BY <2>2, <2>3
  <2>5. OutInv(E, K \cup {f}, OutTokens, b.in, sent, asked \cup {m})
    BY <1>1, <1>7, <1>8, <1>10, OutAsked
  <2>6. OutCore'
    BY <1>1, <2>4, <2>5 DEF OutCore, OutSound, OutTokens
  <2>7. \A i \in DOMAIN c'.commands :
           CommandFile(c'.commands[i].seqno, c'.commands[i].id, c'.commands[i].msg) \in disk'
    <3> SUFFICES ASSUME NEW i \in DOMAIN c'.commands
                 PROVE  CommandFile(c'.commands[i].seqno, c'.commands[i].id, c'.commands[i].msg) \in disk'
      OBVIOUS
    <3>1. CASE c'.commands[i] = k
      BY <1>6, <2>2, <3>1 DEF Named, f
    <3>2. CASE i \in DOMAIN c.commands /\ c'.commands[i] = c.commands[i]
      <4> DEFINE g == CommandFile(c.commands[i].seqno, c.commands[i].id, c.commands[i].msg)
      <4>1. g \in disk /\ g.key = "c"
        BY <1>3, <1>11, <3>2, FileKeys DEF MemorySound
      <4>2. g \in disk'
        <5> HIDE DEF g
        <5> QED BY <2>2, <4>1 DEF Named
      <4> QED BY <3>2, <4>2
    <3> QED BY <1>9, <3>1, <3>2
  <2>8. MemorySound(c', disk')
    BY <1>1, <1>3, <1>9, <1>11, <2>2, <2>7 DEF MemorySound
  <2>9. FirstSound(c', disk')
    <3>1. \A e \in Ongoing(c', disk') : \E r \in c'.responses : r.id = e.id
      BY <1>1, <1>3, <2>4 DEF FirstSound, E
    <3>2. \A x \in Commanded(c', disk') : \E i \in DOMAIN c'.commands : c'.commands[i].id = x.id
      BY <1>3, <1>6, <1>7, <1>9, <2>4 DEF FirstSound, K
    <3>3. \A g \in Named(disk', "c") : g.n <= c'.command_seqno
      <4>1. \A g \in Named(disk, "c") : g.n \in Nat /\ g.n <= c.command_seqno
        BY <1>3, <1>4, <1>11, NamedIs DEF FirstSound
      <4>2. n = c.command_seqno + 1
        BY <1>11 DEF n
      <4>3. \A g \in Named(disk, "c") : g.n <= n
        BY <1>4, <4>1, <4>2
      <4> QED BY <1>1, <1>7, <2>2, <4>3
    <3> QED BY <3>1, <3>2, <3>3 DEF FirstSound
  <2> QED BY <2>6, <2>8, <2>9 DEF OutSound, OutMemory
<1>12. CASE Persistence # 1
  <2>1. /\ E = ToSet(c.outboundMsgs) /\ K = ToSet(c.commands)
        /\ Ongoing(c', disk') = ToSet(c'.outboundMsgs) /\ Commanded(c', disk') = ToSet(c'.commands)
    BY <1>12, OnlyInMemory
  <2> HIDE DEF E, K
  <2>2. Ongoing(c', disk') = E /\ Commanded(c', disk') = K \cup {k}
    BY <1>1, <1>9, <2>1
  <2>3. OutInv(E, K \cup {k}, OutTokens, b.in, sent, asked \cup {m})
    BY <1>1, <1>6, <1>8, <1>10, OutAsked
  <2>4. OutCore'
    BY <1>1, <2>2, <2>3 DEF OutCore, OutSound, OutTokens
  <2>5. MemorySound(c', disk')
    BY <1>1, <1>3, <1>9, <1>12 DEF MemorySound
  <2>6. FirstSound(c', disk')
    <3>1. \A e \in Ongoing(c', disk') : \E r \in c'.responses : r.id = e.id
      BY <1>1, <1>3, <2>2 DEF FirstSound, E
    <3>2. \A x \in Commanded(c', disk') : \E i \in DOMAIN c'.commands : c'.commands[i].id = x.id
      BY <1>3, <1>6, <1>9, <2>2 DEF FirstSound, K
    <3> QED BY <1>12, <3>1, <3>2 DEF FirstSound
  <2> QED BY <2>4, <2>5, <2>6 DEF OutSound, OutMemory
<1> QED BY <1>11, <1>12

\* And the first is taken.
LEMMA QueueShorter ==
    ASSUME NEW S, NEW q \in Seq(S), q # <<>>, \A i, j \in DOMAIN q : q[i].id = q[j].id => i = j
    PROVE  LET r == Tail(q)
           IN  /\ Head(q) \in S /\ 1 \in DOMAIN q /\ q[1] = Head(q)
               /\ ToSet(r) = ToSet(q) \ {Head(q)}
               /\ \A i, j \in DOMAIN r : r[i].id = r[j].id => i = j
               /\ \A i \in DOMAIN r : \E j \in DOMAIN q : r[i] = q[j] /\ q[j].id # Head(q).id
               /\ \A j \in DOMAIN q : q[j] = Head(q) \/ \E i \in DOMAIN r : r[i] = q[j]
<1> DEFINE r == Tail(q)
           h == Head(q)
           n == Len(q)
<1>1. /\ h \in S /\ ToSet(q) = ToSet(r) \cup {h} /\ DOMAIN q = 1..n /\ n \in Nat \ {0} /\ DOMAIN r = 1..(n - 1)
      /\ q[1] = h /\ \A i \in 1..(n - 1) : r[i] = q[i + 1]
  BY TailOf
<1> HIDE DEF r, h, n
<1>2. 1 \in 1..n
  BY <1>1
<1>3. \A i \in 1..(n - 1) : \E j \in 1..n : j = i + 1 /\ j # 1 /\ r[i] = q[j]
  BY <1>1
<1>4. \A j \in 1..n : j = 1 \/ \E i \in 1..(n - 1) : r[i] = q[j]
  <2> SUFFICES ASSUME NEW j \in 1..n, j # 1 PROVE \E i \in 1..(n - 1) : r[i] = q[j]
    OBVIOUS
  <2>1. PICK i \in 1..(n - 1) : i + 1 = j
    <3>1. j - 1 \in 1..(n - 1) /\ (j - 1) + 1 = j
      BY <1>1
    <3> QED BY <3>1
  <2> QED BY <1>1, <2>1
<1>5. ASSUME NEW i \in 1..(n - 1), NEW j \in 1..(n - 1), r[i].id = r[j].id
      PROVE  i = j
  <2>1. PICK k \in 1..n : k = i + 1 /\ r[i] = q[k]
    BY <1>3
  <2>2. PICK l \in 1..n : l = j + 1 /\ r[j] = q[l]
    BY <1>3
  <2>3. k = l
    BY <1>1, <1>5, <2>1, <2>2
  <2> QED BY <1>1, <2>1, <2>2, <2>3
<1>6. \A i \in 1..(n - 1) : \E j \in 1..n : r[i] = q[j] /\ q[j].id # h.id
  <2> TAKE i \in 1..(n - 1)
  <2>1. PICK j \in 1..n : j = i + 1 /\ j # 1 /\ r[i] = q[j]
    BY <1>3
  <2>2. q[j].id # h.id
    BY <1>1, <1>2, <2>1
  <2> QED BY <2>1, <2>2
<1>7. h \notin ToSet(r)
  BY <1>1, <1>6 DEF ToSet
<1>8. ToSet(r) = ToSet(q) \ {h}
  BY <1>1, <1>7
<1>9. \A i, j \in DOMAIN r : r[i].id = r[j].id => i = j
  BY <1>1, <1>5
<1>10. \A i \in DOMAIN r : \E j \in DOMAIN q : r[i] = q[j] /\ q[j].id # h.id
  BY <1>1, <1>6
<1>11. \A j \in DOMAIN q : q[j] = h \/ \E i \in DOMAIN r : r[i] = q[j]
  BY <1>1, <1>4
<1>12. h \in S /\ 1 \in DOMAIN q /\ q[1] = h
  BY <1>1, <1>2
<1> QED BY <1>8, <1>9, <1>10, <1>11, <1>12 DEF r, h

LEMMA OutProcessCommand ==
    ASSUME Typed, ProcessSound, OutFaults, OutSound, ProcessCommand
    PROVE  OutSound'
<1> DEFINE cmd == Head(c.commands)
           gone == Unlinked(disk, "c", cmd.seqno)
           stored == Stored(gone, PublishSent(cmd.id, cmd.msg))
           p == Packet("PUBLISH", cmd.id, cmd.msg, 0)
           e == InFlightFor(cmd)
           f == CommandFile(cmd.seqno, cmd.id, cmd.msg)
           E == Ongoing(c, disk)
           K == Commanded(c, disk)
<1>1. /\ c.connected = 1 /\ c.commands # <<>> /\ cmd \in Commands
      /\ \/ /\ c'.commands = Tail(c.commands) /\ c'.command_seqno = c.command_seqno
            /\ c'.outboundMsgs = Append(c.outboundMsgs, e)
            /\ c'.responses = c.responses \cup {[id |-> cmd.id, msg |-> cmd.msg]}
            /\ e \in OutEntries /\ LinkSame(c, c') /\ disk' = stored
            /\ toBroker' = Append(toBroker, p) /\ p \in BrokerBound
         \/ /\ "crash" \in Faults /\ c' = NewClient(0) /\ disk' \in {gone, stored} /\ toBroker' = toBroker
      /\ toClient' = toClient /\ b' = b /\ sent' = sent /\ restarts' = restarts /\ asked' = asked
  BY ProcessCommandDoes
<1>2. c.running = 1
  BY <1>1 DEF ProcessSound
<1>3. MemorySound(c, disk) /\ (restarts = 0 => FirstSound(c, disk))
  BY <1>2 DEF OutSound, OutMemory
<1>4. /\ c \in Clients /\ disk \in Disks /\ c.commands \in Seq(Commands) /\ c.outboundMsgs \in Seq(OutEntries)
      /\ toBroker \in Seq(BrokerBound)
  BY NowIs, FieldsOf
<1>5. cmd.id \in Ids /\ cmd.msg \in Outbound
  BY <1>1 DEF Commands
<1>6. LET r == Tail(c.commands)
      IN  /\ 1 \in DOMAIN c.commands /\ c.commands[1] = cmd
          /\ ToSet(r) = ToSet(c.commands) \ {cmd}
          /\ \A i, j \in DOMAIN r : r[i].id = r[j].id => i = j
          /\ \A i \in DOMAIN r : \E j \in DOMAIN c.commands : r[i] = c.commands[j] /\ c.commands[j].id # cmd.id
          /\ \A j \in DOMAIN c.commands : c.commands[j] = cmd \/ \E i \in DOMAIN r : r[i] = c.commands[j]
  <2>1. \A i, j \in DOMAIN c.commands : c.commands[i].id = c.commands[j].id => i = j
    BY <1>3 DEF MemorySound
  <2> QED BY <1>1, <1>4, <2>1, QueueShorter
<1> HIDE DEF cmd
<1>7. e.id = cmd.id /\ e.msg = cmd.msg /\ e.next = FirstAnswer(cmd.msg)
  BY DEF InFlightFor
<1>8. f.id = cmd.id /\ f.msg = cmd.msg /\ f.n = cmd.seqno /\ f.key = "c"
  BY DEF CommandFile, File
<1>9. p.type = "PUBLISH" /\ p.id = cmd.id /\ p.msg = cmd.msg /\ p.type \in Asks
  BY DEF Packet, Asks
<1>10. OutInv(E, K, OutTokens, b.in, sent, asked) /\ Single(toBroker, Asks, toClient, Replies)
  BY DEF OutSound, OutCore
<1>11. \A k \in K : k.id = cmd.id /\ k.msg = cmd.msg =>
          /\ OutInv(E, K \ {k}, OutTokens, b.in, sent, asked)
          /\ OutInv(E \cup {e}, K \ {k}, OutTokens, b.in, sent, asked)
          /\ OutInv(E \cup {e}, K \ {k}, OutTokens \cup {p}, b.in, sent, asked)
          /\ \A t \in OutTokens : t.id # p.id
          /\ \A x \in E : x.id # cmd.id
  <2> SUFFICES ASSUME NEW k \in K, k.id = cmd.id, k.msg = cmd.msg
               PROVE  /\ OutInv(E, K \ {k}, OutTokens, b.in, sent, asked)
                      /\ OutInv(E \cup {e}, K \ {k}, OutTokens, b.in, sent, asked)
                      /\ OutInv(E \cup {e}, K \ {k}, OutTokens \cup {p}, b.in, sent, asked)
                      /\ \A t \in OutTokens : t.id # p.id
                      /\ \A x \in E : x.id # cmd.id
    OBVIOUS
  <2>0. Begins(k, e, p)
    BY <1>7, <1>9 DEF Begins
  <2> HIDE DEF E, K, e, p
  <2>1. OutInv(E, K \ {k}, OutTokens, b.in, sent, asked)
    BY <1>10, OutTaken
  <2>2. /\ OutInv(E \cup {e}, K \ {k}, OutTokens, b.in, sent, asked)
        /\ OutInv(E \cup {e}, K \ {k}, OutTokens \cup {p}, b.in, sent, asked)
        /\ \A t \in OutTokens : t.id # p.id
    <3>1. Begun(E, K, OutTokens, b.in, sent, asked, k, e, p)
      BY <1>10, <2>0, OutBegun
    <3> QED BY <3>1 DEF Begun
  <2>3. \A x \in E : x.id # cmd.id
    BY <1>10 DEF OutInv
  <2> QED BY <2>1, <2>2, <2>3
<1>12. ASSUME \A t \in OutTokens : t.id # p.id, toBroker' = Append(toBroker, p), p \in BrokerBound
       PROVE  Single(toBroker, Asks, toClient, Replies)' /\ OutTokens' = OutTokens \cup {p}
  <2> HIDE DEF p
  <2>1. /\ Single(Append(toBroker, p), Asks, toClient, Replies)
        /\ Tokens(Append(toBroker, p), Asks, toClient, Replies) = Tokens(toBroker, Asks, toClient, Replies) \cup {p}
    BY <1>4, <1>9, <1>10, <1>12, TokenSent DEF OutTokens
  <2> QED BY <1>1, <1>12, <2>1 DEF OutTokens
<1>13. ASSUME \A x \in Ongoing(c, disk) : x.id # cmd.id, c'.outboundMsgs = Append(c.outboundMsgs, e), e \in OutEntries,
              ToSet(c.outboundMsgs) = Ongoing(c, disk)
       PROVE  /\ ToSet(c'.outboundMsgs) = ToSet(c.outboundMsgs) \cup {e}
              /\ \A i, j \in DOMAIN c'.outboundMsgs : c'.outboundMsgs[i].id = c'.outboundMsgs[j].id => i = j
  <2> HIDE DEF e
  <2>1. Distinct(c.outboundMsgs)
    BY <1>3 DEF MemorySound, Distinct
  <2>2. NoneHas(c.outboundMsgs, e.id)
    <3>1. \A i \in DOMAIN c.outboundMsgs : c.outboundMsgs[i] \in Ongoing(c, disk)
      BY <1>13 DEF ToSet
    <3> QED BY <1>7, <1>13, <3>1 DEF NoneHas
  <2>3. LET r == c'.outboundMsgs
        IN  /\ ToSet(r) = ToSet(c.outboundMsgs) \cup {e}
            /\ \A i, j \in DOMAIN r : r[i].id = r[j].id => i = j
            /\ \A i \in DOMAIN r : r[i] = e \/ (i \in DOMAIN c.outboundMsgs /\ r[i] = c.outboundMsgs[i])
            /\ \A i \in DOMAIN c.outboundMsgs : i \in DOMAIN r /\ r[i] = c.outboundMsgs[i]
            /\ \E i \in DOMAIN r : r[i] = e
    <3>1. c.outboundMsgs \in Seq(OutEntries) /\ e \in OutEntries
      BY <1>4, <1>13
    <3>2. c'.outboundMsgs = Append(c.outboundMsgs, e)
      BY <1>13
    <3> QED BY <2>1, <2>2, <3>1, <3>2, QueueLonger
  <2> QED BY <1>13, <2>3
<1>14. ASSUME c'.responses = c.responses \cup {[id |-> cmd.id, msg |-> cmd.msg]}, Ongoing(c', disk') = E \cup {e},
              c'.commands = Tail(c.commands), c'.command_seqno = c.command_seqno, FirstSound(c, disk),
              \A x \in Commanded(c', disk') : x \in K /\ x.id # cmd.id,
              Named(disk', "c") \subseteq Named(disk, "c")
       PROVE  FirstSound(c', disk')
  <2>1. \A x \in Ongoing(c', disk') : \E r \in c'.responses : r.id = x.id
    <3>1. \A x \in E : \E r \in c'.responses : r.id = x.id
      BY <1>14 DEF FirstSound
    <3>2. \E r \in c'.responses : r.id = e.id
      <4> DEFINE r == [id |-> cmd.id, msg |-> cmd.msg]
      <4>1. r \in c'.responses /\ r.id = cmd.id
        BY <1>14
      <4> QED BY <1>7, <4>1
    <3> HIDE DEF E, e
    <3> QED BY <1>14, <3>1, <3>2
  <2>2. \A x \in Commanded(c', disk') : \E i \in DOMAIN c'.commands : c'.commands[i].id = x.id
    <3> SUFFICES ASSUME NEW x \in Commanded(c', disk') PROVE \E i \in DOMAIN c'.commands : c'.commands[i].id = x.id
      OBVIOUS
    <3>1. x \in K /\ x.id # cmd.id
      BY <1>14
    <3>2. PICK j \in DOMAIN c.commands : c.commands[j].id = x.id
      BY <1>14, <3>1 DEF FirstSound
    <3> QED BY <1>6, <1>14, <3>1, <3>2
  <2> QED BY <1>14, <2>1, <2>2 DEF FirstSound
<1>15. CASE Persistence = 1
  <2>1. f \in Named(disk, "c")
    <3>1. f \in disk
      BY <1>3, <1>6, <1>15 DEF MemorySound
    <3> QED BY <1>8, <3>1 DEF Named
  <2>2. E = Entries(disk) /\ K = Named(disk, "c") /\ E = ToSet(c.outboundMsgs) /\ RelSound(disk)
    BY <1>3, <1>15, OnDisk DEF MemorySound
  <2>3. /\ Ongoing(c', disk') = Entries(disk') /\ Commanded(c', disk') = Named(disk', "c")
    BY <1>15, OnDisk
  <2>4. gone \in Disks /\ Named(gone, "c") = K \ {f} /\ Entries(gone) = E /\ RelSound(gone)
    <3>1. PublishSent(cmd.id, cmd.msg) \in FileSet
      BY <1>5, FileTyped
    <3>2. gone \in Disks
      BY <1>4, <3>1, StoredTyped
    <3>3. Named(gone, "c") = {g \in Named(disk, "c") : g.n # cmd.seqno} /\ Entries(gone) = E /\ RelSound(gone)
      BY <1>4, <2>2, CommandUnlinked
    <3>4. \A g \in Named(disk, "c") : g.n = f.n => g = f
      BY <1>4, <2>1, NamedIs
    <3> QED BY <1>8, <2>1, <2>2, <3>2, <3>3, <3>4
  <2>5. f \in K
    BY <2>1, <2>2
  <2> HIDE DEF gone
  <2>6. /\ OutInv(E, K \ {f}, OutTokens, b.in, sent, asked)
        /\ OutInv(E \cup {e}, K \ {f}, OutTokens, b.in, sent, asked)
        /\ OutInv(E \cup {e}, K \ {f}, OutTokens \cup {p}, b.in, sent, asked)
        /\ \A t \in OutTokens : t.id # p.id
        /\ \A x \in E : x.id # cmd.id
    BY <1>8, <1>11, <2>5
  <2>7. Named(stored, "c") = K \ {f} /\ Entries(stored) = E \cup {e} /\ RelSound(stored)
    <3>1. /\ Named(stored, "c") = Named(gone, "c")
          /\ Entries(stored) = Entries(gone) \cup {[id |-> cmd.id, msg |-> cmd.msg, next |-> FirstAnswer(cmd.msg)]}
          /\ RelSound(stored)
      BY <1>15, <2>4, <2>6, PublishStored
    <3> QED BY <2>4, <3>1 DEF InFlightFor
  <2>8. \A g \in K \ {f} : g.id # cmd.id
    BY <1>8, <1>10, <2>5 DEF OutInv
  <2> HIDE DEF stored
  <2>9. CASE /\ c'.commands = Tail(c.commands) /\ c'.command_seqno = c.command_seqno
             /\ c'.outboundMsgs = Append(c.outboundMsgs, e)
             /\ c'.responses = c.responses \cup {[id |-> cmd.id, msg |-> cmd.msg]}
             /\ e \in OutEntries /\ LinkSame(c, c') /\ disk' = stored
             /\ toBroker' = Append(toBroker, p) /\ p \in BrokerBound
    <3>1. Ongoing(c', disk') = E \cup {e} /\ Commanded(c', disk') = K \ {f}
      BY <2>3, <2>7, <2>9
    <3>2. Single(toBroker, Asks, toClient, Replies)' /\ OutTokens' = OutTokens \cup {p}
      BY <1>12, <2>6, <2>9
    <3>3. OutCore'
      BY <1>1, <2>6, <3>1, <3>2 DEF OutCore
    <3>4. /\ ToSet(c'.outboundMsgs) = ToSet(c.outboundMsgs) \cup {e}
          /\ \A i, j \in DOMAIN c'.outboundMsgs : c'.outboundMsgs[i].id = c'.outboundMsgs[j].id => i = j
      BY <1>13, <2>2, <2>6, <2>9
    <3>5. \A i \in DOMAIN c'.commands :
             CommandFile(c'.commands[i].seqno, c'.commands[i].id, c'.commands[i].msg) \in disk'
      <4> SUFFICES ASSUME NEW i \in DOMAIN c'.commands
                   PROVE  CommandFile(c'.commands[i].seqno, c'.commands[i].id, c'.commands[i].msg) \in disk'
        OBVIOUS
      <4>1. PICK j \in DOMAIN c.commands : c'.commands[i] = c.commands[j] /\ c.commands[j].id # cmd.id
        BY <1>6, <2>9
      <4> DEFINE g == CommandFile(c.commands[j].seqno, c.commands[j].id, c.commands[j].msg)
      <4>2. g \in disk
        BY <1>3, <1>15 DEF MemorySound
      <4>3. g.key = "c" /\ g.id = c.commands[j].id
        BY DEF CommandFile, File
      <4> HIDE DEF g
      <4>4. g \in K /\ g # f
        BY <1>8, <2>2, <4>1, <4>2, <4>3 DEF Named
      <4>5. g \in disk'
        BY <2>7, <2>9, <4>4 DEF Named
      <4> QED BY <4>1, <4>5 DEF g
    <3>6. \A i, j \in DOMAIN c'.commands : c'.commands[i].id = c'.commands[j].id => i = j
      BY <1>6, <2>9
    <3>7. MemorySound(c', disk')
      BY <2>2, <2>7, <2>9, <3>4, <3>5, <3>6 DEF MemorySound
    <3>8. restarts' = 0 => FirstSound(c', disk')
      <4>1. \A x \in Commanded(c', disk') : x \in K /\ x.id # cmd.id
        BY <2>8, <3>1
      <4>2. Named(disk', "c") \subseteq Named(disk, "c")
        BY <2>2, <2>7, <2>9
      <4> QED BY <1>1, <1>3, <1>14, <2>9, <3>1, <4>1, <4>2
    <3> QED BY <3>3, <3>7, <3>8 DEF OutSound, OutMemory
  <2>10. CASE "crash" \in Faults /\ c' = NewClient(0) /\ disk' \in {gone, stored} /\ toBroker' = toBroker
    <3>1. Single(toBroker, Asks, toClient, Replies)' /\ OutTokens' = OutTokens
      BY <1>1, <1>10, <2>10 DEF OutTokens
    <3>2. OutInv(Entries(disk'), Named(disk', "c"), OutTokens, b.in, sent, asked)
      BY <2>4, <2>6, <2>7, <2>10
    <3>3. OutCore'
      BY <1>1, <2>3, <3>1, <3>2 DEF OutCore
    <3> QED BY <2>10, <3>3, OutDied
  <2> QED BY <1>1, <2>9, <2>10 DEF gone, stored
<1>16. CASE Persistence # 1
  <2>1. "crash" \notin Faults
    BY <1>16 DEF OutFaults
  <2>2. /\ c'.commands = Tail(c.commands) /\ c'.command_seqno = c.command_seqno
        /\ c'.outboundMsgs = Append(c.outboundMsgs, e)
        /\ c'.responses = c.responses \cup {[id |-> cmd.id, msg |-> cmd.msg]}
        /\ e \in OutEntries /\ disk' = stored
        /\ toBroker' = Append(toBroker, p) /\ p \in BrokerBound
    BY <1>1, <2>1
  <2>3. /\ E = ToSet(c.outboundMsgs) /\ K = ToSet(c.commands)
        /\ Ongoing(c', disk') = ToSet(c'.outboundMsgs) /\ Commanded(c', disk') = ToSet(c'.commands)
    BY <1>16, OnlyInMemory
  <2>4. cmd \in K
    BY <1>6, <2>3 DEF ToSet
  <2>5. /\ OutInv(E \cup {e}, K \ {cmd}, OutTokens \cup {p}, b.in, sent, asked)
        /\ \A t \in OutTokens : t.id # p.id
        /\ \A x \in E : x.id # cmd.id
    BY <1>11, <2>4
  <2>6. /\ ToSet(c'.outboundMsgs) = ToSet(c.outboundMsgs) \cup {e}
        /\ \A i, j \in DOMAIN c'.outboundMsgs : c'.outboundMsgs[i].id = c'.outboundMsgs[j].id => i = j
    BY <1>13, <2>2, <2>3, <2>5
  <2>7. Ongoing(c', disk') = E \cup {e} /\ Commanded(c', disk') = K \ {cmd}
    BY <1>6, <2>2, <2>3, <2>6
  <2>8. Single(toBroker, Asks, toClient, Replies)' /\ OutTokens' = OutTokens \cup {p}
    BY <1>12, <2>2, <2>5
  <2>9. OutCore'
    BY <1>1, <2>5, <2>7, <2>8 DEF OutCore
  <2>10. MemorySound(c', disk')
    BY <1>6, <1>16, <2>2, <2>6 DEF MemorySound
  <2>11. restarts' = 0 => FirstSound(c', disk')
    <3>1. \A x \in Commanded(c', disk') : x \in K /\ x.id # cmd.id
      BY <1>10, <2>4, <2>7 DEF OutInv
    <3>2. Named(disk', "c") \subseteq Named(disk, "c")
      <4>1. disk' = gone
        BY <1>16, <2>2 DEF Stored
      <4> QED BY <4>1 DEF Named, Unlinked
    <3> QED BY <1>1, <1>3, <1>14, <2>2, <2>7, <3>1, <3>2
  <2> QED BY <2>9, <2>10, <2>11 DEF OutSound, OutMemory
<1> QED BY <1>15, <1>16

LEMMA QueueWithout ==
    ASSUME NEW S, NEW q \in Seq(S), NEW i \in DOMAIN q, Distinct(q)
    PROVE  LET r == RemoveAt(q, i)
           IN  ToSet(r) = ToSet(q) \ {q[i]} /\ Distinct(r)
<1> DEFINE r == RemoveAt(q, i)
           n == Len(q)
<1>1. /\ DOMAIN r = 1..(n - 1) /\ \A j \in 1..(n - 1) : r[j] = IF j < i THEN q[j] ELSE q[j + 1]
      /\ ToSet(r) = {q[j] : j \in DOMAIN q \ {i}}
  BY Without
<1>2. DOMAIN q = 1..n /\ n \in Nat
  BY Members
<1> HIDE DEF r, n
<1>3. \A j \in 1..(n - 1) : \E k \in 1..n : r[j] = q[k] /\ k = IF j < i THEN j ELSE j + 1
  BY <1>1, <1>2
<1>4. ASSUME NEW j \in 1..(n - 1), NEW l \in 1..(n - 1), r[j].id = r[l].id PROVE j = l
  <2>1. PICK k \in 1..n : r[j] = q[k] /\ k = IF j < i THEN j ELSE j + 1
    BY <1>3
  <2>2. PICK m \in 1..n : r[l] = q[m] /\ m = IF l < i THEN l ELSE l + 1
    BY <1>3
  <2>3. k = m
    BY <1>2, <1>4, <2>1, <2>2 DEF Distinct
  <2> QED BY <1>2, <2>1, <2>2, <2>3
<1>5. Distinct(r)
  BY <1>1, <1>4 DEF Distinct
<1>6. \A j \in DOMAIN q \ {i} : q[j] # q[i]
  BY DEF Distinct
<1>7. ToSet(r) = ToSet(q) \ {q[i]}
  <2>1. ToSet(q) = {q[j] : j \in DOMAIN q}
    BY DEF ToSet
  <2> QED BY <1>1, <1>6, <2>1
<1> QED BY <1>5, <1>7 DEF r

LEMMA QueueChanged ==
    ASSUME NEW S, NEW q \in Seq(S), NEW i \in DOMAIN q, Distinct(q), NEW e, e.id = q[i].id
    PROVE  LET r == [q EXCEPT ![i] = e]
           IN  ToSet(r) = (ToSet(q) \ {q[i]}) \cup {e} /\ Distinct(r)
<1> DEFINE r == [q EXCEPT ![i] = e]
<1>1. DOMAIN r = DOMAIN q /\ r[i] = e /\ \A j \in DOMAIN q : j # i => r[j] = q[j]
  OBVIOUS
<1> HIDE DEF r
<1>2. Distinct(r)
  BY <1>1 DEF Distinct
<1>3. \A j \in DOMAIN q : j # i => q[j] # q[i]
  BY DEF Distinct
<1>4. ToSet(r) = (ToSet(q) \ {q[i]}) \cup {e}
  BY <1>1, <1>3 DEF ToSet
<1> QED BY <1>2, <1>4 DEF r

\* What is in flight is in outboundMsgs, where its id finds it.
LEMMA OngoingIs ==
    ASSUME Typed, MemorySound(c, disk)
    PROVE  /\ Ongoing(c, disk) = ToSet(c.outboundMsgs) /\ Distinct(c.outboundMsgs)
           /\ \A x \in Ongoing(c, disk) :
                 Outgoing(x.id) \in DOMAIN c.outboundMsgs /\ Outgoing(x.id) # 0 /\ c.outboundMsgs[Outgoing(x.id)] = x
<1>1. Ongoing(c, disk) = ToSet(c.outboundMsgs) /\ Distinct(c.outboundMsgs)
  BY DEF MemorySound, Ongoing, Distinct
<1>2. ASSUME NEW i \in DOMAIN c.outboundMsgs
      PROVE  LET x == c.outboundMsgs[i]
             IN  Outgoing(x.id) \in DOMAIN c.outboundMsgs /\ Outgoing(x.id) # 0 /\ c.outboundMsgs[Outgoing(x.id)] = x
  <2> DEFINE id == c.outboundMsgs[i].id
  <2>1. /\ Outgoing(id) = 0 => \A j \in DOMAIN c.outboundMsgs : c.outboundMsgs[j].id # id
        /\ Outgoing(id) # 0 => Outgoing(id) \in DOMAIN c.outboundMsgs /\ c.outboundMsgs[Outgoing(id)].id = id
    BY NowIs, OutgoingIs
  <2> QED BY <1>1, <2>1 DEF Distinct
<1> QED BY <1>1, <1>2 DEF ToSet

LEMMA OutCompleted ==
    ASSUME Typed, ProcessSound, OutFaults, OutSound, NEW type \in {"PUBACK", "PUBCOMP"},
           Arrives(type), Take, Handle(Completed(Head(toClient).id, type))
    PROVE  OutSound'
<1> DEFINE p == Head(toClient)
           id == p.id
           left == Unlinked(disk, "s", id)
           over == Unlinked(left, "sc", id)
           i == Outgoing(id)
           E == Ongoing(c, disk)
           K == Commanded(c, disk)
           G == Tokens(toBroker, Asks, toClient', Replies)
<1>1. /\ p.type = type /\ c.connected = 1 /\ b' = b /\ sent' = sent /\ asked' = asked /\ restarts' = restarts
  BY TakeDoes
<1>2. /\ \/ ~Waiting(id, type)
         \/ /\ c'.outboundMsgs = RemoveAt(c.outboundMsgs, i) /\ disk' = over
            /\ c'.commands = c.commands /\ c'.command_seqno = c.command_seqno
            /\ c'.responses = {r \in c.responses : r.id # id} /\ LinkSame(c, c')
         \/ "crash" \in Faults /\ c' = NewClient(0) /\ disk' \in {left, over}
      /\ toBroker' = toBroker
  BY CompletedDoes
<1>3. c.running = 1
  BY <1>1 DEF ProcessSound
<1>4. MemorySound(c, disk) /\ (restarts = 0 => FirstSound(c, disk)) /\ OutCore
  BY <1>3 DEF OutSound, OutMemory
<1>5. /\ c \in Clients /\ disk \in Disks /\ c.outboundMsgs \in Seq(OutEntries)
  BY NowIs, FieldsOf
<1>6. type \in Replies
  BY DEF Replies
<1>7. Single(toBroker, Asks, toClient', Replies) /\ G \subseteq OutTokens /\ p \in OutTokens /\ \A t \in G : t.id # p.id
  BY <1>4, <1>6, ReplyTaken
<1>8. OutInv(E, K, OutTokens, b.in, sent, asked)
  BY <1>4 DEF OutCore
<1>9. E \subseteq OutEntries
  BY OngoingTyped
<1> HIDE DEF p, G
<1>10. PICK x \in E : Fits(p, x, b.in)
  BY <1>7, <1>8 DEF OutInv
<1>11. x.id = id /\ x.next = type
  BY <1>1, <1>10 DEF Fits
<1>12. E = ToSet(c.outboundMsgs) /\ Distinct(c.outboundMsgs) /\ i \in DOMAIN c.outboundMsgs /\ i # 0 /\ c.outboundMsgs[i] = x
  BY <1>4, <1>10, <1>11, OngoingIs
<1>13. Waiting(id, type)
  BY <1>11, <1>12 DEF Waiting
<1> HIDE DEF E, K
<1>14. OutInv(E \ {x}, K, G, b.in, sent, asked)
  BY <1>1, <1>7, <1>8, <1>9, <1>11, OutEnded
<1>15. {y \in E : y.id # id} = E \ {x}
  BY <1>8, <1>11 DEF OutInv
<1>16. Single(toBroker, Asks, toClient, Replies)' /\ OutTokens' = G
  BY <1>2, <1>7 DEF G, OutTokens
<1>17. Persistence = 1 =>
        /\ Named(left, "c") = K /\ Named(over, "c") = K
        /\ Entries(left) = E \ {x} /\ Entries(over) = E \ {x}
        /\ RelSound(over)
  <2> SUFFICES ASSUME Persistence = 1
               PROVE  /\ Named(left, "c") = K /\ Named(over, "c") = K
                      /\ Entries(left) = E \ {x} /\ Entries(over) = E \ {x}
                      /\ RelSound(over)
    OBVIOUS
  <2>1. E = Entries(disk) /\ K = Named(disk, "c") /\ RelSound(disk)
    BY <1>4, OnDisk DEF E, K, MemorySound
  <2>2. /\ Named(left, "c") = Named(disk, "c") /\ Named(over, "c") = Named(disk, "c")
        /\ Entries(left) = {y \in Entries(disk) : y.id # id} /\ Entries(over) = {y \in Entries(disk) : y.id # id}
        /\ RelSound(over)
    BY <1>5, <2>1, PublishUnlinked
  <2> QED BY <1>15, <2>1, <2>2
<1> HIDE DEF left, over
<1>18. CASE /\ c'.outboundMsgs = RemoveAt(c.outboundMsgs, i) /\ disk' = over
            /\ c'.commands = c.commands /\ c'.command_seqno = c.command_seqno
            /\ c'.responses = {r \in c.responses : r.id # id} /\ LinkSame(c, c')
  <2>1. ToSet(c'.outboundMsgs) = E \ {x} /\ Distinct(c'.outboundMsgs)
    <3>1. LET r == RemoveAt(c.outboundMsgs, i)
          IN  ToSet(r) = ToSet(c.outboundMsgs) \ {c.outboundMsgs[i]} /\ Distinct(r)
      BY <1>5, <1>12, QueueWithout
    <3> QED BY <1>12, <1>18, <3>1
  <2>2. Persistence = 1 => Named(disk', "c") = K /\ Entries(disk') = E \ {x} /\ RelSound(disk')
    BY <1>17, <1>18
  <2>3. Ongoing(c', disk') = E \ {x} /\ Commanded(c', disk') = K
    <3>1. CASE Persistence = 1
      BY <2>2, <3>1, OnDisk
    <3>2. CASE Persistence # 1
      <4>1. K = ToSet(c.commands)
        BY <3>2, OnlyInMemory DEF K
      <4> QED BY <1>18, <2>1, <3>2, <4>1, OnlyInMemory
    <3> QED BY <3>1, <3>2
  <2>4. OutCore'
    BY <1>1, <1>14, <1>16, <2>3 DEF OutCore
  <2>5. MemorySound(c', disk')
    <3>1. \A j, k \in DOMAIN c'.outboundMsgs : c'.outboundMsgs[j].id = c'.outboundMsgs[k].id => j = k
      BY <2>1 DEF Distinct
    <3>2. \A j, k \in DOMAIN c'.commands : c'.commands[j].id = c'.commands[k].id => j = k
      BY <1>4, <1>18 DEF MemorySound
    <3>3. Persistence = 1 => \A j \in DOMAIN c'.commands :
             CommandFile(c'.commands[j].seqno, c'.commands[j].id, c'.commands[j].msg) \in disk'
      <4> SUFFICES ASSUME Persistence = 1, NEW j \in DOMAIN c.commands
                   PROVE  CommandFile(c.commands[j].seqno, c.commands[j].id, c.commands[j].msg) \in disk'
        BY <1>18
      <4> DEFINE g == CommandFile(c.commands[j].seqno, c.commands[j].id, c.commands[j].msg)
      <4>1. g \in disk /\ g.key = "c"
        BY <1>4, FileKeys DEF MemorySound
      <4>2. K = Named(disk, "c")
        BY OnDisk DEF K
      <4> HIDE DEF g
      <4>3. g \in Named(disk', "c")
        BY <2>2, <4>1, <4>2 DEF Named
      <4>4. g \in disk'
        BY <4>3 DEF Named
      <4> QED BY <4>4 DEF g
    <3> QED BY <2>1, <2>2, <3>1, <3>2, <3>3 DEF MemorySound
  <2>6. restarts' = 0 => FirstSound(c', disk')
    <3> SUFFICES ASSUME restarts' = 0 PROVE FirstSound(c', disk')
      OBVIOUS
    <3>1. FirstSound(c, disk)
      BY <1>1, <1>4
    <3>2. \A e \in Ongoing(c', disk') : \E r \in c'.responses : r.id = e.id
      <4>1. \A e \in E \ {x} : e.id # id
        BY <1>15
      <4>2. \A e \in E : \E r \in c.responses : r.id = e.id
        BY <3>1 DEF FirstSound, E
      <4> QED BY <1>18, <2>3, <4>1, <4>2
    <3>3. \A k \in Commanded(c', disk') : \E j \in DOMAIN c'.commands : c'.commands[j].id = k.id
      BY <1>18, <2>3, <3>1 DEF FirstSound, K
    <3>4. Persistence = 1 => \A f \in Named(disk', "c") : f.n <= c'.command_seqno
      <4> SUFFICES ASSUME Persistence = 1 PROVE \A f \in Named(disk', "c") : f.n <= c'.command_seqno
        OBVIOUS
      <4>1. Named(disk', "c") = Named(disk, "c")
        BY <2>2, OnDisk DEF K
      <4> QED BY <1>18, <3>1, <4>1 DEF FirstSound
    <3> QED BY <3>2, <3>3, <3>4 DEF FirstSound
  <2> QED BY <2>4, <2>5, <2>6 DEF OutSound, OutMemory
<1>19. CASE "crash" \in Faults /\ c' = NewClient(0) /\ disk' \in {left, over}
  <2>1. Persistence = 1
    BY <1>19 DEF OutFaults
  <2>2. Ongoing(c', disk') = E \ {x} /\ Commanded(c', disk') = K
    BY <1>17, <1>19, <2>1, OnDisk
  <2>3. OutCore'
    BY <1>1, <1>14, <1>16, <2>2 DEF OutCore
  <2> QED BY <1>19, <2>3, OutDied
<1> QED BY <1>2, <1>13, <1>18, <1>19 DEF p, left, over

LEMMA OutReceivePubrec ==
    ASSUME Typed, ProcessSound, OutFaults, OutSound, ReceivePubrec
    PROVE  OutSound'
<1> DEFINE p == Head(toClient)
           id == p.id
           i == Outgoing(id)
           rel == Ack("PUBREL", id)
           stored == Stored(disk, PubrelSent(id))
           E == Ongoing(c, disk)
           K == Commanded(c, disk)
           G == Tokens(toBroker, Asks, toClient', Replies)
<1>0. Arrives("PUBREC") /\ Take
  BY DEF ReceivePubrec
<1>1. /\ p.type = "PUBREC" /\ c.connected = 1 /\ b' = b /\ sent' = sent /\ asked' = asked /\ restarts' = restarts
  BY <1>0, TakeDoes
<1>2. \/ ~Waiting(id, "PUBREC")
      \/ /\ c'.outboundMsgs = [c.outboundMsgs EXCEPT ![i] = [@ EXCEPT !.next = "PUBCOMP"]]
         /\ c'.commands = c.commands /\ c'.command_seqno = c.command_seqno /\ c'.responses = c.responses
         /\ LinkSame(c, c') /\ disk' = stored /\ toBroker' = Append(toBroker, rel) /\ rel \in BrokerBound
      \/ "crash" \in Faults /\ c' = NewClient(0) /\ disk' = stored /\ toBroker' = toBroker
  BY ReceivePubrecDoes
<1>3. c.running = 1
  BY <1>1 DEF ProcessSound
<1>4. MemorySound(c, disk) /\ (restarts = 0 => FirstSound(c, disk)) /\ OutCore
  BY <1>3 DEF OutSound, OutMemory
<1>5. /\ c \in Clients /\ disk \in Disks /\ c.outboundMsgs \in Seq(OutEntries) /\ toBroker \in Seq(BrokerBound)
  BY NowIs, FieldsOf
<1>6. "PUBREC" \in Replies
  BY DEF Replies
<1>7. Single(toBroker, Asks, toClient', Replies) /\ G \subseteq OutTokens /\ p \in OutTokens /\ \A t \in G : t.id # p.id
  BY <1>0, <1>4, <1>6, ReplyTaken
<1>8. OutInv(E, K, OutTokens, b.in, sent, asked)
  BY <1>4 DEF OutCore
<1>9. E \subseteq OutEntries
  BY OngoingTyped
<1>a. rel.id = id /\ rel.type = "PUBREL" /\ rel.type \in Asks
  BY AckIs DEF Asks
<1> HIDE DEF p, G, rel
<1>10. PICK x \in E : Fits(p, x, b.in)
  BY <1>7, <1>8 DEF OutInv
<1>11. x.id = id /\ x.next = "PUBREC"
  BY <1>1, <1>10 DEF Fits
<1>12. E = ToSet(c.outboundMsgs) /\ Distinct(c.outboundMsgs) /\ i \in DOMAIN c.outboundMsgs /\ i # 0 /\ c.outboundMsgs[i] = x
  BY <1>4, <1>10, <1>11, OngoingIs
<1>13. Waiting(id, "PUBREC")
  BY <1>11, <1>12 DEF Waiting
<1> DEFINE y == [x EXCEPT !.next = "PUBCOMP"]
<1>14. y.id = x.id /\ y.msg = x.msg /\ y.next = "PUBCOMP"
  BY <1>9, <1>10 DEF OutEntries
<1> HIDE DEF E, K
<1>15. /\ OutInv((E \ {x}) \cup {y}, K, G, b.in, sent, asked)
       /\ OutInv((E \ {x}) \cup {y}, K, G \cup {rel}, b.in, sent, asked)
       /\ x.next = "PUBREC" /\ x.msg \in Outbound2
  <2> HIDE DEF y
  <2>1. p.type = "PUBREC" /\ x.id = p.id /\ rel.id = p.id /\ rel.type = "PUBREL"
    BY <1>1, <1>11, <1>a
  <2> QED BY <1>7, <1>8, <1>9, <1>10, <1>14, <2>1, OutAnswered
<1>16. Persistence = 1 => Named(stored, "c") = K /\ Entries(stored) = (E \ {x}) \cup {y} /\ RelSound(stored)
  <2> SUFFICES ASSUME Persistence = 1
               PROVE  Named(stored, "c") = K /\ Entries(stored) = (E \ {x}) \cup {y} /\ RelSound(stored)
    OBVIOUS
  <2>1. E = Entries(disk) /\ K = Named(disk, "c") /\ RelSound(disk)
    BY <1>4, OnDisk DEF E, K, MemorySound
  <2>2. LET e == Stored(disk, PubrelSent(x.id))
        IN  /\ Named(e, "c") = Named(disk, "c")
            /\ Entries(e) = (Entries(disk) \ {x}) \cup {[x EXCEPT !.next = "PUBCOMP"]}
            /\ RelSound(disk) => RelSound(e)
    BY <1>5, <1>10, <1>15, <2>1, PubrelStoredIs
  <2> QED BY <1>11, <2>1, <2>2
<1> HIDE DEF stored, y
<1>17. CASE /\ c'.outboundMsgs = [c.outboundMsgs EXCEPT ![i] = [@ EXCEPT !.next = "PUBCOMP"]]
            /\ c'.commands = c.commands /\ c'.command_seqno = c.command_seqno /\ c'.responses = c.responses
            /\ LinkSame(c, c') /\ disk' = stored /\ toBroker' = Append(toBroker, rel) /\ rel \in BrokerBound
  <2>1. ToSet(c'.outboundMsgs) = (E \ {x}) \cup {y} /\ Distinct(c'.outboundMsgs)
    <3>1. c'.outboundMsgs = [c.outboundMsgs EXCEPT ![i] = y]
      BY <1>12, <1>17 DEF y
    <3>2. y.id = c.outboundMsgs[i].id
      BY <1>12, <1>14
    <3>3. LET r == [c.outboundMsgs EXCEPT ![i] = y]
          IN  ToSet(r) = (ToSet(c.outboundMsgs) \ {c.outboundMsgs[i]}) \cup {y} /\ Distinct(r)
      BY <1>5, <1>12, <3>2, QueueChanged
    <3> QED BY <1>12, <3>1, <3>3
  <2>2. Persistence = 1 => Named(disk', "c") = K /\ Entries(disk') = (E \ {x}) \cup {y} /\ RelSound(disk')
    BY <1>16, <1>17
  <2>3. Ongoing(c', disk') = (E \ {x}) \cup {y} /\ Commanded(c', disk') = K
    <3>1. CASE Persistence = 1
      BY <2>2, <3>1, OnDisk
    <3>2. CASE Persistence # 1
      <4>1. K = ToSet(c.commands)
        BY <3>2, OnlyInMemory DEF K
      <4> QED BY <1>17, <2>1, <3>2, <4>1, OnlyInMemory
    <3> QED BY <3>1, <3>2
  <2>4. Single(toBroker, Asks, toClient, Replies)' /\ OutTokens' = G \cup {rel}
    <3>1. \A t \in Tokens(toBroker, Asks, toClient', Replies) : t.id # rel.id
      BY <1>7, <1>a DEF G
    <3>2. /\ Single(Append(toBroker, rel), Asks, toClient', Replies)
          /\ Tokens(Append(toBroker, rel), Asks, toClient', Replies) = Tokens(toBroker, Asks, toClient', Replies) \cup {rel}
      BY <1>5, <1>7, <1>17, <1>a, <3>1, TokenSent
    <3> QED BY <1>17, <3>2 DEF OutTokens, G
  <2>5. OutCore'
    BY <1>1, <1>15, <2>3, <2>4 DEF OutCore
  <2>6. MemorySound(c', disk')
    <3>1. \A j, k \in DOMAIN c'.outboundMsgs : c'.outboundMsgs[j].id = c'.outboundMsgs[k].id => j = k
      BY <2>1 DEF Distinct
    <3>2. \A j, k \in DOMAIN c'.commands : c'.commands[j].id = c'.commands[k].id => j = k
      BY <1>4, <1>17 DEF MemorySound
    <3>3. Persistence = 1 => \A j \in DOMAIN c'.commands :
             CommandFile(c'.commands[j].seqno, c'.commands[j].id, c'.commands[j].msg) \in disk'
      <4> SUFFICES ASSUME Persistence = 1, NEW j \in DOMAIN c.commands
                   PROVE  CommandFile(c.commands[j].seqno, c.commands[j].id, c.commands[j].msg) \in disk'
        BY <1>17
      <4> DEFINE g == CommandFile(c.commands[j].seqno, c.commands[j].id, c.commands[j].msg)
      <4>1. g \in disk /\ g.key = "c"
        BY <1>4, FileKeys DEF MemorySound
      <4>2. K = Named(disk, "c")
        BY OnDisk DEF K
      <4> HIDE DEF g
      <4>3. g \in Named(disk', "c")
        BY <2>2, <4>1, <4>2 DEF Named
      <4>4. g \in disk'
        BY <4>3 DEF Named
      <4> QED BY <4>4 DEF g
    <3> QED BY <2>1, <2>2, <3>1, <3>2, <3>3 DEF MemorySound
  <2>7. restarts' = 0 => FirstSound(c', disk')
    <3> SUFFICES ASSUME restarts' = 0 PROVE FirstSound(c', disk')
      OBVIOUS
    <3>1. FirstSound(c, disk)
      BY <1>1, <1>4
    <3>2. \A e \in Ongoing(c', disk') : \E r \in c'.responses : r.id = e.id
      <4>1. \A e \in E : \E r \in c.responses : r.id = e.id
        BY <3>1 DEF FirstSound, E
      <4> QED BY <1>10, <1>14, <1>17, <2>3, <4>1
    <3>3. \A k \in Commanded(c', disk') : \E j \in DOMAIN c'.commands : c'.commands[j].id = k.id
      BY <1>17, <2>3, <3>1 DEF FirstSound, K
    <3>4. Persistence = 1 => \A f \in Named(disk', "c") : f.n <= c'.command_seqno
      <4> SUFFICES ASSUME Persistence = 1 PROVE \A f \in Named(disk', "c") : f.n <= c'.command_seqno
        OBVIOUS
      <4>1. Named(disk', "c") = Named(disk, "c")
        BY <2>2, OnDisk DEF K
      <4> QED BY <1>17, <3>1, <4>1 DEF FirstSound
    <3> QED BY <3>2, <3>3, <3>4 DEF FirstSound
  <2> QED BY <2>5, <2>6, <2>7 DEF OutSound, OutMemory
<1>18. CASE "crash" \in Faults /\ c' = NewClient(0) /\ disk' = stored /\ toBroker' = toBroker
  <2>1. Persistence = 1
    BY <1>18 DEF OutFaults
  <2>2. Ongoing(c', disk') = (E \ {x}) \cup {y} /\ Commanded(c', disk') = K
    BY <1>16, <1>18, <2>1, OnDisk
  <2>3. Single(toBroker, Asks, toClient, Replies)' /\ OutTokens' = G
    BY <1>7, <1>18 DEF G, OutTokens
  <2>4. OutCore'
    BY <1>1, <1>15, <2>2, <2>3 DEF OutCore
  <2> QED BY <1>18, <2>4, OutDied
<1> QED BY <1>2, <1>13, <1>17, <1>18 DEF p, rel, stored

\* Everything in flight is in the store already.
LEMMA AgainKeeps ==
    ASSUME Typed, MemorySound(c, disk)
    PROVE  StoredAll(disk, AgainFiles) = disk
<1> DEFINE q == c.outboundMsgs
           n == Len(q)
           L == LastOf(AgainFiles)
<1>1. disk \in Disks /\ q \in Seq(OutEntries)
  BY NowIs, FieldsOf
<1>2. AgainFiles \in [1..n -> FileSet] /\ n \in Nat /\ DOMAIN q = 1..n
  BY AgainFilesTyped
<1>3. StoredAll(disk, AgainFiles) =
        IF Persistence = 0 THEN disk ELSE {f \in disk : \A g \in L : ~SameFile(f, g)} \cup L
  BY <1>1, <1>2, StoredAllIs
<1>4. CASE Persistence = 0
  BY <1>3, <1>4
<1>5. CASE Persistence = 1
  <2>1. \A i \in 1..n : q[i] \in Entries(disk)
    BY <1>2, <1>5 DEF MemorySound, ToSet
  <2>2. ASSUME NEW e \in Entries(disk) PROVE StoredAgain(e) \in disk
    <3>1. PICK f \in Named(disk, "s") : e = EntryOf(disk, f) /\ e.id = f.id /\ e.msg = f.msg
      BY <1>1, EntriesTyped
    <3>2. f \in disk /\ f.msg \in Outbound /\ f.n = f.id /\ f = PublishSent(f.id, f.msg)
      BY <1>1, NamedIs
    <3>3. CASE e.next = "PUBCOMP"
      <4>1. \E g \in Named(disk, "sc") : g.n = f.n
        BY <3>1, <3>2, <3>3, FirstAnswerIs DEF EntryOf
      <4>2. PICK g \in Named(disk, "sc") : g.n = f.n
        BY <4>1
      <4>3. g \in disk /\ g.n = g.id /\ g = PubrelSent(g.id)
        BY <1>1, NamedIs
      <4> QED BY <3>1, <3>2, <3>3, <4>2, <4>3 DEF StoredAgain
    <3>4. CASE e.next # "PUBCOMP"
      BY <3>1, <3>2, <3>4 DEF StoredAgain
    <3> QED BY <3>3, <3>4
  <2>3. \A i \in 1..n : AgainFiles[i] \in disk
    <3>1. \A i \in 1..n : AgainFiles[i] = StoredAgain(q[i])
      BY <1>2 DEF AgainFiles
    <3> QED BY <2>1, <2>2, <3>1
  <2>4. L \subseteq disk
    <3>1. DOMAIN AgainFiles = 1..n
      BY <1>2
    <3> HIDE DEF AgainFiles
    <3> QED BY <2>3, <3>1 DEF LastOf
  <2> HIDE DEF L
  <2>5. \A f, g \in disk : SameFile(f, g) => f = g
    BY <1>1 DEF Disks, SameFiles
  <2> QED BY <1>3, <1>5, <2>4, <2>5
<1> QED BY <1>4, <1>5

LEMMA OutConnect ==
    ASSUME Typed, ProcessSound, OutFaults, OutSound, Connect
    PROVE  OutSound'
<1> DEFINE q == c.outboundMsgs
           N == DOMAIN q
           E == Ongoing(c, disk)
<1>1. /\ c.running = 1 /\ c'.running = c.running /\ OutSame(c, c') /\ disk' = StoredAll(disk, AgainFiles)
      /\ toBroker' = [i \in N |-> Again(q[i])]
      /\ toClient' = [i \in DOMAIN b.out |-> BrokerAgain(b.out[i])]
      /\ b' = b /\ sent' = sent /\ asked' = asked /\ restarts' = restarts
  BY ConnectDoes
<1>2. MemorySound(c, disk) /\ (restarts = 0 => FirstSound(c, disk)) /\ OutCore
  BY <1>1 DEF OutSound, OutMemory
<1>3. disk' = disk
  BY <1>1, <1>2, AgainKeeps
<1>4. E = ToSet(q) /\ Distinct(q)
  BY <1>2, OngoingIs
<1>5. \A e : Again(e).type \in Asks /\ Again(e).id = e.id
  BY DEF Again, Ack, Packet, Asks
<1>6. \A i \in DOMAIN toClient' : toClient'[i].type \notin Replies
  BY <1>1 DEF BrokerAgain, Packet, Replies
<1>7. \A i \in N : toBroker'[i] = Again(q[i])
  BY <1>1
<1>8. DOMAIN toBroker' = N
  BY <1>1
<1>9. /\ \A i \in N : toBroker'[i].type \in Asks
      /\ \A i, j \in N : toBroker'[i].id = toBroker'[j].id => i = j
  BY <1>4, <1>5, <1>7 DEF Distinct
<1>10. Single(toBroker', Asks, toClient', Replies) /\ Tokens(toBroker', Asks, toClient', Replies) = {toBroker'[i] : i \in N}
  <2> HIDE DEF N
  <2> QED BY <1>6, <1>8, <1>9, TokensAgain
<1>11. {toBroker'[i] : i \in N} = {Again(e) : e \in E}
  <2>1. E = {q[i] : i \in N}
    BY <1>4 DEF ToSet
  <2> HIDE DEF E, N
  <2> QED BY <1>7, <2>1
<1>12. OutInv(E, Commanded(c, disk), {Again(e) : e \in E}, b.in, sent, asked)
  BY <1>2, OutAgain DEF OutCore
<1>13. /\ Ongoing(c', disk') = E /\ Commanded(c', disk') = Commanded(c, disk)
       /\ MemorySound(c', disk') /\ (restarts = 0 => FirstSound(c', disk'))
  BY <1>1, <1>2, <1>3, OutViewSame
<1>14. OutTokens' = {Again(e) : e \in E}
  BY <1>10, <1>11 DEF OutTokens
<1>15. OutCore'
  BY <1>1, <1>10, <1>12, <1>13, <1>14 DEF OutCore
<1> QED BY <1>1, <1>13, <1>15 DEF OutSound, OutMemory

\* What is restored is what the store holds.
LEMMA StoredEntries ==
    ASSUME Typed
    PROVE  ToSet(OutboundOnDisk) = Entries(disk)
<1>1. \A f \in Files("s") : RestoredOutbound(f) = EntryOf(disk, f)
  <2> SUFFICES ASSUME NEW f \in Files("s") PROVE RestoredOutbound(f) = EntryOf(disk, f)
    OBVIOUS
  <2>1. f.n = f.id
    BY SentFileIs
  <2>2. Released(f.id) <=> \E g \in Named(disk, "sc") : g.n = f.n
    BY <2>1 DEF Released, Named
  <2> QED BY <2>2 DEF RestoredOutbound, EntryOf
<1>2. Named(disk, "s") = Files("s")
  BY DEF Named, Files
<1>3. {RestoredOutbound(f) : f \in Files("s")} = Entries(disk)
  BY <1>1, <1>2 DEF Entries
<1> QED BY <1>3, OutboundOnDiskIs

\* A new process has what the store holds.
LEMMA OutRestart ==
    ASSUME Typed, ProcessSound, OutFaults, OutSound, Restart
    PROVE  OutSound'
<1>1. /\ c.running = 0 /\ c'.running = 1 /\ c'.outboundMsgs = OutboundOnDisk /\ c'.commands \in CommandsOnDisk
      /\ disk' = disk \ (Orphans \cup Unreadable) /\ toBroker' = toBroker /\ toClient' = <<>>
      /\ b' = b /\ sent' = sent /\ asked' = asked /\ restarts' = 1
  BY RestartDoes
<1>2. Persistence = 1
  BY <1>1 DEF ProcessSound, OutFaults
<1>3. disk \in Disks /\ OutCore
  BY NowIs DEF OutSound
<1>4. \A key : Named(disk, key) = Files(key)
  BY DEF Named, Files
<1>5. /\ Named(disk', "s") = Named(disk, "s") /\ Named(disk', "c") = Named(disk, "c")
      /\ Named(disk', "sc") = {g \in Named(disk, "sc") : \E f \in Named(disk, "s") : f.n = g.n}
  BY <1>1 DEF Named, Orphans, Unreadable, Files
<1>6. \A f \in Named(disk, "s") : EntryOf(disk', f) = EntryOf(disk, f)
  <2>1. \A f \in Named(disk, "s") : (\E g \in Named(disk', "sc") : g.n = f.n) <=> (\E g \in Named(disk, "sc") : g.n = f.n)
    BY <1>5
  <2> QED BY <2>1 DEF EntryOf
<1>7. Entries(disk') = Entries(disk)
  BY <1>5, <1>6 DEF Entries
<1>8. RelSound(disk')
  BY <1>5 DEF RelSound
<1>10. /\ ToSet(OutboundOnDisk) = Entries(disk)
       /\ \A i, j \in DOMAIN OutboundOnDisk : OutboundOnDisk[i].id = OutboundOnDisk[j].id => i = j
  BY StoredEntries, OutboundOnDiskIs
<1>11. \A x, y \in Named(disk, "c") : x.id = y.id => x = y
  BY <1>2, <1>3, OnDisk DEF OutCore, OutInv
<1>12. \A i, j \in DOMAIN c'.commands : c'.commands[i].id = c'.commands[j].id => i = j
  <2>1. RestoredCommands \subseteq Named(disk, "c")
    BY <1>4 DEF RestoredCommands
  <2>2. \A i, j \in DOMAIN c'.commands : i # j => \E f, g \in RestoredCommands :
          f # g /\ c'.commands[i].id = f.id /\ c'.commands[j].id = g.id
    BY <1>1, CommandsOnDiskAre
  <2> QED BY <1>11, <2>1, <2>2
<1>13. \A i \in DOMAIN c'.commands : CommandFile(c'.commands[i].seqno, c'.commands[i].id, c'.commands[i].msg) \in disk'
  <2> SUFFICES ASSUME NEW i \in DOMAIN c'.commands
               PROVE  CommandFile(c'.commands[i].seqno, c'.commands[i].id, c'.commands[i].msg) \in disk'
    OBVIOUS
  <2>1. PICK f \in RestoredCommands : c'.commands[i].seqno = f.n /\ c'.commands[i].id = f.id /\ c'.commands[i].msg = f.msg
    BY <1>1, CommandsOnDiskAre
  <2>2. f \in Named(disk, "c")
    BY <1>4 DEF RestoredCommands
  <2>3. f = CommandFile(f.n, f.id, f.msg)
    BY <1>3, <2>2, NamedIs
  <2>4. f \in disk'
    BY <1>5, <2>2 DEF Named
  <2> QED BY <2>1, <2>3, <2>4
<1>14. MemorySound(c', disk')
  <2>1. ToSet(c'.outboundMsgs) = Entries(disk')
    BY <1>1, <1>7, <1>10
  <2>2. \A i, j \in DOMAIN c'.outboundMsgs : c'.outboundMsgs[i].id = c'.outboundMsgs[j].id => i = j
    BY <1>1, <1>10
  <2> QED BY <1>8, <1>12, <1>13, <2>1, <2>2 DEF MemorySound
<1>15. Single(toBroker, Asks, toClient, Replies)' /\ OutTokens' \subseteq OutTokens
  BY <1>1, <1>3, OutLost
<1>16. Ongoing(c', disk') = Ongoing(c, disk) /\ Commanded(c', disk') = Commanded(c, disk)
  BY <1>2, <1>5, <1>7, OnDisk
<1>17. OutInv(Ongoing(c, disk), Commanded(c, disk), OutTokens', b.in, sent, asked)
  BY <1>3, <1>15, OutFewer DEF OutCore
<1>18. OutCore'
  BY <1>1, <1>15, <1>16, <1>17 DEF OutCore
<1> QED BY <1>1, <1>14, <1>18 DEF OutSound, OutMemory

\* What a packet the broker takes, and one it sends, means to this direction.
LEMMA AskTaken ==
    ASSUME Typed, OutCore, toBroker # <<>>, toBroker' = Tail(toBroker), NEW a \in ClientBound,
           a.type \in Replies => Head(toBroker).type \in Asks /\ a.id = Head(toBroker).id,
           toClient' \in {toClient, Append(toClient, a)}
    PROVE  LET p == Head(toBroker)
               G == Tokens(toBroker', Asks, toClient, Replies)
           IN  /\ Single(toBroker, Asks, toClient, Replies)' /\ G \subseteq OutTokens
               /\ p.type \in Asks => p \in OutTokens /\ \A t \in G : t.id # p.id
               /\ OutTokens' = G \/ (a.type \in Replies /\ OutTokens' = G \cup {a})
<1> DEFINE p == Head(toBroker)
           G == Tokens(toBroker', Asks, toClient, Replies)
<1>1. toBroker \in Seq(BrokerBound) /\ toClient \in Seq(ClientBound) /\ Single(toBroker, Asks, toClient, Replies)
  BY NowIs DEF OutCore
<1>2. /\ Single(toBroker', Asks, toClient, Replies) /\ G \subseteq OutTokens
      /\ p.type \in Asks => p \in OutTokens /\ \A t \in G : t.id # p.id
  BY <1>1, TokenTaken DEF OutTokens
<1>3. Single(toClient, Replies, toBroker', Asks) /\ Tokens(toClient, Replies, toBroker', Asks) = G
  BY <1>2, SingleTurned
<1>4. a.type \in Replies => \A t \in Tokens(toClient, Replies, toBroker', Asks) : t.id # a.id
  BY <1>2, <1>3
<1> HIDE DEF p, G
<1>5. CASE toClient' = toClient
  BY <1>2, <1>5 DEF p, G, OutTokens
<1>6. CASE toClient' = Append(toClient, a)
  <2>1. /\ Single(toClient', Replies, toBroker', Asks)
        /\ a.type \in Replies => Tokens(toClient', Replies, toBroker', Asks) = G \cup {a}
        /\ a.type \notin Replies => Tokens(toClient', Replies, toBroker', Asks) = G
    BY <1>1, <1>3, <1>4, <1>6, TokenSent
  <2>2. Single(toBroker', Asks, toClient', Replies) /\ OutTokens' = Tokens(toClient', Replies, toBroker', Asks)
    BY <2>1, SingleTurned DEF OutTokens
  <2> QED BY <1>2, <2>1, <2>2 DEF p, G
<1> QED BY <1>5, <1>6

\* The broker changes nothing of the client.
LEMMA OutBroker ==
    ASSUME OutSound, c' = c, disk' = disk, asked' = asked, restarts' = restarts,
           Single(toBroker, Asks, toClient, Replies)',
           OutInv(Ongoing(c, disk), Commanded(c, disk), OutTokens', b'.in, sent', asked)
    PROVE  OutSound'
<1>1. OutCore'
  BY DEF OutCore
<1>2. OutMemory'
  BY DEF OutMemory, OutSound
<1> QED BY <1>1, <1>2 DEF OutSound

LEMMA OutBrokerPublish ==
    ASSUME Typed, OutSound, NEW m \in Inbound, BrokerPublish(m)
    PROVE  OutSound'
<1>1. PICK id \in BrokerIds : toClient' = Append(toClient, Packet("PUBLISH", id, m, 0))
  BY BrokerPublishDoes
<1> DEFINE a == Packet("PUBLISH", id, m, 0)
<1>2. /\ b'.in = b.in /\ toBroker' = toBroker /\ sent' = sent /\ c' = c /\ disk' = disk
      /\ asked' = asked /\ restarts' = restarts
  BY BrokerPublishDoes
<1>3. a \in ClientBound /\ a.type \notin Replies
  BY DEF Packet, ClientBound, Packets, Types, Replies
<1> HIDE DEF a
<1>4. toClient \in Seq(ClientBound) /\ Single(toBroker, Asks, toClient, Replies) /\ OutCore
  BY NowIs DEF OutSound, OutCore
<1>5. Single(toClient, Replies, toBroker, Asks) /\ Tokens(toClient, Replies, toBroker, Asks) = OutTokens
  BY <1>4, SingleTurned DEF OutTokens
<1>6. Single(toClient', Replies, toBroker, Asks) /\ Tokens(toClient', Replies, toBroker, Asks) = OutTokens
  <2>1. toClient' = Append(toClient, a)
    BY <1>1 DEF a
  <2> QED BY <1>3, <1>4, <1>5, <2>1, TokenSent
<1>7. Single(toBroker', Asks, toClient', Replies) /\ OutTokens' = OutTokens
  BY <1>2, <1>6, SingleTurned DEF OutTokens
<1>8. OutInv(Ongoing(c, disk), Commanded(c, disk), OutTokens', b'.in, sent', asked)
  BY <1>2, <1>4, <1>7 DEF OutCore
<1> QED BY <1>2, <1>7, <1>8, OutBroker

\* The second part is what Delivery asks of a delivery.
LEMMA OutBrokerReceivePublish ==
    ASSUME Typed, OutSound, BrokerReceivePublish
    PROVE  /\ OutSound'
           /\ LET p == Head(toBroker)
              IN  p.msg \in asked /\ (p.msg \in Outbound2 /\ p.id \notin b.in => sent[p.msg] = 0)
<1> DEFINE p == Head(toBroker)
           a == Ack(IF p.msg \in Outbound1 THEN "PUBACK" ELSE "PUBREC", p.id)
           E == Ongoing(c, disk)
           K == Commanded(c, disk)
           G == Tokens(toBroker', Asks, toClient, Replies)
<1>1. /\ toBroker # <<>> /\ p.type = "PUBLISH" /\ p.id \in Ids /\ p.msg \in Outbound
      /\ toBroker' = Tail(toBroker) /\ a \in ClientBound
      /\ toClient' = IF c.connected = 1 THEN Append(toClient, a) ELSE toClient
      /\ sent' = IF p.msg \in Outbound1 \/ p.id \notin b.in THEN [sent EXCEPT ![p.msg] = Bump(@)] ELSE sent
      /\ b'.in = IF p.msg \in Outbound2 THEN b.in \cup {p.id} ELSE b.in
      /\ c' = c /\ disk' = disk /\ asked' = asked /\ restarts' = restarts
  BY BrokerReceivePublishDoes
<1>2. a.id = p.id /\ a.type = IF p.msg \in Outbound1 THEN "PUBACK" ELSE "PUBREC"
  BY AckIs
<1>3. OutCore /\ sent \in [Outbound -> 0..2] /\ E \subseteq OutEntries
  BY NowIs, OngoingTyped DEF OutSound
<1> HIDE DEF a
<1>4. p.type \in Asks /\ toClient' \in {toClient, Append(toClient, a)}
  BY <1>1 DEF Asks
<1>5. /\ Single(toBroker, Asks, toClient, Replies)' /\ G \subseteq OutTokens
      /\ p \in OutTokens /\ \A t \in G : t.id # p.id
      /\ OutTokens' = G \/ OutTokens' = G \cup {a}
  BY <1>1, <1>2, <1>3, <1>4, AskTaken
<1>6. OutInv(E, K, OutTokens, b.in, sent, asked)
  BY <1>3 DEF OutCore
<1> HIDE DEF p, G, E, K
<1>7. /\ OutInv(E, K, G, b'.in, sent', asked) /\ OutInv(E, K, G \cup {a}, b'.in, sent', asked)
      /\ p.msg \in asked /\ (p.msg \in Outbound2 /\ p.id \notin b.in => sent[p.msg] = 0)
  <2> DEFINE in == b.in
  <2>1. b'.in = InBy(p, in) /\ sent' = SentBy(p, in, sent)
    BY <1>1 DEF InBy, SentBy
  <2>2. OutInv(E, K, OutTokens, in, sent, asked) /\ p.type = "PUBLISH" /\ p.msg \in Outbound
    BY <1>1, <1>6
  <2>3. a.id = p.id /\ a.type = FirstAnswer(p.msg)
    BY <1>1, <1>2, FirstAnswerIs DEF FirstAnswer
  <2> HIDE DEF in
  <2>4. Published(E, K, G, in, sent, asked, p, a)
    BY <1>3, <1>5, <2>2, <2>3, OutPublished
  <2> QED BY <2>1, <2>4 DEF in, Published
<1>8. OutInv(E, K, OutTokens', b'.in, sent', asked)
  BY <1>5, <1>7
<1>9. OutSound'
  BY <1>1, <1>5, <1>8, OutBroker DEF E, K
<1> QED BY <1>7, <1>9 DEF p

LEMMA OutBrokerReceivePubrel ==
    ASSUME Typed, OutSound, BrokerReceivePubrel
    PROVE  OutSound'
<1> DEFINE p == Head(toBroker)
           a == Ack("PUBCOMP", p.id)
           E == Ongoing(c, disk)
           K == Commanded(c, disk)
           G == Tokens(toBroker', Asks, toClient, Replies)
<1>1. /\ toBroker # <<>> /\ p.type = "PUBREL" /\ toBroker' = Tail(toBroker) /\ a \in ClientBound
      /\ toClient' = IF c.connected = 1 THEN Append(toClient, a) ELSE toClient
      /\ b'.in = b.in \ {p.id} /\ sent' = sent
      /\ c' = c /\ disk' = disk /\ asked' = asked /\ restarts' = restarts
  BY BrokerReceivePubrelDoes
<1>2. a.id = p.id /\ a.type = "PUBCOMP"
  BY AckIs
<1>3. OutCore
  BY DEF OutSound
<1> HIDE DEF a
<1>4. p.type \in Asks /\ toClient' \in {toClient, Append(toClient, a)}
  BY <1>1 DEF Asks
<1>5. /\ Single(toBroker, Asks, toClient, Replies)' /\ G \subseteq OutTokens
      /\ p \in OutTokens /\ \A t \in G : t.id # p.id
      /\ OutTokens' = G \/ OutTokens' = G \cup {a}
  BY <1>1, <1>2, <1>3, <1>4, AskTaken
<1>6. OutInv(E, K, OutTokens, b.in, sent, asked)
  BY <1>3 DEF OutCore
<1> HIDE DEF p, G, E, K
<1>7. OutInv(E, K, G, b'.in, sent', asked) /\ OutInv(E, K, G \cup {a}, b'.in, sent', asked)
  <2> DEFINE in == b.in
             in2 == in \ {p.id}
  <2>1. b'.in = in2 /\ sent' = sent /\ p.type = "PUBREL" /\ OutInv(E, K, OutTokens, in, sent, asked)
    BY <1>1, <1>6
  <2> HIDE DEF in
  <2>2. OutInv(E, K, G, in2, sent, asked) /\ OutInv(E, K, G \cup {a}, in2, sent, asked)
    BY <1>2, <1>5, <2>1, OutReleased
  <2> HIDE DEF in2
  <2> QED BY <2>1, <2>2
<1>8. OutInv(E, K, OutTokens', b'.in, sent', asked)
  BY <1>5, <1>7
<1> QED BY <1>1, <1>5, <1>8, OutBroker DEF E, K

LEMMA OutBrokerReceiveRest ==
    ASSUME Typed, OutSound, BrokerReceivePubrec \/ BrokerReceiveLast
    PROVE  OutSound'
<1> DEFINE p == Head(toBroker)
           a == Ack("PUBREL", p.id)
<1>1. /\ toBroker # <<>> /\ p.type \in Replies /\ toBroker' = Tail(toBroker)
      /\ toClient' = toClient \/ (a \in ClientBound /\ toClient' \in {toClient, Append(toClient, a)})
      /\ b'.in = b.in /\ sent' = sent
      /\ c' = c /\ disk' = disk /\ asked' = asked /\ restarts' = restarts
  <2>1. CASE BrokerReceivePubrec
    BY <2>1, BrokerReceivePubrecDoes DEF Replies
  <2>2. CASE BrokerReceiveLast
    BY <2>2, BrokerReceiveLastDoes DEF Replies
  <2> QED BY <2>1, <2>2
<1>2. a.type \notin Replies
  BY AckIs DEF Replies
<1>3. OutCore
  BY DEF OutSound
<1> HIDE DEF a, p
<1>4. Single(toBroker, Asks, toClient, Replies)' /\ OutTokens' \subseteq OutTokens
  <2>1. CASE toClient' = toClient
    <3>1. toBroker \in Seq(BrokerBound) /\ Single(toBroker, Asks, toClient, Replies)
      BY NowIs, <1>3 DEF OutCore
    <3>2. Single(toBroker', Asks, toClient, Replies) /\ Tokens(toBroker', Asks, toClient, Replies) \subseteq OutTokens
      BY <1>1, <3>1, TokenTaken DEF OutTokens
    <3> QED BY <2>1, <3>2 DEF OutTokens
  <2>2. CASE a \in ClientBound /\ toClient' \in {toClient, Append(toClient, a)}
    BY <1>1, <1>2, <1>3, <2>2, AskTaken
  <2> QED BY <1>1, <2>1, <2>2
<1>5. OutInv(Ongoing(c, disk), Commanded(c, disk), OutTokens, b.in, sent, asked)
  BY <1>3 DEF OutCore
<1>6. OutInv(Ongoing(c, disk), Commanded(c, disk), OutTokens', b'.in, sent', asked)
  BY <1>1, <1>4, <1>5, OutFewer
<1> QED BY <1>1, <1>4, <1>6, OutBroker

LEMMA InitIs ==
    ASSUME Init
    PROVE  /\ c.running = 1 /\ c.connected = 0 /\ c.commands = <<>> /\ c.responses = {} /\ c.outboundMsgs = <<>>
           /\ c.inboundMsgs = {} /\ c.messageQueue = <<>>
           /\ disk = {} /\ toBroker = <<>> /\ toClient = <<>>
           /\ arrived = [m \in Inbound |-> 0] /\ sent = [m \in Outbound |-> 0]
           /\ b.in = {} /\ b.out = <<>> /\ b.todo = Inbound /\ asked = {} /\ restarts = 0
  BY DEF Init, NewClient

LEMMA InitSound ==
    ASSUME Init
    PROVE  ProcessSound /\ OutSound
<1>1. DOMAIN <<>> = {} /\ ToSet(<<>>) = {}
  BY DEF ToSet
<1>2. ProcessSound
  BY InitIs DEF ProcessSound
<1>3. Ongoing(c, disk) = {} /\ Commanded(c, disk) = {} /\ Entries(disk) = {} /\ Named(disk, "c") = {} /\ Named(disk, "sc") = {}
  <2>1. \A key : Named(disk, key) = {}
    BY InitIs DEF Named
  <2> QED BY <1>1, <2>1, InitIs DEF Ongoing, Commanded, Entries
<1>4. Single(toBroker, Asks, toClient, Replies) /\ OutTokens = {}
  BY <1>1, InitIs DEF Single, Alone, OutTokens, Tokens, Packs
<1>5. \A m \in Outbound : sent[m] = 0
  BY InitIs
<1>6. OutInv({}, {}, {}, {}, sent, {})
  BY <1>5 DEF OutInv
<1>7. OutCore
  BY <1>3, <1>4, <1>6, InitIs DEF OutCore
<1>8. MemorySound(c, disk)
  BY <1>1, <1>3, InitIs DEF MemorySound, RelSound
<1>9. FirstSound(c, disk)
  BY <1>3 DEF FirstSound
<1> QED BY <1>2, <1>7, <1>8, <1>9 DEF OutSound, OutMemory

LEMMA OutNext ==
    ASSUME Typed, ProcessSound, OutFaults, OutSound, [Next]_vars
    PROVE  OutSound'
<1>1. ASSUME NEW m \in Outbound, Publish(m) PROVE OutSound'
  BY <1>1, OutPublish
<1>2. CASE ReceivePuback \/ ReceivePubcomp
  BY <1>2, OutCompleted DEF ReceivePuback, ReceivePubcomp
<1>3. CASE ProcessCommand \/ ReceivePubrec \/ ReceivePublish1 \/ ReceivePublish2 \/ ReceivePubrel \/ FreedTwice
  BY <1>3, OutProcessCommand, OutReceivePubrec, OutReceivePublish1, OutReceivePublish2, OutReceivePubrel, OutFreedTwice
<1>4. CASE FlushQueue \/ Connect \/ Restart
  BY <1>4, OutFlushQueue, OutConnect, OutRestart
<1>5. CASE PendingWrites \/ Break \/ Crash
  BY <1>5, OutPendingWrites, OutBreak, OutCrash
<1>6. CASE Broker
  BY <1>6, OutBrokerPublish, OutBrokerReceivePublish, OutBrokerReceivePubrel, OutBrokerReceiveRest DEF Broker
<1>7. CASE UNCHANGED vars
  BY <1>7 DEF vars, OutSound, OutCore, OutMemory, OutTokens
<1> QED BY <1>1, <1>2, <1>3, <1>4, <1>5, <1>6, <1>7 DEF Next, Application, Client, Receive

\* Only the two steps that Delivery has change what it sees.
LEMMA SendingStep ==
    ASSUME Typed, OutSound, [Next]_vars
    PROVE  [Sending!Accept \/ Sending!Deliver]_<<asked, sent>>
<1>1. ASSUME NEW m \in Outbound, Publish(m) PROVE Sending!Accept
  <2>1. m \notin asked /\ asked' = asked \cup {m} /\ sent' = sent
    BY <1>1 DEF Publish, external
  <2> QED BY <2>1 DEF Sending!Accept
<1>2. CASE BrokerReceivePublish
  <2> DEFINE p == Head(toBroker)
  <2>1. /\ p.msg \in Outbound /\ asked' = asked
        /\ sent' = IF p.msg \in Outbound1 \/ p.id \notin b.in THEN [sent EXCEPT ![p.msg] = Bump(@)] ELSE sent
    BY <1>2, BrokerReceivePublishDoes
  <2>2. p.msg \in asked /\ (p.msg \in Outbound2 /\ p.id \notin b.in => sent[p.msg] = 0)
    BY <1>2, OutBrokerReceivePublish
  <2> HIDE DEF p
  <2>3. CASE p.msg \in Outbound1 \/ p.id \notin b.in
    <3>1. p.msg \in Outbound2 => sent[p.msg] = 0
      BY <2>1, <2>2, <2>3, FirstAnswerIs
    <3>2. sent' = [sent EXCEPT ![p.msg] = IF @ = 2 THEN 2 ELSE @ + 1]
      BY <2>1, <2>3 DEF Bump
    <3> QED BY <2>1, <2>2, <3>1, <3>2 DEF Sending!Deliver
  <2>4. CASE ~(p.msg \in Outbound1 \/ p.id \notin b.in)
    BY <2>1, <2>4
  <2> QED BY <2>3, <2>4
<1>3. CASE Receive
  BY <1>3 DEF Receive, ReceivePuback, ReceivePubcomp, ReceivePubrec, ReceivePublish1, ReceivePublish2, ReceivePubrel,
              FreedTwice, Take
<1>4. CASE ProcessCommand \/ FlushQueue \/ Connect \/ Restart \/ PendingWrites \/ Break \/ Crash
  BY <1>4 DEF ProcessCommand, FlushQueue, Connect, Restart, PendingWrites, Break, Crash, external
<1>5. ASSUME NEW m \in Inbound, BrokerPublish(m) PROVE asked' = asked /\ sent' = sent
  BY <1>5 DEF BrokerPublish, BrokerOnly
<1>6. CASE BrokerReceivePubrel \/ BrokerReceivePubrec \/ BrokerReceiveLast
  BY <1>6 DEF BrokerReceivePubrel, BrokerReceivePubrec, BrokerReceiveLast, BrokerTake, BrokerOnly
<1>7. CASE UNCHANGED vars
  BY <1>7 DEF vars
<1> QED BY <1>1, <1>2, <1>3, <1>4, <1>5, <1>6, <1>7 DEF Next, Application, Client, Broker

\* What the client accepts is a message of the application, and the broker
\* takes one of QoS 2 once, through any loss of packets, of connections and
\* of the process, when the process has a store and a new one only finishes
\* what is under way.
THEOREM SentOnce == OutFaults => (Spec => SendsOnce)
<1> SUFFICES ASSUME OutFaults PROVE Spec => SendsOnce
  OBVIOUS
<1> DEFINE I == Typed /\ ProcessSound /\ OutSound
<1>1. Init => I /\ Sending!Init
  BY InitTyped, InitSound, InitIs DEF Sending!Init
<1>2. I /\ [Next]_vars => I' /\ [Sending!Accept \/ Sending!Deliver]_<<asked, sent>>
  BY NextTyped, ProcessNext, OutNext, SendingStep
<1> QED BY <1>1, <1>2, PTL DEF Spec, SendsOnce, Sending!Spec
-----------------------------------------------------------------------------
(* What is restored is in the order it was in.                             *)

\* The place of an element in a sequence that a key puts in order.
Ordered(q, key) == \A i, j \in 1..Len(q) : i < j => key[q[i]] < key[q[j]]
Before(q, key, x) == {y \in ToSet(q) : key[y] < key[x]}

LEMMA PlaceIs ==
    ASSUME NEW S, NEW q \in Seq(S), NEW key \in [S -> Nat], Ordered(q, key), NEW i \in 1..Len(q)
    PROVE  Cardinality(Before(q, key, q[i])) = i - 1
<1> DEFINE n == Len(q)
           B == Before(q, key, q[i])
           f == [j \in 1..(i - 1) |-> q[j]]
<1>1. n \in Nat /\ DOMAIN q = 1..n /\ \A j \in 1..n : q[j] \in S
  BY LenProperties
<1>2. i \in Nat /\ i >= 1 /\ i <= n
  BY <1>1
<1>3. \A j, k \in 1..n : j < k => key[q[j]] < key[q[k]]
  BY DEF Ordered
<1>4. \A j \in 1..n : key[q[j]] \in Nat
  BY <1>1
<1> HIDE DEF n
<1>5. \A j \in 1..(i - 1) : j \in 1..n /\ j < i
  BY <1>1, <1>2
<1>6. \A j \in 1..(i - 1) : q[j] \in B
  <2> SUFFICES ASSUME NEW j \in 1..(i - 1) PROVE q[j] \in B
    OBVIOUS
  <2>1. j \in 1..n /\ i \in 1..n /\ j < i
    BY <1>1, <1>2, <1>5
  <2>2. key[q[j]] < key[q[i]] /\ q[j] \in ToSet(q)
    BY <1>1, <1>3, <2>1 DEF ToSet
  <2> QED BY <2>2 DEF Before
<1>7. ASSUME NEW y \in B PROVE \E j \in 1..(i - 1) : q[j] = y
  <2>1. PICK j \in 1..n : q[j] = y /\ key[q[j]] < key[q[i]]
    BY <1>1 DEF Before, ToSet
  <2>2. ~(j = i) /\ ~(i < j)
    <3>1. i \in 1..n /\ key[q[i]] \in Nat /\ key[q[j]] \in Nat
      BY <1>1, <1>2, <1>4
    <3> QED BY <1>3, <2>1, <3>1
  <2>3. j \in 1..(i - 1)
    BY <1>1, <1>2, <2>2
  <2> QED BY <2>1, <2>3
<1>8. ASSUME NEW j \in 1..(i - 1), NEW k \in 1..(i - 1), q[j] = q[k] PROVE j = k
  <2>1. j \in 1..n /\ k \in 1..n /\ (j < k \/ k < j \/ j = k)
    BY <1>2, <1>5
  <2> QED BY <1>3, <1>4, <1>8, <2>1
<1> HIDE DEF B
<1>9. f \in Bijection(1..(i - 1), B)
  BY <1>6, <1>7, <1>8 DEF Bijection, Injection, IsInjective, Surjection
<1>10. IsFiniteSet(1..(i - 1)) /\ Cardinality(1..(i - 1)) = i - 1
  <2>1. 1 \in Int /\ i - 1 \in Int
    BY <1>2
  <2>2. IsFiniteSet(1..(i - 1)) /\ Cardinality(1..(i - 1)) = IF 1 > i - 1 THEN 0 ELSE (i - 1) - 1 + 1
    BY <2>1, FS_Interval
  <2> QED BY <1>2, <2>2
<1>11. ExistsBijection(1..(i - 1), B)
  BY <1>9 DEF ExistsBijection
<1>12. Cardinality(B) = Cardinality(1..(i - 1))
  BY <1>10, <1>11, FS_Bijection
<1> QED BY <1>10, <1>12 DEF B

\* So two such sequences of the same elements are the same.
LEMMA SameOrder ==
    ASSUME NEW S, NEW q \in Seq(S), NEW r \in Seq(S), ToSet(q) = ToSet(r), NEW key \in [S -> Nat],
           Ordered(q, key), Ordered(r, key)
    PROVE  q = r
<1>1. /\ Len(q) \in Nat /\ DOMAIN q = 1..Len(q) /\ Len(r) \in Nat /\ DOMAIN r = 1..Len(r)
  BY LenProperties
<1>2. \A x : Before(q, key, x) = Before(r, key, x)
  BY DEF Before
<1>3. \A i \in 1..Len(q) : Cardinality(Before(q, key, q[i])) = i - 1
  BY PlaceIs
<1>4. \A i \in 1..Len(r) : Cardinality(Before(r, key, r[i])) = i - 1
  BY PlaceIs
<1>5. ASSUME NEW i \in 1..Len(q) PROVE i \in 1..Len(r) /\ r[i] = q[i]
  <2>1. PICK j \in 1..Len(r) : r[j] = q[i]
    BY <1>1 DEF ToSet
  <2>2. i - 1 = j - 1
    BY <1>2, <1>3, <1>4, <2>1
  <2>3. i = j
    BY <1>1, <2>2
  <2> QED BY <2>1, <2>3
<1>6. ASSUME NEW i \in 1..Len(r) PROVE i \in 1..Len(q)
  <2>1. PICK j \in 1..Len(q) : q[j] = r[i]
    BY <1>1 DEF ToSet
  <2>2. i - 1 = j - 1
    BY <1>2, <1>3, <1>4, <2>1
  <2>3. i = j
    BY <1>1, <2>2
  <2> QED BY <2>3
<1>7. Len(q) = Len(r)
  <2>1. Len(q) >= 1 => Len(q) <= Len(r)
    <3>1. Len(q) >= 1 => Len(q) \in 1..Len(q)
      BY <1>1
    <3>2. Len(q) \in 1..Len(r) => Len(q) <= Len(r)
      BY <1>1
    <3> QED BY <1>5, <3>1, <3>2
  <2>2. Len(r) >= 1 => Len(r) <= Len(q)
    <3>1. Len(r) >= 1 => Len(r) \in 1..Len(r)
      BY <1>1
    <3>2. Len(r) \in 1..Len(q) => Len(r) <= Len(q)
      BY <1>1
    <3> QED BY <1>6, <3>1, <3>2
  <2>3. \A m, n \in Nat : (m >= 1 => m <= n) /\ (n >= 1 => n <= m) => m = n
    OBVIOUS
  <2>4. Len(q) \in Nat /\ Len(r) \in Nat
    BY <1>1
  <2> QED BY <2>1, <2>2, <2>3, <2>4
<1> QED BY <1>1, <1>5, <1>7

\* How far an id is ahead of another, over the end of the range.
Distance(x, a) == (x + MAX_MSG_ID - a) % MAX_MSG_ID

LEMMA DistanceIs ==
    ASSUME NEW x \in Ids, NEW a \in Ids
    PROVE  Distance(x, a) = IF x < a THEN x + MAX_MSG_ID - a ELSE x - a
<1>1. MAX_MSG_ID \in Nat \ {0} /\ x \in 1..MAX_MSG_ID /\ a \in 1..MAX_MSG_ID
  BY DEF Ids
<1>2. CASE x < a
  <2>1. PICK r \in 0..(MAX_MSG_ID - 1) : r = x + MAX_MSG_ID - a
    BY <1>1, <1>2
  <2>2. r % MAX_MSG_ID = r
    BY <1>1, Remainder
  <2> QED BY <1>2, <2>1, <2>2 DEF Distance
<1>3. CASE ~(x < a)
  <2>1. PICK r \in 0..(MAX_MSG_ID - 1) : r = x - a
    BY <1>1, <1>3
  <2>2. (r + MAX_MSG_ID) % MAX_MSG_ID = r
    BY <1>1, Remainder
  <2>3. x + MAX_MSG_ID - a = r + MAX_MSG_ID
    BY <1>1, <2>1
  <2> QED BY <1>3, <2>1, <2>2, <2>3 DEF Distance
<1> QED BY <1>2, <1>3

\* When every id is less than half the range ahead of the id at k, only the
\* gap before that is the largest.
LEMMA GapsAre ==
    ASSUME NEW S, NEW s \in Seq(S), NEW k \in 1..Len(s), NEW i \in 1..Len(s),
           \A j \in 1..Len(s) : s[j].n \in 1..MAX_MSG_ID /\ 2 * Distance(s[j].n, s[k].n) < MAX_MSG_ID,
           \A j, l \in 1..Len(s) : j < l => s[j].n < s[l].n,
           Gap(s, k) <= Gap(s, i)
    PROVE  i = k
<1> DEFINE n == Len(s)
           a == s[k].n
           M == MAX_MSG_ID
<1>1. n \in Nat /\ k \in Nat /\ k >= 1 /\ k <= n /\ i \in Nat /\ i >= 1 /\ i <= n /\ M \in Nat \ {0}
  BY LenProperties
<1>2. ASSUME NEW j \in 1..n
      PROVE  /\ s[j].n \in Nat /\ s[j].n >= 1 /\ s[j].n <= M
             /\ s[j].n < a => 2 * (s[j].n + M - a) < M
             /\ ~(s[j].n < a) => 2 * (s[j].n - a) < M
  <2>1. s[j].n \in Ids /\ a \in Ids
    BY DEF Ids
  <2>2. 2 * Distance(s[j].n, a) < M
    OBVIOUS
  <2>3. Distance(s[j].n, a) = IF s[j].n < a THEN s[j].n + M - a ELSE s[j].n - a
    BY <2>1, DistanceIs
  <2> HIDE DEF a
  <2> QED BY <1>1, <2>1, <2>2, <2>3 DEF Ids
<1>3. a \in Nat /\ a >= 1 /\ a <= M
  BY <1>2
<1>4. \A j, l \in 1..n : j < l => s[j].n < s[l].n
  OBVIOUS
<1> SUFFICES ASSUME i # k PROVE FALSE
  OBVIOUS
<1> HIDE DEF n, a, M
<1>5. 2 * Gap(s, k) > M
  <2>1. CASE k = 1
    <3>1. Gap(s, k) = M - s[n].n + a
      BY <2>1 DEF Gap, M, n, a
    <3>2. n \in 1..n /\ k < n
      BY <1>1, <2>1
    <3>3. a < s[n].n
      BY <1>1, <1>4, <3>2 DEF a, n
    <3>4. 2 * (s[n].n - a) < M /\ s[n].n \in Nat
      BY <1>2, <1>3, <3>2, <3>3
    <3> QED BY <1>1, <1>3, <3>1, <3>4
  <2>2. CASE k # 1
    <3>1. Gap(s, k) = a - s[k - 1].n
      BY <2>2 DEF Gap, a
    <3>2. PICK j \in 1..n : j = k - 1 /\ j < k
      BY <1>1, <2>2
    <3>3. s[j].n < a
      BY <1>1, <1>4, <3>2 DEF a, n
    <3>4. 2 * (s[j].n + M - a) < M /\ s[j].n \in Nat
      BY <1>2, <1>3, <3>2, <3>3
    <3> QED BY <1>1, <1>3, <3>1, <3>2, <3>4
  <2> QED BY <2>1, <2>2
<1>6. 2 * Gap(s, i) < M /\ Gap(s, i) \in Int
  <2>1. i \in 1..n /\ n \in 1..n /\ k \in 1..n /\ 1 \in 1..n
    BY <1>1
  <2>2. CASE i = 1
    <3>1. Gap(s, i) = M - s[n].n + s[i].n
      BY <2>2 DEF Gap, M, n
    <3>2. s[i].n < a
      BY <1>1, <1>4, <2>1, <2>2 DEF a
    <3>3. s[n].n >= a /\ s[n].n \in Nat
      <4>1. k = n \/ k < n
        BY <1>1
      <4>2. k < n => a < s[n].n
        BY <1>4, <2>1 DEF a
      <4>3. k = n => a = s[n].n
        BY DEF a
      <4> QED BY <1>2, <1>3, <2>1, <4>1, <4>2, <4>3
    <3>4. 2 * (s[i].n + M - a) < M /\ s[i].n \in Nat
      BY <1>2, <2>1, <3>2
    <3>5. \A x, y \in Nat : y >= a /\ 2 * (x + M - a) < M => 2 * (M - y + x) < M /\ M - y + x \in Int
      BY <1>1, <1>3
    <3> QED BY <3>1, <3>3, <3>4, <3>5
  <2>3. CASE i # 1 /\ i < k
    <3>1. Gap(s, i) = s[i].n - s[i - 1].n
      BY <2>3 DEF Gap
    <3>2. PICK j \in 1..n : j = i - 1
      BY <1>1, <2>3
    <3>3. s[i].n < a
      BY <1>4, <2>1, <2>3 DEF a
    <3>4. 2 * (s[i].n + M - a) < M /\ s[i].n \in Nat /\ s[j].n \in Nat /\ s[j].n >= 1
      BY <1>2, <2>1, <3>3
    <3> QED BY <1>1, <1>3, <3>1, <3>2, <3>4
  <2>4. CASE i # 1 /\ i > k
    <3>1. Gap(s, i) = s[i].n - s[i - 1].n
      BY <2>4 DEF Gap
    <3>2. PICK j \in 1..n : j = i - 1 /\ (j = k \/ k < j)
      BY <1>1, <2>4
    <3>3. s[i].n > a
      BY <1>4, <2>1, <2>4 DEF a
    <3>4. s[j].n >= a /\ s[j].n \in Nat
      <4>1. k < j => a < s[j].n
        BY <1>4, <2>1 DEF a
      <4>2. k = j => a = s[j].n
        BY DEF a
      <4> QED BY <1>2, <1>3, <3>2, <4>1, <4>2
    <3>5. 2 * (s[i].n - a) < M /\ s[i].n \in Nat
      BY <1>2, <1>3, <2>1, <3>3
    <3>6. \A x, y \in Nat : y >= a /\ 2 * (x - a) < M => 2 * (x - y) < M /\ x - y \in Int
      BY <1>1, <1>3
    <3> QED BY <3>1, <3>2, <3>4, <3>5, <3>6
  <2> QED BY <1>1, <2>2, <2>3, <2>4
<1>7. Gap(s, k) \in Int
  <2>1. CASE k = 1
    <3>1. n \in 1..n /\ s[n].n \in Nat
      BY <1>1, <1>2
    <3> QED BY <1>1, <1>3, <2>1, <3>1 DEF Gap, M, n, a
  <2>2. CASE k # 1
    <3>1. PICK j \in 1..n : j = k - 1
      BY <1>1, <2>2
    <3>2. s[j].n \in Nat
      BY <1>2
    <3> QED BY <1>3, <2>2, <3>1, <3>2 DEF Gap, a
  <2> QED BY <2>1, <2>2
<1> QED BY <1>1, <1>5, <1>6, <1>7

\* Turned there, the ids are in the order of their distance.
LEMMA TurnedIs ==
    ASSUME NEW S, NEW s \in Seq(S), NEW k \in 1..Len(s),
           \A j \in 1..Len(s) : s[j].n \in 1..MAX_MSG_ID,
           \A j, l \in 1..Len(s) : j < l => s[j].n < s[l].n
    PROVE  \A j, l \in 1..Len(s) : j < l =>
              Distance(Rotated(s, k)[j].n, s[k].n) < Distance(Rotated(s, k)[l].n, s[k].n)
<1> DEFINE n == Len(s)
           a == s[k].n
           M == MAX_MSG_ID
           t == Rotated(s, k)
<1>1. n \in Nat /\ k \in Nat /\ k >= 1 /\ k <= n /\ M \in Nat \ {0}
  BY LenProperties
<1>2. \A j \in 1..n : s[j].n \in Nat /\ s[j].n >= 1 /\ s[j].n <= M /\ s[j].n \in Ids
  BY <1>1 DEF Ids
<1>3. a \in Nat /\ a >= 1 /\ a <= M /\ a \in Ids
  BY <1>2
<1>4. \A j, l \in 1..n : j < l => s[j].n < s[l].n
  OBVIOUS
<1>5. /\ \A j \in 1..(n - k + 1) : t[j] = s[k + j - 1]
      /\ \A j \in (n - k + 2)..n : t[j] = s[j - (n - k + 1)]
  BY RotatedIs DEF Rotated
<1> HIDE DEF n, a, M, t
<1>6. ASSUME NEW j \in 1..n
      PROVE  \E x \in 1..n :
                /\ t[j].n = s[x].n
                /\ \/ x >= k /\ x = k + j - 1 /\ Distance(t[j].n, a) = s[x].n - a
                   \/ x < k /\ x = j - (n - k + 1) /\ Distance(t[j].n, a) = s[x].n + M - a
  <2>1. CASE j \in 1..(n - k + 1)
    <3>1. PICK x \in 1..n : x = k + j - 1 /\ x >= k
      BY <1>1, <2>1
    <3>2. t[j].n = s[x].n
      BY <1>5, <2>1, <3>1
    <3>3. ~(s[x].n < a)
      <4>1. x = k \/ k < x
        BY <1>1, <3>1
      <4>2. k < x => a < s[x].n
        BY <1>1, <1>4 DEF a
      <4>3. x = k => s[x].n = a
        BY DEF a
      <4> QED BY <1>2, <1>3, <4>1, <4>2, <4>3
    <3>4. Distance(s[x].n, a) = s[x].n - a
      BY <1>2, <1>3, <3>3, DistanceIs
    <3> QED BY <3>1, <3>2, <3>4
  <2>2. CASE j \in (n - k + 2)..n
    <3>1. PICK x \in 1..n : x = j - (n - k + 1) /\ x < k
      BY <1>1, <2>2
    <3>2. t[j].n = s[x].n
      BY <1>5, <2>2, <3>1
    <3>3. s[x].n < a
      <4>1. k \in 1..n
        BY <1>1
      <4> QED BY <1>4, <3>1, <4>1 DEF a
    <3>4. Distance(s[x].n, a) = s[x].n + M - a
      BY <1>2, <1>3, <3>3, DistanceIs DEF M
    <3> QED BY <3>1, <3>2, <3>4
  <2> QED BY <1>1, <2>1, <2>2
<1> SUFFICES ASSUME NEW j \in 1..n, NEW l \in 1..n, j < l PROVE Distance(t[j].n, a) < Distance(t[l].n, a)
  BY DEF n, t, a
<1>7. PICK x \in 1..n :
                /\ t[j].n = s[x].n
                /\ \/ x >= k /\ x = k + j - 1 /\ Distance(t[j].n, a) = s[x].n - a
                   \/ x < k /\ x = j - (n - k + 1) /\ Distance(t[j].n, a) = s[x].n + M - a
  BY <1>6
<1>8. PICK y \in 1..n :
                /\ t[l].n = s[y].n
                /\ \/ y >= k /\ y = k + l - 1 /\ Distance(t[l].n, a) = s[y].n - a
                   \/ y < k /\ y = l - (n - k + 1) /\ Distance(t[l].n, a) = s[y].n + M - a
  BY <1>6
<1>9. s[x].n \in Nat /\ s[y].n \in Nat /\ s[x].n >= 1 /\ s[y].n >= 1 /\ s[x].n <= M /\ s[y].n <= M
  BY <1>2
<1>10. CASE x >= k /\ y >= k
  <2>1. x < y
    BY <1>1, <1>7, <1>8, <1>10
  <2>2. s[x].n < s[y].n
    BY <1>4, <2>1
  <2>3. Distance(t[j].n, a) = s[x].n - a /\ Distance(t[l].n, a) = s[y].n - a
    BY <1>1, <1>7, <1>8, <1>10
  <2> QED BY <1>3, <1>9, <2>2, <2>3
<1>11. CASE x >= k /\ y < k
  <2>1. Distance(t[j].n, a) = s[x].n - a /\ Distance(t[l].n, a) = s[y].n + M - a
    BY <1>1, <1>7, <1>8, <1>11
  <2>2. \A u, v \in Nat : u <= M /\ v >= 1 => u - a < v + M - a
    BY <1>1, <1>3
  <2> QED BY <1>9, <2>1, <2>2
<1>12. CASE x < k /\ y < k
  <2>1. x < y
    BY <1>1, <1>7, <1>8, <1>12
  <2>2. s[x].n < s[y].n
    BY <1>4, <2>1
  <2>3. Distance(t[j].n, a) = s[x].n + M - a /\ Distance(t[l].n, a) = s[y].n + M - a
    BY <1>1, <1>7, <1>8, <1>12
  <2> QED BY <1>1, <1>3, <1>9, <2>2, <2>3
<1>13. ~(x < k /\ y >= k)
  BY <1>1, <1>7, <1>8
<1> QED BY <1>1, <1>10, <1>11, <1>12, <1>13

LEMMA OrderKept ==
    ASSUME Typed, Persistence = 1, MemorySound(c, disk), Recent(c.outboundMsgs)
    PROVE  OutboundOnDisk = c.outboundMsgs
<1> DEFINE q == c.outboundMsgs
           r == OutboundOnDisk
           t == RestoredFiles
           S == Files("s")
           s == ById(S)
           n == Len(s)
<1>1. /\ q \in Seq(OutEntries) /\ r \in Seq(OutEntries) /\ ToSet(q) = ToSet(r)
      /\ Len(q) \in Nat /\ DOMAIN q = 1..Len(q) /\ Len(r) \in Nat /\ DOMAIN r = 1..Len(r)
  <2>1. q \in Seq(OutEntries) /\ r \in Seq(OutEntries)
    BY NowIs, FieldsOf, OutboundOnDiskIs
  <2>2. ToSet(q) = ToSet(r)
    BY StoredEntries DEF MemorySound
  <2> QED BY <2>1, <2>2, LenProperties
<1>2. \A i \in DOMAIN q : q[i] \in ToSet(r)
  BY <1>1 DEF ToSet
<1>3. \A i \in DOMAIN r : r[i] \in ToSet(q)
  BY <1>1 DEF ToSet
<1>4. r = [i \in DOMAIN t |-> RestoredOutbound(t[i])]
  BY DEF OutboundOnDisk, RestoredFiles
<1>5. \A i \in 1..Len(r) : t[i] \in S /\ r[i].id = t[i].id /\ t[i].id = t[i].n
  <2>1. DOMAIN t = 1..Len(t) /\ \A i \in 1..Len(t) : t[i] \in S
    BY RestoredFilesAre, LenProperties
  <2>2. DOMAIN r = DOMAIN t /\ \A i \in DOMAIN t : r[i] = RestoredOutbound(t[i])
    <3> HIDE DEF r, t
    <3> QED BY <1>4
  <2>3. \A f : RestoredOutbound(f).id = f.id
    BY DEF RestoredOutbound
  <2>4. \A f \in S : f.id = f.n
    BY SentFileIs
  <2> HIDE DEF r, t, S
  <2> QED BY <1>1, <2>1, <2>2, <2>3, <2>4
<1>6. /\ s \in Seq(S) /\ n \in Nat /\ \A f \in S : \E i \in 1..n : s[i] = f
      /\ \A i, j \in 1..n : i < j => s[i].n < s[j].n
  BY FilesNumbered, ByIdIs
<1>7. \A i \in 1..n : s[i] \in S /\ s[i].n \in Ids /\ s[i].id = s[i].n
  BY <1>6, SentFileIs
<1>8. CASE q = <<>>
  <2>1. \A i \in DOMAIN q : FALSE
    BY <1>8
  <2>2. \A i \in DOMAIN r : FALSE
    BY <1>3, <2>1 DEF ToSet
  <2>a. Len(r) \in Nat /\ DOMAIN r = 1..Len(r)
    BY <1>1
  <2> HIDE DEF r
  <2>3. Len(r) = 0
    <3>1. Len(r) >= 1 => 1 \in DOMAIN r
      BY <2>a
    <3> QED BY <2>2, <2>a, <3>1
  <2> QED BY <1>1, <1>8, <2>3, EmptySeq DEF r
<1>9. CASE q # <<>>
  <2> DEFINE a == q[1].id
             key == [e \in OutEntries |-> Distance(e.id, a)]
  <2>1. 1 \in DOMAIN q /\ q[1] \in OutEntries /\ a \in Ids
    <3>1. Len(q) >= 1
      BY <1>1, <1>9, EmptySeq
    <3>2. 1 \in DOMAIN q /\ q[1] \in OutEntries
      BY <1>1, <3>1
    <3> QED BY <3>2 DEF OutEntries
  <2>2. \A i \in DOMAIN q : Ahead(q, i) = Distance(q[i].id, a)
    BY DEF Ahead, Distance
  <2>3. \A i \in DOMAIN q : 2 * Distance(q[i].id, a) < MAX_MSG_ID
    BY <2>2 DEF Recent
  <2>4. \A i, j \in DOMAIN q : i < j => Distance(q[i].id, a) < Distance(q[j].id, a)
    BY <2>2 DEF Recent
  <2> HIDE DEF q, r, s, S, t, n
  <2>5. PICK i1 \in DOMAIN r : r[i1] = q[1]
    BY <1>2, <2>1 DEF ToSet
  <2>6. PICK k \in 1..n : s[k] = t[i1]
    BY <1>1, <1>5, <1>6, <2>5
  <2>7. s[k].n = a
    BY <1>1, <1>5, <2>5, <2>6
  <2>8. \A j \in 1..n : 2 * Distance(s[j].n, s[k].n) < MAX_MSG_ID
    <3> SUFFICES ASSUME NEW j \in 1..n PROVE 2 * Distance(s[j].n, s[k].n) < MAX_MSG_ID
      OBVIOUS
    <3>1. RestoredOutbound(s[j]) \in ToSet(r)
      BY <1>7, OutboundOnDiskIs DEF r, S
    <3>2. PICK i \in DOMAIN q : q[i] = RestoredOutbound(s[j])
      BY <1>1, <3>1 DEF ToSet
    <3>3. q[i].id = s[j].n
      BY <1>7, <3>2 DEF RestoredOutbound
    <3> QED BY <2>3, <2>7, <3>3
  <2>9. \A i \in 1..n : s[i].n \in 1..MAX_MSG_ID
    BY <1>7 DEF Ids
  <2>10. s # <<>>
    BY <1>6, <2>6, EmptySeq DEF n
  <2>11. PICK i \in 1..n : Wrapped(s) = Rotated(s, i) /\ \A j \in 1..n : Gap(s, j) <= Gap(s, i)
    BY <1>6, <2>9, <2>10, WrappedIs DEF n
  <2>12. i = k
    BY <1>6, <2>8, <2>9, <2>11, GapsAre DEF n
  <2>13. t = Rotated(s, k)
    BY <2>11, <2>12 DEF t, s, S, RestoredFiles
  <2>14. Len(r) = n
    <3>1. OnceEach(s)
      <4> SUFFICES ASSUME NEW j \in 1..n, NEW l \in 1..n, s[j] = s[l] PROVE j = l
        BY DEF OnceEach, n
      <4>1. j < l \/ l < j \/ j = l
        BY <1>6
      <4>2. s[j].n \in Nat
        BY <2>9
      <4> QED BY <1>6, <4>1, <4>2
    <3>2. Len(t) = n /\ t \in Seq(S)
      BY <1>6, <2>13, <3>1, RotatedAll DEF n
    <3>3. DOMAIN r = DOMAIN t
      BY <1>4
    <3>4. DOMAIN t = 1..n
      BY <3>2, LenProperties
    <3>5. 1..Len(r) = 1..n
      BY <1>1, <3>3, <3>4
    <3>6. \A x, y \in Nat : 1..x = 1..y => x = y
      <4> SUFFICES ASSUME NEW x \in Nat, NEW y \in Nat, 1..x = 1..y PROVE x = y
        OBVIOUS
      <4>1. x >= 1 => x \in 1..y
        OBVIOUS
      <4>2. y >= 1 => y \in 1..x
        OBVIOUS
      <4> QED BY <4>1, <4>2
    <3> QED BY <1>1, <1>6, <3>5, <3>6
  <2>15. \A j, l \in 1..n : j < l => Distance(t[j].n, a) < Distance(t[l].n, a)
    BY <1>6, <2>7, <2>9, <2>13, TurnedIs DEF n
  <2>16. key \in [OutEntries -> Nat]
    <3> SUFFICES ASSUME NEW e \in OutEntries PROVE Distance(e.id, a) \in Nat
      OBVIOUS
    <3>1. e.id \in Ids
      BY DEF OutEntries
    <3> QED BY <2>1, <3>1, DistanceIs DEF Ids
  <2>17. \A i1_ \in 1..Len(q) : q[i1_] \in OutEntries /\ key[q[i1_]] = Distance(q[i1_].id, a)
    BY <1>1
  <2>18. Ordered(q, key)
    <3> HIDE DEF key, a
    <3> QED BY <1>1, <2>4, <2>17 DEF Ordered
  <2>19. \A j \in 1..n : r[j] \in OutEntries /\ key[r[j]] = Distance(t[j].n, a)
    BY <1>1, <1>5, <2>14
  <2>20. Ordered(r, key)
    <3> HIDE DEF key, a
    <3> QED BY <2>14, <2>15, <2>19 DEF Ordered
  <2> HIDE DEF key
  <2>21. r = q
    BY <1>1, <2>16, <2>18, <2>20, SameOrder
  <2> QED BY <2>21 DEF q, r
<1> QED BY <1>8, <1>9

LEMMA RestartFollows ==
    ASSUME Typed, Persistence = 1 => OutSound
    PROVE  RestartKeepsOutbound
<1> SUFFICES ASSUME Persistence = 1, c.running = 1
             PROVE  /\ ToSet(OutboundOnDisk) = ToSet(c.outboundMsgs)
                    /\ Recent(c.outboundMsgs) => OutboundOnDisk = c.outboundMsgs
  BY DEF RestartKeepsOutbound
<1>1. MemorySound(c, disk)
  BY DEF OutSound, OutMemory
<1>2. ToSet(OutboundOnDisk) = ToSet(c.outboundMsgs)
  BY <1>1, StoredEntries DEF MemorySound
<1>3. Recent(c.outboundMsgs) => OutboundOnDisk = c.outboundMsgs
  BY <1>1, OrderKept
<1> QED BY <1>2, <1>3

\* Whatever the store and the memory of a running process have been through,
\* a new process begins with the same messages in flight, each at the same
\* point of its exchange, and as long as their ids lie within half the range
\* in the same order.
THEOREM StoreHoldsOutbound == "resume" \notin Faults => (Spec => []RestartKeepsOutbound)
<1> SUFFICES ASSUME "resume" \notin Faults PROVE Spec => []RestartKeepsOutbound
  OBVIOUS
<1> DEFINE I == Typed /\ ProcessSound /\ (Persistence = 1 => OutSound)
<1>1. Init => I
  BY InitTyped, InitSound
<1>2. I /\ [Next]_vars => I'
  <2> SUFFICES ASSUME I, [Next]_vars PROVE I'
    OBVIOUS
  <2>1. Persistence = 1 => OutFaults
    BY DEF OutFaults
  <2>2. Persistence = 1 => OutSound'
    BY <2>1, OutNext
  <2> QED BY <2>2, NextTyped, ProcessNext
<1>3. I => RestartKeepsOutbound
  BY RestartFollows
<1> QED BY <1>1, <1>2, <1>3, PTL DEF Spec
=============================================================================
