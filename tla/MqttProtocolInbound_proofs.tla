--------------------- MODULE MqttProtocolInbound_proofs ---------------------
(***************************************************************************)
(* Proofs about MqttProtocol: the messages from the broker to the client.  *)
(* InInv and InKept say what holds of the exchanges, as sets; the first    *)
(* lemmas say how they change, without a queue or a process.  One lemma    *)
(* for each step follows, from what the step does (MqttProtocol_proofs).   *)
(***************************************************************************)
EXTENDS MqttProtocol_proofs

USE MessagesAssumption, IdsAssumption, OptionsAssumption, FaultsAssumption
-----------------------------------------------------------------------------
(* The messages to the client, as sets: X are those in flight, F the       *)
(* packets of the exchanges, known the ids of QoS 2 the client has, todo   *)
(* what the broker has not sent yet, got what the client has offered to    *)
(* the application or holds for it.                                        *)

FirstReply(m) == IF m \in Inbound1 THEN "PUBACK" ELSE "PUBREC"
Meets(p, e) ==
    /\ e.id = p.id
    /\ p.type = "PUBLISH" => p.msg = e.msg /\ e.next = FirstReply(e.msg)
    /\ p.type \in {"PUBREL", "PUBCOMP"} => e.next = "PUBCOMP"
    /\ p.type \in {"PUBACK", "PUBREC"} => e.next = p.type

\* No id and no message is in flight twice, every packet belongs to a message
\* in flight, and a message the broker may send once more has not been
\* offered, unless it is of MQTT 5 and its id is known.
InInv(X, F, known, todo, got) ==
    /\ \A x, y \in X : x.id = y.id \/ x.msg = y.msg => x = y
    /\ \A x \in X : x.msg \notin todo /\ (x.next = FirstReply(x.msg) \/ (x.msg \in Inbound2 /\ x.next = "PUBCOMP"))
    /\ \A p \in F : \E e \in X : Meets(p, e)
    /\ \A m \in todo : m \notin got
    /\ \A e \in X : e.next = "PUBREC" /\ e.msg \in got => Version = 5 /\ e.id \in known

\* As long as the process lives, I is what it knows of the messages of QoS 2,
\* and what has been acknowledged for good has been offered.
InKept(X, F, I, todo, got) ==
    /\ \A x \in I : \E e \in X : e.id = x.id /\ e.msg = x.msg
    /\ \A x \in I : IF Version = 5 THEN x.msg \in got ELSE x.msg \notin got
    /\ \A e \in X : e.next = "PUBCOMP" => e.msg \in got \/ \E x \in I : x.id = e.id
    /\ \A p \in F : p.type = "PUBREC" => \E x \in I : x.id = p.id
    /\ \A p \in F : p.type = "PUBCOMP" => \A x \in I : x.id # p.id
    /\ \A p \in F, e \in X : p.type \in {"PUBACK", "PUBCOMP"} /\ p.id = e.id => e.msg \in got
    /\ \A m \in Inbound : m \in todo \/ m \in got \/ \E e \in X : e.msg = m

LEMMA FirstReplyIs ==
    ASSUME NEW m \in Inbound
    PROVE  /\ m \in Inbound1 => FirstReply(m) = "PUBACK" /\ m \notin Inbound2
           /\ m \in Inbound2 => FirstReply(m) = "PUBREC" /\ m \notin Inbound1
           /\ FirstReply(m) # "PUBCOMP"
  BY IdsAreNumbers DEF FirstReply, Inbound

\* Fewer packets, of a message fewer that has been offered, more known ids.
LEMMA InFewer ==
    ASSUME NEW X, NEW F, NEW known, NEW todo, NEW got, InInv(X, F, known, todo, got),
           NEW G, G \subseteq F, NEW more, known \subseteq more, NEW less, less \subseteq got
    PROVE  InInv(X, G, more, todo, less)
  BY DEF InInv

LEMMA KeptFewer ==
    ASSUME NEW X, NEW F, NEW I, NEW todo, NEW got, InKept(X, F, I, todo, got), NEW G, G \subseteq F
    PROVE  InKept(X, G, I, todo, got)
  BY DEF InKept

\* The packet a message gets when it is published.
LEMMA InPublished ==
    ASSUME NEW X \in SUBSET BrokerEntries, NEW F, NEW known, NEW todo, NEW got, InInv(X, F, known, todo, got),
           NEW m \in todo, m \in Inbound, NEW e, e.msg = m, e.next = FirstReply(m), \A x \in X : x.id # e.id,
           NEW p, p.type = "PUBLISH", p.id = e.id, p.msg = m
    PROVE  /\ InInv(X \cup {e}, F \cup {p}, known, todo \ {m}, got)
           /\ \A I : InKept(X, F, I, todo, got) => InKept(X \cup {e}, F \cup {p}, I, todo \ {m}, got)
<1>1. \A x \in X : x.id # e.id /\ x.msg # e.msg
  BY DEF InInv
<1>2. \A x, y \in X \cup {e} : x.id = y.id \/ x.msg = y.msg => x = y
  BY <1>1 DEF InInv
<1>3. Meets(p, e) /\ \A t \in F : \E x \in X : Meets(t, x)
  BY DEF Meets, InInv
<1>4. \A t \in F \cup {p} : \E x \in X \cup {e} : Meets(t, x)
  BY <1>3
<1>5. m \notin got /\ e.msg \notin todo \ {m}
  BY DEF InInv
<1>6. InInv(X \cup {e}, F \cup {p}, known, todo \ {m}, got)
  BY <1>2, <1>4, <1>5 DEF InInv
<1>7. ASSUME NEW I, InKept(X, F, I, todo, got) PROVE InKept(X \cup {e}, F \cup {p}, I, todo \ {m}, got)
  <2>1. e.next # "PUBCOMP"
    BY FirstReplyIs
  <2>2. \A t \in F : t.id # e.id
    BY <1>1, <1>3 DEF Meets
  <2>3. \A t \in F \cup {p}, x \in X \cup {e} : t.type \in {"PUBACK", "PUBCOMP"} /\ t.id = x.id => x.msg \in got
    BY <1>7, <2>2 DEF InKept
  <2> QED BY <1>7, <2>1, <2>3 DEF InKept
<1> QED BY <1>6, <1>7

\* A PUBLISH of QoS 1 has been read: the message has been offered before its
\* PUBACK counts.
LEMMA InAcked1 ==
    ASSUME NEW X \in SUBSET BrokerEntries, NEW F, NEW known, NEW todo, NEW got, InInv(X, F, known, todo, got),
           NEW p \in F, p.type = "PUBLISH", p.msg \in Inbound1, NEW G \in SUBSET F, \A t \in G : t.id # p.id,
           NEW a, a.id = p.id, a.type = "PUBACK"
    PROVE  /\ \A H \in {G, G \cup {a}}, less \in SUBSET (got \cup {p.msg}) : \A more : known \subseteq more
                 => InInv(X, H, more, todo, less)
           /\ \A I : InKept(X, F, I, todo, got) /\ I \subseteq InEntries
                 => InKept(X, G \cup {a}, I, todo, got \cup {p.msg})
<1>1. PICK e \in X : Meets(p, e)
  BY DEF InInv
<1>2. e.id = p.id /\ e.msg = p.msg /\ e.next = "PUBACK"
  BY <1>1, FirstReplyIs DEF Meets, Inbound
<1>3. \A x \in X : x.id = p.id \/ x.msg = p.msg => x = e
  BY <1>2 DEF InInv
<1>4. p.msg \notin todo
  BY <1>2 DEF InInv
<1>5. Meets(a, e)
  BY <1>2 DEF Meets
<1>6. ASSUME NEW H \in {G, G \cup {a}}, NEW less \in SUBSET (got \cup {p.msg}), NEW more, known \subseteq more
      PROVE  InInv(X, H, more, todo, less)
  <2>1. \A t \in H : \E x \in X : Meets(t, x)
    BY <1>5 DEF InInv
  <2>2. \A m \in todo : m \notin less
    BY <1>4 DEF InInv
  <2>3. \A x \in X : x.next = "PUBREC" /\ x.msg \in less => Version = 5 /\ x.id \in more
    BY <1>2, <1>3, <1>6 DEF InInv
  <2> QED BY <2>1, <2>2, <2>3 DEF InInv
<1>7. ASSUME NEW I, InKept(X, F, I, todo, got), I \subseteq InEntries
      PROVE  InKept(X, G \cup {a}, I, todo, got \cup {p.msg})
  <2>1. \A x \in I : x.msg # p.msg
    BY <1>7, IdsAreNumbers DEF InEntries
  <2>2. \A t \in G \cup {a}, x \in X : t.type \in {"PUBACK", "PUBCOMP"} /\ t.id = x.id => x.msg \in got \cup {p.msg}
    BY <1>2, <1>3, <1>7 DEF InKept
  <2>3. \A t \in G \cup {a} : t.type \in {"PUBREC", "PUBCOMP"} => t \in F
    OBVIOUS
  <2> QED BY <1>7, <2>1, <2>2, <2>3 DEF InKept
<1> QED BY <1>6, <1>7

\* A PUBLISH of QoS 2 has been read: its id is known, and with MQTT 5 the
\* message has been offered if the id was new.
Replies2(p, F, G, a) ==
    /\ p \in F /\ p.type = "PUBLISH" /\ p.msg \in Inbound2
    /\ G \subseteq F /\ \A t \in G : t.id # p.id
    /\ a.id = p.id /\ a.type = "PUBREC"
Acked2(X, G, known, todo, got, p, a) ==
    /\ \A H \in {G, G \cup {a}}, less \in SUBSET (got \cup {p.msg}) : \A more :
          known \cup {p.id} \subseteq more /\ (Version = 5 \/ less \subseteq got)
          => InInv(X, H, more, todo, less)
    /\ p.id \notin known => p.msg \notin got
    /\ Version # 5 => p.msg \notin got

LEMMA InAcked2 ==
    ASSUME NEW X \in SUBSET BrokerEntries, NEW F, NEW known, NEW todo, NEW got, InInv(X, F, known, todo, got),
           NEW p, NEW G, NEW a, Replies2(p, F, G, a)
    PROVE  Acked2(X, G, known, todo, got, p, a)
<1>0. /\ p \in F /\ p.type = "PUBLISH" /\ p.msg \in Inbound2 /\ G \in SUBSET F /\ \A t \in G : t.id # p.id
      /\ a.id = p.id /\ a.type = "PUBREC"
  BY DEF Replies2
<1> USE <1>0
<1>1. PICK e \in X : Meets(p, e)
  BY DEF InInv
<1>2. e.id = p.id /\ e.msg = p.msg /\ e.next = "PUBREC"
  BY <1>1, FirstReplyIs DEF Meets, Inbound
<1>3. \A x \in X : x.id = p.id \/ x.msg = p.msg => x = e
  BY <1>2 DEF InInv
<1>4. p.msg \notin todo
  BY <1>2 DEF InInv
<1>5. Meets(a, e)
  BY <1>2 DEF Meets
<1>6. ASSUME NEW H \in {G, G \cup {a}}, NEW less \in SUBSET (got \cup {p.msg}), NEW more,
             known \cup {p.id} \subseteq more, Version = 5 \/ less \subseteq got
      PROVE  InInv(X, H, more, todo, less)
  <2>1. \A t \in H : \E x \in X : Meets(t, x)
    BY <1>5 DEF InInv
  <2>2. \A m \in todo : m \notin less
    BY <1>4, <1>6 DEF InInv
  <2>3. \A x \in X : x.next = "PUBREC" /\ x.msg \in less => Version = 5 /\ x.id \in more
    BY <1>2, <1>3, <1>6 DEF InInv
  <2> QED BY <2>1, <2>2, <2>3 DEF InInv
<1>7. (p.id \notin known \/ Version # 5) => p.msg \notin got
  BY <1>2 DEF InInv
<1> QED BY <1>6, <1>7 DEF Acked2

LEMMA InKept2 ==
    ASSUME NEW X \in SUBSET BrokerEntries, NEW F, NEW known, NEW todo, NEW got, InInv(X, F, known, todo, got),
           NEW p \in F, p.type = "PUBLISH", p.msg \in Inbound2, NEW G \in SUBSET F, \A t \in G : t.id # p.id,
           NEW a, a.id = p.id, a.type = "PUBREC",
           NEW I, InKept(X, F, I, todo, got), NEW publish,
           NEW got2, got2 = got \/ (Version = 5 /\ got2 = got \cup {p.msg}),
           Version = 5 /\ got2 = got => \E x \in I : x.id = p.id
    PROVE  InKept(X, G \cup {a}, KnownWith(I, p, publish), todo, got2)
<1> DEFINE new == [id |-> p.id, msg |-> p.msg, publish |-> publish]
           J == KnownWith(I, p, publish)
<1>1. PICK e \in X : Meets(p, e)
  BY DEF InInv
<1>2. e.id = p.id /\ e.msg = p.msg /\ e.next = "PUBREC"
  BY <1>1, FirstReplyIs DEF Meets, Inbound
<1>3. \A x \in X : x.id = p.id \/ x.msg = p.msg => x = e
  BY <1>2 DEF InInv
<1>4. new.id = p.id /\ new.msg = p.msg /\ J = {x \in I : x.id # p.id} \cup {new}
  BY DEF KnownWith
<1> HIDE DEF new, J
<1>5. got \subseteq got2 /\ (Version # 5 => got2 = got)
  OBVIOUS
<1>6. IF Version = 5 THEN p.msg \in got2 ELSE p.msg \notin got2
  <2>1. CASE Version = 5 /\ got2 = got
    <3>1. PICK x \in I : x.id = p.id
      BY <2>1
    <3>2. x.msg \in got /\ \E y \in X : y.id = x.id /\ y.msg = x.msg
      BY <2>1 DEF InKept
    <3>3. x.msg = p.msg
      BY <1>2, <1>3, <3>1, <3>2
    <3> QED BY <2>1, <3>2, <3>3
  <2>2. CASE Version = 5 /\ got2 # got
    BY <2>2
  <2>3. CASE Version # 5
    BY <1>2, <1>5, <2>3 DEF InInv
  <2> QED BY <2>1, <2>2, <2>3
<1>7. \A x \in J : \E y \in X : y.id = x.id /\ y.msg = x.msg
  BY <1>2, <1>4 DEF InKept
<1>8. \A x \in J : IF Version = 5 THEN x.msg \in got2 ELSE x.msg \notin got2
  <2>1. \A x \in I : IF Version = 5 THEN x.msg \in got ELSE x.msg \notin got
    BY DEF InKept
  <2> QED BY <1>4, <1>5, <1>6, <2>1
<1>9. \A id : (\E x \in I : x.id = id) => \E x \in J : x.id = id
  BY <1>4
<1>10. \A y \in X : y.next = "PUBCOMP" => y.msg \in got2 \/ \E x \in J : x.id = y.id
  BY <1>5, <1>9 DEF InKept
<1>11. \A t \in G \cup {a} : t.type = "PUBREC" => \E x \in J : x.id = t.id
  BY <1>4, <1>9 DEF InKept
<1>12. \A t \in G \cup {a} : t.type = "PUBCOMP" => \A x \in J : x.id # t.id
  BY <1>4 DEF InKept
<1>13. \A t \in G \cup {a}, y \in X : t.type \in {"PUBACK", "PUBCOMP"} /\ t.id = y.id => y.msg \in got2
  BY <1>5 DEF InKept
<1>14. \A m \in Inbound : m \in todo \/ m \in got2 \/ \E y \in X : y.msg = m
  BY <1>5 DEF InKept
<1>15. InKept(X, G \cup {a}, J, todo, got2)
  BY <1>7, <1>8, <1>10, <1>11, <1>12, <1>13, <1>14 DEF InKept
<1> QED BY <1>15 DEF J

\* A PUBREL p is taken and a answers it.
Releases(p, F, G, a) ==
    /\ p \in F /\ p.type = "PUBREL"
    /\ G \subseteq F /\ \A t \in G : t.id # p.id
    /\ a.id = p.id /\ a.type = "PUBCOMP"
Ceased(X, F, G, known, todo, got, p, a) ==
    /\ \A H \in {G, G \cup {a}}, less \in SUBSET got : \A more : known \ {p.id} \subseteq more
          => InInv(X, H, more, todo, less)
    /\ \A I : InKept(X, F, I, todo, got) /\ (\A x \in I : x.id # p.id)
          => InKept(X, G, I, todo, got) /\ InKept(X, G \cup {a}, I, todo, got)
Ended(X, F, G, known, todo, got, p, a, I, k, got2, more) ==
    /\ InInv(X, G \cup {a}, more, todo, got2)
    /\ InKept(X, G \cup {a}, {x \in I : x.id # p.id}, todo, got2)
    /\ Version # 5 => k.msg \notin got

\* A PUBREL has been read, of a message that is not known any more ...
LEMMA InUnknown ==
    ASSUME NEW X \in SUBSET BrokerEntries, NEW F, NEW known, NEW todo, NEW got, InInv(X, F, known, todo, got),
           NEW p, NEW G, NEW a, Releases(p, F, G, a)
    PROVE  Ceased(X, F, G, known, todo, got, p, a)
<1>0. /\ p \in F /\ p.type = "PUBREL" /\ G \in SUBSET F /\ \A t \in G : t.id # p.id
      /\ a.id = p.id /\ a.type = "PUBCOMP"
  BY DEF Releases
<1> USE <1>0
<1>1. PICK e \in X : Meets(p, e)
  BY DEF InInv
<1>2. e.id = p.id /\ e.next = "PUBCOMP"
  BY <1>1 DEF Meets
<1>3. \A x \in X : x.id = p.id => x = e
  BY <1>2 DEF InInv
<1>4. Meets(a, e)
  BY <1>2 DEF Meets
<1>5. ASSUME NEW H \in {G, G \cup {a}}, NEW less \in SUBSET got, NEW more, known \ {p.id} \subseteq more
      PROVE  InInv(X, H, more, todo, less)
  <2>1. \A t \in H : \E x \in X : Meets(t, x)
    BY <1>4 DEF InInv
  <2>2. \A x \in X : x.next = "PUBREC" /\ x.msg \in less => Version = 5 /\ x.id \in more
    BY <1>2, <1>3, <1>5 DEF InInv
  <2> QED BY <2>1, <2>2 DEF InInv
<1>6. ASSUME NEW I, InKept(X, F, I, todo, got), \A x \in I : x.id # p.id
      PROVE  InKept(X, G, I, todo, got) /\ InKept(X, G \cup {a}, I, todo, got)
  <2>1. e.msg \in got
    BY <1>2, <1>6 DEF InKept
  <2>2. \A t \in G \cup {a}, x \in X : t.type \in {"PUBACK", "PUBCOMP"} /\ t.id = x.id => x.msg \in got
    BY <1>2, <1>3, <1>6, <2>1 DEF InKept
  <2>3. \A t \in G \cup {a} : t.type = "PUBCOMP" => \A x \in I : x.id # t.id
    BY <1>6 DEF InKept
  <2>4. InKept(X, G \cup {a}, I, todo, got)
    BY <1>6, <2>2, <2>3 DEF InKept
  <2> QED BY <2>4 DEF InKept
<1> QED BY <1>5, <1>6 DEF Ceased

\* ... and of one that is, which is offered then up to MQTT 3.1.1.
LEMMA InEnded ==
    ASSUME NEW X \in SUBSET BrokerEntries, NEW F, NEW known, NEW todo, NEW got, InInv(X, F, known, todo, got),
           NEW p, NEW G, NEW a, Releases(p, F, G, a),
           NEW I, InKept(X, F, I, todo, got), NEW k \in I, k.id = p.id,
           NEW got2, got2 = IF Version = 5 THEN got ELSE got \cup {k.msg},
           NEW more, known \ {p.id} \subseteq more
    PROVE  Ended(X, F, G, known, todo, got, p, a, I, k, got2, more)
<1>0. /\ p \in F /\ p.type = "PUBREL" /\ G \in SUBSET F /\ \A t \in G : t.id # p.id
      /\ a.id = p.id /\ a.type = "PUBCOMP"
  BY DEF Releases
<1> USE <1>0
<1> DEFINE J == {x \in I : x.id # p.id}
<1>1. PICK e \in X : Meets(p, e)
  BY DEF InInv
<1>2. e.id = p.id /\ e.next = "PUBCOMP"
  BY <1>1 DEF Meets
<1>3. e.msg = k.msg
  <2>1. PICK x \in X : x.id = k.id /\ x.msg = k.msg
    BY DEF InKept
  <2> QED BY <1>2, <2>1 DEF InInv
<1>4. \A x \in X : x.id = p.id \/ x.msg = k.msg => x = e
  BY <1>2, <1>3 DEF InInv
<1>5. Meets(a, e)
  BY <1>2 DEF Meets
<1>6. got \subseteq got2 /\ k.msg \in got2 /\ \A m \in got2 : m \in got \/ (Version # 5 /\ m = k.msg)
  BY DEF InKept
<1>7. Version # 5 => k.msg \notin got
  BY DEF InKept
<1> HIDE DEF J
<1>8. InInv(X, G \cup {a}, more, todo, got2)
  <2>1. \A t \in G \cup {a} : \E x \in X : Meets(t, x)
    BY <1>5 DEF InInv
  <2>2. k.msg \notin todo
    BY <1>3 DEF InInv
  <2>3. \A m \in todo : m \notin got2
    BY <1>6, <2>2 DEF InInv
  <2>4. \A x \in X : x.next = "PUBREC" /\ x.msg \in got2 => Version = 5 /\ x.id \in more
    BY <1>2, <1>4, <1>6 DEF InInv
  <2> QED BY <2>1, <2>3, <2>4 DEF InInv
<1>9. \A x \in J : x \in I /\ x.id # p.id
  BY DEF J
<1>10. \A x \in J : \E y \in X : y.id = x.id /\ y.msg = x.msg
  BY <1>9 DEF InKept
<1>11. \A x \in J : IF Version = 5 THEN x.msg \in got2 ELSE x.msg \notin got2
  <2>1. ASSUME NEW x \in J PROVE x.msg # k.msg
    BY <1>2, <1>4, <1>9, <1>10
  <2>2. \A x \in I : IF Version = 5 THEN x.msg \in got ELSE x.msg \notin got
    BY DEF InKept
  <2> QED BY <1>6, <1>9, <2>1, <2>2
<1>12. \A y \in X : y.next = "PUBCOMP" => y.msg \in got2 \/ \E x \in J : x.id = y.id
  <2>1. ASSUME NEW y \in X, y.next = "PUBCOMP", y # e, NEW x \in I, x.id = y.id PROVE x \in J
    BY <1>4, <2>1 DEF J
  <2> QED BY <1>3, <1>6, <2>1 DEF InKept
<1>13. \A t \in G \cup {a} : t.type = "PUBREC" => \E x \in J : x.id = t.id
  BY DEF InKept, J
<1>14. \A t \in G \cup {a} : t.type = "PUBCOMP" => \A x \in J : x.id # t.id
  BY <1>9 DEF InKept
<1>15. \A t \in G \cup {a}, y \in X : t.type \in {"PUBACK", "PUBCOMP"} /\ t.id = y.id => y.msg \in got2
  BY <1>3, <1>4, <1>6 DEF InKept
<1>16. \A m \in Inbound : m \in todo \/ m \in got2 \/ \E y \in X : y.msg = m
  BY <1>6 DEF InKept
<1>17. InKept(X, G \cup {a}, J, todo, got2)
  BY <1>10, <1>11, <1>12, <1>13, <1>14, <1>15, <1>16 DEF InKept
<1> QED BY <1>7, <1>8, <1>17 DEF J, Ended

\* What holds of X and F goes on to hold of Y and H.
Carries(X, F, Y, H, known, todo, got) ==
    /\ InInv(Y, H, known, todo, got)
    /\ \A I : InKept(X, F, I, todo, got) => InKept(Y, H, I, todo, got)

\* A PUBREC p of the entry e is taken, a answers it if H has it, and f takes
\* the place of e.
Receives(X, Y, p, F, G, H, a, e, f) ==
    /\ p \in F /\ p.type = "PUBREC"
    /\ G \subseteq F /\ \A t \in G : t.id # p.id
    /\ a.id = p.id /\ a.type = "PUBREL" /\ H \in {G, G \cup {a}}
    /\ e \in X /\ e.id = p.id /\ f.id = e.id /\ f.msg = e.msg /\ f.next = "PUBCOMP"
    /\ Y = (X \ {e}) \cup {f}

LEMMA InReleased ==
    ASSUME NEW X, X \subseteq BrokerEntries, NEW F, NEW known, NEW todo, NEW got, InInv(X, F, known, todo, got),
           NEW Y, NEW p, NEW G, NEW H, NEW a, NEW e, NEW f, Receives(X, Y, p, F, G, H, a, e, f)
    PROVE  Carries(X, F, Y, H, known, todo, got)
<1>0. /\ p \in F /\ p.type = "PUBREC"
      /\ G \in SUBSET F /\ \A t \in G : t.id # p.id
      /\ a.id = p.id /\ a.type = "PUBREL" /\ H \in {G, G \cup {a}}
      /\ e \in X /\ e.id = p.id /\ f.id = e.id /\ f.msg = e.msg /\ f.next = "PUBCOMP"
      /\ Y = (X \ {e}) \cup {f}
  BY DEF Receives
<1> USE <1>0
<1>1. \A x \in X : x.id = p.id \/ x.msg = e.msg => x = e
  BY DEF InInv
<1>2. e.next = "PUBREC"
  BY <1>1 DEF InInv, Meets
<1>3. e.msg \in Inbound2
  BY <1>2, FirstReplyIs DEF InInv, BrokerEntries, Inbound
<1>4. \A y \in Y : y = f \/ (y \in X /\ y.id # p.id /\ y.msg # e.msg)
  BY <1>1
<1>5. f \in Y /\ \A x \in X : x.id # p.id => x \in Y
  OBVIOUS
<1>6. InInv(Y, H, known, todo, got)
  <2>1. \A x, y \in Y : x.id = y.id \/ x.msg = y.msg => x = y
    BY <1>4 DEF InInv
  <2>2. \A x \in Y : x.msg \notin todo /\ (x.next = FirstReply(x.msg) \/ (x.msg \in Inbound2 /\ x.next = "PUBCOMP"))
    BY <1>3, <1>4 DEF InInv
  <2>3. \A t \in G : \E y \in Y : Meets(t, y)
    BY <1>5 DEF InInv, Meets
  <2>4. Meets(a, f)
    BY DEF Meets
  <2>5. \A y \in Y : y.next = "PUBREC" /\ y.msg \in got => Version = 5 /\ y.id \in known
    BY <1>4 DEF InInv
  <2> QED BY <1>5, <2>1, <2>2, <2>3, <2>4, <2>5 DEF InInv
<1>7. ASSUME NEW I, InKept(X, F, I, todo, got) PROVE InKept(Y, H, I, todo, got)
  <2>1. \A x \in I : \E y \in Y : y.id = x.id /\ y.msg = x.msg
    <3>1. SUFFICES ASSUME NEW x \in I PROVE \E y \in Y : y.id = x.id /\ y.msg = x.msg
      OBVIOUS
    <3>2. PICK y \in X : y.id = x.id /\ y.msg = x.msg
      BY <1>7 DEF InKept
    <3> QED BY <1>1, <1>5, <3>2
  <2>2. \A y \in Y : y.next = "PUBCOMP" => y.msg \in got \/ \E x \in I : x.id = y.id
    BY <1>4, <1>7 DEF InKept
  <2>3. \A t \in H : t \in G \/ t = a
    OBVIOUS
  <2>4. \A t \in H, y \in Y : t.type \in {"PUBACK", "PUBCOMP"} /\ t.id = y.id => y.msg \in got
    BY <1>4, <1>7, <2>3 DEF InKept
  <2>5. \A m \in Inbound : m \in todo \/ m \in got \/ \E y \in Y : y.msg = m
    <3>1. \A m \in Inbound : m \in todo \/ m \in got \/ \E y \in X : y.msg = m
      BY <1>7 DEF InKept
    <3>2. \A y \in X : \E z \in Y : z.msg = y.msg
      BY <1>1, <1>5
    <3> QED BY <3>1, <3>2
  <2>6. /\ \A t \in H : t.type = "PUBREC" => \E x \in I : x.id = t.id
        /\ \A t \in H : t.type = "PUBCOMP" => \A x \in I : x.id # t.id
        /\ \A x \in I : IF Version = 5 THEN x.msg \in got ELSE x.msg \notin got
    BY <1>7, <2>3 DEF InKept
  <2> QED BY <2>1, <2>2, <2>4, <2>5, <2>6 DEF InKept
<1> QED BY <1>6, <1>7 DEF Carries

\* And a PUBACK or PUBCOMP: the exchange is over.
LEMMA InOver ==
    ASSUME NEW X \in SUBSET BrokerEntries, NEW F, NEW known, NEW todo, NEW got, InInv(X, F, known, todo, got),
           NEW p \in F, p.type \in {"PUBACK", "PUBCOMP"}, NEW G \in SUBSET F, \A t \in G : t.id # p.id,
           NEW e \in X, e.id = p.id
    PROVE  /\ InInv(X \ {e}, G, known, todo, got)
           /\ \A I : InKept(X, F, I, todo, got) /\ I \subseteq InEntries => InKept(X \ {e}, G, I, todo, got)
<1>1. \A x \in X : x.id = p.id \/ x.msg = e.msg => x = e
  BY DEF InInv
<1>2. e.next = p.type
  BY <1>1 DEF InInv, Meets
<1>3. p.type = "PUBACK" => e.msg \notin Inbound2
  BY <1>2, FirstReplyIs DEF InInv, BrokerEntries
<1>4. \A t \in G : \E x \in X \ {e} : Meets(t, x)
  BY DEF InInv, Meets
<1>5. InInv(X \ {e}, G, known, todo, got)
  BY <1>4 DEF InInv
<1>6. ASSUME NEW I, InKept(X, F, I, todo, got), I \subseteq InEntries
      PROVE  InKept(X \ {e}, G, I, todo, got)
  <2>1. \A x \in I : x.id # p.id
    <3>1. SUFFICES ASSUME NEW x \in I, x.id = p.id PROVE FALSE
      OBVIOUS
    <3>2. p.type = "PUBACK"
      BY <1>6, <3>1 DEF InKept
    <3>3. PICK y \in X : y.id = x.id /\ y.msg = x.msg
      BY <1>6 DEF InKept
    <3>4. x.msg = e.msg /\ x.msg \in Inbound2
      BY <1>1, <1>6, <3>1, <3>3 DEF InEntries
    <3> QED BY <1>3, <3>2, <3>4
  <2>2. \A x \in I : \E y \in X \ {e} : y.id = x.id /\ y.msg = x.msg
    BY <1>6, <2>1 DEF InKept
  <2>3. e.msg \in got
    BY <1>6 DEF InKept
  <2>4. \A m \in Inbound : m \in todo \/ m \in got \/ \E y \in X \ {e} : y.msg = m
    BY <1>6, <2>3 DEF InKept
  <2> QED BY <1>6, <2>2, <2>4 DEF InKept
<1> QED BY <1>5, <1>6

\* A new connection: every message in flight is sent again.
LEMMA InAgain ==
    ASSUME NEW X \in SUBSET BrokerEntries, NEW F, NEW known, NEW todo, NEW got, InInv(X, F, known, todo, got),
           NEW H, H = {BrokerAgain(e) : e \in X}
    PROVE  /\ InInv(X, H, known, todo, got)
           /\ \A I : InKept(X, F, I, todo, got) => InKept(X, H, I, todo, got)
<1>1. ASSUME NEW e \in X PROVE Meets(BrokerAgain(e), e) /\ BrokerAgain(e).type \in {"PUBLISH", "PUBREL"}
  <2>1. CASE e.next = "PUBCOMP"
    <3>1. BrokerAgain(e).type = "PUBREL" /\ BrokerAgain(e).id = e.id
      BY <2>1 DEF BrokerAgain, Packet
    <3> QED BY <2>1, <3>1 DEF Meets
  <2>2. CASE e.next # "PUBCOMP"
    <3>1. BrokerAgain(e).type = "PUBLISH" /\ BrokerAgain(e).id = e.id /\ BrokerAgain(e).msg = e.msg
      BY <2>2 DEF BrokerAgain, Packet
    <3> QED BY <2>2, <3>1 DEF Meets, InInv
  <2> QED BY <2>1, <2>2
<1>2. \A t \in H : (\E e \in X : Meets(t, e)) /\ t.type \in {"PUBLISH", "PUBREL"}
  BY <1>1
<1>3. InInv(X, H, known, todo, got)
  BY <1>2 DEF InInv
<1>4. ASSUME NEW I, InKept(X, F, I, todo, got) PROVE InKept(X, H, I, todo, got)
  BY <1>2, <1>4 DEF InKept
<1> QED BY <1>3, <1>4
-----------------------------------------------------------------------------
(* What the application has, and what waits for it in the message queue.   *)

Has(arr, q, m) == arr[m] > 0 \/ \E i \in DOMAIN q : q[i].msg = m
Got(arr, q) == {m \in Inbound : Has(arr, q, m)}
Ones(arr, q) ==
    /\ \A m \in Inbound2 : arr[m] <= 1
    /\ \A i \in DOMAIN q : q[i].msg \in Inbound2 => arr[q[i].msg] = 0
    /\ \A i, j \in DOMAIN q : q[i].msg \in Inbound2 /\ q[i].msg = q[j].msg => i = j

LEMMA BumpIs ==
    ASSUME NEW arr \in [Inbound -> 0..2], NEW m \in Inbound
    PROVE  LET r == [arr EXCEPT ![m] = Bump(@)]
           IN  /\ r[m] > 0 /\ (arr[m] = 0 => r[m] = 1)
               /\ \A k \in Inbound : k # m => r[k] = arr[k]
               /\ r = [arr EXCEPT ![m] = IF @ = 2 THEN 2 ELSE @ + 1]
<1> DEFINE r == [arr EXCEPT ![m] = Bump(@)]
<1>1. arr[m] \in 0..2 /\ r[m] = Bump(arr[m])
  OBVIOUS
<1>2. r[m] > 0 /\ (arr[m] = 0 => r[m] = 1)
  BY <1>1 DEF Bump
<1>3. r = [arr EXCEPT ![m] = IF @ = 2 THEN 2 ELSE @ + 1]
  BY DEF Bump
<1> QED BY <1>2, <1>3

LEMMA Arrived ==
    ASSUME NEW arr \in [Inbound -> 0..2], NEW m \in Inbound
    PROVE  /\ Got([arr EXCEPT ![m] = Bump(@)], <<>>) = Got(arr, <<>>) \cup {m}
           /\ Ones(arr, <<>>) /\ (m \in Inbound2 => m \notin Got(arr, <<>>))
                 => Ones([arr EXCEPT ![m] = Bump(@)], <<>>)
<1> DEFINE r == [arr EXCEPT ![m] = Bump(@)]
<1>1. r[m] > 0 /\ (arr[m] = 0 => r[m] = 1) /\ \A k \in Inbound : k # m => r[k] = arr[k]
  BY BumpIs
<1> HIDE DEF r
<1>2. Got(r, <<>>) = Got(arr, <<>>) \cup {m}
  BY <1>1 DEF Got, Has
<1>3. ASSUME Ones(arr, <<>>), m \in Inbound2 => m \notin Got(arr, <<>>) PROVE Ones(r, <<>>)
  <2>1. m \in Inbound2 => arr[m] = 0
    BY <1>3 DEF Got, Has
  <2>2. \A k \in Inbound2 : r[k] <= 1
    BY <1>1, <1>3, <2>1 DEF Ones, Inbound
  <2> QED BY <2>2 DEF Ones
<1> QED BY <1>2, <1>3 DEF r

LEMMA Queued2 ==
    ASSUME NEW arr \in [Inbound -> 0..2], NEW q \in Seq(Waiters), NEW m \in Inbound, NEW w \in Waiters, w.msg = m
    PROVE  /\ Got(arr, Append(q, w)) = Got(arr, q) \cup {m}
           /\ Ones(arr, q) /\ (m \in Inbound2 => m \notin Got(arr, q)) => Ones(arr, Append(q, w))
<1> DEFINE r == Append(q, w)
           n == Len(q) + 1
<1>1. /\ DOMAIN q = 1..Len(q) /\ Len(q) \in Nat /\ DOMAIN r = 1..n
      /\ r[n] = w /\ \A i \in 1..Len(q) : r[i] = q[i]
  BY Longer
<1>2. DOMAIN r = DOMAIN q \cup {n} /\ n \notin DOMAIN q
  BY <1>1
<1> HIDE DEF r, n
<1>3. \A k : (\E i \in DOMAIN r : r[i].msg = k) <=> (k = m \/ \E i \in DOMAIN q : q[i].msg = k)
  BY <1>1, <1>2
<1>4. Got(arr, r) = Got(arr, q) \cup {m}
  BY <1>3 DEF Got, Has
<1>5. ASSUME Ones(arr, q), m \in Inbound2 => m \notin Got(arr, q) PROVE Ones(arr, r)
  <2>1. m \in Inbound2 => arr[m] = 0 /\ \A i \in DOMAIN q : q[i].msg # m
    BY <1>5 DEF Got, Has
  <2>2. \A i \in DOMAIN r : (i = n /\ r[i] = w) \/ (i \in DOMAIN q /\ r[i] = q[i])
    BY <1>1, <1>2
  <2>3. \A i \in DOMAIN r : r[i].msg \in Inbound2 => arr[r[i].msg] = 0
    BY <1>5, <2>1, <2>2 DEF Ones
  <2>4. \A i, j \in DOMAIN r : r[i].msg \in Inbound2 /\ r[i].msg = r[j].msg => i = j
    BY <1>5, <2>1, <2>2 DEF Ones
  <2> QED BY <1>5, <2>3, <2>4 DEF Ones
<1> QED BY <1>4, <1>5 DEF r

\* A message that is offered is one the client has, and one of QoS 2 that it
\* did not have is there once.
LEMMA OffersIs ==
    ASSUME NEW w \in Worlds, NEW m \in Inbound, NEW e, Offers(w, m, e)
    PROVE  /\ Got(e.arrived, e.c.messageQueue) = Got(w.arrived, w.c.messageQueue) \cup {m}
           /\ Ones(w.arrived, w.c.messageQueue) /\ (m \in Inbound2 => m \notin Got(w.arrived, w.c.messageQueue))
                 => Ones(e.arrived, e.c.messageQueue)
           /\ Named(e.disk, "r") = Named(w.disk, "r")
           /\ \/ e.arrived = w.arrived
              \/ e.arrived = [w.arrived EXCEPT ![m] = Bump(@)]
<1>1. w.arrived \in [Inbound -> 0..2] /\ w.c.messageQueue \in Seq(Waiters)
  BY FieldsOf DEF Worlds
<1>2. CASE e.c.messageQueue = <<>> /\ w.c.messageQueue = <<>> /\ e.disk = w.disk
           /\ e.arrived = [w.arrived EXCEPT ![m] = Bump(@)]
  BY <1>1, <1>2, Arrived
<1>3. ASSUME NEW n \in Nat, e.c.messageQueue = Append(w.c.messageQueue, [seqno |-> n, msg |-> m]),
             e.disk = Stored(w.disk, QueueFile(n, m)), e.arrived = w.arrived
      PROVE  /\ Got(e.arrived, e.c.messageQueue) = Got(w.arrived, w.c.messageQueue) \cup {m}
             /\ Ones(w.arrived, w.c.messageQueue) /\ (m \in Inbound2 => m \notin Got(w.arrived, w.c.messageQueue))
                   => Ones(e.arrived, e.c.messageQueue)
  <2> DEFINE k == [seqno |-> n, msg |-> m]
  <2>1. k \in Waiters /\ k.msg = m
    BY DEF Waiters
  <2>2. e.c.messageQueue = Append(w.c.messageQueue, k)
    BY <1>3
  <2> HIDE DEF k
  <2> QED BY <1>1, <1>3, <2>1, <2>2, Queued2
<1>4. ASSUME NEW n PROVE Named(Stored(w.disk, QueueFile(n, m)), "r") = Named(w.disk, "r")
  BY DEF Named, Stored, Unlinked, QueueFile, File
<1> QED BY <1>2, <1>3, <1>4 DEF Offers

\* The head of the queue is offered again and taken.
LEMMA FlushedIs ==
    ASSUME NEW arr \in [Inbound -> 0..2], NEW q \in Seq(Waiters), q # <<>>, Ones(arr, q)
    PROVE  LET m == Head(q).msg
               bumped == [arr EXCEPT ![m] = Bump(@)]
           IN  /\ m \in Inbound /\ (m \in Inbound2 => arr[m] = 0)
               /\ Got(bumped, Tail(q)) = Got(arr, q) /\ Ones(bumped, Tail(q))
               /\ Got(arr, <<>>) \subseteq Got(arr, q) /\ Ones(arr, <<>>)
               /\ Got(bumped, <<>>) \subseteq Got(arr, q) /\ Ones(bumped, <<>>)
<1> DEFINE m == Head(q).msg
           r == [arr EXCEPT ![m] = Bump(@)]
           t == Tail(q)
<1>1. /\ Head(q) \in Waiters /\ DOMAIN q = 1..Len(q) /\ Len(q) \in Nat \ {0}
      /\ DOMAIN t = 1..(Len(q) - 1) /\ q[1] = Head(q) /\ \A i \in 1..(Len(q) - 1) : t[i] = q[i + 1]
  BY TailOf
<1>2. m \in Inbound /\ 1 \in DOMAIN q /\ q[1].msg = m
  BY <1>1 DEF Waiters
<1>3. r[m] > 0 /\ (arr[m] = 0 => r[m] = 1) /\ \A k \in Inbound : k # m => r[k] = arr[k]
  BY <1>2, BumpIs
<1>4. \A i \in DOMAIN t : i + 1 \in DOMAIN q /\ i + 1 # 1 /\ t[i] = q[i + 1]
  BY <1>1
<1>5. \A i \in DOMAIN q : q[i].msg = m \/ \E j \in DOMAIN t : t[j] = q[i]
  <2>1. SUFFICES ASSUME NEW i \in DOMAIN q, i # 1 PROVE \E j \in DOMAIN t : t[j] = q[i]
    BY <1>2
  <2>2. i - 1 \in DOMAIN t /\ t[i - 1] = q[(i - 1) + 1] /\ (i - 1) + 1 = i
    BY <1>1, <2>1
  <2> QED BY <2>2
<1>6. m \in Inbound2 => arr[m] = 0 /\ \A i \in DOMAIN t : t[i].msg # m
  BY <1>2, <1>4 DEF Ones
<1> HIDE DEF m, r, t
<1>7. Got(r, t) = Got(arr, q)
  <2>1. ASSUME NEW k \in Inbound PROVE Has(r, t, k) <=> Has(arr, q, k)
    BY <1>2, <1>3, <1>4, <1>5 DEF Has
  <2> QED BY <2>1 DEF Got
<1>8. \A k \in Inbound2 : r[k] <= 1
  BY <1>3, <1>6 DEF Ones, Inbound
<1>9. Ones(r, t)
  <2>1. \A i \in DOMAIN t : t[i].msg \in Inbound2 => r[t[i].msg] = 0
    BY <1>3, <1>4, <1>6 DEF Ones, Inbound
  <2>2. \A i, j \in DOMAIN t : t[i].msg \in Inbound2 /\ t[i].msg = t[j].msg => i = j
    <3>1. SUFFICES ASSUME NEW i \in DOMAIN t, NEW j \in DOMAIN t, t[i].msg \in Inbound2, t[i].msg = t[j].msg
                   PROVE  i = j
      OBVIOUS
    <3>2. i + 1 = j + 1
      BY <1>4, <3>1 DEF Ones
    <3> QED BY <1>1, <3>2 DEF t
  <2> QED BY <1>8, <2>1, <2>2 DEF Ones
<1>10. Ones(r, <<>>) /\ Ones(arr, <<>>)
  BY <1>8 DEF Ones
<1>11. Got(arr, <<>>) \subseteq Got(arr, q)
  BY DEF Got, Has
<1>12. Got(r, <<>>) \subseteq Got(r, t)
  BY DEF Got, Has
<1> QED BY <1>2, <1>6, <1>7, <1>9, <1>10, <1>11, <1>12 DEF m, r, t

LEMMA QueueLost ==
    ASSUME NEW arr, NEW q, Ones(arr, q)
    PROVE  Got(arr, <<>>) \subseteq Got(arr, q) /\ Ones(arr, <<>>)
  BY DEF Got, Has, Ones
-----------------------------------------------------------------------------
(* The invariant.                                                          *)

FileIds(d) == {f.id : f \in Named(d, "r")}
Known(x, d) == IF x.running = 1 THEN {y.id : y \in x.inboundMsgs} ELSE FileIds(d)
InTokens == Tokens(toClient, Asks, toBroker, Replies)

\* A process that dies loses the message queue, and before MQTT 5 what it
\* has delivered, so only one of MQTT 5 with a store delivers once then.
InFaults == "crash" \in Faults => Version = 5 /\ Persistence = 1

InCore ==
    /\ Single(toClient, Asks, toBroker, Replies)
    /\ Distinct(b.out)
    /\ InInv(ToSet(b.out), InTokens, Known(c, disk), b.todo, Got(arrived, c.messageQueue))
    /\ Ones(arrived, c.messageQueue)
InMine ==
    "crash" \notin Faults =>
        InKept(ToSet(b.out), InTokens, c.inboundMsgs, b.todo, Got(arrived, c.messageQueue))
InFiled == "crash" \in Faults => Known(c, disk) \subseteq FileIds(disk)
InSound == InCore /\ InMine /\ InFiled

LEMMA InFlightIs ==
    ASSUME Typed
    PROVE  /\ ToSet(b.out) \in SUBSET BrokerEntries /\ b.out \in Seq(BrokerEntries) /\ b.todo \subseteq Inbound
           /\ c.inboundMsgs \subseteq InEntries /\ c.messageQueue \in Seq(Waiters)
           /\ arrived \in [Inbound -> 0..2] /\ disk \in Disks
  BY SessionIs, NowIs, Members, FieldsOf

LEMMA FileIdsAre ==
    ASSUME NEW d \in Disks, NEW id, NEW m
    PROVE  /\ Persistence = 1 => FileIds(d) \cup {id} \subseteq FileIds(Stored(d, PublishReceived(id, m)))
           /\ FileIds(d) \ {id} \subseteq FileIds(Unlinked(d, "r", id))
<1>1. \A f \in Named(d, "r") : f \in d /\ f.key = "r" /\ f.n = f.id
  BY DEF Named, Disks, FileSet
<1> DEFINE new == PublishReceived(id, m)
<1>2. new.key = "r" /\ new.n = id /\ new.id = id
  BY DEF PublishReceived, File
<1> HIDE DEF new
<1>3. ASSUME Persistence = 1 PROVE FileIds(d) \cup {id} \subseteq FileIds(Stored(d, new))
  <2>1. new \in Named(Stored(d, new), "r")
    BY <1>2, <1>3 DEF Stored, Named
  <2>2. ASSUME NEW f \in Named(d, "r"), f.id # id PROVE f \in Named(Stored(d, new), "r")
    BY <1>1, <1>2, <1>3, <2>2 DEF Stored, Unlinked, Named
  <2> QED BY <1>2, <2>1, <2>2 DEF FileIds
<1>4. ASSUME NEW f \in Named(d, "r"), f.id # id PROVE f \in Named(Unlinked(d, "r", id), "r")
  BY <1>1, <1>4 DEF Unlinked, Named
<1> QED BY <1>3, <1>4 DEF new, FileIds

\* The process has died with the new state of its files and packets.
LEMMA InDied ==
    ASSUME InFaults, "crash" \in Faults, c' = NewClient(0), Distinct(b'.out),
           Single(toClient, Asks, toBroker, Replies)',
           InInv(ToSet(b'.out), InTokens', FileIds(disk'), b'.todo, Got(arrived', <<>>)), Ones(arrived', <<>>)
    PROVE  InSound'
<1>1. c'.running = 0 /\ c'.messageQueue = <<>>
  BY DEF NewClient
<1>2. Known(c', disk') = FileIds(disk')
  BY <1>1 DEF Known
<1>3. InCore'
  BY <1>1, <1>2 DEF InCore
<1> QED BY <1>2, <1>3 DEF InSound, InMine, InFiled

\* A process that lives on.
LEMMA InLives ==
    ASSUME Distinct(b'.out), Single(toClient, Asks, toBroker, Replies)',
           InInv(ToSet(b'.out), InTokens', Known(c', disk'), b'.todo, Got(arrived', c'.messageQueue)),
           Ones(arrived', c'.messageQueue),
           "crash" \in Faults => Known(c', disk') \subseteq FileIds(disk'),
           "crash" \notin Faults =>
               InKept(ToSet(b'.out), InTokens', c'.inboundMsgs, b'.todo, Got(arrived', c'.messageQueue))
    PROVE  InSound'
  BY DEF InSound, InCore, InMine, InFiled

\* The client takes a packet, and answers or does not.
LEMMA InTaken ==
    ASSUME Typed, InCore, NEW type, Arrives(type), Take, NEW a \in BrokerBound
    PROVE  LET p == Head(toClient)
               G == Tokens(toClient', Asks, toBroker, Replies)
           IN  /\ G \subseteq InTokens
               /\ type \in Asks => p \in InTokens /\ \A t \in G : t.id # p.id
               /\ toBroker' = toBroker => Single(toClient, Asks, toBroker, Replies)' /\ InTokens' = G
               /\ toBroker' = Append(toBroker, a) /\ type \in Asks /\ a.type \in Replies /\ a.id = p.id
                    => Single(toClient, Asks, toBroker, Replies)' /\ InTokens' = G \cup {a}
               /\ toBroker' = Append(toBroker, a) /\ a.type \notin Replies
                    => Single(toClient, Asks, toBroker, Replies)' /\ InTokens' = G
<1> DEFINE p == Head(toClient)
           G == Tokens(toClient', Asks, toBroker, Replies)
<1>1. /\ toClient \in Seq(ClientBound) /\ toClient # <<>> /\ p.type = type /\ toClient' = Tail(toClient)
      /\ toBroker \in Seq(BrokerBound)
  BY TakeDoes, NowIs
<1>2. Single(toClient, Asks, toBroker, Replies)
  BY DEF InCore
<1>3. /\ Single(toClient', Asks, toBroker, Replies) /\ G \subseteq InTokens
      /\ type \in Asks => p \in InTokens /\ \A t \in G : t.id # p.id
  BY <1>1, <1>2, TokenTaken DEF InTokens
<1>4. /\ Single(toBroker, Replies, toClient', Asks)
      /\ Tokens(toBroker, Replies, toClient', Asks) = G
  BY <1>3, SingleTurned
<1> HIDE DEF p, G
<1>5. toBroker' = toBroker => Single(toClient, Asks, toBroker, Replies)' /\ InTokens' = G
  BY <1>3 DEF InTokens, G
<1>6. ASSUME toBroker' = Append(toBroker, a), a.type \in Replies => \A t \in G : t.id # a.id
      PROVE  /\ Single(toClient, Asks, toBroker, Replies)'
             /\ a.type \in Replies => InTokens' = G \cup {a}
             /\ a.type \notin Replies => InTokens' = G
  <2>1. /\ Single(toBroker', Replies, toClient', Asks)
        /\ a.type \in Replies => Tokens(toBroker', Replies, toClient', Asks) = G \cup {a}
        /\ a.type \notin Replies => Tokens(toBroker', Replies, toClient', Asks) = G
    BY <1>1, <1>4, <1>6, TokenSent
  <2>2. /\ Single(toClient', Asks, toBroker', Replies)
        /\ Tokens(toClient', Asks, toBroker', Replies) = Tokens(toBroker', Replies, toClient', Asks)
    BY <2>1, SingleTurned
  <2> QED BY <2>1, <2>2 DEF InTokens
<1> QED BY <1>3, <1>5, <1>6 DEF p, G

\* Steps that only lose packets, or the process.
LEMMA InQuiet ==
    ASSUME Typed, InFaults, InSound, b'.out = b.out, b'.todo = b.todo, arrived' = arrived,
           Single(toClient, Asks, toBroker, Replies)', InTokens' \subseteq InTokens,
           FileIds(disk) \subseteq FileIds(disk'),
           \/ c'.running = c.running /\ c'.inboundMsgs = c.inboundMsgs /\ c'.messageQueue = c.messageQueue
           \/ "crash" \in Faults /\ c' = NewClient(0)
    PROVE  InSound'
<1> DEFINE X == ToSet(b.out)
           q == c.messageQueue
<1>1. InInv(X, InTokens, Known(c, disk), b.todo, Got(arrived, q)) /\ Distinct(b.out) /\ Ones(arrived, q)
  BY DEF InSound, InCore
<1>2. CASE c'.running = c.running /\ c'.inboundMsgs = c.inboundMsgs /\ c'.messageQueue = c.messageQueue
  <2>1. Known(c, disk) \subseteq Known(c', disk')
    BY <1>2 DEF Known
  <2>2. "crash" \in Faults => Known(c', disk') \subseteq FileIds(disk')
    BY <1>2 DEF Known, InSound, InFiled
  <2>3. "crash" \notin Faults => InKept(X, InTokens, c.inboundMsgs, b.todo, Got(arrived, q))
    BY DEF InSound, InMine
  <2> HIDE DEF X, q
  <2>4. /\ InInv(X, InTokens', Known(c', disk'), b.todo, Got(arrived, q))
        /\ "crash" \notin Faults => InKept(X, InTokens', c.inboundMsgs, b.todo, Got(arrived, q))
    BY <1>1, <2>1, <2>3, InFewer, KeptFewer
  <2>5. Distinct(b'.out) /\ ToSet(b'.out) = X /\ Got(arrived', c'.messageQueue) = Got(arrived, q)
        /\ Ones(arrived', c'.messageQueue)
    BY <1>1, <1>2 DEF X, q
  <2> QED BY <1>2, <2>2, <2>4, <2>5, InLives
<1>3. CASE "crash" \in Faults /\ c' = NewClient(0)
  <2>1. Known(c, disk) \subseteq FileIds(disk')
    BY <1>3 DEF InSound, InFiled
  <2>2. Got(arrived, <<>>) \in SUBSET Got(arrived, q) /\ Ones(arrived, <<>>)
    BY <1>1, QueueLost
  <2> HIDE DEF X, q
  <2>3. InInv(X, InTokens', FileIds(disk'), b.todo, Got(arrived, <<>>))
    <3> DEFINE less == Got(arrived, <<>>)
               got == Got(arrived, q)
               known == Known(c, disk)
               more == FileIds(disk')
               F == InTokens
               H == InTokens'
    <3>1. InInv(X, F, known, b.todo, got) /\ H \in SUBSET F /\ known \subseteq more /\ less \in SUBSET got
      BY <1>1, <2>1, <2>2
    <3> HIDE DEF less, got, known, more, F, H
    <3>2. InInv(X, H, more, b.todo, less)
      BY <3>1, InFewer
    <3> QED BY <3>2 DEF H, more, less
  <2>4. Distinct(b'.out) /\ ToSet(b'.out) = X
    BY <1>1 DEF X
  <2> QED BY <1>3, <2>2, <2>3, <2>4, InDied
<1> QED BY <1>2, <1>3

LEMMA SameFileIds ==
    ASSUME NEW d, NEW e, InFiles(e) = InFiles(d)
    PROVE  FileIds(e) = FileIds(d)
<1>1. Named(e, "r") = {f \in InFiles(e) : f.key = "r"} /\ Named(d, "r") = {f \in InFiles(d) : f.key = "r"}
  BY DEF Named, InFiles
<1> QED BY <1>1 DEF FileIds

LEMMA InReceivePublish1 ==
    ASSUME Typed, ProcessSound, InFaults, InSound, ReceivePublish1
    PROVE  InSound'
<1> DEFINE p == Head(toClient)
           ack == Ack("PUBACK", p.id)
           X == ToSet(b.out)
           q == c.messageQueue
           G == Tokens(toClient', Asks, toBroker, Replies)
           got == Got(arrived, q)
<1>1. /\ p.id \in BrokerIds /\ p.msg \in Inbound1 /\ ack \in BrokerBound
      /\ \/ /\ Offers(Now, p.msg, Now') /\ c'.inboundMsgs = c.inboundMsgs
            /\ LinkSame(c, c') /\ toBroker' = Append(toBroker, ack)
         \/ /\ "crash" \in Faults /\ c' = NewClient(0) /\ disk' = disk /\ arrived' = arrived
            /\ toBroker' \in {toBroker, Append(toBroker, ack)}
  BY ReceivePublish1Does
<1>2. Arrives("PUBLISH") /\ Take /\ p.type = "PUBLISH" /\ c.connected = 1 /\ b' = b
  BY TakeDoes DEF ReceivePublish1
<1>3. ack.type = "PUBACK" /\ ack.id = p.id /\ "PUBLISH" \in Asks /\ "PUBACK" \in Replies
  BY AckIs DEF Asks, Replies
<1> HIDE DEF p, ack, G
<1>4. InInv(X, InTokens, Known(c, disk), b.todo, got) /\ Distinct(b.out) /\ Ones(arrived, q)
  BY DEF InSound, InCore
<1>5. /\ G \in SUBSET InTokens /\ p \in InTokens /\ \A t \in G : t.id # p.id
      /\ toBroker' = toBroker => Single(toClient, Asks, toBroker, Replies)' /\ InTokens' = G
      /\ toBroker' = Append(toBroker, ack) => Single(toClient, Asks, toBroker, Replies)' /\ InTokens' = G \cup {ack}
  BY <1>1, <1>2, <1>3, InTaken DEF InSound, p, G
<1>6. X \in SUBSET BrokerEntries /\ c.inboundMsgs \subseteq InEntries /\ p.msg \in Inbound
  BY <1>1, InFlightIs DEF Inbound
<1>7. /\ \A H \in {G, G \cup {ack}}, less \in SUBSET (got \cup {p.msg}) : \A more : Known(c, disk) \subseteq more
            => InInv(X, H, more, b.todo, less)
      /\ \A I : InKept(X, InTokens, I, b.todo, got) /\ I \subseteq InEntries
            => InKept(X, G \cup {ack}, I, b.todo, got \cup {p.msg})
  <2> HIDE DEF X, got
  <2> QED BY <1>1, <1>2, <1>3, <1>4, <1>5, <1>6, InAcked1
<1>8. Distinct(b'.out) /\ ToSet(b'.out) = X /\ b'.todo = b.todo
  BY <1>2, <1>4
<1>9. CASE /\ Offers(Now, p.msg, Now') /\ c'.inboundMsgs = c.inboundMsgs
           /\ LinkSame(c, c') /\ toBroker' = Append(toBroker, ack)
  <2>1. /\ Now \in Worlds /\ Now.arrived = arrived /\ Now.c = c /\ Now.disk = disk
        /\ Now'.arrived = arrived' /\ Now'.c = c' /\ Now'.disk = disk'
    BY NowIs DEF Now
  <2>2. p.msg \notin Inbound2
    BY <1>1, IdsAreNumbers
  <2>3. /\ Got(arrived', c'.messageQueue) = got \cup {p.msg} /\ Ones(arrived', c'.messageQueue)
        /\ Named(disk', "r") = Named(disk, "r")
    <3>1. /\ Got(Now'.arrived, Now'.c.messageQueue) = Got(Now.arrived, Now.c.messageQueue) \cup {p.msg}
          /\ Ones(Now.arrived, Now.c.messageQueue) => Ones(Now'.arrived, Now'.c.messageQueue)
          /\ Named(Now'.disk, "r") = Named(Now.disk, "r")
      <4> DEFINE w == Now
                 e == Now'
      <4>1. w \in Worlds /\ Offers(w, p.msg, e)
        BY <1>9, <2>1
      <4> HIDE DEF w, e
      <4>2. /\ Got(e.arrived, e.c.messageQueue) = Got(w.arrived, w.c.messageQueue) \cup {p.msg}
            /\ Ones(w.arrived, w.c.messageQueue) => Ones(e.arrived, e.c.messageQueue)
            /\ Named(e.disk, "r") = Named(w.disk, "r")
        BY <1>6, <2>2, <4>1, OffersIs
      <4> QED BY <4>2 DEF w, e
    <3> QED BY <1>4, <2>1, <3>1
  <2>4. Known(c', disk') = Known(c, disk) /\ FileIds(disk') = FileIds(disk)
    BY <1>9, <2>3 DEF Known, LinkSame, FileIds
  <2>5. "crash" \in Faults => Known(c', disk') \subseteq FileIds(disk')
    BY <2>4 DEF InSound, InFiled
  <2>6. "crash" \notin Faults => InKept(X, InTokens, c.inboundMsgs, b.todo, got)
    BY DEF InSound, InMine
  <2> HIDE DEF X, got
  <2>7. /\ Single(toClient, Asks, toBroker, Replies)' /\ InTokens' = G \cup {ack}
    BY <1>5, <1>9
  <2>8. InInv(X, G \cup {ack}, Known(c', disk'), b.todo, got \cup {p.msg})
    BY <1>7, <2>4
  <2>9. "crash" \notin Faults => InKept(X, G \cup {ack}, c'.inboundMsgs, b.todo, got \cup {p.msg})
    BY <1>6, <1>7, <1>9, <2>6
  <2> QED BY <1>8, <2>3, <2>5, <2>7, <2>8, <2>9, InLives
<1>10. CASE /\ "crash" \in Faults /\ c' = NewClient(0) /\ disk' = disk /\ arrived' = arrived
            /\ toBroker' \in {toBroker, Append(toBroker, ack)}
  <2>1. Known(c, disk) \subseteq FileIds(disk')
    BY <1>10 DEF InSound, InFiled
  <2>2. Got(arrived, <<>>) \subseteq got /\ Ones(arrived, <<>>)
    BY <1>4, QueueLost
  <2>3. Single(toClient, Asks, toBroker, Replies)' /\ InTokens' \in {G, G \cup {ack}}
    BY <1>5, <1>10
  <2> HIDE DEF X, got
  <2>4. InInv(X, InTokens', FileIds(disk'), b.todo, Got(arrived', <<>>)) /\ Ones(arrived', <<>>)
    BY <1>7, <1>10, <2>1, <2>2, <2>3
  <2> QED BY <1>8, <1>10, <2>3, <2>4, InDied
<1> QED BY <1>1, <1>9, <1>10 DEF p, ack

LEMMA KnownWithIds ==
    ASSUME NEW I, NEW p, NEW publish
    PROVE  {y.id : y \in KnownWith(I, p, publish)} = {y.id : y \in I} \cup {p.id}
<1> DEFINE new == [id |-> p.id, msg |-> p.msg, publish |-> publish]
<1>1. KnownWith(I, p, publish) = {x \in I : x.id # p.id} \cup {new} /\ new.id = p.id
  BY DEF KnownWith
<1> HIDE DEF new
<1> QED BY <1>1

LEMMA InReceivePublish2 ==
    ASSUME Typed, ProcessSound, InFaults, InSound, ReceivePublish2
    PROVE  InSound'
<1> DEFINE p == Head(toClient)
           ack == Ack("PUBREC", p.id)
           f == PublishReceived(p.id, p.msg)
           new == Version = 5 /\ ~AlreadyReceived(p)
           X == ToSet(b.out)
           I == c.inboundMsgs
           J == c'.inboundMsgs
           known == Known(c, disk)
           G == Tokens(toClient', Asks, toBroker, Replies)
           got == Got(arrived, c.messageQueue)
           got2 == Got(arrived', c'.messageQueue)
           kept(publish) == KnownWith(I, p, publish)
<1>1. /\ Typed' /\ p.id \in BrokerIds /\ p.msg \in Inbound2 /\ ack \in BrokerBound
      /\ \/ /\ ~new /\ J = kept("kept") /\ c'.messageQueue = c.messageQueue /\ arrived' = arrived
            /\ disk' = Stored(disk, f) /\ LinkSame(c, c') /\ toBroker' = Append(toBroker, ack)
         \/ /\ new /\ J = kept("null")
            /\ \E v \in Worlds : v.c.messageQueue = c.messageQueue /\ v.disk = Stored(disk, f)
                                 /\ v.arrived = arrived /\ Offers(v, p.msg, Now')
            /\ LinkSame(c, c') /\ toBroker' = Append(toBroker, ack)
         \/ /\ "crash" \in Faults /\ c' = NewClient(0) /\ arrived' = arrived
            /\ \/ disk' = disk /\ toBroker' = toBroker
               \/ disk' = Stored(disk, f) /\ toBroker' \in {toBroker, Append(toBroker, ack)}
  BY ReceivePublish2Does
<1>2. Arrives("PUBLISH") /\ Take /\ p.type = "PUBLISH" /\ c.connected = 1 /\ b' = b
  BY TakeDoes DEF ReceivePublish2
<1>3. ack.type = "PUBREC" /\ ack.id = p.id /\ "PUBLISH" \in Asks /\ "PUBREC" \in Replies
  BY AckIs DEF Asks, Replies
<1>4. InInv(X, InTokens, known, b.todo, got) /\ Distinct(b.out) /\ Ones(arrived, c.messageQueue)
  BY DEF InSound, InCore
<1>5. X \in SUBSET BrokerEntries /\ I \subseteq InEntries /\ p.msg \in Inbound /\ disk \in Disks
  BY <1>1, InFlightIs DEF Inbound
<1>6. Persistence = 1 => FileIds(disk) \cup {p.id} \subseteq FileIds(Stored(disk, f))
  BY <1>5, FileIdsAre
<1>7. known = {y.id : y \in I} /\ (AlreadyReceived(p) <=> \E x \in I : x.id = p.id)
  BY <1>2 DEF Known, ProcessSound, AlreadyReceived, Incoming
<1> HIDE DEF p, ack, f, G, I, J
<1>8. /\ G \in SUBSET InTokens /\ p \in InTokens /\ \A t \in G : t.id # p.id
      /\ toBroker' = toBroker => Single(toClient, Asks, toBroker, Replies)' /\ InTokens' = G
      /\ toBroker' = Append(toBroker, ack) => Single(toClient, Asks, toBroker, Replies)' /\ InTokens' = G \cup {ack}
  BY <1>1, <1>2, <1>3, InTaken DEF InSound, p, G
<1>9. /\ \A H \in {G, G \cup {ack}}, less \in SUBSET (got \cup {p.msg}) : \A more :
            known \cup {p.id} \subseteq more /\ (Version = 5 \/ less \subseteq got)
            => InInv(X, H, more, b.todo, less)
      /\ p.id \notin known => p.msg \notin got
      /\ Version # 5 => p.msg \notin got
  <2> HIDE DEF X, got, known
  <2>1. /\ X \in SUBSET BrokerEntries /\ InInv(X, InTokens, known, b.todo, got)
        /\ p \in InTokens /\ p.type = "PUBLISH" /\ p.msg \in Inbound2
        /\ G \in SUBSET InTokens /\ (\A t \in G : t.id # p.id) /\ ack.id = p.id /\ ack.type = "PUBREC"
    BY <1>1, <1>2, <1>3, <1>4, <1>5, <1>8
  <2> HIDE DEF new, got2, kept
  <2>2. Replies2(p, InTokens, G, ack)
    BY <2>1 DEF Replies2
  <2>3. Acked2(X, G, known, b.todo, got, p, ack)
    BY <2>1, <2>2, InAcked2
  <2> QED BY <2>3 DEF Acked2
<1>10. Distinct(b'.out) /\ ToSet(b'.out) = X /\ b'.todo = b.todo
  BY <1>2, <1>4
<1>11. "crash" \in Faults => Persistence = 1 /\ Version = 5 /\ known \subseteq FileIds(disk)
  BY DEF InSound, InFiled, InFaults
<1>12. ASSUME NEW publish, J = kept(publish), LinkSame(c, c'), toBroker' = Append(toBroker, ack),
              Ones(arrived', c'.messageQueue), FileIds(disk') = FileIds(Stored(disk, f)),
              got2 = got \/ (Version = 5 /\ got2 = got \cup {p.msg}),
              Version = 5 /\ got2 = got => \E x \in I : x.id = p.id
       PROVE  InSound'
  <2>1. Known(c', disk') = {y.id : y \in J}
    BY <1>2, <1>12 DEF Known, LinkSame, ProcessSound, J
  <2>2. {y.id : y \in J} = known \cup {p.id}
    BY <1>7, <1>12, KnownWithIds
  <2>3. "crash" \in Faults => Known(c', disk') \subseteq FileIds(disk')
    BY <1>6, <1>11, <1>12, <2>1, <2>2
  <2>4. "crash" \notin Faults => InKept(X, InTokens, I, b.todo, got)
    BY DEF InSound, InMine, I
  <2>5. Single(toClient, Asks, toBroker, Replies)' /\ InTokens' = G \cup {ack}
    BY <1>8, <1>12
  <2> HIDE DEF X, got, got2, known, kept
  <2>6. InInv(X, G \cup {ack}, Known(c', disk'), b.todo, got2)
    <3>1. got2 \in SUBSET (got \cup {p.msg}) /\ (Version = 5 \/ got2 \subseteq got)
      BY <1>12
    <3> QED BY <1>9, <2>1, <2>2, <3>1
  <2>7. "crash" \notin Faults => InKept(X, G \cup {ack}, kept(publish), b.todo, got2)
    <3> SUFFICES ASSUME "crash" \notin Faults PROVE InKept(X, G \cup {ack}, kept(publish), b.todo, got2)
      OBVIOUS
    <3>1. InKept(X, InTokens, I, b.todo, got)
      BY <2>4
    <3>2. InKept(X, G \cup {ack}, KnownWith(I, p, publish), b.todo, got2)
      BY <1>1, <1>2, <1>3, <1>4, <1>5, <1>8, <1>12, <3>1, InKept2
    <3> QED BY <3>2 DEF kept
  <2> QED BY <1>10, <1>12, <2>3, <2>5, <2>6, <2>7, InLives DEF got2, J
<1>13. CASE /\ ~new /\ J = kept("kept") /\ c'.messageQueue = c.messageQueue /\ arrived' = arrived
            /\ disk' = Stored(disk, f) /\ LinkSame(c, c') /\ toBroker' = Append(toBroker, ack)
  <2>1. got2 = got /\ Ones(arrived', c'.messageQueue)
    BY <1>4, <1>13
  <2>2. Version = 5 => \E x \in I : x.id = p.id
    BY <1>7, <1>13
  <2> QED BY <1>12, <1>13, <2>1, <2>2
<1>14. ASSUME new, J = kept("null"), LinkSame(c, c'), toBroker' = Append(toBroker, ack), NEW v \in Worlds,
              v.c.messageQueue = c.messageQueue, v.disk = Stored(disk, f),
              v.arrived = arrived, Offers(v, p.msg, Now')
       PROVE  InSound'
  <2>1. Now'.arrived = arrived' /\ Now'.c = c' /\ Now'.disk = disk'
    BY DEF Now
  <2>2. p.id \notin known
    BY <1>7, <1>14
  <2>3. p.msg \notin got
    BY <1>9, <2>2
  <2>4. /\ got2 = got \cup {p.msg} /\ Ones(arrived', c'.messageQueue) /\ Named(disk', "r") = Named(Stored(disk, f), "r")
    <3> DEFINE e == Now'
    <3>1. Offers(v, p.msg, e)
      BY <1>14
    <3> HIDE DEF e
    <3>2. /\ Got(e.arrived, e.c.messageQueue) = Got(v.arrived, v.c.messageQueue) \cup {p.msg}
          /\ Ones(v.arrived, v.c.messageQueue) /\ (p.msg \in Inbound2 => p.msg \notin Got(v.arrived, v.c.messageQueue))
               => Ones(e.arrived, e.c.messageQueue)
          /\ Named(e.disk, "r") = Named(v.disk, "r")
      BY <1>5, <3>1, OffersIs
    <3>3. Got(v.arrived, v.c.messageQueue) = got /\ Ones(v.arrived, v.c.messageQueue)
      BY <1>4, <1>14
    <3> QED BY <1>14, <2>1, <2>3, <3>2, <3>3 DEF e
  <2>5. FileIds(disk') = FileIds(Stored(disk, f))
    BY <2>4 DEF FileIds
  <2>6. got2 # got
    BY <2>3, <2>4
  <2> QED BY <1>12, <1>14, <2>4, <2>5, <2>6
<1>15. CASE /\ "crash" \in Faults /\ c' = NewClient(0) /\ arrived' = arrived
            /\ \/ disk' = disk /\ toBroker' = toBroker
               \/ disk' = Stored(disk, f) /\ toBroker' \in {toBroker, Append(toBroker, ack)}
  <2>1. Got(arrived, <<>>) \in SUBSET got /\ Ones(arrived, <<>>)
    BY <1>4, QueueLost
  <2>2. Single(toClient, Asks, toBroker, Replies)' /\ InTokens' \in {G, G \cup {ack}}
    BY <1>8, <1>15
  <2> DEFINE less == Got(arrived', <<>>)
             more == FileIds(disk')
             H == InTokens'
  <2>3. less \in SUBSET got /\ Ones(arrived', <<>>) /\ H \in {G, G \cup {ack}}
    BY <1>15, <2>1, <2>2
  <2>4. (H = G /\ known \subseteq more) \/ known \cup {p.id} \subseteq more
    BY <1>6, <1>8, <1>11, <1>15
  <2> HIDE DEF X, got, known, less, more, H
  <2>5. InInv(X, H, more, b.todo, less)
    <3>1. CASE H = G /\ known \subseteq more
      <4>1. H \in SUBSET InTokens
        BY <1>8, <3>1
      <4>2. InInv(X, InTokens, known, b.todo, got) /\ known \subseteq more /\ less \in SUBSET got
        BY <1>4, <2>3, <3>1
      <4> HIDE DEF new, got2, kept
      <4> QED BY <4>1, <4>2, InFewer
    <3>2. CASE known \cup {p.id} \subseteq more
      BY <1>9, <2>3, <3>2
    <3> QED BY <2>4, <3>1, <3>2
  <2> QED BY <1>10, <1>15, <2>2, <2>3, <2>5, InDied DEF H, more, less
<1> QED BY <1>1, <1>13, <1>14, <1>15

LEMMA InUnanswered ==
    ASSUME Typed, InCore, NEW type, Arrives(type), Take, toBroker' = toBroker
    PROVE  Single(toClient, Asks, toBroker, Replies)' /\ InTokens' \subseteq InTokens
<1>1. toClient \in Seq(ClientBound) /\ toClient # <<>> /\ toClient' = Tail(toClient)
  BY TakeDoes, NowIs
<1>2. /\ Single(Tail(toClient), Asks, toBroker, Replies)
      /\ Tokens(Tail(toClient), Asks, toBroker, Replies) \subseteq InTokens
  BY <1>1, TokenTaken DEF InCore, InTokens
<1> QED BY <1>1, <1>2 DEF InTokens

LEMMA InFreedTwice ==
    ASSUME Typed, ProcessSound, InFaults, InSound, FreedTwice
    PROVE  InSound'
<1> DEFINE p == Head(toClient)
           f == PublishReceived(p.id, p.msg)
<1>1. /\ \E x \in c.inboundMsgs : x.id = p.id /\ x.publish = "freed"
      /\ c' = NewClient(0) /\ disk' = Stored(disk, f) /\ toBroker' = toBroker /\ arrived' = arrived
  BY FreedTwiceDoes
<1>2. Arrives("PUBLISH") /\ Take /\ b' = b
  BY TakeDoes DEF FreedTwice
<1>3. "crash" \in Faults /\ Persistence = 1
  BY <1>1 DEF ProcessSound, InFaults
<1>4. FileIds(disk) \subseteq FileIds(disk')
  BY <1>1, <1>3, InFlightIs, FileIdsAre
<1>5. Single(toClient, Asks, toBroker, Replies)' /\ InTokens' \subseteq InTokens
  BY <1>1, <1>2, InUnanswered DEF InSound
<1> QED BY <1>1, <1>2, <1>3, <1>4, <1>5, InQuiet

LEMMA InReceivePubrel ==
    ASSUME Typed, ProcessSound, InFaults, InSound, ReceivePubrel
    PROVE  InSound'
<1> DEFINE p == Head(toClient)
           ack == Ack("PUBCOMP", p.id)
           X == ToSet(b.out)
           I == c.inboundMsgs
           J == {x \in I : x.id # p.id}
           known == Known(c, disk)
           G == Tokens(toClient', Asks, toBroker, Replies)
           got == Got(arrived, c.messageQueue)
           got2 == Got(arrived', c'.messageQueue)
<1>1. /\ p.id \in BrokerIds /\ ack \in BrokerBound
      /\ \/ /\ Incoming(p.id) = {} /\ c' = c /\ disk' = disk /\ arrived' = arrived
            /\ toBroker' = IF p.dup = 1 THEN Append(toBroker, ack) ELSE toBroker
         \/ /\ c'.inboundMsgs = J /\ LinkSame(c, c') /\ toBroker' = Append(toBroker, ack)
            /\ \E x \in Incoming(p.id), g \in Worlds :
                  /\ IF Version < 5 THEN Offers(Now, x.msg, g)
                     ELSE g.c.messageQueue = c.messageQueue /\ g.arrived = arrived /\ g.disk = disk
                  /\ c'.messageQueue = g.c.messageQueue /\ arrived' = g.arrived
                  /\ disk' = Unlinked(g.disk, "r", p.id)
         \/ /\ "crash" \in Faults /\ c' = NewClient(0)
            /\ toBroker' \in {toBroker, Append(toBroker, ack)}
            /\ Version = 5 => arrived' = arrived /\ disk' \in {disk, Unlinked(disk, "r", p.id)}
  BY ReceivePubrelDoes
<1>2. Arrives("PUBREL") /\ Take /\ p.type = "PUBREL" /\ c.connected = 1 /\ b' = b
  BY TakeDoes DEF ReceivePubrel
<1>3. ack.type = "PUBCOMP" /\ ack.id = p.id /\ "PUBREL" \in Asks /\ "PUBCOMP" \in Replies
  BY AckIs DEF Asks, Replies
<1>4. InInv(X, InTokens, known, b.todo, got) /\ Distinct(b.out) /\ Ones(arrived, c.messageQueue)
  BY DEF InSound, InCore
<1>5. X \in SUBSET BrokerEntries /\ I \subseteq InEntries /\ disk \in Disks
  BY <1>1, InFlightIs
<1>6. \A m : FileIds(disk) \ {p.id} \subseteq FileIds(Unlinked(disk, "r", p.id))
  BY <1>5, FileIdsAre
<1>7. known = {y.id : y \in I} /\ Incoming(p.id) = {x \in I : x.id = p.id}
  BY <1>2 DEF Known, ProcessSound, Incoming
<1>8. "crash" \notin Faults => InKept(X, InTokens, I, b.todo, got)
  BY DEF InSound, InMine
<1>9. "crash" \in Faults => Version = 5 /\ known \subseteq FileIds(disk)
  BY DEF InSound, InFiled, InFaults
<1> HIDE DEF p, ack, G, I, J
<1>10. /\ G \in SUBSET InTokens /\ p \in InTokens /\ \A t \in G : t.id # p.id
       /\ toBroker' = toBroker => Single(toClient, Asks, toBroker, Replies)' /\ InTokens' = G
       /\ toBroker' = Append(toBroker, ack) => Single(toClient, Asks, toBroker, Replies)' /\ InTokens' = G \cup {ack}
  BY <1>1, <1>2, <1>3, InTaken DEF InSound, p, G
<1>11. Distinct(b'.out) /\ ToSet(b'.out) = X /\ b'.todo = b.todo
  BY <1>2, <1>4
<1>12. Releases(p, InTokens, G, ack)
  BY <1>2, <1>3, <1>10 DEF Releases
<1>13. Ceased(X, InTokens, G, known, b.todo, got, p, ack)
  <2> HIDE DEF X, got, got2, known
  <2> QED BY <1>4, <1>5, <1>12, InUnknown
<1>14. ASSUME Incoming(p.id) = {}, c' = c, disk' = disk, arrived' = arrived,
              toBroker' \in {toBroker, Append(toBroker, ack)}
       PROVE  InSound'
  <2>1. Known(c', disk') = known /\ c'.inboundMsgs = I /\ got2 = got /\ Ones(arrived', c'.messageQueue)
        /\ Known(c', disk') = Known(c, disk) /\ FileIds(disk') = FileIds(disk)
    BY <1>4, <1>14 DEF I
  <2>2. "crash" \in Faults => Known(c', disk') \subseteq FileIds(disk')
    BY <2>1 DEF InSound, InFiled
  <2>3. Single(toClient, Asks, toBroker, Replies)' /\ InTokens' \in {G, G \cup {ack}}
    BY <1>10, <1>14
  <2>4. \A x \in I : x.id # p.id
    BY <1>7, <1>14
  <2> DEFINE H == InTokens'
  <2> HIDE DEF X, got, known, got2, H
  <2>5. InInv(X, H, known, b.todo, got)
    BY <1>13, <2>3 DEF Ceased, H
  <2>6. "crash" \notin Faults => InKept(X, H, I, b.todo, got)
    BY <1>8, <1>13, <2>3, <2>4 DEF Ceased, H
  <2>7. InInv(X, InTokens', Known(c', disk'), b'.todo, got2)
    BY <1>11, <2>1, <2>5 DEF H
  <2>8. "crash" \notin Faults => InKept(X, InTokens', c'.inboundMsgs, b'.todo, got2)
    BY <1>11, <2>1, <2>6 DEF H
  <2> QED BY <1>11, <2>1, <2>2, <2>3, <2>7, <2>8, InLives DEF got2
<1>15. ASSUME c'.inboundMsgs = J, LinkSame(c, c'), toBroker' = Append(toBroker, ack),
              NEW x \in Incoming(p.id), NEW g \in Worlds,
              IF Version < 5 THEN Offers(Now, x.msg, g)
              ELSE g.c.messageQueue = c.messageQueue /\ g.arrived = arrived /\ g.disk = disk,
              c'.messageQueue = g.c.messageQueue, arrived' = g.arrived,
              disk' = Unlinked(g.disk, "r", p.id)
       PROVE  InSound'
  <2>1. Known(c', disk') = {y.id : y \in J}
    BY <1>2, <1>15 DEF Known, LinkSame, ProcessSound
  <2>2. {y.id : y \in J} = known \ {p.id}
    BY <1>7 DEF J
  <2>3. "crash" \in Faults => Known(c', disk') \subseteq FileIds(disk')
    BY <1>6, <1>9, <1>15, <2>1, <2>2
  <2>4. Single(toClient, Asks, toBroker, Replies)' /\ InTokens' = G \cup {ack}
    BY <1>10, <1>15
  <2>5. x \in I /\ x.id = p.id /\ x.msg \in Inbound
    BY <1>5, <1>7 DEF InEntries, Inbound
  <2>6. CASE Version = 5
    <3>1. got2 = got /\ Ones(arrived', c'.messageQueue)
      BY <1>4, <1>15, <2>6
    <3> DEFINE more == Known(c', disk')
    <3>2. known \ {p.id} \subseteq more
      BY <2>1, <2>2
    <3> HIDE DEF X, got, got2, known, more
    <3>3. InInv(X, G \cup {ack}, more, b.todo, got)
      BY <1>13, <3>2 DEF Ceased
    <3>4. ASSUME "crash" \notin Faults PROVE InKept(X, G \cup {ack}, J, b.todo, got)
      <4>1. InKept(X, InTokens, I, b.todo, got)
        BY <1>8, <3>4
      <4>2. Ended(X, InTokens, G, known, b.todo, got, p, ack, I, x, got, known)
        BY <1>4, <1>5, <1>12, <2>5, <2>6, <4>1, InEnded
      <4> QED BY <4>2 DEF Ended, J
    <3>5. InInv(X, InTokens', Known(c', disk'), b'.todo, got2)
      BY <1>11, <2>4, <3>1, <3>3 DEF more
    <3>6. "crash" \notin Faults => InKept(X, InTokens', c'.inboundMsgs, b'.todo, got2)
      BY <1>11, <1>15, <2>4, <3>1, <3>4
    <3> QED BY <1>11, <2>3, <2>4, <3>1, <3>5, <3>6, InLives DEF got2
  <2>7. CASE Version # 5
    <3>1. Version < 5 /\ "crash" \notin Faults
      BY <1>9, <2>7
    <3>2. InKept(X, InTokens, I, b.todo, got)
      BY <1>8, <3>1
    <3> DEFINE more == Known(c', disk')
               got3 == got \cup {x.msg}
    <3>3. known \ {p.id} \subseteq more /\ got3 = got \cup {x.msg}
      BY <2>1, <2>2
    <3>4. /\ InInv(X, G \cup {ack}, more, b.todo, got3) /\ InKept(X, G \cup {ack}, J, b.todo, got3)
          /\ x.msg \notin got
      <4> HIDE DEF X, got, got2, known, more, got3
      <4>1. Ended(X, InTokens, G, known, b.todo, got, p, ack, I, x, got3, more)
        BY <1>4, <1>5, <1>12, <2>5, <2>7, <3>2, <3>3, InEnded
      <4> QED BY <2>7, <4>1 DEF Ended, J
    <3>5. /\ got2 = got3 /\ Ones(arrived', c'.messageQueue)
      <4> DEFINE w == Now
      <4>1. w \in Worlds /\ Offers(w, x.msg, g) /\ w.arrived = arrived /\ w.c = c
        BY <1>15, <3>1, NowIs
      <4> HIDE DEF w
      <4>2. /\ Got(g.arrived, g.c.messageQueue) = Got(w.arrived, w.c.messageQueue) \cup {x.msg}
            /\ Ones(w.arrived, w.c.messageQueue) /\ (x.msg \in Inbound2 => x.msg \notin Got(w.arrived, w.c.messageQueue))
                 => Ones(g.arrived, g.c.messageQueue)
        BY <2>5, <4>1, OffersIs
      <4> QED BY <1>4, <1>15, <3>4, <4>1, <4>2
    <3> HIDE DEF X, got, got2, known, more, got3
    <3>6. InInv(X, InTokens', Known(c', disk'), b'.todo, got2)
      BY <1>11, <2>4, <3>4, <3>5 DEF more
    <3>7. InKept(X, InTokens', c'.inboundMsgs, b'.todo, got2)
      BY <1>11, <1>15, <2>4, <3>4, <3>5
    <3> QED BY <1>11, <2>3, <2>4, <3>5, <3>6, <3>7, InLives DEF got2
  <2> QED BY <2>6, <2>7
<1>16. CASE /\ "crash" \in Faults /\ c' = NewClient(0)
            /\ toBroker' \in {toBroker, Append(toBroker, ack)}
            /\ Version = 5 => arrived' = arrived /\ disk' \in {disk, Unlinked(disk, "r", p.id)}
  <2>1. Got(arrived, <<>>) \subseteq got /\ Ones(arrived, <<>>)
    BY <1>4, QueueLost
  <2>2. Single(toClient, Asks, toBroker, Replies)' /\ InTokens' \in {G, G \cup {ack}}
    BY <1>10, <1>16
  <2> DEFINE less == Got(arrived', <<>>)
             more == FileIds(disk')
             H == InTokens'
  <2>3. less \in SUBSET got /\ Ones(arrived', <<>>) /\ H \in {G, G \cup {ack}}
    BY <1>9, <1>16, <2>1, <2>2
  <2>4. known \ {p.id} \subseteq more
    BY <1>6, <1>9, <1>16
  <2> HIDE DEF X, got, known, less, more, H
  <2>5. InInv(X, H, more, b.todo, less)
    BY <1>13, <2>3, <2>4 DEF Ceased
  <2> QED BY <1>11, <1>16, <2>2, <2>3, <2>5, InDied DEF H, more, less
<1> QED BY <1>1, <1>14, <1>15, <1>16 DEF J, I

\* Steps that have to do with publishing.
LEMMA InSends ==
    ASSUME Typed, InCore, toClient' = toClient, NEW a \in BrokerBound, a.type \notin Replies,
           toBroker' \in {toBroker, Append(toBroker, a)}
    PROVE  Single(toClient, Asks, toBroker, Replies)' /\ InTokens' = InTokens
<1>1. Single(toBroker, Replies, toClient, Asks) /\ Tokens(toBroker, Replies, toClient, Asks) = InTokens
  BY SingleTurned DEF InCore, InTokens
<1>2. toBroker \in Seq(BrokerBound)
  BY NowIs
<1>3. /\ Single(Append(toBroker, a), Replies, toClient, Asks)
      /\ Tokens(Append(toBroker, a), Replies, toClient, Asks) = InTokens
  BY <1>1, <1>2, TokenSent
<1>4. /\ Single(toBroker', Replies, toClient, Asks) /\ Tokens(toBroker', Replies, toClient, Asks) = InTokens
  BY <1>1, <1>3
<1>5. /\ Single(toClient, Asks, toBroker', Replies) /\ Tokens(toClient, Asks, toBroker', Replies) = InTokens
  BY <1>4, SingleTurned
<1> QED BY <1>5 DEF InTokens

LEMMA InPublish ==
    ASSUME Typed, InFaults, InSound, NEW m \in Outbound, Publish(m)
    PROVE  InSound'
<1> DEFINE f == CommandFile(c.command_seqno + Persistence, NextId, m)
<1>1. /\ LinkSame(c, c') /\ InSame(c, c') /\ disk' = Stored(disk, f)
      /\ toBroker' = toBroker /\ arrived' = arrived /\ toClient' = toClient /\ b' = b
  BY PublishDoes
<1>2. FileIds(disk') = FileIds(disk)
  BY <1>1, OtherFiles, FileKeys, SameFileIds
<1>3. Single(toClient, Asks, toBroker, Replies)' /\ InTokens' = InTokens
  BY <1>1 DEF InSound, InCore, InTokens
<1> QED BY <1>1, <1>2, <1>3, InQuiet DEF LinkSame, InSame

LEMMA InProcessCommand ==
    ASSUME Typed, InFaults, InSound, ProcessCommand
    PROVE  InSound'
<1> DEFINE cmd == Head(c.commands)
           gone == Unlinked(disk, "c", cmd.seqno)
           stored == Stored(gone, PublishSent(cmd.id, cmd.msg))
           p == Packet("PUBLISH", cmd.id, cmd.msg, 0)
<1>1. /\ \/ LinkSame(c, c') /\ InSame(c, c') /\ toBroker' = Append(toBroker, p) /\ p \in BrokerBound
         \/ "crash" \in Faults /\ c' = NewClient(0) /\ toBroker' = toBroker
      /\ disk' \in {gone, stored}
      /\ arrived' = arrived /\ toClient' = toClient /\ b' = b
  BY ProcessCommandDoes
<1>2. InFiles(gone) = InFiles(disk) /\ InFiles(stored) = InFiles(gone)
  BY OtherFiles, FileKeys
<1>3. FileIds(disk') = FileIds(disk)
  BY <1>1, <1>2, SameFileIds
<1>4. Single(toClient, Asks, toBroker, Replies)' /\ InTokens' = InTokens
  <2>1. CASE toBroker' = toBroker
    BY <1>1, <2>1 DEF InSound, InCore, InTokens
  <2>2. CASE toBroker' = Append(toBroker, p) /\ p \in BrokerBound
    <3>1. p.type \notin Replies
      BY DEF Packet, Replies
    <3> QED BY <1>1, <2>2, <3>1, InSends DEF InSound
  <2> QED BY <1>1, <2>1, <2>2
<1> QED BY <1>1, <1>3, <1>4, InQuiet DEF LinkSame, InSame

LEMMA InCompleted ==
    ASSUME Typed, InFaults, InSound, NEW type \in {"PUBACK", "PUBCOMP"},
           Arrives(type), Take, Handle(Completed(Head(toClient).id, type))
    PROVE  InSound'
<1> DEFINE id == Head(toClient).id
           left == Unlinked(disk, "s", id)
           gone == Unlinked(left, "sc", id)
<1>1. /\ disk' \in {disk, left, gone} /\ toBroker' = toBroker /\ arrived' = arrived
      /\ (LinkSame(c, c') /\ InSame(c, c')) \/ ("crash" \in Faults /\ c' = NewClient(0))
  BY CompletedDoes
<1>2. InFiles(left) = InFiles(disk) /\ InFiles(gone) = InFiles(left)
  BY OtherFiles
<1>3. FileIds(disk') = FileIds(disk)
  BY <1>1, <1>2, SameFileIds
<1>4. b' = b
  BY TakeDoes
<1>5. Single(toClient, Asks, toBroker, Replies)' /\ InTokens' \subseteq InTokens
  BY <1>1, InUnanswered DEF InSound
<1> QED BY <1>1, <1>3, <1>4, <1>5, InQuiet DEF LinkSame, InSame

LEMMA InReceivePubrec ==
    ASSUME Typed, InFaults, InSound, ReceivePubrec
    PROVE  InSound'
<1> DEFINE id == Head(toClient).id
           a == Ack("PUBREL", id)
<1>1. /\ \/ toBroker' = toBroker
         \/ toBroker' = Append(toBroker, a) /\ a \in BrokerBound
      /\ disk' \in {disk, Stored(disk, PubrelSent(id))} /\ arrived' = arrived
      /\ \/ c' = c
         \/ LinkSame(c, c') /\ InSame(c, c')
         \/ "crash" \in Faults /\ c' = NewClient(0)
  BY ReceivePubrecDoes
<1>2. InFiles(Stored(disk, PubrelSent(id))) = InFiles(disk)
  BY OtherFiles, FileKeys
<1>3. FileIds(disk') = FileIds(disk)
  BY <1>1, <1>2, SameFileIds
<1>4. Arrives("PUBREC") /\ Take /\ b' = b
  BY TakeDoes DEF ReceivePubrec
<1>5. Single(toClient, Asks, toBroker, Replies)' /\ InTokens' \subseteq InTokens
  <2>1. CASE toBroker' = toBroker
    BY <1>4, <2>1, InUnanswered DEF InSound
  <2>2. CASE toBroker' = Append(toBroker, a) /\ a \in BrokerBound
    <3>1. a.type \notin Replies
      BY DEF Ack, Packet, Replies
    <3>2. InCore
      BY DEF InSound
    <3> HIDE DEF a
    <3>3. LET G == Tokens(toClient', Asks, toBroker, Replies)
          IN  G \subseteq InTokens /\ Single(toClient, Asks, toBroker, Replies)' /\ InTokens' = G
      BY <1>4, <2>2, <3>1, <3>2, InTaken
    <3> QED BY <3>3
  <2> QED BY <1>1, <2>1, <2>2
<1> QED BY <1>1, <1>3, <1>4, <1>5, InQuiet DEF LinkSame, InSame

LEMMA InPendingWrites ==
    ASSUME Typed, InFaults, InSound, PendingWrites
    PROVE  InSound'
<1> DEFINE p == Head(toClient)
           f == PublishReceived(p.id, p.msg)
<1>1. /\ LinkSame([c EXCEPT !.connected = 0], c') /\ InSame(c, c')
      /\ disk' = disk \/ disk' = Stored(disk, f)
      /\ toBroker' = toBroker /\ arrived' = arrived /\ toClient' = <<>> /\ b' = b
  BY PendingWritesDoes
<1>2. FileIds(disk) \subseteq FileIds(disk')
  <2>1. CASE Persistence = 1
    BY <1>1, <2>1, InFlightIs, FileIdsAre
  <2>2. CASE Persistence # 1
    BY <1>1, <2>2 DEF Stored
  <2> QED BY <2>1, <2>2
<1>3. Single(toClient, Asks, toBroker, Replies)' /\ InTokens' \subseteq InTokens
  BY <1>1, TokensLost DEF InSound, InCore, InTokens
<1>4. c'.running = c.running
  <2>1. [c EXCEPT !.connected = 0].running = c.running
    BY NowIs DEF Clients
  <2> QED BY <1>1, <2>1 DEF LinkSame
<1> QED BY <1>1, <1>2, <1>3, <1>4, InQuiet DEF InSame

LEMMA InBreakOrCrash ==
    ASSUME Typed, InFaults, InSound, Break \/ Crash
    PROVE  InSound'
<1>1. /\ disk' = disk /\ toBroker' = toBroker /\ arrived' = arrived /\ toClient' \in {toClient, <<>>} /\ b' = b
      /\ \/ LinkSame([c EXCEPT !.connected = 0], c') /\ InSame(c, c')
         \/ "crash" \in Faults /\ c' = NewClient(0)
  BY BreakDoes, CrashDoes
<1>2. Single(toClient, Asks, toBroker, Replies)' /\ InTokens' \subseteq InTokens
  BY <1>1, TokensLost DEF InSound, InCore, InTokens
<1>3. [c EXCEPT !.connected = 0].running = c.running
  BY NowIs DEF Clients
<1> QED BY <1>1, <1>2, <1>3, InQuiet DEF InSame, LinkSame

LEMMA InFlushQueue ==
    ASSUME Typed, InFaults, InSound, FlushQueue
    PROVE  InSound'
<1> DEFINE q == c.messageQueue
           m == Head(q).msg
           bumped == [arrived EXCEPT ![m] = Bump(@)]
           left == IF Version = 5 THEN disk ELSE Unlinked(disk, "q", Head(q).seqno)
           X == ToSet(b.out)
           got == Got(arrived, q)
           got2 == Got(arrived', c'.messageQueue)
           known == Known(c, disk)
<1>1. /\ q # <<>>
      /\ \/ /\ c'.messageQueue = Tail(q) /\ c'.inboundMsgs = c.inboundMsgs
            /\ LinkSame(c, c') /\ arrived' = bumped /\ disk' = left
         \/ /\ "crash" \in Faults /\ c' = NewClient(0)
            /\ arrived' \in {arrived, bumped} /\ disk' \in {disk, left}
      /\ toBroker' = toBroker /\ toClient' = toClient /\ b' = b
  BY FlushQueueDoes
<1>2. /\ InInv(X, InTokens, known, b.todo, got) /\ Distinct(b.out) /\ Ones(arrived, q)
      /\ Single(toClient, Asks, toBroker, Replies)
  BY DEF InSound, InCore
<1>3. /\ Single(toClient, Asks, toBroker, Replies)' /\ InTokens' = InTokens
      /\ Distinct(b'.out) /\ ToSet(b'.out) = X /\ b'.todo = b.todo
  BY <1>1, <1>2 DEF InTokens
<1>4. /\ Got(bumped, Tail(q)) = got /\ Ones(bumped, Tail(q))
      /\ Got(arrived, <<>>) \subseteq got /\ Ones(arrived, <<>>)
      /\ Got(bumped, <<>>) \subseteq got /\ Ones(bumped, <<>>)
  <2>1. arrived \in [Inbound -> 0..2] /\ q \in Seq(Waiters) /\ Ones(arrived, q)
    BY <1>2, InFlightIs
  <2> HIDE DEF q
  <2> QED BY <1>1, <2>1, FlushedIs DEF q
<1>5. FileIds(disk') = FileIds(disk)
  <2>1. \A n : Named(Unlinked(disk, "q", n), "r") = Named(disk, "r")
    BY DEF Named, Unlinked
  <2>2. Named(disk', "r") = Named(disk, "r")
    BY <1>1, <2>1
  <2> QED BY <2>2 DEF FileIds
<1>6. /\ "crash" \in Faults => known \subseteq FileIds(disk')
      /\ "crash" \notin Faults => InKept(X, InTokens, c.inboundMsgs, b.todo, got)
  BY <1>5 DEF InSound, InFiled, InMine
<1>7. CASE /\ c'.messageQueue = Tail(q) /\ c'.inboundMsgs = c.inboundMsgs
           /\ LinkSame(c, c') /\ arrived' = bumped /\ disk' = left
  <2>1. Known(c', disk') = known
    BY <1>5, <1>7 DEF Known, LinkSame
  <2>2. got2 = got /\ Ones(arrived', c'.messageQueue)
    BY <1>4, <1>7
  <2> HIDE DEF X, got, known, bumped, left, q, m
  <2>3. InInv(ToSet(b'.out), InTokens', Known(c', disk'), b'.todo, got2)
    BY <1>2, <1>3, <2>1, <2>2
  <2>4. "crash" \notin Faults => InKept(ToSet(b'.out), InTokens', c'.inboundMsgs, b'.todo, got2)
    BY <1>3, <1>6, <1>7, <2>2
  <2> QED BY <1>3, <1>6, <2>1, <2>2, <2>3, <2>4, InLives
<1>8. CASE /\ "crash" \in Faults /\ c' = NewClient(0) /\ arrived' \in {arrived, bumped}
  <2> DEFINE less == Got(arrived', <<>>)
             more == FileIds(disk')
  <2>1. known \subseteq more /\ less \subseteq got /\ Ones(arrived', <<>>)
    BY <1>4, <1>6, <1>8
  <2> HIDE DEF X, got, known, less, more, bumped, left, q, m
  <2>2. InInv(X, InTokens, more, b.todo, less)
    BY <1>2, <2>1, InFewer
  <2> QED BY <1>3, <1>8, <2>1, <2>2, InDied DEF more, less
<1> QED BY <1>1, <1>7, <1>8

LEMMA InConnect ==
    ASSUME Typed, InFaults, InSound, Connect
    PROVE  InSound'
<1> DEFINE X == ToSet(b.out)
           got == Got(arrived, c.messageQueue)
           H == {BrokerAgain(e) : e \in X}
<1>1. /\ c'.running = c.running /\ InSame(c, c')
      /\ disk' = StoredAll(disk, AgainFiles)
      /\ toBroker' = [i \in DOMAIN c.outboundMsgs |-> Again(c.outboundMsgs[i])]
      /\ toClient' = [i \in DOMAIN b.out |-> BrokerAgain(b.out[i])]
      /\ arrived' = arrived /\ b' = b
  BY ConnectDoes
<1>2. InInv(X, InTokens, Known(c, disk), b.todo, got) /\ Distinct(b.out) /\ Ones(arrived, c.messageQueue)
  BY DEF InSound, InCore
<1>3. /\ \A i \in DOMAIN toBroker' : toBroker'[i].type \notin Replies
      /\ \A i \in DOMAIN b.out : toClient'[i] = BrokerAgain(b.out[i]) /\ BrokerAgain(b.out[i]).type \in Asks
                                 /\ BrokerAgain(b.out[i]).id = b.out[i].id
  <2>1. \A e : Again(e).type \in Asks /\ BrokerAgain(e).type \in Asks /\ BrokerAgain(e).id = e.id
    BY DEF Again, BrokerAgain, Ack, Packet, Asks
  <2>2. \A t \in Asks : t \notin Replies
    BY DEF Asks, Replies
  <2> QED BY <1>1, <2>1, <2>2
<1>4. Single(toClient, Asks, toBroker, Replies)' /\ InTokens' = H
  <2> DEFINE t == toClient'
             r == toBroker'
             N == DOMAIN b.out
  <2>1. DOMAIN t = N /\ (\A i \in N : t[i].type \in Asks) /\ (\A i, j \in N : t[i].id = t[j].id => i = j)
    BY <1>1, <1>2, <1>3 DEF Distinct
  <2>2. \A i \in DOMAIN r : r[i].type \notin Replies
    BY <1>3
  <2>3. H = {t[i] : i \in N}
    <3>1. X = {b.out[i] : i \in N}
      BY DEF ToSet
    <3> QED BY <1>3, <3>1
  <2> HIDE DEF t, r, N, H
  <2>4. Single(t, Asks, r, Replies) /\ Tokens(t, Asks, r, Replies) = {t[i] : i \in N}
    BY <2>1, <2>2, TokensAgain
  <2> QED BY <2>3, <2>4 DEF t, r, InTokens
<1>5. FileIds(disk') = FileIds(disk)
  <2>1. disk' = disk \/ disk' = {f \in disk : \A g \in LastOf(AgainFiles) : ~SameFile(f, g)} \cup LastOf(AgainFiles)
    BY <1>1, AgainFilesTyped, InFlightIs, StoredAllIs
  <2>2. \A g \in LastOf(AgainFiles) : g.key # "r"
    <3>1. \A e : StoredAgain(e).key # "r"
      BY DEF StoredAgain, PubrelSent, PublishSent, File
    <3> QED BY <3>1 DEF LastOf, AgainFiles
  <2>3. Named(disk', "r") = Named(disk, "r")
    BY <2>1, <2>2 DEF Named, SameFile
  <2> QED BY <2>3 DEF FileIds
<1>6. Known(c', disk') = Known(c, disk) /\ c'.inboundMsgs = c.inboundMsgs /\ c'.messageQueue = c.messageQueue
  BY <1>1, <1>5 DEF Known, InSame
<1>7. /\ InInv(X, H, Known(c, disk), b.todo, got)
      /\ "crash" \notin Faults => InKept(X, H, c.inboundMsgs, b.todo, got)
  <2>1. "crash" \notin Faults => InKept(X, InTokens, c.inboundMsgs, b.todo, got)
    BY DEF InSound, InMine
  <2>2. H = {BrokerAgain(e) : e \in X} /\ X \in SUBSET BrokerEntries
    BY InFlightIs
  <2> DEFINE known == Known(c, disk)
             F == InTokens
             I == c.inboundMsgs
             todo == b.todo
  <2>3. InInv(X, F, known, todo, got) /\ ("crash" \notin Faults => InKept(X, F, I, todo, got))
    BY <1>2, <2>1
  <2> HIDE DEF X, got, H, known, F, I, todo
  <2>4. /\ InInv(X, H, known, todo, got)
        /\ \A J : InKept(X, F, J, todo, got) => InKept(X, H, J, todo, got)
    BY <2>2, <2>3, InAgain
  <2> QED BY <2>3, <2>4 DEF known, I, todo
<1>8. "crash" \in Faults => Known(c', disk') \subseteq FileIds(disk')
  BY <1>5, <1>6 DEF InSound, InFiled
<1> HIDE DEF H
<1> QED BY <1>1, <1>2, <1>4, <1>6, <1>7, <1>8, InLives

LEMMA InRestart ==
    ASSUME Typed, ProcessSound, InFaults, InSound, Restart
    PROVE  InSound'
<1> DEFINE X == ToSet(b.out)
           got == Got(arrived, c.messageQueue)
<1>1. /\ c.running = 0 /\ c'.running = 1
      /\ c'.inboundMsgs = InboundOnDisk /\ c'.messageQueue = QueueOnDisk
      /\ disk' = disk \ (Orphans \cup Unreadable)
      /\ toBroker' = toBroker /\ arrived' = arrived /\ toClient' = <<>> /\ b' = b
  BY RestartDoes
<1>2. "crash" \in Faults
  BY <1>1 DEF ProcessSound
<1>3. QueueOnDisk = <<>>
  BY <1>2, QueueOnDiskIs DEF InFaults
<1>4. InInv(X, InTokens, Known(c, disk), b.todo, got) /\ Distinct(b.out) /\ Ones(arrived, c.messageQueue)
      /\ Single(toClient, Asks, toBroker, Replies)
  BY DEF InSound, InCore
<1>5. Named(disk', "r") = Named(disk, "r") /\ Files("r") = Named(disk, "r")
  BY <1>1 DEF Named, Orphans, Unreadable, Files
<1>6. Known(c, disk) = FileIds(disk) /\ FileIds(disk') = FileIds(disk)
  BY <1>1, <1>5 DEF Known, FileIds
<1>7. Known(c', disk') = FileIds(disk')
  <2>1. {y.id : y \in InboundOnDisk} = {f.id : f \in Files("r")}
    <3>1. \A y \in InboundOnDisk : \E f \in Files("r") : y.id = f.id
      BY DEF InboundOnDisk
    <3>2. ASSUME NEW f \in Files("r") PROVE \E y \in InboundOnDisk : y.id = f.id
      <4> DEFINE y == [id |-> f.id, msg |-> f.msg, publish |-> IF Version = 5 THEN "freed" ELSE "kept"]
      <4>1. y \in InboundOnDisk /\ y.id = f.id
        BY DEF InboundOnDisk
      <4> QED BY <4>1
    <3> QED BY <3>1, <3>2
  <2> QED BY <1>1, <1>5, <2>1 DEF Known, FileIds
<1>8. Single(toClient, Asks, toBroker, Replies)' /\ InTokens' \subseteq InTokens
  BY <1>1, <1>4, TokensLost DEF InTokens
<1>9. Got(arrived, <<>>) \subseteq got /\ Ones(arrived, <<>>)
  BY <1>4, QueueLost
<1> DEFINE less == Got(arrived', c'.messageQueue)
<1>10. less \subseteq got /\ Ones(arrived', c'.messageQueue)
  BY <1>1, <1>3, <1>9
<1> DEFINE H == InTokens'
           more == Known(c', disk')
           known == Known(c, disk)
<1>11. H \subseteq InTokens /\ known \subseteq more
  BY <1>6, <1>7, <1>8
<1>12. InInv(X, H, more, b.todo, less)
  <2> HIDE DEF X, got, less, H, more, known
  <2> QED BY <1>4, <1>10, <1>11, InFewer DEF known
<1> QED BY <1>1, <1>2, <1>4, <1>7, <1>8, <1>10, <1>12, InLives

(* The broker.                                                             *)

LEMMA InBroker ==
    ASSUME InSound, c' = c, disk' = disk, arrived' = arrived,
           Distinct(b'.out), Single(toClient, Asks, toBroker, Replies)',
           InInv(ToSet(b'.out), InTokens', Known(c, disk), b'.todo, Got(arrived, c.messageQueue)),
           "crash" \notin Faults =>
               InKept(ToSet(b'.out), InTokens', c.inboundMsgs, b'.todo, Got(arrived, c.messageQueue))
    PROVE  InSound'
<1>1. Known(c', disk') = Known(c, disk) /\ FileIds(disk') = FileIds(disk) /\ Ones(arrived', c'.messageQueue)
      /\ Got(arrived', c'.messageQueue) = Got(arrived, c.messageQueue) /\ c'.inboundMsgs = c.inboundMsgs
  BY DEF InSound, InCore
<1>2. "crash" \in Faults => Known(c', disk') \subseteq FileIds(disk')
  BY <1>1 DEF InSound, InFiled
<1> QED BY <1>1, <1>2, InLives

\* The broker takes a packet, and answers or does not.
LEMMA InTakenBack ==
    ASSUME Typed, InCore, toBroker # <<>>, toBroker' = Tail(toBroker), NEW a \in ClientBound
    PROVE  LET p == Head(toBroker)
               G == Tokens(toClient, Asks, toBroker', Replies)
           IN  /\ G \subseteq InTokens
               /\ p.type \in Replies => p \in InTokens /\ \A t \in G : t.id # p.id
               /\ toClient' = toClient => Single(toClient, Asks, toBroker, Replies)' /\ InTokens' = G
               /\ toClient' = Append(toClient, a) /\ p.type \in Replies /\ a.type \in Asks /\ a.id = p.id
                    => Single(toClient, Asks, toBroker, Replies)' /\ InTokens' = G \cup {a}
               /\ toClient' = Append(toClient, a) /\ a.type \notin Asks
                    => Single(toClient, Asks, toBroker, Replies)' /\ InTokens' = G
<1> DEFINE p == Head(toBroker)
           G == Tokens(toClient, Asks, toBroker', Replies)
           R == Tokens(toBroker', Replies, toClient, Asks)
<1>1. toBroker \in Seq(BrokerBound) /\ toClient \in Seq(ClientBound)
  BY NowIs
<1>2. /\ Single(toBroker, Replies, toClient, Asks)
      /\ Tokens(toBroker, Replies, toClient, Asks) = InTokens
  BY SingleTurned DEF InCore, InTokens
<1>3. /\ Single(Tail(toBroker), Replies, toClient, Asks)
      /\ Tokens(Tail(toBroker), Replies, toClient, Asks) \subseteq InTokens
      /\ p.type \in Replies =>
            p \in InTokens /\ \A t \in Tokens(Tail(toBroker), Replies, toClient, Asks) : t.id # p.id
  BY <1>1, <1>2, TokenTaken
<1>4. Single(toBroker', Replies, toClient, Asks)
  BY <1>3
<1>5. Single(toClient, Asks, toBroker', Replies) /\ G = R
  BY <1>4, SingleTurned
<1>6. G \subseteq InTokens /\ (p.type \in Replies => p \in InTokens /\ \A t \in G : t.id # p.id)
  BY <1>3, <1>5
<1> HIDE DEF p, G, R
<1>7. toClient' = toClient => Single(toClient, Asks, toBroker, Replies)' /\ InTokens' = G
  BY <1>5 DEF InTokens, G
<1>8. ASSUME toClient' = Append(toClient, a), a.type \in Asks => \A t \in G : t.id # a.id
      PROVE  /\ Single(toClient, Asks, toBroker, Replies)'
             /\ a.type \in Asks => InTokens' = G \cup {a}
             /\ a.type \notin Asks => InTokens' = G
  <2> DEFINE r == toBroker'
  <2>1. Single(toClient, Asks, r, Replies) /\ Tokens(toClient, Asks, r, Replies) = G
    BY <1>5 DEF G
  <2> HIDE DEF r
  <2>2. /\ Single(Append(toClient, a), Asks, r, Replies)
        /\ a.type \in Asks => Tokens(Append(toClient, a), Asks, r, Replies) = G \cup {a}
        /\ a.type \notin Asks => Tokens(Append(toClient, a), Asks, r, Replies) = G
    BY <1>1, <1>8, <2>1, TokenSent
  <2> QED BY <1>8, <2>2 DEF InTokens, r
<1> QED BY <1>6, <1>7, <1>8 DEF p, G

LEMMA InBrokerPublish ==
    ASSUME Typed, InSound, NEW m \in Inbound, BrokerPublish(m)
    PROVE  InSound'
<1> DEFINE X == ToSet(b.out)
           got == Got(arrived, c.messageQueue)
           known == Known(c, disk)
           F == InTokens
           todo == b.todo
<1>1. PICK id \in BrokerIds :
        /\ m \in b.todo /\ \A i \in DOMAIN b.out : b.out[i].id # id
        /\ b'.todo = b.todo \ {m}
        /\ b'.out = Append(b.out, [id |-> id, msg |-> m, next |-> IF m \in Inbound1 THEN "PUBACK" ELSE "PUBREC"])
        /\ toClient' = Append(toClient, Packet("PUBLISH", id, m, 0))
        /\ toBroker' = toBroker /\ c' = c /\ disk' = disk /\ arrived' = arrived
  BY BrokerPublishDoes
<1> DEFINE e == [id |-> id, msg |-> m, next |-> IF m \in Inbound1 THEN "PUBACK" ELSE "PUBREC"]
           p == Packet("PUBLISH", id, m, 0)
<1>2. e \in BrokerEntries /\ e.id = id /\ e.msg = m /\ e.next = FirstReply(m)
  BY DEF BrokerEntries, NextTypes, FirstReply
<1>3. p \in ClientBound /\ p.id = id /\ p.type = "PUBLISH" /\ p.msg = m /\ p.type \in Asks
  BY DEF Packet, ClientBound, Packets, Types, Asks
<1>4. b'.out = Append(b.out, e) /\ toClient' = Append(toClient, p)
  BY <1>1
<1> HIDE DEF e, p
<1>5. InInv(X, F, known, todo, got) /\ Distinct(b.out) /\ Single(toClient, Asks, toBroker, Replies)
  BY DEF InSound, InCore
<1>6. b.out \in Seq(BrokerEntries) /\ X \in SUBSET BrokerEntries /\ toClient \in Seq(ClientBound)
  BY NowIs, InFlightIs
<1>7. \A x \in X : x.id # e.id
  BY <1>1, <1>2 DEF ToSet
<1>8. \A t \in F : t.id # p.id
  <2>1. \A t \in F : \E x \in X : x.id = t.id
    BY <1>5 DEF InInv, Meets
  <2> QED BY <1>2, <1>3, <1>7, <2>1
<1>9. Single(toClient, Asks, toBroker, Replies)' /\ InTokens' = F \cup {p}
  <2>1. Single(Append(toClient, p), Asks, toBroker, Replies) /\ Tokens(Append(toClient, p), Asks, toBroker, Replies) = F \cup {p}
    BY <1>3, <1>5, <1>6, <1>8, TokenSent DEF InTokens
  <2> QED BY <1>1, <1>4, <2>1 DEF InTokens
<1>10. Distinct(b'.out) /\ ToSet(b'.out) = X \cup {e}
  <2>1. NoneHas(b.out, e.id)
    BY <1>1, <1>2 DEF NoneHas
  <2>2. LET r == Append(b.out, e)
        IN  ToSet(r) = ToSet(b.out) \cup {e} /\ \A i, j \in DOMAIN r : r[i].id = r[j].id => i = j
    BY <1>2, <1>5, <1>6, <2>1, QueueLonger
  <2> QED BY <1>4, <2>2 DEF Distinct
<1>11. "crash" \notin Faults => InKept(X, F, c.inboundMsgs, todo, got)
  BY DEF InSound, InMine
<1>12. m \in todo /\ b'.todo = todo \ {m}
  BY <1>1
<1> HIDE DEF X, got, known, F, todo
<1>13. /\ InInv(X \cup {e}, F \cup {p}, known, todo \ {m}, got)
       /\ \A I : InKept(X, F, I, todo, got) => InKept(X \cup {e}, F \cup {p}, I, todo \ {m}, got)
  BY <1>2, <1>3, <1>5, <1>6, <1>7, <1>12, InPublished
<1> QED BY <1>1, <1>9, <1>10, <1>11, <1>12, <1>13, InBroker DEF known, got

\* What the client publishes is no part of these exchanges.
LEMMA InBrokerReceiveAsk ==
    ASSUME Typed, InFaults, InSound, BrokerReceivePublish \/ BrokerReceivePubrel
    PROVE  InSound'
<1> DEFINE p == Head(toBroker)
<1>1. \E a \in ClientBound :
        /\ a.type \in Replies /\ toBroker # <<>> /\ toBroker' = Tail(toBroker)
        /\ toClient' \in {toClient, Append(toClient, a)}
        /\ b'.out = b.out /\ b'.todo = b.todo /\ c' = c /\ disk' = disk /\ arrived' = arrived
  <2>1. CASE BrokerReceivePublish
    <3> DEFINE a == Ack(IF p.msg \in Outbound1 THEN "PUBACK" ELSE "PUBREC", p.id)
    <3>1. /\ toBroker # <<>> /\ toBroker' = Tail(toBroker) /\ a \in ClientBound
          /\ toClient' = IF c.connected = 1 THEN Append(toClient, a) ELSE toClient
          /\ b'.out = b.out /\ b'.todo = b.todo /\ c' = c /\ disk' = disk /\ arrived' = arrived
      BY <2>1, BrokerReceivePublishDoes
    <3>2. a.type \in Replies
      BY DEF Ack, Packet, Replies
    <3> HIDE DEF a
    <3> QED BY <3>1, <3>2
  <2>2. CASE BrokerReceivePubrel
    <3> DEFINE a == Ack("PUBCOMP", p.id)
    <3>1. /\ toBroker # <<>> /\ toBroker' = Tail(toBroker) /\ a \in ClientBound
          /\ toClient' = IF c.connected = 1 THEN Append(toClient, a) ELSE toClient
          /\ b'.out = b.out /\ b'.todo = b.todo /\ c' = c /\ disk' = disk /\ arrived' = arrived
      BY <2>2, BrokerReceivePubrelDoes
    <3>2. a.type \in Replies
      BY DEF Ack, Packet, Replies
    <3> HIDE DEF a
    <3> QED BY <3>1, <3>2
  <2> QED BY <2>1, <2>2
<1>2. PICK a \in ClientBound :
        /\ a.type \in Replies /\ toBroker # <<>> /\ toBroker' = Tail(toBroker)
        /\ toClient' \in {toClient, Append(toClient, a)}
        /\ b'.out = b.out /\ b'.todo = b.todo /\ c' = c /\ disk' = disk /\ arrived' = arrived
  BY <1>1
<1>3. a.type \notin Asks
  BY <1>2 DEF Asks, Replies
<1>4. Single(toClient, Asks, toBroker, Replies)' /\ InTokens' \subseteq InTokens
  <2>1. LET G == Tokens(toClient, Asks, toBroker', Replies)
        IN  /\ G \subseteq InTokens
            /\ toClient' = toClient => Single(toClient, Asks, toBroker, Replies)' /\ InTokens' = G
            /\ toClient' = Append(toClient, a) /\ a.type \notin Asks
                 => Single(toClient, Asks, toBroker, Replies)' /\ InTokens' = G
    BY <1>2, InTakenBack DEF InSound
  <2> QED BY <1>2, <1>3, <2>1
<1> QED BY <1>2, <1>4, InQuiet

LEMMA SomePacket == \E x \in ClientBound : TRUE
<1> DEFINE x == Packet("PUBACK", 1, 0, 0)
<1>1. x \in ClientBound
  BY DEF Packet, ClientBound, Packets, Types, Ids
<1> HIDE DEF x
<1> QED BY <1>1

LEMMA InBrokerReceivePubrec ==
    ASSUME Typed, InFaults, InSound, ProcessSound, BrokerReceivePubrec
    PROVE  InSound'
<1> DEFINE p == Head(toBroker)
           i == BrokerEntry(p.id)
           a == Ack("PUBREL", p.id)
           X == ToSet(b.out)
           got == Got(arrived, c.messageQueue)
           known == Known(c, disk)
           F == InTokens
           G == Tokens(toClient, Asks, toBroker', Replies)
           todo == b.todo
<1>1. /\ toBroker # <<>> /\ p \in BrokerBound /\ p.type = "PUBREC" /\ toBroker' = Tail(toBroker)
      /\ \/ i = 0 /\ b' = b /\ toClient' = toClient
         \/ /\ i \in DOMAIN b.out /\ b.out[i].id = p.id /\ a \in ClientBound
            /\ b'.out = [b.out EXCEPT ![i] = [@ EXCEPT !.next = "PUBCOMP"]]
            /\ b'.in = b.in /\ b'.todo = b.todo
            /\ toClient' = IF c.connected = 1 THEN Append(toClient, a) ELSE toClient
      /\ c' = c /\ disk' = disk /\ arrived' = arrived
  BY BrokerReceivePubrecDoes
<1>2. p.type \in Replies /\ a.type = "PUBREL" /\ a.id = p.id /\ a.type \in Asks
  BY <1>1 DEF Replies, Asks, Ack, Packet
<1>3. InCore
  BY DEF InSound
<1>4. \E x \in ClientBound : TRUE
  BY SomePacket
<1>5. /\ G \in SUBSET F
      /\ p \in F /\ \A t \in G : t.id # p.id
      /\ toClient' = toClient => Single(toClient, Asks, toBroker, Replies)' /\ InTokens' = G
  <2>1. PICK x \in ClientBound : TRUE
    BY <1>4
  <2>2. LET r == Head(toBroker)
            H == Tokens(toClient, Asks, toBroker', Replies)
        IN  /\ H \subseteq InTokens
            /\ r.type \in Replies => r \in InTokens /\ \A t \in H : t.id # r.id
            /\ toClient' = toClient => Single(toClient, Asks, toBroker, Replies)' /\ InTokens' = H
    BY <1>1, <1>3, InTakenBack
  <2> QED BY <1>2, <2>2
<1>6. CASE i = 0 /\ b' = b /\ toClient' = toClient
  BY <1>1, <1>5, <1>6, InQuiet
<1>7. CASE /\ i \in DOMAIN b.out /\ b.out[i].id = p.id /\ a \in ClientBound
           /\ b'.out = [b.out EXCEPT ![i] = [@ EXCEPT !.next = "PUBCOMP"]]
           /\ b'.todo = b.todo
           /\ toClient' = IF c.connected = 1 THEN Append(toClient, a) ELSE toClient
  <2> DEFINE e == b.out[i]
             f == [e EXCEPT !.next = "PUBCOMP"]
  <2>1. toClient' = Append(toClient, a) => Single(toClient, Asks, toBroker, Replies)' /\ InTokens' = G \cup {a}
    <3>1. LET r == Head(toBroker)
              H == Tokens(toClient, Asks, toBroker', Replies)
          IN  toClient' = Append(toClient, a) /\ r.type \in Replies /\ a.type \in Asks /\ a.id = r.id
                 => Single(toClient, Asks, toBroker, Replies)' /\ InTokens' = H \cup {a}
      <4> HIDE DEF a, p
      <4> QED BY <1>1, <1>3, <1>7, InTakenBack
    <3> QED BY <1>2, <3>1
  <2>2. Single(toClient, Asks, toBroker, Replies)' /\ InTokens' \in {G, G \cup {a}}
    BY <1>5, <1>7, <2>1
  <2>3. InInv(X, F, known, todo, got) /\ Distinct(b.out)
    BY DEF InSound, InCore
  <2>4. b.out \in Seq(BrokerEntries) /\ X \in SUBSET BrokerEntries
    BY InFlightIs
  <2>5. e \in X /\ e.id = p.id /\ e \in BrokerEntries
    BY <1>7, <2>4 DEF ToSet
  <2>6. f.id = e.id /\ f.msg = e.msg /\ f.next = "PUBCOMP"
    BY <2>5 DEF BrokerEntries
  <2>7. b'.out = [b.out EXCEPT ![i] = f]
    BY <1>7
  <2>8. "crash" \notin Faults => InKept(X, F, c.inboundMsgs, todo, got)
    BY DEF InSound, InMine
  <2> HIDE DEF i, p, a, f, G, F
  <2>9. ToSet(b'.out) = (X \ {e}) \cup {f} /\ Distinct(b'.out)
    <3>1. LET r == [b.out EXCEPT ![i] = f]
          IN  ToSet(r) = (ToSet(b.out) \ {b.out[i]}) \cup {f} /\ Distinct(r)
      BY <1>7, <2>3, <2>4, <2>6, QueueChanged
    <3> QED BY <2>7, <3>1
  <2> DEFINE H == InTokens'
  <2> HIDE DEF X, got, known, todo, e, H
  <2>11. H \in {G, G \cup {a}} /\ b'.todo = todo
    BY <1>7, <2>2 DEF H, todo
  <2>10. \A Y : Y = (X \ {e}) \cup {f} => Receives(X, Y, p, F, G, H, a, e, f)
    BY <1>1, <1>2, <1>5, <2>5, <2>6, <2>11 DEF Receives
  <2>13. ASSUME NEW Y, Y = (X \ {e}) \cup {f} PROVE Carries(X, F, Y, H, known, todo, got)
    BY <2>3, <2>4, <2>10, <2>13, InReleased
  <2>12. /\ InInv(ToSet(b'.out), H, known, b'.todo, got)
         /\ "crash" \notin Faults => InKept(ToSet(b'.out), H, c.inboundMsgs, b'.todo, got)
    BY <2>8, <2>9, <2>11, <2>13 DEF Carries
  <2> QED BY <1>1, <2>2, <2>9, <2>12, InBroker DEF H, known, got
<1> QED BY <1>1, <1>6, <1>7

LEMMA InBrokerReceiveLast ==
    ASSUME Typed, InFaults, InSound, BrokerReceiveLast
    PROVE  InSound'
<1> DEFINE p == Head(toBroker)
           i == BrokerEntry(p.id)
           X == ToSet(b.out)
           got == Got(arrived, c.messageQueue)
           known == Known(c, disk)
           F == InTokens
           G == Tokens(toClient, Asks, toBroker', Replies)
           todo == b.todo
<1>1. /\ toBroker # <<>> /\ p \in BrokerBound /\ p.type \in {"PUBACK", "PUBCOMP"} /\ toBroker' = Tail(toBroker)
      /\ \/ i = 0 /\ b' = b
         \/ /\ i \in DOMAIN b.out /\ b.out[i].id = p.id
            /\ b'.out = RemoveAt(b.out, i) /\ b'.in = b.in /\ b'.todo = b.todo
      /\ toClient' = toClient
      /\ c' = c /\ disk' = disk /\ arrived' = arrived
  BY BrokerReceiveLastDoes
<1>2. p.type \in Replies
  BY <1>1 DEF Replies
<1>3. InCore
  BY DEF InSound
<1>4. \E x \in ClientBound : TRUE
  BY SomePacket
<1>5. /\ G \in SUBSET F
      /\ p \in F /\ \A t \in G : t.id # p.id
      /\ Single(toClient, Asks, toBroker, Replies)' /\ InTokens' = G
  <2>1. PICK x \in ClientBound : TRUE
    BY <1>4
  <2>2. LET r == Head(toBroker)
            H == Tokens(toClient, Asks, toBroker', Replies)
        IN  /\ H \subseteq InTokens
            /\ r.type \in Replies => r \in InTokens /\ \A t \in H : t.id # r.id
            /\ toClient' = toClient => Single(toClient, Asks, toBroker, Replies)' /\ InTokens' = H
    BY <1>1, <1>3, InTakenBack
  <2> QED BY <1>1, <1>2, <2>2
<1>6. CASE i = 0 /\ b' = b
  BY <1>1, <1>5, <1>6, InQuiet
<1>7. CASE /\ i \in DOMAIN b.out /\ b.out[i].id = p.id
           /\ b'.out = RemoveAt(b.out, i) /\ b'.todo = b.todo
  <2> DEFINE e == b.out[i]
  <2>1. InInv(X, F, known, todo, got) /\ Distinct(b.out)
    BY DEF InSound, InCore
  <2>2. b.out \in Seq(BrokerEntries) /\ X \in SUBSET BrokerEntries /\ c.inboundMsgs \subseteq InEntries
    BY InFlightIs
  <2>3. e \in X /\ e.id = p.id
    BY <1>7, <2>2 DEF ToSet
  <2>4. "crash" \notin Faults => InKept(X, F, c.inboundMsgs, todo, got)
    BY DEF InSound, InMine
  <2> HIDE DEF i, p, G, F
  <2>5. ToSet(b'.out) = X \ {e} /\ Distinct(b'.out)
    <3>1. LET r == RemoveAt(b.out, i)
          IN  ToSet(r) = ToSet(b.out) \ {b.out[i]} /\ Distinct(r)
      BY <1>7, <2>1, <2>2, QueueWithout
    <3> QED BY <1>7, <3>1
  <2> DEFINE H == InTokens'
  <2>6. H = G /\ b'.todo = todo
    BY <1>5, <1>7
  <2> HIDE DEF X, got, known, todo, e, H
  <2>7. /\ InInv(X \ {e}, G, known, todo, got)
        /\ \A I : InKept(X, F, I, todo, got) /\ I \subseteq InEntries => InKept(X \ {e}, G, I, todo, got)
    BY <1>1, <1>5, <2>1, <2>2, <2>3, InOver
  <2>8. /\ InInv(ToSet(b'.out), H, known, b'.todo, got)
        /\ "crash" \notin Faults => InKept(ToSet(b'.out), H, c.inboundMsgs, b'.todo, got)
    BY <2>2, <2>4, <2>5, <2>6, <2>7
  <2> QED BY <1>1, <1>5, <2>5, <2>8, InBroker DEF H, known, got
<1> QED BY <1>1, <1>6, <1>7

LEMMA InInitSound ==
    ASSUME Init
    PROVE  InSound
<1>1. DOMAIN <<>> = {} /\ ToSet(<<>>) = {}
  BY DEF ToSet
<1>2. /\ c.running = 1 /\ c.inboundMsgs = {} /\ c.messageQueue = <<>> /\ toBroker = <<>> /\ toClient = <<>>
      /\ arrived = [m \in Inbound |-> 0] /\ b.out = <<>> /\ b.todo = Inbound
  BY InitIs
<1>3. Single(toClient, Asks, toBroker, Replies) /\ InTokens = {}
  BY <1>1, <1>2 DEF Single, Alone, InTokens, Tokens, Packs
<1>4. Got(arrived, c.messageQueue) = {} /\ Ones(arrived, c.messageQueue)
  <2>1. \A m \in Inbound : arrived[m] = 0
    BY <1>2
  <2> QED BY <1>1, <1>2, <2>1 DEF Got, Has, Ones, Inbound
<1>5. Known(c, disk) = {}
  BY <1>2 DEF Known
<1>6. InInv({}, {}, {}, Inbound, {}) /\ InKept({}, {}, {}, Inbound, {})
  BY DEF InInv, InKept
<1> QED BY <1>1, <1>2, <1>3, <1>4, <1>5, <1>6 DEF InSound, InCore, InMine, InFiled, Distinct

LEMMA InNext ==
    ASSUME Typed, ProcessSound, InFaults, InSound, [Next]_vars
    PROVE  InSound'
<1>1. ASSUME NEW m \in Outbound, Publish(m) PROVE InSound'
  BY <1>1, InPublish
<1>2. CASE ReceivePuback \/ ReceivePubcomp
  BY <1>2, InCompleted DEF ReceivePuback, ReceivePubcomp
<1>3. CASE ProcessCommand \/ ReceivePubrec \/ ReceivePublish1 \/ ReceivePublish2 \/ ReceivePubrel \/ FreedTwice
  BY <1>3, InProcessCommand, InReceivePubrec, InReceivePublish1, InReceivePublish2, InReceivePubrel, InFreedTwice
<1>4. CASE FlushQueue \/ Connect \/ Restart
  BY <1>4, InFlushQueue, InConnect, InRestart
<1>5. CASE PendingWrites \/ Break \/ Crash
  BY <1>5, InPendingWrites, InBreakOrCrash
<1>6. CASE Broker
  BY <1>6, InBrokerPublish, InBrokerReceiveAsk, InBrokerReceivePubrec, InBrokerReceiveLast DEF Broker
<1>7. CASE UNCHANGED vars
  BY <1>7 DEF vars, InSound, InCore, InMine, InFiled, InTokens
<1> QED BY <1>1, <1>2, <1>3, <1>4, <1>5, <1>6, <1>7 DEF Next, Application, Client, Receive
-----------------------------------------------------------------------------
(* What Delivery sees of it.                                               *)

\* A message the broker has sent is given to the application, which has not
\* had it if it is of QoS 2.
Delivers(m) ==
    /\ m \in Inbound /\ m \notin b.todo
    /\ m \in Inbound2 => arrived[m] = 0
    /\ arrived' = [arrived EXCEPT ![m] = Bump(@)]

LEMMA NotGot ==
    ASSUME Typed, NEW m \in Inbound, m \notin Got(arrived, c.messageQueue)
    PROVE  arrived[m] = 0
<1>1. arrived[m] \in 0..2
  BY InFlightIs
<1> QED BY <1>1 DEF Got, Has

LEMMA DeliverStep ==
    ASSUME Typed, NEW m, Delivers(m), b'.todo = b.todo
    PROVE  Receiving!Deliver
<1>1. m \in Inbound \ b.todo /\ (m \in Inbound2 => arrived[m] = 0)
  BY DEF Delivers
<1>2. arrived' = [arrived EXCEPT ![m] = IF @ = 2 THEN 2 ELSE @ + 1]
  BY DEF Delivers, Bump
<1>3. (Inbound \ b.todo)' = Inbound \ b.todo
  OBVIOUS
<1> QED BY <1>1, <1>2, <1>3 DEF Receiving!Deliver

LEMMA PublishIsNew ==
    ASSUME Typed, InCore, Arrives("PUBLISH"), Take
    PROVE  LET p == Head(toClient)
           IN  /\ p.msg \in Inbound /\ p.msg \notin b.todo
               /\ p.msg \in Inbound2 /\ p.id \notin Known(c, disk) => arrived[p.msg] = 0
<1> DEFINE p == Head(toClient)
           X == ToSet(b.out)
           got == Got(arrived, c.messageQueue)
           known == Known(c, disk)
<1>1. toClient \in Seq(ClientBound) /\ toClient # <<>> /\ p \in ClientBound /\ p.type = "PUBLISH"
  BY TakeDoes, NowIs, TailOf DEF Arrives
<1>2. p.msg \in Inbound /\ p.type \in Asks
  BY <1>1 DEF ClientBound, Asks
<1>3. p \in InTokens
  BY <1>1, <1>2, TokenTaken DEF InCore, InTokens
<1>4. InInv(X, InTokens, known, b.todo, got)
  BY DEF InCore
<1> HIDE DEF p, X, got, known
<1>5. PICK e \in X : Meets(p, e)
  BY <1>3, <1>4 DEF InInv
<1>6. e.id = p.id /\ e.msg = p.msg /\ e.next = FirstReply(e.msg)
  BY <1>1, <1>5 DEF Meets
<1>7. p.msg \notin b.todo
  BY <1>4, <1>6 DEF InInv
<1>8. ASSUME p.msg \in Inbound2, p.id \notin known PROVE p.msg \notin got
  <2>1. e.next = "PUBREC"
    BY <1>2, <1>6, <1>8, FirstReplyIs
  <2> QED BY <1>4, <1>6, <1>8, <2>1 DEF InInv
<1>9. p.msg \notin got => arrived[p.msg] = 0
  BY <1>2, NotGot DEF got
<1> QED BY <1>2, <1>7, <1>8, <1>9 DEF p, known

\* A message that is offered is given to the application, or waits.
LEMMA OffersDelivers ==
    ASSUME Typed, NEW m \in Inbound, m \notin b.todo, m \in Inbound2 => arrived[m] = 0,
           NEW w \in Worlds, w.arrived = arrived, NEW e, Offers(w, m, e), arrived' = e.arrived
    PROVE  arrived' = arrived \/ Delivers(m)
<1>1. e.arrived = w.arrived \/ e.arrived = [w.arrived EXCEPT ![m] = Bump(@)]
  BY OffersIs
<1> QED BY <1>1 DEF Delivers

LEMMA ReceivingStep ==
    ASSUME Typed, ProcessSound, InFaults, InSound, [Next]_vars
    PROVE  [Receiving!Accept \/ Receiving!Deliver]_<<Inbound \ b.todo, arrived>>
<1>1. ASSUME NEW m, Delivers(m), b'.todo = b.todo PROVE Receiving!Deliver
  BY <1>1, DeliverStep
<1>2. InCore
  BY DEF InSound
<1>3. ASSUME NEW m \in Inbound, BrokerPublish(m) PROVE Receiving!Accept
  <2>1. m \in b.todo /\ b'.todo = b.todo \ {m} /\ arrived' = arrived /\ b.todo \subseteq Inbound
    BY <1>3, BrokerPublishDoes, InFlightIs
  <2>2. m \in Inbound \ (Inbound \ b.todo) /\ (Inbound \ b.todo)' = (Inbound \ b.todo) \cup {m}
    BY <2>1
  <2> QED BY <2>1, <2>2 DEF Receiving!Accept
<1>4. CASE ReceivePublish1
  <2> DEFINE p == Head(toClient)
             ack == Ack("PUBACK", p.id)
             w == Now
             e == Now'
  <2>1. Arrives("PUBLISH") /\ Take /\ b' = b
    BY <1>4, TakeDoes DEF ReceivePublish1
  <2>2. p.msg \in Inbound1 /\ (Offers(w, p.msg, e) \/ arrived' = arrived)
    BY <1>4, ReceivePublish1Does
  <2>3. p.msg \in Inbound /\ p.msg \notin b.todo /\ p.msg \notin Inbound2
    BY <1>2, <2>1, <2>2, PublishIsNew, IdsAreNumbers
  <2>4. w \in Worlds /\ w.arrived = arrived /\ e.arrived = arrived'
    BY NowIs DEF Now
  <2> HIDE DEF p, w, e
  <2>5. arrived' = arrived \/ Delivers(p.msg)
    BY <2>2, <2>3, <2>4, OffersDelivers
  <2> QED BY <1>1, <2>1, <2>5
<1>5. CASE ReceivePublish2
  <2> DEFINE p == Head(toClient)
             e == Now'
             f == PublishReceived(p.id, p.msg)
  <2>1. Arrives("PUBLISH") /\ Take /\ b' = b /\ c.connected = 1
    BY <1>5, TakeDoes DEF ReceivePublish2
  <2>2. /\ p.msg \in Inbound2
        /\ \/ arrived' = arrived
           \/ /\ ~AlreadyReceived(p)
              /\ \E v \in Worlds : v.arrived = arrived /\ Offers(v, p.msg, e)
    BY <1>5, ReceivePublish2Does
  <2>3. p.id \in Known(c, disk) <=> AlreadyReceived(p)
    BY <2>1 DEF Known, ProcessSound, AlreadyReceived, Incoming
  <2>4. p.msg \in Inbound /\ p.msg \notin b.todo /\ (~AlreadyReceived(p) => arrived[p.msg] = 0)
    BY <1>2, <2>1, <2>2, <2>3, PublishIsNew
  <2>5. e.arrived = arrived'
    BY DEF Now
  <2> HIDE DEF p, e
  <2>6. ASSUME NEW v \in Worlds, v.arrived = arrived, Offers(v, p.msg, e), ~AlreadyReceived(p)
        PROVE  arrived' = arrived \/ Delivers(p.msg)
    BY <2>4, <2>5, <2>6, OffersDelivers
  <2> QED BY <1>1, <2>1, <2>2, <2>6
<1>6. CASE ReceivePubrel
  <2> DEFINE p == Head(toClient)
             got == Got(arrived, c.messageQueue)
             w == Now
  <2>1. Take /\ b' = b
    BY <1>6, TakeDoes DEF ReceivePubrel
  <2>2. \/ arrived' = arrived
        \/ "crash" \in Faults /\ Version # 5
        \/ /\ Version < 5
           /\ \E x \in Incoming(p.id), g \in Worlds : Offers(w, x.msg, g) /\ arrived' = g.arrived
    BY <1>6, ReceivePubrelDoes
  <2>3. ASSUME Version < 5, NEW x \in Incoming(p.id), NEW g \in Worlds, Offers(w, x.msg, g), arrived' = g.arrived
        PROVE  arrived' = arrived \/ Delivers(x.msg)
    <3>1. x \in c.inboundMsgs /\ x.msg \in Inbound
      BY InFlightIs DEF Incoming, InEntries, Inbound
    <3>2. "crash" \notin Faults
      BY <2>3 DEF InFaults
    <3>3. InKept(ToSet(b.out), InTokens, c.inboundMsgs, b.todo, got)
      BY <3>2 DEF InSound, InMine
    <3>4. InInv(ToSet(b.out), InTokens, Known(c, disk), b.todo, got)
      BY <1>2 DEF InCore
    <3>5. x.msg \notin got
      BY <2>3, <3>1, <3>3 DEF InKept
    <3>6. x.msg \notin b.todo
      BY <3>1, <3>3, <3>4 DEF InKept, InInv
    <3>7. arrived[x.msg] = 0
      BY <3>1, <3>5, NotGot
    <3>8. w \in Worlds /\ w.arrived = arrived
      BY NowIs
    <3> HIDE DEF p, got, w
    <3> QED BY <2>3, <3>1, <3>6, <3>7, <3>8, OffersDelivers
  <2> QED BY <1>1, <2>1, <2>2, <2>3 DEF InFaults
<1>7. CASE FlushQueue
  <2> DEFINE q == c.messageQueue
             m == Head(q).msg
  <2>1. q # <<>> /\ arrived' \in {arrived, [arrived EXCEPT ![m] = Bump(@)]} /\ b' = b
    BY <1>7, FlushQueueDoes
  <2>2. arrived \in [Inbound -> 0..2] /\ q \in Seq(Waiters) /\ Ones(arrived, q)
    BY <1>2, InFlightIs DEF InCore
  <2>3. Head(q) \in Waiters /\ q[1] = Head(q) /\ 1 \in DOMAIN q
    <3> HIDE DEF q
    <3> QED BY <2>1, <2>2, TailOf
  <2>4. m \in Inbound /\ m \in Got(arrived, q)
    BY <2>3 DEF Waiters, Got, Has
  <2>5. m \notin b.todo
    BY <1>2, <2>4 DEF InCore, InInv
  <2>6. m \in Inbound2 => arrived[m] = 0
    BY <2>2, <2>3 DEF Ones
  <2>7. arrived' = arrived \/ Delivers(m)
    BY <2>1, <2>4, <2>5, <2>6 DEF Delivers
  <2> QED BY <1>1, <2>1, <2>7
<1>8. CASE ReceivePuback \/ ReceivePubcomp
  <2>1. arrived' = arrived /\ b' = b
    BY <1>8, CompletedDoes, TakeDoes DEF ReceivePuback, ReceivePubcomp
  <2> QED BY <2>1
<1>9. CASE ReceivePubrec \/ FreedTwice
  <2>1. arrived' = arrived /\ b' = b
    BY <1>9, ReceivePubrecDoes, FreedTwiceDoes, TakeDoes DEF ReceivePubrec, FreedTwice
  <2> QED BY <2>1
<1>10. CASE ProcessCommand \/ Connect \/ Restart \/ PendingWrites \/ Break \/ Crash
  <2>1. arrived' = arrived /\ b' = b
    BY <1>10, ProcessCommandDoes, ConnectDoes, RestartDoes, PendingWritesDoes, BreakDoes, CrashDoes
  <2> QED BY <2>1
<1>11. ASSUME NEW m \in Outbound, Publish(m) PROVE arrived' = arrived /\ b' = b
  BY <1>11, PublishDoes
<1>12. CASE BrokerReceivePublish \/ BrokerReceivePubrel \/ BrokerReceivePubrec \/ BrokerReceiveLast
  <2>1. arrived' = arrived /\ b'.todo = b.todo
    BY <1>12, BrokerReceivePublishDoes, BrokerReceivePubrelDoes, BrokerReceivePubrecDoes, BrokerReceiveLastDoes
  <2> QED BY <2>1
<1>13. CASE UNCHANGED vars
  BY <1>13 DEF vars
<1> QED BY <1>3, <1>4, <1>5, <1>6, <1>7, <1>8, <1>9, <1>10, <1>11, <1>12, <1>13
        DEF Next, Application, Client, Receive, Broker

\* What reaches the application is a message the broker has sent, and one of
\* QoS 2 reaches it once, through any loss of packets and of connections,
\* any PUBLISH that finds a write still going on, any message the application
\* refuses at first, and with a store and MQTT 5 any crash.
THEOREM DeliveredOnce == InFaults => (Spec => ArrivesOnce)
<1> SUFFICES ASSUME InFaults PROVE Spec => ArrivesOnce
  OBVIOUS
<1> DEFINE I == Typed /\ ProcessSound /\ InSound
<1>1. Init => I /\ Receiving!Init
  <2> SUFFICES ASSUME Init PROVE I /\ Receiving!Init
    OBVIOUS
  <2>1. Inbound \ b.todo = {} /\ arrived = [m \in Inbound |-> 0]
    BY InitIs
  <2> QED BY <2>1, InitTyped, InitSound, InInitSound DEF Receiving!Init
<1>2. I /\ [Next]_vars => I' /\ [Receiving!Accept \/ Receiving!Deliver]_<<Inbound \ b.todo, arrived>>
  BY NextTyped, ProcessNext, InNext, ReceivingStep
<1> QED BY <1>1, <1>2, PTL DEF Spec, ArrivesOnce, Receiving!Spec

LEMMA KeptFollows ==
    ASSUME Typed, InSound, "crash" \notin Faults
    PROVE  AcknowledgedIsKept
<1> SUFFICES ASSUME NEW m \in Inbound, m \notin b.todo, ~InFlight(m)
             PROVE  arrived[m] > 0 \/ Held(m)
  BY DEF AcknowledgedIsKept
<1>1. InKept(ToSet(b.out), InTokens, c.inboundMsgs, b.todo, Got(arrived, c.messageQueue))
  BY DEF InSound, InMine
<1>2. \A e \in ToSet(b.out) : e.msg # m
  BY DEF InFlight, ToSet
<1>3. m \in Got(arrived, c.messageQueue)
  BY <1>1, <1>2 DEF InKept
<1> QED BY <1>3 DEF Got, Has, Held

\* While the process lives, no message the client has acknowledged for good
\* is lost between the protocol and the application.
THEOREM AcknowledgedKept == "crash" \notin Faults => (Spec => []AcknowledgedIsKept)
<1> SUFFICES ASSUME "crash" \notin Faults PROVE Spec => []AcknowledgedIsKept
  OBVIOUS
<1> DEFINE I == Typed /\ ProcessSound /\ InSound
<1>1. InFaults
  BY DEF InFaults
<1>2. Init => I
  BY InitTyped, InitSound, InInitSound
<1>3. I /\ [Next]_vars => I'
  BY <1>1, NextTyped, ProcessNext, InNext
<1>4. I => AcknowledgedIsKept
  BY KeptFollows
<1> QED BY <1>2, <1>3, <1>4, PTL DEF Spec
=============================================================================
