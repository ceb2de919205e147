-------------------------- MODULE LedDevice_proofs --------------------------
(***************************************************************************)
(* Proofs about LedDevice: its type invariant, and that the device threads *)
(* never outlive the shadow, that at most one keepalive request is         *)
(* unanswered, and that an acknowledgement is acted on only for a version  *)
(* the cloud has stored.                                                   *)
(***************************************************************************)
EXTENDS LedDevice, TLAPS

\* What a step of version++ has read is below the bound it was guarded by.
MonitorInv == pc["monitor"] = "bump" => monVer < MaxVersion

\* A thread that sends has something to send.
RequestInv == \A t \in Threads : pc[t] \in {"build", "send"} => req[t] \in Requests

\* The device threads exist while main waits in its last loop, and main gets
\* there through onSubscribe and LED_Install.
MainInv ==
    /\ pc["main"] = "start" => conn = "idle"
    /\ pc["main"] # "run" => \A t \in DeviceThreads : pc[t] = "off"
    /\ pc["main"] \in {"install", "send", "flag", "destroy", "spawn", "run"} => subscribed = 1
    /\ pc["main"] \in {"send", "flag", "destroy", "spawn", "run"} => ledShadow = "live"

\* onSubscribe and the failures that set finished exclude each other: there
\* is one SUBSCRIBE, it is pending in one place, and then one SUBACK is.
SubscribeInv ==
    /\ subscribed = 1 => finished = 0
    /\ conn \in {"idle", "connecting"} => finished = 0 /\ subscribed = 0 /\ subs = {}
    /\ conn # "up" => cmds = <<>> /\ down = <<>>
    /\ \A i \in DOMAIN cmds : cmds[i].kind = "subscribe" =>
          /\ Len(cmds) = 1 /\ down = <<>>
          /\ subscribed = 0 /\ finished = 0 /\ subs = {}
    /\ \A i \in DOMAIN down : down[i].topic = "suback" =>
          /\ i = 1 /\ subscribed = 0 /\ finished = 0
          /\ \A j \in DOMAIN cmds : cmds[j].kind # "subscribe"

\* Only the keepalive thread asks, and only when nothing is unanswered.
KeepaliveInv ==
    /\ unanswered <= 1
    /\ \A t \in Threads \ {"keepalive"} : req[t] # "keepalive"
    /\ unanswered = 1 => \/ pc["keepalive"] = "sleep" /\ keepalive = FLAG_REQ
                         \/ pc["keepalive"] = "lost"
                         \/ pc["keepalive"] = "flag" /\ req["keepalive"] = "keepalive"

\* The version in a positive answer to a set request has been stored.
AckInv == \A i \in DOMAIN down : down[i].topic = "rspSet" /\ down[i].val = "ok" => down[i].ver \in stored

\* What messageArrived goes on to apply is an update for this device.
ApplyInv == cb = "apply" => msg.val \in {"on", "off", "none"}

Inv == TypeOK /\ MonitorInv /\ RequestInv /\ ApplyInv /\ MainInv /\ SubscribeInv /\ KeepaliveInv /\ AckInv


\* The topics onConnect subscribes are the first five it lists.
LEMMA SubscribedTopics ==
    /\ Topics = {"rspOnline", "rspOffline", "rspSet", "rspKeepalive", "update", "rspFunc"}
    /\ {topics[i] : i \in 1..TOPIC_SUB_CNT} = Topics \ {"rspFunc"}
  BY DEF Topics, topics, TOPIC_SUB_CNT

\* The first version.
LEMMA Zero == 0 \in Versions
  BY BoundsAssumption DEF Versions

\* What the broker sends is a packet.
LEMMA PacketTyped ==
    ASSUME NEW v \in Versions
    PROVE  /\ \A s \in {"ok", "fail"} : Packet("suback", s, v) \in Packets
           /\ \A s \in {"ok", "fail"} : Packet("rspSet", s, v) \in Packets
           /\ Packet("rspFunc", "ok", v) \in Packets
           /\ Packet("rspOnline", "online", v) \in Packets
           /\ Packet("rspOffline", "offline", v) \in Packets
           /\ \A s \in {"online", "offline", "other"} : Packet("rspKeepalive", s, v) \in Packets
           /\ \A s \in {"on", "off", "none", "other"} : Packet("update", s, v) \in Packets
  BY DEF Packet, Packets

\* A delivery keeps the type of the queue to the device.
LEMMA DeliverTyped ==
    ASSUME NEW p \in Packets, down \in Seq(Packets), Deliver(p)
    PROVE  down' \in Seq(Packets)
  BY DEF Deliver

\* One more packet keeps the type of the queue to the device.
LEMMA AppendTyped ==
    ASSUME NEW p \in Packets, down \in Seq(Packets)
    PROVE  Append(down, p) \in Seq(Packets)
  OBVIOUS

\* A packet of one topic adds none of another.
LEMMA DeliverOther ==
    ASSUME down \in Seq(Packets), NEW x, NEW y, NEW v, NEW n, x # y, Deliver(Packet(y, v, n))
    PROVE  \A i \in DOMAIN down' : down'[i].topic = x => i \in DOMAIN down /\ down'[i] = down[i]
  <1>1. CASE down' = down
    BY <1>1
  <1>2. CASE down' = Append(down, Packet(y, v, n))
    BY <1>2 DEF Packet
  <1>3. QED
    BY <1>1, <1>2 DEF Deliver

\* The oldest command is a command.
LEMMA HeadTyped ==
    ASSUME cmds \in Seq(Commands), cmds # <<>>
    PROVE  /\ Head(cmds) \in Commands /\ Tail(cmds) \in Seq(Commands)
           /\ Head(cmds).ver \in Versions /\ Head(cmds).kind \in Requests \cup {"subscribe"}
  <1>1. Head(cmds) \in Commands /\ Tail(cmds) \in Seq(Commands)
    OBVIOUS
  <1>2. QED
    BY <1>1 DEF Commands

\* Every step keeps the types.
LEMMA TypeStep ==
    TypeOK /\ MonitorInv /\ RequestInv /\ ApplyInv /\ [Next]_vars => (TypeOK /\ MonitorInv /\ RequestInv /\ ApplyInv)'
<1> SUFFICES ASSUME TypeOK /\ MonitorInv /\ RequestInv /\ ApplyInv, [Next]_vars PROVE (TypeOK /\ MonitorInv /\ RequestInv /\ ApplyInv)'
  OBVIOUS
<1> USE DEF threadVars, mainVars, shadowVars, libVars, cbVars, spiVars, cloudVars, TypeOK, MonitorInv, RequestInv, ApplyInv, DeviceThreads, Threads, MainStates, ThreadStates, FLAG_REQ, FLAG_RSP, LED_ON, LED_OFF
<1>1. CASE MainConnect
  BY <1>1 DEF MainConnect, Goto
<1>2. CASE MainSubscribed
  BY <1>2 DEF MainSubscribed, Goto
<1>3. CASE MainInstall
  BY <1>3, BoundsAssumption DEF MainInstall, Goto, Statuses, Switches, Versions, Requests
<1>4. CASE MainSpawn
  BY <1>4 DEF MainSpawn
<1>5. CASE MainExit
  BY <1>5 DEF MainExit, Goto, LoseConnection, SubscribePending
<1>6. CASE KeepaliveCheck
  BY <1>6 DEF KeepaliveCheck, Request, Goto, KeepaliveRequest, Connected, Requests
<1>7. CASE KeepaliveLost
  BY <1>7 DEF KeepaliveLost, Request, Goto, LostRequest, Requests, Statuses
<1>8. CASE MonitorCheck
  BY <1>8 DEF MonitorCheck, Goto, Connected
<1>9. CASE MonitorRead
  BY <1>9, BoundsAssumption DEF MonitorRead, Goto, Versions
<1>10. CASE MonitorBump
  BY <1>10, BoundsAssumption DEF MonitorBump, Request, Goto, Requests, Versions, Switches
<1>11. CASE FuncCheck
  BY <1>11 DEF FuncCheck, Request, Goto, Connected, Requests
<1>12. CASE OnConnect
  BY <1>12, BoundsAssumption DEF OnConnect, Commands, Versions
<1>13. CASE OnConnectFailure
  BY <1>13 DEF OnConnectFailure
<1>14. CASE OnSubscribe
  BY <1>14 DEF OnSubscribe, Arrived, Receive
<1>15. CASE NullShadow
  BY <1>15 DEF NullShadow, Arrived, Receive
<1>16. CASE ConnectRsp
  BY <1>16 DEF ConnectRsp, Arrived, Receive, NewStatus
<1>17. CASE ConnectRspFlag
  BY <1>17 DEF ConnectRspFlag
<1>18. CASE SetRsp
  BY <1>18 DEF SetRsp, Arrived, Receive, SetRspMatches
<1>19. CASE SetRspClear
  BY <1>19 DEF SetRspClear
<1>20. CASE Update
  BY <1>20 DEF Update, Arrived, Receive, UpdateTooSmall, Packets
<1>21. CASE UpdateApply
  BY <1>21, BoundsAssumption DEF UpdateApply, NoMessage, Packet, Packets, Versions, Switches
<1>22. CASE SpiRead
  BY <1>22 DEF SpiRead
<1>23. CASE SpiWrite
  BY <1>23 DEF SpiWrite, Led_Set_Bits, Led_Trans_State
<1>24. CASE Subscribe
  <2>1. cmds' \in Seq(Commands) /\ subs' \subseteq Topics
    BY <1>24, HeadTyped, SubscribedTopics DEF Subscribe
  <2>2. down' \in Seq(Packets)
    BY <1>24, PacketTyped, Zero, AppendTyped DEF Subscribe
  <2>3. QED
    BY <1>24, <2>1, <2>2 DEF Subscribe
<1>25. CASE Serve
  <2>1. cmds' \in Seq(Commands) /\ Head(cmds).ver \in Versions
    BY <1>25, HeadTyped DEF Serve
  <2>2. down' \in Seq(Packets)
    BY <1>25, <2>1, DeliverTyped, PacketTyped, Zero DEF Serve, Outcomes
  <2>3. \A p \in Outcomes(Head(cmds).ver) : p.ver = Head(cmds).ver
    BY DEF Outcomes, Packet
  <2>4. stored' \subseteq Versions /\ registered' \in {"yes", "no"}
    BY <1>25, <2>1, <2>3 DEF Serve
  <2>5. QED
    BY <1>25, <2>1, <2>2, <2>4 DEF Serve
<1>26. CASE Lose
  BY <1>26 DEF Lose
<1>27. CASE UserUpdate
  <2>1. down' \in Seq(Packets)
    BY <1>27, DeliverTyped, PacketTyped DEF UserUpdate
  <2>2. QED
    BY <1>27, <2>1 DEF UserUpdate
<1>28. CASE OtherDevice
  <2>1. down' \in Seq(Packets)
    BY <1>28, DeliverTyped, PacketTyped, Zero DEF OtherDevice
  <2>2. QED
    BY <1>28, <2>1 DEF OtherDevice
<1>29. CASE Forget
  <2>1. down' \in Seq(Packets)
    BY <1>29, DeliverTyped, PacketTyped, Zero DEF Forget
  <2>2. QED
    BY <1>29, <2>1 DEF Forget
<1>30. CASE GoMute
  BY <1>30 DEF GoMute
<1>31. CASE Disconnected
  BY <1>31 DEF Disconnected, LoseConnection, SubscribePending
<1>32. ASSUME NEW t \in Threads, Build(t) PROVE (TypeOK /\ MonitorInv /\ RequestInv /\ ApplyInv)'
  BY <1>32 DEF Build, Goto
<1>33. ASSUME NEW t \in Threads, Send(t) PROVE (TypeOK /\ MonitorInv /\ RequestInv /\ ApplyInv)'
  <2>1. [kind |-> req[t], ver |-> built[t]] \in Commands
    BY <1>33 DEF Send, Commands
  <2>2. cmds' \in Seq(Commands)
    BY <1>33, <2>1 DEF Send
  <2>3. QED
    BY <1>33, <2>2, Zero DEF Send, Goto
<1>34. ASSUME NEW t \in Threads, SetFlag(t) PROVE (TypeOK /\ MonitorInv /\ RequestInv /\ ApplyInv)'
  BY <1>34, BoundsAssumption DEF SetFlag, Return, Requested, Requests, Versions
<1>35. ASSUME NEW t \in Threads, SendRefused(t) PROVE (TypeOK /\ MonitorInv /\ RequestInv /\ ApplyInv)'
  BY <1>35 DEF SendRefused, Goto
<1>36. ASSUME NEW t \in Threads, DestroyHandle(t) PROVE (TypeOK /\ MonitorInv /\ RequestInv /\ ApplyInv)'
  BY <1>36, BoundsAssumption DEF DestroyHandle, Return, LoseConnection, SubscribePending, Requests, Versions
<1>37. ASSUME NEW t \in Threads, UseFreedHandle(t) PROVE (TypeOK /\ MonitorInv /\ RequestInv /\ ApplyInv)'
  BY <1>37, BoundsAssumption DEF UseFreedHandle, Return, Requests, Versions
<1>38. CASE UNCHANGED vars
  BY <1>38 DEF vars
<1>39. QED
  BY <1>1, <1>2, <1>3, <1>4, <1>5, <1>6, <1>7, <1>8, <1>9, <1>10, <1>11, <1>12, <1>13, <1>14, <1>15, <1>16, <1>17, <1>18, <1>19, <1>20, <1>21, <1>22, <1>23, <1>24, <1>25, <1>26, <1>27, <1>28, <1>29, <1>30, <1>31, <1>32, <1>33, <1>34, <1>35, <1>36, <1>37, <1>38
     DEF Next, MainStep, DeviceStep, ReceiveStep, CloudStep, EnvironmentStep, RequestStep

\* The device threads start and stop with main's last loop.
LEMMA MainInvStep ==
    TypeOK /\ MainInv /\ SubscribeInv /\ [Next]_vars => MainInv'
<1> SUFFICES ASSUME TypeOK /\ MainInv /\ SubscribeInv, [Next]_vars PROVE MainInv'
  OBVIOUS
<1> USE DEF threadVars, mainVars, shadowVars, libVars, cbVars, spiVars, cloudVars, TypeOK, DeviceThreads, Threads, MainStates, ThreadStates, MainInv
<1>1. CASE MainConnect
  BY <1>1 DEF MainConnect, Goto
<1>2. CASE MainSubscribed
  BY <1>2 DEF MainSubscribed, Goto
<1>3. CASE MainInstall
  BY <1>3 DEF MainInstall, Goto
<1>4. CASE MainSpawn
  BY <1>4 DEF MainSpawn
<1>5. CASE MainExit
  BY <1>5 DEF MainExit, Goto, LoseConnection, SubscribePending, SubscribeInv
<1>6. CASE KeepaliveCheck
  BY <1>6 DEF KeepaliveCheck, Request, Goto, KeepaliveRequest, Connected
<1>7. CASE KeepaliveLost
  BY <1>7 DEF KeepaliveLost, Request, Goto, LostRequest
<1>8. CASE MonitorCheck
  BY <1>8 DEF MonitorCheck, Goto, Connected
<1>9. CASE MonitorRead
  BY <1>9 DEF MonitorRead, Goto
<1>10. CASE MonitorBump
  BY <1>10 DEF MonitorBump, Request, Goto
<1>11. CASE FuncCheck
  BY <1>11 DEF FuncCheck, Request, Goto, Connected
<1>12. CASE OnConnect
  BY <1>12 DEF OnConnect
<1>13. CASE OnConnectFailure
  BY <1>13 DEF OnConnectFailure
<1>14. CASE OnSubscribe
  BY <1>14 DEF OnSubscribe, Arrived, Receive
<1>15. CASE NullShadow
  BY <1>15 DEF NullShadow, Arrived, Receive
<1>16. CASE ConnectRsp
  BY <1>16 DEF ConnectRsp, Arrived, Receive, NewStatus
<1>17. CASE ConnectRspFlag
  BY <1>17 DEF ConnectRspFlag
<1>18. CASE SetRsp
  BY <1>18 DEF SetRsp, Arrived, Receive, SetRspMatches
<1>19. CASE SetRspClear
  BY <1>19 DEF SetRspClear
<1>20. CASE Update
  BY <1>20 DEF Update, Arrived, Receive, UpdateTooSmall
<1>21. CASE UpdateApply
  BY <1>21 DEF UpdateApply, NoMessage, Packet
<1>22. CASE SpiRead
  BY <1>22 DEF SpiRead
<1>23. CASE SpiWrite
  BY <1>23 DEF SpiWrite, Led_Set_Bits, Led_Trans_State
<1>24. CASE Subscribe
  BY <1>24 DEF Subscribe, Packet, topics, TOPIC_SUB_CNT
<1>25. CASE Serve
  BY <1>25 DEF Serve, Deliver, Packet, Outcomes
<1>26. CASE Lose
  BY <1>26 DEF Lose
<1>27. CASE UserUpdate
  BY <1>27 DEF UserUpdate, Deliver, Packet
<1>28. CASE OtherDevice
  BY <1>28 DEF OtherDevice, Deliver, Packet
<1>29. CASE Forget
  BY <1>29 DEF Forget, Deliver, Packet
<1>30. CASE GoMute
  BY <1>30 DEF GoMute
<1>31. CASE Disconnected
  BY <1>31 DEF Disconnected, LoseConnection, SubscribePending
<1>32. ASSUME NEW t \in Threads, Build(t) PROVE MainInv'
  BY <1>32 DEF Build, Goto
<1>33. ASSUME NEW t \in Threads, Send(t) PROVE MainInv'
  BY <1>33 DEF Send, Goto
<1>34. ASSUME NEW t \in Threads, SetFlag(t) PROVE MainInv'
  BY <1>34 DEF SetFlag, Return, Requested
<1>35. ASSUME NEW t \in Threads, SendRefused(t) PROVE MainInv'
  BY <1>35 DEF SendRefused, Goto
<1>36. ASSUME NEW t \in Threads, DestroyHandle(t) PROVE MainInv'
  BY <1>36 DEF DestroyHandle, Return, LoseConnection, SubscribePending
<1>37. ASSUME NEW t \in Threads, UseFreedHandle(t) PROVE MainInv'
  BY <1>37 DEF UseFreedHandle, Return
<1>38. CASE UNCHANGED vars
  BY <1>38 DEF vars
<1>39. QED
  BY <1>1, <1>2, <1>3, <1>4, <1>5, <1>6, <1>7, <1>8, <1>9, <1>10, <1>11, <1>12, <1>13, <1>14, <1>15, <1>16, <1>17, <1>18, <1>19, <1>20, <1>21, <1>22, <1>23, <1>24, <1>25, <1>26, <1>27, <1>28, <1>29, <1>30, <1>31, <1>32, <1>33, <1>34, <1>35, <1>36, <1>37, <1>38
     DEF Next, MainStep, DeviceStep, ReceiveStep, CloudStep, EnvironmentStep, RequestStep

\* The one SUBSCRIBE is answered once.
LEMMA SubscribeInvStep ==
    TypeOK /\ RequestInv /\ MainInv /\ SubscribeInv /\ [Next]_vars => SubscribeInv'
<1> SUFFICES ASSUME TypeOK /\ RequestInv /\ MainInv /\ SubscribeInv, [Next]_vars PROVE SubscribeInv'
  OBVIOUS
<1> USE DEF threadVars, mainVars, shadowVars, libVars, cbVars, spiVars, cloudVars, TypeOK, DeviceThreads, Threads, MainStates, ThreadStates, RequestInv, MainInv, SubscribeInv
<1>1. CASE MainConnect
  BY <1>1 DEF MainConnect, Goto
<1>2. CASE MainSubscribed
  BY <1>2 DEF MainSubscribed, Goto
<1>3. CASE MainInstall
  BY <1>3 DEF MainInstall, Goto
<1>4. CASE MainSpawn
  BY <1>4 DEF MainSpawn
<1>5. CASE MainExit
  BY <1>5 DEF MainExit, Goto, LoseConnection, SubscribePending
<1>6. CASE KeepaliveCheck
  BY <1>6 DEF KeepaliveCheck, Request, Goto, KeepaliveRequest, Connected
<1>7. CASE KeepaliveLost
  BY <1>7 DEF KeepaliveLost, Request, Goto, LostRequest
<1>8. CASE MonitorCheck
  BY <1>8 DEF MonitorCheck, Goto, Connected
<1>9. CASE MonitorRead
  BY <1>9 DEF MonitorRead, Goto
<1>10. CASE MonitorBump
  BY <1>10 DEF MonitorBump, Request, Goto
<1>11. CASE FuncCheck
  BY <1>11 DEF FuncCheck, Request, Goto, Connected
<1>12. CASE OnConnect
  BY <1>12 DEF OnConnect
<1>13. CASE OnConnectFailure
  BY <1>13 DEF OnConnectFailure
<1>14. CASE OnSubscribe
  BY <1>14 DEF OnSubscribe, Arrived, Receive
<1>15. CASE NullShadow
  BY <1>15 DEF NullShadow, Arrived, Receive
<1>16. CASE ConnectRsp
  BY <1>16 DEF ConnectRsp, Arrived, Receive, NewStatus
<1>17. CASE ConnectRspFlag
  BY <1>17 DEF ConnectRspFlag
<1>18. CASE SetRsp
  BY <1>18 DEF SetRsp, Arrived, Receive, SetRspMatches
<1>19. CASE SetRspClear
  BY <1>19 DEF SetRspClear
<1>20. CASE Update
  BY <1>20 DEF Update, Arrived, Receive, UpdateTooSmall
<1>21. CASE UpdateApply
  BY <1>21 DEF UpdateApply, NoMessage, Packet
<1>22. CASE SpiRead
  BY <1>22 DEF SpiRead
<1>23. CASE SpiWrite
  BY <1>23 DEF SpiWrite, Led_Set_Bits, Led_Trans_State
<1>24. CASE Subscribe
  BY <1>24, SubscribedTopics DEF Subscribe, Packet, topics, TOPIC_SUB_CNT
<1>25. CASE Serve
  <2>1. \A i \in DOMAIN cmds : cmds[i].kind # "subscribe"
    <3>1. \A i \in DOMAIN cmds : cmds[i].kind = "subscribe" => Head(cmds).kind = "subscribe"
      OBVIOUS
    <3>2. QED
      BY <1>25, <3>1 DEF Serve
  <2>2. \A i \in DOMAIN cmds' : cmds'[i].kind # "subscribe"
    BY <1>25, <2>1 DEF Serve
  <2>3. PICK t, v, n : t # "suback" /\ Deliver(Packet(t, v, n))
    BY <1>25 DEF Serve, Outcomes
  <2>4. \A i \in DOMAIN down' : down'[i].topic = "suback" => i \in DOMAIN down /\ down'[i] = down[i]
    BY <2>3 DEF Deliver, Packet
  <2>5. QED
    BY <1>25, <2>1, <2>2, <2>4 DEF Serve
<1>26. CASE Lose
  BY <1>26 DEF Lose
<1>27. CASE UserUpdate
  BY <1>27 DEF UserUpdate, Deliver, Packet
<1>28. CASE OtherDevice
  BY <1>28 DEF OtherDevice, Deliver, Packet
<1>29. CASE Forget
  <2>1. \/ UNCHANGED down
        \/ Deliver(Packet("rspOffline", "offline", 0)) /\ conn = "up"
    BY <1>29 DEF Forget
  <2>2. \A i \in DOMAIN down' : down'[i].topic = "suback" => i \in DOMAIN down /\ down'[i] = down[i]
    BY <2>1, DeliverOther
  <2>3. (conn # "up" \/ subs = {}) => UNCHANGED down
    BY <2>1 DEF Deliver
  <2>4. QED
    BY <1>29, <2>2, <2>3 DEF Forget
<1>30. CASE GoMute
  BY <1>30 DEF GoMute
<1>31. CASE Disconnected
  BY <1>31 DEF Disconnected, LoseConnection, SubscribePending
<1>32. ASSUME NEW t \in Threads, Build(t) PROVE SubscribeInv'
  BY <1>32 DEF Build, Goto
<1>33. ASSUME NEW t \in Threads, Send(t) PROVE SubscribeInv'
  <2>1. subscribed = 1
    BY <1>33 DEF Send
  <2>2. req[t] # "subscribe"
    BY <1>33 DEF Send, Requests
  <2>3. \A i \in DOMAIN cmds' : cmds'[i].kind # "subscribe"
    BY <1>33, <2>1, <2>2 DEF Send
  <2>4. QED
    BY <1>33, <2>1, <2>3 DEF Send
<1>34. ASSUME NEW t \in Threads, SetFlag(t) PROVE SubscribeInv'
  BY <1>34 DEF SetFlag, Return, Requested
<1>35. ASSUME NEW t \in Threads, SendRefused(t) PROVE SubscribeInv'
  BY <1>35 DEF SendRefused, Goto
<1>36. ASSUME NEW t \in Threads, DestroyHandle(t) PROVE SubscribeInv'
  BY <1>36 DEF DestroyHandle, Return, LoseConnection, SubscribePending
<1>37. ASSUME NEW t \in Threads, UseFreedHandle(t) PROVE SubscribeInv'
  BY <1>37 DEF UseFreedHandle, Return
<1>38. CASE UNCHANGED vars
  BY <1>38 DEF vars
<1>39. QED
  BY <1>1, <1>2, <1>3, <1>4, <1>5, <1>6, <1>7, <1>8, <1>9, <1>10, <1>11, <1>12, <1>13, <1>14, <1>15, <1>16, <1>17, <1>18, <1>19, <1>20, <1>21, <1>22, <1>23, <1>24, <1>25, <1>26, <1>27, <1>28, <1>29, <1>30, <1>31, <1>32, <1>33, <1>34, <1>35, <1>36, <1>37, <1>38
     DEF Next, MainStep, DeviceStep, ReceiveStep, CloudStep, EnvironmentStep, RequestStep

\* A keepalive request is sent only when none is unanswered.
LEMMA KeepaliveInvStep ==
    TypeOK /\ RequestInv /\ MainInv /\ KeepaliveInv /\ [Next]_vars => KeepaliveInv'
<1> SUFFICES ASSUME TypeOK /\ RequestInv /\ MainInv /\ KeepaliveInv, [Next]_vars PROVE KeepaliveInv'
  OBVIOUS
<1> USE DEF threadVars, mainVars, shadowVars, libVars, cbVars, spiVars, cloudVars, TypeOK, DeviceThreads, Threads, MainStates, ThreadStates, KeepaliveInv, RequestInv, MainInv, FLAG_REQ, FLAG_RSP
<1>1. CASE MainConnect
  BY <1>1 DEF MainConnect, Goto
<1>2. CASE MainSubscribed
  BY <1>2 DEF MainSubscribed, Goto
<1>3. CASE MainInstall
  BY <1>3 DEF MainInstall, Goto
<1>4. CASE MainSpawn
  BY <1>4 DEF MainSpawn
<1>5. CASE MainExit
  BY <1>5 DEF MainExit, Goto, LoseConnection, SubscribePending
<1>6. CASE KeepaliveCheck
  BY <1>6 DEF KeepaliveCheck, Request, Goto, KeepaliveRequest, Connected
<1>7. CASE KeepaliveLost
  BY <1>7 DEF KeepaliveLost, Request, Goto, LostRequest
<1>8. CASE MonitorCheck
  BY <1>8 DEF MonitorCheck, Goto, Connected
<1>9. CASE MonitorRead
  BY <1>9 DEF MonitorRead, Goto
<1>10. CASE MonitorBump
  BY <1>10 DEF MonitorBump, Request, Goto
<1>11. CASE FuncCheck
  BY <1>11 DEF FuncCheck, Request, Goto, Connected
<1>12. CASE OnConnect
  BY <1>12 DEF OnConnect
<1>13. CASE OnConnectFailure
  BY <1>13 DEF OnConnectFailure
<1>14. CASE OnSubscribe
  BY <1>14 DEF OnSubscribe, Arrived, Receive
<1>15. CASE NullShadow
  BY <1>15 DEF NullShadow, Arrived, Receive
<1>16. CASE ConnectRsp
  BY <1>16 DEF ConnectRsp, Arrived, Receive, NewStatus
<1>17. CASE ConnectRspFlag
  BY <1>17 DEF ConnectRspFlag
<1>18. CASE SetRsp
  BY <1>18 DEF SetRsp, Arrived, Receive, SetRspMatches
<1>19. CASE SetRspClear
  BY <1>19 DEF SetRspClear
<1>20. CASE Update
  BY <1>20 DEF Update, Arrived, Receive, UpdateTooSmall
<1>21. CASE UpdateApply
  BY <1>21 DEF UpdateApply, NoMessage, Packet
<1>22. CASE SpiRead
  BY <1>22 DEF SpiRead
<1>23. CASE SpiWrite
  BY <1>23 DEF SpiWrite, Led_Set_Bits, Led_Trans_State
<1>24. CASE Subscribe
  BY <1>24 DEF Subscribe, Packet, topics, TOPIC_SUB_CNT
<1>25. CASE Serve
  BY <1>25 DEF Serve, Deliver, Packet, Outcomes
<1>26. CASE Lose
  BY <1>26 DEF Lose
<1>27. CASE UserUpdate
  BY <1>27 DEF UserUpdate, Deliver, Packet
<1>28. CASE OtherDevice
  BY <1>28 DEF OtherDevice, Deliver, Packet
<1>29. CASE Forget
  BY <1>29 DEF Forget, Deliver, Packet
<1>30. CASE GoMute
  BY <1>30 DEF GoMute
<1>31. CASE Disconnected
  BY <1>31 DEF Disconnected, LoseConnection, SubscribePending
<1>32. ASSUME NEW t \in Threads, Build(t) PROVE KeepaliveInv'
  BY <1>32 DEF Build, Goto
<1>33. ASSUME NEW t \in Threads, Send(t) PROVE KeepaliveInv'
  BY <1>33 DEF Send, Goto
<1>34. ASSUME NEW t \in Threads, SetFlag(t) PROVE KeepaliveInv'
  BY <1>34 DEF SetFlag, Return, Requested
<1>35. ASSUME NEW t \in Threads, SendRefused(t) PROVE KeepaliveInv'
  BY <1>35 DEF SendRefused, Goto
<1>36. ASSUME NEW t \in Threads, DestroyHandle(t) PROVE KeepaliveInv'
  BY <1>36 DEF DestroyHandle, Return, LoseConnection, SubscribePending
<1>37. ASSUME NEW t \in Threads, UseFreedHandle(t) PROVE KeepaliveInv'
  BY <1>37 DEF UseFreedHandle, Return
<1>38. CASE UNCHANGED vars
  BY <1>38 DEF vars
<1>39. QED
  BY <1>1, <1>2, <1>3, <1>4, <1>5, <1>6, <1>7, <1>8, <1>9, <1>10, <1>11, <1>12, <1>13, <1>14, <1>15, <1>16, <1>17, <1>18, <1>19, <1>20, <1>21, <1>22, <1>23, <1>24, <1>25, <1>26, <1>27, <1>28, <1>29, <1>30, <1>31, <1>32, <1>33, <1>34, <1>35, <1>36, <1>37, <1>38
     DEF Next, MainStep, DeviceStep, ReceiveStep, CloudStep, EnvironmentStep, RequestStep

\* A positive answer follows the storing of its version.
LEMMA AckInvStep ==
    TypeOK /\ SubscribeInv /\ AckInv /\ [Next]_vars => AckInv'
<1> SUFFICES ASSUME TypeOK /\ SubscribeInv /\ AckInv, [Next]_vars PROVE AckInv'
  OBVIOUS
<1> USE DEF threadVars, mainVars, shadowVars, libVars, cbVars, spiVars, cloudVars, TypeOK, DeviceThreads, Threads, MainStates, ThreadStates, AckInv
<1>1. CASE MainConnect
  BY <1>1 DEF MainConnect, Goto
<1>2. CASE MainSubscribed
  BY <1>2 DEF MainSubscribed, Goto
<1>3. CASE MainInstall
  BY <1>3 DEF MainInstall, Goto
<1>4. CASE MainSpawn
  BY <1>4 DEF MainSpawn
<1>5. CASE MainExit
  BY <1>5 DEF MainExit, Goto, LoseConnection, SubscribePending
<1>6. CASE KeepaliveCheck
  BY <1>6 DEF KeepaliveCheck, Request, Goto, KeepaliveRequest, Connected
<1>7. CASE KeepaliveLost
  BY <1>7 DEF KeepaliveLost, Request, Goto, LostRequest
<1>8. CASE MonitorCheck
  BY <1>8 DEF MonitorCheck, Goto, Connected
<1>9. CASE MonitorRead
  BY <1>9 DEF MonitorRead, Goto
<1>10. CASE MonitorBump
  BY <1>10 DEF MonitorBump, Request, Goto
<1>11. CASE FuncCheck
  BY <1>11 DEF FuncCheck, Request, Goto, Connected
<1>12. CASE OnConnect
  BY <1>12 DEF OnConnect
<1>13. CASE OnConnectFailure
  BY <1>13 DEF OnConnectFailure
<1>14. CASE OnSubscribe
  BY <1>14 DEF OnSubscribe, Arrived, Receive
<1>15. CASE NullShadow
  BY <1>15 DEF NullShadow, Arrived, Receive
<1>16. CASE ConnectRsp
  BY <1>16 DEF ConnectRsp, Arrived, Receive, NewStatus
<1>17. CASE ConnectRspFlag
  BY <1>17 DEF ConnectRspFlag
<1>18. CASE SetRsp
  BY <1>18 DEF SetRsp, Arrived, Receive, SetRspMatches
<1>19. CASE SetRspClear
  BY <1>19 DEF SetRspClear
<1>20. CASE Update
  BY <1>20 DEF Update, Arrived, Receive, UpdateTooSmall
<1>21. CASE UpdateApply
  BY <1>21 DEF UpdateApply, NoMessage, Packet
<1>22. CASE SpiRead
  BY <1>22 DEF SpiRead
<1>23. CASE SpiWrite
  BY <1>23 DEF SpiWrite, Led_Set_Bits, Led_Trans_State
<1>24. CASE Subscribe
  <2>1. PICK s : down' = Append(down, Packet("suback", s, 0))
    BY <1>24 DEF Subscribe
  <2>2. \A i \in DOMAIN down' : down'[i].topic = "rspSet" => i \in DOMAIN down /\ down'[i] = down[i]
    BY <2>1 DEF Packet
  <2>3. QED
    BY <1>24, <2>2 DEF Subscribe
<1>25. CASE Serve
  <2>1. CASE \E p \in Outcomes(Head(cmds).ver) : Deliver(p) /\ stored' = IF p.val = "ok" THEN stored \cup {p.ver} ELSE stored
    BY <2>1 DEF Deliver
  <2>2. CASE UNCHANGED stored /\ \E t, v, n : t # "rspSet" /\ Deliver(Packet(t, v, n))
    BY <2>2 DEF Deliver, Packet
  <2>3. QED
    BY <1>25, <2>1, <2>2 DEF Serve
<1>26. CASE Lose
  BY <1>26 DEF Lose
<1>27. CASE UserUpdate
  BY <1>27 DEF UserUpdate, Deliver, Packet
<1>28. CASE OtherDevice
  BY <1>28 DEF OtherDevice, Deliver, Packet
<1>29. CASE Forget
  <2>1. UNCHANGED down \/ Deliver(Packet("rspOffline", "offline", 0))
    BY <1>29 DEF Forget
  <2>2. \A i \in DOMAIN down' : down'[i].topic = "rspSet" => i \in DOMAIN down /\ down'[i] = down[i]
    BY <2>1, DeliverOther
  <2>3. QED
    BY <1>29, <2>2 DEF Forget
<1>30. CASE GoMute
  BY <1>30 DEF GoMute
<1>31. CASE Disconnected
  BY <1>31 DEF Disconnected, LoseConnection, SubscribePending
<1>32. ASSUME NEW t \in Threads, Build(t) PROVE AckInv'
  BY <1>32 DEF Build, Goto
<1>33. ASSUME NEW t \in Threads, Send(t) PROVE AckInv'
  BY <1>33 DEF Send, Goto
<1>34. ASSUME NEW t \in Threads, SetFlag(t) PROVE AckInv'
  BY <1>34 DEF SetFlag, Return, Requested
<1>35. ASSUME NEW t \in Threads, SendRefused(t) PROVE AckInv'
  BY <1>35 DEF SendRefused, Goto
<1>36. ASSUME NEW t \in Threads, DestroyHandle(t) PROVE AckInv'
  BY <1>36 DEF DestroyHandle, Return, LoseConnection, SubscribePending
<1>37. ASSUME NEW t \in Threads, UseFreedHandle(t) PROVE AckInv'
  BY <1>37 DEF UseFreedHandle, Return
<1>38. CASE UNCHANGED vars
  BY <1>38 DEF vars
<1>39. QED
  BY <1>1, <1>2, <1>3, <1>4, <1>5, <1>6, <1>7, <1>8, <1>9, <1>10, <1>11, <1>12, <1>13, <1>14, <1>15, <1>16, <1>17, <1>18, <1>19, <1>20, <1>21, <1>22, <1>23, <1>24, <1>25, <1>26, <1>27, <1>28, <1>29, <1>30, <1>31, <1>32, <1>33, <1>34, <1>35, <1>36, <1>37, <1>38
     DEF Next, MainStep, DeviceStep, ReceiveStep, CloudStep, EnvironmentStep, RequestStep

\* Only SetRsp decides to clear setShadow, on an answer that matches.
LEMMA AckDecision ==
    TypeOK /\ AckInv /\ [Next]_vars => [cb # "clear" /\ cb' = "clear" => version \in stored]_vars
<1> SUFFICES ASSUME TypeOK, AckInv, Next, cb # "clear", cb' = "clear" PROVE version \in stored
  OBVIOUS
<1>1. SetRsp
  BY DEF Next, MainStep, DeviceStep, ReceiveStep, CloudStep, EnvironmentStep, RequestStep, cbVars,
     MainConnect, MainSubscribed, MainInstall, MainSpawn, MainExit, KeepaliveCheck, KeepaliveLost, MonitorCheck, MonitorRead, MonitorBump, FuncCheck, OnConnect, OnConnectFailure, OnSubscribe, NullShadow, ConnectRsp, ConnectRspFlag, SetRsp, SetRspClear, Update, UpdateApply, SpiRead, SpiWrite, Subscribe, Serve, Lose, UserUpdate, OtherDevice, Forget, GoMute, Disconnected,
     Build, Send, SetFlag, SendRefused, DestroyHandle, UseFreedHandle,
     Request, Goto, LoseConnection
<1>2. down # <<>> /\ Head(down).topic = "rspSet" /\ Head(down).val = "ok" /\ Head(down).ver = version
  BY <1>1 DEF SetRsp, Arrived, SetRspMatches
<1>3. Head(down) = down[1] /\ 1 \in DOMAIN down
  BY <1>2 DEF TypeOK
<1>4. QED
  BY <1>2, <1>3 DEF AckInv

\* The invariant holds at the start and is kept by every step.
LEMMA InvInit == Init => Inv
<1> SUFFICES ASSUME Init PROVE Inv
  OBVIOUS
<1>1. msg \in Packets
  BY PacketTyped, Zero DEF Init, NoMessage
<1>2. cmds \in Seq(Commands) /\ down \in Seq(Packets)
  BY DEF Init
<1>3. TypeOK
  <2>1. req \in [Threads -> Requests \cup {"none"}] /\ built \in [Threads -> Versions]
    BY Zero DEF Init
  <2>2. pc \in [Threads -> MainStates \cup ThreadStates] /\ pc["main"] \in MainStates
        /\ \A t \in DeviceThreads : pc[t] \in ThreadStates
    BY DEF Init, Threads, DeviceThreads, MainStates, ThreadStates
  <2>3. spin \in {"free", "held"}
    BY DEF Init
  <2>4. mute \in BOOLEAN
    BY Zenon DEF Init
  <2>5. /\ monVer \in Versions /\ version \in Versions /\ status \in Statuses
        /\ reported \in Switches /\ desired \in Switches
    BY Zero DEF Init, Statuses, Switches
  <2>6. subs \subseteq Topics /\ stored \subseteq Versions /\ unanswered \in 0..2
    BY DEF Init
  <2>7. QED
    BY <1>1, <1>2, <2>1, <2>2, <2>3, <2>4, <2>5, <2>6 DEF Init, TypeOK, FLAG_REQ, FLAG_RSP
<1>4. MonitorInv /\ RequestInv /\ ApplyInv /\ KeepaliveInv
  BY DEF Init, MonitorInv, RequestInv, ApplyInv, KeepaliveInv, DeviceThreads, Threads
<1>5. MainInv /\ SubscribeInv /\ AckInv
  BY DEF Init, MainInv, SubscribeInv, AckInv, DeviceThreads, Threads
<1>6. QED
  BY <1>3, <1>4, <1>5 DEF Inv

\* The parts of the invariant are kept together.
LEMMA InvNext == Inv /\ [Next]_vars => Inv'
  BY TypeStep, MainInvStep, SubscribeInvStep, KeepaliveInvStep, AckInvStep DEF Inv

\* The inductive invariant is an invariant.
THEOREM Invariance == Spec => []Inv
  BY InvInit, InvNext, PTL DEF Spec

-----------------------------------------------------------------------------
\* Every variable keeps its type, the queues and the flags the threads and
\* the receive thread share among them.
THEOREM TypeCorrect == Spec => []TypeOK
  BY Invariance, PTL DEF Inv

\* LED_Keepalive_Status never has two keepalive requests unanswered, however
\* the flag, the send and messageArrived are interleaved.
THEOREM KeepaliveBounded == Spec => []OneUnansweredKeepalive
<1>1. Inv => OneUnansweredKeepalive
  BY DEF Inv, KeepaliveInv, OneUnansweredKeepalive
<1>2. QED
  BY <1>1, Invariance, PTL

\* main does not uninstall the LED under the device threads.
THEOREM ShadowSafe == Spec => []ShadowOutlivesThreads
<1>1. Inv => ShadowOutlivesThreads
  BY DEF Inv, TypeOK, MainInv, SubscribeInv, ShadowOutlivesThreads
<1>2. QED
  BY <1>1, Invariance, PTL

\* SHADOW_Set_Rsp acts only on the acknowledgement of a stored version.
THEOREM AckSound == Spec => AckMeansStored
<1>1. Inv /\ [Next]_vars => [cb # "clear" /\ cb' = "clear" => version \in stored]_vars
  BY AckDecision DEF Inv
<1>2. QED
  BY <1>1, Invariance, PTL DEF Spec, AckMeansStored

=============================================================================
