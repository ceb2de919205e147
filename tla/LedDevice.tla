----------------------------- MODULE LedDevice -----------------------------
(***************************************************************************)
(* The edge application: the LED device, its cloud shadow and the threads  *)
(* that keep them in step.  It models                                      *)
(*   src/sample/mqtt/edgeClient.c   main and the MQTT callbacks,           *)
(*   src/device/led/oasis_led.c     the keepalive, monitor and function    *)
(*                                  call threads and the LED itself,       *)
(*   src/shadow/oasis_shadow.c      the requests and responses,            *)
(*   src/app/func/oasis_func.c      the function call request,             *)
(*   src/hal/spi/oasis_spi.c        the register behind the LED.           *)
(*                                                                         *)
(* Four application threads share one DEV_SHADOW_S and one MQTTAsync       *)
(* handle with the library's receive thread, which runs the callbacks      *)
(* while it holds mqttasync_mutex.  Nothing else protects the shadow, so a *)
(* handler is cut wherever another thread can see it half done: between a  *)
(* send and the flag it sets, between a version check and the assignment   *)
(* after it, inside version++.  The test at the head of a thread's loop    *)
(* is one step.                                                            *)
(*                                                                         *)
(* The broker and the cloud behind it are external.  A malformed payload   *)
(* is refused without a change of state, exactly as if it had been lost.   *)
(* The online and offline flags, delta, tokens and timestamps are written  *)
(* and never read, and are left out; so is func_flag, which starts as      *)
(* FLAG_REQ and is never cleared, because the topic of the function call   *)
(* response is not among the TOPIC_SUB_CNT topics onConnect subscribes.    *)
(***************************************************************************)
EXTENDS Naturals, Sequences, FiniteSets

CONSTANTS
    MaxVersion,   \* bound on the shadow version, the cloud's and the device's
    MaxUp,        \* bound on requests queued for the broker
    MaxDown,      \* bound on packets queued for the device
    Created,      \* the device threads pthread_create succeeds in creating
    Faults        \* what the environment may do beyond answering

FaultKinds == {"connect",     \* create, connect or subscribe fails
               "install",     \* SHADOW_Init runs out of memory
               "disconnect",  \* the network connection drops
               "loss",        \* the broker drops a QoS 0 publication
               "mute",        \* the cloud stops answering for good
               "forget",      \* the cloud drops the device's registration
               "foreign",     \* answers about other devices, refusals
               "update",      \* users change the desired state
               "early",       \* an update may precede registration
               "nodesired",   \* an update may lack state.desired.switch
               "spi"}         \* open or ioctl fails, spinlock left unset

ASSUME BoundsAssumption == MaxVersion \in Nat /\ MaxUp \in Nat \ {0} /\ MaxDown \in Nat \ {0}
ASSUME FaultsAssumption == Faults \subseteq FaultKinds

DeviceThreads == {"monitor", "keepalive", "func"}
ASSUME CreatedAssumption == Created \subseteq DeviceThreads

Threads == DeviceThreads \cup {"main"}
Requests == {"online", "keepalive", "set", "func"}

\* The topics onConnect lists, in its order, and how many it passes on.
TOPIC_SUB_CNT == 5
topics == <<"rspOnline", "rspOffline", "rspSet", "rspKeepalive", "update", "rspFunc">>
Topics == {topics[i] : i \in DOMAIN topics}

Versions == 0..MaxVersion
\* "unset" is the empty string SHADOW_Init leaves.
Switches == {"unset", "on", "off"}
Statuses == {"unset", "online", "offline"}

\* val is the state in a connection response, the outcome in the answer to
\* a set request and the desired switch in an update; "other" stands for
\* another device's, "none" for an update without a desired switch.
Packets ==
    [topic : {"rspOnline", "rspOffline", "rspKeepalive"}, val : {"online", "offline", "other"}, ver : Versions]
    \cup [topic : {"rspSet", "rspFunc", "suback"}, val : {"ok", "fail"}, ver : Versions]
    \cup [topic : {"update"}, val : {"on", "off", "none", "other"}, ver : Versions]
Packet(t, val, ver) == [topic |-> t, val |-> val, ver |-> ver]
NoMessage == Packet("suback", "ok", 0)
Commands == [kind : Requests \cup {"subscribe"}, ver : Versions]

MainStates == {"start", "wait", "install", "send", "flag", "destroy", "spawn", "run", "exit", "exited"}
ThreadStates == {"off", "sleep", "lost", "read", "bump", "build", "send", "flag", "destroy"}

VARIABLES
    pc,          \* where each application thread is
    req,         \* the request a thread is making
    built,       \* the version in the payload a thread has built
    monVer,      \* the version the monitor has read in version++
    monRet,      \* ret of LED_Monitor_State, kept from one round to the next
    subscribed,  \* edgeClient.c: subscribed
    finished,    \* edgeClient.c: finished
    handle,      \* the MQTTAsync object: "none", "live" or "destroyed"
    conn,        \* "idle", "connecting", "up" or "down"
    cmds,        \* commands queued in the library, in order
    ledShadow,   \* oasis_led.c: "null", "live" or "freed"
    status,      \* ledShadow->status
    version,     \* ledShadow->version
    keepalive,   \* ledShadow->flag->keepalive
    setShadow,   \* ledShadow->flag->setShadow
    reported,    \* ledShadow->state->reported->sw
    desired,     \* ledShadow->state->desired->sw
    cb,          \* where the receive thread is in messageArrived
    msg,         \* the update it has checked and will apply
    led,         \* bit 0 of LED_REG
    spin,        \* the SPI spinlock: "free" or "held"
    process,     \* "running", or "crashed" when a signal has killed it
    subs,        \* external: topics the broker routes to this client
    down,        \* external: packets on their way to the device
    registered,  \* external: "yes" while the cloud counts the device as online
    stored,      \* external: versions the cloud has stored a shadow for
    mute,        \* external: the cloud answers no more
    unanswered   \* history: keepalive requests since the last answer, to two

threadVars == <<pc, req, built, monVer, monRet>>
mainVars == <<subscribed, finished, ledShadow>>
shadowVars == <<status, version, keepalive, setShadow, reported, desired>>
libVars == <<handle, conn, cmds>>
cbVars == <<cb, msg>>
spiVars == <<led, spin>>
cloudVars == <<subs, down, registered, stored, mute>>
vars == <<threadVars, mainVars, shadowVars, libVars, cbVars, spiVars, cloudVars, process, unanswered>>

FLAG_REQ == 1
FLAG_RSP == 0
LED_ON == 0
LED_OFF == 1

Alive == process = "running" /\ pc["main"] # "exited"

\* mqttasync_mutex is free: the receive thread is not inside a callback.
MutexFree == cb = "idle"

Goto(t, label) == pc' = [pc EXCEPT ![t] = label]

\* Mutant of SubscribePending: any lost connection sets finished.
MutSubscribePending == conn = "up"

\* A SUBSCRIBE still pending when the connection goes fails, and
\* onSubscribeFailure sets finished.
SubscribePending == conn = "up" /\ subscribed = 0

\* The connection is gone and with it everything in flight.
LoseConnection ==
    /\ conn' = "down"
    /\ cmds' = <<>>
    /\ down' = <<>>
    /\ finished' = IF SubscribePending THEN 1 ELSE finished

Init ==
    /\ pc = [t \in Threads |-> IF t = "main" THEN "start" ELSE "off"]
    /\ req = [t \in Threads |-> "none"]
    /\ built = [t \in Threads |-> 0]
    /\ monVer = 0
    /\ monRet = "SUCCESS"
    /\ subscribed = 0
    /\ finished = 0
    /\ handle = "none"
    /\ conn = "idle"
    /\ cmds = <<>>
    /\ ledShadow = "null"
    /\ status = "unset"
    /\ version = 0
    /\ keepalive = FLAG_RSP
    /\ setShadow = FLAG_RSP
    /\ reported = "unset"
    /\ desired = "unset"
    /\ cb = "idle"
    /\ msg = NoMessage
    /\ led \in {LED_ON, LED_OFF}
    /\ spin \in IF "spi" \in Faults THEN {"free", "held"} ELSE {"free"}
    /\ process = "running"
    /\ subs = {}
    /\ down = <<>>
    /\ registered = "no"
    /\ stored = {}
    /\ mute = FALSE
    /\ unanswered = 0

-----------------------------------------------------------------------------
(* edgeClient.c: main *)

\* MQTTAsync_create, MQTTAsync_setCallbacks and MQTTAsync_connect.
MainConnect ==
    /\ Alive /\ pc["main"] = "start"
    /\ \/ /\ handle' = "live" /\ conn' = "connecting"
          /\ Goto("main", "wait")
       \/ /\ "connect" \in Faults
          /\ Goto("main", "exit")
          /\ UNCHANGED <<handle, conn>>
    /\ UNCHANGED <<req, built, monVer, monRet, mainVars, shadowVars, cmds, cbVars, spiVars, cloudVars, process, unanswered>>

\* while (!subscribed) usleep: finished is not looked at here.
MainSubscribed ==
    /\ Alive /\ pc["main"] = "wait" /\ subscribed = 1
    /\ Goto("main", "install")
    /\ UNCHANGED <<req, built, monVer, monRet, mainVars, shadowVars, libVars, cbVars, spiVars, cloudVars, process, unanswered>>

\* LED_Install, then LED_Online_Req.  Led_Init reads the uninitialised
\* ledState, so reported.sw starts as either value.  When SHADOW_Init fails,
\* LED_Uninstall dereferences the NULL ledShadow.
MainInstall ==
    /\ Alive /\ pc["main"] = "install"
    /\ \/ /\ ledShadow' = "live"
          /\ status' = "unset" /\ version' = 0
          /\ keepalive' = FLAG_RSP /\ setShadow' = FLAG_RSP
          /\ reported' \in {"on", "off"}
          /\ desired' = "unset"
          /\ req' = [req EXCEPT !["main"] = "online"]
          /\ Goto("main", "send")
          /\ UNCHANGED process
       \/ /\ "install" \in Faults
          /\ process' = "crashed"
          /\ UNCHANGED <<ledShadow, shadowVars, req, pc>>
    /\ UNCHANGED <<built, monVer, monRet, subscribed, finished, libVars, cbVars, spiVars, cloudVars, unanswered>>

\* The three pthread_create calls; a failure is logged and ignored.
MainSpawn ==
    /\ Alive /\ pc["main"] = "spawn"
    /\ pc' = [t \in Threads |-> IF t = "main" THEN "run"
                                ELSE IF t \in Created THEN "sleep" ELSE "off"]
    /\ UNCHANGED <<req, built, monVer, monRet, mainVars, shadowVars, libVars, cbVars, spiVars, cloudVars, process, unanswered>>

\* The exit label: LED_Uninstall, MQTTAsync_destroy, return.
MainExit ==
    /\ Alive
    /\ pc["main"] = "exit" \/ (pc["main"] = "run" /\ finished = 1)
    /\ MutexFree
    /\ process' = IF ledShadow = "live" THEN "running" ELSE "crashed"
    /\ ledShadow' = IF ledShadow = "live" THEN "freed" ELSE ledShadow
    /\ handle' = "destroyed"
    /\ Goto("main", "exited")
    /\ LoseConnection
    /\ UNCHANGED <<req, built, monVer, monRet, subscribed, shadowVars, cbVars, spiVars, subs, registered, stored, mute, unanswered>>

-----------------------------------------------------------------------------
(* oasis_shadow.c: the requests, made by any thread *)

\* Where a thread goes when its request has returned ret.
Return(t, ret) ==
    /\ pc' = [pc EXCEPT ![t] = IF t = "main" THEN "spawn"
                               ELSE IF t = "keepalive" /\ req[t] = "set" THEN "send" ELSE "sleep"]
    /\ req' = [req EXCEPT ![t] = IF t = "keepalive" /\ req[t] = "set" THEN "keepalive" ELSE "none"]
    /\ built' = [built EXCEPT ![t] = 0]
    /\ monRet' = IF t = "monitor" THEN ret ELSE monRet

Request(t, r) ==
    /\ req' = [req EXCEPT ![t] = r]
    /\ Goto(t, IF r = "set" THEN "build" ELSE "send")

\* SHADOW_Set_Req, up to the payload.
Build(t) ==
    /\ Alive /\ pc[t] = "build"
    /\ built' = [built EXCEPT ![t] = version]
    /\ Goto(t, "send")
    /\ UNCHANGED <<req, monVer, monRet, mainVars, shadowVars, libVars, cbVars, spiVars, cloudVars, process, unanswered>>

\* MQTTAsync_send queues the command.
Send(t) ==
    /\ Alive /\ pc[t] = "send"
    /\ handle = "live" /\ conn = "up" /\ Len(cmds) < MaxUp
    /\ cmds' = Append(cmds, [kind |-> req[t], ver |-> built[t]])
    /\ built' = [built EXCEPT ![t] = 0]
    /\ unanswered' = IF req[t] = "keepalive" /\ unanswered < 2 THEN unanswered + 1 ELSE unanswered
    /\ Goto(t, "flag")
    /\ UNCHANGED <<req, monVer, monRet, mainVars, shadowVars, handle, conn, cbVars, spiVars, cloudVars, process>>

\* Mutant of Requested: the flag is not set.
MutRequested(flag, t, r) == flag

\* The flag of request r once t has sent what it requests.
Requested(flag, t, r) == IF req[t] = r THEN FLAG_REQ ELSE flag

\* After the send, the flag: another thread may already have seen the answer.
SetFlag(t) ==
    /\ Alive /\ pc[t] = "flag"
    /\ keepalive' = Requested(keepalive, t, "keepalive")
    /\ setShadow' = Requested(setShadow, t, "set")
    /\ Return(t, "SUCCESS")
    /\ UNCHANGED <<monVer, mainVars, status, version, reported, desired, libVars, cbVars, spiVars, cloudVars, process, unanswered>>

\* MQTTAsync_send returns MQTTASYNC_DISCONNECTED.
SendRefused(t) ==
    /\ Alive /\ pc[t] = "send"
    /\ handle = "live" /\ conn # "up"
    /\ Goto(t, "destroy")
    /\ UNCHANGED <<req, built, monVer, monRet, mainVars, shadowVars, libVars, cbVars, spiVars, cloudVars, process, unanswered>>

\* MQTTAsync_destroy(&c) on the local copy of the handle: the object is
\* freed, the other threads keep their pointer to it.
DestroyHandle(t) ==
    /\ Alive /\ pc[t] = "destroy"
    /\ handle = "live" /\ MutexFree
    /\ handle' = "destroyed"
    /\ LoseConnection
    /\ Return(t, "ERROR")
    /\ UNCHANGED <<monVer, subscribed, ledShadow, shadowVars, cbVars, spiVars, subs, registered, stored, mute, process, unanswered>>

\* MQTTAsync_send or MQTTAsync_destroy on freed memory: the process dies, or
\* the stale contents happen to make the request fail.
UseFreedHandle(t) ==
    /\ Alive /\ pc[t] \in {"send", "destroy"}
    /\ handle = "destroyed"
    /\ \/ process' = "crashed" /\ UNCHANGED <<pc, req, built, monRet>>
       \/ Return(t, "ERROR") /\ UNCHANGED process
    /\ UNCHANGED <<monVer, mainVars, shadowVars, libVars, cbVars, spiVars, cloudVars, unanswered>>

-----------------------------------------------------------------------------
(* oasis_led.c: the device threads *)

\* Mutant of Connected: the keepalive flag is not looked at.
MutConnected == status = "online"

Connected == status = "online" /\ keepalive = FLAG_RSP

\* Mutant of KeepaliveRequest: what is not acknowledged is left alone.
MutKeepaliveRequest == "keepalive"

\* LED_Keepalive_Status: report again what is not acknowledged, then ask.
KeepaliveRequest == IF setShadow # FLAG_RSP THEN "set" ELSE "keepalive"

\* Mutant of LostRequest: asks again instead of registering.
MutLostRequest == "keepalive"

\* When the last round was not answered, register again.
LostRequest == "online"

KeepaliveCheck ==
    /\ Alive /\ pc["keepalive"] = "sleep"
    /\ \/ Connected /\ Request("keepalive", KeepaliveRequest)
       \/ ~Connected /\ Goto("keepalive", "lost") /\ UNCHANGED req
    /\ UNCHANGED <<built, monVer, monRet, mainVars, shadowVars, libVars, cbVars, spiVars, cloudVars, process, unanswered>>

\* Whatever has been answered since the test, the device is offline now.
KeepaliveLost ==
    /\ Alive /\ pc["keepalive"] = "lost"
    /\ keepalive' = FLAG_RSP
    /\ status' = "offline"
    /\ unanswered' = 0
    /\ Request("keepalive", LostRequest)
    /\ UNCHANGED <<built, monVer, monRet, mainVars, version, setShadow, reported, desired, libVars, cbVars, spiVars, cloudVars, process>>

\* LED_Monitor_State: ledState is LED_OFF for ever.
MonitorCheck ==
    /\ Alive /\ pc["monitor"] = "sleep"
    /\ monRet = "SUCCESS"
    /\ Connected /\ reported = "off"
    /\ Goto("monitor", "read")
    /\ UNCHANGED <<req, built, monVer, monRet, mainVars, shadowVars, libVars, cbVars, spiVars, cloudVars, process, unanswered>>

\* version++ reads, and writes what it has read plus one.
MonitorRead ==
    /\ Alive /\ pc["monitor"] = "read"
    /\ version < MaxVersion
    /\ monVer' = version
    /\ Goto("monitor", "bump")
    /\ UNCHANGED <<req, built, monRet, mainVars, shadowVars, libVars, cbVars, spiVars, cloudVars, process, unanswered>>

MonitorBump ==
    /\ Alive /\ pc["monitor"] = "bump"
    /\ reported' = "off"
    /\ version' = monVer + 1
    /\ monVer' = 0
    /\ Request("monitor", "set")
    /\ UNCHANGED <<built, monRet, mainVars, status, keepalive, setShadow, desired, libVars, cbVars, spiVars, cloudVars, process, unanswered>>

\* LED_Func_Req: func_flag is FLAG_REQ, so every round calls the function.
FuncCheck ==
    /\ Alive /\ pc["func"] = "sleep"
    /\ Connected
    /\ Request("func", "func")
    /\ UNCHANGED <<built, monVer, monRet, mainVars, shadowVars, libVars, cbVars, spiVars, cloudVars, process, unanswered>>

-----------------------------------------------------------------------------
(* The receive thread: the connection callbacks and messageArrived *)

\* onConnect: MQTTAsync_subscribeMany with the first TOPIC_SUB_CNT topics.
OnConnect ==
    /\ Alive /\ conn = "connecting" /\ MutexFree
    /\ conn' = "up"
    /\ cmds' = <<[kind |-> "subscribe", ver |-> 0]>>
    /\ UNCHANGED <<threadVars, mainVars, shadowVars, handle, cbVars, spiVars, cloudVars, process, unanswered>>

OnConnectFailure ==
    /\ Alive /\ conn = "connecting" /\ MutexFree
    /\ "connect" \in Faults
    /\ conn' = "down"
    /\ finished' = 1
    /\ UNCHANGED <<threadVars, subscribed, ledShadow, shadowVars, handle, cmds, cbVars, spiVars, cloudVars, process, unanswered>>

\* The connection drops between two callbacks.
Disconnected ==
    /\ Alive /\ conn = "up" /\ MutexFree
    /\ "disconnect" \in Faults
    /\ LoseConnection
    /\ UNCHANGED <<threadVars, subscribed, ledShadow, shadowVars, handle, cbVars, spiVars, subs, registered, stored, mute, process, unanswered>>

Arrived(ts) == Alive /\ conn = "up" /\ MutexFree /\ down # <<>> /\ Head(down).topic \in ts

Receive == down' = Tail(down)

\* onSubscribe and onSubscribeFailure.
OnSubscribe ==
    /\ Arrived({"suback"})
    /\ Receive
    /\ IF Head(down).val = "ok"
       THEN subscribed' = 1 /\ UNCHANGED finished
       ELSE finished' = 1 /\ UNCHANGED subscribed
    /\ UNCHANGED <<threadVars, ledShadow, shadowVars, libVars, cbVars, spiVars, subs, registered, stored, mute, process, unanswered>>

\* Every handler of messageArrived reads ledShadow, NULL until LED_Install.
NullShadow ==
    /\ Arrived(Topics)
    /\ ledShadow # "live"
    /\ Receive
    /\ process' = "crashed"
    /\ UNCHANGED <<threadVars, mainVars, shadowVars, libVars, cbVars, spiVars, subs, registered, stored, mute, unanswered>>

\* Mutant of NewStatus: only an online state is taken over.
MutNewStatus(m) == IF m.val = "online" THEN "online" ELSE status

\* SHADOW_Connect_Rsp: the status, when the answer is about this device,
\* then, whoever it was about, the flag of the topic.
NewStatus(m) == IF m.val \in Statuses THEN m.val ELSE status

ConnectRsp ==
    /\ Arrived({"rspOnline", "rspOffline", "rspKeepalive"})
    /\ ledShadow = "live"
    /\ Receive
    /\ status' = NewStatus(Head(down))
    /\ cb' = IF Head(down).topic = "rspKeepalive" THEN "flag" ELSE "idle"
    /\ UNCHANGED <<threadVars, mainVars, version, keepalive, setShadow, reported, desired, libVars, msg, spiVars, subs, registered, stored, mute, process, unanswered>>

ConnectRspFlag ==
    /\ Alive /\ cb = "flag"
    /\ keepalive' = FLAG_RSP
    /\ unanswered' = 0
    /\ cb' = "idle"
    /\ UNCHANGED <<threadVars, mainVars, status, version, setShadow, reported, desired, libVars, msg, spiVars, cloudVars, process>>

\* Mutant of SetRspMatches: the version is not compared.
MutSetRspMatches(m) == m.val = "ok"

\* SHADOW_Set_Rsp: this device, status code 200 and the current version.
SetRspMatches(m) == m.val = "ok" /\ m.ver = version

SetRsp ==
    /\ Arrived({"rspSet"})
    /\ ledShadow = "live"
    /\ Receive
    /\ cb' = IF SetRspMatches(Head(down)) THEN "clear" ELSE "idle"
    /\ UNCHANGED <<threadVars, mainVars, shadowVars, libVars, msg, spiVars, subs, registered, stored, mute, process, unanswered>>

SetRspClear ==
    /\ Alive /\ cb = "clear"
    /\ setShadow' = FLAG_RSP
    /\ cb' = "idle"
    /\ UNCHANGED <<threadVars, mainVars, status, version, keepalive, reported, desired, libVars, msg, spiVars, cloudVars, process, unanswered>>

\* SHADOW_Update up to the assignments.  The timestamp test never fails, as
\* nothing assigns shadow->timestamp.  An update for another device still
\* returns SUCCESS, and LED_Update_Shadow goes on to compare the switches.
UpdateTooSmall(m) == m.ver < version

Update ==
    /\ Arrived({"update"})
    /\ ledShadow = "live"
    /\ Receive
    /\ LET m == Head(down) IN
       cb' = IF UpdateTooSmall(m) THEN "idle"
             ELSE IF m.val # "other" THEN "apply"
             ELSE IF desired # reported THEN "spiRead" ELSE "idle"
    /\ msg' = IF cb' = "apply" THEN Head(down) ELSE msg
    /\ UNCHANGED <<threadVars, mainVars, shadowVars, libVars, spiVars, subs, registered, stored, mute, process, unanswered>>

\* A missing switch has been logged only, and its NULL is dereferenced here.
UpdateApply ==
    /\ Alive /\ cb = "apply"
    /\ IF msg.val = "none"
       THEN process' = "crashed" /\ UNCHANGED <<desired, version, setShadow, cbVars>>
       ELSE /\ desired' = msg.val
            /\ version' = msg.ver
            /\ setShadow' = FLAG_REQ
            /\ cb' = IF msg.val # reported THEN "spiRead" ELSE "idle"
            /\ msg' = NoMessage
            /\ UNCHANGED process
    /\ UNCHANGED <<threadVars, mainVars, status, keepalive, reported, libVars, spiVars, cloudVars, unanswered>>

\* Led_Trans_State, from a state that starts as 0.
Led_Trans_State(sw) == IF sw = "off" THEN LED_OFF ELSE LED_ON

\* Mutant of Led_Set_Bits: adds where it should or.
MutLed_Set_Bits(value, setValue) == value + setValue

\* value &= ~setValue; value |= setValue, on bit 0.
Led_Set_Bits(value, setValue) == IF setValue = 1 THEN 1 ELSE value

\* Mutant of SpiRead: the lock is kept on success.
MutSpiRead ==
    /\ Alive /\ cb = "spiRead" /\ spin = "free"
    /\ spin' = "held" /\ cb' = "spiWrite"
    /\ UNCHANGED <<threadVars, mainVars, shadowVars, libVars, msg, led, cloudVars, process, unanswered>>

\* Led_Update_State: SPI_Read.  A failure returns with the lock held.
SpiRead ==
    /\ Alive /\ cb = "spiRead" /\ spin = "free"
    /\ \/ cb' = "spiWrite" /\ UNCHANGED spin
       \/ "spi" \in Faults /\ spin' = "held" /\ cb' = "idle"
    /\ UNCHANGED <<threadVars, mainVars, shadowVars, libVars, msg, led, cloudVars, process, unanswered>>

\* Led_Update_State: SPI_Write, with the same failure.
SpiWrite ==
    /\ Alive /\ cb = "spiWrite" /\ spin = "free"
    /\ \/ led' = Led_Set_Bits(led, Led_Trans_State(desired)) /\ UNCHANGED spin
       \/ "spi" \in Faults /\ spin' = "held" /\ UNCHANGED led
    /\ cb' = "idle"
    /\ UNCHANGED <<threadVars, mainVars, shadowVars, libVars, msg, cloudVars, process, unanswered>>

-----------------------------------------------------------------------------
(* External: the broker and the cloud, as far as the handlers rely on them *)

\* The broker forwards only what the client subscribed to.
Deliver(p) == down' = IF p.topic \in subs THEN Append(down, p) ELSE down

Outcomes(v) == {Packet("rspSet", "ok", v)} \cup
               (IF "foreign" \in Faults THEN {Packet("rspSet", "fail", v)} ELSE {})

\* The library's send thread writes the oldest command, for which it needs
\* mqttasync_mutex, and the other end acts on it.
Subscribe ==
    /\ Alive /\ conn = "up" /\ MutexFree /\ Len(down) < MaxDown
    /\ cmds # <<>> /\ Head(cmds).kind = "subscribe"
    /\ cmds' = Tail(cmds)
    /\ \/ /\ subs' = {topics[i] : i \in 1..TOPIC_SUB_CNT}
          /\ down' = Append(down, Packet("suback", "ok", 0))
       \/ /\ "connect" \in Faults
          /\ down' = Append(down, Packet("suback", "fail", 0))
          /\ UNCHANGED subs
    /\ UNCHANGED <<threadVars, mainVars, shadowVars, handle, conn, cbVars, spiVars, registered, stored, mute, process, unanswered>>

Serve ==
    /\ Alive /\ conn = "up" /\ MutexFree /\ Len(down) < MaxDown
    /\ cmds # <<>> /\ ~mute
    /\ cmds' = Tail(cmds)
    /\ \/ /\ Head(cmds).kind = "online"
          /\ registered' = "yes"
          /\ Deliver(Packet("rspOnline", "online", 0))
          /\ UNCHANGED stored
       \/ /\ Head(cmds).kind = "keepalive"
          /\ Deliver(Packet("rspKeepalive", IF registered = "yes" THEN "online" ELSE "offline", 0))
          /\ UNCHANGED <<registered, stored>>
       \/ /\ Head(cmds).kind = "set"
          /\ \E p \in Outcomes(Head(cmds).ver) :
                /\ Deliver(p)
                /\ stored' = IF p.val = "ok" THEN stored \cup {p.ver} ELSE stored
          /\ UNCHANGED registered
       \/ /\ Head(cmds).kind = "func"
          /\ Deliver(Packet("rspFunc", "ok", 0))
          /\ UNCHANGED <<registered, stored>>
    /\ UNCHANGED <<threadVars, mainVars, shadowVars, handle, conn, cbVars, spiVars, subs, mute, process, unanswered>>

\* A publication the broker or a mute cloud leaves unanswered.
Lose ==
    /\ Alive /\ conn = "up" /\ MutexFree
    /\ mute \/ "loss" \in Faults
    /\ cmds # <<>> /\ Head(cmds).kind \in Requests
    /\ cmds' = Tail(cmds)
    /\ UNCHANGED <<threadVars, mainVars, shadowVars, handle, conn, cbVars, spiVars, cloudVars, process, unanswered>>

\* A user asks for a switch state, in a version the cloud numbers.
UserUpdate ==
    /\ Alive /\ conn = "up" /\ Len(down) < MaxDown
    /\ "update" \in Faults /\ ~mute
    /\ registered = "yes" \/ "early" \in Faults
    /\ \E sw \in {"on", "off"} \cup (IF "nodesired" \in Faults THEN {"none"} ELSE {})
                              \cup (IF "foreign" \in Faults THEN {"other"} ELSE {}),
          v \in Versions : Deliver(Packet("update", sw, v))
    /\ UNCHANGED <<threadVars, mainVars, shadowVars, libVars, cbVars, spiVars, subs, registered, stored, mute, process, unanswered>>

\* The topics are shared by all devices of the edge node.
OtherDevice ==
    /\ Alive /\ conn = "up" /\ Len(down) < MaxDown
    /\ "foreign" \in Faults /\ ~mute
    /\ registered = "yes"
    /\ Deliver(Packet("rspKeepalive", "other", 0))
    /\ UNCHANGED <<threadVars, mainVars, shadowVars, libVars, cbVars, spiVars, subs, registered, stored, mute, process, unanswered>>

\* The cloud counts the device as gone, and may say so.
Forget ==
    /\ Alive /\ "forget" \in Faults /\ registered = "yes"
    /\ registered' = "no"
    /\ \/ UNCHANGED down
       \/ conn = "up" /\ Len(down) < MaxDown /\ Deliver(Packet("rspOffline", "offline", 0))
    /\ UNCHANGED <<threadVars, mainVars, shadowVars, libVars, cbVars, spiVars, subs, stored, mute, process, unanswered>>

GoMute ==
    /\ Alive /\ "mute" \in Faults /\ ~mute
    /\ mute' = TRUE
    /\ UNCHANGED <<threadVars, mainVars, shadowVars, libVars, cbVars, spiVars, subs, down, registered, stored, process, unanswered>>

-----------------------------------------------------------------------------
MainStep == MainConnect \/ MainSubscribed \/ MainInstall \/ MainSpawn \/ MainExit
RequestStep(t) == Build(t) \/ Send(t) \/ SetFlag(t) \/ SendRefused(t) \/ DestroyHandle(t) \/ UseFreedHandle(t)
DeviceStep == KeepaliveCheck \/ KeepaliveLost \/ MonitorCheck \/ MonitorRead \/ MonitorBump \/ FuncCheck
ReceiveStep == OnConnect \/ OnConnectFailure \/ OnSubscribe \/ NullShadow \/ ConnectRsp \/ ConnectRspFlag
               \/ SetRsp \/ SetRspClear \/ Update \/ UpdateApply \/ SpiRead \/ SpiWrite
CloudStep == Subscribe \/ Serve \/ Lose
EnvironmentStep == UserUpdate \/ OtherDevice \/ Forget \/ GoMute \/ Disconnected

Next == MainStep \/ DeviceStep \/ ReceiveStep \/ CloudStep \/ EnvironmentStep
        \/ \E t \in Threads : RequestStep(t)

Spec == Init /\ [][Next]_vars

-----------------------------------------------------------------------------
(* Fairness.  Every thread that can run runs: the sleeps end.  A send or a *)
(* served command may be disabled again and again, by a full queue, which  *)
(* is a bound of this model, or by a callback holding mqttasync_mutex,     *)
(* which the receive thread lets go of between two packets: strong.  The   *)
(* keepalive thread sleeps for twenty seconds before each check, so        *)
(* nothing comes in the instant between KeepaliveCheck and KeepaliveLost.  *)

ServeOnline == Serve /\ Head(cmds).kind = "online"

Fairness ==
    /\ WF_vars(MainStep)
    /\ WF_vars(KeepaliveCheck \/ KeepaliveLost)
    /\ WF_vars(MonitorRead \/ MonitorBump)
    /\ WF_vars(ReceiveStep)
    /\ SF_vars(Subscribe)
    /\ SF_vars(Serve \/ Lose)
    /\ SF_vars(ServeOnline)
    /\ \A t \in Threads : SF_vars(RequestStep(t))

Prompt == pc["keepalive"] = "lost" => pc'["keepalive"] # "lost"

LiveSpec == Init /\ [][Next /\ Prompt]_vars /\ Fairness

\* Enough for what the receive thread does on its own.
CallbackSpec == Spec /\ WF_vars(ReceiveStep)

-----------------------------------------------------------------------------
(* Properties *)

\* Every variable has its type.
TypeOK ==
    /\ pc \in [Threads -> MainStates \cup ThreadStates]
    /\ pc["main"] \in MainStates /\ \A t \in DeviceThreads : pc[t] \in ThreadStates
    /\ req \in [Threads -> Requests \cup {"none"}]
    /\ built \in [Threads -> Versions]
    /\ monVer \in Versions /\ monRet \in {"SUCCESS", "ERROR"}
    /\ subscribed \in {0, 1} /\ finished \in {0, 1}
    /\ handle \in {"none", "live", "destroyed"}
    /\ conn \in {"idle", "connecting", "up", "down"}
    /\ cmds \in Seq(Commands)
    /\ ledShadow \in {"null", "live", "freed"}
    /\ status \in Statuses /\ version \in Versions
    /\ keepalive \in {FLAG_REQ, FLAG_RSP} /\ setShadow \in {FLAG_REQ, FLAG_RSP}
    /\ reported \in Switches /\ desired \in Switches
    /\ cb \in {"idle", "flag", "clear", "apply", "spiRead", "spiWrite"}
    /\ msg \in Packets
    /\ led \in {LED_ON, LED_OFF} /\ spin \in {"free", "held"} /\ process \in {"running", "crashed"}
    /\ subs \subseteq Topics /\ down \in Seq(Packets)
    /\ registered \in {"yes", "no"} /\ stored \subseteq Versions /\ mute \in BOOLEAN
    /\ unanswered \in 0..2

\* LED_Keepalive_Status never has more than one keepalive request without an
\* answer: it registers again instead of asking twice, although the flag it
\* goes by is set after the send and cleared by the receive thread.
OneUnansweredKeepalive == unanswered <= 1

\* The device threads run only while the shadow they all dereference is
\* there: once the subscription has succeeded no callback sets finished, so
\* main never gets to LED_Uninstall under them.
ShadowOutlivesThreads ==
    \A t \in DeviceThreads : pc[t] # "off" => ledShadow = "live" /\ finished = 0

\* SHADOW_Set_Rsp decides to clear setShadow only when the cloud has stored
\* the version the shadow has at that moment, however many older answers are
\* still on their way.
AckMeansStored == [][cb # "clear" /\ cb' = "clear" => version \in stored]_vars

\* The handle a thread passes to the library has not been destroyed by
\* another thread's failed request ("This function frees the memory").
HandleIsLive == \A t \in Threads : pc[t] \in {"send", "destroy"} => handle = "live"

\* Unless the cloud stops answering for good, the device keeps coming back
\* online, whatever requests are lost and registrations forgotten.
OnlineAgain == []<>(status = "online" \/ mute)

\* A registration the cloud has dropped is made again.
Reregisters == registered = "no" ~> (registered = "yes" \/ mute)

\* When the cloud stops answering, the device stops calling itself online.
MuteDetected == <>[]mute => <>[](status # "online")

\* A shadow that is not acknowledged is reported again by the keepalive
\* thread, unless the device has to register again first.
PendingSetIsRetried ==
    setShadow = FLAG_REQ ~> (setShadow = FLAG_RSP \/ req["keepalive"] = "set" \/ registered = "no" \/ mute)

\* messageArrived returns: it does not keep the receive thread, and
\* mqttasync_mutex with it, for ever.
CallbackReturns == cb # "idle" ~> cb = "idle"

=============================================================================
