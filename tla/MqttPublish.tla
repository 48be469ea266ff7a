------------------------------ MODULE MqttPublish -----------------------------
(***************************************************************************)
(* The child process that MqttMsgInstance::create forks for a group, from  *)
(* childFunction (mqttMsgInstance.cpp) through sbc_mqtt_main to its exit   *)
(* (sbc_mqtt_ciotc.c), with the connection to the broker as the paho       *)
(* client shows it.  A car's child publishes its group and ends; a lights  *)
(* child stays and passes commands of the cloud on to the lights.  "CAR"   *)
(* is every object that is not lights.                                     *)
(*                                                                         *)
(* Texts of options are their lengths.  A command is the mqtt id it names  *)
(* and a status; NoId stands for whatever is not JSON, lacks a field or    *)
(* names nobody.                                                           *)
(***************************************************************************)
EXTENDS Naturals, Sequences

CONSTANTS
    IdLengths,     \* lengths device, region, registry and project id may have
    SbcIdOf,       \* getSbcIdByMqttId: a function on the known mqtt ids
    OwnId,         \* sbc id of the object the child was started for
    NoId,
    Status,        \* status values of a command
    MaxCmd         \* bound: commands of the cloud

(* The configuration rejects empty texts.                                   *)
ASSUME PublishAssumption ==
    /\ IdLengths \subseteq Nat \ {0}
    /\ NoId \notin DOMAIN SbcIdOf
    /\ MaxCmd \in Nat

VARIABLES
    objType, lens, keyUsable, \* what the child was started with
    cfgMutexHeld,  \* another thread held instanceAccessMutex at the fork
    pc,            \* where the child is
    status,        \* of the process
    exitCode,
    connected,     \* the paho client's view of the connection
    link,          \* the connection itself
    msg,           \* the publication
    cmds,          \* commands the cloud has sent
    inbox,         \* numbers of those on their way to the child
    forwarded      \* packets sent to the lights

inputs == <<objType, lens, keyUsable, cfgMutexHeld>>
lights == <<cmds, inbox, forwarded>>
vars   == <<inputs, pc, status, exitCode, connected, link, msg, lights>>

Lens     == [device: IdLengths, region: IdLengths, registry: IdLengths, project: IdLengths]
Command  == [id: DOMAIN SbcIdOf \cup {NoId}, status: Status]
LightPkt == [n: 1..MaxCmd, sbcid: {SbcIdOf[i] : i \in DOMAIN SbcIdOf}, status: Status]

TypeOK ==
    /\ objType \in {"CAR", "LIGHTS"}
    /\ lens \in Lens
    /\ keyUsable \in BOOLEAN /\ cfgMutexHeld \in BOOLEAN
    /\ pc \in {"params", "opts", "connect", "subscribe", "publish", "wait", "receive", "disconnect"}
    /\ status \in {"running", "exited", "killed"}
    /\ exitCode \in {"none", "success", "failure"}
    /\ connected \in BOOLEAN /\ link \in BOOLEAN
    /\ msg \in {"none", "sent", "stored", "acked"}
    /\ cmds \in Seq(Command)
    /\ inbox \in Seq(1..MaxCmd)
    /\ forwarded \in Seq(LightPkt)

Init ==
    /\ objType \in {"CAR", "LIGHTS"}
    /\ lens \in Lens
    /\ keyUsable \in BOOLEAN /\ cfgMutexHeld \in BOOLEAN
    /\ pc = "params" /\ status = "running" /\ exitCode = "none"
    /\ connected = FALSE /\ link = FALSE
    /\ msg = "none"
    /\ cmds = <<>> /\ inbox = <<>> /\ forwarded = <<>>

At(p) == status = "running" /\ pc = p

Goto(p) == pc' = p /\ UNCHANGED <<status, exitCode>>

Exit(code) == status' = "exited" /\ exitCode' = code /\ UNCHANGED pc

-----------------------------------------------------------------------------
(* childFunction: the mutex is the copy of the fork, nobody unlocks it.     *)
GetParams ==
    /\ At("params") /\ ~cfgMutexHeld
    /\ Goto("opts")
    /\ UNCHANGED <<inputs, connected, link, msg, lights>>

(* The device id is fixed for lights: "mqtt-007".                           *)
DeviceLen == IF objType = "LIGHTS" THEN 8 ELSE lens.device

(* "/devices/<device>/events" and                                           *)
(* "projects/<project>/locations/<region>/registries/<registry>/devices/<device>" *)
TopicLen  == 16 + DeviceLen
ClientLen == 41 + lens.project + lens.region + lens.registry + DeviceLen

topic_size      == 257
clientid_maxlen == 256

(* Mutant: the length of the client id is not looked at.                    *)
GetOpts_TopicOnly == TopicLen <= topic_size

(* GetOpts with all the options childFunction passes.                       *)
GetOpts == TopicLen <= topic_size /\ ClientLen <= clientid_maxlen

(* Mutant: retval has no initial value.                                     *)
sbc_mqtt_main_NoInitial ==
    /\ At("opts")
    /\ IF GetOpts THEN Goto("connect") ELSE Exit("junk")
    /\ UNCHANGED <<inputs, connected, link, msg, lights>>

sbc_mqtt_main ==
    /\ At("opts")
    /\ IF GetOpts THEN Goto("connect") ELSE Exit("failure")
    /\ UNCHANGED <<inputs, connected, link, msg, lights>>

-----------------------------------------------------------------------------
(* Publish.  CreateJwt returns "" for a key it cannot read and NULL or an   *)
(* unsigned token for one it cannot use; the broker refuses all of them.    *)
CreateJwt == IF keyUsable THEN "token" ELSE "none"

Connect ==
    /\ At("connect") /\ CreateJwt = "token"
    /\ connected' = TRUE /\ link' = TRUE
    /\ Goto("subscribe")
    /\ UNCHANGED <<inputs, msg, lights>>

(* Mutant: the exit at the end of the retry loop is missing.                *)
ConnectFails_Retries == At("connect") /\ UNCHANGED vars

(* For every reason, the interval for a retry is computed in vain.          *)
ConnectFails ==
    /\ At("connect")
    /\ Exit("failure")
    /\ UNCHANGED <<inputs, connected, link, msg, lights>>

Subscribe ==
    /\ At("subscribe") /\ link
    /\ Goto(IF objType = "LIGHTS" THEN "receive" ELSE "publish")
    /\ UNCHANGED <<inputs, connected, link, msg, lights>>

(* Mutant: the connection is left open.                                     *)
SubscribeFails_LeavesOpen ==
    /\ At("subscribe")
    /\ Exit("failure")
    /\ UNCHANGED <<inputs, connected, link, msg, lights>>

SubscribeFails ==
    /\ At("subscribe")
    /\ connected' = FALSE /\ link' = FALSE
    /\ Exit("failure")
    /\ UNCHANGED <<inputs, msg, lights>>

(* MQTTClient_publishMessage, whose result is not looked at.  On a broken   *)
(* connection it may still be buffered, or the client notices.  With the    *)
(* link up the library refuses only a topic that is not UTF-8, and a        *)
(* message when every id is in use: here the one message has an ASCII topic.*)
PublishMessage ==
    /\ At("publish")
    /\ \/ msg' = "sent" /\ UNCHANGED connected
       \/ ~link /\ connected' = FALSE /\ UNCHANGED msg
    /\ Goto("wait")
    /\ UNCHANGED <<inputs, link, lights>>

(* MQTTClient_waitForCompletion: what ends it, in the order of its tests    *)
(* but for the time, which may run out at any moment.                       *)
Completion(rc) ==
    \/ rc = "failure"                      \* timeout, or not connected
    \/ rc = "success" /\ connected /\ msg # "sent" /\ msg # "stored"

(* Mutant: the result of the wait is not taken over, rc is still that of    *)
(* the subscription.                                                        *)
WaitForCompletion_Ignored ==
    /\ At("wait")
    /\ Completion("failure") \/ Completion("success")
    /\ exitCode' = "success"
    /\ pc' = "disconnect" /\ UNCHANGED status
    /\ UNCHANGED <<inputs, connected, link, msg, lights>>

WaitForCompletion ==
    /\ At("wait")
    /\ \E rc \in {"success", "failure"} : Completion(rc) /\ exitCode' = rc
    /\ pc' = "disconnect" /\ UNCHANGED status
    /\ UNCHANGED <<inputs, connected, link, msg, lights>>

(* MQTTClient_disconnect, MQTTClient_destroy and the way back to exit.      *)
Disconnect ==
    /\ At("disconnect")
    /\ connected' = FALSE /\ link' = FALSE
    /\ Exit(exitCode)
    /\ UNCHANGED <<inputs, msg, lights>>

-----------------------------------------------------------------------------
(* The endless loop of a lights child                                       *)

(* Mutant: the packet names the object of the child.                        *)
OutPkt_OwnId(n) == [n |-> n, sbcid |-> OwnId, status |-> cmds[n].status]

OutPkt(n) == [n |-> n, sbcid |-> SbcIdOf[cmds[n].id], status |-> cmds[n].status]

(* A command is taken; one that names a known object is sent to the lights, *)
(* if the host is found, the socket opens and sendto succeeds.              *)
ReceiveCommand ==
    /\ At("receive") /\ connected /\ inbox # <<>>
    /\ inbox' = Tail(inbox)
    /\ \/ UNCHANGED forwarded
       \/ /\ cmds[Head(inbox)].id \in DOMAIN SbcIdOf
          /\ forwarded' = Append(forwarded, OutPkt(Head(inbox)))
    /\ UNCHANGED <<inputs, pc, status, exitCode, connected, link, msg, cmds>>

(* MQTTClient_receive finds the socket closed, drops what it had queued and *)
(* returns without a message, as it does after a timeout.                   *)
ReceiveLost ==
    /\ At("receive") /\ connected /\ ~link
    /\ connected' = FALSE
    /\ inbox' = <<>>
    /\ UNCHANGED <<inputs, pc, status, exitCode, link, msg, cmds, forwarded>>

ReceiveNothing ==
    /\ At("receive") /\ (connected => inbox = <<>> /\ link)
    /\ UNCHANGED vars

-----------------------------------------------------------------------------
(* The broker, the network, the cloud and the manager                       *)
BrokerStores ==
    /\ link /\ msg = "sent"
    /\ msg' = "stored"
    /\ UNCHANGED <<inputs, pc, status, exitCode, connected, link, lights>>

(* The acknowledgement is read while the child waits.                       *)
PubAck ==
    /\ At("wait") /\ connected /\ link /\ msg = "stored"
    /\ msg' = "acked"
    /\ UNCHANGED <<inputs, pc, status, exitCode, connected, link, lights>>

(* The network fails, or the broker closes: the token of CreateJwt is good  *)
(* for an hour.                                                             *)
LinkLost ==
    /\ link
    /\ link' = FALSE
    /\ UNCHANGED <<inputs, pc, status, exitCode, connected, msg, lights>>

(* The wait notices it.                                                     *)
WaitLost ==
    /\ At("wait") /\ connected /\ ~link
    /\ connected' = FALSE
    /\ UNCHANGED <<inputs, pc, status, exitCode, link, msg, lights>>

(* sendCommand of the cloud function: who is not connected misses it.       *)
CloudCommand(c) ==
    /\ status = "running" /\ objType = "LIGHTS"
    /\ Len(cmds) < MaxCmd
    /\ cmds' = Append(cmds, c)
    /\ inbox' = IF link /\ pc = "receive" THEN Append(inbox, Len(cmds) + 1) ELSE inbox
    /\ UNCHANGED <<inputs, pc, status, exitCode, connected, link, msg, forwarded>>

(* terminateHangupInstances, which spares lights.                           *)
Killed ==
    /\ status = "running" /\ objType # "LIGHTS"
    /\ status' = "killed"
    /\ link' = FALSE
    /\ UNCHANGED <<inputs, pc, exitCode, connected, msg, lights>>

child ==
    \/ GetParams \/ sbc_mqtt_main
    \/ Connect \/ ConnectFails \/ Subscribe \/ SubscribeFails
    \/ PublishMessage \/ WaitForCompletion \/ Disconnect
    \/ ReceiveCommand \/ ReceiveLost \/ ReceiveNothing

environment ==
    \/ BrokerStores \/ PubAck \/ LinkLost \/ WaitLost
    \/ \E c \in Command : CloudCommand(c)
    \/ Killed

Next == child \/ environment

Spec == Init /\ [][Next]_vars

(* The child is scheduled, and every call it makes returns: the paho calls  *)
(* have timeouts.                                                           *)
FairSpec == Spec /\ WF_vars(child)

-----------------------------------------------------------------------------
(* Properties *)

(* The result of publishMessage is ignored and waitForCompletion takes a    *)
(* message it does not know for delivered; still, a child whose exit code   *)
(* says success has stored its group in the cloud, whenever the connection  *)
(* broke.                                                                   *)
SuccessMeansStored == exitCode = "success" => msg = "acked"

(* On none of its ways to exit does the child leave a session open that the *)
(* broker would take for a connected device.                                *)
ExitsDisconnected == status = "exited" => ~connected /\ ~link

(* GetOpts accepts a topic that just does not fit and was cut by snprintf   *)
(* (">" for ">="); such a device id is refused for its client id, so no     *)
(* child ever connects with a cut topic.                                    *)
TopicWhole == pc \notin {"params", "opts"} => TopicLen < topic_size

(* What reaches the lights are commands in the order of the cloud, none     *)
(* twice, each for the object it named and not the one the child is for.    *)
CommandsInOrder ==
    \A i \in DOMAIN forwarded :
       LET c == cmds[forwarded[i].n]
       IN /\ c.id \in DOMAIN SbcIdOf
          /\ forwarded[i].sbcid = SbcIdOf[c.id] /\ forwarded[i].status = c.status
          /\ \A j \in 1..(i - 1) : forwarded[j].n < forwarded[i].n

(* A car's child ends by itself, unless it was forked while the             *)
(* configuration was locked: the retry loop around connect is left, and a   *)
(* lost connection or acknowledgement does not keep it.                     *)
CarChildEnds == objType = "CAR" /\ ~cfgMutexHeld ~> status # "running"

(* Publish, "receive command from cloud to ligths": a lights child whose    *)
(* connection broke connects again, or ends so that it can be replaced.     *)
LightsKeepReceiving ==
    pc = "receive" /\ ~connected ~> connected \/ status # "running"
===============================================================================
