------------------------------- MODULE HubConfig ------------------------------
(***************************************************************************)
(* HubConfigManager (hubConfigManager.cpp): main reads the configuration   *)
(* file once, before any thread is started, and the other components ask   *)
(* the resulting object for their settings.                                *)
(*                                                                         *)
(* A JSON object is a function from the keys it contains.  Numbers are the *)
(* value of toInt(), so 0 stands for anything that is not an integer; the  *)
(* settings are unsigned and taken modulo UIntMod.  Of a text setting only *)
(* matters whether it is usable: present, not empty and, for the path of a *)
(* key or certificate, naming an existing file.                            *)
(***************************************************************************)
EXTENDS PktTime, Integers, Sequences, SequencesExt

CONSTANTS
    Files,          \* configuration files to consider
    RLimits,        \* values RLIMIT_NPROC may have
    TimeoutLimits, StoreLimits, PortLimits, \* [min, max] of the settings
    IntervalMin, IntervalMax,
    Default,        \* what the constructor sets
    NotLoaded,      \* create has not been called yet
    Rejected        \* create returned nullptr

MinParallel == 1    \* MGR_MIN_PARALLEL_INSTANCES

(* The settings that are read with toInt, and those that are two numbers.   *)
NumberKeys == {"mqtt_msg_parallel_instances", "mqtt_msg_operation_timeout",
               "mqtt_ligths_operation_timeout", "data_processor_store_every_pkt",
               "data_processor_ligths_store_every_pkt", "port"}
IntervalKeys == {"data_processos_group_intervel", "data_lights_group_intervel"}

(* What the #defines of hubConfigManager.cpp satisfy: no limit is above its *)
(* maximum or wraps, and the defaults are within their limits.              *)
ASSUME LimitsAssumption ==
    /\ \A lim \in {TimeoutLimits, StoreLimits, PortLimits} :
          lim.min \in Nat /\ lim.max \in lim.min..(UIntMod - 1)
    /\ \A t \in {IntervalMin, IntervalMax} : t \in Time /\ Normal(t)
    /\ ~After(IntervalMin, IntervalMax)
    /\ Default.parallelInstances \in Nat \ {0}
    /\ Default.operationTimeout \in TimeoutLimits.min..TimeoutLimits.max
    /\ {Default.storeEvery, Default.storeEveryLights} \subseteq StoreLimits.min..StoreLimits.max

(* What toInt and toArray return, whatever the text of the file is.         *)
ASSUME FilesAssumption ==
    /\ RLimits \subseteq Nat
    /\ \A f \in Files :
          /\ \A k \in NumberKeys \cap DOMAIN f.jObj : f.jObj[k] \in Int
          /\ \A k \in IntervalKeys \cap DOMAIN f.jObj :
                \A n \in {"sec", "msec"} \cap DOMAIN f.jObj[k] : f.jObj[k][n] \in Int
          /\ f.objects \in Seq(ToSet(f.objects))

VARIABLES file, rlimit, instance
vars == <<file, rlimit, instance>>

-----------------------------------------------------------------------------
Has(jObj, key) == key \in DOMAIN jObj

(* jObj[key].toInt() stored in an unsigned; a missing key reads as 0.       *)
Unsigned(jObj, key) == IF Has(jObj, key) THEN jObj[key] % UIntMod ELSE 0

Clamp(n, lim) == IF n > lim.max THEN lim.max ELSE IF n < lim.min THEN lim.min ELSE n

(* Mutant: zero is taken as it is.                                          *)
ParallelInstances_Zero(jObj, limit) ==
    LET n == Unsigned(jObj, "mqtt_msg_parallel_instances")
    IN IF ~Has(jObj, "mqtt_msg_parallel_instances") THEN Default.parallelInstances
       ELSE IF limit < n THEN limit ELSE n

ParallelInstances(jObj, limit) ==
    LET n == Unsigned(jObj, "mqtt_msg_parallel_instances")
    IN IF ~Has(jObj, "mqtt_msg_parallel_instances") THEN Default.parallelInstances
       ELSE IF limit < n THEN limit
       ELSE IF n = 0 THEN MinParallel ELSE n

(* mqttMsgOperationTimeout: the setting for lights, read second, is stored  *)
(* in the same member.                                                      *)
OperationTimeout(jObj) ==
    IF Has(jObj, "mqtt_ligths_operation_timeout")
    THEN Clamp(Unsigned(jObj, "mqtt_ligths_operation_timeout"), TimeoutLimits)
    ELSE IF Has(jObj, "mqtt_msg_operation_timeout")
    THEN Clamp(Unsigned(jObj, "mqtt_msg_operation_timeout"), TimeoutLimits)
    ELSE Default.operationTimeout

(* data_processos_group_intervel and data_lights_group_intervel             *)
IntervalComplete(jObj, key) ==
    Has(jObj, key) => Has(jObj[key], "sec") /\ Has(jObj[key], "msec")

GroupInterval(jObj, key, default) ==
    LET t == [s |-> jObj[key]["sec"], ms |-> Unsigned(jObj[key], "msec")]
    IN IF ~Has(jObj, key) THEN default
       ELSE IF Before(t, IntervalMin) THEN IntervalMin
       ELSE IF After(t, IntervalMax) THEN IntervalMax ELSE t

StoreEvery(jObj, key, default) ==
    IF Has(jObj, key) THEN Clamp(Unsigned(jObj, key), StoreLimits) ELSE default

(* udpServerPort, from the value of another key                             *)
UdpServerPort(jObj) ==
    IF Has(jObj, "port") THEN Clamp(Unsigned(jObj, "data_processor_store_every_pkt"), PortLimits)
    ELSE Default.port

-----------------------------------------------------------------------------
(* mqtt_group_param.objects: "usable" names the text settings that are.     *)
ObjType(mObj) == IF mObj.type \in {"LIGHTS", "AIRC_BOX"} THEN mObj.type ELSE "CAR"

Accepted(mObj) ==
    /\ {"mqtt_id", "sbc_id", "key_path", "key_algorytm"} \subseteq mObj.usable
    /\ mObj.type = "LIGHTS" =>
          /\ "rhost" \in mObj.usable
          /\ Has(mObj, "rport")
          /\ Unsigned(mObj, "rport") \in PortLimits.min..PortLimits.max

(* MqttMsgParamsItem::create and createL                                    *)
ParamsItem(mObj) ==
    [sbcObjId |-> mObj.sbc_id, deviceId |-> mObj.mqtt_id, objType |-> ObjType(mObj),
     rport |-> IF ObjType(mObj) = "LIGHTS" THEN Unsigned(mObj, "rport") ELSE 0]

(* The loop over the objects: params[i] is the list after the first i.      *)
ObjMqttParams(objects) ==
    LET params[i \in 0..Len(objects)] ==
            IF i = 0 THEN <<>>
            ELSE IF Accepted(objects[i]) THEN Append(params[i - 1], ParamsItem(objects[i]))
            ELSE params[i - 1]
    IN params[Len(objects)]

(* The settings without which create returns nullptr.                       *)
Complete(f) ==
    /\ f.readable
    /\ IntervalComplete(f.jObj, "data_processos_group_intervel")
    /\ IntervalComplete(f.jObj, "data_lights_group_intervel")
    /\ {"registry_id", "project_id", "root_cert", "region"} \subseteq f.groupParam
    /\ ObjMqttParams(f.objects) # <<>>

create(f, limit) ==
    [parallelInstances   |-> ParallelInstances(f.jObj, limit),
     operationTimeout    |-> OperationTimeout(f.jObj),
     operationTimeoutLights |-> Default.operationTimeoutLights,
     groupInterval       |-> GroupInterval(f.jObj, "data_processos_group_intervel",
                                           Default.groupInterval),
     groupIntervalLights |-> GroupInterval(f.jObj, "data_lights_group_intervel",
                                           Default.groupIntervalLights),
     storeEvery          |-> StoreEvery(f.jObj, "data_processor_store_every_pkt",
                                        Default.storeEvery),
     storeEveryLights    |-> StoreEvery(f.jObj, "data_processor_ligths_store_every_pkt",
                                        Default.storeEveryLights),
     port                |-> UdpServerPort(f.jObj),
     objMqttParams       |-> ObjMqttParams(f.objects)]

Init ==
    /\ file \in Files
    /\ rlimit \in RLimits
    /\ instance = NotLoaded

(* main: without a configuration the program ends.                          *)
Load ==
    /\ instance = NotLoaded
    /\ instance' = IF Complete(file) THEN create(file, rlimit) ELSE Rejected
    /\ UNCHANGED <<file, rlimit>>

Next == Load

Spec == Init /\ [][Next]_vars

-----------------------------------------------------------------------------
(* Look-ups of the other components: the first entry wins.                  *)
FirstWithId(id) == SelectInSeq(instance.objMqttParams, LAMBDA p : p.sbcObjId = id)

getMqttParamsForObjId(id) ==
    LET i == FirstWithId(id)
    IN IF i = 0 THEN "nullptr" ELSE instance.objMqttParams[i]

(* Mutant: the last entry wins.                                             *)
getObjTypeForObjId_Last(id) ==
    LET i == SelectLastInSeq(instance.objMqttParams, LAMBDA p : p.sbcObjId = id)
    IN IF i = 0 THEN "-1" ELSE instance.objMqttParams[i].objType

getObjTypeForObjId(id) ==
    LET i == FirstWithId(id)
    IN IF i = 0 THEN "-1" ELSE instance.objMqttParams[i].objType

getSbcIdByMqttId(id) ==
    LET i == SelectInSeq(instance.objMqttParams, LAMBDA p : p.deviceId = id)
    IN IF i = 0 THEN 0 ELSE instance.objMqttParams[i].sbcObjId

-----------------------------------------------------------------------------
(* Properties *)
Loaded == instance \notin {NotLoaded, Rejected}

(* v is within the limits, and is what the file says if that is within.     *)
AsConfigured(v, key, lim) ==
    /\ v \in lim.min..lim.max
    /\ Has(file.jObj, key) /\ file.jObj[key] \in lim.min..lim.max => v = file.jObj[key]

(* An interval is between the limits in the order the code compares by,     *)
(* which looks at the milliseconds only if the seconds are equal.  If they  *)
(* are less than a second that is the order of time, and the interval is    *)
(* the configured one if that is within the limits; if they are not, or are *)
(* negative, they are stored as they wrap wherever the seconds are strictly *)
(* between those of the limits: such an interval may be longer than any     *)
(* limit.                                                                   *)
IntervalAsConfigured(t, key) ==
    LET c == file.jObj[key]
        ms == c["sec"] * MsPerSec + c["msec"]
    IN Has(file.jObj, key) =>
          /\ ~Before(t, IntervalMin) /\ ~After(t, IntervalMax)
          /\ c["msec"] \in 0..(MsPerSec - 1) =>
                /\ InMs(t) \in InMs(IntervalMin)..InMs(IntervalMax)
                /\ ms \in InMs(IntervalMin)..InMs(IntervalMax) => InMs(t) = ms
          /\ c["sec"] \in (IntervalMin.s + 1)..(IntervalMax.s - 1) =>
                t = [s |-> c["sec"], ms |-> c["msec"] % UIntMod]

(* The key whose value mqttMsgOperationTimeout holds.                       *)
TimeoutKey ==
    IF Has(file.jObj, "mqtt_ligths_operation_timeout")
    THEN "mqtt_ligths_operation_timeout" ELSE "mqtt_msg_operation_timeout"

(* What a loaded configuration gives the rest of the hub, for any numbers   *)
(* in the file: at least one slot and no more than processes allowed ("min  *)
(* parralel must be great then 0"; with a limit of 0 no child can be forked *)
(* anyway), a timeout and store periods within their limits (pushBack       *)
(* subtracts 1 from a period), each the configured one unless that is out   *)
(* of its limits - negative numbers wrap, and are then too large -, and     *)
(* intervals as IntervalAsConfigured says, which does not bound them if the *)
(* milliseconds are not less than a second.  The timeout of the lights, if  *)
(* configured, is that of the cars, and the lights keep the default.        *)
SettingsLimited ==
    Loaded =>
      /\ rlimit # 0 => /\ instance.parallelInstances >= 1
                       /\ Has(file.jObj, "mqtt_msg_parallel_instances")
                             => instance.parallelInstances <= rlimit
      /\ AsConfigured(instance.operationTimeout, TimeoutKey, TimeoutLimits)
      /\ instance.operationTimeoutLights = Default.operationTimeoutLights
      /\ AsConfigured(instance.storeEvery, "data_processor_store_every_pkt", StoreLimits)
      /\ AsConfigured(instance.storeEveryLights, "data_processor_ligths_store_every_pkt", StoreLimits)
      /\ IntervalAsConfigured(instance.groupInterval, "data_processos_group_intervel")
      /\ IntervalAsConfigured(instance.groupIntervalLights, "data_lights_group_intervel")

(* The data processor and the child look an object up by its id at          *)
(* different times; both see the same entry, also with duplicate ids, its   *)
(* lights entries have a port to talk to, and the way back from the mqtt id *)
(* to the object is the inverse if no mqtt id is given twice.               *)
LookupsAgree ==
    Loaded =>
      LET ps == instance.objMqttParams
      IN \A i \in DOMAIN ps :
            LET id == ps[i].sbcObjId
                p  == getMqttParamsForObjId(id)
            IN /\ p.sbcObjId = id /\ getObjTypeForObjId(id) = p.objType
               /\ p.objType = "LIGHTS" => p.rport \in PortLimits.min..PortLimits.max
               /\ (\A j, k \in DOMAIN ps : ps[j].deviceId = ps[k].deviceId => j = k)
                     => getSbcIdByMqttId(p.deviceId) = id
===============================================================================
