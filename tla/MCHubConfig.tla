------------------------------ MODULE MCHubConfig -----------------------------
(* Instances of HubConfig for TLC.  The settings are read independently of   *)
(* each other, apart from the two timeouts and the port: the files vary the  *)
(* numbers, the intervals, and the mandatory parts and objects in turn.      *)
EXTENDS HubConfig

OneToThree == [min |-> 1, max |-> 3]
TwoToFour  == [min |-> 2, max |-> 4]
HalfSecond == [s |-> 0, ms |-> 1]
ThreeSeconds == [s |-> 3, ms |-> 0]
Defaults ==
    [parallelInstances |-> 1, operationTimeout |-> 4, operationTimeoutLights |-> 3,
     groupInterval |-> [s |-> 2, ms |-> 0], groupIntervalLights |-> [s |-> 1, ms |-> 1],
     storeEvery |-> 3, storeEveryLights |-> 1, port |-> 3]

Numbers(keys) == UNION {[ks -> {-1, 0, 2, 5}] : ks \in SUBSET keys}

IntervalValues == {[sec |-> s, msec |-> ms] : s \in {-1, 0, 1, 3}, ms \in {-1, 0, 1, 2}}
                  \cup {[sec |-> 1], [msec |-> 1]}
Intervals == UNION {[ks -> IntervalValues] : ks \in SUBSET IntervalKeys}

AllGroupParams == {"registry_id", "project_id", "root_cert", "region"}
AllTexts == {"mqtt_id", "sbc_id", "key_path", "key_algorytm", "rhost"}
Object(usable, mqtt, sbc, type, port) ==
    [usable |-> usable, mqtt_id |-> mqtt, sbc_id |-> sbc, type |-> type, rport |-> port]
Car == Object(AllTexts, "m1", 1, "CAR", 0)

Objects ==
    {Object(AllTexts, m, i, t, r) : m \in {"m1", "m2"}, i \in {1, 2},
                                    t \in {"LIGHTS", "AIRC_BOX", "truck"}, r \in {0, 2}}
    \cup {Object(AllTexts \ {x}, "m1", 1, t, 2) : x \in AllTexts, t \in {"LIGHTS", "CAR"}}

NumberFiles   == [readable: BOOLEAN, jObj: Numbers(NumberKeys), groupParam: {AllGroupParams},
                  objects: {<<Car>>}]
IntervalFiles == [readable: {TRUE}, jObj: Intervals, groupParam: {AllGroupParams},
                  objects: {<<Car>>}]
ObjectFiles   == [readable: {TRUE}, jObj: {<<>>},
                  groupParam: {AllGroupParams, AllGroupParams \ {"region"}},
                  objects: {<<>>} \cup {<<a>> : a \in Objects} \cup (Objects \X Objects)]
AllFiles == NumberFiles \cup IntervalFiles \cup ObjectFiles
===============================================================================
