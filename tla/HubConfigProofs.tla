---------------------------- MODULE HubConfigProofs ---------------------------
(***************************************************************************)
(* Proofs about the configuration manager, for any files, any limits of    *)
(* the settings and any limit of processes.                                *)
(***************************************************************************)
EXTENDS HubConfig, SequenceTheorems, WellFoundedInduction, TLAPS

(* What is loaded is what create made of a file that is complete.           *)
LoadInv ==
    /\ file \in Files /\ rlimit \in RLimits
    /\ Loaded => Complete(file) /\ instance = create(file, rlimit)

(* Only Load changes anything, and it loads a complete file or nothing.     *)
LEMMA LoadNext == LoadInv /\ [Next]_vars => LoadInv'
BY DEF LoadInv, Loaded, Next, Load, vars

(* Nothing is loaded in the beginning.                                      *)
LEMMA LoadInit == Init => LoadInv
BY DEF Init, LoadInv, Loaded

-----------------------------------------------------------------------------
(* What fits an unsigned is stored as it is.                                *)
LEMMA SmallIsKept ==
  ASSUME NEW n \in Nat, NEW m \in Nat, n < m
  PROVE  n % m = n
OBVIOUS

(* A setting that is read with toInt is a number of an unsigned, and the    *)
(* number in the file if that is one.                                       *)
LEMMA UnsignedIsNatural ==
  ASSUME NEW f \in Files, NEW key \in NumberKeys
  PROVE  /\ Unsigned(f.jObj, key) \in Nat
         /\ Has(f.jObj, key) /\ f.jObj[key] \in 0..(UIntMod - 1) =>
               Unsigned(f.jObj, key) = f.jObj[key]
<1> DEFINE n == f.jObj[key]
<1>1. UIntMod \in Nat \ {0}
  BY TimeAssumption
<1>2. CASE Has(f.jObj, key)
  <2>1. n \in Int
    BY <1>2, FilesAssumption DEF Has
  <2>2. n % UIntMod \in Nat
    BY <1>1, <2>1
  <2>3. n \in 0..(UIntMod - 1) => n % UIntMod = n
    BY <1>1, SmallIsKept
  <2> QED BY <1>2, <2>2, <2>3 DEF Unsigned
<1>3. CASE ~Has(f.jObj, key)
  BY <1>3 DEF Unsigned
<1> QED BY <1>2, <1>3

(* Clamping leaves what is within the limits.                               *)
LEMMA ClampProperties ==
  ASSUME NEW n \in Nat, NEW lim, lim.min \in Nat, lim.max \in Nat, lim.min <= lim.max
  PROVE  /\ Clamp(n, lim) \in lim.min..lim.max
         /\ n \in lim.min..lim.max => Clamp(n, lim) = n
BY DEF Clamp

(* A clamped setting is the configured one, negative numbers included.      *)
LEMMA ClampedAsConfigured ==
  ASSUME NEW f \in Files, NEW key \in NumberKeys,
         NEW lim \in {TimeoutLimits, StoreLimits, PortLimits},
         NEW v, v = Clamp(Unsigned(f.jObj, key), lim)
  PROVE  /\ v \in lim.min..lim.max
         /\ Has(f.jObj, key) /\ f.jObj[key] \in lim.min..lim.max => v = f.jObj[key]
<1> DEFINE n == Unsigned(f.jObj, key)
           c == f.jObj[key]
<1>1. /\ UIntMod \in Nat
      /\ lim.min \in Nat /\ lim.max \in lim.min..(UIntMod - 1)
  BY TimeAssumption, LimitsAssumption
<1>2. n \in Nat /\ (Has(f.jObj, key) /\ c \in 0..(UIntMod - 1) => n = c)
  BY UnsignedIsNatural
<1>3. Clamp(n, lim) \in lim.min..lim.max /\ (n \in lim.min..lim.max => Clamp(n, lim) = n)
  BY <1>1, <1>2, ClampProperties
<1>4. c \in lim.min..lim.max => c \in 0..(UIntMod - 1)
  BY <1>1
<1> HIDE DEF n, c
<1> QED BY <1>2, <1>3, <1>4 DEF n, c


-----------------------------------------------------------------------------
(* A second more outweighs any milliseconds beside the seconds.             *)
LEMMA SecondsOutweigh ==
  ASSUME NEW M \in Nat, NEW a \in Int, NEW b \in Int, a > b
  PROVE  a * M \in Int /\ b * M \in Int /\ a * M >= b * M + M
<1> DEFINE k == a - (b + 1)
<1>1. k \in Nat /\ a = (b + 1) + k
  OBVIOUS
<1> HIDE DEF k
<1>2. a * M = b * M + M + k * M
  BY <1>1
<1>3. k * M \in Nat /\ b * M \in Int /\ a * M \in Int
  BY <1>1
<1> QED BY <1>2, <1>3

(* operator< and operator> order the interval of a file, whose seconds may  *)
(* be negative, and a limit by their milliseconds.                          *)
LEMMA IntervalsOrdered ==
  ASSUME NEW t, t.s \in Int, t.ms \in 0..(MsPerSec - 1), NEW x \in Time, Normal(x)
  PROVE  /\ InMs(t) \in Int /\ InMs(x) \in Int
         /\ Before(t, x) <=> InMs(t) < InMs(x)
         /\ After(t, x) <=> InMs(t) > InMs(x)
<1>1. /\ t.s \in Int /\ t.ms \in Nat /\ t.ms < MsPerSec
      /\ x.s \in Int /\ x.ms \in Nat /\ x.ms < MsPerSec
      /\ MsPerSec \in Nat
  BY TimeAssumption DEF Time, Normal
<1>2. t.s * MsPerSec \in Int /\ x.s * MsPerSec \in Int
  BY <1>1
<1>3. CASE t.s > x.s
  <2>1. t.s * MsPerSec >= x.s * MsPerSec + MsPerSec
    BY <1>1, <1>3, SecondsOutweigh
  <2> QED BY <1>1, <1>2, <1>3, <2>1 DEF After, Before, InMs
<1>4. CASE x.s > t.s
  <2>1. x.s * MsPerSec >= t.s * MsPerSec + MsPerSec
    BY <1>1, <1>4, SecondsOutweigh
  <2> QED BY <1>1, <1>2, <1>4, <2>1 DEF After, Before, InMs
<1>5. CASE t.s = x.s
  BY <1>1, <1>2, <1>5 DEF After, Before, InMs
<1> QED BY <1>1, <1>3, <1>4, <1>5

(* operator< and operator> do not find the two limits the wrong way round,  *)
(* and what they leave between the limits is between them.                  *)
LEMMA LimitedByOrder ==
  ASSUME NEW t, NEW v, v = IF Before(t, IntervalMin) THEN IntervalMin
                           ELSE IF After(t, IntervalMax) THEN IntervalMax ELSE t
  PROVE  /\ ~Before(v, IntervalMin) /\ ~After(v, IntervalMax)
         /\ t.s \in (IntervalMin.s + 1)..(IntervalMax.s - 1) => v = t
<1>1. /\ IntervalMin.s \in Int /\ IntervalMin.ms \in Int
      /\ IntervalMax.s \in Int /\ IntervalMax.ms \in Int
      /\ ~After(IntervalMin, IntervalMax)
  BY LimitsAssumption DEF Time
<1>2. ~Before(IntervalMin, IntervalMin) /\ ~After(IntervalMax, IntervalMax)
  BY <1>1 DEF Before, After
<1>3. ~Before(IntervalMax, IntervalMin)
  BY <1>1 DEF Before, After
<1>4. ASSUME t.s \in (IntervalMin.s + 1)..(IntervalMax.s - 1)
      PROVE  ~Before(t, IntervalMin) /\ ~After(t, IntervalMax)
  <2>1. t.s \in Int /\ t.s > IntervalMin.s /\ t.s < IntervalMax.s
    BY <1>1, <1>4
  <2> QED BY <1>1, <2>1 DEF Before, After
<1> QED BY <1>1, <1>2, <1>3, <1>4

(* A group interval whose milliseconds are less than a second is within the *)
(* limits, and the configured one if that is.                               *)
LEMMA IntervalAsRead ==
  ASSUME NEW f \in Files, NEW key \in IntervalKeys, Has(f.jObj, key),
         IntervalComplete(f.jObj, key), f.jObj[key]["msec"] \in 0..(MsPerSec - 1),
         NEW default, NEW v, v = GroupInterval(f.jObj, key, default)
  PROVE  LET c  == f.jObj[key]
             ms == c["sec"] * MsPerSec + c["msec"]
         IN /\ InMs(v) \in InMs(IntervalMin)..InMs(IntervalMax)
            /\ ms \in InMs(IntervalMin)..InMs(IntervalMax) => InMs(v) = ms
<1> DEFINE c == f.jObj[key]
           t == [s |-> c["sec"], ms |-> Unsigned(c, "msec")]
           ms == c["sec"] * MsPerSec + c["msec"]
           lo == InMs(IntervalMin)
           hi == InMs(IntervalMax)
<1>1. /\ UIntMod \in Nat /\ MsPerSec \in Nat /\ MsPerSec <= UIntMod
      /\ IntervalMin \in Time /\ IntervalMax \in Time
      /\ Normal(IntervalMin) /\ Normal(IntervalMax) /\ ~After(IntervalMin, IntervalMax)
  BY TimeAssumption, LimitsAssumption
<1>2. Has(c, "sec") /\ Has(c, "msec") /\ c["sec"] \in Int
  <2>1. {"sec", "msec"} \subseteq DOMAIN c
    BY DEF IntervalComplete, Has
  <2> QED BY <2>1, FilesAssumption DEF Has
<1>3. Unsigned(c, "msec") = c["msec"]
  <2>1. c["msec"] \in Nat /\ c["msec"] < UIntMod
    BY <1>1
  <2> QED BY <1>1, <1>2, <2>1, SmallIsKept DEF Unsigned
<1>4. t.s \in Int /\ t.ms \in 0..(MsPerSec - 1) /\ InMs(t) = ms
  BY <1>2, <1>3 DEF InMs
<1>5. lo \in Int /\ hi \in Int /\ lo <= hi
  <2>1. IntervalMin.s \in Int /\ IntervalMin.ms \in 0..(MsPerSec - 1)
    BY <1>1 DEF Time, Normal
  <2> QED BY <1>1, <2>1, IntervalsOrdered
<1> HIDE DEF t
<1>6. ms \in Int /\ (Before(t, IntervalMin) <=> ms < lo) /\ (After(t, IntervalMax) <=> ms > hi)
  BY <1>1, <1>4, IntervalsOrdered
<1>7. v = IF Before(t, IntervalMin) THEN IntervalMin
          ELSE IF After(t, IntervalMax) THEN IntervalMax ELSE t
  BY DEF GroupInterval, t
<1> HIDE DEF c, ms, lo, hi
<1>8. InMs(v) = IF ms < lo THEN lo ELSE IF ms > hi THEN hi ELSE ms
  BY <1>4, <1>6, <1>7 DEF lo, hi
<1>9. InMs(v) \in lo..hi /\ (ms \in lo..hi => InMs(v) = ms)
  BY <1>5, <1>6, <1>8
<1> QED BY <1>9 DEF c, ms, lo, hi

(* A group interval of the file, whatever its numbers are.                  *)
LEMMA IntervalOfAnyNumbers ==
  ASSUME NEW f \in Files, NEW key \in IntervalKeys, Has(f.jObj, key),
         IntervalComplete(f.jObj, key),
         NEW default, NEW v, v = GroupInterval(f.jObj, key, default)
  PROVE  LET c == f.jObj[key]
         IN /\ ~Before(v, IntervalMin) /\ ~After(v, IntervalMax)
            /\ c["sec"] \in (IntervalMin.s + 1)..(IntervalMax.s - 1) =>
                  v = [s |-> c["sec"], ms |-> c["msec"] % UIntMod]
<1> DEFINE c == f.jObj[key]
           t == [s |-> c["sec"], ms |-> Unsigned(c, "msec")]
<1>1. Unsigned(c, "msec") = c["msec"] % UIntMod
  BY DEF IntervalComplete, Has, Unsigned
<1>2. v = IF Before(t, IntervalMin) THEN IntervalMin
          ELSE IF After(t, IntervalMax) THEN IntervalMax ELSE t
  BY DEF GroupInterval
<1>3. t.s = c["sec"] /\ t = [s |-> c["sec"], ms |-> c["msec"] % UIntMod]
  BY <1>1
<1> HIDE DEF t, c
<1>4. /\ ~Before(v, IntervalMin) /\ ~After(v, IntervalMax)
      /\ t.s \in (IntervalMin.s + 1)..(IntervalMax.s - 1) => v = t
  BY <1>2, LimitedByOrder
<1> QED BY <1>3, <1>4 DEF c

(* Number of slots: not zero, unless no process may be started at all.      *)
LEMMA SlotsAsConfigured ==
  ASSUME NEW f \in Files, NEW limit \in RLimits, limit # 0,
         NEW v, v = ParallelInstances(f.jObj, limit)
  PROVE  v >= 1 /\ (Has(f.jObj, "mqtt_msg_parallel_instances") => v <= limit)
<1> DEFINE key == "mqtt_msg_parallel_instances"
           n   == Unsigned(f.jObj, key)
<1>1. n \in Nat
  BY UnsignedIsNatural DEF NumberKeys
<1>2. limit \in Nat /\ Default.parallelInstances \in Nat \ {0}
  BY LimitsAssumption, FilesAssumption
<1>3. v = IF ~Has(f.jObj, key) THEN Default.parallelInstances
          ELSE IF limit < n THEN limit ELSE IF n = 0 THEN 1 ELSE n
  BY DEF ParallelInstances, MinParallel
<1> HIDE DEF n
<1> QED BY <1>1, <1>2, <1>3

(* What a loaded configuration gives the rest of the hub: SettingsLimited   *)
(* holds whatever numbers the file contains, intervals whose milliseconds   *)
(* wrap and timeouts of lights that replace those of cars included.         *)
THEOREM SettingsCorrect == Spec => []SettingsLimited
<1>1. LoadInv => SettingsLimited
  <2> SUFFICES ASSUME LoadInv, Loaded PROVE SettingsLimited
    BY DEF SettingsLimited
  <2>0. /\ file \in Files /\ rlimit \in RLimits
        /\ Complete(file) /\ instance = create(file, rlimit)
    BY DEF LoadInv
  <2>1. rlimit # 0 =>
           /\ instance.parallelInstances >= 1
           /\ Has(file.jObj, "mqtt_msg_parallel_instances") => instance.parallelInstances <= rlimit
    <3>1. instance.parallelInstances = ParallelInstances(file.jObj, rlimit)
      BY <2>0 DEF create
    <3> QED BY <2>0, <3>1, SlotsAsConfigured
  <2>2. AsConfigured(instance.operationTimeout, TimeoutKey, TimeoutLimits)
    <3>1. instance.operationTimeout =
             IF Has(file.jObj, TimeoutKey)
             THEN Clamp(Unsigned(file.jObj, TimeoutKey), TimeoutLimits)
             ELSE Default.operationTimeout
      BY <2>0 DEF create, OperationTimeout, TimeoutKey
    <3>2. TimeoutKey \in NumberKeys
      BY DEF TimeoutKey, NumberKeys
    <3> QED BY <2>0, <3>1, <3>2, ClampedAsConfigured, LimitsAssumption DEF AsConfigured
  <2>3. ASSUME NEW key \in {"data_processor_store_every_pkt", "data_processor_ligths_store_every_pkt"},
               NEW default \in {Default.storeEvery, Default.storeEveryLights},
               NEW v, v = StoreEvery(file.jObj, key, default)
        PROVE  AsConfigured(v, key, StoreLimits)
    <3>1. key \in NumberKeys
      BY DEF NumberKeys
    <3>2. default \in StoreLimits.min..StoreLimits.max
      BY LimitsAssumption
    <3> QED BY <2>0, <2>3, <3>1, <3>2, ClampedAsConfigured DEF AsConfigured, StoreEvery
  <2>4. /\ instance.storeEvery =
              StoreEvery(file.jObj, "data_processor_store_every_pkt", Default.storeEvery)
        /\ instance.storeEveryLights =
              StoreEvery(file.jObj, "data_processor_ligths_store_every_pkt", Default.storeEveryLights)
    BY <2>0 DEF create
  <2>5. ASSUME NEW key \in IntervalKeys, NEW default, NEW v,
               v = GroupInterval(file.jObj, key, default)
        PROVE  IntervalAsConfigured(v, key)
    <3>1. IntervalComplete(file.jObj, key)
      BY <2>0 DEF Complete, IntervalKeys
    <3> QED BY <2>0, <2>5, <3>1, IntervalAsRead, IntervalOfAnyNumbers DEF IntervalAsConfigured
  <2>6. /\ instance.groupInterval =
              GroupInterval(file.jObj, "data_processos_group_intervel", Default.groupInterval)
        /\ instance.groupIntervalLights =
              GroupInterval(file.jObj, "data_lights_group_intervel", Default.groupIntervalLights)
    BY <2>0 DEF create
  <2>7. /\ IntervalAsConfigured(instance.groupInterval, "data_processos_group_intervel")
        /\ IntervalAsConfigured(instance.groupIntervalLights, "data_lights_group_intervel")
    BY <2>5, <2>6 DEF IntervalKeys
  <2>8. /\ AsConfigured(instance.storeEvery, "data_processor_store_every_pkt", StoreLimits)
        /\ AsConfigured(instance.storeEveryLights, "data_processor_ligths_store_every_pkt", StoreLimits)
    BY <2>3, <2>4
  <2>9. instance.operationTimeoutLights = Default.operationTimeoutLights
    BY <2>0 DEF create
  <2> QED BY <2>1, <2>2, <2>7, <2>8, <2>9 DEF SettingsLimited
<1> QED BY <1>1, LoadInit, LoadNext, PTL DEF Spec


-----------------------------------------------------------------------------
(* A set of indices that holds the first of 0..N, and with each the next,   *)
(* holds them all.                                                          *)
LEMMA Climbs ==
  ASSUME NEW N \in Nat, NEW S, 0 \in S,
         \A i \in 1..N : i - 1 \in S => i \in S
  PROVE  0..N \subseteq S
<1> SUFFICES ASSUME (0..N) \ S # {} PROVE FALSE
  OBVIOUS
<1> DEFINE T == (0..N) \ S
<1>1. T \in SUBSET Nat /\ T # {}
  OBVIOUS
<1>2. PICK x \in T : \A y \in T : ~(<<y, x>> \in OpToRel(<, Nat))
  BY <1>1, NatLessThanWellFounded, WFMin
<1>3. \A y \in T : ~(y < x)
  BY <1>1, <1>2, Zenon DEF OpToRel
<1>4. x \in 1..N
  OBVIOUS
<1>5. x - 1 \in S
  <2>1. x - 1 \in 0..N /\ x - 1 < x
    BY <1>4
  <2> QED BY <1>3, <2>1
<1> QED BY <1>4, <1>5

(* list is what the loop over objects has made before each object.          *)
Collects(list, objects, n) ==
    /\ list[0] = <<>>
    /\ \A i \in 1..n :
          list[i] = IF Accepted(objects[i]) THEN Append(list[i - 1], ParamsItem(objects[i]))
                    ELSE list[i - 1]

(* The loop gets to its end, whatever the objects are.                      *)
LEMMA LoopEnds ==
  ASSUME NEW objects, Len(objects) \in Nat
  PROVE  \E list : list = [i \in 0..Len(objects) |->
                              IF i = 0 THEN <<>>
                              ELSE IF Accepted(objects[i])
                                   THEN Append(list[i - 1], ParamsItem(objects[i]))
                                   ELSE list[i - 1]]
<1> DEFINE N == Len(objects)
           step(list, i) == IF Accepted(objects[i])
                            THEN Append(list[i - 1], ParamsItem(objects[i])) ELSE list[i - 1]
           reach == {n \in 0..N : \E list : Collects(list, objects, n)}
<1>1. 0 \in reach
  <2>1. Collects([i \in 0..0 |-> <<>>], objects, 0)
    BY DEF Collects
  <2> QED BY <2>1
<1>2. ASSUME NEW n \in 1..N, n - 1 \in reach
      PROVE  n \in reach
  <2>1. PICK old : Collects(old, objects, n - 1)
    BY <1>2
  <2> DEFINE new == [i \in 0..n |-> IF i < n THEN old[i] ELSE step(old, n)]
  <2>2. new[0] = <<>>
    BY <2>1 DEF Collects
  <2>3. ASSUME NEW i \in 1..n PROVE new[i] = step(new, i)
    <3>1. new[i - 1] = old[i - 1]
      OBVIOUS
    <3>2. CASE i < n
      <4>1. new[i] = old[i] /\ old[i] = step(old, i)
        BY <2>1, <3>2 DEF Collects
      <4> QED BY <3>1, <4>1
    <3>3. CASE i = n
      <4>1. new[i] = step(old, i)
        BY <3>3
      <4> QED BY <3>1, <4>1
    <3> QED BY <3>2, <3>3
  <2> HIDE DEF new
  <2>4. Collects(new, objects, n)
    BY <2>2, <2>3 DEF Collects
  <2> QED BY <2>4
<1>3. N \in reach
  <2> HIDE DEF reach
  <2>1. 0..N \subseteq reach
    BY <1>1, <1>2, Climbs
  <2> QED BY <2>1
<1>4. PICK list : Collects(list, objects, N)
  BY <1>3
<1> DEFINE trim == [i \in 0..N |-> list[i]]
<1>5. trim = [i \in 0..N |-> IF i = 0 THEN <<>> ELSE step(trim, i)]
  BY <1>4 DEF Collects
<1> QED BY <1>5


(* The loop puts the entries of accepted objects in the list, and no others. *)
LEMMA ParamsAccepted ==
  ASSUME NEW objects, Len(objects) \in Nat
  PROVE  LET Items == {ParamsItem(objects[j]) : j \in {k \in 1..Len(objects) : Accepted(objects[k])}}
         IN ObjMqttParams(objects) \in Seq(Items)
<1> DEFINE N == Len(objects)
           Items == {ParamsItem(objects[j]) : j \in {k \in 1..N : Accepted(objects[k])}}
           list == CHOOSE l : l = [i \in 0..N |->
                                      IF i = 0 THEN <<>>
                                      ELSE IF Accepted(objects[i])
                                           THEN Append(l[i - 1], ParamsItem(objects[i]))
                                           ELSE l[i - 1]]
           good == {i \in 0..N : list[i] \in Seq(Items)}
<1>1. ObjMqttParams(objects) = list[N]
  BY DEF ObjMqttParams
<1>2. list = [i \in 0..N |-> IF i = 0 THEN <<>>
                            ELSE IF Accepted(objects[i])
                                 THEN Append(list[i - 1], ParamsItem(objects[i]))
                                 ELSE list[i - 1]]
  BY LoopEnds
<1> HIDE DEF list
<1>2a. \A i \in 0..N : list[i] = IF i = 0 THEN <<>>
                                 ELSE IF Accepted(objects[i])
                                      THEN Append(list[i - 1], ParamsItem(objects[i]))
                                      ELSE list[i - 1]
  BY <1>2, Zenon
<1>3. 0 \in good
  <2>1. list[0] = <<>>
    BY <1>2a
  <2>2. 0 \in 0..N
    OBVIOUS
  <2> HIDE DEF Items, N
  <2>3. <<>> \in Seq(Items)
    BY EmptySeq
  <2> QED BY <2>1, <2>2, <2>3
<1>4. ASSUME NEW i \in 1..N, i - 1 \in good
      PROVE  i \in good
  <2>1. list[i] = IF Accepted(objects[i]) THEN Append(list[i - 1], ParamsItem(objects[i]))
                  ELSE list[i - 1]
    BY <1>2a
  <2>2. Accepted(objects[i]) => ParamsItem(objects[i]) \in Items
    OBVIOUS
  <2>3. list[i - 1] \in Seq(Items)
    BY <1>4
  <2> HIDE DEF Items
  <2>4. list[i] \in Seq(Items)
    BY <2>1, <2>2, <2>3, AppendProperties
  <2> QED BY <2>4
<1>5. N \in good
  <2> HIDE DEF good
  <2>1. 0..N \subseteq good
    BY <1>3, <1>4, Climbs
  <2> QED BY <2>1
<1> QED BY <1>1, <1>5

(* A non-empty set of indices has a least one, and Min returns it.          *)
LEMMA MinIsLeast ==
  ASSUME NEW T \in SUBSET Nat, T # {}
  PROVE  Min(T) \in T /\ \A y \in T : Min(T) <= y
<1>1. PICK x \in T : \A y \in T : ~(<<y, x>> \in OpToRel(<, Nat))
  BY NatLessThanWellFounded, WFMin
<1>2. \A y \in T : x <= y
  <2>1. \A y \in T : ~(y < x)
    BY <1>1, Zenon DEF OpToRel
  <2> QED BY <2>1
<1> QED BY <1>2 DEF Min

(* The data processor and the child find the same entry for an object, a    *)
(* lights entry has a port, and the way back from the mqtt id is the        *)
(* inverse: LookupsAgree holds for every list of objects.                   *)
THEOREM LookupsCorrect == Spec => []LookupsAgree
<1>1. LoadInv => LookupsAgree
  <2> SUFFICES ASSUME LoadInv, Loaded PROVE LookupsAgree
    BY DEF LookupsAgree
  <2> DEFINE ps == instance.objMqttParams
             objs == file.objects
             Items == {ParamsItem(objs[j]) : j \in {k \in 1..Len(objs) : Accepted(objs[k])}}
  <2>1. ps \in Seq(Items)
    <3>1. file \in Files /\ instance = create(file, rlimit)
      BY DEF LoadInv
    <3>2. Len(objs) \in Nat
      BY <3>1, FilesAssumption, LenProperties
    <3>3. ps = ObjMqttParams(objs)
      BY <3>1 DEF create
    <3> QED BY <3>2, <3>3, ParamsAccepted
  <2>2. DOMAIN ps = 1..Len(ps) /\ Len(ps) \in Nat /\ \A i \in 1..Len(ps) : ps[i] \in Items
    BY <2>1, LenProperties, ElementOfSeq
  <2>3. \A x \in Items : x.objType = "LIGHTS" => x.rport \in PortLimits.min..PortLimits.max
    BY DEF ParamsItem, Accepted, ObjType
  <2> HIDE DEF Items
  <2> SUFFICES ASSUME NEW i \in 1..Len(ps)
               PROVE  LET id == ps[i].sbcObjId
                          p  == getMqttParamsForObjId(id)
                      IN /\ p.sbcObjId = id /\ getObjTypeForObjId(id) = p.objType
                         /\ p.objType = "LIGHTS" => p.rport \in PortLimits.min..PortLimits.max
                         /\ (\A j, k \in DOMAIN ps : ps[j].deviceId = ps[k].deviceId => j = k)
                               => getSbcIdByMqttId(p.deviceId) = id
    BY <2>2 DEF LookupsAgree
  <2> DEFINE id == ps[i].sbcObjId
             M  == {m \in 1..Len(ps) : ps[m].sbcObjId = id}
             first == FirstWithId(id)
             p  == getMqttParamsForObjId(id)
  <2>4. first = IF M # {} THEN Min(M) ELSE 0
    BY DEF FirstWithId, SelectInSeq
  <2>5. first \in M
    <3>1. M # {} /\ M \in SUBSET Nat
      OBVIOUS
    <3> HIDE DEF M, first
    <3> QED BY <2>4, <3>1, MinIsLeast
  <2>6. first \in 1..Len(ps) /\ ps[first].sbcObjId = id /\ first # 0
    BY <2>5
  <2>7. p = ps[first] /\ getObjTypeForObjId(id) = ps[first].objType
    BY <2>6 DEF getMqttParamsForObjId, getObjTypeForObjId
  <2>8. ASSUME \A j, k \in DOMAIN ps : ps[j].deviceId = ps[k].deviceId => j = k
        PROVE  getSbcIdByMqttId(p.deviceId) = id
    <3> DEFINE dev == ps[first].deviceId
               D == {m \in 1..Len(ps) : ps[m].deviceId = dev}
               back == SelectInSeq(ps, LAMBDA e : e.deviceId = dev)
    <3>1. back = IF D # {} THEN Min(D) ELSE 0
      BY DEF SelectInSeq
    <3>2. D # {} /\ D \in SUBSET Nat
      BY <2>6
    <3>3. \A m \in D : m = first
      BY <2>2, <2>6, <2>8
    <3>4. getSbcIdByMqttId(dev) = IF back = 0 THEN 0 ELSE ps[back].sbcObjId
      BY DEF getSbcIdByMqttId
    <3> HIDE DEF D, back, dev, first
    <3>5. back = first
      BY <3>1, <3>2, <3>3, MinIsLeast
    <3>6. getSbcIdByMqttId(dev) = id
      BY <2>6, <3>4, <3>5
    <3> QED BY <2>7, <3>6 DEF dev
  <2> HIDE DEF first, p
  <2>9. ps[first] \in Items
    BY <2>2, <2>6
  <2>10. p.sbcObjId = id /\ getObjTypeForObjId(id) = p.objType
    BY <2>6, <2>7
  <2>11. p.objType = "LIGHTS" => p.rport \in PortLimits.min..PortLimits.max
    BY <2>3, <2>7, <2>9
  <2> QED BY <2>8, <2>10, <2>11 DEF p
<1> QED BY <1>1, LoadInit, LoadNext, PTL DEF Spec
===============================================================================
