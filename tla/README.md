# Verification of the smart-city hub

TLA+ models of the sbc-platform part of GL-SMARTCITY, centred on **CloudHub**
(`sbc-platform/src/CloudHub`), the daemon that collects the UDP state messages of
cars and traffic lights, groups them per object and stores each group in the cloud
from a forked child process; with them the programs on both sides of it, the cluster
client **IC-Lib** that feeds it, and the **cloud functions** and the **web map** that use what
it stored.  Paths below are relative to `sbc-platform/src`.

## 1. Inventory

### CloudHub

One process, four threads, and one child process per group that is being sent.

| Component | State | Operations | Hard behaviour |
|---|---|---|---|
| `HubConfigManager` | settings, list of objects (id, type, mqtt id, port) | read the file once; look-ups by object id and mqtt id | numbers that wrap to unsigned before they are clamped; settings that are read one after the other; duplicate ids |
| `UdpServer` (thread) | socket, terminate and error flags, pointer to the data processor | receive, stamp with the wall clock, hand on; destructor joins | thread starts before the pointer is assigned; what ends the loop; rounding of the stamp |
| `ClusterDataProcessor` (thread), `ClusterDataGroup`, `ClusterPktTime` | queue of raw packets, open group per object | append, take, open, fill and hand over groups | two-field time arithmetic, a clock that may be set, skipping across group borders, no join |
| `MqttMsgManager` (thread) | `dataQueue`, `internalDataQueue`, `msgInProgress`, `waitChildPid`, lights flag | take and merge, kill late children, clean ended ones, scan and launch | runs against main (childPidMutex), the data processor (loopControlMutex) and the signal handler; `erase` inside an incrementing loop; fork that fails |
| SIGCHLD handler and main's loop (`main.cpp`) | double queue `child_a/b`, `cnt_a/b`, `gSigQueue` | handler reaps and stores pids; main swaps, reports with `signalChildL2`, resets | no lock at all; signal may interrupt any thread, also several at once; signals coalesce; arrays come from `malloc` |
| `MqttMsgInstance` | object, pid, operation timeout | fork, timeout test, SIGKILL, child function | pid used after the child was reaped |
| MQTT publisher in the child (`sbc_mqtt_ciotc.c`) | connection, options | parse options, token, connect, subscribe, publish or loop over commands | retry that ends the process, endless loop of the lights child |

Data flows `UdpServer -> ClusterDataProcessor -> MqttMsgManager -> child`; the end of a
child flows back `kernel -> handler -> double queue -> main -> waitChildPid -> MqttMsgManager`.
The way back is where nothing but the order of plain memory accesses protects the
data, and it decides whether a sending slot is ever free again: it is modelled first.

### Other parts

| Component | State | Operations | Hard behaviour |
|---|---|---|---|
| IC-Lib cluster client (`IC-Lib`) | receive buffer, state of the cluster per type, senders, notifier | register with VWS, receive, filter, parse, pass on to SCS and CloudHub | a detached thread; the buffer is read as a C string; exceptions that end the process; a state that is stored field by field |
| Cloud functions (`gcp/smartcity-func`, Go) | none of their own; `car-locations`, `traffic-lights`, `tl-focused` in the database | one handler per topic or path | events repeated and out of order, calls next to each other, `log.Fatal` and panics in the middle of a loop |
| Web map (`gcp/smartcity/js/index.js`) | attribute of each light, focused light, followed truck, label of the button | callbacks of the database, clicks, timers | timers that fire after the next change, markers that are drawn later than they are added |
| `IC-Lib` `ParkingController` | place and free spots | two HTTP requests | never instantiated by the program |
| `pits/xlgyro_fake` | two sample buffers, transmit buffer | poll 32 samples, write them to a serial port, sleep | one thread, no input, one behaviour |
| `lib/`, `json.hpp`, submodules | | | vendored or not in this repository |

The whole way of a datagram is `VWS -> IC-Lib -> CloudHub -> Pub/Sub -> CarsPubSub -> database ->
tlSwitcher -> database -> controller -> lights child of CloudHub`, and `database -> map` beside it.

### What makes each component correct

* Manager: never more children than slots, never two for one object, never an older
  group after a newer one, the newest group never lost, every slot freed again, every
  group of a car sent or superseded, at most one lights child.
* Handler and main: every child reaped, no end of a child lost between `waitpid` and the
  manager, the arrays never overrun, never a signal to a process that is not a child.
* Data processor: packets of an object stay in order and are accounted for exactly once,
  groups keep their interval whatever the clock does, every packet is processed.
* Configuration: for every input what comes out is known, within its limits where the code keeps
  them, and all look-ups of an object agree.
* Child: success only for what was stored, no session left open, commands in order and for the
  light they name, an end of its own.
* Start and end: no packet for a null processor, no thread left behind, no deaf process.
* Cluster client: what came before never spoils a good datagram, what is accepted reaches both
  receivers, the receiver listens again.
* Cloud functions: every report of a vehicle near a light gets it a command for green, no change goes
  without its command; what a dead call had to do and what the cloud refused is not promised.
* Map: lights come to rest at what was heard last, the button offers what fits.

The hazards behind these are listed, each at its line, in `PROJECT.json`.

## 2. Modules

| Module | Models | Composes |
|---|---|---|
| `MsgManager` | manager, instances, handler, main's loop, kernel | instantiates `SendSlots` |
| `SignalOverlap` | `MsgManager` with a history variable: has anybody touched the double queue while a handler was between its choice of a queue and its last write? | extends `MsgManager` |
| `SendSlots` | abstract promise of the manager | |
| `PktTime` | `ClusterPktTime`, time stamp | |
| `DataProcessor` | packet queue, groups | extends `PktTime` |
| `HubPipeline` | from the datagram to the child | `DataProcessor` with `SendSlots` |
| `HubConfig` | configuration manager | extends `PktTime` |
| `HubLifecycle` | start, UDP server, shutdown | |
| `MqttPublish` | the child process and its connection | |
| `IcCluster` | main, receiver thread and callback of IC-Lib | |
| `CloudFunctions` | the four cloud functions and the database between them | |
| `MapPage` | lights and follow button of the web map | |
| `MsgManagerProofs`, `HubPipelineProofs`, `HubConfigProofs`, `HubLifecycleProofs`, `MqttPublishProofs`, `IcClusterProofs`, `CloudFunctionsProofs`, `MapPageProofs` | theorems about the module of that name | each extends it (`MsgManagerProofs` by way of `SignalOverlap`) |
| `MCMsgManager`, `MCSignalOverlap`, `MCHubPipeline`, `MCHubConfig`, `MCMqttPublish`, `MCIcCluster`, `MCCloudFunctions`, `MCMapPage` | instances for TLC | |

Definitions whose name has a suffix after an underscore and whose comment begins with
"Mutant" are deliberate faults. No specification uses them; each is a variant of the
definition that follows it, and shows that a property notices the fault.

### MsgManager

State is named as in the code. A group is its object and its number among the
groups of that object; `produced` and `sent` are history variables (newest group made,
group last given to a child). An action is what one thread does between two accesses
to shared state:

* `addToDataQueue`: the data processor under `loopControlMutex`.
* `TakeDataQueue`, `MergeGroup`: `moveDataQueueToInternal`, the part under the mutex and
  one turn of the loop after it.
* `terminateHangupInstances`: one step; nothing it reads is shared, and a child that ends
  between two of its kills gives the same result in another order.
* `CleanAllSlots`, `CleanSlot`: `cleanCompletedMsgInstances` under `childPidMutex`, slot by
  slot. The lock is `mgrPc = "clean" /\ lp > 1` together with the atomicity of the first slot;
  the handler runs between the slots, main waits.
* `ScanEnd`, `ScanSkip`, `ScanForkFail`, `ScanLaunch`: the scan in `serverLoop`. After `erase`
  the loop's `it++` steps over an element; when the last element was erased the iterator is
  `end()` and, in libstdc++'s circular list, the increment yields the first element
  (`AfterErase`). This is undefined in C++ and modelled as the build behaves.
* `MainSwap`, `MainRead`, `MainPick`, `signalChildL2`, `MainReset`: main's loop. The pid is read from the
  array before `signalChildL2` waits for the mutex, so a handler may run between the two.
* `sigchld_hdl(t)`: the handler, one step per access (`HandlerWaitpid`, `HandlerPickQueue`,
  `HandlerReadCount`, `HandlerStore`, `HandlerSelectCount`, `HandlerWriteCount`). While thread
  `t` is in it, `t` takes no step of its own (`Free`). `HandlerThreads` says which threads the
  kernel may choose.
* `SigDeliver`, `ChildExit`, `OperationTimeout`, `ForeignFork`: kernel, children, time. One
  pending bit stands for any number of SIGCHLDs, as in POSIX.

`HeapJunk` is the content of memory from `malloc` and `new[]`. `PidReuse` chooses whether
the kernel may give a reaped pid away again.

Left out: exit codes (only logged), output (also from the handler), payloads, memory.

### SignalOverlap

The double queue has no lock; it works as long as main does not swap, and no second thread enters the
handler, while one is between `main.cpp:45` (which queue?) and `main.cpp:71` (its count is written).
In main itself the swap cannot come in between: the handler runs to its end first. But SIGCHLD is
not blocked in the other threads, so the code does not guarantee this. Therefore no property assumes where the
handler runs: `overlapped` remembers whether it has ever happened, `ExitKept` and `RoomKept` promise
that no end of a child is lost and no entry dropped before, for every choice of `HandlerThreads`, and the
run `MsgManager_leak` shows what an overlap can do.

### DataProcessor and PktTime

`Stamp` is the rounding in `readUdpPkt` and `ClockStamps` what it makes of any reading of the clock; `Plus`, `After`, `Before` are the operators of
`ClusterPktTime` with the width of `mseconds_`. `ReceivePkt` is `readUdpPkt` with
`addDataToQueue` (one mutex), `DropPkt`, `AddToGroup` and `SendGroup` are the three outcomes of
`serverLoop` for a packet. An object whose group is not in the map has a group without items,
which is what the next packet would create. The wall clock may be set, back as well as forth: a
packet gets any stamp.

### HubPipeline

`DataProcessor` as it is, composed with `SendSlots`, the promise that `MsgManager` is shown to keep
(run `MsgManager_races`): a step of the data processor that hands a group to `addToDataQueue` is an
`Offer`. The composition uses the promise and not the manager itself, whose threads and signals
would multiply every state; fairness of `Launch` and `Done` is what `GroupLaunched` and `SlotFreed` show
for the manager. With one slot only `OverdueGroupSent` fails: the lights child never ends and no
car is ever sent. Two slots are the smallest number with which the hub works. `SlotFreed` was
shown with the handler in main; if another thread runs it an overlap may keep a slot for ever
(`MsgManager_leak`), and then the fairness of `Done`, and `OverdueGroupSent` with it, is lost.

### HubConfig

A file is the set of keys it has with their numbers, and for texts whether they are usable.
`Load` is `HubConfigManager::create` as a whole: it runs before there is a second thread.
Settings are operators named after the member they fill. `ObjMqttParams` is the loop over the objects,
a function of the number of objects that were looked at. `LimitsAssumption` says of the limits and
defaults what the `#define`s satisfy, `FilesAssumption` of a file what `toInt` and `toArray` return.

`SettingsLimited` says what comes out for every number, and where the limits do not hold. The
milliseconds of an interval are unsigned and compared only if the seconds are equal to those of a limit:
`{"sec": 5, "msec": -1}` is accepted as 2^32-1 milliseconds (`hubConfigManager.cpp:141-155`), and so is 1500.
The property bounds an interval in time if its milliseconds are in 0..999, and otherwise says that the
wrapped value is kept. `TimeoutKey` names the key whose value the timeout of cars holds: the one for lights
if it is there.

### HubLifecycle

`main` from the creation of the manager to its end, the life of the three threads, and
`UdpServer` with its error state. The clock may be unreadable (the manager is not created), a constructor of
`std::thread` may throw, `bind` and `sigaction` may fail, and a destructor that meets a joinable thread ends the process.

### MqttPublish

The child from `childFunction` to `exit`, one action per call that can fail (`Connect`,
`Subscribe`, `PublishMessage`, `WaitForCompletion`, `Disconnect`) and one per outcome of
`MQTTClient_receive` in the endless loop of a lights child. `connected` is what the paho client
believes, `link` what is true; the calls are modelled from how `sbc_mqtt_ciotc.c` uses them and
from the vendored library. Options are the lengths of their texts, with the real buffer sizes.
`cfgMutexHeld` is the state of the configuration's mutex at the moment of the fork: a child that
was forked while the data thread held it waits for ever. In `MsgManager` the child is any process
that may end at some time or never, which covers every behaviour of this module.

### IcCluster

`mainPc` is `main()`, `rpc` the detached thread, which runs asio's loop and in it the callback. The
actions of the callback are its calls, in their order: `filter_pkt` (with `state_parse`), `SendScs`,
`SendHub`, `Notify`, `flushInternalBuffer`. A datagram is a number, a length and what `filter_pkt` looks
at; its text is its number in each cell of the buffer, so `TextIsDatagram` says that the C string in
the buffer is the datagram and nothing else. `state[t]` holds, for each field of the state of type
`t`, the number of the datagram it is from. What ends the process: an exception in the thread
(nothing catches it for good; `UdpMsgSender::send` builds its socket outside its `try`, `SenderThrows`)
and an assertion: `operator[]` of a constant `json` asserts that the key exists, and no build type of `CMakeLists.txt` defines `NDEBUG`.

### CloudFunctions

An event that waits and a call that runs are records with what is left to do and the write from
outside they go back to (`by`); both are bags. The platform starts a call for an event at least once, in any
order. A call that dies (`log.Fatal`, a conversion that panics) is not repeated.

* `HubPublishes`, `fireBaseWrite`: a message is what `json.Unmarshal` leaves of it, so a field of another type
  is zero (`NoId`, the empty id) and the loop goes on. A record is written with its time, so any new message
  changes the database and makes an event, also from the same place.
* `LocationCalls`, `PhoneMoves`: the delta of an event may hold the whole location or only a part of it; the
  conversions are unguarded, so the call for a part panics (`PartPanics`) before a light is looked at.
* `SwitchLight`, `FocusLight`, `FocusPanics`: `tlSwitcher` and `fireBaseTList` have the same body and are one. A write
  that does not change the database makes no event: a light that is green already gets no command.
* `sendCommand`: the cloud takes the command or one of three calls returns an error, which is only logged;
  the loop goes on either way.

The history variables say what became of things: `commanded` and `failed` hold lights whose present state was
sent to the hub or refused, and a light leaves both when it is written; `answered` and `lost` hold the same per
report. So a command of an earlier time counts for nothing later. A light that is green although its
command was refused is found green by the next report and not commanded again: `GreenForNear` says
so, since `answered` includes "found green". Distances are a table; in range means more than 0 and less
than `MAX_DIST`, as in the code, so a vehicle at the very place of a light does not switch it.

### MapPage

An action is one callback. `Coloured` is `changeTrafficLightColor` with the yellow phase, `timers` the
queue of its 400 ms timers, which all have the same duration and so fire in order. A marker has a
`div` only once the map calls `draw()` (`drawn`); a change before that throws in the callback and
skips what follows in it (`Reached`). `burst` counts changes since an element was last at rest.

## 3. Runs

| Run | Instance | Shows |
|---|---|---|
| `MsgManager_slots` | car + lights, 2 slots, 2 groups each, 3 pids, handler in main | type and index bounds; `SlotsExclusive`; `GroupsInOrder`; `NewestKept`; `ZombieNoticed` |
| `MsgManager_races` | car + 2 lights, 2 slots, 1 group each, 2 pids, handler in main and data thread at once | `ExitKept`, `RoomKept` (no end of a child is lost without an overlap); `LiveOwned`, `OneLightsInstance`, refinement of `SendSlots` |
| `MsgManager_launch` | 2 cars, 1 slot, 1 group each, pids reused | `GroupLaunched`: both cars are served; `SlotFreed` |
| `MsgManager_leak` (violation) | 1 car, handler in main and data thread | a slot that is never freed after an overlap |
| `HubPipeline_groups` | car + lights, 4 packets with any stamps, 2 slots | order, accounting, every k-th packet of a group, interval; `CloudInOrder`; `OverdueGroupSent` |
| `HubConfig_settings` | all files below | `SettingsLimited`, `LookupsAgree` |
| `HubLifecycle_ends` | 3 datagrams | start-up race, joins, no deaf process |
| `MqttPublish_child` | car or lights, lengths around both limits, 2 commands | `SuccessMeansStored`, `ExitsDisconnected`, `TopicWhole`, `CommandsInOrder`, `CarChildEnds` |
| `MqttPublish_deaf` (violation) | one child, 1 command | a lights child that has lost its connection neither connects again nor ends |
| `IcCluster_receiver` | 3 datagrams of 16 kinds, buffer of 3 cells | `UsableSurvives`, `PassedOn`, `StateNewestFirst`, `ListensAgain` |
| `CloudFunctions_lights` | 3 lights, 1 vehicle, 1 phone, 3 times, 2 writes from outside, 1 event repeated | `FocusedSwitched`, `StateCommanded`, `GreenForNear` |
| `MapPage_clicks` | 2 lights, 2 trucks, up to 2 overlapping changes, clicks | `LightsSettle`, `UnfollowOffered` |

**Why the bounds are enough.** Two slots and two objects are the smallest instance in which
two children end together, share the double queue and race in the handler; three pids for
two slots let a slot be used twice, so stale entries of the arrays meet a new child. Two
groups per object are needed to replace a waiting group and to relaunch an object. In
`MsgManager_races` a second lights object takes the place of the second group: what superseded
groups do to the refinement, and overlaps with slots used more than once, are left to the theorems
`SlotsRefined`, `ExitsCorrect` and `RoomCorrect`. `MsgManager_launch` has one slot, so its cars compete for it, but a
scan there launches one group at most: the erase inside the loop and a failing fork behind another launch occur
in `MsgManager_slots` and `MsgManager_races`, whose safety properties are about them, and starvation by newer groups of
another car or by lights has no run (with two slots, lights and liveness the graph has millions of
states). Time has two
milliseconds per second, two nanoseconds per millisecond and a modulus of eight, so every
rounding, carry and comparison case occurs; the seconds only have to pass one interval. Four
packets fill a group with a stored, a skipped and a stored one and close it, or make three groups
of which the manager may skip one.
The files of `HubConfig` combine all numeric keys in every way (absent, negative, zero, inside, too
large), all pairs of intervals, and all pairs of objects with equal or different ids; these
three groups of settings are read independently of each other. The lengths in `MqttPublish` lie on
both sides of the limits of client id (212, 213) and topic (241). The datagrams of `IcCluster` are
shorter than, as long as and longer than the buffer, empty, and each lacks at most one thing; three
of them are needed to see what an earlier one left behind and a field older than its neighbours.
In `CloudFunctions` one position is near two lights, the other at the place of one and just out
of range of the other; the third light is always out of range, and one light has no id. A message with two
records, the first with an empty id, and two messages from one place that differ in their time occur; two
writes and a repeated event make calls overtake each other. In
`MapPage` the focused light may change twice while its timers run. The database has green and red
there; with yellow (`DbState = {0, 1, 2}`, six million states) the result is the same.

**Symmetry** is used over pids, and in `MapPage` over lights and over trucks, in runs without
liveness: they are compared for equality and never ordered. `NoPid`, `HeapJunk`, `Main` and `Unknown`
are not part of it.

**Deadlock** is checked everywhere but in `HubConfig` (loading is one step), `HubLifecycle`,
`MqttPublish` and `IcCluster` (the program ends) and `CloudFunctions` (all events may be done).

**Fairness.** Threads are scheduled (weak fairness of each thread's loop and of each running
handler), a pending signal is delivered, and time passes so that an operation timeout is
reached. Nothing is assumed of a child: it may run for ever. Two assumptions are strong:
`fork` does not fail every time a launch is tried, and main obtains `childPidMutex` although
the manager takes it in each of its turns; between two turns the manager sleeps 200 ms without
it (`mqttMsgManager.cpp`, end of `serverLoop`). Datagrams, socket errors, commands and
acknowledgements are never assumed. The child of `MqttPublish` is scheduled and its library calls
return, since all of them have timeouts; the refusal of a connection is not assumed to end. The
receiver thread of `IcCluster` is scheduled; the platform of `CloudFunctions` delivers events and lets
calls run, which is what it promises, but databases and calls may fail at any time.

**The violations** are disagreements between the code and its documentation; `PROJECT.json`
quotes both.

* The handler reads `gSigQueue` twice. With the handler in main (which the passing runs
  show to be safe, `ExitKept`) nothing is lost; but SIGCHLD is not blocked in the other threads, and
  in any of them main's swap may fall between the two reads.
* The loop of a lights child takes a lost connection for silence. The token it connects with is
  good for an hour, and the manager neither kills a lights child nor starts a second one.

Further disagreements that were seen while modelling and have no run:
an instance keeps the pid of a child that the handler has reaped until it is cleaned, and
`terminateHangupInstances` runs before the cleaning, so the timeout's SIGKILL may go to whatever process
has the pid by then (`mqttMsgInstance.cpp:75`; `ForeignFork` models the reuse); `mqtt_ligths_operation_timeout`
is stored in the member for cars (`hubConfigManager.cpp:121`), so with the shipped `conf/config.json` (50
and 2) a car's child is killed after 2 seconds (`TimeoutKey` in `SettingsLimited`); messages handed out by `MQTTClient_receive` are never freed, and the lights child
never ends (`sbc_mqtt_ciotc.c:466`);
after a failed `fork` the group stays queued although the message says it will be dropped
(`mqttMsgManager.cpp:286`, modelled by `ScanForkFail`); the skip counter restarts with every group,
so more than "every 3 packet" of an object may be stored (`clusterDataGroup.cpp:51`); the
value of `port` is read from another key and then not used (`hubConfigManager.cpp:232`,
`main.cpp:133`, modelled by `UdpServerPort`); `operator+=` carries one second at most, so an interval
of `{"sec": 0, "msec": 1500}` ends a group early (`clusterRawPkt.h:31`; `IntervalKept` is checked for
intervals whose milliseconds are less than a second); `recv` returning 0, an empty datagram, is
taken for a closed socket and ends the hub (`udpServer.cpp:146`, modelled by `ReadEmpty`).

What the models of the other programs show about them, without a document that says otherwise:

* IC-Lib: a datagram without `state` or `type` ends the process, although `state_parse` is
  written to return for it (`cluster.cpp:126`, `FilterThrows`); the first datagram is read in a
  buffer nobody cleared, and one of 1024 bytes without an end (`UsableSurvives` excludes both);
  the cluster registers before it listens, so what VWS sends meanwhile is lost (`VwsSend`); if `open`
  fails the process stays, deaf (`OpenFails`).
* Cloud functions: nothing compares time stamps, so `car-locations` may go back to an older
  place when messages overtake each other, and the last command a light gets need not be the last
  state in the database; a change of a light that does not touch `state` kills the controller's
  call and the commands of the same event with it (`ControlPanics`).
* Map: three changes of a light within 400 ms can leave it at the second (`LightsSettle` promises
  two); a timer of the light that was focused before paints the big light of the new one; a change
  that comes before the marker is drawn is lost; a click on another truck within 100 ms of "follow"
  leaves "UNFOLLOW ME" although nothing is followed.

## 4. Proofs

Every safety property and every action property that a passing run checks, and the refinement, is a
theorem. Each holds for every value of the constants that the named assumptions of
the modules allow (`ConstAssumption`, `TimeAssumption`, `LimitsAssumption`...; TLC evaluates them on every
run): any number of objects, lights, slots, pids, handler threads, packets, datagrams, commands, markers
and vehicles, any content of uninitialised memory. The inductive invariants were checked by TLC on the
instances of the runs before they were proved.

The proofs have one form. An invariant is strengthened until a step keeps it; there is one
lemma per action that can disturb it, a lemma for steps that leave its variables alone, one that puts
them together over `Next`, and the theorem.

| Module | Inductive invariants | Theorems |
|---|---|---|
| `MsgManagerProofs` | `TypeInv`, `OrderInv`, `SlotInv`, `OwnInv`, `ReportInv` | `TypeCorrect`, `OrderCorrect`, `NewestCorrect`, `LightsCorrect`, `SlotsRefined`, `SlotsCorrect`*, `LiveCorrect`*, `ZombieCorrect`, `ExitsCorrect`*, `RoomCorrect`* |
| `HubPipelineProofs` | `DataInv`, `AccountInv`, `TimeInv`, `SentInv` | `GroupTypeCorrect`, `PacketsCorrect`, `EveryKthCorrect`, `IntervalCorrect`+, `ProcessorUnhindered`, `CloudCorrect`+ |
| `HubConfigProofs` | `LoadInv` | `SettingsCorrect`, `LookupsCorrect` |
| `HubLifecycleProofs` | `LifeInv` | `LifeTypeCorrect`, `NullCorrect`, `ExitCorrect` |
| `MqttPublishProofs` | `ChildInv` | `ChildTypeCorrect`, `SuccessCorrect`, `DisconnectCorrect`, `TopicCorrect`, `CommandsCorrect` |
| `IcClusterProofs` | `ReceiverInv` | `ClusterTypeCorrect`, `PassedCorrect`, `StateCorrect`, `SurvivesCorrect` |
| `CloudFunctionsProofs` | `CallsInv` | `FocusCorrect`, `CommandedCorrect` |
| `MapPageProofs` | `ButtonInv`, `SettleInv` | `ButtonCorrect`, `LightsSettleCorrect` |

Some theorems have a hypothesis beyond the assumptions on the constants:

* (\*) `~PidReuse`, the kernel does not give a reaped pid away again. An instance keeps the pid of its child
  until it is cleaned, so with reuse two instances may have the same pid and `SlotsExclusive` fails (TLC finds
  it in 14 steps; that slots are exclusive in objects and never too many needs no hypothesis, it is
  part of `SlotInv`). In `OwnInv` a pid that was reported is a child that is gone for good; with reuse
  the proof would have to count reports and instances per pid. TLC finds no violation of `LiveOwned`,
  `ExitKept` and `RoomKept` with reuse on the small instances, so for them the hypothesis may be
  more than the code needs.
* (+) `NormalIntervals`: the configured intervals have less than 1000 milliseconds beside the seconds;
  `operator+=` carries one second at most and `operator>` compares the fields.

### MsgManagerProofs

`TypeInv` is `TypeOK` and `MergeHasGroup` (the merge loop is only entered with a group to merge). It bounds
the indices `cnt_a`, `mainI`, `lp` and the handler's private count: no access is outside the arrays.
`OrderInv` adds `GroupsInOrder` and `NewestKept` themselves, `OnlyProduced` (nothing queued or sent has a
number beyond `produced`; without it the group that `addToDataQueue` appends need not be the newest) and
`MergeOwnsList` (`newGDataList` is empty outside the merge loop; without it `TakeDataQueue` could
overwrite groups).

`SlotInv` adds what the scan relies on: a free slot while it runs (`ScanHasRoom`), one instance per object, and
that `isLigthsPresent` remembers a lights object that was ever sent (`LightsOnce`), also after its child ended.
Nothing of it depends on pids or on the handler. From `SlotInv` in two successive states each step is one of
`SendSlots` or a stutter (`SlotsRefined`): a launch that takes a newer group is `Launch`, the erasing of an
instance `Done`, the data processor's call `Offer`.

`OwnInv` follows pids: those of instances are distinct and were given out, every child that runs has
an instance, and every pid a handler holds or that is in any cell of the two arrays (stale ones
included) or of `waitChildPid` was reaped. So a report can end only the instance of a child that is gone,
however often it is repeated.

`ReportInv` follows the way of an exit in whatever threads the handler runs, as long as `~overlapped`: then one
handler at most is inside (`OneInside`), it works on the array main does not read, its private count is the
array's (`HandlerInv`), and main knows the count of the array it empties (`DrainInv`). A thread that has reaped
a child and not yet chosen a queue is not inside: there may be several, and main may swap under them.
Between the handler and the manager a pid is at one place only and belongs to an instance (`TransitOnce`,
`TransitOwned`), and the pid of a reaped instance is at such a place (`GoneInTransit`), which is the end of
`ExitKept`. `RoomCorrect` counts: the pids in the active array and the one in the
handler's hand are distinct and all have instances, so there are at most `MaxParallel`.

`ZombieNoticed` is inductive with `TypeInv`: who makes a zombie raises the signal, and a handler that
leaves the loop has just been told that there is none.

### HubPipelineProofs

`DataInv` has, per object, what relates an open group to its queue (`Filled`: the packets a group
was given are exactly its stored ones times the period less the skip counter) and the order of all its
groups, not only of neighbours, because the manager may skip any of them. `AccountInv` numbers the packets:
each group begins where the one before ended, and the queue holds the rest. `TimeInv` says that
`expairedTime` is the first stored packet's time plus the interval (`PlusIsSum`, `AfterIsLater` prove
`operator+=` and `operator>` right for normal times) and that the groups handed over are apart. The
clock is in none of them: any stamp may follow any other.

The composition leaves out no step of the data processor (`ProcessorUnhindered`: the condition under which
`Collect` lets it hand over a group always holds); the other side is the promise that `SlotsRefined` shows the
manager to keep. That the composition implements both parts needs no theorem, it conjoins their steps.
`CloudCorrect` follows from `SentInv` (what was sent is a group that was handed over) and the order of all groups.

### The other modules

* `HubConfigProofs`: nothing changes after `Load`, so `LoadInv` is simple and the work is in the
  arithmetic of the settings (whatever a number wraps to is clamped; what the order by which intervals are
  compared says of time if the milliseconds are less than a second) and in the loop over the objects. That the list holds accepted
  objects only is shown by the least index at which it would not (`Climbs`); the same gives that
  the recursive definition of the loop has a value (`LoopEnds`).
* `HubLifecycleProofs`: `LifeInv` ties each thread to where main is (`ThreadsFollowMain`), and an exit
  status to the joins that came before it (`FailureJoined`).
* `MqttPublishProofs`: `ChildInv` says that there is no session before `connect` and behind `exit`
  (`SessionInv`), that a publication that went nowhere has cost the connection, so the wait for its
  acknowledgement fails (`CodeInv`), that behind `GetOpts` its two tests hold (`OptsInv`), and that what waits at
  the broker is newer than what the lights got (`InboxInv`).
* `IcClusterProofs`: `ReceiverInv` has what the buffer may still hold of an earlier datagram
  (`BufferInv`), how far the present one was passed on at each call (`PassInv`), and from which datagram
  each field of the state is (`FieldsInv`).
* `CloudFunctionsProofs`: `CallsInv` says that the present state of a light was commanded or refused, or is in
  an event or a call that still has to send it, unless that call died, and that a call of `tlSwitcher`
  focuses only what it has switched. Events and calls are bags; the lemmas on
  them say what a call that starts, goes on, ends, dies or is repeated does to the set of what is in flight.
* `MapPageProofs`: `ButtonInv` says that while a truck is followed the last pending timer of the button
  leaves it offering to stop. `SettleInv` says that the last timer of an element paints what was heard last
  unless a burst had `TooMany` changes; it needs that after one change there is one timer only.

**Only model-checked** are the liveness properties (`GroupLaunched`, `SlotFreed`, `OverdueGroupSent`,
`DeafHubEnds`, `CarChildEnds`, `ListensAgain`, `GreenForNear`), since the prover has neither fairness nor
`ENABLED`, and the two violations, which are counterexamples. That the numbers the runs use have the same carries
and comparisons as 1000 ms and 2^32 needs no argument for the safety properties any more: the theorems hold for those too.

## 5. Plan

Everything that was planned as a model is done, in this order: `MsgManager` with `SendSlots` and the first
theorems, `PktTime` and `DataProcessor`, `HubConfig`, `HubLifecycle`, `MqttPublish`, `HubPipeline`,
`IcCluster`, `CloudFunctions`, `MapPage`. Every safety property is proved.

What proofs are left: `LiveOwned`, `ExitKept` and `RoomKept` with reuse of pids, by counting
reports and instances per pid; that `MqttPublish` implements the child of `MsgManager`; and
the safety half of the liveness properties, for example that a group that waits stays launchable until it is
superseded (`NewestKept` is its first part).

## 6. Not modelled

Formatting of messages and logs, exit codes, memory management, TLS and the MQTT library. On the
map: drawing, gauges, side bar, routes, pits, parkings and air probes, which only show what a
callback was given (the panel of an air probe keeps fields of the one before if the new one
lacks them). `ParkingController`, which nothing instantiates. `xlgyro_fake`, a loop with a single
behaviour: 32 samples and 394 bytes a second, with room for 1024 and 6144. Vendored code: `lib/` and
`IC-Lib/libcluster/json.hpp` are far more lines than the program itself, and none of them are its own
logic. `loopTerminateRequest` of the
data processor is never called. Posix semantics (signals, `waitpid`, `fork`, `kill`) are modelled from how
the code uses them.
