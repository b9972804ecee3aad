# NightMareNetwork in TLA+

NightMareNetwork is a library for ESP32 devices. A device (a *station*) talks to an application
server over MQTT, either over its own Wi-Fi or over ESP-NOW through a *gateway*, an ESP32 that
holds the MQTT connection for the stations around it. Around that the library keeps settings, an
identity, scheduled jobs, shared resources, a description of the hardware, a command language and
a web server.

This directory holds TLA+ specifications of the parts of the library whose behaviour depends on
the order of events or on input that can be anything. TLC checks small instances of them, and
TLAPS proves the most important safety properties for every value of the constants.

## 1. Inventory

Paths are relative to `src/src/`. `PROJECT.json` lists every component with its status and every
hazard at its line.

### 1.1 ESP-NOW: the gateway's side

| Part | State | Operations | What makes it correct |
|---|---|---|---|
| Session table, `Gateway/EspNow/espDeviceManager` | devices (sessions), pending handshakes, the radio's peers, next session id | `admit`, `beginHandshake`, `completeHandshake`, `secureSession`, `abandonHandshake`, `expire`, `reset`, subscriptions | one session per station and per id; only a proven handshake replaces a session; the radio's key is the session's key; nothing leaks from the three tables |
| Broker, `Gateway/EspNow/espBroker` | `running` and queues | one handler per frame type, `expire` pass, `pause`/`resume` | a frame is served only in the session it belongs to; a last will means the station is gone |
| Framing, `Network/EspNow/NightMareEspNow` | none | encode, decode, HMAC proof, key derivation | |
| Reassembly, `Gateway/EspNow/Reassembly` | a few slots with partial messages | `feed`, `drop` | a message is delivered whole and once; a fragment joins no message but its own |

The gateway's task is the only one that changes the session table. Frames come in through a queue
that the radio's callback fills; the callback cannot wait, so a full queue drops.

### 1.2 ESP-NOW: the station's side

| Part | State | Operations | What makes it correct |
|---|---|---|---|
| Client, `Network/EspNow/EspNowClient` | connection state, session id and key, nonces, gateway, last will, retries | control frames, timers, `publish`, `setLastWill`, `begin`, `end` | the ends never use one id with two keys; the station reconnects |
| Service, `Network/EspNow/NmEspNowConnection` | worker, queue of events | `EspNow_enable`, `EspNow_disable`, suspension, reported state | the state it reports is the client's, in the end |

Control frames come in through a queue of 8 that a callback fills; messages are sent by the
caller's task, with the session id read once and a mutex held frame by frame.

### 1.3 The gateway node

| Part | State | Operations | What makes it correct |
|---|---|---|---|
| Node, `Gateway/NightMareGateway` | the vault of retained device statuses, the queue of inbound messages, phases of the main loop | devices join and leave, inbound messages, projections to MQTT, pause, switch off, erase | what the broker retains is what the vault holds; what the broker replays is no older than what a device said here |
| What it says of itself, `Gateway/GatewayState` | presence, clients | status with its last will, network, clients | the presence comes back whoever clears it |
| What it knows of another gateway, `Gateway/GatewayRecovery` | generation, snapshot, applied | status and clients of the other | its devices' wills are applied, once, for a generation that is gone |
| Its MQTT client, `Gateway/EspMqtt/espMqtt` | connection, outbound queue, window of publications in flight | publish, subscribe, connect, disconnect, stop | a slot of the window comes back whatever becomes of its publication |

Three tasks: the gateway's, the publisher's, which does all that can block, and the one of
esp-mqtt, which reports events.

### 1.4 The rest of the network

| Part | State | Hard behaviour |
|---|---|---|
| Connection coordinator, `Network/NmConnection` | active transport, deferred publishes, reported status | several tasks report, activate and flush without one lock |
| Wi-Fi service and radio, `Network/WiFiIP`, `Network/WiFiRadio` | driver, station profile, monitor task, scan | a scan suspends ESP-NOW; a monitor that has not yet left is taken for a running one; driver events arrive late |
| MQTT service, `Network/MQTT` | service, control task and its queue, stop flag, client | stop racing a start, Wi-Fi lost in between, a full queue |
| Message router, `Network/NmMessageRouter` | owners of topics | |

### 1.5 Core

| Part | State | Hard behaviour |
|---|---|---|
| Storage, `Core/Storage` | files; name, `.tmp`, `.bak` | power loss between any two calls; calls that fail |
| State store, `Core/StateStore` | settings and their file | memory and file after a failed write |
| Identity and its cleanup, `Core/DeviceIdentity`, `Network/IdentityCleanup` | name, zone, the record of a rename in progress, its job | a crash between any two of its writes; a cleanup while a further rename comes |
| Configuration, `Core/ConfigManager` | bound Configs and their values | a handler that changes the world before the value is saved |
| Scheduler, `Core/Scheduler` | 30 jobs, `/jobs.json` | the lock is released while a job runs; one-shot jobs across restarts |
| Resources, `Core/ResourcesManager`, `Core/NetResources.h` | managed values with policies and mirrors, remote values with sources and subscriptions, manifests | sources change while messages are on their way; refused publications; unbinding; names and addresses |
| Commands, `Core/NightMareComand` | none | one pass over quotes, escapes and fences |
| Telemetry, `Core/Telemetry`, and hardware profile, `NightMare/HardwareProfile` | heartbeat jobs and settings; assemblies, connections, nets | a full job table; documents of other devices, damaged or of a later version |
| Web server and websockets, `HTTP` | sessions, list of ten clients | server's task and command's task change one list |
| System state, `Core/SystemState`; start-up | requests | their order |

Time, logs, OTA, display, the MCP server, the website, `Legacy/` and the examples are outside:
they use the platform, print, or are separate programs.

## 2. Modules

| Module | Models | Composed by |
|---|---|---|
| `EspDeviceManager` | the session table, as operators on one record `table` | `EspBroker` |
| `EspBroker` | the gateway's radio task: an action per frame handler, `ExpirePass`, `Shutdown`, `Start`, `Tick` | `MCEspBroker`, `EspNowClient` |
| `EspNowClient` | the station's task, as operators on one record `client` | `EspNowLink` |
| `EspNowLink` | station and gateway over the radio, with the tasks that publish, set the will and suspend | `MCEspNowLink` |
| `NmConnection` | the coordinator, the ESP-NOW service and the MQTT service, step by step | itself |
| `WifiStation`, `MqttService`, `Services` | radio, station, monitor, scans; the MQTT service, control task and client; both under commands and events | `MCServices` |
| `EspMqtt`, `GatewayRecovery`, `NightMareGateway`, `Gateway` | the gateway's MQTT client; what it knows of another; the node; the node among device, broker and another gateway | `MCGateway` |
| `StableFile` (abstract), `Storage` | a file that changes at one instant; one file call by call | `MCDevice` |
| `StateStore`, `DeviceIdentity`, `Settings` | settings; identity and cleanup; Configs and the WiFi profile, and all of them over one file | `MCDevice` |
| `Documents`, `HardwareProfile`, `HardwareDocument`, `Telemetry` | values and objects of a document; validation and nets, with the reference for them; encode, decode; heartbeat and publication | `MCDevice` |
| `ManagedResources`, `RemoteResources`, `Resources` | values owned here; values owned elsewhere; a device from start to start, with the requests of its main loop | `MCResources` |
| `ResourceManifest`, `ResourceCommands`, `CommandLine`, `Console`, `WebServer` | manifests and their readers; commands and topics against the registry; the parser and its grammar; what a line does; server and websockets | `MCResources` |
| `Reassembly` | messages in fragments: a station's `publish()` into the gateway's table, the gateway's into the station's partial message | `MCResources` |
| `Scheduler` | jobs, their file, `tick()` | `MCScheduler` |
| `EspBroker_proofs`, `EspNowLink_proofs`, `NmConnection_proofs`, `Gateway_proofs`, `Scheduler_proofs`, `Settings_proofs`, `Resources_proofs`, `Reassembly_proofs` | theorems | |

An operator or action has the name of its C++ function where it has one; `map` in `PROJECT.json`
gives the lines of each. An operator that only `mutants` in `PROJECT.json` names is no part of a
specification: it is a bug that the definition after it could have had, kept to show that the
properties would find it.

Where the code makes several calls that can each fail, an operation is an operator that yields the
set of the states it may leave (`StateStore`, `ManagedResources`); where several tasks run through
the code without a lock, what a task has left to do is a sequence of steps `todo[task]` and each
step is an action (`NmConnection`, `WifiStation`).

### 2.1 The broker

`table.devices` is `devices_`, `table.pending` is `pending_`, `table.peers` is what the radio's
peer table holds for each station (`NoPeer`, `Plain` or a key), `table.nextCid` is `nextCid_`.
`frame`, `replies` and `published` say what the last step received, answered and passed on. A
nonce is a number, the session key is the pair of nonces it is derived from and a proof is that
pair; a proof is right if it is the pair the gateway holds. HMAC and key derivation are taken to
be perfect.

`Receive` delivers any well-formed frame, any frame with a wrong key (`INVALID`), any id and any
of the proofs a station could have computed, in any order; this is more than a radio delivers.
`Faults` says which radio calls may fail: `"add"` (`peers.add`) and `"secure"` (setting a key). A
handler runs to its end as one action, because the gateway's task is the only one that touches the
table; the frame is decoded before, in the radio's callback.

Time: `Tick` makes every handshake and every session one unit older (a paused session too:
`lastSeen` stands still), each age up to one unit past its limit, where the code compares only
`>`.

### 2.2 The link

`client` holds the fields of `EspNowClient`; `task` says what the client's task does next, because
`runTimers` runs only when a control frame did not come, and because `onPong` calls the
application between restoring the will and setting the state. `uplink` and `control` are the two
receive queues. The radio loses a frame or hands it over at once, and a frame can be read only if
the two ends' peers hold the same key: a frame is decrypted when it arrives, not when it is
handled. A frame that was queued and is handled late is the reordering this radio has.
`GatewayOff`/`On`/`Reboot`, `ClientReboot`, `ClientBegin`/`End` are the restarts.
`PublishBegin`/`PublishFrame` and `WillStore`/`WillSend` are the steps of calls from other tasks.

`Trouble` and `Settles` bound what goes wrong. Once `calm` holds nothing is lost, nobody restarts
and answers arrive before their timeouts. `Reconnects` is about what follows.

### 2.3 The coordinator

Three tasks run through `NmConnection.cpp` and no lock covers it. Each step is an action: reading
what the route depends on (`Decide`), the two writes of `activate` (`Select`, `Conclude`), the
owners' subscriptions (`Notify`), the three steps of flushing a slot, after which the flush goes
on with the next (`FlushNext`), reading and exchanging the state of a layer (`Look`, `Tell`). The
functions of the two services set their state and give their task a list of such steps, in the
order of the calls in the code. `route` is `selectedConnection`, `connectionState` and the
preference; `status[t].last` is `lastLayerState` and `told` what the application's handler was
called with last; `driver` is the client's real session (external) and whether the owners have
subscribed on it. `worker` is the ESP-NOW service's task and queue. The two Wi-Fi layers stand
still, and both Wi-Fi and the radio are up.

`end()` waits a second for the worker and goes on, so `Drain` may come while the worker is in a
handler; a worker that stays and meets the next start goes on beside it, which the model has as
one worker that ends its handler first.

`Orderly` is history: no task came in while another was inside and no event found the worker's
queue full. `OwnersFollow`, `StatusIsCurrent` and `HeldOrSent` are claimed only then, for without
it they do not hold (section 5). `RouteSettles` is claimed of every interleaving.

### 2.4 Wi-Fi, MQTT and scans

`drv` is the driver of ESP-IDF (its configuration, link and the events it still has to deliver,
external), `sta` the service's own view, `mon` the monitor task with the flag that tells it to
stop, `scan` the scan with its deadline, `esp` what ESP-NOW is told. `svc`, `cli` and `ctl` are
the MQTT service, its client and its control task. A command is a sequence of steps of the task
that issues it; locks make a sequence one step. `ClientFollows` excuses two cases by history:
`events.overlap`, when two tasks were inside the MQTT service at once, and `ctl.deaf`, when a
command found the control queue full.

### 2.5 The gateway

A publication counts against the window from before it is made until its PUBACK, so publishing is
the two steps `Claim` and `Publish`, and a connection can go or come back between them. `wire` is
what the client has handed over and the broker not yet taken, `b` what the broker retains and for
whom, `inbound` the queue to the gateway's task. The main loop's parts are actions of their own,
as each may find nothing to do. `b.by` says whether the gateway or someone else wrote the device's
topic last, and `b.missed` whether a message about the other gateway found `inbound` full since
the subscription. `seen` is history: whether a publication was lost to a full queue or a timeout
(`lost`), whether one was left to the vault while an older one of its topic was queued (`behind`),
whether a setup subscribed in a later session than the one it published its vault in (`hasty`),
whether nobody has spoken for the device since it did here (`latest`), which generations of the
other gateway are gone, how often its wills were applied. The session at the broker ends by a
DISCONNECT or, on a cut, with the last will at once; a will that comes late is `LateWill` of the
other gateway. ESP-NOW may fail to start, and to come back after a pause, which is then put back
(`ComesUp`).

What goes wrong is bounded by a *scenario*: kinds of events, and how many of them happen, at any
moment. The other gateway, or the status of the device, may be at the broker before the gateway
connects.

### 2.6 Files and settings

`Storage`: one action per call to the file system. `Fill` is `fwrite` and `fclose`: until then the
target holds `Torn`. `Restore`, `Discard` and `Drop` are the calls whose results the code ignores.
`PowerLoss` may come between any two. Renames and removals are atomic, as LittleFS promises.
`StableFile` says what a caller relies on: while a `write(…, true)` runs the file holds the value
before or the value asked for, it changes once, and the answer is true exactly if it did.
`Content(files)`, what a reader finds after recovery, is the refinement mapping. A write in place
and a removal (`rough`) may spoil the file until they return.

`StateStore` stands on that promise: a write that answers false changed nothing, and one cut by a
power loss took effect or did not. `DeviceIdentity` is the rename: the record of what the old name
leaves behind is written before the name, `IdentityStart` resumes it after a restart, and
`CleanupSucceeds` withdraws on a connection. A Config (in `Settings`) is stored before its value
changes in memory, by the command after a handler accepted it, by `set()` without one; `RestoreAll`
restores the bound Configs one after the other, whatever becomes of each.

### 2.7 Documents

A hardware profile is a record of nested sequences. `HardwareProfile` validates in the code's
order; beside it `WellFormed` says what a valid profile is of the hardware itself (definitions are
grounded, endpoints exist, nets are the components of a graph, with `Graphs`), and the two are
compared. `HardwareDocument` encodes in both forms (by position and by name) and decodes what
comes back whole, with a later version's additions, or with one field damaged or missing; `hw` is
the publication under way.
`ResourceManifest` does the same for the two manifests, with the two readers the code has.
`CommandLine` has the scan of `parseNightMareMessage2` and, beside it, the grammar its comment
gives, as a recursive descent; the two are compared on every line of a set. Upper and lower case
are one.

### 2.8 Resources

`net` is the device's registry with the broker's retained messages and the messages on their way.
A publication is taken or refused. The file of sources (`net.sources`) is written in place
(`Write`): a write that fails leaves it as it was, if it could not be opened, or removes it with
every member, as `Storage::write` does; a power loss in the middle of one leaves it cut. `Found`
is a read, which may fail; a file that is gone, cut or unreadable is begun anew by the next
`Persist`, and rewritten from the sources in use by `LoadSources`. `net.kept` is history: the file
has all sources that were confirmed, it lost some, or a removal failed and it may have others.
`Resources` follows a device through starts with one of four
firmwares: mirrored values, a stored advertising policy, a mirrored remote value, and two remote
values over three addresses. `ResourceCommands` is the registry under commands and topics, names
and addresses, with `CommandsAreFaithful` and `TopicsReachTheirResource` about what each text
reaches.

### 2.9 Scheduler and telemetry

`mem` is `jobs_`, `nextId_` and `storageReady_`; `file` is what `/jobs.json` holds, its jobs in
their order with nothing behind the last, or `Unreadable`; `tick` holds the locals of `tick()`.
The lock is held during `scan`, so the calls of other tasks, and of the job that runs, are actions
outside it. Each call that writes has three outcomes: saved, failed (the file then holds the old
contents, the new ones or none), and cut by a power loss. `Ensured` is `ensureInitialized`:
storage that was not there is tried again on the next call, and jobs are then loaded among those
that were added meanwhile. Deadlines are `unset`, `later` and `now`; the choice of a run mode and
the arithmetic of deadlines are left out, and so is a tick counter that wraps. `live`, `harmed`,
`ran` and `faults` are history and bounds, not program state.

`Telemetry` sees the scheduler as its table of labels with room for `MaxJobs`, which the
application fills and empties between any two calls. `astray` is history: a call left the setting
and its job different, because the save failed after the handler, or because the application took
the slot that a change of period had given up.

### 2.10 Web server

The server's own task opens and closes sessions and keeps the list; the task of a command starts,
stops and broadcasts. A removal from the list by the latter is two steps. `raced` is history: two
tasks were removing at once. After that there may be room by the count and no next slot;
`addSocket` then writes before the list, where the second byte of the count is (`BeforeTheList`),
and the list refuses whoever comes later.

### 2.11 Fragments

`air` is one record: `session` and `joined` are the session id as the gateway and as the station
have it, `slots` is `ReassemblyTable::slots`, `partial` the station's `reassembly`, `uplink` the
queue of the gateway's receive callback. A fragment holds, for its data, which publication it is
of and which part. Two tasks of a station may be in `sendMessageFrames()`; the gateway's task is
in one function at a time (`GatewayBusy`). A frame may be lost although the radio took it and may
arrive although the radio reported that it failed or said nothing in time; a session ends at any
moment, on either side, with its goodbye or without; the station may end it between the callback's
look at the session id and the taking of the frame, which are in two tasks. Time is that a partial
message gets older than its timeout. How a session is made is in `EspNowLink`; here it is one step.

`pubs` is history: `fine` says that all of a message's frames arrived in one session, in time and
with a slot to begin in, `reused` that it took the session id and the message id of a partial
message that was still there.

## 3. Runs

All pass unless "violated" is said. States are distinct states.

| Run | Instance | States | Shows |
|---|---|---|---|
| `broker` | 2 stations, 2 sessions, 2 handshakes, 2 ids; keys refused; all frames in any order | 43,852 | the tables, the ids and the radio agree, and a pause has its handshake; only a proof creates a session; a paused session is silent |
| `broker_full` | 2 stations for 1 session and 1 handshake, with subscriptions and wills | 17,318 | a session ends only by its station, a proof or silence, and a handshake given up or timed out hands it back; a pause ends, a silent station is forgotten, its will is published then and only then |
| `broker_stranded` | 1 station, `peers.add` fails | | violated: finding 1 |
| `link` | frames lost, both ends restart; publishing, wills, suspension | 283,911 | one id never has two keys |
| `link_live` | loss, both ends switched off and on, then calm | 73,396 | the station reconnects and stays connected |
| `connection` | 1 message, 2 slots, 2 sessions, 1 call of the application, tasks that overlap once | 766,162 | the route settles on what can be used whatever overlaps; without overlap the owners have subscribed, the application knows the states, a message is held or sent once |
| `services` | 8 scenarios of commands, scans, losses and refusals | 326,165 | ESP-NOW runs again after every scan; the station and the MQTT client end up where they were told to be |
| `gateway` | 15 scenarios of 2 to 4 events | 1,422,451 | the window does not leak and the broker ends with what the vault holds; it replays nothing older than what the device said here; wills of the lost are recovered, once; the presence comes back |
| `scheduler` | 2 slots, 3 requests, ids to 3, 1 failed write, any number of power losses | 269,350 | ids and labels stay unique, nothing is lost but by a fault, a one-shot job starts at most once, due jobs run |
| `scheduler_clear` | the same | | violated: finding 2 |
| `device` | one file; settings, identity and Configs with failures and power losses; the heartbeat over 4 job slots; 1913 hardware profiles | 109,597 | a file refines `StableFile`; the next start knows what this one had; cleanups end and touch no live name; jobs follow settings; documents decode to legal profiles or to none; validation accepts exactly the well-formed; nets are components |
| `resources` | 4 firmwares; commands and topics; manifests; lines; the web server; fragments | 1,510,445 | subscriptions, mirrors, sources and retained messages agree; texts reach what they name; manifests read alike; the parser is its grammar; the websocket list follows the sessions; messages in fragments arrive whole, once, and if they can |

`device` and `resources` each hold several subjects that share no state: the variable `about` says
which one a behaviour is about, and the others stand still.

### 3.1 Why the bounds are enough

*Broker.* Stations meet only in the limits of the tables, in the session ids and in the slot a
handshake takes over. Two stations fill and overflow a table of one. `MaxCid = 2` makes the id
counter wrap after two sessions, while the other id is in use. Limits of time are 0 or 1: each of
"in time" and "too late" occurs. Four nonces (0 is "none") let the two in use at a station differ
from the next two; `Fresh` gives the smallest free ones, as only equality matters. The theorems
drop these bounds.

*Link.* One station: the gateway's side for several is the broker's. Queues of 1 to 3 overflow
(the code's are 32 and 8). One attempt where the code has three, and one missed PONG, take the
same branches earlier. Two boots of the gateway are enough for one restart between any two steps.
Message ids are never reused while one is in use anywhere.

*Coordinator.* `MaxOverlaps = 1`: once, a task may come in while another is inside, and then every
interleaving of the two is explored; each race found needs one such pair. Two sessions let one
driver lose its session and make another, or both drivers have one, and one call changes what they
are compared with. A queue of 2 (the code's is 8) overflows; a flush walks two slots (the code has
5).

*Services.* Each scenario lets happen together the kinds of events that meet in shared state, as
often as that takes: two scans by two tasks and an abort; a scan with the station or ESP-NOW
switched; the station switched twice, so that a monitor told to stop meets a start; a change of
profile whose link is lost, or that the driver refuses; the radio switched twice; three MQTT
commands for a control queue of two (the code's is 4), so that it overflows; the link lost with a
session up.

*Gateway.* A window of 1 and queues of 2 fill and overflow (the code has 8, 32 and 64). One
device, since the statuses of two are kept under two keys and meet only in the window and the
queues. Two to four events of the kinds of a scenario at any moment: two cuts with a change
of status between, someone else's status and a cut around a setup, a cut while a publication is
refused, a topic cleared around a reconnection, a radio that does not come back from a pause, the
other gateway lost, rebooted and back, and the same with our own connection cut, so that its end
is learned from the replay. Five events (`Scenario(5, {"cut", "device"})`) are needed for a status
that a cut leaves behind an older one of the queue (section 5.3); the theorems have no such bound.

*Scheduler.* `MaxId = 3` stands for `INT32_MAX`, so ids run out. Each restart takes the ids back
to one above the largest stored.

*Device.* Two names and two zones, a Config with two values and one default, a profile of two
keys: every key is absent, default, changed or unreadable. Five of the six keys fill the settings
(the code has room for 128). The profiles are built for one rule or two each (references among
three definitions, members of the same name, connections at every pair of endpoints, nets of up to
three edges, definitions used twice); 505 of them are valid. Of the valid ones, documents are
damaged at one place; about a seventh of the damages give another legal document, which is
accepted as what it then says.

*Resources.* Firmwares have two to three values, each of a kind that the code treats apart; three
addresses let a source be changed to one that is free, in use, or its own. Any number of writes
and reads of their file fail. One message is on its
way to a device at a time. Lines: all texts of up to six symbols that the scan distinguishes, and
about ten thousand commands of one to four words, with a limit of 20 symbols (the code's is 512
characters) and the code's limit of 5 arguments. The web server: three sockets for a list of two,
two starts, two broadcasts.

*Fragments.* Two slots (the code has 4) for three messages, two session ids and two message ids
(65535), so that slots are contended for and ids come round while a partial message waits; a
session id comes again by a boot of the gateway, which deals them out from 1. One station to which
three things happen out of losses, ends of sessions, boots and timeouts; one with messages of one
and of three frames and one such thing; two stations and one such thing.

`SYMMETRY Stations` is used only in the run without liveness. `VIEW State` leaves out of the
broker's state `frame`, `replies` and `published`, which no action reads. `VIEW LinkState` leaves
out the same, and the client's fields that are written before they are read again, and numbers
message ids and nonces in the order in which they occur: only equality of them is used.
`CHECK_DEADLOCK FALSE` is said where events are used up or a subject stands still.

### 3.2 Fairness

- Broker: `WF(ExpirePass)`, because the gateway's task runs a pass at least every
  `NM_GATEWAY_TICK_MS`; `WF(Tick)`, time passes. No fairness for frames.
- Link: `WF` of `GatewayPacket`, `ClientControl`, `ClientConnected` and `ClientTimer`, because
  both tasks run for ever; `WF(GatewayOn)`, the gateway is switched on again; `SF(ClientDrained)`:
  the client's task does find its queue empty with a timer due, since beacons are 5 s apart and
  nothing else comes unasked.
- Coordinator: `WF(ConnectionTick)`, for `loop()` calls it on every turn; `WF` of the steps of
  each task that is inside; `WF(EspNowResume)`, a scan ends. No fairness for the drivers.
- Services: `WF` of the steps of every task that has any, of the loop, the monitor and its
  retries, the control task and the client's task, all of which run for ever; of the driver, which
  ends a join and a scan and delivers its events. No fairness for commands and losses.
- Gateway: `WF` of every part of the gateway's loop and of the publisher's task; `WF(Connects)`,
  for esp-mqtt connects again by itself; `WF(BrokerTakes)`, the connection delivers while it is
  up; `WF(MinutePasses)`, the periodic reassertion. No fairness for the events, nor for `Replay`:
  the broker may replay late.
- Scheduler: `WF(Tick)`, its task polls, and a job returns; `WF(ClockValid)`, the clock is set at
  last (by NTP, from the server or by hand).
- Settings: `WF` of the power coming back and of the two steps of a start; `SF(CleanupSucceeds)`:
  a device whose cleanup is tried again and again finds once a connection that takes it, although
  connections come and go.

## 4. Proofs

| Module | Theorems |
|---|---|
| `EspBroker_proofs` | `TypeCorrect`, `SessionsAreUnique`, `HandshakesAreUnique`, `RadioAgrees`, `PausesHaveHandshakes`, `PeersAreHeld`, `TablesAgree`, `TablesFit`; `SessionsAreProven`, `SessionsAreSpared`, `PausedAreNotDisturbed`, `WillsAreLast` |
| `EspNowLink_proofs` | `LinkTypes`, `OneKeyPerSession` |
| `NmConnection_proofs` | `ConnectionTypes`, `MessagesAreHeldOrSent`, `FollowersFollow` |
| `Gateway_proofs` | `GatewayTypes`, `PublicationsThroughWindow`, `WillsAreTheLost`, `TruthBeforeReplay` |
| `Scheduler_proofs` | `SchedulerInvariant`, `TableSound`, `StartedOnce` |
| `Settings_proofs` | of the settings `SettingsInvariant`, `NextStartAlwaysKnows`, `LiveNamesStay`; of the files `StorageTypeCorrect`, `NeverWithoutName`, `StorageIsStable`; of telemetry `HeartbeatFollowsItsSettings` |
| `Resources_proofs` | of the resources `SubscriptionsFollowSources`, `MirrorsFollowSources`, `SourcesOutliveRestarts`, `RestConverges`; of the web server `ListIsTheSessions` |
| `Reassembly_proofs` | `FragmentsArriveWhole` |

All hold for any value of the constants that meets the named assumptions of the modules
(`ManagerAssumption`, `BrokerAssumption`, `ClientAssumption`, `LinkAssumption`,
`NmConnectionAssumption`, `GatewayAssumption`, `SchedulerAssumption`, `StateStoreAssumption`,
`IdentityAssumption`, `ConfigAssumption`, `SettingsAssumption`, `WebAssumption`,
`StorageAssumption`, `FragmentsAssumption`, `TelemetryAssumption`, `ManagedAssumption`,
`RemoteAssumption`, `MirrorAssumption`, `FirmwareAssumption`), which TLC evaluates on every run.
Most say that limits are numbers, that a value for "none" is not one of the values it is told
from, that the parts of the device have settings keys of their own, that a firmware's addresses
are addresses and that what an owner publishes is a value, not the empty payload
(`FirmwareAssumption`). Three go further. `RemoteAssumption` has finitely many remote values, for
the registry holds at most a hundred resources, and lets no two values be declared with one
source, which `bindResource` refuses. `MirrorAssumption` has no mirror of a mirror, which the
comment of `propagateToDependents` says an application should not declare; no mirror of a
`RemoteState`, whose value may be one its owner has not taken yet (section 5.5); and no mirror
that the application withdraws, tunes or unbinds by itself. `LinkAssumption` asks that nonces and
message ids outnumber those that can be in use at once, since the model has a fresh one be one
that is not in use (`Fresh`); the code draws 16 random bytes.

*The broker's tables.* `SuspendedAwaitsHandshake`, `NoPeerLeak`, and with them `SessionTables`,
assume `"add" \notin Faults`, for without it the code does not have them (finding 1). `TablesFit`
adds that sessions and the radio's peers keep to their limits, by counting the stations that have
a session: every operation but a proven AUTH only leaves some out, and that one looks for room.
The runs do not check it, for it needs more stations than the tables have room for.

None of the invariants is inductive alone. `IInv` is the type invariant with `Consistent(table)`:
that sessions are distinct and past `AUTHENTICATED` with a key, that each station has one
handshake, that what is paused has a handshake, and, for a radio that never refuses an add, that
the radio's peer of each station is exactly the one its session and its handshake call for.
`PeerMatchesSession` needs `SuspendedAwaitsHandshake` (a session resumed without a handshake would
find another peer) and `UniqueSessions` (`admit` looks up by MAC and then compares the id), and
these need the type. The lemmas go operator by operator: each operator of `EspDeviceManager`
preserves the type, then `Sound` and `Agreed`; then each action of `EspBroker` is a composition of
them.

*The broker's steps.* The action properties follow from `IInv` and two relations between the table
before and after an operator: `Kept` (no session appears) and `Spared` (none is lost: each is
there as it was, paused or not). They are reflexive and compose, so that a handler has them
because its calls do; only a proven AUTH is without the first, and only a proof, an expiry or the
station itself without the second. `SessionsAreSpared` covers the expiry pass as well: a session
whose handshake times out is first handed back and may then be judged silent in the same pass, so
that `FellSilent` asks that it was overdue and, if it was paused, that its handshake timed out;
every other session continues (`Continues`), paused exactly while its station has a handshake and
otherwise with its own key on the radio. `SessionsAreProven` needs nothing of the radio;
`SessionsAreSpared` assumes that the radio refuses nothing, `PausedAreNotDisturbed` and
`WillsAreLast` that no add is refused.

*The gateway.* `GatewayTypeOK` is the type of the client, the node, the broker and the
surroundings; it says of the queues what messages can be in them, which is what the handler of an
inbound message relies on. `HeardOK` adds what the gateway knows of another: wills that were
counted were applied to the generation it knows, an offline generation it knows of is gone, and
the last online one is the one it has. Together they are inductive, and that wills are recovered
once and only of the lost follows step by step.

That none is forgotten needs `RecoveryOK`. While the gateway is subscribed and has missed nothing,
what the broker has of the other gateway is about to be replayed, or is the last message about it
in `inbound`, or nothing about it is there and it is what the gateway knows (`Told`, `Reflected`);
and an end and a list of clients of one generation are never known together without their wills
applied (`Settled`). A stop discards messages only after the subscription has ended (`StoppedOK`).

`TruthGoesFirst` needs `FirstOK`. From the step in which a setup has begun until the broker
replays, what the device said here last is in the setup's list of publications or on its way
(`Said`), or the broker has it from this gateway, in which case it does not replay it; a setup
that is about to subscribe although another is due is `hasty`; and only a broker that was asked to
subscribe, and has the topic from someone else, replays it. Together with the invariants of
`PublicationsArrive`, which say that nothing is on the wire without a connection, this is
inductive. Nothing is claimed after someone else spoke for the device (`seen.latest`).

`PublicationsArrive` needs more. `WindowOK` counts the window over the wire: subscriptions hold no
slot, everything else that is on the wire holds one, and so does a task between `Claim` and
`Publish`. `VaultOK` follows a device's status to the broker. Its way has four parts, the queue,
the message in hand, what the setup of a session still has to publish, and the wire; and the last
of the device's messages on it, looking from the queue on, is the vault's (`Ends`), or there is
none (`Mute`) and the broker retains it, or the vault will be published again: without a
connection, before a setup, or when the setup has to be broken off (`Again`). `SetupOK` says that
a setup in an old session means that another is due, and `LinkOK` that only a connection has
something on the wire. Most steps leave the way alone (`Elsewhere`, `Unspoken`) or add to it what
is not of the device (`AnotherCarries`, `QueuedCarries`); the publisher's steps move a message
from one part to the next. The first attempt at the proof failed, and rightly so (section 5.3,
`seen.behind`).

*The link.* `LinkInv` follows the two nonces of a handshake through the frames that carry them: a
CONNECT and its CHALLENGE have the id `connectId`, an AUTH and its CONNACK `authId`. The latest
CONNECT or its CHALLENGE is in the queues once, with no AUTH after it (`AskedOnce`); the latest
AUTH is alone, and a session that its CONNACK names has the pair of nonces the client has
(`ProvenOnce`); a client with a session id has no AUTH on its way, and a session of that id at the
gateway has its key (`Joined`). That a fresh nonce and a fresh message id exist at every step, and
are in none of the frames, tables and variables, is counted: those in use never outnumber the
limits of queues and tables. `IInv` of the broker is part of it, with the station's frames for any.

*The coordinator.* What a task has left to do is data in this model, so the invariant speaks of
sequences of steps. Every action does one of three things to a task's list: it replaces the first
step by others (`Swaps`), drops it (`Drops`), or a task with nothing left comes in with a new list
(`Arrives`). `StepsOK` says which steps can be in a list and `OneInside` that, while `overlaps` is
0, one task has any. `HeldInv` then follows a message through its slot, the copy that is being
sent and the slot's clearing (`Kept`). `StatusInv` says that the application was told the state
last seen, and for each layer that it is the state now, or a look at it is still to come, or the
telling of it has begun (`Aware`). `RouteInv` says the like of the route: a list either holds a
decision still to be made, or the rest of one (`Choosing`, `Concluding`, `Passing`), or the route
is backed by a usable transport whose owners have subscribed or are about to (`Backed`, `Heard`).
It needs `WorkInv`, which ties the ESP-NOW worker's events to the service: a worker that is not
wanted is about to be stopped, a service that begins is enabled and not suspended, the last event
after a lost session is not CONNECTED. `RouteInv` and `WorkInv` are kept while also no event was
lost to a full queue (`lost`); both conditions, once broken, stay broken, so that the implication
is inductive.

*The scheduler.* `SchedulerInv` relates the table, the file, the locals of `tick()` and the
history: no two jobs of the table share an id or a label of a scope and no id is above the counter
(`MemoryOK`), a one-shot job that is in the table or in the file was not started (`Startable`,
`FileOK`), and, unless a fault harmed it, the file holds exactly the accepted jobs that persist
(`Survivors`), and so does a table that was loaded. A load adds the file's jobs one by one, which
is a recursive function of the number of jobs added; what it yields is proved for each number by
taking the least for which it would be false.

*The settings.* The theorems assume `Dependable`: writes fail and the power is lost at any moment,
but storage is found and read and a removal is written, for without that the code does not have
the property (section 5.4). `SettingsInv` adds to `NextStartKnows` what makes it inductive: an open
store has in memory what is in the file, but for the profile's keys (`Good`); the record in the
file is the one in memory, and so is the name, unless it has been adopted for the next start
(`Linked`); a restored Config has its stored value (`ConfigOK`). An operation yields a set of
stores or effects; for each it is shown which keys any of them may have changed (`Reaches`) and,
for those of the identity, that the store, the identity and the broker fit after every outcome
(`Sound`), those in which the power was lost between two writes included. The restoration of the
Configs is a recursive function of the sets of them; that it exists, and what its values are, is
proved by counting their members. `LiveNamesStay` needs none of this, nor `Dependable`: it follows
from what each operation withdraws.

*The web server.* `WebOK` says that whoever is in the list is there once and has a session, of a
websocket unless a command is about to remove it (`ListOK`), that a server that is down has no
sessions (`SessionsOK`), and, unless `raced`, that every websocket is in the list, its count and
its next free slot are right, and what a removal has in hand is a client that left (`Exact`).

*The resources.* A call yields the set of the states it may leave, one for each publication that
may be refused and each write that may fail, so the lemmas speak of any member of it: for an
operator what it changes (`...Is`), that it keeps the invariant (`...OK`) and what it leaves alone
(`...Stays`). `Sound` is inductive. It has `MirrorsOK`, that each mirror in use agrees with its
source, and `LinksOK`: no two remote values in use have one source (`Unique`; otherwise clearing
one would unsubscribe the other), only a `RemoteState` waits for an answer, and the subscriptions
are those the sources call for while connected (`Needed`) and none otherwise. In the middle of a
call neither holds: `AgreesBut` excepts the mirrors of the value that is being set, `Moving`
follows a source through unsubscribing, taking the new one and subscribing, with the return to the
old one if that is refused. `Sound` adds that the file names a value once (`FileOK`), that only
what the firmware declares is bound, and all of it while the device is up but for what was
unbound. `Effect` sums up what a call does to bindings, sources and file.

`SourcesOutliveRestarts` follows from `FileSound`: while the device is up the file has nothing but
sources in use, and all of them while none was lost (`Follows`); while it is down all are
different and of values that the next firmware declares (`Waits`). Both are conditional on
`net.kept`, because a failed write may have removed the file and a failed removal may have left
what was to go. The reading of the file is a recursive function of the number of its members;
what it yields is proved by the least number for which it would be false. Writes and reads of the
file fail at any time; the one hypothesis is that no value is declared with a source, for without
it the code does not have the property (section 5.5).

`RestConverges` is about device, broker and owners together. `Settled` says what each of them may
owe the other. Of an own value (`Facing`): if it is not to be retained, it is not or its withdrawal
is pending, and a withdrawal is pending for no other reason (`Withheld`); what is offered is
retained or waits to be tried again (`Served`). The manifest at the broker is the one of the
device, or the device knows that it is not (`Described`). Of a remote value in use (`Current`):
what its owner retains is the last message about it that is on its way, or nothing is on its way
and it is what the device has. A publication that is refused moves from one side of an "or" to
the other, a new source is answered with what is retained (`RetainedTells`, `JoinTells`), and
`HandleIngress` takes the oldest message off (`TailTells`), so that a message for a former source
can do no harm; this needs `Unique` and the subscriptions of `Sound`. At rest every "or" has one
side left. The theorem assumes that no value is both made unavailable and given a policy
(`Toggled \cap Tuned = {}`, as in the run): the code has one mark for the two reasons to withdraw a
value, and clearing one clears the other (section 5.5).

*Fragments.* `FragmentsInv` has two parts. `Sound` holds whatever befalls a message. A queued frame
is one that its publication has sent, and those of one publication are queued in order
(`FramesOK`, `InOrder`). What a slot or a station holds begins with a first fragment, has
fragments of one session and message id only, and is the beginning of one publication unless an
id came round again (`PartOK`). The first fragment of a publication is in one place: the queue, a
slot, a station's memory or a message handed over (`OpenersOnce`); it is why a message is
delivered once, for the fragments after it can be in several places when ids come round. Two
publications share session and message id only if nothing is left of the earlier one, no frame, no
partial message, no task that still sends it, or the later one is marked `reused` and neither is
`fine` (`KeysOK`): without it a slot that matches a frame could be another message's. `Carried`
says of a `fine` message where its fragments are: the first `k` in a slot or handed over, the
others in the queue. The steps come in three kinds. Most only lose, age or spoil something
(`Fades`, `FadesFor`), and one lemma serves them all; a fragment that is sent moves its publication
and extends the queue (`Moves`, `SentUp`); a frame that is taken changes one slot or one station's
memory (`Arrived`, `Comes`, `Fed`), with a lemma for each way out of `feed()` and
`handleMessageFrame()`. The theorem speaks of the system of `FragmentsInit` and `FragmentsNext`,
which is the part of `AboutSpec` that moves `air`.

*The heartbeat.* `HeartbeatInv` says what is installed at each step of a call: of the labels that
`start()` has reached all and no others (`StartOK`), and of the heartbeat the job that the setting
under change asks for, or none between the removal of a period's job and the next (`ChangeOK`). It
is what makes the undo of `start()` leave nothing behind. The theorem speaks of the part of
`DeviceSpec` that moves `heartbeatVars`.

*Storage.* `InStep` is the inductive invariant: it says, step by step of a write, which of the
three names hold something, and from it follows that each call to the file system leaves
`Content(files)` alone but for the one that takes the new value. `StorageIsStable` is the
refinement of `StableFile`, initial states and steps.

Only model-checked: every liveness property, which is out of the prover's reach; what is computed
by recursion over data (`NetsAreComponents`, `AcceptsWellFormed`, `DecodingIsSound`,
`ParsesTheGrammar`, `LinesAreFaithful`, `ManifestsReadAlike`); what a text of the console names in
the registry (`RegistryIsFaithful`).

## 5. Findings

Shown by a run:

1. `broker_stranded` (`Gateway/EspNow/espDeviceManager.cpp:114`). A repeated CONNECT for which
   `peers.add` fails frees its handshake and leaves the session it had suspended paused for good,
   although `expire()` relies on the handshake's timeout to end the pause.
2. `scheduler_clear` (`Core/Scheduler.cpp:481`). The job file is written in place, so a JOB CLEAR
   that fails can have destroyed the jobs of both scopes.

The following were met while modelling. Where a property excuses one, the module says by which
history variable; the rest the models contain as behaviour, leave out by their bounds, or
abstract.

### 5.1 The link

- `EspNowClient.cpp:606`: a CHALLENGE that comes after `enterSearching()` is answered with a proof
  over wiped nonces; the gateway's AUTH_FAILED is reported as a wrong network key.
- `EspNowClient.cpp:397`: a `publish()` that began in one session sends its next fragment in the
  following one, and the answer ends a session that is in order.
- `EspNowClient.cpp:469`: the boot generation a beacon is compared with survives `end()`, so the
  first beacon ends the session made with a rebooted gateway.
- `EspNowClient.cpp:756`: a `setLastWill()` between `restoreLastWill()` and `setState(CONNECTED)`
  is stored too late to be sent and sent by no one. The link model has the step.
- `docs/modules/espnow-protocol.md:207-208` says that a new CONNECT ends a session; the code
  suspends it until a proof (`espDeviceManager.cpp:117-125`).
- `gatewayId()` is empty when the gateway was found by its CHALLENGE.

- `Gateway/EspNow/Reassembly.cpp:5`: `find()` does not look at a slot's age, and `expire()` drops
  no partial message. After 65535 message ids in one session a fragment joins what was left of a
  message of the same id if its own first frame was lost (`reused`).
- `EspNowClient.cpp:115`: `reassembly` is said to be the receive callback's only; `dropSession()`
  (518) clears it from the client's task and `begin()` (1140) from the application's. A frame that
  is being taken meanwhile can leave a partial message behind, which the next session of the same
  id meets, as after a boot of the gateway (`reused`).

For the second and the third the code ends a session that is in order, so no property says that
sessions in order are kept; `Reconnects` shows that the station gets one again.

### 5.2 The coordinator and the services

- `NmConnection.cpp:104-105` says "The exchange makes each transition reported exactly once even
  when two tasks get here at the same time". The state is read before the exchange: the task that
  read the older state may exchange last, and the application is told of a change back that did
  not happen and stays with it until the next change.
- `NmConnection.h:82-83` promises owners and `OnConnect` "on every active-transport connect". A
  task that decided while MQTT was up may select it after MQTT's own task has left it; when MQTT
  then connects again before the next tick, nothing seems new and nobody subscribes.
- `flushDeferred` (line 146) by two tasks sends a held message twice. In `Network/MQTT` an older
  message in the queue is flushed after a newer one was published directly; nothing fills that
  queue today.
- `NmMqttConnection.cpp:131`: `connectionError` does not ask whether the service is enabled, so
  that a service just disabled may end in `ERROR`; `startClient` does not report its failure, and
  stopping reports nothing.
- `NmEspNowConnection.cpp:51`: a state event that finds the queue full is lost (`lost` in
  `NmConnection`). `:106-128, 283-294`: `EspNow_disable()` reports the disconnection itself, and a
  CONNECTED still queued is handled after it. `:73` says "(300 s)", and the timeout is 60 s.
- Scans of two tasks that overlap, with ESP-NOW enabled in between, leave it suspended for good.
- A monitor that is leaving is taken for a running one, so that `startMonitor` makes none; a
  GOT_IP that is late after `WiFi_stop` lets `WiFi_start` return true without joining; CONNECTING
  set after the handlers have joined is healed only by the retry after 15 s. `StationJoins`
  therefore asks for a monitor that runs.
- `NmWifiService.cpp:74-81` and `:185`: two changes of profile at once may save one and use the
  other (`docs/reference.md:1480`).
- `NmMqttConnection.cpp:248-254` and `NmWifiService.cpp:150-156` each ask what the other changes:
  NETWORK MQTT ENABLE beside WIFI DISABLE can leave MQTT enabled over a station that is off. A
  failed `WiFiIP_enable` clears `stationEnabled` although MQTT is enabled
  (`docs/design-decisions.md:126-127`).
- The stop flag of the control task stays set when the task ran first, and a STOP that finds the
  queue full is lost (`ctl.deaf`); a link lost and back between two polls leaves the service
  STARTING.

### 5.3 The gateway

- `espMqtt.cpp:471-476`: the publisher re-publishes its own truth before it subscribes, but what
  the gateway's task queues between can follow the replay. It asks whether the session is still
  the same (471) and then subscribes (474): if the connection is lost and back in between, the
  subscription is made in the new session, whose vault is not published yet, and the replay
  overwrites what is newer at the gateway (`seen.hasty`).
- `GatewayRecovery.cpp:125`: the end of a generation of another gateway other than the known one
  is not believed, to be safe from a late will. If the online status of the newer life was missed,
  because our own connection was away, its devices' wills are never applied (`NoneForgotten`
  excuses it).
- `NightMareGateway.cpp:576`: a network projection that is queued still when the setup of a session
  publishes a newer one follows it, and stays until the minute's reassertion.
- `:464-466`: a subscription that fails is ignored until the next connection.
- `:659-660`: a full queue drops the newer publication, and the older one queued is then the last
  (`seen.lost`).
- `:659-660` drops what is published without a connection, for "Anything persistent is in the vault
  anyway", and `docs/modules/gateway.md:115-116` has the vault replayed on every connection. It is
  published first (`:652-654`), and what was queued in the session before, and is queued still, is
  published after it. A device that says "on" while the publisher is busy and "off" once the
  connection is lost leaves "on" retained at the broker (`seen.behind`), until it publishes
  again or the connection comes back once more. No shorter scenario than
  `Scenario(5, {"cut", "device"})` shows it; the proof did.
- `mqtt_stop` publishes "offline" directly, and a queued "online" can follow it
  (`docs/protocols/status-info.md:93`).
- Wills that are recovered go to the local vault only; pausing and disabling publish none; a
  device erased while MQTT is away comes back with the replay.
- The count of publications in flight can reach -1.
- A tombstone that arrives between the publication of the status and the subscription, or a
  network projection lost around a pause or to a refusal, is repaired only by the minute's
  reassertion: without `"minute"` in the scenario TLC violates `StaysPresent`.

### 5.4 Files, settings, scheduler

- `Core/Storage.cpp:36`: a recovery that fails is ignored, so that a file with a backup does not
  exist to its reader, who may then write a new one over it; a read that fails at boot lets the
  state store overwrite the settings, and the scheduler the jobs. A device whose settings cannot
  be mounted or read publishes under its default name.
- `StateStore::remove()` keeps a removal in memory when the save fails.
- `Core/Scheduler.h:29` says that scopes "never see or block each other"; they share 30 slots. A
  job in the file that is skipped on a late load, because its label was taken meanwhile, is erased
  by the next save.
- A heartbeat setting whose save fails after its handler leaves job and setting different;
  disabling is then refused for ever, because there is no job to remove. A slot given up by a
  change of period may be taken by the application (`astray`). Two tasks may publish the same
  heartbeat number (`Telemetry.cpp:806`).
- A packed hardware document with the definition `""` decodes to an assembly without a kind. If
  the JSON form cannot be published the old one stays retained.
- `withdrawIdentity` does not remove the manifests that `identity.md` speaks of.

### 5.5 Resources and commands

- `propagateToDependents` leaves `withdrawalPending_` set; `setAvailability(true)` and
  `setAdvertisementPolicy` clear a withdrawal that is pending for the other reason.
- `ResourcesManager.cpp:63`: the file of sources is written in place, and `Storage::write` removes
  the file when the write fails (`Storage.cpp:105-108`), so that one source that cannot be stored
  loses the sources of all the others, and the answer is that this one could not be saved; an
  unreadable file is replaced by one with the new source alone (754-758).
  `docs/getting-started.md:655-657` has the binding saved there and restored on the next boot.
- Unbinding while offline leaves the retained message; an unbind whose file removal fails has the
  source back after a restart; retained deletions that happen while offline are missed; the
  consume manifest and a refused subscription are not tried again.
- A value declared with a source, cleared, and its source given to another value: at the next
  start the declaration takes the source first, `loadRemoteSources` refuses the other value's and
  rewrites the file without it (`ResourcesManager.cpp:822-853`). A declared source is also not in
  the file as long as the first write of it fails.
- A dependent that is unbound when its source changes returns with the old value; a value set
  optimistically is copied to the mirrors; a stored binding wins over a changed compiled-in source
  (`docs/protocols/resources.md:1054-1056`).
- `NetResources.h:264-267` says that what is unknown is no mismatch; `verifyAgainstManifest`
  objects to a type of a later version. `decodeManifest` skips arguments with fewer than three
  fields, which `verifyAgainstManifest` reads, and shows an unknown kind as "action", an unknown
  type as "string" (`ReadersAgree` asks for known kinds).
- A quoted `"CONFIG" LIST` goes to the application (`docs/protocols/commands.md:345`); the refusal
  of FORMAT names CONFIRM, and `-p` is needed; an unknown HTTPSERVER verb, or one that failed,
  answers success; the answer of a lifecycle command may tell the state before it, as C++ leaves
  the order of arguments open (`docs/protocols/commands.md:727`). `SerialResolver` truncates a
  long line silently.
- `HTTP/http.cpp:67`: a command that stops the server, sent over HTTP, runs in the task that
  `httpd_stop` waits for. `http_close_cb` never closes its socket although `close_fn` is set. Two
  tasks that remove a client at once make the count drift (`raced`), and `addSocket` may then fill
  in an entry before the first (`HTTP/websockets.cpp:202`).

## 6. What is not modelled

- Two workers of the ESP-NOW service beside one another, when one stays in a callback for more than
  the second `end()` waits.
- Byte layout, cryptography, and the arithmetic of time (wrapping millisecond counters).
- Radio calls that fail on the station's side; the channel; `end()` returns only once the task has
  left. Frames of a handshake and fragments of messages do not meet in one model: `EspNowLink`
  delivers a message whole, and `Reassembly` makes a session in one step.
- Own resources and console of the gateway node, topics other than statuses, delivery to its local
  subscribers, reassembly of DATA events. The list of clients is
  refreshed only in the scenario that is about it; the minute passes only when nothing is queued.
- Mirrors of mirrors. What the file of sources holds after a removal or a correction of it that
  failed, which nobody looks at (`net.kept = "unknown"`).
- The value codec, numeric texts that do not fit, the set-manifest handlers,
  `applyOtherDeviceManifest`, storage failures inside RESOURCE commands, manifest topics among
  inbound ones, the parser of TEST, the serial reader.
- Diagnostics are codes; texts of a hardware item that are treated alike are one; a null array
  with a count.
- Addresses, access points and signal strength of Wi-Fi; static files and answers of the web
  server.
- `Storage::rename()`, `format()`, `list()` and directories.
- Time, logs, OTA, display, MCP server, website, `Legacy/`, examples: see `PROJECT.json`.

## 7. Plan

1. The two check-then-act pairs of MQTT ENABLE and WIFI DISABLE as a scenario of `Services`, and
   the publication of a second device in `Gateway`; topics other than statuses in the gateway
   node.
2. A scan with ESP-NOW enabled in between, a mirror of a mirror, and the keys that `setMany()`
   leaves behind, each as a statement of what the code does then (sections 5.2, 5.4, 6).
