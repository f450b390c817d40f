# SocketClient in TLA+

Models, model checks and proofs of the library in `src/`: how a device keeps its WiFi, its
connection to the server and its settings alive through lost networks, vanished servers, switches,
slow passes and restarts. Source lines below are relative to `src/` of the repository's root
(`src/SocketClient.cpp` and so on); `PROJECT.json` maps every definition to its lines.

## 1. The system

Three kinds of task touch the state.

* **The loop task** runs `setup()` (`SocketClient::init`) and then `SocketClient::loop()` for ever,
  with the sketch's own code between two passes. One pass calls, in this order: the pending reboot,
  `_applyOnOff()`, `WifiManager::loop()`, the pending reconnect, the web server's start, the
  WebSockets library (which raises the connection's events), diagnostics, a pending file upload, the
  time client, `_tzFlush()`, `watchdog()`.
* **The web server's task** (AsyncTCP) runs the handlers of `/sc/...`, at any point of a pass.
* **Other tasks of the sketch** may call the switches, `reboot()`, `setTZ()` and the event bus.

| Component | State | Operations | What makes it correct |
|---|---|---|---|
| Server connection (`SocketClient.cpp`) | `_webSocket` and its reconnect interval, `last_dog`, `last_reconnect`, `reconnect_time`, `_subscriberCount`, wants and ons of both switches, `_pendingWifiReconnect`, `_pendingReboot` | `reconnect`, `stopReconnect`, `disconnect`, `watchdog`, the WebSocket events, `_applyOnOff`, `reboot`, `loop` | no storm of reconnects, no connection while off, a dead peer is noticed, a reachable server is reached again |
| WiFi management (`WifiManager/`) | `_wifi_status`, credentials, attempt clock and count, `_pending_save`, `_everConnected`, backoff stage, `_apStaFinal`, two timestamps; NVS; the driver's mode and link | `init`, `loop`, `setEnabled`, `tryNewCredentials`, `tryAndSaveCredentials` | every loss and return is reported, retries go on, the AP opens when nothing else is left and only then, untested credentials are not saved |
| Web server (`WebserverManager/`) | started or not; upload progress | connect, disconnect, scan, reboot, status, upload | requests do not wreck an attempt, an update or a status under way |
| Timezone (`SocketClient.cpp`, `NVS/`, `TimeClient/`) | `_tz_set`, `_tz_srv`, three flags, the environment, two NVS keys | `setTZ`, `getTZ`, `_tzLoad`, `_tzFlush`, the server's `connected` | the last zone asked for ends up in effect and saved |
| Event bus (`EventHandler/`) | queue, linked list of subscriptions, mutex | `publish`, `subscribe`, `taskLoop`, `dispatch` | accepted events reach each matching subscriber once, in order; payloads are freed once; nobody waits for ever |
| File transfer (`FileTransfer/`, `SocketClient.cpp`) | the slot `s_uploadReq` | `requestFile`, `_sendFile`, `build`, `parse` | each request gets one answer, on its own connection, about itself; a frame is never read past its end |
| OTA (`OTA/`) | `_currentLength`, `_totalLength`, the `Update` object it shares with `/sc/upload` | `_checkUpdate`, `_updateFirmware` | what is ended is a whole image |
| Reboot reason, diagnostics (`System/`, `Diagnostics/`) | NVS keys, counters | `reboot`, `rebootReason`, `begin`, `onConnected` | a boot is reported with its own reason; no boot is lost from the count |
| Messages and status (`SocketClient.cpp`) | the shared document `_doc` | every message, `/sc/status` | nobody reads it half written |
| Time client (`TimeClient/`) | the environment's zone | `setTZ`, `getTZOffset`, `nthWeekdayOfMonth` | the clock changes on the day the rule names |
| MQTT, logging, pages | little | formatting | not a subject of these models |

How they interact: `WifiManager` calls `_onInternetRestored` (which only schedules a reconnect, 1.5 s
later) and `_onInternetLost` (`stopReconnect`) from inside its `loop()` and `setEnabled()`;
`SocketClient` calls `setEnabled()` from `_applyOnOff()`; the web server writes `WifiManager`'s state
from its own task; the WebSockets library calls back into `SocketClient` from its `loop()`,
`disconnect()` and destructor; restarts come from `SocketClient::reboot()`, from saved credentials, OTA
and the web page.

Hard about it: state that two tasks write without a lock (WiFi credentials), state read at the start
of a pass and used at its end, flaps of WiFi that fall between two reads, sentinels (`last_reconnect
== 0`, `_connecting_time == 0`), timestamps of 32 and 64 bits, settings made before `init()`, restarts
between two writes of NVS. `PROJECT.json` lists these hazards at their lines with the properties that
would catch them.

## 2. Modules

| Module | What it is |
|---|---|
| `WifiLink` | What WiFi management promises to the server connection, without credentials, attempts, backoff and AP. |
| `SocketLink` | The server connection. `pc` is the call of `loop()` about to be made, so that switches, WiFi and the server change between any two of them. It uses WiFi management by `WifiLink`. |
| `WifiManager` | WiFi management with handleWifi, with the `/sc/wifi` handlers as steps of another task; it implements `WifiLink`. |
| `Timezone` | The timezone, with `_tzFlush()`'s copy and its unlocked writes as separate steps. |
| `EventPromise` | What the event bus promises, without queue, list or mutex. |
| `EventBus` | The event bus, task by task; it implements `EventPromise`. |
| `FileWire` | The binary frame: lengths and bounds, as operators. |
| `FileTransfer` | `requestFile`, its slot and its answers, over `FileWire`. |
| `Firmware` | Downloads, uploads, reboots and what NVS keeps of them. |
| `DstRule` | The change of the clock, as operators. |
| `MC...` | What TLC runs; the `.cfg` files give the constants. |
| `..._proofs` | The theorems about the module of that name. |

Definitions whose name has an underscore, such as `RetryDue_NotStopped`, are seeded faults (the
exception is the C++ constant `MAX_SIZE`). They are used by no specification; each takes the place of
the definition after it to show that a property would notice such a bug.

### 2.1 SocketLink

`ws` is `_webSocket`: `null`, `closed`, `handshake`, `open`, or `dead` for a connection whose peer is
gone while the library still says that it is connected. `interval` is `never` after `stopReconnect()`.
`lastDog` and `lastReconnect` are ages, with `Unset` for the code's 0. `socketWant`/`wifiWant` are what
any task asked for, `socketOn`/`wifiOn` what `_applyOnOff()` last applied. `wifiStatus` is the
`WifiManager`'s `_wifi_status`, `told` its last callback (history).

| Action | Code |
|---|---|
| `Reboot`, `Crash` | the top of `loop()`; any other restart |
| `ApplyOnOff` | `_applyOnOff()` with what `setEnabled()` does to the radio and reports |
| `WifiLoop`, `WifiReturn` | `WifiManager::loop()` as far as its two callbacks go; `joined` is its place before the report of a return |
| `PendingReconnect` | the reconnect after the grace |
| `PumpIdle`, `Attempt`, `Accept`, `Drop`, `Receive` | one thing the WebSockets library does in its `loop()`, with the handler of its event |
| `Watchdog`, `Retry` | `watchdog()`; its check of WiFi and the check inside `reconnect(false)` are two reads |
| `SketchReconnect`, `SketchDisconnect`, `SketchStopReconnect`, `Switch`, `AskReboot` | the public operations |
| `WifiChange`, `ServerChange`, `Tick` | the world |

`WifiManager` appears here by its contract: every step of `wifiOn`, `wifiUp`, `wifiStatus` and the place
`joined` is an action of `WifiLink` (`Wifi!Find`, `Wifi!ReportReturn`, ...), to which `SocketLink` adds what
the two callbacks do. The call of `loop()` for the web server, diagnostics, file upload and time touch none of this state.

### 2.2 WifiLink

The contract between the two: `on` is `_enabled`, `up` is `WiFi.isConnected()`, `seen` is what `loop()`
has recorded in `_wifi_status`, `reporting` that a pass has found a return and is about to report it,
`told` the last callback.

| Step | What the user of WiFi management sees |
|---|---|
| `Find`, `ReportReturn` | a pass finds the link up and not recorded, then reports its return; the link may be gone in between, and the record is of what it finds then |
| `ReportLoss` | a pass finds the link lost and not recorded, and reports it |
| `Forget` | an attempt is given up, also one made on top of a live connection: a loss is recorded and not reported |
| `SwitchOff`, `SwitchOn` | `setEnabled()`; off reports a loss if a connection was recorded, and the link goes down in its own time |
| `LinkChange`, `Restart` | the driver; a boot |

A flap between two passes is not reported. `Settles` is the one promise of progress: a link that is up for
good is recorded for good. `WifiManager` keeps it when no client submits credentials (section 4).

### 2.3 WifiManager

`loop()` is four steps: it reads `WiFi.status()` (`SeeLost`, `SeeJoined`, `SeeNothingNew`), handles a new
connection (`SaveAndRestart`, `Connected`), yields to a scan or retries (`YieldToScan`, `Retry`,
`NoRetry`), and checks the attempt's clock (`ClockIdle`, `CountAttempt`, `GiveUp`). The steps of
`tryNewCredentials()` on the other task (`TryNewCredentials`, `TakeCandidate`, `BeginCandidate`) run
between them. `SwitchOff` and `SwitchOn` are `setEnabled()`. The driver (`want`, `link`, `status`,
`mode`) is external: it joins a network it was told to join, leaves one it was told to leave, and its
status may say "lost" or something else in between. `told` records the last callback. `Link` is the
refinement mapping to `WifiLink`: the link is up when a network is joined, and a pass is reporting while
`pc` is `joined`.

`connecting` is the attempt's clock: `off`, `running`, or `due` when a second has passed. A clock that is
started while a pass is under way may be ahead of the time the pass has read; the unsigned difference
then counts as due at once, so `StartClock` allows both. (`uint64_t` timestamps of `millis()`.)

### 2.4 Timezone

`pc` is the loop task's place in the handler of `connected` (`read`, `begin`) or in `_tzFlush()`
(`flush`, `apply`, `saveSet`, `saveSrv`); `copy` and `zone` are their locals. `SetTZ` is one action
because it holds the spinlock. NVS starts with any zones, and `Restart` leaves nothing else.

### 2.5 EventPromise and EventBus

`EventPromise` is the bus as its documentation describes it: accepted events wait in order; one at a
time is taken; when its delivery begins the registered keys that match are due; each is called once,
one at a time; then the payload is freed. No registration changes during a delivery.

`EventBus` has the machinery. `queue` is FreeRTOS's queue, `subscriptions` the linked list from its
oldest node (so the walk goes down from its length), `mutex` its holder. A task of the sketch is idle or
in `subscribeLocked()`: before the mutex (`take`), before the search and the new node (`find`), before
the callback is set (`set`). `pc`, `msg` and `sub` are the bus's task in `taskLoop()` and `dispatch()`.
`publish()` is one step, as the queue is the only shared thing it touches. A callback may publish; one
in `Subscribing` calls `subscribe()`, against the warning at `EventHandler.h:77`, and waits for ever.
`freed` counts the `delete[]` of each payload. `Promise` is the refinement mapping: a subscription is
due when its node is still to be visited and matches.

| Action | Code |
|---|---|
| `Publish`, `CallbackPublish` | `publish()` from a task or a callback |
| `Subscribe`, `Take`, `Find`, `SetCallback` | `subscribe()`, and the steps of `subscribeLocked()` |
| `Receive`, `Lock`, `Skip`, `Call`, `Return`, `Unlock`, `Free` | `taskLoop()` and `dispatch()` |
| `CallbackSubscribe` | `subscribe()` inside a callback |

### 2.6 FileWire and FileTransfer

A frame is its length, its first two bytes and whether what they call the header is the JSON of a
"file" message; the JSON itself is abstracted. `pc` is the loop task's place: in the WebSockets library
(`pump`), where messages arrive; at the slot (`send`); in the sketch's callback (`callback`); in the rest
of the pass. `answers` and `headers` are history: what went out, and what the sketch was given.

The library is external. One call of its `loop()` may raise several messages, which is what makes
"busy" possible at all, and a call that connects does nothing else. The sketch may close the connection at any place outside
the library, also inside its callback, and a restart may come at any place.

### 2.7 Firmware

Two tasks: the loop task, which boots (`reason` ... `save`), downloads inside the handler of "update"
and reboots, and the web server's task with `/sc/upload` and `/sc/reboot`. A part stands for one
`Update.write()`; which parts an image is made of, and from which source, decides whether it is whole.
`saved`, `count` and `old` are the three NVS keys; every put or remove is a step, and `Crash` comes
between any two. `asked` is history: the reasons `System::reboot()` was called with since the boot.

`Update` is external, with what the code relies on: `begin()` does nothing while an update runs,
`write()` nothing without one, `end(true)` makes firmware of whatever was written and may or may not find out that it is
not an image. `OTAManager` looks at none of the results. `clean` is history: nothing was cut
short, and no download met an upload, since the boot.

Two updates that meet, and one that follows another that was cut short, do leave `broken` firmware in
this model (`Update` still runs and keeps what the first one wrote, as `begin()` of the second is
ignored). The code says nothing of either case, so that is no finding; `BrokenNeedsDisturbance` says that
these are the only ways.

### 2.8 DstRule

Pure operators: `NthWeekday` is `nthWeekdayOfMonth()`, `TZOffset` is `getTZOffset()` of a zone whose text
was parsed or not. The C library's calendar is written down as external. `MCDstRule` walks the months
of 28 years, after which the weekdays of a date repeat.

## 3. How the models fit together

`SocketLink` and `WifiManager` meet at `WifiLink`, as two sides of an assumption and a guarantee.
`WifiManager` implements it (`ImplementsLink`, checked in `wifi_safety` and proved), and every step that
`SocketLink` takes with those variables is a step of it (`UsesContract`). The contract is looser
than `WifiManager`: any pass may forget a link, where the code does so only after its last attempt. For
`SocketLink`'s safety that only adds behaviours; its liveness (`KeepsConnecting`, `ReturnReconnects`) assumes
`Settles`, which `Recovers` checks of `WifiManager`. In both models the switch is applied between two
passes of `WifiManager::loop()`, as `_applyOnOff()` and that `loop()` are calls of one task. The refinements compose
by reading, not by a common model: that the two sides name the same code with the same step of the
contract is what `PROJECT.json` maps.

`FileTransfer` uses the connection as up or down, and needs that it begins only inside the library's
`loop()` and never between a request and its answer in the same pass: that is `BeginsInLibrary`, a
theorem about `SocketLink`. `SocketLink` rests on `Firmware` for what `System::reboot()` does, and `Firmware` starts
its download where `SocketLink` receives a message; those two are stated in the modules and not checked by a
common model. Composing the modules themselves has more interleavings than TLC can visit. `EventBus`
is used by sketches and touches none of the others.

## 4. Runs

| Run | Bounds | Shows |
|---|---|---|
| `socket_safety` | 15 s per tick: baseline 2, cap 6, watchdog 2, grace 1; one browser; up to 3 ticks per pass; the sketch, crashes | types, six invariants of switches, client, timers and backoff; watchdog's retries are spaced; nothing is attempted while off; WiFi does anything `WifiLink` allows |
| `socket_liveness` | baseline 2, cap 3, passes of at most one tick | a dead peer is noticed; a device with a client keeps getting connected, if WiFi management settles |
| `socket_return` | smallest | **violated**: switched on in a gap of WiFi that no pass sees, the socket stays without a client |
| `wifi_safety` | a real and a mistyped pair of credentials, 1 attempt, cap 2, grace 1, stage up to 2, all requests, restarts, slow passes | types; no connection after a reported loss goes unreported; backoff and fallback keep to their sides of the first connection; the refinement of `WifiLink` |
| `wifi_liveness` | one pair, 2 attempts, interval 2, grace 1, prompt passes | recovery, and `WifiLink`'s `Settles`; the fallback opens |
| `wifi_unverified` | as `wifi_safety` | **violated**: untested credentials are saved |
| `wifi_switched_on` | as `wifi_liveness` | **violated**: off and on is not as at boot |
| `tz_check` | two valid zones and one only the server can send | every zone gets into effect and into NVS, whatever runs in between |
| `event_bus` | two tasks, a queue of 2, 3 publications, 2 keys, a callback that publishes and one that subscribes | the refinement; payloads have one owner; one node for each key; no empty callback; events and subscribers are served |
| `file_transfer` | 3 requests, 2 connections, one user and nobody, a file of each kind of size, frames on either side of each bound | one answer, on its own connection, about itself, and some answer; parsing stays inside the frame |
| `firmware` | 2 parts, 2 updates between boots, 3 boots | reasons name their own boot; no boot is lost; a download ends when it was read; only a disturbed update breaks firmware |
| `dst_last` | every month of 28 years | **violated**: "the last Sunday in March" is a day of April, or before it |

A violated run states what a comment of the code says; `PROJECT.json` quotes it under "findings". What
to change is for the maintainers to judge. `dst_last` is a bug of a function the library exports and never calls.

Three more such statements are kept in the modules without a run; TLC finds each of them violated:
`NoRedundantReconnect` (`SocketLink`; when WiFi returns, `watchdog()` retries at once and the reconnect
scheduled for 1.5 s later tears the new connection down, against the comment at
`SocketClient.cpp:580-586`), `FallbackReachable` (`WifiManager`; after `/sc/wifi/disconnect` in AP+STA, wrong
credentials close the AP while the fallback forbids every retry, against `WifiManager.h:120-121`) and
`EarlyZoneStays` (`Timezone`; a zone set with `setTZ(zone, false)` before `init()` loses to the one in NVS,
against `SocketClient.cpp:307`). Adding one of them to the configuration of its safety run shows it.

**Why the bounds are enough.** The ages are capped one above the largest interval they are compared
with, so no comparison is lost. The baseline must leave room for a doubling below the cap and one that
hits it: 2, 4, 6. A pass longer than every interval but the cap is in `socket_safety` (3 ticks of 15 s
against 30 s). One browser tells a stale count from 0. Two pairs of credentials tell "saved" from
"joined"; the stage's third value has the interval of the second. A third zone lets both keys and the
environment differ.

A queue of two tells its head from its tail, and three publications fill it while one is dispatched.
An event matches one key or both, so a delivery has one, two or no callbacks. Two tasks race for one
key. Categories are not told apart in the instance; the proofs cover them. Three requests: one taken or waiting, one that
finds it so, one later; two connections: the request's and a later one. Two parts are the fewest that can be mixed; two updates between boots let one meet or
follow another; three boots let a saved reason skip one. What the bounds leave out is covered by the
proofs, where there is one.

**Fairness.** The loop task runs for ever: weak fairness of its steps. Time passes: weak fairness of
`Tick` in `SocketLink`, where a pass cannot last longer than `MaxStall`, strong in `WifiManager`, where
`Prompt` allows it only between two passes. With WiFi and the server up, a fresh client's first attempt
is made and some handshake is answered (`SF` of `FirstAttempt` and `Accept`): one that is always
interrupted at the same point would be another network. The library's later attempts are *not* assumed:
only `watchdog()` makes them certain. A scan ends, the driver leaves a link it was told to leave, and
joins a network that can be joined again and again. The sketch calls `init()`. Switches, requests, losses
and crashes are never forced.

In `EventBus` the tasks run, a callback that does not subscribe returns, and whoever waits for the mutex
gets it if it becomes free again and again: FreeRTOS wakes the waiting tasks by priority and then by
age. Publishing and subscribing are never forced. In `FileTransfer` the library's `loop()` and the
sketch's callback return and the passes go on; messages, connections, closes and restarts are not forced.

## 5. Proofs

`tlapm` proves, for every value of the constants allowed by the named assumptions (a positive baseline
not above the cap; the rest natural numbers or truth values; empty credentials are not credentials, the
empty zone is no zone, nobody is no user or task; a queue has room, an image a part):

**Invariants.**

* **SocketLink**: `IndInv == TypeOK /\ Consistent`. `Consistent` joins six properties of the runs with
  `RetryWithoutConnection`, which carries what `watchdog()` has checked over to its `reconnect(false)`:
  without it that step could replace an open connection and leave its count of subscribers behind, or keep a client
  of a socket that was off. `NextTyped` and `NextConsistent` have a step for each action. Every invariant
  of `socket_safety` follows (`...Holds`), and so do both of its action properties: `NoReconnectStorm` because a client always has a
  mark (`ClientHasAttempted`) and `reconnectTime >= Base`; `NoAttemptWhileOff` because a retry in
  progress implies that the socket is on.
* **WifiManager**: types; `LossIsRemembered` and `StageNeedsHistory`, which are inductive given the types;
  `FallbackOnlyBeforeConnect`, action by action; `IntervalInRange` and `IntervalGrows` about
  `_wifiReconnectBackoffMs()` for every stage. `SavedOnSight` is what remains true of `SavedWasJoined`, which
  `wifi_unverified` violates: credentials are saved only by a pass that found an unrecorded connection
  while a candidate was pending, never by a retry, a give-up, the switch, a request or a crash. That the
  connection was made with them is the part that fails.
* **Timezone**: `InEffect` and `Saved` with `Working`, which says where a zone is while the flags are down
  and `_tzFlush()` has not reached it yet: in its copy, or set again since and flagged again.
* **EventBus**: `IndInv` joins the types, `OwnedOnce`, `OneNodePerKey`, `CallsMatch` and `MutexHeld`, which
  says who may hold the mutex at each step and that a node without its callback belongs to a task that
  holds it. `NoEmptyCallback` follows.
* **FileWire, FileTransfer**: `RoundTrip` (what `build()` makes, `parse()` accepts and finds again);
  `IndInv`, which follows a request that has no answer through the slot and the callback: its connection
  is up or none is (`Unanswered`). The five invariants of the run follow.
* **Firmware**: `IndInv` adds to the invariants of the run `SavedIsAsked` (what NVS holds was asked for in
  this boot, once the boot has cleared it), `CountInSteps` (what the boot has yet to write) and `ImageIsOwn`
  (as long as nothing was disturbed, `Update` holds what its only writer wrote). The action property
  `BrokenNeedsDisturbance` follows from the last.
* **DstRule**: `NthIsNth` (the first to fourth are right), `FifthIsNeverLast` (the fifth never is),
  `SummerIsWhole` (the comparison of `getTZOffset()` is right on both hemispheres), for every year and month.

**Refinements.** Both are shown action by action: `Init` maps to the abstract initial state, and each step
to one abstract step or to a stutter.

* `ImplementsLinkHolds`: `WifiManager` implements `WifiLink`. Besides the types it needs `LinkInvariant`: the
  status says "connected" of exactly the times a network is joined, so that what a pass reads is the link; a
  pass goes beyond its first line only while WiFi is on, without which a give-up could follow `SwitchOff`;
  and a pass at `joined` has seen a connection that is not recorded, which `SavedOnSight` rests on. Retries, scans, requests and attempts that are still counted stutter (`Stutters`);
  a give-up is `Forget`; `SaveAndRestart` is `Restart`.
* `UsesContract`: `SocketLink` takes only steps of `WifiLink`; the other side of the same contract.
  `WifiLink_proofs` proves of the contract alone what its user may conclude (`Honest`): a recorded connection
  was reported, and nothing is recorded or reported while WiFi is off.
* `ImplementsPromise`: `EventBus` implements `EventPromise`. Each action maps to the promise's action of its
  name or to a stutter (`Take`, `Find`, `Skip`, `Subscribe` change nothing that is promised). It needs `IndInv`:
  the walk of `dispatch()` calls each due key once because no key has two nodes, and the list stays still
  because the bus holds the mutex.

**What the liveness properties rest on.** Fairness is out of the prover's reach, so `DeadPeerNoticed`,
`KeepsConnecting`, `Recovers` (with `WifiLink`'s `Settles`), `FallbackComes`, `Settles`, `EventsServed`,
`SubscribersServed` and `RequestAnswered` are only model-checked. For five of them the part that is
about the code, not about the scheduler, is proved for every value of the constants:

* `RequestAnswered`: when a pass of `loop()` has been at the slot, no request waits whose connection is still
  up (`AnsweredInPass`). `Accounted` makes it inductive: a request without an answer is in the slot or in the
  callback, so none is overwritten, dropped at a full slot or left over.
* `Settles`: with nothing flagged and no job under way both zones are in effect and in NVS (`QuietMeansDone`), and
  every step of the loop task makes `Work`, a number from 0 to 8, smaller (`WorkShrinks`): unless
  something is set meanwhile it ends within eight steps.
* `EventsServed`, `SubscribersServed`: whoever holds the mutex can go on without waiting (`HolderGoesOn`; the
  callback that subscribes is the exception), and a delivery's own steps shorten it while nobody else's
  lengthen it (`DeliveryShrinks`).
* `DeadPeerNoticed`: the clock of a dead connection only runs on (`DeadIsStarved`), and a turn of `watchdog()` that
  finds it beyond `watchdog_time` ends it (`SilentIsClosed`).

For `KeepsConnecting` one half is proved: nothing but an attempt, a success or a restart puts the next retry off, and a
retry at most doubles the wait (`OnlyAttemptsPostpone`). That the attempts then succeed is fairness.

Assumed, and neither checked nor proved: that the external C library, `Update`, FreeRTOS, the WiFi driver
and the WebSockets library do what sections 2.1 to 2.8 say.

## 6. Not modelled

* TLS, DNS, NTP, JSON, log lines and pages: I/O and text. `HAMqtt`: formatting over an external client.
* The shared document `_doc`, which `/sc/status` fills on the web server's task, and the client that
  `reconnect()` deletes while another task may be sending: nothing in the code prevents these races,
  so any outcome would be allowed and nothing could be stated.
* `WifiManager` without handleWifi: `tryAndSaveCredentials()` blocks the web server's task until the
  attempt ends and nothing else of the component runs.
* `millis()` wrapping around after 49.7 days; `SocketClient::init` being called twice.
* A pair of credentials as two NVS keys: a mixture after a crash is a pair that does not join, which the
  models have as the mistyped pair.
* The ESP8266's `ESPhttpUpdate`, which does a whole update by itself.
* `Mutex.h`: a wrapper for sketches; nothing in the library uses it.
* The reconnect count and interval of the diagnostics: counters in RAM that only the report shows.

What would come next: a clock that wraps; the unmanaged mode; what the boot of `Firmware` promises to its reader
as a specification of its own.
