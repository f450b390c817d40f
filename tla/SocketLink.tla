----------------------------- MODULE SocketLink -----------------------------
(***************************************************************************)
(* The connection to the server as SocketClient keeps it: the on/off       *)
(* switches, the callbacks of WifiManager, the client object, watchdog()   *)
(* and its backoff, reboot().                                              *)
(*                                                                         *)
(* Actors: the Arduino loop task, which runs loop() one call at a time     *)
(* (pc is the call it is about to make) and between two passes the sketch; *)
(* other tasks, which only set wants and ask for a reboot; WifiManager,    *)
(* which takes the steps of its contract WifiLink; the server and the      *)
(* WebSocketsClient library (external).                                    *)
(*                                                                         *)
(* Times are ages in ticks, capped one above the largest interval they are *)
(* compared with, and Unset for the value 0 that the code uses for "none". *)
(***************************************************************************)
EXTENDS Integers

CONSTANTS
    Base,        \* reconnect_time's baseline (30 s), in ticks
    MaxTime,     \* max_reconnect_time (180 s)
    DogTime,     \* watchdog_time (30 s)
    Grace,       \* WIFI_RECONNECT_GRACE_MS (1.5 s)
    MaxSubs,     \* bound: browsers that have the device open
    MaxStall,    \* bound: ticks that pass between two starts of loop()
    HandleWifi,  \* SocketClientConfig_t::handleWifi
    Disturbed    \* bound: whether the sketch calls reconnect(), disconnect(),
                 \* stopReconnect() and reboot() itself, and the chip may crash

ASSUME BaseAssumption == Base \in Nat \ {0}
ASSUME MaxTimeAssumption == MaxTime \in Nat /\ Base <= MaxTime
ASSUME TimesAssumption == DogTime \in Nat /\ Grace \in Nat
ASSUME BoundsAssumption == MaxSubs \in Nat /\ MaxStall \in Nat
ASSUME FlagsAssumption == HandleWifi \in BOOLEAN /\ Disturbed \in BOOLEAN

Unset == -1

Steps == {"top", "wifi", "joined", "pending", "pump", "watchdog", "retry"}

\* The client object. "dead" is a connection whose peer is gone and the library
\* has not noticed: isConnected() still answers true.
Clients == {"null", "closed", "handshake", "open", "dead"}

VARIABLES
    pc,              \* the call of loop() about to be made
    socketWant, wifiWant,   \* _socket_want, _wifi_want: written by any task
    socketOn, wifiOn,       \* _socket_on, _wifi_on: what loop() last applied
    wifiUp,          \* WiFi.isConnected()
    server,          \* the server can be reached through WiFi
    wifiStatus,      \* WifiManager's _wifi_status, what its loop() has recorded
    told,            \* its last callback: _onInternetRestored ("up") or _onInternetLost
    pendingIn,       \* _pendingWifiReconnect with the time left, or Unset
    ws,              \* _webSocket
    interval,        \* its reconnect interval: "fast", or "never" (MAX_ULONG)
    lastDog,         \* last_dog
    lastReconnect,   \* last_reconnect
    reconnectTime,   \* reconnect_time
    subs,            \* _subscriberCount
    pendingReboot,   \* _pendingReboot
    stall            \* ticks since loop() last started

switches == <<socketWant, wifiWant>>
manager  == <<wifiOn, wifiUp, wifiStatus, told>>
client   == <<ws, interval, lastDog, subs>>
backoff  == <<lastReconnect, reconnectTime>>
vars == <<pc, switches, socketOn, manager, server, pendingIn, client, backoff, pendingReboot,
          stall>>

isConnected == ws \in {"open", "dead"}

\* WiFi management, by what it promises; its loop() is the steps "wifi" and "joined".
Wifi == INSTANCE WifiLink WITH
    on <- wifiOn,
    up <- wifiUp,
    seen <- wifiStatus,
    reporting <- pc = "joined"

-----------------------------------------------------------------------------
(* The library's events, as SocketClient_webSocketEvent handles them.      *)

\* Seeded faults (names with an underscore) stand before the definition they replace: the
\* count of subscribers, or the watchdog's clock, outlives the connection.
OnDisconnected_KeepsSubs == lastDog' = Unset /\ UNCHANGED subs
OnDisconnected_KeepsDog == subs' = 0 /\ UNCHANGED lastDog

\* WStype_DISCONNECTED. The library raises it from disconnect(), from the
\* destructor and from loop(), so it always comes with the client closing.
OnDisconnected == lastDog' = Unset /\ subs' = 0

\* Seeded faults: success marks "never attempted" (the bug the handler's comment tells
\* of), or leaves the backoff where the failures took it.
OnConnected_Unmarked ==
    lastDog' = 0 /\ lastReconnect' = Unset /\ reconnectTime' = Base /\ UNCHANGED subs
OnConnected_KeepsBackoff ==
    lastDog' = 0 /\ lastReconnect' = 0 /\ UNCHANGED <<reconnectTime, subs>>

\* WStype_CONNECTED.
OnConnected ==
    /\ lastDog' = 0
    /\ lastReconnect' = 0
    /\ reconnectTime' = Base
    /\ UNCHANGED subs

\* What the device does with a text message; any frame feeds the watchdog.
OnText(message, count) ==
    /\ lastDog' = 0
    /\ subs' = IF message = "subs" THEN count ELSE subs
    /\ pendingReboot' = (pendingReboot \/ message = "reboot")

\* disconnect() of the library: the interval survives.
Close ==
    /\ ws' = IF ws = "null" THEN "null" ELSE "closed"
    /\ OnDisconnected
    /\ UNCHANGED interval

NewClient == ws' = "closed" /\ interval' = "fast" /\ OnDisconnected

-----------------------------------------------------------------------------
(* SocketClient's helpers.                                                 *)

\* Seeded fault: reconnect() looks at WiFi only.
MayReconnect_SwitchedOff(on, up) == up

\* reconnect() does nothing with the socket switched off or without WiFi.
MayReconnect(on, up) == on /\ up

\* Seeded fault: only watchdog() marks its attempts (the bug reconnect()'s comment tells of).
Reconnect_Unmarked(on, up) ==
    IF MayReconnect(on, up)
    THEN NewClient /\ UNCHANGED lastReconnect
    ELSE UNCHANGED <<client, lastReconnect>>

\* reconnect(), but for reconnect_time, which its callers treat differently.
Reconnect(on, up) ==
    IF MayReconnect(on, up)
    THEN NewClient /\ lastReconnect' = 0
    ELSE UNCHANGED <<client, lastReconnect>>

\* reconnect(true): a fresh condition drops the backoff.
ReconnectFresh(on, up) ==
    /\ Reconnect(on, up)
    /\ reconnectTime' = IF MayReconnect(on, up) THEN Base ELSE reconnectTime

\* stopReconnect(), the callback _onInternetLost.
Stopped == IF ws = "null" THEN interval ELSE "never"

\* Seeded fault: no cap.
NextReconnectTime_Uncapped(t) == t * 2

\* reconnect_time after a retry of watchdog().
NextReconnectTime(t) == IF t > MaxTime \div 2 THEN MaxTime ELSE t * 2

\* Seeded fault: a socket that is switched off is pumped and watched.
Unwatched_NullOnly == ws = "null"

\* Nothing to pump or to watch: no client, or the socket is switched off.
Unwatched == ws = "null" \/ ~socketOn

\* Seeded fault: a client that stopReconnect() stopped is left to the next callback.
RetryDue_NotStopped ==
    /\ ~isConnected /\ wifiUp /\ interval = "fast"
    /\ lastReconnect = Unset \/ lastReconnect > reconnectTime

\* When watchdog() retries on its own.
RetryDue ==
    /\ ~isConnected
    /\ wifiUp
    /\ lastReconnect = Unset \/ lastReconnect > reconnectTime

\* Seeded fault: silence is left to the library's heartbeat, which may be off.
DogDue_WithoutWifi == wifiUp /\ lastDog # Unset /\ lastDog > DogTime

\* When watchdog() gives a silent connection up.
DogDue == lastDog # Unset /\ lastDog > DogTime

-----------------------------------------------------------------------------
\* _init() with WiFi already up or not: WifiManager started when handleWifi, then
\* a first reconnect().
Init ==
    /\ pc = "top"
    /\ socketWant = TRUE /\ wifiWant = TRUE
    /\ socketOn = TRUE
    /\ Wifi!Init
    /\ server \in BOOLEAN
    /\ pendingIn = Unset
    /\ ws = IF wifiUp THEN "closed" ELSE "null"
    /\ interval = "fast"
    /\ lastDog = Unset
    /\ lastReconnect = IF wifiUp THEN 0 ELSE Unset
    /\ reconnectTime = Base
    /\ subs = 0
    /\ pendingReboot = FALSE
    /\ stall = 0

\* The chip restarts: _init() runs again and nothing in memory survives.
Boot ==
    /\ pc' = "top"
    /\ socketWant' = TRUE /\ wifiWant' = TRUE
    /\ socketOn' = TRUE
    /\ Wifi!Restart
    /\ UNCHANGED server
    /\ pendingIn' = Unset
    /\ ws' = IF wifiUp' THEN "closed" ELSE "null"
    /\ interval' = "fast"
    /\ OnDisconnected
    /\ lastReconnect' = IF wifiUp' THEN 0 ELSE Unset
    /\ reconnectTime' = Base
    /\ pendingReboot' = FALSE
    /\ stall' = 0

-----------------------------------------------------------------------------
(* loop(), one action per call it makes.                                   *)

\* A reboot asked for: the socket closes and System::reboot() restarts the chip.
Reboot == pc = "top" /\ pendingReboot /\ Boot

\* Seeded fault: the WiFi switch does not concern the socket.
WantedSocket_Alone == socketWant

\* The socket runs only while WiFi is wanted too.
WantedSocket == socketWant /\ wifiWant

\* WifiManager::setEnabled(), when there is something to change.
SetEnabled ==
    \/ wifiWant = wifiOn /\ UNCHANGED manager
    \/ wifiWant # wifiOn /\ (Wifi!SwitchOff \/ Wifi!SwitchOn)

\* The interval setEnabled() leaves: the loss it reports runs stopReconnect().
IntervalAfterSwitch ==
    IF wifiStatus = "connected" /\ wifiOn /\ ~wifiWant THEN Stopped ELSE interval

\* _applyOnOff(): the socket goes before WiFi on the way down, after it on the way up.
ApplyOnOff ==
    /\ pc = "top" /\ ~pendingReboot
    /\ pc' = "wifi"
    /\ SetEnabled
    /\ \/ /\ socketOn /\ ~WantedSocket
          /\ socketOn' = FALSE
          /\ pendingIn' = Unset
          /\ ws' = IF ws = "null" THEN "null" ELSE "closed"
          /\ OnDisconnected
          /\ interval' = IntervalAfterSwitch
          /\ UNCHANGED backoff
       \/ /\ ~socketOn /\ WantedSocket
          /\ socketOn' = TRUE
          /\ ReconnectFresh(TRUE, wifiUp)
          /\ UNCHANGED pendingIn
       \/ /\ socketOn = WantedSocket
          /\ interval' = IntervalAfterSwitch
          /\ UNCHANGED <<socketOn, pendingIn, ws, lastDog, subs, backoff>>
    /\ stall' = 0
    /\ UNCHANGED <<switches, server, pendingReboot>>

\* WifiManager::loop(), as far as the socket can tell. A link that is up and not recorded
\* is always found; a link that is down need not have a status that means lost.
WifiLoop ==
    /\ pc = "wifi"
    /\ \/ /\ HandleWifi
          /\ pc' = "joined"
          /\ Wifi!Find
          /\ UNCHANGED interval
       \/ /\ HandleWifi
          /\ pc' = "pending"
          /\ Wifi!ReportLoss
          /\ interval' = Stopped
       \/ /\ HandleWifi
          /\ pc' = "pending"
          /\ Wifi!Forget
          /\ UNCHANGED interval
       \/ /\ ~(HandleWifi /\ wifiOn /\ wifiUp /\ wifiStatus # "connected")
          /\ pc' = "pending"
          /\ UNCHANGED <<manager, interval>>
    /\ UNCHANGED <<switches, socketOn, server, pendingIn, ws, lastDog, subs, backoff,
                   pendingReboot, stall>>

\* The rest of that pass, _wifiConnected(): the return schedules a reconnect.
WifiReturn ==
    /\ pc = "joined"
    /\ pc' = "pending"
    /\ Wifi!ReportReturn
    /\ pendingIn' = Grace
    /\ UNCHANGED <<switches, socketOn, server, client, backoff, pendingReboot, stall>>

\* The reconnect that the return of WiFi scheduled.
PendingReconnect ==
    /\ pc = "pending"
    /\ pc' = "pump"
    /\ IF pendingIn = 0
       THEN pendingIn' = Unset /\ ReconnectFresh(socketOn, wifiUp)
       ELSE UNCHANGED <<pendingIn, client, backoff>>
    /\ UNCHANGED <<switches, socketOn, manager, server, pendingReboot, stall>>

\* _webSocket->loop() runs.
Pumped == pc = "pump" /\ ~Unwatched /\ pc' = "watchdog"

\* The library leaves the client as it is: nothing has arrived, or it is too early
\* for the next attempt.
PumpIdle ==
    /\ pc = "pump"
    /\ pc' = "watchdog"
    /\ UNCHANGED <<switches, socketOn, manager, server, pendingIn, client, backoff,
                   pendingReboot, stall>>

\* The library's own attempt; an interval of MAX_ULONG never comes.
Attempt ==
    /\ Pumped
    /\ ws = "closed" /\ interval = "fast" /\ wifiUp /\ server
    /\ ws' = "handshake"
    /\ UNCHANGED <<switches, socketOn, manager, server, pendingIn, interval, lastDog, subs,
                   backoff, pendingReboot, stall>>

\* The server answers the handshake.
Accept ==
    /\ Pumped
    /\ ws = "handshake" /\ wifiUp /\ server
    /\ ws' = "open"
    /\ OnConnected
    /\ UNCHANGED <<switches, socketOn, manager, server, pendingIn, interval, pendingReboot, stall>>

\* The connection ends: the server closes it, TCP fails or the heartbeat gives up.
Drop ==
    /\ Pumped
    /\ ws \in {"handshake", "open", "dead"}
    /\ Close
    /\ UNCHANGED <<switches, socketOn, manager, server, pendingIn, backoff, pendingReboot, stall>>

\* A frame from the server: "@subs" with a count, "@reboot", or any other text,
\* binary or pong.
Receive ==
    /\ Pumped
    /\ ws = "open" /\ wifiUp /\ server
    /\ \E message \in {"subs", "reboot", "other"}, count \in 0..MaxSubs : OnText(message, count)
    /\ UNCHANGED <<switches, socketOn, manager, server, pendingIn, ws, interval, backoff, stall>>

\* watchdog(): a retry, or the end of a silent connection, never both in a pass.
Watchdog ==
    /\ pc = "watchdog"
    /\ \/ /\ Unwatched \/ (~RetryDue /\ ~DogDue)
          /\ pc' = "top"
          /\ UNCHANGED <<client, lastReconnect>>
       \/ /\ ~Unwatched /\ RetryDue
          /\ pc' = "retry"
          /\ lastReconnect' = 0
          /\ UNCHANGED client
       \/ /\ ~Unwatched /\ ~RetryDue /\ DogDue
          /\ pc' = "top"
          /\ Close
          /\ UNCHANGED lastReconnect
    /\ UNCHANGED <<switches, socketOn, manager, server, pendingIn, reconnectTime,
                   pendingReboot, stall>>

\* watchdog()'s reconnect(false), which reads WiFi.isConnected() again, and the backoff.
Retry ==
    /\ pc = "retry"
    /\ pc' = "top"
    /\ Reconnect(socketOn, wifiUp)
    /\ reconnectTime' = NextReconnectTime(reconnectTime)
    /\ UNCHANGED <<switches, socketOn, manager, server, pendingIn, pendingReboot, stall>>

LoopStep ==
    \/ Reboot \/ ApplyOnOff \/ WifiLoop \/ WifiReturn \/ PendingReconnect
    \/ PumpIdle \/ Attempt \/ Accept \/ Drop \/ Receive
    \/ Watchdog \/ Retry

-----------------------------------------------------------------------------
(* The sketch between two passes, other tasks, and the world.              *)

\* The public operations a sketch may call itself: reconnect(), disconnect(),
\* stopReconnect().
SketchReconnect ==
    /\ Disturbed /\ pc = "top"
    /\ ReconnectFresh(socketOn, wifiUp)
    /\ UNCHANGED <<pc, switches, socketOn, manager, server, pendingIn, pendingReboot, stall>>

SketchDisconnect ==
    /\ Disturbed /\ pc = "top"
    /\ Close
    /\ UNCHANGED <<pc, switches, socketOn, manager, server, pendingIn, backoff, pendingReboot,
                   stall>>

SketchStopReconnect ==
    /\ Disturbed /\ pc = "top"
    /\ interval' = Stopped
    /\ UNCHANGED <<pc, switches, socketOn, manager, server, pendingIn, ws, lastDog, subs,
                   backoff, pendingReboot, stall>>

\* socketOn(), socketOff(), wifiOn(), wifiOff(): from any task, at any point of loop().
Switch ==
    /\ \/ socketWant' = ~socketWant /\ UNCHANGED wifiWant
       \/ wifiWant' = ~wifiWant /\ UNCHANGED socketWant
    /\ UNCHANGED <<pc, socketOn, manager, server, pendingIn, client, backoff, pendingReboot,
                   stall>>

\* reboot(), from any task.
AskReboot ==
    /\ Disturbed
    /\ pendingReboot' = TRUE
    /\ UNCHANGED <<pc, switches, socketOn, manager, server, pendingIn, client, backoff, stall>>

\* Power loss, the hardware watchdog, or a restart that other parts of the library ask
\* System::reboot() for directly.
Crash == Disturbed /\ Boot

\* WiFi comes and goes, for a while also after it was switched off. A connection may or
\* may not survive the gap.
WifiChange ==
    /\ UNCHANGED pc
    /\ Wifi!LinkChange
    /\ ws' \in IF wifiUp /\ ws = "open" THEN {"open", "dead"} ELSE {ws}
    /\ UNCHANGED <<switches, socketOn, server, pendingIn, interval, lastDog, subs, backoff,
                   pendingReboot, stall>>

\* The server becomes reachable or not; a peer that is gone does not come back.
ServerChange ==
    /\ server' = ~server
    /\ ws' = IF server /\ ws = "open" THEN "dead" ELSE ws
    /\ UNCHANGED <<pc, switches, socketOn, manager, pendingIn, interval, lastDog, subs,
                   backoff, pendingReboot, stall>>

Older(age, cap) == IF age = Unset \/ age = cap THEN age ELSE age + 1

Tick ==
    /\ stall < MaxStall
    /\ stall' = stall + 1
    /\ lastDog' = Older(lastDog, DogTime + 1)
    /\ lastReconnect' = Older(lastReconnect, MaxTime + 1)
    /\ pendingIn' = IF pendingIn > 0 THEN pendingIn - 1 ELSE pendingIn
    /\ UNCHANGED <<pc, switches, socketOn, manager, server, ws, interval, subs, reconnectTime,
                   pendingReboot>>

World ==
    \/ SketchReconnect \/ SketchDisconnect \/ SketchStopReconnect
    \/ Switch \/ AskReboot \/ Crash \/ WifiChange \/ ServerChange \/ Tick

Next == LoopStep \/ World

Spec == Init /\ [][Next]_vars

\* A new client makes its first attempt at once: no failure holds it back yet.
FirstAttempt == Attempt /\ lastReconnect <= Base

\* loop() is called for ever and time passes; with WiFi and the server up, first attempts
\* are made and some attempt is answered.
FairSpec ==
    /\ Spec
    /\ WF_vars(LoopStep)
    /\ WF_vars(Tick)
    /\ SF_vars(FirstAttempt)
    /\ SF_vars(Accept)

-----------------------------------------------------------------------------
(* What must hold.                                                         *)

\* Every variable keeps its range; reconnect_time stays between the baseline and the cap
\* however many retries fail.
TypeOK ==
    /\ pc \in Steps
    /\ socketWant \in BOOLEAN /\ wifiWant \in BOOLEAN
    /\ socketOn \in BOOLEAN /\ wifiOn \in BOOLEAN
    /\ wifiUp \in BOOLEAN /\ server \in BOOLEAN
    /\ wifiStatus \in Wifi!Records
    /\ told \in {"up", "down"}
    /\ pendingIn \in Unset..Grace
    /\ ws \in Clients
    /\ interval \in {"fast", "never"}
    /\ lastDog \in Unset..(DogTime + 1)
    /\ lastReconnect \in Unset..(MaxTime + 1)
    /\ reconnectTime \in Base..MaxTime
    /\ subs \in 0..MaxSubs
    /\ pendingReboot \in BOOLEAN
    /\ stall \in 0..MaxStall

\* The socket is on only while WiFi is: the order in _applyOnOff() never leaves a client
\* alive on a radio that is switched off.
SocketNeedsWifi == socketOn => wifiOn

\* socketOff() and wifiOff() mean a closed connection, whatever reconnect was scheduled,
\* retried or asked for by the sketch in between.
OffMeansClosed == ~socketOn => ws \in {"null", "closed"}

\* Subscribers are only counted for the connection they were announced on: a count never
\* outlives it (SocketClient.h, _subscriberCount).
SubsOnlyWhileConnected == subs > 0 => isConnected

\* Exactly the connections that claim to be up have a running watchdog timer, even after
\* stopReconnect() has switched the library's heartbeat off.
ConnectedIsWatched == isConnected <=> lastDog # Unset

\* A connection that is up has put the backoff back to the baseline, so the first retry
\* after it is lost is not delayed by the failures before it.
ConnectedIsBaseline == isConnected => reconnectTime = Base

\* The "never attempted" value 0 of last_reconnect, which skips all backoff, is gone as
\* soon as there is a client (the reconnect storm the CONNECTED handler's comment tells of).
ClientHasAttempted == ws # "null" => lastReconnect # Unset

\* What the retry of watchdog() rests on between its check and its reconnect().
RetryWithoutConnection == pc = "retry" => socketOn /\ ws # "null" /\ ~isConnected

\* What relates the client, its watchdog and its backoff, with what makes it inductive.
Consistent ==
    /\ SocketNeedsWifi
    /\ OffMeansClosed
    /\ SubsOnlyWhileConnected
    /\ ConnectedIsWatched
    /\ ConnectedIsBaseline
    /\ ClientHasAttempted
    /\ RetryWithoutConnection

IndInv == TypeOK /\ Consistent

\* watchdog() never retries sooner than the baseline after any earlier attempt or success.
NoReconnectStorm == [][pc = "watchdog" /\ pc' = "retry" => lastReconnect > Base]_vars

\* While the socket is off nobody replaces the client: neither the scheduled reconnect,
\* nor watchdog(), nor a sketch that calls reconnect().
NoAttemptWhileOff ==
    [][~socketOn /\ ~socketOn' =>
          /\ lastReconnect' >= lastReconnect
          /\ ws = "null" => ws' = "null"]_vars

\* A connection whose peer is gone does not claim to be up for ever, although
\* stopReconnect() may have switched the heartbeat off.
DeadPeerNoticed == ws = "dead" ~> ws # "dead"

\* What the world must grant for the device to be online.
Reachable == socketWant /\ wifiWant /\ wifiUp /\ server

\* With both switches on and WiFi and the server there to stay, a device that has a client
\* keeps getting connected: no stopReconnect() and no missed flap of WiFi strands it.
\* (Settles: the give-ups of WifiManager come to an end. MaxStall = 1: a pass of loop() is
\* shorter than the time between two retries.)
KeepsConnecting == Wifi!Settles => (<>[](Reachable /\ ws # "null") => []<>(ws = "open"))

-----------------------------------------------------------------------------
(* What comments of the code say, and the code does not do.                *)

\* reconnect()'s comment: since every caller marks its attempt, a fresh WiFi connection is
\* no longer followed by a second, redundant reconnect() that tears down the client just
\* created. (A client made before WiFi was lost has the interval "never".)
NoRedundantReconnect ==
    [][pc = "pending" /\ pendingIn = 0 => ~(ws = "open" /\ interval = "fast")]_vars

\* _applyOnOff()'s comment on reconnect(): "a no-op without WiFi: its return then schedules
\* the reconnect".
ReturnReconnects == Wifi!Settles => (<>(~socketOn) /\ <>[]Reachable => <>(ws # "null"))
=============================================================================
