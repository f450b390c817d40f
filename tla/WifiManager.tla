---------------------------- MODULE WifiManager ----------------------------
(***************************************************************************)
(* WifiManager with handleWifi: the station connection, its retries and    *)
(* backoff, the AP+STA fallback, new credentials from the web page and the *)
(* on/off switch.                                                          *)
(*                                                                         *)
(* Actors: the Arduino loop task, which runs loop() in four steps (pc), so *)
(* that other tasks run between two reads of the same variable, and between*)
(* two passes setEnabled(); the AsyncTCP task, which runs the handlers of  *)
(* /sc/wifi (web is the step of tryNewCredentials() about to be made); the *)
(* Wi-Fi driver and the network (external).                                *)
(*                                                                         *)
(* Times are ages in ticks; a timestamp is only compared with an interval, *)
(* so its age is capped one above the largest one.                         *)
(***************************************************************************)
EXTENDS Integers

CONSTANTS
    Creds,        \* pairs of ssid and password
    Networks,     \* those that belong to a real network
    NoCreds,      \* empty credentials
    Attempts,     \* connection checks, one second apart, before giving up (15)
    Base,         \* RECONNECT_BACKOFF_BASE_MS, in ticks
    MaxInterval,  \* RECONNECT_BACKOFF_MAX_MS
    Grace,        \* AP_FALLBACK_GRACE_MS
    MaxStage,     \* bound: the stage is not counted further; its interval is the cap
    Requests,     \* bound: what web clients ask for, of "connect", "disconnect", "scan"
    Crashes,      \* bound: whether the chip may restart on its own
    Prompt        \* bound: a pass of loop() is short against a tick, so that time passes
                  \* between two passes and no check of an attempt waits for the next tick

ASSUME CredsAssumption == NoCreds \notin Creds /\ Networks \subseteq Creds
ASSUME AttemptsAssumption == Attempts \in Nat \ {0}
ASSUME BaseAssumption == Base \in Nat \ {0} /\ MaxInterval \in Nat /\ Base <= MaxInterval
ASSUME GraceAssumption == Grace \in Nat
ASSUME StageAssumption == MaxStage \in Nat \ {0}
ASSUME RequestsAssumption == Requests \subseteq {"connect", "disconnect", "scan"}
ASSUME FlagsAssumption == Crashes \in BOOLEAN /\ Prompt \in BOOLEAN

VARIABLES
    pc,            \* the step of loop() about to be made
    seenUp,        \* loop()'s wifiStatus, read when the pass began, is WL_CONNECTED
    enabled,       \* _enabled
    wifiStatus,    \* _wifi_status
    creds,         \* _wifi_ssid, _wifi_password
    connecting,    \* _connecting_time: "off" (0), "running", or "due" once a second old
    attempts,      \* _connecting_attempts
    pendingSave,   \* _pending_save
    everConnected, \* _everConnected
    stage,         \* _reconnect_backoff_stage
    apFinal,       \* _apStaFinal
    apAge,         \* age of _ap_time
    bootAge,       \* age of _boot_time
    nvs,           \* the credentials in NVS
    web,           \* the step of tryNewCredentials() about to be made
    candidate,     \* its argument
    mode,          \* WiFi.getMode()
    want,          \* what the driver tries to join, from the last WiFi.begin()
    link,          \* what it has joined
    status,        \* WiFi.status()
    scanning,      \* a scan runs
    airUp,         \* the networks can be joined
    told           \* the last callback: _onInternetRestored ("up") or _onInternetLost

manager == <<enabled, wifiStatus, creds, connecting, attempts, pendingSave, everConnected,
             stage, apFinal, apAge, bootAge>>
driver  == <<mode, want, link, status>>
page    == <<web, candidate>>
world   == <<scanning, airUp>>
vars == <<pc, seenUp, manager, nvs, page, driver, world, told>>

Statuses == {"connected", "lost", "other"}   \* "lost": CONNECTION_LOST or DISCONNECTED
Modes == {"OFF", "STA", "AP", "APSTA"}
Stations == {"STA", "APSTA"}

apUp == mode \in {"AP", "APSTA"}

-----------------------------------------------------------------------------
(* Intervals.                                                              *)

PowersOfTwo == <<1, 2, 4, 8, 16, 32>>

\* _wifiReconnectBackoffMs()
Interval(s) ==
    IF s = 0 THEN Base
    ELSE IF s - 1 >= 6 THEN MaxInterval
    ELSE IF Base * PowersOfTwo[s] > MaxInterval THEN MaxInterval
    ELSE Base * PowersOfTwo[s]

NextStage(s) == IF s = MaxStage THEN s ELSE s + 1

Older(age, cap) == IF age = cap THEN age ELSE age + 1

-----------------------------------------------------------------------------
(* Calls of the driver.                                                    *)

\* WiFi.begin(c): the link it had goes down by an event of its own.
Begin(c) == want' = c

\* WiFi.disconnect(true) closes the station half of the mode.
StationOff(m) == IF m \in {"APSTA", "AP"} THEN "AP" ELSE "OFF"

\* softAPdisconnect(true) closes the other.
AccessPointOff(m) == IF m \in {"APSTA", "STA"} THEN "STA" ELSE "OFF"

-----------------------------------------------------------------------------
(* WifiManager's helpers.                                                  *)

\* The clock of an attempt. loop() compares it with the time its pass began: a clock that
\* starts during a pass may be ahead of it, and the unsigned difference is due at once.
StartClock ==
    /\ connecting' \in IF pc = "top" THEN {"running"} ELSE {"running", "due"}
    /\ attempts' = 0

\* The rest of _connectingToWifi(): station mode unless the station is on, WiFi.begin().
StartStation(c) ==
    /\ mode' = IF mode \in Stations THEN mode ELSE "STA"
    /\ Begin(c)
    /\ UNCHANGED <<link, status>>

\* Seeded fault (names with an underscore stand before the definition they replace): the
\* status is read when an attempt starts, the bug the comment in _connectingToWifi() warns of.
StatusAfterBegin_Reads == status

\* _connectingToWifi() leaves _wifi_status to loop()'s own transitions.
StatusAfterBegin == wifiStatus

\* _initAPMode() with _apStaFinal = final: an AP+STA that is up is left as it is.
InitAPMode(final) ==
    /\ mode' = "APSTA"
    /\ want' = IF mode = "APSTA" THEN want ELSE NoCreds
    /\ apFinal' = (final \/ mode # "APSTA")
    /\ UNCHANGED <<link, status>>

\* init() with _apStaFinal = final: the credentials it has, or else the AP.
ManagedInit(final) ==
    IF creds # NoCreds
    THEN /\ StartClock
         /\ StartStation(creds)
         /\ wifiStatus' = StatusAfterBegin
         /\ apFinal' = final
    ELSE /\ InitAPMode(final)
         /\ UNCHANGED <<connecting, attempts, wifiStatus>>

\* Seeded faults: every give-up backs off; the grace window never ends; the fallback does
\* not ask for an earlier connection.
Backs_Always == TRUE
Waits_ForEver == ~everConnected
FallsBack_Anyway == bootAge >= Grace

\* What giving an attempt up leads to: once connected the device only backs off, and
\* before that the AP waits for the grace window to end.
Backs == everConnected
Waits == ~everConnected /\ bootAge < Grace
FallsBack == ~everConnected /\ bootAge >= Grace

-----------------------------------------------------------------------------
(* Start.                                                                  *)

Init ==
    /\ pc = "top" /\ seenUp = FALSE
    /\ enabled = TRUE
    /\ wifiStatus = "other"
    /\ nvs \in Creds \union {NoCreds}
    /\ creds = nvs
    /\ connecting = IF nvs = NoCreds THEN "off" ELSE "running"
    /\ attempts = 0
    /\ pendingSave = FALSE /\ everConnected = FALSE
    /\ stage = 0
    /\ apFinal = (nvs = NoCreds)
    /\ apAge = 0 /\ bootAge = 0
    /\ web = "idle" /\ candidate = NoCreds
    /\ mode = IF nvs = NoCreds THEN "APSTA" ELSE "STA"
    /\ want = nvs /\ link = NoCreds /\ status = "other"
    /\ scanning = FALSE /\ airUp \in BOOLEAN
    /\ told = "down"

\* The chip restarts: the constructor reads NVS, init() connects or opens the AP.
Boot(saved) ==
    /\ pc' = "top" /\ seenUp' = FALSE
    /\ enabled' = TRUE
    /\ wifiStatus' = "other"
    /\ nvs' = saved
    /\ creds' = saved
    /\ connecting' = IF saved = NoCreds THEN "off" ELSE "running"
    /\ attempts' = 0
    /\ pendingSave' = FALSE /\ everConnected' = FALSE
    /\ stage' = 0
    /\ apFinal' = (saved = NoCreds)
    /\ apAge' = 0 /\ bootAge' = 0
    /\ web' = "idle" /\ candidate' = NoCreds
    /\ mode' = IF saved = NoCreds THEN "APSTA" ELSE "STA"
    /\ want' = saved /\ link' = NoCreds /\ status' = "other"
    /\ scanning' = FALSE /\ UNCHANGED airUp
    /\ told' = "down"

-----------------------------------------------------------------------------
(* loop().                                                                 *)

\* A pass begins: WiFi.status() is read, and told apart from _wifi_status.
Lost == wifiStatus # "lost" /\ status = "lost"
Joined == wifiStatus # "connected" /\ status = "connected"

SeeLost ==
    /\ pc = "top" /\ enabled
    /\ Lost
    /\ pc' = "scan"
    /\ seenUp' = (status = "connected")
    /\ wifiStatus' = "lost"
    /\ apAge' = 0
    /\ told' = "down"
    /\ UNCHANGED <<enabled, creds, connecting, attempts, pendingSave, everConnected, stage,
                   apFinal, bootAge, nvs, page, driver, world>>

SeeJoined ==
    /\ pc = "top" /\ enabled
    /\ Joined
    /\ pc' = "joined"
    /\ seenUp' = (status = "connected")
    /\ UNCHANGED <<manager, nvs, page, driver, world, told>>

SeeNothingNew ==
    /\ pc = "top" /\ enabled
    /\ ~Lost /\ ~Joined
    /\ pc' = "scan"
    /\ seenUp' = (status = "connected")
    /\ UNCHANGED <<manager, nvs, page, driver, world, told>>

\* _wifiConnected() with a candidate: it is saved, and the chip restarts with it.
SaveAndRestart == pc = "joined" /\ pendingSave /\ Boot(creds)

\* _wifiConnected() otherwise; it reads WiFi.status() again before it reports.
Connected ==
    /\ pc = "joined" /\ ~pendingSave
    /\ pc' = "scan"
    /\ mode' = IF mode = "APSTA" THEN "STA" ELSE mode
    /\ apFinal' = (apFinal /\ mode # "APSTA")
    /\ connecting' = "off" /\ attempts' = 0
    /\ stage' = 0
    /\ everConnected' = TRUE
    /\ wifiStatus' = status
    /\ told' = "up"
    /\ UNCHANGED <<seenUp, enabled, creds, pendingSave, apAge, bootAge, nvs, page,
                   want, link, status, world>>

\* A running scan has the radio: the rest of the pass is put off.
YieldToScan ==
    /\ pc = "scan" /\ scanning
    /\ pc' = "top" /\ seenUp' = FALSE
    /\ UNCHANGED <<manager, nvs, page, driver, world, told>>

\* Seeded fault: no retry once a connection was lost.
RetryDue_FirstOnly == ~apFinal /\ apAge > Interval(stage) /\ ~seenUp /\ ~everConnected

\* The periodic retry is due; after the fallback it never is.
RetryDue == ~apFinal /\ apAge > Interval(stage) /\ ~seenUp

Retry ==
    /\ pc = "scan" /\ ~scanning
    /\ RetryDue
    /\ pc' = "timer"
    /\ apAge' = 0
    /\ ManagedInit(apFinal)
    /\ UNCHANGED <<seenUp, enabled, creds, pendingSave, everConnected, stage, bootAge,
                   nvs, page, world, told>>

NoRetry ==
    /\ pc = "scan" /\ ~scanning
    /\ ~RetryDue
    /\ pc' = "timer"
    /\ UNCHANGED <<seenUp, manager, nvs, page, driver, world, told>>

\* Seeded fault: off by one.
LastAttempt_Late == attempts + 1 > Attempts

\* The attempt's clock, once a second.
LastAttempt == attempts + 1 >= Attempts

ClockIdle ==
    /\ pc = "timer" /\ connecting # "due"
    /\ pc' = "top" /\ seenUp' = FALSE
    /\ UNCHANGED <<manager, nvs, page, driver, world, told>>

CountAttempt ==
    /\ pc = "timer" /\ connecting = "due"
    /\ ~LastAttempt
    /\ pc' = "top" /\ seenUp' = FALSE
    /\ connecting' = "running"
    /\ attempts' = attempts + 1
    /\ UNCHANGED <<enabled, wifiStatus, creds, pendingSave, everConnected, stage, apFinal,
                   apAge, bootAge, nvs, page, driver, world, told>>

\* The attempt is given up: a candidate is forgotten in favour of what NVS has.
GiveUp ==
    /\ pc = "timer" /\ connecting = "due"
    /\ LastAttempt
    /\ pc' = "top" /\ seenUp' = FALSE
    /\ connecting' = "off" /\ attempts' = 0
    /\ wifiStatus' = "lost"
    /\ pendingSave' = FALSE
    /\ creds' = IF pendingSave THEN nvs ELSE creds
    /\ \/ /\ Backs
          /\ stage' = NextStage(stage)
          /\ apAge' = 0
          /\ UNCHANGED <<apFinal, driver>>
       \/ /\ Waits
          /\ apAge' = 0
          /\ UNCHANGED <<stage, apFinal, driver>>
       \/ /\ FallsBack
          /\ InitAPMode(apFinal)
          /\ apAge' = IF mode = "APSTA" THEN apAge ELSE 0
          /\ UNCHANGED stage
    /\ UNCHANGED <<enabled, everConnected, bootAge, nvs, page, world, told>>

LoopStep ==
    \/ SeeLost \/ SeeJoined \/ SeeNothingNew
    \/ SaveAndRestart \/ Connected
    \/ YieldToScan \/ Retry \/ NoRetry
    \/ ClockIdle \/ CountAttempt \/ GiveUp

-----------------------------------------------------------------------------
(* setEnabled(), called between two passes.                                *)

\* Seeded fault: the loss that loop() will not see is not recorded by hand.
StatusAfterOff_Kept == wifiStatus

\* What switching off records, so that the next connection counts as a new one.
StatusAfterOff == "lost"

SwitchOff ==
    /\ pc = "top" /\ enabled
    /\ enabled' = FALSE
    /\ connecting' = "off" /\ attempts' = 0
    /\ pendingSave' = FALSE
    /\ mode' = StationOff(IF mode = "APSTA" THEN AccessPointOff(mode) ELSE mode)
    /\ want' = NoCreds
    /\ wifiStatus' = StatusAfterOff
    /\ told' = IF wifiStatus = "connected" THEN "down" ELSE told
    /\ UNCHANGED <<pc, seenUp, creds, everConnected, stage, apFinal, apAge, bootAge, nvs, page,
                   link, status, world>>

SwitchOn ==
    /\ pc = "top" /\ ~enabled
    /\ enabled' = TRUE
    /\ stage' = 0
    /\ apAge' = 0 /\ bootAge' = 0
    /\ ManagedInit(FALSE)
    /\ UNCHANGED <<pc, seenUp, creds, pendingSave, everConnected, nvs, page, world, told>>

-----------------------------------------------------------------------------
(* The web server's task: one request at a time, from a client that reaches *)
(* the device through the network or through its AP.                        *)

Reachable == apUp \/ link # NoCreds

Request(kind) == kind \in Requests /\ web = "idle" /\ Reachable

\* POST /sc/wifi/connect: tryNewCredentials(c), whose steps loop() may run between.
TryNewCredentials(c) ==
    /\ Request("connect")
    /\ web' = "clock"
    /\ candidate' = c
    /\ pendingSave' = TRUE
    /\ UNCHANGED <<pc, seenUp, enabled, wifiStatus, creds, connecting, attempts, everConnected,
                   stage, apFinal, apAge, bootAge, nvs, driver, world, told>>

TakeCandidate ==
    /\ web = "clock"
    /\ web' = "begin"
    /\ creds' = candidate
    /\ StartClock
    /\ wifiStatus' = StatusAfterBegin
    /\ UNCHANGED <<pc, seenUp, enabled, pendingSave, everConnected, stage, apFinal, apAge,
                   bootAge, nvs, candidate, driver, world, told>>

BeginCandidate ==
    /\ web = "begin"
    /\ web' = "idle" /\ candidate' = NoCreds
    /\ StartStation(candidate)
    /\ UNCHANGED <<pc, seenUp, manager, nvs, world, told>>

\* GET /sc/wifi/disconnect
ClientDisconnect ==
    /\ Request("disconnect")
    /\ mode' = StationOff(mode)
    /\ want' = NoCreds
    /\ UNCHANGED <<pc, seenUp, manager, nvs, page, link, status, world, told>>

\* GET /sc/wifi/scan: not during an attempt; a scan turns the station half on.
StartScan ==
    /\ Request("scan")
    /\ ~scanning /\ connecting = "off"
    /\ scanning' = TRUE
    /\ mode' = IF mode = "AP" THEN "APSTA" ELSE mode
    /\ UNCHANGED <<pc, seenUp, manager, nvs, page, want, link, status, airUp, told>>

WebStep ==
    \/ \E c \in Creds : TryNewCredentials(c)
    \/ TakeCandidate \/ BeginCandidate \/ ClientDisconnect \/ StartScan

-----------------------------------------------------------------------------
(* The driver, the network and time.                                       *)

Join ==
    /\ link = NoCreds /\ mode \in Stations
    /\ want \in Networks /\ airUp
    /\ link' = want
    /\ status' = "connected"
    /\ UNCHANGED <<pc, seenUp, manager, nvs, page, mode, want, world, told>>

\* The link goes down: the network is gone, or the driver was told to leave it.
Leave ==
    /\ link # NoCreds
    /\ ~airUp \/ want # link
    /\ link' = NoCreds
    /\ status' \in {"lost", "other"}
    /\ UNCHANGED <<pc, seenUp, manager, nvs, page, mode, want, world, told>>

\* A failed try of the driver's own changes what WiFi.status() says of it.
Fail ==
    /\ link = NoCreds /\ want # NoCreds
    /\ status' \in {"lost", "other"}
    /\ UNCHANGED <<pc, seenUp, manager, nvs, page, mode, want, link, world, told>>

ScanDone ==
    /\ scanning
    /\ scanning' = FALSE
    /\ UNCHANGED <<pc, seenUp, manager, nvs, page, driver, airUp, told>>

AirChange ==
    /\ airUp' = ~airUp
    /\ UNCHANGED <<pc, seenUp, manager, nvs, page, driver, scanning, told>>

Restart == Crashes /\ Boot(nvs)

Tick ==
    /\ Prompt => pc = "top" /\ ~(enabled /\ connecting = "due")
    /\ apAge' = Older(apAge, MaxInterval + 1)
    /\ bootAge' = Older(bootAge, Grace)
    /\ connecting' = IF connecting = "running" THEN "due" ELSE connecting
    /\ UNCHANGED <<pc, seenUp, enabled, wifiStatus, creds, attempts, pendingSave, everConnected,
                   stage, apFinal, nvs, page, driver, world, told>>

DriverStep == Join \/ Leave \/ Fail \/ ScanDone \/ AirChange \/ Restart \/ Tick

Next == LoopStep \/ SwitchOff \/ SwitchOn \/ WebStep \/ DriverStep

Spec == Init /\ [][Next]_vars

\* loop() is called for ever, a handler that began ends, time passes; a scan ends, a link
\* the driver should leave goes down, and a network that can be joined is joined.
FairSpec ==
    /\ Spec
    /\ WF_vars(LoopStep)
    /\ WF_vars(TakeCandidate \/ BeginCandidate)
    /\ SF_vars(Tick)
    /\ WF_vars(ScanDone)
    /\ WF_vars(Leave)
    /\ SF_vars(Join)

-----------------------------------------------------------------------------
(* What must hold.                                                         *)

\* Every variable keeps its range; the attempts of a connect stay below the limit.
TypeOK ==
    /\ pc \in {"top", "joined", "scan", "timer"}
    /\ seenUp \in BOOLEAN
    /\ enabled \in BOOLEAN
    /\ wifiStatus \in Statuses
    /\ creds \in Creds \union {NoCreds}
    /\ connecting \in {"off", "running", "due"}
    /\ attempts \in 0..(Attempts - 1)
    /\ pendingSave \in BOOLEAN /\ everConnected \in BOOLEAN
    /\ stage \in 0..MaxStage
    /\ apFinal \in BOOLEAN
    /\ apAge \in 0..(MaxInterval + 1) /\ bootAge \in 0..Grace
    /\ nvs \in Creds \union {NoCreds}
    /\ web \in {"idle", "clock", "begin"}
    /\ candidate \in Creds \union {NoCreds}
    /\ mode \in Modes
    /\ want \in Creds \union {NoCreds}
    /\ link \in Networks \union {NoCreds}
    /\ status \in Statuses
    /\ scanning \in BOOLEAN /\ airUp \in BOOLEAN
    /\ told \in {"up", "down"}

\* Whoever was told that the internet is gone will be told when it is back: _wifi_status
\* never hides a connection that was not reported (the comment in _connectingToWifi()).
LossIsRemembered == told = "down" => wifiStatus # "connected"

\* The backoff only ever grows after a connection was lost, never during the first
\* attempts of a boot (the comment above the retry in loop()).
StageNeedsHistory == stage > 0 => everConnected

\* The AP takes the radio only from a device that has not been connected since boot, or
\* that has nothing to connect with.
FallbackOnlyBeforeConnect ==
    [][~apFinal /\ apFinal' => creds' = NoCreds \/ ~everConnected']_vars

\* The contract that SocketLink relies on: the link is whatever is joined, and a return is
\* being reported from the moment loop() has found it.
Link == INSTANCE WifiLink WITH
    on <- enabled,
    up <- link # NoCreds,
    seen <- wifiStatus,
    reporting <- pc = "joined"

\* Whatever web clients, retries, give-ups, scans and the switch do between two steps of a
\* pass, the server connection is told of returns and losses as WifiLink promises.
ImplementsLink == Link!Spec

\* No request of a client and no scan is under way.
Quiet == web = "idle" /\ ~pendingSave /\ ~scanning

\* A device left alone records the link that stays up for good, as WifiLink promises; and
\* within reach of the network of its credentials it gets, and stays, connected and says so,
\* unless it is in its fallback.
Recovers ==
    /\ <>[]Quiet => Link!Settles
    /\ /\ <>[](enabled /\ airUp /\ Quiet /\ ~apFinal /\ creds \in Networks)
       /\ <>[][~ClientDisconnect]_vars
       => <>[](told = "up" /\ link = want)

\* A device that cannot connect after boot ends up with its AP open, unless a client has
\* taken the station half of AP+STA down.
FallbackComes ==
    /\ [](mode # "AP")
    /\ <>[](enabled /\ ~airUp /\ Quiet /\ ~everConnected)
    => <>[]apUp

-----------------------------------------------------------------------------
(* What comments of the code say, and the code does not do.                *)

\* tryNewCredentials(): candidate credentials are "only persisted once the connection
\* actually succeeds".
SavedWasJoined == [][nvs' # nvs => link = nvs']_vars

\* isApStaFinal(): in the final fallback a client can "submit new credentials", so there
\* is an AP (or a connection, or an attempt under way) to submit them through.
FallbackReachable == enabled /\ pc = "top" /\ web = "idle" /\ apFinal /\ connecting = "off" => Reachable

\* setEnabled(true) "starts over from the saved credentials, as at boot (grace window and
\* AP fallback included)": switched on again without a network, the AP opens.
OnIsLikeBoot ==
    <>(~enabled /\ [](link = NoCreds)) /\ <>[](enabled /\ Quiet) => <>apUp
=============================================================================
