------------------------- MODULE WifiManager_proofs -------------------------
(***************************************************************************)
(* Proofs about WifiManager, for every set of credentials and networks,    *)
(* every number of attempts, interval, cap and grace window, with and      *)
(* without requests, crashes and slow passes.                              *)
(***************************************************************************)
EXTENDS WifiManager, TLAPS

-----------------------------------------------------------------------------
(* The retry interval.                                                     *)

\* _wifiReconnectBackoffMs() stays between the base and the cap for any stage: the shift
\* it bounds never reads beyond the powers that can stay below the cap.
LEMMA IntervalInRange ==
    ASSUME NEW s \in Nat
    PROVE  Interval(s) \in Base..MaxInterval
<1> USE BaseAssumption DEF Interval, PowersOfTwo
<1>1. CASE s = 0 \/ s > 6
  BY <1>1
<1>2. CASE s \in 1..6
  <2>1. PowersOfTwo[s] \in Nat /\ PowersOfTwo[s] >= 1
    BY <1>2
  <2>2. Base * PowersOfTwo[s] >= Base
    BY <2>1
  <2>3. QED
    BY <1>2, <2>1, <2>2
<1>3. QED
  BY <1>1, <1>2

\* Consecutive give-ups never shorten it.
LEMMA IntervalGrows ==
    ASSUME NEW s \in Nat
    PROVE  Interval(s) <= Interval(s + 1)
<1> USE BaseAssumption
<1>1. CASE s = 0
  BY <1>1, IntervalInRange DEF Interval
<1>2. CASE s >= 6
  BY <1>2, IntervalInRange DEF Interval
<1>3. CASE s \in 1..5
  <2>1. PowersOfTwo[s + 1] = 2 * PowersOfTwo[s] /\ PowersOfTwo[s] \in Nat
    BY <1>3 DEF PowersOfTwo
  <2>2. Base * PowersOfTwo[s] \in Nat /\ Base * PowersOfTwo[s + 1] = 2 * (Base * PowersOfTwo[s])
    BY <2>1
  <2>3. QED
    BY <1>3, <2>2 DEF Interval
<1>4. QED
  BY <1>1, <1>2, <1>3

-----------------------------------------------------------------------------
(* Types.                                                                  *)

\* The truth values among the variables.
Flags ==
    /\ seenUp \in BOOLEAN /\ enabled \in BOOLEAN /\ pendingSave \in BOOLEAN
    /\ everConnected \in BOOLEAN /\ apFinal \in BOOLEAN
    /\ scanning \in BOOLEAN /\ airUp \in BOOLEAN

\* Credentials, counters, ages and states.
Ranges ==
    /\ pc \in {"top", "joined", "scan", "timer"}
    /\ wifiStatus \in Statuses
    /\ creds \in Creds \union {NoCreds}
    /\ connecting \in {"off", "running", "due"}
    /\ attempts \in 0..(Attempts - 1)
    /\ stage \in 0..MaxStage
    /\ apAge \in 0..(MaxInterval + 1) /\ bootAge \in 0..Grace
    /\ nvs \in Creds \union {NoCreds}
    /\ web \in {"idle", "clock", "begin"}
    /\ candidate \in Creds \union {NoCreds}
    /\ mode \in Modes
    /\ want \in Creds \union {NoCreds}
    /\ link \in Networks \union {NoCreds}
    /\ status \in Statuses
    /\ told \in {"up", "down"}

\* Together they are the type invariant.
LEMMA TypeParts == TypeOK <=> Flags /\ Ranges
BY DEF TypeOK, Flags, Ranges

\* The constructor and init() start every variable in its range.
LEMMA InitTyped == Init => TypeOK
<1> SUFFICES ASSUME Init PROVE TypeOK
  OBVIOUS
<1>1. Flags
  BY Zenon DEF Init, Flags
<1>2. Ranges
  <2>1. /\ creds \in Creds \union {NoCreds} /\ nvs \in Creds \union {NoCreds}
        /\ candidate \in Creds \union {NoCreds} /\ want \in Creds \union {NoCreds}
        /\ link \in Networks \union {NoCreds}
    BY Zenon DEF Init
  <2>2. /\ attempts \in 0..(Attempts - 1) /\ stage \in 0..MaxStage
        /\ apAge \in 0..(MaxInterval + 1) /\ bootAge \in 0..Grace
    BY AttemptsAssumption, BaseAssumption, GraceAssumption, StageAssumption DEF Init
  <2>3. /\ pc \in {"top", "joined", "scan", "timer"} /\ wifiStatus \in Statuses
        /\ connecting \in {"off", "running", "due"} /\ web \in {"idle", "clock", "begin"}
        /\ mode \in Modes /\ status \in Statuses /\ told \in {"up", "down"}
    BY Zenon DEF Init, Statuses, Modes
  <2>4. QED
    BY <2>1, <2>2, <2>3 DEF Ranges
<1>3. QED
  BY <1>1, <1>2, TypeParts

\* And so does a restart with whatever NVS holds.
LEMMA BootTyped ==
    ASSUME TypeOK, NEW saved \in Creds \union {NoCreds}, Boot(saved)
    PROVE  Flags' /\ Ranges'
<1>1. Flags'
  BY Zenon DEF Boot, TypeOK, Flags
<1>2. /\ creds' \in Creds \union {NoCreds} /\ nvs' \in Creds \union {NoCreds}
      /\ candidate' \in Creds \union {NoCreds} /\ want' \in Creds \union {NoCreds}
      /\ link' \in Networks \union {NoCreds}
  BY Zenon DEF Boot
<1>3. /\ attempts' \in 0..(Attempts - 1) /\ stage' \in 0..MaxStage
      /\ apAge' \in 0..(MaxInterval + 1) /\ bootAge' \in 0..Grace
  BY AttemptsAssumption, BaseAssumption, GraceAssumption, StageAssumption DEF Boot
<1>4. /\ pc' \in {"top", "joined", "scan", "timer"} /\ wifiStatus' \in Statuses
      /\ connecting' \in {"off", "running", "due"} /\ web' \in {"idle", "clock", "begin"}
      /\ mode' \in Modes /\ status' \in Statuses /\ told' \in {"up", "down"}
  BY Zenon DEF Boot, Statuses, Modes
<1>5. QED
  BY <1>1, <1>2, <1>3, <1>4 DEF Ranges

\* init() sets only what it may, in range.
LEMMA ManagedInitTyped ==
    ASSUME TypeOK, NEW final \in BOOLEAN, ManagedInit(final)
    PROVE  /\ connecting' \in {"off", "running", "due"} /\ attempts' \in 0..(Attempts - 1)
           /\ wifiStatus' \in Statuses /\ apFinal' \in BOOLEAN
           /\ mode' \in Modes /\ want' \in Creds \union {NoCreds}
           /\ UNCHANGED <<link, status>>
<1>1. CASE creds # NoCreds
  BY <1>1, AttemptsAssumption
     DEF ManagedInit, StartClock, StartStation, Begin, StatusAfterBegin, TypeOK, Modes, Stations
<1>2. CASE creds = NoCreds
  BY <1>2 DEF ManagedInit, InitAPMode, TypeOK, Modes
<1>3. QED
  BY <1>1, <1>2

\* Every step keeps the truth values truth values.
LEMMA NextFlags == TypeOK /\ [Next]_vars => Flags'
<1> SUFFICES ASSUME TypeOK, [Next]_vars PROVE Flags'
  OBVIOUS
<1> USE DEF TypeOK, Flags, manager, driver, page, world
<1>1. CASE SeeLost
  BY <1>1, Zenon DEF SeeLost, Lost
<1>2. CASE SeeJoined
  BY <1>2, Zenon DEF SeeJoined, Joined
<1>3. CASE SeeNothingNew
  BY <1>3, Zenon DEF SeeNothingNew
<1>4. CASE SaveAndRestart
  BY <1>4, BootTyped DEF SaveAndRestart
<1>5. CASE Connected
  BY <1>5, Zenon DEF Connected
<1>6. CASE YieldToScan
  BY <1>6, Zenon DEF YieldToScan
<1>7. CASE Retry
  BY <1>7, ManagedInitTyped DEF Retry
<1>8. CASE NoRetry
  BY <1>8, Zenon DEF NoRetry
<1>9. CASE ClockIdle
  BY <1>9, Zenon DEF ClockIdle
<1>10. CASE CountAttempt
  BY <1>10, Zenon DEF CountAttempt
<1>11. CASE GiveUp
  <2>1. apFinal' \in BOOLEAN
    BY <1>11, Zenon DEF GiveUp, InitAPMode
  <2>2. QED
    BY <1>11, <2>1, Zenon DEF GiveUp
<1>12. CASE SwitchOff
  BY <1>12, Zenon DEF SwitchOff, StatusAfterOff
<1>13. CASE SwitchOn
  <2>1. ManagedInit(FALSE)
    BY <1>13 DEF SwitchOn
  <2>2. apFinal' \in BOOLEAN
    BY <2>1, ManagedInitTyped
  <2>3. QED
    BY <1>13, <2>2, Zenon DEF SwitchOn
<1>14. CASE \E c \in Creds : TryNewCredentials(c)
  BY <1>14, Zenon DEF TryNewCredentials, Request
<1>15. CASE TakeCandidate
  BY <1>15, Zenon DEF TakeCandidate
<1>16. CASE BeginCandidate
  BY <1>16, Zenon DEF BeginCandidate
<1>17. CASE ClientDisconnect
  BY <1>17, Zenon DEF ClientDisconnect, StationOff
<1>18. CASE StartScan
  BY <1>18, Zenon DEF StartScan
<1>19. CASE Join
  BY <1>19, Zenon DEF Join
<1>20. CASE Leave
  BY <1>20, Zenon DEF Leave
<1>21. CASE Fail
  BY <1>21, Zenon DEF Fail
<1>22. CASE ScanDone
  BY <1>22, Zenon DEF ScanDone
<1>23. CASE AirChange
  BY <1>23, Zenon DEF AirChange
<1>24. CASE Restart
  BY <1>24, BootTyped DEF Restart
<1>25. CASE Tick
  BY <1>25, Zenon DEF Tick, Older
<1>26. CASE UNCHANGED vars
  BY <1>26, Zenon DEF vars
<1>27. QED
  BY <1>1, <1>2, <1>3, <1>4, <1>5, <1>6, <1>7, <1>8, <1>9, <1>10, <1>11, <1>12, <1>13,
     <1>14, <1>15, <1>16, <1>17, <1>18, <1>19, <1>20, <1>21, <1>22, <1>23, <1>24, <1>25,
     <1>26 DEF Next, LoopStep, WebStep, DriverStep

\* Every step keeps every other variable in its range.
LEMMA NextRanges == TypeOK /\ [Next]_vars => Ranges'
<1> SUFFICES ASSUME TypeOK, [Next]_vars PROVE Ranges'
  OBVIOUS
<1> USE CredsAssumption, AttemptsAssumption, BaseAssumption, GraceAssumption, StageAssumption
        DEF TypeOK, Ranges, Statuses, Modes, manager, driver, page, world
<1>1. CASE SeeLost
  BY <1>1 DEF SeeLost, Lost
<1>2. CASE SeeJoined
  BY <1>2 DEF SeeJoined, Joined
<1>3. CASE SeeNothingNew
  BY <1>3 DEF SeeNothingNew
<1>4. CASE SaveAndRestart
  BY <1>4, BootTyped DEF SaveAndRestart
<1>5. CASE Connected
  BY <1>5 DEF Connected
<1>6. CASE YieldToScan
  BY <1>6 DEF YieldToScan
<1>7. CASE Retry
  BY <1>7, ManagedInitTyped DEF Retry
<1>8. CASE NoRetry
  BY <1>8 DEF NoRetry
<1>9. CASE ClockIdle
  BY <1>9 DEF ClockIdle
<1>10. CASE CountAttempt
  BY <1>10 DEF CountAttempt, LastAttempt
<1>11. CASE GiveUp
  <2>1. creds' \in Creds \union {NoCreds}
    BY <1>11 DEF GiveUp
  <2>2. stage' \in 0..MaxStage
    <3>1. stage' = stage \/ stage' = NextStage(stage)
      BY <1>11 DEF GiveUp
    <3>2. QED
      BY <3>1 DEF NextStage
  <2>3. apAge' \in 0..(MaxInterval + 1)
    <3>1. apAge' = 0 \/ apAge' = apAge
      BY <1>11 DEF GiveUp
    <3>2. QED
      BY <3>1
  <2>4. mode' \in Modes /\ want' \in Creds \union {NoCreds} /\ UNCHANGED <<link, status>>
    BY <1>11, Zenon DEF GiveUp, InitAPMode
  <2>5. QED
    BY <1>11, <2>1, <2>2, <2>3, <2>4 DEF GiveUp
<1>12. CASE SwitchOff
  BY <1>12 DEF SwitchOff, StatusAfterOff, StationOff, AccessPointOff
<1>13. CASE SwitchOn
  <2>1. ManagedInit(FALSE)
    BY <1>13 DEF SwitchOn
  <2>2. /\ connecting' \in {"off", "running", "due"} /\ attempts' \in 0..(Attempts - 1)
        /\ wifiStatus' \in Statuses /\ mode' \in Modes /\ want' \in Creds \union {NoCreds}
        /\ UNCHANGED <<link, status>>
    BY <2>1, ManagedInitTyped
  <2>3. QED
    BY <1>13, <2>2 DEF SwitchOn
<1>14. CASE \E c \in Creds : TryNewCredentials(c)
  BY <1>14 DEF TryNewCredentials, Request
<1>15. CASE TakeCandidate
  BY <1>15 DEF TakeCandidate, StartClock, StatusAfterBegin
<1>16. CASE BeginCandidate
  BY <1>16 DEF BeginCandidate, StartStation, Begin, Stations
<1>17. CASE ClientDisconnect
  BY <1>17 DEF ClientDisconnect, StationOff
<1>18. CASE StartScan
  BY <1>18 DEF StartScan
<1>19. CASE Join
  BY <1>19 DEF Join
<1>20. CASE Leave
  BY <1>20 DEF Leave
<1>21. CASE Fail
  BY <1>21 DEF Fail
<1>22. CASE ScanDone
  BY <1>22 DEF ScanDone
<1>23. CASE AirChange
  BY <1>23 DEF AirChange
<1>24. CASE Restart
  BY <1>24, BootTyped DEF Restart
<1>25. CASE Tick
  BY <1>25 DEF Tick, Older
<1>26. CASE UNCHANGED vars
  BY <1>26 DEF vars
<1>27. QED
  BY <1>1, <1>2, <1>3, <1>4, <1>5, <1>6, <1>7, <1>8, <1>9, <1>10, <1>11, <1>12, <1>13,
     <1>14, <1>15, <1>16, <1>17, <1>18, <1>19, <1>20, <1>21, <1>22, <1>23, <1>24, <1>25,
     <1>26 DEF Next, LoopStep, WebStep, DriverStep

\* Every step keeps every variable in its range.
LEMMA NextTyped == TypeOK /\ [Next]_vars => TypeOK'
BY NextFlags, NextRanges DEF TypeOK, Flags, Ranges

\* Type correctness; in particular no attempt is counted beyond the limit.
THEOREM TypeCorrect == Spec => []TypeOK
<1>1. TypeOK /\ [Next]_vars => TypeOK'
  BY NextTyped
<1>2. QED
  BY <1>1, InitTyped, PTL DEF Spec

-----------------------------------------------------------------------------
(* What is reported, and when the device backs off or opens its AP.        *)

\* What relates the reports and the backoff to the history of the connection.
Honest == LossIsRemembered /\ StageNeedsHistory

\* A restart forgets both.
LEMMA BootHonest == ASSUME NEW saved, Boot(saved) PROVE Honest'
BY DEF Boot, Honest, LossIsRemembered, StageNeedsHistory

\* Starting an attempt or the AP leaves what loop() has recorded alone.
LEMMA ManagedInitRecords ==
    ASSUME NEW final, ManagedInit(final) PROVE wifiStatus' = wifiStatus
BY DEF ManagedInit, StatusAfterBegin

\* Every step keeps them related.
LEMMA NextHonest == TypeOK /\ Honest /\ [Next]_vars => Honest'
<1> SUFFICES ASSUME TypeOK, Honest, [Next]_vars PROVE Honest'
  OBVIOUS
<1> USE DEF TypeOK, Honest, LossIsRemembered, StageNeedsHistory, manager, driver, page, world
<1>1. CASE SeeLost
  BY <1>1 DEF SeeLost
<1>2. CASE SeeJoined
  BY <1>2 DEF SeeJoined
<1>3. CASE SeeNothingNew
  BY <1>3 DEF SeeNothingNew
<1>4. CASE SaveAndRestart
  BY <1>4, BootHonest DEF SaveAndRestart
<1>5. CASE Connected
  BY <1>5 DEF Connected
<1>6. CASE YieldToScan
  BY <1>6 DEF YieldToScan
<1>7. CASE Retry
  BY <1>7, ManagedInitRecords DEF Retry
<1>8. CASE NoRetry
  BY <1>8 DEF NoRetry
<1>9. CASE ClockIdle
  BY <1>9 DEF ClockIdle
<1>10. CASE CountAttempt
  BY <1>10 DEF CountAttempt
<1>11. CASE GiveUp
  <2>1. wifiStatus' # "connected"
    BY <1>11 DEF GiveUp
  <2>2. stage' = stage \/ Backs
    BY <1>11 DEF GiveUp
  <2>3. QED
    BY <1>11, <2>1, <2>2 DEF GiveUp, Backs
<1>12. CASE SwitchOff
  BY <1>12 DEF SwitchOff, StatusAfterOff
<1>13. CASE SwitchOn
  <2>1. ManagedInit(FALSE) /\ stage' = 0 /\ UNCHANGED told
    BY <1>13 DEF SwitchOn
  <2>2. wifiStatus' = wifiStatus
    BY <2>1, ManagedInitRecords
  <2>3. QED
    BY <2>1, <2>2
<1>14. CASE \E c \in Creds : TryNewCredentials(c)
  BY <1>14 DEF TryNewCredentials
<1>15. CASE TakeCandidate
  BY <1>15 DEF TakeCandidate, StatusAfterBegin
<1>16. CASE BeginCandidate
  BY <1>16 DEF BeginCandidate
<1>17. CASE ClientDisconnect
  BY <1>17 DEF ClientDisconnect
<1>18. CASE StartScan
  BY <1>18 DEF StartScan
<1>19. CASE Join
  BY <1>19 DEF Join
<1>20. CASE Leave
  BY <1>20 DEF Leave
<1>21. CASE Fail
  BY <1>21 DEF Fail
<1>22. CASE ScanDone
  BY <1>22 DEF ScanDone
<1>23. CASE AirChange
  BY <1>23 DEF AirChange
<1>24. CASE Restart
  BY <1>24, BootHonest DEF Restart
<1>25. CASE Tick
  BY <1>25 DEF Tick
<1>26. CASE UNCHANGED vars
  BY <1>26 DEF vars
<1>27. QED
  BY <1>1, <1>2, <1>3, <1>4, <1>5, <1>6, <1>7, <1>8, <1>9, <1>10, <1>11, <1>12, <1>13,
     <1>14, <1>15, <1>16, <1>17, <1>18, <1>19, <1>20, <1>21, <1>22, <1>23, <1>24, <1>25,
     <1>26 DEF Next, LoopStep, WebStep, DriverStep

\* No connection goes unreported after a loss was reported, and only a device that has been
\* connected ever backs off.
THEOREM HonestHolds == Spec => [](TypeOK /\ Honest)
<1>1. Init => TypeOK /\ Honest
  BY InitTyped DEF Init, Honest, LossIsRemembered, StageNeedsHistory
<1>2. TypeOK /\ Honest /\ [Next]_vars => (TypeOK /\ Honest)'
  BY NextTyped, NextHonest
<1>3. QED
  BY <1>1, <1>2, PTL DEF Spec

\* _wifi_status never hides a connection that was not reported.
THEOREM LossIsRememberedHolds == Spec => []LossIsRemembered
BY HonestHolds, PTL DEF Honest

\* The backoff stage never leaves 0 before the first connection of a boot.
THEOREM StageNeedsHistoryHolds == Spec => []StageNeedsHistory
BY HonestHolds, PTL DEF Honest

\* The AP fallback becomes final only for a device without a connection since boot or
\* without credentials, whichever of the boot, a retry, a give-up or the switch opens it.
THEOREM FallbackOnlyBeforeConnectHolds == Spec => FallbackOnlyBeforeConnect
<1> DEFINE Allowed == ~apFinal /\ apFinal' => creds' = NoCreds \/ ~everConnected'
<1>1. ASSUME [Next]_vars PROVE [Allowed]_vars
  <2> SUFFICES ASSUME Next, ~apFinal, apFinal' PROVE creds' = NoCreds \/ ~everConnected'
    BY <1>1
  <2>1. ASSUME NEW saved, Boot(saved) PROVE ~everConnected'
    BY <2>1 DEF Boot
  <2>2. ASSUME NEW final, ManagedInit(final), ~final PROVE creds = NoCreds
    BY <2>2 DEF ManagedInit
  <2>3. CASE SaveAndRestart \/ Restart
    BY <2>1, <2>3 DEF SaveAndRestart, Restart
  <2>4. CASE Retry
    BY <2>2, <2>4 DEF Retry
  <2>5. CASE SwitchOn
    BY <2>2, <2>5 DEF SwitchOn
  <2>6. CASE GiveUp
    BY <2>6 DEF GiveUp, FallsBack
  <2>7. CASE SeeLost \/ SeeJoined \/ SeeNothingNew \/ Connected
    BY <2>7 DEF SeeLost, SeeJoined, SeeNothingNew, Connected, manager
  <2>8. CASE YieldToScan \/ NoRetry \/ ClockIdle \/ CountAttempt \/ SwitchOff
    BY <2>8 DEF YieldToScan, NoRetry, ClockIdle, CountAttempt, SwitchOff, manager
  <2>9. CASE WebStep
    BY <2>9 DEF WebStep, TryNewCredentials, TakeCandidate, BeginCandidate, ClientDisconnect,
                StartScan, manager
  <2>10. CASE Join \/ Leave \/ Fail \/ ScanDone \/ AirChange \/ Tick
    BY <2>10 DEF Join, Leave, Fail, ScanDone, AirChange, Tick, manager
  <2>11. QED
    BY <2>3, <2>4, <2>5, <2>6, <2>7, <2>8, <2>9, <2>10 DEF Next, LoopStep, DriverStep
<1>2. QED
  BY <1>1, PTL DEF Spec, FallbackOnlyBeforeConnect

-----------------------------------------------------------------------------
(* The contract with the server connection.                                *)

\* WiFi.status() says "connected" of exactly the times a network is joined.
StatusIsLink == (status = "connected") <=> (link # NoCreds)

\* A pass of loop() goes beyond its first line only while WiFi is on, and setEnabled() waits
\* for its end.
PassNeedsEnabled == pc # "top" => enabled

\* What a pass reports it has seen, and it is news.
ReportIsNews == pc = "joined" => seenUp /\ wifiStatus # "connected"

\* What the contract needs of the driver and of the steps of a pass.
LinkInvariant == StatusIsLink /\ PassNeedsEnabled /\ ReportIsNews

\* No credentials are not those of a network: a link is a link.
LEMMA NetworksAreCreds == NoCreds \notin Networks
BY CredsAssumption

\* A restart leaves neither a link nor a pass.
LEMMA BootLink == ASSUME NEW saved, Boot(saved) PROVE LinkInvariant'
BY DEF Boot, LinkInvariant, StatusIsLink, PassNeedsEnabled, ReportIsNews

\* init() and the AP leave the link and what the driver says of it to the driver.
LEMMA ManagedInitLink ==
    ASSUME NEW final, ManagedInit(final) PROVE UNCHANGED <<wifiStatus, link, status>>
BY DEF ManagedInit, StartStation, InitAPMode, StatusAfterBegin

\* Every step keeps the driver's answer true to its link, setEnabled() outside a pass, and
\* a report news.
LEMMA NextLink == LinkInvariant /\ [Next]_vars => LinkInvariant'
<1> SUFFICES ASSUME LinkInvariant, [Next]_vars PROVE LinkInvariant'
  OBVIOUS
<1> USE DEF LinkInvariant, StatusIsLink, PassNeedsEnabled, ReportIsNews, manager, driver, page,
            world
<1>1. CASE SeeLost \/ SeeJoined \/ SeeNothingNew
  BY <1>1 DEF SeeLost, SeeJoined, SeeNothingNew, Joined
<1>2. CASE SaveAndRestart \/ Restart
  BY <1>2, BootLink DEF SaveAndRestart, Restart
<1>3. CASE Connected \/ YieldToScan \/ NoRetry
  BY <1>3 DEF Connected, YieldToScan, NoRetry
<1>4. CASE Retry
  <2>1. UNCHANGED <<link, status, enabled>> /\ pc = "scan"
    BY <1>4, ManagedInitLink DEF Retry
  <2>2. pc' = "timer"
    BY <1>4 DEF Retry
  <2>3. QED
    BY <2>1, <2>2
<1>5. CASE ClockIdle \/ CountAttempt
  BY <1>5 DEF ClockIdle, CountAttempt
<1>6. CASE GiveUp
  <2>1. UNCHANGED <<link, status>> /\ pc' = "top"
    BY <1>6 DEF GiveUp, InitAPMode
  <2>2. QED
    BY <2>1
<1>7. CASE SwitchOff
  BY <1>7 DEF SwitchOff
<1>8. CASE SwitchOn
  <2>1. UNCHANGED <<link, status>> /\ enabled'
    BY <1>8, ManagedInitLink DEF SwitchOn
  <2>2. pc' = "top"
    BY <1>8 DEF SwitchOn
  <2>3. QED
    BY <2>1, <2>2
<1>9. CASE WebStep
  BY <1>9 DEF WebStep, TryNewCredentials, TakeCandidate, StatusAfterBegin, BeginCandidate,
              StartStation, ClientDisconnect, StartScan
<1>10. CASE Join \/ Leave
  BY <1>10, NetworksAreCreds DEF Join, Leave
<1>11. CASE Fail
  BY <1>11 DEF Fail
<1>12. CASE ScanDone \/ AirChange \/ Tick
  BY <1>12 DEF ScanDone, AirChange, Tick
<1>13. CASE UNCHANGED vars
  BY <1>13 DEF vars
<1>14. QED
  BY <1>1, <1>2, <1>3, <1>4, <1>5, <1>6, <1>7, <1>8, <1>9, <1>10, <1>11, <1>12, <1>13
     DEF Next, LoopStep, DriverStep

\* The driver's answer is true to its link, passes run only while WiFi is on, and a pass
\* reports only a connection that it saw and that was not recorded.
THEOREM LinkInvariantHolds == Spec => []LinkInvariant
<1>1. Init => LinkInvariant
  BY DEF Init, LinkInvariant, StatusIsLink, PassNeedsEnabled, ReportIsNews
<1>2. QED
  BY <1>1, NextLink, PTL DEF Spec

\* The contract starts as the boot does: nothing recorded and nothing reported.
LEMMA InitContract == Init => Link!Init
<1> SUFFICES ASSUME Init PROVE Link!Init
  OBVIOUS
<1>1. (link # NoCreds) \in BOOLEAN /\ ~(pc = "joined")
  BY DEF Init
<1>2. QED
  BY <1>1, Zenon DEF Init, Link!Init

\* A restart is the contract's.
LEMMA BootContract == ASSUME NEW saved, Boot(saved) PROVE Link!Restart
<1>1. (link' # NoCreds) \in BOOLEAN /\ ~(pc' = "joined")
  BY DEF Boot
<1>2. QED
  BY <1>1, Zenon DEF Boot, Link!Restart

\* What the contract sees, and that a step leaves alone which neither records, reports nor
\* switches, and leaves the link.
Contract == <<enabled, wifiStatus, told, link>>

\* Such a step stutters, unless it is about the report of a return.
LEMMA Stutters ==
    ASSUME UNCHANGED Contract, (pc' = "joined") <=> (pc = "joined")
    PROVE  UNCHANGED Link!vars
<1>1. (pc' = "joined") = (pc = "joined")
  BY Zenon
<1>2. QED
  BY <1>1 DEF Contract, Link!vars

\* Every step is a step of the contract or leaves it unchanged.
LEMMA NextContract == TypeOK /\ LinkInvariant /\ [Next]_vars => [Link!Next]_(Link!vars)
<1> SUFFICES ASSUME TypeOK, LinkInvariant, [Next]_vars PROVE [Link!Next]_(Link!vars)
  OBVIOUS
<1> USE DEF LinkInvariant, StatusIsLink, PassNeedsEnabled, manager, driver, page, world
\* The five steps that record or report something.
<1>1. CASE SeeLost
  <2>1. /\ enabled /\ wifiStatus # "lost" /\ link = NoCreds /\ ~(pc = "joined")
        /\ wifiStatus' = "lost" /\ told' = "down" /\ UNCHANGED <<enabled, link>>
        /\ ~(pc' = "joined")
    BY <1>1 DEF SeeLost, Lost
  <2>2. Link!ReportLoss
    BY <2>1, Zenon DEF Link!ReportLoss
  <2>3. QED
    BY <2>2 DEF Link!Next
<1>2. CASE SeeJoined
  <2>1. /\ enabled /\ wifiStatus # "connected" /\ link # NoCreds /\ ~(pc = "joined")
        /\ pc' = "joined" /\ UNCHANGED <<enabled, link, wifiStatus, told>>
    BY <1>2 DEF SeeJoined, Joined
  <2>2. Link!Find
    BY <2>1, Zenon DEF Link!Find
  <2>3. QED
    BY <2>2 DEF Link!Next
<1>3. CASE Connected
  <2>1. /\ pc = "joined" /\ ~(pc' = "joined")
        /\ told' = "up" /\ UNCHANGED <<enabled, link>>
    BY <1>3 DEF Connected
  <2>2. wifiStatus' \in IF link # NoCreds THEN {"connected"} ELSE {"lost", "other"}
    BY <1>3 DEF Connected, TypeOK, Statuses
  <2>3. Link!ReportReturn
    BY <2>1, <2>2, Zenon DEF Link!ReportReturn
  <2>4. QED
    BY <2>3 DEF Link!Next
<1>4. CASE GiveUp
  <2>1. /\ enabled /\ ~(pc = "joined") /\ ~(pc' = "joined")
        /\ wifiStatus' = "lost" /\ UNCHANGED <<enabled, told, link>>
    BY <1>4 DEF GiveUp, InitAPMode
  <2>2. Link!Forget
    BY <2>1, Zenon DEF Link!Forget
  <2>3. QED
    BY <2>2 DEF Link!Next
<1>5. CASE SwitchOff
  <2>1. /\ enabled /\ ~(pc = "joined") /\ ~(pc' = "joined") /\ enabled' = FALSE
        /\ wifiStatus' = "lost" /\ UNCHANGED link
        /\ told' = IF wifiStatus = "connected" THEN "down" ELSE told
    BY <1>5 DEF SwitchOff, StatusAfterOff
  <2>2. Link!SwitchOff
    BY <2>1, Zenon DEF Link!SwitchOff
  <2>3. QED
    BY <2>2 DEF Link!Next
\* The other steps of the contract.
<1>6. CASE SwitchOn
  <2>1. /\ ~enabled /\ ~(pc = "joined") /\ ~(pc' = "joined") /\ enabled' = TRUE
        /\ UNCHANGED <<wifiStatus, told, link>>
    BY <1>6, ManagedInitLink DEF SwitchOn
  <2>2. Link!SwitchOn
    BY <2>1, Zenon DEF Link!SwitchOn
  <2>3. QED
    BY <2>2 DEF Link!Next
<1>7. CASE SaveAndRestart \/ Restart
  BY <1>7, BootContract DEF SaveAndRestart, Restart, Link!Next
<1>8. CASE Join \/ Leave
  <2>1. /\ (link' # NoCreds) = ~(link # NoCreds)
        /\ UNCHANGED <<enabled, wifiStatus, told, pc>>
    BY <1>8, NetworksAreCreds DEF Join, Leave
  <2>2. Link!LinkChange
    BY <2>1, Zenon DEF Link!LinkChange
  <2>3. QED
    BY <2>2 DEF Link!Next
\* All others stutter.
<1>9. CASE SeeNothingNew \/ YieldToScan \/ NoRetry \/ ClockIdle \/ CountAttempt
  <2>1. UNCHANGED Contract /\ pc # "joined" /\ pc' # "joined"
    BY <1>9 DEF SeeNothingNew, YieldToScan, NoRetry, ClockIdle, CountAttempt, Contract
  <2>2. QED
    BY <2>1, Stutters
<1>10. CASE Retry
  <2>1. UNCHANGED Contract /\ pc # "joined" /\ pc' # "joined"
    BY <1>10, ManagedInitLink DEF Retry, Contract
  <2>2. QED
    BY <2>1, Stutters
<1>11. CASE WebStep
  <2>1. UNCHANGED Contract /\ UNCHANGED pc
    BY <1>11 DEF WebStep, TryNewCredentials, TakeCandidate, StatusAfterBegin, BeginCandidate,
                 StartStation, ClientDisconnect, StartScan, Contract
  <2>2. QED
    BY <2>1, Stutters
<1>12. CASE Fail \/ ScanDone \/ AirChange \/ Tick
  <2>1. UNCHANGED Contract /\ UNCHANGED pc
    BY <1>12 DEF Fail, ScanDone, AirChange, Tick, Contract
  <2>2. QED
    BY <2>1, Stutters
<1>13. CASE UNCHANGED vars
  <2>1. UNCHANGED Contract /\ UNCHANGED pc
    BY <1>13 DEF vars, Contract
  <2>2. QED
    BY <2>1, Stutters
<1>14. QED
  BY <1>1, <1>2, <1>3, <1>4, <1>5, <1>6, <1>7, <1>8, <1>9, <1>10, <1>11, <1>12, <1>13
     DEF Next, LoopStep, DriverStep

\* WifiManager keeps its contract with the server connection, whatever web clients, retries,
\* give-ups, scans, the switch and the driver do between two steps of a pass.
THEOREM ImplementsLinkHolds == Spec => ImplementsLink
BY InitContract, NextContract, TypeCorrect, LinkInvariantHolds, PTL
   DEF Spec, ImplementsLink, Link!Spec

-----------------------------------------------------------------------------
(* New credentials.                                                        *)

\* What does hold of "only persisted once the connection actually succeeds": credentials
\* that NVS does not have are saved only by a pass that found the station connected and had
\* not recorded it, while a candidate was pending, and what is saved is what it holds then.
\* (That the connection was made with them is what SavedWasJoined says, and is not so.)
SavedOnSight ==
    [][nvs' # nvs =>
          /\ pc = "joined" /\ seenUp /\ wifiStatus # "connected"
          /\ pendingSave
          /\ nvs' = creds]_vars

\* No retry, give-up, switch, request or crash saves credentials on its own.
THEOREM SavedOnSightHolds == Spec => SavedOnSight
<1> DEFINE Seen == /\ pc = "joined" /\ seenUp /\ wifiStatus # "connected"
                   /\ pendingSave
                   /\ nvs' = creds
<1>1. ASSUME LinkInvariant, [Next]_vars PROVE [nvs' # nvs => Seen]_vars
  <2> SUFFICES ASSUME Next, nvs' # nvs PROVE Seen
    BY <1>1
  <2>1. SaveAndRestart
    <3>1. ~SeeLost /\ ~SeeJoined /\ ~SeeNothingNew /\ ~Connected /\ ~YieldToScan /\ ~Retry
      BY DEF SeeLost, SeeJoined, SeeNothingNew, Connected, YieldToScan, Retry
    <3>2. ~NoRetry /\ ~ClockIdle /\ ~CountAttempt /\ ~GiveUp /\ ~SwitchOff /\ ~SwitchOn
      BY DEF NoRetry, ClockIdle, CountAttempt, GiveUp, SwitchOff, SwitchOn
    <3>3. ~WebStep
      BY DEF WebStep, TryNewCredentials, TakeCandidate, BeginCandidate, ClientDisconnect,
             StartScan
    <3>4. ~DriverStep
      BY DEF DriverStep, Join, Leave, Fail, ScanDone, AirChange, Restart, Boot, Tick
    <3>5. QED
      BY <3>1, <3>2, <3>3, <3>4 DEF Next, LoopStep
  <2>2. QED
    BY <1>1, <2>1 DEF SaveAndRestart, Boot, LinkInvariant, ReportIsNews
<1>2. QED
  BY <1>1, LinkInvariantHolds, PTL DEF Spec, SavedOnSight
=============================================================================
