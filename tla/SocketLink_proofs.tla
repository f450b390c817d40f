-------------------------- MODULE SocketLink_proofs --------------------------
(***************************************************************************)
(* Proofs about SocketLink, for every baseline, cap, watchdog time, grace, *)
(* number of subscribers and length of a pass, with and without handleWifi.*)
(***************************************************************************)
EXTENDS SocketLink, TLAPS

USE DEF Unset

-----------------------------------------------------------------------------
(* Types.                                                                  *)

\* The backoff of watchdog() stays between the baseline and the cap, whatever it doubles.
LEMMA NextReconnectTimeInRange ==
    ASSUME NEW t \in Base..MaxTime
    PROVE  NextReconnectTime(t) \in Base..MaxTime
BY BaseAssumption, MaxTimeAssumption DEF NextReconnectTime

\* An age stays an age, up to its cap.
LEMMA OlderInRange ==
    ASSUME NEW cap \in Nat, NEW age \in -1..cap
    PROVE  Older(age, cap) \in -1..cap
BY DEF Older

\* The part of TypeOK about WiFi management.
ManagerTyped ==
    /\ wifiOn \in BOOLEAN /\ wifiUp \in BOOLEAN
    /\ wifiStatus \in Wifi!Records
    /\ told \in {"up", "down"}

\* No step that WifiLink allows leaves it.
LEMMA WifiTyped == ManagerTyped /\ [Wifi!Next]_(Wifi!vars) => ManagerTyped'
<1> SUFFICES ASSUME ManagerTyped, [Wifi!Next]_(Wifi!vars) PROVE ManagerTyped'
  OBVIOUS
<1> USE DEF ManagerTyped, Wifi!Records
<1>1. CASE Wifi!Find \/ Wifi!ReportLoss \/ Wifi!Forget
  BY <1>1 DEF Wifi!Find, Wifi!ReportLoss, Wifi!Forget
<1>2. CASE Wifi!ReportReturn
  BY <1>2 DEF Wifi!ReportReturn
<1>3. CASE Wifi!SwitchOff \/ Wifi!SwitchOn
  BY <1>3 DEF Wifi!SwitchOff, Wifi!SwitchOn
<1>4. CASE Wifi!LinkChange
  BY <1>4 DEF Wifi!LinkChange
<1>5. CASE Wifi!Restart
  BY <1>5 DEF Wifi!Restart
<1>6. CASE UNCHANGED Wifi!vars
  BY <1>6 DEF Wifi!vars
<1>7. QED
  BY <1>1, <1>2, <1>3, <1>4, <1>5, <1>6 DEF Wifi!Next

\* _init() starts every variable in its range.
LEMMA InitTyped == Init => TypeOK
<1> SUFFICES ASSUME Init PROVE TypeOK
  OBVIOUS
<1> USE BaseAssumption, MaxTimeAssumption, TimesAssumption, BoundsAssumption DEF Init
<1>1. ws \in Clients /\ interval \in {"fast", "never"}
  BY DEF Clients
<1>2. lastReconnect \in Unset..(MaxTime + 1) /\ lastDog \in Unset..(DogTime + 1)
  OBVIOUS
<1>3. reconnectTime \in Base..MaxTime /\ pendingIn \in Unset..Grace
  OBVIOUS
<1>4. subs \in 0..MaxSubs /\ stall \in 0..MaxStall
  OBVIOUS
<1>5. pc \in Steps
  BY DEF Steps
<1>6. /\ socketWant \in BOOLEAN /\ wifiWant \in BOOLEAN /\ socketOn \in BOOLEAN
      /\ server \in BOOLEAN /\ pendingReboot \in BOOLEAN
  BY Zenon
<1>7. ManagerTyped
  BY DEF Wifi!Init, ManagerTyped, Wifi!Records
<1>8. QED
  BY <1>1, <1>2, <1>3, <1>4, <1>5, <1>6, <1>7 DEF TypeOK, ManagerTyped

\* A restart puts every variable back in its range.
LEMMA BootTyped == ASSUME TypeOK, Boot PROVE TypeOK'
<1> USE BaseAssumption, MaxTimeAssumption, TimesAssumption, BoundsAssumption
        DEF Boot, OnDisconnected
<1>1. ws' \in Clients /\ lastReconnect' \in -1..(MaxTime + 1)
  BY DEF Clients
<1>2. pendingIn' \in -1..Grace /\ lastDog' \in -1..(DogTime + 1)
  OBVIOUS
<1>3. reconnectTime' \in Base..MaxTime /\ subs' \in 0..MaxSubs /\ stall' \in 0..MaxStall
  OBVIOUS
<1>4. server' \in BOOLEAN
  BY DEF TypeOK
<1>5. pc' \in Steps /\ interval' \in {"fast", "never"}
  BY DEF Steps
<1>6. ManagerTyped'
  BY DEF Wifi!Restart, ManagerTyped, Wifi!Records
<1>7. QED
  BY <1>1, <1>2, <1>3, <1>4, <1>5, <1>6 DEF TypeOK, ManagerTyped

\* The part of TypeOK about the client and the backoff.
ClientTyped ==
    /\ ws \in Clients
    /\ interval \in {"fast", "never"}
    /\ lastDog \in Unset..(DogTime + 1)
    /\ subs \in 0..MaxSubs
    /\ lastReconnect \in Unset..(MaxTime + 1)
    /\ reconnectTime \in Base..MaxTime

\* reconnect(true) leaves client and backoff in range, whether it does anything or not.
LEMMA ReconnectFreshTyped ==
    ASSUME ClientTyped, NEW on, NEW up, ReconnectFresh(on, up)
    PROVE  ClientTyped'
<1>1. CASE MayReconnect(on, up)
  BY <1>1, BaseAssumption, MaxTimeAssumption, TimesAssumption, BoundsAssumption
     DEF ReconnectFresh, Reconnect, NewClient, OnDisconnected, ClientTyped, Clients
<1>2. CASE ~MayReconnect(on, up)
  BY <1>2 DEF ReconnectFresh, Reconnect, ClientTyped, client
<1>3. QED
  BY <1>1, <1>2

\* Every step keeps every variable in its range.
LEMMA NextTyped == TypeOK /\ [Next]_vars => TypeOK'
<1> SUFFICES ASSUME TypeOK, [Next]_vars PROVE TypeOK'
  OBVIOUS
<1> USE BaseAssumption, MaxTimeAssumption, TimesAssumption, BoundsAssumption
        DEF TypeOK, Steps, Clients, switches, manager, client, backoff
<1>0. ManagerTyped
  BY DEF ManagerTyped
<1>1. CASE Reboot
  BY <1>1, BootTyped DEF Reboot
<1>2. CASE ApplyOnOff
  <2>1. ManagerTyped'
    <3>1. SetEnabled
      BY <1>2 DEF ApplyOnOff
    <3>2. CASE UNCHANGED manager
      BY <1>0, <3>2 DEF ManagerTyped
    <3>3. CASE Wifi!SwitchOff \/ Wifi!SwitchOn
      BY <1>0, <3>3, WifiTyped DEF Wifi!Next
    <3>4. QED
      BY <3>1, <3>2, <3>3 DEF SetEnabled
  <2>2. pc' \in Steps /\ pendingIn' \in Unset..Grace /\ stall' \in 0..MaxStall
    <3>1. pendingIn' \in {Unset, pendingIn} /\ pc' = "wifi" /\ stall' = 0
      BY <1>2 DEF ApplyOnOff
    <3>2. QED
      BY <3>1
  <2>3. socketOn' \in BOOLEAN
    <3>1. socketOn' = TRUE \/ socketOn' = FALSE \/ socketOn' = socketOn
      BY <1>2 DEF ApplyOnOff
    <3>2. QED
      BY <3>1
  <2>4. ClientTyped'
    <3> DEFINE Kept == interval' = IntervalAfterSwitch /\ UNCHANGED backoff
    <3>1. ClientTyped /\ IntervalAfterSwitch \in {"fast", "never"}
      BY DEF ClientTyped, IntervalAfterSwitch, Stopped
    <3>2. CASE OnDisconnected /\ ws' \in Clients /\ Kept
      BY <3>1, <3>2 DEF ClientTyped, OnDisconnected
    <3>3. CASE ReconnectFresh(TRUE, wifiUp)
      BY <3>1, <3>3, ReconnectFreshTyped
    <3>4. CASE UNCHANGED <<ws, lastDog, subs>> /\ Kept
      BY <3>1, <3>4 DEF ClientTyped
    <3>5. QED
      BY <1>2, <3>2, <3>3, <3>4 DEF ApplyOnOff
  <2>5. QED
    BY <1>2, <2>1, <2>2, <2>3, <2>4 DEF ApplyOnOff, ClientTyped, ManagerTyped
<1>3. CASE WifiLoop
  <2>1. ManagerTyped'
    <3>1. CASE Wifi!Find \/ Wifi!ReportLoss \/ Wifi!Forget
      BY <1>0, <3>1, WifiTyped DEF Wifi!Next
    <3>2. CASE UNCHANGED manager
      BY <1>0, <3>2 DEF ManagerTyped
    <3>3. QED
      BY <1>3, <3>1, <3>2 DEF WifiLoop
  <2>2. interval' \in {"fast", "never"} /\ pc' \in Steps
    BY <1>3 DEF WifiLoop, Stopped
  <2>3. QED
    BY <1>3, <2>1, <2>2 DEF WifiLoop, ManagerTyped
<1>22. CASE WifiReturn
  <2>1. ManagerTyped'
    BY <1>0, <1>22, WifiTyped DEF WifiReturn, Wifi!Next
  <2>2. pendingIn' \in Unset..Grace
    BY <1>22 DEF WifiReturn
  <2>3. QED
    BY <1>22, <2>1, <2>2 DEF WifiReturn, ManagerTyped
<1>4. CASE PendingReconnect
  BY <1>4 DEF PendingReconnect, ReconnectFresh, Reconnect, NewClient, OnDisconnected
<1>5. CASE PumpIdle
  BY <1>5 DEF PumpIdle
<1>6. CASE Attempt
  BY <1>6 DEF Attempt, Pumped
<1>7. CASE Accept
  BY <1>7 DEF Accept, Pumped, OnConnected
<1>8. CASE Drop
  BY <1>8 DEF Drop, Pumped, Close, OnDisconnected
<1>9. CASE Receive
  BY <1>9 DEF Receive, Pumped, OnText
<1>10. CASE Watchdog
  BY <1>10 DEF Watchdog, Close, OnDisconnected
<1>11. CASE Retry
  BY <1>11, NextReconnectTimeInRange DEF Retry, Reconnect, NewClient, OnDisconnected
<1>12. CASE SketchReconnect
  BY <1>12 DEF SketchReconnect, ReconnectFresh, Reconnect, NewClient, OnDisconnected
<1>13. CASE SketchDisconnect
  BY <1>13 DEF SketchDisconnect, Close, OnDisconnected
<1>14. CASE SketchStopReconnect
  BY <1>14 DEF SketchStopReconnect, Stopped
<1>15. CASE Switch
  <2>1. socketWant' \in BOOLEAN /\ wifiWant' \in BOOLEAN
    BY <1>15, Zenon DEF Switch
  <2>2. QED
    BY <1>15, <2>1 DEF Switch
<1>16. CASE AskReboot
  BY <1>16 DEF AskReboot
<1>17. CASE Crash
  BY <1>17, BootTyped DEF Crash
<1>18. CASE WifiChange
  <2>1. ManagerTyped'
    BY <1>0, <1>18, WifiTyped DEF WifiChange, Wifi!Next
  <2>2. ws' \in Clients
    BY <1>18 DEF WifiChange
  <2>3. QED
    BY <1>18, <2>1, <2>2 DEF WifiChange, ManagerTyped
<1>19. CASE ServerChange
  BY <1>19 DEF ServerChange
<1>20. CASE Tick
  BY <1>20, OlderInRange DEF Tick
<1>21. CASE UNCHANGED vars
  BY <1>21 DEF vars
<1>23. QED
  BY <1>1, <1>2, <1>3, <1>4, <1>5, <1>6, <1>7, <1>8, <1>9, <1>10, <1>11, <1>12, <1>13, <1>14,
     <1>15, <1>16, <1>17, <1>18, <1>19, <1>20, <1>21, <1>22 DEF Next, LoopStep, World

\* Type correctness; in particular reconnect_time never leaves Base..MaxTime.
THEOREM TypeCorrect == Spec => []TypeOK
BY InitTyped, NextTyped, PTL DEF Spec

-----------------------------------------------------------------------------
(* The client, its watchdog and its backoff.                               *)

\* They are consistent when _init() returns.
LEMMA InitConsistent == Init => Consistent
BY BaseAssumption DEF Init, Wifi!Init, Consistent, SocketNeedsWifi, OffMeansClosed, SubsOnlyWhileConnected,
       ConnectedIsWatched, ConnectedIsBaseline, ClientHasAttempted, RetryWithoutConnection,
       isConnected

\* And after a restart.
LEMMA BootConsistent == ASSUME Boot PROVE Consistent'
BY DEF Boot, Wifi!Restart, OnDisconnected, Consistent, SocketNeedsWifi, OffMeansClosed, SubsOnlyWhileConnected,
       ConnectedIsWatched, ConnectedIsBaseline, ClientHasAttempted, RetryWithoutConnection,
       isConnected

\* Every step keeps them consistent.
LEMMA NextConsistent == TypeOK /\ Consistent /\ [Next]_vars => Consistent'
<1> SUFFICES ASSUME TypeOK, Consistent, [Next]_vars PROVE Consistent'
  OBVIOUS
<1> USE DEF TypeOK, Steps, Clients, Consistent, SocketNeedsWifi, OffMeansClosed,
            SubsOnlyWhileConnected, ConnectedIsWatched, ConnectedIsBaseline, ClientHasAttempted,
            RetryWithoutConnection, isConnected, switches, manager, client, backoff
<1>1. CASE Reboot
  BY <1>1, BootConsistent DEF Reboot
<1>2. CASE ApplyOnOff
  <2>1. wifiOn' = wifiWant
    <3>1. SetEnabled
      BY <1>2 DEF ApplyOnOff
    <3>2. CASE UNCHANGED manager
      BY <3>1, <3>2 DEF SetEnabled, Wifi!SwitchOff, Wifi!SwitchOn
    <3>3. CASE wifiWant # wifiOn /\ Wifi!SwitchOff
      <4>1. wifiOn' = FALSE /\ wifiOn = TRUE
        BY <3>3 DEF Wifi!SwitchOff
      <4>2. QED
        BY <3>3, <4>1
    <3>4. CASE wifiWant # wifiOn /\ Wifi!SwitchOn
      <4>1. wifiOn' = TRUE /\ wifiOn = FALSE
        BY <3>4 DEF Wifi!SwitchOn
      <4>2. QED
        BY <3>4, <4>1
    <3>5. QED
      BY <3>1, <3>2, <3>3, <3>4, Zenon DEF SetEnabled
  <2>2. SocketNeedsWifi'
    BY <1>2, <2>1 DEF ApplyOnOff, WantedSocket
  <2>3. OffMeansClosed'
    BY <1>2 DEF ApplyOnOff, WantedSocket, ReconnectFresh, Reconnect, MayReconnect, NewClient
  <2>4. SubsOnlyWhileConnected' /\ ConnectedIsWatched' /\ ClientHasAttempted'
    BY <1>2 DEF ApplyOnOff, OnDisconnected, ReconnectFresh, Reconnect, MayReconnect, NewClient
  <2>5. ConnectedIsBaseline'
    BY <1>2 DEF ApplyOnOff, ReconnectFresh, Reconnect, MayReconnect, NewClient
  <2>6. RetryWithoutConnection'
    BY <1>2 DEF ApplyOnOff
  <2>7. QED
    BY <2>2, <2>3, <2>4, <2>5, <2>6
<1>3. CASE WifiLoop
  <2>1. UNCHANGED wifiOn
    BY <1>3 DEF WifiLoop, Wifi!Find, Wifi!ReportLoss, Wifi!Forget
  <2>2. QED
    BY <1>3, <2>1 DEF WifiLoop
<1>22. CASE WifiReturn
  BY <1>22 DEF WifiReturn, Wifi!ReportReturn
<1>4. CASE PendingReconnect
  BY <1>4 DEF PendingReconnect, ReconnectFresh, Reconnect, MayReconnect, NewClient, OnDisconnected
<1>5. CASE PumpIdle
  BY <1>5 DEF PumpIdle
<1>6. CASE Attempt
  BY <1>6 DEF Attempt, Pumped, Unwatched
<1>7. CASE Accept
  BY <1>7 DEF Accept, Pumped, Unwatched, OnConnected
<1>8. CASE Drop
  BY <1>8 DEF Drop, Pumped, Unwatched, Close, OnDisconnected
<1>9. CASE Receive
  BY <1>9 DEF Receive, Pumped, Unwatched, OnText
<1>10. CASE Watchdog
  BY <1>10 DEF Watchdog, Unwatched, RetryDue, DogDue, Close, OnDisconnected
<1>11. CASE Retry
  BY <1>11 DEF Retry, Reconnect, MayReconnect, NewClient, OnDisconnected
<1>12. CASE SketchReconnect
  BY <1>12 DEF SketchReconnect, ReconnectFresh, Reconnect, MayReconnect, NewClient, OnDisconnected
<1>13. CASE SketchDisconnect
  BY <1>13 DEF SketchDisconnect, Close, OnDisconnected
<1>14. CASE SketchStopReconnect
  BY <1>14 DEF SketchStopReconnect, Stopped
<1>15. CASE Switch
  BY <1>15 DEF Switch
<1>16. CASE AskReboot
  BY <1>16 DEF AskReboot
<1>17. CASE Crash
  BY <1>17, BootConsistent DEF Crash
<1>18. CASE WifiChange
  BY <1>18 DEF WifiChange, Wifi!LinkChange
<1>19. CASE ServerChange
  BY <1>19 DEF ServerChange
<1>20. CASE Tick
  BY <1>20 DEF Tick, Older
<1>21. CASE UNCHANGED vars
  BY <1>21 DEF vars
<1>23. QED
  BY <1>1, <1>2, <1>3, <1>4, <1>5, <1>6, <1>7, <1>8, <1>9, <1>10, <1>11, <1>12, <1>13, <1>14,
     <1>15, <1>16, <1>17, <1>18, <1>19, <1>20, <1>21, <1>22 DEF Next, LoopStep, World

\* The inductive invariant holds in every behaviour.
THEOREM Invariance == Spec => []IndInv
<1>1. Init => IndInv
  BY InitTyped, InitConsistent DEF IndInv
<1>2. IndInv /\ [Next]_vars => IndInv'
  BY NextTyped, NextConsistent DEF IndInv
<1>3. QED
  BY <1>1, <1>2, PTL DEF Spec

-----------------------------------------------------------------------------
(* The properties of the runs, from the invariant.                         *)

\* _applyOnOff() never leaves the socket on with WiFi off.
THEOREM SocketNeedsWifiHolds == Spec => []SocketNeedsWifi
<1>1. IndInv => SocketNeedsWifi
  BY DEF IndInv, Consistent
<1>2. QED
  BY <1>1, Invariance, PTL

\* A socket that is switched off has no connection, not even one being made.
THEOREM OffMeansClosedHolds == Spec => []OffMeansClosed
<1>1. IndInv => OffMeansClosed
  BY DEF IndInv, Consistent
<1>2. QED
  BY <1>1, Invariance, PTL

\* A count of subscribers never outlives the connection it was announced on.
THEOREM SubsOnlyWhileConnectedHolds == Spec => []SubsOnlyWhileConnected
<1>1. IndInv => SubsOnlyWhileConnected
  BY DEF IndInv, Consistent
<1>2. QED
  BY <1>1, Invariance, PTL

\* The watchdog's clock runs exactly while the client claims to be connected.
THEOREM ConnectedIsWatchedHolds == Spec => []ConnectedIsWatched
<1>1. IndInv => ConnectedIsWatched
  BY DEF IndInv, Consistent
<1>2. QED
  BY <1>1, Invariance, PTL

\* A connection that is up has put reconnect_time back to the baseline.
THEOREM ConnectedIsBaselineHolds == Spec => []ConnectedIsBaseline
<1>1. IndInv => ConnectedIsBaseline
  BY DEF IndInv, Consistent
<1>2. QED
  BY <1>1, Invariance, PTL

\* No client exists with last_reconnect still at "never attempted".
THEOREM ClientHasAttemptedHolds == Spec => []ClientHasAttempted
<1>1. IndInv => ClientHasAttempted
  BY DEF IndInv, Consistent
<1>2. QED
  BY <1>1, Invariance, PTL

\* watchdog() spaces its retries by more than the baseline, whatever the callbacks, the
\* switches and the sketch do between two passes: the mark of the last attempt is there
\* whenever there is a client, and reconnect_time never falls below the baseline.
THEOREM NoReconnectStormHolds == Spec => NoReconnectStorm
<1> DEFINE Spaced == pc = "watchdog" /\ pc' = "retry" => lastReconnect > Base
<1>1. ASSUME IndInv, [Next]_vars PROVE [Spaced]_vars
  <2>1. ASSUME Watchdog, pc' = "retry" PROVE lastReconnect > Base
    <3>1. ~Unwatched /\ RetryDue
      BY <2>1 DEF Watchdog
    <3>2. lastReconnect # Unset
      BY <1>1, <3>1 DEF IndInv, Consistent, ClientHasAttempted, Unwatched
    <3>3. lastReconnect > reconnectTime
      BY <3>1, <3>2 DEF RetryDue
    <3>4. QED
      BY <1>1, <3>3, BaseAssumption, MaxTimeAssumption, TimesAssumption DEF IndInv, TypeOK
  <2>2. ASSUME LoopStep, ~Watchdog PROVE pc' # "retry" \/ pc # "watchdog"
    BY <2>2 DEF LoopStep, Reboot, Boot, ApplyOnOff, WifiLoop, WifiReturn, PendingReconnect, PumpIdle,
               Attempt, Accept, Drop, Receive, Pumped, Retry
  <2>3. ASSUME World PROVE pc' # "retry" \/ pc # "watchdog"
    BY <2>3 DEF World, SketchReconnect, SketchDisconnect, SketchStopReconnect, Switch,
               AskReboot, Crash, Boot, WifiChange, ServerChange, Tick
  <2>4. QED
    BY <1>1, <2>1, <2>2, <2>3 DEF Next
<1>2. QED
  BY <1>1, Invariance, PTL DEF Spec, NoReconnectStorm

\* While the socket is off no step replaces the client or marks an attempt, except the
\* restart of the chip, which switches the socket on.
THEOREM NoAttemptWhileOffHolds == Spec => NoAttemptWhileOff
<1> DEFINE Still == lastReconnect' >= lastReconnect /\ (ws = "null" => ws' = "null")
<1>1. ASSUME IndInv, [Next]_vars PROVE [~socketOn /\ ~socketOn' => Still]_vars
  <2> SUFFICES ASSUME Next, ~socketOn, ~socketOn' PROVE Still
    BY <1>1
  <2>0. lastReconnect \in Unset..(MaxTime + 1) /\ MaxTime \in Nat
    BY <1>1, MaxTimeAssumption DEF IndInv, TypeOK
  <2>1. ~Reboot /\ ~Crash /\ ~Retry
    BY <1>1 DEF Reboot, Crash, Boot, Retry, IndInv, Consistent, RetryWithoutConnection
  <2>2. ASSUME NEW up, ReconnectFresh(socketOn, up) PROVE Still
    BY <2>0, <2>2 DEF ReconnectFresh, Reconnect, MayReconnect, client
  <2>3. CASE ApplyOnOff
    <3>1. UNCHANGED backoff
      BY <2>3 DEF ApplyOnOff
    <3>2. ws = "null" => ws' = "null"
      BY <2>3 DEF ApplyOnOff
    <3>3. QED
      BY <2>0, <3>1, <3>2 DEF backoff
  <2>4. CASE PendingReconnect
    BY <2>0, <2>2, <2>4 DEF PendingReconnect, client, backoff
  <2>5. CASE SketchReconnect
    BY <2>2, <2>5 DEF SketchReconnect
  <2>6. CASE Watchdog
    BY <2>0, <2>6 DEF Watchdog, Unwatched, client
  <2>7. CASE Attempt \/ Accept \/ Drop \/ Receive
    BY <2>7 DEF Attempt, Accept, Drop, Receive, Pumped, Unwatched
  <2>8. CASE WifiLoop \/ WifiReturn \/ PumpIdle \/ SketchStopReconnect \/ Switch \/ AskReboot
    BY <2>0, <2>8 DEF WifiLoop, WifiReturn, PumpIdle, SketchStopReconnect, Switch, AskReboot, client,
                        backoff
  <2>9. CASE SketchDisconnect
    BY <2>0, <2>9 DEF SketchDisconnect, Close, backoff
  <2>10. CASE WifiChange \/ ServerChange
    BY <2>0, <2>10 DEF WifiChange, ServerChange, backoff
  <2>11. CASE Tick
    BY <2>0, <2>11 DEF Tick, Older
  <2>12. QED
    BY <2>1, <2>3, <2>4, <2>5, <2>6, <2>7, <2>8, <2>9, <2>10, <2>11 DEF Next, LoopStep, World
<1>2. QED
  BY <1>1, Invariance, PTL DEF Spec, NoAttemptWhileOff

-----------------------------------------------------------------------------
(* WiFi management, as the server connection meets it.                     *)

\* What the contract sees of a step that leaves WiFi management alone.
LEMMA LeavesWifiAlone ==
    ASSUME UNCHANGED manager, (pc' = "joined") <=> (pc = "joined")
    PROVE  UNCHANGED Wifi!vars
<1>1. (pc' = "joined") = (pc = "joined")
  BY Zenon
<1>2. QED
  BY <1>1 DEF manager, Wifi!vars

\* Every step of the server connection that concerns WiFi is one the contract allows.
LEMMA NextContract == [Next]_vars => [Wifi!Next]_(Wifi!vars)
<1> SUFFICES ASSUME [Next]_vars PROVE [Wifi!Next]_(Wifi!vars)
  OBVIOUS
<1>1. CASE Reboot \/ Crash
  BY <1>1 DEF Reboot, Crash, Boot, Wifi!Next
<1>2. CASE ApplyOnOff
  <2>1. SetEnabled /\ pc = "top" /\ pc' = "wifi"
    BY <1>2 DEF ApplyOnOff
  <2>2. CASE UNCHANGED manager
    BY <2>1, <2>2, LeavesWifiAlone
  <2>3. CASE Wifi!SwitchOff \/ Wifi!SwitchOn
    BY <2>3 DEF Wifi!Next
  <2>4. QED
    BY <2>1, <2>2, <2>3 DEF SetEnabled
<1>3. CASE WifiLoop
  <2>1. CASE Wifi!Find \/ Wifi!ReportLoss \/ Wifi!Forget
    BY <2>1 DEF Wifi!Next
  <2>2. CASE pc' = "pending" /\ UNCHANGED manager
    <3>1. pc = "wifi"
      BY <1>3 DEF WifiLoop
    <3>2. QED
      BY <2>2, <3>1, LeavesWifiAlone
  <2>3. QED
    BY <1>3, <2>1, <2>2 DEF WifiLoop
<1>4. CASE WifiReturn
  BY <1>4 DEF WifiReturn, Wifi!Next
<1>5. CASE WifiChange
  BY <1>5 DEF WifiChange, Wifi!Next
<1>6. CASE PendingReconnect \/ PumpIdle \/ Watchdog \/ Retry
  <2>1. UNCHANGED manager /\ pc # "joined" /\ pc' # "joined"
    BY <1>6 DEF PendingReconnect, PumpIdle, Watchdog, Retry
  <2>2. QED
    BY <2>1, LeavesWifiAlone
<1>7. CASE Attempt \/ Accept \/ Drop \/ Receive
  <2>1. UNCHANGED manager /\ pc # "joined" /\ pc' # "joined"
    BY <1>7 DEF Attempt, Accept, Drop, Receive, Pumped
  <2>2. QED
    BY <2>1, LeavesWifiAlone
<1>8. CASE SketchReconnect \/ SketchDisconnect \/ SketchStopReconnect
  BY <1>8, LeavesWifiAlone DEF SketchReconnect, SketchDisconnect, SketchStopReconnect
<1>9. CASE Switch \/ AskReboot \/ ServerChange \/ Tick
  BY <1>9, LeavesWifiAlone DEF Switch, AskReboot, ServerChange, Tick
<1>10. CASE UNCHANGED vars
  BY <1>10, LeavesWifiAlone DEF vars
<1>11. QED
  BY <1>1, <1>2, <1>3, <1>4, <1>5, <1>6, <1>7, <1>8, <1>9, <1>10 DEF Next, LoopStep, World

\* WiFi management behaves here as its contract says: what the model of the server
\* connection assumes of it is no more than what WifiManager is shown to implement.
THEOREM UsesContract == Spec => Wifi!Spec
<1>1. Init => Wifi!Init
  BY DEF Init
<1>2. QED
  BY <1>1, NextContract, PTL DEF Spec, Wifi!Spec

-----------------------------------------------------------------------------
(* What DeadPeerNoticed and the file transfer rest on, for every instance. *)

\* A connection whose peer is gone does not feed the watchdog: its clock only runs on.
DeadIsStarved == [][ws = "dead" /\ ws' = "dead" => lastDog' >= lastDog]_vars

\* No pass leaves a connection alone that has been silent for longer than watchdog_time:
\* neither a switch under way nor a retry that is due takes the watchdog's turn.
SilentIsClosed ==
    [][pc = "watchdog" /\ pc' # "watchdog" /\ isConnected /\ lastDog > DogTime
          => ~isConnected']_vars

\* A connection begins only inside the WebSockets library's loop(), with the socket switched
\* on and WiFi there; everywhere else in a pass connections only end. An answer that
\* requestFile left to the rest of the pass cannot meet a later connection.
BeginsInLibrary ==
    [][isConnected' /\ (~isConnected \/ (ws = "dead" /\ ws' # "dead"))
          => pc = "pump" /\ pc' = "watchdog" /\ ws = "handshake" /\ socketOn /\ wifiUp]_vars

\* Starting afresh, closing and restarting leave no connection.
LEMMA ClosesNeverOpen ==
    ASSUME TypeOK, Boot \/ Close \/ NewClient
    PROVE  ~isConnected'
BY DEF TypeOK, Clients, Boot, Close, NewClient, isConnected

\* reconnect() leaves no connection, or everything as it is.
LEMMA ReconnectCloses ==
    ASSUME TypeOK, NEW on, NEW up, Reconnect(on, up) \/ ReconnectFresh(on, up)
    PROVE  ~isConnected' \/ UNCHANGED client
BY ClosesNeverOpen DEF Reconnect, ReconnectFresh

\* What a step may do to a connection: none is up after it, it is as before, it has just
\* begun, its peer has gone, something has arrived, or time has passed.
LEMMA ConnectionSteps ==
    ASSUME IndInv, Next
    PROVE  \/ ~isConnected'
           \/ UNCHANGED <<ws, lastDog>>
           \/ Accept
           \/ ws = "open" /\ ws' = "dead" /\ UNCHANGED lastDog
           \/ Receive
           \/ Tick
<1> USE DEF IndInv, TypeOK, Clients, isConnected, client
<1>1. CASE Reboot \/ Crash
  BY <1>1, ClosesNeverOpen DEF Reboot, Crash
<1>2. CASE ApplyOnOff
  <2>1. CASE ws' = IF ws = "null" THEN "null" ELSE "closed"
    BY <2>1
  <2>2. CASE ReconnectFresh(TRUE, wifiUp)
    BY <2>2, ReconnectCloses
  <2>3. CASE UNCHANGED <<ws, lastDog>>
    BY <2>3
  <2>4. QED
    BY <1>2, <2>1, <2>2, <2>3 DEF ApplyOnOff
<1>3. CASE WifiLoop \/ WifiReturn \/ PumpIdle
  BY <1>3 DEF WifiLoop, WifiReturn, PumpIdle
<1>4. CASE PendingReconnect \/ SketchReconnect
  BY <1>4, ReconnectCloses DEF PendingReconnect, SketchReconnect
<1>5. CASE Attempt
  BY <1>5 DEF Attempt
<1>6. CASE Drop \/ SketchDisconnect
  BY <1>6, ClosesNeverOpen DEF Drop, SketchDisconnect
<1>7. CASE Watchdog
  BY <1>7, ClosesNeverOpen DEF Watchdog
<1>8. CASE Retry
  BY <1>8, ReconnectCloses DEF Retry
<1>9. CASE SketchStopReconnect \/ Switch \/ AskReboot
  BY <1>9 DEF SketchStopReconnect, Switch, AskReboot
<1>10. CASE WifiChange \/ ServerChange
  BY <1>10 DEF WifiChange, ServerChange
<1>11. CASE Accept \/ Receive \/ Tick
  BY <1>11
<1>12. QED
  BY <1>1, <1>2, <1>3, <1>4, <1>5, <1>6, <1>7, <1>8, <1>9, <1>10, <1>11
     DEF Next, LoopStep, World

\* The clock of a connection whose peer is gone only runs on, whatever the switches, the
\* callbacks and the sketch do meanwhile.
THEOREM DeadIsStarvedHolds == Spec => DeadIsStarved
<1> DEFINE Starved == ws = "dead" /\ ws' = "dead" => lastDog' >= lastDog
<1>1. ASSUME IndInv, [Next]_vars PROVE [Starved]_vars
  <2> SUFFICES ASSUME Next, ws = "dead", ws' = "dead" PROVE lastDog' >= lastDog
    BY <1>1
  <2>0. lastDog \in Unset..(DogTime + 1) /\ DogTime \in Nat
    BY <1>1, TimesAssumption DEF IndInv, TypeOK
  <2>1. isConnected' /\ ~Accept /\ ~Receive
    BY DEF isConnected, Accept, Receive
  <2>2. CASE Tick
    BY <2>0, <2>2 DEF Tick, Older
  <2>3. QED
    BY <1>1, <2>0, <2>1, <2>2, ConnectionSteps
<1>2. QED
  BY <1>1, Invariance, PTL DEF Spec, DeadIsStarved

\* watchdog() never lets a connection pass that has been silent for too long: being connected
\* implies that the socket is on, so that it is watched, and that no retry takes precedence.
THEOREM SilentIsClosedHolds == Spec => SilentIsClosed
<1> DEFINE Closed == pc = "watchdog" /\ pc' # "watchdog" /\ isConnected /\ lastDog > DogTime
                        => ~isConnected'
<1>1. ASSUME IndInv, [Next]_vars PROVE [Closed]_vars
  <2> SUFFICES ASSUME Next, pc = "watchdog", pc' # "watchdog", isConnected, lastDog > DogTime
               PROVE  ~isConnected'
    BY <1>1
  <2>1. CASE Watchdog
    <3>1. socketOn /\ ws # "null"
      BY <1>1 DEF IndInv, Consistent, OffMeansClosed, isConnected
    <3>2. ~Unwatched /\ ~RetryDue /\ DogDue
      BY <3>1, TimesAssumption DEF Unwatched, RetryDue, DogDue
    <3>3. Close
      BY <2>1, <3>2 DEF Watchdog
    <3>4. QED
      BY <1>1, <3>3, ClosesNeverOpen DEF IndInv
  <2>2. CASE Crash
    BY <1>1, <2>2, ClosesNeverOpen DEF Crash, IndInv
  <2>3. ~Crash => ~World
    BY DEF World, SketchReconnect, SketchDisconnect, SketchStopReconnect, Switch, AskReboot,
           WifiChange, ServerChange, Tick
  <2>4. ~Watchdog => ~LoopStep
    BY DEF LoopStep, Reboot, ApplyOnOff, WifiLoop, WifiReturn, PendingReconnect, PumpIdle,
           Attempt, Accept, Drop, Receive, Pumped, Retry
  <2>5. QED
    BY <2>1, <2>2, <2>3, <2>4 DEF Next
<1>2. QED
  BY <1>1, Invariance, PTL DEF Spec, SilentIsClosed

\* Connections begin in the library's loop() only, and one whose peer is gone never comes
\* back to life.
THEOREM BeginsInLibraryHolds == Spec => BeginsInLibrary
<1> DEFINE Begins == isConnected' /\ (~isConnected \/ (ws = "dead" /\ ws' # "dead"))
           Place == pc = "pump" /\ pc' = "watchdog" /\ ws = "handshake" /\ socketOn /\ wifiUp
<1>1. ASSUME IndInv, [Next]_vars PROVE [Begins => Place]_vars
  <2> SUFFICES ASSUME Next, Begins PROVE Place
    BY <1>1
  <2>1. ~(UNCHANGED ws) /\ ~(ws = "open")
    BY DEF isConnected
  <2>2. ~Receive /\ ~Tick
    BY <2>1 DEF Receive, Tick
  <2>3. Accept
    BY <1>1, <2>1, <2>2, ConnectionSteps
  <2>4. QED
    BY <2>3 DEF Accept, Pumped, Unwatched
<1>2. QED
  BY <1>1, Invariance, PTL DEF Spec, BeginsInLibrary

\* Nothing puts the next retry off but an attempt: the mark of the last one is set anew only
\* by watchdog() when it retries, by a connection that succeeds, and by reconnect() when it
\* makes a fresh client (or by a restart, after which there may be none); and
\* the time to wait grows only with a retry, by no more than twice.
OnlyAttemptsPostpone ==
    [][/\ lastReconnect' < lastReconnect =>
             \/ pc = "watchdog" /\ pc' = "retry"
             \/ ~isConnected /\ isConnected'
             \/ ws' = "closed" /\ interval' = "fast"
             \/ ws' = "null"
       /\ reconnectTime' > reconnectTime => pc = "retry" /\ reconnectTime' <= 2 * reconnectTime]_vars

\* A retry doubles the time to wait, at most.
LEMMA NextReconnectTimeDoubles ==
    ASSUME NEW t \in Base..MaxTime
    PROVE  NextReconnectTime(t) <= 2 * t
BY BaseAssumption, MaxTimeAssumption DEF NextReconnectTime

\* No callback, switch, message or call of the sketch keeps a client without a connection
\* from its next attempt.
THEOREM OnlyAttemptsPostponeHolds == Spec => OnlyAttemptsPostpone
<1> DEFINE Marked == \/ pc = "watchdog" /\ pc' = "retry"
                     \/ ~isConnected /\ isConnected'
                     \/ ws' = "closed" /\ interval' = "fast"
                     \/ ws' = "null"
           Postponed == /\ lastReconnect' < lastReconnect => Marked
                        /\ reconnectTime' > reconnectTime
                              => pc = "retry" /\ reconnectTime' <= 2 * reconnectTime
<1>1. ASSUME IndInv, [Next]_vars PROVE [Postponed]_vars
  <2> SUFFICES ASSUME Next PROVE Postponed
    BY <1>1
  <2>0. /\ lastReconnect \in Unset..(MaxTime + 1) /\ reconnectTime \in Base..MaxTime
        /\ MaxTime \in Nat /\ Base \in Nat
    BY <1>1, MaxTimeAssumption, BaseAssumption DEF IndInv, TypeOK
  <2>1. ASSUME NEW on, NEW up, ReconnectFresh(on, up) PROVE Postponed
    <3>1. CASE MayReconnect(on, up)
      BY <2>0, <2>1, <3>1 DEF ReconnectFresh, Reconnect, NewClient
    <3>2. CASE ~MayReconnect(on, up)
      BY <2>0, <2>1, <3>2 DEF ReconnectFresh, Reconnect
    <3>3. QED
      BY <3>1, <3>2
  <2>2. ASSUME UNCHANGED backoff PROVE Postponed
    BY <2>0, <2>2 DEF backoff
  <2>3. CASE Reboot \/ Crash
    <3>1. Boot
      BY <2>3 DEF Reboot, Crash
    <3>2. (ws' = "closed" /\ interval' = "fast") \/ ws' = "null"
      BY <3>1 DEF Boot
    <3>3. reconnectTime' = Base
      BY <3>1 DEF Boot
    <3>4. QED
      BY <2>0, <3>2, <3>3
  <2>4. CASE ApplyOnOff
    BY <2>1, <2>2, <2>4 DEF ApplyOnOff
  <2>5. CASE WifiLoop \/ WifiReturn \/ PumpIdle \/ Attempt \/ Drop \/ Receive
    BY <2>2, <2>5 DEF WifiLoop, WifiReturn, PumpIdle, Attempt, Drop, Receive
  <2>6. CASE PendingReconnect
    BY <2>1, <2>2, <2>6 DEF PendingReconnect
  <2>7. CASE Accept
    <3>1. ~isConnected /\ isConnected' /\ reconnectTime' = Base
      BY <2>7 DEF Accept, OnConnected, isConnected
    <3>2. QED
      BY <2>0, <3>1
  <2>8. CASE Watchdog
    <3>1. lastReconnect' = lastReconnect \/ pc' = "retry"
      BY <2>8 DEF Watchdog
    <3>2. pc = "watchdog" /\ reconnectTime' = reconnectTime
      BY <2>8 DEF Watchdog
    <3>3. QED
      BY <2>0, <3>1, <3>2
  <2>9. CASE Retry
    <3>1. pc = "retry" /\ reconnectTime' <= 2 * reconnectTime
      BY <2>0, <2>9, NextReconnectTimeDoubles DEF Retry
    <3>2. lastReconnect' = lastReconnect \/ (ws' = "closed" /\ interval' = "fast")
      BY <2>9 DEF Retry, Reconnect, NewClient
    <3>3. QED
      BY <2>0, <3>1, <3>2
  <2>10. CASE SketchReconnect
    BY <2>1, <2>10 DEF SketchReconnect
  <2>11. CASE SketchDisconnect \/ SketchStopReconnect \/ Switch \/ AskReboot
    BY <2>2, <2>11 DEF SketchDisconnect, SketchStopReconnect, Switch, AskReboot
  <2>12. CASE WifiChange \/ ServerChange
    BY <2>2, <2>12 DEF WifiChange, ServerChange
  <2>13. CASE Tick
    BY <2>0, <2>13 DEF Tick, Older
  <2>14. QED
    BY <2>3, <2>4, <2>5, <2>6, <2>7, <2>8, <2>9, <2>10, <2>11, <2>12, <2>13
       DEF Next, LoopStep, World
<1>2. QED
  BY <1>1, Invariance, PTL DEF Spec, OnlyAttemptsPostpone
=============================================================================
