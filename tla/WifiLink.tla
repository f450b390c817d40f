------------------------------ MODULE WifiLink ------------------------------
(***************************************************************************)
(* What WiFi management (src/WifiManager) promises to the server           *)
(* connection, without credentials, attempts, backoff and AP:              *)
(*   - a pass of loop() that finds the link up and had not recorded it     *)
(*     reports its return; the link may be gone again before it does, and  *)
(*     what is recorded is what it finds then;                             *)
(*   - a pass that finds the link lost and had not recorded it reports the *)
(*     loss;                                                               *)
(*   - an attempt that is given up, also one made on top of a connection,  *)
(*     is recorded as a loss and not reported;                             *)
(*   - switching off records a loss, and reports it if a connection was    *)
(*     recorded; the link goes down in its own time;                       *)
(*   - if no client submits credentials, a link that stays up ends up      *)
(*     recorded for good (Settles).                                        *)
(* What happens to the link between two passes is not seen.                *)
(*                                                                         *)
(* WifiManager implements it (WifiManager!ImplementsLink); SocketLink is   *)
(* its user and takes its steps for those of WifiManager.                  *)
(***************************************************************************)

VARIABLES
    on,         \* _enabled
    up,         \* WiFi.isConnected()
    seen,       \* _wifi_status, what loop() has recorded
    reporting,  \* a pass has found the link up and is about to report it
    told        \* the last callback: _onInternetRestored ("up") or _onInternetLost

vars == <<on, up, seen, reporting, told>>

Records == {"connected", "lost", "other"}

-----------------------------------------------------------------------------
Init ==
    /\ on = TRUE
    /\ up \in BOOLEAN
    /\ seen = "other"
    /\ reporting = FALSE
    /\ told = "down"

\* A pass finds a link that is not recorded.
Find ==
    /\ on /\ ~reporting
    /\ up /\ seen # "connected"
    /\ reporting' = TRUE
    /\ UNCHANGED <<on, up, seen, told>>

ReportReturn ==
    /\ reporting
    /\ reporting' = FALSE
    /\ seen' \in IF up THEN {"connected"} ELSE {"lost", "other"}
    /\ told' = "up"
    /\ UNCHANGED <<on, up>>

ReportLoss ==
    /\ on /\ ~reporting
    /\ ~up /\ seen # "lost"
    /\ seen' = "lost"
    /\ told' = "down"
    /\ UNCHANGED <<on, up, reporting>>

Forget ==
    /\ on /\ ~reporting
    /\ seen' = "lost"
    /\ UNCHANGED <<on, up, reporting, told>>

SwitchOff ==
    /\ on /\ ~reporting
    /\ on' = FALSE
    /\ seen' = "lost"
    /\ told' = IF seen = "connected" THEN "down" ELSE told
    /\ UNCHANGED <<up, reporting>>

SwitchOn ==
    /\ ~on
    /\ on' = TRUE
    /\ UNCHANGED <<up, seen, reporting, told>>

LinkChange ==
    /\ up' = ~up
    /\ UNCHANGED <<on, seen, reporting, told>>

Restart ==
    /\ on' = TRUE
    /\ up' \in BOOLEAN
    /\ seen' = "other"
    /\ reporting' = FALSE
    /\ told' = "down"

Next ==
    \/ Find \/ ReportReturn \/ ReportLoss \/ Forget
    \/ SwitchOff \/ SwitchOn \/ LinkChange \/ Restart

Spec == Init /\ [][Next]_vars

-----------------------------------------------------------------------------
(* What the promise amounts to.                                            *)

TypeOK ==
    /\ on \in BOOLEAN /\ up \in BOOLEAN
    /\ seen \in Records
    /\ reporting \in BOOLEAN
    /\ told \in {"up", "down"}

\* A connection is recorded only once its return was reported, a pass reports only what is
\* not recorded, and nothing is recorded or reported while WiFi is off.
Honest ==
    /\ seen = "connected" => told = "up"
    /\ reporting => seen # "connected"
    /\ ~on => seen # "connected" /\ ~reporting

\* A link that is up for good is recorded for good: give-ups do not go on for ever.
Settles == <>[](on /\ up) => <>[](seen = "connected")
=============================================================================
