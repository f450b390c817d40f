--------------------------- MODULE MCWifiManager ---------------------------
(***************************************************************************)
(* Model checking of WifiManager. An attempt takes Attempts ticks, less    *)
(* than the retry interval, which is less than the grace window, as 15 s,  *)
(* 30 s and 120 s are.                                                     *)
(***************************************************************************)
EXTENDS WifiManager
=============================================================================
