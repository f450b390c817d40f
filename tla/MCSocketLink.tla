---------------------------- MODULE MCSocketLink ----------------------------
(***************************************************************************)
(* Model checking of SocketLink. One tick stands for 15 s in the safety    *)
(* run (baseline 2, cap 6 for 12, watchdog 2) and for 30 s in the liveness runs; *)
(* the grace of 1.5 s is one tick, the smallest delay that is not none.    *)
(***************************************************************************)
EXTENDS SocketLink
=============================================================================
