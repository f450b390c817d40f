----------------------------- MODULE MCTimezone -----------------------------
(***************************************************************************)
(* Model checking of Timezone: two zones that setTZ() accepts and one that *)
(* only the server can bring in.                                           *)
(***************************************************************************)
EXTENDS Timezone
=============================================================================
