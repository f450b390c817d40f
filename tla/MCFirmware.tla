----------------------------- MODULE MCFirmware -----------------------------
(***************************************************************************)
(* Model checking of Firmware: images of two parts, the fewest that can be *)
(* mixed, two downloads or uploads between two boots, so that one can meet *)
(* or follow another, and three boots.                                     *)
(***************************************************************************)
EXTENDS Firmware
=============================================================================
