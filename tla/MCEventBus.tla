----------------------------- MODULE MCEventBus -----------------------------
(***************************************************************************)
(* Model checking of EventBus: a queue of two, three publications, and     *)
(* subscriptions to one eventId and to all of a category, so that an event *)
(* matches one of them or both.                                            *)
(***************************************************************************)
EXTENDS EventBus

Key(category, eventId) == [category |-> category, eventId |-> eventId]
MCKeys == {Key("nfc", All), Key("nfc", 1)}
MCEvents == {Key("nfc", 1), Key("nfc", 2)}
=============================================================================
