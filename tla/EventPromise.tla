---------------------------- MODULE EventPromise ----------------------------
(***************************************************************************)
(* What EventHandler (src/EventHandler/EventHandler.h) promises its users, *)
(* without its queue of messages, its linked list and its mutex:           *)
(*   - an event is refused only when QueueLength events wait;              *)
(*   - accepted events are delivered one after another, in the order in    *)
(*     which they were accepted;                                           *)
(*   - an event is delivered once to each subscription that matches it when *)
(*     its delivery begins, one callback at a time, and no subscription    *)
(*     changes until the last of them has returned;                        *)
(*   - its payload is freed after that, and not before.                    *)
(* EventBus implements it (EventBus!Implements).                           *)
(***************************************************************************)
EXTENDS Naturals, Sequences

CONSTANTS
    Events,         \* what can be published: records with category and eventId
    Keys,           \* what can be subscribed to: records of the same fields
    Callbacks,
    All,            \* the eventId of a subscription to a whole category
    None,
    QueueLength

VARIABLES
    handed,         \* publications so far, which number their payloads
    pending,        \* accepted events, each with its payload, oldest first
    current,        \* the event being delivered, or None
    phase,          \* "idle", "taken", "delivering", "delivered"
    due,            \* subscriptions that have yet to get the current event
    running,        \* the subscription whose callback runs, or None
    registry,       \* the callback of each key, or None
    alive           \* payloads of accepted events that are not freed

vars == <<handed, pending, current, phase, due, running, registry, alive>>

----------------------------------------------------------------------------
Matches(key, event) ==
    /\ key.category = event.category
    /\ key.eventId \in {All, event.eventId}

Init ==
    /\ handed = 0
    /\ pending = <<>>
    /\ current = None
    /\ phase = "idle"
    /\ due = {}
    /\ running = None
    /\ registry = [key \in Keys |-> None]
    /\ alive = {}

Accept(event) ==
    /\ Len(pending) < QueueLength
    /\ handed' = handed + 1
    /\ pending' = Append(pending, [event |-> event, data |-> handed'])
    /\ alive' = alive \cup {handed'}
    /\ UNCHANGED <<current, phase, due, running, registry>>

Refuse ==
    /\ Len(pending) = QueueLength
    /\ handed' = handed + 1
    /\ UNCHANGED <<pending, current, phase, due, running, registry, alive>>

Register(key, callback) ==
    /\ phase # "delivering"
    /\ registry' = [registry EXCEPT ![key] = callback]
    /\ UNCHANGED <<handed, pending, current, phase, due, running, alive>>

Take ==
    /\ phase = "idle"
    /\ pending # <<>>
    /\ current' = Head(pending)
    /\ pending' = Tail(pending)
    /\ phase' = "taken"
    /\ UNCHANGED <<handed, due, running, registry, alive>>

Begin ==
    /\ phase = "taken"
    /\ phase' = "delivering"
    /\ due' = {key \in Keys : Matches(key, current.event) /\ registry[key] # None}
    /\ UNCHANGED <<handed, pending, current, running, registry, alive>>

Call(key) ==
    /\ phase = "delivering"
    /\ running = None
    /\ key \in due
    /\ current.data \in alive
    /\ running' = key
    /\ due' = due \ {key}
    /\ UNCHANGED <<handed, pending, current, phase, registry, alive>>

Return ==
    /\ running # None
    /\ running' = None
    /\ UNCHANGED <<handed, pending, current, phase, due, registry, alive>>

End ==
    /\ phase = "delivering"
    /\ due = {}
    /\ running = None
    /\ phase' = "delivered"
    /\ UNCHANGED <<handed, pending, current, due, running, registry, alive>>

Free ==
    /\ phase = "delivered"
    /\ phase' = "idle"
    /\ alive' = alive \ {current.data}
    /\ current' = None
    /\ UNCHANGED <<handed, pending, due, running, registry>>

Next ==
    \/ \E event \in Events : Accept(event)
    \/ Refuse
    \/ \E key \in Keys, callback \in Callbacks : Register(key, callback)
    \/ Take
    \/ Begin
    \/ \E key \in Keys : Call(key)
    \/ Return
    \/ End
    \/ Free

Spec == Init /\ [][Next]_vars
=============================================================================
