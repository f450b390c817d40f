------------------------------ MODULE EventBus ------------------------------
(***************************************************************************)
(* EventHandler: the publish/subscribe bus between tasks.                  *)
(*                                                                         *)
(* Actors:                                                                 *)
(*   Tasks            tasks of the sketch that publish() and subscribe()   *)
(*   the bus's task   taskLoop() and dispatch(), with the callbacks, which *)
(*                    may publish(); those in Subscribing also subscribe() *)
(*                                                                         *)
(* Every event has a payload here: freeing a null one does nothing. It is  *)
(* named by the number of its publication. publish() is one step: the      *)
(* queue is the only shared thing it touches, and a payload that was       *)
(* refused is known to nobody else when it is freed.                       *)
(***************************************************************************)
EXTENDS Naturals, Sequences, FiniteSets

CONSTANTS
    Tasks,          \* the tasks of the sketch
    Bus,            \* the bus's own task
    Events,         \* events: [category, eventId]
    Keys,           \* subscriptions: [category, eventId], All for every eventId
    Callbacks,
    Subscribing,    \* callbacks that call subscribe(), against the warning
    All,            \* subscribeToAll
    None,           \* no task, no callback, no message
    QueueLength,    \* EVENT_QUEUE_LENGTH
    MaxPublished    \* bound: publications

ASSUME TasksAssumption == Bus \notin Tasks /\ None \notin Tasks \cup {Bus}
ASSUME CallbacksAssumption == None \notin Callbacks
ASSUME KeysAssumption == None \notin Keys
ASSUME LengthAssumption == QueueLength \in Nat \ {0} /\ MaxPublished \in Nat

VARIABLES
    queue,          \* eventQueue: messages [event, data]
    published,      \* payloads handed over so far: 1..published
    freed,          \* how often each payload was deleted
    subscriptions,  \* the linked list from its oldest node to its head
    mutex,          \* the task that holds subscriptionsMutex, or None
    step,           \* of each task: "idle", or where it is in subscribe()
    want,           \* of each task: the subscription [key, callback] it makes
    pc,             \* of the bus's task: "receive", "lock", "walk", "callback",
                    \* "subscribe" (in a callback, for ever), "free"
    msg,            \* of the bus's task: the message it dispatches, or None
    sub             \* of the bus's task: nodes still to be visited

busVars == <<pc, msg, sub>>
taskVars == <<step, want>>
vars == <<queue, published, freed, subscriptions, mutex, step, want, pc, msg, sub>>

Payloads == 1..MaxPublished
Messages == [event : Events, data : Payloads]
Requests == [key : Keys, callback : Callbacks]
Nodes == [key : Keys, callback : Callbacks \cup {None}]

----------------------------------------------------------------------------
(* init(), called once from setup() before any other task uses the bus.    *)

Init ==
    /\ queue = <<>>
    /\ published = 0
    /\ freed = [data \in Payloads |-> 0]
    /\ subscriptions = <<>>
    /\ mutex = None
    /\ step = [t \in Tasks |-> "idle"]
    /\ want = [t \in Tasks |-> None]
    /\ pc = "receive"
    /\ msg = None
    /\ sub = 0

----------------------------------------------------------------------------
(* publish(): never waits; a payload that finds no room is freed at once.  *)

Freed_Leaks(data) == freed
Freed(data) == [freed EXCEPT ![data] = @ + 1]

Sent_AtFront(message) == <<message>> \o queue
Sent(message) == Append(queue, message)

HasRoom_OneMore == Len(queue) <= QueueLength
HasRoom == Len(queue) < QueueLength

Send(event, data) ==
    \/ /\ HasRoom
       /\ queue' = Sent([event |-> event, data |-> data])
       /\ UNCHANGED freed
    \/ /\ ~HasRoom
       /\ freed' = Freed(data)
       /\ UNCHANGED queue

publish(event) ==
    /\ published < MaxPublished
    /\ published' = published + 1
    /\ Send(event, published + 1)

Publish(t, event) ==
    /\ step[t] = "idle"
    /\ publish(event)
    /\ UNCHANGED <<subscriptions, mutex, taskVars, busVars>>

----------------------------------------------------------------------------
(* subscribeLocked()                                                       *)

Transition(t, from, to) ==
    /\ step[t] = from
    /\ step' = [step EXCEPT ![t] = to]

Subscribe(t, key, callback) ==
    /\ Transition(t, "idle", "take")
    /\ want' = [want EXCEPT ![t] = [key |-> key, callback |-> callback]]
    /\ UNCHANGED <<queue, published, freed, subscriptions, mutex, busVars>>

\* xSemaphoreTake() with portMAX_DELAY. The mutex is not a recursive one.
Acquire_Unlocked(t) == mutex' = t
Acquire(t) == mutex = None /\ mutex' = t

Release_Never == UNCHANGED mutex
Release == mutex' = None

Take(t) ==
    /\ Transition(t, "take", "find")
    /\ Acquire(t)
    /\ UNCHANGED <<queue, published, freed, subscriptions, want, busVars>>

\* findSubscriptionLocked(): a key of one eventId equals none of all.
Found(key) == {i \in 1..Len(subscriptions) : subscriptions[i].key = key}

\* The new node is at the head of the list before it has its callback.
Link_Always(key) == Append(subscriptions, [key |-> key, callback |-> None])
Link(key) ==
    IF Found(key) # {} THEN subscriptions
    ELSE Append(subscriptions, [key |-> key, callback |-> None])

Find(t) ==
    /\ Transition(t, "find", "set")
    /\ subscriptions' = Link(want[t].key)
    /\ UNCHANGED <<queue, published, freed, mutex, want, busVars>>

SetCallback(t) ==
    /\ Transition(t, "set", "idle")
    /\ \E i \in Found(want[t].key) :
        subscriptions' = [subscriptions EXCEPT ![i].callback = want[t].callback]
    /\ want' = [want EXCEPT ![t] = None]
    /\ Release
    /\ UNCHANGED <<queue, published, freed, busVars>>

----------------------------------------------------------------------------
(* taskLoop() and dispatch()                                               *)

Goto(from, to) == pc = from /\ pc' = to

Receive ==
    /\ Goto("receive", "lock")
    /\ queue # <<>>
    /\ msg' = Head(queue)
    /\ queue' = Tail(queue)
    /\ UNCHANGED <<published, freed, subscriptions, mutex, taskVars, sub>>

\* The walk starts at the head, which is the youngest node.
Lock ==
    /\ Goto("lock", "walk")
    /\ Acquire(Bus)
    /\ sub' = Len(subscriptions)
    /\ UNCHANGED <<queue, published, freed, subscriptions, taskVars, msg>>

Matching(key, event) ==
    /\ key.category = event.category
    /\ key.eventId \in {All, event.eventId}

Skip ==
    /\ Goto("walk", "walk")
    /\ sub > 0
    /\ ~Matching(subscriptions[sub].key, msg.event)
    /\ sub' = sub - 1
    /\ UNCHANGED <<queue, published, freed, subscriptions, mutex, taskVars, msg>>

Call ==
    /\ Goto("walk", "callback")
    /\ sub > 0
    /\ Matching(subscriptions[sub].key, msg.event)
    /\ UNCHANGED <<queue, published, freed, subscriptions, mutex, taskVars, msg, sub>>

CallbackPublish(event) ==
    /\ pc = "callback"
    /\ publish(event)
    /\ UNCHANGED <<subscriptions, mutex, taskVars, busVars>>

\* Its xSemaphoreTake() waits for the mutex its own task holds.
CallbackSubscribe ==
    /\ Goto("callback", "subscribe")
    /\ subscriptions[sub].callback \in Subscribing
    /\ UNCHANGED <<queue, published, freed, subscriptions, mutex, taskVars, msg, sub>>

Return ==
    /\ Goto("callback", "walk")
    /\ sub' = sub - 1
    /\ UNCHANGED <<queue, published, freed, subscriptions, mutex, taskVars, msg>>

Unlock ==
    /\ Goto("walk", "free")
    /\ sub = 0
    /\ Release
    /\ UNCHANGED <<queue, published, freed, subscriptions, taskVars, msg, sub>>

Free ==
    /\ Goto("free", "receive")
    /\ freed' = Freed(msg.data)
    /\ msg' = None
    /\ UNCHANGED <<queue, published, subscriptions, mutex, taskVars, sub>>

----------------------------------------------------------------------------
TaskStep(t) ==
    \/ \E event \in Events : Publish(t, event)
    \/ \E key \in Keys, callback \in Callbacks : Subscribe(t, key, callback)
    \/ Take(t)
    \/ Find(t)
    \/ SetCallback(t)

Dispatch == Receive \/ Lock \/ Skip \/ Call \/ Return \/ Unlock \/ Free

InCallback ==
    \/ \E event \in Events : CallbackPublish(event)
    \/ CallbackSubscribe

Next ==
    \/ \E t \in Tasks : TaskStep(t)
    \/ Dispatch
    \/ InCallback

(***************************************************************************)
(* The bus's task runs, and a callback that does not subscribe returns.    *)
(* A task in subscribe() goes on. FreeRTOS wakes those that wait for a     *)
(* mutex by priority and age, so none waits for ever while others of its   *)
(* priority come and go.                                                   *)
(***************************************************************************)
Fairness ==
    /\ WF_vars(Dispatch)
    /\ SF_vars(Lock)
    /\ \A t \in Tasks : SF_vars(Take(t)) /\ WF_vars(Find(t) \/ SetCallback(t))

Spec == Init /\ [][Next]_vars /\ Fairness

----------------------------------------------------------------------------
(* Safety                                                                  *)

TypeOK ==
    /\ queue \in Seq(Messages) /\ Len(queue) <= QueueLength
    /\ published \in 0..MaxPublished
    /\ freed \in [Payloads -> Nat]
    /\ subscriptions \in Seq(Nodes)
    /\ mutex \in Tasks \cup {Bus, None}
    /\ step \in [Tasks -> {"idle", "take", "find", "set"}]
    /\ want \in [Tasks -> Requests \cup {None}]
    /\ \A t \in Tasks : step[t] # "idle" => want[t] \in Requests
    /\ pc \in {"receive", "lock", "walk", "callback", "subscribe", "free"}
    /\ msg \in Messages \cup {None}
    /\ pc # "receive" => msg \in Messages
    /\ sub \in 0..Len(subscriptions)
    /\ pc \in {"callback", "subscribe"} => sub > 0

\* Every payload handed over with publish() is in exactly one place: once in
\* the queue, or with the bus's task until the last callback has returned, or
\* deleted exactly once. None leaks, is deleted twice or used after it.
InQueue(data) == {i \in 1..Len(queue) : queue[i].data = data}
Dispatched(data) == pc # "receive" /\ msg.data = data
OwnedOnce ==
    \A data \in Payloads :
        /\ \A i, j \in InQueue(data) : i = j
        /\ InQueue(data) # {} => data <= published /\ ~Dispatched(data) /\ freed[data] = 0
        /\ Dispatched(data) => data <= published /\ freed[data] = 0
        /\ InQueue(data) = {} /\ ~Dispatched(data) =>
               freed[data] = IF data <= published THEN 1 ELSE 0

\* Whatever two tasks subscribe at once, no key has two nodes, so
\* no event reaches a callback twice (the comment at EventHandler.h:31-35).
OneNodePerKey ==
    \A i, j \in 1..Len(subscriptions) :
        subscriptions[i].key = subscriptions[j].key => i = j

\* The walk never meets a node that subscribeLocked() has linked and not yet
\* given its callback: an empty std::function would end the program.
NoEmptyCallback ==
    pc \in {"walk", "callback", "subscribe"} =>
        \A i \in 1..Len(subscriptions) : subscriptions[i].callback # None

\* Who holds the mutex, and what its holder has done to the list. With the
\* others it is inductive.
MutexHeld ==
    /\ mutex = Bus <=> pc \in {"walk", "callback", "subscribe"}
    /\ \A t \in Tasks : mutex = t <=> step[t] \in {"find", "set"}
    /\ \A t \in Tasks : step[t] = "set" => Found(want[t].key) # {}
    /\ \A i \in 1..Len(subscriptions) :
        subscriptions[i].callback = None =>
            \E t \in Tasks : step[t] = "set" /\ want[t].key = subscriptions[i].key

\* The key of the running callback matches the event it is called with.
CallsMatch ==
    pc \in {"callback", "subscribe"} => Matching(subscriptions[sub].key, msg.event)

IndInv == TypeOK /\ OwnedOnce /\ OneNodePerKey /\ MutexHeld /\ CallsMatch

----------------------------------------------------------------------------
(* Refinement: the bus keeps the promise of EventPromise.                  *)

Delivering == pc \in {"walk", "callback", "subscribe"}
ToVisit == IF pc = "walk" THEN 1..sub ELSE 1..(sub - 1)

PhaseNow == CASE pc = "receive" -> "idle"
              [] pc = "lock" -> "taken"
              [] Delivering -> "delivering"
              [] pc = "free" -> "delivered"

DueNow ==
    IF Delivering
    THEN {subscriptions[i].key : i \in
            {j \in ToVisit : Matching(subscriptions[j].key, msg.event)}}
    ELSE {}

RunningNow == IF pc \in {"callback", "subscribe"} THEN subscriptions[sub].key ELSE None

CallbackOf(key) ==
    IF Found(key) # {} THEN subscriptions[CHOOSE i \in Found(key) : TRUE].callback ELSE None

RegistryNow == [key \in Keys |-> CallbackOf(key)]

AliveNow == {data \in 1..published : freed[data] = 0}

Promise == INSTANCE EventPromise WITH
    handed <- published, pending <- queue, current <- msg, phase <- PhaseNow, due <- DueNow,
    running <- RunningNow, registry <- RegistryNow, alive <- AliveNow

\* Order, exactly-once delivery, one callback at a time, a list that does not
\* change under a delivery and a payload that outlives it: every step of the
\* tasks, the mutex and the list is a step of the promise or changes nothing
\* of it.
Implements == Promise!Spec

----------------------------------------------------------------------------
(* Liveness                                                                *)

\* An event that publish() accepted is delivered and its payload freed,
\* unless a callback waits in subscribe() for the mutex of its own delivery.
EventsServed ==
    \A data \in Payloads :
        InQueue(data) # {} ~> freed[data] = 1 \/ pc = "subscribe"

\* subscribe() returns, with the same exception.
SubscribersServed ==
    \A t \in Tasks : step[t] = "take" ~> step[t] = "idle" \/ pc = "subscribe"
=============================================================================
