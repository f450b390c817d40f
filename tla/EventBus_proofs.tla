-------------------------- MODULE EventBus_proofs ---------------------------
(***************************************************************************)
(* Proofs about EventBus for any tasks, events, subscriptions, callbacks   *)
(* (also those that subscribe) and any length of the queue: its safety     *)
(* properties, and that it implements EventPromise.                        *)
(***************************************************************************)
EXTENDS EventBus, SequenceTheorems, TLAPS

USE TasksAssumption, CallbacksAssumption, KeysAssumption, LengthAssumption

\* The part of the type invariant about the tasks of the sketch.
TaskTypes ==
    /\ step \in [Tasks -> {"idle", "take", "find", "set"}]
    /\ want \in [Tasks -> Requests \cup {None}]
    /\ \A t \in Tasks : step[t] # "idle" => want[t] \in Requests

\* The part about the queue and the payloads.
QueueTypes ==
    /\ queue \in Seq(Messages) /\ Len(queue) <= QueueLength
    /\ published \in 0..MaxPublished
    /\ freed \in [Payloads -> Nat]

\* The part about the list and the bus's task.
BusTypes ==
    /\ subscriptions \in Seq(Nodes)
    /\ mutex \in Tasks \cup {Bus, None}
    /\ pc \in {"receive", "lock", "walk", "callback", "subscribe", "free"}
    /\ msg \in Messages \cup {None}
    /\ pc # "receive" => msg \in Messages
    /\ sub \in 0..Len(subscriptions)
    /\ pc \in {"callback", "subscribe"} => sub > 0

\* The type invariant is the three parts.
LEMMA TypeParts == TypeOK <=> TaskTypes /\ QueueTypes /\ BusTypes
BY DEF TypeOK, TaskTypes, QueueTypes, BusTypes

\* Setting the callback changes it in one node with the task's key, and
\* nothing else of the list.
LEMMA SetEffect ==
    ASSUME TypeOK, NEW t \in Tasks, SetCallback(t)
    PROVE  /\ subscriptions' \in Seq(Nodes)
           /\ Len(subscriptions') = Len(subscriptions)
           /\ want[t] \in Requests
           /\ \E i \in Found(want[t].key) : \A j \in 1..Len(subscriptions) :
                subscriptions'[j] =
                    IF j = i THEN [key |-> want[t].key, callback |-> want[t].callback]
                    ELSE subscriptions[j]
<1>1. want[t] \in Requests
  BY DEF TypeOK, SetCallback, Transition
<1>2. PICK i \in Found(want[t].key) :
          subscriptions' = [subscriptions EXCEPT ![i].callback = want[t].callback]
  BY DEF SetCallback
<1> DEFINE e == [subscriptions[i] EXCEPT !.callback = want[t].callback]
<1>3. i \in 1..Len(subscriptions) /\ subscriptions[i].key = want[t].key
  BY DEF Found
<1>4. subscriptions[i] \in Nodes
  BY <1>3, ElementOfSeq DEF TypeOK
<1>5. e \in Nodes /\ e = [key |-> want[t].key, callback |-> want[t].callback]
  BY <1>1, <1>3, <1>4 DEF Nodes, Requests
<1>6. subscriptions' = [subscriptions EXCEPT ![i] = e]
  BY <1>2
<1> HIDE DEF e
<1>7. /\ subscriptions' \in Seq(Nodes)
      /\ Len(subscriptions') = Len(subscriptions)
      /\ \A j \in 1..Len(subscriptions) :
            subscriptions'[j] = IF j = i THEN e ELSE subscriptions[j]
  BY <1>3, <1>5, <1>6, ExceptSeq DEF TypeOK
<1>8. QED
  BY <1>1, <1>5, <1>7

\* Linking adds at most one node, with the task's key and no callback, and
\* only when no node has that key.
LEMMA FindEffect ==
    ASSUME TypeOK, NEW t \in Tasks, Find(t)
    PROVE  /\ subscriptions' \in Seq(Nodes)
           /\ want[t] \in Requests
           /\ \/ Found(want[t].key) # {} /\ subscriptions' = subscriptions
              \/ /\ Found(want[t].key) = {}
                 /\ Len(subscriptions') = Len(subscriptions) + 1
                 /\ \A j \in 1..Len(subscriptions) : subscriptions'[j] = subscriptions[j]
                 /\ subscriptions'[Len(subscriptions) + 1] =
                        [key |-> want[t].key, callback |-> None]
<1>1. want[t] \in Requests
  BY DEF TypeOK, Find, Transition
<1>2. [key |-> want[t].key, callback |-> None] \in Nodes
  BY <1>1 DEF Requests, Nodes
<1>3. QED
  BY <1>1, <1>2 DEF TypeOK, Find, Link

\* publish() keeps the queue within its length and counts its payload.
LEMMA PublishTyped ==
    ASSUME TypeOK, NEW event \in Events, publish(event)
    PROVE  QueueTypes' /\ published + 1 \in Payloads
<1> USE DEF TypeOK, publish, Payloads
<1>1. published + 1 \in Payloads /\ published' \in 0..MaxPublished
  OBVIOUS
<1>2. CASE HasRoom
  <2>1. queue' = Append(queue, [event |-> event, data |-> published + 1]) /\ freed' = freed
    BY <1>2 DEF Send, Sent
  <2>2. [event |-> event, data |-> published + 1] \in Messages
    BY <1>1 DEF Messages
  <2>3. QED
    BY <1>1, <1>2, <2>1, <2>2 DEF QueueTypes, HasRoom
<1>3. CASE ~HasRoom
  <2>1. queue' = queue /\ freed' = [freed EXCEPT ![published + 1] = @ + 1]
    BY <1>3 DEF Send, Freed
  <2>2. QED
    BY <1>1, <2>1 DEF QueueTypes
<1>4. QED
  BY <1>2, <1>3

\* Every step keeps every variable in its range.
LEMMA NextTyped == TypeOK /\ [Next]_vars => TypeOK'
<1> SUFFICES ASSUME TypeOK, [Next]_vars PROVE TaskTypes' /\ QueueTypes' /\ BusTypes'
  BY TypeParts DEF TypeOK, TaskTypes, QueueTypes, BusTypes
<1> USE TypeParts
<1>1. ASSUME NEW t \in Tasks, NEW event \in Events, Publish(t, event)
      PROVE  TaskTypes' /\ QueueTypes' /\ BusTypes'
  BY <1>1, PublishTyped DEF Publish, taskVars, busVars, TaskTypes, BusTypes
<1>2. ASSUME NEW t \in Tasks, NEW key \in Keys, NEW callback \in Callbacks,
             Subscribe(t, key, callback)
      PROVE  TaskTypes' /\ QueueTypes' /\ BusTypes'
  <2>1. TaskTypes'
    BY <1>2 DEF Subscribe, Transition, TaskTypes, Requests
  <2>2. QED
    BY <1>2, <2>1 DEF Subscribe, busVars, QueueTypes, BusTypes
<1>3. ASSUME NEW t \in Tasks, Take(t)
      PROVE  TaskTypes' /\ QueueTypes' /\ BusTypes'
  <2>1. TaskTypes'
    BY <1>3 DEF Take, Transition, TaskTypes
  <2>2. QED
    BY <1>3, <2>1 DEF Take, Acquire, busVars, QueueTypes, BusTypes
<1>4. ASSUME NEW t \in Tasks, Find(t)
      PROVE  TaskTypes' /\ QueueTypes' /\ BusTypes'
  <2>1. TaskTypes' /\ QueueTypes'
    BY <1>4 DEF Find, Transition, TaskTypes, QueueTypes
  <2>2. subscriptions' \in Seq(Nodes)
    BY <1>4, FindEffect
  <2>3. Len(subscriptions') = Len(subscriptions) \/ Len(subscriptions') = Len(subscriptions) + 1
    BY <1>4, FindEffect, Zenon
  <2>4. QED
    BY <1>4, <2>1, <2>2, <2>3 DEF Find, busVars, BusTypes
<1>5. ASSUME NEW t \in Tasks, SetCallback(t)
      PROVE  TaskTypes' /\ QueueTypes' /\ BusTypes'
  <2>1. TaskTypes' /\ QueueTypes'
    BY <1>5 DEF SetCallback, Transition, TaskTypes, QueueTypes
  <2>2. QED
    BY <1>5, <2>1, SetEffect DEF SetCallback, Release, busVars, BusTypes
<1>6. ASSUME NEW event \in Events, CallbackPublish(event)
      PROVE  TaskTypes' /\ QueueTypes' /\ BusTypes'
  BY <1>6, PublishTyped DEF CallbackPublish, taskVars, busVars, TaskTypes, BusTypes
<1>7. CASE Receive
  BY <1>7 DEF Receive, Goto, taskVars, TaskTypes, QueueTypes, BusTypes
<1>8. CASE Lock
  BY <1>8 DEF Lock, Goto, Acquire, taskVars, TaskTypes, QueueTypes, BusTypes
<1>9. CASE Skip \/ Call \/ CallbackSubscribe \/ Return
  BY <1>9 DEF Skip, Call, CallbackSubscribe, Return, Goto, taskVars,
     TaskTypes, QueueTypes, BusTypes
<1>10. CASE Unlock
  BY <1>10 DEF Unlock, Goto, Release, taskVars, TaskTypes, QueueTypes, BusTypes
<1>11. CASE Free
  BY <1>11 DEF Free, Goto, Freed, taskVars, TaskTypes, QueueTypes, BusTypes, Messages
<1>12. CASE UNCHANGED vars
  BY <1>12 DEF vars, taskVars, busVars, TaskTypes, QueueTypes, BusTypes
<1>13. QED
  BY <1>1, <1>2, <1>3, <1>4, <1>5, <1>6, <1>7, <1>8, <1>9, <1>10, <1>11, <1>12
     DEF Next, TaskStep, Dispatch, InCallback

\* Only the steps named here touch the queue, the payloads or what the bus's
\* task holds.
LEMMA PayloadSteps ==
    ASSUME [Next]_vars
    PROVE  \/ \E event \in Events : publish(event) /\ UNCHANGED <<pc, msg>>
           \/ Receive
           \/ Free
           \/ /\ UNCHANGED <<queue, published, freed, msg>>
              /\ (pc # "receive" /\ pc' # "receive") \/ pc' = pc
BY DEF Next, TaskStep, Dispatch, InCallback, Publish, Subscribe, Take, Find, SetCallback,
   CallbackPublish, CallbackSubscribe, Lock, Skip, Call, Return, Unlock, Goto, vars, busVars

\* Every step leaves every payload in one place.
LEMMA NextOwned == TypeOK /\ OwnedOnce /\ [Next]_vars => OwnedOnce'
<1> SUFFICES ASSUME TypeOK, OwnedOnce, [Next]_vars, NEW d \in Payloads
             PROVE  /\ \A i, j \in InQueue(d)' : i = j
                    /\ InQueue(d)' # {} =>
                            d <= published' /\ ~Dispatched(d)' /\ freed'[d] = 0
                    /\ Dispatched(d)' => d <= published' /\ freed'[d] = 0
                    /\ InQueue(d)' = {} /\ ~Dispatched(d)' =>
                            freed'[d] = IF d <= published' THEN 1 ELSE 0
  BY DEF OwnedOnce
<1>1. /\ \A i, j \in InQueue(d) : i = j
      /\ InQueue(d) # {} => d <= published /\ ~Dispatched(d) /\ freed[d] = 0
      /\ Dispatched(d) => d <= published /\ freed[d] = 0
      /\ InQueue(d) = {} /\ ~Dispatched(d) => freed[d] = IF d <= published THEN 1 ELSE 0
  BY DEF OwnedOnce
<1>2. CASE \E event \in Events : publish(event) /\ UNCHANGED <<pc, msg>>
  <2>1. PICK event \in Events : publish(event) /\ UNCHANGED <<pc, msg>>
    BY <1>2
  <2>2. published \in Nat /\ published' = published + 1 /\ d \in Nat
    BY <2>1 DEF publish, TypeOK, Payloads
  <2>3. Dispatched(d)' = Dispatched(d)
    BY <2>1 DEF Dispatched
  <2>4. CASE HasRoom
    <3>1. queue' = Append(queue, [event |-> event, data |-> published + 1]) /\ freed' = freed
      BY <2>1, <2>4 DEF publish, Send, Sent
    <3>2. CASE d = published + 1
      <4>1. InQueue(d) = {} /\ ~Dispatched(d) /\ freed[d] = 0
        BY <1>1, <2>2, <3>2
      <4>2. /\ Len(queue') = Len(queue) + 1 /\ queue'[Len(queue) + 1].data = d
            /\ \A i \in 1..Len(queue) : queue'[i].data # d
        BY <3>1, <3>2, <4>1 DEF InQueue, TypeOK
      <4>3. Len(queue) + 1 \in InQueue(d)' /\ \A i \in InQueue(d)' : i = Len(queue) + 1
        BY <4>2 DEF InQueue, TypeOK
      <4>4. QED
        BY <2>2, <2>3, <3>1, <3>2, <4>1, <4>3
    <3>3. CASE d # published + 1
      <4>1. InQueue(d)' = InQueue(d)
        BY <3>1, <3>3 DEF InQueue, TypeOK
      <4>2. QED
        BY <1>1, <2>2, <2>3, <3>1, <3>3, <4>1
    <3>4. QED
      BY <3>2, <3>3
  <2>5. CASE ~HasRoom
    <3>1. queue' = queue /\ freed' = [freed EXCEPT ![published + 1] = @ + 1]
      BY <2>1, <2>5 DEF publish, Send, Freed
    <3>2. InQueue(d)' = InQueue(d)
      BY <3>1 DEF InQueue
    <3>3. QED
      BY <1>1, <2>2, <2>3, <3>1, <3>2 DEF TypeOK
  <2>6. QED
    BY <2>4, <2>5
<1>3. CASE Receive
  <2>1. /\ pc = "receive" /\ pc' = "lock" /\ queue # <<>> /\ queue \in Seq(Messages)
        /\ msg' = queue[1] /\ queue' = Tail(queue) /\ freed' = freed /\ published' = published
    BY <1>3 DEF Receive, Goto, TypeOK
  <2>2. /\ Len(queue') = Len(queue) - 1 /\ 1 \in 1..Len(queue)
        /\ \A i \in 1..Len(queue') : queue'[i] = queue[i + 1]
    BY <2>1
  <2>3. ~Dispatched(d) /\ (Dispatched(d)' <=> queue[1].data = d)
    BY <2>1 DEF Dispatched
  <2>4. CASE queue[1].data = d
    <3>1. 1 \in InQueue(d)
      BY <2>2, <2>4 DEF InQueue
    <3>2. InQueue(d)' = {}
      <4>1. SUFFICES ASSUME NEW i \in 1..Len(queue'), queue'[i].data = d PROVE FALSE
        BY DEF InQueue
      <4>2. i + 1 \in InQueue(d)
        BY <2>1, <2>2, <4>1 DEF InQueue
      <4>3. QED
        BY <1>1, <3>1, <4>2
    <3>3. QED
      BY <1>1, <2>1, <2>3, <2>4, <3>1, <3>2
  <2>5. CASE queue[1].data # d
    <3>1. ASSUME NEW i \in InQueue(d)' PROVE i \in Int /\ i + 1 \in InQueue(d)
      BY <2>1, <2>2, <3>1 DEF InQueue
    <3>2. ASSUME NEW i \in InQueue(d) PROVE i - 1 \in InQueue(d)'
      BY <2>1, <2>2, <2>5, <3>2 DEF InQueue
    <3>3. QED
      BY <1>1, <2>1, <2>3, <2>5, <3>1, <3>2
  <2>6. QED
    BY <2>4, <2>5
<1>4. CASE Free
  <2>1. /\ pc = "free" /\ pc' = "receive" /\ queue' = queue /\ published' = published
        /\ freed' = [freed EXCEPT ![msg.data] = @ + 1] /\ msg.data \in Payloads
    BY <1>4 DEF Free, Goto, Freed, TypeOK, Messages
  <2>2. InQueue(d)' = InQueue(d) /\ ~Dispatched(d)' /\ (Dispatched(d) <=> msg.data = d)
    BY <2>1 DEF InQueue, Dispatched
  <2>3. QED
    BY <1>1, <2>1, <2>2 DEF TypeOK
<1>5. CASE /\ UNCHANGED <<queue, published, freed, msg>>
           /\ (pc # "receive" /\ pc' # "receive") \/ pc' = pc
  BY <1>1, <1>5 DEF InQueue, Dispatched
<1>6. QED
  BY <1>2, <1>3, <1>4, <1>5, PayloadSteps

\* Only four steps touch the list, the mutex or a task's place in subscribe().
LEMMA ListSteps ==
    ASSUME [Next]_vars
    PROVE  \/ \E t \in Tasks, key \in Keys, callback \in Callbacks : Subscribe(t, key, callback)
           \/ \E t \in Tasks : Take(t) \/ Find(t) \/ SetCallback(t)
           \/ Lock
           \/ Unlock
           \/ /\ UNCHANGED <<subscriptions, mutex, step, want>>
              /\ pc' \in {"walk", "callback", "subscribe"} <=>
                    pc \in {"walk", "callback", "subscribe"}
BY DEF Next, TaskStep, Dispatch, InCallback, Publish, CallbackPublish, CallbackSubscribe, Receive,
   Skip, Call, Return, Free, Goto, vars, busVars, taskVars

\* Every step keeps the list free of duplicates and the mutex exclusive.
LEMMA NextList ==
    TypeOK /\ OneNodePerKey /\ MutexHeld /\ [Next]_vars => OneNodePerKey' /\ MutexHeld'
<1> SUFFICES ASSUME TypeOK, OneNodePerKey, MutexHeld, [Next]_vars
             PROVE  OneNodePerKey' /\ MutexHeld'
  OBVIOUS
<1>0. Len(subscriptions) \in Nat
  BY DEF TypeOK
<1>1. CASE \E t \in Tasks, key \in Keys, callback \in Callbacks : Subscribe(t, key, callback)
  <2>1. PICK t \in Tasks, key \in Keys, callback \in Callbacks : Subscribe(t, key, callback)
    BY <1>1
  <2>2. /\ step[t] = "idle" /\ step' = [step EXCEPT ![t] = "take"]
        /\ want' = [want EXCEPT ![t] = [key |-> key, callback |-> callback]]
        /\ UNCHANGED <<subscriptions, mutex, pc>>
    BY <2>1 DEF Subscribe, Transition, busVars
  <2>3. \A u \in Tasks :
            /\ step'[u] = IF u = t THEN "take" ELSE step[u]
            /\ u # t => want'[u] = want[u]
    BY <2>2 DEF TypeOK
  <2>4. \A u \in Tasks : step[u] = "set" => u # t /\ step'[u] = "set" /\ want'[u] = want[u]
    BY <2>2, <2>3
  <2>5. \A u \in Tasks :
            /\ step'[u] \in {"find", "set"} <=> step[u] \in {"find", "set"}
            /\ step'[u] = "set" => step[u] = "set" /\ want'[u] = want[u]
    BY <2>2, <2>3
  <2>6. QED
    BY <2>2, <2>4, <2>5 DEF OneNodePerKey, MutexHeld, Found
<1>2. ASSUME NEW t \in Tasks, Take(t) PROVE OneNodePerKey' /\ MutexHeld'
  <2>1. /\ step[t] = "take" /\ step' = [step EXCEPT ![t] = "find"]
        /\ mutex = None /\ mutex' = t /\ UNCHANGED <<subscriptions, want, pc>>
    BY <1>2 DEF Take, Acquire, Transition, busVars
  <2>2. \A u \in Tasks : step'[u] = IF u = t THEN "find" ELSE step[u]
    BY <2>1 DEF TypeOK
  <2>3. \A u \in Tasks : step[u] \notin {"find", "set"}
    BY <2>1 DEF MutexHeld
  <2>4. /\ mutex' = Bus <=> pc' \in {"walk", "callback", "subscribe"}
        /\ \A u \in Tasks : mutex' = u <=> step'[u] \in {"find", "set"}
    BY <2>1, <2>2, <2>3 DEF MutexHeld
  <2>5. /\ \A u \in Tasks : step'[u] # "set"
        /\ \A i \in 1..Len(subscriptions) : subscriptions[i].callback # None
    BY <2>2, <2>3 DEF MutexHeld
  <2>6. QED
    BY <2>1, <2>4, <2>5 DEF OneNodePerKey, MutexHeld
<1>3. ASSUME NEW t \in Tasks, Find(t) PROVE OneNodePerKey' /\ MutexHeld'
  <2>1. /\ step[t] = "find" /\ step' = [step EXCEPT ![t] = "set"]
        /\ UNCHANGED <<mutex, want, pc>>
    BY <1>3 DEF Find, Transition, busVars
  <2>2. \A u \in Tasks : step[u] \in {"find", "set"} => u = t
    BY <2>1 DEF MutexHeld
  <2>3. CASE Found(want[t].key) # {} /\ subscriptions' = subscriptions
    <3>1. OneNodePerKey'
      BY <2>3 DEF OneNodePerKey
    <3>2. MutexHeld'
      BY <2>1, <2>2, <2>3 DEF MutexHeld, Found, TypeOK
    <3>3. QED
      BY <3>1, <3>2
  <2>4. CASE /\ Found(want[t].key) = {}
             /\ Len(subscriptions') = Len(subscriptions) + 1
             /\ \A j \in 1..Len(subscriptions) : subscriptions'[j] = subscriptions[j]
             /\ subscriptions'[Len(subscriptions) + 1] = [key |-> want[t].key, callback |-> None]
    <3>1. OneNodePerKey'
      BY <1>0, <2>4 DEF OneNodePerKey, Found
    <3>2. Len(subscriptions) + 1 \in Found(want[t].key)'
      BY <1>0, <2>1, <2>4 DEF Found
    <3>3. MutexHeld'
      <4>1. /\ mutex' = Bus <=> pc' \in {"walk", "callback", "subscribe"}
            /\ \A u \in Tasks : mutex' = u <=> step'[u] \in {"find", "set"}
        BY <2>1 DEF MutexHeld, TypeOK
      <4>2. \A u \in Tasks : step'[u] = "set" => Found(want[u].key)' # {}
        BY <2>1, <2>2, <3>2 DEF TypeOK
      <4>3. ASSUME NEW i \in 1..Len(subscriptions'), subscriptions'[i].callback = None
            PROVE  \E u \in Tasks : step'[u] = "set" /\ want'[u].key = subscriptions'[i].key
        <5>1. CASE i = Len(subscriptions) + 1
          BY <2>1, <2>4, <5>1 DEF TypeOK
        <5>2. CASE i \in 1..Len(subscriptions)
          BY <2>1, <2>2, <2>4, <4>3, <5>2 DEF MutexHeld
        <5>3. QED
          BY <1>0, <2>4, <5>1, <5>2
      <4>4. QED
        BY <2>1, <4>1, <4>2, <4>3 DEF MutexHeld
    <3>4. QED
      BY <3>1, <3>3
  <2>5. QED
    BY <1>3, <2>3, <2>4, FindEffect
<1>4. ASSUME NEW t \in Tasks, SetCallback(t) PROVE OneNodePerKey' /\ MutexHeld'
  <2>1. /\ step[t] = "set" /\ step' = [step EXCEPT ![t] = "idle"]
        /\ want' = [want EXCEPT ![t] = None] /\ mutex' = None /\ pc' = pc
    BY <1>4 DEF SetCallback, Transition, Release, busVars
  <2>2. mutex = t /\ \A u \in Tasks : step[u] \in {"find", "set"} => u = t
    BY <2>1 DEF MutexHeld
  <2>3. PICK i \in Found(want[t].key) : \A j \in 1..Len(subscriptions) :
            subscriptions'[j] =
                IF j = i THEN [key |-> want[t].key, callback |-> want[t].callback]
                ELSE subscriptions[j]
    BY <1>4, SetEffect
  <2>4. Len(subscriptions') = Len(subscriptions) /\ want[t].callback \in Callbacks
    BY <1>4, SetEffect DEF Requests
  <2>5. i \in 1..Len(subscriptions) /\ subscriptions[i].key = want[t].key
    BY DEF Found
  <2>6. \A j \in 1..Len(subscriptions) : subscriptions'[j].key = subscriptions[j].key
    BY <2>3, <2>5
  <2>7. OneNodePerKey'
    BY <2>4, <2>6 DEF OneNodePerKey
  <2>8. \A j \in 1..Len(subscriptions) : subscriptions'[j].callback # None
    <3>1. SUFFICES ASSUME NEW j \in 1..Len(subscriptions), j # i, subscriptions[j].callback = None
                   PROVE  FALSE
      BY <2>3, <2>4
    <3>2. subscriptions[j].key = want[t].key
      BY <2>2, <3>1 DEF MutexHeld
    <3>3. QED
      BY <2>5, <3>1, <3>2 DEF OneNodePerKey
  <2>9. MutexHeld'
    BY <2>1, <2>2, <2>4, <2>8 DEF MutexHeld, TypeOK
  <2>10. QED
    BY <2>7, <2>9
<1>5. CASE Lock
  BY <1>5 DEF Lock, Acquire, Goto, taskVars, TypeOK, OneNodePerKey, MutexHeld, Found
<1>6. CASE Unlock
  BY <1>6 DEF Unlock, Release, Goto, taskVars, TypeOK, OneNodePerKey, MutexHeld, Found
<1>7. CASE /\ UNCHANGED <<subscriptions, mutex, step, want>>
           /\ pc' \in {"walk", "callback", "subscribe"} <=>
                 pc \in {"walk", "callback", "subscribe"}
  BY <1>7 DEF OneNodePerKey, MutexHeld, Found
<1>8. QED
  BY <1>1, <1>2, <1>3, <1>4, <1>5, <1>6, <1>7, ListSteps

\* Every step keeps the running callback's key matching its event.
LEMMA NextMatch ==
    TypeOK /\ OneNodePerKey /\ MutexHeld /\ CallsMatch /\ [Next]_vars => CallsMatch'
<1> SUFFICES ASSUME TypeOK, OneNodePerKey, MutexHeld, CallsMatch, [Next]_vars,
                    pc' \in {"callback", "subscribe"}
             PROVE  Matching(subscriptions'[sub'].key, msg'.event)
  BY DEF CallsMatch, Matching
<1>1. CASE Call
  BY <1>1 DEF Call, Goto
<1>2. CASE pc = "callback" /\ UNCHANGED <<subscriptions, sub, msg>>
  BY <1>2 DEF CallsMatch
<1>3. CASE pc' = pc /\ UNCHANGED <<subscriptions, sub, msg>>
  BY <1>3 DEF CallsMatch
<1>4. ASSUME NEW t \in Tasks, Find(t) \/ SetCallback(t) PROVE FALSE
  BY <1>4 DEF Find, SetCallback, Transition, busVars, MutexHeld
<1>5. QED
  BY <1>1, <1>2, <1>3, <1>4 DEF Next, TaskStep, Dispatch, InCallback, Publish, Subscribe, Take,
     CallbackPublish, CallbackSubscribe, Receive, Lock, Skip, Return, Unlock, Free, Goto,
     vars, busVars

\* init() establishes the invariant.
LEMMA InitInvariant == Init => IndInv
BY DEF Init, IndInv, TypeOK, OwnedOnce, InQueue, Dispatched, OneNodePerKey, MutexHeld, CallsMatch,
   Payloads

\* The inductive invariant holds in every behaviour.
THEOREM Invariance == Spec => []IndInv
<1>1. IndInv /\ [Next]_vars => IndInv'
  BY NextTyped, NextOwned, NextList, NextMatch DEF IndInv
<1>2. QED
  BY <1>1, InitInvariant, PTL DEF Spec

\* Type correctness: the queue never exceeds its length, and the node a
\* callback runs for is a node of the list.
THEOREM TypeCorrect == Spec => []TypeOK
<1>1. IndInv => TypeOK
  BY DEF IndInv
<1>2. QED
  BY <1>1, Invariance, PTL

\* Every payload handed to publish() is in the queue once, or with the bus's
\* task, or freed exactly once.
THEOREM OwnedOnceHolds == Spec => []OwnedOnce
<1>1. IndInv => OwnedOnce
  BY DEF IndInv
<1>2. QED
  BY <1>1, Invariance, PTL

\* No key ever has two nodes, whoever subscribes at the same time.
THEOREM OneNodePerKeyHolds == Spec => []OneNodePerKey
<1>1. IndInv => OneNodePerKey
  BY DEF IndInv
<1>2. QED
  BY <1>1, Invariance, PTL

\* A delivery never meets a node without a callback: one exists only while a
\* task in subscribe() holds the mutex.
THEOREM NoEmptyCallbackHolds == Spec => []NoEmptyCallback
<1>1. IndInv => NoEmptyCallback
  BY DEF IndInv, MutexHeld, NoEmptyCallback, TypeOK
<1>2. QED
  BY <1>1, Invariance, PTL

----------------------------------------------------------------------------
(* The refinement: Init and every step map to the promise's.               *)

\* With one node for each key, its callback is the registered one.
LEMMA Lookup ==
    ASSUME TypeOK, OneNodePerKey, NEW i \in 1..Len(subscriptions)
    PROVE  /\ subscriptions[i].key \in Keys
           /\ CallbackOf(subscriptions[i].key) = subscriptions[i].callback
<1>1. subscriptions[i] \in Nodes
  BY ElementOfSeq DEF TypeOK
<1>2. i \in Found(subscriptions[i].key)
  BY DEF Found
<1>3. \A j \in Found(subscriptions[i].key) : j = i
  BY DEF Found, OneNodePerKey
<1>4. (CHOOSE j \in Found(subscriptions[i].key) : TRUE) = i
  BY <1>2, <1>3
<1>5. QED
  BY <1>1, <1>2, <1>4 DEF CallbackOf, Nodes

\* A step that changes nothing the promise is about is a stutter of it.
LEMMA Stutter ==
    ASSUME UNCHANGED <<published, queue, msg, PhaseNow, DueNow, RunningNow, RegistryNow, AliveNow>>
    PROVE  Promise!Next \/ UNCHANGED Promise!vars
BY DEF Promise!vars

\* What is delivered does not change when the bus's task and the list do not.
LEMMA BusStutter ==
    ASSUME UNCHANGED <<pc, msg, sub, subscriptions>>
    PROVE  UNCHANGED <<msg, PhaseNow, DueNow, RunningNow, RegistryNow>>
BY DEF PhaseNow, Delivering, DueNow, ToVisit, RunningNow, RegistryNow, CallbackOf, Found

\* publish() accepts the event, or refuses it because the queue is full.
LEMMA PublishStep ==
    ASSUME TypeOK, OwnedOnce, NEW event \in Events, publish(event),
           UNCHANGED <<subscriptions, pc, msg, sub>>
    PROVE  Promise!Next \/ UNCHANGED Promise!vars
<1>1. UNCHANGED <<msg, PhaseNow, DueNow, RunningNow, RegistryNow>>
  BY BusStutter
<1>2. /\ published + 1 \in Payloads /\ published \in Nat /\ published' = published + 1
      /\ published + 1 \notin AliveNow
  BY DEF publish, Payloads, TypeOK, AliveNow
<1>3. freed[published + 1] = 0
  BY <1>2 DEF OwnedOnce, TypeOK
<1>4. CASE HasRoom
  <2>1. queue' = Append(queue, [event |-> event, data |-> published + 1]) /\ freed' = freed
    BY <1>4 DEF publish, Send, Sent
  <2>2. AliveNow' = AliveNow \cup {published + 1}
    BY <1>2, <1>3, <2>1 DEF AliveNow
  <2>3. Promise!Accept(event)
    BY <1>1, <1>2, <1>4, <2>1, <2>2 DEF Promise!Accept, HasRoom
  <2>4. QED
    BY <1>2, <2>3 DEF Promise!Next
<1>5. CASE ~HasRoom
  <2>1. queue' = queue /\ freed' = [freed EXCEPT ![published + 1] = @ + 1]
    BY <1>5 DEF publish, Send, Freed
  <2>2. freed'[published + 1] = 1 /\ \A d \in 1..published : freed'[d] = freed[d]
    BY <1>2, <1>3, <2>1 DEF TypeOK, Payloads
  <2>3. AliveNow' = AliveNow
    BY <1>2, <2>2 DEF AliveNow
  <2>4. Promise!Refuse
    BY <1>1, <1>2, <1>5, <2>1, <2>3 DEF Promise!Refuse, HasRoom, TypeOK
  <2>5. QED
    BY <2>4 DEF Promise!Next
<1>6. QED
  BY <1>4, <1>5

\* Outside a delivery nothing is due and no callback runs.
LEMMA Outside ==
    /\ ~Delivering => DueNow = {} /\ RunningNow = None
    /\ ~Delivering' => DueNow' = {} /\ RunningNow' = None
BY DEF DueNow, RunningNow, Delivering

\* The registry follows the list: a node linked without its callback is not
\* registered, and setting the callback registers it.
LEMMA FindStep ==
    ASSUME IndInv, IndInv', NEW t \in Tasks, Find(t)
    PROVE  Promise!Next \/ UNCHANGED Promise!vars
<1> USE DEF IndInv
<1>1. ~Delivering /\ UNCHANGED <<queue, published, freed, msg, pc>>
  BY DEF Find, Transition, busVars, MutexHeld, Delivering
<1>2. ~Delivering' /\ PhaseNow' = PhaseNow /\ AliveNow' = AliveNow
  BY <1>1 DEF Delivering, PhaseNow, AliveNow
<1>3. CASE subscriptions' = subscriptions
  BY <1>1, <1>2, <1>3, Outside, Stutter DEF RegistryNow, CallbackOf, Found
<1>4. CASE /\ Found(want[t].key) = {}
           /\ Len(subscriptions') = Len(subscriptions) + 1
           /\ \A j \in 1..Len(subscriptions) : subscriptions'[j] = subscriptions[j]
           /\ subscriptions'[Len(subscriptions) + 1] = [key |-> want[t].key, callback |-> None]
  <2> DEFINE n == Len(subscriptions) + 1
  <2>1. Len(subscriptions) \in Nat
    BY DEF TypeOK
  <2>2. ASSUME NEW key \in Keys PROVE CallbackOf(key)' = CallbackOf(key)
    <3>1. CASE key = want[t].key
      <4>1. Found(key)' = {n} /\ Found(key) = {}
        BY <1>4, <2>1, <3>1 DEF Found
      <4>2. CallbackOf(key)' = subscriptions'[n].callback /\ CallbackOf(key) = None
        BY <4>1 DEF CallbackOf
      <4>3. QED
        BY <1>4, <4>2
    <3>2. CASE key # want[t].key
      <4>1. Found(key)' = Found(key)
        BY <1>4, <2>1, <3>2 DEF Found
      <4>2. CASE Found(key) = {}
        BY <4>1, <4>2 DEF CallbackOf
      <4>3. CASE Found(key) # {}
        <5>1. (CHOOSE i \in Found(key) : TRUE) \in 1..Len(subscriptions)
          BY <4>3 DEF Found
        <5>2. QED
          BY <1>4, <4>1, <4>3, <5>1 DEF CallbackOf
      <4>4. QED
        BY <4>2, <4>3
    <3>3. QED
      BY <3>1, <3>2
  <2>3. RegistryNow' = RegistryNow
    BY <2>2 DEF RegistryNow
  <2>4. QED
    BY <1>1, <1>2, <2>3, Outside, Stutter
<1>5. QED
  BY <1>3, <1>4, FindEffect

\* Giving a node its callback registers it; only then is it seen by the promise.
LEMMA SetStep ==
    ASSUME IndInv, IndInv', NEW t \in Tasks, SetCallback(t)
    PROVE  Promise!Next \/ UNCHANGED Promise!vars
<1> USE DEF IndInv
<1>1. ~Delivering /\ UNCHANGED <<queue, published, freed, msg, pc>>
  BY DEF SetCallback, Transition, busVars, MutexHeld, Delivering
<1>2. ~Delivering' /\ PhaseNow' = PhaseNow /\ AliveNow' = AliveNow
  BY <1>1 DEF Delivering, PhaseNow, AliveNow
<1>3. PhaseNow # "delivering"
  BY <1>1 DEF PhaseNow, Delivering, TypeOK
<1>4. want[t].key \in Keys /\ want[t].callback \in Callbacks
  BY SetEffect DEF Requests
<1>5. PICK i \in Found(want[t].key) : \A j \in 1..Len(subscriptions) :
          subscriptions'[j] =
              IF j = i THEN [key |-> want[t].key, callback |-> want[t].callback]
              ELSE subscriptions[j]
  BY SetEffect
<1>6. Len(subscriptions') = Len(subscriptions) /\ i \in 1..Len(subscriptions)
      /\ subscriptions[i].key = want[t].key
  BY SetEffect DEF Found
<1>7. ASSUME NEW key \in Keys
      PROVE  CallbackOf(key)' = IF key = want[t].key THEN want[t].callback ELSE CallbackOf(key)
  <2>1. Found(key)' = Found(key)
    BY <1>5, <1>6 DEF Found
  <2>2. CASE key = want[t].key
    <3>1. \A j \in Found(key) : j = i
      BY <1>6, <2>2 DEF Found, OneNodePerKey
    <3>2. (CHOOSE j \in Found(key) : TRUE) = i /\ Found(key) # {}
      BY <1>5, <2>2, <3>1
    <3>3. CallbackOf(key)' = subscriptions'[i].callback
      BY <2>1, <3>2 DEF CallbackOf
    <3>4. QED
      BY <1>5, <1>6, <2>2, <3>3
  <2>3. CASE key # want[t].key /\ Found(key) # {}
    <3>1. PICK j : j = (CHOOSE k \in Found(key) : TRUE)
      OBVIOUS
    <3>2. j \in 1..Len(subscriptions) /\ j # i
      BY <1>6, <2>3, <3>1 DEF Found
    <3>3. CallbackOf(key)' = subscriptions'[j].callback /\ CallbackOf(key) = subscriptions[j].callback
      BY <2>1, <2>3, <3>1 DEF CallbackOf
    <3>4. QED
      BY <1>5, <2>3, <3>2, <3>3
  <2>4. CASE key # want[t].key /\ Found(key) = {}
    BY <2>1, <2>4 DEF CallbackOf
  <2>5. QED
    BY <2>2, <2>3, <2>4
<1>8. RegistryNow' = [RegistryNow EXCEPT ![want[t].key] = want[t].callback]
  BY <1>4, <1>7 DEF RegistryNow
<1>9. Promise!Register(want[t].key, want[t].callback)
  BY <1>1, <1>2, <1>3, <1>8, Outside DEF Promise!Register
<1>10. QED
  BY <1>4, <1>9 DEF Promise!Next

\* Steps of the bus's task that leave the list alone leave the registry alone.
LEMMA SameRegistry == subscriptions' = subscriptions => RegistryNow' = RegistryNow
BY DEF RegistryNow, CallbackOf, Found

\* What is alive depends on what was handed over and what was deleted alone.
LEMMA SamePayloads == UNCHANGED <<published, freed>> => AliveNow' = AliveNow
BY DEF AliveNow

\* Taking a message out of the queue and freeing its payload.
LEMMA ReceiveStep == ASSUME TypeOK, Receive PROVE Promise!Next
<1>1. ~Delivering /\ ~Delivering' /\ PhaseNow = "idle" /\ PhaseNow' = "taken"
  BY DEF Receive, Goto, Delivering, PhaseNow
<1>2. Promise!Take
  BY <1>1, Outside, SameRegistry, SamePayloads DEF Receive, Promise!Take
<1>3. QED
  BY <1>2 DEF Promise!Next

\* Free ends the life of the one payload that was dispatched, and of no other.
LEMMA FreeStep == ASSUME TypeOK, OwnedOnce, Free PROVE Promise!Next
<1>1. ~Delivering /\ ~Delivering' /\ PhaseNow = "delivered" /\ PhaseNow' = "idle"
  BY DEF Free, Goto, Delivering, PhaseNow
<1>2. /\ msg.data \in Payloads /\ freed[msg.data] = 0 /\ published' = published
      /\ freed' = [freed EXCEPT ![msg.data] = @ + 1]
  BY DEF Free, Goto, Freed, TypeOK, Messages, OwnedOnce, Dispatched
<1>3. \A d \in 1..published : freed'[d] = IF d = msg.data THEN 1 ELSE freed[d]
  BY <1>2 DEF TypeOK, Payloads
<1>4. AliveNow' = AliveNow \ {msg.data}
  BY <1>2, <1>3 DEF AliveNow
<1>5. Promise!Free
  BY <1>1, <1>4, Outside, SameRegistry DEF Free, Promise!Free
<1>6. QED
  BY <1>5 DEF Promise!Next

\* With the mutex the bus's task fixes what is due: the matching keys that
\* are registered.
LEMMA LockStep == ASSUME IndInv, IndInv', Lock PROVE Promise!Next
<1> USE DEF IndInv
<1>1. /\ PhaseNow = "taken" /\ PhaseNow' = "delivering" /\ RunningNow = None /\ RunningNow' = None
      /\ pc' = "walk" /\ sub' = Len(subscriptions)
      /\ UNCHANGED <<queue, published, freed, subscriptions, msg>>
  BY DEF Lock, Goto, Delivering, PhaseNow, RunningNow
<1>2. \A i \in 1..Len(subscriptions) : subscriptions[i].callback # None
  <2>1. \A t \in Tasks : step[t] # "set"
    BY DEF Lock, Acquire, MutexHeld, TypeOK
  <2>2. QED
    BY <2>1 DEF MutexHeld
<1> DEFINE due == {key \in Keys : Promise!Matches(key, msg.event) /\ RegistryNow[key] # None}
<1>3. DueNow' = {subscriptions[i].key : i \in
            {j \in 1..Len(subscriptions) : Matching(subscriptions[j].key, msg.event)}}
  BY <1>1 DEF DueNow, Delivering, ToVisit, Matching
<1>4. ASSUME NEW key \in DueNow' PROVE key \in due
  <2>1. PICK i \in 1..Len(subscriptions) :
            key = subscriptions[i].key /\ Matching(subscriptions[i].key, msg.event)
    BY <1>3
  <2>2. key \in Keys /\ CallbackOf(key) # None
    BY <1>2, <2>1, Lookup
  <2>3. QED
    BY <2>1, <2>2 DEF RegistryNow, Matching, Promise!Matches
<1>5. ASSUME NEW key \in due PROVE key \in DueNow'
  <2>1. CallbackOf(key) # None /\ Matching(key, msg.event)
    BY DEF RegistryNow, Matching, Promise!Matches
  <2>2. PICK i \in 1..Len(subscriptions) : subscriptions[i].key = key
    BY <2>1 DEF CallbackOf, Found
  <2>3. QED
    BY <1>3, <2>1, <2>2
<1>6. DueNow' = due
  BY <1>4, <1>5
<1> HIDE DEF due
<1>7. Promise!Begin
  BY <1>1, <1>6, SameRegistry, SamePayloads DEF Promise!Begin, due
<1>8. QED
  BY <1>7 DEF Promise!Next

\* What is due during the walk and during a callback.
LEMMA DueMembers ==
    ASSUME Delivering, NEW key
    PROVE  key \in DueNow <=>
              \E i \in ToVisit : subscriptions[i].key = key /\ Matching(key, msg.event)
BY DEF DueNow

\* A node that does not match was not due: passing it changes nothing that is promised.
LEMMA SkipStep == ASSUME IndInv, Skip PROVE UNCHANGED Promise!vars
<1> USE DEF IndInv
<1>1. /\ pc = "walk" /\ pc' = "walk" /\ sub' = sub - 1 /\ sub \in Nat \ {0}
      /\ ~Matching(subscriptions[sub].key, msg.event)
      /\ UNCHANGED <<queue, published, freed, subscriptions, msg>>
  BY DEF Skip, Goto, TypeOK
<1>2. {j \in 1..sub : Matching(subscriptions[j].key, msg.event)} =
      {j \in 1..(sub - 1) : Matching(subscriptions[j].key, msg.event)}
  BY <1>1
<1>3. DueNow' = DueNow
  BY <1>1, <1>2 DEF DueNow, Delivering, ToVisit, Matching
<1>4. PhaseNow' = PhaseNow /\ RunningNow' = RunningNow
  BY <1>1 DEF PhaseNow, Delivering, RunningNow
<1>5. QED
  BY <1>1, <1>3, <1>4, SameRegistry, SamePayloads DEF Promise!vars

\* A call takes one key off what is due, as no node after it has the same.
LEMMA CallStep == ASSUME IndInv, Call PROVE Promise!Next
<1> USE DEF IndInv
<1>1. /\ pc = "walk" /\ pc' = "callback" /\ sub' = sub /\ sub \in 1..Len(subscriptions)
      /\ Matching(subscriptions[sub].key, msg.event)
      /\ UNCHANGED <<queue, published, freed, subscriptions, msg>>
  BY DEF Call, Goto, TypeOK
<1>2. /\ PhaseNow = "delivering" /\ PhaseNow' = PhaseNow
      /\ RunningNow = None /\ RunningNow' = subscriptions[sub].key
  BY <1>1 DEF PhaseNow, Delivering, RunningNow
<1>3. subscriptions[sub].key \in Keys
  BY <1>1, Lookup
<1>4. DueNow = {subscriptions[i].key : i \in
            {j \in 1..sub : Matching(subscriptions[j].key, msg.event)}}
  BY <1>1 DEF DueNow, Delivering, ToVisit
<1>5. DueNow' = {subscriptions[i].key : i \in
            {j \in 1..(sub - 1) : Matching(subscriptions[j].key, msg.event)}}
  BY <1>1 DEF DueNow, Delivering, ToVisit, Matching
<1>6. \A j \in 1..(sub - 1) : subscriptions[j].key # subscriptions[sub].key
  BY <1>1 DEF OneNodePerKey, TypeOK
<1>7. subscriptions[sub].key \in DueNow
  BY <1>1, <1>4
<1>8. DueNow' = DueNow \ {subscriptions[sub].key}
  <2>1. ASSUME NEW key \in DueNow' PROVE key \in DueNow /\ key # subscriptions[sub].key
    BY <1>1, <1>4, <1>5, <1>6
  <2>2. ASSUME NEW key \in DueNow, key # subscriptions[sub].key PROVE key \in DueNow'
    BY <1>1, <1>4, <1>5, <2>2
  <2>3. QED
    BY <2>1, <2>2
<1>9. msg.data \in AliveNow
  BY <1>1 DEF OwnedOnce, Dispatched, TypeOK, Messages, Payloads, AliveNow
<1>10. Promise!Call(subscriptions[sub].key)
  BY <1>1, <1>2, <1>7, <1>8, <1>9, SameRegistry, SamePayloads DEF Promise!Call
<1>11. QED
  BY <1>3, <1>10 DEF Promise!Next

\* When a callback has returned, its node is no longer to be visited.
LEMMA ReturnStep == ASSUME IndInv, Return PROVE Promise!Next
<1> USE DEF IndInv
<1>1. /\ pc = "callback" /\ pc' = "walk" /\ sub' = sub - 1 /\ sub \in 1..Len(subscriptions)
      /\ UNCHANGED <<queue, published, freed, subscriptions, msg>>
  BY DEF Return, Goto, TypeOK
<1>2. PhaseNow' = PhaseNow /\ RunningNow = subscriptions[sub].key /\ RunningNow' = None
  BY <1>1 DEF PhaseNow, Delivering, RunningNow
<1>3. RunningNow # None
  BY <1>1, <1>2, Lookup
<1>4. DueNow' = DueNow
  BY <1>1 DEF DueNow, Delivering, ToVisit, Matching
<1>5. Promise!Return
  BY <1>1, <1>2, <1>3, <1>4, SameRegistry, SamePayloads DEF Promise!Return
<1>6. QED
  BY <1>5 DEF Promise!Next

\* The mutex is given back only when nothing is due and no callback runs.
LEMMA UnlockStep == ASSUME IndInv, Unlock PROVE Promise!Next
<1> USE DEF IndInv
<1>1. /\ pc = "walk" /\ pc' = "free" /\ sub = 0
      /\ UNCHANGED <<queue, published, freed, subscriptions, msg>>
  BY DEF Unlock, Goto
<1>2. /\ PhaseNow = "delivering" /\ PhaseNow' = "delivered"
      /\ RunningNow = None /\ RunningNow' = None
  BY <1>1 DEF PhaseNow, Delivering, RunningNow
<1>3. DueNow = {} /\ DueNow' = {}
  BY <1>1 DEF DueNow, Delivering, ToVisit
<1>4. Promise!End
  BY <1>1, <1>2, <1>3, SameRegistry, SamePayloads DEF Promise!End
<1>5. QED
  BY <1>4 DEF Promise!Next

\* The step with which a callback waits for its own mutex changes nothing.
LEMMA SubscribeInCallback == ASSUME CallbackSubscribe PROVE UNCHANGED Promise!vars
<1>1. /\ pc = "callback" /\ pc' = "subscribe"
      /\ UNCHANGED <<queue, published, freed, subscriptions, msg, sub>>
  BY DEF CallbackSubscribe, Goto
<1>2. UNCHANGED <<PhaseNow, DueNow, RunningNow>>
  BY <1>1 DEF PhaseNow, Delivering, DueNow, ToVisit, RunningNow, Matching
<1>3. QED
  BY <1>1, <1>2, SameRegistry, SamePayloads DEF Promise!vars

\* An empty bus is an empty promise.
LEMMA InitPromise == Init => Promise!Init
<1> SUFFICES ASSUME Init PROVE Promise!Init
  OBVIOUS
<1>1. PhaseNow = "idle" /\ DueNow = {} /\ RunningNow = None
  BY DEF Init, PhaseNow, Delivering, DueNow, RunningNow
<1>2. AliveNow = {}
  BY DEF Init, AliveNow
<1>3. RegistryNow = [key \in Keys |-> None]
  BY DEF Init, RegistryNow, CallbackOf, Found
<1>4. QED
  BY <1>1, <1>2, <1>3 DEF Init, Promise!Init

\* Every step of the tasks and of the bus is a step of the promise or changes
\* nothing of it.
LEMMA NextPromise ==
    IndInv /\ IndInv' /\ [Next]_vars => [Promise!Next]_(Promise!vars)
<1> SUFFICES ASSUME IndInv, IndInv', [Next]_vars
             PROVE  Promise!Next \/ UNCHANGED Promise!vars
  OBVIOUS
<1>1. ASSUME NEW t \in Tasks, TaskStep(t)
      PROVE  Promise!Next \/ UNCHANGED Promise!vars
  <2>1. ASSUME NEW event \in Events, Publish(t, event)
        PROVE  Promise!Next \/ UNCHANGED Promise!vars
    BY <2>1, PublishStep DEF Publish, busVars, IndInv
  <2>2. ASSUME NEW key \in Keys, NEW callback \in Callbacks, Subscribe(t, key, callback)
        PROVE  Promise!Next \/ UNCHANGED Promise!vars
    BY <2>2, BusStutter, SamePayloads, Stutter DEF Subscribe, busVars
  <2>3. CASE Take(t)
    BY <2>3, BusStutter, SamePayloads, Stutter DEF Take, busVars
  <2>4. QED
    BY <1>1, <2>1, <2>2, <2>3, FindStep, SetStep DEF TaskStep
<1>2. CASE Dispatch
  BY <1>2, ReceiveStep, LockStep, SkipStep, CallStep, ReturnStep, UnlockStep, FreeStep
     DEF Dispatch, IndInv
<1>3. CASE InCallback
  BY <1>3, PublishStep, SubscribeInCallback DEF InCallback, CallbackPublish, busVars, IndInv
<1>4. CASE UNCHANGED vars
  BY <1>4, BusStutter, SamePayloads, Stutter DEF vars, busVars
<1>5. QED
  BY <1>1, <1>2, <1>3, <1>4 DEF Next

\* EventHandler keeps its promise: accepted events are delivered in order, once
\* to each subscription that matches, one callback at a time, to a registry
\* that does not change meanwhile, with a payload that is freed afterwards.
THEOREM ImplementsPromise == Spec => Implements
<1>1. Init => Promise!Init
  BY InitPromise
<1>2. IndInv /\ IndInv' /\ [Next]_vars => [Promise!Next]_(Promise!vars)
  BY NextPromise
<1>3. QED
  BY <1>1, <1>2, Invariance, PTL DEF Spec, Implements, Promise!Spec

----------------------------------------------------------------------------
(* What EventsServed and SubscribersServed rest on, but for the fairness.  *)

\* Whoever holds the mutex has a step to go on with (its guard is what is said of it here),
\* and waits for nobody; the one exception is the callback that subscribes.
HolderGoesOn ==
    mutex # None =>
        \/ mutex = Bus /\ pc \in {"walk", "callback", "subscribe"}
        \/ \E t \in Tasks :
              /\ mutex = t
              /\ step[t] = "find" \/ (step[t] = "set" /\ Found(want[t].key) # {})

\* No task of the sketch that holds the mutex waits for it, or looks for a node that is not
\* there; and the bus's task does not wait for a mutex of its own at "lock".
THEOREM HolderGoesOnHolds == Spec => []HolderGoesOn
<1>1. IndInv => HolderGoesOn
  BY DEF IndInv, TypeOK, MutexHeld, HolderGoesOn
<1>2. QED
  BY <1>1, Invariance, PTL

\* The steps a delivery has left before it gives the mutex back.
StepsLeft == IF pc = "walk" THEN 2 * sub + 1 ELSE IF pc = "callback" THEN 2 * sub ELSE 0

\* Its own steps make them fewer, and nobody else's make them more: no subscription made
\* meanwhile lengthens the walk, and no event published by a callback restarts it.
DeliveryShrinks ==
    [][/\ Skip \/ Call \/ Return \/ Unlock => StepsLeft' < StepsLeft
       /\ Delivering => StepsLeft' <= StepsLeft]_vars

\* So a delivery ends after at most two steps for each subscription and one more, if its
\* callbacks return.
THEOREM DeliveryShrinksHolds == Spec => DeliveryShrinks
<1> DEFINE Shrinks == /\ Skip \/ Call \/ Return \/ Unlock => StepsLeft' < StepsLeft
                      /\ Delivering => StepsLeft' <= StepsLeft
<1>1. ASSUME IndInv, [Next]_vars PROVE [Shrinks]_vars
  <2> SUFFICES ASSUME Next PROVE Shrinks
    BY <1>1
  <2>0. sub \in Nat /\ (pc \in {"callback", "subscribe"} => sub > 0)
    BY <1>1 DEF IndInv, TypeOK
  <2> USE DEF StepsLeft, Delivering, Goto
  <2>1. CASE Skip
    BY <2>0, <2>1 DEF Skip
  <2>2. CASE Call
    BY <2>0, <2>2 DEF Call
  <2>3. CASE Return
    BY <2>0, <2>3 DEF Return
  <2>4. CASE Unlock
    BY <2>0, <2>4 DEF Unlock
  <2>5. CASE Receive \/ Lock \/ Free
    BY <2>5 DEF Receive, Lock, Free, Skip, Call, Return, Unlock
  <2>6. CASE CallbackSubscribe
    BY <2>0, <2>6 DEF CallbackSubscribe, Skip, Call, Return, Unlock
  <2>7. CASE (\E event \in Events : CallbackPublish(event)) \/ (\E t \in Tasks : TaskStep(t))
    <3>1. UNCHANGED <<pc, sub>>
      BY <2>7 DEF CallbackPublish, TaskStep, Publish, Subscribe, Take, Find, SetCallback, busVars
    <3>2. ~Call /\ ~Return /\ ~Unlock /\ ~Skip
      BY <2>0, <3>1 DEF Call, Return, Unlock, Skip
    <3>3. StepsLeft' <= StepsLeft
      BY <2>0, <3>1
    <3>4. QED
      BY <3>2, <3>3
  <2>8. QED
    BY <2>1, <2>2, <2>3, <2>4, <2>5, <2>6, <2>7 DEF Next, Dispatch, InCallback
<1>2. QED
  BY <1>1, Invariance, PTL DEF Spec, DeliveryShrinks
=============================================================================
