------------------------------ MODULE Timezone ------------------------------
(***************************************************************************)
(* The timezone as SocketClient keeps it: one kept by setTZ(), one from    *)
(* the server, both saved in NVS, and the one that is in effect.           *)
(*                                                                         *)
(* Actors: the loop task, which alone applies and saves (pc is its place in*)
(* init(), in the handler of "connected" or in _tzFlush()), and any task   *)
(* that calls setTZ(). Both take the spinlock for what is one action here. *)
(***************************************************************************)
EXTENDS Naturals

CONSTANTS
    Zones,    \* POSIX zones, and whatever else setTZ() may be given
    Valid,    \* those of them that validTZ() accepts
    NoZone    \* the empty string

ASSUME ZonesAssumption == Valid \subseteq Zones /\ NoZone \notin Zones

VARIABLES
    pc,        \* where the loop task is
    inited,    \* _nvsManager is there: init() has run
    set, srv,  \* _tz_set, _tz_srv
    apply, saveSet, saveSrv,   \* _tz_apply, _tz_save_set, _tz_save_srv
    copy,      \* the locals of _tzFlush()
    zone,      \* the local of the handler of "connected"
    env,       \* TZ in the environment
    nvs        \* the zones saved in NVS

memory == <<set, srv>>
flags  == <<apply, saveSet, saveSrv>>
vars == <<pc, inited, memory, flags, copy, zone, env, nvs>>

MaybeZone == Zones \union {NoZone}

\* The zone in effect when s is kept and r is the server's.
Choose(s, r) == IF s # NoZone THEN s ELSE r

Effective == Choose(set, srv)

Copies == [set : MaybeZone, srv : MaybeZone, apply : BOOLEAN, saveSet : BOOLEAN, saveSrv : BOOLEAN]

NoCopy == [set |-> NoZone, srv |-> NoZone, apply |-> FALSE, saveSet |-> FALSE, saveSrv |-> FALSE]

-----------------------------------------------------------------------------
Init ==
    /\ pc = "top" /\ inited = FALSE
    /\ set = NoZone /\ srv = NoZone
    /\ apply = FALSE /\ saveSet = FALSE /\ saveSrv = FALSE
    /\ copy = NoCopy /\ zone = NoZone
    /\ env = NoZone
    /\ nvs \in [set : Valid \union {NoZone}, srv : MaybeZone]

\* The chip restarts at any point; only NVS is left.
Restart ==
    /\ pc' = "top" /\ inited' = FALSE
    /\ set' = NoZone /\ srv' = NoZone
    /\ apply' = FALSE /\ saveSet' = FALSE /\ saveSrv' = FALSE
    /\ copy' = NoCopy /\ zone' = NoZone
    /\ env' = NoZone
    /\ UNCHANGED nvs

-----------------------------------------------------------------------------
(* setTZ(), from any task, before or after init().                         *)

\* Seeded fault (names with an underscore stand before the definition they replace): what
\* looks unlike a zone is taken too.
Accepts_Anything(z) == TRUE

Accepts(z) == z = NoZone \/ z \in Valid

\* Seeded fault: only a kept zone is put in effect.
ApplyAfterSet_Kept(keep) == apply \/ keep

ApplyAfterSet(keep) == TRUE

SetTZ(z, keep) ==
    /\ Accepts(z)
    /\ set' = IF keep THEN z ELSE NoZone
    /\ saveSet' = (saveSet \/ set' # set)
    /\ srv' = IF ~keep /\ z # NoZone THEN z ELSE srv
    /\ saveSrv' = (saveSrv \/ srv' # srv)
    /\ apply' = ApplyAfterSet(keep)
    /\ UNCHANGED <<pc, inited, copy, zone, env, nvs>>

-----------------------------------------------------------------------------
(* The loop task.                                                          *)

\* _tzLoad(), up to its call of _tzFlush(): the saved zones, but for those that were set
\* before init().
Load ==
    /\ pc = "top" /\ ~inited
    /\ pc' = "flush" /\ inited' = TRUE
    /\ set' = IF ~saveSet /\ nvs.set \in Valid THEN nvs.set ELSE set
    /\ srv' = IF ~saveSrv /\ nvs.srv # NoZone THEN nvs.srv ELSE srv
    /\ apply' = TRUE
    /\ UNCHANGED <<saveSet, saveSrv, copy, zone, env, nvs>>

\* "connected" arrives: the server's zone is remembered, without a look at its shape.
ServerZone(z) ==
    /\ pc = "top" /\ inited
    /\ pc' = "read"
    /\ srv' = IF z # NoZone THEN z ELSE srv
    /\ saveSrv' = (saveSrv \/ srv' # srv)
    /\ UNCHANGED <<inited, set, apply, saveSet, copy, zone, env, nvs>>

\* The handler goes on with getTZ(zone).
ReadZone ==
    /\ pc = "read"
    /\ zone' = Effective
    /\ pc' = IF Effective = NoZone THEN "flush" ELSE "begin"
    /\ UNCHANGED <<inited, memory, flags, copy, env, nvs>>

\* TimeClient::begin(zone), after seconds of NTP.
BeginZone ==
    /\ pc = "begin"
    /\ pc' = "flush"
    /\ env' = zone
    /\ UNCHANGED <<inited, memory, flags, copy, zone, nvs>>

\* Seeded fault: what is only to be saved does not start _tzFlush().
Pending_ApplyOnly == apply

Pending == apply \/ saveSet \/ saveSrv

\* _tzFlush() with nothing to do.
FlushNothing ==
    /\ pc = "flush" /\ ~Pending
    /\ pc' = "top"
    /\ UNCHANGED <<inited, memory, flags, copy, zone, env, nvs>>

\* _tzFlush() takes a copy of the zones and of what is to be done.
Flush ==
    /\ pc \in {"top", "flush"} /\ Pending
    /\ pc' = "apply"
    /\ copy' = [set |-> set, srv |-> srv, apply |-> apply, saveSet |-> saveSet, saveSrv |-> saveSrv]
    /\ apply' = FALSE /\ saveSet' = FALSE /\ saveSrv' = FALSE
    /\ UNCHANGED <<inited, memory, zone, env, nvs>>

\* It works on its copy, unlocked: first the environment.
Apply ==
    /\ pc = "apply"
    /\ pc' = "saveSet"
    /\ env' = IF copy.apply THEN Choose(copy.set, copy.srv) ELSE env
    /\ UNCHANGED <<inited, memory, flags, copy, zone, nvs>>

\* Seeded fault: before init() what was to be saved is dropped.
PutBack_Nothing == UNCHANGED <<saveSet, saveSrv>>

PutBack == saveSet' = (saveSet \/ copy.saveSet) /\ saveSrv' = (saveSrv \/ copy.saveSrv)

\* Without NVS, before init(), what is to be saved stays to be saved.
SaveLater ==
    /\ pc = "saveSet" /\ ~inited
    /\ pc' = "top"
    /\ PutBack
    /\ UNCHANGED <<inited, memory, apply, copy, zone, env, nvs>>

\* NVSManager::saveTZ(), one key after the other.
SaveSet ==
    /\ pc = "saveSet" /\ inited
    /\ pc' = "saveSrv"
    /\ nvs' = IF copy.saveSet THEN [nvs EXCEPT !.set = copy.set] ELSE nvs
    /\ UNCHANGED <<inited, memory, flags, copy, zone, env>>

SaveSrv ==
    /\ pc = "saveSrv"
    /\ pc' = "top"
    /\ nvs' = IF copy.saveSrv THEN [nvs EXCEPT !.srv = copy.srv] ELSE nvs
    /\ UNCHANGED <<inited, memory, flags, copy, zone, env>>

LoopStep ==
    \/ Load \/ ReadZone \/ BeginZone
    \/ FlushNothing \/ Flush \/ Apply \/ SaveLater \/ SaveSet \/ SaveSrv

\* What the world asks for.
Input ==
    \/ \E z \in MaybeZone, keep \in BOOLEAN : SetTZ(z, keep)
    \/ \E z \in MaybeZone : ServerZone(z)
    \/ Restart

Next == LoopStep \/ Input

Spec == Init /\ [][Next]_vars

\* loop() is called for ever; the sketch calls init() sooner or later, though it may have
\* called loop() before.
FairSpec == Spec /\ WF_vars(LoopStep) /\ SF_vars(Load)

-----------------------------------------------------------------------------
(* What must hold.                                                         *)

\* Every variable keeps its range; only a valid zone is ever kept.
TypeOK ==
    /\ pc \in {"top", "read", "begin", "flush", "apply", "saveSet", "saveSrv"}
    /\ inited \in BOOLEAN
    /\ set \in Valid \union {NoZone} /\ srv \in MaybeZone
    /\ apply \in BOOLEAN /\ saveSet \in BOOLEAN /\ saveSrv \in BOOLEAN
    /\ copy \in Copies
    /\ zone \in MaybeZone /\ env \in MaybeZone
    /\ nvs \in [set : Valid \union {NoZone}, srv : MaybeZone]

\* Between two jobs of the loop task, a zone that is not in effect is flagged to be put in
\* effect, whoever called setTZ() while the last one was being applied or NTP was waited for.
InEffect == pc \in {"top", "flush"} /\ ~apply => env = Effective

\* And one that is not saved is flagged to be saved: NVS loses no zone that was set before
\* init(), while the previous one was being written, or while the server sent its own.
Saved ==
    inited /\ pc \in {"top", "read", "begin", "flush"} =>
        /\ ~saveSet => nvs.set = set
        /\ ~saveSrv => nvs.srv = srv

\* Once nobody sets a zone any more, the last one ends up in effect and in NVS.
Settles == <>[][~Input]_vars => <>[](env = Effective /\ nvs = [set |-> set, srv |-> srv])

\* Where the flags stand while the loop task is at work.
Working ==
    /\ ~inited =>
        /\ pc \in {"top", "apply", "saveSet"}
        /\ pc = "top" => (saveSet \/ set = NoZone) /\ (saveSrv \/ srv = NoZone)
        /\ pc # "top" => /\ saveSet \/ copy.saveSet \/ set = NoZone
                         /\ saveSrv \/ copy.saveSrv \/ srv = NoZone
    /\ pc = "read" /\ ~apply => env = Effective \/ (set = NoZone /\ srv # NoZone)
    /\ pc = "begin" /\ ~apply => zone = Effective
    /\ pc \in {"apply", "saveSet", "saveSrv"} =>
        /\ copy.set \in Valid \union {NoZone}
        /\ saveSet \/ set = copy.set
        /\ saveSrv \/ srv = copy.srv
    /\ pc = "apply" /\ ~copy.apply /\ ~apply => env = Effective
    /\ pc \in {"saveSet", "saveSrv"} /\ ~apply => env = Effective
    /\ inited /\ pc \in {"apply", "saveSet"} => saveSet \/ copy.saveSet \/ nvs.set = set
    /\ inited /\ pc = "saveSrv" => saveSet \/ nvs.set = set
    /\ inited /\ pc \in {"apply", "saveSet", "saveSrv"} => saveSrv \/ copy.saveSrv \/ nvs.srv = srv
    /\ pc = "apply" /\ copy.apply /\ ~apply => Effective = Choose(copy.set, copy.srv)

IndInv == TypeOK /\ InEffect /\ Saved /\ Working

-----------------------------------------------------------------------------
(* What comments of the code say, and the code does not do.                *)

\* _tzLoad()'s comment: the saved timezone is put in effect "unless setTZ() was already
\* called with one". (saveSrv tells that setTZ(zone, false) was.)
EarlyZoneStays == [][~inited /\ inited' /\ (saveSet \/ saveSrv) => Effective' = Effective]_vars
=============================================================================
