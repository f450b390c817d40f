-------------------------- MODULE Timezone_proofs --------------------------
(***************************************************************************)
(* Proofs about Timezone, for every set of zones and whatever setTZ(), the *)
(* server and restarts do in between.                                      *)
(***************************************************************************)
EXTENDS Timezone, TLAPS

USE DEF memory, flags, MaybeZone, Effective, Choose, Pending

\* The zones, the copy and the place of the loop task.
Ranges ==
    /\ pc \in {"top", "read", "begin", "flush", "apply", "saveSet", "saveSrv"}
    /\ set \in Valid \union {NoZone} /\ srv \in MaybeZone
    /\ zone \in MaybeZone /\ env \in MaybeZone
    /\ nvs \in [set : Valid \union {NoZone}, srv : MaybeZone]

\* The truth values and the copy, which holds some.
Flags ==
    /\ inited \in BOOLEAN /\ apply \in BOOLEAN /\ saveSet \in BOOLEAN /\ saveSrv \in BOOLEAN
    /\ copy \in Copies

\* The program starts in the invariant, whatever NVS holds.
LEMMA InitInvariant == Init => IndInv
<1> SUFFICES ASSUME Init PROVE IndInv
  OBVIOUS
<1>1. Ranges
  BY DEF Init, Ranges
<1>2. Flags
  BY Zenon DEF Init, Flags, Copies, NoCopy
<1>3. InEffect /\ Saved /\ Working
  BY DEF Init, InEffect, Saved, Working
<1>4. QED
  BY <1>1, <1>2, <1>3 DEF IndInv, TypeOK, Ranges, Flags
\* A restart goes back to it, with whatever was saved.
LEMMA RestartInvariant == ASSUME IndInv, Restart PROVE IndInv'
<1> USE DEF Restart, IndInv, TypeOK
<1>1. Ranges'
  BY DEF Ranges
<1>2. Flags'
  BY Zenon DEF Flags, Copies, NoCopy
<1>3. InEffect' /\ Saved' /\ Working'
  BY DEF InEffect, Saved, Working
<1>4. QED
  BY <1>1, <1>2, <1>3 DEF Ranges, Flags

\* Every step keeps every variable in its range.
LEMMA NextTyped == IndInv /\ [Next]_vars => TypeOK'
<1> SUFFICES ASSUME IndInv, [Next]_vars PROVE TypeOK'
  OBVIOUS
<1> USE DEF IndInv, TypeOK
<1>1. CASE Load
  <2>1. Ranges'
    BY <1>1 DEF Load, Ranges
  <2>2. Flags'
    BY <1>1, Zenon DEF Load, Flags
  <2>3. QED
    BY <2>1, <2>2 DEF Ranges, Flags
<1>2. CASE ReadZone
  <2>1. Ranges'
    BY <1>2, ZonesAssumption DEF ReadZone, Ranges
  <2>2. Flags'
    BY <1>2, Zenon DEF ReadZone, Flags
  <2>3. QED
    BY <2>1, <2>2 DEF Ranges, Flags
<1>3. CASE BeginZone
  <2>1. Ranges'
    BY <1>3 DEF BeginZone, Ranges
  <2>2. Flags'
    BY <1>3, Zenon DEF BeginZone, Flags
  <2>3. QED
    BY <2>1, <2>2 DEF Ranges, Flags
<1>4. CASE FlushNothing
  <2>1. Ranges'
    BY <1>4 DEF FlushNothing, Ranges
  <2>2. Flags'
    BY <1>4, Zenon DEF FlushNothing, Flags
  <2>3. QED
    BY <2>1, <2>2 DEF Ranges, Flags
<1>5. CASE Flush
  <2>1. Ranges'
    BY <1>5 DEF Flush, Ranges
  <2>2. set \in MaybeZone /\ srv \in MaybeZone
    BY ZonesAssumption
  <2>3. copy' \in Copies
    BY <1>5, <2>2, Zenon DEF Flush, Copies
  <2>4. Flags'
    BY <1>5, <2>3, Zenon DEF Flush, Flags
  <2>5. QED
    BY <2>1, <2>4 DEF Ranges, Flags
<1>6. CASE Apply
  <2>1. Ranges'
    BY <1>6 DEF Apply, Ranges, Working, Copies
  <2>2. Flags'
    BY <1>6, Zenon DEF Apply, Flags
  <2>3. QED
    BY <2>1, <2>2 DEF Ranges, Flags
<1>7. CASE SaveLater
  <2>1. Ranges'
    BY <1>7 DEF SaveLater, Ranges
  <2>2. Flags'
    BY <1>7, Zenon DEF SaveLater, Flags, PutBack, Copies
  <2>3. QED
    BY <2>1, <2>2 DEF Ranges, Flags
<1>8. CASE SaveSet
  <2>1. Ranges'
    BY <1>8 DEF SaveSet, Ranges, Working, Copies
  <2>2. Flags'
    BY <1>8, Zenon DEF SaveSet, Flags
  <2>3. QED
    BY <2>1, <2>2 DEF Ranges, Flags
<1>9. CASE SaveSrv
  <2>1. Ranges'
    BY <1>9 DEF SaveSrv, Ranges, Working, Copies
  <2>2. Flags'
    BY <1>9, Zenon DEF SaveSrv, Flags
  <2>3. QED
    BY <2>1, <2>2 DEF Ranges, Flags
<1>10. CASE \E z \in MaybeZone, keep \in BOOLEAN : SetTZ(z, keep)
  <2>1. PICK z \in MaybeZone, keep \in BOOLEAN : SetTZ(z, keep)
    BY <1>10
  <2>2. Ranges'
    BY <2>1 DEF SetTZ, Accepts, Ranges
  <2>3. saveSet' \in BOOLEAN /\ saveSrv' \in BOOLEAN
    BY <2>1 DEF SetTZ
  <2>4. Flags'
    BY <2>1, <2>3, Zenon DEF SetTZ, ApplyAfterSet, Flags
  <2>5. QED
    BY <2>2, <2>4 DEF Ranges, Flags
<1>11. CASE \E z \in MaybeZone : ServerZone(z)
  <2>1. Ranges'
    BY <1>11 DEF ServerZone, Ranges
  <2>2. Flags'
    BY <1>11, Zenon DEF ServerZone, Flags
  <2>3. QED
    BY <2>1, <2>2 DEF Ranges, Flags
<1>12. CASE Restart
  BY <1>12, RestartInvariant
<1>13. CASE UNCHANGED vars
  BY <1>13 DEF vars
<1>14. QED
  BY <1>1, <1>2, <1>3, <1>4, <1>5, <1>6, <1>7, <1>8, <1>9, <1>10, <1>11, <1>12, <1>13
     DEF Next, LoopStep, Input

\* Every step keeps what is in effect, what is saved and what is flagged in agreement.
LEMMA NextWorking == IndInv /\ [Next]_vars => (InEffect /\ Saved /\ Working)'
<1> SUFFICES ASSUME IndInv, [Next]_vars PROVE InEffect' /\ Saved' /\ Working'
  OBVIOUS
<1> USE ZonesAssumption DEF IndInv, TypeOK, InEffect, Saved, Working, Copies
<1>1. CASE Load
  BY <1>1 DEF Load
<1>2. CASE ReadZone
  BY <1>2 DEF ReadZone
<1>3. CASE BeginZone
  BY <1>3 DEF BeginZone
<1>4. CASE FlushNothing
  BY <1>4 DEF FlushNothing
<1>5. CASE Flush
  BY <1>5 DEF Flush
<1>6. CASE Apply
  BY <1>6 DEF Apply
<1>7. CASE SaveLater
  BY <1>7 DEF SaveLater, PutBack
<1>8. CASE SaveSet
  BY <1>8 DEF SaveSet
<1>9. CASE SaveSrv
  BY <1>9 DEF SaveSrv
<1>10. CASE \E z \in MaybeZone, keep \in BOOLEAN : SetTZ(z, keep)
  <2>1. PICK z \in MaybeZone, keep \in BOOLEAN : SetTZ(z, keep)
    BY <1>10
  <2>2. apply' /\ UNCHANGED <<pc, inited, copy, zone, env, nvs>>
    BY <2>1 DEF SetTZ, ApplyAfterSet
  <2>3. (~saveSet' => ~saveSet /\ set' = set) /\ (~saveSrv' => ~saveSrv /\ srv' = srv)
    BY <2>1 DEF SetTZ
  <2>4. InEffect'
    BY <2>2
  <2>5. Saved'
    BY <2>2, <2>3
  <2>6. Working'
    BY <2>2, <2>3
  <2>7. QED
    BY <2>4, <2>5, <2>6
<1>11. CASE \E z \in MaybeZone : ServerZone(z)
  <2>1. PICK z \in MaybeZone : ServerZone(z)
    BY <1>11
  <2>2. /\ pc = "top" /\ inited /\ pc' = "read"
        /\ UNCHANGED <<inited, set, apply, saveSet, copy, zone, env, nvs>>
    BY <2>1 DEF ServerZone
  <2>3. ~saveSrv' => ~saveSrv /\ srv' = srv
    BY <2>1 DEF ServerZone
  <2>4. srv' = srv \/ srv' # NoZone
    BY <2>1 DEF ServerZone
  <2>5. InEffect' /\ Saved'
    BY <2>2, <2>3
  <2>6. Working'
    BY <2>2, <2>3, <2>4
  <2>7. QED
    BY <2>5, <2>6
<1>12. CASE Restart
  BY <1>12, RestartInvariant
<1>13. CASE UNCHANGED vars
  BY <1>13 DEF vars
<1>14. QED
  BY <1>1, <1>2, <1>3, <1>4, <1>5, <1>6, <1>7, <1>8, <1>9, <1>10, <1>11, <1>12, <1>13
     DEF Next, LoopStep, Input

\* The inductive invariant holds in every behaviour.
THEOREM Invariance == Spec => []IndInv
<1>1. IndInv /\ [Next]_vars => IndInv'
  BY NextTyped, NextWorking DEF IndInv
<1>2. QED
  BY <1>1, InitInvariant, PTL DEF Spec

\* Type correctness; in particular only a valid zone is ever kept or saved as kept.
THEOREM TypeCorrect == Spec => []TypeOK
<1>1. IndInv => TypeOK
  BY DEF IndInv
<1>2. QED
  BY <1>1, Invariance, PTL

\* A zone that is not in effect is always flagged to be put in effect.
THEOREM InEffectHolds == Spec => []InEffect
<1>1. IndInv => InEffect
  BY DEF IndInv
<1>2. QED
  BY <1>1, Invariance, PTL

\* A zone that NVS does not hold is always flagged to be saved.
THEOREM SavedHolds == Spec => []Saved
<1>1. IndInv => Saved
  BY DEF IndInv
<1>2. QED
  BY <1>1, Invariance, PTL

-----------------------------------------------------------------------------
(* What Settles rests on, but for the fairness: the loop task's work ends, *)
(* and where it ends everything is done.                                   *)

\* After init(), between two jobs, with nothing flagged.
Quiescent == inited /\ pc = "top" /\ ~Pending

\* With no flag up, both zones are saved and the one that counts is in effect.
QuietMeansDone == Quiescent => env = Effective /\ nvs = [set |-> set, srv |-> srv]

\* A loop task with nothing left to do has put the zones in effect and into NVS, whatever
\* setTZ() and the server did while it was working.
THEOREM QuietMeansDoneHolds == Spec => []QuietMeansDone
<1>1. IndInv => QuietMeansDone
  <2> SUFFICES ASSUME IndInv, Quiescent PROVE env = Effective /\ nvs = [set |-> set, srv |-> srv]
    BY DEF QuietMeansDone
  <2>1. env = Effective /\ nvs.set = set /\ nvs.srv = srv
    BY DEF IndInv, InEffect, Saved, Quiescent, Pending
  <2>2. nvs = [set |-> nvs.set, srv |-> nvs.srv]
    BY DEF IndInv, TypeOK
  <2>3. QED
    BY <2>1, <2>2
<1>2. QED
  BY <1>1, Invariance, PTL

\* What is left to do: the steps to the end of the job, and one more job while a flag is up.
StepsLeft == [top |-> 0, flush |-> 1, saveSrv |-> 1, saveSet |-> 2, begin |-> 2, apply |-> 3, read |-> 3]
Work == StepsLeft[pc] + IF Pending THEN 5 ELSE 0

\* Each step of the loop task after init() leaves less to do: _tzFlush() neither raises a
\* flag nor is called again with nothing flagged.
WorkShrinks == [][inited /\ LoopStep => Work' < Work]_vars

\* So the last setTZ() is followed by at most eight steps of work, and then by Quiescent,
\* where no step of the loop task is left.
THEOREM WorkShrinksHolds == Spec => WorkShrinks
<1>1. ASSUME IndInv, [Next]_vars PROVE [inited /\ LoopStep => Work' < Work]_vars
  <2> SUFFICES ASSUME inited, LoopStep PROVE Work' < Work
    OBVIOUS
  <2> USE DEF Work, StepsLeft, Pending
  <2>1. CASE Load \/ SaveLater
    BY <2>1 DEF Load, SaveLater
  <2>2. CASE ReadZone
    BY <2>2 DEF ReadZone, flags
  <2>3. CASE BeginZone
    BY <2>3 DEF BeginZone, flags
  <2>4. CASE FlushNothing
    BY <2>4 DEF FlushNothing, flags
  <2>5. CASE Flush
    BY <2>5 DEF Flush
  <2>6. CASE Apply
    BY <2>6 DEF Apply, flags
  <2>7. CASE SaveSet
    BY <2>7 DEF SaveSet, flags
  <2>8. CASE SaveSrv
    BY <2>8 DEF SaveSrv, flags
  <2>9. QED
    BY <2>1, <2>2, <2>3, <2>4, <2>5, <2>6, <2>7, <2>8 DEF LoopStep
<1>2. QED
  BY <1>1, Invariance, PTL DEF Spec, WorkShrinks

\* Nothing is left exactly in the quiescent states of a program that has called init().
LEMMA NoWorkIsQuiescent == IndInv /\ inited => (Work \in 0..8 /\ (Work = 0 <=> Quiescent))
BY DEF IndInv, TypeOK, Work, StepsLeft, Quiescent, Pending
=============================================================================
