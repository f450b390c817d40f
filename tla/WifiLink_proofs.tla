--------------------------- MODULE WifiLink_proofs ---------------------------
(***************************************************************************)
(* Proofs about WifiLink: what its user may conclude from the promise.     *)
(***************************************************************************)
EXTENDS WifiLink, TLAPS

\* Every step keeps the types.
LEMMA NextTyped == TypeOK /\ [Next]_vars => TypeOK'
<1> SUFFICES ASSUME TypeOK, [Next]_vars PROVE TypeOK'
  OBVIOUS
<1> USE DEF TypeOK, Records
<1>1. CASE Find \/ ReportLoss \/ Forget
  BY <1>1 DEF Find, ReportLoss, Forget
<1>2. CASE ReportReturn
  BY <1>2 DEF ReportReturn
<1>3. CASE SwitchOff \/ SwitchOn
  BY <1>3 DEF SwitchOff, SwitchOn
<1>4. CASE LinkChange
  BY <1>4 DEF LinkChange
<1>5. CASE Restart
  BY <1>5 DEF Restart
<1>6. CASE UNCHANGED vars
  BY <1>6 DEF vars
<1>7. QED
  BY <1>1, <1>2, <1>3, <1>4, <1>5, <1>6 DEF Next

\* Every step keeps the record honest.
LEMMA NextHonest == TypeOK /\ Honest /\ [Next]_vars => Honest'
<1> SUFFICES ASSUME TypeOK, Honest, [Next]_vars PROVE Honest'
  OBVIOUS
<1> USE DEF TypeOK, Honest
<1>1. CASE Find
  BY <1>1 DEF Find
<1>2. CASE ReportReturn
  BY <1>2 DEF ReportReturn
<1>3. CASE ReportLoss \/ Forget
  BY <1>3 DEF ReportLoss, Forget
<1>4. CASE SwitchOff \/ SwitchOn
  BY <1>4 DEF SwitchOff, SwitchOn
<1>5. CASE LinkChange
  BY <1>5 DEF LinkChange
<1>6. CASE Restart
  BY <1>6 DEF Restart
<1>7. CASE UNCHANGED vars
  BY <1>7 DEF vars
<1>8. QED
  BY <1>1, <1>2, <1>3, <1>4, <1>5, <1>6, <1>7 DEF Next

\* The promise lets its user conclude from a recorded connection that it was told of it, and
\* from WiFi being off that nothing is recorded and no report is on its way.
THEOREM HonestHolds == Spec => [](TypeOK /\ Honest)
<1>1. Init => TypeOK /\ Honest
  BY DEF Init, TypeOK, Honest, Records
<1>2. TypeOK /\ Honest /\ [Next]_vars => (TypeOK /\ Honest)'
  BY NextTyped, NextHonest
<1>3. QED
  BY <1>1, <1>2, PTL DEF Spec
=============================================================================
