-------------------------- MODULE CostGuardProofs --------------------------
(***************************************************************************)
(* Proofs about CostGuard, for any set of callers, any cap and any costs   *)
(* that exceed their estimate by at most Overrun.                          *)
(***************************************************************************)
EXTENDS CostGuard, TLAPS

USE CallersAssumption, MoneyAssumption, BoundsAssumption

(* Type correctness of one step.                                           *)
LEMMA TypeStep == TypeOK /\ [Next]_vars => TypeOK'
<1> SUFFICES ASSUME TypeOK, [Next]_vars PROVE TypeOK'
  OBVIOUS
<1> USE DEF TypeOK, Release, Points, Holding, Terminal
<1>1. ASSUME NEW c \in Callers, Request(c) PROVE TypeOK'
  BY <1>1 DEF Request
<1>2. ASSUME NEW c \in Callers, Acquire(c) PROVE TypeOK'
  BY <1>2 DEF Acquire
<1>3. ASSUME NEW c \in Callers, Refuse(c) PROVE TypeOK'
  BY <1>3 DEF Refuse
<1>4. ASSUME NEW c \in Callers, Call(c) PROVE TypeOK'
  BY <1>4 DEF Call
<1>5. ASSUME NEW c \in Callers, Return(c) PROVE TypeOK'
  BY <1>5 DEF Return
<1>6. ASSUME NEW c \in Callers, LogSuccess(c) PROVE TypeOK'
  BY <1>6 DEF LogSuccess
<1>7. ASSUME NEW c \in Callers, ProviderRaises(c) PROVE TypeOK'
  BY <1>7 DEF ProviderRaises
<1>8. ASSUME NEW c \in Callers, Cancel(c) PROVE TypeOK'
  BY <1>8 DEF Cancel
<1>9. ASSUME NEW c \in Callers, Accept(c) PROVE TypeOK'
  BY <1>9 DEF Accept
<1>10. ASSUME NEW c \in Callers, Repair(c) PROVE TypeOK'
  BY <1>10 DEF Repair
<1>11. CASE UNCHANGED vars
  BY <1>11 DEF vars
<1> QED
  BY <1>1, <1>2, <1>3, <1>4, <1>5, <1>6, <1>7, <1>8, <1>9, <1>10, <1>11 DEF Next

(* The row lock: exactly its holder is between the cap check and the       *)
(* commit.                                                                 *)
LEMMA LockStep == TypeOK /\ LockInv /\ [Next]_vars => LockInv'
<1> SUFFICES ASSUME TypeOK, LockInv, [Next]_vars PROVE LockInv'
  OBVIOUS
<1> USE DEF TypeOK, LockInv, Release, Points, Holding, Terminal
<1>1. ASSUME NEW c \in Callers, Request(c) PROVE LockInv'
  BY <1>1 DEF Request
<1>2. ASSUME NEW c \in Callers, Acquire(c) PROVE LockInv'
  BY <1>2 DEF Acquire
<1>3. ASSUME NEW c \in Callers, Refuse(c) PROVE LockInv'
  BY <1>3 DEF Refuse
<1>4. ASSUME NEW c \in Callers, Call(c) PROVE LockInv'
  BY <1>4 DEF Call
<1>5. ASSUME NEW c \in Callers, Return(c) PROVE LockInv'
  BY <1>5 DEF Return
<1>6. ASSUME NEW c \in Callers, LogSuccess(c) PROVE LockInv'
  BY <1>6 DEF LogSuccess
<1>7. ASSUME NEW c \in Callers, ProviderRaises(c) PROVE LockInv'
  BY <1>7 DEF ProviderRaises
<1>8. ASSUME NEW c \in Callers, Cancel(c) PROVE LockInv'
  BY <1>8 DEF Cancel
<1>9. ASSUME NEW c \in Callers, Accept(c) PROVE LockInv'
  BY <1>9 DEF Accept
<1>10. ASSUME NEW c \in Callers, Repair(c) PROVE LockInv'
  BY <1>10 DEF Repair
<1>11. CASE UNCHANGED vars
  BY <1>11 DEF vars
<1> QED
  BY <1>1, <1>2, <1>3, <1>4, <1>5, <1>6, <1>7, <1>8, <1>9, <1>10, <1>11 DEF Next

(* A call that was admitted stays within the cap until it is logged, since *)
(* nobody else can log in between.                                         *)
LEMMA AdmittedStep == TypeOK /\ LockInv /\ AdmittedInv /\ [Next]_vars => AdmittedInv'
<1> SUFFICES ASSUME TypeOK, LockInv, AdmittedInv, [Next]_vars PROVE AdmittedInv'
  OBVIOUS
<1> USE DEF TypeOK, LockInv, AdmittedInv, WithinCap, Release, Points, Holding, Terminal
<1>1. ASSUME NEW c \in Callers, Request(c) PROVE AdmittedInv'
  BY <1>1 DEF Request
<1>2. ASSUME NEW c \in Callers, Acquire(c) PROVE AdmittedInv'
  BY <1>2 DEF Acquire
<1>3. ASSUME NEW c \in Callers, Refuse(c) PROVE AdmittedInv'
  BY <1>3 DEF Refuse
<1>4. ASSUME NEW c \in Callers, Call(c) PROVE AdmittedInv'
  BY <1>4 DEF Call
<1>5. ASSUME NEW c \in Callers, Return(c) PROVE AdmittedInv'
  BY <1>5 DEF Return
<1>6. ASSUME NEW c \in Callers, LogSuccess(c) PROVE AdmittedInv'
  BY <1>6 DEF LogSuccess
<1>7. ASSUME NEW c \in Callers, ProviderRaises(c) PROVE AdmittedInv'
  BY <1>7 DEF ProviderRaises
<1>8. ASSUME NEW c \in Callers, Cancel(c) PROVE AdmittedInv'
  BY <1>8 DEF Cancel
<1>9. ASSUME NEW c \in Callers, Accept(c) PROVE AdmittedInv'
  BY <1>9 DEF Accept
<1>10. ASSUME NEW c \in Callers, Repair(c) PROVE AdmittedInv'
  BY <1>10 DEF Repair
<1>11. CASE UNCHANGED vars
  BY <1>11 DEF vars
<1> QED
  BY <1>1, <1>2, <1>3, <1>4, <1>5, <1>6, <1>7, <1>8, <1>9, <1>10, <1>11 DEF Next

(* The repair loop counts its attempts.                                    *)
LEMMA RepairStep == TypeOK /\ RepairInv /\ [Next]_vars => RepairInv'
<1> SUFFICES ASSUME TypeOK, RepairInv, [Next]_vars PROVE RepairInv'
  OBVIOUS
<1> USE DEF TypeOK, RepairInv, Release, Points, Holding, Terminal
<1>1. ASSUME NEW c \in Callers, Request(c) PROVE RepairInv'
  BY <1>1 DEF Request
<1>2. ASSUME NEW c \in Callers, Acquire(c) PROVE RepairInv'
  BY <1>2 DEF Acquire
<1>3. ASSUME NEW c \in Callers, Refuse(c) PROVE RepairInv'
  BY <1>3 DEF Refuse
<1>4. ASSUME NEW c \in Callers, Call(c) PROVE RepairInv'
  BY <1>4 DEF Call
<1>5. ASSUME NEW c \in Callers, Return(c) PROVE RepairInv'
  BY <1>5 DEF Return
<1>6. ASSUME NEW c \in Callers, LogSuccess(c) PROVE RepairInv'
  BY <1>6 DEF LogSuccess
<1>7. ASSUME NEW c \in Callers, ProviderRaises(c) PROVE RepairInv'
  BY <1>7 DEF ProviderRaises
<1>8. ASSUME NEW c \in Callers, Cancel(c) PROVE RepairInv'
  BY <1>8 DEF Cancel
<1>9. ASSUME NEW c \in Callers, Accept(c) PROVE RepairInv'
  BY <1>9 DEF Accept
<1>10. ASSUME NEW c \in Callers, Repair(c) PROVE RepairInv'
  BY <1>10 DEF Repair
<1>11. CASE UNCHANGED vars
  BY <1>11 DEF vars
<1> QED
  BY <1>1, <1>2, <1>3, <1>4, <1>5, <1>6, <1>7, <1>8, <1>9, <1>10, <1>11 DEF Next

(* The bound on the ledger.                                                *)
LEMMA CapStep == TypeOK /\ AdmittedInv /\ CapHolds /\ [Next]_vars => CapHolds'
<1> SUFFICES ASSUME TypeOK, AdmittedInv, CapHolds, [Next]_vars PROVE CapHolds'
  OBVIOUS
<1> USE DEF TypeOK, AdmittedInv, CapHolds, WithinCap
<1>1. ASSUME NEW c \in Callers, Request(c) PROVE CapHolds'
  BY <1>1 DEF Request
<1>2. ASSUME NEW c \in Callers, Acquire(c) PROVE CapHolds'
  BY <1>2 DEF Acquire
<1>3. ASSUME NEW c \in Callers, Refuse(c) PROVE CapHolds'
  BY <1>3 DEF Refuse
<1>4. ASSUME NEW c \in Callers, Call(c) PROVE CapHolds'
  BY <1>4 DEF Call
<1>5. ASSUME NEW c \in Callers, Return(c) PROVE CapHolds'
  BY <1>5 DEF Return
<1>6. ASSUME NEW c \in Callers, LogSuccess(c) PROVE CapHolds'
  <2>1. logged' = logged + charge[c] /\ pc[c] = "logging"
    BY <1>6 DEF LogSuccess
  <2>2. charge[c] \in Actuals /\ estimate[c] \in Estimates
    BY <2>1
  <2>3. charge[c] <= estimate[c] + Overrun
    BY <2>2
  <2>4. logged + estimate[c] <= Cap
    BY <2>1
  <2>5. logged \in Nat /\ charge[c] \in Nat /\ estimate[c] \in Nat
    BY <2>2
  <2>6. logged + charge[c] <= Cap + Overrun
    BY <2>3, <2>4, <2>5
  <2> QED
    BY <2>1, <2>6
<1>7. ASSUME NEW c \in Callers, ProviderRaises(c) PROVE CapHolds'
  BY <1>7 DEF ProviderRaises
<1>8. ASSUME NEW c \in Callers, Cancel(c) PROVE CapHolds'
  BY <1>8 DEF Cancel
<1>9. ASSUME NEW c \in Callers, Accept(c) PROVE CapHolds'
  BY <1>9 DEF Accept
<1>10. ASSUME NEW c \in Callers, Repair(c) PROVE CapHolds'
  BY <1>10 DEF Repair
<1>11. CASE UNCHANGED vars
  BY <1>11 DEF vars
<1> QED
  BY <1>1, <1>2, <1>3, <1>4, <1>5, <1>6, <1>7, <1>8, <1>9, <1>10, <1>11 DEF Next

(* The bound on real spend.                                                *)
LEMMA SpendStep ==
    TypeOK /\ LockInv /\ AdmittedInv /\ SpendAccounted /\ [Next]_vars => SpendAccounted'
<1> SUFFICES ASSUME TypeOK, LockInv, AdmittedInv, SpendAccounted, [Next]_vars PROVE SpendAccounted'
  OBVIOUS
<1> USE DEF TypeOK, LockInv, AdmittedInv, SpendAccounted, Release, Points, Holding, Terminal
<1>1. ASSUME NEW c \in Callers, Request(c) PROVE SpendAccounted'
  BY <1>1 DEF Request
<1>2. ASSUME NEW c \in Callers, Acquire(c) PROVE SpendAccounted'
  BY <1>2 DEF Acquire
<1>3. ASSUME NEW c \in Callers, Refuse(c) PROVE SpendAccounted'
  BY <1>3 DEF Refuse
<1>4. ASSUME NEW c \in Callers, Call(c) PROVE SpendAccounted'
  BY <1>4 DEF Call
<1>5. ASSUME NEW c \in Callers, Return(c) PROVE SpendAccounted'
  BY <1>5 DEF Return
<1>6. ASSUME NEW c \in Callers, LogSuccess(c) PROVE SpendAccounted'
  BY <1>6 DEF LogSuccess
<1>7. ASSUME NEW c \in Callers, ProviderRaises(c) PROVE SpendAccounted'
  BY <1>7 DEF ProviderRaises
<1>8. ASSUME NEW c \in Callers, Cancel(c) PROVE SpendAccounted'
  BY <1>8 DEF Cancel
<1>9. ASSUME NEW c \in Callers, Accept(c) PROVE SpendAccounted'
  BY <1>9 DEF Accept
<1>10. ASSUME NEW c \in Callers, Repair(c) PROVE SpendAccounted'
  BY <1>10 DEF Repair
<1>11. CASE UNCHANGED vars
  BY <1>11 DEF vars
<1> QED
  BY <1>1, <1>2, <1>3, <1>4, <1>5, <1>6, <1>7, <1>8, <1>9, <1>10, <1>11 DEF Next

LEMMA InitIInv == Init => IInv
<1> SUFFICES ASSUME Init PROVE IInv
  OBVIOUS
<1>1. TypeOK
  BY DEF Init, TypeOK, Points
<1>2. LockInv /\ AdmittedInv /\ RepairInv
  BY DEF Init, LockInv, AdmittedInv, RepairInv, Holding
<1>3. CapHolds /\ SpendAccounted
  BY DEF Init, CapHolds, SpendAccounted
<1> QED
  BY <1>1, <1>2, <1>3 DEF IInv

(* The inductive invariant of the guard.                                   *)
THEOREM Invariance == Spec => []IInv
<1>1. IInv /\ [Next]_vars => IInv'
  BY TypeStep, LockStep, AdmittedStep, RepairStep, CapStep, SpendStep DEF IInv
<1> QED
  BY InitIInv, <1>1, PTL DEF Spec

(* The cap holds up to the overrun of a single call, whatever the number   *)
(* of concurrent callers.                                                  *)
THEOREM CapHoldsTheorem == Spec => []CapHolds
<1>1. IInv => CapHolds
  BY DEF IInv
<1> QED
  BY <1>1, Invariance, PTL

(* Real spend never exceeds the ledger by more than the response being     *)
(* logged and one call per fault.                                          *)
THEOREM SpendAccountedTheorem == Spec => []SpendAccounted
<1>1. IInv => SpendAccounted
  BY DEF IInv
<1> QED
  BY <1>1, Invariance, PTL

(* Repair loops make at most max_repair_attempts + 1 calls.                *)
THEOREM RepairsBoundedTheorem == Spec => []RepairsBounded
<1>1. IInv => RepairsBounded
  BY DEF IInv, RepairInv, RepairsBounded
<1> QED
  BY <1>1, Invariance, PTL

(* The guard implements the ledger: every step that changes the logged sum *)
(* is a charge that was admitted within the cap.                           *)
THEOREM ImplementsLedgerTheorem == Spec => ImplementsLedger
<1>1. Init => Ledger!Init
  BY DEF Init, Ledger!Init
<1>2. IInv /\ [Next]_vars => [Ledger!Next]_Ledger!vars
  <2> SUFFICES ASSUME IInv, Next, logged' # logged PROVE Ledger!Next
    BY DEF vars, Ledger!vars
  <2>1. PICK c \in Callers : LogSuccess(c)
    BY DEF Next, Request, Acquire, Refuse, Call, Return, ProviderRaises, Cancel,
           Accept, Repair
  <2>2. logged + estimate[c] <= Cap /\ charge[c] \in Actuals
    BY <2>1 DEF LogSuccess, IInv, AdmittedInv, WithinCap
  <2>3. Ledger!Charge(estimate[c], charge[c])
    BY <2>1, <2>2 DEF LogSuccess, Ledger!Charge
  <2> QED
    BY <2>2, <2>3 DEF Ledger!Next, IInv, TypeOK
<1> QED
  BY <1>1, <1>2, Invariance, PTL DEF Spec, ImplementsLedger, Ledger!Spec

=============================================================================
