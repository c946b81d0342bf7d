-------------------------- MODULE RotationLoopProofs --------------------------
(***************************************************************************)
(* TLAPS proofs of the safety properties of RotationLoop, for any number   *)
(* of nodes, files and certificates and any bounds.                        *)
(***************************************************************************)
EXTENDS RotationLoop, TLAPS

-------------------------------------------------------------------------------
(* Type correctness.                                                       *)

\* The daemonset as it is first applied is well typed.
LEMMA InitType == Init => TypeOK
<1> SUFFICES ASSUME Init PROVE TypeOK
  OBVIOUS
<1>1. DaemonTypeOK
  BY DEF Init, DaemonTypeOK, Steps
<1>2. ClusterTypeOK
  BY DEF Init, ClusterTypeOK
<1>3. BudgetOK
  BY BoundsAssumption DEF Init, BudgetOK
<1>4. QED
  BY <1>1, <1>2, <1>3 DEF TypeOK

\* Every step of the daemon's loop (main.go:174-284) keeps the types.
LEMMA DaemonType ==
  ASSUME NEW n \in Nodes, TypeOK, Daemon(n)
  PROVE  TypeOK'
<1>1. CASE Start(n)
  <2>1. DaemonTypeOK'
    BY <1>1 DEF TypeOK, DaemonTypeOK, Start, Goto, ClusterTypeOK, Steps, listVars
  <2>2. ClusterTypeOK'
    BY <1>1 DEF TypeOK, ClusterTypeOK, Start, Goto, lockVars, nodeVars, hostVars
  <2>3. BudgetOK'
    BY <1>1 DEF TypeOK, BudgetOK, Start, Goto, envBudget
  <2>4. QED
    BY <2>1, <2>2, <2>3 DEF TypeOK
<1>2. CASE TestLock(n)
  <2>1. DaemonTypeOK'
    BY <1>2 DEF TypeOK, DaemonTypeOK, TestLock, Goto, ClusterTypeOK, Steps, listVars
  <2>2. ClusterTypeOK'
    BY <1>2 DEF TypeOK, ClusterTypeOK, TestLock, Goto, lockVars, nodeVars, hostVars
  <2>3. BudgetOK'
    BY <1>2, BoundsAssumption DEF TypeOK, BudgetOK, TestLock, Goto, Fault, envBudget
  <2>4. QED
    BY <2>1, <2>2, <2>3 DEF TypeOK
<1>3. CASE Tick(n)
  <2>1. DaemonTypeOK'
    BY <1>3
    DEF TypeOK, DaemonTypeOK, Tick, Goto, CheckConfig, CheckExpiration, KubeadmCheckExpiration,
        NullCheckExpiration, ClusterTypeOK, Steps
  <2>2. ClusterTypeOK'
    BY <1>3 DEF TypeOK, ClusterTypeOK, Tick, Goto, lockVars, nodeVars, hostVars
  <2>3. BudgetOK'
    BY <1>3, BoundsAssumption DEF TypeOK, BudgetOK, Tick, Goto, Fault, envBudget
  <2>4. QED
    BY <2>1, <2>2, <2>3 DEF TypeOK
<1>4. CASE AcquireLock(n)
  <2>1. DaemonTypeOK'
    BY <1>4
    DEF TypeOK, DaemonTypeOK, AcquireLock, Goto, AfterLock, AfterDrain, AfterUpdate,
        AfterRotate, Steps, Working, listVars
  <2>2. ClusterTypeOK'
    BY <1>4
    DEF TypeOK, ClusterTypeOK, AcquireLock, Goto, WriteLease, DaemonTypeOK,
        lockVars, nodeVars, hostVars
  <2>3. BudgetOK'
    BY <1>4 DEF TypeOK, BudgetOK, AcquireLock, Goto, envBudget
  <2>4. QED
    BY <2>1, <2>2, <2>3 DEF TypeOK
<1>5. CASE AcquireRefused(n)
  <2>1. DaemonTypeOK'
    BY <1>5 DEF TypeOK, DaemonTypeOK, AcquireRefused, Goto, ClearLists, Steps
  <2>2. ClusterTypeOK'
    BY <1>5
    DEF TypeOK, ClusterTypeOK, AcquireRefused, Goto, ClearLists, WriteLease,
        DaemonTypeOK, lockVars, nodeVars, hostVars
  <2>3. BudgetOK'
    BY <1>5, BoundsAssumption
    DEF TypeOK, BudgetOK, AcquireRefused, Goto, ClearLists, Fault, envBudget
  <2>4. QED
    BY <2>1, <2>2, <2>3 DEF TypeOK
<1>6. CASE Cordon(n)
  <2>1. DaemonTypeOK'
    BY <1>6
    DEF TypeOK, DaemonTypeOK, Cordon, RunCordonOrUncordon, Goto, Steps, Working,
        listVars
  <2>2. ClusterTypeOK'
    BY <1>6 DEF TypeOK, ClusterTypeOK, Cordon, RunCordonOrUncordon, Goto, lockVars, hostVars
  <2>3. BudgetOK'
    <3>1. (UNCHANGED faults \/ Fault) /\ UNCHANGED envBudget
      BY <1>6, Zenon DEF Cordon, RunCordonOrUncordon
    <3>2. QED
      BY <3>1, BoundsAssumption DEF TypeOK, BudgetOK, Fault, envBudget
  <2>4. QED
    BY <2>1, <2>2, <2>3 DEF TypeOK
<1>7. CASE UpdateConfig(n)
  <2>1. DaemonTypeOK'
    <3>1. /\ configsToBeUpdate' \in [Nodes -> SUBSET Configs]
          /\ UNCHANGED <<pc, nodeMeta, cached, expiryCerts>>
      BY <1>7 DEF TypeOK, DaemonTypeOK, UpdateConfig
    <3>2. UNCHANGED errs \/ errs' = [errs EXCEPT ![n] = TRUE]
      BY <1>7, Zenon DEF UpdateConfig, UpdateFile
    <3>3. QED
      BY <3>1, <3>2 DEF TypeOK, DaemonTypeOK
  <2>2. ClusterTypeOK'
    <3>1. UNCHANGED <<lockNode, lockMeta, expired, unschedulable, operatorCordon, dueCerts>>
      BY <1>7 DEF UpdateConfig, lockVars, nodeVars
    <3>2. \E gone : staleConfigs' = [staleConfigs EXCEPT ![n] = @ \ gone] \/ UNCHANGED staleConfigs
      BY <1>7, Zenon DEF UpdateConfig, UpdateFile
    <3>3. \E b \in BOOLEAN : kubeletStale' = [kubeletStale EXCEPT ![n] = b] \/ UNCHANGED kubeletStale
      <4>1. \A b \in BOOLEAN : (kubeletStale[n] \/ b) \in BOOLEAN
        OBVIOUS
      <4>2. QED
        BY <1>7, <4>1, Zenon DEF UpdateConfig, UpdateFile
    <3>4. QED
      BY <3>1, <3>2, <3>3 DEF TypeOK, ClusterTypeOK
  <2>3. BudgetOK'
    BY <1>7, BoundsAssumption DEF TypeOK, BudgetOK, UpdateConfig, UpdateFile, Fault, envBudget
  <2>4. QED
    BY <2>1, <2>2, <2>3 DEF TypeOK
<1>8. CASE UpdateConfigDone(n)
  <2>1. DaemonTypeOK'
    BY <1>8
    DEF TypeOK, DaemonTypeOK, UpdateConfigDone, RestartUnlessErrs, RestartKubelet,
        Goto, AfterUpdate, AfterRotate, Steps, Working
  <2>2. ClusterTypeOK'
    BY <1>8
    DEF TypeOK, ClusterTypeOK, UpdateConfigDone, RestartUnlessErrs, RestartKubelet,
        Goto, lockVars, nodeVars
  <2>3. BudgetOK'
    BY <1>8, BoundsAssumption
    DEF TypeOK, BudgetOK, UpdateConfigDone, RestartUnlessErrs, RestartKubelet, Goto,
        Fault, envBudget
  <2>4. QED
    BY <2>1, <2>2, <2>3 DEF TypeOK
<1>9. CASE Rotate(n)
  <2>1. DaemonTypeOK'
    BY <1>9 DEF TypeOK, DaemonTypeOK, Rotate, BackupAndRenew
  <2>2. ClusterTypeOK'
    BY <1>9 DEF TypeOK, ClusterTypeOK, Rotate, BackupAndRenew, lockVars, nodeVars
  <2>3. BudgetOK'
    <3>1. (UNCHANGED faults \/ Fault) /\ UNCHANGED envBudget
      BY <1>9, Zenon DEF Rotate, BackupAndRenew
    <3>2. QED
      BY <3>1, BoundsAssumption DEF TypeOK, BudgetOK, Fault, envBudget
  <2>4. QED
    BY <2>1, <2>2, <2>3 DEF TypeOK
<1>10. CASE RotateDone(n)
  <2>1. DaemonTypeOK'
    BY <1>10
    DEF TypeOK, DaemonTypeOK, RotateDone, RestartUnlessErrs, RestartKubelet, Goto,
        AfterRotate, Steps, Working
  <2>2. ClusterTypeOK'
    BY <1>10
    DEF TypeOK, ClusterTypeOK, RotateDone, RestartUnlessErrs, RestartKubelet, Goto,
        lockVars, nodeVars
  <2>3. BudgetOK'
    BY <1>10, BoundsAssumption
    DEF TypeOK, BudgetOK, RotateDone, RestartUnlessErrs, RestartKubelet, Goto,
        Fault, envBudget
  <2>4. QED
    BY <2>1, <2>2, <2>3 DEF TypeOK
<1>11. CASE Uncordon(n)
  <2>1. DaemonTypeOK'
    BY <1>11 DEF TypeOK, DaemonTypeOK, Uncordon, RunCordonOrUncordon, Goto, Steps, listVars
  <2>2. ClusterTypeOK'
    BY <1>11
    DEF TypeOK, ClusterTypeOK, Uncordon, RunCordonOrUncordon, Goto, lockVars,
        hostVars
  <2>3. BudgetOK'
    <3>1. (UNCHANGED faults \/ Fault) /\ UNCHANGED envBudget
      BY <1>11, Zenon DEF Uncordon, RunCordonOrUncordon
    <3>2. QED
      BY <3>1, BoundsAssumption DEF TypeOK, BudgetOK, Fault, envBudget
  <2>4. QED
    BY <2>1, <2>2, <2>3 DEF TypeOK
<1>12. CASE Release(n)
  <2>1. DaemonTypeOK'
    BY <1>12 DEF TypeOK, DaemonTypeOK, Release, Goto, ClearLists, Steps
  <2>2. ClusterTypeOK'
    BY <1>12
    DEF TypeOK, ClusterTypeOK, Release, Goto, ClearLists, lockVars, nodeVars,
        hostVars
  <2>3. BudgetOK'
    BY <1>12, BoundsAssumption
    DEF TypeOK, BudgetOK, Release, Goto, ClearLists, Fault, envBudget
  <2>4. QED
    BY <2>1, <2>2, <2>3 DEF TypeOK
<1>13. QED
  BY <1>1, <1>2, <1>3, <1>4, <1>5, <1>6, <1>7, <1>8, <1>9, <1>10, <1>11, <1>12 DEF Daemon

\* A drain, and every step of the environment, keeps the types.
LEMMA EnvironmentType ==
  ASSUME NEW n \in Nodes, TypeOK, Drain(n) \/ Environment(n)
  PROVE  TypeOK'
<1>1. CASE Drain(n)
  <2>1. DaemonTypeOK'
    BY <1>1
    DEF TypeOK, DaemonTypeOK, Drain, Goto, AfterDrain, AfterUpdate, AfterRotate,
        Steps, Working, listVars
  <2>2. ClusterTypeOK'
    BY <1>1 DEF TypeOK, ClusterTypeOK, Drain, Goto, lockVars, nodeVars, hostVars
  <2>3. BudgetOK'
    BY <1>1 DEF TypeOK, BudgetOK, Drain, Goto, envBudget
  <2>4. QED
    BY <2>1, <2>2, <2>3 DEF TypeOK
<1>2. CASE Stop(n)
  <2>1. DaemonTypeOK'
    BY <1>2 DEF TypeOK, DaemonTypeOK, Stop, Goto, ClearLists, Steps
  <2>2. ClusterTypeOK'
    BY <1>2 DEF TypeOK, ClusterTypeOK, Stop, Goto, ClearLists, lockVars, nodeVars, hostVars
  <2>3. BudgetOK'
    BY <1>2, BoundsAssumption DEF TypeOK, BudgetOK, Stop, Goto, ClearLists
  <2>4. QED
    BY <2>1, <2>2, <2>3 DEF TypeOK
<1>3. CASE Lapse(n)
  <2>1. DaemonTypeOK'
    BY <1>3 DEF TypeOK, DaemonTypeOK, Lapse, listVars
  <2>2. ClusterTypeOK'
    BY <1>3 DEF TypeOK, ClusterTypeOK, Lapse, nodeVars, hostVars
  <2>3. BudgetOK'
    BY <1>3 DEF TypeOK, BudgetOK, Lapse, envBudget
  <2>4. QED
    BY <2>1, <2>2, <2>3 DEF TypeOK
<1>4. CASE AgeCert(n)
  <2>1. DaemonTypeOK'
    BY <1>4 DEF TypeOK, DaemonTypeOK, AgeCert, listVars
  <2>2. ClusterTypeOK'
    BY <1>4 DEF TypeOK, ClusterTypeOK, AgeCert, lockVars, nodeVars
  <2>3. BudgetOK'
    BY <1>4, BoundsAssumption DEF TypeOK, BudgetOK, AgeCert
  <2>4. QED
    BY <2>1, <2>2, <2>3 DEF TypeOK
<1>5. CASE DriftConfig(n)
  <2>1. DaemonTypeOK'
    BY <1>5 DEF TypeOK, DaemonTypeOK, DriftConfig, listVars
  <2>2. ClusterTypeOK'
    BY <1>5 DEF TypeOK, ClusterTypeOK, DriftConfig, lockVars, nodeVars
  <2>3. BudgetOK'
    BY <1>5, BoundsAssumption DEF TypeOK, BudgetOK, DriftConfig
  <2>4. QED
    BY <2>1, <2>2, <2>3 DEF TypeOK
<1>6. CASE \E wish \in BOOLEAN : Operator(n, wish)
  <2>1. DaemonTypeOK'
    BY <1>6 DEF TypeOK, DaemonTypeOK, Operator, listVars
  <2>2. ClusterTypeOK'
    BY <1>6 DEF TypeOK, ClusterTypeOK, Operator, lockVars, hostVars
  <2>3. BudgetOK'
    BY <1>6, BoundsAssumption DEF TypeOK, BudgetOK, Operator
  <2>4. QED
    BY <2>1, <2>2, <2>3 DEF TypeOK
<1>7. QED
  BY <1>1, <1>2, <1>3, <1>4, <1>5, <1>6 DEF Environment

\* The daemon's memory, the annotation, the node objects and the hosts keep
\* their types in every behaviour of the cluster.
THEOREM TypeCorrect == Spec => []TypeOK
<1>1. ASSUME TypeOK, [Next]_vars PROVE TypeOK'
  <2>1. CASE Next
    BY <1>1, <2>1, DaemonType, EnvironmentType DEF Next
  <2>2. CASE UNCHANGED vars
    BY <1>1, <2>2
    DEF TypeOK, DaemonTypeOK, ClusterTypeOK, BudgetOK, vars, lockVars, listVars, nodeVars,
        hostVars, envBudget
  <2>3. QED
    BY <1>1, <2>1, <2>2
<1>2. QED
  BY <1>1, InitType, PTL DEF Spec

-------------------------------------------------------------------------------
(* The lock. LeasedMutex is not inductive: it says nothing of a lone       *)
(* daemon. LeaseInv does: a daemon at work is the one the annotation       *)
(* names, or has outlived its lease.                                       *)

LeaseInv == \A n \in Nodes : pc[n] \in Working => lockNode = n \/ expired[n]

\* Only acquire (lock.go:37-50) lets a daemon begin to work, every other step
\* of a daemon leaves the others' leases alone, and the release of an expired
\* lease (lock.go:52-57) does not touch a successor's annotation.
LEMMA DaemonLease ==
  ASSUME NEW n \in Nodes, TypeOK, LeaseInv, Daemon(n)
  PROVE  LeaseInv'
<1> USE DEF TypeOK, DaemonTypeOK, ClusterTypeOK, LeaseInv
<1>1. CASE Start(n)
  BY <1>1 DEF Start, Goto, lockVars, Working
<1>2. CASE TestLock(n)
  BY <1>2 DEF TestLock, Goto, lockVars, Working
<1>3. CASE Tick(n)
  BY <1>3 DEF Tick, Goto, lockVars, Working
<1>4. CASE AcquireLock(n)
  <2>1. CASE LockFree /\ WriteLease(n)
    BY <1>4, <2>1, NodesAssumption DEF AcquireLock, LockFree, WriteLease, Goto
  <2>2. CASE HoldsLease(n) /\ UNCHANGED lockVars
    BY <1>4, <2>2 DEF AcquireLock, HoldsLease, Goto, lockVars
  <2>3. QED
    BY <1>4, <2>1, <2>2 DEF AcquireLock
<1>5. CASE AcquireRefused(n)
  <2>1. CASE LockFree /\ WriteLease(n)
    BY <1>5, <2>1, NodesAssumption DEF AcquireRefused, LockFree, WriteLease, Goto, Working
  <2>2. CASE UNCHANGED lockVars
    BY <1>5, <2>2 DEF AcquireRefused, Goto, lockVars, Working
  <2>3. QED
    BY <1>5, <2>1, <2>2 DEF AcquireRefused, lockVars
<1>6. CASE Cordon(n)
  BY <1>6 DEF Cordon, Goto, lockVars, Working
<1>7. CASE UpdateConfig(n)
  BY <1>7 DEF UpdateConfig, lockVars
<1>8. CASE UpdateConfigDone(n)
  BY <1>8 DEF UpdateConfigDone, Goto, lockVars, Working
<1>9. CASE Rotate(n)
  BY <1>9 DEF Rotate, lockVars
<1>10. CASE RotateDone(n)
  BY <1>10 DEF RotateDone, Goto, lockVars, Working
<1>11. CASE Uncordon(n)
  BY <1>11 DEF Uncordon, Goto, lockVars, Working
<1>12. CASE Release(n)
  BY <1>12, NodesAssumption DEF Release, Goto, lockVars, Working
<1>13. QED
  BY <1>1, <1>2, <1>3, <1>4, <1>5, <1>6, <1>7, <1>8, <1>9, <1>10, <1>11, <1>12 DEF Daemon

\* Neither the drain nor the environment gives a lease away; time only makes
\* leases expire.
LEMMA EnvironmentLease ==
  ASSUME NEW n \in Nodes, TypeOK, LeaseInv, Drain(n) \/ Environment(n)
  PROVE  LeaseInv'
<1> USE DEF TypeOK, DaemonTypeOK, ClusterTypeOK, LeaseInv
<1>1. CASE Drain(n)
  BY <1>1 DEF Drain, Goto, lockVars, Working
<1>2. CASE Stop(n)
  BY <1>2 DEF Stop, Goto, lockVars, Working
<1>3. CASE Lapse(n)
  BY <1>3 DEF Lapse
<1>4. CASE AgeCert(n)
  BY <1>4 DEF AgeCert, lockVars
<1>5. CASE DriftConfig(n)
  BY <1>5 DEF DriftConfig, lockVars
<1>6. CASE \E wish \in BOOLEAN : Operator(n, wish)
  BY <1>6 DEF Operator, lockVars
<1>7. QED
  BY <1>1, <1>2, <1>3, <1>4, <1>5, <1>6 DEF Environment

\* In every reachable state a daemon at work holds the lock or has outlived it.
LEMMA LeaseInvariant == Spec => []LeaseInv
<1>1. Init => LeaseInv
  BY DEF Init, LeaseInv, Working
<1>2. ASSUME TypeOK, LeaseInv, [Next]_vars PROVE LeaseInv'
  <2>1. CASE Next
    BY <1>2, <2>1, DaemonLease, EnvironmentLease DEF Next
  <2>2. CASE UNCHANGED vars
    BY <1>2, <2>2 DEF LeaseInv, vars, lockVars
  <2>3. QED
    BY <1>2, <2>1, <2>2
<1>3. QED
  BY <1>1, <1>2, TypeCorrect, PTL DEF Spec

\* Two daemons are at work at once (main.go:250-280) only if one of them has
\* outlived its one-minute lease.
THEOREM MutualExclusion == Spec => []LeasedMutex
<1>1. LeaseInv => LeasedMutex
  BY DEF LeaseInv, LeasedMutex
<1>2. QED
  BY <1>1, LeaseInvariant, PTL

\* A running lease ends only by its holder's own release (lock.go:52-57):
\* neither another daemon's acquire nor a late release takes it away.
THEOREM LeaseNotStolen == Spec => LiveLeaseKept
<1> DEFINE Kept == \A n \in Nodes : HoldsLease(n) /\ lockNode' # n => pc[n] = "release"
<1>1. ASSUME [Next]_vars PROVE Kept
  <2>1. CASE UNCHANGED lockNode
    BY <2>1 DEF HoldsLease
  <2>2. ASSUME NEW m \in Nodes, AcquireLock(m) PROVE Kept
    BY <2>2, NodesAssumption DEF AcquireLock, LockFree, WriteLease, HoldsLease, lockVars
  <2>3. ASSUME NEW m \in Nodes, AcquireRefused(m) PROVE Kept
    BY <2>3, NodesAssumption DEF AcquireRefused, LockFree, WriteLease, HoldsLease, lockVars
  <2>4. ASSUME NEW m \in Nodes, Release(m) PROVE Kept
    BY <2>4 DEF Release, HoldsLease, lockVars
  <2>5. ASSUME NEW m \in Nodes, Daemon(m) PROVE Kept
    <3>1. AcquireLock(m) \/ AcquireRefused(m) \/ Release(m) \/ UNCHANGED lockNode
      BY <2>5
      DEF Daemon, Start, TestLock, Tick, Cordon, UpdateConfig, UpdateConfigDone, Rotate,
          RotateDone, Uncordon, lockVars
    <3>2. QED
      BY <3>1, <2>1, <2>2, <2>3, <2>4
  <2>6. ASSUME NEW m \in Nodes, Drain(m) \/ Environment(m) PROVE UNCHANGED lockNode
    BY <2>6
    DEF Environment, Drain, Stop, Lapse, AgeCert, DriftConfig, Operator, lockVars
  <2>7. CASE UNCHANGED vars
    BY <2>1, <2>7 DEF vars, lockVars
  <2>8. QED
    BY <1>1, <2>1, <2>5, <2>6, <2>7 DEF Next
<1>2. QED
  BY <1>1, PTL DEF Spec, LiveLeaseKept

-------------------------------------------------------------------------------
(* What the failure counters record is never forgotten.                    *)

Failed  == faults > 0
Died    == stops > 0
Meddled == operatorMoves > 0

\* A failed call, a death or an operator's intervention stays on record.
LEMMA HistoryKept ==
  ASSUME TypeOK, [Next]_vars
  PROVE  /\ Failed \/ Fault => Failed'
         /\ Died => Died'
         /\ Meddled => Meddled'
<1>1. UNCHANGED faults \/ Fault
  <2>1. ASSUME NEW n \in Nodes, Daemon(n) PROVE UNCHANGED faults \/ Fault
    BY <2>1, Zenon
    DEF Daemon, Start, TestLock, Tick, AcquireLock, AcquireRefused, Cordon, UpdateConfig,
        UpdateConfigDone, Rotate, RotateDone, Uncordon, Release, RunCordonOrUncordon,
        RestartUnlessErrs, RestartKubelet, UpdateFile, BackupAndRenew
  <2>2. ASSUME NEW n \in Nodes, Drain(n) \/ Environment(n) PROVE UNCHANGED faults
    BY <2>2 DEF Drain, Environment, Stop, Lapse, AgeCert, DriftConfig, Operator
  <2>3. QED
    BY <2>1, <2>2 DEF Next, vars
<1>2. /\ UNCHANGED stops \/ stops' = stops + 1
      /\ UNCHANGED operatorMoves \/ operatorMoves' = operatorMoves + 1
  <2>1. ASSUME NEW n \in Nodes, Daemon(n) \/ Drain(n) PROVE UNCHANGED envBudget
    BY <2>1
    DEF Daemon, Start, TestLock, Tick, AcquireLock, AcquireRefused, Cordon, UpdateConfig,
        UpdateConfigDone, Rotate, RotateDone, Uncordon, Release, Drain
  <2>2. ASSUME NEW n \in Nodes, Environment(n)
        PROVE  /\ UNCHANGED stops \/ stops' = stops + 1
               /\ UNCHANGED operatorMoves \/ operatorMoves' = operatorMoves + 1
    BY <2>2 DEF Environment, Stop, Lapse, AgeCert, DriftConfig, Operator, envBudget
  <2>3. QED
    BY <2>1, <2>2 DEF Next, vars, envBudget
<1>3. faults \in Nat /\ stops \in Nat /\ operatorMoves \in Nat
  BY BoundsAssumption DEF TypeOK, BudgetOK
<1>4. QED
  BY <1>1, <1>2, <1>3 DEF Failed, Died, Meddled, Fault

\* A daemon that polls holds a running lease only after a call failed: what a
\* dead predecessor held, start-up tests and releases (main.go:180-182).
THEOREM NoIdleLease == Spec => []IdleHoldsNoLease
<1> DEFINE Idle == \A n \in Nodes : pc[n] \in {"idle", "acquire"} /\ HoldsLease(n) => Failed
<1>1. Init => Idle
  BY DEF Init
<1>2. ASSUME TypeOK, Idle, Failed \/ Fault => Failed', NEW n \in Nodes, Daemon(n)
      PROVE  Idle'
  <2> USE <1>2 DEF TypeOK, DaemonTypeOK, ClusterTypeOK, HoldsLease
  <2>1. CASE Start(n)
    BY <2>1 DEF Start, Goto, lockVars
  <2>2. CASE TestLock(n)
    BY <2>2 DEF TestLock, Goto, lockVars
  <2>3. CASE Tick(n)
    BY <2>3 DEF Tick, Goto, lockVars
  <2>4. CASE AcquireLock(n)
    BY <2>4
    DEF AcquireLock, WriteLease, Goto, AfterLock, AfterDrain, AfterUpdate, AfterRotate, lockVars
  <2>5. CASE AcquireRefused(n)
    BY <2>5 DEF AcquireRefused, WriteLease, Goto, lockVars
  <2>6. CASE Cordon(n) \/ Uncordon(n)
    BY <2>6 DEF Cordon, Uncordon, Goto, lockVars
  <2>7. CASE UpdateConfig(n) \/ Rotate(n)
    BY <2>7 DEF UpdateConfig, Rotate, lockVars
  <2>8. CASE UpdateConfigDone(n) \/ RotateDone(n)
    BY <2>8 DEF UpdateConfigDone, RotateDone, Goto, AfterUpdate, AfterRotate, lockVars
  <2>9. CASE Release(n)
    BY <2>9, NodesAssumption DEF Release, Goto, lockVars
  <2>10. QED
    BY <2>1, <2>2, <2>3, <2>4, <2>5, <2>6, <2>7, <2>8, <2>9 DEF Daemon
<1>3. ASSUME TypeOK, Idle, Failed => Failed', NEW n \in Nodes, Drain(n) \/ Environment(n)
      PROVE  Idle'
  <2> USE <1>3 DEF TypeOK, DaemonTypeOK, ClusterTypeOK, HoldsLease
  <2>1. CASE Drain(n)
    BY <2>1 DEF Drain, Goto, AfterDrain, AfterUpdate, AfterRotate, lockVars
  <2>2. CASE Stop(n)
    BY <2>2 DEF Stop, Goto, lockVars
  <2>3. CASE Lapse(n)
    BY <2>3 DEF Lapse
  <2>4. CASE AgeCert(n) \/ DriftConfig(n) \/ \E wish \in BOOLEAN : Operator(n, wish)
    BY <2>4 DEF AgeCert, DriftConfig, Operator, lockVars
  <2>5. QED
    BY <2>1, <2>2, <2>3, <2>4 DEF Environment
<1>4. ASSUME TypeOK, Idle, [Next]_vars PROVE Idle'
  <2>1. CASE Next
    BY <1>2, <1>3, <1>4, <2>1, HistoryKept DEF Next
  <2>2. CASE UNCHANGED vars
    BY <1>4, <2>2 DEF vars, lockVars, HoldsLease, Failed
  <2>3. QED
    BY <1>4, <2>1, <2>2
<1>5. Idle => IdleHoldsNoLease
  BY DEF IdleHoldsNoLease, Failed
<1>6. QED
  BY <1>1, <1>4, <1>5, TypeCorrect, PTL DEF Spec

-------------------------------------------------------------------------------
(* Cordon and Uncordon. Both look at the node object read at start-up, not *)
(* at the server's. CordonInv says what that object is worth: Uncordon is  *)
(* always preceded by a Cordon, because nodeMeta is never set, so it finds *)
(* the cached object cordoned and does patch the server.                   *)

Cordoned == {"drain", "update", "rotate", "uncordon"}

CordonInv ==
    /\ ~lockMeta
    /\ \A n \in Nodes : ~nodeMeta[n]
    /\ \A n \in Nodes : pc[n] \in Cordoned => cached[n]

\* The daemon never learns that its node was cordoned before (main.go:179),
\* and after Cordon the cached object stays cordoned until Uncordon.
LEMMA CordonInvariant == Spec => []CordonInv
<1>1. Init => CordonInv
  BY DEF Init, CordonInv, Cordoned
<1>2. ASSUME TypeOK, CordonInv, NEW n \in Nodes, Daemon(n)
      PROVE  CordonInv'
  <2> USE <1>2 DEF TypeOK, DaemonTypeOK, ClusterTypeOK, CordonInv, Cordoned
  <2>1. CASE Start(n)
    BY <2>1 DEF Start, Goto, lockVars
  <2>2. CASE TestLock(n)
    BY <2>2 DEF TestLock, Goto, lockVars
  <2>3. CASE Tick(n)
    BY <2>3 DEF Tick, Goto, lockVars
  <2>4. CASE AcquireLock(n)
    BY <2>4 DEF AcquireLock, WriteLease, Goto, AfterLock, lockVars
  <2>5. CASE AcquireRefused(n)
    BY <2>5 DEF AcquireRefused, WriteLease, Goto, lockVars
  <2>6. CASE Cordon(n)
    BY <2>6 DEF Cordon, RunCordonOrUncordon, Goto, lockVars
  <2>7. CASE UpdateConfig(n) \/ Rotate(n)
    BY <2>7 DEF UpdateConfig, Rotate, lockVars
  <2>8. CASE UpdateConfigDone(n) \/ RotateDone(n)
    BY <2>8 DEF UpdateConfigDone, RotateDone, Goto, lockVars
  <2>9. CASE Uncordon(n)
    BY <2>9 DEF Uncordon, RunCordonOrUncordon, Goto, lockVars
  <2>10. CASE Release(n)
    BY <2>10 DEF Release, Goto, lockVars
  <2>11. QED
    BY <2>1, <2>2, <2>3, <2>4, <2>5, <2>6, <2>7, <2>8, <2>9, <2>10 DEF Daemon
<1>3. ASSUME TypeOK, CordonInv, NEW n \in Nodes, Drain(n) \/ Environment(n)
      PROVE  CordonInv'
  <2> USE <1>3 DEF TypeOK, DaemonTypeOK, ClusterTypeOK, CordonInv, Cordoned
  <2>1. CASE Drain(n)
    BY <2>1 DEF Drain, Goto, lockVars
  <2>2. CASE Stop(n)
    BY <2>2 DEF Stop, Goto, lockVars
  <2>3. CASE Lapse(n) \/ AgeCert(n) \/ DriftConfig(n) \/ \E wish \in BOOLEAN : Operator(n, wish)
    BY <2>3 DEF Lapse, AgeCert, DriftConfig, Operator, lockVars
  <2>4. QED
    BY <2>1, <2>2, <2>3 DEF Environment
<1>4. ASSUME TypeOK, CordonInv, [Next]_vars PROVE CordonInv'
  <2>1. CASE UNCHANGED vars
    BY <1>4, <2>1 DEF CordonInv, vars, lockVars
  <2>2. QED
    BY <1>2, <1>3, <1>4, <2>1 DEF Next
<1>5. QED
  BY <1>1, <1>4, TypeCorrect, PTL DEF Spec

\* An Uncordon whose call succeeds makes the node schedulable on the server
\* (main.go:276-278, kubectl.go:32-48), although it looks at the cached object.
THEOREM UncordonEffective == Spec => UncordonReopens
<1> DEFINE Reopens ==
      \A n \in Nodes :
          pc[n] = "uncordon" /\ pc'[n] = "release" /\ faults' = faults => ~unschedulable'[n]
<1>1. ASSUME TypeOK, CordonInv, [Next]_vars PROVE Reopens
  <2> SUFFICES ASSUME NEW n \in Nodes, pc[n] = "uncordon", pc'[n] = "release", faults' = faults
               PROVE  ~unschedulable'[n]
    OBVIOUS
  <2>1. Uncordon(n)
    <3>1. ASSUME NEW m \in Nodes, Daemon(m) PROVE Uncordon(n)
      BY <1>1, <3>1
      DEF TypeOK, DaemonTypeOK, Daemon, Start, TestLock, Tick, AcquireLock, AcquireRefused,
          Cordon, UpdateConfig, UpdateConfigDone, Rotate, RotateDone, Uncordon, Release, Goto
    <3>2. ASSUME NEW m \in Nodes, Drain(m) \/ Environment(m) PROVE FALSE
      BY <1>1, <3>2
      DEF TypeOK, DaemonTypeOK, Environment, Drain, Stop, Lapse, AgeCert, DriftConfig,
          Operator, Goto
    <3>3. ~UNCHANGED vars
      BY DEF vars
    <3>4. QED
      BY <1>1, <3>1, <3>2, <3>3 DEF Next
  <2>2. cached[n] # FALSE
    BY <1>1 DEF CordonInv, Cordoned
  <2>3. ~Fault
    BY <1>1, BoundsAssumption DEF TypeOK, BudgetOK, Fault
  <2>4. unschedulable' = [unschedulable EXCEPT ![n] = FALSE]
    BY <2>1, <2>2, <2>3 DEF Uncordon, RunCordonOrUncordon
  <2>5. QED
    BY <1>1, <2>4 DEF TypeOK, ClusterTypeOK
<1>2. QED
  BY <1>1, TypeCorrect, CordonInvariant, PTL DEF Spec, UncordonReopens

\* A node is cordoned outside a rotation only because an operator wanted it, a
\* call failed or the process died (main.go:251-278).
THEOREM CordonUndone == Spec => []NoCordonLeft
<1> DEFINE Excused == Meddled \/ Failed \/ Died
           Undone  == \A n \in Nodes : unschedulable[n] /\ pc[n] \notin Working => Excused
<1>1. Init => Undone
  BY DEF Init
<1>2. ASSUME TypeOK, CordonInv, Undone, Excused \/ Fault => Excused', NEW n \in Nodes, Daemon(n)
      PROVE  Undone'
  <2> USE <1>2 DEF TypeOK, DaemonTypeOK, ClusterTypeOK, Working
  <2> HIDE DEF Excused
  <2>1. CASE Start(n)
    BY <2>1 DEF Start, Goto, nodeVars
  <2>2. CASE TestLock(n)
    BY <2>2 DEF TestLock, Goto, nodeVars
  <2>3. CASE Tick(n)
    BY <2>3 DEF Tick, Goto, nodeVars
  <2>4. CASE AcquireLock(n) \/ AcquireRefused(n)
    BY <2>4 DEF AcquireLock, AcquireRefused, Goto, nodeVars
  <2>5. CASE Cordon(n)
    BY <2>5 DEF Cordon, RunCordonOrUncordon, Goto
  <2>6. CASE UpdateConfig(n) \/ Rotate(n)
    BY <2>6 DEF UpdateConfig, Rotate, nodeVars
  <2>7. CASE UpdateConfigDone(n) \/ RotateDone(n)
    BY <2>7
    DEF UpdateConfigDone, RotateDone, Goto, AfterUpdate, AfterRotate, CordonInv, nodeVars
  <2>8. CASE Uncordon(n)
    BY <2>8 DEF Uncordon, RunCordonOrUncordon, Goto, CordonInv, Cordoned
  <2>9. CASE Release(n)
    BY <2>9 DEF Release, Goto, nodeVars
  <2>10. QED
    BY <2>1, <2>2, <2>3, <2>4, <2>5, <2>6, <2>7, <2>8, <2>9 DEF Daemon
<1>3. ASSUME TypeOK, CordonInv, Undone, Excused => Excused', NEW n \in Nodes,
             Drain(n) \/ Environment(n)
      PROVE  Undone'
  <2> USE <1>3 DEF TypeOK, DaemonTypeOK, ClusterTypeOK, Working
  <2>1. CASE Drain(n)
    BY <2>1 DEF Drain, Goto, AfterDrain, AfterUpdate, AfterRotate, CordonInv, nodeVars
  <2>2. CASE Stop(n)
    <3>1. Died'
      BY <2>2, BoundsAssumption DEF Stop, Died, BudgetOK
    <3>2. QED
      BY <3>1
  <2>3. CASE Lapse(n) \/ AgeCert(n) \/ DriftConfig(n)
    BY <2>3 DEF Lapse, AgeCert, DriftConfig, nodeVars
  <2>4. CASE \E wish \in BOOLEAN : Operator(n, wish)
    <3>1. Meddled'
      BY <2>4, BoundsAssumption DEF Operator, Meddled, BudgetOK
    <3>2. QED
      BY <3>1
  <2>5. QED
    BY <2>1, <2>2, <2>3, <2>4 DEF Environment
<1>4. ASSUME TypeOK, CordonInv, Undone, [Next]_vars PROVE Undone'
  <2>1. CASE Next
    <3>1. Excused \/ Fault => Excused'
      BY <1>4, HistoryKept
    <3> HIDE DEF Excused, Undone
    <3>2. QED
      BY <1>2, <1>3, <1>4, <2>1, <3>1 DEF Next
  <2>2. CASE UNCHANGED vars
    BY <1>4, <2>2 DEF vars, nodeVars, envBudget, Meddled, Failed, Died
  <2>3. QED
    BY <1>4, <2>1, <2>2
<1>5. Undone => NoCordonLeft
  BY DEF NoCordonLeft, Meddled, Failed, Died
<1>6. QED
  BY <1>1, <1>4, <1>5, TypeCorrect, CordonInvariant, PTL DEF Spec

-------------------------------------------------------------------------------
(* The kubelet. KubeletFresh is inductive only with ErrsInv: the errors    *)
(* that make UpdateConfig and Rotate skip the restart are failed commands. *)

ErrsInv == \A n \in Nodes : errs[n] => Failed

FreshInv == \A n \in Nodes :
               kubeletStale[n] /\ pc[n] \notin {"update", "rotate"} => Failed \/ Died

\* Whatever files, renewable and unknown names a pass handles, it ends with a
\* restart of the kubelet unless a command failed or the process died
\* (kubelet.go:62-86, kubeadm.go:70-97).
THEOREM KubeletRestarted == Spec => []KubeletFresh
<1>1. Init => ErrsInv /\ FreshInv
  BY DEF Init, ErrsInv, FreshInv
<1>2. ASSUME TypeOK, ErrsInv, FreshInv, Failed \/ Fault => Failed', Died => Died',
             NEW n \in Nodes, Daemon(n)
      PROVE  ErrsInv' /\ FreshInv'
  <2> USE <1>2 DEF TypeOK, DaemonTypeOK, ClusterTypeOK, ErrsInv, FreshInv
  <2>1. CASE Start(n)
    BY <2>1 DEF Start, Goto, listVars, hostVars
  <2>2. CASE TestLock(n)
    BY <2>2 DEF TestLock, Goto, listVars, hostVars
  <2>3. CASE Tick(n)
    BY <2>3 DEF Tick, Goto, hostVars
  <2>4. CASE AcquireLock(n)
    BY <2>4 DEF AcquireLock, Goto, listVars, hostVars
  <2>5. CASE AcquireRefused(n) \/ Release(n)
    BY <2>5 DEF AcquireRefused, Release, Goto, ClearLists, hostVars
  <2>6. CASE Cordon(n) \/ Uncordon(n)
    BY <2>6 DEF Cordon, Uncordon, Goto, listVars, hostVars
  <2>7. CASE UpdateConfig(n)
    BY <2>7 DEF UpdateConfig, UpdateFile
  <2>8. CASE Rotate(n)
    BY <2>8 DEF Rotate, BackupAndRenew
  <2>9. CASE UpdateConfigDone(n) \/ RotateDone(n)
    BY <2>9 DEF UpdateConfigDone, RotateDone, RestartUnlessErrs, RestartKubelet, Goto
  <2>10. QED
    BY <2>1, <2>2, <2>3, <2>4, <2>5, <2>6, <2>7, <2>8, <2>9 DEF Daemon
<1>3. ASSUME TypeOK, ErrsInv, FreshInv, Failed => Failed', Died => Died',
             NEW n \in Nodes, Drain(n) \/ Environment(n)
      PROVE  ErrsInv' /\ FreshInv'
  <2> USE <1>3 DEF TypeOK, DaemonTypeOK, ClusterTypeOK, ErrsInv, FreshInv
  <2>1. CASE Drain(n)
    BY <2>1 DEF Drain, Goto, listVars, hostVars
  <2>2. CASE Stop(n)
    <3>1. Died'
      BY <2>2, BoundsAssumption DEF Stop, Died, BudgetOK
    <3>2. QED
      BY <2>2, <3>1 DEF Stop, ClearLists
  <2>3. CASE Lapse(n) \/ AgeCert(n) \/ DriftConfig(n) \/ \E wish \in BOOLEAN : Operator(n, wish)
    BY <2>3 DEF Lapse, AgeCert, DriftConfig, Operator, listVars, hostVars
  <2>4. QED
    BY <2>1, <2>2, <2>3 DEF Environment
<1>4. ASSUME TypeOK, ErrsInv, FreshInv, [Next]_vars PROVE ErrsInv' /\ FreshInv'
  <2>1. CASE Next
    BY <1>2, <1>3, <1>4, <2>1, HistoryKept DEF Next
  <2>2. CASE UNCHANGED vars
    BY <1>4, <2>2
    DEF ErrsInv, FreshInv, vars, listVars, hostVars, envBudget, Failed, Died
  <2>3. QED
    BY <1>4, <2>1, <2>2
<1>5. FreshInv => KubeletFresh
  BY DEF FreshInv, KubeletFresh, Failed, Died
<1>6. QED
  BY <1>1, <1>4, <1>5, TypeCorrect, PTL DEF Spec

-------------------------------------------------------------------------------
(* Refinement: the loop implements NodeLease.                              *)

Holder  == IF LockFree THEN NoNode ELSE lockNode
Inside  == {n \in Nodes : pc[n] \in Working}
Overdue == {n \in Nodes : expired[n]}

\* A step that moves one node's pc, outside or inside, and leaves the lock alone
\* is no step of the lease.
LEMMA LeaseUntouched ==
  ASSUME TypeOK, NEW n \in Nodes, UNCHANGED lockVars,
         \E step : Goto(n, step) /\ (step \in Working <=> pc[n] \in Working)
  PROVE  Holder' = Holder /\ Inside' = Inside /\ Overdue' = Overdue
<1> USE DEF TypeOK, DaemonTypeOK, lockVars
<1>1. Holder' = Holder
  BY DEF Holder, LockFree
<1>2. Inside' = Inside
  BY DEF Inside, Goto
<1>3. Overdue' = Overdue
  BY DEF Overdue
<1>4. QED
  BY <1>1, <1>2, <1>3

\* A step that takes a node out of its work is a Leave.
LEMMA LeaseLeft ==
  ASSUME TypeOK, NEW n \in Nodes, UNCHANGED lockVars,
         \E step : Goto(n, step) /\ step \notin Working
  PROVE  Holder' = Holder /\ Inside' = Inside \ {n} /\ Overdue' = Overdue
<1> USE DEF TypeOK, DaemonTypeOK, lockVars
<1>1. Holder' = Holder
  BY DEF Holder, LockFree
<1>2. Inside' = Inside \ {n}
  BY DEF Inside, Goto
<1>3. Overdue' = Overdue
  BY DEF Overdue
<1>4. QED
  BY <1>1, <1>2, <1>3

\* The write of an annotation over a free lock (lock.go:38) is a Grant; the node
\* is inside afterwards, or not.
LEMMA LeaseGranted ==
  ASSUME TypeOK, NEW n \in Nodes, LockFree, WriteLease(n), pc[n] \notin Working,
         \E step : Goto(n, step)
  PROVE  /\ Holder = NoNode /\ Holder' = n
         /\ Inside' \in {Inside, Inside \cup {n}}
         /\ Overdue' = Overdue \ {n}
<1> USE NodesAssumption DEF TypeOK, DaemonTypeOK, ClusterTypeOK, WriteLease
<1>1. Holder = NoNode
  BY DEF Holder
<1>2. Holder' = n
  BY DEF Holder, LockFree
<1>3. Inside' = Inside \/ Inside' = Inside \cup {n}
  <2>1. PICK step : Goto(n, step)
    OBVIOUS
  <2>2. CASE step \in Working
    BY <2>1, <2>2 DEF Inside, Goto
  <2>3. CASE step \notin Working
    BY <2>1, <2>3 DEF Inside, Goto
  <2>4. QED
    BY <2>2, <2>3
<1>4. Overdue' = Overdue \ {n}
  BY DEF Overdue
<1>5. QED
  BY <1>1, <1>2, <1>3, <1>4

\* The steps of the abstract lease, in terms of the loop's state.
LeaseStep ==
  \/ UNCHANGED <<Holder, Inside, Overdue>>
  \/ \E n \in Nodes :
       \/ /\ Holder = NoNode /\ Holder' = n
          /\ Inside' \in {Inside, Inside \cup {n}} /\ Overdue' = Overdue \ {n}
       \/ Holder = n /\ Inside' = Inside \cup {n} /\ UNCHANGED <<Holder, Overdue>>
       \/ Inside' = Inside \ {n} /\ UNCHANGED <<Holder, Overdue>>
       \/ /\ Holder = n /\ n \notin Inside
          /\ Holder' = NoNode /\ Overdue' = Overdue \ {n} /\ UNCHANGED Inside
       \/ /\ n \in Overdue \ Inside
          /\ Overdue' = Overdue \ {n} /\ UNCHANGED <<Holder, Inside>>
       \/ /\ Holder = n
          /\ Holder' = NoNode /\ Overdue' = Overdue \cup {n} /\ UNCHANGED Inside

\* acquire (lock.go:37-50): a grant, an entry, or nothing.
LEMMA AcquireLease ==
  ASSUME TypeOK, NEW n \in Nodes, AcquireLock(n) \/ AcquireRefused(n)
  PROVE  LeaseStep
<1> USE NodesAssumption DEF Working
<1>1. CASE AcquireLock(n) /\ LockFree /\ WriteLease(n)
  BY <1>1, LeaseGranted DEF AcquireLock, LeaseStep
<1>2. CASE AcquireLock(n) /\ HoldsLease(n) /\ UNCHANGED lockVars
  <2>1. Holder = n /\ Holder' = n
    BY <1>2 DEF Holder, LockFree, HoldsLease, lockVars
  <2>2. Overdue' = Overdue
    BY <1>2 DEF Overdue, lockVars
  <2>3. Inside' = Inside \/ Inside' = Inside \cup {n}
    <3>1. PICK step : Goto(n, step)
      BY <1>2 DEF AcquireLock
    <3>2. pc[n] \notin Working
      BY <1>2 DEF AcquireLock
    <3>3. CASE step \in Working
      BY <3>1, <3>2, <3>3 DEF Inside, Goto, TypeOK, DaemonTypeOK
    <3>4. CASE step \notin Working
      BY <3>1, <3>2, <3>4 DEF Inside, Goto, TypeOK, DaemonTypeOK
    <3>5. QED
      BY <3>3, <3>4
  <2>4. QED
    BY <2>1, <2>2, <2>3 DEF LeaseStep
<1>3. CASE AcquireRefused(n) /\ LockFree /\ WriteLease(n)
  BY <1>3, LeaseGranted DEF AcquireRefused, LeaseStep
<1>4. CASE AcquireRefused(n) /\ UNCHANGED lockVars
  BY <1>4, LeaseUntouched DEF AcquireRefused, LeaseStep
<1>5. QED
  BY <1>1, <1>2, <1>3, <1>4, Zenon DEF AcquireLock, AcquireRefused, lockVars

\* release (lock.go:52-57): the lease is given back, in time or late, or the call
\* fails; the node is outside in each case.
LEMMA ReleaseLease ==
  ASSUME TypeOK, NEW n \in Nodes, Release(n)
  PROVE  LeaseStep
<1> USE NodesAssumption DEF TypeOK, DaemonTypeOK, ClusterTypeOK
<1>1. Inside' = Inside /\ n \notin Inside
  BY DEF Release, Goto, Inside, Working
<1>2. CASE lockNode = n /\ lockNode' = NoNode /\ expired' = [expired EXCEPT ![n] = FALSE]
  <2>1. Overdue' = Overdue \ {n} /\ Holder' = NoNode
    BY <1>2 DEF Overdue, Holder, LockFree
  <2>2. CASE expired[n]
    <3>1. Holder = NoNode /\ n \in Overdue
      BY <1>2, <2>2 DEF Holder, LockFree, Overdue
    <3>2. QED
      BY <1>1, <2>1, <3>1 DEF LeaseStep
  <2>3. CASE ~expired[n]
    <3>1. Holder = n
      BY <1>2, <2>3 DEF Holder, LockFree
    <3>2. QED
      BY <1>1, <2>1, <3>1 DEF LeaseStep
  <2>4. QED
    BY <2>2, <2>3
<1>3. CASE lockNode # n /\ lockNode' = lockNode /\ expired' = [expired EXCEPT ![n] = FALSE]
  <2>1. Overdue' = Overdue \ {n} /\ Holder' = Holder
    BY <1>3 DEF Overdue, Holder, LockFree
  <2>2. CASE n \in Overdue
    BY <1>1, <2>1, <2>2 DEF LeaseStep
  <2>3. CASE n \notin Overdue
    <3>1. Overdue' = Overdue
      BY <2>1, <2>3
    <3>2. QED
      BY <1>1, <2>1, <3>1 DEF LeaseStep
  <2>4. QED
    BY <2>2, <2>3
<1>4. CASE UNCHANGED lockVars
  <2>1. Holder' = Holder /\ Overdue' = Overdue
    BY <1>4 DEF Holder, LockFree, Overdue, lockVars
  <2>2. QED
    BY <1>1, <2>1 DEF LeaseStep
<1>5. QED
  BY <1>2, <1>3, <1>4, Zenon DEF Release

\* Every other step of the daemon or its environment.
LEMMA OtherLease ==
  ASSUME TypeOK, NEW n \in Nodes, Daemon(n) \/ Drain(n) \/ Environment(n)
  PROVE  LeaseStep
<1> USE DEF Working
<1>1. CASE Start(n) \/ TestLock(n) \/ Tick(n) \/ Cordon(n)
  <2>1. UNCHANGED lockVars
    BY <1>1 DEF Start, TestLock, Tick, Cordon
  <2>2. \E step : Goto(n, step) /\ (step \in Working <=> pc[n] \in Working)
    <3>1. \/ pc[n] = "cordon" /\ Goto(n, "drain")
          \/ /\ pc[n] \in {"down", "starting", "idle"}
             /\ \/ Goto(n, "starting") \/ Goto(n, "release")
                \/ Goto(n, "idle") \/ Goto(n, "acquire")
      BY <1>1 DEF Start, TestLock, Tick, Cordon
    <3>2. QED
      BY <3>1
  <2>3. QED
    BY <2>1, <2>2, LeaseUntouched DEF LeaseStep
<1>2. CASE Drain(n) \/ UpdateConfigDone(n) \/ RotateDone(n) \/ Uncordon(n) \/ Stop(n)
  <2>1. CASE Uncordon(n) \/ Stop(n)
    <3>1. UNCHANGED lockVars
      BY <2>1 DEF Uncordon, Stop
    <3>2. \E step : Goto(n, step) /\ step \notin Working
      <4>1. Goto(n, "release") \/ Goto(n, "down")
        BY <2>1 DEF Uncordon, Stop
      <4>2. QED
        BY <4>1
    <3>3. QED
      BY <3>1, <3>2, LeaseLeft DEF LeaseStep
  <2>2. CASE Drain(n) \/ UpdateConfigDone(n) \/ RotateDone(n)
    <3>1. PICK step : Goto(n, step)
      BY <2>2 DEF Drain, UpdateConfigDone, RotateDone
    <3>2. UNCHANGED lockVars /\ pc[n] \in Working
      BY <2>2 DEF Drain, UpdateConfigDone, RotateDone
    <3>3. CASE step \in Working
      BY <3>1, <3>2, <3>3, LeaseUntouched DEF LeaseStep
    <3>4. CASE step \notin Working
      BY <3>1, <3>2, <3>4, LeaseLeft DEF LeaseStep
    <3>5. QED
      BY <3>3, <3>4
  <2>3. QED
    BY <1>2, <2>1, <2>2
<1>3. CASE UNCHANGED <<pc, lockVars>>
  BY <1>3 DEF LeaseStep, Holder, LockFree, Inside, Overdue, lockVars
<1>4. CASE Lapse(n)
  <2>1. Holder = n /\ Holder' = NoNode
    BY <1>4 DEF Lapse, HoldsLease, Holder, LockFree, TypeOK, ClusterTypeOK
  <2>2. Inside' = Inside /\ Overdue' = Overdue \cup {n}
    BY <1>4 DEF Lapse, Inside, Overdue, TypeOK, ClusterTypeOK
  <2>3. QED
    BY <2>1, <2>2 DEF LeaseStep
<1>5. CASE UpdateConfig(n) \/ Rotate(n) \/ AgeCert(n) \/ DriftConfig(n)
             \/ \E wish \in BOOLEAN : Operator(n, wish)
  BY <1>3, <1>5 DEF UpdateConfig, Rotate, AgeCert, DriftConfig, Operator
<1>6. QED
  BY <1>1, <1>2, <1>4, <1>5, AcquireLease, ReleaseLease DEF Daemon, Environment

\* RotationLoop implements NodeLease: each step of a daemon, the lost replies,
\* late releases, deaths and lapses included, is a step of the abstract lease or
\* leaves it alone.
THEOREM LeaseImplemented == Spec => ImplementsLease
<1>1. Init => Lease!Init
  BY DEF Init, Lease!Init, LockFree, Working
<1>2. ASSUME TypeOK, [Next]_vars PROVE [Lease!Next]_(Lease!vars)
  <2>1. LeaseStep
    <3>1. CASE Next
      BY <1>2, <3>1, OtherLease DEF Next
    <3>2. CASE UNCHANGED vars
      BY <3>2 DEF vars, lockVars, LeaseStep, Holder, LockFree, Inside, Overdue
    <3>3. QED
      BY <1>2, <3>1, <3>2
  <2>2. QED
    BY <2>1
    DEF LeaseStep, Holder, Inside, Overdue, Lease!Next, Lease!vars, Lease!Grant, Lease!Enter,
        Lease!Leave, Lease!GiveBack, Lease!GiveBackLate, Lease!Lapse
<1>3. QED
  BY <1>1, <1>2, TypeCorrect, PTL DEF Spec, ImplementsLease, Lease!Spec
===============================================================================
