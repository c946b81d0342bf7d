----------------------------- MODULE RotationLoop -----------------------------
(***************************************************************************)
(* The kucero daemon (cmd/kucero/main.go, cmd/kucero/lock.go): one process *)
(* per node polls its host, and when a kubelet configuration file or a     *)
(* kubeadm certificate needs work it takes the cluster-wide lock kept in   *)
(* an annotation of the daemonset, cordons and drains its node, updates    *)
(* the files, renews the certificates, restarts the kubelet, uncordons and *)
(* releases the lock.                                                      *)
(*                                                                         *)
(* Every call that leaves the process (API server, host command) is a step *)
(* of its own and may fail; the process may die between any two steps; the *)
(* lock's time-to-live may run out under a rotation that is still busy; an *)
(* operator may cordon or uncordon the node at any time.                   *)
(***************************************************************************)
EXTENDS Naturals

CONSTANTS
    Nodes,          \* the nodes the daemonset runs on
    ControlPlane,   \* those labelled master or control-plane
    Configs,        \* the keys of kubelet's `configs` map
    Irregular,      \* configuration files that the byte-level replace may leave stale
    Certs,          \* the names `kubeadm certs check-expiration` lists
    Renewable,      \* those that are keys of kubeadm's `certificates` map
    NoNode,         \* "no lock annotation"
    MaxFaults,      \* bound: failing API calls and host commands
    MaxStops,       \* bound: process deaths
    MaxAgings,      \* bound: certificates and files that come to need work
    MaxOperator     \* bound: operator's cordons and uncordons

ASSUME NodesAssumption == NoNode \notin Nodes /\ ControlPlane \subseteq Nodes
ASSUME FilesAssumption == Irregular \subseteq Configs /\ Renewable \subseteq Certs
ASSUME BoundsAssumption ==
    MaxFaults \in Nat /\ MaxStops \in Nat /\ MaxAgings \in Nat /\ MaxOperator \in Nat

VARIABLES
    pc,                 \* where each node's daemon is
    \* the daemonset's lock annotation
    lockNode,           \* its nodeID, or NoNode
    lockMeta,           \* its metadata: nodeMeta.Unschedulable
    expired,            \* the TTL of the lease this node last wrote has run out
    \* the daemon's memory
    nodeMeta,           \* nodeMeta.Unschedulable
    cached,             \* corev1Node.Spec.Unschedulable, read once at start-up
    configsToBeUpdate,
    expiryCerts,
    errs,               \* errs # nil in UpdateConfig or Rotate
    \* the node object and the host
    unschedulable,      \* the API server's Spec.Unschedulable
    operatorCordon,     \* an operator wants the node cordoned since before a rotation
    staleConfigs,       \* files that do not say what the flags say
    dueCerts,           \* certificates within renew-before of their end, or past it
    kubeletStale,       \* a file or certificate changed since the kubelet started
    \* how much of each bound is used
    faults, stops, agings, operatorMoves

lockVars   == <<lockNode, lockMeta, expired>>
listVars   == <<configsToBeUpdate, expiryCerts, errs>>
nodeVars   == <<unschedulable, operatorCordon>>
hostVars   == <<staleConfigs, dueCerts, kubeletStale>>
envBudget  == <<stops, agings, operatorMoves>>
vars == <<pc, lockVars, nodeMeta, cached, listVars, nodeVars, hostVars, faults, envBudget>>

\* The steps of one pass of the polling loop, in the order of main.go.
Working == {"cordon", "drain", "update", "rotate", "uncordon"}
Steps   == {"down", "starting", "idle", "acquire", "release"} \cup Working

DaemonTypeOK ==
    /\ pc \in [Nodes -> Steps]
    /\ nodeMeta \in [Nodes -> BOOLEAN]
    /\ cached \in [Nodes -> BOOLEAN]
    /\ configsToBeUpdate \in [Nodes -> SUBSET Configs]
    /\ expiryCerts \in [Nodes -> SUBSET Certs]
    /\ errs \in [Nodes -> BOOLEAN]

ClusterTypeOK ==
    /\ lockNode \in Nodes \cup {NoNode}
    /\ lockMeta \in BOOLEAN
    /\ expired \in [Nodes -> BOOLEAN]
    /\ unschedulable \in [Nodes -> BOOLEAN]
    /\ operatorCordon \in [Nodes -> BOOLEAN]
    /\ staleConfigs \in [Nodes -> SUBSET Configs]
    /\ dueCerts \in [Nodes -> SUBSET Certs]
    /\ kubeletStale \in [Nodes -> BOOLEAN]

BudgetOK ==
    /\ faults \in 0..MaxFaults
    /\ stops \in 0..MaxStops
    /\ agings \in 0..MaxAgings
    /\ operatorMoves \in 0..MaxOperator

\* Every variable keeps the type of the Go value or cluster object it stands
\* for; the annotation names a node of the daemonset or is absent (lock.go:37).
TypeOK == DaemonTypeOK /\ ClusterTypeOK /\ BudgetOK

\* The daemonset has just been applied to a cluster whose files may or may not
\* agree with the flags.
Init ==
    /\ pc = [n \in Nodes |-> "down"]
    /\ lockNode = NoNode
    /\ lockMeta = FALSE
    /\ expired = [n \in Nodes |-> FALSE]
    /\ nodeMeta = [n \in Nodes |-> FALSE]
    /\ cached = [n \in Nodes |-> FALSE]
    /\ configsToBeUpdate = [n \in Nodes |-> {}]
    /\ expiryCerts = [n \in Nodes |-> {}]
    /\ errs = [n \in Nodes |-> FALSE]
    /\ unschedulable = [n \in Nodes |-> FALSE]
    /\ operatorCordon = [n \in Nodes |-> FALSE]
    /\ staleConfigs \in [Nodes -> SUBSET Configs]
    /\ dueCerts = [n \in Nodes |-> {}]
    /\ kubeletStale = [n \in Nodes |-> FALSE]
    /\ faults = 0 /\ stops = 0 /\ agings = 0 /\ operatorMoves = 0

Goto(n, step) == pc' = [pc EXCEPT ![n] = step]

\* An API call or host command that fails.
Fault == faults < MaxFaults /\ faults' = faults + 1

ClearLists(n) ==
    /\ configsToBeUpdate' = [configsToBeUpdate EXCEPT ![n] = {}]
    /\ expiryCerts' = [expiryCerts EXCEPT ![n] = {}]
    /\ errs' = [errs EXCEPT ![n] = FALSE]

-------------------------------------------------------------------------------
(* Start-up: root and the beginning of rotateCertificateWhenNeeded.        *)

\* The pod starts: root reads the node object once and keeps the pointer.
Start(n) ==
    /\ pc[n] = "down"
    /\ Goto(n, "starting")
    /\ cached' = [cached EXCEPT ![n] = unschedulable[n]]
    /\ nodeMeta' = [nodeMeta EXCEPT ![n] = FALSE]
    /\ UNCHANGED <<lockVars, listVars, nodeVars, hostVars, faults, envBudget>>

\* The annotation names n and its TTL has not run out.
HoldsLease(n) == lockNode = n /\ ~expired[n]

\* Mutant of TestLock: start-up looks at the lock and does not release it.
TestLockOnly(n) ==
    /\ pc[n] = "starting"
    /\ Goto(n, "idle")
    /\ UNCHANGED <<lockVars, nodeMeta, cached, listVars, nodeVars, hostVars, faults, envBudget>>

\* Mutant of TestLock: the holder's name is decoded into nodeMeta.
TestLockHolderDecoded(n) ==
    /\ pc[n] = "starting"
    /\ nodeMeta' = [nodeMeta EXCEPT ![n] = IF lockNode = NoNode THEN @ ELSE lockNode]
    /\ Goto(n, IF HoldsLease(n) THEN "release" ELSE "idle")
    /\ UNCHANGED <<lockVars, cached, listVars, nodeVars, hostVars, faults, envBudget>>

\* holding(lock, &nodeMeta): Test decodes whatever annotation there is into
\* nodeMeta, then compares node and age; an error counts as "not holding".
TestLock(n) ==
    /\ pc[n] = "starting"
    /\ \/ /\ nodeMeta' = [nodeMeta EXCEPT ![n] = IF lockNode = NoNode THEN @ ELSE lockMeta]
          /\ Goto(n, IF HoldsLease(n) THEN "release" ELSE "idle")
          /\ UNCHANGED faults
       \/ Fault /\ Goto(n, "idle") /\ UNCHANGED nodeMeta
    /\ UNCHANGED <<lockVars, cached, listVars, nodeVars, hostVars, envBudget>>

-------------------------------------------------------------------------------
(* The polling loop.                                                       *)

\* node.New gives a worker the null certificate, which is never due.
NullCheckExpiration == {}
KubeadmCheckExpiration(n) == dueCerts[n]
CheckExpiration(n) == IF n \in ControlPlane THEN KubeadmCheckExpiration(n) ELSE NullCheckExpiration

\* Mutant of NothingToDo: `&&` for `||` in main.go:250.
NotBothToDo(toUpdate, toRenew) == toUpdate = {} \/ toRenew = {}
NothingToDo(toUpdate, toRenew) == toUpdate = {} /\ toRenew = {}

\* CheckConfig leaves out the files whose check fails.
CheckConfig(n, unreadable) == staleConfigs[n] \ unreadable

\* A tick. CheckExpiration returns nothing when a kubeadm command fails; the
\* errors of both checks are only logged.
Tick(n) ==
    /\ pc[n] = "idle"
    /\ \E unreadable \in SUBSET staleConfigs[n], kubeadmFails \in BOOLEAN :
          LET toUpdate == CheckConfig(n, unreadable)
              toRenew  == IF kubeadmFails THEN {} ELSE CheckExpiration(n)
          IN  /\ IF unreadable = {} /\ ~kubeadmFails THEN UNCHANGED faults ELSE Fault
              /\ configsToBeUpdate' = [configsToBeUpdate EXCEPT ![n] = toUpdate]
              /\ expiryCerts' = [expiryCerts EXCEPT ![n] = toRenew]
              /\ Goto(n, IF NothingToDo(toUpdate, toRenew) THEN "idle" ELSE "acquire")
    /\ UNCHANGED <<lockVars, nodeMeta, cached, errs, nodeVars, hostVars, envBudget>>

\* After the lock and the drain: the non-empty lists in order, then the end.
\* Mutant of AfterRotate: the uncordon is forgotten.
NeverUncordon(n) == "release"
AfterRotate(n) == IF nodeMeta[n] THEN "release" ELSE "uncordon"
AfterUpdate(n) == IF expiryCerts[n] # {} THEN "rotate" ELSE AfterRotate(n)
AfterDrain(n)  == IF configsToBeUpdate[n] # {} THEN "update" ELSE AfterUpdate(n)
AfterLock(n)   == IF nodeMeta[n] THEN AfterDrain(n) ELSE "cordon"

\* No annotation, or one whose TTL has run out.
LockFree == lockNode # NoNode => expired[lockNode]

\* Update of the daemonset with n's annotation; the resourceVersion makes the
\* read and the write one step.
WriteLease(n) ==
    /\ lockNode' = n
    /\ lockMeta' = nodeMeta[n]
    /\ expired' = [expired EXCEPT ![n] = FALSE]

\* acquire returns true: the lock was free, or n's own lease is still running
\* (then the annotation, and its age, stay as they are).
AcquireLock(n) ==
    /\ pc[n] = "acquire"
    /\ \/ LockFree /\ WriteLease(n)
       \/ HoldsLease(n) /\ UNCHANGED lockVars
    /\ Goto(n, AfterLock(n))
    /\ UNCHANGED <<nodeMeta, cached, listVars, nodeVars, hostVars, faults, envBudget>>

\* Mutant of AcquireRefused: `case !holding` falls through to `return true`.
AcquireRefusedIgnored(n) ==
    /\ pc[n] = "acquire"
    /\ ~LockFree /\ ~HoldsLease(n)
    /\ Goto(n, AfterLock(n))
    /\ UNCHANGED <<lockVars, nodeMeta, cached, listVars, nodeVars, hostVars, faults, envBudget>>

\* acquire returns false, because another node holds the lock or because of an
\* error; the write behind a lost reply may have happened. Next try: next tick.
AcquireRefused(n) ==
    /\ pc[n] = "acquire"
    /\ \/ ~LockFree /\ ~HoldsLease(n) /\ UNCHANGED <<lockVars, faults>>
       \/ Fault /\ UNCHANGED lockVars
       \/ Fault /\ LockFree /\ WriteLease(n)
    /\ Goto(n, "idle")
    /\ ClearLists(n)
    /\ UNCHANGED <<nodeMeta, cached, nodeVars, hostVars, envBudget>>

\* RunCordonOrUncordon compares the wish with the cached object; if they differ
\* it changes the cached object, then patches the server, and an error is
\* only logged.
RunCordonOrUncordon(n, desired) ==
    \/ cached[n] = desired /\ UNCHANGED <<cached, unschedulable, faults>>
    \/ /\ cached[n] # desired
       /\ cached' = [cached EXCEPT ![n] = desired]
       /\ \/ unschedulable' = [unschedulable EXCEPT ![n] = desired] /\ UNCHANGED faults
          \/ Fault /\ UNCHANGED unschedulable

\* Mutant of Cordon: works on a copy of corev1Node that is thrown away.
CordonOnCopy(n) ==
    /\ pc[n] = "cordon"
    /\ unschedulable' = [unschedulable EXCEPT ![n] = TRUE]
    /\ Goto(n, "drain")
    /\ UNCHANGED <<lockVars, nodeMeta, cached, listVars, operatorCordon, hostVars, faults,
                   envBudget>>

Cordon(n) ==
    /\ pc[n] = "cordon"
    /\ RunCordonOrUncordon(n, TRUE)
    /\ Goto(n, "drain")
    /\ UNCHANGED <<lockVars, nodeMeta, listVars, operatorCordon, hostVars, envBudget>>

\* Drain has no timeout; its outcome is only logged.
Drain(n) ==
    /\ pc[n] = "drain"
    /\ Goto(n, AfterDrain(n))
    /\ UNCHANGED <<lockVars, nodeMeta, cached, listVars, nodeVars, hostVars, faults, envBudget>>

Uncordon(n) ==
    /\ pc[n] = "uncordon"
    /\ RunCordonOrUncordon(n, FALSE)
    /\ Goto(n, "release")
    /\ UNCHANGED <<lockVars, nodeMeta, listVars, operatorCordon, hostVars, envBudget>>

\* Mutant of Release: the annotation is removed without comparing its nodeID.
ReleaseAnyHolder(n) ==
    /\ pc[n] = "release"
    /\ lockNode' = NoNode
    /\ lockMeta' = FALSE
    /\ expired' = [expired EXCEPT ![n] = FALSE]
    /\ Goto(n, "idle")
    /\ ClearLists(n)
    /\ UNCHANGED <<nodeMeta, cached, nodeVars, hostVars, faults, envBudget>>

\* Release removes the annotation only when it names n, whatever its age.
Release(n) ==
    /\ pc[n] = "release"
    /\ \/ /\ lockNode = n
          /\ lockNode' = NoNode
          /\ lockMeta' = FALSE
          /\ expired' = [expired EXCEPT ![n] = FALSE]
          /\ UNCHANGED faults
       \/ /\ lockNode # n
          /\ expired' = [expired EXCEPT ![n] = FALSE]
          /\ UNCHANGED <<lockNode, lockMeta, faults>>
       \/ Fault /\ lockNode = n /\ UNCHANGED lockVars
    /\ Goto(n, "idle")
    /\ ClearLists(n)
    /\ UNCHANGED <<nodeMeta, cached, nodeVars, hostVars, envBudget>>

-------------------------------------------------------------------------------
(* Kubelet.UpdateConfig and Kubeadm.Rotate, one file or certificate a step.*)

\* systemctl restart kubelet: the kubelet rereads its files.
RestartKubelet(n) ==
    \/ kubeletStale' = [kubeletStale EXCEPT ![n] = FALSE] /\ UNCHANGED faults
    \/ Fault /\ UNCHANGED kubeletStale

\* updateEtcKubernetesKubeletConf, updateVarLibKubeletConfigYaml: a file of
\* irregular form may be written back still stale, with one key replaced or with a
\* comment in place of the setting, and no error is reported. A call that fails
\* leaves the file as it was or, in WriteFile, empty: the kubelet's files have
\* changed, and the check may find nothing to update in an empty one.
UpdateFile(n, file) ==
    \/ /\ staleConfigs' = [staleConfigs EXCEPT ![n] = @ \ {file}]
       /\ kubeletStale' = [kubeletStale EXCEPT ![n] = TRUE]
       /\ UNCHANGED <<errs, faults>>
    \/ /\ file \in Irregular
       /\ \E replaced \in BOOLEAN :
             kubeletStale' = [kubeletStale EXCEPT ![n] = @ \/ replaced]
       /\ UNCHANGED <<staleConfigs, errs, faults>>
    \/ /\ Fault
       /\ errs' = [errs EXCEPT ![n] = TRUE]
       /\ \/ UNCHANGED <<staleConfigs, kubeletStale>>
          \/ /\ \E left \in SUBSET {file} :
                   staleConfigs' = [staleConfigs EXCEPT ![n] = @ \ left]
             /\ kubeletStale' = [kubeletStale EXCEPT ![n] = TRUE]

\* One turn of UpdateConfig's loop.
UpdateConfig(n) ==
    /\ pc[n] = "update"
    /\ \E file \in configsToBeUpdate[n] :
          /\ configsToBeUpdate' = [configsToBeUpdate EXCEPT ![n] = @ \ {file}]
          /\ UpdateFile(n, file)
    /\ UNCHANGED <<pc, lockVars, nodeMeta, cached, expiryCerts, nodeVars, dueCerts, envBudget>>

\* Mutant of RestartUnlessErrs: `errs == nil` returns early, without a restart.
RestartOnErrs(n) ==
    /\ IF errs[n] THEN RestartKubelet(n) ELSE UNCHANGED <<kubeletStale, faults>>
    /\ errs' = [errs EXCEPT ![n] = FALSE]

\* The end of UpdateConfig or Rotate: one error anywhere in the loop, and the
\* kubelet is not restarted.
RestartUnlessErrs(n) ==
    /\ IF errs[n] THEN UNCHANGED <<kubeletStale, faults>> ELSE RestartKubelet(n)
    /\ errs' = [errs EXCEPT ![n] = FALSE]

UpdateConfigDone(n) ==
    /\ pc[n] = "update" /\ configsToBeUpdate[n] = {}
    /\ RestartUnlessErrs(n)
    /\ Goto(n, AfterUpdate(n))
    /\ UNCHANGED <<lockVars, nodeMeta, cached, configsToBeUpdate, expiryCerts, nodeVars,
                   staleConfigs, dueCerts, envBudget>>

\* backupCertificate, then rotateCertificate; either command may fail.
BackupAndRenew(n, cert) ==
    \/ /\ dueCerts' = [dueCerts EXCEPT ![n] = @ \ {cert}]
       /\ kubeletStale' = [kubeletStale EXCEPT ![n] = TRUE]
       /\ UNCHANGED <<errs, faults>>
    \/ /\ Fault
       /\ errs' = [errs EXCEPT ![n] = TRUE]
       /\ UNCHANGED <<dueCerts, kubeletStale>>

\* One turn of Rotate's loop: a name that is not in the `certificates` map is
\* skipped.
Rotate(n) ==
    /\ pc[n] = "rotate"
    /\ \E cert \in expiryCerts[n] :
          /\ expiryCerts' = [expiryCerts EXCEPT ![n] = @ \ {cert}]
          /\ \/ cert \in Renewable /\ BackupAndRenew(n, cert)
             \/ cert \notin Renewable /\ UNCHANGED <<dueCerts, kubeletStale, errs, faults>>
    /\ UNCHANGED <<pc, lockVars, nodeMeta, cached, configsToBeUpdate, nodeVars,
                   staleConfigs, envBudget>>

RotateDone(n) ==
    /\ pc[n] = "rotate" /\ expiryCerts[n] = {}
    /\ RestartUnlessErrs(n)
    /\ Goto(n, AfterRotate(n))
    /\ UNCHANGED <<lockVars, nodeMeta, cached, configsToBeUpdate, expiryCerts, nodeVars,
                   staleConfigs, dueCerts, envBudget>>

-------------------------------------------------------------------------------
(* The environment.                                                        *)

\* The process ends: a signal read by the select, a SIGKILL after the grace
\* period, or logrus.Fatal in the CSR controller's goroutine (lost leadership)
\* while this loop is anywhere. The annotation stays where it is.
Stop(n) ==
    /\ pc[n] # "down"
    /\ stops < MaxStops /\ stops' = stops + 1
    /\ Goto(n, "down")
    /\ ClearLists(n)
    /\ UNCHANGED <<lockVars, nodeMeta, cached, nodeVars, hostVars, faults, agings, operatorMoves>>

\* Mutant of Lapse: acquire passes TTL 0, which daemonsetlock takes for "no limit".
LapseNever(n) == FALSE /\ HoldsLease(n) /\ UNCHANGED vars

\* A minute passes after n wrote its annotation.
Lapse(n) ==
    /\ HoldsLease(n)
    /\ expired' = [expired EXCEPT ![n] = TRUE]
    /\ UNCHANGED <<pc, lockNode, lockMeta, nodeMeta, cached, listVars, nodeVars, hostVars,
                   faults, envBudget>>

\* A certificate comes within renew-before of its end.
AgeCert(n) ==
    /\ n \in ControlPlane
    /\ agings < MaxAgings /\ agings' = agings + 1
    /\ \E cert \in Certs \ dueCerts[n] :
          dueCerts' = [dueCerts EXCEPT ![n] = @ \cup {cert}]
    /\ UNCHANGED <<pc, lockVars, nodeMeta, cached, listVars, nodeVars, staleConfigs,
                   kubeletStale, faults, stops, operatorMoves>>

\* Someone rewrites a kubelet file so that it disagrees with the flags.
DriftConfig(n) ==
    /\ agings < MaxAgings /\ agings' = agings + 1
    /\ \E file \in Configs \ staleConfigs[n] :
          staleConfigs' = [staleConfigs EXCEPT ![n] = @ \cup {file}]
    /\ UNCHANGED <<pc, lockVars, nodeMeta, cached, listVars, nodeVars, dueCerts,
                   kubeletStale, faults, stops, operatorMoves>>

\* kubectl cordon / uncordon by a person. A cordon in the middle of a rotation,
\* which kucero could not tell from its own, is not remembered.
Operator(n, wish) ==
    /\ operatorMoves < MaxOperator /\ operatorMoves' = operatorMoves + 1
    /\ unschedulable[n] # wish \/ operatorCordon[n] # wish
    /\ unschedulable' = [unschedulable EXCEPT ![n] = wish]
    /\ operatorCordon' = [operatorCordon EXCEPT ![n] = wish /\ (@ \/ pc[n] \notin Working)]
    /\ UNCHANGED <<pc, lockVars, nodeMeta, cached, listVars, hostVars, faults, stops, agings>>

-------------------------------------------------------------------------------

Daemon(n) ==
    \/ Start(n) \/ TestLock(n) \/ Tick(n)
    \/ AcquireLock(n) \/ AcquireRefused(n)
    \/ Cordon(n) \/ UpdateConfig(n) \/ UpdateConfigDone(n)
    \/ Rotate(n) \/ RotateDone(n) \/ Uncordon(n) \/ Release(n)

Environment(n) ==
    \/ Stop(n) \/ Lapse(n) \/ AgeCert(n) \/ DriftConfig(n)
    \/ \E wish \in BOOLEAN : Operator(n, wish)

Next == \E n \in Nodes : Daemon(n) \/ Drain(n) \/ Environment(n)

\* The loop runs whenever the pod does, the daemonset restarts the pod
\* (restartPolicy: Always), and time passes. That a drain ends is an assumption
\* on the cluster: the code gives it no timeout.
Fairness ==
    \A n \in Nodes : WF_vars(Daemon(n)) /\ WF_vars(Drain(n)) /\ WF_vars(Lapse(n))

Spec == Init /\ [][Next]_vars
FairSpec == Spec /\ Fairness

-------------------------------------------------------------------------------
(* Safety.                                                                 *)

\* Two daemons are between acquire and release at once (main.go:250-280) only
\* if one of them has outlived its one-minute lease: the lock serialises the
\* rotations whose drain and commands end within the TTL.
LeasedMutex ==
    \A m, n \in Nodes :
        m # n /\ pc[m] \in Working /\ pc[n] \in Working => expired[m] \/ expired[n]

\* A lease that is still running goes away only by its holder's own release
\* (lock.go:52): neither another node's acquire, nor the late release of a
\* node that lost the lock to its TTL, removes it.
LiveLeaseKept ==
    [][\A n \in Nodes : HoldsLease(n) /\ lockNode' # n => pc[n] = "release"]_vars

\* A daemon that polls (main.go:226) does not sit on a running lease: the
\* test-and-release at start-up (main.go:180) gives back what a dead
\* predecessor held, unless an API call failed or the TTL did it already.
IdleHoldsNoLease ==
    \A n \in Nodes : pc[n] \in {"idle", "acquire"} /\ HoldsLease(n) => faults > 0

\* A rotation that reaches Uncordon (main.go:277) and whose patch succeeds
\* leaves the node schedulable, whatever the copy of the node object cached
\* at start-up says and whatever an operator did since.
UncordonReopens ==
    [][\A n \in Nodes :
          pc[n] = "uncordon" /\ pc'[n] = "release" /\ faults' = faults
              => ~unschedulable'[n]]_vars

\* A node is cordoned outside a rotation only because an operator wanted it,
\* a call failed or the process died (main.go:251-278).
NoCordonLeft ==
    \A n \in Nodes :
        unschedulable[n] /\ pc[n] \notin Working
            => operatorMoves > 0 \/ faults > 0 \/ stops > 0

\* The kubelet runs on outdated files or certificates outside UpdateConfig and
\* Rotate only if a command failed or the process died (kubelet.go:81,
\* kubeadm.go:92): whatever mix of files, renewable and unknown names a pass
\* handles, it ends with a restart.
KubeletFresh ==
    \A n \in Nodes :
        kubeletStale[n] /\ pc[n] \notin {"update", "rotate"} => faults > 0 \/ stops > 0

-------------------------------------------------------------------------------
(* Refinement.                                                             *)

Lease == INSTANCE NodeLease WITH
             holder <- IF LockFree THEN NoNode ELSE lockNode,
             inside <- {n \in Nodes : pc[n] \in Working},
             overdue <- {n \in Nodes : expired[n]}

\* The annotation with its time-to-live, the loop's order of acquire, work and
\* release, the test at start-up, lost replies and late releases (lock.go:26-57,
\* main.go:180, 250-280) together give the lease that NodeLease describes: a node
\* starts to work only under its own running lease and returns it only outside.
ImplementsLease == Lease!Spec

-------------------------------------------------------------------------------
(* Liveness, under FairSpec.                                               *)

\* A certificate kubeadm can renew is renewed after it becomes due, although
\* nodes contend for the lock, commands fail, processes die and leases
\* outlive them (main.go:246-249: "wait pollingPeriod time and try again").
DueCertRenewed ==
    \A n \in ControlPlane, cert \in Renewable :
        cert \in dueCerts[n] ~> cert \notin dueCerts[n]

\* A configuration file in kubeadm's form is brought in line with the flags
\* after it drifts (main.go:256-264).
StaleConfigUpdated ==
    \A n \in Nodes, file \in Configs \ Irregular :
        file \in staleConfigs[n] ~> file \notin staleConfigs[n]

-------------------------------------------------------------------------------
(* Statements of the repository that the code does not keep.               *)

\* README.md: the lock annotation is the "annotation in which to record
\* locking node": the node that updates files and renews certificates is the
\* node the annotation records.
LockRecordsRotatingNode ==
    \A n \in Nodes : pc[n] \in {"update", "rotate"} => lockNode = n

\* main.go:168-172: nodeMeta "is used to remember information across nodes
\* whom is doing certificate rotation", namely Unschedulable: a node that an
\* operator had cordoned before kucero acquired the lock stays cordoned through
\* the rotation and after it, until the operator uncordons it.
OperatorCordonKept == \A n \in Nodes : operatorCordon[n] => unschedulable[n]

\* kubeadm.go:68: Rotate "executes the steps to rotates the certificate
\* including backing up certificate, rotates certificate, and restart
\* kubelet": a kubelet left on old files is restarted in the end.
KubeletRestartedInTheEnd ==
    \A n \in Nodes : kubeletStale[n] ~> ~kubeletStale[n]
===============================================================================
