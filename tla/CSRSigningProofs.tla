--------------------------- MODULE CSRSigningProofs ---------------------------
(***************************************************************************)
(* TLAPS proofs of the safety properties of CSRSigning, for any requests,  *)
(* any number of managers and any bounds.                                  *)
(***************************************************************************)
EXTENDS CSRSigning, TLAPS

-------------------------------------------------------------------------------
(* Type correctness.                                                       *)

Busy == \A m \in Managers : step[m] = "idle" <=> req[m] = NoRequest

\* The cluster without requests and leaders is well typed.
LEMMA InitType == Init => TypeOK
<1> SUFFICES ASSUME Init PROVE TypeOK
  OBVIOUS
<1>1. ServerTypeOK
  BY DEF Init, ServerTypeOK, Absent, Object, Phases, Signers, Conditions
<1>2. ManagerTypeOK
  BY DEF Init, ManagerTypeOK, Step, Absent, Object, Phases, Signers, Conditions
<1>3. BudgetOK
  BY CSRBoundsAssumption DEF Init, BudgetOK
<1>4. Busy
  BY DEF Init, Busy
<1>5. QED
  BY <1>1, <1>2, <1>3, <1>4 DEF TypeOK, Busy

\* The server's objects keep their type when one field of one of them changes.
LEMMA FieldUpdate ==
  ASSUME NEW f \in [Requests -> Object], NEW r \in Requests
  PROVE  /\ \A phase \in Phases : [f EXCEPT ![r].phase = phase] \in [Requests -> Object]
         /\ \A cert \in Signers : [f EXCEPT ![r].cert = cert] \in [Requests -> Object]
         /\ \A cond \in Conditions : [f EXCEPT ![r].condition = cond] \in [Requests -> Object]
  BY DEF Object

\* Every call of Reconcile's (controller.go:74-139) keeps the types.
LEMMA ReconcileType ==
  ASSUME NEW m \in Managers, TypeOK, Reconcile(m)
  PROVE  TypeOK'
<1> USE DEF TypeOK, ServerTypeOK, ManagerTypeOK
<1>1. step[m] # "idle" /\ req[m] \in Requests
  BY DEF Reconcile, Authorize, SignAndPatch, UpdateApproval
<1>2. ASSUME Return(m)
      PROVE  /\ step' \in [Managers -> Step] /\ copy' \in [Managers -> Object]
             /\ req' \in [Managers -> Requests \cup {NoRequest}]
             /\ Busy'
  BY <1>2 DEF Return, Busy, Step, Absent, Object, Phases, Signers, Conditions
<1>3. ASSUME Fail(m) PROVE queue' \in [Managers -> SUBSET Requests]
  BY <1>1, <1>3 DEF Fail
<1>4. ASSUME NEW s \in Step \ {"idle"}, Goto(m, s)
      PROVE  /\ step' \in [Managers -> Step]
             /\ req' \in [Managers -> Requests \cup {NoRequest}]
             /\ Busy'
  BY <1>1, <1>4, NamesAssumption DEF Goto, Busy
<1>5. csr' \in [Requests -> Object]
  <2>1. ASSUME PatchCertificate(req[m]) PROVE csr' \in [Requests -> Object]
    BY <1>1, <2>1, FieldUpdate DEF PatchCertificate, Signers
  <2>2. ASSUME UpdateApprovalAccepted(req[m], copy[m]) PROVE csr' \in [Requests -> Object]
    BY <1>1, <2>2, FieldUpdate DEF UpdateApprovalAccepted, appendApprovalCondition, Conditions
  <2>3. \/ UNCHANGED csr \/ PatchCertificate(req[m]) \/ UpdateApprovalAccepted(req[m], copy[m])
    BY Zenon DEF Reconcile, Authorize, SignAndPatch, UpdateApproval
  <2>4. QED
    BY <2>1, <2>2, <2>3
<1>6. UNCHANGED <<cache, leading, lease, stops, lapses, adminMoves>>
  BY DEF Reconcile, Authorize, SignAndPatch, UpdateApproval
<1>7. BudgetOK'
  <2>1. UNCHANGED faults \/ Fault
    BY Zenon DEF Reconcile, Authorize, SignAndPatch, UpdateApproval
  <2>2. QED
    BY <1>6, <2>1, CSRBoundsAssumption DEF BudgetOK, Fault
<1>8. ManagerTypeOK' /\ Busy'
  <2>1. CASE Authorize(m)
    <3>1. CASE Goto(m, "sign") /\ UNCHANGED <<queue, copy, faults>>
      BY <1>4, <1>6, <3>1 DEF Step
    <3>2. CASE Fail(m)
      BY <1>2, <1>3, <1>6, <3>2 DEF Fail
    <3>3. QED
      BY <2>1, <3>1, <3>2 DEF Authorize
  <2>2. CASE SignAndPatch(m)
    <3>1. CASE /\ copy' = [copy EXCEPT ![m] = csr'[req[m]]]
               /\ Goto(m, "approve")
               /\ UNCHANGED <<queue, faults>>
      BY <1>1, <1>4, <1>5, <1>6, <3>1 DEF Step
    <3>2. CASE Fail(m)
      BY <1>2, <1>3, <1>6, <3>2 DEF Fail
    <3>3. QED
      BY <2>2, <3>1, <3>2 DEF SignAndPatch
  <2>3. CASE UpdateApproval(m)
    <3>1. CASE Done(m)
      BY <1>2, <1>6, <3>1 DEF Done
    <3>2. CASE Fail(m)
      BY <1>2, <1>3, <1>6, <3>2 DEF Fail
    <3>3. QED
      BY <2>3, <3>1, <3>2 DEF UpdateApproval
  <2>4. QED
    BY <2>1, <2>2, <2>3 DEF Reconcile
<1>9. QED
  BY <1>5, <1>6, <1>7, <1>8 DEF Busy

\* Informer, work queue, leader election and death keep the types.
LEMMA ManagerType ==
  ASSUME NEW m \in Managers, TypeOK, Manager(m)
  PROVE  TypeOK'
<1> USE DEF TypeOK
<1>1. ASSUME NEW r \in Requests, Get(m, r) PROVE TypeOK'
  <2>1. ServerTypeOK' /\ BudgetOK'
    BY <1>1, CSRBoundsAssumption DEF Get, Fault, ServerTypeOK, BudgetOK
  <2>2. ManagerTypeOK' /\ Busy'
    <3>1. CASE ToBeSigned(r, cache[m][r]) /\ ~UNCHANGED workVars
      <4>1. queue' \in [Managers -> SUBSET Requests] /\ UNCHANGED <<leading, lease>>
        BY <1>1 DEF Get, ManagerTypeOK
      <4>2. copy' \in [Managers -> Object]
        BY <1>1, <3>1 DEF Get, ManagerTypeOK, ServerTypeOK
      <4>3. /\ step' \in [Managers -> Step]
            /\ req' \in [Managers -> Requests \cup {NoRequest}]
            /\ Busy'
        BY <1>1, <3>1, NamesAssumption DEF Get, ManagerTypeOK, Busy, Step
      <4>4. QED
        BY <4>1, <4>2, <4>3 DEF ManagerTypeOK
    <3>2. CASE UNCHANGED workVars
      BY <1>1, <3>2 DEF Get, ManagerTypeOK, ServerTypeOK, Busy, workVars
    <3>3. QED
      BY <1>1, <3>1, <3>2 DEF Get
  <2>3. QED
    BY <2>1, <2>2 DEF Busy
<1>2. ASSUME NEW r \in Requests, Observe(m, r) PROVE TypeOK'
  <2>1. ServerTypeOK'
    BY <1>2 DEF Observe, ServerTypeOK
  <2>2. ManagerTypeOK' /\ BudgetOK' /\ Busy'
    BY <1>2 DEF Observe, ManagerTypeOK, BudgetOK, Busy, budget, workVars
  <2>3. QED
    BY <2>1, <2>2 DEF Busy
<1>3. CASE Elect(m)
  BY <1>3 DEF Elect, ServerTypeOK, ManagerTypeOK, BudgetOK, budget, workVars
<1>4. CASE LoseLease(m)
  <2>1. BudgetOK'
    BY <1>4, CSRBoundsAssumption DEF LoseLease, BudgetOK
  <2>2. QED
    BY <1>4, <2>1 DEF LoseLease, ServerTypeOK, ManagerTypeOK, workVars
<1>5. CASE StepDown(m) \/ Crash(m)
  <2>1. BudgetOK'
    BY <1>5, CSRBoundsAssumption DEF StepDown, Crash, BudgetOK, budget
  <2>2. Die(m)
    BY <1>5 DEF StepDown, Crash
  <2>3. ServerTypeOK' /\ ManagerTypeOK' /\ Busy'
    BY <2>2
    DEF Die, Return, ServerTypeOK, ManagerTypeOK, Busy, Step, Absent, Object, Phases, Signers,
        Conditions
  <2>4. QED
    BY <2>1, <2>3 DEF Busy
<1>6. QED
  BY <1>1, <1>2, <1>3, <1>4, <1>5, ReconcileType DEF Manager

\* The kubelets, administrators and the kube-controller-manager keep the types.
LEMMA ClusterType ==
  ASSUME NEW r \in Requests, TypeOK, Cluster(r)
  PROVE  TypeOK'
<1> USE DEF TypeOK
<1>1. ServerTypeOK'
  <2>1. csr \in [Requests -> Object] /\ UNCHANGED cache
    BY DEF ServerTypeOK, Cluster, Submit, Delete, KcmSign, Administer
  <2>2. CASE Submit(r)
    BY <2>1, <2>2, FieldUpdate DEF Submit, ServerTypeOK, Phases
  <2>3. CASE Delete(r)
    <3>1. PICK phase \in {"deleting", "gone"} : csr' = [csr EXCEPT ![r].phase = phase]
      BY <2>3 DEF Delete
    <3>2. phase \in Phases
      BY DEF Phases
    <3>3. QED
      BY <2>1, <3>1, <3>2, FieldUpdate DEF ServerTypeOK
  <2>4. CASE KcmSign(r)
    BY <2>1, <2>4, FieldUpdate DEF KcmSign, ServerTypeOK, Signers
  <2>5. ASSUME NEW verdict \in {"manual", "denied"}, Administer(r, verdict)
        PROVE  ServerTypeOK'
    BY <2>1, <2>5, FieldUpdate DEF Administer, ServerTypeOK, Conditions
  <2>6. QED
    BY <2>2, <2>3, <2>4, <2>5 DEF Cluster
<1>2. ManagerTypeOK' /\ Busy'
  BY DEF Cluster, Submit, Delete, KcmSign, Administer, ManagerTypeOK, Busy, leaderVars, workVars
<1>3. BudgetOK'
  BY CSRBoundsAssumption DEF Cluster, Submit, Delete, KcmSign, Administer, BudgetOK, budget
<1>4. QED
  BY <1>1, <1>2, <1>3 DEF Busy

\* Every step keeps the types.
LEMMA CSRTypeNext == TypeOK /\ [Next]_vars => TypeOK'
<1>1. CASE TypeOK /\ UNCHANGED vars
  BY <1>1
  DEF TypeOK, ServerTypeOK, ManagerTypeOK, BudgetOK, vars, leaderVars, workVars, budget
<1>2. QED
  BY <1>1, ManagerType, ClusterType DEF Next

\* Queues, caches, copies and the server's objects keep their types.
THEOREM CSRTypeCorrect == Spec => []TypeOK
  BY InitType, CSRTypeNext, PTL DEF Spec

-------------------------------------------------------------------------------
(* What is signed and what is approved. The properties speak of the        *)
(* server's objects, but what Reconcile does depends on what it found out  *)
(* at earlier steps: WorkInv records that, CertInv what follows for the    *)
(* objects.                                                                *)

Recognised(r) == Content[r].wellFormed /\ IsNodeServingCert(r)

WorkInv ==
    \A m \in Managers :
        /\ step[m] \in {"authorize", "sign"} => Recognised(req[m])
        /\ step[m] = "sign" => req[m] \in Permitted
        /\ step[m] = "approve" => copy[m].cert = "kucero"

CertInv ==
    \A r \in Requests :
        /\ csr[r].cert = "kucero" => r \in Permitted /\ Recognised(r)
        /\ csr[r].cert = "kcm" => csr[r].condition = "manual"
        /\ csr[r].condition = "auto" => csr[r].cert = "kucero"
        /\ csr[r].phase = "absent" => csr[r].cert = "none" /\ csr[r].condition = "none"

\* What a change of one field of one object leaves as it was.
LEMMA FieldEffect ==
  ASSUME NEW f \in [Requests -> Object], NEW r \in Requests, NEW v
  PROVE  /\ [f EXCEPT ![r].cert = v][r].cert = v
         /\ [f EXCEPT ![r].cert = v][r].phase = f[r].phase
         /\ [f EXCEPT ![r].cert = v][r].condition = f[r].condition
         /\ [f EXCEPT ![r].condition = v][r].condition = v
         /\ [f EXCEPT ![r].condition = v][r].phase = f[r].phase
         /\ [f EXCEPT ![r].condition = v][r].cert = f[r].cert
         /\ [f EXCEPT ![r].phase = v][r].phase = v
         /\ [f EXCEPT ![r].phase = v][r].cert = f[r].cert
         /\ [f EXCEPT ![r].phase = v][r].condition = f[r].condition
         /\ \A q \in Requests \ {r} :
               /\ [f EXCEPT ![r].cert = v][q] = f[q]
               /\ [f EXCEPT ![r].condition = v][q] = f[q]
               /\ [f EXCEPT ![r].phase = v][q] = f[q]
  BY DEF Object

\* Reconcile's later calls act on what its earlier calls found.
LEMMA WorkStep ==
  ASSUME TypeOK, WorkInv, [Next]_vars
  PROVE  WorkInv'
<1> USE DEF TypeOK, ManagerTypeOK, WorkInv
<1>1. ASSUME UNCHANGED workVars PROVE WorkInv'
  BY <1>1 DEF workVars
<1>2. ASSUME NEW m \in Managers, Return(m) PROVE WorkInv'
  BY <1>2 DEF Return
<1>3. ASSUME NEW m \in Managers, NEW r \in Requests, Get(m, r) PROVE WorkInv'
  <2>1. CASE ToBeSigned(r, cache[m][r]) /\ ~UNCHANGED workVars
    <3>1. Recognised(r)
      BY <2>1 DEF ToBeSigned, Recognised
    <3>2. QED
      BY <1>3, <2>1, <3>1 DEF Get
  <2>2. QED
    BY <1>1, <1>3, <2>1 DEF Get
<1>4. ASSUME NEW m \in Managers, Authorize(m) PROVE WorkInv'
  <2>1. CASE req[m] \in Permitted /\ Goto(m, "sign") /\ UNCHANGED copy
    BY <1>4, <2>1 DEF Authorize, Goto
  <2>2. QED
    BY <1>2, <1>4, <2>1 DEF Authorize, Allowed, Fail
<1>5. ASSUME NEW m \in Managers, SignAndPatch(m) PROVE WorkInv'
  <2>1. CASE /\ PatchCertificate(req[m])
             /\ copy' = [copy EXCEPT ![m] = csr'[req[m]]]
             /\ Goto(m, "approve")
    <3>1. req[m] \in Requests
      BY <1>5 DEF SignAndPatch
    <3>2. csr'[req[m]].cert = "kucero"
      BY <2>1, <3>1, FieldEffect DEF PatchCertificate, ServerTypeOK
    <3>3. QED
      BY <2>1, <3>2 DEF Goto
  <2>2. QED
    BY <1>2, <1>5, <2>1 DEF SignAndPatch, Fail
<1>6. ASSUME NEW m \in Managers, UpdateApproval(m) PROVE WorkInv'
  BY <1>2, <1>6 DEF UpdateApproval, Done, Fail
<1>7. ASSUME NEW m \in Managers, Manager(m) PROVE WorkInv'
  <2>1. ASSUME NEW r \in Requests, Observe(m, r) PROVE UNCHANGED workVars
    BY <2>1 DEF Observe
  <2>2. ASSUME Elect(m) \/ LoseLease(m) PROVE UNCHANGED workVars
    BY <2>2 DEF Elect, LoseLease
  <2>3. ASSUME StepDown(m) \/ Crash(m) PROVE Return(m)
    BY <2>3 DEF StepDown, Crash, Die
  <2>4. QED
    BY <1>1, <1>2, <1>3, <1>4, <1>5, <1>6, <1>7, <2>1, <2>2, <2>3 DEF Manager, Reconcile
<1>8. ASSUME NEW r \in Requests, Cluster(r) PROVE UNCHANGED workVars
  BY <1>8 DEF Cluster, Submit, Delete, KcmSign, Administer
<1>9. QED
  BY <1>1, <1>7, <1>8 DEF Next, vars

\* The steps that change an object on the server.
LEMMA ServerSteps ==
  ASSUME [Next]_vars
  PROVE  \/ UNCHANGED csr
         \/ \E m \in Managers : step[m] = "sign" /\ PatchCertificate(req[m])
         \/ \E m \in Managers : step[m] = "approve" /\ UpdateApprovalAccepted(req[m], copy[m])
         \/ \E r \in Requests : Cluster(r)
<1>1. ASSUME NEW m \in Managers, Manager(m)
      PROVE  \/ UNCHANGED csr
             \/ step[m] = "sign" /\ PatchCertificate(req[m])
             \/ step[m] = "approve" /\ UpdateApprovalAccepted(req[m], copy[m])
  BY <1>1, Zenon
  DEF Manager, Get, Observe, Reconcile, Authorize, SignAndPatch, UpdateApproval, Elect,
      LoseLease, StepDown, Crash, Die
<1>2. QED
  BY <1>1 DEF Next, vars

\* A certificate of kucero's goes to a recognised and permitted request, and
\* an approval of kucero's to one that has such a certificate.
LEMMA CertStep ==
  ASSUME TypeOK, WorkInv, CertInv, [Next]_vars
  PROVE  CertInv'
<1> csr \in [Requests -> Object]
  BY DEF TypeOK, ServerTypeOK
<1>1. CASE UNCHANGED csr
  BY <1>1 DEF CertInv
<1>2. ASSUME NEW m \in Managers, step[m] = "sign", PatchCertificate(req[m]) PROVE CertInv'
  <2>1. req[m] \in Requests
    BY <1>2 DEF TypeOK, ManagerTypeOK
  <2>2. req[m] \in Permitted /\ Recognised(req[m])
    BY <1>2 DEF WorkInv
  <2>3. QED
    BY <1>2, <2>1, <2>2, FieldEffect DEF PatchCertificate, CertInv
<1>3. ASSUME NEW m \in Managers, step[m] = "approve", UpdateApprovalAccepted(req[m], copy[m])
      PROVE  CertInv'
  <2>1. req[m] \in Requests
    BY <1>3 DEF TypeOK, ManagerTypeOK
  <2>2. csr[req[m]].cert = "kucero"
    BY <1>3 DEF WorkInv, UpdateApprovalAccepted, appendApprovalCondition
  <2>3. QED
    BY <1>3, <2>1, <2>2, FieldEffect DEF UpdateApprovalAccepted, appendApprovalCondition, CertInv
<1>4. ASSUME NEW r \in Requests, Cluster(r) PROVE CertInv'
  <2>1. CASE Submit(r)
    BY <2>1, FieldEffect DEF Submit, CertInv
  <2>2. CASE Delete(r)
    <3>1. PICK phase \in {"deleting", "gone"} : csr' = [csr EXCEPT ![r].phase = phase]
      BY <2>2 DEF Delete
    <3>2. QED
      BY <3>1, FieldEffect DEF CertInv
  <2>3. CASE KcmSign(r)
    BY <2>3, FieldEffect DEF KcmSign, CertInv
  <2>4. ASSUME NEW verdict \in {"manual", "denied"}, Administer(r, verdict) PROVE CertInv'
    BY <2>4, FieldEffect DEF Administer, CertInv
  <2>5. QED
    BY <1>4, <2>1, <2>2, <2>3, <2>4 DEF Cluster
<1>5. QED
  BY <1>1, <1>2, <1>3, <1>4, ServerSteps

\* Both invariants hold in every reachable state.
LEMMA SigningInvariant == Spec => [](WorkInv /\ CertInv)
<1>1. Init => WorkInv /\ CertInv
  BY DEF Init, WorkInv, CertInv, Absent
<1>2. QED
  BY <1>1, WorkStep, CertStep, CSRTypeCorrect, PTL DEF Spec

\* The kube-controller-manager signs only what a person approved, and what
\* kucero approved carries kucero's certificate (controller.go:113-130).
THEOREM SignBeforeApprove == Spec => []KcmOnlyAfterManual
<1>1. CertInv => KcmOnlyAfterManual
  BY DEF CertInv, KcmOnlyAfterManual
<1>2. QED
  BY <1>1, SigningInvariant, PTL

\* Three usages are wanted (helper.go:48-52).
LEMMA ThreeUsages ==
  /\ Len(KubeletServerUsages) = 3
  /\ DOMAIN KubeletServerUsages = {1, 2, 3}
<1>1. Len(KubeletServerUsages) = 3
  BY DEF KubeletServerUsages
<1>2. DOMAIN KubeletServerUsages = 1..3
  BY DEF KubeletServerUsages
<1>3. QED
  BY <1>1, <1>2

\* Three different usages that are all among the three wanted ones are the
\* three wanted ones: comparing lengths and membership (helper.go:29-46)
\* compares the sets.
LEMMA ExactUsages ==
  ASSUME NEW u \in Seq(STRING),
         \A i, j \in DOMAIN u : u[i] = u[j] => i = j,
         HasExactUsages(u, KubeletServerUsages)
  PROVE  {u[i] : i \in DOMAIN u} = {KubeletServerUsages[i] : i \in DOMAIN KubeletServerUsages}
<1> DEFINE a == "key encipherment"
           b == "digital signature"
           c == "server auth"
<1>1. Len(KubeletServerUsages) = 3 /\ DOMAIN KubeletServerUsages = {1, 2, 3}
  BY ThreeUsages
<1>2. KubeletServerUsages[1] = a /\ KubeletServerUsages[2] = b /\ KubeletServerUsages[3] = c
  BY DEF KubeletServerUsages
<1>3. Len(u) = 3
  BY <1>1 DEF HasExactUsages
<1>4. DOMAIN u = {1, 2, 3}
  BY <1>3
<1>5. u[1] \in {a, b, c} /\ u[2] \in {a, b, c} /\ u[3] \in {a, b, c}
  <2>1. \A i \in {1, 2, 3} : \E j \in {1, 2, 3} : u[i] = KubeletServerUsages[j]
    BY <1>1, <1>4 DEF HasExactUsages
  <2>2. QED
    BY <1>2, <2>1
<1>6. u[1] # u[2] /\ u[1] # u[3] /\ u[2] # u[3]
  BY <1>4
<1>7. {u[1], u[2], u[3]} = {a, b, c}
  BY <1>5, <1>6
<1>8. {u[i] : i \in DOMAIN u} = {u[1], u[2], u[3]}
  BY <1>4
<1>9. {KubeletServerUsages[i] : i \in DOMAIN KubeletServerUsages} = {a, b, c}
  BY <1>1, <1>2
<1>10. QED
  BY <1>7, <1>8, <1>9

\* Only permitted requests of nodes, in their own name and for exactly the
\* serving usages, get a certificate of kucero's (helper.go:54-75).
THEOREM OnlyServingCerts == Spec => []ServingCertsOnly
<1>1. CertInv => ServingCertsOnly
  <2> SUFFICES ASSUME CertInv, NEW r \in Requests, csr[r].cert = "kucero"
               PROVE  /\ r \in Permitted
                      /\ Content[r].username \in NodeUsers
                      /\ Content[r].username = Content[r].commonName
                      /\ {Content[r].usages[i] : i \in DOMAIN Content[r].usages} =
                             {KubeletServerUsages[i] : i \in DOMAIN KubeletServerUsages}
    BY DEF ServingCertsOnly
  <2>1. r \in Permitted /\ IsNodeServingCert(r)
    BY DEF CertInv, Recognised
  <2>2. Content[r].usages \in Seq(STRING)
    BY ContentAssumption DEF CSR
  <2>3. QED
    BY <2>1, <2>2, UsagesAssumption, ExactUsages DEF IsNodeServingCert
<1>2. QED
  BY <1>1, SigningInvariant, PTL

-------------------------------------------------------------------------------
(* No request is forgotten. The property speaks of a cache that shows what *)
(* the server has, but Reconcile also returns while the cache lags: HeldInv*)
(* asks only that both versions wait for a certificate.                    *)

InHand(m, r) == r \in queue[m] \/ (step[m] # "idle" /\ req[m] = r)

HeldInv ==
    /\ \A m \in Managers, r \in Requests :
          csr[r].phase = "absent" => cache[m][r].phase = "absent"
    /\ \A m \in leading, r \in Requests :
          ToBeSigned(r, csr[r]) /\ ToBeSigned(r, cache[m][r]) => InHand(m, r)

\* An object that waits for its certificate waited before the step, unless it
\* has just been created; no object returns to the time before its creation.
LEMMA WaitsNoNewer ==
  ASSUME TypeOK, [Next]_vars, NEW q \in Requests
  PROVE  /\ csr'[q].phase = "absent" => csr[q].phase = "absent"
         /\ ToBeSigned(q, csr'[q]) => ToBeSigned(q, csr[q]) \/ csr[q].phase = "absent"
<1> csr \in [Requests -> Object]
  BY DEF TypeOK, ServerTypeOK
<1> USE DEF ToBeSigned
<1>1. CASE UNCHANGED csr
  BY <1>1
<1>2. ASSUME NEW m \in Managers, step[m] = "sign", PatchCertificate(req[m])
      PROVE  /\ csr'[q].phase = "absent" => csr[q].phase = "absent"
             /\ ToBeSigned(q, csr'[q]) => ToBeSigned(q, csr[q])
  <2>1. req[m] \in Requests
    BY <1>2 DEF TypeOK, ManagerTypeOK
  <2>2. QED
    BY <1>2, <2>1, FieldEffect DEF PatchCertificate
<1>3. ASSUME NEW m \in Managers, step[m] = "approve", UpdateApprovalAccepted(req[m], copy[m])
      PROVE  /\ csr'[q].phase = "absent" => csr[q].phase = "absent"
             /\ ToBeSigned(q, csr'[q]) => ToBeSigned(q, csr[q])
  <2>1. req[m] \in Requests
    BY <1>3 DEF TypeOK, ManagerTypeOK
  <2>2. QED
    BY <1>3, <2>1, FieldEffect DEF UpdateApprovalAccepted, appendApprovalCondition
<1>4. ASSUME NEW r \in Requests, Cluster(r)
      PROVE  /\ csr'[q].phase = "absent" => csr[q].phase = "absent"
             /\ ToBeSigned(q, csr'[q]) => ToBeSigned(q, csr[q]) \/ csr[q].phase = "absent"
  <2>1. CASE Submit(r)
    BY <2>1, FieldEffect DEF Submit
  <2>2. CASE Delete(r)
    <3>1. PICK phase \in {"deleting", "gone"} : csr' = [csr EXCEPT ![r].phase = phase]
      BY <2>2 DEF Delete
    <3>2. QED
      BY <3>1, FieldEffect
  <2>3. CASE KcmSign(r)
    BY <2>3, FieldEffect DEF KcmSign
  <2>4. ASSUME NEW verdict \in {"manual", "denied"}, Administer(r, verdict)
        PROVE  /\ csr'[q].phase = "absent" => csr[q].phase = "absent"
               /\ ToBeSigned(q, csr'[q]) => ToBeSigned(q, csr[q])
    BY <2>4, FieldEffect DEF Administer
  <2>5. QED
    BY <1>4, <2>1, <2>2, <2>3, <2>4 DEF Cluster
<1>5. QED
  BY <1>1, <1>2, <1>3, <1>4, ServerSteps

\* The cache shows the server's past: it has no object before the server has.
LEMMA CacheBehind ==
  ASSUME TypeOK, HeldInv, [Next]_vars, NEW m \in Managers, NEW r \in Requests,
         csr'[r].phase = "absent"
  PROVE  cache'[m][r].phase = "absent"
<1>1. csr[r].phase = "absent" /\ cache[m][r].phase = "absent"
  BY WaitsNoNewer DEF HeldInv
<1>2. UNCHANGED cache \/ \E n \in Managers, q \in Requests : Observe(n, q)
  BY Zenon
  DEF Next, vars, Manager, Cluster, Get, Reconcile, Authorize, SignAndPatch, UpdateApproval,
      Elect, LoseLease, StepDown, Crash, Die, Submit, Delete, KcmSign, Administer
<1>3. QED
  BY <1>1, <1>2 DEF Observe, TypeOK, ServerTypeOK

\* A manager keeps what it has in hand, unless it stops leading or the request
\* needs no certificate any more (controller.go:76-138).
LEMMA HandStep ==
  ASSUME TypeOK, WorkInv, HeldInv, [Next]_vars, NEW m \in leading', NEW r \in Requests,
         ToBeSigned(r, csr'[r]), ToBeSigned(r, cache'[m][r])
  PROVE  InHand(m, r)'
<1> USE DEF TypeOK, ManagerTypeOK, ServerTypeOK
<1> DEFINE Before == m \in leading /\ ToBeSigned(r, cache[m][r])
<1>1. m \in Managers
  BY CSRTypeNext
<1>2. ASSUME Before PROVE InHand(m, r)
  <2>1. csr[r].phase # "absent"
    BY <1>1, <1>2 DEF HeldInv, ToBeSigned
  <2>2. QED
    BY <1>2, <2>1, WaitsNoNewer DEF HeldInv
<1>3. ASSUME UNCHANGED <<cache, leaderVars, workVars>> PROVE InHand(m, r)'
  BY <1>2, <1>3 DEF leaderVars, workVars, InHand
<1>4. ASSUME NEW n \in Managers, NEW q \in Requests, Get(n, q) PROVE InHand(m, r)'
  <2>1. InHand(m, r)
    BY <1>2, <1>4 DEF Get
  <2>2. CASE n # m
    BY <1>1, <1>4, <2>1, <2>2 DEF Get, InHand, workVars
  <2>3. CASE n = m /\ q # r
    BY <1>1, <1>4, <2>1, <2>3 DEF Get, InHand, workVars
  <2>4. CASE n = m /\ q = r
    BY <1>1, <1>4, <2>1, <2>4 DEF Get, InHand, workVars
  <2>5. QED
    BY <2>2, <2>3, <2>4
<1>5. ASSUME NEW n \in Managers, NEW q \in Requests, Observe(n, q) PROVE InHand(m, r)'
  <2>1. CASE n = m /\ q = r
    BY <1>1, <1>5, <2>1 DEF Observe, InHand
  <2>2. CASE n # m \/ q # r
    <3>1. InHand(m, r)
      BY <1>1, <1>2, <1>5, <2>2 DEF Observe
    <3>2. QED
      BY <1>1, <1>5, <3>1 DEF Observe, InHand, workVars
  <2>3. QED
    BY <2>1, <2>2
<1>6. ASSUME NEW n \in Managers, Reconcile(n) PROVE InHand(m, r)'
  <2>1. InHand(m, r) /\ step[n] # "idle" /\ req[n] \in Requests
    BY <1>2, <1>6 DEF Reconcile, Authorize, SignAndPatch, UpdateApproval, leaderVars
  <2>2. ASSUME Fail(n) PROVE InHand(m, r)'
    BY <1>1, <2>1, <2>2 DEF Fail, Return, InHand
  <2>3. ASSUME NEW s \in Step \ {"idle"}, Goto(n, s), UNCHANGED queue PROVE InHand(m, r)'
    BY <1>1, <2>1, <2>3 DEF Goto, InHand
  <2>4. ASSUME step[n] = "approve", UpdateApprovalAccepted(req[n], copy[n]), Done(n)
        PROVE  InHand(m, r)'
    <3>1. csr[req[n]].cert = "kucero"
      BY <2>4 DEF WorkInv, UpdateApprovalAccepted, appendApprovalCondition
    <3>2. csr'[req[n]].cert = "kucero"
      BY <2>1, <2>4, <3>1, FieldEffect DEF UpdateApprovalAccepted, appendApprovalCondition
    <3>3. r # req[n]
      BY <3>2 DEF ToBeSigned
    <3>4. QED
      BY <1>1, <2>1, <2>4, <3>3 DEF Done, Return, InHand
  <2>5. QED
    BY <1>6, <2>2, <2>3, <2>4 DEF Reconcile, Authorize, SignAndPatch, UpdateApproval, Step
<1>7. ASSUME NEW n \in Managers, Elect(n) PROVE InHand(m, r)'
  <2>1. CASE n = m
    BY <1>1, <1>7, <2>1 DEF Elect, InHand, ToBeSigned
  <2>2. CASE n # m
    BY <1>1, <1>2, <1>7, <2>2 DEF Elect, InHand, workVars
  <2>3. QED
    BY <2>1, <2>2
<1>8. ASSUME NEW n \in Managers, Die(n) PROVE InHand(m, r)'
  <2>1. m # n /\ InHand(m, r)
    BY <1>2, <1>8 DEF Die
  <2>2. QED
    BY <1>1, <1>8, <2>1 DEF Die, Return, InHand
<1>9. ASSUME NEW n \in Managers, LoseLease(n) PROVE InHand(m, r)'
  BY <1>2, <1>9 DEF LoseLease, workVars, InHand
<1>10. ASSUME NEW q \in Requests, Cluster(q) PROVE UNCHANGED <<cache, leaderVars, workVars>>
  BY <1>10 DEF Cluster, Submit, Delete, KcmSign, Administer
<1>11. ASSUME NEW n \in Managers, Manager(n) PROVE InHand(m, r)'
  BY <1>4, <1>5, <1>6, <1>7, <1>8, <1>9, <1>11 DEF Manager, StepDown, Crash
<1>12. QED
  BY <1>3, <1>10, <1>11 DEF Next, vars

\* A waiting request that a leader has seen is queued there or being
\* reconciled (controller.go:74-139).
THEOREM NoRequestLost == Spec => []NothingForgotten
<1>1. Init => HeldInv
  BY DEF Init, HeldInv, Absent
<1>2. ASSUME TypeOK, WorkInv, HeldInv, [Next]_vars PROVE HeldInv'
  <2>1. \A m \in Managers, r \in Requests :
          csr'[r].phase = "absent" => cache'[m][r].phase = "absent"
    BY <1>2, CacheBehind
  <2>2. \A m \in leading', r \in Requests :
          ToBeSigned(r, csr'[r]) /\ ToBeSigned(r, cache'[m][r]) => InHand(m, r)'
    BY <1>2, HandStep
  <2>3. QED
    BY <2>1, <2>2 DEF HeldInv, ToBeSigned
<1>3. HeldInv => NothingForgotten
  BY DEF HeldInv, NothingForgotten, InHand
<1>4. QED
  BY <1>1, <1>2, <1>3, CSRTypeCorrect, SigningInvariant, PTL DEF Spec

-------------------------------------------------------------------------------
(* A certificate without a verdict is in the hands of the leader that      *)
(* signed. Without lapses there is one leader, the holder of the lease, so *)
(* nobody steps down between the signature and the approval.               *)

Calm == faults = 0 /\ stops = 0 /\ lapses = 0

Signed(object) == object.phase = "present" /\ object.cert = "kucero" /\ object.condition = "none"

Approving(m, r) == m \in leading /\ step[m] = "approve" /\ req[m] = r /\ copy[m] = csr[r]

CalmInv ==
    Calm => /\ \A m \in leading : lease = m
            /\ \A m \in Managers : step[m] # "idle" => m \in leading
            /\ \A r \in Requests : Signed(csr[r]) => \E m \in Managers : Approving(m, r)

\* A failed call, a death or a lapse stays on record.
LEMMA CalmBefore ==
  ASSUME TypeOK, [Next]_vars, Calm'
  PROVE  Calm /\ UNCHANGED <<faults, stops, lapses>>
<1>1. faults \in Nat /\ stops \in Nat /\ lapses \in Nat
  BY CSRBoundsAssumption DEF TypeOK, BudgetOK
<1>2. /\ UNCHANGED faults \/ faults' = faults + 1
      /\ UNCHANGED stops \/ stops' = stops + 1
      /\ UNCHANGED lapses \/ lapses' = lapses + 1
  <2>1. ASSUME NEW m \in Managers, Manager(m)
        PROVE  /\ UNCHANGED faults \/ faults' = faults + 1
               /\ UNCHANGED stops \/ stops' = stops + 1
               /\ UNCHANGED lapses \/ lapses' = lapses + 1
    BY <2>1, Zenon
    DEF Manager, Get, Observe, Reconcile, Authorize, SignAndPatch, UpdateApproval, Elect,
        LoseLease, StepDown, Crash, Fault, budget
  <2>2. ASSUME NEW r \in Requests, Cluster(r) PROVE UNCHANGED <<faults, stops, lapses>>
    BY <2>2 DEF Cluster, Submit, Delete, KcmSign, Administer, budget
  <2>3. QED
    BY <2>1, <2>2 DEF Next, vars, budget
<1>3. QED
  BY <1>1, <1>2 DEF Calm

\* Without lapses the leader is the holder of the lease, and only leaders
\* reconcile.
LEMMA OneLeader ==
  ASSUME TypeOK, CalmInv, Calm, [Next]_vars, Calm'
  PROVE  /\ \A m \in leading' : lease' = m
         /\ \A m \in Managers : step'[m] # "idle" => m \in leading'
<1> USE DEF TypeOK, ManagerTypeOK, CalmInv
<1> UNCHANGED <<faults, stops, lapses>> /\ stops \in Nat /\ lapses \in Nat
  BY CalmBefore, CSRBoundsAssumption DEF BudgetOK
<1>1. ASSUME UNCHANGED <<leading, lease, step>>
      PROVE  /\ \A m \in leading' : lease' = m
             /\ \A m \in Managers : step'[m] # "idle" => m \in leading'
  BY <1>1
<1>2. ASSUME NEW n \in Managers, Manager(n)
      PROVE  /\ \A m \in leading' : lease' = m
             /\ \A m \in Managers : step'[m] # "idle" => m \in leading'
  <2>1. ASSUME NEW r \in Requests, Get(n, r)
        PROVE  /\ UNCHANGED <<leading, lease>>
               /\ \A m \in Managers : step'[m] # "idle" => m \in leading'
    BY <2>1 DEF Get, workVars
  <2>2. ASSUME NEW r \in Requests, Observe(n, r) PROVE UNCHANGED <<leading, lease, step>>
    BY <2>2 DEF Observe, workVars
  <2>3. CASE Reconcile(n)
    <3>1. UNCHANGED <<leading, lease>> /\ step[n] # "idle"
      BY <2>3 DEF Reconcile, Authorize, SignAndPatch, UpdateApproval
    <3>2. \E s \in Step : step' = [step EXCEPT ![n] = s]
      BY <2>3
      DEF Reconcile, Authorize, SignAndPatch, UpdateApproval, Goto, Done, Fail, Return, Step
    <3>3. QED
      BY <3>1, <3>2
  <2>4. CASE Elect(n)
    <3>1. leading = {}
      BY <2>4, NamesAssumption DEF Elect
    <3>2. QED
      BY <2>4, <3>1 DEF Elect, workVars
  <2>5. CASE LoseLease(n)
    <3>1. n \notin leading
      BY <2>5 DEF LoseLease
    <3>2. leading = {}
      BY <2>5, <3>1 DEF LoseLease
    <3>3. QED
      BY <2>5, <3>2 DEF LoseLease, workVars
  <2>6. ~StepDown(n)
    BY DEF StepDown, Die
  <2>7. ~Crash(n)
    BY DEF Crash
  <2>8. QED
    BY <1>1, <1>2, <2>1, <2>2, <2>3, <2>4, <2>5, <2>6, <2>7 DEF Manager
<1>3. ASSUME NEW r \in Requests, Cluster(r) PROVE UNCHANGED <<leading, lease, step>>
  BY <1>3 DEF Cluster, Submit, Delete, KcmSign, Administer, leaderVars, workVars
<1>4. QED
  BY <1>1, <1>2, <1>3 DEF Next, vars, leaderVars, workVars

\* The leader that is about to approve a request keeps it, and the version it
\* signed, until it approves that version or the object changes.
LEMMA ApprovingStep ==
  ASSUME TypeOK, CalmInv, Calm, [Next]_vars, Calm', NEW m \in Managers, NEW r \in Requests,
         Approving(m, r), csr'[r] = csr[r], Signed(csr[r])
  PROVE  Approving(m, r)'
<1> USE DEF TypeOK, ManagerTypeOK, Approving
<1> UNCHANGED <<faults, stops, lapses>> /\ faults \in Nat /\ stops \in Nat /\ lapses \in Nat
  BY CalmBefore, CSRBoundsAssumption DEF BudgetOK
<1>1. ASSUME UNCHANGED workVars, leading \subseteq leading' PROVE Approving(m, r)'
  BY <1>1 DEF workVars
<1>2. ASSUME NEW n \in Managers, Manager(n) PROVE Approving(m, r)'
  <2>1. ASSUME NEW q \in Requests, Get(n, q) PROVE Approving(m, r)'
    BY <2>1 DEF Get, workVars
  <2>2. ASSUME NEW q \in Requests, Observe(n, q) PROVE Approving(m, r)'
    BY <1>1, <2>2 DEF Observe
  <2>3. CASE Reconcile(n)
    <3>1. UNCHANGED leading
      BY <2>3 DEF Reconcile, Authorize, SignAndPatch, UpdateApproval
    <3>2. n # m
      <4>1. SUFFICES ASSUME n = m PROVE FALSE
        OBVIOUS
      <4>2. UpdateApprovalAccepted(r, copy[m])
        <5>1. UpdateApproval(m) /\ ~Fault
          BY <2>3, <4>1 DEF Reconcile, Authorize, SignAndPatch, Fault
        <5>2. copy[m] = csr[r] /\ csr[r].condition = "none"
          BY DEF Signed
        <5>3. QED
          BY <5>1, <5>2 DEF UpdateApproval
      <4>3. csr'[r].condition = "auto"
        <5>1. csr \in [Requests -> Object]
          BY DEF ServerTypeOK
        <5>2. csr' = [csr EXCEPT ![r].condition = "auto"]
          BY <4>2 DEF UpdateApprovalAccepted, appendApprovalCondition
        <5>3. QED
          BY ONLY <5>1, <5>2, FieldEffect
      <4>4. QED
        BY <4>3 DEF Signed
    <3>3. step'[m] = step[m] /\ req'[m] = req[m] /\ copy'[m] = copy[m]
      BY <2>3, <3>2
      DEF Reconcile, Authorize, SignAndPatch, UpdateApproval, Goto, Done, Fail, Return
    <3>4. QED
      BY <3>1, <3>3
  <2>4. CASE Elect(n)
    BY <1>1, <2>4 DEF Elect
  <2>5. CASE LoseLease(n)
    BY <1>1, <2>5 DEF LoseLease
  <2>6. ~StepDown(n)
    BY DEF StepDown, Die, CalmInv
  <2>7. ~Crash(n)
    BY DEF Crash
  <2>8. QED
    BY <1>2, <2>1, <2>2, <2>3, <2>4, <2>5, <2>6, <2>7 DEF Manager
<1>3. ASSUME NEW q \in Requests, Cluster(q) PROVE UNCHANGED workVars /\ leading \subseteq leading'
  BY <1>3 DEF Cluster, Submit, Delete, KcmSign, Administer, leaderVars
<1>4. QED
  BY <1>1, <1>2, <1>3 DEF Next, vars, leaderVars

\* An object becomes signed only by the patch of a leader, which is then about
\* to approve it.
LEMMA BecomesSigned ==
  ASSUME TypeOK, CertInv, CalmInv, Calm, [Next]_vars, Calm', NEW r \in Requests,
         Signed(csr'[r]), csr'[r] # csr[r]
  PROVE  \E m \in Managers : Approving(m, r)'
<1> csr \in [Requests -> Object]
  BY DEF TypeOK, ServerTypeOK
<1> UNCHANGED <<faults, stops, lapses>> /\ faults \in Nat
  BY CalmBefore, CSRBoundsAssumption DEF TypeOK, BudgetOK
<1>1. ASSUME NEW m \in Managers, Manager(m) PROVE Approving(m, r)'
  <2>1. SignAndPatch(m) /\ PatchCertificate(req[m])
    <3>1. SignAndPatch(m) \/ UpdateApproval(m)
      BY <1>1, Zenon
      DEF Manager, Get, Observe, Reconcile, Authorize, Elect, LoseLease, StepDown, Crash, Die
    <3>2. ASSUME UpdateApproval(m), UpdateApprovalAccepted(req[m], copy[m]) PROVE FALSE
      <4>1. req[m] \in Requests
        BY <3>2 DEF UpdateApproval, TypeOK, ManagerTypeOK
      <4>2. req[m] = r => csr'[r].condition = "auto"
        BY <3>2, <4>1, FieldEffect DEF UpdateApprovalAccepted, appendApprovalCondition
      <4>3. req[m] # r => csr'[r] = csr[r]
        BY <3>2, <4>1, FieldEffect DEF UpdateApprovalAccepted, appendApprovalCondition
      <4>4. QED
        BY <4>2, <4>3 DEF Signed
    <3>3. QED
      BY <3>1, <3>2 DEF SignAndPatch, UpdateApproval
  <2>2. req[m] \in Requests /\ m \in leading
    BY <2>1 DEF SignAndPatch, TypeOK, ManagerTypeOK, CalmInv
  <2>3. req[m] = r
    BY <2>1, <2>2, FieldEffect DEF PatchCertificate
  <2>4. ~Fault
    BY DEF Fault
  <2>5. csr[r].cert = "none" /\ csr[r].phase \in {"present", "deleting"}
    BY <2>1, <2>3 DEF PatchCertificate
  <2>6. /\ copy' = [copy EXCEPT ![m] = csr'[req[m]]]
        /\ Goto(m, "approve")
        /\ UNCHANGED leading
    BY <2>1, <2>3, <2>4, <2>5 DEF SignAndPatch
  <2>7. QED
    BY <2>2, <2>3, <2>6 DEF Approving, Goto, TypeOK, ManagerTypeOK
<1>2. ASSUME NEW q \in Requests, Cluster(q) PROVE FALSE
  <2>1. CASE Submit(q)
    BY <2>1, FieldEffect DEF Submit, CertInv, Signed
  <2>2. CASE Delete(q)
    <3>1. PICK phase \in {"deleting", "gone"} : csr' = [csr EXCEPT ![q].phase = phase]
      BY <2>2 DEF Delete
    <3>2. QED
      BY <3>1, FieldEffect DEF Signed
  <2>3. CASE KcmSign(q)
    BY <2>3, FieldEffect DEF KcmSign, Signed
  <2>4. ASSUME NEW verdict \in {"manual", "denied"}, Administer(q, verdict) PROVE FALSE
    BY <2>4, FieldEffect DEF Administer, Signed
  <2>5. QED
    BY <1>2, <2>1, <2>2, <2>3, <2>4 DEF Cluster
<1>3. QED
  BY <1>1, <1>2 DEF Next, vars

\* Unless something failed, a certificate without a verdict is about to be
\* approved by the leader that signed it (controller.go:120-138).
THEOREM SignedThenHeld == Spec => []SignedInHand
<1>1. Init => CalmInv
  BY DEF Init, CalmInv, Signed, Absent
<1>2. ASSUME TypeOK, CertInv, CalmInv, [Next]_vars PROVE CalmInv'
  <2>1. SUFFICES ASSUME Calm'
                 PROVE  /\ \A m \in leading' : lease' = m
                        /\ \A m \in Managers : step'[m] # "idle" => m \in leading'
                        /\ \A r \in Requests : Signed(csr'[r]) => \E m \in Managers : Approving(m, r)'
    BY DEF CalmInv, Signed
  <2>2. Calm
    BY <1>2, <2>1, CalmBefore
  <2>3. ASSUME NEW r \in Requests, Signed(csr'[r]) PROVE \E m \in Managers : Approving(m, r)'
    <3>1. CASE csr'[r] = csr[r]
      <4>1. PICK m \in Managers : Approving(m, r)
        BY <1>2, <2>2, <2>3, <3>1 DEF CalmInv
      <4>2. QED
        BY <1>2, <2>1, <2>2, <2>3, <3>1, <4>1, ApprovingStep
    <3>2. QED
      BY <1>2, <2>1, <2>2, <2>3, <3>1, BecomesSigned
  <2>4. QED
    BY <1>2, <2>1, <2>2, <2>3, OneLeader
<1>3. CalmInv => SignedInHand
  BY DEF CalmInv, SignedInHand, Calm, Signed, Approving
<1>4. QED
  BY <1>1, <1>2, <1>3, CSRTypeCorrect, SigningInvariant, PTL DEF Spec

-------------------------------------------------------------------------------
(* Refinement: the server's objects live as CSRLifecycle says.             *)

LifeMap == [r \in Requests |-> LifeOf(csr[r])]

\* The lives of the objects, by phase, certificate and verdict.
LEMMA LifeTable ==
  ASSUME NEW o \in Object
  PROVE  /\ o.phase \in {"absent", "gone"} => LifeOf(o) = o.phase
         /\ o.phase \in {"present", "deleting"} =>
              /\ o.cert = "none" /\ o.condition = "none" => LifeOf(o) = "pending"
              /\ o.cert = "none" /\ o.condition = "manual" => LifeOf(o) = "approved"
              /\ o.cert = "none" /\ o.condition = "denied" => LifeOf(o) = "denied"
              /\ o.cert = "kucero" /\ o.condition = "none" => LifeOf(o) = "signed"
              /\ o.cert = "kucero" /\ o.condition \in {"auto", "manual"} => LifeOf(o) = "issued"
              /\ o.cert = "kucero" /\ o.condition = "denied" => LifeOf(o) = "void"
              /\ o.cert = "kcm" /\ o.condition = "manual" => LifeOf(o) = "foreign"
<1>1. CASE o.phase \in {"absent", "gone"}
  BY <1>1 DEF LifeOf
<1>2. ASSUME o.phase \in {"present", "deleting"}, o.cert = "none"
      PROVE  /\ o.condition = "none" => LifeOf(o) = "pending"
             /\ o.condition = "manual" => LifeOf(o) = "approved"
             /\ o.condition = "denied" => LifeOf(o) = "denied"
  BY <1>2 DEF LifeOf
<1>3. ASSUME o.phase \in {"present", "deleting"}, o.cert = "kucero"
      PROVE  /\ o.condition = "none" => LifeOf(o) = "signed"
             /\ o.condition = "auto" => LifeOf(o) = "issued"
             /\ o.condition = "manual" => LifeOf(o) = "issued"
             /\ o.condition = "denied" => LifeOf(o) = "void"
  BY <1>3 DEF LifeOf
<1>4. ASSUME o.phase \in {"present", "deleting"}, o.cert = "kcm", o.condition = "manual"
      PROVE  LifeOf(o) = "foreign"
  BY <1>4 DEF LifeOf
<1>5. QED
  BY <1>1, <1>2, <1>3, <1>4

\* Only the life of the object that changes changes.
LEMMA LifeChange ==
  ASSUME TypeOK, TypeOK', NEW r \in Requests, \A q \in Requests \ {r} : csr'[q] = csr[q]
  PROVE  /\ LifeMap' = [LifeMap EXCEPT ![r] = LifeOf(csr'[r])]
         /\ LifeMap[r] = LifeOf(csr[r])
         /\ csr[r] \in Object /\ csr'[r] \in Object
  BY DEF LifeMap, TypeOK, ServerTypeOK

\* A change of one object that takes its life from one state to another is a
\* move of CSRLifecycle's, one that keeps it is none.
LEMMA LifeStep ==
  ASSUME TypeOK, TypeOK', NEW r \in Requests, \A q \in Requests \ {r} : csr'[q] = csr[q]
  PROVE  /\ LifeOf(csr'[r]) = LifeOf(csr[r]) => LifeMap' = LifeMap
         /\ \A from, to : LifeOf(csr[r]) = from /\ LifeOf(csr'[r]) = to => Life!Move(r, from, to)
         /\ LifeOf(csr'[r]) = "gone" /\ LifeOf(csr[r]) # "absent" => Life!Delete(r)
<1>1. LifeMap' = [LifeMap EXCEPT ![r] = LifeOf(csr'[r])] /\ LifeMap[r] = LifeOf(csr[r])
  BY LifeChange
<1>2. LifeOf(csr'[r]) = LifeOf(csr[r]) => LifeMap' = LifeMap
  BY <1>1 DEF LifeMap
<1>3. QED
  BY <1>1, <1>2 DEF Life!Move, Life!Delete, LifeMap

\* Kucero's patch is Sign.
LEMMA SignIsSign ==
  ASSUME TypeOK, TypeOK', WorkInv, CertInv, NEW m \in Managers, step[m] = "sign",
         PatchCertificate(req[m])
  PROVE  req[m] \in Requests /\ Life!Sign(req[m])
<1> DEFINE r == req[m]
<1>1. r \in Requests /\ r \in Entitled
  BY DEF TypeOK, ManagerTypeOK, WorkInv, Entitled, Recognised
<1>2. csr \in [Requests -> Object] /\ csr[r] \in Object /\ csr'[r] \in Object
  BY <1>1 DEF TypeOK, ServerTypeOK
<1>3. /\ csr[r].phase \in {"present", "deleting"} /\ csr[r].cert = "none"
      /\ csr'[r].phase = csr[r].phase /\ csr'[r].condition = csr[r].condition
      /\ csr'[r].cert = "kucero"
      /\ \A q \in Requests \ {r} : csr'[q] = csr[q]
  BY <1>1, <1>2, FieldEffect DEF PatchCertificate
<1>4. csr[r].condition \in {"none", "manual", "denied"}
  BY <1>1, <1>2, <1>3 DEF CertInv, Object, Conditions
<1>5. QED
  BY <1>1, <1>2, <1>3, <1>4, LifeTable, LifeStep DEF Life!Sign

\* Kucero's approval is Approve: the copy that the server compares with carries
\* kucero's certificate, so the object does.
LEMMA ApprovalIsApprove ==
  ASSUME TypeOK, TypeOK', WorkInv, CertInv, NEW m \in Managers, step[m] = "approve",
         UpdateApprovalAccepted(req[m], copy[m])
  PROVE  req[m] \in Requests /\ (Life!Approve(req[m]) \/ LifeMap' = LifeMap)
<1> DEFINE r == req[m]
<1>1. r \in Requests
  BY DEF TypeOK, ManagerTypeOK
<1>2. csr \in [Requests -> Object] /\ csr[r] \in Object /\ csr'[r] \in Object
  BY <1>1 DEF TypeOK, ServerTypeOK
<1>3. /\ csr[r].cert = "kucero" /\ csr[r].condition = "none"
      /\ csr'[r].phase = csr[r].phase /\ csr'[r].cert = csr[r].cert
      /\ csr'[r].condition = "auto"
      /\ \A q \in Requests \ {r} : csr'[q] = csr[q]
  BY <1>1, <1>2, FieldEffect DEF UpdateApprovalAccepted, appendApprovalCondition, WorkInv
<1>4. csr[r].phase \in {"present", "deleting", "gone"}
  BY <1>1, <1>2, <1>3 DEF CertInv, Object, Phases
<1>5. QED
  BY <1>1, <1>2, <1>3, <1>4, LifeTable, LifeStep DEF Life!Approve

\* The rest of the cluster takes the steps of the same names, or marks an
\* object for deletion.
LEMMA ClusterIsLife ==
  ASSUME TypeOK, TypeOK', CertInv, NEW r \in Requests, Cluster(r)
  PROVE  \/ LifeMap' = LifeMap
         \/ Life!Submit(r) \/ Life!Approve(r) \/ Life!ApproveByHand(r) \/ Life!Deny(r)
         \/ Life!KcmSign(r) \/ Life!Delete(r)
<1>1. csr \in [Requests -> Object] /\ csr[r] \in Object /\ csr'[r] \in Object
  BY DEF TypeOK, ServerTypeOK
<1>2. CASE Submit(r)
  <2>1. /\ csr[r].phase = "absent" /\ csr'[r].phase = "present"
        /\ csr'[r].cert = csr[r].cert /\ csr'[r].condition = csr[r].condition
        /\ \A q \in Requests \ {r} : csr'[q] = csr[q]
    BY <1>1, <1>2, FieldEffect DEF Submit
  <2>2. csr[r].cert = "none" /\ csr[r].condition = "none"
    BY <2>1 DEF CertInv
  <2>3. QED
    BY <1>1, <2>1, <2>2, LifeTable, LifeStep DEF Life!Submit
<1>3. CASE Delete(r)
  <2>1. PICK phase \in {"deleting", "gone"} : csr' = [csr EXCEPT ![r].phase = phase]
    BY <1>3 DEF Delete
  <2>2. /\ csr[r].phase \in {"present", "deleting"} /\ csr'[r].phase = phase
        /\ csr'[r].cert = csr[r].cert /\ csr'[r].condition = csr[r].condition
        /\ \A q \in Requests \ {r} : csr'[q] = csr[q]
    <3>1. csr[r].phase \in {"present", "deleting"}
      BY <1>3 DEF Delete
    <3>2. QED
      BY ONLY <1>1, <2>1, <3>1, FieldEffect, r \in Requests
  <2>3. LifeOf(csr[r]) # "absent"
    BY <2>2 DEF LifeOf
  <2>4. phase = "deleting" => LifeOf(csr'[r]) = LifeOf(csr[r])
    BY <2>2 DEF LifeOf
  <2>5. phase = "gone" => LifeOf(csr'[r]) = "gone"
    BY <1>1, <2>2, LifeTable
  <2>6. QED
    BY <2>2, <2>3, <2>4, <2>5, LifeStep
<1>4. CASE KcmSign(r)
  <2>1. /\ csr[r].phase = "present" /\ csr'[r].phase = "present"
        /\ csr[r].cert = "none" /\ csr'[r].cert = "kcm"
        /\ csr[r].condition \in {"auto", "manual"} /\ csr'[r].condition = csr[r].condition
        /\ \A q \in Requests \ {r} : csr'[q] = csr[q]
    BY <1>1, <1>4, FieldEffect DEF KcmSign
  <2>2. csr[r].condition = "manual"
    BY <2>1 DEF CertInv
  <2>3. QED
    BY <1>1, <2>1, <2>2, LifeTable, LifeStep DEF Life!KcmSign
<1>5. ASSUME NEW verdict \in {"manual", "denied"}, Administer(r, verdict)
      PROVE  Life!Approve(r) \/ Life!ApproveByHand(r) \/ Life!Deny(r)
  <2>1. /\ csr[r].phase = "present" /\ csr'[r].phase = "present"
        /\ csr[r].condition = "none" /\ csr'[r].condition = verdict
        /\ csr'[r].cert = csr[r].cert
        /\ \A q \in Requests \ {r} : csr'[q] = csr[q]
    BY <1>1, <1>5, FieldEffect DEF Administer
  <2>2. csr[r].cert \in {"none", "kucero"}
    BY <1>1, <2>1 DEF CertInv, Object, Signers
  <2>3. QED
    BY <1>1, <2>1, <2>2, LifeTable, LifeStep DEF Life!Approve, Life!ApproveByHand, Life!Deny
<1>6. QED
  BY <1>2, <1>3, <1>4, <1>5 DEF Cluster

\* CSRSigning implements CSRLifecycle: whatever caches, queues, failing calls
\* and changes of leader do, every object goes through a request's life, with
\* one certificate and an approval of kucero's after it (controller.go:74-139).
THEOREM LifecycleImplemented == Spec => ImplementsLifecycle
<1>1. Init => Life!Init
  <2> SUFFICES ASSUME Init PROVE LifeMap = [r \in Requests |-> "absent"]
    BY DEF Life!Init, LifeMap
  <2>1. LifeOf(Absent) = "absent"
    BY DEF LifeOf, Absent
  <2>2. QED
    BY <2>1 DEF Init, LifeMap
<1>2. ASSUME TypeOK, WorkInv, CertInv, [Next]_vars PROVE [Life!Next]_LifeMap
  <2>1. TypeOK'
    BY <1>2, CSRTypeNext
  <2>2. CASE UNCHANGED csr
    BY <2>2 DEF LifeMap
  <2>3. ASSUME NEW m \in Managers, step[m] = "sign", PatchCertificate(req[m]) PROVE Life!Next
    BY <1>2, <2>1, <2>3, SignIsSign DEF Life!Next
  <2>4. ASSUME NEW m \in Managers, step[m] = "approve", UpdateApprovalAccepted(req[m], copy[m])
        PROVE  Life!Next \/ LifeMap' = LifeMap
    BY <1>2, <2>1, <2>4, ApprovalIsApprove DEF Life!Next
  <2>5. ASSUME NEW r \in Requests, Cluster(r) PROVE Life!Next \/ LifeMap' = LifeMap
    BY <1>2, <2>1, <2>5, ClusterIsLife DEF Life!Next
  <2>6. QED
    BY <1>2, <2>2, <2>3, <2>4, <2>5, ServerSteps
<1>3. QED
  BY <1>1, <1>2, CSRTypeCorrect, SigningInvariant, PTL
  DEF Spec, ImplementsLifecycle, Life!Spec, LifeMap
===============================================================================
