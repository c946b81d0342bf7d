------------------------------ MODULE CSRSigning ------------------------------
(***************************************************************************)
(* The CSR controller (controllers/certificatesigningrequest_controller.go)*)
(* of kucero's control-plane pods. The leader reconciles every             *)
(* certificate signing request it has seen: it reads the request from its  *)
(* informer's cache, decides whether it is for a kubelet serving           *)
(* certificate, asks the API server whether the requester may have it,     *)
(* signs it, patches the certificate into the status and then approves it. *)
(*                                                                         *)
(* The cache lags behind the server, calls fail or lose their reply, the   *)
(* leader dies or is deposed while it works, an administrator approves or  *)
(* denies requests, and the kube-controller-manager signs what is approved *)
(* and not yet signed.                                                     *)
(***************************************************************************)
EXTENDS Naturals, Sequences

CONSTANTS
    Requests,       \* the names of the certificate signing requests
    Content,        \* what each asks for: a function from Requests to CSR
    NodeUsers,      \* the user names that begin with "system:node:"
    Users,          \* all user names
    Permitted,      \* requests whose SubjectAccessReview is allowed
    Managers,       \* the pods that run the controller
    NoManager,      \* "nobody leads"
    NoRequest,      \* "nothing to reconcile"
    MaxFaults,      \* bound: failing calls and lost replies
    MaxStops,       \* bound: process deaths
    MaxLapses,      \* bound: leases a running leader fails to renew
    MaxAdmin        \* bound: an administrator's verdicts

KubeletServerUsages == <<"key encipherment", "digital signature", "server auth">>

\* The parts of a request and of its PEM block that the controller looks at.
CSR == [wellFormed : BOOLEAN, org : Seq(STRING), dnsNames : Nat, ipAddresses : Nat,
        usages : Seq(STRING), commonName : Users, username : Users]

ASSUME ContentAssumption == Content \in [Requests -> CSR]
\* The API server refuses a request that lists a usage twice.
ASSUME UsagesAssumption ==
    \A r \in Requests : \A i, j \in DOMAIN Content[r].usages :
        Content[r].usages[i] = Content[r].usages[j] => i = j
ASSUME NamesAssumption ==
    /\ NodeUsers \subseteq Users /\ Permitted \subseteq Requests
    /\ NoManager \notin Managers
    /\ NoRequest \notin Requests
ASSUME CSRBoundsAssumption ==
    MaxFaults \in Nat /\ MaxStops \in Nat /\ MaxLapses \in Nat /\ MaxAdmin \in Nat

VARIABLES
    csr,            \* the API server's objects
    cache,          \* each manager's informer cache
    queue,          \* each manager's work queue
    leading,        \* the managers whose controller runs
    lease,          \* the holder of the leader-election lease
    step,           \* where each manager's Reconcile is
    req,            \* the request it reconciles
    copy,           \* its local variable csr
    faults, stops, lapses, adminMoves

leaderVars == <<queue, leading, lease>>
workVars   == <<step, req, copy>>
budget     == <<faults, stops, lapses, adminMoves>>
vars == <<csr, cache, leaderVars, workVars, budget>>

\* A request's life on the server. Every write changes the object and none
\* changes it back, so that comparing objects compares resourceVersions.
Phases     == {"absent", "present", "deleting", "gone"}
Signers    == {"none", "kucero", "kcm"}
Conditions == {"none", "auto", "manual", "denied"}
Object     == [phase : Phases, cert : Signers, condition : Conditions]
Absent     == [phase |-> "absent", cert |-> "none", condition |-> "none"]

Step == {"idle", "authorize", "sign", "approve"}

ServerTypeOK ==
    /\ csr \in [Requests -> Object]
    /\ cache \in [Managers -> [Requests -> Object]]

ManagerTypeOK ==
    /\ queue \in [Managers -> SUBSET Requests]
    /\ leading \subseteq Managers
    /\ lease \in Managers \cup {NoManager}
    /\ step \in [Managers -> Step]
    /\ req \in [Managers -> Requests \cup {NoRequest}]
    /\ copy \in [Managers -> Object]

BudgetOK ==
    /\ faults \in 0..MaxFaults
    /\ stops \in 0..MaxStops
    /\ lapses \in 0..MaxLapses
    /\ adminMoves \in 0..MaxAdmin

\* Every variable keeps its type: queues hold names of requests, the local copy
\* is an API object (controller.go:75), and Reconcile is at no step without a
\* request.
TypeOK ==
    /\ ServerTypeOK /\ ManagerTypeOK /\ BudgetOK
    /\ \A m \in Managers : step[m] = "idle" <=> req[m] = NoRequest

Init ==
    /\ csr = [r \in Requests |-> Absent]
    /\ cache = [m \in Managers |-> [r \in Requests |-> Absent]]
    /\ queue = [m \in Managers |-> {}]
    /\ leading = {}
    /\ lease = NoManager
    /\ step = [m \in Managers |-> "idle"]
    /\ req = [m \in Managers |-> NoRequest]
    /\ copy = [m \in Managers |-> Absent]
    /\ faults = 0 /\ stops = 0 /\ lapses = 0 /\ adminMoves = 0

Fault == faults < MaxFaults /\ faults' = faults + 1

-------------------------------------------------------------------------------
(* Which requests are for kubelet serving certificates.                    *)

\* Mutant of HasExactUsages: the lengths are not compared.
HasOnlyUsages(usages, wanted) ==
    \A i \in DOMAIN usages : \E j \in DOMAIN wanted : usages[i] = wanted[j]

HasExactUsages(usages, wanted) ==
    /\ Len(wanted) = Len(usages)
    /\ \A i \in DOMAIN usages : \E j \in DOMAIN wanted : usages[i] = wanted[j]

IsNodeServingCert(r) ==
    /\ Content[r].org = <<"system:nodes">>
    /\ Content[r].dnsNames >= 1 /\ Content[r].ipAddresses >= 1
    /\ HasExactUsages(Content[r].usages, KubeletServerUsages)
    /\ Content[r].commonName \in NodeUsers
    /\ Content[r].username = Content[r].commonName

-------------------------------------------------------------------------------
(* Reconcile.                                                              *)

\* Reconcile returns: its local variables are gone.
Return(m) ==
    /\ step' = [step EXCEPT ![m] = "idle"]
    /\ req' = [req EXCEPT ![m] = NoRequest]
    /\ copy' = [copy EXCEPT ![m] = Absent]

\* Return nil: the request is done with until the next event.
Done(m) == Return(m) /\ UNCHANGED queue

\* Mutants of Fail: the error is swallowed; the object is queued, not its name.
FailSilently(m) == Return(m) /\ UNCHANGED queue
FailQueuesObject(m) == Return(m) /\ queue' = [queue EXCEPT ![m] = @ \cup {copy[m]}]

\* Return an error: the work queue gets the request again.
Fail(m) == Return(m) /\ queue' = [queue EXCEPT ![m] = @ \cup {req[m]}]

\* The guards of Reconcile up to the recognizers: neither deleted nor signed,
\* and well formed. A request that is not found is an empty object, which is
\* not well formed.
ToBeSigned(r, object) ==
    /\ object.phase = "present"
    /\ object.cert = "none"
    /\ Content[r].wellFormed
    /\ IsNodeServingCert(r)

\* Reconcile takes a request from the queue and reads it from the cache.
Get(m, r) ==
    /\ m \in leading /\ step[m] = "idle" /\ r \in queue[m]
    /\ \/ /\ ToBeSigned(r, cache[m][r])
          /\ queue' = [queue EXCEPT ![m] = @ \ {r}]
          /\ step' = [step EXCEPT ![m] = "authorize"]
          /\ req' = [req EXCEPT ![m] = r]
          /\ copy' = [copy EXCEPT ![m] = cache[m][r]]
          /\ UNCHANGED faults
       \/ /\ ~ToBeSigned(r, cache[m][r])
          /\ queue' = [queue EXCEPT ![m] = @ \ {r}]
          /\ UNCHANGED <<workVars, faults>>
       \/ Fault /\ UNCHANGED <<queue, workVars>>
    /\ UNCHANGED <<csr, cache, leading, lease, stops, lapses, adminMoves>>

Goto(m, s) == step' = [step EXCEPT ![m] = s] /\ UNCHANGED req

\* authorize: the answer to the SubjectAccessReview for the requestor.
Allowed(r) == r \in Permitted

\* Mutants of Authorize: the request is approved before it is signed; an error
\* of the SubjectAccessReview is logged and nil returned.
AuthorizeThenApprove(m) ==
    /\ step[m] = "authorize" /\ Allowed(req[m])
    /\ Goto(m, "approve")
    /\ UNCHANGED <<csr, cache, leaderVars, copy, budget>>
AuthorizeErrorIgnored(m) ==
    /\ step[m] = "authorize"
    /\ \/ Allowed(req[m]) /\ Goto(m, "sign") /\ UNCHANGED <<queue, copy, faults>>
       \/ ~Allowed(req[m]) /\ Fail(m) /\ UNCHANGED faults
       \/ Fault /\ Done(m)
    /\ UNCHANGED <<csr, cache, leading, lease, stops, lapses, adminMoves>>

\* The SubjectAccessReview; a refusal is an error too.
Authorize(m) ==
    /\ step[m] = "authorize"
    /\ \/ Allowed(req[m]) /\ Goto(m, "sign") /\ UNCHANGED <<queue, copy, faults>>
       \/ ~Allowed(req[m]) /\ Fail(m) /\ UNCHANGED faults
       \/ Fault /\ Fail(m)
    /\ UNCHANGED <<csr, cache, leading, lease, stops, lapses, adminMoves>>

\* The server accepts a first certificate. The merge patch carries no
\* resourceVersion: other changes do not conflict with it.
PatchCertificate(r) ==
    /\ csr[r].phase \in {"present", "deleting"} /\ csr[r].cert = "none"
    /\ csr' = [csr EXCEPT ![r].cert = "kucero"]

\* Mutant of SignAndPatch: the copy read from the cache is kept.
SignAndPatchOldCopy(m) ==
    /\ step[m] = "sign"
    /\ \/ PatchCertificate(req[m]) /\ Goto(m, "approve") /\ UNCHANGED <<queue, copy>>
       \/ /\ csr[req[m]].phase = "gone" \/ csr[req[m]].cert # "none"
          /\ Fail(m) /\ UNCHANGED csr
    /\ UNCHANGED <<cache, leading, lease, budget>>

\* Sign, then patch the status; the patch refreshes the local copy.
SignAndPatch(m) ==
    /\ step[m] = "sign"
    /\ \/ /\ PatchCertificate(req[m])
          /\ copy' = [copy EXCEPT ![m] = csr'[req[m]]]
          /\ Goto(m, "approve")
          /\ UNCHANGED <<queue, faults>>
       \/ /\ csr[req[m]].phase = "gone" \/ csr[req[m]].cert # "none"
          /\ Fail(m) /\ UNCHANGED <<csr, faults>>
       \/ Fault /\ Fail(m) /\ UNCHANGED csr
       \/ Fault /\ PatchCertificate(req[m]) /\ Fail(m)
    /\ UNCHANGED <<cache, leading, lease, stops, lapses, adminMoves>>

appendApprovalCondition(object) == [object EXCEPT !.condition = "auto"]

\* Mutant of UpdateApprovalAccepted: approved by a patch that, like the one of
\* the certificate, carries no resourceVersion and replaces the conditions.
ApprovalPatched(r, object) ==
    /\ csr[r].phase \in {"present", "deleting"}
    /\ csr' = [csr EXCEPT ![r] = appendApprovalCondition(@)]

\* The server accepts the approval of the version the copy holds, if there is
\* no verdict yet: a second Approved condition is a duplicate, and Approved
\* and Denied exclude each other.
UpdateApprovalAccepted(r, object) ==
    /\ csr[r] = object /\ object.condition = "none"
    /\ csr' = [csr EXCEPT ![r] = appendApprovalCondition(@)]

UpdateApproval(m) ==
    /\ step[m] = "approve"
    /\ \/ UpdateApprovalAccepted(req[m], copy[m]) /\ Done(m) /\ UNCHANGED faults
       \/ /\ csr[req[m]] # copy[m] \/ copy[m].condition # "none"
          /\ Fail(m) /\ UNCHANGED <<csr, faults>>
       \/ Fault /\ Fail(m) /\ UNCHANGED csr
       \/ Fault /\ UpdateApprovalAccepted(req[m], copy[m]) /\ Fail(m)
    /\ UNCHANGED <<cache, leading, lease, stops, lapses, adminMoves>>

-------------------------------------------------------------------------------
(* The manager: informer, leader election, death.                          *)

\* A watch event: the cache catches up and a leader's queue gets the request.
Observe(m, r) ==
    /\ cache[m][r] # csr[r]
    /\ cache' = [cache EXCEPT ![m][r] = csr[r]]
    /\ queue' = IF m \in leading THEN [queue EXCEPT ![m] = @ \cup {r}] ELSE queue
    /\ UNCHANGED <<csr, leading, lease, workVars, budget>>

\* The free lease is taken; the controller starts with all it has in its cache.
Elect(m) ==
    /\ lease = NoManager /\ m \notin leading
    /\ lease' = m
    /\ leading' = leading \cup {m}
    /\ queue' = [queue EXCEPT ![m] = {r \in Requests : cache[m][r].phase \in {"present", "deleting"}}]
    /\ UNCHANGED <<csr, cache, workVars, budget>>

\* The lease is not renewed in time: its holder is dead, or slow.
LoseLease(m) ==
    /\ lease = m
    /\ lease' = NoManager
    /\ \/ m \notin leading /\ UNCHANGED lapses
       \/ m \in leading /\ lapses < MaxLapses /\ lapses' = lapses + 1
    /\ UNCHANGED <<csr, cache, queue, leading, workVars, faults, stops, adminMoves>>

\* The process ends: queue and Reconcile are gone, the lease stays.
Die(m) ==
    /\ m \in leading
    /\ leading' = leading \ {m}
    /\ queue' = [queue EXCEPT ![m] = {}]
    /\ Return(m)
    /\ UNCHANGED <<csr, cache, lease>>

\* mgr.Start returns "leader election lost": logrus.Fatal.
StepDown(m) ==
    /\ lease # m
    /\ Die(m)
    /\ UNCHANGED budget

Crash(m) ==
    /\ stops < MaxStops /\ stops' = stops + 1
    /\ Die(m)
    /\ UNCHANGED <<faults, lapses, adminMoves>>

-------------------------------------------------------------------------------
(* The rest of the cluster.                                                *)

\* A kubelet creates a request.
Submit(r) ==
    /\ csr[r].phase = "absent"
    /\ csr' = [csr EXCEPT ![r].phase = "present"]
    /\ UNCHANGED <<cache, leaderVars, workVars, budget>>

\* The garbage collector or a person deletes it; a finalizer may delay that.
Delete(r) ==
    /\ csr[r].phase \in {"present", "deleting"}
    /\ \E phase \in {"deleting", "gone"} \ {csr[r].phase} :
          csr' = [csr EXCEPT ![r].phase = phase]
    /\ UNCHANGED <<cache, leaderVars, workVars, budget>>

\* kubectl certificate approve / deny.
Administer(r, verdict) ==
    /\ adminMoves < MaxAdmin /\ adminMoves' = adminMoves + 1
    /\ csr[r].phase = "present" /\ csr[r].condition = "none"
    /\ csr' = [csr EXCEPT ![r].condition = verdict]
    /\ UNCHANGED <<cache, leaderVars, workVars, faults, stops, lapses>>

\* The kube-controller-manager signs what is approved and has no certificate.
KcmSign(r) ==
    /\ csr[r].phase = "present"
    /\ csr[r].condition \in {"auto", "manual"} /\ csr[r].cert = "none"
    /\ csr' = [csr EXCEPT ![r].cert = "kcm"]
    /\ UNCHANGED <<cache, leaderVars, workVars, budget>>

-------------------------------------------------------------------------------

Reconcile(m) == Authorize(m) \/ SignAndPatch(m) \/ UpdateApproval(m)

Manager(m) ==
    \/ \E r \in Requests : Get(m, r) \/ Observe(m, r)
    \/ Reconcile(m)
    \/ Elect(m) \/ LoseLease(m) \/ StepDown(m) \/ Crash(m)

Cluster(r) ==
    \/ Submit(r) \/ Delete(r) \/ KcmSign(r)
    \/ \E verdict \in {"manual", "denied"} : Administer(r, verdict)

Next == (\E m \in Managers : Manager(m)) \/ (\E r \in Requests : Cluster(r))

\* The work queue is first in, first out: a queued request has its turn however
\* often others fail and return (SF). Watch events arrive, the lease of a dead
\* leader runs out, someone is elected, a deposed leader notices.
Fairness ==
    \A m \in Managers :
        /\ WF_vars(Reconcile(m)) /\ WF_vars(StepDown(m)) /\ WF_vars(Elect(m))
        /\ WF_vars(LoseLease(m) /\ m \notin leading)
        /\ \A r \in Requests : SF_vars(Get(m, r)) /\ WF_vars(Observe(m, r))

Spec == Init /\ [][Next]_vars
FairSpec == Spec /\ Fairness

-------------------------------------------------------------------------------
(* Safety.                                                                 *)

\* controller.go:113-114: "sign the csr before approve otherwise, the
\* kube-controller-manager will sign the csr". A request that kucero approved
\* carries kucero's certificate, whatever the cache showed, whoever led and
\* whichever calls failed: the kube-controller-manager signs only requests
\* that a person approved.
KcmOnlyAfterManual ==
    \A r \in Requests :
        /\ csr[r].cert = "kcm" => csr[r].condition = "manual"
        /\ csr[r].condition = "auto" => csr[r].cert = "kucero"

\* A certificate of kucero's (controller.go:97-120, helper.go:54-75) went to a
\* permitted request of a node in its own name, which asks for the three
\* serving usages, each of them and no other.
ServingCertsOnly ==
    \A r \in Requests :
        csr[r].cert = "kucero" =>
            /\ r \in Permitted
            /\ Content[r].username \in NodeUsers
            /\ Content[r].username = Content[r].commonName
            /\ {Content[r].usages[i] : i \in DOMAIN Content[r].usages} =
                   {KubeletServerUsages[i] : i \in DOMAIN KubeletServerUsages}

\* Level-triggered control (controller.go:74-139): a request that still waits
\* for kucero's certificate and that a leader has seen is in its queue or in
\* its hands: no error path, stale read or change of leader loses it.
NothingForgotten ==
    \A m \in leading, r \in Requests :
        ToBeSigned(r, csr[r]) /\ cache[m][r] = csr[r]
            => r \in queue[m] \/ (step[m] # "idle" /\ req[m] = r)

\* A certificate without a verdict (controller.go:120-138) is the work of a
\* moment: unless a call failed, a manager died or a lease lapsed, the leader
\* that signed the request still holds the version it signed and is about to
\* approve that one. A new verdict or a deletion is the only conflict left.
SignedInHand ==
    faults = 0 /\ stops = 0 /\ lapses = 0 =>
        \A r \in Requests :
            csr[r].phase = "present" /\ csr[r].cert = "kucero" /\ csr[r].condition = "none" =>
                \E m \in leading : step[m] = "approve" /\ req[m] = r /\ copy[m] = csr[r]

-------------------------------------------------------------------------------
(* Refinement. A request's life leaves out the deletion mark, and who      *)
(* approved what kucero had signed.                                        *)

LifeOf(object) ==
    LET state == <<object.cert, object.condition>>
    IN  IF object.phase \in {"absent", "gone"} THEN object.phase ELSE
        CASE state = <<"none", "none">>       -> "pending"
          [] state = <<"none", "manual">>     -> "approved"
          [] state = <<"none", "denied">>     -> "denied"
          [] state = <<"kucero", "none">>     -> "signed"
          [] state \in {<<"kucero", "auto">>, <<"kucero", "manual">>} -> "issued"
          [] state = <<"kucero", "denied">>   -> "void"
          [] state = <<"kcm", "manual">>      -> "foreign"
          [] OTHER                            -> "astray"

Entitled == {r \in Permitted : Content[r].wellFormed /\ IsNodeServingCert(r)}

Life == INSTANCE CSRLifecycle WITH life <- [r \in Requests |-> LifeOf(csr[r])]

\* Caches that lag, lost replies, retries and several leaders at once
\* (controller.go:74-139) change nothing that the cluster sees: every request
\* goes through the life that CSRLifecycle describes, gets at most one
\* certificate, and kucero's approval only after kucero's signature.
ImplementsLifecycle == Life!Spec

-------------------------------------------------------------------------------
(* Liveness, under FairSpec.                                               *)

\* README.md:15: the controller "watches kubelet server CSR, and then auto
\* signs": a permitted request is signed, unless it is deleted, although
\* calls fail and leaders die or are deposed.
EventuallySigned ==
    \A r \in Permitted :
        ToBeSigned(r, csr[r]) ~> ~ToBeSigned(r, csr[r])

\* README.md:15: "auto signs and approves": a request that kucero signed gets
\* its approval, unless it is deleted.
SignedThenApproved ==
    \A r \in Requests :
        csr[r].phase = "present" /\ csr[r].cert = "kucero"
            ~> csr[r].phase # "present" \/ csr[r].condition # "none"
===============================================================================
