# Verification of kucero

kucero is a Kubernetes daemonset that renews kubeadm certificates, keeps two
kubelet configuration files in line with its flags and signs kubelet serving
certificates. This directory holds TLA+ models of it, TLC configurations that
check them on small instances and TLAPS proofs for instances of any size.
`PROJECT.json` maps every definition to the source lines it models.

## The system

| Component | State | Operations | Talks to |
|---|---|---|---|
| Rotation daemon (`cmd/kucero/main.go`), one per node | the node object read at start-up, `nodeMeta`, the two work lists, a ticker | start, poll, acquire, cordon, drain, update, rotate, uncordon, release, quit | lock, API server, host |
| Cluster-wide lock (`cmd/kucero/lock.go`, kured's `daemonsetlock`) | one annotation on the daemonset: node, metadata, creation time, TTL | `holding`, `acquire`, `release` | API server (optimistic concurrency) |
| Host helpers (`pkg/host`) | `Spec.Unschedulable` of the node, the running kubelet | `Cordon`, `Uncordon`, `Drain`, `RestartKubelet` | API server, `nsenter` |
| Node facade (`pkg/pki/node`, `cert/null`) | none | picks kubeadm or null certificates by role | the two below |
| kubeadm certificates (`pkg/pki/cert/kubeadm`) | certificates on the host, their backups | `CheckExpiration`, `Rotate` | `kubeadm`, `cp` |
| kubelet configuration (`pkg/pki/conf/kubelet`) | `kubelet.conf`, `config.yaml` | `CheckConfig`, `UpdateConfig` | files |
| CSR controller (`controllers`), on control-plane nodes, one leader | informer cache, CSR objects | `Reconcile`: recognise, authorise, sign, patch, approve | API server, signer, kube-controller-manager |
| Signer and CA (`pkg/pki/signer`, `pkg/pki/authority`) | the loaded CA pair | `Sign`, `currentCA`, `duration` | CA files |

One daemon runs per node. All share one annotation, so at most one should take
its node out of service at a time. On control-plane nodes the same process
also runs the CSR controller in a goroutine, and that goroutine ends the whole
process with `logrus.Fatal` when it loses its leadership.

What is hard here:

- **Time-to-live.** The lock lasts a minute and is not renewed, the drain it
  protects has no timeout.
- **Crashes.** The process can die at any point; what is left behind (lease,
  cordon, changed files, kubelet on old files) is the successor's to find.
- **Partial failure.** Almost every error is logged and ignored.
- **Stale state.** The node object is read once; the CA pair and the CSRs are
  read from caches.
- **Concurrency with others.** Operators cordon and uncordon; the
  kube-controller-manager signs CSRs; two leaders may overlap.

What makes each component correct: rotations under running leases exclude each
other; a running lease is lost only by release; every due certificate and stale
file is handled in the end; a rotation leaves the node as schedulable as it
found it and the kubelet on the new files; a CSR is signed once, by one signer,
only for the node that sent it, and approved once signed; a signed certificate
lies within the CA's and the flags' limits and is made with one authority's
pair; a file update keeps what is not kucero's and ends in a file that agrees
with the flags; a certificate is renewed before it ends and its predecessor is
kept.

## Modules

`RotationLoop` is the core: any set of nodes, each running the loop of
`main.go`, with the lock, the node objects, the hosts and an environment.

| Code | Model |
|---|---|
| position in `rotateCertificateWhenNeeded` | `pc[n]`: `down`, `starting` (`holding`), `idle` (`select`), `acquire`, `cordon`, `drain`, `update`, `rotate`, `uncordon`, `release` |
| lock annotation | `lockNode`, `lockMeta`; its age only as `expired[n]`, "the TTL of the lease n last wrote has run out" |
| `corev1Node` kept from start-up / the server's node | `cached[n]` / `unschedulable[n]` |
| `configsToBeUpdate`, `expiryCerts`, `errs` | the same names |
| files and certificates on the host | `staleConfigs[n]`, `dueCerts[n]`: what a correct check would report |
| kubelet running on outdated files | `kubeletStale[n]` |

Every call that leaves the process is a step of its own, and `Fault` is one
that fails. One turn of the loops of `UpdateConfig` and `Rotate` is one step,
so a death may fall between two files. The order of a Go map or slice is
abstracted to any order. `Stop` is any end of the process, `Lapse` the passing
of the minute, `AgeCert` and `DriftConfig` the arrival of work, `Operator` a
person's `kubectl cordon` or `uncordon`; a cordon is remembered as the person's
wish only if it came before the rotation. A file whose write fails stays as it
was or is left empty. A worker uses the null certificate, which never reports
anything (`CheckExpiration`).

Modelled from how the code uses it, and marked external in the map: kured's
`daemonsetlock` (`Test` decodes the metadata even of another node's lease;
`Acquire` succeeds without writing if the node's own lease is still running,
and takes over an expired one; `Release` removes the annotation only if it
names the node, whatever its age) and kubectl's `RunCordonOrUncordon` (it
compares the wish with the object passed in and changes that object even when
the patch then fails).

Abstracted: the data. Files are stale or not, certificates due or not; the two
modules below have what that stands for. An *irregular* file is one that a write
may leave stale; `SimpleInOneWrite` of `KubeletConfigProofs` says which are not. A
renewed certificate is not due at once (`RenewedOnlyWhenDue` of `KubeadmCerts`).
Which pods a drain evicts is left out.

`NodeLease` is what the lock promises: a lease, granted when nobody has a running
one, under which a node goes inside, and which ends by being given back from
outside or by the passing of its time. It knows no annotation, no process and no
tick. `RotationLoop` implements it under the mapping `Lease`: the holder is the
node of an unexpired annotation, inside are the daemons between acquire and
release, overdue those whose minute is up.

`KubeadmCerts` is one control-plane node against the clock.

| Code | Model |
|---|---|
| `pollingPeriod` after the shift, `time.Tick` | `period`, `nextTick` |
| what kubeadm prints and the parser reads | `Printed`: the end, rounded down to the minute |
| `expiryCertificates` and the position in `Rotate` | the same name, a set; `inHand`, backed up and not yet renewed |
| certificates and `.bak` files on the host | `notAfter`, `backups` (with the time of the copy, from which `Stamp` makes the name) |

Whatever makes a pass come to nothing (kubeadm fails, the lock is another's, a
copy or a renewal fails, the process dies) is a `Setback`. `deadline` bounds how
long a pass or a restart may take. kucero may find certificates that are due or
have ended when it starts (`FirstEnds`); the history variable `late` has those of
them it has not renewed yet.

`KubeletConfig` is one node's two kubelet files. `config.yaml` is a sequence of
lines of five kinds, told apart by what the YAML parser and the byte search see
in them: a setting in kubeadm's form, one in another spelling, a comment that
looks like a setting, another setting, and a line that holds two settings and
does not parse. A key that is set twice has the value of its last line.
`kubelet.conf` is its users and those with inline data. A read
with the new content, the truncation and the write are three steps; a death, a
failing call and an edit by someone else may come between them. The history
variable `spoilt` has the files a write was cut short in or that had an edit
overtaken; what is said about content excepts them. `writes` counts the writes of
`config.yaml` since its last edit.

`Signing` is the signer of the CSR controller: the two reads of the certificate
and the key file at start-up, the pair they give, `currentCA`, `duration`, the
policy's template and the certificate. An administrator writes the two files one
at a time. Requests are the serving requests that `CSRSigning` lets through. The
loader of `k8s.io/apiserver` is external: it reads certificate, then key, refuses
them unless they match, and looks again only in `Run`, which kucero never calls.

`CSRSigning` is the CSR controller on the control-plane nodes: any number of
managers, of which more than one may believe it leads, and the rest of the
cluster around them.

| Code | Model |
|---|---|
| `csr` on the API server / in a manager's informer | `csr[r]` / `cache[m][r]`: phase, who signed, verdict |
| the local variable `csr` of `Reconcile` | `copy[m]` |
| position in `Reconcile` | `step[m]`: `idle`, `authorize`, `sign` (115-123), `approve` (126-130); `req[m]` is its argument |
| controller-runtime's work queue | `queue[m]`, a set of names |
| leader election of `ctrl.Options` | `lease`; `leading`, the managers whose controller runs |
| `Spec.Request`, `Usages`, `Username` | the constant `Content[r]` |

`Get` is the cache read together with the tests that follow it (deleted,
signed, parsed, recognised), which make no call. Each further call is a step.
A write may fail, or succeed with its reply lost. Every returned error puts the
request back on the queue. A death loses queue and local variables, while the
lease stays until it runs out; a deposed leader works on until it notices.

Modelled from how the code uses it, and marked external: the API server, the
informer and the leader election, the kube-controller-manager, the kubelets and
the administrator. The API server is assumed to accept a certificate only where
there is none, to refuse an approval whose `resourceVersion` is old or that
would be a second verdict, and to refuse a request that lists a usage twice.
The status patch is a merge patch without a `resourceVersion` and does not
conflict. No write restores an earlier state of an object, so comparing objects
compares `resourceVersion`s. The kube-controller-manager signs what is approved
and has no certificate.

`CSRLifecycle` is what all of this comes to for anybody who watches a request on
the API server: pending, signed, issued, or the ways a person's verdict takes it.
It knows no managers, caches, queues or failing calls. `CSRSigning` implements it
under the mapping `Life`, which reads a request's state off its certificate and
its condition (`LifeOf`).

Left out: the choice of API version at start-up (only `v1` is modelled), and
the events, which nothing reads. An error of `Sign` is a `Fault` like any
other; what `Sign` puts into the certificate belongs to the signer.

The modules `MC...` name the model values, the contents of requests and files
and the symmetry set; the modules `...Proofs` hold the theorems.

Operators whose comment begins with "Mutant of" are deliberately wrong variants
of the definition after them. No specification uses them; they show that each
property would notice such a bug.

## Runs

Deadlock checking is on for the rotation loop and the kubelet files, which never
stop. It is off for the CSR controller (once every request has been deleted and
observed, a manager that leads rightly has nothing to do) and where a clock ends
the run at `MaxTime`.

| Run | Instance | Checks |
|---|---|---|
| `RotationSafety` | 2 control-plane nodes, 1 irregular file, so that they contend at every tick, 1 renewable and 1 unknown certificate; 1 fault, 1 death, 2 agings, 1 operator move | all safety properties, `ImplementsLease` |
| `RotationLiveness` | 1 control-plane node and 1 worker; 1 fault, 1 death, 2 agings | `DueCertRenewed`, `StaleConfigUpdated` |
| `KubeadmClock` | 1 renewable and 1 unknown certificate, period 2 or 3, renew-before 12, lifetime 17, first ends 0, 12, 13, 14 and 17, minute 2, half day 3; 1 setback, 24 units of time | `RenewedInTime`, `BackupKept`, `RenewedOnlyWhenDue` |
| `KubeletFiles` | 9 forms of `config.yaml`, 2 users; 1 fault, 1 death, 2 edits, writes counted to 3 | `SettingsKept`, `EveryWriteRepairs`, `Converges`, `InlineReplaced` |
| `CSRLeaders` | 2 managers, 1 serving request; 1 fault, 1 death, 1 lapse, 1 verdict | `KcmOnlyAfterManual`, `NothingForgotten`, `SignedInHand`, `ImplementsLifecycle`, `EventuallySigned` |
| `CSRMixed` | 1 manager; a proper request, one with a usage missing and one without permission, which fails for ever; 1 fault, 1 death | `ServingCertsOnly`, `EventuallySigned` |
| `SigningPair` | 3 authorities over 2 keys, a file of two certificates; 3 writes, 2 deaths, 6 units of time | `BornValid`, `LifetimeGranted`, `OnePair`, `SignerComesUp` |

One run of each module also checks its `TypeOK`.

The safety properties of the rotation:

- `LeasedMutex`: two daemons are between acquire and release at once only if
  one of them has outlived its lease. This is the guarantee a TTL lock can
  give; `LockOutlived` below shows the stronger one fails.
- `LiveLeaseKept`: a running lease goes away only by its holder's release; not
  by another's acquire and not by the late release of a former holder.
- `IdleHoldsNoLease`: a polling daemon sits on a running lease only if a call
  failed; the test-and-release at start-up cleans up after a dead process.
- `UncordonReopens`: an uncordon whose call succeeds opens the node, whatever
  the cached object was at start-up and whatever an operator did since.
- `NoCordonLeft`: outside a rotation a node is cordoned only after an
  operator's move, a failed call or a death.
- `KubeletFresh`: without failures and deaths no pass ends with the kubelet on
  outdated files.

- `ImplementsLease`: each step of the loop is a step of the lease or leaves it
  alone. A daemon goes inside only under its own running lease, even when a lost
  reply, a death or a successor came in between, and returns it from outside.

The properties of the certificates and files of a node:

- `RenewedInTime`: a certificate kucero can renew never runs out, although ticks
  are up to two polling periods apart, the expiry is rounded and some passes come
  to nothing. It holds if renew-before is at least an interval (two polling
  periods and two delays) for each such pass and one more. One that was due or had
  ended when kucero started is renewed within that time.
- `BackupKept`: each replaced certificate stays in a backup. The stamp in a
  backup's name repeats after twelve hours, so this needs that a renewed
  certificate is not due again within half a day (`LifetimeAssumption`); the
  8761 hours of `integration/test.sh` do not satisfy it.
- `RenewedOnlyWhenDue`: a certificate is replaced only while it runs (unless kucero
  found it due or ended when it started), not before it is due (up to the minute that the printed expiry rounds off) and by one that
  ends half a day later at least, however long the pass takes after its check. A
  retry or a restart does not renew twice.
- `SettingsKept`: an update keeps the settings and users that are not kucero's,
  in a text that ends with a newline or in a comment. One that ends in a setting
  becomes unreadable, which is why the property excepts it.
- `EveryWriteRepairs`: a write leaves a regular file regular, corrects one wrong
  text (setting or comment) of each key that does not agree yet and undoes nothing.
  So a file agrees after as many writes as it had wrong texts of a key, or one.
- `Converges`: a regular file comes to agree with the flags, also when the first
  replacement hits a comment and a second pass is needed.
- `InlineReplaced`: inline certificates are pointed to the rotated file, and every
  user is still there unless a write was cut short or overtook an edit.

The properties of the signer:

- `BornValid`, `LifetimeGranted`: a certificate is valid when made, ends with its
  authority, is none itself, has the usages of the request in its two X.509 fields
  and no others, and lasts no longer than the flag and the request allow. The first
  needs a flag above the five minutes of backdating, the second that the API
  server refuses requests of less than ten minutes.
- `OnePair`, `SignerComesUp`: a renewal between the two reads of a start-up never
  yields a mixed pair, and ends in a signer that runs once the files match.

The properties of the CSR controller:

- `KcmOnlyAfterManual`: what kucero approved carries kucero's certificate, so
  that the kube-controller-manager signs only what a person approved. This is
  the reason the code gives for signing first, and it has to survive stale
  reads, overlapping leaders and lost replies.
- `ServingCertsOnly`: kucero's certificates go only to permitted requests of a
  node in its own name for the three serving usages.
- `NothingForgotten`: a waiting request that a leader's cache shows is in the
  leader's queue or being reconciled.
- `SignedInHand`: as long as no call failed, no manager died and no lease lapsed, a
  request with kucero's certificate and no verdict is about to be approved by a
  leader whose copy is the server's version, so that the approval does not
  conflict. This is the window of `CSRUnapproved` below seen from the other side:
  only a failure in it loses the approval.
- `ImplementsLifecycle`: each step is a step of `CSRLifecycle` or changes nothing a
  watcher sees. A request gets one certificate at most, kucero's verdict only
  after kucero's signature, and no verdict is ever taken back.
- `EventuallySigned`: a permitted serving request does not wait for ever.

The violation runs show where the code does not do what its own text says
(`findings` in `PROJECT.json` quotes the lines):

- `LockOutlived`: no failure is needed. A drain of more than a minute lets a
  second node in, and the first rotates under an annotation naming the second.
- `OperatorOverruled`: `nodeMeta.Unschedulable` is never set, so a cordon an
  operator made before kucero took the lock does not survive the rotation.
- `LostRestart`: `Rotate` renews a certificate, the kubelet restart after it fails
  and is never repeated, as the next check finds nothing to do. `UpdateConfig` ends
  in the same way.
- `CSRUnapproved`: if the approval after the patch fails, the retry ignores the
  request because it is signed, and nobody approves it.
- `StaleCA`: `currentCA` compares with a loader that never reads again, so a
  running signer keeps the authority of its start-up.

Two more behaviours are worth knowing and are in the models without a run of
their own. `Cordon` compares with the node object of the start-up
(`main.go:144`): after a start on a cordoned node that is then uncordoned, it
does nothing and the drain runs on a schedulable node. And a name outside the
`certificates` map, such as a CA close to its end, is reported at every poll and
skipped every time; each poll drains the node and restarts the kubelet.

**Bounds.** Faults, deaths, agings, edits, writes and operator moves are counted,
because each is an event the environment may produce for ever; clocks end at
`MaxTime`; no other variable grows. Leases may lapse and be retaken any number of
times, so with two nodes a first holder may release late when its successor's
lease has lapsed and been retaken. One fault and one death per run reach each
error path at each point. The two agings of `RotationSafety` put a renewable and
an unknown name into the same pass. In `KubeadmClock` the clock runs past a
renewal's own expiry check, and the half day is as long as the longer period, so
that a retry's backup takes the name of the first. A failing copy over an older
one would need a second setback and is left to the proof. In `KubeletFiles` two
edits are one during a write and one after it, and three writes are one more than
any of the texts needs; the count stays at its bound, which weakens
`EveryWriteRepairs` and blocks nothing. In `SigningPair` three writes are
a renewal of both files and half of another. One request suffices for the CSR
properties, as `Reconcile` treats requests apart from each other; `CSRMixed` has
several that share a worker. It does not vary the subject, the names and the
addresses; the proof of `ServingCertsOnly` covers every content. Two managers are
two overlapping leaders. The proofs lift all these bounds for the safety
properties.

**Fairness** (`FairSpec`). Weak fairness of each daemon: the loop runs while the
pod does, and the daemonset restarts the pod (`restartPolicy: Always`). Weak
fairness of `Lapse`: time passes. Weak fairness of `Drain`: an assumption about
the cluster, which the code does not secure, as the drain has no timeout and a
disruption budget can block it for ever. Liveness is checked where every file
is regular and every name renewable: a node that needs work at every poll may
hold the lock at each of another node's ticks, and only the randomly shifted
polling periods stand against that.

For the kubelet files: weak fairness of the check and of an update under way, as
the loop ticks and the pod is restarted. For the signer: weak fairness of the two
halves of a start-up; nothing is assumed of whoever writes the files.

For the CSR controller: weak fairness of `Reconcile`'s calls (the worker runs),
of watch events, of the election of someone to a free lease, of the end of a
dead leader's lease and of a deposed leader's noticing. Strong fairness of
`Get` for each request: the work queue is first in, first out, and a failed
request goes to its end, while the model's queue is a set. Nothing is assumed
of kubelets, administrators and the kube-controller-manager.

## Proofs

`RotationLoopProofs` proves, for every set of nodes, files and certificates and
all bounds, that `Spec` satisfies `TypeOK`, `LeasedMutex`, `LiveLeaseKept`,
`IdleHoldsNoLease`, `UncordonReopens`, `NoCordonLeft` and `KubeletFresh`. The
assumptions are those of `RotationLoop`: "no node" is not a node, the
control-plane nodes are nodes, the bounds are natural numbers.

- `MutualExclusion` rests on `LeaseInv`: a daemon at work is the one the
  annotation names, or has outlived its lease. `LeasedMutex` alone is not
  inductive: it would allow a lone daemon at work without the lock, which the
  next acquire would join.
- `LeaseNotStolen` needs no invariant, only the three actions that write the
  annotation.
- `UncordonEffective` and `CordonUndone` rest on `CordonInv`: `nodeMeta` and the
  annotation's metadata are always false, hence every uncordon follows a cordon
  of the same process, hence the cached object is cordoned when `Uncordon`
  looks at it and the server is patched. The same fact is why an operator's
  cordon is lost.
- `KubeletRestarted` rests on `ErrsInv`: an error that skips the restart is a
  failed command.
- `LeaseImplemented` is the refinement: initial states map to initial states and
  each action to a step of `NodeLease` or a stutter. It needs `LeaseInv` where a
  daemon goes to work, and that a release finds the daemon outside.
- `HistoryKept` says the failure counters never go back, so that "a call
  failed" is stable.

`CSRSigningProofs` proves, for any requests, managers and bounds, that `Spec` of
`CSRSigning` satisfies `TypeOK`, `KcmOnlyAfterManual`, `ServingCertsOnly`,
`NothingForgotten`, `SignedInHand` and `ImplementsLifecycle`. It assumes that the contents have their types and list no
usage twice (`UsagesAssumption`), and that the bounds are natural numbers.

- `SigningInvariant`: `WorkInv` records what `Reconcile` has found out when it
  reaches a step (recognised; then permitted; then signed by kucero, in its own
  copy), and `CertInv` what holds of the server's objects. `SignBeforeApprove`
  follows because an approval is accepted only for the version the copy holds,
  and the copy comes from the patch.
- `ExactUsages`: three different usages among the three wanted ones are all of
  them. `OnlyServingCerts` needs it.
- `NoRequestLost` rests on `HeldInv`, which asks only that server and cache both
  show the request waiting; with equality in its place the property would not
  be inductive, as the server changes while a request is in hand.

- `SignedThenHeld` rests on `CalmInv`: as long as nothing failed and nobody went,
  whoever is in `Reconcile` leads and whoever leads holds the lease, so there is one.
  `SignedInHand` alone does not say so and is not inductive: a manager that does not
  lead could be about to sign.
- `LifecycleImplemented` is the refinement: initial states map to initial states and
  each action to a step of `CSRLifecycle` or a stutter. It needs of the server's
  objects (`CertInv`) that an absent one has neither certificate nor verdict, that
  kucero's verdict goes with kucero's certificate and the
  kube-controller-manager's certificate with a person's verdict; and, where
  `Reconcile` signs, that the request was recognised and permitted (`WorkInv`), as
  `CSRLifecycle` lets kucero sign entitled requests only.

`KubeadmCertsProofs` proves `TypeOK`, `RenewedInTime`, `BackupKept` and
`RenewedOnlyWhenDue` for any
certificates, periods, delays, lifetimes and numbers of setbacks within the
assumptions of `KubeadmCerts`.

- `CertificatesRenewedInTime` rests on `TimeInv` (a pass begins on a tick and ends
  before the next) and `RoomInv`: each certificate's limit (its end, or for a late
  one the intervals it may take) lies after its next chance of renewal by an interval
  for each setback still to come. `RenewedInTime` says nothing of that reserve and is
  not inductive. `LateInv` says that the check reports a late certificate at once. `SlackStep` and `SlackRoom` do the
  arithmetic of the reserve, `NotDue` that of the check.
- `BackupsKept` rests on `DueInv` (what is listed is due), `AgeInv` (a backup is of
  the certificate in place or a lifetime older than its end), `ReplacedInv` and
  `HandInv`. `StampDistance` shows that equal stamps are at most half a day apart,
  from which `OverwritesNothingElse` concludes that a file that is overwritten is
  a copy of the certificate still in place.
- `RenewalsWhenDue` needs both: a renewal takes a certificate from the list, which is
  due by `DueInv` and, unless it is late, still runs by `RoomInv`.

`KubeletConfigProofs` proves `TypeOK`, `SettingsKept` and `EveryWriteRepairs` for
texts of any length and any edits.

- `SettingsAlwaysKept`: `ReplaceKeepsLines` and `AppendKeepsLines` say what the two
  edits of the text preserve; `YamlInv` and `ConfInv` carry it from the file to the
  content in hand and back, through truncation, death and edits.
- `WritesRepair`: `ReplaceRepairs` shows that the first match of the byte search is
  a wrong text and that one less is left (`LeastPlace` gives the first match of a
  set of lines), `AppendRepairs` that an added line sets the key, and `SameOf` that
  neither touches the other key. `RepairInv` says of the content in hand that it is
  one write ahead of the file; without it the step that writes could be anything.
- `SimpleInOneWrite` follows for texts that say a wrong value at most once, and is
  what joins this module to `RotationLoop`.

`SigningProofs` proves `TypeOK`, `BornValid`, `LifetimeGranted` and `OnePair` for any
authorities, files, requests and durations. `DurationBounds`, `ServingUsages` and
`SignedCertificate` say what the operators give; `LoadedInv` records that a running
signer's pair was accepted and never changes (which is the finding `StaleCA` seen
from the other side), `IssuedInv` what a certificate keeps of the moment it was
made.

Only model-checked: the liveness properties, as fairness is out of the prover's
reach, and the violation runs. For three of them the safety part is proved:
`EveryWriteRepairs` is the measure on which `Converges` rests, `NothingForgotten`
what keeps `EventuallySigned` from waiting for nobody, `IdleHoldsNoLease` what
keeps `DueCertRenewed` from waiting for an idle holder. That a recursive sequence
of updates reaches a fixed point is an induction over data and stays with TLC too.

## Plan

Done: `RotationLoop`, `CSRSigning`, `KubeletConfig`, `KubeadmCerts` and `Signing` with
their runs and proofs, and the refinements of `NodeLease` and `CSRLifecycle`. Left:
the get/update loop of the `daemonsetlock` library with its `resourceVersion`
conflicts, as a second implementation of `NodeLease`; the API version chosen in
`SetupWithManager`; a bound on how long a node can be kept from the lock by one that
needs work at every tick.

## Not modelled

Cryptography and X.509 encoding, command lines, flags, logging, manifests and
the integration script stay out: they are pure input/output or data without
behaviour of their own. So do the inside of the `daemonsetlock` library and of
controller-runtime, which are not part of the repository, the pods a drain
evicts, and the choice between the versions of the certificates API.
