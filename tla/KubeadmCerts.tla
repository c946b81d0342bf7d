----------------------------- MODULE KubeadmCerts -----------------------------
(***************************************************************************)
(* The kubeadm certificates of one control-plane node against the clock    *)
(* (pkg/pki/cert/kubeadm): the shifted polling period of main.go, the      *)
(* expiry that kubeadm prints, the comparison with renew-before, and the   *)
(* backup, named after a 12-hour clock, that precedes each renewal.        *)
(*                                                                         *)
(* A pass may come to nothing: kubeadm fails, another node has the lock,   *)
(* the process dies. RotationLoop says when; here each is a setback.       *)
(***************************************************************************)
EXTENDS Integers

CONSTANTS
    Certs,          \* the names kubeadm lists
    Renewable,      \* the keys of the `certificates` map
    NoCert,         \* "no certificate in hand"
    FirstEnds,      \* when the certificates end that kucero finds at its installation
    PollingPeriod,  \* --polling-period
    RenewBefore,    \* --renew-before
    Lifetime,       \* of what kubeadm issues
    MaxDelay,       \* longest time a pass, or a restart of the pod, takes
    Minute,         \* kubeadm prints no seconds
    HalfDay,        \* the hour in a backup's name starts again
    MaxSetbacks,    \* bound: passes that come to nothing
    MaxTime         \* bound: the clock

Interval == 2 * PollingPeriod + 2 * MaxDelay

ASSUME CertsAssumption ==
    Renewable \subseteq Certs /\ NoCert \notin Certs /\ FirstEnds \subseteq Nat
ASSUME TimesAssumption ==
    /\ PollingPeriod \in Nat \ {0} /\ RenewBefore \in Nat /\ Lifetime \in Nat
    /\ MaxDelay \in Nat /\ Minute \in Nat \ {0} /\ HalfDay \in Nat \ {0}
    /\ MaxSetbacks \in Nat /\ MaxTime \in Nat
\* A pass is over before the next tick.
ASSUME DelayAssumption == MaxDelay <= PollingPeriod
\* Renew-before leaves time for the setbacks that must be survived.
ASSUME RoomAssumption == (MaxSetbacks + 1) * Interval <= RenewBefore
\* A renewed certificate is not due again within half a day. (With the flags of
\* integration/test.sh, 8761 hours for a year's certificate, it is at once.)
ASSUME LifetimeAssumption == RenewBefore + Minute + HalfDay <= Lifetime

VARIABLES
    now,
    pc,                 \* "down", "idle", "rotate"
    period,             \* pollingPeriod after its random shift
    nextTick,           \* of the ticker
    deadline,           \* when the wait for the tick, the pass or the restart is over
    expiryCertificates, \* what Rotate has still to do
    inHand,             \* the certificate that is backed up and not renewed yet
    notAfter,           \* the end of the certificate that is in place
    backups,            \* backup files: which certificate, of which end, when copied
    replaced,           \* history: the certificates renewals have replaced
    late,               \* history: due or ended already at the start, and not renewed yet
    setbacks

clockVars == <<now, period, nextTick>>
hostVars  == <<notAfter, backups, replaced, late>>
passVars  == <<expiryCertificates, inHand>>
vars == <<clockVars, pc, deadline, passVars, hostVars, setbacks>>

Backup == [cert : Renewable, notAfter : Nat, at : Nat]

\* Every variable keeps its type: a certificate in hand is one kucero can renew
\* and is on the list (kubeadm.go:73-78), and the list is empty between passes.
TypeOK ==
    /\ now \in Nat /\ nextTick \in Nat /\ deadline \in Nat
    /\ pc \in {"down", "idle", "rotate"}
    /\ period \in PollingPeriod..(2 * PollingPeriod - 1)
    /\ expiryCertificates \subseteq Certs
    /\ inHand \in (Renewable \cap expiryCertificates) \cup {NoCert}
    /\ notAfter \in [Certs -> Nat]
    /\ backups \subseteq Backup
    /\ replaced \subseteq [cert : Renewable, notAfter : Nat]
    /\ late \subseteq Renewable
    /\ setbacks \in 0..MaxSetbacks
    /\ pc # "rotate" => expiryCertificates = {}

\* kucero comes to a cluster some of whose certificates may be due or have ended.
Init ==
    /\ now = 0 /\ nextTick = 0 /\ deadline = MaxDelay
    /\ pc = "down"
    /\ period = PollingPeriod
    /\ expiryCertificates = {} /\ inHand = NoCert
    /\ notAfter \in [Certs -> FirstEnds]
    /\ backups = {} /\ replaced = {}
    /\ late = {c \in Renewable : notAfter[c] <= RenewBefore}
    /\ setbacks = 0

Setback == setbacks < MaxSetbacks /\ setbacks' = setbacks + 1

-------------------------------------------------------------------------------
(* The ticker and the check.                                               *)

\* root shifts the polling period and time.Tick starts.
Start ==
    /\ pc = "down"
    /\ pc' = "idle"
    /\ \E extra \in 0..(PollingPeriod - 1) :
          /\ period' = PollingPeriod + extra
          /\ nextTick' = now + period'
          /\ deadline' = nextTick'
    /\ UNCHANGED <<now, passVars, hostVars, setbacks>>

\* The expiry as kubeadm prints it and the parser reads it: to the minute.
Printed(t) == t - (t % Minute)

\* Mutant of checkCertificateExpiry: only what has ended is reported.
AlreadyExpired(t) == t < now

checkCertificateExpiry(t) == t < now \/ t - now <= RenewBefore

\* Mutant of CheckExpiration: when one certificate is due, all are reported.
AllOrNothing ==
    IF \E c \in Certs : checkCertificateExpiry(Printed(notAfter[c])) THEN Certs ELSE {}

CheckExpiration == {c \in Certs : checkCertificateExpiry(Printed(notAfter[c]))}

\* A tick: the check, and a rotation if something is due; or kubeadm fails, or
\* the lock is refused, and the next tick tries again.
Poll ==
    /\ pc = "idle" /\ now >= nextTick
    /\ nextTick' = nextTick + period
    /\ \/ /\ expiryCertificates' = CheckExpiration
          /\ pc' = IF CheckExpiration = {} THEN "idle" ELSE "rotate"
          /\ deadline' = IF CheckExpiration = {} THEN nextTick' ELSE now + MaxDelay
          /\ UNCHANGED setbacks
       \/ /\ Setback
          /\ deadline' = nextTick'
          /\ UNCHANGED <<pc, expiryCertificates>>
    /\ UNCHANGED <<now, period, inHand, hostVars>>

-------------------------------------------------------------------------------
(* Rotate.                                                                 *)

\* The time in a backup's name: the day, and the hour of a 12-hour clock.
Stamp(t) == <<t \div (2 * HalfDay), (t % (2 * HalfDay)) % HalfDay>>

\* cp overwrites a file of the same name; one that fails may have emptied it.
SameName(c) == {b \in backups : b.cert = c /\ Stamp(b.at) = Stamp(now)}
Copy(c) ==
    backups' = (backups \ SameName(c)) \cup {[cert |-> c, notAfter |-> notAfter[c], at |-> now]}
CopyFails(c) == backups' \in {backups, backups \ SameName(c)}

\* A name that is not in the `certificates` map is skipped.
Skip(c) ==
    /\ pc = "rotate" /\ inHand = NoCert
    /\ c \in expiryCertificates \ Renewable
    /\ expiryCertificates' = expiryCertificates \ {c}
    /\ UNCHANGED <<clockVars, pc, deadline, inHand, hostVars, setbacks>>

\* Mutants of backupCertificate: a backup that fails is taken for one that
\* succeeded; the list is not shortened and the certificate not looked up.
BackupUnchecked(c) ==
    /\ pc = "rotate" /\ inHand = NoCert
    /\ c \in expiryCertificates \cap Renewable
    /\ inHand' = c
    /\ \/ Copy(c) /\ UNCHANGED setbacks
       \/ Setback /\ CopyFails(c)
    /\ UNCHANGED <<clockVars, pc, deadline, expiryCertificates, notAfter, replaced, late>>
BackupAnyName(c) ==
    /\ pc = "rotate" /\ inHand = NoCert
    /\ c \in expiryCertificates
    /\ inHand' = c /\ Copy(c)
    /\ UNCHANGED <<clockVars, pc, deadline, expiryCertificates, notAfter, replaced, late, setbacks>>

backupCertificate(c) ==
    /\ pc = "rotate" /\ inHand = NoCert
    /\ c \in expiryCertificates \cap Renewable
    /\ \/ /\ Copy(c) /\ inHand' = c
          /\ UNCHANGED <<expiryCertificates, setbacks>>
       \/ /\ CopyFails(c) /\ expiryCertificates' = expiryCertificates \ {c}
          /\ Setback /\ UNCHANGED inHand
    /\ UNCHANGED <<clockVars, pc, deadline, notAfter, replaced, late>>

\* kubeadm certs renew.
rotateCertificate(c) ==
    /\ inHand = c
    /\ inHand' = NoCert
    /\ expiryCertificates' = expiryCertificates \ {c}
    /\ \/ /\ notAfter' = [notAfter EXCEPT ![c] = now + Lifetime]
          /\ replaced' = replaced \cup {[cert |-> c, notAfter |-> notAfter[c]]}
          /\ late' = late \ {c}
          /\ UNCHANGED setbacks
       \/ Setback /\ UNCHANGED <<notAfter, replaced, late>>
    /\ UNCHANGED <<clockVars, pc, deadline, backups>>

\* The list is done with; RotationLoop has the restart of the kubelet.
RotateDone ==
    /\ pc = "rotate" /\ expiryCertificates = {}
    /\ pc' = "idle" /\ deadline' = nextTick
    /\ UNCHANGED <<clockVars, passVars, hostVars, setbacks>>

-------------------------------------------------------------------------------

\* The process ends, wherever it is.
Stop ==
    /\ pc # "down"
    /\ Setback
    /\ pc' = "down" /\ deadline' = now + MaxDelay
    /\ expiryCertificates' = {} /\ inHand' = NoCert
    /\ UNCHANGED <<clockVars, hostVars>>

\* Time passes, up to the next tick or to the end of the allowed delay.
Advance ==
    /\ now < deadline /\ now < MaxTime
    /\ now' = now + 1
    /\ UNCHANGED <<pc, deadline, period, nextTick, passVars, hostVars, setbacks>>

Rotate(c) == Skip(c) \/ backupCertificate(c) \/ rotateCertificate(c)

Next ==
    \/ Start \/ Poll \/ RotateDone \/ Stop \/ Advance
    \/ \E c \in Certs : Rotate(c)

Spec == Init /\ [][Next]_vars

-------------------------------------------------------------------------------
(* Safety.                                                                 *)

\* The time by which a certificate is to be renewed.
Limit(c) == IF c \in late THEN (MaxSetbacks + 1) * Interval ELSE notAfter[c]

\* README.md:11, exec.go:125-138: a certificate kucero can renew never runs out,
\* although the period is shifted by up to itself (main.go:130), the printed
\* expiry is rounded and so many passes come to nothing. One that was due or had
\* ended when kucero was installed is renewed in the first pass that does not
\* come to nothing.
RenewedInTime == \A c \in Renewable : now <= Limit(c)

\* kubeadm.go:78-86, 107: every certificate that a renewal replaced is still in
\* a backup file: it was copied first, and no later backup took its name.
BackupKept ==
    \A old \in replaced :
        \E b \in backups : b.cert = old.cert /\ b.notAfter = old.notAfter

\* exec.go:125-138, kubeadm.go:66-100: however long a pass takes after its check,
\* a certificate is replaced only while it still runs, unless kucero found it due
\* or ended, not before it is due (up to what the printed expiry rounds off), by one that ends half a day later at
\* least: neither a retry nor a restart renews twice.
RenewedOnlyWhenDue ==
    [][\A c \in Certs :
          notAfter'[c] # notAfter[c] =>
              /\ c \in Renewable /\ (c \notin late => now <= notAfter[c])
              /\ notAfter[c] < now + RenewBefore + Minute
              /\ notAfter[c] + HalfDay <= notAfter'[c]]_vars
===============================================================================
