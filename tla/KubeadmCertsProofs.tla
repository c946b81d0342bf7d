--------------------------- MODULE KubeadmCertsProofs -------------------------
(***************************************************************************)
(* TLAPS proofs of the safety properties of KubeadmCerts, for any          *)
(* certificates, polling period, renew-before, lifetime, delay and number  *)
(* of setbacks that the assumptions of that module allow.                  *)
(***************************************************************************)
EXTENDS KubeadmCerts, TLAPS

-------------------------------------------------------------------------------
(* Numbers.                                                                *)

\* The time that the setbacks still to come may cost.
Slack(n) == (MaxSetbacks - n) * Interval

LEMMA IntervalType == Interval \in Nat
BY TimesAssumption DEF Interval

LEMMA ProductType == \A n, i \in Nat : n * i \in Nat
OBVIOUS

LEMMA OneMore == \A n, i \in Nat : (n + 1) * i = n * i + i
OBVIOUS

LEMMA FewerCost == \A m, n, i \in Nat : m <= n => m * i <= n * i
OBVIOUS

\* Renew-before leaves room for an interval and all the setbacks to come.
LEMMA SlackRoom ==
  ASSUME NEW n \in 0..MaxSetbacks
  PROVE  Slack(n) \in Nat /\ Slack(n) + Interval <= RenewBefore
<1> DEFINE k == MaxSetbacks - n
<1>1. k \in Nat /\ k <= MaxSetbacks /\ MaxSetbacks \in Nat
  BY TimesAssumption
<1> HIDE DEF k
<1>2. /\ k * Interval \in Nat /\ MaxSetbacks * Interval \in Nat
      /\ k * Interval <= MaxSetbacks * Interval
  BY <1>1, IntervalType, ProductType, FewerCost
<1>3. (MaxSetbacks + 1) * Interval = MaxSetbacks * Interval + Interval
  BY <1>1, IntervalType, OneMore
<1>4. k * Interval + Interval <= RenewBefore
  BY <1>2, <1>3, IntervalType, RoomAssumption, TimesAssumption
<1>5. Slack(n) = k * Interval
  BY DEF Slack, k
<1>6. QED
  BY <1>2, <1>4, <1>5

\* A setback costs an interval.
LEMMA SlackStep ==
  ASSUME NEW n \in 0..MaxSetbacks, n < MaxSetbacks
  PROVE  Slack(n) = Slack(n + 1) + Interval
<1> DEFINE k == MaxSetbacks - (n + 1)
<1>1. k \in Nat /\ MaxSetbacks - n = k + 1
  BY TimesAssumption
<1> HIDE DEF k
<1>2. (k + 1) * Interval = k * Interval + Interval
  BY <1>1, IntervalType, OneMore
<1>3. Slack(n + 1) = k * Interval /\ Slack(n) = (k + 1) * Interval
  BY <1>1 DEF Slack, k
<1>4. QED
  BY <1>2, <1>3

\* exec.go:92-123: the parsed expiry is at most a minute too early.
LEMMA PrintedBounds ==
  ASSUME NEW t \in Nat
  PROVE  Printed(t) \in Int /\ Printed(t) <= t /\ t < Printed(t) + Minute
<1>1. t % Minute \in 0..(Minute - 1)
  BY TimesAssumption
<1>2. QED
  BY <1>1, TimesAssumption DEF Printed

LEMMA Division ==
  ASSUME NEW a \in Nat, NEW b \in Nat \ {0}
  PROVE  a \div b \in Nat /\ a % b \in 0..(b - 1) /\ a = b * (a \div b) + (a % b)
OBVIOUS

\* kubeadm.go:107: two times with one stamp are at most half a day apart.
LEMMA StampDistance ==
  ASSUME NEW s \in Nat, NEW t \in Nat, Stamp(s) = Stamp(t)
  PROVE  t <= s + HalfDay
<1> DEFINE day == 2 * HalfDay
           q == s \div day
           r == s % day
           u == t % day
<1>1. HalfDay \in Nat \ {0} /\ day \in Nat \ {0}
  BY TimesAssumption
<1>2. t \div day = q /\ r % HalfDay = u % HalfDay
  BY DEF Stamp
<1> HIDE DEF day, q, r, u
<1>3. r \in 0..(day - 1) /\ s = day * q + r
  BY <1>1, Division DEF q, r
<1>4. u \in 0..(day - 1) /\ t = day * q + u
  BY <1>1, <1>2, Division DEF u
<1>5. day * q \in Nat
  BY <1>1, Division, ProductType DEF q
<1>6. u - r <= HalfDay
  <2> DEFINE m == r % HalfDay
             i == r \div HalfDay
             j == u \div HalfDay
  <2>1. r \in Nat /\ u \in Nat
    BY <1>1, <1>3, <1>4
  <2>2. /\ m \in 0..(HalfDay - 1) /\ i \in Nat /\ r = HalfDay * i + m
    BY <1>1, <2>1, Division
  <2>3. /\ j \in Nat /\ u = HalfDay * j + m
    BY <1>1, <1>2, <2>1, Division
  <2>4. HalfDay * i \in Nat /\ HalfDay * j \in Nat
    BY <1>1, <2>2, <2>3, ProductType
  <2>5. day = HalfDay + HalfDay
    BY <1>1 DEF day
  <2> HIDE DEF m, i, j
  <2>6. j <= 1
    <3>1. CASE j >= 2
      <4>1. 2 * HalfDay <= j * HalfDay
        BY <1>1, <2>3, <3>1, FewerCost
      <4>2. j * HalfDay = HalfDay * j
        BY <1>1, <2>3
      <4>3. QED
        BY <1>1, <1>4, <2>2, <2>3, <2>4, <2>5, <4>1, <4>2
    <3>2. QED
      BY <2>3, <3>1
  <2>7. j = 0 \/ j = 1
    BY <2>3, <2>6
  <2>8. HalfDay * j <= HalfDay
    BY <1>1, <2>7
  <2>9. QED
    BY <1>1, <2>2, <2>3, <2>4, <2>8
<1>7. QED
  BY <1>1, <1>3, <1>4, <1>5, <1>6

-------------------------------------------------------------------------------
(* The inductive invariant.                                                *)

\* The ticker: a pass begins on a tick, ends before the next one, and a tick is
\* less than two polling periods after the last.
TimeInv ==
    /\ pc # "idle" => now <= deadline
    /\ pc = "idle" => deadline = nextTick /\ now <= nextTick
    /\ pc = "rotate" =>
          /\ deadline <= now + MaxDelay /\ deadline <= nextTick
          /\ nextTick + MaxDelay < deadline + 2 * PollingPeriod

\* A certificate's limit is not before the next chance to renew it, and the time
\* of every setback that may still come.
RoomInv ==
    \A c \in Renewable :
        /\ pc = "down" =>
              deadline + 2 * PollingPeriod + MaxDelay + Slack(setbacks) <= Limit(c)
        /\ c \in expiryCertificates => deadline + Slack(setbacks) <= Limit(c)
        /\ pc # "down" /\ c \notin expiryCertificates =>
              nextTick + MaxDelay + Slack(setbacks) <= Limit(c)

\* What was due at the start and is not renewed is due.
LateInv == \A c \in late : notAfter[c] <= RenewBefore

\* What is on the list is due.
DueInv == \A c \in expiryCertificates : Printed(notAfter[c]) <= now + RenewBefore

\* A backup is of the certificate in place, or of one that was replaced later on.
AgeInv ==
    \A b \in backups :
        /\ b.at <= now
        /\ b.notAfter = notAfter[b.cert] \/ b.at + Lifetime <= notAfter[b.cert]

\* The certificate in hand has a backup.
HandInv ==
    inHand # NoCert => \E b \in backups : b.cert = inHand /\ b.notAfter = notAfter[inHand]

\* What a renewal replaced ended before what is in place.
ReplacedInv == \A old \in replaced : old.notAfter < notAfter[old.cert]

BackupInv == DueInv /\ AgeInv /\ HandInv /\ ReplacedInv /\ BackupKept

Inv == TypeOK /\ TimeInv /\ RoomInv /\ LateInv /\ BackupInv

\* The facts about time that every step uses.
LEMMA Times ==
  ASSUME TypeOK
  PROVE  /\ now \in Nat /\ nextTick \in Nat /\ deadline \in Nat /\ period \in Nat
         /\ PollingPeriod <= period /\ period < 2 * PollingPeriod
         /\ PollingPeriod \in Nat /\ MaxDelay \in Nat /\ RenewBefore \in Nat
         /\ Lifetime \in Nat /\ Minute \in Nat /\ HalfDay \in Nat
         /\ MaxDelay <= PollingPeriod /\ Interval = 2 * PollingPeriod + 2 * MaxDelay
         /\ RenewBefore + Minute + HalfDay <= Lifetime
         /\ Slack(setbacks) \in Nat /\ Slack(setbacks) + Interval <= RenewBefore
         /\ \A c \in Renewable : c \in Certs /\ notAfter[c] \in Nat /\ Limit(c) \in Nat
<1>1. Slack(setbacks) \in Nat /\ Slack(setbacks) + Interval <= RenewBefore
  BY SlackRoom DEF TypeOK
<1>2. \A c \in Renewable : c \in Certs /\ notAfter[c] \in Nat
  BY CertsAssumption DEF TypeOK
<1>3. (MaxSetbacks + 1) * Interval \in Nat
  BY IntervalType, ProductType, TimesAssumption
<1>4. \A c \in Renewable : Limit(c) \in Nat
  BY <1>2, <1>3 DEF Limit
<1>5. QED
  BY <1>1, <1>2, <1>4, TimesAssumption, DelayAssumption, LifetimeAssumption DEF TypeOK, Interval

\* The limits are those of the certificates in place.
LEMMA LimitFrame ==
  ASSUME UNCHANGED <<notAfter, late>>
  PROVE  (\A c \in Renewable : Limit(c)' = Limit(c)) /\ (LateInv => LateInv')
BY DEF Limit, LateInv

LEMMA SetbackSlack ==
  ASSUME TypeOK, Setback
  PROVE  /\ setbacks' \in 0..MaxSetbacks /\ Slack(setbacks') \in Nat
         /\ Slack(setbacks) = Slack(setbacks') + 2 * PollingPeriod + 2 * MaxDelay
<1>1. setbacks \in 0..MaxSetbacks /\ setbacks < MaxSetbacks /\ setbacks' = setbacks + 1
  BY DEF TypeOK, Setback
<1>2. setbacks' \in 0..MaxSetbacks
  BY <1>1, TimesAssumption
<1>3. Slack(setbacks) = Slack(setbacks') + Interval
  BY <1>1, SlackStep
<1>4. Slack(setbacks') \in Nat
  BY <1>2, SlackRoom
<1>5. QED
  BY <1>2, <1>3, <1>4, TimesAssumption DEF Interval

\* At first: the first chance, and all the setbacks to come, are before any limit.
LEMMA InitInv == Init => Inv
<1> SUFFICES ASSUME Init PROVE Inv
  OBVIOUS
<1>1. TypeOK
  <2>1. notAfter \in [Certs -> Nat]
    BY CertsAssumption DEF Init
  <2>2. QED
    BY <2>1, TimesAssumption DEF Init, TypeOK
<1>2. TimeInv
  BY <1>1, Times DEF Init, TimeInv
<1>3. RoomInv
  <2> SUFFICES ASSUME NEW c \in Renewable
               PROVE  deadline + 2 * PollingPeriod + MaxDelay + Slack(setbacks) <= Limit(c)
    BY DEF Init, RoomInv
  <2>1. deadline + 2 * PollingPeriod + MaxDelay + Slack(setbacks) = Slack(setbacks) + Interval
    BY <1>1, Times DEF Init
  <2>2. CASE c \in late
    <3>1. Slack(setbacks) + Interval = (MaxSetbacks + 1) * Interval
      BY IntervalType, OneMore, TimesAssumption DEF Init, Slack
    <3>2. Limit(c) = (MaxSetbacks + 1) * Interval /\ Limit(c) \in Nat
      BY <1>1, <2>2, Times DEF Limit
    <3>3. QED
      BY <2>1, <3>1, <3>2
  <2>3. CASE c \notin late
    <3>1. notAfter[c] \in Nat /\ ~(notAfter[c] <= RenewBefore)
      BY <1>1, <2>3, Times DEF Init
    <3>2. Limit(c) = notAfter[c]
      BY <2>3 DEF Limit
    <3>3. Slack(setbacks) + Interval <= RenewBefore /\ Slack(setbacks) \in Nat /\ RenewBefore \in Nat
      BY <1>1, Times
    <3>4. QED
      BY <2>1, <3>1, <3>2, <3>3, IntervalType
  <2>4. QED
    BY <2>2, <2>3
<1>4. BackupInv /\ LateInv
  BY DEF Init, BackupInv, DueInv, AgeInv, HandInv, ReplacedInv, BackupKept, LateInv
<1>5. QED
  BY <1>1, <1>2, <1>3, <1>4 DEF Inv

\* Steps that touch neither the certificates nor the backups.
LEMMA BackupFrame ==
  ASSUME Inv, now' \in Nat, now <= now', UNCHANGED <<notAfter, backups, replaced>>,
         inHand' = inHand \/ inHand' = NoCert,
         \A c \in expiryCertificates' : Printed(notAfter[c]) <= now' + RenewBefore
  PROVE  BackupInv'
<1>1. DueInv'
  BY DEF DueInv, Printed
<1>2. AgeInv'
  <2> SUFFICES ASSUME NEW b \in backups
               PROVE  /\ b.at <= now'
                      /\ b.notAfter = notAfter[b.cert] \/ b.at + Lifetime <= notAfter[b.cert]
    BY DEF AgeInv
  <2>1. b.at \in Nat /\ now \in Nat
    BY DEF Inv, TypeOK, Backup
  <2>2. QED
    BY <2>1 DEF Inv, BackupInv, AgeInv
<1>3. HandInv'
  BY DEF Inv, BackupInv, HandInv
<1>4. ReplacedInv' /\ BackupKept'
  BY DEF Inv, BackupInv, ReplacedInv, BackupKept
<1>5. QED
  BY <1>1, <1>2, <1>3, <1>4 DEF BackupInv

\* What is on the list stays due while time passes.
LEMMA StaysDue ==
  ASSUME Inv, now' \in Nat, now <= now', NEW S \in SUBSET expiryCertificates
  PROVE  \A c \in S : Printed(notAfter[c]) <= now' + RenewBefore
<1> SUFFICES ASSUME NEW c \in S PROVE Printed(notAfter[c]) <= now' + RenewBefore
  OBVIOUS
<1>1. notAfter[c] \in Nat /\ now \in Nat
  BY DEF Inv, TypeOK
<1>2. Printed(notAfter[c]) \in Int
  BY <1>1, PrintedBounds
<1>3. Printed(notAfter[c]) <= now + RenewBefore
  BY DEF Inv, BackupInv, DueInv
<1>4. QED
  BY <1>1, <1>2, <1>3, TimesAssumption

\* main.go:130, 225: the shift and the ticker.
LEMMA StartInv == ASSUME Inv, Start PROVE Inv'
<1> USE DEF Inv
<1>1. PICK extra \in 0..(PollingPeriod - 1) :
        /\ period' = PollingPeriod + extra /\ nextTick' = now + period'
        /\ deadline' = nextTick'
  BY DEF Start
<1>2. /\ pc = "down" /\ pc' = "idle"
      /\ UNCHANGED <<now, expiryCertificates, inHand, notAfter, backups, replaced, late, setbacks>>
  BY DEF Start, passVars, hostVars
<1>3. /\ period' \in PollingPeriod..(2 * PollingPeriod - 1)
      /\ nextTick' \in Nat /\ now <= nextTick' /\ nextTick' < now + 2 * PollingPeriod
  BY <1>1, TimesAssumption DEF TypeOK
<1>4. TypeOK'
  BY <1>1, <1>2, <1>3 DEF TypeOK
<1>5. TimeInv'
  BY <1>1, <1>2, <1>3 DEF TimeInv
<1>6. RoomInv'
  <2> SUFFICES ASSUME NEW c \in Renewable
               PROVE  nextTick' + MaxDelay + Slack(setbacks) <= Limit(c)
    BY <1>2, LimitFrame DEF RoomInv, TypeOK
  <2>1. deadline + 2 * PollingPeriod + MaxDelay + Slack(setbacks) <= Limit(c)
    BY <1>2 DEF RoomInv
  <2>2. now <= deadline
    BY <1>2 DEF TimeInv
  <2>3. QED
    BY <1>3, <2>1, <2>2, Times
<1>7. BackupInv'
  BY <1>2, StaysDue, BackupFrame, Times
<1>8. LateInv'
  BY <1>2, LimitFrame
<1>9. QED
  BY <1>4, <1>5, <1>6, <1>7, <1>8

\* What the check does not report outlasts an interval and all setbacks.
LEMMA NotDue ==
  ASSUME TypeOK, LateInv, NEW c \in Renewable, c \notin CheckExpiration
  PROVE  now + Interval + Slack(setbacks) <= Limit(c)
<1>1. c \in Certs /\ notAfter[c] \in Nat /\ now \in Nat
  BY Times
<1>2. Printed(notAfter[c]) \in Int /\ Printed(notAfter[c]) <= notAfter[c]
  BY <1>1, PrintedBounds
<1>3. ~(Printed(notAfter[c]) < now \/ Printed(notAfter[c]) - now <= RenewBefore)
  BY <1>1 DEF CheckExpiration, checkCertificateExpiry
<1>4. RenewBefore \in Nat /\ Interval \in Nat /\ Slack(setbacks) \in Nat
      /\ Slack(setbacks) + Interval <= RenewBefore
  BY Times, IntervalType
<1>5. c \notin late
  BY <1>1, <1>2, <1>3, <1>4 DEF LateInv
<1>6. QED
  BY <1>1, <1>2, <1>3, <1>4, <1>5 DEF Limit

\* What it does report is due.
LEMMA IsDue ==
  ASSUME TypeOK, NEW c \in CheckExpiration
  PROVE  Printed(notAfter[c]) <= now + RenewBefore
<1>1. c \in Certs /\ notAfter[c] \in Nat /\ now \in Nat
  BY DEF CheckExpiration, TypeOK
<1>2. Printed(notAfter[c]) \in Int
  BY <1>1, PrintedBounds
<1>3. Printed(notAfter[c]) < now \/ Printed(notAfter[c]) - now <= RenewBefore
  BY DEF CheckExpiration, checkCertificateExpiry
<1>4. QED
  BY <1>1, <1>2, <1>3, TimesAssumption

\* exec.go:33-70: the check.
LEMMA PollInv == ASSUME Inv, Poll PROVE Inv'
<1> USE DEF Inv
<1>1. /\ pc = "idle" /\ nextTick <= now /\ nextTick' = nextTick + period
      /\ UNCHANGED <<now, period, inHand, notAfter, backups, replaced, late>>
  BY DEF Poll, hostVars
<1>2. now = nextTick /\ deadline = nextTick
  BY <1>1, Times DEF TimeInv
<1>3. /\ nextTick' \in Nat /\ now <= nextTick' /\ nextTick' < now + 2 * PollingPeriod
      /\ now + MaxDelay <= nextTick' /\ now + MaxDelay \in Nat
  BY <1>1, <1>2, Times
<1>4. expiryCertificates = {}
  BY <1>1 DEF TypeOK
<1>5. \A c \in Renewable : nextTick + MaxDelay + Slack(setbacks) <= Limit(c)
  BY <1>1, <1>4 DEF RoomInv
<1>6. CASE /\ expiryCertificates' = CheckExpiration
           /\ pc' = IF CheckExpiration = {} THEN "idle" ELSE "rotate"
           /\ deadline' = IF CheckExpiration = {} THEN nextTick' ELSE now + MaxDelay
           /\ UNCHANGED setbacks
  <2>1. CheckExpiration \subseteq Certs
    BY DEF CheckExpiration
  <2>2. inHand = NoCert
    BY <1>4 DEF TypeOK
  <2>3. TypeOK'
    BY <1>1, <1>3, <1>6, <2>1, <2>2 DEF TypeOK
  <2>4. TimeInv'
    BY <1>1, <1>3, <1>6, Times DEF TimeInv
  <2>5. RoomInv'
    <3> SUFFICES ASSUME NEW c \in Renewable
                 PROVE  /\ c \in CheckExpiration => deadline' + Slack(setbacks) <= Limit(c)
                        /\ c \notin CheckExpiration =>
                              nextTick' + MaxDelay + Slack(setbacks) <= Limit(c)
      BY <1>1, <1>6, LimitFrame DEF RoomInv
    <3>1. CASE c \in CheckExpiration
      <4>1. deadline' = nextTick + MaxDelay
        BY <1>2, <1>6, <3>1
      <4>2. QED
        BY <1>5, <3>1, <4>1
    <3>2. CASE c \notin CheckExpiration
      <4>1. now + Interval + Slack(setbacks) <= Limit(c)
        BY <3>2, NotDue
      <4>2. nextTick' + MaxDelay + Slack(setbacks) <= Limit(c)
        BY <1>3, <4>1, Times
      <4>3. QED
        BY <3>2, <4>2
    <3>3. QED
      BY <3>1, <3>2
  <2>6. BackupInv'
    BY <1>1, <1>6, IsDue, BackupFrame, Times
  <2>7. LateInv'
    BY <1>1, LimitFrame
  <2>8. QED
    BY <2>3, <2>4, <2>5, <2>6, <2>7
<1>7. CASE Setback /\ deadline' = nextTick' /\ UNCHANGED <<pc, expiryCertificates>>
  <2>1. TypeOK'
    BY <1>1, <1>3, <1>4, <1>7, SetbackSlack DEF TypeOK
  <2>2. TimeInv'
    BY <1>1, <1>3, <1>7 DEF TimeInv
  <2>3. RoomInv'
    <3> SUFFICES ASSUME NEW c \in Renewable
                 PROVE  nextTick' + MaxDelay + Slack(setbacks') <= Limit(c)
      BY <1>1, <1>4, <1>7, LimitFrame DEF RoomInv
    <3>1. nextTick + MaxDelay + Slack(setbacks) <= Limit(c)
      BY <1>5
    <3>2. QED
      BY <1>2, <1>3, <1>7, <3>1, SetbackSlack, Times
  <2>4. BackupInv'
    BY <1>1, <1>4, <1>7, BackupFrame, Times
  <2>5. LateInv'
    BY <1>1, LimitFrame
  <2>6. QED
    BY <2>1, <2>2, <2>3, <2>4, <2>5
<1>8. QED
  BY <1>6, <1>7 DEF Poll

\* A certificate that leaves the list unrenewed has the next tick to come.
LEMMA PutOff ==
  ASSUME Inv, Setback, NEW c \in Renewable \cap expiryCertificates
  PROVE  /\ nextTick + MaxDelay + Slack(setbacks') <= Limit(c)
         /\ now + MaxDelay + 2 * PollingPeriod + MaxDelay + Slack(setbacks') <= Limit(c)
<1>1. pc = "rotate"
  BY DEF Inv, TypeOK
<1>2. deadline + Slack(setbacks) <= Limit(c)
  BY DEF Inv, RoomInv
<1>3. now <= deadline /\ nextTick + MaxDelay < deadline + 2 * PollingPeriod
  BY <1>1 DEF Inv, TimeInv
<1>4. QED
  BY <1>2, <1>3, SetbackSlack, Times DEF Inv

\* The room of the others after a setback in a rotation.
LEMMA RoomAfterSetback ==
  ASSUME Inv, Setback, NEW c \in Renewable, pc = "rotate"
  PROVE  /\ c \in expiryCertificates => deadline + Slack(setbacks') <= Limit(c)
         /\ c \notin expiryCertificates =>
               nextTick + MaxDelay + Slack(setbacks') <= Limit(c)
BY SetbackSlack, Times DEF Inv, RoomInv

\* kubeadm.go:32-43, 73-77: an unknown name is skipped.
LEMMA SkipInv == ASSUME Inv, NEW c \in Certs, Skip(c) PROVE Inv'
<1> USE DEF Inv
<1>1. /\ pc = "rotate" /\ inHand = NoCert /\ c \notin Renewable
      /\ expiryCertificates' = expiryCertificates \ {c}
      /\ UNCHANGED <<now, period, nextTick, pc, deadline, inHand, notAfter, backups,
                     replaced, late, setbacks>>
  BY DEF Skip, clockVars, hostVars
<1>2. TypeOK'
  BY <1>1 DEF TypeOK
<1>3. TimeInv'
  BY <1>1 DEF TimeInv
<1>4. RoomInv' /\ LateInv'
  BY <1>1, LimitFrame DEF RoomInv
<1>5. BackupInv'
  BY <1>1, StaysDue, BackupFrame, Times
<1>6. QED
  BY <1>2, <1>3, <1>4, <1>5

\* kubeadm.go:107: the file that a backup overwrites is of the certificate that is
\* still in place.
LEMMA OverwritesNothingElse ==
  ASSUME Inv, NEW c \in Renewable \cap expiryCertificates,
         NEW b \in backups, b.cert = c, Stamp(b.at) = Stamp(now)
  PROVE  b.notAfter = notAfter[c]
<1>1. /\ b.at \in Nat /\ now \in Nat /\ notAfter[c] \in Nat
  BY Times DEF Inv, TypeOK, Backup
<1>2. now <= b.at + HalfDay
  BY <1>1, StampDistance
<1>3. Printed(notAfter[c]) <= now + RenewBefore
  BY DEF Inv, BackupInv, DueInv
<1>4. Printed(notAfter[c]) \in Int /\ notAfter[c] < Printed(notAfter[c]) + Minute
  BY <1>1, PrintedBounds
<1>5. ~(b.at + Lifetime <= notAfter[c])
  BY <1>1, <1>2, <1>3, <1>4, Times DEF Inv
<1>6. QED
  BY <1>5 DEF Inv, BackupInv, AgeInv

\* kubeadm.go:99-118: the copy.
LEMMA CopyInv ==
  ASSUME Inv, NEW c \in Renewable \cap expiryCertificates, Copy(c), inHand' = c,
         UNCHANGED <<now, notAfter, replaced, expiryCertificates>>
  PROVE  BackupInv' /\ backups' \subseteq Backup
<1> DEFINE new == [cert |-> c, notAfter |-> notAfter[c], at |-> now]
<1>1. new \in Backup
  BY Times DEF Inv, Backup
<1>2. backups' = {b \in backups : b.cert # c \/ Stamp(b.at) # Stamp(now)} \cup {new}
  BY DEF Copy, SameName
<1>3. new.cert = c /\ new.notAfter = notAfter[c] /\ new.at = now
  OBVIOUS
<1> HIDE DEF new
<1>4. backups' \subseteq Backup
  BY <1>1, <1>2 DEF Inv, TypeOK
<1>5. DueInv'
  BY DEF Inv, BackupInv, DueInv, Printed
<1>6. AgeInv'
  <2> SUFFICES ASSUME NEW b \in backups'
               PROVE  /\ b.at <= now
                      /\ b.notAfter = notAfter[b.cert] \/ b.at + Lifetime <= notAfter[b.cert]
    BY DEF AgeInv
  <2>1. CASE b = new
    BY <1>3, <2>1, Times DEF Inv
  <2>2. CASE b \in backups
    BY <2>2 DEF Inv, BackupInv, AgeInv
  <2>3. QED
    BY <1>2, <2>1, <2>2
<1>7. HandInv' /\ ReplacedInv'
  BY <1>2, <1>3 DEF HandInv, Inv, BackupInv, ReplacedInv
<1>8. BackupKept'
  <2> SUFFICES ASSUME NEW old \in replaced
               PROVE  \E b \in backups' : b.cert = old.cert /\ b.notAfter = old.notAfter
    BY DEF BackupKept
  <2>1. PICK b \in backups : b.cert = old.cert /\ b.notAfter = old.notAfter
    BY DEF Inv, BackupInv, BackupKept
  <2>2. CASE b.cert # c \/ Stamp(b.at) # Stamp(now)
    BY <1>2, <2>1, <2>2
  <2>3. CASE b.cert = c /\ Stamp(b.at) = Stamp(now)
    BY <1>2, <1>3, <2>1, <2>3, OverwritesNothingElse
  <2>4. QED
    BY <2>2, <2>3
<1>9. QED
  BY <1>4, <1>5, <1>6, <1>7, <1>8 DEF BackupInv

\* A copy that fails may destroy the file it would have overwritten.
LEMMA CopyFailsInv ==
  ASSUME Inv, NEW c \in Renewable \cap expiryCertificates, CopyFails(c), inHand' = NoCert,
         UNCHANGED <<now, notAfter, replaced>>, expiryCertificates' = expiryCertificates \ {c}
  PROVE  BackupInv' /\ backups' \subseteq Backup
<1>1. backups' = backups \/ backups' = backups \ SameName(c)
  BY DEF CopyFails
<1>2. backups' \subseteq backups
  BY <1>1
<1>3. DueInv'
  BY DEF Inv, BackupInv, DueInv, Printed
<1>4. AgeInv' /\ HandInv' /\ ReplacedInv'
  BY <1>2 DEF Inv, BackupInv, AgeInv, HandInv, ReplacedInv
<1>5. BackupKept'
  <2> SUFFICES ASSUME NEW old \in replaced
               PROVE  \E b \in backups' : b.cert = old.cert /\ b.notAfter = old.notAfter
    BY DEF BackupKept
  <2>1. PICK b \in backups : b.cert = old.cert /\ b.notAfter = old.notAfter
    BY DEF Inv, BackupInv, BackupKept
  <2>2. b \notin SameName(c)
    <3> SUFFICES ASSUME b.cert = c, Stamp(b.at) = Stamp(now) PROVE FALSE
      BY DEF SameName
    <3>1. b.notAfter = notAfter[c]
      BY OverwritesNothingElse
    <3>2. old.notAfter < notAfter[c]
      BY <2>1 DEF Inv, BackupInv, ReplacedInv
    <3>3. notAfter[c] \in Nat
      BY Times DEF Inv
    <3>4. QED
      BY <2>1, <3>1, <3>2, <3>3
  <2>3. QED
    BY <1>1, <2>1, <2>2
<1>6. QED
  BY <1>2, <1>3, <1>4, <1>5 DEF Inv, TypeOK, BackupInv

LEMMA backupCertificateInv ==
  ASSUME Inv, NEW c \in Certs, backupCertificate(c) PROVE Inv'
<1> USE DEF Inv
<1>1. /\ pc = "rotate" /\ inHand = NoCert /\ c \in Renewable \cap expiryCertificates
      /\ UNCHANGED <<now, period, nextTick, pc, deadline, notAfter, replaced, late>>
  BY DEF backupCertificate, clockVars
<1>2. CASE Copy(c) /\ inHand' = c /\ UNCHANGED <<expiryCertificates, setbacks>>
  <2>1. BackupInv' /\ backups' \subseteq Backup
    BY <1>1, <1>2, CopyInv
  <2>2. TypeOK'
    BY <1>1, <1>2, <2>1 DEF TypeOK
  <2>3. TimeInv' /\ RoomInv' /\ LateInv'
    BY <1>1, <1>2, LimitFrame DEF TimeInv, RoomInv
  <2>4. QED
    BY <2>1, <2>2, <2>3
<1>3. CASE /\ CopyFails(c) /\ expiryCertificates' = expiryCertificates \ {c}
           /\ Setback /\ UNCHANGED inHand
  <2>1. BackupInv' /\ backups' \subseteq Backup
    BY <1>1, <1>3, CopyFailsInv
  <2>2. TypeOK'
    BY <1>1, <1>3, <2>1, SetbackSlack DEF TypeOK
  <2>3. TimeInv'
    BY <1>1, <1>3 DEF TimeInv
  <2>4. RoomInv' /\ LateInv'
    BY <1>1, <1>3, PutOff, RoomAfterSetback, LimitFrame DEF RoomInv
  <2>5. QED
    BY <2>1, <2>2, <2>3, <2>4
<1>4. QED
  BY <1>2, <1>3 DEF backupCertificate

\* kubeadm.go:120-131, exec.go:72-90: the renewal.
LEMMA rotateCertificateInv ==
  ASSUME Inv, NEW c \in Certs, rotateCertificate(c) PROVE Inv'
<1> USE DEF Inv
<1>1. /\ inHand = c /\ inHand' = NoCert /\ expiryCertificates' = expiryCertificates \ {c}
      /\ UNCHANGED <<now, period, nextTick, pc, deadline, backups>>
  BY DEF rotateCertificate, clockVars
<1>2. c \in Renewable \cap expiryCertificates /\ pc = "rotate"
  BY <1>1, CertsAssumption DEF TypeOK
<1>3. CASE /\ notAfter' = [notAfter EXCEPT ![c] = now + Lifetime]
           /\ replaced' = replaced \cup {[cert |-> c, notAfter |-> notAfter[c]]}
           /\ late' = late \ {c} /\ UNCHANGED setbacks
  <2>1. now + Lifetime \in Nat /\ notAfter[c] \in Nat
    BY <1>2, Times
  <2>2. notAfter'[c] = now + Lifetime /\ \A d \in Certs \ {c} : notAfter'[d] = notAfter[d]
    BY <1>3 DEF TypeOK
  <2>3. TypeOK'
    BY <1>1, <1>2, <1>3, <2>1 DEF TypeOK
  <2>4. TimeInv'
    BY <1>1, <1>3 DEF TimeInv
  <2>5. RoomInv'
    <3> SUFFICES ASSUME NEW d \in Renewable
                 PROVE  /\ d \in expiryCertificates \ {c} =>
                              deadline + Slack(setbacks) <= Limit(d)'
                        /\ d \notin expiryCertificates \ {c} =>
                              nextTick + MaxDelay + Slack(setbacks) <= Limit(d)'
      BY <1>1, <1>2, <1>3 DEF RoomInv
    <3>1. CASE d = c
      <4>1. /\ deadline <= now + MaxDelay
            /\ nextTick + MaxDelay < deadline + 2 * PollingPeriod
        BY <1>2 DEF TimeInv
      <4>2. nextTick + MaxDelay + Slack(setbacks) <= notAfter'[c]
        BY <2>2, <4>1, Times
      <4>3. Limit(c)' = notAfter'[c]
        BY <1>3 DEF Limit
      <4>4. QED
        BY <3>1, <4>2, <4>3
    <3>2. CASE d # c
      <4>1. Limit(d)' = Limit(d)
        BY <1>3, <2>2, <3>2, Times DEF Limit
      <4>2. QED
        BY <1>2, <3>2, <4>1 DEF RoomInv
    <3>3. QED
      BY <3>1, <3>2
  <2>6. DueInv'
    <3> SUFFICES ASSUME NEW d \in expiryCertificates \ {c}
                 PROVE  Printed(notAfter'[d]) <= now + RenewBefore
      BY <1>1 DEF DueInv, Printed
    <3>1. notAfter'[d] = notAfter[d]
      BY <2>2 DEF TypeOK
    <3>2. QED
      BY <3>1 DEF BackupInv, DueInv
  <2>7. AgeInv'
    <3> SUFFICES ASSUME NEW b \in backups
                 PROVE  /\ b.at <= now
                        /\ \/ b.notAfter = notAfter'[b.cert]
                           \/ b.at + Lifetime <= notAfter'[b.cert]
      BY <1>1 DEF AgeInv
    <3>1. b.at \in Nat /\ b.at <= now /\ b.cert \in Certs
      BY CertsAssumption DEF TypeOK, Backup, BackupInv, AgeInv
    <3>2. CASE b.cert = c
      BY <2>2, <3>1, <3>2, Times
    <3>3. CASE b.cert # c
      BY <2>2, <3>1, <3>3 DEF BackupInv, AgeInv
    <3>4. QED
      BY <3>2, <3>3
  <2>8. HandInv'
    BY <1>1 DEF HandInv
  <2>9. BackupKept'
    <3> DEFINE new == [cert |-> c, notAfter |-> notAfter[c]]
    <3>1. new.cert = c /\ new.notAfter = notAfter[c] /\ replaced' = replaced \cup {new}
      BY <1>3
    <3> HIDE DEF new
    <3>2. c # NoCert
      BY CertsAssumption
    <3>3. \E b \in backups : b.cert = c /\ b.notAfter = notAfter[c]
      BY <1>1, <3>2 DEF BackupInv, HandInv
    <3>4. QED
      BY <1>1, <3>1, <3>3 DEF BackupInv, BackupKept
  <2>10. ReplacedInv'
    <3> DEFINE new == [cert |-> c, notAfter |-> notAfter[c]]
    <3>1. new.cert = c /\ new.notAfter = notAfter[c] /\ replaced' = replaced \cup {new}
      BY <1>3
    <3> HIDE DEF new
    <3>2. notAfter[c] < now + Lifetime
      <4>1. Printed(notAfter[c]) <= now + RenewBefore
        BY <1>2 DEF BackupInv, DueInv
      <4>2. Printed(notAfter[c]) \in Int /\ notAfter[c] < Printed(notAfter[c]) + Minute
        BY <2>1, PrintedBounds
      <4>3. QED
        BY <2>1, <4>1, <4>2, Times, TimesAssumption
    <3>3. ASSUME NEW old \in replaced PROVE old.notAfter < notAfter'[old.cert]
      <4>1. /\ old.cert \in Certs /\ old.notAfter \in Nat
            /\ old.notAfter < notAfter[old.cert]
        BY CertsAssumption DEF TypeOK, BackupInv, ReplacedInv
      <4>2. CASE old.cert = c
        BY <2>1, <2>2, <3>2, <4>1, <4>2
      <4>3. CASE old.cert # c
        BY <2>2, <4>1, <4>3
      <4>4. QED
        BY <4>2, <4>3
    <3>4. QED
      BY <2>2, <3>1, <3>2, <3>3 DEF ReplacedInv
  <2>11. LateInv'
    BY <1>3, <2>2, Times DEF LateInv
  <2>12. QED
    BY <2>3, <2>4, <2>5, <2>6, <2>7, <2>8, <2>9, <2>10, <2>11 DEF BackupInv
<1>4. CASE Setback /\ UNCHANGED <<notAfter, replaced, late>>
  <2>1. TypeOK'
    BY <1>1, <1>4, SetbackSlack DEF TypeOK
  <2>2. TimeInv'
    BY <1>1, <1>4 DEF TimeInv
  <2>3. RoomInv' /\ LateInv'
    BY <1>1, <1>2, <1>4, PutOff, RoomAfterSetback, LimitFrame DEF RoomInv
  <2>4. BackupInv'
    BY <1>1, <1>4, StaysDue, BackupFrame, Times
  <2>5. QED
    BY <2>1, <2>2, <2>3, <2>4
<1>5. QED
  BY <1>3, <1>4 DEF rotateCertificate

\* The end of a rotation.
LEMMA RotateDoneInv == ASSUME Inv, RotateDone PROVE Inv'
<1> USE DEF Inv
<1>1. /\ pc = "rotate" /\ expiryCertificates = {} /\ pc' = "idle" /\ deadline' = nextTick
      /\ UNCHANGED <<now, period, nextTick, expiryCertificates, inHand, notAfter, backups,
                     replaced, late, setbacks>>
  BY DEF RotateDone, clockVars, passVars, hostVars
<1>2. TypeOK'
  BY <1>1 DEF TypeOK
<1>3. TimeInv'
  BY <1>1, Times DEF TimeInv
<1>4. RoomInv' /\ LateInv'
  BY <1>1, LimitFrame DEF RoomInv
<1>5. BackupInv'
  BY <1>1, BackupFrame, Times
<1>6. QED
  BY <1>2, <1>3, <1>4, <1>5

\* A death anywhere.
LEMMA StopInv == ASSUME Inv, Stop PROVE Inv'
<1> USE DEF Inv
<1>1. /\ pc # "down" /\ Setback /\ pc' = "down" /\ deadline' = now + MaxDelay
      /\ expiryCertificates' = {} /\ inHand' = NoCert
      /\ UNCHANGED <<now, period, nextTick, notAfter, backups, replaced, late>>
  BY DEF Stop, clockVars, hostVars
<1>2. TypeOK'
  <2>1. now + MaxDelay \in Nat
    BY Times
  <2>2. QED
    BY <1>1, <2>1, SetbackSlack DEF TypeOK
<1>3. TimeInv'
  BY <1>1, Times DEF TimeInv
<1>4. RoomInv'
  <2> SUFFICES ASSUME NEW c \in Renewable
               PROVE  now + MaxDelay + 2 * PollingPeriod + MaxDelay + Slack(setbacks')
                        <= Limit(c)
    BY <1>1, LimitFrame DEF RoomInv
  <2>1. CASE c \in expiryCertificates
    BY <1>1, <2>1, PutOff
  <2>2. CASE c \notin expiryCertificates
    <3>1. nextTick + MaxDelay + Slack(setbacks) <= Limit(c)
      BY <1>1, <2>2 DEF RoomInv
    <3>2. now <= nextTick
      BY <1>1, Times DEF TimeInv, TypeOK
    <3>3. QED
      BY <1>1, <3>1, <3>2, SetbackSlack, Times
  <2>3. QED
    BY <2>1, <2>2
<1>5. BackupInv' /\ LateInv'
  BY <1>1, BackupFrame, LimitFrame, Times
<1>6. QED
  BY <1>2, <1>3, <1>4, <1>5

\* The clock.
LEMMA AdvanceInv == ASSUME Inv, Advance PROVE Inv'
<1> USE DEF Inv
<1>1. /\ now < deadline /\ now' = now + 1
      /\ UNCHANGED <<pc, deadline, period, nextTick, expiryCertificates, inHand, notAfter,
                     backups, replaced, late, setbacks>>
  BY DEF Advance, passVars, hostVars
<1>2. TypeOK'
  BY <1>1 DEF TypeOK
<1>3. TimeInv'
  BY <1>1, Times DEF TimeInv
<1>4. RoomInv' /\ LateInv'
  BY <1>1, LimitFrame DEF RoomInv
<1>5. BackupInv'
  <2>1. now' \in Nat /\ now <= now'
    BY <1>1, Times
  <2>2. QED
    BY <1>1, <2>1, StaysDue, BackupFrame
<1>6. QED
  BY <1>2, <1>3, <1>4, <1>5

LEMMA Invariant == Spec => []Inv
<1>1. ASSUME Inv, [Next]_vars PROVE Inv'
  <2>1. CASE Next
    BY <1>1, <2>1, StartInv, PollInv, SkipInv, backupCertificateInv, rotateCertificateInv,
       RotateDoneInv, StopInv, AdvanceInv DEF Next, Rotate
  <2>2. CASE UNCHANGED vars
    <3>1. UNCHANGED <<now, period, nextTick, pc, deadline, expiryCertificates, inHand,
                      notAfter, backups, replaced, late, setbacks>>
      BY <2>2 DEF vars, clockVars, passVars, hostVars
    <3>2. TypeOK'
      BY <1>1, <3>1 DEF Inv, TypeOK
    <3>3. TimeInv' /\ RoomInv' /\ LateInv'
      BY <1>1, <3>1, LimitFrame DEF Inv, TimeInv, RoomInv
    <3>4. BackupInv'
      BY <1>1, <3>1 DEF Inv, BackupInv, DueInv, AgeInv, HandInv, ReplacedInv, BackupKept,
                       Printed
    <3>5. QED
      BY <3>2, <3>3, <3>4 DEF Inv
  <2>3. QED
    BY <1>1, <2>1, <2>2
<1>2. QED
  BY InitInv, <1>1, PTL DEF Spec

-------------------------------------------------------------------------------
(* The theorems.                                                           *)

\* A certificate in hand is on the list and one kucero can renew; between passes
\* the list is empty (kubeadm.go:73-97).
THEOREM KubeadmTypeCorrect == Spec => []TypeOK
<1>1. Inv => TypeOK
  BY DEF Inv
<1>2. QED
  BY <1>1, Invariant, PTL

\* The room that RoomInv keeps is not used up.
LEMMA StillRuns == Inv => RenewedInTime
<1> SUFFICES ASSUME Inv, NEW c \in Renewable PROVE now <= Limit(c)
  BY DEF RenewedInTime
<1>1. CASE pc = "down"
  BY <1>1, Times DEF Inv, RoomInv, TimeInv
<1>2. CASE pc = "idle"
  <2>1. c \notin expiryCertificates
    BY <1>2 DEF Inv, TypeOK
  <2>2. QED
    BY <1>2, <2>1, Times DEF Inv, RoomInv, TimeInv
<1>3. CASE pc = "rotate"
  BY <1>3, Times DEF Inv, RoomInv, TimeInv
<1>4. QED
  BY <1>1, <1>2, <1>3 DEF Inv, TypeOK

\* README.md:11, exec.go:125-138: no certificate kucero can renew runs out, if
\* renew-before is at least as many intervals as passes may come to nothing, and
\* one more; an interval is two polling periods and two delays. One that was due or
\* had ended at the start is renewed within so many intervals of it.
THEOREM CertificatesRenewedInTime == Spec => []RenewedInTime
  BY StillRuns, Invariant, PTL

\* kubeadm.go:78-86, 107: although the stamp of a backup repeats every half day, no
\* backup of a replaced certificate is overwritten, if a renewed certificate is
\* not due again within a minute and half a day.
THEOREM BackupsKept == Spec => []BackupKept
<1>1. Inv => BackupKept
  BY DEF Inv, BackupInv
<1>2. QED
  BY <1>1, Invariant, PTL

\* exec.go:125-138, kubeadm.go:66-100: a renewal replaces a certificate that is due
\* and, unless kucero found it so, still runs, by one that ends half a day later at
\* least.
THEOREM RenewalsWhenDue == Spec => RenewedOnlyWhenDue
<1> DEFINE Due(c) == /\ c \in Renewable /\ (c \notin late => now <= notAfter[c])
                     /\ notAfter[c] < now + RenewBefore + Minute
                     /\ notAfter[c] + HalfDay <= notAfter'[c]
<1>1. ASSUME Inv, [Next]_vars, NEW c \in Certs, notAfter'[c] # notAfter[c] PROVE Due(c)
  <2>1. \E d \in Certs : rotateCertificate(d) /\ notAfter' = [notAfter EXCEPT ![d] = now + Lifetime]
    BY <1>1
    DEF Next, vars, hostVars, Start, Poll, RotateDone, Stop, Advance, Rotate, Skip,
        backupCertificate, rotateCertificate
  <2>2. rotateCertificate(c) /\ notAfter'[c] = now + Lifetime
    BY <1>1, <2>1 DEF Inv, TypeOK
  <2>3. c \in Renewable \cap expiryCertificates
    BY <1>1, <2>2, CertsAssumption DEF rotateCertificate, Inv, TypeOK
  <2>4. notAfter[c] \in Nat
    BY <1>1 DEF Inv, TypeOK
  <2>5. /\ Printed(notAfter[c]) \in Int /\ notAfter[c] < Printed(notAfter[c]) + Minute
        /\ Printed(notAfter[c]) <= now + RenewBefore
    BY <1>1, <2>3, <2>4, PrintedBounds DEF Inv, BackupInv, DueInv
  <2>6. c \notin late => now <= notAfter[c]
    BY <1>1, <2>3, StillRuns DEF RenewedInTime, Limit
  <2>7. notAfter[c] < now + RenewBefore + Minute /\ notAfter[c] + HalfDay <= now + Lifetime
    BY <1>1, <2>4, <2>5, Times DEF Inv
  <2>8. QED
    BY <2>2, <2>3, <2>6, <2>7
<1> DEFINE OnlyDue == \A c \in Certs : notAfter'[c] # notAfter[c] => Due(c)
<1>2. ASSUME Inv, [Next]_vars PROVE OnlyDue
  BY <1>1, <1>2
<1>3. QED
  BY <1>2, Invariant, PTL DEF Spec, RenewedOnlyWhenDue
===============================================================================
