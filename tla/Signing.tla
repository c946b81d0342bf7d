------------------------------- MODULE Signing --------------------------------
(***************************************************************************)
(* The signer of the CSR controller (pkg/pki/signer, pkg/pki/authority):   *)
(* the certificate authority it reads from two files at start-up, the      *)
(* value it keeps, and the certificate it makes for a request. CSRSigning  *)
(* has the requests that reach Sign: those with the three serving usages.  *)
(*                                                                         *)
(* Someone renews the authority by writing the two files one after the     *)
(* other, with a new key or with the old one, while the process reads      *)
(* them, signs, dies and starts again.                                     *)
(***************************************************************************)
EXTENDS Integers, Sequences

CONSTANTS
    Authorities,         \* certificates of the authority, one per renewal
    Keys,                \* its private keys
    KeyOf,               \* the key each certificate was made for
    EndOf,               \* NotAfter of each
    FirstAuthority,      \* the one on disk when kucero is installed
    CertFiles,           \* what the certificate file may hold: a sequence
    Expirations,         \* ExpirationSeconds of requests
    Nil,                 \* a request without one; no certificate
    CertTTL,             \* --duration
    Backdate,            \* five minutes
    MinDuration,         \* ten minutes, in `duration` and in the API's validation
    FileRefreshDuration, \* how often the loader's Run looks at the files
    MaxWrites,           \* bound: writes of the two files
    MaxStops,            \* bound: deaths of the process
    MaxTime              \* bound: the clock

ASSUME AuthorityAssumption ==
    /\ KeyOf \in [Authorities -> Keys] /\ EndOf \in [Authorities -> Nat]
    /\ FirstAuthority \in Authorities
    /\ CertFiles \subseteq Seq(Authorities) \ {<<>>}
    /\ <<FirstAuthority>> \in CertFiles
\* The API server refuses a request for less than ten minutes.
ASSUME RequestAssumption ==
    Nil \notin Int /\ \A e \in Expirations \ {Nil} : e \in Nat /\ e >= MinDuration
ASSUME DurationAssumption ==
    /\ CertTTL \in Nat /\ Backdate \in Nat /\ MinDuration \in Nat
    /\ FileRefreshDuration \in Nat
\* The twice five minutes of `duration`, and no shorter flag.
ASSUME BackdateAssumption == Backdate < MinDuration /\ Backdate < CertTTL
ASSUME BoundsAssumption == MaxWrites \in Nat /\ MaxStops \in Nat /\ MaxTime \in Nat

VARIABLES
    now,
    certFile, keyFile,   \* --ca-cert-path, --ca-key-path
    changedAt,           \* when one of them was last written
    pc,                  \* "down", "reading" the files, "up"
    caLoader,            \* the loader's CurrentCertKeyContent
    caValue,             \* the authority that signs
    issued,              \* the certificate made last, or Nil
    writes, stops

diskVars == <<certFile, keyFile, changedAt>>
vars == <<now, diskVars, pc, caLoader, caValue, issued, writes, stops>>

Pair == [cert : CertFiles, key : Keys]
KeyUsages == {"signing", "digital signature", "content commitment", "key encipherment",
              "key agreement", "data encipherment", "cert sign", "crl sign",
              "encipher only", "decipher only"}
ExtKeyUsages == {"any", "server auth", "client auth", "code signing", "email protection",
                 "s/mime", "ipsec end system", "ipsec tunnel", "ipsec user", "timestamping",
                 "ocsp signing", "microsoft sgc", "netscape sgc"}
KubeletServerUsages == {"key encipherment", "digital signature", "server auth"}

Certificate ==
    [ca : Authorities, notBefore : Int, notAfter : Int, requested : Expirations, at : Nat,
     keyUsage : SUBSET KeyUsages, extKeyUsage : SUBSET ExtKeyUsages, isCA : BOOLEAN]

\* Every variable keeps its type; what the signer signs with came from one
\* certificate (ca_provider.go:62).
TypeOK ==
    /\ now \in Nat /\ changedAt \in 0..now
    /\ certFile \in CertFiles /\ keyFile \in Keys
    /\ pc \in {"down", "reading", "up"}
    /\ caLoader \in Pair /\ caValue \in Pair
    /\ pc = "up" => Len(caValue.cert) = 1
    /\ issued \in Certificate \cup {Nil}
    /\ writes \in 0..MaxWrites /\ stops \in 0..MaxStops

Init ==
    /\ now = 0 /\ changedAt = 0
    /\ certFile = <<FirstAuthority>> /\ keyFile = KeyOf[FirstAuthority]
    /\ pc = "down"
    /\ caLoader = [cert |-> certFile, key |-> keyFile]
    /\ caValue = caLoader
    /\ issued = Nil
    /\ writes = 0 /\ stops = 0

-------------------------------------------------------------------------------
(* NewSigner and the CA provider.                                          *)

\* NewDynamicServingContentFromFiles reads the certificate file first.
ReadCert ==
    /\ pc = "down"
    /\ pc' = "reading"
    /\ caLoader' = [caLoader EXCEPT !.cert = certFile]
    /\ UNCHANGED <<now, diskVars, caValue, issued, writes, stops>>

\* tls.X509KeyPair: the file's first certificate belongs to the key.
Matches(pair) == KeyOf[Head(pair.cert)] = pair.key

\* setCA refuses a file with more than one certificate.
Usable(pair) == Matches(pair) /\ Len(pair.cert) = 1

\* Mutants of NewSigner: the two files are taken as they are, or the first
\* certificate of several; a failure makes it read the key file once more.
NewSignerUnchecked ==
    /\ pc = "reading"
    /\ LET pair == [caLoader EXCEPT !.key = keyFile]
       IN  /\ caLoader' = pair
           /\ caValue' = IF Len(pair.cert) = 1 THEN pair ELSE caValue
           /\ pc' = IF Len(pair.cert) = 1 THEN "up" ELSE "down"
    /\ UNCHANGED <<now, diskVars, issued, writes, stops>>
NewSignerFirstOfMany ==
    /\ pc = "reading"
    /\ LET pair == [caLoader EXCEPT !.key = keyFile]
       IN  /\ caLoader' = pair
           /\ caValue' = IF Matches(pair) THEN pair ELSE caValue
           /\ pc' = IF Matches(pair) THEN "up" ELSE "down"
    /\ UNCHANGED <<now, diskVars, issued, writes, stops>>
NewSignerRetriesKey ==
    /\ pc = "reading"
    /\ LET pair == [caLoader EXCEPT !.key = keyFile]
       IN  /\ caLoader' = pair
           /\ caValue' = IF Usable(pair) THEN pair ELSE caValue
           /\ pc' = IF Usable(pair) THEN "up" ELSE "reading"
    /\ UNCHANGED <<now, diskVars, issued, writes, stops>>

\* Then the key; a pair that is refused ends the process (logrus.Fatal).
NewSigner ==
    /\ pc = "reading"
    /\ LET pair == [caLoader EXCEPT !.key = keyFile]
       IN  /\ caLoader' = pair
           /\ caValue' = IF Usable(pair) THEN pair ELSE caValue
           /\ pc' = IF Usable(pair) THEN "up" ELSE "down"
    /\ UNCHANGED <<now, diskVars, issued, writes, stops>>

\* The value kept, unless the loader's content is another one. Nobody calls the
\* loader's Run, so after NewSigner no step changes caLoader.
currentCA == IF caValue = caLoader THEN caValue ELSE caLoader

-------------------------------------------------------------------------------
(* Sign.                                                                   *)

\* Mutant of duration: the cap of certTTL is left out.
DurationUncapped(e) == IF e = Nil THEN CertTTL ELSE IF e < MinDuration THEN MinDuration ELSE e

duration(e) ==
    IF e = Nil \/ e > CertTTL THEN CertTTL ELSE IF e < MinDuration THEN MinDuration ELSE e

keyUsageDict == [u \in KeyUsages |-> IF u = "signing" THEN "digital signature" ELSE u]
extKeyUsageDict == [u \in ExtKeyUsages |-> IF u = "s/mime" THEN "email protection" ELSE u]

\* PermissiveSigningPolicy.apply: what the policy writes into the template.
apply(usages, nbf, ttl) ==
    [keyUsage    |-> {keyUsageDict[u] : u \in usages \cap KeyUsages},
     extKeyUsage |-> {extKeyUsageDict[u] : u \in (usages \ KeyUsages) \cap ExtKeyUsages},
     notAfter    |-> nbf + ttl,
     isCA        |-> FALSE]

Recognized(usages) == usages \subseteq KeyUsages \cup ExtKeyUsages

\* Mutant of Signed: the end of the authority's certificate is not a limit.
SignedUncapped(ca, e) ==
    LET tmpl == apply(KubeletServerUsages, now - Backdate, duration(e))
    IN  [ca |-> ca, notBefore |-> now - Backdate, notAfter |-> tmpl.notAfter,
         requested |-> e, at |-> now, keyUsage |-> tmpl.keyUsage,
         extKeyUsage |-> tmpl.extKeyUsage, isCA |-> tmpl.isCA]

\* The template, signed.
Signed(ca, e) ==
    LET tmpl == apply(KubeletServerUsages, now - Backdate, duration(e))
    IN  [ca |-> ca, notBefore |-> now - Backdate,
         notAfter |-> IF tmpl.notAfter < EndOf[ca] THEN tmpl.notAfter ELSE EndOf[ca],
         requested |-> e, at |-> now, keyUsage |-> tmpl.keyUsage,
         extKeyUsage |-> tmpl.extKeyUsage, isCA |-> tmpl.isCA]

\* A request that is refused, because the authority's certificate has ended,
\* changes nothing here; the controller tries it again.
Sign(e) ==
    /\ pc = "up"
    /\ Usable(currentCA) /\ caValue' = currentCA
    /\ LET ca == Head(currentCA.cert)
       IN  /\ now - Backdate < EndOf[ca]
           /\ Recognized(KubeletServerUsages)
           /\ now < EndOf[ca]
           /\ issued' = Signed(ca, e)
    /\ UNCHANGED <<now, diskVars, pc, caLoader, writes, stops>>

-------------------------------------------------------------------------------
(* The environment.                                                        *)

WriteCert(file) ==
    /\ writes < MaxWrites /\ writes' = writes + 1
    /\ file # certFile
    /\ certFile' = file /\ changedAt' = now
    /\ UNCHANGED <<now, keyFile, pc, caLoader, caValue, issued, stops>>

WriteKey(key) ==
    /\ writes < MaxWrites /\ writes' = writes + 1
    /\ key # keyFile
    /\ keyFile' = key /\ changedAt' = now
    /\ UNCHANGED <<now, certFile, pc, caLoader, caValue, issued, stops>>

Stop ==
    /\ pc # "down"
    /\ stops < MaxStops /\ stops' = stops + 1
    /\ pc' = "down"
    /\ UNCHANGED <<now, diskVars, caLoader, caValue, issued, writes>>

Advance ==
    /\ now < MaxTime /\ now' = now + 1
    /\ UNCHANGED <<diskVars, pc, caLoader, caValue, issued, writes, stops>>

Next ==
    \/ ReadCert \/ NewSigner \/ Stop \/ Advance
    \/ \E e \in Expirations : Sign(e)
    \/ \E file \in CertFiles : WriteCert(file)
    \/ \E key \in Keys : WriteKey(key)

Spec == Init /\ [][Next]_vars

\* The daemonset starts the pod again (restartPolicy: Always).
FairSpec == Spec /\ WF_vars(ReadCert) /\ WF_vars(NewSigner)

-------------------------------------------------------------------------------
(* Properties.                                                             *)

\* authority.go:46-99: a certificate is valid when it is made and not beyond its
\* authority, although the check for "expired in the past" looks at the
\* authority alone and NotAfter counts from the backdated start; and the two
\* dictionaries of policies.go give it the usages of the request and no other.
BornValid ==
    issued # Nil =>
        /\ issued.notBefore <= issued.at /\ issued.at < issued.notAfter
        /\ issued.notAfter <= EndOf[issued.ca]
        /\ issued.keyUsage \cup issued.extKeyUsage = KubeletServerUsages
        /\ issued.isCA = FALSE

\* signer.go:64-80: a certificate lasts no longer than the flag allows and no
\* longer than was asked for, whatever the lower bound of ten minutes does.
LifetimeGranted ==
    issued # Nil =>
        LET lifetime == issued.notAfter - issued.notBefore
        IN  /\ lifetime <= CertTTL
            /\ issued.requested # Nil => lifetime <= issued.requested

\* ca_provider.go:33-47: a renewal of the two files that falls between the reads
\* of a start-up never gives a signer the certificate of one authority and the
\* key of another.
OnePair == pc = "up" => Matches(caValue)

\* main.go:199: when the two files hold a pair again the process comes up, however
\* the renewal met its earlier starts.
SignerComesUp ==
    LET onDisk == Usable([cert |-> certFile, key |-> keyFile])
    IN  onDisk ~> (pc = "up" \/ ~onDisk)

-------------------------------------------------------------------------------
(* A statement of the repository that the code does not keep.              *)

\* ca_provider.go:88-89: currentCA "always check for a stale value": a certificate
\* made a refresh interval after the last change of the files, which are a
\* pair, is made with the authority on disk.
FreshAuthority ==
    [][issued' # issued
         /\ now > changedAt + FileRefreshDuration
         /\ Usable([cert |-> certFile, key |-> keyFile])
             => issued'.ca = Head(certFile)]_vars
===============================================================================
