----------------------------- MODULE SigningProofs ----------------------------
(***************************************************************************)
(* TLAPS proofs of the safety properties of Signing, for any authorities,  *)
(* keys, files, requested durations, flags and bounds.                     *)
(***************************************************************************)
EXTENDS Signing, TLAPS

-------------------------------------------------------------------------------
(* The operators Sign is made of.                                          *)

\* signer.go:64-80: the duration is more than the backdate and no more than the
\* flag or the request allow, because the API server refuses less than the lower
\* bound.
LEMMA DurationBounds ==
  ASSUME NEW e \in Expirations
  PROVE  /\ duration(e) \in Nat /\ Backdate < duration(e) /\ duration(e) <= CertTTL
         /\ e # Nil => duration(e) <= e
BY RequestAssumption, DurationAssumption, BackdateAssumption DEF duration

\* policies.go:54-128: the three serving usages become key usages and the extended
\* key usage "server auth".
LEMMA ServingUsages ==
  ASSUME NEW nbf, NEW ttl
  PROVE  LET tmpl == apply(KubeletServerUsages, nbf, ttl)
         IN  /\ tmpl.keyUsage \subseteq KeyUsages
             /\ tmpl.extKeyUsage \subseteq ExtKeyUsages
             /\ tmpl.keyUsage \cup tmpl.extKeyUsage = KubeletServerUsages
             /\ tmpl.isCA = FALSE
             /\ tmpl.notAfter = nbf + ttl
<1>1. \A u \in KeyUsages : keyUsageDict[u] \in KeyUsages
  BY DEF keyUsageDict, KeyUsages
<1>2. \A u \in ExtKeyUsages : extKeyUsageDict[u] \in ExtKeyUsages
  BY DEF extKeyUsageDict, ExtKeyUsages
<1>3. /\ KubeletServerUsages \cap KeyUsages = {"key encipherment", "digital signature"}
      /\ (KubeletServerUsages \ KeyUsages) \cap ExtKeyUsages = {"server auth"}
  BY DEF KubeletServerUsages, KeyUsages, ExtKeyUsages
<1>4. /\ keyUsageDict["key encipherment"] = "key encipherment"
      /\ keyUsageDict["digital signature"] = "digital signature"
      /\ extKeyUsageDict["server auth"] = "server auth"
  BY DEF keyUsageDict, extKeyUsageDict, KeyUsages, ExtKeyUsages
<1> DEFINE tmpl == apply(KubeletServerUsages, nbf, ttl)
<1>5. tmpl.keyUsage = {"key encipherment", "digital signature"} /\ tmpl.extKeyUsage = {"server auth"}
  BY <1>3, <1>4 DEF apply
<1>6. tmpl.keyUsage \cup tmpl.extKeyUsage = KubeletServerUsages
  BY <1>5 DEF KubeletServerUsages
<1>7. /\ tmpl.keyUsage \subseteq KeyUsages /\ tmpl.extKeyUsage \subseteq ExtKeyUsages
      /\ tmpl.isCA = FALSE /\ tmpl.notAfter = nbf + ttl
  BY <1>1, <1>2 DEF apply
<1>8. QED
  BY <1>6, <1>7

\* authority.go:87-92: the earlier of two ends, in numbers.
LEMMA EarlierEnd ==
  ASSUME NEW t \in Nat, NEW back \in Nat, NEW d \in Nat, NEW caEnd \in Nat,
         back < d, t < caEnd
  PROVE  LET end == IF (t - back) + d < caEnd THEN (t - back) + d ELSE caEnd
         IN  /\ end \in Int /\ t < end /\ end <= caEnd
             /\ end <= t - back + d
OBVIOUS

\* authority.go:46-99, with the two checks of the authority's end passed: the
\* certificate's fields.
LEMMA SignedCertificate ==
  ASSUME NEW ca \in Authorities, NEW e \in Expirations, now \in Nat, now < EndOf[ca]
  PROVE  LET cert == Signed(ca, e)
         IN  /\ cert \in Certificate
             /\ cert.ca = ca /\ cert.at = now /\ cert.requested = e
             /\ cert.notBefore = now - Backdate
             /\ now < cert.notAfter /\ cert.notAfter <= EndOf[ca]
             /\ cert.notAfter <= now - Backdate + duration(e)
             /\ cert.keyUsage \cup cert.extKeyUsage = KubeletServerUsages /\ cert.isCA = FALSE
<1> DEFINE tmpl == apply(KubeletServerUsages, now - Backdate, duration(e))
           end  == IF tmpl.notAfter < EndOf[ca] THEN tmpl.notAfter ELSE EndOf[ca]
<1>1. /\ tmpl.keyUsage \subseteq KeyUsages /\ tmpl.extKeyUsage \subseteq ExtKeyUsages
      /\ tmpl.keyUsage \cup tmpl.extKeyUsage = KubeletServerUsages
  BY ServingUsages
<1>2. tmpl.isCA = FALSE
  BY ServingUsages
<1>3. tmpl.notAfter = (now - Backdate) + duration(e)
  BY ServingUsages
<1>4. duration(e) \in Nat /\ Backdate < duration(e)
  BY DurationBounds
<1>5. EndOf[ca] \in Nat /\ Backdate \in Nat
  BY AuthorityAssumption, DurationAssumption
<1> HIDE DEF tmpl
<1>6. /\ end \in Int /\ now < end /\ end <= EndOf[ca]
      /\ end <= now - Backdate + duration(e)
  BY <1>3, <1>4, <1>5, EarlierEnd
<1> HIDE DEF end
<1>7. Signed(ca, e) =
        [ca |-> ca, notBefore |-> now - Backdate, notAfter |-> end,
         requested |-> e, at |-> now, keyUsage |-> tmpl.keyUsage,
         extKeyUsage |-> tmpl.extKeyUsage, isCA |-> tmpl.isCA]
  BY DEF Signed, tmpl, end
<1>8. now - Backdate \in Int
  BY <1>5
<1>9. tmpl.isCA \in BOOLEAN
  BY <1>2
<1>10. Signed(ca, e) \in Certificate
  <2> DEFINE nbf == now - Backdate
             ku == tmpl.keyUsage
             eku == tmpl.extKeyUsage
             isca == tmpl.isCA
  <2>1. /\ nbf \in Int /\ end \in Int /\ ku \in SUBSET KeyUsages
        /\ eku \in SUBSET ExtKeyUsages /\ isca \in BOOLEAN
    BY <1>1, <1>6, <1>8, <1>9
  <2> HIDE DEF nbf, ku, eku, isca
  <2>2. [ca |-> ca, notBefore |-> nbf, notAfter |-> end, requested |-> e, at |-> now,
         keyUsage |-> ku, extKeyUsage |-> eku, isCA |-> isca] \in Certificate
    BY <2>1 DEF Certificate
  <2>3. QED
    BY <1>7, <2>2 DEF nbf, ku, eku, isca
<1>11. LET cert == Signed(ca, e)
       IN  /\ cert.ca = ca /\ cert.at = now /\ cert.requested = e
           /\ cert.notBefore = now - Backdate /\ cert.notAfter = end
           /\ cert.keyUsage = tmpl.keyUsage /\ cert.extKeyUsage = tmpl.extKeyUsage
  BY <1>7
<1>12. Signed(ca, e).isCA = FALSE
  BY <1>2, <1>7
<1>13. QED
  BY <1>1, <1>6, <1>10, <1>11, <1>12

-------------------------------------------------------------------------------
(* The inductive invariant.                                                *)

\* The value that signs was accepted by setCA, and the loader's content is the
\* same: nobody calls the loader's Run (ca_provider.go:91).
LoadedInv == pc = "up" => Usable(caValue) /\ caLoader = caValue

\* What each certificate keeps of the moment it was made.
IssuedInv ==
    issued # Nil =>
        /\ issued.notBefore = issued.at - Backdate
        /\ issued.at < issued.notAfter /\ issued.notAfter <= EndOf[issued.ca]
        /\ issued.notAfter <= issued.notBefore + duration(issued.requested)
        /\ issued.keyUsage \cup issued.extKeyUsage = KubeletServerUsages /\ issued.isCA = FALSE

Inv == TypeOK /\ LoadedInv /\ IssuedInv

\* A sequence of CertFiles has a first certificate.
LEMMA FirstCertificate ==
  ASSUME NEW file \in CertFiles PROVE Head(file) \in Authorities
BY AuthorityAssumption

\* A fresh installation.
LEMMA InitInv == Init => Inv
<1> SUFFICES ASSUME Init PROVE Inv
  OBVIOUS
<1>1. TypeOK
  BY AuthorityAssumption, BoundsAssumption DEF Init, TypeOK, Pair
<1>2. QED
  BY <1>1 DEF Init, Inv, LoadedInv, IssuedInv

\* Start-up in two reads (ca_provider.go:33-86).
LEMMA StartInv ==
  ASSUME Inv, ReadCert \/ NewSigner PROVE Inv'
<1> USE DEF Inv, TypeOK, LoadedInv, diskVars
<1>1. CASE ReadCert
  BY <1>1 DEF ReadCert, Pair, IssuedInv
<1>2. CASE NewSigner
  <2> DEFINE pair == [caLoader EXCEPT !.key = keyFile]
  <2>1. pair \in Pair
    BY DEF Pair
  <2>2. /\ caLoader' = pair /\ caValue' = IF Usable(pair) THEN pair ELSE caValue
        /\ pc' = IF Usable(pair) THEN "up" ELSE "down"
        /\ UNCHANGED <<now, certFile, keyFile, changedAt, issued, writes, stops>>
    BY <1>2 DEF NewSigner
  <2> HIDE DEF pair
  <2>3. TypeOK' /\ LoadedInv'
    BY <2>1, <2>2 DEF Usable
  <2>4. IssuedInv'
    BY <2>2 DEF IssuedInv
  <2>5. QED
    BY <2>3, <2>4
<1>3. QED
  BY <1>1, <1>2

\* Sign (signer.go:49-62).
LEMMA SignInv ==
  ASSUME Inv, NEW e \in Expirations, Sign(e) PROVE Inv'
<1> DEFINE ca == Head(caValue.cert)
<1>1. currentCA = caValue /\ caValue' = caValue
  BY DEF Sign, currentCA, Inv, LoadedInv
<1>2. ca \in Authorities /\ now < EndOf[ca] /\ issued' = Signed(ca, e)
  BY <1>1, FirstCertificate DEF Sign, Inv, TypeOK, Pair
<1>3. now \in Nat
  BY DEF Inv, TypeOK
<1> HIDE DEF ca
<1>4. /\ issued' \in Certificate
      /\ issued'.ca = ca /\ issued'.at = now /\ issued'.requested = e
      /\ issued'.notBefore = now - Backdate
      /\ now < issued'.notAfter /\ issued'.notAfter <= EndOf[ca]
      /\ issued'.notAfter <= now - Backdate + duration(e)
      /\ issued'.keyUsage \cup issued'.extKeyUsage = KubeletServerUsages /\ issued'.isCA = FALSE
  BY <1>2, <1>3, SignedCertificate
<1>5. UNCHANGED <<now, certFile, keyFile, changedAt, pc, caLoader, caValue, writes, stops>>
  BY <1>1 DEF Sign, diskVars
<1>6. TypeOK' /\ LoadedInv'
  BY <1>4, <1>5 DEF Inv, TypeOK, LoadedInv, Usable, Matches
<1>7. IssuedInv'
  BY <1>4, <1>5 DEF IssuedInv, duration
<1>8. QED
  BY <1>6, <1>7 DEF Inv

\* Writes of the files, deaths, the clock.
LEMMA EnvironmentInv ==
  ASSUME Inv, \/ Stop \/ Advance
              \/ \E file \in CertFiles : WriteCert(file)
              \/ \E key \in Keys : WriteKey(key)
  PROVE  Inv'
<1>1. UNCHANGED <<caLoader, caValue, issued>> /\ (pc' = pc \/ pc' = "down")
  BY DEF Stop, Advance, WriteCert, WriteKey
<1>2. TypeOK'
  <2> USE BoundsAssumption DEF Inv, TypeOK, diskVars
  <2>1. CASE Stop
    BY <2>1 DEF Stop
  <2>2. CASE Advance
    BY <2>2 DEF Advance
  <2>3. CASE \E file \in CertFiles : WriteCert(file)
    BY <2>3 DEF WriteCert
  <2>4. CASE \E key \in Keys : WriteKey(key)
    BY <2>4 DEF WriteKey
  <2>5. QED
    BY <2>1, <2>2, <2>3, <2>4
<1>3. LoadedInv'
  BY <1>1 DEF Inv, LoadedInv, Usable, Matches
<1>4. IssuedInv'
  BY <1>1 DEF Inv, IssuedInv, duration
<1>5. QED
  BY <1>2, <1>3, <1>4 DEF Inv

LEMMA Invariant == Spec => []Inv
<1>1. ASSUME Inv, [Next]_vars PROVE Inv'
  <2>1. CASE Next
    BY <1>1, <2>1, StartInv, SignInv, EnvironmentInv DEF Next
  <2>2. CASE UNCHANGED vars
    <3>1. TypeOK' /\ LoadedInv'
      BY <1>1, <2>2 DEF vars, diskVars, Inv, TypeOK, LoadedInv, Usable, Matches
    <3>2. IssuedInv'
      BY <1>1, <2>2 DEF vars, Inv, IssuedInv, duration
    <3>3. QED
      BY <3>1, <3>2 DEF Inv
  <2>3. QED
    BY <1>1, <2>1, <2>2
<1>2. QED
  BY InitInv, <1>1, PTL DEF Spec

-------------------------------------------------------------------------------
(* The theorems.                                                           *)

\* The signer never signs from a file of several certificates (ca_provider.go:62).
THEOREM SigningTypeCorrect == Spec => []TypeOK
<1>1. Inv => TypeOK
  BY DEF Inv
<1>2. QED
  BY <1>1, Invariant, PTL

\* Every certificate is valid when it is made and ends with its authority at the
\* latest (authority.go:46-99), if the flag exceeds the backdate.
THEOREM CertificatesBornValid == Spec => []BornValid
<1>1. Inv => BornValid
  <2> SUFFICES ASSUME Inv, issued # Nil PROVE BornValid
    BY DEF BornValid
  <2>1. issued.at \in Nat
    BY DEF Inv, TypeOK, Certificate
  <2>2. issued.notBefore = issued.at - Backdate
    BY DEF Inv, IssuedInv
  <2>3. issued.notBefore <= issued.at
    BY <2>1, <2>2, DurationAssumption
  <2>4. QED
    BY <2>3 DEF Inv, IssuedInv, BornValid
<1>2. QED
  BY <1>1, Invariant, PTL

\* No certificate outlasts the flag or the request (signer.go:64-80).
THEOREM LifetimesGranted == Spec => []LifetimeGranted
<1>1. Inv => LifetimeGranted
  <2> SUFFICES ASSUME Inv, issued # Nil PROVE LifetimeGranted
    BY DEF LifetimeGranted
  <2>1. /\ issued.notAfter \in Int /\ issued.notBefore \in Int
        /\ issued.requested \in Expirations
    BY DEF Inv, TypeOK, Certificate
  <2>2. issued.notAfter <= issued.notBefore + duration(issued.requested)
    BY DEF Inv, IssuedInv
  <2>3. /\ duration(issued.requested) \in Nat /\ duration(issued.requested) <= CertTTL
        /\ issued.requested # Nil => duration(issued.requested) <= issued.requested
    BY <2>1, DurationBounds
  <2>4. CertTTL \in Nat /\ (issued.requested # Nil => issued.requested \in Nat)
    BY <2>1, DurationAssumption, RequestAssumption
  <2>5. QED
    BY <2>1, <2>2, <2>3, <2>4 DEF LifetimeGranted
<1>2. QED
  BY <1>1, Invariant, PTL

\* However a renewal of the files falls between the two reads of a start-up, the
\* signer has the certificate and the key of one authority (ca_provider.go:33-47).
THEOREM PairNeverMixed == Spec => []OnePair
<1>1. Inv => OnePair
  BY DEF Inv, LoadedInv, OnePair, Usable
<1>2. QED
  BY <1>1, Invariant, PTL
===============================================================================
