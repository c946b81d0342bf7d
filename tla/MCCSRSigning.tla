----------------------------- MODULE MCCSRSigning -----------------------------
(* Finite instances of CSRSigning for TLC.                                 *)
EXTENDS CSRSigning, TLC

CONSTANTS m1, m2, node, serving, partial, barred

Asks(usages) ==
    [wellFormed |-> TRUE, org |-> <<"system:nodes">>, dnsNames |-> 1, ipAddresses |-> 1,
     usages |-> usages, commonName |-> node, username |-> node]

\* A proper request, one without the "server auth" usage and a proper one of a
\* node whose right to create requests has been withdrawn since (where Permitted
\* leaves it out).
RequestContent ==
    (serving :> Asks(<<"digital signature", "server auth", "key encipherment">>)) @@
    (partial :> Asks(<<"digital signature", "key encipherment">>)) @@
    (barred  :> Asks(KubeletServerUsages))

MCContent == [r \in Requests |-> RequestContent[r]]
===============================================================================
