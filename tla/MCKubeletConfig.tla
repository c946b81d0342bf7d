--------------------------- MODULE MCKubeletConfig ----------------------------
(* Finite instance of KubeletConfig for TLC: the forms config.yaml comes in.   *)
EXTENDS KubeletConfig

CONSTANTS port, n1, n2

MCWant == [k \in Keys |-> TRUE]

L(kind, key, value) == [kind |-> kind, key |-> key, value |-> value]
Other   == L("other", port, TRUE)
Ended(lines)   == [lines |-> lines, ended |-> TRUE]
Unended(lines) == [lines |-> lines, ended |-> FALSE]

MCEdited ==
    {Ended(<<Other>>), Unended(<<Other>>),
     \* kubeadm's form
     Ended(<<L("exact", "rotateCertificates", TRUE), Other>>),
     Ended(<<L("exact", "serverTLSBootstrap", FALSE), L("exact", "rotateCertificates", FALSE)>>),
     \* comments before a setting, instead of one, and at the end
     Ended(<<L("comment", "rotateCertificates", FALSE), Other,
             L("exact", "rotateCertificates", FALSE)>>),
     Ended(<<Other, L("comment", "serverTLSBootstrap", TRUE)>>),
     Unended(<<Other, L("comment", "serverTLSBootstrap", FALSE)>>),
     \* other spacing, and a setting at the end
     Ended(<<L("spaced", "rotateCertificates", FALSE), Other>>),
     Unended(<<Other, L("exact", "rotateCertificates", FALSE)>>)}
===============================================================================
