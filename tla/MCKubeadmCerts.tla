---------------------------- MODULE MCKubeadmCerts ----------------------------
(* Finite instance of KubeadmCerts for TLC.                                *)
EXTENDS KubeadmCerts

CONSTANTS apiserver, ca
===============================================================================
