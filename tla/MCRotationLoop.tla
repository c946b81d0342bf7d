---------------------------- MODULE MCRotationLoop ----------------------------
(* Finite instances of RotationLoop for TLC.                               *)
EXTENDS RotationLoop, TLC

CONSTANTS n1, n2, n3, kubeletConf, configYaml, apiserver, etcdServer, ca

\* Nodes of the same role are interchangeable in every safety run.
NodeSymmetry == Permutations(Nodes)
===============================================================================
