------------------------------ MODULE MCSigning -------------------------------
(* Finite instance of Signing for TLC: an authority, its renewal with the same *)
(* key, its successor with a new key, and a file that holds both.              *)
EXTENDS Signing

CONSTANTS old, same, new, k1, k2

MCKeyOf == [a \in {old, same, new} |-> IF a = new THEN k2 ELSE k1]
MCEndOf == [a \in {old, same, new} |-> IF a = old THEN 4 ELSE 9]
MCCertFiles == {<<old>>, <<same>>, <<new>>, <<new, old>>}
MCExpirations == {Nil, 2, 3, 4}
===============================================================================
