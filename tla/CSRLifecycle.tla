------------------------------ MODULE CSRLifecycle -----------------------------
(***************************************************************************)
(* What the cluster sees of a certificate signing request while kucero's   *)
(* controller runs (controllers/certificatesigningrequest_controller.go),  *)
(* without managers, caches, queues and failing calls. CSRSigning          *)
(* implements it.                                                          *)
(*                                                                         *)
(*   absent -> pending -> signed -> issued                                 *)
(*                |         |                                              *)
(*                |         +-> void        a denied one with certificate  *)
(*                +-> denied -> void                                       *)
(*                +-> approved -> issued    a person was first ...         *)
(*                       +-> foreign        ... and somebody else signs    *)
(*                                                                         *)
(* and from everywhere but absent to gone.                                 *)
(***************************************************************************)
CONSTANTS
    Requests,
    Entitled        \* the requests whose certificate kucero may issue

VARIABLE life

Init == life = [r \in Requests |-> "absent"]

Move(r, from, to) == life[r] = from /\ life' = [life EXCEPT ![r] = to]

Submit(r) == Move(r, "absent", "pending")

\* Kucero signs an entitled request without a certificate, whatever its verdict.
Sign(r) ==
    /\ r \in Entitled
    /\ \/ Move(r, "pending", "signed")
       \/ Move(r, "approved", "issued")
       \/ Move(r, "denied", "void")

\* By kucero or by a person: kucero's only approval is this one.
Approve(r) == Move(r, "signed", "issued")

\* A person's verdict on what has no certificate, or against it.
ApproveByHand(r) == Move(r, "pending", "approved")
Deny(r) == Move(r, "pending", "denied") \/ Move(r, "signed", "void")

\* The kube-controller-manager has its turn only after a person.
KcmSign(r) == Move(r, "approved", "foreign")

Delete(r) ==
    /\ life[r] # "absent"
    /\ life' = [life EXCEPT ![r] = "gone"]

Next ==
    \E r \in Requests :
        Submit(r) \/ Sign(r) \/ Approve(r) \/ ApproveByHand(r) \/ Deny(r) \/ KcmSign(r) \/ Delete(r)

Spec == Init /\ [][Next]_life
===============================================================================
