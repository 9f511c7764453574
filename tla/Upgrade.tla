------------------------------ MODULE Upgrade ------------------------------
(***************************************************************************)
(* What comparing versions promises of the partitions of a device: an      *)
(* upgrade begins from a device that boots, and leads to a later version;  *)
(* while one is under way nothing else is written and no other begins; and *)
(* it ends when every partition has its version.                           *)
(***************************************************************************)
EXTENDS Naturals

CONSTANTS
    Parts, Slots,   \* partitions, and those of them that hold boot images
    Base            \* version installed at the start

VARIABLES
    version,     \* of the upgrade that is under way, else of the device
    upgrading,
    part         \* version in each partition, 0 when torn

vars == <<version, upgrading, part>>

Init == version = Base /\ upgrading = FALSE /\ part = [p \in Parts |-> Base]

Put(p, w) == part' = [part EXCEPT ![p] = w]

\* The first partition is written over.
Begin ==
    /\ ~upgrading /\ \A s \in Slots : part[s] = version
    /\ upgrading' = TRUE /\ version' > version
    /\ \E p \in Parts : Put(p, 0)

\* One more is, in an upgrade or by the device's own version.
Tear == (\E p \in Parts : Put(p, 0)) /\ UNCHANGED <<version, upgrading>>
Write == (\E p \in Parts : Put(p, version)) /\ UNCHANGED <<version, upgrading>>

End ==
    /\ upgrading /\ \A p \in Parts : part[p] = version
    /\ upgrading' = FALSE /\ UNCHANGED <<version, part>>

Next == Begin \/ Tear \/ Write \/ End

Spec == Init /\ [][Next]_vars
=============================================================================
