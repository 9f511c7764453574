---------------------------- MODULE MCMassFlash ----------------------------
(* Instances for TLC: two devices in recovery mode, and one that an earlier *)
(* session may have left in the flashing initrd.                            *)
EXTENDS MassFlash, TLC
CONSTANTS p1, p2, other, t1, t2, t3

Given == p1 :> t1 @@ p2 :> t2
TwoFresh == t1 :> Nobody @@ t2 :> Nobody
OneLeft == TwoFresh @@ t3 :> other

One == p1 :> t1
OneFresh == t1 :> Nobody
OneApart == p1 :> {p1}

Serials == t1 :> t1 @@ t2 :> t2 @@ t3 :> t3
TheSerial == [t \in Targets |-> Serials[t]]

EachItself == p1 :> {p1} @@ p2 :> {p2}
\* p1 is instance 1 and p2 is instance 10.
OneAndTen == p1 :> {p1, p2} @@ p2 :> {p2}
=============================================================================
