--------------------------- MODULE MCOtaRollback ---------------------------
(* Instances for TLC: packages of three work directories, and layouts that *)
(* keep VER and VER_b in place or move them.                               *)
EXTENDS OtaRollback, TLC
CONSTANTS internal, sdcard, usb, app

Packages == (internal :> 3) @@ (sdcard :> 1) @@ (usb :> 4)
ThreePackages == [d \in Dirs |-> Packages[d]]

OldHome == [VER |-> "v_old", VER_b |-> "b_old"]
NewHome == [VER |-> "v_new", VER_b |-> "b_new"]
Kept == [old |-> NewHome, new |-> NewHome]
Moved == [old |-> OldHome, new |-> NewHome]
=============================================================================
