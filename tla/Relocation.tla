--------------------------- MODULE Relocation ---------------------------
(***************************************************************************)
(* What aligning a partition promises of the files on it: a complete copy  *)
(* is made somewhere before another is given up, so there always is one;   *)
(* the work is settled only when the copy at home is the only one left.    *)
(***************************************************************************)
EXTENDS FiniteSets

CONSTANTS Places, Home     \* Home is one of Places

VARIABLES holders,   \* the places that hold a complete copy
          settled    \* success has been reported

vars == <<holders, settled>>

Init == holders = {Home} /\ settled = FALSE

\* A copy is complete at one more place.
Gain == \E p \in Places \ holders :
            holders' = holders \cup {p} /\ UNCHANGED settled

\* A copy is given up where another remains.
Lose == \E p \in holders :
            holders # {p} /\ holders' = holders \ {p} /\ UNCHANGED settled

Settle == holders = {Home} /\ settled' = TRUE /\ UNCHANGED holders

\* A reset: success is reported anew.
Reopen == settled' = FALSE /\ UNCHANGED holders

Next == Gain \/ Lose \/ Settle \/ Reopen

Spec == Init /\ [][Next]_vars

\* There is a complete copy.
NeverLost == holders # {}
=============================================================================
