------------------------------ MODULE MCLogStore ------------------------------
(* Instances of LogStore for TLC. *)
EXTENDS LogStore

CONSTANTS e1, e2, e3, f1

(* Two events from before the cutoff of a trim, one from after; a channel  *)
(* of one is full while the writer has another in hand.                    *)
ThreeEvents == {e1, e2, e3}
OldOnes == {e1, e2}
OneFlusher == {f1}
=============================================================================
