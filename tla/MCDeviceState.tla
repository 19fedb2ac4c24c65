---------------------------- MODULE MCDeviceState ----------------------------
(* Instances of DeviceState for TLC. *)
EXTENDS DeviceState, TLC

CONSTANTS i1, k1, k2, k3

(* One instance with one device of two capabilities: what merges.          *)
OneInstance == {i1}
OneDevice == {1}
OneOwner == 1 :> i1
TwoCaps == {1, 2}
ThreeKeys == {k1, k2, k3}
SeedTwo == 1 :> {k1} @@ 2 :> {}

KeySymmetry == Permutations({k2, k3})
=============================================================================
