---------------------------- MODULE MCDeviceSync ----------------------------
(* Instances of DeviceSync for TLC: the fewest writers that flip, evict,   *)
(* revive and remove slots while a client pages.                           *)
EXTENDS DeviceSync, TLC

CONSTANTS i1, k1

OneInstance == {i1}
TwoDevices == {1, 2}
OneOwner == 1 :> i1 @@ 2 :> i1
OneCap == {1}
OneKey == {k1}
SeedOne == 1 :> {k1}
=============================================================================
