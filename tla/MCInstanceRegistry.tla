-------------------------- MODULE MCInstanceRegistry --------------------------
(* Instances of InstanceRegistry for TLC. *)
EXTENDS InstanceRegistry, TLC

CONSTANTS i1, i2, p1, p2, s1, s2

(* Two ids for one plugin that nobody declared: any mix of presented flags.*)
TwoIds == {i1, i2}
OnePlugin == {p1}
OneStarter == {s1}
TwoStarters == {s1, s2}
Undeclared == [p \in OnePlugin |-> None]
=============================================================================
