----------------------------- MODULE MCEventBus -----------------------------
(* Instances of EventBus for TLC. *)
EXTENDS EventBus, TLC

CONSTANTS p1, p2, p3, s1, s2, v1, state, custom

MCTopics == {state, custom}
MCStateTopics == {state}

(* Ordering and wake-ups: two plugins publish through publish_event, a     *)
(* third subscribes to state changes, a client tails everything.           *)
TwoPlugins == {p1, p2}
Both == {s1, s2}
OnePlugin == {v1}
BothOwner == s1 :> v1 @@ s2 :> Tail_
BothAccept == s1 :> {state} @@ s2 :> {state, custom}

(* Progress and concurrent fan-outs: two plugins, and a simulator that     *)
(* takes no publish_sequence gate, publish to one subscribed plugin.       *)
Mixed == {p1, p2, p3}
PluginSub == {s1}
PluginOwner == s1 :> v1
PluginAccepts == s1 :> {state}
OneTopic == {state}

PluginSymmetry == Permutations(TwoPlugins)
=============================================================================
