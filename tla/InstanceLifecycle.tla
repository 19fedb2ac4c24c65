-------------------------- MODULE InstanceLifecycle --------------------------
(***************************************************************************)
(* What a supervisor promises to those that watch an instance              *)
(* (InstanceState and the restart rules of runtime/lifecycle.rs): the      *)
(* states published on the watch channel, in which order, and when the     *)
(* number of consecutive restarts may grow or start again from zero.       *)
(***************************************************************************)
EXTENDS Naturals

CONSTANT MaxRestarts

VARIABLES state, attempt

Init == state = "Loading" /\ attempt = 0

Goes(from, to) == state \in from /\ state' = to /\ UNCHANGED attempt

Progress == \/ Goes({"Loading"}, "Inited")
            \/ Goes({"Inited"}, "Running")
            \/ Goes({"Running"}, "Stopping")
            \/ Goes({"Stopping"}, "Stopped")
            \/ Goes({"Restarting"}, "Loading")
            \/ Goes({"Restarting"}, "Stopped")

\* A crash.  Only an instance that has been Running can have been healthy,
\* which forgives the restarts before.
Counted == attempt' \in {attempt} \cup IF state \in {"Running", "Stopping"} THEN {0} ELSE {}

Crash == /\ state \in {"Loading", "Inited", "Running", "Stopping"}
         /\ state' = "Crashed"
         /\ Counted
         /\ attempt' < MaxRestarts

Retry == state = "Crashed" /\ state' = "Restarting" /\ attempt' = attempt + 1

Fail == /\ state \in {"Loading", "Inited", "Running", "Stopping"}
        /\ state' = "Failed"
        /\ Counted

Next == Progress \/ Crash \/ Retry \/ Fail

Spec == Init /\ [][Next]_<<state, attempt>>
=============================================================================
