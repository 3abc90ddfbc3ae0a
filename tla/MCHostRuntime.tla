---------------------------- MODULE MCHostRuntime ----------------------------
(* Instances of HostRuntime for TLC. *)
EXTENDS HostRuntime

CONSTANTS p1

Budget(f, m, w) == [fuel |-> f, memory |-> m, wall |-> w]
MCBudgets == {Budget(2, 1, 3), Budget(Unlimited, 1, 0), Budget(Unlimited, 0, 3)}
=============================================================================
