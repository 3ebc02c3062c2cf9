----------------------------- MODULE MCRollout -----------------------------
(***************************************************************************)
(* The installation of one node, and the fleet in which each node is only   *)
(* current or not, in one run: a behaviour is of one of the two. The fleet  *)
(* is a leaf and a relay with a leaf and another relay with a leaf.        *)
(***************************************************************************)
EXTENDS Deployment, FiniteSets

CONSTANTS Targets, Relays, Hub, Parent, Declared, Parallel, MaxRuns, MaxFailures, MaxMoves

VARIABLES
    part,
    online, current, command, yes, phase, exit, plan, result, runs, failures, moves

fleetVars == <<online, current, command, yes, phase, exit, plan, result, runs, failures, moves>>

DeepTree == [t \in Targets |-> CASE t \in {"r1", "n1"} -> Hub [] t \in {"r2", "n2"} -> "r1" [] OTHER -> "r2"]

Fleet == INSTANCE FleetUpdate WITH MaxFaults <- MaxFailures, faults <- failures

\* Every target is reached from the Hub through relays: a set with the Hub's own targets, and with those behind each
\* of its members, has all.
Tree ==
    /\ Hub \notin Targets /\ Relays \subseteq Targets
    /\ Parent \in [Targets -> {Hub} \cup Relays]
    /\ \A S \in SUBSET Targets : (\A t \in Targets : Parent[t] \in {Hub} \cup S => t \in S) => S = Targets

ASSUME TreeAssumption == Tree

RolloutInit ==
    /\ DeploymentInit /\ Fleet!Init /\ part \in {"node", "fleet"}
    /\ IF part = "node" THEN online = {} ELSE file = Nothing

NodeStep == part = "node" /\ DeploymentNext /\ UNCHANGED <<part, fleetVars>>
FleetStep == part = "fleet" /\ Fleet!Next /\ UNCHANGED <<part, allvars>>

RolloutNext == NodeStep \/ FleetStep
RolloutSpec == RolloutInit /\ [][RolloutNext]_<<part, allvars, fleetVars>>

\* FleetUpdate: an update that succeeds has updated what it did not set aside.
SuccessMeansCurrent == part = "fleet" => Fleet!SuccessMeansCurrent
=============================================================================
