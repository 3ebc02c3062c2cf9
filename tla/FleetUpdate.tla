---------------------------- MODULE FleetUpdate ----------------------------
(***************************************************************************)
(* fleettyctl: the Hub plans and applies a manifest of targets. A relay's   *)
(* targets are planned and applied by a fleettyctl that is sent to the      *)
(* relay (cascade), to any depth. Targets and connections come and go       *)
(* meanwhile.                                                              *)
(*                                                                         *)
(* What a plan finds of a leaf is whether it runs the release ("current").  *)
(* The installer on the leaf is taken as what Install shows of it: it       *)
(* installs, or fails and leaves the leaf as it was.                        *)
(***************************************************************************)
EXTENDS Naturals, FiniteSets

CONSTANTS
    Targets, Relays, Hub,
    Parent,      \* target -> the relay, or the Hub, that reaches it
    Declared,    \* the targets whose arch the manifest gives
    Parallel,
    MaxRuns, MaxFaults, MaxMoves  \* bounds: commands, failing operations, changes of reachability

VARIABLES
    online,   \* targets that answer their parent
    current,  \* leaves that run the release
    command,  \* what the Hub runs: "update" or "apply"
    yes,      \* controller -> it was given --yes
    phase,    \* controller -> "idle", "plan", "apply" or "done"
    exit,     \* controller -> "none", "ok" or "failed"
    plan,     \* target -> "none", "busy", "noop", "change", "relay", "deferred" or "error"
    result,   \* target -> "none", "busy", "noop", "applied", "relayed", "deferred" or "error"
    runs, faults, moves

work == <<phase, exit, plan, result>>
bounds == <<runs, faults, moves>>
vars == <<online, current, command, yes, work, bounds>>

Controllers == {Hub} \cup Relays
Leaves == Targets \ Relays

\* The targets a controller works on: a manifest for "apply" has no relays.
Children(c) == {t \in Targets : Parent[t] = c /\ (command = "apply" => t \in Leaves)}
Clear(f, c) == [t \in Targets |-> IF t \in Children(c) THEN "none" ELSE f[t]]

Init ==
    /\ online \in SUBSET Targets /\ current = {}
    /\ command = "update" /\ yes = [c \in Controllers |-> FALSE]
    /\ phase = [c \in Controllers |-> "idle"] /\ exit = [c \in Controllers |-> "none"]
    /\ plan = [t \in Targets |-> "none"] /\ result = [t \in Targets |-> "none"]
    /\ runs = 0 /\ faults = 0 /\ moves = 0

Fault == faults < MaxFaults /\ faults' = faults + 1
NoFault == UNCHANGED faults

\* runParallel: a target waits for one of the controller's slots.
Slot(c, f) == Cardinality({t \in Children(c) : f[t] = "busy"}) < Parallel
-----------------------------------------------------------------------------
(* Starting. *)

\* update: the architecture of a top-level target that does not declare it is asked for; one that does
\* not answer is deferred. Then the assets are downloaded and verified, or the command fails.
StartUpdate ==
    /\ phase[Hub] \in {"idle", "done"} /\ runs < MaxRuns
    /\ \A r \in Relays : phase[r] = "idle"
    /\ runs' = runs + 1 /\ command' = "update"
    /\ \E y \in BOOLEAN : yes' = [yes EXCEPT ![Hub] = y]
    /\ result' = [t \in Targets |-> "none"]
    /\ plan' = [t \in Targets |-> IF Parent[t] = Hub /\ t \notin Declared /\ t \notin online THEN "deferred" ELSE "none"]
    /\ \/ phase' = [phase EXCEPT ![Hub] = "plan"] /\ exit' = [exit EXCEPT ![Hub] = "none"]
          /\ NoFault
       \/ Fault /\ phase' = [phase EXCEPT ![Hub] = "done"] /\ exit' = [exit EXCEPT ![Hub] = "failed"]
    /\ UNCHANGED <<online, current, moves>>

\* apply (and plan, which is apply that stops after planning).
StartApply ==
    /\ phase[Hub] \in {"idle", "done"} /\ runs < MaxRuns
    /\ \A r \in Relays : phase[r] = "idle"
    /\ runs' = runs + 1 /\ command' = "apply"
    /\ \E y \in BOOLEAN : yes' = [yes EXCEPT ![Hub] = y]
    /\ plan' = [t \in Targets |-> "none"] /\ result' = [t \in Targets |-> "none"]
    /\ phase' = [phase EXCEPT ![Hub] = "plan"] /\ exit' = [exit EXCEPT ![Hub] = "none"]
    /\ UNCHANGED <<online, current, faults, moves>>
-----------------------------------------------------------------------------
(* Planning. *)

\* What a target that cannot be connected to is: only update on the Hub defers it.
Unreachable(c) == IF c = Hub /\ command = "update" THEN "deferred" ELSE "error"

\* planTarget: connect, check sudo and systemd, hash the binary, ask for the service, compare the configuration.
planTarget(c, t) ==
    /\ phase[c] = "plan" /\ t \in Children(c) \cap Leaves /\ plan[t] = "none" /\ Slot(c, plan)
    /\ \/ /\ plan' = [plan EXCEPT ![t] = CASE t \notin online -> Unreachable(c)
                                           [] t \in current -> "noop"
                                           [] OTHER -> "change"]
          /\ NoFault
       \/ Fault /\ plan' = [plan EXCEPT ![t] = "error"]
    /\ UNCHANGED <<online, current, command, yes, phase, exit, result, runs, moves>>

\* A fleettyctl starts on relay t with the bundle and the manifest of its children.
Launch(t, y) ==
    /\ phase' = [phase EXCEPT ![t] = "plan"] /\ exit' = [exit EXCEPT ![t] = "none"]
    /\ yes' = [yes EXCEPT ![t] = y]

\* planRelayTarget: an offline relay is deferred, another one plans for itself (runRelayCascade without --yes).
planRelayTarget(c, t) ==
    /\ phase[c] = "plan" /\ t \in Children(c) \cap Relays /\ plan[t] = "none" /\ Slot(c, plan)
    /\ \/ t \notin online /\ plan' = [plan EXCEPT ![t] = "deferred"] /\ UNCHANGED <<phase, exit, yes, result>> /\ NoFault
       \/ /\ t \in online /\ Launch(t, FALSE) /\ NoFault
          /\ plan' = [Clear(plan, t) EXCEPT ![t] = "busy"] /\ result' = Clear(result, t)
       \/ t \in online /\ Fault /\ plan' = [plan EXCEPT ![t] = "error"] /\ UNCHANGED <<phase, exit, yes, result>>
    /\ UNCHANGED <<online, current, command, runs, moves>>

\* The relay's fleettyctl has ended: one that failed, or that planned an error, is an error.
RelayPlanned(c, t) ==
    /\ phase[c] = "plan" /\ t \in Children(c) /\ plan[t] = "busy" /\ phase[t] = "done"
    /\ plan' = [plan EXCEPT ![t] = IF exit[t] = "ok" THEN "relay" ELSE "error"]
    /\ phase' = [phase EXCEPT ![t] = "idle"]
    /\ UNCHANGED <<online, current, command, yes, exit, result, bounds>>

\* plansHealthy.
Healthy(c, f) == \A t \in Children(c) : f[t] # "error"

\* Every target has a plan. Without --yes, and for apply with an error in it, the command ends here.
FinishPlan(c) ==
    /\ phase[c] = "plan" /\ \A t \in Children(c) : plan[t] \notin {"none", "busy"}
    /\ IF yes[c] /\ ~(c = Hub /\ command = "apply" /\ ~Healthy(c, plan))
       THEN phase' = [phase EXCEPT ![c] = "apply"] /\ UNCHANGED exit
       ELSE /\ phase' = [phase EXCEPT ![c] = "done"]
            /\ exit' = [exit EXCEPT ![c] = IF Healthy(c, plan) THEN "ok" ELSE "failed"]
    /\ UNCHANGED <<online, current, command, yes, plan, result, bounds>>
-----------------------------------------------------------------------------
(* Applying. *)

\* A target that is not to be changed keeps its plan as its result.
KeepPlan(c, t) ==
    /\ phase[c] = "apply" /\ t \in Children(c) /\ result[t] = "none" /\ Slot(c, result)
    /\ plan[t] \in {"noop", "deferred", "error"}
    /\ result' = [result EXCEPT ![t] = plan[t]]
    /\ UNCHANGED <<online, current, command, yes, phase, exit, plan, bounds>>

\* applyTarget: stage, upload, check capabilities, install, clean up. An answer that is lost is an error
\* whether or not the installation went through.
applyTarget(c, t) ==
    /\ phase[c] = "apply" /\ t \in Children(c) /\ result[t] = "none" /\ plan[t] = "change" /\ Slot(c, result)
    /\ \/ /\ t \in online /\ current' = current \cup {t} /\ NoFault
          /\ result' = [result EXCEPT ![t] = "applied"]
       \/ t \notin online /\ result' = [result EXCEPT ![t] = "error"] /\ UNCHANGED current /\ NoFault
       \/ /\ t \in online /\ Fault /\ current' \in {current, current \cup {t}}
          /\ result' = [result EXCEPT ![t] = "error"]
    /\ UNCHANGED <<online, command, yes, phase, exit, plan, runs, moves>>

\* runRelayCascade with --yes: the relay plans again and applies.
applyRelay(c, t) ==
    /\ phase[c] = "apply" /\ t \in Children(c) /\ result[t] = "none" /\ plan[t] = "relay" /\ Slot(c, result)
    /\ \/ /\ t \in online /\ Launch(t, TRUE) /\ NoFault
          /\ plan' = Clear(plan, t) /\ result' = [Clear(result, t) EXCEPT ![t] = "busy"]
       \/ /\ (t \notin online /\ NoFault) \/ Fault
          /\ result' = [result EXCEPT ![t] = "error"] /\ UNCHANGED <<phase, exit, yes, plan>>
    /\ UNCHANGED <<online, current, command, runs, moves>>

\* Mutant: that the relay's command ended is enough.
RelayAppliedSomehow(c, t) ==
    /\ phase[c] = "apply" /\ t \in Children(c) /\ result[t] = "busy" /\ phase[t] = "done"
    /\ result' = [result EXCEPT ![t] = "relayed"]
    /\ phase' = [phase EXCEPT ![t] = "idle"]
    /\ UNCHANGED <<online, current, command, yes, exit, plan, bounds>>

RelayApplied(c, t) ==
    /\ phase[c] = "apply" /\ t \in Children(c) /\ result[t] = "busy" /\ phase[t] = "done"
    /\ result' = [result EXCEPT ![t] = IF exit[t] = "ok" THEN "relayed" ELSE "error"]
    /\ phase' = [phase EXCEPT ![t] = "idle"]
    /\ UNCHANGED <<online, current, command, yes, exit, plan, bounds>>

FinishApply(c) ==
    /\ phase[c] = "apply" /\ \A t \in Children(c) : result[t] \notin {"none", "busy"}
    /\ phase' = [phase EXCEPT ![c] = "done"]
    /\ exit' = [exit EXCEPT ![c] = IF Healthy(c, result) THEN "ok" ELSE "failed"]
    /\ UNCHANGED <<online, current, command, yes, plan, result, bounds>>
-----------------------------------------------------------------------------
(* The network. *)

\* The relays between t and the Hub: the least set with its parent and theirs.
Above(t) ==
    {r \in Relays : \A S \in SUBSET Relays : (\A u \in S \cup {t} : Parent[u] \in Relays => Parent[u] \in S) => r \in S}
\* The relays and leaves below t.
Below(t) == {u \in Targets : t \in Above(u)}

\* The connection to a working relay breaks or its command times out. The parent has an error; what was
\* started below comes to its end without an answer, and installs what it still installs.
LoseRelay(c, t) ==
    /\ t \in Relays /\ Parent[t] = c /\ phase[t] # "idle" /\ phase[c] \in {"plan", "apply"}
    /\ Fault
    /\ plan' = [plan EXCEPT ![t] = IF @ = "busy" THEN "error" ELSE @]
    /\ result' = [result EXCEPT ![t] = IF @ = "busy" THEN "error" ELSE @]
    /\ phase' = [r \in Controllers |-> IF r = t \/ r \in Below(t) THEN "idle" ELSE phase[r]]
    /\ \E s \in SUBSET {u \in Below(t) : yes[t] /\ plan[u] = "change"} : current' = current \cup s
    /\ UNCHANGED <<online, command, yes, exit, runs, moves>>

Move(t) ==
    /\ moves < MaxMoves /\ moves' = moves + 1 /\ phase[Hub] # "idle"
    /\ \/ t \in online /\ online' = online \ {t}
       \/ t \notin online /\ online' = online \cup {t}
    /\ UNCHANGED <<current, command, yes, work, runs, faults>>

Target(c, t) ==
    planTarget(c, t) \/ planRelayTarget(c, t) \/ RelayPlanned(c, t) \/ KeepPlan(c, t)
    \/ applyTarget(c, t) \/ applyRelay(c, t) \/ RelayApplied(c, t) \/ LoseRelay(c, t)

Next ==
    \/ StartUpdate \/ StartApply
    \/ \E c \in Controllers : FinishPlan(c) \/ FinishApply(c) \/ \E t \in Targets : Target(c, t)
    \/ \E t \in Targets : Move(t)

Spec == Init /\ [][Next]_vars
-----------------------------------------------------------------------------
(* Properties. *)

\* A target, or a relay above it, was set aside.
SetAside(t) == \E u \in {t} \cup Above(t) : result[u] = "deferred"

\* An update that succeeds has left no leaf behind: each one runs the release, unless it or a relay above
\* it is reported as deferred - at every depth, with relays failing, being lost and planning anew.
SuccessMeansCurrent ==
    (phase[Hub] = "done" /\ exit[Hub] = "ok" /\ yes[Hub]) =>
        \A t \in Leaves : t \in current \/ SetAside(t) \/ (command = "apply" /\ Parent[t] # Hub)
=============================================================================
