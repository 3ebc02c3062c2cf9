----------------------------- MODULE Deployment -----------------------------
(***************************************************************************)
(* One node's installation with everything that writes to it: an installer  *)
(* and updates, which share the binary and no lock.                         *)
(***************************************************************************)
EXTENDS Install

CONSTANTS Updates

\* What is at a path: a version and who wrote it; a service runs from what is at the paths.
Held == Contents \X ({"disk", "killed", "install"} \cup Updates)
Runs == [binary : Held \cup {Absent}, unit : Held \cup {Absent}, config : Held \cup {Absent}]

ASSUME DeploymentAssumption ==
    OnDisk \in Contents /\ Absent \notin Contents \cup Updates \cup Held /\ Stopped \notin Runs

VARIABLES
    pc, seen, wanted, saved, lock,
    touched  \* bookkeeping: updates whose binary the installer wrote after they compared it

U == INSTANCE SelfUpdate

updating == <<pc, seen, wanted, saved, lock>>
allvars == <<vars, updating, touched>>

DeploymentInit == Init /\ U!Init /\ touched = {}

\* The installer moves; whoever has compared the binary and not replaced it yet is overtaken.
InstallerStep ==
    /\ Next
    /\ touched' = IF file'["binary"] = file["binary"] THEN touched
                  ELSE touched \cup {u \in Updates : pc[u] \in {"compared", "linked"}}
    /\ UNCHANGED updating

UpdateStep(u) ==
    /\ U!Update(u)
    /\ touched' = IF pc'[u] = "compared" THEN touched \ {u} ELSE touched
    /\ clean' = (clean /\ file' = file)
    /\ UNCHANGED <<service, installing, before, outcome, installs, faults>>

DeploymentNext == InstallerStep \/ \E u \in Updates : UpdateStep(u)

DeploymentSpec == DeploymentInit /\ [][DeploymentNext]_allvars
-----------------------------------------------------------------------------
\* An update replaces exactly the binary it hashed before it took the lock, and keeps that one as its
\* backup, whatever other updates do - unless the installer, which takes no lock, wrote the binary between.
UpdateReplacesCompared ==
    [][\A u \in Updates : (pc[u] = "linked" /\ pc'[u] = "updated" /\ u \notin touched)
            => file["binary"] = seen[u] /\ saved[u] = seen[u]]_allvars
=============================================================================
