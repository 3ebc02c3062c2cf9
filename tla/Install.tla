------------------------------ MODULE Install ------------------------------
(***************************************************************************)
(* fleetty install: the files of a role are replaced one after the other   *)
(* (fileTransaction), the service is reloaded, enabled and (re)started, and *)
(* whatever fails undoes all of it. The process may be killed between any   *)
(* two steps, and installed again later.                                   *)
(*                                                                         *)
(* The files are the binary, the unit (with its drop-in) and the managed    *)
(* configuration. A file is what it holds and who wrote it, which stands    *)
(* for its inode. A running service is what it was started from.            *)
(***************************************************************************)
EXTENDS Naturals

CONSTANTS
    Contents,     \* versions of a file
    OnDisk,       \* the version installed at first, if any
    MaxInstalls,  \* bound on the installations
    MaxFaults,    \* bound on failing file and systemctl operations
    Absent,       \* no file, or nothing staged
    Stopped       \* no process of the service

Names == <<"binary", "unit", "config">>
Files == {Names[i] : i \in 1..3}

VARIABLES
    file,      \* file -> what is at its path
    service,   \* [enabled, loaded, running]: loaded is the unit systemd has read
    step,      \* where installFleetty is
    at,        \* which file it replaces or puts back
    staged,    \* what it installs
    backup,    \* file -> its backup of this installation, or Absent
    replaced,  \* the replacements of the transaction, as file names
    was,       \* [active, enabled] before the service was touched
    before,    \* bookkeeping: files and service when the installation began
    outcome,   \* bookkeeping: "none", "ok", "failed" or "killed"
    clean,     \* bookkeeping: nothing failed while undoing, nobody else wrote
    installs, faults

installing == <<step, at, staged, backup, replaced, was>>
ghosts == <<before, outcome, clean>>
vars == <<file, service, installing, ghosts, installs, faults>>

\* What a service started now would run.
Startable == [binary |-> file["binary"], unit |-> service.loaded, config |-> file["config"]]
Active == service.running # Stopped

Nothing == [f \in Files |-> Absent]
NotAsked == [active |-> FALSE, enabled |-> FALSE]

Installed == [f \in Files |-> <<OnDisk, "disk">>]

\* What an installation leaves that was killed at file i: those before i are new, i has none, the rest are old.
KilledAt(i, c) == [f \in Files |-> CASE \E j \in 1..(i - 1) : f = Names[j] -> <<c, "killed">>
                                     [] f = Names[i] -> Absent
                                     [] OTHER -> <<OnDisk, "disk">>]

\* The first installation, one over a running or stopped service, or one after a killed installation.
Init ==
    /\ \/ file = Nothing /\ service = [enabled |-> FALSE, loaded |-> Absent, running |-> Stopped]
       \/ /\ file \in {Installed} \cup {KilledAt(i, c) : i \in 1..3, c \in Contents \ {OnDisk}}
          /\ service \in [enabled : BOOLEAN, loaded : {Installed["unit"]}, running : {Stopped, Installed}]
    /\ step = "idle" /\ at = 0 /\ staged = Nothing
    /\ backup = Nothing /\ replaced = {} /\ was = NotAsked
    /\ before = [file |-> file, service |-> service] /\ outcome = "none" /\ clean = TRUE
    /\ installs = 0 /\ faults = 0

\* The process ends; what it kept in memory is gone. What it staged is remembered for the properties.
Ends(o) ==
    /\ step' = "idle" /\ outcome' = o /\ at' = 0 /\ replaced' = {} /\ was' = NotAsked
    /\ staged' = IF o = "ok" THEN staged ELSE Nothing

\* Every operation below may fail instead, as far as the bound allows.
Fault == faults < MaxFaults /\ faults' = faults + 1
-----------------------------------------------------------------------------
(* The transaction of files. *)

\* The command line, the platform and the staged files were accepted. The unit is part of the binary;
\* a configuration is optional.
StartInstall ==
    /\ step = "idle" /\ installs < MaxInstalls
    /\ \E b \in Contents, c \in Contents \cup {Absent} :
        staged' = [binary |-> b, unit |-> b, config |-> c]
    /\ step' = "replace" /\ at' = 1 /\ installs' = installs + 1
    /\ backup' = Nothing /\ replaced' = {}
    /\ before' = [file |-> file, service |-> service] /\ outcome' = "none" /\ clean' = TRUE
    /\ UNCHANGED <<file, service, was, faults>>

Current == Names[at]
Unchanged(f) == file[f] # Absent /\ file[f][1] = staged[f]

\* Replace finds the file as it should be (or has none to install) and goes on to the next.
SkipFile ==
    /\ step = "replace" /\ at <= 3
    /\ staged[Current] = Absent \/ Unchanged(Current)
    /\ at' = at + 1
    /\ UNCHANGED <<file, service, step, staged, backup, replaced, was, ghosts, installs, faults>>

\* The new file is written beside the old one, which is renamed to its backup ...
MoveAside ==
    /\ step = "replace" /\ at <= 3
    /\ staged[Current] # Absent /\ ~Unchanged(Current)
    /\ backup' = [backup EXCEPT ![Current] = file[Current]]
    /\ file' = [file EXCEPT ![Current] = Absent]
    /\ step' = "publish"
    /\ UNCHANGED <<service, at, staged, replaced, was, ghosts, installs, faults>>

\* ... and the new one is renamed to the path.
Publish ==
    /\ step = "publish"
    /\ file' = [file EXCEPT ![Current] = <<staged[Current], "install">>]
    /\ replaced' = replaced \cup {Current}
    /\ step' = "replace" /\ at' = at + 1
    /\ UNCHANGED <<service, staged, backup, was, ghosts, installs, faults>>

\* Reading, writing or the first rename fails: the file is as it was, the others are put back.
ReplaceFails ==
    /\ step = "replace" /\ at <= 3 /\ Fault
    /\ step' = "rollback" /\ at' = 3
    /\ UNCHANGED <<file, service, staged, backup, replaced, was, ghosts, installs>>

\* The second rename fails: Replace itself puts the backup back before it reports.
PublishFails ==
    /\ step = "publish" /\ Fault
    /\ file' = IF backup[Current] = Absent THEN file ELSE [file EXCEPT ![Current] = backup[Current]]
    /\ backup' = [backup EXCEPT ![Current] = Absent]
    /\ step' = "rollback" /\ at' = 3
    /\ UNCHANGED <<service, staged, replaced, was, ghosts, installs>>
-----------------------------------------------------------------------------
(* The service. *)

\* is-active and is-enabled, asked once the files are in place; then daemon-reload.
Reload ==
    /\ step = "replace" /\ at > 3
    /\ was' = [active |-> Active, enabled |-> service.enabled]
    /\ \/ /\ service' = [service EXCEPT !.loaded = file["unit"]]
          /\ step' = "enable" /\ UNCHANGED <<at, faults>>
       \/ Fault /\ step' = "restore" /\ at' = 3 /\ UNCHANGED service
    /\ UNCHANGED <<file, staged, backup, replaced, ghosts, installs>>

Enable ==
    /\ step = "enable"
    /\ \/ service' = [service EXCEPT !.enabled = TRUE] /\ step' = "start" /\ UNCHANGED <<at, faults>>
       \/ Fault /\ step' = "restore" /\ at' = 3 /\ UNCHANGED service
    /\ UNCHANGED <<file, staged, backup, replaced, was, ghosts, installs>>

\* Mutant: a service that is running already is left alone.
StartOnlyStopped ==
    /\ step = "start"
    /\ \/ /\ service' = IF was.active THEN service ELSE [service EXCEPT !.running = Startable]
          /\ step' = "verify" /\ UNCHANGED <<at, faults>>
       \/ Fault /\ service' = [service EXCEPT !.running = Stopped] /\ step' = "restore" /\ at' = 3
    /\ UNCHANGED <<file, staged, backup, replaced, was, ghosts, installs>>

\* start if it was not active, restart if a file changed. Either command may report an error, and a
\* service may be gone by the time is-active is asked.
Start ==
    /\ step = "start"
    /\ \/ /\ service' = IF was.active /\ replaced = {} THEN service ELSE [service EXCEPT !.running = Startable]
          /\ step' = "verify" /\ UNCHANGED <<at, faults>>
       \/ Fault /\ service' = [service EXCEPT !.running = Stopped] /\ step' = "restore" /\ at' = 3
    /\ UNCHANGED <<file, staged, backup, replaced, was, ghosts, installs>>

Verify ==
    /\ step = "verify"
    /\ \/ Active /\ step' = "commit" /\ UNCHANGED <<at, service, faults>>
       \/ Fault /\ service' = [service EXCEPT !.running = Stopped] /\ step' = "restore" /\ at' = 3
    /\ UNCHANGED <<file, staged, backup, replaced, was, ghosts, installs>>

\* Backups are removed; one that cannot be is reported as a failed installation.
Commit ==
    /\ step = "commit"
    /\ \/ backup' = Nothing /\ Ends("ok") /\ UNCHANGED <<faults, clean>>
       \/ Fault /\ Ends("failed") /\ clean' = FALSE /\ UNCHANGED backup
    /\ UNCHANGED <<file, service, before, installs>>
-----------------------------------------------------------------------------
(* Undoing. "rollback" is Rollback alone, "restore" Rollback and then the service. *)

\* Mutant: a file that was not there before the installation stays.
UndoWithBackup ==
    /\ step \in {"rollback", "restore"} /\ at > 0
    /\ file' = IF Current \in replaced /\ backup[Current] # Absent
               THEN [file EXCEPT ![Current] = backup[Current]] ELSE file
    /\ backup' = [backup EXCEPT ![Current] = IF Current \in replaced THEN Absent ELSE @]
    /\ at' = at - 1
    /\ UNCHANGED <<service, step, staged, replaced, was, ghosts, installs, faults>>

\* In reverse order a replaced file is removed and its backup renamed back.
Undo ==
    /\ step \in {"rollback", "restore"} /\ at > 0
    /\ file' = IF Current \in replaced THEN [file EXCEPT ![Current] = backup[Current]] ELSE file
    /\ backup' = [backup EXCEPT ![Current] = IF Current \in replaced THEN Absent ELSE @]
    /\ at' = at - 1
    /\ UNCHANGED <<service, step, staged, replaced, was, ghosts, installs, faults>>

\* The errors of Remove and Rename are ignored: the path may be left without a file.
UndoFails ==
    /\ step \in {"rollback", "restore"} /\ at > 0 /\ Current \in replaced /\ Fault
    /\ file' \in {file, [file EXCEPT ![Current] = Absent]}
    /\ at' = at - 1 /\ clean' = FALSE
    /\ UNCHANGED <<service, step, staged, backup, replaced, was, before, outcome, installs>>

RolledBack ==
    /\ step = "rollback" /\ at = 0
    /\ Ends("failed")
    /\ UNCHANGED <<file, service, backup, before, clean, installs, faults>>

\* daemon-reload, enable or disable, restart or stop; their errors are ignored too.
RestoreService ==
    /\ step = "restore" /\ at = 0
    /\ \/ /\ service' = [enabled |-> was.enabled, loaded |-> file["unit"],
                         running |-> IF was.active THEN [Startable EXCEPT !.unit = file["unit"]] ELSE Stopped]
          /\ UNCHANGED <<faults, clean>>
       \/ Fault /\ clean' = FALSE /\ service' \in {service, [service EXCEPT !.running = Stopped]}
    /\ Ends("failed")
    /\ UNCHANGED <<file, backup, before, installs>>

\* The process is killed, or its connection lost, between two steps.
Killed ==
    /\ step # "idle"
    /\ Ends("killed")
    /\ UNCHANGED <<file, service, backup, before, clean, installs, faults>>

Next ==
    \/ StartInstall \/ SkipFile \/ MoveAside \/ Publish \/ ReplaceFails \/ PublishFails
    \/ Reload \/ Enable \/ Start \/ Verify \/ Commit
    \/ Undo \/ UndoFails \/ RolledBack \/ RestoreService \/ Killed

Spec == Init /\ [][Next]_vars
-----------------------------------------------------------------------------
\* doctor: the checks on the binary, the unit and the service.
doctorFleetty == file["binary"] # Absent /\ file["unit"] # Absent /\ Active /\ service.enabled

\* An installation that reports failure has changed nothing: every file it had replaced is back, and the
\* service is enabled and runs as before, or anew from the same files, with its unit loaded if it was - unless
\* undoing itself failed, or an update wrote the binary meanwhile.
FailedInstallRestores ==
    (outcome = "failed" /\ clean) =>
        /\ file = before.file
        /\ service.enabled = before.service.enabled
        /\ Active = (before.service.running # Stopped)
        /\ Active => service.running \in {before.service.running, [Startable EXCEPT !.unit = file["unit"]]}
        /\ before.service.loaded = before.file["unit"] => service.loaded = file["unit"]

\* An installation that reports success has put every staged file in place, left no backup, and the
\* service runs - from the files now on disk, if it ran from the files on disk when the installation began.
InstalledIsRunning ==
    (outcome = "ok" /\ clean) =>
        /\ \A f \in Files : staged[f] # Absent => file[f][1] = staged[f]
        /\ \A f \in Files : backup[f] = Absent
        /\ doctorFleetty
        /\ (before.service.running = Stopped \/ before.service.running =
                [binary |-> before.file["binary"], unit |-> before.file["unit"], config |-> before.file["config"]])
            => service.running = Startable /\ service.loaded = file["unit"]
=============================================================================
