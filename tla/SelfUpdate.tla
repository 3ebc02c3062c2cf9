----------------------------- MODULE SelfUpdate -----------------------------
(***************************************************************************)
(* fleetty update: the installed binary is hashed, compared with the        *)
(* release, and replaced by one rename under a lock. Several updates may    *)
(* run at once and any of them may be killed.                              *)
(***************************************************************************)
CONSTANTS Updates, Contents, Absent

VARIABLES
    file,    \* the files of the installation; only file["binary"] is read and written
    pc,      \* where updateExecutable is
    seen,    \* the binary that was hashed
    wanted,  \* the release's checksum
    saved,   \* the hard link to the previous binary, in the staging directory
    lock     \* holder of the flock on <binary>.update.lock, or Absent

Init ==
    /\ pc = [u \in Updates |-> "idle"] /\ lock = Absent
    /\ seen = [u \in Updates |-> Absent] /\ wanted = [u \in Updates |-> Absent] /\ saved = [u \in Updates |-> Absent]

Goto(u, label) == pc' = [pc EXCEPT ![u] = label]

\* The command ends: its lock and its memory are gone. Its staging directory, which is removed unless it
\* holds the backup of a finished update, is read by nobody.
Leave(u, label) ==
    /\ Goto(u, label) /\ lock' = (IF lock = u THEN Absent ELSE lock)
    /\ seen' = [seen EXCEPT ![u] = Absent] /\ wanted' = [wanted EXCEPT ![u] = Absent] /\ saved' = [saved EXCEPT ![u] = Absent]

Ends(u) == Leave(u, "ended")

\* EvalSymlinks, Stat and FileSHA256 of the installed binary.
HashInstalled(u) ==
    /\ pc[u] = "idle" /\ file["binary"] # Absent
    /\ seen' = [seen EXCEPT ![u] = file["binary"]]
    /\ Goto(u, "hashed")
    /\ UNCHANGED <<file, wanted, saved, lock>>

\* The release's checksums; an installed binary that matches, or --check, ends the command.
ReadChecksums(u) ==
    /\ pc[u] = "hashed"
    /\ \/ Ends(u)
       \/ /\ \E c \in Contents \ {seen[u][1]} : wanted' = [wanted EXCEPT ![u] = c]
          /\ Goto(u, "outdated") /\ UNCHANGED <<seen, saved, lock>>
    /\ UNCHANGED file

\* Mutant: the lock is taken whoever holds it.
LockAnyway(u) ==
    /\ pc[u] = "outdated"
    /\ lock' = u /\ Goto(u, "locked")
    /\ UNCHANGED <<file, seen, wanted, saved>>

\* flock with LOCK_NB: another update in progress is an error.
TakeLock(u) ==
    /\ pc[u] = "outdated"
    /\ IF lock = Absent THEN lock' = u /\ Goto(u, "locked") /\ UNCHANGED <<seen, wanted, saved>> ELSE Ends(u)
    /\ UNCHANGED file

\* The asset is downloaded, verified against its checksum and asked for its version.
Download(u) ==
    /\ pc[u] = "locked"
    /\ \/ Goto(u, "downloaded") /\ UNCHANGED <<seen, wanted, saved, lock>>
       \/ Ends(u)
    /\ UNCHANGED file

\* SameFile and the hash again: the installed binary must still be the one that was compared.
CompareAgain(u) ==
    /\ pc[u] = "downloaded"
    /\ IF file["binary"] = seen[u] THEN Goto(u, "compared") /\ UNCHANGED <<seen, wanted, saved, lock>> ELSE Ends(u)
    /\ UNCHANGED file

\* The backup is a hard link, so the path keeps its binary.
LinkBackup(u) ==
    /\ pc[u] = "compared"
    /\ IF file["binary"] = Absent THEN Ends(u)
       ELSE saved' = [saved EXCEPT ![u] = file["binary"]] /\ Goto(u, "linked") /\ UNCHANGED <<seen, wanted, lock>>
    /\ UNCHANGED file

\* The rename that installs the candidate; the staging directory stays for the backup.
RenameCandidate(u) ==
    /\ pc[u] = "linked"
    /\ \/ file' = [file EXCEPT !["binary"] = <<wanted[u], u>>] /\ Leave(u, "updated")
       \/ Ends(u) /\ UNCHANGED file

\* A killed update leaves a staging directory nobody reads; the kernel drops its lock.
KillUpdate(u) ==
    /\ pc[u] \notin {"idle", "ended", "updated"}
    /\ Ends(u)
    /\ UNCHANGED file

Update(u) ==
    HashInstalled(u) \/ ReadChecksums(u) \/ TakeLock(u) \/ Download(u) \/ CompareAgain(u)
    \/ LinkBackup(u) \/ RenameCandidate(u) \/ KillUpdate(u)
=============================================================================
