----------------------------- MODULE DedupeLink -----------------------------
(***************************************************************************)
(* Replacing duplicate files by symbolic links (storage_dedupe_link.go).   *)
(* A dedupe script runs one dedupe-link command per duplicate of a group   *)
(* and stops at the first that fails; several scripts, with different      *)
(* kept files, may run at once, other programs use the same paths, any     *)
(* system call may fail and a command may be killed at any step.           *)
(*                                                                         *)
(* A path holds nothing, a symbolic link or a regular file. A file has an  *)
(* inode, a stamp (size and modification time) and its content: TRUE is    *)
(* the content whose SHA-256 the script was planned with. Inodes are named *)
(* by the path the file was first at and a number, 0 for the planned file. *)
(***************************************************************************)
EXTENDS Naturals

CONSTANTS
    Paths,       \* the files of one duplicate group
    Scripts,     \* the scripts that may run
    MaxForeign,  \* bound on what other programs do
    None

Files == [ino : Paths \X Nat, stamp : Nat, planned : BOOLEAN]
Links == [to : Paths]

ASSUME DedupeAssumption == None \notin Files \cup Links \cup Paths /\ Paths # {} /\ MaxForeign \in Nat

VARIABLES
    at,         \* what is at each path
    payload,    \* duplicate in the workspace of the script's running command
    keep,       \* KeepPath of a script's commands
    todo,       \* the duplicates a script still has to replace
    target,     \* ReplacePath of the running command
    pc,         \* the next step of replaceStorageDuplicateWithSymlink
    keepInfo,   \* keepInfo, currentKeep and finalKeepInfo
    copyInfo,   \* replaceInfo, currentReplace, payloadInfo and finalPayloadInfo
    \* bookkeeping of the properties and of the bounds
    meddled,    \* another program wrote to or removed a file of the group
    seen,       \* what the command last knew to be at its path
    crossed,    \* two commands ran at once for one path
    foreign     \* what other programs did so far

disk == <<at, payload>>
command == <<target, pc, keepInfo, copyInfo>>
others == <<meddled, foreign>>
vars == <<disk, command, keep, todo, others, seen, crossed>>

IsFile(e) == e \in Files
IsLink(e) == e \in Links

\* storageFileIdentity: inode, size and modification time.
Identity(f) == <<f.ino, f.stamp>>
NoInfo == <<None, 0>>

\* The file the scripts were planned with; another program makes file or stamp number Newest.
Original(p) == [ino |-> <<p, 0>>, stamp |-> 0, planned |-> TRUE]
Newest == foreign + 1

\* What os.Stat and os.Open reach from a path: a link whose target is missing or that runs in
\* circles reaches nothing.
Followed(p) ==
    {q \in Paths : \A S \in SUBSET Paths :
        (p \in S /\ \A r \in S : IsLink(at[r]) => at[r].to \in S) => q \in S}
Resolve(p) ==
    LET ends == {q \in Followed(p) : IsFile(at[q])}
    IN IF ends = {} THEN None ELSE at[CHOOSE q \in ends : TRUE]

Init ==
    /\ at = [p \in Paths |-> Original(p)]
    /\ payload = [s \in Scripts |-> None]
    /\ keep = [s \in Scripts |-> None] /\ todo = [s \in Scripts |-> {}]
    /\ target = [s \in Scripts |-> None] /\ pc = [s \in Scripts |-> "new"]
    /\ keepInfo = [s \in Scripts |-> NoInfo] /\ copyInfo = [s \in Scripts |-> NoInfo]
    /\ meddled = FALSE /\ crossed = FALSE /\ seen = [s \in Scripts |-> None] /\ foreign = 0
-----------------------------------------------------------------------------
(* The script. *)

\* writeStorageDedupeScript: one command for each file of the group but the kept one.
StartScript(s) ==
    /\ pc[s] = "new"
    /\ \E k \in Paths :
        /\ keep' = [keep EXCEPT ![s] = k]
        /\ todo' = [todo EXCEPT ![s] = Paths \ {k}]
    /\ pc' = [pc EXCEPT ![s] = "next"]
    /\ UNCHANGED <<disk, target, keepInfo, copyInfo, others, seen>>

Ended(s) == pc[s] \in {"new", "complete", "failed", "recover", "killed"}
Running(s) == ~Ended(s) /\ pc[s] # "next"

\* The next command of the script; normalizeStorageDedupeLinkRequest accepts the planned pairs.
NextCommand(s) ==
    /\ pc[s] = "next"
    /\ \E p \in todo[s] :
        /\ target' = [target EXCEPT ![s] = p]
        /\ todo' = [todo EXCEPT ![s] = @ \ {p}]
        /\ crossed' = (crossed \/ \E t \in Scripts : Running(t) /\ target[t] = p)
    /\ pc' = [pc EXCEPT ![s] = "keep1"]
    /\ keepInfo' = [keepInfo EXCEPT ![s] = NoInfo] /\ copyInfo' = [copyInfo EXCEPT ![s] = NoInfo]
    /\ UNCHANGED <<disk, keep, others, seen>>

\* "Fleetty dedupe plan complete".
ScriptComplete(s) ==
    /\ pc[s] = "next" /\ todo[s] = {}
    /\ pc' = [pc EXCEPT ![s] = "complete"]
    /\ UNCHANGED <<disk, keep, todo, target, keepInfo, copyInfo, others, seen>>

Goto(s, step) == pc' = [pc EXCEPT ![s] = step]
-----------------------------------------------------------------------------
(* Verification before anything is moved: a failure ends the script (set -e). *)

\* inspectRegularDedupeFile of the kept file.
InspectKeep(s) ==
    /\ pc[s] = "keep1"
    /\ \/ /\ IsFile(at[keep[s]])
          /\ keepInfo' = [keepInfo EXCEPT ![s] = Identity(at[keep[s]])]
          /\ Goto(s, "copy1")
       \/ Goto(s, "failed") /\ UNCHANGED keepInfo
    /\ UNCHANGED <<disk, target, copyInfo, keep, todo, others, seen>>

\* inspectRegularDedupeFile of the duplicate; not a hard link of the kept file, and with the same
\* mode, owner and attributes.
InspectReplacement(s) ==
    /\ pc[s] = "copy1"
    /\ \/ /\ IsFile(at[target[s]]) /\ Identity(at[target[s]]) # keepInfo[s]
          /\ copyInfo' = [copyInfo EXCEPT ![s] = Identity(at[target[s]])]
          /\ Goto(s, "hash1")
       \/ Goto(s, "failed") /\ UNCHANGED copyInfo
    /\ UNCHANGED <<disk, target, keepInfo, keep, todo, others, seen>>

\* verifyStorageDedupeHash opens the path, so it follows links.
Hashes(p) == Resolve(p) # None /\ Resolve(p).planned

HashKeep(s) ==
    /\ pc[s] = "hash1"
    /\ \/ Hashes(keep[s]) /\ Goto(s, "hash2")
       \/ Goto(s, "failed")
    /\ UNCHANGED <<disk, target, keepInfo, copyInfo, keep, todo, others, seen>>

HashReplacement(s) ==
    /\ pc[s] = "hash2"
    /\ \/ Hashes(target[s]) /\ Goto(s, "keep2")
       \/ Goto(s, "failed")
    /\ UNCHANGED <<disk, target, keepInfo, copyInfo, keep, todo, others, seen>>

\* Both files are inspected again: "a file changed while its content was being verified".
SameFile(e, info) == IsFile(e) /\ Identity(e) = info

RecheckKeep(s) ==
    /\ pc[s] = "keep2"
    /\ \/ SameFile(at[keep[s]], keepInfo[s]) /\ Goto(s, "copy2")
       \/ Goto(s, "failed")
    /\ UNCHANGED <<disk, target, keepInfo, copyInfo, keep, todo, others, seen>>

RecheckReplacement(s) ==
    /\ pc[s] = "copy2"
    /\ \/ SameFile(at[target[s]], copyInfo[s]) /\ Goto(s, "isolate")
       \/ Goto(s, "failed")
    /\ UNCHANGED <<disk, target, keepInfo, copyInfo, keep, todo, others, seen>>
-----------------------------------------------------------------------------
(* The replacement. *)

\* MkdirTemp, then whatever is at the path by now moves into the workspace.
Isolate(s) ==
    /\ pc[s] = "isolate"
    /\ \/ /\ at[target[s]] # None
          /\ payload' = [payload EXCEPT ![s] = at[target[s]]]
          /\ at' = [at EXCEPT ![target[s]] = None]
          /\ seen' = [seen EXCEPT ![s] = None]
          /\ Goto(s, "payload1")
       \/ Goto(s, "failed") /\ UNCHANGED <<at, payload, seen>>
    /\ UNCHANGED <<target, keepInfo, copyInfo, keep, todo, others>>

\* From here on every failure goes to restore.
Checked(s, step, ok, next) ==
    /\ pc[s] = step
    /\ \/ ok /\ Goto(s, next)
       \/ Goto(s, "look")
    /\ UNCHANGED <<disk, target, keepInfo, copyInfo, keep, todo, others, seen>>

\* "replacement identity changed while dedupe started"
InspectPayload(s) == Checked(s, "payload1", SameFile(payload[s], copyInfo[s]), "hash3")

\* Mutant: a kept file that cannot be read any more ends the command at once.
HashKeepOrReturn(s) ==
    /\ pc[s] = "hash3"
    /\ (Hashes(keep[s]) /\ Goto(s, "hash4")) \/ Goto(s, "failed")
    /\ UNCHANGED <<disk, target, keepInfo, copyInfo, keep, todo, others, seen>>

HashKeepAgain(s) == Checked(s, "hash3", Hashes(keep[s]), "hash4")
HashPayload(s) == Checked(s, "hash4", IsFile(payload[s]) /\ payload[s].planned, "keep3")
\* "a file changed during final dedupe verification"
FinalKeep(s) == Checked(s, "keep3", SameFile(at[keep[s]], keepInfo[s]), "payload2")
FinalPayload(s) == Checked(s, "payload2", SameFile(payload[s], copyInfo[s]), "publish")

\* The link is made in the workspace and renamed to the path, whatever is there now.
Publish(s) ==
    /\ pc[s] = "publish"
    /\ \/ at' = [at EXCEPT ![target[s]] = [to |-> keep[s]]] /\ Goto(s, "verify")
       \/ Goto(s, "look") /\ UNCHANGED at
    /\ UNCHANGED <<payload, target, keepInfo, copyInfo, keep, todo, others, seen>>

\* os.Stat of the published path: "published link resolves to an unexpected file".
VerifyLink(s) ==
    Checked(s, "verify", Resolve(target[s]) # None /\ SameFile(Resolve(target[s]), keepInfo[s]), "remove")

\* The payload and the workspace go; a workspace that stays behind fails the command all the same.
RemovePayload(s) ==
    /\ pc[s] = "remove"
    /\ \/ payload' = [payload EXCEPT ![s] = None] /\ (Goto(s, "next") \/ Goto(s, "failed"))
       \/ Goto(s, "look") /\ UNCHANGED payload
    /\ UNCHANGED <<at, target, keepInfo, copyInfo, keep, todo, others, seen>>
-----------------------------------------------------------------------------
(* restore *)

\* Is there a symbolic link at the path? (The link in the workspace goes first.)
LookForLink(s) ==
    /\ pc[s] = "look"
    /\ Goto(s, IF IsLink(at[target[s]]) THEN "unlink" ELSE "empty")
    /\ seen' = [seen EXCEPT ![s] = at[target[s]]]
    /\ UNCHANGED <<disk, target, keepInfo, copyInfo, keep, todo, others>>

\* os.Remove of the path, whatever is there by now; its error is ignored.
RemoveLink(s) ==
    /\ pc[s] = "unlink"
    /\ at' = [at EXCEPT ![target[s]] = None] \/ UNCHANGED at
    /\ Goto(s, "empty")
    /\ UNCHANGED <<payload, target, keepInfo, copyInfo, keep, todo, others, seen>>

\* "recover the duplicate from" the workspace.
Recover(s) == Goto(s, "recover") /\ UNCHANGED <<at, payload>>

\* Mutant: nobody looks whether the path is empty.
PutBackBlindly(s) ==
    /\ pc[s] = "empty"
    /\ Goto(s, "putback") /\ UNCHANGED <<at, payload, seen>>
    /\ UNCHANGED <<target, keepInfo, copyInfo, keep, todo, others>>

LookForNothing(s) ==
    /\ pc[s] = "empty"
    /\ \/ at[target[s]] = None /\ Goto(s, "putback") /\ UNCHANGED <<at, payload>>
       \/ Recover(s)
    /\ seen' = [seen EXCEPT ![s] = at[target[s]]]
    /\ UNCHANGED <<target, keepInfo, copyInfo, keep, todo, others>>

\* Mutant: the workspace is removed with whatever is in it.
PutBackOrDiscard(s) ==
    /\ pc[s] = "putback"
    /\ payload' = [payload EXCEPT ![s] = None] /\ Goto(s, "failed")
    /\ (at' = [at EXCEPT ![target[s]] = payload[s]] \/ UNCHANGED at)
    /\ UNCHANGED <<target, keepInfo, copyInfo, keep, todo, others, seen>>

\* "original duplicate restored"
PutBack(s) ==
    /\ pc[s] = "putback"
    /\ \/ /\ at' = [at EXCEPT ![target[s]] = payload[s]]
          /\ payload' = [payload EXCEPT ![s] = None]
          /\ Goto(s, "failed")
       \/ Recover(s)
    /\ UNCHANGED <<target, keepInfo, copyInfo, keep, todo, others, seen>>

-----------------------------------------------------------------------------
(* The rest of the world. *)

\* The command is killed; its workspace stays.
Kill(s) ==
    /\ Running(s)
    /\ Goto(s, "killed")
    /\ UNCHANGED <<disk, target, keepInfo, copyInfo, keep, todo, others, seen>>

\* A program creates a file at a path that is empty.
Create(p) ==
    /\ foreign < MaxForeign /\ at[p] = None
    /\ at' = [at EXCEPT ![p] = [ino |-> <<p, Newest>>, stamp |-> 0, planned |-> FALSE]]
    /\ foreign' = foreign + 1
    /\ UNCHANGED <<payload, command, keep, todo, meddled, seen>>

\* A program writes to a file of the group, or replaces it by another of the same content.
Meddle(p) ==
    /\ foreign < MaxForeign /\ IsFile(at[p])
    /\ \/ at' = [at EXCEPT ![p] = [ino |-> @.ino, stamp |-> Newest, planned |-> FALSE]]
       \/ at' = [at EXCEPT ![p] = [ino |-> <<p, Newest>>, stamp |-> 0, planned |-> @.planned]]
       \/ at' = [at EXCEPT ![p] = None]
    /\ foreign' = foreign + 1 /\ meddled' = TRUE
    /\ UNCHANGED <<payload, command, keep, todo, seen>>

CommandStep(s) ==
    \/ InspectKeep(s) \/ InspectReplacement(s) \/ HashKeep(s) \/ HashReplacement(s)
    \/ RecheckKeep(s) \/ RecheckReplacement(s) \/ Isolate(s) \/ InspectPayload(s)
    \/ HashKeepAgain(s) \/ HashPayload(s) \/ FinalKeep(s) \/ FinalPayload(s)
    \/ Publish(s) \/ VerifyLink(s) \/ RemovePayload(s)
    \/ LookForLink(s) \/ RemoveLink(s) \/ LookForNothing(s) \/ PutBack(s)

Next ==
    \/ \E s \in Scripts : NextCommand(s)
    \/ /\ \/ \E s \in Scripts : StartScript(s) \/ ScriptComplete(s) \/ CommandStep(s) \/ Kill(s)
          \/ \E p \in Paths : Create(p) \/ Meddle(p)
       /\ UNCHANGED crossed

Spec == Init /\ [][Next]_vars
-----------------------------------------------------------------------------
(* What the replacement promises. *)

Present == {at[p] : p \in Paths} \cup {payload[s] : s \in Scripts}
Existing == {f \in Present : IsFile(f)}

\* As long as no other program wrote to or removed a file of the group, and no two commands ran at once
\* for one path, its content is in some file: scripts that run at once with different kept files never
\* delete each other's, whatever else comes to the paths.
LastCopyKept == (~meddled /\ ~crossed) => \E f \in Existing : f.planned

\* The same for any commands: "only the verified copies are deleted" (docs/usage.md:63).
CopyKeptByAny == ~meddled => \E f \in Existing : f.planned

\* A command destroys a file only if it is the duplicate it verified, or one that came to the
\* path after the command's last look (Publish and PutBack rename over it).
DestroysOnlyVerified ==
    [][\A s \in Scripts : CommandStep(s) =>
        \A f \in Existing : (\A g \in Existing' : g.ino # f.ino) =>
            \/ payload[s] = f /\ f.planned /\ Identity(f) = copyInfo[s]
            \/ at[target[s]] = f /\ f # seen[s]]_vars

\* When no command runs, none was killed and none asks for a recovery, every path of the group still
\* reads as the planned content: no link is left that dangles or runs in circles.
EveryPathReads ==
    (~meddled /\ ~crossed /\ foreign = 0 /\ \A s \in Scripts : pc[s] \in {"new", "next", "complete", "failed"})
        => \A p \in Paths : Hashes(p)
=============================================================================
