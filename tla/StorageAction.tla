--------------------------- MODULE StorageAction ---------------------------
(***************************************************************************)
(* Deleting, or archiving and deleting, one item of the storage map        *)
(* (storage_actions.go and the confirmation page of main.go), while other   *)
(* programs use the same directory, any system call may fail and the       *)
(* process may end at any step.                                            *)
(*                                                                         *)
(* An object is a file or directory with its identity (inode and stamp,    *)
(* what storageFileIdentity reads) and the version of its content.         *)
(***************************************************************************)
EXTENDS Naturals, FiniteSets

CONSTANTS
    Slots,       \* how many archive names nextStorageArchivePath tries
    MaxChanges,  \* bound on what other programs do
    MaxActions,  \* bound on the actions confirmed
    None

\* Objects, requests and 7z archives.
Objects == [ino : Nat, stamp : Nat, content : Nat, dir : BOOLEAN]
NoArchive == [state |-> "none", ino |-> 0, content |-> 0]
Kinds == {"delete", "archive"}
Requests == [kind : Kinds, key : Nat \X Nat \X BOOLEAN]
Archives == [state : {"none", "foreign", "empty", "corrupt", "good"}, ino : Nat, content : Nat]

ASSUME StorageAssumption ==
    /\ None \notin Objects \cup Requests
    /\ Slots \in Nat \ {0} /\ MaxChanges \in Nat /\ MaxActions \in Nat

VARIABLES
    path,       \* the object at request.Path
    staged,     \* the object in the quarantine or in the archive's input directory
    leftovers,  \* objects left in workspaces of earlier actions
    temp,       \* payload.7z in the workspace
    slots,      \* the archive names next to the target
    screen,     \* where the user is: "map", "confirm", or the program is quitting
    typed,      \* storageConfirm is the confirmation phrase
    request,    \* storageAction
    cancelled,  \* ctx of the running action
    pc,         \* the next step of performStorageAction
    name,       \* finalArchive
    result,     \* what the result says of the data
    alive,      \* the process exists
    \* bookkeeping of the properties and of the bounds
    confirmed,  \* what the user confirmed so far
    destroyed,  \* the objects Fleetty destroyed in whole or in part, and how
    created,    \* the inodes that were ever at the path
    removed,    \* the inodes other programs removed
    looked,     \* the youngest inode when a restoration looked at the path
    actions,    \* the actions confirmed so far
    changes     \* what other programs did so far

ui == <<screen, typed, request, cancelled>>
disk == <<path, staged, leftovers, temp, slots>>
others == <<created, removed, changes>>
vars == <<ui, disk, others, pc, name, result, alive, actions, confirmed, destroyed, looked>>

\* storageFileIdentity: inode, size and modification time, type.
storageFileIdentity(o) == <<o.ino, o.stamp, o.dir>>

Youngest == 1 + changes

TypeOK ==
    /\ path \in Objects \cup {None} /\ staged \in Objects \cup {None}
    /\ temp \in Archives /\ slots \in [1 .. Slots -> Archives]
    /\ screen \in {"map", "confirm", "quit"} /\ typed \in BOOLEAN
    /\ request \in Requests \cup {None}
    /\ cancelled \in BOOLEAN /\ alive \in BOOLEAN
    /\ pc \in {"idle", "validate", "mkdir", "move", "inspect", "remove", "cleanup", "create", "stat",
               "test", "sync", "name", "link", "unlink", "look", "putback", "done"}
    /\ name \in 0 .. Slots
    /\ result \in {"none", "deleted", "archived", "untouched", "restored", "recover", "leftover"}
    /\ leftovers \subseteq Objects
    /\ confirmed \subseteq Requests
    /\ destroyed \subseteq [obj : Objects, by : Kinds \cup {"restore"}]
    /\ created \subseteq Nat /\ removed \subseteq Nat /\ looked \in Nat /\ changes \in 0 .. MaxChanges /\ actions \in 0 .. MaxActions

Init ==
    /\ \E d \in BOOLEAN : path = [ino |-> 1, stamp |-> 0, content |-> 0, dir |-> d]
    /\ staged = None /\ leftovers = {} /\ temp = NoArchive
    /\ slots = [s \in 1 .. Slots |-> NoArchive]
    /\ screen = "map" /\ typed = FALSE /\ request = None /\ cancelled = FALSE
    /\ pc = "idle" /\ name = 0 /\ result = "none" /\ alive = TRUE
    /\ confirmed = {} /\ destroyed = {} /\ created = {1} /\ removed = {} /\ looked = 0 /\ actions = 0 /\ changes = 0
-----------------------------------------------------------------------------
(* The confirmation page. *)

Running == pc \notin {"idle", "done"}

\* d or z on an item: newStorageActionRequest remembers its identity.
prepareStorageAction(kind) ==
    /\ alive /\ screen = "map" /\ path # None
    /\ screen' = "confirm" /\ typed' = FALSE
    /\ request' = [kind |-> kind, key |-> storageFileIdentity(path)]
    /\ UNCHANGED <<cancelled, disk, others, pc, name, result, alive, actions, confirmed, destroyed, looked>>

\* Keys and pastes; what is typed while the action runs has no effect.
appendStorageConfirmation ==
    /\ alive /\ screen = "confirm" /\ pc = "idle"
    /\ typed' \in BOOLEAN
    /\ UNCHANGED <<screen, request, cancelled, disk, others, pc, name, result, alive, actions, confirmed, destroyed, looked>>

\* enter: nothing happens while an action runs (busy).
runStorageAction ==
    /\ alive /\ screen = "confirm" /\ typed /\ pc = "idle"
    /\ actions < MaxActions /\ actions' = actions + 1
    /\ pc' = "validate" /\ cancelled' = FALSE /\ UNCHANGED <<name, result, temp>>
    /\ confirmed' = confirmed \cup {request}
    /\ UNCHANGED <<screen, typed, request, path, staged, leftovers, slots, others, alive, destroyed, looked>>

\* esc: leaves the page, or asks a running archive to stop; a deletion goes on.
Escape ==
    /\ alive /\ screen = "confirm"
    /\ IF pc = "idle"
       THEN screen' = "map" /\ request' = None /\ typed' = FALSE /\ UNCHANGED cancelled
       ELSE request.kind = "archive" /\ cancelled' = TRUE /\ UNCHANGED <<screen, request, typed>>
    /\ UNCHANGED <<disk, others, pc, name, result, alive, actions, confirmed, destroyed, looked>>

\* ctrl+c: cancels the action and leaves the event loop, which waits for nobody.
Quit ==
    /\ alive /\ screen # "quit"
    /\ screen' = "quit" /\ cancelled' = (cancelled \/ Running)
    /\ UNCHANGED <<typed, request, disk, others, pc, name, result, alive, actions, confirmed, destroyed, looked>>

applyStorageActionResult ==
    /\ alive /\ screen = "confirm" /\ pc = "done"
    /\ screen' = "map" /\ request' = None /\ typed' = FALSE /\ cancelled' = FALSE
    /\ pc' = "idle" /\ name' = 0 /\ result' = "none" /\ looked' = 0 /\ temp' = NoArchive
    /\ UNCHANGED <<path, staged, leftovers, slots, others, actions, alive, confirmed, destroyed>>

\* The process ends: after ctrl+c, or killed.
Exit ==
    /\ alive
    /\ alive' = FALSE
    /\ UNCHANGED <<ui, disk, others, pc, name, result, actions, confirmed, destroyed, looked>>
-----------------------------------------------------------------------------
(* The steps of performStorageAction.  After a failure `cause', the        *)
(* restoration begins with "look".                                         *)

At(step) == alive /\ pc = step
Goto(step) == pc' = step /\ UNCHANGED result
Report(r) == pc' = "done" /\ result' = r

Destroy(o, how) == destroyed \cup {[obj |-> o, by |-> how]}

unchangedOutside == UNCHANGED <<ui, others, alive, actions, confirmed>>

\* validateStorageActionRequest and the test of ctx.
Matches == path # None /\ storageFileIdentity(path) = request.key

validateStorageActionRequest ==
    /\ At("validate")
    /\ IF Matches /\ ~cancelled THEN Goto("mkdir") ELSE Report("untouched")
    /\ UNCHANGED <<disk, name, destroyed, looked>> /\ unchangedOutside

\* MkdirTemp of the quarantine or the workspace.
MakeWorkspace ==
    /\ At("mkdir")
    /\ Goto("move") \/ Report("untouched")
    /\ UNCHANGED <<disk, name, destroyed, looked>> /\ unchangedOutside

\* The rename into the workspace takes whatever is at the path now.
MoveAside ==
    /\ At("move")
    /\ \/ path # None /\ staged' = path /\ path' = None /\ Goto("inspect")
       \/ Report("untouched") /\ UNCHANGED <<staged, path>>
    /\ UNCHANGED <<leftovers, temp, slots, name, destroyed, looked>> /\ unchangedOutside

\* Mutant: the moved object is not compared with the confirmed one.
InspectMovedBlindly ==
    /\ At("inspect")
    /\ Goto(IF request.kind = "delete" THEN "remove" ELSE "create") \/ Goto("look")
    /\ UNCHANGED <<disk, name, destroyed, looked>> /\ unchangedOutside

\* Lstat of what was moved, compared with what was confirmed.
InspectMoved ==
    /\ At("inspect")
    /\ \/ /\ storageFileIdentity(staged) = request.key
          /\ Goto(IF request.kind = "delete" THEN "remove" ELSE "create")
       \/ Goto("look")
    /\ UNCHANGED <<disk, name, destroyed, looked>> /\ unchangedOutside

\* 7z a: on success the archive is what 7z wrote; a failed or killed 7z may
\* leave a broken one.
CreateArchive ==
    /\ At("create")
    /\ \/ ~cancelled /\ Goto("stat")
          /\ \E s \in {"none", "empty", "corrupt", "good"} :
                temp' = IF s = "none" THEN NoArchive
                        ELSE [state |-> s, ino |-> staged.ino, content |-> staged.content]
       \/ /\ Goto("look")
          /\ temp' \in {NoArchive, [state |-> "corrupt", ino |-> staged.ino, content |-> staged.content]}
    /\ UNCHANGED <<path, staged, leftovers, slots, name, destroyed, looked>> /\ unchangedOutside

\* Stat: the archive must be a regular file with content.
StatArchive ==
    /\ At("stat")
    /\ \/ temp.state \in {"good", "corrupt"} /\ Goto("test")
       \/ Goto("look")
    /\ UNCHANGED <<disk, name, destroyed, looked>> /\ unchangedOutside

\* Mutant: the verdict of 7z t is ignored.
TestArchiveIgnored ==
    /\ At("test")
    /\ (~cancelled /\ Goto("sync")) \/ Goto("look")
    /\ UNCHANGED <<disk, name, destroyed, looked>> /\ unchangedOutside

\* 7z t finds every corrupt archive; then ctx is tested again.
TestArchive ==
    /\ At("test")
    /\ \/ temp.state = "good" /\ ~cancelled /\ Goto("sync")
       \/ Goto("look")
    /\ UNCHANGED <<disk, name, destroyed, looked>> /\ unchangedOutside

syncStorageArchive ==
    /\ At("sync")
    /\ Goto("name") \/ Goto("look")
    /\ UNCHANGED <<disk, name, destroyed, looked>> /\ unchangedOutside

\* The first free name; there may be none.
nextStorageArchivePath ==
    /\ At("name")
    /\ \/ \E s \in 1 .. Slots :
             /\ slots[s].state = "none" /\ \A r \in 1 .. (s - 1) : slots[r].state # "none"
             /\ name' = s /\ Goto("link")
       \/ Goto("look") /\ UNCHANGED name
    /\ UNCHANGED <<disk, destroyed, looked>> /\ unchangedOutside

\* Mutant: the archive is published by a rename, which replaces.
LinkArchiveReplaces ==
    /\ At("link")
    /\ \/ slots' = [slots EXCEPT ![name] = temp] /\ Goto("unlink")
       \/ Goto("look") /\ UNCHANGED slots
    /\ UNCHANGED <<path, staged, leftovers, temp, name, destroyed, looked>> /\ unchangedOutside

\* os.Link fails if the name has been taken in the meantime.
LinkArchive ==
    /\ At("link")
    /\ \/ slots[name].state = "none" /\ slots' = [slots EXCEPT ![name] = temp] /\ Goto("unlink")
       \/ Goto("look") /\ UNCHANGED slots
    /\ UNCHANGED <<path, staged, leftovers, temp, name, destroyed, looked>> /\ unchangedOutside

UnlinkTemporary ==
    /\ At("unlink")
    /\ \/ temp' = NoArchive /\ Goto("remove")
       \/ Goto("look") /\ UNCHANGED temp
    /\ UNCHANGED <<path, staged, leftovers, slots, name, destroyed, looked>> /\ unchangedOutside

\* Remove or RemoveAll of the moved object; RemoveAll may fail half-way.
RemoveMoved ==
    /\ At("remove")
    /\ \/ /\ staged' = None /\ Goto("cleanup")
          /\ destroyed' = Destroy(staged, request.kind)
       \/ /\ staged.dir /\ Goto("look") /\ UNCHANGED staged
          /\ destroyed' = Destroy(staged, request.kind)
       \/ Goto("look") /\ UNCHANGED <<staged, destroyed>>
    /\ UNCHANGED <<path, leftovers, temp, slots, name, looked>> /\ unchangedOutside

\* Removing the empty directories; only a deletion reports a failure here.
CleanUp ==
    /\ At("cleanup")
    /\ \/ Report(IF request.kind = "delete" THEN "deleted" ELSE "archived")
       \/ request.kind = "delete" /\ Report("leftover")
    /\ UNCHANGED <<disk, name, destroyed, looked>> /\ unchangedOutside

\* Mutant: the workspace is removed although nothing was put back.
LeaveNothing ==
    /\ staged' = None /\ UNCHANGED leftovers
    /\ Report("recover")

\* The message names the workspace, which stays.
LeaveInWorkspace ==
    /\ leftovers' = leftovers \cup {staged} /\ staged' = None
    /\ Report("recover")

\* Mutant: the rename is tried without looking.
LookAtNothing ==
    /\ At("look")
    /\ looked' = Youngest
    /\ Goto("putback") /\ UNCHANGED <<staged, leftovers>>
    /\ UNCHANGED <<path, temp, slots, name, destroyed>> /\ unchangedOutside

\* restoreQuarantinedStorageTarget, restoreStagedArchiveSource: Lstat first ...
LookAtOriginal ==
    /\ At("look")
    /\ looked' = Youngest
    /\ IF path = None
       THEN Goto("putback") /\ UNCHANGED <<staged, leftovers>>
       ELSE LeaveInWorkspace
    /\ UNCHANGED <<path, temp, slots, name, destroyed>> /\ unchangedOutside

\* ... then the rename, which replaces a file that appeared in between, but
\* not a directory with entries, and a directory replaces no file.
PutBack ==
    /\ At("putback")
    /\ \/ /\ path # None => ~staged.dir /\ ~path.dir
          /\ path' = staged /\ staged' = None /\ temp' = NoArchive
          /\ destroyed' = IF path = None THEN destroyed ELSE Destroy(path, "restore")
          /\ Report("restored") /\ UNCHANGED leftovers
       \/ LeaveInWorkspace /\ UNCHANGED <<path, temp, destroyed>>
    /\ UNCHANGED <<slots, name, looked>> /\ unchangedOutside

ActionStep ==
    \/ validateStorageActionRequest \/ MakeWorkspace \/ MoveAside \/ InspectMoved
    \/ CreateArchive \/ StatArchive \/ TestArchive \/ syncStorageArchive
    \/ nextStorageArchivePath \/ LinkArchive \/ UnlinkTemporary
    \/ RemoveMoved \/ CleanUp \/ LookAtOriginal \/ PutBack
-----------------------------------------------------------------------------
(* Other programs in the same directory. *)

Change == alive /\ changes < MaxChanges /\ changes' = changes + 1
unchangedByOthers == UNCHANGED <<ui, pc, name, result, alive, actions, confirmed, destroyed, looked>>

\* A new object takes the path, replacing what was there.
OthersPut ==
    /\ Change
    /\ \E d \in BOOLEAN : path' = [ino |-> Youngest + 1, stamp |-> 0, content |-> 0, dir |-> d]
    /\ created' = created \cup {Youngest + 1}
    /\ removed' = removed \cup (IF path = None THEN {} ELSE {path.ino})
    /\ UNCHANGED <<staged, leftovers, temp, slots>> /\ unchangedByOthers

OthersRemove ==
    /\ Change /\ path # None
    /\ path' = None /\ removed' = removed \cup {path.ino}
    /\ UNCHANGED <<created, staged, leftovers, temp, slots>> /\ unchangedByOthers

\* Writing changes a file's stamp; a directory's stamp only if an entry of its
\* own comes or goes.
Written(o) ==
    {[ino |-> o.ino, stamp |-> s, content |-> o.content + 1, dir |-> o.dir] :
        s \in {o.stamp + 1} \cup (IF o.dir THEN {o.stamp} ELSE {})}

\* Through the path, or through a descriptor opened before the move.
OthersWrite ==
    /\ Change
    /\ \/ path # None /\ path' \in Written(path) /\ UNCHANGED staged
       \/ staged # None /\ staged' \in Written(staged) /\ UNCHANGED path
    /\ UNCHANGED <<leftovers, temp, slots, created, removed>> /\ unchangedByOthers

OthersTakeName ==
    /\ Change
    /\ \E s \in 1 .. Slots :
          /\ slots[s].state = "none"
          /\ slots' = [slots EXCEPT ![s] = [state |-> "foreign", ino |-> 0, content |-> 0]]
    /\ UNCHANGED <<path, staged, leftovers, temp, created, removed>> /\ unchangedByOthers

Next ==
    \/ \E k \in Kinds : prepareStorageAction(k)
    \/ appendStorageConfirmation \/ runStorageAction \/ Escape \/ Quit
    \/ applyStorageActionResult \/ Exit
    \/ ActionStep
    \/ OthersPut \/ OthersRemove \/ OthersWrite \/ OthersTakeName

Spec == Init /\ [][Next]_vars
-----------------------------------------------------------------------------
(* Properties. *)

\* Only what was confirmed is removed, and only in the way that was
\* confirmed, whatever takes the path between confirmation, validation and
\* the rename into the workspace.
OnlyConfirmedRemoved ==
    \A d \in destroyed : d.by \in Kinds =>
        \E c \in confirmed : c.kind = d.by /\ c.key[1] = d.obj.ino

\* Archive and delete never loses data: what was removed is in a published
\* archive that 7z verified, with at least the content that was confirmed,
\* also after a cancellation, a failure or the end of the process.
RemovedIsArchived ==
    \A d \in destroyed : d.by = "archive" =>
        \E c \in confirmed, s \in 1 .. Slots :
            /\ c.kind = "archive" /\ c.key[1] = d.obj.ino
            /\ slots[s].state = "good" /\ slots[s].ino = d.obj.ino
            /\ slots[s].content >= c.key[2]

\* No object disappears with a workspace: whatever was at the path is there,
\* in a workspace, or was removed by somebody on purpose.
NothingVanishes ==
    \A i \in created :
        \/ i \in removed
        \/ \E d \in destroyed : d.obj.ino = i
        \/ \E o \in leftovers \cup ({path, staged} \ {None}) : o.ino = i

\* A restoration replaces another program's file only if that file appeared
\* after the restoration had found the path free.
RestoreReplacesOnlyNewcomers ==
    [][\A d \in destroyed' \ destroyed : d.by = "restore" => d.obj.ino > looked]_vars

\* The archive is published without overwriting what others put there, even
\* if they take the chosen name after it was found free.
ForeignArchivesKept ==
    [][\A s \in 1 .. Slots : slots[s].state = "foreign" => slots'[s] = slots[s]]_vars
=============================================================================
