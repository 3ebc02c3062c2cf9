---------------------------- MODULE RolloutProofs ----------------------------
(***************************************************************************)
(* Proofs about Deployment and FleetUpdate.  For any versions, any number   *)
(* of updates at once and any number of faults, an installation that fails  *)
(* has restored what it found and one that succeeds runs what it installed, *)
(* and an update replaces the binary it compared.  For any tree of relays,  *)
(* a fleet update that succeeds has left behind only what it reported.      *)
(***************************************************************************)
EXTENDS MCRollout, TLAPS

\* The order of the files.
Place == [f \in Files |-> IF f = "binary" THEN 1 ELSE IF f = "unit" THEN 2 ELSE 3]

Undoing == {"rollback", "restore"}
Replacing == {"replace", "publish"}
Serving == {"enable", "start", "verify", "commit"}
Updating == {"locked", "downloaded", "compared", "linked"}
Services == [enabled : BOOLEAN, loaded : Held \cup {Absent}, running : Runs \cup {Stopped}]
FileSets == [Files -> Held \cup {Absent}]

InstallTypes ==
    /\ file \in FileSets /\ backup \in FileSets /\ service \in Services
    /\ step \in {"idle"} \cup Replacing \cup Serving \cup Undoing /\ at \in 0 .. 4
    /\ staged \in [Files -> Contents \cup {Absent}] /\ replaced \in SUBSET Files
    /\ was \in [active : BOOLEAN, enabled : BOOLEAN]
    /\ before \in [file : FileSets, service : Services]
    /\ outcome \in {"none", "ok", "failed", "killed"} /\ clean \in BOOLEAN

UpdateTypes ==
    /\ pc \in [Updates -> {"idle", "hashed", "outdated", "ended", "updated"} \cup Updating]
    /\ seen \in [Updates -> Held \cup {Absent}] /\ saved \in [Updates -> Held \cup {Absent}]
    /\ wanted \in [Updates -> Contents \cup {Absent}]
    /\ \A u \in Updates : pc[u] \in {"outdated"} \cup Updating => wanted[u] \in Contents

\* How far the installation has come, and what it asks for.
PlaceInv ==
    /\ step # "idle" => outcome = "none" /\ staged["binary"] # Absent /\ staged["unit"] # Absent
    /\ step \in Replacing => at > 0 /\ \A f \in replaced : Place[f] < at
    /\ step = "publish" \/ step \in Undoing => at < 4
    /\ step = "publish" => staged[Current] # Absent
    /\ step \in Serving => at = 4

\* A file that is replaced, one that is being replaced, and one that is (again) as it was.
New(f) == file[f] = <<staged[f], "install">> /\ staged[f] # Absent /\ backup[f] = before.file[f]
Aside(f) == file[f] = Absent /\ backup[f] = before.file[f]
Old(f) == file[f] = before.file[f]

FileInv ==
    (step # "idle" /\ clean) => \A f \in Files :
        IF f \in replaced /\ ~(step \in Undoing /\ at < Place[f]) THEN New(f)
        ELSE IF step = "publish" /\ f = Current THEN Aside(f) ELSE Old(f)

\* The files passed over need no replacement.
InPlace(f) == staged[f] = Absent \/ (file[f] # Absent /\ file[f][1] = staged[f])
SkipInv ==
    (step \in Replacing \cup Serving /\ clean) => \A f \in Files \ replaced : Place[f] < at => InPlace(f)

\* The service ran from the files on disk, or not at all, when the installation began.
RunFromDisk ==
    before.service.running = Stopped \/ before.service.running =
        [binary |-> before.file["binary"], unit |-> before.file["unit"], config |-> before.file["config"]]

ServiceInv ==
    (step # "idle" /\ clean) =>
        /\ step \in Replacing \cup {"rollback"} => service = before.service
        /\ step \in Serving \cup {"restore"} =>
               was = [active |-> before.service.running # Stopped, enabled |-> before.service.enabled]
        /\ step \in {"enable", "start"} => service.running = before.service.running
        /\ step \in Serving => service.loaded = file["unit"]
        /\ step \in {"start", "verify", "commit"} => service.enabled
        /\ step \in {"verify", "commit"} /\ RunFromDisk => service.running = Startable
        /\ step = "commit" => Active

\* What an installation did, as long as none begins anew.
OutcomeInv == FailedInstallRestores /\ InstalledIsRunning

\* The lock is held by the one update that is past it, which knows the binary that it compared unless the
\* installer wrote it since.
LockInv ==
    \A u \in Updates :
        /\ pc[u] \in Updating => lock = u
        /\ pc[u] \in {"compared", "linked"} /\ u \notin touched => file["binary"] = seen[u]
        /\ pc[u] = "linked" /\ u \notin touched => saved[u] = seen[u]

Inv ==
    /\ InstallTypes /\ UpdateTypes /\ PlaceInv /\ FileInv /\ SkipInv /\ ServiceInv /\ OutcomeInv
    /\ LockInv
-----------------------------------------------------------------------------
\* The files and their order.
LEMMA Places ==
    /\ Files = {"binary", "unit", "config"}
    /\ \A i \in 1 .. 3 : Names[i] \in Files /\ Place[Names[i]] = i
    /\ \A f \in Files : Place[f] \in 1 .. 3 /\ Names[Place[f]] = f
<1>1. Names[1] = "binary" /\ Names[2] = "unit" /\ Names[3] = "config"
  BY DEF Names
<1>2. \A i \in 1 .. 3 : i = 1 \/ i = 2 \/ i = 3
  OBVIOUS
<1>3. Files = {"binary", "unit", "config"}
  BY <1>1, <1>2 DEF Files
<1> QED
  BY <1>1, <1>2, <1>3 DEF Place

\* What the installer writes, and what a service runs from.
LEMMA Writes ==
    /\ \A c \in Contents : <<c, "install">> \in Held /\ <<c, "disk">> \in Held /\ <<c, "killed">> \in Held
    /\ \A c \in Contents, u \in Updates : <<c, u>> \in Held
    /\ \A h \in Held : h # Absent /\ h[1] \in Contents /\ h[1] # Absent
    /\ \A r \in Runs : r # Stopped
    /\ \A x, y, z \in Held \cup {Absent} : [binary |-> x, unit |-> y, config |-> z] \in Runs
  BY DeploymentAssumption DEF Held, Runs

\* What a service would be started from.
LEMMA Starts ==
    ASSUME InstallTypes
    PROVE  /\ Startable = [binary |-> file["binary"], unit |-> service.loaded, config |-> file["config"]]
           /\ [Startable EXCEPT !.unit = file["unit"]] =
                  [binary |-> file["binary"], unit |-> file["unit"], config |-> file["config"]]
           /\ Startable \in Runs /\ [Startable EXCEPT !.unit = file["unit"]] \in Runs
           /\ service.enabled \in BOOLEAN /\ service.loaded \in Held \cup {Absent} /\ service.running \in Runs \cup {Stopped}
<1>1. file["binary"] \in Held \cup {Absent} /\ file["unit"] \in Held \cup {Absent} /\ file["config"] \in Held \cup {Absent}
  BY Places DEF InstallTypes, FileSets
<1>2. service.enabled \in BOOLEAN /\ service.loaded \in Held \cup {Absent} /\ service.running \in Runs \cup {Stopped}
  BY DEF InstallTypes, Services
<1> QED
  BY <1>1, <1>2, Writes DEF Startable

\* The invariant holds at the start.
LEMMA InitInv == DeploymentInit => Inv
<1> SUFFICES ASSUME DeploymentInit PROVE Inv
  OBVIOUS
<1>1. Nothing \in FileSets /\ Nothing \in [Files -> Contents \cup {Absent}]
  BY DEF Nothing, FileSets
<1>2. Installed \in FileSets /\ Installed["unit"] \in Held
  BY Writes, Places, DeploymentAssumption DEF Installed, FileSets
<1>3. ASSUME NEW i \in 1 .. 3, NEW c \in Contents PROVE KilledAt(i, c) \in FileSets
  BY Writes, DeploymentAssumption DEF KilledAt, FileSets
<1>4. Installed \in Runs
  <2>1. Installed = [binary |-> <<OnDisk, "disk">>, unit |-> <<OnDisk, "disk">>, config |-> <<OnDisk, "disk">>]
    BY Places DEF Installed
  <2> QED
    BY <2>1, Writes, DeploymentAssumption
<1>5. file \in FileSets /\ service \in Services
  <2>1. CASE file = Nothing /\ service = [enabled |-> FALSE, loaded |-> Absent, running |-> Stopped]
    BY <1>1, <2>1 DEF Services
  <2>2. CASE /\ file \in {Installed} \cup {KilledAt(i, c) : i \in 1..3, c \in Contents \ {OnDisk}}
             /\ service \in [enabled : BOOLEAN, loaded : {Installed["unit"]}, running : {Stopped, Installed}]
    <3>1. file \in FileSets
      BY <1>2, <1>3, <2>2
    <3>2. service \in Services
      BY <1>2, <1>4, <2>2 DEF Services
    <3> QED
      BY <3>1, <3>2
  <2> QED
    BY <2>1, <2>2 DEF DeploymentInit, Init
<1>6. InstallTypes
  BY <1>1, <1>5 DEF DeploymentInit, Init, InstallTypes, NotAsked
<1>7. UpdateTypes /\ LockInv
  BY DEF DeploymentInit, U!Init, UpdateTypes, LockInv, Updating
<1>8. PlaceInv /\ FileInv /\ SkipInv /\ ServiceInv /\ OutcomeInv
  BY DEF DeploymentInit, Init, PlaceInv, FileInv, SkipInv, ServiceInv, OutcomeInv, FailedInstallRestores,
     InstalledIsRunning, Replacing, Serving, Undoing
<1> QED
  BY <1>6, <1>7, <1>8 DEF Inv

\* The installer's steps keep the types.
LEMMA TypesStep == ASSUME InstallTypes, PlaceInv, Next PROVE InstallTypes'
<1> USE Places, Writes DEF InstallTypes, Replacing, Serving, Undoing, ghosts
<1>0. /\ at \in 1 .. 3 => Current \in Files /\ file[Current] \in Held \cup {Absent} /\ backup[Current] \in Held \cup {Absent}
      /\ file["unit"] \in Held \cup {Absent}
  BY DEF Current, FileSets
<1>a. ASSUME NEW o \in {"ok", "failed", "killed"}, Ends(o)
      PROVE  /\ step' = "idle" /\ at' = 0 /\ replaced' = {} /\ outcome' = o
              /\ staged' \in [Files -> Contents \cup {Absent}] /\ was' \in [active : BOOLEAN, enabled : BOOLEAN]
  BY <1>a DEF Ends, NotAsked, Nothing
<1>1. CASE StartInstall
  <2>1. before' \in [file : FileSets, service : Services] /\ file' \in FileSets /\ service' \in Services
    BY <1>1 DEF StartInstall
  <2>2. backup' \in FileSets
    BY <1>1 DEF StartInstall, Nothing, FileSets
  <2>3. staged' \in [Files -> Contents \cup {Absent}]
    <3>1. PICK b \in Contents, c \in Contents \cup {Absent} : staged' = [binary |-> b, unit |-> b, config |-> c]
      BY <1>1 DEF StartInstall
    <3>2. [binary |-> b, unit |-> b, config |-> c] = [f \in Files |-> IF f = "config" THEN c ELSE b]
      OBVIOUS
    <3> QED
      BY <3>1, <3>2
  <2> QED
    BY <1>1, <2>1, <2>2, <2>3 DEF StartInstall
<1>2. CASE SkipFile
  BY <1>2 DEF SkipFile
<1>3. CASE MoveAside
  <2>1. file' \in FileSets /\ backup' \in FileSets
    BY <1>0, <1>3 DEF MoveAside, FileSets
  <2> QED
    BY <1>3, <2>1 DEF MoveAside
<1>4. CASE Publish
  <2>1. at \in 1 .. 3 /\ Current \in Files /\ staged[Current] \in Contents
    BY <1>0, <1>4 DEF Publish, PlaceInv
  <2>2. file' \in FileSets
    BY <1>4, <2>1 DEF Publish, FileSets
  <2> QED
    BY <1>4, <2>1, <2>2 DEF Publish
<1>5. CASE ReplaceFails
  BY <1>5 DEF ReplaceFails
<1>6. CASE PublishFails
  <2>1. at \in 1 .. 3
    BY <1>6 DEF PublishFails, PlaceInv
  <2>2. file' \in FileSets /\ backup' \in FileSets
    BY <1>0, <1>6, <2>1 DEF PublishFails, FileSets
  <2> QED
    BY <1>6, <2>1, <2>2 DEF PublishFails
<1>7. CASE Reload \/ Enable \/ Start \/ Verify
  <2>1. service' \in Services
    <3>1. CASE service' = service
      BY <3>1
    <3>2. CASE service' = [service EXCEPT !.loaded = file["unit"]]
      BY <1>0, <3>2 DEF Services
    <3>3. CASE service' = [service EXCEPT !.enabled = TRUE]
      BY <3>3 DEF Services
    <3>4. CASE service' = [service EXCEPT !.running = Startable] \/ service' = [service EXCEPT !.running = Stopped]
      BY <3>4, Starts DEF Services
    <3> QED
      BY <1>7, <3>1, <3>2, <3>3, <3>4 DEF Reload, Enable, Start, Verify
  <2>2. was' \in [active : BOOLEAN, enabled : BOOLEAN]
    <3>1. CASE Reload
      <4>1. Active \in BOOLEAN /\ service.enabled \in BOOLEAN
        BY Starts DEF Active
      <4> QED
        BY <3>1, <4>1 DEF Reload
    <3>2. CASE Enable \/ Start \/ Verify
      BY <3>2 DEF Enable, Start, Verify
    <3> QED
      BY <1>7, <3>1, <3>2
  <2> QED
    BY <1>7, <2>1, <2>2 DEF Reload, Enable, Start, Verify
<1>8. CASE Commit
  <2>1. backup' \in FileSets
    BY <1>8 DEF Commit, Nothing, FileSets
  <2>2. clean' \in BOOLEAN
    BY <1>8 DEF Commit
  <2> QED
    BY <1>8, <1>a, <2>1, <2>2 DEF Commit
<1>9. CASE Undo \/ UndoFails
  <2>1. at \in 1 .. 3 /\ at' = at - 1
    BY <1>9 DEF Undo, UndoFails, PlaceInv
  <2>2. file' \in FileSets /\ backup' \in FileSets
    BY <1>0, <1>9, <2>1 DEF Undo, UndoFails, FileSets
  <2>3. clean' \in BOOLEAN
    BY <1>9 DEF Undo, UndoFails
  <2> QED
    BY <1>9, <2>1, <2>2, <2>3 DEF Undo, UndoFails
<1>10. CASE RolledBack \/ Killed
  BY <1>10, <1>a DEF RolledBack, Killed
<1>11. CASE RestoreService
  <2>1. service' \in Services
    <3>1. CASE service' \in {service, [service EXCEPT !.running = Stopped]}
      BY <3>1 DEF Services
    <3>2. CASE service' = [enabled |-> was.enabled, loaded |-> file["unit"],
                           running |-> IF was.active THEN [Startable EXCEPT !.unit = file["unit"]] ELSE Stopped]
      <4>1. was.enabled \in BOOLEAN /\ [Startable EXCEPT !.unit = file["unit"]] \in Runs
        BY Starts
      <4> QED
        BY <1>0, <3>2, <4>1 DEF Services
    <3> QED
      BY <1>11, <3>1, <3>2 DEF RestoreService
  <2>2. clean' \in BOOLEAN
    BY <1>11 DEF RestoreService
  <2> QED
    BY <1>11, <1>a, <2>1, <2>2 DEF RestoreService
<1> QED
  BY <1>1, <1>2, <1>3, <1>4, <1>5, <1>6, <1>7, <1>8, <1>9, <1>10, <1>11 DEF Next

\* How far the installation has come.
LEMMA PlaceStep == ASSUME InstallTypes, PlaceInv, Next PROVE PlaceInv'
<1> USE Places DEF InstallTypes, PlaceInv, Replacing, Serving, Undoing, ghosts, Current
<1>1. CASE StartInstall
  <2>1. PICK b \in Contents, c \in Contents \cup {Absent} : staged' = [binary |-> b, unit |-> b, config |-> c]
    BY <1>1 DEF StartInstall
  <2> QED
    BY <1>1, <2>1, DeploymentAssumption DEF StartInstall
<1>2. CASE SkipFile \/ MoveAside
  BY <1>2 DEF SkipFile, MoveAside
<1>3. CASE Publish
  BY <1>3 DEF Publish
<1>4. CASE ReplaceFails \/ PublishFails
  BY <1>4 DEF ReplaceFails, PublishFails
<1>5. CASE Reload \/ Enable \/ Start \/ Verify
  BY <1>5 DEF Reload, Enable, Start, Verify
<1>6. CASE Undo \/ UndoFails
  BY <1>6 DEF Undo, UndoFails
<1>7. CASE Commit \/ RolledBack \/ RestoreService \/ Killed
  BY <1>7 DEF Commit, RolledBack, RestoreService, Killed, Ends
<1> QED
  BY <1>1, <1>2, <1>3, <1>4, <1>5, <1>6, <1>7 DEF Next

\* What is at the paths of an installation.
LEMMA FileStep == ASSUME InstallTypes, PlaceInv, FileInv, Next PROVE FileInv'
<1> USE Places DEF InstallTypes, FileInv, New, Aside, Old, Replacing, Serving, Undoing, ghosts
<1>0. at \in 1 .. 3 => Current \in Files /\ Place[Current] = at
  BY DEF Current
<1>1. CASE StartInstall
  BY <1>1 DEF StartInstall
<1>2. CASE SkipFile
  BY <1>2 DEF SkipFile
<1>3. CASE MoveAside
  <2>1. at \in 1 .. 3 /\ Current' = Current /\ Current \notin replaced
    BY <1>0, <1>3 DEF MoveAside, PlaceInv, Current
  <2>2. \A f \in Files \ {Current} : file'[f] = file[f] /\ backup'[f] = backup[f]
    BY <1>0, <1>3 DEF MoveAside, FileSets
  <2>3. file'[Current] = Absent /\ backup'[Current] = file[Current]
    BY <1>0, <1>3, <2>1 DEF MoveAside, FileSets
  <2> QED
    BY <1>0, <1>3, <2>1, <2>2, <2>3 DEF MoveAside
<1>4. CASE Publish
  <2>1. at \in 1 .. 3 /\ Current \in Files /\ Current \notin replaced /\ staged[Current] # Absent
    BY <1>0, <1>4 DEF Publish, PlaceInv
  <2>2. \A f \in Files \ {Current} : file'[f] = file[f]
    BY <1>4 DEF Publish, FileSets
  <2>3. file'[Current] = <<staged[Current], "install">>
    BY <1>4, <2>1 DEF Publish, FileSets
  <2> QED
    BY <1>4, <2>1, <2>2, <2>3 DEF Publish
<1>5. CASE ReplaceFails
  BY <1>5 DEF ReplaceFails
<1>6. CASE PublishFails
  <2>1. at \in 1 .. 3 /\ Current \in Files /\ Current \notin replaced
    BY <1>0, <1>6 DEF PublishFails, PlaceInv
  <2>2. \A f \in Files \ {Current} : file'[f] = file[f] /\ backup'[f] = backup[f]
    BY <1>6 DEF PublishFails, FileSets
  <2>3. clean => file'[Current] = before.file[Current]
    BY <1>6, <2>1 DEF PublishFails, FileSets
  <2> QED
    BY <1>6, <2>1, <2>2, <2>3 DEF PublishFails
<1>7. CASE Reload \/ Enable \/ Start \/ Verify
  <2>1. /\ UNCHANGED <<file, staged, backup, replaced, before, clean>> /\ step \notin {"idle", "publish"} \cup Undoing
        /\ step' \in Serving \/ (step' = "restore" /\ at' = 3)
    BY <1>7 DEF Reload, Enable, Start, Verify
  <2> QED
    BY <2>1
<1>8. CASE Undo
  <2>1. at \in 1 .. 3 /\ Current \in Files /\ Place[Current] = at /\ at' = at - 1
    BY <1>0, <1>8 DEF Undo, PlaceInv
  <2>2. \A f \in Files \ {Current} : file'[f] = file[f] /\ backup'[f] = backup[f]
    BY <1>8 DEF Undo, FileSets
  <2>3. clean => file'[Current] = before.file[Current]
    BY <1>8, <2>1 DEF Undo, FileSets
  <2>4. \A f \in Files \ {Current} : at' < Place[f] <=> at < Place[f]
    BY <2>1
  <2> QED
    BY <1>8, <2>1, <2>2, <2>3, <2>4 DEF Undo
<1>9. CASE UndoFails
  BY <1>9 DEF UndoFails
<1>10. CASE Commit \/ RolledBack \/ RestoreService \/ Killed
  BY <1>10 DEF Commit, RolledBack, RestoreService, Killed, Ends
<1> QED
  BY <1>1, <1>2, <1>3, <1>4, <1>5, <1>6, <1>7, <1>8, <1>9, <1>10 DEF Next

\* The files passed over stay in place.
LEMMA SkipStep == ASSUME InstallTypes, PlaceInv, SkipInv, Next PROVE SkipInv'
<1> USE Places DEF InstallTypes, SkipInv, InPlace, Replacing, Serving, Undoing, ghosts
<1>0. at \in 1 .. 3 => Current \in Files /\ Place[Current] = at
  BY DEF Current
<1>1. CASE StartInstall
  BY <1>1 DEF StartInstall
<1>2. CASE SkipFile
  <2>1. at \in 1 .. 3 /\ Current \in Files /\ (staged[Current] = Absent \/ Unchanged(Current))
    BY <1>0, <1>2 DEF SkipFile, PlaceInv
  <2>2. \A f \in Files : Place[f] < at + 1 => Place[f] < at \/ f = Current
    BY <1>0, <2>1 DEF Current
  <2> QED
    BY <1>2, <2>1, <2>2 DEF SkipFile, Unchanged
<1>3. CASE MoveAside
  <2>1. \A f \in Files : Place[f] < at => file'[f] = file[f]
    BY <1>0, <1>3 DEF MoveAside, FileSets, PlaceInv
  <2> QED
    BY <1>3, <2>1 DEF MoveAside
<1>4. CASE Publish
  <2>1. at \in 1 .. 3 /\ Current \in Files
    BY <1>0, <1>4 DEF Publish, PlaceInv
  <2>2. \A f \in Files : Place[f] < at + 1 => Place[f] < at \/ f = Current
    BY <1>0, <2>1 DEF Current
  <2>3. \A f \in Files \ {Current} : file'[f] = file[f]
    BY <1>4 DEF Publish, FileSets
  <2> QED
    BY <1>4, <2>1, <2>2, <2>3 DEF Publish
<1>5. CASE Reload \/ Enable \/ Start \/ Verify
  <2>1. UNCHANGED <<file, staged, replaced, clean>> /\ step \in Replacing \cup Serving
    BY <1>5 DEF Reload, Enable, Start, Verify
  <2>2. step' \in Replacing \cup Serving => at' = at
    BY <1>5 DEF Reload, Enable, Start, Verify
  <2> QED
    BY <2>1, <2>2
<1>6. CASE ReplaceFails \/ PublishFails \/ Undo \/ UndoFails
  BY <1>6 DEF ReplaceFails, PublishFails, Undo, UndoFails
<1>7. CASE Commit \/ RolledBack \/ RestoreService \/ Killed
  BY <1>7 DEF Commit, RolledBack, RestoreService, Killed, Ends
<1> QED
  BY <1>1, <1>2, <1>3, <1>4, <1>5, <1>6, <1>7 DEF Next

\* What the service is during an installation.
LEMMA ServiceStep == ASSUME InstallTypes, PlaceInv, FileInv, ServiceInv, Next PROVE ServiceInv'
<1> USE DEF InstallTypes, ServiceInv, Replacing, Serving, Undoing, ghosts
<1>1. CASE StartInstall
  BY <1>1 DEF StartInstall
<1>2. CASE SkipFile \/ MoveAside \/ Publish \/ ReplaceFails \/ PublishFails
  BY <1>2 DEF SkipFile, MoveAside, Publish, ReplaceFails, PublishFails
<1>3. CASE Reload
  <2>1. CASE step' = "enable"
    <3>1. /\ step = "replace" /\ service' = [service EXCEPT !.loaded = file["unit"]] /\ UNCHANGED <<file, before, clean>>
          /\ was' = [active |-> Active, enabled |-> service.enabled]
      BY <1>3, <2>1 DEF Reload
    <3>2. service'.loaded = file["unit"] /\ service'.running = service.running
      BY <3>1 DEF Services
    <3> QED
      BY <2>1, <3>1, <3>2 DEF Active
  <2>2. CASE step' = "restore"
    BY <1>3, <2>2 DEF Reload, Active
  <2> QED
    BY <1>3, <2>1, <2>2 DEF Reload
<1>4. CASE Enable
  <2>1. UNCHANGED <<file, before, was, clean>> /\ step = "enable" /\ step' \in {"start", "restore"}
    BY <1>4 DEF Enable
  <2>2. step' = "start" => /\ service'.loaded = service.loaded /\ service'.running = service.running
                           /\ service'.enabled = TRUE
    BY <1>4 DEF Enable, Services
  <2> QED
    BY <2>1, <2>2
<1>5. CASE Start
  <2>1. UNCHANGED <<file, before, was, clean>> /\ step = "start" /\ step' \in {"verify", "restore"}
    BY <1>5 DEF Start
  <2>2. ASSUME step' = "verify", ~(was.active /\ replaced = {})
        PROVE  service'.loaded = service.loaded /\ service'.enabled = service.enabled /\ service'.running = Startable
    <3>1. service' = [service EXCEPT !.running = Startable]
      BY <1>5, <2>2 DEF Start
    <3> QED
      BY <3>1 DEF Services
  <2>3. ASSUME step' = "verify", was.active, replaced = {}, clean, RunFromDisk
        PROVE  service' = service /\ service.running = Startable
    <3>1. service' = service
      BY <1>5, <2>3 DEF Start
    <3>2. \A f \in Files : file[f] = before.file[f]
      BY <2>1, <2>3 DEF FileInv, Old
    <3>3. service.running = before.service.running /\ service.running # Stopped /\ service.loaded = file["unit"]
      BY <2>1, <2>3
    <3> QED
      BY <2>3, <3>1, <3>2, <3>3, Places DEF RunFromDisk, Startable
  <2>4. step' = "verify" /\ was.active /\ replaced = {} => service' = service
    BY <1>5 DEF Start
  <2>5. Startable' = [Startable EXCEPT !.unit = service'.loaded] /\ RunFromDisk' = RunFromDisk
    BY <2>1 DEF Startable, RunFromDisk
  <2>6. Startable.unit = service.loaded
    BY DEF Startable
  <2>7. step' = "verify" /\ clean => service'.loaded = file["unit"] /\ service'.enabled
    BY <2>1, <2>2, <2>4
  <2>8. step' = "verify" /\ clean /\ RunFromDisk => service'.running = Startable'
    BY <2>1, <2>2, <2>3 DEF Startable
  <2> QED
    BY <2>1, <2>5, <2>7, <2>8
<1>6. CASE Verify
  <2>1. UNCHANGED <<file, before, was, clean>> /\ step = "verify" /\ step' \in {"commit", "restore"}
    BY <1>6 DEF Verify
  <2>2. step' = "commit" => Active /\ service' = service
    BY <1>6 DEF Verify
  <2> QED
    BY <2>1, <2>2 DEF Startable, RunFromDisk, Active
<1>7. CASE Undo \/ UndoFails
  BY <1>7 DEF Undo, UndoFails
<1>8. CASE Commit \/ RolledBack \/ RestoreService \/ Killed
  BY <1>8 DEF Commit, RolledBack, RestoreService, Killed, Ends
<1> QED
  BY <1>1, <1>2, <1>3, <1>4, <1>5, <1>6, <1>7, <1>8 DEF Next

\* What an installation that ends has done.
LEMMA OutcomeStep ==
    ASSUME InstallTypes, PlaceInv, FileInv, SkipInv, ServiceInv, OutcomeInv, InstallTypes', Next
    PROVE  OutcomeInv'
<1> USE DEF OutcomeInv
<1>1. CASE outcome' \in {"none", "killed"}
  BY <1>1 DEF FailedInstallRestores, InstalledIsRunning
<1>2. CASE ~clean'
  BY <1>2 DEF FailedInstallRestores, InstalledIsRunning
<1>3. CASE Commit /\ clean'
  <2>1. /\ step = "commit" /\ backup' = Nothing /\ outcome' = "ok" /\ clean
        /\ UNCHANGED <<file, service, before, staged>>
    BY <1>3 DEF Commit, Ends
  <2>2. \A f \in Files : staged[f] # Absent => file[f] # Absent /\ file[f][1] = staged[f]
    <3> SUFFICES ASSUME NEW f \in Files, staged[f] # Absent PROVE file[f] # Absent /\ file[f][1] = staged[f]
      OBVIOUS
    <3>1. at = 4 /\ Place[f] < at
      BY <2>1, Places DEF PlaceInv, Serving
    <3>2. CASE f \in replaced
      <4>1. file[f] = <<staged[f], "install">> /\ staged[f] \in Contents
        BY <2>1, <3>2 DEF FileInv, New, Undoing, InstallTypes
      <4>2. file[f] \in Held
        BY <4>1, Writes
      <4>3. file[f] # Absent
        BY <4>2, Writes
      <4> QED
        BY <4>1, <4>3
    <3>3. CASE f \notin replaced
      BY <2>1, <3>1, <3>3 DEF SkipInv, InPlace, Serving
    <3> QED
      BY <3>2, <3>3
  <2>3. doctorFleetty
    BY <2>1, <2>2, Places DEF doctorFleetty, PlaceInv, ServiceInv, Serving
  <2>4. RunFromDisk => service.running = Startable /\ service.loaded = file["unit"]
    BY <2>1 DEF ServiceInv, Serving
  <2>5. InstalledIsRunning'
    BY <2>1, <2>2, <2>3, <2>4 DEF InstalledIsRunning, doctorFleetty, Active, Startable, RunFromDisk, Nothing
  <2> QED
    BY <2>1, <2>5 DEF FailedInstallRestores
<1>4. CASE (RolledBack \/ RestoreService) /\ clean'
  <2>1. /\ outcome' = "failed" /\ clean /\ at = 0 /\ step \in Undoing /\ UNCHANGED <<file, before>>
    BY <1>4 DEF RolledBack, RestoreService, Ends, Undoing
  <2>2. file = before.file
    <3>1. \A f \in Files : file[f] = before.file[f]
      BY <2>1, Places DEF FileInv, Old, Undoing
    <3>2. file \in FileSets /\ before.file \in FileSets
      BY DEF InstallTypes
    <3> QED
      BY <3>1, <3>2 DEF FileSets
  <2>3. CASE RolledBack
    <3>1. service' = before.service
      BY <2>1, <2>3 DEF RolledBack, ServiceInv
    <3> QED
      BY <2>1, <2>2, <3>1 DEF FailedInstallRestores, InstalledIsRunning, Active
  <2>4. CASE RestoreService
    <3>1. /\ was = [active |-> before.service.running # Stopped, enabled |-> before.service.enabled]
          /\ service' = [enabled |-> was.enabled, loaded |-> file["unit"],
                         running |-> IF was.active THEN [Startable EXCEPT !.unit = file["unit"]] ELSE Stopped]
      BY <1>4, <2>1, <2>4 DEF RestoreService, ServiceInv
    <3>2. /\ service'.enabled = before.service.enabled /\ service'.loaded = file["unit"]
          /\ service'.running = IF before.service.running # Stopped THEN [Startable EXCEPT !.unit = file["unit"]] ELSE Stopped
      BY <3>1
    <3>3. [Startable EXCEPT !.unit = file["unit"]] # Stopped
      BY Starts, Writes
    <3>4. [Startable EXCEPT !.unit = file["unit"]]' = [Startable EXCEPT !.unit = file["unit"]]
      BY <2>1 DEF Startable
    <3> QED
      BY <2>1, <2>2, <3>2, <3>3, <3>4 DEF FailedInstallRestores, InstalledIsRunning, Active
  <2> QED
    BY <1>4, <2>3, <2>4
<1>5. CASE StartInstall
  BY <1>1, <1>5 DEF StartInstall
<1>6. CASE SkipFile \/ MoveAside \/ Publish \/ ReplaceFails \/ PublishFails
  <2>1. step # "idle" /\ outcome' = outcome
    BY <1>6 DEF SkipFile, MoveAside, Publish, ReplaceFails, PublishFails, ghosts
  <2> QED
    BY <1>1, <2>1 DEF PlaceInv
<1>7. CASE Reload \/ Enable \/ Start \/ Verify \/ Undo \/ UndoFails
  <2>1. step # "idle" /\ outcome' = outcome
    BY <1>7 DEF Reload, Enable, Start, Verify, Undo, UndoFails, ghosts
  <2> QED
    BY <1>1, <2>1 DEF PlaceInv
<1>8. CASE Killed
  BY <1>1, <1>8 DEF Killed, Ends
<1> QED
  BY <1>2, <1>3, <1>4, <1>5, <1>6, <1>7, <1>8 DEF Next

\* The steps of the installer.
LEMMA InstallerKeeps == ASSUME Inv, InstallerStep PROVE Inv'
<1>1. InstallTypes' /\ PlaceInv' /\ FileInv' /\ SkipInv' /\ ServiceInv' /\ OutcomeInv'
  BY TypesStep, PlaceStep, FileStep, SkipStep, ServiceStep, OutcomeStep DEF Inv, InstallerStep
<1>2. UpdateTypes'
  BY DEF Inv, InstallerStep, UpdateTypes, updating
<1>3. LockInv'
  <2>1. UNCHANGED <<pc, seen, wanted, saved, lock>> /\ touched \subseteq touched'
    BY DEF InstallerStep, updating
  <2>2. file'["binary"] # file["binary"] => \A u \in Updates : pc[u] \in {"compared", "linked"} => u \in touched'
    BY DEF InstallerStep
  <2> QED
    BY <2>1, <2>2 DEF Inv, LockInv
<1> QED
  BY <1>1, <1>2, <1>3 DEF Inv

\* The updates' steps keep their types, and the installer's: only a rename writes a file.
LEMMA UpdateStepTypes ==
    ASSUME Inv, NEW u \in Updates, UpdateStep(u)
    PROVE  /\ UpdateTypes' /\ InstallTypes'
           /\ file' = file \/ (pc[u] = "linked" /\ pc'[u] = "updated" /\ clean' = FALSE)
<1> USE Writes DEF Inv, UpdateTypes, Updating, U!Goto
<1>0. UNCHANGED <<service, step, at, staged, backup, replaced, was, before, outcome>> /\ clean' = (clean /\ file' = file)
  BY DEF UpdateStep, installing
<1>1. file["binary"] \in Held \cup {Absent}
  BY Places DEF InstallTypes, FileSets
<1>2. UpdateTypes' /\ file' \in FileSets /\ (file' = file \/ (pc[u] = "linked" /\ pc'[u] = "updated"))
  <2> USE DEF InstallTypes
  <2>a. ASSUME NEW l \in {"ended", "updated"}, U!Leave(u, l)
        PROVE  UpdateTypes' /\ pc'[u] = l
    BY <2>a DEF U!Leave
  <2>1. CASE U!HashInstalled(u)
    BY <1>1, <2>1 DEF U!HashInstalled
  <2>2. CASE U!ReadChecksums(u)
    <3>1. CASE U!Ends(u)
      BY <2>2, <2>a, <3>1 DEF U!ReadChecksums, U!Ends
    <3>2. CASE ~U!Ends(u)
      BY <2>2, <3>2 DEF U!ReadChecksums
    <3> QED
      BY <3>1, <3>2
  <2>3. CASE U!TakeLock(u)
    <3>1. CASE lock = Absent
      BY <2>3, <3>1 DEF U!TakeLock
    <3>2. CASE lock # Absent
      BY <2>3, <2>a, <3>2 DEF U!TakeLock, U!Ends
    <3> QED
      BY <3>1, <3>2
  <2>4. CASE U!Download(u)
    <3>1. CASE U!Ends(u)
      BY <2>4, <2>a, <3>1 DEF U!Download, U!Ends
    <3>2. CASE ~U!Ends(u)
      BY <2>4, <3>2 DEF U!Download
    <3> QED
      BY <3>1, <3>2
  <2>5. CASE U!CompareAgain(u)
    <3>1. CASE file["binary"] = seen[u]
      BY <2>5, <3>1 DEF U!CompareAgain
    <3>2. CASE file["binary"] # seen[u]
      BY <2>5, <2>a, <3>2 DEF U!CompareAgain, U!Ends
    <3> QED
      BY <3>1, <3>2
  <2>6. CASE U!LinkBackup(u)
    <3>1. CASE file["binary"] # Absent
      BY <1>1, <2>6, <3>1 DEF U!LinkBackup
    <3>2. CASE file["binary"] = Absent
      BY <2>6, <2>a, <3>2 DEF U!LinkBackup, U!Ends
    <3> QED
      BY <3>1, <3>2
  <2>7. CASE U!RenameCandidate(u)
    <3>1. CASE U!Ends(u) /\ file' = file
      BY <2>a, <3>1 DEF U!Ends
    <3>2. CASE file' = [file EXCEPT !["binary"] = <<wanted[u], u>>] /\ U!Leave(u, "updated")
      <4>1. wanted[u] \in Contents
        BY <2>7 DEF U!RenameCandidate
      <4>2. file' \in FileSets
        BY <3>2, <4>1 DEF FileSets
      <4> QED
        BY <2>7, <2>a, <3>2, <4>2 DEF U!RenameCandidate
    <3> QED
      BY <2>7, <3>1, <3>2 DEF U!RenameCandidate
  <2>8. CASE U!KillUpdate(u)
    BY <2>8, <2>a DEF U!KillUpdate, U!Ends
  <2> QED
    BY <2>1, <2>2, <2>3, <2>4, <2>5, <2>6, <2>7, <2>8 DEF UpdateStep, U!Update
<1>3. InstallTypes'
  BY <1>0, <1>2 DEF InstallTypes
<1> QED
  BY <1>0, <1>2, <1>3

\* The updates and the lock.
LEMMA LockStep == ASSUME Inv, NEW u \in Updates, UpdateStep(u) PROVE LockInv'
<1> USE DEF UpdateTypes, Updating, LockInv, U!Goto
<1>0. UpdateTypes /\ LockInv /\ \A v \in Updates : v # Absent
  BY DeploymentAssumption DEF Inv
<1>1. touched' = IF pc'[u] = "compared" THEN touched \ {u} ELSE touched
  BY DEF UpdateStep
<1>2. ASSUME NEW l \in {"ended", "updated"}, U!Leave(u, l), file'["binary"] = file["binary"] \/ pc[u] = "linked"
      PROVE  LockInv'
  <2>1. /\ pc'[u] = l /\ touched' = touched
        /\ \A v \in Updates \ {u} : pc'[v] = pc[v] /\ seen'[v] = seen[v] /\ saved'[v] = saved[v]
    BY <1>0, <1>1, <1>2 DEF U!Leave
  <2>2. \A v \in Updates \ {u} : pc[v] \in Updating => lock' = v /\ file'["binary"] = file["binary"]
    BY <1>0, <1>2 DEF U!Leave
  <2> QED
    BY <1>0, <2>1, <2>2
<1>3. ASSUME UNCHANGED <<file, seen, saved, lock>>, NEW l, pc' = [pc EXCEPT ![u] = l],
             l \in {"outdated", "ended"} \/ (pc[u] = "locked" /\ l = "downloaded")
      PROVE  LockInv'
  BY <1>0, <1>1, <1>3
<1>4. CASE U!HashInstalled(u)
  BY <1>0, <1>1, <1>4 DEF U!HashInstalled
<1>5. CASE U!ReadChecksums(u)
  <2>1. CASE U!Ends(u)
    BY <1>2, <1>5, <2>1 DEF U!ReadChecksums, U!Ends
  <2>2. CASE ~U!Ends(u)
    BY <1>3, <1>5, <2>2 DEF U!ReadChecksums
  <2> QED
    BY <2>1, <2>2
<1>6. CASE U!TakeLock(u)
  <2>1. CASE lock = Absent
    BY <1>0, <1>1, <1>6, <2>1 DEF U!TakeLock
  <2>2. CASE lock # Absent
    BY <1>2, <1>6, <2>2 DEF U!TakeLock, U!Ends
  <2> QED
    BY <2>1, <2>2
<1>7. CASE U!Download(u)
  <2>1. CASE U!Ends(u)
    BY <1>2, <1>7, <2>1 DEF U!Download, U!Ends
  <2>2. CASE ~U!Ends(u)
    BY <1>3, <1>7, <2>2 DEF U!Download
  <2> QED
    BY <2>1, <2>2
<1>8. CASE U!CompareAgain(u)
  <2>1. CASE file["binary"] = seen[u]
    BY <1>0, <1>1, <1>8, <2>1 DEF U!CompareAgain
  <2>2. CASE file["binary"] # seen[u]
    BY <1>2, <1>8, <2>2 DEF U!CompareAgain, U!Ends
  <2> QED
    BY <2>1, <2>2
<1>9. CASE U!LinkBackup(u)
  <2>1. CASE file["binary"] # Absent
    BY <1>0, <1>1, <1>9, <2>1 DEF U!LinkBackup
  <2>2. CASE file["binary"] = Absent
    BY <1>2, <1>9, <2>2 DEF U!LinkBackup, U!Ends
  <2> QED
    BY <2>1, <2>2
<1>10. CASE U!RenameCandidate(u)
  BY <1>2, <1>10 DEF U!RenameCandidate, U!Ends
<1>11. CASE U!KillUpdate(u)
  BY <1>2, <1>11 DEF U!KillUpdate, U!Ends
<1> QED
  BY <1>4, <1>5, <1>6, <1>7, <1>8, <1>9, <1>10, <1>11 DEF UpdateStep, U!Update

\* The steps of the updates.
LEMMA UpdateKeeps == ASSUME Inv, NEW u \in Updates, UpdateStep(u) PROVE Inv'
<1>1. UpdateTypes' /\ InstallTypes' /\ LockInv'
  BY UpdateStepTypes, LockStep
<1>2. UNCHANGED <<service, step, at, staged, backup, replaced, was, before, outcome>> /\ clean' = (clean /\ file' = file)
  BY DEF UpdateStep, installing
<1>3. PlaceInv'
  BY <1>2 DEF Inv, PlaceInv, Current
<1>4. CASE file' = file
  <2>1. clean' = clean
    BY <1>2, <1>4 DEF Inv, InstallTypes
  <2> QED
    BY <1>1, <1>2, <1>3, <1>4, <2>1 DEF Inv, FileInv, New, Aside, Old, Current, SkipInv, InPlace, ServiceInv, Active,
       Startable, RunFromDisk, OutcomeInv, FailedInstallRestores, InstalledIsRunning, doctorFleetty
<1>5. CASE file' # file
  <2>1. ~clean'
    BY <1>2, <1>5
  <2> QED
    BY <1>1, <1>3, <2>1 DEF Inv, FileInv, SkipInv, ServiceInv, OutcomeInv, FailedInstallRestores, InstalledIsRunning
<1> QED
  BY <1>4, <1>5
-----------------------------------------------------------------------------
\* The invariant holds of every reachable state.
THEOREM DeploymentInvariant == DeploymentSpec => []Inv
<1>1. ASSUME Inv, UNCHANGED allvars PROVE Inv'
  <2> USE <1>1 DEF Inv, allvars, vars, installing, ghosts, updating
  <2>1. InstallTypes' /\ UpdateTypes' /\ PlaceInv' /\ LockInv'
    BY DEF InstallTypes, UpdateTypes, PlaceInv, LockInv, Current
  <2>2. FileInv' /\ SkipInv' /\ ServiceInv' /\ OutcomeInv'
    BY DEF FileInv, New, Aside, Old, Current, SkipInv, InPlace, ServiceInv, Active, Startable, RunFromDisk, OutcomeInv,
       FailedInstallRestores, InstalledIsRunning, doctorFleetty
  <2> QED
    BY <2>1, <2>2
<1>2. Inv /\ [DeploymentNext]_allvars => Inv'
  BY <1>1, InstallerKeeps, UpdateKeeps DEF DeploymentNext
<1> QED
  BY <1>2, InitInv, PTL DEF DeploymentSpec

\* An installation that reports failure has put back every file and the service, whichever step failed and
\* whatever was installed before - unless undoing failed too or an update wrote the binary meanwhile
\* (installFleetty's restore and fileTransaction.Rollback).
THEOREM FailureRestores == DeploymentSpec => []FailedInstallRestores
<1>1. Inv => FailedInstallRestores
  BY DEF Inv, OutcomeInv
<1> QED
  BY <1>1, DeploymentInvariant, PTL

\* An installation that reports success runs what it installed: every staged file is in place, no backup is left,
\* the service is enabled and was started from these files.
THEOREM SuccessRuns == DeploymentSpec => []InstalledIsRunning
<1>1. Inv => InstalledIsRunning
  BY DEF Inv, OutcomeInv
<1> QED
  BY <1>1, DeploymentInvariant, PTL

\* An update replaces the binary it compared and keeps that one as its backup, for any number of updates at once,
\* killed at any step: the lock and the second comparison suffice as long as the installer stays away.
THEOREM UpdateCareful == DeploymentSpec => UpdateReplacesCompared
<1>1. Inv => \A u \in Updates : (pc[u] = "linked" /\ pc'[u] = "updated" /\ u \notin touched)
                => file["binary"] = seen[u] /\ saved[u] = seen[u]
  BY DEF Inv, LockInv
<1> QED
  BY <1>1, DeploymentInvariant, PTL DEF DeploymentSpec, UpdateReplacesCompared

-----------------------------------------------------------------------------
(* The fleet: an update that succeeds has left no leaf behind. *)

PlanStates == {"none", "busy", "noop", "change", "relay", "deferred", "error"}
Good == {"noop", "applied", "relayed", "deferred"}

FleetTypes ==
    /\ command \in {"update", "apply"} /\ yes \in [Fleet!Controllers -> BOOLEAN]
    /\ phase \in [Fleet!Controllers -> {"idle", "plan", "apply", "done"}]
    /\ exit \in [Fleet!Controllers -> {"none", "ok", "failed"}]
    /\ plan \in [Targets -> PlanStates] /\ result \in [Targets -> Good \cup {"none", "busy", "error"}]

\* Leaves are changed, relays are busy; what is done to a leaf leaves it current.
LeafInv(t) ==
    IF t \in Relays
    THEN plan[t] \notin {"noop", "change"} /\ result[t] \notin {"noop", "applied"}
    ELSE /\ plan[t] \notin {"busy", "relay"} /\ result[t] \notin {"busy", "relayed"}
         /\ plan[t] = "noop" \/ result[t] \in {"noop", "applied"} => t \in current

\* A relay works only while its parent waits for it; one that applies was told to.
BusyInv(r) ==
    phase[r] # "idle" =>
        /\ command = "update"
        /\ \/ phase[Parent[r]] = "plan" /\ plan[r] = "busy"
           \/ phase[Parent[r]] = "apply" /\ result[r] = "busy" /\ yes[r]

\* As long as a controller plans, nothing is done to its targets.
UnstartedInv(c) == phase[c] = "plan" => \A t \in Fleet!Children(c) : result[t] = "none"

\* A controller that succeeded left no target behind, also after its parent took note.
AllGood(c) == \A t \in Fleet!Children(c) : result[t] \in Good
Succeeded(c) == phase[c] = "done" /\ exit[c] = "ok" /\ yes[c]
SuccessInv(c) == Succeeded(c) => AllGood(c)
RelayedInv(r) == result[r] = "relayed" => command = "update" /\ AllGood(r)

FleetInv ==
    /\ FleetTypes
    /\ \A t \in Targets : LeafInv(t)
    /\ \A r \in Relays : BusyInv(r) /\ RelayedInv(r)
    /\ \A c \in Fleet!Controllers : UnstartedInv(c) /\ SuccessInv(c)

LEMMA FleetInit == Tree /\ Fleet!Init => FleetInv
  BY DEF Tree, Fleet!Init, FleetInv, FleetTypes, LeafInv, BusyInv, RelayedInv, UnstartedInv, SuccessInv, Succeeded,
     Fleet!Controllers, PlanStates, Good

\* A command of the Hub begins when no relay works any more, with nothing done.
LEMMA StartKeeps == ASSUME Tree, FleetInv, Fleet!StartUpdate \/ Fleet!StartApply PROVE FleetInv'
<1> USE DEF Tree, FleetInv, FleetTypes, Fleet!Controllers
<1>1. /\ result' = [t \in Targets |-> "none"] /\ command' \in {"update", "apply"}
      /\ plan' \in [Targets -> {"none", "deferred"}]
      /\ \A r \in Relays : phase'[r] = "idle"
      /\ phase'[Hub] = "plan" \/ (phase'[Hub] = "done" /\ exit'[Hub] = "failed")
  BY DEF Fleet!StartUpdate, Fleet!StartApply
<1>2. FleetTypes'
  BY <1>1 DEF Fleet!StartUpdate, Fleet!StartApply, Fleet!Fault, PlanStates
<1>3. \A t \in Targets : LeafInv(t)'
  BY <1>1, <1>2 DEF LeafInv
<1>4. \A r \in Relays : BusyInv(r)' /\ RelayedInv(r)'
  BY <1>1 DEF BusyInv, RelayedInv
<1>5. \A c \in Fleet!Controllers : UnstartedInv(c)' /\ SuccessInv(c)'
  BY <1>1 DEF UnstartedInv, SuccessInv, Succeeded, Fleet!Children
<1>. QED
  BY <1>2, <1>3, <1>4, <1>5

\* A target that is planned and not yet started is nobody's business.
LEMMA PlanningKeeps ==
    ASSUME Tree, FleetInv, NEW c \in Fleet!Controllers, NEW t \in Targets, Fleet!planTarget(c, t) PROVE FleetInv'
<1> USE DEF Tree, FleetInv, FleetTypes, Fleet!Controllers
<1>1. /\ t \notin Relays /\ UNCHANGED <<command, yes, phase, exit, result, current>>
      /\ \E s \in {"deferred", "error", "noop", "change"} :
            plan' = [plan EXCEPT ![t] = s] /\ (s = "noop" => t \in current)
  BY DEF Fleet!planTarget, Fleet!Unreachable, Fleet!Leaves
<1>2. FleetTypes'
  BY <1>1 DEF PlanStates
<1>3. \A u \in Targets : LeafInv(u)'
  BY <1>1 DEF LeafInv
<1>4. \A r \in Relays : BusyInv(r)' /\ RelayedInv(r)'
  BY <1>1 DEF BusyInv, RelayedInv, AllGood, Fleet!Children
<1>5. \A d \in Fleet!Controllers : UnstartedInv(d)' /\ SuccessInv(d)'
  BY <1>1 DEF UnstartedInv, SuccessInv, Succeeded, AllGood, Fleet!Children
<1>. QED
  BY <1>2, <1>3, <1>4, <1>5

\* A relay begins: what was planned and done below it before is forgotten.
LEMMA LaunchKeeps ==
    ASSUME Tree, FleetInv, NEW c \in Fleet!Controllers, NEW t \in Targets,
           Fleet!planRelayTarget(c, t) \/ Fleet!applyRelay(c, t), phase' # phase
    PROVE  FleetInv'
<1> USE DEF Tree, FleetInv, FleetTypes, Fleet!Controllers
<1> DEFINE planning == phase[c] = "plan"
<1>1. /\ t \in Relays /\ Parent[t] = c /\ command = "update" /\ phase[c] \in {"plan", "apply"} /\ result[t] = "none"
      /\ (planning => plan[t] = "none")
      /\ phase' = [phase EXCEPT ![t] = "plan"] /\ exit' = [exit EXCEPT ![t] = "none"]
      /\ yes' = [yes EXCEPT ![t] = ~planning] /\ UNCHANGED <<command, current>>
      /\ \E s \in PlanStates : s \notin {"noop", "change"} /\ (planning => s = "busy")
            /\ plan' = [Fleet!Clear(plan, t) EXCEPT ![t] = s]
      /\ result' = [Fleet!Clear(result, t) EXCEPT ![t] = IF planning THEN "none" ELSE "busy"]
  <2>1. CASE Fleet!planRelayTarget(c, t)
    <3>1. /\ t \in Fleet!Children(c) \cap Relays /\ planning /\ plan[t] = "none" /\ Fleet!Launch(t, FALSE) /\ UNCHANGED <<command, current>>
          /\ plan' = [Fleet!Clear(plan, t) EXCEPT ![t] = "busy"] /\ result' = Fleet!Clear(result, t)
      BY <2>1 DEF Fleet!planRelayTarget
    <3>2. Fleet!Clear(result, t) = [Fleet!Clear(result, t) EXCEPT ![t] = "none"] /\ result[t] = "none"
      BY <3>1 DEF Fleet!Clear, UnstartedInv
    <3>3. t \in Relays /\ Parent[t] = c /\ command = "update"
      BY <3>1 DEF Fleet!Children, Fleet!Leaves
    <3>. QED
      BY <3>1, <3>2, <3>3 DEF Fleet!Launch, PlanStates
  <2>2. CASE Fleet!applyRelay(c, t)
    <3>1. /\ t \in Fleet!Children(c) /\ phase[c] = "apply" /\ plan[t] = "relay" /\ result[t] = "none"
          /\ Fleet!Launch(t, TRUE) /\ UNCHANGED <<command, current>>
          /\ plan' = Fleet!Clear(plan, t) /\ result' = [Fleet!Clear(result, t) EXCEPT ![t] = "busy"]
      BY <2>2 DEF Fleet!applyRelay
    <3>2. t \in Relays
      BY <3>1 DEF LeafInv
    <3>3. Parent[t] = c /\ command = "update"
      BY <3>1, <3>2 DEF Fleet!Children, Fleet!Leaves
    <3>4. \E s \in PlanStates : s \notin {"noop", "change"} /\ plan' = [Fleet!Clear(plan, t) EXCEPT ![t] = s]
      <4>1. Fleet!Clear(plan, t) = [Fleet!Clear(plan, t) EXCEPT ![t] = Fleet!Clear(plan, t)[t]]
        BY DEF Fleet!Clear
      <4>2. Fleet!Clear(plan, t)[t] \in {"none", "relay"}
        BY <3>1 DEF Fleet!Clear
      <4>. QED
        BY <3>1, <4>1, <4>2 DEF PlanStates
    <3>. QED
      BY <3>1, <3>2, <3>3, <3>4 DEF Fleet!Launch
  <2>. QED
    BY <2>1, <2>2
<1>2. /\ plan' \in [Targets -> PlanStates] /\ plan'[t] \notin {"noop", "change"} /\ (planning => plan'[t] = "busy")
      /\ \A u \in Targets : u # t => plan'[u] \in {plan[u], "none"} /\ (Parent[u] # t => plan'[u] = plan[u])
  BY <1>1 DEF Fleet!Clear, Fleet!Children, PlanStates
<1>3. /\ result' \in [Targets -> Good \cup {"none", "busy", "error"}]
      /\ result'[t] = IF planning THEN "none" ELSE "busy"
      /\ \A u \in Targets : u # t => /\ result'[u] \in {result[u], "none"} /\ (Parent[u] # t => result'[u] = result[u])
                                     /\ (Parent[u] = t => result'[u] = "none")
  BY <1>1 DEF Fleet!Clear, Fleet!Children
<1>4. phase'[t] = "plan" /\ \A d \in Fleet!Controllers : d # t => phase'[d] = phase[d] /\ yes'[d] = yes[d] /\ exit'[d] = exit[d]
  BY <1>1
<1>5. FleetTypes'
  BY <1>1, <1>2, <1>3
<1>6. \A u \in Targets : LeafInv(u)'
  BY <1>1, <1>2, <1>3 DEF LeafInv
<1>7. c # t
  BY <1>1 DEF BusyInv, UnstartedInv, Fleet!Children
<1>8. ASSUME NEW r \in Relays PROVE BusyInv(r)'
  <2>1. CASE r = t
    BY <1>1, <1>2, <1>3, <1>4, <1>7, <2>1 DEF BusyInv
  <2>2. CASE r # t
    <3>1. phase[t] = "idle"
      BY <1>1 DEF BusyInv
    <3>2. phase[r] # "idle" => Parent[r] # t
      BY <3>1 DEF BusyInv
    <3>. QED
      BY <1>1, <1>2, <1>3, <1>4, <3>2, <2>2 DEF BusyInv
  <2>. QED
    BY <2>1, <2>2
<1>9. ASSUME NEW d \in Fleet!Controllers, d # t, d # c PROVE AllGood(d) => AllGood(d)'
  BY <1>1, <1>3, <1>9 DEF AllGood, Fleet!Children, Good
<1>10. ASSUME NEW r \in Relays PROVE RelayedInv(r)'
  <2>1. result[c] # "relayed" \/ c \notin Relays
    BY <1>1 DEF BusyInv, RelayedInv, AllGood, Fleet!Children, Good
  <2>. QED
    BY <1>1, <1>3, <1>9, <2>1 DEF RelayedInv
<1>11. ASSUME NEW d \in Fleet!Controllers PROVE UnstartedInv(d)' /\ SuccessInv(d)'
  <2>1. CASE d = t
    BY <1>1, <1>3, <1>4, <1>7, <2>1 DEF UnstartedInv, SuccessInv, Succeeded, Fleet!Children
  <2>2. CASE d = c
    BY <1>1, <1>3, <1>4, <1>7, <2>2 DEF UnstartedInv, SuccessInv, Succeeded, Fleet!Children
  <2>3. CASE d # t /\ d # c
    <3>1. UnstartedInv(d)'
      BY <1>1, <1>3, <1>4, <2>3 DEF UnstartedInv, Fleet!Children
    <3>. QED
      BY <1>4, <1>9, <2>3, <3>1 DEF SuccessInv, Succeeded
  <2>. QED
    BY <2>1, <2>2, <2>3
<1>. QED
  BY <1>5, <1>6, <1>8, <1>10, <1>11


\* Or it does not begin.
LEMMA NoLaunchKeeps ==
    ASSUME Tree, FleetInv, NEW c \in Fleet!Controllers, NEW t \in Targets,
           Fleet!planRelayTarget(c, t) \/ Fleet!applyRelay(c, t), phase' = phase
    PROVE  FleetInv'
<1> USE DEF Tree, FleetInv, FleetTypes, Fleet!Controllers
<1>1. /\ Parent[t] = c /\ t \in Fleet!Children(c) /\ t \in Relays /\ phase[c] \in {"plan", "apply"}
      /\ phase[c] = "plan" => plan[t] = "none" /\ UNCHANGED result
      /\ phase[c] = "apply" => result[t] = "none"
      /\ UNCHANGED <<command, current, phase, exit, yes>>
      /\ \E s \in {"deferred", "error", plan[t]} : plan' = [plan EXCEPT ![t] = s]
      /\ \E s \in {"error", result[t]} : result' = [result EXCEPT ![t] = s]
  <2>1. CASE Fleet!planRelayTarget(c, t)
    <3>1. t \in Relays /\ phase[t] = "idle"
      BY <2>1 DEF Fleet!planRelayTarget, Fleet!Children, BusyInv
    <3>2. ~Fleet!Launch(t, FALSE)
      BY <3>1 DEF Fleet!Launch
    <3>3. \E s \in {"deferred", "error"} : plan' = [plan EXCEPT ![t] = s]
      BY <2>1, <3>2 DEF Fleet!planRelayTarget
    <3>4. UNCHANGED <<command, current, exit, yes, result>> /\ plan[t] = "none" /\ phase[c] = "plan"
          /\ t \in Fleet!Children(c) /\ Parent[t] = c
      BY <2>1, <3>2 DEF Fleet!planRelayTarget, Fleet!Children
    <3>5. result' = [result EXCEPT ![t] = result[t]]
      BY <3>4
    <3>. QED
      BY <3>1, <3>3, <3>4, <3>5
  <2>2. CASE Fleet!applyRelay(c, t)
    <3>1. t \in Relays
      BY <2>2 DEF Fleet!applyRelay, LeafInv
    <3>2. phase[t] = "idle"
      BY <2>2, <3>1 DEF Fleet!applyRelay, Fleet!Children, BusyInv
    <3>3. ~Fleet!Launch(t, TRUE)
      BY <3>1, <3>2 DEF Fleet!Launch
    <3>4. result' = [result EXCEPT ![t] = "error"]
          /\ UNCHANGED <<command, current, exit, yes, plan>> /\ phase[c] = "apply" /\ result[t] = "none"
          /\ t \in Fleet!Children(c) /\ Parent[t] = c
      BY <2>2, <3>3 DEF Fleet!applyRelay, Fleet!Children
    <3>5. plan' = [plan EXCEPT ![t] = plan[t]]
      BY <3>4
    <3>. QED
      BY <3>1, <3>4, <3>5
  <2>. QED
    BY <2>1, <2>2
<1>2. FleetTypes'
  BY <1>1 DEF PlanStates
<1>3. \A u \in Targets : LeafInv(u)'
  BY <1>1 DEF LeafInv
<1>4. \A r \in Relays : BusyInv(r)'
  BY <1>1 DEF BusyInv
<1>5. ASSUME NEW r \in Relays PROVE RelayedInv(r)'
  <2>1. CASE UNCHANGED result
    BY <1>1, <2>1 DEF RelayedInv, AllGood, Fleet!Children
  <2>2. CASE phase[c] = "apply"
    <3>1. result[c] # "relayed" \/ c \notin Relays
      BY <1>1, <2>2 DEF BusyInv, UnstartedInv, Fleet!Children
    <3>. QED
      BY <1>1, <2>2, <3>1 DEF RelayedInv, AllGood, Fleet!Children
  <2>. QED
    BY <1>1, <2>1, <2>2
<1>6. ASSUME NEW d \in Fleet!Controllers PROVE UnstartedInv(d)' /\ SuccessInv(d)'
  <2>1. CASE UNCHANGED result
    BY <1>1, <2>1 DEF UnstartedInv, SuccessInv, Succeeded, AllGood, Fleet!Children
  <2>2. CASE phase[c] = "apply"
    BY <1>1, <2>2 DEF UnstartedInv, SuccessInv, Succeeded, AllGood, Fleet!Children
  <2>. QED
    BY <1>1, <2>1, <2>2
<1>. QED
  BY <1>2, <1>3, <1>4, <1>5, <1>6

\* The parent takes note of a relay that has planned.
LEMMA PlannedKeeps ==
    ASSUME Tree, FleetInv, NEW c \in Fleet!Controllers, NEW t \in Targets, Fleet!RelayPlanned(c, t) PROVE FleetInv'
<1> USE DEF Tree, FleetInv, FleetTypes, Fleet!Controllers
<1>1. /\ Parent[t] = c /\ phase[c] = "plan" /\ phase[t] = "done" /\ t \in Relays
      /\ UNCHANGED <<command, yes, exit, result, current>> /\ phase' = [phase EXCEPT ![t] = "idle"]
      /\ \E s \in {"relay", "error"} : plan' = [plan EXCEPT ![t] = s]
  BY DEF Fleet!RelayPlanned, Fleet!Children, LeafInv
<1>2. FleetTypes'
  BY <1>1 DEF PlanStates
<1>3. \A u \in Targets : LeafInv(u)'
  BY <1>1 DEF LeafInv
<1>4. \A r \in Relays : BusyInv(r)' /\ RelayedInv(r)'
  BY <1>1 DEF BusyInv, RelayedInv, AllGood, Fleet!Children
<1>5. \A d \in Fleet!Controllers : UnstartedInv(d)' /\ SuccessInv(d)'
  BY <1>1 DEF UnstartedInv, SuccessInv, Succeeded, AllGood, Fleet!Children
<1>. QED
  BY <1>2, <1>3, <1>4, <1>5

\* Or of one that has applied: it has seen to its targets if it says so.
LEMMA AppliedKeeps ==
    ASSUME Tree, FleetInv, NEW c \in Fleet!Controllers, NEW t \in Targets, Fleet!RelayApplied(c, t) PROVE FleetInv'
<1> USE DEF Tree, FleetInv, FleetTypes, Fleet!Controllers
<1>1. /\ Parent[t] = c /\ phase[c] = "apply" /\ phase[t] = "done" /\ t \in Relays /\ result[t] = "busy"
      /\ UNCHANGED <<command, yes, exit, plan, current>> /\ phase' = [phase EXCEPT ![t] = "idle"]
      /\ \E s \in {"relayed", "error"} : result' = [result EXCEPT ![t] = s] /\ (s = "relayed" => exit[t] = "ok")
  BY DEF Fleet!RelayApplied, Fleet!Children, LeafInv
<1>2. command = "update" /\ yes[t]
  BY <1>1 DEF BusyInv
<1>3. FleetTypes'
  BY <1>1 DEF Good
<1>4. \A u \in Targets : LeafInv(u)'
  BY <1>1 DEF LeafInv
<1>5. \A r \in Relays : BusyInv(r)'
  BY <1>1 DEF BusyInv
<1>6. \A d \in Fleet!Controllers : AllGood(d) => AllGood(d)'
  BY <1>1 DEF AllGood, Fleet!Children, Good
<1>7. \A r \in Relays : RelayedInv(r)'
  BY <1>1, <1>2, <1>6 DEF RelayedInv, SuccessInv, Succeeded
<1>8. \A d \in Fleet!Controllers : UnstartedInv(d)' /\ SuccessInv(d)'
  <2>1. \A d \in Fleet!Controllers : UnstartedInv(d)'
    BY <1>1 DEF UnstartedInv, Fleet!Children
  <2>2. \A d \in Fleet!Controllers : SuccessInv(d)'
    BY <1>1, <1>6 DEF SuccessInv, Succeeded
  <2>. QED
    BY <2>1, <2>2
<1>. QED
  BY <1>3, <1>4, <1>5, <1>7, <1>8

\* A target gets its result from a controller that applies.
LEMMA TargetKeeps ==
    ASSUME Tree, FleetInv, NEW c \in Fleet!Controllers, NEW t \in Targets, Fleet!KeepPlan(c, t) \/ Fleet!applyTarget(c, t)
    PROVE  FleetInv'
<1> USE DEF Tree, FleetInv, FleetTypes, Fleet!Controllers
<1>1. /\ Parent[t] = c /\ phase[c] = "apply" /\ result[t] = "none"
      /\ UNCHANGED <<command, yes, phase, exit, plan>> /\ current \subseteq current'
      /\ \E s \in {"noop", "deferred", "error", "applied"} :
            /\ result' = [result EXCEPT ![t] = s]
            /\ s \in {"noop", "applied"} => t \notin Relays /\ t \in current'
  <2>1. CASE Fleet!KeepPlan(c, t)
    BY <2>1 DEF Fleet!KeepPlan, Fleet!Children, LeafInv
  <2>2. CASE Fleet!applyTarget(c, t)
    BY <2>2 DEF Fleet!applyTarget, Fleet!Children, LeafInv
  <2>. QED
    BY <2>1, <2>2
<1>2. FleetTypes'
  BY <1>1 DEF Good
<1>3. \A u \in Targets : LeafInv(u)'
  BY <1>1 DEF LeafInv
<1>4. \A r \in Relays : BusyInv(r)'
  BY <1>1 DEF BusyInv
<1>5. \A r \in Relays : RelayedInv(r)'
  <2>1. \A d \in Fleet!Controllers : d # c => (AllGood(d) => AllGood(d)')
    BY <1>1 DEF AllGood, Fleet!Children
  <2>2. ~AllGood(c)
    <3>1. t \in Fleet!Children(c)
      BY DEF Fleet!KeepPlan, Fleet!applyTarget
    <3>. QED
      BY <1>1, <3>1 DEF AllGood, Good
  <2>. QED
    BY <1>1, <2>1, <2>2 DEF RelayedInv
<1>6. \A d \in Fleet!Controllers : UnstartedInv(d)' /\ SuccessInv(d)'
  BY <1>1 DEF UnstartedInv, SuccessInv, Succeeded, AllGood, Fleet!Children
<1>. QED
  BY <1>2, <1>3, <1>4, <1>5, <1>6

\* A controller goes on to apply, or ends: with success only if it left nothing behind.
LEMMA FinishKeeps ==
    ASSUME Tree, FleetInv, NEW c \in Fleet!Controllers, Fleet!FinishPlan(c) \/ Fleet!FinishApply(c) PROVE FleetInv'
<1> USE DEF Tree, FleetInv, FleetTypes, Fleet!Controllers
<1>1. /\ phase[c] \in {"plan", "apply"} /\ UNCHANGED <<command, yes, plan, result, current>>
      /\ \E s \in {"apply", "done"} : phase' = [phase EXCEPT ![c] = s] /\ (s = "apply" => phase[c] = "plan")
      /\ \E e \in {"ok", "failed", exit[c]} : exit' = [exit EXCEPT ![c] = e]
  BY DEF Fleet!FinishPlan, Fleet!FinishApply
<1>2. FleetTypes'
  BY <1>1
<1>3. \A u \in Targets : LeafInv(u)'
  BY <1>1 DEF LeafInv
<1>4. ASSUME NEW r \in Relays PROVE BusyInv(r)'
  <2>1. CASE Parent[r] # c
    BY <1>1, <2>1 DEF BusyInv
  <2>2. CASE Parent[r] = c /\ phase[r] # "idle"
    <3>1. r \in Fleet!Children(c)
      BY <2>2 DEF BusyInv, Fleet!Children
    <3>2. (phase[c] = "plan" /\ plan[r] = "busy") \/ (phase[c] = "apply" /\ result[r] = "busy")
      BY <2>2 DEF BusyInv
    <3>. QED
      BY <3>1, <3>2 DEF Fleet!FinishPlan, Fleet!FinishApply
  <2>3. CASE phase[r] = "idle"
    BY <1>1, <2>3 DEF BusyInv
  <2>. QED
    BY <2>1, <2>2, <2>3
<1>5. \A r \in Relays : RelayedInv(r)'
  BY <1>1 DEF RelayedInv, AllGood, Fleet!Children
<1>6. ASSUME NEW d \in Fleet!Controllers PROVE UnstartedInv(d)' /\ SuccessInv(d)'
  <2>1. CASE d # c
    BY <1>1, <2>1 DEF UnstartedInv, SuccessInv, Succeeded, AllGood, Fleet!Children
  <2>2. CASE d = c
    <3>1. CASE Fleet!FinishApply(c)
      <4>1. phase'[c] = "done" /\ \A t \in Fleet!Children(c) : result[t] \notin {"none", "busy"}
        BY <3>1 DEF Fleet!FinishApply
      <4>2. exit'[c] = "ok" => \A t \in Fleet!Children(c) : result[t] # "error"
        BY <3>1 DEF Fleet!FinishApply, Fleet!Healthy
      <4>3. exit'[c] = "ok" => AllGood(c)
        BY <4>1, <4>2 DEF AllGood, Fleet!Children
      <4>. QED
        BY <1>1, <2>2, <4>1, <4>3 DEF UnstartedInv, SuccessInv, Succeeded, AllGood, Fleet!Children
    <3>2. CASE Fleet!FinishPlan(c)
      BY <1>1, <2>2, <3>2 DEF Fleet!FinishPlan, UnstartedInv, SuccessInv, Succeeded
    <3>. QED
      BY <3>1, <3>2
  <2>. QED
    BY <2>1, <2>2
<1>. QED
  BY <1>2, <1>3, <1>4, <1>5, <1>6

\* What is between a target and the Hub.
LEMMA AboveFacts ==
    ASSUME Tree, NEW t \in Targets, Parent[t] \in Relays
    PROVE  Parent[t] \in Fleet!Above(t) /\ Fleet!Above(Parent[t]) \subseteq Fleet!Above(t)
<1> DEFINE Closed(S, u) == \A v \in S \cup {u} : Parent[v] \in Relays => Parent[v] \in S
<1>1. \A S \in SUBSET Relays : Closed(S, t) => Parent[t] \in S /\ Closed(S, Parent[t])
  OBVIOUS
<1>2. \A u \in Targets : Fleet!Above(u) = {r \in Relays : \A S \in SUBSET Relays : Closed(S, u) => r \in S}
  BY DEF Fleet!Above
<1>3. Parent[t] \in Targets
  BY DEF Tree
<1> HIDE DEF Closed
<1>. QED
  BY <1>1, <1>2, <1>3

\* A relay is lost with everything that works below it.
LEMMA LossKeeps ==
    ASSUME Tree, FleetInv, NEW c \in Fleet!Controllers, NEW t \in Targets, Fleet!LoseRelay(c, t) PROVE FleetInv'
<1> USE DEF Tree, FleetInv, FleetTypes, Fleet!Controllers
<1> DEFINE Lost == {t} \cup Fleet!Below(t)
<1>1. /\ t \in Relays /\ Parent[t] = c /\ Lost \subseteq Targets
      /\ UNCHANGED <<command, yes, exit>> /\ current \subseteq current'
      /\ plan' = [plan EXCEPT ![t] = IF plan[t] = "busy" THEN "error" ELSE plan[t]]
      /\ result' = [result EXCEPT ![t] = IF result[t] = "busy" THEN "error" ELSE result[t]]
      /\ phase' = [r \in Fleet!Controllers |-> IF r \in Lost THEN "idle" ELSE phase[r]]
  BY DEF Fleet!LoseRelay, Fleet!Below
<1>2. \A r \in Relays : Parent[r] \in Lost => r \in Lost
  <2>1. ASSUME NEW r \in Relays, Parent[r] \in Lost PROVE t \in Fleet!Above(r)
    <3>1. Parent[r] = t \/ t \in Fleet!Above(Parent[r])
      BY <2>1 DEF Fleet!Below
    <3>2. Parent[r] \in Relays
      BY <1>1, <2>1
    <3>. QED
      BY <3>1, <3>2, AboveFacts
  <2>. QED
    BY <2>1 DEF Fleet!Below
<1> HIDE DEF Lost
<1>3. FleetTypes'
  BY <1>1 DEF PlanStates
<1>4. \A u \in Targets : LeafInv(u)'
  BY <1>1 DEF LeafInv
<1>5. ASSUME NEW r \in Relays PROVE BusyInv(r)'
  <2>1. CASE r \in Lost
    BY <1>1, <2>1 DEF BusyInv
  <2>2. CASE r \notin Lost
    <3>1. r # t /\ Parent[r] \notin Lost
      BY <1>2, <2>2 DEF Lost
    <3>. QED
      BY <1>1, <2>2, <3>1 DEF BusyInv
  <2>. QED
    BY <2>1, <2>2
<1>6. \A d \in Fleet!Controllers : AllGood(d) => AllGood(d)'
  BY <1>1 DEF AllGood, Fleet!Children, Good
<1>7. \A r \in Relays : RelayedInv(r)'
  BY <1>1, <1>6 DEF RelayedInv
<1>8. \A d \in Fleet!Controllers : UnstartedInv(d)'
  BY <1>1 DEF UnstartedInv, Fleet!Children
<1>9. \A d \in Fleet!Controllers : SuccessInv(d)'
  BY <1>1, <1>6 DEF SuccessInv, Succeeded
<1>. QED
  BY <1>3, <1>4, <1>5, <1>7, <1>8, <1>9

LEMMA FleetKeeps == ASSUME Tree, FleetInv, [Fleet!Next]_(Fleet!vars) PROVE FleetInv'
<1>1. CASE Fleet!StartUpdate \/ Fleet!StartApply
  BY <1>1, StartKeeps
<1>2. ASSUME NEW c \in Fleet!Controllers, Fleet!FinishPlan(c) \/ Fleet!FinishApply(c) PROVE FleetInv'
  BY <1>2, FinishKeeps
<1>3. ASSUME NEW c \in Fleet!Controllers, NEW t \in Targets, Fleet!Target(c, t) PROVE FleetInv'
  BY <1>3, PlanningKeeps, LaunchKeeps, NoLaunchKeeps, PlannedKeeps, AppliedKeeps, TargetKeeps, LossKeeps DEF Fleet!Target
<1>4. CASE UNCHANGED <<current, command, yes, phase, exit, plan, result>>
  BY <1>4 DEF FleetInv, FleetTypes, LeafInv, BusyInv, RelayedInv, UnstartedInv, SuccessInv, Succeeded, AllGood,
     Fleet!Children
<1>5. ASSUME NEW t \in Targets, Fleet!Move(t) PROVE FleetInv'
  BY <1>4, <1>5 DEF Fleet!Move, Fleet!work
<1>6. CASE UNCHANGED Fleet!vars
  BY <1>4, <1>6 DEF Fleet!vars, Fleet!work
<1>. QED
  BY <1>1, <1>2, <1>3, <1>5, <1>6 DEF Fleet!Next

\* Every reachable state of a fleet satisfies the inductive invariant.
THEOREM FleetInvariant == Fleet!Spec => []FleetInv
<1> SUFFICES ASSUME Tree PROVE Fleet!Spec => []FleetInv
  BY TreeAssumption
<1>1. Fleet!Init => FleetInv
  BY FleetInit
<1>2. FleetInv /\ [Fleet!Next]_(Fleet!vars) => FleetInv'
  BY FleetKeeps
<1>. QED
  BY <1>1, <1>2, PTL DEF Fleet!Spec

\* From the Hub down, no target is behind.
LEMMA NothingBehind ==
    ASSUME Tree, FleetInv, Succeeded(Hub) PROVE Fleet!SuccessMeansCurrent
<1> USE DEF Tree, FleetInv, FleetTypes, Fleet!Controllers
<1>1. AllGood(Hub)
  BY DEF SuccessInv
<1>2. CASE command = "apply"
  <2>1. \A t \in Fleet!Leaves : Parent[t] = Hub => t \in current \/ result[t] = "deferred"
    BY <1>1, <1>2 DEF AllGood, Fleet!Children, Fleet!Leaves, LeafInv, Good
  <2>. QED
    BY <1>2, <2>1 DEF Fleet!SuccessMeansCurrent, Fleet!SetAside
<1>3. CASE command = "update"
  <2> DEFINE Seen == {t \in Targets : (result[t] \in Good /\ result[t] # "deferred") \/ Fleet!SetAside(t)}
  <2>1. ASSUME NEW t \in Targets, Parent[t] \in {Hub} \cup Seen PROVE t \in Seen
    <3>1. CASE result[t] \in Good
      BY <3>1 DEF Fleet!SetAside
    <3>2. CASE Parent[t] = Hub
      BY <1>1, <1>3, <3>1, <3>2 DEF AllGood, Fleet!Children
    <3>3. CASE Parent[t] # Hub /\ Fleet!SetAside(Parent[t])
      BY <3>3, AboveFacts DEF Fleet!SetAside
    <3>4. CASE Parent[t] # Hub /\ result[Parent[t]] \in Good /\ result[Parent[t]] # "deferred"
      <4>1. Parent[t] \in Relays /\ result[Parent[t]] = "relayed"
        BY <3>4 DEF LeafInv, Good
      <4>. QED
        BY <1>3, <3>1, <4>1 DEF RelayedInv, AllGood, Fleet!Children
    <3>. QED
      BY <2>1, <3>2, <3>3, <3>4
  <2>2. Seen = Targets
    <3> HIDE DEF Seen
    <3>1. Seen \in SUBSET Targets
      BY DEF Seen
    <3>. QED
      BY <2>1, <3>1
  <2>3. \A t \in Fleet!Leaves : t \in current \/ Fleet!SetAside(t)
    BY <2>2 DEF Fleet!Leaves, LeafInv, Good
  <2>. QED
    BY <2>3 DEF Fleet!SuccessMeansCurrent
<1>. QED
  BY <1>2, <1>3

\* The fleets of the run: behaviours of FleetUpdate, whatever the installation of a node does.
LEMMA FleetOfRun == RolloutSpec => Fleet!Spec
<1>1. RolloutInit => Fleet!Init
  BY DEF RolloutInit
<1>2. [RolloutNext]_<<part, allvars, fleetVars>> => [Fleet!Next]_(Fleet!vars)
  BY DEF RolloutNext, NodeStep, FleetStep, fleetVars, Fleet!vars, Fleet!work, Fleet!bounds
<1>. QED
  BY <1>1, <1>2, PTL DEF RolloutSpec, Fleet!Spec

\* An update that succeeds has left no leaf behind: each one runs the release, unless it or a relay above it is
\* reported as deferred - for any tree of relays of any depth, any number of commands, faults and connections that
\* come and go (cmd/fleettyctl: planTargets, applyPlans, runRelayCascade).
THEOREM SuccessIsCurrent == RolloutSpec => []SuccessMeansCurrent
<1> SUFFICES ASSUME Tree PROVE RolloutSpec => []SuccessMeansCurrent
  BY TreeAssumption
<1>1. FleetInv => SuccessMeansCurrent
  BY NothingBehind DEF SuccessMeansCurrent, Fleet!SuccessMeansCurrent, Succeeded
<1>. QED
  BY <1>1, FleetOfRun, FleetInvariant, PTL
=============================================================================
