------------------------ MODULE StorageActionProofs ------------------------
(***************************************************************************)
(* Proofs about StorageAction: for any number of archive names, of actions *)
(* and of changes by other programs, deletion and archiving remove only    *)
(* what was confirmed, archive what they remove, and lose nothing else.    *)
(***************************************************************************)
EXTENDS StorageAction, TLAPS

\* The steps of an archive before the removal, the steps at which the moved
\* object is known to be the confirmed one, and the steps at which there is
\* a moved object.
Archiving == {"create", "stat", "test", "sync", "name", "link", "unlink"}
Checked == Archiving \cup {"remove"}
Holding == Checked \cup {"inspect", "look", "putback"}

\* What runs was confirmed, and the page that confirms has a request.
RequestInv ==
    /\ screen = "map" => pc = "idle"
    /\ screen = "confirm" => request # None
    /\ pc # "idle" => request \in confirmed
    /\ pc \in Archiving => request.kind = "archive"

\* The workspace holds an object exactly at the steps that need one, and from
\* the identity test on it is the confirmed object, with at least its content.
StagedInv ==
    /\ pc \in Holding <=> staged # None
    /\ path # None => path.stamp <= path.content
    /\ staged # None => staged.stamp <= staged.content
    /\ pc \in Checked => staged.ino = request.key[1] /\ staged.content >= request.key[2]

\* An archive that can be restored and has the confirmed content.
Holds(a) == a.state = "good" /\ a.ino = request.key[1] /\ a.content >= request.key[2]

\* How far the archive is, at each step.
ArchiveInv ==
    /\ pc \in {"stat", "test"} /\ temp.state = "good" => Holds(temp)
    /\ pc \in {"sync", "name", "link"} => Holds(temp)
    /\ pc = "link" => name \in 1 .. Slots
    /\ pc \in {"unlink", "remove"} /\ request.kind = "archive" =>
          name \in 1 .. Slots /\ Holds(slots[name])

\* Between the look of a restoration and its rename, only a newcomer can be at
\* the path.
RestoreInv ==
    pc = "putback" => looked <= Youngest /\ (path # None => path.ino > looked)

\* The inductive invariant: the properties need to know what each step of an
\* action may rely on.
Inv == TypeOK /\ RequestInv /\ StagedInv /\ ArchiveInv /\ RestoreInv
           /\ OnlyConfirmedRemoved /\ RemovedIsArchived /\ NothingVanishes

\* Objects have inodes, stamps and contents that are numbers.
LEMMA ObjectFields ==
    ASSUME NEW o \in Objects
    PROVE  o.ino \in Nat /\ o.stamp \in Nat /\ o.content \in Nat /\ o.dir \in BOOLEAN
  BY DEF Objects

\* An object that is built from such numbers is an object.
LEMMA ObjectBuilt ==
    ASSUME NEW i \in Nat, NEW s \in Nat, NEW c \in Nat, NEW d \in BOOLEAN
    PROVE  [ino |-> i, stamp |-> s, content |-> c, dir |-> d] \in Objects
  BY DEF Objects

\* Writing makes an object of the same inode, with a stamp that its new
\* content covers.
LEMMA WrittenObject ==
    ASSUME NEW o \in Objects, o.stamp <= o.content, NEW w \in Written(o)
    PROVE  /\ w \in Objects /\ w.ino = o.ino
           /\ w.stamp <= w.content /\ w.content >= o.content
  BY ObjectFields, ObjectBuilt DEF Written

\* The request made for an object.
LEMMA RequestBuilt ==
    ASSUME NEW k \in Kinds, NEW o \in Objects
    PROVE  [kind |-> k, key |-> storageFileIdentity(o)] \in Requests
  BY ObjectFields DEF Requests, storageFileIdentity

\* Requests have a kind and an identity.
LEMMA RequestFields ==
    ASSUME NEW r \in Requests
    PROVE  r.kind \in Kinds /\ r.key[1] \in Nat /\ r.key[2] \in Nat
  BY DEF Requests

\* The archives that are built.
LEMMA ArchiveBuilt ==
    ASSUME NEW i \in Nat, NEW c \in Nat
    PROVE  \A s \in {"none", "foreign", "empty", "corrupt", "good"} :
              [state |-> s, ino |-> i, content |-> c] \in Archives
  BY DEF Archives

\* No archive is an archive.
LEMMA NoArchiveBuilt == NoArchive \in Archives /\ NoArchive.state = "none"
  BY DEF Archives, NoArchive

\* A destroyed object is recorded as one.
LEMMA DestroyTyped ==
    ASSUME NEW o \in Objects, NEW how \in Kinds \cup {"restore"},
           destroyed \subseteq [obj : Objects, by : Kinds \cup {"restore"}]
    PROVE  Destroy(o, how) \subseteq [obj : Objects, by : Kinds \cup {"restore"}]
  BY DEF Destroy

\* None is neither an object nor a request.
LEMMA NoneApart == None \notin Objects /\ None \notin Requests
  BY StorageAssumption

\* The initial states satisfy the invariant.
LEMMA InitInv == Init => Inv
<1> SUFFICES ASSUME Init PROVE Inv
  OBVIOUS
<1>1. path \in Objects /\ path.ino = 1 /\ path.stamp <= path.content
  BY ObjectBuilt DEF Init
<1>2. TypeOK
  <2>1. typed \in BOOLEAN /\ cancelled \in BOOLEAN /\ alive \in BOOLEAN
    BY Zenon DEF Init
  <2> QED
    BY <1>1, <2>1, NoArchiveBuilt, StorageAssumption DEF Init, TypeOK
<1>3. RequestInv /\ StagedInv /\ ArchiveInv /\ RestoreInv
  BY <1>1 DEF Init, RestoreInv, RequestInv, StagedInv, ArchiveInv, Archiving, Checked, Holding
<1>4. OnlyConfirmedRemoved /\ RemovedIsArchived
  BY DEF Init, OnlyConfirmedRemoved, RemovedIsArchived
<1>5. NothingVanishes
  BY <1>1, NoneApart DEF Init, NothingVanishes
<1> QED
  BY <1>2, <1>3, <1>4, <1>5 DEF Inv

\* Every action keeps the types.
LEMMA TypeStep == TypeOK /\ RequestInv /\ StagedInv /\ ArchiveInv /\ [Next]_vars => TypeOK'
<1> SUFFICES ASSUME TypeOK, RequestInv, StagedInv, ArchiveInv, [Next]_vars PROVE TypeOK'
  OBVIOUS
<1> USE StorageAssumption DEF TypeOK, At, Goto, Report, unchangedOutside, unchangedByOthers,
        ui, disk, others
<1>1. CASE UNCHANGED vars
  BY <1>1 DEF vars
<1>2. CASE \E k \in Kinds : prepareStorageAction(k)
  BY <1>2, RequestBuilt DEF prepareStorageAction, storageFileIdentity
<1>3. CASE appendStorageConfirmation
  BY <1>3 DEF appendStorageConfirmation
<1>4. CASE runStorageAction
  <2>1. cancelled' \in BOOLEAN
    BY <1>4, Zenon DEF runStorageAction
  <2>2. request \in Requests
    BY <1>4 DEF runStorageAction, RequestInv
  <2> QED
    BY <1>4, <2>1, <2>2 DEF runStorageAction
<1>5. CASE Escape
  <2>1. cancelled' \in BOOLEAN /\ typed' \in BOOLEAN
    BY <1>5, Zenon DEF Escape
  <2> QED
    BY <1>5, <2>1 DEF Escape
<1>6. CASE Quit
  BY <1>6 DEF Quit, Running
<1>7. CASE applyStorageActionResult
  <2>1. cancelled' \in BOOLEAN /\ typed' \in BOOLEAN
    BY <1>7, Zenon DEF applyStorageActionResult
  <2> QED
    BY <1>7, <2>1, NoArchiveBuilt DEF applyStorageActionResult
<1>8. CASE Exit
  <2>1. alive' \in BOOLEAN
    BY <1>8, Zenon DEF Exit
  <2> QED
    BY <1>8, <2>1 DEF Exit
<1>9. CASE validateStorageActionRequest
  BY <1>9 DEF validateStorageActionRequest, Matches
<1>10. CASE MakeWorkspace
  BY <1>10 DEF MakeWorkspace
<1>11. CASE MoveAside
  BY <1>11 DEF MoveAside
<1>12. CASE InspectMoved
  BY <1>12 DEF InspectMoved
<1>13. CASE CreateArchive
  <2>1. staged \in Objects
    BY <1>13 DEF CreateArchive, StagedInv, Holding, Checked, Archiving
  <2>2. temp' \in Archives
    <3>1. staged.ino \in Nat /\ staged.content \in Nat
      BY <2>1, ObjectFields
    <3>2. \A s \in {"none", "foreign", "empty", "corrupt", "good"} :
             [state |-> s, ino |-> staged.ino, content |-> staged.content] \in Archives
      BY <3>1, ArchiveBuilt
    <3> QED
      BY <1>13, <3>2, NoArchiveBuilt DEF CreateArchive
  <2> QED
    BY <1>13, <2>2 DEF CreateArchive
<1>14. CASE StatArchive
  BY <1>14 DEF StatArchive
<1>15. CASE TestArchive
  BY <1>15 DEF TestArchive
<1>16. CASE syncStorageArchive
  BY <1>16 DEF syncStorageArchive
<1>17. CASE nextStorageArchivePath
  BY <1>17 DEF nextStorageArchivePath
<1>18. CASE LinkArchive
  <2>1. slots' \in [1 .. Slots -> Archives]
    BY <1>18 DEF LinkArchive
  <2> QED
    BY <1>18, <2>1 DEF LinkArchive
<1>19. CASE UnlinkTemporary
  BY <1>19, NoArchiveBuilt DEF UnlinkTemporary
<1>20. CASE RemoveMoved
  <2>1. staged \in Objects /\ request \in Requests
    BY <1>20 DEF RemoveMoved, StagedInv, RequestInv, Holding, Checked, Archiving
  <2>2. Destroy(staged, request.kind) \subseteq [obj : Objects, by : Kinds \cup {"restore"}]
    BY <2>1, RequestFields, DestroyTyped
  <2> QED
    BY <1>20, <2>2 DEF RemoveMoved
<1>21. CASE CleanUp
  BY <1>21 DEF CleanUp
<1>22. CASE LookAtOriginal
  <2>1. staged \in Objects
    BY <1>22 DEF LookAtOriginal, StagedInv, Holding, Checked, Archiving
  <2> QED
    BY <1>22, <2>1 DEF LookAtOriginal, LeaveInWorkspace, Youngest
<1>23. CASE PutBack
  <2>1. staged \in Objects
    BY <1>23 DEF PutBack, StagedInv, Holding, Checked, Archiving
  <2>2. path # None => Destroy(path, "restore") \subseteq [obj : Objects, by : Kinds \cup {"restore"}]
    BY DestroyTyped
  <2> QED
    BY <1>23, <2>1, <2>2, NoArchiveBuilt DEF PutBack, LeaveInWorkspace
<1>24. CASE OthersPut
  <2>1. path' \in Objects
    BY <1>24, ObjectBuilt DEF OthersPut, Change, Youngest
  <2>2. created' \subseteq Nat /\ changes' \in 0 .. MaxChanges
    BY <1>24, StorageAssumption DEF OthersPut, Change, Youngest
  <2>3. removed' \subseteq Nat
    BY <1>24, ObjectFields DEF OthersPut
  <2> QED
    BY <1>24, <2>1, <2>2, <2>3 DEF OthersPut
<1>25. CASE OthersRemove
  <2>1. path.ino \in Nat
    BY <1>25, ObjectFields DEF OthersRemove
  <2>2. removed' \subseteq Nat
    BY <1>25, <2>1 DEF OthersRemove
  <2>3. changes' \in 0 .. MaxChanges
    BY <1>25, StorageAssumption DEF OthersRemove, Change
  <2> QED
    BY <1>25, <2>2, <2>3 DEF OthersRemove
<1>26. CASE OthersWrite
  <2>1. path' \in Objects \cup {None} /\ staged' \in Objects \cup {None}
    BY <1>26, WrittenObject DEF OthersWrite, StagedInv
  <2> QED
    BY <1>26, <2>1 DEF OthersWrite, Change
<1>27. CASE OthersTakeName
  <2>1. slots' \in [1 .. Slots -> Archives]
    <3>1. [state |-> "foreign", ino |-> 0, content |-> 0] \in Archives
      BY ArchiveBuilt
    <3> QED
      BY <1>27, <3>1 DEF OthersTakeName
  <2> QED
    BY <1>27, <2>1 DEF OthersTakeName, Change
<1> QED
  BY <1>1, <1>2, <1>3, <1>4, <1>5, <1>6, <1>7, <1>8, <1>9, <1>10, <1>11, <1>12, <1>13, <1>14,
     <1>15, <1>16, <1>17, <1>18, <1>19, <1>20, <1>21, <1>22, <1>23, <1>24, <1>25, <1>26, <1>27
     DEF Next, ActionStep

\* Every action keeps the request with the step that runs.
LEMMA RequestStep == TypeOK /\ RequestInv /\ [Next]_vars => RequestInv'
<1> SUFFICES ASSUME TypeOK, RequestInv, [Next]_vars PROVE RequestInv'
  OBVIOUS
<1> USE StorageAssumption DEF RequestInv, Archiving, At, Goto, Report, unchangedOutside, unchangedByOthers,
        ui, disk, others
<1>1. CASE UNCHANGED vars
  BY <1>1 DEF vars
<1>2. CASE \E k \in Kinds : prepareStorageAction(k)
  BY <1>2, RequestBuilt, NoneApart DEF prepareStorageAction, TypeOK
<1>3. CASE appendStorageConfirmation
  BY <1>3 DEF appendStorageConfirmation
<1>4. CASE runStorageAction
  BY <1>4 DEF runStorageAction
<1>5. CASE Escape
  BY <1>5 DEF Escape
<1>6. CASE Quit
  BY <1>6 DEF Quit, Running
<1>7. CASE applyStorageActionResult
  BY <1>7 DEF applyStorageActionResult, NoArchive
<1>8. CASE Exit
  BY <1>8 DEF Exit
<1>9. CASE validateStorageActionRequest
  BY <1>9 DEF validateStorageActionRequest, Matches
<1>10. CASE MakeWorkspace
  BY <1>10 DEF MakeWorkspace
<1>11. CASE MoveAside
  BY <1>11 DEF MoveAside
<1>12. CASE InspectMoved
  BY <1>12, RequestFields DEF InspectMoved, TypeOK, Kinds
<1>13. CASE CreateArchive
  BY <1>13 DEF CreateArchive, NoArchive
<1>14. CASE StatArchive
  BY <1>14 DEF StatArchive
<1>15. CASE TestArchive
  BY <1>15 DEF TestArchive
<1>16. CASE syncStorageArchive
  BY <1>16 DEF syncStorageArchive
<1>17. CASE nextStorageArchivePath
  BY <1>17 DEF nextStorageArchivePath
<1>18. CASE LinkArchive
  BY <1>18 DEF LinkArchive
<1>19. CASE UnlinkTemporary
  BY <1>19 DEF UnlinkTemporary, NoArchive
<1>20. CASE RemoveMoved
  BY <1>20 DEF RemoveMoved, Destroy
<1>21. CASE CleanUp
  BY <1>21 DEF CleanUp
<1>22. CASE LookAtOriginal
  BY <1>22 DEF LookAtOriginal, LeaveInWorkspace, Youngest
<1>23. CASE PutBack
  BY <1>23 DEF PutBack, LeaveInWorkspace, Destroy
<1>24. CASE OthersPut
  BY <1>24 DEF OthersPut, Change, Youngest
<1>25. CASE OthersRemove
  BY <1>25 DEF OthersRemove, Change
<1>26. CASE OthersWrite
  BY <1>26 DEF OthersWrite, Change, Written
<1>27. CASE OthersTakeName
  BY <1>27 DEF OthersTakeName, Change
<1> QED
  BY <1>1, <1>2, <1>3, <1>4, <1>5, <1>6, <1>7, <1>8, <1>9, <1>10, <1>11, <1>12, <1>13, <1>14,
     <1>15, <1>16, <1>17, <1>18, <1>19, <1>20, <1>21, <1>22, <1>23, <1>24, <1>25, <1>26, <1>27
     DEF Next, ActionStep

\* Every action keeps what is known of the moved object.
LEMMA StagedStep == TypeOK /\ RequestInv /\ StagedInv /\ [Next]_vars => StagedInv'
<1> SUFFICES ASSUME TypeOK, RequestInv, StagedInv, [Next]_vars PROVE StagedInv'
  OBVIOUS
<1> USE StorageAssumption DEF StagedInv, Archiving, Checked, Holding, At, Goto, Report, unchangedOutside, unchangedByOthers,
        ui, disk, others
<1>1. CASE UNCHANGED vars
  BY <1>1 DEF vars
<1>2. CASE \E k \in Kinds : prepareStorageAction(k)
  BY <1>2 DEF prepareStorageAction, RequestInv
<1>3. CASE appendStorageConfirmation
  BY <1>3 DEF appendStorageConfirmation
<1>4. CASE runStorageAction
  BY <1>4 DEF runStorageAction
<1>5. CASE Escape
  BY <1>5 DEF Escape
<1>6. CASE Quit
  BY <1>6 DEF Quit, Running
<1>7. CASE applyStorageActionResult
  BY <1>7 DEF applyStorageActionResult, NoArchive
<1>8. CASE Exit
  BY <1>8 DEF Exit
<1>9. CASE validateStorageActionRequest
  BY <1>9 DEF validateStorageActionRequest, Matches
<1>10. CASE MakeWorkspace
  BY <1>10 DEF MakeWorkspace
<1>11. CASE MoveAside
  BY <1>11 DEF MoveAside, TypeOK
<1>12. CASE InspectMoved
  <2>1. staged \in Objects
    BY <1>12 DEF InspectMoved, TypeOK
  <2> QED
    BY <1>12, <2>1, ObjectFields DEF InspectMoved, storageFileIdentity
<1>13. CASE CreateArchive
  BY <1>13 DEF CreateArchive, NoArchive
<1>14. CASE StatArchive
  BY <1>14 DEF StatArchive
<1>15. CASE TestArchive
  BY <1>15 DEF TestArchive
<1>16. CASE syncStorageArchive
  BY <1>16 DEF syncStorageArchive
<1>17. CASE nextStorageArchivePath
  BY <1>17 DEF nextStorageArchivePath
<1>18. CASE LinkArchive
  BY <1>18 DEF LinkArchive
<1>19. CASE UnlinkTemporary
  BY <1>19 DEF UnlinkTemporary, NoArchive
<1>20. CASE RemoveMoved
  BY <1>20 DEF RemoveMoved, Destroy
<1>21. CASE CleanUp
  BY <1>21 DEF CleanUp
<1>22. CASE LookAtOriginal
  BY <1>22 DEF LookAtOriginal, LeaveInWorkspace, Youngest
<1>23. CASE PutBack
  BY <1>23 DEF PutBack, LeaveInWorkspace, Destroy
<1>24. CASE OthersPut
  <2>1. path' \in Objects /\ path'.stamp <= path'.content
    BY <1>24, ObjectBuilt DEF OthersPut, Change, Youngest, TypeOK
  <2> QED
    BY <1>24, <2>1 DEF OthersPut
<1>25. CASE OthersRemove
  BY <1>25 DEF OthersRemove, Change
<1>26. CASE OthersWrite
  <2>1. CASE path # None /\ path' \in Written(path) /\ UNCHANGED staged
    BY <1>26, <2>1, WrittenObject, NoneApart DEF OthersWrite, TypeOK
  <2>2. CASE staged # None /\ staged' \in Written(staged) /\ UNCHANGED path
    <3>1. staged \in Objects /\ staged.content \in Nat
      BY <2>2, ObjectFields DEF TypeOK
    <3>2. staged' \in Objects /\ staged'.content \in Nat /\ staged'.ino = staged.ino
             /\ staged'.stamp <= staged'.content /\ staged'.content >= staged.content
      BY <2>2, <3>1, WrittenObject, ObjectFields
    <3>3. pc \in Checked => request.key[2] \in Nat
      BY RequestFields DEF RequestInv, TypeOK
    <3> QED
      BY <1>26, <2>2, <3>1, <3>2, <3>3, NoneApart DEF OthersWrite
  <2> QED
    BY <1>26, <2>1, <2>2 DEF OthersWrite
<1>27. CASE OthersTakeName
  BY <1>27 DEF OthersTakeName, Change
<1> QED
  BY <1>1, <1>2, <1>3, <1>4, <1>5, <1>6, <1>7, <1>8, <1>9, <1>10, <1>11, <1>12, <1>13, <1>14,
     <1>15, <1>16, <1>17, <1>18, <1>19, <1>20, <1>21, <1>22, <1>23, <1>24, <1>25, <1>26, <1>27
     DEF Next, ActionStep

\* Every action keeps the archive as far as it has got.
LEMMA ArchiveStep == TypeOK /\ RequestInv /\ StagedInv /\ ArchiveInv /\ [Next]_vars => ArchiveInv'
<1> SUFFICES ASSUME TypeOK, RequestInv, StagedInv, ArchiveInv, [Next]_vars PROVE ArchiveInv'
  OBVIOUS
<1> USE StorageAssumption DEF ArchiveInv, Holds, At, Goto, Report, unchangedOutside, unchangedByOthers,
        ui, disk, others
<1>1. CASE UNCHANGED vars
  BY <1>1 DEF vars
<1>2. CASE \E k \in Kinds : prepareStorageAction(k)
  BY <1>2 DEF prepareStorageAction, RequestInv
<1>3. CASE appendStorageConfirmation
  BY <1>3 DEF appendStorageConfirmation
<1>4. CASE runStorageAction
  BY <1>4 DEF runStorageAction
<1>5. CASE Escape
  BY <1>5 DEF Escape
<1>6. CASE Quit
  BY <1>6 DEF Quit, Running
<1>7. CASE applyStorageActionResult
  BY <1>7 DEF applyStorageActionResult, NoArchive
<1>8. CASE Exit
  BY <1>8 DEF Exit
<1>9. CASE validateStorageActionRequest
  BY <1>9 DEF validateStorageActionRequest, Matches
<1>10. CASE MakeWorkspace
  BY <1>10 DEF MakeWorkspace
<1>11. CASE MoveAside
  BY <1>11 DEF MoveAside
<1>12. CASE InspectMoved
  BY <1>12, RequestFields DEF InspectMoved, RequestInv, TypeOK, Kinds
<1>13. CASE CreateArchive
  <2>1. temp'.state = "good" => temp'.ino = staged.ino /\ temp'.content = staged.content
    BY <1>13 DEF CreateArchive, NoArchive
  <2> QED
    BY <1>13, <2>1 DEF CreateArchive, StagedInv, Checked, Archiving
<1>14. CASE StatArchive
  BY <1>14 DEF StatArchive
<1>15. CASE TestArchive
  BY <1>15 DEF TestArchive
<1>16. CASE syncStorageArchive
  BY <1>16 DEF syncStorageArchive
<1>17. CASE nextStorageArchivePath
  BY <1>17, StorageAssumption DEF nextStorageArchivePath
<1>18. CASE LinkArchive
  <2>1. slots[name].state = "none" /\ slots' = [slots EXCEPT ![name] = temp] /\ name \in 1 .. Slots
           => slots'[name] = temp
    BY DEF TypeOK
  <2> QED
    BY <1>18, <2>1 DEF LinkArchive
<1>19. CASE UnlinkTemporary
  BY <1>19 DEF UnlinkTemporary, NoArchive
<1>20. CASE RemoveMoved
  BY <1>20 DEF RemoveMoved, Destroy
<1>21. CASE CleanUp
  BY <1>21 DEF CleanUp
<1>22. CASE LookAtOriginal
  BY <1>22 DEF LookAtOriginal, LeaveInWorkspace, Youngest
<1>23. CASE PutBack
  BY <1>23 DEF PutBack, LeaveInWorkspace, Destroy
<1>24. CASE OthersPut
  BY <1>24 DEF OthersPut, Change, Youngest
<1>25. CASE OthersRemove
  BY <1>25 DEF OthersRemove, Change
<1>26. CASE OthersWrite
  BY <1>26 DEF OthersWrite, Change, Written
<1>27. CASE OthersTakeName
  <2>1. \A s \in 1 .. Slots : slots[s].state = "good" => slots'[s] = slots[s]
    BY <1>27 DEF OthersTakeName, TypeOK
  <2> QED
    BY <1>27, <2>1 DEF OthersTakeName
<1> QED
  BY <1>1, <1>2, <1>3, <1>4, <1>5, <1>6, <1>7, <1>8, <1>9, <1>10, <1>11, <1>12, <1>13, <1>14,
     <1>15, <1>16, <1>17, <1>18, <1>19, <1>20, <1>21, <1>22, <1>23, <1>24, <1>25, <1>26, <1>27
     DEF Next, ActionStep

\* Confirmations are never forgotten, and only a removal or a restoration
\* destroys anything.
LEMMA DestroyedBy ==
    [Next]_vars => confirmed \subseteq confirmed' /\ (RemoveMoved \/ PutBack \/ UNCHANGED destroyed)
  BY DEF Next, ActionStep, prepareStorageAction, appendStorageConfirmation, runStorageAction, Escape, Quit,
       applyStorageActionResult, Exit, validateStorageActionRequest, MakeWorkspace, MoveAside, InspectMoved,
       CreateArchive, StatArchive, TestArchive, syncStorageArchive, nextStorageArchivePath, LinkArchive,
       UnlinkTemporary, RemoveMoved, CleanUp, LookAtOriginal, LeaveInWorkspace, PutBack,
       OthersPut, OthersRemove, OthersWrite, OthersTakeName, unchangedOutside, unchangedByOthers, ui, disk, others, vars

\* Only a publication or another program changes the archive names.
LEMMA SlotsChange == [Next]_vars => LinkArchive \/ OthersTakeName \/ UNCHANGED slots
  BY DEF Next, ActionStep, prepareStorageAction, appendStorageConfirmation, runStorageAction, Escape, Quit,
       applyStorageActionResult, Exit, validateStorageActionRequest, MakeWorkspace, MoveAside, InspectMoved,
       CreateArchive, StatArchive, TestArchive, syncStorageArchive, nextStorageArchivePath, LinkArchive,
       UnlinkTemporary, RemoveMoved, CleanUp, LookAtOriginal, LeaveInWorkspace, PutBack,
       OthersPut, OthersRemove, OthersWrite, OthersTakeName, unchangedOutside, unchangedByOthers, ui, disk, others, vars

\* A good archive next to the target stays.
LEMMA GoodArchivesStay ==
    TypeOK /\ [Next]_vars => \A s \in 1 .. Slots : slots[s].state = "good" => slots'[s] = slots[s]
<1> SUFFICES ASSUME TypeOK, [Next]_vars PROVE \A s \in 1 .. Slots : slots[s].state = "good" => slots'[s] = slots[s]
  OBVIOUS
<1>1. LinkArchive \/ OthersTakeName \/ UNCHANGED slots
  BY SlotsChange
<1>2. CASE LinkArchive
  BY <1>2 DEF LinkArchive, TypeOK
<1>3. CASE OthersTakeName
  BY <1>3 DEF OthersTakeName, TypeOK
<1> QED
  BY <1>1, <1>2, <1>3

\* Only what was confirmed is removed, by every action.
LEMMA ConfirmedStep == Inv /\ [Next]_vars => OnlyConfirmedRemoved'
<1> SUFFICES ASSUME Inv, [Next]_vars PROVE OnlyConfirmedRemoved'
  OBVIOUS
<1> USE DEF Inv, OnlyConfirmedRemoved
<1>1. CASE UNCHANGED destroyed
  BY <1>1, DestroyedBy
<1>2. CASE RemoveMoved
  <2>1. request \in confirmed /\ staged.ino = request.key[1] /\ confirmed' = confirmed
    BY <1>2 DEF RemoveMoved, At, RequestInv, StagedInv, Checked, unchangedOutside
  <2>2. destroyed' \subseteq destroyed \cup {[obj |-> staged, by |-> request.kind]}
    BY <1>2 DEF RemoveMoved, Destroy
  <2> QED
    BY <2>1, <2>2
<1>3. CASE PutBack
  <2>1. destroyed' \subseteq destroyed \cup {[obj |-> path, by |-> "restore"]} /\ confirmed' = confirmed
    BY <1>3 DEF PutBack, Destroy, LeaveInWorkspace, unchangedOutside
  <2> QED
    BY <2>1 DEF Kinds
<1> QED
  BY <1>1, <1>2, <1>3, DestroyedBy

\* What an archive action removed is in an archive, after every action.
LEMMA ArchivedStep == Inv /\ [Next]_vars => RemovedIsArchived'
<1> SUFFICES ASSUME Inv, [Next]_vars, NEW d \in destroyed', d.by = "archive"
             PROVE  \E c \in confirmed', s \in 1 .. Slots :
                       /\ c.kind = "archive" /\ c.key[1] = d.obj.ino
                       /\ slots'[s].state = "good" /\ slots'[s].ino = d.obj.ino
                       /\ slots'[s].content >= c.key[2]
  BY DEF RemovedIsArchived
<1> USE DEF Inv
<1>1. CASE d \in destroyed
  <2>1. PICK c \in confirmed, s \in 1 .. Slots :
           /\ c.kind = "archive" /\ c.key[1] = d.obj.ino
           /\ slots[s].state = "good" /\ slots[s].ino = d.obj.ino
           /\ slots[s].content >= c.key[2]
    BY <1>1 DEF RemovedIsArchived
  <2>2. c \in confirmed' /\ slots'[s] = slots[s]
    BY <2>1, DestroyedBy, GoodArchivesStay
  <2> QED
    BY <2>1, <2>2
<1>2. CASE d \notin destroyed /\ RemoveMoved
  <2>1. d = [obj |-> staged, by |-> request.kind]
    BY <1>2 DEF RemoveMoved, Destroy
  <2>2. request.kind = "archive" /\ d.obj.ino = staged.ino
    BY <2>1
  <2>3. pc = "remove" /\ UNCHANGED <<slots, confirmed>>
    BY <1>2 DEF RemoveMoved, At, unchangedOutside
  <2>4. request \in confirmed /\ staged.ino = request.key[1]
    BY <2>3 DEF RequestInv, StagedInv, Checked
  <2>5. name \in 1 .. Slots /\ Holds(slots[name])
    BY <2>2, <2>3 DEF ArchiveInv
  <2> QED
    BY <2>2, <2>3, <2>4, <2>5 DEF Holds
<1>3. CASE d \notin destroyed /\ PutBack
  <2>1. d = [obj |-> path, by |-> "restore"]
    BY <1>3 DEF PutBack, Destroy, LeaveInWorkspace
  <2> QED
    BY <2>1
<1> QED
  BY <1>1, <1>2, <1>3, DestroyedBy

\* While a restoration is about to rename, what is at the path is younger than
\* its look.
LEMMA RestoreStep == Inv /\ [Next]_vars => RestoreInv'
<1> SUFFICES ASSUME Inv, [Next]_vars PROVE RestoreInv'
  OBVIOUS
<1> USE DEF Inv, RestoreInv, Youngest, At, Goto, Report, unchangedOutside, unchangedByOthers, disk, others
<1>1. \/ LookAtOriginal \/ OthersPut \/ OthersRemove \/ OthersWrite \/ OthersTakeName
      \/ pc' # "putback" \/ UNCHANGED <<path, pc, looked, changes>>
  BY DEF Next, ActionStep, prepareStorageAction, appendStorageConfirmation, runStorageAction, Escape, Quit,
       applyStorageActionResult, Exit, validateStorageActionRequest, MakeWorkspace, MoveAside, InspectMoved,
       CreateArchive, StatArchive, TestArchive, syncStorageArchive, nextStorageArchivePath, LinkArchive,
       UnlinkTemporary, RemoveMoved, CleanUp, LookAtOriginal, LeaveInWorkspace, PutBack,
       OthersPut, OthersRemove, OthersWrite, OthersTakeName, unchangedOutside, unchangedByOthers, ui, disk, others, vars
<1>2. CASE LookAtOriginal
  BY <1>2 DEF LookAtOriginal, LeaveInWorkspace, TypeOK
<1>3. CASE OthersPut
  <2>1. path'.ino = changes + 2 /\ changes' = changes + 1
    BY <1>3 DEF OthersPut, Change, TypeOK
  <2> QED
    BY <1>3, <2>1 DEF OthersPut, TypeOK
<1>4. CASE OthersRemove \/ OthersTakeName
  BY <1>4 DEF OthersRemove, OthersTakeName, Change, TypeOK
<1>5. CASE OthersWrite
  <2>1. path # None /\ path' # path => path'.ino = path.ino
    BY <1>5, WrittenObject DEF OthersWrite, TypeOK, StagedInv
  <2>2. path' # None => path # None
    BY <1>5 DEF OthersWrite
  <2> QED
    BY <1>5, <2>1, <2>2 DEF OthersWrite, Change, TypeOK
<1> QED
  BY <1>1, <1>2, <1>3, <1>4, <1>5

\* What is destroyed is recorded.
LEMMA DestroyRecorded ==
    ASSUME NEW o, NEW how
    PROVE  destroyed \subseteq Destroy(o, how) /\ \E d \in Destroy(o, how) : d.obj.ino = o.ino
<1>1. [obj |-> o, by |-> how] \in Destroy(o, how) /\ [obj |-> o, by |-> how].obj = o
  BY DEF Destroy
<1> QED
  BY <1>1 DEF Destroy

\* Every action accounts for every object.
LEMMA VanishStep == Inv /\ [Next]_vars => NothingVanishes'
<1> SUFFICES ASSUME Inv, [Next]_vars PROVE NothingVanishes'
  OBVIOUS
<1> USE NoneApart DEF Inv, NothingVanishes, unchangedOutside, unchangedByOthers, disk, others
<1>1. \/ MoveAside \/ RemoveMoved \/ LookAtOriginal \/ PutBack \/ OthersPut \/ OthersRemove \/ OthersWrite
      \/ UNCHANGED <<path, staged, leftovers, created, removed, destroyed>>
  BY DEF Next, ActionStep, prepareStorageAction, appendStorageConfirmation, runStorageAction, Escape, Quit,
       applyStorageActionResult, Exit, validateStorageActionRequest, MakeWorkspace, MoveAside, InspectMoved,
       CreateArchive, StatArchive, TestArchive, syncStorageArchive, nextStorageArchivePath, LinkArchive,
       UnlinkTemporary, RemoveMoved, CleanUp, LookAtOriginal, LeaveInWorkspace, PutBack,
       OthersPut, OthersRemove, OthersWrite, OthersTakeName, unchangedOutside, unchangedByOthers, ui, disk, others, vars
<1>2. CASE UNCHANGED <<path, staged, leftovers, created, removed, destroyed>>
  BY <1>2
<1>3. CASE MoveAside
  <2>1. staged = None
    BY <1>3 DEF MoveAside, At, StagedInv, Holding, Checked, Archiving
  <2> QED
    BY <1>3, <2>1 DEF MoveAside
<1>4. CASE RemoveMoved
  <2>1. destroyed' = Destroy(staged, request.kind) \/ UNCHANGED <<staged, destroyed>>
    BY <1>4 DEF RemoveMoved
  <2>2. CASE destroyed' = Destroy(staged, request.kind)
    <3>1. destroyed \subseteq destroyed' /\ \E d \in destroyed' : d.obj.ino = staged.ino
      BY <2>2, DestroyRecorded
    <3> QED
      BY <1>4, <3>1 DEF RemoveMoved
  <2> QED
    BY <1>4, <2>1, <2>2 DEF RemoveMoved
<1>5. CASE LookAtOriginal
  BY <1>5 DEF LookAtOriginal, LeaveInWorkspace
<1>6. CASE PutBack
  <2>1. staged # None
    BY <1>6 DEF PutBack, At, StagedInv, Holding
  <2>2. CASE leftovers' = leftovers \cup {staged} /\ staged' = None /\ UNCHANGED <<path, destroyed>>
    BY <1>6, <2>2 DEF PutBack
  <2>3. CASE /\ path' = staged /\ staged' = None /\ UNCHANGED leftovers
             /\ destroyed' = IF path = None THEN destroyed ELSE Destroy(path, "restore")
    <3>1. destroyed \subseteq destroyed' /\ (path # None => \E d \in destroyed' : d.obj.ino = path.ino)
      BY <2>3, DestroyRecorded
    <3> QED
      BY <1>6, <2>1, <2>3, <3>1 DEF PutBack
  <2> QED
    BY <1>6, <2>2, <2>3 DEF PutBack, LeaveInWorkspace
<1>7. CASE OthersPut
  <2>1. path' \in Objects /\ path'.ino = Youngest + 1
    BY <1>7, ObjectBuilt DEF OthersPut, Change, Youngest, TypeOK
  <2> QED
    BY <1>7, <2>1 DEF OthersPut
<1>8. CASE OthersRemove
  BY <1>8 DEF OthersRemove
<1>9. CASE OthersWrite
  <2>1. CASE path # None /\ path' \in Written(path) /\ UNCHANGED staged
    BY <1>9, <2>1, WrittenObject DEF OthersWrite, TypeOK, StagedInv
  <2>2. CASE staged # None /\ staged' \in Written(staged) /\ UNCHANGED path
    BY <1>9, <2>2, WrittenObject DEF OthersWrite, TypeOK, StagedInv
  <2> QED
    BY <1>9, <2>1, <2>2 DEF OthersWrite
<1> QED
  BY <1>1, <1>2, <1>3, <1>4, <1>5, <1>6, <1>7, <1>8, <1>9

\* The invariant holds in every behaviour of the storage actions.
THEOREM StorageInvariant == Spec => []Inv
<1>1. Inv /\ [Next]_vars => Inv'
  BY TypeStep, RequestStep, StagedStep, ArchiveStep, ConfirmedStep, ArchivedStep, RestoreStep, VanishStep DEF Inv
<1> QED
  BY InitInv, <1>1, PTL DEF Spec

\* Deletion and archiving remove only what the user confirmed, however the path
\* changes between confirmation, validation and the rename.
THEOREM RemovalConfirmed == Spec => []OnlyConfirmedRemoved
  BY StorageInvariant, PTL DEF Inv

\* Whatever an archive action removed is in a verified, published archive, also
\* after a cancellation, a failure or the end of the process.
THEOREM RemovalArchived == Spec => []RemovedIsArchived
  BY StorageInvariant, PTL DEF Inv

\* Every object that was at the path is there, in a workspace, or was removed
\* on purpose.
THEOREM NothingLost == Spec => []NothingVanishes
  BY StorageInvariant, PTL DEF Inv

\* A restoration replaces only files that appeared after it found the path free.
THEOREM RestoreCareful == Spec => RestoreReplacesOnlyNewcomers
<1>1. Inv /\ [Next]_vars => [\A d \in destroyed' \ destroyed : d.by = "restore" => d.obj.ino > looked]_vars
  <2> SUFFICES ASSUME Inv, [Next]_vars, NEW d \in destroyed' \ destroyed, d.by = "restore"
               PROVE  d.obj.ino > looked
    OBVIOUS
  <2>1. CASE RemoveMoved
    <3>1. d = [obj |-> staged, by |-> request.kind] /\ pc = "remove"
      BY <2>1 DEF RemoveMoved, Destroy, At
    <3>2. request.kind \in Kinds
      BY <3>1, RequestFields DEF Inv, RequestInv, TypeOK
    <3> QED
      BY <3>1, <3>2 DEF Kinds
  <2>2. CASE PutBack
    <3>1. d = [obj |-> path, by |-> "restore"] /\ path # None /\ pc = "putback"
      BY <2>2 DEF PutBack, Destroy, LeaveInWorkspace, At
    <3> QED
      BY <3>1 DEF Inv, RestoreInv
  <2> QED
    BY <2>1, <2>2, DestroyedBy
<1> QED
  BY StorageInvariant, <1>1, PTL DEF Spec, RestoreReplacesOnlyNewcomers

\* Publishing never replaces an archive of somebody else.
THEOREM ForeignArchivesSafe == Spec => ForeignArchivesKept
<1>1. Inv /\ [Next]_vars => [\A s \in 1 .. Slots : slots[s].state = "foreign" => slots'[s] = slots[s]]_vars
  <2> SUFFICES ASSUME Inv, [Next]_vars, NEW s \in 1 .. Slots, slots[s].state = "foreign"
               PROVE  slots'[s] = slots[s]
    OBVIOUS
  <2> USE DEF Inv, TypeOK
  <2>1. LinkArchive \/ OthersTakeName \/ UNCHANGED slots
    BY SlotsChange
  <2>2. CASE LinkArchive
    BY <2>2 DEF LinkArchive
  <2>3. CASE OthersTakeName
    BY <2>3 DEF OthersTakeName
  <2> QED
    BY <2>1, <2>2, <2>3
<1> QED
  BY StorageInvariant, <1>1, PTL DEF Spec, ForeignArchivesKept
=============================================================================
