----------------------------- MODULE StorageMap -----------------------------
(***************************************************************************)
(* The storage page of the dashboard (storage_map.go and the storage parts  *)
(* of storage_duplicates.go, main.go and dashboard_pages.go): the map of a  *)
(* directory, the cache of visited maps, the duplicate view, and the scans  *)
(* that run in goroutines and report through a channel of one update.      *)
(*                                                                         *)
(* Generations only tell whether a message is of the newest scan, so a     *)
(* scan's number is its generation and 0 stands for a generation that no   *)
(* scan has; a scan that has ended and been read gives its number back.    *)
(* outdated: Fleetty deleted an item of the map after it was made.          *)
(***************************************************************************)
EXTENDS Naturals, Sequences, SequencesExt

CONSTANTS
    Dirs,         \* the directories of the scan root
    Root,
    CacheLimit,   \* storageCacheLimit
    GroupCounts,  \* how many duplicate groups a search may find
    MaxScans      \* bound on the scans that exist at one time

VARIABLES
    page,        \* "storage" or another page; "gone" once the program quits
    path,        \* storage.Path
    result,      \* storage.Result
    scanning,    \* storage.Scanning
    current,     \* storage.Generation
    cancel,      \* storage.Cancel: the scan it cancels
    cache,       \* storage.Cache
    order,       \* storage.CacheOrder
    dup,         \* storage.DuplicateMode and storage.Duplicates
    confirming,  \* a delete or archive action is confirmed or running
    scans        \* the scans that run or whose updates are on their way

ui == <<page, path, result, scanning, current, cancel, cache, order, dup, confirming>>
vars == <<ui, scans>>

Ids == 1 .. MaxScans
\* storageScanResult. finished: FinishedAt is set; filled: it has entries.
Result(d, finished, filled) == [path |-> d, finished |-> finished, filled |-> filled, outdated |-> FALSE]
NoResult == Result("", FALSE, FALSE)
NoEntry == [result |-> NoResult, complete |-> FALSE, stored |-> FALSE]
NoDup == [mode |-> FALSE, current |-> 0, cancel |-> 0, scanning |-> FALSE, groups |-> 0, cursor |-> 0]
\* An update on its way: "none", "progress" or the scan's outcome.
NoUpdate == [kind |-> "none", filled |-> FALSE, groups |-> 0]
NoScan == [kind |-> "none", path |-> Root, cancelled |-> FALSE, state |-> "none",
           groups |-> 0, updates |-> NoUpdate, reader |-> "none", msg |-> NoUpdate]

Init ==
    /\ page = "other" /\ path = Root /\ result = NoResult /\ scanning = FALSE
    /\ current = 0 /\ cancel = 0
    /\ cache = [d \in Dirs |-> NoEntry] /\ order = <<>> /\ dup = NoDup /\ confirming = FALSE
    /\ scans = [i \in Ids |-> NoScan]
-----------------------------------------------------------------------------
(* The cache of maps. A cache is a pair of the map and its order of use. *)

Pair(c, o) == [map |-> c, order |-> o]

\* cacheResult: a partial map without entries is not worth keeping; the least recently used go.
cacheResult(k, r, complete) ==
    IF r.path = "" \/ (~complete /\ ~r.filled) THEN k
    ELSE LET ordered == Append(Remove(k.order, r.path), r.path)
             kept == IF Len(ordered) > CacheLimit THEN Tail(ordered) ELSE ordered
         IN Pair([d \in Dirs |->
                    CASE d = r.path -> [result |-> r, complete |-> complete, stored |-> TRUE]
                      [] d # r.path /\ d \notin Range(kept) -> NoEntry
                      [] OTHER -> k.map[d]], kept)

\* cacheCurrentResult: what is on the screen, with the time it was finished; a complete map that is
\* cached already keeps its entry.
cacheCurrentResult ==
    LET k == Pair(cache, order)
        complete == result.finished /\ ~scanning
    IN IF result.path = "" \/ (~complete /\ ~result.filled) THEN k
       ELSE IF complete /\ cache[result.path].complete THEN k
       ELSE cacheResult(k, result, complete)

\* cachedResult: a map that is used becomes the most recently used one.
cachedResult(k, d) == IF k.map[d].stored THEN Pair(k.map, Append(Remove(k.order, d), d)) ELSE k

\* invalidateMutation: the item is a child of storage.Path, so the maps of the directory and of
\* every directory above it go (in this instance all directories are above or below the item).
invalidateMutation == Pair([d \in Dirs |-> NoEntry], <<>>)
-----------------------------------------------------------------------------
(* Starting and cancelling scans. *)

Cancelled(table, i) == IF i = 0 THEN table ELSE [table EXCEPT ![i].cancelled = TRUE]
Unused == {i \in Ids : scans[i].state = "none" /\ \A j \in Ids : j < i => scans[j].state # "none"}
Started(kind, d) ==
    [NoScan EXCEPT !.kind = kind, !.path = d, !.state = "running", !.reader = "waiting"]

\* beginStorageScanMode(path, force), from the pair that cacheCurrentResult left.
beginStorageScanMode(d, force, k) ==
    LET used == cachedResult(k, d)
        entry == used.map[d]
    IN /\ cache' = used.map /\ order' = used.order
       /\ path' = d
       /\ \/ /\ entry.stored /\ entry.complete /\ ~force
             /\ result' = entry.result /\ scanning' = FALSE
             /\ current' = 0 /\ cancel' = 0
             /\ scans' = Cancelled(scans, cancel)
          \/ \* force, no complete map, or storageCacheTTL has passed since it was stored
             /\ result' = IF entry.stored THEN entry.result ELSE NoResult
             /\ scanning' = TRUE
             /\ \E i \in Unused :
                 /\ current' = i /\ cancel' = i
                 /\ scans' = [Cancelled(scans, cancel) EXCEPT ![i] = Started("map", d)]

beginStorageScan(d) == beginStorageScanMode(d, FALSE, cacheCurrentResult)

\* The map's scan ends without a successor (another page, the duplicate view, a confirmation).
StopMapScan == current' = 0 /\ cancel' = 0 /\ scanning' = FALSE

OnMap == page = "storage" /\ ~dup.mode /\ ~confirming

\* enter or a click on a directory of the map, left, backspace, home (storageOpenSelected,
\* storageNavigateParent, storageNavigateRoot): all end in beginStorageScan of a directory.
Navigate ==
    /\ OnMap
    /\ \E d \in Dirs :
        /\ d = Root \/ result.filled
        /\ ~(d = Root /\ path = Root /\ ~scanning)
        /\ beginStorageScan(d)
    /\ UNCHANGED <<page, dup, confirming>>

\* r on the map.
refreshStorageScan ==
    /\ OnMap
    /\ beginStorageScanMode(path, TRUE, cacheCurrentResult)
    /\ UNCHANGED <<page, dup, confirming>>

\* switchMonitorPage to the storage page: a map that was never finished is scanned.
EnterPage ==
    /\ page = "other" /\ page' = "storage"
    /\ IF ~scanning /\ ~result.finished
       THEN beginStorageScan(path)
       ELSE UNCHANGED <<path, result, scanning, current, cancel, cache, order, scans>>
    /\ UNCHANGED <<dup, confirming>>

\* switchMonitorPage away from it stops the scans.
LeavePage ==
    /\ page = "storage" /\ ~confirming /\ page' = "other"
    /\ IF scanning
       THEN /\ cache' = cacheCurrentResult.map /\ order' = cacheCurrentResult.order
            /\ StopMapScan
       ELSE UNCHANGED <<cache, order, current, cancel, scanning>>
    /\ scans' = LET table == IF scanning THEN Cancelled(scans, cancel) ELSE scans
                IN IF dup.mode THEN Cancelled(table, dup.cancel) ELSE table
    /\ dup' = NoDup
    /\ UNCHANGED <<path, result, confirming>>

-----------------------------------------------------------------------------
(* The duplicate view. *)

\* u on the map, or r in the view (beginStorageDuplicateScan).
beginStorageDuplicateScan ==
    /\ page = "storage" /\ ~confirming
    /\ \E i \in Unused :
        /\ scans' = [Cancelled(Cancelled(scans, cancel), dup.cancel) EXCEPT
                        ![i] = Started("dup", path)]
        /\ dup' = [NoDup EXCEPT !.mode = TRUE, !.current = i, !.cancel = i, !.scanning = TRUE]
    /\ StopMapScan
    /\ UNCHANGED <<page, path, result, cache, order, confirming>>

\* u, left, esc, q or backspace in the view.
leaveStorageDuplicates ==
    /\ page = "storage" /\ dup.mode
    /\ scans' = Cancelled(scans, dup.cancel)
    /\ dup' = NoDup
    /\ UNCHANGED <<page, path, result, scanning, current, cancel, cache, order, confirming>>

\* up, down, pgup, pgdown, home and clicks (moveStorageDuplicateSelection, handleStorageDuplicateClick).
moveStorageDuplicateSelection ==
    /\ page = "storage" /\ dup.mode /\ dup.groups > 0
    /\ \E c \in 0 .. dup.groups - 1 : dup' = [dup EXCEPT !.cursor = c]
    /\ UNCHANGED <<page, path, result, scanning, current, cancel, cache, order, confirming, scans>>
-----------------------------------------------------------------------------
(* Storage actions: what they do to the map. *)

\* prepareStorageAction: the scan stops while the user confirms.
prepareStorageAction ==
    /\ OnMap /\ result.filled
    /\ confirming' = TRUE
    /\ IF scanning
       THEN /\ cache' = cacheCurrentResult.map /\ order' = cacheCurrentResult.order
            /\ StopMapScan /\ scans' = Cancelled(scans, cancel)
       ELSE UNCHANGED <<cache, order, current, cancel, scanning, scans>>
    /\ UNCHANGED <<page, path, result, dup>>

\* cancelStorageAction.
cancelStorageAction ==
    /\ confirming /\ confirming' = FALSE
    /\ UNCHANGED <<page, path, result, scanning, current, cancel, cache, order, dup, scans>>

\* applyStorageActionResult: the related maps are dropped from the cache, then the directory is
\* scanned again; beginStorageScanMode first stores the map on the screen.
applyStorageActionResult ==
    /\ confirming /\ confirming' = FALSE
    /\ LET shown == [result EXCEPT !.outdated = TRUE]
           complete == shown.finished /\ ~scanning
           stored == cacheResult(invalidateMutation, shown, complete)
       IN beginStorageScanMode(path, TRUE, stored)
    /\ UNCHANGED <<page, dup>>
-----------------------------------------------------------------------------
(* Scan goroutines and their readers. *)

\* A scan replaces the pending update by the newest one (publishStorageScanUpdate,
\* publishStorageDuplicateUpdate); what nobody will read is left out of the state.
Sent(i, update) == IF scans[i].reader = "gone" THEN NoUpdate ELSE update

Publish(i) ==
    /\ scans[i].state = "running"
    /\ \E filled \in IF scans[i].kind = "map" THEN BOOLEAN ELSE {TRUE} :
        scans' = [scans EXCEPT ![i].updates = Sent(i, [kind |-> "progress", filled |-> filled, groups |-> 0])]
    /\ UNCHANGED ui

\* A search that was not cancelled ends by publishing the groups it found.
PublishGroups(i) ==
    /\ scans[i].state = "running" /\ scans[i].kind = "dup" /\ ~scans[i].cancelled
    /\ \E g \in GroupCounts :
        scans' = [scans EXCEPT ![i].state = "found", ![i].groups = g,
                     ![i].updates = Sent(i, [kind |-> "progress", filled |-> TRUE, groups |-> g])]
    /\ UNCHANGED ui

\* The scan ends: its outcome replaces a pending progress update, and the channel is closed. A scan
\* that was cancelled at its very end may still succeed.
EndScan(i) ==
    /\ scans[i].state \in {"running", "found"}
    /\ \E outcome \in {"ok", "failed", "canceled"} :
        /\ outcome = "ok" => scans[i].kind = "map" \/ scans[i].state = "found"
        /\ outcome = "canceled" => scans[i].cancelled
        /\ outcome # "ok" => scans[i].state = "running"
        /\ scans' = [scans EXCEPT ![i] =
                        IF @.reader = "gone" THEN NoScan
                        ELSE [@ EXCEPT !.state = "done",
                                       !.updates = [kind |-> outcome, filled |-> TRUE, groups |-> scans[i].groups]]]
    /\ UNCHANGED ui

\* waitForStorageScanUpdate, waitForStorageDuplicateUpdate: the command takes the update and returns
\* it as a message.
TakeUpdate(i) ==
    /\ scans[i].reader = "waiting" /\ scans[i].updates # NoUpdate
    /\ scans' = [scans EXCEPT ![i].reader = "message", ![i].msg = scans[i].updates, ![i].updates = NoUpdate]
    /\ UNCHANGED ui

Arrived(i, kind) == scans[i].reader = "message" /\ scans[i].kind = kind 
Read(i, again) ==
    scans' = [scans EXCEPT ![i] =
                IF again THEN [@ EXCEPT !.reader = "waiting", !.msg = NoUpdate]
                ELSE IF @.state = "done" THEN NoScan
                ELSE [@ EXCEPT !.reader = "gone", !.msg = NoUpdate, !.updates = NoUpdate]]

\* Mutant: progress of a scan that is no longer the newest is applied.
applyAnyProgress(i) ==
    /\ Arrived(i, "map") /\ scans[i].msg.kind = "progress"
    /\ result' = Result(scans[i].path, FALSE, scans[i].msg.filled)
    /\ Read(i, TRUE)
    /\ UNCHANGED <<page, path, scanning, current, cancel, cache, order, dup, confirming>>

\* Mutant: nobody waits for the update after the first.
applyProgressOnce(i) ==
    /\ Arrived(i, "map") /\ scans[i].msg.kind = "progress"
    /\ result' = IF i = current THEN Result(scans[i].path, FALSE, scans[i].msg.filled) ELSE result
    /\ Read(i, FALSE)
    /\ UNCHANGED <<page, path, scanning, current, cancel, cache, order, dup, confirming>>

\* applyStorageScanProgress, and Update's next wait.
applyStorageScanProgress(i) ==
    /\ Arrived(i, "map") /\ scans[i].msg.kind = "progress"
    /\ LET r == Result(scans[i].path, FALSE, scans[i].msg.filled)
           k == cacheResult(Pair(cache, order), r, FALSE)
       IN IF i = current /\ scanning
          THEN /\ result' = r
               /\ cache' = k.map /\ order' = k.order /\ Read(i, TRUE)
          ELSE Read(i, FALSE) /\ UNCHANGED <<result, cache, order>>
    /\ UNCHANGED <<page, path, scanning, current, cancel, dup, confirming>>

\* applyStorageScanResult: a failed refresh keeps the map that is shown.
applyStorageScanResult(i) ==
    /\ Arrived(i, "map") /\ scans[i].msg.kind # "progress"
    /\ Read(i, FALSE)
    /\ LET r == Result(scans[i].path, TRUE, scans[i].msg.filled)
           k == cacheResult(Pair(cache, order), r, TRUE)
       IN IF i = current
          THEN /\ cancel' = 0 /\ scanning' = FALSE
               /\ IF scans[i].msg.kind = "ok"
                  THEN result' = r /\ cache' = k.map /\ order' = k.order
                  ELSE UNCHANGED <<result, cache, order>>
          ELSE UNCHANGED <<cancel, scanning, result, cache, order>>
    /\ UNCHANGED <<page, path, current, dup, confirming>>

\* applyStorageDuplicateProgress.
applyStorageDuplicateProgress(i) ==
    /\ Arrived(i, "dup") /\ scans[i].msg.kind = "progress"
    /\ LET ours == dup.mode /\ i = dup.current /\ dup.scanning
       IN /\ dup' = IF ours THEN [dup EXCEPT !.groups = scans[i].msg.groups] ELSE dup
          /\ Read(i, ours)
    /\ UNCHANGED <<page, path, result, scanning, current, cancel, cache, order, confirming>>

\* applyStorageDuplicateResult: the cursor is clamped to the groups found.
applyStorageDuplicateResult(i) ==
    /\ Arrived(i, "dup") /\ scans[i].msg.kind # "progress"
    /\ Read(i, FALSE)
    /\ LET ended == [dup EXCEPT !.cancel = 0, !.scanning = FALSE]
           g == scans[i].msg.groups
       IN dup' = CASE ~(dup.mode /\ i = dup.current) -> dup
                   [] scans[i].msg.kind # "ok" -> ended
                   [] OTHER -> [ended EXCEPT !.groups = g,
                                             !.cursor = IF g = 0 THEN 0 ELSE IF @ < g THEN @ ELSE g - 1]
    /\ UNCHANGED <<page, path, result, scanning, current, cancel, cache, order, confirming>>

\* ctrl+c, or esc and q on the root's map or on another page: nothing is left of the program.
Quit ==
    /\ page # "gone" /\ page' = "gone"
    /\ path' = Root /\ result' = NoResult /\ scanning' = FALSE /\ current' = 0 /\ cancel' = 0
    /\ cache' = [d \in Dirs |-> NoEntry] /\ order' = <<>> /\ dup' = NoDup /\ confirming' = FALSE
    /\ scans' = [i \in Ids |-> NoScan]

ScanStep(i) ==
    \/ Publish(i) \/ PublishGroups(i) \/ EndScan(i) \/ TakeUpdate(i)
    \/ applyStorageScanProgress(i) \/ applyStorageScanResult(i)
    \/ applyStorageDuplicateProgress(i) \/ applyStorageDuplicateResult(i)

Next ==
    \/ Navigate \/ refreshStorageScan \/ EnterPage \/ LeavePage
    \/ beginStorageDuplicateScan \/ leaveStorageDuplicates \/ moveStorageDuplicateSelection
    \/ prepareStorageAction \/ cancelStorageAction \/ applyStorageActionResult
    \/ Quit
    \/ \E i \in Ids : ScanStep(i)

Spec == Init /\ [][Next]_vars
-----------------------------------------------------------------------------
(* Properties. *)

\* The map on the screen is of the directory it is labelled with, whatever messages of earlier
\* scans still arrive.
MapOfThisDirectory == result.path \in {"", path}

\* "SCANNING" never stays for ever: while the page waits for its newest scan, that scan still works or
\* has an update on its way, and there is a command or a message that will bring it.
NewestScanHeard ==
    LET Heard(i) == /\ i # 0 /\ scans[i].reader \in {"waiting", "message"}
                    /\ \/ scans[i].state \in {"running", "found"}
                       \/ scans[i].updates.kind \in {"ok", "failed", "canceled"}
                       \/ scans[i].msg.kind \in {"ok", "failed", "canceled"}
    IN (scanning => Heard(current)) /\ (dup.scanning => Heard(dup.current))

\* invalidateMutation leaves no complete map in the cache that still shows an item Fleetty deleted.
NoDeletedItemCached == \A d \in Dirs : ~(cache[d].complete /\ cache[d].result.outdated)
=============================================================================
