-------------------------- MODULE StoragePageProofs --------------------------
(***************************************************************************)
(* Proofs about MCStoragePage. StorageMap: for any directories, any size of *)
(* the cache and any number of scans whose updates are still on their way,  *)
(* the map on the screen is of the directory the page shows, and the scan   *)
(* the page waits for will be heard. StorageScanner: for any trees and any  *)
(* number of workers, a scan counts what du would.                         *)
(***************************************************************************)
EXTENDS MCStoragePage, FiniteSetTheorems, TLAPS

Outcomes == {"ok", "failed", "canceled"}
Numbers == Page!Ids \cup {0}
Results == [path : Dirs \cup {""}, finished : BOOLEAN, filled : BOOLEAN, outdated : BOOLEAN]
Entries == [result : Results, complete : BOOLEAN, stored : BOOLEAN]
Updates == [kind : {"none", "progress"} \cup Outcomes, filled : BOOLEAN, groups : Nat]
Scans == [kind : {"none", "map", "dup"}, path : Dirs, cancelled : BOOLEAN,
          state : {"none", "running", "found", "done"}, groups : Nat, updates : Updates,
          reader : {"none", "waiting", "message", "gone"}, msg : Updates]
Views == {v \in [mode : BOOLEAN, current : Numbers, cancel : Numbers, scanning : BOOLEAN, groups : Nat, cursor : Nat] :
             v.scanning => v.mode}

\* A map that is stored is stored under its own directory.
GoodMaps(m) == m \in [Dirs -> Entries] /\ \A d \in Dirs : m[d].stored => m[d].result.path = d

PageTypes ==
    /\ path \in Dirs /\ result \in Results /\ scanning \in BOOLEAN
    /\ current \in Numbers /\ cancel \in Numbers /\ dup \in Views
    /\ GoodMaps(cache)

\* A scan with a reader has not given its number back, and who waits has no message yet.
ScanOK(s) == (s.state = "none" => s.reader = "none") /\ (s.reader = "waiting" => s.msg = Page!NoUpdate)
ScanTypes == scans \in [Page!Ids -> Scans] /\ \A i \in Page!Ids : ScanOK(scans[i])

\* What may still be shown is of this directory: the map on the screen, and the updates of the scan with
\* the current generation.
ShownInv ==
    /\ Page!MapOfThisDirectory
    /\ current # 0 /\ scans[current].kind = "map" => scans[current].path = path

\* A scan has something to say, and somebody listens.
Heard(table, i) ==
    /\ i # 0 /\ table[i].reader \in {"waiting", "message"}
    /\ \/ table[i].state \in {"running", "found"}
       \/ table[i].updates.kind \in Outcomes
       \/ table[i].msg.kind \in Outcomes

\* The two scans the page waits for are of their kinds and will be heard.
WaitInv ==
    /\ scanning => Heard(scans, current) /\ scans[current].kind = "map"
    /\ dup.scanning => Heard(scans, dup.current) /\ scans[dup.current].kind = "dup"

MapInv == PageTypes /\ ScanTypes /\ ShownInv /\ WaitInv
-----------------------------------------------------------------------------
(* The cache. *)

\* cacheResult stores a map under its own directory and drops others.
LEMMA CacheResultGood ==
    ASSUME NEW k, NEW r \in Results, NEW complete \in BOOLEAN, GoodMaps(k.map)
    PROVE  GoodMaps(Page!cacheResult(k, r, complete).map)
<1>1. CASE r.path = "" \/ (~complete /\ ~r.filled)
  <2>1. Page!cacheResult(k, r, complete) = k
    BY <1>1, Zenon DEF Page!cacheResult
  <2>. QED
    BY <2>1
<1>2. CASE ~(r.path = "" \/ (~complete /\ ~r.filled))
  <2> DEFINE ordered == Append(Page!Remove(k.order, r.path), r.path)
             kept == IF Len(ordered) > CacheLimit THEN Tail(ordered) ELSE ordered
             new == [d \in Dirs |-> CASE d = r.path -> [result |-> r, complete |-> complete, stored |-> TRUE]
                                      [] d # r.path /\ d \notin Page!Range(kept) -> Page!NoEntry
                                      [] OTHER -> k.map[d]]
  <2>1. Page!cacheResult(k, r, complete) = Page!Pair(new, kept)
    BY <1>2, Zenon DEF Page!cacheResult
  <2>2. Page!cacheResult(k, r, complete).map = new
    BY <2>1 DEF Page!Pair
  <2> HIDE DEF kept
  <2>3. Page!NoEntry \in Entries /\ ~Page!NoEntry.stored
    BY DEF Page!NoEntry, Page!NoResult, Page!Result, Entries, Results
  <2>4. ASSUME NEW d \in Dirs PROVE new[d] \in Entries /\ (new[d].stored => new[d].result.path = d)
    <3>1. CASE d = r.path
      <4> DEFINE e == [result |-> r, complete |-> complete, stored |-> TRUE]
      <4>1. new[d] = CASE d = r.path -> e [] d # r.path /\ d \notin Page!Range(kept) -> Page!NoEntry [] OTHER -> k.map[d]
        OBVIOUS
      <4>2. e \in Entries /\ e.result = r
        BY DEF Entries
      <4> HIDE DEF e, new
      <4>3. new[d] = e
        BY <3>1, <4>1, Zenon
      <4>. QED
        BY <3>1, <4>2, <4>3
    <3>2. CASE d # r.path /\ d \notin Page!Range(kept)
      BY <3>2, <2>3
    <3>3. CASE d # r.path /\ d \in Page!Range(kept)
      BY <3>3 DEF GoodMaps
    <3>. QED
      BY <3>1, <3>2, <3>3
  <2>5. new \in [Dirs -> Entries]
    BY <2>4
  <2> HIDE DEF new
  <2>. QED
    BY <2>2, <2>4, <2>5 DEF GoodMaps
<1>. QED
  BY <1>1, <1>2

\* cacheCurrentResult.
LEMMA CacheCurrentGood == PageTypes => GoodMaps(Page!cacheCurrentResult.map)
<1> SUFFICES ASSUME PageTypes PROVE GoodMaps(Page!cacheCurrentResult.map)
  OBVIOUS
<1> DEFINE complete == result.finished /\ ~scanning
<1>1. Page!Pair(cache, order).map = cache
  BY DEF Page!Pair
<1>2. complete \in BOOLEAN
  OBVIOUS
<1>3. GoodMaps(Page!cacheResult(Page!Pair(cache, order), result, complete).map)
  BY <1>1, <1>2, CacheResultGood DEF PageTypes
<1>4. Page!cacheCurrentResult \in {Page!Pair(cache, order), Page!cacheResult(Page!Pair(cache, order), result, complete)}
  BY Zenon DEF Page!cacheCurrentResult
<1>. QED
  BY <1>1, <1>3, <1>4 DEF PageTypes

\* cachedResult only changes the order of use.
LEMMA CachedMaps == ASSUME NEW k, NEW d PROVE Page!cachedResult(k, d).map = k.map
  BY DEF Page!cachedResult, Page!Pair
-----------------------------------------------------------------------------
(* Starting and cancelling scans. *)

\* Tables that differ only in who is cancelled.
Same(new, old) ==
    \A j \in Page!Ids : /\ new[j].kind = old[j].kind /\ new[j].path = old[j].path
                   /\ new[j].state = old[j].state /\ new[j].reader = old[j].reader
                   /\ new[j].updates = old[j].updates /\ new[j].msg = old[j].msg

LEMMA CancelKeeps ==
    ASSUME NEW table \in [Page!Ids -> Scans], NEW i \in Numbers
    PROVE  Page!Cancelled(table, i) \in [Page!Ids -> Scans] /\ Same(Page!Cancelled(table, i), table)
<1>1. CASE i = 0
  BY <1>1 DEF Page!Cancelled, Same
<1>2. CASE i \in Page!Ids
  <2> DEFINE new == [table EXCEPT ![i].cancelled = TRUE]
  <2>1. \A j \in Page!Ids : new[j] = IF j = i THEN [table[i] EXCEPT !.cancelled = TRUE] ELSE table[j]
    BY <1>2
  <2>2. [table[i] EXCEPT !.cancelled = TRUE] \in Scans
    BY <1>2 DEF Scans
  <2>3. new \in [Page!Ids -> Scans]
    BY <1>2, <2>1, <2>2
  <2>4. Page!Cancelled(table, i) = new
    BY <1>2 DEF Page!Cancelled, Page!Ids
  <2>5. table[i] \in Scans
    BY <1>2
  <2>6. Same(new, table)
    BY <2>1, <2>5 DEF Same, Scans
  <2>. QED
    BY <2>3, <2>4, <2>6
<1>. QED
  BY <1>1, <1>2 DEF Numbers

\* What is true of the scans does not depend on who is cancelled.
LEMMA SameKeeps ==
    ASSUME NEW new \in [Page!Ids -> Scans], NEW old \in [Page!Ids -> Scans], Same(new, old), NEW i \in Page!Ids
    PROVE  /\ ScanOK(new[i]) <=> ScanOK(old[i])
           /\ Heard(new, i) <=> Heard(old, i)
           /\ new[i].kind = old[i].kind /\ new[i].path = old[i].path
  BY DEF Same, Heard, ScanOK

\* A scan that starts is not one that will be heard already.
LEMMA StartKeeps ==
    ASSUME ScanTypes, Sane, NEW table \in [Page!Ids -> Scans], Same(table, scans),
           NEW i \in Page!Unused, NEW kind \in {"map", "dup"}, NEW d \in Dirs,
           scans' = [table EXCEPT ![i] = Page!Started(kind, d)]
    PROVE  /\ ScanTypes' /\ i \in Page!Ids /\ i # 0
           /\ scans'[i].kind = kind /\ scans'[i].path = d /\ Heard(scans', i)
           /\ \A j \in Numbers : Heard(scans, j) => Heard(scans', j) /\ scans'[j].kind = scans[j].kind
<1>1. i \in Page!Ids /\ scans[i].state = "none"
  BY DEF Page!Unused
<1> i # 0
  BY <1>1 DEF Page!Ids, Sane
<1>2. Page!NoUpdate \in Updates
  BY DEF Page!NoUpdate, Updates
<1>3. Page!Started(kind, d).kind = kind /\ Page!Started(kind, d).path = d /\ Page!Started(kind, d).state = "running"
      /\ Page!Started(kind, d).reader = "waiting" /\ Page!Started(kind, d).msg = Page!NoUpdate
  BY DEF Page!Started, Page!NoScan
<1>4. Page!Started(kind, d) \in Scans
  <2>1. Page!NoScan \in Scans
    BY <1>2 DEF Page!NoScan, Scans, Sane
  <2>. QED
    BY <2>1 DEF Page!Started, Scans
<1>5. scans' \in [Page!Ids -> Scans] /\ \A j \in Page!Ids : scans'[j] = IF j = i THEN Page!Started(kind, d) ELSE table[j]
  BY <1>1, <1>4
<1>6. ScanTypes'
  <2>1. ASSUME NEW j \in Page!Ids PROVE ScanOK(scans'[j])
    BY <1>3, <1>5, SameKeeps DEF ScanTypes, ScanOK
  <2>. QED
    BY <1>5, <2>1 DEF ScanTypes
<1>7. scans'[i].kind = kind /\ scans'[i].path = d /\ Heard(scans', i)
  BY <1>1, <1>3, <1>5 DEF Heard
<1>8. ASSUME NEW j \in Numbers, Heard(scans, j) PROVE Heard(scans', j) /\ scans'[j].kind = scans[j].kind
  <2>1. j \in Page!Ids /\ j # i
    BY <1>1, <1>8 DEF Numbers, Heard, ScanTypes, ScanOK
  <2>2. scans'[j] = table[j]
    BY <1>5, <2>1
  <2>3. Heard(table, j) /\ table[j].kind = scans[j].kind
    BY <1>8, <2>1, SameKeeps DEF Same, ScanTypes
  <2>. QED
    BY <2>2, <2>3 DEF Heard
<1>. QED
  BY <1>1, <1>6, <1>7, <1>8

\* beginStorageScanMode shows a stored map of the new directory or waits for a scan of it.
LEMMA BeginKeeps ==
    ASSUME MapInv, Sane, NEW d \in Dirs, NEW force \in BOOLEAN, NEW k, GoodMaps(k.map),
           Page!beginStorageScanMode(d, force, k), UNCHANGED dup
    PROVE  MapInv'
<1> DEFINE known == k.map[d]
           table == Page!Cancelled(scans, cancel)
<1>1. Page!cachedResult(k, d).map = k.map
  BY CachedMaps
<1>2. GoodMaps(cache') /\ path' = d
  BY <1>1, Zenon DEF Page!beginStorageScanMode
<1>3. known \in Entries /\ (known.stored => known.result.path = d)
  BY DEF GoodMaps
<1>4. table \in [Page!Ids -> Scans] /\ Same(table, scans)
  BY CancelKeeps DEF MapInv, PageTypes, ScanTypes
<1>5. dup.scanning => dup.current \in Page!Ids /\ Heard(scans, dup.current) /\ scans[dup.current].kind = "dup"
  BY DEF MapInv, WaitInv, PageTypes, Views, Numbers, Heard
<1>6. CASE result' = known.result /\ known.stored /\ scanning' = FALSE /\ current' = 0 /\ cancel' = 0 /\ scans' = table
  <2>1. PageTypes'
    BY <1>2, <1>3, <1>6 DEF MapInv, PageTypes, Entries, Numbers
  <2>2. ScanTypes'
    BY <1>4, <1>6, SameKeeps DEF MapInv, ScanTypes
  <2>3. ShownInv'
    BY <1>2, <1>3, <1>6 DEF ShownInv, Page!MapOfThisDirectory
  <2>4. WaitInv'
    BY <1>4, <1>5, <1>6, SameKeeps DEF WaitInv, MapInv, ScanTypes
  <2>. QED
    BY <2>1, <2>2, <2>3, <2>4 DEF MapInv
<1>7. ASSUME result' = IF known.stored THEN known.result ELSE Page!NoResult, scanning' = TRUE,
             NEW i \in Page!Unused, current' = i, cancel' = i, scans' = [table EXCEPT ![i] = Page!Started("map", d)]
      PROVE  MapInv'
  <2>1. /\ ScanTypes' /\ i \in Page!Ids /\ i # 0
        /\ scans'[i].kind = "map" /\ scans'[i].path = d /\ Heard(scans', i)
        /\ \A j \in Numbers : Heard(scans, j) => Heard(scans', j) /\ scans'[j].kind = scans[j].kind
    BY <1>4, <1>7, StartKeeps DEF MapInv
  <2>2. result' \in Results /\ result'.path \in {"", d}
    BY <1>3, <1>7 DEF Entries, Page!NoResult, Page!Result, Results
  <2>3. PageTypes'
    BY <1>2, <1>7, <2>1, <2>2 DEF MapInv, PageTypes, Numbers
  <2>4. ShownInv'
    BY <1>2, <1>7, <2>1, <2>2 DEF ShownInv, Page!MapOfThisDirectory
  <2>5. WaitInv'
    BY <1>5, <1>7, <2>1 DEF WaitInv, Numbers
  <2>. QED
    BY <2>1, <2>3, <2>4, <2>5 DEF MapInv
<1>. QED
  BY <1>1, <1>6, <1>7 DEF Page!beginStorageScanMode

\* beginStorageScan, and the forced one, of a directory that is known.
LEMMA ShownBegins ==
    ASSUME MapInv, Sane, NEW d \in Dirs, NEW force \in BOOLEAN,
           Page!beginStorageScanMode(d, force, Page!cacheCurrentResult), UNCHANGED dup
    PROVE  MapInv'
<1>1. GoodMaps(Page!cacheCurrentResult.map)
  BY CacheCurrentGood DEF MapInv
<1>. QED
  BY <1>1, BeginKeeps

\* The map's scan ends, or nothing changes, and the duplicate view stays or closes.
LEMMA StopKeeps ==
    ASSUME MapInv, UNCHANGED <<path, result>>, GoodMaps(cache'),
           scans' \in [Page!Ids -> Scans], Same(scans', scans),
           Page!StopMapScan \/ UNCHANGED <<current, cancel, scanning>>, dup' \in Views,
           dup'.scanning => dup.scanning /\ dup'.current = dup.current
    PROVE  MapInv'
<1>1. PageTypes'
  BY DEF MapInv, PageTypes, Page!StopMapScan, Numbers
<1>2. ScanTypes'
  BY SameKeeps DEF MapInv, ScanTypes
<1>3. \A j \in Numbers : Heard(scans, j) => Heard(scans', j) /\ scans'[j].kind = scans[j].kind
  BY SameKeeps DEF Numbers, Heard, MapInv, ScanTypes
<1>4. ShownInv'
  <2>1. CASE Page!StopMapScan
    BY <2>1 DEF MapInv, ShownInv, Page!MapOfThisDirectory, Page!StopMapScan
  <2>2. CASE UNCHANGED <<current, cancel, scanning>>
    BY <2>2 DEF MapInv, ShownInv, Page!MapOfThisDirectory, Same, PageTypes, Numbers
  <2>. QED
    BY <2>1, <2>2
<1>5. WaitInv'
  BY <1>3 DEF MapInv, WaitInv, Page!StopMapScan, PageTypes, Views
<1>. QED
  BY <1>1, <1>2, <1>4, <1>5 DEF MapInv
-----------------------------------------------------------------------------
(* What the user does. *)

LEMMA NavigateKeeps == ASSUME MapInv, Sane, Page!Navigate \/ Page!refreshStorageScan PROVE MapInv'
<1>1. PICK d \in Dirs, force \in BOOLEAN : Page!beginStorageScanMode(d, force, Page!cacheCurrentResult)
  BY DEF Page!Navigate, Page!refreshStorageScan, Page!beginStorageScan, MapInv, PageTypes
<1>2. UNCHANGED dup
  BY DEF Page!Navigate, Page!refreshStorageScan
<1>. QED
  BY <1>1, <1>2, ShownBegins

LEMMA EnterKeeps == ASSUME MapInv, Sane, Page!EnterPage PROVE MapInv'
<1>1. CASE ~scanning /\ ~result.finished
  BY <1>1, ShownBegins DEF Page!EnterPage, Page!beginStorageScan, MapInv, PageTypes
<1>2. CASE ~(~scanning /\ ~result.finished)
  <2>1. UNCHANGED <<path, result, scanning, current, cancel, cache, scans, dup>>
    BY <1>2 DEF Page!EnterPage
  <2>. QED
    BY <2>1 DEF MapInv, PageTypes, ScanTypes, ShownInv, Page!MapOfThisDirectory, WaitInv
<1>. QED
  BY <1>1, <1>2

LEMMA LeaveKeeps == ASSUME MapInv, Page!LeavePage PROVE MapInv'
<1> DEFINE table == IF scanning THEN Page!Cancelled(scans, cancel) ELSE scans
<1>1. table \in [Page!Ids -> Scans] /\ Same(table, scans)
  BY CancelKeeps DEF MapInv, PageTypes, ScanTypes, Same
<1>2. dup.cancel \in Numbers
  BY DEF MapInv, PageTypes, Views
<1> HIDE DEF table
<1>3. scans' = IF dup.mode THEN Page!Cancelled(table, dup.cancel) ELSE table
  BY DEF Page!LeavePage, table
<1>4. scans' \in [Page!Ids -> Scans] /\ Same(scans', table)
  BY <1>1, <1>2, <1>3, CancelKeeps DEF Same
<1>5. Same(scans', scans)
  BY <1>1, <1>4 DEF Same
<1>6. dup' \in Views /\ ~dup'.scanning
  BY DEF Page!LeavePage, Page!NoDup, Views, Numbers
<1>7. GoodMaps(cache')
  BY CacheCurrentGood DEF Page!LeavePage, MapInv, PageTypes
<1>8. Page!StopMapScan \/ UNCHANGED <<current, cancel, scanning>>
  BY DEF Page!LeavePage
<1>9. UNCHANGED <<path, result>>
  BY DEF Page!LeavePage
<1>. QED
  BY <1>4, <1>5, <1>6, <1>7, <1>8, <1>9, StopKeeps

LEMMA DuplicatesKeep == ASSUME MapInv, Sane, Page!beginStorageDuplicateScan PROVE MapInv'
<1> DEFINE table == Page!Cancelled(Page!Cancelled(scans, cancel), dup.cancel)
<1>1. table \in [Page!Ids -> Scans] /\ Same(table, scans)
  BY CancelKeeps DEF MapInv, PageTypes, ScanTypes, Same, Views
<1>2. path \in Dirs
  BY DEF MapInv, PageTypes
<1>3. PICK i \in Page!Unused : /\ scans' = [table EXCEPT ![i] = Page!Started("dup", path)]
                          /\ dup' = [Page!NoDup EXCEPT !.mode = TRUE, !.current = i, !.cancel = i, !.scanning = TRUE]
  BY Zenon DEF Page!beginStorageDuplicateScan
<1> HIDE DEF table
<1>4. /\ ScanTypes' /\ i \in Page!Ids /\ i # 0 /\ scans'[i].kind = "dup" /\ Heard(scans', i)
  BY <1>1, <1>2, <1>3, StartKeeps DEF MapInv
<1>5. dup' \in Views /\ dup'.current = i
  BY <1>3, <1>4 DEF Page!NoDup, Views, Numbers
<1>6. Page!StopMapScan /\ UNCHANGED <<path, result, cache>>
  BY DEF Page!beginStorageDuplicateScan
<1>7. PageTypes'
  BY <1>5, <1>6 DEF MapInv, PageTypes, Page!StopMapScan, Numbers
<1>8. ShownInv' /\ WaitInv'
  BY <1>4, <1>5, <1>6 DEF MapInv, ShownInv, Page!MapOfThisDirectory, WaitInv, Page!StopMapScan
<1>. QED
  BY <1>4, <1>7, <1>8 DEF MapInv

LEMMA ViewKeeps == ASSUME MapInv, Page!leaveStorageDuplicates \/ Page!moveStorageDuplicateSelection PROVE MapInv'
<1>1. UNCHANGED <<path, result, scanning, current, cancel, cache>>
  BY DEF Page!leaveStorageDuplicates, Page!moveStorageDuplicateSelection
<1>2. CASE Page!leaveStorageDuplicates
  <2>1. dup' \in Views /\ ~dup'.scanning
    BY <1>2 DEF Page!leaveStorageDuplicates, Page!NoDup, Views, Numbers
  <2>2. scans' \in [Page!Ids -> Scans] /\ Same(scans', scans)
    BY <1>2, CancelKeeps DEF Page!leaveStorageDuplicates, MapInv, PageTypes, Views, ScanTypes
  <2>. QED
    BY <1>1, <2>1, <2>2, StopKeeps DEF MapInv, PageTypes
<1>3. CASE Page!moveStorageDuplicateSelection
  <2>1. PICK c \in 0 .. dup.groups - 1 : dup' = [dup EXCEPT !.cursor = c]
    BY <1>3 DEF Page!moveStorageDuplicateSelection
  <2>2. c \in Nat
    BY <2>1 DEF MapInv, PageTypes, Views
  <2>3. dup' \in Views /\ dup'.scanning = dup.scanning /\ dup'.current = dup.current
    BY <2>1, <2>2 DEF MapInv, PageTypes, Views
  <2>4. scans' \in [Page!Ids -> Scans] /\ Same(scans', scans)
    BY <1>3 DEF Page!moveStorageDuplicateSelection, MapInv, ScanTypes, Same
  <2>. QED
    BY <1>1, <2>3, <2>4, StopKeeps DEF MapInv, PageTypes
<1>. QED
  BY <1>2, <1>3

LEMMA ConfirmKeeps == ASSUME MapInv, Page!prepareStorageAction \/ Page!cancelStorageAction PROVE MapInv'
<1>1. UNCHANGED <<path, result, dup>>
  BY DEF Page!prepareStorageAction, Page!cancelStorageAction
<1>2. GoodMaps(cache')
  BY CacheCurrentGood DEF Page!prepareStorageAction, Page!cancelStorageAction, MapInv, PageTypes
<1>3. scans' \in [Page!Ids -> Scans] /\ Same(scans', scans)
  BY CancelKeeps DEF Page!prepareStorageAction, Page!cancelStorageAction, MapInv, PageTypes, ScanTypes, Same
<1>4. Page!StopMapScan \/ UNCHANGED <<current, cancel, scanning>>
  BY DEF Page!prepareStorageAction, Page!cancelStorageAction
<1>5. dup' \in Views
  BY <1>1 DEF MapInv, PageTypes
<1>. QED
  BY <1>1, <1>2, <1>3, <1>4, <1>5, StopKeeps

\* After an action the map on the screen is stored as outdated and the directory scanned again.
LEMMA ActionKeeps == ASSUME MapInv, Sane, Page!applyStorageActionResult PROVE MapInv'
<1> DEFINE shown == [result EXCEPT !.outdated = TRUE]
           complete == shown.finished /\ ~scanning
           stored == Page!cacheResult(Page!invalidateMutation, shown, complete)
<1>1. shown \in Results
  BY DEF MapInv, PageTypes, Results
<1>2. complete \in BOOLEAN
  OBVIOUS
<1>3. GoodMaps(Page!invalidateMutation.map)
  <2>1. Page!NoEntry \in Entries /\ ~Page!NoEntry.stored
    BY DEF Page!NoEntry, Page!NoResult, Page!Result, Entries, Results
  <2>2. Page!invalidateMutation.map = [d \in Dirs |-> Page!NoEntry]
    BY DEF Page!invalidateMutation, Page!Pair
  <2>. QED
    BY <2>1, <2>2 DEF GoodMaps
<1>4. Page!beginStorageScanMode(path, TRUE, stored) /\ UNCHANGED dup
  BY Zenon DEF Page!applyStorageActionResult
<1> HIDE DEF shown, complete
<1>5. GoodMaps(stored.map)
  BY <1>1, <1>2, <1>3, CacheResultGood
<1>6. path \in Dirs
  BY DEF MapInv, PageTypes
<1> HIDE DEF stored
<1>. QED
  BY <1>4, <1>5, <1>6, BeginKeeps

\* The beginning, and the end of the program.
Blank ==
    /\ path = Root /\ result = Page!NoResult /\ scanning = FALSE /\ current = 0 /\ cancel = 0
    /\ cache = [d \in Dirs |-> Page!NoEntry] /\ dup = Page!NoDup /\ scans = [i \in Page!Ids |-> Page!NoScan]

LEMMA BlankKeeps == Sane /\ Blank => MapInv
<1> SUFFICES ASSUME Sane, Blank PROVE MapInv
  OBVIOUS
<1> USE DEF Blank
<1>1. Page!NoEntry \in Entries /\ ~Page!NoEntry.stored /\ Page!NoResult \in Results /\ Page!NoResult.path = ""
  BY DEF Page!NoEntry, Page!NoResult, Page!Result, Entries, Results
<1>2. Page!NoDup \in Views /\ ~Page!NoDup.scanning
  BY DEF Page!NoDup, Views, Numbers
<1>3. Page!NoScan \in Scans /\ ScanOK(Page!NoScan) /\ Page!NoScan.reader = "none"
  BY DEF ScanOK, Page!NoScan, Page!NoUpdate, Scans, Updates, Sane
<1>4. PageTypes
  BY <1>1, <1>2 DEF PageTypes, GoodMaps, Sane, Numbers
<1>5. ScanTypes
  BY <1>3 DEF ScanTypes
<1>. QED
  BY <1>1, <1>2, <1>4, <1>5 DEF MapInv, ShownInv, Page!MapOfThisDirectory, WaitInv

LEMMA QuitKeeps == Sane /\ Page!Quit => MapInv'
<1>1. Page!Quit => Blank'
  BY DEF Page!Quit, Blank
<1>2. Sane => Sane'
  BY DEF Sane
<1>. QED
  BY <1>1, <1>2, BlankKeeps, PTL
-----------------------------------------------------------------------------
(* What the scans and their readers do. *)

\* Only one scan changes; what it has to say is not lost, or nobody waits for it any more.
LEMMA ScanMoves ==
    ASSUME MapInv, NEW i \in Page!Ids, NEW s \in Scans, scans' = [scans EXCEPT ![i] = s],
           ScanOK(s), s.kind = "map" => scans[i].kind = "map" /\ s.path = scans[i].path,
           UNCHANGED <<path, current>>, PageTypes', Page!MapOfThisDirectory',
           scanning' => scanning /\ (i = current => Heard(scans', i) /\ s.kind = scans[i].kind),
           dup'.scanning => dup.scanning /\ dup'.current = dup.current
                            /\ (i = dup.current => Heard(scans', i) /\ s.kind = scans[i].kind)
    PROVE  MapInv'
<1>1. scans' \in [Page!Ids -> Scans] /\ \A j \in Page!Ids : scans'[j] = IF j = i THEN s ELSE scans[j]
  BY DEF MapInv, ScanTypes
<1>2. ScanTypes'
  BY <1>1 DEF MapInv, ScanTypes
<1>3. ShownInv'
  BY <1>1 DEF MapInv, ShownInv, PageTypes, Numbers
<1>4. \A j \in Numbers : j # i /\ Heard(scans, j) => Heard(scans', j) /\ scans'[j].kind = scans[j].kind
  BY <1>1 DEF Heard, Numbers
<1>5. current \in Numbers /\ dup.current \in Numbers
  BY DEF MapInv, PageTypes, Views
<1>6. WaitInv'
  BY <1>1, <1>4, <1>5 DEF MapInv, WaitInv
<1>. QED
  BY <1>2, <1>3, <1>6 DEF MapInv

\* The goroutine of a scan, and the command that takes its update, leave the page alone.
LEMMA ScanWorks ==
    ASSUME MapInv, Sane, NEW i \in Page!Ids, Page!Publish(i) \/ Page!PublishGroups(i) \/ Page!EndScan(i) \/ Page!TakeUpdate(i)
    PROVE  MapInv'
<1>1. scans[i] \in Scans /\ ScanOK(scans[i]) /\ Page!NoUpdate \in Updates /\ Page!NoScan \in Scans
  BY DEF MapInv, ScanTypes, Page!NoScan, Page!NoUpdate, Scans, Updates, Sane
<1>2. UNCHANGED Page!ui
  BY DEF Page!Publish, Page!PublishGroups, Page!EndScan, Page!TakeUpdate
<1>3. PageTypes' /\ Page!MapOfThisDirectory' /\ UNCHANGED <<path, current, scanning, dup>>
  BY <1>2 DEF Page!ui, MapInv, PageTypes, ShownInv, Page!MapOfThisDirectory
<1>4. ASSUME NEW s \in Scans, scans' = [scans EXCEPT ![i] = s], ScanOK(s),
             s.kind = scans[i].kind, s.path = scans[i].path, Heard(scans, i) => Heard(scans', i)
      PROVE  MapInv'
  BY <1>3, <1>4, ScanMoves DEF MapInv, WaitInv, PageTypes
<1>5. CASE Page!Publish(i)
  <2>1. PICK filled \in BOOLEAN : scans' = [scans EXCEPT ![i].updates =
                Page!Sent(i, [kind |-> "progress", filled |-> filled, groups |-> 0])]
    BY <1>5 DEF Page!Publish
  <2> DEFINE u == Page!Sent(i, [kind |-> "progress", filled |-> filled, groups |-> 0])
             s == [scans[i] EXCEPT !.updates = u]
  <2>2. u \in Updates
    BY <1>1 DEF Page!Sent, Updates
  <2> HIDE DEF u
  <2>3. s \in Scans /\ s.state = scans[i].state /\ s.reader = scans[i].reader /\ s.kind = scans[i].kind /\ s.path = scans[i].path
        /\ s.msg = scans[i].msg
    BY <1>1, <2>2 DEF Scans
  <2>4. scans' = [scans EXCEPT ![i] = s]
    BY <2>1 DEF u
  <2> HIDE DEF s
  <2>5. Heard(scans, i) => Heard(scans', i)
    BY <1>5, <2>3, <2>4 DEF Heard, Page!Publish, MapInv, ScanTypes
  <2>6. ScanOK(s)
    BY <1>1, <1>5, <2>3 DEF Page!Publish, ScanOK
  <2>. QED
    BY <1>4, <2>3, <2>4, <2>5, <2>6
<1>6. CASE Page!PublishGroups(i)
  <2>1. PICK g \in GroupCounts : scans' = [scans EXCEPT ![i].state = "found", ![i].groups = g,
                ![i].updates = Page!Sent(i, [kind |-> "progress", filled |-> TRUE, groups |-> g])]
    BY <1>6 DEF Page!PublishGroups
  <2> DEFINE u == Page!Sent(i, [kind |-> "progress", filled |-> TRUE, groups |-> g])
             s == [scans[i] EXCEPT !.state = "found", !.groups = g, !.updates = u]
  <2>2. u \in Updates /\ g \in Nat
    BY <1>1 DEF Page!Sent, Updates, Sane
  <2> HIDE DEF u
  <2>3. s \in Scans /\ s.state = "found" /\ s.reader = scans[i].reader /\ s.kind = scans[i].kind /\ s.path = scans[i].path
        /\ s.msg = scans[i].msg
    BY <1>1, <2>2 DEF Scans
  <2>4. scans' = [scans EXCEPT ![i] = s]
    BY <1>1, <2>1 DEF u, MapInv, ScanTypes, Scans
  <2> HIDE DEF s
  <2>5. Heard(scans, i) => Heard(scans', i)
    BY <2>3, <2>4 DEF Heard, MapInv, ScanTypes
  <2>6. ScanOK(s)
    BY <1>1, <2>3 DEF ScanOK
  <2>. QED
    BY <1>4, <2>3, <2>4, <2>5, <2>6
<1>7. CASE Page!EndScan(i)
  <2>1. PICK o \in Outcomes : scans' = [scans EXCEPT ![i] =
                IF scans[i].reader = "gone" THEN Page!NoScan
                ELSE [scans[i] EXCEPT !.state = "done",
                               !.updates = [kind |-> o, filled |-> TRUE, groups |-> scans[i].groups]]]
    BY <1>7 DEF Page!EndScan, Outcomes
  <2>2. CASE scans[i].reader = "gone"
    <3>1. scans' = [scans EXCEPT ![i] = Page!NoScan]
      BY <2>1, <2>2
    <3>2. ScanOK(Page!NoScan) /\ Page!NoScan.kind = "none" /\ ~Heard(scans, i)
      BY <2>2 DEF Page!NoScan, Heard, ScanOK
    <3>3. scanning' => scanning /\ i # current
      BY <1>3, <3>2 DEF MapInv, WaitInv
    <3>4. dup'.scanning => dup.scanning /\ dup'.current = dup.current /\ i # dup.current
      BY <1>3, <3>2 DEF MapInv, WaitInv
    <3>. QED
      BY <1>1, <1>3, <3>1, <3>2, <3>3, <3>4, ScanMoves
  <2>3. CASE scans[i].reader # "gone"
    <3> DEFINE u == [kind |-> o, filled |-> TRUE, groups |-> scans[i].groups]
               s == [scans[i] EXCEPT !.state = "done", !.updates = u]
    <3>1. u \in Updates /\ u.kind \in Outcomes
      BY <1>1 DEF Updates, Scans
    <3>2. scans' = [scans EXCEPT ![i] = s]
      BY <2>1, <2>3, Zenon
    <3> HIDE DEF u
    <3>3. s \in Scans /\ s.state = "done" /\ s.updates = u /\ s.reader = scans[i].reader /\ s.kind = scans[i].kind
          /\ s.path = scans[i].path /\ s.msg = scans[i].msg
      BY <1>1, <3>1 DEF Scans
    <3> HIDE DEF s
    <3>4. Heard(scans, i) => Heard(scans', i)
      BY <3>1, <3>2, <3>3 DEF Heard, MapInv, ScanTypes
    <3>5. ScanOK(s)
      BY <1>1, <3>3 DEF ScanOK
    <3>. QED
      BY <1>4, <3>2, <3>3, <3>4, <3>5
  <2>. QED
    BY <2>2, <2>3
<1>8. CASE Page!TakeUpdate(i)
  <2>1. scans' = [scans EXCEPT ![i].reader = "message", ![i].msg = scans[i].updates, ![i].updates = Page!NoUpdate]
    BY <1>8 DEF Page!TakeUpdate
  <2> DEFINE s == [scans[i] EXCEPT !.reader = "message", !.msg = scans[i].updates, !.updates = Page!NoUpdate]
  <2>2. s \in Scans /\ s.state = scans[i].state /\ s.reader = "message" /\ s.msg = scans[i].updates
        /\ s.kind = scans[i].kind /\ s.path = scans[i].path
    BY <1>1 DEF Scans
  <2>3. scans' = [scans EXCEPT ![i] = s]
    BY <1>1, <2>1 DEF MapInv, ScanTypes, Scans
  <2> HIDE DEF s
  <2>4. ScanOK(s) /\ scans[i].msg.kind \notin Outcomes
    BY <1>1, <1>8, <2>2 DEF Page!TakeUpdate, ScanOK, Page!NoUpdate, Outcomes
  <2>5. Heard(scans, i) => Heard(scans', i)
    BY <2>2, <2>3, <2>4 DEF Heard, MapInv, ScanTypes
  <2>. QED
    BY <1>4, <2>2, <2>3, <2>4, <2>5
<1>. QED
  BY <1>5, <1>6, <1>7, <1>8

\* A message is read: it was progress and the command waits for the next one, or the scan is heard no more.
LEMMA ReadsOne ==
    ASSUME MapInv, Sane, NEW i \in Page!Ids, scans[i].reader = "message", NEW again \in BOOLEAN, Page!Read(i, again)
    PROVE  \E s \in Scans :
              /\ scans' = [scans EXCEPT ![i] = s] /\ ScanOK(s)
              /\ s.kind = "map" => scans[i].kind = "map" /\ s.path = scans[i].path
              /\ again => s.kind = scans[i].kind /\ s.state = scans[i].state
                          /\ s.updates = scans[i].updates /\ s.reader = "waiting"
<1>1. scans[i] \in Scans /\ ScanOK(scans[i]) /\ Page!NoUpdate \in Updates /\ Page!NoScan \in Scans
  BY DEF MapInv, ScanTypes, Page!NoScan, Page!NoUpdate, Scans, Updates, Sane
<1>2. scans[i].state # "none"
  BY <1>1 DEF ScanOK
<1>3. CASE again
  <2> DEFINE s == [scans[i] EXCEPT !.reader = "waiting", !.msg = Page!NoUpdate]
  <2>1. s \in Scans /\ s.kind = scans[i].kind /\ s.path = scans[i].path /\ s.state = scans[i].state
        /\ s.updates = scans[i].updates /\ s.reader = "waiting" /\ s.msg = Page!NoUpdate
    BY <1>1 DEF Scans
  <2>2. scans' = [scans EXCEPT ![i] = s]
    BY <1>3 DEF Page!Read
  <2> HIDE DEF s
  <2>3. ScanOK(s)
    BY <1>2, <2>1 DEF ScanOK
  <2>. QED
    BY <2>1, <2>2, <2>3
<1>4. CASE ~again /\ scans[i].state = "done"
  <2>1. scans' = [scans EXCEPT ![i] = Page!NoScan]
    BY <1>4 DEF Page!Read
  <2>2. ScanOK(Page!NoScan) /\ Page!NoScan.kind = "none"
    BY DEF Page!NoScan, ScanOK
  <2>. QED
    BY <1>1, <1>4, <2>1, <2>2
<1>5. CASE ~again /\ scans[i].state # "done"
  <2> DEFINE s == [scans[i] EXCEPT !.reader = "gone", !.msg = Page!NoUpdate, !.updates = Page!NoUpdate]
  <2>1. s \in Scans /\ s.kind = scans[i].kind /\ s.path = scans[i].path /\ s.state = scans[i].state
        /\ s.reader = "gone"
    BY <1>1 DEF Scans
  <2>2. scans' = [scans EXCEPT ![i] = s]
    BY <1>5 DEF Page!Read
  <2> HIDE DEF s
  <2>3. ScanOK(s)
    BY <1>2, <2>1 DEF ScanOK
  <2>. QED
    BY <1>5, <2>1, <2>2, <2>3
<1>. QED
  BY <1>3, <1>4, <1>5

\* Progress after which the command waits again: the scan is still heard.
LEMMA StillHeard ==
    ASSUME MapInv, NEW i \in Page!Ids, NEW s \in Scans, scans' = [scans EXCEPT ![i] = s], Heard(scans, i),
           scans[i].msg.kind = "progress",
           s.state = scans[i].state, s.updates = scans[i].updates, s.reader = "waiting"
    PROVE  Heard(scans', i)
<1>1. scans'[i] = s
  BY DEF MapInv, ScanTypes
<1>. QED
  BY <1>1 DEF Heard, Outcomes

LEMMA MapProgressKeeps == ASSUME MapInv, Sane, NEW i \in Page!Ids, Page!applyStorageScanProgress(i) PROVE MapInv'
<1> DEFINE ours == i = current /\ scanning
           r == Page!Result(scans[i].path, FALSE, scans[i].msg.filled)
           k == Page!cacheResult(Page!Pair(cache, order), r, FALSE)
<1>1. Page!Arrived(i, "map") /\ scans[i].msg.kind = "progress" /\ UNCHANGED <<path, scanning, current, cancel, dup>>
  BY DEF Page!applyStorageScanProgress
<1>2. scans[i] \in Scans
  BY DEF MapInv, ScanTypes
<1>3. r \in Results /\ r.path = scans[i].path
  BY <1>2 DEF Page!Result, Results, Scans, Updates
<1>4. Page!Pair(cache, order).map = cache /\ GoodMaps(cache)
  BY DEF Page!Pair, MapInv, PageTypes
<1> HIDE DEF r
<1>5. GoodMaps(k.map)
  BY <1>3, <1>4, CacheResultGood
<1>6. IF ours THEN result' = r /\ cache' = k.map /\ Page!Read(i, TRUE) ELSE Page!Read(i, FALSE) /\ UNCHANGED <<result, cache>>
  BY Zenon DEF Page!applyStorageScanProgress, r
<1> HIDE DEF k
<1>7. ours \in BOOLEAN /\ Page!Read(i, ours)
  BY <1>6 DEF MapInv, PageTypes
<1> HIDE DEF ours
<1>8. PICK s \in Scans :
              /\ scans' = [scans EXCEPT ![i] = s] /\ ScanOK(s)
              /\ s.kind = "map" => scans[i].kind = "map" /\ s.path = scans[i].path
              /\ ours => s.kind = scans[i].kind /\ s.state = scans[i].state
                         /\ s.updates = scans[i].updates /\ s.reader = "waiting"
  BY <1>1, <1>7, ReadsOne DEF Page!Arrived
<1>9. i # 0
  BY DEF Page!Ids, Sane
<1>10. ours => scans[i].path = path
  BY <1>1, <1>9 DEF ours, MapInv, ShownInv, Page!Arrived
<1>11. PageTypes'
  BY <1>1, <1>3, <1>5, <1>6 DEF MapInv, PageTypes
<1>12. Page!MapOfThisDirectory'
  BY <1>1, <1>3, <1>6, <1>10 DEF MapInv, ShownInv, Page!MapOfThisDirectory
<1>13. scanning' => scanning /\ (i = current => Heard(scans', i) /\ s.kind = scans[i].kind)
  <2>1. ours => Heard(scans', i)
    BY <1>1, <1>8, StillHeard DEF ours, MapInv, WaitInv
  <2>. QED
    BY <1>1, <1>8, <2>1 DEF ours
<1>14. dup'.scanning => dup.scanning /\ dup'.current = dup.current
                            /\ (i = dup.current => Heard(scans', i) /\ s.kind = scans[i].kind)
  BY <1>1 DEF MapInv, WaitInv, Page!Arrived
<1>. QED
  BY <1>1, <1>8, <1>11, <1>12, <1>13, <1>14, ScanMoves

LEMMA MapResultKeeps == ASSUME MapInv, Sane, NEW i \in Page!Ids, Page!applyStorageScanResult(i) PROVE MapInv'
<1> DEFINE r == Page!Result(scans[i].path, TRUE, scans[i].msg.filled)
           k == Page!cacheResult(Page!Pair(cache, order), r, TRUE)
<1>1. Page!Arrived(i, "map") /\ Page!Read(i, FALSE) /\ UNCHANGED <<path, current, dup>>
  BY DEF Page!applyStorageScanResult
<1>2. scans[i] \in Scans
  BY DEF MapInv, ScanTypes
<1>3. r \in Results /\ r.path = scans[i].path
  BY <1>2 DEF Page!Result, Results, Scans, Updates
<1>4. Page!Pair(cache, order).map = cache /\ GoodMaps(cache)
  BY DEF Page!Pair, MapInv, PageTypes
<1> HIDE DEF r
<1>5. GoodMaps(k.map)
  BY <1>3, <1>4, CacheResultGood
<1>6. /\ UNCHANGED <<result, cache>> \/ (i = current /\ result' = r /\ cache' = k.map)
      /\ IF i = current THEN cancel' = 0 /\ scanning' = FALSE ELSE UNCHANGED <<cancel, scanning>>
  BY Zenon DEF Page!applyStorageScanResult, r
<1> HIDE DEF k
<1>7. PICK s \in Scans :
              /\ scans' = [scans EXCEPT ![i] = s] /\ ScanOK(s)
              /\ s.kind = "map" => scans[i].kind = "map" /\ s.path = scans[i].path
  BY <1>1, ReadsOne DEF Page!Arrived
<1>8. i # 0
  BY DEF Page!Ids, Sane
<1>9. i = current => scans[i].path = path
  BY <1>1, <1>8 DEF MapInv, ShownInv, Page!Arrived
<1>10. PageTypes'
  BY <1>1, <1>3, <1>5, <1>6 DEF MapInv, PageTypes, Numbers
<1>11. Page!MapOfThisDirectory'
  BY <1>1, <1>3, <1>6, <1>9 DEF MapInv, ShownInv, Page!MapOfThisDirectory
<1>12. scanning' => scanning /\ i # current
  BY <1>6
<1>13. dup'.scanning => dup.scanning /\ dup'.current = dup.current /\ i # dup.current
  BY <1>1 DEF MapInv, WaitInv, Page!Arrived
<1>. QED
  BY <1>1, <1>7, <1>10, <1>11, <1>12, <1>13, ScanMoves

\* The map does not change with the messages of the duplicate view.
LEMMA ViewReads ==
    ASSUME MapInv, Sane, NEW i \in Page!Ids, Page!Arrived(i, "dup"), NEW again \in BOOLEAN, Page!Read(i, again),
           again => scans[i].msg.kind = "progress",
           UNCHANGED <<path, result, scanning, current, cancel, cache>>, dup' \in Views,
           dup'.scanning => dup.scanning /\ dup'.current = dup.current /\ (i = dup.current => again)
    PROVE  MapInv'
<1>1. PICK s \in Scans :
              /\ scans' = [scans EXCEPT ![i] = s] /\ ScanOK(s)
              /\ s.kind = "map" => scans[i].kind = "map" /\ s.path = scans[i].path
              /\ again => s.kind = scans[i].kind /\ s.state = scans[i].state
                          /\ s.updates = scans[i].updates /\ s.reader = "waiting"
  BY ReadsOne DEF Page!Arrived
<1>2. PageTypes' /\ Page!MapOfThisDirectory'
  BY DEF MapInv, PageTypes, ShownInv, Page!MapOfThisDirectory
<1>3. scanning' => scanning /\ i # current
  BY DEF MapInv, WaitInv, Page!Arrived
<1>4. dup'.scanning => dup.scanning /\ dup'.current = dup.current
                           /\ (i = dup.current => Heard(scans', i) /\ s.kind = scans[i].kind)
  <2>1. dup.scanning /\ i = dup.current /\ again => Heard(scans', i)
    BY <1>1, StillHeard DEF MapInv, WaitInv
  <2>. QED
    BY <1>1, <2>1
<1>. QED
  BY <1>1, <1>2, <1>3, <1>4, ScanMoves

LEMMA ViewProgressKeeps == ASSUME MapInv, Sane, NEW i \in Page!Ids, Page!applyStorageDuplicateProgress(i) PROVE MapInv'
<1> DEFINE ours == dup.mode /\ i = dup.current /\ dup.scanning
<1>1. /\ Page!Arrived(i, "dup") /\ scans[i].msg.kind = "progress" /\ Page!Read(i, ours)
      /\ UNCHANGED <<path, result, scanning, current, cancel, cache>>
      /\ dup' = IF ours THEN [dup EXCEPT !.groups = scans[i].msg.groups] ELSE dup
  BY DEF Page!applyStorageDuplicateProgress
<1>2. dup \in Views /\ scans[i].msg.groups \in Nat
  BY DEF MapInv, PageTypes, ScanTypes, Scans, Updates
<1>3. ours \in BOOLEAN
  BY <1>2 DEF Views
<1>4. dup' \in Views /\ dup'.scanning = dup.scanning /\ dup'.current = dup.current /\ dup'.mode = dup.mode
  BY <1>1, <1>2 DEF Views
<1>5. ASSUME i = dup.current, dup.scanning PROVE ours
  BY <1>2, <1>5 DEF Views
<1>. QED
  BY <1>1, <1>3, <1>4, <1>5, ViewReads

LEMMA ViewResultKeeps == ASSUME MapInv, Sane, NEW i \in Page!Ids, Page!applyStorageDuplicateResult(i) PROVE MapInv'
<1>1. /\ Page!Arrived(i, "dup") /\ Page!Read(i, FALSE) /\ UNCHANGED <<path, result, scanning, current, cancel, cache>>
  BY DEF Page!applyStorageDuplicateResult
<1>2. dup \in Views /\ scans[i].msg.groups \in Nat
  BY DEF MapInv, PageTypes, ScanTypes, Scans, Updates
<1> DEFINE ended == [dup EXCEPT !.cancel = 0, !.scanning = FALSE]
           g == scans[i].msg.groups
           clamped == IF g = 0 THEN 0 ELSE IF ended.cursor < g THEN ended.cursor ELSE g - 1
<1>3. ended \in Views /\ ~ended.scanning
  BY <1>2 DEF Views, Numbers
<1>4. clamped \in Nat
  BY <1>2, <1>3 DEF Views
<1>5. \/ dup' = dup /\ ~(dup.mode /\ i = dup.current)
      \/ dup' = ended
      \/ dup' = [ended EXCEPT !.groups = g, !.cursor = clamped]
  BY DEF Page!applyStorageDuplicateResult
<1> HIDE DEF clamped, ended
<1>6. [ended EXCEPT !.groups = g, !.cursor = clamped] \in Views /\ ~[ended EXCEPT !.groups = g, !.cursor = clamped].scanning
  BY <1>2, <1>3, <1>4 DEF Views
<1>7. dup' \in Views /\ (dup'.scanning => dup' = dup /\ i # dup.current)
  BY <1>2, <1>3, <1>5, <1>6 DEF Views
<1>. QED
  BY <1>1, <1>7, ViewReads

LEMMA MapStep == ASSUME MapInv, Sane, [Page!Next]_(Page!vars) PROVE MapInv'
<1>1. CASE Page!Navigate \/ Page!refreshStorageScan
  BY <1>1, NavigateKeeps
<1>2. CASE Page!EnterPage
  BY <1>2, EnterKeeps
<1>3. CASE Page!LeavePage
  BY <1>3, LeaveKeeps
<1>4. CASE Page!beginStorageDuplicateScan
  BY <1>4, DuplicatesKeep
<1>5. CASE Page!leaveStorageDuplicates \/ Page!moveStorageDuplicateSelection
  BY <1>5, ViewKeeps
<1>6. CASE Page!prepareStorageAction \/ Page!cancelStorageAction
  BY <1>6, ConfirmKeeps
<1>7. CASE Page!applyStorageActionResult
  BY <1>7, ActionKeeps
<1>8. CASE Page!Quit
  BY <1>8, QuitKeeps
<1>9. ASSUME NEW i \in Page!Ids, Page!ScanStep(i) PROVE MapInv'
  BY <1>9, ScanWorks, MapProgressKeeps, MapResultKeeps, ViewProgressKeeps, ViewResultKeeps DEF Page!ScanStep
<1>10. CASE UNCHANGED Page!vars
  BY <1>10 DEF Page!vars, Page!ui, MapInv, PageTypes, ScanTypes, ShownInv, Page!MapOfThisDirectory, WaitInv
<1>. QED
  BY <1>1, <1>2, <1>3, <1>4, <1>5, <1>6, <1>7, <1>8, <1>9, <1>10 DEF Page!Next

\* Every reachable state of a storage page satisfies the inductive invariant.
THEOREM MapInvariant == Page!Spec => []MapInv
<1> SUFFICES ASSUME Sane PROVE Page!Spec => []MapInv
  BY StorageSourcesAssumption
<1>1. Page!Init => MapInv
  BY BlankKeeps DEF Page!Init, Blank
<1>2. MapInv /\ [Page!Next]_(Page!vars) => MapInv'
  BY MapStep
<1>. QED
  BY <1>1, <1>2, PTL DEF Page!Spec

-----------------------------------------------------------------------------
(* The page of the run: a StorageMap, whatever the other parts do. *)

LEMMA PageOfRun == PageSpec => Page!Spec
<1>1. PageInit => Page!Init
  BY DEF PageInit
<1>2. [PageNext]_<<part, vars, pageVars, scanVars>> => [Page!Next]_(Page!vars)
  BY DEF PageNext, DedupeStep, PageStep, ScanStep, pageVars, Page!vars, Page!ui
<1>. QED
  BY <1>1, <1>2, PTL DEF PageSpec, Page!Spec

\* Whatever results of earlier scans still arrive, and whatever the cache has kept, the map on the screen is of
\* the directory it is labelled with.
THEOREM MapIsOfItsDirectory == PageSpec => []MapOfThisDirectory
<1> SUFFICES ASSUME Sane PROVE PageSpec => []MapOfThisDirectory
  BY StorageSourcesAssumption
<1>1. Page!Spec => []MapInv
  BY MapInvariant
<1>2. MapInv => MapOfThisDirectory
  BY DEF MapInv, ShownInv, MapOfThisDirectory
<1>. QED
  BY <1>1, <1>2, PageOfRun, PTL

\* While the page waits for a scan of the map or for a search, that one still works or has its outcome on the
\* way, and somebody will read it: neither view scans for ever.
THEOREM NewestIsHeard == PageSpec => []NewestScanHeard
<1> SUFFICES ASSUME Sane PROVE PageSpec => []NewestScanHeard
  BY StorageSourcesAssumption
<1>1. Page!Spec => []MapInv
  BY MapInvariant
<1>2. MapInv => NewestScanHeard
  BY DEF MapInv, WaitInv, Heard, Outcomes, NewestScanHeard, Page!NewestScanHeard
<1>. QED
  BY <1>1, <1>2, PageOfRun, PTL
-----------------------------------------------------------------------------
(* Sums (Total). *)

\* A sum is the number of its units.
LEMMA TotalCounts ==
    ASSUME NEW S, IsFiniteSet(S), NEW f \in [S -> Nat]
    PROVE  IsFiniteSet(Scan!Units(f)) /\ Scan!Total(f) = Cardinality(Scan!Units(f)) /\ Scan!Total(f) \in Nat
<1> DEFINE Part(t) == {t} \X (1..f[t])
           parts == {Part(t) : t \in S}
           units == Scan!Units(f)
<1>1. units = UNION parts
  BY DEF Scan!Units
<1>2. ASSUME NEW t \in S PROVE IsFiniteSet(Part(t))
  <2>1. IsFiniteSet({t})
    BY FS_Singleton
  <2>2. IsFiniteSet(1..f[t])
    BY FS_Interval
  <2>. QED
    BY <2>1, <2>2, FS_Product
<1> HIDE DEF Part
<1>3. IsFiniteSet(parts)
  <2> DEFINE g == [t \in S |-> Part(t)]
  <2>1. g \in Surjection(S, parts)
    BY DEF Surjection
  <2>. QED
    BY <2>1, FS_Surjection
<1>4. \A set \in parts : IsFiniteSet(set)
  BY <1>2
<1> HIDE DEF parts, units
<1>5. IsFiniteSet(units)
  BY <1>1, <1>3, <1>4, FS_UNION
<1>6. Scan!Total(f) = Cardinality(units)
  BY Zenon DEF Scan!Total, Scan!Cardinality, Cardinality, units
<1>7. Cardinality(units) \in Nat
  BY <1>5, FS_CardinalityType
<1>. QED
  BY <1>5, <1>6, <1>7 DEF units

\* When one number grows, the sum grows by as much.
LEMMA TotalGrows ==
    ASSUME NEW S, IsFiniteSet(S), NEW f \in [S -> Nat], NEW g \in [S -> Nat], NEW x \in S, NEW k \in Nat,
           g[x] = f[x] + k, \A t \in S \ {x} : g[t] = f[t]
    PROVE  Scan!Total(g) = Scan!Total(f) + k
<1> DEFINE F == Scan!Units(f)
           G == Scan!Units(g)
           more == (f[x] + 1)..(f[x] + k)
           New == {x} \X more
<1>1. f[x] \in Nat
  OBVIOUS
<1>2. IsFiniteSet(more) /\ Cardinality(more) = k
  <2>1. ASSUME NEW a \in Nat PROVE IsFiniteSet((a + 1)..(a + k)) /\ Cardinality((a + 1)..(a + k)) = k
    <3>1. a + 1 \in Int /\ a + k \in Int
      OBVIOUS
    <3> DEFINE low == a + 1
               high == a + k
    <3>2. (low > high /\ k = 0) \/ (low <= high /\ high - low + 1 = k)
      OBVIOUS
    <3> HIDE DEF low, high
    <3>3. IsFiniteSet(low..high) /\ Cardinality(low..high) = IF low > high THEN 0 ELSE high - low + 1
      BY <3>1, FS_Interval DEF low, high
    <3>4. low \in Int /\ high \in Int
      BY <3>1 DEF low, high
    <3>5. IsFiniteSet(low..high) /\ Cardinality(low..high) = k
      BY <3>2, <3>3, <3>4
    <3>. QED
      BY <3>5 DEF low, high
  <2>. QED
    BY <1>1, <2>1
<1>3. IsFiniteSet(New) /\ Cardinality(New) = k
  <2>1. IsFiniteSet({x}) /\ Cardinality({x}) = 1
    BY FS_Singleton
  <2> HIDE DEF more
  <2>2. IsFiniteSet(New) /\ Cardinality(New) = Cardinality({x}) * Cardinality(more)
    BY <1>2, <2>1, FS_Product
  <2>. QED
    BY <1>2, <2>1, <2>2
<1>4. /\ IsFiniteSet(F) /\ Scan!Total(f) = Cardinality(F) /\ Scan!Total(f) \in Nat
      /\ Scan!Total(g) = Cardinality(G)
  BY TotalCounts
<1>5. /\ \A u : u \in F <=> \E t \in S : \E n \in 1..f[t] : u = <<t, n>>
      /\ \A u : u \in G <=> \E t \in S : \E n \in 1..g[t] : u = <<t, n>>
      /\ \A u : u \in New <=> \E n \in more : u = <<x, n>>
  BY DEF Scan!Units
<1> HIDE DEF F, G, New
<1>6. \A t \in S : f[t] \in Nat /\ g[t] \in Nat
  OBVIOUS
<1>7. G = F \cup New
  <2>1. ASSUME NEW u \in F PROVE u \in G
    <3>1. PICK t \in S : \E n \in 1..f[t] : u = <<t, n>>
      BY <1>5
    <3>2. PICK n \in 1..f[t] : u = <<t, n>>
      BY <3>1
    <3>3. n \in 1..g[t]
      BY <1>6
    <3>. QED
      BY <1>5, <3>2, <3>3
  <2>2. ASSUME NEW u \in New PROVE u \in G
    <3>1. PICK n \in more : u = <<x, n>>
      BY <1>5
    <3>2. n \in 1..g[x]
      BY <1>6
    <3>. QED
      BY <1>5, <3>1, <3>2
  <2>3. ASSUME NEW u \in G, u \notin F PROVE u \in New
    <3>1. PICK t \in S : \E n \in 1..g[t] : u = <<t, n>>
      BY <1>5
    <3>2. PICK n \in 1..g[t] : u = <<t, n>>
      BY <3>1
    <3>3. n \notin 1..f[t]
      BY <1>5, <2>3, <3>2
    <3>4. t = x
      BY <3>3
    <3>5. n \in more
      BY <1>6, <3>3, <3>4
    <3>. QED
      BY <1>5, <3>2, <3>4, <3>5
  <2>. QED
    BY <2>1, <2>2, <2>3
<1>8. F \cap New = {}
  <2> SUFFICES ASSUME NEW u \in F, u \in New PROVE FALSE
    OBVIOUS
  <2>1. PICK t \in S : \E n \in 1..f[t] : u = <<t, n>>
    BY <1>5
  <2>2. PICK n \in 1..f[t] : u = <<t, n>>
    BY <2>1
  <2>3. PICK m \in more : u = <<x, m>>
    BY <1>5
  <2>4. t = x /\ n = m
    BY <2>2, <2>3
  <2>. QED
    BY <1>1, <2>4
<1>9. Cardinality(G) = Cardinality(F) + Cardinality(New) - Cardinality(F \cap New)
  BY <1>3, <1>4, <1>7, FS_Union
<1>10. Cardinality(F \cap New) = 0
  BY <1>8, FS_EmptySet
<1>. QED
  BY <1>3, <1>4, <1>9, <1>10

\* Smaller numbers have a smaller sum.
LEMMA TotalMonotone ==
    ASSUME NEW S, IsFiniteSet(S), NEW f \in [S -> Nat], NEW g \in [S -> Nat], \A t \in S : f[t] <= g[t]
    PROVE  Scan!Total(f) <= Scan!Total(g)
<1>1. /\ IsFiniteSet(Scan!Units(g)) /\ Scan!Total(f) = Cardinality(Scan!Units(f))
      /\ Scan!Total(g) = Cardinality(Scan!Units(g))
  BY TotalCounts
<1>2. Scan!Units(f) \subseteq Scan!Units(g)
  <2>1. \A t \in S : 1..f[t] \subseteq 1..g[t]
    OBVIOUS
  <2>. QED
    BY <2>1 DEF Scan!Units
<1>3. Cardinality(Scan!Units(f)) <= Cardinality(Scan!Units(g))
  BY <1>1, <1>2, FS_Subset
<1>. QED
  BY <1>1, <1>3

-----------------------------------------------------------------------------
(* The tree of a scan. *)

FilePlaces == Scan!Kind({"file"})
DirPlaces == Scan!Kind({"dir", "sealed"})
Ino(e) == tree[e[1]][e[2]].ino
Bytes(e) == tree[e[1]][e[2]].size

\* The places of a tree are finite, and its inodes have the sizes of their links.
LEMMA TreeSets ==
    ASSUME RealTrees, tree \in Trees
    PROVE  /\ \A e : e \in Scan!All <=> \E t \in Scan!Tasks : \E i \in DOMAIN tree[t] : e = <<t, i>>
           /\ IsFiniteSet(Scan!Tasks) /\ IsFiniteSet(FilePlaces) /\ IsFiniteSet(DirPlaces) /\ IsFiniteSet(Scan!Inodes)
           /\ FilePlaces \subseteq Scan!All /\ DirPlaces \subseteq Scan!All /\ FilePlaces \cap DirPlaces = {}
           /\ \A e \in Scan!All : Bytes(e) \in Nat
           /\ \A e \in FilePlaces : Ino(e) \in Scan!Inodes /\ Scan!SizeOf(Ino(e)) = Bytes(e)
           /\ \A n \in Scan!Inodes : Scan!SizeOf(n) \in Nat /\ \E e \in FilePlaces : Ino(e) = n
<1>1. /\ Len(tree) \in Nat /\ DOMAIN tree = 1..Len(tree)
      /\ \A i \in DOMAIN tree : Len(tree[i]) \in Nat /\ DOMAIN tree[i] = 1..Len(tree[i])
  BY DEF RealTrees
<1>2. Scan!All = Places(tree)
  BY DEF Scan!All, Places, Scan!Tasks
<1>3. \A e : e \in Scan!All <=> \E t \in Scan!Tasks : \E i \in DOMAIN tree[t] : e = <<t, i>>
  BY DEF Scan!All
<1>4. IsFiniteSet(Scan!Tasks)
  BY <1>1, FS_Interval DEF Scan!Tasks
<1>5. IsFiniteSet(Scan!All)
  <2> DEFINE Part(t) == {t} \X DOMAIN tree[t]
             parts == {Part(t) : t \in Scan!Tasks}
  <2>1. Scan!All = UNION parts
    BY DEF Scan!All
  <2>2. ASSUME NEW t \in Scan!Tasks PROVE IsFiniteSet(Part(t))
    <3>1. IsFiniteSet({t})
      BY FS_Singleton
    <3>2. IsFiniteSet(DOMAIN tree[t])
      BY <1>1, FS_Interval DEF Scan!Tasks
    <3>. QED
      BY <3>1, <3>2, FS_Product
  <2> HIDE DEF Part
  <2>3. IsFiniteSet(parts)
    <3> DEFINE g == [t \in Scan!Tasks |-> Part(t)]
    <3>1. g \in Surjection(Scan!Tasks, parts)
      BY DEF Surjection
    <3>. QED
      BY <1>4, <3>1, FS_Surjection
  <2>4. \A set \in parts : IsFiniteSet(set)
    BY <2>2
  <2> HIDE DEF parts
  <2>. QED
    BY <2>1, <2>3, <2>4, FS_UNION
<1>6. FilePlaces \subseteq Scan!All /\ DirPlaces \subseteq Scan!All /\ FilePlaces \cap DirPlaces = {}
  BY DEF FilePlaces, DirPlaces, Scan!Kind
<1>7. IsFiniteSet(FilePlaces) /\ IsFiniteSet(DirPlaces)
  BY <1>5, <1>6, FS_Subset
<1>8. Scan!Inodes = {Ino(e) : e \in FilePlaces}
  BY DEF Scan!Inodes, FilePlaces, Ino
<1>9. IsFiniteSet(Scan!Inodes)
  <2> DEFINE g == [e \in FilePlaces |-> Ino(e)]
  <2>1. g \in Surjection(FilePlaces, Scan!Inodes)
    BY <1>8 DEF Surjection
  <2>. QED
    BY <1>7, <2>1, FS_Surjection
<1>10. \A e, o \in Scan!All : /\ Bytes(e) \in Nat
                              /\ e \in FilePlaces /\ o \in FilePlaces /\ Ino(e) = Ino(o) => Bytes(e) = Bytes(o)
  BY <1>2 DEF RealTrees, FilePlaces, Scan!Kind, Ino, Bytes
<1>11. ASSUME NEW e \in FilePlaces PROVE Scan!SizeOf(Ino(e)) = Bytes(e)
  <2> DEFINE all == {tree[o[1]][o[2]] : o \in Scan!Kind({"file"})}
             one == CHOOSE f \in all : f.ino = Ino(e)
  <2>1. tree[e[1]][e[2]] \in all /\ tree[e[1]][e[2]].ino = Ino(e)
    BY DEF FilePlaces, Ino
  <2> HIDE DEF all
  <2>2. one \in all /\ one.ino = Ino(e)
    BY <2>1
  <2>3. Scan!SizeOf(Ino(e)) = one.size
    BY DEF Scan!SizeOf, all
  <2> HIDE DEF one
  <2>4. PICK o \in FilePlaces : one = tree[o[1]][o[2]]
    BY <2>2 DEF all, FilePlaces
  <2>5. Ino(o) = Ino(e) /\ one.size = Bytes(o)
    BY <2>2, <2>4 DEF Ino, Bytes
  <2>. QED
    BY <1>6, <1>10, <2>3, <2>5
<1>12. \A e \in FilePlaces : Ino(e) \in Scan!Inodes
  BY <1>8
<1>13. \A n \in Scan!Inodes : \E e \in FilePlaces : Ino(e) = n
  BY <1>8
<1>14. \A n \in Scan!Inodes : Scan!SizeOf(n) \in Nat
  BY <1>6, <1>10, <1>11, <1>13
<1>15. \A e \in Scan!All : Bytes(e) \in Nat
  BY <1>10
<1>. QED
  BY <1>3, <1>4, <1>6, <1>7, <1>9, <1>11, <1>12, <1>13, <1>14, <1>15
-----------------------------------------------------------------------------
(* The invariant of a scan. It speaks of the places that were counted (C)   *)
(* and the inodes whose size was (D), which no variable keeps.             *)

Spot == [task : Nat, at : Nat, size : Nat, step : {"idle", "enter", "record"}]
Sizes == [size : Nat, files : Nat, directories : Nat]

ScannerTypes ==
    /\ tree \in Trees /\ jobs \in Nat \ {0} /\ worker \in [Workers -> Spot]
    /\ entry \in [Scan!Tasks -> Sizes] /\ results \in [Scan!Tasks -> {None, Failed} \cup Sizes] /\ totals \in Sizes

Busy(s) == s.step # "idle"
Recording(s) == s.step = "record"
Ahead(s) == <<s.task, s.at>>

\* Every worker is at a place of a task of its own.
WorkInv(j, work) ==
    /\ \A w \in Workers : Busy(work[w]) => work[w].task \in Scan!Tasks /\ work[w].task < j /\ work[w].at # 0
    /\ \A w \in Workers : Recording(work[w]) => Ahead(work[w]) \in FilePlaces
    /\ \A w, v \in Workers : Busy(work[w]) /\ Busy(work[v]) /\ work[w].task = work[v].task => w = v

\* A worker has counted what is before it; a task that was left has failed or was counted whole.
PlaceInv(C, j, work, res, ent) ==
    /\ C \subseteq Scan!All /\ \A e \in C : e[1] < j
    /\ \A w \in Workers : Busy(work[w]) =>
          \A i \in DOMAIN tree[work[w].task] : <<work[w].task, i>> \in C <=> i < work[w].at
    /\ \A t \in Scan!Tasks : t < j =>
          \/ \E w \in Workers : Busy(work[w]) /\ work[w].task = t
          \/ res[t] = Failed
          \/ res[t] = ent[t] /\ \A i \in DOMAIN tree[t] : <<t, i>> \in C

\* An inode that was claimed is counted, or one worker is about to count it.
ClaimInv(C, D, work, taken) ==
    /\ taken \subseteq Scan!Inodes /\ D \subseteq taken
    /\ \A e \in C \cap FilePlaces : Ino(e) \in taken
    /\ \A w \in Workers : Recording(work[w]) => Ino(Ahead(work[w])) \in taken
    /\ \A w \in Workers : Recording(work[w]) /\ work[w].size # 0 =>
          work[w].size = Scan!SizeOf(Ino(Ahead(work[w]))) /\ Ino(Ahead(work[w])) \notin D
    /\ \A w, v \in Workers :
          /\ Recording(work[w]) /\ work[w].size # 0 /\ Recording(work[v]) /\ work[v].size # 0
          /\ Ino(Ahead(work[w])) = Ino(Ahead(work[v]))
          => w = v
    /\ \A n \in taken \ D : Scan!SizeOf(n) # 0 =>
          \E w \in Workers : Recording(work[w]) /\ work[w].size # 0 /\ Ino(Ahead(work[w])) = n

Weight(D) == [n \in Scan!Inodes |-> IF n \in D THEN Scan!SizeOf(n) ELSE 0]
Held(C) == [e \in DirPlaces |-> IF e \in C THEN Bytes(e) ELSE 0]

TotalInv(C, D, all) ==
    all = [size |-> RootSize + Scan!Total(Weight(D)) + Scan!Total(Held(C)),
           files |-> Cardinality(C \cap FilePlaces), directories |-> 1 + Cardinality(C \cap DirPlaces)]

SumInv(all, ent) == all = Scan!Plus(Scan!RootTotals, Scan!SumOf(ent))

PublishInv(shown) ==
    /\ shown.totals = Scan!Plus(Scan!RootTotals, shown.entries)
    /\ shown.totals.size <= Scan!DiskUsage.size /\ shown.totals.files <= Scan!DiskUsage.files

OutcomeInv(j, work, res, all, out) ==
    out \notin {None, Failed} =>
        /\ j > Len(tree) /\ \A w \in Workers : ~Busy(work[w])
        /\ out = Scan!DiskUsage /\ Scan!Plus(Scan!RootTotals, Scan!SumOf(res)) = all

Progress(j, work, res, ent, taken, all) ==
    \E C \in SUBSET Scan!All : \E D \in SUBSET Scan!Inodes :
        PlaceInv(C, j, work, res, ent) /\ ClaimInv(C, D, work, taken) /\ TotalInv(C, D, all)

ScanInv ==
    /\ ScannerTypes /\ WorkInv(jobs, worker) /\ Progress(jobs, worker, results, entry, claimed, totals)
    /\ SumInv(totals, entry) /\ PublishInv(published) /\ OutcomeInv(jobs, worker, results, totals, outcome)

\* The tree stays as it is.
LEMMA TreeStays ==
    ASSUME tree' = tree
    PROVE  /\ Scan!All' = Scan!All /\ Scan!Tasks' = Scan!Tasks /\ FilePlaces' = FilePlaces /\ DirPlaces' = DirPlaces
           /\ Scan!Inodes' = Scan!Inodes /\ Scan!DiskUsage' = Scan!DiskUsage
           /\ \A e : Ino(e)' = Ino(e) /\ Bytes(e)' = Bytes(e)
           /\ \A n : Scan!SizeOf(n)' = Scan!SizeOf(n)
<1>1. Scan!All' = Scan!All /\ Scan!Tasks' = Scan!Tasks
  BY DEF Scan!All, Scan!Tasks
<1>2. \A ks : Scan!Kind(ks)' = Scan!Kind(ks)
  BY <1>1 DEF Scan!Kind
<1>3. FilePlaces' = FilePlaces /\ DirPlaces' = DirPlaces
  BY <1>2 DEF FilePlaces, DirPlaces
<1>4. \A e : Ino(e)' = Ino(e) /\ Bytes(e)' = Bytes(e)
  BY DEF Ino, Bytes
<1>5. Scan!Inodes' = Scan!Inodes
  BY <1>2 DEF Scan!Inodes
<1>6. \A n : Scan!SizeOf(n)' = Scan!SizeOf(n)
  BY <1>2 DEF Scan!SizeOf
<1>7. Scan!DiskUsage' = Scan!DiskUsage
  BY <1>2, <1>5, <1>6 DEF Scan!DiskUsage
<1>. QED
  BY <1>1, <1>3, <1>4, <1>5, <1>6, <1>7

\* The invariant is kept when its parts are, for the tree that stays.
LEMMA ScanStays ==
    ASSUME tree' = tree, ScannerTypes', WorkInv(jobs', worker'), Progress(jobs', worker', results', entry', claimed', totals'),
           SumInv(totals', entry'), PublishInv(published'), OutcomeInv(jobs', worker', results', totals', outcome')
    PROVE  ScanInv'
<1>1. WorkInv(jobs, worker)'
  BY TreeStays DEF WorkInv
<1>2. Progress(jobs, worker, results, entry, claimed, totals)'
  <2> PICK C \in SUBSET Scan!All, D \in SUBSET Scan!Inodes :
         PlaceInv(C, jobs', worker', results', entry') /\ ClaimInv(C, D, worker', claimed') /\ TotalInv(C, D, totals')
    BY DEF Progress
  <2>1. PlaceInv(C, jobs, worker, results, entry)'
    BY TreeStays DEF PlaceInv
  <2>2. ClaimInv(C, D, worker, claimed)'
    BY TreeStays DEF ClaimInv
  <2>3. TotalInv(C, D, totals)'
    <3>1. Weight(D)' = Weight(D) /\ Held(C)' = Held(C)
      BY TreeStays DEF Weight, Held
    <3>2. FilePlaces' = FilePlaces /\ DirPlaces' = DirPlaces
      BY TreeStays
    <3>. QED
      BY <3>1, <3>2 DEF TotalInv
  <2>4. C \in SUBSET Scan!All' /\ D \in SUBSET Scan!Inodes'
    BY TreeStays
  <2>. QED
    BY <2>1, <2>2, <2>3, <2>4 DEF Progress
<1>3. SumInv(totals, entry)' /\ Scan!SumOf(results)' = Scan!SumOf(results')
  BY TreeStays DEF SumInv, Scan!SumOf, Scan!RootTotals, Scan!Plus
<1>4. PublishInv(published)'
  BY TreeStays DEF PublishInv, Scan!RootTotals, Scan!Plus
<1>5. OutcomeInv(jobs, worker, results, totals, outcome)'
  BY <1>3, TreeStays DEF OutcomeInv, Scan!RootTotals, Scan!Plus
<1>. QED
  BY <1>1, <1>2, <1>3, <1>4, <1>5 DEF ScanInv
-----------------------------------------------------------------------------
(* Counting one place. *)

\* The totals of a task and of the scan grow by the same.
LEMMA SumGrows ==
    ASSUME RealTrees, ScannerTypes, SumInv(totals, entry), NEW t \in Scan!Tasks, NEW node \in Sizes,
           NEW ent, ent = [entry EXCEPT ![t] = Scan!Plus(@, node)]
    PROVE  /\ ent \in [Scan!Tasks -> Sizes] /\ Scan!Plus(totals, node) \in Sizes
           /\ SumInv(Scan!Plus(totals, node), ent)
<1>1. IsFiniteSet(Scan!Tasks)
  BY TreeSets DEF ScannerTypes
<1>2. entry \in [Scan!Tasks -> Sizes] /\ totals \in Sizes
  BY DEF ScannerTypes
<1>3. /\ ent \in [Scan!Tasks -> Sizes] /\ \A u \in Scan!Tasks \ {t} : ent[u] = entry[u]
      /\ ent[t].size = entry[t].size + node.size /\ ent[t].files = entry[t].files + node.files
      /\ ent[t].directories = entry[t].directories + node.directories
  BY <1>2 DEF Sizes, Scan!Plus
<1>4. Scan!Plus(totals, node) \in Sizes
  BY <1>2 DEF Sizes, Scan!Plus
<1> DEFINE T == Scan!Tasks
<1> HIDE DEF T
<1>5. \A f \in [T -> Sizes] : /\ [u \in T |-> f[u].size] \in [T -> Nat]
                              /\ [u \in T |-> f[u].files] \in [T -> Nat]
                              /\ [u \in T |-> f[u].directories] \in [T -> Nat]
  BY DEF Sizes
<1>6. node.size \in Nat /\ node.files \in Nat /\ node.directories \in Nat
  BY DEF Sizes
<1>7. Scan!Total([u \in T |-> ent[u].size]) = Scan!Total([u \in T |-> entry[u].size]) + node.size
  <2> DEFINE f == [u \in T |-> entry[u].size]
             g == [u \in T |-> ent[u].size]
  <2>1. /\ f \in [T -> Nat] /\ g \in [T -> Nat] /\ g[t] = f[t] + node.size /\ \A u \in T \ {t} : g[u] = f[u]
        /\ t \in T /\ IsFiniteSet(T)
    BY <1>1, <1>2, <1>3, <1>5 DEF T
  <2> HIDE DEF f, g
  <2>2. Scan!Total(g) = Scan!Total(f) + node.size
    BY <1>6, <2>1, TotalGrows
  <2>. QED
    BY <2>2 DEF f, g
<1>8. Scan!Total([u \in T |-> ent[u].files]) = Scan!Total([u \in T |-> entry[u].files]) + node.files
  <2> DEFINE f == [u \in T |-> entry[u].files]
             g == [u \in T |-> ent[u].files]
  <2>1. /\ f \in [T -> Nat] /\ g \in [T -> Nat] /\ g[t] = f[t] + node.files /\ \A u \in T \ {t} : g[u] = f[u]
        /\ t \in T /\ IsFiniteSet(T)
    BY <1>1, <1>2, <1>3, <1>5 DEF T
  <2> HIDE DEF f, g
  <2>2. Scan!Total(g) = Scan!Total(f) + node.files
    BY <1>6, <2>1, TotalGrows
  <2>. QED
    BY <2>2 DEF f, g
<1>9. Scan!Total([u \in T |-> ent[u].directories]) = Scan!Total([u \in T |-> entry[u].directories]) + node.directories
  <2> DEFINE f == [u \in T |-> entry[u].directories]
             g == [u \in T |-> ent[u].directories]
  <2>1. /\ f \in [T -> Nat] /\ g \in [T -> Nat] /\ g[t] = f[t] + node.directories /\ \A u \in T \ {t} : g[u] = f[u]
        /\ t \in T /\ IsFiniteSet(T)
    BY <1>1, <1>2, <1>3, <1>5 DEF T
  <2> HIDE DEF f, g
  <2>2. Scan!Total(g) = Scan!Total(f) + node.directories
    BY <1>6, <2>1, TotalGrows
  <2>. QED
    BY <2>2 DEF f, g
<1>10. /\ Scan!Total([u \in T |-> entry[u].size]) \in Nat
       /\ Scan!Total([u \in T |-> entry[u].files]) \in Nat
       /\ Scan!Total([u \in T |-> entry[u].directories]) \in Nat
  <2>1. IsFiniteSet(T) /\ entry \in [T -> Sizes]
    BY <1>1, <1>2 DEF T
  <2>. QED
    BY <1>5, <2>1, TotalCounts
<1>11. Scan!SumOf(entry) = [size |-> Scan!Total([u \in T |-> entry[u].size]), files |-> Scan!Total([u \in T |-> entry[u].files]),
                            directories |-> Scan!Total([u \in T |-> entry[u].directories])]
  BY DEF Scan!SumOf, T
<1>12. Scan!SumOf(ent) = [size |-> Scan!Total([u \in T |-> ent[u].size]), files |-> Scan!Total([u \in T |-> ent[u].files]),
                          directories |-> Scan!Total([u \in T |-> ent[u].directories])]
  BY DEF Scan!SumOf, T
<1>13. RootSize \in Nat
  BY DEF RealTrees
<1> DEFINE a == Scan!Total([u \in T |-> entry[u].size])
           b == Scan!Total([u \in T |-> entry[u].files])
           d == Scan!Total([u \in T |-> entry[u].directories])
<1>14. Scan!SumOf(entry) = [size |-> a, files |-> b, directories |-> d]
  BY <1>11
<1>15. Scan!SumOf(ent) = [size |-> a + node.size, files |-> b + node.files, directories |-> d + node.directories]
  BY <1>7, <1>8, <1>9, <1>12
<1>16. a \in Nat /\ b \in Nat /\ d \in Nat
  BY <1>10
<1> HIDE DEF a, b, d
<1>17. SumInv(Scan!Plus(totals, node), ent)
  <2>1. totals = [size |-> RootSize + a, files |-> 0 + b, directories |-> 1 + d]
    BY <1>14 DEF SumInv, Scan!Plus, Scan!RootTotals
  <2>2. Scan!Plus(totals, node) = [size |-> RootSize + a + node.size, files |-> 0 + b + node.files, directories |-> 1 + d + node.directories]
    BY <2>1 DEF Scan!Plus
  <2>3. Scan!Plus(Scan!RootTotals, Scan!SumOf(ent)) =
           [size |-> RootSize + (a + node.size), files |-> 0 + (b + node.files), directories |-> 1 + (d + node.directories)]
    BY <1>15 DEF Scan!Plus, Scan!RootTotals
  <2>4. /\ RootSize + a + node.size = RootSize + (a + node.size) /\ 0 + b + node.files = 0 + (b + node.files)
        /\ 1 + d + node.directories = 1 + (d + node.directories)
    BY <1>6, <1>13, <1>16
  <2>. QED
    BY <2>2, <2>3, <2>4 DEF SumInv
<1>. QED
  BY <1>3, <1>4, <1>17

\* Forward moves one worker.
LEMMA Goes ==
    ASSUME ScannerTypes, NEW w \in Workers, Scan!Forward(w)
    PROVE  /\ \A v \in Workers : worker[v] \in Spot
           /\ \A v \in Workers \ {w} : worker'[v] = worker[v]
           /\ worker'[w].task = worker[w].task /\ worker'[w].at = worker[w].at + 1 /\ worker'[w].size = 0
           /\ worker'[w].step = "enter" /\ worker' \in [Workers -> Spot]
<1> DEFINE one == [worker EXCEPT ![w].at = worker[w].at + 1]
           two == [one EXCEPT ![w].size = 0]
           after == [two EXCEPT ![w].step = "enter"]
<1>1. worker \in [Workers -> Spot]
  BY DEF ScannerTypes
<1>2. worker' = after
  BY DEF Scan!Forward
<1>3. worker[w].at + 1 \in Nat
  BY <1>1 DEF Spot
<1>4. /\ one \in [Workers -> Spot] /\ \A v \in Workers \ {w} : one[v] = worker[v]
      /\ one[w].task = worker[w].task /\ one[w].at = worker[w].at + 1
  BY <1>1, <1>3 DEF Spot
<1> HIDE DEF one
<1>5. /\ two \in [Workers -> Spot] /\ \A v \in Workers \ {w} : two[v] = worker[v]
      /\ two[w].task = worker[w].task /\ two[w].at = worker[w].at + 1 /\ two[w].size = 0
  BY <1>4 DEF Spot
<1> HIDE DEF two
<1>6. /\ after \in [Workers -> Spot] /\ \A v \in Workers \ {w} : after[v] = worker[v]
      /\ after[w].task = worker[w].task /\ after[w].at = worker[w].at + 1 /\ after[w].size = 0 /\ after[w].step = "enter"
  BY <1>5 DEF Spot
<1> HIDE DEF after
<1>. QED
  BY <1>1, <1>2, <1>6

\* The worker goes on to the next place of its task.
LEMMA PlaceCounted ==
    ASSUME RealTrees, ScannerTypes, WorkInv(jobs, worker), NEW C, PlaceInv(C, jobs, worker, results, entry),
           NEW w \in Workers, Busy(worker[w]), Ahead(worker[w]) \in Scan!All, Scan!Forward(w),
           NEW ent, \A t \in Scan!Tasks \ {worker[w].task} : ent[t] = entry[t]
    PROVE  /\ worker' \in [Workers -> Spot] /\ WorkInv(jobs, worker') /\ Ahead(worker[w]) \notin C
           /\ PlaceInv(C \cup {Ahead(worker[w])}, jobs, worker', results, ent)
<1> DEFINE e == Ahead(worker[w])
           t == worker[w].task
<1>1. /\ \A v \in Workers : worker[v] \in Spot
      /\ \A v \in Workers \ {w} : worker'[v] = worker[v]
      /\ worker'[w].task = t /\ worker'[w].at = worker[w].at + 1 /\ worker'[w].size = 0 /\ worker'[w].step = "enter"
      /\ worker' \in [Workers -> Spot]
  BY Goes
<1>2. worker[w].at \in Nat /\ t \in Scan!Tasks /\ t < jobs /\ worker[w].at \in DOMAIN tree[t] /\ jobs \in Nat
  <2>1. PICK u \in Scan!Tasks : \E i \in DOMAIN tree[u] : e = <<u, i>>
    BY TreeSets DEF ScannerTypes
  <2>2. t = u /\ worker[w].at \in DOMAIN tree[u]
    BY <2>1 DEF Ahead
  <2>. QED
    BY <1>1, <2>2 DEF WorkInv, Spot, ScannerTypes
<1>3. WorkInv(jobs, worker')
  BY <1>1, <1>2 DEF WorkInv, Busy, Recording, Ahead
<1>4. e \notin C
  BY <1>2 DEF PlaceInv, Ahead
<1>5. C \cup {e} \subseteq Scan!All /\ \A o \in C \cup {e} : o[1] < jobs
  BY <1>2 DEF PlaceInv, Ahead
<1>6. ASSUME NEW v \in Workers, Busy(worker'[v])
      PROVE  \A i \in DOMAIN tree[worker'[v].task] : <<worker'[v].task, i>> \in C \cup {e} <=> i < worker'[v].at
  <2>1. CASE v = w
    <3> SUFFICES ASSUME NEW i \in DOMAIN tree[t] PROVE <<t, i>> \in C \cup {e} <=> i < worker[w].at + 1
      BY <1>1, <2>1
    <3>1. i \in Nat
      BY <1>2 DEF RealTrees, ScannerTypes, Scan!Tasks
    <3>2. <<t, i>> \in C <=> i < worker[w].at
      BY DEF PlaceInv
    <3>3. <<t, i>> = e <=> i = worker[w].at
      BY DEF Ahead
    <3>. QED
      BY <1>2, <3>1, <3>2, <3>3
  <2>2. CASE v # w
    <3>1. worker'[v] = worker[v] /\ Busy(worker[v]) /\ worker[v].task # t
      BY <1>1, <1>6, <2>2 DEF WorkInv
    <3>2. \A i : <<worker[v].task, i>> # e
      BY <3>1 DEF Ahead
    <3>. QED
      BY <3>1, <3>2 DEF PlaceInv
  <2>. QED
    BY <2>1, <2>2
<1>7. ASSUME NEW u \in Scan!Tasks, u < jobs
      PROVE  \/ \E v \in Workers : Busy(worker'[v]) /\ worker'[v].task = u
             \/ results[u] = Failed
             \/ results[u] = ent[u] /\ \A i \in DOMAIN tree[u] : <<u, i>> \in C \cup {e}
  <2>1. CASE u = t
    BY <1>1, <2>1 DEF Busy
  <2>2. CASE u # t
    <3>1. \A v \in Workers : Busy(worker[v]) /\ worker[v].task = u => Busy(worker'[v]) /\ worker'[v].task = u
      BY <1>1, <2>2
    <3>2. ent[u] = entry[u]
      BY <2>2
    <3>. QED
      BY <1>7, <3>1, <3>2 DEF PlaceInv
  <2>. QED
    BY <2>1, <2>2
<1>. QED
  BY <1>1, <1>3, <1>4, <1>5, <1>6, <1>7 DEF PlaceInv

\* A place that is no file claims nothing.
LEMMA NoClaim ==
    ASSUME ScannerTypes, NEW C, NEW D, ClaimInv(C, D, worker, claimed), NEW w \in Workers,
           ~Recording(worker[w]), Ahead(worker[w]) \notin FilePlaces, Scan!Forward(w)
    PROVE  ClaimInv(C \cup {Ahead(worker[w])}, D, worker', claimed)
<1>1. /\ \A v \in Workers \ {w} : worker'[v] = worker[v]
      /\ worker'[w].step = "enter"
  BY Goes
<1>2. \A v \in Workers : Recording(worker'[v]) <=> v # w /\ Recording(worker[v])
  BY <1>1 DEF Recording
<1>3. \A v \in Workers : Recording(worker'[v]) => worker'[v] = worker[v]
  BY <1>1, <1>2
<1>4. \A v \in Workers : Recording(worker[v]) => Recording(worker'[v]) /\ worker'[v] = worker[v]
  BY <1>1, <1>2
<1>5. (C \cup {Ahead(worker[w])}) \cap FilePlaces = C \cap FilePlaces
  OBVIOUS
<1>. QED
  BY <1>2, <1>3, <1>4, <1>5 DEF ClaimInv

\* The file of a claim is counted.
LEMMA ClaimCounted ==
    ASSUME ScannerTypes, WorkInv(jobs, worker), NEW C, NEW D, ClaimInv(C, D, worker, claimed),
           NEW w \in Workers, Recording(worker[w]), Scan!Forward(w)
    PROVE  ClaimInv(C \cup {Ahead(worker[w])}, IF worker[w].size # 0 THEN D \cup {Ino(Ahead(worker[w]))} ELSE D, worker', claimed)
<1> DEFINE e == Ahead(worker[w])
           n == Ino(e)
           DD == IF worker[w].size # 0 THEN D \cup {n} ELSE D
<1>1. /\ \A v \in Workers \ {w} : worker'[v] = worker[v]
      /\ worker'[w].step = "enter"
  BY Goes
<1>2. \A v \in Workers : Recording(worker'[v]) => v # w /\ Recording(worker[v]) /\ worker'[v] = worker[v]
  BY <1>1 DEF Recording
<1>3. \A v \in Workers \ {w} : Recording(worker[v]) => Recording(worker'[v]) /\ worker'[v] = worker[v]
  BY <1>1
<1>4. n \in claimed
  BY DEF ClaimInv
<1>5. DD \subseteq claimed /\ claimed \subseteq Scan!Inodes
  BY <1>4 DEF ClaimInv
<1>6. \A o \in (C \cup {e}) \cap FilePlaces : Ino(o) \in claimed
  BY <1>4 DEF ClaimInv
<1> HIDE DEF n, e
<1>7. \A v \in Workers : Recording(worker'[v]) => Ino(Ahead(worker'[v])) \in claimed
  BY <1>2 DEF ClaimInv
<1>8. ASSUME NEW v \in Workers, Recording(worker'[v]), worker'[v].size # 0
      PROVE  worker'[v].size = Scan!SizeOf(Ino(Ahead(worker'[v]))) /\ Ino(Ahead(worker'[v])) \notin DD
  <2>1. v # w /\ Recording(worker[v]) /\ worker'[v] = worker[v] /\ worker[v].size # 0
    BY <1>2, <1>8
  <2>2. worker[v].size = Scan!SizeOf(Ino(Ahead(worker[v]))) /\ Ino(Ahead(worker[v])) \notin D
    BY <2>1 DEF ClaimInv
  <2>3. worker[w].size # 0 => Ino(Ahead(worker[v])) # n
    BY <2>1 DEF ClaimInv, n, e
  <2>. QED
    BY <2>1, <2>2, <2>3
<1>9. \A v, u \in Workers :
          /\ Recording(worker'[v]) /\ worker'[v].size # 0 /\ Recording(worker'[u]) /\ worker'[u].size # 0
          /\ Ino(Ahead(worker'[v])) = Ino(Ahead(worker'[u]))
          => v = u
  BY <1>2 DEF ClaimInv
<1>10. ASSUME NEW m \in claimed \ DD, Scan!SizeOf(m) # 0
       PROVE  \E v \in Workers : Recording(worker'[v]) /\ worker'[v].size # 0 /\ Ino(Ahead(worker'[v])) = m
  <2>1. m \in claimed \ D
    OBVIOUS
  <2>2. PICK v \in Workers : Recording(worker[v]) /\ worker[v].size # 0 /\ Ino(Ahead(worker[v])) = m
    BY <1>10, <2>1 DEF ClaimInv
  <2>3. v # w
    <3> SUFFICES ASSUME v = w PROVE FALSE
      OBVIOUS
    <3>1. worker[w].size # 0 /\ m = n
      BY <2>2 DEF n, e
    <3>. QED
      BY <3>1
  <2>. QED
    BY <1>3, <2>2, <2>3
<1> HIDE DEF DD
<1>11. ClaimInv(C \cup {e}, DD, worker', claimed)
  BY <1>5, <1>6, <1>7, <1>8, <1>9, <1>10 DEF ClaimInv
<1>. QED
  BY <1>11 DEF DD, n, e

\* What is counted is never more than du's answer, and is du's answer when everything was counted.
LEMMA TotalsBounded ==
    ASSUME RealTrees, tree \in Trees, NEW C \in SUBSET Scan!All, NEW D \in SUBSET Scan!Inodes, NEW all,
           TotalInv(C, D, all)
    PROVE  /\ all.size <= Scan!DiskUsage.size /\ all.files <= Scan!DiskUsage.files
           /\ C = Scan!All /\ (\A n \in Scan!Inodes \ D : Scan!SizeOf(n) = 0) => all = Scan!DiskUsage
<1> DEFINE I == Scan!Inodes
           W == [n \in I |-> Scan!SizeOf(n)]
           H == [e \in DirPlaces |-> Bytes(e)]
           weight == Weight(D)
           held == Held(C)
<1>1. /\ IsFiniteSet(I) /\ IsFiniteSet(DirPlaces) /\ IsFiniteSet(FilePlaces)
      /\ FilePlaces \subseteq Scan!All /\ DirPlaces \subseteq Scan!All
      /\ \A n \in I : Scan!SizeOf(n) \in Nat
      /\ \A e \in DirPlaces : Bytes(e) \in Nat
  BY TreeSets
<1>2. W \in [I -> Nat] /\ weight \in [I -> Nat] /\ \A n \in I : weight[n] <= W[n]
  BY <1>1 DEF Weight
<1>3. H \in [DirPlaces -> Nat] /\ held \in [DirPlaces -> Nat] /\ \A e \in DirPlaces : held[e] <= H[e]
  BY <1>1 DEF Held
<1>4. Scan!DiskUsage = [size |-> RootSize + Scan!Total(W) + Scan!Total(H), files |-> Cardinality(FilePlaces),
                        directories |-> 1 + Cardinality(DirPlaces)]
  <2>1. Scan!DiskUsage = [size |-> RootSize + Scan!Total(W) + Scan!Total(H), files |-> Scan!Cardinality(FilePlaces),
                          directories |-> 1 + Scan!Cardinality(DirPlaces)]
    BY DEF Scan!DiskUsage, FilePlaces, DirPlaces, Bytes
  <2>2. \A S : Scan!Cardinality(S) = Cardinality(S)
    BY Zenon DEF Scan!Cardinality, Cardinality
  <2>. QED
    BY <2>1, <2>2
<1>5. (\A n \in I \ D : Scan!SizeOf(n) = 0) => weight = W
  BY DEF Weight
<1>6. C = Scan!All => held = H
  BY <1>1 DEF Held
<1>7. C = Scan!All => C \cap FilePlaces = FilePlaces /\ C \cap DirPlaces = DirPlaces
  BY <1>1
<1>8. Cardinality(C \cap FilePlaces) <= Cardinality(FilePlaces)
  BY <1>1, FS_Subset
<1>9. all = [size |-> RootSize + Scan!Total(weight) + Scan!Total(held),
             files |-> Cardinality(C \cap FilePlaces), directories |-> 1 + Cardinality(C \cap DirPlaces)]
  BY DEF TotalInv
<1> HIDE DEF W, H, weight, held
<1>10. /\ Scan!Total(W) \in Nat /\ Scan!Total(weight) \in Nat
       /\ Scan!Total(H) \in Nat /\ Scan!Total(held) \in Nat
  BY <1>1, <1>2, <1>3, TotalCounts
<1>11. Scan!Total(weight) <= Scan!Total(W)
  BY <1>1, <1>2, TotalMonotone
<1>12. Scan!Total(held) <= Scan!Total(H)
  BY <1>1, <1>3, TotalMonotone
<1>13. RootSize \in Nat
  BY DEF RealTrees
<1>14. all.size <= Scan!DiskUsage.size
  BY <1>4, <1>9, <1>10, <1>11, <1>12, <1>13
<1>15. all.files <= Scan!DiskUsage.files
  BY <1>4, <1>8, <1>9
<1>16. C = Scan!All /\ (\A n \in I \ D : Scan!SizeOf(n) = 0) => all = Scan!DiskUsage
  BY <1>4, <1>5, <1>6, <1>7, <1>9
<1>. QED
  BY <1>14, <1>15, <1>16

\* A link, a mount or an entry that is gone counts nothing.
LEMMA NothingCounted ==
    ASSUME NEW C, NEW D, NEW all, TotalInv(C, D, all), NEW e, e \notin FilePlaces, e \notin DirPlaces
    PROVE  TotalInv(C \cup {e}, D, all)
<1>1. (C \cup {e}) \cap FilePlaces = C \cap FilePlaces /\ (C \cup {e}) \cap DirPlaces = C \cap DirPlaces
  OBVIOUS
<1>2. Held(C \cup {e}) = Held(C)
  BY DEF Held
<1>. QED
  BY <1>1, <1>2 DEF TotalInv

\* A directory counts itself.
LEMMA DirectoryCounted ==
    ASSUME RealTrees, tree \in Trees, NEW C \in SUBSET Scan!All, NEW D \in SUBSET Scan!Inodes, NEW all,
           TotalInv(C, D, all), NEW e \in DirPlaces, e \notin C
    PROVE  TotalInv(C \cup {e}, D, Scan!Plus(all, [size |-> Bytes(e), files |-> 0, directories |-> 1]))
<1> DEFINE I == Scan!Inodes
           held == Held(C)
           more == Held(C \cup {e})
           weight == Weight(D)
           files == C \cap FilePlaces
           dirs == C \cap DirPlaces
<1>1. /\ IsFiniteSet(I) /\ IsFiniteSet(DirPlaces) /\ IsFiniteSet(FilePlaces)
      /\ DirPlaces \subseteq Scan!All /\ FilePlaces \cap DirPlaces = {}
      /\ \A n \in I : Scan!SizeOf(n) \in Nat
      /\ \A o \in DirPlaces : Bytes(o) \in Nat
  BY TreeSets
<1>2. held \in [DirPlaces -> Nat] /\ more \in [DirPlaces -> Nat]
  BY <1>1 DEF Held
<1>3. more[e] = held[e] + Bytes(e) /\ (\A o \in DirPlaces \ {e} : more[o] = held[o]) /\ Bytes(e) \in Nat
  BY <1>1 DEF Held
<1>4. weight \in [I -> Nat]
  BY <1>1 DEF Weight
<1>5. (C \cup {e}) \cap FilePlaces = files /\ (C \cup {e}) \cap DirPlaces = dirs \cup {e} /\ e \notin dirs
  BY <1>1
<1>6. IsFiniteSet(files) /\ IsFiniteSet(dirs)
  BY <1>1, FS_Subset
<1>7. all = [size |-> RootSize + Scan!Total(weight) + Scan!Total(held),
             files |-> Cardinality(files), directories |-> 1 + Cardinality(dirs)]
  BY DEF TotalInv
<1> HIDE DEF files, dirs, held, more, weight
<1>8. Cardinality(files) \in Nat /\ Cardinality(dirs) \in Nat
  BY <1>6, FS_CardinalityType
<1>9. Cardinality(dirs \cup {e}) = Cardinality(dirs) + 1
  BY <1>5, <1>6, FS_AddElement
<1>10. Scan!Total(weight) \in Nat /\ Scan!Total(held) \in Nat
  BY <1>1, <1>2, <1>4, TotalCounts
<1>11. Scan!Total(more) = Scan!Total(held) + Bytes(e)
  BY <1>1, <1>2, <1>3, TotalGrows
<1>12. RootSize \in Nat /\ Bytes(e) \in Nat
  BY <1>3 DEF RealTrees
<1> DEFINE node == [size |-> Bytes(e), files |-> 0, directories |-> 1]
<1>13. Scan!Plus(all, node) = [size |-> RootSize + Scan!Total(weight) + Scan!Total(more),
             files |-> Cardinality(files), directories |-> 1 + Cardinality(dirs \cup {e})]
  <2> DEFINE a == Scan!Total(weight)
             b == Scan!Total(held)
             x == Cardinality(files)
             y == Cardinality(dirs)
  <2>1. Scan!Plus(all, node) = [size |-> RootSize + a + b + Bytes(e), files |-> x + 0, directories |-> 1 + y + 1]
    BY <1>7 DEF Scan!Plus
  <2>2. /\ RootSize + a + b + Bytes(e) = RootSize + a + (b + Bytes(e)) /\ x + 0 = x /\ 1 + y + 1 = 1 + (y + 1)
    BY <1>8, <1>10, <1>12
  <2> HIDE DEF a, b, x, y
  <2>3. Scan!Plus(all, node) = [size |-> RootSize + a + (b + Bytes(e)), files |-> x, directories |-> 1 + (y + 1)]
    BY <2>1, <2>2
  <2>. QED
    BY <2>3, <1>9, <1>11 DEF a, b, x, y
<1>. QED
  BY <1>5, <1>13 DEF TotalInv, more, weight

\* A size that is not 0 is that of an inode whose size was not counted.
Fresh(e, s, D) == s # 0 => s = Scan!SizeOf(Ino(e)) /\ Ino(e) \notin D

\* A file counts itself, and the size of its inode when no other link did.
LEMMA FileCounted ==
    ASSUME RealTrees, tree \in Trees, NEW C \in SUBSET Scan!All, NEW D \in SUBSET Scan!Inodes, NEW all,
           TotalInv(C, D, all), NEW e \in FilePlaces, e \notin C, NEW s, Fresh(e, s, D)
    PROVE  TotalInv(C \cup {e}, IF s # 0 THEN D \cup {Ino(e)} ELSE D,
                    Scan!Plus(all, [size |-> s, files |-> 1, directories |-> 0]))
<1> DEFINE I == Scan!Inodes
           n == Ino(e)
           DD == IF s # 0 THEN D \cup {n} ELSE D
           held == Held(C)
           weight == Weight(D)
           more == Weight(DD)
           files == C \cap FilePlaces
           dirs == C \cap DirPlaces
<1>1. /\ IsFiniteSet(I) /\ IsFiniteSet(DirPlaces) /\ IsFiniteSet(FilePlaces)
      /\ FilePlaces \subseteq Scan!All /\ FilePlaces \cap DirPlaces = {}
      /\ \A m \in I : Scan!SizeOf(m) \in Nat
      /\ \A o \in DirPlaces : Bytes(o) \in Nat
      /\ n \in I
  BY TreeSets
<1>2. held \in [DirPlaces -> Nat] /\ Held(C \cup {e}) = held
  BY <1>1 DEF Held
<1>3. weight \in [I -> Nat] /\ more \in [I -> Nat]
  BY <1>1 DEF Weight
<1>4. s \in Nat /\ more[n] = weight[n] + s /\ \A m \in I \ {n} : more[m] = weight[m]
  BY <1>1 DEF Weight, Fresh
<1>5. (C \cup {e}) \cap FilePlaces = files \cup {e} /\ (C \cup {e}) \cap DirPlaces = dirs /\ e \notin files
  BY <1>1
<1>6. IsFiniteSet(files) /\ IsFiniteSet(dirs)
  BY <1>1, FS_Subset
<1>7. all = [size |-> RootSize + Scan!Total(weight) + Scan!Total(held),
             files |-> Cardinality(files), directories |-> 1 + Cardinality(dirs)]
  BY DEF TotalInv
<1> HIDE DEF files, dirs, held, more, weight, n
<1>8. Cardinality(files) \in Nat /\ Cardinality(dirs) \in Nat
  BY <1>6, FS_CardinalityType
<1>9. Cardinality(files \cup {e}) = Cardinality(files) + 1
  BY <1>5, <1>6, FS_AddElement
<1>10. Scan!Total(weight) \in Nat /\ Scan!Total(held) \in Nat
  BY <1>1, <1>2, <1>3, TotalCounts
<1>11. Scan!Total(more) = Scan!Total(weight) + s
  BY <1>1, <1>3, <1>4, TotalGrows
<1>12. RootSize \in Nat
  BY DEF RealTrees
<1> DEFINE node == [size |-> s, files |-> 1, directories |-> 0]
<1>13. Scan!Plus(all, node) = [size |-> RootSize + Scan!Total(more) + Scan!Total(held),
             files |-> Cardinality(files \cup {e}), directories |-> 1 + Cardinality(dirs)]
  <2> DEFINE a == Scan!Total(weight)
             b == Scan!Total(held)
             x == Cardinality(files)
             y == Cardinality(dirs)
  <2>1. Scan!Plus(all, node) = [size |-> RootSize + a + b + s, files |-> x + 1, directories |-> 1 + y + 0]
    BY <1>7 DEF Scan!Plus
  <2>2. RootSize + a + b + s = RootSize + (a + s) + b /\ 1 + y + 0 = 1 + y
    BY <1>4, <1>8, <1>10, <1>12
  <2> HIDE DEF a, b, x, y
  <2>3. Scan!Plus(all, node) = [size |-> RootSize + (a + s) + b, files |-> x + 1, directories |-> 1 + y]
    BY <2>1, <2>2
  <2>. QED
    BY <2>3, <1>9, <1>11 DEF a, b, x, y
<1> HIDE DEF DD, node
<1>14. TotalInv(C \cup {e}, DD, Scan!Plus(all, node))
  BY <1>2, <1>5, <1>13 DEF TotalInv, more
<1>. QED
  BY <1>14 DEF DD, node, n

\* What is published adds up, and is never more than du's answer.
LEMMA Publishes ==
    ASSUME NEW all, NEW shown, SumInv(all, shown), PublishInv(published), Scan!MayPublish(all, shown),
           all.size <= Scan!DiskUsage.size, all.files <= Scan!DiskUsage.files
    PROVE  PublishInv(published')
<1>1. CASE published' = published
  BY <1>1
<1>2. CASE published' = [totals |-> all, entries |-> Scan!SumOf(shown)]
  BY <1>2 DEF PublishInv, SumInv
<1>. QED
  BY <1>1, <1>2 DEF Scan!MayPublish

\* Where a worker is.
LEMMA Whereabouts ==
    ASSUME RealTrees, ScannerTypes, WorkInv(jobs, worker), NEW w \in Workers, Busy(worker[w]),
           worker[w].at <= Len(tree[worker[w].task])
    PROVE  /\ worker[w].task \in Scan!Tasks /\ Ahead(worker[w]) \in Scan!All
           /\ Scan!Here(w) = tree[Ahead(worker[w])[1]][Ahead(worker[w])[2]]
<1>1. worker[w].task \in Scan!Tasks /\ worker[w].at \in Nat /\ worker[w].at # 0
  BY DEF WorkInv, ScannerTypes, Spot
<1>2. /\ DOMAIN tree[worker[w].task] = 1..Len(tree[worker[w].task])
      /\ Len(tree[worker[w].task]) \in Nat
  BY <1>1 DEF RealTrees, ScannerTypes, Scan!Tasks
<1>3. worker[w].at \in DOMAIN tree[worker[w].task]
  BY <1>1, <1>2
<1>. QED
  BY <1>1, <1>3, TreeSets DEF Ahead, Scan!Here, ScannerTypes

\* A step that counts a place keeps the invariant.
LEMMA Recorded ==
    ASSUME RealTrees, ScanInv, NEW w \in Workers, Busy(worker[w]), Ahead(worker[w]) \in Scan!All,
           NEW node \in Sizes, Scan!recordStorageProgress(w, node), Scan!Forward(w),
           UNCHANGED <<tree, jobs, claimed, results, outcome>>,
           NEW C \in SUBSET Scan!All, NEW D \in SUBSET Scan!Inodes,
           PlaceInv(C, jobs, worker, results, entry),
           ClaimInv(C \cup {Ahead(worker[w])}, D, worker', claimed),
           TotalInv(C \cup {Ahead(worker[w])}, D, Scan!Plus(totals, node))
    PROVE  ScanInv'
<1> DEFINE e == Ahead(worker[w])
<1>1. tree \in Trees /\ ScannerTypes /\ WorkInv(jobs, worker) /\ SumInv(totals, entry) /\ PublishInv(published)
  BY DEF ScanInv, ScannerTypes
<1>2. worker[w].task \in Scan!Tasks
  BY <1>1 DEF WorkInv
<1>3. totals' = Scan!Plus(totals, node) /\ entry' = [entry EXCEPT ![worker[w].task] = Scan!Plus(@, node)]
  BY DEF Scan!recordStorageProgress
<1>4. Scan!MayPublish(totals', entry')
  BY DEF Scan!recordStorageProgress
<1>5. entry' \in [Scan!Tasks -> Sizes] /\ totals' \in Sizes /\ SumInv(totals', entry')
  BY <1>1, <1>2, <1>3, SumGrows
<1>6. \A t \in Scan!Tasks \ {worker[w].task} : entry'[t] = entry[t]
  BY <1>1, <1>2, <1>3 DEF ScannerTypes
<1>7. /\ worker' \in [Workers -> Spot] /\ WorkInv(jobs, worker')
      /\ PlaceInv(C \cup {e}, jobs, worker', results, entry')
  BY <1>1, <1>6, PlaceCounted
<1>8. C \cup {e} \in SUBSET Scan!All
  OBVIOUS
<1>9. totals'.size <= Scan!DiskUsage.size /\ totals'.files <= Scan!DiskUsage.files
  BY <1>1, <1>3, <1>8, TotalsBounded
<1>10. PublishInv(published')
  BY <1>1, <1>4, <1>5, <1>9, Publishes
<1>11. outcome \in {None, Failed}
  BY DEF ScanInv, OutcomeInv
<1>12. OutcomeInv(jobs', worker', results', totals', outcome')
  BY <1>11 DEF OutcomeInv
<1>13. ScannerTypes'
  BY <1>1, <1>5, <1>7 DEF ScannerTypes, Scan!Tasks
<1>14. Progress(jobs', worker', results', entry', claimed', totals')
  BY <1>3, <1>7, <1>8 DEF Progress
<1>. QED
  BY <1>5, <1>7, <1>10, <1>12, <1>13, <1>14, ScanStays

\* CountDirectory: a place of its own is added to what was counted.
LEMMA CountDirectoryKeeps ==
    ASSUME RealTrees, ScanInv, NEW w \in Workers, Scan!CountDirectory(w)
    PROVE  ScanInv'
<1> DEFINE e == Ahead(worker[w])
           node == [size |-> Scan!Here(w).size, files |-> 0, directories |-> 1]
<1>1. /\ worker[w].step = "enter" /\ worker[w].at <= Len(tree[worker[w].task])
      /\ Scan!Here(w).kind \in {"dir", "sealed"}
      /\ Scan!recordStorageProgress(w, node) /\ Scan!Forward(w)
      /\ UNCHANGED <<tree, jobs, claimed, results, outcome>>
  BY DEF Scan!CountDirectory, Scan!AtEntry
<1>2. tree \in Trees /\ ScannerTypes /\ WorkInv(jobs, worker)
  BY DEF ScanInv, ScannerTypes
<1>3. Busy(worker[w]) /\ ~Recording(worker[w])
  BY <1>1 DEF Busy, Recording
<1>4. e \in Scan!All /\ Scan!Here(w) = tree[e[1]][e[2]]
  BY <1>1, <1>2, <1>3, Whereabouts
<1>5. e \in DirPlaces /\ e \notin FilePlaces /\ Scan!Here(w).size = Bytes(e)
  BY <1>1, <1>4 DEF DirPlaces, FilePlaces, Scan!Kind, Bytes
<1>6. node \in Sizes /\ node = [size |-> Bytes(e), files |-> 0, directories |-> 1]
  BY <1>2, <1>4, <1>5, TreeSets DEF Sizes
<1>7. PICK C \in SUBSET Scan!All, D \in SUBSET Scan!Inodes :
         PlaceInv(C, jobs, worker, results, entry) /\ ClaimInv(C, D, worker, claimed) /\ TotalInv(C, D, totals)
  BY DEF ScanInv, Progress
<1>8. e \notin C
  <2>1. \A t \in Scan!Tasks \ {worker[w].task} : entry[t] = entry[t]
    OBVIOUS
  <2>. QED
    BY <1>1, <1>2, <1>3, <1>4, <1>7, <2>1, PlaceCounted
<1>9. ClaimInv(C \cup {e}, D, worker', claimed)
  BY <1>1, <1>2, <1>3, <1>5, <1>7, NoClaim
<1>10. TotalInv(C \cup {e}, D, Scan!Plus(totals, node))
  BY <1>2, <1>5, <1>6, <1>7, <1>8, DirectoryCounted
<1>. QED
  BY <1>1, <1>3, <1>4, <1>6, <1>7, <1>9, <1>10, Recorded

\* CountFile: the size that was claimed is added, once.
LEMMA CountFileKeeps ==
    ASSUME RealTrees, ScanInv, NEW w \in Workers, Scan!CountFile(w)
    PROVE  ScanInv'
<1> DEFINE e == Ahead(worker[w])
           s == worker[w].size
           node == [size |-> s, files |-> 1, directories |-> 0]
<1>1. /\ worker[w].step = "record"
      /\ Scan!recordStorageProgress(w, node) /\ Scan!Forward(w)
      /\ UNCHANGED <<tree, jobs, claimed, results, outcome>>
  BY DEF Scan!CountFile
<1>2. tree \in Trees /\ ScannerTypes /\ WorkInv(jobs, worker)
  BY DEF ScanInv, ScannerTypes
<1>3. Busy(worker[w]) /\ Recording(worker[w])
  BY <1>1 DEF Busy, Recording
<1>4. e \in FilePlaces /\ e \in Scan!All /\ Ino(e) \in Scan!Inodes
  BY <1>2, <1>3, TreeSets DEF WorkInv
<1>5. node \in Sizes
  BY <1>2 DEF Sizes, ScannerTypes, Spot
<1>6. PICK C \in SUBSET Scan!All, D \in SUBSET Scan!Inodes :
         PlaceInv(C, jobs, worker, results, entry) /\ ClaimInv(C, D, worker, claimed) /\ TotalInv(C, D, totals)
  BY DEF ScanInv, Progress
<1>7. e \notin C
  <2>1. \A t \in Scan!Tasks \ {worker[w].task} : entry[t] = entry[t]
    OBVIOUS
  <2> HIDE DEF node
  <2>. QED
    BY <1>1, <1>2, <1>3, <1>4, <1>6, <2>1, PlaceCounted
<1> DEFINE DD == IF s # 0 THEN D \cup {Ino(e)} ELSE D
<1>8. ClaimInv(C \cup {e}, DD, worker', claimed)
  BY <1>1, <1>2, <1>3, <1>6, ClaimCounted
<1>9. Fresh(e, s, D)
  BY <1>3, <1>6 DEF ClaimInv, Fresh
<1>10. TotalInv(C \cup {e}, DD, Scan!Plus(totals, node))
  <2>1. tree \in Trees /\ e \in FilePlaces /\ e \notin C
    BY <1>2, <1>4, <1>7
  <2>2. TotalInv(C, D, totals)
    BY <1>6
  <2> HIDE DEF s, e
  <2>. QED
    BY <1>9, <2>1, <2>2, FileCounted, Zenon
<1>11. DD \in SUBSET Scan!Inodes
  BY <1>4
<1> HIDE DEF DD, node
<1>. QED
  BY <1>1, <1>3, <1>4, <1>5, <1>6, <1>8, <1>10, <1>11, Recorded

\* PassOver: what is passed over is not counted.
LEMMA PassOverKeeps ==
    ASSUME RealTrees, ScanInv, NEW w \in Workers, Scan!PassOver(w)
    PROVE  ScanInv'
<1> DEFINE e == Ahead(worker[w])
<1>1. /\ worker[w].step = "enter" /\ worker[w].at <= Len(tree[worker[w].task])
      /\ Scan!Here(w).kind \in {"link", "gone", "mount"} /\ Scan!Forward(w)
      /\ UNCHANGED <<tree, jobs, claimed, totals, entry, published, results, outcome>>
  BY DEF Scan!PassOver, Scan!AtEntry
<1>2. tree \in Trees /\ ScannerTypes /\ WorkInv(jobs, worker)
  BY DEF ScanInv, ScannerTypes
<1>3. Busy(worker[w]) /\ ~Recording(worker[w])
  BY <1>1 DEF Busy, Recording
<1>4. e \in Scan!All /\ Scan!Here(w) = tree[e[1]][e[2]]
  BY <1>1, <1>2, <1>3, Whereabouts
<1>5. e \notin DirPlaces /\ e \notin FilePlaces
  BY <1>1, <1>4 DEF DirPlaces, FilePlaces, Scan!Kind
<1>6. PICK C \in SUBSET Scan!All, D \in SUBSET Scan!Inodes :
         PlaceInv(C, jobs, worker, results, entry) /\ ClaimInv(C, D, worker, claimed) /\ TotalInv(C, D, totals)
  BY DEF ScanInv, Progress
<1>7. /\ worker' \in [Workers -> Spot] /\ WorkInv(jobs, worker')
      /\ PlaceInv(C \cup {e}, jobs, worker', results, entry)
  <2>1. \A t \in Scan!Tasks \ {worker[w].task} : entry[t] = entry[t]
    OBVIOUS
  <2>. QED
    BY <1>1, <1>2, <1>3, <1>4, <1>6, <2>1, PlaceCounted
<1>8. ClaimInv(C \cup {e}, D, worker', claimed)
  BY <1>1, <1>2, <1>3, <1>5, <1>6, NoClaim
<1>9. TotalInv(C \cup {e}, D, totals)
  BY <1>5, <1>6, NothingCounted
<1>10. C \cup {e} \in SUBSET Scan!All
  BY <1>4
<1>11. Progress(jobs', worker', results', entry', claimed', totals')
  BY <1>1, <1>7, <1>8, <1>9, <1>10 DEF Progress
<1>12. ScannerTypes'
  BY <1>1, <1>2, <1>7 DEF ScannerTypes, Scan!Tasks
<1>13. outcome \in {None, Failed}
  BY <1>3 DEF ScanInv, OutcomeInv
<1>14. OutcomeInv(jobs', worker', results', totals', outcome')
  BY <1>1, <1>13 DEF OutcomeInv
<1>15. SumInv(totals', entry') /\ PublishInv(published')
  BY <1>1 DEF ScanInv
<1>. QED
  BY <1>1, <1>7, <1>11, <1>12, <1>14, <1>15, ScanStays

-----------------------------------------------------------------------------
(* The steps of a scan. *)

\* A worker that counts nothing keeps the invariant when it keeps its part of it.
LEMMA Moved ==
    ASSUME ScanInv, ScannerTypes', WorkInv(jobs', worker'), UNCHANGED <<tree, totals, entry, published, outcome>>,
           outcome \in {None, Failed}, NEW C \in SUBSET Scan!All, NEW D \in SUBSET Scan!Inodes,
           PlaceInv(C, jobs', worker', results', entry), ClaimInv(C, D, worker', claimed'), TotalInv(C, D, totals)
    PROVE  ScanInv'
<1>1. Progress(jobs', worker', results', entry', claimed', totals')
  BY DEF Progress
<1>2. OutcomeInv(jobs', worker', results', totals', outcome')
  BY DEF OutcomeInv
<1>3. SumInv(totals', entry') /\ PublishInv(published')
  BY DEF ScanInv
<1>. QED
  BY <1>1, <1>2, <1>3, ScanStays

\* Who claims nothing before and after a step may come and go.
LEMMA ClaimsStay ==
    ASSUME NEW C, NEW D, ClaimInv(C, D, worker, claimed), claimed' = claimed, NEW w \in Workers,
           ~Recording(worker[w]), ~Recording(worker'[w]), \A v \in Workers \ {w} : worker'[v] = worker[v]
    PROVE  ClaimInv(C, D, worker', claimed')
<1>1. \A v \in Workers : Recording(worker'[v]) => v # w /\ Recording(worker[v]) /\ worker'[v] = worker[v]
  OBVIOUS
<1>2. \A v \in Workers : Recording(worker[v]) => Recording(worker'[v]) /\ worker'[v] = worker[v]
  OBVIOUS
<1>. QED
  BY <1>1, <1>2 DEF ClaimInv

\* The next task is new: no worker has it, and none of its entries was counted.
LEMMA TakeKeeps ==
    ASSUME RealTrees, ScanInv, NEW w \in Workers, Scan!Take(w)
    PROVE  ScanInv'
<1> DEFINE new == [Scan!Idle EXCEPT !.task = jobs, !.at = 1, !.step = "enter"]
<1>1. /\ worker[w] = Scan!Idle /\ jobs <= Len(tree) /\ jobs' = jobs + 1
      /\ worker' = [worker EXCEPT ![w] = new]
      /\ UNCHANGED <<tree, claimed, totals, entry, published, results, outcome>>
  BY DEF Scan!Take
<1>2. tree \in Trees /\ ScannerTypes /\ WorkInv(jobs, worker) /\ jobs \in Nat \ {0}
  BY DEF ScanInv, ScannerTypes
<1>3. new.task = jobs /\ new.at = 1 /\ new.size = 0 /\ new.step = "enter" /\ new \in Spot
  BY <1>2 DEF Spot, Scan!Idle
<1> HIDE DEF new
<1>4. worker' \in [Workers -> Spot] /\ worker'[w] = new /\ \A v \in Workers \ {w} : worker'[v] = worker[v]
  BY <1>1, <1>2, <1>3 DEF ScannerTypes
<1>5. ~Busy(worker[w]) /\ ~Recording(worker[w])
  BY <1>1 DEF Busy, Recording, Scan!Idle
<1>6. ~Recording(worker'[w]) /\ Busy(worker'[w])
  BY <1>3, <1>4 DEF Busy, Recording
<1>7. Len(tree) \in Nat /\ Scan!Tasks = 1..Len(tree) /\ \A i \in Scan!Tasks : DOMAIN tree[i] = 1..Len(tree[i])
  BY <1>2 DEF RealTrees, Scan!Tasks
<1>8. jobs \in Scan!Tasks /\ jobs \in Nat /\ jobs + 1 \in Nat \ {0} /\ Scan!Tasks \subseteq Nat
  BY <1>1, <1>2, <1>7
<1>9. \A v \in Workers \ {w} : Busy(worker[v]) => worker[v].task \in Scan!Tasks /\ worker[v].task < jobs
  BY <1>2 DEF WorkInv
<1>10. WorkInv(jobs', worker')
  <2>1. \A v \in Workers : Busy(worker'[v]) =>
           worker'[v].task \in Scan!Tasks /\ worker'[v].task < jobs' /\ worker'[v].at # 0
    <3> SUFFICES ASSUME NEW v \in Workers, Busy(worker'[v])
                 PROVE  worker'[v].task \in Scan!Tasks /\ worker'[v].task < jobs' /\ worker'[v].at # 0
      OBVIOUS
    <3>1. CASE v = w
      BY <1>1, <1>3, <1>4, <1>8, <3>1
    <3>2. CASE v # w
      <4>1. worker'[v] = worker[v] /\ Busy(worker[v])
        BY <1>4, <3>2
      <4>2. worker[v].task \in Scan!Tasks /\ worker[v].task < jobs /\ worker[v].at # 0
        BY <1>2, <4>1 DEF WorkInv
      <4>3. worker[v].task < jobs + 1
        BY <1>8, <4>2
      <4>. QED
        BY <1>1, <4>1, <4>2, <4>3
    <3>. QED
      BY <3>1, <3>2
  <2>2. \A v \in Workers : Recording(worker'[v]) => Ahead(worker'[v]) \in FilePlaces
    BY <1>2, <1>4, <1>6 DEF WorkInv
  <2>3. \A v, u \in Workers : Busy(worker'[v]) /\ Busy(worker'[u]) /\ worker'[v].task = worker'[u].task => v = u
    <3> SUFFICES ASSUME NEW v \in Workers, NEW u \in Workers, Busy(worker'[v]), Busy(worker'[u]),
                        worker'[v].task = worker'[u].task, v # u
                 PROVE  FALSE
      OBVIOUS
    <3>1. CASE v = w
      BY <1>3, <1>4, <1>8, <1>9, <3>1
    <3>2. CASE u = w
      BY <1>3, <1>4, <1>8, <1>9, <3>2
    <3>3. CASE v # w /\ u # w
      BY <1>2, <1>4, <3>3 DEF WorkInv
    <3>. QED
      BY <3>1, <3>2, <3>3
  <2>. QED
    BY <2>1, <2>2, <2>3 DEF WorkInv
<1>11. PICK C \in SUBSET Scan!All, D \in SUBSET Scan!Inodes :
          PlaceInv(C, jobs, worker, results, entry) /\ ClaimInv(C, D, worker, claimed) /\ TotalInv(C, D, totals)
  BY DEF ScanInv, Progress
<1>12. PlaceInv(C, jobs', worker', results', entry)
  <2>1. \A e \in C : e[1] < jobs'
    <3> SUFFICES ASSUME NEW e \in C PROVE e[1] < jobs + 1
      BY <1>1
    <3>1. e[1] < jobs
      BY <1>11 DEF PlaceInv
    <3> DEFINE first == e[1]
    <3>2. first \in Scan!Tasks
      BY <1>2, TreeSets
    <3>3. first \in Nat
      BY <1>8, <3>2
    <3>4. first < jobs
      BY <3>1
    <3> HIDE DEF first
    <3>5. first < jobs + 1
      BY <1>8, <3>3, <3>4
    <3>. QED
      BY <3>5 DEF first
  <2>2. \A v \in Workers : Busy(worker'[v]) =>
           \A i \in DOMAIN tree[worker'[v].task] : <<worker'[v].task, i>> \in C <=> i < worker'[v].at
    <3> SUFFICES ASSUME NEW v \in Workers, Busy(worker'[v]), NEW i \in DOMAIN tree[worker'[v].task]
                 PROVE  <<worker'[v].task, i>> \in C <=> i < worker'[v].at
      OBVIOUS
    <3>1. CASE v = w
      <4>1. worker'[v].task = jobs /\ worker'[v].at = 1
        BY <1>3, <1>4, <3>1
      <4>2. <<jobs, i>> \notin C
        <5>1. ~(jobs < jobs)
          BY <1>8
        <5>. QED
          BY <1>11, <5>1 DEF PlaceInv
      <4>3. i \in 1..Len(tree[jobs]) /\ Len(tree[jobs]) \in Nat
        BY <1>2, <1>7, <1>8, <4>1 DEF RealTrees, Scan!Tasks
      <4>. QED
        BY <4>1, <4>2, <4>3
    <3>2. CASE v # w
      BY <1>4, <1>11, <3>2 DEF PlaceInv
    <3>. QED
      BY <3>1, <3>2
  <2>3. ASSUME NEW t \in Scan!Tasks, t < jobs'
        PROVE  \/ \E v \in Workers : Busy(worker'[v]) /\ worker'[v].task = t
               \/ results[t] = Failed
               \/ results[t] = entry[t] /\ \A i \in DOMAIN tree[t] : <<t, i>> \in C
    <3>1. CASE t = jobs
      BY <1>3, <1>4, <1>6, <3>1
    <3>2. CASE t # jobs
      <4>1. t < jobs
        BY <1>1, <1>8, <2>3, <3>2
      <4>2. \A v \in Workers : Busy(worker[v]) => v # w /\ worker'[v] = worker[v]
        BY <1>4, <1>5
      <4>. QED
        BY <1>11, <4>1, <4>2 DEF PlaceInv
    <3>. QED
      BY <3>1, <3>2
  <2>4. C \subseteq Scan!All /\ results' = results
    BY <1>1
  <2>. QED
    BY <2>1, <2>2, <2>3, <2>4 DEF PlaceInv
<1>13. ClaimInv(C, D, worker', claimed')
  BY <1>1, <1>4, <1>5, <1>6, <1>11, ClaimsStay
<1>14. ScannerTypes'
  BY <1>1, <1>2, <1>4, <1>8 DEF ScannerTypes, Scan!Tasks
<1>15. outcome \in {None, Failed}
  BY <1>1, <1>2, <1>7 DEF ScanInv, OutcomeInv
<1>. QED
  BY <1>1, <1>10, <1>11, <1>12, <1>13, <1>14, <1>15, Moved

\* Of the workers that have met an inode only one has its size to count.
LEMMA ClaimKeeps ==
    ASSUME RealTrees, ScanInv, NEW w \in Workers, Scan!claimStorageFile(w)
    PROVE  ScanInv'
<1> DEFINE e == Ahead(worker[w])
           n == Ino(e)
           s == IF n \in claimed THEN 0 ELSE Bytes(e)
           one == [worker[w] EXCEPT !.size = s]
           after == [one EXCEPT !.step = "record"]
<1>1. /\ worker[w].step = "enter" /\ worker[w].at <= Len(tree[worker[w].task])
      /\ Scan!Here(w).kind = "file" /\ claimed' = claimed \cup {Scan!Here(w).ino}
      /\ worker' = [worker EXCEPT ![w] =
            [worker[w] EXCEPT !.size = IF Scan!Here(w).ino \in claimed THEN 0 ELSE Scan!Here(w).size, !.step = "record"]]
      /\ UNCHANGED <<tree, jobs, totals, entry, published, results, outcome>>
  BY DEF Scan!claimStorageFile, Scan!AtEntry
<1>2. tree \in Trees /\ ScannerTypes /\ WorkInv(jobs, worker)
  BY DEF ScanInv, ScannerTypes
<1>3. Busy(worker[w]) /\ ~Recording(worker[w])
  BY <1>1 DEF Busy, Recording
<1>4. e \in Scan!All /\ Scan!Here(w) = tree[e[1]][e[2]]
  BY <1>1, <1>2, <1>3, Whereabouts
<1>5. e \in FilePlaces /\ Scan!Here(w).ino = n /\ Scan!Here(w).size = Bytes(e)
  BY <1>1, <1>4 DEF FilePlaces, Scan!Kind, Ino, Bytes
<1>6. n \in Scan!Inodes /\ Scan!SizeOf(n) = Bytes(e) /\ Bytes(e) \in Nat
  BY <1>2, <1>4, <1>5, TreeSets
<1>7. worker' = [worker EXCEPT ![w] = after] /\ claimed' = claimed \cup {n}
  BY <1>1, <1>5
<1>8. worker \in [Workers -> Spot] /\ s \in Nat
  BY <1>2, <1>6 DEF ScannerTypes
<1>9. one.task = worker[w].task /\ one.at = worker[w].at /\ one.size = s /\ one \in Spot
  BY <1>8 DEF Spot
<1> HIDE DEF one
<1>10. after.task = worker[w].task /\ after.at = worker[w].at /\ after.size = s /\ after.step = "record" /\ after \in Spot
  BY <1>9 DEF Spot
<1> HIDE DEF after
<1>11. worker' \in [Workers -> Spot] /\ worker'[w] = after /\ \A v \in Workers \ {w} : worker'[v] = worker[v]
  BY <1>7, <1>8, <1>10
<1>12. Recording(worker'[w]) /\ Busy(worker'[w]) /\ Ahead(worker'[w]) = e
  BY <1>10, <1>11 DEF Recording, Busy, Ahead
<1>13. \A v \in Workers : /\ Busy(worker'[v]) <=> Busy(worker[v])
                          /\ worker'[v].task = worker[v].task /\ worker'[v].at = worker[v].at
  BY <1>3, <1>10, <1>11, <1>12
<1>14. WorkInv(jobs', worker')
  <2>1. \A v \in Workers : Recording(worker'[v]) => Ahead(worker'[v]) \in FilePlaces
    BY <1>2, <1>5, <1>11, <1>12 DEF WorkInv
  <2>2. jobs' = jobs
    BY <1>1
  <2>. QED
    BY <1>2, <1>13, <2>1, <2>2 DEF WorkInv
<1>15. PICK C \in SUBSET Scan!All, D \in SUBSET Scan!Inodes :
          PlaceInv(C, jobs, worker, results, entry) /\ ClaimInv(C, D, worker, claimed) /\ TotalInv(C, D, totals)
  BY DEF ScanInv, Progress
<1>16. PlaceInv(C, jobs', worker', results', entry)
  <2>1. jobs' = jobs /\ results' = results
    BY <1>1
  <2>2. \A t : (\E v \in Workers : Busy(worker[v]) /\ worker[v].task = t) =>
               \E v \in Workers : Busy(worker'[v]) /\ worker'[v].task = t
    BY <1>13
  <2>3. \A v \in Workers : Busy(worker'[v]) =>
           \A i \in DOMAIN tree[worker'[v].task] : <<worker'[v].task, i>> \in C <=> i < worker'[v].at
    BY <1>13, <1>15 DEF PlaceInv
  <2>. QED
    BY <1>15, <2>1, <2>2, <2>3 DEF PlaceInv
<1>17. worker'[w].size = s
  BY <1>10, <1>11
<1> HIDE DEF e, n
<1>18. s # 0 => n \notin claimed /\ s = Scan!SizeOf(n)
  BY <1>6
<1>19. n \notin claimed => s = Scan!SizeOf(n)
  BY <1>6
<1> HIDE DEF s
<1>20. ClaimInv(C, D, worker', claimed')
  <2>1. claimed' \subseteq Scan!Inodes /\ D \subseteq claimed' /\ \A o \in C \cap FilePlaces : Ino(o) \in claimed'
    BY <1>6, <1>7, <1>15 DEF ClaimInv
  <2>2. \A v \in Workers : Recording(worker'[v]) => v = w \/ (Recording(worker[v]) /\ worker'[v] = worker[v])
    BY <1>11
  <2>3. Ino(Ahead(worker'[w])) = n
    BY <1>12 DEF n
  <2>4. \A v \in Workers : Recording(worker'[v]) => Ino(Ahead(worker'[v])) \in claimed'
    BY <1>7, <1>15, <2>2, <2>3 DEF ClaimInv
  <2>5. \A v \in Workers \ {w} : Recording(worker'[v]) => Ino(Ahead(worker'[v])) \in claimed
    BY <1>15, <2>2 DEF ClaimInv
  <2>6. \A v \in Workers : Recording(worker'[v]) /\ worker'[v].size # 0 =>
           worker'[v].size = Scan!SizeOf(Ino(Ahead(worker'[v]))) /\ Ino(Ahead(worker'[v])) \notin D
    <3> SUFFICES ASSUME NEW v \in Workers, Recording(worker'[v]), worker'[v].size # 0
                 PROVE  worker'[v].size = Scan!SizeOf(Ino(Ahead(worker'[v]))) /\ Ino(Ahead(worker'[v])) \notin D
      OBVIOUS
    <3>1. CASE v = w
      BY <1>15, <1>17, <1>18, <2>3, <3>1 DEF ClaimInv
    <3>2. CASE v # w
      BY <1>15, <2>2, <3>2 DEF ClaimInv
    <3>. QED
      BY <3>1, <3>2
  <2>7. \A v, u \in Workers :
          /\ Recording(worker'[v]) /\ worker'[v].size # 0 /\ Recording(worker'[u]) /\ worker'[u].size # 0
          /\ Ino(Ahead(worker'[v])) = Ino(Ahead(worker'[u]))
          => v = u
    <3> SUFFICES ASSUME NEW v \in Workers, NEW u \in Workers, v # u,
                        Recording(worker'[v]), worker'[v].size # 0, Recording(worker'[u]), worker'[u].size # 0,
                        Ino(Ahead(worker'[v])) = Ino(Ahead(worker'[u]))
                 PROVE  FALSE
      OBVIOUS
    <3>1. CASE v = w
      BY <1>17, <1>18, <2>3, <2>5, <3>1
    <3>2. CASE u = w
      BY <1>17, <1>18, <2>3, <2>5, <3>2
    <3>3. CASE v # w /\ u # w
      BY <1>15, <2>2, <3>3 DEF ClaimInv
    <3>. QED
      BY <3>1, <3>2, <3>3
  <2>8. \A m \in claimed' \ D : Scan!SizeOf(m) # 0 =>
          \E v \in Workers : Recording(worker'[v]) /\ worker'[v].size # 0 /\ Ino(Ahead(worker'[v])) = m
    <3> SUFFICES ASSUME NEW m \in claimed' \ D, Scan!SizeOf(m) # 0
                 PROVE  \E v \in Workers : Recording(worker'[v]) /\ worker'[v].size # 0 /\ Ino(Ahead(worker'[v])) = m
      OBVIOUS
    <3>1. CASE m \in claimed
      <4>1. PICK v \in Workers : Recording(worker[v]) /\ worker[v].size # 0 /\ Ino(Ahead(worker[v])) = m
        BY <1>15, <3>1 DEF ClaimInv
      <4>2. worker'[v] = worker[v]
        BY <1>3, <1>11, <4>1
      <4>. QED
        BY <4>1, <4>2
    <3>2. CASE m \notin claimed
      <4>1. m = n
        BY <1>7, <3>2
      <4>. QED
        BY <1>12, <1>17, <1>19, <2>3, <3>2, <4>1
    <3>. QED
      BY <3>1, <3>2
  <2>. QED
    BY <2>1, <2>4, <2>6, <2>7, <2>8 DEF ClaimInv
<1>21. ScannerTypes'
  BY <1>1, <1>2, <1>11 DEF ScannerTypes, Scan!Tasks
<1>22. outcome \in {None, Failed}
  BY <1>3 DEF ScanInv, OutcomeInv
<1>. QED
  BY <1>1, <1>14, <1>15, <1>16, <1>20, <1>21, <1>22, Moved

\* A task is left failed, or counted whole.
LEMMA EndTaskKeeps ==
    ASSUME RealTrees, ScanInv, NEW w \in Workers, Scan!EndTask(w)
    PROVE  ScanInv'
<1> DEFINE t == worker[w].task
           r == IF worker[w].at > Len(tree[t]) THEN entry[t] ELSE Failed
<1>1. /\ worker[w].step = "enter" /\ results' = [results EXCEPT ![t] = r]
      /\ worker' = [worker EXCEPT ![w] = Scan!Idle]
      /\ UNCHANGED <<tree, jobs, claimed, totals, entry, published, outcome>>
  BY DEF Scan!EndTask
<1>2. tree \in Trees /\ ScannerTypes /\ WorkInv(jobs, worker)
  BY DEF ScanInv, ScannerTypes
<1>3. Busy(worker[w]) /\ ~Recording(worker[w])
  BY <1>1 DEF Busy, Recording
<1>4. t \in Scan!Tasks /\ worker[w].at \in Nat
  BY <1>2, <1>3 DEF WorkInv, ScannerTypes, Spot
<1>5. Scan!Idle \in Spot /\ ~Busy(Scan!Idle) /\ ~Recording(Scan!Idle)
  BY DEF Scan!Idle, Spot, Busy, Recording
<1>6. /\ worker' \in [Workers -> Spot] /\ worker'[w] = Scan!Idle
      /\ \A v \in Workers \ {w} : worker'[v] = worker[v]
  BY <1>1, <1>2, <1>5 DEF ScannerTypes
<1>7. ~Busy(worker'[w]) /\ ~Recording(worker'[w])
  BY <1>5, <1>6
<1>8. \A v \in Workers : Busy(worker'[v]) => v # w /\ worker'[v] = worker[v]
  BY <1>6, <1>7
<1>9. WorkInv(jobs', worker')
  <2>1. \A v \in Workers : Recording(worker'[v]) => v # w /\ worker'[v] = worker[v]
    BY <1>6, <1>7
  <2>2. jobs' = jobs
    BY <1>1
  <2>. QED
    BY <1>2, <1>8, <2>1, <2>2 DEF WorkInv
<1>10. /\ results' \in [Scan!Tasks -> {None, Failed} \cup Sizes] /\ results'[t] = r
       /\ \A u \in Scan!Tasks \ {t} : results'[u] = results[u]
  <2>1. r \in {None, Failed} \cup Sizes
    BY <1>2, <1>4 DEF ScannerTypes
  <2> HIDE DEF r, t
  <2>. QED
    BY <1>1, <1>2, <1>4, <2>1 DEF ScannerTypes
<1>11. PICK C \in SUBSET Scan!All, D \in SUBSET Scan!Inodes :
          PlaceInv(C, jobs, worker, results, entry) /\ ClaimInv(C, D, worker, claimed) /\ TotalInv(C, D, totals)
  BY DEF ScanInv, Progress
<1>12. PlaceInv(C, jobs', worker', results', entry)
  <2>1. C \subseteq Scan!All /\ jobs' = jobs /\ \A e \in C : e[1] < jobs
    BY <1>1, <1>11 DEF PlaceInv
  <2>2. \A v \in Workers : Busy(worker'[v]) =>
           \A i \in DOMAIN tree[worker'[v].task] : <<worker'[v].task, i>> \in C <=> i < worker'[v].at
    BY <1>8, <1>11 DEF PlaceInv
  <2>3. ASSUME NEW u \in Scan!Tasks, u < jobs
        PROVE  \/ \E v \in Workers : Busy(worker'[v]) /\ worker'[v].task = u
               \/ results'[u] = Failed
               \/ results'[u] = entry[u] /\ \A i \in DOMAIN tree[u] : <<u, i>> \in C
    <3>1. CASE u = t /\ worker[w].at > Len(tree[t])
      <4>1. results'[u] = entry[u]
        BY <1>10, <3>1
      <4>2. ASSUME NEW i \in DOMAIN tree[u] PROVE <<u, i>> \in C
        <5>1. DOMAIN tree[t] = 1..Len(tree[t]) /\ Len(tree[t]) \in Nat
          BY <1>2, <1>4 DEF RealTrees, Scan!Tasks
        <5>2. i < worker[w].at
          BY <1>4, <3>1, <4>2, <5>1
        <5>. QED
          BY <1>3, <1>11, <3>1, <4>2, <5>2 DEF PlaceInv
      <4>. QED
        BY <4>1, <4>2
    <3>2. CASE u = t /\ ~(worker[w].at > Len(tree[t]))
      BY <1>10, <3>2
    <3>3. CASE u # t
      <4>1. results'[u] = results[u]
        BY <1>10, <3>3
      <4>2. \A v \in Workers : Busy(worker[v]) /\ worker[v].task = u => v # w /\ worker'[v] = worker[v]
        BY <1>6, <3>3
      <4>. QED
        BY <1>11, <2>3, <4>1, <4>2 DEF PlaceInv
    <3>. QED
      BY <3>1, <3>2, <3>3
  <2>. QED
    BY <2>1, <2>2, <2>3 DEF PlaceInv
<1>13. ClaimInv(C, D, worker', claimed')
  BY <1>1, <1>3, <1>6, <1>7, <1>11, ClaimsStay
<1>14. ScannerTypes'
  BY <1>1, <1>2, <1>6, <1>10 DEF ScannerTypes, Scan!Tasks
<1>15. outcome \in {None, Failed}
  BY <1>3 DEF ScanInv, OutcomeInv
<1>. QED
  BY <1>1, <1>9, <1>11, <1>12, <1>13, <1>14, <1>15, Moved

\* When every worker is done and no task failed, everything was counted.
LEMMA ReturnKeeps ==
    ASSUME RealTrees, ScanInv, Scan!Return
    PROVE  ScanInv'
<1>1. /\ jobs > Len(tree) /\ \A w \in Workers : worker[w] = Scan!Idle
      /\ UNCHANGED <<tree, jobs, worker, claimed, totals, entry, results>>
      /\ \/ outcome' = Failed /\ UNCHANGED published
         \/ /\ \A t \in Scan!Tasks : results[t] # Failed
            /\ outcome' = Scan!Plus(Scan!RootTotals, Scan!SumOf(results)) /\ Scan!MayPublish(totals, results)
  BY DEF Scan!Return
<1>2. tree \in Trees /\ ScannerTypes /\ WorkInv(jobs, worker) /\ SumInv(totals, entry) /\ PublishInv(published)
  BY DEF ScanInv, ScannerTypes
<1>3. \A w \in Workers : ~Busy(worker[w]) /\ ~Recording(worker[w])
  BY <1>1 DEF Busy, Recording, Scan!Idle
<1>4. ScannerTypes'
  BY <1>1, <1>2 DEF ScannerTypes, Scan!Tasks
<1>5. WorkInv(jobs', worker') /\ Progress(jobs', worker', results', entry', claimed', totals') /\ SumInv(totals', entry')
  BY <1>1 DEF ScanInv
<1>6. CASE outcome' = Failed /\ UNCHANGED published
  <2>1. OutcomeInv(jobs', worker', results', totals', outcome')
    BY <1>6 DEF OutcomeInv
  <2>2. PublishInv(published')
    BY <1>2, <1>6
  <2>. QED
    BY <1>1, <1>4, <1>5, <2>1, <2>2, ScanStays
<1>7. CASE /\ \A t \in Scan!Tasks : results[t] # Failed
           /\ outcome' = Scan!Plus(Scan!RootTotals, Scan!SumOf(results)) /\ Scan!MayPublish(totals, results)
  <2>1. PICK C \in SUBSET Scan!All, D \in SUBSET Scan!Inodes :
           PlaceInv(C, jobs, worker, results, entry) /\ ClaimInv(C, D, worker, claimed) /\ TotalInv(C, D, totals)
    BY DEF ScanInv, Progress
  <2>2. \A t \in Scan!Tasks : t < jobs
    <3>1. Len(tree) \in Nat /\ Scan!Tasks = 1..Len(tree) /\ jobs \in Nat
      BY <1>2 DEF RealTrees, Scan!Tasks, ScannerTypes
    <3>. QED
      BY <1>1, <3>1
  <2>3. \A t \in Scan!Tasks : results[t] = entry[t] /\ \A i \in DOMAIN tree[t] : <<t, i>> \in C
    BY <1>3, <1>7, <2>1, <2>2 DEF PlaceInv
  <2>4. C = Scan!All
    <3>1. \A e : e \in Scan!All <=> \E t \in Scan!Tasks : \E i \in DOMAIN tree[t] : e = <<t, i>>
      BY <1>2, TreeSets
    <3>. QED
      BY <2>1, <2>3, <3>1
  <2>5. ASSUME NEW n \in Scan!Inodes \ D PROVE Scan!SizeOf(n) = 0
    <3>1. PICK e \in FilePlaces : Ino(e) = n
      BY <1>2, TreeSets
    <3>2. e \in Scan!All
      BY <1>2, TreeSets
    <3>3. n \in claimed
      BY <2>1, <2>4, <3>1, <3>2 DEF ClaimInv
    <3>. QED
      BY <1>3, <2>1, <3>3 DEF ClaimInv
  <2>6. /\ totals.size <= Scan!DiskUsage.size /\ totals.files <= Scan!DiskUsage.files
        /\ totals = Scan!DiskUsage
    BY <1>2, <2>1, <2>4, <2>5, TotalsBounded
  <2>7. Scan!SumOf(results) = Scan!SumOf(entry)
    BY <2>3 DEF Scan!SumOf
  <2>8. SumInv(totals, results)
    BY <1>2, <2>7 DEF SumInv
  <2>9. PublishInv(published')
    BY <1>2, <1>7, <2>6, <2>8, Publishes
  <2>10. OutcomeInv(jobs', worker', results', totals', outcome')
    BY <1>1, <1>3, <1>7, <2>6, <2>8 DEF OutcomeInv, SumInv
  <2>. QED
    BY <1>1, <1>4, <1>5, <2>9, <2>10, ScanStays
<1>. QED
  BY <1>1, <1>6, <1>7

\* The invariant does not speak of the rest of the state.
LEMMA ScanIdle ==
    ASSUME ScanInv, UNCHANGED <<tree, jobs, worker, claimed, totals, entry, published, results, outcome>>
    PROVE  ScanInv'
<1>1. ScannerTypes'
  BY DEF ScanInv, ScannerTypes, Scan!Tasks
<1>2. /\ WorkInv(jobs', worker') /\ Progress(jobs', worker', results', entry', claimed', totals')
      /\ SumInv(totals', entry') /\ PublishInv(published') /\ OutcomeInv(jobs', worker', results', totals', outcome')
  BY DEF ScanInv, OutcomeInv
<1>. QED
  BY <1>1, <1>2, ScanStays

\* At first only the root is counted.
LEMMA ScanBegins ==
    ASSUME RealTrees, Scan!Init
    PROVE  ScanInv
<1>1. /\ tree \in Trees /\ jobs = 1 /\ worker = [w \in Workers |-> Scan!Idle] /\ claimed = {}
      /\ totals = Scan!RootTotals /\ entry = [t \in Scan!Tasks |-> Scan!Nothing]
      /\ published = [totals |-> Scan!RootTotals, entries |-> Scan!Nothing]
      /\ results = [t \in Scan!Tasks |-> None] /\ outcome = None
  BY DEF Scan!Init
<1>2. RootSize \in Nat
  BY DEF RealTrees
<1>3. Scan!Nothing \in Sizes /\ Scan!RootTotals \in Sizes /\ Scan!Idle \in Spot
  BY <1>2 DEF Sizes, Spot, Scan!Nothing, Scan!RootTotals, Scan!Idle
<1>4. ScannerTypes
  BY <1>1, <1>3 DEF ScannerTypes
<1>5. \A w \in Workers : ~Busy(worker[w]) /\ ~Recording(worker[w])
  BY <1>1 DEF Busy, Recording, Scan!Idle
<1>6. WorkInv(jobs, worker)
  BY <1>5 DEF WorkInv
<1>7. \A S : Scan!Total([x \in S |-> 0]) = 0
  <2> SUFFICES ASSUME NEW S PROVE Scan!Total([x \in S |-> 0]) = 0
    OBVIOUS
  <2> DEFINE f == [x \in S |-> 0]
  <2>1. Scan!Units(f) = {}
    <3>1. \A x \in S : {x} \X (1..f[x]) = {}
      OBVIOUS
    <3>. QED
      BY <3>1 DEF Scan!Units
  <2> HIDE DEF f
  <2>2. Scan!Cardinality({}) = Cardinality({})
    BY Zenon DEF Scan!Cardinality, Cardinality
  <2>3. Cardinality({}) = 0
    BY FS_EmptySet
  <2>4. Scan!Total(f) = 0
    BY <2>1, <2>2, <2>3 DEF Scan!Total
  <2>. QED
    BY <2>4 DEF f
<1>8. PlaceInv({}, jobs, worker, results, entry)
  <2>1. \A t \in Scan!Tasks : ~(t < jobs)
    <3>1. Scan!Tasks = 1..Len(tree) /\ Len(tree) \in Nat
      BY <1>1 DEF RealTrees, Scan!Tasks
    <3>. QED
      BY <1>1, <3>1
  <2>. QED
    BY <1>5, <2>1 DEF PlaceInv
<1>9. ClaimInv({}, {}, worker, claimed)
  BY <1>1, <1>5 DEF ClaimInv
<1>10. TotalInv({}, {}, totals)
  <2>1. Weight({}) = [x \in Scan!Inodes |-> 0] /\ Held({}) = [x \in DirPlaces |-> 0]
    BY DEF Weight, Held
  <2>2. Scan!Total(Weight({})) = 0 /\ Scan!Total(Held({})) = 0
    BY <1>7, <2>1
  <2>3. Cardinality({} \cap FilePlaces) = 0 /\ Cardinality({} \cap DirPlaces) = 0
    <3>1. {} \cap FilePlaces = {} /\ {} \cap DirPlaces = {}
      OBVIOUS
    <3>. QED
      BY <3>1, FS_EmptySet
  <2>. QED
    BY <1>1, <1>2, <2>2, <2>3 DEF TotalInv, Scan!RootTotals
<1>11. Progress(jobs, worker, results, entry, claimed, totals)
  <2>1. {} \in SUBSET Scan!All /\ {} \in SUBSET Scan!Inodes
    OBVIOUS
  <2>. QED
    BY <1>8, <1>9, <1>10, <2>1 DEF Progress
<1>12. Scan!Plus(Scan!RootTotals, Scan!Nothing) = Scan!RootTotals
  BY <1>2 DEF Scan!Plus, Scan!RootTotals, Scan!Nothing
<1>13. SumInv(totals, entry)
  <2>1. /\ [t \in Scan!Tasks |-> entry[t].size] = [x \in Scan!Tasks |-> 0]
        /\ [t \in Scan!Tasks |-> entry[t].files] = [x \in Scan!Tasks |-> 0]
        /\ [t \in Scan!Tasks |-> entry[t].directories] = [x \in Scan!Tasks |-> 0]
    BY <1>1 DEF Scan!Nothing
  <2>2. Scan!SumOf(entry) = Scan!Nothing
    BY <1>7, <2>1 DEF Scan!SumOf, Scan!Nothing
  <2>. QED
    BY <1>1, <1>12, <2>2 DEF SumInv
<1>14. PublishInv(published)
  <2>1. {} \in SUBSET Scan!All /\ {} \in SUBSET Scan!Inodes
    OBVIOUS
  <2>2. totals.size <= Scan!DiskUsage.size /\ totals.files <= Scan!DiskUsage.files
    BY <1>1, <1>10, <2>1, TotalsBounded
  <2>. QED
    BY <1>1, <1>12, <2>2 DEF PublishInv
<1>15. OutcomeInv(jobs, worker, results, totals, outcome)
  BY <1>1 DEF OutcomeInv
<1>. QED
  BY <1>4, <1>6, <1>11, <1>13, <1>14, <1>15 DEF ScanInv

\* Every step of the scan keeps the invariant, and the other parts leave the scan alone.
LEMMA ScanNextKeeps ==
    ASSUME RealTrees, ScanInv, [PageNext]_<<part, vars, pageVars, scanVars>>
    PROVE  ScanInv'
<1>1. CASE Scan!Next
  <2>1. CASE Scan!Return
    BY <2>1, ReturnKeeps
  <2>2. CASE Scan!Cancel
    BY <2>2, ScanIdle DEF Scan!Cancel
  <2>3. ASSUME NEW w \in Workers, Scan!Step(w) PROVE ScanInv'
    BY <2>3, TakeKeeps, PassOverKeeps, CountDirectoryKeeps, ClaimKeeps, CountFileKeeps, EndTaskKeeps DEF Scan!Step
  <2>. QED
    BY <1>1, <2>1, <2>2, <2>3 DEF Scan!Next
<1>2. CASE UNCHANGED scanVars
  BY <1>2, ScanIdle DEF scanVars
<1>. QED
  BY <1>1, <1>2 DEF PageNext, DedupeStep, PageStep, ScanStep

\* A scan counts what du would, and never publishes more (ScanIsDiskUsage): storageScanner's workers may
\* meet the links to an inode in any order.
THEOREM ScanCounts == PageSpec => []ScanIsDiskUsage
<1> SUFFICES ASSUME RealTrees PROVE PageSpec => []ScanIsDiskUsage
  BY StorageSourcesAssumption
<1>1. PageInit => ScanInv
  BY ScanBegins DEF PageInit
<1>2. ScanInv /\ [PageNext]_<<part, vars, pageVars, scanVars>> => ScanInv'
  BY ScanNextKeeps
<1>3. ScanInv => ScanIsDiskUsage
  BY DEF ScanInv, OutcomeInv, PublishInv, ScanIsDiskUsage, Scan!ScanIsDiskUsage
<1>. QED
  BY <1>1, <1>2, <1>3, PTL DEF PageSpec
=============================================================================
