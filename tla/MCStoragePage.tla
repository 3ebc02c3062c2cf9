--------------------------- MODULE MCStoragePage ---------------------------
(***************************************************************************)
(* The parts of the storage page that share no state, in one run: a         *)
(* behaviour is one of the page and its scans, of the inside of one scan,   *)
(* or of the scripts that replace duplicates, which the user starts; the    *)
(* others stay as they began.                                              *)
(***************************************************************************)
EXTENDS DedupeLink, Sequences

CONSTANTS
    Dirs, Root, CacheLimit, GroupCounts, MaxScans,  \* of StorageMap
    Trees, RootSize, Workers, Failed                \* of StorageScanner

VARIABLES
    part,
    page, path, result, scanning, current, cancel, cache, order, dup, confirming, scans,
    tree, jobs, worker, claimed, totals, entry, passed, published, results, cancelled, outcome

pageVars == <<page, path, result, scanning, current, cancel, cache, order, dup, confirming, scans>>
scanVars == <<tree, jobs, worker, claimed, totals, entry, passed, published, results, cancelled, outcome>>

\* Three trees: with hard links within and across the children of the root, mounts, symbolic links,
\* a directory that cannot be opened and an entry that is gone.
File(n, s) == [kind |-> "file", ino |-> n, size |-> s]
Other(k, s) == [kind |-> k, ino |-> 0, size |-> s]
SomeTrees ==
    {<< <<Other("dir", 1), Other("link", 0), File(2, 3), Other("gone", 0), File(3, 1)>>, <<File(2, 3)>> >>,
     << <<File(1, 2)>>, <<Other("dir", 1), File(1, 2), File(2, 3)>>, <<Other("sealed", 1)>> >>,
     << <<Other("mount", 0)>>, <<Other("dir", 1), File(1, 2), File(1, 2)>>,
        <<Other("dir", 1), File(2, 1), File(1, 2)>> >>}

Page == INSTANCE StorageMap
Scan == INSTANCE StorageScanner WITH seen <- claimed

\* The scan root is a directory, and scans and groups are counted.
Sane == Root \in Dirs /\ MaxScans \in Nat /\ GroupCounts \subseteq Nat

Places(t) == UNION {{i} \X DOMAIN t[i] : i \in DOMAIN t}

\* Trees are lists of lists of entries, and the links to an inode agree on its size.
RealTrees ==
    /\ RootSize \in Nat
    /\ \A t \in Trees :
          /\ Len(t) \in Nat /\ DOMAIN t = 1..Len(t)
          /\ \A i \in DOMAIN t : Len(t[i]) \in Nat /\ DOMAIN t[i] = 1..Len(t[i])
          /\ \A e, o \in Places(t) : LET here == t[e[1]][e[2]]  there == t[o[1]][o[2]] IN
                /\ here.size \in Nat
                /\ here.kind = "file" /\ there.kind = "file" /\ here.ino = there.ino => here.size = there.size

ASSUME StorageSourcesAssumption == Sane /\ RealTrees

PageInit ==
    /\ Init /\ Page!Init /\ Scan!Init /\ part \in {"dedupe", "page", "scan"}
    /\ part # "scan" => tree = CHOOSE t \in Trees : TRUE

DedupeStep == part = "dedupe" /\ Next /\ UNCHANGED <<part, pageVars, scanVars>>
PageStep == part = "page" /\ Page!Next /\ UNCHANGED <<part, vars, scanVars>>
ScanStep == part = "scan" /\ Scan!Next /\ UNCHANGED <<part, vars, pageVars>>

PageNext == DedupeStep \/ PageStep \/ ScanStep
PageSpec == PageInit /\ [][PageNext]_<<part, vars, pageVars, scanVars>>

\* StorageMap: the map on the screen is of its directory.
MapOfThisDirectory == part = "page" => Page!MapOfThisDirectory
\* StorageMap: the scan the page waits for will be heard.
NewestScanHeard == part = "page" => Page!NewestScanHeard
\* StorageScanner: a scan counts what du would.
ScanIsDiskUsage == part = "scan" => Scan!ScanIsDiskUsage
=============================================================================
