--------------------------- MODULE StorageScanner ---------------------------
(***************************************************************************)
(* The scan of a directory for the storage map (storageScanner): the        *)
(* children of the root are tasks of parallel workers, which share the set  *)
(* of inodes that were counted and the totals that are published while the  *)
(* scan runs. The scan may be cancelled at any step.                       *)
(*                                                                         *)
(* A task is the sequence in which scanEntry meets what is below the child: *)
(* files, directories, and what it passes over - symbolic links, excluded   *)
(* mounts, and entries that are gone or cannot be opened.                   *)
(***************************************************************************)
EXTENDS Naturals, Sequences, FiniteSets, Totals

CONSTANTS
    Trees,     \* the trees to scan: each a sequence of tasks
    Workers,   \* storageScanWorkerCount
    RootSize,  \* allocated size of the root directory itself
    None, Failed

VARIABLES
    tree,       \* task -> its entries: [kind, ino, size]
    jobs,       \* the first task that no worker has taken
    worker,     \* worker -> [task, at, size, step]: the entry it is at, and what claimStorageFile allowed
    seen,       \* inodes that were claimed
    totals,     \* progressSize, progressFiles and progressDirectories
    entry,      \* task -> the totals of its storageEntry
    passed,     \* Skipped and ExcludedMounts
    published,  \* the last totals that were published, with the sum of their entries
    results,    \* task -> its storageScanNode, Failed or None
    cancelled,
    outcome     \* None, Failed or the result's totals

vars == <<tree, jobs, worker, seen, totals, entry, passed, published, results, cancelled, outcome>>

Nothing == [size |-> 0, files |-> 0, directories |-> 0]
Plus(a, b) == [size |-> a.size + b.size, files |-> a.files + b.files, directories |-> a.directories + b.directories]
Idle == [task |-> 0, at |-> 0, size |-> 0, step |-> "idle"]
Tasks == DOMAIN tree
RootTotals == [size |-> RootSize, files |-> 0, directories |-> 1]

\* The sum of the totals f[t] of the tasks.
SumOf(f) == [size |-> Total([t \in Tasks |-> f[t].size]), files |-> Total([t \in Tasks |-> f[t].files]),
             directories |-> Total([t \in Tasks |-> f[t].directories])]

\* scanStorageDirectoryWithPolicyProgress, up to the start of the workers: the root is counted and published.
Init ==
    /\ tree \in Trees
    /\ jobs = 1 /\ worker = [w \in Workers |-> Idle] /\ seen = {}
    /\ totals = RootTotals /\ entry = [t \in Tasks |-> Nothing] /\ passed = [skipped |-> 0, mounts |-> 0]
    /\ published = [totals |-> RootTotals, entries |-> Nothing]
    /\ results = [t \in Tasks |-> None] /\ cancelled = FALSE /\ outcome = None

\* A worker takes the next task, in the order of the directory.
Take(w) ==
    /\ worker[w] = Idle /\ jobs <= Len(tree)
    /\ worker' = [worker EXCEPT ![w] = [Idle EXCEPT !.task = jobs, !.at = 1, !.step = "enter"]]
    /\ jobs' = jobs + 1
    /\ UNCHANGED <<tree, seen, totals, entry, passed, published, results, cancelled, outcome>>

Here(w) == tree[worker[w].task][worker[w].at]
AtEntry(w) == worker[w].step = "enter" /\ worker[w].at <= Len(tree[worker[w].task])
Forward(w) == worker' = [worker EXCEPT ![w].at = @ + 1, ![w].size = 0, ![w].step = "enter"]

\* maybePublishStorageProgressLocked: every 256th operation, if the last was long enough ago.
MayPublish(all, shown) ==
    \/ published' = [totals |-> all, entries |-> SumOf(shown)]
    \/ UNCHANGED published

\* recordStorageProgress: the totals and the task's entry grow together.
recordStorageProgress(w, node) ==
    /\ totals' = Plus(totals, node)
    /\ entry' = [entry EXCEPT ![worker[w].task] = Plus(@, node)]
    /\ MayPublish(totals', entry')

\* markStorageSkipped, markStorageMountExcluded: a symbolic link, an entry without information, a mount.
PassOver(w) ==
    /\ AtEntry(w) /\ ~cancelled /\ Here(w).kind \in {"link", "gone", "mount"}
    /\ passed' = IF Here(w).kind = "mount" THEN [passed EXCEPT !.mounts = @ + 1] ELSE [passed EXCEPT !.skipped = @ + 1]
    /\ Forward(w)
    /\ UNCHANGED <<tree, jobs, seen, totals, entry, published, results, cancelled, outcome>>

\* A directory counts itself; what is below it follows in the task, unless it cannot be opened or is not
\* the directory that was found ("sealed").
CountDirectory(w) ==
    /\ AtEntry(w) /\ ~cancelled /\ Here(w).kind \in {"dir", "sealed"}
    /\ recordStorageProgress(w, [size |-> Here(w).size, files |-> 0, directories |-> 1])
    /\ passed' = IF Here(w).kind = "sealed" THEN [passed EXCEPT !.skipped = @ + 1] ELSE passed
    /\ Forward(w)
    /\ UNCHANGED <<tree, jobs, seen, results, cancelled, outcome>>

\* Mutant: every child has its own set of inodes.
claimWithinTask(w) ==
    /\ AtEntry(w) /\ ~cancelled /\ Here(w).kind = "file"
    /\ seen' = seen \cup {Here(w).ino}
    /\ LET before == {tree[worker[w].task][i].ino : i \in 1..(worker[w].at - 1)} IN
       worker' = [worker EXCEPT ![w] = [@ EXCEPT !.size = IF Here(w).ino \in before THEN 0 ELSE Here(w).size,
                                                   !.step = "record"]]
    /\ UNCHANGED <<tree, jobs, totals, entry, passed, published, results, cancelled, outcome>>

\* claimStorageFile: of the links to an inode only the first counts its size.
claimStorageFile(w) ==
    /\ AtEntry(w) /\ ~cancelled /\ Here(w).kind = "file"
    /\ seen' = seen \cup {Here(w).ino}
    /\ worker' = [worker EXCEPT ![w] = [@ EXCEPT !.size = IF Here(w).ino \in seen THEN 0 ELSE Here(w).size,
                                                   !.step = "record"]]
    /\ UNCHANGED <<tree, jobs, totals, entry, passed, published, results, cancelled, outcome>>

\* The file is counted, in a critical section of its own.
CountFile(w) ==
    /\ worker[w].step = "record"
    /\ recordStorageProgress(w, [size |-> worker[w].size, files |-> 1, directories |-> 0])
    /\ Forward(w)
    /\ UNCHANGED <<tree, jobs, seen, passed, results, cancelled, outcome>>

\* scanEntry returns what it added up, or the context's error.
EndTask(w) ==
    LET t == worker[w].task IN
    /\ worker[w].step = "enter" /\ (worker[w].at > Len(tree[t]) \/ cancelled)
    /\ results' = [results EXCEPT ![t] = IF worker[w].at > Len(tree[t]) THEN entry[t] ELSE Failed]
    /\ worker' = [worker EXCEPT ![w] = Idle]
    /\ UNCHANGED <<tree, jobs, seen, totals, entry, passed, published, cancelled, outcome>>

\* workers.Wait; one error is the error of the scan.
Return ==
    /\ outcome = None /\ jobs > Len(tree) /\ \A w \in Workers : worker[w] = Idle
    /\ IF \E t \in Tasks : results[t] = Failed
       THEN outcome' = Failed /\ UNCHANGED published
       ELSE outcome' = Plus(RootTotals, SumOf(results)) /\ MayPublish(totals, results)
    /\ UNCHANGED <<tree, jobs, worker, seen, totals, entry, passed, results, cancelled>>

Cancel ==
    /\ ~cancelled /\ outcome = None /\ cancelled' = TRUE
    /\ UNCHANGED <<tree, jobs, worker, seen, totals, entry, passed, published, results, outcome>>

Step(w) == Take(w) \/ PassOver(w) \/ CountDirectory(w) \/ claimStorageFile(w) \/ CountFile(w) \/ EndTask(w)

Next == Return \/ Cancel \/ \E w \in Workers : Step(w)

Spec == Init /\ [][Next]_vars
-----------------------------------------------------------------------------
(* What a scan should find: du's answer for the tree. *)

All == UNION {{t} \X DOMAIN tree[t] : t \in Tasks}
Kind(ks) == {e \in All : tree[e[1]][e[2]].kind \in ks}
Inodes == {tree[e[1]][e[2]].ino : e \in Kind({"file"})}
SizeOf(n) == (CHOOSE f \in {tree[e[1]][e[2]] : e \in Kind({"file"})} : f.ino = n).size

DiskUsage ==
    [size |-> RootSize + Total([n \in Inodes |-> SizeOf(n)])
                       + Total([e \in Kind({"dir", "sealed"}) |-> tree[e[1]][e[2]].size]),
     files |-> Cardinality(Kind({"file"})), directories |-> 1 + Cardinality(Kind({"dir", "sealed"}))]

\* Whichever worker meets a hard link first: a scan that returns a result has counted every inode once and
\* every entry of every task, whatever was published before was consistent (the root and its entries add up
\* to the totals) and never more than the result.
ScanIsDiskUsage ==
    /\ outcome \notin {None, Failed} => outcome = DiskUsage /\ Plus(RootTotals, SumOf(results)) = totals
    /\ published.totals = Plus(RootTotals, published.entries)
    /\ published.totals.size <= DiskUsage.size /\ published.totals.files <= DiskUsage.files
=============================================================================
