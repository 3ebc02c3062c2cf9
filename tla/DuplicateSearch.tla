-------------------------- MODULE DuplicateSearch --------------------------
(***************************************************************************)
(* The search for duplicate files (scanStorageDuplicatesWithPolicy): a walk *)
(* collects candidates by size, a producer hands those that are not alone   *)
(* to workers, the workers hash them, and the searching goroutine groups    *)
(* the hashes. Files change meanwhile, and the search may be cancelled at   *)
(* any step.                                                               *)
(*                                                                         *)
(* A file has an inode, a size, a stamp (its modification time) and a       *)
(* content; mode and owner, the other parts of storageDuplicateContentKey,  *)
(* are treated like the content.                                           *)
(***************************************************************************)
EXTENDS Naturals, FiniteSets

CONSTANTS
    NameCount,   \* the paths below the root, in the order WalkDir visits them
    Kinds,       \* what a path may be at first; inode 0 stands for what the walk passes over
    Workers,
    MaxChanges,  \* bound on the writes of other programs
    None

Names == 1..NameCount

VARIABLES
    disk,       \* the file at each path
    walked,     \* how many paths WalkDir has visited
    seen,       \* the inodes met so far
    candidate,  \* what the walk noted of a path, or None
    phase,      \* "walk", "hash", or how the search returned: "ok", "canceled"
    cancelled,  \* the user's cancellation
    stopped,    \* the deferred cancel of the hashing context
    todo,       \* candidates the producer has not handed out
    producer,   \* "none", "sending" or "ended"
    holds,      \* the candidate of each worker
    worker,     \* "none", "idle", "opening", "hashing", "sending" or "ended"
    opened,     \* the file as the worker found it when it opened it
    hashed,     \* what the worker has computed: a content, "error" or "canceled"
    hashes,     \* the buffered channel of results
    closed,     \* hashes is closed
    grouped,    \* path -> content, for the results that were read
    changes     \* bookkeeping of the bound

search == <<walked, seen, candidate, phase>>
pipeline == <<todo, producer, holds, worker, opened, hashed, hashes, closed>>
vars == <<disk, search, cancelled, stopped, pipeline, grouped, changes>>

\* A directory, a link, a file below the minimum size or on an excluded mount is no file here.
IsFile(p) == disk[p].ino # 0

Init ==
    /\ disk \in [Names -> Kinds]
    /\ walked = 0 /\ seen = {} /\ candidate = [p \in Names |-> None] /\ phase = "walk"
    /\ cancelled = FALSE /\ stopped = FALSE
    /\ todo = {} /\ producer = "none"
    /\ holds = [w \in Workers |-> None] /\ worker = [w \in Workers |-> "none"]
    /\ opened = [w \in Workers |-> None] /\ hashed = [w \in Workers |-> None] /\ hashes = {} /\ closed = FALSE
    /\ grouped = [p \in Names |-> None] /\ changes = 0

\* The hashing context is done: by the user or by the deferred cancel.
Done == cancelled \/ stopped
-----------------------------------------------------------------------------
(* The walk. *)

\* Mutant: the links to one inode are all candidates.
VisitAllLinks(p) ==
    /\ phase = "walk" /\ ~cancelled /\ p = walked + 1
    /\ walked' = p
    /\ candidate' = IF IsFile(p)
                    THEN [candidate EXCEPT ![p] = [size |-> disk[p].size, id |-> <<disk[p].ino, disk[p].stamp>>]]
                    ELSE candidate
    /\ UNCHANGED <<disk, seen, phase, cancelled, stopped, pipeline, grouped, changes>>

\* One callback of WalkDir; of the links to one inode only the first is a candidate.
Visit(p) ==
    /\ phase = "walk" /\ ~cancelled /\ p = walked + 1
    /\ walked' = p
    /\ IF IsFile(p) /\ disk[p].ino \notin seen
       THEN /\ seen' = seen \cup {disk[p].ino}
            /\ candidate' = [candidate EXCEPT ![p] = [size |-> disk[p].size, id |-> <<disk[p].ino, disk[p].stamp>>]]
       ELSE UNCHANGED <<seen, candidate>>
    /\ UNCHANGED <<disk, phase, cancelled, stopped, pipeline, grouped, changes>>

\* A cancelled walk returns the context's error.
WalkCancelled ==
    /\ phase = "walk" /\ cancelled
    /\ phase' = "canceled"
    /\ UNCHANGED <<disk, walked, seen, candidate, cancelled, stopped, pipeline, grouped, changes>>

\* Candidates are the files that share their size with another.
Sized == {p \in Names : candidate[p] # None
                         /\ \E q \in Names \ {p} : candidate[q] # None /\ candidate[q].size = candidate[p].size}

StartHashing ==
    /\ phase = "walk" /\ ~cancelled /\ walked = NameCount
    /\ IF Sized = {}
       THEN phase' = "ok" /\ UNCHANGED pipeline
       ELSE /\ phase' = "hash"
            /\ todo' = Sized /\ producer' = "sending"
            /\ worker' = [w \in Workers |-> "idle"]
            /\ UNCHANGED <<holds, opened, hashed, hashes, closed>>
    /\ UNCHANGED <<disk, walked, seen, candidate, cancelled, stopped, grouped, changes>>
-----------------------------------------------------------------------------
(* The pipeline. *)

\* The producer hands a candidate to an idle worker over an unbuffered channel.
HandOut(w) ==
    /\ producer = "sending" /\ worker[w] = "idle"
    /\ \E p \in todo :
        /\ \A q \in todo : p <= q
        /\ todo' = todo \ {p}
        /\ holds' = [holds EXCEPT ![w] = p]
    /\ worker' = [worker EXCEPT ![w] = "opening"]
    /\ UNCHANGED <<disk, search, cancelled, stopped, producer, hashed, hashes, closed, grouped, changes, opened>>

\* Mutant: a producer that hears nothing of the cancellation.
EndProducerLate ==
    /\ producer = "sending" /\ todo = {}
    /\ producer' = "ended"
    /\ UNCHANGED <<disk, search, cancelled, stopped, todo, holds, worker, hashed, hashes, closed, grouped, changes, opened>>

\* It closes the channel when all are out, or when the context is done.
EndProducer ==
    /\ producer = "sending" /\ (todo = {} \/ Done)
    /\ producer' = "ended"
    /\ UNCHANGED <<disk, search, cancelled, stopped, todo, holds, worker, hashed, hashes, closed, grouped, changes, opened>>

\* hashStorageCandidate up to its loop: the file must still be the one the walk saw.
openStorageCandidate(w) ==
    LET p == holds[w] IN
    /\ worker[w] = "opening"
    /\ IF <<disk[p].ino, disk[p].stamp>> = candidate[p].id
       THEN opened' = [opened EXCEPT ![w] = disk[p]] /\ worker' = [worker EXCEPT ![w] = "hashing"] /\ UNCHANGED hashed
       ELSE hashed' = [hashed EXCEPT ![w] = "error"] /\ worker' = [worker EXCEPT ![w] = "sending"] /\ UNCHANGED opened
    /\ UNCHANGED <<disk, search, cancelled, stopped, todo, producer, holds, hashes, closed, grouped, changes>>

\* What a reader gets that was reading while the file was written.
Torn == "torn"

\* The rest of hashStorageCandidate: a file that is not as it was opened is an error.
hashStorageCandidate(w) ==
    LET p == holds[w] IN
    /\ worker[w] = "hashing"
    /\ hashed' = [hashed EXCEPT ![w] = IF disk[p] = opened[w] THEN disk[p].content ELSE "error"]
    /\ worker' = [worker EXCEPT ![w] = "sending"] /\ opened' = [opened EXCEPT ![w] = None]
    /\ UNCHANGED <<disk, search, cancelled, stopped, todo, producer, holds, hashes, closed, grouped, changes>>

\* An open or a read that fails, or that the context interrupts.
HashFails(w) ==
    /\ worker[w] \in {"opening", "hashing"}
    /\ \E e \in {"error"} \cup (IF Done /\ worker[w] = "hashing" THEN {"canceled"} ELSE {}) :
        hashed' = [hashed EXCEPT ![w] = e]
    /\ worker' = [worker EXCEPT ![w] = "sending"] /\ opened' = [opened EXCEPT ![w] = None]
    /\ UNCHANGED <<disk, search, cancelled, stopped, todo, producer, holds, hashes, closed, grouped, changes>>

\* The select of a worker: its result fits the channel, or the context is done.
SendHash(w) ==
    /\ worker[w] = "sending" /\ Cardinality(hashes) < Cardinality(Workers)
    /\ hashes' = hashes \cup {<<holds[w], hashed[w]>>}
    /\ worker' = [worker EXCEPT ![w] = "idle"]
    /\ holds' = [holds EXCEPT ![w] = None] /\ hashed' = [hashed EXCEPT ![w] = None]
    /\ UNCHANGED <<disk, search, cancelled, stopped, todo, producer, closed, grouped, changes, opened>>

DropHash(w) ==
    /\ worker[w] = "sending" /\ Done
    /\ worker' = [worker EXCEPT ![w] = "ended"]
    /\ holds' = [holds EXCEPT ![w] = None] /\ hashed' = [hashed EXCEPT ![w] = None]
    /\ UNCHANGED <<disk, search, cancelled, stopped, todo, producer, hashes, closed, grouped, changes, opened>>

\* The channel of jobs is closed and empty.
EndWorker(w) ==
    /\ worker[w] = "idle" /\ producer = "ended"
    /\ worker' = [worker EXCEPT ![w] = "ended"]
    /\ UNCHANGED <<disk, search, cancelled, stopped, todo, producer, holds, hashed, hashes, closed, grouped, changes, opened>>

\* workerGroup.Wait.
CloseHashes ==
    /\ ~closed /\ phase # "walk" /\ \A w \in Workers : worker[w] = "ended"
    /\ closed' = TRUE
    /\ UNCHANGED <<disk, search, cancelled, stopped, todo, producer, holds, worker, hashed, hashes, grouped, changes, opened>>

\* The searching goroutine reads a result; a cancelled one ends it, and its deferred cancel ends the rest.
Collect ==
    /\ phase = "hash"
    /\ \E h \in hashes :
        /\ hashes' = hashes \ {h}
        /\ IF h[2] = "canceled"
           THEN phase' = "canceled" /\ stopped' = TRUE /\ UNCHANGED grouped
           ELSE /\ grouped' = IF h[2] = "error" THEN grouped ELSE [grouped EXCEPT ![h[1]] = h[2]]
                /\ UNCHANGED <<phase, stopped>>
    /\ UNCHANGED <<disk, walked, seen, candidate, cancelled, todo, producer, holds, worker, hashed, closed, changes, opened>>

\* The channel is closed and empty: groups are made, unless the context is done.
Finish ==
    /\ phase = "hash" /\ closed /\ hashes = {}
    /\ phase' = IF cancelled THEN "canceled" ELSE "ok"
    /\ stopped' = TRUE
    /\ UNCHANGED <<disk, walked, seen, candidate, cancelled, pipeline, grouped, changes>>

\* Groups of at least two files with the same size and hash.
Groups == {g \in SUBSET {p \in Names : grouped[p] # None} :
            /\ Cardinality(g) > 1
            /\ \E p \in g : g = {q \in Names : grouped[q] = grouped[p] /\ candidate[q].size = candidate[p].size}}
-----------------------------------------------------------------------------
\* Another view is opened, the page is left or the search started again.
Cancel ==
    /\ phase \in {"walk", "hash"} /\ ~cancelled /\ cancelled' = TRUE
    /\ UNCHANGED <<disk, search, stopped, pipeline, grouped, changes>>

\* Another program writes to a file (all its links change).
Write(p) ==
    /\ changes < MaxChanges /\ IsFile(p) /\ phase \in {"walk", "hash"}
    /\ \E c \in {k.content : k \in Kinds} :
        disk' = [q \in Names |-> IF disk[q].ino = disk[p].ino
                                  THEN [disk[q] EXCEPT !.content = c, !.stamp = changes + 1] ELSE disk[q]]
    /\ changes' = changes + 1
    /\ UNCHANGED <<search, cancelled, stopped, pipeline, grouped>>

Pipeline(w) == HandOut(w) \/ openStorageCandidate(w) \/ hashStorageCandidate(w) \/ HashFails(w) \/ SendHash(w) \/ DropHash(w) \/ EndWorker(w)

Next ==
    \/ WalkCancelled \/ StartHashing \/ EndProducer \/ CloseHashes \/ Collect \/ Finish \/ Cancel
    \/ \E p \in Names : Visit(p) \/ Write(p)
    \/ \E w \in Workers : Pipeline(w)

\* While a goroutine of the search can run, one does: none loops, so no more than that is asked of the scheduler,
\* and nothing of the user or of other programs.
Progress ==
    \/ WalkCancelled \/ StartHashing \/ EndProducer \/ CloseHashes \/ Collect \/ Finish
    \/ \E p \in Names : Visit(p)
    \/ \E w \in Workers : Pipeline(w)

Spec == Init /\ [][Next]_vars /\ WF_vars(Progress)
-----------------------------------------------------------------------------
(* Properties. *)

\* The candidate of path p is what the path still holds.
Untouched(p) == candidate[p] # None /\ <<disk[p].ino, disk[p].stamp>> = candidate[p].id

\* Whatever the order of the goroutines and whatever is written meanwhile: a search that returns groups
\* has accounted for every candidate, never groups two links to one inode or a file that was read while
\* it was written, and a grouped file that was not written since holds the content of its group.
GroupsAreExact ==
    /\ phase = "ok" => todo = {} /\ \A w \in Workers : holds[w] = None
    /\ \A p, q \in Names : p # q /\ grouped[p] # None /\ grouped[q] # None => candidate[p].id[1] # candidate[q].id[1]
    /\ \A p \in Names : grouped[p] # None => grouped[p] # Torn /\ (Untouched(p) => grouped[p] = disk[p].content)

\* Once the search has returned, by itself or cancelled, its goroutines end: none waits for ever on a
\* channel nobody reads.
PipelineEnds == (phase \in {"ok", "canceled"}) ~> (producer # "sending" /\ \A w \in Workers : worker[w] \in {"none", "ended"})
=============================================================================
