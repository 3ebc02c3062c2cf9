---------------------------- MODULE HistoryStore ----------------------------
(***************************************************************************)
(* historyStore (cmd/fleetty/history.go): minute samples in memory and in  *)
(* a JSONL file.  `fleetty serve', `fleetty top' and `fleetty snapshot' of *)
(* one user are processes with a store each on the same default file.      *)
(*                                                                         *)
(* A sample is its minute.  A line of the file is a sample, or Junk that   *)
(* does not decode; a write cut short leaves a tail without a line end.    *)
(* The clock is the wall clock, in minutes; an operator may set it back.   *)
(***************************************************************************)
EXTENDS Integers, Sequences

CONSTANTS
    Procs,        \* processes that use the file
    Retention,    \* historyRetention
    PrunePeriod,  \* historyPrunePeriod
    MaxMinute,    \* bound on the clock
    MaxStarts,    \* bound on process starts
    MaxBacks,     \* bound on how often the clock is set back
    MaxFaults     \* bound on failed writes and renames

Minutes == 1..MaxMinute
Junk == 0
NoTail == -1

VARIABLES
    now,       \* time.Now(), truncated to minutes
    file,      \* the complete lines of the file
    tail,      \* what follows the last line end: nothing, a broken or a whole sample
    exists,    \* whether the file exists
    step,      \* where each process is
    samples,   \* h.samples
    last,      \* h.lastBucket, 0 for the zero time
    at,        \* `now' of the Record under way
    pruneAge,  \* time since h.lastPrune, up to PrunePeriod; PrunePeriod if zero
    starts, backs, faults, \* counters for the bounds
    latest,    \* the latest time the clock has shown
    kept       \* minutes that were appended as a line of their own

vars == <<now, file, tail, exists, step, samples, last, at, pruneAge, starts, backs,
          faults, latest, kept>>
storeVars == <<step, samples, last, at, pruneAge>>

Elements(s) == {s[i] : i \in 1..Len(s)}

Init ==
    /\ now = 1 /\ latest = 1
    /\ file = <<>> /\ tail = NoTail /\ exists = FALSE
    /\ step = [p \in Procs |-> "down"]
    /\ samples = [p \in Procs |-> <<>>]
    /\ last = [p \in Procs |-> 0] /\ at = [p \in Procs |-> 0]
    /\ pruneAge = [p \in Procs |-> 0]
    /\ starts = 0 /\ backs = 0 /\ faults = 0
    /\ kept = {}

-----------------------------------------------------------------------------

\* Mutant: loading ends at the first line that does not decode.
DecodedStopsAtJunk(lines, cutoff) ==
    SelectSeq(lines, LAMBDA s : s # Junk /\ s >= cutoff /\ \A i, j \in 1..Len(lines) :
              lines[i] = s /\ j < i => lines[j] # Junk /\ lines[j] < s)

\* The loop of load: lines that do not decode, are too old, or are not after the
\* last one taken are skipped.
Loaded(before, s, cutoff) ==
    IF s = Junk \/ s < cutoff \/ (before # <<>> /\ s <= before[Len(before)])
    THEN before ELSE Append(before, s)
Decoded(lines, cutoff) ==
    LET taken[i \in 0..Len(lines)] ==
          IF i = 0 THEN <<>> ELSE Loaded(taken[i - 1], lines[i], cutoff)
    IN  taken[Len(lines)]

\* The scanner also returns the tail.
Lines == IF tail = NoTail THEN file ELSE Append(file, tail)

\* newHistoryStore and load.  Whether a sample of exactly Retention ago is too old
\* depends on the second.  Without a file lastPrune stays zero.
Start(p) ==
    /\ step[p] = "down" /\ starts < MaxStarts
    /\ starts' = starts + 1
    /\ step' = [step EXCEPT ![p] = "idle"]
    /\ \E cutoff \in {now - Retention, now - Retention + 1} :
          LET loaded == Decoded(Lines, cutoff) IN
          /\ samples' = [samples EXCEPT ![p] = loaded]
          /\ last' = [last EXCEPT ![p] = IF loaded = <<>> THEN 0 ELSE loaded[Len(loaded)]]
    /\ pruneAge' = [pruneAge EXCEPT ![p] = IF exists THEN 0 ELSE PrunePeriod]
    /\ UNCHANGED <<now, file, tail, exists, at, backs, faults, latest, kept>>

\* trimMemory: the binary search finds the first sample after the cutoff.
Trimmed(s, time) ==
    LET index == CHOOSE i \in 1..Len(s) + 1 : \A j \in 1..Len(s) : j < i <=> s[j] <= time - Retention
    IN  SubSeq(s, index, Len(s))

\* Record's bucket test.
NewBucket(p) == last[p] = 0 \/ now > last[p]

\* Mutant: lastPrune is set by every Record.
RecordPostponesPrune(p) ==
    /\ step[p] = "idle" /\ NewBucket(p)
    /\ last' = [last EXCEPT ![p] = now]
    /\ at' = [at EXCEPT ![p] = now]
    /\ file' = Append(file, IF tail = NoTail THEN now ELSE Junk)
    /\ tail' = NoTail
    /\ exists' = TRUE
    /\ kept' = IF tail = NoTail THEN kept \cup {now} ELSE kept
    /\ step' = [step EXCEPT ![p] = IF pruneAge[p] >= PrunePeriod THEN "prune" ELSE "idle"]
    /\ pruneAge' = [pruneAge EXCEPT ![p] = 0]
    /\ samples' = [samples EXCEPT ![p] = Trimmed(Append(@, now), now)]
    /\ UNCHANGED <<now, starts, backs, faults, latest>>

\* Record with a successful append: the line is merged with a broken tail.  When
\* a prune is due it follows; otherwise the memory is trimmed and Record returns.
Record(p) ==
    /\ step[p] = "idle" /\ NewBucket(p)
    /\ last' = [last EXCEPT ![p] = now]
    /\ at' = [at EXCEPT ![p] = now]
    /\ file' = Append(file, IF tail = NoTail THEN now ELSE Junk)
    /\ tail' = NoTail
    /\ exists' = TRUE
    /\ kept' = IF tail = NoTail THEN kept \cup {now} ELSE kept
    /\ LET grown == Append(samples[p], now) IN
       IF pruneAge[p] >= PrunePeriod
       THEN /\ step' = [step EXCEPT ![p] = "prune"]
            /\ pruneAge' = [pruneAge EXCEPT ![p] = 0]
            /\ samples' = [samples EXCEPT ![p] = grown]
       ELSE /\ samples' = [samples EXCEPT ![p] = Trimmed(grown, now)]
            /\ UNCHANGED <<step, pruneAge>>
    /\ UNCHANGED <<now, starts, backs, faults, latest>>

\* Record with a failed append: the file cannot be opened, or the write is cut
\* short.  The sample stays in memory and nothing is pruned.
RecordFails(p) ==
    /\ step[p] = "idle" /\ NewBucket(p)
    /\ faults < MaxFaults /\ faults' = faults + 1
    /\ last' = [last EXCEPT ![p] = now]
    /\ at' = [at EXCEPT ![p] = now]
    /\ \/ UNCHANGED <<tail, exists>>
       \/ /\ tail' \in IF tail = NoTail THEN {Junk, now} ELSE {Junk}
          /\ exists' = TRUE
    /\ samples' = [samples EXCEPT ![p] = Trimmed(Append(@, now), now)]
    /\ UNCHANGED <<now, file, step, pruneAge, starts, backs, latest, kept>>

\* pruneFile: the file is replaced by a rename with what is in memory, or left
\* alone when that fails; then trimMemory.
PruneFile(p) ==
    /\ step[p] = "prune"
    /\ step' = [step EXCEPT ![p] = "idle"]
    /\ \/ file' = samples[p] /\ tail' = NoTail /\ exists' = TRUE /\ UNCHANGED faults
       \/ /\ faults < MaxFaults /\ faults' = faults + 1
          /\ UNCHANGED <<file, tail, exists>>
    /\ samples' = [samples EXCEPT ![p] = Trimmed(@, at[p])]
    /\ UNCHANGED <<now, last, at, pruneAge, starts, backs, latest, kept>>

\* The process ends, between two calls or in the middle of Record.
Exit(p) ==
    /\ step[p] # "down"
    /\ step' = [step EXCEPT ![p] = "down"]
    /\ samples' = [samples EXCEPT ![p] = <<>>]
    /\ last' = [last EXCEPT ![p] = 0]
    /\ at' = [at EXCEPT ![p] = 0]
    /\ pruneAge' = [pruneAge EXCEPT ![p] = 0]
    /\ UNCHANGED <<now, file, tail, exists, starts, backs, faults, latest, kept>>

\* A minute passes.
Elapse ==
    /\ now < MaxMinute
    /\ now' = now + 1
    /\ latest' = IF now' > latest THEN now' ELSE latest
    /\ pruneAge' = [p \in Procs |->
                      IF step[p] # "down" /\ pruneAge[p] < PrunePeriod
                      THEN pruneAge[p] + 1 ELSE pruneAge[p]]
    /\ UNCHANGED <<file, tail, exists, step, samples, last, at, starts, backs, faults, kept>>

\* The clock is set back; the age of lastPrune is measured on the monotonic clock.
SetClockBack ==
    /\ backs < MaxBacks
    /\ backs' = backs + 1
    /\ \E m \in Minutes : m < now /\ now' = m
    /\ UNCHANGED <<file, tail, exists, storeVars, starts, faults, latest, kept>>

Next ==
    \/ \E p \in Procs :
          Start(p) \/ Record(p) \/ RecordFails(p) \/ PruneFile(p) \/ Exit(p)
    \/ Elapse
    \/ SetClockBack

Spec == Init /\ [][Next]_vars

-----------------------------------------------------------------------------
(***************************************************************************)
(* Properties                                                              *)
(***************************************************************************)

\* A sample that was appended as a line of its own stays in the file as long as it
\* is within the retention, over prunes, restarts, failed writes and a clock set
\* back ("节点本地保留最近 7 天的分钟级历史", docs/performance.md:8).
SamplesKept ==
    \A m \in kept : m > latest - Retention => m \in Elements(file)

\* The file does not outgrow the retention ("a bounded ring used for queries and for
\* rewriting the file during pruning", history.go:21-22) except by what is appended
\* in one prune period: after each start, because load sets lastPrune without pruning,
\* and after each failed prune.
FileBounded == Len(file) <= Retention + (PrunePeriod + 1) * (starts + faults)
=============================================================================
