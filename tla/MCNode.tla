------------------------------- MODULE MCNode -------------------------------
(***************************************************************************)
(* The services of one node that share no state, in one run: a behaviour is *)
(* one of the management requests and connections, of the snapshot cache,   *)
(* or of the history file; the others stay as they began.                   *)
(***************************************************************************)
EXTENDS NodeManagement, TLC

CONSTANTS
    Readers, TTL, MaxCollect,
    Procs, Retention, PrunePeriod, MaxMinute, MaxProcessStarts, MaxBacks, MaxFaults

VARIABLES
    part,
    pc, want, age, published, haveCPU, haveNet, warmup, cpu, net, spent, left, joined,
    now, file, tail, exists, step, samples, last, at, pruneAge, starts, backs, faults, latest, kept

cacheVars == <<pc, want, age, published, haveCPU, haveNet, warmup, cpu, net, spent, left, joined>>
historyVars == <<now, file, tail, exists, step, samples, last, at, pruneAge, starts, backs, faults, latest, kept>>

Cache == INSTANCE SnapshotCache WITH Clients <- Readers
History == INSTANCE HistoryStore WITH MaxStarts <- MaxProcessStarts

NodeInit ==
    /\ Init /\ Cache!Init /\ History!Init /\ part \in {"management", "cache", "history"}
    /\ part # "management" => direct

ManagementStep == part = "management" /\ Next /\ UNCHANGED <<part, cacheVars, historyVars>>
CacheStep == part = "cache" /\ Cache!Next /\ UNCHANGED <<part, vars, historyVars>>
HistoryStep == part = "history" /\ History!Next /\ UNCHANGED <<part, vars, cacheVars>>

NodeNext == ManagementStep \/ CacheStep \/ HistoryStep
NodeSpec == NodeInit /\ [][NodeNext]_<<part, vars, cacheVars, historyVars>>

Symmetry == Permutations(Clients)

\* SnapshotCache: whoever waited for a cycle of its depth gets its snapshot.
SharedCycle == part = "cache" => Cache!SharedCycle
\* SnapshotCache: no snapshot with zero rates is published.
NoZeroRates == part = "cache" => Cache!NoZeroRates
\* HistoryStore: a sample is kept for the retention period.
SamplesKept == part = "history" => History!SamplesKept
\* HistoryStore: the file does not grow without bound.
FileBounded == part = "history" => History!FileBounded
=============================================================================
