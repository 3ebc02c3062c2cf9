--------------------------- MODULE SnapshotCache ---------------------------
(***************************************************************************)
(* snapshotCache (cmd/fleetty/metrics_cache.go): the terminal sessions and *)
(* Hub requests of a node share its metrics collector.                     *)
(*                                                                         *)
(* Get holds the mutex from its freshness test to the publication.  Time   *)
(* is kept as ages, in units of a fraction of snapshotCacheTTL: it passes  *)
(* while a collection runs, and while nobody waits for the mutex, whose    *)
(* hand-over is short against the TTL.                                     *)
(***************************************************************************)
EXTENDS Naturals

CONSTANTS
    Clients,     \* sessions and RPC requests that call Get
    TTL,         \* snapshotCacheTTL
    MaxCollect   \* bound: the longest a collection cycle takes

Depths == {"full", "summary"}
\* A reading of the processors' or the interfaces' counters is "rated" when it has rates, "first" when
\* it only establishes the counters, "recovered" when it does so after a failed one, or "failed".

VARIABLES
    pc,         \* where each client is in Get
    want,       \* includeProcesses of its request
    age,        \* time since fullAt and summaryAt, up to TTL; TTL without a snapshot
    published,  \* the readings in c.full and c.summary
    haveCPU, haveNet,  \* of the collector: whether it has counters to compare with
    warmup,     \* the cycle under way takes a second sample
    cpu, net,   \* the readings of its last sample
    spent,      \* time since its `now', up to TTL
    left,       \* how much longer it may take
    joined      \* clients that came while a cycle of their depth was under way

vars == <<pc, want, age, published, haveCPU, haveNet, warmup, cpu, net, spent, left, joined>>

InCycle == {"first", "second", "publish"}

\* newSnapshotCache
Init ==
    /\ pc = [c \in Clients |-> "idle"]
    /\ want = [c \in Clients |-> "full"]
    /\ age = [d \in Depths |-> TTL]
    /\ published = [d \in Depths |-> {}]
    /\ haveCPU = FALSE /\ haveNet = FALSE /\ warmup = FALSE
    /\ cpu = "none" /\ net = "none" /\ spent = 0 /\ left = 0
    /\ joined = {}

Locked == \E c \in Clients : pc[c] \in InCycle
Goto(c, step) == pc' = [pc EXCEPT ![c] = step]
AtMost(a, b) == IF a <= b THEN a ELSE b

\* A client calls Get and waits for the mutex.
Request(c, d) ==
    /\ pc[c] = "idle"
    /\ Goto(c, "wait")
    /\ want' = [want EXCEPT ![c] = d]
    /\ joined' = IF \E o \in Clients : pc[o] \in InCycle /\ want[o] = d
                 THEN joined \cup {c} ELSE joined \ {c}
    /\ UNCHANGED <<age, published, haveCPU, haveNet, warmup, cpu, net, spent, left>>

\* Mutant: both depths look at the time of the full snapshot.
FreshByFull(d) == published[d] # {} /\ age["full"] < TTL

\* now.Sub(fullAt) < snapshotCacheTTL, or the same of the summary.
Fresh(d) == published[d] # {} /\ age[d] < TTL

\* The mutex is obtained and the cached snapshot is recent: it is returned.
ReturnCached(c) ==
    /\ pc[c] = "wait" /\ ~Locked
    /\ Fresh(want[c])
    /\ Goto(c, "idle")
    /\ UNCHANGED <<want, age, published, haveCPU, haveNet, warmup, cpu, net, spent, left, joined>>

\* Mutant: the first sample is published.
StartCycleCold(c) ==
    /\ pc[c] = "wait" /\ ~Locked
    /\ ~Fresh(want[c])
    /\ Goto(c, "first")
    /\ warmup' = FALSE
    /\ spent' = 0
    /\ left' = MaxCollect
    /\ cpu' = "none" /\ net' = "none"
    /\ UNCHANGED <<want, age, published, haveCPU, haveNet, joined>>

\* The mutex is obtained and the snapshot is old: one collection cycle, with a
\* second sample when the collector has no counters to compare with.
StartCycle(c) ==
    /\ pc[c] = "wait" /\ ~Locked
    /\ ~Fresh(want[c])
    /\ Goto(c, "first")
    /\ warmup' = ~(haveCPU /\ haveNet)
    /\ spent' = 0
    /\ left' = MaxCollect
    /\ cpu' = "none" /\ net' = "none"
    /\ UNCHANGED <<want, age, published, haveCPU, haveNet, joined>>

\* What a reading is, given whether there are counters and the reading before it.
Reading(have, before) ==
    IF have THEN "rated" ELSE IF before = "failed" THEN "recovered" ELSE "first"

\* A failed reading of the processors forgets their counters; one of the network does not.
collectCPU ==
    \/ cpu' = Reading(haveCPU, cpu) /\ haveCPU' = TRUE
    \/ cpu' = "failed" /\ haveCPU' = FALSE
collectNetwork ==
    \/ net' = Reading(haveNet, net) /\ haveNet' = TRUE
    \/ net' = "failed" /\ UNCHANGED haveNet

\* One sample of the cycle.
Collect(c) ==
    /\ pc[c] \in {"first", "second"}
    /\ collectCPU /\ collectNetwork
    /\ Goto(c, IF pc[c] = "first" /\ warmup THEN "second" ELSE "publish")
    /\ UNCHANGED <<want, age, published, warmup, spent, left, joined>>

\* record, publication with the time taken before the collection, and return.
Publish(c) ==
    /\ pc[c] = "publish"
    /\ published' = [published EXCEPT ![want[c]] = {cpu, net}]
    /\ age' = [age EXCEPT ![want[c]] = spent]
    /\ Goto(c, "idle")
    /\ UNCHANGED <<want, haveCPU, haveNet, warmup, cpu, net, spent, left, joined>>

\* Time passes, in a collection or when nobody waits for the mutex.
Elapse ==
    /\ IF Locked THEN left > 0 ELSE \A c \in Clients : pc[c] = "idle"
    /\ left' = IF Locked THEN left - 1 ELSE left
    /\ spent' = IF Locked THEN AtMost(spent + 1, TTL) ELSE spent
    /\ age' = [d \in Depths |-> AtMost(age[d] + 1, TTL)]
    /\ UNCHANGED <<pc, want, published, haveCPU, haveNet, warmup, cpu, net, joined>>

Next ==
    \/ \E c \in Clients : \/ \E d \in Depths : Request(c, d)
                          \/ ReturnCached(c) \/ StartCycle(c) \/ Collect(c) \/ Publish(c)
    \/ Elapse

Spec == Init /\ [][Next]_vars

-----------------------------------------------------------------------------
(***************************************************************************)
(* Properties                                                              *)
(***************************************************************************)

\* A request that comes while a cycle of its depth is under way is answered by
\* that cycle and never runs one of its own, also when a cycle of the other depth
\* gets the mutex in between ("concurrent SSH sessions and Hub RPC requests share
\* the same collection cycle instead of each running their own", metrics_cache.go:11-12).
SharedCycle == \A c \in Clients : pc[c] \in InCycle => c \notin joined

\* "Take a second sample so the first view does not misleadingly show zero rates"
\* (metrics_cache.go:64-65): what is published has rates, or a reading of its cycle
\* failed; also when the counters are lost between two cycles, to whichever depth.
NoZeroRates == \A d \in Depths : "first" \notin published[d]
=============================================================================
