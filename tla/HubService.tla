----------------------------- MODULE HubService -----------------------------
(***************************************************************************)
(* hubService (cmd/fleetty/hub.go): the two polling loops of a Hub process *)
(* (servers and Slurm clusters), the cached states they publish, the       *)
(* back-off of targets that do not answer, and the `r' key of a session.   *)
(*                                                                         *)
(* Every time.Time is kept as a distance from now: a deadline as the time  *)
(* left, a moment in the past as its age, up to the limit it is compared   *)
(* with.  The zero time is the distance that makes its comparison fail.    *)
(* So time never runs out and the model has no bound on it.                *)
(***************************************************************************)
EXTENDS Integers, FiniteSets

CONSTANTS
    Nodes,            \* config.Nodes
    Clusters,         \* config.SlurmClusters
    Sessions,         \* connected users
    Refresh,          \* config.refreshInterval()
    SlurmRefresh,     \* refreshInterval() of each cluster
    RetryInitial,     \* hubOfflineRetryInitial
    RetryMaximum,     \* hubOfflineRetryMaximum
    HistoryInterval,  \* hubHistoryRefreshInterval
    FailureCap        \* failures are counted up to here; the delay is then maximal

ASSUME TimingAssumption ==
    /\ Refresh \in Nat \ {0}
    /\ SlurmRefresh \in [Clusters -> Nat \ {0}]
    /\ RetryInitial \in Nat \ {0} /\ RetryMaximum \in Nat /\ RetryInitial <= RetryMaximum
    /\ HistoryInterval \in Nat \ {0}
    /\ FailureCap \in Nat \ {0}

VARIABLES
    nodeLoop,      \* where the goroutine runNodes is
    states,        \* s.states
    collectedAge,  \* age of s.collectedAt, up to Refresh
    work,          \* the slice collectHubNodeStatesWithPrevious fills
    call,          \* the RPC each node's goroutine waits for
    nodeTick, nodeTickIn,    \* a tick in ticker.C, and the time to the next one
    nodeWake,      \* whether nodeWake holds a value
    slurmLoop, slurmStates, slurmWork, query, slurmTick, slurmTickIn, slurmWake,
    runner,        \* s.slurmRunners: whether the cluster has an open runner
    press,         \* each session's progress through retryOfflineNow
    stopped,       \* the context of start is done
    outcome,       \* how the last snapshot RPC of each node ended
    owed           \* nodes a user asked to retry and that were not polled since

nodeVars == <<nodeLoop, states, collectedAge, work, call>>
slurmVars == <<slurmLoop, slurmStates, slurmWork, query, runner>>
tickVars == <<nodeTick, nodeTickIn, slurmTick, slurmTickIn>>
vars == <<nodeVars, slurmVars, tickVars, nodeWake, slurmWake, press, stopped,
          outcome, owed>>

NodeStates ==
    [error: BOOLEAN, failures: 0..FailureCap, retryIn: 0..RetryMaximum,
     history: BOOLEAN,                \* state.History # nil
     historyAge: 0..HistoryInterval]

ClusterStates(c) ==
    [error: BOOLEAN, failures: 0..FailureCap, retryIn: 0..RetryMaximum,
     seen: BOOLEAN,                   \* Snapshot.CollectedAt is set
     checkedAge: 0..SlurmRefresh[c]]

\* slurmRefreshInterval: the shortest interval of the clusters.
SlurmTicker ==
    IF Clusters = {} THEN 1
    ELSE CHOOSE d \in {SlurmRefresh[c] : c \in Clusters} :
            \A c \in Clusters : d <= SlurmRefresh[c]

NewNode == [error |-> FALSE, failures |-> 0, retryIn |-> 0,
            history |-> FALSE, historyAge |-> HistoryInterval]
NewCluster(c) == [error |-> FALSE, failures |-> 0, retryIn |-> 0,
                  seen |-> FALSE, checkedAge |-> SlurmRefresh[c]]

\* newHubService and start.  Without clusters runSlurm returns at once.
Init ==
    /\ nodeLoop = "collect"
    /\ states = [n \in Nodes |-> NewNode] /\ work = states
    /\ collectedAge = Refresh
    /\ call = [n \in Nodes |-> "idle"]
    /\ nodeTick = FALSE /\ nodeTickIn = Refresh
    /\ slurmTick = FALSE /\ slurmTickIn = SlurmTicker
    /\ nodeWake = FALSE /\ slurmWake = FALSE
    /\ slurmLoop = IF Clusters = {} THEN "ended" ELSE "collect"
    /\ slurmStates = [c \in Clusters |-> NewCluster(c)] /\ slurmWork = slurmStates
    /\ query = [c \in Clusters |-> "idle"]
    /\ runner = [c \in Clusters |-> FALSE]
    /\ press = [s \in Sessions |-> "idle"]
    /\ stopped = FALSE
    /\ outcome = [n \in Nodes |-> "none"]
    /\ owed = [n \in Nodes |-> "no"]

AtMost(a, b) == IF a <= b THEN a ELSE b

\* hubOfflineRetryDelay: doubling from the initial delay, never past the maximum.
RetryDelay[failures \in Nat] ==
    IF failures <= 1 THEN RetryInitial
    ELSE LET delay == RetryDelay[failures - 1]
         IN  IF delay < RetryMaximum THEN AtMost(2 * delay, RetryMaximum) ELSE delay

ASSUME CapAssumption == RetryDelay[FailureCap] = RetryMaximum

\* 2^failures
Doubled[failures \in Nat] ==
    IF failures = 0 THEN 1 ELSE 2 * Doubled[failures - 1]

\* The part of a failure that servers and clusters share.
Failed(state) ==
    LET failures == AtMost(state.failures + 1, FailureCap)
    IN  [state EXCEPT !.failures = failures, !.retryIn = RetryDelay[failures]]
Recovered(state) ==
    [state EXCEPT !.error = FALSE, !.failures = 0, !.retryIn = 0]

-----------------------------------------------------------------------------
(***************************************************************************)
(* runNodes and collect                                                    *)
(***************************************************************************)

\* Mutant: NextRetry is not compared with the time.
InBackoffForever(state) == state.error
InBackoff(state) == state.error /\ state.retryIn > 0

\* collect up to the RPCs.  A recent collection is returned as it is;
\* otherwise the states are copied and every node that is not backing off gets
\* its goroutine.  (retryOfflineNow between the freshness test and the copy has
\* the effect it has before both.)
Collect ==
    /\ nodeLoop = "collect"
    /\ IF 2 * collectedAge < Refresh
       THEN /\ nodeLoop' = "select"
            /\ UNCHANGED <<work, call, owed>>
       ELSE /\ nodeLoop' = "poll"
            /\ work' = states
            /\ call' = [n \in Nodes |->
                          IF InBackoff(states[n]) THEN "idle" ELSE "snapshot"]
            /\ owed' = [n \in Nodes |-> IF call'[n] = "snapshot" THEN "no" ELSE owed[n]]
    /\ UNCHANGED <<states, collectedAge, slurmVars, tickVars, nodeWake, slurmWake,
                   press, stopped, outcome>>

\* The snapshot RPC of a node ends; a node that answered is also asked for its
\* history when there is none yet or the last request is old.
SnapshotReturns(n) ==
    /\ call[n] = "snapshot"
    /\ \/ /\ work' = [work EXCEPT ![n] = [Failed(@) EXCEPT !.error = TRUE]]
          /\ call' = [call EXCEPT ![n] = "idle"]
          /\ outcome' = [outcome EXCEPT ![n] = "error"]
       \/ /\ outcome' = [outcome EXCEPT ![n] = "ok"]
          /\ IF ~work[n].history \/ work[n].historyAge >= HistoryInterval
             THEN /\ work' = [work EXCEPT ![n] = [Recovered(@) EXCEPT !.historyAge = 0]]
                  /\ call' = [call EXCEPT ![n] = "history"]
             ELSE /\ work' = [work EXCEPT ![n] = Recovered(@)]
                  /\ call' = [call EXCEPT ![n] = "idle"]
    /\ UNCHANGED <<nodeLoop, states, collectedAge, slurmVars, tickVars, nodeWake,
                   slurmWake, press, stopped, owed>>

\* The history RPC ends: samples, an empty list (decoded as nil), or a failure,
\* which keeps what there is.
HistoryReturns(n) ==
    /\ call[n] = "history"
    /\ \E samples \in {TRUE, FALSE, work[n].history} :
          work' = [work EXCEPT ![n].history = samples]
    /\ call' = [call EXCEPT ![n] = "idle"]
    /\ UNCHANGED <<nodeLoop, states, collectedAge, slurmVars, tickVars, nodeWake,
                   slurmWake, press, stopped, outcome, owed>>

\* Mutant: the copy taken before the RPCs is published.
PublishPrevious ==
    /\ nodeLoop = "poll"
    /\ \A n \in Nodes : call[n] = "idle"
    /\ nodeLoop' = "select"
    /\ collectedAge' = 0
    /\ UNCHANGED <<states, work, call, slurmVars, tickVars, nodeWake, slurmWake, press,
                   stopped, outcome, owed>>

\* wait.Wait(), then the states and collectedAt are replaced under the lock.
Publish ==
    /\ nodeLoop = "poll"
    /\ \A n \in Nodes : call[n] = "idle"
    /\ nodeLoop' = "select"
    /\ states' = work
    /\ work' = [n \in Nodes |-> NewNode]
    /\ collectedAge' = 0
    /\ UNCHANGED <<call, slurmVars, tickVars, nodeWake, slurmWake, press, stopped,
                   outcome, owed>>

\* The select of runNodes.
NodesWait ==
    /\ nodeLoop = "select"
    /\ \/ stopped /\ nodeLoop' = "ended" /\ UNCHANGED <<nodeTick, nodeWake>>
       \/ nodeTick /\ nodeTick' = FALSE /\ nodeLoop' = "collect" /\ UNCHANGED nodeWake
       \/ nodeWake /\ nodeWake' = FALSE /\ nodeLoop' = "collect" /\ UNCHANGED nodeTick
    /\ UNCHANGED <<states, collectedAge, work, call, slurmVars, nodeTickIn, slurmTick,
                   slurmTickIn, slurmWake, press, stopped, outcome, owed>>

-----------------------------------------------------------------------------
(***************************************************************************)
(* runSlurm, collectSlurm and collectSlurmStates                           *)
(***************************************************************************)

\* Mutant: a failing cluster is left alone.
SkippedForever(c) ==
    \/ slurmStates[c].failures > 0
    \/ ~slurmStates[c].error /\ slurmStates[c].checkedAge < SlurmRefresh[c]

Skipped(c) ==
    \/ slurmStates[c].failures > 0 /\ slurmStates[c].retryIn > 0
    \/ ~slurmStates[c].error /\ slurmStates[c].checkedAge < SlurmRefresh[c]

CollectSlurm ==
    /\ slurmLoop = "collect"
    /\ slurmLoop' = "poll"
    /\ slurmWork' = slurmStates
    /\ query' = [c \in Clusters |->
                   IF Skipped(c) THEN "idle" ELSE IF runner[c] THEN "run" ELSE "connect"]
    /\ UNCHANGED <<nodeVars, slurmStates, runner, tickVars, nodeWake, slurmWake, press,
                   stopped, outcome, owed>>

\* newSlurmRunner succeeds.
RunnerConnects(c) ==
    /\ query[c] = "connect"
    /\ query' = [query EXCEPT ![c] = "run"]
    /\ runner' = [runner EXCEPT ![c] = TRUE]
    /\ UNCHANGED <<nodeVars, slurmLoop, slurmStates, slurmWork, tickVars, nodeWake,
                   slurmWake, press, stopped, outcome, owed>>

ClusterFailed(state) ==
    LET next == [Failed(state) EXCEPT !.checkedAge = 0]
    IN  [next EXCEPT !.error = @ \/ ~next.seen \/ next.failures >= 2]

\* Connecting or one of the commands fails: the runner is closed and forgotten.
\* A cluster with a snapshot shows the error from the second failure on.
QueryFails(c) ==
    /\ query[c] \in {"connect", "run"}
    /\ query' = [query EXCEPT ![c] = "idle"]
    /\ runner' = [runner EXCEPT ![c] = FALSE]
    /\ slurmWork' = [slurmWork EXCEPT ![c] = ClusterFailed(@)]
    /\ UNCHANGED <<nodeVars, slurmLoop, slurmStates, tickVars, nodeWake, slurmWake, press,
                   stopped, outcome, owed>>

QuerySucceeds(c) ==
    /\ query[c] = "run"
    /\ query' = [query EXCEPT ![c] = "idle"]
    /\ slurmWork' = [slurmWork EXCEPT ![c] =
                       [Recovered(@) EXCEPT !.seen = TRUE, !.checkedAge = 0]]
    /\ UNCHANGED <<nodeVars, slurmLoop, slurmStates, runner, tickVars, nodeWake, slurmWake,
                   press, stopped, outcome, owed>>

PublishSlurm ==
    /\ slurmLoop = "poll"
    /\ \A c \in Clusters : query[c] = "idle"
    /\ slurmLoop' = "select"
    /\ slurmStates' = slurmWork
    /\ slurmWork' = [c \in Clusters |-> NewCluster(c)]
    /\ UNCHANGED <<nodeVars, query, runner, tickVars, nodeWake, slurmWake, press, stopped,
                   outcome, owed>>

\* The select of runSlurm; returning closes the runners.
SlurmWait ==
    /\ slurmLoop = "select"
    /\ \/ /\ stopped
          /\ slurmLoop' = "ended"
          /\ runner' = [c \in Clusters |-> FALSE]
          /\ UNCHANGED <<slurmTick, slurmWake>>
       \/ /\ slurmTick /\ slurmTick' = FALSE
          /\ slurmLoop' = "collect"
          /\ UNCHANGED <<slurmWake, runner>>
       \/ /\ slurmWake /\ slurmWake' = FALSE
          /\ slurmLoop' = "collect"
          /\ UNCHANGED <<slurmTick, runner>>
    /\ UNCHANGED <<nodeVars, slurmStates, slurmWork, query, nodeTick, nodeTickIn,
                   slurmTickIn, nodeWake, press, stopped, outcome, owed>>

-----------------------------------------------------------------------------
(***************************************************************************)
(* retryOfflineNow, the clock, and the end of the process's context.       *)
(***************************************************************************)

\* A node is owed a poll from the press of `r' on, unless it is being polled.
Owe == [n \in Nodes |->
          IF states[n].error /\ call[n] = "idle" /\ owed[n] = "no"
          THEN IF nodeLoop = "poll" THEN "busy" ELSE "idle"
          ELSE owed[n]]

\* Mutant: collectedAt is left alone.
RetryOfflineKeepsCache(s) ==
    /\ press[s] = "idle"
    /\ press' = [press EXCEPT ![s] = "wake"]
    /\ states' = [n \in Nodes |->
                    IF states[n].error THEN [states[n] EXCEPT !.retryIn = 0] ELSE states[n]]
    /\ owed' = Owe
    /\ UNCHANGED <<nodeLoop, collectedAge, work, call, slurmVars, tickVars,
                   nodeWake, slurmWake, stopped, outcome>>

\* retryOfflineNow under the lock.
RetryOffline(s) ==
    /\ press[s] = "idle"
    /\ press' = [press EXCEPT ![s] = "wake"]
    /\ states' = [n \in Nodes |->
                    IF states[n].error THEN [states[n] EXCEPT !.retryIn = 0] ELSE states[n]]
    /\ slurmStates' = [c \in Clusters |->
                         IF slurmStates[c].failures > 0
                         THEN [slurmStates[c] EXCEPT !.retryIn = 0] ELSE slurmStates[c]]
    /\ collectedAge' = Refresh
    /\ owed' = Owe
    /\ UNCHANGED <<nodeLoop, work, call, slurmLoop, slurmWork, query, runner, tickVars,
                   nodeWake, slurmWake, stopped, outcome>>

\* requestCollect: two sends that do not block.
RequestCollect(s) ==
    /\ press[s] = "wake"
    /\ press' = [press EXCEPT ![s] = "idle"]
    /\ nodeWake' = TRUE /\ slurmWake' = TRUE
    /\ UNCHANGED <<nodeVars, slurmVars, tickVars, stopped, outcome, owed>>

Sooner(n) == IF n > 0 THEN n - 1 ELSE 0
NodeLater(state) == [state EXCEPT !.retryIn = Sooner(@),
                                  !.historyAge = AtMost(@ + 1, HistoryInterval)]
ClusterLater(c, state) == [state EXCEPT !.retryIn = Sooner(@),
                                        !.checkedAge = AtMost(@ + 1, SlurmRefresh[c])]

\* A unit of time passes.  A ticker whose channel is full drops its tick.
Elapse ==
    /\ states' = [n \in Nodes |-> NodeLater(states[n])]
    /\ work' = [n \in Nodes |-> NodeLater(work[n])]
    /\ slurmStates' = [c \in Clusters |-> ClusterLater(c, slurmStates[c])]
    /\ slurmWork' = [c \in Clusters |-> ClusterLater(c, slurmWork[c])]
    /\ collectedAge' = AtMost(collectedAge + 1, Refresh)
    /\ nodeTick' = (nodeTick \/ nodeTickIn = 1)
    /\ nodeTickIn' = IF nodeTickIn = 1 THEN Refresh ELSE nodeTickIn - 1
    /\ slurmTick' = (slurmTick \/ (slurmTickIn = 1 /\ Clusters # {}))
    /\ slurmTickIn' = IF slurmTickIn = 1 THEN SlurmTicker ELSE slurmTickIn - 1
    /\ UNCHANGED <<nodeLoop, call, slurmLoop, query, runner, nodeWake, slurmWake, press,
                   stopped, outcome, owed>>

Stop ==
    /\ ~stopped
    /\ stopped' = TRUE
    /\ UNCHANGED <<nodeVars, slurmVars, tickVars, nodeWake, slurmWake, press, outcome, owed>>

NodeLoopStep == Collect \/ Publish \/ NodesWait
SlurmLoopStep == CollectSlurm \/ PublishSlurm \/ SlurmWait
NodeCall(n) == SnapshotReturns(n) \/ HistoryReturns(n)
ClusterQuery(c) == RunnerConnects(c) \/ QueryFails(c) \/ QuerySucceeds(c)

Next ==
    \/ NodeLoopStep
    \/ SlurmLoopStep
    \/ \E n \in Nodes : NodeCall(n)
    \/ \E c \in Clusters : ClusterQuery(c)
    \/ \E s \in Sessions : RetryOffline(s) \/ RequestCollect(s)
    \/ Elapse
    \/ Stop

Spec == Init /\ [][Next]_vars

(***************************************************************************)
(* The goroutines run, time passes, and every node RPC ends, at the latest *)
(* by its deadline (RPCPool!CallsReturn).  Of a Slurm command this is only *)
(* assumed: newSlurmRunner's handshake and NewSession have no deadline.    *)
(***************************************************************************)
Fairness ==
    /\ WF_vars(NodeLoopStep) /\ WF_vars(SlurmLoopStep) /\ WF_vars(Elapse)
    /\ \A n \in Nodes : WF_vars(NodeCall(n))
    /\ \A c \in Clusters : WF_vars(ClusterQuery(c))

FairSpec == Spec /\ Fairness

-----------------------------------------------------------------------------
(***************************************************************************)
(* Properties                                                              *)
(***************************************************************************)

\* Between two cycles the published state of every node is the outcome of its
\* last RPC: a cycle's results are not lost to a concurrent `r', which writes
\* the same slice (hub.go, collect and retryOfflineNow).
LatestOutcomePublished ==
    nodeLoop \in {"collect", "select", "ended"} =>
        \A n \in DOMAIN states : states[n].error <=> outcome[n] = "error"

\* An `r' pressed between two cycles is honoured: when the loop is back in its
\* select and no wake-up is under way, every node that was offline at the press
\* has been polled ("Press r to retry now.", hub.go:843).
IdleRetryHonoured ==
    nodeLoop = "select" /\ ~nodeWake /\ (\A s \in Sessions : press[s] = "idle")
        => \A n \in Nodes : owed[n] # "idle"

\* The same for every press of `r', also while a cycle is in flight.
EveryRetryHonoured ==
    nodeLoop = "select" /\ ~nodeWake /\ (\A s \in Sessions : press[s] = "idle")
        => \A n \in Nodes : owed[n] = "no"

NodePolled(n) == call[n] = "snapshot" \/ stopped
ClusterPolled(c) == query[c] # "idle" \/ stopped

\* Every node is polled again and again, online or offline, whatever users
\* press: neither back-off, nor dropped ticks, nor the freshness test, nor a
\* coalesced wake-up starves it.
NodesPolledForever == \A n \in Nodes : []<>NodePolled(n)

\* Likewise for every Slurm cluster.
ClustersPolledForever == \A c \in Clusters : []<>ClusterPolled(c)
=============================================================================
