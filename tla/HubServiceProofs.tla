--------------------------- MODULE HubServiceProofs ---------------------------
(***************************************************************************)
(* Proofs about HubService: between two cycles the states of the nodes are  *)
(* the outcomes of their last RPCs, and an `r' that is pressed between two  *)
(* cycles leads to a poll, for any nodes, sessions and intervals.           *)
(*                                                                         *)
(* A state keeps its fields in every step; what the delays and ages are     *)
(* does not matter here.                                                   *)
(***************************************************************************)
EXTENDS HubService, TLAPS

Fields == {"error", "failures", "retryIn", "history", "historyAge"}

NodeTypes ==
    /\ nodeLoop \in {"collect", "poll", "select", "ended"}
    /\ states = [n \in Nodes |-> states[n]] /\ \A n \in Nodes : DOMAIN states[n] = Fields
    /\ work = [n \in Nodes |-> work[n]] /\ \A n \in Nodes : DOMAIN work[n] = Fields
    /\ call \in [Nodes -> {"idle", "snapshot", "history"}]
    /\ outcome \in [Nodes -> {"none", "ok", "error"}]
    /\ owed \in [Nodes -> {"no", "idle", "busy"}]
    /\ press \in [Sessions -> {"idle", "wake"}]
    /\ collectedAge \in 0..Refresh

\* The outcomes of the RPCs are in the slice of the cycle that is under way, or published.
OutcomeInv ==
    IF nodeLoop = "poll"
    THEN \A n \in Nodes : work[n].error <=> outcome[n] = "error"
    ELSE \A n \in Nodes : call[n] = "idle" /\ (states[n].error <=> outcome[n] = "error")

\* A node that is owed a poll since a press between two cycles will be in the next one, which will not
\* be skipped; while the loop waits, a wake-up for it is there or will be sent.
OwedInv ==
    \A n \in Nodes : owed[n] = "idle" =>
        /\ nodeLoop # "poll" /\ collectedAge = Refresh
        /\ states[n].error /\ states[n].retryIn = 0
        /\ nodeLoop = "select" => nodeWake \/ \E s \in Sessions : press[s] = "wake"

HubServiceInv == NodeTypes /\ OutcomeInv /\ OwedInv

-----------------------------------------------------------------------------
(* What the steps do to a state. *)

LEMMA StateSteps ==
    ASSUME NEW state, DOMAIN state = Fields
    PROVE  /\ DOMAIN [Failed(state) EXCEPT !.error = TRUE] = Fields /\ [Failed(state) EXCEPT !.error = TRUE].error = TRUE
           /\ DOMAIN Recovered(state) = Fields /\ Recovered(state).error = FALSE
           /\ DOMAIN [Recovered(state) EXCEPT !.historyAge = 0] = Fields
           /\ [Recovered(state) EXCEPT !.historyAge = 0].error = FALSE
           /\ DOMAIN NodeLater(state) = Fields /\ NodeLater(state).error = state.error
           /\ NodeLater(state).retryIn = Sooner(state.retryIn)
           /\ DOMAIN [state EXCEPT !.retryIn = 0] = Fields /\ [state EXCEPT !.retryIn = 0].error = state.error
           /\ [state EXCEPT !.retryIn = 0].retryIn = 0
           /\ \A b : DOMAIN [state EXCEPT !.history = b] = Fields /\ [state EXCEPT !.history = b].error = state.error
<1> USE DEF Fields
<1>1. DOMAIN [Failed(state) EXCEPT !.error = TRUE] = Fields /\ [Failed(state) EXCEPT !.error = TRUE].error = TRUE
  BY DEF Failed
<1>2. DOMAIN Recovered(state) = Fields /\ Recovered(state).error = FALSE
  BY DEF Recovered
<1>3. /\ DOMAIN [Recovered(state) EXCEPT !.historyAge = 0] = Fields
      /\ [Recovered(state) EXCEPT !.historyAge = 0].error = FALSE
  BY <1>2
<1>4. /\ DOMAIN NodeLater(state) = Fields /\ NodeLater(state).error = state.error
      /\ NodeLater(state).retryIn = Sooner(state.retryIn)
  BY DEF NodeLater
<1>5. /\ DOMAIN [state EXCEPT !.retryIn = 0] = Fields /\ [state EXCEPT !.retryIn = 0].error = state.error
      /\ [state EXCEPT !.retryIn = 0].retryIn = 0
  OBVIOUS
<1>6. \A b : DOMAIN [state EXCEPT !.history = b] = Fields /\ [state EXCEPT !.history = b].error = state.error
  OBVIOUS
<1>. QED
  BY <1>1, <1>2, <1>3, <1>4, <1>5, <1>6

\* What the steps that leave the loop of the nodes alone do not touch.
LEMMA OthersKeep ==
    ASSUME HubServiceInv, UNCHANGED <<nodeVars, press, outcome, owed>>, nodeWake' = nodeWake
    PROVE  HubServiceInv'
<1>1. NodeTypes'
  BY DEF HubServiceInv, NodeTypes, nodeVars
<1>2. OutcomeInv'
  BY DEF HubServiceInv, OutcomeInv, nodeVars
<1>3. OwedInv'
  BY DEF HubServiceInv, OwedInv, nodeVars
<1>. QED
  BY <1>1, <1>2, <1>3 DEF HubServiceInv

LEMMA SlurmSteps ==
    ASSUME HubServiceInv, SlurmLoopStep \/ (\E c \in Clusters : ClusterQuery(c)) \/ Stop
    PROVE  HubServiceInv'
<1>1. UNCHANGED <<nodeVars, press, outcome, owed, nodeWake>>
  BY DEF SlurmLoopStep, CollectSlurm, PublishSlurm, SlurmWait, ClusterQuery, RunnerConnects, QueryFails, QuerySucceeds, Stop
<1>. QED
  BY <1>1, OthersKeep

\* A cycle begins: every owed node is in it, for it does not back off and the cycle is not skipped.
LEMMA CollectKeeps ==
    ASSUME HubServiceInv, Collect
    PROVE  HubServiceInv'
<1>1. /\ nodeLoop = "collect" /\ NodeTypes /\ OutcomeInv /\ OwedInv /\ collectedAge \in 0..Refresh /\ Refresh \in Nat \ {0}
      /\ UNCHANGED <<states, collectedAge, press, outcome, nodeWake>>
  BY TimingAssumption DEF HubServiceInv, NodeTypes, TimingAssumption, Collect
<1>2. CASE 2 * collectedAge < Refresh
  <2>1. nodeLoop' = "select" /\ UNCHANGED <<work, call, owed>>
    BY <1>2 DEF Collect
  <2>2. \A n \in Nodes : owed[n] # "idle"
    BY <1>1, <1>2 DEF OwedInv
  <2>3. NodeTypes'
    BY <1>1, <2>1 DEF NodeTypes
  <2>4. OutcomeInv'
    BY <1>1, <2>1 DEF OutcomeInv
  <2>5. OwedInv'
    BY <2>1, <2>2 DEF OwedInv
  <2>. QED
    BY <2>3, <2>4, <2>5 DEF HubServiceInv
<1>3. CASE ~(2 * collectedAge < Refresh)
  <2>1. /\ nodeLoop' = "poll" /\ work' = states
        /\ call' = [n \in Nodes |-> IF InBackoff(states[n]) THEN "idle" ELSE "snapshot"]
        /\ owed' = [n \in Nodes |-> IF call'[n] = "snapshot" THEN "no" ELSE owed[n]]
    BY <1>3 DEF Collect
  <2>2. ASSUME NEW n \in Nodes PROVE owed'[n] # "idle"
    <3>1. owed[n] = "idle" => ~InBackoff(states[n])
      BY <1>1 DEF OwedInv, InBackoff
    <3>. QED
      BY <2>1, <3>1, Zenon
  <2>3. call' \in [Nodes -> {"idle", "snapshot", "history"}]
    BY <2>1
  <2>4. owed' \in [Nodes -> {"no", "idle", "busy"}]
    BY <1>1, <2>1 DEF NodeTypes
  <2>5. NodeTypes'
    BY <1>1, <2>1, <2>3, <2>4 DEF NodeTypes
  <2>6. OutcomeInv'
    BY <1>1, <2>1 DEF OutcomeInv
  <2>7. OwedInv'
    BY <2>2 DEF OwedInv
  <2>. QED
    BY <2>5, <2>6, <2>7 DEF HubServiceInv
<1>. QED
  BY <1>2, <1>3

\* The RPCs of a cycle write their node's slot.
LEMMA SnapshotReturnsKeeps ==
    ASSUME HubServiceInv, NEW n \in Nodes, SnapshotReturns(n)
    PROVE  HubServiceInv'
<1>1. NodeTypes /\ OutcomeInv /\ OwedInv
  BY DEF HubServiceInv
<1>2. call[n] = "snapshot" /\ UNCHANGED <<nodeLoop, states, collectedAge, nodeWake, press, owed>>
  BY DEF SnapshotReturns
<1>3. nodeLoop = "poll"
  BY <1>1, <1>2 DEF OutcomeInv
<1>4. DOMAIN work[n] = Fields
  BY <1>1 DEF NodeTypes
<1>5. PICK next : \E after \in {"idle", "history"}, how \in {"ok", "error"} :
        /\ work' = [work EXCEPT ![n] = next] /\ call' = [call EXCEPT ![n] = after] /\ outcome' = [outcome EXCEPT ![n] = how]
        /\ DOMAIN next = Fields /\ (next.error <=> how = "error")
  <2>1. CASE work' = [work EXCEPT ![n] = [Failed(work[n]) EXCEPT !.error = TRUE]] /\ call' = [call EXCEPT ![n] = "idle"]
             /\ outcome' = [outcome EXCEPT ![n] = "error"]
    <3>1. DOMAIN [Failed(work[n]) EXCEPT !.error = TRUE] = Fields /\ [Failed(work[n]) EXCEPT !.error = TRUE].error = TRUE
      BY <1>4, StateSteps
    <3>. QED
      BY <2>1, <3>1, Zenon
  <2>2. CASE work' = [work EXCEPT ![n] = [Recovered(work[n]) EXCEPT !.historyAge = 0]] /\ call' = [call EXCEPT ![n] = "history"]
             /\ outcome' = [outcome EXCEPT ![n] = "ok"]
    <3>1. DOMAIN [Recovered(work[n]) EXCEPT !.historyAge = 0] = Fields /\ [Recovered(work[n]) EXCEPT !.historyAge = 0].error = FALSE
      BY <1>4, StateSteps
    <3>. QED
      BY <2>2, <3>1, Zenon
  <2>3. CASE work' = [work EXCEPT ![n] = Recovered(work[n])] /\ call' = [call EXCEPT ![n] = "idle"]
             /\ outcome' = [outcome EXCEPT ![n] = "ok"]
    <3>1. DOMAIN Recovered(work[n]) = Fields /\ Recovered(work[n]).error = FALSE
      BY <1>4, StateSteps
    <3>. QED
      BY <2>3, <3>1, Zenon
  <2>. QED
    BY <2>1, <2>2, <2>3 DEF SnapshotReturns
<1>5a. PICK after \in {"idle", "history"}, how \in {"ok", "error"} :
        /\ work' = [work EXCEPT ![n] = next] /\ call' = [call EXCEPT ![n] = after] /\ outcome' = [outcome EXCEPT ![n] = how]
        /\ DOMAIN next = Fields /\ (next.error <=> how = "error")
  BY <1>5
<1>6. /\ \A m \in Nodes \ {n} : work'[m] = work[m] /\ outcome'[m] = outcome[m]
      /\ work'[n] = next /\ outcome'[n] = how /\ work' = [m \in Nodes |-> work'[m]]
  <2>1. work = [m \in Nodes |-> work[m]]
    BY <1>1 DEF NodeTypes
  <2>2. DOMAIN work = Nodes
    BY <2>1
  <2>3. DOMAIN outcome = Nodes
    BY <1>1 DEF NodeTypes
  <2>. QED
    BY <1>5a, <2>2, <2>3
<1>7. NodeTypes'
  <2>1. call' \in [Nodes -> {"idle", "snapshot", "history"}] /\ outcome' \in [Nodes -> {"none", "ok", "error"}]
    BY <1>1, <1>5a DEF NodeTypes
  <2>2. \A m \in Nodes : DOMAIN work'[m] = Fields
    BY <1>1, <1>5a, <1>6 DEF NodeTypes
  <2>. QED
    BY <1>1, <1>2, <1>6, <2>1, <2>2 DEF NodeTypes
<1>8. OutcomeInv'
  BY <1>1, <1>2, <1>3, <1>5a, <1>6 DEF OutcomeInv
<1>9. OwedInv'
  BY <1>1, <1>2 DEF OwedInv
<1>. QED
  BY <1>7, <1>8, <1>9 DEF HubServiceInv

LEMMA HistoryReturnsKeeps ==
    ASSUME HubServiceInv, NEW n \in Nodes, HistoryReturns(n)
    PROVE  HubServiceInv'
<1>1. NodeTypes /\ OutcomeInv /\ OwedInv
  BY DEF HubServiceInv
<1>2. /\ call[n] = "history" /\ call' = [call EXCEPT ![n] = "idle"]
      /\ UNCHANGED <<nodeLoop, states, collectedAge, nodeWake, press, outcome, owed>>
  BY DEF HistoryReturns
<1>3. nodeLoop = "poll"
  BY <1>1, <1>2 DEF OutcomeInv
<1>4. PICK samples : work' = [work EXCEPT ![n].history = samples]
  BY DEF HistoryReturns
<1> DEFINE next == [work[n] EXCEPT !.history = samples]
<1>5. work' = [work EXCEPT ![n] = next]
  BY <1>4
<1>6. DOMAIN next = Fields /\ next.error = work[n].error
  BY <1>1, StateSteps DEF NodeTypes
<1> HIDE DEF next
<1>7. /\ \A m \in Nodes \ {n} : work'[m] = work[m]
      /\ work'[n] = next /\ work' = [m \in Nodes |-> work'[m]]
  <2>1. work = [m \in Nodes |-> work[m]]
    BY <1>1 DEF NodeTypes
  <2>2. DOMAIN work = Nodes
    BY <2>1
  <2>. QED
    BY <1>5, <2>2
<1>8. NodeTypes'
  <2>1. call' \in [Nodes -> {"idle", "snapshot", "history"}]
    BY <1>1, <1>2 DEF NodeTypes
  <2>2. \A m \in Nodes : DOMAIN work'[m] = Fields
    BY <1>1, <1>6, <1>7 DEF NodeTypes
  <2>. QED
    BY <1>1, <1>2, <1>7, <2>1, <2>2 DEF NodeTypes
<1>9. OutcomeInv'
  BY <1>1, <1>2, <1>3, <1>6, <1>7 DEF OutcomeInv
<1>10. OwedInv'
  BY <1>1, <1>2 DEF OwedInv
<1>. QED
  BY <1>8, <1>9, <1>10 DEF HubServiceInv

\* A cycle ends: its slice, with all its outcomes, is published.
LEMMA PublishKeeps ==
    ASSUME HubServiceInv, Publish
    PROVE  HubServiceInv'
<1>1. NodeTypes /\ OutcomeInv /\ OwedInv /\ Refresh \in Nat \ {0}
  BY TimingAssumption DEF HubServiceInv, TimingAssumption
<1>2. /\ nodeLoop = "poll" /\ \A n \in Nodes : call[n] = "idle"
      /\ nodeLoop' = "select" /\ states' = work /\ work' = [n \in Nodes |-> NewNode] /\ collectedAge' = 0
      /\ UNCHANGED <<call, press, outcome, owed, nodeWake>>
  BY DEF Publish
<1>3. \A n \in Nodes : owed[n] # "idle"
  BY <1>1, <1>2 DEF OwedInv
<1>4. DOMAIN NewNode = Fields
  BY DEF NewNode, Fields
<1>5. NodeTypes'
  BY <1>1, <1>2, <1>4 DEF NodeTypes
<1>6. OutcomeInv'
  BY <1>1, <1>2 DEF OutcomeInv
<1>7. OwedInv'
  BY <1>2, <1>3 DEF OwedInv
<1>. QED
  BY <1>5, <1>6, <1>7 DEF HubServiceInv

LEMMA NodesWaitKeeps ==
    ASSUME HubServiceInv, NodesWait
    PROVE  HubServiceInv'
<1>1. NodeTypes /\ OutcomeInv /\ OwedInv
  BY DEF HubServiceInv
<1>2. /\ nodeLoop = "select" /\ nodeLoop' \in {"collect", "ended"}
      /\ UNCHANGED <<states, collectedAge, work, call, press, outcome, owed>>
  BY DEF NodesWait
<1>3. NodeTypes'
  BY <1>1, <1>2 DEF NodeTypes
<1>4. OutcomeInv'
  BY <1>1, <1>2 DEF OutcomeInv
<1>5. OwedInv'
  BY <1>1, <1>2 DEF OwedInv
<1>. QED
  BY <1>3, <1>4, <1>5 DEF HubServiceInv

\* `r' writes the same slice as a cycle publishes, but only the deadlines in it.
LEMMA RetryOfflineKeeps ==
    ASSUME HubServiceInv, NEW s \in Sessions, RetryOffline(s)
    PROVE  HubServiceInv'
<1>1. NodeTypes /\ OutcomeInv /\ OwedInv /\ Refresh \in Nat \ {0}
  BY TimingAssumption DEF HubServiceInv, TimingAssumption
<1>2. /\ press' = [press EXCEPT ![s] = "wake"] /\ collectedAge' = Refresh /\ owed' = Owe
      /\ states' = [n \in Nodes |-> IF states[n].error THEN [states[n] EXCEPT !.retryIn = 0] ELSE states[n]]
      /\ UNCHANGED <<nodeLoop, work, call, outcome, nodeWake>>
  BY DEF RetryOffline
<1>3. press' \in [Sessions -> {"idle", "wake"}] /\ press'[s] = "wake"
  BY <1>1, <1>2 DEF NodeTypes
<1>4. ASSUME NEW n \in Nodes
      PROVE  /\ DOMAIN states'[n] = Fields /\ (states'[n].error <=> states[n].error)
             /\ states[n].error => states'[n].retryIn = 0
  <2>1. DOMAIN states[n] = Fields
    BY <1>1 DEF NodeTypes
  <2>2. states'[n] = IF states[n].error THEN [states[n] EXCEPT !.retryIn = 0] ELSE states[n]
    BY <1>2
  <2>. QED
    BY <2>1, <2>2, StateSteps
<1>5. \A n \in Nodes :
        owed'[n] = IF states[n].error /\ call[n] = "idle" /\ owed[n] = "no"
                   THEN IF nodeLoop = "poll" THEN "busy" ELSE "idle"
                   ELSE owed[n]
  BY <1>2 DEF Owe
<1>6. NodeTypes'
  <2>1. owed' \in [Nodes -> {"no", "idle", "busy"}]
    BY <1>1, <1>2 DEF NodeTypes, Owe
  <2>2. collectedAge' \in 0..Refresh
    BY <1>1, <1>2
  <2>3. states' = [n \in Nodes |-> states'[n]]
    BY <1>2
  <2>. QED
    BY <1>1, <1>2, <1>3, <1>4, <2>1, <2>2, <2>3 DEF NodeTypes
<1>7. OutcomeInv'
  BY <1>1, <1>2, <1>4 DEF OutcomeInv
<1>8. OwedInv'
  BY <1>1, <1>2, <1>3, <1>4, <1>5 DEF OwedInv
<1>. QED
  BY <1>6, <1>7, <1>8 DEF HubServiceInv

LEMMA RequestCollectKeeps ==
    ASSUME HubServiceInv, NEW s \in Sessions, RequestCollect(s)
    PROVE  HubServiceInv'
<1>1. NodeTypes /\ OutcomeInv /\ OwedInv
  BY DEF HubServiceInv
<1>2. press' = [press EXCEPT ![s] = "idle"] /\ nodeWake' = TRUE /\ UNCHANGED <<nodeVars, outcome, owed>>
  BY DEF RequestCollect
<1>3. NodeTypes'
  BY <1>1, <1>2 DEF NodeTypes, nodeVars
<1>4. OutcomeInv'
  BY <1>1, <1>2 DEF OutcomeInv, nodeVars
<1>5. OwedInv'
  BY <1>1, <1>2 DEF OwedInv, nodeVars
<1>. QED
  BY <1>3, <1>4, <1>5 DEF HubServiceInv

\* Time brings deadlines nearer and makes the last cycle older.
LEMMA ElapseKeeps ==
    ASSUME HubServiceInv, Elapse
    PROVE  HubServiceInv'
<1>1. NodeTypes /\ OutcomeInv /\ OwedInv /\ Refresh \in Nat \ {0}
  BY TimingAssumption DEF HubServiceInv, TimingAssumption
<1>2. /\ states' = [n \in Nodes |-> NodeLater(states[n])] /\ work' = [n \in Nodes |-> NodeLater(work[n])]
      /\ collectedAge' = AtMost(collectedAge + 1, Refresh)
      /\ UNCHANGED <<nodeLoop, call, nodeWake, press, outcome, owed>>
  BY DEF Elapse
<1>3. collectedAge' \in 0..Refresh /\ (collectedAge = Refresh => collectedAge' = Refresh)
  <2>1. collectedAge \in 0..Refresh
    BY <1>1 DEF NodeTypes
  <2>. QED
    BY <1>1, <1>2, <2>1 DEF AtMost
<1>4. ASSUME NEW n \in Nodes
      PROVE  /\ DOMAIN states'[n] = Fields /\ states'[n].error = states[n].error
             /\ states'[n].retryIn = Sooner(states[n].retryIn)
             /\ DOMAIN work'[n] = Fields /\ work'[n].error = work[n].error
  <2>1. DOMAIN states[n] = Fields /\ DOMAIN work[n] = Fields
    BY <1>1 DEF NodeTypes
  <2>2. states'[n] = NodeLater(states[n]) /\ work'[n] = NodeLater(work[n])
    BY <1>2
  <2>3. DOMAIN NodeLater(states[n]) = Fields /\ NodeLater(states[n]).error = states[n].error
        /\ NodeLater(states[n]).retryIn = Sooner(states[n].retryIn)
    BY <2>1, StateSteps
  <2>4. DOMAIN NodeLater(work[n]) = Fields /\ NodeLater(work[n]).error = work[n].error
    BY <2>1, StateSteps
  <2>. QED
    BY <2>2, <2>3, <2>4
<1>5. NodeTypes'
  <2>1. states' = [n \in Nodes |-> states'[n]] /\ work' = [n \in Nodes |-> work'[n]]
    BY <1>2
  <2>. QED
    BY <1>1, <1>2, <1>3, <1>4, <2>1 DEF NodeTypes
<1>6. OutcomeInv'
  BY <1>1, <1>2, <1>4 DEF OutcomeInv
<1>7. \A n \in Nodes : states[n].retryIn = 0 => states'[n].retryIn = 0
  BY <1>4 DEF Sooner
<1>8. OwedInv'
  BY <1>1, <1>2, <1>3, <1>4, <1>7 DEF OwedInv
<1>. QED
  BY <1>5, <1>6, <1>8 DEF HubServiceInv

-----------------------------------------------------------------------------
(* The service. *)

LEMMA HubServiceInit ==
    ASSUME Init
    PROVE  HubServiceInv
<1>1. /\ nodeLoop = "collect" /\ states = [n \in Nodes |-> NewNode] /\ work = states /\ collectedAge = Refresh
      /\ call = [n \in Nodes |-> "idle"] /\ press = [s \in Sessions |-> "idle"]
      /\ outcome = [n \in Nodes |-> "none"] /\ owed = [n \in Nodes |-> "no"]
  BY DEF Init
<1>2. DOMAIN NewNode = Fields /\ NewNode.error = FALSE
  BY DEF NewNode, Fields
<1>3. Refresh \in 0..Refresh
  BY TimingAssumption DEF TimingAssumption
<1>4. NodeTypes
  BY <1>1, <1>2, <1>3 DEF NodeTypes
<1>5. OutcomeInv
  BY <1>1, <1>2 DEF OutcomeInv
<1>6. OwedInv
  BY <1>1 DEF OwedInv
<1>. QED
  BY <1>4, <1>5, <1>6 DEF HubServiceInv

LEMMA HubServiceStep ==
    ASSUME HubServiceInv, [Next]_vars
    PROVE  HubServiceInv'
<1>1. CASE NodeLoopStep
  BY <1>1, CollectKeeps, PublishKeeps, NodesWaitKeeps DEF NodeLoopStep
<1>2. CASE SlurmLoopStep \/ (\E c \in Clusters : ClusterQuery(c)) \/ Stop
  BY <1>2, SlurmSteps
<1>3. ASSUME NEW n \in Nodes, NodeCall(n) PROVE HubServiceInv'
  BY <1>3, SnapshotReturnsKeeps, HistoryReturnsKeeps DEF NodeCall
<1>4. ASSUME NEW s \in Sessions, RetryOffline(s) \/ RequestCollect(s) PROVE HubServiceInv'
  BY <1>4, RetryOfflineKeeps, RequestCollectKeeps
<1>5. CASE Elapse
  BY <1>5, ElapseKeeps
<1>6. CASE UNCHANGED vars
  BY <1>6, OthersKeep DEF vars
<1>. QED
  BY <1>1, <1>2, <1>3, <1>4, <1>5, <1>6 DEF Next

\* Every reachable state satisfies the inductive invariant: outcomes are in the slice of the cycle or
\* published, and an owed poll will not be skipped.
THEOREM HubServiceInvariant == Spec => []HubServiceInv
<1>1. Init => HubServiceInv
  BY HubServiceInit
<1>2. HubServiceInv /\ [Next]_vars => HubServiceInv'
  BY HubServiceStep
<1>. QED
  BY <1>1, <1>2, PTL DEF Spec

\* For any nodes, intervals and sessions that press `r': between two cycles the state of a node is the
\* outcome of its last RPC.
THEOREM OutcomesPublished == Spec => []LatestOutcomePublished
<1>1. HubServiceInv => LatestOutcomePublished
  <2> SUFFICES ASSUME HubServiceInv PROVE LatestOutcomePublished
    OBVIOUS
  <2>1. states = [n \in Nodes |-> states[n]]
    BY DEF HubServiceInv, NodeTypes
  <2>2. DOMAIN states = Nodes
    BY <2>1
  <2>. QED
    BY <2>2 DEF HubServiceInv, OutcomeInv, LatestOutcomePublished
<1>. QED
  BY <1>1, HubServiceInvariant, PTL

\* For any nodes, intervals and sessions: no `r' that is pressed between two cycles goes unheard.
THEOREM RetriesHonoured == Spec => []IdleRetryHonoured
<1>1. HubServiceInv => IdleRetryHonoured
  BY DEF HubServiceInv, OwedInv, IdleRetryHonoured
<1>. QED
  BY <1>1, HubServiceInvariant, PTL
=============================================================================
