--------------------------- MODULE HubSessionProofs ---------------------------
(***************************************************************************)
(* Proofs about a session of MCSession.  HubSession: whatever a user does    *)
(* and however the messages of earlier dashboards arrive, the overview and   *)
(* the open dashboard keep refreshing, and a confirmed termination knows its *)
(* process.  ProcessTable: a selection stays with its process.  SlurmQueue:  *)
(* an explanation stays with its job, and a fit is real.  HubGrid: every     *)
(* node has its card, and the selected one is on the page that is shown.     *)
(***************************************************************************)
EXTENDS MCSession, FiniteSetTheorems, NaturalsInduction, TLAPS

\* The timer of the overview, and its collection: one answer is under way just while it is collecting.
HubInv ==
    /\ hubTicks = 1
    /\ hubCollecting \in BOOLEAN /\ hubSnaps = IF hubCollecting THEN 1 ELSE 0

SessionTypes ==
    /\ detail \in Details \cup {None}
    /\ ticks \in Nat /\ pending \in [Commands -> Nat]

SessionInv == HubInv /\ SessionTypes /\ DetailRefreshAlive /\ TerminateKnowsProcess

-----------------------------------------------------------------------------
(* Messages. *)

LEMMA SnapshotsAreCommands ==
    ASSUME NEW n \in Nodes
    PROVE  Snapshot(n) \in Commands /\ Snapshot(n).kind = "snapshot"
  BY DEF Snapshot, Commands

\* What an Update does to the messages under way.
LEMMA RunCounts ==
    ASSUME NEW done, NEW new, pending \in [Commands -> Nat], Run(done, new),
           \A m \in Commands : m \in done => pending[m] > 0
    PROVE  /\ pending' \in [Commands -> Nat]
           /\ \A m \in Commands : m \notin done => pending'[m] >= pending[m]
           /\ \A m \in Commands : m \in new /\ m \notin done => pending'[m] > 0
<1>1. pending' = [m \in Commands |->
                     (IF m \in done THEN pending[m] - 1 ELSE pending[m])
                       + (IF m \in new THEN 1 ELSE 0)]
  BY DEF Run
<1>2. ASSUME NEW m \in Commands
      PROVE  /\ (IF m \in done THEN pending[m] - 1 ELSE pending[m]) + (IF m \in new THEN 1 ELSE 0) \in Nat
             /\ m \notin done => pending'[m] >= pending[m]
             /\ m \in new /\ m \notin done => pending'[m] > 0
  <2>1. pending[m] \in Nat /\ (m \in done => pending[m] > 0)
    OBVIOUS
  <2>2. pending'[m] = (IF m \in done THEN pending[m] - 1 ELSE pending[m]) + (IF m \in new THEN 1 ELSE 0)
    BY <1>1
  <2>. QED
    BY <2>1, <2>2
<1>. QED
  BY <1>1, <1>2

\* A key that starts no command is an Update without messages.
LEMMA KeyIsRun ==
    ASSUME NEW d, pending \in [Commands -> Nat], Key(d)
    PROVE  Become(d) /\ Run({}, {}) /\ UNCHANGED <<hubVars, ticks>>
<1>1. [m \in Commands |-> (IF m \in {} THEN pending[m] - 1 ELSE pending[m]) + (IF m \in {} THEN 1 ELSE 0)] = pending
  OBVIOUS
<1>. QED
  BY <1>1 DEF Key, Run

\* An Update of the open dashboard: it may begin to wait for a snapshot only with one that it asks for,
\* and stop having one under way only when it stops waiting.
LEMMA UpdateKeeps ==
    ASSUME SessionInv, detail # None, NEW d \in Details, NEW done, NEW new,
           \A m \in Commands : m \in done => pending[m] > 0,
           d.collecting => \/ detail.collecting /\ \A m \in done : m.kind # "snapshot"
                           \/ \E n \in Nodes : Snapshot(n) \in new /\ Snapshot(n) \notin done,
           d.screen = "terminate" => d.process # None /\ d.loaded \in {d.process, Unusable},
           Become(d), Run(done, new), UNCHANGED <<hubVars, ticks>>
    PROVE  SessionInv'
<1>1. detail' = d
  BY DEF Become
<1>2. /\ pending' \in [Commands -> Nat]
      /\ \A m \in Commands : m \notin done => pending'[m] >= pending[m]
      /\ \A m \in Commands : m \in new /\ m \notin done => pending'[m] > 0
  BY RunCounts DEF SessionInv, SessionTypes
<1>3. HubInv' /\ SessionTypes'
  BY <1>1, <1>2 DEF SessionInv, SessionTypes, HubInv, hubVars
<1>4. ticks >= 1 /\ (detail.collecting => \E n \in Nodes : pending[Snapshot(n)] > 0)
  BY DEF SessionInv, DetailRefreshAlive
<1>5. ASSUME d.collecting PROVE \E n \in Nodes : pending'[Snapshot(n)] > 0
  <2>1. CASE detail.collecting /\ \A m \in done : m.kind # "snapshot"
    <3>1. PICK n \in Nodes : pending[Snapshot(n)] > 0
      BY <1>4, <2>1
    <3>2. Snapshot(n) \in Commands /\ Snapshot(n) \notin done
      BY <2>1, SnapshotsAreCommands
    <3>3. pending'[Snapshot(n)] >= pending[Snapshot(n)] /\ pending[Snapshot(n)] \in Nat /\ pending'[Snapshot(n)] \in Nat
      BY <3>2, <1>2 DEF SessionInv, SessionTypes
    <3>. QED
      BY <3>1, <3>3
  <2>2. CASE \E n \in Nodes : Snapshot(n) \in new /\ Snapshot(n) \notin done
    BY <2>2, <1>2, SnapshotsAreCommands
  <2>. QED
    BY <1>5, <2>1, <2>2
<1>6. DetailRefreshAlive'
  BY <1>1, <1>4, <1>5 DEF DetailRefreshAlive
<1>7. TerminateKnowsProcess'
  BY <1>1 DEF TerminateKnowsProcess, InScreen
<1>. QED
  BY <1>3, <1>6, <1>7 DEF SessionInv

\* The same for a key of the user, with the commands it starts.
LEMMA CommandKeeps ==
    ASSUME SessionInv, detail # None, NEW d \in Details, NEW new,
           d.collecting => detail.collecting \/ \E n \in Nodes : Snapshot(n) \in new,
           d.screen = "terminate" => d.process # None /\ d.loaded \in {d.process, Unusable},
           Command(d, new)
    PROVE  SessionInv'
<1>1. Become(d) /\ Run({}, new) /\ UNCHANGED <<hubVars, ticks>>
  BY DEF Command
<1>. QED
  BY <1>1, UpdateKeeps

LEMMA KeyKeeps ==
    ASSUME SessionInv, detail # None, NEW d \in Details,
           d.collecting => detail.collecting,
           d.screen = "terminate" => d.process # None /\ d.loaded \in {d.process, Unusable},
           Key(d)
    PROVE  SessionInv'
<1>1. Become(d) /\ Run({}, {}) /\ UNCHANGED <<hubVars, ticks>>
  BY KeyIsRun DEF SessionInv, SessionTypes
<1>. QED
  BY <1>1, UpdateKeeps

\* And for the message of a command that has ended.
LEMMA DeliveryKeeps ==
    ASSUME SessionInv, detail # None, NEW d \in Details, NEW m \in Commands, NEW new, pending[m] > 0,
           d.collecting => \/ detail.collecting /\ m.kind # "snapshot"
                           \/ m.kind # "snapshot" /\ \E n \in Nodes : Snapshot(n) \in new,
           d.screen = "terminate" => d.process # None /\ d.loaded \in {d.process, Unusable},
           Become(d), Run({m}, new), UNCHANGED <<hubVars, ticks>>
    PROVE  SessionInv'
<1>1. d.collecting => \/ detail.collecting /\ \A x \in {m} : x.kind # "snapshot"
                      \/ \E n \in Nodes : Snapshot(n) \in new /\ Snapshot(n) \notin {m}
  BY SnapshotsAreCommands
<1>2. \A x \in Commands : x \in {m} => pending[x] > 0
  OBVIOUS
<1>. QED
  BY <1>1, <1>2, UpdateKeeps

\* startCollect asks for a snapshot unless one is under way.
LEMMA CollectionAsks ==
    ASSUME detail \in Details
    PROVE  detail.collecting \/ \E n \in Nodes : Snapshot(n) \in Collection
  BY DEF Collection, Details

\* The record of an open dashboard.
LEMMA DetailTypes ==
    ASSUME SessionInv, detail # None
    PROVE  /\ detail \in Details
           /\ detail.screen = "terminate" => detail.process # None /\ detail.loaded \in {detail.process, Unusable}
  BY DEF SessionInv, SessionTypes, TerminateKnowsProcess, InScreen
-----------------------------------------------------------------------------
(* The overview, and opening and closing a dashboard. *)

LEMMA HubStartCollects ==
    ASSUME HubInv, HubStartCollect, hubTicks' = hubTicks
    PROVE  HubInv'
  BY DEF HubInv, HubStartCollect

\* A step of the overview leaves the open dashboard alone.
LEMMA OverviewKeeps ==
    ASSUME SessionInv, HubInv', UNCHANGED <<detail, ticks, pending>>
    PROVE  SessionInv'
  BY DEF SessionInv, SessionTypes, DetailRefreshAlive, TerminateKnowsProcess, InScreen

LEMMA HubSteps ==
    ASSUME SessionInv, HubTick \/ HubSnapshots \/ HubRefresh
    PROVE  SessionInv'
<1>1. CASE HubTick
  BY <1>1, HubStartCollects, OverviewKeeps DEF HubTick, SessionInv
<1>2. CASE HubSnapshots
  <2>1. hubSnaps = 1 /\ hubTicks = 1
    BY <1>2 DEF HubSnapshots, SessionInv, HubInv
  <2>2. hubSnaps' = 0 /\ hubCollecting' = FALSE /\ hubTicks' = hubTicks
    BY <1>2, <2>1 DEF HubSnapshots
  <2>3. HubInv'
    BY <2>1, <2>2 DEF HubInv
  <2>. QED
    BY <1>2, <2>3, OverviewKeeps DEF HubSnapshots
<1>3. CASE HubRefresh
  BY <1>3, HubStartCollects, OverviewKeeps DEF HubRefresh, SessionInv
<1>. QED
  BY <1>1, <1>2, <1>3

\* A new dashboard comes with a timer and a collection of its own.
LEMMA OpenDetailKeeps ==
    ASSUME SessionInv, NEW n \in Nodes, OpenDetail(n)
    PROVE  SessionInv'
<1>1. detail' = NewDetail(n) /\ ticks' = ticks + 1 /\ Run({}, {Snapshot(n)}) /\ UNCHANGED hubVars
  BY DEF OpenDetail, Become
<1>2. /\ NewDetail(n) \in Details /\ NewDetail(n).screen = "monitor"
  BY SessionAssumption DEF NewDetail, Details, Screens, SessionAssumption
<1>3. pending' \in [Commands -> Nat] /\ pending'[Snapshot(n)] > 0
  BY <1>1, RunCounts, SnapshotsAreCommands DEF SessionInv, SessionTypes
<1>4. ticks' >= 1 /\ ticks' \in Nat
  BY <1>1 DEF SessionInv, SessionTypes
<1>5. HubInv' /\ SessionTypes'
  BY <1>1, <1>2, <1>3, <1>4 DEF SessionInv, SessionTypes, HubInv, hubVars
<1>6. DetailRefreshAlive' /\ TerminateKnowsProcess'
  BY <1>1, <1>2, <1>3, <1>4 DEF DetailRefreshAlive, TerminateKnowsProcess, InScreen
<1>. QED
  BY <1>5, <1>6 DEF SessionInv

\* Without a dashboard nothing has to be refreshed.
LEMMA ClosedKeeps ==
    ASSUME HubInv', SessionTypes', detail' = None
    PROVE  SessionInv'
  BY DEF SessionInv, DetailRefreshAlive, TerminateKnowsProcess, InScreen

LEMMA CloseDetailKeeps ==
    ASSUME SessionInv, CloseDetail
    PROVE  SessionInv'
<1>1. HubInv'
  BY HubStartCollects DEF CloseDetail, SessionInv
<1>. QED
  BY <1>1, ClosedKeeps DEF CloseDetail, Become, SessionInv, SessionTypes

LEMMA IgnoreKeeps ==
    ASSUME SessionInv, NEW m \in Commands, Ignore(m)
    PROVE  SessionInv'
<1>1. pending' \in [Commands -> Nat]
  BY RunCounts DEF Ignore, SessionInv, SessionTypes
<1>2. HubInv'
  BY DEF Ignore, SessionInv, HubInv, hubVars
<1>. QED
  BY <1>1, <1>2, ClosedKeeps DEF Ignore, SessionInv, SessionTypes

LEMMA IgnoreTickKeeps ==
    ASSUME SessionInv, IgnoreTick
    PROVE  SessionInv'
<1>1. HubInv' /\ SessionTypes'
  BY DEF IgnoreTick, SessionInv, SessionTypes, HubInv, hubVars
<1>. QED
  BY <1>1, ClosedKeeps DEF IgnoreTick

-----------------------------------------------------------------------------
(* The messages of the dashboard. *)

LEMMA TickKeeps ==
    ASSUME SessionInv, Tick
    PROVE  SessionInv'
<1> DEFINE d == [detail EXCEPT !.collecting = TRUE]
<1>1. detail # None /\ detail \in Details
  BY DetailTypes DEF Tick
<1>2. d \in Details /\ d.screen = detail.screen /\ d.process = detail.process /\ d.loaded = detail.loaded
  BY <1>1 DEF Details
<1>3. Command(d, Collection \cup (IF detail.historyDue THEN {History(detail.node)} ELSE {}))
  BY DEF Tick, Command
<1> HIDE DEF d
<1>. QED
  BY <1>1, <1>2, <1>3, DetailTypes, CollectionAsks, CommandKeeps

LEMMA SnapshotMsgKeeps ==
    ASSUME SessionInv, NEW m \in Commands, SnapshotMsg(m)
    PROVE  SessionInv'
<1> DEFINE d == [detail EXCEPT !.collecting = FALSE]
<1>1. detail # None /\ detail \in Details
  BY DetailTypes DEF SnapshotMsg
<1>2. /\ d \in Details /\ d.screen = detail.screen /\ d.process = detail.process /\ d.loaded = detail.loaded
      /\ ~d.collecting
  BY <1>1 DEF Details
<1>3. Become(d) /\ Run({m}, {}) /\ UNCHANGED <<hubVars, ticks>> /\ pending[m] > 0
  BY DEF SnapshotMsg
<1> HIDE DEF d
<1>. QED
  BY <1>1, <1>2, <1>3, DetailTypes, DeliveryKeeps

LEMMA HistoryMsgKeeps ==
    ASSUME SessionInv, NEW m \in Commands, HistoryMsg(m)
    PROVE  SessionInv'
<1> DEFINE d == [detail EXCEPT !.historyDue = FALSE]
<1>1. detail # None /\ detail \in Details /\ m.kind # "snapshot"
  BY DetailTypes DEF HistoryMsg
<1>2. /\ d \in Details /\ d.screen = detail.screen /\ d.process = detail.process /\ d.loaded = detail.loaded
      /\ d.collecting = detail.collecting
  BY <1>1 DEF Details
<1>3. Become(d) /\ Run({m}, {}) /\ UNCHANGED <<hubVars, ticks>> /\ pending[m] > 0
  BY DEF HistoryMsg
<1> HIDE DEF d
<1>. QED
  BY <1>1, <1>2, <1>3, DetailTypes, DeliveryKeeps

\* A dashboard that goes on collecting and is on another page than the confirmation, or as it was.
LEMMA MessageKeeps ==
    ASSUME SessionInv, detail # None, NEW d \in Details, NEW m \in Commands, m.kind # "snapshot", pending[m] > 0,
           d.collecting = detail.collecting,
           d.screen # "terminate" \/ (d.screen = detail.screen /\ d.process = detail.process /\ d.loaded = detail.loaded),
           Become(d), Run({m}, {}), UNCHANGED <<hubVars, ticks>>
    PROVE  SessionInv'
  BY DetailTypes, DeliveryKeeps

LEMMA AuthMsgKeeps ==
    ASSUME SessionInv, NEW m \in Commands, AuthMsg(m)
    PROVE  SessionInv'
<1>1. /\ detail # None /\ detail \in Details /\ m.kind # "snapshot" /\ pending[m] > 0
      /\ Run({m}, {}) /\ UNCHANGED <<hubVars, ticks>>
  BY DetailTypes DEF AuthMsg
<1>2. m.node \in Nodes
  BY DEF Commands
<1>3. ASSUME Become([detail EXCEPT !.busy = FALSE, !.screen = "admin", !.credential = m.node,
                                   !.failures = 0, !.locked = FALSE])
      PROVE  SessionInv'
  <2> DEFINE d == [detail EXCEPT !.busy = FALSE, !.screen = "admin", !.credential = m.node,
                                 !.failures = 0, !.locked = FALSE]
  <2>1. d \in Details /\ d.screen = "admin" /\ d.collecting = detail.collecting
    <3>1. 0 \in 0..MaxAuthFailures
      BY SessionAssumption DEF SessionAssumption
    <3>2. d.screen = "admin" /\ d.collecting = detail.collecting
      BY <1>1 DEF Details
    <3>3. d \in Details
      BY <1>1, <1>2, <3>1 DEF Details, Screens, Management
    <3>. QED
      BY <3>2, <3>3
  <2> HIDE DEF d
  <2>. QED
    BY <1>1, <1>3, <2>1, MessageKeeps DEF d
<1>4. ASSUME NEW failures \in 0..MaxAuthFailures,
             Become([detail EXCEPT !.busy = FALSE, !.failures = failures,
                                   !.locked = @ \/ failures = MaxAuthFailures])
      PROVE  SessionInv'
  <2> DEFINE d == [detail EXCEPT !.busy = FALSE, !.failures = failures,
                                 !.locked = @ \/ failures = MaxAuthFailures]
  <2>1. /\ d \in Details /\ d.screen = detail.screen /\ d.process = detail.process /\ d.loaded = detail.loaded
        /\ d.collecting = detail.collecting
    <3>1. (detail.locked \/ failures = MaxAuthFailures) \in BOOLEAN
      OBVIOUS
    <3>. QED
      BY <1>1, <3>1 DEF Details
  <2> HIDE DEF d
  <2>. QED
    BY <1>1, <1>4, <2>1, MessageKeeps DEF d
<1>5. ASSUME Become([detail EXCEPT !.busy = FALSE])
      PROVE  SessionInv'
  <2> DEFINE d == [detail EXCEPT !.busy = FALSE]
  <2>1. /\ d \in Details /\ d.screen = detail.screen /\ d.process = detail.process /\ d.loaded = detail.loaded
        /\ d.collecting = detail.collecting
    BY <1>1 DEF Details
  <2> HIDE DEF d
  <2>. QED
    BY <1>1, <1>5, <2>1, MessageKeeps DEF d
<1>6. (IF detail.failures < MaxAuthFailures THEN detail.failures + 1 ELSE MaxAuthFailures) \in 0..MaxAuthFailures
  <2>1. detail.failures \in 0..MaxAuthFailures /\ MaxAuthFailures \in Nat
    BY <1>1, SessionAssumption DEF Details, SessionAssumption
  <2>. QED
    BY <2>1
<1>. QED
  BY <1>3, <1>4, <1>5, <1>6 DEF AuthMsg

LEMMA ActionMsgKeeps ==
    ASSUME SessionInv, NEW m \in Commands, ActionMsg(m)
    PROVE  SessionInv'
<1> DEFINE d == [detail EXCEPT !.busy = FALSE, !.screen = "admin"]
<1>1. detail # None /\ detail \in Details /\ m.kind # "snapshot"
  BY DetailTypes DEF ActionMsg
<1>2. d \in Details /\ d.screen = "admin" /\ d.collecting = detail.collecting
  BY <1>1 DEF Details, Screens, Management
<1>3. Become(d) /\ Run({m}, {}) /\ UNCHANGED <<hubVars, ticks>> /\ pending[m] > 0
  BY DEF ActionMsg
<1> HIDE DEF d
<1>. QED
  BY <1>1, <1>2, <1>3, MessageKeeps

\* Details that arrive while their process is being confirmed are its own, or say that it is gone.
LEMMA ProcessMsgKeeps ==
    ASSUME SessionInv, NEW m \in Commands, ProcessMsg(m)
    PROVE  SessionInv'
<1>1. /\ detail # None /\ detail \in Details /\ m.kind = "process" /\ pending[m] > 0
      /\ Run({m}, {}) /\ UNCHANGED <<hubVars, ticks>>
  BY DetailTypes DEF ProcessMsg
<1>2. m.pid \in Pids
  BY <1>1 DEF Commands
<1>3. ASSUME detail.process = m.pid, NEW got \in {m.pid, Unusable}, Become([detail EXCEPT !.loaded = got])
      PROVE  SessionInv'
  <2> DEFINE d == [detail EXCEPT !.loaded = got]
  <2>1. /\ d \in Details /\ d.screen = detail.screen /\ d.process = detail.process /\ d.loaded = got
        /\ d.collecting = detail.collecting
    BY <1>1, <1>2 DEF Details
  <2>2. d.process # None /\ d.loaded \in {d.process, Unusable}
    BY <1>2, <1>3, <2>1, SessionAssumption DEF SessionAssumption
  <2> HIDE DEF d
  <2>. QED
    BY <1>1, <1>3, <2>1, <2>2, DeliveryKeeps DEF d
<1>4. ASSUME UNCHANGED detail PROVE SessionInv'
  <2>1. Become(detail)
    BY <1>4 DEF Become
  <2>. QED
    BY <1>1, <2>1, MessageKeeps
<1>. QED
  BY <1>3, <1>4 DEF ProcessMsg

LEMMA TerminateMsgKeeps ==
    ASSUME SessionInv, NEW m \in Commands, TerminateMsg(m)
    PROVE  SessionInv'
<1>1. /\ detail # None /\ detail \in Details /\ m.kind = "terminate" /\ pending[m] > 0
      /\ UNCHANGED <<hubVars, ticks>>
  BY DetailTypes DEF TerminateMsg
<1>2. ASSUME Become([detail EXCEPT !.busy = FALSE, !.screen = "admin", !.process = None,
                                   !.loaded = None, !.collecting = TRUE]),
             Run({m}, Collection)
      PROVE  SessionInv'
  <2> DEFINE d == [detail EXCEPT !.busy = FALSE, !.screen = "admin", !.process = None,
                                 !.loaded = None, !.collecting = TRUE]
  <2>1. d \in Details /\ d.screen = "admin"
    BY <1>1 DEF Details, Screens, Management
  <2> HIDE DEF d
  <2>. QED
    BY <1>1, <1>2, <2>1, CollectionAsks, DeliveryKeeps DEF d
<1>3. ASSUME NEW shown \in {"process", "monitor", "admin"},
             Become([detail EXCEPT !.busy = FALSE, !.screen = shown]), Run({m}, {})
      PROVE  SessionInv'
  <2> DEFINE d == [detail EXCEPT !.busy = FALSE, !.screen = shown]
  <2>1. d \in Details /\ d.screen # "terminate" /\ d.collecting = detail.collecting
    BY <1>1 DEF Details, Screens, Management
  <2> HIDE DEF d
  <2>. QED
    BY <1>1, <1>3, <2>1, MessageKeeps DEF d
<1>4. (IF detail.process # None THEN "process" ELSE IF detail.readOnly THEN "monitor" ELSE "admin")
        \in {"process", "monitor", "admin"}
  OBVIOUS
<1>. QED
  BY <1>2, <1>3, <1>4 DEF TerminateMsg

-----------------------------------------------------------------------------
(* Keys, and time. *)

\* A key that moves to another shown than the confirmation, or changes what the refreshing and the
\* confirmation do not look at.
LEMMA PageKeeps ==
    ASSUME SessionInv, detail # None, NEW d \in Details, d.collecting = detail.collecting,
           d.screen # "terminate" \/ (d.screen = detail.screen /\ d.process = detail.process /\ d.loaded = detail.loaded),
           Key(d) \/ \E new : Command(d, new)
    PROVE  SessionInv'
<1>1. d.screen = "terminate" => d.process # None /\ d.loaded \in {d.process, Unusable}
  BY DetailTypes
<1>2. CASE Key(d)
  BY <1>1, <1>2, KeyKeeps
<1>3. ASSUME NEW new, Command(d, new) PROVE SessionInv'
  BY <1>1, <1>3, CommandKeeps
<1>. QED
  BY <1>2, <1>3

\* The page a key leads to.
LEMMA ScreenKeeps ==
    ASSUME SessionInv, detail # None, NEW s \in Screens \ {"terminate"}, Key([detail EXCEPT !.screen = s])
    PROVE  SessionInv'
<1> DEFINE d == [detail EXCEPT !.screen = s]
<1>1. d \in Details /\ d.screen = s /\ d.collecting = detail.collecting
  BY DetailTypes DEF Details
<1> HIDE DEF d
<1>. QED
  BY <1>1, PageKeeps DEF d

\* Pages that only a key changes.
LEMMA PageKeys ==
    ASSUME SessionInv, \/ Manage \/ OpenLayout \/ LeaveLayout \/ CancelPassword \/ SelectAction \/ CancelAction
                       \/ LeaveProcess \/ CancelTerminate
    PROVE  SessionInv'
<1> USE DEF InScreen, Screens, Management
<1>1. CASE Manage
  BY <1>1, ScreenKeeps DEF Manage
<1>2. CASE OpenLayout
  BY <1>2, ScreenKeeps DEF OpenLayout
<1>3. CASE LeaveLayout
  BY <1>3, ScreenKeeps DEF LeaveLayout
<1>4. CASE CancelPassword
  BY <1>4, ScreenKeeps DEF CancelPassword
<1>5. CASE SelectAction
  BY <1>5, ScreenKeeps DEF SelectAction
<1>6. CASE CancelAction
  BY <1>6, ScreenKeeps DEF CancelAction
<1>7. CASE LeaveProcess
  <2>1. (IF detail.readOnly THEN "monitor" ELSE "admin") \in Screens \ {"terminate"}
    OBVIOUS
  <2>. QED
    BY <1>7, <2>1, ScreenKeeps DEF LeaveProcess
<1>8. CASE CancelTerminate
  BY <1>8, ScreenKeeps DEF CancelTerminate
<1>. QED
  BY <1>1, <1>2, <1>3, <1>4, <1>5, <1>6, <1>7, <1>8

\* The switches of a dashboard that refreshing and confirming do not look at.
LEMMA SwitchKeeps ==
    ASSUME SessionInv, detail # None, NEW b \in BOOLEAN,
           \/ Key([detail EXCEPT !.filtering = b])
           \/ Key([detail EXCEPT !.locked = b])
           \/ Key([detail EXCEPT !.historyDue = b])
           \/ \E new : Command([detail EXCEPT !.busy = b], new)
    PROVE  SessionInv'
<1>1. detail \in Details
  BY DetailTypes
<1>2. ASSUME NEW d \in {[detail EXCEPT !.filtering = b], [detail EXCEPT !.locked = b], [detail EXCEPT !.historyDue = b],
                        [detail EXCEPT !.busy = b]}
      PROVE  /\ d \in Details /\ d.screen = detail.screen /\ d.process = detail.process /\ d.loaded = detail.loaded
             /\ d.collecting = detail.collecting
  BY <1>1 DEF Details
<1>3. ASSUME Key([detail EXCEPT !.filtering = b]) PROVE SessionInv'
  BY <1>2, <1>3, PageKeeps
<1>4. ASSUME Key([detail EXCEPT !.locked = b]) PROVE SessionInv'
  BY <1>2, <1>4, PageKeeps
<1>5. ASSUME Key([detail EXCEPT !.historyDue = b]) PROVE SessionInv'
  BY <1>2, <1>5, PageKeeps
<1>6. ASSUME NEW new, Command([detail EXCEPT !.busy = b], new) PROVE SessionInv'
  BY <1>2, <1>6, PageKeeps
<1>. QED
  BY <1>3, <1>4, <1>5, <1>6

LEMMA SwitchKeys ==
    ASSUME SessionInv, \/ EditFilter \/ ApplyFilter \/ SubmitPassword \/ ConfirmAction \/ ConfirmTerminate
                       \/ LockoutEnds \/ HistoryAges
    PROVE  SessionInv'
<1> USE DEF InScreen
<1>1. CASE EditFilter
  BY <1>1, SwitchKeeps DEF EditFilter
<1>2. CASE ApplyFilter
  BY <1>2, SwitchKeeps DEF ApplyFilter
<1>3. CASE SubmitPassword
  BY <1>3, SwitchKeeps DEF SubmitPassword
<1>4. CASE ConfirmAction
  BY <1>4, SwitchKeeps DEF ConfirmAction
<1>5. CASE ConfirmTerminate
  BY <1>5, SwitchKeeps DEF ConfirmTerminate
<1>6. CASE LockoutEnds
  BY <1>6, SwitchKeeps DEF LockoutEnds
<1>7. CASE HistoryAges
  BY <1>7, SwitchKeeps DEF HistoryAges
<1>. QED
  BY <1>1, <1>2, <1>3, <1>4, <1>5, <1>6, <1>7

LEMMA RefreshKeeps ==
    ASSUME SessionInv, Refresh
    PROVE  SessionInv'
<1> DEFINE d == [detail EXCEPT !.collecting = TRUE]
<1>1. detail # None /\ detail \in Details /\ Command(d, Collection)
  BY DetailTypes DEF Refresh, InScreen
<1>2. d \in Details /\ d.screen = detail.screen /\ d.process = detail.process /\ d.loaded = detail.loaded
  BY <1>1 DEF Details
<1> HIDE DEF d
<1>. QED
  BY <1>1, <1>2, DetailTypes, CollectionAsks, CommandKeeps

LEMMA LeaveAdminKeeps ==
    ASSUME SessionInv, LeaveAdmin
    PROVE  SessionInv'
<1> DEFINE d == [detail EXCEPT !.screen = "monitor", !.credential = None]
<1>1. detail # None /\ detail \in Details /\ Key(d)
  BY DetailTypes DEF LeaveAdmin, InScreen
<1>2. d \in Details /\ d.screen = "monitor" /\ d.collecting = detail.collecting
  BY <1>1 DEF Details, Screens
<1> HIDE DEF d
<1>. QED
  BY <1>1, <1>2, PageKeeps

LEMMA ProcessKeys ==
    ASSUME SessionInv, (\E p \in Pids : OpenProcess(p)) \/ ReloadProcess
    PROVE  SessionInv'
<1>1. ASSUME NEW p \in Pids, OpenProcess(p) PROVE SessionInv'
  <2> DEFINE d == [detail EXCEPT !.process = p, !.loaded = None, !.screen = "process",
                                 !.readOnly = (detail.screen = "monitor")]
  <2>1. detail # None /\ detail \in Details /\ Command(d, {LoadProcess(detail.node, p)})
    BY <1>1, DetailTypes DEF OpenProcess, InScreen
  <2>2. (detail.screen = "monitor") \in BOOLEAN
    OBVIOUS
  <2>3. d \in Details /\ d.screen = "process" /\ d.collecting = detail.collecting
    BY <2>1, <2>2 DEF Details, Screens
  <2> HIDE DEF d
  <2>. QED
    BY <2>1, <2>3, PageKeeps
<1>2. CASE ReloadProcess
  <2>1. detail # None /\ Command(detail, {LoadProcess(detail.node, detail.process)})
    BY <1>2 DEF ReloadProcess, InScreen
  <2>. QED
    BY <2>1, DetailTypes, PageKeeps
<1>. QED
  BY <1>1, <1>2

\* The confirmation is asked for a process whose details are there.
LEMMA AskTerminateKeeps ==
    ASSUME SessionInv, AskTerminate
    PROVE  SessionInv'
<1> DEFINE d == [detail EXCEPT !.screen = "terminate"]
<1>1. detail # None /\ detail \in Details /\ Key(d) /\ detail.loaded = detail.process /\ detail.process # None
  BY DetailTypes DEF AskTerminate, InScreen
<1>2. /\ d \in Details /\ d.collecting = detail.collecting
      /\ d.process # None /\ d.loaded \in {d.process, Unusable}
  BY <1>1 DEF Details, Screens, Management
<1> HIDE DEF d
<1>. QED
  BY <1>1, <1>2, KeyKeeps

-----------------------------------------------------------------------------
(* The session. *)

LEMMA SessionBegins ==
    ASSUME Init
    PROVE  SessionInv
<1>1. HubInv /\ SessionTypes
  BY DEF Init, HubInv, SessionTypes
<1>. QED
  BY <1>1 DEF Init, SessionInv, DetailRefreshAlive, TerminateKnowsProcess, InScreen

LEMMA SessionKeeps ==
    ASSUME SessionInv, [Next]_vars
    PROVE  SessionInv'
<1>1. CASE HubTick \/ HubSnapshots \/ HubRefresh
  BY <1>1, HubSteps
<1>2. CASE (\E n \in Nodes : OpenDetail(n)) \/ CloseDetail
  BY <1>2, OpenDetailKeeps, CloseDetailKeeps
<1>3. CASE IgnoreTick \/ Tick
  BY <1>3, IgnoreTickKeeps, TickKeeps
<1>4. ASSUME NEW m \in Commands, Delivery(m) PROVE SessionInv'
  BY <1>4, IgnoreKeeps, SnapshotMsgKeeps, HistoryMsgKeeps, AuthMsgKeeps, ActionMsgKeeps, ProcessMsgKeeps,
     TerminateMsgKeeps DEF Delivery
<1>5. CASE UserKey
  BY <1>5, PageKeys, SwitchKeys, RefreshKeeps, LeaveAdminKeeps, ProcessKeys, AskTerminateKeeps DEF UserKey
<1>6. CASE LockoutEnds \/ HistoryAges
  BY <1>6, SwitchKeys
<1>7. CASE UNCHANGED vars
  <2>1. HubInv' /\ UNCHANGED <<detail, ticks, pending>>
    BY <1>7 DEF vars, SessionInv, HubInv
  <2>. QED
    BY <2>1, OverviewKeeps
<1>. QED
  BY <1>1, <1>2, <1>3, <1>4, <1>5, <1>6, <1>7 DEF Next

\* Every reachable state satisfies the inductive invariant: the timer and the collection of the overview, the
\* messages under way, and both promises about the open dashboard.
THEOREM SessionInvariant == Spec => []SessionInv
<1>1. Init => SessionInv
  BY SessionBegins
<1>2. SessionInv /\ [Next]_vars => SessionInv'
  BY SessionKeeps
<1>. QED
  BY <1>1, <1>2, PTL DEF Spec

\* Whatever dashboards are opened and closed, the overview keeps its timer and is never left collecting
\* without an answer under way.
THEOREM OverviewRefreshes == Spec => []HubRefreshAlive
<1>1. SessionInv => HubRefreshAlive
  BY DEF SessionInv, HubInv, HubRefreshAlive
<1>. QED
  BY <1>1, SessionInvariant, PTL

\* An open dashboard has a timer, and waits for a snapshot only while one is under way, for any number
\* of messages of earlier dashboards.
THEOREM DashboardRefreshes == Spec => []DetailRefreshAlive
<1>1. SessionInv => DetailRefreshAlive
  BY DEF SessionInv
<1>. QED
  BY <1>1, SessionInvariant, PTL

\* The page that confirms a termination has the details of its process.
THEOREM ConfirmedProcessKnown == Spec => []TerminateKnowsProcess
<1>1. SessionInv => TerminateKnowsProcess
  BY DEF SessionInv
<1>. QED
  BY <1>1, SessionInvariant, PTL

-----------------------------------------------------------------------------
(* The process list of a dashboard. *)

TableTypes ==
    /\ IsFiniteSet(DOMAIN processes)
    /\ cursor \in [Table!Screens -> Int] /\ offset \in [Table!Screens -> Int]

\* The list has a length.
LEMMA ListHasLength ==
    ASSUME NEW table, IsFiniteSet(DOMAIN table), NEW query, NEW order
    PROVE  LET rows == Table!filteredProcesses(table, query, order)
           IN Len(rows) \in Nat /\ DOMAIN rows = 1..Len(rows)
<1> DEFINE n == Cardinality(DOMAIN table \cap query)
           rows == Table!filteredProcesses(table, query, order)
<1>1. n \in Nat
  BY FS_Intersection, FS_CardinalityType
<1>2. DOMAIN rows = 1..n
  BY Zenon DEF Table!filteredProcesses, Table!Cardinality, Cardinality
<1>3. Len(rows) = n
  BY <1>1, <1>2
<1>. QED
  BY <1>1, <1>2, <1>3

\* A row of the list stays where it is when it is clamped, and is scrolled onto the screen.
LEMMA ClampShows ==
    ASSUME Rows \in Nat \ {0}, NEW n \in Nat, NEW at \in 1..n, NEW first \in Int
    PROVE  LET to == Table!clamp(at, first, n)
           IN to.cursor = at /\ to.offset \in Int /\ to.offset < at /\ at <= to.offset + Rows
  BY DEF Table!clamp, Table!Lesser, Table!Greater

LEMMA ClampTypes ==
    ASSUME Rows \in Nat \ {0}, NEW n \in Nat, NEW at \in Int, NEW first \in Int
    PROVE  LET to == Table!clamp(at, first, n) IN to.cursor \in Int /\ to.offset \in Int
  BY DEF Table!clamp, Table!Lesser, Table!Greater

LEMMA TableBegins == Table!Init => TableTypes
  BY FS_EmptySet DEF Table!Init, TableTypes

\* With the selections looked up in new rows, they are on the screen, and on the process they were on if it is listed.
LEMMA RestoreShows ==
    ASSUME Lists, TableTypes, NEW rows, Len(rows) \in Nat, DOMAIN rows = 1..Len(rows), NEW ids,
           Table!restoreProcessSelection(rows, ids)
    PROVE  /\ cursor' \in [Table!Screens -> Int] /\ offset' \in [Table!Screens -> Int]
           /\ \A s \in Table!Screens : (\E i \in DOMAIN rows : rows[i] = ids[s]) =>
                 /\ cursor'[s] \in DOMAIN rows /\ rows[cursor'[s]] = ids[s]
                 /\ offset'[s] < cursor'[s] /\ cursor'[s] <= offset'[s] + Rows
<1> DEFINE At(s) == IF \E i \in DOMAIN rows : rows[i] = ids[s]
                    THEN CHOOSE i \in DOMAIN rows : rows[i] = ids[s] ELSE cursor[s]
           To(s) == Table!clamp(At(s), offset[s], Len(rows))
<1>1. /\ cursor' = [s \in Table!Screens |-> To(s).cursor]
      /\ offset' = [s \in Table!Screens |-> To(s).offset]
  BY DEF Table!restoreProcessSelection
<1>2. ASSUME NEW s \in Table!Screens, \E i \in DOMAIN rows : rows[i] = ids[s]
      PROVE  At(s) \in 1..Len(rows) /\ rows[At(s)] = ids[s]
  BY <1>2
<1>3. ASSUME NEW s \in Table!Screens PROVE At(s) \in Int /\ offset[s] \in Int
  BY <1>2, <1>3 DEF TableTypes
<1> HIDE DEF At
<1>4. ASSUME NEW s \in Table!Screens PROVE To(s).cursor \in Int /\ To(s).offset \in Int
  BY <1>3, <1>4, ClampTypes DEF Lists
<1>5. ASSUME NEW s \in Table!Screens, \E i \in DOMAIN rows : rows[i] = ids[s]
      PROVE  To(s).cursor = At(s) /\ To(s).offset < At(s) /\ At(s) <= To(s).offset + Rows
  BY <1>2, <1>3, <1>5, ClampShows DEF Lists
<1> HIDE DEF To
<1>6. ASSUME NEW s \in Table!Screens, \E i \in DOMAIN rows : rows[i] = ids[s]
      PROVE  /\ cursor'[s] \in DOMAIN rows /\ rows[cursor'[s]] = ids[s]
             /\ offset'[s] < cursor'[s] /\ cursor'[s] <= offset'[s] + Rows
  BY <1>1, <1>2, <1>5, <1>6
<1>. QED
  BY <1>1, <1>4, <1>6

\* Every step keeps the types.
LEMMA TableKeeps == Lists /\ TableTypes /\ [Table!Next]_(Table!vars) => TableTypes'
<1> SUFFICES ASSUME Lists, TableTypes, [Table!Next]_(Table!vars) PROVE TableTypes'
  OBVIOUS
<1>1. CASE Table!snapshotMsg
  <2>1. processes' \in Tables
    BY <1>1 DEF Table!snapshotMsg
  <2>2. IsFiniteSet(DOMAIN processes')
    BY <2>1 DEF Lists
  <2> DEFINE rows == Table!filteredProcesses(processes', filter, sort)
  <2>3. Len(rows) \in Nat /\ DOMAIN rows = 1..Len(rows)
    BY <2>2, ListHasLength
  <2>4. Table!restoreProcessSelection(rows, Table!Selected)
    BY <1>1 DEF Table!snapshotMsg
  <2> HIDE DEF rows
  <2>. QED
    BY <2>2, <2>3, <2>4, RestoreShows DEF TableTypes
<1>2. ASSUME NEW key \in DOMAIN Table!Columns, Table!setProcessSort(key) PROVE TableTypes'
  <2> DEFINE rows == Table!filteredProcesses(processes, filter, sort')
  <2>1. Len(rows) \in Nat /\ DOMAIN rows = 1..Len(rows)
    BY ListHasLength DEF TableTypes
  <2>2. Table!restoreProcessSelection(rows, Table!Selected) /\ processes' = processes
    BY <1>2 DEF Table!setProcessSort
  <2> HIDE DEF rows
  <2>. QED
    BY <2>1, <2>2, RestoreShows DEF TableTypes
<1>3. ASSUME NEW s \in Table!Screens, Table!ToTop(s), processes' = processes PROVE TableTypes'
  BY <1>3 DEF Table!ToTop, TableTypes
<1>4. ASSUME NEW delta \in {-1, 1}, Table!moveSelection(delta) PROVE TableTypes'
  <2> DEFINE to == Table!clamp(cursor[screen] + delta, offset[screen], Len(Table!Listed))
  <2>1. /\ cursor' = [cursor EXCEPT ![screen] = to.cursor] /\ offset' = [offset EXCEPT ![screen] = to.offset]
        /\ processes' = processes
    BY <1>4 DEF Table!moveSelection, Table!MoveTo
  <2>2. Len(Table!Listed) \in Nat
    BY ListHasLength DEF TableTypes, Table!Listed
  <2>3. ASSUME screen \in Table!Screens PROVE to.cursor \in Int /\ to.offset \in Int
    <3>1. cursor[screen] + delta \in Int /\ offset[screen] \in Int
      BY <2>3 DEF TableTypes
    <3>. QED
      BY <2>2, <3>1, ClampTypes DEF Lists
  <2> HIDE DEF to
  <2>. QED
    BY <2>1, <2>3 DEF TableTypes
<1>5. ASSUME NEW row \in {cursor[screen]} \cup (offset[screen] + 1)..(offset[screen] + Rows), Table!openProcessMode(row)
      PROVE  TableTypes'
  <2>1. Len(Table!Listed) \in Nat /\ DOMAIN Table!Listed = 1..Len(Table!Listed)
    BY ListHasLength DEF TableTypes, Table!Listed
  <2>2. row \in Int
    BY <1>5, <2>1 DEF Table!openProcessMode
  <2>. QED
    BY <1>5, <2>2 DEF Table!openProcessMode, TableTypes
<1>6. CASE UNCHANGED <<processes, cursor, offset>>
  BY <1>6 DEF TableTypes
<1>7. CASE Table!EditFilter \/ Table!EndFilter \/ Table!ClearFilter
  <2>1. processes' = processes /\ ((\E s : Table!ToTop(s)) \/ UNCHANGED <<cursor, offset>>)
    BY <1>7 DEF Table!EditFilter, Table!EndFilter, Table!ClearFilter
  <2>. QED
    BY <2>1 DEF Table!ToTop, TableTypes
<1>8. CASE Table!StartFilter \/ Table!SwitchScreen \/ UNCHANGED Table!vars
  BY <1>6, <1>8 DEF Table!StartFilter, Table!SwitchScreen, Table!vars
<1>. QED
  BY <1>1, <1>2, <1>4, <1>5, <1>7, <1>8 DEF Table!Next

\* Only a snapshot and another order change the list under the selections.
LEMMA ListChanges ==
    ASSUME [Table!Next]_(Table!vars), processes' # processes \/ sort' # sort
    PROVE  Table!snapshotMsg \/ \E key \in DOMAIN Table!Columns : Table!setProcessSort(key)
  BY DEF Table!Next, Table!StartFilter, Table!EditFilter, Table!EndFilter, Table!ClearFilter, Table!moveSelection,
     Table!openProcessMode, Table!SwitchScreen, Table!vars

\* With the new list, both selections are on the processes they were on.
LEMMA SelectionStep ==
    ASSUME Lists, TableTypes, [Table!Next]_(Table!vars), processes' # processes \/ sort' # sort
    PROVE  \A s \in Table!Screens : Table!Selected[s] \in Table!ToSet(Table!Listed') =>
              /\ cursor'[s] \in DOMAIN Table!Listed' /\ Table!Listed'[cursor'[s]] = Table!Selected[s]
              /\ offset'[s] < cursor'[s] /\ cursor'[s] <= offset'[s] + Rows
<1>1. Table!restoreProcessSelection(Table!Listed', Table!Selected)
  <2>1. CASE Table!snapshotMsg
    BY <2>1 DEF Table!snapshotMsg, Table!Listed
  <2>2. ASSUME NEW key \in DOMAIN Table!Columns, Table!setProcessSort(key)
        PROVE  Table!restoreProcessSelection(Table!Listed', Table!Selected)
    BY <2>2 DEF Table!setProcessSort, Table!Listed
  <2>. QED
    BY <2>1, <2>2, ListChanges
<1>2. IsFiniteSet(DOMAIN processes')
  BY TableKeeps DEF TableTypes
<1> DEFINE rows == Table!Listed'
<1>3. Len(rows) \in Nat /\ DOMAIN rows = 1..Len(rows)
  BY <1>2, ListHasLength DEF Table!Listed
<1>4. \A p : p \in Table!ToSet(rows) => \E i \in DOMAIN rows : rows[i] = p
  BY DEF Table!ToSet
<1> HIDE DEF rows
<1>5. Table!restoreProcessSelection(rows, Table!Selected)
  BY <1>1 DEF rows
<1>6. \A s \in Table!Screens : Table!Selected[s] \in Table!ToSet(rows) =>
              /\ cursor'[s] \in DOMAIN rows /\ rows[cursor'[s]] = Table!Selected[s]
              /\ offset'[s] < cursor'[s] /\ cursor'[s] <= offset'[s] + Rows
  BY <1>3, <1>4, <1>5, RestoreShows
<1>. QED
  BY <1>6 DEF rows

\* A refresh or another order never moves a selection to another process, on either screen - for any snapshots, filters
\* and numbers of visible rows (snapshotMsg, setProcessSort, restoreProcessSelection, the clamps).
THEOREM SelectionFollows == SessionSpec => SelectionFollowsProcess
<1> SUFFICES ASSUME Lists PROVE SessionSpec => SelectionFollowsProcess
  BY SourcesAssumption
<1>1. SessionInit => TableTypes
  BY TableBegins DEF SessionInit
<1>2. [SessionNext]_<<part, vars, queueVars, tableVars, gridVars>> => [Table!Next]_(Table!vars)
  BY DEF SessionNext, SessionStep, QueueStep, TableStep, CardStep, tableVars, Table!vars
<1>3. TableTypes /\ [Table!Next]_(Table!vars) => TableTypes'
  BY TableKeeps
<1>4. TableTypes /\ [Table!Next]_(Table!vars) =>
         [(processes' # processes \/ sort' # sort) =>
            LET before == Table!Selected
                rows == Table!Listed'
            IN \A s \in Table!Screens :
                before[s] \in Table!ToSet(rows) =>
                    /\ cursor'[s] \in DOMAIN rows /\ rows[cursor'[s]] = before[s]
                    /\ offset'[s] < cursor'[s] /\ cursor'[s] <= offset'[s] + Rows]_(Table!vars)
  BY SelectionStep
<1>. QED
  BY <1>1, <1>2, <1>3, <1>4, PTL DEF SessionSpec, SelectionFollowsProcess, Table!SelectionFollowsProcess

-----------------------------------------------------------------------------
(* The Slurm page. *)

\* The n-th member of a finite set in a strict total order exists: the numbers of smaller members are as many as the
\* members, and less than that.
LEMMA RankedLists ==
    ASSUME NEW S, IsFiniteSet(S), NEW R,
           \A a \in S : <<a, a>> \notin R,
           \A a, b \in S : a = b \/ <<a, b>> \in R \/ <<b, a>> \in R,
           \A a, b, c \in S : <<a, b>> \in R /\ <<b, c>> \in R => <<a, c>> \in R
    PROVE  LET list == Queue!Ranked(S, R)
           IN Len(list) \in Nat /\ DOMAIN list = 1..Len(list) /\ \A n \in DOMAIN list : list[n] \in S
<1> DEFINE Lower(a) == {b \in S : <<b, a>> \in R}
           N == Cardinality(S)
           list == Queue!Ranked(S, R)
<1>1. N \in Nat
  BY FS_CardinalityType
<1>2. \A a : IsFiniteSet(Lower(a)) /\ Cardinality(Lower(a)) \in Nat
  BY FS_Subset, FS_CardinalityType
<1>3. ASSUME NEW a \in S PROVE Cardinality(Lower(a)) \in 0..N - 1
  <2> DEFINE others == S \ {a}
  <2>1. IsFiniteSet(others) /\ Cardinality(others) = N - 1
    BY FS_RemoveElement
  <2>2. Lower(a) \subseteq others
    OBVIOUS
  <2> HIDE DEF others, Lower
  <2>3. Cardinality(Lower(a)) <= Cardinality(others)
    BY <2>1, <2>2, FS_Subset
  <2>. QED
    BY <1>1, <1>2, <2>1, <2>3
<1>4. ASSUME NEW a \in S, NEW b \in S, <<a, b>> \in R PROVE Cardinality(Lower(a)) < Cardinality(Lower(b))
  <2> DEFINE others == Lower(b) \ {a}
  <2>1. Lower(a) \subseteq others /\ a \in Lower(b)
    BY <1>4
  <2> HIDE DEF Lower
  <2>2. IsFiniteSet(others) /\ Cardinality(others) = Cardinality(Lower(b)) - 1
    BY <1>2, <2>1, FS_RemoveElement
  <2> HIDE DEF others
  <2>3. Cardinality(Lower(a)) <= Cardinality(others)
    BY <2>1, <2>2, FS_Subset
  <2>. QED
    BY <1>2, <2>2, <2>3
<1> DEFINE rank == [a \in S |-> Cardinality(Lower(a))]
           T == 0..N - 1
<1> HIDE DEF Lower
<1>5. rank \in Injection(S, T)
  <2>1. rank \in [S -> T]
    BY <1>3
  <2>2. ASSUME NEW a \in S, NEW b \in S, rank[a] = rank[b] PROVE a = b
    <3>1. \A m, n \in Nat : m = n => ~(m < n) /\ ~(n < m)
      OBVIOUS
    <3>. QED
      BY <1>2, <1>4, <2>2, <3>1
  <2>. QED
    BY <2>1, <2>2 DEF Injection, IsInjective
<1>6. IsFiniteSet(T) /\ Cardinality(T) = N
  <2>1. 0 \in Int /\ N - 1 \in Int /\ (0 > N - 1 => N = 0) /\ (N - 1) - 0 + 1 = N
    BY <1>1
  <2> HIDE DEF N
  <2>. QED
    BY <2>1, FS_Interval
<1>7. rank \in Surjection(S, T)
  BY <1>5, <1>6, FS_Injection
<1>8. ASSUME NEW n \in 1..N PROVE \E a \in S : Cardinality(Lower(a)) = n - 1
  <2>1. n - 1 \in T
    BY <1>1
  <2>2. PICK a \in S : rank[a] = n - 1
    BY <1>7, <2>1 DEF Surjection
  <2>. QED
    BY <2>2
<1>9. list = [n \in 1..N |-> CHOOSE a \in S : Cardinality(Lower(a)) = n - 1]
  BY Zenon DEF Queue!Ranked, Queue!Cardinality, Cardinality, Lower
<1> HIDE DEF list, N
<1>10. ASSUME NEW n \in 1..N PROVE list[n] \in S
  <2>1. list[n] = CHOOSE a \in S : Cardinality(Lower(a)) = n - 1
    BY <1>9
  <2>. QED
    BY <1>8, <2>1
<1>11. DOMAIN list = 1..N /\ Len(list) = N
  BY <1>1, <1>9
<1>. QED
  BY <1>1, <1>10, <1>11 DEF list

\* Rows of a list are told apart by their cluster and their order in its answer, so they can be sorted.
LEMMA SortedRows ==
    ASSUME NEW rows, IsFiniteSet(rows),
           \A a \in rows : a.cluster \in Int /\ a.order \in Int,
           \A a, b \in rows : a.cluster = b.cluster /\ a.order = b.order => a = b
    PROVE  LET list == Queue!sortSlurmJobs(rows)
           IN Len(list) \in Nat /\ DOMAIN list = 1..Len(list) /\ \A n \in DOMAIN list : list[n] \in rows
<1> DEFINE Before(a, b) ==
              \/ Queue!sortRank(a) < Queue!sortRank(b)
              \/ Queue!sortRank(a) = Queue!sortRank(b) /\ a.cluster < b.cluster
              \/ Queue!sortRank(a) = Queue!sortRank(b) /\ a.cluster = b.cluster /\ a.order < b.order
           R == {pair \in rows \X rows : Before(pair[1], pair[2])}
<1>1. \A a : Queue!sortRank(a) \in Int
  BY DEF Queue!sortRank
<1>2. /\ \A a \in rows : ~Before(a, a)
      /\ \A a, b \in rows : a = b \/ Before(a, b) \/ Before(b, a)
      /\ \A a, b, c \in rows : Before(a, b) /\ Before(b, c) => Before(a, c)
  BY <1>1
<1> HIDE DEF Before
<1>3. /\ \A a \in rows : <<a, a>> \notin R
      /\ \A a, b \in rows : a = b \/ <<a, b>> \in R \/ <<b, a>> \in R
      /\ \A a, b, c \in rows : <<a, b>> \in R /\ <<b, c>> \in R => <<a, c>> \in R
  BY <1>2
<1>4. Queue!sortSlurmJobs(rows) = Queue!Ranked(rows, R)
  BY DEF Queue!sortSlurmJobs, Before
<1> HIDE DEF R
<1>. QED
  BY <1>3, <1>4, RankedLists

\* What parseSlurmJobs keeps are jobs of the answer.
LEMMA KeptRows ==
    ASSUME NEW c, NEW rows, Len(rows) \in Nat, DOMAIN rows = 1..Len(rows)
    PROVE  LET jobs == Queue!parseSlurmJobs(c, rows)
           IN Len(jobs) \in Nat /\ DOMAIN jobs = 1..Len(jobs) /\ \A n \in DOMAIN jobs : \E i \in DOMAIN rows : jobs[n] = rows[i]
<1> DEFINE kept == {i \in DOMAIN rows : Queue!Allowed(c, rows[i].partition)}
           R == {pair \in kept \X kept : pair[1] < pair[2]}
           lines == Queue!Ranked(kept, R)
           jobs == Queue!parseSlurmJobs(c, rows)
<1>1. IsFiniteSet(kept) /\ kept \subseteq Int
  <2>1. IsFiniteSet(DOMAIN rows) /\ kept \subseteq DOMAIN rows
    BY FS_Interval
  <2> HIDE DEF kept
  <2>. QED
    BY <2>1, FS_Subset
<1>2. kept \subseteq DOMAIN rows
  OBVIOUS
<1>3. jobs = [n \in DOMAIN lines |-> rows[lines[n]]]
  BY DEF Queue!parseSlurmJobs
<1> HIDE DEF kept, jobs
<1>4. /\ \A a \in kept : <<a, a>> \notin R
      /\ \A a, b \in kept : a = b \/ <<a, b>> \in R \/ <<b, a>> \in R
      /\ \A a, b, d \in kept : <<a, b>> \in R /\ <<b, d>> \in R => <<a, d>> \in R
  BY <1>1
<1> HIDE DEF R
<1>5. Len(lines) \in Nat /\ DOMAIN lines = 1..Len(lines) /\ \A n \in DOMAIN lines : lines[n] \in kept
  BY <1>1, <1>4, RankedLists
<1> HIDE DEF lines
<1>6. DOMAIN jobs = 1..Len(lines) /\ Len(jobs) = Len(lines)
  BY <1>3, <1>5
<1>. QED
  BY <1>2, <1>3, <1>5, <1>6 DEF jobs

\* The states of the clusters come from their answers.
Answering(states) == \A c \in Queue!Clusters : states[c] \in Queue!States(c)

LEMMA StateJobs ==
    ASSUME Squeue, NEW c \in Queue!Clusters, NEW state \in Queue!States(c)
    PROVE  /\ Len(state.jobs) \in Nat /\ DOMAIN state.jobs = 1..Len(state.jobs)
           /\ \A i \in DOMAIN state.jobs : state.jobs[i] \in Answered(c)
<1>1. CASE state = Queue!Unreported \/ state = [Queue!Unreported EXCEPT !.error = TRUE]
  <2>1. state.jobs = <<>>
    BY <1>1 DEF Queue!Unreported
  <2>. QED
    BY <2>1
<1>2. ASSUME NEW answer \in Answers[c], state = Queue!Collected(c, answer) PROVE
          /\ Len(state.jobs) \in Nat /\ DOMAIN state.jobs = 1..Len(state.jobs)
          /\ \A i \in DOMAIN state.jobs : state.jobs[i] \in Answered(c)
  <2>1. state.jobs = Queue!parseSlurmJobs(c, answer.jobs)
    BY <1>2 DEF Queue!Collected
  <2>2. Len(answer.jobs) \in Nat /\ DOMAIN answer.jobs = 1..Len(answer.jobs)
    BY DEF Squeue
  <2>3. \A i \in DOMAIN answer.jobs : answer.jobs[i] \in Answered(c)
    BY DEF Answered
  <2> DEFINE rows == answer.jobs
             jobs == Queue!parseSlurmJobs(c, rows)
  <2> HIDE DEF rows
  <2>4. Len(jobs) \in Nat /\ DOMAIN jobs = 1..Len(jobs) /\ \A n \in DOMAIN jobs : \E i \in DOMAIN rows : jobs[n] = rows[i]
    BY <2>2, KeptRows DEF rows
  <2> HIDE DEF jobs
  <2>. QED
    BY <2>1, <2>3, <2>4 DEF jobs, rows
<1>. QED
  BY <1>1, <1>2 DEF Queue!States

\* Every row of the job list is a job of an answer of its cluster.
LEMMA ListedJobs ==
    ASSUME Squeue, NEW states, Answering(states), NEW choice
    PROVE  LET list == Queue!selectedSlurmJobs(states, choice)
           IN /\ Len(list) \in Nat /\ DOMAIN list = 1..Len(list)
              /\ \A n \in DOMAIN list : list[n].cluster \in Queue!Clusters /\ list[n].job \in Answered(list[n].cluster)
<1> DEFINE Part(c) == Queue!Display(c, states[c].jobs, DOMAIN states[c].jobs)
           parts == {Part(c) : c \in Queue!Listed(states, choice)}
           rows == UNION parts
<1>1. ASSUME NEW c \in Queue!Clusters
      PROVE  /\ IsFiniteSet(Part(c))
             /\ \A a \in Part(c) : a.cluster = c /\ a.order \in Int /\ a.job \in Answered(c)
             /\ \A a, b \in Part(c) : a.order = b.order => a = b
  <2> DEFINE jobs == states[c].jobs
             row == [i \in DOMAIN jobs |-> [cluster |-> c, job |-> jobs[i], next |-> Queue!markSlurmNext(jobs, DOMAIN jobs, i),
                                            order |-> i]]
  <2>1. Len(jobs) \in Nat /\ DOMAIN jobs = 1..Len(jobs) /\ \A i \in DOMAIN jobs : jobs[i] \in Answered(c)
    BY StateJobs DEF Answering
  <2> HIDE DEF jobs
  <2>2. Part(c) = {row[i] : i \in DOMAIN jobs}
    BY DEF Queue!Display, jobs
  <2>3. IsFiniteSet(DOMAIN jobs)
    BY <2>1, FS_Interval
  <2>4. \A i \in DOMAIN jobs : row[i].cluster = c /\ row[i].order = i /\ row[i].job = jobs[i]
    OBVIOUS
  <2>5. row \in Surjection(DOMAIN jobs, Part(c))
    <3> HIDE DEF Part
    <3>1. row \in [DOMAIN jobs -> Part(c)]
      BY <2>2
    <3>. QED
      BY <2>2, <3>1 DEF Surjection
  <2> HIDE DEF row
  <2>6. IsFiniteSet(Part(c))
    BY <2>3, <2>5, FS_Surjection
  <2>. QED
    BY <2>1, <2>2, <2>4, <2>6
<1> HIDE DEF Part
<1>2. Queue!Listed(states, choice) \subseteq Queue!Clusters /\ IsFiniteSet(Queue!Clusters)
  BY FS_Interval DEF Queue!Listed, Queue!Clusters, Squeue
<1>3. IsFiniteSet(rows)
  <2>1. IsFiniteSet(Queue!Listed(states, choice))
    BY <1>2, FS_Subset
  <2>2. IsFiniteSet(parts)
    <3> DEFINE f == [c \in Queue!Listed(states, choice) |-> Part(c)]
    <3>1. f \in Surjection(Queue!Listed(states, choice), parts)
      BY DEF Surjection
    <3>. QED
      BY <2>1, <3>1, FS_Surjection
  <2>3. \A some \in parts : IsFiniteSet(some)
    BY <1>1, <1>2
  <2> HIDE DEF parts
  <2>. QED
    BY <2>2, <2>3, FS_UNION
<1>4. \A a \in rows : \E c \in Queue!Clusters : a \in Part(c)
  BY <1>2
<1>5. Queue!selectedSlurmJobs(states, choice) = Queue!sortSlurmJobs(rows)
  BY DEF Queue!selectedSlurmJobs, Part
<1> HIDE DEF rows
<1>6. \A c \in Queue!Clusters : c \in Int
  BY DEF Queue!Clusters
<1>7. \A a \in rows : a.cluster \in Queue!Clusters /\ a.cluster \in Int /\ a.order \in Int /\ a.job \in Answered(a.cluster)
  BY <1>1, <1>4, <1>6
<1>8. \A a, b \in rows : a.cluster = b.cluster /\ a.order = b.order => a = b
  BY <1>1, <1>4
<1>. QED
  BY <1>3, <1>5, <1>7, <1>8, SortedRows

(* The selection, explained job and filter of the page. *)
Page(u, view, choice, at, explain, id, c) ==
    u = [view |-> view, filter |-> choice, cursor |-> at, explain |-> explain, id |-> id, cluster |-> c]

Fields(u) == Page(u, u.view, u.filter, u.cursor, u.explain, u.id, u.cluster)

LEMMA PageFields ==
    ASSUME NEW u, NEW view, NEW choice, NEW at, NEW explain, NEW id, NEW c, Page(u, view, choice, at, explain, id, c)
    PROVE  /\ u.view = view /\ u.filter = choice /\ u.cursor = at /\ u.explain = explain /\ u.id = id /\ u.cluster = c
           /\ Fields(u)
  BY DEF Page, Fields

LEMMA PageSet ==
    ASSUME NEW view, NEW choice, NEW at, NEW explain, NEW id, NEW c, NEW x, NEW y, NEW z, NEW u, Page(u, view, choice, at, explain, id, c)
    PROVE  /\ Page([u EXCEPT !.view = x], x, choice, at, explain, id, c)
           /\ Page([u EXCEPT !.cursor = x], view, choice, x, explain, id, c)
           /\ Page([u EXCEPT !.explain = x], view, choice, at, x, id, c)
           /\ Page([u EXCEPT !.cursor = x, !.explain = y], view, choice, x, y, id, c)
           /\ Page([u EXCEPT !.filter = x, !.cursor = y], view, x, y, explain, id, c)
           /\ Page([u EXCEPT !.id = x, !.cluster = y], view, choice, at, explain, x, y)
           /\ Page([u EXCEPT !.view = x, !.cursor = y, !.explain = z], x, choice, y, z, id, c)
<1>1. Page([u EXCEPT !.view = x], x, choice, at, explain, id, c)
  BY DEF Page
<1>2. Page([u EXCEPT !.cursor = x], view, choice, x, explain, id, c)
  BY DEF Page
<1>3. Page([u EXCEPT !.explain = x], view, choice, at, x, id, c)
  BY DEF Page
<1>4. Page([u EXCEPT !.cursor = x, !.explain = y], view, choice, x, y, id, c)
  <2> DEFINE w == [u EXCEPT !.cursor = x]
  <2>1. [u EXCEPT !.cursor = x, !.explain = y] = [w EXCEPT !.explain = y]
    OBVIOUS
  <2>2. Page(w, view, choice, x, explain, id, c)
    BY <1>2
  <2> HIDE DEF w
  <2>3. ASSUME NEW t PROVE Page([w EXCEPT !.explain = t], view, choice, x, t, id, c)
    BY <2>2 DEF Page
  <2>. QED
    BY <2>1, <2>3, Zenon
<1>5. Page([u EXCEPT !.filter = x, !.cursor = y], view, x, y, explain, id, c)
  <2> DEFINE w == [u EXCEPT !.filter = x]
  <2>1. [u EXCEPT !.filter = x, !.cursor = y] = [w EXCEPT !.cursor = y]
    OBVIOUS
  <2>2. Page(w, view, x, at, explain, id, c)
    BY DEF Page
  <2> HIDE DEF w
  <2>3. Page([w EXCEPT !.cursor = y], view, x, y, explain, id, c)
    BY <2>2 DEF Page
  <2>. QED
    BY <2>1, <2>3, Zenon
<1>6. Page([u EXCEPT !.id = x, !.cluster = y], view, choice, at, explain, x, y)
  <2> DEFINE w == [u EXCEPT !.id = x]
  <2>1. [u EXCEPT !.id = x, !.cluster = y] = [w EXCEPT !.cluster = y]
    OBVIOUS
  <2>2. Page(w, view, choice, at, explain, x, c)
    BY DEF Page
  <2> HIDE DEF w
  <2>3. Page([w EXCEPT !.cluster = y], view, choice, at, explain, x, y)
    BY <2>2 DEF Page
  <2>. QED
    BY <2>1, <2>3, Zenon
<1>7. Page([u EXCEPT !.view = x, !.cursor = y, !.explain = z], x, choice, y, z, id, c)
  <2> DEFINE v == [u EXCEPT !.view = x]
             w == [v EXCEPT !.cursor = y]
  <2>1. [u EXCEPT !.view = x, !.cursor = y, !.explain = z] = [w EXCEPT !.explain = z]
    OBVIOUS
  <2>2. Page(v, x, choice, at, explain, id, c)
    BY <1>1
  <2> HIDE DEF v
  <2>3. Page(w, x, choice, y, explain, id, c)
    BY <2>2 DEF Page
  <2> HIDE DEF w
  <2>4. ASSUME NEW t PROVE Page([w EXCEPT !.explain = t], x, choice, y, t, id, c)
    BY <2>3 DEF Page
  <2>. QED
    BY <2>1, <2>4, Zenon
<1>. QED
  BY <1>1, <1>2, <1>3, <1>4, <1>5, <1>6, <1>7

\* The identity of a listed job is what the selection remembers of it, in whatever answer.
Remembers(u, job, c) == u.id = Queue!slurmStableJobID(job) /\ u.cluster = c

ExplainInv(u, identity) ==
    u.explain /\ u.id # None =>
        \E c \in Queue!Clusters : \E job \in Answered(c) :
            /\ Remembers(u, job, c)
            /\ identity = <<c, job.base, IF job.rest THEN None ELSE job.id>>

QueueInv ==
    /\ DOMAIN slurmStates = Queue!Clusters /\ Answering(slurmStates)
    /\ Fields(ui) /\ ui.explain \in BOOLEAN /\ ExplainInv(ui, chosen)

LEMMA IdentityRemembered ==
    ASSUME Squeue, NEW u, NEW identity, ExplainInv(u, identity), u.explain, u.id # None,
           NEW row, row.cluster \in Queue!Clusters, row.job \in Answered(row.cluster)
    PROVE  Queue!Identity(row) = identity <=> Remembers(u, row.job, row.cluster)
<1> PICK c \in Queue!Clusters : \E job \in Answered(c) :
       Remembers(u, job, c) /\ identity = <<c, job.base, IF job.rest THEN None ELSE job.id>>
  BY DEF ExplainInv
<1>1. PICK job \in Answered(c) :
         Remembers(u, job, c) /\ identity = <<c, job.base, IF job.rest THEN None ELSE job.id>>
  OBVIOUS
<1>2. CASE row.cluster # c
  BY <1>1, <1>2 DEF Queue!Identity, Remembers
<1>3. CASE row.cluster = c
  <2> DEFINE other == row.job
  <2>1. /\ job.id # None /\ job.rest \in BOOLEAN /\ (job.rest => Queue!isSlurmPending(job.state))
        /\ other.id # None /\ other.rest \in BOOLEAN /\ (other.rest => Queue!isSlurmPending(other.state))
        /\ (job.id = other.id => job.base = other.base /\ job.rest = other.rest)
    BY <1>3 DEF Squeue
  <2>2. /\ Queue!slurmStableJobID(job) = IF job.rest THEN <<job.base, "rest">> ELSE <<job.id>>
        /\ Queue!slurmStableJobID(other) = IF other.rest THEN <<other.base, "rest">> ELSE <<other.id>>
    BY <2>1 DEF Queue!slurmStableJobID
  <2>3. \A x, y, z : <<x>> # <<y, z>>
    OBVIOUS
  <2>4. Queue!Identity(row) = <<c, other.base, IF other.rest THEN None ELSE other.id>>
    BY <1>3 DEF Queue!Identity
  <2>. QED
    BY <1>1, <1>3, <2>1, <2>2, <2>3, <2>4 DEF Remembers
<1>. QED
  BY <1>2, <1>3

LEMMA LowestRow == \A T \in SUBSET Nat : T # {} => \E x \in T : \A y \in T : x <= y
<1> SUFFICES ASSUME NEW T \in SUBSET Nat, T # {} PROVE \E x \in T : \A y \in T : x <= y
  OBVIOUS
<1>1. \A x, y \in T : y < x => <<y, x>> \in OpToRel(<, Nat)
  BY DEF OpToRel
<1>2. PICK x \in T : \A y \in T : ~(<<y, x>> \in OpToRel(<, Nat))
  BY WFMin, NatLessThanWellFounded
<1>3. \A y \in T : ~(y < x)
  BY <1>1, <1>2
<1>4. \A y \in T : x <= y
  <2> SUFFICES ASSUME NEW y \in T PROVE x <= y
    OBVIOUS
  <2>1. x \in Nat /\ y \in Nat /\ ~(y < x)
    BY <1>3
  <2>. QED
    BY <2>1
<1>. QED
  BY <1>4

\* The clamp of the selection finds the remembered job, or closes the explanation.
LEMMA ClampFinds ==
    ASSUME NEW u, Fields(u), u.explain \in BOOLEAN, NEW list, Len(list) \in Nat, DOMAIN list = 1..Len(list)
    PROVE  LET v == Queue!clampSlurmCursor(u, list)
               found == {n \in DOMAIN list : Remembers(u, list[n].job, list[n].cluster)}
           IN /\ Fields(v) /\ v.explain \in BOOLEAN /\ v.view = u.view /\ v.filter = u.filter
              /\ v.explain /\ v.id # None => u.explain /\ v.id = u.id /\ v.cluster = u.cluster
              /\ u.explain /\ u.id # None =>
                    IF found = {} THEN ~v.explain ELSE v.explain /\ v.cursor \in found
<1> DEFINE found == {n \in DOMAIN list : Remembers(u, list[n].job, list[n].cluster)}
           place == Queue!Within(u.cursor, 1, Len(list))
           clamped == [u EXCEPT !.cursor = place]
           v == Queue!clampSlurmCursor(u, list)
<1>1. v = IF list = <<>> THEN [Queue!Forget(u) EXCEPT !.cursor = 1, !.explain = FALSE]
          ELSE IF ~u.explain \/ u.id = None THEN clamped
          ELSE IF found # {} THEN [u EXCEPT !.cursor = Queue!Min(found)]
          ELSE [Queue!Forget(clamped) EXCEPT !.explain = FALSE]
  BY DEF Queue!clampSlurmCursor, Remembers
<1>2. list = <<>> => found = {}
  OBVIOUS
<1>3. found # {} => Queue!Min(found) \in found
  <2>1. found \in SUBSET Nat
    OBVIOUS
  <2> HIDE DEF found
  <2>. QED
    BY <2>1, LowestRow DEF Queue!Min
<1> HIDE DEF found, v, place
<1>s. SUFFICES /\ Fields(v) /\ v.explain \in BOOLEAN /\ v.view = u.view /\ v.filter = u.filter
               /\ v.explain /\ v.id # None => u.explain /\ v.id = u.id /\ v.cluster = u.cluster
               /\ u.explain /\ u.id # None => IF found = {} THEN ~v.explain ELSE v.explain /\ v.cursor \in found
  BY DEF v, found
<1>4. PICK view, choice, at, explain, id, c : Page(u, view, choice, at, explain, id, c)
  BY Zenon DEF Fields
<1>5. u.view = view /\ u.filter = choice /\ u.cursor = at /\ u.explain = explain /\ u.id = id /\ u.cluster = c
  BY <1>4, PageFields, Zenon
<1>6. Page(clamped, view, choice, place, explain, id, c)
  BY <1>4, PageSet, Zenon
<1>7. Page(Queue!Forget(u), view, choice, at, explain, None, 0)
  BY <1>4, PageSet, Zenon DEF Queue!Forget
<1> HIDE DEF clamped
<1>8. Page(Queue!Forget(clamped), view, choice, place, explain, None, 0)
  BY <1>6, PageSet, Zenon DEF Queue!Forget
<1>a. ASSUME NEW to, NEW shown, NEW key, NEW in, Page(v, view, choice, to, shown, key, in)
      PROVE  Fields(v) /\ v.view = view /\ v.filter = choice /\ v.cursor = to /\ v.explain = shown /\ v.id = key /\ v.cluster = in
  BY <1>a, PageFields, Zenon
<1>9. CASE list = <<>>
  <2>1. Page(v, view, choice, 1, FALSE, None, 0)
    BY <1>1, <1>7, <1>9, PageSet, Zenon
  <2>3. Fields(v) /\ v.view = view /\ v.filter = choice /\ v.cursor = 1 /\ v.explain = FALSE /\ v.id = None /\ v.cluster = 0
    BY <1>a, <2>1, Zenon
  <2>. QED
    BY <1>2, <1>5, <1>9, <2>3
<1>10. CASE list # <<>> /\ (~u.explain \/ u.id = None)
  <2>1. Page(v, view, choice, place, explain, id, c)
    BY <1>1, <1>6, <1>10, Zenon
  <2>3. Fields(v) /\ v.view = view /\ v.filter = choice /\ v.cursor = place /\ v.explain = explain /\ v.id = id /\ v.cluster = c
    BY <1>a, <2>1, Zenon
  <2>. QED
    BY <1>5, <1>10, <2>3
<1>11. CASE list # <<>> /\ u.explain /\ u.id # None /\ found # {}
  <2>1. v = [u EXCEPT !.cursor = Queue!Min(found)]
    BY <1>1, <1>11, Zenon
  <2>2. Page(v, view, choice, Queue!Min(found), explain, id, c)
    BY <1>4, <2>1, PageSet, Zenon
  <2>3. Fields(v) /\ v.view = view /\ v.filter = choice /\ v.cursor = Queue!Min(found) /\ v.explain = explain /\ v.id = id /\ v.cluster = c
    BY <1>a, <2>2, Zenon
  <2>. QED
    BY <1>3, <1>5, <1>11, <2>3
<1>12. CASE list # <<>> /\ u.explain /\ u.id # None /\ found = {}
  <2>1. v = [Queue!Forget(clamped) EXCEPT !.explain = FALSE]
    BY <1>1, <1>12, Zenon
  <2>2. Page(v, view, choice, place, FALSE, None, 0)
    BY <1>8, <2>1, PageSet, Zenon
  <2>3. Fields(v) /\ v.view = view /\ v.filter = choice /\ v.cursor = place /\ v.explain = FALSE /\ v.id = None /\ v.cluster = 0
    BY <1>a, <2>2, Zenon
  <2>. QED
    BY <1>5, <1>12, <2>3
<1>. QED
  BY <1>9, <1>10, <1>11, <1>12

\* What is shown after an action on the page still explains the job that was chosen.
LEMMA ShownExplains ==
    ASSUME Squeue, NEW states, Answering(states), NEW u, Fields(u), u.explain \in BOOLEAN, NEW identity, ExplainInv(u, identity)
    PROVE  LET v == Queue!clampSlurmCursor(u, Queue!selectedSlurmJobs(states, u.filter))
           IN Fields(v) /\ v.explain \in BOOLEAN /\ ExplainInv(v, identity)
<1> DEFINE list == Queue!selectedSlurmJobs(states, u.filter)
           v == Queue!clampSlurmCursor(u, list)
<1>1. Len(list) \in Nat /\ DOMAIN list = 1..Len(list)
  BY ListedJobs
<1> HIDE DEF list
<1>2. /\ Fields(v) /\ v.explain \in BOOLEAN
      /\ v.explain /\ v.id # None => u.explain /\ v.id = u.id /\ v.cluster = u.cluster
  BY <1>1, ClampFinds
<1> HIDE DEF v
<1>3. ExplainInv(v, identity)
  BY <1>2 DEF ExplainInv, Remembers
<1>. QED
  BY <1>2, <1>3 DEF list, v

LEMMA KeyExplains ==
    ASSUME Squeue, QueueInv, NEW u, Fields(u), u.explain \in BOOLEAN, ExplainInv(u, chosen'), Queue!Key(u)
    PROVE  QueueInv'
<1>1. slurmStates' = slurmStates /\ Answering(slurmStates) /\ DOMAIN slurmStates = Queue!Clusters
  BY DEF Queue!Key, QueueInv
<1>2. ui' = IF u.view THEN Queue!clampSlurmCursor(u, Queue!selectedSlurmJobs(slurmStates, u.filter)) ELSE u
  BY DEF Queue!Key, Queue!slurmQueueView
<1>3. Fields(ui') /\ ui'.explain \in BOOLEAN /\ ExplainInv(ui', chosen')
  <2>1. CASE u.view
    <3>1. ui' = Queue!clampSlurmCursor(u, Queue!selectedSlurmJobs(slurmStates, u.filter))
      BY <1>2, <2>1
    <3>. QED
      BY <1>1, <3>1, ShownExplains
  <2>2. CASE ~u.view
    BY <1>2, <2>2
  <2>. QED
    BY <2>1, <2>2
<1>. QED
  BY <1>1, <1>3 DEF QueueInv, Answering

LEMMA ForgetExplains == ASSUME NEW u, NEW identity, u.id = None PROVE ExplainInv(u, identity)
  BY DEF ExplainInv

\* The explained job is the one at the row, which is remembered.
LEMMA ExplainKeeps == ASSUME Squeue, QueueInv, NEW row, Queue!Explain(row) PROVE QueueInv'
<1> DEFINE list == Queue!selectedSlurmJobs(slurmStates, ui.filter)
           w == [ui EXCEPT !.cursor = row, !.explain = TRUE]
           u == Queue!rememberSlurmSelection(w, list)
<1>1. Queue!Key(u) /\ chosen' = Queue!Identity(list[row])
  BY DEF Queue!Explain, Queue!Jobs
<1>2. /\ DOMAIN list = 1..Len(list)
      /\ \A n \in DOMAIN list : list[n].cluster \in Queue!Clusters /\ list[n].job \in Answered(list[n].cluster)
  BY ListedJobs DEF QueueInv
<1> HIDE DEF list
<1>3. PICK view, choice, at, explain, id, c : Page(ui, view, choice, at, explain, id, c)
  BY Zenon DEF QueueInv, Fields
<1>4. Page(w, view, choice, row, TRUE, id, c)
  BY <1>3, PageSet, Zenon
<1>5. w.cursor = row
  BY <1>4, PageFields, Zenon
<1>6. u = IF w.cursor \in DOMAIN list
          THEN [w EXCEPT !.id = Queue!slurmStableJobID(list[row].job), !.cluster = list[row].cluster]
          ELSE Queue!Forget(w)
  BY <1>5 DEF Queue!rememberSlurmSelection
<1> HIDE DEF w, u
<1>7. Fields(u) /\ u.explain = TRUE /\ ExplainInv(u, chosen')
  <2>1. CASE row \in DOMAIN list
    <3> DEFINE key == Queue!slurmStableJobID(list[row].job)
    <3>1. u = [w EXCEPT !.id = key, !.cluster = list[row].cluster]
      BY <1>5, <1>6, <2>1
    <3> HIDE DEF key
    <3>2. Page(u, view, choice, row, TRUE, key, list[row].cluster)
      BY <1>4, <3>1, PageSet, Zenon
    <3>3. Fields(u) /\ u.explain = TRUE /\ u.id = key /\ u.cluster = list[row].cluster
      <4>1. ASSUME NEW of, Page(u, view, choice, row, TRUE, key, of)
            PROVE  Fields(u) /\ u.explain = TRUE /\ u.id = key /\ u.cluster = of
        BY <4>1, PageFields, Zenon
      <4>. QED
        BY <3>2, <4>1, Zenon
    <3>4. Remembers(u, list[row].job, list[row].cluster)
      BY <3>3 DEF Remembers, key
    <3>5. chosen' = <<list[row].cluster, list[row].job.base, IF list[row].job.rest THEN None ELSE list[row].job.id>>
      BY <1>1 DEF Queue!Identity
    <3>6. ExplainInv(u, chosen')
      BY <1>2, <2>1, <3>4, <3>5 DEF ExplainInv
    <3>. QED
      BY <3>3, <3>6
  <2>2. CASE row \notin DOMAIN list
    <3>1. u = Queue!Forget(w)
      BY <1>5, <1>6, <2>2
    <3>2. Page(u, view, choice, row, TRUE, None, 0)
      BY <1>4, <3>1, PageSet, Zenon DEF Queue!Forget
    <3>3. Fields(u) /\ u.explain = TRUE /\ u.id = None
      BY <3>2, PageFields, Zenon
    <3>. QED
      BY <3>3, ForgetExplains
  <2>. QED
    BY <2>1, <2>2
<1>. QED
  BY <1>1, <1>7, KeyExplains

\* The other keys forget the job, close the explanation, or leave both alone.
LEMMA OtherKey ==
    ASSUME Squeue, QueueInv, UNCHANGED chosen, NEW u, Queue!Key(u), NEW view, NEW choice, NEW at, NEW explain \in BOOLEAN, NEW id, NEW c,
           Page(u, view, choice, at, explain, id, c), id = None \/ explain = FALSE \/ (explain = ui.explain /\ id = ui.id /\ c = ui.cluster)
    PROVE  QueueInv'
<1>1. Fields(u) /\ u.explain = explain /\ u.id = id /\ u.cluster = c
  BY PageFields, Zenon
<1>2. ExplainInv(u, chosen')
  BY <1>1 DEF ExplainInv, Remembers, QueueInv
<1>. QED
  BY <1>1, <1>2, KeyExplains

LEMMA QueueKeys ==
    ASSUME Squeue, QueueInv, UNCHANGED chosen, NEW x, NEW y
    PROVE  /\ Queue!Key([ui EXCEPT !.cursor = x]) => QueueInv'
           /\ Queue!Key([ui EXCEPT !.view = x]) => QueueInv'
           /\ Queue!Key([Queue!Forget(ui) EXCEPT !.explain = FALSE]) => QueueInv'
           /\ Queue!Key([Queue!Forget(ui) EXCEPT !.filter = x, !.cursor = y]) => QueueInv'
           /\ Queue!Key([Queue!Forget(ui) EXCEPT !.view = x, !.cursor = y, !.explain = FALSE]) => QueueInv'
<1>1. PICK view, choice, at, explain, id, c : Page(ui, view, choice, at, explain, id, c)
  BY Zenon DEF QueueInv, Fields
<1>2. explain = ui.explain /\ id = ui.id /\ c = ui.cluster
  BY <1>1, PageFields, Zenon
<1>3. explain \in BOOLEAN /\ FALSE \in BOOLEAN
  BY <1>2 DEF QueueInv
<1>4. Page(Queue!Forget(ui), view, choice, at, explain, None, 0)
  BY <1>1, PageSet, Zenon DEF Queue!Forget
<1>5. Page([ui EXCEPT !.cursor = x], view, choice, x, explain, id, c)
  BY <1>1, PageSet, Zenon
<1>6. Page([ui EXCEPT !.view = x], x, choice, at, explain, id, c)
  BY <1>1, PageSet, Zenon
<1>7. Page([Queue!Forget(ui) EXCEPT !.explain = FALSE], view, choice, at, FALSE, None, 0)
  BY <1>4, PageSet, Zenon
<1>8. Page([Queue!Forget(ui) EXCEPT !.filter = x, !.cursor = y], view, x, y, explain, None, 0)
  BY <1>4, PageSet, Zenon
<1>9. Page([Queue!Forget(ui) EXCEPT !.view = x, !.cursor = y, !.explain = FALSE], x, choice, y, FALSE, None, 0)
  BY <1>4, PageSet, Zenon
<1>10. Queue!Key([ui EXCEPT !.cursor = x]) => QueueInv'
  BY <1>2, <1>3, <1>5, OtherKey, Zenon
<1>11. Queue!Key([ui EXCEPT !.view = x]) => QueueInv'
  BY <1>2, <1>3, <1>6, OtherKey, Zenon
<1>12. Queue!Key([Queue!Forget(ui) EXCEPT !.explain = FALSE]) => QueueInv'
  BY <1>3, <1>7, OtherKey, Zenon
<1>13. Queue!Key([Queue!Forget(ui) EXCEPT !.filter = x, !.cursor = y]) => QueueInv'
  BY <1>3, <1>8, OtherKey, Zenon
<1>14. Queue!Key([Queue!Forget(ui) EXCEPT !.view = x, !.cursor = y, !.explain = FALSE]) => QueueInv'
  BY <1>3, <1>9, OtherKey, Zenon
<1>. QED
  BY <1>10, <1>11, <1>12, <1>13, <1>14

\* A new answer: the clamp leaves the explanation with its job, or closes it.
LEMMA AnswerKeeps == ASSUME Squeue, QueueInv, Queue!hubSnapshots PROVE QueueInv'
<1> PICK c \in Queue!Clusters : \E state \in Queue!States(c) :
       /\ slurmStates' = [slurmStates EXCEPT ![c] = state]
       /\ ui' = Queue!clampSlurmCursor(ui, Queue!selectedSlurmJobs([slurmStates EXCEPT ![c] = state], ui.filter))
       /\ chosen' = chosen
  BY DEF Queue!hubSnapshots
<1> PICK state \in Queue!States(c) :
       /\ slurmStates' = [slurmStates EXCEPT ![c] = state]
       /\ ui' = Queue!clampSlurmCursor(ui, Queue!selectedSlurmJobs([slurmStates EXCEPT ![c] = state], ui.filter))
       /\ chosen' = chosen
  OBVIOUS
<1> DEFINE states == [slurmStates EXCEPT ![c] = state]
<1>1. DOMAIN slurmStates' = Queue!Clusters /\ Answering(states)
  BY DEF QueueInv, Answering
<1>2. Fields(ui) /\ ui.explain \in BOOLEAN /\ ExplainInv(ui, chosen)
  BY DEF QueueInv
<1>3. slurmStates' = states /\ ui' = Queue!clampSlurmCursor(ui, Queue!selectedSlurmJobs(states, ui.filter))
  OBVIOUS
<1> HIDE DEF states
<1>4. Fields(ui') /\ ui'.explain \in BOOLEAN /\ ExplainInv(ui', chosen)
  BY <1>1, <1>2, <1>3, ShownExplains
<1>5. Answering(slurmStates')
  BY <1>1, <1>3
<1>6. chosen' = chosen
  OBVIOUS
<1>. QED
  BY <1>1, <1>4, <1>5, <1>6 DEF QueueInv

\* Nothing else changes the answers.
LEMMA AnswersChange == Queue!Next /\ slurmStates' # slurmStates => Queue!hubSnapshots
  BY DEF Queue!Next, Queue!moveSlurmCursor, Queue!moveSlurmFilter, Queue!Enter, Queue!Click, Queue!Back, Queue!ShowAll,
     Queue!SwitchView, Queue!openSelected, Queue!CloseDetail, Queue!Explain, Queue!Key

LEMMA QueueBegins == Queue!Init => QueueInv
<1> SUFFICES ASSUME Queue!Init PROVE QueueInv
  OBVIOUS
<1>1. DOMAIN slurmStates = Queue!Clusters /\ Answering(slurmStates)
  BY DEF Queue!Init, Answering, Queue!States
<1>2. Page(ui, Dashboards = {}, 0, 1, FALSE, None, 0)
  BY DEF Queue!Init, Page
<1>3. Fields(ui) /\ ui.explain = FALSE
  BY <1>2 DEF Page, Fields
<1>. QED
  BY <1>1, <1>3 DEF QueueInv, ExplainInv

LEMMA QueueKeeps == Squeue /\ QueueInv /\ [Queue!Next]_(Queue!vars) => QueueInv'
<1> SUFFICES ASSUME Squeue, QueueInv, [Queue!Next]_(Queue!vars) PROVE QueueInv'
  OBVIOUS
<1>1. CASE Queue!hubSnapshots
  BY <1>1, AnswerKeeps
<1>2. CASE \E delta \in {-1, 1, -PageStep, PageStep} : Queue!moveSlurmCursor(delta)
  <2>1. PICK delta : Queue!moveSlurmCursor(delta)
    BY <1>2
  <2> DEFINE row == Queue!Within(ui.cursor + delta, 1, Len(Queue!Jobs))
  <2>2. Queue!Explain(row) \/ (Queue!Key([ui EXCEPT !.cursor = row]) /\ UNCHANGED chosen)
    BY <2>1 DEF Queue!moveSlurmCursor, Queue!SameChoice
  <2> HIDE DEF row
  <2>. QED
    BY <2>2, ExplainKeeps, QueueKeys
<1>3. CASE \E delta \in {-1, 1} : Queue!moveSlurmFilter(delta)
  <2>1. PICK delta : Queue!moveSlurmFilter(delta)
    BY <1>3
  <2> DEFINE to == Queue!Within(ui.filter + delta, 0, NumClusters)
  <2>2. Queue!Key([Queue!Forget(ui) EXCEPT !.filter = to, !.cursor = 1]) /\ UNCHANGED chosen
    BY <2>1 DEF Queue!moveSlurmFilter, Queue!SameChoice
  <2> HIDE DEF to
  <2>. QED
    BY <2>2, QueueKeys
<1>4. CASE Queue!Enter \/ Queue!Click \/ Queue!Back \/ Queue!ShowAll
  <2>1. \/ \E row : Queue!Explain(row)
        \/ /\ UNCHANGED chosen
           /\ \/ Queue!Key([Queue!Forget(ui) EXCEPT !.explain = FALSE])
              \/ \E c : Queue!Key([Queue!Forget(ui) EXCEPT !.filter = c, !.cursor = 1])
              \/ Queue!Key([ui EXCEPT !.view = FALSE])
    BY <1>4 DEF Queue!Enter, Queue!Click, Queue!Back, Queue!ShowAll, Queue!SameChoice
  <2>. QED
    BY <2>1, ExplainKeeps, QueueKeys
<1>5. CASE Queue!SwitchView(~ui.view) \/ Queue!SwitchView(TRUE)
  <2>1. PICK view : Queue!Key([Queue!Forget(ui) EXCEPT !.view = view, !.cursor = 1, !.explain = FALSE]) /\ UNCHANGED chosen
    BY <1>5 DEF Queue!SwitchView, Queue!SameChoice
  <2>. QED
    BY <2>1, QueueKeys
<1>6. CASE Queue!openSelected \/ Queue!CloseDetail \/ UNCHANGED Queue!vars
  <2>1. UNCHANGED <<slurmStates, ui, chosen>>
    BY <1>6 DEF Queue!openSelected, Queue!CloseDetail, Queue!vars
  <2>. QED
    BY <2>1 DEF QueueInv, Answering, Fields, Page, ExplainInv, Remembers
<1>. QED
  BY <1>1, <1>2, <1>3, <1>4, <1>5, <1>6 DEF Queue!Next

\* The explanation after a new answer.
LEMMA ExplanationStep ==
    ASSUME Squeue, QueueInv, [Queue!Next]_(Queue!vars), slurmStates' # slurmStates, ui.explain, ui.id # None
    PROVE  LET jobs == Queue!selectedSlurmJobs(slurmStates', ui.filter) IN
           IF \E i \in DOMAIN jobs : Queue!Identity(jobs[i]) = chosen
           THEN ui'.explain /\ Queue!Identity(jobs[ui'.cursor]) = chosen
           ELSE ~ui'.explain
<1> DEFINE jobs == Queue!selectedSlurmJobs(slurmStates', ui.filter)
           found == {n \in DOMAIN jobs : Remembers(ui, jobs[n].job, jobs[n].cluster)}
<1>1. Queue!hubSnapshots
  BY AnswersChange DEF Queue!vars
<1>2. ui' = Queue!clampSlurmCursor(ui, jobs)
  BY <1>1 DEF Queue!hubSnapshots
<1>3. Answering(slurmStates')
  BY <1>1, AnswerKeeps DEF QueueInv
<1>4. /\ Len(jobs) \in Nat /\ DOMAIN jobs = 1..Len(jobs)
      /\ \A n \in DOMAIN jobs : jobs[n].cluster \in Queue!Clusters /\ jobs[n].job \in Answered(jobs[n].cluster)
  BY <1>3, ListedJobs
<1> HIDE DEF jobs
<1>5. Fields(ui) /\ ui.explain \in BOOLEAN /\ ExplainInv(ui, chosen)
  BY DEF QueueInv
<1>6. IF found = {} THEN ~ui'.explain ELSE ui'.explain /\ ui'.cursor \in found
  BY <1>2, <1>4, <1>5, ClampFinds
<1>7. \A n \in DOMAIN jobs : Queue!Identity(jobs[n]) = chosen <=> n \in found
  BY <1>4, <1>5, IdentityRemembered
<1> HIDE DEF found
<1>8. found \subseteq DOMAIN jobs
  BY DEF found
<1>9. IF \E i \in DOMAIN jobs : Queue!Identity(jobs[i]) = chosen
      THEN ui'.explain /\ Queue!Identity(jobs[ui'.cursor]) = chosen
      ELSE ~ui'.explain
  BY <1>6, <1>7, <1>8
<1>. QED
  BY <1>9 DEF jobs

\* A new answer never moves an explanation to another job, and closes it when its job is gone - for any clusters and any
\* answers of theirs (hubSnapshots, clampSlurmCursor, rememberSlurmSelection, sortSlurmJobs).
THEOREM ExplanationFollows == SessionSpec => ExplanationFollowsJob
<1> SUFFICES ASSUME Squeue PROVE SessionSpec => ExplanationFollowsJob
  BY SourcesAssumption
<1>1. SessionInit => QueueInv
  BY QueueBegins DEF SessionInit
<1>2. [SessionNext]_<<part, vars, queueVars, tableVars, gridVars>> => [Queue!Next]_(Queue!vars)
  BY DEF SessionNext, SessionStep, QueueStep, TableStep, CardStep, queueVars, Queue!vars
<1>3. QueueInv /\ [Queue!Next]_(Queue!vars) => QueueInv'
  BY QueueKeeps
<1>4. QueueInv /\ [Queue!Next]_(Queue!vars) =>
         [(slurmStates' # slurmStates /\ ui.explain /\ ui.id # None) =>
            LET jobs == Queue!selectedSlurmJobs(slurmStates', ui.filter) IN
            IF \E i \in DOMAIN jobs : Queue!Identity(jobs[i]) = chosen
            THEN ui'.explain /\ Queue!Identity(jobs[ui'.cursor]) = chosen
            ELSE ~ui'.explain]_(Queue!vars)
  BY ExplanationStep
<1>. QED
  BY <1>1, <1>2, <1>3, <1>4, PTL DEF SessionSpec, ExplanationFollowsJob, Queue!ExplanationFollowsJob
-----------------------------------------------------------------------------
(* Sums (Total). *)

\* A sum of numbers is a number, and no less than any of them.
LEMMA TotalBounds ==
    ASSUME NEW f, IsFiniteSet(DOMAIN f), \A t \in DOMAIN f : f[t] \in Nat
    PROVE  /\ IsFiniteSet(Queue!Units(f)) /\ Queue!Total(f) = Cardinality(Queue!Units(f)) /\ Queue!Total(f) \in Nat
           /\ \A t \in DOMAIN f : f[t] <= Queue!Total(f)
<1> DEFINE Part(t) == {t} \X (1..f[t])
           parts == {Part(t) : t \in DOMAIN f}
           units == Queue!Units(f)
<1>1. units = UNION parts
  BY DEF Queue!Units
<1>2. ASSUME NEW t \in DOMAIN f PROVE IsFiniteSet(Part(t)) /\ Cardinality(Part(t)) = f[t] /\ Part(t) \subseteq units
  <2>1. IsFiniteSet({t}) /\ Cardinality({t}) = 1
    BY FS_Singleton
  <2>2. IsFiniteSet(1..f[t]) /\ Cardinality(1..f[t]) = f[t]
    BY FS_Interval
  <2>3. IsFiniteSet(Part(t)) /\ Cardinality(Part(t)) = Cardinality({t}) * Cardinality(1..f[t])
    BY <2>1, <2>2, FS_Product
  <2>. QED
    BY <1>1, <2>1, <2>2, <2>3
<1> HIDE DEF Part
<1>3. IsFiniteSet(parts)
  <2> DEFINE g == [t \in DOMAIN f |-> Part(t)]
  <2>1. g \in Surjection(DOMAIN f, parts)
    BY DEF Surjection
  <2>. QED
    BY <2>1, FS_Surjection
<1>4. \A set \in parts : IsFiniteSet(set)
  BY <1>2
<1> HIDE DEF parts, units
<1>5. IsFiniteSet(units)
  BY <1>1, <1>3, <1>4, FS_UNION
<1>6. Queue!Total(f) = Cardinality(units)
  BY Zenon DEF Queue!Total, Queue!Cardinality, Cardinality, units
<1>7. Cardinality(units) \in Nat
  BY <1>5, FS_CardinalityType
<1>8. ASSUME NEW t \in DOMAIN f PROVE f[t] <= Cardinality(units)
  <2>1. Cardinality(Part(t)) <= Cardinality(units)
    BY <1>2, <1>5, FS_Subset
  <2>. QED
    BY <1>2, <2>1
<1>. QED
  BY <1>5, <1>6, <1>7, <1>8 DEF units

\* The sum of sums is the sum of their sums.
LEMMA TotalAdds ==
    ASSUME NEW D, IsFiniteSet(D), NEW f \in [D -> Nat], NEW g \in [D -> Nat], NEW h \in [D -> Nat], \A t \in D : h[t] = f[t] + g[t]
    PROVE  Queue!Total(h) = Queue!Total(f) + Queue!Total(g)
<1> DEFINE F == Queue!Units(f)
           G == Queue!Units(g)
           H == Queue!Units(h)
           shift == [u \in G |-> <<u[1], f[u[1]] + u[2]>>]
           S == {shift[u] : u \in G}
<1>1. /\ \A u \in F : u[1] \in D /\ u[2] \in 1..f[u[1]] /\ u = <<u[1], u[2]>>
      /\ \A u \in G : u[1] \in D /\ u[2] \in 1..g[u[1]] /\ u = <<u[1], u[2]>>
      /\ \A u \in H : u[1] \in D /\ u[2] \in 1..h[u[1]] /\ u = <<u[1], u[2]>>
  BY DEF Queue!Units
<1>2. /\ \A t \in D : \A n \in 1..f[t] : <<t, n>> \in F
      /\ \A t \in D : \A n \in 1..g[t] : <<t, n>> \in G
      /\ \A t \in D : \A n \in 1..h[t] : <<t, n>> \in H
  BY DEF Queue!Units
<1>3. /\ IsFiniteSet(F) /\ Queue!Total(f) = Cardinality(F) /\ Queue!Total(f) \in Nat
      /\ IsFiniteSet(G) /\ Queue!Total(g) = Cardinality(G) /\ Queue!Total(g) \in Nat
      /\ Queue!Total(h) = Cardinality(H)
  BY TotalBounds
<1> HIDE DEF F, G, H
<1>4. \A u \in G : shift[u] = <<u[1], f[u[1]] + u[2]>>
  OBVIOUS
<1>5. shift \in Bijection(G, S)
  <2>1. shift \in [G -> S]
    OBVIOUS
  <2>2. \A u, v \in G : shift[u] = shift[v] => u = v
    <3> TAKE u, v \in G
    <3> HAVE shift[u] = shift[v]
    <3>1. u[1] = v[1] /\ f[u[1]] + u[2] = f[v[1]] + v[2]
      BY <1>4
    <3>2. u[2] \in Nat /\ v[2] \in Nat /\ f[u[1]] \in Nat
      BY <1>1
    <3>. QED
      BY <1>1, <3>1, <3>2
  <2>3. \A s \in S : \E u \in G : shift[u] = s
    OBVIOUS
  <2> HIDE DEF shift, S
  <2>. QED
    BY <2>1, <2>2, <2>3 DEF Bijection, Injection, Surjection, IsInjective
<1>6. IsFiniteSet(S) /\ Cardinality(S) = Cardinality(G)
  <2> HIDE DEF shift, S
  <2>. QED
    BY <1>3, <1>5, FS_Bijection DEF ExistsBijection
<1>7. \A s \in S : \E u \in G : s = <<u[1], f[u[1]] + u[2]>>
  BY <1>4
<1>8. \A u \in G : <<u[1], f[u[1]] + u[2]>> \in S
  BY <1>4
<1> HIDE DEF shift, S
<1>9. F \cap S = {}
  <2> SUFFICES ASSUME NEW s \in F, s \in S PROVE FALSE
    OBVIOUS
  <2>1. PICK u \in G : s = <<u[1], f[u[1]] + u[2]>>
    BY <1>7
  <2>2. s[1] = u[1] /\ s[2] = f[u[1]] + u[2] /\ s[2] \in 1..f[s[1]] /\ u[1] \in D /\ u[2] \in 1..g[u[1]]
    BY <1>1, <2>1
  <2>3. f[u[1]] \in Nat /\ g[u[1]] \in Nat
    BY <2>2
  <2>. QED
    BY <2>2, <2>3
<1>10. H = F \cup S
  <2>1. ASSUME NEW u \in F \cup S PROVE u \in H
    <3>1. CASE u \in F
      <4>1. u[1] \in D /\ u[2] \in 1..f[u[1]] /\ u = <<u[1], u[2]>>
        BY <1>1, <3>1
      <4>2. f[u[1]] \in Nat /\ g[u[1]] \in Nat /\ h[u[1]] = f[u[1]] + g[u[1]]
        BY <4>1
      <4>3. u[2] \in 1..h[u[1]]
        BY <4>1, <4>2
      <4>. QED
        BY <1>2, <4>1, <4>3
    <3>2. CASE u \in S
      <4>1. PICK v \in G : u = <<v[1], f[v[1]] + v[2]>>
        BY <1>7, <3>2
      <4>2. v[1] \in D /\ v[2] \in 1..g[v[1]]
        BY <1>1
      <4>3. f[v[1]] \in Nat /\ g[v[1]] \in Nat /\ h[v[1]] = f[v[1]] + g[v[1]]
        BY <4>2
      <4>4. f[v[1]] + v[2] \in 1..h[v[1]]
        BY <4>2, <4>3
      <4>. QED
        BY <1>2, <4>1, <4>2, <4>4
    <3>. QED
      BY <3>1, <3>2
  <2>2. ASSUME NEW u \in H, u \notin F PROVE u \in S
    <3>1. u[1] \in D /\ u[2] \in 1..h[u[1]] /\ u = <<u[1], u[2]>>
      BY <1>1
    <3>2. f[u[1]] \in Nat /\ g[u[1]] \in Nat /\ h[u[1]] = f[u[1]] + g[u[1]]
      BY <3>1
    <3>3. u[2] \notin 1..f[u[1]]
      BY <1>2, <2>2, <3>1
    <3> DEFINE n == u[2] - f[u[1]]
    <3>4. n \in 1..g[u[1]] /\ f[u[1]] + n = u[2]
      BY <3>1, <3>2, <3>3
    <3> HIDE DEF n
    <3>5. <<u[1], n>> \in G
      BY <1>2, <3>1, <3>4
    <3>6. <<u[1], f[u[1]] + n>> \in S
      BY <1>8, <3>5
    <3>. QED
      BY <3>1, <3>4, <3>6
  <2>. QED
    BY <2>1, <2>2
<1>11. Cardinality(H) = Cardinality(F) + Cardinality(S) - Cardinality(F \cap S)
  BY <1>3, <1>6, <1>10, FS_Union
<1>12. Cardinality(F \cap S) = 0
  BY <1>9, FS_EmptySet
<1>. QED
  BY <1>3, <1>6, <1>11, <1>12
-----------------------------------------------------------------------------
(* The fit of GPUs. *)

\* The job is within what slurmNodeGPUFit allows; the untyped GPUs in use are spread over the node's; the job has room beside them.
Fitting(want, have, used) ==
    \A k \in Queue!Kinds : want[k] > 0 =>
        want[k] <= IF k = Untyped THEN Queue!Total(have) - Queue!Total(used) ELSE have[k] - used[k] - used[Untyped]
Spread(d, have, used) ==
    /\ Queue!Total(d) = used[Untyped]
    /\ \A k \in Queue!Kinds : d[k] + (IF k = Untyped THEN 0 ELSE used[k]) <= have[k]
Left(want, have, used, d) ==
    /\ \A t \in GPUTypes : want[t] <= have[t] - d[t] - (IF t = Untyped THEN 0 ELSE used[t])
    /\ want[Untyped] <= Queue!Total([k \in Queue!Kinds |-> have[k] - d[k] - (IF k = Untyped THEN 0 ELSE used[k])])

\* Wherever the GPUs are that were taken without a type, what is left is enough.
LEMMA RoomIsLeft ==
    ASSUME IsFiniteSet(Queue!Kinds), Untyped \notin GPUTypes,
           NEW want \in [Queue!Kinds -> Nat], NEW have \in [Queue!Kinds -> Nat], NEW used \in [Queue!Kinds -> Nat],
           NEW d \in [Queue!Kinds -> Nat], Spread(d, have, used), Fitting(want, have, used)
    PROVE  Left(want, have, used, d)
<1> DEFINE K == Queue!Kinds
           typed == [k \in K |-> IF k = Untyped THEN 0 ELSE used[k]]
           rest == [k \in K |-> IF k = Untyped THEN used[k] ELSE 0]
           taken == [k \in K |-> d[k] + (IF k = Untyped THEN 0 ELSE used[k])]
           free == [k \in K |-> have[k] - d[k] - (IF k = Untyped THEN 0 ELSE used[k])]
<1>s. /\ Queue!Total(d) = used[Untyped]
      /\ \A k \in K : d[k] + (IF k = Untyped THEN 0 ELSE used[k]) <= have[k]
      /\ \A k \in K : want[k] > 0 =>
            want[k] <= IF k = Untyped THEN Queue!Total(have) - Queue!Total(used) ELSE have[k] - used[k] - used[Untyped]
  BY DEF Spread, Fitting
<1>1. Untyped \in K /\ GPUTypes \subseteq K
  BY DEF Queue!Kinds
<1> HIDE DEF K
<1>2. typed \in [K -> Nat] /\ rest \in [K -> Nat] /\ taken \in [K -> Nat]
  BY DEF K
<1>3. free \in [K -> Nat]
  <2> SUFFICES ASSUME NEW k \in K PROVE have[k] - d[k] - (IF k = Untyped THEN 0 ELSE used[k]) \in Nat
    OBVIOUS
  <2>1. have[k] \in Nat /\ d[k] \in Nat /\ used[k] \in Nat /\ d[k] + (IF k = Untyped THEN 0 ELSE used[k]) <= have[k]
    BY <1>s DEF K
  <2>. QED
    BY <2>1
<1>4. /\ \A k \in K : have[k] = free[k] + taken[k]
      /\ \A k \in K : taken[k] = d[k] + typed[k]
      /\ \A k \in K : used[k] = typed[k] + rest[k]
  <2> SUFFICES ASSUME NEW k \in K PROVE have[k] = free[k] + taken[k] /\ taken[k] = d[k] + typed[k] /\ used[k] = typed[k] + rest[k]
    OBVIOUS
  <2>1. have[k] \in Nat /\ d[k] \in Nat /\ used[k] \in Nat
    BY DEF K
  <2>. QED
    BY <2>1
<1>5. rest[Untyped] = used[Untyped]
  BY <1>1
<1>6. ASSUME NEW t \in GPUTypes PROVE want[t] <= have[t] - d[t] - (IF t = Untyped THEN 0 ELSE used[t])
  <2>1. t \in K /\ t # Untyped
    BY <1>1
  <2>2. /\ want[t] \in Nat /\ have[t] \in Nat /\ d[t] \in Nat /\ used[t] \in Nat /\ used[Untyped] \in Nat
        /\ d[t] + used[t] <= have[t]
        /\ want[t] > 0 => want[t] <= have[t] - used[t] - used[Untyped]
    BY <1>s, <1>1, <2>1 DEF K
  <2>3. d[t] <= used[Untyped]
    <3>1. IsFiniteSet(DOMAIN d) /\ \A k \in DOMAIN d : d[k] \in Nat
      OBVIOUS
    <3>. QED
      BY <1>s, <2>1, <3>1, TotalBounds DEF K
  <2>. QED
    BY <2>1, <2>2, <2>3
<1> HIDE DEF typed, rest, taken, free
<1>7. IsFiniteSet(K) /\ want \in [K -> Nat] /\ have \in [K -> Nat] /\ used \in [K -> Nat] /\ d \in [K -> Nat]
  BY DEF K
<1>8. /\ Queue!Total(have) = Queue!Total(free) + Queue!Total(taken)
      /\ Queue!Total(taken) = Queue!Total(d) + Queue!Total(typed)
      /\ Queue!Total(used) = Queue!Total(typed) + Queue!Total(rest)
  <2>1. Queue!Total(have) = Queue!Total(free) + Queue!Total(taken)
    <3>1. IsFiniteSet(K) /\ free \in [K -> Nat] /\ taken \in [K -> Nat] /\ have \in [K -> Nat]
      BY <1>2, <1>3, <1>7
    <3>2. \A k \in K : have[k] = free[k] + taken[k]
      BY <1>4
    <3>. QED
      BY <3>1, <3>2, TotalAdds
  <2>2. Queue!Total(taken) = Queue!Total(d) + Queue!Total(typed)
    BY <1>2, <1>4, <1>7, TotalAdds
  <2>3. Queue!Total(used) = Queue!Total(typed) + Queue!Total(rest)
    BY <1>2, <1>4, <1>7, TotalAdds
  <2>. QED
    BY <2>1, <2>2, <2>3
<1>9. /\ Queue!Total(free) \in Nat /\ Queue!Total(typed) \in Nat /\ Queue!Total(rest) \in Nat /\ Queue!Total(d) \in Nat
      /\ used[Untyped] <= Queue!Total(rest)
  <2>1. \A f \in [K -> Nat] : Queue!Total(f) \in Nat /\ \A k \in K : f[k] <= Queue!Total(f)
    <3> TAKE f \in [K -> Nat]
    <3>1. IsFiniteSet(DOMAIN f) /\ (\A k \in DOMAIN f : f[k] \in Nat) /\ DOMAIN f = K
      BY <1>7
    <3>. QED
      BY <3>1, TotalBounds
  <2>. QED
    BY <1>1, <1>2, <1>3, <1>5, <1>7, <2>1
<1>10. want[Untyped] \in Nat /\ used[Untyped] \in Nat /\ (want[Untyped] > 0 => want[Untyped] <= Queue!Total(have) - Queue!Total(used))
  BY <1>s, <1>1, <1>7
<1>11. want[Untyped] <= Queue!Total(free)
  BY <1>s, <1>8, <1>9, <1>10
<1>. QED
  BY <1>6, <1>11 DEF Left, free, K

\* The GPUs of the nodes and jobs of a state are counted.
LEMMA CountedState ==
    ASSUME Squeue, Counted, NEW c \in Queue!Clusters, NEW state \in Queue!States(c)
    PROVE  /\ IsFiniteSet(DOMAIN state.jobs) /\ \A i \in DOMAIN state.jobs : state.jobs[i].gres \in [Queue!Kinds -> Nat]
           /\ \A node \in state.nodes : node.gres \in [Queue!Kinds -> Nat]
<1>1. IsFiniteSet(DOMAIN state.jobs) /\ \A i \in DOMAIN state.jobs : state.jobs[i] \in Answered(c)
  <2>1. Len(state.jobs) \in Nat /\ DOMAIN state.jobs = 1..Len(state.jobs) /\ \A i \in DOMAIN state.jobs : state.jobs[i] \in Answered(c)
    BY StateJobs
  <2>. QED
    BY <2>1, FS_Interval
<1>2. \A job \in Answered(c) : job.gres \in [Queue!Kinds -> Nat]
  BY DEF Counted, Answered
<1>3. ASSUME NEW node \in state.nodes PROVE node.gres \in [Queue!Kinds -> Nat]
  <2>1. PICK answer \in Answers[c] : state = Queue!Collected(c, answer)
    <3>1. Queue!Unreported.nodes = {} /\ [Queue!Unreported EXCEPT !.error = TRUE].nodes = {}
      BY DEF Queue!Unreported
    <3>. QED
      BY <1>3, <3>1 DEF Queue!States
  <2>2. node \in Queue!parseSlurmNodes(c, answer.nodes)
    BY <1>3, <2>1 DEF Queue!Collected
  <2> DEFINE mine(name) == {row \in {row \in answer.nodes : Queue!Allowed(c, row.partition)} : row.name = name}
             strings(name) == {row.gres : row \in mine(name)}
  <2>3. PICK name : node.gres = Queue!mergedGRES(strings(name))
    BY <2>2 DEF Queue!parseSlurmNodes
  <2>4. IsFiniteSet(answer.nodes) /\ \A row \in answer.nodes : row.gres \in [Queue!Kinds -> Nat]
    BY DEF Counted
  <2> DEFINE rows == mine(name)
             all == strings(name)
  <2>5. IsFiniteSet(rows)
    <3>1. rows \in SUBSET answer.nodes
      OBVIOUS
    <3> HIDE DEF rows
    <3>. QED
      BY <2>4, <3>1, FS_Subset
  <2>6. all = {row.gres : row \in rows} /\ \A g \in all : g \in [Queue!Kinds -> Nat]
    BY <2>4
  <2> HIDE DEF rows
  <2>7. node.gres = [k \in Queue!Kinds |-> Queue!Total([g \in all |-> g[k]])]
    BY <2>3 DEF Queue!mergedGRES
  <2> HIDE DEF all
  <2>8. IsFiniteSet(all)
    <3> DEFINE f == [row \in rows |-> row.gres]
    <3>1. f \in Surjection(rows, all)
      BY <2>6 DEF Surjection
    <3>. QED
      BY <2>5, <3>1, FS_Surjection
  <2>9. ASSUME NEW k \in Queue!Kinds PROVE Queue!Total([g \in all |-> g[k]]) \in Nat
    <3> DEFINE f == [g \in all |-> g[k]]
    <3>1. IsFiniteSet(DOMAIN f) /\ \A g \in DOMAIN f : f[g] \in Nat
      BY <2>6, <2>8
    <3> HIDE DEF f
    <3>2. Queue!Total(f) \in Nat
      BY <3>1, TotalBounds
    <3>. QED
      BY <3>2 DEF f
  <2>. QED
    BY <2>7, <2>9
<1>. QED
  BY <1>1, <1>2, <1>3

\* A candidate without a blocker has room.
LEMMA FitHasRoom ==
    ASSUME Squeue, Counted, NEW c \in Queue!Clusters, NEW state \in Queue!States(c), NEW i \in DOMAIN state.jobs,
           NEW node \in state.nodes, Queue!Blockers(state.jobs[i], node, state.jobs) = {}
    PROVE  Queue!HasRoom(state.jobs[i], node, state.jobs)
<1> DEFINE K == Queue!Kinds
           jobs == state.jobs
           want == jobs[i].gres
           have == node.gres
           on == Queue!RunningOn(node.name, jobs)
           used == Queue!Used(node.name, jobs)
<1>1. IsFiniteSet(DOMAIN jobs) /\ (\A n \in DOMAIN jobs : jobs[n].gres \in [K -> Nat]) /\ have \in [K -> Nat]
  BY CountedState
<1>2. IsFiniteSet(K) /\ Untyped \in K /\ Untyped \notin GPUTypes
  <2>1. IsFiniteSet(GPUTypes) /\ IsFiniteSet({Untyped})
    BY FS_Singleton DEF Counted
  <2>. QED
    BY <2>1, FS_Union DEF Counted, Queue!Kinds
<1>3. used \in [K -> Nat]
  <2>1. on \in SUBSET DOMAIN jobs
    BY DEF Queue!RunningOn
  <2>2. used = [k \in K |-> Queue!Total([n \in on |-> jobs[n].gres[k]])]
    BY DEF Queue!Used
  <2> HIDE DEF on
  <2>3. IsFiniteSet(on)
    BY <1>1, <2>1, FS_Subset
  <2>4. ASSUME NEW k \in K PROVE Queue!Total([n \in on |-> jobs[n].gres[k]]) \in Nat
    <3> DEFINE f == [n \in on |-> jobs[n].gres[k]]
    <3>1. IsFiniteSet(DOMAIN f) /\ \A n \in DOMAIN f : f[n] \in Nat
      BY <1>1, <2>1, <2>3
    <3> HIDE DEF f
    <3>2. Queue!Total(f) \in Nat
      BY <3>1, TotalBounds
    <3>. QED
      BY <3>2 DEF f
  <2> HIDE DEF used
  <2>. QED
    BY <2>2, <2>4
<1>4. want \in [K -> Nat]
  BY <1>1
<1>5. Fitting(want, have, used)
  <2> SUFFICES ASSUME NEW k \in K, want[k] > 0
               PROVE  want[k] <= IF k = Untyped THEN Queue!Total(have) - Queue!Total(used) ELSE have[k] - used[k] - used[Untyped]
    BY DEF Fitting
  <2>1. want # Queue!NoGPU
    BY DEF Queue!NoGPU
  <2>2. "GPU" \notin Queue!Blockers(jobs[i], node, jobs)
    OBVIOUS
  <2>3. Queue!slurmNodeGPUFit(jobs[i], node, jobs)
    BY <2>1, <2>2 DEF Queue!Blockers
  <2>. QED
    BY <2>3 DEF Queue!slurmNodeGPUFit, Queue!slurmGPUTotal
<1> HIDE DEF want, have, used, jobs
<1>6. ASSUME NEW d \in Queue!Spreads(node, used) PROVE Left(want, have, used, d)
  <2>1. d \in [K -> Nat] /\ Spread(d, have, used)
    BY <1>2, <1>3 DEF Queue!Spreads, Queue!slurmGPUTotal, Spread, have
  <2>. QED
    BY <1>1, <1>2, <1>3, <1>4, <1>5, <2>1, RoomIsLeft
<1>. QED
  BY <1>6 DEF Queue!HasRoom, Left, want, have, used, jobs

\* The best candidate has the fewest blockers.
LEMMA BestCandidate ==
    ASSUME NEW fits, fits # {}, \A f \in fits : IsFiniteSet(f.blockers)
    PROVE  LET best == CHOOSE f \in fits : \A g \in fits : Queue!Cardinality(f.blockers) <= Queue!Cardinality(g.blockers)
           IN best \in fits
<1> DEFINE count == [f \in fits |-> Cardinality(f.blockers)]
           T == {count[f] : f \in fits}
<1>1. T \in SUBSET Nat /\ T # {}
  BY FS_CardinalityType
<1>2. \A f \in fits : count[f] \in T
  OBVIOUS
<1>3. \A x \in T : \E f \in fits : count[f] = x
  OBVIOUS
<1> HIDE DEF T
<1>4. PICK x \in T : \A y \in T : x <= y
  BY <1>1, LowestRow
<1>5. PICK f \in fits : count[f] = x
  BY <1>3
<1>6. \A g \in fits : count[f] <= count[g]
  BY <1>2, <1>4, <1>5
<1>7. \A g \in fits : count[g] = Queue!Cardinality(g.blockers)
  BY Zenon DEF Queue!Cardinality, Cardinality, count
<1> HIDE DEF count
<1>8. \A g \in fits : Queue!Cardinality(f.blockers) <= Queue!Cardinality(g.blockers)
  BY <1>6, <1>7
<1>. QED
  BY <1>8

LEMMA FitsAreReal ==
    ASSUME Squeue, Counted, Answering(slurmStates) PROVE Queue!FitIsReal
<1> SUFFICES ASSUME NEW c \in Queue!Clusters, NEW i \in DOMAIN slurmStates[c].jobs
             PROVE  LET now == slurmStates[c]
                        job == now.jobs[i]
                        fits == Queue!slurmCandidateNodeFits(job, now)
                    IN Queue!isSlurmPending(job.state) =>
                          /\ \A fit \in fits : fit.blockers = {} => Queue!HasRoom(job, fit.node, now.jobs)
                          /\ Queue!explainSlurmJob(job, now) = {} => \E fit \in fits : Queue!HasRoom(job, fit.node, now.jobs)
  BY DEF Queue!FitIsReal
<1> DEFINE now == slurmStates[c]
           job == now.jobs[i]
           fits == Queue!slurmCandidateNodeFits(job, now)
<1>1. now \in Queue!States(c)
  BY DEF Answering
<1>2. \A fit \in fits : fit.node \in now.nodes /\ fit.blockers = Queue!Blockers(job, fit.node, now.jobs)
  BY DEF Queue!slurmCandidateNodeFits
<1> HIDE DEF fits
<1>3. \A fit \in fits : fit.blockers = {} => Queue!HasRoom(job, fit.node, now.jobs)
  BY <1>1, <1>2, FitHasRoom
<1>4. ASSUME Queue!explainSlurmJob(job, now) = {} PROVE \E fit \in fits : fit.blockers = {}
  <2> DEFINE best == CHOOSE f \in fits : \A g \in fits : Queue!Cardinality(f.blockers) <= Queue!Cardinality(g.blockers)
  <2>1. fits # {} /\ best.blockers = {}
    BY <1>4 DEF Queue!explainSlurmJob, fits
  <2>2. \A fit \in fits : IsFiniteSet(fit.blockers)
    <3>1. IsFiniteSet({"STATE", "CPU", "MEM", "GPU"})
      <4>1. IsFiniteSet({"STATE"}) /\ IsFiniteSet({"CPU"}) /\ IsFiniteSet({"MEM"}) /\ IsFiniteSet({"GPU"})
        BY FS_Singleton
      <4>2. IsFiniteSet({"STATE"} \cup {"CPU"}) /\ IsFiniteSet({"MEM"} \cup {"GPU"})
        BY <4>1, FS_Union
      <4>3. IsFiniteSet(({"STATE"} \cup {"CPU"}) \cup ({"MEM"} \cup {"GPU"}))
        BY <4>2, FS_Union
      <4>4. {"STATE", "CPU", "MEM", "GPU"} = ({"STATE"} \cup {"CPU"}) \cup ({"MEM"} \cup {"GPU"})
        OBVIOUS
      <4>. QED
        BY <4>3, <4>4
    <3>2. \A fit \in fits : fit.blockers \subseteq {"STATE", "CPU", "MEM", "GPU"}
      BY <1>2 DEF Queue!Blockers
    <3>. QED
      BY <3>1, <3>2, FS_Subset
  <2>3. best \in fits
    BY <2>1, <2>2, BestCandidate
  <2>. QED
    BY <2>1, <2>3
<1>. QED
  BY <1>3, <1>4 DEF fits

\* A node shown as fitting has the GPUs free, wherever the untyped ones of the running jobs are, and no blocker means such a
\* node - for any types and numbers of GPUs, any jobs and nodes (slurmNodeGPUFit, slurmCandidateNodeFits, explainSlurmJob).
THEOREM FitsReal == SessionSpec => []FitIsReal
<1> SUFFICES ASSUME Squeue, Counted PROVE SessionSpec => []FitIsReal
  BY SourcesAssumption
<1>1. SessionInit => QueueInv
  BY QueueBegins DEF SessionInit
<1>2. [SessionNext]_<<part, vars, queueVars, tableVars, gridVars>> => [Queue!Next]_(Queue!vars)
  BY DEF SessionNext, SessionStep, QueueStep, TableStep, CardStep, queueVars, Queue!vars
<1>3. QueueInv /\ [Queue!Next]_(Queue!vars) => QueueInv'
  BY QueueKeeps
<1>4. QueueInv => FitIsReal
  BY FitsAreReal DEF QueueInv, FitIsReal
<1>. QED
  BY <1>1, <1>2, <1>3, <1>4, PTL DEF SessionSpec

-----------------------------------------------------------------------------
(* The cards of the overview. *)

\* A set of numbers has a least one.
LEMMA LeastNumber == \A T \in SUBSET Nat : T # {} => \E x \in T : \A y \in T : x <= y
<1> SUFFICES ASSUME NEW T \in SUBSET Nat, T # {} PROVE \E x \in T : \A y \in T : x <= y
  OBVIOUS
<1>1. \A x, y \in T : y < x => <<y, x>> \in OpToRel(<, Nat)
  BY DEF OpToRel
<1>2. PICK x \in T : \A y \in T : ~(<<y, x>> \in OpToRel(<, Nat))
  BY WFMin, NatLessThanWellFounded
<1>3. \A y \in T : ~(y < x)
  BY <1>1, <1>2
<1>. QED
  BY <1>3

\* Induction over the numbers to n, for a set of them.
LEMMA UpTo ==
    ASSUME NEW n \in Nat, NEW T, 0 \in T, \A i \in 1..n : i - 1 \in T => i \in T
    PROVE  n \in T
<1> DEFINE Out == {i \in 0..n : i \notin T}
<1>1. ASSUME Out # {} PROVE FALSE
  <2>1. PICK i \in Out : \A j \in Out : i <= j
    <3>1. Out \in SUBSET Nat
      OBVIOUS
    <3> HIDE DEF Out
    <3>. QED
      BY <1>1, <3>1, LeastNumber
  <2>2. i \in 1..n
    BY <2>1
  <2>3. i - 1 \in 0..n /\ ~(i <= i - 1)
    BY <2>2
  <2>4. i - 1 \in T
    BY <2>1, <2>3
  <2>. QED
    BY <2>1, <2>2, <2>4
<1>. QED
  BY <1>1

\* f has the values of a recursive definition over 0..n, that begins with base and goes on with G.
StaysIn(G, S, n) == G \in [S \X (1..n) -> S]
Recursion(f, S, base, n, G) ==
    f \in [0..n -> S] /\ f[0] = base /\ \A i \in 1..n : f[i] = G[<<f[i - 1], i>>]

\* What is defined step by step, by a step that stays in S, has a value of S after every step.
LEMMA StepByStep ==
    ASSUME NEW S, NEW base \in S, NEW n \in Nat, NEW G, StaysIn(G, S, n)
    PROVE  \E f : Recursion(f, S, base, n, G)
<1> USE DEF StaysIn
<1> DEFINE Is(f, m) == f = [i \in 0..m |-> IF i = 0 THEN base ELSE G[<<f[i - 1], i>>]]
           T == {m \in 0..n : \E f \in [0..m -> S] : Is(f, m)}
<1>1. 0 \in T
  <2> DEFINE f == [i \in 0..0 |-> base]
  <2>1. f \in [0..0 -> S] /\ Is(f, 0)
    OBVIOUS
  <2> HIDE DEF f, Is
  <2>. QED
    BY <2>1
<1>2. ASSUME NEW m \in 1..n, m - 1 \in T PROVE m \in T
  <2>1. PICK g \in [0..m - 1 -> S] : Is(g, m - 1)
    BY <1>2
  <2> DEFINE f == [i \in 0..m |-> IF i < m THEN g[i] ELSE G[<<g[m - 1], m>>]]
  <2>2. f \in [0..m -> S]
    BY <2>1
  <2>3. ASSUME NEW i \in 0..m PROVE f[i] = IF i = 0 THEN base ELSE G[<<f[i - 1], i>>]
    <3>1. CASE i = 0
      BY <2>1, <3>1
    <3>2. CASE i \in 1..m - 1
      BY <2>1, <3>2
    <3>3. CASE i = m
      <4>1. m # 0 /\ m - 1 \in 0..m /\ m - 1 < m /\ f[m - 1] = g[m - 1] /\ f[m] = G[<<g[m - 1], m>>]
        OBVIOUS
      <4>. QED
        BY <3>3, <4>1
    <3>. QED
      BY <3>1, <3>2, <3>3
  <2>4. Is(f, m)
    <3> HIDE DEF f
    <3>. QED
      BY <2>2, <2>3
  <2> HIDE DEF f, Is
  <2>. QED
    BY <2>2, <2>4
<1>3. n \in T
  <2> HIDE DEF T
  <2>. QED
    BY <1>1, <1>2, UpTo
<1>4. PICK f \in [0..n -> S] : f = [i \in 0..n |-> IF i = 0 THEN base ELSE G[<<f[i - 1], i>>]]
  BY <1>3
<1>5. Recursion(f, S, base, n, G)
  BY <1>4 DEF Recursion
<1>. QED
  BY <1>5

-----------------------------------------------------------------------------
(* The order of the cards. *)

\* A configuration that loadHubConfig accepts.
HubFile(c) == c \in [groups : Seq(STRING), nodes : Seq(STRING)] /\ Cards!loadHubConfig(c)

\* A sequence of numbers in order, and what is in a sequence.
Ascending(s) == \A i, j \in 1..Len(s) : i < j => s[i] < s[j]
Entries(s) == {s[i] : i \in 1..Len(s)}

\* Append adds one entry, at the end.
LEMMA EntriesOfAppend ==
    ASSUME NEW S, NEW s \in Seq(S), NEW x \in S
    PROVE  /\ Append(s, x) \in Seq(S) /\ Len(Append(s, x)) = Len(s) + 1
           /\ \A i \in 1..Len(s) : Append(s, x)[i] = s[i]
           /\ Append(s, x)[Len(s) + 1] = x
           /\ Entries(Append(s, x)) = Entries(s) \cup {x}
<1>1. /\ Append(s, x) \in Seq(S) /\ Len(Append(s, x)) = Len(s) + 1 /\ Append(s, x)[Len(s) + 1] = x
      /\ \A i \in 1..Len(s) : Append(s, x)[i] = s[i]
  OBVIOUS
<1>2. Entries(Append(s, x)) \subseteq Entries(s) \cup {x}
  BY <1>1 DEF Entries
<1>3. Entries(s) \cup {x} \subseteq Entries(Append(s, x))
  BY <1>1 DEF Entries
<1>. QED
  BY <1>1, <1>2, <1>3

\* nodeGroups: the nodes of a group, each once, in the order of the configuration.
LEMMA CardsOfGroup ==
    ASSUME NEW c, HubFile(c), NEW g
    PROVE  /\ Cards!CardsOf(c, g) \in Seq(Nat) /\ Ascending(Cards!CardsOf(c, g))
           /\ Entries(Cards!CardsOf(c, g)) = Cards!Members(c, g)
<1> DEFINE N == Len(c.nodes)
           S == Seq(Nat)
           Put(s, n) == IF c.nodes[n] = g THEN Append(s, n) ELSE s
           Is(f) == f = [n \in 0..N |-> IF n = 0 THEN <<>> ELSE Put(f[n - 1], n)]
           G == [x \in S \X (1..N) |-> Put(x[1], x[2])]
<1>1. N \in Nat /\ DOMAIN c.nodes = 1..N
  BY DEF HubFile
<1>2. \A s \in S : \A n \in 1..N : Put(s, n) \in S /\ G[<<s, n>>] = Put(s, n)
  <2> SUFFICES ASSUME NEW s \in S, NEW n \in 1..N PROVE Put(s, n) \in S /\ G[<<s, n>>] = Put(s, n)
    OBVIOUS
  <2>1. n \in Nat
    BY <1>1
  <2>2. Append(s, n) \in S
    BY <2>1
  <2>. QED
    BY <2>2
<1>3. StaysIn(G, S, N)
  <2>1. \A x \in S \X (1..N) : x = <<x[1], x[2]>> /\ x[1] \in S /\ x[2] \in 1..N
    OBVIOUS
  <2> HIDE DEF S, Put
  <2>. QED
    BY <1>2, <2>1 DEF StaysIn
<1>4. PICK f : Recursion(f, S, <<>>, N, G)
  <2>1. <<>> \in S
    OBVIOUS
  <2> HIDE DEF N, S, G
  <2>. QED
    BY <1>1, <1>3, <2>1, StepByStep
<1>5. Is(f)
  <2>1. \A n \in 0..N : n # 0 => n \in 1..N /\ n - 1 \in 0..N
    BY <1>1
  <2>2. \A n \in 0..N : f[n] = IF n = 0 THEN <<>> ELSE Put(f[n - 1], n)
    <3> HIDE DEF N, S, G, Put
    <3>. QED
      BY <1>2, <1>4, <2>1 DEF Recursion
  <2> HIDE DEF N, S, G, Put
  <2>. QED
    BY <1>4, <2>2 DEF Recursion
<1> DEFINE cards == CHOOSE h : Is(h)
<1>6. Is(cards)
  <2> HIDE DEF Is
  <2>. QED
    BY <1>5
<1>7. Cards!CardsOf(c, g) = cards[N]
  BY DEF Cards!CardsOf
<1> HIDE DEF cards
<1>8. cards[0] = <<>> /\ \A n \in 1..N : cards[n] = Put(cards[n - 1], n)
  <2>1. 0 \in 0..N /\ \A n \in 1..N : n \in 0..N /\ n # 0
    BY <1>1
  <2> HIDE DEF N, Put
  <2>. QED
    BY <1>6, <2>1
<1> DEFINE Good(n) == /\ cards[n] \in S /\ Ascending(cards[n])
                       /\ Entries(cards[n]) = {m \in 1..n : c.nodes[m] = g}
           T == {n \in 0..N : Good(n)}
<1>9. 0 \in T
  <2>1. 0 \in 0..N /\ {m \in 1..0 : c.nodes[m] = g} = {} /\ <<>> \in S
    BY <1>1
  <2>2. Ascending(<<>>) /\ Entries(<<>>) = {}
    BY DEF Ascending, Entries
  <2>. QED
    BY <1>8, <2>1, <2>2
<1>10. ASSUME NEW n \in 1..N, n - 1 \in T PROVE n \in T
  <2> DEFINE s == cards[n - 1]
  <2>1. n \in Nat /\ n > 0 /\ s \in S /\ Ascending(s) /\ Entries(s) = {m \in 1..n - 1 : c.nodes[m] = g}
    BY <1>1, <1>10
  <2>2. cards[n] = IF c.nodes[n] = g THEN Append(s, n) ELSE s
    BY <1>8
  <2> HIDE DEF s
  <2>3. CASE c.nodes[n] # g
    <3>1. {m \in 1..n - 1 : c.nodes[m] = g} = {m \in 1..n : c.nodes[m] = g}
      BY <2>1, <2>3
    <3>. QED
      BY <2>1, <2>2, <2>3, <3>1
  <2>4. CASE c.nodes[n] = g
    <3>1. {m \in 1..n - 1 : c.nodes[m] = g} \cup {n} = {m \in 1..n : c.nodes[m] = g}
      BY <2>1, <2>4
    <3>2. /\ Append(s, n) \in S /\ Len(Append(s, n)) = Len(s) + 1
          /\ \A i \in 1..Len(s) : Append(s, n)[i] = s[i]
          /\ Append(s, n)[Len(s) + 1] = n
          /\ Entries(Append(s, n)) = Entries(s) \cup {n}
      BY <2>1, EntriesOfAppend
    <3>3. ASSUME NEW i \in 1..Len(s) PROVE s[i] < n /\ s[i] \in Nat
      <4>1. s[i] \in {m \in 1..n - 1 : c.nodes[m] = g}
        BY <2>1 DEF Entries
      <4>. QED
        BY <2>1, <4>1
    <3>4. Ascending(Append(s, n))
      <4> SUFFICES ASSUME NEW i \in 1..Len(s) + 1, NEW j \in 1..Len(s) + 1, i < j
                   PROVE  Append(s, n)[i] < Append(s, n)[j]
        BY <3>2 DEF Ascending
      <4>1. Len(s) \in Nat
        BY <2>1
      <4>2. i \in 1..Len(s) /\ (j \in 1..Len(s) \/ j = Len(s) + 1)
        BY <4>1
      <4>. QED
        BY <2>1, <3>2, <3>3, <4>2 DEF Ascending
    <3>5. Entries(Append(s, n)) = {m \in 1..n : c.nodes[m] = g}
      BY <2>1, <3>1, <3>2
    <3>6. cards[n] = Append(s, n)
      BY <2>2, <2>4
    <3>7. n \in 0..N
      BY <1>1
    <3>. QED
      BY <3>2, <3>4, <3>5, <3>6, <3>7
  <2>. QED
    BY <2>3, <2>4
<1>11. N \in T
  <2> HIDE DEF N, T
  <2>. QED
    BY <1>1, <1>9, <1>10, UpTo
<1>12. {m \in 1..N : c.nodes[m] = g} = Cards!Members(c, g)
  BY <1>1 DEF Cards!Members
<1>. QED
  BY <1>7, <1>11, <1>12

\* A node's group is one of the configuration, and the place of a group there is its own.
LEMMA GroupIndexIs ==
    ASSUME NEW c, HubFile(c)
    PROVE  /\ DOMAIN c.nodes = 1..Len(c.nodes) /\ Len(c.nodes) \in Nat /\ Len(c.groups) \in Nat
           /\ \A n \in DOMAIN c.nodes : Cards!GroupIndex(c, n) \in 1..Len(c.groups)
           /\ \A n \in DOMAIN c.nodes : c.groups[Cards!GroupIndex(c, n)] = c.nodes[n]
           /\ \A i \in 1..Len(c.groups) :
                 Cards!Members(c, c.groups[i]) = {n \in DOMAIN c.nodes : Cards!GroupIndex(c, n) = i}
<1>1. /\ DOMAIN c.nodes = 1..Len(c.nodes) /\ Len(c.nodes) \in Nat /\ Len(c.groups) \in Nat
      /\ DOMAIN c.groups = 1..Len(c.groups)
  BY DEF HubFile
<1>2. ASSUME NEW n \in DOMAIN c.nodes
      PROVE  Cards!GroupIndex(c, n) \in DOMAIN c.groups /\ c.groups[Cards!GroupIndex(c, n)] = c.nodes[n]
  <2>1. \E i \in DOMAIN c.groups : c.groups[i] = c.nodes[n]
    BY DEF HubFile, Cards!loadHubConfig, Cards!ToSet
  <2>. QED
    BY <2>1 DEF Cards!GroupIndex
<1>3. \A i, j \in DOMAIN c.groups : c.groups[i] = c.groups[j] => i = j
  BY DEF HubFile, Cards!loadHubConfig, Cards!IsInjective
<1>4. ASSUME NEW i \in DOMAIN c.groups
      PROVE  Cards!Members(c, c.groups[i]) = {n \in DOMAIN c.nodes : Cards!GroupIndex(c, n) = i}
  BY <1>2, <1>3 DEF Cards!Members
<1>. QED
  BY <1>1, <1>2, <1>4

\* The cards of a row are in the order of their groups, and of the file within one.
InOrder(c, s) == \A i, j \in 1..Len(s) : i < j => Cards!Before(c, s[i], s[j])

\* Concatenation has the entries of both, the first ones first.
LEMMA EntriesOfConcat ==
    ASSUME NEW S, NEW s \in Seq(S), NEW t \in Seq(S)
    PROVE  /\ s \o t \in Seq(S) /\ Len(s \o t) = Len(s) + Len(t) /\ Len(s) \in Nat /\ Len(t) \in Nat
           /\ \A i \in 1..Len(s) : (s \o t)[i] = s[i]
           /\ \A i \in Len(s) + 1..Len(s) + Len(t) : i - Len(s) \in 1..Len(t) /\ (s \o t)[i] = t[i - Len(s)]
           /\ Entries(s \o t) = Entries(s) \cup Entries(t)
<1>1. /\ s \o t \in Seq(S) /\ Len(s \o t) = Len(s) + Len(t) /\ Len(s) \in Nat /\ Len(t) \in Nat
      /\ \A i \in 1..Len(s) : (s \o t)[i] = s[i]
      /\ \A i \in Len(s) + 1..Len(s) + Len(t) : i - Len(s) \in 1..Len(t) /\ (s \o t)[i] = t[i - Len(s)]
  OBVIOUS
<1>2. Entries(s \o t) \subseteq Entries(s) \cup Entries(t)
  <2> SUFFICES ASSUME NEW i \in 1..Len(s) + Len(t) PROVE (s \o t)[i] \in Entries(s) \cup Entries(t)
    BY <1>1 DEF Entries
  <2>1. i \in 1..Len(s) \/ i \in Len(s) + 1..Len(s) + Len(t)
    BY <1>1
  <2>. QED
    BY <1>1, <2>1 DEF Entries
<1>3. \A i \in 1..Len(s) : s[i] \in Entries(s \o t)
  <2> SUFFICES ASSUME NEW i \in 1..Len(s) PROVE s[i] \in Entries(s \o t)
    OBVIOUS
  <2>1. i \in 1..Len(s \o t) /\ (s \o t)[i] = s[i]
    BY <1>1
  <2>. QED
    BY <2>1 DEF Entries
<1>4. \A i \in 1..Len(t) : t[i] \in Entries(s \o t)
  <2> SUFFICES ASSUME NEW i \in 1..Len(t) PROVE t[i] \in Entries(s \o t)
    OBVIOUS
  <2>1. Len(s) + i \in 1..Len(s \o t) /\ Len(s) + i \in Len(s) + 1..Len(s) + Len(t) /\ (Len(s) + i) - Len(s) = i
    BY <1>1
  <2>2. (s \o t)[Len(s) + i] = t[i]
    BY <1>1, <2>1
  <2>. QED
    BY <2>1, <2>2 DEF Entries
<1>5. Entries(s) \cup Entries(t) \subseteq Entries(s \o t)
  BY <1>3, <1>4 DEF Entries
<1>. QED
  BY <1>1, <1>2, <1>5

\* nodeOrder: every node once, group by group.
LEMMA OrderOfNodes ==
    ASSUME NEW c, HubFile(c)
    PROVE  /\ Cards!nodeOrder(c) \in Seq(Nat) /\ InOrder(c, Cards!nodeOrder(c))
           /\ Entries(Cards!nodeOrder(c)) = 1..Len(c.nodes)
<1> DEFINE N == Len(c.groups)
           S == Seq(Nat)
           Put(s, i) == s \o Cards!CardsOf(c, c.groups[i])
           Is(f) == f = [i \in 0..N |-> IF i = 0 THEN <<>> ELSE Put(f[i - 1], i)]
           G == [x \in S \X (1..N) |-> Put(x[1], x[2])]
<1>1. N \in Nat
  BY GroupIndexIs
<1>2. \A s \in S : \A i \in 1..N : Put(s, i) \in S /\ G[<<s, i>>] = Put(s, i)
  <2> SUFFICES ASSUME NEW s \in S, NEW i \in 1..N PROVE Put(s, i) \in S /\ G[<<s, i>>] = Put(s, i)
    OBVIOUS
  <2>1. Cards!CardsOf(c, c.groups[i]) \in S
    BY CardsOfGroup
  <2>2. Put(s, i) \in S
    BY <2>1
  <2> HIDE DEF S, Put
  <2>. QED
    BY <2>2
<1>3. StaysIn(G, S, N)
  <2>1. \A x \in S \X (1..N) : x = <<x[1], x[2]>> /\ x[1] \in S /\ x[2] \in 1..N
    OBVIOUS
  <2> HIDE DEF S, Put
  <2>. QED
    BY <1>2, <2>1 DEF StaysIn
<1>4. PICK f : Recursion(f, S, <<>>, N, G)
  <2>1. <<>> \in S
    OBVIOUS
  <2> HIDE DEF N, S, G
  <2>. QED
    BY <1>1, <1>3, <2>1, StepByStep
<1>5. Is(f)
  <2>1. \A i \in 0..N : i # 0 => i \in 1..N /\ i - 1 \in 0..N
    BY <1>1
  <2>2. \A i \in 0..N : f[i] = IF i = 0 THEN <<>> ELSE Put(f[i - 1], i)
    <3> HIDE DEF N, S, G, Put
    <3>. QED
      BY <1>2, <1>4, <2>1 DEF Recursion
  <2> HIDE DEF N, S, G, Put
  <2>. QED
    BY <1>4, <2>2 DEF Recursion
<1> DEFINE order == CHOOSE h : Is(h)
<1>6. Is(order)
  <2> HIDE DEF Is
  <2>. QED
    BY <1>5
<1>7. Cards!nodeOrder(c) = order[N]
  BY DEF Cards!nodeOrder
<1> HIDE DEF order
<1>8. order[0] = <<>> /\ \A i \in 1..N : order[i] = Put(order[i - 1], i)
  <2>1. 0 \in 0..N /\ \A i \in 1..N : i \in 0..N /\ i # 0
    BY <1>1
  <2> HIDE DEF N, Put
  <2>. QED
    BY <1>6, <2>1
<1> DEFINE At(n) == Cards!GroupIndex(c, n)
           Good(i) == /\ order[i] \in S /\ InOrder(c, order[i])
                       /\ Entries(order[i]) = {n \in DOMAIN c.nodes : At(n) <= i}
           T == {i \in 0..N : Good(i)}
<1>9. \A n \in DOMAIN c.nodes : At(n) \in 1..N /\ n \in Nat
  BY GroupIndexIs
<1>10. 0 \in T
  <2>1. 0 \in 0..N /\ {n \in DOMAIN c.nodes : At(n) <= 0} = {} /\ <<>> \in S
    BY <1>1, <1>9
  <2>2. InOrder(c, <<>>) /\ Entries(<<>>) = {}
    BY DEF InOrder, Entries
  <2>. QED
    BY <1>8, <2>1, <2>2
<1>11. ASSUME NEW i \in 1..N, i - 1 \in T PROVE i \in T
  <2> DEFINE s == order[i - 1]
             t == Cards!CardsOf(c, c.groups[i])
  <2>1. s \in S /\ InOrder(c, s) /\ Entries(s) = {n \in DOMAIN c.nodes : At(n) <= i - 1}
    BY <1>11
  <2>2. t \in S /\ Ascending(t) /\ Entries(t) = {n \in DOMAIN c.nodes : At(n) = i}
    BY CardsOfGroup, GroupIndexIs
  <2>3. order[i] = s \o t
    BY <1>8
  <2> HIDE DEF s, t, At, S
  <2>4. /\ s \o t \in S /\ Len(s \o t) = Len(s) + Len(t) /\ Len(s) \in Nat /\ Len(t) \in Nat
        /\ \A k \in 1..Len(s) : (s \o t)[k] = s[k]
        /\ \A k \in Len(s) + 1..Len(s) + Len(t) : k - Len(s) \in 1..Len(t) /\ (s \o t)[k] = t[k - Len(s)]
        /\ Entries(s \o t) = Entries(s) \cup Entries(t)
    BY <2>1, <2>2, EntriesOfConcat DEF S
  <2>5. i \in Nat /\ i \in 0..N
    BY <1>1
  <2>6. Entries(s \o t) = {n \in DOMAIN c.nodes : At(n) <= i}
    <3>1. \A n \in DOMAIN c.nodes : At(n) <= i <=> At(n) <= i - 1 \/ At(n) = i
      BY <1>9, <2>5
    <3>. QED
      BY <2>1, <2>2, <2>4, <3>1
  <2>7. InOrder(c, s \o t)
    <3> SUFFICES ASSUME NEW k \in 1..Len(s) + Len(t), NEW l \in 1..Len(s) + Len(t), k < l
                 PROVE  Cards!Before(c, (s \o t)[k], (s \o t)[l])
      BY <2>4 DEF InOrder
    <3>1. \A m \in 1..Len(s) : At(s[m]) <= i - 1 /\ s[m] \in DOMAIN c.nodes
      BY <2>1 DEF Entries
    <3>2. \A m \in 1..Len(t) : At(t[m]) = i /\ t[m] \in DOMAIN c.nodes
      BY <2>2 DEF Entries
    <3>3. CASE k \in 1..Len(s) /\ l \in 1..Len(s)
      BY <2>1, <2>4, <3>3 DEF InOrder
    <3>4. CASE k \in 1..Len(s) /\ l \in Len(s) + 1..Len(s) + Len(t)
      <4>1. (s \o t)[k] = s[k] /\ l - Len(s) \in 1..Len(t) /\ (s \o t)[l] = t[l - Len(s)]
        BY <2>4, <3>4
      <4>2. At(s[k]) <= i - 1 /\ At(t[l - Len(s)]) = i /\ At(s[k]) \in Nat
        BY <1>9, <3>1, <3>2, <3>4, <4>1
      <4>3. At(s[k]) < At(t[l - Len(s)])
        BY <2>5, <4>2
      <4>. QED
        BY <4>1, <4>3 DEF Cards!Before, At
    <3>5. CASE k \in Len(s) + 1..Len(s) + Len(t) /\ l \in Len(s) + 1..Len(s) + Len(t)
      <4>1. /\ k - Len(s) \in 1..Len(t) /\ (s \o t)[k] = t[k - Len(s)]
            /\ l - Len(s) \in 1..Len(t) /\ (s \o t)[l] = t[l - Len(s)]
        BY <2>4, <3>5
      <4>2. k - Len(s) < l - Len(s)
        BY <2>4
      <4>3. t[k - Len(s)] < t[l - Len(s)]
        BY <2>2, <4>1, <4>2 DEF Ascending
      <4>4. At(t[k - Len(s)]) = At(t[l - Len(s)])
        BY <3>2, <4>1
      <4>. QED
        BY <4>1, <4>3, <4>4 DEF Cards!Before, At
    <3>6. \/ k \in 1..Len(s) /\ l \in 1..Len(s)
          \/ k \in 1..Len(s) /\ l \in Len(s) + 1..Len(s) + Len(t)
          \/ k \in Len(s) + 1..Len(s) + Len(t) /\ l \in Len(s) + 1..Len(s) + Len(t)
      BY <2>4
    <3>. QED
      BY <3>3, <3>4, <3>5, <3>6
  <2>8. order[i] \in S /\ InOrder(c, order[i]) /\ Entries(order[i]) = {n \in DOMAIN c.nodes : At(n) <= i}
    BY <2>3, <2>4, <2>6, <2>7
  <2>. QED
    BY <2>5, <2>8
<1>12. N \in T
  <2> HIDE DEF N, T
  <2>. QED
    BY <1>1, <1>10, <1>11, UpTo
<1>13. {n \in DOMAIN c.nodes : At(n) <= N} = 1..Len(c.nodes)
  BY <1>1, <1>9, GroupIndexIs
<1>. QED
  BY <1>7, <1>12, <1>13

-----------------------------------------------------------------------------
(* The rows. *)

\* The first k cards of the order, and those of a group among them.
FirstCards(c, k) == {Cards!nodeOrder(c)[j] : j \in 1..k}
Done(c, g, k) == Cards!Members(c, g) \cap FirstCards(c, k)

\* The card that comes after k others: they are before it; a group of which some come before it and some do not
\* is its own; and it is the first of its group just when none of them is in the group.
LEMMA NextCard ==
    ASSUME NEW c, HubFile(c), NEW k \in Nat, NEW n, k < Len(Cards!nodeOrder(c)), n = Cards!nodeOrder(c)[k + 1]
    PROVE  /\ n \in DOMAIN c.nodes /\ n \in Nat /\ n \notin FirstCards(c, k)
           /\ FirstCards(c, k) \subseteq DOMAIN c.nodes
           /\ FirstCards(c, k + 1) = FirstCards(c, k) \cup {n}
           /\ \A m \in FirstCards(c, k) : Cards!Before(c, m, n)
           /\ \A g : Done(c, g, k) # {} /\ ~(Cards!Members(c, g) \subseteq FirstCards(c, k)) => g = c.nodes[n]
           /\ (\A m \in Cards!Members(c, c.nodes[n]) : n <= m) <=> Done(c, c.nodes[n], k) = {}
<1> DEFINE order == Cards!nodeOrder(c)
           At(m) == Cards!GroupIndex(c, m)
           g == c.nodes[n]
<1>1. /\ order \in Seq(Nat) /\ Entries(order) = 1..Len(c.nodes)
      /\ \A i, j \in 1..Len(order) : i < j => Cards!Before(c, order[i], order[j])
  BY OrderOfNodes DEF InOrder
<1>2. /\ DOMAIN c.nodes = 1..Len(c.nodes) /\ Len(c.nodes) \in Nat
      /\ \A m \in DOMAIN c.nodes : At(m) \in Nat /\ c.groups[At(m)] = c.nodes[m]
  BY GroupIndexIs
<1>3. /\ \A m, l \in DOMAIN c.nodes : Cards!Before(c, m, l) => At(m) <= At(l)
      /\ \A m, l \in DOMAIN c.nodes : Cards!Before(c, m, l) /\ c.nodes[m] = c.nodes[l] => m < l
      /\ \A m, l \in DOMAIN c.nodes : c.nodes[m] = c.nodes[l] => At(m) = At(l)
      /\ \A m \in DOMAIN c.nodes : ~Cards!Before(c, m, m)
  <2>1. \A m, l \in DOMAIN c.nodes : c.nodes[m] = c.nodes[l] => At(m) = At(l)
    BY DEF Cards!GroupIndex
  <2> HIDE DEF At
  <2>2. \A m, l \in DOMAIN c.nodes : Cards!Before(c, m, l) => At(m) < At(l) \/ (At(m) = At(l) /\ m < l)
    BY DEF Cards!Before, At
  <2>. QED
    BY <1>2, <2>1, <2>2
<1>4. Len(order) \in Nat /\ k + 1 \in 1..Len(order) /\ \A j \in 1..k : j \in 1..Len(order) /\ j < k + 1
  BY <1>1
<1>5. \A j \in 1..Len(order) : order[j] \in DOMAIN c.nodes /\ order[j] \in Nat
  BY <1>1, <1>2 DEF Entries
<1>6. n = order[k + 1]
  OBVIOUS
<1> HIDE DEF order, At
<1>7. n \in DOMAIN c.nodes /\ n \in Nat
  BY <1>4, <1>5, <1>6
<1>8. FirstCards(c, k) = {order[j] : j \in 1..k} /\ FirstCards(c, k + 1) = {order[j] : j \in 1..k + 1}
  BY DEF FirstCards, order
<1>9. \A m \in FirstCards(c, k) : m \in DOMAIN c.nodes /\ Cards!Before(c, m, n)
  BY <1>1, <1>4, <1>5, <1>6, <1>8
<1>10. n \notin FirstCards(c, k)
  BY <1>3, <1>7, <1>9
<1>11. FirstCards(c, k + 1) = FirstCards(c, k) \cup {n}
  <2>1. 1..k + 1 = (1..k) \cup {k + 1}
    OBVIOUS
  <2>. QED
    BY <1>6, <1>8, <2>1
<1>12. \A m \in DOMAIN c.nodes : m \in FirstCards(c, k) \/ m = n \/ Cards!Before(c, n, m)
  <2> SUFFICES ASSUME NEW m \in DOMAIN c.nodes PROVE m \in FirstCards(c, k) \/ m = n \/ Cards!Before(c, n, m)
    OBVIOUS
  <2>1. PICK j \in 1..Len(order) : order[j] = m
    BY <1>1, <1>2 DEF Entries
  <2>2. j \in 1..k \/ j = k + 1 \/ k + 1 < j
    BY <1>4, <2>1
  <2>. QED
    BY <1>1, <1>4, <1>6, <1>8, <2>1, <2>2
<1>13. ASSUME NEW h, Done(c, h, k) # {}, ~(Cards!Members(c, h) \subseteq FirstCards(c, k)) PROVE h = g
  <2>1. PICK x \in Cards!Members(c, h) : x \in FirstCards(c, k)
    BY <1>13 DEF Done
  <2>2. PICK y \in Cards!Members(c, h) : y \notin FirstCards(c, k)
    BY <1>13
  <2>3. /\ x \in DOMAIN c.nodes /\ c.nodes[x] = h
        /\ y \in DOMAIN c.nodes /\ c.nodes[y] = h
    BY <2>1, <2>2 DEF Cards!Members
  <2>4. CASE y = n
    BY <2>3, <2>4
  <2>5. CASE y # n
    <3>1. Cards!Before(c, x, n) /\ Cards!Before(c, n, y)
      BY <1>9, <1>12, <2>1, <2>2, <2>3, <2>5
    <3>2. At(x) <= At(n) /\ At(n) <= At(y) /\ At(x) = At(y)
      BY <1>3, <1>7, <2>3, <3>1
    <3>3. At(n) = At(x)
      BY <1>2, <1>7, <2>3, <3>2
    <3>. QED
      BY <1>2, <1>7, <2>3, <3>3
  <2>. QED
    BY <2>4, <2>5
<1>14. ASSUME NEW x \in Done(c, g, k), \A m \in Cards!Members(c, g) : n <= m PROVE FALSE
  <2>1. x \in DOMAIN c.nodes /\ c.nodes[x] = g /\ n <= x /\ Cards!Before(c, x, n)
    BY <1>9, <1>14 DEF Done, Cards!Members
  <2>2. x < n
    BY <1>3, <1>7, <2>1
  <2>3. x \in Nat
    BY <1>2, <2>1
  <2>. QED
    BY <1>7, <2>1, <2>2, <2>3
<1>15. ASSUME Done(c, g, k) = {}, NEW m \in Cards!Members(c, g) PROVE n <= m
  <2>1. m \in DOMAIN c.nodes /\ c.nodes[m] = g /\ m \notin FirstCards(c, k)
    BY <1>15 DEF Done, Cards!Members
  <2>2. m = n \/ n < m
    BY <1>3, <1>7, <1>12, <2>1
  <2>3. m \in Nat
    BY <1>2, <2>1
  <2>. QED
    BY <1>7, <2>2, <2>3
<1>. QED
  BY <1>7, <1>9, <1>10, <1>11, <1>13, <1>14, <1>15

\* PlaceCard appends the card to a row s, a new one or the last one; the other rows stay.
Placed(new, grid, n, s) ==
    /\ new \in Seq(Seq(Nat)) /\ s \in Seq(Nat) /\ Len(new) \in Nat \ {0}
    /\ \A r \in 1..Len(new) - 1 : r \in 1..Len(grid) /\ new[r] = grid[r]
    /\ new[Len(new)] = Append(s, n)
    /\ \/ Len(new) = Len(grid) + 1 /\ s = <<>>
       \/ Len(new) = Len(grid) /\ s = grid[Len(grid)]

\* PlaceCard is a placement in a row, a new one just when BeginsRow says so.
LEMMA PlaceCardPuts ==
    ASSUME NEW c, NEW grid \in Seq(Seq(Nat)), NEW n \in Nat, NEW W
    PROVE  LET new == Cards!PlaceCard(c, grid, n, W) IN
           IF Cards!BeginsRow(c, grid, n, W) THEN Len(new) = Len(grid) + 1 /\ Placed(new, grid, n, <<>>)
           ELSE grid # <<>> /\ Len(new) = Len(grid) /\ Placed(new, grid, n, grid[Len(grid)])
<1> DEFINE new == Cards!PlaceCard(c, grid, n, W)
           last == Len(grid)
<1>1. ASSUME Cards!BeginsRow(c, grid, n, W) PROVE Len(new) = Len(grid) + 1 /\ Placed(new, grid, n, <<>>)
  <2>1. new = Append(grid, <<n>>)
    BY <1>1 DEF Cards!PlaceCard
  <2>2. <<n>> = Append(<<>>, n) /\ <<n>> \in Seq(Nat) /\ <<>> \in Seq(Nat)
    OBVIOUS
  <2>3. /\ new \in Seq(Seq(Nat)) /\ Len(new) = Len(grid) + 1 /\ new[Len(grid) + 1] = <<n>>
        /\ \A r \in 1..Len(grid) : new[r] = grid[r]
    BY <2>1, <2>2
  <2>4. Len(grid) \in Nat
    OBVIOUS
  <2> HIDE DEF new
  <2>5. Placed(new, grid, n, <<>>)
    BY <2>2, <2>3, <2>4 DEF Placed
  <2>. QED
    BY <2>3, <2>5
<1>2. ASSUME ~Cards!BeginsRow(c, grid, n, W)
      PROVE  grid # <<>> /\ Len(new) = Len(grid) /\ Placed(new, grid, n, grid[Len(grid)])
  <2>1. grid # <<>> /\ last \in Nat \ {0}
    BY <1>2 DEF Cards!BeginsRow
  <2>2. grid[last] \in Seq(Nat) /\ Append(grid[last], n) \in Seq(Nat)
    BY <2>1
  <2>3. new = [grid EXCEPT ![last] = Append(grid[last], n)]
    BY <1>2 DEF Cards!PlaceCard
  <2>4. /\ new \in Seq(Seq(Nat)) /\ Len(new) = last /\ new[last] = Append(grid[last], n)
        /\ \A r \in 1..last - 1 : r \in 1..last /\ new[r] = grid[r]
    BY <2>1, <2>2, <2>3
  <2> HIDE DEF new, last
  <2>5. Placed(new, grid, n, grid[last])
    BY <2>1, <2>2, <2>4 DEF Placed, last
  <2>. QED
    BY <2>1, <2>4, <2>5 DEF last
<1>. QED
  BY <1>1, <1>2

\* The rows hold these cards and no others, in order, no row is empty, and none is wider than the screen.
Holds(c, grid, A, W) ==
    /\ grid \in Seq(Seq(Nat))
    /\ \A r \in 1..Len(grid) : Len(grid[r]) \in 1..W /\ Entries(grid[r]) \subseteq A /\ InOrder(c, grid[r])
    /\ \A a \in A : \E r \in 1..Len(grid) : a \in Entries(grid[r])
    /\ \A r, s \in 1..Len(grid) : r < s =>
          \A x \in Entries(grid[r]), y \in Entries(grid[s]) : Cards!Before(c, x, y)

\* Placing a card that comes after all others, in a row with room for it, keeps Holds.
LEMMA HoldsNext ==
    ASSUME NEW c, NEW grid, NEW A, NEW W \in Nat \ {0}, Holds(c, grid, A, W), NEW n \in Nat, NEW new, NEW s,
           Placed(new, grid, n, s), Len(s) < W, \A a \in A : Cards!Before(c, a, n)
    PROVE  Holds(c, new, A \cup {n}, W)
<1> DEFINE last == Len(new)
<1>1. /\ new \in Seq(Seq(Nat)) /\ s \in Seq(Nat) /\ last \in Nat \ {0}
      /\ \A r \in 1..last - 1 : r \in 1..Len(grid) /\ new[r] = grid[r]
      /\ new[last] = Append(s, n)
      /\ (last = Len(grid) + 1 /\ s = <<>>) \/ (last = Len(grid) /\ s = grid[Len(grid)])
  BY DEF Placed
<1>2. /\ grid \in Seq(Seq(Nat)) /\ Len(grid) \in Nat
      /\ \A r \in 1..Len(grid) : Len(grid[r]) \in 1..W /\ Entries(grid[r]) \subseteq A /\ InOrder(c, grid[r])
      /\ \A a \in A : \E r \in 1..Len(grid) : a \in Entries(grid[r])
      /\ \A q, r \in 1..Len(grid) : q < r =>
            \A x \in Entries(grid[q]), y \in Entries(grid[r]) : Cards!Before(c, x, y)
  BY DEF Holds
<1> HIDE DEF last
<1>3. Entries(s) \subseteq A /\ InOrder(c, s)
  <2>1. CASE s = <<>>
    BY <2>1 DEF Entries, InOrder
  <2>2. CASE last = Len(grid) /\ s = grid[Len(grid)]
    <3>1. Len(grid) \in 1..Len(grid)
      BY <1>1, <1>2, <2>2
    <3>. QED
      BY <1>2, <2>2, <3>1
  <2>. QED
    BY <1>1, <2>1, <2>2
<1>4. /\ Len(new[last]) = Len(s) + 1 /\ Len(s) \in Nat /\ Entries(new[last]) = Entries(s) \cup {n}
      /\ \A i \in 1..Len(s) : new[last][i] = s[i]
      /\ new[last][Len(s) + 1] = n
  BY <1>1, EntriesOfAppend, SMTT(30)
<1>5. InOrder(c, new[last])
  <2> SUFFICES ASSUME NEW i \in 1..Len(s) + 1, NEW j \in 1..Len(s) + 1, i < j
               PROVE  Cards!Before(c, new[last][i], new[last][j])
    BY <1>4 DEF InOrder
  <2>1. i \in 1..Len(s) /\ new[last][i] = s[i] /\ s[i] \in A
    BY <1>3, <1>4 DEF Entries
  <2>2. CASE j \in 1..Len(s)
    BY <1>3, <1>4, <2>1, <2>2 DEF InOrder
  <2>3. CASE j = Len(s) + 1
    BY <1>4, <2>1, <2>3
  <2>. QED
    BY <1>4, <2>2, <2>3
<1>6. ASSUME NEW r \in 1..last
      PROVE  Len(new[r]) \in 1..W /\ Entries(new[r]) \subseteq A \cup {n} /\ InOrder(c, new[r])
  <2>1. CASE r = last
    BY <1>3, <1>4, <1>5, <2>1
  <2>2. CASE r # last
    <3>1. r \in 1..last - 1
      BY <1>1, <2>2
    <3>. QED
      BY <1>1, <1>2, <3>1
  <2>. QED
    BY <2>1, <2>2
<1>7. ASSUME NEW a \in A \cup {n} PROVE \E r \in 1..last : a \in Entries(new[r])
  <2>1. last \in 1..last
    BY <1>1
  <2>2. CASE a = n
    BY <1>4, <2>1, <2>2
  <2>3. CASE a \in A
    <3>1. PICK r \in 1..Len(grid) : a \in Entries(grid[r])
      BY <1>2, <2>3
    <3>2. CASE r \in 1..last - 1
      BY <1>1, <3>1, <3>2
    <3>3. CASE r = last
      <4>1. s = grid[last]
        BY <1>1, <1>2, <3>3
      <4>. QED
        BY <1>4, <2>1, <3>1, <3>3, <4>1
    <3>4. r \in 1..last
      BY <1>1, <1>2, SMTT(30)
    <3>. QED
      BY <1>1, <3>2, <3>3, <3>4
  <2>. QED
    BY <2>2, <2>3
<1>8. ASSUME NEW q \in 1..last, NEW r \in 1..last, q < r, NEW x \in Entries(new[q]), NEW y \in Entries(new[r])
      PROVE  Cards!Before(c, x, y)
  <2>1. q \in 1..last - 1 /\ q \in 1..Len(grid) /\ x \in Entries(grid[q]) /\ x \in A
    <3>1. q \in 1..last - 1
      BY <1>1, <1>8
    <3>. QED
      BY <1>1, <1>2, <1>8, <3>1
  <2>2. CASE y = n
    BY <2>1, <2>2
  <2>3. CASE r \in 1..last - 1
    BY <1>1, <1>2, <1>8, <2>1, <2>3
  <2>4. CASE r = last /\ y # n
    <3>1. y \in Entries(s)
      BY <1>4, <1>8, <2>4
    <3>2. s # <<>>
      BY <3>1 DEF Entries
    <3>3. r \in 1..Len(grid) /\ y \in Entries(grid[r])
      BY <1>1, <1>2, <2>4, <3>1, <3>2
    <3>. QED
      BY <1>2, <1>8, <2>1, <3>3
  <2>. QED
    BY <1>1, <2>2, <2>3, <2>4
<1>. QED
  BY <1>1, <1>6, <1>7, <1>8 DEF Holds, last

\* A group that fits into a row: what is placed of it is in one row; if some is not placed yet, in the last one,
\* and the rest fits into that.
Size(c, g) == Cardinality(Cards!Members(c, g))
Roomy(c, grid, k, W) ==
    \A g : Size(c, g) <= W /\ Done(c, g, k) # {} =>
        \E r \in 1..Len(grid) :
            /\ Done(c, g, k) \subseteq Entries(grid[r])
            /\ Cardinality(Done(c, g, k)) < Size(c, g) =>
                  r = Len(grid) /\ Len(grid[r]) + Size(c, g) - Cardinality(Done(c, g, k)) <= W

\* A group is finite, and at least as large as what is placed of it.
LEMMA GroupSizes ==
    ASSUME NEW c, HubFile(c), NEW g, NEW k
    PROVE  /\ IsFiniteSet(Done(c, g, k)) /\ Cardinality(Done(c, g, k)) \in Nat /\ Size(c, g) \in Nat
           /\ Cardinality(Done(c, g, k)) <= Size(c, g)
           /\ Cardinality(Done(c, g, k)) = Size(c, g) <=> Cards!Members(c, g) \subseteq FirstCards(c, k)
           /\ Done(c, g, k) = {} <=> Cardinality(Done(c, g, k)) = 0
<1>1. IsFiniteSet(1..Len(c.nodes)) /\ Cards!Members(c, g) \in SUBSET (1..Len(c.nodes))
  BY GroupIndexIs, FS_Interval DEF Cards!Members
<1>2. IsFiniteSet(Cards!Members(c, g))
  BY <1>1, FS_Subset
<1>3. Done(c, g, k) \in SUBSET Cards!Members(c, g)
  BY DEF Done
<1>4. /\ IsFiniteSet(Done(c, g, k)) /\ Cardinality(Done(c, g, k)) <= Cardinality(Cards!Members(c, g))
      /\ Cardinality(Cards!Members(c, g)) = Cardinality(Done(c, g, k)) => Cards!Members(c, g) = Done(c, g, k)
  BY <1>2, <1>3, FS_Subset
<1>5. Cards!Members(c, g) = Done(c, g, k) <=> Cards!Members(c, g) \subseteq FirstCards(c, k)
  BY DEF Done
<1>6. Cardinality(Done(c, g, k)) \in Nat /\ Cardinality(Cards!Members(c, g)) \in Nat
  BY <1>2, <1>4, FS_CardinalityType
<1>7. Done(c, g, k) = {} <=> Cardinality(Done(c, g, k)) = 0
  BY <1>4, FS_EmptySet
<1>8. Size(c, g) = Cardinality(Cards!Members(c, g))
  BY DEF Size
<1>. QED
  BY <1>4, <1>5, <1>6, <1>7, <1>8

\* What is in a row stays there.
Grown(new, grid, n, s) ==
    /\ \A r \in 1..Len(grid) : r \in 1..Len(new) /\ Entries(grid[r]) \subseteq Entries(new[r])
    /\ Len(new) \in 1..Len(new) /\ Entries(new[Len(new)]) = Entries(s) \cup {n}
    /\ Len(new[Len(new)]) = Len(s) + 1 /\ Len(s) \in Nat

\* A placement only adds to the rows.
LEMMA RowsGrow ==
    ASSUME NEW new, NEW grid, NEW n \in Nat, NEW s, Placed(new, grid, n, s), Len(grid) \in Nat
    PROVE  Grown(new, grid, n, s)
<1>1. /\ s \in Seq(Nat) /\ Len(new) \in Nat \ {0}
      /\ \A r \in 1..Len(new) - 1 : r \in 1..Len(grid) /\ new[r] = grid[r]
      /\ new[Len(new)] = Append(s, n)
      /\ (Len(new) = Len(grid) + 1 /\ s = <<>>) \/ (Len(new) = Len(grid) /\ s = grid[Len(grid)])
  BY DEF Placed
<1>2. /\ Len(new[Len(new)]) = Len(s) + 1 /\ Len(s) \in Nat
      /\ Entries(new[Len(new)]) = Entries(s) \cup {n}
  <2>1. Len(Append(s, n)) = Len(s) + 1 /\ Entries(Append(s, n)) = Entries(s) \cup {n}
    BY <1>1, EntriesOfAppend
  <2>2. Len(s) \in Nat
    BY <1>1
  <2>. QED
    BY <1>1, <2>1, <2>2
<1>3. ASSUME NEW r \in 1..Len(grid) PROVE r \in 1..Len(new) /\ Entries(grid[r]) \subseteq Entries(new[r])
  <2>1. r \in 1..Len(new) /\ (r \in 1..Len(new) - 1 \/ (r = Len(grid) /\ Len(new) = Len(grid)))
    BY <1>1
  <2>2. CASE r \in 1..Len(new) - 1
    BY <1>1, <2>1, <2>2
  <2>3. CASE r = Len(grid) /\ Len(new) = Len(grid)
    <3>1. s = grid[r]
      BY <1>1, <2>3
    <3>. QED
      BY <1>2, <2>1, <2>3, <3>1
  <2>. QED
    BY <2>1, <2>2, <2>3
<1>4. Len(new) \in 1..Len(new)
  BY <1>1
<1>. QED
  BY <1>2, <1>3, <1>4 DEF Grown

\* When a card is placed, its row has room for it, and a group that fits into a row stays in one.
LEMMA RoomyNext ==
    ASSUME NEW c, HubFile(c), NEW k \in Nat, NEW n, k < Len(Cards!nodeOrder(c)), n = Cards!nodeOrder(c)[k + 1],
           NEW grid, NEW W \in Nat \ {0}, Holds(c, grid, FirstCards(c, k), W), Roomy(c, grid, k, W)
    PROVE  LET new == Cards!PlaceCard(c, grid, n, W) IN
           Roomy(c, new, k + 1, W) /\ \E s : Len(s) < W /\ Placed(new, grid, n, s)
<1> DEFINE new == Cards!PlaceCard(c, grid, n, W)
           own == c.nodes[n]
           begins == Cards!BeginsRow(c, grid, n, W)
           s == IF begins THEN <<>> ELSE grid[Len(grid)]
<1>1. /\ n \in DOMAIN c.nodes /\ n \in Nat /\ n \notin FirstCards(c, k)
      /\ FirstCards(c, k + 1) = FirstCards(c, k) \cup {n}
      /\ \A g : Done(c, g, k) # {} /\ ~(Cards!Members(c, g) \subseteq FirstCards(c, k)) => g = own
      /\ (\A m \in Cards!Members(c, own) : n <= m) <=> Done(c, own, k) = {}
  BY NextCard
<1>2. /\ grid \in Seq(Seq(Nat)) /\ Len(grid) \in Nat
      /\ \A r \in 1..Len(grid) : Len(grid[r]) \in 1..W
  BY DEF Holds
<1>3. /\ Placed(new, grid, n, s)
      /\ begins => Len(new) = Len(grid) + 1
      /\ ~begins => grid # <<>> /\ Len(new) = Len(grid)
  BY <1>1, <1>2, PlaceCardPuts
<1> HIDE DEF new, s
<1>4. /\ \A r \in 1..Len(grid) : r \in 1..Len(new) /\ Entries(grid[r]) \subseteq Entries(new[r])
      /\ Len(new) \in 1..Len(new) /\ Entries(new[Len(new)]) = Entries(s) \cup {n}
      /\ Len(new[Len(new)]) = Len(s) + 1 /\ Len(s) \in Nat
  <2>1. n \in Nat /\ Len(grid) \in Nat /\ Placed(new, grid, n, s)
    BY <1>1, <1>2, <1>3
  <2>2. Grown(new, grid, n, s)
    BY <2>1, RowsGrow
  <2>. QED
    BY <2>2 DEF Grown
<1>5. begins <=> \/ grid = <<>>
                 \/ Len(grid[Len(grid)]) = W
                 \/ Done(c, own, k) = {} /\ Size(c, own) <= W /\ Size(c, own) > W - Len(grid[Len(grid)])
  <2>1. Cards!Cardinality(Cards!Members(c, own)) = Size(c, own)
    BY Zenon DEF Cards!Cardinality, Cardinality, Size
  <2>. QED
    BY <1>1, <2>1 DEF Cards!BeginsRow
<1> HIDE DEF begins
<1>6. Len(s) < W
  <2>1. CASE begins
    BY <2>1 DEF s
  <2>2. CASE ~begins
    <3>1. Len(grid) \in 1..Len(grid)
      BY <1>2, <1>3, <2>2
    <3>2. Len(grid[Len(grid)]) \in 1..W /\ Len(grid[Len(grid)]) # W
      BY <1>2, <1>5, <2>2, <3>1
    <3>. QED
      BY <2>2, <3>2 DEF s
  <2>. QED
    BY <2>1, <2>2
<1>7. ASSUME NEW g, Size(c, g) <= W, Done(c, g, k + 1) # {}
      PROVE  \E r \in 1..Len(new) :
                /\ Done(c, g, k + 1) \subseteq Entries(new[r])
                /\ Cardinality(Done(c, g, k + 1)) < Size(c, g) =>
                      r = Len(new) /\ Len(new[r]) + Size(c, g) - Cardinality(Done(c, g, k + 1)) <= W
  <2>1. /\ IsFiniteSet(Done(c, g, k)) /\ Cardinality(Done(c, g, k)) \in Nat /\ Size(c, g) \in Nat
        /\ Cardinality(Done(c, g, k)) <= Size(c, g)
        /\ Cardinality(Done(c, g, k)) = Size(c, g) <=> Cards!Members(c, g) \subseteq FirstCards(c, k)
        /\ Done(c, g, k) = {} <=> Cardinality(Done(c, g, k)) = 0
    BY GroupSizes
  <2>2. CASE g # own
    <3>1. n \notin Cards!Members(c, g)
      BY <2>2 DEF Cards!Members
    <3>2. Done(c, g, k + 1) = Done(c, g, k)
      BY <1>1, <3>1 DEF Done
    <3>3. Cardinality(Done(c, g, k)) = Size(c, g)
      BY <1>1, <1>7, <2>1, <2>2, <3>2
    <3>4. PICK r \in 1..Len(grid) : Done(c, g, k) \subseteq Entries(grid[r])
      BY <1>7, <3>2 DEF Roomy
    <3>5. r \in 1..Len(new) /\ Done(c, g, k + 1) \subseteq Entries(new[r])
      BY <1>4, <3>2, <3>4
    <3>. QED
      BY <2>1, <3>2, <3>3, <3>5
  <2>3. CASE g = own
    <3>1. Done(c, g, k + 1) = Done(c, g, k) \cup {n} /\ n \notin Done(c, g, k)
      BY <1>1, <2>3 DEF Done, Cards!Members
    <3>2. Cardinality(Done(c, g, k + 1)) = Cardinality(Done(c, g, k)) + 1
      BY <2>1, <3>1, FS_AddElement
    <3>3. Done(c, g, k) \subseteq Entries(s) /\ Len(s) + Size(c, g) - Cardinality(Done(c, g, k)) <= W
      <4>1. CASE Done(c, g, k) = {} /\ begins
        <5>1. Len(s) = 0
          BY <4>1 DEF s
        <5>. QED
          BY <1>7, <2>1, <4>1, <5>1
      <4>2. CASE Done(c, g, k) = {} /\ ~begins
        <5>1. s = grid[Len(grid)]
          BY <4>2 DEF s
        <5>2. ~(Size(c, g) > W - Len(s))
          BY <1>5, <1>7, <2>3, <4>2, <5>1
        <5>. QED
          BY <1>4, <2>1, <4>2, <5>2
      <4>3. CASE Done(c, g, k) # {}
        <5>1. ~(Cards!Members(c, g) \subseteq FirstCards(c, k))
          BY <1>1, <2>3 DEF Cards!Members
        <5>2. Cardinality(Done(c, g, k)) < Size(c, g)
          BY <2>1, <5>1
        <5>3. /\ Len(grid) \in 1..Len(grid) /\ Done(c, g, k) \subseteq Entries(grid[Len(grid)])
              /\ Len(grid[Len(grid)]) + Size(c, g) - Cardinality(Done(c, g, k)) <= W
          BY <1>7, <4>3, <5>2 DEF Roomy
        <5>4. grid # <<>> /\ Len(grid[Len(grid)]) \in Nat
          BY <1>2, <5>3
        <5>5. Len(grid[Len(grid)]) # W
          BY <2>1, <5>2, <5>3, <5>4
        <5>6. ~begins
          BY <1>5, <2>3, <4>3, <5>4, <5>5
        <5>7. s = grid[Len(grid)]
          BY <5>6 DEF s
        <5>. QED
          BY <5>3, <5>7
      <4>. QED
        BY <4>1, <4>2, <4>3
    <3>4. Done(c, g, k + 1) \subseteq Entries(new[Len(new)])
      BY <1>4, <3>1, <3>3
    <3>5. Len(new[Len(new)]) + Size(c, g) - Cardinality(Done(c, g, k + 1)) <= W
      BY <1>4, <2>1, <3>2, <3>3
    <3>. QED
      BY <1>4, <3>4, <3>5
  <2>. QED
    BY <2>2, <2>3
<1>8. Roomy(c, new, k + 1, W)
  BY <1>7 DEF Roomy
<1>. QED
  BY <1>3, <1>6, <1>8 DEF new

\* The rows of all cards; a group that fits into a row is in one.
Whole(c, grid, W) ==
    /\ Holds(c, grid, DOMAIN c.nodes, W)
    /\ \A g : Size(c, g) <= W /\ Cards!Members(c, g) # {} =>
          \E r \in 1..Len(grid) : Cards!Members(c, g) \subseteq Entries(grid[r])

\* pages: the rows hold all cards, in order, and a group that fits into a row is in one.
LEMMA GridIsWhole ==
    ASSUME NEW c, HubFile(c), NEW W \in Nat \ {0}
    PROVE  Whole(c, Cards!Grid(c, W), W)
<1> DEFINE order == Cards!nodeOrder(c)
           N == Len(order)
           S == Seq(Seq(Nat))
           Put(s, k) == Cards!PlaceCard(c, s, order[k], W)
           Is(f) == f = [k \in 0..N |-> IF k = 0 THEN <<>> ELSE Put(f[k - 1], k)]
           G == [x \in S \X (1..N) |-> Put(x[1], x[2])]
<1>1. order \in Seq(Nat) /\ N \in Nat /\ Entries(order) = DOMAIN c.nodes
  BY OrderOfNodes, GroupIndexIs
<1>2. \A s \in S : \A k \in 1..N : Put(s, k) \in S /\ G[<<s, k>>] = Put(s, k)
  <2> SUFFICES ASSUME NEW s \in S, NEW k \in 1..N PROVE Put(s, k) \in S /\ G[<<s, k>>] = Put(s, k)
    OBVIOUS
  <2>1. order[k] \in Nat
    BY <1>1
  <2>2. Put(s, k) \in S
    BY <2>1, PlaceCardPuts DEF Placed
  <2> HIDE DEF S, Put, N
  <2>. QED
    BY <2>2
<1>3. StaysIn(G, S, N)
  <2>1. \A x \in S \X (1..N) : x = <<x[1], x[2]>> /\ x[1] \in S /\ x[2] \in 1..N
    OBVIOUS
  <2> HIDE DEF S, Put, N
  <2>. QED
    BY <1>2, <2>1 DEF StaysIn
<1>4. PICK f : Recursion(f, S, <<>>, N, G)
  <2>1. <<>> \in S
    OBVIOUS
  <2> HIDE DEF N, S, G
  <2>. QED
    BY <1>1, <1>3, <2>1, StepByStep
<1>5. Is(f)
  <2>1. \A k \in 0..N : k # 0 => k \in 1..N /\ k - 1 \in 0..N
    BY <1>1
  <2>2. \A k \in 0..N : f[k] = IF k = 0 THEN <<>> ELSE Put(f[k - 1], k)
    <3> HIDE DEF N, S, G, Put
    <3>. QED
      BY <1>2, <1>4, <2>1 DEF Recursion
  <2> HIDE DEF N, S, G, Put
  <2>. QED
    BY <1>4, <2>2 DEF Recursion
<1> DEFINE grid == CHOOSE h : Is(h)
<1>6. Is(grid)
  <2> HIDE DEF Is
  <2>. QED
    BY <1>5
<1>7. Cards!Grid(c, W) = grid[N]
  BY DEF Cards!Grid
<1> HIDE DEF grid
<1>8. grid[0] = <<>> /\ \A k \in 1..N : grid[k] = Put(grid[k - 1], k)
  <2>1. 0 \in 0..N /\ \A k \in 1..N : k \in 0..N /\ k # 0
    BY <1>1
  <2> HIDE DEF N, Put
  <2>. QED
    BY <1>6, <2>1
<1> DEFINE Good(k) == Holds(c, grid[k], FirstCards(c, k), W) /\ Roomy(c, grid[k], k, W)
           T == {k \in 0..N : Good(k)}
<1>9. 0 \in T
  <2>1. FirstCards(c, 0) = {} /\ \A g : Done(c, g, 0) = {}
    BY DEF FirstCards, Done
  <2>2. Holds(c, <<>>, {}, W)
    BY DEF Holds
  <2>3. Roomy(c, <<>>, 0, W)
    BY <2>1 DEF Roomy
  <2>4. 0 \in 0..N
    BY <1>1
  <2>5. Good(0)
    BY <1>8, <2>1, <2>2, <2>3
  <2> HIDE DEF N, Good
  <2>. QED
    BY <2>4, <2>5
<1>10. ASSUME NEW k \in 1..N, k - 1 \in T PROVE k \in T
  <2> DEFINE m == k - 1
             n == order[k]
             before == grid[m]
             new == Cards!PlaceCard(c, before, n, W)
  <2>1. m \in Nat /\ m < N /\ m + 1 = k /\ k \in 0..N
    BY <1>1
  <2>2. Holds(c, before, FirstCards(c, m), W) /\ Roomy(c, before, m, W)
    BY <1>10
  <2>3. grid[k] = new
    BY <1>8
  <2> HIDE DEF m, before
  <2>4. m < Len(Cards!nodeOrder(c)) /\ n = Cards!nodeOrder(c)[m + 1]
    BY <2>1
  <2>5. n \in Nat /\ FirstCards(c, k) = FirstCards(c, m) \cup {n} /\ \A a \in FirstCards(c, m) : Cards!Before(c, a, n)
    <3> HIDE DEF n
    <3>. QED
      BY <2>1, <2>4, NextCard
  <2> HIDE DEF n
  <2>6. Roomy(c, new, k, W) /\ \E s : Len(s) < W /\ Placed(new, before, n, s)
    BY <2>1, <2>2, <2>4, RoomyNext
  <2>7. PICK s : Len(s) < W /\ Placed(new, before, n, s)
    BY <2>6
  <2> HIDE DEF new
  <2>8. Holds(c, new, FirstCards(c, k), W)
    BY <2>2, <2>5, <2>7, HoldsNext
  <2>. QED
    BY <2>1, <2>3, <2>6, <2>8
<1>11. N \in T
  <2> HIDE DEF N, T
  <2>. QED
    BY <1>1, <1>9, <1>10, UpTo
<1>12. FirstCards(c, N) = DOMAIN c.nodes
  BY <1>1 DEF FirstCards, Entries
<1>13. ASSUME NEW g, Size(c, g) <= W, Cards!Members(c, g) # {}
       PROVE  \E r \in 1..Len(grid[N]) : Cards!Members(c, g) \subseteq Entries(grid[N][r])
  <2>1. Done(c, g, N) = Cards!Members(c, g)
    BY <1>12 DEF Done, Cards!Members
  <2>. QED
    BY <1>11, <1>13, <2>1 DEF Roomy
<1>14. Whole(c, grid[N], W)
  BY <1>11, <1>12, <1>13 DEF Whole
<1>. QED
  BY <1>7, <1>14

-----------------------------------------------------------------------------
(* The pages. *)

\* Pages: their rows, and how high they are.
Sheets == [rows : Seq(Seq(Nat)), height : Nat]

\* A page has room for a row with its heading, whatever the height of the terminal.
LEMMA BudgetIs == \A height \in Int : Cards!heightBudget(height) \in Int /\ Cards!heightBudget(height) >= 8
  BY DEF Cards!heightBudget, Cards!Greater, Cards!hubCardHeight

\* A row has room for a card, whatever the width of the terminal.
LEMMA ColumnsAre == \A width \in Int : Cards!columns(width) \in Nat \ {0}
<1> SUFFICES ASSUME NEW width \in Int PROVE Cards!columns(width) \in Nat \ {0}
  OBVIOUS
<1> DEFINE w == Cards!Greater(36, width)
           preferred == Cards!Greater(1, (w + 1 + 47 \div 2) \div 47)
           most == Cards!Greater(1, (w + 1) \div 37)
<1>1. w \in Int
  BY DEF Cards!Greater
<1>2. Cards!columns(width) = Cards!Lesser(preferred, most)
  BY DEF Cards!columns, Cards!hubPreferredCardWidth, Cards!hubMinimumCardWidth
<1> HIDE DEF w
<1>3. (w + 1 + 47 \div 2) \div 47 \in Int /\ (w + 1) \div 37 \in Int
  BY <1>1
<1>4. preferred \in Nat \ {0} /\ most \in Nat \ {0}
  BY <1>3 DEF Cards!Greater
<1> HIDE DEF preferred, most
<1>. QED
  BY <1>2, <1>4 DEF Cards!Lesser

\* The line that a row has above it on a page with these rows.
Headed(c, rows, row) ==
    \/ rows = <<>>
    \/ Cards!GroupsOf(c, row) # Cards!GroupsOf(c, rows[Len(rows)])
    \/ Cards!Cardinality(Cards!GroupsOf(c, row)) > 1
Lines(c, rows, row) == 7 + (IF Headed(c, rows, row) THEN 1 ELSE 0)

\* A row adds its card height to a page, and a line if it has a heading.
LEMMA HeightOfAppend ==
    ASSUME NEW c, NEW rows \in Seq(Seq(Nat)), NEW row \in Seq(Nat)
    PROVE  /\ Cards!DrawnHeight(c, rows) \in Nat
           /\ Cards!DrawnHeight(c, Append(rows, row)) = Cards!DrawnHeight(c, rows) + Lines(c, rows, row)
<1> DEFINE Under(s, r) == \/ r = 1
                          \/ Cards!GroupsOf(c, s[r]) # Cards!GroupsOf(c, s[r - 1])
                          \/ Cards!Cardinality(Cards!GroupsOf(c, s[r])) > 1
           Heads(s) == {r \in DOMAIN s : Under(s, r)}
           new == Append(rows, row)
           last == Len(rows) + 1
<1>1. \A s : Cards!DrawnHeight(c, s) = 7 * Len(s) + Cardinality(Heads(s))
  <2> SUFFICES ASSUME NEW s PROVE Cards!DrawnHeight(c, s) = 7 * Len(s) + Cardinality(Heads(s))
    OBVIOUS
  <2>1. Cards!Cardinality(Heads(s)) = Cardinality(Heads(s))
    BY Zenon DEF Cards!Cardinality, Cardinality
  <2>2. Cards!DrawnHeight(c, s) = 7 * Len(s) + Cards!Cardinality(Heads(s))
    BY DEF Cards!DrawnHeight, Cards!hubCardHeight
  <2>. QED
    BY <2>1, <2>2
<1>2. /\ new \in Seq(Seq(Nat)) /\ Len(new) = last /\ Len(rows) \in Nat
      /\ DOMAIN rows = 1..Len(rows) /\ DOMAIN new = 1..last
      /\ \A r \in 1..Len(rows) : new[r] = rows[r]
      /\ new[last] = row
  OBVIOUS
<1> HIDE DEF new, last
<1>3. \A r \in 1..Len(rows) : Under(new, r) <=> Under(rows, r)
  <2> SUFFICES ASSUME NEW r \in 1..Len(rows) PROVE Under(new, r) <=> Under(rows, r)
    OBVIOUS
  <2>1. r = 1 \/ r - 1 \in 1..Len(rows)
    BY <1>2
  <2>. QED
    BY <1>2, <2>1
<1>4. Under(new, last) <=> Headed(c, rows, row)
  <2>1. last = Len(rows) + 1 /\ last - 1 = Len(rows)
    BY <1>2 DEF last
  <2>2. rows = <<>> <=> last = 1
    BY <1>2, <2>1
  <2>3. rows # <<>> => Len(rows) \in 1..Len(rows)
    BY <1>2
  <2>. QED
    BY <1>2, <2>1, <2>2, <2>3 DEF Headed
<1> HIDE DEF Under
<1>5. Heads(new) = Heads(rows) \cup (IF Headed(c, rows, row) THEN {last} ELSE {})
  <2>1. 1..last = (1..Len(rows)) \cup {last}
    BY <1>2 DEF last
  <2>. QED
    BY <1>2, <1>3, <1>4, <2>1
<1>6. IsFiniteSet(Heads(rows)) /\ last \notin Heads(rows)
  <2>1. IsFiniteSet(1..Len(rows)) /\ Heads(rows) \in SUBSET (1..Len(rows))
    BY <1>2, FS_Interval
  <2>2. last \notin 1..Len(rows)
    BY <1>2 DEF last
  <2> HIDE DEF Heads
  <2>. QED
    BY <2>1, <2>2, FS_Subset
<1> HIDE DEF Heads
<1>7. Cardinality(Heads(rows)) \in Nat
  BY <1>6, FS_CardinalityType
<1>8. Cardinality(Heads(new)) = Cardinality(Heads(rows)) + (IF Headed(c, rows, row) THEN 1 ELSE 0)
  <2>1. CASE Headed(c, rows, row)
    <3>1. Heads(new) = Heads(rows) \cup {last}
      BY <1>5, <2>1
    <3>. QED
      BY <1>6, <2>1, <3>1, FS_AddElement
  <2>2. CASE ~Headed(c, rows, row)
    <3>1. Heads(new) = Heads(rows)
      BY <1>5, <2>2
    <3>. QED
      BY <1>7, <2>2, <3>1
  <2>. QED
    BY <2>1, <2>2
<1>9. 7 * Len(new) = 7 * Len(rows) + 7
  BY <1>2 DEF last
<1>10. 7 * Len(rows) \in Nat
  BY <1>2
<1>11. Cards!DrawnHeight(c, new) = Cards!DrawnHeight(c, rows) + Lines(c, rows, row)
  BY <1>1, <1>7, <1>8, <1>9, <1>10 DEF Lines
<1>12. Cards!DrawnHeight(c, rows) \in Nat
  BY <1>1, <1>7, <1>10
<1>. QED
  BY <1>11, <1>12 DEF new

\* A page without rows has no height.
LEMMA NoRowsNoHeight == \A c : Cards!DrawnHeight(c, <<>>) = 0
<1> SUFFICES ASSUME NEW c PROVE Cards!DrawnHeight(c, <<>>) = 0
  OBVIOUS
<1>1. Cards!Cardinality({}) = Cardinality({}) /\ Cardinality({}) = 0
  BY Zenon, FS_EmptySet DEF Cards!Cardinality, Cardinality
<1>2. Len(<<>>) = 0 /\ DOMAIN <<>> = {}
  OBVIOUS
<1>. QED
  BY <1>1, <1>2 DEF Cards!DrawnHeight, Cards!hubCardHeight

\* PlaceRow puts the row on a page, a new one or the last one; the other pages stay.
PutOn(new, laid, row, sheet) ==
    /\ new \in Seq(Sheets) /\ sheet \in Sheets /\ Len(new) \in Nat \ {0}
    /\ \A p \in 1..Len(new) - 1 : p \in 1..Len(laid) /\ new[p] = laid[p]
    /\ new[Len(new)].rows = Append(sheet.rows, row)
    /\ \/ Len(new) = Len(laid) + 1 /\ sheet = Cards!NoPage
       \/ Len(new) = Len(laid) /\ sheet = laid[Len(laid)] /\ Len(laid) > 0

\* The pages that are laid are as high as their cards and headings, and fit the screen.
Drawn(c, laid, height) ==
    /\ laid \in Seq(Sheets)
    /\ \A p \in 1..Len(laid) :
          /\ Len(laid[p].rows) > 0
          /\ laid[p].height = Cards!DrawnHeight(c, laid[p].rows)
          /\ laid[p].height <= Cards!heightBudget(height)

\* PlaceRow puts the row on a page, and no page becomes higher than the screen.
LEMMA PlaceRowPuts ==
    ASSUME NEW c, NEW laid \in Seq(Sheets), NEW row \in Seq(Nat), NEW height \in Int
    PROVE  LET new == Cards!PlaceRow(c, laid, row, height) IN
           /\ \E sheet : PutOn(new, laid, row, sheet)
           /\ Drawn(c, laid, height) => Drawn(c, new, height)
<1> DEFINE new == Cards!PlaceRow(c, laid, row, height)
           last == Len(laid)
           on == laid[last]
           heading == \/ Cards!GroupsOf(c, row) # Cards!GroupsOf(c, on.rows[Len(on.rows)])
                      \/ Cards!Cardinality(Cards!GroupsOf(c, row)) > 1
           needed == 7 + (IF heading THEN 1 ELSE 0)
           fits == laid # <<>> /\ on.height + needed <= Cards!heightBudget(height)
           more == [rows |-> Append(on.rows, row), height |-> on.height + needed]
           fresh == [rows |-> <<row>>, height |-> 8]
<1>1. new = IF fits THEN [laid EXCEPT ![last] = more] ELSE Append(laid, fresh)
  BY DEF Cards!PlaceRow, Cards!hubCardHeight
<1>2. needed \in Nat /\ last \in Nat
  OBVIOUS
<1> HIDE DEF new, heading
<1>3. CASE fits
  <2>1. last \in 1..last /\ last > 0 /\ on \in Sheets
    BY <1>3
  <2>2. on.rows \in Seq(Seq(Nat)) /\ on.height \in Nat
    BY <2>1 DEF Sheets
  <2>3. Append(on.rows, row) \in Seq(Seq(Nat))
    BY <2>2
  <2> HIDE DEF needed
  <2>4. on.height + needed \in Nat
    BY <1>2, <2>2
  <2>5. more \in Sheets
    BY <2>3, <2>4 DEF Sheets
  <2>6. more.rows = Append(on.rows, row) /\ more.height = on.height + needed
    OBVIOUS
  <2>7. new = [laid EXCEPT ![last] = more] /\ on.height + needed <= Cards!heightBudget(height)
    BY <1>1, <1>3
  <2> HIDE DEF more
  <2>8. /\ new \in Seq(Sheets) /\ Len(new) = last /\ new[last] = more
        /\ \A p \in 1..last - 1 : p \in 1..last /\ new[p] = laid[p]
    BY <2>1, <2>5, <2>7
  <2>9. PutOn(new, laid, row, on)
    BY <1>2, <2>1, <2>6, <2>8 DEF PutOn
  <2>10. ASSUME Drawn(c, laid, height) PROVE Drawn(c, new, height)
    <3>1. Len(on.rows) > 0 /\ on.height = Cards!DrawnHeight(c, on.rows)
      BY <2>1, <2>10 DEF Drawn
    <3>2. Headed(c, on.rows, row) <=> heading
      BY <2>2, <3>1 DEF Headed, heading
    <3>3. needed = Lines(c, on.rows, row)
      BY <3>2 DEF Lines, needed
    <3>4. more.height = Cards!DrawnHeight(c, more.rows)
      BY <2>2, <2>6, <3>1, <3>3, HeightOfAppend
    <3>5. Len(more.rows) > 0
      BY <2>2, <2>3, <2>6
    <3>6. more.height <= Cards!heightBudget(height)
      BY <2>6, <2>7
    <3> SUFFICES ASSUME NEW p \in 1..last
                 PROVE  /\ Len(new[p].rows) > 0
                        /\ new[p].height = Cards!DrawnHeight(c, new[p].rows)
                        /\ new[p].height <= Cards!heightBudget(height)
      BY <2>8 DEF Drawn
    <3>7. CASE p = last
      BY <2>8, <3>4, <3>5, <3>6, <3>7
    <3>8. CASE p \in 1..last - 1
      BY <2>8, <2>10, <3>8 DEF Drawn
    <3>. QED
      BY <1>2, <3>7, <3>8
  <2>. QED
    BY <2>9, <2>10 DEF new
<1>4. CASE ~fits
  <2>1. <<row>> \in Seq(Seq(Nat)) /\ <<row>> = Append(<<>>, row) /\ Len(<<row>>) = 1 /\ <<>> \in Seq(Seq(Nat))
    OBVIOUS
  <2>2. fresh \in Sheets /\ fresh.rows = <<row>> /\ fresh.height = 8
    BY <2>1 DEF Sheets
  <2>3. new = Append(laid, fresh)
    BY <1>1, <1>4
  <2> HIDE DEF fresh
  <2>4. /\ new \in Seq(Sheets) /\ Len(new) = last + 1 /\ new[last + 1] = fresh
        /\ \A p \in 1..last : new[p] = laid[p]
    BY <2>2, <2>3
  <2>5. Cards!NoPage \in Sheets /\ Cards!NoPage.rows = <<>>
    BY <2>1 DEF Sheets, Cards!NoPage
  <2> HIDE DEF last
  <2>6. PutOn(new, laid, row, Cards!NoPage)
    BY <1>2, <2>1, <2>2, <2>4, <2>5 DEF PutOn, last
  <2>7. ASSUME Drawn(c, laid, height) PROVE Drawn(c, new, height)
    <3>1. Cards!DrawnHeight(c, <<row>>) = 8
      <4>1. Lines(c, <<>>, row) = 8
        BY DEF Lines, Headed
      <4>2. Cards!DrawnHeight(c, Append(<<>>, row)) = Cards!DrawnHeight(c, <<>>) + Lines(c, <<>>, row)
        BY <2>1, HeightOfAppend
      <4>. QED
        BY <2>1, <4>1, <4>2, NoRowsNoHeight
    <3> SUFFICES ASSUME NEW p \in 1..last + 1
                 PROVE  /\ Len(new[p].rows) > 0
                        /\ new[p].height = Cards!DrawnHeight(c, new[p].rows)
                        /\ new[p].height <= Cards!heightBudget(height)
      BY <2>4 DEF Drawn
    <3>2. CASE p = last + 1
      <4>1. Cards!heightBudget(height) \in Int /\ Cards!heightBudget(height) >= 8
        BY BudgetIs
      <4>2. new[p].rows = <<row>> /\ new[p].height = 8
        BY <2>2, <2>4, <3>2
      <4>3. Len(new[p].rows) > 0
        BY <2>1, <4>2
      <4>4. new[p].height = Cards!DrawnHeight(c, new[p].rows)
        BY <3>1, <4>2
      <4>. QED
        BY <4>1, <4>2, <4>3, <4>4
    <3>3. CASE p \in 1..last
      BY <2>4, <2>7, <3>3 DEF Drawn, last
    <3>. QED
      BY <1>2, <3>2, <3>3
  <2>. QED
    BY <2>6, <2>7 DEF new
<1>. QED
  BY <1>3, <1>4

\* The pages hold the first rows of the grid, row by row.
Shows(c, laid, grid, k) ==
    /\ laid \in Seq(Sheets)
    /\ \A p \in 1..Len(laid) : \A q \in 1..Len(laid[p].rows) : \E x \in 1..k : laid[p].rows[q] = grid[x]
    /\ \A x \in 1..k : \E p \in 1..Len(laid) : \E q \in 1..Len(laid[p].rows) : laid[p].rows[q] = grid[x]
    /\ \A p, t \in 1..Len(laid) : \A q \in 1..Len(laid[p].rows), u \in 1..Len(laid[t].rows) :
          p < t \/ (p = t /\ q < u) =>
              \A a \in Entries(laid[p].rows[q]), b \in Entries(laid[t].rows[u]) : Cards!Before(c, a, b)

\* Putting the next row on the last page, or on a new one, keeps Shows.
LEMMA ShowsNext ==
    ASSUME NEW c, NEW A, NEW W, NEW grid, Holds(c, grid, A, W), NEW k \in Nat, k < Len(grid),
           NEW laid, Shows(c, laid, grid, k), NEW new, NEW sheet, PutOn(new, laid, grid[k + 1], sheet)
    PROVE  Shows(c, new, grid, k + 1)
<1> DEFINE last == Len(new)
           row == grid[k + 1]
           old == sheet.rows
           end == Len(old) + 1
<1>1. /\ new \in Seq(Sheets) /\ sheet \in Sheets /\ last \in Nat \ {0}
      /\ \A p \in 1..last - 1 : p \in 1..Len(laid) /\ new[p] = laid[p]
      /\ new[last].rows = Append(old, row)
      /\ \/ last = Len(laid) + 1 /\ sheet = Cards!NoPage
         \/ last = Len(laid) /\ sheet = laid[Len(laid)] /\ Len(laid) > 0
  BY DEF PutOn
<1>2. /\ laid \in Seq(Sheets)
      /\ \A p \in 1..Len(laid) : \A q \in 1..Len(laid[p].rows) : \E x \in 1..k : laid[p].rows[q] = grid[x]
      /\ \A x \in 1..k : \E p \in 1..Len(laid) : \E q \in 1..Len(laid[p].rows) : laid[p].rows[q] = grid[x]
      /\ \A p, t \in 1..Len(laid) : \A q \in 1..Len(laid[p].rows), u \in 1..Len(laid[t].rows) :
            p < t \/ (p = t /\ q < u) =>
                \A a \in Entries(laid[p].rows[q]), b \in Entries(laid[t].rows[u]) : Cards!Before(c, a, b)
  BY DEF Shows
<1>3. /\ grid \in Seq(Seq(Nat)) /\ Len(grid) \in Nat /\ k + 1 \in 1..Len(grid) /\ row \in Seq(Nat)
      /\ \A x \in 1..k : \A a \in Entries(grid[x]), b \in Entries(row) : Cards!Before(c, a, b)
  <2>1. grid \in Seq(Seq(Nat)) /\ Len(grid) \in Nat
    BY DEF Holds
  <2>2. k + 1 \in 1..Len(grid)
    BY <2>1
  <2>3. \A x \in 1..k : x \in 1..Len(grid) /\ x < k + 1
    BY <2>1
  <2>4. row \in Seq(Nat)
    BY <2>1, <2>2
  <2>5. \A x \in 1..k : \A a \in Entries(grid[x]), b \in Entries(row) : Cards!Before(c, a, b)
    BY <2>2, <2>3 DEF Holds
  <2>. QED
    BY <2>1, <2>2, <2>4, <2>5
<1>4. old \in Seq(Seq(Nat)) /\ Len(old) \in Nat
  <2>1. old \in Seq(Seq(Nat))
    BY <1>1 DEF Sheets
  <2>. QED
    BY <2>1
<1> HIDE DEF row
<1>5. /\ Len(new[last].rows) = end
      /\ \A q \in 1..Len(old) : new[last].rows[q] = old[q]
      /\ new[last].rows[end] = row
  <2>1. /\ Len(Append(old, row)) = end /\ Append(old, row)[end] = row
        /\ \A q \in 1..Len(old) : Append(old, row)[q] = old[q]
    BY <1>3, <1>4
  <2> HIDE DEF old, end, last
  <2>. QED
    BY <1>1, <2>1
<1>6. Len(old) > 0 => last = Len(laid) /\ last \in 1..Len(laid) /\ old = laid[last].rows
  <2>1. Len(Cards!NoPage.rows) = 0
    BY DEF Cards!NoPage
  <2>. QED
    BY <1>1, <1>2, <2>1
<1> HIDE DEF last, old
\* A row of the pages is the new one, or was there.
<1> DEFINE There(p, q) == /\ p \in 1..Len(laid) /\ q \in 1..Len(laid[p].rows) /\ new[p].rows[q] = laid[p].rows[q]
           New(p, q) == p = last /\ q = end
<1>7. ASSUME NEW p \in 1..last, NEW q \in 1..Len(new[p].rows)
      PROVE  There(p, q) \/ New(p, q)
  <2>1. CASE p \in 1..last - 1
    BY <1>1, <2>1
  <2>2. CASE p = last /\ q \in 1..Len(old)
    <3>1. Len(old) > 0
      BY <1>4, <2>2
    <3>. QED
      BY <1>5, <1>6, <2>2, <3>1
  <2>3. CASE p = last /\ q = end
    BY <2>3
  <2>4. p \in 1..last - 1 \/ (p = last /\ q \in 1..Len(old)) \/ (p = last /\ q = end)
    BY <1>1, <1>4, <1>5
  <2>. QED
    BY <2>1, <2>2, <2>3, <2>4
<1>8. /\ last \in 1..last /\ end \in 1..Len(new[last].rows) /\ new[last].rows[end] = row
  BY <1>1, <1>4, <1>5
<1>9. ASSUME NEW p \in 1..Len(laid), NEW q \in 1..Len(laid[p].rows)
      PROVE  p \in 1..last /\ q \in 1..Len(new[p].rows) /\ new[p].rows[q] = laid[p].rows[q]
  <2>1. p \in 1..last /\ (p \in 1..last - 1 \/ (p = last /\ last = Len(laid)))
    BY <1>1, <1>2
  <2>2. CASE p \in 1..last - 1
    BY <1>1, <2>1, <2>2
  <2>3. CASE p = last /\ last = Len(laid)
    <3>1. old = laid[last].rows
      BY <1>1, <1>2, <2>3 DEF last, old
    <3>. QED
      BY <1>4, <1>5, <2>1, <2>3, <3>1, SMTT(30)
  <2>. QED
    BY <2>1, <2>2, <2>3
<1> HIDE DEF end
<1>10. ASSUME NEW p \in 1..last, NEW q \in 1..Len(new[p].rows) PROVE \E x \in 1..k + 1 : new[p].rows[q] = grid[x]
  <2>1. CASE There(p, q)
    <3>1. PICK x \in 1..k : laid[p].rows[q] = grid[x]
      BY <1>2, <2>1
    <3>2. x \in 1..k + 1
      BY <3>1
    <3>. QED
      BY <2>1, <3>1, <3>2
  <2>2. CASE New(p, q)
    <3>1. k + 1 \in 1..k + 1
      OBVIOUS
    <3>. QED
      BY <1>8, <2>2, <3>1 DEF row
  <2>. QED
    BY <1>7, <2>1, <2>2
<1>11. ASSUME NEW x \in 1..k + 1 PROVE \E p \in 1..last : \E q \in 1..Len(new[p].rows) : new[p].rows[q] = grid[x]
  <2>1. CASE x = k + 1
    BY <1>8, <2>1 DEF row
  <2>2. CASE x # k + 1
    <3>1. x \in 1..k
      BY <2>2
    <3>2. PICK p \in 1..Len(laid) : \E q \in 1..Len(laid[p].rows) : laid[p].rows[q] = grid[x]
      BY <1>2, <3>1
    <3>3. PICK q \in 1..Len(laid[p].rows) : laid[p].rows[q] = grid[x]
      BY <3>2
    <3>4. p \in 1..last /\ q \in 1..Len(new[p].rows) /\ new[p].rows[q] = laid[p].rows[q]
      BY <1>9
    <3>. QED
      BY <3>3, <3>4
  <2>. QED
    BY <2>1, <2>2
<1>12. ASSUME NEW p \in 1..last, NEW t \in 1..last, NEW q \in 1..Len(new[p].rows), NEW u \in 1..Len(new[t].rows),
              p < t \/ (p = t /\ q < u), NEW a \in Entries(new[p].rows[q]), NEW b \in Entries(new[t].rows[u])
       PROVE  Cards!Before(c, a, b)
  <2>1. ~New(p, q)
    <3>1. ~(p < t /\ p = last)
      BY <1>1, <1>12
    <3>2. ~(p = t /\ q < u /\ p = last /\ q = end)
      <4>1. ASSUME p = last, p = t PROVE u \in 1..end
        BY <1>5, <4>1
      <4>2. end \in Nat
        BY <1>4 DEF end
      <4>. QED
        BY <4>1, <4>2
    <3>. QED
      BY <1>12, <3>1, <3>2
  <2>2. There(p, q)
    BY <1>7, <2>1
  <2>3. CASE There(t, u)
    BY <1>2, <1>12, <2>2, <2>3
  <2>4. CASE New(t, u)
    <3>1. PICK x \in 1..k : laid[p].rows[q] = grid[x]
      BY <1>2, <2>2
    <3>2. a \in Entries(grid[x]) /\ b \in Entries(row)
      BY <1>8, <2>2, <2>4, <3>1
    <3>. QED
      BY <1>3, <3>2
  <2>. QED
    BY <1>7, <2>3, <2>4
<1>. QED
  BY <1>1, <1>10, <1>11, <1>12 DEF Shows, last

\* pages: the pages show the rows of the grid and fit the screen.
LEMMA PagesShow ==
    ASSUME NEW c, HubFile(c), NEW s, s.width \in Int, s.height \in Int
    PROVE  LET layout == Cards!pages(c, s)
               W == Cards!columns(s.width)
               grid == Cards!Grid(c, W)
           IN /\ W \in Nat \ {0} /\ Whole(c, grid, W)
              /\ c.nodes = <<>> => layout = <<Cards!NoPage>>
              /\ c.nodes # <<>> => Shows(c, layout, grid, Len(grid)) /\ Drawn(c, layout, s.height)
<1> DEFINE W == Cards!columns(s.width)
           grid == Cards!Grid(c, W)
           height == s.height
           N == Len(grid)
           S == Seq(Sheets)
           Put(l, k) == Cards!PlaceRow(c, l, grid[k], height)
           Is(f) == f = [k \in 0..N |-> IF k = 0 THEN <<>> ELSE Put(f[k - 1], k)]
           G == [x \in S \X (1..N) |-> Put(x[1], x[2])]
<1>1. W \in Nat \ {0} /\ height \in Int
  BY ColumnsAre
<1> HIDE DEF W
<1>2. Whole(c, grid, W)
  BY <1>1, GridIsWhole
<1>3. /\ grid \in Seq(Seq(Nat)) /\ N \in Nat
      /\ \A r \in 1..N : Len(grid[r]) \in 1..W /\ Entries(grid[r]) \subseteq DOMAIN c.nodes
      /\ \A a \in DOMAIN c.nodes : \E r \in 1..N : a \in Entries(grid[r])
  BY <1>2 DEF Whole, Holds
<1>4. grid = <<>> <=> c.nodes = <<>>
  <2>1. c.nodes = <<>> <=> DOMAIN c.nodes = {}
    <3>1. c.nodes \in Seq(STRING)
      BY DEF HubFile
    <3>. QED
      BY <3>1
  <2>2. ASSUME grid = <<>> PROVE DOMAIN c.nodes = {}
    BY <1>3, <2>2
  <2>3. ASSUME grid # <<>> PROVE DOMAIN c.nodes # {}
    <3>1. 1 \in 1..N /\ Len(grid[1]) \in 1..W
      BY <1>3, <2>3
    <3>2. grid[1][1] \in Entries(grid[1])
      BY <1>1, <3>1 DEF Entries
    <3>. QED
      BY <1>3, <3>1, <3>2
  <2>. QED
    BY <2>1, <2>2, <2>3
<1> HIDE DEF grid, height
<1>5. \A l \in S : \A k \in 1..N : Put(l, k) \in S /\ G[<<l, k>>] = Put(l, k)
  <2> SUFFICES ASSUME NEW l \in S, NEW k \in 1..N PROVE Put(l, k) \in S /\ G[<<l, k>>] = Put(l, k)
    OBVIOUS
  <2>1. grid[k] \in Seq(Nat)
    BY <1>3
  <2>2. Put(l, k) \in S
    BY <1>1, <2>1, PlaceRowPuts DEF PutOn
  <2> HIDE DEF S, Put, N
  <2>. QED
    BY <2>2
<1>6. StaysIn(G, S, N)
  <2>1. \A x \in S \X (1..N) : x = <<x[1], x[2]>> /\ x[1] \in S /\ x[2] \in 1..N
    OBVIOUS
  <2> HIDE DEF S, Put, N
  <2>. QED
    BY <1>5, <2>1 DEF StaysIn
<1>7. PICK f : Recursion(f, S, <<>>, N, G)
  <2>1. <<>> \in S
    OBVIOUS
  <2> HIDE DEF N, S, G
  <2>. QED
    BY <1>3, <1>6, <2>1, StepByStep
<1>8. Is(f)
  <2>1. \A k \in 0..N : k # 0 => k \in 1..N /\ k - 1 \in 0..N
    BY <1>3
  <2>2. \A k \in 0..N : f[k] = IF k = 0 THEN <<>> ELSE Put(f[k - 1], k)
    <3> HIDE DEF N, S, G, Put
    <3>. QED
      BY <1>5, <1>7, <2>1 DEF Recursion
  <2> HIDE DEF N, S, G, Put
  <2>. QED
    BY <1>7, <2>2 DEF Recursion
<1> DEFINE laid == CHOOSE h : Is(h)
<1>9. Is(laid)
  <2> HIDE DEF Is
  <2>. QED
    BY <1>8
<1>10. Cards!pages(c, s) = IF grid = <<>> THEN <<Cards!NoPage>> ELSE laid[N]
  BY DEF Cards!pages, W, grid, height
<1> HIDE DEF laid
<1>11. laid[0] = <<>> /\ \A k \in 1..N : laid[k] = Put(laid[k - 1], k)
  <2>1. 0 \in 0..N /\ \A k \in 1..N : k \in 0..N /\ k # 0
    BY <1>3
  <2> HIDE DEF N, Put
  <2>. QED
    BY <1>9, <2>1
<1> DEFINE Good(k) == Shows(c, laid[k], grid, k) /\ Drawn(c, laid[k], height)
           T == {k \in 0..N : Good(k)}
<1>12. 0 \in T
  <2>1. Shows(c, <<>>, grid, 0) /\ Drawn(c, <<>>, height)
    BY DEF Shows, Drawn
  <2>2. 0 \in 0..N /\ Good(0)
    BY <1>3, <1>11, <2>1
  <2> HIDE DEF N, Good
  <2>. QED
    BY <2>2
<1>13. ASSUME NEW k \in 1..N, k - 1 \in T PROVE k \in T
  <2> DEFINE m == k - 1
             before == laid[m]
             new == Cards!PlaceRow(c, before, grid[k], height)
  <2>1. m \in Nat /\ m < N /\ m + 1 = k /\ k \in 0..N /\ grid[k] \in Seq(Nat)
    BY <1>3
  <2>2. Shows(c, before, grid, m) /\ Drawn(c, before, height)
    BY <1>13
  <2>3. laid[k] = new
    BY <1>11
  <2> HIDE DEF m, before
  <2>4. before \in Seq(Sheets)
    BY <2>2 DEF Shows
  <2>5. (\E sheet : PutOn(new, before, grid[k], sheet)) /\ Drawn(c, new, height)
    BY <1>1, <2>1, <2>2, <2>4, PlaceRowPuts
  <2>6. PICK sheet : PutOn(new, before, grid[m + 1], sheet)
    BY <2>1, <2>5
  <2>7. Holds(c, grid, DOMAIN c.nodes, W)
    BY <1>2 DEF Whole
  <2> HIDE DEF new
  <2>8. Shows(c, new, grid, m + 1)
    BY <2>1, <2>2, <2>6, <2>7, ShowsNext
  <2>9. Good(k)
    BY <2>1, <2>3, <2>5, <2>8
  <2> HIDE DEF N, Good
  <2>. QED
    BY <2>1, <2>9
<1>14. N \in T
  <2> HIDE DEF N, T
  <2>. QED
    BY <1>3, <1>12, <1>13, UpTo
<1>. QED
  BY <1>1, <1>2, <1>4, <1>10, <1>14 DEF W, grid, height

-----------------------------------------------------------------------------
(* The overview. *)

\* A card of the overview, at page p, row q and column i.
Card(layout, p, q, i) ==
    p \in 1..Len(layout) /\ q \in 1..Len(layout[p].rows) /\ i \in 1..Len(layout[p].rows[q])

\* The cards are those of the nodes; no page and no row is empty.
Laid(c, layout) ==
    /\ layout \in Seq(Sheets)
    /\ \A p \in 1..Len(layout) : 1 \in 1..Len(layout[p].rows) /\ Len(layout[p].rows) \in 1..Len(layout[p].rows)
    /\ \A p \in 1..Len(layout) : \A q \in 1..Len(layout[p].rows) :
          Len(layout[p].rows[q]) \in Nat \ {0} /\ layout[p].rows[q] \in Seq(Nat)
    /\ \A p, q, i : Card(layout, p, q, i) => layout[p].rows[q][i] \in DOMAIN c.nodes
    /\ \A n \in DOMAIN c.nodes : \E p, q, i : Card(layout, p, q, i) /\ layout[p].rows[q][i] = n

\* The layout has the cards of the nodes.
LEMMA LayoutIs ==
    ASSUME NEW c, HubFile(c), c.nodes # <<>>, NEW s, s.width \in Int, s.height \in Int
    PROVE  Laid(c, Cards!pages(c, s))
<1> DEFINE layout == Cards!pages(c, s)
           W == Cards!columns(s.width)
           grid == Cards!Grid(c, W)
<1>1. /\ W \in Nat \ {0} /\ Whole(c, grid, W)
      /\ Shows(c, layout, grid, Len(grid)) /\ Drawn(c, layout, s.height)
  BY PagesShow
<1> HIDE DEF layout, W, grid
<1>2. /\ grid \in Seq(Seq(Nat))
      /\ \A r \in 1..Len(grid) : Len(grid[r]) \in 1..W /\ Entries(grid[r]) \subseteq DOMAIN c.nodes
      /\ \A a \in DOMAIN c.nodes : \E r \in 1..Len(grid) : a \in Entries(grid[r])
  BY <1>1 DEF Whole, Holds
<1>3. /\ layout \in Seq(Sheets)
      /\ \A p \in 1..Len(layout) : \A q \in 1..Len(layout[p].rows) : \E x \in 1..Len(grid) : layout[p].rows[q] = grid[x]
      /\ \A x \in 1..Len(grid) : \E p \in 1..Len(layout) : \E q \in 1..Len(layout[p].rows) : layout[p].rows[q] = grid[x]
  BY <1>1 DEF Shows
<1>4. ASSUME NEW p \in 1..Len(layout)
      PROVE  1 \in 1..Len(layout[p].rows) /\ Len(layout[p].rows) \in 1..Len(layout[p].rows)
  <2>1. Len(layout[p].rows) > 0
    BY <1>1 DEF Drawn
  <2>2. layout[p] \in Sheets
    BY <1>3
  <2>3. layout[p].rows \in Seq(Seq(Nat))
    BY <2>2 DEF Sheets
  <2>4. Len(layout[p].rows) \in Nat
    BY <2>3
  <2>. QED
    BY <2>1, <2>4
<1>5. ASSUME NEW p \in 1..Len(layout), NEW q \in 1..Len(layout[p].rows)
      PROVE  /\ Len(layout[p].rows[q]) \in Nat \ {0} /\ layout[p].rows[q] \in Seq(Nat)
             /\ \A i \in 1..Len(layout[p].rows[q]) : layout[p].rows[q][i] \in DOMAIN c.nodes
  <2>1. PICK x \in 1..Len(grid) : layout[p].rows[q] = grid[x]
    BY <1>3
  <2>2. Len(grid[x]) \in 1..W /\ grid[x] \in Seq(Nat) /\ Entries(grid[x]) \subseteq DOMAIN c.nodes
    BY <1>2
  <2>. QED
    BY <1>1, <2>1, <2>2, SMTT(30) DEF Entries
<1>6. ASSUME NEW n \in DOMAIN c.nodes PROVE \E p, q, i : Card(layout, p, q, i) /\ layout[p].rows[q][i] = n
  <2>1. PICK x \in 1..Len(grid) : n \in Entries(grid[x])
    BY <1>2
  <2>2. PICK p \in 1..Len(layout) : \E q \in 1..Len(layout[p].rows) : layout[p].rows[q] = grid[x]
    BY <1>3
  <2>3. PICK q \in 1..Len(layout[p].rows) : layout[p].rows[q] = grid[x]
    BY <2>2
  <2>4. PICK i \in 1..Len(grid[x]) : grid[x][i] = n
    BY <2>1 DEF Entries
  <2>. QED
    BY <2>3, <2>4 DEF Card
<1>7. Laid(c, layout)
  BY <1>3, <1>4, <1>5, <1>6 DEF Laid, Card
<1>. QED
  BY <1>7 DEF layout

\* A cell of the layout is the place of a card in it.
LEMMA CellsAre ==
    ASSUME NEW layout
    PROVE  \A cell : cell \in Cards!Cells(layout) =>
              /\ cell.page \in DOMAIN layout /\ cell.row \in DOMAIN layout[cell.page].rows
              /\ cell.column \in DOMAIN layout[cell.page].rows[cell.row]
  BY DEF Cards!Cells

\* cursorCell finds the card of a node.
LEMMA CursorCellFinds ==
    ASSUME NEW c, NEW layout, Laid(c, layout), NEW n \in DOMAIN c.nodes
    PROVE  LET at == Cards!cursorCell(layout, n)
           IN Card(layout, at.page, at.row, at.column) /\ layout[at.page].rows[at.row][at.column] = n
<1> DEFINE at == Cards!cursorCell(layout, n)
<1>1. /\ layout \in Seq(Sheets)
      /\ \A p \in 1..Len(layout) : \A q \in 1..Len(layout[p].rows) : layout[p].rows[q] \in Seq(Nat)
  BY DEF Laid
<1>2. /\ DOMAIN layout = 1..Len(layout)
      /\ \A p \in 1..Len(layout) : DOMAIN layout[p].rows = 1..Len(layout[p].rows)
      /\ \A p \in 1..Len(layout) : \A q \in 1..Len(layout[p].rows) :
            DOMAIN layout[p].rows[q] = 1..Len(layout[p].rows[q])
  <2>1. \A p \in 1..Len(layout) : layout[p] \in Sheets
    BY <1>1
  <2>2. \A p \in 1..Len(layout) : layout[p].rows \in Seq(Seq(Nat))
    BY <2>1 DEF Sheets
  <2>. QED
    BY <1>1, <2>2
<1>3. PICK p, q, i : Card(layout, p, q, i) /\ layout[p].rows[q][i] = n
  BY DEF Laid
<1>4. [page |-> p, row |-> q, column |-> i] \in Cards!Cells(layout)
  BY <1>2, <1>3 DEF Card, Cards!Cells
<1>5. Cards!CardAt(layout, [page |-> p, row |-> q, column |-> i]) = n
  BY <1>3 DEF Cards!CardAt
<1>6. at \in Cards!Cells(layout) /\ Cards!CardAt(layout, at) = n
  BY <1>4, <1>5 DEF Cards!cursorCell
<1> HIDE DEF at
<1>7. Card(layout, at.page, at.row, at.column)
  BY <1>2, <1>6, CellsAre DEF Card
<1>8. layout[at.page].rows[at.row][at.column] = n
  BY <1>6 DEF Cards!CardAt
<1>. QED
  BY <1>7, <1>8 DEF at

\* The page that is shown holds the selected card.
Shown(layout, p, n) == \E q, i : Card(layout, p, q, i) /\ layout[p].rows[q][i] = n

\* The configuration is one that was loaded, and the selected card is on the page that is shown.
GridInv ==
    /\ config \in Configs /\ Cards!loadHubConfig(config)
    /\ terminal \in Terminals /\ size \in Terminals
    /\ config.nodes # <<>> => selected \in DOMAIN config.nodes /\ Shown(Cards!Layout, page, selected)

\* The nodes have a layout on every terminal.
LEMMA GridTypes ==
    ASSUME FilesAndScreens, config \in Configs, Cards!loadHubConfig(config), NEW t \in Terminals
    PROVE  /\ HubFile(config) /\ t.width \in Int /\ t.height \in Int
           /\ config.nodes # <<>> => Laid(config, Cards!pages(config, t))
<1>1. HubFile(config) /\ t.width \in Int /\ t.height \in Int
  BY DEF FilesAndScreens, HubFile
<1>. QED
  BY <1>1, LayoutIs

\* clampCursor keeps the selection and shows its page.
LEMMA CursorShows ==
    ASSUME NEW layout, config.nodes # <<>>, Laid(config, layout), NEW n \in DOMAIN config.nodes,
           Cards!clampCursor(layout, n)
    PROVE  selected' \in DOMAIN config.nodes /\ Shown(layout, page', selected')
<1>1. selected' = n /\ page' = Cards!cursorCell(layout, n).page
  BY DEF Cards!clampCursor
<1>. QED
  BY <1>1, CursorCellFinds DEF Shown

\* The first node is selected, and its page is shown.
LEMMA GridBegins == FilesAndScreens /\ Cards!Init => GridInv
<1> SUFFICES ASSUME FilesAndScreens, Cards!Init PROVE GridInv
  OBVIOUS
<1>1. /\ config \in Configs /\ Cards!loadHubConfig(config)
      /\ terminal \in Terminals /\ size = terminal
      /\ config.nodes # <<>> => selected = 1 /\ page = Cards!cursorCell(Cards!pages(config, terminal), 1).page
  BY DEF Cards!Init
<1>2. ASSUME config.nodes # <<>> PROVE selected \in DOMAIN config.nodes /\ Shown(Cards!Layout, page, selected)
  <2>1. HubFile(config) /\ Laid(config, Cards!pages(config, terminal))
    BY <1>1, <1>2, GridTypes
  <2>2. 1 \in DOMAIN config.nodes
    <3>1. config.nodes \in Seq(STRING)
      BY <2>1 DEF HubFile
    <3>. QED
      BY <1>2, <3>1
  <2>. QED
    BY <1>1, <1>2, <2>1, <2>2, CursorCellFinds DEF Shown, Cards!Layout
<1>. QED
  BY <1>1, <1>2 DEF GridInv

\* A move goes to another card of the layout.
LEMMA MoveKeeps ==
    ASSUME FilesAndScreens, GridInv, config.nodes # <<>>, NEW p, NEW q, NEW i, Card(Cards!Layout, p, q, i),
           Cards!clampCursor(Cards!Layout, Cards!Layout[p].rows[q][i]), UNCHANGED <<config, terminal, size, opened>>
    PROVE  GridInv'
<1> DEFINE layout == Cards!Layout
           n == layout[p].rows[q][i]
<1>1. /\ config \in Configs /\ Cards!loadHubConfig(config) /\ terminal \in Terminals /\ size \in Terminals
  BY DEF GridInv
<1>2. Laid(config, layout)
  BY <1>1, GridTypes DEF Cards!Layout
<1>3. n \in DOMAIN config.nodes
  BY <1>2 DEF Laid
<1>4. selected' \in DOMAIN config.nodes /\ Shown(layout, page', selected')
  BY <1>2, <1>3, CursorShows
<1>5. Cards!Layout' = Cards!Layout
  BY DEF Cards!Layout
<1>. QED
  BY <1>1, <1>4, <1>5 DEF GridInv

\* moveCursorVertical goes to a card of the row above or below.
LEMMA VerticalKeeps ==
    ASSUME FilesAndScreens, GridInv, NEW delta, Cards!moveCursorVertical(delta)
    PROVE  GridInv'
<1> DEFINE layout == Cards!Layout
           at == Cards!cursorCell(layout, selected)
           rows == layout[at.page].rows
           Down == IF at.row < Len(rows) THEN {rows[at.row + 1]}
                   ELSE {layout[p].rows[1] : p \in {at.page + 1} \cap DOMAIN layout}
           Up == IF at.row > 1 THEN {rows[at.row - 1]}
                 ELSE {Cards!Last(layout[p].rows) : p \in {at.page - 1} \cap DOMAIN layout}
<1>1. /\ config.nodes # <<>> /\ UNCHANGED <<config, terminal, size, opened>>
      /\ \E row \in IF delta < 0 THEN Up ELSE Down :
            Cards!clampCursor(layout, row[Cards!Lesser(at.column, Len(row))])
  BY DEF Cards!moveCursorVertical, Cards!Overview
<1>2. PICK row \in Up \cup Down : Cards!clampCursor(layout, row[Cards!Lesser(at.column, Len(row))])
  BY <1>1
<1>3. /\ config \in Configs /\ Cards!loadHubConfig(config) /\ size \in Terminals /\ selected \in DOMAIN config.nodes
  BY <1>1 DEF GridInv
<1>4. Laid(config, layout)
  BY <1>1, <1>3, GridTypes DEF Cards!Layout
<1>5. Card(layout, at.page, at.row, at.column)
  BY <1>3, <1>4, CursorCellFinds
<1> HIDE DEF layout, at
<1>6. /\ layout \in Seq(Sheets) /\ DOMAIN layout = 1..Len(layout)
      /\ \A p \in 1..Len(layout) : 1 \in 1..Len(layout[p].rows) /\ Len(layout[p].rows) \in 1..Len(layout[p].rows)
      /\ \A p \in 1..Len(layout) : \A q \in 1..Len(layout[p].rows) : Len(layout[p].rows[q]) \in Nat \ {0}
  <2>1. layout \in Seq(Sheets)
    BY <1>4 DEF Laid
  <2>2. DOMAIN layout = 1..Len(layout)
    BY <2>1
  <2>. QED
    BY <1>4, <2>1, <2>2 DEF Laid
<1>7. \E p \in 1..Len(layout) : \E q \in 1..Len(layout[p].rows) : row = layout[p].rows[q]
  <2>1. /\ at.page \in 1..Len(layout) /\ at.row \in 1..Len(rows) /\ at.row \in Int /\ Len(rows) \in Int
    BY <1>5, <1>6 DEF Card
  <2>2. CASE row \in Up /\ at.row > 1
    <3>1. row = rows[at.row - 1] /\ at.row - 1 \in 1..Len(rows)
      BY <2>1, <2>2
    <3>. QED
      BY <2>1, <3>1
  <2>3. CASE row \in Down /\ at.row < Len(rows)
    <3>1. row = rows[at.row + 1] /\ at.row + 1 \in 1..Len(rows)
      BY <2>1, <2>3
    <3>. QED
      BY <2>1, <3>1
  <2>4. CASE row \in Up /\ ~(at.row > 1)
    <3>1. PICK p \in DOMAIN layout : row = Cards!Last(layout[p].rows)
      BY <2>4
    <3>2. row = layout[p].rows[Len(layout[p].rows)]
      BY <3>1 DEF Cards!Last
    <3>. QED
      BY <1>6, <3>2
  <2>5. CASE row \in Down /\ ~(at.row < Len(rows))
    <3>1. PICK p \in DOMAIN layout : row = layout[p].rows[1]
      BY <2>5
    <3>. QED
      BY <1>6, <3>1
  <2>. QED
    BY <1>2, <2>2, <2>3, <2>4, <2>5
<1>8. PICK p \in 1..Len(layout) : \E q \in 1..Len(layout[p].rows) : row = layout[p].rows[q]
  BY <1>7
<1>9. PICK q \in 1..Len(layout[p].rows) : row = layout[p].rows[q]
  BY <1>8
<1>10. Cards!Lesser(at.column, Len(row)) \in 1..Len(row)
  <2>1. at.column \in Nat \ {0}
    BY <1>5, <1>6 DEF Card
  <2>2. Len(row) \in Nat \ {0}
    BY <1>6, <1>9
  <2>. QED
    BY <2>1, <2>2 DEF Cards!Lesser
<1>11. Card(layout, p, q, Cards!Lesser(at.column, Len(row)))
  BY <1>9, <1>10 DEF Card
<1>12. Cards!clampCursor(layout, layout[p].rows[q][Cards!Lesser(at.column, Len(row))])
  BY <1>2, <1>9
<1>. QED
  BY <1>1, <1>11, <1>12, MoveKeeps DEF layout

\* moveCursorHorizontal goes to the card before or after.
LEMMA HorizontalKeeps ==
    ASSUME FilesAndScreens, GridInv, NEW delta, Cards!moveCursorHorizontal(delta)
    PROVE  GridInv'
<1> DEFINE layout == Cards!Layout
           at == Cards!cursorCell(layout, selected)
           rows == layout[at.page].rows
           row == rows[at.row]
           Forth == IF at.column < Len(row) THEN {row[at.column + 1]}
                    ELSE IF at.row < Len(rows) THEN {rows[at.row + 1][1]}
                    ELSE {layout[p].rows[1][1] : p \in {at.page + 1} \cap DOMAIN layout}
           Back == IF at.column > 1 THEN {row[at.column - 1]}
                   ELSE IF at.row > 1 THEN {Cards!Last(rows[at.row - 1])}
                   ELSE {Cards!Last(Cards!Last(layout[p].rows)) : p \in {at.page - 1} \cap DOMAIN layout}
<1>1. /\ config.nodes # <<>> /\ UNCHANGED <<config, terminal, size, opened>>
      /\ \E card \in IF delta < 0 THEN Back ELSE Forth : Cards!clampCursor(layout, card)
  BY DEF Cards!moveCursorHorizontal, Cards!Overview
<1>2. PICK card \in Back \cup Forth : Cards!clampCursor(layout, card)
  BY <1>1
<1>3. /\ config \in Configs /\ Cards!loadHubConfig(config) /\ size \in Terminals /\ selected \in DOMAIN config.nodes
  BY <1>1 DEF GridInv
<1>4. Laid(config, layout)
  BY <1>1, <1>3, GridTypes DEF Cards!Layout
<1>5. Card(layout, at.page, at.row, at.column)
  BY <1>3, <1>4, CursorCellFinds
<1> HIDE DEF layout, at
<1>6. /\ layout \in Seq(Sheets) /\ DOMAIN layout = 1..Len(layout)
      /\ \A p \in 1..Len(layout) : 1 \in 1..Len(layout[p].rows) /\ Len(layout[p].rows) \in 1..Len(layout[p].rows)
      /\ \A p \in 1..Len(layout) : \A q \in 1..Len(layout[p].rows) : Len(layout[p].rows[q]) \in Nat \ {0}
  <2>1. layout \in Seq(Sheets)
    BY <1>4 DEF Laid
  <2>2. DOMAIN layout = 1..Len(layout)
    BY <2>1
  <2>. QED
    BY <1>4, <2>1, <2>2 DEF Laid
<1>7. \E p, q, i : Card(layout, p, q, i) /\ card = layout[p].rows[q][i]
  <2>1. /\ at.page \in 1..Len(layout) /\ at.row \in 1..Len(rows) /\ at.row \in Int /\ Len(rows) \in Int
        /\ at.column \in 1..Len(row) /\ at.column \in Int /\ Len(row) \in Int
    BY <1>5, <1>6 DEF Card
  <2>2. CASE card \in Back /\ at.column > 1
    <3>1. card = row[at.column - 1]
      BY <2>2
    <3>2. at.column - 1 \in 1..Len(row)
      <4> HIDE DEF row
      <4>. QED
        BY <2>1, <2>2
    <3>. QED
      BY <2>1, <3>1, <3>2 DEF Card
  <2>3. CASE card \in Forth /\ at.column < Len(row)
    <3>1. card = row[at.column + 1]
      BY <2>3
    <3>2. at.column + 1 \in 1..Len(row)
      <4> HIDE DEF row
      <4>. QED
        BY <2>1, <2>3
    <3>. QED
      BY <2>1, <3>1, <3>2 DEF Card
  <2>4. CASE card \in Back /\ ~(at.column > 1) /\ at.row > 1
    <3>1. card = Cards!Last(rows[at.row - 1]) /\ at.row - 1 \in 1..Len(rows)
      BY <2>1, <2>4
    <3>2. card = rows[at.row - 1][Len(rows[at.row - 1])]
      BY <3>1 DEF Cards!Last
    <3>3. Len(rows[at.row - 1]) \in 1..Len(rows[at.row - 1])
      BY <1>6, <2>1, <3>1, SMTT(30)
    <3>. QED
      BY <2>1, <3>1, <3>2, <3>3 DEF Card
  <2>5. CASE card \in Forth /\ ~(at.column < Len(row)) /\ at.row < Len(rows)
    <3>1. card = rows[at.row + 1][1] /\ at.row + 1 \in 1..Len(rows)
      BY <2>1, <2>5
    <3>2. 1 \in 1..Len(rows[at.row + 1])
      <4>1. Len(rows[at.row + 1]) \in Nat \ {0}
        BY <1>6, <2>1, <3>1
      <4>. QED
        BY <4>1
    <3>. QED
      BY <2>1, <3>1, <3>2 DEF Card
  <2>6. CASE card \in Back /\ ~(at.column > 1) /\ ~(at.row > 1)
    <3>1. PICK p \in DOMAIN layout : card = Cards!Last(Cards!Last(layout[p].rows))
      BY <2>6
    <3> DEFINE q == Len(layout[p].rows)
    <3>2. card = layout[p].rows[q][Len(layout[p].rows[q])]
      BY <3>1 DEF Cards!Last
    <3>3. p \in 1..Len(layout) /\ q \in 1..Len(layout[p].rows)
      BY <1>6
    <3>4. Len(layout[p].rows[q]) \in 1..Len(layout[p].rows[q])
      BY <1>6, <3>3
    <3>. QED
      BY <3>2, <3>3, <3>4 DEF Card
  <2>7. CASE card \in Forth /\ ~(at.column < Len(row)) /\ ~(at.row < Len(rows))
    <3>1. PICK p \in DOMAIN layout : card = layout[p].rows[1][1]
      BY <2>7
    <3>2. p \in 1..Len(layout) /\ 1 \in 1..Len(layout[p].rows)
      BY <1>6
    <3>3. 1 \in 1..Len(layout[p].rows[1])
      BY <1>6, <3>2
    <3>. QED
      BY <3>1, <3>2, <3>3 DEF Card
  <2>. QED
    BY <1>2, <2>2, <2>3, <2>4, <2>5, <2>6, <2>7
<1>8. PICK p, q, i : Card(layout, p, q, i) /\ card = layout[p].rows[q][i]
  BY <1>7
<1>. QED
  BY <1>1, <1>2, <1>8, MoveKeeps DEF layout

\* A terminal of another size lays the pages out again and shows that of the selection.
LEMMA ResizeKeeps ==
    ASSUME FilesAndScreens, GridInv, Cards!Resize
    PROVE  GridInv'
<1>1. /\ config \in Configs /\ Cards!loadHubConfig(config) /\ terminal \in Terminals /\ size \in Terminals
      /\ config.nodes # <<>> => selected \in DOMAIN config.nodes /\ Shown(Cards!Layout, page, selected)
  BY DEF GridInv
<1>2. terminal' \in Terminals /\ config' = config
  BY DEF Cards!Resize
<1>3. CASE opened = Cards!Closed
  <2>1. size' = terminal' /\ Cards!clampCursor(Cards!pages(config, terminal'), selected)
    BY <1>3 DEF Cards!Resize
  <2>2. ASSUME config.nodes # <<>>
        PROVE  selected' \in DOMAIN config.nodes /\ Shown(Cards!pages(config, terminal'), page', selected')
    <3>1. Laid(config, Cards!pages(config, terminal'))
      BY <1>1, <1>2, <2>2, GridTypes
    <3>. QED
      BY <1>1, <2>1, <2>2, <3>1, CursorShows
  <2>3. Cards!Layout' = Cards!pages(config, terminal')
    BY <1>2, <2>1 DEF Cards!Layout
  <2>. QED
    BY <1>1, <1>2, <2>1, <2>2, <2>3 DEF GridInv
<1>4. CASE opened # Cards!Closed
  <2>1. UNCHANGED <<size, selected, page>>
    BY <1>4 DEF Cards!Resize
  <2>2. Cards!Layout' = Cards!Layout
    BY <1>2, <2>1 DEF Cards!Layout
  <2>. QED
    BY <1>1, <1>2, <2>1, <2>2 DEF GridInv
<1>. QED
  BY <1>3, <1>4

\* A click is on a card of the page that is shown.
LEMMA ClickKeeps ==
    ASSUME FilesAndScreens, GridInv, Cards!nodeAt
    PROVE  GridInv'
<1> DEFINE layout == Cards!Layout
<1>1. /\ config \in Configs /\ Cards!loadHubConfig(config) /\ terminal \in Terminals /\ size \in Terminals
  BY DEF GridInv
<1>2. config.nodes # <<>> /\ page \in DOMAIN layout
  BY DEF Cards!nodeAt, Cards!Overview
<1>3. Laid(config, layout)
  BY <1>1, <1>2, GridTypes DEF Cards!Layout
<1>4. PICK r \in DOMAIN layout[page].rows : \E n \in Cards!ToSet(layout[page].rows[r]) : Cards!openSelected(n)
  BY DEF Cards!nodeAt
<1>5. PICK i \in DOMAIN layout[page].rows[r] : Cards!openSelected(layout[page].rows[r][i])
  BY <1>4 DEF Cards!ToSet
<1>6. selected' = layout[page].rows[r][i] /\ UNCHANGED <<config, terminal, size, page>>
  BY <1>5 DEF Cards!openSelected
<1>7. Cards!Layout' = Cards!Layout
  BY <1>6 DEF Cards!Layout
<1> HIDE DEF layout
<1>8. Card(layout, page, r, i)
  <2>1. layout \in Seq(Sheets)
    BY <1>3 DEF Laid
  <2>2. page \in 1..Len(layout) /\ layout[page] \in Sheets
    BY <1>2, <2>1
  <2>3. layout[page].rows \in Seq(Seq(Nat))
    BY <2>2 DEF Sheets
  <2>4. r \in 1..Len(layout[page].rows) /\ layout[page].rows[r] \in Seq(Nat)
    BY <2>3
  <2>5. i \in 1..Len(layout[page].rows[r])
    BY <2>4
  <2>. QED
    BY <2>2, <2>4, <2>5 DEF Card
<1>9. selected' \in DOMAIN config.nodes /\ Shown(layout, page, selected')
  BY <1>3, <1>6, <1>8 DEF Laid, Shown
<1>. QED
  BY <1>1, <1>6, <1>7, <1>9 DEF GridInv, layout

\* Every step keeps the selection on the page that is shown.
LEMMA GridSteps ==
    ASSUME FilesAndScreens, GridInv, [Cards!Next]_gridVars
    PROVE  GridInv'
<1>1. CASE Cards!Resize
  BY <1>1, ResizeKeeps
<1>2. CASE Cards!nodeAt
  BY <1>2, ClickKeeps
<1>3. ASSUME UNCHANGED <<config, terminal, size, selected, page>> PROVE GridInv'
  <2>1. Cards!Layout' = Cards!Layout
    BY <1>3 DEF Cards!Layout
  <2>. QED
    BY <1>3, <2>1 DEF GridInv
<1>4. CASE Cards!CloseDetail
  BY <1>3, <1>4 DEF Cards!CloseDetail
<1>5. CASE Cards!openSelected(selected)
  BY <1>3, <1>5 DEF Cards!openSelected
<1>6. CASE \E delta \in {-1, 1} : Cards!moveCursorVertical(delta) \/ Cards!moveCursorHorizontal(delta)
  BY <1>6, VerticalKeeps, HorizontalKeeps
<1>7. CASE UNCHANGED gridVars
  BY <1>3, <1>7 DEF gridVars
<1>. QED
  BY <1>1, <1>2, <1>4, <1>5, <1>6, <1>7 DEF Cards!Next

\* A Hub without nodes has one page, without cards.
LEMMA NoNodesIsWhole ==
    ASSUME FilesAndScreens, GridInv, config.nodes = <<>>
    PROVE  Cards!OverviewIsWhole
<1> DEFINE layout == Cards!Layout
<1>1. HubFile(config) /\ size.width \in Int /\ size.height \in Int
  BY GridTypes DEF GridInv
<1>2. layout = <<Cards!NoPage>>
  BY <1>1, PagesShow DEF Cards!Layout
<1>3. DOMAIN layout = {1} /\ layout[1].rows = <<>>
  BY <1>2 DEF Cards!NoPage
<1> HIDE DEF layout
<1>4. DOMAIN layout[1].rows = {} /\ DOMAIN config.nodes = {}
  BY <1>3
<1>5. Cards!Cells(layout) = {}
  <2>1. \A cell : cell \notin Cards!Cells(layout)
    BY <1>3, <1>4, CellsAre
  <2>. QED
    BY <2>1
<1>6. Cards!EveryNodeHasItsCard(layout) /\ Cards!CardsAreInOrder(layout)
  BY <1>4, <1>5 DEF Cards!EveryNodeHasItsCard, Cards!CardsAreInOrder
<1>7. Cards!PagesFit(layout)
  <2>1. Cards!DrawnHeight(config, layout[1].rows) = 0
    BY <1>3, NoRowsNoHeight
  <2>2. Cards!heightBudget(size.height) \in Int /\ Cards!heightBudget(size.height) >= 8
    BY <1>1, BudgetIs
  <2>. QED
    BY <1>3, <1>4, <2>1, <2>2 DEF Cards!PagesFit
<1>8. Cards!SmallGroupsAreTogether(layout) /\ Cards!SelectedIsShown(layout)
  BY <1>4 DEF Cards!SmallGroupsAreTogether, Cards!SelectedIsShown, Cards!ToSet, Cards!Overview
<1>. QED
  BY <1>6, <1>7, <1>8 DEF Cards!OverviewIsWhole, layout

\* With nodes, the layout of the file and the terminal is whole, and the selection is shown.
LEMMA NodesAreWhole ==
    ASSUME FilesAndScreens, GridInv, config.nodes # <<>>
    PROVE  Cards!OverviewIsWhole
<1> DEFINE layout == Cards!Layout
           W == Cards!columns(size.width)
           grid == Cards!Grid(config, W)
<1>1. HubFile(config) /\ size.width \in Int /\ size.height \in Int /\ Laid(config, layout)
  BY GridTypes DEF GridInv, Cards!Layout
<1>2. /\ W \in Nat \ {0} /\ Whole(config, grid, W)
      /\ Shows(config, layout, grid, Len(grid)) /\ Drawn(config, layout, size.height)
  BY <1>1, PagesShow DEF Cards!Layout
<1>3. Shown(layout, page, selected)
  BY DEF GridInv
<1>4. layout = Cards!Layout
  OBVIOUS
<1>5. W = Cards!columns(size.width)
  OBVIOUS
<1> HIDE DEF layout, W, grid
<1>6. /\ DOMAIN layout = 1..Len(layout)
      /\ \A p \in 1..Len(layout) : DOMAIN layout[p].rows = 1..Len(layout[p].rows)
      /\ \A p \in 1..Len(layout) : \A q \in 1..Len(layout[p].rows) :
            DOMAIN layout[p].rows[q] = 1..Len(layout[p].rows[q])
  <2>1. layout \in Seq(Sheets)
    BY <1>1 DEF Laid
  <2>2. \A p \in 1..Len(layout) : layout[p] \in Sheets
    BY <2>1
  <2>3. \A p \in 1..Len(layout) : layout[p].rows \in Seq(Seq(Nat))
    BY <2>2 DEF Sheets
  <2>. QED
    BY <2>1, <2>3
<1>7. \A cell \in Cards!Cells(layout) : Card(layout, cell.page, cell.row, cell.column)
  BY <1>6, CellsAre DEF Card
<1>8. Cards!EveryNodeHasItsCard(layout)
  <2>1. ASSUME NEW cell \in Cards!Cells(layout) PROVE Cards!CardAt(layout, cell) \in DOMAIN config.nodes
    BY <1>1, <1>7 DEF Laid, Cards!CardAt
  <2>2. ASSUME NEW n \in DOMAIN config.nodes PROVE \E cell \in Cards!Cells(layout) : Cards!CardAt(layout, cell) = n
    <3>1. PICK p, q, i : Card(layout, p, q, i) /\ layout[p].rows[q][i] = n
      BY <1>1 DEF Laid
    <3>2. [page |-> p, row |-> q, column |-> i] \in Cards!Cells(layout)
      BY <1>6, <3>1 DEF Card, Cards!Cells
    <3>3. Cards!CardAt(layout, [page |-> p, row |-> q, column |-> i]) = n
      BY <3>1 DEF Cards!CardAt
    <3>. QED
      BY <3>2, <3>3
  <2>. QED
    BY <2>1, <2>2 DEF Cards!EveryNodeHasItsCard
<1>9. ASSUME NEW x \in Cards!Cells(layout), NEW y \in Cards!Cells(layout), Cards!Follows(y, x)
      PROVE  Cards!Before(config, Cards!CardAt(layout, x), Cards!CardAt(layout, y))
  <2> DEFINE a == layout[x.page].rows[x.row]
             b == layout[y.page].rows[y.row]
  <2>1. Card(layout, x.page, x.row, x.column) /\ Card(layout, y.page, y.row, y.column)
    BY <1>7
  <2>2. /\ x.page \in 1..Len(layout) /\ x.row \in 1..Len(layout[x.page].rows) /\ x.column \in 1..Len(a)
        /\ y.page \in 1..Len(layout) /\ y.row \in 1..Len(layout[y.page].rows) /\ y.column \in 1..Len(b)
    BY <2>1 DEF Card
  <2>3. a[x.column] \in Entries(a) /\ b[y.column] \in Entries(b)
    BY <2>2 DEF Entries
  <2>4. CASE x.page < y.page \/ (x.page = y.page /\ x.row < y.row)
    <3>1. Cards!Before(config, a[x.column], b[y.column])
      BY <1>2, <2>2, <2>3, <2>4 DEF Shows
    <3>. QED
      BY <3>1 DEF Cards!CardAt
  <2>5. CASE x.page = y.page /\ x.row = y.row /\ x.column < y.column
    <3>1. a = b
      BY <2>5
    <3>2. PICK k \in 1..Len(grid) : a = grid[k]
      BY <1>2, <2>2 DEF Shows
    <3>3. InOrder(config, a)
      BY <1>2, <3>2 DEF Whole, Holds
    <3>4. Cards!Before(config, a[x.column], b[y.column])
      BY <2>2, <2>5, <3>1, <3>3 DEF InOrder
    <3>. QED
      BY <3>4 DEF Cards!CardAt
  <2>. QED
    BY <1>9, <2>2, <2>4, <2>5 DEF Cards!Follows
<1>10. Cards!CardsAreInOrder(layout)
  BY <1>9 DEF Cards!CardsAreInOrder
<1>11. Cards!PagesFit(layout)
  <2> SUFFICES ASSUME NEW p \in 1..Len(layout)
               PROVE  /\ Cards!DrawnHeight(config, layout[p].rows) <= Cards!heightBudget(size.height)
                      /\ \A q \in 1..Len(layout[p].rows) : Len(layout[p].rows[q]) <= W
    BY <1>5, <1>6 DEF Cards!PagesFit
  <2>1. Cards!DrawnHeight(config, layout[p].rows) <= Cards!heightBudget(size.height)
    BY <1>2 DEF Drawn
  <2>2. ASSUME NEW q \in 1..Len(layout[p].rows) PROVE Len(layout[p].rows[q]) <= W
    <3>1. PICK k \in 1..Len(grid) : layout[p].rows[q] = grid[k]
      BY <1>2 DEF Shows
    <3>2. Len(grid[k]) \in 1..W
      BY <1>2 DEF Whole, Holds
    <3>. QED
      BY <1>2, <3>1, <3>2
  <2>. QED
    BY <2>1, <2>2
<1>12. Cards!SmallGroupsAreTogether(layout)
  <2> SUFFICES ASSUME NEW g \in Cards!ToSet(config.nodes), Cards!Cardinality(Cards!Members(config, g)) <= W
               PROVE  \E p \in DOMAIN layout : \E r \in DOMAIN layout[p].rows :
                         Cards!Members(config, g) \subseteq Cards!ToSet(layout[p].rows[r])
    BY <1>5 DEF Cards!SmallGroupsAreTogether
  <2>1. Size(config, g) <= W
    <3>1. Cards!Cardinality(Cards!Members(config, g)) = Size(config, g)
      BY Zenon DEF Cards!Cardinality, Cardinality, Size
    <3>. QED
      BY <3>1
  <2>2. Cards!Members(config, g) # {}
    BY DEF Cards!ToSet, Cards!Members
  <2>3. PICK k \in 1..Len(grid) : Cards!Members(config, g) \subseteq Entries(grid[k])
    BY <1>2, <2>1, <2>2 DEF Whole
  <2>4. PICK p \in 1..Len(layout) : \E q \in 1..Len(layout[p].rows) : layout[p].rows[q] = grid[k]
    BY <1>2 DEF Shows
  <2>5. PICK q \in 1..Len(layout[p].rows) : layout[p].rows[q] = grid[k]
    BY <2>4
  <2>6. Entries(grid[k]) = Cards!ToSet(layout[p].rows[q])
    <3>1. DOMAIN layout[p].rows[q] = 1..Len(layout[p].rows[q])
      BY <1>6
    <3>. QED
      BY <2>5, <3>1 DEF Entries, Cards!ToSet
  <2>. QED
    BY <1>6, <2>3, <2>6
<1>13. Cards!SelectedIsShown(layout)
  <2>1. PICK q, i : Card(layout, page, q, i) /\ layout[page].rows[q][i] = selected
    BY <1>3 DEF Shown
  <2>2. page \in DOMAIN layout /\ q \in DOMAIN layout[page].rows /\ i \in DOMAIN layout[page].rows[q]
    BY <1>6, <2>1 DEF Card
  <2>3. selected \in Cards!ToSet(layout[page].rows[q])
    BY <2>1, <2>2 DEF Cards!ToSet
  <2>. QED
    BY <2>2, <2>3 DEF Cards!SelectedIsShown
<1>. QED
  BY <1>4, <1>8, <1>10, <1>11, <1>12, <1>13 DEF Cards!OverviewIsWhole

\* Whatever nodes and groups a Hub has, and whatever the sizes of the terminal: the pages hold a card of every
\* node, in order; a page fits the screen; a group that fits into a row is in one; and what the user looks at
\* holds the selected card (pages, moveCursor*, nodeAt, clampCursor).
THEOREM OverviewWhole == SessionSpec => []OverviewIsWhole
<1> SUFFICES ASSUME FilesAndScreens PROVE SessionSpec => []OverviewIsWhole
  BY SourcesAssumption
<1>1. SessionInit => GridInv
  BY GridBegins DEF SessionInit
<1>2. GridInv /\ [SessionNext]_<<part, vars, queueVars, tableVars, gridVars>> => GridInv'
  <2> SUFFICES ASSUME GridInv, [SessionNext]_<<part, vars, queueVars, tableVars, gridVars>> PROVE GridInv'
    OBVIOUS
  <2>1. [Cards!Next]_gridVars
    BY DEF SessionNext, SessionStep, QueueStep, TableStep, CardStep
  <2>. QED
    BY <2>1, GridSteps
<1>3. GridInv => OverviewIsWhole
  BY NoNodesIsWhole, NodesAreWhole DEF OverviewIsWhole
<1>. QED
  BY <1>1, <1>2, <1>3, PTL DEF SessionSpec

=============================================================================
