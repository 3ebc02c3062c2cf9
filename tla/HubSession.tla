----------------------------- MODULE HubSession -----------------------------
(***************************************************************************)
(* One user's session on a Hub: hubModel (cmd/fleetty/hub.go) and, inside  *)
(* it, the monitorModel (cmd/fleetty/main.go) of the node whose dashboard  *)
(* is open.                                                                *)
(*                                                                         *)
(* Both are event-driven: Update handles one message at a time and returns *)
(* commands, which run on their own and end in a message.  `pending' holds *)
(* the commands under way; any of them may end next, and when it does its  *)
(* message goes to whatever dashboard is open by then.  The overview keeps *)
(* its own timer and snapshot messages.                                    *)
(***************************************************************************)
EXTENDS Naturals

CONSTANTS
    Nodes,           \* nodes a dashboard can be opened for
    Pids,            \* processes that can be inspected
    None,            \* nothing: no dashboard, credential, process or data
    MaxAuthFailures, \* maxManagementAuthFailures
    MaxRefresh,      \* bound: timers and snapshots under way at once
    MaxRequests      \* bound: other commands of one kind under way at once

ASSUME SessionAssumption ==
    /\ None \notin Nodes \cup Pids
    /\ MaxAuthFailures \in Nat \ {0}
    /\ MaxRefresh \in Nat \ {0} /\ MaxRequests \in Nat \ {0}

VARIABLES
    hubTicks,       \* hubTick timers that are running
    hubSnaps,       \* hubSnapshotsMsg under way
    hubCollecting,  \* hubModel.collecting
    detail,         \* hubModel.detail
    ticks,          \* tick timers of dashboards that are running
    pending         \* other commands of dashboards under way

vars == <<hubTicks, hubSnaps, hubCollecting, detail, ticks, pending>>
hubVars == <<hubTicks, hubSnaps, hubCollecting>>

\* A command remembers the node its dashboard was opened for.
Commands ==
    [kind: {"snapshot", "history", "auth", "action"}, node: Nodes]
        \cup [kind: {"process", "terminate"}, node: Nodes, pid: Pids]

\* What a failed load leaves in m.processDetail, and the details of a process
\* this user cannot terminate.
Unusable == "unusable"

Management == {"admin", "confirm", "terminate"}
Screens == {"monitor", "password", "process", "layout"} \cup Management

Details ==
    [node: Nodes, screen: Screens, busy: BOOLEAN, collecting: BOOLEAN,
     filtering: BOOLEAN,
     credential: Nodes \cup {None},     \* the node m.adminCredential was checked by
     failures: 0..MaxAuthFailures, locked: BOOLEAN,
     process: Pids \cup {None},         \* m.selectedProcess
     loaded: Pids \cup {None, Unusable}, \* m.processDetail
     readOnly: BOOLEAN,
     historyDue: BOOLEAN]               \* a minute since m.hourHistoryAt

\* hubModel.Init
Init ==
    /\ hubTicks = 1 /\ hubSnaps = 1 /\ hubCollecting = TRUE
    /\ detail = None
    /\ ticks = 0
    /\ pending = [m \in Commands |-> 0]

Snapshot(n) == [kind |-> "snapshot", node |-> n]
History(n) == [kind |-> "history", node |-> n]
Auth(n) == [kind |-> "auth", node |-> n]
Action(n) == [kind |-> "action", node |-> n]
LoadProcess(n, p) == [kind |-> "process", node |-> n, pid |-> p]
Terminate(n, p) == [kind |-> "terminate", node |-> n, pid |-> p]

Limit(m) == IF m.kind = "snapshot" THEN MaxRefresh ELSE MaxRequests

\* One Update: the messages in `done' are consumed, the commands in `new' start.
Run(done, new) ==
    /\ \A m \in new : pending[m] < Limit(m)
    /\ pending' = [m \in Commands |->
                     (IF m \in done THEN pending[m] - 1 ELSE pending[m])
                       + (IF m \in new THEN 1 ELSE 0)]

Become(d) == detail' = d
InScreen(s) == detail # None /\ detail.screen = s

-----------------------------------------------------------------------------
(***************************************************************************)
(* The overview                                                            *)
(***************************************************************************)

\* hubModel.startCollect
HubStartCollect ==
    /\ hubCollecting' = TRUE
    /\ hubSnaps' = IF hubCollecting THEN hubSnaps ELSE hubSnaps + 1

\* Mutant: a timer message that arrives while a dashboard is open goes to it.
HubTickForwarded ==
    /\ hubTicks > 0
    /\ IF detail = None
       THEN HubStartCollect /\ UNCHANGED hubTicks
       ELSE hubTicks' = hubTicks - 1 /\ UNCHANGED <<hubSnaps, hubCollecting>>
    /\ UNCHANGED <<detail, ticks, pending>>

\* hubTickMsg, handled before the dashboard sees it; the timer starts again.
HubTick ==
    /\ hubTicks > 0
    /\ HubStartCollect
    /\ UNCHANGED <<hubTicks, detail, ticks, pending>>

\* hubSnapshotsMsg
HubSnapshots ==
    /\ hubSnaps > 0
    /\ hubSnaps' = hubSnaps - 1
    /\ hubCollecting' = FALSE
    /\ UNCHANGED <<hubTicks, detail, ticks, pending>>

\* The key r on the overview (what it does to the service is in HubService).
HubRefresh ==
    /\ detail = None
    /\ HubStartCollect
    /\ UNCHANGED <<hubTicks, detail, ticks, pending>>

NewDetail(n) ==
    [node |-> n, screen |-> "monitor", busy |-> FALSE, collecting |-> TRUE,
     filtering |-> FALSE, credential |-> None, failures |-> 0,
     locked |-> FALSE, process |-> None, loaded |-> None, readOnly |-> FALSE,
     historyDue |-> TRUE]

\* openSelected, on a node that is online.
OpenDetail(n) ==
    /\ detail = None
    /\ Become(NewDetail(n))
    /\ ticks < MaxRefresh /\ ticks' = ticks + 1
    /\ Run({}, {Snapshot(n)})
    /\ UNCHANGED hubVars

\* esc or q on the dashboard's main screen.  hubModel takes the key before the
\* dashboard does, also while a filter is being edited.
CloseDetail ==
    /\ InScreen("monitor")
    /\ Become(None)
    /\ HubStartCollect
    /\ UNCHANGED <<hubTicks, ticks, pending>>

\* With no dashboard open the overview ignores a dashboard's messages.
Ignore(m) ==
    /\ detail = None /\ pending[m] > 0
    /\ Run({m}, {})
    /\ UNCHANGED <<hubVars, detail, ticks>>

IgnoreTick ==
    /\ detail = None /\ ticks > 0
    /\ ticks' = ticks - 1
    /\ UNCHANGED <<hubVars, detail, pending>>

-----------------------------------------------------------------------------
(***************************************************************************)
(* monitorModel.Update: results of commands                                *)
(***************************************************************************)

\* startCollect: nothing new while a collection is under way.
Collection == IF detail.collecting THEN {} ELSE {Snapshot(detail.node)}

\* Mutant: the next timer is started only when a collection is.
TickDropsTimer ==
    /\ detail # None /\ ticks > 0
    /\ Become([detail EXCEPT !.collecting = TRUE])
    /\ ticks' = IF detail.collecting THEN ticks - 1 ELSE ticks
    /\ Run({}, Collection)
    /\ UNCHANGED hubVars

\* tickMsg: collect, start the timer again, and ask for the hour's history.
Tick ==
    /\ detail # None /\ ticks > 0
    /\ Become([detail EXCEPT !.collecting = TRUE])
    /\ Run({}, Collection \cup (IF detail.historyDue THEN {History(detail.node)} ELSE {}))
    /\ UNCHANGED <<hubVars, ticks>>

\* Mutant: a failed collection leaves m.collecting set.
SnapshotMsgKeepsCollecting(m) ==
    /\ detail # None /\ m.kind = "snapshot" /\ pending[m] > 0
    /\ Become(detail) \/ Become([detail EXCEPT !.collecting = FALSE])
    /\ Run({m}, {})
    /\ UNCHANGED <<hubVars, ticks>>

\* snapshotMsg: a snapshot, or the empty one of a failed collection.  What it
\* shows is left out; it is shown on the open dashboard whichever node it is from.
SnapshotMsg(m) ==
    /\ detail # None /\ m.kind = "snapshot" /\ pending[m] > 0
    /\ Become([detail EXCEPT !.collecting = FALSE])
    /\ Run({m}, {})
    /\ UNCHANGED <<hubVars, ticks>>

HistoryMsg(m) ==
    /\ detail # None /\ m.kind = "history" /\ pending[m] > 0
    /\ Become([detail EXCEPT !.historyDue = FALSE])
    /\ Run({m}, {})
    /\ UNCHANGED <<hubVars, ticks>>

\* authenticationResultMsg: the right password, a wrong one, or no answer.
AuthMsg(m) ==
    /\ detail # None /\ m.kind = "auth" /\ pending[m] > 0
    /\ \/ Become([detail EXCEPT !.busy = FALSE, !.screen = "admin", !.credential = m.node,
                                !.failures = 0, !.locked = FALSE])
       \/ LET failures == IF detail.failures < MaxAuthFailures
                          THEN detail.failures + 1 ELSE MaxAuthFailures
          IN  Become([detail EXCEPT !.busy = FALSE, !.failures = failures,
                                    !.locked = @ \/ failures = MaxAuthFailures])
       \/ Become([detail EXCEPT !.busy = FALSE])
    /\ Run({m}, {})
    /\ UNCHANGED <<hubVars, ticks>>

\* actionResultMsg, successful or not.
ActionMsg(m) ==
    /\ detail # None /\ m.kind = "action" /\ pending[m] > 0
    /\ Become([detail EXCEPT !.busy = FALSE, !.screen = "admin"])
    /\ Run({m}, {})
    /\ UNCHANGED <<hubVars, ticks>>

\* processDetailMsg: kept only for the selected PID.
ProcessMsg(m) ==
    /\ detail # None /\ m.kind = "process" /\ pending[m] > 0
    /\ IF detail.process = m.pid
       THEN \E got \in {m.pid, Unusable} : Become([detail EXCEPT !.loaded = got])
       ELSE UNCHANGED detail
    /\ Run({m}, {})
    /\ UNCHANGED <<hubVars, ticks>>

\* processTerminateResultMsg.  On a failure the process page is shown again; if
\* no process is selected any more, rendering it falls back to its parent page.
TerminateMsg(m) ==
    /\ detail # None /\ m.kind = "terminate" /\ pending[m] > 0
    /\ \/ /\ Become([detail EXCEPT !.busy = FALSE, !.screen = "admin", !.process = None,
                                   !.loaded = None, !.collecting = TRUE])
          /\ Run({m}, Collection)
       \/ /\ Become([detail EXCEPT !.busy = FALSE,
                       !.screen = IF detail.process # None THEN "process"
                                  ELSE IF detail.readOnly THEN "monitor" ELSE "admin"])
          /\ Run({m}, {})
    /\ UNCHANGED <<hubVars, ticks>>

-----------------------------------------------------------------------------
(***************************************************************************)
(* monitorModel.handleKey and handleClick                                  *)
(***************************************************************************)

\* A key that starts no command.
Key(d) == Become(d) /\ UNCHANGED <<hubVars, ticks, pending>>
Command(d, new) == Become(d) /\ Run({}, new) /\ UNCHANGED <<hubVars, ticks>>

\* Keys of the main screen; while a filter is edited they are text.
Refresh ==
    /\ InScreen("monitor") \/ InScreen("admin")
    /\ ~detail.filtering
    /\ Command([detail EXCEPT !.collecting = TRUE], Collection)
Manage ==
    /\ InScreen("monitor") /\ ~detail.filtering
    /\ Key([detail EXCEPT !.screen = "password"])
OpenLayout ==
    /\ InScreen("monitor") /\ ~detail.filtering
    /\ Key([detail EXCEPT !.screen = "layout"])
LeaveLayout == InScreen("layout") /\ Key([detail EXCEPT !.screen = "monitor"])
EditFilter ==
    /\ InScreen("monitor") \/ InScreen("admin")
    /\ ~detail.filtering
    /\ Key([detail EXCEPT !.filtering = TRUE])
ApplyFilter ==
    /\ InScreen("monitor") \/ InScreen("admin")
    /\ detail.filtering
    /\ Key([detail EXCEPT !.filtering = FALSE])

\* The password screen: esc, and enter with a password typed.
CancelPassword == InScreen("password") /\ Key([detail EXCEPT !.screen = "monitor"])
SubmitPassword ==
    /\ InScreen("password")
    /\ ~detail.locked /\ ~detail.busy
    /\ Command([detail EXCEPT !.busy = TRUE], {Auth(detail.node)})

\* The management screen.
LeaveAdmin ==
    /\ InScreen("admin") /\ ~detail.filtering
    /\ Key([detail EXCEPT !.screen = "monitor", !.credential = None])
SelectAction == InScreen("admin") /\ Key([detail EXCEPT !.screen = "confirm"])
CancelAction == InScreen("confirm") /\ Key([detail EXCEPT !.screen = "admin"])
ConfirmAction ==
    /\ InScreen("confirm") /\ ~detail.busy
    /\ Command([detail EXCEPT !.busy = TRUE], {Action(detail.node)})

\* openProcessMode, read-only from the main screen.
OpenProcess(p) ==
    /\ InScreen("monitor") \/ InScreen("admin")
    /\ Command([detail EXCEPT !.process = p, !.loaded = None, !.screen = "process",
                              !.readOnly = (detail.screen = "monitor")],
               {LoadProcess(detail.node, p)})
ReloadProcess ==
    /\ InScreen("process") /\ detail.process # None
    /\ Command(detail, {LoadProcess(detail.node, detail.process)})
LeaveProcess ==
    /\ InScreen("process")
    /\ Key([detail EXCEPT !.screen = IF detail.readOnly THEN "monitor" ELSE "admin"])
\* Mutant: the key is accepted while the details are still loading.
AskTerminateEarly ==
    /\ InScreen("process")
    /\ ~detail.readOnly /\ detail.process # None
    /\ Key([detail EXCEPT !.screen = "terminate"])
\* selectedProcessCanTerminate
AskTerminate ==
    /\ InScreen("process")
    /\ ~detail.readOnly /\ detail.loaded = detail.process /\ detail.process # None
    /\ Key([detail EXCEPT !.screen = "terminate"])
CancelTerminate == InScreen("terminate") /\ Key([detail EXCEPT !.screen = "process"])
ConfirmTerminate ==
    /\ InScreen("terminate") /\ detail.process # None /\ ~detail.busy
    /\ Command([detail EXCEPT !.busy = TRUE], {Terminate(detail.node, detail.process)})

\* Time: the lockout ends; a minute has passed since the history was loaded.
LockoutEnds ==
    /\ detail # None /\ detail.locked
    /\ Key([detail EXCEPT !.locked = FALSE])
HistoryAges ==
    /\ detail # None /\ ~detail.historyDue
    /\ Key([detail EXCEPT !.historyDue = TRUE])

UserKey ==
    \/ Refresh \/ Manage \/ OpenLayout \/ LeaveLayout \/ EditFilter \/ ApplyFilter
    \/ CancelPassword \/ SubmitPassword
    \/ LeaveAdmin \/ SelectAction \/ CancelAction \/ ConfirmAction
    \/ \E p \in Pids : OpenProcess(p)
    \/ ReloadProcess \/ LeaveProcess \/ AskTerminate \/ CancelTerminate \/ ConfirmTerminate

Delivery(m) ==
    \/ Ignore(m) \/ SnapshotMsg(m) \/ HistoryMsg(m) \/ AuthMsg(m) \/ ActionMsg(m)
    \/ ProcessMsg(m) \/ TerminateMsg(m)

Next ==
    \/ HubTick \/ HubSnapshots \/ HubRefresh
    \/ \E n \in Nodes : OpenDetail(n)
    \/ CloseDetail
    \/ IgnoreTick \/ Tick
    \/ \E m \in Commands : Delivery(m)
    \/ UserKey
    \/ LockoutEnds \/ HistoryAges

Spec == Init /\ [][Next]_vars

(***************************************************************************)
(* The event loop delivers every message, and every command ends: an RPC   *)
(* by its deadline, a timer by itself.  Nothing is assumed of the user.    *)
(***************************************************************************)
Fairness ==
    /\ WF_vars(HubTick) /\ WF_vars(HubSnapshots) /\ WF_vars(Tick \/ IgnoreTick)
    /\ \A m \in Commands : WF_vars(Delivery(m))

FairSpec == Spec /\ Fairness

-----------------------------------------------------------------------------
(***************************************************************************)
(* Properties                                                              *)
(***************************************************************************)

\* Whatever dashboards are opened and closed, the overview keeps exactly one
\* refresh timer, and it is collecting only while an answer is under way
\* ("Forwarding either message to the child drops the refresh timer chain and
\* can leave collecting stuck at true.", hub.go:623-625).
HubRefreshAlive == hubTicks = 1 /\ (hubCollecting <=> hubSnaps = 1)

\* An open dashboard never stops refreshing: a timer is running, and it waits
\* for a snapshot only while one is under way, also when messages of an earlier
\* dashboard arrive (main.go, Update and startCollect).
DetailRefreshAlive ==
    detail # None =>
        /\ ticks >= 1
        /\ detail.collecting => \E n \in Nodes : pending[Snapshot(n)] > 0

\* On the page that confirms a SIGTERM m.processDetail is never nil, and it is the
\* selected process's or unusable: confirming, which dereferences it, sends the
\* start time of that PID or none, which the node refuses (main.go:904 and 1096).
TerminateKnowsProcess ==
    InScreen("terminate") =>
        detail.process # None /\ detail.loaded \in {detail.process, Unusable}

\* A dashboard that stays open gets an answer from its own node's command.
DetailAnswered ==
    \A n \in Nodes :
        detail # None /\ detail.node = n /\ detail.collecting
            ~> detail = None \/ detail.node # n \/ ~detail.collecting

\* In management mode the password in use was checked by the node it is used on
\* (docs/hub.md:9).
CredentialOfThisNode ==
    detail # None => detail.credential \in {detail.node, None}
=============================================================================
