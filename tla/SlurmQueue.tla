----------------------------- MODULE SlurmQueue -----------------------------
(***************************************************************************)
(* The Slurm page of a Hub session (hubModel): the job list built from the  *)
(* latest answer of every cluster, the selection in it, the explanation of  *)
(* one pending job, and the queue shown on a node's dashboard. The answers  *)
(* replace each other under an open explanation.                            *)
(*                                                                         *)
(* A node expression is the set of nodes it names, and a GRES string the    *)
(* number of GPUs per type, Untyped for those that name none. A list is     *)
(* rendered after every message, and rendering clamps the selection; the    *)
(* first visible row (slurmOffset) is left out.                             *)
(***************************************************************************)
EXTENDS Integers, Sequences, FiniteSets, FiniteSetsExt, Totals

CONSTANTS
    NumClusters,   \* configured clusters; a cluster is named by its index
    Partitions,    \* cluster -> its configured partition filter, {} for all
    Answers,       \* cluster -> the answers of squeue and sinfo: [jobs, nodes]
    Dashboards,    \* configured Hub nodes: [cluster, node], cluster 0 when not in a cluster
    GPUTypes, Untyped, \* types of GPU, and the GPUs that name no type
    PageStep,      \* half of the screen's height
    None

Clusters == 1..NumClusters
Kinds == GPUTypes \cup {Untyped}
NoGPU == [k \in Kinds |-> 0]

VARIABLES
    slurmStates,  \* cluster -> [error, collected, jobs, nodes] of its latest state
    ui,           \* slurmView, slurmFilter, slurmCursor, slurmExplain, slurmJobID and slurmJobCluster
    detail,       \* the dashboard that is open, and its slurmQueue
    chosen        \* the job whose explanation the user asked for (not in the code)

vars == <<slurmStates, ui, detail, chosen>>

Lesser(m, n) == IF m < n THEN m ELSE n
Greater(m, n) == IF m < n THEN n ELSE m
Within(n, low, high) == Lesser(Greater(low, n), high)

\* The members of a set in an order, which is a set of pairs.
Ranked(set, before) ==
    [n \in 1..Cardinality(set) |-> CHOOSE a \in set : Cardinality({b \in set : <<b, a>> \in before}) = n - 1]

----------------------------------------------------------------------------
(* The answers of a cluster. *)

Allowed(c, partition) == Partitions[c] # {} => partition \in Partitions[c]

parseSlurmJobs(c, rows) ==
    LET kept == {i \in DOMAIN rows : Allowed(c, rows[i].partition)}
        lines == Ranked(kept, {pair \in kept \X kept : pair[1] < pair[2]})
    IN [n \in DOMAIN lines |-> rows[lines[n]]]

\* Equal GRES strings of a node are counted once.
mergedGRES(strings) == [k \in Kinds |-> Total([g \in strings |-> g[k]])]

\* sinfo prints a node once per partition.
parseSlurmNodes(c, rows) ==
    LET kept == {row \in rows : Allowed(c, row.partition)}
        Merged(name) ==
            LET mine == {row \in kept : row.name = name}
                row == CHOOSE r \in mine : TRUE
            IN [name |-> name, partitions |-> {r.partition : r \in mine},
                gres |-> mergedGRES({r.gres : r \in mine}),
                state |-> row.state, cpusIdle |-> row.cpusIdle, memory |-> row.memory]
    IN {Merged(name) : name \in {row.name : row \in kept}}

Unreported == [error |-> FALSE, collected |-> FALSE, jobs |-> <<>>, nodes |-> {}]
Collected(c, answer) ==
    [error |-> FALSE, collected |-> TRUE,
     jobs |-> parseSlurmJobs(c, answer.jobs), nodes |-> parseSlurmNodes(c, answer.nodes)]
States(c) == {Unreported, [Unreported EXCEPT !.error = TRUE]}
                 \cup {Collected(c, answer) : answer \in Answers[c]}

----------------------------------------------------------------------------
(* The job list. *)

isSlurmRunning(state) == state \in {"RUNNING", "COMPLETING"}
isSlurmPending(state) == state \in {"PENDING", "CONFIGURING"}

slurmEligibleForNext(job) ==
    /\ isSlurmPending(job.state)
    /\ job.reason \notin {"JobArrayTaskLimit", "Dependency", "DependencyNeverSatisfied"}

\* The first eligible job of a partition, in the order of squeue, is next.
markSlurmNext(jobs, shown, i) ==
    /\ slurmEligibleForNext(jobs[i])
    /\ \A k \in shown : k < i /\ slurmEligibleForNext(jobs[k]) => jobs[k].partition # jobs[i].partition

\* The rows of a list that shows the jobs at these places of a cluster's answer.
Display(c, jobs, shown) ==
    {[cluster |-> c, job |-> jobs[i], next |-> markSlurmNext(jobs, shown, i), order |-> i] : i \in shown}

sortRank(d) == IF isSlurmRunning(d.job.state) THEN 0
               ELSE IF d.next THEN 1
               ELSE IF isSlurmPending(d.job.state) THEN 2 ELSE 3

sortSlurmJobs(rows) ==
    LET Before(a, b) == \/ sortRank(a) < sortRank(b)
                        \/ sortRank(a) = sortRank(b) /\ a.cluster < b.cluster
                        \/ sortRank(a) = sortRank(b) /\ a.cluster = b.cluster /\ a.order < b.order
    IN Ranked(rows, {pair \in rows \X rows : Before(pair[1], pair[2])})

\* The job list of the filter, an index of a cluster or 0 for all.
Listed(states, filter) ==
    {c \in Clusters : (filter = 0 \/ c = filter) /\ ~states[c].error /\ states[c].collected}
selectedSlurmJobs(states, filter) ==
    sortSlurmJobs(UNION {Display(c, states[c].jobs, DOMAIN states[c].jobs) : c \in Listed(states, filter)})

----------------------------------------------------------------------------
(* Which nodes a pending job may run on, and what it lacks there. *)

slurmGPUTotal(counts) == Total(counts)

slurmPendingJobMatchesNode(job, name, nodes) ==
    IF job.nodeList # {} THEN name \in job.nodeList
    ELSE IF job.expected # {} THEN name \in job.expected
    ELSE /\ job.requested # {} => name \in job.requested
         /\ name \notin job.excluded
         /\ job.gres # NoGPU =>
               \E node \in nodes :
                   /\ node.name = name
                   /\ \A k \in Kinds : job.gres[k] > 0 =>
                         job.gres[k] <= IF k = Untyped THEN slurmGPUTotal(node.gres) ELSE node.gres[k]

RunningOn(name, jobs) == {i \in DOMAIN jobs : isSlurmRunning(jobs[i].state) /\ name \in jobs[i].nodeList}

\* The GPUs of the jobs that run on the node.
Used(name, jobs) == [k \in Kinds |-> Total([i \in RunningOn(name, jobs) |-> jobs[i].gres[k]])]

\* Mutant: forgets that a running job which names no type holds some GPU of this type.
GPUFitByType(job, node, jobs) ==
    LET used == Used(node.name, jobs)
    IN \A k \in Kinds : job.gres[k] > 0 =>
           job.gres[k] <= IF k = Untyped THEN slurmGPUTotal(node.gres) - slurmGPUTotal(used)
                          ELSE node.gres[k] - used[k]

slurmNodeGPUFit(job, node, jobs) ==
    LET used == Used(node.name, jobs)
    IN \A k \in Kinds : job.gres[k] > 0 =>
           job.gres[k] <= IF k = Untyped THEN slurmGPUTotal(node.gres) - slurmGPUTotal(used)
                          ELSE node.gres[k] - used[k] - used[Untyped]

slurmPerNodeCPUs(job) == (job.cpus + Greater(1, job.nodes) - 1) \div Greater(1, job.nodes)

slurmNodeMemoryAvailable(node, jobs) ==
    Greater(0, node.memory - Total([i \in RunningOn(node.name, jobs) |-> jobs[i].memory]))

Blockers(job, node, jobs) ==
    {b \in {"STATE", "CPU", "MEM", "GPU"} :
        \/ b = "STATE" /\ node.state \notin {"idle", "mix", "alloc"}
        \/ b = "CPU" /\ node.cpusIdle < slurmPerNodeCPUs(job)
        \/ b = "MEM" /\ job.memory > 0 /\ node.memory > 0 /\ slurmNodeMemoryAvailable(node, jobs) < job.memory
        \/ b = "GPU" /\ job.gres # NoGPU /\ ~slurmNodeGPUFit(job, node, jobs)}

slurmCandidateNodeFits(job, snapshot) ==
    {[node |-> node, blockers |-> Blockers(job, node, snapshot.jobs)] : node \in
        {n \in snapshot.nodes : /\ job.partition \in n.partitions
                                /\ slurmPendingJobMatchesNode(job, n.name, snapshot.nodes)}}

\* The badge: what the best candidate lacks. Only the reason Resources is looked into.
explainSlurmJob(job, snapshot) ==
    IF isSlurmRunning(job.state) THEN {"RUNNING"}
    ELSE IF job.reason # "Resources" THEN {job.reason}
    ELSE LET fits == slurmCandidateNodeFits(job, snapshot)
         IN IF fits = {} THEN {"NO CANDIDATE"}
            ELSE (CHOOSE f \in fits : \A g \in fits : Cardinality(f.blockers) <= Cardinality(g.blockers)).blockers

\* The queue of one node: what runs there, and the pending jobs that may.
nodeSlurmQueue(states, dashboard) ==
    IF dashboard.cluster = 0 THEN None
    ELSE LET state == states[dashboard.cluster]
             name == dashboard.node
             Here(job) == \/ isSlurmRunning(job.state) /\ name \in job.nodeList
                          \/ /\ isSlurmPending(job.state)
                             /\ \E n \in state.nodes : n.name = name /\ job.partition \in n.partitions
                             /\ slurmPendingJobMatchesNode(job, name, state.nodes)
         IN IF state.error THEN <<>>
            ELSE sortSlurmJobs(Display(dashboard.cluster, state.jobs, {i \in DOMAIN state.jobs : Here(state.jobs[i])}))

----------------------------------------------------------------------------
(* The selection. *)

\* The pending rest of a job array is printed as base_[range], and the range shrinks as tasks start.
slurmStableJobID(job) == IF isSlurmPending(job.state) /\ job.rest THEN <<job.base, "rest">> ELSE <<job.id>>

Forget(u) == [u EXCEPT !.id = None, !.cluster = 0]

rememberSlurmSelection(u, jobs) ==
    IF u.cursor \in DOMAIN jobs
    THEN [u EXCEPT !.id = slurmStableJobID(jobs[u.cursor].job), !.cluster = jobs[u.cursor].cluster]
    ELSE Forget(u)

\* Mutant: the selection stays at its row.
ClampOnly(u, jobs) ==
    IF jobs = <<>> THEN [Forget(u) EXCEPT !.cursor = 1, !.explain = FALSE]
    ELSE [u EXCEPT !.cursor = Within(u.cursor, 1, Len(jobs))]

\* Called for every new answer and whenever the page is rendered.
clampSlurmCursor(u, jobs) ==
    LET found == {i \in DOMAIN jobs : slurmStableJobID(jobs[i].job) = u.id /\ jobs[i].cluster = u.cluster}
        clamped == [u EXCEPT !.cursor = Within(u.cursor, 1, Len(jobs))]
    IN IF jobs = <<>> THEN [Forget(u) EXCEPT !.cursor = 1, !.explain = FALSE]
       ELSE IF ~u.explain \/ u.id = None THEN clamped
       ELSE IF found # {} THEN [u EXCEPT !.cursor = Min(found)]
       ELSE [Forget(clamped) EXCEPT !.explain = FALSE]

slurmQueueView(u) == IF u.view THEN clampSlurmCursor(u, selectedSlurmJobs(slurmStates, u.filter)) ELSE u

Identity(d) == <<d.cluster, d.job.base, IF d.job.rest THEN None ELSE d.job.id>>

----------------------------------------------------------------------------
(* Messages and keys. *)

Init ==
    /\ slurmStates \in [Clusters -> {Unreported}]
    /\ ui = [view |-> Dashboards = {}, filter |-> 0, cursor |-> 1, explain |-> FALSE, id |-> None, cluster |-> 0]
    /\ detail = None /\ chosen = None

Key(u) == detail = None /\ ui' = slurmQueueView(u) /\ UNCHANGED <<slurmStates, detail>>
SameChoice == UNCHANGED chosen

\* hubSnapshotsMsg, for an answer in which one cluster's state is new.
hubSnapshots ==
    \E c \in Clusters : \E state \in States(c) :
        LET states == [slurmStates EXCEPT ![c] = state] IN
        /\ slurmStates' = states
        /\ ui' = clampSlurmCursor(ui, selectedSlurmJobs(states, ui.filter))
        /\ detail' = IF detail = None THEN None
                     ELSE [detail EXCEPT !.queue = nodeSlurmQueue(states, detail.node)]
        /\ UNCHANGED chosen

Jobs == selectedSlurmJobs(slurmStates, ui.filter)

\* The explanation is opened for the job at the row, or follows the selection to it.
Explain(row) ==
    LET u == rememberSlurmSelection([ui EXCEPT !.cursor = row, !.explain = TRUE], Jobs)
    IN Key(u) /\ chosen' = Identity(Jobs[row])

moveSlurmCursor(delta) ==
    LET row == Within(ui.cursor + delta, 1, Len(Jobs)) IN
    /\ ui.view /\ Jobs # <<>>
    /\ IF ui.explain THEN Explain(row) ELSE Key([ui EXCEPT !.cursor = row]) /\ SameChoice

moveSlurmFilter(delta) ==
    /\ ui.view /\ ~ui.explain /\ NumClusters > 0
    /\ Key([Forget(ui) EXCEPT !.filter = Within(ui.filter + delta, 0, NumClusters), !.cursor = 1])
    /\ SameChoice

Enter ==
    /\ ui.view /\ Jobs # <<>>
    /\ IF ui.explain THEN Key([Forget(ui) EXCEPT !.explain = FALSE]) /\ SameChoice ELSE Explain(ui.cursor)

\* A click closes an explanation; otherwise it selects a cluster card or opens a job of the list.
Click ==
    /\ ui.view
    /\ \/ ui.explain /\ Key([Forget(ui) EXCEPT !.explain = FALSE]) /\ SameChoice
       \/ /\ ~ui.explain
          /\ \/ \E c \in Clusters : Key([Forget(ui) EXCEPT !.filter = c, !.cursor = 1]) /\ SameChoice
             \/ \E row \in DOMAIN Jobs : Explain(row)

\* q or esc in the Slurm page: out of the explanation, then out of the page.
Back ==
    /\ ui.view
    /\ Key(IF ui.explain THEN [Forget(ui) EXCEPT !.explain = FALSE] ELSE [ui EXCEPT !.view = FALSE])
    /\ SameChoice

\* tab and s.
SwitchView(view) ==
    /\ NumClusters > 0
    /\ Key([Forget(ui) EXCEPT !.view = view, !.cursor = 1, !.explain = FALSE])
    /\ SameChoice

\* a: all clusters. An open explanation stays open without a remembered job.
ShowAll == ui.view /\ Key([Forget(ui) EXCEPT !.filter = 0, !.cursor = 1]) /\ SameChoice

openSelected ==
    /\ detail = None /\ ~ui.view
    /\ \E d \in Dashboards : detail' = [node |-> d, queue |-> nodeSlurmQueue(slurmStates, d)]
    /\ UNCHANGED <<slurmStates, ui, chosen>>

CloseDetail == detail # None /\ detail' = None /\ UNCHANGED <<slurmStates, ui, chosen>>

Next ==
    \/ hubSnapshots
    \/ \E delta \in {-1, 1, -PageStep, PageStep} : moveSlurmCursor(delta)
    \/ \E delta \in {-1, 1} : moveSlurmFilter(delta)
    \/ Enter \/ Click \/ Back \/ ShowAll
    \/ SwitchView(~ui.view) \/ SwitchView(TRUE)
    \/ openSelected \/ CloseDetail

Spec == Init /\ [][Next]_vars

----------------------------------------------------------------------------
(* Properties. *)

\* A new answer of the clusters never changes the job an explanation is about: as long as the job is
\* listed, the explanation shows it, wherever it moved in the list and however the range of its array
\* shrank; once it is not listed, the explanation closes (clampSlurmCursor, slurmStableJobID). The
\* explanation that key a leaves without a remembered job is not covered.
ExplanationFollowsJob ==
    [][(slurmStates' # slurmStates /\ ui.explain /\ ui.id # None) =>
        LET jobs == selectedSlurmJobs(slurmStates', ui.filter) IN
        IF \E i \in DOMAIN jobs : Identity(jobs[i]) = chosen
        THEN ui'.explain /\ Identity(jobs[ui'.cursor]) = chosen
        ELSE ~ui'.explain]_vars

\* The ways in which the GPUs of running jobs that named no type may be spread over a node's GPUs.
Spreads(node, used) ==
    {d \in [Kinds -> 0..used[Untyped]] :
        /\ slurmGPUTotal(d) = used[Untyped]
        /\ \A k \in Kinds : d[k] + (IF k = Untyped THEN 0 ELSE used[k]) <= node.gres[k]}

\* The node can take the job, however those GPUs are spread.
HasRoom(job, node, jobs) ==
    LET used == Used(node.name, jobs)
        Free(d, k) == node.gres[k] - d[k] - (IF k = Untyped THEN 0 ELSE used[k])
    IN \A d \in Spreads(node, used) :
          /\ \A t \in GPUTypes : job.gres[t] <= Free(d, t)
          /\ job.gres[Untyped] <= Total([k \in Kinds |-> Free(d, k)])

\* A node that an explanation shows as fitting has the GPUs free, whichever of its GPUs the running jobs
\* that named no type have taken, and an explanation that finds no blocker knows such a node
\* (slurmNodeGPUFit, slurmCandidateNodeFits, explainSlurmJob). A request that mixes typed and untyped
\* GPUs is not covered: the code checks its parts one by one.
FitIsReal ==
    \A c \in Clusters : LET now == slurmStates[c] IN \A i \in DOMAIN now.jobs :
        LET job == now.jobs[i]
            mixed == job.gres[Untyped] > 0 /\ \E t \in GPUTypes : job.gres[t] > 0
            fits == slurmCandidateNodeFits(job, now)
        IN isSlurmPending(job.state) /\ ~mixed =>
              /\ \A fit \in fits : fit.blockers = {} => HasRoom(job, fit.node, now.jobs)
              /\ explainSlurmJob(job, now) = {} => \E fit \in fits : HasRoom(job, fit.node, now.jobs)
=============================================================================
