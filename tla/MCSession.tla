------------------------------ MODULE MCSession ------------------------------
(***************************************************************************)
(* The parts of one user's session that share no state, in one run: a       *)
(* behaviour is one of the overview and its dashboards, of the cards of the *)
(* overview, of the Slurm page, or of a process list; the others stay as    *)
(* they began. Fairness is that of HubSession, the part with a liveness     *)
(* property.                                                               *)
(***************************************************************************)
EXTENDS HubSession, Sequences, FiniteSetsExt, SequencesExt

CONSTANTS
    PIDs, Tables, Queries, Rows,  \* of ProcessTable
    NumClusters, Partitions, Answers, Dashboards, GPUTypes, Untyped, PageStep,  \* of SlurmQueue
    Configs, Terminals  \* of HubGrid

VARIABLES
    part,
    slurmStates, ui, dashboard, chosen,
    processes, filter, filtering, screen, sort, cursor, offset,
    config, terminal, size, selected, page, opened

queueVars == <<slurmStates, ui, dashboard, chosen>>
tableVars == <<processes, filter, filtering, screen, sort, cursor, offset>>
gridVars == <<config, terminal, size, selected, page, opened>>

-----------------------------------------------------------------------------
(* Two clusters: the first with a job array whose pending rest shrinks, one *)
(* of its tasks, a job for any GPU and a job of a partition that is         *)
(* filtered out; the second with a job that waits for another one or for a  *)
(* GPU of type a.                                                          *)

GPUs == [a |-> 0, b |-> 0, any |-> 0]
OneOf(k) == [GPUs EXCEPT ![k] = 1]

Job(id, base, rest, state, on, gres) ==
    [id |-> id, base |-> base, rest |-> rest, partition |-> "gpu", state |-> state, reason |-> "Resources",
     nodeList |-> on, expected |-> {}, requested |-> {}, excluded |-> {}, gres |-> gres,
     cpus |-> 2, nodes |-> 1, memory |-> 1]

Rest(id) == Job(id, "A", TRUE, "PENDING", {}, OneOf("a"))
Task(on) == Job("A_1", "A", FALSE, "RUNNING", on, OneOf("a"))
AnyGPU(state, on) == [Job("B", "B", FALSE, state, on, OneOf("any")) EXCEPT !.excluded = {"n2"}]
Foreign == [Job("C", "C", FALSE, "PENDING", {}, GPUs) EXCEPT !.partition = "cpu"]
Waiting == [Job("D", "D", FALSE, "PENDING", {}, OneOf("a")) EXCEPT !.reason = "Dependency"]

Optional(rows) == {<<>>} \cup {<<row>> : row \in rows}
Queues1 ==
    {FlattenSeq(<<rest, task, any, <<Foreign>>>>) :
        rest \in Optional({Rest("A_[1-3]"), Rest("A_[2-3]")}),
        task \in Optional({Task({"n1"})}),
        any \in Optional({AnyGPU("PENDING", {}), AnyGPU("RUNNING", {"n1"})})}
    \cup {<<AnyGPU("PENDING", {}), Rest("A_[2-3]")>>, <<AnyGPU("RUNNING", {"n1"}), Rest("A_[1-3]")>>}
Queues2 == Optional({Waiting, [Waiting EXCEPT !.reason = "Resources"]})

Row(name, partition, gres) ==
    [name |-> name, partition |-> partition, gres |-> gres, state |-> "mix", cpusIdle |-> 2, memory |-> 3]
TwoOfA == [GPUs EXCEPT !["a"] = 2]
OneOfEach == [GPUs EXCEPT !["a"] = 1, !["b"] = 1]
Nodes1 == {Row("n1", "gpu", TwoOfA), Row("n1", "cpu", TwoOfA), Row("n2", "gpu", OneOfEach)}
Nodes2 == {Row("n3", "gpu", OneOfEach)}

GPUPartition == <<{"gpu"}, {}>>
SomeAnswers ==
    <<{[jobs |-> q, nodes |-> Nodes1] : q \in Queues1}, {[jobs |-> q, nodes |-> Nodes2] : q \in Queues2}>>
SomeDashboards == {[cluster |-> 0, node |-> "n0"], [cluster |-> 1, node |-> "n1"], [cluster |-> 1, node |-> "n2"]}
Queue == INSTANCE SlurmQueue WITH detail <- dashboard

\* Three processes that change places, and lists from which some are gone.
ThreePIDs == 1..3
SomeQueries == {1..3, 2..3}
SomeTables == {<<>>} \cup [1..3 -> {0, 1}] \cup {[p \in pids |-> 1] : pids \in {{1, 3}, {3}}}
Table == INSTANCE ProcessTable

\* Configurations from which no card can be drawn, that are refused, and with small and large groups that begin
\* in every column; terminals with one to five columns, and with one to five rows.
SomeConfigs ==
    {[groups |-> <<"g", "h", "i">>, nodes |-> nodes] : nodes \in
        {<<>>, <<"i">>, <<"h", "g">>, <<"h", "h", "g">>, <<"i", "h", "g", "h", "g", "i", "g">>,
         <<"h", "g", "g", "g", "i", "i", "h">>, <<"g", "g", "h", "h", "h", "h", "h", "i", "i">>,
         <<"h", "h", "h", "h", "h", "h", "g", "i", "i", "h", "h", "h">>, <<"h", "none">>}}
    \cup {[groups |-> <<"g", "g">>, nodes |-> <<"g">>]}
SomeTerminals ==
    {[width |-> shape[1], height |-> shape[2]] :
        shape \in {<<30, 10>>, <<30, 40>>, <<80, 24>>, <<120, 10>>, <<160, 24>>, <<244, 24>>}}
Cards == INSTANCE HubGrid

-----------------------------------------------------------------------------
(* What the nodes and the clusters answer, and what the files hold.          *)

\* A table has a row, and the snapshots list finitely many processes.
Lists == Rows \in Nat \ {0} /\ \A table \in Tables : IsFiniteSet(DOMAIN table)

\* The jobs in the answers of a cluster.
Answered(c) == UNION {{answer.jobs[i] : i \in DOMAIN answer.jobs} : answer \in Answers[c]}

\* squeue prints a list of jobs, each under an id of its own that tells whether it is the rest of an array, which is pending.
Squeue ==
    /\ NumClusters \in Nat
    /\ \A c \in Queue!Clusters : \A answer \in Answers[c] :
          Len(answer.jobs) \in Nat /\ DOMAIN answer.jobs = 1..Len(answer.jobs)
    /\ \A c \in Queue!Clusters : \A job, other \in Answered(c) :
          /\ job.id # None /\ job.rest \in BOOLEAN /\ (job.rest => Queue!isSlurmPending(job.state))
          /\ job.id = other.id => job.base = other.base /\ job.rest = other.rest

\* GPUs are counted per type, and sinfo prints finitely many nodes.
Counted ==
    /\ IsFiniteSet(GPUTypes) /\ Untyped \notin GPUTypes
    /\ \A c \in Queue!Clusters : \A answer \in Answers[c] :
          /\ \A i \in DOMAIN answer.jobs : answer.jobs[i].gres \in [Queue!Kinds -> Nat]
          /\ IsFiniteSet(answer.nodes) /\ \A row \in answer.nodes : row.gres \in [Queue!Kinds -> Nat]

\* The configuration files are lists of groups and of the groups of nodes, and sizes are numbers.
FilesAndScreens ==
    /\ Configs \subseteq [groups : Seq(STRING), nodes : Seq(STRING)]
    /\ Terminals \subseteq [width : Int, height : Int]

ASSUME SourcesAssumption == Lists /\ Squeue /\ Counted /\ FilesAndScreens

-----------------------------------------------------------------------------
SessionInit ==
    /\ part \in {"session", "queue", "table", "cards"}
    /\ Init /\ Queue!Init /\ Table!Init /\ Cards!Init
    /\ part # "cards" => /\ config = CHOOSE c \in Configs : Cards!loadHubConfig(c)
                         /\ terminal = CHOOSE t \in Terminals : TRUE

SessionStep == part = "session" /\ Next /\ UNCHANGED <<part, queueVars, tableVars, gridVars>>
QueueStep == part = "queue" /\ Queue!Next /\ UNCHANGED <<part, vars, tableVars, gridVars>>
TableStep == part = "table" /\ Table!Next /\ UNCHANGED <<part, vars, queueVars, gridVars>>
CardStep == part = "cards" /\ Cards!Next /\ UNCHANGED <<part, vars, queueVars, tableVars>>

SessionNext == SessionStep \/ QueueStep \/ TableStep \/ CardStep
SessionSpec == SessionInit /\ [][SessionNext]_<<part, vars, queueVars, tableVars, gridVars>> /\ Fairness

\* SlurmQueue: an explanation stays with its job.
ExplanationFollowsJob == Queue!ExplanationFollowsJob
\* SlurmQueue: a node that is shown as fitting has the GPUs free.
FitIsReal == part = "queue" => Queue!FitIsReal
\* ProcessTable: a selection stays with its process.
SelectionFollowsProcess == Table!SelectionFollowsProcess
\* HubGrid: every node has its card, and the selected one is on the page that is shown.
OverviewIsWhole == part = "cards" => Cards!OverviewIsWhole
\* HubGrid: the overview and the dashboards have the size of the terminal.
LaidOutForTerminal == part = "cards" => Cards!LaidOutForTerminal
=============================================================================
