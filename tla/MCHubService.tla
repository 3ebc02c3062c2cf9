---------------------------- MODULE MCHubService ----------------------------
(***************************************************************************)
(* Small instances of HubService.  The two polling loops of a Hub share     *)
(* only the users' `r' and the end of the process, so one run checks them   *)
(* one after the other: a behaviour has nodes and no clusters, or clusters  *)
(* and no nodes.                                                            *)
(***************************************************************************)
EXTENDS HubService

VARIABLE part

\* One of the clusters is asked in every unit of time, so that the shared ticker
\* is faster than the other's interval.
UnevenIntervals ==
    LET fast == CHOOSE c \in Clusters : TRUE
    IN  [c \in Clusters |-> IF c = fast THEN 1 ELSE 2]

NodeHub == INSTANCE HubService WITH Clusters <- {}, SlurmRefresh <- [c \in {} |-> 1]
SlurmHub == INSTANCE HubService WITH
    Nodes <- {}, Refresh <- 1, RetryInitial <- 1, RetryMaximum <- 1, HistoryInterval <- 1

PollingInit == (part = "nodes" /\ NodeHub!Init) \/ (part = "slurm" /\ SlurmHub!Init)

OfNodes(step) == part = "nodes" /\ step /\ UNCHANGED part
OfSlurm(step) == part = "slurm" /\ step /\ UNCHANGED part

\* The loop of the nodes has nothing to do without nodes and is left where it is.
SlurmNext ==
    \/ SlurmHub!SlurmLoopStep
    \/ \E c \in Clusters : SlurmHub!ClusterQuery(c)
    \/ \E s \in Sessions : SlurmHub!RetryOffline(s) \/ SlurmHub!RequestCollect(s)
    \/ SlurmHub!Elapse \/ SlurmHub!Stop

PollingNext == OfNodes(NodeHub!Next) \/ OfSlurm(SlurmNext)

\* HubService!Fairness, of the part that runs.
PollingFairness ==
    LET all == <<vars, part>> IN
    /\ WF_all(OfNodes(NodeHub!NodeLoopStep)) /\ WF_all(OfNodes(NodeHub!Elapse))
    /\ \A n \in Nodes : WF_all(OfNodes(NodeHub!NodeCall(n)))
    /\ WF_all(OfSlurm(SlurmHub!SlurmLoopStep)) /\ WF_all(OfSlurm(SlurmHub!Elapse))
    /\ \A c \in Clusters : WF_all(OfSlurm(SlurmHub!ClusterQuery(c)))

PollingSpec == PollingInit /\ [][PollingNext]_<<vars, part>> /\ PollingFairness

\* HubService!NodesPolledForever, where there are nodes: back-off, dropped ticks,
\* the freshness test and coalesced wake-ups starve none of them (runNodes).
EveryNodePolled == \A n \in Nodes : []<>(part = "nodes" => NodePolled(n))
\* HubService!ClustersPolledForever, where there are clusters (runSlurm).
EveryClusterPolled == \A c \in Clusters : []<>(part = "slurm" => ClusterPolled(c))
=============================================================================
