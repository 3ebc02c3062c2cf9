--------------------------- MODULE NodeManagement ---------------------------
(***************************************************************************)
(* Management of one node: SSH connections behind the connection limiter,   *)
(* process details, the termination of a process and the management actions. *)
(* An unprivileged node hands what needs root to the privileged helper, a   *)
(* process of its own; a privileged one acts itself. Processes come and go  *)
(* and their PIDs are given to others, answers are lost, and requests are   *)
(* repeated by whoever did not get one.                                     *)
(*                                                                         *)
(* A process is its PID and the start time readProcessStartTicks returns.   *)
(* The kernel gives out PIDs in turn, so one that was just freed is not     *)
(* given away while a handler is between two adjacent system calls.         *)
(***************************************************************************)
EXTENDS Naturals, FiniteSets

CONSTANTS
    Clients,         \* connections to the node
    PIDs,
    MaxConnections,  \* connectionLimit
    MaxRequests,     \* bound on the requests under way
    MaxStarts        \* bound on the start times

Nobody == 0          \* no process, or a start time that could not be read
Init1 == 1           \* the init process

ASSUME ManagementAssumption ==
    /\ IsFiniteSet(Clients) /\ MaxConnections \in Nat \ {0}
    /\ PIDs \subseteq Nat \ {0} /\ {1, 2, 3} \subseteq PIDs

VARIABLES
    active,     \* connectionLimiter.active
    conn,       \* client -> "none", "over" (counted, above the limit) or "accepted"
    closers,    \* client -> who has still to close the accepted connection
    procs,      \* PID -> its process
    node,       \* os.Getpid of the node
    helper,     \* os.Getpid of the helper, or Nobody
    direct,     \* the node runs as root, without a helper
    screen,     \* the process detail on the user's screen: [pid, name, start]
    requests,   \* [op, pid, start, name, at]: the requests under way
    clock       \* the last start time

limiter == <<active, conn, closers>>
host == <<procs, node, helper, clock>>
vars == <<limiter, host, direct, screen, requests>>

NoDetail == [pid |-> Nobody, name |-> Nobody, start |-> Nobody]
Closers == {"handler", "deadline"}

Init ==
    /\ active = 0 /\ conn = [c \in Clients |-> "none"] /\ closers = [c \in Clients |-> {}]
    /\ procs = [p \in PIDs |-> 1] /\ clock = 1
    /\ node = 2 /\ direct \in BOOLEAN /\ helper = (IF direct THEN Nobody ELSE 3)
    /\ screen = NoDetail /\ requests = {}
-----------------------------------------------------------------------------
(* The limiter: each Add is one atomic step. *)

\* connectionLimiter.wrap up to its comparison.
wrap(c) ==
    /\ conn[c] = "none" /\ closers[c] = {}
    /\ active' = active + 1
    /\ IF active + 1 > MaxConnections
       THEN conn' = [conn EXCEPT ![c] = "over"] /\ UNCHANGED closers
       ELSE conn' = [conn EXCEPT ![c] = "accepted"] /\ closers' = [closers EXCEPT ![c] = Closers]
    /\ UNCHANGED <<host, direct, screen, requests>>

\* The rest of wrap for a connection above the limit: the server drops it.
refuse(c) ==
    /\ conn[c] = "over"
    /\ active' = active - 1 /\ conn' = [conn EXCEPT ![c] = "none"]
    /\ UNCHANGED <<closers, host, direct, screen, requests>>

\* Mutant: every Close gives a slot back.
CloseWithoutOnce(c) ==
    /\ \E who \in closers[c] : closers' = [closers EXCEPT ![c] = @ \ {who}]
    /\ active' = (IF active > 0 THEN active - 1 ELSE 0) /\ conn' = [conn EXCEPT ![c] = "none"]
    /\ UNCHANGED <<host, direct, screen, requests>>

\* limitedConnection.Close, which the connection's handler always calls and IdleTimeout, MaxTimeout or
\* a shutdown call before it: the slot is released once.
Close(c) ==
    /\ \E who \in closers[c] : closers' = [closers EXCEPT ![c] = @ \ {who}]
    /\ active' = (IF conn[c] = "accepted" THEN active - 1 ELSE active) /\ conn' = [conn EXCEPT ![c] = "none"]
    /\ UNCHANGED <<host, direct, screen, requests>>
-----------------------------------------------------------------------------
(* Requests. *)

Request(op, d, at) == [op |-> op, pid |-> d.pid, start |-> d.start, name |-> d.name, at |-> at]
Received(r) == requests' = requests \cup {r} /\ Cardinality(requests) < MaxRequests
Goes(r, at) == requests' = (requests \ {r}) \cup {[r EXCEPT !.at = at]}
Answered(r) == requests' = requests \ {r}
Connected == \E c \in Clients : conn[c] = "accepted"
\* Where a request is carried out: in the node, or in the helper.
InNode(r) == direct \/ r.at \in {"ps", "received"}

\* readProcessDetailWithSensitive asks ps for the process ...
ProcessDetail ==
    /\ Connected
    /\ \E p \in PIDs : procs[p] # Nobody /\ Received(Request("detail", [pid |-> p, name |-> procs[p], start |-> Nobody], "ps"))
    /\ UNCHANGED <<limiter, host, direct, screen>>

\* ... and reads its start time last, whose error it ignores. The answer is shown, or lost.
readProcessStart(r) ==
    /\ r.op = "detail" /\ r.at = "ps"
    /\ Answered(r)
    /\ screen' = IF Connected THEN [pid |-> r.pid, name |-> r.name, start |-> procs[r.pid]] ELSE screen
    /\ UNCHANGED <<limiter, host, direct>>

\* Handle of terminate_process with the right password (a wrong one is answered at once). Whoever lost
\* the answer sends it again.
TerminateProcess ==
    /\ Connected /\ screen # NoDetail
    /\ Received(Request("terminate", screen, "received"))
    /\ UNCHANGED <<limiter, host, direct, screen>>

\* Handle of run_action: the action must be one of the node's.
RunAction ==
    /\ Connected
    /\ \E op \in {"restart", "reboot"} : Received(Request(op, NoDetail, "received"))
    /\ UNCHANGED <<limiter, host, direct, screen>>

\* canTerminatePID and the identity check.
Matches(r, self) == r.pid > 1 /\ r.pid # self /\ r.start # Nobody /\ procs[r.pid] = r.start

\* localMonitorBackend checks; a node without root hands the request to its helper (Execute).
Dispatch(r) ==
    /\ r.at = "received"
    /\ IF \/ r.op = "terminate" /\ ~Matches(r, node)
          \/ ~direct /\ helper = Nobody
       THEN Answered(r)
       ELSE Goes(r, IF direct THEN "act" ELSE "helper")
    /\ UNCHANGED <<limiter, host, direct, screen>>

\* Mutant: the helper leaves the identity check to the node.
executeUnchecked(r) ==
    /\ r.at = "helper" /\ helper # Nobody
    /\ IF r.op = "terminate" /\ (r.pid <= 1 \/ r.pid = helper) THEN Answered(r) ELSE Goes(r, "act")
    /\ UNCHANGED <<limiter, host, direct, screen>>

\* executePrivilegedRequest: the helper checks for itself. The node may have given up waiting (Execute's
\* deadline); nothing is taken back then.
executePrivilegedRequest(r) ==
    /\ r.at = "helper" /\ helper # Nobody
    /\ IF r.op = "terminate" /\ ~Matches(r, helper) THEN Answered(r) ELSE Goes(r, "act")
    /\ UNCHANGED <<limiter, host, direct, screen>>

\* The signal reaches whatever has the PID now (nothing, if that is free).
Signal(r) ==
    /\ r.op = "terminate" /\ r.at = "act"
    /\ Answered(r)
    /\ UNCHANGED <<limiter, host, direct, screen>>

\* No handler stands between the check and the use of process p.
Settled(p) == \A r \in requests : r.pid = p => r.at \notin {"ps", "act"}
Free(table, p) == table[p] = Nobody /\ Settled(p)

\* systemctl restart fleetty.service: the node's connections and requests are gone, the helper's are not.
RestartNode(r) ==
    /\ r.op = "restart" /\ r.at = "act" /\ clock < MaxStarts
    /\ LET stopped == [procs EXCEPT ![node] = Nobody] IN
       \E p \in PIDs :
        /\ Free(stopped, p)
        /\ procs' = [stopped EXCEPT ![p] = clock + 1] /\ node' = p
    /\ clock' = clock + 1 /\ UNCHANGED helper
    /\ requests' = {s \in requests : s # r /\ ~InNode(s)}
    /\ active' = 0 /\ conn' = [c \in Clients |-> "none"] /\ closers' = [c \in Clients |-> {}]
    /\ UNCHANGED <<direct, screen>>

\* systemctl reboot: every process is another one; only the screens of the clients are as they were.
Reboot(r) ==
    /\ r.op = "reboot" /\ r.at = "act" /\ clock < MaxStarts
    /\ \E n, h \in PIDs \ {Init1} :
        /\ n # h /\ node' = n /\ helper' = (IF direct THEN Nobody ELSE h)
        /\ procs' = [p \in PIDs |-> IF p \in {Init1, node', helper'} THEN clock + 1 ELSE Nobody]
    /\ clock' = clock + 1
    /\ requests' = {} /\ active' = 0 /\ conn' = [c \in Clients |-> "none"] /\ closers' = [c \in Clients |-> {}]
    /\ UNCHANGED <<direct, screen>>
-----------------------------------------------------------------------------
(* The host. *)

Exit(p) ==
    /\ procs[p] # Nobody /\ p \notin {Init1, node, helper}
    /\ procs' = [procs EXCEPT ![p] = Nobody]
    /\ UNCHANGED <<limiter, node, helper, clock, direct, screen, requests>>

Spawn(p) ==
    /\ Free(procs, p) /\ clock < MaxStarts
    /\ procs' = [procs EXCEPT ![p] = clock + 1] /\ clock' = clock + 1
    /\ UNCHANGED <<limiter, node, helper, direct, screen, requests>>

\* The helper is stopped: its listener and its requests are gone.
StopHelper ==
    /\ ~direct /\ helper # Nobody
    /\ procs' = [procs EXCEPT ![helper] = Nobody] /\ helper' = Nobody
    /\ requests' = {r \in requests : InNode(r)}
    /\ UNCHANGED <<limiter, node, clock, direct, screen>>

\* servePrivilegedHelper: the socket a killed helper left is removed and a new one listens.
servePrivilegedHelper ==
    /\ ~direct /\ helper = Nobody /\ clock < MaxStarts
    /\ \E p \in PIDs :
        /\ Free(procs, p) /\ p # Init1
        /\ procs' = [procs EXCEPT ![p] = clock + 1] /\ helper' = p
    /\ clock' = clock + 1
    /\ UNCHANGED <<limiter, node, direct, screen, requests>>

Next ==
    \/ \E c \in Clients : wrap(c) \/ refuse(c) \/ Close(c)
    \/ ProcessDetail \/ TerminateProcess \/ RunAction
    \/ \E r \in requests : readProcessStart(r) \/ Dispatch(r) \/ executePrivilegedRequest(r)
                            \/ Signal(r) \/ RestartNode(r) \/ Reboot(r)
    \/ \E p \in PIDs : Exit(p) \/ Spawn(p)
    \/ StopHelper \/ servePrivilegedHelper

Spec == Init /\ [][Next]_vars
-----------------------------------------------------------------------------
(* Properties. *)

\* However connections come, are refused and are closed twice: the counter is the number of accepted
\* connections and of those about to be refused, so no slot is lost or given twice, and at most
\* MaxConnections are accepted.
SlotsBalanced ==
    LET Count(s) == Cardinality({c \in Clients : conn[c] = s}) IN
    /\ active = Count("accepted") + Count("over")
    /\ Count("accepted") <= MaxConnections

\* A SIGTERM reaches the very process whose details were on the screen when the user confirmed, and
\* never init, the node or its helper - whatever was repeated, waited in the helper, or was restarted.
OnlyConfirmedSignalled ==
    [][\A r \in requests : (Signal(r) /\ procs[r.pid] # Nobody)
            => procs[r.pid] = r.name /\ r.pid \notin {Init1, node, helper}]_vars
=============================================================================
