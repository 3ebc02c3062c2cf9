------------------------------ MODULE NodeProofs ------------------------------
(***************************************************************************)
(* Proofs about the services of a node.  Of NodeManagement, for any         *)
(* connections, processes, requests and restarts: the connection limiter    *)
(* counts what it has accepted and is about to refuse, and only the process *)
(* whose details were confirmed gets the signal.  Of SnapshotCache, for any *)
(* number of clients: no snapshot is published with rates that only stand   *)
(* for missing counters, and whoever waits for a cycle of its depth is      *)
(* answered by it as long as two cycles together are shorter than           *)
(* snapshotCacheTTL.  Of HistoryStore, for one process, any clock and any    *)
(* failures: no sample is lost before its time, and the file is bounded.    *)
(***************************************************************************)
EXTENDS MCNode, Sequences, FiniteSetTheorems, WellFoundedInduction, TLAPS

\* How many connections a table of them has in a state of the limiter.
States == {"none", "over", "accepted"}
CountIn(table, s) == Cardinality({c \in Clients : table[c] = s})

LimiterTypes ==
    /\ active \in Nat /\ conn \in [Clients -> States]
    /\ closers \in [Clients -> SUBSET Closers]

\* The counter; and nobody is to close a connection that is about to be refused.
LimiterInv ==
    /\ LimiterTypes
    /\ \A c \in Clients : conn[c] = "over" => closers[c] = {}
    /\ SlotsBalanced

Details == [pid : PIDs, name : Nat, start : Nat]
Requests == [op : {"detail", "terminate", "restart", "reboot"}, pid : PIDs \cup {Nobody}, start : Nat, name : Nat,
             at : {"ps", "received", "helper", "act"}]

HostTypes ==
    /\ procs \in [PIDs -> Nat] /\ clock \in Nat /\ direct \in BOOLEAN
    /\ node \in PIDs /\ helper \in PIDs \cup {Nobody} /\ (direct => helper = Nobody)

\* Start times are given once.
ClockInv == \A p \in PIDs : procs[p] <= clock

\* A start time on the screen, if there is one, is that of the process shown.
ScreenInv ==
    /\ screen \in Details \cup {NoDetail}
    /\ screen.start \in {Nobody, screen.name} /\ screen.start <= clock

\* A request for details: as long as it is with ps, the process it asks for keeps its PID.
DetailInv(r) == r.op = "detail" => r.at = "ps" /\ procs[r.pid] \in {Nobody, r.name}

\* A request to terminate a process: what the checks of the node and of the helper leave true of it.
CheckedInv(r) ==
    r.op = "terminate" =>
        /\ r.start \in {Nobody, r.name} /\ r.at # "ps"
        /\ r.at \in {"helper", "act"} => r.pid > 1 /\ r.start # Nobody /\ (procs[r.pid] = r.start => r.pid # node)
        /\ r.at = "act" => procs[r.pid] \in {Nobody, r.start} /\ (procs[r.pid] = r.start => r.pid # helper)

RequestInv(r) ==
    /\ r \in Requests /\ r.start <= clock
    /\ r.op \in {"detail", "terminate"} => r.pid \in PIDs
    /\ DetailInv(r) /\ CheckedInv(r)

HostInv == HostTypes /\ ClockInv /\ ScreenInv /\ \A r \in requests : RequestInv(r)
-----------------------------------------------------------------------------
(* The connection limiter. *)

\* The number of connections in a state is a number.
LEMMA CountType ==
    ASSUME NEW table, NEW s
    PROVE  CountIn(table, s) \in Nat
<1> DEFINE S == {c \in Clients : table[c] = s}
<1>1. IsFiniteSet(S)
  BY FS_Subset, ManagementAssumption DEF ManagementAssumption
<1>. QED
  BY <1>1, FS_CardinalityType DEF CountIn

LEMMA StatesAre ==
    /\ "none" \in States /\ "over" \in States /\ "accepted" \in States
    /\ \A s \in States : s \in {"none", "over", "accepted"}
    /\ "none" # "over" /\ "none" # "accepted" /\ "over" # "accepted"
  BY DEF States

\* A connection that goes from one state to another is one less in the first and one more in the second.
LEMMA CountMoved ==
    ASSUME NEW c \in Clients, NEW f \in States, NEW t \in States, f # t,
           conn \in [Clients -> States], conn[c] = f, conn' = [conn EXCEPT ![c] = t]
    PROVE  /\ CountIn(conn', t) = CountIn(conn, t) + 1
           /\ CountIn(conn', f) = CountIn(conn, f) - 1
           /\ \A s \in States : s # t /\ s # f => CountIn(conn', s) = CountIn(conn, s)
<1> DEFINE S(tab, s) == {d \in Clients : tab[d] = s}
<1>0. \A tab, s : IsFiniteSet(S(tab, s))
  BY FS_Subset, ManagementAssumption DEF ManagementAssumption
<1>1. S(conn', t) = S(conn, t) \cup {c}
  OBVIOUS
<1>2. S(conn', f) = S(conn, f) \ {c}
  OBVIOUS
<1>3. \A s \in States : s # t /\ s # f => S(conn', s) = S(conn, s)
  OBVIOUS
<1>4. Cardinality(S(conn, t) \cup {c}) = Cardinality(S(conn, t)) + 1
  <2>1. c \notin S(conn, t)
    OBVIOUS
  <2>2. IsFiniteSet(S(conn, t))
    BY <1>0
  <2> HIDE DEF S
  <2>. QED
    BY <2>1, <2>2, FS_AddElement
<1>5. Cardinality(S(conn, f) \ {c}) = Cardinality(S(conn, f)) - 1
  <2>1. c \in S(conn, f)
    OBVIOUS
  <2>2. IsFiniteSet(S(conn, f))
    BY <1>0
  <2> HIDE DEF S
  <2>. QED
    BY <2>1, <2>2, FS_RemoveElement
<1>. QED
  BY <1>1, <1>2, <1>3, <1>4, <1>5 DEF CountIn

\* After a restart there is no connection.
LEMMA CountNone ==
    ASSUME NEW s, s # "none"
    PROVE  CountIn([c \in Clients |-> "none"], s) = 0
<1>1. {c \in Clients : [d \in Clients |-> "none"][c] = s} = {}
  OBVIOUS
<1>. QED
  BY <1>1, FS_EmptySet DEF CountIn

\* SlotsBalanced in terms of CountIn.
LEMMA SlotsAsCounts ==
    SlotsBalanced <=> /\ active = CountIn(conn, "accepted") + CountIn(conn, "over")
                      /\ CountIn(conn, "accepted") <= MaxConnections
  BY DEF SlotsBalanced, CountIn

\* The limiter's variables after a step that starts it anew.
LEMMA LimiterReset ==
    ASSUME active' = 0, conn' = [c \in Clients |-> "none"], closers' = [c \in Clients |-> {}]
    PROVE  LimiterInv'
<1>1. LimiterTypes'
  BY DEF LimiterTypes, States, Closers
<1>2. CountIn(conn', "accepted") = 0 /\ CountIn(conn', "over") = 0
  BY CountNone
<1>3. 0 <= MaxConnections
  BY ManagementAssumption DEF ManagementAssumption
<1>4. SlotsBalanced'
  BY <1>2, <1>3, SlotsAsCounts DEF SlotsBalanced, CountIn
<1>. QED
  BY <1>1, <1>4 DEF LimiterInv

\* Every step keeps the limiter's counter.
LEMMA LimiterStep ==
    ASSUME LimiterInv, [Next]_vars
    PROVE  LimiterInv'
<1>0. MaxConnections \in Nat \ {0}
  BY ManagementAssumption DEF ManagementAssumption
<1>1. /\ active = CountIn(conn, "accepted") + CountIn(conn, "over")
      /\ CountIn(conn, "accepted") <= MaxConnections
  BY SlotsAsCounts DEF LimiterInv
<1>2. CountIn(conn, "accepted") \in Nat /\ CountIn(conn, "over") \in Nat
  BY CountType
<1>3. CountIn(conn', "accepted") \in Nat /\ CountIn(conn', "over") \in Nat
  BY CountType
<1>4. LimiterTypes /\ \A c \in Clients : conn[c] = "over" => closers[c] = {}
  BY DEF LimiterInv
<1>4a. conn \in [Clients -> States]
  BY <1>4 DEF LimiterTypes
<1>5. SUFFICES ASSUME UNCHANGED limiter => LimiterInv' PROVE LimiterInv'
  <2>1. ASSUME UNCHANGED limiter PROVE LimiterInv'
    BY <2>1 DEF LimiterInv, LimiterTypes, SlotsBalanced, limiter
  <2>. QED
    BY <2>1
<1>6. ASSUME NEW c \in Clients, wrap(c) PROVE LimiterInv'
  <2>1. conn[c] = "none" /\ closers[c] = {} /\ active' = active + 1
    BY <1>6 DEF wrap
  <2>2. CASE active + 1 > MaxConnections
    <3>1. conn' = [conn EXCEPT ![c] = "over"] /\ closers' = closers
      BY <1>6, <2>2 DEF wrap
    <3>2. /\ CountIn(conn', "over") = CountIn(conn, "over") + 1
          /\ CountIn(conn', "accepted") = CountIn(conn, "accepted")
      <4>1. "over" \in States /\ "none" \in States /\ "none" # "over"
        BY StatesAre
      <4>2. conn[c] = "none" /\ conn' = [conn EXCEPT ![c] = "over"]
        BY <3>1, <2>1
      <4>3. /\ CountIn(conn', "over") = CountIn(conn, "over") + 1
            /\ CountIn(conn', "none") = CountIn(conn, "none") - 1
            /\ \A s \in States : s # "over" /\ s # "none" => CountIn(conn', s) = CountIn(conn, s)
        BY <4>1, <4>2, <1>4a, CountMoved
      <4>. QED
        BY <4>3, StatesAre
    <3>3. LimiterTypes' /\ \A d \in Clients : conn'[d] = "over" => closers'[d] = {}
      BY <3>1, <2>1, <1>4, StatesAre DEF LimiterTypes
    <3>4. /\ active' = CountIn(conn', "accepted") + CountIn(conn', "over")
          /\ CountIn(conn', "accepted") <= MaxConnections
      BY <3>2, <2>1, <1>0, <1>1, <1>2
    <3>. QED
      BY <3>3, <3>4 DEF LimiterInv, SlotsBalanced, CountIn
  <2>3. CASE ~(active + 1 > MaxConnections)
    <3>1. conn' = [conn EXCEPT ![c] = "accepted"] /\ closers' = [closers EXCEPT ![c] = Closers]
      BY <1>6, <2>3 DEF wrap
    <3>2. /\ CountIn(conn', "accepted") = CountIn(conn, "accepted") + 1
          /\ CountIn(conn', "over") = CountIn(conn, "over")
      <4>1. "accepted" \in States /\ "none" \in States /\ "none" # "accepted"
        BY StatesAre
      <4>2. conn[c] = "none" /\ conn' = [conn EXCEPT ![c] = "accepted"]
        BY <3>1, <2>1
      <4>3. /\ CountIn(conn', "accepted") = CountIn(conn, "accepted") + 1
            /\ CountIn(conn', "none") = CountIn(conn, "none") - 1
            /\ \A s \in States : s # "accepted" /\ s # "none" => CountIn(conn', s) = CountIn(conn, s)
        BY <4>1, <4>2, <1>4a, CountMoved
      <4>. QED
        BY <4>3, StatesAre
    <3>3. LimiterTypes' /\ \A d \in Clients : conn'[d] = "over" => closers'[d] = {}
      BY <3>1, <2>1, <1>4, StatesAre DEF LimiterTypes
    <3>4. /\ active' = CountIn(conn', "accepted") + CountIn(conn', "over")
          /\ CountIn(conn', "accepted") <= MaxConnections
      BY <3>2, <2>1, <2>3, <1>0, <1>1, <1>2
    <3>. QED
      BY <3>3, <3>4 DEF LimiterInv, SlotsBalanced, CountIn
  <2>. QED
    BY <2>2, <2>3
<1>7. ASSUME NEW c \in Clients, refuse(c) PROVE LimiterInv'
  <2>1. conn[c] = "over" /\ active' = active - 1 /\ conn' = [conn EXCEPT ![c] = "none"] /\ closers' = closers
    BY <1>7 DEF refuse
  <2>2. /\ CountIn(conn', "over") = CountIn(conn, "over") - 1
        /\ CountIn(conn', "accepted") = CountIn(conn, "accepted")
    <3>1. "none" \in States /\ "over" \in States /\ "over" # "none"
      BY StatesAre
    <3>2. conn[c] = "over" /\ conn' = [conn EXCEPT ![c] = "none"]
      BY <2>1
    <3>3. /\ CountIn(conn', "none") = CountIn(conn, "none") + 1
          /\ CountIn(conn', "over") = CountIn(conn, "over") - 1
          /\ \A s \in States : s # "none" /\ s # "over" => CountIn(conn', s) = CountIn(conn, s)
      BY <3>1, <3>2, <1>4a, CountMoved
    <3>. QED
      BY <3>3, StatesAre
  <2>3. /\ active' = CountIn(conn', "accepted") + CountIn(conn', "over")
        /\ CountIn(conn', "accepted") <= MaxConnections
    BY <2>2, <2>1, <1>0, <1>1, <1>2
  <2>4. LimiterTypes' /\ \A d \in Clients : conn'[d] = "over" => closers'[d] = {}
    BY <2>1, <2>3, <1>3, <1>4, StatesAre DEF LimiterTypes
  <2>. QED
    BY <2>3, <2>4 DEF LimiterInv, SlotsBalanced, CountIn
<1>8. ASSUME NEW c \in Clients, Close(c) PROVE LimiterInv'
  <2>1. PICK who \in closers[c] : closers' = [closers EXCEPT ![c] = @ \ {who}]
    BY <1>8 DEF Close
  <2>2. conn' = [conn EXCEPT ![c] = "none"]
    BY <1>8 DEF Close
  <2>3. conn[c] \in {"none", "accepted"}
    BY <2>1, <1>4, StatesAre DEF LimiterTypes
  <2>4. /\ active' = CountIn(conn', "accepted") + CountIn(conn', "over")
        /\ CountIn(conn', "accepted") <= MaxConnections
    <3>1. CASE conn[c] = "accepted"
      <4>1. active' = active - 1
        BY <1>8, <3>1 DEF Close
      <4>2. /\ CountIn(conn', "accepted") = CountIn(conn, "accepted") - 1
            /\ CountIn(conn', "over") = CountIn(conn, "over")
        <5>1. "none" \in States /\ "accepted" \in States /\ "accepted" # "none"
          BY StatesAre
        <5>2. conn[c] = "accepted" /\ conn' = [conn EXCEPT ![c] = "none"]
          BY <2>2, <3>1
        <5>3. /\ CountIn(conn', "none") = CountIn(conn, "none") + 1
              /\ CountIn(conn', "accepted") = CountIn(conn, "accepted") - 1
              /\ \A s \in States : s # "none" /\ s # "accepted" => CountIn(conn', s) = CountIn(conn, s)
          BY <5>1, <5>2, <1>4a, CountMoved
        <5>. QED
          BY <5>3, StatesAre
      <4>. QED
        BY <4>1, <4>2, <1>0, <1>1, <1>2
    <3>2. CASE conn[c] = "none"
      <4>1. active' = active
        BY <1>8, <3>2 DEF Close
      <4>2. conn' = conn
        BY <2>2, <3>2, <1>4 DEF LimiterTypes
      <4>. QED
        BY <4>1, <4>2, <1>0, <1>1
    <3>. QED
      BY <2>3, <3>1, <3>2
  <2>5. LimiterTypes' /\ \A d \in Clients : conn'[d] = "over" => closers'[d] = {}
    <3>1. conn' \in [Clients -> States] /\ active' \in Nat
      BY <2>2, <2>4, <1>3, <1>4, StatesAre DEF LimiterTypes
    <3>2. closers' \in [Clients -> SUBSET Closers]
      BY <2>1, <1>4, StatesAre DEF LimiterTypes
    <3>3. \A d \in Clients : conn'[d] = "over" => conn[d] = "over" /\ d # c
      BY <2>2, <1>4 DEF LimiterTypes
    <3>4. \A d \in Clients : d # c => closers'[d] = closers[d]
      BY <2>1, <1>4, StatesAre DEF LimiterTypes
    <3>. QED
      BY <3>1, <3>2, <3>3, <3>4, <1>4 DEF LimiterTypes
  <2>. QED
    BY <2>4, <2>5 DEF LimiterInv, SlotsBalanced, CountIn
<1>9. CASE ProcessDetail \/ TerminateProcess \/ RunAction \/ StopHelper \/ servePrivilegedHelper
  BY <1>9, <1>5 DEF ProcessDetail, TerminateProcess, RunAction, StopHelper, servePrivilegedHelper
<1>10. ASSUME NEW r \in requests, readProcessStart(r) \/ Dispatch(r) \/ executePrivilegedRequest(r) \/ Signal(r)
       PROVE  LimiterInv'
  BY <1>10, <1>5 DEF readProcessStart, Dispatch, executePrivilegedRequest, Signal
<1>11. ASSUME NEW r \in requests, RestartNode(r) \/ Reboot(r) PROVE LimiterInv'
  BY <1>11, LimiterReset DEF RestartNode, Reboot
<1>12. ASSUME NEW p \in PIDs, Exit(p) \/ Spawn(p) PROVE LimiterInv'
  BY <1>12, <1>5 DEF Exit, Spawn
<1>13. CASE UNCHANGED vars
  BY <1>13, <1>5 DEF vars, limiter
<1>. QED
  BY <1>6, <1>7, <1>8, <1>9, <1>10, <1>11, <1>12, <1>13 DEF Next

\* The limiter's counter is the number of connections it has accepted or is about to refuse, and it
\* never accepts more than it may, for any set of connections and any limit.
THEOREM SlotsKept ==
    Spec => []SlotsBalanced
<1>1. Init => LimiterInv
  <2> SUFFICES ASSUME Init PROVE LimiterInv
    OBVIOUS
  <2>1. active = 0 /\ conn = [c \in Clients |-> "none"] /\ closers = [c \in Clients |-> {}]
    BY DEF Init
  <2>2. CountIn(conn, "accepted") = 0 /\ CountIn(conn, "over") = 0
    BY <2>1, CountNone
  <2>3. 0 <= MaxConnections
    BY ManagementAssumption DEF ManagementAssumption
  <2>. QED
    BY <2>1, <2>2, <2>3, SlotsAsCounts DEF LimiterInv, LimiterTypes, States, Closers
<1>2. LimiterInv /\ [Next]_vars => LimiterInv'
  BY LimiterStep
<1>3. LimiterInv => SlotsBalanced
  BY DEF LimiterInv
<1>. QED
  BY <1>1, <1>2, <1>3, PTL DEF Spec
-----------------------------------------------------------------------------
(* Processes and requests. *)

\* The PIDs, in the form the proofs use.
LEMMA PIDFacts ==
    PIDs \subseteq Nat /\ Nobody \notin PIDs /\ {1, 2, 3} \subseteq PIDs /\ Nobody \in Nat
  BY ManagementAssumption DEF ManagementAssumption, Nobody

\* A step that only replaces requests keeps the invariant if the new requests satisfy theirs.
LEMMA OnlyRequests ==
    ASSUME HostInv, UNCHANGED <<host, direct, screen>>,
           \A s \in requests' : s \in requests \/ RequestInv(s)
    PROVE  HostInv'
<1>1. HostTypes' /\ ClockInv' /\ ScreenInv'
  BY DEF HostInv, HostTypes, ClockInv, ScreenInv, host
<1>2. ASSUME NEW s \in requests' PROVE RequestInv(s)'
  <2>1. RequestInv(s)
    BY <1>2 DEF HostInv
  <2>. QED
    BY <2>1 DEF RequestInv, DetailInv, CheckedInv, host
<1>. QED
  BY <1>1, <1>2 DEF HostInv

\* A request that goes on, is received or is answered is the only one that changes.
LEMMA GoesOn ==
    ASSUME HostInv, UNCHANGED <<host, direct, screen>>, NEW r, NEW to,
           Goes(r, to), RequestInv([r EXCEPT !.at = to])
    PROVE  HostInv'
<1>1. \A s \in requests' : s \in requests \/ RequestInv(s)
  BY DEF Goes
<1>. QED
  BY <1>1, OnlyRequests

LEMMA AnsweredKeeps ==
    ASSUME HostInv, UNCHANGED <<host, direct, screen>>, NEW r, Answered(r)
    PROVE  HostInv'
  BY OnlyRequests DEF Answered

LEMMA ReceivedKeeps ==
    ASSUME HostInv, UNCHANGED <<host, direct, screen>>, NEW r, Received(r), RequestInv(r)
    PROVE  HostInv'
<1>1. \A s \in requests' : s \in requests \/ RequestInv(s)
  BY DEF Received
<1>. QED
  BY <1>1, OnlyRequests

\* ps is asked for a process that is running.
LEMMA ProcessDetailKeeps ==
    ASSUME HostInv, ProcessDetail
    PROVE  HostInv'
<1>1. PICK p \in PIDs : procs[p] # Nobody /\ Received(Request("detail", [pid |-> p, name |-> procs[p], start |-> Nobody], "ps"))
  BY DEF ProcessDetail
<1> DEFINE r == Request("detail", [pid |-> p, name |-> procs[p], start |-> Nobody], "ps")
<1>2. r = [op |-> "detail", pid |-> p, start |-> Nobody, name |-> procs[p], at |-> "ps"]
  BY DEF Request
<1>3. procs[p] \in Nat /\ clock \in Nat
  BY DEF HostInv, HostTypes
<1>4. r \in Requests
  BY <1>2, <1>3, PIDFacts DEF Requests
<1>5. r.op = "detail" /\ r.pid = p /\ r.start = Nobody /\ r.name = procs[p] /\ r.at = "ps"
  BY <1>2
<1>6. Nobody <= clock
  BY <1>3 DEF Nobody
<1> HIDE DEF r
<1>7. RequestInv(r)
  BY <1>4, <1>5, <1>6 DEF RequestInv, DetailInv, CheckedInv
<1>8. UNCHANGED <<host, direct, screen>>
  BY DEF ProcessDetail
<1>. QED
  BY <1>1, <1>7, <1>8, ReceivedKeeps DEF r

\* The start time that is read is that of the process ps described, or none.
LEMMA readProcessStartKeeps ==
    ASSUME HostInv, NEW r \in requests, readProcessStart(r)
    PROVE  HostInv'
<1>1. RequestInv(r) /\ r.op = "detail"
  BY DEF HostInv, readProcessStart
<1>2. r.pid \in PIDs /\ r.name \in Nat /\ procs[r.pid] \in {Nobody, r.name} /\ procs[r.pid] \in Nat /\ procs[r.pid] <= clock
  BY <1>1 DEF RequestInv, DetailInv, HostInv, HostTypes, ClockInv, Requests
<1>3. screen' = screen \/ screen' = [pid |-> r.pid, name |-> r.name, start |-> procs[r.pid]]
  BY DEF readProcessStart
<1>4. UNCHANGED <<host, direct>> /\ \A s \in requests' : s \in requests
  BY DEF readProcessStart, Answered
<1>5. ScreenInv'
  <2>1. CASE screen' = screen
    BY <2>1, <1>4 DEF ScreenInv, HostInv, host
  <2>2. CASE screen' = [pid |-> r.pid, name |-> r.name, start |-> procs[r.pid]]
    BY <2>2, <1>2, <1>4 DEF ScreenInv, Details, host
  <2>. QED
    BY <1>3, <2>1, <2>2
<1>6. HostTypes' /\ ClockInv'
  BY <1>4 DEF HostInv, HostTypes, ClockInv, host
<1>7. \A s \in requests' : RequestInv(s)'
  BY <1>4 DEF HostInv, RequestInv, DetailInv, CheckedInv, host
<1>. QED
  BY <1>5, <1>6, <1>7 DEF HostInv

\* The request to terminate carries what is on the screen.
LEMMA TerminateProcessKeeps ==
    ASSUME HostInv, TerminateProcess
    PROVE  HostInv'
<1> DEFINE r == Request("terminate", screen, "received")
<1>1. r = [op |-> "terminate", pid |-> screen.pid, start |-> screen.start, name |-> screen.name, at |-> "received"]
  BY DEF Request
<1>2. /\ screen.pid \in PIDs /\ screen.start \in Nat /\ screen.name \in Nat
      /\ screen.start \in {Nobody, screen.name} /\ screen.start <= clock
  BY DEF HostInv, ScreenInv, TerminateProcess, Details
<1>3. r \in Requests
  BY <1>1, <1>2 DEF Requests
<1>4. r.op = "terminate" /\ r.pid = screen.pid /\ r.start = screen.start /\ r.name = screen.name /\ r.at = "received"
  BY <1>1
<1>5. Received(r) /\ UNCHANGED <<host, direct, screen>>
  BY DEF TerminateProcess
<1> HIDE DEF r
<1>6. RequestInv(r)
  BY <1>2, <1>3, <1>4 DEF RequestInv, DetailInv, CheckedInv
<1>. QED
  BY <1>5, <1>6, ReceivedKeeps

LEMMA RunActionKeeps ==
    ASSUME HostInv, RunAction
    PROVE  HostInv'
<1>1. PICK op \in {"restart", "reboot"} : Received(Request(op, NoDetail, "received"))
  BY DEF RunAction
<1> DEFINE r == Request(op, NoDetail, "received")
<1>2. r = [op |-> op, pid |-> Nobody, start |-> Nobody, name |-> Nobody, at |-> "received"]
  BY DEF Request, NoDetail
<1>3. r \in Requests
  BY <1>2, PIDFacts DEF Requests
<1>4. r.op \in {"restart", "reboot"} /\ r.start = Nobody
  BY <1>2
<1>5. Nobody <= clock
  BY DEF Nobody, HostInv, HostTypes
<1> HIDE DEF r
<1>6. RequestInv(r)
  BY <1>3, <1>4, <1>5 DEF RequestInv, DetailInv, CheckedInv
<1>7. UNCHANGED <<host, direct, screen>>
  BY DEF RunAction
<1>. QED
  BY <1>1, <1>6, <1>7, ReceivedKeeps DEF r

\* What going on changes of a request.
LEMMA WentOn ==
    ASSUME NEW r \in Requests, NEW to \in {"helper", "act"}
    PROVE  LET s == [r EXCEPT !.at = to] IN
           s \in Requests /\ s.op = r.op /\ s.pid = r.pid /\ s.start = r.start /\ s.name = r.name /\ s.at = to
  BY DEF Requests

\* The node checks the identity before it acts or asks the helper.
LEMMA DispatchKeeps ==
    ASSUME HostInv, NEW r \in requests, Dispatch(r)
    PROVE  HostInv'
<1>1. RequestInv(r) /\ r.at = "received" /\ UNCHANGED <<host, direct, screen>>
  BY DEF HostInv, Dispatch
<1>2. CASE Answered(r)
  BY <1>1, <1>2, AnsweredKeeps
<1>3. ASSUME ~(r.op = "terminate" /\ ~Matches(r, node)), Goes(r, IF direct THEN "act" ELSE "helper")
      PROVE  HostInv'
  <2> DEFINE to == IF direct THEN "act" ELSE "helper"
  <2> DEFINE s == [r EXCEPT !.at = to]
  <2>1. to \in {"helper", "act"} /\ (to = "act" => direct)
    OBVIOUS
  <2> HIDE DEF to
  <2>2. s \in Requests /\ s.op = r.op /\ s.pid = r.pid /\ s.start = r.start /\ s.name = r.name /\ s.at = to
    BY <1>1, <2>1, WentOn DEF RequestInv
  <2> HIDE DEF s
  <2>3. r.op # "detail"
    BY <1>1 DEF RequestInv, DetailInv
  <2>4. direct => helper = Nobody /\ (r.pid # helper \/ r.op # "terminate")
    BY <1>1, PIDFacts DEF HostInv, HostTypes, RequestInv
  <2>5. CheckedInv(s)
    BY <1>1, <1>3, <2>1, <2>2, <2>4 DEF RequestInv, CheckedInv, Matches
  <2>6. RequestInv(s)
    BY <1>1, <2>2, <2>3, <2>5 DEF RequestInv, DetailInv
  <2>. QED
    BY <1>1, <1>3, <2>6, GoesOn DEF s, to
<1>. QED
  BY <1>2, <1>3 DEF Dispatch

\* The helper checks it again, for itself.
LEMMA HelperKeeps ==
    ASSUME HostInv, NEW r \in requests, executePrivilegedRequest(r)
    PROVE  HostInv'
<1>1. RequestInv(r) /\ r.at = "helper" /\ UNCHANGED <<host, direct, screen>>
  BY DEF HostInv, executePrivilegedRequest
<1>2. CASE Answered(r)
  BY <1>1, <1>2, AnsweredKeeps
<1>3. ASSUME ~(r.op = "terminate" /\ ~Matches(r, helper)), Goes(r, "act")
      PROVE  HostInv'
  <2> DEFINE s == [r EXCEPT !.at = "act"]
  <2>2. s \in Requests /\ s.op = r.op /\ s.pid = r.pid /\ s.start = r.start /\ s.name = r.name /\ s.at = "act"
    BY <1>1, WentOn DEF RequestInv
  <2> HIDE DEF s
  <2>3. r.op # "detail"
    BY <1>1 DEF RequestInv, DetailInv
  <2>5. CheckedInv(s)
    BY <1>1, <1>3, <2>2 DEF RequestInv, CheckedInv, Matches
  <2>6. RequestInv(s)
    BY <1>1, <2>2, <2>3, <2>5 DEF RequestInv, DetailInv
  <2>. QED
    BY <1>1, <1>3, <2>6, GoesOn DEF s
<1>. QED
  BY <1>2, <1>3 DEF executePrivilegedRequest

\* A start time that was given out later than a request's is not its own.
LEMMA LaterStart ==
    ASSUME HostInv, NEW r \in requests
    PROVE  r.start # clock + 1 /\ r.start <= clock /\ r.start \in Nat /\ clock \in Nat
<1>1. RequestInv(r) /\ clock \in Nat
  BY DEF HostInv, HostTypes
<1>. QED
  BY <1>1 DEF RequestInv, Requests

\* A request whose process is another one than p, or which no handler has checked yet, is as sound with
\* a new process at p.
LEMMA StartedKeeps ==
    ASSUME HostInv, NEW p \in PIDs, Settled(p), NEW r \in requests,
           procs' = [procs EXCEPT ![p] = clock + 1], clock' = clock + 1,
           node' = node, helper' \in {helper, p}
    PROVE  RequestInv(r)'
<1>1. RequestInv(r)
  BY DEF HostInv
<1>2. r.start # clock + 1 /\ r.start <= clock /\ r.start \in Nat /\ clock \in Nat
  BY LaterStart
<1>3. r.pid = p => r.at \notin {"ps", "act"}
  BY DEF Settled
<1>4. procs \in [PIDs -> Nat]
  BY DEF HostInv, HostTypes
<1>5. \A q \in PIDs : procs'[q] = IF q = p THEN clock + 1 ELSE procs[q]
  BY <1>4
<1>6. r.start <= clock'
  BY <1>2
<1>7. DetailInv(r)'
  BY <1>1, <1>3, <1>5 DEF RequestInv, DetailInv
<1>8. CheckedInv(r)'
  BY <1>1, <1>2, <1>3, <1>5 DEF RequestInv, CheckedInv
<1>. QED
  BY <1>1, <1>6, <1>7, <1>8 DEF RequestInv

\* With a new process the start times are still at most the clock.
LEMMA ClockGoesOn ==
    ASSUME HostInv, clock' = clock + 1, procs' \in [PIDs -> Nat],
           \A q \in PIDs : procs'[q] \in {Nobody, procs[q], clock + 1}
    PROVE  ClockInv' /\ clock' \in Nat
<1>1. clock \in Nat /\ \A q \in PIDs : procs[q] \in Nat /\ procs[q] <= clock
  BY DEF HostInv, HostTypes, ClockInv
<1>2. ASSUME NEW q \in PIDs PROVE procs'[q] <= clock'
  BY <1>1 DEF Nobody
<1>. QED
  BY <1>1, <1>2 DEF ClockInv

LEMMA ScreenStays ==
    ASSUME HostInv, screen' = screen, clock' = clock + 1
    PROVE  ScreenInv'
  BY PIDFacts DEF HostInv, HostTypes, ScreenInv, Details, NoDetail

LEMMA SpawnKeeps ==
    ASSUME HostInv, NEW p \in PIDs, Spawn(p)
    PROVE  HostInv'
<1>1. /\ procs' = [procs EXCEPT ![p] = clock + 1] /\ clock' = clock + 1 /\ Settled(p)
      /\ UNCHANGED <<node, helper, direct, screen, requests>>
  BY DEF Spawn, Free
<1>2. procs \in [PIDs -> Nat] /\ clock \in Nat
  BY DEF HostInv, HostTypes
<1>3. procs' \in [PIDs -> Nat] /\ \A q \in PIDs : procs'[q] \in {Nobody, procs[q], clock + 1}
  BY <1>1, <1>2
<1>4. ClockInv' /\ clock' \in Nat
  BY <1>1, <1>3, ClockGoesOn
<1>5. HostTypes'
  BY <1>1, <1>3, <1>4 DEF HostInv, HostTypes
<1>6. \A r \in requests' : RequestInv(r)'
  BY <1>1, StartedKeeps
<1>7. ScreenInv'
  BY <1>1, ScreenStays
<1>. QED
  BY <1>4, <1>5, <1>6, <1>7 DEF HostInv

LEMMA ServeKeeps ==
    ASSUME HostInv, servePrivilegedHelper
    PROVE  HostInv'
<1>1. PICK p \in PIDs : Free(procs, p) /\ procs' = [procs EXCEPT ![p] = clock + 1] /\ helper' = p
  BY DEF servePrivilegedHelper
<1>2. ~direct /\ clock' = clock + 1 /\ Settled(p) /\ UNCHANGED <<node, direct, screen, requests>>
  BY <1>1 DEF servePrivilegedHelper, Free
<1>3. procs \in [PIDs -> Nat] /\ clock \in Nat
  BY DEF HostInv, HostTypes
<1>4. procs' \in [PIDs -> Nat] /\ \A q \in PIDs : procs'[q] \in {Nobody, procs[q], clock + 1}
  BY <1>1, <1>3
<1>5. ClockInv' /\ clock' \in Nat
  BY <1>2, <1>4, ClockGoesOn
<1>6. HostTypes'
  BY <1>1, <1>2, <1>4, <1>5 DEF HostInv, HostTypes
<1>7. \A r \in requests' : RequestInv(r)'
  BY <1>1, <1>2, StartedKeeps
<1>8. ScreenInv'
  BY <1>2, ScreenStays
<1>. QED
  BY <1>5, <1>6, <1>7, <1>8 DEF HostInv

\* When a process is gone nothing is left to be signalled at its PID.
LEMMA StoppedKeeps ==
    ASSUME HostInv, NEW p \in PIDs, NEW r \in requests,
           procs' = [procs EXCEPT ![p] = Nobody], clock' = clock,
           node' = node, helper' \in {helper, Nobody}
    PROVE  RequestInv(r)'
<1>1. RequestInv(r)
  BY DEF HostInv
<1>2. procs \in [PIDs -> Nat]
  BY DEF HostInv, HostTypes
<1>3. \A q \in PIDs : procs'[q] = IF q = p THEN Nobody ELSE procs[q]
  BY <1>2
<1>4. DetailInv(r)'
  BY <1>1, <1>3 DEF RequestInv, DetailInv
<1>5. CheckedInv(r)'
  BY <1>1, <1>3, PIDFacts DEF RequestInv, CheckedInv
<1>. QED
  BY <1>1, <1>4, <1>5 DEF RequestInv

LEMMA StoppedTypes ==
    ASSUME HostInv, NEW p \in PIDs, procs' = [procs EXCEPT ![p] = Nobody], clock' = clock, screen' = screen
    PROVE  procs' \in [PIDs -> Nat] /\ ClockInv' /\ ScreenInv'
<1>1. procs \in [PIDs -> Nat] /\ clock \in Nat /\ ClockInv /\ ScreenInv
  BY DEF HostInv, HostTypes
<1>2. procs' \in [PIDs -> Nat] /\ \A q \in PIDs : procs'[q] \in {procs[q], Nobody}
  BY <1>1, PIDFacts
<1>3. ClockInv'
  BY <1>1, <1>2 DEF ClockInv, Nobody
<1>. QED
  BY <1>1, <1>2, <1>3 DEF ScreenInv

LEMMA ExitKeeps ==
    ASSUME HostInv, NEW p \in PIDs, Exit(p)
    PROVE  HostInv'
<1>1. procs' = [procs EXCEPT ![p] = Nobody] /\ UNCHANGED <<node, helper, clock, direct, screen, requests>>
  BY DEF Exit
<1>2. procs' \in [PIDs -> Nat] /\ ClockInv' /\ ScreenInv'
  BY <1>1, StoppedTypes
<1>3. HostTypes'
  BY <1>1, <1>2 DEF HostInv, HostTypes
<1>4. \A r \in requests' : RequestInv(r)'
  BY <1>1, StoppedKeeps
<1>. QED
  BY <1>2, <1>3, <1>4 DEF HostInv

LEMMA StopHelperKeeps ==
    ASSUME HostInv, StopHelper
    PROVE  HostInv'
<1>1. /\ procs' = [procs EXCEPT ![helper] = Nobody] /\ helper' = Nobody /\ helper \in PIDs
      /\ \A r \in requests' : r \in requests
      /\ UNCHANGED <<node, clock, direct, screen>>
  BY DEF StopHelper, HostInv, HostTypes
<1>2. procs' \in [PIDs -> Nat] /\ ClockInv' /\ ScreenInv'
  BY <1>1, StoppedTypes
<1>3. HostTypes'
  BY <1>1, <1>2 DEF HostInv, HostTypes
<1>4. \A r \in requests' : RequestInv(r)'
  BY <1>1, StoppedKeeps
<1>. QED
  BY <1>2, <1>3, <1>4 DEF HostInv

\* The restarted node gets a PID no handler holds; what the helper still holds was checked against the
\* node that is gone, and is not the new one: that started later.
LEMMA RestartNodeKeeps ==
    ASSUME HostInv, NEW r \in requests, RestartNode(r)
    PROVE  HostInv'
<1> DEFINE stopped == [procs EXCEPT ![node] = Nobody]
<1>1. PICK p \in PIDs : Free(stopped, p) /\ procs' = [stopped EXCEPT ![p] = clock + 1] /\ node' = p
  BY DEF RestartNode
<1>2. /\ clock' = clock + 1 /\ Settled(p) /\ UNCHANGED <<helper, direct, screen>>
      /\ requests' = {s \in requests : s # r /\ ~InNode(s)}
  BY <1>1 DEF RestartNode, Free
<1>3. procs \in [PIDs -> Nat] /\ clock \in Nat /\ node \in PIDs
  BY DEF HostInv, HostTypes
<1>4. \A q \in PIDs : procs'[q] = IF q = p THEN clock + 1 ELSE IF q = node THEN Nobody ELSE procs[q]
  BY <1>1, <1>3
<1>5. procs' \in [PIDs -> Nat] /\ \A q \in PIDs : procs'[q] \in {Nobody, procs[q], clock + 1}
  BY <1>1, <1>3, <1>4, PIDFacts
<1>6. ClockInv' /\ clock' \in Nat
  BY <1>2, <1>5, ClockGoesOn
<1>7. HostTypes'
  BY <1>1, <1>2, <1>5, <1>6 DEF HostInv, HostTypes
<1>8. ASSUME NEW s \in requests' PROVE RequestInv(s)'
  <2>1. s \in requests /\ RequestInv(s) /\ s.at \in {"helper", "act"}
    BY <1>2 DEF HostInv, InNode, RequestInv, Requests
  <2>2. s.start # clock + 1 /\ s.start <= clock /\ s.start \in Nat /\ clock \in Nat
    BY <2>1, LaterStart
  <2>3. s.pid = p => s.at # "act"
    BY <1>2, <2>1 DEF Settled
  <2>4. s.op # "detail"
    BY <2>1 DEF RequestInv, DetailInv
  <2>5. CheckedInv(s)'
    BY <1>1, <1>2, <1>3, <1>4, <2>1, <2>2, <2>3 DEF RequestInv, CheckedInv
  <2>6. s.start <= clock'
    BY <1>2, <2>2
  <2>. QED
    BY <2>1, <2>4, <2>5, <2>6 DEF RequestInv, DetailInv
<1>9. ScreenInv'
  BY <1>2, ScreenStays
<1>. QED
  BY <1>6, <1>7, <1>8, <1>9 DEF HostInv

LEMMA RebootKeeps ==
    ASSUME HostInv, NEW r \in requests, Reboot(r)
    PROVE  HostInv'
<1>1. PICK n \in PIDs \ {Init1}, h \in PIDs \ {Init1} :
        /\ n # h /\ node' = n /\ helper' = (IF direct THEN Nobody ELSE h)
        /\ procs' = [p \in PIDs |-> IF p \in {Init1, node', helper'} THEN clock + 1 ELSE Nobody]
  BY DEF Reboot
<1>2. clock' = clock + 1 /\ requests' = {} /\ UNCHANGED <<direct, screen>>
  BY DEF Reboot
<1>3. clock \in Nat /\ direct \in BOOLEAN
  BY DEF HostInv, HostTypes
<1>4. procs' \in [PIDs -> Nat] /\ \A q \in PIDs : procs'[q] \in {Nobody, procs[q], clock + 1}
  BY <1>1, <1>3, PIDFacts
<1>5. ClockInv' /\ clock' \in Nat
  BY <1>2, <1>4, ClockGoesOn
<1>6. HostTypes'
  BY <1>1, <1>2, <1>3, <1>4, <1>5 DEF HostTypes
<1>7. ScreenInv'
  BY <1>2, ScreenStays
<1>. QED
  BY <1>2, <1>5, <1>6, <1>7 DEF HostInv

\* Every step keeps what is known of the processes and of the requests under way.
LEMMA HostStep ==
    ASSUME HostInv, [Next]_vars
    PROVE  HostInv'
<1>1. ASSUME UNCHANGED <<host, direct, screen, requests>> PROVE HostInv'
  BY <1>1, OnlyRequests
<1>2. ASSUME NEW c \in Clients, wrap(c) \/ refuse(c) \/ Close(c) PROVE HostInv'
  BY <1>1, <1>2 DEF wrap, refuse, Close
<1>3. CASE UNCHANGED vars
  BY <1>1, <1>3 DEF vars
<1>4. CASE ProcessDetail \/ TerminateProcess \/ RunAction
  BY <1>4, ProcessDetailKeeps, TerminateProcessKeeps, RunActionKeeps
<1>5. CASE StopHelper \/ servePrivilegedHelper
  BY <1>5, StopHelperKeeps, ServeKeeps
<1>6. ASSUME NEW p \in PIDs, Exit(p) \/ Spawn(p) PROVE HostInv'
  BY <1>6, ExitKeeps, SpawnKeeps
<1>7. ASSUME NEW r \in requests, readProcessStart(r) \/ Dispatch(r) \/ executePrivilegedRequest(r) PROVE HostInv'
  BY <1>7, readProcessStartKeeps, DispatchKeeps, HelperKeeps
<1>8. ASSUME NEW r \in requests, Signal(r) PROVE HostInv'
  BY <1>8, AnsweredKeeps DEF Signal
<1>9. ASSUME NEW r \in requests, RestartNode(r) \/ Reboot(r) PROVE HostInv'
  BY <1>9, RestartNodeKeeps, RebootKeeps
<1>. QED
  BY <1>2, <1>3, <1>4, <1>5, <1>6, <1>7, <1>8, <1>9 DEF Next

LEMMA HostInit ==
    ASSUME Init
    PROVE  HostInv
<1>1. HostTypes
  BY PIDFacts DEF Init, HostTypes
<1>2. ClockInv
  BY DEF Init, ClockInv
<1>3. ScreenInv
  BY DEF Init, ScreenInv, NoDetail, Nobody
<1>. QED
  BY <1>1, <1>2, <1>3 DEF Init, HostInv

\* For any processes, PIDs given out again, requests repeated or waiting, and restarts of the node, the
\* helper and the machine: a process that gets SIGTERM is the one whose details were confirmed, and
\* never init, the node or the helper.
THEOREM SignalConfirmed ==
    Spec => OnlyConfirmedSignalled
<1> DEFINE Confirmed ==
      \A r \in requests : (Signal(r) /\ procs[r.pid] # Nobody)
            => procs[r.pid] = r.name /\ r.pid \notin {Init1, node, helper}
<1>1. Init => HostInv
  BY HostInit
<1>2. HostInv /\ [Next]_vars => HostInv'
  BY HostStep
<1>3. HostInv => Confirmed
  <2> SUFFICES ASSUME HostInv, NEW r \in requests, Signal(r), procs[r.pid] # Nobody
               PROVE  procs[r.pid] = r.name /\ r.pid \notin {Init1, node, helper}
    OBVIOUS
  <2>1. RequestInv(r) /\ r.op = "terminate" /\ r.at = "act"
    BY DEF HostInv, Signal
  <2>2. procs[r.pid] = r.start /\ r.start = r.name /\ r.pid > 1 /\ r.pid # node /\ r.pid # helper
    BY <2>1 DEF RequestInv, CheckedInv
  <2>3. r.pid # Init1
    BY <2>1, <2>2, PIDFacts DEF Init1, RequestInv
  <2>. QED
    BY <2>2, <2>3
<1>4. HostInv => [Confirmed]_vars
  BY <1>3
<1>. QED
  BY <1>1, <1>2, <1>4, PTL DEF Spec, OnlyConfirmedSignalled
-----------------------------------------------------------------------------
(* The snapshot cache. *)

Readings == {"none", "rated", "first", "recovered", "failed"}

TypeOK ==
    /\ pc \in [Readers -> {"idle", "wait"} \cup Cache!InCycle] /\ want \in [Readers -> Cache!Depths]
    /\ age \in [Cache!Depths -> Nat] /\ published \in [Cache!Depths -> SUBSET Readings]
    /\ haveCPU \in BOOLEAN /\ haveNet \in BOOLEAN /\ warmup \in BOOLEAN
    /\ cpu \in Readings /\ net \in Readings
    /\ spent \in Nat /\ left \in Nat /\ joined \in SUBSET Readers

\* The mutex: one client at a time is between its freshness test and its publication.
OneCycle == \A c, o \in Readers : pc[c] \in Cache!InCycle /\ pc[o] \in Cache!InCycle => c = o

\* The samples of the cycle under way: the second one finds counters, or that the first one failed.
SampleInv ==
    \A c \in Readers :
        /\ pc[c] = "first" => cpu = "none" /\ net = "none" /\ (warmup \/ (haveCPU /\ haveNet))
        /\ pc[c] = "second" => (haveCPU \/ cpu = "failed") /\ (haveNet \/ net = "failed")
        /\ pc[c] = "publish" => cpu # "first" /\ net # "first"

\* What the proof of NoZeroRates goes by.
RateInv == TypeOK /\ OneCycle /\ SampleInv /\ Cache!NoZeroRates

\* Two cycles, one of each depth, are shorter than snapshotCacheTTL.
Timing == TTL \in Nat /\ MaxCollect \in Nat /\ 2 * MaxCollect < TTL

\* A cycle takes no longer than the bound.
TimeInv == Cache!Locked => spent + left <= MaxCollect

InCycleOf(d) == \E o \in Readers : pc[o] \in Cache!InCycle /\ want[o] = d

\* While a client that came during a cycle of its depth waits, this cycle is still under way, or its snapshot
\* is fresh enough to outlast one cycle of the other depth, which then cannot be followed by another.
JoinedInv ==
    \A c \in joined :
        /\ pc[c] \notin Cache!InCycle
        /\ (pc[c] = "wait" /\ ~InCycleOf(want[c])) =>
            /\ published[want[c]] # {}
            /\ IF Cache!Locked THEN age[want[c]] + left <= 2 * MaxCollect
               ELSE \/ age[want[c]] <= MaxCollect
                    \/ /\ age[want[c]] <= 2 * MaxCollect
                       /\ \A e \in Cache!Depths \ {want[c]} : published[e] # {} /\ age[e] <= MaxCollect

ShareInv == TypeOK /\ OneCycle /\ TimeInv /\ JoinedInv
-----------------------------------------------------------------------------
\* The types and the mutex hold at the start, and every step keeps them.
LEMMA BasicStep ==
    ASSUME TTL \in Nat, MaxCollect \in Nat
    PROVE  /\ Cache!Init => TypeOK /\ OneCycle
           /\ TypeOK /\ OneCycle /\ [Cache!Next]_(Cache!vars) => TypeOK' /\ OneCycle'
<1>1. ASSUME Cache!Init PROVE TypeOK /\ OneCycle
  <2>1. TypeOK
    BY <1>1 DEF Cache!Init, TypeOK, Cache!Depths, Readings
  <2>2. OneCycle
    BY <1>1 DEF Cache!Init, OneCycle, Cache!InCycle
  <2> QED
    BY <2>1, <2>2
<1>2. ASSUME TypeOK, OneCycle, [Cache!Next]_(Cache!vars) PROVE TypeOK' /\ OneCycle'
  <2> USE <1>2 DEF TypeOK, OneCycle, Cache!InCycle, Cache!Goto
  <2>1. ASSUME NEW c \in Readers, NEW d \in Cache!Depths, Cache!Request(c, d) PROVE TypeOK' /\ OneCycle'
    BY <2>1 DEF Cache!Request
  <2>2. ASSUME NEW c \in Readers, Cache!ReturnCached(c) PROVE TypeOK' /\ OneCycle'
    BY <2>2 DEF Cache!ReturnCached
  <2>3. ASSUME NEW c \in Readers, Cache!StartCycle(c) PROVE TypeOK' /\ OneCycle'
    BY <2>3 DEF Cache!StartCycle, Cache!Locked, Readings
  <2>4. ASSUME NEW c \in Readers, Cache!Collect(c) PROVE TypeOK' /\ OneCycle'
    <3>1. cpu' \in Readings /\ haveCPU' \in BOOLEAN
      BY <2>4 DEF Cache!Collect, Cache!collectCPU, Cache!Reading, Readings
    <3>2. net' \in Readings /\ haveNet' \in BOOLEAN
      BY <2>4 DEF Cache!Collect, Cache!collectNetwork, Cache!Reading, Readings
    <3> QED
      BY <2>4, <3>1, <3>2 DEF Cache!Collect
  <2>5. ASSUME NEW c \in Readers, Cache!Publish(c) PROVE TypeOK' /\ OneCycle'
    BY <2>5 DEF Cache!Publish
  <2>6. CASE Cache!Elapse
    BY <2>6 DEF Cache!Elapse, Cache!AtMost, Cache!Depths
  <2>7. CASE UNCHANGED Cache!vars
    BY <2>7 DEF Cache!vars
  <2> QED
    BY <2>1, <2>2, <2>3, <2>4, <2>5, <2>6, <2>7 DEF Cache!Next
<1> QED
  BY <1>1, <1>2

\* The counters at every sample and the readings at every publication.
LEMMA SampleStep ==
    ASSUME TypeOK, OneCycle, SampleInv, Cache!NoZeroRates, [Cache!Next]_(Cache!vars)
    PROVE  SampleInv' /\ Cache!NoZeroRates'
<1> USE DEF TypeOK, OneCycle, SampleInv, Cache!NoZeroRates, Cache!InCycle, Cache!Goto
<1>1. ASSUME NEW c \in Readers, NEW d \in Cache!Depths, Cache!Request(c, d) PROVE SampleInv' /\ Cache!NoZeroRates'
  BY <1>1 DEF Cache!Request
<1>2. ASSUME NEW c \in Readers, Cache!ReturnCached(c) PROVE SampleInv' /\ Cache!NoZeroRates'
  BY <1>2 DEF Cache!ReturnCached
<1>3. ASSUME NEW c \in Readers, Cache!StartCycle(c) PROVE SampleInv' /\ Cache!NoZeroRates'
  <2>1. pc' = [pc EXCEPT ![c] = "first"] /\ cpu' = "none" /\ net' = "none" /\ published' = published
    BY <1>3 DEF Cache!StartCycle
  <2>2. \A o \in Readers : pc[o] \notin {"first", "second", "publish"}
    BY <1>3 DEF Cache!StartCycle, Cache!Locked
  <2>3. warmup' \/ (haveCPU' /\ haveNet')
    BY <1>3 DEF Cache!StartCycle
  <2> QED
    BY <2>1, <2>2, <2>3
<1>4. ASSUME NEW c \in Readers, Cache!Collect(c) PROVE SampleInv' /\ Cache!NoZeroRates'
  <2>1. pc[c] = "first" => haveCPU' \/ cpu' = "failed"
    BY <1>4 DEF Cache!Collect, Cache!collectCPU
  <2>2. pc[c] = "first" => haveNet' \/ net' = "failed"
    BY <1>4 DEF Cache!Collect, Cache!collectNetwork
  <2>3. pc[c] = "second" \/ ~warmup => cpu' # "first"
    BY <1>4 DEF Cache!Collect, Cache!collectCPU, Cache!Reading
  <2>4. pc[c] = "second" \/ ~warmup => net' # "first"
    BY <1>4 DEF Cache!Collect, Cache!collectNetwork, Cache!Reading
  <2>5. /\ pc[c] \in {"first", "second"} /\ published' = published
        /\ pc' = [pc EXCEPT ![c] = IF pc[c] = "first" /\ warmup THEN "second" ELSE "publish"]
    BY <1>4 DEF Cache!Collect
  <2>6. \A o \in Readers \ {c} : pc[o] \notin {"first", "second", "publish"}
    BY <2>5
  <2> QED
    BY <2>1, <2>2, <2>3, <2>4, <2>5, <2>6
<1>5. ASSUME NEW c \in Readers, Cache!Publish(c) PROVE SampleInv' /\ Cache!NoZeroRates'
  BY <1>5 DEF Cache!Publish
<1>6. CASE Cache!Elapse
  BY <1>6 DEF Cache!Elapse
<1>7. CASE UNCHANGED Cache!vars
  BY <1>7 DEF Cache!vars
<1> QED
  BY <1>1, <1>2, <1>3, <1>4, <1>5, <1>6, <1>7 DEF Cache!Next

\* What is published has rates, or a reading of its cycle failed, whichever client of whichever depth ran the
\* cycle and whenever the counters were lost: the second sample of Get is taken when it is needed.
THEOREM CacheRates == TTL \in Nat /\ MaxCollect \in Nat => (Cache!Spec => []Cache!NoZeroRates)
<1> SUFFICES ASSUME TTL \in Nat, MaxCollect \in Nat PROVE Cache!Spec => []Cache!NoZeroRates
  OBVIOUS
<1>1. Cache!Init => RateInv
  <2>1. Cache!Init => SampleInv /\ Cache!NoZeroRates
    BY DEF Cache!Init, SampleInv, Cache!NoZeroRates
  <2> QED
    BY <2>1, BasicStep DEF RateInv
<1>2. RateInv /\ [Cache!Next]_(Cache!vars) => RateInv'
  BY BasicStep, SampleStep DEF RateInv
<1>3. RateInv => Cache!NoZeroRates
  BY DEF RateInv
<1> QED
  BY <1>1, <1>2, <1>3, PTL DEF Cache!Spec
-----------------------------------------------------------------------------
\* Cycles keep to the bound.
LEMMA TimeStep ==
    ASSUME TTL \in Nat, MaxCollect \in Nat, TypeOK, TimeInv, [Cache!Next]_(Cache!vars)
    PROVE  TimeInv'
<1> USE DEF TypeOK, TimeInv, Cache!Locked, Cache!InCycle, Cache!Goto
<1>1. ASSUME NEW c \in Readers, NEW d \in Cache!Depths, Cache!Request(c, d) PROVE TimeInv'
  BY <1>1 DEF Cache!Request
<1>2. ASSUME NEW c \in Readers, Cache!ReturnCached(c) PROVE TimeInv'
  BY <1>2 DEF Cache!ReturnCached
<1>3. ASSUME NEW c \in Readers, Cache!StartCycle(c) PROVE TimeInv'
  BY <1>3 DEF Cache!StartCycle
<1>4. ASSUME NEW c \in Readers, Cache!Collect(c) PROVE TimeInv'
  BY <1>4 DEF Cache!Collect
<1>5. ASSUME NEW c \in Readers, Cache!Publish(c) PROVE TimeInv'
  BY <1>5 DEF Cache!Publish
<1>6. CASE Cache!Elapse
  BY <1>6 DEF Cache!Elapse, Cache!AtMost
<1>7. CASE UNCHANGED Cache!vars
  BY <1>7 DEF Cache!vars
<1> QED
  BY <1>1, <1>2, <1>3, <1>4, <1>5, <1>6, <1>7 DEF Cache!Next

\* A client that came during a cycle of its depth finds the snapshot fresh when it gets the mutex.
LEMMA JoinedFresh ==
    ASSUME Timing, TypeOK, JoinedInv, NEW c \in joined, pc[c] = "wait", ~Cache!Locked
    PROVE  Cache!Fresh(want[c])
<1>1. ~InCycleOf(want[c]) /\ c \in Readers
  BY DEF Cache!Locked, InCycleOf, TypeOK
<1>2. published[want[c]] # {} /\ age[want[c]] \in Nat /\ age[want[c]] <= 2 * MaxCollect
  BY <1>1 DEF JoinedInv, TypeOK, Timing
<1> QED
  BY <1>2 DEF Cache!Fresh, Timing

\* The snapshot such a client waits for stays fresh.
LEMMA JoinedStep ==
    ASSUME Timing, ShareInv, [Cache!Next]_(Cache!vars)
    PROVE  JoinedInv'
<1> USE DEF ShareInv, TypeOK, Cache!InCycle, Cache!Goto, Timing
<1> DEFINE Ready(c) ==
        /\ published[want[c]] # {}
        /\ IF Cache!Locked THEN age[want[c]] + left <= 2 * MaxCollect
           ELSE \/ age[want[c]] <= MaxCollect
                \/ /\ age[want[c]] <= 2 * MaxCollect
                   /\ \A e \in Cache!Depths \ {want[c]} : published[e] # {} /\ age[e] <= MaxCollect
<1>0. \A c \in joined : pc[c] \notin Cache!InCycle /\ (pc[c] = "wait" /\ ~InCycleOf(want[c]) => Ready(c))
  BY DEF JoinedInv
<1>1. ASSUME NEW c \in Readers, NEW d \in Cache!Depths, Cache!Request(c, d) PROVE JoinedInv'
  <2>1. /\ pc[c] = "idle" /\ pc' = [pc EXCEPT ![c] = "wait"] /\ want' = [want EXCEPT ![c] = d]
        /\ joined' = IF InCycleOf(d) THEN joined \cup {c} ELSE joined \ {c}
        /\ UNCHANGED <<age, published, left>>
    BY <1>1 DEF Cache!Request, InCycleOf
  <2>2. Cache!Locked' = Cache!Locked /\ \A e \in Cache!Depths : InCycleOf(e)' = InCycleOf(e)
    BY <2>1 DEF Cache!Locked, InCycleOf
  <2>3. ASSUME NEW o \in joined', o # c PROVE o \in joined /\ pc'[o] = pc[o] /\ want'[o] = want[o] /\ want[o] \in Cache!Depths
    BY <2>1, <2>3
  <2>4. c \in joined' => InCycleOf(d) /\ want'[c] = d /\ pc'[c] = "wait"
    BY <2>1
  <2> QED
    BY <1>0, <2>1, <2>2, <2>3, <2>4 DEF JoinedInv
<1>2. ASSUME NEW c \in Readers, Cache!ReturnCached(c) PROVE JoinedInv'
  <2>1. pc' = [pc EXCEPT ![c] = "idle"] /\ pc[c] = "wait" /\ UNCHANGED <<want, age, published, left, joined>>
    BY <1>2 DEF Cache!ReturnCached
  <2>2. Cache!Locked' = Cache!Locked /\ \A e \in Cache!Depths : InCycleOf(e)' = InCycleOf(e)
    BY <2>1 DEF Cache!Locked, InCycleOf
  <2> QED
    BY <1>0, <2>1, <2>2 DEF JoinedInv
<1>3. ASSUME NEW c \in Readers, Cache!StartCycle(c) PROVE JoinedInv'
  <2>1. /\ pc' = [pc EXCEPT ![c] = "first"] /\ pc[c] = "wait" /\ ~Cache!Locked /\ ~Cache!Fresh(want[c])
        /\ left' = MaxCollect /\ UNCHANGED <<want, age, published, joined>>
    BY <1>3 DEF Cache!StartCycle
  <2>2. c \notin joined
    BY <2>1, JoinedFresh
  <2>3. ASSUME NEW o \in joined, pc[o] = "wait", want[o] # want[c]
        PROVE  published[want[o]] # {} /\ age[want[o]] <= MaxCollect
    <3>1. Ready(o)
      BY <1>0, <2>1, <2>3 DEF Cache!Locked, InCycleOf
    <3>2. published[want[c]] = {} \/ age[want[c]] >= TTL
      BY <2>1 DEF Cache!Fresh
    <3> QED
      BY <2>1, <2>3, <3>1, <3>2
  <2>4. Cache!Locked' /\ \A o \in joined : want[o] = want[c] => InCycleOf(want[o])'
    BY <2>1 DEF Cache!Locked, InCycleOf
  <2> QED
    BY <1>0, <2>1, <2>2, <2>3, <2>4 DEF JoinedInv
<1>4. ASSUME NEW c \in Readers, Cache!Collect(c) PROVE JoinedInv'
  <2>1. /\ pc[c] \in {"first", "second"} /\ UNCHANGED <<want, age, published, left, joined>>
        /\ \E p \in {"second", "publish"} : pc' = [pc EXCEPT ![c] = p]
    BY <1>4 DEF Cache!Collect
  <2>2. Cache!Locked' = Cache!Locked /\ \A e \in Cache!Depths : InCycleOf(e)' = InCycleOf(e)
    BY <2>1 DEF Cache!Locked, InCycleOf
  <2> QED
    BY <1>0, <2>1, <2>2 DEF JoinedInv
<1>5. ASSUME NEW c \in Readers, Cache!Publish(c) PROVE JoinedInv'
  <2>1. /\ pc[c] = "publish" /\ pc' = [pc EXCEPT ![c] = "idle"] /\ UNCHANGED <<want, left, joined>>
        /\ published' = [published EXCEPT ![want[c]] = {cpu, net}] /\ age' = [age EXCEPT ![want[c]] = spent]
    BY <1>5 DEF Cache!Publish
  <2>2. Cache!Locked /\ ~Cache!Locked' /\ spent <= MaxCollect
    BY <2>1 DEF OneCycle, Cache!Locked, TimeInv
  <2>3. ASSUME NEW o \in joined, pc'[o] = "wait" PROVE Ready(o)'
    <3>1. CASE want[o] = want[c]
      BY <2>1, <2>2, <2>3, <3>1
    <3>2. CASE want[o] # want[c]
      <4>1. ~InCycleOf(want[o])
        BY <2>1, <3>2 DEF OneCycle, InCycleOf
      <4>2. pc[o] = "wait"
        BY <2>1, <2>3
      <4>3. published[want[o]] # {} /\ age[want[o]] <= 2 * MaxCollect
        BY <1>0, <2>2, <4>1, <4>2
      <4>4. \A e \in Cache!Depths \ {want[o]} : e = want[c]
        BY <3>2 DEF Cache!Depths
      <4> QED
        BY <2>1, <2>2, <3>2, <4>3, <4>4
    <3> QED
      BY <3>1, <3>2
  <2> QED
    BY <1>0, <2>1, <2>3 DEF JoinedInv
<1>6. CASE Cache!Elapse
  <2>1. /\ UNCHANGED <<pc, want, published, joined>> /\ \A d \in Cache!Depths : age'[d] <= age[d] + 1
        /\ IF Cache!Locked THEN left > 0 /\ left' = left - 1 ELSE \A c \in Readers : pc[c] = "idle"
    BY <1>6 DEF Cache!Elapse, Cache!AtMost
  <2>2. Cache!Locked' = Cache!Locked /\ \A e \in Cache!Depths : InCycleOf(e)' = InCycleOf(e)
    BY <2>1 DEF Cache!Locked, InCycleOf
  <2>3. age' \in [Cache!Depths -> Nat]
    BY <1>6 DEF Cache!Elapse, Cache!AtMost
  <2>4. ASSUME NEW c \in joined, pc[c] = "wait", ~InCycleOf(want[c]) PROVE Ready(c)'
    <3>1. Cache!Locked /\ Ready(c)
      BY <1>0, <2>1, <2>4
    <3> QED
      BY <2>1, <2>2, <2>3, <3>1
  <2> QED
    BY <1>0, <2>1, <2>2, <2>4 DEF JoinedInv
<1>7. CASE UNCHANGED Cache!vars
  BY <1>7 DEF Cache!vars, JoinedInv, InCycleOf, Cache!Locked
<1> QED
  BY <1>1, <1>2, <1>3, <1>4, <1>5, <1>6, <1>7 DEF Cache!Next

\* Whoever asks while a cycle of its depth is under way is answered by that cycle and runs none of its own, also
\* when clients of the other depth get the mutex before it - for any number of clients, if two cycles take less
\* than snapshotCacheTTL (TLC finds the contrary as soon as they may take as long).
THEOREM CacheShares == Timing => (Cache!Spec => []Cache!SharedCycle)
<1> SUFFICES ASSUME Timing PROVE Cache!Spec => []Cache!SharedCycle
  OBVIOUS
<1>1. Cache!Init => ShareInv
  <2>1. Cache!Init => TimeInv /\ JoinedInv
    BY DEF Cache!Init, TimeInv, JoinedInv, Cache!Locked, Cache!InCycle
  <2> QED
    BY <2>1, BasicStep DEF ShareInv, Timing
<1>2. ShareInv /\ [Cache!Next]_(Cache!vars) => ShareInv'
  BY BasicStep, TimeStep, JoinedStep DEF ShareInv, Timing
<1>3. ShareInv => Cache!SharedCycle
  BY DEF ShareInv, JoinedInv, Cache!SharedCycle
<1> QED
  BY <1>1, <1>2, <1>3, PTL DEF Cache!Spec


-----------------------------------------------------------------------------
(* The node of the run: its cache is a SnapshotCache while the other parts stand still or move. *)

LEMMA CacheOfNode == NodeSpec => Cache!Spec
<1>1. NodeInit => Cache!Init
  BY DEF NodeInit
<1>2. [NodeNext]_<<part, vars, cacheVars, historyVars>> => [Cache!Next]_(Cache!vars)
  BY DEF NodeNext, ManagementStep, CacheStep, HistoryStep, cacheVars, Cache!vars
<1>. QED
  BY <1>1, <1>2, PTL DEF NodeSpec, Cache!Spec

\* CacheRates, of the cache of a node (the property of run node).
THEOREM RatesReal == TTL \in Nat /\ MaxCollect \in Nat => (NodeSpec => []NoZeroRates)
<1> SUFFICES ASSUME TTL \in Nat, MaxCollect \in Nat PROVE NodeSpec => []NoZeroRates
  OBVIOUS
<1>1. Cache!Spec => []Cache!NoZeroRates
  BY CacheRates
<1>2. Cache!NoZeroRates => NoZeroRates
  BY DEF NoZeroRates
<1>. QED
  BY <1>1, <1>2, CacheOfNode, PTL

\* CacheShares, of the cache of a node (the property of run node).
THEOREM CycleShared == Timing => (NodeSpec => []SharedCycle)
<1> SUFFICES ASSUME Timing PROVE NodeSpec => []SharedCycle
  OBVIOUS
<1>1. Cache!Spec => []Cache!SharedCycle
  BY CacheShares
<1>2. Cache!SharedCycle => SharedCycle
  BY DEF SharedCycle
<1>. QED
  BY <1>1, <1>2, CacheOfNode, PTL

-----------------------------------------------------------------------------
(* The history file. *)

\* A set of numbers has a least one.
LEMMA LeastNumber == \A T \in SUBSET Nat : T # {} => \E x \in T : \A y \in T : x <= y
<1> SUFFICES ASSUME NEW T \in SUBSET Nat, T # {} PROVE \E x \in T : \A y \in T : x <= y
  OBVIOUS
<1>1. \A x, y \in T : y < x => <<y, x>> \in OpToRel(<, Nat)
  BY DEF OpToRel
<1>2. PICK x \in T : \A y \in T : ~(<<y, x>> \in OpToRel(<, Nat))
  BY WFMin, NatLessThanWellFounded
<1>3. \A y \in T : ~(y < x)
  BY <1>1, <1>2
<1>4. \A y \in T : x <= y
  <2> SUFFICES ASSUME NEW y \in T PROVE x <= y
    OBVIOUS
  <2>1. x \in Nat /\ y \in Nat /\ ~(y < x)
    BY <1>3
  <2>. QED
    BY <2>1
<1>. QED
  BY <1>4

Rising(s) == \A i, j \in 1..Len(s) : i < j => s[i] < s[j]

LEMMA AppendKeeps ==
    ASSUME NEW s \in Seq(Nat), NEW x \in Nat
    PROVE  /\ Append(s, x) \in Seq(Nat)
           /\ History!Elements(Append(s, x)) = History!Elements(s) \cup {x}
           /\ Rising(s) /\ (\A m \in History!Elements(s) : m < x) => Rising(Append(s, x))
<1>1. /\ Append(s, x) \in Seq(Nat) /\ Len(Append(s, x)) = Len(s) + 1 /\ Append(s, x)[Len(s) + 1] = x
      /\ \A i \in 1..Len(s) : Append(s, x)[i] = s[i]
  OBVIOUS
<1>2. History!Elements(Append(s, x)) \subseteq History!Elements(s) \cup {x}
  BY <1>1 DEF History!Elements
<1>3. History!Elements(s) \cup {x} \subseteq History!Elements(Append(s, x))
  BY <1>1 DEF History!Elements
<1>4. ASSUME Rising(s), \A m \in History!Elements(s) : m < x PROVE Rising(Append(s, x))
  <2> SUFFICES ASSUME NEW i \in 1..Len(s) + 1, NEW j \in 1..Len(s) + 1, i < j
               PROVE  Append(s, x)[i] < Append(s, x)[j]
    BY <1>1 DEF Rising
  <2>1. i \in 1..Len(s) /\ s[i] < x
    BY <1>4 DEF History!Elements
  <2>2. j \in 1..Len(s) => s[i] < s[j]
    BY <1>4, <2>1 DEF Rising
  <2>. QED
    BY <1>1, <2>1, <2>2
<1>. QED
  BY <1>1, <1>2, <1>3, <1>4

\* trimMemory keeps what is within the retention.
LEMMA TrimKeeps ==
    ASSUME NEW s \in Seq(Nat), Rising(s), NEW time \in Int, Retention \in Nat
    PROVE  LET t == History!Trimmed(s, time)
           IN /\ t \in Seq(Nat) /\ Rising(t) /\ History!Elements(t) \subseteq History!Elements(s)
              /\ \A m \in History!Elements(t) : m > time - Retention
              /\ \A m \in History!Elements(s) : m > time - Retention => m \in History!Elements(t)
<1> DEFINE Split(i) == \A j \in 1..Len(s) : j < i <=> s[j] <= time - Retention
           T == {i \in 1..Len(s) + 1 : i = Len(s) + 1 \/ s[i] > time - Retention}
           index == CHOOSE i \in 1..Len(s) + 1 : Split(i)
           t == SubSeq(s, index, Len(s))
<1>1. PICK least \in T : \A i \in T : least <= i
  <2>1. Len(s) + 1 \in T /\ T \in SUBSET Nat
    OBVIOUS
  <2>. QED
    BY <2>1, LeastNumber
<1>2. Split(least)
  <2> SUFFICES ASSUME NEW j \in 1..Len(s) PROVE j < least <=> s[j] <= time - Retention
    OBVIOUS
  <2>1. CASE j < least
    BY <1>1, <2>1
  <2>2. CASE j >= least
    BY <1>1, <2>2 DEF Rising
  <2>. QED
    BY <1>1, <2>1, <2>2
<1>3. index \in 1..Len(s) + 1 /\ Split(index)
  BY <1>1, <1>2
<1>4. History!Trimmed(s, time) = t
  BY DEF History!Trimmed
<1> HIDE DEF index, T
<1>5. /\ t \in Seq(Nat) /\ Len(t) = Len(s) + 1 - index
      /\ \A i \in 1..Len(t) : t[i] = s[index + i - 1]
  BY <1>3
<1> HIDE DEF t
<1>6. \A i \in 1..Len(t) : index + i - 1 \in 1..Len(s)
  BY <1>3, <1>5
<1>7. Rising(t)
  <2> SUFFICES ASSUME NEW i \in 1..Len(t), NEW j \in 1..Len(t), i < j PROVE t[i] < t[j]
    BY DEF Rising
  <2>1. index + i - 1 < index + j - 1
    BY <1>3
  <2>. QED
    BY <1>5, <1>6, <2>1 DEF Rising
<1>8. History!Elements(t) \subseteq History!Elements(s)
  <2> SUFFICES ASSUME NEW i \in 1..Len(t) PROVE t[i] \in History!Elements(s)
    BY DEF History!Elements
  <2>. QED
    BY <1>5, <1>6 DEF History!Elements
<1>9. ASSUME NEW j \in 1..Len(s), s[j] > time - Retention PROVE s[j] \in History!Elements(t)
  <2>1. j + 1 - index \in 1..Len(t) /\ t[j + 1 - index] = s[j]
    BY <1>3, <1>5, <1>9
  <2>. QED
    BY <2>1 DEF History!Elements
<1>10. ASSUME NEW i \in 1..Len(t) PROVE t[i] > time - Retention
  <2> DEFINE place == index + i - 1
  <2>1. place \in 1..Len(s) /\ ~(place < index) /\ t[i] = s[place]
    BY <1>3, <1>5, <1>6
  <2> HIDE DEF place
  <2>2. s[place] \in Nat
    BY <2>1
  <2>3. ~(s[place] <= time - Retention)
    BY <1>3, <2>1
  <2> HIDE DEF Split
  <2>. QED
    BY <2>1, <2>2, <2>3
<1>11. \A m \in History!Elements(t) : m > time - Retention
  BY <1>10 DEF History!Elements
<1>12. \A m \in History!Elements(s) : m > time - Retention => m \in History!Elements(t)
  <2> SUFFICES ASSUME NEW j \in 1..Len(s), s[j] > time - Retention PROVE s[j] \in History!Elements(t)
    BY DEF History!Elements
  <2>. QED
    BY <1>9
<1> HIDE DEF Split
<1>. QED
  BY <1>4, <1>5, <1>7, <1>8, <1>11, <1>12

\* What load has taken of the first n lines: all that decode, are not too old, and exceed every line before them;
\* and nothing it passed over exceeds the last one taken.
Taken(taken, lines, cutoff, n) ==
    /\ taken \in Seq(Nat) /\ Rising(taken) /\ Len(taken) <= n
    /\ \A m \in History!Elements(taken) : m > 0 /\ \E i \in 1..n : lines[i] = m
    /\ \A i \in 1..n : lines[i] = 0 \/ lines[i] < cutoff \/ \E m \in History!Elements(taken) : lines[i] <= m
    /\ \A i \in 1..n : lines[i] # 0 /\ lines[i] >= cutoff /\ (\A j \in 1..n : j < i => lines[j] < lines[i])
          => lines[i] \in History!Elements(taken)

LEMMA TakesNext ==
    ASSUME NEW lines \in Seq(Nat), NEW cutoff \in Int, NEW n \in Nat \ {0}, n <= Len(lines), NEW before,
           Taken(before, lines, cutoff, n - 1)
    PROVE  Taken(History!Loaded(before, lines[n], cutoff), lines, cutoff, n)
<1> DEFINE s == lines[n]
<1>1. s \in Nat /\ before \in Seq(Nat)
  BY DEF Taken
<1>2. before # <<>> => /\ before[Len(before)] \in History!Elements(before)
                       /\ \A m \in History!Elements(before) : m <= before[Len(before)]
  <2> SUFFICES ASSUME before # <<>>
               PROVE  /\ before[Len(before)] \in History!Elements(before)
                      /\ \A m \in History!Elements(before) : m <= before[Len(before)]
    OBVIOUS
  <2>1. Len(before) \in 1..Len(before)
    BY <1>1
  <2>2. Rising(before)
    BY DEF Taken
  <2>3. ASSUME NEW i \in 1..Len(before) PROVE before[i] <= before[Len(before)]
    <3>1. before[i] \in Nat
      BY <1>1
    <3>2. CASE i = Len(before)
      BY <3>1, <3>2
    <3>3. CASE i # Len(before)
      <4>1. i < Len(before)
        BY <2>1, <3>3
      <4>2. before[i] < before[Len(before)]
        BY <2>1, <2>2, <4>1 DEF Rising
      <4>3. before[Len(before)] \in Nat
        BY <1>1, <2>1
      <4>. QED
        BY <3>1, <4>2, <4>3
    <3>. QED
      BY <3>2, <3>3
  <2>. QED
    BY <2>1, <2>3 DEF History!Elements
<1>3. CASE s = 0 \/ s < cutoff \/ (before # <<>> /\ s <= before[Len(before)])
  <2>1. History!Loaded(before, lines[n], cutoff) = before
    BY <1>3 DEF History!Loaded, History!Junk
  <2>2. ASSUME NEW i \in 1..n PROVE i \in 1..n - 1 \/ i = n
    OBVIOUS
  <2>3. \A m \in History!Elements(before) : \E i \in 1..n - 1 : lines[i] = m
    BY DEF Taken
  <2>4. s = 0 \/ s < cutoff \/ \E m \in History!Elements(before) : s <= m
    BY <1>2, <1>3
  <2>5. s # 0 /\ s >= cutoff /\ (\A j \in 1..n : j < n => lines[j] < s) => FALSE
    BY <1>1, <2>3, <2>4
  <2>6. Len(before) <= n
    BY <1>1 DEF Taken
  <2>. QED
    BY <2>1, <2>2, <2>3, <2>4, <2>5, <2>6 DEF Taken
<1>4. CASE ~(s = 0 \/ s < cutoff \/ (before # <<>> /\ s <= before[Len(before)]))
  <2> DEFINE after == Append(before, s)
  <2>1. History!Loaded(before, lines[n], cutoff) = after
    BY <1>4 DEF History!Loaded, History!Junk
  <2>2. \A m \in History!Elements(before) : m \in Nat /\ m < s
    <3>1. before = <<>> => History!Elements(before) = {}
      BY DEF History!Elements
    <3>2. \A m \in History!Elements(before) : m \in Nat
      BY <1>1 DEF History!Elements
    <3>3. before # <<>> => before[Len(before)] \in Nat
      BY <1>2, <3>2
    <3>. QED
      BY <1>1, <1>2, <1>4, <3>1, <3>2, <3>3
  <2>3. after \in Seq(Nat) /\ Rising(after) /\ History!Elements(after) = History!Elements(before) \cup {s}
    BY <1>1, <2>2, AppendKeeps DEF Taken
  <2> HIDE DEF after
  <2>4. \A i \in 1..n : i \in 1..n - 1 \/ i = n
    OBVIOUS
  <2>5. \A m \in History!Elements(after) : m > 0 /\ \E i \in 1..n : lines[i] = m
    BY <1>1, <1>4, <2>3 DEF Taken
  <2>6. \A i \in 1..n : lines[i] = 0 \/ lines[i] < cutoff \/ \E m \in History!Elements(after) : lines[i] <= m
    <3>1. \A i \in 1..n - 1 : lines[i] = 0 \/ lines[i] < cutoff \/ \E m \in History!Elements(before) : lines[i] <= m
      BY DEF Taken
    <3>2. s \in History!Elements(after) /\ s <= s
      BY <1>1, <2>3
    <3>. QED
      BY <2>3, <2>4, <3>1, <3>2
  <2>7. ASSUME NEW i \in 1..n, lines[i] # 0, lines[i] >= cutoff, \A j \in 1..n : j < i => lines[j] < lines[i]
        PROVE  lines[i] \in History!Elements(after)
    <3>1. \A k \in 1..n - 1 : lines[k] # 0 /\ lines[k] >= cutoff /\ (\A j \in 1..n - 1 : j < k => lines[j] < lines[k])
              => lines[k] \in History!Elements(before)
      BY DEF Taken
    <3>2. \A j \in 1..n - 1 : j \in 1..n
      OBVIOUS
    <3>. QED
      BY <2>3, <2>4, <2>7, <3>1, <3>2
  <2>8. Len(after) <= n
    <3>1. Len(after) = Len(before) + 1
      BY <1>1 DEF after
    <3>2. Len(before) <= n - 1
      BY DEF Taken
    <3>. QED
      BY <1>1, <3>1, <3>2
  <2>. QED
    BY <2>1, <2>3, <2>5, <2>6, <2>7, <2>8 DEF Taken
<1>. QED
  BY <1>3, <1>4

\* load, by induction over the lines.
LEMMA LoadTakes ==
    ASSUME NEW lines \in Seq(Nat), NEW cutoff \in Int
    PROVE  Taken(History!Decoded(lines, cutoff), lines, cutoff, Len(lines))
<1> DEFINE Is(f, n) == f = [i \in 0..n |-> IF i = 0 THEN <<>> ELSE History!Loaded(f[i - 1], lines[i], cutoff)]
           Unfounded == {n \in Nat : ~ \E f : Is(f, n)}
<1>1. \A n \in Nat : \E f : Is(f, n)
  <2> SUFFICES ASSUME Unfounded # {} PROVE FALSE
    OBVIOUS
  <2>1. PICK n \in Unfounded : \A k \in Unfounded : n <= k
    BY LeastNumber
  <2>2. n # 0
    <3>1. Is([i \in 0..0 |-> <<>>], 0)
      OBVIOUS
    <3>. QED
      BY <2>1, <3>1
  <2>3. PICK g : Is(g, n - 1)
    <3>1. n - 1 \in Nat /\ ~(n <= n - 1)
      BY <2>1, <2>2
    <3>2. n - 1 \notin Unfounded
      <4> HIDE DEF Unfounded
      <4>. QED
        BY <2>1, <3>1
    <3> HIDE DEF Is
    <3>. QED
      BY <3>1, <3>2
  <2> DEFINE f == [i \in 0..n |-> IF i < n THEN g[i] ELSE History!Loaded(g[n - 1], lines[n], cutoff)]
  <2>4. Is(f, n)
    BY <2>1, <2>2, <2>3
  <2>. QED
    BY <2>1, <2>4
<1> DEFINE taken == CHOOSE f : Is(f, Len(lines))
<1>2. Is(taken, Len(lines))
  <2>1. \E f : Is(f, Len(lines))
    BY <1>1
  <2> HIDE DEF Is
  <2>. QED
    BY <2>1
<1>3. History!Decoded(lines, cutoff) = taken[Len(lines)]
  BY DEF History!Decoded
<1> HIDE DEF taken
<1>4. taken[0] = <<>> /\ \A n \in 1..Len(lines) : taken[n] = History!Loaded(taken[n - 1], lines[n], cutoff)
  BY <1>2
<1> DEFINE Wrong == {n \in 0..Len(lines) : ~Taken(taken[n], lines, cutoff, n)}
<1>5. ASSUME Wrong # {} PROVE FALSE
  <2>1. PICK n \in Wrong : \A k \in Wrong : n <= k
    <3>1. Wrong \in SUBSET Nat
      OBVIOUS
    <3> HIDE DEF Wrong
    <3>. QED
      BY <1>5, <3>1, LeastNumber
  <2>2. n # 0
    <3>1. History!Elements(<<>>) = {} /\ Rising(<<>>)
      BY DEF History!Elements, Rising
    <3>2. Taken(<<>>, lines, cutoff, 0)
      BY <3>1 DEF Taken
    <3>. QED
      BY <1>4, <2>1, <3>2
  <2>3. Taken(taken[n - 1], lines, cutoff, n - 1)
    BY <2>1, <2>2
  <2>. QED
    BY <1>4, <2>1, <2>2, <2>3, TakesNext
<1>6. Taken(taken[Len(lines)], lines, cutoff, Len(lines))
  BY <1>5
<1>. QED
  BY <1>3, <1>6

\* One process uses the file. (With two, a prune of one removes what the other appended.)
OneProcess == Retention \in Nat /\ \A p, q \in Procs : p = q

Recent(m) == m > latest - Retention

HistoryTypes ==
    /\ now \in Nat \ {0} /\ latest \in Nat /\ now <= latest
    /\ file \in Seq(Nat) /\ tail \in Nat \cup {History!NoTail}
    /\ step \in [Procs -> {"down", "idle", "prune"}]
    /\ samples \in [Procs -> Seq(Nat)] /\ last \in [Procs -> Nat] /\ at \in [Procs -> Nat]
    /\ kept \subseteq Nat \ {0}

\* A recent sample of the file exceeds all before it, so load takes it.
OrderInv ==
    \A i, j \in 1..Len(History!Lines) :
        i < j /\ History!Lines[j] # 0 /\ Recent(History!Lines[j]) => History!Lines[i] < History!Lines[j]

\* What a process has in memory is in order and not later than its last bucket, nor is anything recent in the file.
MemoryInv ==
    \A p \in Procs :
        /\ at[p] <= latest /\ Rising(samples[p])
        /\ \A m \in History!Elements(samples[p]) : 0 < m /\ m <= last[p]
        /\ step[p] # "down" => \A m \in History!Elements(History!Lines) : m <= last[p] \/ ~Recent(m)

\* A recent sample is in the file, and in the memory from which a prune rewrites it.
StoredInv ==
    \A m \in kept : Recent(m) =>
        /\ m \in History!Elements(file)
        /\ \A p \in Procs : step[p] # "down" => m \in History!Elements(samples[p])

HistoryInv == HistoryTypes /\ OrderInv /\ MemoryInv /\ StoredInv

LEMMA HistoryBegins == History!Init => HistoryInv
<1> SUFFICES ASSUME History!Init PROVE HistoryInv
  OBVIOUS
<1>1. History!Elements(<<>>) = {} /\ Rising(<<>>)
  BY DEF History!Elements, Rising
<1>2. History!Lines = <<>>
  BY DEF History!Init, History!Lines
<1>3. HistoryTypes
  BY DEF History!Init, HistoryTypes
<1>. QED
  BY <1>1, <1>2, <1>3 DEF History!Init, HistoryInv, OrderInv, MemoryInv, StoredInv

\* The lines are a sequence that ends with the tail.
LEMMA LinesAre ==
    ASSUME HistoryTypes
    PROVE  /\ History!Lines \in Seq(Nat)
           /\ History!Elements(file) \subseteq History!Elements(History!Lines)
           /\ tail # History!NoTail => tail \in History!Elements(History!Lines)
<1>1. CASE tail = History!NoTail
  BY <1>1 DEF HistoryTypes, History!Lines
<1>2. CASE tail # History!NoTail
  <2>1. tail \in Nat
    BY <1>2 DEF HistoryTypes
  <2>. QED
    BY <1>2, <2>1, AppendKeeps DEF HistoryTypes, History!Lines
<1>. QED
  BY <1>1, <1>2

\* Time only makes samples old.
LEMMA TimeKeeps ==
    ASSUME OneProcess, HistoryInv, latest' \in Nat, latest <= latest', now' \in Nat \ {0}, now' <= latest',
           UNCHANGED <<file, tail, step, samples, last, at, kept>>
    PROVE  HistoryInv'
<1>1. History!Lines' = History!Lines /\ History!Lines \in Seq(Nat)
  BY LinesAre DEF History!Lines, HistoryInv
<1>2. \A m \in Nat : Recent(m)' => Recent(m)
  <2>1. latest \in Nat /\ Retention \in Nat
    BY DEF OneProcess, HistoryInv, HistoryTypes
  <2>2. \A r, a, b, m \in Nat : a <= b /\ m > b - r => m > a - r
    OBVIOUS
  <2>. QED
    BY <2>1, <2>2 DEF Recent
<1>3. HistoryTypes'
  BY DEF HistoryInv, HistoryTypes
<1>4. OrderInv'
  BY <1>1, <1>2 DEF HistoryInv, OrderInv
<1>5. \A m \in History!Elements(History!Lines) : m \in Nat
  BY <1>1 DEF History!Elements
<1>6. \A p \in Procs : at[p] <= latest'
  BY DEF HistoryInv, MemoryInv, HistoryTypes
<1>7. MemoryInv'
  BY <1>1, <1>2, <1>5, <1>6 DEF HistoryInv, MemoryInv
<1>8. StoredInv'
  <2>1. \A m \in kept : m \in Nat
    BY DEF HistoryInv, HistoryTypes
  <2>. QED
    BY <1>2, <2>1 DEF HistoryInv, StoredInv
<1>. QED
  BY <1>3, <1>4, <1>7, <1>8 DEF HistoryInv

LEMMA StartKeeps == ASSUME OneProcess, HistoryInv, NEW p \in Procs, History!Start(p) PROVE HistoryInv'
<1>1. PICK cutoff \in {now - Retention, now - Retention + 1} :
        /\ samples' = [samples EXCEPT ![p] = History!Decoded(History!Lines, cutoff)]
        /\ last' = [last EXCEPT ![p] = IF History!Decoded(History!Lines, cutoff) = <<>> THEN 0
               ELSE History!Decoded(History!Lines, cutoff)[Len(History!Decoded(History!Lines, cutoff))]]
  BY DEF History!Start
<1>2. cutoff \in Int /\ cutoff <= latest - Retention + 1
  BY <1>1 DEF OneProcess, HistoryInv, HistoryTypes
<1> DEFINE lines == History!Lines
           loaded == History!Decoded(History!Lines, cutoff)
<1>3. lines \in Seq(Nat) /\ History!Elements(file) \subseteq History!Elements(lines)
  BY LinesAre DEF HistoryInv
<1>4. Taken(loaded, lines, cutoff, Len(lines))
  BY <1>2, <1>3, LoadTakes
<1>5. /\ samples'[p] = loaded /\ last'[p] = IF loaded = <<>> THEN 0 ELSE loaded[Len(loaded)]
      /\ \A q \in Procs : q = p
      /\ UNCHANGED <<now, file, tail, at, latest, kept>> /\ lines' = lines
      /\ DOMAIN samples' = Procs /\ DOMAIN last' = Procs
  BY <1>1 DEF History!Start, OneProcess, History!Lines, HistoryInv, HistoryTypes
<1> HIDE DEF loaded, lines
<1>6. last'[p] \in Nat /\ \A m \in History!Elements(loaded) : m \in Nat /\ m <= last'[p]
  <2>1. loaded \in Seq(Nat)
    BY <1>4 DEF Taken
  <2>. QED
    BY <1>4, <1>5, <2>1 DEF Taken, Rising, History!Elements
<1>7. HistoryTypes'
  <2>1. step' \in [Procs -> {"down", "idle", "prune"}]
    BY DEF History!Start, HistoryInv, HistoryTypes
  <2>2. samples' \in [Procs -> Seq(Nat)] /\ last' \in [Procs -> Nat]
    BY <1>1, <1>4, <1>5, <1>6 DEF Taken, HistoryInv, HistoryTypes
  <2>. QED
    BY <1>5, <2>1, <2>2 DEF HistoryInv, HistoryTypes
<1>8. OrderInv'
  BY <1>5 DEF HistoryInv, OrderInv, Recent, lines
<1>9. MemoryInv'
  <2>1. \A m \in History!Elements(lines) : m <= last'[p] \/ ~Recent(m)
    <3> SUFFICES ASSUME NEW i \in 1..Len(lines) PROVE lines[i] <= last'[p] \/ ~Recent(lines[i])
      BY DEF History!Elements
    <3>1. lines[i] \in Nat
      BY <1>3
    <3>2. CASE lines[i] = 0 \/ \E m \in History!Elements(loaded) : lines[i] <= m
      BY <1>6, <3>1, <3>2
    <3>3. CASE lines[i] < cutoff
      BY <1>2, <3>1, <3>3 DEF Recent, OneProcess, HistoryInv, HistoryTypes
    <3>. QED
      BY <1>4, <3>2, <3>3 DEF Taken
  <2>2. \A m \in History!Elements(loaded) : 0 < m
    BY <1>4 DEF Taken
  <2>3. Rising(loaded)
    BY <1>4 DEF Taken
  <2>4. \A m : Recent(m)' <=> Recent(m)
    BY <1>5 DEF Recent
  <2>. QED
    BY <1>5, <1>6, <2>1, <2>2, <2>3, <2>4 DEF HistoryInv, MemoryInv, lines
<1>10. StoredInv'
  <2> SUFFICES ASSUME NEW m \in kept, Recent(m) PROVE m \in History!Elements(file) /\ m \in History!Elements(loaded)
    BY <1>5 DEF StoredInv, Recent
  <2>1. m \in History!Elements(file) /\ m \in Nat \ {0}
    BY DEF HistoryInv, StoredInv, HistoryTypes
  <2>2. PICK j \in 1..Len(lines) : lines[j] = m
    BY <1>3, <2>1 DEF History!Elements
  <2>3. \A i \in 1..Len(lines) : i < j => lines[i] < lines[j]
    BY <2>1, <2>2 DEF HistoryInv, OrderInv, lines
  <2>4. m >= cutoff
    BY <1>2, <2>1 DEF Recent, OneProcess, HistoryInv, HistoryTypes
  <2>. QED
    BY <1>4, <2>1, <2>2, <2>3, <2>4 DEF Taken
<1>. QED
  BY <1>7, <1>8, <1>9, <1>10 DEF HistoryInv

\* What Record sees of the past: nothing recent in the file is as late as now, nor is anything in memory.
LEMMA BucketIsNew ==
    ASSUME OneProcess, HistoryInv, NEW p \in Procs, step[p] = "idle", History!NewBucket(p)
    PROVE  /\ \A m \in History!Elements(samples[p]) : m < now
           /\ \A m \in History!Elements(History!Lines) : m \in Nat /\ (Recent(m) => m < now) /\ (Recent(now) => m < now)
<1>1. last[p] \in Nat /\ now \in Nat \ {0} /\ latest \in Nat /\ samples[p] \in Seq(Nat) /\ Retention \in Nat
  BY DEF OneProcess, HistoryInv, HistoryTypes
<1>2. last[p] = 0 \/ last[p] < now
  BY <1>1 DEF History!NewBucket
<1>3. \A m \in History!Elements(samples[p]) : m \in Nat /\ 0 < m /\ m <= last[p]
  BY <1>1 DEF HistoryInv, MemoryInv, History!Elements
<1>4. \A m \in History!Elements(History!Lines) : m \in Nat /\ (m <= last[p] \/ ~Recent(m))
  BY LinesAre DEF HistoryInv, MemoryInv, History!Elements
<1>5. ASSUME NEW m \in History!Elements(History!Lines) PROVE (Recent(m) => m < now) /\ (Recent(now) => m < now)
  BY <1>1, <1>2, <1>4 DEF Recent
<1>. QED
  BY <1>1, <1>2, <1>3, <1>4, <1>5

\* A line, whole or broken, at the end of the file.
LEMMA LineAdded ==
    ASSUME NEW lines \in Seq(Nat), NEW x \in Nat,
           \A i, j \in 1..Len(lines) : i < j /\ lines[j] # 0 /\ Recent(lines[j]) => lines[i] < lines[j],
           x # 0 => \A m \in History!Elements(lines) : Recent(x) => m < x
    PROVE  LET longer == Append(lines, x)
           IN \A i, j \in 1..Len(longer) :
                 i < j /\ longer[j] # 0 /\ Recent(longer[j]) => longer[i] < longer[j]
<1> DEFINE longer == Append(lines, x)
<1>1. /\ Len(longer) = Len(lines) + 1 /\ longer[Len(lines) + 1] = x
      /\ \A i \in 1..Len(lines) : longer[i] = lines[i] /\ lines[i] \in History!Elements(lines)
  BY DEF History!Elements
<1> HIDE DEF longer
<1>2. ASSUME NEW i \in 1..Len(longer), NEW j \in 1..Len(longer), i < j, longer[j] # 0, Recent(longer[j])
      PROVE  longer[i] < longer[j]
  <2>1. i \in 1..Len(lines)
    BY <1>1, <1>2
  <2>2. CASE j \in 1..Len(lines)
    BY <1>1, <1>2, <2>1, <2>2
  <2>3. CASE j = Len(lines) + 1
    BY <1>1, <1>2, <2>1, <2>3
  <2>. QED
    BY <1>1, <2>2, <2>3
<1>. QED
  BY <1>2 DEF longer

\* The process has added now to what it had in memory, and trimmed that or not.
LEMMA MemoryGrows ==
    ASSUME OneProcess, HistoryInv, NEW p \in Procs, step[p] = "idle", History!NewBucket(p), NEW kind \in BOOLEAN
    PROVE  LET grown == Append(samples[p], now)
               next == IF kind THEN grown ELSE History!Trimmed(grown, now)
           IN /\ next \in Seq(Nat) /\ Rising(next)
              /\ \A m \in History!Elements(next) : 0 < m /\ m <= now
              /\ \A m \in History!Elements(samples[p]) \cup {now} : Recent(m) => m \in History!Elements(next)
<1> DEFINE grown == Append(samples[p], now)
           trimmed == History!Trimmed(grown, now)
<1>1. /\ samples[p] \in Seq(Nat) /\ now \in Nat \ {0} /\ Rising(samples[p]) /\ Retention \in Nat
      /\ latest \in Nat /\ now <= latest
  BY DEF OneProcess, HistoryInv, HistoryTypes, MemoryInv
<1>2. \A m \in History!Elements(samples[p]) : m \in Nat /\ 0 < m /\ m < now
  BY <1>1, BucketIsNew DEF HistoryInv, MemoryInv, History!Elements
<1>3. /\ grown \in Seq(Nat) /\ Rising(grown)
      /\ History!Elements(grown) = History!Elements(samples[p]) \cup {now}
  BY <1>1, <1>2, AppendKeeps
<1> HIDE DEF grown
<1>4. /\ trimmed \in Seq(Nat) /\ Rising(trimmed) /\ History!Elements(trimmed) \subseteq History!Elements(grown)
      /\ \A m \in History!Elements(grown) : m > now - Retention => m \in History!Elements(trimmed)
  <2>1. now \in Int
    BY <1>1
  <2>. QED
    BY <1>1, <1>3, <2>1, TrimKeeps
<1> HIDE DEF trimmed
<1>5. \A m \in History!Elements(grown) : m \in Nat /\ 0 < m /\ m <= now
  BY <1>1, <1>2, <1>3
<1>6. \A m \in History!Elements(grown) : Recent(m) => m > now - Retention
  <2>1. \A r, a, b, m \in Nat : a <= b /\ m > b - r => m > a - r
    OBVIOUS
  <2>. QED
    BY <1>1, <1>5, <2>1 DEF Recent
<1>. QED
  BY <1>3, <1>4, <1>5, <1>6 DEF grown, trimmed

LEMMA RecordKeeps == ASSUME OneProcess, HistoryInv, NEW p \in Procs, History!Record(p) PROVE HistoryInv'
<1> DEFINE lines == History!Lines
           line == IF tail = History!NoTail THEN now ELSE 0
<1>1. /\ step[p] = "idle" /\ History!NewBucket(p) /\ file' = Append(file, line) /\ tail' = History!NoTail
      /\ last' = [last EXCEPT ![p] = now] /\ at' = [at EXCEPT ![p] = now]
      /\ kept' = IF tail = History!NoTail THEN kept \cup {now} ELSE kept
      /\ UNCHANGED <<now, latest>>
  BY DEF History!Record, History!Junk
<1>2. PICK kind \in BOOLEAN :
         samples' = [samples EXCEPT ![p] = IF kind THEN Append(samples[p], now)
                                           ELSE History!Trimmed(Append(samples[p], now), now)]
  <2>1. CASE pruneAge[p] >= PrunePeriod
    BY <2>1 DEF History!Record
  <2>2. CASE ~(pruneAge[p] >= PrunePeriod)
    BY <2>2 DEF History!Record
  <2>. QED
    BY <2>1, <2>2
<1> DEFINE next == IF kind THEN Append(samples[p], now) ELSE History!Trimmed(Append(samples[p], now), now)
<1>3. /\ next \in Seq(Nat) /\ Rising(next) /\ \A m \in History!Elements(next) : 0 < m /\ m <= now
      /\ \A m \in History!Elements(samples[p]) \cup {now} : Recent(m) => m \in History!Elements(next)
  BY <1>1, MemoryGrows
<1>4. samples' = [samples EXCEPT ![p] = next]
  BY <1>2
<1> HIDE DEF next
<1>5. /\ \A q \in Procs : q = p
      /\ samples[p] \in Seq(Nat) /\ now \in Nat \ {0} /\ latest \in Nat /\ now <= latest
      /\ file \in Seq(Nat) /\ line \in Nat /\ lines \in Seq(Nat)
  BY LinesAre DEF OneProcess, HistoryInv, HistoryTypes
<1>6. /\ samples'[p] = next /\ last'[p] = now /\ at'[p] = now
  BY <1>1, <1>4 DEF HistoryInv, HistoryTypes
<1>7. HistoryTypes'
  <2>1. step' \in [Procs -> {"down", "idle", "prune"}]
    BY DEF History!Record, HistoryInv, HistoryTypes
  <2>2. samples' \in [Procs -> Seq(Nat)] /\ last' \in [Procs -> Nat] /\ at' \in [Procs -> Nat]
    BY <1>1, <1>3, <1>4, <1>5 DEF HistoryInv, HistoryTypes
  <2>3. file' \in Seq(Nat) /\ kept' \subseteq Nat \ {0}
    BY <1>1, <1>5, AppendKeeps DEF HistoryInv, HistoryTypes
  <2>. QED
    BY <1>1, <1>5, <2>1, <2>2, <2>3 DEF HistoryInv, HistoryTypes
<1>8. /\ \A m \in History!Elements(lines) : m \in Nat /\ (Recent(m) => m < now) /\ (Recent(now) => m < now)
  BY <1>1, BucketIsNew
<1>9. /\ \A i, j \in 1..Len(file) : i < j /\ file[j] # 0 /\ Recent(file[j]) => file[i] < file[j]
      /\ History!Elements(file) \subseteq History!Elements(lines)
  <2>1. \A i \in 1..Len(file) : i \in 1..Len(lines) /\ lines[i] = file[i]
    BY <1>5 DEF History!Lines, HistoryInv, HistoryTypes
  <2>. QED
    BY <2>1 DEF HistoryInv, OrderInv, History!Elements
<1>10. History!Lines' = Append(file, line)
  BY <1>1 DEF History!Lines
<1>11. \A m : Recent(m)' <=> Recent(m)
  BY <1>1 DEF Recent
<1>12. History!Elements(Append(file, line)) = History!Elements(file) \cup {line}
  BY <1>5, AppendKeeps
<1>13. OrderInv'
  <2>1. line # 0 => \A m \in History!Elements(file) : Recent(line) => m < line
    BY <1>8, <1>9
  <2>2. \A i, j \in 1..Len(Append(file, line)) :
            i < j /\ Append(file, line)[j] # 0 /\ Recent(Append(file, line)[j]) => Append(file, line)[i] < Append(file, line)[j]
    <3> HIDE DEF line
    <3>. QED
      BY <1>5, <1>9, <2>1, LineAdded
  <2>. QED
    BY <1>10, <1>11, <2>2 DEF OrderInv
<1>14. MemoryInv'
  <2>1. \A m \in History!Elements(Append(file, line)) : m <= now \/ ~Recent(m)
    BY <1>5, <1>8, <1>9, <1>12
  <2>. QED
    BY <1>3, <1>5, <1>6, <1>10, <1>11, <1>1, <2>1 DEF MemoryInv
<1>15. StoredInv'
  <2>1. ASSUME NEW m \in kept', Recent(m) PROVE m \in History!Elements(file') /\ m \in History!Elements(next)
    <3>1. CASE m \in kept
      <4>1. m \in History!Elements(file) /\ m \in History!Elements(samples[p])
        BY <1>1, <2>1, <3>1 DEF HistoryInv, StoredInv
      <4>. QED
        BY <1>1, <1>3, <1>12, <2>1, <4>1
    <3>2. CASE m \notin kept
      <4>1. m = now /\ line = now
        BY <1>1, <2>1, <3>2
      <4>. QED
        BY <1>1, <1>3, <1>12, <2>1, <4>1
    <3>. QED
      BY <3>1, <3>2
  <2>. QED
    BY <1>5, <1>6, <1>11, <2>1 DEF StoredInv
<1>. QED
  BY <1>7, <1>13, <1>14, <1>15 DEF HistoryInv

\* A failed append leaves the sample in memory, and may leave a broken or an unended line.
LEMMA FailureKeeps == ASSUME OneProcess, HistoryInv, NEW p \in Procs, History!RecordFails(p) PROVE HistoryInv'
<1> DEFINE lines == History!Lines
           next == History!Trimmed(Append(samples[p], now), now)
<1>1. /\ step[p] = "idle" /\ History!NewBucket(p) /\ samples' = [samples EXCEPT ![p] = next]
      /\ last' = [last EXCEPT ![p] = now] /\ at' = [at EXCEPT ![p] = now]
      /\ tail' = tail \/ tail' \in IF tail = History!NoTail THEN {0, now} ELSE {0}
      /\ UNCHANGED <<now, file, step, latest, kept>>
  BY DEF History!RecordFails, History!Junk
<1>2. /\ next \in Seq(Nat) /\ Rising(next) /\ \A m \in History!Elements(next) : 0 < m /\ m <= now
      /\ \A m \in History!Elements(samples[p]) \cup {now} : Recent(m) => m \in History!Elements(next)
  BY <1>1, MemoryGrows, FALSE \in BOOLEAN
<1> HIDE DEF next
<1>3. /\ \A q \in Procs : q = p
      /\ now \in Nat \ {0} /\ latest \in Nat /\ now <= latest /\ file \in Seq(Nat) /\ lines \in Seq(Nat)
  BY LinesAre DEF OneProcess, HistoryInv, HistoryTypes
<1>4. samples'[p] = next /\ last'[p] = now /\ at'[p] = now
  BY <1>1 DEF HistoryInv, HistoryTypes
<1>5. HistoryTypes'
  <2>1. samples' \in [Procs -> Seq(Nat)] /\ last' \in [Procs -> Nat] /\ at' \in [Procs -> Nat]
    BY <1>1, <1>2, <1>3 DEF HistoryInv, HistoryTypes
  <2>2. tail' \in Nat \cup {History!NoTail}
    BY <1>1, <1>3 DEF HistoryInv, HistoryTypes
  <2>. QED
    BY <1>1, <1>3, <2>1, <2>2 DEF HistoryInv, HistoryTypes
<1>6. \A m \in History!Elements(lines) : m \in Nat /\ (Recent(m) => m < now) /\ (Recent(now) => m < now)
  BY <1>1, BucketIsNew
<1>7. /\ \A i, j \in 1..Len(file) : i < j /\ file[j] # 0 /\ Recent(file[j]) => file[i] < file[j]
      /\ History!Elements(file) \subseteq History!Elements(lines)
  <2>1. \A i \in 1..Len(file) : i \in 1..Len(lines) /\ lines[i] = file[i]
    BY <1>3 DEF History!Lines, HistoryInv, HistoryTypes
  <2>. QED
    BY <2>1 DEF HistoryInv, OrderInv, History!Elements
<1>8. \A m : Recent(m)' <=> Recent(m)
  BY <1>1 DEF Recent
<1>9. /\ \A i, j \in 1..Len(History!Lines') :
            i < j /\ History!Lines'[j] # 0 /\ Recent(History!Lines'[j]) => History!Lines'[i] < History!Lines'[j]
      /\ \A m \in History!Elements(History!Lines') : m <= now \/ ~Recent(m)
  <2>1. CASE tail' = tail
    <3>1. History!Lines' = lines
      BY <1>1, <2>1 DEF History!Lines
    <3>. QED
      BY <1>3, <1>6, <3>1 DEF HistoryInv, OrderInv
  <2>2. CASE tail' # tail
    <3>1. tail' \in {0, now} /\ tail' # History!NoTail /\ tail' \in Nat
      BY <1>1, <1>3, <2>2 DEF History!NoTail
    <3>2. History!Lines' = Append(file, tail')
      BY <1>1, <3>1 DEF History!Lines
    <3>3. History!Elements(History!Lines') = History!Elements(file) \cup {tail'}
      BY <1>3, <3>1, <3>2, AppendKeeps
    <3>4. tail' # 0 => \A m \in History!Elements(file) : Recent(tail') => m < tail'
      BY <1>6, <1>7, <3>1
    <3>5. \A x \in Nat : (x # 0 => \A m \in History!Elements(file) : Recent(x) => m < x) =>
            \A i, j \in 1..Len(Append(file, x)) :
                i < j /\ Append(file, x)[j] # 0 /\ Recent(Append(file, x)[j]) => Append(file, x)[i] < Append(file, x)[j]
      BY <1>3, <1>7, LineAdded
    <3>6. \A m \in History!Elements(History!Lines') : m <= now \/ ~Recent(m)
      BY <1>3, <1>6, <1>7, <3>1, <3>3
    <3>. QED
      BY <3>1, <3>2, <3>4, <3>5, <3>6
  <2>. QED
    BY <2>1, <2>2
<1>10. OrderInv'
  BY <1>8, <1>9 DEF OrderInv
<1>11. MemoryInv'
  BY <1>1, <1>2, <1>3, <1>4, <1>8, <1>9 DEF MemoryInv
<1>12. StoredInv'
  BY <1>1, <1>2, <1>3, <1>4, <1>8 DEF HistoryInv, StoredInv
<1>. QED
  BY <1>5, <1>10, <1>11, <1>12 DEF HistoryInv

LEMMA PruneKeeps == ASSUME OneProcess, HistoryInv, NEW p \in Procs, History!PruneFile(p) PROVE HistoryInv'
<1> DEFINE next == History!Trimmed(samples[p], at[p])
<1>1. /\ step[p] = "prune" /\ step' = [step EXCEPT ![p] = "idle"] /\ samples' = [samples EXCEPT ![p] = next]
      /\ (file' = samples[p] /\ tail' = History!NoTail) \/ UNCHANGED <<file, tail>>
      /\ UNCHANGED <<now, last, at, latest, kept>>
  BY DEF History!PruneFile
<1>2. /\ \A q \in Procs : q = p
      /\ Retention \in Nat /\ latest \in Nat /\ at[p] \in Nat /\ at[p] <= latest /\ samples[p] \in Seq(Nat) /\ Rising(samples[p])
      /\ \A m \in History!Elements(samples[p]) : m \in Nat /\ 0 < m /\ m <= last[p]
  BY DEF OneProcess, HistoryInv, HistoryTypes, MemoryInv, History!Elements
<1>3. /\ next \in Seq(Nat) /\ Rising(next) /\ History!Elements(next) \subseteq History!Elements(samples[p])
      /\ \A m \in History!Elements(samples[p]) : m > at[p] - Retention => m \in History!Elements(next)
  <2>1. at[p] \in Int
    BY <1>2
  <2>. QED
    BY <1>2, <2>1, TrimKeeps
<1> HIDE DEF next
<1>4. \A m \in History!Elements(samples[p]) : Recent(m) => m \in History!Elements(next)
  <2>1. \A r, a, b, m \in Nat : a <= b /\ m > b - r => m > a - r
    OBVIOUS
  <2>. QED
    BY <1>2, <1>3, <2>1 DEF Recent
<1>5. samples'[p] = next /\ step'[p] = "idle"
  BY <1>1 DEF HistoryInv, HistoryTypes
<1>6. \A m : Recent(m)' <=> Recent(m)
  BY <1>1 DEF Recent
<1>7. HistoryTypes'
  BY <1>1, <1>2, <1>3 DEF HistoryInv, HistoryTypes
<1>8. CASE file' = samples[p] /\ tail' = History!NoTail
  <2>1. History!Lines' = samples[p]
    BY <1>8 DEF History!Lines
  <2>2. OrderInv'
    BY <1>2, <2>1 DEF OrderInv, Rising
  <2>3. MemoryInv'
    BY <1>1, <1>2, <1>3, <1>5, <2>1 DEF MemoryInv
  <2>4. StoredInv'
    BY <1>1, <1>2, <1>4, <1>5, <1>6, <1>8 DEF HistoryInv, StoredInv
  <2>. QED
    BY <1>7, <2>2, <2>3, <2>4 DEF HistoryInv
<1>9. CASE UNCHANGED <<file, tail>>
  <2>1. History!Lines' = History!Lines
    BY <1>9 DEF History!Lines
  <2>2. OrderInv'
    BY <1>6, <2>1 DEF HistoryInv, OrderInv
  <2>3. MemoryInv'
    BY <1>1, <1>2, <1>3, <1>5, <1>6, <2>1 DEF HistoryInv, MemoryInv
  <2>4. StoredInv'
    BY <1>1, <1>2, <1>4, <1>5, <1>6, <1>9 DEF HistoryInv, StoredInv
  <2>. QED
    BY <1>7, <2>2, <2>3, <2>4 DEF HistoryInv
<1>. QED
  BY <1>1, <1>8, <1>9

LEMMA EndKeeps == ASSUME OneProcess, HistoryInv, NEW p \in Procs, History!Exit(p) PROVE HistoryInv'
<1>1. /\ step' = [step EXCEPT ![p] = "down"] /\ samples' = [samples EXCEPT ![p] = <<>>]
      /\ last' = [last EXCEPT ![p] = 0] /\ at' = [at EXCEPT ![p] = 0]
      /\ UNCHANGED <<now, file, tail, latest, kept>>
  BY DEF History!Exit
<1>2. (\A q \in Procs : q = p) /\ latest \in Nat
  BY DEF OneProcess, HistoryInv, HistoryTypes
<1>3. step'[p] = "down" /\ samples'[p] = <<>> /\ last'[p] = 0 /\ at'[p] = 0
  BY <1>1 DEF HistoryInv, HistoryTypes
<1>4. History!Elements(<<>>) = {} /\ Rising(<<>>)
  BY DEF History!Elements, Rising
<1>5. History!Lines' = History!Lines /\ \A m : Recent(m)' <=> Recent(m)
  BY <1>1 DEF History!Lines, Recent
<1>6. HistoryTypes'
  BY <1>1 DEF HistoryInv, HistoryTypes
<1>7. OrderInv'
  BY <1>5 DEF HistoryInv, OrderInv
<1>8. MemoryInv'
  <2>1. 0 <= latest' /\ Rising(<<>>)
    BY <1>1, <1>2, <1>4
  <2>. QED
    BY <1>2, <1>3, <1>4, <2>1 DEF MemoryInv
<1>9. StoredInv'
  BY <1>1, <1>2, <1>3, <1>5 DEF HistoryInv, StoredInv
<1>. QED
  BY <1>6, <1>7, <1>8, <1>9 DEF HistoryInv

LEMMA HistoryKeeps ==
    ASSUME OneProcess PROVE HistoryInv /\ [History!Next]_(History!vars) => HistoryInv'
<1> SUFFICES ASSUME HistoryInv, [History!Next]_(History!vars) PROVE HistoryInv'
  OBVIOUS
<1>1. ASSUME NEW p \in Procs,
             \/ History!Start(p) \/ History!Record(p) \/ History!RecordFails(p) \/ History!PruneFile(p) \/ History!Exit(p)
      PROVE  HistoryInv'
  <2>1. CASE History!Start(p)
    BY <2>1, StartKeeps
  <2>2. CASE History!Record(p)
    BY <2>2, RecordKeeps
  <2>3. CASE History!RecordFails(p)
    BY <2>3, FailureKeeps
  <2>4. CASE History!PruneFile(p)
    BY <2>4, PruneKeeps
  <2>5. CASE History!Exit(p)
    BY <2>5, EndKeeps
  <2>. QED
    BY <1>1, <2>1, <2>2, <2>3, <2>4, <2>5
<1>2. now \in Nat \ {0} /\ latest \in Nat /\ now <= latest
  BY DEF HistoryInv, HistoryTypes
<1>3. CASE History!Elapse
  BY <1>2, <1>3, TimeKeeps DEF History!Elapse
<1>4. CASE History!SetClockBack
  <2>1. PICK m \in History!Minutes : m < now /\ now' = m
    BY <1>4 DEF History!SetClockBack
  <2>2. m \in Nat \ {0}
    BY <1>2, <2>1 DEF History!Minutes
  <2>. QED
    BY <1>2, <1>4, <2>1, <2>2, TimeKeeps DEF History!SetClockBack, History!storeVars
<1>5. CASE UNCHANGED History!vars
  BY <1>2, <1>5, TimeKeeps DEF History!vars
<1>. QED
  BY <1>1, <1>3, <1>4, <1>5 DEF History!Next

\* Every reachable state satisfies the inductive invariant of a history file that one process uses.
THEOREM HistoryInvariant == OneProcess => (History!Spec => []HistoryInv)
<1> SUFFICES ASSUME OneProcess PROVE History!Spec => []HistoryInv
  OBVIOUS
<1>1. History!Init => HistoryInv
  BY HistoryBegins
<1>2. HistoryInv /\ [History!Next]_(History!vars) => HistoryInv'
  BY HistoryKeeps
<1>. QED
  BY <1>1, <1>2, PTL DEF History!Spec

\* A minute that was appended as a line of its own is in the file as long as it is within the retention, over any number
\* of prunes, restarts, failed and torn writes, and clocks that are set back (history.go: Record, load, pruneFile).
THEOREM SamplesStay == OneProcess => (NodeSpec => []SamplesKept)
<1> SUFFICES ASSUME OneProcess PROVE NodeSpec => []SamplesKept
  OBVIOUS
<1>1. NodeInit => History!Init
  BY DEF NodeInit
<1>2. [NodeNext]_<<part, vars, cacheVars, historyVars>> => [History!Next]_(History!vars)
  BY DEF NodeNext, ManagementStep, CacheStep, HistoryStep, historyVars, History!vars
<1>3. HistoryInv => SamplesKept
  BY DEF HistoryInv, StoredInv, Recent, SamplesKept, History!SamplesKept
<1>. QED
  BY <1>1, <1>2, <1>3, HistoryInvariant, PTL DEF NodeSpec, History!Spec

\* A rising sequence of numbers of an interval is not longer than the interval.
LEMMA RisingIsShort ==
    ASSUME NEW s \in Seq(Nat), Rising(s), NEW low \in Int, NEW high \in Int, low <= high,
           \A m \in History!Elements(s) : low < m /\ m <= high
    PROVE  Len(s) <= high - low
<1> DEFINE Wrong == {i \in 1..Len(s) : ~(low + i <= s[i])}
<1>1. ASSUME Wrong # {} PROVE FALSE
  <2>1. PICK i \in Wrong : \A k \in Wrong : i <= k
    <3>1. Wrong \in SUBSET Nat
      OBVIOUS
    <3> HIDE DEF Wrong
    <3>. QED
      BY <1>1, <3>1, LeastNumber
  <2>2. i \in 1..Len(s) /\ s[i] \in Nat /\ low < s[i]
    BY <2>1 DEF History!Elements
  <2>3. i # 1
    BY <2>1, <2>2
  <2>4. i - 1 \in 1..Len(s) /\ i - 1 \notin Wrong /\ s[i - 1] \in Nat
    <3>1. i - 1 \in 1..Len(s) /\ ~(i <= i - 1)
      BY <2>2, <2>3
    <3> HIDE DEF Wrong
    <3>. QED
      BY <2>1, <3>1
  <2>5. s[i - 1] < s[i]
    BY <2>2, <2>4 DEF Rising
  <2>. QED
    BY <2>1, <2>2, <2>4, <2>5
<1>2. CASE Len(s) = 0
  BY <1>2
<1>3. CASE Len(s) > 0
  <2>1. Len(s) \in 1..Len(s) /\ s[Len(s)] \in Nat /\ low + Len(s) <= s[Len(s)] /\ s[Len(s)] <= high
    BY <1>1, <1>3 DEF History!Elements
  <2>. QED
    BY <2>1
<1>. QED
  BY <1>2, <1>3

\* What a process may have left in the file before the prune period that is under way.
Base(n) == Retention + (PrunePeriod + 1) * (n - 1)
Periods == starts + faults

LineCount == IF tail = History!NoTail THEN Len(file) ELSE Len(file) + 1

\* In each period a process adds a line per minute at most: pruneAge counts the minutes, and a line is added when now
\* has passed the last bucket. Memory is trimmed to the retention, except for what was loaded.
GrowthInv ==
    /\ starts \in Nat /\ faults \in Nat /\ pruneAge \in [Procs -> 0..PrunePeriod]
    /\ LineCount <= Base(Periods + 1)
    /\ \A p \in Procs :
        /\ step[p] # "down" => starts > 0
        /\ step[p] = "idle" =>
            /\ Len(samples[p]) <= Base(Periods)
            /\ LineCount <= Base(Periods) + PrunePeriod /\ LineCount <= Base(Periods) + pruneAge[p] + 1
            /\ History!NewBucket(p) => LineCount <= Base(Periods) + pruneAge[p]
        /\ step[p] = "prune" =>
            /\ Len(samples[p]) <= Base(Periods) + 1
            /\ at[p] = last[p] /\ last[p] # 0 /\ (now > last[p] => pruneAge[p] > 0)

\* One process, a week and an hour (historyRetention, historyPrunePeriod).
Pruning == OneProcess /\ PrunePeriod \in Nat \ {0}

LEMMA BaseGrows ==
    ASSUME Pruning, NEW n \in Nat
    PROVE  /\ Base(n) \in Int /\ Base(n + 1) = Base(n) + PrunePeriod + 1
           /\ n > 0 => Retention <= Base(n)
  BY DEF Pruning, OneProcess, Base

\* A start or a failed write begins a period.
LEMMA PeriodBegins ==
    ASSUME Pruning, GrowthInv, Periods' = Periods + 1
    PROVE  /\ Base(Periods) \in Int /\ Base(Periods)' = Base(Periods) + PrunePeriod + 1
           /\ Base(Periods + 1) = Base(Periods) + PrunePeriod + 1
           /\ Base(Periods + 1)' = Base(Periods) + 2 * (PrunePeriod + 1)
           /\ Retention <= Base(Periods)'
<1>1. Periods \in Nat
  BY DEF GrowthInv, Periods
<1>2. Periods' \in Nat /\ Periods' > 0
  BY <1>1
<1> DEFINE n == Periods
           m == Periods'
<1>3. Base(Periods)' = Base(m) /\ Base(Periods + 1)' = Base(m + 1)
  BY DEF Base
<1> HIDE DEF n, m
<1>4. n \in Nat /\ m = n + 1 /\ PrunePeriod \in Nat
  BY <1>1 DEF n, m, Pruning
<1>. QED
  BY <1>3, <1>4, BaseGrows DEF n

LEMMA PeriodStays ==
    ASSUME Pruning, GrowthInv, UNCHANGED <<starts, faults>>
    PROVE  /\ Base(Periods) \in Int /\ Base(Periods)' = Base(Periods) /\ Base(Periods + 1)' = Base(Periods + 1)
           /\ Base(Periods + 1) = Base(Periods) + PrunePeriod + 1
           /\ starts > 0 => Retention <= Base(Periods)
<1>1. Periods \in Nat /\ Periods' = Periods /\ (starts > 0 => Periods > 0)
  BY DEF GrowthInv, Periods
<1>. QED
  BY <1>1, BaseGrows DEF Base

LEMMA CountIs ==
    ASSUME HistoryTypes
    PROVE  LineCount \in Nat /\ Len(History!Lines) = LineCount /\ Len(file) <= LineCount
  BY DEF HistoryTypes, LineCount, History!Lines

LEMMA GrowthBegins == Pruning /\ History!Init => GrowthInv
<1> SUFFICES ASSUME Pruning, History!Init PROVE GrowthInv
  OBVIOUS
<1>1. LineCount = 0 /\ Periods = 0 /\ starts = 0 /\ faults = 0
  BY DEF History!Init, LineCount, Periods
<1>2. Base(Periods + 1) = Retention
  BY <1>1 DEF Base, Pruning, OneProcess
<1>3. (\A p \in Procs : step[p] = "down") /\ pruneAge \in [Procs -> 0..PrunePeriod]
  BY DEF History!Init, Pruning
<1>. QED
  BY <1>1, <1>2, <1>3 DEF GrowthInv, Pruning, OneProcess

\* load takes no more than the file has.
LEMMA StartGrows ==
    ASSUME Pruning, HistoryInv, GrowthInv, NEW p \in Procs, History!Start(p) PROVE GrowthInv'
<1>1. PICK cutoff \in {now - Retention, now - Retention + 1} :
        samples' = [samples EXCEPT ![p] = History!Decoded(History!Lines, cutoff)]
  BY DEF History!Start
<1> DEFINE loaded == History!Decoded(History!Lines, cutoff)
<1>2. Len(loaded) <= Len(History!Lines) /\ loaded \in Seq(Nat)
  <2>1. cutoff \in Int
    BY <1>1 DEF Pruning, OneProcess, HistoryInv, HistoryTypes
  <2>. QED
    BY <2>1, LinesAre, LoadTakes DEF HistoryInv, Taken
<1>3. samples'[p] = loaded
  BY <1>1 DEF HistoryInv, HistoryTypes
<1> HIDE DEF loaded
<1>4. /\ step' = [step EXCEPT ![p] = "idle"] /\ starts' = starts + 1
      /\ pruneAge' = [pruneAge EXCEPT ![p] = IF exists THEN 0 ELSE PrunePeriod]
      /\ UNCHANGED <<file, tail, faults>>
  BY DEF History!Start
<1>5. PrunePeriod \in Nat \ {0} /\ \A q \in Procs : q = p
  BY DEF Pruning, OneProcess
<1>6. step'[p] = "idle" /\ pruneAge'[p] \in 0..PrunePeriod /\ pruneAge' \in [Procs -> 0..PrunePeriod]
  BY <1>4, <1>5 DEF GrowthInv, HistoryInv, HistoryTypes
<1>7. LineCount' = LineCount /\ LineCount \in Nat /\ Len(loaded) \in Nat /\ Len(loaded) <= LineCount
  BY <1>2, <1>4, CountIs DEF LineCount, HistoryInv
<1>8. Periods' = Periods + 1 /\ starts' \in Nat /\ starts' > 0 /\ faults' \in Nat
  BY <1>4 DEF GrowthInv, Periods
<1>9. LineCount <= Base(Periods)' /\ Base(Periods)' \in Int /\ Base(Periods + 1)' = Base(Periods)' + PrunePeriod + 1
  BY <1>5, <1>8, PeriodBegins DEF GrowthInv
<1>10. Len(loaded) <= Base(Periods)' /\ LineCount <= Base(Periods)' + PrunePeriod
       /\ LineCount <= Base(Periods)' + pruneAge'[p] /\ LineCount <= Base(Periods)' + pruneAge'[p] + 1
  BY <1>5, <1>6, <1>7, <1>9
<1>11. LineCount' <= Base(Periods + 1)'
  BY <1>5, <1>7, <1>9
<1>12. ASSUME NEW q \in Procs
       PROVE  /\ step'[q] = "idle" /\ starts' > 0
              /\ Len(samples'[q]) <= Base(Periods)'
              /\ LineCount' <= Base(Periods)' + PrunePeriod /\ LineCount' <= Base(Periods)' + pruneAge'[q] + 1
              /\ LineCount' <= Base(Periods)' + pruneAge'[q]
  <2>1. q = p
    BY <1>5
  <2>. QED
    BY <1>3, <1>6, <1>7, <1>8, <1>10, <2>1
<1>. QED
  BY <1>6, <1>8, <1>11, <1>12 DEF GrowthInv

LEMMA TrimIsShort ==
    ASSUME NEW s \in Seq(Nat), Rising(s), NEW time \in Nat, Retention \in Nat, \A m \in History!Elements(s) : m <= time
    PROVE  Len(History!Trimmed(s, time)) <= Retention
<1> DEFINE t == History!Trimmed(s, time)
<1>1. time \in Int /\ time - Retention \in Int /\ time - Retention <= time /\ time - (time - Retention) = Retention
  OBVIOUS
<1>2. /\ t \in Seq(Nat) /\ Rising(t) /\ History!Elements(t) \subseteq History!Elements(s)
      /\ \A m \in History!Elements(t) : m > time - Retention
  BY <1>1, TrimKeeps
<1> HIDE DEF t
<1>3. \A m \in History!Elements(t) : time - Retention < m /\ m <= time
  <2>1. \A m \in History!Elements(t) : m \in Nat
    BY <1>2 DEF History!Elements
  <2>. QED
    BY <1>1, <1>2, <2>1
<1>4. Len(t) <= time - (time - Retention)
  BY <1>1, <1>2, <1>3, RisingIsShort
<1>. QED
  BY <1>1, <1>4 DEF t

\* A line more, unless it is merged with a broken one.
LEMMA RecordGrows ==
    ASSUME Pruning, HistoryInv, GrowthInv, NEW p \in Procs, History!Record(p) PROVE GrowthInv'
<1> DEFINE grown == Append(samples[p], now)
           due == pruneAge[p] >= PrunePeriod
<1>1. /\ step[p] = "idle" /\ History!NewBucket(p)
      /\ file' = Append(file, IF tail = History!NoTail THEN now ELSE 0) /\ tail' = History!NoTail
      /\ last' = [last EXCEPT ![p] = now] /\ at' = [at EXCEPT ![p] = now]
      /\ UNCHANGED <<now, starts, faults>>
  BY DEF History!Record, History!Junk
<1>2. /\ step' = IF due THEN [step EXCEPT ![p] = "prune"] ELSE step
      /\ pruneAge' = IF due THEN [pruneAge EXCEPT ![p] = 0] ELSE pruneAge
      /\ samples' = [samples EXCEPT ![p] = IF due THEN grown ELSE History!Trimmed(grown, now)]
  BY DEF History!Record
<1>3. /\ PrunePeriod \in Nat \ {0} /\ \A q \in Procs : q = p
      /\ Retention \in Nat /\ now \in Nat \ {0} /\ samples[p] \in Seq(Nat) /\ Rising(samples[p])
  BY DEF Pruning, OneProcess, HistoryInv, HistoryTypes, MemoryInv
<1>4. /\ grown \in Seq(Nat) /\ Len(grown) = Len(samples[p]) + 1
      /\ Len(History!Trimmed(grown, now)) <= Retention /\ Len(History!Trimmed(grown, now)) \in Nat
  <2>1. /\ grown \in Seq(Nat) /\ Rising(grown) /\ \A m \in History!Elements(grown) : m <= now
    BY <1>1, <1>3, MemoryGrows, TRUE \in BOOLEAN DEF Pruning
  <2>2. Len(History!Trimmed(grown, now)) <= Retention
    BY <1>3, <2>1, TrimIsShort
  <2>3. History!Trimmed(grown, now) \in Seq(Nat)
    BY <1>3, <2>1, TrimKeeps, now \in Int
  <2>. QED
    BY <1>3, <2>1, <2>2, <2>3
<1>5. LineCount \in Nat /\ LineCount' \in Nat /\ LineCount' <= LineCount + 1
  <2>1. file \in Seq(Nat) /\ LineCount \in Nat
    BY CountIs DEF HistoryInv, HistoryTypes
  <2>. QED
    BY <1>1, <1>3, <2>1 DEF LineCount
<1>6. /\ Base(Periods) \in Int /\ Base(Periods)' = Base(Periods) /\ Base(Periods + 1)' = Base(Periods) + PrunePeriod + 1
      /\ starts > 0 => Retention <= Base(Periods)
  BY <1>1, PeriodStays
<1>7. /\ starts > 0 /\ Len(samples[p]) <= Base(Periods) /\ Retention <= Base(Periods)
      /\ LineCount <= Base(Periods) + PrunePeriod /\ LineCount <= Base(Periods) + pruneAge[p]
      /\ pruneAge[p] \in 0..PrunePeriod
  BY <1>1, <1>6 DEF GrowthInv
<1>8. ~History!NewBucket(p)' /\ at'[p] = now /\ last'[p] = now
  BY <1>1, <1>3 DEF History!NewBucket, HistoryInv, HistoryTypes
<1>9. samples'[p] = IF due THEN grown ELSE History!Trimmed(grown, now)
  BY <1>2 DEF HistoryInv, HistoryTypes
<1>10. starts' \in Nat /\ faults' \in Nat /\ starts' > 0
  BY <1>1, <1>7 DEF GrowthInv
<1>11. CASE due
  <2>1. step'[p] = "prune" /\ pruneAge' \in [Procs -> 0..PrunePeriod] /\ pruneAge'[p] = 0
    BY <1>2, <1>3, <1>11 DEF GrowthInv, HistoryInv, HistoryTypes
  <2>2. Len(samples'[p]) <= Base(Periods)' + 1 /\ LineCount' <= Base(Periods + 1)'
    BY <1>3, <1>4, <1>5, <1>6, <1>7, <1>9, <1>11
  <2>. QED
    BY <1>1, <1>3, <1>8, <1>10, <2>1, <2>2 DEF GrowthInv
<1>12. CASE ~due
  <2>1. step'[p] = "idle" /\ pruneAge' \in [Procs -> 0..PrunePeriod] /\ pruneAge'[p] = pruneAge[p]
    BY <1>1, <1>2, <1>12 DEF GrowthInv
  <2>2. /\ Len(samples'[p]) <= Base(Periods)' /\ LineCount' <= Base(Periods + 1)'
        /\ LineCount' <= Base(Periods)' + PrunePeriod /\ LineCount' <= Base(Periods)' + pruneAge[p] + 1
    BY <1>3, <1>4, <1>5, <1>6, <1>7, <1>9, <1>12
  <2>. QED
    BY <1>3, <1>8, <1>10, <2>1, <2>2 DEF GrowthInv
<1>. QED
  BY <1>11, <1>12

\* A failed append may leave a line without its end; another period begins.
LEMMA FailureGrows ==
    ASSUME Pruning, HistoryInv, GrowthInv, NEW p \in Procs, History!RecordFails(p) PROVE GrowthInv'
<1> DEFINE next == History!Trimmed(Append(samples[p], now), now)
<1>1. /\ step[p] = "idle" /\ History!NewBucket(p) /\ samples' = [samples EXCEPT ![p] = next]
      /\ faults' = faults + 1
      /\ UNCHANGED <<file, step, pruneAge, starts>>
  BY DEF History!RecordFails
<1>2. /\ PrunePeriod \in Nat \ {0} /\ \A q \in Procs : q = p
      /\ Retention \in Nat /\ now \in Nat \ {0}
  BY DEF Pruning, OneProcess, HistoryInv, HistoryTypes
<1>3. Len(next) <= Retention /\ Len(next) \in Nat
  <2> DEFINE grown == Append(samples[p], now)
  <2>1. /\ grown \in Seq(Nat) /\ Rising(grown) /\ \A m \in History!Elements(grown) : m <= now
    BY <1>1, MemoryGrows, TRUE \in BOOLEAN DEF Pruning
  <2>2. Len(History!Trimmed(grown, now)) <= Retention
    BY <1>2, <2>1, TrimIsShort
  <2>3. History!Trimmed(grown, now) \in Seq(Nat)
    BY <1>2, <2>1, TrimKeeps, now \in Int
  <2>. QED
    BY <2>2, <2>3
<1> HIDE DEF next
<1>4. LineCount \in Nat /\ LineCount' \in Nat /\ LineCount' <= LineCount + 1
  <2>1. file \in Seq(Nat) /\ LineCount \in Nat
    BY CountIs DEF HistoryInv, HistoryTypes
  <2>. QED
    BY <1>1, <2>1 DEF LineCount
<1>5. samples'[p] = next
  BY <1>1 DEF HistoryInv, HistoryTypes
<1>6. Periods' = Periods + 1 /\ starts' \in Nat /\ faults' \in Nat
  BY <1>1 DEF GrowthInv, Periods
<1>7. /\ Base(Periods) \in Int /\ Base(Periods)' = Base(Periods) + PrunePeriod + 1
      /\ Base(Periods + 1)' = Base(Periods) + 2 * (PrunePeriod + 1)
      /\ Retention <= Base(Periods)'
  BY <1>6, PeriodBegins
<1>8. /\ starts' > 0 /\ pruneAge'[p] \in 0..PrunePeriod /\ pruneAge' \in [Procs -> 0..PrunePeriod]
      /\ LineCount <= Base(Periods) + PrunePeriod /\ step'[p] = "idle"
  BY <1>1 DEF GrowthInv
<1>9. LineCount' <= Base(Periods)' /\ LineCount' <= Base(Periods + 1)' /\ Len(next) <= Base(Periods)'
  BY <1>2, <1>3, <1>4, <1>7, <1>8
<1>10. LineCount' <= Base(Periods)' + PrunePeriod /\ LineCount' <= Base(Periods)' + pruneAge'[p]
       /\ LineCount' <= Base(Periods)' + pruneAge'[p] + 1
  <2>1. Base(Periods)' \in Int
    BY <1>2, <1>7
  <2>. QED
    BY <1>2, <1>4, <1>8, <1>9, <2>1
<1>. QED
  BY <1>2, <1>5, <1>6, <1>8, <1>9, <1>10 DEF GrowthInv

\* A prune leaves what is in memory, or what was there; then another period begins.
LEMMA PruneGrows ==
    ASSUME Pruning, HistoryInv, GrowthInv, NEW p \in Procs, History!PruneFile(p) PROVE GrowthInv'
<1> DEFINE next == History!Trimmed(samples[p], at[p])
<1>1. /\ step[p] = "prune" /\ step' = [step EXCEPT ![p] = "idle"] /\ samples' = [samples EXCEPT ![p] = next]
      /\ UNCHANGED <<now, last, pruneAge, starts>>
  BY DEF History!PruneFile
<1>2. /\ PrunePeriod \in Nat \ {0} /\ \A q \in Procs : q = p
      /\ Retention \in Nat /\ samples[p] \in Seq(Nat) /\ Rising(samples[p]) /\ last[p] \in Nat /\ now \in Nat
      /\ \A m \in History!Elements(samples[p]) : m <= last[p]
  BY DEF Pruning, OneProcess, HistoryInv, HistoryTypes, MemoryInv
<1>3. /\ starts > 0 /\ Len(samples[p]) <= Base(Periods) + 1 /\ LineCount <= Base(Periods + 1)
      /\ at[p] = last[p] /\ last[p] # 0 /\ (now > last[p] => pruneAge[p] > 0) /\ pruneAge[p] \in 0..PrunePeriod
      /\ starts \in Nat /\ faults \in Nat /\ pruneAge \in [Procs -> 0..PrunePeriod]
  BY <1>1 DEF GrowthInv
<1>4. Len(next) <= Retention /\ Len(next) \in Nat
  <2>1. at[p] \in Nat /\ at[p] \in Int /\ \A m \in History!Elements(samples[p]) : m <= at[p]
    BY <1>2, <1>3
  <2>2. next \in Seq(Nat)
    BY <1>2, <2>1, TrimKeeps
  <2>3. Len(next) <= Retention
    BY <1>2, <2>1, TrimIsShort
  <2>. QED
    BY <2>2, <2>3
<1> HIDE DEF next
<1>5. samples'[p] = next /\ step'[p] = "idle"
  BY <1>1 DEF HistoryInv, HistoryTypes
<1>6. CASE file' = samples[p] /\ tail' = History!NoTail /\ UNCHANGED faults
  <2>1. LineCount' = Len(samples[p]) /\ Len(samples[p]) \in Nat
    BY <1>2, <1>6 DEF LineCount
  <2>2. /\ Base(Periods) \in Int /\ Base(Periods)' = Base(Periods) /\ Base(Periods + 1)' = Base(Periods) + PrunePeriod + 1
        /\ Retention <= Base(Periods)
    BY <1>1, <1>3, <1>6, PeriodStays
  <2>3. /\ LineCount' <= Base(Periods + 1)' /\ Len(next) <= Base(Periods)'
        /\ LineCount' <= Base(Periods)' + PrunePeriod /\ LineCount' <= Base(Periods)' + pruneAge[p] + 1
    BY <1>2, <1>3, <1>4, <2>1, <2>2
  <2>4. History!NewBucket(p)' => LineCount' <= Base(Periods)' + pruneAge[p]
    <3>1. History!NewBucket(p)' => pruneAge[p] > 0
      BY <1>1, <1>3 DEF History!NewBucket
    <3>. QED
      BY <1>3, <2>1, <2>2, <3>1
  <2>. QED
    BY <1>1, <1>2, <1>3, <1>5, <1>6, <2>3, <2>4 DEF GrowthInv
<1>7. CASE faults' = faults + 1 /\ UNCHANGED <<file, tail>>
  <2>1. LineCount' = LineCount /\ LineCount \in Nat
    BY <1>7, CountIs DEF HistoryInv, LineCount
  <2>2. Periods' = Periods + 1 /\ faults' \in Nat
    BY <1>1, <1>3, <1>7 DEF Periods
  <2>3. /\ Base(Periods)' \in Int /\ LineCount <= Base(Periods)' /\ Base(Periods + 1)' = Base(Periods)' + PrunePeriod + 1
        /\ Retention <= Base(Periods)'
    BY <1>2, <1>3, <2>2, PeriodBegins
  <2>4. /\ LineCount' <= Base(Periods + 1)' /\ Len(next) <= Base(Periods)'
        /\ LineCount' <= Base(Periods)' + PrunePeriod /\ LineCount' <= Base(Periods)' + pruneAge[p] + 1
        /\ LineCount' <= Base(Periods)' + pruneAge[p]
    BY <1>2, <1>3, <1>4, <2>1, <2>3
  <2>. QED
    BY <1>1, <1>2, <1>3, <1>5, <2>2, <2>4 DEF GrowthInv
<1>. QED
  BY <1>6, <1>7 DEF History!PruneFile

LEMMA ExitGrows ==
    ASSUME Pruning, HistoryInv, GrowthInv, NEW p \in Procs, History!Exit(p) PROVE GrowthInv'
<1>1. /\ step' = [step EXCEPT ![p] = "down"] /\ pruneAge' = [pruneAge EXCEPT ![p] = 0]
      /\ UNCHANGED <<file, tail, starts, faults>>
  BY DEF History!Exit
<1>2. PrunePeriod \in Nat /\ \A q \in Procs : q = p
  BY DEF Pruning, OneProcess
<1>3. step'[p] = "down" /\ pruneAge' \in [Procs -> 0..PrunePeriod]
  BY <1>1, <1>2 DEF GrowthInv, HistoryInv, HistoryTypes
<1>4. LineCount' = LineCount /\ Base(Periods + 1)' = Base(Periods + 1)
  BY <1>1, PeriodStays DEF LineCount
<1>. QED
  BY <1>1, <1>2, <1>3, <1>4 DEF GrowthInv

\* A minute allows for one more line, or the prune is due.
LEMMA ElapseGrows == ASSUME Pruning, HistoryInv, GrowthInv, History!Elapse PROVE GrowthInv'
<1>1. /\ pruneAge' = [p \in Procs |-> IF step[p] # "down" /\ pruneAge[p] < PrunePeriod
                                      THEN pruneAge[p] + 1 ELSE pruneAge[p]]
      /\ now' = now + 1 /\ UNCHANGED <<file, tail, step, samples, last, at, starts, faults>>
  BY DEF History!Elapse
<1>2. PrunePeriod \in Nat \ {0} /\ pruneAge \in [Procs -> 0..PrunePeriod]
  BY DEF Pruning, GrowthInv
<1>3. pruneAge' \in [Procs -> 0..PrunePeriod]
  BY <1>1, <1>2
<1>4. /\ LineCount' = LineCount /\ LineCount \in Nat /\ Base(Periods) \in Int
      /\ Base(Periods)' = Base(Periods) /\ Base(Periods + 1)' = Base(Periods + 1)
  BY <1>1, CountIs, PeriodStays DEF LineCount, HistoryInv
<1>5. ASSUME NEW p \in Procs, step[p] = "idle"
      PROVE  LineCount <= Base(Periods) + pruneAge'[p] /\ LineCount <= Base(Periods) + pruneAge'[p] + 1
  <2>1. LineCount <= Base(Periods) + PrunePeriod /\ LineCount <= Base(Periods) + pruneAge[p] + 1
    BY <1>5 DEF GrowthInv
  <2>2. pruneAge'[p] \in 0..PrunePeriod /\ (pruneAge'[p] = PrunePeriod \/ pruneAge'[p] = pruneAge[p] + 1)
    BY <1>1, <1>2, <1>5
  <2>. QED
    BY <1>2, <1>4, <2>1, <2>2
<1>6. ASSUME NEW p \in Procs, step[p] = "prune" PROVE pruneAge'[p] > 0
  BY <1>1, <1>2, <1>6
<1>. QED
  BY <1>1, <1>3, <1>4, <1>5, <1>6 DEF GrowthInv

\* After the clock is set back, fewer buckets are new.
LEMMA BackGrows ==
    ASSUME Pruning, HistoryInv, GrowthInv, now' \in Nat, now' <= now,
           UNCHANGED <<file, tail, step, samples, last, at, pruneAge, starts, faults>>
    PROVE  GrowthInv'
<1>1. LineCount' = LineCount /\ Base(Periods)' = Base(Periods) /\ Base(Periods + 1)' = Base(Periods + 1)
  BY PeriodStays DEF LineCount
<1>2. \A p \in Procs : (now' > last[p] => now > last[p]) /\ (History!NewBucket(p)' => History!NewBucket(p))
  BY DEF History!NewBucket, HistoryInv, HistoryTypes
<1>. QED
  BY <1>1, <1>2 DEF GrowthInv

LEMMA GrowthKeeps ==
    ASSUME Pruning PROVE HistoryInv /\ GrowthInv /\ [History!Next]_(History!vars) => GrowthInv'
<1> SUFFICES ASSUME HistoryInv, GrowthInv, [History!Next]_(History!vars) PROVE GrowthInv'
  OBVIOUS
<1>1. ASSUME NEW p \in Procs,
             \/ History!Start(p) \/ History!Record(p) \/ History!RecordFails(p) \/ History!PruneFile(p) \/ History!Exit(p)
      PROVE  GrowthInv'
  <2>1. CASE History!Start(p)
    BY <2>1, StartGrows
  <2>2. CASE History!Record(p)
    BY <2>2, RecordGrows
  <2>3. CASE History!RecordFails(p)
    BY <2>3, FailureGrows
  <2>4. CASE History!PruneFile(p)
    BY <2>4, PruneGrows
  <2>5. CASE History!Exit(p)
    BY <2>5, ExitGrows
  <2>. QED
    BY <1>1, <2>1, <2>2, <2>3, <2>4, <2>5
<1>2. now \in Nat
  BY DEF HistoryInv, HistoryTypes
<1>3. CASE History!SetClockBack
  <2>1. PICK m \in History!Minutes : m < now /\ now' = m
    BY <1>3 DEF History!SetClockBack
  <2>2. m \in Nat /\ m <= now
    BY <1>2, <2>1 DEF History!Minutes
  <2>. QED
    BY <1>3, <2>1, <2>2, BackGrows DEF History!SetClockBack, History!storeVars
<1>4. CASE UNCHANGED History!vars
  BY <1>2, <1>4, BackGrows DEF History!vars
<1>. QED
  BY <1>1, <1>3, <1>4, ElapseGrows DEF History!Next

\* The file has at most what the retention allows, and the lines of one prune period for each start and each failed
\* write or prune (history.go: Record, pruneFile, load).
THEOREM FileStaysBounded == Pruning => (NodeSpec => []FileBounded)
<1> SUFFICES ASSUME Pruning PROVE NodeSpec => []FileBounded
  OBVIOUS
<1>1. NodeInit => History!Init
  BY DEF NodeInit
<1>2. [NodeNext]_<<part, vars, cacheVars, historyVars>> => [History!Next]_(History!vars)
  BY DEF NodeNext, ManagementStep, CacheStep, HistoryStep, historyVars, History!vars
<1>3. OneProcess
  BY DEF Pruning
<1>4. History!Init => GrowthInv
  BY GrowthBegins
<1>5. HistoryInv /\ GrowthInv /\ [History!Next]_(History!vars) => GrowthInv'
  BY GrowthKeeps
<1>6. HistoryInv /\ GrowthInv => FileBounded
  <2> SUFFICES ASSUME HistoryInv, GrowthInv PROVE History!FileBounded
    BY DEF FileBounded
  <2>1. LineCount <= Base(Periods + 1) /\ LineCount \in Nat /\ Len(file) <= LineCount /\ file \in Seq(Nat)
    BY CountIs DEF GrowthInv, HistoryInv, HistoryTypes
  <2>2. Base(Periods + 1) = Retention + (PrunePeriod + 1) * (starts + faults) /\ Base(Periods + 1) \in Int
    <3>1. starts + faults \in Nat /\ (starts + faults + 1) - 1 = starts + faults
      BY DEF GrowthInv
    <3>. QED
      BY <3>1 DEF Base, Periods, Pruning, OneProcess
  <2>. QED
    BY <2>1, <2>2 DEF History!FileBounded
<1>. QED
  BY <1>1, <1>2, <1>3, <1>4, <1>5, <1>6, HistoryInvariant, PTL DEF NodeSpec, History!Spec
=============================================================================
