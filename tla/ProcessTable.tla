---------------------------- MODULE ProcessTable ----------------------------
(***************************************************************************)
(* The process list of a dashboard (monitorModel): its filter and order,    *)
(* and the two selections in it - of the read-only monitor and of the       *)
(* management screen - which share one filter. A selection is a row; every  *)
(* second a new snapshot replaces the processes under it.                   *)
(*                                                                         *)
(* A process is its PID with the values the columns are sorted by; a query  *)
(* is the set of PIDs it matches.                                           *)
(***************************************************************************)
EXTENDS Integers, Sequences, FiniteSets, SequencesExt

CONSTANTS
    PIDs,          \* processes
    Tables,        \* the process lists of the snapshots: PID -> its share of the CPU
    Queries,       \* what the filter text may match, the empty text (every PID) included
    Rows           \* visible rows of a table

Screens == {"monitor", "admin"}
Columns == <<"CPU", "PID">>

VARIABLES
    processes,  \* snapshot.Processes: PID -> CPU
    filter,     \* the query
    filtering,  \* the filter text is being edited
    screen,     \* monitor or admin
    sort,       \* processSort, an index of Columns, and processSortAsc; the other columns are like CPU and PID
    cursor,     \* monitorCursor and cursor, from 1
    offset      \* monitorOffset and processOffset

vars == <<processes, filter, filtering, screen, sort, cursor, offset>>

Lesser(m, n) == IF m < n THEN m ELSE n
Greater(m, n) == IF m < n THEN n ELSE m

\* The rows, sorted by the column and then by PID.
filteredProcesses(table, query, order) ==
    LET key(p) == IF Columns[order.key] = "PID" THEN p ELSE table[p]
        Before(p, q) == \/ key(p) # key(q) /\ ((key(p) < key(q)) <=> order.asc)
                        \/ key(p) = key(q) /\ p < q
        shown == DOMAIN table \cap query
    IN [i \in 1..Cardinality(shown) |->
           CHOOSE p \in shown : Cardinality({q \in shown : Before(q, p)}) = i - 1]

Listed == filteredProcesses(processes, filter, sort)

\* The PID a selection is on, 0 when there is none.
selectedProcessID(rows, at) == IF at \in DOMAIN rows THEN rows[at] ELSE 0

\* clampProcessCursor and clampMonitorProcessCursor: [cursor, offset] in a list of n rows.
clamp(at, first, n) ==
    IF n = 0 THEN [cursor |-> 1, offset |-> 0]
    ELSE LET c == Lesser(Greater(1, at), n)
             scrolled == IF c - 1 < first THEN c - 1
                         ELSE IF c - 1 >= first + Rows THEN c - Rows
                         ELSE first
         IN [cursor |-> c, offset |-> Lesser(scrolled, Greater(0, n - Rows))]

\* The selections move to the rows of the processes they were on, and stay at their rows when those are gone.
restoreProcessSelection(rows, selected) ==
    LET at == [s \in Screens |-> IF \E i \in DOMAIN rows : rows[i] = selected[s]
                                 THEN CHOOSE i \in DOMAIN rows : rows[i] = selected[s]
                                 ELSE cursor[s]]
        clamped == [s \in Screens |-> clamp(at[s], offset[s], Len(rows))]
    IN /\ cursor' = [s \in Screens |-> clamped[s].cursor]
       /\ offset' = [s \in Screens |-> clamped[s].offset]

Init ==
    /\ processes = <<>> /\ filter = PIDs /\ filtering = FALSE /\ screen = "monitor"
    /\ sort = [key |-> 1, asc |-> FALSE]
    /\ cursor = [s \in Screens |-> 1] /\ offset = [s \in Screens |-> 0]

Selected == LET rows == Listed IN [s \in Screens |-> selectedProcessID(rows, cursor[s])]

\* Mutant: the selections are looked up in the new snapshot.
snapshotThenSelected ==
    /\ \E table \in Tables : processes' = table
    /\ LET rows == filteredProcesses(processes', filter, sort)
       IN restoreProcessSelection(rows, [s \in Screens |-> selectedProcessID(rows, cursor[s])])
    /\ UNCHANGED <<filter, filtering, screen, sort>>

\* snapshotMsg; a failed collection has no processes.
snapshotMsg ==
    /\ \E table \in Tables : processes' = table
    /\ restoreProcessSelection(filteredProcesses(processes', filter, sort), Selected)
    /\ UNCHANGED <<filter, filtering, screen, sort>>

\* A header click, or key o (the next column) and O (the same column, reversed).
setProcessSort(key) ==
    /\ ~filtering
    /\ sort' = IF key = sort.key THEN [sort EXCEPT !.asc = ~sort.asc]
               ELSE [key |-> key, asc |-> Columns[key] = "PID"]
    /\ restoreProcessSelection(filteredProcesses(processes, filter, sort'), Selected)
    /\ UNCHANGED <<processes, filter, filtering, screen>>

ToTop(s) == cursor' = [cursor EXCEPT ![s] = 1] /\ offset' = [offset EXCEPT ![s] = 0]

StartFilter ==
    /\ ~filtering /\ filtering' = TRUE
    /\ UNCHANGED <<processes, filter, screen, sort, cursor, offset>>

\* A character, a paste or a deletion: only the selection of the screen that is shown goes to the top.
EditFilter ==
    /\ filtering
    /\ \E query \in Queries : filter' = query
    /\ ToTop(screen)
    /\ UNCHANGED <<processes, filtering, screen, sort>>

EndFilter ==
    /\ filtering /\ filtering' = FALSE
    /\ \/ ToTop(screen)                      \* enter
       \/ UNCHANGED <<cursor, offset>>        \* esc
    /\ UNCHANGED <<processes, filter, screen, sort>>

\* Key c of the management screen.
ClearFilter ==
    /\ ~filtering /\ screen = "admin"
    /\ filter' = PIDs /\ ToTop("admin")
    /\ UNCHANGED <<processes, filtering, screen, sort>>

MoveTo(row) ==
    LET to == clamp(row, offset[screen], Len(Listed))
    IN /\ cursor' = [cursor EXCEPT ![screen] = to.cursor]
       /\ offset' = [offset EXCEPT ![screen] = to.offset]

\* up and down; on the management screen up moves above the first row and down below the last row only.
moveSelection(delta) ==
    /\ ~filtering /\ Listed # <<>>
    /\ screen = "admin" => IF delta < 0 THEN cursor["admin"] > 1 ELSE cursor["admin"] < Len(Listed)
    /\ MoveTo(cursor[screen] + delta)
    /\ UNCHANGED <<processes, filter, filtering, screen, sort>>

\* enter on the selection, or a click on a visible row.
openProcessMode(row) ==
    /\ ~filtering /\ row \in DOMAIN Listed
    /\ cursor' = [cursor EXCEPT ![screen] = row]
    /\ UNCHANGED <<processes, filter, filtering, screen, sort, offset>>

\* Management mode is entered and left; a filter being edited is not.
SwitchScreen ==
    /\ ~filtering
    /\ screen' = IF screen = "monitor" THEN "admin" ELSE "monitor"
    /\ UNCHANGED <<processes, filter, filtering, sort, cursor, offset>>

Next ==
    \/ snapshotMsg
    \/ \E key \in DOMAIN Columns : setProcessSort(key)
    \/ StartFilter \/ EditFilter \/ EndFilter \/ ClearFilter
    \/ \E delta \in {-1, 1} : moveSelection(delta)
    \/ \E row \in {cursor[screen]} \cup (offset[screen] + 1)..(offset[screen] + Rows) : openProcessMode(row)
    \/ SwitchScreen

Spec == Init /\ [][Next]_vars

\* A refresh or another order never moves a selection to another process: while the selected process is
\* listed, both selections stay on it and it is on the screen, so that Enter and SIGTERM mean the process the
\* user chose (selectedProcessIDs before m.snapshot is replaced, restoreProcessSelection, the clamps).
SelectionFollowsProcess ==
    [][(processes' # processes \/ sort' # sort) =>
        LET before == Selected
            rows == Listed'
        IN \A s \in Screens :
            before[s] \in ToSet(rows) =>
                /\ cursor'[s] \in DOMAIN rows /\ rows[cursor'[s]] = before[s]
                /\ offset'[s] < cursor'[s] /\ cursor'[s] <= offset'[s] + Rows]_vars
=============================================================================
