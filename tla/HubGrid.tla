------------------------------- MODULE HubGrid -------------------------------
(***************************************************************************)
(* The overview of a Hub session (hubModel): the cards of the configured    *)
(* nodes, packed into rows and pages for the size of the terminal, and the  *)
(* selection that the keys, the mouse and changes of that size move.        *)
(*                                                                         *)
(* Titles and addresses are left out of the configuration, the picture of a *)
(* card, and where in a card a click hits; the Slurm page is SlurmQueue's.  *)
(***************************************************************************)
EXTENDS Integers, Sequences, FiniteSets, SequencesExt

CONSTANTS
    Configs,   \* configuration files: [groups: the groups, nodes: the group of each node]
    Terminals  \* sizes of the user's terminal: [width, height]

VARIABLES
    config,    \* hubModel.config
    terminal,  \* the size of the user's terminal
    size,      \* hubModel.width and height
    selected,  \* hubModel.cursor
    page,      \* hubModel.offset
    opened     \* the width and height of the dashboard that is open, or Closed

vars == <<config, terminal, size, selected, page, opened>>

hubCardHeight == 7
hubPreferredCardWidth == 46
hubMinimumCardWidth == 36
Closed == [width |-> 0, height |-> 0]

Lesser(m, n) == IF m < n THEN m ELSE n
Greater(m, n) == IF m < n THEN n ELSE m

\* The configurations that are accepted: groups have names of their own, and every node is in one of them.
loadHubConfig(c) ==
    /\ IsInjective(c.groups)
    /\ c.nodes # <<>> => c.groups # <<>>
    /\ ToSet(c.nodes) \subseteq ToSet(c.groups)
-----------------------------------------------------------------------------
(* The layout. A card is the number of its node. *)

columns(width) ==
    LET stride == hubPreferredCardWidth + 1
        preferred == Greater(1, (Greater(hubMinimumCardWidth, width) + 1 + stride \div 2) \div stride)
    IN Lesser(preferred, Greater(1, (Greater(hubMinimumCardWidth, width) + 1) \div (hubMinimumCardWidth + 1)))

Members(c, g) == {n \in DOMAIN c.nodes : c.nodes[n] = g}

\* nodeGroups: the nodes of a group, in the order of the configuration.
CardsOf(c, g) ==
    LET cards[n \in 0..Len(c.nodes)] ==
            IF n = 0 THEN <<>> ELSE IF c.nodes[n] = g THEN Append(cards[n - 1], n) ELSE cards[n - 1]
    IN cards[Len(c.nodes)]

nodeOrder(c) ==
    LET order[i \in 0..Len(c.groups)] == IF i = 0 THEN <<>> ELSE order[i - 1] \o CardsOf(c, c.groups[i])
    IN order[Len(c.groups)]

\* Mutant: a group begins in whatever is left of the row.
BeginsWhenFull(c, grid, n, width) == grid = <<>> \/ Len(grid[Len(grid)]) = width

\* A card begins a row when the last one is full; and so does the first card of a group that fits into a row
\* but not into the rest of the last one.
BeginsRow(c, grid, n, width) ==
    \/ grid = <<>>
    \/ Len(grid[Len(grid)]) = width
    \/ LET total == Cardinality(Members(c, c.nodes[n])) IN
       /\ \A m \in Members(c, c.nodes[n]) : n <= m
       /\ total <= width /\ total > width - Len(grid[Len(grid)])

PlaceCard(c, grid, n, width) ==
    IF BeginsRow(c, grid, n, width) THEN Append(grid, <<n>>)
    ELSE [grid EXCEPT ![Len(grid)] = Append(@, n)]

Grid(c, width) ==
    LET order == nodeOrder(c)
        grid[k \in 0..Len(order)] == IF k = 0 THEN <<>> ELSE PlaceCard(c, grid[k - 1], order[k], width)
    IN grid[Len(order)]

GroupsOf(c, row) == {c.nodes[row[i]] : i \in DOMAIN row}
heightBudget(height) == Greater(hubCardHeight + 1, Greater(10, height) - 2)
NoPage == [rows |-> <<>>, height |-> 0]

\* A row has a line of headings above it unless it continues the single group of the row before it on the page.
PlaceRow(c, laid, row, height) ==
    LET on == laid[Len(laid)]
        heading == GroupsOf(c, row) # GroupsOf(c, on.rows[Len(on.rows)]) \/ Cardinality(GroupsOf(c, row)) > 1
        needed == hubCardHeight + (IF heading THEN 1 ELSE 0)
    IN IF laid # <<>> /\ on.height + needed <= heightBudget(height)
       THEN [laid EXCEPT ![Len(laid)] = [rows |-> Append(on.rows, row), height |-> on.height + needed]]
       ELSE Append(laid, [rows |-> <<row>>, height |-> hubCardHeight + 1])

pages(c, s) ==
    LET grid == Grid(c, columns(s.width))
        laid[k \in 0..Len(grid)] == IF k = 0 THEN <<>> ELSE PlaceRow(c, laid[k - 1], grid[k], s.height)
    IN IF grid = <<>> THEN <<NoPage>> ELSE laid[Len(grid)]

Layout == pages(config, size)

\* Where a node's card is: [page, row, column].
Cells(layout) ==
    UNION {UNION {{[page |-> p, row |-> r, column |-> i] : i \in DOMAIN layout[p].rows[r]}
                  : r \in DOMAIN layout[p].rows} : p \in DOMAIN layout}
CardAt(layout, cell) == layout[cell.page].rows[cell.row][cell.column]
cursorCell(layout, n) == CHOOSE cell \in Cells(layout) : CardAt(layout, cell) = n
-----------------------------------------------------------------------------
(* Keys, clicks and sizes. *)

\* clampCursor: every node has a card, so the selected one stays selected and its page is shown.
clampCursor(layout, n) ==
    /\ selected' = IF config.nodes = <<>> THEN 0 ELSE n
    /\ page' = IF config.nodes = <<>> THEN 1 ELSE cursorCell(layout, n).page

\* newHubModel and the size that the terminal library reports first.
Init ==
    /\ config \in {c \in Configs : loadHubConfig(c)}
    /\ terminal \in Terminals /\ size = terminal /\ opened = Closed
    /\ selected = (IF config.nodes = <<>> THEN 0 ELSE 1)
    /\ page = IF config.nodes = <<>> THEN 1 ELSE cursorCell(pages(config, terminal), 1).page

\* WindowSizeMsg. While a dashboard is open it is forwarded to that, like every other message.
Resize ==
    /\ \E t \in Terminals \ {terminal} : terminal' = t
    /\ IF opened = Closed
       THEN size' = terminal' /\ clampCursor(pages(config, terminal'), selected) /\ UNCHANGED opened
       ELSE opened' = terminal' /\ UNCHANGED <<size, selected, page>>
    /\ UNCHANGED config

Overview == opened = Closed /\ config.nodes # <<>>

\* up and down: the next row, on the next page if there is none on this one, in the same column as far as it goes.
moveCursorVertical(delta) ==
    LET layout == Layout
        at == cursorCell(layout, selected)
        rows == layout[at.page].rows
        Down == IF at.row < Len(rows) THEN {rows[at.row + 1]}
                ELSE {layout[p].rows[1] : p \in {at.page + 1} \cap DOMAIN layout}
        Up == IF at.row > 1 THEN {rows[at.row - 1]}
              ELSE {Last(layout[p].rows) : p \in {at.page - 1} \cap DOMAIN layout}
    IN /\ Overview
       /\ \E row \in IF delta < 0 THEN Up ELSE Down : clampCursor(layout, row[Lesser(at.column, Len(row))])
       /\ UNCHANGED <<config, terminal, size, opened>>

\* left and right: the neighbour in the row, then the end of the row before or the start of the next.
moveCursorHorizontal(delta) ==
    LET layout == Layout
        at == cursorCell(layout, selected)
        rows == layout[at.page].rows
        row == rows[at.row]
        Right == IF at.column < Len(row) THEN {row[at.column + 1]}
                 ELSE IF at.row < Len(rows) THEN {rows[at.row + 1][1]}
                 ELSE {layout[p].rows[1][1] : p \in {at.page + 1} \cap DOMAIN layout}
        Left == IF at.column > 1 THEN {row[at.column - 1]}
                ELSE IF at.row > 1 THEN {Last(rows[at.row - 1])}
                ELSE {Last(Last(layout[p].rows)) : p \in {at.page - 1} \cap DOMAIN layout}
    IN /\ Overview
       /\ \E card \in IF delta < 0 THEN Left ELSE Right : clampCursor(layout, card)
       /\ UNCHANGED <<config, terminal, size, opened>>

\* openSelected: an offline node is not opened; a dashboard begins with the size the overview has.
openSelected(n) ==
    /\ Overview
    /\ selected' = n /\ opened' \in {Closed, size}
    /\ UNCHANGED <<config, terminal, size, page>>

\* nodeAt: a click on a card of the page that is shown.
nodeAt ==
    LET layout == Layout IN
    /\ Overview /\ page \in DOMAIN layout
    /\ \E r \in DOMAIN layout[page].rows : \E n \in ToSet(layout[page].rows[r]) : openSelected(n)

\* q or esc on the dashboard.
CloseDetail ==
    /\ opened # Closed /\ opened' = Closed
    /\ UNCHANGED <<config, terminal, size, selected, page>>

Next ==
    \/ Resize \/ nodeAt \/ CloseDetail \/ openSelected(selected)
    \/ \E delta \in {-1, 1} : moveCursorVertical(delta) \/ moveCursorHorizontal(delta)

Spec == Init /\ [][Next]_vars
-----------------------------------------------------------------------------
(* Properties. *)

\* The order of the groups, and in a group that of the configuration.
GroupIndex(c, n) == CHOOSE i \in DOMAIN c.groups : c.groups[i] = c.nodes[n]
Before(c, m, n) ==
    \/ GroupIndex(c, m) < GroupIndex(c, n)
    \/ GroupIndex(c, m) = GroupIndex(c, n) /\ m < n

Follows(y, x) ==
    \/ y.page > x.page
    \/ y.page = x.page /\ y.row > x.row
    \/ y.page = x.page /\ y.row = x.row /\ y.column > x.column

EveryNodeHasItsCard(layout) == {CardAt(layout, cell) : cell \in Cells(layout)} = DOMAIN config.nodes
CardsAreInOrder(layout) ==
    \A x, y \in Cells(layout) : Follows(y, x) => Before(config, CardAt(layout, x), CardAt(layout, y))
\* The lines of the cards and headings of these rows.
DrawnHeight(c, rows) ==
    LET Groups(r) == GroupsOf(c, rows[r])
        headed == {r \in DOMAIN rows : r = 1 \/ Groups(r) # Groups(r - 1) \/ Cardinality(Groups(r)) > 1}
    IN hubCardHeight * Len(rows) + Cardinality(headed)
PagesFit(layout) ==
    \A p \in DOMAIN layout :
        /\ DrawnHeight(config, layout[p].rows) <= heightBudget(size.height)
        /\ \A r \in DOMAIN layout[p].rows : Len(layout[p].rows[r]) <= columns(size.width)
SmallGroupsAreTogether(layout) ==
    \A g \in ToSet(config.nodes) : Cardinality(Members(config, g)) <= columns(size.width) =>
        \E p \in DOMAIN layout : \E r \in DOMAIN layout[p].rows : Members(config, g) \subseteq ToSet(layout[p].rows[r])
SelectedIsShown(layout) ==
    Overview => page \in DOMAIN layout /\ \E r \in DOMAIN layout[page].rows : selected \in ToSet(layout[page].rows[r])

\* Whatever the configuration and the size: the pages hold one card of every node, in the order of the
\* groups and of the nodes of a group, so that left and right walk through all of them; a page fits the screen;
\* a group that fits into a row is not spread over two (docs/hub.md:7 promises that); and the page that is
\* shown holds the selected card, also after a dashboard was open (pages, moveCursor*, clampCursor).
OverviewIsWhole ==
    LET layout == Layout IN
    /\ EveryNodeHasItsCard(layout) /\ CardsAreInOrder(layout)
    /\ PagesFit(layout) /\ SmallGroupsAreTogether(layout) /\ SelectedIsShown(layout)

\* What the user looks at is laid out for the terminal the user has: the number of columns follows the width of
\* the window (docs/hub.md:7), and no line is wider than it (hub_grid_test.go:57).
LaidOutForTerminal == IF opened = Closed THEN size = terminal ELSE opened = terminal
=============================================================================
