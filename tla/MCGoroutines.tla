---------------------------- MODULE MCGoroutines ----------------------------
(***************************************************************************)
(* The two parts whose goroutines wait for each other on channels, in one   *)
(* run: a behaviour is of the calls of a connection pool, or of a search    *)
(* for duplicate files; the other stays as it began. The paths of a search  *)
(* are nothing to look at, or one of three files, two of them with the same *)
(* content.                                                                 *)
(***************************************************************************)
EXTENDS RPCPool

CONSTANTS NameCount, Kinds, Workers, MaxChanges  \* of DuplicateSearch

VARIABLES
    part,
    disk, walked, seen, candidate, phase, cancelled, stopped, todo, producer, holds, worker, opened, hashed,
    hashes, closed, grouped, changes

searchVars == <<disk, walked, seen, candidate, phase, cancelled, stopped, todo, producer, holds, worker, opened,
                hashed, hashes, closed, grouped, changes>>
allVars == <<part, vars, searchVars>>

File(i, s, c) == [ino |-> i, size |-> s, stamp |-> 0, content |-> c]
Nothing == File(0, 0, "a")
SomeKinds == {Nothing, File(1, 1, "a"), File(2, 1, "a"), File(3, 1, "b")}

Search == INSTANCE DuplicateSearch

\* The kinds of files are as no other program has written them yet, a torn read is none of their contents, and there
\* are workers (storageScanWorkerCount).
Contents == {k.content : k \in Kinds}
SaneSearch ==
    /\ NameCount \in Nat /\ Workers # {}
    /\ \A k \in Kinds : k \in [ino : Nat, size : Nat, stamp : {0}, content : Contents]
    /\ Search!Torn \notin Contents

ASSUME SearchAssumption == SaneSearch

OfCalls(step) == part = "calls" /\ step /\ UNCHANGED <<part, searchVars>>
OfSearch(step) == part = "search" /\ step /\ UNCHANGED <<part, vars>>

\* Files 1 and 2 differ in name only: the first of them on the disk is file 1.
GoroutinesInit ==
    /\ Init /\ Search!Init
    /\ \A p \in Search!Names : disk[p].ino = 2 => \E q \in 1..p : disk[q].ino = 1
    /\ part \in {"calls", "search"}
    /\ part = "calls" => disk = [n \in Search!Names |-> Nothing]

GoroutinesNext == OfCalls(Next) \/ OfSearch(Search!Next)

\* The fairness of both modules; a behaviour is of one of them.
GoroutinesSpec ==
    GoroutinesInit /\ [][GoroutinesNext]_allVars /\ WF_allVars(OfCalls(Progress) \/ OfSearch(Search!Progress))
-----------------------------------------------------------------------------
(* The properties of RPCPool stand as they are: a behaviour of the search is one of calls that never begin.
   Those of the search hold of what it does. *)

\* DuplicateSearch: groups are what they claim.
GroupsAreExact == part = "search" => Search!GroupsAreExact

\* DuplicateSearch: a search that has returned leaves no goroutine behind. (One of the calls' behaviours never returns.)
PipelineEnds == Search!PipelineEnds
=============================================================================
