-------------------------- MODULE DedupeLinkProofs --------------------------
(***************************************************************************)
(* Proofs about DedupeLink: for any group of paths, any number of scripts   *)
(* that run at once and any number of files that other programs create, a   *)
(* command destroys only what it verified or what came to its path behind   *)
(* its back; and as long as no two commands work on one path, the content   *)
(* of the group is in some file, and every path reads as it once all have   *)
(* ended by themselves.                                                     *)
(***************************************************************************)
EXTENDS DedupeLink, TLAPS

\* The steps before the duplicate is moved into the workspace, and those at which it is there.
Early == {"keep1", "copy1", "hash1", "hash2", "keep2", "copy2", "isolate"}
Verifying == {"hash3", "hash4", "keep3", "payload2", "publish", "verify", "remove"}
Holding == Verifying \cup {"payload1", "look", "unlink", "empty", "putback"}
Steps == {"new", "next", "complete", "failed", "recover", "killed"} \cup Early \cup Holding

Entries == Files \cup Links \cup {None}
Infos == ((Paths \X Nat) \cup {None}) \X Nat

TypeOK ==
    /\ at \in [Paths -> Entries] /\ payload \in [Scripts -> Entries] /\ seen \in [Scripts -> Entries]
    /\ keep \in [Scripts -> Paths \cup {None}] /\ target \in [Scripts -> Paths \cup {None}]
    /\ todo \in [Scripts -> SUBSET Paths] /\ pc \in [Scripts -> Steps]
    /\ keepInfo \in [Scripts -> Infos] /\ copyInfo \in [Scripts -> Infos]
    /\ meddled \in BOOLEAN /\ crossed \in BOOLEAN /\ foreign \in Nat

\* What the step of a command tells about the workspace, the last look and the paths.
CommandInv ==
    \A s \in Scripts :
        /\ pc[s] # "new" => keep[s] \in Paths
        /\ pc[s] \in Early \cup Holding => target[s] \in Paths
        /\ pc[s] \in Early \cup {"new", "next", "complete", "failed"} => payload[s] = None
        /\ pc[s] \in Holding => payload[s] # None
        /\ pc[s] \in Verifying => IsFile(payload[s]) /\ Identity(payload[s]) = copyInfo[s]
        /\ pc[s] \in {"keep3", "payload2", "publish", "verify", "remove"} => payload[s].planned
        /\ pc[s] \in Verifying \cup {"payload1", "putback"} => seen[s] = None
        /\ pc[s] = "unlink" => IsLink(seen[s])

\* A file of path p: the planned one, or one that came there since.
FileOf(f, p) ==
    \/ f = Original(p)
    \/ f.ino[1] = p /\ f.ino[2] \in 1 .. foreign /\ f.stamp = 0 /\ ~f.planned

\* Files stay at their paths and in the workspaces of the commands for those paths.
HomeInv ==
    /\ \A p \in Paths : IsFile(at[p]) => FileOf(at[p], p)
    /\ \A s \in Scripts : IsFile(payload[s]) => target[s] \in Paths /\ FileOf(payload[s], target[s])

\* The running commands work on paths of their own.
ApartInv == \A s, t \in Scripts : Running(s) /\ Running(t) /\ s # t => target[s] # target[t]

\* A path whose file is in a workspace is empty, or holds a newcomer or the link to be verified.
VacantInv ==
    \A s \in Scripts : pc[s] \in Holding =>
        LET e == at[target[s]] IN
        \/ e = None
        \/ IsFile(e) /\ ~e.planned
        \/ IsLink(e) /\ IsFile(payload[s]) /\ payload[s].planned

OriginalInfo(p) == <<<<p, 0>>, 0>>

\* The file a command knows as kept will not be at the kept path again.
Gone(s) ==
    /\ IsFile(at[keep[s]]) => Identity(at[keep[s]]) # keepInfo[s]
    /\ \A t \in Scripts : Running(t) /\ target[t] = keep[s] /\ IsFile(payload[t])
            => Identity(payload[t]) # keepInfo[s]

\* From the last verification on, what a command knows as the kept file is the planned one.
KeepInv ==
    \A s \in Scripts :
        /\ pc[s] \in (Early \ {"keep1"}) \cup {"payload1"} \cup Verifying
            => \E n \in 0 .. foreign : keepInfo[s] = <<<<keep[s], n>>, 0>>
        /\ pc[s] \in {"hash4", "keep3"} => keepInfo[s] = OriginalInfo(keep[s]) \/ Gone(s)
        /\ pc[s] \in {"payload2", "publish", "verify"} => keepInfo[s] = OriginalInfo(keep[s])

\* Some planned file is at its path, or in the workspace of a command that is not about to remove it.
SafeInv ==
    \/ \E p \in Paths : at[p] = Original(p)
    \/ \E s \in Scripts : target[s] \in Paths /\ payload[s] = Original(target[s]) /\ pc[s] # "remove"

\* What a command found to be a file still is one at its path, or in its workspace.
FoundInv ==
    \A s \in Scripts :
        /\ pc[s] \in {"hash1", "hash2", "keep2", "copy2", "isolate"} => IsFile(at[target[s]])
        /\ pc[s] \in Holding => IsFile(payload[s])

\* A planned file is at the path, or in the workspace of a command for the path that is not about to remove it.
Solid(q) ==
    \/ at[q] = Original(q)
    \/ \E s \in Scripts : target[s] = q /\ payload[s] = Original(q) /\ pc[s] # "remove"

\* Links lead from every path to one whose content was kept.
GroundedInv == \A p \in Paths : \E q \in Followed(p) : Solid(q)

\* The inductive invariant. The properties need to know what each step may rely on.
Inv ==
    /\ TypeOK /\ CommandInv
    /\ (~meddled /\ ~crossed) => HomeInv /\ ApartInv /\ VacantInv /\ KeepInv /\ SafeInv
    /\ (~meddled /\ ~crossed /\ foreign = 0) => FoundInv /\ GroundedInv
-----------------------------------------------------------------------------
\* Nothing, links and files are told apart.
LEMMA Apart == None \notin Files /\ None \notin Links /\ None \notin Paths /\ (\A e \in Files : e \notin Links)
<1>1. \A e \in Files : e \notin Links
  <2> SUFFICES ASSUME NEW e \in Files, e \in Links PROVE FALSE
    OBVIOUS
  <2>1. DOMAIN e = {"ino", "stamp", "planned"}
    BY DEF Files
  <2>2. DOMAIN e = {"to"}
    BY DEF Links
  <2> QED
    BY <2>1, <2>2
<1> QED
  BY <1>1, DedupeAssumption

\* The fields of files and links.
LEMMA Fields ==
    /\ \A f \in Files : f.ino \in Paths \X Nat /\ f.stamp \in Nat /\ f.planned \in BOOLEAN
    /\ \A e \in Links : e.to \in Paths
  BY DEF Files, Links

\* Files can be built of such fields, and an identity is something a command may know.
LEMMA Built ==
    /\ \A p \in Paths, n \in Nat, m \in Nat, b \in BOOLEAN :
          [ino |-> <<p, n>>, stamp |-> m, planned |-> b] \in Files
    /\ \A f \in Files, m \in Nat, b \in BOOLEAN : [ino |-> f.ino, stamp |-> m, planned |-> b] \in Files
    /\ \A p \in Paths : [to |-> p] \in Links /\ Original(p) \in Files
    /\ \A f \in Files : Identity(f) \in Infos
    /\ NoInfo \in Infos
  BY Fields DEF Files, Links, Original, Identity, Infos, NoInfo

\* The invariant holds at the start.
LEMMA InitInv == Init => Inv
<1> SUFFICES ASSUME Init PROVE Inv
  OBVIOUS
<1>1. TypeOK
  BY Built DEF Init, TypeOK, Entries, Steps
<1>2. CommandInv
  BY DEF Init, CommandInv, Early, Holding, Verifying
<1>3. HomeInv
  BY Apart DEF Init, HomeInv, FileOf, IsFile
<1>4. ApartInv /\ VacantInv /\ KeepInv
  BY DEF Init, ApartInv, VacantInv, KeepInv, Early, Holding, Verifying, Running, Ended
<1>5. SafeInv
  BY DedupeAssumption DEF Init, SafeInv
<1>6. FoundInv
  BY DEF Init, FoundInv, Holding, Verifying
<1>7. GroundedInv
  <2>1. \A p \in Paths : p \in Followed(p) /\ at[p] = Original(p)
    BY DEF Init, Followed
  <2> QED
    BY <2>1 DEF GroundedInv, Solid
<1> QED
  BY <1>1, <1>2, <1>3, <1>4, <1>5, <1>6, <1>7 DEF Inv

\* Every step keeps the types.
LEMMA TypeStep == TypeOK /\ CommandInv /\ [Next]_vars => TypeOK'
<1> SUFFICES ASSUME TypeOK, CommandInv, [Next]_vars PROVE TypeOK'
  OBVIOUS
<1> USE DEF TypeOK, Goto, Steps, Early, Holding, Verifying
<1>1. ASSUME NEW s \in Scripts, StartScript(s), UNCHANGED crossed PROVE TypeOK'
  BY <1>1 DEF StartScript, disk, others
<1>2. ASSUME NEW s \in Scripts, NextCommand(s) PROVE TypeOK'
  BY <1>2, Built DEF NextCommand, disk, others
<1>3. ASSUME NEW s \in Scripts, ScriptComplete(s) \/ Kill(s), UNCHANGED crossed PROVE TypeOK'
  BY <1>3 DEF ScriptComplete, Kill, disk, others
<1>4. ASSUME NEW s \in Scripts, CommandStep(s), UNCHANGED crossed PROVE TypeOK'
  <2>0. pc[s] \in Early \cup Holding => target[s] \in Paths
    BY DEF CommandInv
  <2>1. CASE InspectKeep(s) \/ InspectReplacement(s)
    BY <1>4, <2>1, Built DEF InspectKeep, InspectReplacement, IsFile, disk, others
  <2>2. CASE HashKeep(s) \/ HashReplacement(s) \/ RecheckKeep(s) \/ RecheckReplacement(s)
    BY <1>4, <2>2 DEF HashKeep, HashReplacement, RecheckKeep, RecheckReplacement, disk, others
  <2>3. CASE InspectPayload(s) \/ HashKeepAgain(s) \/ HashPayload(s) \/ FinalKeep(s) \/ FinalPayload(s) \/ VerifyLink(s)
    BY <1>4, <2>3 DEF InspectPayload, HashKeepAgain, HashPayload, FinalKeep, FinalPayload, VerifyLink, Checked, disk, others
  <2>4. CASE Isolate(s)
    BY <1>4, <2>0, <2>4 DEF Isolate, Entries, others
  <2>5. CASE Publish(s)
    BY <1>4, <2>0, <2>5, Built DEF Publish, CommandInv, Entries, others
  <2>6. CASE RemovePayload(s)
    BY <1>4, <2>6 DEF RemovePayload, Entries, others
  <2>7. CASE LookForLink(s) \/ RemoveLink(s) \/ LookForNothing(s) \/ PutBack(s)
    BY <1>4, <2>0, <2>7 DEF LookForLink, RemoveLink, LookForNothing, PutBack, Recover, Entries, disk, others
  <2> QED
    BY <1>4, <2>1, <2>2, <2>3, <2>4, <2>5, <2>6, <2>7 DEF CommandStep
<1>5. ASSUME NEW p \in Paths, Create(p), UNCHANGED crossed PROVE TypeOK'
  <2>1. [ino |-> <<p, Newest>>, stamp |-> 0, planned |-> FALSE] \in Files
    BY DEF Newest, Files
  <2> QED
    BY <1>5, <2>1 DEF Create, Entries, command
<1>6. ASSUME NEW p \in Paths, Meddle(p), UNCHANGED crossed PROVE TypeOK'
  <2>1. [ino |-> at[p].ino, stamp |-> Newest, planned |-> FALSE] \in Files
    BY <1>6, Fields DEF Meddle, Newest, IsFile, Files
  <2>2. [ino |-> <<p, Newest>>, stamp |-> 0, planned |-> at[p].planned] \in Files
    BY <1>6, Fields DEF Meddle, Newest, IsFile, Files
  <2>3. at' = [at EXCEPT ![p] = None] \/ \E f \in Files : at' = [at EXCEPT ![p] = f]
    BY <1>6, <2>1, <2>2, Zenon DEF Meddle
  <2>4. at' \in [Paths -> Entries]
    BY <2>3 DEF Entries
  <2> QED
    BY <1>6, <2>4 DEF Meddle, command
<1>7. CASE UNCHANGED vars
  BY <1>7 DEF vars, disk, command, others
<1> QED
  BY <1>1, <1>2, <1>3, <1>4, <1>5, <1>6, <1>7 DEF Next

\* Every step of a command, and of its script, leaves the other commands alone.
LEMMA OwnStep ==
    ASSUME TypeOK, NEW s \in Scripts,
           StartScript(s) \/ NextCommand(s) \/ ScriptComplete(s) \/ CommandStep(s) \/ Kill(s)
    PROVE  \A t \in Scripts \ {s} :
              /\ pc'[t] = pc[t] /\ keep'[t] = keep[t] /\ target'[t] = target[t] /\ payload'[t] = payload[t]
              /\ keepInfo'[t] = keepInfo[t] /\ copyInfo'[t] = copyInfo[t] /\ seen'[t] = seen[t]
<1> USE DEF TypeOK, Goto
<1>1. CASE StartScript(s) \/ NextCommand(s) \/ ScriptComplete(s) \/ Kill(s)
  BY <1>1 DEF StartScript, NextCommand, ScriptComplete, Kill, disk
<1>2. CASE InspectKeep(s) \/ InspectReplacement(s) \/ HashKeep(s) \/ HashReplacement(s)
            \/ RecheckKeep(s) \/ RecheckReplacement(s) \/ Isolate(s)
  BY <1>2 DEF InspectKeep, InspectReplacement, HashKeep, HashReplacement, RecheckKeep, RecheckReplacement, Isolate, disk
<1>3. CASE InspectPayload(s) \/ HashKeepAgain(s) \/ HashPayload(s) \/ FinalKeep(s) \/ FinalPayload(s) \/ VerifyLink(s)
  BY <1>3 DEF InspectPayload, HashKeepAgain, HashPayload, FinalKeep, FinalPayload, VerifyLink, Checked, disk
<1>4. CASE Publish(s) \/ RemovePayload(s) \/ LookForLink(s) \/ RemoveLink(s) \/ LookForNothing(s) \/ PutBack(s)
  BY <1>4 DEF Publish, RemovePayload, LookForLink, RemoveLink, LookForNothing, PutBack, Recover, disk
<1> QED
  BY <1>1, <1>2, <1>3, <1>4 DEF CommandStep

\* Every step keeps what the step of a command tells.
LEMMA CommandKept == TypeOK /\ CommandInv /\ [Next]_vars => CommandInv'
<1> SUFFICES ASSUME TypeOK, CommandInv, [Next]_vars PROVE CommandInv'
  OBVIOUS
<1>1. ASSUME NEW s \in Scripts,
             StartScript(s) \/ NextCommand(s) \/ ScriptComplete(s) \/ CommandStep(s) \/ Kill(s)
      PROVE  CommandInv'
  <2> DEFINE Own(t) ==
        /\ pc[t] # "new" => keep[t] \in Paths
        /\ pc[t] \in Early \cup Holding => target[t] \in Paths
        /\ pc[t] \in Early \cup {"new", "next", "complete", "failed"} => payload[t] = None
        /\ pc[t] \in Holding => payload[t] # None
        /\ pc[t] \in Verifying => IsFile(payload[t]) /\ Identity(payload[t]) = copyInfo[t]
        /\ pc[t] \in {"keep3", "payload2", "publish", "verify", "remove"} => payload[t].planned
        /\ pc[t] \in Verifying \cup {"payload1", "putback"} => seen[t] = None
        /\ pc[t] = "unlink" => IsLink(seen[t])
  <2>1. \A t \in Scripts : Own(t)
    BY DEF CommandInv
  <2>2. \A t \in Scripts \ {s} : Own(t)'
    BY <1>1, <2>1, OwnStep
  <2>3. Own(s)'
    <3>0. Own(s)
      BY <2>1
    <3> USE DEF TypeOK, Goto, Early, Holding, Verifying, IsFile, IsLink
    <3>1. CASE StartScript(s) \/ NextCommand(s) \/ ScriptComplete(s) \/ Kill(s)
      BY <3>0, <3>1 DEF StartScript, NextCommand, ScriptComplete, Kill, Running, Ended, disk
    <3>2. CASE InspectKeep(s) \/ InspectReplacement(s) \/ HashKeep(s) \/ HashReplacement(s)
                \/ RecheckKeep(s) \/ RecheckReplacement(s)
      BY <3>0, <3>2 DEF InspectKeep, InspectReplacement, HashKeep, HashReplacement, RecheckKeep, RecheckReplacement, disk
    <3>3. CASE Isolate(s)
      BY <3>0, <3>3 DEF Isolate
    <3>4. CASE InspectPayload(s) \/ HashKeepAgain(s) \/ HashPayload(s) \/ FinalKeep(s) \/ FinalPayload(s) \/ VerifyLink(s)
      BY <3>0, <3>4 DEF InspectPayload, HashKeepAgain, HashPayload, FinalKeep, FinalPayload, VerifyLink, Checked, SameFile, disk
    <3>5. CASE Publish(s) \/ RemovePayload(s)
      BY <3>0, <3>5 DEF Publish, RemovePayload
    <3>6. CASE LookForLink(s) \/ RemoveLink(s) \/ LookForNothing(s) \/ PutBack(s)
      BY <3>0, <3>6 DEF LookForLink, RemoveLink, LookForNothing, PutBack, Recover, disk
    <3> QED
      BY <1>1, <3>1, <3>2, <3>3, <3>4, <3>5, <3>6 DEF CommandStep
  <2> QED
    BY <2>2, <2>3 DEF CommandInv
<1>2. ASSUME NEW p \in Paths, Create(p) \/ Meddle(p) PROVE CommandInv'
  BY <1>2 DEF Create, Meddle, command, CommandInv, IsFile, IsLink
<1>3. CASE UNCHANGED vars
  BY <1>3 DEF vars, disk, command, CommandInv, IsFile, IsLink
<1> QED
  BY <1>1, <1>2, <1>3 DEF Next

\* The steps of a command, by what they do to the paths and the workspace.
LEMMA DiskStep ==
    ASSUME TypeOK, CommandInv, NEW s \in Scripts, CommandStep(s)
    PROVE  /\ pc[s] \in Early \cup Holding /\ target[s] \in Paths /\ keep[s] \in Paths
           /\ UNCHANGED <<target, keep, todo, others>>
           /\ \/ UNCHANGED disk /\ (pc'[s] \in Holding => pc[s] \in Holding)
              \/ /\ pc[s] = "isolate" /\ pc'[s] = "payload1" /\ at[target[s]] # None
                 /\ payload' = [payload EXCEPT ![s] = at[target[s]]] /\ at' = [at EXCEPT ![target[s]] = None]
              \/ /\ pc[s] = "publish" /\ pc'[s] = "verify" /\ UNCHANGED payload
                 /\ at' = [at EXCEPT ![target[s]] = [to |-> keep[s]]]
              \/ /\ pc[s] = "remove" /\ pc'[s] \in {"next", "failed"} /\ UNCHANGED at
                 /\ payload' = [payload EXCEPT ![s] = None]
              \/ /\ pc[s] = "unlink" /\ pc'[s] = "empty" /\ UNCHANGED payload
                 /\ at' = [at EXCEPT ![target[s]] = None]
              \/ /\ pc[s] = "putback" /\ pc'[s] = "failed"
                 /\ at' = [at EXCEPT ![target[s]] = payload[s]] /\ payload' = [payload EXCEPT ![s] = None]
<1> USE DEF TypeOK, Goto, Early, Holding, Verifying
<1>0. (pc[s] # "new" => keep[s] \in Paths) /\ (pc[s] \in Early \cup Holding => target[s] \in Paths)
  BY DEF CommandInv
<1>1. CASE InspectKeep(s) \/ InspectReplacement(s) \/ HashKeep(s) \/ HashReplacement(s)
            \/ RecheckKeep(s) \/ RecheckReplacement(s)
  BY <1>0, <1>1 DEF InspectKeep, InspectReplacement, HashKeep, HashReplacement, RecheckKeep, RecheckReplacement
<1>2. CASE InspectPayload(s) \/ HashKeepAgain(s) \/ HashPayload(s) \/ FinalKeep(s) \/ FinalPayload(s) \/ VerifyLink(s)
  BY <1>0, <1>2 DEF InspectPayload, HashKeepAgain, HashPayload, FinalKeep, FinalPayload, VerifyLink, Checked
<1>3. CASE LookForLink(s) \/ LookForNothing(s)
  BY <1>0, <1>3 DEF LookForLink, LookForNothing, Recover, disk
<1>4. CASE Isolate(s)
  BY <1>0, <1>4 DEF Isolate, disk
<1>5. CASE Publish(s)
  BY <1>0, <1>5 DEF Publish, disk
<1>6. CASE RemovePayload(s)
  BY <1>0, <1>6 DEF RemovePayload, disk
<1>7. CASE RemoveLink(s)
  BY <1>0, <1>7 DEF RemoveLink, disk
<1>8. CASE PutBack(s)
  BY <1>0, <1>8 DEF PutBack, Recover, disk
<1> QED
  BY <1>1, <1>2, <1>3, <1>4, <1>5, <1>6, <1>7, <1>8 DEF CommandStep

\* The steps of a script around its commands, and the end of a killed command.
LEMMA ScriptStep ==
    ASSUME TypeOK, CommandInv, NEW s \in Scripts, StartScript(s) \/ NextCommand(s) \/ ScriptComplete(s) \/ Kill(s)
    PROVE  /\ UNCHANGED <<disk, others>>
           /\ \/ /\ pc'[s] \in {"next", "complete", "killed"} /\ UNCHANGED target
                 /\ pc'[s] # "killed" => payload[s] = None
              \/ /\ NextCommand(s) /\ pc'[s] = "keep1" /\ payload[s] = None
                 /\ \E p \in Paths : target' = [target EXCEPT ![s] = p]
  BY DEF StartScript, NextCommand, ScriptComplete, Kill, Goto, TypeOK, CommandInv

\* Files that belong to a path still do when more have come to be.
LEMMA FileOfKept ==
    ASSUME NEW f, NEW p \in Paths, foreign \in Nat, foreign' \in Nat, foreign' >= foreign, FileOf(f, p)
    PROVE  FileOf(f, p)'
  BY DEF FileOf

\* Files stay where they belong.
LEMMA HomeStep ==
    ASSUME TypeOK, CommandInv, HomeInv, ~meddled', [Next]_vars
    PROVE  HomeInv'
<1>0. TypeOK'
  BY TypeStep
<1> USE DEF TypeOK
<1>1. ASSUME NEW s \in Scripts, CommandStep(s) PROVE HomeInv'
  <2>1. /\ UNCHANGED <<target, foreign>>
        /\ \A p \in Paths : at'[p] = at[p] \/ ~IsFile(at'[p]) \/ (at'[p] = payload[s] /\ p = target[s])
        /\ \A t \in Scripts : payload'[t] = payload[t] \/ ~IsFile(payload'[t])
                \/ (t = s /\ payload'[t] = at[target[s]] /\ target[s] \in Paths)
    BY <1>1, DiskStep, Apart, Built DEF disk, others, IsFile
  <2> QED
    BY <2>1 DEF HomeInv, FileOf, IsFile
<1>2. ASSUME NEW s \in Scripts, StartScript(s) \/ NextCommand(s) \/ ScriptComplete(s) \/ Kill(s) PROVE HomeInv'
  <2>1. /\ UNCHANGED <<disk, foreign>>
        /\ \A t \in Scripts : target'[t] = target[t] \/ payload[t] = None
    BY <1>2, ScriptStep DEF others
  <2> QED
    BY <2>1, Apart DEF HomeInv, FileOf, IsFile, disk
<1>3. ASSUME NEW p \in Paths, Create(p) PROVE HomeInv'
  <2>1. /\ foreign' = foreign + 1 /\ UNCHANGED <<payload, target>>
        /\ at' = [at EXCEPT ![p] = [ino |-> <<p, foreign + 1>>, stamp |-> 0, planned |-> FALSE]]
    BY <1>3 DEF Create, Newest, command
  <2>2. at'[p].ino[1] = p /\ at'[p].ino[2] \in 1 .. foreign' /\ at'[p].stamp = 0 /\ ~at'[p].planned
    BY <2>1, <1>0
  <2> QED
    BY <2>1, <2>2, <1>0, FileOfKept DEF HomeInv, IsFile, FileOf
<1>4. ASSUME NEW p \in Paths, Meddle(p) PROVE HomeInv'
  BY <1>4 DEF Meddle
<1>5. CASE UNCHANGED vars
  BY <1>5 DEF vars, disk, command, others, HomeInv, FileOf, IsFile
<1> QED
  BY <1>1, <1>2, <1>3, <1>4, <1>5 DEF Next

\* Which commands run after a step.
LEMMA ApartStep ==
    ASSUME TypeOK, CommandInv, ApartInv, ~crossed', [Next]_vars
    PROVE  ApartInv'
<1> USE DEF TypeOK
<1>1. ASSUME NEW s \in Scripts, CommandStep(s) PROVE ApartInv'
  <2>1. Running(s) /\ UNCHANGED target
    BY <1>1, DiskStep DEF Running, Ended, Early, Holding, Verifying
  <2>2. \A t \in Scripts \ {s} : pc'[t] = pc[t]
    BY <1>1, OwnStep
  <2> QED
    BY <2>1, <2>2 DEF ApartInv, Running, Ended
<1>2. ASSUME NEW s \in Scripts, StartScript(s) \/ NextCommand(s) \/ ScriptComplete(s) \/ Kill(s) PROVE ApartInv'
  <2>0. \A t \in Scripts \ {s} : pc'[t] = pc[t] /\ target'[t] = target[t]
    BY <1>2, OwnStep
  <2>1. CASE pc'[s] \in {"next", "complete", "killed"}
    BY <2>0, <2>1 DEF ApartInv, Running, Ended
  <2>2. CASE NextCommand(s)
    <3>1. PICK p \in Paths : /\ target' = [target EXCEPT ![s] = p]
                            /\ crossed' = (crossed \/ \E t \in Scripts : Running(t) /\ target[t] = p)
      BY <2>2 DEF NextCommand
    <3>2. \A t \in Scripts : Running(t) => target[t] # p
      BY <3>1, Zenon
    <3> QED
      BY <2>0, <2>2, <3>1, <3>2 DEF NextCommand, ApartInv, Running, Ended
  <2> QED
    BY <1>2, <2>1, <2>2, ScriptStep
<1>3. ASSUME NEW p \in Paths, Create(p) \/ Meddle(p) PROVE ApartInv'
  BY <1>3 DEF Create, Meddle, command, ApartInv, Running, Ended
<1>4. CASE UNCHANGED vars
  BY <1>4 DEF vars, command, ApartInv, Running, Ended
<1> QED
  BY <1>1, <1>2, <1>3, <1>4 DEF Next

\* A path stays vacant while its file is in a workspace.
LEMMA VacantStep ==
    ASSUME TypeOK, CommandInv, ApartInv, VacantInv, ~meddled', [Next]_vars
    PROVE  VacantInv'
<1> USE DEF TypeOK
<1>1. ASSUME NEW s \in Scripts, CommandStep(s) PROVE VacantInv'
  <2>0. Running(s) /\ \A t \in Scripts \ {s} : pc'[t] = pc[t] /\ target'[t] = target[t] /\ payload'[t] = payload[t]
    BY <1>1, DiskStep, OwnStep DEF Running, Ended, Early, Holding, Verifying
  <2>1. \A t \in Scripts \ {s} : pc[t] \in Holding => target[t] \in Paths /\ target[t] # target[s]
    BY <2>0 DEF ApartInv, Running, Ended, Holding, Verifying, CommandInv
  <2>2. \A p \in Paths \ {target[s]} : at'[p] = at[p]
    BY <1>1, DiskStep DEF disk
  <2>3. \A t \in Scripts \ {s} : pc'[t] \in Holding => at'[target'[t]] = at[target[t]]
    BY <2>0, <2>1, <2>2
  <2>4. pc'[s] \in Holding =>
            LET e == at'[target'[s]] IN
            \/ e = None
            \/ IsFile(e) /\ ~e.planned
            \/ IsLink(e) /\ IsFile(payload'[s]) /\ payload'[s].planned
    <3>1. pc[s] = "publish" => IsFile(payload[s]) /\ payload[s].planned
      BY DEF CommandInv, Verifying
    <3> QED
      BY <1>1, <3>1, DiskStep, Built DEF disk, VacantInv, IsFile, IsLink, Holding, Verifying
  <2> QED
    BY <2>0, <2>3, <2>4 DEF VacantInv, IsFile, IsLink
<1>2. ASSUME NEW s \in Scripts, StartScript(s) \/ NextCommand(s) \/ ScriptComplete(s) \/ Kill(s) PROVE VacantInv'
  <2>1. pc'[s] \notin Holding /\ UNCHANGED disk
    BY <1>2, ScriptStep DEF Holding, Verifying
  <2> QED
    BY <1>2, <2>1, OwnStep DEF VacantInv, disk, IsFile, IsLink
<1>3. ASSUME NEW p \in Paths, Create(p) PROVE VacantInv'
  <2>1. /\ UNCHANGED <<payload, target, pc>>
        /\ at' = [at EXCEPT ![p] = [ino |-> <<p, Newest>>, stamp |-> 0, planned |-> FALSE]]
    BY <1>3 DEF Create, command
  <2>2. IsFile(at'[p]) /\ ~at'[p].planned
    BY <2>1 DEF IsFile, Newest, Files
  <2> QED
    BY <2>1, <2>2 DEF VacantInv, IsFile, IsLink, CommandInv
<1>4. ASSUME NEW p \in Paths, Meddle(p) PROVE VacantInv'
  BY <1>4 DEF Meddle
<1>5. CASE UNCHANGED vars
  BY <1>5 DEF vars, disk, command, VacantInv, IsFile, IsLink
<1> QED
  BY <1>1, <1>2, <1>3, <1>4, <1>5 DEF Next

\* Following links from a path ends at a file of the group or nowhere, and at the path itself if that is no link.
LEMMA ResolveFinds ==
    ASSUME NEW p \in Paths, Resolve(p) # None
    PROVE  /\ \E q \in Paths : q \in Followed(p) /\ IsFile(at[q]) /\ Resolve(p) = at[q]
           /\ ~IsLink(at[p]) => IsFile(at[p]) /\ Resolve(p) = at[p]
<1> DEFINE ends == {q \in Followed(p) : IsFile(at[q])}
           end == CHOOSE q \in ends : TRUE
<1>1. ends # {} /\ Resolve(p) = at[end]
  BY DEF Resolve
<1>2. end \in Paths /\ IsFile(at[end]) /\ end \in Followed(p)
  BY <1>1 DEF Followed
<1>3. ASSUME ~IsLink(at[p]) PROVE end = p
  <2>1. {p} \in SUBSET Paths /\ p \in {p} /\ \A r \in {p} : IsLink(at[r]) => at[r].to \in {p}
    BY <1>3
  <2> QED
    BY <1>2, <2>1 DEF Followed
<1> QED
  BY <1>1, <1>2, <1>3

\* A path that leads to a file reaches one.
LEMMA Resolves ==
    ASSUME NEW p \in Paths, NEW q \in Followed(p), IsFile(at[q])
    PROVE  Resolve(p) # None
<1> DEFINE ends == {x \in Followed(p) : IsFile(at[x])}
           end == CHOOSE x \in ends : TRUE
<1>1. end \in ends
  OBVIOUS
<1>2. Resolve(p) = at[end]
  BY DEF Resolve
<1> QED
  BY <1>1, <1>2, Apart DEF IsFile

\* The identity of a file of path p.
LEMMA IdentityHere ==
    ASSUME NEW p \in Paths, NEW f \in Files, foreign \in Nat, FileOf(f, p)
    PROVE  /\ \E n \in 0 .. foreign : Identity(f) = <<<<p, n>>, 0>>
           /\ f.planned => f = Original(p) /\ Identity(f) = OriginalInfo(p)
           /\ Identity(f) = OriginalInfo(p) => f = Original(p) /\ f.planned
<1>1. CASE f = Original(p)
  BY <1>1 DEF Original, Identity, OriginalInfo
<1>2. CASE f.ino[1] = p /\ f.ino[2] \in 1 .. foreign /\ f.stamp = 0 /\ ~f.planned
  <2>1. f.ino = <<p, f.ino[2]>>
    BY <1>2, Fields
  <2> QED
    BY <1>2, <2>1 DEF Identity, OriginalInfo
<1> QED
  BY <1>1, <1>2 DEF FileOf

\* What is gone does not come back.
LEMMA GoneStep ==
    ASSUME TypeOK, CommandInv, HomeInv, ~meddled', [Next]_vars,
           NEW t \in Scripts, pc[t] \in {"hash4", "keep3"}, Gone(t),
           \E n \in 0 .. foreign : keepInfo[t] = <<<<keep[t], n>>, 0>>,
           keep'[t] = keep[t], keepInfo'[t] = keepInfo[t]
    PROVE  Gone(t)'
<1> USE DEF TypeOK
<1>0. keep[t] \in Paths
  BY DEF CommandInv
<1>1. ASSUME NEW s \in Scripts, CommandStep(s) PROVE Gone(t)'
  <2>1. /\ Running(s) /\ UNCHANGED target
        /\ IsFile(at'[keep[t]]) => at'[keep[t]] = at[keep[t]] \/ (at'[keep[t]] = payload[s] /\ target[s] = keep[t])
        /\ IsFile(payload'[s]) => payload'[s] = payload[s] \/ payload'[s] = at[target[s]]
    BY <1>0, <1>1, DiskStep, Apart, Built DEF disk, IsFile, Running, Ended, Early, Holding, Verifying
  <2>2. \A r \in Scripts \ {s} : pc'[r] = pc[r] /\ payload'[r] = payload[r]
    BY <1>1, OwnStep
  <2> QED
    BY <2>1, <2>2 DEF Gone, IsFile, Identity, Running, Ended
<1>2. ASSUME NEW s \in Scripts, StartScript(s) \/ NextCommand(s) \/ ScriptComplete(s) \/ Kill(s) PROVE Gone(t)'
  <2>1. UNCHANGED disk /\ (payload[s] = None \/ ~Running(s)')
    BY <1>2, ScriptStep DEF Running, Ended
  <2>2. \A r \in Scripts \ {s} : pc'[r] = pc[r] /\ target'[r] = target[r]
    BY <1>2, OwnStep
  <2> QED
    BY <2>1, <2>2, Apart DEF Gone, IsFile, Identity, Running, Ended, disk
<1>3. ASSUME NEW p \in Paths, Create(p) PROVE Gone(t)'
  <2>1. /\ UNCHANGED <<payload, target, pc>>
        /\ at' = [at EXCEPT ![p] = [ino |-> <<p, foreign + 1>>, stamp |-> 0, planned |-> FALSE]]
    BY <1>3 DEF Create, Newest, command
  <2>2. Identity(at[p])' = <<<<p, foreign + 1>>, 0>>
    BY <2>1 DEF Identity
  <2>3. at'[keep[t]] = at[keep[t]] \/ keep[t] = p
    BY <2>1, <1>0
  <2> QED
    BY <2>1, <2>2, <2>3 DEF Gone, IsFile, Identity, Running, Ended
<1>4. ASSUME NEW p \in Paths, Meddle(p) PROVE Gone(t)'
  BY <1>4 DEF Meddle
<1>5. CASE UNCHANGED vars
  BY <1>5 DEF vars, disk, command, Gone, IsFile, Identity, Running, Ended
<1> QED
  BY <1>1, <1>2, <1>3, <1>4, <1>5 DEF Next

\* A kept file that was hashed by its path is the planned one, or the one inspected before is gone.
LEMMA HashedKeep ==
    ASSUME TypeOK, CommandInv, HomeInv, VacantInv, NEW s \in Scripts, pc[s] = "hash3", Hashes(keep[s]),
           NEW n \in 0 .. foreign, keepInfo[s] = <<<<keep[s], n>>, 0>>, n # 0
    PROVE  Gone(s)
<1> USE DEF TypeOK
<1> DEFINE k == keep[s]
<1>0. k \in Paths /\ keepInfo[s] # OriginalInfo(k)
  BY DEF CommandInv, OriginalInfo
<1>1. ~IsLink(at[k]) => IsFile(at[k]) /\ at[k].planned
  BY <1>0, ResolveFinds DEF Hashes
<1>2. IsFile(at[k]) => Identity(at[k]) # keepInfo[s]
  <2>1. IsFile(at[k]) => ~IsLink(at[k])
    BY Apart DEF IsFile, IsLink
  <2>2. IsFile(at[k]) => at[k] \in Files /\ at[k].planned /\ FileOf(at[k], k)
    BY <1>0, <1>1, <2>1 DEF HomeInv, IsFile
  <2> QED
    BY <1>0, <2>2, IdentityHere
<1>3. ASSUME NEW t \in Scripts, Running(t), target[t] = k, IsFile(payload[t])
      PROVE  Identity(payload[t]) # keepInfo[s]
  <2>1. pc[t] \in Holding
    BY <1>3, Apart DEF CommandInv, Running, Ended, Steps, IsFile
  <2>2. payload[t].planned
    BY <1>1, <1>3, <2>1, Apart DEF VacantInv, IsFile, IsLink
  <2>3. payload[t] \in Files /\ FileOf(payload[t], k)
    BY <1>3 DEF HomeInv, IsFile
  <2> QED
    BY <1>0, <2>2, <2>3, IdentityHere
<1> QED
  BY <1>2, <1>3 DEF Gone

\* A command keeps what it knows of the kept file once it has inspected it.
LEMMA KeepInfoStep ==
    ASSUME TypeOK, NEW s \in Scripts, CommandStep(s)
    PROVE  /\ keep'[s] = keep[s]
           /\ \/ InspectKeep(s)
              \/ /\ keepInfo'[s] = keepInfo[s]
                 /\ pc'[s] \in (Early \ {"keep1"}) \cup {"payload1"} \cup Verifying
                        => pc[s] \in (Early \ {"keep1"}) \cup {"payload1"} \cup Verifying
                 /\ pc'[s] = "hash4" => pc[s] = "hash3" /\ Hashes(keep[s]) /\ UNCHANGED <<disk, target>>
                 /\ pc'[s] = "keep3" => pc[s] = "hash4"
                 /\ pc'[s] = "payload2" => pc[s] = "keep3" /\ SameFile(at[keep[s]], keepInfo[s])
                 /\ pc'[s] \in {"publish", "verify"} => pc[s] \in {"payload2", "publish"}
<1> USE DEF TypeOK, Goto, Early, Verifying
<1>1. CASE InspectReplacement(s) \/ HashKeep(s) \/ HashReplacement(s)
            \/ RecheckKeep(s) \/ RecheckReplacement(s) \/ Isolate(s)
  BY <1>1 DEF InspectReplacement, HashKeep, HashReplacement, RecheckKeep, RecheckReplacement, Isolate
<1>2. CASE InspectPayload(s) \/ HashKeepAgain(s) \/ HashPayload(s) \/ FinalKeep(s) \/ FinalPayload(s) \/ VerifyLink(s)
  BY <1>2 DEF InspectPayload, HashKeepAgain, HashPayload, FinalKeep, FinalPayload, VerifyLink, Checked
<1>3. CASE Publish(s) \/ RemovePayload(s) \/ LookForLink(s) \/ RemoveLink(s) \/ LookForNothing(s) \/ PutBack(s)
  BY <1>3 DEF Publish, RemovePayload, LookForLink, RemoveLink, LookForNothing, PutBack, Recover
<1>4. CASE InspectKeep(s)
  BY <1>4 DEF InspectKeep
<1> QED
  BY <1>1, <1>2, <1>3, <1>4 DEF CommandStep

\* What a command knows of the kept file stays true.
LEMMA KeepStep ==
    ASSUME TypeOK, CommandInv, HomeInv, VacantInv, KeepInv, ~meddled', [Next]_vars
    PROVE  KeepInv'
<1>0. TypeOK' /\ CommandInv'
  BY TypeStep, CommandKept
<1> USE DEF TypeOK
<1> DEFINE Knows(t) == \E n \in 0 .. foreign : keepInfo[t] = <<<<keep[t], n>>, 0>>
           Own(t) ==
             /\ pc[t] \in (Early \ {"keep1"}) \cup {"payload1"} \cup Verifying => Knows(t)
             /\ pc[t] \in {"hash4", "keep3"} => keepInfo[t] = OriginalInfo(keep[t]) \/ Gone(t)
             /\ pc[t] \in {"payload2", "publish", "verify"} => keepInfo[t] = OriginalInfo(keep[t])
<1>1. \A t \in Scripts : Own(t)
  BY DEF KeepInv
<1>2. foreign' >= foreign
  <2>1. ASSUME NEW s \in Scripts, StartScript(s) \/ NextCommand(s) \/ ScriptComplete(s) \/ Kill(s) PROVE foreign' = foreign
    BY <2>1, ScriptStep DEF others
  <2>2. ASSUME NEW s \in Scripts, CommandStep(s) PROVE foreign' = foreign
    BY <2>2, DiskStep DEF others
  <2>3. ASSUME NEW p \in Paths, Create(p) \/ Meddle(p) PROVE foreign' = foreign + 1
    BY <2>3 DEF Create, Meddle
  <2>4. CASE UNCHANGED vars
    BY <2>4 DEF vars, others
  <2> QED
    BY <2>1, <2>2, <2>3, <2>4 DEF Next
<1>3. ASSUME NEW t \in Scripts, keep'[t] = keep[t], keepInfo'[t] = keepInfo[t], Knows(t) PROVE Knows(t)'
  BY <1>0, <1>2, <1>3
<1>4. ASSUME NEW t \in Scripts, pc'[t] = pc[t], keep'[t] = keep[t], keepInfo'[t] = keepInfo[t] PROVE Own(t)'
  <2>1. pc[t] \in {"hash4", "keep3"} => Knows(t)
    BY <1>1 DEF Verifying
  <2>2. pc[t] \in {"hash4", "keep3"} /\ Gone(t) => Gone(t)'
    BY <1>4, <2>1, GoneStep
  <2> QED
    BY <1>1, <1>3, <1>4, <2>2 DEF OriginalInfo
<1>5. ASSUME NEW s \in Scripts, CommandStep(s) PROVE Own(s)'
  <2>1. CASE InspectKeep(s)
    <3>1. pc'[s] \in {"copy1", "failed"} /\ keep'[s] = keep[s] /\ foreign' = foreign
      BY <2>1 DEF InspectKeep, Goto, others
    <3>2. pc'[s] = "copy1" => IsFile(at[keep[s]]) /\ keepInfo'[s] = Identity(at[keep[s]])
      BY <2>1 DEF InspectKeep, Goto
    <3>3. keep[s] \in Paths
      BY <2>1 DEF InspectKeep, CommandInv
    <3>4. pc'[s] = "copy1" => Knows(s)'
      BY <3>1, <3>2, <3>3, IdentityHere DEF HomeInv, IsFile
    <3> QED
      BY <3>1, <3>4 DEF Early, Verifying
  <2>2. CASE ~InspectKeep(s)
    <3>0. keep'[s] = keep[s] /\ keepInfo'[s] = keepInfo[s] /\ keep[s] \in Paths
      BY <1>5, <2>2, KeepInfoStep, DiskStep
    <3>1. pc'[s] \in (Early \ {"keep1"}) \cup {"payload1"} \cup Verifying => Knows(s)'
      BY <1>1, <1>3, <1>5, <2>2, <3>0, KeepInfoStep
    <3>2. ASSUME pc'[s] = "hash4" PROVE keepInfo[s] = OriginalInfo(keep[s]) \/ Gone(s)'
      <4>1. pc[s] = "hash3" /\ Hashes(keep[s]) /\ UNCHANGED <<disk, target>>
        BY <1>5, <2>2, <3>2, KeepInfoStep
      <4>2. PICK n \in 0 .. foreign : keepInfo[s] = <<<<keep[s], n>>, 0>>
        BY <1>1, <4>1 DEF Verifying
      <4>3. n = 0 \/ Gone(s)
        BY <4>1, <4>2, HashedKeep
      <4>4. \A t \in Scripts : Running(t)' => Running(t)
        BY <1>5, <3>2, <4>1, OwnStep DEF Running, Ended
      <4>5. Gone(s) => Gone(s)'
        BY <3>0, <4>1, <4>4 DEF Gone, IsFile, Identity, disk
      <4> QED
        BY <4>2, <4>3, <4>5 DEF OriginalInfo
    <3>3. ASSUME pc'[s] = "keep3" PROVE keepInfo[s] = OriginalInfo(keep[s]) \/ Gone(s)'
      <4>1. pc[s] = "hash4"
        BY <1>5, <2>2, <3>3, KeepInfoStep
      <4>2. Knows(s)
        BY <1>1, <4>1 DEF Verifying
      <4>3. Gone(s) => Gone(s)'
        BY <3>0, <4>1, <4>2, GoneStep
      <4> QED
        BY <1>1, <4>1, <4>3
    <3>4. ASSUME pc'[s] = "payload2" PROVE keepInfo[s] = OriginalInfo(keep[s])
      <4>1. pc[s] = "keep3" /\ SameFile(at[keep[s]], keepInfo[s])
        BY <1>5, <2>2, <3>4, KeepInfoStep
      <4> QED
        BY <1>1, <4>1 DEF SameFile, Gone
    <3>5. ASSUME pc'[s] \in {"publish", "verify"} PROVE keepInfo[s] = OriginalInfo(keep[s])
      BY <1>1, <1>5, <2>2, <3>5, KeepInfoStep
    <3> QED
      BY <3>0, <3>1, <3>2, <3>3, <3>4, <3>5 DEF OriginalInfo
  <2> QED
    BY <2>1, <2>2
<1>6. ASSUME NEW s \in Scripts, StartScript(s) \/ NextCommand(s) \/ ScriptComplete(s) \/ Kill(s) PROVE Own(s)'
  <2>1. pc'[s] \in {"next", "complete", "killed", "keep1"}
    BY <1>6, ScriptStep
  <2> QED
    BY <2>1 DEF Early, Verifying
<1>7. ASSUME NEW s \in Scripts, StartScript(s) \/ NextCommand(s) \/ ScriptComplete(s) \/ Kill(s) \/ CommandStep(s)
      PROVE \A t \in Scripts : Own(t)'
  <2>1. \A t \in Scripts \ {s} : pc'[t] = pc[t] /\ keep'[t] = keep[t] /\ keepInfo'[t] = keepInfo[t]
    BY <1>7, OwnStep
  <2>2. \A t \in Scripts \ {s} : Own(t)'
    BY <1>4, <2>1
  <2>3. Own(s)'
    BY <1>5, <1>6, <1>7
  <2> QED
    BY <2>2, <2>3
<1>8. ASSUME NEW p \in Paths, Create(p) \/ Meddle(p) PROVE \A t \in Scripts : Own(t)'
  <2>1. UNCHANGED <<pc, keep, keepInfo>>
    BY <1>8 DEF Create, Meddle, command
  <2> QED
    BY <1>4, <1>8, <2>1
<1>9. ASSUME UNCHANGED vars PROVE \A t \in Scripts : Own(t)'
  <2>1. UNCHANGED <<pc, keep, keepInfo>>
    BY <1>9 DEF vars, command
  <2> QED
    BY <1>4, <1>9, <2>1
<1>10. \A t \in Scripts : Own(t)'
  <2> HIDE DEF Own, Knows, TypeOK
  <2> QED
    BY <1>7, <1>8, <1>9 DEF Next
<1> HIDE DEF TypeOK
<1> QED
  BY <1>10 DEF KeepInv

\* A published link that reaches the file known as kept shows that the planned file is at its path.
LEMMA LinkShowsKeep ==
    ASSUME TypeOK, HomeInv, NEW s \in Scripts, target[s] \in Paths, keepInfo[s] = OriginalInfo(keep[s]),
           Resolve(target[s]) # None, SameFile(Resolve(target[s]), keepInfo[s])
    PROVE  \E p \in Paths : at[p] = Original(p)
<1>1. PICK q \in Paths : IsFile(at[q]) /\ Resolve(target[s]) = at[q]
  BY ResolveFinds
<1>2. at[q] \in Files /\ FileOf(at[q], q) /\ foreign \in Nat
  BY <1>1 DEF HomeInv, IsFile, TypeOK
<1>3. Identity(at[q]) = OriginalInfo(keep[s])
  BY <1>1 DEF SameFile
<1>4. PICK n \in 0 .. foreign : Identity(at[q]) = <<<<q, n>>, 0>>
  BY <1>2, IdentityHere
<1>5. keep[s] = q
  BY <1>3, <1>4 DEF OriginalInfo
<1> QED
  BY <1>2, <1>3, <1>5, IdentityHere

\* Some planned file stays at its path or in a workspace.
LEMMA SafeStep ==
    ASSUME TypeOK, CommandInv, HomeInv, VacantInv, KeepInv, SafeInv, ~meddled', [Next]_vars
    PROVE  SafeInv'
<1>0. \A p \in Paths : IsFile(Original(p)) /\ ~IsLink(Original(p)) /\ Original(p) # None /\ Original(p).planned
  BY Apart, Built DEF IsFile, IsLink, Original
<1> USE DEF TypeOK
<1>1. ASSUME NEW s \in Scripts, CommandStep(s) PROVE SafeInv'
  <2>0. target' = target /\ target[s] \in Paths
    BY <1>1, DiskStep
  <2>1. ASSUME NEW p \in Paths, at[p] = Original(p) PROVE SafeInv'
    <3>1. CASE target[s] # p
      <4>1. at'[p] = at[p]
        BY <1>1, <3>1, DiskStep DEF disk
      <4> QED
        BY <2>1, <4>1 DEF SafeInv, Original
    <3>2. CASE target[s] = p
      <4>1. pc[s] \notin Holding
        BY <1>0, <2>1, <3>2 DEF VacantInv
      <4>2. UNCHANGED disk \/ (payload'[s] = Original(p) /\ pc'[s] = "payload1")
        BY <1>1, <2>1, <3>2, <4>1, DiskStep DEF Holding, Verifying
      <4>3. CASE UNCHANGED disk
        BY <2>1, <4>3 DEF SafeInv, disk, Original
      <4>4. CASE payload'[s] = Original(p) /\ pc'[s] = "payload1"
        BY <2>0, <3>2, <4>4 DEF SafeInv, Original
      <4> QED
        BY <4>2, <4>3, <4>4
    <3> QED
      BY <3>1, <3>2
  <2>2. ASSUME NEW t \in Scripts, target[t] \in Paths, payload[t] = Original(target[t]), pc[t] # "remove" PROVE SafeInv'
    <3>1. CASE t # s
      <4>1. payload'[t] = payload[t] /\ pc'[t] = pc[t]
        BY <1>1, <3>1, OwnStep
      <4> QED
        BY <2>0, <2>2, <4>1 DEF SafeInv, Original
    <3>2. CASE t = s /\ UNCHANGED disk /\ pc'[s] # "remove"
      BY <2>0, <2>2, <3>2 DEF SafeInv, disk, Original
    <3>3. CASE t = s /\ UNCHANGED disk /\ pc'[s] = "remove"
      <4>1. pc[s] = "verify" /\ Resolve(target[s]) # None /\ SameFile(Resolve(target[s]), keepInfo[s])
        <5>1. CASE InspectKeep(s) \/ InspectReplacement(s) \/ HashKeep(s) \/ HashReplacement(s)
                    \/ RecheckKeep(s) \/ RecheckReplacement(s) \/ Isolate(s)
          BY <3>3, <5>1 DEF InspectKeep, InspectReplacement, HashKeep, HashReplacement, RecheckKeep,
               RecheckReplacement, Isolate, Goto
        <5>2. CASE InspectPayload(s) \/ HashKeepAgain(s) \/ HashPayload(s) \/ FinalKeep(s) \/ FinalPayload(s)
          BY <3>3, <5>2 DEF InspectPayload, HashKeepAgain, HashPayload, FinalKeep, FinalPayload, Checked, Goto
        <5>3. CASE VerifyLink(s)
          BY <3>3, <5>3 DEF VerifyLink, Checked, Goto
        <5>4. CASE Publish(s) \/ RemovePayload(s) \/ LookForLink(s) \/ RemoveLink(s) \/ LookForNothing(s) \/ PutBack(s)
          BY <3>3, <5>4 DEF Publish, RemovePayload, LookForLink, RemoveLink, LookForNothing, PutBack, Recover, Goto
        <5> QED
          BY <1>1, <5>1, <5>2, <5>3, <5>4 DEF CommandStep
      <4>2. keepInfo[s] = OriginalInfo(keep[s])
        BY <4>1 DEF KeepInv
      <4> QED
        BY <2>0, <3>3, <4>1, <4>2, LinkShowsKeep DEF SafeInv, disk, Original
    <3>4. CASE t = s /\ ~UNCHANGED disk
      <4>1. pc[s] # "isolate"
        BY <1>0, <2>2, <3>4 DEF CommandInv, Early
      <4>2. \/ payload'[s] = payload[s] /\ pc'[s] # "remove"
            \/ at'[target[s]] = payload[s]
        BY <1>1, <2>0, <2>2, <3>4, <4>1, DiskStep
      <4> QED
        BY <2>0, <2>2, <3>4, <4>2 DEF SafeInv, Original
    <3> QED
      BY <3>1, <3>2, <3>3, <3>4
  <2> QED
    BY <2>1, <2>2 DEF SafeInv
<1>2. ASSUME NEW s \in Scripts, StartScript(s) \/ NextCommand(s) \/ ScriptComplete(s) \/ Kill(s) PROVE SafeInv'
  <2>1. ASSUME NEW p \in Paths, at[p] = Original(p) PROVE SafeInv'
    BY <1>2, <2>1, ScriptStep DEF SafeInv, disk, Original
  <2>2. ASSUME NEW t \in Scripts, target[t] \in Paths, payload[t] = Original(target[t]), pc[t] # "remove" PROVE SafeInv'
    <3>1. target'[t] = target[t] /\ payload'[t] = payload[t] /\ pc'[t] # "remove"
      BY <1>0, <1>2, <2>2, ScriptStep, OwnStep DEF disk
    <3> QED
      BY <2>2, <3>1 DEF SafeInv, Original
  <2> QED
    BY <2>1, <2>2 DEF SafeInv
<1>3. ASSUME NEW p \in Paths, Create(p) PROVE SafeInv'
  <2>1. UNCHANGED <<payload, target, pc>> /\ \A q \in Paths : at[q] # None => at'[q] = at[q]
    BY <1>3 DEF Create, command
  <2> QED
    BY <1>0, <2>1 DEF SafeInv, Original
<1>4. ASSUME NEW p \in Paths, Meddle(p) PROVE SafeInv'
  BY <1>4 DEF Meddle
<1>5. CASE UNCHANGED vars
  BY <1>5 DEF vars, disk, command, SafeInv, Original
<1> QED
  BY <1>1, <1>2, <1>3, <1>4, <1>5 DEF Next

\* When what is at one path changes, the links from another path lead where they led, or to that path.
LEMMA FollowedStep ==
    ASSUME NEW p \in Paths, NEW r \in Paths, \A x \in Paths \ {r} : at'[x] = at[x]
    PROVE  IF r \in Followed(p) THEN r \in Followed(p)' ELSE Followed(p) \subseteq Followed(p)'
<1> DEFINE Closed(S) == p \in S /\ \A x \in S : IsLink(at[x]) => at[x].to \in S
           ClosedNext(S) == p \in S /\ \A x \in S : IsLink(at'[x]) => at'[x].to \in S
<1>1. \A q : q \in Followed(p) <=> q \in Paths /\ \A S \in SUBSET Paths : Closed(S) => q \in S
  BY DEF Followed
<1>2. \A q : q \in Followed(p)' <=> q \in Paths /\ \A S \in SUBSET Paths : ClosedNext(S) => q \in S
  BY DEF Followed, IsLink
<1>3. \A S \in SUBSET Paths : r \notin S => (Closed(S) <=> ClosedNext(S))
  OBVIOUS
<1>4. ASSUME r \in Followed(p) PROVE r \in Followed(p)'
  BY <1>1, <1>2, <1>3, <1>4
<1>5. ASSUME r \notin Followed(p), NEW q \in Followed(p) PROVE q \in Followed(p)'
  <2>1. PICK S \in SUBSET Paths : Closed(S) /\ r \notin S
    BY <1>1, <1>5
  <2>2. ASSUME NEW T \in SUBSET Paths, ClosedNext(T) PROVE q \in T
    <3>1. S \cap T \in SUBSET Paths /\ r \notin S \cap T
      BY <2>1
    <3>2. ClosedNext(S \cap T)
      BY <1>3, <2>1, <2>2
    <3>3. Closed(S \cap T)
      BY <1>3, <3>1, <3>2
    <3> QED
      BY <1>1, <1>5, <3>1, <3>3
  <2> QED
    BY <1>1, <1>2, <1>5, <2>2
<1> QED
  BY <1>4, <1>5

\* Links that lead on from where links lead.
LEMMA FollowedOn ==
    ASSUME NEW p \in Paths, NEW q \in Followed(p), NEW r \in Followed(q)
    PROVE  r \in Followed(p)
  BY DEF Followed

\* The steps of a command towards the removal of the duplicate.
LEMMA FoundOwn ==
    ASSUME TypeOK, CommandInv, NEW s \in Scripts, CommandStep(s)
    PROVE  /\ pc'[s] = "hash1" => IsFile(at[target[s]]) /\ UNCHANGED disk
           /\ pc'[s] \in {"hash2", "keep2", "copy2", "isolate"} =>
                  pc[s] \in {"hash1", "hash2", "keep2", "copy2"} /\ UNCHANGED disk
           /\ pc'[s] = "remove" => pc[s] = "verify" /\ Resolve(target[s]) # None /\ UNCHANGED disk
<1> USE DEF TypeOK, Goto
<1>1. CASE InspectKeep(s) \/ InspectReplacement(s) \/ HashKeep(s) \/ HashReplacement(s)
            \/ RecheckKeep(s) \/ RecheckReplacement(s) \/ Isolate(s)
  BY <1>1 DEF InspectKeep, InspectReplacement, HashKeep, HashReplacement, RecheckKeep, RecheckReplacement, Isolate
<1>2. CASE InspectPayload(s) \/ HashKeepAgain(s) \/ HashPayload(s) \/ FinalKeep(s) \/ FinalPayload(s) \/ VerifyLink(s)
  BY <1>2 DEF InspectPayload, HashKeepAgain, HashPayload, FinalKeep, FinalPayload, VerifyLink, Checked
<1>3. CASE Publish(s) \/ RemovePayload(s) \/ LookForLink(s) \/ RemoveLink(s) \/ LookForNothing(s) \/ PutBack(s)
  BY <1>3 DEF Publish, RemovePayload, LookForLink, RemoveLink, LookForNothing, PutBack, Recover
<1> QED
  BY <1>1, <1>2, <1>3 DEF CommandStep

\* What was found to be a file stays one.
LEMMA FoundStep ==
    ASSUME TypeOK, CommandInv, ApartInv, FoundInv, ~meddled', [Next]_vars
    PROVE  FoundInv'
<1> USE DEF TypeOK
<1>1. ASSUME NEW s \in Scripts, CommandStep(s) PROVE FoundInv'
  <2>0. /\ Running(s) /\ target' = target
        /\ \A t \in Scripts \ {s} : pc'[t] = pc[t] /\ payload'[t] = payload[t]
    BY <1>1, DiskStep, OwnStep DEF Running, Ended, Early, Holding, Verifying
  <2>1. \A t \in Scripts \ {s} : pc[t] \in Early \cup Holding => at'[target[t]] = at[target[t]]
    <3>1. \A t \in Scripts \ {s} : pc[t] \in Early \cup Holding => target[t] \in Paths /\ target[t] # target[s]
      BY <2>0 DEF ApartInv, Running, Ended, Early, Holding, Verifying, CommandInv
    <3>2. \A p \in Paths \ {target[s]} : at'[p] = at[p]
      BY <1>1, DiskStep DEF disk
    <3> QED
      BY <3>1, <3>2
  <2>2. pc'[s] \in {"hash1", "hash2", "keep2", "copy2", "isolate"} => IsFile(at'[target[s]])
    BY <1>1, FoundOwn DEF FoundInv, disk
  <2>3. pc'[s] \in Holding => IsFile(payload'[s])
    BY <1>1, DiskStep DEF FoundInv, disk, Holding, Verifying
  <2> QED
    BY <2>0, <2>1, <2>2, <2>3 DEF FoundInv, IsFile, Early
<1>2. ASSUME NEW s \in Scripts, StartScript(s) \/ NextCommand(s) \/ ScriptComplete(s) \/ Kill(s) PROVE FoundInv'
  <2>1. pc'[s] \in {"next", "complete", "killed", "keep1"} /\ UNCHANGED disk
    BY <1>2, ScriptStep
  <2> QED
    BY <1>2, <2>1, OwnStep DEF FoundInv, disk, IsFile, Holding, Verifying
<1>3. ASSUME NEW p \in Paths, Create(p) PROVE FoundInv'
  <2>1. UNCHANGED <<payload, target, pc>> /\ at[p] = None /\ \A q \in Paths \ {p} : at'[q] = at[q]
    BY <1>3 DEF Create, command
  <2>2. \A t \in Scripts : pc[t] \in Early => target[t] \in Paths
    BY DEF CommandInv
  <2> QED
    BY <2>1, <2>2, Apart DEF FoundInv, IsFile, Early
<1>4. ASSUME NEW p \in Paths, Meddle(p) PROVE FoundInv'
  BY <1>4 DEF Meddle
<1>5. CASE UNCHANGED vars
  BY <1>5 DEF vars, disk, command, FoundInv, IsFile
<1> QED
  BY <1>1, <1>2, <1>3, <1>4, <1>5 DEF Next

\* Links keep leading to the content: what a command verifies before it removes the duplicate is a file that
\* every path that leads to the duplicate's then leads to.
LEMMA GroundedStep ==
    ASSUME TypeOK, CommandInv, HomeInv, FoundInv, GroundedInv, foreign = 0, foreign' = 0, ~meddled', [Next]_vars
    PROVE  GroundedInv'
<1>0. \A p \in Paths : Original(p) # None /\ \A f \in Files : FileOf(f, p) => f = Original(p)
  <2>1. \A n : n \notin 1 .. foreign
    OBVIOUS
  <2> QED
    BY <2>1, Apart, Built DEF FileOf
<1> USE DEF TypeOK
<1>1. ASSUME NEW s \in Scripts, CommandStep(s) PROVE GroundedInv'
  <2> PICK r \in Paths : r = target[s]
    BY <1>1, DiskStep
  <2>0. /\ r \in Paths /\ r = target[s] /\ target' = target
        /\ \A t \in Scripts \ {s} : pc'[t] = pc[t] /\ payload'[t] = payload[t]
    BY <1>1, DiskStep, OwnStep
  <2>1. pc[s] = "isolate" => at[r] = Original(r)
    BY <1>0, <2>0 DEF FoundInv, HomeInv, IsFile
  <2>2. pc[s] \in Holding => payload[s] = Original(r)
    BY <1>0, <2>0 DEF FoundInv, HomeInv, IsFile
  <2>3. ASSUME UNCHANGED at, NEW p \in Paths, NEW q \in Followed(p), Solid(q)' PROVE \E x \in Followed(p)' : Solid(x)'
    BY <2>3 DEF Followed, IsLink
  <2>4. CASE UNCHANGED disk /\ pc'[s] # "remove"
    <3>1. ASSUME NEW q \in Paths, Solid(q) PROVE Solid(q)'
      BY <2>0, <2>4, <3>1 DEF Solid, Original, disk
    <3> QED
      BY <2>3, <2>4, <3>1 DEF GroundedInv, disk, Followed
  <2>5. CASE UNCHANGED disk /\ pc'[s] = "remove"
    <3>1. PICK x \in Paths : x \in Followed(r) /\ IsFile(at[x])
      BY <1>1, <2>0, <2>5, FoundOwn, ResolveFinds
    <3>2. Solid(x)'
      BY <1>0, <2>5, <3>1 DEF HomeInv, IsFile, Solid, Original, disk
    <3>3. ASSUME NEW q \in Paths, Solid(q), q # r PROVE Solid(q)'
      BY <2>0, <2>5, <3>3 DEF Solid, Original, disk
    <3>4. ASSUME NEW p \in Paths PROVE \E q \in Followed(p) : Solid(q)'
      <4>1. PICK q \in Followed(p) : Solid(q)
        BY DEF GroundedInv
      <4>2. q \in Paths
        BY DEF Followed
      <4>3. q = r => x \in Followed(p)
        BY <3>1, <2>0, FollowedOn
      <4> QED
        BY <3>2, <3>3, <4>1, <4>2, <4>3
    <3> QED
      BY <2>3, <2>5, <3>4 DEF GroundedInv, disk
  <2>6. CASE pc[s] = "remove" /\ UNCHANGED at
    <3>1. ASSUME NEW q \in Paths, Solid(q) PROVE Solid(q)'
      BY <2>0, <2>6, <3>1 DEF Solid, Original
    <3> QED
      BY <2>3, <2>6, <3>1 DEF GroundedInv, Followed
  <2>7. CASE pc[s] \in {"isolate", "publish", "unlink", "putback"} /\ ~UNCHANGED disk
    <3>1. Solid(r)'
      <4>1. \/ payload'[s] = Original(r) /\ pc'[s] # "remove"
            \/ at'[r] = Original(r)
        BY <1>1, <2>0, <2>1, <2>2, <2>7, DiskStep DEF Holding, Verifying
      <4> QED
        BY <2>0, <4>1 DEF Solid, Original
    <3>2. \A q \in Paths \ {r} : at'[q] = at[q]
      BY <1>1, DiskStep DEF disk
    <3>3. ASSUME NEW q \in Paths, Solid(q), q # r PROVE Solid(q)'
      BY <2>0, <3>2, <3>3 DEF Solid, Original
    <3>4. ASSUME NEW p \in Paths PROVE \E q \in Followed(p)' : Solid(q)'
      <4>1. PICK q \in Followed(p) : Solid(q)
        BY DEF GroundedInv
      <4>2. q \in Paths
        BY DEF Followed
      <4>3. r \in Followed(p) => r \in Followed(p)'
        BY <2>0, <3>2, FollowedStep
      <4>4. r \notin Followed(p) => q \in Followed(p)' /\ q # r
        BY <2>0, <3>2, <4>1, FollowedStep
      <4>5. CASE r \in Followed(p)
        BY <3>1, <4>3, <4>5
      <4>6. CASE r \notin Followed(p)
        BY <3>3, <4>1, <4>2, <4>4, <4>6
      <4> QED
        BY <4>5, <4>6
    <3> QED
      BY <3>4 DEF GroundedInv
  <2> QED
    BY <1>1, <2>4, <2>5, <2>6, <2>7, DiskStep
<1>2. ASSUME NEW s \in Scripts, StartScript(s) \/ NextCommand(s) \/ ScriptComplete(s) \/ Kill(s) PROVE GroundedInv'
  <2>1. ASSUME NEW q \in Paths, Solid(q) PROVE Solid(q)'
    <3>1. CASE at[q] = Original(q)
      BY <1>2, <3>1, ScriptStep DEF Solid, Original, disk
    <3>2. ASSUME NEW t \in Scripts, target[t] = q, payload[t] = Original(q), pc[t] # "remove" PROVE Solid(q)'
      <4>1. target'[t] = q /\ payload'[t] = payload[t] /\ pc'[t] # "remove"
        BY <1>0, <1>2, <3>2, ScriptStep, OwnStep DEF disk
      <4> QED
        BY <3>2, <4>1 DEF Solid, Original
    <3> QED
      BY <2>1, <3>1, <3>2 DEF Solid
  <2>2. at' = at
    BY <1>2, ScriptStep DEF disk
  <2> QED
    BY <2>1, <2>2 DEF GroundedInv, Followed, IsLink
<1>3. ASSUME NEW p \in Paths, Create(p) \/ Meddle(p) PROVE FALSE
  BY <1>3 DEF Create, Meddle
<1>4. CASE UNCHANGED vars
  BY <1>4 DEF vars, disk, command, GroundedInv, Followed, Solid, Original, IsLink
<1> QED
  BY <1>1, <1>2, <1>3, <1>4 DEF Next

\* The invariant is inductive.
LEMMA NextInv == Inv /\ [Next]_vars => Inv'
<1> SUFFICES ASSUME Inv, [Next]_vars PROVE Inv'
  OBVIOUS
<1>1. TypeOK' /\ CommandInv'
  BY TypeStep, CommandKept DEF Inv
<1>2. ASSUME ~meddled', ~crossed' PROVE ~meddled /\ ~crossed
  <2> USE <1>2 DEF Inv, TypeOK
  <2>1. ASSUME NEW s \in Scripts, NextCommand(s) PROVE ~meddled /\ ~crossed
    BY <2>1, Zenon DEF NextCommand, others
  <2>2. ASSUME NEW s \in Scripts, StartScript(s) \/ ScriptComplete(s) \/ Kill(s) PROVE meddled' = meddled
    BY <2>2, ScriptStep DEF others
  <2>3. ASSUME NEW s \in Scripts, CommandStep(s) PROVE meddled' = meddled
    BY <2>3, DiskStep DEF others
  <2>4. ASSUME NEW p \in Paths, Create(p) \/ Meddle(p) PROVE ~meddled
    BY <2>4 DEF Create, Meddle
  <2> QED
    BY <2>1, <2>2, <2>3, <2>4 DEF Next, vars, others
<1>3. ASSUME foreign' = 0 PROVE foreign = 0
  <2> USE <1>3 DEF Inv, TypeOK
  <2>1. ASSUME NEW s \in Scripts, StartScript(s) \/ NextCommand(s) \/ ScriptComplete(s) \/ Kill(s) PROVE foreign' = foreign
    BY <2>1, ScriptStep DEF others
  <2>2. ASSUME NEW s \in Scripts, CommandStep(s) PROVE foreign' = foreign
    BY <2>2, DiskStep DEF others
  <2>3. ASSUME NEW p \in Paths, Create(p) \/ Meddle(p) PROVE foreign' = foreign + 1
    BY <2>3 DEF Create, Meddle
  <2> QED
    BY <2>1, <2>2, <2>3 DEF Next, vars, others
<1>4. ~meddled' /\ ~crossed' => HomeInv' /\ ApartInv' /\ VacantInv' /\ KeepInv' /\ SafeInv'
  BY <1>2, HomeStep, ApartStep, VacantStep, KeepStep, SafeStep DEF Inv
<1>5. ~meddled' /\ ~crossed' /\ foreign' = 0 => FoundInv' /\ GroundedInv'
  BY <1>2, <1>3, FoundStep, GroundedStep DEF Inv
<1> QED
  BY <1>1, <1>4, <1>5 DEF Inv
-----------------------------------------------------------------------------
\* The invariant holds of every reachable state.
THEOREM DedupeInvariant == Spec => []Inv
<1>1. Init => Inv
  BY InitInv
<1>2. Inv /\ [Next]_vars => Inv'
  BY NextInv
<1> QED
  BY <1>1, <1>2, PTL DEF Spec

\* The content of a group is in some file at any time, for any number of scripts that run at once with any
\* kept files, as long as no other program touched a file of the group and no two commands ran at once for
\* one path: replaceStorageDuplicateWithSymlink never removes the last copy.
THEOREM CopyKept == Spec => []LastCopyKept
<1>1. Inv => LastCopyKept
  <2> SUFFICES ASSUME Inv, ~meddled, ~crossed PROVE \E f \in Existing : f.planned
    BY DEF LastCopyKept
  <2>1. PICK p \in Paths : Original(p) \in Present
    BY DEF Inv, SafeInv, Present
  <2>2. Original(p) \in Existing /\ Original(p).planned
    BY <2>1, Built DEF Existing, IsFile, Original
  <2> QED
    BY <2>2
<1> QED
  BY <1>1, DedupeInvariant, PTL

\* When no command runs and none was killed or asks for a recovery, every path of the group reads as the planned
\* content, whatever failed, provided no other program used the paths and no two commands ran at once for one:
\* no link dangles or runs in circles.
THEOREM PathsRead == Spec => []EveryPathReads
<1>1. Inv => EveryPathReads
  <2> SUFFICES ASSUME Inv, ~meddled, ~crossed, foreign = 0, NEW p \in Paths,
                      \A s \in Scripts : pc[s] \in {"new", "next", "complete", "failed"}
               PROVE  Hashes(p)
    BY DEF EveryPathReads
  <2>1. PICK q \in Followed(p) : Solid(q)
    BY DEF Inv, GroundedInv
  <2>2. q \in Paths /\ Original(q) # None /\ IsFile(Original(q))
    BY Apart, Built DEF Followed, IsFile
  <2>3. \A s \in Scripts : payload[s] = None
    BY DEF Inv, CommandInv
  <2>4. IsFile(at[q])
    BY <2>1, <2>2, <2>3 DEF Solid
  <2>5. Resolve(p) # None
    BY <2>4, Apart, Resolves
  <2>6. PICK x \in Paths : IsFile(at[x]) /\ Resolve(p) = at[x]
    BY <2>5, ResolveFinds
  <2>7. at[x] = Original(x)
    BY <2>6 DEF Inv, HomeInv, FileOf
  <2> QED
    BY <2>5, <2>6, <2>7 DEF Hashes, Original
<1> QED
  BY <1>1, DedupeInvariant, PTL

\* What a step of a command does to a file: it stays, or it was the verified duplicate, or it came to the
\* path after the last look.
LEMMA DestroyStep ==
    ASSUME TypeOK, CommandInv, NEW s \in Scripts, CommandStep(s), NEW f \in Existing, f \notin Existing'
    PROVE  \/ payload[s] = f /\ f.planned /\ Identity(f) = copyInfo[s]
           \/ at[target[s]] = f /\ f # seen[s]
<1> USE DEF TypeOK
<1>0. IsFile(f) /\ f # None /\ ~IsLink(f) /\ target[s] \in Paths
  BY Apart, DiskStep DEF Existing, IsFile, IsLink
<1>1. \A p \in Paths : at'[p] # f
  BY <1>0 DEF Existing, Present, IsFile
<1>2. \A t \in Scripts : payload'[t] # f
  BY <1>0 DEF Existing, Present, IsFile
<1>3. ASSUME NEW p \in Paths, at[p] = f PROVE p = target[s] /\ f # seen[s]
  <2>1. p = target[s]
    BY <1>1, <1>3, DiskStep DEF disk
  <2>2. pc[s] \in {"publish", "unlink", "putback"}
    BY <1>1, <1>2, <1>3, <2>1, DiskStep DEF disk
  <2> QED
    BY <1>0, <2>1, <2>2 DEF CommandInv, Verifying
<1>4. ASSUME NEW t \in Scripts, payload[t] = f PROVE t = s /\ f.planned /\ Identity(f) = copyInfo[s]
  <2>1. t = s
    BY <1>1, <1>2, <1>4, OwnStep
  <2>2. pc[s] # "isolate"
    BY <1>0, <1>4, <2>1 DEF CommandInv, Early
  <2>3. pc[s] = "remove"
    BY <1>0, <1>1, <1>2, <1>4, <2>1, <2>2, DiskStep DEF disk
  <2> QED
    BY <1>4, <2>1, <2>3 DEF CommandInv, Verifying
<1>5. (\E p \in Paths : at[p] = f) \/ (\E t \in Scripts : payload[t] = f)
  BY DEF Existing, Present
<1> QED
  BY <1>3, <1>4, <1>5

\* A command destroys only the duplicate it verified, or a file that came to its path after its last look: in
\* any run, whatever the other commands and other programs do and whichever system calls fail.
THEOREM DestroysCarefully == Spec => DestroysOnlyVerified
<1> DEFINE Careful == \A s \in Scripts : CommandStep(s) =>
        \A f \in Existing : (\A g \in Existing' : g.ino # f.ino) =>
            \/ payload[s] = f /\ f.planned /\ Identity(f) = copyInfo[s]
            \/ at[target[s]] = f /\ f # seen[s]
<1>1. Inv => Careful
  BY DestroyStep DEF Inv
<1>2. Inv /\ [Next]_vars => [Careful]_vars
  BY <1>1
<1> QED
  BY <1>2, DedupeInvariant, PTL DEF Spec, DestroysOnlyVerified
=============================================================================
