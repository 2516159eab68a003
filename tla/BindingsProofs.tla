--------------------------- MODULE BindingsProofs ---------------------------
(***************************************************************************)
(* Theorems about RegistryFile and Bindings, for any number of wizards,    *)
(* projects, bots and groups.                                              *)
(***************************************************************************)
EXTENDS Bindings, TLAPS

\* A wizard past its reading holds a valid document to write, or to put back.
WizardsAreReady ==
  \A w \in Wizards :
    /\ wiz[w].at \notin {"idle", "done"} => wiz[w].job \in Jobs
    /\ wiz[w].at \in {"computed", "renamed", "restoring", "truncated"} =>
         wiz[w].seen \in Document /\ Valid(wiz[w].seen)
    /\ wiz[w].at = "computed" => Valid(Mutated(w, wiz[w].job, wiz[w].seen))

DiskIsValid == Usable(disk.doc) \/ disk.doc = Broken

FileInv == RegistryTypeOK /\ WizardsAreReady /\ DiskIsValid

\* What a wizard makes of a document is one.
LEMMA MutatedType ==
  ASSUME NEW w \in Wizards, NEW job \in Jobs, NEW doc \in Document
  PROVE  Mutated(w, job, doc) \in Document
<1>1. job \in Job
  BY RegistryAssumption
<1>2. /\ doc.bots \subseteq Bots /\ doc.groups \subseteq Groups
      /\ doc.bindings \subseteq Binding
  BY DEF Document
<1>3. BotAdded(job, doc) \in Document
  BY <1>1 DEF Document, Job, BotAdded
<1>4. GroupAdded(job, doc) \in Document
  BY <1>1 DEF Document, Job, GroupAdded
<1>5. ProjectBound(job, doc) \in Document
  <2>1. [project |-> job.project, bot |-> job.bot, group |-> job.group, rev |-> None] \in Binding
    BY <1>1 DEF Job, Binding
  <2> QED
    BY <2>1 DEF Document, ProjectBound
<1>6. RosterSynced(w, job, doc) \in Document
  <2>1. \A b \in BindingsOf(doc, job.project) : [b EXCEPT !.rev = w] \in Binding
    BY <1>2 DEF BindingsOf, Binding
  <2>2. (doc.bindings \ BindingsOf(doc, job.project)) \cup
          {[b EXCEPT !.rev = w] : b \in BindingsOf(doc, job.project)} \subseteq Binding
    BY <1>2, <2>1
  <2> QED
    BY <2>2 DEF Document, RosterSynced
<1> QED
  BY <1>1, <1>3, <1>4, <1>5, <1>6 DEF Mutated, Job

LEMMA InitFileInv == Init => FileInv
<1> SUFFICES ASSUME Init PROVE FileInv
  OBVIOUS
<1>1. PICK d \in FirstDocs : disk = [doc |-> d, stamp |-> 0]
  BY DEF Init
<1>2. d = Broken \/ (d \in Document /\ Valid(d))
  BY RegistryAssumption
<1>3. RegistryTypeOK
  BY <1>1, <1>2 DEF Init, RegistryTypeOK, Wizard
<1>4. WizardsAreReady
  BY DEF Init, WizardsAreReady, Wizard
<1>5. DiskIsValid
  BY <1>1, <1>2, RegistryAssumption DEF DiskIsValid, Usable, Readable
<1> QED
  BY <1>3, <1>4, <1>5 DEF FileInv

\* A wizard that leaves forgets what it was about.
LEMMA ExitKeeps ==
  ASSUME FileInv, NEW w \in Wizards, Exit(w)
  PROVE  /\ wiz' \in [Wizards -> [at : {"idle", "asked", "computed", "renamed", "restoring",
                                        "truncated", "done"},
                                  job : Jobs \cup {None},
                                  seen : Document \cup {Broken, None}]]
         /\ WizardsAreReady'
<1>1. \A v \in Wizards : wiz'[v] = IF v = w THEN Wizard("done", None, None) ELSE wiz[v]
  BY DEF Exit, FileInv, RegistryTypeOK
<1> QED
  BY <1>1 DEF Exit, FileInv, RegistryTypeOK, WizardsAreReady, Wizard

\* A step of a wizard that writes what it had ready and goes to where it is
\* still ready.
LEMMA StepKeeps ==
  ASSUME FileInv, NEW w \in Wizards, NEW place \in {"renamed", "restoring", "truncated"},
         wiz[w].at \in {"computed", "renamed", "restoring"}, Step(w, place)
  PROVE  /\ wiz' \in [Wizards -> [at : {"idle", "asked", "computed", "renamed", "restoring",
                                        "truncated", "done"},
                                  job : Jobs \cup {None},
                                  seen : Document \cup {Broken, None}]]
         /\ WizardsAreReady'
<1>1. /\ wiz'[w].at = place /\ wiz'[w].job = wiz[w].job /\ wiz'[w].seen = wiz[w].seen
      /\ \A v \in Wizards : v # w => wiz'[v] = wiz[v]
  BY DEF Step, FileInv, RegistryTypeOK
<1>2. wiz' \in [Wizards -> [at : {"idle", "asked", "computed", "renamed", "restoring",
                                        "truncated", "done"},
                                  job : Jobs \cup {None},
                                  seen : Document \cup {Broken, None}]]
  BY DEF Step, FileInv, RegistryTypeOK
<1>3. WizardsAreReady'
  BY <1>1 DEF FileInv, WizardsAreReady
<1> QED
  BY <1>2, <1>3

\* Any of the documents that may be written keeps the file in order.
LEMMA ReplaceKeeps ==
  ASSUME FileInv, NEW doc \in Document \cup {Broken}, doc = Broken \/ Valid(doc), Replace(doc)
  PROVE  /\ disk' \in [doc : Document \cup {Broken}, stamp : Nat]
         /\ writes' \in Nat
         /\ DiskIsValid'
<1>1. writes \in Nat
  BY DEF FileInv, RegistryTypeOK
<1>2. disk'.doc = doc
  BY DEF Replace
<1> QED
  BY <1>1, <1>2 DEF Replace, DiskIsValid, Usable, Readable

LEMMA RegistryNextKeeps ==
  ASSUME FileInv, RegistryNext
  PROVE  FileInv'
<1> USE DEF fileVars
<1>1. ASSUME NEW w \in Wizards, AskWizard(w) PROVE FileInv'
  <2>1. CASE Exit(w)
    BY <1>1, <2>1, ExitKeeps DEF AskWizard, FileInv, RegistryTypeOK, DiskIsValid
  <2>2. ASSUME NEW job \in Jobs, wiz' = [wiz EXCEPT ![w] = Wizard("asked", job, None)]
        PROVE  FileInv'
    <3>1. \A v \in Wizards : wiz'[v] = IF v = w THEN Wizard("asked", job, None) ELSE wiz[v]
      BY <2>2 DEF FileInv, RegistryTypeOK
    <3>2. WizardsAreReady'
      BY <3>1 DEF FileInv, WizardsAreReady, Wizard
    <3> QED
      BY <1>1, <2>2, <3>2 DEF AskWizard, FileInv, RegistryTypeOK, DiskIsValid, Wizard
  <2> QED
    BY <1>1, <2>1, <2>2 DEF AskWizard
<1>2. ASSUME NEW w \in Wizards, ReadCurrent(w) PROVE FileInv'
  <2>1. CASE Exit(w)
    BY <1>2, <2>1, ExitKeeps DEF ReadCurrent, FileInv, RegistryTypeOK, DiskIsValid
  <2>2. CASE /\ Usable(disk.doc) /\ Valid(Mutated(w, wiz[w].job, disk.doc))
             /\ wiz' = [wiz EXCEPT ![w].at = "computed", ![w].seen = disk.doc]
    <3>1. disk.doc \in Document /\ Valid(disk.doc)
      BY <2>2 DEF FileInv, RegistryTypeOK, Usable, Readable
    <3>2. /\ wiz'[w].at = "computed" /\ wiz'[w].job = wiz[w].job /\ wiz'[w].seen = disk.doc
          /\ \A v \in Wizards : v # w => wiz'[v] = wiz[v]
      BY <2>2 DEF FileInv, RegistryTypeOK
    <3>3. wiz[w].job \in Jobs
      BY <1>2 DEF ReadCurrent, At, FileInv, WizardsAreReady
    <3>4. WizardsAreReady'
      BY <2>2, <3>1, <3>2, <3>3 DEF FileInv, WizardsAreReady
    <3> QED
      BY <1>2, <2>2, <3>1, <3>4 DEF ReadCurrent, FileInv, RegistryTypeOK, DiskIsValid
  <2> QED
    BY <1>2, <2>1, <2>2 DEF ReadCurrent
<1>3. ASSUME NEW w \in Wizards, RenameInto(w) PROVE FileInv'
  <2>1. wiz[w].job \in Jobs /\ wiz[w].seen \in Document /\ Valid(Mutated(w, wiz[w].job, wiz[w].seen))
    BY <1>3 DEF RenameInto, At, FileInv, WizardsAreReady
  <2>2. Mutated(w, wiz[w].job, wiz[w].seen) \in Document
    BY <2>1, MutatedType
  <2>3. Replace(Mutated(w, wiz[w].job, wiz[w].seen)) /\ tx' = w /\ Step(w, "renamed")
    BY <1>3 DEF RenameInto, Write
  <2> QED
    BY <1>3, <2>1, <2>2, <2>3, ReplaceKeeps, StepKeeps DEF RenameInto, At, FileInv, RegistryTypeOK
<1>4. ASSUME NEW w \in Wizards, RenameFails(w) PROVE FileInv'
  BY <1>4, ExitKeeps DEF RenameFails, FileInv, RegistryTypeOK, DiskIsValid
<1>5. ASSUME NEW w \in Wizards, CommitAudit(w) PROVE FileInv'
  BY <1>5, ExitKeeps DEF CommitAudit, FileInv, RegistryTypeOK, DiskIsValid
<1>6. ASSUME NEW w \in Wizards, CommitAuditFails(w) PROVE FileInv'
  BY <1>6, StepKeeps DEF CommitAuditFails, At, FileInv, RegistryTypeOK, DiskIsValid
<1>7. ASSUME NEW w \in Wizards, Truncate(w) PROVE FileInv'
  BY <1>7, StepKeeps, ReplaceKeeps DEF Truncate, At, Write, FileInv, RegistryTypeOK
<1>8. ASSUME NEW w \in Wizards, PutBack(w) PROVE FileInv'
  <2>1. wiz[w].seen \in Document /\ Valid(wiz[w].seen)
    BY <1>8 DEF PutBack, At, FileInv, WizardsAreReady
  <2> QED
    BY <1>8, <2>1, ExitKeeps, ReplaceKeeps DEF PutBack, FileInv, RegistryTypeOK
<1>9. ASSUME NEW w \in Wizards, WizardDies(w) PROVE FileInv'
  BY <1>9, ExitKeeps DEF WizardDies, FileInv, RegistryTypeOK, DiskIsValid
<1>10. ASSUME HandEdit PROVE FileInv'
  <2>1. PICK d \in HandDocs : Replace(d)
    BY <1>10 DEF HandEdit, Write
  <2>2. d = Broken \/ (d \in Document /\ Valid(d))
    BY RegistryAssumption
  <2> QED
    BY <1>10, <2>1, <2>2, ReplaceKeeps DEF HandEdit, FileInv, RegistryTypeOK, WizardsAreReady
<1> QED
  BY <1>1, <1>2, <1>3, <1>4, <1>5, <1>6, <1>7, <1>8, <1>9, <1>10 DEF RegistryNext


-----------------------------------------------------------------------------
(* The daemon beside the file.                                             *)

\* Of the project that is being built no other poller polls.
OthersAreStopped ==
  pc \in {"building", "polling", "started"} =>
    \A b \in live : b.project = at.project => pc = "started" /\ b = at

BindingsInv == FileInv /\ DaemonTypeOK /\ PollersAreManaged /\ OthersAreStopped

LEMMA InitBindingsInv == BindingsInit => BindingsInv
<1> SUFFICES ASSUME BindingsInit PROVE BindingsInv
  OBVIOUS
<1>1. FileInv
  BY InitFileInv DEF BindingsInit
<1>2. DaemonTypeOK
  <2>1. faulted \in BOOLEAN
    BY DEF BindingsInit
  <2>2. stops \in 0..MaxStops
    BY BindingsAssumption DEF BindingsInit
  <2>3. managed \in [Projects -> Binding \cup {None}]
    BY DEF BindingsInit
  <2> QED
    BY <2>1, <2>2, <2>3 DEF BindingsInit, DaemonTypeOK
<1>3. PollersAreManaged /\ OthersAreStopped
  BY DEF BindingsInit, PollersAreManaged, OthersAreStopped
<1> QED
  BY <1>1, <1>2, <1>3 DEF BindingsInv

LEMMA FileUnchanged ==
  ASSUME FileInv, UNCHANGED registry
  PROVE  FileInv'
<1>1. RegistryTypeOK' /\ DiskIsValid'
  BY DEF registry, FileInv, RegistryTypeOK, DiskIsValid
<1>2. WizardsAreReady'
  BY DEF registry, FileInv, WizardsAreReady
<1> QED
  BY <1>1, <1>2 DEF FileInv

\* The file is a matter of its own.
LEMMA DaemonLeavesFile ==
  ASSUME Daemon
  PROVE  UNCHANGED registry
  BY DEF Daemon, StatFile, SyncUnchanged, SyncInvalid, SyncLoaded, RemoveBinding, NoneToRemove,
         VisitBinding, PassDone, BuildThrows, TransportBuilt, StartPoller, AdoptPoller, Collide,
         RequestStop, StopAll, Boot

LEMMA DaemonKeepsTypes ==
  ASSUME BindingsInv, Daemon
  PROVE  DaemonTypeOK'
<1> USE DEF BindingsInv, DaemonTypeOK, reconcile
<1>1. disk.stamp \in Nat /\ (Usable(disk.doc) => disk.doc \in Document) /\ None \notin Document
  BY RegistryAssumption DEF FileInv, RegistryTypeOK, Usable, Readable
<1>2. \A doc \in Document : doc.bindings \subseteq Binding /\ doc # None
  BY <1>1 DEF Document
<1>3. CASE StatFile
  BY <1>1, <1>3 DEF StatFile
<1>4. CASE SyncUnchanged
  BY <1>2, <1>4 DEF SyncUnchanged, TowardsGood, Unchanged
<1>5. CASE SyncInvalid
  BY <1>5 DEF SyncInvalid
<1>6. CASE SyncLoaded
  BY <1>1, <1>2, <1>6 DEF SyncLoaded, TowardsGood
<1>7. CASE RemoveBinding
  BY <1>7 DEF RemoveBinding
<1>8. CASE NoneToRemove
  BY <1>8 DEF NoneToRemove
<1>9. CASE VisitBinding
  BY <1>9, RegistryAssumption DEF VisitBinding, OldPollerStops
<1>10. CASE PassDone
  BY <1>10 DEF PassDone, PassEnds
<1>11. CASE BuildThrows
  BY <1>11 DEF BuildThrows, PassEnds
<1>12. CASE TransportBuilt
  BY <1>12 DEF TransportBuilt
<1>13. CASE StartPoller
  BY <1>13 DEF StartPoller, Started
<1>14. CASE AdoptPoller
  BY <1>14 DEF AdoptPoller
<1>15. CASE Collide
  BY <1>15 DEF Collide
<1>16. CASE RequestStop
  BY <1>16, BindingsAssumption DEF RequestStop
<1>17. CASE StopAll
  BY <1>17 DEF StopAll
<1>18. CASE Boot
  BY <1>18 DEF Boot
<1> QED
  BY <1>3, <1>4, <1>5, <1>6, <1>7, <1>8, <1>9, <1>10, <1>11, <1>12, <1>13, <1>14, <1>15, <1>16,
     <1>17, <1>18 DEF Daemon

\* Where a poller is stopped, started or adopted, it is the right one.
LEMMA DaemonKeepsPollers ==
  ASSUME BindingsInv, Daemon
  PROVE  PollersAreManaged' /\ OthersAreStopped'
<1> USE DEF BindingsInv, DaemonTypeOK, PollersAreManaged, OthersAreStopped, reconcile
<1>1. CASE StatFile \/ SyncUnchanged \/ SyncInvalid \/ SyncLoaded \/ NoneToRemove
  BY <1>1 DEF StatFile, SyncUnchanged, SyncInvalid, SyncLoaded, TowardsGood, NoneToRemove
<1>2. CASE RemoveBinding
  <2>1. PICK p \in Surplus : /\ live' = live \ {managed[p]}
                             /\ managed' = [managed EXCEPT ![p] = None]
    BY <1>2 DEF RemoveBinding
  <2>2. \A b \in live' : managed[b.project] = b /\ b.project \in Projects
    BY <1>2, <2>1 DEF RemoveBinding, Binding
  <2>3. \A b \in live' : b.project # p
    BY <2>1, <2>2
  <2> QED
    BY <1>2, <2>1, <2>2, <2>3 DEF RemoveBinding
<1>3. CASE VisitBinding
  <2>1. PICK b \in left :
          IF managed[b.project] = b
          THEN UNCHANGED <<pc, at, live>>
          ELSE /\ at' = b /\ pc' = "building"
               /\ IF managed[b.project] = None THEN UNCHANGED live
                  ELSE OldPollerStops(managed[b.project])
    BY <1>3 DEF VisitBinding
  <2>2. managed' = managed /\ pc = "visiting" /\ \A a \in live : managed[a.project] = a /\ a # None
    BY <1>3, RegistryAssumption DEF VisitBinding
  <2>3. CASE managed[b.project] = b
    BY <2>1, <2>2, <2>3
  <2>4. CASE managed[b.project] # b
    <3>1. live' \subseteq live /\ \A a \in live' : a # managed[b.project]
      BY <2>1, <2>2, <2>4 DEF OldPollerStops
    <3>2. \A a \in live' : a.project # b.project
      BY <2>2, <3>1
    <3> QED
      BY <2>1, <2>2, <2>4, <3>1, <3>2
  <2> QED
    BY <2>3, <2>4
<1>4. CASE PassDone \/ BuildThrows \/ TransportBuilt
  BY <1>4 DEF PassDone, BuildThrows, PassEnds, TransportBuilt
<1>5. CASE StartPoller
  BY <1>5 DEF StartPoller, Started
<1>6. CASE AdoptPoller
  <2>1. at \in Binding /\ at.project \in Projects
    BY <1>6 DEF AdoptPoller, Binding
  <2>2. CASE Stopping
    BY <1>6, <2>1, <2>2 DEF AdoptPoller
  <2>3. CASE ~Stopping
    <3>1. managed' = [managed EXCEPT ![at.project] = at] /\ live' = live
      BY <1>6, <2>3 DEF AdoptPoller
    <3>2. \A b \in live : b.project \in Projects
      BY DEF Binding
    <3>3. \A b \in live : b.project # at.project => managed'[b.project] = b
      BY <1>6, <3>1, <3>2
    <3>4. \A b \in live : b.project = at.project => managed'[b.project] = b
      BY <1>6, <2>1, <3>1 DEF AdoptPoller
    <3> QED
      BY <1>6, <3>1, <3>3, <3>4 DEF AdoptPoller
  <2> QED
    BY <2>2, <2>3
<1>7. CASE Collide \/ RequestStop \/ Boot
  BY <1>7 DEF Collide, RequestStop, Boot
<1>8. CASE StopAll
  <2>1. \A b \in live : b.project \in Projects
    BY DEF Binding
  <2>2. \A b \in live' : b \in live /\ managed[b.project] # b
    BY <1>8, <2>1 DEF StopAll
  <2> QED
    BY <1>8, <2>2 DEF StopAll
<1> QED
  BY <1>1, <1>2, <1>3, <1>4, <1>5, <1>6, <1>7, <1>8 DEF Daemon

LEMMA NextBindingsInv ==
  ASSUME BindingsInv, [Next]_vars
  PROVE  BindingsInv'
<1>1. CASE RegistryNext /\ UNCHANGED <<daemon, good, managed, live, reconcile, faulted, stops>>
  <2>1. FileInv'
    BY <1>1, RegistryNextKeeps DEF BindingsInv
  <2>2. DaemonTypeOK' /\ PollersAreManaged' /\ OthersAreStopped'
    BY <1>1 DEF BindingsInv, DaemonTypeOK, PollersAreManaged, OthersAreStopped, reconcile
  <2> QED
    BY <2>1, <2>2 DEF BindingsInv
<1>2. CASE Daemon
  BY <1>2, DaemonLeavesFile, FileUnchanged, DaemonKeepsTypes, DaemonKeepsPollers DEF BindingsInv
<1>3. CASE UNCHANGED vars
  <2>1. FileInv'
    BY <1>3, FileUnchanged DEF BindingsInv, vars
  <2>2. DaemonTypeOK' /\ PollersAreManaged' /\ OthersAreStopped'
    BY <1>3 DEF BindingsInv, DaemonTypeOK, PollersAreManaged, OthersAreStopped, reconcile, vars
  <2> QED
    BY <2>1, <2>2 DEF BindingsInv
<1> QED
  BY <1>1, <1>2, <1>3 DEF Next

LEMMA AlwaysBindingsInv == Spec => []BindingsInv
  BY InitBindingsInv, NextBindingsInv, PTL DEF Spec

\* The registry, the wizards, the loader and the reconciler keep their types.
THEOREM BindingsTypeCorrect == Spec => []TypeOK
<1>1. BindingsInv => TypeOK
  BY DEF BindingsInv, FileInv, DaemonTypeOK, TypeOK
<1> QED
  BY <1>1, AlwaysBindingsInv, PTL

\* A bot, a group and a project are in one binding of the file at most, for
\* any number of wizards and editors, each from a reading that may be old.
THEOREM RegistryStaysValid == Spec => []WizardsKeepItValid
<1>1. BindingsInv => WizardsKeepItValid
  BY DEF BindingsInv, FileInv, DiskIsValid, Usable, Valid, WizardsKeepItValid
<1> QED
  BY <1>1, AlwaysBindingsInv, PTL

\* No edit, fault or shutdown leaves a poller to itself, for any number of
\* projects and in any order of the reconciler's awaits.
THEOREM NoPollerIsLeftBehind == Spec => []PollersAreManaged
  BY AlwaysBindingsInv, PTL DEF BindingsInv
=============================================================================
