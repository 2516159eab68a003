---------------------------- MODULE RegistryFile ----------------------------
(***************************************************************************)
(* registry.json: which bot serves which project, and the ways it changes: *)
(* the wizards, which commit through installer/registry-commit.ts, and a   *)
(* human with an editor.  (registry/schema.ts, registry/invariants.ts,     *)
(* installer/wizards/*.ts, cli/project-sync-roster.ts)                     *)
(*                                                                         *)
(* Each wizard is a process of its own.  It reads the file when it asks    *)
(* its questions, reads it again when it commits, and then renames a new   *)
(* document into place inside a ledger transaction that appends its audit  *)
(* row.  The transaction excludes other commits, not other readings.       *)
(***************************************************************************)
EXTENDS Integers, FiniteSets

CONSTANTS
  Wizards,
  Projects, Bots, Groups,
  Jobs,        \* what a wizard may be run for: [kind, project, bot, group]
  FirstDocs,   \* the documents a machine may start with
  HandDocs,    \* what a human may leave in the file, Broken among them
  Broken,      \* any text the loader refuses, and a missing file
  None,
  MaxWrites    \* bound: changes of the file, but for what is put back

(* An active binding; rev stands for the roster agreed for the project.     *)
Binding == [project : Projects, bot : Bots, group : Groups, rev : Wizards \cup {None}]
Document == [bots : SUBSET Bots, groups : SUBSET Groups, bindings : SUBSET Binding]
Job == [kind : {"bot add", "group add", "bind", "sync"},
        project : Projects, bot : Bots, group : Groups]

(* Mutant: a bot may serve two projects. *)
ValidButShared(doc) ==
  \A b, c \in doc.bindings : b # c => b.project # c.project /\ b.group # c.group
(* R1 and R2: a bot, a group and a project are in one active binding each.  *)
Valid(doc) ==
  \A b, c \in doc.bindings :
    b # c => b.project # c.project /\ b.group # c.group /\ b.bot # c.bot

(* A text that breaks R1 or R2 is refused like any other.                   *)
ASSUME RegistryAssumption ==
  /\ MaxWrites \in Nat /\ Jobs \subseteq Job
  /\ None \notin Projects \cup Bots \cup Groups \cup Wizards
  /\ None \notin Binding /\ {None, Broken} \cap Document = {} /\ None # Broken
  /\ \A d \in FirstDocs \cup HandDocs : d = Broken \/ (d \in Document /\ Valid(d))

(* What the loader can make a document of: text without a token in it, of   *)
(* this version and this shape.                                             *)
Readable(doc) == doc # Broken

(* parseRegistryText *)
Usable(doc) == Readable(doc) /\ Valid(doc)

VARIABLES
  disk,     \* the file: [doc, stamp], the stamp for its time and size
  writes,   \* changes of the file so far
  tx,       \* the wizard in a ledger transaction
  wiz       \* per wizard: [at, job, seen]

Wizard(place, job, seen) == [at |-> place, job |-> job, seen |-> seen]

fileVars == <<disk, writes>>
registry == <<disk, writes, tx, wiz>>

Init ==
  /\ \E d \in FirstDocs : disk = [doc |-> d, stamp |-> 0]
  /\ writes = 0 /\ tx = None
  /\ wiz = [w \in Wizards |-> Wizard("idle", None, None)]

-----------------------------------------------------------------------------
(* Every write gives the file a new time. *)
Replace(doc) == writes' = writes + 1 /\ disk' = [doc |-> doc, stamp |-> writes + 1]
Write(doc) == writes < MaxWrites /\ Replace(doc)

At(w, place) == wiz[w].at = place
Step(w, place) == wiz' = [wiz EXCEPT ![w].at = place]
Exit(w) == wiz' = [wiz EXCEPT ![w] = Wizard("done", None, None)]

BindingsOf(doc, p) == {b \in doc.bindings : b.project = p}

(* What each wizard checks on its first reading.  Adding a bot asks Telegram, *)
(* not the file.                                                            *)
GroupIsFree(job, doc) ==
  Usable(doc) => \A b \in doc.bindings : b.group # job.group
MayBind(job, doc) ==
  /\ Usable(doc)
  /\ job.bot \in doc.bots /\ job.group \in doc.groups
  /\ BindingsOf(doc, job.project) = {}
  /\ \A b \in doc.bindings : b.bot # job.bot /\ b.group # job.group
HasDrifted(w, job, doc) ==
  Usable(doc) /\ \E b \in BindingsOf(doc, job.project) : b.rev # w

Acceptable(w, job, doc) ==
  \/ job.kind = "bot add"
  \/ job.kind = "group add" /\ GroupIsFree(job, doc)
  \/ job.kind = "bind" /\ MayBind(job, doc)
  \/ job.kind = "sync" /\ HasDrifted(w, job, doc)

(* What each wizard does to the document.                                   *)
BotAdded(job, doc) == [doc EXCEPT !.bots = @ \cup {job.bot}]
GroupAdded(job, doc) == [doc EXCEPT !.groups = @ \cup {job.group}]
ProjectBound(job, doc) ==
  [doc EXCEPT !.bindings = @ \cup
     {[project |-> job.project, bot |-> job.bot, group |-> job.group, rev |-> None]}]
RosterSynced(w, job, doc) ==
  [doc EXCEPT !.bindings = (@ \ BindingsOf(doc, job.project)) \cup
     {[b EXCEPT !.rev = w] : b \in BindingsOf(doc, job.project)}]

Mutated(w, job, doc) ==
  CASE job.kind = "bot add"   -> BotAdded(job, doc)
    [] job.kind = "group add" -> GroupAdded(job, doc)
    [] job.kind = "bind"      -> ProjectBound(job, doc)
    [] job.kind = "sync"      -> RosterSynced(w, job, doc)

(* The prompts: answered against what the file says now, or cancelled.      *)
AskWizard(w) ==
  /\ At(w, "idle")
  /\ \/ \E job \in Jobs : /\ Acceptable(w, job, disk.doc)
                           /\ wiz' = [wiz EXCEPT ![w] = Wizard("asked", job, None)]
     \/ Exit(w)
  /\ UNCHANGED <<fileVars, tx>>

(* commitRegistryChange reads and validates the current document, and       *)
(* validates the next one, before any transaction.                          *)
ReadCurrent(w) ==
  /\ At(w, "asked")
  /\ IF Usable(disk.doc) /\ Valid(Mutated(w, wiz[w].job, disk.doc))
     THEN wiz' = [wiz EXCEPT ![w].at = "computed", ![w].seen = disk.doc]
     ELSE Exit(w)
  /\ UNCHANGED <<fileVars, tx>>

(* BEGIN IMMEDIATE, the audit row, the temporary file and its rename.       *)
RenameInto(w) ==
  /\ At(w, "computed") /\ tx = None
  /\ Write(Mutated(w, wiz[w].job, wiz[w].seen))
  /\ tx' = w /\ Step(w, "renamed")

(* The ledger is busy, the disk is full, the rename is refused. *)
RenameFails(w) ==
  /\ At(w, "computed") /\ Exit(w)
  /\ UNCHANGED <<fileVars, tx>>

CommitAudit(w) ==
  /\ At(w, "renamed") /\ Exit(w)
  /\ tx' = None
  /\ UNCHANGED fileVars

(* The commit fails: the row is rolled back, and then the text that was     *)
(* read is written back in place, not renamed.                              *)
CommitAuditFails(w) ==
  /\ At(w, "renamed") /\ Step(w, "restoring")
  /\ tx' = None
  /\ UNCHANGED <<fileVars>>
Truncate(w) ==
  /\ At(w, "restoring") /\ Step(w, "truncated")
  /\ Write(Broken)
  /\ UNCHANGED <<tx>>
PutBack(w) ==
  /\ At(w, "truncated") /\ Exit(w)
  /\ Replace(wiz[w].seen)
  /\ UNCHANGED tx

(* The wizard is interrupted; an open transaction is rolled back. *)
WizardDies(w) ==
  /\ wiz[w].at \in {"renamed", "restoring", "truncated"} /\ Exit(w)
  /\ tx' = IF tx = w THEN None ELSE tx
  /\ UNCHANGED <<fileVars>>

HandEdit ==
  /\ \E d \in HandDocs \ {disk.doc} : Write(d)
  /\ UNCHANGED <<tx, wiz>>

RegistryNext ==
  \/ \E w \in Wizards :
       \/ AskWizard(w) \/ ReadCurrent(w) \/ RenameInto(w) \/ RenameFails(w)
       \/ CommitAudit(w) \/ CommitAuditFails(w) \/ Truncate(w) \/ PutBack(w)
       \/ WizardDies(w)
  \/ HandEdit

-----------------------------------------------------------------------------
RegistryTypeOK ==
  /\ disk \in [doc : Document \cup {Broken}, stamp : Nat]
  /\ writes \in Nat
  /\ tx \in Wizards \cup {None}
  /\ wiz \in [Wizards -> [at : {"idle", "asked", "computed", "renamed", "restoring",
                                "truncated", "done"},
                          job : Jobs \cup {None},
                          seen : Document \cup {Broken, None}]]
=============================================================================
