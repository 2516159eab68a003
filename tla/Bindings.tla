------------------------------ MODULE Bindings ------------------------------
(***************************************************************************)
(* How the daemon follows registry.json: the loader and its fingerprint    *)
(* (registry/loader.ts), the reconciler that starts and stops a poller per *)
(* active binding (daemon/bindings.ts), and the heartbeat and the stop     *)
(* that drive and end it (daemon/bootstrap.ts, daemon/lifecycle).          *)
(*                                                                         *)
(* A reconcile awaits between its steps: the file may change under it, a   *)
(* stop that is tired of waiting may overtake it, and building a transport *)
(* or a poller may throw (no token in the secret store).                   *)
(***************************************************************************)
EXTENDS RegistryFile

CONSTANT MaxStops    \* bound: stops of the daemon

ASSUME BindingsAssumption == MaxStops \in Nat

VARIABLES
  daemon,    \* "up", "draining" (stop waits for the tick), "stopped"
  good,      \* the loader's last good registry with its stamp, or None
  managed,   \* the reconciler's map: a binding per project, or None
  live,      \* the pollers that poll, as the bindings they poll for
  pc,        \* where the tick's reconcile is
  stamp,     \* the fingerprint it took
  target,    \* the registry it works towards, None outside a pass
  left,      \* the bindings it has still to visit
  at,        \* the binding it builds, or None
  faulted,   \* history: a build threw, or two pollers of a bot collided, since boot
  stops

reconcile == <<pc, stamp, target, left, at>>
vars == <<registry, daemon, good, managed, live, reconcile, faulted, stops>>

BindingsInit ==
  /\ Init
  /\ daemon = "up" /\ good = None
  /\ managed = [p \in Projects |-> None] /\ live = {}
  /\ pc = "idle" /\ stamp = 0 /\ target = None /\ left = {} /\ at = None
  /\ faulted = FALSE /\ stops = 0

-----------------------------------------------------------------------------
(* RegistryLoader.sync, and what reconcile makes of it. *)

(* The heartbeat's tick; no tick starts while one runs. *)
StatFile ==
  /\ daemon = "up" /\ pc = "idle"
  /\ pc' = "reading" /\ stamp' = disk.stamp
  /\ UNCHANGED <<registry, daemon, good, managed, live, target, left, at, faulted, stops>>

(* Mutant: a changed file is the same file. *)
EverLoaded == good # None
Unchanged == good # None /\ good.stamp = stamp

TowardsGood(doc) ==
  /\ pc' = "removing" /\ target' = doc /\ left' = doc.bindings

(* The fingerprint agrees: nothing to do, unless nothing is managed at all. *)
SyncUnchanged ==
  /\ pc = "reading" /\ Unchanged /\ stamp' = 0
  /\ IF \A p \in Projects : managed[p] = None
     THEN TowardsGood(good.doc)
     ELSE pc' = "idle" /\ UNCHANGED <<target, left>>
  /\ UNCHANGED <<registry, daemon, good, managed, live, at, faulted, stops>>

(* A file that cannot be used changes nothing. *)
SyncInvalid ==
  /\ pc = "reading" /\ ~Unchanged
  /\ ~Usable(disk.doc)
  /\ pc' = "idle" /\ stamp' = 0
  /\ UNCHANGED <<registry, daemon, good, managed, live, target, left, at, faulted, stops>>

SyncLoaded ==
  /\ pc = "reading" /\ ~Unchanged
  /\ Usable(disk.doc)
  /\ good' = [doc |-> disk.doc, stamp |-> stamp]
  /\ TowardsGood(disk.doc) /\ stamp' = 0
  /\ UNCHANGED <<registry, daemon, managed, live, at, faulted, stops>>

-----------------------------------------------------------------------------
(* BindingsReconciler.reconcile. *)

(* stopAll's latch and abort signal. *)
Stopping == daemon = "stopped"

PassEnds == pc' = "idle" /\ target' = None /\ left' = {} /\ at' = None

Surplus == {p \in Projects : managed[p] # None /\ \A b \in target.bindings : b.project # p}

RemoveBinding ==
  /\ pc = "removing"
  /\ \E p \in Surplus :
       /\ live' = live \ {managed[p]}
       /\ managed' = [managed EXCEPT ![p] = None]
  /\ UNCHANGED <<registry, daemon, good, reconcile, faulted, stops>>

NoneToRemove ==
  /\ pc = "removing" /\ Surplus = {} /\ pc' = "visiting"
  /\ UNCHANGED <<registry, daemon, good, managed, live, stamp, target, left, at, faulted, stops>>

(* Mutant: the poller of the old binding is left to itself. *)
LeftRunning(old) == UNCHANGED live
OldPollerStops(old) == live' = live \ {old}

(* areBindingsEquivalent: bot, group and roster. *)
VisitBinding ==
  /\ pc = "visiting" /\ ~Stopping
  /\ \E b \in left :
       /\ left' = left \ {b}
       /\ IF managed[b.project] = b
          THEN UNCHANGED <<pc, at, live>>
          ELSE /\ at' = b /\ pc' = "building"
               /\ IF managed[b.project] = None THEN UNCHANGED live
                  ELSE OldPollerStops(managed[b.project])
  /\ UNCHANGED <<registry, daemon, good, managed, stamp, target, faulted, stops>>

PassDone ==
  /\ pc = "visiting" /\ (left = {} \/ Stopping)
  /\ PassEnds
  /\ UNCHANGED <<registry, daemon, good, managed, live, stamp, faulted, stops>>

(* buildTransport and createPoller ask the secret store for the token; what *)
(* it throws ends the pass.                                                 *)
BuildThrows ==
  /\ pc \in {"building", "polling"}
  /\ PassEnds /\ faulted' = TRUE
  /\ UNCHANGED <<registry, daemon, good, managed, live, stamp, stops>>

TransportBuilt ==
  /\ pc = "building"
  /\ IF Stopping THEN pc' = "visiting" /\ at' = None ELSE pc' = "polling" /\ at' = at
  /\ UNCHANGED <<registry, daemon, good, managed, live, stamp, target, left, faulted, stops>>

(* startPoller does nothing under a signal that is aborted. *)
Started == IF Stopping THEN {} ELSE {at}

StartPoller ==
  /\ pc = "polling" /\ pc' = "started"
  /\ live' = live \cup Started
  /\ UNCHANGED <<registry, daemon, good, managed, stamp, target, left, at, faulted, stops>>

AdoptPoller ==
  /\ pc = "started" /\ pc' = "visiting" /\ at' = None
  /\ IF Stopping
     THEN live' = live \ {at} /\ UNCHANGED managed
     ELSE managed' = [managed EXCEPT ![at.project] = at] /\ UNCHANGED live
  /\ UNCHANGED <<registry, daemon, good, stamp, target, left, faulted, stops>>

(* Telegram refuses the second of two polls of one bot: 409, and the loop   *)
(* that hears it ends for good.  Its binding stays managed.                 *)
Collide ==
  /\ \E b, c \in live : b # c /\ b.bot = c.bot /\ live' = live \ {b}
  /\ faulted' = TRUE
  /\ UNCHANGED <<registry, daemon, good, managed, reconcile, stops>>

-----------------------------------------------------------------------------
(* The end of the daemon. *)

(* A signal, or the idle check at the end of a tick.  The heartbeat ends.   *)
RequestStop ==
  /\ daemon = "up" /\ stops < MaxStops /\ stops' = stops + 1
  /\ daemon' = "draining"
  /\ UNCHANGED <<registry, good, managed, live, reconcile, faulted>>

(* The tick in flight has ended, or STOP_TICK_TIMEOUT_MS has. *)
StopAll ==
  /\ daemon = "draining" /\ daemon' = "stopped"
  /\ live' = live \ {managed[p] : p \in Projects}
  /\ managed' = [p \in Projects |-> None]
  /\ UNCHANGED <<registry, good, reconcile, faulted, stops>>

(* Another daemon is started when the process has ended. *)
Boot ==
  /\ daemon = "stopped" /\ pc = "idle" /\ daemon' = "up"
  /\ good' = None /\ faulted' = FALSE
  /\ UNCHANGED <<registry, managed, live, reconcile, stops>>

Daemon ==
  \/ StatFile \/ SyncUnchanged \/ SyncInvalid \/ SyncLoaded
  \/ RemoveBinding \/ NoneToRemove \/ VisitBinding \/ PassDone
  \/ BuildThrows \/ TransportBuilt \/ StartPoller \/ AdoptPoller
  \/ Collide \/ RequestStop \/ StopAll \/ Boot

Next ==
  \/ RegistryNext /\ UNCHANGED <<daemon, good, managed, live, reconcile, faulted, stops>>
  \/ Daemon

(* The heartbeat beats and a reconcile goes on; a token that is missing may *)
(* be put there, so a build that is tried for ever succeeds.                *)
Fairness ==
  /\ WF_vars(StatFile) /\ WF_vars(SyncUnchanged) /\ WF_vars(SyncInvalid) /\ WF_vars(SyncLoaded)
  /\ WF_vars(RemoveBinding) /\ WF_vars(NoneToRemove) /\ WF_vars(VisitBinding) /\ WF_vars(PassDone)
  /\ SF_vars(TransportBuilt) /\ SF_vars(StartPoller) /\ WF_vars(AdoptPoller)

Spec == BindingsInit /\ [][Next]_vars
FairSpec == Spec /\ Fairness

-----------------------------------------------------------------------------
DaemonTypeOK ==
  /\ daemon \in {"up", "draining", "stopped"} /\ stops \in 0..MaxStops
  /\ good \in [doc : Document, stamp : Nat] \cup {None}
  /\ managed \in [Projects -> Binding \cup {None}]
  /\ live \subseteq Binding /\ left \subseteq Binding
  /\ pc \in {"idle", "reading", "removing", "visiting", "building", "polling", "started"}
  /\ stamp \in Nat
  /\ target \in Document \cup {None} /\ (target # None <=> pc \notin {"idle", "reading"})
  /\ at \in Binding \cup {None} /\ (at # None <=> pc \in {"building", "polling", "started"})
  /\ faulted \in BOOLEAN

TypeOK == RegistryTypeOK /\ DaemonTypeOK

(* The wizards race with each other and with an editor, each from a reading *)
(* that may be old, and what is on disk binds no bot, group or project twice. *)
WizardsKeepItValid ==
  disk.doc # Broken =>
    \A b, c \in disk.doc.bindings :
      b.bot = c.bot \/ b.group = c.group \/ b.project = c.project => b = c

(* Every poller that polls is the one of its managed binding, or is about   *)
(* to be adopted: no edit, fault or shutdown leaves one behind, and a       *)
(* project never has two.                                                   *)
PollersAreManaged ==
  \A b \in live : managed[b.project] = b \/ (pc = "started" /\ at = b)

Bound == IF Usable(disk.doc) THEN disk.doc.bindings ELSE {}
Served == live = Bound /\ {managed[p] : p \in Projects} \ {None} = Bound

(* A registry that is left alone reaches the pollers, whatever was read     *)
(* halfway and however often it was broken in between, unless a build threw *)
(* or pollers collided.                                                     *)
EditsAreServed ==
  <>[](daemon = "up" /\ Usable(disk.doc)) => <>[](faulted \/ Served)
=============================================================================
