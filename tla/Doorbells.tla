----------------------------- MODULE Doorbells -----------------------------
(***************************************************************************)
(* The satellites that watch the inbox for an agent that is not looking:   *)
(* the channel, which rings a host (channel/doorbell-loop.ts), and the     *)
(* wake runner, which starts a turn of a harness (runner/loop.ts,          *)
(* runner/watermark.ts), both over the link of channel/daemon-link.ts and  *)
(* the routes of daemon/serve/doorbell.ts.                                 *)
(*                                                                         *)
(* A tick reads a summary of what is past the watermark, tells somebody,   *)
(* commits the position to the daemon and moves the watermark.  Every call *)
(* of the link may fail, with or without effect, and the next one may be   *)
(* under a new session whose cursor starts over; the process may be        *)
(* restarted; another project's runner rewrites the shared watermark file. *)
(***************************************************************************)
EXTENDS Integers, FiniteSets, Sequences

CONSTANTS
  Wire,         \* what a stored row says: [verified, direct, broadcast, ours]
  Depth,        \* DOORBELL_SCAN_DEPTH
  Levels,       \* LADDER_LEVELS, and "refused": a wake record with a harness that has
                \* no profile, or with arguments resolveHarnessSpec refuses
  Cooldown,     \* WAKE_COOLDOWN_MS, in ticks
  Window,       \* WAKE_BUDGET_WINDOW_MS, in ticks
  Budget,       \* WAKE_BUDGET_PER_WINDOW
  None,
  MaxRows,      \* bound: rows stored
  MaxRestarts,  \* bound: restarts of the satellite
  MaxChanges    \* bound: changes of the ladder

ASSUME DoorbellsAssumption ==
  /\ Wire \subseteq [verified : BOOLEAN, direct : BOOLEAN, broadcast : BOOLEAN, ours : BOOLEAN]
  /\ Depth \in Nat \ {0} /\ Budget \in Nat \ {0}
  /\ Cooldown \in Nat /\ Window \in Nat \ {0}
  /\ MaxRows \in Nat /\ MaxRestarts \in Nat /\ MaxChanges \in Nat
  /\ None \notin Nat \cup Wire
  /\ Levels \subseteq {"off", "notify", "wake", "autopilot", "refused"}

VARIABLES
  role,        \* "channel" or "runner"
  row,         \* the updates of the project, by seq
  old,         \* the rows up to here are older than SESSION_CATCHUP_HOURS
  cursor,      \* client_cursors of the link's session, None for a new session
  pc,
  watermark,   \* in memory, None before the first read
  through,     \* covered_through_seq of the summary at hand
  file,        \* the project's entry in runner/watermark.json
  neighbour,   \* what another project's runner holds of that entry, if it does
  ladder,
  wakes,       \* ages of the turns that ended, oldest first
  restarts, changes,
  told,        \* history: rows the host or the agent was told of
  skipped,     \* history: rows before the daemon's catch-up window
  starts       \* history: ages of the turns this process started

log == <<row, old>>
satellite == <<pc, watermark, through, wakes>>
bounds == <<role, ladder, restarts, changes>>
history == <<told, skipped, starts>>
vars == <<log, cursor, satellite, file, neighbour, bounds, history>>

Last == Len(row)
MaxOf(a, b) == IF a > b THEN a ELSE b

Init ==
  /\ role \in {"channel", "runner"}
  /\ row = <<>> /\ old = 0
  /\ cursor = None
  /\ pc = "idle" /\ watermark = None /\ through = 0 /\ wakes = <<>>
  /\ file = None /\ neighbour = {}
  /\ ladder \in Levels
  /\ restarts = 0 /\ changes = 0
  /\ told = {} /\ skipped = {} /\ starts = <<>>

-----------------------------------------------------------------------------
(* The inbox and the operator. *)

Arrive ==
  /\ Last < MaxRows
  /\ \E m \in Wire : row' = Append(row, m)
  /\ UNCHANGED <<old, cursor, satellite, file, neighbour, bounds, history>>

Age ==
  /\ old < Last /\ old' = old + 1
  /\ UNCHANGED <<row, cursor, satellite, file, neighbour, bounds, history>>

SetLevel ==
  /\ role = "runner" /\ changes < MaxChanges
  /\ ladder' \in Levels \ {ladder}
  /\ changes' = changes + 1
  /\ UNCHANGED <<log, cursor, satellite, file, neighbour, role, restarts, history>>

-----------------------------------------------------------------------------
(* The daemon's side. *)

(* The gate of a row: a sender the roster still knows, and a message that   *)
(* is direct, a broadcast, or addressed to this agent.                      *)
CallsUs(s) == row[s].verified /\ (row[s].direct \/ row[s].broadcast \/ row[s].ours)

(* Mutant: the row that only proves that there are more counts as examined. *)
WithTheProbe(after) == {s \in 1..Last : after < s /\ s <= after + Depth + 1}
Examined(after) == {s \in 1..Last : after < s /\ s <= after + Depth}
Rung(after) == {s \in 1..Last : after < s /\ s <= after + Depth /\ CallsUs(s)}
(* The calls of the summary at hand; more rows may have come since. *)
AtHand == {s \in Rung(watermark) : s <= through}

(* ensureClientCursor and commitClientCursor. *)
Ensured == IF cursor = None THEN old ELSE cursor
CommittedAt(seq) == MaxOf(Ensured, seq)

-----------------------------------------------------------------------------
(* One tick of the satellite. *)

(* writeWatermark never lowers the entry it reads; a write may fail. *)
Persist(seq) ==
  file' \in {file} \cup {IF file = None THEN seq ELSE MaxOf(file, seq) :
                           r \in {role} \cap {"runner"}}

Armed == role = "channel" \/ ladder # "off"

(* The watermark in memory, the runner's own file, or else the daemon. *)
Look ==
  LET known == IF watermark = None /\ role = "runner" THEN file ELSE watermark
  IN /\ pc = "idle" /\ Armed
     /\ watermark' = known
     /\ pc' = IF known = None THEN "seeding" ELSE "reading"
     /\ UNCHANGED <<log, cursor, through, wakes, file, neighbour, bounds, history>>

Seed ==
  /\ pc = "seeding"
  /\ cursor' = Ensured /\ watermark' = Ensured
  /\ Persist(Ensured)
  /\ skipped' = skipped \cup 1..Ensured
  /\ pc' = "reading"
  /\ UNCHANGED <<log, through, wakes, neighbour, bounds, told, starts>>

(* advanceTo *)
AdvanceTo(seq) == watermark' = MaxOf(watermark, seq) /\ Persist(seq)

Latest(ages) == ages[Len(ages)]
(* boundFailure: the cooldown since the last turn ended, then the budget. *)
CoolingDown == wakes # <<>> /\ Latest(wakes) < Cooldown
(* Mutant: turns are paced, but not counted. *)
NeverSpent == FALSE
Spent == Len(wakes) >= Budget

(* Mutant: what calls nobody is left where it is. *)
SilentStays(covered) == UNCHANGED <<watermark, file>>
Silent(covered) == AdvanceTo(covered)

(* resolveHarnessSpec refuses the record: its command, or its level, for    *)
(* sendProofProfile has a profile for wake alone.                           *)
Refused == ladder \in {"autopilot", "refused"}

(* The summary is here: at once when there are rows, else when the wait     *)
(* ends.  The runner reads the ladder again before it acts on it.           *)
Read ==
  LET seen == Examined(watermark)
      covered == watermark + Cardinality(seen)
  IN /\ pc = "reading"
     /\ through' = covered
     /\ IF Rung(watermark) = {}
        THEN /\ pc' = "idle" /\ Silent(covered)
             /\ UNCHANGED <<told, starts>>
        ELSE /\ UNCHANGED <<watermark, file>>
             /\ pc' = CASE role = "channel" -> "ringing"
                        [] ladder = "off" \/ Refused -> "idle"
                        [] ladder = "notify" -> "committing"
                        [] CoolingDown \/ Spent -> "idle"
                        [] OTHER -> "turn"
             /\ told' = IF pc' = "committing" THEN told \cup Rung(watermark) ELSE told
             /\ starts' = IF pc' = "turn" THEN Append(starts, 0) ELSE starts
     /\ UNCHANGED <<log, cursor, wakes, neighbour, bounds, skipped>>

(* The host takes the notification, or does not. *)
Deliver ==
  /\ pc = "ringing" /\ pc' = "committing"
  /\ told' = told \cup AtHand
  /\ UNCHANGED <<log, cursor, watermark, through, wakes, file, neighbour, bounds, skipped, starts>>
DeliverFails ==
  /\ pc = "ringing" /\ pc' = "idle"
  /\ UNCHANGED <<log, cursor, watermark, through, wakes, file, neighbour, bounds, history>>

(* The turn ran to its end, or timed out, was not to be had, was aborted.   *)
(* Either way it counts.                                                    *)
TurnExits ==
  /\ pc = "turn" /\ pc' = "committing"
  /\ wakes' = Append(wakes, 0)
  /\ told' = told \cup AtHand
  /\ UNCHANGED <<log, cursor, watermark, through, file, neighbour, bounds, skipped, starts>>
TurnFails ==
  /\ pc = "turn" /\ pc' = "idle"
  /\ wakes' = Append(wakes, 0)
  /\ UNCHANGED <<log, cursor, watermark, through, file, neighbour, bounds, history>>

Commit ==
  /\ pc = "committing" /\ pc' = "idle"
  /\ cursor' = CommittedAt(through)
  /\ AdvanceTo(through)
  /\ UNCHANGED <<log, through, wakes, neighbour, bounds, history>>

(* A call of the link fails, and the session may be gone with it.  A ring   *)
(* that was heard is not repeated for want of a commit; a turn is.          *)
LinkFails ==
  /\ pc \in {"seeding", "reading", "committing"} /\ pc' = "idle"
  /\ cursor' \in {cursor, None} \cup {CommittedAt(through) : p \in {pc} \cap {"committing"}}
  /\ IF pc = "committing" /\ role = "channel" THEN AdvanceTo(through)
     ELSE UNCHANGED <<watermark, file>>
  /\ UNCHANGED <<log, through, wakes, neighbour, bounds, history>>

Restart ==
  /\ restarts < MaxRestarts /\ restarts' = restarts + 1
  /\ pc' = "idle" /\ watermark' = None /\ through' = 0 /\ wakes' = <<>>
  /\ cursor' = None /\ starts' = <<>>
  /\ UNCHANGED <<log, file, neighbour, role, ladder, changes, told, skipped>>

-----------------------------------------------------------------------------
(* Time, and the other writer of the file. *)

(* Mutant: a turn is remembered for ever. *)
AllOfThem(ages) == [i \in 1..Len(ages) |-> ages[i] + 1]

(* Ages fall from one turn to the next, so the filter of boundFailure drops *)
(* the first of them.                                                       *)
Gone(ages) == Cardinality({i \in 1..Len(ages) : ages[i] + 1 >= Window})
Older(ages) == [i \in 1..Len(ages) - Gone(ages) |-> ages[Gone(ages) + i] + 1]

Tick ==
  /\ wakes # <<>> \/ starts # <<>>
  /\ wakes' = Older(wakes) /\ starts' = Older(starts)
  /\ UNCHANGED <<log, cursor, pc, watermark, through, file, neighbour, bounds, told, skipped>>

(* A runner of another project reads the file, and writes it back with its  *)
(* own entry changed.                                                       *)
NeighbourReads ==
  /\ role = "runner" /\ neighbour' = {file}
  /\ UNCHANGED <<log, cursor, satellite, file, bounds, history>>
NeighbourWrites ==
  /\ file' \in neighbour /\ neighbour' = {}
  /\ UNCHANGED <<log, cursor, satellite, bounds, history>>

Next ==
  \/ Arrive \/ Age \/ SetLevel \/ Tick
  \/ Look \/ Seed \/ Read \/ Deliver \/ DeliverFails \/ TurnExits \/ TurnFails
  \/ Commit \/ LinkFails \/ Restart
  \/ NeighbourReads \/ NeighbourWrites

(* The loop goes on, time passes, and what may fail works again and again:  *)
(* the link, the host, the harness.                                         *)
Fairness ==
  /\ WF_vars(Look) /\ WF_vars(Tick)
  /\ SF_vars(Seed) /\ SF_vars(Read) /\ SF_vars(Commit)
  /\ SF_vars(Deliver) /\ SF_vars(TurnExits)

Spec == Init /\ [][Next]_vars
FairSpec == Spec /\ Fairness

-----------------------------------------------------------------------------
Position == 0..Last \cup {None}

PositionsOK ==
  /\ role \in {"channel", "runner"}
  /\ row \in Seq(Wire) /\ old \in 0..Last
  /\ cursor \in Position /\ watermark \in Position /\ file \in Position
  /\ neighbour \in {{}} \cup {{position} : position \in Position}
  /\ pc \in {"idle", "seeding", "reading", "ringing", "turn", "committing"}
  /\ pc \in {"reading", "ringing", "turn", "committing"} => watermark # None
  /\ through \in 0..Last
  /\ told \subseteq 1..Last /\ skipped \subseteq 1..Last

TypeOK ==
  /\ PositionsOK
  /\ Last <= MaxRows /\ ladder \in Levels
  /\ wakes \in Seq(0..Window) /\ starts \in Seq(0..Window)
  /\ restarts \in 0..MaxRestarts /\ changes \in 0..MaxChanges

(* No position, in memory or on disk, is past a message that calls this     *)
(* agent and that nobody was told of, whatever fails and in whatever order: *)
(* the watermark moves last.  Only what was older than the daemon's window  *)
(* when a satellite first looked is passed over.                            *)
NoCallIsMissed ==
  \A s \in 1..Last : CallsUs(s) /\ s \notin told \cup skipped =>
    /\ watermark # None => watermark < s
    /\ file # None => file < s

(* A message that keeps failing cannot spend more than the budget: in any   *)
(* window one runner starts no more turns than that, however long they run. *)
WakesAreBounded == Len(starts) <= Budget

Heeded == role = "channel" \/ ladder \in {"notify", "wake"}

(* As long as the ladder is at notify, or at a wake the runner can start,   *)
(* whoever calls this agent is heard in the end, past failed calls, failed  *)
(* turns, restarts, exhausted budgets, and any number of messages for       *)
(* others.  At autopilot nobody ever is: every turn is refused.             *)
EveryCallIsHeard ==
  <>[]Heeded => \A s \in 1..MaxRows :
    (s <= Last /\ CallsUs(s)) ~> (s \in told \cup skipped)
=============================================================================
