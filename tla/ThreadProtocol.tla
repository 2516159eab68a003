--------------------------- MODULE ThreadProtocol ---------------------------
(***************************************************************************)
(* The thread state machine every daemon runs over what it sends and over  *)
(* what it receives (src/shared/protocol-apply.ts), together with the row  *)
(* that machine reads and writes (src/shared/thread-record.ts, the tables  *)
(* threads and thread_history of the ledger).                              *)
(*                                                                         *)
(* Nothing here is a state machine of its own: Apply is a function of a    *)
(* row and an envelope, and the modules that own a ledger decide which row *)
(* it is given and what becomes of the row it returns.  That is where the  *)
(* code is hard, because the row it is given can be stale.                 *)
(*                                                                         *)
(* Bodies, formatting and the opening's own metadata are left out: no      *)
(* transition looks at them.                                               *)
(***************************************************************************)
EXTENDS Naturals, FiniteSets

CONSTANTS
  Me,          \* the agent_id this binding speaks for
  Names,       \* agent names that can be written in an envelope
  Users,       \* Telegram user ids
  Roster,      \* the binding's roster: a function from some names to user ids
  Threads,     \* thread ids
  Eids,        \* envelope ids, ordered the way SQLite orders the eid column
  MaxHistory,  \* MAX_THREAD_HISTORY
  None         \* SQL NULL

ASSUME RosterAssumption ==
  /\ DOMAIN Roster \subseteq Names
  /\ \A n \in DOMAIN Roster : Roster[n] \in Users
  /\ Me \in DOMAIN Roster

ASSUME NoneAssumption ==
  None \notin Names \cup Users \cup Nat \cup
              {"not_requestable", "unanchored", "unauthorized", "stale"}

ASSUME EidsAssumption == Eids \subseteq Nat

ASSUME HistoryAssumption == MaxHistory \in Nat \ {0}

-----------------------------------------------------------------------------
(* What crosses the wire and what the ledger keeps.                        *)

Types == {"BROADCAST", "REQUEST", "ACK", "REPLY", "RESOLVED"}

\* "done" stands for every closing basis other than "abandoned".
Bases == {"abandoned", "done", None}

\* IncomingEnvelope: the envelope after the sender has been verified and the
\* addressee translated, with what Telegram says of the message.
Envelope == [eid : Eids, type : Types, from : Names, to : Names \cup {None},
             to_user : Users \cup {None}, thread : Threads, basis : Bases,
             via : {"group", "private"}, mid : Nat, at : Nat]

\* What envelopeSchema demands beyond the fields: a broadcast alone has no
\* addressee, nor an anchor for one; a basis goes with what closes or
\* acknowledges, and an ACK has but one ("done" here: acknowledged-only).
IsToValidForType(env) == env.to = None <=> env.type = "BROADCAST"

IsBasisValidForType(env) ==
  CASE env.type \in {"BROADCAST", "REQUEST", "REPLY"} -> env.basis = None
    [] env.type = "ACK" -> env.basis = "done"
    [] env.type = "RESOLVED" -> env.basis # None

IsToUserIdValidForType(env) == env.to = None => env.to_user = None

WellFormed(env) ==
  IsToValidForType(env) /\ IsBasisValidForType(env) /\ IsToUserIdValidForType(env)

HistoryEntry == [eid : Eids, type : Types, from : Names, at : Nat]

ThreadRow == [status     : {"absent", "open", "resolved"},
              opened_type : {"REQUEST", "BROADCAST"},
              opened_eid  : Eids \cup {None},
              from        : Names \cup {None},
              to          : Names \cup {None},
              to_user     : Users \cup {None},
              anchor      : Nat \cup {None},
              acks        : Nat,
              resolved_by : Names \cup {None},
              basis       : Bases,
              delivered   : BOOLEAN,
              awaiting    : Names \cup {None},
              history     : SUBSET HistoryEntry]

\* The row of a thread id the ledger has never stored.
NoThread == [status |-> "absent", opened_type |-> "REQUEST",
             opened_eid |-> None, from |-> None, to |-> None,
             to_user |-> None, anchor |-> None, acks |-> 0,
             resolved_by |-> None, basis |-> None, delivered |-> FALSE,
             awaiting |-> None, history |-> {}]

Held(row) == row.status # "absent"

-----------------------------------------------------------------------------
(* The transition function.                                                *)

\* A roster lookup, NULL for a name the roster does not have.
UserOf(name) == IF name \in DOMAIN Roster THEN Roster[name] ELSE None

\* A REQUEST between two others is not ours to hold, unless its addressee is
\* a name we cannot place.
IsOurBusiness(env) ==
  \/ Me \in {env.from, env.to}
  \/ env.to = None
  \/ env.to \notin DOMAIN Roster

\* Mutant: v1's reading, in which a thread without an anchor is open to all.
IsAnybody(env, row) == row.to_user = None \/ UserOf(env.from) = row.to_user

\* The addressee is matched by the user id fixed when the thread opened, so
\* a missing anchor authorises nobody.
IsAddressee(env, row) == row.to_user # None /\ UserOf(env.from) = row.to_user

AbandoningOwnThread(env, row) ==
  env.type = "RESOLVED" /\ env.basis = "abandoned" /\ env.from = row.from

\* Mutant: only the addressee goes on.
NeverContinuing(env, row) == FALSE

ContinuingOwnThread(env, row) == env.type = "REPLY" /\ env.from = row.from

\* Why a peer's envelope for a held thread is refused, or None.
ClassifyRejection(env, row) ==
  CASE row.opened_type # "REQUEST" -> "not_requestable"
    [] /\ row.opened_type = "REQUEST"
       /\ ~IsAddressee(env, row)
       /\ ~AbandoningOwnThread(env, row)
       /\ ~ContinuingOwnThread(env, row)
         -> IF row.to_user = None THEN "unanchored" ELSE "unauthorized"
    [] /\ row.opened_type = "REQUEST"
       /\ \/ IsAddressee(env, row)
          \/ AbandoningOwnThread(env, row)
          \/ ContinuingOwnThread(env, row)
         -> IF row.status = "resolved" /\ env.type \in {"RESOLVED", "REPLY"}
            THEN "stale" ELSE None

\* The order of readHistory: by date, then by eid.
Oldest(h) ==
  CHOOSE e \in h : \A f \in h : e.at < f.at \/ (e.at = f.at /\ e.eid <= f.eid)

\* The new entry goes last; the list keeps its last MaxHistory entries, and
\* writeThreadRecord deletes from the table whatever the list dropped.
AppendHistory(row, env) ==
  LET kept == IF Cardinality(row.history) >= MaxHistory
              THEN row.history \ {Oldest(row.history)}
              ELSE row.history
  IN kept \cup {[eid |-> env.eid, type |-> env.type,
                 from |-> env.from, at |-> env.at]}

Opened(env) ==
  [status |-> "open", opened_type |-> "REQUEST", opened_eid |-> env.eid,
   from |-> env.from, to |-> env.to,
   to_user |-> IF env.to_user # None THEN env.to_user ELSE UserOf(env.to),
   anchor |-> IF env.via = "group" THEN env.mid ELSE None,
   acks |-> 0, resolved_by |-> None, basis |-> None, delivered |-> FALSE,
   awaiting |-> env.to, history |-> {}]

Acked(row, env) ==
  [row EXCEPT !.acks = @ + 1, !.history = AppendHistory(row, env)]

Replied(row, env) ==
  [row EXCEPT !.awaiting = IF env.from = row.from THEN row.to ELSE row.from,
              !.history = AppendHistory(row, env)]

Resolved(row, env) ==
  [row EXCEPT !.status = "resolved", !.resolved_by = env.from,
              !.basis = env.basis, !.delivered = TRUE, !.awaiting = None,
              !.history = AppendHistory(row, env)]

Outcomes == {"noted", "not_mine", "opened", "ignored", "rejected",
             "acked", "replied", "resolved"}

\* The outcomes that carry a row to write.
Transitions == {"opened", "acked", "replied", "resolved"}

\* Our own sends are not judged by the receive-side rules.
Refused(env, row) == env.from # Me /\ ClassifyRejection(env, row) # None

\* applyEnvelope's outcome and the row the ledger should then hold.
OutcomeOf(row, env) ==
  CASE env.type = "BROADCAST" -> "noted"
    [] env.type = "REQUEST" -> IF IsOurBusiness(env) THEN "opened" ELSE "not_mine"
    [] env.type \in {"ACK", "REPLY", "RESOLVED"} /\ ~Held(row) -> "ignored"
    [] /\ env.type \in {"ACK", "REPLY", "RESOLVED"}
       /\ Held(row) /\ Refused(env, row) -> "rejected"
    [] env.type = "ACK" /\ Held(row) /\ ~Refused(env, row) -> "acked"
    [] env.type = "REPLY" /\ Held(row) /\ ~Refused(env, row) -> "replied"
    [] env.type = "RESOLVED" /\ Held(row) /\ ~Refused(env, row) -> "resolved"

RowAfter(row, env) ==
  LET outcome == OutcomeOf(row, env) IN
  CASE outcome = "opened"   -> Opened(env)
    [] outcome = "acked"    -> Acked(row, env)
    [] outcome = "replied"  -> Replied(row, env)
    [] outcome = "resolved" -> Resolved(row, env)
    [] outcome \notin Transitions -> row

-----------------------------------------------------------------------------
(* What this end may say of a thread it holds (checkLoopPrevention, which  *)
(* runs before a send and on the row that send will be applied to).        *)

InThreadTypes == {"REPLY", "ACK", "RESOLVED"}

\* Mutant: anybody may abandon.
RefusedWorkClose(in, row) ==
  IF in.basis = "abandoned" \/ (row.to = Me /\ in.to = row.from)
  THEN None ELSE "NOT_ADDRESSEE"

\* Closing and acknowledging: the addressee's, but for abandonment, which is
\* the originator's.
RefusedClose(in, row) ==
  IF in.type = "RESOLVED" /\ in.basis = "abandoned"
  THEN CASE row.from # Me -> "NOT_ORIGINATOR"
         [] row.from = Me /\ in.to # row.to -> "NOT_ADDRESSEE"
         [] row.from = Me /\ in.to = row.to -> None
  ELSE IF row.to # Me \/ in.to # row.from THEN "NOT_ADDRESSEE" ELSE None

OtherParty(row) == IF row.from = Me THEN row.to ELSE row.from

RefusedReply(in, row) ==
  CASE Me \notin {row.from, row.to} -> "NOT_PARTICIPANT"
    [] Me \in {row.from, row.to} /\ in.to # OtherParty(row) -> "NOT_ADDRESSEE"
    [] Me \in {row.from, row.to} /\ in.to = OtherParty(row) ->
         IF row.status = "resolved" THEN "ALREADY_RESOLVED" ELSE None

\* checkLoopPrevention: why an in-thread message is refused, or None.
LoopPrevention(in, row) ==
  CASE in.type \notin InThreadTypes -> None
    [] in.type \in InThreadTypes /\ ~Held(row) -> "UNKNOWN_THREAD"
    [] /\ in.type \in InThreadTypes
       /\ Held(row)
       /\ row.opened_type # "REQUEST" -> "NOT_REQUESTABLE"
    [] /\ in.type = "REPLY"
       /\ Held(row)
       /\ row.opened_type = "REQUEST" -> RefusedReply(in, row)
    [] /\ in.type \in {"ACK", "RESOLVED"}
       /\ Held(row)
       /\ row.opened_type = "REQUEST" ->
         IF RefusedClose(in, row) # None THEN RefusedClose(in, row)
         ELSE IF in.type = "RESOLVED" /\ row.status = "resolved"
         THEN "ALREADY_RESOLVED" ELSE None

-----------------------------------------------------------------------------
(* What a row may say of itself, whoever wrote it.                         *)

\* The turn of an open thread belongs to one of its two ends; a closed one
\* awaits nobody and names who closed it.
TurnIsConsistent(row) ==
  /\ row.status = "open" => row.awaiting \in {row.from, row.to} /\ row.resolved_by = None
  /\ row.status = "resolved" => row.awaiting = None /\ row.resolved_by # None

\* A close is the addressee's, or the originator's own abandonment; our own
\* closes were judged by the send path before they were applied.
ClosureIsAuthorized(row) ==
  row.status = "resolved" =>
    \/ row.resolved_by = Me
    \/ row.to_user # None /\ UserOf(row.resolved_by) = row.to_user
    \/ row.basis = "abandoned" /\ row.resolved_by = row.from
=============================================================================
