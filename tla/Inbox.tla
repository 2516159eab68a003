------------------------------- MODULE Inbox -------------------------------
(***************************************************************************)
(* How a message in Telegram becomes a row of the ledger: the poll loop of *)
(* one bot (src/daemon/poller.ts), the seven-step admission pipeline       *)
(* (src/daemon/admission.ts) and the write-ahead batch transaction that    *)
(* moves the offset (src/ledger/inbox.ts).                                 *)
(*                                                                         *)
(* JavaScript runs one admission to its end, but a process can die between *)
(* any two statements, and two of admission's writes happen before the     *)
(* batch transaction and one after it.  So an admission is a step per      *)
(* update, a step for the transaction and a step for the checkpoint, with  *)
(* Crash possible between them.  Pollers is normally a single process; two *)
(* of them are what a lock reclaimed from a stalled daemon leaves running. *)
(*                                                                         *)
(* Update ids are the positions in the bot's queue, and a message's date   *)
(* is its position too: Telegram stamps both in order.                     *)
(***************************************************************************)
EXTENDS ThreadProtocol, Sequences

CONSTANTS
  Wire,         \* the messages that can arrive
  Pollers,      \* the processes running a poll loop for this bot
  Initial,      \* thread tables to start from: earlier sends, a v1 migration
  MaxBatch,     \* MAX_BATCH
  MaxUpdates,   \* bound: messages that ever arrive
  MaxCrashes,   \* bound: process deaths
  MaxFailures,  \* bound: polls that fail, and polls refused with a conflict
  MaxEvictions  \* bound: updates Telegram drops undelivered after a day

Forms == {"envelope", "undated", "non_envelope", "malformed", "unsupported_version"}

\* user is None for a message without a sender.
Message == [form : Forms, chat : {"group", "private", "foreign"},
            user : Users \cup {None}, eid : Eids, type : Types,
            to : Names \cup {None}, to_user : Users \cup {None},
            thread : Threads, basis : Bases, checkpoint : BOOLEAN]

ASSUME InboxAssumption ==
  /\ Wire \subseteq Message
  /\ MaxBatch \in Nat \ {0}
  /\ MaxUpdates \in Nat
  /\ MaxCrashes \in Nat
  /\ MaxFailures \in Nat
  /\ MaxEvictions \in Nat
  /\ Initial \subseteq [Threads -> ThreadRow]

VARIABLES
  telegram,   \* every message ever sent to the bot, in update_id order
  confirmed,  \* Telegram forgets every update at or below this id
  evicted,    \* updates Telegram dropped before anybody asked for them
  updates,    \* table updates: the apply_outcome stored for each update id
  threads,    \* tables threads and thread_history
  offset,     \* offsets.next_update_id
  audits,     \* table audit_log: the reasons recorded for each update id
  unknown,    \* table unknown_senders
  checkpoint, \* binding_state: the date of the last checkpoint, 0 for none
  pc,         \* where each poll loop is
  asked,      \* the offset of the getUpdates in flight
  batch,      \* the update ids of the response being admitted
  entries,    \* batchEntries, in order
  seen,       \* batchSeenEids
  crashes, failures, \* counters for the bounds
  crowded     \* history: the threads of which one response has held two
              \* messages, or a message of two copies

server   == <<telegram, confirmed, evicted>>
ledger   == <<updates, threads, offset, audits, unknown, checkpoint>>
volatile == <<pc, asked, batch, entries, seen>>
bounds   == <<crashes, failures, crowded>>
vars     == <<server, ledger, volatile, bounds>>

UpdateIds == 1..MaxUpdates

DropReasons == {"non_envelope", "malformed", "unsupported_version",
                "foreign_chat", "unknown_sender", "self_echo", "duplicate"}

ASSUME WireAssumption ==
  \A m \in Wire : m.form \in {"envelope", "undated"} => WellFormed(m)

ASSUME ReasonsAssumption == None \notin DropReasons

Reasons == DropReasons \cup Outcomes
             \cup {"not_requestable", "unanchored", "unauthorized", "stale"}

\* One element of batchEntries. A dropped entry writes no row.
Admitted == [update : UpdateIds, kind : {"admitted"},
             reason : Reasons, outcome : Outcomes, row : ThreadRow]
Dropped  == [update : UpdateIds, kind : {"dropped"}, reason : DropReasons,
             outcome : {None}, row : {NoThread}]
Entry    == Admitted \cup Dropped

\* "down" is a dead process, "stopped" a loop a 409 ended in a live one.
Places == {"idle", "asked", "admitting", "committed", "stopped", "down"}

Init ==
  /\ telegram = <<>>
  /\ confirmed = 0
  /\ evicted = {}
  /\ updates = [u \in UpdateIds |-> "absent"]
  /\ threads \in Initial
  /\ offset = 1
  /\ audits = [u \in UpdateIds |-> <<>>]
  /\ unknown = {}
  /\ checkpoint = 0
  /\ pc = [p \in Pollers |-> "idle"]
  /\ asked = [p \in Pollers |-> 1]
  /\ batch = [p \in Pollers |-> {}]
  /\ entries = [p \in Pollers |-> <<>>]
  /\ seen = [p \in Pollers |-> {}]
  /\ crashes = 0
  /\ failures = 0
  /\ crowded = {}

-----------------------------------------------------------------------------
(* Reads of the ledger.                                                    *)

Stored(u) == updates[u] # "absent"

IsEidInUpdates(e) == \E u \in UpdateIds : Stored(u) /\ telegram[u].eid = e

IsEidInThreadHistory(t, e) == \E h \in threads[t].history : h.eid = e

IsThreadHeld(t) == Held(threads[t])

-----------------------------------------------------------------------------
(* Steps 1 to 6 of the pipeline: why an update is dropped, or None.        *)

\* reverseRosterLookup
ReverseRoster(user) ==
  IF \E n \in DOMAIN Roster : Roster[n] = user
  THEN CHOOSE n \in DOMAIN Roster : Roster[n] = user
  ELSE None

\* Our own name for whoever the wire anchors, else the name it was sent with.
TranslateAddressee(m) ==
  IF m.to_user # None /\ ReverseRoster(m.to_user) # None
  THEN ReverseRoster(m.to_user)
  ELSE m.to

\* Mutants of IsDuplicate: the batch forgets what it has just admitted; a
\* REQUEST is compared by its eid alone.
DuplicateOfTheLedger(p, u) ==
  LET m == telegram[u] IN
  ~Stored(u) /\ (IsEidInUpdates(m.eid) \/ (m.type = "REQUEST" /\ IsThreadHeld(m.thread)))

DuplicateByEid(p, u) ==
  LET m == telegram[u] IN
  ~Stored(u) /\ (m.eid \in seen[p] \/ IsEidInUpdates(m.eid))

\* An update the ledger already holds is left to the transaction to count as
\* replayed; this one is a different update carrying a message held already.
IsDuplicate(p, u) ==
  LET m == telegram[u] IN
  /\ ~Stored(u)
  /\ \/ m.eid \in seen[p]
     \/ IsEidInUpdates(m.eid)
     \/ IsEidInThreadHistory(m.thread, m.eid)
     \/ m.type = "REQUEST" /\ IsThreadHeld(m.thread)

\* The first step that fails names the reason.
Unreadable(m) == m.form \in {"non_envelope", "malformed", "unsupported_version"}
OutOfScope(m) == ~Unreadable(m) /\ m.chat = "foreign"
FromStranger(m) ==
  ~Unreadable(m) /\ ~OutOfScope(m) /\ ReverseRoster(m.user) = None
SelfEcho(m) ==
  ~Unreadable(m) /\ ~OutOfScope(m) /\ ReverseRoster(m.user) = Me
FromPeer(m) ==
  ~Unreadable(m) /\ ~OutOfScope(m) /\ ReverseRoster(m.user) \notin {None, Me}

DropReason(p, u) ==
  LET m == telegram[u] IN
  CASE Unreadable(m)   -> m.form
    [] OutOfScope(m)   -> "foreign_chat"
    [] FromStranger(m) -> "unknown_sender"
    [] SelfEcho(m)     -> "self_echo"
    [] FromPeer(m) /\ IsDuplicate(p, u) -> "duplicate"
    [] FromPeer(m) /\ ~IsDuplicate(p, u) ->
         IF m.form = "undated" THEN "malformed" ELSE None

-----------------------------------------------------------------------------
(* Step 7: the state machine over the row the ledger holds now.            *)

TrustedEnvelope(u) ==
  LET m == telegram[u] IN
  [eid |-> m.eid, type |-> m.type, from |-> ReverseRoster(m.user),
   to |-> TranslateAddressee(m), to_user |-> m.to_user, thread |-> m.thread,
   basis |-> m.basis, via |-> m.chat, mid |-> u, at |-> u]

\* The row comes from the database: a transition that an earlier entry of
\* this same batch decided is not in it yet.
Admit(u) ==
  LET env == TrustedEnvelope(u)
      row == threads[env.thread]
      outcome == OutcomeOf(row, env)
  IN [update |-> u, kind |-> "admitted",
      reason |-> IF outcome = "rejected" THEN ClassifyRejection(env, row)
                                         ELSE outcome,
      outcome |-> outcome, row |-> RowAfter(row, env)]

Drop(u, reason) ==
  [update |-> u, kind |-> "dropped", reason |-> reason,
   outcome |-> None, row |-> NoThread]

Judge(p, u) ==
  IF DropReason(p, u) # None THEN Drop(u, DropReason(p, u)) ELSE Admit(u)

\* Mutant: only what comes after the opening is looked at.
CapturesLaterCopies(m, entry) ==
  /\ entry.reason = "duplicate"
  /\ m.chat = "group"
  /\ m.type # "REQUEST"
  /\ threads[m.thread].anchor = None

\* upsertUnknownSender
Sighted(m, entry) ==
  IF entry.reason = "unknown_sender" /\ m.user # None THEN {m.user} ELSE {}

\* captureGroupMessageId
CapturesAnchor(m, entry) ==
  /\ entry.reason = "duplicate"
  /\ m.chat = "group"
  /\ Held(threads[m.thread])
  /\ threads[m.thread].anchor = None

\* batchSeenEids.add comes before the date is looked at.
Remembers(m, entry) == FromPeer(m) /\ entry.reason # "duplicate"

\* The newest checkpoint this batch admitted.
BatchCheckpoints(p) ==
  {entries[p][i].update : i \in {j \in DOMAIN entries[p] :
     /\ entries[p][j].kind = "admitted"
     /\ telegram[entries[p][j].update].type = "BROADCAST"
     /\ telegram[entries[p][j].update].checkpoint}}

-----------------------------------------------------------------------------
(* The transaction: rows, threads and audits of every entry that is not a  *)
(* replay, then the offset.                                                *)

Replayed(e) == e.kind = "admitted" /\ Stored(e.update)

Written(p) == {i \in DOMAIN entries[p] : ~Replayed(entries[p][i])}

Inserted(p) == {i \in Written(p) : entries[p][i].kind = "admitted"}

\* UNIQUE (project_id, eid)
EidsAreFresh(p) ==
  \A i \in Inserted(p) :
    /\ ~IsEidInUpdates(telegram[entries[p][i].update].eid)
    /\ \A j \in Inserted(p) \ {i} : telegram[entries[p][j].update].eid
                                     # telegram[entries[p][i].update].eid

\* Mutant: a replay is skipped in updates and written in threads.
WritersWithReplays(p, t) ==
  {i \in DOMAIN entries[p] : /\ entries[p][i].outcome \in Transitions
                             /\ telegram[entries[p][i].update].thread = t}

\* The entries that write thread t; the last write is the one that stays.
Writers(p, t) == {i \in Inserted(p) : /\ entries[p][i].outcome \in Transitions
                                      /\ telegram[entries[p][i].update].thread = t}

LastOf(S) == CHOOSE i \in S : \A j \in S : j <= i

InsertUpdates(p) ==
  [u \in UpdateIds |->
     IF \E i \in Inserted(p) : entries[p][i].update = u
     THEN entries[p][CHOOSE i \in Inserted(p) : entries[p][i].update = u].outcome
     ELSE updates[u]]

\* Mutant: a closed row is left alone, whatever arrives late.
WriteOpenThreads(p) ==
  [t \in Threads |->
     IF Writers(p, t) = {} \/ threads[t].status = "resolved" THEN threads[t]
     ELSE entries[p][LastOf(Writers(p, t))].row]

WriteThreads(p) ==
  [t \in Threads |->
     IF Writers(p, t) = {} THEN threads[t]
     ELSE entries[p][LastOf(Writers(p, t))].row]

\* Mutant: our own echo is audited like any other drop.
AppendEveryAudit(p) ==
  [u \in UpdateIds |->
     IF \E i \in Written(p) : entries[p][i].update = u
     THEN Append(audits[u], entries[p][CHOOSE i \in Written(p) :
                                         entries[p][i].update = u].reason)
     ELSE audits[u]]

AppendAudits(p) ==
  [u \in UpdateIds |->
     IF \E i \in Written(p) : entries[p][i].update = u
     THEN LET reason == entries[p][CHOOSE i \in Written(p) :
                                     entries[p][i].update = u].reason
          IN IF reason = "self_echo" THEN audits[u] ELSE Append(audits[u], reason)
     ELSE audits[u]]

\* Mutant: one past the end of the batch, counted from the next update.
AdvanceTooFar(p) == LastOf(batch[p]) + 2

\* Mutant: the offset is what the last transaction says it is.
LastOffset(p) == LastOf(batch[p]) + 1

\* MAX(offsets.next_update_id, excluded.next_update_id)
AdvanceOffset(p) ==
  LET past == LastOf(batch[p]) + 1 IN IF past > offset THEN past ELSE offset

-----------------------------------------------------------------------------
(* Telegram.                                                               *)

Post(m) ==
  /\ Len(telegram) < MaxUpdates
  /\ telegram' = Append(telegram, m)
  /\ UNCHANGED <<confirmed, evicted, ledger, volatile, bounds>>

\* Updates nobody asked for are dropped after 24 hours, oldest first.
Evict ==
  /\ Cardinality(evicted) < MaxEvictions
  /\ confirmed < Len(telegram)
  /\ evicted' = evicted \cup {confirmed + 1}
  /\ confirmed' = confirmed + 1
  /\ UNCHANGED <<telegram, ledger, volatile, bounds>>

-----------------------------------------------------------------------------
(* The poll loop.                                                          *)

\* Asking for an offset is what confirms everything below it.
Ask(p) ==
  /\ pc[p] = "idle"
  /\ pc' = [pc EXCEPT ![p] = "asked"]
  /\ asked' = [asked EXCEPT ![p] = offset]
  /\ confirmed' = IF offset - 1 > confirmed THEN offset - 1 ELSE confirmed
  /\ UNCHANGED <<telegram, evicted, ledger, batch, entries, seen, bounds>>

\* Mutant: the offset moves when the response arrives.
ReceiveAndAdvance(p) ==
  /\ pc[p] = "asked"
  /\ \E last \in asked[p]..Len(telegram) :
       /\ last - asked[p] < MaxBatch
       /\ batch' = [batch EXCEPT ![p] = asked[p]..last]
       /\ offset' = last + 1
  /\ pc' = [pc EXCEPT ![p] = "admitting"]
  /\ entries' = [entries EXCEPT ![p] = <<>>]
  /\ seen' = [seen EXCEPT ![p] = {}]
  /\ UNCHANGED <<server, updates, threads, audits, unknown, checkpoint, asked, bounds>>

\* The threads that share a response with themselves.
Crowding(response) ==
  {telegram[u].thread : u \in {v \in response : \E w \in response \ {v} :
     telegram[v].thread = telegram[w].thread \/ telegram[v].eid = telegram[w].eid}}

\* What the server still has from the offset on, at most MaxBatch of it. The
\* long poll may answer with the first of several, or time out with nothing.
Receive(p) ==
  /\ pc[p] = "asked"
  /\ LET first == IF asked[p] > confirmed THEN asked[p] ELSE confirmed + 1 IN
     \E last \in first - 1 .. Len(telegram) :
       /\ last - first < MaxBatch
       /\ batch' = [batch EXCEPT ![p] = first..last]
       /\ pc' = [pc EXCEPT ![p] = IF last < first THEN "idle" ELSE "admitting"]
       /\ crowded' = crowded \cup Crowding(first..last)
  /\ entries' = [entries EXCEPT ![p] = <<>>]
  /\ seen' = [seen EXCEPT ![p] = {}]
  /\ UNCHANGED <<server, ledger, asked, crashes, failures>>

\* A network error or a rate limit: sleep, then ask again.
PollFails(p) ==
  /\ pc[p] = "asked"
  /\ failures < MaxFailures
  /\ failures' = failures + 1
  /\ pc' = [pc EXCEPT ![p] = "idle"]
  /\ UNCHANGED <<server, ledger, asked, batch, entries, seen, crashes, crowded>>

\* A 409 ends the loop, and the loop alone: the daemon stays up.
Conflict(p) ==
  /\ pc[p] = "asked"
  /\ failures < MaxFailures
  /\ failures' = failures + 1
  /\ pc' = [pc EXCEPT ![p] = "stopped"]
  /\ UNCHANGED <<server, ledger, asked, batch, entries, seen, crashes, crowded>>

\* The updates of the response that admission has not come to yet.
Rest(p) == batch[p] \ {entries[p][i].update : i \in DOMAIN entries[p]}

FirstOf(S) == CHOOSE u \in S : \A v \in S : u <= v

\* The next update of the batch. The two writes outside the transaction, the
\* sighting of a stranger and the capture of a group message id, happen here.
Classify(p) ==
  /\ pc[p] = "admitting"
  /\ Rest(p) # {}
  /\ LET u == FirstOf(Rest(p))
         m == telegram[u]
         entry == Judge(p, u)
     IN /\ entries' = [entries EXCEPT ![p] = Append(@, entry)]
        /\ unknown' = unknown \cup Sighted(m, entry)
        /\ threads' = IF CapturesAnchor(m, entry)
                      THEN [threads EXCEPT ![m.thread].anchor = u] ELSE threads
        /\ seen' = IF Remembers(m, entry)
                   THEN [seen EXCEPT ![p] = @ \cup {m.eid}] ELSE seen
  /\ UNCHANGED <<server, updates, offset, audits, checkpoint, pc, asked, batch, bounds>>

Ready(p) == pc[p] = "admitting" /\ Rest(p) = {}

\* commitInboxBatch
Commit(p) ==
  /\ Ready(p)
  /\ EidsAreFresh(p)
  /\ updates' = InsertUpdates(p)
  /\ threads' = WriteThreads(p)
  /\ audits' = AppendAudits(p)
  /\ offset' = AdvanceOffset(p)
  /\ pc' = [pc EXCEPT ![p] = "committed"]
  /\ UNCHANGED <<server, unknown, checkpoint, asked, batch, entries, seen, bounds>>

\* A constraint violation rolls the whole batch back; the loop backs off and
\* asks again from the offset it has.
Rollback(p) ==
  /\ Ready(p)
  /\ ~EidsAreFresh(p)
  /\ pc' = [pc EXCEPT ![p] = "idle"]
  /\ UNCHANGED <<server, ledger, asked, batch, entries, seen, bounds>>

\* recordCheckpoint, after the transaction, then around the loop.
RecordCheckpoint(p) ==
  /\ pc[p] = "committed"
  /\ checkpoint' = IF BatchCheckpoints(p) = {} THEN checkpoint
                   ELSE LastOf(BatchCheckpoints(p))
  /\ pc' = [pc EXCEPT ![p] = "idle"]
  /\ UNCHANGED <<server, updates, threads, offset, audits, unknown, asked,
                 batch, entries, seen, bounds>>

\* The process dies; whatever it had not committed goes with it.
Crash(p) ==
  /\ crashes < MaxCrashes
  /\ pc[p] # "down"
  /\ crashes' = crashes + 1
  /\ pc' = [pc EXCEPT ![p] = "down"]
  /\ batch' = [batch EXCEPT ![p] = {}]
  /\ entries' = [entries EXCEPT ![p] = <<>>]
  /\ seen' = [seen EXCEPT ![p] = {}]
  /\ UNCHANGED <<server, ledger, asked, failures, crowded>>

\* startPoller, on a daemon started after a death.
Start(p) ==
  /\ pc[p] = "down"
  /\ pc' = [pc EXCEPT ![p] = "idle"]
  /\ UNCHANGED <<server, ledger, asked, batch, entries, seen, bounds>>

PollLoop(p) ==
  \/ Ask(p) \/ Receive(p) \/ Classify(p) \/ Commit(p) \/ Rollback(p)
  \/ RecordCheckpoint(p) \/ Start(p)

Next ==
  \/ \E m \in Wire : Post(m)
  \/ Evict
  \/ \E p \in Pollers : PollLoop(p) \/ PollFails(p) \/ Conflict(p) \/ Crash(p)

Spec == Init /\ [][Next]_vars

\* The loop is an await in a while: it runs again as long as the process
\* does, and a daemon that died is started by the next client that needs it.
\* A poll that is answered for ever with nothing while updates wait is not
\* Telegram, so Receive with a batch is fair as well.
ReceiveSome(p) == Receive(p) /\ batch'[p] # {}

FairSpec ==
  /\ Spec
  /\ \A p \in Pollers : WF_vars(PollLoop(p)) /\ SF_vars(ReceiveSome(p))
-----------------------------------------------------------------------------
(* Properties.                                                             *)

\* The inbox or the audit trail says what became of update u; an echo of our
\* own send leaves neither, it is only moved past.
Judged(u) == Stored(u) \/ audits[u] # <<>> \/ SelfEcho(telegram[u])

\* The types of the queue, of the ledger and of the poll loop's memory.
TypeOK ==
  /\ telegram \in Seq(Wire) /\ Len(telegram) \in 0..MaxUpdates
  /\ confirmed \in 0..Len(telegram)
  /\ evicted \subseteq 1..Len(telegram)
  /\ updates \in [UpdateIds -> Outcomes \cup {"absent"}]
  /\ threads \in [Threads -> ThreadRow]
  /\ offset \in 1..Len(telegram) + 1
  /\ audits \in [UpdateIds -> Seq(Reasons)]
  /\ unknown \subseteq Users
  /\ checkpoint \in 0..Len(telegram)
  /\ pc \in [Pollers -> Places]
  /\ asked \in [Pollers -> 1..Len(telegram) + 1]
  /\ batch \in [Pollers -> SUBSET (1..Len(telegram))]
  /\ entries \in [Pollers -> Seq(Entry)]
  /\ seen \in [Pollers -> SUBSET Eids]
  /\ crashes \in 0..MaxCrashes /\ failures \in 0..MaxFailures
  /\ crowded \subseteq Threads

\* Invariant I-3 of the design: Telegram is never told to forget an update
\* before the ledger holds what became of it. The offset the ledger would ask
\* for next makes the same promise, whatever crashed in between.
ConfirmedIsJudged ==
  /\ \A u \in 1..offset - 1 : Judged(u) \/ u \in evicted
  /\ \A u \in 1..confirmed : u < offset \/ u \in evicted

\* The dedup of step 6 leaves nothing for UNIQUE (project_id, eid) to refuse,
\* so one batch never rolls back and is served again for ever.
NoPoisonBatch == \A p \in Pollers : Ready(p) => EidsAreFresh(p)

\* Every receive and every reject leaves exactly one audit row, crashes and
\* redeliveries included, and our own echo leaves none.
ExactlyOneAudit ==
  \A u \in UpdateIds :
    /\ Stored(u) => Len(audits[u]) = 1
    /\ u < offset /\ u \notin evicted =>
         Len(audits[u]) = IF SelfEcho(telegram[u]) THEN 0 ELSE 1

\* Whatever order messages arrive in, no row of the ledger is closed by
\* somebody with no right to close it, and the turn is always somebody's.
ThreadsAreSound ==
  \A t \in Threads : ClosureIsAuthorized(threads[t]) /\ TurnIsConsistent(threads[t])

\* Receiving never reopens a thread the ledger holds closed, and never
\* replaces the message that opened one.
MovesForward(t) ==
  Held(threads[t]) =>
    /\ threads'[t].opened_eid = threads[t].opened_eid
    /\ threads[t].status = "resolved" => threads'[t].status = "resolved"

ThreadsOnlyMoveForward == [][\A t \in Threads : MovesForward(t)]_vars

\* The thread tables after the first n updates, had each one been stored and
\* applied alone, in order, exactly once.
ReplayOf(start) ==
  LET after[n \in 0..MaxUpdates] ==
        IF n = 0 THEN start
        ELSE IF ~Stored(n) THEN after[n - 1]
        ELSE LET t == telegram[n].thread
             IN [after[n - 1] EXCEPT ![t] = RowAfter(@, TrustedEnvelope(n))]
  IN after[MaxUpdates]

Content(row) == [row EXCEPT !.anchor = None]

\* The threads are what the stored messages say they are: as long as Telegram
\* drops nothing, each message of the inbox took effect once, on top of every
\* message before it.  Two messages of a thread in one response are judged from
\* one row, and the second is written over the first: such threads are excepted.
LedgerMatchesItsInbox ==
  evicted = {} => \E start \in Initial : \A t \in Threads \ crowded :
    Content(threads[t]) = Content(ReplayOf(start)[t])

\* Once the group copy of a thread's opening has been moved past, the thread
\* has its reply anchor, again as long as Telegram drops nothing.  The comment
\* on the capture promises it of whichever group copy is the first; but in one
\* response with the opening the copy is dropped before the row exists, and in
\* one with another message that message's row is written over the anchor.
AnchorIsCaptured ==
  evicted = {} => \A u \in 1..offset - 1 :
    LET m == telegram[u] IN
    /\ FromPeer(m) /\ m.form = "envelope" /\ m.chat = "group"
    /\ m.type = "REQUEST"
    /\ threads[m.thread].opened_eid = m.eid
    /\ m.thread \notin crowded
    => threads[m.thread].anchor # None

\* Every message that reaches the bot is eventually judged, unless Telegram
\* dropped it first or a conflict ended every loop.
EveryUpdateIsJudged ==
  \A u \in UpdateIds :
    u <= Len(telegram) ~>
      u < offset \/ u \in evicted \/ \A p \in Pollers : pc[p] = "stopped"

-----------------------------------------------------------------------------
(* The inbox implements the abstract log of decided messages.              *)

Verdict(u) ==
  IF Stored(u) THEN "kept"
  ELSE IF /\ u <= Len(telegram)
          /\ audits[u] # <<>> \/ (u < offset /\ SelfEcho(telegram[u]))
  THEN "dropped"
  ELSE "pending"

Log == INSTANCE JudgedLog WITH
         Capacity  <- MaxUpdates,
         arrived   <- Len(telegram),
         forgotten <- confirmed,
         lost      <- evicted,
         verdict   <- [u \in UpdateIds |-> Verdict(u)]

\* Every message is decided once and for good, and before Telegram is told to
\* forget it.
ImplementsJudgedLog == Log!Spec
=============================================================================
