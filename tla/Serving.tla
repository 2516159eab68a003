------------------------------- MODULE Serving -------------------------------
(***************************************************************************)
(* What a client is shown of the inbox: daemon/serve/fetch.ts over the     *)
(* cursors of ledger/cursors.ts, with the selection of                     *)
(* shared/protocol-select.ts, the trimming of shared/tool-output.ts and    *)
(* the sweep of ledger/retention.ts beside it.                             *)
(*                                                                         *)
(* Calls of one client may overlap: each reads the cursor, may wait for    *)
(* the inbox, then reads, answers and writes in one stretch without an     *)
(* await.  A text is named by the row that carries it; a thread's current  *)
(* turn by the row of its latest message of a peer.  The digest that lets  *)
(* an answer call itself unchanged is left out: it decides nothing else.   *)
(***************************************************************************)
EXTENDS Integers, FiniteSets

CONSTANTS
  Clients,       \* client_ids, one per session
  Calls,         \* fetches a client may have open at once
  Threads,       \* by their place in the order of thread ids
  None,
  MaxRows,       \* bound: messages admitted
  MaxClock,      \* bound: time, in ticks
  CatchUp,       \* SESSION_CATCHUP_HOURS = CLIENT_SESSION_STALE_HOURS
  Keep,          \* INBOX_RETENTION_DAYS
  Overdue,       \* reminder_window_hours
  Requests,      \* the inputs [mark, full, limit] of a fetch: mark_seen, force_full, max_batch
  Surfaced,      \* MAX_SURFACED_THREADS
  FloorNew, FloorReminder

ASSUME ServingAssumption ==
  /\ MaxRows \in Nat /\ MaxClock \in Nat
  /\ CatchUp \in Nat /\ Keep \in Nat /\ Overdue \in Nat
  /\ Requests \subseteq [mark : BOOLEAN, full : BOOLEAN, limit : Nat \ {0}]
  /\ Surfaced \in Nat /\ FloorNew \in Nat /\ FloorReminder \in Nat
  /\ Threads \subseteq Nat /\ None \notin Threads /\ None \notin {"me", "peer"}

VARIABLES
  clock,
  last,          \* the newest seq given out (AUTOINCREMENT: none is reused)
  row,           \* what was stored under each seq
  updates,       \* the seqs the table still holds
  thread,        \* the threads table
  cursor,        \* client_cursors and client_surfaced
  call,
  given,         \* history: texts put into answers
  past           \* history: rows that a session of the client began past

inbox == <<last, row, updates, thread>>
client == <<cursor, call, given, past>>
vars == <<clock, inbox, client>>

Seqs == 1..MaxRows
Kinds == {"turn", "note", "checkpoint", "refused"}
NoRow == [kind |-> "none", thread |-> None, at |-> 0]
NoThread == [awaiting |-> None, turn |-> 0, opened |-> 0]
IdleCall == [by |-> None, previous |-> 0, request |-> None]

(* The rows whose body an answer carries; one that was rejected, or that     *)
(* did not apply, is reported without it.                                    *)
HasText(s) == row[s].kind \in {"turn", "note", "checkpoint"}

Newest(S) == IF S = {} THEN 0 ELSE CHOOSE s \in S : \A r \in S : r <= s
FirstOf(S, n) == {s \in S : Cardinality({r \in S : r < s}) < n}
LeastOf(a, b) == IF a < b THEN a ELSE b

Init ==
  /\ clock = 0 /\ last = 0
  /\ row = [s \in Seqs |-> NoRow] /\ updates = {}
  /\ thread = [t \in Threads |-> NoThread]
  /\ cursor = [c \in Clients |-> None]
  /\ call = [k \in Calls |-> IdleCall]
  /\ given = [c \in Clients |-> {}]
  /\ past = [c \in Clients |-> {}]

-----------------------------------------------------------------------------
(* What the poller and the send path write (modules Inbox and SendPath). *)

(* A peer's REQUEST or REPLY gives its thread a turn that awaits us. *)
TurnOf(t, s, at) ==
  [awaiting |-> "me", turn |-> s,
   opened |-> IF thread[t] = NoThread THEN at ELSE thread[t].opened]

(* A message may be admitted as late as Telegram keeps it. *)
Admit ==
  /\ last < MaxRows
  /\ \E kind \in Kinds, t \in Threads \cup {None}, at \in {clock, clock - 1} \cap Nat :
       /\ (t # None) = (kind = "turn")
       /\ row' = [row EXCEPT ![last + 1] = [kind |-> kind, thread |-> t, at |-> at]]
       /\ thread' = [u \in Threads |-> IF u = t THEN TurnOf(t, last + 1, at) ELSE thread[u]]
  /\ last' = last + 1
  /\ updates' = updates \cup {last + 1}
  /\ UNCHANGED <<clock, client>>

(* We open a thread, or answer the turn; it waits for the peer. *)
Say(t) ==
  /\ thread[t].awaiting # "peer"
  /\ thread' = [thread EXCEPT ![t] =
       [awaiting |-> "peer", turn |-> @.turn,
        opened |-> IF @ = NoThread THEN clock ELSE @.opened]]
  /\ UNCHANGED <<clock, last, row, updates, client>>

(* A tick is of hours, a fetch waits for seconds. *)
Tick ==
  /\ clock < MaxClock /\ \A k \in Calls : call[k] = IdleCall
  /\ clock' = clock + 1
  /\ UNCHANGED <<inbox, client>>

(* sweepRetention: the messages past their retention, and the cursors of    *)
(* clients long unseen with what they surfaced.                             *)
Sweep ==
  /\ updates' = {s \in updates : row[s].at >= clock - Keep}
  /\ cursor' = [c \in Clients |->
       IF cursor[c] # None /\ cursor[c].seen < clock - CatchUp THEN None ELSE cursor[c]]
  /\ UNCHANGED <<clock, last, row, thread, call, given, past>>

-----------------------------------------------------------------------------
(* The cursor of a client. *)

CatchUpSeq == Newest({s \in updates : row[s].at < clock - CatchUp})

(* ensureClientCursor: the row as it stands, or a new one at the catch-up   *)
(* position, with nothing surfaced.                                         *)
NewCursor == [seq |-> CatchUpSeq, seen |-> clock, surfaced |-> {}]
Ensured(c) == IF cursor[c] = None THEN NewCursor ELSE cursor[c]

-----------------------------------------------------------------------------
(* One answer, computed from the ledger as it is now. *)

ReadRows(previous, limit) == FirstOf({s \in updates : s > previous}, limit)

(* The log starts at the newest checkpoint of the batch, by message time. *)
Checkpoints(R) == {s \in R : row[s].kind = "checkpoint"}
WindowStart(R) == Newest({s \in Checkpoints(R) : \A r \in Checkpoints(R) : row[r].at <= row[s].at})
Texts(R) == {s \in R : HasText(s)}
Log(R) == {s \in Texts(R) : s >= WindowStart(R)}

NeedsAction == {t \in Threads : thread[t].awaiting = "me"}
WaitingOnPeer == {t \in Threads : thread[t].awaiting = "peer"}
IsReminderDue(t) == clock - thread[t].opened >= Overdue

(* selectTiered: the floors first, then what is left over flows from the    *)
(* new to the reminders to the rest.                                        *)
FreshTaken(nF, nR) ==
  LET base == LeastOf(LeastOf(nF, FloorNew), Surfaced)
      held == LeastOf(LeastOf(nR, FloorReminder), Surfaced - base)
  IN base + LeastOf(nF - base, Surfaced - base - held)
ReminderTaken(nF, nR) ==
  LET base == LeastOf(LeastOf(nF, FloorNew), Surfaced)
      held == LeastOf(LeastOf(nR, FloorReminder), Surfaced - base)
  IN held + LeastOf(nR - held, Surfaced - FreshTaken(nF, nR) - held)
Fresh(shown) == {t \in NeedsAction : t \notin shown}
Reminders(shown) == {t \in NeedsAction \cap shown : IsReminderDue(t)}
Rest(shown) == {t \in NeedsAction \cap shown : ~IsReminderDue(t)}
(* Within a tier the oldest come first, then the order of the ids. *)
Older(t, u) == \/ thread[t].opened < thread[u].opened
               \/ thread[t].opened = thread[u].opened /\ t < u
Oldest(T, n) == {t \in T : Cardinality({u \in T : Older(u, t)}) < n}

(* Mutant: what has been shown and is overdue comes before what is new. *)
RemindersFirst(shown) ==
  LET R == Oldest(Reminders(shown), Surfaced)
  IN R \cup Oldest(Fresh(shown), Surfaced - Cardinality(R))
Selected(shown) ==
  LET nF == Cardinality(Fresh(shown))
      nR == Cardinality(Reminders(shown))
      F == FreshTaken(nF, nR)
      R == ReminderTaken(nF, nR)
  IN Oldest(Fresh(shown), F) \cup Oldest(Reminders(shown), R)
       \cup Oldest(Rest(shown), Surfaced - F - R)

(* trimSurfaced and trimWaiting: an entry already surfaced loses its body,  *)
(* unless it is overdue or everything was asked for.                        *)
KeepsBody(t, shown, full) == full \/ t \notin shown
Emitted(shown, full) ==
  {t \in Selected(shown) : KeepsBody(t, shown, full) \/ IsReminderDue(t)}
    \cup {t \in Oldest(WaitingOnPeer, Surfaced) : KeepsBody(t, shown, full)}

(* turnAwaitingAnswer: the text of an entry is that of the thread's turn.   *)
TurnText(t) == thread[t].turn

-----------------------------------------------------------------------------
(* The calls. *)

(* What is dated before its window is none of a session's news.  A row      *)
(* within the window that was admitted before one of those should be: the   *)
(* session begins past it all the same.                                     *)
BeforeWindow == {s \in 1..last : row[s].at < clock - CatchUp}
Overtaken == {s \in 1..last : \E r \in updates \cap BeforeWindow : s < r}
PassedBy(c) == past[c] \cup IF cursor[c] = None THEN BeforeWindow \cup Overtaken ELSE {}

Persists(request) == request.mark

(* advanceClientCursor and markThreadsSurfaced. *)
Advanced(cur, seq) == [cur EXCEPT !.seq = seq, !.seen = clock]
Surfaces(cur, threads) == [cur EXCEPT !.surfaced = @ \cup threads]

(* Mutant: the answer moves the cursor to the newest row there is. *)
ToTheNewest(previous, R) == IF R = {} THEN previous ELSE Newest(updates)
NextSeq(previous, R) == IF R = {} THEN previous ELSE Newest(R)

(* From the reading of the rows to the answer there is no await.  cur is    *)
(* the cursor's row as it is now, p what the call began with.               *)
Answer(c, p, cur) ==
  LET R == ReadRows(p.previous, p.request.limit)
      emitted == Emitted(cur.surfaced, p.request.full)
  IN /\ cursor' = [cursor EXCEPT ![c] =
          IF Persists(p.request)
          THEN Advanced(Surfaces(cur, emitted), NextSeq(p.previous, R))
          ELSE cur]
     /\ given' = [given EXCEPT ![c] = @ \cup Log(R)
                    \cup {TurnText(t) : t \in emitted \cap NeedsAction}]
     /\ past' = [past EXCEPT ![c] = PassedBy(c)]

Asked(c, request) == [by |-> c, previous |-> Ensured(c).seq, request |-> request]

(* Rows are there, or the caller does not want to wait. *)
FetchAtOnce(c, request) ==
  /\ Answer(c, Asked(c, request), Ensured(c))
  /\ UNCHANGED <<clock, inbox, call>>

(* Nothing is there, and the call waits for the inbox.  The new cursor is   *)
(* written before.                                                          *)
BeginWait(k, c, request) ==
  /\ call[k] = IdleCall
  /\ ReadRows(Ensured(c).seq, request.limit) = {}
  /\ call' = [call EXCEPT ![k] = Asked(c, request)]
  /\ cursor' = [cursor EXCEPT ![c] = Ensured(c)]
  /\ past' = [past EXCEPT ![c] = PassedBy(c)]
  /\ UNCHANGED <<clock, inbox, given>>

(* Rows came, or the wait is over: the answer is from the position read     *)
(* before it and from everything else as it is now.  Where the cursor was   *)
(* swept meanwhile the write fails and the call with it; what a peek then   *)
(* shows is not counted as given.                                           *)
Wake(k) ==
  LET c == call[k].by IN
  /\ call[k] # IdleCall
  /\ call' = [call EXCEPT ![k] = IdleCall]
  /\ IF cursor[c] # None THEN Answer(c, call[k], cursor[c])
     ELSE UNCHANGED <<cursor, given, past>>
  /\ UNCHANGED <<clock, inbox>>

Fetch(c, request) ==
  \/ FetchAtOnce(c, request)
  \/ \E k \in Calls : BeginWait(k, c, request)

Next ==
  \/ Admit \/ Tick \/ Sweep
  \/ \E t \in Threads : Say(t)
  \/ \E c \in Clients, request \in Requests : Fetch(c, request)
  \/ \E k \in Calls : Wake(k)

(* A client that is at work fetches again. *)
Fairness ==
  \A c \in Clients, request \in Requests :
    request.mark /\ ~request.full => WF_vars(FetchAtOnce(c, request))

Spec == Init /\ [][Next]_vars
FairSpec == Spec /\ Fairness

-----------------------------------------------------------------------------
Cursor == [seq : 0..last, seen : 0..MaxClock, surfaced : SUBSET Threads]

TypeOK ==
  /\ clock \in 0..MaxClock /\ last \in 0..MaxRows
  /\ row \in [Seqs -> [kind : Kinds \cup {"none"}, thread : Threads \cup {None}, at : 0..MaxClock]]
  /\ updates \subseteq 1..last
  /\ thread \in [Threads -> [awaiting : {"me", "peer", None}, turn : 0..last,
                             opened : 0..MaxClock]]
  /\ cursor \in [Clients -> Cursor \cup {None}]
  /\ call \in [Calls -> [by : Clients, previous : 0..last, request : Requests] \cup {IdleCall}]
  /\ given \in [Clients -> SUBSET (1..last)]
  /\ past \in [Clients -> SUBSET (1..last)]

Folded(s, texts) == \E r \in texts : r > s /\ row[r].kind = "checkpoint"

(* A cursor is never past a text its client was not given, though fetches   *)
(* overlap, wait, read in small batches and compete with the sweep: each    *)
(* was in an answer, or is folded behind a checkpoint that was; unless a    *)
(* session of the client began past it, as it is dated before the window of *)
(* that session or was admitted before a row that is.                       *)
NothingIsPassedOver ==
  \A c \in Clients : cursor[c] # None =>
    \A s \in updates : HasText(s) /\ s <= cursor[c].seq =>
      s \in given[c] \/ Folded(s, given[c]) \/ s \in past[c]

Knows(c, t) == cursor[c] # None /\ t \in cursor[c].surfaced
Withheld(c, t) ==
  LET s == TurnText(t) IN
  /\ thread[t].awaiting = "me" /\ s \notin given[c]
  /\ Knows(c, t) => s \in updates /\ ~Folded(s, given[c])

(* The text of a turn that awaits us is not withheld for ever from a client *)
(* that goes on fetching: it comes in its log or in the entry of its        *)
(* thread, however many others compete for the few places of an answer.     *)
(* Only of a thread that was shown to the client before may a later turn be *)
(* kept from it: when retention takes the row before the client reads it,   *)
(* or a later checkpoint folds it.                                          *)
EveryTurnSurfaces ==
  \A c \in Clients, t \in Threads : []<>~Withheld(c, t)

=============================================================================
