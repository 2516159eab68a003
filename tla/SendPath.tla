------------------------------ MODULE SendPath ------------------------------
(***************************************************************************)
(* One binding's send path: src/daemon/send/send-path.ts with validate.ts  *)
(* and rate.ts, over the dual transport of src/daemon/transport/.          *)
(*                                                                         *)
(* Tool calls queue on the binding's mutex.  The one that runs reads the   *)
(* thread and the rate state, then awaits one HTTP request per plane and   *)
(* recipient, then writes the ledger from what it read before the awaits.  *)
(* The poller shares the process: between two awaits of a call it may      *)
(* admit a peer's message into the same thread, or write the same          *)
(* retry_after_until.  The daemon may die between any two steps.           *)
(***************************************************************************)
EXTENDS ThreadProtocol

CONSTANTS
  Calls,       \* tool calls, numbered in the order they reach the daemon;
               \* a call's number is also the eid it generates
  ThreadOf,    \* the thread id a call generates when it opens a thread
  Inputs,      \* what an agent may ask for
  PeerSays,    \* the messages peers may send, as admission trusts them
  Initial,     \* the thread tables a daemon may start with
  Waits,       \* the retry_after values Telegram may name, in seconds
  GroupLimit,  \* GROUP_MESSAGES_PER_MINUTE
  ChatLimit,   \* CHAT_MESSAGES_PER_SECOND
  Minute,      \* RATE_WINDOW_MINUTE_MS
  Second,      \* RATE_WINDOW_SECOND_MS
  MaxClock,    \* bound: the last instant
  MaxLimited,  \* bound: how often Telegram answers 429
  MaxCrashes   \* bound: how often the daemon dies

ASSUME CallsAssumption ==
  /\ Calls \subseteq Eids
  /\ ThreadOf \in [Calls -> Threads]
  /\ None \notin Calls

\* What generateId returns was nobody's before.
ASSUME FreshAssumption ==
  /\ \A c, d \in Calls : ThreadOf[c] = ThreadOf[d] => c = d
  /\ \A start \in Initial, c \in Calls : ~Held(start[ThreadOf[c]])

\* What an input may have wrong that the thread's rules do not look at.
Flaws == {"VALIDATION_ERROR", "BODY_TOO_LONG", "SECRET_PATTERN_DETECTED",
          "WIRE_TOO_LONG", "WRONG_ROOM"}

ASSUME InputsAssumption ==
  \A in \in Inputs :
    /\ in.type \in Types
    /\ in.to \in Names \cup {None}
    /\ in.thread \in Threads \cup {None}
    /\ in.thread = None <=> in.type \in {"REQUEST", "BROADCAST"}
    /\ in.to = None <=> in.type = "BROADCAST"
    /\ in.basis \in Bases
    /\ in.marked \in BOOLEAN
    /\ in.flaw \in Flaws \cup {None}

ASSUME PeersAssumption ==
  PeerSays \subseteq Envelope /\ \A m \in PeerSays : m.from # Me

ASSUME SayingAssumption == \A m \in PeerSays : WellFormed(m)

ASSUME InitialAssumption == Initial \subseteq [Threads -> ThreadRow]

ASSUME BoundsAssumption ==
  /\ MaxClock \in Nat /\ MaxLimited \in Nat /\ MaxCrashes \in Nat
  /\ Waits \subseteq Nat \ {0}

ASSUME LimitsAssumption ==
  /\ GroupLimit \in Nat \ {0} /\ ChatLimit \in Nat \ {0}
  /\ Minute \in Nat \ {0} /\ Second \in Nat \ {0}

VARIABLES
  threads,       \* the threads and thread_history tables
  retryUntil,    \* offsets.retry_after_until; 0 is NULL
  outage,        \* the group_outage condition is raised
  audit,         \* the audit rows of sends: <<eid, outcome>>
  tail,          \* BindingMutex.chains: the last link of the chain, or None
  groupWindow,   \* SendRateBudget.groupWindows, as <<call, instant>>
  chatWindows,   \* SendRateBudget.chatWindows, as <<call, instant>> by chat
  calls,         \* each tool call: where it is and what it remembers
  heard,         \* the peers' messages admitted so far
  asleep,        \* the instant until which the poller sleeps
  clock, crashes, limited,
  owed           \* history: the latest wait Telegram has named to a send
                 \* since the poller last wrote retry_after_until

ledger  == <<threads, retryUntil, outage, audit>>
memory  == <<tail, groupWindow, chatWindows>>
vars    == <<threads, retryUntil, outage, audit, tail, groupWindow,
             chatWindows, calls, heard, asleep, clock, crashes, limited, owed>>

-----------------------------------------------------------------------------
(* A call.                                                                 *)

Group == "group"
Chats == {Group} \cup DOMAIN Roster

Refusals == {"UNKNOWN_THREAD", "NOT_REQUESTABLE", "NOT_PARTICIPANT",
             "NOT_ADDRESSEE", "NOT_ORIGINATOR", "ALREADY_RESOLVED",
             "UNKNOWN_RECIPIENT", "VALIDATION_ERROR", "BODY_TOO_LONG",
             "SECRET_PATTERN_DETECTED", "WRONG_ROOM"}
Failures == {"RATE_LIMITED", "TRANSPORT_ERROR", "TOOL_ERROR"}
Results  == {"ok", "degraded"} \cup Refusals \cup Failures

ASSUME ResultsAssumption == None \notin Results

\* "queued" on the mutex, "posting" to Telegram, "sent" with every answer
\* in, "settled" with a result for the client; "lost" with its daemon.
Idle == [pc |-> "idle", input |-> None, after |-> None, existing |-> None,
         before |-> 0, at |-> 0, life |-> 0, left |-> {}, landed |-> {},
         failed |-> {}, result |-> None]

Running(c) == calls[c].pc \in {"posting", "sent"}
Settled(c) == calls[c].pc = "settled"

\* The eid, thread and peers a call's envelope names.
ThreadFor(c) == LET in == calls[c].input IN
  IF in.type \in InThreadTypes THEN in.thread ELSE ThreadOf[c]

Recipients(in) ==
  IF in.type = "BROADCAST" THEN DOMAIN Roster \ {Me} ELSE {in.to}

EnvelopeOf(c, via) == LET in == calls[c].input IN
  [eid |-> c, type |-> in.type, from |-> Me, to |-> in.to,
   to_user |-> IF in.to = None THEN None ELSE UserOf(in.to),
   thread |-> ThreadFor(c), basis |-> in.basis, via |-> via, mid |-> c,
   at |-> calls[c].at]

-----------------------------------------------------------------------------
(* validateSend.                                                           *)

\* validateInput, checkSecretBackstop, checkRecipientsKnown, and, once the
\* envelope is built, guardEncodedLength and assertTarget.
Malformed(in) == in.flaw \in {"VALIDATION_ERROR", "BODY_TOO_LONG"}
CarriesSecret(in) == in.flaw = "SECRET_PATTERN_DETECTED"
RecipientsKnown(in) == Recipients(in) \subseteq DOMAIN Roster
TooLongEncoded(in) == in.flaw = "WIRE_TOO_LONG"
LeavesTheRoom(in) == in.flaw = "WRONG_ROOM"

\* The checks in their order; the first that fails names the reason.
Refusal(in, row) ==
  LET rule == LoopPrevention(in, row) IN
  CASE Malformed(in) -> in.flaw
    [] ~Malformed(in) /\ rule # None -> rule
    [] ~Malformed(in) /\ rule = None ->
         IF CarriesSecret(in) THEN in.flaw
         ELSE IF ~RecipientsKnown(in) THEN "UNKNOWN_RECIPIENT"
         ELSE IF TooLongEncoded(in) THEN "BODY_TOO_LONG"
         ELSE IF LeavesTheRoom(in) THEN in.flaw ELSE None

-----------------------------------------------------------------------------
(* The two rate gates: what Telegram asked for, and the daemon's budget.   *)

Pruned(window, width) == {p \in window : clock - p[2] < width}

\* Mutant: one message too many in each window.
GenerousBudget(c) ==
  /\ Cardinality(Pruned(groupWindow, Minute)) <= GroupLimit
  /\ \A chat \in {Group} \cup Recipients(calls[c].input) :
       Cardinality(Pruned(chatWindows[chat], Second)) <= ChatLimit

\* SendRateBudget.check: both windows have room, in the group and for every
\* recipient.
WithinBudget(c) ==
  /\ Cardinality(Pruned(groupWindow, Minute)) < GroupLimit
  /\ \A chat \in {Group} \cup Recipients(calls[c].input) :
       Cardinality(Pruned(chatWindows[chat], Second)) < ChatLimit

\* retryAfterSeconds of what Telegram asked for.
AskedToWait == retryUntil > clock

MustWait(c) == AskedToWait \/ ~WithinBudget(c)

\* SendRateBudget.record, before anything is sent.
RecordBudget(c) ==
  /\ groupWindow' = Pruned(groupWindow, Minute) \cup {<<c, clock>>}
  /\ chatWindows' =
       [chat \in Chats |->
          IF chat \in {Group} \cup Recipients(calls[c].input)
          THEN Pruned(chatWindows[chat], Second) \cup {<<c, clock>>}
          ELSE chatWindows[chat]]

\* Mutant: the last write wins.
LastWrite(until) == until

\* RateLimitRecorder: the later instant wins, never the last write.
Later(until) == IF until > retryUntil THEN until ELSE retryUntil

\* The wait a failed call reports: one that appeared while it ran.
RateLimitedDuring(c) == retryUntil # calls[c].before /\ AskedToWait

-----------------------------------------------------------------------------
(* BindingMutex.                                                           *)

\* Mutants: a call that does not wait; a chain that a rejected call breaks.
JoinNothing(c) == calls[c].pc = "queued"
JoinHealthy(c) ==
  calls[c].after # None =>
    calls[calls[c].after].result \in {"ok", "degraded"}

\* A call starts when the link it was chained to has settled, either way.
MayStart(c) == calls[c].after # None => Settled(calls[c].after)

\* The last call of the chain removes it.
Release(c) == tail' = IF tail = c THEN None ELSE tail

\* A tool call reaches the daemon and joins the chain.
Submit(c, in) ==
  /\ calls[c].pc = "idle"
  /\ \A d \in Calls : d < c => calls[d].pc # "idle"
  /\ calls' = [calls EXCEPT ![c] = [Idle EXCEPT !.pc = "queued", !.input = in,
                                               !.after = tail,
                                               !.life = crashes]]
  /\ tail' = c
  /\ UNCHANGED <<ledger, groupWindow, chatWindows, heard, asleep, clock,
                 crashes, limited, owed>>

\* What a call that is over has forgotten.
Over(call) == [call EXCEPT !.after = None, !.existing = None, !.before = 0,
                           !.left = {}]

Settle(c, result) ==
  /\ calls' = [calls EXCEPT ![c] = [Over(@) EXCEPT !.pc = "settled",
                                                  !.result = result]]
  /\ Release(c)

-----------------------------------------------------------------------------
(* What runs before the first await.                                       *)

\* A refusal by the room guard or the secret scan is audited, a refusal by
\* the thread's rules is not.
Refuse(c) ==
  LET in == calls[c].input
      row == IF in.thread = None THEN NoThread ELSE threads[in.thread]
      why == Refusal(in, row)
  IN /\ calls[c].pc = "queued" /\ MayStart(c)
     /\ why # None
     /\ audit' = audit \cup
          CASE why = "SECRET_PATTERN_DETECTED" -> {<<None, why>>}
            [] why = "WRONG_ROOM" -> {<<c, why>>}
            [] why \notin {"SECRET_PATTERN_DETECTED", "WRONG_ROOM"} -> {}
     /\ Settle(c, why)
     /\ UNCHANGED <<threads, retryUntil, outage, groupWindow, chatWindows,
                    heard, asleep, clock, crashes, limited, owed>>

HoldBack(c) ==
  LET in == calls[c].input
      row == IF in.thread = None THEN NoThread ELSE threads[in.thread]
  IN /\ calls[c].pc = "queued" /\ MayStart(c)
     /\ Refusal(in, row) = None /\ MustWait(c)
     /\ audit' = audit \cup {<<c, "RATE_LIMITED">>}
     /\ Settle(c, "RATE_LIMITED")
     /\ UNCHANGED <<threads, retryUntil, outage, groupWindow, chatWindows,
                    heard, asleep, clock, crashes, limited, owed>>

\* The row and the rate state a call will decide with are read here, before
\* it awaits anything.
Begin(c) ==
  LET in == calls[c].input
      row == IF in.thread = None THEN NoThread ELSE threads[in.thread]
  IN /\ calls[c].pc = "queued" /\ MayStart(c)
     /\ Refusal(in, row) = None /\ ~MustWait(c)
     /\ RecordBudget(c)
     /\ calls' = [calls EXCEPT ![c] =
          [@ EXCEPT !.pc = "posting", !.existing = row, !.before = retryUntil,
                    !.at = clock, !.left = {Group} \cup Recipients(in)]]
     /\ UNCHANGED <<ledger, tail, heard, asleep, clock, crashes, limited, owed>>

-----------------------------------------------------------------------------
(* The awaits: DualWriteTransport, one request after the other.            *)

\* Mutant of Answered: the first recipient who is reached ends the call.
AnsweredOnce(c, chat) ==
  [calls[c] EXCEPT !.left = @ \ {chat}, !.pc = "sent"]

\* The group is posted to first, then each recipient.
NextChats(c) == IF Group \in calls[c].left THEN {Group} ELSE calls[c].left

Answered(c, chat) == LET left == calls[c].left \ {chat} IN
  [calls[c] EXCEPT !.left = left,
                   !.pc = IF left = {} THEN "sent" ELSE "posting"]

\* TelegramApiClient.call throws: no answer in time, none that is JSON, or an
\* error of the Bot API's.  The transport remembers the plane as failed.
Unreached(c, chat) == [Answered(c, chat) EXCEPT !.failed = @ \cup {chat}]

Land(c, chat) ==
  /\ calls[c].pc = "posting" /\ chat \in NextChats(c)
  /\ calls' = [calls EXCEPT ![c] =
                 [Answered(c, chat) EXCEPT !.landed = @ \cup {chat}]]
  /\ UNCHANGED <<ledger, memory, heard, asleep, clock, crashes, limited, owed>>

Miss(c, chat) ==
  /\ calls[c].pc = "posting" /\ chat \in NextChats(c)
  /\ calls' = [calls EXCEPT ![c] = Unreached(c, chat)]
  /\ UNCHANGED <<ledger, memory, heard, asleep, clock, crashes, limited, owed>>

\* A 429: the recorder writes the instant before the transport goes on.
Limited(c, chat, wait) ==
  /\ calls[c].pc = "posting" /\ chat \in NextChats(c)
  /\ limited < MaxLimited
  /\ limited' = limited + 1
  /\ retryUntil' = Later(clock + wait)
  /\ owed' = IF clock + wait > owed THEN clock + wait ELSE owed
  /\ calls' = [calls EXCEPT ![c] = Unreached(c, chat)]
  /\ UNCHANGED <<threads, outage, audit, memory, heard, asleep, clock, crashes>>

\* A 400 about the message itself ends the call: no recipient is tried.
Unsendable(c) ==
  /\ calls[c].pc = "posting" /\ Group \in calls[c].left
  /\ calls' = [calls EXCEPT ![c] = [@ EXCEPT !.left = {}, !.pc = "sent",
                                             !.failed = {Group}]]
  /\ UNCHANGED <<ledger, memory, heard, asleep, clock, crashes, limited, owed>>

-----------------------------------------------------------------------------
(* What runs after the last await, from the row read before the first.     *)

\* Mutant: only the group counts.
DeliveredInGroup(c) == Group \in calls[c].landed

Delivered(c) == calls[c].landed # {}

\* An opening is stamped with the group's message when there is one.
Via(c) == IF Group \in calls[c].landed THEN "group" ELSE "private"

\* The condition a delivered call raises, or clears.
GroupOutage(c) == Group \in calls[c].failed

\* A body that carries turns of a debate has a row of debate_journal written
\* for each in the same transaction, and to_agent_id may not be NULL there: a
\* broadcast has no addressee to put in it.
JournalRefuses(in) == in.marked /\ in.to = None

\* The row a delivered call writes, over whatever the table holds by now.
RowWritten(c) ==
  IF calls[c].input.type = "BROADCAST" THEN calls[c].existing
  ELSE RowAfter(calls[c].existing, EnvelopeOf(c, Via(c)))

Record(c) ==
  LET in == calls[c].input
      result == IF calls[c].failed = {} THEN "ok" ELSE "degraded"
  IN /\ calls[c].pc = "sent" /\ Delivered(c) /\ ~JournalRefuses(in)
     /\ outage' = GroupOutage(c)
     /\ threads' = IF in.type = "BROADCAST" THEN threads
                   ELSE [threads EXCEPT ![ThreadFor(c)] = RowWritten(c)]
     /\ audit' = audit \cup {<<c, result>>}
     /\ Settle(c, result)
     /\ UNCHANGED <<retryUntil, groupWindow, chatWindows, heard, asleep, clock,
                    crashes, limited, owed>>

\* The journal throws: the transaction is rolled back, the audit row and the
\* condition with it, and the client gets a bare error for what was delivered.
RollBack(c) ==
  /\ calls[c].pc = "sent" /\ Delivered(c) /\ JournalRefuses(calls[c].input)
  /\ Settle(c, "TOOL_ERROR")
  /\ UNCHANGED <<ledger, groupWindow, chatWindows, heard, asleep, clock,
                 crashes, limited, owed>>

\* Mutant: every close may be applied untold.
AnyClose(c) == calls[c].input.type = "RESOLVED"

Abandons(c) ==
  calls[c].input.type = "RESOLVED" /\ calls[c].input.basis = "abandoned"

\* Nothing landed.  Abandonment alone is applied all the same, marked as
\* never told.
Fail(c) ==
  LET why == IF RateLimitedDuring(c) THEN "RATE_LIMITED" ELSE "TRANSPORT_ERROR"
  IN /\ calls[c].pc = "sent" /\ ~Delivered(c)
     /\ threads' = IF Abandons(c)
                   THEN [threads EXCEPT ![ThreadFor(c)] =
                           [RowWritten(c) EXCEPT !.delivered = FALSE]]
                   ELSE threads
     /\ audit' = audit \cup (IF RateLimitedDuring(c)
                             THEN {<<c, "RATE_LIMITED">>} ELSE {})
     /\ Settle(c, why)
     /\ UNCHANGED <<retryUntil, outage, groupWindow, chatWindows, heard, asleep,
                    clock, crashes, limited, owed>>

-----------------------------------------------------------------------------
(* The rest of the process, and the world.                                 *)

\* A peer answers a thread only when its opening may have reached it, also
\* when Telegram took the opening and its answer to us was lost.
CanBeSaid(m) ==
  \A c \in Calls :
    m.thread = ThreadOf[c] => calls[c].landed \cup calls[c].failed # {}

\* admitTelegramUpdates on one message: an opening of a held thread is a
\* duplicate, anything else is applied to the row the table holds now.
Admitted(m) ==
  IF m.type = "REQUEST" /\ Held(threads[m.thread]) THEN threads
  ELSE [threads EXCEPT ![m.thread] = RowAfter(threads[m.thread], m)]

\* A poll that succeeds clears retry_after_until, whoever wrote it.
Poll ==
  /\ clock >= asleep
  /\ \/ \E m \in PeerSays \ heard :
          /\ CanBeSaid(m)
          /\ heard' = heard \cup {m}
          /\ threads' = Admitted(m)
     \/ retryUntil # 0 /\ UNCHANGED <<heard, threads>>
  /\ retryUntil' = 0 /\ owed' = 0
  /\ UNCHANGED <<outage, audit, memory, calls, asleep, clock, crashes, limited>>

PollLimited(wait) ==
  /\ clock >= asleep
  /\ limited < MaxLimited
  /\ limited' = limited + 1
  /\ retryUntil' = clock + wait /\ owed' = 0
  /\ asleep' = clock + wait
  /\ UNCHANGED <<threads, outage, audit, memory, calls, heard, clock, crashes>>

Tick ==
  /\ clock < MaxClock
  /\ clock' = clock + 1
  /\ UNCHANGED <<ledger, memory, calls, heard, asleep, crashes, limited, owed>>

\* The daemon dies and is started again: the ledger and what was delivered
\* stay, the chain, the budget and the calls in flight do not.
Crash ==
  /\ crashes < MaxCrashes
  /\ crashes' = crashes + 1
  /\ tail' = None /\ groupWindow' = {} /\ chatWindows' = [c \in Chats |-> {}]
  /\ calls' = [c \in Calls |->
                 IF calls[c].pc \in {"queued", "posting", "sent"}
                 THEN [Over(calls[c]) EXCEPT !.pc = "lost"] ELSE calls[c]]
  /\ asleep' = 0
  /\ UNCHANGED <<ledger, heard, clock, limited, owed>>

Init ==
  /\ threads \in Initial
  /\ retryUntil = 0 /\ outage = FALSE /\ audit = {}
  /\ tail = None /\ groupWindow = {} /\ chatWindows = [c \in Chats |-> {}]
  /\ calls = [c \in Calls |-> Idle]
  /\ heard = {} /\ asleep = 0 /\ clock = 0 /\ crashes = 0 /\ limited = 0
  /\ owed = 0

Post(c) ==
  \/ \E chat \in Chats : Land(c, chat) \/ Miss(c, chat)
  \/ \E chat \in Chats, wait \in Waits : Limited(c, chat, wait)
  \/ Unsendable(c)

\* One step of a call's own.
Step(c) ==
  \/ Refuse(c) \/ HoldBack(c) \/ Begin(c) \/ Post(c)
  \/ Record(c) \/ RollBack(c) \/ Fail(c)

Next ==
  \/ \E c \in Calls, in \in Inputs : Submit(c, in)
  \/ \E c \in Calls : Step(c)
  \/ Poll
  \/ \E wait \in Waits : PollLimited(wait)
  \/ Tick
  \/ Crash

Spec == Init /\ [][Next]_vars

\* Every request to Telegram is answered or times out (AbortSignal.timeout in
\* telegram.ts), and the process runs what is runnable.
FairSpec == Spec /\ \A c \in Calls : WF_vars(Step(c))

-----------------------------------------------------------------------------
(* Properties.                                                             *)

CallRecord ==
  [pc : {"idle", "queued", "posting", "sent", "settled", "lost"},
   input : Inputs \cup {None}, after : Calls \cup {None},
   existing : ThreadRow \cup {None}, before : Nat, at : Nat, life : Nat,
   left : SUBSET Chats, landed : SUBSET Chats, failed : SUBSET Chats,
   result : Results \cup {None}]

\* The ledger, the daemon's memory and the calls keep their types, and a call
\* awaits an answer exactly while it has somebody left to tell.
TypeOK ==
  /\ threads \in [Threads -> ThreadRow]
  /\ retryUntil \in Nat /\ owed \in Nat
  /\ outage \in BOOLEAN
  /\ audit \subseteq (Calls \cup {None}) \X Results
  /\ tail \in Calls \cup {None}
  /\ groupWindow \subseteq Calls \X Nat
  /\ chatWindows \in [Chats -> SUBSET (Calls \X Nat)]
  /\ calls \in [Calls -> CallRecord]
  /\ \A c \in Calls : calls[c].pc = "posting" <=> calls[c].left # {}
  /\ heard \subseteq PeerSays
  /\ asleep \in Nat /\ clock \in 0..MaxClock
  /\ crashes \in 0..MaxCrashes /\ limited \in 0..MaxLimited

\* The binding's mutex: of the calls of one binding, one at a time is between
\* its reading of the thread and its writing of it.
SendsAreSerial ==
  \A c, d \in Calls : Running(c) /\ Running(d) => c = d

Reported(c) == calls[c].result \in {"ok", "degraded"}

\* A message the client was told was sent stays in its thread's history, past
\* every later send of ours: no send writes over what an earlier one wrote.
\* (Instances keep fewer entries than MaxHistory.)
OwnWordIsKept ==
  \A c \in Calls :
    Reported(c) /\ calls[c].input.type \in InThreadTypes =>
      \E e \in threads[ThreadFor(c)].history : e.eid = c

\* A call that ends in a refusal or an error has reached nobody that Telegram
\* confirmed, so that the agent may ask again; but for a broadcast that carries
\* a debate's turn, which every peer has when its caller is told of an error.
\* (A request that timed out may have been taken; nothing can tell.)
RefusedReachedNobody ==
  \A c \in Calls :
    calls[c].result \in Refusals \cup Failures =>
      \/ calls[c].landed = {}
      \/ JournalRefuses(calls[c].input) /\ calls[c].result = "TOOL_ERROR"

\* The one close a thread may carry that no peer has been told of is an
\* abandonment by the agent that opened it, and its message is nowhere.
UntoldCloseIsAbandonment ==
  \A t \in Threads :
    threads[t].status = "resolved" /\ ~threads[t].delivered =>
      /\ threads[t].basis = "abandoned"
      /\ threads[t].from = Me /\ threads[t].resolved_by = Me
      /\ \E c \in Calls : /\ Settled(c) /\ Abandons(c) /\ ThreadFor(c) = t
                          /\ calls[c].landed = {}

\* Every close in the ledger is by somebody with the right to it; ours are
\* checked by validateSend alone, against a row that may since have changed.
ClosesAreEntitled ==
  \A t \in Threads : LET row == threads[t] IN
    /\ TurnIsConsistent(row) /\ ClosureIsAuthorized(row)
    /\ row.status = "resolved" /\ row.resolved_by = Me =>
         IF row.basis = "abandoned" THEN row.from = Me ELSE row.to = Me

\* Of the waits Telegram names to the requests of one or several calls, the
\* column keeps the longest until the poller writes it.
LongestWaitIsKept == retryUntil >= owed

\* The daemon's own pace: over one life of it no window holds more messages
\* than its limit, whatever the calls and their recipients.
PaceIsKept ==
  \A c \in Calls :
    calls[c].pc \in {"posting", "sent"} =>
      LET Within(width) == {d \in Calls : /\ calls[d].life = calls[c].life
                                          /\ calls[d].landed \cup calls[d].failed # {}
                                          /\ calls[d].at <= calls[c].at
                                          /\ calls[c].at - calls[d].at < width}
          To(chat) == {d \in Within(Second) : chat \in calls[d].landed \cup calls[d].failed}
      IN /\ Cardinality(Within(Minute)) <= GroupLimit
         /\ \A chat \in Chats : Cardinality(To(chat)) <= ChatLimit

\* Every call gets an answer while its daemon lives, whatever became of the
\* calls before it.
EveryCallSettles ==
  \A c \in Calls :
    calls[c].pc = "queued" ~> calls[c].pc \in {"settled", "lost"}

=============================================================================
