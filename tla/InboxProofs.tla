----------------------------- MODULE InboxProofs -----------------------------
(***************************************************************************)
(* What holds of Inbox for any roster, any wire, any batch size and any    *)
(* number of crashes: what any number of poll loops keep, what one loop    *)
(* does, and what many still do when each response keeps messages apart.   *)
(***************************************************************************)
EXTENDS Inbox, SequenceTheorems, WellFoundedInduction, TLAPS

-----------------------------------------------------------------------------
(* What the transition function keeps true of a row, whichever row and     *)
(* envelope it is given.                                                   *)

\* A row whose turn and whose close are in order.
Sound(row) == TurnIsConsistent(row) /\ ClosureIsAuthorized(row)

\* The branches of applyEnvelope cover every envelope.
LEMMA OutcomeType ==
  ASSUME NEW row, NEW env \in Envelope
  PROVE  OutcomeOf(row, env) \in Outcomes
  BY DEF OutcomeOf, Outcomes, Envelope, Types

\* The row each outcome leaves.
LEMMA RowOfOutcome ==
  ASSUME NEW row, NEW env
  PROVE  /\ OutcomeOf(row, env) = "opened" => RowAfter(row, env) = Opened(env)
         /\ OutcomeOf(row, env) = "acked" => RowAfter(row, env) = Acked(row, env)
         /\ OutcomeOf(row, env) = "replied" => RowAfter(row, env) = Replied(row, env)
         /\ OutcomeOf(row, env) = "resolved" => RowAfter(row, env) = Resolved(row, env)
         /\ OutcomeOf(row, env) \notin Transitions => RowAfter(row, env) = row
  BY DEF RowAfter, Transitions

\* A transition leaves a well-formed row, and any other outcome the row it
\* was given.
LEMMA RowAfterType ==
  ASSUME NEW row \in ThreadRow, NEW env \in Envelope
  PROVE  RowAfter(row, env) \in ThreadRow
<1> DEFINE entry == [eid |-> env.eid, type |-> env.type,
                     from |-> env.from, at |-> env.at]
<1>1. AppendHistory(row, env) \in SUBSET HistoryEntry
  <2>1. entry \in HistoryEntry
    BY DEF Envelope, HistoryEntry
  <2>2. row.history \in SUBSET HistoryEntry
    BY DEF ThreadRow
  <2> QED
    BY <2>1, <2>2 DEF AppendHistory
<1>2. UserOf(env.to) \in Users \cup {None}
  BY RosterAssumption DEF UserOf
<1>3. Opened(env) \in ThreadRow
  BY <1>2 DEF Opened, Envelope, ThreadRow, Bases
<1>4. Acked(row, env) \in ThreadRow
  <2>1. row.acks + 1 \in Nat
    BY DEF ThreadRow
  <2> QED
    BY <1>1, <2>1 DEF Acked, ThreadRow
<1>5. Replied(row, env) \in ThreadRow
  BY <1>1 DEF Replied, ThreadRow
<1>6. Resolved(row, env) \in ThreadRow
  BY <1>1 DEF Resolved, Envelope, ThreadRow
<1> QED
  BY <1>3, <1>4, <1>5, <1>6, RowOfOutcome, OutcomeType DEF Outcomes, Transitions

\* What the receive-side rules have established once they refuse nothing.
LEMMA NotRefused ==
  ASSUME NEW row, NEW env, ClassifyRejection(env, row) = None
  PROVE  /\ row.opened_type = "REQUEST"
         /\ \/ IsAddressee(env, row)
            \/ AbandoningOwnThread(env, row)
            \/ ContinuingOwnThread(env, row)
         /\ row.status = "resolved" => env.type \notin {"RESOLVED", "REPLY"}
<1>1. ClassifyRejection(env, row) \notin
        {"not_requestable", "unanchored", "unauthorized", "stale"}
  BY NoneAssumption
<1> QED
  BY <1>1 DEF ClassifyRejection

\* Whatever a verified peer sends, in whatever order, the row that results is
\* closed only by somebody with the right to close it, and an open row waits
\* for one of its two ends.
LEMMA PeerKeepsRowSound ==
  ASSUME NEW row \in ThreadRow, Sound(row),
         NEW env \in Envelope, env.from # Me
  PROVE  Sound(RowAfter(row, env))
<1>1. CASE OutcomeOf(row, env) = "opened"
  BY <1>1, RowOfOutcome DEF Opened, Sound, TurnIsConsistent, ClosureIsAuthorized
<1>2. CASE OutcomeOf(row, env) = "acked"
  <2>1. RowAfter(row, env) = Acked(row, env)
    BY <1>2, RowOfOutcome
  <2>2. \A f \in {"status", "resolved_by", "awaiting", "from", "to", "to_user", "basis"} :
          Acked(row, env)[f] = row[f]
    BY DEF Acked, ThreadRow
  <2> QED
    BY <2>1, <2>2 DEF Sound, TurnIsConsistent, ClosureIsAuthorized
<1>3. CASE OutcomeOf(row, env) = "replied"
  <2>1. env.type = "REPLY" /\ Held(row) /\ ClassifyRejection(env, row) = None
    BY <1>3 DEF OutcomeOf, Refused, Envelope, Types
  <2>2. row.status = "open"
    BY <2>1, NotRefused DEF Held, ThreadRow
  <2>3. RowAfter(row, env) = Replied(row, env)
    BY <1>3, RowOfOutcome
  <2>4. /\ Replied(row, env).status = "open"
        /\ Replied(row, env).resolved_by = None
        /\ Replied(row, env).awaiting \in {row.from, row.to}
        /\ Replied(row, env).from = row.from
        /\ Replied(row, env).to = row.to
    BY <2>2 DEF Replied, ThreadRow, Sound, TurnIsConsistent
  <2> QED
    BY <2>3, <2>4 DEF Sound, TurnIsConsistent, ClosureIsAuthorized
<1>4. CASE OutcomeOf(row, env) = "resolved"
  <2>1. env.type = "RESOLVED" /\ Held(row) /\ ClassifyRejection(env, row) = None
    BY <1>4 DEF OutcomeOf, Refused, Envelope, Types
  <2>2. IsAddressee(env, row) \/ AbandoningOwnThread(env, row)
    BY <2>1, NotRefused DEF ContinuingOwnThread
  <2>3. env.from # None
    BY NoneAssumption DEF Envelope
  <2>4. RowAfter(row, env) = Resolved(row, env)
    BY <1>4, RowOfOutcome
  <2>5. TurnIsConsistent(Resolved(row, env))
    BY <2>3 DEF Resolved, ThreadRow, TurnIsConsistent
  <2>6. ClosureIsAuthorized(Resolved(row, env))
    BY <2>2 DEF Resolved, ThreadRow, ClosureIsAuthorized, IsAddressee, AbandoningOwnThread
  <2> QED
    BY <2>4, <2>5, <2>6 DEF Sound
<1> QED
  BY <1>1, <1>2, <1>3, <1>4, RowOfOutcome, OutcomeType DEF Outcomes, Transitions

-----------------------------------------------------------------------------
(* The least and the greatest of a set of update ids.                      *)

LEMMA FirstOfIsLeast ==
  ASSUME NEW S \in SUBSET Nat, S # {}
  PROVE  FirstOf(S) \in S /\ \A v \in S : FirstOf(S) <= v
<1> DEFINE R == OpToRel(<, Nat)
<1>1. IsWellFoundedOn(R, Nat)
  BY NatLessThanWellFounded
<1>2. \A u, v \in Nat : u < v => <<u, v>> \in R
  BY DEF OpToRel
<1> HIDE DEF R
<1>3. PICK u \in S : \A v \in S : ~ (<<v, u>> \in R)
  BY <1>1, WFMin
<1>4. \A v \in S : u <= v
  <2> TAKE v \in S
  <2>1. u \in Nat /\ v \in Nat
    OBVIOUS
  <2>2. ~ (v < u)
    BY <1>2, <1>3, <2>1, Zenon
  <2> QED
    BY <2>1, <2>2
<1> QED
  BY <1>4 DEF FirstOf

LEMMA LastOfIsGreatest ==
  ASSUME NEW n \in Nat, NEW S \in SUBSET (0..n), S # {}
  PROVE  LastOf(S) \in S /\ \A v \in S : v <= LastOf(S)
<1> DEFINE T == {k \in Nat : n - k \in S}
<1>1. T # {}
  <2>1. PICK v \in S : TRUE
    OBVIOUS
  <2>2. n - v \in T
    BY <2>1
  <2> QED
    BY <2>2
<1>2. PICK k \in T : \A l \in T : k <= l
  BY <1>1, FirstOfIsLeast
<1>3. n - k \in S
  OBVIOUS
<1>4. \A v \in S : v <= n - k
  <2> TAKE v \in S
  <2>1. n - v \in T
    OBVIOUS
  <2>2. k <= n - v
    BY <1>2, <2>1
  <2> QED
    BY <2>2
<1> HIDE DEF T
<1> QED
  BY <1>3, <1>4 DEF LastOf

-----------------------------------------------------------------------------
(* What admission makes of one message.                                    *)

LEMMA ReverseRosterType ==
  ASSUME NEW user
  PROVE  ReverseRoster(user) \in DOMAIN Roster \cup {None}
  BY DEF ReverseRoster

LEMMA PeerIsNamed ==
  ASSUME NEW m, FromPeer(m)
  PROVE  ReverseRoster(m.user) \in DOMAIN Roster \ {Me}
  BY ReverseRosterType DEF FromPeer

\* An update is dropped for one of the reasons, or comes from a peer.
LEMMA DropReasonType ==
  ASSUME NEW p \in Pollers, NEW u, telegram[u] \in Message
  PROVE  \/ DropReason(p, u) \in DropReasons
         \/ DropReason(p, u) = None /\ FromPeer(telegram[u])
<1> DEFINE m == telegram[u]
<1>1. Unreadable(m) \/ OutOfScope(m) \/ FromStranger(m) \/ SelfEcho(m) \/ FromPeer(m)
  BY DEF OutOfScope, FromStranger, SelfEcho, FromPeer
<1>2. CASE Unreadable(m)
  BY <1>2 DEF DropReason, DropReasons, OutOfScope, FromStranger, SelfEcho, FromPeer, Unreadable
<1>3. CASE ~Unreadable(m) /\ OutOfScope(m)
  BY <1>3 DEF DropReason, DropReasons, FromStranger, SelfEcho, FromPeer
<1>4. CASE FromStranger(m)
  BY <1>4 DEF DropReason, DropReasons, FromStranger, SelfEcho, FromPeer
<1>5. CASE SelfEcho(m)
  BY <1>5, RosterAssumption, NoneAssumption
  DEF DropReason, DropReasons, FromStranger, SelfEcho, FromPeer
<1>6. CASE FromPeer(m)
  BY <1>6 DEF DropReason, DropReasons, FromStranger, SelfEcho, FromPeer
<1> QED
  BY <1>1, <1>2, <1>3, <1>4, <1>5, <1>6

\* The only update dropped without an audit row is our own echo.
LEMMA EchoIsOurs ==
  ASSUME NEW p \in Pollers, NEW u, telegram[u] \in Message,
         DropReason(p, u) = "self_echo"
  PROVE  SelfEcho(telegram[u])
<1> DEFINE m == telegram[u]
<1>1. Unreadable(m) \/ OutOfScope(m) \/ FromStranger(m) \/ SelfEcho(m) \/ FromPeer(m)
  BY DEF OutOfScope, FromStranger, SelfEcho, FromPeer
<1>2. ~ Unreadable(m)
  BY DEF DropReason, OutOfScope, FromStranger, SelfEcho, FromPeer, Unreadable
<1>3. ~ OutOfScope(m)
  BY <1>2 DEF DropReason, FromStranger, SelfEcho, FromPeer
<1>4. ~ FromStranger(m)
  BY <1>2, <1>3, RosterAssumption, NoneAssumption
  DEF DropReason, FromStranger, SelfEcho, FromPeer
<1>5. ~ FromPeer(m)
  <2> SUFFICES ASSUME FromPeer(m) PROVE FALSE
    OBVIOUS
  <2>1. DropReason(p, u) \in {"duplicate", "malformed", None}
    BY DEF DropReason, FromStranger, SelfEcho, FromPeer
  <2> QED
    BY <2>1, ReasonsAssumption DEF DropReasons
<1> QED
  BY <1>1, <1>2, <1>3, <1>4, <1>5

LEMMA TrustedEnvelopeType ==
  ASSUME NEW u \in Nat, telegram[u] \in Message, FromPeer(telegram[u])
  PROVE  TrustedEnvelope(u) \in Envelope
<1>1. ReverseRoster(telegram[u].user) \in Names
  BY PeerIsNamed, RosterAssumption
<1>2. TranslateAddressee(telegram[u]) \in Names \cup {None}
  BY ReverseRosterType, RosterAssumption DEF TranslateAddressee, Message
<1>3. telegram[u].chat \in {"group", "private"}
  BY DEF FromPeer, OutOfScope, Message
<1> QED
  BY <1>1, <1>2, <1>3 DEF TrustedEnvelope, Envelope, Message

LEMMA RejectionType ==
  ASSUME NEW row, NEW env \in Envelope, OutcomeOf(row, env) = "rejected"
  PROVE  ClassifyRejection(env, row) \in
           {"not_requestable", "unanchored", "unauthorized", "stale"}
<1>1. ClassifyRejection(env, row) # None
  BY DEF OutcomeOf, Refused, Envelope, Types
<1> QED
  BY <1>1 DEF ClassifyRejection

\* Every element of batchEntries is a row to insert or a reason to drop.
LEMMA JudgeType ==
  ASSUME NEW p \in Pollers, NEW u \in UpdateIds, telegram[u] \in Message,
         threads \in [Threads -> ThreadRow]
  PROVE  Judge(p, u) \in Entry /\ Judge(p, u).update = u
<1>1. CASE DropReason(p, u) # None
  <2>1. DropReason(p, u) \in DropReasons
    BY <1>1, DropReasonType
  <2> QED
    BY <1>1, <2>1 DEF Judge, Drop, Entry, Dropped
<1>2. CASE DropReason(p, u) = None
  <2> DEFINE env == TrustedEnvelope(u)
             row == threads[env.thread]
  <2>1. env \in Envelope
    BY <1>2, DropReasonType, ReasonsAssumption, TrustedEnvelopeType,
       InboxAssumption DEF UpdateIds
  <2>2. row \in ThreadRow
    BY <2>1 DEF Envelope
  <2>3. RowAfter(row, env) \in ThreadRow
    BY <2>1, <2>2, RowAfterType
  <2>4. OutcomeOf(row, env) \in Outcomes
    BY <2>1, OutcomeType
  <2>5. (IF OutcomeOf(row, env) = "rejected" THEN ClassifyRejection(env, row)
                                             ELSE OutcomeOf(row, env)) \in Reasons
    BY <2>1, <2>4, RejectionType DEF Reasons
  <2> QED
    BY <1>2, <2>3, <2>4, <2>5 DEF Judge, Admit, Entry, Admitted
<1> QED
  BY <1>1, <1>2

-----------------------------------------------------------------------------
(* The types, and the two facts about a batch they rest on.                *)

\* A response being admitted is never empty: an empty one ends the poll.
BatchesAreLive == \A p \in Pollers : pc[p] = "admitting" => batch[p] # {}

\* batchEntries is about the updates of the response, and no others.
EntriesAreOfTheBatch ==
  \A p \in Pollers : \A i \in DOMAIN entries[p] : entries[p][i].update \in batch[p]

TypeInv == TypeOK /\ BatchesAreLive /\ EntriesAreOfTheBatch

LEMMA MessageOf ==
  ASSUME TypeOK, NEW u \in 1..Len(telegram)
  PROVE  /\ telegram[u] \in Message
         /\ u \in UpdateIds
  BY InboxAssumption DEF TypeOK, UpdateIds

\* What Classify takes up next is an update of the response in hand.
LEMMA NextOfBatch ==
  ASSUME TypeOK, NEW p \in Pollers, Rest(p) # {}
  PROVE  /\ FirstOf(Rest(p)) \in Rest(p)
         /\ FirstOf(Rest(p)) \in 1..Len(telegram)
<1>1. Rest(p) \in SUBSET Nat /\ Rest(p) \in SUBSET (1..Len(telegram))
  BY DEF Rest, TypeOK
<1> QED
  BY <1>1, FirstOfIsLeast

LEMMA InitTypeInv == Init => TypeInv
<1> SUFFICES ASSUME Init PROVE TypeInv
  OBVIOUS
<1>1. TypeOK
  BY InboxAssumption, EmptySeq DEF Init, TypeOK, UpdateIds, Places, Reasons
<1>2. BatchesAreLive /\ EntriesAreOfTheBatch
  BY DEF Init, BatchesAreLive, EntriesAreOfTheBatch
<1> QED
  BY <1>1, <1>2 DEF TypeInv

\* What the transaction writes is made of what its entries carry.
LEMMA CommitTypes ==
  ASSUME TypeOK, NEW p \in Pollers, batch[p] # {}
  PROVE  /\ InsertUpdates(p) \in [UpdateIds -> Outcomes \cup {"absent"}]
         /\ WriteThreads(p) \in [Threads -> ThreadRow]
         /\ AppendAudits(p) \in [UpdateIds -> Seq(Reasons)]
         /\ AdvanceOffset(p) \in 1..Len(telegram) + 1
<1>1. entries[p] \in Seq(Entry) /\ Len(entries[p]) \in Nat
  BY DEF TypeOK
<1>2. \A i \in DOMAIN entries[p] : entries[p][i] \in Entry
  BY <1>1
<1>3. \A i \in Inserted(p) : entries[p][i] \in Admitted
  BY <1>2 DEF Inserted, Written, Entry, Dropped
<1>4. InsertUpdates(p) \in [UpdateIds -> Outcomes \cup {"absent"}]
  BY <1>3 DEF InsertUpdates, TypeOK, Admitted
<1>5. \A t \in Threads : Writers(p, t) # {} => LastOf(Writers(p, t)) \in Inserted(p)
  <2> TAKE t \in Threads
  <2>1. Writers(p, t) \in SUBSET (0..Len(entries[p]))
    BY <1>1 DEF Writers, Inserted, Written
  <2> QED
    BY <1>1, <2>1, LastOfIsGreatest DEF Writers
<1>6. WriteThreads(p) \in [Threads -> ThreadRow]
  BY <1>3, <1>5 DEF WriteThreads, TypeOK, Admitted
<1>7. \A i \in DOMAIN entries[p] : entries[p][i].reason \in Reasons
  BY <1>2 DEF Entry, Admitted, Dropped, Reasons
<1>8. AppendAudits(p) \in [UpdateIds -> Seq(Reasons)]
  BY <1>7 DEF AppendAudits, TypeOK, Written
<1>9. AdvanceOffset(p) \in 1..Len(telegram) + 1
  <2>1. batch[p] \in SUBSET (0..Len(telegram)) /\ Len(telegram) \in Nat
    BY DEF TypeOK
  <2>2. LastOf(batch[p]) \in 1..Len(telegram)
    BY <2>1, LastOfIsGreatest DEF TypeOK
  <2> QED
    BY <2>2 DEF AdvanceOffset, TypeOK
<1> QED
  BY <1>4, <1>6, <1>8, <1>9

LEMMA StepTypeInv == TypeInv /\ [Next]_vars => TypeInv'
<1> SUFFICES ASSUME TypeInv, [Next]_vars PROVE TypeInv'
  OBVIOUS
<1> USE DEF TypeInv
<1>1. ASSUME NEW m \in Wire, Post(m) PROVE TypeInv'
  <2>1. /\ telegram' \in Seq(Wire)
        /\ Len(telegram') = Len(telegram) + 1
        /\ Len(telegram') \in 0..MaxUpdates
    BY <1>1, InboxAssumption DEF Post, TypeOK
  <2> QED
    BY <1>1, <2>1 DEF Post, TypeOK, BatchesAreLive, EntriesAreOfTheBatch, ledger, volatile, bounds
<1>2. CASE Evict
  BY <1>2 DEF Evict, TypeOK, BatchesAreLive, EntriesAreOfTheBatch, ledger, volatile, bounds
<1>3. ASSUME NEW p \in Pollers, Ask(p) PROVE TypeInv'
  BY <1>3 DEF Ask, TypeOK, BatchesAreLive, EntriesAreOfTheBatch, Places, ledger, bounds
<1>4. ASSUME NEW p \in Pollers, Receive(p) PROVE TypeInv'
  <2> DEFINE first == IF asked[p] > confirmed THEN asked[p] ELSE confirmed + 1
  <2>1. PICK last \in first - 1 .. Len(telegram) :
          /\ batch' = [batch EXCEPT ![p] = first..last]
          /\ pc' = [pc EXCEPT ![p] = IF last < first THEN "idle" ELSE "admitting"]
          /\ crowded' = crowded \cup Crowding(first..last)
    BY <1>4 DEF Receive
  <2>2. first \in 1..Len(telegram) + 1
    BY DEF TypeOK
  <2>3. first..last \subseteq 1..Len(telegram)
    BY <2>2 DEF TypeOK
  <2>4. BatchesAreLive'
    <3>1. \A q \in Pollers \ {p} : pc'[q] = pc[q] /\ batch'[q] = batch[q]
      BY <2>1 DEF TypeOK
    <3>2. pc'[p] = "admitting" => batch'[p] # {}
      <4> SUFFICES ASSUME pc'[p] = "admitting" PROVE first \in batch'[p]
        OBVIOUS
      <4>1. ~ (last < first)
        BY <2>1 DEF TypeOK
      <4>2. first \in Nat /\ last \in Int
        BY <2>2 DEF TypeOK
      <4>3. batch'[p] = first..last
        BY <2>1 DEF TypeOK
      <4> HIDE DEF first
      <4> QED
        BY <4>1, <4>2, <4>3
    <3> QED
      BY <3>1, <3>2 DEF BatchesAreLive
  <2> HIDE DEF first
  <2>6. EntriesAreOfTheBatch'
    BY <1>4, <2>1 DEF Receive, TypeOK, EntriesAreOfTheBatch
  <2>a. crowded' \subseteq Threads
    <3>1. \A u \in first..last : telegram[u].thread \in Threads
      BY <2>3, MessageOf DEF Message
    <3>2. Crowding(first..last) \subseteq Threads
      BY <3>1 DEF Crowding
    <3> QED
      BY <2>1, <3>2 DEF TypeOK
  <2>5. TypeOK'
    BY <1>4, <2>1, <2>3, <2>a, EmptySeq
    DEF Receive, TypeOK, Places, server, ledger, bounds
  <2> QED
    BY <2>4, <2>5, <2>6
<1>5. ASSUME NEW p \in Pollers, PollFails(p) PROVE TypeInv'
  BY <1>5, InboxAssumption
  DEF PollFails, TypeOK, BatchesAreLive, EntriesAreOfTheBatch, Places, server, ledger
<1>6. ASSUME NEW p \in Pollers, Conflict(p) PROVE TypeInv'
  BY <1>6, InboxAssumption
  DEF Conflict, TypeOK, BatchesAreLive, EntriesAreOfTheBatch, Places, server, ledger
<1>7. ASSUME NEW p \in Pollers, Classify(p) PROVE TypeInv'
  <2> DEFINE u == FirstOf(Rest(p))
             m == telegram[u]
             entry == Judge(p, u)
  <2>1. u \in 1..Len(telegram)
    BY <1>7, NextOfBatch DEF Classify
  <2>2. m \in Message /\ u \in UpdateIds
    BY <2>1, MessageOf
  <2>3. entry \in Entry /\ entry.update \in batch[p]
    BY <1>7, <2>2, NextOfBatch, JudgeType DEF Classify, TypeOK, Rest
  <2>4. m.eid \in Eids /\ m.thread \in Threads /\ m.user \in Users \cup {None}
    BY <2>2 DEF Message
  <2>5. /\ entries' = [entries EXCEPT ![p] = Append(@, entry)]
        /\ unknown' = unknown \cup Sighted(m, entry)
        /\ threads' = IF CapturesAnchor(m, entry)
                      THEN [threads EXCEPT ![m.thread].anchor = u] ELSE threads
        /\ seen' = IF Remembers(m, entry)
                   THEN [seen EXCEPT ![p] = @ \cup {m.eid}] ELSE seen
    BY <1>7 DEF Classify
  <2> HIDE DEF u, m, entry
  <2>6. entries' \in [Pollers -> Seq(Entry)]
    BY <2>3, <2>5 DEF TypeOK
  <2>7. unknown' \subseteq Users
    BY <2>4, <2>5 DEF TypeOK, Sighted
  <2>8. threads' \in [Threads -> ThreadRow]
    <3>1. u \in Nat
      BY <2>1
    <3>2. \A row \in ThreadRow : [row EXCEPT !.anchor = u] \in ThreadRow
      BY <3>1 DEF ThreadRow
    <3> QED
      BY <2>4, <2>5, <3>2 DEF TypeOK
  <2>9. seen' \in [Pollers -> SUBSET Eids]
    BY <2>4, <2>5 DEF TypeOK
  <2>10. EntriesAreOfTheBatch'
    BY <1>7, <2>3, <2>5 DEF Classify, TypeOK, EntriesAreOfTheBatch
  <2> QED
    BY <1>7, <2>6, <2>7, <2>8, <2>9, <2>10
    DEF Classify, TypeOK, BatchesAreLive, server, bounds
<1>8. ASSUME NEW p \in Pollers, Commit(p) PROVE TypeInv'
  <2>1. batch[p] # {}
    BY <1>8 DEF Commit, Ready, BatchesAreLive
  <2> QED
    BY <1>8, <2>1, CommitTypes
    DEF Commit, TypeOK, BatchesAreLive, EntriesAreOfTheBatch, Places, server, bounds
<1>9. ASSUME NEW p \in Pollers, Rollback(p) PROVE TypeInv'
  BY <1>9 DEF Rollback, TypeOK, BatchesAreLive, EntriesAreOfTheBatch, Places, server, ledger, bounds
<1>10. ASSUME NEW p \in Pollers, RecordCheckpoint(p) PROVE TypeInv'
  <2>1. BatchCheckpoints(p) \in SUBSET (1..Len(telegram))
    BY DEF BatchCheckpoints, EntriesAreOfTheBatch, TypeOK
  <2>2. checkpoint' \in 0..Len(telegram)
    <3>1. BatchCheckpoints(p) \in SUBSET (0..Len(telegram)) /\ Len(telegram) \in Nat
      BY <2>1 DEF TypeOK
    <3>2. BatchCheckpoints(p) # {} => LastOf(BatchCheckpoints(p)) \in 1..Len(telegram)
      BY <2>1, <3>1, LastOfIsGreatest
    <3> QED
      BY <1>10, <3>2 DEF RecordCheckpoint, TypeOK
  <2> QED
    BY <1>10, <2>2
    DEF RecordCheckpoint, TypeOK, BatchesAreLive, EntriesAreOfTheBatch, Places, server, bounds
<1>11. ASSUME NEW p \in Pollers, Crash(p) PROVE TypeInv'
  BY <1>11, InboxAssumption, EmptySeq
  DEF Crash, TypeOK, BatchesAreLive, EntriesAreOfTheBatch, Places, server, ledger
<1>12. ASSUME NEW p \in Pollers, Start(p) PROVE TypeInv'
  BY <1>12 DEF Start, TypeOK, BatchesAreLive, EntriesAreOfTheBatch, Places, server, ledger, bounds
<1>13. CASE UNCHANGED vars
  BY <1>13 DEF vars, server, ledger, volatile, bounds, TypeOK, BatchesAreLive, EntriesAreOfTheBatch
<1> QED
  BY <1>1, <1>2, <1>3, <1>4, <1>5, <1>6, <1>7, <1>8, <1>9, <1>10, <1>11, <1>12, <1>13
  DEF Next, PollLoop

\* The queue, the ledger and each loop's memory keep their types.
THEOREM TypeCorrect == Spec => []TypeOK
<1>1. TypeInv /\ [Next]_vars => TypeInv'
  BY StepTypeInv
<1>2. TypeInv => TypeOK
  BY DEF TypeInv
<1> QED
  BY InitTypeInv, <1>1, <1>2, PTL DEF Spec

LEMMA TypeInvAlways == Spec => []TypeInv
  BY InitTypeInv, StepTypeInv, PTL DEF Spec

-----------------------------------------------------------------------------
(* Nothing is forgotten before it is judged.                               *)

\* A poll asks for no more than the ledger has moved past, a response leaves
\* nothing unaccounted for below its last update, and the only entry that
\* will leave no trace is our own echo's.
NothingSkipped ==
  \A p \in Pollers :
    /\ asked[p] <= offset
    /\ pc[p] = "admitting" =>
         \A u \in 1..LastOf(batch[p]) : u \in batch[p] \/ u < offset \/ u \in evicted
    /\ \A i \in DOMAIN entries[p] :
         entries[p][i].reason = "self_echo" => SelfEcho(telegram[entries[p][i].update])

SafeInv == TypeInv /\ NothingSkipped /\ ConfirmedIsJudged

LEMMA AppendedIsSomething ==
  ASSUME NEW S, NEW s \in Seq(S), NEW e \in S
  PROVE  Append(s, e) # <<>>
<1>1. Len(Append(s, e)) = Len(s) + 1 /\ Len(s) \in Nat /\ Len(<<>>) = 0
  BY EmptySeq
<1> QED
  BY <1>1

LEMMA InitSafeInv == Init => SafeInv
<1> SUFFICES ASSUME Init PROVE SafeInv
  OBVIOUS
<1>1. TypeInv
  BY InitTypeInv
<1>2. NothingSkipped
  BY DEF Init, NothingSkipped
<1>3. ConfirmedIsJudged
  BY DEF Init, ConfirmedIsJudged
<1> QED
  BY <1>1, <1>2, <1>3 DEF SafeInv

\* The transaction leaves a trace of every update of its batch, and rubs out
\* none.
LEMMA CommitJudges ==
  ASSUME TypeInv, NothingSkipped, NEW p \in Pollers, Commit(p)
  PROVE  /\ \A u \in 1..Len(telegram) : Judged(u) => Judged(u)'
         /\ \A u \in batch[p] : Judged(u)'
<1>1. batch[p] \subseteq 1..Len(telegram) /\ 1..Len(telegram) \subseteq UpdateIds
  BY MessageOf DEF TypeInv, TypeOK
<1>2. updates' = InsertUpdates(p) /\ audits' = AppendAudits(p) /\ telegram' = telegram
  BY DEF Commit, server
<1>3. \A i \in DOMAIN entries[p] : entries[p][i] \in Entry
  BY DEF TypeInv, TypeOK
<1>4. \A i \in Inserted(p) : entries[p][i].outcome # "absent"
  BY <1>3 DEF Inserted, Written, Entry, Dropped, Admitted, Outcomes
<1>5. \A u \in UpdateIds : Stored(u) => Stored(u)'
  BY <1>2, <1>4 DEF InsertUpdates, Stored
<1>6. \A u \in UpdateIds : audits[u] # <<>> => audits'[u] # <<>>
  <2> SUFFICES ASSUME NEW u \in UpdateIds, audits[u] # <<>> PROVE audits'[u] # <<>>
    OBVIOUS
  <2>1. \A e \in Reasons : Append(audits[u], e) # <<>>
    BY AppendedIsSomething DEF TypeInv, TypeOK
  <2>2. \A i \in Written(p) : entries[p][i].reason \in Reasons
    BY <1>3 DEF Written, Entry, Admitted, Dropped, Reasons
  <2> QED
    BY <1>2, <2>1, <2>2 DEF AppendAudits
<1>7. \A u \in 1..Len(telegram) : Judged(u) => Judged(u)'
  BY <1>1, <1>2, <1>5, <1>6 DEF Judged, SelfEcho, Unreadable, OutOfScope
<1>8. ASSUME NEW u \in batch[p] PROVE Judged(u)'
  <2>1. PICK i \in DOMAIN entries[p] : entries[p][i].update = u
    BY DEF Commit, Ready, Rest
  <2>2. u \in UpdateIds
    BY <1>1
  <2>3. CASE i \notin Written(p)
    BY <1>5, <2>1, <2>2, <2>3 DEF Written, Replayed, Judged
  <2>4. CASE i \in Inserted(p)
    <3>1. updates'[u] # "absent"
      BY <1>2, <1>4, <2>1, <2>2, <2>4 DEF InsertUpdates
    <3> QED
      BY <3>1 DEF Judged, Stored
  <2>5. CASE i \in Written(p) \ Inserted(p)
    <3> DEFINE k == CHOOSE j \in Written(p) : entries[p][j].update = u
    <3>1. k \in Written(p) /\ entries[p][k].update = u
      BY <2>1, <2>5
    <3>2. CASE entries[p][k].reason = "self_echo"
      <4>1. SelfEcho(telegram[u])
        BY <3>1, <3>2 DEF NothingSkipped, Written
      <4> QED
        BY <1>2, <4>1 DEF Judged, SelfEcho, Unreadable, OutOfScope
    <3>3. CASE entries[p][k].reason # "self_echo"
      <4>1. audits'[u] = Append(audits[u], entries[p][k].reason)
        BY <1>2, <2>1, <2>2, <2>5, <3>3 DEF AppendAudits
      <4>2. audits'[u] # <<>>
        <5>1. entries[p][k].reason \in Reasons
          BY <1>3, <3>1 DEF Written, Entry, Admitted, Dropped, Reasons
        <5> QED
          BY <2>2, <4>1, <5>1, AppendedIsSomething DEF TypeInv, TypeOK
      <4> QED
        BY <4>2 DEF Judged
    <3> QED
      BY <3>2, <3>3
  <2> QED
    BY <2>3, <2>4, <2>5
<1> QED
  BY <1>7, <1>8

\* Steps that neither judge nor confirm keep what they leave alone, as Post
\* keeps it by only ever appending.
LEMMA OthersKeepTrace ==
  ASSUME TypeInv, NEW u \in 1..Len(telegram),
         UNCHANGED <<updates, audits>>, telegram'[u] = telegram[u]
  PROVE  Judged(u) => Judged(u)'
  BY DEF Judged, Stored, SelfEcho, Unreadable, OutOfScope

LEMMA StepSafeInv == SafeInv /\ [Next]_vars => SafeInv'
<1> SUFFICES ASSUME SafeInv, [Next]_vars PROVE NothingSkipped' /\ ConfirmedIsJudged'
  BY StepTypeInv DEF SafeInv
<1>0. TypeInv /\ TypeInv'
  BY StepTypeInv DEF SafeInv
<1> USE DEF SafeInv
<1>a. /\ offset \in 1..Len(telegram) + 1 /\ confirmed \in 0..Len(telegram)
      /\ Len(telegram) \in Nat
  BY DEF TypeInv, TypeOK
<1>1. ASSUME NEW m \in Wire, Post(m) PROVE NothingSkipped' /\ ConfirmedIsJudged'
  <2>1. \A u \in 1..Len(telegram) : telegram'[u] = telegram[u]
    BY <1>1 DEF Post, TypeInv, TypeOK
  <2>2. \A p \in Pollers : \A i \in DOMAIN entries[p] :
          entries[p][i].update \in 1..Len(telegram)
    BY DEF TypeInv, TypeOK, EntriesAreOfTheBatch
  <2>3. NothingSkipped'
    BY <1>1, <2>1, <2>2 DEF Post, NothingSkipped, SelfEcho, Unreadable,
       OutOfScope, ledger, volatile
  <2>4. \A u \in 1..offset - 1 : Judged(u) => Judged(u)'
    BY <1>1, <1>a, <2>1, OthersKeepTrace DEF Post, ledger
  <2> QED
    BY <1>1, <2>3, <2>4 DEF Post, ConfirmedIsJudged, ledger
<1>2. CASE Evict
  <2>1. \A u \in 1..offset - 1 : Judged(u) => Judged(u)'
    BY <1>2, <1>a, OthersKeepTrace DEF Evict, ledger
  <2>2. evicted \subseteq evicted' /\ confirmed + 1 \in evicted' /\ offset' = offset
    BY <1>2 DEF Evict, ledger
  <2>3. NothingSkipped'
    BY <1>2, <2>2 DEF Evict, NothingSkipped, SelfEcho, Unreadable, OutOfScope, volatile
  <2>4. \A u \in 1..confirmed' : u < offset' \/ u \in evicted'
    BY <1>2, <1>a, <2>2 DEF Evict, ConfirmedIsJudged
  <2> QED
    BY <2>1, <2>2, <2>3, <2>4 DEF ConfirmedIsJudged
<1>3. ASSUME NEW p \in Pollers, Ask(p) PROVE NothingSkipped' /\ ConfirmedIsJudged'
  <2>1. \A u \in 1..offset - 1 : Judged(u) => Judged(u)'
    BY <1>3, <1>a, OthersKeepTrace DEF Ask, ledger
  <2>2. NothingSkipped'
    BY <1>3, <1>a DEF Ask, NothingSkipped, SelfEcho, Unreadable, OutOfScope, ledger,
       TypeInv, TypeOK
  <2> QED
    BY <1>3, <1>a, <2>1, <2>2 DEF Ask, ConfirmedIsJudged, ledger
<1>4. ASSUME NEW p \in Pollers, Receive(p) PROVE NothingSkipped' /\ ConfirmedIsJudged'
  <2> DEFINE first == IF asked[p] > confirmed THEN asked[p] ELSE confirmed + 1
  <2>1. PICK last \in first - 1 .. Len(telegram) :
          /\ batch' = [batch EXCEPT ![p] = first..last]
          /\ pc' = [pc EXCEPT ![p] = IF last < first THEN "idle" ELSE "admitting"]
    BY <1>4 DEF Receive
  <2>2. first \in Nat /\ last \in Int
    BY <2>1 DEF TypeInv, TypeOK
  <2>3. \A u \in 1..first - 1 : u < offset \/ u \in evicted
    BY <1>a, asked[p] <= offset, asked[p] \in Nat
    DEF NothingSkipped, ConfirmedIsJudged, TypeInv, TypeOK
  <2>4. batch'[p] = first..last /\ (pc'[p] = "admitting" => first <= last)
    BY <2>1, <2>2 DEF TypeInv, TypeOK
  <2> HIDE DEF first
  <2>5. pc'[p] = "admitting" =>
          \A u \in 1..LastOf(batch'[p]) : u \in batch'[p] \/ u < offset \/ u \in evicted
    <3> SUFFICES ASSUME pc'[p] = "admitting", NEW u \in 1..LastOf(batch'[p])
                 PROVE  u \in batch'[p] \/ u < offset \/ u \in evicted
      OBVIOUS
    <3>1. LastOf(batch'[p]) \in first..last
      <4>1. batch'[p] # {} /\ batch'[p] \in SUBSET (0..last) /\ last \in Nat
        BY <2>2, <2>4
      <4> QED
        BY <2>4, <4>1, LastOfIsGreatest
    <3> QED
      BY <2>2, <2>3, <2>4, <3>1
  <2>6. NothingSkipped'
    BY <1>4, <2>1, <2>5 DEF Receive, NothingSkipped, SelfEcho, Unreadable,
       OutOfScope, server, ledger, TypeInv, TypeOK
  <2>7. \A u \in 1..offset - 1 : Judged(u) => Judged(u)'
    BY <1>4, <1>a, OthersKeepTrace DEF Receive, server, ledger
  <2> QED
    BY <1>4, <2>6, <2>7 DEF Receive, ConfirmedIsJudged, server, ledger
<1>5. ASSUME NEW p \in Pollers, Classify(p) PROVE NothingSkipped' /\ ConfirmedIsJudged'
  <2> DEFINE u == FirstOf(Rest(p))
  <2>1. u \in 1..Len(telegram)
    BY <1>5, NextOfBatch DEF Classify, TypeInv
  <2>2. telegram[u] \in Message /\ u \in UpdateIds
    BY <2>1, MessageOf DEF TypeInv
  <2>3. Judge(p, u).update = u
    BY <2>2, JudgeType DEF TypeInv, TypeOK
  <2>4. Judge(p, u).reason = "self_echo" => SelfEcho(telegram[u])
    <3>1. CASE DropReason(p, u) # None
      BY <2>2, <3>1, EchoIsOurs DEF Judge, Drop
    <3>2. CASE DropReason(p, u) = None
      <4>1. TrustedEnvelope(u) \in Envelope
        BY <2>1, <2>2, <3>2, DropReasonType, ReasonsAssumption, TrustedEnvelopeType
      <4>2. Judge(p, u).reason \in Outcomes \cup
              {"not_requestable", "unanchored", "unauthorized", "stale"}
        BY <3>2, <4>1, OutcomeType, RejectionType DEF Judge, Admit
      <4> QED
        BY <4>2 DEF Outcomes
    <3> QED
      BY <3>1, <3>2
  <2>5. entries' = [entries EXCEPT ![p] = Append(@, Judge(p, u))]
    BY <1>5 DEF Classify
  <2> HIDE DEF u
  <2>6. Judge(p, u) \in Entry
    BY <2>2, JudgeType DEF TypeInv, TypeOK
  <2>7. \A q \in Pollers : \A i \in DOMAIN entries'[q] :
          entries'[q][i].reason = "self_echo" => SelfEcho(telegram[entries'[q][i].update])
    BY <2>3, <2>4, <2>5, <2>6 DEF NothingSkipped, TypeInv, TypeOK
  <2>8. UNCHANGED <<server, updates, offset, audits, pc, asked, batch>>
    BY <1>5 DEF Classify
  <2>9. NothingSkipped'
    BY <2>7, <2>8 DEF NothingSkipped, SelfEcho, Unreadable, OutOfScope, server
  <2>10. \A v \in 1..offset - 1 : Judged(v) => Judged(v)'
    BY <1>a, <2>8, OthersKeepTrace DEF server
  <2> QED
    BY <2>8, <2>9, <2>10 DEF ConfirmedIsJudged, server
<1>6. ASSUME NEW p \in Pollers, Commit(p) PROVE NothingSkipped' /\ ConfirmedIsJudged'
  <2>1. /\ \A u \in 1..Len(telegram) : Judged(u) => Judged(u)'
        /\ \A u \in batch[p] : Judged(u)'
    BY <1>6, CommitJudges
  <2>2. /\ offset' = AdvanceOffset(p)
        /\ UNCHANGED <<server, asked, batch, entries>>
        /\ pc' = [pc EXCEPT ![p] = "committed"]
        /\ pc[p] = "admitting"
    BY <1>6 DEF Commit, Ready
  <2>3. LastOf(batch[p]) \in 1..Len(telegram)
    <3>1. batch[p] # {} /\ batch[p] \in SUBSET (0..Len(telegram))
      BY <2>2 DEF TypeInv, TypeOK, BatchesAreLive
    <3> QED
      BY <1>a, <3>1, LastOfIsGreatest DEF TypeInv, TypeOK
  <2>4. /\ offset <= offset' /\ offset' \in Nat
        /\ \A u \in 1..offset' - 1 : u < offset \/ u \in 1..LastOf(batch[p])
    BY <1>a, <2>2, <2>3 DEF AdvanceOffset
  <2>5. \A u \in 1..offset' - 1 : Judged(u)' \/ u \in evicted'
    BY <1>a, <2>1, <2>2, <2>4 DEF NothingSkipped, ConfirmedIsJudged, server
  <2>6. \A u \in 1..confirmed' : u < offset' \/ u \in evicted'
    BY <1>a, <2>2, <2>4 DEF ConfirmedIsJudged, server
  <2>7. NothingSkipped'
    <3>1. \A q \in Pollers : asked'[q] <= offset'
      <4>1. \A q \in Pollers : asked'[q] = asked[q] /\ asked[q] \in Nat /\ asked[q] <= offset
        BY <2>2 DEF NothingSkipped, TypeInv, TypeOK
      <4> QED
        BY <1>a, <2>4, <4>1
    <3>3. \A q \in Pollers : pc'[q] = "admitting" => pc[q] = "admitting"
      BY <2>2 DEF TypeInv, TypeOK
    <3>2. offset \in Nat /\ \A q \in Pollers : \A u \in 1..LastOf(batch[q]) : u \in Int
      BY DEF TypeInv, TypeOK
    <3> QED
      BY <1>a, <2>2, <2>4, <3>1, <3>2, <3>3
      DEF NothingSkipped, SelfEcho, Unreadable, OutOfScope, server
  <2> QED
    BY <2>5, <2>6, <2>7 DEF ConfirmedIsJudged
<1>7. ASSUME NEW p \in Pollers, Crash(p) PROVE NothingSkipped' /\ ConfirmedIsJudged'
  <2>1. \A u \in 1..offset - 1 : Judged(u) => Judged(u)'
    BY <1>7, <1>a, OthersKeepTrace DEF Crash, server, ledger
  <2>2. /\ UNCHANGED <<server, offset, asked>>
        /\ \A q \in Pollers : \/ q # p /\ pc'[q] = pc[q] /\ batch'[q] = batch[q]
                                 /\ entries'[q] = entries[q]
                              \/ pc'[q] # "admitting" /\ entries'[q] = <<>>
    BY <1>7 DEF Crash, ledger, TypeInv, TypeOK
  <2>3. NothingSkipped'
    BY <1>a, <2>2 DEF NothingSkipped, SelfEcho, Unreadable, OutOfScope, server
  <2> QED
    BY <1>a, <2>1, <2>2, <2>3 DEF ConfirmedIsJudged, server
<1>8. ASSUME NEW p \in Pollers, \/ PollFails(p) \/ Conflict(p) \/ Rollback(p)
                               \/ RecordCheckpoint(p) \/ Start(p)
      PROVE  NothingSkipped' /\ ConfirmedIsJudged'
  <2>1. /\ UNCHANGED <<server, updates, offset, audits, asked, batch, entries>>
        /\ \A q \in Pollers : pc'[q] = "admitting" => pc[q] = "admitting"
    BY <1>8 DEF PollFails, Conflict, Rollback, RecordCheckpoint, Start, ledger,
       TypeInv, TypeOK
  <2>2. \A u \in 1..offset - 1 : Judged(u) => Judged(u)'
    BY <1>a, <2>1, OthersKeepTrace DEF server
  <2> QED
    BY <2>1, <2>2 DEF NothingSkipped, ConfirmedIsJudged, SelfEcho, Unreadable,
       OutOfScope, server
<1>9. CASE UNCHANGED vars
  <2>1. \A u \in 1..offset - 1 : Judged(u) => Judged(u)'
    BY <1>9, <1>a, OthersKeepTrace DEF vars, server, ledger
  <2> QED
    BY <1>9, <2>1 DEF vars, server, ledger, volatile, NothingSkipped,
       ConfirmedIsJudged, SelfEcho, Unreadable, OutOfScope
<1> QED
  BY <1>1, <1>2, <1>3, <1>4, <1>5, <1>6, <1>7, <1>8, <1>9 DEF Next, PollLoop

\* Telegram is never told to forget an update the ledger has not judged, for
\* any number of poll loops on one bot, whatever crashes, fails or repeats.
THEOREM NothingIsForgottenUnjudged == Spec => []ConfirmedIsJudged
<1>1. SafeInv => ConfirmedIsJudged
  BY DEF SafeInv
<1> QED
  BY InitSafeInv, StepSafeInv, <1>1, PTL DEF Spec

-----------------------------------------------------------------------------
(* Nobody closes what he has no right to close.                            *)

\* A row decided from a sound row is sound, however stale the row it was
\* decided from and however late it is written.
EntriesAreSound ==
  \A p \in Pollers : \A i \in DOMAIN entries[p] : Sound(entries[p][i].row)

SoundInv == TypeInv /\ ThreadsAreSound /\ EntriesAreSound

LEMMA JudgeKeepsSound ==
  ASSUME TypeOK, ThreadsAreSound, NEW p \in Pollers, NEW u \in 1..Len(telegram)
  PROVE  Sound(Judge(p, u).row)
<1>1. CASE DropReason(p, u) # None
  BY <1>1 DEF Judge, Drop, NoThread, Sound, TurnIsConsistent, ClosureIsAuthorized
<1>2. CASE DropReason(p, u) = None
  <2> DEFINE env == TrustedEnvelope(u)
             row == threads[env.thread]
  <2>1. telegram[u] \in Message /\ FromPeer(telegram[u])
    BY <1>2, MessageOf, DropReasonType, ReasonsAssumption
  <2>2. env \in Envelope
    BY <2>1, TrustedEnvelopeType
  <2>3. env.from \in DOMAIN Roster /\ env.from # Me
    BY <2>1, PeerIsNamed DEF TrustedEnvelope
  <2>4. row \in ThreadRow /\ Sound(row)
    BY <2>2 DEF TypeOK, ThreadsAreSound, Envelope, Sound
  <2>5. Judge(p, u).row = RowAfter(row, env)
    BY <1>2 DEF Judge, Admit
  <2> HIDE DEF env, row
  <2> QED
    BY <2>2, <2>3, <2>4, <2>5, PeerKeepsRowSound
<1> QED
  BY <1>1, <1>2

LEMMA StepSoundInv == SoundInv /\ [Next]_vars => SoundInv'
<1> SUFFICES ASSUME SoundInv, [Next]_vars
             PROVE  ThreadsAreSound' /\ EntriesAreSound'
  BY StepTypeInv DEF SoundInv
<1> USE DEF SoundInv
<1>1. ASSUME NEW p \in Pollers, Classify(p) PROVE ThreadsAreSound' /\ EntriesAreSound'
  <2> DEFINE u == FirstOf(Rest(p))
  <2>1. u \in 1..Len(telegram)
    BY <1>1, NextOfBatch DEF Classify, TypeInv
  <2>2. Sound(Judge(p, u).row) /\ Judge(p, u) \in Entry
    BY <2>1, JudgeKeepsSound, JudgeType, MessageOf DEF TypeInv, TypeOK
  <2>3. entries' = [entries EXCEPT ![p] = Append(@, Judge(p, u))]
    BY <1>1 DEF Classify
  <2>4. EntriesAreSound'
    BY <2>2, <2>3 DEF EntriesAreSound, TypeInv, TypeOK
  <2>5. PICK t \in Threads : threads' \in {threads, [threads EXCEPT ![t].anchor = u]}
    BY <1>1, <2>1, MessageOf DEF Classify, TypeInv, Message
  <2>6. \A row \in ThreadRow : Sound(row) => Sound([row EXCEPT !.anchor = u])
    BY DEF Sound, TurnIsConsistent, ClosureIsAuthorized, ThreadRow
  <2> HIDE DEF u
  <2>7. ThreadsAreSound'
    BY <2>5, <2>6 DEF ThreadsAreSound, Sound, TypeInv, TypeOK
  <2> QED
    BY <2>4, <2>7
<1>2. ASSUME NEW p \in Pollers, Commit(p) PROVE ThreadsAreSound' /\ EntriesAreSound'
  <2>1. ASSUME NEW t \in Threads PROVE Sound(threads'[t])
    <3>1. CASE Writers(p, t) = {}
      BY <1>2, <2>1, <3>1 DEF Commit, WriteThreads, ThreadsAreSound, Sound
    <3>2. CASE Writers(p, t) # {}
      <4>1. Writers(p, t) \in SUBSET (0..Len(entries[p])) /\ Len(entries[p]) \in Nat
        BY DEF Writers, Inserted, Written, TypeInv, TypeOK
      <4>2. LastOf(Writers(p, t)) \in DOMAIN entries[p]
        BY <3>2, <4>1, LastOfIsGreatest DEF Writers, Inserted, Written
      <4> QED
        BY <1>2, <2>1, <3>2, <4>2 DEF Commit, WriteThreads, EntriesAreSound
    <3> QED
      BY <3>1, <3>2
  <2> QED
    BY <1>2, <2>1 DEF Commit, ThreadsAreSound, Sound, EntriesAreSound
<1>3. ASSUME NEW p \in Pollers, Receive(p) \/ Crash(p)
      PROVE  ThreadsAreSound' /\ EntriesAreSound'
  <2>1. threads' = threads /\ entries' = [entries EXCEPT ![p] = <<>>]
    BY <1>3 DEF Receive, Crash, ledger
  <2>2. \A q \in Pollers : entries'[q] \in {entries[q], <<>>}
    BY <2>1 DEF TypeInv, TypeOK
  <2>3. DOMAIN <<>> = {}
    OBVIOUS
  <2> QED
    BY <2>1, <2>2, <2>3 DEF ThreadsAreSound, EntriesAreSound
<1>4. ASSUME UNCHANGED <<threads, entries>> PROVE ThreadsAreSound' /\ EntriesAreSound'
  BY <1>4 DEF ThreadsAreSound, EntriesAreSound
<1>5. ASSUME NEW m \in Wire, Post(m) PROVE UNCHANGED <<threads, entries>>
  BY <1>5 DEF Post, ledger, volatile
<1>6. Evict \/ UNCHANGED vars => UNCHANGED <<threads, entries>>
  BY DEF Evict, vars, ledger, volatile
<1>7. ASSUME NEW p \in Pollers, \/ Ask(p) \/ PollFails(p) \/ Conflict(p) \/ Rollback(p)
                               \/ RecordCheckpoint(p) \/ Start(p)
      PROVE  UNCHANGED <<threads, entries>>
  BY <1>7 DEF Ask, PollFails, Conflict, Rollback, RecordCheckpoint, Start, ledger
<1> QED
  BY <1>1, <1>2, <1>3, <1>4, <1>5, <1>6, <1>7 DEF Next, PollLoop

\* From a ledger whose rows are in order, no message a peer can send closes a
\* thread that is not his to close or leaves an open one waiting for nobody,
\* for any roster and any number of stale, repeated or interleaved batches.
THEOREM ClosesAreAuthorized ==
  ASSUME \A start \in Initial : \A t \in Threads : Sound(start[t])
  PROVE  Spec => []ThreadsAreSound
<1>1. Init => SoundInv
  BY InitTypeInv DEF Init, SoundInv, ThreadsAreSound, EntriesAreSound, Sound
<1>2. SoundInv => ThreadsAreSound
  BY DEF SoundInv
<1> QED
  BY <1>1, StepSoundInv, <1>2, PTL DEF Spec

-----------------------------------------------------------------------------
(* A message has one row.                                                  *)

OnlyArrivedAreStored == \A u \in UpdateIds : Stored(u) => u \in 1..Len(telegram)

\* UNIQUE (project_id, eid), as a property of the table.
OneRowPerMessage ==
  \A u, v \in UpdateIds :
    Stored(u) /\ Stored(v) /\ telegram[u].eid = telegram[v].eid => u = v

RowInv == TypeInv /\ OnlyArrivedAreStored /\ OneRowPerMessage

\* The constraint is all that stands between two loops and a second row.
LEMMA CommitKeepsRows ==
  ASSUME RowInv, NEW p \in Pollers, Commit(p)
  PROVE  OnlyArrivedAreStored' /\ OneRowPerMessage'
<1>1. updates' = InsertUpdates(p) /\ telegram' = telegram /\ EidsAreFresh(p)
  BY DEF Commit, server
<1>2. \A i \in Inserted(p) : entries[p][i].update \in 1..Len(telegram)
  BY DEF Inserted, Written, RowInv, TypeInv, TypeOK, EntriesAreOfTheBatch
<1>3. \A u \in UpdateIds : Stored(u)' =>
        Stored(u) \/ \E i \in Inserted(p) : entries[p][i].update = u
  BY <1>1 DEF InsertUpdates, Stored
<1>4. OnlyArrivedAreStored'
  BY <1>1, <1>2, <1>3 DEF RowInv, OnlyArrivedAreStored
<1>5. ASSUME NEW u \in UpdateIds, NEW v \in UpdateIds, Stored(u)', Stored(v)',
             telegram[u].eid = telegram[v].eid
      PROVE  u = v
  <2>1. CASE Stored(u) /\ Stored(v)
    BY <1>5, <2>1 DEF RowInv, OneRowPerMessage
  <2>2. CASE \E i, j \in Inserted(p) : entries[p][i].update = u /\ entries[p][j].update = v
    BY <1>1, <1>5, <2>2 DEF EidsAreFresh
  <2>3. CASE Stored(u) /\ \E j \in Inserted(p) : entries[p][j].update = v
    BY <1>1, <1>5, <2>3 DEF EidsAreFresh, IsEidInUpdates
  <2>4. CASE Stored(v) /\ \E i \in Inserted(p) : entries[p][i].update = u
    BY <1>1, <1>5, <2>4 DEF EidsAreFresh, IsEidInUpdates
  <2> QED
    BY <1>3, <1>5, <2>1, <2>2, <2>3, <2>4
<1> QED
  BY <1>1, <1>4, <1>5 DEF OneRowPerMessage

LEMMA StepRowInv == RowInv /\ [Next]_vars => RowInv'
<1> SUFFICES ASSUME RowInv, [Next]_vars
             PROVE  OnlyArrivedAreStored' /\ OneRowPerMessage'
  BY StepTypeInv DEF RowInv
<1>1. ASSUME NEW m \in Wire, Post(m)
      PROVE  OnlyArrivedAreStored' /\ OneRowPerMessage'
  <2>1. /\ Len(telegram') = Len(telegram) + 1 /\ Len(telegram) \in Nat
        /\ \A u \in 1..Len(telegram) : telegram'[u] = telegram[u]
        /\ updates' = updates
    BY <1>1 DEF Post, ledger, RowInv, TypeInv, TypeOK
  <2> QED
    BY <2>1 DEF RowInv, OnlyArrivedAreStored, OneRowPerMessage, Stored
<1>2. ASSUME NEW p \in Pollers, Commit(p)
      PROVE  OnlyArrivedAreStored' /\ OneRowPerMessage'
  BY <1>2, CommitKeepsRows
<1>3. ASSUME UNCHANGED <<telegram, updates>>
      PROVE  OnlyArrivedAreStored' /\ OneRowPerMessage'
  BY <1>3 DEF RowInv, OnlyArrivedAreStored, OneRowPerMessage, Stored
<1>4. Evict \/ UNCHANGED vars => UNCHANGED <<telegram, updates>>
  BY DEF Evict, vars, server, ledger
<1>5. ASSUME NEW p \in Pollers,
             \/ Ask(p) \/ Receive(p) \/ PollFails(p) \/ Conflict(p) \/ Classify(p)
             \/ Rollback(p) \/ RecordCheckpoint(p) \/ Crash(p) \/ Start(p)
      PROVE  UNCHANGED <<telegram, updates>>
  BY <1>5 DEF Ask, Receive, PollFails, Conflict, Classify, Rollback,
     RecordCheckpoint, Crash, Start, server, ledger
<1> QED
  BY <1>1, <1>2, <1>3, <1>4, <1>5 DEF Next, PollLoop

-----------------------------------------------------------------------------
(* One loop on one bot, which is what daemon.lock is for: nothing comes    *)
(* between its reading of the ledger and its transaction.                  *)

OneLoop == \A p, q \in Pollers : p = q

\* The loop asked for the offset that still stands, so that nothing it is
\* given lies behind it.
PollIsCurrent ==
  \A p \in Pollers :
    /\ pc[p] \in {"asked", "admitting"} => asked[p] = offset
    /\ pc[p] = "admitting" => \A u \in batch[p] : offset <= u

\* Nothing from the offset on has left a trace.
AheadIsUntouched ==
  \A u \in UpdateIds : offset <= u => ~Stored(u) /\ audits[u] = <<>>

\* batchEntries has one element for each update.
EntriesAreApart ==
  \A p \in Pollers : pc[p] = "admitting" =>
    \A i, j \in DOMAIN entries[p] :
      entries[p][i].update = entries[p][j].update => i = j

\* An entry says "self_echo" of our own sends and of nothing else.
KnowsTheEcho(entry) ==
  /\ entry.reason = "self_echo" <=> SelfEcho(telegram[entry.update])
  /\ entry.kind = "admitted" => entry.reason # "self_echo"

EntriesKnowTheEcho ==
  \A p \in Pollers : \A i \in DOMAIN entries[p] : KnowsTheEcho(entries[p][i])

\* What is to be inserted is in batchSeenEids, in no row, and once there.
EidOf(p, i) == telegram[entries[p][i].update].eid

EntriesAreNew ==
  \A p \in Pollers : pc[p] = "admitting" =>
    \A i \in DOMAIN entries[p] : entries[p][i].kind = "admitted" =>
      /\ EidOf(p, i) \in seen[p] /\ ~IsEidInUpdates(EidOf(p, i))
      /\ \A j \in DOMAIN entries[p] :
           entries[p][j].kind = "admitted" /\ EidOf(p, i) = EidOf(p, j) => i = j

\* The rows to be written replace no opening and reopen nothing.
MovesOn(row, next) ==
  Held(row) =>
    /\ next.opened_eid = row.opened_eid
    /\ row.status = "resolved" => next.status = "resolved"

EntryMovesOn(entry) ==
  entry.kind = "admitted" /\ entry.outcome \in Transitions =>
    MovesOn(threads[telegram[entry.update].thread], entry.row)

EntriesMoveOn ==
  \A p \in Pollers : pc[p] = "admitting" =>
    \A i \in DOMAIN entries[p] : EntryMovesOn(entries[p][i])

LoopFacts ==
  /\ PollIsCurrent /\ AheadIsUntouched /\ EntriesAreApart
  /\ EntriesKnowTheEcho /\ EntriesAreNew /\ EntriesMoveOn /\ ExactlyOneAudit

LoopInv == SafeInv /\ RowInv /\ LoopFacts

\* What admission decides of an update that is not in the ledger.
LEMMA JudgeKnowsTheEcho ==
  ASSUME TypeOK, NEW p \in Pollers, NEW u \in 1..Len(telegram)
  PROVE  KnowsTheEcho(Judge(p, u))
<1> DEFINE m == telegram[u]
<1>1. m \in Message /\ u \in UpdateIds
  BY MessageOf
<1>2. Judge(p, u).update = u
  BY <1>1, JudgeType DEF TypeOK
<1>3. CASE DropReason(p, u) # None
  <2>1. Judge(p, u).reason = DropReason(p, u) /\ Judge(p, u).kind = "dropped"
    BY <1>3 DEF Judge, Drop
  <2>2. SelfEcho(m) => DropReason(p, u) = "self_echo"
    BY RosterAssumption, NoneAssumption
    DEF DropReason, SelfEcho, OutOfScope, FromStranger, Unreadable, FromPeer
  <2>3. DropReason(p, u) = "self_echo" => SelfEcho(m)
    BY <1>1, EchoIsOurs
  <2> QED
    BY <1>2, <2>1, <2>2, <2>3 DEF KnowsTheEcho
<1>4. CASE DropReason(p, u) = None
  <2>1. FromPeer(m)
    BY <1>1, <1>4, DropReasonType, ReasonsAssumption
  <2>2. ~ SelfEcho(m)
    BY <2>1 DEF FromPeer, SelfEcho
  <2>3. TrustedEnvelope(u) \in Envelope
    BY <1>1, <2>1, TrustedEnvelopeType
  <2>4. Judge(p, u).reason \in Outcomes \cup
          {"not_requestable", "unanchored", "unauthorized", "stale"}
    BY <1>4, <2>3, OutcomeType, RejectionType DEF Judge, Admit
  <2>5. Judge(p, u).reason # "self_echo"
    BY <2>4 DEF Outcomes
  <2> QED
    BY <1>2, <2>2, <2>5 DEF KnowsTheEcho
<1> QED
  BY <1>3, <1>4

LEMMA AdmittedIsNew ==
  ASSUME TypeOK, NEW p \in Pollers, NEW u \in 1..Len(telegram), ~Stored(u),
         Judge(p, u).kind = "admitted"
  PROVE  /\ DropReason(p, u) = None
         /\ telegram[u].eid \notin seen[p] /\ ~IsEidInUpdates(telegram[u].eid)
         /\ Remembers(telegram[u], Judge(p, u))
         /\ telegram[u].type = "REQUEST" => ~IsThreadHeld(telegram[u].thread)
<1>1. telegram[u] \in Message /\ u \in UpdateIds
  BY MessageOf
<1>2. DropReason(p, u) = None
  BY DEF Judge, Drop
<1>3. FromPeer(telegram[u])
  BY <1>1, <1>2, DropReasonType, ReasonsAssumption
<1>4. ~ IsDuplicate(p, u)
  <2> SUFFICES ASSUME IsDuplicate(p, u) PROVE DropReason(p, u) = "duplicate"
    BY <1>2, ReasonsAssumption DEF DropReasons
  <2> QED
    BY <1>3 DEF DropReason, FromPeer, OutOfScope, FromStranger, SelfEcho, Unreadable
<1>5. Judge(p, u).reason # "duplicate"
  <2>1. TrustedEnvelope(u) \in Envelope
    BY <1>1, <1>3, TrustedEnvelopeType
  <2>2. Judge(p, u).reason \in Outcomes \cup
          {"not_requestable", "unanchored", "unauthorized", "stale"}
    BY <1>2, <2>1, OutcomeType, RejectionType DEF Judge, Admit
  <2> QED
    BY <2>2 DEF Outcomes
<1> QED
  BY <1>2, <1>3, <1>4, <1>5 DEF IsDuplicate, Remembers

LEMMA AdmittedMovesOn ==
  ASSUME TypeOK, NEW p \in Pollers, NEW u \in 1..Len(telegram), ~Stored(u)
  PROVE  EntryMovesOn(Judge(p, u))
<1> SUFFICES ASSUME Judge(p, u).kind = "admitted", Judge(p, u).outcome \in Transitions
             PROVE  MovesOn(threads[telegram[u].thread], Judge(p, u).row)
  BY MessageOf, JudgeType DEF EntryMovesOn, TypeOK
<1> DEFINE env == TrustedEnvelope(u)
           row == threads[env.thread]
<1>1. DropReason(p, u) = None /\ (env.type = "REQUEST" => ~Held(row))
  BY AdmittedIsNew DEF TrustedEnvelope, IsThreadHeld
<1>2. Judge(p, u).row = RowAfter(row, env) /\ Judge(p, u).outcome = OutcomeOf(row, env)
  BY <1>1 DEF Judge, Admit
<1>3. env \in Envelope /\ env.thread = telegram[u].thread
  <2>1. telegram[u] \in Message /\ FromPeer(telegram[u])
    BY <1>1, MessageOf, DropReasonType, ReasonsAssumption
  <2>2. env \in Envelope
    BY <2>1, TrustedEnvelopeType
  <2> QED
    BY <2>2 DEF TrustedEnvelope
<1>4. row \in ThreadRow
  BY <1>3 DEF Envelope, TypeOK
<1>5. row = threads[telegram[u].thread]
  BY <1>3
<1> HIDE DEF env, row
<1>6. CASE Held(row)
  <2>1. env.type # "REQUEST"
    BY <1>1, <1>6
  <2>2. OutcomeOf(row, env) \in {"acked", "replied", "resolved"}
    <3>1. OutcomeOf(row, env) \in Transitions
      BY <1>2
    <3>2. OutcomeOf(row, env) # "opened"
      BY <1>3, <2>1 DEF OutcomeOf, Envelope, Types
    <3> QED
      BY <3>1, <3>2 DEF Transitions
  <2>3. RowAfter(row, env) \in {Acked(row, env), Replied(row, env), Resolved(row, env)}
    BY <2>2, RowOfOutcome
  <2>4. MovesOn(row, Acked(row, env))
    BY <1>4 DEF MovesOn, Acked, ThreadRow
  <2>5. MovesOn(row, Replied(row, env))
    BY <1>4 DEF MovesOn, Replied, ThreadRow
  <2>6. MovesOn(row, Resolved(row, env))
    BY <1>4 DEF MovesOn, Resolved, ThreadRow
  <2> QED
    BY <1>2, <1>5, <2>3, <2>4, <2>5, <2>6
<1>7. CASE ~Held(row)
  BY <1>5, <1>7 DEF MovesOn
<1> QED
  BY <1>6, <1>7

LEMMA InitLoopInv == Init => LoopInv
<1> SUFFICES ASSUME Init PROVE LoopFacts
  BY InitSafeInv, InitTypeInv
  DEF Init, LoopInv, RowInv, OnlyArrivedAreStored, OneRowPerMessage, Stored
<1>1. PollIsCurrent /\ EntriesAreApart /\ EntriesAreNew /\ EntriesMoveOn
  BY DEF Init, PollIsCurrent, EntriesAreApart, EntriesAreNew, EntriesMoveOn
<1>2. AheadIsUntouched /\ EntriesKnowTheEcho
  BY DEF Init, AheadIsUntouched, EntriesKnowTheEcho, Stored
<1>3. ExactlyOneAudit
  BY DEF Init, ExactlyOneAudit, Stored, UpdateIds
<1> QED
  BY <1>1, <1>2, <1>3 DEF LoopFacts

\* Steps that leave the ledger's judgements alone, and a loop's entries as
\* they are or empty.
LEMMA LoopFrame ==
  ASSUME LoopFacts, PollIsCurrent',
         UNCHANGED <<telegram, updates, threads, audits, offset>>,
         evicted \subseteq evicted',
         \A q \in Pollers :
           \/ entries'[q] = <<>>
           \/ /\ entries'[q] = entries[q] /\ seen'[q] = seen[q]
              /\ pc'[q] = "admitting" => pc[q] = "admitting"
  PROVE  LoopFacts'
<1>1. AheadIsUntouched'
  BY DEF LoopFacts, AheadIsUntouched, Stored
<1>2. EntriesAreApart'
  BY DEF LoopFacts, EntriesAreApart
<1>3. EntriesKnowTheEcho'
  BY DEF LoopFacts, EntriesKnowTheEcho, KnowsTheEcho, SelfEcho, Unreadable, OutOfScope
<1>4. EntriesAreNew'
  BY DEF LoopFacts, EntriesAreNew, EidOf, IsEidInUpdates, Stored
<1>5. EntriesMoveOn'
  BY DEF LoopFacts, EntriesMoveOn, EntryMovesOn, MovesOn, Held
<1>6. ExactlyOneAudit'
  BY DEF LoopFacts, ExactlyOneAudit, Stored, SelfEcho, Unreadable, OutOfScope
<1> QED
  BY <1>1, <1>2, <1>3, <1>4, <1>5, <1>6 DEF LoopFacts

\* A message that arrives is ahead of everything the loop has looked at.
LEMMA PostKeepsLoop ==
  ASSUME LoopInv, NEW m \in Wire, Post(m)
  PROVE  LoopFacts'
<1>1. /\ Len(telegram) \in Nat
      /\ \A u \in 1..Len(telegram) : telegram'[u] = telegram[u]
      /\ UNCHANGED <<evicted, updates, threads, audits, offset, pc, asked, batch, entries, seen>>
  BY DEF Post, ledger, volatile, LoopInv, RowInv, TypeInv, TypeOK
<1>2. \A p \in Pollers : \A i \in DOMAIN entries[p] :
        entries[p][i].update \in 1..Len(telegram)
  BY DEF LoopInv, RowInv, TypeInv, TypeOK, EntriesAreOfTheBatch
<1>3. \A u \in UpdateIds : Stored(u) => u \in 1..Len(telegram)
  BY DEF LoopInv, RowInv, OnlyArrivedAreStored
<1>4. \A e : IsEidInUpdates(e)' => IsEidInUpdates(e)
  BY <1>1, <1>3 DEF IsEidInUpdates, Stored
<1>5. PollIsCurrent' /\ AheadIsUntouched' /\ EntriesAreApart' /\ EntriesMoveOn'
  <2>1. PollIsCurrent' /\ AheadIsUntouched' /\ EntriesAreApart'
    BY <1>1 DEF LoopInv, LoopFacts, PollIsCurrent, AheadIsUntouched, EntriesAreApart, Stored
  <2>2. EntriesMoveOn'
    BY <1>1, <1>2 DEF LoopInv, LoopFacts, EntriesMoveOn, EntryMovesOn, MovesOn, Held
  <2> QED
    BY <2>1, <2>2
<1>6. EntriesKnowTheEcho'
  BY <1>1, <1>2 DEF LoopInv, LoopFacts, EntriesKnowTheEcho, KnowsTheEcho, SelfEcho,
     Unreadable, OutOfScope
<1>7. EntriesAreNew'
  <2>1. \A p \in Pollers : \A i \in DOMAIN entries[p] : EidOf(p, i)' = EidOf(p, i)
    BY <1>1, <1>2 DEF EidOf
  <2> QED
    BY <1>1, <1>4, <2>1 DEF LoopInv, LoopFacts, EntriesAreNew
<1>8. ExactlyOneAudit'
  <2>1. \A u \in UpdateIds : u < offset => u \in 1..Len(telegram)
    BY DEF LoopInv, RowInv, TypeInv, TypeOK, UpdateIds
  <2>2. \A u \in 1..Len(telegram) : SelfEcho(telegram[u])' = SelfEcho(telegram[u])
    BY <1>1 DEF SelfEcho, Unreadable, OutOfScope
  <2> QED
    BY <1>1, <2>1, <2>2 DEF LoopInv, LoopFacts, ExactlyOneAudit, Stored
<1> QED
  BY <1>5, <1>6, <1>7, <1>8 DEF LoopFacts

\* The update taken up is ahead of the ledger and new to the batch.
LEMMA ClassifyKeepsLoop ==
  ASSUME OneLoop, LoopInv, NEW p \in Pollers, Classify(p)
  PROVE  LoopFacts'
<1> DEFINE u == FirstOf(Rest(p))
           m == telegram[u]
           new == Judge(p, u)
<1>1. u \in Rest(p) /\ u \in 1..Len(telegram)
  BY NextOfBatch DEF Classify, LoopInv, RowInv, TypeInv
<1>2. m \in Message /\ u \in UpdateIds
  BY <1>1, MessageOf DEF LoopInv, RowInv, TypeInv
<1>3. new \in Entry /\ new.update = u
  BY <1>2, JudgeType DEF LoopInv, RowInv, TypeInv, TypeOK
<1>4. /\ pc[p] = "admitting"
      /\ entries' = [entries EXCEPT ![p] = Append(@, new)]
      /\ threads' = IF CapturesAnchor(m, new)
                    THEN [threads EXCEPT ![m.thread].anchor = u] ELSE threads
      /\ seen' = IF Remembers(m, new) THEN [seen EXCEPT ![p] = @ \cup {m.eid}] ELSE seen
      /\ UNCHANGED <<telegram, evicted, updates, offset, audits, pc, asked, batch>>
  BY DEF Classify, server
<1>5. u \in batch[p] /\ \A i \in DOMAIN entries[p] : entries[p][i].update # u
  BY <1>1 DEF Rest
<1>6. ~Stored(u)
  BY <1>2, <1>4, <1>5 DEF LoopInv, LoopFacts, PollIsCurrent, AheadIsUntouched
<1>7. KnowsTheEcho(new) /\ EntryMovesOn(new)
  BY <1>1, <1>6, JudgeKnowsTheEcho, AdmittedMovesOn DEF LoopInv, RowInv, TypeInv
<1>8. new.kind = "admitted" =>
        m.eid \notin seen[p] /\ ~IsEidInUpdates(m.eid) /\ Remembers(m, new)
  BY <1>1, <1>6, AdmittedIsNew DEF LoopInv, RowInv, TypeInv
<1> HIDE DEF u, new
<1>9. /\ entries[p] \in Seq(Entry) /\ Len(entries[p]) \in Nat
      /\ DOMAIN entries'[p] = DOMAIN entries[p] \cup {Len(entries[p]) + 1}
      /\ Len(entries[p]) + 1 \notin DOMAIN entries[p]
      /\ \A i \in DOMAIN entries[p] : entries'[p][i] = entries[p][i]
      /\ entries'[p][Len(entries[p]) + 1] = new
  BY <1>3, <1>4 DEF LoopInv, RowInv, TypeInv, TypeOK
<1>10. \A q \in Pollers : q = p
  BY DEF OneLoop
<1>11. PollIsCurrent' /\ AheadIsUntouched' /\ ExactlyOneAudit'
  BY <1>4 DEF LoopInv, LoopFacts, PollIsCurrent, AheadIsUntouched, ExactlyOneAudit,
     Stored, SelfEcho, Unreadable, OutOfScope
<1>12. EntriesAreApart'
  BY <1>3, <1>4, <1>5, <1>9, <1>10 DEF LoopInv, LoopFacts, EntriesAreApart
<1>13. EntriesKnowTheEcho'
  <2>1. \A e : KnowsTheEcho(e)' <=> KnowsTheEcho(e)
    BY <1>4 DEF KnowsTheEcho, SelfEcho, Unreadable, OutOfScope
  <2>2. \A i \in DOMAIN entries'[p] : KnowsTheEcho(entries'[p][i])
    BY <1>7, <1>9 DEF LoopInv, LoopFacts, EntriesKnowTheEcho
  <2> QED
    BY <1>4, <1>10, <2>2 DEF EntriesKnowTheEcho, KnowsTheEcho, SelfEcho, Unreadable, OutOfScope
<1>14. EntriesAreNew'
  <2> DEFINE eid(i) == telegram[entries'[p][i].update].eid
  <2>1. \A e : IsEidInUpdates(e)' <=> IsEidInUpdates(e)
    BY <1>4 DEF IsEidInUpdates, Stored
  <2>2. /\ \A i \in DOMAIN entries[p] : eid(i) = EidOf(p, i)
        /\ eid(Len(entries[p]) + 1) = m.eid
    BY <1>3, <1>9 DEF EidOf
  <2>3. seen[p] \subseteq seen'[p] /\ (new.kind = "admitted" => m.eid \in seen'[p])
    BY <1>4, <1>8 DEF LoopInv, RowInv, TypeInv, TypeOK
  <2>4. ASSUME NEW i \in DOMAIN entries'[p], entries'[p][i].kind = "admitted"
        PROVE  /\ eid(i) \in seen'[p] /\ ~IsEidInUpdates(eid(i))
               /\ \A j \in DOMAIN entries'[p] :
                    entries'[p][j].kind = "admitted" /\ eid(i) = eid(j) => i = j
    <3>1. \A j \in DOMAIN entries[p] : entries[p][j].kind = "admitted" =>
            /\ eid(j) \in seen[p] /\ ~IsEidInUpdates(eid(j))
            /\ \A k \in DOMAIN entries[p] :
                 entries[p][k].kind = "admitted" /\ eid(j) = eid(k) => j = k
      BY <1>4, <2>2 DEF LoopInv, LoopFacts, EntriesAreNew
    <3> HIDE DEF eid, m
    <3>2. CASE i \in DOMAIN entries[p]
      BY <1>8, <1>9, <2>2, <2>3, <2>4, <3>1, <3>2
    <3>3. CASE i = Len(entries[p]) + 1
      BY <1>8, <1>9, <2>2, <2>3, <2>4, <3>1, <3>3
    <3> QED
      BY <1>9, <3>2, <3>3
  <2> QED
    BY <1>4, <1>10, <2>1, <2>4 DEF EntriesAreNew, EidOf
<1>15. EntriesMoveOn'
  <2>1. \A t \in Threads : /\ threads'[t].opened_eid = threads[t].opened_eid
                           /\ threads'[t].status = threads[t].status
    BY <1>4 DEF LoopInv, RowInv, TypeInv, TypeOK, ThreadRow
  <2>2. \A i \in DOMAIN entries'[p] :
          /\ EntryMovesOn(entries'[p][i])
          /\ telegram[entries'[p][i].update].thread \in Threads
    <3>1. \A i \in DOMAIN entries'[p] : EntryMovesOn(entries'[p][i])
      BY <1>4, <1>7, <1>9 DEF LoopInv, LoopFacts, EntriesMoveOn
    <3>2. \A i \in DOMAIN entries'[p] : entries'[p][i].update \in 1..Len(telegram)
      BY <1>1, <1>3, <1>9 DEF LoopInv, RowInv, TypeInv, TypeOK, EntriesAreOfTheBatch
    <3>3. \A v \in 1..Len(telegram) : telegram[v].thread \in Threads
      BY MessageOf DEF LoopInv, RowInv, TypeInv, Message
    <3> QED
      BY <3>1, <3>2, <3>3
  <2>3. ASSUME NEW i \in DOMAIN entries'[p]
        PROVE  EntryMovesOn(entries[p][i])'
    <3> DEFINE t == telegram[entries'[p][i].update].thread
    <3>1. /\ t = telegram'[entries'[p][i].update].thread
          /\ threads'[t].opened_eid = threads[t].opened_eid
          /\ threads'[t].status = threads[t].status
      BY <1>4, <2>1, <2>2
    <3>2. EntryMovesOn(entries'[p][i])
      BY <2>2
    <3> QED
      BY <3>1, <3>2 DEF EntryMovesOn, MovesOn, Held
  <2> QED
    BY <1>10, <2>3 DEF EntriesMoveOn
<1> QED
  BY <1>11, <1>12, <1>13, <1>14, <1>15 DEF LoopFacts

\* The transaction writes one outcome and one audit row, or none for an echo,
\* of each update of its batch, and touches no other update.
LEMMA CommitAudits ==
  ASSUME OneLoop, LoopInv, NEW p \in Pollers, Commit(p)
  PROVE  /\ \A u \in batch[p] :
              /\ u \in UpdateIds /\ offset <= u /\ u < offset'
              /\ Len(audits'[u]) = IF SelfEcho(telegram[u]) THEN 0 ELSE 1
              /\ Stored(u)' => ~SelfEcho(telegram[u])
         /\ \A u \in UpdateIds \ batch[p] :
              updates'[u] = updates[u] /\ audits'[u] = audits[u]
         /\ offset <= offset'
         /\ \A u \in 1..offset' - 1 : u < offset \/ u \in batch[p] \/ u \in evicted
<1>1. /\ updates' = InsertUpdates(p) /\ audits' = AppendAudits(p)
      /\ offset' = AdvanceOffset(p) /\ pc[p] = "admitting" /\ Rest(p) = {}
      /\ UNCHANGED <<telegram, evicted>>
  BY DEF Commit, Ready, server
<1>2. /\ offset \in Nat /\ Len(telegram) \in Nat
      /\ batch[p] \in SUBSET (0..Len(telegram)) /\ batch[p] # {}
      /\ batch[p] \subseteq 1..Len(telegram)
  BY <1>1 DEF LoopInv, RowInv, TypeInv, TypeOK, BatchesAreLive
<1>3. /\ LastOf(batch[p]) \in batch[p]
      /\ \A u \in batch[p] : u <= LastOf(batch[p])
  BY <1>2, LastOfIsGreatest
<1>4. \A u \in batch[p] : u \in UpdateIds /\ offset <= u /\ ~Stored(u) /\ audits[u] = <<>>
  BY <1>1, <1>2, MessageOf
  DEF LoopInv, LoopFacts, PollIsCurrent, AheadIsUntouched, RowInv, TypeInv
<1>5. \A u \in batch[p] : u < offset'
  BY <1>1, <1>2, <1>3 DEF AdvanceOffset
<1>6. offset <= offset'
  BY <1>1, <1>2, <1>3 DEF AdvanceOffset
<1>7. \A u \in 1..offset' - 1 : u < offset \/ u \in batch[p] \/ u \in evicted
  <2>1. \A u \in 1..offset' - 1 : u < offset \/ u \in 1..LastOf(batch[p])
    BY <1>1, <1>2, <1>3 DEF AdvanceOffset
  <2> QED
    BY <1>1, <2>1 DEF LoopInv, SafeInv, NothingSkipped
<1>8. \A i \in DOMAIN entries[p] : entries[p][i] \in Entry /\ entries[p][i].update \in batch[p]
  BY DEF LoopInv, RowInv, TypeInv, TypeOK, EntriesAreOfTheBatch
<1>9. Written(p) = DOMAIN entries[p]
  BY <1>4, <1>8 DEF Written, Replayed
<1>10. \A u \in UpdateIds \ batch[p] : updates'[u] = updates[u] /\ audits'[u] = audits[u]
  <2>1. \A u \in UpdateIds \ batch[p] :
          /\ ~ \E i \in Written(p) : entries[p][i].update = u
          /\ ~ \E i \in Inserted(p) : entries[p][i].update = u
    BY <1>8, <1>9 DEF Inserted
  <2> QED
    BY <1>1, <2>1 DEF InsertUpdates, AppendAudits
<1>11. ASSUME NEW u \in batch[p]
       PROVE  /\ Len(audits'[u]) = IF SelfEcho(telegram[u]) THEN 0 ELSE 1
              /\ Stored(u)' => ~SelfEcho(telegram[u])
  <2>1. PICK k \in DOMAIN entries[p] : entries[p][k].update = u
    BY <1>1 DEF Rest
  <2>2. \A j \in DOMAIN entries[p] : entries[p][j].update = u => j = k
    BY <1>1, <2>1 DEF LoopInv, LoopFacts, EntriesAreApart
  <2>3. (CHOOSE j \in Written(p) : entries[p][j].update = u) = k
    BY <1>9, <2>1, <2>2
  <2>4. audits'[u] = IF entries[p][k].reason = "self_echo" THEN audits[u]
                     ELSE Append(audits[u], entries[p][k].reason)
    BY <1>1, <1>4, <1>9, <2>1, <2>3 DEF AppendAudits
  <2>5. KnowsTheEcho(entries[p][k])
    BY <2>1 DEF LoopInv, LoopFacts, EntriesKnowTheEcho
  <2>6. Len(audits'[u]) = IF SelfEcho(telegram[u]) THEN 0 ELSE 1
    <3>1. \A e : Len(Append(<<>>, e)) = 1
      OBVIOUS
    <3> QED
      BY <1>4, <2>1, <2>4, <2>5, <3>1 DEF KnowsTheEcho
  <2>7. Stored(u)' => ~SelfEcho(telegram[u])
    <3>1. Stored(u)' => \E j \in Inserted(p) : entries[p][j].update = u
      BY <1>1, <1>4 DEF InsertUpdates, Stored
    <3> QED
      BY <2>1, <2>2, <2>5, <3>1 DEF Inserted, Written, KnowsTheEcho
  <2> QED
    BY <2>6, <2>7
<1> QED
  BY <1>4, <1>5, <1>6, <1>7, <1>10, <1>11

LEMMA BelowIsInRange ==
  ASSUME NEW n \in Nat, NEW u \in Int, 1 <= u, u < n
  PROVE  u \in 1..n - 1
  OBVIOUS

LEMMA CommitKeepsLoop ==
  ASSUME OneLoop, LoopInv, NEW p \in Pollers, Commit(p)
  PROVE  LoopFacts'
<1>1. \A q \in Pollers : pc'[q] = "committed"
  BY DEF OneLoop, Commit, LoopInv, RowInv, TypeInv, TypeOK
<1>2. PollIsCurrent' /\ EntriesAreApart' /\ EntriesAreNew' /\ EntriesMoveOn'
  BY <1>1 DEF PollIsCurrent, EntriesAreApart, EntriesAreNew, EntriesMoveOn
<1>3. EntriesKnowTheEcho'
  BY DEF Commit, server, LoopInv, LoopFacts, EntriesKnowTheEcho, KnowsTheEcho, SelfEcho,
     Unreadable, OutOfScope
<1>4. offset \in Nat /\ offset' \in Nat /\ UNCHANGED <<telegram, evicted>>
  BY CommitTypes DEF Commit, Ready, server, LoopInv, RowInv, TypeInv, TypeOK, BatchesAreLive
<1>5. AheadIsUntouched'
  <2> SUFFICES ASSUME NEW u \in UpdateIds, offset' <= u
               PROVE  updates'[u] = "absent" /\ audits'[u] = <<>>
    BY DEF AheadIsUntouched, Stored
  <2>1. u \notin batch[p] /\ offset <= u
    <3>1. u \in Int
      BY DEF UpdateIds
    <3>2. offset <= offset' /\ \A v \in batch[p] : v < offset'
      BY CommitAudits
    <3> QED
      BY <1>4, <3>1, <3>2
  <2> QED
    BY <2>1, CommitAudits DEF LoopInv, LoopFacts, AheadIsUntouched, Stored
<1>6. ExactlyOneAudit'
  <2> SUFFICES ASSUME NEW u \in UpdateIds
               PROVE  /\ Stored(u)' => Len(audits'[u]) = 1
                      /\ u < offset' /\ u \notin evicted =>
                           Len(audits'[u]) = IF SelfEcho(telegram[u]) THEN 0 ELSE 1
    BY <1>4 DEF ExactlyOneAudit, Stored, SelfEcho, Unreadable, OutOfScope
  <2>1. CASE u \in batch[p]
    BY <2>1, CommitAudits
  <2>2. CASE u \notin batch[p]
    <3>1. updates'[u] = updates[u] /\ audits'[u] = audits[u]
      BY <2>2, CommitAudits
    <3>2. u < offset' /\ u \notin evicted => u < offset
      <4>1. u \in Int /\ 1 <= u
        BY DEF UpdateIds
      <4>2. \A v \in 1..offset' - 1 : v < offset \/ v \in batch[p] \/ v \in evicted
        BY CommitAudits
      <4>3. CASE u < offset'
        <5>1. u \in 1..offset' - 1
          BY <1>4, <4>1, <4>3, BelowIsInRange
        <5> QED
          BY <2>2, <4>2, <5>1
      <4> QED
        BY <4>3
    <3> QED
      BY <3>1, <3>2 DEF LoopInv, LoopFacts, ExactlyOneAudit, Stored
  <2> QED
    BY <2>1, <2>2
<1> QED
  BY <1>2, <1>3, <1>5, <1>6 DEF LoopFacts

\* The rest of what can happen writes nothing.
Uneventful(p) ==
  \/ Ask(p) \/ Receive(p) \/ Rollback(p) \/ RecordCheckpoint(p) \/ Start(p)
  \/ PollFails(p) \/ Conflict(p) \/ Crash(p)

LEMMA UneventfulKeepsLoop ==
  ASSUME OneLoop, LoopInv, NEW p \in Pollers, Uneventful(p)
  PROVE  LoopFacts'
<1>1. UNCHANGED <<telegram, evicted, updates, threads, audits, offset>>
  BY DEF Uneventful, Ask, Receive, Rollback, RecordCheckpoint, Start, PollFails, Conflict,
     Crash, server, ledger
<1>2. \A q \in Pollers : q = p
  BY DEF OneLoop
<1>3. CASE Ask(p)
  <2>1. PollIsCurrent'
    BY <1>1, <1>2, <1>3 DEF Ask, PollIsCurrent, LoopInv, RowInv, TypeInv, TypeOK
  <2>2. pc'[p] # "admitting" /\ entries' = entries /\ seen' = seen
    BY <1>3 DEF Ask, LoopInv, RowInv, TypeInv, TypeOK
  <2> QED
    BY <1>1, <1>2, <2>1, <2>2, LoopFrame DEF LoopInv
<1>4. CASE Receive(p)
  <2> DEFINE first == IF asked[p] > confirmed THEN asked[p] ELSE confirmed + 1
  <2>a. PICK last \in first - 1 .. Len(telegram) : batch' = [batch EXCEPT ![p] = first..last]
    BY <1>4 DEF Receive
  <2>1. first \in Nat /\ asked[p] <= first
    BY DEF LoopInv, RowInv, TypeInv, TypeOK
  <2>2. asked[p] = offset /\ asked' = asked /\ offset \in Nat
    BY <1>4 DEF Receive, LoopInv, LoopFacts, PollIsCurrent, RowInv, TypeInv, TypeOK
  <2>3. batch'[p] = first..last
    BY <2>a DEF LoopInv, RowInv, TypeInv, TypeOK
  <2> HIDE DEF first
  <2>4. PollIsCurrent'
    <3>1. \A u \in batch'[p] : offset' <= u
      BY <1>1, <2>1, <2>2, <2>3
    <3>2. asked'[p] = offset'
      BY <1>1, <2>2
    <3> QED
      BY <1>2, <3>1, <3>2 DEF PollIsCurrent
  <2>5. entries'[p] = <<>>
    BY <1>4 DEF Receive, LoopInv, RowInv, TypeInv, TypeOK
  <2> QED
    BY <1>1, <1>2, <2>4, <2>5, LoopFrame DEF LoopInv
<1>5. CASE Crash(p)
  <2>1. pc'[p] = "down" /\ entries'[p] = <<>>
    BY <1>5 DEF Crash, LoopInv, RowInv, TypeInv, TypeOK
  <2>2. PollIsCurrent'
    BY <1>2, <2>1 DEF PollIsCurrent
  <2> QED
    BY <1>1, <1>2, <2>1, <2>2, LoopFrame DEF LoopInv
<1>6. CASE Rollback(p) \/ RecordCheckpoint(p) \/ Start(p) \/ PollFails(p) \/ Conflict(p)
  <2>1. /\ pc'[p] \notin {"asked", "admitting"}
        /\ entries' = entries /\ seen' = seen
    BY <1>6 DEF Rollback, RecordCheckpoint, Start, PollFails, Conflict, LoopInv, RowInv,
       TypeInv, TypeOK
  <2>2. PollIsCurrent'
    BY <1>2, <2>1 DEF PollIsCurrent
  <2> QED
    BY <1>1, <1>2, <2>1, <2>2, LoopFrame DEF LoopInv
<1> QED
  BY <1>3, <1>4, <1>5, <1>6 DEF Uneventful

LEMMA StepLoopInv ==
  ASSUME OneLoop, LoopInv, [Next]_vars
  PROVE  LoopInv'
<1> SUFFICES LoopFacts'
  BY StepSafeInv, StepRowInv DEF LoopInv
<1>1. CASE Evict \/ UNCHANGED vars
  <2>1. /\ UNCHANGED <<telegram, updates, threads, audits, offset, pc, asked, batch,
                      entries, seen>>
        /\ evicted \subseteq evicted'
    BY <1>1 DEF Evict, vars, server, ledger, volatile
  <2>2. PollIsCurrent'
    BY <2>1 DEF LoopInv, LoopFacts, PollIsCurrent
  <2> QED
    BY <2>1, <2>2, LoopFrame DEF LoopInv
<1>2. ASSUME NEW m \in Wire, Post(m) PROVE LoopFacts'
  BY <1>2, PostKeepsLoop
<1>3. ASSUME NEW p \in Pollers, Classify(p) PROVE LoopFacts'
  BY <1>3, ClassifyKeepsLoop
<1>4. ASSUME NEW p \in Pollers, Commit(p) PROVE LoopFacts'
  BY <1>4, CommitKeepsLoop
<1>5. ASSUME NEW p \in Pollers, Uneventful(p) PROVE LoopFacts'
  BY <1>5, UneventfulKeepsLoop
<1> QED
  BY <1>1, <1>2, <1>3, <1>4, <1>5 DEF Next, PollLoop, Uneventful

\* With one loop on the bot, step 6 leaves nothing for the table's constraint
\* to refuse: no batch is rolled back and served again for ever.
THEOREM NoBatchIsPoison ==
  ASSUME OneLoop
  PROVE  Spec => []NoPoisonBatch
<1>1. LoopInv => NoPoisonBatch
  BY DEF LoopInv, LoopFacts, EntriesAreNew, EidOf, NoPoisonBatch, Ready, EidsAreFresh,
     Inserted, Written
<1>2. LoopInv /\ [Next]_vars => LoopInv'
  BY StepLoopInv
<1> QED
  BY InitLoopInv, <1>1, <1>2, PTL DEF Spec

\* With one loop on the bot, every message moved past leaves one audit row,
\* and our own echo none, however often it crashed and was served again.
THEOREM EveryAuditIsOnce ==
  ASSUME OneLoop
  PROVE  Spec => []ExactlyOneAudit
<1>1. LoopInv => ExactlyOneAudit
  BY DEF LoopInv, LoopFacts
<1>2. LoopInv /\ [Next]_vars => LoopInv'
  BY StepLoopInv
<1> QED
  BY InitLoopInv, <1>1, <1>2, PTL DEF Spec

LEMMA StepMovesForward ==
  ASSUME OneLoop, LoopInv, [Next]_vars
  PROVE  \A t \in Threads : MovesForward(t)
<1>1. threads \in [Threads -> ThreadRow]
  BY DEF LoopInv, RowInv, TypeInv, TypeOK
<1>2. ASSUME UNCHANGED threads PROVE \A t \in Threads : MovesForward(t)
  BY <1>2 DEF MovesForward
<1>3. ASSUME NEW p \in Pollers, Classify(p) PROVE \A t \in Threads : MovesForward(t)
  <2>1. \A t \in Threads : /\ threads'[t].opened_eid = threads[t].opened_eid
                           /\ threads'[t].status = threads[t].status
    BY <1>1, <1>3 DEF Classify, ThreadRow
  <2> QED
    BY <2>1 DEF MovesForward
<1>4. ASSUME NEW p \in Pollers, Commit(p) PROVE \A t \in Threads : MovesForward(t)
  <2> SUFFICES ASSUME NEW t \in Threads PROVE MovesForward(t)
    OBVIOUS
  <2>1. threads' = WriteThreads(p) /\ pc[p] = "admitting"
    BY <1>4 DEF Commit, Ready
  <2>2. CASE Writers(p, t) = {}
    BY <2>1, <2>2 DEF WriteThreads, MovesForward
  <2>3. CASE Writers(p, t) # {}
    <3> DEFINE i == LastOf(Writers(p, t))
    <3>1. i \in Writers(p, t)
      <4>1. Len(entries[p]) \in Nat /\ Writers(p, t) \in SUBSET (0..Len(entries[p]))
        BY DEF Writers, Inserted, Written, LoopInv, RowInv, TypeInv, TypeOK
      <4> QED
        BY <2>3, <4>1, LastOfIsGreatest
    <3>2. threads'[t] = entries[p][i].row
      BY <2>1, <2>3 DEF WriteThreads
    <3> HIDE DEF i
    <3>3. MovesOn(threads[t], entries[p][i].row)
      BY <2>1, <3>1 DEF LoopInv, LoopFacts, EntriesMoveOn, EntryMovesOn, Writers, Inserted,
         Written
    <3> QED
      BY <3>2, <3>3 DEF MovesOn, MovesForward
  <2> QED
    BY <2>2, <2>3
<1>5. ASSUME NEW p \in Pollers, Uneventful(p) PROVE UNCHANGED threads
  BY <1>5 DEF Uneventful, Ask, Receive, Rollback, RecordCheckpoint, Start, PollFails,
     Conflict, Crash, ledger
<1>6. ASSUME NEW m \in Wire, Post(m) PROVE UNCHANGED threads
  BY <1>6 DEF Post, ledger
<1>7. Evict \/ UNCHANGED vars => UNCHANGED threads
  BY DEF Evict, vars, ledger
<1> QED
  BY <1>2, <1>3, <1>4, <1>5, <1>6, <1>7 DEF Next, PollLoop, Uneventful

\* With one loop on the bot, nothing received reopens a closed thread or
\* replaces the message that opened one.
THEOREM NothingIsReopened ==
  ASSUME OneLoop
  PROVE  Spec => ThreadsOnlyMoveForward
<1>1. LoopInv /\ [Next]_vars => [\A t \in Threads : MovesForward(t)]_vars
  BY StepMovesForward
<1>2. LoopInv /\ [Next]_vars => LoopInv'
  BY StepLoopInv
<1> QED
  BY InitLoopInv, <1>1, <1>2, PTL DEF Spec, ThreadsOnlyMoveForward

-----------------------------------------------------------------------------
(* With one loop, the inbox is the log of decided messages.                *)

VerdictMap == [u \in UpdateIds |-> Verdict(u)]

\* A step that writes neither the inbox nor the audit trail decides nothing.
LEMMA VerdictsStand ==
  ASSUME UNCHANGED <<telegram, updates, audits, offset>>
  PROVE  VerdictMap' = VerdictMap
  BY DEF VerdictMap, Verdict, Stored, SelfEcho, Unreadable, OutOfScope

LEMMA InitIsLogInit == Init => Log!Init
  BY DEF Init, Log!Init, Log!Ids, UpdateIds, Verdict, Stored

LEMMA PostArrives ==
  ASSUME LoopInv, NEW m \in Wire, Post(m)
  PROVE  Log!Arrive
<1>1. /\ Len(telegram) \in Nat /\ Len(telegram') = Len(telegram) + 1
      /\ Len(telegram) < MaxUpdates
      /\ \A u \in 1..Len(telegram) : telegram'[u] = telegram[u]
      /\ UNCHANGED <<confirmed, evicted, updates, audits, offset>>
  BY DEF Post, ledger, LoopInv, RowInv, TypeInv, TypeOK
<1>2. ASSUME NEW u \in UpdateIds PROVE Verdict(u)' = Verdict(u)
  <2>1. CASE u <= Len(telegram)
    <3>1. u \in 1..Len(telegram) /\ u <= Len(telegram')
      BY <1>1, <2>1 DEF UpdateIds
    <3>2. telegram'[u] = telegram[u]
      BY <1>1, <3>1
    <3> QED
      BY <1>1, <2>1, <3>1, <3>2 DEF Verdict, Stored, SelfEcho, Unreadable, OutOfScope
  <2>2. CASE ~ (u <= Len(telegram))
    <3>1. offset <= u /\ ~ (u < offset)
      BY <1>1, <2>2 DEF UpdateIds, LoopInv, RowInv, TypeInv, TypeOK
    <3>2. ~Stored(u) /\ audits[u] = <<>>
      BY <3>1 DEF LoopInv, LoopFacts, AheadIsUntouched
    <3> QED
      BY <1>1, <2>2, <3>1, <3>2 DEF Verdict, Stored
  <2> QED
    BY <2>1, <2>2
<1>3. VerdictMap' = VerdictMap
  BY <1>2 DEF VerdictMap
<1> QED
  BY <1>1, <1>3 DEF Log!Arrive, VerdictMap

LEMMA EvictLoses ==
  ASSUME LoopInv, Evict
  PROVE  Log!Lose
<1>1. VerdictMap' = VerdictMap /\ telegram' = telegram
  BY VerdictsStand DEF Evict, ledger
<1> QED
  BY <1>1 DEF Evict, Log!Lose, VerdictMap

\* What Ask lets Telegram forget has been decided.
LEMMA AskForgets ==
  ASSUME LoopInv, NEW p \in Pollers, Ask(p)
  PROVE  Log!Forget \/ UNCHANGED Log!logVars
<1>1. VerdictMap' = VerdictMap /\ UNCHANGED <<telegram, evicted>>
  BY VerdictsStand DEF Ask, ledger
<1>2. CASE offset - 1 > confirmed
  <2>1. /\ confirmed' = offset - 1 /\ offset \in 1..Len(telegram) + 1
        /\ Len(telegram) \in Nat /\ confirmed \in Nat
    BY <1>2 DEF Ask, LoopInv, RowInv, TypeInv, TypeOK
  <2>2. offset - 1 \in confirmed + 1 .. Len(telegram)
    BY <1>2, <2>1
  <2>3. ASSUME NEW u \in confirmed + 1 .. offset - 1
        PROVE  VerdictMap[u] # "pending" \/ u \in evicted
    <3>1. u \in 1..offset - 1 /\ u \in 1..Len(telegram) /\ u < offset /\ u <= Len(telegram)
      BY <2>1
    <3>2. u \in UpdateIds
      BY <3>1, MessageOf DEF LoopInv, RowInv, TypeInv
    <3>3. Judged(u) \/ u \in evicted
      BY <3>1 DEF LoopInv, SafeInv, ConfirmedIsJudged
    <3> QED
      BY <3>1, <3>2, <3>3 DEF VerdictMap, Verdict, Judged
  <2>4. Log!Forget
    BY <1>1, <2>1, <2>2, <2>3 DEF Log!Forget, Log!Decided, VerdictMap
  <2> QED
    BY <2>4
<1>3. CASE ~ (offset - 1 > confirmed)
  BY <1>1, <1>3 DEF Ask, Log!logVars, VerdictMap
<1> QED
  BY <1>2, <1>3

\* The transaction decides what was pending and leaves what was decided.
LEMMA CommitDecides ==
  ASSUME OneLoop, LoopInv, LoopInv', NEW p \in Pollers, Commit(p)
  PROVE  Log!Decide
<1>1. UNCHANGED <<telegram, confirmed, evicted>>
  BY DEF Commit, server
<1>2. /\ \A u \in batch[p] : u \in UpdateIds /\ offset <= u
      /\ \A u \in UpdateIds \ batch[p] : updates'[u] = updates[u] /\ audits'[u] = audits[u]
      /\ offset <= offset' /\ offset \in Nat /\ offset' \in Nat
  <2>1. offset \in Nat
    BY DEF LoopInv, RowInv, TypeInv, TypeOK
  <2>2. offset' \in Nat
    BY DEF LoopInv, RowInv, TypeInv, TypeOK
  <2> QED
    BY <2>1, <2>2, CommitAudits
<1>3. ASSUME NEW u \in UpdateIds, Verdict(u) # "pending" PROVE Verdict(u)' = Verdict(u)
  <2>1. u \in Int
    BY DEF UpdateIds
  <2>2. u < offset
    BY <1>2, <1>3, <2>1 DEF LoopInv, LoopFacts, AheadIsUntouched, Verdict
  <2>3. u \notin batch[p] /\ u < offset'
    BY <1>2, <2>1, <2>2
  <2>4. updates'[u] = updates[u] /\ audits'[u] = audits[u]
    BY <1>2, <2>3
  <2> QED
    BY <1>1, <2>2, <2>3, <2>4 DEF Verdict, Stored, SelfEcho, Unreadable, OutOfScope
<1>4. ASSUME NEW u \in UpdateIds, Verdict(u)' # "pending" PROVE u \in 1..Len(telegram)
  <2>1. Stored(u)' => u \in 1..Len(telegram)
    BY <1>1 DEF LoopInv, RowInv, OnlyArrivedAreStored
  <2>2. u <= Len(telegram) => u \in 1..Len(telegram)
    BY DEF UpdateIds, LoopInv, RowInv, TypeInv, TypeOK
  <2> QED
    BY <1>1, <1>4, <2>1, <2>2 DEF Verdict
<1> DEFINE S == {u \in UpdateIds : Verdict(u) = "pending" /\ Verdict(u)' # "pending"}
<1>5. S \in SUBSET (1..Len(telegram)) /\ \A u \in S : VerdictMap[u] = "pending"
  BY <1>4 DEF VerdictMap
<1>6. VerdictMap' \in [UpdateIds -> {"pending", "kept", "dropped"}]
  BY DEF VerdictMap, Verdict
<1>7. \A u \in UpdateIds : IF u \in S THEN VerdictMap'[u] # "pending"
                                      ELSE VerdictMap'[u] = VerdictMap[u]
  BY <1>3 DEF VerdictMap
<1> QED
  BY <1>1, <1>5, <1>6, <1>7 DEF Log!Decide, Log!Decided, Log!Ids, VerdictMap, UpdateIds

LEMMA StepIsLogStep ==
  ASSUME OneLoop, LoopInv, LoopInv', [Next]_vars
  PROVE  [Log!Next]_(Log!logVars)
<1>1. ASSUME NEW m \in Wire, Post(m) PROVE Log!Next
  BY <1>1, PostArrives DEF Log!Next
<1>2. CASE Evict
  BY <1>2, EvictLoses DEF Log!Next
<1>3. ASSUME NEW p \in Pollers, Ask(p) PROVE [Log!Next]_(Log!logVars)
  BY <1>3, AskForgets DEF Log!Next
<1>4. ASSUME NEW p \in Pollers, Commit(p) PROVE Log!Next
  BY <1>4, CommitDecides DEF Log!Next
<1>5. ASSUME UNCHANGED <<server, updates, audits, offset>>
      PROVE  UNCHANGED Log!logVars
  <2>1. VerdictMap' = VerdictMap
    BY <1>5, VerdictsStand DEF server
  <2> QED
    BY <1>5, <2>1 DEF server, Log!logVars, VerdictMap
<1>6. ASSUME NEW p \in Pollers, Uneventful(p) \/ Classify(p), ~ Ask(p)
      PROVE  UNCHANGED <<server, updates, audits, offset>>
  BY <1>6 DEF Uneventful, Classify, Receive, Rollback, RecordCheckpoint, Start, PollFails,
     Conflict, Crash, ledger
<1>7. UNCHANGED vars => UNCHANGED <<server, updates, audits, offset>>
  BY DEF vars, ledger
<1> QED
  BY <1>1, <1>2, <1>3, <1>4, <1>5, <1>6, <1>7 DEF Next, PollLoop, Uneventful

\* With one loop on the bot, the poll loop with its batches, replays, failures
\* and crashes implements the log in which a message is decided once and for
\* good, before the server forgets it.
THEOREM InboxIsAJudgedLog ==
  ASSUME OneLoop
  PROVE  Spec => ImplementsJudgedLog
<1>1. LoopInv /\ [Next]_vars => LoopInv'
  BY StepLoopInv
<1>2. LoopInv /\ LoopInv' /\ [Next]_vars => [Log!Next]_(Log!logVars)
  BY StepIsLogStep
<1> QED
  BY InitLoopInv, InitIsLogInit, <1>1, <1>2, PTL DEF Spec, ImplementsJudgedLog, Log!Spec

-----------------------------------------------------------------------------
(* What a batch writes to a thread is decided from the row it replaces,    *)
(* unless the thread has shared a response with itself.                    *)

IsCrowded(u) == telegram[u].thread \in crowded

\* An entry to be inserted is what admission would decide now.
IsUpToDate(entry) ==
  entry.kind = "admitted" =>
    /\ FromPeer(telegram[entry.update])
    /\ ~IsCrowded(entry.update) =>
         /\ entry = Admit(entry.update)
         /\ telegram[entry.update].type = "REQUEST"
              => ~Held(threads[telegram[entry.update].thread])

EntriesAreUpToDate ==
  \A p \in Pollers : pc[p] = "admitting" =>
    \A i \in DOMAIN entries[p] : IsUpToDate(entries[p][i])

CrowdIsTold ==
  \A p \in Pollers : pc[p] = "admitting" => Crowding(batch[p]) \subseteq crowded

FreshInv == LoopInv /\ EntriesAreUpToDate /\ CrowdIsTold

\* Two updates in hand, of a thread that is not crowded, have nothing in common.
LEMMA NotCrowded ==
  ASSUME CrowdIsTold, NEW p \in Pollers, pc[p] = "admitting",
         NEW u \in batch[p], ~IsCrowded(u), NEW v \in batch[p], u # v
  PROVE  telegram[u].thread # telegram[v].thread /\ telegram[u].eid # telegram[v].eid
BY DEF CrowdIsTold, Crowding, IsCrowded

\* What admission decides of a message depends on its own thread alone.
LEMMA StaysUpToDate ==
  ASSUME NEW entry, IsUpToDate(entry),
         telegram'[entry.update] = telegram[entry.update],
         crowded \subseteq crowded',
         \/ telegram[entry.update].thread \in crowded'
         \/ threads'[telegram[entry.update].thread] = threads[telegram[entry.update].thread]
  PROVE  IsUpToDate(entry)'
<1>1. TrustedEnvelope(entry.update)' = TrustedEnvelope(entry.update)
  BY DEF TrustedEnvelope, TranslateAddressee, ReverseRoster
<1>2. TrustedEnvelope(entry.update).thread = telegram[entry.update].thread
  BY DEF TrustedEnvelope
<1>3. telegram[entry.update].thread \in crowded' \/ Admit(entry.update)' = Admit(entry.update)
  BY <1>1, <1>2 DEF Admit
<1> QED
  BY <1>3 DEF IsUpToDate, IsCrowded, FromPeer, OutOfScope, Unreadable

\* The loop's entries are as they are, or gone.
LEMMA FreshFrame ==
  ASSUME FreshInv, UNCHANGED threads, crowded \subseteq crowded',
         \A u \in 1..Len(telegram) : telegram'[u] = telegram[u],
         \A p \in Pollers : pc'[p] = "admitting" =>
           entries'[p] = <<>> \/ (pc[p] = "admitting" /\ entries'[p] = entries[p])
  PROVE  EntriesAreUpToDate'
<1> SUFFICES ASSUME NEW p \in Pollers, pc'[p] = "admitting", NEW i \in DOMAIN entries'[p]
             PROVE  IsUpToDate(entries[p][i])'
  BY DEF EntriesAreUpToDate
<1>1. pc[p] = "admitting" /\ entries'[p] = entries[p]
  OBVIOUS
<1>2. PICK entry : entry = entries[p][i]
  OBVIOUS
<1>3. IsUpToDate(entry) /\ entry.update \in 1..Len(telegram)
  BY <1>1, <1>2 DEF FreshInv, EntriesAreUpToDate, LoopInv, RowInv, TypeInv, TypeOK,
                    EntriesAreOfTheBatch
<1>4. IsUpToDate(entry)'
  BY <1>3, StaysUpToDate
<1>5. entries'[p][i] = entry
  BY <1>1, <1>2
<1> QED
  BY <1>4, <1>5
  DEF IsUpToDate, IsCrowded, Admit, TrustedEnvelope, TranslateAddressee, ReverseRoster,
      FromPeer, OutOfScope, Unreadable

LEMMA StaysTold ==
  ASSUME TypeInv, CrowdIsTold, crowded \subseteq crowded',
         \A u \in 1..Len(telegram) : telegram'[u] = telegram[u],
         \A p \in Pollers : pc'[p] = "admitting" =>
           pc[p] = "admitting" /\ batch'[p] = batch[p]
  PROVE  CrowdIsTold'
<1> SUFFICES ASSUME NEW p \in Pollers, pc'[p] = "admitting"
             PROVE  Crowding(batch[p])' \subseteq crowded'
  BY DEF CrowdIsTold
<1>1. batch[p] \subseteq 1..Len(telegram)
  BY DEF TypeInv, TypeOK
<1>2. Crowding(batch[p]) \subseteq crowded /\ batch'[p] = batch[p]
  BY DEF CrowdIsTold
<1> QED
  BY <1>1, <1>2 DEF Crowding

\* A message of another thread is judged, and what was decided stands.
LEMMA ClassifyKeepsFresh ==
  ASSUME OneLoop, FreshInv, NEW p \in Pollers, Classify(p)
  PROVE  EntriesAreUpToDate'
<1> DEFINE u == FirstOf(Rest(p))
           m == telegram[u]
           new == Judge(p, u)
<1>1. u \in Rest(p) /\ u \in 1..Len(telegram)
  BY NextOfBatch DEF Classify, FreshInv, LoopInv, RowInv, TypeInv
<1>2. m \in Message /\ u \in UpdateIds /\ m.thread \in Threads
  BY <1>1, MessageOf DEF FreshInv, LoopInv, RowInv, TypeInv, Message
<1>3. new \in Entry /\ new.update = u
  BY <1>2, JudgeType DEF FreshInv, LoopInv, RowInv, TypeInv, TypeOK
<1>4. /\ pc[p] = "admitting"
      /\ entries' = [entries EXCEPT ![p] = Append(@, new)]
      /\ threads' = IF CapturesAnchor(m, new)
                    THEN [threads EXCEPT ![m.thread].anchor = u] ELSE threads
      /\ telegram' = telegram /\ crowded' = crowded
  BY DEF Classify, server, bounds
<1>5. u \in batch[p] /\ \A i \in DOMAIN entries[p] : entries[p][i].update # u
  BY <1>1 DEF Rest
<1>6. ~Stored(u)
  BY <1>2, <1>4, <1>5 DEF FreshInv, LoopInv, LoopFacts, PollIsCurrent, AheadIsUntouched
<1>7. new.kind = "admitted" =>
        /\ new = Admit(u) /\ new.reason # "duplicate" /\ FromPeer(m)
        /\ m.type = "REQUEST" => ~Held(threads[m.thread])
  <2> SUFFICES ASSUME new.kind = "admitted"
               PROVE  /\ new = Admit(u) /\ new.reason # "duplicate" /\ FromPeer(m)
                      /\ m.type = "REQUEST" => ~Held(threads[m.thread])
    OBVIOUS
  <2>1. DropReason(p, u) = None /\ (m.type = "REQUEST" => ~IsThreadHeld(m.thread))
        /\ Remembers(m, new)
    BY <1>1, <1>6, AdmittedIsNew DEF FreshInv, LoopInv, RowInv, TypeInv
  <2> QED
    BY <1>2, <2>1, DropReasonType, ReasonsAssumption DEF Judge, IsThreadHeld, Remembers
<1> HIDE DEF u, new
<1>8. IsUpToDate(new) /\ (new.kind = "admitted" => threads' = threads)
  <2>1. IsUpToDate(new)
    <3>1. new.update = u
      BY <1>3
    <3>2. Admit(new.update) = Admit(u) /\ telegram[new.update] = m
      BY <3>1
    <3> QED
      BY <1>7, <3>2 DEF IsUpToDate, IsCrowded
  <2>2. new.kind = "admitted" => ~CapturesAnchor(m, new)
    BY <1>7 DEF CapturesAnchor
  <2> QED
    BY <1>4, <2>1, <2>2
<1>9. \A t \in Threads : t # m.thread => threads'[t] = threads[t]
  BY <1>4 DEF FreshInv, LoopInv, RowInv, TypeInv, TypeOK
<1>10. /\ entries[p] \in Seq(Entry) /\ Len(entries[p]) \in Nat
       /\ DOMAIN entries'[p] = DOMAIN entries[p] \cup {Len(entries[p]) + 1}
       /\ \A i \in DOMAIN entries[p] : entries'[p][i] = entries[p][i]
       /\ entries'[p][Len(entries[p]) + 1] = new
  BY <1>3, <1>4 DEF FreshInv, LoopInv, RowInv, TypeInv, TypeOK
<1>11. PICK fresh : fresh = new
  OBVIOUS
<1>12. IsUpToDate(fresh)'
  <2>1. CASE fresh.kind = "admitted"
    BY <1>3, <1>4, <1>8, <1>11, <2>1, StaysUpToDate
  <2>2. CASE fresh.kind # "admitted"
    BY <2>2 DEF IsUpToDate
  <2> QED
    BY <2>1, <2>2
<1>13. ASSUME NEW i \in DOMAIN entries[p]
       PROVE  IsUpToDate(entries[p][i])'
  <2>1. PICK entry : entry = entries[p][i]
    OBVIOUS
  <2>2. entry.update \in batch[p] /\ IsUpToDate(entry) /\ entry.update # u
    BY <1>4, <1>5, <2>1 DEF FreshInv, EntriesAreUpToDate, LoopInv, RowInv, TypeInv,
                            EntriesAreOfTheBatch
  <2>3. telegram[entry.update].thread \in crowded \/ telegram[entry.update].thread # m.thread
    BY <1>4, <1>5, <2>2, NotCrowded DEF FreshInv, IsCrowded
  <2>4. telegram[entry.update].thread \in Threads
    <3>1. entry.update \in 1..Len(telegram)
      BY <2>2 DEF FreshInv, LoopInv, RowInv, TypeInv, TypeOK
    <3> QED
      BY <3>1, MessageOf DEF FreshInv, LoopInv, RowInv, TypeInv, Message
  <2>5. IsUpToDate(entry)'
    BY <1>4, <1>9, <2>2, <2>3, <2>4, StaysUpToDate
  <2>6. entries'[p][i] = entry
    BY <1>10, <2>1
  <2> QED
    BY <2>5, <2>6
    DEF IsUpToDate, IsCrowded, Admit, TrustedEnvelope, TranslateAddressee, ReverseRoster,
        FromPeer, OutOfScope, Unreadable
<1>14. PICK k : k = Len(entries[p]) + 1
  OBVIOUS
<1>15. IsUpToDate(entries[p][k])'
  <2>1. entries'[p][k] = fresh
    BY <1>10, <1>11, <1>14
  <2> QED
    BY <1>12, <2>1
    DEF IsUpToDate, IsCrowded, Admit, TrustedEnvelope, TranslateAddressee, ReverseRoster,
        FromPeer, OutOfScope, Unreadable
<1>16. \A i \in DOMAIN entries'[p] : i \in DOMAIN entries[p] \/ i = k
  BY <1>10, <1>14
<1> QED
  BY <1>13, <1>15, <1>16 DEF OneLoop, EntriesAreUpToDate

LEMMA StepFresh ==
  ASSUME OneLoop, FreshInv, [Next]_vars
  PROVE  FreshInv'
<1> SUFFICES EntriesAreUpToDate' /\ CrowdIsTold'
  BY StepLoopInv DEF FreshInv
<1>0. /\ pc \in [Pollers -> Places] /\ entries \in [Pollers -> Seq(Entry)]
      /\ batch \in [Pollers -> SUBSET (1..Len(telegram))] /\ TypeInv
  BY DEF FreshInv, LoopInv, RowInv, TypeInv, TypeOK
<1>1. ASSUME NEW p \in Pollers, Classify(p) PROVE EntriesAreUpToDate' /\ CrowdIsTold'
  <2>1. UNCHANGED <<telegram, pc, batch, crowded>>
    BY <1>1 DEF Classify, server, bounds
  <2>2. CrowdIsTold'
    BY <1>0, <2>1, StaysTold DEF FreshInv
  <2> QED
    BY <1>1, <2>2, ClassifyKeepsFresh
<1>2. ASSUME NEW p \in Pollers, Commit(p) PROVE EntriesAreUpToDate' /\ CrowdIsTold'
  <2>1. \A q \in Pollers : pc'[q] = "committed"
    BY <1>0, <1>2 DEF OneLoop, Commit
  <2> QED
    BY <2>1 DEF EntriesAreUpToDate, CrowdIsTold
<1>3. ASSUME NEW p \in Pollers, Uneventful(p) PROVE EntriesAreUpToDate' /\ CrowdIsTold'
  <2>0. \A q \in Pollers : q = p
    BY DEF OneLoop
  <2>1. UNCHANGED <<telegram, threads>> /\ crowded \subseteq crowded'
    BY <1>3 DEF Uneventful, Ask, Receive, Rollback, RecordCheckpoint, Start, PollFails,
       Conflict, Crash, server, ledger, bounds
  <2>2. CASE Receive(p) \/ Crash(p)
    <3>1. \A q \in Pollers : pc'[q] = "admitting" => entries'[q] = <<>>
      BY <1>0, <2>0, <2>2 DEF Receive, Crash
    <3>2. CrowdIsTold'
      <4>1. CASE Receive(p)
        <5>1. Crowding(batch'[p]) \subseteq crowded' /\ telegram' = telegram
          BY <1>0, <4>1 DEF Receive, server
        <5> QED
          BY <2>0, <5>1 DEF CrowdIsTold, Crowding
      <4>2. CASE Crash(p)
        BY <1>0, <2>0, <4>2 DEF Crash, CrowdIsTold
      <4> QED
        BY <2>2, <4>1, <4>2
    <3> QED
      BY <2>1, <3>1, <3>2, FreshFrame
  <2>3. CASE \/ Ask(p) \/ Rollback(p) \/ RecordCheckpoint(p) \/ Start(p)
             \/ PollFails(p) \/ Conflict(p)
    <3>1. \A q \in Pollers : pc'[q] # "admitting"
      BY <1>0, <2>0, <2>3 DEF Ask, Rollback, RecordCheckpoint, Start, PollFails, Conflict
    <3> QED
      BY <3>1 DEF EntriesAreUpToDate, CrowdIsTold
  <2> QED
    BY <1>3, <2>2, <2>3 DEF Uneventful
<1>4. ASSUME NEW m \in Wire, Post(m) PROVE EntriesAreUpToDate' /\ CrowdIsTold'
  <2>1. /\ \A u \in 1..Len(telegram) : telegram'[u] = telegram[u]
        /\ UNCHANGED <<threads, pc, entries, batch, crowded>>
    BY <1>4 DEF Post, ledger, volatile, bounds, FreshInv, LoopInv, RowInv, TypeInv, TypeOK
  <2> QED
    BY <1>0, <2>1, FreshFrame, StaysTold DEF FreshInv
<1>5. CASE Evict \/ UNCHANGED vars
  <2>1. UNCHANGED <<telegram, threads, pc, entries, batch, crowded>>
    BY <1>5 DEF Evict, vars, server, ledger, volatile, bounds
  <2> QED
    BY <1>0, <2>1, FreshFrame, StaysTold DEF FreshInv
<1> QED
  BY <1>1, <1>2, <1>3, <1>4, <1>5 DEF Next, PollLoop, Uneventful

\* The messages a transaction stores.
NewlyStored(u) == ~Stored(u) /\ Stored(u)'

\* The transaction applies each message it stores to the row the ledger holds,
\* but for the crowded threads, and touches no other row.
LEMMA CommitApplies ==
  ASSUME OneLoop, FreshInv, NEW p \in Pollers, Commit(p)
  PROVE  /\ \A u \in UpdateIds : NewlyStored(u) =>
              /\ u \in batch[p]
              /\ \E i \in DOMAIN entries[p] :
                   entries[p][i].update = u /\ entries[p][i].kind = "admitted"
         /\ \A u \in UpdateIds : Stored(u) => updates'[u] = updates[u]
         /\ \A i \in DOMAIN entries[p] :
              entries[p][i].kind = "admitted" => NewlyStored(entries[p][i].update)
         /\ \A t \in Threads \ crowded :
              \/ /\ threads'[t] = threads[t]
                 /\ \A u \in UpdateIds : NewlyStored(u) => telegram[u].thread # t
              \/ \E u \in UpdateIds :
                   /\ NewlyStored(u) /\ telegram[u].thread = t
                   /\ threads'[t] = RowAfter(threads[t], TrustedEnvelope(u))
<1>1. /\ pc[p] = "admitting" /\ updates' = InsertUpdates(p) /\ threads' = WriteThreads(p)
      /\ entries' = entries
  BY DEF Commit, Ready
<1>2. \A i \in DOMAIN entries[p] :
        /\ entries[p][i] \in Entry /\ entries[p][i].update \in batch[p]
        /\ entries[p][i].update \in UpdateIds /\ ~Stored(entries[p][i].update)
        /\ IsUpToDate(entries[p][i])
  <2> TAKE i \in DOMAIN entries[p]
  <2>1. entries[p][i].update \in batch[p] /\ entries[p][i] \in Entry
    BY DEF FreshInv, LoopInv, RowInv, TypeInv, EntriesAreOfTheBatch, TypeOK
  <2>2. entries[p][i].update \in UpdateIds
    BY <2>1, MessageOf DEF FreshInv, LoopInv, RowInv, TypeInv, TypeOK
  <2> QED
    BY <1>1, <2>1, <2>2
    DEF FreshInv, EntriesAreUpToDate, LoopInv, LoopFacts, PollIsCurrent, AheadIsUntouched
<1>3. /\ Inserted(p) = {i \in DOMAIN entries[p] : entries[p][i].kind = "admitted"}
  BY <1>2 DEF Inserted, Written, Replayed
<1>4. \A i \in Inserted(p) :
        /\ ~IsCrowded(entries[p][i].update) => entries[p][i] = Admit(entries[p][i].update)
        /\ entries[p][i].outcome \in Outcomes
  BY <1>2, <1>3 DEF IsUpToDate, Entry, Admitted, Dropped
<1>5. ASSUME NEW i \in Inserted(p)
      PROVE  NewlyStored(entries[p][i].update)
  <2> DEFINE u == entries[p][i].update
             k == CHOOSE j \in Inserted(p) : entries[p][j].update = u
  <2>1. k \in Inserted(p)
    OBVIOUS
  <2>2. u \in UpdateIds /\ updates'[u] = entries[p][k].outcome /\ ~Stored(u)
    BY <1>1, <1>2, <1>3 DEF InsertUpdates
  <2>3. updates'[u] # "absent"
    BY <1>4, <2>1, <2>2 DEF Outcomes
  <2> QED
    BY <1>1, <2>2, <2>3 DEF NewlyStored, Stored
<1>6. \A u \in UpdateIds : NewlyStored(u) => \E i \in Inserted(p) : entries[p][i].update = u
  BY <1>1 DEF InsertUpdates, NewlyStored, Stored
<1>7. \A u \in UpdateIds : Stored(u) => updates'[u] = updates[u]
  BY <1>1, <1>2, <1>3 DEF InsertUpdates
<1>8. ASSUME NEW t \in Threads \ crowded
      PROVE  \/ /\ threads'[t] = threads[t]
                /\ \A u \in UpdateIds : NewlyStored(u) => telegram[u].thread # t
             \/ \E u \in UpdateIds :
                  /\ NewlyStored(u) /\ telegram[u].thread = t
                  /\ threads'[t] = RowAfter(threads[t], TrustedEnvelope(u))
  <2>1. ASSUME NEW i \in Inserted(p), telegram[entries[p][i].update].thread = t
        PROVE  /\ entries[p][i].row = RowAfter(threads[t], TrustedEnvelope(entries[p][i].update))
               /\ entries[p][i].outcome = OutcomeOf(threads[t], TrustedEnvelope(entries[p][i].update))
    <3>1. PICK u : u = entries[p][i].update
      OBVIOUS
    <3>2. TrustedEnvelope(u).thread = t
      BY <2>1, <3>1 DEF TrustedEnvelope
    <3>3. entries[p][i] = Admit(u)
      BY <1>4, <2>1, <3>1 DEF IsCrowded
    <3>4. /\ Admit(u).row = RowAfter(threads[t], TrustedEnvelope(u))
          /\ Admit(u).outcome = OutcomeOf(threads[t], TrustedEnvelope(u))
      BY <3>2 DEF Admit
    <3> QED
      BY <3>1, <3>3, <3>4
  <2>2. CASE Writers(p, t) # {}
    <3> DEFINE i == LastOf(Writers(p, t))
    <3>1. i \in Writers(p, t)
      <4>1. Len(entries[p]) \in Nat /\ Writers(p, t) \in SUBSET (0..Len(entries[p]))
        BY DEF Writers, Inserted, Written, FreshInv, LoopInv, RowInv, TypeInv, TypeOK
      <4> QED
        BY <2>2, <4>1, LastOfIsGreatest
    <3>2. threads'[t] = entries[p][i].row
      BY <1>1, <2>2 DEF WriteThreads
    <3> HIDE DEF i
    <3>3. i \in Inserted(p) /\ telegram[entries[p][i].update].thread = t
      BY <3>1 DEF Writers
    <3>4. threads'[t] = RowAfter(threads[t], TrustedEnvelope(entries[p][i].update))
      BY <2>1, <3>2, <3>3
    <3> QED
      BY <1>2, <1>3, <1>5, <3>3, <3>4
  <2>3. CASE Writers(p, t) = {}
    <3>1. threads'[t] = threads[t]
      BY <1>1, <2>3 DEF WriteThreads
    <3>2. ASSUME NEW i \in Inserted(p), telegram[entries[p][i].update].thread = t
          PROVE  threads[t] = RowAfter(threads[t], TrustedEnvelope(entries[p][i].update))
      <4>1. entries[p][i].outcome \notin Transitions
        BY <2>3, <3>2 DEF Writers
      <4> QED
        BY <2>1, <3>2, <4>1, RowOfOutcome
    <3> QED
      BY <1>2, <1>3, <1>5, <1>6, <3>1, <3>2
  <2> QED
    BY <2>2, <2>3
<1> QED
  BY <1>2, <1>3, <1>5, <1>6, <1>7, <1>8

-----------------------------------------------------------------------------
(* The reply anchor of a thread.                                           *)

UnheldAreBlank == \A t \in Threads \ crowded : ~Held(threads[t]) => threads[t] = NoThread

\* batchSeenEids has no eid but of the batch.
SeenAreOfTheBatch ==
  \A p \in Pollers : pc[p] = "admitting" => \A e \in seen[p] :
    \E i \in DOMAIN entries[p] : telegram[entries[p][i].update].eid = e

\* The group copy of an opening by a peer.
OpensInGroup(m) ==
  FromPeer(m) /\ m.form = "envelope" /\ m.chat = "group" /\ m.type = "REQUEST"

IsAnchored(u) ==
  threads[telegram[u].thread].opened_eid = telegram[u].eid
    => threads[telegram[u].thread].anchor # None

\* No later copy will be taken for the opening.
IsKnown(u) == Held(threads[telegram[u].thread]) \/ IsEidInUpdates(telegram[u].eid)

OpeningsBehind ==
  evicted = {} => \A u \in 1..Len(telegram) :
    u < offset /\ OpensInGroup(telegram[u]) /\ ~IsCrowded(u) => IsAnchored(u) /\ IsKnown(u)

OpeningsInHand ==
  \A p \in Pollers : pc[p] = "admitting" => \A i \in DOMAIN entries[p] :
    OpensInGroup(telegram[entries[p][i].update]) /\ ~IsCrowded(entries[p][i].update) =>
      /\ IsAnchored(entries[p][i].update)
      /\ entries[p][i].kind = "admitted" \/ IsKnown(entries[p][i].update)

AnchorFacts == UnheldAreBlank /\ SeenAreOfTheBatch /\ OpeningsBehind /\ OpeningsInHand

AnchorInv == FreshInv /\ AnchorFacts

\* A held row keeps its opening and its anchor; another is opened or stays.
LEMMA OpenedOrKept ==
  ASSUME NEW row \in ThreadRow, NEW env \in Envelope, env.type = "REQUEST" => ~Held(row)
  PROVE  /\ Held(row) => /\ RowAfter(row, env).opened_eid = row.opened_eid
                         /\ RowAfter(row, env).anchor = row.anchor
                         /\ Held(RowAfter(row, env))
         /\ ~Held(row) => RowAfter(row, env) \in {row, Opened(env)}
<1>1. CASE Held(row)
  <2>1. OutcomeOf(row, env) # "opened"
    BY <1>1 DEF OutcomeOf, Envelope, Types
  <2>2. RowAfter(row, env) \in {row, Acked(row, env), Replied(row, env), Resolved(row, env)}
    BY <2>1, RowOfOutcome, OutcomeType DEF Outcomes, Transitions
  <2>3. \A next \in {Acked(row, env), Replied(row, env), Resolved(row, env)} :
          /\ next.opened_eid = row.opened_eid /\ next.anchor = row.anchor
          /\ next.status \in {row.status, "resolved"}
    BY DEF Acked, Replied, Resolved, ThreadRow
  <2> QED
    BY <1>1, <2>2, <2>3 DEF Held
<1>2. CASE ~Held(row)
  <2>1. OutcomeOf(row, env) \notin {"acked", "replied", "resolved"}
    BY <1>2 DEF OutcomeOf, Envelope, Types
  <2> QED
    BY <1>2, <2>1, RowOfOutcome, OutcomeType DEF Outcomes, Transitions
<1> QED
  BY <1>1, <1>2

LEMMA SameOrHeld ==
  ASSUME NEW row \in ThreadRow, NEW env \in Envelope
  PROVE  RowAfter(row, env) = row \/ Held(RowAfter(row, env))
<1>1. OutcomeOf(row, env) \in {"acked", "replied", "resolved"} => Held(row)
  BY DEF OutcomeOf, Envelope, Types
<1>2. \A next \in {Acked(row, env), Replied(row, env), Resolved(row, env)} :
        next.status \in {row.status, "resolved"}
  BY DEF Acked, Replied, Resolved, ThreadRow
<1>3. Held(Opened(env))
  BY DEF Opened, Held
<1> QED
  BY <1>1, <1>2, <1>3, RowOfOutcome, OutcomeType DEF Outcomes, Transitions, Held

LEMMA StoredIsFromPeer ==
  ASSUME OneLoop, FreshInv, NEW p \in Pollers, Commit(p),
         NEW u \in UpdateIds, NewlyStored(u)
  PROVE  u \in 1..Len(telegram) /\ TrustedEnvelope(u) \in Envelope
<1>1. PICK i \in DOMAIN entries[p] : entries[p][i].update = u /\ entries[p][i].kind = "admitted"
  BY CommitApplies
<1>2. u \in 1..Len(telegram) /\ FromPeer(telegram[u])
  BY <1>1 DEF Commit, Ready, FreshInv, EntriesAreUpToDate, IsUpToDate, LoopInv, RowInv,
              TypeInv, TypeOK, EntriesAreOfTheBatch
<1> QED
  BY <1>2, MessageOf, TrustedEnvelopeType DEF FreshInv, LoopInv, RowInv, TypeInv, TypeOK

\* What a transaction does to a thread with an opening in the group.
LEMMA CommitKeepsAnchors ==
  ASSUME OneLoop, AnchorInv, NEW p \in Pollers, Commit(p),
         NEW u \in 1..Len(telegram), OpensInGroup(telegram[u]), ~IsCrowded(u),
         IsAnchored(u), IsKnown(u) \/ NewlyStored(u)
  PROVE  IsAnchored(u)' /\ IsKnown(u)'
<1> DEFINE t == telegram[u].thread
           e == telegram[u].eid
<1>1. /\ telegram' = telegram /\ pc[p] = "admitting" /\ entries' = entries
      /\ t \in Threads /\ e \in Eids /\ u \in UpdateIds /\ threads[t] \in ThreadRow
  BY MessageOf
  DEF Commit, Ready, server, AnchorInv, FreshInv, LoopInv, RowInv, TypeInv, TypeOK, Message
<1>2. \A v \in UpdateIds : Stored(v) => Stored(v)'
  BY CommitApplies DEF AnchorInv, Stored
<1>3. IsEidInUpdates(e) \/ NewlyStored(u) => IsEidInUpdates(e)'
  BY <1>1, <1>2 DEF IsEidInUpdates, NewlyStored
<1>4. CASE threads'[t] = threads[t]
  BY <1>1, <1>3, <1>4 DEF IsAnchored, IsKnown
<1>5. ASSUME NEW v \in UpdateIds, NewlyStored(v), telegram[v].thread = t,
             threads'[t] = RowAfter(threads[t], TrustedEnvelope(v))
      PROVE  IsAnchored(u)' /\ IsKnown(u)'
  <2> DEFINE env == TrustedEnvelope(v)
  <2>1. PICK i \in DOMAIN entries[p] : entries[p][i].update = v /\ entries[p][i].kind = "admitted"
    BY <1>5, CommitApplies DEF AnchorInv
  <2>2. v \in 1..Len(telegram) /\ v \in batch[p]
    BY <2>1 DEF AnchorInv, FreshInv, LoopInv, RowInv, TypeInv, TypeOK, EntriesAreOfTheBatch
  <2>3. telegram[v].type = "REQUEST" => ~Held(threads[t])
    BY <1>1, <1>5, <2>1 DEF AnchorInv, FreshInv, EntriesAreUpToDate, IsUpToDate, IsCrowded
  <2>4. ~IsEidInUpdates(telegram[v].eid)
    BY <1>1, <2>1 DEF AnchorInv, FreshInv, LoopInv, LoopFacts, EntriesAreNew, EidOf
  <2>5. env \in Envelope /\ env.type = telegram[v].type /\ env.eid = telegram[v].eid
        /\ env.via = telegram[v].chat /\ env.mid = v
    <3>1. FromPeer(telegram[v])
      BY <1>1, <2>1 DEF AnchorInv, FreshInv, EntriesAreUpToDate, IsUpToDate
    <3>2. telegram[v] \in Message
      BY <2>2, MessageOf DEF AnchorInv, FreshInv, LoopInv, RowInv, TypeInv
    <3>3. env \in Envelope
      BY <2>2, <3>1, <3>2, TrustedEnvelopeType
    <3> QED
      BY <3>3 DEF TrustedEnvelope
  <2>a. threads'[t] = RowAfter(threads[t], env)
    BY <1>5
  <2> HIDE DEF env
  <2>6. CASE Held(threads[t])
    <3>1. /\ threads'[t].opened_eid = threads[t].opened_eid
          /\ threads'[t].anchor = threads[t].anchor /\ Held(threads'[t])
      BY <1>1, <2>a, <2>3, <2>5, <2>6, OpenedOrKept
    <3> QED
      BY <1>1, <3>1 DEF IsAnchored, IsKnown
  <2>7. CASE ~Held(threads[t])
    <3>1. threads'[t] \in {threads[t], Opened(env)}
      BY <1>1, <2>a, <2>3, <2>5, <2>7, OpenedOrKept
    <3>2. IsEidInUpdates(e)'
      BY <1>3, <2>7 DEF IsKnown
    <3>3. CASE threads'[t] = threads[t]
      BY <1>1, <3>2, <3>3 DEF IsAnchored, IsKnown
    <3>4. CASE threads'[t] = Opened(env)
      <4>1. /\ threads'[t].opened_eid = telegram[v].eid
            /\ threads'[t].anchor = IF telegram[v].chat = "group" THEN v ELSE None
            /\ Held(threads'[t])
        BY <2>5, <3>4 DEF Opened, Held
      <4>2. CASE v = u
        <5>1. v \in Nat /\ v # None
          BY <2>2, NoneAssumption DEF AnchorInv, FreshInv, LoopInv, RowInv, TypeInv, TypeOK
        <5> QED
          BY <1>1, <4>1, <4>2, <5>1 DEF IsAnchored, IsKnown, OpensInGroup
      <4>3. CASE v # u
        <5>1. ~NewlyStored(u)
          <6>1. NewlyStored(u) => u \in batch[p]
            BY <1>1, CommitApplies DEF AnchorInv
          <6> QED
            BY <1>1, <1>5, <2>2, <4>3, <6>1, NotCrowded DEF AnchorInv, FreshInv
        <5>2. IsEidInUpdates(e)
          BY <2>7, <5>1 DEF IsKnown
        <5>3. telegram[v].eid # e
          BY <2>4, <5>2
        <5> QED
          BY <1>1, <4>1, <5>3 DEF IsAnchored, IsKnown
      <4> QED
        BY <4>2, <4>3
    <3> QED
      BY <3>1, <3>3, <3>4
  <2> QED
    BY <2>6, <2>7
<1> QED
  BY <1>1, <1>4, <1>5, CommitApplies DEF AnchorInv, IsCrowded

\* The transaction that moves past an opening, and keeps those before.
LEMMA CommitKeepsAnchorFacts ==
  ASSUME OneLoop, AnchorInv, NEW p \in Pollers, Commit(p)
  PROVE  AnchorFacts'
<1>1. /\ telegram' = telegram /\ evicted' = evicted /\ pc[p] = "admitting" /\ Rest(p) = {}
      /\ \A q \in Pollers : pc'[q] = "committed"
      /\ crowded' = crowded
  BY DEF Commit, Ready, server, bounds, OneLoop, AnchorInv, FreshInv, LoopInv, RowInv, TypeInv, TypeOK
<1>2. SeenAreOfTheBatch' /\ OpeningsInHand'
  BY <1>1 DEF SeenAreOfTheBatch, OpeningsInHand
<1>3. UnheldAreBlank'
  <2> SUFFICES ASSUME NEW t \in Threads \ crowded
               PROVE  threads'[t] = threads[t] \/ Held(threads'[t])
    BY <1>1 DEF AnchorInv, AnchorFacts, UnheldAreBlank
  <2> SUFFICES ASSUME NEW u \in UpdateIds, NewlyStored(u), telegram[u].thread = t,
                      threads'[t] = RowAfter(threads[t], TrustedEnvelope(u))
               PROVE  threads'[t] = threads[t] \/ Held(threads'[t])
    BY CommitApplies DEF AnchorInv
  <2>1. TrustedEnvelope(u) \in Envelope
    BY StoredIsFromPeer DEF AnchorInv
  <2>2. threads[t] \in ThreadRow
    BY DEF AnchorInv, FreshInv, LoopInv, RowInv, TypeInv, TypeOK
  <2> QED
    BY <2>1, <2>2, SameOrHeld
<1>4. OpeningsBehind'
  <2> SUFFICES ASSUME evicted = {}, NEW u \in 1..Len(telegram), u < offset',
                      OpensInGroup(telegram[u]), ~IsCrowded(u)
               PROVE  IsAnchored(u)' /\ IsKnown(u)'
    BY <1>1 DEF OpeningsBehind, OpensInGroup, IsCrowded, FromPeer, OutOfScope, Unreadable
  <2>1. u \in UpdateIds /\ offset' \in Nat
    BY MessageOf, CommitTypes
    DEF Commit, Ready, AnchorInv, FreshInv, LoopInv, RowInv, TypeInv, TypeOK, BatchesAreLive
  <2>2. u < offset \/ u \in batch[p]
    <3>1. u \in Int /\ 1 <= u /\ u < offset'
      BY <2>1 DEF UpdateIds
    <3>2. u \in 1..offset' - 1
      BY <2>1, <3>1, BelowIsInRange
    <3> QED
      BY <3>2, CommitAudits DEF AnchorInv, FreshInv
  <2>3. CASE u < offset
    BY <2>3, CommitKeepsAnchors DEF AnchorInv, AnchorFacts, OpeningsBehind
  <2>4. CASE u \in batch[p]
    <3>1. PICK i \in DOMAIN entries[p] : entries[p][i].update = u
      BY <1>1, <2>4 DEF Rest
    <3>2. IsAnchored(u) /\ (entries[p][i].kind = "admitted" \/ IsKnown(u))
      BY <1>1, <3>1 DEF AnchorInv, AnchorFacts, OpeningsInHand
    <3>3. entries[p][i].kind = "admitted" => NewlyStored(u)
      <4>1. entries[p][i].kind = "admitted" => NewlyStored(entries[p][i].update)
        BY CommitApplies DEF AnchorInv
      <4>2. entries' = entries
        BY DEF Commit
      <4> QED
        BY <3>1, <4>1, <4>2 DEF NewlyStored, Stored
    <3> QED
      BY <3>2, <3>3, CommitKeepsAnchors
  <2> QED
    BY <2>2, <2>3, <2>4
<1> QED
  BY <1>2, <1>3, <1>4 DEF AnchorFacts

\* A copy dropped as a duplicate leaves the thread its anchor.
LEMMA DuplicateIsAnchored ==
  ASSUME OneLoop, AnchorInv, NEW p \in Pollers, Classify(p),
         NEW u \in 1..Len(telegram), u = FirstOf(Rest(p)), u \in Rest(p),
         OpensInGroup(telegram[u]), ~IsCrowded(u), Judge(p, u).kind # "admitted"
  PROVE  IsAnchored(u)' /\ IsKnown(u)
<1> DEFINE m == telegram[u]
           t == m.thread
<1>1. /\ pc[p] = "admitting" /\ telegram' = telegram
      /\ threads' = IF CapturesAnchor(m, Judge(p, u))
                    THEN [threads EXCEPT ![t].anchor = u] ELSE threads
  BY DEF Classify, server
<1>2. /\ m \in Message /\ t \in Threads /\ m.eid \in Eids /\ u \in UpdateIds
      /\ threads \in [Threads -> ThreadRow]
  BY MessageOf DEF AnchorInv, FreshInv, LoopInv, RowInv, TypeInv, TypeOK, Message
<1>3. Judge(p, u).reason = "duplicate" /\ IsDuplicate(p, u)
  <2>1. DropReason(p, u) # None
    BY DEF Judge, Admit
  <2>2. FromPeer(m) /\ m.form = "envelope"
    BY DEF OpensInGroup
  <2>3. DropReason(p, u) = IF IsDuplicate(p, u) THEN "duplicate" ELSE None
    BY <2>2 DEF DropReason, FromPeer, OutOfScope, FromStranger, SelfEcho, Unreadable
  <2> QED
    BY <2>1, <2>3 DEF Judge, Drop
<1>4. m.eid \notin seen[p]
  <2> SUFFICES ASSUME m.eid \in seen[p] PROVE FALSE
    OBVIOUS
  <2>1. PICK i \in DOMAIN entries[p] : telegram[entries[p][i].update].eid = m.eid
    BY <1>1 DEF AnchorInv, AnchorFacts, SeenAreOfTheBatch
  <2>2. entries[p][i].update \in batch[p] /\ u \in batch[p] /\ entries[p][i].update # u
    BY DEF AnchorInv, FreshInv, LoopInv, RowInv, TypeInv, EntriesAreOfTheBatch, Rest
  <2> QED
    BY <1>1, <2>1, <2>2, NotCrowded DEF AnchorInv, FreshInv
<1>5. ~Held(threads[t]) => threads[t].opened_eid = None /\ threads[t].history = {}
  BY <1>2 DEF AnchorInv, AnchorFacts, UnheldAreBlank, IsCrowded, NoThread
<1>6. IsKnown(u)
  BY <1>3, <1>4, <1>5 DEF IsDuplicate, IsKnown, IsThreadHeld, IsEidInThreadHistory
<1>7. IsAnchored(u)'
  <2>1. threads'[t].opened_eid = threads[t].opened_eid
    BY <1>1, <1>2 DEF ThreadRow
  <2>2. CASE ~Held(threads[t])
    <3>1. threads[t].opened_eid # m.eid
      BY <1>2, <1>5, <2>2, EidsAssumption, NoneAssumption
    <3> QED
      BY <1>1, <2>1, <3>1 DEF IsAnchored
  <2>3. CASE Held(threads[t])
    <3>1. CapturesAnchor(m, Judge(p, u)) <=> threads[t].anchor = None
      BY <1>3, <2>3 DEF CapturesAnchor, OpensInGroup
    <3>2. u # None
      BY NoneAssumption DEF AnchorInv, FreshInv, LoopInv, RowInv, TypeInv, TypeOK
    <3>3. threads'[t].anchor # None
      BY <1>1, <1>2, <3>1, <3>2 DEF ThreadRow
    <3> QED
      BY <1>1, <3>3 DEF IsAnchored
  <2> QED
    BY <2>2, <2>3
<1> QED
  BY <1>6, <1>7

LEMMA ClassifyKeepsAnchorFacts ==
  ASSUME OneLoop, AnchorInv, NEW p \in Pollers, Classify(p)
  PROVE  AnchorFacts'
<1>1. PICK u \in 1..Len(telegram) : u = FirstOf(Rest(p)) /\ u \in Rest(p)
  BY NextOfBatch DEF Classify, AnchorInv, FreshInv, LoopInv, RowInv, TypeInv
<1> DEFINE m == telegram[u]
           new == Judge(p, u)
<1>2. m \in Message /\ u \in UpdateIds /\ m.thread \in Threads /\ m.eid \in Eids
  BY MessageOf DEF AnchorInv, FreshInv, LoopInv, RowInv, TypeInv, Message
<1>3. new \in Entry /\ new.update = u
  BY <1>2, JudgeType DEF AnchorInv, FreshInv, LoopInv, RowInv, TypeInv, TypeOK
<1>4. /\ pc[p] = "admitting"
      /\ entries' = [entries EXCEPT ![p] = Append(@, new)]
      /\ threads' = IF CapturesAnchor(m, new)
                    THEN [threads EXCEPT ![m.thread].anchor = u] ELSE threads
      /\ seen' = IF Remembers(m, new) THEN [seen EXCEPT ![p] = @ \cup {m.eid}] ELSE seen
      /\ UNCHANGED <<telegram, evicted, updates, offset, pc, crowded>>
  BY <1>1 DEF Classify, server, bounds
<1>5. OpensInGroup(m) /\ ~IsCrowded(u) /\ new.kind # "admitted" => IsAnchored(u)' /\ IsKnown(u)
  BY <1>1, DuplicateIsAnchored
<1>6. new.kind = "admitted" /\ OpensInGroup(m) /\ ~IsCrowded(u) => IsAnchored(u)'
  <2> SUFFICES ASSUME new.kind = "admitted", OpensInGroup(m), ~IsCrowded(u)
               PROVE  IsAnchored(u)'
    OBVIOUS
  <2>1. ~Stored(u)
    BY <1>1, <1>2, <1>4 DEF Rest, AnchorInv, FreshInv, LoopInv, LoopFacts, PollIsCurrent,
                            AheadIsUntouched
  <2>2. ~Held(threads[m.thread])
    BY <2>1, AdmittedIsNew
    DEF AnchorInv, FreshInv, LoopInv, RowInv, TypeInv, IsThreadHeld, OpensInGroup
  <2>3. threads[m.thread].opened_eid = None /\ None # m.eid
    <3>1. threads[m.thread] = NoThread
      BY <1>2, <2>2 DEF AnchorInv, AnchorFacts, UnheldAreBlank, IsCrowded
    <3>2. NoThread.opened_eid = None
      BY DEF NoThread
    <3>3. None # m.eid
      BY <1>2, EidsAssumption, NoneAssumption
    <3> QED
      BY <3>1, <3>2, <3>3
  <2>4. threads'[m.thread].opened_eid = threads[m.thread].opened_eid
    BY <1>2, <1>4 DEF AnchorInv, FreshInv, LoopInv, RowInv, TypeInv, TypeOK, ThreadRow
  <2> QED
    BY <1>4, <2>3, <2>4 DEF IsAnchored
<1> HIDE DEF new
<1>7. \A t \in Threads :
        /\ threads'[t].opened_eid = threads[t].opened_eid
        /\ threads'[t].status = threads[t].status
        /\ threads[t].anchor # None => threads'[t].anchor # None
        /\ ~Held(threads[t]) => threads'[t] = threads[t]
  <2>1. u # None
    BY NoneAssumption DEF AnchorInv, FreshInv, LoopInv, RowInv, TypeInv, TypeOK
  <2>2. CapturesAnchor(m, new) => Held(threads[m.thread])
    BY DEF CapturesAnchor
  <2> QED
    BY <1>2, <1>4, <2>1, <2>2
    DEF AnchorInv, FreshInv, LoopInv, RowInv, TypeInv, TypeOK, ThreadRow
<1>8. \A v \in 1..Len(telegram) :
        /\ IsAnchored(v) => IsAnchored(v)'
        /\ IsKnown(v) => IsKnown(v)'
  <2> TAKE v \in 1..Len(telegram)
  <2>1. telegram[v].thread \in Threads
    BY MessageOf DEF AnchorInv, FreshInv, LoopInv, RowInv, TypeInv, Message
  <2> QED
    BY <1>4, <1>7, <2>1 DEF IsAnchored, IsKnown, Held, IsEidInUpdates, Stored
<1>9. UnheldAreBlank'
  BY <1>4, <1>7 DEF AnchorInv, AnchorFacts, UnheldAreBlank, Held
<1>10. /\ entries[p] \in Seq(Entry) /\ Len(entries[p]) \in Nat
       /\ DOMAIN entries'[p] = DOMAIN entries[p] \cup {Len(entries[p]) + 1}
       /\ \A i \in DOMAIN entries[p] : entries'[p][i] = entries[p][i]
       /\ entries'[p][Len(entries[p]) + 1] = new
  BY <1>3, <1>4 DEF AnchorInv, FreshInv, LoopInv, RowInv, TypeInv, TypeOK
<1>11. SeenAreOfTheBatch'
  <2>1. \A e \in seen'[p] : e \in seen[p] \/ e = m.eid
    BY <1>4 DEF AnchorInv, FreshInv, LoopInv, RowInv, TypeInv, TypeOK
  <2>2. \A e \in seen'[p] : \E i \in DOMAIN entries'[p] :
          telegram[entries'[p][i].update].eid = e
    <3> TAKE e \in seen'[p]
    <3>1. CASE e \in seen[p]
      <4>1. PICK i \in DOMAIN entries[p] : telegram[entries[p][i].update].eid = e
        BY <1>4, <3>1 DEF AnchorInv, AnchorFacts, SeenAreOfTheBatch
      <4> QED
        BY <1>10, <4>1
    <3>2. CASE e = m.eid
      BY <1>3, <1>10, <3>2
    <3> QED
      BY <2>1, <3>1, <3>2
  <2> QED
    BY <1>4, <2>2 DEF OneLoop, SeenAreOfTheBatch
<1>12. OpeningsBehind'
  BY <1>4, <1>8
  DEF AnchorInv, AnchorFacts, OpeningsBehind, OpensInGroup, IsCrowded, FromPeer, OutOfScope,
      Unreadable
<1>13. OpeningsInHand'
  <2>1. ASSUME NEW i \in DOMAIN entries'[p], NEW v, v = entries'[p][i].update,
               OpensInGroup(telegram[v]), ~IsCrowded(v)
        PROVE  IsAnchored(v)' /\ (entries'[p][i].kind = "admitted" \/ IsKnown(v)')
    <3>1. CASE i \in DOMAIN entries[p]
      <4>1. entries'[p][i] = entries[p][i] /\ v \in 1..Len(telegram)
        BY <1>10, <2>1, <3>1
        DEF AnchorInv, FreshInv, LoopInv, RowInv, TypeInv, TypeOK, EntriesAreOfTheBatch
      <4>2. IsAnchored(v) /\ (entries[p][i].kind = "admitted" \/ IsKnown(v))
        BY <1>4, <2>1, <3>1, <4>1 DEF AnchorInv, AnchorFacts, OpeningsInHand
      <4> QED
        BY <1>8, <4>1, <4>2
    <3>2. CASE i = Len(entries[p]) + 1
      <4>1. entries'[p][i] = new /\ v = u
        BY <1>3, <1>10, <2>1, <3>2
      <4>2. IsAnchored(u)' /\ (new.kind = "admitted" \/ IsKnown(u)')
        BY <1>5, <1>6, <1>8, <2>1, <4>1
      <4> QED
        BY <4>1, <4>2
    <3> QED
      BY <1>10, <3>1, <3>2
  <2>2. ASSUME NEW i \in DOMAIN entries'[p], OpensInGroup(telegram[entries'[p][i].update]),
               ~IsCrowded(entries'[p][i].update)
        PROVE  /\ IsAnchored(entries[p][i].update)'
               /\ entries'[p][i].kind = "admitted" \/ IsKnown(entries[p][i].update)'
    <3>1. PICK v : v = entries'[p][i].update
      OBVIOUS
    <3>2. IsAnchored(v)' /\ (entries'[p][i].kind = "admitted" \/ IsKnown(v)')
      BY <2>1, <2>2, <3>1
    <3> QED
      BY <3>1, <3>2 DEF IsAnchored, IsKnown, IsEidInUpdates, Stored, Held
  <2>3. ASSUME NEW i \in DOMAIN entries'[p], OpensInGroup(telegram[entries[p][i].update])',
               ~IsCrowded(entries[p][i].update)'
        PROVE  /\ OpensInGroup(telegram[entries'[p][i].update])
               /\ ~IsCrowded(entries'[p][i].update)
    BY <1>4, <2>3 DEF OpensInGroup, IsCrowded, FromPeer, OutOfScope, Unreadable
  <2>4. \A q \in Pollers : q = p
    BY DEF OneLoop
  <2> QED
    BY <2>2, <2>3, <2>4 DEF OpeningsInHand
<1> QED
  BY <1>9, <1>11, <1>12, <1>13 DEF AnchorFacts

\* What arrives is ahead, and what else can happen leaves the loop what it
\* decided, or nothing.
LEMMA AnchorFrame ==
  ASSUME AnchorInv, UNCHANGED <<updates, threads, offset>>, evicted \subseteq evicted',
         crowded \subseteq crowded', Len(telegram') \in Nat,
         \A u \in 1..Len(telegram) : telegram'[u] = telegram[u],
         \A u \in 1..Len(telegram') : u \in 1..Len(telegram) \/ ~(u < offset),
         \A p \in Pollers : pc'[p] = "admitting" =>
           \/ entries'[p] = <<>> /\ seen'[p] = {}
           \/ pc[p] = "admitting" /\ entries'[p] = entries[p] /\ seen'[p] = seen[p]
  PROVE  AnchorFacts'
<1>1. \A p \in Pollers : \A i \in DOMAIN entries[p] : entries[p][i].update \in 1..Len(telegram)
  BY DEF AnchorInv, FreshInv, LoopInv, RowInv, TypeInv, TypeOK, EntriesAreOfTheBatch
<1>2. \A u \in UpdateIds : Stored(u) => u \in 1..Len(telegram)
  BY DEF AnchorInv, FreshInv, LoopInv, RowInv, OnlyArrivedAreStored
<1>3. \A e : IsEidInUpdates(e) => IsEidInUpdates(e)'
  BY <1>2 DEF IsEidInUpdates, Stored
<1>4. \A u \in 1..Len(telegram) : /\ IsAnchored(u) => IsAnchored(u)'
                                  /\ IsKnown(u) => IsKnown(u)'
  <2> TAKE u \in 1..Len(telegram)
  <2>1. telegram'[u] = telegram[u]
    OBVIOUS
  <2>2. PICK e : e = telegram[u].eid
    OBVIOUS
  <2>3. IsKnown(u) => Held(threads[telegram[u].thread]) \/ IsEidInUpdates(e)'
    BY <1>3, <2>2 DEF IsKnown
  <2>4. IsEidInUpdates(e)' => IsEidInUpdates(telegram[u].eid)'
    BY <2>1, <2>2 DEF IsEidInUpdates, Stored
  <2> QED
    BY <2>1, <2>3, <2>4 DEF IsAnchored, IsKnown, Held
<1>5. UnheldAreBlank'
  BY DEF AnchorInv, AnchorFacts, UnheldAreBlank, Held
<1>6. SeenAreOfTheBatch'
  BY <1>1 DEF AnchorInv, AnchorFacts, SeenAreOfTheBatch
<1>7. OpeningsBehind'
  <2> SUFFICES ASSUME evicted = {}, NEW u \in 1..Len(telegram), u < offset,
                      OpensInGroup(telegram[u]), ~IsCrowded(u)
               PROVE  IsAnchored(u)' /\ IsKnown(u)'
    BY DEF OpeningsBehind, OpensInGroup, IsCrowded, FromPeer, OutOfScope, Unreadable
  <2> QED
    BY <1>4 DEF AnchorInv, AnchorFacts, OpeningsBehind
<1>8. OpeningsInHand'
  <2> SUFFICES ASSUME NEW p \in Pollers, pc'[p] = "admitting", NEW i \in DOMAIN entries'[p],
                      OpensInGroup(telegram[entries[p][i].update])',
                      ~IsCrowded(entries[p][i].update)'
               PROVE  /\ IsAnchored(entries[p][i].update)'
                      /\ entries'[p][i].kind = "admitted" \/ IsKnown(entries[p][i].update)'
    BY DEF OpeningsInHand
  <2>1. pc[p] = "admitting" /\ entries'[p] = entries[p] /\ i \in DOMAIN entries[p]
    OBVIOUS
  <2>2. PICK u \in 1..Len(telegram) : u = entries[p][i].update
    BY <1>1, <2>1
  <2>3. OpensInGroup(telegram[u]) /\ ~IsCrowded(u)
    BY <2>1, <2>2 DEF OpensInGroup, IsCrowded, FromPeer, OutOfScope, Unreadable
  <2>4. IsAnchored(u) /\ (entries[p][i].kind = "admitted" \/ IsKnown(u))
    BY <2>1, <2>2, <2>3 DEF AnchorInv, AnchorFacts, OpeningsInHand
  <2>5. IsAnchored(u)' /\ (entries[p][i].kind = "admitted" \/ IsKnown(u)')
    BY <1>4, <2>4
  <2> QED
    BY <2>1, <2>2, <2>5 DEF IsAnchored, IsKnown, IsEidInUpdates, Stored, Held
<1> QED
  BY <1>5, <1>6, <1>7, <1>8 DEF AnchorFacts

LEMMA StepAnchors ==
  ASSUME OneLoop, AnchorInv, [Next]_vars
  PROVE  AnchorInv'
<1> SUFFICES AnchorFacts'
  BY StepFresh DEF AnchorInv
<1>0. /\ pc \in [Pollers -> Places] /\ entries \in [Pollers -> Seq(Entry)]
      /\ seen \in [Pollers -> SUBSET Eids]
      /\ Len(telegram) \in Nat /\ offset \in 1..Len(telegram) + 1
  BY DEF AnchorInv, FreshInv, LoopInv, RowInv, TypeInv, TypeOK
<1>1. ASSUME NEW p \in Pollers, Classify(p) PROVE AnchorFacts'
  BY <1>1, ClassifyKeepsAnchorFacts
<1>2. ASSUME NEW p \in Pollers, Commit(p) PROVE AnchorFacts'
  BY <1>2, CommitKeepsAnchorFacts
<1>3. ASSUME NEW p \in Pollers, Uneventful(p) PROVE AnchorFacts'
  <2>1. UNCHANGED <<telegram, evicted, updates, threads, offset>>
        /\ crowded \subseteq crowded'
    BY <1>3 DEF Uneventful, Ask, Receive, Rollback, RecordCheckpoint, Start, PollFails,
       Conflict, Crash, server, ledger, bounds
  <2>2. \A q \in Pollers : pc'[q] = "admitting" => entries'[q] = <<>> /\ seen'[q] = {}
    <3>1. \A q \in Pollers : q = p
      BY DEF OneLoop
    <3>2. CASE Receive(p) \/ Crash(p)
      BY <1>0, <3>1, <3>2 DEF Receive, Crash
    <3>3. CASE \/ Ask(p) \/ Rollback(p) \/ RecordCheckpoint(p) \/ Start(p)
               \/ PollFails(p) \/ Conflict(p)
      <4>1. pc'[p] # "admitting"
        BY <1>0, <3>3 DEF Ask, Rollback, RecordCheckpoint, Start, PollFails, Conflict
      <4> QED
        BY <3>1, <4>1
    <3> QED
      BY <1>3, <3>2, <3>3 DEF Uneventful
  <2> QED
    BY <1>0, <2>1, <2>2, AnchorFrame
<1>4. ASSUME NEW m \in Wire, Post(m) PROVE AnchorFacts'
  <2>1. /\ \A u \in 1..Len(telegram) : telegram'[u] = telegram[u]
        /\ Len(telegram') = Len(telegram) + 1
        /\ UNCHANGED <<evicted, updates, threads, offset, pc, entries, seen, crowded>>
    BY <1>4 DEF Post, ledger, volatile, bounds, AnchorInv, FreshInv, LoopInv, RowInv, TypeInv, TypeOK
  <2> QED
    BY <1>0, <2>1, AnchorFrame
<1>5. CASE Evict \/ UNCHANGED vars
  <2>1. /\ UNCHANGED <<telegram, updates, threads, offset, pc, entries, seen, crowded>>
        /\ evicted \subseteq evicted'
    BY <1>5 DEF Evict, vars, server, ledger, volatile, bounds
  <2> QED
    BY <1>0, <2>1, AnchorFrame
<1> QED
  BY <1>1, <1>2, <1>3, <1>4, <1>5 DEF Next, PollLoop, Uneventful

\* With one loop on the bot, once the group copy of a peer's opening has been
\* moved past, the thread has its reply anchor, for any batch size, any other
\* messages and any crashes: unless the thread has shared a response with
\* itself.  A copy that comes with the opening is dropped before the row it
\* would give its anchor to exists, and a message that comes with the copy is
\* decided from the row without it (admission.ts).
THEOREM AnchorsAreCaptured ==
  ASSUME OneLoop,
         \A start \in Initial : \A t \in Threads : ~Held(start[t]) => start[t] = NoThread
  PROVE  Spec => []AnchorIsCaptured
<1>1. Init => AnchorInv
  <2> SUFFICES ASSUME Init PROVE AnchorInv
    OBVIOUS
  <2>1. EntriesAreUpToDate /\ CrowdIsTold /\ SeenAreOfTheBatch /\ OpeningsInHand
    BY DEF Init, EntriesAreUpToDate, CrowdIsTold, SeenAreOfTheBatch, OpeningsInHand
  <2>2. UnheldAreBlank
    BY DEF Init, UnheldAreBlank
  <2>3. OpeningsBehind
    BY DEF Init, OpeningsBehind
  <2> QED
    BY <2>1, <2>2, <2>3, InitLoopInv DEF AnchorInv, AnchorFacts, FreshInv
<1>2. AnchorInv /\ [Next]_vars => AnchorInv'
  BY StepAnchors
<1>3. AnchorInv => AnchorIsCaptured
  <2> SUFFICES ASSUME AnchorInv, evicted = {}, NEW u \in 1..offset - 1,
                      OpensInGroup(telegram[u]), ~IsCrowded(u),
                      threads[telegram[u].thread].opened_eid = telegram[u].eid
               PROVE  threads[telegram[u].thread].anchor # None
    BY DEF AnchorIsCaptured, OpensInGroup, IsCrowded
  <2>1. u \in 1..Len(telegram) /\ u < offset
    BY DEF AnchorInv, FreshInv, LoopInv, RowInv, TypeInv, TypeOK
  <2> QED
    BY <2>1 DEF AnchorInv, AnchorFacts, OpeningsBehind, IsAnchored
<1> QED
  BY <1>1, <1>2, <1>3, PTL DEF Spec

-----------------------------------------------------------------------------
(* The threads as the stored messages tell them, when no response carries  *)
(* two messages of one thread or two copies of one message.                *)

MessagesAreApart ==
  \A p \in Pollers : \A u, v \in batch[p] :
    telegram[u].thread = telegram[v].thread \/ telegram[u].eid = telegram[v].eid => u = v

LEMMA NobodyIsCrowded ==
  ASSUME TypeInv, crowded = {}, MessagesAreApart', [Next]_vars
  PROVE  crowded' = {}
<1>1. ASSUME NEW p \in Pollers, Receive(p)
      PROVE  crowded' = {}
  <2>1. telegram' = telegram /\ crowded' = crowded \cup Crowding(batch'[p])
    BY <1>1 DEF Receive, server, TypeInv, TypeOK
  <2>2. Crowding(batch'[p]) = {}
    BY <2>1 DEF Crowding, MessagesAreApart
  <2> QED
    BY <2>1, <2>2
<1>2. ASSUME NEW p \in Pollers,
             \/ Ask(p) \/ PollFails(p) \/ Conflict(p) \/ Classify(p) \/ Commit(p)
             \/ Rollback(p) \/ RecordCheckpoint(p) \/ Crash(p) \/ Start(p)
      PROVE  crowded' = crowded
  BY <1>2 DEF Ask, PollFails, Conflict, Classify, Commit, Rollback, RecordCheckpoint, Crash,
     Start, bounds
<1>3. (\E m \in Wire : Post(m)) \/ Evict \/ UNCHANGED vars => crowded' = crowded
  BY DEF Post, Evict, vars, bounds
<1> QED
  BY <1>1, <1>2, <1>3 DEF Next, PollLoop

\* The thread tables with the message of one update applied, if it is stored.
Applied(n, before) ==
  IF ~Stored(n) THEN before
  ELSE [before EXCEPT ![telegram[n].thread] = RowAfter(@, TrustedEnvelope(n))]

\* f is the replay of the stored messages, update by update.
Replays(f, start) ==
  /\ f \in [0..MaxUpdates -> [Threads -> ThreadRow]]
  /\ f[0] = start
  /\ \A n \in UpdateIds : f[n] = Applied(n, f[n - 1])

\* A function that satisfies the recursion is the one the recursion defines.
LEMMA ReplayIs ==
  ASSUME NEW start, NEW f, Replays(f, start)
  PROVE  ReplayOf(start) = f[MaxUpdates]
<1> DEFINE Body(g) == [n \in 0..MaxUpdates |->
              IF n = 0 THEN start
              ELSE IF ~Stored(n) THEN g[n - 1]
              ELSE LET t == telegram[n].thread
                   IN [g[n - 1] EXCEPT ![t] = RowAfter(@, TrustedEnvelope(n))]]
           after == CHOOSE g : g = Body(g)
<1>0. /\ MaxUpdates \in Nat
      /\ \A n \in 0..MaxUpdates : n = 0 \/ (n \in UpdateIds /\ n - 1 \in 0..MaxUpdates)
  BY InboxAssumption DEF UpdateIds
<1>1. f = Body(f)
  <2>1. \A n \in 0..MaxUpdates : f[n] = Body(f)[n]
    BY <1>0 DEF Replays, Applied
  <2> QED
    BY <2>1 DEF Replays
<1>2. after = Body(after)
  <2> HIDE DEF Body
  <2> QED
    BY <1>1
<1>3. ReplayOf(start) = after[MaxUpdates]
  BY DEF ReplayOf
<1>4. PICK g : g = after
  OBVIOUS
<1>5. g = Body(g)
  <2> HIDE DEF Body
  <2> QED
    BY <1>2, <1>4
<1>6. \A n \in 0..MaxUpdates : g[n] = f[n]
  <2> DEFINE S == {n \in 0..MaxUpdates : g[n] # f[n]}
  <2> SUFFICES ASSUME S # {} PROVE FALSE
    OBVIOUS
  <2>1. S \in SUBSET Nat
    OBVIOUS
  <2>2. PICK k \in S : \A l \in S : k <= l
    BY <2>1, FirstOfIsLeast
  <2>3. g[0] = start /\ f[0] = start
    BY <1>0, <1>5 DEF Replays
  <2>4. k \in UpdateIds /\ k # 0 /\ k - 1 \in 0..MaxUpdates
    BY <1>0, <2>3
  <2>5. g[k - 1] = f[k - 1]
    BY <1>0, <2>2, <2>4
  <2>6. g[k] = Body(g)[k] /\ f[k] = Body(f)[k]
    BY <1>1, <1>5
  <2> QED
    BY <2>2, <2>4, <2>5, <2>6
<1> QED
  BY <1>0, <1>3, <1>4, <1>6

\* No transition looks at the anchor, and none but an opening writes it.
LEMMA ContentFollows ==
  ASSUME NEW row \in ThreadRow, NEW next \in ThreadRow, NEW env \in Envelope,
         Content(row) = Content(next)
  PROVE  Content(RowAfter(row, env)) = Content(RowAfter(next, env))
<1>1. /\ row.status = next.status /\ row.opened_type = next.opened_type
      /\ row.opened_eid = next.opened_eid /\ row.from = next.from
      /\ row.to = next.to /\ row.to_user = next.to_user /\ row.acks = next.acks
      /\ row.resolved_by = next.resolved_by /\ row.basis = next.basis
      /\ row.delivered = next.delivered /\ row.awaiting = next.awaiting
      /\ row.history = next.history
  BY DEF Content, ThreadRow
<1>2. ClassifyRejection(env, row) = ClassifyRejection(env, next)
  BY <1>1 DEF ClassifyRejection, IsAddressee, AbandoningOwnThread, ContinuingOwnThread
<1>3. OutcomeOf(row, env) = OutcomeOf(next, env)
  BY <1>1, <1>2 DEF OutcomeOf, Held, Refused
<1>4. AppendHistory(row, env) = AppendHistory(next, env)
  BY <1>1 DEF AppendHistory
<1>5. Content(Acked(row, env)) = Content(Acked(next, env))
  BY <1>1, <1>4 DEF Content, Acked, ThreadRow
<1>6. Content(Replied(row, env)) = Content(Replied(next, env))
  BY <1>1, <1>4 DEF Content, Replied, ThreadRow
<1>7. Content(Resolved(row, env)) = Content(Resolved(next, env))
  BY <1>1, <1>4 DEF Content, Resolved, ThreadRow
<1> QED
  BY <1>3, <1>5, <1>6, <1>7, RowOfOutcome, OutcomeType DEF Outcomes, Transitions

\* The rows are what the replay has by the offset and everywhere after it.
Tells(f) ==
  \A n \in 0..MaxUpdates : offset - 1 <= n =>
    \A t \in Threads : Content(threads[t]) = Content(f[n][t])

LedgerInv ==
  /\ FreshInv /\ crowded = {}
  /\ \E start \in Initial : \E f : Replays(f, start) /\ Tells(f)

\* Nothing is stored and no row changes but in its anchor.
LEMMA ReplayFrame ==
  ASSUME RowInv, NEW start, NEW f, Replays(f, start), Tells(f),
         UNCHANGED <<updates, offset>>,
         \A u \in 1..Len(telegram) : telegram'[u] = telegram[u],
         \A t \in Threads : Content(threads'[t]) = Content(threads[t])
  PROVE  Replays(f, start)' /\ Tells(f)'
<1>1. ASSUME NEW n \in UpdateIds, NEW before
      PROVE  Applied(n, before)' = Applied(n, before)
  <2>1. CASE Stored(n)
    <3>1. n \in 1..Len(telegram)
      BY <2>1 DEF RowInv, OnlyArrivedAreStored
    <3>2. TrustedEnvelope(n)' = TrustedEnvelope(n)
      BY <3>1 DEF TrustedEnvelope, TranslateAddressee, ReverseRoster
    <3>3. telegram'[n] = telegram[n] /\ (Stored(n))' = Stored(n)
      BY <3>1 DEF Stored
    <3> QED
      BY <3>2, <3>3 DEF Applied
  <2>2. CASE ~Stored(n)
    BY <2>2 DEF Applied, Stored
  <2> QED
    BY <2>1, <2>2
<1>2. Replays(f, start)'
  <2>1. \A n \in UpdateIds : f[n] = Applied(n, f[n - 1])'
    BY <1>1 DEF Replays
  <2> QED
    BY <2>1 DEF Replays, UpdateIds
<1>3. Tells(f)'
  BY DEF Tells, Content
<1> QED
  BY <1>2, <1>3

\* A step that stores messages ahead of the inbox, no two of one thread, and
\* applies each to the row the ledger holds.
AppliesInOrder ==
  /\ telegram' = telegram /\ offset' \in Nat /\ offset <= offset'
  /\ \A u \in UpdateIds : offset <= u => ~Stored(u)
  /\ \A u \in UpdateIds : Stored(u) => Stored(u)'
  /\ \A u \in UpdateIds : NewlyStored(u) =>
       /\ offset <= u /\ u < offset'
       /\ TrustedEnvelope(u) \in Envelope /\ telegram[u].thread \in Threads
  /\ \A u, v \in UpdateIds :
       NewlyStored(u) /\ NewlyStored(v) /\ telegram[u].thread = telegram[v].thread => u = v
  /\ \A t \in Threads :
       \/ /\ threads'[t] = threads[t]
          /\ \A u \in UpdateIds : NewlyStored(u) => telegram[u].thread # t
       \/ \E u \in UpdateIds :
            /\ NewlyStored(u) /\ telegram[u].thread = t
            /\ Content(threads'[t]) = Content(RowAfter(threads[t], TrustedEnvelope(u)))

\* The rows such a step leaves are what the longer inbox tells.
LEMMA ReplayGrows ==
  ASSUME RowInv, NEW start, NEW f, Replays(f, start), Tells(f), AppliesInOrder
  PROVE  \E g : Replays(g, start)' /\ Tells(g)'
<1> DEFINE News(t) == {u \in UpdateIds : NewlyStored(u) /\ telegram[u].thread = t}
           New(t) == CHOOSE u \in News(t) : TRUE
           Later(n, t) == News(t) # {} /\ New(t) <= n
<1>0. /\ MaxUpdates \in Nat /\ offset \in Nat /\ offset # 0 /\ telegram' = telegram
      /\ \A n \in UpdateIds : n \in 0..MaxUpdates /\ n - 1 \in 0..MaxUpdates /\ n # 0
      /\ threads \in [Threads -> ThreadRow]
  BY InboxAssumption DEF AppliesInOrder, UpdateIds, RowInv, TypeInv, TypeOK
<1>1. \A u \in UpdateIds : NewlyStored(u) =>
        /\ offset <= u /\ u < offset'
        /\ TrustedEnvelope(u) \in Envelope /\ telegram[u].thread \in Threads
  BY DEF AppliesInOrder
<1>2. \A t : \A u \in News(t) : u = New(t) /\ News(t) # {}
  BY DEF AppliesInOrder
<1>3. ASSUME NEW t, News(t) # {}
      PROVE  /\ New(t) \in UpdateIds /\ New(t) \in Nat
             /\ telegram[New(t)].thread = t
             /\ offset <= New(t) /\ New(t) < offset'
             /\ TrustedEnvelope(New(t)) \in Envelope
  <2>1. New(t) \in News(t)
    BY <1>3
  <2> QED
    BY <1>1, <2>1 DEF UpdateIds
<1>4. \A n \in UpdateIds : offset <= n => ~Stored(n)
  BY DEF AppliesInOrder
<1>5. offset <= offset' /\ offset' \in Nat
  BY DEF AppliesInOrder
<1>6. PICK g : g = [n \in 0..MaxUpdates |-> [t \in Threads |->
                      IF Later(n, t) THEN RowAfter(f[n][t], TrustedEnvelope(New(t)))
                      ELSE f[n][t]]]
  OBVIOUS
<1>7. g \in [0..MaxUpdates -> [Threads -> ThreadRow]]
  <2> SUFFICES ASSUME NEW n \in 0..MaxUpdates, NEW t \in Threads
               PROVE  g[n][t] \in ThreadRow
    BY <1>6
  <2>1. f[n][t] \in ThreadRow
    BY DEF Replays
  <2>2. Later(n, t) => TrustedEnvelope(New(t)) \in Envelope
    BY <1>1
  <2> QED
    BY <1>6, <2>1, <2>2, RowAfterType
<1>8. g[0] = start
  <2>1. \A t : ~Later(0, t)
    BY <1>0, <1>1
  <2>2. f[0] \in [Threads -> ThreadRow] /\ f[0] = start
    BY <1>0 DEF Replays
  <2> QED
    BY <1>0, <1>6, <2>1, <2>2
<1>9. ASSUME NEW n \in UpdateIds
      PROVE  g[n] = Applied(n, g[n - 1])'
  <2>0. /\ f[n] = Applied(n, f[n - 1]) /\ n \in Nat /\ n - 1 \in Nat
        /\ f[n] \in [Threads -> ThreadRow] /\ f[n - 1] \in [Threads -> ThreadRow]
        /\ g[n] \in [Threads -> ThreadRow] /\ g[n - 1] \in [Threads -> ThreadRow]
    BY <1>0, <1>7 DEF Replays, UpdateIds
  <2>1. PICK k : k = g[n - 1]
    OBVIOUS
  <2>2. Applied(n, k)' = IF (Stored(n))' THEN [k EXCEPT ![telegram[n].thread] =
                                               RowAfter(@, TrustedEnvelope(n))]
                         ELSE k
    BY <1>0 DEF Applied, TrustedEnvelope, TranslateAddressee, ReverseRoster
  <2>3. NewlyStored(n) <=> ~Stored(n) /\ (Stored(n))'
    <3> HIDE DEF New, News, Later
    <3> QED
      BY DEF NewlyStored
  <2>4. CASE Stored(n)
    <3>1. n < offset /\ (Stored(n))'
      BY <1>0, <1>4, <2>0, <2>4 DEF AppliesInOrder
    <3>2. ASSUME NEW t PROVE ~Later(n, t) /\ ~Later(n - 1, t)
      <4>1. News(t) # {} => New(t) \in Nat /\ offset <= New(t)
        BY <1>3
      <4> HIDE DEF New, News
      <4> QED
        BY <1>0, <2>0, <3>1, <4>1
    <3>3. g[n] = f[n] /\ g[n - 1] = f[n - 1]
      <4> HIDE DEF New, News, Later
      <4>1. \A t \in Threads : g[n][t] = f[n][t] /\ g[n - 1][t] = f[n - 1][t]
        BY <1>0, <1>6, <3>2
      <4> QED
        BY <2>0, <4>1
    <3>4. Applied(n, k)' = Applied(n, k)
      BY <2>2, <2>4, <3>1 DEF Applied
    <3> QED
      BY <2>0, <2>1, <3>3, <3>4
  <2>5. CASE NewlyStored(n)
    <3> DEFINE t0 == telegram[n].thread
    <3>1. f[n] = f[n - 1]
      BY <2>3, <2>0, <2>5 DEF Applied
    <3>2. n \in News(t0) /\ New(t0) = n /\ t0 \in Threads
      BY <1>1, <1>2, <2>5
    <3>3. \A t \in Threads : t # t0 => (Later(n, t) <=> Later(n - 1, t))
      <4> TAKE t \in Threads
      <4> HAVE t # t0
      <4>1. News(t) # {} => New(t) \in UpdateIds /\ New(t) # n
        OBVIOUS
      <4> QED
        BY <2>0, <4>1 DEF UpdateIds
    <3>4. Later(n, t0) /\ ~Later(n - 1, t0)
      <4>1. News(t0) # {} /\ New(t0) = n
        BY <3>2
      <4> HIDE DEF New, News
      <4> QED
        BY <2>0, <4>1
    <3>5. g[n][t0] = RowAfter(f[n][t0], TrustedEnvelope(n)) /\ g[n - 1][t0] = f[n][t0]
      BY <1>0, <1>6, <3>1, <3>2, <3>4
    <3>6. \A t \in Threads : t # t0 => g[n][t] = g[n - 1][t]
      BY <1>0, <1>6, <3>1, <3>3
    <3>7. g[n] = [g[n - 1] EXCEPT ![t0] = RowAfter(@, TrustedEnvelope(n))]
      <4> QED
        BY <2>0, <3>2, <3>5, <3>6
    <3> QED
      BY <2>3, <2>1, <2>2, <2>5, <3>7
  <2>6. CASE ~Stored(n) /\ ~NewlyStored(n)
    <3>1. f[n] = f[n - 1] /\ ~(Stored(n))'
      BY <2>3, <2>0, <2>6 DEF Applied
    <3>2. \A t \in Threads : Later(n, t) <=> Later(n - 1, t)
      <4> TAKE t \in Threads
      <4>1. News(t) # {} => New(t) \in UpdateIds /\ New(t) # n
        BY <2>6
      <4> QED
        BY <2>0, <4>1 DEF UpdateIds
    <3>3. \A t \in Threads : g[n][t] = g[n - 1][t]
      <4> HIDE DEF New, News, Later
      <4> QED
        BY <1>0, <1>6, <3>1, <3>2
    <3>4. g[n] = g[n - 1]
      BY <2>0, <3>3
    <3> QED
      BY <2>1, <2>2, <3>1, <3>4
  <2> QED
    BY <2>4, <2>5, <2>6
<1>10. ASSUME NEW n \in 0..MaxUpdates, offset' - 1 <= n, NEW t \in Threads
      PROVE  Content(threads'[t]) = Content(g[n][t])
  <2>0. offset - 1 <= n
    <3>1. PICK past : past = offset'
      OBVIOUS
    <3>2. past \in Nat /\ offset <= past
      BY <1>5, <3>1
    <3>3. past - 1 <= n
      BY <1>10, <3>1
    <3>4. n \in Nat /\ offset \in Nat
      BY <1>0
    <3> HIDE DEF New, News, Later
    <3> QED
      BY <3>2, <3>3, <3>4
  <2>1. /\ f[n][t] \in ThreadRow /\ threads[t] \in ThreadRow
        /\ Content(threads[t]) = Content(f[n][t])
    BY <1>0, <2>0 DEF Replays, Tells
  <2>2. CASE News(t) = {}
    <3>1. threads'[t] = threads[t] /\ g[n][t] = f[n][t]
      BY <1>6, <2>2 DEF AppliesInOrder
    <3> QED
      BY <2>1, <3>1
  <2>3. CASE News(t) # {}
    <3>1. Content(threads'[t]) = Content(RowAfter(threads[t], TrustedEnvelope(New(t))))
      <4>1. PICK u \in UpdateIds :
               /\ NewlyStored(u) /\ telegram[u].thread = t
               /\ Content(threads'[t]) = Content(RowAfter(threads[t], TrustedEnvelope(u)))
        BY <2>3 DEF AppliesInOrder
      <4>2. u = New(t)
        BY <1>2, <4>1
      <4> QED
        BY <4>1, <4>2
    <3>2. New(t) <= n /\ TrustedEnvelope(New(t)) \in Envelope
      <4>1. New(t) \in Nat /\ New(t) < offset' /\ TrustedEnvelope(New(t)) \in Envelope
        BY <1>3, <2>3
      <4>2. PICK past : past = offset'
        OBVIOUS
      <4>3. past \in Nat
        BY <1>5, <4>2
      <4>4. past - 1 <= n
        BY <1>10, <4>2
      <4>5. n \in Nat
        BY <1>0
      <4>6. \A k \in Nat : k < past => k <= n
        BY <4>3, <4>4, <4>5
      <4> HIDE DEF New
      <4> QED
        BY <4>1, <4>2, <4>6
    <3>3. g[n][t] = RowAfter(f[n][t], TrustedEnvelope(New(t)))
      BY <1>6, <2>3, <3>2
    <3> HIDE DEF New
    <3> QED
      BY <2>1, <3>1, <3>2, <3>3, ContentFollows
  <2> QED
    BY <2>2, <2>3
<1> HIDE DEF New, News, Later
<1>11. Replays(g, start)'
  <2>1. \A n \in UpdateIds : g[n] = Applied(n, g[n - 1])'
    BY <1>9
  <2> QED
    BY <1>7, <1>8, <2>1 DEF Replays, UpdateIds
<1>12. Tells(g)'
  BY <1>10 DEF Tells, Content
<1> QED
  BY <1>11, <1>12

\* The transaction of the one loop is such a step.
LEMMA CommitKeepsReplay ==
  ASSUME OneLoop, FreshInv, crowded = {}, MessagesAreApart, NEW p \in Pollers, Commit(p),
         NEW start, NEW f, Replays(f, start), Tells(f)
  PROVE  \E g : Replays(g, start)' /\ Tells(g)'
<1>0. /\ telegram' = telegram /\ pc[p] = "admitting" /\ offset \in Nat
      /\ Len(telegram) \in Nat /\ batch[p] \in SUBSET (0..Len(telegram)) /\ batch[p] # {}
  BY DEF Commit, Ready, server, FreshInv, LoopInv, RowInv, TypeInv, TypeOK, BatchesAreLive
<1>1. LastOf(batch[p]) \in batch[p] /\ \A v \in batch[p] : v <= LastOf(batch[p])
  BY <1>0, LastOfIsGreatest
<1>2. /\ offset' \in Nat /\ offset <= offset'
      /\ \A u \in batch[p] : u < offset'
  <2>1. LastOf(batch[p]) \in Nat /\ \A u \in batch[p] : u \in Nat
    BY <1>0, <1>1
  <2> QED
    BY <1>0, <1>1, <2>1 DEF Commit, AdvanceOffset
<1>3. \A u \in UpdateIds : offset <= u => ~Stored(u)
  BY DEF FreshInv, LoopInv, LoopFacts, AheadIsUntouched
<1>4. \A u \in UpdateIds : Stored(u) => Stored(u)'
  BY CommitApplies DEF Stored
<1>5. \A u \in UpdateIds : NewlyStored(u) =>
        /\ u \in batch[p] /\ offset <= u /\ u < offset'
        /\ TrustedEnvelope(u) \in Envelope /\ telegram[u].thread \in Threads
  <2> TAKE u \in UpdateIds
  <2> HAVE NewlyStored(u)
  <2>1. u \in batch[p]
    BY CommitApplies
  <2>2. offset <= u /\ u < offset'
    BY <1>0, <1>2, <2>1 DEF FreshInv, LoopInv, LoopFacts, PollIsCurrent
  <2>3. u \in 1..Len(telegram) /\ TrustedEnvelope(u) \in Envelope
    BY StoredIsFromPeer
  <2>4. telegram[u].thread \in Threads
    BY <2>3, MessageOf DEF FreshInv, LoopInv, RowInv, TypeInv, Message
  <2> QED
    BY <2>1, <2>2, <2>3, <2>4
<1>6. \A u, v \in UpdateIds :
        NewlyStored(u) /\ NewlyStored(v) /\ telegram[u].thread = telegram[v].thread => u = v
  BY <1>5 DEF MessagesAreApart
<1>7. \A t \in Threads :
        \/ /\ threads'[t] = threads[t]
           /\ \A u \in UpdateIds : NewlyStored(u) => telegram[u].thread # t
        \/ \E u \in UpdateIds :
             /\ NewlyStored(u) /\ telegram[u].thread = t
             /\ Content(threads'[t]) = Content(RowAfter(threads[t], TrustedEnvelope(u)))
  BY CommitApplies
<1> QED
  BY <1>0, <1>2, <1>3, <1>4, <1>5, <1>6, <1>7, ReplayGrows
  DEF AppliesInOrder, FreshInv, LoopInv

LEMMA StepKeepsReplay ==
  ASSUME OneLoop, LedgerInv, MessagesAreApart, MessagesAreApart', [Next]_vars
  PROVE  LedgerInv'
<1>1. FreshInv' /\ crowded' = {}
  BY StepFresh, NobodyIsCrowded DEF LedgerInv, FreshInv, LoopInv, RowInv
<1>2. PICK start \in Initial : \E f : Replays(f, start) /\ Tells(f)
  BY DEF LedgerInv
<1>3. PICK f : Replays(f, start) /\ Tells(f)
  BY <1>2
<1> SUFFICES \E g : Replays(g, start)' /\ Tells(g)'
  BY <1>1 DEF LedgerInv
<1>4. ASSUME NEW p \in Pollers, Commit(p)
      PROVE  \E g : Replays(g, start)' /\ Tells(g)'
  BY <1>3, <1>4, CommitKeepsReplay DEF LedgerInv
<1>5. ASSUME UNCHANGED <<updates, offset>>,
             \A u \in 1..Len(telegram) : telegram'[u] = telegram[u],
             \A t \in Threads : Content(threads'[t]) = Content(threads[t])
      PROVE  \E g : Replays(g, start)' /\ Tells(g)'
  BY <1>3, <1>5, ReplayFrame DEF LedgerInv, FreshInv, LoopInv
<1>6. ASSUME NEW p \in Pollers, Classify(p)
      PROVE  \E g : Replays(g, start)' /\ Tells(g)'
  <2> DEFINE m == telegram[FirstOf(Rest(p))]
  <2>1. UNCHANGED <<updates, offset, telegram>>
    BY <1>6 DEF Classify, server
  <2>2. \/ threads' = threads
        \/ threads' = [threads EXCEPT ![m.thread].anchor = FirstOf(Rest(p))]
    BY <1>6 DEF Classify
  <2>3. threads \in [Threads -> ThreadRow]
    BY DEF LedgerInv, FreshInv, LoopInv, RowInv, TypeInv, TypeOK
  <2> HIDE DEF m
  <2>4. \A t \in Threads : Content(threads'[t]) = Content(threads[t])
    BY <2>2, <2>3 DEF Content, ThreadRow
  <2> QED
    BY <1>5, <2>1, <2>4
<1>7. ASSUME NEW p \in Pollers, Uneventful(p)
      PROVE  \E g : Replays(g, start)' /\ Tells(g)'
  <2>1. UNCHANGED <<telegram, updates, threads, offset>>
    BY <1>7 DEF Uneventful, Ask, Receive, Rollback, RecordCheckpoint, Start, PollFails,
       Conflict, Crash, server, ledger
  <2> QED
    BY <1>5, <2>1
<1>8. ASSUME NEW m \in Wire, Post(m)
      PROVE  \E g : Replays(g, start)' /\ Tells(g)'
  <2>1. /\ \A u \in 1..Len(telegram) : telegram'[u] = telegram[u]
        /\ UNCHANGED <<updates, threads, offset>>
    BY <1>8 DEF Post, ledger, LedgerInv, FreshInv, LoopInv, RowInv, TypeInv, TypeOK
  <2> QED
    BY <1>5, <2>1
<1>9. CASE Evict \/ UNCHANGED vars
  <2>1. UNCHANGED <<telegram, updates, threads, offset>>
    BY <1>9 DEF Evict, vars, server, ledger
  <2> QED
    BY <1>5, <2>1
<1> QED
  BY <1>4, <1>6, <1>7, <1>8, <1>9 DEF Next, PollLoop, Uneventful

LEMMA InitReplays == Init => \E start \in Initial : \E f : Replays(f, start) /\ Tells(f)
<1> SUFFICES ASSUME Init PROVE \E start \in Initial : \E f : Replays(f, start) /\ Tells(f)
  OBVIOUS
<1> DEFINE f == [n \in 0..MaxUpdates |-> threads]
<1>1. threads \in Initial /\ threads \in [Threads -> ThreadRow]
  BY InboxAssumption DEF Init
<1>2. \A n \in UpdateIds : ~Stored(n) /\ n \in 0..MaxUpdates /\ n - 1 \in 0..MaxUpdates
  BY InboxAssumption DEF Init, Stored, UpdateIds
<1>3. Replays(f, threads)
  BY <1>1, <1>2, InboxAssumption DEF Replays, Applied
<1>4. Tells(f)
  BY DEF Tells
<1> HIDE DEF f
<1> QED
  BY <1>1, <1>3, <1>4

LEMMA ToldIsReplayed ==
  ASSUME TypeInv, NEW start \in Initial, \E f : Replays(f, start) /\ Tells(f)
  PROVE  \A t \in Threads : Content(threads[t]) = Content(ReplayOf(start)[t])
<1>1. PICK f : Replays(f, start) /\ Tells(f)
  OBVIOUS
<1>2. MaxUpdates \in 0..MaxUpdates /\ offset - 1 <= MaxUpdates
  BY InboxAssumption DEF TypeInv, TypeOK
<1>3. \A t \in Threads : Content(threads[t]) = Content(f[MaxUpdates][t])
  BY <1>1, <1>2 DEF Tells
<1>4. ReplayOf(start) = f[MaxUpdates]
  BY <1>1, ReplayIs
<1> QED
  BY <1>3, <1>4

\* With one loop on the bot, the threads of the ledger are what its stored
\* messages make of the table it started from, each applied once and on top of
\* every message before it, in every behaviour in which no response of
\* getUpdates carries two messages of one thread or two copies of one message:
\* for any batch size, and whatever crashes, fails or is evicted.  A batch that
\* does carry both loses a transition, because admission reads the thread from
\* the ledger and the batch is not in it yet (admission.ts).
THEOREM LedgerTellsItsInbox ==
  ASSUME OneLoop
  PROVE  Spec /\ []MessagesAreApart => []LedgerMatchesItsInbox
<1>1. Init => LedgerInv
  <2> SUFFICES ASSUME Init PROVE LedgerInv
    OBVIOUS
  <2>1. FreshInv
    BY InitLoopInv DEF Init, EntriesAreUpToDate, CrowdIsTold, FreshInv
  <2> QED
    BY <2>1, InitReplays DEF LedgerInv, Init
<1>2. LedgerInv /\ MessagesAreApart /\ MessagesAreApart' /\ [Next]_vars => LedgerInv'
  BY StepKeepsReplay
<1>3. LedgerInv => LedgerMatchesItsInbox
  <2> SUFFICES ASSUME LedgerInv
               PROVE  \E start \in Initial : \A t \in Threads :
                        Content(threads[t]) = Content(ReplayOf(start)[t])
    BY DEF LedgerMatchesItsInbox
  <2>1. PICK start \in Initial : \E f : Replays(f, start) /\ Tells(f)
    BY DEF LedgerInv
  <2>2. TypeInv
    BY DEF LedgerInv, FreshInv, LoopInv, RowInv
  <2> QED
    BY <2>1, <2>2, ToldIsReplayed
<1> QED
  BY <1>1, <1>2, <1>3, PTL DEF Spec

-----------------------------------------------------------------------------
(* Any number of loops on one bot, when no response carries two messages   *)
(* of one thread or two copies of one and Telegram drops nothing.  An      *)
(* entry may then be older than another loop's transaction, but only where *)
(* it does not matter: ahead of the offset nothing of its thread has been  *)
(* stored since it was decided, and behind it the entry is a replay.       *)

\* What admission lets in as far as the ledger can tell: a peer's envelope whose
\* eid is in no row and, when it opens a thread, whose thread is not there.
IsNew(u) ==
  LET m == telegram[u] IN
  /\ FromPeer(m) /\ m.form = "envelope"
  /\ ~IsEidInUpdates(m.eid)
  /\ m.type = "REQUEST" => ~IsThreadHeld(m.thread)

\* An entry is what admission would decide now, its anchor aside.
StillStands(entry) ==
  LET u == entry.update
      row == threads[telegram[u].thread] IN
  /\ entry.kind = "admitted" <=> IsNew(u)
  /\ entry.kind = "admitted" =>
       /\ entry.outcome = OutcomeOf(row, TrustedEnvelope(u))
       /\ Content(entry.row) = Content(RowAfter(row, TrustedEnvelope(u)))

EntriesOf(p) == {entries[p][i] : i \in DOMAIN entries[p]}

EntriesStand ==
  \A p \in Pollers : pc[p] = "admitting" => \A entry \in EntriesOf(p) :
    offset <= entry.update => StillStands(entry)

\* What was decided behind the offset is in the ledger already.
LateIsReplayed ==
  \A p \in Pollers : pc[p] = "admitting" => \A i \in DOMAIN entries[p] :
    entries[p][i].update < offset /\ entries[p][i].kind = "admitted" =>
      Stored(entries[p][i].update)

StoredIsBehind == \A u \in UpdateIds : offset <= u => ~Stored(u)

NothingNewBehind ==
  \A u \in 1..Len(telegram) : u < offset => Stored(u) \/ ~IsNew(u)

\* A history has no message that could still be taken for a new one.
HistoriesAreStored ==
  \A t \in Threads : \A h \in threads[t].history :
    IsEidInUpdates(h.eid) \/ \A m \in Wire : m.eid # h.eid

LoopsAgree ==
  /\ EntriesStand /\ LateIsReplayed /\ StoredIsBehind /\ NothingNewBehind
  /\ HistoriesAreStored

CrowdInv ==
  /\ SafeInv /\ RowInv /\ SeenAreOfTheBatch /\ EntriesAreApart
  /\ evicted = {} => LoopsAgree

LEMMA CrowdTypes ==
  ASSUME CrowdInv
  PROVE  /\ TypeInv /\ TypeOK /\ threads \in [Threads -> ThreadRow]
         /\ Len(telegram) \in Nat /\ offset \in Nat /\ offset # 0
         /\ offset <= Len(telegram) + 1
         /\ UpdateIds \subseteq Nat /\ UpdateIds \subseteq Int
         /\ \A u \in 1..Len(telegram) :
              /\ u \in UpdateIds /\ u \in Nat /\ telegram[u] \in Message
              /\ telegram[u] \in Wire /\ telegram[u].thread \in Threads
              /\ telegram[u].eid \in Eids
         /\ \A p \in Pollers :
              /\ entries[p] \in Seq(Entry) /\ Len(entries[p]) \in Nat
              /\ batch[p] \subseteq 1..Len(telegram)
              /\ \A i \in DOMAIN entries[p] :
                   /\ entries[p][i] \in Entry /\ entries[p][i].update \in batch[p]
                   /\ entries[p][i].update \in 1..Len(telegram)
<1>1. TypeInv /\ TypeOK
  BY DEF CrowdInv, RowInv, TypeInv
<1>2. telegram \in Seq(Wire)
  BY <1>1 DEF TypeOK
<1>3. \A u \in 1..Len(telegram) : /\ u \in UpdateIds /\ telegram[u] \in Message
                                  /\ telegram[u] \in Wire
  BY <1>1, <1>2, MessageOf
<1>4. \A m \in Message : m.thread \in Threads /\ m.eid \in Eids
  BY DEF Message
<1>5. UpdateIds \subseteq Nat /\ UpdateIds \subseteq Int
  BY InboxAssumption DEF UpdateIds
<1>6. \A p \in Pollers :
        /\ entries[p] \in Seq(Entry) /\ batch[p] \subseteq 1..Len(telegram)
        /\ \A i \in DOMAIN entries[p] :
             entries[p][i] \in Entry /\ entries[p][i].update \in batch[p]
  BY <1>1 DEF TypeOK, TypeInv, EntriesAreOfTheBatch
<1>7. /\ threads \in [Threads -> ThreadRow] /\ Len(telegram) \in Nat
      /\ offset \in 1..Len(telegram) + 1
  BY <1>1 DEF TypeOK
<1> QED
  BY <1>1, <1>3, <1>4, <1>5, <1>6, <1>7

\* Nothing a transition looks at is the anchor.
LEMMA OutcomeFollows ==
  ASSUME NEW row \in ThreadRow, NEW next \in ThreadRow, NEW env,
         Content(row) = Content(next)
  PROVE  OutcomeOf(row, env) = OutcomeOf(next, env)
<1>1. /\ row.status = next.status /\ row.opened_type = next.opened_type
      /\ row.from = next.from /\ row.to_user = next.to_user
  BY DEF Content, ThreadRow
<1>2. ClassifyRejection(env, row) = ClassifyRejection(env, next)
  BY <1>1 DEF ClassifyRejection, IsAddressee, AbandoningOwnThread, ContinuingOwnThread
<1> QED
  BY <1>1, <1>2 DEF OutcomeOf, Held, Refused

LEMMA ContentKeeps ==
  ASSUME NEW row \in ThreadRow, NEW next \in ThreadRow, Content(row) = Content(next)
  PROVE  /\ Held(row) <=> Held(next)
         /\ row.history = next.history /\ row.opened_eid = next.opened_eid
         /\ row.status = next.status
  BY DEF Content, ThreadRow, Held

\* An entry stands as long as its thread changes in its anchor alone and its
\* eid is stored by nobody.
LEMMA StandsOn ==
  ASSUME NEW entry, StillStands(entry), NEW u, u = entry.update,
         entry.kind = "admitted" => TrustedEnvelope(u) \in Envelope,
         NEW t, t = telegram[u].thread,
         telegram'[u] = telegram[u],
         threads[t] \in ThreadRow, threads'[t] \in ThreadRow,
         Content(threads'[t]) = Content(threads[t]),
         IsEidInUpdates(telegram[u].eid)' <=> IsEidInUpdates(telegram[u].eid)
  PROVE  StillStands(entry)'
<1>1. TrustedEnvelope(u)' = TrustedEnvelope(u)
  BY DEF TrustedEnvelope, TranslateAddressee, ReverseRoster
<1>2. Held(threads'[t]) <=> Held(threads[t])
  BY ContentKeeps
<1>3. IsNew(u)' <=> IsNew(u)
  BY <1>2 DEF IsNew, IsThreadHeld, FromPeer, OutOfScope, Unreadable, ReverseRoster
<1>4. PICK env : env = TrustedEnvelope(u)
  OBVIOUS
<1>5. entry.kind = "admitted" =>
        /\ OutcomeOf(threads'[t], env) = OutcomeOf(threads[t], env)
        /\ Content(RowAfter(threads'[t], env)) = Content(RowAfter(threads[t], env))
  BY <1>4, OutcomeFollows, ContentFollows
<1>6. /\ entry.kind = "admitted" <=> IsNew(u)
      /\ entry.kind = "admitted" =>
           /\ entry.outcome = OutcomeOf(threads[t], env)
           /\ Content(entry.row) = Content(RowAfter(threads[t], env))
  BY <1>4 DEF StillStands
<1>7. /\ entry.kind = "admitted" <=> IsNew(u)'
      /\ entry.kind = "admitted" =>
           /\ entry.outcome = OutcomeOf(threads'[t], env)
           /\ Content(entry.row) = Content(RowAfter(threads'[t], env))
  BY <1>3, <1>5, <1>6
<1> QED
  BY <1>1, <1>4, <1>7 DEF StillStands, Content, RowAfter

\* What a message does to a row it may be applied to.
LEMMA AppliedMovesOn ==
  ASSUME NEW row \in ThreadRow, NEW env \in Envelope, env.type = "REQUEST" => ~Held(row)
  PROVE  /\ MovesOn(row, RowAfter(row, env))
         /\ Held(row) => Held(RowAfter(row, env))
         /\ \A h \in RowAfter(row, env).history : h \in row.history \/ h.eid = env.eid
<1>1. OutcomeOf(row, env) = "opened" => ~Held(row)
  BY DEF OutcomeOf, Envelope, Types
<1>2. \A h \in AppendHistory(row, env) : h \in row.history \/ h.eid = env.eid
  BY DEF AppendHistory
<1>3. \A next \in {Acked(row, env), Replied(row, env), Resolved(row, env)} :
        /\ next.opened_eid = row.opened_eid /\ next.status \in {row.status, "resolved"}
        /\ next.history = AppendHistory(row, env)
  BY DEF Acked, Replied, Resolved, ThreadRow
<1>4. Opened(env).history = {}
  BY DEF Opened
<1> QED
  BY <1>1, <1>2, <1>3, <1>4, RowOfOutcome, OutcomeType
  DEF Outcomes, Transitions, MovesOn, Held

\* What the transaction of one loop among others makes of the inbox and of
\* the threads.
LEMMA CommitStores ==
  ASSUME CrowdInv, evicted = {}, MessagesAreApart, NEW p \in Pollers, Commit(p)
  PROVE  /\ \A u \in UpdateIds : NewlyStored(u) =>
              /\ u \in batch[p] /\ offset <= u /\ IsNew(u)
         /\ \A u \in UpdateIds : Stored(u) => updates'[u] = updates[u]
         /\ \A u \in batch[p] : offset <= u /\ IsNew(u) => Stored(u)'
         /\ \A t \in Threads :
              \/ /\ threads'[t] = threads[t]
                 /\ \A u \in UpdateIds : NewlyStored(u) => telegram[u].thread # t
              \/ \E u \in UpdateIds :
                   /\ NewlyStored(u) /\ telegram[u].thread = t
                   /\ Content(threads'[t]) = Content(RowAfter(threads[t], TrustedEnvelope(u)))
<1>1. /\ pc[p] = "admitting" /\ Rest(p) = {} /\ updates' = InsertUpdates(p)
      /\ threads' = WriteThreads(p) /\ telegram' = telegram
  BY DEF Commit, Ready, server
<1>2. /\ EntriesStand /\ LateIsReplayed /\ StoredIsBehind
      /\ entries[p] \in Seq(Entry) /\ Len(entries[p]) \in Nat
      /\ offset \in Nat /\ UpdateIds \subseteq Nat /\ threads \in [Threads -> ThreadRow]
  BY CrowdTypes DEF CrowdInv, LoopsAgree
<1>3. \A i \in DOMAIN entries[p] :
        /\ entries[p][i] \in Entry /\ entries[p][i].update \in batch[p]
        /\ entries[p][i].update \in UpdateIds /\ entries[p][i].update \in Nat
        /\ telegram[entries[p][i].update].thread \in Threads
        /\ entries[p][i].update \in 1..Len(telegram)
  BY CrowdTypes
<1>4. Inserted(p) = {i \in DOMAIN entries[p] :
                       entries[p][i].kind = "admitted" /\ offset <= entries[p][i].update}
  <2>1. \A i \in DOMAIN entries[p] : entries[p][i].kind = "admitted" =>
          (Stored(entries[p][i].update) <=> entries[p][i].update < offset)
    BY <1>1, <1>2, <1>3 DEF LateIsReplayed, StoredIsBehind
  <2> QED
    BY <1>2, <1>3, <2>1 DEF Inserted, Written, Replayed
<1>5. \A i \in Inserted(p) :
        /\ StillStands(entries[p][i]) /\ IsNew(entries[p][i].update)
        /\ entries[p][i].outcome \in Outcomes /\ ~Stored(entries[p][i].update)
  <2> TAKE i \in Inserted(p)
  <2>1. StillStands(entries[p][i])
    BY <1>1, <1>2, <1>4 DEF EntriesOf, EntriesStand
  <2>2. IsNew(entries[p][i].update)
    BY <1>4, <2>1 DEF StillStands
  <2>3. entries[p][i].outcome \in Outcomes
    BY <1>3, <1>4 DEF Entry, Admitted, Dropped
  <2> QED
    BY <1>2, <1>3, <1>4, <2>1, <2>2, <2>3 DEF StoredIsBehind
<1>6. ASSUME NEW i \in Inserted(p), NEW u, u = entries[p][i].update
      PROVE  NewlyStored(u)
  <2> DEFINE k == CHOOSE j \in Inserted(p) : entries[p][j].update = u
  <2>1. k \in Inserted(p)
    BY <1>6
  <2>2. u \in UpdateIds /\ updates'[u] = entries[p][k].outcome /\ ~Stored(u)
    BY <1>1, <1>3, <1>4, <1>5, <1>6 DEF InsertUpdates
  <2>3. updates'[u] # "absent"
    BY <1>5, <2>1, <2>2 DEF Outcomes
  <2> QED
    BY <2>2, <2>3 DEF NewlyStored, Stored
<1>7. \A u \in UpdateIds : NewlyStored(u) => \E i \in Inserted(p) : entries[p][i].update = u
  BY <1>1 DEF InsertUpdates, NewlyStored, Stored
<1>8. \A u \in UpdateIds : Stored(u) => updates'[u] = updates[u]
  BY <1>1, <1>5 DEF InsertUpdates
<1>9. ASSUME NEW u \in batch[p], offset <= u, IsNew(u) PROVE Stored(u)'
  <2>1. PICK i \in DOMAIN entries[p] : entries[p][i].update = u
    BY <1>1 DEF Rest
  <2>2. entries[p][i].kind = "admitted"
    BY <1>1, <1>2, <1>9, <2>1 DEF EntriesOf, EntriesStand, StillStands
  <2>3. NewlyStored(u)
    BY <1>4, <1>6, <1>9, <2>1, <2>2
  <2> QED
    BY <2>3 DEF NewlyStored
<1>10. ASSUME NEW t \in Threads
       PROVE  \/ /\ threads'[t] = threads[t]
                 /\ \A u \in UpdateIds : NewlyStored(u) => telegram[u].thread # t
              \/ \E u \in UpdateIds :
                   /\ NewlyStored(u) /\ telegram[u].thread = t
                   /\ Content(threads'[t]) = Content(RowAfter(threads[t], TrustedEnvelope(u)))
  <2>1. ASSUME NEW i \in Inserted(p), telegram[entries[p][i].update].thread = t
        PROVE  LET env == TrustedEnvelope(entries[p][i].update) IN
               /\ Content(entries[p][i].row) = Content(RowAfter(threads[t], env))
               /\ entries[p][i].outcome = OutcomeOf(threads[t], env)
    BY <1>4, <1>5, <2>1 DEF StillStands
  <2>2. CASE Writers(p, t) # {}
    <3> DEFINE i == LastOf(Writers(p, t))
    <3>1. i \in Writers(p, t)
      <4>1. Writers(p, t) \in SUBSET (0..Len(entries[p]))
        BY <1>2 DEF Writers, Inserted, Written
      <4> QED
        BY <1>2, <2>2, <4>1, LastOfIsGreatest
    <3>2. threads'[t] = entries[p][i].row
      BY <1>1, <2>2 DEF WriteThreads
    <3> HIDE DEF i
    <3>3. i \in Inserted(p) /\ telegram[entries[p][i].update].thread = t
      BY <3>1 DEF Writers
    <3>4. Content(threads'[t]) = Content(RowAfter(threads[t], TrustedEnvelope(entries[p][i].update)))
      BY <2>1, <3>2, <3>3
    <3> QED
      BY <1>3, <1>4, <1>6, <3>3, <3>4
  <2>3. CASE Writers(p, t) = {}
    <3>1. threads'[t] = threads[t]
      BY <1>1, <2>3 DEF WriteThreads
    <3>2. ASSUME NEW i \in Inserted(p), telegram[entries[p][i].update].thread = t
          PROVE  RowAfter(threads[t], TrustedEnvelope(entries[p][i].update)) = threads[t]
      <4>1. entries[p][i].outcome \notin Transitions
        BY <2>3, <3>2 DEF Writers
      <4> QED
        BY <2>1, <3>2, <4>1, RowOfOutcome
    <3> QED
      BY <1>3, <1>4, <1>6, <1>7, <3>1, <3>2
  <2> QED
    BY <2>2, <2>3
<1> QED
  BY <1>3, <1>4, <1>5, <1>7, <1>8, <1>9, <1>10

\* The offset moves past the batch and past nothing else.
LEMMA CommitAdvances ==
  ASSUME CrowdInv, evicted = {}, NEW p \in Pollers, Commit(p)
  PROVE  /\ offset' \in Nat /\ offset <= offset'
         /\ \A u \in batch[p] : u < offset'
         /\ \A u \in 1..Len(telegram) : offset <= u /\ u < offset' => u \in batch[p]
<1>1. /\ pc[p] = "admitting" /\ offset' = AdvanceOffset(p)
      /\ Len(telegram) \in Nat /\ offset \in Nat /\ batch[p] \subseteq 1..Len(telegram)
  BY CrowdTypes DEF Commit, Ready
<1>2. batch[p] # {} /\ batch[p] \in SUBSET (0..Len(telegram))
  BY <1>1, CrowdTypes DEF TypeInv, BatchesAreLive
<1>3. /\ LastOf(batch[p]) \in batch[p] /\ \A u \in batch[p] : u <= LastOf(batch[p])
  BY <1>1, <1>2, LastOfIsGreatest
<1>4. \A u \in 1..LastOf(batch[p]) : u \in batch[p] \/ u < offset
  BY <1>1 DEF CrowdInv, SafeInv, NothingSkipped
<1>5. LastOf(batch[p]) \in Nat
  BY <1>1, <1>3
<1>6. offset' = IF LastOf(batch[p]) + 1 > offset THEN LastOf(batch[p]) + 1 ELSE offset
  BY <1>1 DEF AdvanceOffset
<1>7. \A u \in batch[p] : u \in Nat
  BY <1>1
<1> QED
  BY <1>1, <1>3, <1>4, <1>5, <1>6, <1>7

LEMMA NewIsFromPeer ==
  ASSUME CrowdInv, NEW u \in 1..Len(telegram), IsNew(u)
  PROVE  /\ TrustedEnvelope(u) \in Envelope
         /\ telegram[u].thread \in Threads /\ threads[telegram[u].thread] \in ThreadRow
         /\ TrustedEnvelope(u).type = "REQUEST" => ~Held(threads[telegram[u].thread])
         /\ TrustedEnvelope(u).eid = telegram[u].eid
<1>1. telegram[u] \in Message /\ u \in Nat /\ telegram[u].thread \in Threads
      /\ threads \in [Threads -> ThreadRow]
  BY CrowdTypes
<1>2. FromPeer(telegram[u]) /\ (telegram[u].type = "REQUEST" => ~IsThreadHeld(telegram[u].thread))
  BY DEF IsNew
<1>3. TrustedEnvelope(u) \in Envelope
  BY <1>1, <1>2, TrustedEnvelopeType
<1> QED
  BY <1>1, <1>2, <1>3 DEF TrustedEnvelope, IsThreadHeld

\* Whichever loop commits, no thread loses its opening or is reopened, and a
\* history gets what is stored and nothing else.
LEMMA CommitMovesOn ==
  ASSUME CrowdInv, evicted = {}, MessagesAreApart, NEW p \in Pollers, Commit(p),
         NEW t \in Threads
  PROVE  /\ MovesOn(threads[t], threads'[t])
         /\ Held(threads[t]) => Held(threads'[t])
         /\ \A h \in threads'[t].history :
              h \in threads[t].history \/ \E u \in UpdateIds : Stored(u)' /\ telegram[u].eid = h.eid
<1>1. threads[t] \in ThreadRow /\ threads'[t] \in ThreadRow
  <2>1. threads \in [Threads -> ThreadRow] /\ WriteThreads(p) \in [Threads -> ThreadRow]
    BY CrowdTypes, CommitTypes DEF Commit, Ready, TypeInv, BatchesAreLive
  <2> QED
    BY <2>1 DEF Commit
<1>2. CASE threads'[t] = threads[t]
  BY <1>2 DEF MovesOn
<1>3. CASE \E u \in UpdateIds :
             /\ NewlyStored(u) /\ telegram[u].thread = t
             /\ Content(threads'[t]) = Content(RowAfter(threads[t], TrustedEnvelope(u)))
  <2>1. PICK u \in UpdateIds :
               /\ NewlyStored(u) /\ telegram[u].thread = t
               /\ Content(threads'[t]) = Content(RowAfter(threads[t], TrustedEnvelope(u)))
    BY <1>3
  <2>2. PICK env \in Envelope :
               env = TrustedEnvelope(u) /\ env.eid = telegram[u].eid
               /\ (env.type = "REQUEST" => ~Held(threads[t]))
    <3>1. u \in 1..Len(telegram) /\ IsNew(u)
      BY <2>1, CommitStores, CrowdTypes
    <3> QED
      BY <2>1, <3>1, NewIsFromPeer
  <2>3. PICK next \in ThreadRow : next = RowAfter(threads[t], env)
    BY <1>1, RowAfterType
  <2>4. /\ MovesOn(threads[t], next) /\ (Held(threads[t]) => Held(next))
        /\ \A h \in next.history : h \in threads[t].history \/ h.eid = env.eid
    BY <1>1, <2>2, <2>3, AppliedMovesOn
  <2>5. /\ Held(threads'[t]) <=> Held(next)
        /\ threads'[t].history = next.history /\ threads'[t].opened_eid = next.opened_eid
        /\ threads'[t].status = next.status
    BY <1>1, <2>1, <2>2, <2>3, ContentKeeps
  <2>6. Stored(u)'
    BY <2>1 DEF NewlyStored
  <2> QED
    BY <2>2, <2>4, <2>5, <2>6 DEF MovesOn
<1> QED
  BY <1>2, <1>3, CommitStores

\* What was not new before a transaction is not new after it.
LEMMA CommitAgesNews ==
  ASSUME CrowdInv, evicted = {}, MessagesAreApart, NEW p \in Pollers, Commit(p)
  PROVE  /\ \A e : IsEidInUpdates(e) => IsEidInUpdates(e)'
         /\ \A u \in 1..Len(telegram) : IsNew(u)' => IsNew(u)
<1>1. telegram' = telegram
  BY DEF Commit, server
<1>2. \A u \in UpdateIds : Stored(u) => Stored(u)'
  BY CommitStores DEF Stored
<1>3. \A e : IsEidInUpdates(e) => IsEidInUpdates(e)'
  BY <1>1, <1>2 DEF IsEidInUpdates
<1>4. ASSUME NEW u \in 1..Len(telegram), IsNew(u)' PROVE IsNew(u)
  <2>1. PICK t \in Threads : t = telegram[u].thread
    BY CrowdTypes
  <2>2. Held(threads[t]) => Held(threads'[t])
    BY CommitMovesOn
  <2>3. PICK e : e = telegram[u].eid
    OBVIOUS
  <2>4. IsEidInUpdates(e) => IsEidInUpdates(e)'
    BY <1>3
  <2>5. IsEidInUpdates(e)' <=> IsEidInUpdates(telegram[u].eid)'
    BY <1>1, <2>3 DEF IsEidInUpdates, Stored
  <2> QED
    BY <1>1, <1>4, <2>1, <2>2, <2>3, <2>4, <2>5
    DEF IsNew, IsThreadHeld, Held, FromPeer, OutOfScope, Unreadable
<1> QED
  BY <1>3, <1>4

\* A response skips nothing between the offset and what it carries.
LEMMA NothingBetween ==
  ASSUME CrowdInv, evicted = {}, NEW q \in Pollers, pc[q] = "admitting",
         NEW v \in batch[q], NEW u \in 1..Len(telegram), offset <= u, u <= v
  PROVE  u \in batch[q]
<1>1. batch[q] \in SUBSET (0..Len(telegram)) /\ Len(telegram) \in Nat /\ offset \in Nat
  BY CrowdTypes
<1>2. LastOf(batch[q]) \in batch[q] /\ v <= LastOf(batch[q])
  BY <1>1, LastOfIsGreatest
<1>3. u \in 1..LastOf(batch[q]) /\ ~(u < offset)
  BY <1>1, <1>2
<1> QED
  BY <1>3 DEF CrowdInv, SafeInv, NothingSkipped

\* What another loop has decided ahead of the transaction stands: had the
\* batch a message of that thread, the other's response would have it too.
LEMMA CommitLeavesAhead ==
  ASSUME CrowdInv, evicted = {}, MessagesAreApart, NEW p \in Pollers, Commit(p),
         NEW q \in Pollers, pc[q] = "admitting", NEW v \in batch[q], offset' <= v
  PROVE  /\ threads'[telegram[v].thread] = threads[telegram[v].thread]
         /\ IsEidInUpdates(telegram[v].eid)' => IsEidInUpdates(telegram[v].eid)
<1>1. /\ telegram' = telegram /\ batch[q] \subseteq 1..Len(telegram)
      /\ Len(telegram) \in Nat /\ offset \in Nat
      /\ v \in 1..Len(telegram) /\ telegram[v].thread \in Threads
      /\ UpdateIds \subseteq Nat
  BY CrowdTypes DEF Commit, server
<1>2. offset' \in Nat /\ offset <= offset' /\ \A u \in batch[p] : u < offset'
  BY CommitAdvances
<1>3. ASSUME NEW u \in UpdateIds, NewlyStored(u)
      PROVE  /\ telegram[u].thread # telegram[v].thread
             /\ telegram[u].eid # telegram[v].eid
  <2>1. u \in batch[p] /\ offset <= u /\ u < offset'
    BY <1>2, <1>3, CommitStores
  <2>2. u < v /\ u \in Nat /\ v \in Nat /\ u \in 1..Len(telegram)
    <3>1. u \in 1..Len(telegram)
      BY <2>1, CrowdTypes
    <3> QED
      BY <1>1, <1>2, <2>1, <3>1
  <2>3. u \in batch[q]
    BY <2>1, <2>2, NothingBetween
  <2> QED
    BY <2>2, <2>3 DEF MessagesAreApart
<1>4. threads'[telegram[v].thread] = threads[telegram[v].thread]
  BY <1>1, <1>3, CommitStores
<1>5. IsEidInUpdates(telegram[v].eid)' => IsEidInUpdates(telegram[v].eid)
  BY <1>1, <1>3 DEF IsEidInUpdates, NewlyStored
<1> QED
  BY <1>4, <1>5

LEMMA CommitKeepsAgreement ==
  ASSUME CrowdInv, evicted = {}, MessagesAreApart, NEW p \in Pollers, Commit(p)
  PROVE  LoopsAgree'
<1>1. /\ telegram' = telegram /\ entries' = entries /\ pc[p] = "admitting" /\ Rest(p) = {}
      /\ \A q \in Pollers : pc'[q] = "admitting" => pc[q] = "admitting"
  BY CrowdTypes DEF Commit, Ready, server, TypeOK
<1>2. LoopsAgree
  BY DEF CrowdInv
<1>3. /\ offset' \in Nat /\ offset <= offset' /\ offset \in Nat
      /\ \A u \in 1..Len(telegram) : offset <= u /\ u < offset' => u \in batch[p]
      /\ \A u \in batch[p] : u < offset'
  BY CommitAdvances, CrowdTypes
<1>4. \A u \in UpdateIds : Stored(u) => Stored(u)'
  BY CommitStores DEF Stored
<1>5. \A u \in 1..Len(telegram) : offset <= u /\ u < offset' /\ IsNew(u) => Stored(u)'
  BY <1>3, CommitStores
<1>6. \A t \in Threads : threads[t] \in ThreadRow /\ threads'[t] \in ThreadRow
  <2>1. threads \in [Threads -> ThreadRow] /\ WriteThreads(p) \in [Threads -> ThreadRow]
    BY <1>1, CrowdTypes, CommitTypes DEF TypeInv, BatchesAreLive
  <2> QED
    BY <2>1 DEF Commit
<1>7. ASSUME NEW q \in Pollers, pc[q] = "admitting", NEW i \in DOMAIN entries[q],
             NEW entry, entry = entries[q][i], offset' <= entry.update
      PROVE  StillStands(entry)'
  <2>1. PICK u \in 1..Len(telegram) : /\ u = entry.update /\ u \in batch[q]
                                      /\ telegram[u].thread \in Threads /\ u \in Nat
    BY <1>7, CrowdTypes
  <2>2. StillStands(entry)
    BY <1>2, <1>3, <1>7, <2>1 DEF LoopsAgree, EntriesOf, EntriesStand
  <2>3. PICK t \in Threads : t = telegram[u].thread
    BY <2>1
  <2>4. threads'[t] = threads[t] /\ (IsEidInUpdates(telegram[u].eid)' => IsEidInUpdates(telegram[u].eid))
    BY <1>7, <2>1, <2>3, CommitLeavesAhead
  <2>5. IsEidInUpdates(telegram[u].eid) => IsEidInUpdates(telegram[u].eid)'
    BY <1>1, <1>4 DEF IsEidInUpdates
  <2>6. entry.kind = "admitted" => TrustedEnvelope(u) \in Envelope
    BY <2>1, <2>2, NewIsFromPeer DEF StillStands
  <2>7. Content(threads'[t]) = Content(threads[t])
    BY <2>4 DEF Content
  <2> QED
    BY <1>1, <1>6, <2>1, <2>2, <2>3, <2>4, <2>5, <2>6, <2>7, StandsOn
<1>8. EntriesStand'
  <2> SUFFICES ASSUME NEW q \in Pollers, pc'[q] = "admitting", NEW entry \in EntriesOf(q)',
                      offset' <= entry.update
               PROVE  StillStands(entry)'
    BY DEF EntriesStand
  <2> QED
    BY <1>1, <1>7 DEF EntriesOf
<1>9. LateIsReplayed'
  <2> SUFFICES ASSUME NEW q \in Pollers, pc[q] = "admitting", NEW i \in DOMAIN entries[q],
                      NEW u, u = entries[q][i].update, u < offset',
                      entries[q][i].kind = "admitted"
               PROVE  Stored(u)'
    BY <1>1 DEF LateIsReplayed, Stored
  <2>1. u \in 1..Len(telegram) /\ u \in UpdateIds /\ u \in Nat
    BY CrowdTypes
  <2>2. CASE u < offset
    BY <1>2, <1>4, <2>1, <2>2 DEF LoopsAgree, LateIsReplayed
  <2>3. CASE offset <= u
    <3>1. IsNew(u)
      BY <1>2, <2>3 DEF LoopsAgree, EntriesOf, EntriesStand, StillStands
    <3> QED
      BY <1>5, <2>1, <2>3, <3>1
  <2> QED
    BY <1>3, <2>1, <2>2, <2>3
<1>10. StoredIsBehind'
  <2> SUFFICES ASSUME NEW u \in UpdateIds, offset' <= u PROVE ~Stored(u)'
    BY DEF StoredIsBehind, Stored, UpdateIds
  <2>1. u \in Nat /\ ~Stored(u)
    BY <1>2, <1>3, CrowdTypes DEF LoopsAgree, StoredIsBehind
  <2>2. ~NewlyStored(u)
    BY <1>3, <2>1, CommitStores
  <2> QED
    BY <2>1, <2>2 DEF NewlyStored
<1>11. NothingNewBehind'
  <2> SUFFICES ASSUME NEW u \in 1..Len(telegram), u < offset', IsNew(u)' PROVE Stored(u)'
    BY <1>1 DEF NothingNewBehind
  <2>1. u \in Nat /\ u \in UpdateIds /\ IsNew(u)
    BY CrowdTypes, CommitAgesNews
  <2>2. CASE u < offset
    BY <1>2, <1>4, <2>1, <2>2 DEF LoopsAgree, NothingNewBehind
  <2>3. CASE offset <= u
    BY <1>5, <2>1, <2>3
  <2> QED
    BY <1>3, <2>1, <2>2, <2>3
<1>12. HistoriesAreStored'
  <2> SUFFICES ASSUME NEW t \in Threads, NEW h \in threads'[t].history,
                      NEW m \in Wire, m.eid = h.eid
               PROVE  IsEidInUpdates(h.eid)'
    BY DEF HistoriesAreStored
  <2>1. CASE h \in threads[t].history
    <3>1. IsEidInUpdates(h.eid)
      BY <1>2, <2>1 DEF LoopsAgree, HistoriesAreStored
    <3>2. PICK e : e = h.eid
      OBVIOUS
    <3>3. IsEidInUpdates(e)'
      BY <3>1, <3>2, CommitAgesNews
    <3> QED
      BY <3>2, <3>3 DEF IsEidInUpdates
  <2>2. CASE \E u \in UpdateIds : Stored(u)' /\ telegram[u].eid = h.eid
    BY <1>1, <2>2 DEF IsEidInUpdates
  <2> QED
    BY <2>1, <2>2, CommitMovesOn
<1> QED
  BY <1>8, <1>9, <1>10, <1>11, <1>12 DEF LoopsAgree

\* batchSeenEids has nothing to say of a message that is alone in its
\* response, and a history nothing that the inbox does not.
LEMMA JudgedAnew ==
  ASSUME CrowdInv, evicted = {}, MessagesAreApart, NEW p \in Pollers, pc[p] = "admitting",
         NEW u \in 1..Len(telegram), u \in Rest(p), ~Stored(u)
  PROVE  /\ Judge(p, u).kind = "admitted" <=> IsNew(u)
         /\ IsNew(u) => Judge(p, u) = Admit(u)
<1> DEFINE m == telegram[u]
<1>1. /\ TypeOK /\ m \in Message /\ m \in Wire /\ u \in UpdateIds
      /\ m.thread \in Threads /\ threads \in [Threads -> ThreadRow]
  BY CrowdTypes
<1>2. ASSUME Judge(p, u).kind = "admitted" PROVE IsNew(u)
  <2>1. /\ DropReason(p, u) = None /\ ~IsEidInUpdates(m.eid)
        /\ m.type = "REQUEST" => ~IsThreadHeld(m.thread)
    BY <1>1, <1>2, AdmittedIsNew
  <2>2. FromPeer(m)
    BY <1>1, <2>1, DropReasonType, ReasonsAssumption
  <2>3. m.form = "envelope"
    <3>1. m.form # "undated"
      <4> SUFFICES ASSUME m.form = "undated" PROVE FALSE
        OBVIOUS
      <4>1. DropReason(p, u) \in {"duplicate", "malformed"}
        BY <2>2 DEF DropReason, FromPeer, OutOfScope, FromStranger, SelfEcho, Unreadable
      <4> QED
        BY <2>1, <4>1, ReasonsAssumption DEF DropReasons
    <3> QED
      BY <1>1, <2>2, <3>1 DEF FromPeer, Unreadable, Message, Forms
  <2> QED
    BY <2>1, <2>2, <2>3 DEF IsNew
<1>3. ASSUME IsNew(u) PROVE Judge(p, u) = Admit(u)
  <2>1. m.eid \notin seen[p]
    <3> SUFFICES ASSUME m.eid \in seen[p] PROVE FALSE
      OBVIOUS
    <3>1. PICK i \in DOMAIN entries[p] : telegram[entries[p][i].update].eid = m.eid
      BY DEF CrowdInv, SeenAreOfTheBatch
    <3>2. entries[p][i].update \in batch[p] /\ u \in batch[p] /\ entries[p][i].update # u
      BY CrowdTypes DEF Rest
    <3> QED
      BY <3>1, <3>2 DEF MessagesAreApart
  <2>2. ~IsEidInThreadHistory(m.thread, m.eid)
    BY <1>1, <1>3 DEF IsEidInThreadHistory, CrowdInv, LoopsAgree, HistoriesAreStored, IsNew
  <2>3. ~IsDuplicate(p, u)
    BY <1>3, <2>1, <2>2 DEF IsDuplicate, IsNew
  <2>4. FromPeer(m) /\ m.form = "envelope"
    BY <1>3 DEF IsNew
  <2>5. DropReason(p, u) = None
    BY <2>3, <2>4 DEF DropReason, FromPeer, OutOfScope, FromStranger, SelfEcho, Unreadable
  <2> QED
    BY <2>5 DEF Judge
<1>4. Admit(u).kind = "admitted"
  BY DEF Admit
<1> QED
  BY <1>2, <1>3, <1>4

LEMMA ClassifyKeepsSeen ==
  ASSUME CrowdInv, NEW p \in Pollers, Classify(p)
  PROVE  SeenAreOfTheBatch' /\ EntriesAreApart'
<1>1. PICK u \in 1..Len(telegram) : u = FirstOf(Rest(p)) /\ u \in Rest(p)
  BY CrowdTypes, NextOfBatch DEF Classify
<1> DEFINE m == telegram[u]
           new == Judge(p, u)
<1>2. new \in Entry /\ new.update = u
  BY CrowdTypes, JudgeType
<1>3. /\ pc[p] = "admitting"
      /\ entries' = [entries EXCEPT ![p] = Append(@, new)]
      /\ seen' = IF Remembers(m, new) THEN [seen EXCEPT ![p] = @ \cup {m.eid}] ELSE seen
      /\ UNCHANGED <<telegram, pc>>
  BY <1>1 DEF Classify, server
<1> HIDE DEF new
<1>4. /\ entries[p] \in Seq(Entry) /\ Len(entries[p]) \in Nat
      /\ DOMAIN entries'[p] = DOMAIN entries[p] \cup {Len(entries[p]) + 1}
      /\ \A i \in DOMAIN entries[p] : entries'[p][i] = entries[p][i]
      /\ entries'[p][Len(entries[p]) + 1] = new
  BY <1>2, <1>3, CrowdTypes DEF TypeOK
<1>5. \A e \in seen'[p] : \E i \in DOMAIN entries'[p] :
        telegram[entries'[p][i].update].eid = e
  <2> TAKE e \in seen'[p]
  <2>1. e \in seen[p] \/ e = m.eid
    BY <1>3, CrowdTypes DEF TypeOK
  <2>2. CASE e \in seen[p]
    <3>1. PICK i \in DOMAIN entries[p] : telegram[entries[p][i].update].eid = e
      BY <1>3, <2>2 DEF CrowdInv, SeenAreOfTheBatch
    <3> QED
      BY <1>4, <3>1
  <2>3. CASE e = m.eid
    BY <1>2, <1>4, <2>3
  <2> QED
    BY <2>1, <2>2, <2>3
<1>6. \A q \in Pollers : q # p => entries'[q] = entries[q] /\ seen'[q] = seen[q]
  BY <1>3, CrowdTypes DEF TypeOK
<1>7. SeenAreOfTheBatch'
  <2> SUFFICES ASSUME NEW q \in Pollers, pc'[q] = "admitting", NEW e \in seen'[q]
               PROVE  \E i \in DOMAIN entries'[q] : telegram'[entries'[q][i].update].eid = e
    BY DEF SeenAreOfTheBatch
  <2>1. telegram' = telegram /\ pc[q] = "admitting"
    BY <1>3
  <2>2. CASE q = p
    BY <1>5, <2>1, <2>2
  <2>3. CASE q # p
    BY <1>6, <2>1, <2>3 DEF CrowdInv, SeenAreOfTheBatch
  <2> QED
    BY <2>2, <2>3
<1>8. EntriesAreApart'
  <2> SUFFICES ASSUME NEW q \in Pollers, pc[q] = "admitting",
                      NEW i \in DOMAIN entries'[q], NEW j \in DOMAIN entries'[q],
                      entries'[q][i].update = entries'[q][j].update
               PROVE  i = j
    BY <1>3 DEF EntriesAreApart
  <2>1. \A k \in DOMAIN entries[p] : entries[p][k].update # u
    BY <1>1 DEF Rest
  <2>2. CASE q = p
    <3>1. i \in DOMAIN entries[p] /\ j \in DOMAIN entries[p] => i = j
      BY <1>3, <1>4, <2>2 DEF CrowdInv, EntriesAreApart
    <3> QED
      BY <1>2, <1>4, <2>1, <2>2, <3>1
  <2>3. CASE q # p
    BY <1>6, <2>3 DEF CrowdInv, EntriesAreApart
  <2> QED
    BY <2>2, <2>3
<1> QED
  BY <1>7, <1>8

LEMMA ClassifyKeepsAgreement ==
  ASSUME CrowdInv, evicted = {}, MessagesAreApart, NEW p \in Pollers, Classify(p)
  PROVE  LoopsAgree'
<1>1. PICK u \in 1..Len(telegram) : u = FirstOf(Rest(p)) /\ u \in Rest(p)
  BY CrowdTypes, NextOfBatch DEF Classify
<1> DEFINE m == telegram[u]
           new == Judge(p, u)
<1>2. /\ new \in Entry /\ new.update = u /\ u \in UpdateIds /\ u \in Nat /\ offset \in Nat
      /\ m.thread \in Threads
  BY CrowdTypes, JudgeType
<1>3. /\ pc[p] = "admitting"
      /\ entries' = [entries EXCEPT ![p] = Append(@, new)]
      /\ threads' = IF CapturesAnchor(m, new)
                    THEN [threads EXCEPT ![m.thread].anchor = u] ELSE threads
      /\ UNCHANGED <<telegram, updates, offset, pc>>
  BY <1>1 DEF Classify, server
<1>4. LoopsAgree
  BY DEF CrowdInv
<1>5. offset <= u => StillStands(new)
  <2> SUFFICES ASSUME offset <= u PROVE StillStands(new)
    OBVIOUS
  <2>1. ~Stored(u)
    BY <1>2, <1>4 DEF LoopsAgree, StoredIsBehind
  <2>2. /\ new.kind = "admitted" <=> IsNew(u)
        /\ IsNew(u) => new = Admit(u)
    BY <1>1, <1>3, <2>1, JudgedAnew
  <2>3. /\ Admit(u).outcome = OutcomeOf(threads[m.thread], TrustedEnvelope(u))
        /\ Admit(u).row = RowAfter(threads[m.thread], TrustedEnvelope(u))
    BY DEF Admit, TrustedEnvelope
  <2> HIDE DEF new
  <2> QED
    BY <1>2, <2>2, <2>3 DEF StillStands, Content
<1>6. u < offset /\ new.kind = "admitted" => Stored(u)
  <2> SUFFICES ASSUME u < offset, new.kind = "admitted", ~Stored(u) PROVE FALSE
    OBVIOUS
  <2>1. IsNew(u)
    BY <1>1, <1>3, JudgedAnew
  <2> QED
    BY <1>4, <2>1 DEF LoopsAgree, NothingNewBehind
<1> HIDE DEF new
<1>7. /\ entries[p] \in Seq(Entry) /\ Len(entries[p]) \in Nat
      /\ DOMAIN entries'[p] = DOMAIN entries[p] \cup {Len(entries[p]) + 1}
      /\ \A i \in DOMAIN entries[p] : entries'[p][i] = entries[p][i]
      /\ entries'[p][Len(entries[p]) + 1] = new
      /\ \A q \in Pollers : q # p => entries'[q] = entries[q]
  BY <1>2, <1>3, CrowdTypes DEF TypeOK
<1>8. \A t \in Threads : /\ threads[t] \in ThreadRow /\ threads'[t] \in ThreadRow
                         /\ Content(threads'[t]) = Content(threads[t])
                         /\ threads'[t].history = threads[t].history
                         /\ Held(threads'[t]) <=> Held(threads[t])
  <2> SUFFICES ASSUME NEW t \in Threads
               PROVE  /\ threads[t] \in ThreadRow /\ threads'[t] \in ThreadRow
                      /\ Content(threads'[t]) = Content(threads[t])
    BY ContentKeeps
  <2>1. threads \in [Threads -> ThreadRow]
    BY CrowdTypes
  <2>2. threads'[t] \in {threads[t], [threads[t] EXCEPT !.anchor = u]}
    BY <1>3, <2>1
  <2> QED
    BY <1>2, <2>1, <2>2 DEF Content, ThreadRow
<1>9. ASSUME NEW entry, NEW v \in 1..Len(telegram), v = entry.update, StillStands(entry)
      PROVE  StillStands(entry)'
  <2>1. PICK t \in Threads : t = telegram[v].thread
    BY CrowdTypes
  <2>2. entry.kind = "admitted" => TrustedEnvelope(v) \in Envelope
    BY <1>9, NewIsFromPeer DEF StillStands
  <2>3. IsEidInUpdates(telegram[v].eid)' <=> IsEidInUpdates(telegram[v].eid)
    BY <1>3 DEF IsEidInUpdates, Stored
  <2> QED
    BY <1>3, <1>8, <1>9, <2>1, <2>2, <2>3, StandsOn
<1>10. ASSUME NEW q \in Pollers, pc[q] = "admitting", NEW i \in DOMAIN entries'[q],
              NEW entry, entry = entries'[q][i]
       PROVE  /\ offset <= entry.update => StillStands(entry)'
              /\ entry.update < offset /\ entry.kind = "admitted" => Stored(entry.update)
  <2>1. CASE q = p /\ i = Len(entries[p]) + 1
    BY <1>2, <1>5, <1>6, <1>7, <1>9, <1>10, <2>1
  <2>2. CASE ~(q = p /\ i = Len(entries[p]) + 1)
    <3>1. i \in DOMAIN entries[q] /\ entry = entries[q][i] /\ entry.update \in 1..Len(telegram)
      BY <1>7, <1>10, <2>2, CrowdTypes
    <3>2. offset <= entry.update => StillStands(entry)
      BY <1>4, <1>10, <3>1 DEF LoopsAgree, EntriesOf, EntriesStand
    <3>3. entry.update < offset /\ entry.kind = "admitted" => Stored(entry.update)
      BY <1>4, <1>10, <3>1 DEF LoopsAgree, LateIsReplayed
    <3> QED
      BY <1>9, <3>1, <3>2, <3>3
  <2> QED
    BY <2>1, <2>2
<1>11. EntriesStand'
  <2> SUFFICES ASSUME NEW q \in Pollers, pc'[q] = "admitting", NEW entry \in EntriesOf(q)',
                      offset' <= entry.update
               PROVE  StillStands(entry)'
    BY DEF EntriesStand
  <2> QED
    BY <1>3, <1>10 DEF EntriesOf
<1>12. LateIsReplayed'
  BY <1>3, <1>10 DEF LateIsReplayed, Stored
<1>13. StoredIsBehind'
  BY <1>3, <1>4 DEF LoopsAgree, StoredIsBehind, Stored
<1>14. NothingNewBehind'
  <2> SUFFICES ASSUME NEW v \in 1..Len(telegram), v < offset, IsNew(v)' PROVE Stored(v)
    BY <1>3 DEF NothingNewBehind, Stored
  <2>1. telegram[v].thread \in Threads
    BY CrowdTypes
  <2>2. IsNew(v)
    BY <1>3, <1>8, <2>1 DEF IsNew, IsThreadHeld, IsEidInUpdates, Stored, FromPeer, OutOfScope,
                            Unreadable, ReverseRoster
  <2> QED
    BY <1>4, <2>2 DEF LoopsAgree, NothingNewBehind
<1>15. HistoriesAreStored'
  BY <1>3, <1>4, <1>8 DEF LoopsAgree, HistoriesAreStored, IsEidInUpdates, Stored
<1> QED
  BY <1>11, <1>12, <1>13, <1>14, <1>15 DEF LoopsAgree

\* The rest of what can happen writes nothing, and leaves a loop what it has
\* decided, or nothing.
LEMMA CrowdFrame ==
  ASSUME CrowdInv, UNCHANGED <<updates, threads, offset>>,
         \A u \in 1..Len(telegram) : telegram'[u] = telegram[u],
         \A u \in 1..Len(telegram') : u \in 1..Len(telegram) \/ ~(u < offset),
         \A p \in Pollers : pc'[p] = "admitting" =>
           \/ entries'[p] = <<>> /\ seen'[p] = {}
           \/ pc[p] = "admitting" /\ entries'[p] = entries[p] /\ seen'[p] = seen[p]
  PROVE  SeenAreOfTheBatch' /\ EntriesAreApart' /\ (LoopsAgree => LoopsAgree')
<1>1. \A p \in Pollers : \A i \in DOMAIN entries[p] : entries[p][i].update \in 1..Len(telegram)
  BY CrowdTypes
<1>2. SeenAreOfTheBatch' /\ EntriesAreApart'
  BY <1>1 DEF CrowdInv, SeenAreOfTheBatch, EntriesAreApart
<1>3. \A u \in UpdateIds : Stored(u) => u \in 1..Len(telegram)
  BY DEF CrowdInv, RowInv, OnlyArrivedAreStored
<1>4. \A e : IsEidInUpdates(e)' <=> IsEidInUpdates(e)
  BY <1>3 DEF IsEidInUpdates, Stored
<1>5. ASSUME NEW u \in 1..Len(telegram) PROVE IsNew(u)' <=> IsNew(u)
  <2>1. PICK e : e = telegram[u].eid /\ e = telegram'[u].eid
    OBVIOUS
  <2>2. IsEidInUpdates(e)' <=> IsEidInUpdates(telegram[u].eid)'
    BY <2>1 DEF IsEidInUpdates, Stored
  <2> QED
    BY <1>4, <2>1, <2>2 DEF IsNew, IsThreadHeld, FromPeer, OutOfScope, Unreadable, ReverseRoster
<1>6. ASSUME NEW entry, entry.update \in 1..Len(telegram), StillStands(entry)
      PROVE  StillStands(entry)'
  <2>1. PICK v \in 1..Len(telegram) : v = entry.update
    BY <1>6
  <2>2. PICK t \in Threads : t = telegram[v].thread /\ threads[t] \in ThreadRow
    BY CrowdTypes
  <2>3. entry.kind = "admitted" => TrustedEnvelope(v) \in Envelope
    BY <1>6, <2>1, NewIsFromPeer DEF StillStands
  <2>4. IsEidInUpdates(telegram[v].eid)' <=> IsEidInUpdates(telegram[v].eid)
    <3>1. PICK e : e = telegram[v].eid /\ e = telegram'[v].eid
      OBVIOUS
    <3>2. IsEidInUpdates(e)' <=> IsEidInUpdates(telegram[v].eid)'
      BY <3>1 DEF IsEidInUpdates, Stored
    <3> QED
      BY <1>4, <3>1, <3>2
  <2> QED
    BY <1>6, <2>1, <2>2, <2>3, <2>4, StandsOn DEF Content
<1> SUFFICES ASSUME LoopsAgree PROVE LoopsAgree'
  BY <1>2
<1>7. EntriesStand'
  <2> SUFFICES ASSUME NEW p \in Pollers, pc'[p] = "admitting", NEW entry \in EntriesOf(p)',
                      offset' <= entry.update
               PROVE  StillStands(entry)'
    BY DEF EntriesStand
  <2>1. PICK i \in DOMAIN entries'[p] : entry = entries'[p][i]
    BY DEF EntriesOf
  <2>2. pc[p] = "admitting" /\ entries'[p] = entries[p] /\ i \in DOMAIN entries[p]
    OBVIOUS
  <2> QED
    BY <1>1, <1>6, <2>1, <2>2 DEF LoopsAgree, EntriesOf, EntriesStand
<1>8. LateIsReplayed' /\ StoredIsBehind'
  BY DEF LoopsAgree, LateIsReplayed, StoredIsBehind, Stored
<1>9. NothingNewBehind'
  BY <1>5 DEF LoopsAgree, NothingNewBehind, Stored
<1>10. HistoriesAreStored'
  <2> SUFFICES ASSUME NEW t \in Threads, NEW h \in threads[t].history,
                      NEW m \in Wire, m.eid = h.eid
               PROVE  IsEidInUpdates(h.eid)'
    BY DEF HistoriesAreStored, IsEidInUpdates
  <2>1. IsEidInUpdates(h.eid)
    BY DEF LoopsAgree, HistoriesAreStored
  <2> QED
    BY <1>4, <2>1 DEF IsEidInUpdates
<1> QED
  BY <1>7, <1>8, <1>9, <1>10 DEF LoopsAgree

\* However many loops there are, they agree on what is ahead.
LEMMA StepCrowd ==
  ASSUME CrowdInv, MessagesAreApart, [Next]_vars
  PROVE  CrowdInv'
<1> SUFFICES /\ SeenAreOfTheBatch' /\ EntriesAreApart'
             /\ evicted' = {} => evicted = {} /\ (LoopsAgree => LoopsAgree')
  BY StepSafeInv, StepRowInv DEF CrowdInv
<1>0. /\ pc \in [Pollers -> Places] /\ entries \in [Pollers -> Seq(Entry)]
      /\ seen \in [Pollers -> SUBSET Eids]
      /\ Len(telegram) \in Nat /\ offset \in Nat /\ offset <= Len(telegram) + 1
  BY CrowdTypes DEF TypeOK
<1>1. ASSUME NEW p \in Pollers, Classify(p)
      PROVE  /\ SeenAreOfTheBatch' /\ EntriesAreApart'
             /\ evicted' = {} => evicted = {} /\ (LoopsAgree => LoopsAgree')
  <2>1. evicted' = evicted
    BY <1>1 DEF Classify, server
  <2> QED
    BY <1>1, <2>1, ClassifyKeepsSeen, ClassifyKeepsAgreement
<1>2. ASSUME NEW p \in Pollers, Commit(p)
      PROVE  /\ SeenAreOfTheBatch' /\ EntriesAreApart'
             /\ evicted' = {} => evicted = {} /\ (LoopsAgree => LoopsAgree')
  <2>1. /\ UNCHANGED <<telegram, evicted, entries, seen>>
        /\ \A q \in Pollers : pc'[q] = "admitting" => pc[q] = "admitting"
    BY <1>0, <1>2 DEF Commit, server
  <2>2. SeenAreOfTheBatch' /\ EntriesAreApart'
    BY <2>1 DEF CrowdInv, SeenAreOfTheBatch, EntriesAreApart
  <2> QED
    BY <1>2, <2>1, <2>2, CommitKeepsAgreement
<1>3. ASSUME NEW p \in Pollers, Uneventful(p)
      PROVE  /\ SeenAreOfTheBatch' /\ EntriesAreApart'
             /\ evicted' = {} => evicted = {} /\ (LoopsAgree => LoopsAgree')
  <2>1. UNCHANGED <<telegram, evicted, updates, threads, offset>>
    BY <1>3 DEF Uneventful, Ask, Receive, Rollback, RecordCheckpoint, Start, PollFails,
       Conflict, Crash, server, ledger
  <2>2. \A q \in Pollers : pc'[q] = "admitting" =>
           \/ entries'[q] = <<>> /\ seen'[q] = {}
           \/ pc[q] = "admitting" /\ entries'[q] = entries[q] /\ seen'[q] = seen[q]
    <3>1. CASE Receive(p) \/ Crash(p)
      BY <1>0, <3>1 DEF Receive, Crash
    <3>2. CASE \/ Ask(p) \/ Rollback(p) \/ RecordCheckpoint(p) \/ Start(p)
               \/ PollFails(p) \/ Conflict(p)
      BY <1>0, <3>2 DEF Ask, Rollback, RecordCheckpoint, Start, PollFails, Conflict
    <3> QED
      BY <1>3, <3>1, <3>2 DEF Uneventful
  <2> QED
    BY <2>1, <2>2, CrowdFrame
<1>4. ASSUME NEW m \in Wire, Post(m)
      PROVE  /\ SeenAreOfTheBatch' /\ EntriesAreApart'
             /\ evicted' = {} => evicted = {} /\ (LoopsAgree => LoopsAgree')
  <2>1. /\ \A u \in 1..Len(telegram) : telegram'[u] = telegram[u]
        /\ Len(telegram') = Len(telegram) + 1
        /\ UNCHANGED <<evicted, updates, threads, offset, pc, entries, seen>>
    BY <1>4, CrowdTypes DEF Post, ledger, volatile, TypeOK
  <2>2. \A u \in 1..Len(telegram') : u \in 1..Len(telegram) \/ ~(u < offset)
    BY <1>0, <2>1
  <2> QED
    BY <2>1, <2>2, CrowdFrame
<1>5. CASE Evict \/ UNCHANGED vars
  <2>1. UNCHANGED <<telegram, updates, threads, offset, pc, entries, seen>>
        /\ evicted \subseteq evicted'
    BY <1>5 DEF Evict, vars, server, ledger, volatile
  <2> QED
    BY <2>1, CrowdFrame
<1> QED
  BY <1>1, <1>2, <1>3, <1>4, <1>5 DEF Next, PollLoop, Uneventful

CrowdLedgerInv ==
  /\ CrowdInv
  /\ evicted = {} => \E start \in Initial : \E f : Replays(f, start) /\ Tells(f)

LEMMA CrowdAppliesInOrder ==
  ASSUME CrowdInv, evicted = {}, MessagesAreApart, NEW p \in Pollers, Commit(p)
  PROVE  AppliesInOrder
<1>1. telegram' = telegram /\ UpdateIds \subseteq Nat
  BY CrowdTypes DEF Commit, server
<1>2. offset' \in Nat /\ offset <= offset' /\ \A u \in batch[p] : u < offset'
  BY CommitAdvances
<1>3. \A u \in UpdateIds : offset <= u => ~Stored(u)
  BY DEF CrowdInv, LoopsAgree, StoredIsBehind
<1>4. \A u \in UpdateIds : Stored(u) => Stored(u)'
  BY CommitStores DEF Stored
<1>5. \A u \in UpdateIds : NewlyStored(u) =>
        /\ u \in batch[p] /\ offset <= u /\ u < offset'
        /\ TrustedEnvelope(u) \in Envelope /\ telegram[u].thread \in Threads
  <2> TAKE u \in UpdateIds
  <2> HAVE NewlyStored(u)
  <2>1. u \in batch[p] /\ offset <= u /\ IsNew(u)
    BY CommitStores
  <2>2. u \in 1..Len(telegram)
    BY <2>1, CrowdTypes
  <2> QED
    BY <1>2, <2>1, <2>2, NewIsFromPeer
<1>6. \A u, v \in UpdateIds :
        NewlyStored(u) /\ NewlyStored(v) /\ telegram[u].thread = telegram[v].thread => u = v
  BY <1>5 DEF MessagesAreApart
<1>7. \A t \in Threads :
        \/ /\ threads'[t] = threads[t]
           /\ \A u \in UpdateIds : NewlyStored(u) => telegram[u].thread # t
        \/ \E u \in UpdateIds :
             /\ NewlyStored(u) /\ telegram[u].thread = t
             /\ Content(threads'[t]) = Content(RowAfter(threads[t], TrustedEnvelope(u)))
  BY CommitStores
<1> QED
  BY <1>1, <1>2, <1>3, <1>4, <1>5, <1>6, <1>7 DEF AppliesInOrder

\* A capture changes an anchor, and nothing but a transaction changes more.
LEMMA OthersKeepRows ==
  ASSUME TypeInv, [Next]_vars
  PROVE  \/ \E p \in Pollers : Commit(p)
         \/ /\ UNCHANGED <<updates, offset>>
            /\ \A u \in 1..Len(telegram) : telegram'[u] = telegram[u]
            /\ \A t \in Threads : /\ Content(threads'[t]) = Content(threads[t])
                                  /\ MovesOn(threads[t], threads'[t])
<1>1. threads \in [Threads -> ThreadRow] /\ telegram \in Seq(Wire)
  BY DEF TypeInv, TypeOK
<1>2. ASSUME NEW p \in Pollers, Classify(p)
      PROVE  /\ UNCHANGED <<updates, offset, telegram>>
             /\ \A t \in Threads : /\ Content(threads'[t]) = Content(threads[t])
                                   /\ MovesOn(threads[t], threads'[t])
  <2>1. UNCHANGED <<updates, offset, telegram>>
    BY <1>2 DEF Classify, server
  <2>2. \/ threads' = threads
        \/ \E t, u : threads' = [threads EXCEPT ![t].anchor = u]
    BY <1>2 DEF Classify
  <2>3. \A t \in Threads : \/ threads'[t] = threads[t]
                           \/ \E u : threads'[t] = [threads[t] EXCEPT !.anchor = u]
    BY <1>1, <2>2
  <2>4. \A t \in Threads : /\ Content(threads'[t]) = Content(threads[t])
                           /\ MovesOn(threads[t], threads'[t])
    BY <1>1, <2>3 DEF Content, MovesOn, ThreadRow
  <2> QED
    BY <2>1, <2>4
<1>3. ASSUME UNCHANGED <<updates, offset, threads>>,
             \A u \in 1..Len(telegram) : telegram'[u] = telegram[u]
      PROVE  /\ UNCHANGED <<updates, offset>>
             /\ \A u \in 1..Len(telegram) : telegram'[u] = telegram[u]
             /\ \A t \in Threads : /\ Content(threads'[t]) = Content(threads[t])
                                   /\ MovesOn(threads[t], threads'[t])
  BY <1>3 DEF MovesOn
<1>4. ASSUME NEW m \in Wire, Post(m)
      PROVE  /\ UNCHANGED <<updates, offset, threads>>
             /\ \A u \in 1..Len(telegram) : telegram'[u] = telegram[u]
  BY <1>1, <1>4 DEF Post, ledger
<1>5. ASSUME NEW p \in Pollers, Uneventful(p)
      PROVE  UNCHANGED <<telegram, updates, offset, threads>>
  BY <1>5 DEF Uneventful, Ask, Receive, Rollback, RecordCheckpoint, Start, PollFails,
     Conflict, Crash, server, ledger
<1>6. Evict \/ UNCHANGED vars => UNCHANGED <<telegram, updates, offset, threads>>
  BY DEF Evict, vars, server, ledger
<1> QED
  BY <1>2, <1>3, <1>4, <1>5, <1>6 DEF Next, PollLoop, Uneventful

LEMMA InitCrowdInv ==
  ASSUME \A start \in Initial : \A t \in Threads : \A h \in start[t].history :
           \A m \in Wire : m.eid # h.eid,
         Init
  PROVE  CrowdInv
<1>1. SafeInv /\ RowInv
  BY InitSafeInv, InitTypeInv
  DEF Init, RowInv, OnlyArrivedAreStored, OneRowPerMessage, Stored
<1>2. SeenAreOfTheBatch /\ EntriesAreApart /\ EntriesStand /\ LateIsReplayed
  BY DEF Init, SeenAreOfTheBatch, EntriesAreApart, EntriesStand, LateIsReplayed
<1>3. StoredIsBehind /\ HistoriesAreStored
  BY DEF Init, StoredIsBehind, HistoriesAreStored, Stored
<1>4. NothingNewBehind
  BY DEF Init, NothingNewBehind
<1> QED
  BY <1>1, <1>2, <1>3, <1>4 DEF CrowdInv, LoopsAgree

\* What Telegram has dropped stays dropped.
LEMMA EvictedStays == [Next]_vars => evicted \subseteq evicted'
<1>1. Evict => evicted \subseteq evicted'
  BY DEF Evict
<1>2. UNCHANGED vars \/ (\E m \in Wire : Post(m)) => evicted' = evicted
  BY DEF vars, server, Post
<1>3. ASSUME NEW p \in Pollers, Uneventful(p) \/ Classify(p) \/ Commit(p)
      PROVE  evicted' = evicted
  BY <1>3 DEF Uneventful, Ask, Receive, Rollback, RecordCheckpoint, Start, PollFails,
     Conflict, Crash, Classify, Commit, server
<1> QED
  BY <1>1, <1>2, <1>3 DEF Next, PollLoop, Uneventful

LEMMA StepCrowdLedger ==
  ASSUME CrowdLedgerInv, MessagesAreApart, [Next]_vars
  PROVE  CrowdLedgerInv'
<1>1. CrowdInv'
  BY StepCrowd DEF CrowdLedgerInv
<1> SUFFICES ASSUME evicted' = {}
             PROVE  \E start \in Initial : \E g : Replays(g, start)' /\ Tells(g)'
  BY <1>1 DEF CrowdLedgerInv
<1>2. evicted = {}
  BY EvictedStays
<1>3. PICK start \in Initial : \E f : Replays(f, start) /\ Tells(f)
  BY <1>2 DEF CrowdLedgerInv
<1>4. PICK f : Replays(f, start) /\ Tells(f)
  BY <1>3
<1>5. ASSUME NEW p \in Pollers, Commit(p)
      PROVE  \E g : Replays(g, start)' /\ Tells(g)'
  <2>1. AppliesInOrder /\ RowInv
    BY <1>2, <1>5, CrowdAppliesInOrder DEF CrowdLedgerInv, CrowdInv
  <2> QED
    BY <1>4, <2>1, ReplayGrows
<1>6. ASSUME UNCHANGED <<updates, offset>>,
             \A u \in 1..Len(telegram) : telegram'[u] = telegram[u],
             \A t \in Threads : Content(threads'[t]) = Content(threads[t])
      PROVE  \E g : Replays(g, start)' /\ Tells(g)'
  <2>1. RowInv
    BY DEF CrowdLedgerInv, CrowdInv
  <2> QED
    BY <1>4, <1>6, <2>1, ReplayFrame
<1>7. TypeInv
  BY DEF CrowdLedgerInv, CrowdInv, RowInv
<1> QED
  BY <1>5, <1>6, <1>7, OthersKeepRows

\* However many loops poll one bot, the threads of the ledger are what its
\* stored messages make of the table it started from, each applied once and on
\* top of every message before it, as long as no response of getUpdates carries
\* two messages of one thread or two copies of one message, and no history the
\* ledger starts with has a message that can still arrive.  Whatever a loop
\* decided from rows that another loop has changed since is a replay by the
\* time it commits.
THEOREM ManyLoopsTellOneInbox ==
  ASSUME \A start \in Initial : \A t \in Threads : \A h \in start[t].history :
           \A m \in Wire : m.eid # h.eid
  PROVE  Spec /\ []MessagesAreApart => []LedgerMatchesItsInbox
<1>1. Init => CrowdLedgerInv
  <2> SUFFICES ASSUME Init PROVE CrowdLedgerInv
    OBVIOUS
  <2>1. CrowdInv
    BY InitCrowdInv
  <2>2. \E start \in Initial : \E f : Replays(f, start) /\ Tells(f)
    BY InitReplays
  <2> QED
    BY <2>1, <2>2 DEF CrowdLedgerInv
<1>2. CrowdLedgerInv /\ MessagesAreApart /\ [Next]_vars => CrowdLedgerInv'
  BY StepCrowdLedger
<1>3. CrowdLedgerInv => LedgerMatchesItsInbox
  <2> SUFFICES ASSUME CrowdLedgerInv, evicted = {}
               PROVE  \E start \in Initial : \A t \in Threads :
                        Content(threads[t]) = Content(ReplayOf(start)[t])
    BY DEF LedgerMatchesItsInbox
  <2>1. PICK start \in Initial : \E f : Replays(f, start) /\ Tells(f)
    BY DEF CrowdLedgerInv
  <2>2. TypeInv
    BY DEF CrowdLedgerInv, CrowdInv, RowInv
  <2> QED
    BY <2>1, <2>2, ToldIsReplayed
<1> QED
  BY <1>1, <1>2, <1>3, PTL DEF Spec

\* Neither poisons the other's batches: what a loop still has to insert when it
\* commits is in no row, and once there.
THEOREM ManyLoopsPoisonNothing ==
  ASSUME \A start \in Initial : \A t \in Threads : \A h \in start[t].history :
           \A m \in Wire : m.eid # h.eid
  PROVE  Spec /\ []MessagesAreApart /\ [](evicted = {}) => []NoPoisonBatch
<1>1. Init => CrowdInv
  BY InitCrowdInv
<1>2. CrowdInv /\ MessagesAreApart /\ [Next]_vars => CrowdInv'
  BY StepCrowd
<1>3. CrowdInv /\ MessagesAreApart /\ evicted = {} => NoPoisonBatch
  <2> SUFFICES ASSUME CrowdInv, MessagesAreApart, evicted = {},
                      NEW p \in Pollers, pc[p] = "admitting"
               PROVE  EidsAreFresh(p)
    BY DEF NoPoisonBatch, Ready
  <2>1. /\ EntriesStand /\ LateIsReplayed /\ offset \in Nat
        /\ \A i \in DOMAIN entries[p] :
             entries[p][i].update \in batch[p] /\ entries[p][i].update \in 1..Len(telegram)
    BY CrowdTypes DEF CrowdInv, LoopsAgree
  <2>2. ASSUME NEW i \in Inserted(p)
        PROVE  /\ i \in DOMAIN entries[p]
               /\ ~IsEidInUpdates(telegram[entries[p][i].update].eid)
    <3>1. /\ i \in DOMAIN entries[p] /\ entries[p][i].kind = "admitted"
          /\ ~Stored(entries[p][i].update)
      BY DEF Inserted, Written, Replayed
    <3>2. ~(entries[p][i].update < offset)
      BY <2>1, <3>1 DEF LateIsReplayed
    <3>3. offset <= entries[p][i].update
      BY <2>1, <3>1, <3>2
    <3>4. IsNew(entries[p][i].update)
      BY <2>1, <3>1, <3>3 DEF EntriesStand, EntriesOf, StillStands
    <3> QED
      BY <3>1, <3>4 DEF IsNew
  <2>3. ASSUME NEW i \in Inserted(p), NEW j \in Inserted(p), i # j
        PROVE  telegram[entries[p][j].update].eid # telegram[entries[p][i].update].eid
    BY <2>1, <2>2, <2>3 DEF MessagesAreApart, CrowdInv, EntriesAreApart
  <2> QED
    BY <2>2, <2>3 DEF EidsAreFresh
<1> QED
  BY <1>1, <1>2, <1>3, PTL DEF Spec

\* Nor does one loop, however far behind, reopen a thread the other closed or
\* replace the message that opened one.
THEOREM ManyLoopsReopenNothing ==
  ASSUME \A start \in Initial : \A t \in Threads : \A h \in start[t].history :
           \A m \in Wire : m.eid # h.eid
  PROVE  Spec /\ []MessagesAreApart /\ [](evicted = {}) => ThreadsOnlyMoveForward
<1>1. Init => CrowdInv
  BY InitCrowdInv
<1>2. CrowdInv /\ MessagesAreApart /\ [Next]_vars => CrowdInv'
  BY StepCrowd
<1>3. CrowdInv /\ MessagesAreApart /\ evicted = {} /\ [Next]_vars
        => [\A t \in Threads : MovesForward(t)]_vars
  <2> SUFFICES ASSUME CrowdInv, MessagesAreApart, evicted = {}, [Next]_vars
               PROVE  \A t \in Threads : MovesForward(t)
    OBVIOUS
  <2>1. \A t \in Threads : MovesOn(threads[t], threads'[t])
    <3>1. TypeInv
      BY DEF CrowdInv, RowInv
    <3> QED
      BY <3>1, OthersKeepRows, CommitMovesOn
  <2> QED
    BY <2>1 DEF MovesOn, MovesForward
<1> QED
  BY <1>1, <1>2, <1>3, PTL DEF Spec, ThreadsOnlyMoveForward

=============================================================================
