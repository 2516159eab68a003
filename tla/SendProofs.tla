----------------------------- MODULE SendProofs -----------------------------
(***************************************************************************)
(* Theorems about SendPath, for every number of calls and every input.     *)
(***************************************************************************)
EXTENDS SendPath, FiniteSetTheorems, TLAPS

-----------------------------------------------------------------------------
(* What the transition function keeps true of a row, whichever row and     *)
(* envelope it is given.                                                   *)

\* A row whose turn and whose close are in order.
Sound(row) == TurnIsConsistent(row) /\ ClosureIsAuthorized(row)

\* readThreadRecord's "no such thread" is a row like any other to the types.
LEMMA NoThreadType == NoThread \in ThreadRow
  BY DEF NoThread, ThreadRow, Bases

\* The branches of applyEnvelope cover every envelope.
LEMMA OutcomeType ==
  ASSUME NEW row, NEW env \in Envelope
  PROVE  OutcomeOf(row, env) \in Outcomes
  BY DEF OutcomeOf, Outcomes, Envelope, Types

\* The row each outcome leaves.
LEMMA RowOfOutcome ==
  ASSUME NEW row, NEW env
  PROVE  /\ OutcomeOf(row, env) = "opened" => RowAfter(row, env) = Opened(env)
         /\ OutcomeOf(row, env) = "acked" => RowAfter(row, env) = Acked(row, env)
         /\ OutcomeOf(row, env) = "replied" => RowAfter(row, env) = Replied(row, env)
         /\ OutcomeOf(row, env) = "resolved" => RowAfter(row, env) = Resolved(row, env)
         /\ OutcomeOf(row, env) \notin Transitions => RowAfter(row, env) = row
  BY DEF RowAfter, Transitions

\* A transition leaves a well-formed row, and any other outcome the row it
\* was given.
LEMMA RowAfterType ==
  ASSUME NEW row \in ThreadRow, NEW env \in Envelope
  PROVE  RowAfter(row, env) \in ThreadRow
<1> DEFINE entry == [eid |-> env.eid, type |-> env.type,
                     from |-> env.from, at |-> env.at]
<1>1. AppendHistory(row, env) \in SUBSET HistoryEntry
  <2>1. entry \in HistoryEntry
    BY DEF Envelope, HistoryEntry
  <2>2. row.history \in SUBSET HistoryEntry
    BY DEF ThreadRow
  <2> QED
    BY <2>1, <2>2 DEF AppendHistory
<1>2. UserOf(env.to) \in Users \cup {None}
  BY RosterAssumption DEF UserOf
<1>3. Opened(env) \in ThreadRow
  BY <1>2 DEF Opened, Envelope, ThreadRow, Bases
<1>4. Acked(row, env) \in ThreadRow
  <2>1. row.acks + 1 \in Nat
    BY DEF ThreadRow
  <2> QED
    BY <1>1, <2>1 DEF Acked, ThreadRow
<1>5. Replied(row, env) \in ThreadRow
  BY <1>1 DEF Replied, ThreadRow
<1>6. Resolved(row, env) \in ThreadRow
  BY <1>1 DEF Resolved, Envelope, ThreadRow
<1> QED
  BY <1>3, <1>4, <1>5, <1>6, RowOfOutcome, OutcomeType DEF Outcomes, Transitions

\* What the receive-side rules have established once they refuse nothing.
LEMMA NotRefused ==
  ASSUME NEW row, NEW env, ClassifyRejection(env, row) = None
  PROVE  /\ row.opened_type = "REQUEST"
         /\ \/ IsAddressee(env, row)
            \/ AbandoningOwnThread(env, row)
            \/ ContinuingOwnThread(env, row)
         /\ row.status = "resolved" => env.type \notin {"RESOLVED", "REPLY"}
<1>1. ClassifyRejection(env, row) \notin
        {"not_requestable", "unanchored", "unauthorized", "stale"}
  BY NoneAssumption
<1> QED
  BY <1>1 DEF ClassifyRejection

\* Whatever a verified peer sends, in whatever order, the row that results is
\* closed only by somebody with the right to close it, and an open row waits
\* for one of its two ends.
LEMMA PeerKeepsRowSound ==
  ASSUME NEW row \in ThreadRow, Sound(row),
         NEW env \in Envelope, env.from # Me
  PROVE  Sound(RowAfter(row, env))
<1>1. CASE OutcomeOf(row, env) = "opened"
  BY <1>1, RowOfOutcome DEF Opened, Sound, TurnIsConsistent, ClosureIsAuthorized
<1>2. CASE OutcomeOf(row, env) = "acked"
  <2>1. RowAfter(row, env) = Acked(row, env)
    BY <1>2, RowOfOutcome
  <2>2. \A f \in {"status", "resolved_by", "awaiting", "from", "to", "to_user", "basis"} :
          Acked(row, env)[f] = row[f]
    BY DEF Acked, ThreadRow
  <2> QED
    BY <2>1, <2>2 DEF Sound, TurnIsConsistent, ClosureIsAuthorized
<1>3. CASE OutcomeOf(row, env) = "replied"
  <2>1. env.type = "REPLY" /\ Held(row) /\ ClassifyRejection(env, row) = None
    BY <1>3 DEF OutcomeOf, Refused, Envelope, Types
  <2>2. row.status = "open"
    BY <2>1, NotRefused DEF Held, ThreadRow
  <2>3. RowAfter(row, env) = Replied(row, env)
    BY <1>3, RowOfOutcome
  <2>4. /\ Replied(row, env).status = "open"
        /\ Replied(row, env).resolved_by = None
        /\ Replied(row, env).awaiting \in {row.from, row.to}
        /\ Replied(row, env).from = row.from
        /\ Replied(row, env).to = row.to
    BY <2>2 DEF Replied, ThreadRow, Sound, TurnIsConsistent
  <2> QED
    BY <2>3, <2>4 DEF Sound, TurnIsConsistent, ClosureIsAuthorized
<1>4. CASE OutcomeOf(row, env) = "resolved"
  <2>1. env.type = "RESOLVED" /\ Held(row) /\ ClassifyRejection(env, row) = None
    BY <1>4 DEF OutcomeOf, Refused, Envelope, Types
  <2>2. IsAddressee(env, row) \/ AbandoningOwnThread(env, row)
    BY <2>1, NotRefused DEF ContinuingOwnThread
  <2>3. env.from # None
    BY NoneAssumption DEF Envelope
  <2>4. RowAfter(row, env) = Resolved(row, env)
    BY <1>4, RowOfOutcome
  <2>5. TurnIsConsistent(Resolved(row, env))
    BY <2>3 DEF Resolved, ThreadRow, TurnIsConsistent
  <2>6. ClosureIsAuthorized(Resolved(row, env))
    BY <2>2 DEF Resolved, ThreadRow, ClosureIsAuthorized, IsAddressee, AbandoningOwnThread
  <2> QED
    BY <2>4, <2>5, <2>6 DEF Sound
<1> QED
  BY <1>1, <1>2, <1>3, <1>4, RowOfOutcome, OutcomeType DEF Outcomes, Transitions

-----------------------------------------------------------------------------
(* The calls that are under way.                                          *)

Active(c) == calls[c].pc \in {"queued", "posting", "sent"}

\* A call that is not over knows what it was asked, and one that runs has
\* read a row of the threads table.
CallsAreReady ==
  \A c \in Calls :
    /\ Active(c) => calls[c].input \in Inputs
    /\ Running(c) => calls[c].existing \in ThreadRow

TypeInv == TypeOK /\ CallsAreReady

-----------------------------------------------------------------------------
(* Types.                                                                  *)

\* An input that is not refused names recipients of the roster alone.
LEMMA NotRefusedIsKnown ==
  ASSUME NEW in, NEW row, Refusal(in, row) = None
  PROVE  Recipients(in) \subseteq DOMAIN Roster
  BY ResultsAssumption
  DEF Refusal, Results, Refusals, Malformed, RecipientsKnown, TooLongEncoded, LeavesTheRoom, CarriesSecret

\* What validateSend reads is a row, of the table or of no thread.
LEMMA ExistingType ==
  ASSUME TypeInv, NEW c \in Calls, calls[c].pc = "queued"
  PROVE  (IF calls[c].input.thread = None THEN NoThread
          ELSE threads[calls[c].input.thread]) \in ThreadRow
<1>1. calls[c].input \in Inputs
  BY DEF TypeInv, CallsAreReady, Active
<1>2. calls[c].input.thread \in Threads \cup {None}
  BY <1>1, InputsAssumption
<1> QED
  BY <1>2, NoThreadType DEF TypeInv, TypeOK

\* The thread and the envelope of a call.
LEMMA ThreadForType ==
  ASSUME TypeInv, NEW c \in Calls, Active(c)
  PROVE  ThreadFor(c) \in Threads
<1>1. calls[c].input \in Inputs
  BY DEF TypeInv, CallsAreReady
<1>2. CASE calls[c].input.type \in InThreadTypes
  BY <1>1, <1>2, InputsAssumption DEF ThreadFor, InThreadTypes
<1>3. CASE calls[c].input.type \notin InThreadTypes
  BY <1>3, CallsAssumption DEF ThreadFor
<1> QED
  BY <1>2, <1>3

LEMMA EnvelopeOfType ==
  ASSUME TypeInv, NEW c \in Calls, Running(c), NEW via \in {"group", "private"}
  PROVE  EnvelopeOf(c, via) \in Envelope
<1>1. calls[c].input \in Inputs
  BY DEF TypeInv, CallsAreReady, Running, Active
<1>2. /\ calls[c].input.type \in Types
      /\ calls[c].input.to \in Names \cup {None}
      /\ calls[c].input.basis \in Bases
  BY <1>1, InputsAssumption
<1>3. ThreadFor(c) \in Threads
  BY ThreadForType DEF Running, Active
<1>4. UserOf(calls[c].input.to) \in Users \cup {None}
  BY RosterAssumption DEF UserOf
<1>5. c \in Eids /\ c \in Nat /\ Me \in Names /\ calls[c].at \in Nat
  BY CallsAssumption, EidsAssumption, RosterAssumption DEF TypeInv, TypeOK, CallRecord
<1> QED
  BY <1>2, <1>3, <1>4, <1>5 DEF EnvelopeOf, Envelope

LEMMA RowWrittenType ==
  ASSUME TypeInv, NEW c \in Calls, Running(c)
  PROVE  RowWritten(c) \in ThreadRow
<1>1. calls[c].existing \in ThreadRow
  BY DEF TypeInv, CallsAreReady
<1>2. EnvelopeOf(c, Via(c)) \in Envelope
  BY EnvelopeOfType DEF Via
<1> QED
  BY <1>1, <1>2, RowAfterType DEF RowWritten

\* A call that is settled has a well-formed record and forgets what it read.
LEMMA SettleType ==
  ASSUME TypeInv, NEW c \in Calls, NEW result \in Results, Settle(c, result)
  PROVE  /\ calls' \in [Calls -> CallRecord]
         /\ tail' \in Calls \cup {None}
         /\ \A d \in Calls : calls'[d].pc = "posting" <=> calls'[d].left # {}
         /\ CallsAreReady'
<1>1. calls' = [calls EXCEPT ![c] = [Over(calls[c]) EXCEPT !.pc = "settled",
                                                          !.result = result]]
  BY DEF Settle
<1>2. calls \in [Calls -> CallRecord]
  BY DEF TypeInv, TypeOK
<1>3. [Over(calls[c]) EXCEPT !.pc = "settled", !.result = result] \in CallRecord
  BY <1>2 DEF Over, CallRecord
<1>4. /\ calls'[c].pc = "settled" /\ calls'[c].left = {}
      /\ \A d \in Calls : d # c => calls'[d] = calls[d]
  BY <1>1, <1>2, <1>3 DEF Over, CallRecord
<1>5. calls' \in [Calls -> CallRecord]
  BY <1>1, <1>2, <1>3
<1>6. tail' \in Calls \cup {None}
  BY DEF Settle, Release, TypeInv, TypeOK
<1>7. \A d \in Calls : calls'[d].pc = "posting" <=> calls'[d].left # {}
  BY <1>4 DEF TypeInv, TypeOK
<1>8. CallsAreReady'
  BY <1>4 DEF TypeInv, CallsAreReady, Active, Running
<1> QED
  BY <1>5, <1>6, <1>7, <1>8

LEMMA InitTypeInv == Init => TypeInv
<1> SUFFICES ASSUME Init PROVE TypeInv
  OBVIOUS
<1>1. Idle \in CallRecord
  BY DEF Idle, CallRecord
<1>2. TypeOK
  <2>1. \A c \in Calls : calls[c] = Idle
    BY DEF Init
  <2>2. calls \in [Calls -> CallRecord]
    BY <1>1 DEF Init
  <2>3. \A c \in Calls : calls[c].pc = "posting" <=> calls[c].left # {}
    BY <2>1 DEF Idle
  <2>4. threads \in [Threads -> ThreadRow] /\ heard \subseteq PeerSays
    BY InitialAssumption DEF Init
  <2>5. /\ groupWindow \subseteq Calls \X Nat
        /\ chatWindows \in [Chats -> SUBSET (Calls \X Nat)]
        /\ audit \subseteq (Calls \cup {None}) \X Results
    BY DEF Init
  <2>6. clock \in 0..MaxClock /\ crashes \in 0..MaxCrashes /\ limited \in 0..MaxLimited
    BY BoundsAssumption DEF Init
  <2> QED
    BY <2>2, <2>3, <2>4, <2>5, <2>6 DEF Init, TypeOK
<1>3. CallsAreReady
  BY DEF Init, CallsAreReady, Active, Running, Idle
<1> QED
  BY <1>2, <1>3 DEF TypeInv

LEMMA SubmitTypeInv ==
  ASSUME TypeInv, NEW c \in Calls, NEW in \in Inputs, Submit(c, in)
  PROVE  TypeInv'
<1> DEFINE new == [Idle EXCEPT !.pc = "queued", !.input = in, !.after = tail,
                               !.life = crashes]
<1>1. calls' = [calls EXCEPT ![c] = new] /\ calls \in [Calls -> CallRecord]
  BY DEF Submit, TypeInv, TypeOK
<1>2. new \in CallRecord /\ new.pc = "queued" /\ new.left = {} /\ new.input = in
  <2>1. tail \in Calls \cup {None} /\ crashes \in Nat
    BY DEF TypeInv, TypeOK
  <2>2. Idle \in CallRecord /\ Idle.left = {}
    BY DEF Idle, CallRecord
  <2> QED
    BY <2>1, <2>2 DEF CallRecord
<1>3. calls'[c] = new /\ \A d \in Calls : d # c => calls'[d] = calls[d]
  BY <1>1
<1>4. TypeOK'
  BY <1>1, <1>2, <1>3 DEF Submit, TypeInv, TypeOK, ledger
<1>5. CallsAreReady'
  BY <1>2, <1>3 DEF TypeInv, CallsAreReady, Active, Running
<1> QED
  BY <1>4, <1>5 DEF TypeInv

\* Why an input is refused, if it is.
LEMMA RefusalType ==
  ASSUME NEW in \in Inputs, NEW row
  PROVE  Refusal(in, row) \in Refusals \cup {None}
<1>1. LoopPrevention(in, row) \in Refusals \cup {None}
  BY InputsAssumption
  DEF LoopPrevention, RefusedClose, RefusedReply, Refusals, InThreadTypes, Types
<1>2. in.flaw \in Flaws \cup {None}
  BY InputsAssumption
<1>3. /\ Malformed(in) \/ CarriesSecret(in) \/ LeavesTheRoom(in) => in.flaw \in Refusals
      /\ {"UNKNOWN_RECIPIENT", "BODY_TOO_LONG"} \subseteq Refusals
  BY DEF Malformed, CarriesSecret, LeavesTheRoom, Refusals
<1> QED
  BY <1>1, <1>3 DEF Refusal

LEMMA RefuseTypeInv ==
  ASSUME TypeInv, NEW c \in Calls, Refuse(c)
  PROVE  TypeInv'
<1> DEFINE in == calls[c].input
           row == IF in.thread = None THEN NoThread ELSE threads[in.thread]
           why == Refusal(in, row)
<1>1. why # None /\ Settle(c, why)
  BY DEF Refuse
<1>2. in \in Inputs
  BY DEF Refuse, TypeInv, CallsAreReady, Active
<1>3. why \in Results
  BY <1>1, <1>2, RefusalType DEF Results
<1>4. /\ calls' \in [Calls -> CallRecord] /\ tail' \in Calls \cup {None}
      /\ \A d \in Calls : calls'[d].pc = "posting" <=> calls'[d].left # {}
      /\ CallsAreReady'
  BY <1>1, <1>3, SettleType
<1>5. audit' \subseteq (Calls \cup {None}) \X Results
  <2>1. audit' \subseteq audit \cup {<<None, why>>, <<c, why>>}
    BY DEF Refuse
  <2> QED
    BY <2>1, <1>3 DEF TypeInv, TypeOK
<1>6. TypeOK'
  BY <1>4, <1>5 DEF Refuse, TypeInv, TypeOK
<1> QED
  BY <1>4, <1>6 DEF TypeInv

LEMMA HoldBackTypeInv ==
  ASSUME TypeInv, NEW c \in Calls, HoldBack(c)
  PROVE  TypeInv'
<1>1. "RATE_LIMITED" \in Results /\ Settle(c, "RATE_LIMITED")
  BY DEF HoldBack, Results, Failures
<1>2. /\ calls' \in [Calls -> CallRecord] /\ tail' \in Calls \cup {None}
      /\ \A d \in Calls : calls'[d].pc = "posting" <=> calls'[d].left # {}
      /\ CallsAreReady'
  BY <1>1, SettleType
<1>3. audit' \subseteq (Calls \cup {None}) \X Results
  BY <1>1 DEF HoldBack, TypeInv, TypeOK
<1>4. TypeOK'
  BY <1>2, <1>3 DEF HoldBack, TypeInv, TypeOK
<1> QED
  BY <1>2, <1>4 DEF TypeInv

LEMMA BeginTypeInv ==
  ASSUME TypeInv, NEW c \in Calls, Begin(c)
  PROVE  TypeInv'
<1> DEFINE in == calls[c].input
           row == IF in.thread = None THEN NoThread ELSE threads[in.thread]
           new == [calls[c] EXCEPT !.pc = "posting", !.existing = row,
                     !.before = retryUntil, !.at = clock,
                     !.left = {Group} \cup Recipients(in)]
<1>1. /\ calls[c].pc = "queued" /\ Refusal(in, row) = None /\ RecordBudget(c)
      /\ calls' = [calls EXCEPT ![c] = new]
      /\ UNCHANGED <<ledger, tail, heard, asleep, clock, crashes, limited, owed>>
  BY DEF Begin
<1>2. in \in Inputs /\ row \in ThreadRow
  BY <1>1, ExistingType DEF TypeInv, CallsAreReady, Active
<1>3. calls \in [Calls -> CallRecord] /\ retryUntil \in Nat /\ clock \in Nat
  BY DEF TypeInv, TypeOK
<1>4. {Group} \cup Recipients(in) \in SUBSET Chats
  BY <1>1, NotRefusedIsKnown DEF Chats
<1>5. new \in CallRecord
  <2> HIDE DEF in, row
  <2> QED
    BY <1>2, <1>3, <1>4 DEF CallRecord
<1>6. /\ new.pc = "posting" /\ new.left # {} /\ new.input = in /\ new.existing = row
  BY <1>3 DEF CallRecord
<1>7. calls' \in [Calls -> CallRecord]
  BY <1>1, <1>3, <1>5
<1>8. calls'[c] = new /\ \A d \in Calls : d # c => calls'[d] = calls[d]
  BY <1>1, <1>3
<1>9. /\ groupWindow' \subseteq Calls \X Nat
      /\ chatWindows' \in [Chats -> SUBSET (Calls \X Nat)]
  BY <1>1, <1>3 DEF RecordBudget, Pruned, TypeInv, TypeOK
<1>10. TypeOK'
  <2>1. \A d \in Calls : calls'[d].pc = "posting" <=> calls'[d].left # {}
    BY <1>6, <1>8 DEF TypeInv, TypeOK
  <2> QED
    BY <1>1, <1>7, <1>9, <2>1 DEF TypeInv, TypeOK, ledger
<1>11. CallsAreReady'
  BY <1>2, <1>6, <1>8 DEF TypeInv, CallsAreReady, Active, Running
<1> QED
  BY <1>10, <1>11 DEF TypeInv

\* An answer moves a call on and leaves it a well-formed record.
LEMMA AnsweredType ==
  ASSUME TypeInv, NEW c \in Calls, calls[c].pc = "posting",
         NEW call \in CallRecord,
         call.pc \in {"posting", "sent"}, call.pc = "posting" <=> call.left # {},
         call.input = calls[c].input, call.existing = calls[c].existing,
         calls' = [calls EXCEPT ![c] = call]
  PROVE  /\ calls' \in [Calls -> CallRecord]
         /\ \A d \in Calls : calls'[d].pc = "posting" <=> calls'[d].left # {}
         /\ CallsAreReady'
<1>1. calls \in [Calls -> CallRecord]
  BY DEF TypeInv, TypeOK
<1>2. calls'[c] = call /\ \A d \in Calls : d # c => calls'[d] = calls[d]
  BY <1>1
<1>3. \A d \in Calls : calls'[d].pc = "posting" <=> calls'[d].left # {}
  BY <1>2 DEF TypeInv, TypeOK
<1>4. CallsAreReady'
  BY <1>2 DEF TypeInv, CallsAreReady, Active, Running
<1> QED
  BY <1>1, <1>3, <1>4

LEMMA PostTypeInv ==
  ASSUME TypeInv, NEW c \in Calls, Post(c)
  PROVE  TypeInv'
<1>1. calls[c] \in CallRecord /\ calls[c].pc = "posting"
  BY DEF TypeInv, TypeOK, Post, Land, Miss, Limited, Unsendable
<1>2. ASSUME NEW chat \in Chats, Land(c, chat)
      PROVE  TypeInv'
  <2> DEFINE call == [Answered(c, chat) EXCEPT !.landed = @ \cup {chat}]
  <2>1. call \in CallRecord /\ call.pc \in {"posting", "sent"}
    BY <1>1 DEF Answered, CallRecord
  <2>2. /\ call.pc = "posting" <=> call.left # {}
        /\ call.input = calls[c].input /\ call.existing = calls[c].existing
    BY <1>1 DEF Answered, CallRecord
  <2>3. calls' = [calls EXCEPT ![c] = call]
    BY <1>2 DEF Land
  <2> HIDE DEF call
  <2>4. /\ calls' \in [Calls -> CallRecord]
        /\ \A d \in Calls : calls'[d].pc = "posting" <=> calls'[d].left # {}
        /\ CallsAreReady'
    BY <1>1, <2>1, <2>2, <2>3, AnsweredType
  <2> QED
    BY <1>2, <2>4 DEF Land, TypeInv, TypeOK, ledger, memory
<1>3. ASSUME NEW chat \in Chats, Miss(c, chat)
      PROVE  TypeInv'
  <2> DEFINE call == [Answered(c, chat) EXCEPT !.failed = @ \cup {chat}]
  <2>1. call \in CallRecord /\ call.pc \in {"posting", "sent"}
    BY <1>1 DEF Answered, CallRecord
  <2>2. /\ call.pc = "posting" <=> call.left # {}
        /\ call.input = calls[c].input /\ call.existing = calls[c].existing
    BY <1>1 DEF Answered, CallRecord
  <2>3. calls' = [calls EXCEPT ![c] = call]
    BY <1>3 DEF Miss, Unreached
  <2> HIDE DEF call
  <2>4. /\ calls' \in [Calls -> CallRecord]
        /\ \A d \in Calls : calls'[d].pc = "posting" <=> calls'[d].left # {}
        /\ CallsAreReady'
    BY <1>1, <2>1, <2>2, <2>3, AnsweredType
  <2> QED
    BY <1>3, <2>4 DEF Miss, TypeInv, TypeOK, ledger, memory
<1>4. ASSUME NEW chat \in Chats, NEW wait \in Waits, Limited(c, chat, wait)
      PROVE  TypeInv'
  <2> DEFINE call == [Answered(c, chat) EXCEPT !.failed = @ \cup {chat}]
  <2>1. call \in CallRecord /\ call.pc \in {"posting", "sent"}
    BY <1>1 DEF Answered, CallRecord
  <2>2. /\ call.pc = "posting" <=> call.left # {}
        /\ call.input = calls[c].input /\ call.existing = calls[c].existing
    BY <1>1 DEF Answered, CallRecord
  <2>3. calls' = [calls EXCEPT ![c] = call]
    BY <1>4 DEF Limited, Unreached
  <2> HIDE DEF call
  <2>4. /\ calls' \in [Calls -> CallRecord]
        /\ \A d \in Calls : calls'[d].pc = "posting" <=> calls'[d].left # {}
        /\ CallsAreReady'
    BY <1>1, <2>1, <2>2, <2>3, AnsweredType
  <2>5. retryUntil' \in Nat /\ owed' \in Nat /\ limited' \in 0..MaxLimited
    BY <1>4, BoundsAssumption DEF Limited, Later, TypeInv, TypeOK
  <2> QED
    BY <1>4, <2>4, <2>5 DEF Limited, TypeInv, TypeOK, memory
<1>5. ASSUME Unsendable(c)
      PROVE  TypeInv'
  <2> DEFINE call == [calls[c] EXCEPT !.left = {}, !.pc = "sent", !.failed = {Group}]
  <2>1. call \in CallRecord /\ call.pc \in {"posting", "sent"}
    BY <1>1 DEF CallRecord, Chats
  <2>2. /\ call.pc = "posting" <=> call.left # {}
        /\ call.input = calls[c].input /\ call.existing = calls[c].existing
    BY <1>1 DEF CallRecord
  <2>3. calls' = [calls EXCEPT ![c] = call]
    BY <1>5 DEF Unsendable
  <2> HIDE DEF call
  <2>4. /\ calls' \in [Calls -> CallRecord]
        /\ \A d \in Calls : calls'[d].pc = "posting" <=> calls'[d].left # {}
        /\ CallsAreReady'
    BY <1>1, <2>1, <2>2, <2>3, AnsweredType
  <2> QED
    BY <1>5, <2>4 DEF Unsendable, TypeInv, TypeOK, ledger, memory
<1> QED
  BY <1>2, <1>3, <1>4, <1>5 DEF Post

LEMMA RecordTypeInv ==
  ASSUME TypeInv, NEW c \in Calls, Record(c)
  PROVE  TypeInv'
<1> DEFINE result == IF calls[c].failed = {} THEN "ok" ELSE "degraded"
<1>1. result \in Results /\ Settle(c, result) /\ Running(c) /\ Active(c)
  BY DEF Record, Results, Running, Active
<1>2. /\ calls' \in [Calls -> CallRecord] /\ tail' \in Calls \cup {None}
      /\ \A d \in Calls : calls'[d].pc = "posting" <=> calls'[d].left # {}
      /\ CallsAreReady'
  BY <1>1, SettleType
<1>3. threads' \in [Threads -> ThreadRow]
  BY <1>1, RowWrittenType, ThreadForType DEF Record, TypeInv, TypeOK
<1>4. audit' \subseteq (Calls \cup {None}) \X Results
  BY <1>1 DEF Record, TypeInv, TypeOK
<1>5. TypeOK'
  BY <1>2, <1>3, <1>4 DEF Record, GroupOutage, TypeInv, TypeOK
<1> QED
  BY <1>2, <1>5 DEF TypeInv

LEMMA RollBackTypeInv ==
  ASSUME TypeInv, NEW c \in Calls, RollBack(c)
  PROVE  TypeInv'
<1>1. "TOOL_ERROR" \in Results /\ Settle(c, "TOOL_ERROR")
  BY DEF RollBack, Results, Failures
<1>2. /\ calls' \in [Calls -> CallRecord] /\ tail' \in Calls \cup {None}
      /\ \A d \in Calls : calls'[d].pc = "posting" <=> calls'[d].left # {}
      /\ CallsAreReady'
  BY <1>1, SettleType
<1>3. TypeOK'
  BY <1>2 DEF RollBack, TypeInv, TypeOK, ledger
<1> QED
  BY <1>2, <1>3 DEF TypeInv

LEMMA FailTypeInv ==
  ASSUME TypeInv, NEW c \in Calls, Fail(c)
  PROVE  TypeInv'
<1> DEFINE why == IF RateLimitedDuring(c) THEN "RATE_LIMITED" ELSE "TRANSPORT_ERROR"
<1>1. /\ why \in Results /\ "RATE_LIMITED" \in Results /\ Settle(c, why)
      /\ Running(c) /\ Active(c)
  BY DEF Fail, Results, Failures, Running, Active
<1>2. /\ calls' \in [Calls -> CallRecord] /\ tail' \in Calls \cup {None}
      /\ \A d \in Calls : calls'[d].pc = "posting" <=> calls'[d].left # {}
      /\ CallsAreReady'
  BY <1>1, SettleType
<1>3. [RowWritten(c) EXCEPT !.delivered = FALSE] \in ThreadRow
  BY <1>1, RowWrittenType DEF ThreadRow
<1>4. threads' \in [Threads -> ThreadRow]
  BY <1>1, <1>3, ThreadForType DEF Fail, TypeInv, TypeOK
<1>5. audit' \subseteq (Calls \cup {None}) \X Results
  BY <1>1 DEF Fail, TypeInv, TypeOK
<1>6. TypeOK'
  BY <1>2, <1>4, <1>5 DEF Fail, TypeInv, TypeOK
<1> QED
  BY <1>2, <1>6 DEF TypeInv

LEMMA PollTypeInv ==
  ASSUME TypeInv, Poll \/ \E wait \in Waits : PollLimited(wait)
  PROVE  TypeInv'
<1>1. CASE Poll
  <2>1. threads' \in [Threads -> ThreadRow] /\ heard' \subseteq PeerSays
    <3>1. CASE UNCHANGED <<heard, threads>>
      BY <3>1 DEF TypeInv, TypeOK
    <3>2. ASSUME NEW m \in PeerSays, heard' = heard \cup {m}, threads' = Admitted(m)
          PROVE  threads' \in [Threads -> ThreadRow] /\ heard' \subseteq PeerSays
      <4>1. m \in Envelope /\ m.thread \in Threads
        BY PeersAssumption DEF Envelope
      <4>2. RowAfter(threads[m.thread], m) \in ThreadRow
        BY <4>1, RowAfterType DEF TypeInv, TypeOK
      <4> QED
        BY <3>2, <4>2 DEF Admitted, TypeInv, TypeOK
    <3> QED
      BY <1>1, <3>1, <3>2 DEF Poll
  <2> QED
    BY <1>1, <2>1 DEF Poll, TypeInv, TypeOK, CallsAreReady, Active, Running, memory
<1>2. ASSUME NEW wait \in Waits, PollLimited(wait)
      PROVE  TypeInv'
  <2>1. retryUntil' \in Nat /\ owed' \in Nat /\ asleep' \in Nat /\ limited' \in 0..MaxLimited
    BY <1>2, BoundsAssumption DEF PollLimited, TypeInv, TypeOK
  <2> QED
    BY <1>2, <2>1 DEF PollLimited, TypeInv, TypeOK, CallsAreReady, Active, Running, memory
<1> QED
  BY <1>1, <1>2

LEMMA CrashTypeInv ==
  ASSUME TypeInv, Crash
  PROVE  TypeInv'
<1>1. calls \in [Calls -> CallRecord]
  BY DEF TypeInv, TypeOK
<1>2. \A c \in Calls : [Over(calls[c]) EXCEPT !.pc = "lost"] \in CallRecord
  BY <1>1 DEF Over, CallRecord
<1>3. \A c \in Calls :
        IF Active(c) THEN calls'[c].pc = "lost" /\ calls'[c].left = {}
        ELSE calls'[c] = calls[c]
  BY <1>1 DEF Crash, Active, Over, CallRecord
<1>4. calls' \in [Calls -> CallRecord]
  BY <1>1, <1>2 DEF Crash
<1>5. TypeOK'
  <2>1. crashes' \in 0..MaxCrashes
    BY BoundsAssumption DEF Crash, TypeInv, TypeOK
  <2>2. \A c \in Calls : calls'[c].pc = "posting" <=> calls'[c].left # {}
    BY <1>3 DEF TypeInv, TypeOK, Active
  <2> QED
    BY <1>4, <2>1, <2>2 DEF Crash, TypeInv, TypeOK, ledger
<1>6. CallsAreReady'
  BY <1>3 DEF CallsAreReady, Active, Running
<1> QED
  BY <1>5, <1>6 DEF TypeInv

LEMMA StepTypeInv == TypeInv /\ [Next]_vars => TypeInv'
<1> SUFFICES ASSUME TypeInv, [Next]_vars PROVE TypeInv'
  OBVIOUS
<1>1. CASE UNCHANGED vars
  BY <1>1 DEF vars, TypeInv, TypeOK, CallsAreReady, Active, Running
<1>2. CASE Tick
  BY <1>2, BoundsAssumption
  DEF Tick, TypeInv, TypeOK, CallsAreReady, Active, Running, ledger, memory
<1> QED
  BY <1>1, <1>2, SubmitTypeInv, RefuseTypeInv, HoldBackTypeInv, BeginTypeInv,
     PostTypeInv, RecordTypeInv, RollBackTypeInv, FailTypeInv, PollTypeInv, CrashTypeInv
  DEF Next, Step

\* The ledger, the daemon's memory and the calls keep their types, for any
\* number of calls, inputs, peers' messages and crashes.
THEOREM SendTypeCorrect == Spec => []TypeOK
<1>1. TypeInv /\ [Next]_vars => TypeInv'
  BY StepTypeInv
<1>2. TypeInv => TypeOK
  BY DEF TypeInv
<1> QED
  BY InitTypeInv, <1>1, <1>2, PTL DEF Spec

-----------------------------------------------------------------------------
(* Mutual exclusion: the chain of links.                                   *)

\* Calls arrive in the order of their numbers.
ArrivedInOrder ==
  \A c, d \in Calls : c < d /\ calls[d].pc # "idle" => calls[c].pc # "idle"

\* While a call is not over, every later one waits, linked to one that is not
\* over either and is no earlier than it: the links lead back to the first
\* call that is not over, and only that one may run.
WaitsBehind(c, d) ==
  /\ calls[d].pc = "queued"
  /\ calls[d].after \in Calls
  /\ Active(calls[d].after) /\ c <= calls[d].after

LaterCallsWait ==
  \A c, d \in Calls : Active(c) /\ Active(d) /\ c < d => WaitsBehind(c, d)

\* The end of the chain is a call that is not over, the last one.
TailIsLast ==
  \A c \in Calls : Active(c) => tail \in Calls /\ Active(tail) /\ c <= tail

ChainInv == TypeInv /\ ArrivedInOrder /\ LaterCallsWait /\ TailIsLast

LEMMA CallsAreNumbers == Calls \subseteq Nat
  BY CallsAssumption, EidsAssumption

\* The call that takes a step of its own is the first that is not over.
LEMMA StarterIsFirst ==
  ASSUME ChainInv, NEW c \in Calls, Active(c),
         calls[c].pc = "queued" => MayStart(c),
         NEW d \in Calls, Active(d), d # c
  PROVE  c < d
<1>1. c \in Nat /\ d \in Nat
  BY CallsAreNumbers
<1>2. SUFFICES ASSUME d < c PROVE FALSE
  BY <1>1
<1>3. /\ calls[c].pc = "queued"
      /\ calls[c].after \in Calls
      /\ Active(calls[c].after)
  BY <1>2 DEF ChainInv, LaterCallsWait, WaitsBehind
<1>4. calls[c].after # None
  BY <1>3, CallsAssumption
<1> QED
  BY <1>3, <1>4 DEF MayStart, Settled, Active

\* Moving the first call on, without ending it, keeps the chain.
LEMMA MoveOn ==
  ASSUME ChainInv, NEW c \in Calls, Active(c),
         calls[c].pc = "queued" => MayStart(c),
         Active(c)', tail' = tail,
         \A d \in Calls : d # c => calls'[d] = calls[d]
  PROVE  (ArrivedInOrder /\ LaterCallsWait /\ TailIsLast)'
<1>1. \A d \in Calls : Active(d)' <=> Active(d)
  BY DEF Active
<1>2. \A d \in Calls : calls'[d].pc # "idle" <=> calls[d].pc # "idle"
  BY DEF Active
<1>3. ArrivedInOrder'
  BY <1>2 DEF ChainInv, ArrivedInOrder
<1>4. LaterCallsWait'
  <2> SUFFICES ASSUME NEW e \in Calls, NEW d \in Calls,
                      Active(e)', Active(d)', e < d
               PROVE  WaitsBehind(e, d)'
    BY DEF LaterCallsWait
  <2>1. Active(e) /\ Active(d)
    BY <1>1
  <2>2. d # c
    <3> SUFFICES ASSUME d = c PROVE FALSE
      OBVIOUS
    <3>1. e # c /\ c < e
      BY <2>1, StarterIsFirst, CallsAreNumbers
    <3> QED
      BY <3>1, CallsAreNumbers
  <2>3. calls'[d] = calls[d]
    BY <2>2
  <2>4. /\ calls[d].pc = "queued" /\ calls[d].after \in Calls
        /\ Active(calls[d].after) /\ e <= calls[d].after
    BY <2>1 DEF ChainInv, LaterCallsWait, WaitsBehind
  <2> QED
    BY <1>1, <2>3, <2>4 DEF WaitsBehind, Active
<1>5. TailIsLast'
  BY <1>1 DEF ChainInv, TailIsLast
<1> QED
  BY <1>3, <1>4, <1>5

\* Ending the first call keeps the chain: no link led past it.
LEMMA EndFirst ==
  ASSUME ChainInv, NEW c \in Calls, Active(c),
         calls[c].pc = "queued" => MayStart(c),
         NEW result, Settle(c, result)
  PROVE  (ArrivedInOrder /\ LaterCallsWait /\ TailIsLast)'
<1>1. calls \in [Calls -> CallRecord]
  BY DEF ChainInv, TypeInv, TypeOK
<1>2. /\ calls'[c].pc = "settled"
      /\ \A d \in Calls : d # c => calls'[d] = calls[d]
  BY <1>1 DEF Settle, Over, CallRecord
<1>3. \A d \in Calls : Active(d)' <=> Active(d) /\ d # c
  BY <1>2 DEF Active
<1>4. ArrivedInOrder'
  BY <1>2 DEF ChainInv, ArrivedInOrder, Active
<1>5. LaterCallsWait'
  <2> SUFFICES ASSUME NEW e \in Calls, NEW d \in Calls,
                      Active(e)', Active(d)', e < d
               PROVE  WaitsBehind(e, d)'
    BY DEF LaterCallsWait
  <2>1. Active(e) /\ Active(d) /\ e # c /\ d # c
    BY <1>3
  <2>2. calls'[d] = calls[d]
    BY <1>2, <2>1
  <2>3. /\ calls[d].pc = "queued" /\ calls[d].after \in Calls
        /\ Active(calls[d].after) /\ e <= calls[d].after
    BY <2>1 DEF ChainInv, LaterCallsWait, WaitsBehind
  <2>4. c < e
    BY <2>1, StarterIsFirst
  <2>5. calls[d].after # c
    BY <2>3, <2>4, CallsAreNumbers
  <2> QED
    BY <1>3, <2>2, <2>3, <2>5 DEF WaitsBehind, Active
<1>6. TailIsLast'
  <2> SUFFICES ASSUME NEW d \in Calls, Active(d)'
               PROVE  tail' \in Calls /\ Active(tail)' /\ d <= tail'
    BY DEF TailIsLast
  <2>1. Active(d) /\ d # c
    BY <1>3
  <2>2. tail \in Calls /\ Active(tail) /\ d <= tail
    BY <2>1 DEF ChainInv, TailIsLast
  <2>3. c < d
    BY <2>1, StarterIsFirst
  <2>4. tail # c
    BY <2>2, <2>3, CallsAreNumbers
  <2>5. tail' = tail
    BY <2>4 DEF Settle, Release
  <2> QED
    BY <1>3, <2>2, <2>4, <2>5
<1> QED
  BY <1>4, <1>5, <1>6

\* A new call joins the end of the chain.
LEMMA SubmitChain ==
  ASSUME ChainInv, NEW c \in Calls, NEW in \in Inputs, Submit(c, in)
  PROVE  (ArrivedInOrder /\ LaterCallsWait /\ TailIsLast)'
<1>1. calls \in [Calls -> CallRecord]
  BY DEF ChainInv, TypeInv, TypeOK
<1>2. /\ calls[c].pc = "idle" /\ tail' = c
      /\ calls'[c].pc = "queued" /\ calls'[c].after = tail
      /\ \A d \in Calls : d # c => calls'[d] = calls[d]
  BY <1>1 DEF Submit, Idle
<1>3. \A d \in Calls : Active(d)' <=> Active(d) \/ d = c
  BY <1>2 DEF Active
<1>4. \A d \in Calls : Active(d) => d < c
  <2> SUFFICES ASSUME NEW d \in Calls, Active(d), ~(d < c) PROVE FALSE
    OBVIOUS
  <2>1. calls[d].pc # "idle" /\ c # d
    BY <1>2 DEF Active
  <2>2. c < d
    BY <2>1, CallsAreNumbers
  <2> QED
    BY <1>2, <2>1, <2>2 DEF ChainInv, ArrivedInOrder
<1>5. ArrivedInOrder'
  <2> SUFFICES ASSUME NEW e \in Calls, NEW d \in Calls, e < d, calls'[d].pc # "idle"
               PROVE  calls'[e].pc # "idle"
    BY DEF ArrivedInOrder
  <2>1. CASE d = c
    <3>1. e # c /\ calls[e].pc # "idle"
      BY <2>1, CallsAreNumbers DEF Submit
    <3> QED
      BY <3>1, <1>2
  <2>2. CASE d # c
    <3>1. calls[d].pc # "idle" /\ calls[e].pc # "idle"
      BY <2>2, <1>2 DEF ChainInv, ArrivedInOrder
    <3> QED
      BY <3>1, <1>2
  <2> QED
    BY <2>1, <2>2
<1>6. LaterCallsWait'
  <2> SUFFICES ASSUME NEW e \in Calls, NEW d \in Calls,
                      Active(e)', Active(d)', e < d
               PROVE  WaitsBehind(e, d)'
    BY DEF LaterCallsWait
  <2>1. CASE d = c
    <3>1. Active(e)
      BY <2>1, <1>3, CallsAreNumbers
    <3>2. tail \in Calls /\ Active(tail) /\ e <= tail
      BY <3>1 DEF ChainInv, TailIsLast
    <3> QED
      BY <2>1, <3>2, <1>2, <1>3 DEF WaitsBehind, Active
  <2>2. CASE d # c
    <3>1. Active(d) /\ d < c
      BY <2>2, <1>3, <1>4
    <3>2. Active(e)
      BY <3>1, <1>3, CallsAreNumbers
    <3>3. /\ calls[d].pc = "queued" /\ calls[d].after \in Calls
          /\ Active(calls[d].after) /\ e <= calls[d].after
      BY <3>1, <3>2 DEF ChainInv, LaterCallsWait, WaitsBehind
    <3> QED
      BY <2>2, <3>3, <1>2, <1>3 DEF WaitsBehind, Active
  <2> QED
    BY <2>1, <2>2
<1>7. TailIsLast'
  BY <1>2, <1>3, <1>4, CallsAreNumbers DEF TailIsLast
<1> QED
  BY <1>5, <1>6, <1>7

LEMMA CrashChain ==
  ASSUME ChainInv, Crash
  PROVE  (ArrivedInOrder /\ LaterCallsWait /\ TailIsLast)'
<1>1. calls \in [Calls -> CallRecord]
  BY DEF ChainInv, TypeInv, TypeOK
<1>2. \A c \in Calls : IF Active(c) THEN calls'[c].pc = "lost"
                       ELSE calls'[c] = calls[c]
  BY <1>1 DEF Crash, Active, Over, CallRecord
<1>3. \A c \in Calls : ~Active(c)'
  BY <1>2 DEF Active
<1>4. ArrivedInOrder'
  BY <1>2 DEF ChainInv, ArrivedInOrder, Active
<1> QED
  BY <1>3, <1>4 DEF LaterCallsWait, TailIsLast

LEMMA InitChain == Init => ChainInv
<1> SUFFICES ASSUME Init PROVE ChainInv
  OBVIOUS
<1>1. \A c \in Calls : calls[c].pc = "idle"
  BY DEF Init, Idle
<1> QED
  BY <1>1, InitTypeInv
  DEF ChainInv, ArrivedInOrder, LaterCallsWait, TailIsLast, Active

LEMMA StepChain == ChainInv /\ [Next]_vars => ChainInv'
<1> SUFFICES ASSUME ChainInv, [Next]_vars PROVE ChainInv'
  OBVIOUS
<1>1. TypeInv'
  BY StepTypeInv DEF ChainInv
<1>2. calls \in [Calls -> CallRecord]
  BY DEF ChainInv, TypeInv, TypeOK
<1>3. ASSUME UNCHANGED <<calls, tail>>
      PROVE  (ArrivedInOrder /\ LaterCallsWait /\ TailIsLast)'
  BY <1>3
  DEF ChainInv, ArrivedInOrder, LaterCallsWait, WaitsBehind, TailIsLast, Active
<1>4. ASSUME NEW c \in Calls, Step(c)
      PROVE  (ArrivedInOrder /\ LaterCallsWait /\ TailIsLast)'
  <2>1. CASE Refuse(c) \/ HoldBack(c) \/ Record(c) \/ RollBack(c) \/ Fail(c)
    <3>1. /\ Active(c)
          /\ calls[c].pc = "queued" => MayStart(c)
      BY <2>1 DEF Refuse, HoldBack, Record, RollBack, Fail, Active
    <3>2. PICK result : Settle(c, result)
      BY <2>1 DEF Refuse, HoldBack, Record, RollBack, Fail
    <3> QED
      BY <3>1, <3>2, EndFirst
  <2>2. CASE Begin(c)
    <3>1. /\ Active(c) /\ MayStart(c) /\ tail' = tail
          /\ calls'[c].pc = "posting"
          /\ \A d \in Calls : d # c => calls'[d] = calls[d]
      BY <2>2, <1>2 DEF Begin, Active, CallRecord
    <3> QED
      BY <3>1, MoveOn DEF Active
  <2>3. CASE Post(c)
    <3>1. /\ calls[c].pc = "posting" /\ tail' = tail
          /\ calls'[c].pc \in {"posting", "sent"}
          /\ \A d \in Calls : d # c => calls'[d] = calls[d]
      <4>1. CASE \E chat \in Chats : Land(c, chat)
        BY <4>1, <1>2 DEF Land, Answered, CallRecord, memory
      <4>2. CASE \E chat \in Chats : Miss(c, chat)
        BY <4>2, <1>2 DEF Miss, Unreached, Answered, CallRecord, memory
      <4>3. CASE \E chat \in Chats, wait \in Waits : Limited(c, chat, wait)
        BY <4>3, <1>2 DEF Limited, Unreached, Answered, CallRecord, memory
      <4>4. CASE Unsendable(c)
        BY <4>4, <1>2 DEF Unsendable, CallRecord, memory
      <4> QED
        BY <2>3, <4>1, <4>2, <4>3, <4>4 DEF Post
    <3> QED
      BY <3>1, MoveOn DEF Active
  <2> QED
    BY <1>4, <2>1, <2>2, <2>3 DEF Step
<1>5. CASE Poll \/ (\E wait \in Waits : PollLimited(wait)) \/ Tick
  BY <1>1, <1>3, <1>5 DEF Poll, PollLimited, Tick, memory, ChainInv
<1>6. CASE UNCHANGED vars
  BY <1>1, <1>3, <1>6 DEF vars, ChainInv
<1> QED
  BY <1>1, <1>4, <1>5, <1>6, SubmitChain, CrashChain DEF Next, ChainInv

\* BindingMutex serialises the sends of a binding: no two of them are ever
\* between reading the thread and writing it, however many are queued, and
\* however each of them ends.
THEOREM SendsNeverOverlap == Spec => []SendsAreSerial
<1>1. ChainInv => SendsAreSerial
  <2> SUFFICES ASSUME ChainInv, NEW c \in Calls, NEW d \in Calls,
                      Running(c), Running(d), c # d
               PROVE  FALSE
    BY DEF SendsAreSerial
  <2>1. Active(c) /\ Active(d) /\ calls[c].pc # "queued" /\ calls[d].pc # "queued"
    BY DEF Running, Active
  <2>2. c < d \/ d < c
    BY CallsAreNumbers
  <2> QED
    BY <2>1, <2>2 DEF ChainInv, LaterCallsWait, WaitsBehind
<1> QED
  BY InitChain, StepChain, <1>1, PTL DEF Spec

-----------------------------------------------------------------------------
(* Waits.                                                                  *)

LEMMA StepKeepsWait == TypeInv /\ LongestWaitIsKept /\ [Next]_vars => LongestWaitIsKept'
<1> SUFFICES ASSUME TypeInv, LongestWaitIsKept, [Next]_vars PROVE LongestWaitIsKept'
  OBVIOUS
<1>1. ASSUME UNCHANGED <<retryUntil, owed>> PROVE LongestWaitIsKept'
  BY <1>1 DEF LongestWaitIsKept
<1>2. ASSUME NEW c \in Calls, NEW chat \in Chats, NEW wait \in Waits, Limited(c, chat, wait)
      PROVE  LongestWaitIsKept'
  <2>1. clock + wait \in Nat /\ retryUntil \in Nat /\ owed \in Nat
    BY BoundsAssumption DEF TypeInv, TypeOK
  <2> QED
    BY <1>2, <2>1 DEF Limited, Later, LongestWaitIsKept
<1>3. CASE Poll
  BY <1>3 DEF Poll, LongestWaitIsKept
<1>4. ASSUME NEW wait \in Waits, PollLimited(wait) PROVE LongestWaitIsKept'
  <2>1. clock + wait \in Nat
    BY BoundsAssumption DEF TypeInv, TypeOK
  <2> QED
    BY <1>4, <2>1 DEF PollLimited, LongestWaitIsKept
<1>5. ASSUME NEW c \in Calls, \/ Refuse(c) \/ HoldBack(c) \/ Begin(c)
                               \/ Record(c) \/ RollBack(c) \/ Fail(c)
      PROVE  UNCHANGED <<retryUntil, owed>>
  BY <1>5 DEF Refuse, HoldBack, Begin, Record, RollBack, Fail, ledger
<1>6. ASSUME NEW c \in Calls, NEW chat \in Chats, Land(c, chat) \/ Miss(c, chat)
      PROVE  UNCHANGED <<retryUntil, owed>>
  BY <1>6 DEF Land, Miss, ledger
<1>7. ASSUME NEW c \in Calls, Unsendable(c) PROVE UNCHANGED <<retryUntil, owed>>
  BY <1>7 DEF Unsendable, ledger
<1>8. ASSUME NEW c \in Calls, NEW in \in Inputs, Submit(c, in)
      PROVE  UNCHANGED <<retryUntil, owed>>
  BY <1>8 DEF Submit, ledger
<1>9. CASE Tick \/ Crash \/ UNCHANGED vars
  <2>1. UNCHANGED <<retryUntil, owed>>
    BY <1>9 DEF Tick, Crash, vars, ledger
  <2> QED
    BY <2>1, <1>1
<1> QED
  BY <1>1, <1>2, <1>3, <1>4, <1>5, <1>6, <1>7, <1>8, <1>9 DEF Next, Step, Post

\* Of the waits that Telegram names to the requests of any number of calls,
\* the longest stands until the poller writes the column.
THEOREM TheLongestWaitStands == Spec => []LongestWaitIsKept
<1>1. Init => LongestWaitIsKept
  BY DEF Init, LongestWaitIsKept
<1>2. TypeInv /\ [Next]_vars => TypeInv'
  BY StepTypeInv
<1> QED
  BY InitTypeInv, <1>1, <1>2, StepKeepsWait, PTL DEF Spec

-----------------------------------------------------------------------------
(* Errors.                                                                 *)

\* A call has a result when it is settled and not before, and one that has
\* not begun has reached nobody.
ReachInv ==
  /\ TypeInv /\ RefusedReachedNobody
  /\ \A c \in Calls :
       /\ calls[c].pc # "settled" => calls[c].result = None
       /\ calls[c].pc \in {"idle", "queued"} => calls[c].landed = {}

\* A call that goes on, and has no result yet.
LEMMA GoingOnIsNoError ==
  ASSUME ReachInv, NEW c \in Calls, NEW call,
         calls' = [calls EXCEPT ![c] = call],
         call.pc # "settled", call.result = None,
         call.pc \in {"idle", "queued"} => call.landed = {}, TypeInv'
  PROVE  ReachInv'
<1>1. calls \in [Calls -> CallRecord]
  BY DEF ReachInv, TypeInv, TypeOK
<1>2. \A d \in Calls : calls'[d] = IF d = c THEN call ELSE calls[d]
  BY <1>1
<1>3. None \notin Refusals \cup Failures
  BY ResultsAssumption DEF Results
<1> QED
  BY <1>2, <1>3 DEF ReachInv, RefusedReachedNobody

\* A call that ends, in success, with nobody reached or rolled back.
LEMMA SettlingIsNoLie ==
  ASSUME ReachInv, NEW c \in Calls, NEW result, Settle(c, result),
         \/ result \in {"ok", "degraded"}
         \/ calls[c].landed = {}
         \/ JournalRefuses(calls[c].input) /\ result = "TOOL_ERROR",
         TypeInv'
  PROVE  ReachInv'
<1>1. calls \in [Calls -> CallRecord]
  BY DEF ReachInv, TypeInv, TypeOK
<1> DEFINE call == [Over(calls[c]) EXCEPT !.pc = "settled", !.result = result]
<1>2. /\ call.pc = "settled" /\ call.result = result
      /\ call.landed = calls[c].landed /\ call.input = calls[c].input
  BY <1>1 DEF Over, CallRecord
<1>3. calls' = [calls EXCEPT ![c] = call]
  BY DEF Settle
<1> HIDE DEF call
<1>4. \A d \in Calls : calls'[d] = IF d = c THEN call ELSE calls[d]
  BY <1>1, <1>3
<1>5. result \in {"ok", "degraded"} => result \notin Refusals \cup Failures
  BY DEF Refusals, Failures
<1> QED
  BY <1>2, <1>4, <1>5 DEF ReachInv, RefusedReachedNobody

LEMMA StepReachInv == ReachInv /\ [Next]_vars => ReachInv'
<1> SUFFICES ASSUME ReachInv, [Next]_vars PROVE ReachInv'
  OBVIOUS
<1>0. TypeInv' /\ calls \in [Calls -> CallRecord]
  BY StepTypeInv DEF ReachInv, TypeInv, TypeOK
<1>1. ASSUME UNCHANGED calls PROVE ReachInv'
  BY <1>0, <1>1 DEF ReachInv, RefusedReachedNobody
<1>2. ASSUME NEW c \in Calls, NEW in \in Inputs, Submit(c, in) PROVE ReachInv'
  <2> DEFINE call == [Idle EXCEPT !.pc = "queued", !.input = in, !.after = tail, !.life = crashes]
  <2>1. call.pc = "queued" /\ call.result = None /\ call.landed = {}
    BY DEF Idle
  <2>2. calls' = [calls EXCEPT ![c] = call]
    BY <1>2 DEF Submit
  <2> HIDE DEF call
  <2>3. call.pc # "settled"
    BY <2>1
  <2> QED
    BY <1>0, <2>1, <2>2, <2>3, GoingOnIsNoError
<1>3. ASSUME NEW c \in Calls, Refuse(c) PROVE ReachInv'
  <2>1. calls[c].landed = {}
    BY <1>3 DEF Refuse, ReachInv
  <2>2. PICK result : Settle(c, result)
    BY <1>3 DEF Refuse
  <2> QED
    BY <1>0, <2>1, <2>2, SettlingIsNoLie
<1>4. ASSUME NEW c \in Calls, HoldBack(c) PROVE ReachInv'
  <2>1. calls[c].landed = {}
    BY <1>4 DEF HoldBack, ReachInv
  <2>2. Settle(c, "RATE_LIMITED")
    BY <1>4 DEF HoldBack
  <2> QED
    BY <1>0, <2>1, <2>2, SettlingIsNoLie
<1>5. ASSUME NEW c \in Calls, Begin(c) PROVE ReachInv'
  <2> DEFINE in == calls[c].input
             row == IF in.thread = None THEN NoThread ELSE threads[in.thread]
             call == [calls[c] EXCEPT !.pc = "posting", !.existing = row, !.before = retryUntil,
                                      !.at = clock, !.left = {Group} \cup Recipients(in)]
  <2>1. calls[c].pc = "queued" /\ calls' = [calls EXCEPT ![c] = call]
    BY <1>5 DEF Begin
  <2>2. call.pc = "posting" /\ call.result = calls[c].result
    BY <1>0 DEF CallRecord
  <2> HIDE DEF call
  <2>3. call.result = None
    BY <2>1, <2>2 DEF ReachInv
  <2> QED
    BY <1>0, <2>1, <2>2, <2>3, GoingOnIsNoError
<1>6. ASSUME NEW c \in Calls, Post(c) PROVE ReachInv'
  <2>1. calls[c].pc = "posting" /\ calls[c].result = None
    BY <1>6 DEF Post, Land, Miss, Limited, Unsendable, ReachInv
  <2>2. PICK call : /\ calls' = [calls EXCEPT ![c] = call]
                    /\ call.pc \in {"posting", "sent"} /\ call.result = None
    <3>1. ASSUME NEW chat
          PROVE  /\ Answered(c, chat).pc \in {"posting", "sent"}
                 /\ Answered(c, chat).result = None
                 /\ Unreached(c, chat).pc \in {"posting", "sent"}
                 /\ Unreached(c, chat).result = None
                 /\ [Answered(c, chat) EXCEPT !.landed = @ \cup {chat}].pc \in {"posting", "sent"}
                 /\ [Answered(c, chat) EXCEPT !.landed = @ \cup {chat}].result = None
      BY <1>0, <2>1 DEF Answered, Unreached, CallRecord
    <3>2. ASSUME NEW chat \in Chats, Land(c, chat)
          PROVE  \E call : /\ calls' = [calls EXCEPT ![c] = call]
                           /\ call.pc \in {"posting", "sent"} /\ call.result = None
      <4>1. calls' = [calls EXCEPT ![c] = [Answered(c, chat) EXCEPT !.landed = @ \cup {chat}]]
        BY <3>2 DEF Land
      <4> QED
        BY <3>1, <4>1
    <3>3. ASSUME NEW chat \in Chats, calls' = [calls EXCEPT ![c] = Unreached(c, chat)]
          PROVE  \E call : /\ calls' = [calls EXCEPT ![c] = call]
                           /\ call.pc \in {"posting", "sent"} /\ call.result = None
      BY <3>1, <3>3
    <3>4. ASSUME Unsendable(c)
          PROVE  \E call : /\ calls' = [calls EXCEPT ![c] = call]
                           /\ call.pc \in {"posting", "sent"} /\ call.result = None
      <4> DEFINE gone == [calls[c] EXCEPT !.left = {}, !.pc = "sent", !.failed = {Group}]
      <4>1. gone.pc = "sent" /\ gone.result = None
        BY <1>0, <2>1 DEF CallRecord
      <4>2. calls' = [calls EXCEPT ![c] = gone]
        BY <3>4 DEF Unsendable
      <4> HIDE DEF gone
      <4> QED
        BY <4>1, <4>2
    <3> QED
      BY <1>6, <3>2, <3>3, <3>4 DEF Post, Miss, Limited
  <2>3. call.pc # "settled" /\ call.pc \notin {"idle", "queued"}
    BY <2>2
  <2> QED
    BY <1>0, <2>2, <2>3, GoingOnIsNoError
<1>7. ASSUME NEW c \in Calls, Record(c) PROVE ReachInv'
  <2>1. PICK result \in {"ok", "degraded"} : Settle(c, result)
    BY <1>7 DEF Record
  <2> QED
    BY <1>0, <2>1, SettlingIsNoLie
<1>8. ASSUME NEW c \in Calls, Fail(c) PROVE ReachInv'
  <2>1. calls[c].landed = {}
    BY <1>8 DEF Fail, Delivered
  <2>2. PICK result : Settle(c, result)
    BY <1>8 DEF Fail
  <2> QED
    BY <1>0, <2>1, <2>2, SettlingIsNoLie
<1>9. CASE Crash
  <2>1. \A c \in Calls :
          /\ calls'[c].result = calls[c].result /\ calls'[c].landed = calls[c].landed
          /\ calls'[c].input = calls[c].input
          /\ calls'[c].pc = calls[c].pc \/ (calls[c].pc # "settled" /\ calls'[c].pc = "lost")
    BY <1>0, <1>9 DEF Crash, Over, CallRecord
  <2> QED
    BY <1>0, <2>1 DEF ReachInv, RefusedReachedNobody
<1>10. CASE Poll \/ Tick \/ UNCHANGED vars \/ \E wait \in Waits : PollLimited(wait)
  <2>1. UNCHANGED calls
    BY <1>10 DEF Poll, Tick, PollLimited, vars
  <2> QED
    BY <1>1, <2>1
<1>11. ASSUME NEW c \in Calls, RollBack(c) PROVE ReachInv'
  <2>1. JournalRefuses(calls[c].input) /\ Settle(c, "TOOL_ERROR")
    BY <1>11 DEF RollBack
  <2> QED
    BY <1>0, <2>1, SettlingIsNoLie
<1> QED
  BY <1>2, <1>3, <1>4, <1>5, <1>6, <1>7, <1>8, <1>9, <1>10, <1>11 DEF Next, Step

\* A refusal or an error is the truth for any number of calls: Telegram has
\* confirmed the message to nobody, unless it was a broadcast that carried a
\* debate's turn, whose transaction the journal rolls back once peers have it.
THEOREM ErrorsReachedNobody == Spec => []RefusedReachedNobody
<1>1. Init => ReachInv
  BY InitTypeInv DEF Init, Idle, ReachInv, RefusedReachedNobody
<1>2. ReachInv => RefusedReachedNobody
  BY DEF ReachInv
<1> QED
  BY <1>1, <1>2, StepReachInv, PTL DEF Spec

-----------------------------------------------------------------------------
(* Closes.                                                                 *)

\* What a row says of its close: who may have made it, and, when it was never
\* told, that a call of ours abandoned the thread and reached nobody.
OursIsEntitled(row) ==
  row.status = "resolved" /\ row.resolved_by = Me =>
    IF row.basis = "abandoned" THEN row.from = Me ELSE row.to = Me

UntoldIsAbandoned(row, quiet) ==
  row.status = "resolved" /\ ~row.delivered =>
    /\ row.basis = "abandoned"
    /\ row.from = Me /\ row.resolved_by = Me
    /\ quiet

Entitled(row, quiet) == Sound(row) /\ OursIsEntitled(row) /\ UntoldIsAbandoned(row, quiet)

\* A call of ours abandoned the thread and reached nobody.
Quietly(t) ==
  \E c \in Calls : /\ Settled(c) /\ Abandons(c) /\ ThreadFor(c) = t
                   /\ calls[c].landed = {}

\* The table's rows, and those that calls under way have read, which may be
\* older; and what a call was allowed on the row it read, it may still write.
RowsAreEntitled == \A t \in Threads : Entitled(threads[t], Quietly(t))

ReadingsAreEntitled ==
  \A c \in Calls : Running(c) =>
    /\ Refusal(calls[c].input, calls[c].existing) = None
    /\ Entitled(calls[c].existing, Quietly(ThreadFor(c)))

CloseInv == TypeInv /\ RowsAreEntitled /\ ReadingsAreEntitled

\* What the checks of a send have established when they refuse nothing.
LEMMA NotRefusedRule ==
  ASSUME NEW in, NEW row, Refusal(in, row) = None
  PROVE  LoopPrevention(in, row) = None
  BY ResultsAssumption
  DEF Refusal, Results, Refusals, Malformed, CarriesSecret, RecipientsKnown, TooLongEncoded,
      LeavesTheRoom

LEMMA AllowedToSay ==
  ASSUME NEW in, NEW row \in ThreadRow, LoopPrevention(in, row) = None
  PROVE  /\ in.type = "REPLY" => row.status = "open"
         /\ in.type = "RESOLVED" /\ in.basis = "abandoned" => row.from = Me
         /\ in.type = "RESOLVED" /\ in.basis # "abandoned" => row.to = Me
         /\ in.type = "RESOLVED" => row.status = "open"
<1>1. None \notin {"UNKNOWN_THREAD", "NOT_REQUESTABLE", "NOT_PARTICIPANT", "NOT_ADDRESSEE",
                   "NOT_ORIGINATOR", "ALREADY_RESOLVED"}
  BY ResultsAssumption DEF Results, Refusals
<1>2. row.status \in {"absent", "open", "resolved"}
  BY DEF ThreadRow
<1>3. in.type \in InThreadTypes => Held(row) /\ row.opened_type = "REQUEST"
  BY <1>1 DEF LoopPrevention
<1>4. in.type = "REPLY" => RefusedReply(in, row) = None
  BY <1>3 DEF LoopPrevention, InThreadTypes
<1>5. in.type = "RESOLVED" => RefusedClose(in, row) = None /\ row.status # "resolved"
  BY <1>1, <1>3 DEF LoopPrevention, InThreadTypes
<1>6. in.type = "REPLY" => row.status # "resolved"
  BY <1>1, <1>4 DEF RefusedReply
<1>7. in.type = "RESOLVED" /\ in.basis = "abandoned" => row.from = Me
  BY <1>1, <1>5 DEF RefusedClose
<1>8. in.type = "RESOLVED" /\ in.basis # "abandoned" => row.to = Me
  BY <1>1, <1>5 DEF RefusedClose
<1> QED
  BY <1>2, <1>3, <1>5, <1>6, <1>7, <1>8 DEF InThreadTypes, Held

\* A row whose status, ends and close are another's says the same of them.
LEMMA SameClose ==
  ASSUME NEW row, NEW other, NEW quiet, Entitled(row, quiet),
         \A f \in {"status", "resolved_by", "awaiting", "from", "to", "to_user", "basis",
                   "delivered"} : other[f] = row[f]
  PROVE  Entitled(other, quiet)
  BY DEF Entitled, Sound, TurnIsConsistent, ClosureIsAuthorized, OursIsEntitled,
         UntoldIsAbandoned

\* A message of ours that the checks allowed on a row leaves it entitled.
LEMMA OwnKeepsEntitled ==
  ASSUME NEW row \in ThreadRow, NEW quiet, Entitled(row, quiet),
         NEW in, LoopPrevention(in, row) = None,
         NEW env \in Envelope, env.from = Me, env.type = in.type, env.basis = in.basis
  PROVE  Entitled(RowAfter(row, env), quiet)
<1>0. Me # None
  BY RosterAssumption, NoneAssumption
<1>1. CASE OutcomeOf(row, env) = "opened"
  BY <1>1, RowOfOutcome
  DEF Opened, Entitled, Sound, TurnIsConsistent, ClosureIsAuthorized, OursIsEntitled,
      UntoldIsAbandoned
<1>2. CASE OutcomeOf(row, env) = "acked"
  <2>1. RowAfter(row, env) = Acked(row, env)
    BY <1>2, RowOfOutcome
  <2>2. \A f \in {"status", "resolved_by", "awaiting", "from", "to", "to_user", "basis",
                  "delivered"} : Acked(row, env)[f] = row[f]
    BY DEF Acked, ThreadRow
  <2> QED
    BY <2>1, <2>2, SameClose
<1>3. CASE OutcomeOf(row, env) = "replied"
  <2>1. env.type = "REPLY"
    BY <1>3 DEF OutcomeOf, Envelope, Types
  <2>2. row.status = "open"
    BY <2>1, AllowedToSay
  <2>3. RowAfter(row, env) = Replied(row, env)
    BY <1>3, RowOfOutcome
  <2>4. /\ Replied(row, env).status = "open"
        /\ Replied(row, env).resolved_by = None
        /\ Replied(row, env).awaiting \in {row.from, row.to}
        /\ Replied(row, env).from = row.from
        /\ Replied(row, env).to = row.to
    BY <2>2 DEF Replied, ThreadRow, Entitled, Sound, TurnIsConsistent
  <2> QED
    BY <2>3, <2>4 DEF Entitled, Sound, TurnIsConsistent, ClosureIsAuthorized, OursIsEntitled,
                      UntoldIsAbandoned
<1>4. CASE OutcomeOf(row, env) = "resolved"
  <2>1. env.type = "RESOLVED"
    BY <1>4 DEF OutcomeOf, Envelope, Types
  <2>2. IF env.basis = "abandoned" THEN row.from = Me ELSE row.to = Me
    BY <2>1, AllowedToSay
  <2>3. RowAfter(row, env) = Resolved(row, env)
    BY <1>4, RowOfOutcome
  <2>4. /\ Resolved(row, env).status = "resolved" /\ Resolved(row, env).resolved_by = Me
        /\ Resolved(row, env).basis = env.basis /\ Resolved(row, env).delivered
        /\ Resolved(row, env).awaiting = None
        /\ Resolved(row, env).from = row.from /\ Resolved(row, env).to = row.to
    BY DEF Resolved, ThreadRow
  <2> QED
    BY <1>0, <2>2, <2>3, <2>4
    DEF Entitled, Sound, TurnIsConsistent, ClosureIsAuthorized, OursIsEntitled,
        UntoldIsAbandoned
<1> QED
  BY <1>1, <1>2, <1>3, <1>4, RowOfOutcome, OutcomeType DEF Outcomes, Transitions

\* A peer's message leaves a row entitled, whichever row it meets.
LEMMA PeerKeepsEntitled ==
  ASSUME NEW row \in ThreadRow, NEW quiet, Entitled(row, quiet),
         NEW env \in Envelope, env.from # Me
  PROVE  Entitled(RowAfter(row, env), quiet)
<1>0. Sound(RowAfter(row, env))
  BY PeerKeepsRowSound DEF Entitled
<1>1. CASE OutcomeOf(row, env) = "opened"
  BY <1>0, <1>1, RowOfOutcome DEF Opened, Entitled, OursIsEntitled, UntoldIsAbandoned
<1>2. CASE OutcomeOf(row, env) = "acked"
  <2>1. \A f \in {"status", "resolved_by", "awaiting", "from", "to", "to_user", "basis",
                  "delivered"} : Acked(row, env)[f] = row[f]
    BY DEF Acked, ThreadRow
  <2> QED
    BY <1>2, <2>1, RowOfOutcome, SameClose
<1>3. CASE OutcomeOf(row, env) = "replied"
  <2>1. /\ Replied(row, env).status = row.status /\ Replied(row, env).from = row.from
        /\ Replied(row, env).to = row.to /\ Replied(row, env).basis = row.basis
        /\ Replied(row, env).resolved_by = row.resolved_by
        /\ Replied(row, env).delivered = row.delivered
    BY DEF Replied, ThreadRow
  <2> QED
    BY <1>0, <1>3, <2>1, RowOfOutcome DEF Entitled, OursIsEntitled, UntoldIsAbandoned
<1>4. CASE OutcomeOf(row, env) = "resolved"
  <2>1. Resolved(row, env).resolved_by = env.from /\ Resolved(row, env).delivered
    BY DEF Resolved, ThreadRow
  <2> QED
    BY <1>0, <1>4, <2>1, RowOfOutcome DEF Entitled, OursIsEntitled, UntoldIsAbandoned
<1> QED
  BY <1>1, <1>2, <1>3, <1>4, RowOfOutcome, OutcomeType DEF Outcomes, Transitions

\* The calls that abandoned a thread and reached nobody go on having done so.
LEMMA QuietStays ==
  ASSUME NEW row, NEW t,
         \A c \in Calls : Settled(c) => calls'[c] = calls[c],
         Entitled(row, Quietly(t))
  PROVE  Entitled(row, Quietly(t)')
<1>1. Quietly(t) => Quietly(t)'
  BY DEF Quietly, Settled, Abandons, ThreadFor
<1> QED
  BY <1>1 DEF Entitled, UntoldIsAbandoned

\* A call that is over changes no more, whatever happens.
LEMMA OverIsOver ==
  ASSUME TypeInv, [Next]_vars, NEW d \in Calls, Settled(d)
  PROVE  calls'[d] = calls[d]
<1>0. calls \in [Calls -> CallRecord]
  BY DEF TypeInv, TypeOK
<1>1. ASSUME NEW c \in Calls, c # d, NEW call, calls' = [calls EXCEPT ![c] = call]
      PROVE  calls'[d] = calls[d]
  BY <1>0, <1>1
<1>2. ASSUME NEW c \in Calls, NEW in \in Inputs, Submit(c, in) PROVE calls'[d] = calls[d]
  <2>1. c # d
    BY <1>2 DEF Submit, Settled
  <2> QED
    BY <1>1, <1>2, <2>1 DEF Submit
<1>3. ASSUME NEW c \in Calls, \/ Refuse(c) \/ HoldBack(c) \/ Begin(c)
                               \/ Record(c) \/ RollBack(c) \/ Fail(c)
      PROVE  calls'[d] = calls[d]
  <2>1. c # d
    BY <1>3 DEF Refuse, HoldBack, Begin, Record, RollBack, Fail, Settled
  <2>2. PICK call : calls' = [calls EXCEPT ![c] = call]
    BY <1>3 DEF Refuse, HoldBack, Begin, Record, RollBack, Fail, Settle
  <2> QED
    BY <1>1, <2>1, <2>2
<1>4. ASSUME NEW c \in Calls, Post(c) PROVE calls'[d] = calls[d]
  <2>1. c # d
    BY <1>4 DEF Post, Land, Miss, Limited, Unsendable, Settled
  <2>2. PICK call : calls' = [calls EXCEPT ![c] = call]
    BY <1>4 DEF Post, Land, Miss, Limited, Unsendable
  <2> QED
    BY <1>1, <2>1, <2>2
<1>5. CASE Crash
  BY <1>0, <1>5 DEF Crash, Settled
<1>6. CASE Poll \/ Tick \/ UNCHANGED vars \/ \E wait \in Waits : PollLimited(wait)
  BY <1>6 DEF Poll, Tick, PollLimited, vars
<1> QED
  BY <1>2, <1>3, <1>4, <1>5, <1>6 DEF Next, Step

\* What a step leaves of the table and of the readings.
LEMMA RowsStay ==
  ASSUME CloseInv, [Next]_vars, UNCHANGED threads
  PROVE  RowsAreEntitled'
<1>1. ASSUME NEW t \in Threads PROVE Entitled(threads'[t], Quietly(t)')
  BY QuietStays, OverIsOver DEF CloseInv, RowsAreEntitled
<1> QED
  BY <1>1 DEF RowsAreEntitled

LEMMA ReadingsStay ==
  ASSUME CloseInv, [Next]_vars, NEW c \in Calls, Running(c),
         calls'[c].input = calls[c].input, calls'[c].existing = calls[c].existing
  PROVE  /\ Refusal(calls'[c].input, calls'[c].existing) = None
         /\ Entitled(calls'[c].existing, Quietly(ThreadFor(c))')
<1>1. ThreadFor(c)' = ThreadFor(c)
  BY DEF ThreadFor
<1>2. /\ Refusal(calls[c].input, calls[c].existing) = None
      /\ Entitled(calls[c].existing, Quietly(ThreadFor(c)))
  BY DEF CloseInv, ReadingsAreEntitled
<1>3. \A d \in Calls : Settled(d) => calls'[d] = calls[d]
  BY OverIsOver DEF CloseInv
<1>4. Quietly(ThreadFor(c)) => Quietly(ThreadFor(c))'
  BY <1>1, <1>3 DEF Quietly, Settled, Abandons, ThreadFor
<1> QED
  BY <1>2, <1>4 DEF Entitled, UntoldIsAbandoned

\* A call that ends, or is lost, leaves no reading behind; one that posts
\* keeps its own.
LEMMA StepKeepsReadings ==
  ASSUME CloseInv, [Next]_vars
  PROVE  ReadingsAreEntitled'
<1>0. calls \in [Calls -> CallRecord]
  BY DEF CloseInv, TypeInv, TypeOK
<1> SUFFICES ASSUME NEW c \in Calls, Running(c)'
             PROVE  /\ Refusal(calls'[c].input, calls'[c].existing) = None
                    /\ Entitled(calls'[c].existing, Quietly(ThreadFor(c))')
  BY DEF ReadingsAreEntitled
<1> DEFINE Same(d) == /\ Running(d) /\ calls'[d].input = calls[d].input
                      /\ calls'[d].existing = calls[d].existing
<1>1. Same(c) => /\ Refusal(calls'[c].input, calls'[c].existing) = None
                 /\ Entitled(calls'[c].existing, Quietly(ThreadFor(c))')
  BY ReadingsStay
<1>2. ASSUME NEW d \in Calls, NEW call, calls' = [calls EXCEPT ![d] = call],
             call.pc \notin {"posting", "sent"}
      PROVE  Same(c)
  BY <1>0, <1>2 DEF Running
<1>3. ASSUME NEW d \in Calls, NEW in \in Inputs, Submit(d, in) PROVE Same(c)
  <2> DEFINE call == [Idle EXCEPT !.pc = "queued", !.input = in, !.after = tail, !.life = crashes]
  <2>1. call.pc = "queued" /\ calls' = [calls EXCEPT ![d] = call]
    BY <1>3 DEF Submit, Idle
  <2> HIDE DEF call
  <2>2. call.pc \notin {"posting", "sent"}
    BY <2>1
  <2> QED
    BY <1>2, <2>1, <2>2
<1>4. ASSUME NEW d \in Calls, Refuse(d) \/ HoldBack(d) \/ Record(d) \/ RollBack(d) \/ Fail(d)
      PROVE  Same(c)
  <2>1. PICK result : Settle(d, result)
    BY <1>4 DEF Refuse, HoldBack, Record, RollBack, Fail
  <2> DEFINE call == [Over(calls[d]) EXCEPT !.pc = "settled", !.result = result]
  <2>2. call.pc = "settled" /\ calls' = [calls EXCEPT ![d] = call]
    BY <1>0, <2>1 DEF Settle, Over, CallRecord
  <2> HIDE DEF call
  <2>3. call.pc \notin {"posting", "sent"}
    BY <2>2
  <2> QED
    BY <1>2, <2>2, <2>3
<1>5. ASSUME NEW d \in Calls, Post(d) PROVE Same(c)
  <2>1. calls[d].pc = "posting"
    BY <1>5 DEF Post, Land, Miss, Limited, Unsendable
  <2>2. \A e \in Calls : calls'[e].input = calls[e].input /\ calls'[e].existing = calls[e].existing
    <3>1. ASSUME NEW chat \in Chats, Land(d, chat)
          PROVE  \A e \in Calls : calls'[e].input = calls[e].input
                                  /\ calls'[e].existing = calls[e].existing
      BY <1>0, <3>1 DEF Land, Answered, CallRecord
    <3>2. ASSUME NEW chat \in Chats, calls' = [calls EXCEPT ![d] = Unreached(d, chat)]
          PROVE  \A e \in Calls : calls'[e].input = calls[e].input
                                  /\ calls'[e].existing = calls[e].existing
      BY <1>0, <3>2 DEF Unreached, Answered, CallRecord
    <3>3. ASSUME Unsendable(d)
          PROVE  \A e \in Calls : calls'[e].input = calls[e].input
                                  /\ calls'[e].existing = calls[e].existing
      BY <1>0, <3>3 DEF Unsendable, CallRecord
    <3> QED
      BY <1>5, <3>1, <3>2, <3>3 DEF Post, Miss, Limited
  <2>3. c # d => calls'[c] = calls[c]
    BY <1>0, <1>5 DEF Post, Land, Miss, Limited, Unsendable
  <2> QED
    BY <2>1, <2>2, <2>3 DEF Running
<1>6. ASSUME Crash PROVE Same(c)
  BY <1>0, <1>6 DEF Crash, Running, Over, CallRecord
<1>7. ASSUME Poll \/ Tick \/ UNCHANGED vars \/ \E wait \in Waits : PollLimited(wait)
      PROVE  Same(c)
  BY <1>7 DEF Poll, Tick, PollLimited, vars, Running
<1>8. ASSUME NEW d \in Calls, Begin(d)
      PROVE  /\ Refusal(calls'[c].input, calls'[c].existing) = None
             /\ Entitled(calls'[c].existing, Quietly(ThreadFor(c))')
  <2> DEFINE in == calls[d].input
             row == IF in.thread = None THEN NoThread ELSE threads[in.thread]
  <2>1. calls[d].pc = "queued" /\ Refusal(in, row) = None
    BY <1>8 DEF Begin
  <2>2. calls'[d].input = in /\ calls'[d].existing = row
    BY <1>0, <1>8 DEF Begin, CallRecord
  <2>3. CASE c # d
    <3>1. calls'[c] = calls[c]
      BY <1>0, <1>8, <2>3 DEF Begin
    <3>2. Same(c)
      BY <3>1 DEF Running
    <3> QED
      BY <1>1, <3>2
  <2>4. CASE c = d
    <3>1. in \in Inputs
      BY <2>1 DEF CloseInv, TypeInv, CallsAreReady, Active
    <3>2. CASE in.thread = None
      <4>1. row.status = "absent"
        BY <3>2 DEF NoThread
      <4> QED
        BY <2>1, <2>2, <2>4, <4>1
        DEF Entitled, Sound, TurnIsConsistent, ClosureIsAuthorized, OursIsEntitled,
            UntoldIsAbandoned
    <3>3. CASE in.thread # None
      <4>1. in.thread \in Threads /\ in.type \in InThreadTypes
        BY <3>1, <3>3, InputsAssumption DEF InThreadTypes, Types
      <4>2. ThreadFor(c)' = in.thread
        BY <2>2, <2>4, <4>1 DEF ThreadFor
      <4>3. Entitled(row, Quietly(in.thread))
        BY <3>3, <4>1 DEF CloseInv, RowsAreEntitled
      <4> HIDE DEF row, in
      <4>4. \A e \in Calls : Settled(e) => calls'[e] = calls[e]
        BY OverIsOver DEF CloseInv
      <4>5. Quietly(in.thread) => Quietly(ThreadFor(c))'
        BY <4>2, <4>4 DEF Quietly, Settled, Abandons, ThreadFor
      <4> QED
        BY <2>1, <2>2, <2>4, <4>3, <4>5 DEF Entitled, UntoldIsAbandoned
    <3> QED
      BY <3>2, <3>3
  <2> QED
    BY <2>3, <2>4
<1> HIDE DEF Same
<1> QED
  BY <1>1, <1>3, <1>4, <1>5, <1>6, <1>7, <1>8 DEF Next, Step

-----------------------------------------------------------------------------
\* The row a send writes.

LEMMA RowWrittenIsEntitled ==
  ASSUME CloseInv, NEW c \in Calls, Running(c), calls[c].input.type # "BROADCAST"
  PROVE  Entitled(RowWritten(c), Quietly(ThreadFor(c)))
<1> DEFINE in == calls[c].input
           row == calls[c].existing
           env == EnvelopeOf(c, Via(c))
<1>1. row \in ThreadRow /\ env \in Envelope
  BY EnvelopeOfType DEF CloseInv, TypeInv, CallsAreReady, Via
<1>2. env.from = Me /\ env.type = in.type /\ env.basis = in.basis
  BY DEF EnvelopeOf
<1>3. Refusal(in, row) = None /\ Entitled(row, Quietly(ThreadFor(c)))
  BY DEF CloseInv, ReadingsAreEntitled
<1>4. LoopPrevention(in, row) = None
  BY <1>3, NotRefusedRule
<1>5. RowWritten(c) = RowAfter(row, env)
  BY DEF RowWritten
<1> HIDE DEF in, row, env
<1> QED
  BY <1>1, <1>2, <1>3, <1>4, <1>5, OwnKeepsEntitled

\* An abandonment that reached nobody is one of ours on a thread of ours.
LEMMA AbandonedRow ==
  ASSUME CloseInv, NEW c \in Calls, Running(c), Abandons(c)
  PROVE  /\ RowWritten(c).basis = "abandoned"
         /\ RowWritten(c).from = Me /\ RowWritten(c).resolved_by = Me
<1> DEFINE in == calls[c].input
           row == calls[c].existing
           env == EnvelopeOf(c, Via(c))
<1>1. row \in ThreadRow
  BY DEF CloseInv, TypeInv, CallsAreReady
<1>2. env.from = Me /\ env.type = "RESOLVED" /\ env.basis = "abandoned"
  BY DEF EnvelopeOf, Abandons
<1>3. LoopPrevention(in, row) = None
  BY NotRefusedRule DEF CloseInv, ReadingsAreEntitled
<1>4. row.status = "open" /\ row.from = Me
  BY <1>1, <1>3, AllowedToSay DEF Abandons
<1>5. RowWritten(c) = RowAfter(row, env)
  BY DEF RowWritten, Abandons
<1> HIDE DEF in, row, env
<1>6. OutcomeOf(row, env) = "resolved"
  BY <1>2, <1>4 DEF OutcomeOf, Held, Refused
<1>7. RowAfter(row, env) = Resolved(row, env)
  BY <1>6, RowOfOutcome
<1>8. /\ Resolved(row, env).basis = env.basis /\ Resolved(row, env).from = row.from
      /\ Resolved(row, env).resolved_by = env.from
  BY <1>1 DEF Resolved, ThreadRow
<1> QED
  BY <1>2, <1>4, <1>5, <1>7, <1>8

LEMMA StepKeepsRows ==
  ASSUME CloseInv, [Next]_vars
  PROVE  RowsAreEntitled'
<1>0. threads \in [Threads -> ThreadRow] /\ calls \in [Calls -> CallRecord]
  BY DEF CloseInv, TypeInv, TypeOK
<1>1. ASSUME NEW t \in Threads PROVE Entitled(threads[t], Quietly(t)')
  BY QuietStays, OverIsOver DEF CloseInv, RowsAreEntitled
<1>2. ASSUME NEW t \in Threads, NEW row, threads' = [threads EXCEPT ![t] = row],
             Entitled(row, Quietly(t)')
      PROVE  RowsAreEntitled'
  <2>1. ASSUME NEW u \in Threads PROVE Entitled(threads'[u], Quietly(u)')
    <3>1. CASE u = t
      BY <1>0, <1>2, <3>1
    <3>2. CASE u # t
      <4>1. threads'[u] = threads[u]
        BY <1>0, <1>2, <3>2
      <4> QED
        BY <1>1, <4>1
    <3> QED
      BY <3>1, <3>2
  <2> QED
    BY <2>1 DEF RowsAreEntitled
<1>3. ASSUME UNCHANGED threads PROVE RowsAreEntitled'
  BY <1>3, RowsStay
<1>4. ASSUME NEW row, NEW t \in Threads, Entitled(row, Quietly(t)) PROVE Entitled(row, Quietly(t)')
  BY <1>4, QuietStays, OverIsOver DEF CloseInv
<1>5. ASSUME NEW c \in Calls, Record(c) PROVE RowsAreEntitled'
  <2>1. Running(c)
    BY <1>5 DEF Record, Running
  <2>2. CASE calls[c].input.type = "BROADCAST"
    BY <1>3, <1>5, <2>2 DEF Record
  <2>3. CASE calls[c].input.type # "BROADCAST"
    <3>1. threads' = [threads EXCEPT ![ThreadFor(c)] = RowWritten(c)]
      BY <1>5, <2>3 DEF Record
    <3>2. ThreadFor(c) \in Threads
      BY <2>1, ThreadForType DEF Running, Active, CloseInv
    <3>3. ASSUME NEW t, t = ThreadFor(c) PROVE RowsAreEntitled'
      <4>1. t \in Threads /\ Entitled(RowWritten(c), Quietly(t))
        BY <2>1, <2>3, <3>2, <3>3, RowWrittenIsEntitled
      <4>2. ASSUME NEW row, row = RowWritten(c) PROVE RowsAreEntitled'
        <5>1. Entitled(row, Quietly(t)')
          BY <1>4, <4>1, <4>2
        <5> QED
          BY <1>2, <3>1, <3>3, <4>1, <4>2, <5>1
      <4> QED
        BY <4>2
    <3> QED
      BY <3>3
  <2> QED
    BY <2>2, <2>3
<1>6. ASSUME NEW c \in Calls, Fail(c) PROVE RowsAreEntitled'
  <2>1. Running(c) /\ calls[c].landed = {}
    BY <1>6 DEF Fail, Running, Delivered
  <2>2. CASE ~Abandons(c)
    BY <1>3, <1>6, <2>2 DEF Fail
  <2>3. CASE Abandons(c)
    <3>1. threads' = [threads EXCEPT ![ThreadFor(c)] = [RowWritten(c) EXCEPT !.delivered = FALSE]]
      BY <1>6, <2>3 DEF Fail
    <3>2. ThreadFor(c) \in Threads
      BY <2>1, ThreadForType DEF Running, Active, CloseInv
    <3>3. calls'[c].pc = "settled" /\ calls'[c].input = calls[c].input /\ calls'[c].landed = {}
      <4>1. PICK result : Settle(c, result)
        BY <1>6 DEF Fail
      <4> QED
        BY <1>0, <2>1, <4>1 DEF Settle, Over, CallRecord
    <3>4. Quietly(ThreadFor(c))'
      BY <2>3, <3>3 DEF Quietly, Settled, Abandons, ThreadFor
    <3>5. ThreadFor(c)' = ThreadFor(c)
      BY <3>3 DEF ThreadFor
    <3>6. Entitled(RowWritten(c), Quietly(ThreadFor(c)))
      BY <2>1, <2>3, RowWrittenIsEntitled DEF Abandons
    <3>7. RowWritten(c) \in ThreadRow
      BY <2>1, RowWrittenType DEF CloseInv
    <3>8. ASSUME NEW t, NEW row, NEW written, t = ThreadFor(c), written = RowWritten(c),
                 row = [written EXCEPT !.delivered = FALSE]
          PROVE  RowsAreEntitled'
      <4>1. t \in Threads /\ threads' = [threads EXCEPT ![t] = row]
        BY <3>1, <3>2, <3>8
      <4>2. Quietly(t)'
        BY <3>4, <3>5, <3>8 DEF Quietly
      <4>3. /\ \A f \in {"status", "resolved_by", "awaiting", "from", "to", "to_user", "basis"} :
                 row[f] = written[f]
            /\ written.basis = "abandoned" /\ written.from = Me /\ written.resolved_by = Me
        BY <2>1, <2>3, <3>7, <3>8, AbandonedRow DEF ThreadRow
      <4>4. Entitled(row, Quietly(t)')
        BY <3>6, <3>8, <4>2, <4>3
        DEF Entitled, Sound, TurnIsConsistent, ClosureIsAuthorized, OursIsEntitled,
            UntoldIsAbandoned
      <4> QED
        BY <1>2, <4>1, <4>4
    <3> QED
      BY <3>8
  <2> QED
    BY <2>2, <2>3
<1>7. CASE Poll
  <2>1. ASSUME NEW m \in PeerSays, threads' = Admitted(m) PROVE RowsAreEntitled'
    <3>1. m \in Envelope /\ m.from # Me /\ m.thread \in Threads
      BY PeersAssumption DEF Envelope
    <3>2. CASE threads' = threads
      BY <1>3, <3>2
    <3>3. CASE threads' = [threads EXCEPT ![m.thread] = RowAfter(threads[m.thread], m)]
      <4>1. Entitled(threads[m.thread], Quietly(m.thread)')
        BY <1>1, <3>1
      <4>2. Entitled(RowAfter(threads[m.thread], m), Quietly(m.thread)')
        BY <1>0, <3>1, <4>1, PeerKeepsEntitled
      <4> QED
        BY <1>2, <3>1, <3>3, <4>2
    <3> QED
      BY <2>1, <3>2, <3>3 DEF Admitted
  <2> QED
    BY <1>3, <1>7, <2>1 DEF Poll
<1>8. ASSUME NEW c \in Calls, Refuse(c) \/ HoldBack(c) \/ Begin(c) \/ RollBack(c)
      PROVE  RowsAreEntitled'
  BY <1>3, <1>8 DEF Refuse, HoldBack, Begin, RollBack, ledger
<1>9. ASSUME NEW c \in Calls, Post(c) PROVE RowsAreEntitled'
  BY <1>3, <1>9 DEF Post, Land, Miss, Limited, Unsendable, ledger
<1>10. ASSUME NEW c \in Calls, NEW in \in Inputs, Submit(c, in) PROVE RowsAreEntitled'
  BY <1>3, <1>10 DEF Submit, ledger
<1>11. CASE Tick \/ Crash \/ UNCHANGED vars \/ \E wait \in Waits : PollLimited(wait)
  BY <1>3, <1>11 DEF Tick, Crash, PollLimited, vars, ledger
<1> QED
  BY <1>5, <1>6, <1>7, <1>8, <1>9, <1>10, <1>11 DEF Next, Step

LEMMA StepCloseInv == CloseInv /\ [Next]_vars => CloseInv'
BY StepTypeInv, StepKeepsRows, StepKeepsReadings DEF CloseInv

LEMMA InitCloseInv ==
  ASSUME \A start \in Initial : \A t \in Threads : Entitled(start[t], FALSE)
  PROVE  Init => CloseInv
<1> SUFFICES ASSUME Init PROVE CloseInv
  OBVIOUS
<1>1. \A t \in Threads : Entitled(threads[t], FALSE)
  BY DEF Init
<1>2. RowsAreEntitled
  BY <1>1 DEF RowsAreEntitled, Entitled, UntoldIsAbandoned
<1>3. ReadingsAreEntitled
  BY DEF Init, Idle, ReadingsAreEntitled, Running
<1> QED
  BY <1>2, <1>3, InitTypeInv DEF CloseInv

\* From entitled rows: every close in the ledger is by somebody with the right
\* to it, though ours were judged on a row that may have changed by the time
\* they were written, for any number of calls, peers' messages and crashes.
THEOREM ClosesStayEntitled ==
  ASSUME \A start \in Initial : \A t \in Threads : Entitled(start[t], FALSE)
  PROVE  Spec => []ClosesAreEntitled
<1>1. Init => CloseInv
  BY InitCloseInv
<1>2. CloseInv => ClosesAreEntitled
  BY DEF CloseInv, RowsAreEntitled, Entitled, Sound, OursIsEntitled, ClosesAreEntitled
<1> QED
  BY <1>1, <1>2, StepCloseInv, PTL DEF Spec

\* From rows that were told: a close that reached nobody is an abandonment of
\* ours, of a thread of ours, by a call that reached nobody.
THEOREM OnlyAbandonmentsAreUntold ==
  ASSUME \A start \in Initial : \A t \in Threads : Entitled(start[t], FALSE)
  PROVE  Spec => []UntoldCloseIsAbandonment
<1>1. Init => CloseInv
  BY InitCloseInv
<1>2. CloseInv => UntoldCloseIsAbandonment
  BY DEF CloseInv, RowsAreEntitled, Entitled, UntoldIsAbandoned, Quietly,
         UntoldCloseIsAbandonment
<1> QED
  BY <1>1, <1>2, StepCloseInv, PTL DEF Spec

-----------------------------------------------------------------------------
(* The daemon's own pace.                                                  *)

\* Whom a call has tried, or is about to try.
Told(c) == calls[c].left \cup calls[c].landed \cup calls[c].failed

\* Looked at from now, no window has forgotten a call of this life of the
\* daemon that it should still count.
Remembers(now) ==
  \A d \in Calls :
    calls[d].life = crashes /\ Told(d) # {} /\ calls[d].at <= now =>
      /\ now - calls[d].at < Minute => <<d, calls[d].at>> \in groupWindow
      /\ \A chat \in Told(d) :
           now - calls[d].at < Second => <<d, calls[d].at>> \in chatWindows[chat]

\* When and in which life of the daemon a call was.
Dated(c) ==
  /\ calls[c].at <= clock /\ calls[c].life <= crashes
  /\ Active(c) => calls[c].life = crashes
  /\ calls[c].pc \in {"idle", "queued"} => Told(c) = {}

WindowsAreWithinLimits ==
  /\ IsFiniteSet(groupWindow) /\ Cardinality(groupWindow) <= GroupLimit
  /\ \A chat \in Chats :
       IsFiniteSet(chatWindows[chat]) /\ Cardinality(chatWindows[chat]) <= ChatLimit

PaceInv ==
  /\ ChainInv
  /\ \A c \in Calls : Dated(c)
  /\ Remembers(clock)
  /\ \A c \in Calls : Running(c) => Remembers(calls[c].at)
  /\ WindowsAreWithinLimits

\* Only one call runs, so nobody else looks at the windows meanwhile.
LEMMA ChainIsSerial ==
  ASSUME ChainInv, NEW c \in Calls, NEW d \in Calls, Running(c),
         Running(d) \/ (calls[d].pc = "queued" /\ MayStart(d))
  PROVE  c = d
<1> SUFFICES ASSUME c # d PROVE FALSE
  OBVIOUS
<1>1. Active(c) /\ Active(d) /\ calls[c].pc # "queued"
  BY DEF Running, Active
<1>2. d < c => FALSE
  BY <1>1 DEF ChainInv, LaterCallsWait, WaitsBehind
<1>3. c < d
  BY <1>2, CallsAreNumbers
<1>4. calls[d].pc = "queued" => MayStart(d)
  BY DEF Running
<1>5. d < c
  BY <1>1, <1>4, StarterIsFirst
<1> QED
  BY <1>2, <1>5

\* A step that leaves the windows alone keeps the pace, if it begins no call.
LEMMA PaceStays ==
  ASSUME PaceInv, ChainInv', UNCHANGED <<groupWindow, chatWindows, crashes>>,
         clock' = clock \/ clock' = clock + 1,
         \A d \in Calls :
           \/ /\ calls'[d].at = calls[d].at /\ calls'[d].life = calls[d].life
              /\ Told(d)' \subseteq Told(d)
              /\ Running(d)' => Running(d)
              /\ Active(d)' => Active(d)
              /\ calls'[d].pc \in {"idle", "queued"} => Told(d)' = {}
           \/ /\ calls'[d].at = 0 /\ calls'[d].life = crashes
              /\ Told(d)' = {} /\ ~Running(d)'
  PROVE  PaceInv'
<1>1. /\ clock \in Nat /\ clock' \in Nat /\ crashes \in Nat /\ Minute \in Nat /\ Second \in Nat
      /\ \A d \in Calls : calls[d].at \in Nat /\ calls'[d].at \in Nat /\ calls[d].life \in Nat
  BY LimitsAssumption DEF PaceInv, ChainInv, TypeInv, TypeOK, CallRecord
<1>2. ASSUME NEW d \in Calls PROVE Dated(d)'
  <2>1. calls[d].at <= clock /\ calls[d].life <= crashes /\ (Active(d) => calls[d].life = crashes)
    BY DEF PaceInv, Dated
  <2> QED
    BY <1>1, <2>1 DEF Dated
<1>3. ASSUME NEW now \in Nat, NEW before \in Nat, before <= now, Remembers(before),
             \A d \in Calls : calls[d].at <= now => calls[d].at <= before
      PROVE  \A d \in Calls :
               calls'[d].life = crashes /\ Told(d)' # {} /\ calls'[d].at <= now =>
                 /\ now - calls'[d].at < Minute => <<d, calls'[d].at>> \in groupWindow
                 /\ \A chat \in Told(d)' :
                      now - calls'[d].at < Second => <<d, calls'[d].at>> \in chatWindows[chat]
  <2> SUFFICES ASSUME NEW d \in Calls,
                      calls'[d].life = crashes, Told(d)' # {}, calls'[d].at <= now
               PROVE  /\ now - calls'[d].at < Minute => <<d, calls'[d].at>> \in groupWindow
                      /\ \A chat \in Told(d)' :
                           now - calls'[d].at < Second => <<d, calls'[d].at>> \in chatWindows[chat]
    OBVIOUS
  <2>1. /\ calls'[d].at = calls[d].at /\ calls'[d].life = calls[d].life
        /\ Told(d)' \subseteq Told(d)
    OBVIOUS
  <2>2. calls[d].at <= before /\ before - calls[d].at <= now - calls[d].at
    BY <1>1, <1>3, <2>1
  <2>3. /\ before - calls[d].at < Minute => <<d, calls[d].at>> \in groupWindow
        /\ \A chat \in Told(d) :
             before - calls[d].at < Second => <<d, calls[d].at>> \in chatWindows[chat]
    BY <1>3, <2>1, <2>2 DEF Remembers
  <2> QED
    BY <1>1, <1>3, <2>1, <2>2, <2>3
<1>4. Remembers(clock)'
  <2>1. \A d \in Calls : calls[d].at <= clock
    BY DEF PaceInv, Dated
  <2>2. Remembers(clock) /\ clock <= clock'
    BY <1>1 DEF PaceInv
  <2> QED
    BY <1>1, <1>3, <2>1, <2>2 DEF Remembers
<1>5. ASSUME NEW c \in Calls, Running(c)' PROVE Remembers(calls[c].at)'
  <2>1. Running(c) /\ calls'[c].at = calls[c].at /\ Remembers(calls[c].at)
    BY <1>5 DEF PaceInv
  <2> QED
    BY <1>1, <1>3, <2>1 DEF Remembers
<1>6. WindowsAreWithinLimits'
  BY DEF PaceInv, WindowsAreWithinLimits
<1> QED
  BY <1>2, <1>4, <1>5, <1>6 DEF PaceInv

\* A message that is counted fits, and nothing that still counts is dropped.
LEMMA WindowTakesOne ==
  ASSUME NEW window, IsFiniteSet(window), NEW limit \in Nat, NEW width, NEW c,
         Cardinality(Pruned(window, width)) < limit
  PROVE  /\ IsFiniteSet(Pruned(window, width) \cup {<<c, clock>>})
         /\ Cardinality(Pruned(window, width) \cup {<<c, clock>>}) <= limit
<1>1. Pruned(window, width) \in SUBSET window
  BY DEF Pruned
<1>2. IsFiniteSet(Pruned(window, width))
  BY <1>1, FS_Subset
<1> DEFINE kept == Pruned(window, width)
           entry == <<c, clock>>
<1>3. Cardinality(kept) \in Nat /\ Cardinality(kept) < limit
  BY <1>2, FS_CardinalityType
<1> HIDE DEF kept, entry
<1>4. /\ IsFiniteSet(kept \cup {entry})
      /\ Cardinality(kept \cup {entry}) = IF entry \in kept THEN Cardinality(kept)
                                          ELSE Cardinality(kept) + 1
  BY <1>2, FS_AddElement DEF kept
<1>5. Cardinality(kept \cup {entry}) <= limit
  BY <1>3, <1>4
<1> QED
  BY <1>4, <1>5 DEF kept, entry

LEMMA BeginPace ==
  ASSUME PaceInv, ChainInv', NEW c \in Calls, Begin(c)
  PROVE  PaceInv'
<1> DEFINE in == calls[c].input
           row == IF in.thread = None THEN NoThread ELSE threads[in.thread]
           new == [calls[c] EXCEPT !.pc = "posting", !.existing = row,
                     !.before = retryUntil, !.at = clock,
                     !.left = {Group} \cup Recipients(in)]
           Named == {Group} \cup Recipients(in)
<1>1. /\ calls[c].pc = "queued" /\ MayStart(c) /\ Refusal(in, row) = None
      /\ WithinBudget(c) /\ RecordBudget(c)
      /\ calls' = [calls EXCEPT ![c] = new]
      /\ clock' = clock /\ crashes' = crashes
  BY DEF Begin, MustWait
<1>2. /\ calls \in [Calls -> CallRecord] /\ clock \in Nat /\ crashes \in Nat
      /\ Minute \in Nat /\ Second \in Nat /\ Minute > 0 /\ Second > 0
      /\ GroupLimit \in Nat /\ ChatLimit \in Nat
      /\ groupWindow \subseteq Calls \X Nat /\ chatWindows \in [Chats -> SUBSET (Calls \X Nat)]
  BY LimitsAssumption DEF PaceInv, ChainInv, TypeInv, TypeOK
<1>3. Named \subseteq Chats
  BY <1>1, NotRefusedIsKnown DEF Chats
<1>4. /\ calls'[c].pc = "posting" /\ calls'[c].at = clock
      /\ calls'[c].life = calls[c].life /\ calls'[c].left = Named
      /\ calls'[c].landed = calls[c].landed /\ calls'[c].failed = calls[c].failed
      /\ \A d \in Calls : d # c => calls'[d] = calls[d]
  BY <1>1, <1>2 DEF CallRecord
<1> HIDE DEF in, row, new
<1>5. Told(c)' = Named /\ \A d \in Calls : d # c => Told(d)' = Told(d)
  <2>1. Told(c) = {}
    BY <1>1 DEF PaceInv, Dated
  <2> QED
    BY <1>4, <2>1 DEF Told
<1>6. /\ groupWindow' = Pruned(groupWindow, Minute) \cup {<<c, clock>>}
      /\ \A chat \in Named :
           chatWindows'[chat] = Pruned(chatWindows[chat], Second) \cup {<<c, clock>>}
      /\ \A chat \in Chats \ Named : chatWindows'[chat] = chatWindows[chat]
  BY <1>1, <1>3 DEF RecordBudget, in
<1>7. /\ Cardinality(Pruned(groupWindow, Minute)) < GroupLimit
      /\ \A chat \in Named : Cardinality(Pruned(chatWindows[chat], Second)) < ChatLimit
  BY <1>1 DEF WithinBudget, in
<1> HIDE DEF Named
<1>8. ASSUME NEW d \in Calls PROVE Dated(d)'
  <2>1. Dated(d)
    BY DEF PaceInv
  <2>2. calls[c].life <= crashes /\ calls[c].life = crashes
    BY <1>1 DEF PaceInv, Dated, Active
  <2>3. CASE d = c
    BY <1>1, <1>2, <1>4, <2>2, <2>3 DEF Dated, Active
  <2>4. CASE d # c
    BY <1>1, <1>4, <1>5, <2>1, <2>4 DEF Dated, Active
  <2> QED
    BY <2>3, <2>4
<1>9. Remembers(clock)'
  <2> SUFFICES ASSUME NEW d \in Calls, calls'[d].life = crashes, Told(d)' # {},
                      calls'[d].at <= clock
               PROVE  /\ clock - calls'[d].at < Minute => <<d, calls'[d].at>> \in groupWindow'
                      /\ \A chat \in Told(d)' :
                           clock - calls'[d].at < Second
                             => <<d, calls'[d].at>> \in chatWindows'[chat]
    BY <1>1 DEF Remembers
  <2>1. CASE d = c
    BY <1>4, <1>5, <1>6, <2>1
  <2>2. CASE d # c
    <3>1. calls'[d] = calls[d] /\ Told(d)' = Told(d) /\ Told(d) \subseteq Chats
      BY <1>2, <1>4, <1>5, <2>2 DEF Told, CallRecord
    <3>2. /\ clock - calls[d].at < Minute => <<d, calls[d].at>> \in groupWindow
          /\ \A chat \in Told(d) :
               clock - calls[d].at < Second => <<d, calls[d].at>> \in chatWindows[chat]
      BY <3>1 DEF PaceInv, Remembers
    <3>3. clock - calls[d].at < Minute => <<d, calls[d].at>> \in Pruned(groupWindow, Minute)
      BY <3>2 DEF Pruned
    <3>4. ASSUME NEW chat \in Told(d), clock - calls[d].at < Second
          PROVE  <<d, calls[d].at>> \in chatWindows'[chat]
      <4>1. <<d, calls[d].at>> \in Pruned(chatWindows[chat], Second)
        BY <3>2, <3>4 DEF Pruned
      <4>2. CASE chat \in Named
        BY <1>6, <4>1, <4>2
      <4>3. CASE chat \notin Named
        BY <1>6, <3>1, <3>2, <3>4, <4>3
      <4> QED
        BY <4>2, <4>3
    <3> QED
      BY <1>6, <3>1, <3>3, <3>4
  <2> QED
    BY <2>1, <2>2
<1>10. ASSUME NEW d \in Calls, Running(d)' PROVE Remembers(calls[d].at)'
  <2>1. d = c
    <3> SUFFICES ASSUME d # c PROVE FALSE
      OBVIOUS
    <3>1. Running(d)
      BY <1>4, <1>10 DEF Running
    <3> QED
      BY <1>1, <3>1, ChainIsSerial DEF PaceInv
  <2>2. calls'[d].at = clock'
    BY <1>1, <1>4, <2>1
  <2> QED
    BY <1>9, <2>2 DEF Remembers
<1>11. WindowsAreWithinLimits'
  <2>1. IsFiniteSet(groupWindow') /\ Cardinality(groupWindow') <= GroupLimit
    BY <1>2, <1>6, <1>7, WindowTakesOne DEF PaceInv, WindowsAreWithinLimits
  <2>2. ASSUME NEW chat \in Chats
        PROVE  IsFiniteSet(chatWindows'[chat]) /\ Cardinality(chatWindows'[chat]) <= ChatLimit
    <3>1. IsFiniteSet(chatWindows[chat]) /\ Cardinality(chatWindows[chat]) <= ChatLimit
      BY DEF PaceInv, WindowsAreWithinLimits
    <3>2. CASE chat \in Named
      <4> DEFINE window == chatWindows[chat]
      <4>1. /\ IsFiniteSet(window) /\ Cardinality(Pruned(window, Second)) < ChatLimit
            /\ chatWindows'[chat] = Pruned(window, Second) \cup {<<c, clock>>}
        BY <1>6, <1>7, <3>1, <3>2
      <4> HIDE DEF window
      <4>2. /\ IsFiniteSet(Pruned(window, Second) \cup {<<c, clock>>})
            /\ Cardinality(Pruned(window, Second) \cup {<<c, clock>>}) <= ChatLimit
        BY <1>2, <4>1, WindowTakesOne
      <4> QED
        BY <4>1, <4>2
    <3>3. CASE chat \notin Named
      BY <1>6, <3>1, <3>3
    <3> QED
      BY <3>2, <3>3
  <2> QED
    BY <2>1, <2>2 DEF WindowsAreWithinLimits
<1> QED
  BY <1>8, <1>9, <1>10, <1>11 DEF PaceInv

\* A daemon that starts again starts with empty windows, and no call of its.
LEMMA CrashPace ==
  ASSUME PaceInv, ChainInv', Crash
  PROVE  PaceInv'
<1>1. /\ crashes \in Nat /\ clock \in Nat /\ calls \in [Calls -> CallRecord]
      /\ GroupLimit \in Nat /\ ChatLimit \in Nat
  BY LimitsAssumption DEF PaceInv, ChainInv, TypeInv, TypeOK
<1>2. /\ crashes' = crashes + 1 /\ clock' = clock /\ groupWindow' = {}
      /\ \A chat \in Chats : chatWindows'[chat] = {}
  BY DEF Crash
<1>3. \A d \in Calls :
        /\ calls'[d].at = calls[d].at /\ calls'[d].life = calls[d].life
        /\ calls'[d].pc \notin {"queued", "posting", "sent"}
        /\ calls'[d].pc = "idle" => calls'[d] = calls[d]
  BY <1>1 DEF Crash, Over, CallRecord
<1>4. \A d \in Calls : calls'[d].life < crashes'
  <2>1. \A d \in Calls : calls[d].life \in Nat /\ calls[d].life <= crashes
    BY <1>1 DEF PaceInv, Dated, CallRecord
  <2> QED
    BY <1>1, <1>2, <1>3, <2>1
<1>5. \A d \in Calls : Dated(d)'
  <2> TAKE d \in Calls
  <2>1. calls[d].at <= clock /\ (calls[d].pc = "idle" => Told(d) = {})
    BY DEF PaceInv, Dated
  <2>2. calls'[d].pc \in {"idle", "queued"} => Told(d)' = {}
    BY <1>3, <2>1 DEF Told
  <2>3. crashes' \in Nat /\ calls'[d].life \in Nat
    BY <1>1, <1>2, <1>3 DEF CallRecord
  <2> QED
    BY <1>2, <1>3, <1>4, <2>1, <2>2, <2>3 DEF Dated, Active
<1>6. \A d \in Calls : calls'[d].life # crashes'
  <2>1. crashes' \in Nat /\ \A d \in Calls : calls'[d].life \in Nat
    BY <1>1, <1>2, <1>3 DEF CallRecord
  <2> QED
    BY <1>4, <2>1
<1>7. Remembers(clock)' /\ \A d \in Calls : ~Running(d)'
  BY <1>3, <1>6 DEF Remembers, Running
<1>8. WindowsAreWithinLimits'
  BY <1>1, <1>2, FS_EmptySet DEF WindowsAreWithinLimits
<1> QED
  BY <1>5, <1>7, <1>8 DEF PaceInv

\* An answer, as the windows see it: nobody new is tried.
GoesOn(c, call) ==
  /\ calls' = [calls EXCEPT ![c] = call]
  /\ call.at = calls[c].at /\ call.life = calls[c].life
  /\ call.left \cup call.landed \cup call.failed \subseteq Told(c)
  /\ call.pc \in {"posting", "sent"}

LEMMA StepPace == PaceInv /\ [Next]_vars => PaceInv'
<1> SUFFICES ASSUME PaceInv, [Next]_vars PROVE PaceInv'
  OBVIOUS
<1>0. /\ ChainInv' /\ calls \in [Calls -> CallRecord]
      /\ \A c \in Calls : calls[c].pc \in {"idle", "queued"} => Told(c) = {}
  BY StepChain DEF PaceInv, ChainInv, TypeInv, TypeOK, Dated
<1>1. ASSUME UNCHANGED <<calls, groupWindow, chatWindows, crashes>>,
             clock' = clock \/ clock' = clock + 1
      PROVE  PaceInv'
  <2>1. \A d \in Calls : /\ Told(d)' = Told(d) /\ calls'[d] = calls[d]
                         /\ Running(d)' = Running(d) /\ Active(d)' = Active(d)
    BY <1>1 DEF Told, Running, Active
  <2> QED
    BY <1>0, <1>1, <2>1, PaceStays
<1>2. ASSUME NEW c \in Calls, NEW call \in CallRecord,
             calls' = [calls EXCEPT ![c] = call],
             UNCHANGED <<groupWindow, chatWindows, crashes, clock>>,
             call.at = calls[c].at, call.life = calls[c].life,
             call.left \cup call.landed \cup call.failed \subseteq Told(c),
             call.pc \in {"posting", "sent"} => Running(c),
             call.pc \in {"posting", "sent", "settled"}
      PROVE  PaceInv'
  <2>1. calls'[c] = call /\ \A d \in Calls : d # c => calls'[d] = calls[d]
    BY <1>0, <1>2
  <2>2. ASSUME NEW d \in Calls
        PROVE  /\ calls'[d].at = calls[d].at /\ calls'[d].life = calls[d].life
               /\ Told(d)' \subseteq Told(d)
               /\ Running(d)' => Running(d)
               /\ Active(d)' => Active(d)
               /\ calls'[d].pc \in {"idle", "queued"} => Told(d)' = {}
    <3>1. CASE d = c
      <4>1. Told(c)' = call.left \cup call.landed \cup call.failed
        BY <2>1 DEF Told
      <4> QED
        BY <1>2, <2>1, <3>1, <4>1 DEF Running, Active
    <3>2. CASE d # c
      BY <1>0, <2>1, <3>2 DEF Told, Running, Active
    <3> QED
      BY <3>1, <3>2
  <2> QED
    BY <1>0, <1>2, <2>2, PaceStays
<1>3. ASSUME NEW c \in Calls, NEW in \in Inputs, Submit(c, in) PROVE PaceInv'
  <2>1. /\ calls'[c].pc = "queued" /\ calls'[c].at = 0 /\ calls'[c].life = crashes
        /\ calls'[c].left = {} /\ calls'[c].landed = {} /\ calls'[c].failed = {}
        /\ \A d \in Calls : d # c => calls'[d] = calls[d]
        /\ UNCHANGED <<groupWindow, chatWindows, crashes, clock>>
    BY <1>0, <1>3 DEF Submit, Idle
  <2>2. ASSUME NEW d \in Calls
        PROVE  \/ /\ calls'[d].at = calls[d].at /\ calls'[d].life = calls[d].life
                  /\ Told(d)' \subseteq Told(d)
                  /\ Running(d)' => Running(d)
                  /\ Active(d)' => Active(d)
                  /\ calls'[d].pc \in {"idle", "queued"} => Told(d)' = {}
               \/ /\ calls'[d].at = 0 /\ calls'[d].life = crashes
                  /\ Told(d)' = {} /\ ~Running(d)'
    <3>1. CASE d = c
      BY <2>1, <3>1 DEF Told, Running
    <3>2. CASE d # c
      BY <1>0, <2>1, <3>2 DEF Told, Running, Active
    <3> QED
      BY <3>1, <3>2
  <2> QED
    BY <1>0, <2>1, <2>2, PaceStays
<1>4. ASSUME NEW c \in Calls, Refuse(c) \/ HoldBack(c) \/ Record(c) \/ RollBack(c) \/ Fail(c)
      PROVE  PaceInv'
  <2>1. /\ UNCHANGED <<groupWindow, chatWindows, crashes, clock>>
        /\ \E result : Settle(c, result)
    BY <1>4 DEF Refuse, HoldBack, Record, RollBack, Fail
  <2>2. PICK result : Settle(c, result)
    BY <2>1
  <2> DEFINE call == [Over(calls[c]) EXCEPT !.pc = "settled", !.result = result]
  <2>3. calls' = [calls EXCEPT ![c] = call]
    BY <2>2 DEF Settle
  <2>4. /\ call.at = calls[c].at /\ call.life = calls[c].life /\ call.pc = "settled"
        /\ call.left = {} /\ call.landed = calls[c].landed /\ call.failed = calls[c].failed
    BY <1>0 DEF Over, CallRecord
  <2>5. call \in CallRecord
    <3>1. calls'[c] = call
      BY <1>0, <2>3
    <3> HIDE DEF call
    <3> QED
      BY <1>0, <3>1 DEF ChainInv, TypeInv, TypeOK
  <2> HIDE DEF call
  <2>6. call.left \cup call.landed \cup call.failed \subseteq Told(c)
    BY <2>4 DEF Told
  <2> QED
    BY <1>2, <2>1, <2>3, <2>4, <2>5, <2>6
<1>5. ASSUME NEW c \in Calls, Post(c) PROVE PaceInv'
  <2>1. calls[c].pc = "posting" /\ Running(c)
    BY <1>5 DEF Post, Land, Miss, Limited, Unsendable, Running
  <2>2. UNCHANGED <<groupWindow, chatWindows, crashes, clock>>
    BY <1>5 DEF Post, Land, Miss, Limited, Unsendable, memory
  <2>3. \E call : GoesOn(c, call)
    <3>1. ASSUME NEW chat \in Chats, Land(c, chat)
          PROVE  \E call : GoesOn(c, call)
      <4> DEFINE call == [Answered(c, chat) EXCEPT !.landed = @ \cup {chat}]
      <4>1. calls' = [calls EXCEPT ![c] = call] /\ chat \in calls[c].left
        BY <3>1 DEF Land, NextChats
      <4>2. /\ call.at = calls[c].at /\ call.life = calls[c].life
            /\ call.left = calls[c].left \ {chat}
            /\ call.landed = calls[c].landed \cup {chat} /\ call.failed = calls[c].failed
            /\ call.pc \in {"posting", "sent"}
        BY <1>0, <2>1 DEF Answered, CallRecord
      <4> HIDE DEF call
      <4>3. call.left \cup call.landed \cup call.failed \subseteq Told(c)
        BY <4>1, <4>2 DEF Told
      <4> QED
        BY <4>1, <4>2, <4>3 DEF GoesOn
    <3>2. ASSUME NEW chat \in Chats, chat \in NextChats(c),
                 calls' = [calls EXCEPT ![c] = Unreached(c, chat)]
          PROVE  \E call : GoesOn(c, call)
      <4> DEFINE call == Unreached(c, chat)
      <4>1. calls' = [calls EXCEPT ![c] = call] /\ chat \in calls[c].left
        BY <3>2 DEF NextChats
      <4>2. /\ call.at = calls[c].at /\ call.life = calls[c].life
            /\ call.left = calls[c].left \ {chat}
            /\ call.landed = calls[c].landed /\ call.failed = calls[c].failed \cup {chat}
            /\ call.pc \in {"posting", "sent"}
        BY <1>0, <2>1 DEF Unreached, Answered, CallRecord
      <4> HIDE DEF call
      <4>3. call.left \cup call.landed \cup call.failed \subseteq Told(c)
        BY <4>1, <4>2 DEF Told
      <4> QED
        BY <4>1, <4>2, <4>3 DEF GoesOn
    <3>3. ASSUME Unsendable(c)
          PROVE  \E call : GoesOn(c, call)
      <4> DEFINE call == [calls[c] EXCEPT !.left = {}, !.pc = "sent", !.failed = {Group}]
      <4>1. calls' = [calls EXCEPT ![c] = call] /\ Group \in calls[c].left
        BY <3>3 DEF Unsendable
      <4>2. /\ call.at = calls[c].at /\ call.life = calls[c].life
            /\ call.left = {} /\ call.landed = calls[c].landed /\ call.failed = {Group}
            /\ call.pc = "sent"
        BY <1>0 DEF CallRecord
      <4> HIDE DEF call
      <4>3. call.left \cup call.landed \cup call.failed \subseteq Told(c)
        BY <4>1, <4>2 DEF Told
      <4> QED
        BY <4>1, <4>2, <4>3 DEF GoesOn
    <3> QED
      BY <1>5, <3>1, <3>2, <3>3 DEF Post, Miss, Limited
  <2>4. PICK call : GoesOn(c, call)
    BY <2>3
  <2>5. call \in CallRecord
    <3>1. calls'[c] = call
      BY <1>0, <2>4 DEF GoesOn
    <3> QED
      BY <1>0, <3>1 DEF ChainInv, TypeInv, TypeOK
  <2> QED
    BY <1>2, <2>1, <2>2, <2>4, <2>5 DEF GoesOn
<1>6. CASE Tick
  BY <1>1, <1>6 DEF Tick, memory
<1>7. CASE Poll \/ UNCHANGED vars \/ \E wait \in Waits : PollLimited(wait)
  BY <1>1, <1>7 DEF Poll, PollLimited, memory, vars
<1> QED
  BY <1>0, <1>3, <1>4, <1>5, <1>6, <1>7, BeginPace, CrashPace DEF Next, Step

\* One entry for each call that a window counts.
LEMMA OneEntryEach ==
  ASSUME NEW S \in SUBSET Calls, NEW window, IsFiniteSet(window), NEW limit \in Nat,
         Cardinality(window) <= limit,
         \A d \in S : <<d, calls[d].at>> \in window
  PROVE  Cardinality(S) <= limit
<1> DEFINE entry == [d \in S |-> <<d, calls[d].at>>]
<1>1. entry \in Injection(S, window)
  <2>1. entry \in [S -> window]
    OBVIOUS
  <2>2. \A d, e \in S : entry[d] = entry[e] => d = e
    OBVIOUS
  <2> QED
    BY <2>1, <2>2 DEF Injection, IsInjective
<1>2. IsFiniteSet(S) /\ Cardinality(S) <= Cardinality(window)
  BY <1>1, FS_Injection
<1>3. Cardinality(S) \in Nat /\ Cardinality(window) \in Nat
  BY <1>2, FS_CardinalityType
<1> QED
  BY <1>2, <1>3

LEMMA InitPace == Init => PaceInv
<1> SUFFICES ASSUME Init PROVE PaceInv
  OBVIOUS
<1>1. /\ \A c \in Calls : calls[c] = Idle
      /\ clock = 0 /\ crashes = 0 /\ groupWindow = {}
      /\ \A chat \in Chats : chatWindows[chat] = {}
  BY DEF Init
<1>2. \A c \in Calls : Told(c) = {} /\ ~Running(c) /\ ~Active(c)
  BY <1>1 DEF Told, Running, Active, Idle
<1>3. \A c \in Calls : Dated(c)
  BY <1>1, <1>2 DEF Dated, Idle
<1>4. Remembers(clock)
  BY <1>2 DEF Remembers
<1>5. WindowsAreWithinLimits
  BY <1>1, LimitsAssumption, FS_EmptySet DEF WindowsAreWithinLimits
<1> QED
  BY <1>2, <1>3, <1>4, <1>5, InitChain DEF PaceInv

\* Over one life of the daemon no minute holds more messages to the group and
\* no second more to a chat than its limit, whatever the limits, the calls and
\* their recipients, and whatever became of each of them.
THEOREM ThePaceIsKept == Spec => []PaceIsKept
<1>1. Init => PaceInv
  BY InitPace
<1>2. PaceInv => PaceIsKept
  <2> SUFFICES ASSUME PaceInv, NEW c \in Calls, Running(c)
               PROVE  LET Within(width) == {d \in Calls : /\ calls[d].life = calls[c].life
                                          /\ calls[d].landed \cup calls[d].failed # {}
                                          /\ calls[d].at <= calls[c].at
                                          /\ calls[c].at - calls[d].at < width}
                          To(chat) == {d \in Within(Second) :
                                         chat \in calls[d].landed \cup calls[d].failed}
                      IN /\ Cardinality(Within(Minute)) <= GroupLimit
                         /\ \A chat \in Chats : Cardinality(To(chat)) <= ChatLimit
    BY DEF PaceIsKept, Running
  <2> DEFINE Within(width) == {d \in Calls : /\ calls[d].life = calls[c].life
                                          /\ calls[d].landed \cup calls[d].failed # {}
                                          /\ calls[d].at <= calls[c].at
                                          /\ calls[c].at - calls[d].at < width}
             To(chat) == {d \in Within(Second) : chat \in calls[d].landed \cup calls[d].failed}
  <2>1. calls[c].life = crashes /\ Remembers(calls[c].at)
    BY DEF PaceInv, Dated, Running, Active
  <2>2. GroupLimit \in Nat /\ ChatLimit \in Nat
    BY LimitsAssumption
  <2>3. Cardinality(Within(Minute)) <= GroupLimit
    <3>1. \A d \in Within(Minute) : <<d, calls[d].at>> \in groupWindow
      BY <2>1 DEF Remembers, Told
    <3>2. Within(Minute) \in SUBSET Calls
      OBVIOUS
    <3> HIDE DEF Within
    <3> QED
      BY <2>2, <3>1, <3>2, OneEntryEach DEF PaceInv, WindowsAreWithinLimits
  <2>4. ASSUME NEW chat \in Chats PROVE Cardinality(To(chat)) <= ChatLimit
    <3> DEFINE window == chatWindows[chat]
    <3>1. \A d \in To(chat) : <<d, calls[d].at>> \in window
      BY <2>1 DEF Remembers, Told
    <3>2. To(chat) \in SUBSET Calls
      OBVIOUS
    <3>3. IsFiniteSet(window) /\ Cardinality(window) <= ChatLimit
      BY DEF PaceInv, WindowsAreWithinLimits
    <3> HIDE DEF To, Within, window
    <3> QED
      BY <2>2, <3>1, <3>2, <3>3, OneEntryEach
  <2> QED
    BY <2>3, <2>4
<1> QED
  BY <1>1, <1>2, StepPace, PTL DEF Spec

-----------------------------------------------------------------------------
(* Our own words.                                                          *)

\* The history of a row drops nothing when it gets one entry more.
HasRoom(row) == ~(Cardinality(row.history) >= MaxHistory)
HistoriesHaveRoom == \A t \in Threads : HasRoom(threads[t])

InThread(c) == calls[c].input.type \in InThreadTypes
NotOver(c) == calls[c].pc = "idle" \/ Active(c)
Unsaid(c) == calls[c].landed \cup calls[c].failed = {}

\* A message of ours that the client was told was sent, and a row that has it.
IsWord(c) == Reported(c) /\ InThread(c)
Holds(row, c) == Held(row) /\ \E e \in row.history : e.eid = c

\* The thread a call may yet open holds nothing, also not our words; a call
\* that runs in a thread has read every word of ours there.
UnsaidIsUnheld == \A c \in Calls : Unsaid(c) => ~Held(threads[ThreadOf[c]])

ReadingsAreOfThreads ==
  \A c \in Calls : Running(c) /\ InThread(c) =>
    /\ Held(threads[ThreadFor(c)]) /\ Held(calls[c].existing)
    /\ HasRoom(calls[c].existing)

WordsAreHeld ==
  \A d \in Calls :
    IsWord(d) => ThreadFor(d) \in Threads /\ Holds(threads[ThreadFor(d)], d)

WordsAreElsewhere ==
  \A c, d \in Calls : IsWord(d) /\ NotOver(c) => ThreadFor(d) # ThreadOf[c]

WordsAreRead ==
  \A c, d \in Calls :
    IsWord(d) /\ Running(c) /\ ThreadFor(c) = ThreadFor(d) => Holds(calls[c].existing, d)

WordInv ==
  /\ PaceInv /\ ReachInv
  /\ UnsaidIsUnheld /\ ReadingsAreOfThreads
  /\ WordsAreHeld /\ WordsAreElsewhere /\ WordsAreRead

\* With room, an envelope adds to the history of a row it does not open.
LEMMA HistoryGrows ==
  ASSUME NEW row \in ThreadRow, NEW env \in Envelope, HasRoom(row),
         OutcomeOf(row, env) # "opened"
  PROVE  /\ row.history \subseteq RowAfter(row, env).history
         /\ Held(row) => Held(RowAfter(row, env))
<1>1. row.history \subseteq AppendHistory(row, env)
  BY DEF AppendHistory, HasRoom
<1>2. /\ Acked(row, env).history = AppendHistory(row, env)
      /\ Replied(row, env).history = AppendHistory(row, env)
      /\ Resolved(row, env).history = AppendHistory(row, env)
  BY DEF Acked, Replied, Resolved, ThreadRow
<1>3. /\ Acked(row, env).status = row.status /\ Replied(row, env).status = row.status
      /\ Resolved(row, env).status = "resolved"
  BY DEF Acked, Replied, Resolved, ThreadRow
<1> QED
  BY <1>1, <1>2, <1>3, RowOfOutcome, OutcomeType DEF Outcomes, Transitions, Held

\* What we say in a thread we hold goes into its history.
LEMMA OwnWordIsHeard ==
  ASSUME NEW row \in ThreadRow, NEW env \in Envelope, Held(row),
         env.type \in InThreadTypes, env.from = Me
  PROVE  /\ OutcomeOf(row, env) # "opened"
         /\ \E e \in RowAfter(row, env).history : e.eid = env.eid
<1>1. OutcomeOf(row, env) \in {"acked", "replied", "resolved"}
  BY DEF OutcomeOf, Refused, InThreadTypes
<1>2. \E e \in AppendHistory(row, env) : e.eid = env.eid
  <2> DEFINE entry == [eid |-> env.eid, type |-> env.type, from |-> env.from, at |-> env.at]
  <2>1. entry \in AppendHistory(row, env) /\ entry.eid = env.eid
    BY DEF AppendHistory
  <2> HIDE DEF entry
  <2> QED
    BY <2>1
<1>3. /\ Acked(row, env).history = AppendHistory(row, env)
      /\ Replied(row, env).history = AppendHistory(row, env)
      /\ Resolved(row, env).history = AppendHistory(row, env)
  BY DEF Acked, Replied, Resolved, ThreadRow
<1> QED
  BY <1>1, <1>2, <1>3, RowOfOutcome

\* The row a call writes in a thread keeps the words of the row it read, and
\* adds its own.
LEMMA RowWrittenHolds ==
  ASSUME WordInv, NEW c \in Calls, Running(c), InThread(c)
  PROVE  /\ Holds(RowWritten(c), c)
         /\ \A d \in Calls : Holds(calls[c].existing, d) => Holds(RowWritten(c), d)
<1> DEFINE row == calls[c].existing
           env == EnvelopeOf(c, Via(c))
<1>1. row \in ThreadRow /\ Held(row) /\ HasRoom(row)
  BY DEF WordInv, ReadingsAreOfThreads, ReachInv, TypeInv, CallsAreReady
<1>2. env \in Envelope
  BY EnvelopeOfType DEF Via, WordInv, ReachInv
<1>3. env.type \in InThreadTypes /\ env.from = Me /\ env.eid = c
  BY DEF EnvelopeOf, InThread
<1>4. RowWritten(c) = RowAfter(row, env)
  BY DEF RowWritten, InThread, InThreadTypes
<1> HIDE DEF row, env
<1>5. /\ OutcomeOf(row, env) # "opened"
      /\ \E e \in RowAfter(row, env).history : e.eid = c
  BY <1>1, <1>2, <1>3, OwnWordIsHeard
<1>6. row.history \subseteq RowAfter(row, env).history /\ Held(RowAfter(row, env))
  BY <1>1, <1>2, <1>5, HistoryGrows
<1>7. \A d \in Calls : Holds(row, d) => Holds(RowAfter(row, env), d)
  BY <1>6 DEF Holds
<1>8. Holds(RowAfter(row, env), c)
  BY <1>5, <1>6 DEF Holds
<1> QED
  BY <1>4, <1>7, <1>8 DEF row

\* What a step must leave of a call that neither reads nor writes a thread.
GoesOnSilently(d) ==
  /\ IsWord(d)' => IsWord(d) /\ ThreadFor(d)' = ThreadFor(d)
  /\ Running(d)' => /\ Running(d) /\ ThreadFor(d)' = ThreadFor(d)
                    /\ InThread(d)' = InThread(d)
                    /\ calls'[d].existing = calls[d].existing
  /\ NotOver(d)' => NotOver(d)
  /\ Unsaid(d)' => Unsaid(d)

\* Threads may grow, with what peers say.
LEMMA WordsStay ==
  ASSUME WordInv, PaceInv', ReachInv',
         \A t \in Threads : Held(threads[t]) =>
           /\ Held(threads'[t])
           /\ threads[t].history \subseteq threads'[t].history,
         \A c \in Calls : Unsaid(c) => ~Held(threads'[ThreadOf[c]]),
         \A d \in Calls : GoesOnSilently(d)
  PROVE  WordInv'
<1>1. UnsaidIsUnheld'
  BY DEF GoesOnSilently, UnsaidIsUnheld
<1>2. ReadingsAreOfThreads'
  <2> SUFFICES ASSUME NEW c \in Calls, Running(c)', InThread(c)'
               PROVE  /\ Held(threads'[ThreadFor(c)']) /\ Held(calls'[c].existing)
                      /\ HasRoom(calls'[c].existing)
    BY DEF ReadingsAreOfThreads
  <2>1. /\ Running(c) /\ InThread(c) /\ ThreadFor(c)' = ThreadFor(c)
        /\ calls'[c].existing = calls[c].existing
    BY DEF GoesOnSilently
  <2>2. ThreadFor(c) \in Threads
    BY <2>1, ThreadForType DEF Running, Active, WordInv, ReachInv
  <2> QED
    BY <2>1, <2>2 DEF WordInv, ReadingsAreOfThreads
<1>3. WordsAreHeld'
  <2> SUFFICES ASSUME NEW d \in Calls, IsWord(d)'
               PROVE  ThreadFor(d)' \in Threads /\ Holds(threads'[ThreadFor(d)'], d)
    BY DEF WordsAreHeld
  <2>1. IsWord(d) /\ ThreadFor(d)' = ThreadFor(d)
    BY DEF GoesOnSilently
  <2>2. ThreadFor(d) \in Threads /\ Holds(threads[ThreadFor(d)], d)
    BY <2>1 DEF WordInv, WordsAreHeld
  <2> QED
    BY <2>1, <2>2 DEF Holds
<1>4. WordsAreElsewhere'
  BY DEF GoesOnSilently, WordInv, WordsAreElsewhere
<1>5. WordsAreRead'
  <2> SUFFICES ASSUME NEW c \in Calls, NEW d \in Calls, IsWord(d)', Running(c)',
                      ThreadFor(c)' = ThreadFor(d)'
               PROVE  Holds(calls'[c].existing, d)
    BY DEF WordsAreRead
  <2>1. /\ IsWord(d) /\ Running(c) /\ ThreadFor(c) = ThreadFor(d)
        /\ calls'[c].existing = calls[c].existing
    BY DEF GoesOnSilently
  <2> QED
    BY <2>1 DEF WordInv, WordsAreRead
<1> QED
  BY <1>1, <1>2, <1>3, <1>4, <1>5 DEF WordInv

\* The call that begins reads every word of ours in its thread.
LEMMA BeginWords ==
  ASSUME WordInv, PaceInv', ReachInv', HistoriesHaveRoom, NEW c \in Calls, Begin(c)
  PROVE  WordInv'
<1> DEFINE in == calls[c].input
           row == IF in.thread = None THEN NoThread ELSE threads[in.thread]
           new == [calls[c] EXCEPT !.pc = "posting", !.existing = row,
                     !.before = retryUntil, !.at = clock,
                     !.left = {Group} \cup Recipients(in)]
<1>1. /\ calls[c].pc = "queued" /\ MayStart(c) /\ Refusal(in, row) = None
      /\ calls' = [calls EXCEPT ![c] = new] /\ threads' = threads
  BY DEF Begin, ledger
<1>2. calls \in [Calls -> CallRecord] /\ in \in Inputs
  BY <1>1 DEF WordInv, ReachInv, TypeInv, TypeOK, CallsAreReady, Active
<1>3. /\ calls'[c].pc = "posting" /\ calls'[c].existing = row /\ calls'[c].input = in
      /\ calls'[c].landed = calls[c].landed /\ calls'[c].failed = calls[c].failed
      /\ calls'[c].result = calls[c].result
      /\ \A d \in Calls : d # c => calls'[d] = calls[d]
  BY <1>1, <1>2 DEF CallRecord
<1> HIDE DEF new
<1>4. \A d \in Calls : calls'[d].input = calls[d].input
  BY <1>3
<1>5. \A d \in Calls : /\ ThreadFor(d)' = ThreadFor(d) /\ InThread(d)' = InThread(d)
                       /\ IsWord(d)' = IsWord(d) /\ Unsaid(d)' = Unsaid(d)
                       /\ NotOver(d)' = NotOver(d)
                       /\ d # c => Running(d)' = Running(d)
  BY <1>1, <1>3, <1>4 DEF ThreadFor, InThread, IsWord, Reported, Unsaid, NotOver, Active, Running
<1>6. InThread(c) => /\ ThreadFor(c) = in.thread /\ in.thread \in Threads
                     /\ row = threads[ThreadFor(c)] /\ Held(row) /\ HasRoom(row)
  <2> SUFFICES ASSUME InThread(c)
               PROVE  /\ ThreadFor(c) = in.thread /\ in.thread \in Threads
                      /\ row = threads[ThreadFor(c)] /\ Held(row) /\ HasRoom(row)
    OBVIOUS
  <2>1. ThreadFor(c) = in.thread /\ in.thread \in Threads /\ in.thread # None
    BY <1>2, InputsAssumption DEF InThread, ThreadFor, InThreadTypes
  <2>2. row = threads[ThreadFor(c)] /\ HasRoom(row)
    BY <2>1 DEF HistoriesHaveRoom
  <2>3. LoopPrevention(in, row) = None
    BY <1>1, NotRefusedRule
  <2>4. Held(row)
    BY <2>3, ResultsAssumption DEF LoopPrevention, InThread, Results, Refusals
  <2> QED
    BY <2>1, <2>2, <2>4
<1> HIDE DEF in, row
<1>7. UnsaidIsUnheld'
  BY <1>1, <1>5 DEF WordInv, UnsaidIsUnheld
<1>8. WordsAreHeld'
  BY <1>1, <1>5 DEF WordInv, WordsAreHeld
<1>9. WordsAreElsewhere'
  BY <1>5 DEF WordInv, WordsAreElsewhere
<1>10. ReadingsAreOfThreads'
  <2> SUFFICES ASSUME NEW d \in Calls, Running(d)', InThread(d)'
               PROVE  /\ Held(threads'[ThreadFor(d)']) /\ Held(calls'[d].existing)
                      /\ HasRoom(calls'[d].existing)
    BY DEF ReadingsAreOfThreads
  <2>1. CASE d = c
    BY <1>1, <1>3, <1>5, <1>6, <2>1
  <2>2. CASE d # c
    BY <1>1, <1>3, <1>5, <2>2 DEF WordInv, ReadingsAreOfThreads
  <2> QED
    BY <2>1, <2>2
<1>11. WordsAreRead'
  <2> SUFFICES ASSUME NEW e \in Calls, NEW d \in Calls, IsWord(d)', Running(e)',
                      ThreadFor(e)' = ThreadFor(d)'
               PROVE  Holds(calls'[e].existing, d)
    BY DEF WordsAreRead
  <2>1. IsWord(d) /\ ThreadFor(e) = ThreadFor(d)
    BY <1>5
  <2>2. CASE e = c
    <3>1. NotOver(c)
      BY <1>1 DEF NotOver, Active
    <3>2. ThreadFor(d) # ThreadOf[c]
      BY <2>1, <3>1 DEF WordInv, WordsAreElsewhere
    <3>3. InThread(c)
      BY <2>1, <2>2, <3>2 DEF InThread, ThreadFor
    <3>4. Holds(threads[ThreadFor(d)], d)
      BY <2>1 DEF WordInv, WordsAreHeld
    <3> QED
      BY <1>3, <1>6, <2>1, <2>2, <3>3, <3>4
  <2>3. CASE e # c
    BY <1>3, <1>5, <2>1, <2>3 DEF WordInv, WordsAreRead
  <2> QED
    BY <2>2, <2>3
<1> QED
  BY <1>7, <1>8, <1>9, <1>10, <1>11 DEF WordInv

\* The call that ends writes over nothing of ours: nobody of ours wrote since
\* it read.
LEMMA EndWords ==
  ASSUME WordInv, PaceInv', ReachInv', NEW c \in Calls, Running(c), NEW result,
         Settle(c, result), result \in {"ok", "degraded"} => ~Unsaid(c),
         \A t \in Threads : t # ThreadFor(c) => threads'[t] = threads[t],
         \/ threads' = threads
         \/ ~InThread(c) /\ ~Unsaid(c)
         \/ /\ InThread(c)
            /\ threads'[ThreadFor(c)].status = RowWritten(c).status
            /\ threads'[ThreadFor(c)].history = RowWritten(c).history,
         InThread(c) /\ result \in {"ok", "degraded"} =>
           /\ threads'[ThreadFor(c)].status = RowWritten(c).status
           /\ threads'[ThreadFor(c)].history = RowWritten(c).history
  PROVE  WordInv'
<1> DEFINE call == [Over(calls[c]) EXCEPT !.pc = "settled", !.result = result]
<1>1. calls \in [Calls -> CallRecord] /\ calls' = [calls EXCEPT ![c] = call]
  BY DEF Settle, WordInv, ReachInv, TypeInv, TypeOK
<1>2. /\ calls'[c].pc = "settled" /\ calls'[c].input = calls[c].input
      /\ calls'[c].result = result
      /\ calls'[c].landed = calls[c].landed /\ calls'[c].failed = calls[c].failed
      /\ \A d \in Calls : d # c => calls'[d] = calls[d]
  BY <1>1 DEF Over, CallRecord
<1> HIDE DEF call
<1>3. \A d \in Calls : /\ ThreadFor(d)' = ThreadFor(d) /\ InThread(d)' = InThread(d)
                       /\ Unsaid(d)' = Unsaid(d)
                       /\ NotOver(d)' => NotOver(d) /\ d # c
                       /\ d # c => IsWord(d)' = IsWord(d)
                       /\ ~Running(d)'
  <2> TAKE d \in Calls
  <2>1. d # c => ~Running(d)
    BY ChainIsSerial DEF WordInv, PaceInv
  <2>2. calls'[d].input = calls[d].input
    BY <1>2
  <2> QED
    BY <1>2, <2>1, <2>2
    DEF ThreadFor, InThread, Unsaid, NotOver, Active, IsWord, Reported, Running
<1>4. ThreadFor(c) \in Threads /\ NotOver(c)
  BY ThreadForType DEF Running, Active, NotOver, WordInv, ReachInv
<1>5. InThread(c) => Held(threads[ThreadFor(c)])
  BY DEF WordInv, ReadingsAreOfThreads
<1>6. ~InThread(c) => ThreadFor(c) = ThreadOf[c]
  BY DEF InThread, ThreadFor
<1>7. InThread(c) => /\ Holds(RowWritten(c), c)
                     /\ \A d \in Calls : Holds(calls[c].existing, d) => Holds(RowWritten(c), d)
  BY RowWrittenHolds
<1>8. UnsaidIsUnheld'
  <2> SUFFICES ASSUME NEW e \in Calls, Unsaid(e)' PROVE ~Held(threads'[ThreadOf[e]])
    BY DEF UnsaidIsUnheld
  <2>1. Unsaid(e) /\ ~Held(threads[ThreadOf[e]]) /\ ThreadOf[e] \in Threads
    BY <1>3, CallsAssumption DEF WordInv, UnsaidIsUnheld
  <2>2. CASE threads' = threads
    BY <2>1, <2>2
  <2>3. CASE InThread(c)
    BY <1>5, <2>1, <2>3
  <2>4. CASE ~InThread(c) /\ ~Unsaid(c)
    <3>1. ThreadOf[e] # ThreadOf[c]
      BY <2>1, <2>4, FreshAssumption
    <3> QED
      BY <1>6, <2>1, <2>4, <3>1
  <2> QED
    BY <2>2, <2>3, <2>4
<1>9. ReadingsAreOfThreads' /\ WordsAreRead'
  BY <1>3 DEF ReadingsAreOfThreads, WordsAreRead
<1>10. IsWord(c)' => /\ InThread(c)
                     /\ threads'[ThreadFor(c)].status = RowWritten(c).status
                     /\ threads'[ThreadFor(c)].history = RowWritten(c).history
  BY <1>2, <1>3 DEF IsWord, Reported
<1>11. WordsAreHeld'
  <2> SUFFICES ASSUME NEW d \in Calls, IsWord(d)'
               PROVE  ThreadFor(d) \in Threads /\ Holds(threads'[ThreadFor(d)], d)
    BY <1>3 DEF WordsAreHeld
  <2>1. CASE d = c
    BY <1>4, <1>7, <1>10, <2>1 DEF Holds, Held
  <2>2. CASE d # c
    <3>1. /\ IsWord(d) /\ ThreadFor(d) \in Threads /\ Holds(threads[ThreadFor(d)], d)
          /\ ThreadFor(d) # ThreadOf[c]
      BY <1>3, <1>4, <2>2 DEF WordInv, WordsAreHeld, WordsAreElsewhere
    <3>2. CASE ThreadFor(d) # ThreadFor(c) \/ threads' = threads
      BY <3>1, <3>2
    <3>3. CASE ThreadFor(d) = ThreadFor(c) /\ threads' # threads
      <4>1. InThread(c)
        BY <1>6, <3>1, <3>3
      <4>2. Holds(calls[c].existing, d)
        BY <3>1, <3>3 DEF WordInv, WordsAreRead
      <4>3. Holds(RowWritten(c), d)
        BY <1>7, <4>1, <4>2
      <4>4. /\ threads'[ThreadFor(c)].status = RowWritten(c).status
            /\ threads'[ThreadFor(c)].history = RowWritten(c).history
        BY <3>3, <4>1
      <4> QED
        BY <3>1, <3>3, <4>3, <4>4 DEF Holds, Held
    <3> QED
      BY <3>2, <3>3
  <2> QED
    BY <2>1, <2>2
<1>12. WordsAreElsewhere'
  <2> SUFFICES ASSUME NEW e \in Calls, NEW d \in Calls, IsWord(d)', NotOver(e)'
               PROVE  ThreadFor(d) # ThreadOf[e]
    BY <1>3 DEF WordsAreElsewhere
  <2>1. NotOver(e) /\ e # c
    BY <1>3
  <2>2. CASE d # c
    BY <1>3, <2>1, <2>2 DEF WordInv, WordsAreElsewhere
  <2>3. CASE d = c
    <3>1. InThread(c) /\ Held(threads[ThreadFor(c)])
      BY <1>5, <1>10, <2>3
    <3>2. ~Running(e)
      BY <2>1, ChainIsSerial DEF WordInv, PaceInv
    <3>3. calls[e].pc \in {"idle", "queued"}
      BY <2>1, <3>2 DEF NotOver, Active, Running
    <3>4. Told(e) = {}
      BY <3>3 DEF WordInv, PaceInv, Dated
    <3>5. Unsaid(e)
      BY <3>4 DEF Told, Unsaid
    <3>6. ~Held(threads[ThreadOf[e]])
      BY <3>5 DEF WordInv, UnsaidIsUnheld
    <3> QED
      BY <2>3, <3>1, <3>6
  <2> QED
    BY <2>2, <2>3
<1> QED
  BY <1>8, <1>9, <1>11, <1>12 DEF WordInv

\* One call moves, and nothing about the threads is read or written.
LEMMA OneGoesOnSilently ==
  ASSUME calls \in [Calls -> CallRecord], NEW c \in Calls, NEW call \in CallRecord,
         calls' = [calls EXCEPT ![c] = call],
         call.result \notin {"ok", "degraded"},
         call.pc \in {"posting", "sent"} =>
           Running(c) /\ call.input = calls[c].input /\ call.existing = calls[c].existing,
         call.pc \in {"idle", "queued", "posting", "sent"} => NotOver(c),
         call.landed \cup call.failed = {} => Unsaid(c)
  PROVE  \A d \in Calls : GoesOnSilently(d)
<1> TAKE d \in Calls
<1>1. calls'[d] = IF d = c THEN call ELSE calls[d]
  OBVIOUS
<1>2. CASE d = c
  <2>1. calls'[c] = call
    BY <1>1, <1>2
  <2>2. ~IsWord(c)' /\ (Unsaid(c)' => Unsaid(c)) /\ (NotOver(c)' => NotOver(c))
    BY <2>1 DEF IsWord, Reported, Unsaid, NotOver, Active
  <2>3. Running(c)' => /\ Running(c) /\ calls'[c].input = calls[c].input
                       /\ calls'[c].existing = calls[c].existing
    BY <2>1 DEF Running
  <2>4. calls'[c].input = calls[c].input =>
          ThreadFor(c)' = ThreadFor(c) /\ InThread(c)' = InThread(c)
    BY DEF ThreadFor, InThread
  <2> QED
    BY <1>2, <2>2, <2>3, <2>4 DEF GoesOnSilently
<1>3. CASE d # c
  BY <1>1, <1>3 DEF GoesOnSilently, IsWord, Reported, Unsaid, NotOver, Active, Running,
                    ThreadFor, InThread
<1> QED
  BY <1>2, <1>3

\* What a request to Telegram leaves as it was.
LEMMA PostIsSilent ==
  ASSUME WordInv, TypeInv', NEW c \in Calls, Post(c)
  PROVE  \A d \in Calls : GoesOnSilently(d)
<1>0. calls \in [Calls -> CallRecord] /\ calls' \in [Calls -> CallRecord]
  BY DEF WordInv, ReachInv, TypeInv, TypeOK
<1>1. calls[c].pc = "posting" /\ calls[c].result = None /\ None \notin {"ok", "degraded"}
  <2>1. calls[c].pc = "posting"
    BY DEF Post, Land, Miss, Limited, Unsendable
  <2> QED
    BY <2>1, ResultsAssumption DEF WordInv, ReachInv, Results
<1> DEFINE Follows(call) ==
      /\ calls' = [calls EXCEPT ![c] = call]
      /\ call.input = calls[c].input /\ call.existing = calls[c].existing
      /\ call.result = calls[c].result
      /\ call.landed \cup call.failed # {}
<1>2. ASSUME NEW chat \in Chats, Land(c, chat)
      PROVE  \E call : Follows(call)
  <2> DEFINE call == [Answered(c, chat) EXCEPT !.landed = @ \cup {chat}]
  <2>1. calls' = [calls EXCEPT ![c] = call]
    BY <1>2 DEF Land
  <2>2. /\ call.input = calls[c].input /\ call.existing = calls[c].existing
        /\ call.result = calls[c].result /\ chat \in call.landed
    BY <1>0 DEF Answered, CallRecord
  <2> HIDE DEF call
  <2> QED
    BY <2>1, <2>2
<1>3. ASSUME NEW chat \in Chats, calls' = [calls EXCEPT ![c] = Unreached(c, chat)]
      PROVE  \E call : Follows(call)
  <2> DEFINE call == Unreached(c, chat)
  <2>1. /\ call.input = calls[c].input /\ call.existing = calls[c].existing
        /\ call.result = calls[c].result /\ chat \in call.failed
    BY <1>0 DEF Unreached, Answered, CallRecord
  <2>2. calls' = [calls EXCEPT ![c] = call]
    BY <1>3
  <2> HIDE DEF call
  <2> QED
    BY <2>1, <2>2
<1>4. ASSUME Unsendable(c)
      PROVE  \E call : Follows(call)
  <2> DEFINE call == [calls[c] EXCEPT !.left = {}, !.pc = "sent", !.failed = {Group}]
  <2>1. calls' = [calls EXCEPT ![c] = call]
    BY <1>4 DEF Unsendable
  <2>2. /\ call.input = calls[c].input /\ call.existing = calls[c].existing
        /\ call.result = calls[c].result /\ Group \in call.failed
    BY <1>0 DEF CallRecord
  <2> HIDE DEF call
  <2> QED
    BY <2>1, <2>2
<1>5. \E call : Follows(call)
  BY <1>2, <1>3, <1>4 DEF Post, Miss, Limited
<1>6. PICK call : Follows(call)
  BY <1>5
<1> HIDE DEF Follows
<1>7. /\ calls' = [calls EXCEPT ![c] = call]
      /\ call.input = calls[c].input /\ call.existing = calls[c].existing
      /\ call.result = calls[c].result
      /\ call.landed \cup call.failed # {}
  BY <1>6 DEF Follows
<1>8. call \in CallRecord
  <2>1. calls'[c] = call
    BY <1>0, <1>7
  <2> QED
    BY <1>0, <2>1
<1>9. Running(c) /\ NotOver(c)
  BY <1>1 DEF Running, NotOver, Active
<1> QED
  BY <1>0, <1>1, <1>7, <1>8, <1>9, OneGoesOnSilently

\* A call that is refused, or rolled back, is over and wrote no row.
LEMMA RefusalIsSilent ==
  ASSUME WordInv, TypeInv', NEW c \in Calls, Refuse(c) \/ HoldBack(c) \/ RollBack(c)
  PROVE  \A d \in Calls : GoesOnSilently(d)
<1>0. calls \in [Calls -> CallRecord] /\ calls' \in [Calls -> CallRecord]
  BY DEF WordInv, ReachInv, TypeInv, TypeOK
<1>1. calls[c].pc \in {"queued", "sent"} /\ calls[c].input \in Inputs
  <2>1. calls[c].pc \in {"queued", "sent"}
    BY DEF Refuse, HoldBack, RollBack
  <2> QED
    BY <2>1 DEF WordInv, ReachInv, TypeInv, CallsAreReady, Active
<1>2. \E result : Settle(c, result) /\ result \notin {"ok", "degraded"}
  <2>1. CASE HoldBack(c) \/ RollBack(c)
    BY <2>1 DEF HoldBack, RollBack
  <2>2. CASE Refuse(c)
    <3> DEFINE in == calls[c].input
               row == IF in.thread = None THEN NoThread ELSE threads[in.thread]
               why == Refusal(in, row)
    <3>1. why # None /\ Settle(c, why)
      BY <2>2 DEF Refuse
    <3>2. why \in Refusals
      BY <1>1, <3>1, RefusalType
    <3> HIDE DEF why
    <3> QED
      BY <3>1, <3>2 DEF Refusals
  <2> QED
    BY <2>1, <2>2
<1>3. PICK result : Settle(c, result) /\ result \notin {"ok", "degraded"}
  BY <1>2
<1> DEFINE call == [Over(calls[c]) EXCEPT !.pc = "settled", !.result = result]
<1>4. calls' = [calls EXCEPT ![c] = call]
  BY <1>3 DEF Settle
<1>5. /\ call.pc = "settled" /\ call.result = result
      /\ call.landed = calls[c].landed /\ call.failed = calls[c].failed
  BY <1>0 DEF Over, CallRecord
<1>6. call \in CallRecord
  <2>1. calls'[c] = call
    BY <1>0, <1>4
  <2> HIDE DEF call
  <2> QED
    BY <1>0, <2>1
<1> HIDE DEF call
<1>7. call.landed \cup call.failed = {} => Unsaid(c)
  BY <1>5 DEF Unsaid
<1> QED
  BY <1>0, <1>3, <1>4, <1>5, <1>6, <1>7, OneGoesOnSilently

\* A crash ends calls and tells nobody anything.
LEMMA CrashIsSilent ==
  ASSUME WordInv, Crash
  PROVE  \A d \in Calls : GoesOnSilently(d)
<1> TAKE d \in Calls
<1>0. calls \in [Calls -> CallRecord]
  BY DEF WordInv, ReachInv, TypeInv, TypeOK
<1>1. calls'[d] = IF calls[d].pc \in {"queued", "posting", "sent"}
                  THEN [Over(calls[d]) EXCEPT !.pc = "lost"] ELSE calls[d]
  BY DEF Crash
<1>2. CASE calls[d].pc \in {"queued", "posting", "sent"}
  <2>1. /\ calls'[d].pc = "lost" /\ calls'[d].input = calls[d].input
        /\ calls'[d].landed = calls[d].landed /\ calls'[d].failed = calls[d].failed
        /\ calls'[d].result = calls[d].result
    BY <1>0, <1>1, <1>2 DEF Over, CallRecord
  <2> QED
    BY <2>1 DEF GoesOnSilently, IsWord, Reported, Unsaid, NotOver, Active, Running,
                ThreadFor, InThread
<1>3. CASE calls[d].pc \notin {"queued", "posting", "sent"}
  <2>1. calls'[d] = calls[d]
    BY <1>1, <1>3
  <2> QED
    BY <2>1 DEF GoesOnSilently, IsWord, Reported, Unsaid, NotOver, Active, Running,
                ThreadFor, InThread
<1> QED
  BY <1>2, <1>3

\* What a peer says is added to what a thread holds.
LEMMA PollWords ==
  ASSUME WordInv, PaceInv', ReachInv', HistoriesHaveRoom, Poll
  PROVE  WordInv'
<1>0. threads \in [Threads -> ThreadRow]
  BY DEF WordInv, ReachInv, TypeInv, TypeOK
<1>1. \A d \in Calls : GoesOnSilently(d)
  BY DEF Poll, GoesOnSilently, IsWord, Reported, Unsaid, NotOver, Active, Running,
         ThreadFor, InThread
<1>2. CASE threads' = threads
  <2>1. \A c \in Calls : Unsaid(c) => ~Held(threads'[ThreadOf[c]])
    BY <1>2 DEF WordInv, UnsaidIsUnheld
  <2> QED
    BY <1>1, <1>2, <2>1, WordsStay
<1>3. ASSUME NEW m \in PeerSays, CanBeSaid(m), threads' # threads, threads' = Admitted(m)
      PROVE  WordInv'
  <2>1. m \in Envelope /\ m.thread \in Threads
    BY PeersAssumption DEF Envelope
  <2>2. /\ threads' = [threads EXCEPT ![m.thread] = RowAfter(threads[m.thread], m)]
        /\ ~(m.type = "REQUEST" /\ Held(threads[m.thread]))
    BY <1>3 DEF Admitted
  <2>3. ASSUME NEW t \in Threads, Held(threads[t])
        PROVE  Held(threads'[t]) /\ threads[t].history \subseteq threads'[t].history
    <3>1. CASE t # m.thread
      BY <1>0, <2>2, <2>3, <3>1
    <3>2. CASE t = m.thread
      <4>1. m.type \in Types /\ m.type # "REQUEST"
        BY <2>1, <2>2, <2>3, <3>2 DEF Envelope
      <4>2. OutcomeOf(threads[t], m) # "opened"
        BY <4>1 DEF OutcomeOf, Types
      <4>3. /\ threads[t].history \subseteq RowAfter(threads[t], m).history
            /\ Held(RowAfter(threads[t], m))
        BY <1>0, <2>1, <2>3, <4>2, HistoryGrows DEF HistoriesHaveRoom
      <4>4. threads'[t] = RowAfter(threads[t], m)
        BY <1>0, <2>1, <2>2, <3>2
      <4> QED
        BY <4>3, <4>4
    <3> QED
      BY <3>1, <3>2
  <2>4. ASSUME NEW c \in Calls, Unsaid(c)
        PROVE  ~Held(threads'[ThreadOf[c]])
    <3>1. m.thread # ThreadOf[c]
      BY <1>3, <2>4 DEF CanBeSaid, Unsaid
    <3>2. threads'[ThreadOf[c]] = threads[ThreadOf[c]]
      BY <1>0, <2>1, <2>2, <3>1, CallsAssumption
    <3> QED
      BY <2>4, <3>2 DEF WordInv, UnsaidIsUnheld
  <2> QED
    BY <1>1, <2>3, <2>4, WordsStay
<1> QED
  BY <1>2, <1>3 DEF Poll

\* The call that was told, or not, is over.
LEMMA RecordWords ==
  ASSUME WordInv, PaceInv', ReachInv', NEW c \in Calls, Record(c) \/ Fail(c)
  PROVE  WordInv'
<1>0. threads \in [Threads -> ThreadRow]
  BY DEF WordInv, ReachInv, TypeInv, TypeOK
<1>1. Running(c) /\ Active(c)
  BY DEF Record, Fail, Running, Active
<1>2. ThreadFor(c) \in Threads /\ RowWritten(c) \in ThreadRow
  BY <1>1, ThreadForType, RowWrittenType DEF WordInv, ReachInv
<1>3. CASE Record(c)
  <2> DEFINE result == IF calls[c].failed = {} THEN "ok" ELSE "degraded"
  <2>1. Settle(c, result) /\ ~Unsaid(c)
    BY <1>3 DEF Record, Delivered, Unsaid
  <2>2. threads' = IF calls[c].input.type = "BROADCAST" THEN threads
                   ELSE [threads EXCEPT ![ThreadFor(c)] = RowWritten(c)]
    BY <1>3 DEF Record
  <2> HIDE DEF result
  <2>3. InThread(c) => threads'[ThreadFor(c)] = RowWritten(c)
    BY <1>0, <1>2, <2>2 DEF InThread, InThreadTypes
  <2>4. \A t \in Threads : t # ThreadFor(c) => threads'[t] = threads[t]
    BY <1>0, <2>2
  <2> QED
    BY <1>1, <2>1, <2>3, <2>4, EndWords
<1>4. CASE Fail(c)
  <2> DEFINE why == IF RateLimitedDuring(c) THEN "RATE_LIMITED" ELSE "TRANSPORT_ERROR"
             untold == [RowWritten(c) EXCEPT !.delivered = FALSE]
  <2>1. Settle(c, why) /\ why \notin {"ok", "degraded"}
    BY <1>4 DEF Fail
  <2>2. threads' = IF Abandons(c) THEN [threads EXCEPT ![ThreadFor(c)] = untold] ELSE threads
    BY <1>4 DEF Fail
  <2>3. untold.status = RowWritten(c).status /\ untold.history = RowWritten(c).history
    BY <1>2 DEF ThreadRow
  <2> HIDE DEF why, untold
  <2>4. Abandons(c) => InThread(c) /\ threads'[ThreadFor(c)] = untold
    BY <1>0, <1>2, <2>2 DEF Abandons, InThread, InThreadTypes
  <2>5. \A t \in Threads : t # ThreadFor(c) => threads'[t] = threads[t]
    BY <1>0, <2>2
  <2> QED
    BY <1>1, <2>1, <2>2, <2>3, <2>4, <2>5, EndWords
<1> QED
  BY <1>3, <1>4

\* A call that joins the chain has said nothing.
LEMMA SubmitIsSilent ==
  ASSUME WordInv, TypeInv', NEW c \in Calls, NEW in \in Inputs, Submit(c, in)
  PROVE  \A d \in Calls : GoesOnSilently(d)
<1>0. calls \in [Calls -> CallRecord] /\ calls' \in [Calls -> CallRecord]
  BY DEF WordInv, ReachInv, TypeInv, TypeOK
<1> DEFINE call == [Idle EXCEPT !.pc = "queued", !.input = in, !.after = tail, !.life = crashes]
<1>1. calls' = [calls EXCEPT ![c] = call] /\ calls[c].pc = "idle"
  BY DEF Submit
<1>2. call.pc = "queued" /\ call.result = None
  BY DEF Idle
<1>3. call \in CallRecord
  <2>1. calls'[c] = call
    BY <1>0, <1>1
  <2> HIDE DEF call
  <2> QED
    BY <1>0, <2>1
<1> HIDE DEF call
<1>4. Unsaid(c) /\ NotOver(c)
  BY <1>1 DEF WordInv, PaceInv, Dated, Told, Unsaid, NotOver
<1>5. None \notin {"ok", "degraded"}
  BY ResultsAssumption DEF Results
<1> QED
  BY <1>0, <1>1, <1>2, <1>3, <1>4, <1>5, OneGoesOnSilently

LEMMA StepWords == WordInv /\ HistoriesHaveRoom /\ [Next]_vars => WordInv'
<1> SUFFICES ASSUME WordInv, HistoriesHaveRoom, [Next]_vars PROVE WordInv'
  OBVIOUS
<1>0. PaceInv' /\ ReachInv' /\ TypeInv'
  BY StepPace, StepReachInv DEF WordInv, ReachInv
<1>1. ASSUME threads' = threads, \A d \in Calls : GoesOnSilently(d)
      PROVE  WordInv'
  <2>1. \A c \in Calls : Unsaid(c) => ~Held(threads'[ThreadOf[c]])
    BY <1>1 DEF WordInv, UnsaidIsUnheld
  <2> QED
    BY <1>0, <1>1, <2>1, WordsStay
<1>2. ASSUME NEW c \in Calls, NEW in \in Inputs, Submit(c, in)
      PROVE  WordInv'
  BY <1>0, <1>1, <1>2, SubmitIsSilent DEF Submit, ledger
<1>3. ASSUME NEW c \in Calls, Refuse(c) \/ HoldBack(c) \/ RollBack(c)
      PROVE  WordInv'
  <2>1. threads' = threads
    BY <1>3 DEF Refuse, HoldBack, RollBack, ledger
  <2> QED
    BY <1>0, <1>1, <1>3, <2>1, RefusalIsSilent
<1>4. ASSUME NEW c \in Calls, Post(c)
      PROVE  WordInv'
  <2>1. threads' = threads
    BY <1>4 DEF Post, Land, Miss, Limited, Unsendable, ledger
  <2> QED
    BY <1>0, <1>1, <1>4, <2>1, PostIsSilent
<1>5. CASE Crash
  BY <1>1, <1>5, CrashIsSilent DEF Crash, ledger
<1>6. CASE UNCHANGED vars \/ Tick \/ \E wait \in Waits : PollLimited(wait)
  <2>1. calls' = calls /\ threads' = threads
    BY <1>6 DEF vars, Tick, PollLimited, ledger
  <2>2. \A d \in Calls : GoesOnSilently(d)
    BY <2>1 DEF GoesOnSilently, IsWord, Reported, Unsaid, NotOver, Active, Running,
                ThreadFor, InThread
  <2> QED
    BY <1>1, <2>1, <2>2
<1> QED
  BY <1>0, <1>2, <1>3, <1>4, <1>5, <1>6, BeginWords, PollWords, RecordWords
  DEF Next, Step

LEMMA InitWords == Init => WordInv
<1> SUFFICES ASSUME Init PROVE WordInv
  OBVIOUS
<1>1. \A c \in Calls : calls[c] = Idle
  BY DEF Init
<1>2. /\ \A c \in Calls : ~Reported(c) /\ ~Running(c)
      /\ \A c \in Calls : calls[c].result = None /\ calls[c].landed = {}
  BY <1>1, ResultsAssumption DEF Idle, Reported, Running, Results
<1>3. None \notin Refusals \cup Failures
  BY ResultsAssumption DEF Results
<1>4. ReachInv
  BY <1>2, <1>3, InitTypeInv DEF ReachInv, RefusedReachedNobody
<1>5. UnsaidIsUnheld
  BY FreshAssumption DEF Init, UnsaidIsUnheld
<1> QED
  BY <1>2, <1>4, <1>5, InitPace
  DEF WordInv, ReadingsAreOfThreads, WordsAreHeld, WordsAreElsewhere, WordsAreRead, IsWord

\* What the client was told was sent stays in the thread's history, past every
\* later send of ours and whatever peers say meanwhile, in every behaviour in
\* which no history has reached MaxHistory, where the code drops the oldest
\* entry on purpose (protocol-apply.ts).
THEOREM OwnWordsStay == Spec /\ []HistoriesHaveRoom => []OwnWordIsKept
<1>1. WordInv => OwnWordIsKept
  BY DEF WordInv, WordsAreHeld, IsWord, InThread, Holds, OwnWordIsKept
<1> QED
  BY <1>1, InitWords, StepWords, PTL DEF Spec
=============================================================================
