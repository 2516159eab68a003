---------------------------- MODULE DebatesProofs ----------------------------
(***************************************************************************)
(* What holds of Debates for any roster of two, whatever they ask to say,  *)
(* any cap of rounds and any number of sends and of crashes.               *)
(***************************************************************************)
EXTENDS Debates, SequenceTheorems, FiniteSetTheorems, WellFoundedInduction, TLAPS

-----------------------------------------------------------------------------
(* The two ends.                                                           *)

\* Each end has one peer, whose peer it is, and there is nobody else.
LEMMA PeerIsTheOther ==
  ASSUME NEW a \in Agents
  PROVE  /\ Peer(a) \in Agents /\ Peer(a) # a /\ Peer(Peer(a)) = a
         /\ \A b \in Agents : b = a \/ b = Peer(a)
<1>1. PICK x, y \in Agents : x # y /\ Agents = {x, y}
  BY EndsAssumption
<1>2. \A e \in Agents : Peer(e) \in Agents /\ Peer(e) # e
  BY <1>1 DEF Peer
<1> QED
  BY <1>1, <1>2

-----------------------------------------------------------------------------
(* The last round of a journal.                                            *)

\* A set of naturals with an upper bound has a greatest element.
LEMMA GreatestExists ==
  ASSUME NEW S \in SUBSET Nat, S # {}, NEW k \in Nat, \A m \in S : m <= k
  PROVE  \E n \in S : \A m \in S : m <= n
<1> DEFINE R == OpToRel(<, Nat)
           Above == {u \in Nat : \A m \in S : m <= u}
<1>1. IsWellFoundedOn(R, Nat)
  BY NatLessThanWellFounded
<1>2. \A u, v \in Nat : u < v => <<u, v>> \in R
  BY DEF OpToRel
<1>3. Above \subseteq Nat /\ k \in Above
  OBVIOUS
<1> HIDE DEF R
<1>4. PICK u \in Above : \A v \in Above : ~ (<<v, u>> \in R)
  <2> HIDE DEF Above
  <2> QED
    BY <1>1, <1>3, WFMin
<1>5. ASSUME u \notin S PROVE FALSE
  <2>1. \A m \in S : m < u
    BY <1>5
  <2>2. u - 1 \in Above
    <3>1. PICK m \in S : TRUE
      OBVIOUS
    <3>2. u \in Nat /\ m \in Nat /\ m < u
      BY <2>1, <3>1
    <3>3. u - 1 \in Nat /\ \A v \in S : v <= u - 1
      BY <2>1, <3>2
    <3> QED
      BY <3>3
  <2>3. <<u - 1, u>> \in R
    BY <1>2, <2>2
  <2> QED
    BY <1>4, <2>2, <2>3
<1> QED
  BY <1>5

\* No turn is journaled with a round beyond a bound.
Bounded(rows) == \E k \in Nat : \A r \in rows : r.round <= k

JournalEntry == [debate : Threads, turn : Turns, eid : Eids, round : Nat]

\* readMaxCounterRound returns the round of the last COUNTER, or 0.
LEMMA LastRound ==
  ASSUME NEW rows \in SUBSET JournalEntry, Bounded(rows), NEW d
  PROVE  /\ MaxCounterRound(rows, d) \in Nat
         /\ \A r \in rows : r.debate = d /\ r.turn = "COUNTER"
                              => r.round <= MaxCounterRound(rows, d)
         /\ \/ MaxCounterRound(rows, d) = 0
            \/ \E r \in rows : /\ r.debate = d /\ r.turn = "COUNTER"
                               /\ r.round = MaxCounterRound(rows, d)
<1> DEFINE S == {0} \cup {r.round : r \in {q \in rows : q.debate = d /\ q.turn = "COUNTER"}}
<1>1. S \in SUBSET Nat /\ S # {} /\ 0 \in S
  BY DEF JournalEntry
<1>2. PICK k \in Nat : \A m \in S : m <= k
  <2>1. PICK k \in Nat : \A r \in rows : r.round <= k
    BY DEF Bounded
  <2>2. \A m \in S : m <= k
    BY <2>1
  <2> QED
    BY <2>2
<1>3. \E n \in S : \A m \in S : m <= n
  <2> HIDE DEF S
  <2> QED
    BY <1>1, <1>2, GreatestExists
<1>4. MaxCounterRound(rows, d) = CHOOSE n \in S : \A m \in S : m <= n
  BY DEF MaxCounterRound
<1>5. MaxCounterRound(rows, d) \in S /\ \A m \in S : m <= MaxCounterRound(rows, d)
  BY <1>3, <1>4
<1> QED
  BY <1>1, <1>5

\* A journal that grows never loses a round.
LEMMA RoundsOnlyGrow ==
  ASSUME NEW rows \in SUBSET JournalEntry, Bounded(rows),
         NEW more \in SUBSET JournalEntry, Bounded(more), rows \subseteq more, NEW d
  PROVE  MaxCounterRound(rows, d) <= MaxCounterRound(more, d)
  BY LastRound

\* A body has as many COUNTERs as it has, and none when it carries none.
LEMMA CountersOf ==
  ASSUME NEW s, s.turns \in Seq(Turns)
  PROVE  /\ IsFiniteSet(Counters(s)) /\ Cardinality(Counters(s)) \in Nat
         /\ ~Carries(s, "COUNTER") => Cardinality(Counters(s)) = 0
<1>1. Counters(s) \in SUBSET (1..Len(s.turns)) /\ Len(s.turns) \in Nat
  BY DEF Counters
<1>2. IsFiniteSet(Counters(s))
  <2>1. IsFiniteSet(1..Len(s.turns))
    BY <1>1, FS_Interval
  <2> QED
    BY <1>1, <2>1, FS_Subset
<1>3. ~Carries(s, "COUNTER") => Counters(s) = {}
  BY DEF Carries, Counters
<1> QED
  BY <1>2, <1>3, FS_CardinalityType, FS_EmptySet

\* The turns of a body are journaled after the rounds of its debate, and each
\* COUNTER among them brings the next round.
LEMMA JournaledRounds ==
  ASSUME NEW a, journal[a] \in SUBSET JournalEntry, Bounded(journal[a]),
         NEW env, env.thread \in Threads, env.eid \in Eids,
         NEW turns \in Seq(Turns)
  PROVE  /\ Journaled(a, env, turns) \in SUBSET JournalEntry
         /\ Bounded(Journaled(a, env, turns))
         /\ journal[a] \subseteq Journaled(a, env, turns)
         /\ MaxCounterRound(journal[a], env.thread)
                + Cardinality({i \in DOMAIN turns : turns[i] = "COUNTER"})
              <= MaxCounterRound(Journaled(a, env, turns), env.thread)
<1> DEFINE reached == MaxCounterRound(journal[a], env.thread)
           By(i) == {j \in 1..i : turns[j] = "COUNTER"}
           All == {i \in DOMAIN turns : turns[i] = "COUNTER"}
           New(i) == [debate |-> env.thread, turn |-> turns[i], eid |-> env.eid,
                      round |-> reached + Cardinality(By(i))]
<1>1. reached \in Nat
  BY LastRound
<1>2. \A i \in DOMAIN turns : /\ Cardinality(By(i)) \in Nat
                              /\ Cardinality(By(i)) <= Len(turns)
  <2> TAKE i \in DOMAIN turns
  <2>1. i \in Nat /\ 1 <= i /\ i <= Len(turns) /\ Len(turns) \in Nat
    OBVIOUS
  <2>2. IsFiniteSet(1..i) /\ Cardinality(1..i) = i
    BY <2>1, FS_Interval
  <2>3. IsFiniteSet(By(i)) /\ Cardinality(By(i)) <= i
    <3>1. By(i) \in SUBSET (1..i)
      OBVIOUS
    <3> QED
      BY <2>2, <3>1, FS_Subset
  <2>4. Cardinality(By(i)) \in Nat
    BY <2>3, FS_CardinalityType
  <2> QED
    BY <2>1, <2>3, <2>4
<1>3. Journaled(a, env, turns) = journal[a] \cup {New(i) : i \in DOMAIN turns}
  BY DEF Journaled
<1>9. \A i \in DOMAIN turns :
        (\A j \in All : j <= i) => By(i) = All
  OBVIOUS
<1> HIDE DEF By, reached
<1>4. \A i \in DOMAIN turns : New(i) \in JournalEntry /\ New(i).round <= reached + Len(turns)
  BY <1>1, <1>2 DEF JournalEntry
<1>5. Journaled(a, env, turns) \in SUBSET JournalEntry
  BY <1>3, <1>4
<1>6. Bounded(Journaled(a, env, turns))
  <2>1. PICK k \in Nat : \A r \in journal[a] : r.round <= k
    BY DEF Bounded
  <2>2. \A r \in Journaled(a, env, turns) : r.round <= k + reached + Len(turns)
    <3> TAKE r \in Journaled(a, env, turns)
    <3>1. CASE r \in journal[a]
      BY <1>1, <2>1, <3>1 DEF JournalEntry
    <3>2. CASE r \in {New(i) : i \in DOMAIN turns}
      BY <1>1, <1>4, <1>5, <3>2 DEF JournalEntry
    <3> QED
      BY <1>3, <3>1, <3>2
  <2> QED
    BY <1>1, <2>2 DEF Bounded
<1>7. MaxCounterRound(Journaled(a, env, turns), env.thread) \in Nat
      /\ reached <= MaxCounterRound(Journaled(a, env, turns), env.thread)
  BY <1>3, <1>5, <1>6, LastRound, RoundsOnlyGrow DEF reached
<1>8. reached + Cardinality(All) <= MaxCounterRound(Journaled(a, env, turns), env.thread)
  <2>1. CASE All = {}
    <3>1. Cardinality(All) = 0
      BY <2>1, FS_EmptySet
    <3> HIDE DEF All
    <3> QED
      BY <1>1, <1>7, <3>1
  <2>2. CASE All # {}
    <3>1. All \in SUBSET Nat /\ Len(turns) \in Nat /\ \A j \in All : j <= Len(turns)
      OBVIOUS
    <3>2. PICK i \in All : \A j \in All : j <= i
      <4> HIDE DEF All
      <4> QED
        BY <2>2, <3>1, GreatestExists
    <3>3. i \in DOMAIN turns /\ turns[i] = "COUNTER" /\ By(i) = All
      BY <1>9, <3>2
    <3>4. New(i) \in Journaled(a, env, turns)
      BY <1>3, <3>3
    <3>5. New(i).debate = env.thread /\ New(i).turn = "COUNTER"
          /\ New(i).round = reached + Cardinality(All)
      BY <3>3
    <3> HIDE DEF New, All
    <3> QED
      BY <1>5, <1>6, <3>4, <3>5, LastRound
  <2> QED
    BY <2>1, <2>2
<1> QED
  BY <1>3, <1>5, <1>6, <1>8 DEF reached

-----------------------------------------------------------------------------
(* What the transition function does to the row of a debate.               *)

\* applyEnvelope leaves a well-formed row, whichever end runs it.
LEMMA RowAfterIsARow ==
  ASSUME NEW a \in Agents, NEW r \in Row, NEW m \in Message
  PROVE  P(a)!RowAfter(r, m) \in Row
<1> DEFINE Entry == P(CHOOSE e \in Agents : TRUE)!HistoryEntry
<1>1. P(a)!AppendHistory(r, m) \in SUBSET Entry
  <2>1. [eid |-> m.eid, type |-> m.type, from |-> m.from, at |-> m.at] \in Entry
    BY DEF Message, P!Envelope, P!HistoryEntry
  <2>2. r.history \in SUBSET Entry
    BY DEF Row, P!ThreadRow
  <2> QED
    BY <2>1, <2>2 DEF P!AppendHistory
<1>2. P(a)!UserOf(m.to) \in Users \cup {None}
  BY EndsAssumption DEF P!UserOf
<1>3. P(a)!Opened(m) \in Row
  BY <1>2 DEF P!Opened, Message, P!Envelope, Row, P!ThreadRow, P!Bases
<1> HIDE DEF Entry
<1>4. P(a)!Acked(r, m) \in Row
  <2>1. r.acks + 1 \in Nat
    BY DEF Row, P!ThreadRow
  <2> QED
    BY <1>1, <2>1 DEF P!Acked, Row, P!ThreadRow, Entry
<1>5. P(a)!Replied(r, m) \in Row
  <2> DEFINE turn == IF m.from = r.from THEN r.to ELSE r.from
  <2>1. turn \in Agents \cup {None}
    BY DEF Row, P!ThreadRow
  <2>2. P(a)!Replied(r, m) = [r EXCEPT !.awaiting = turn, !.history = P(a)!AppendHistory(r, m)]
    BY DEF P!Replied
  <2> HIDE DEF turn
  <2> QED
    BY <1>1, <2>1, <2>2 DEF Row, P!ThreadRow, Entry
<1>6. P(a)!Resolved(r, m) \in Row
  BY <1>1 DEF P!Resolved, Message, P!Envelope, Row, P!ThreadRow, Entry
<1> QED
  BY <1>3, <1>4, <1>5, <1>6 DEF P!RowAfter, P!Transitions

\* A row is open with its two ends, or closed, or was never opened; a debate
\* not yet opened (one after the last) has none.
RowInOrder(r, x, d, last) ==
  /\ r.status # "absent" =>
       /\ d <= last /\ r.opened_type = "REQUEST"
       /\ r.from = x /\ r.to = Peer(x) /\ r.to_user = Roster[Peer(x)]
  /\ r.status # "open" => r.awaiting = None

\* A message of one end to the other that its sender was allowed: the opening
\* and the abandonment are the originator's, any other close and the
\* acknowledgement the addressee's.
Rightful(m, origin, last) ==
  /\ m.thread <= last
  /\ m.type \in {"REQUEST", "REPLY", "ACK", "RESOLVED"}
  /\ m.to = Peer(m.from) /\ m.to_user = Roster[m.to]
  /\ m.type = "REQUEST" => m.from = origin[m.thread]
  /\ m.type = "ACK" => m.from # origin[m.thread]
  /\ m.type = "RESOLVED" => (m.from = origin[m.thread] <=> m.basis = "abandoned")

\* A rightful message is refused by nobody but for a row already closed.
LEMMA RightfulIsAccepted ==
  ASSUME NEW a \in Agents, NEW r \in Row, NEW m \in Message,
         NEW origin \in [Threads -> Agents], NEW last, Rightful(m, origin, last),
         RowInOrder(r, origin[m.thread], m.thread, last),
         r.status # "absent", m.type # "REQUEST"
  PROVE  P(a)!ClassifyRejection(m, r) =
           IF r.status = "resolved" /\ m.type \in {"RESOLVED", "REPLY"}
           THEN "stale" ELSE None
<1> DEFINE x == origin[m.thread]
<1>1. m.thread \in Threads /\ m.from \in Agents /\ x \in Agents
  BY DEF Message, P!Envelope
<1>2. r.opened_type = "REQUEST" /\ r.from = x /\ r.to_user = Roster[Peer(x)]
  BY DEF RowInOrder
<1>3. Peer(x) \in Agents /\ (m.from = x \/ m.from = Peer(x)) /\ Peer(x) # x
  BY <1>1, PeerIsTheOther
<1>4. P(a)!UserOf(m.from) = Roster[m.from] /\ Roster[Peer(x)] # None
  BY <1>1, <1>3, EndsAssumption, NullAssumption DEF P!UserOf
<1>5. m.from = Peer(x) => P(a)!IsAddressee(m, r)
  BY <1>2, <1>4 DEF P!IsAddressee
<1>6. m.from = x => P(a)!AbandoningOwnThread(m, r) \/ P(a)!ContinuingOwnThread(m, r)
  BY <1>2 DEF Rightful, P!AbandoningOwnThread, P!ContinuingOwnThread
<1> QED
  BY <1>2, <1>3, <1>5, <1>6 DEF P!ClassifyRejection

\* What a rightful message makes of a row in order.
LEMMA Transition ==
  ASSUME NEW a \in Agents, NEW r \in Row, NEW m \in Message,
         NEW origin \in [Threads -> Agents], NEW last, Rightful(m, origin, last),
         RowInOrder(r, origin[m.thread], m.thread, last),
         m.from = a /\ m.type = "REPLY" => r.status # "resolved"
  PROVE  LET after == P(a)!RowAfter(r, m) IN
         /\ RowInOrder(after, origin[m.thread], m.thread, last)
         /\ m.type = "REQUEST" => after.status = "open" /\ after.awaiting = m.to
         /\ r.status = "absent" /\ m.type # "REQUEST" => after = r
         /\ r.status # "absent" /\ m.type = "ACK"
              => after.status = r.status /\ after.awaiting = r.awaiting
         /\ r.status = "open" /\ m.type = "REPLY"
              => after.status = "open" /\ after.awaiting = Peer(m.from)
         /\ r.status # "absent" /\ m.type = "RESOLVED"
              => after.status = "resolved"
         /\ r.status = "resolved" /\ m.type = "REPLY" => after = r
<1> DEFINE x == origin[m.thread]
           after == P(a)!RowAfter(r, m)
<1>1. /\ m.thread \in Threads /\ m.from \in Agents /\ x \in Agents
      /\ r.status \in {"absent", "open", "resolved"}
  BY DEF Message, Row, P!Envelope, P!ThreadRow
<1>2. Peer(x) \in Agents /\ (m.from = x \/ m.from = Peer(x)) /\ Peer(x) # x /\ Peer(Peer(x)) = x
  BY <1>1, PeerIsTheOther
<1>3. a = m.from \/ a = m.to
  BY <1>1, PeerIsTheOther DEF Rightful
<1>4. CASE m.type = "REQUEST"
  <2>1. after = P(a)!Opened(m)
    BY <1>3, <1>4 DEF P!RowAfter, P!OutcomeOf, P!IsOurBusiness, P!Transitions
  <2>2. /\ after.status = "open" /\ after.opened_type = "REQUEST" /\ after.from = m.from
        /\ after.to = m.to /\ after.awaiting = m.to /\ after.to_user = m.to_user
    <3>1. m.to_user # None
      BY <1>1, <1>2, PeerIsTheOther, EndsAssumption, NullAssumption DEF Rightful
    <3> QED
      BY <2>1, <3>1 DEF P!Opened
  <2> QED
    BY <1>4, <2>2 DEF Rightful, RowInOrder
<1>5. CASE m.type # "REQUEST" /\ r.status = "absent"
  <2>1. after = r
    BY <1>5 DEF Rightful, P!RowAfter, P!OutcomeOf, P!Held, P!Transitions
  <2> QED
    BY <1>5, <2>1
<1>6. CASE m.type # "REQUEST" /\ r.status # "absent"
  <2>1. P(a)!Refused(m, r) <=>
          m.from # a /\ r.status = "resolved" /\ m.type \in {"RESOLVED", "REPLY"}
    BY <1>6, RightfulIsAccepted, NullAssumption DEF P!Refused
  <2>2. m.type \in {"REPLY", "ACK", "RESOLVED"} /\ P(a)!Held(r)
    BY <1>6 DEF Rightful, P!Held
  <2>3. ASSUME m.type = "ACK"
        PROVE  /\ after.status = r.status /\ after.awaiting = r.awaiting
               /\ after.from = r.from /\ after.to = r.to /\ after.to_user = r.to_user
               /\ after.opened_type = r.opened_type
    <3>1. ~P(a)!Refused(m, r)
      BY <2>1, <2>3
    <3>2. P(a)!OutcomeOf(r, m) = "acked"
      BY <2>2, <2>3, <3>1 DEF P!OutcomeOf
    <3>3. after = P(a)!Acked(r, m)
      BY <3>2 DEF P!RowAfter, P!Transitions
    <3> QED
      BY <3>3 DEF P!Acked, Row, P!ThreadRow
  <2>4. ASSUME m.type = "REPLY", r.status = "open"
        PROVE  /\ after.status = "open" /\ after.awaiting = Peer(m.from)
               /\ after.from = r.from /\ after.to = r.to /\ after.to_user = r.to_user
               /\ after.opened_type = r.opened_type
    <3>1. ~P(a)!Refused(m, r)
      BY <2>1, <2>4
    <3>2. P(a)!OutcomeOf(r, m) = "replied"
      BY <2>2, <2>4, <3>1 DEF P!OutcomeOf
    <3>3. after = P(a)!Replied(r, m)
      BY <3>2 DEF P!RowAfter, P!Transitions
    <3>4. Peer(m.from) = IF m.from = r.from THEN r.to ELSE r.from
      BY <1>2, <2>4 DEF RowInOrder
    <3> QED
      BY <2>4, <3>3, <3>4 DEF P!Replied, Row, P!ThreadRow
  <2>5. ASSUME m.type = "REPLY", r.status = "resolved"
        PROVE  after = r
    <3>1. P(a)!Refused(m, r)
      BY <2>1, <2>5
    <3>2. P(a)!OutcomeOf(r, m) = "rejected"
      BY <2>2, <2>5, <3>1 DEF P!OutcomeOf
    <3> QED
      BY <3>2 DEF P!RowAfter, P!Transitions
  <2>6. ASSUME m.type = "RESOLVED", P(a)!Refused(m, r)
        PROVE  after = r /\ r.status = "resolved"
    <3>1. P(a)!OutcomeOf(r, m) = "rejected"
      BY <2>2, <2>6 DEF P!OutcomeOf
    <3> QED
      BY <2>1, <2>6, <3>1 DEF P!RowAfter, P!Transitions
  <2>7. ASSUME m.type = "RESOLVED", ~P(a)!Refused(m, r)
        PROVE  /\ after.status = "resolved" /\ after.awaiting = None
               /\ after.from = r.from /\ after.to = r.to /\ after.to_user = r.to_user
               /\ after.opened_type = r.opened_type
    <3>1. P(a)!OutcomeOf(r, m) = "resolved"
      BY <2>2, <2>7 DEF P!OutcomeOf
    <3>2. after = P(a)!Resolved(r, m)
      BY <3>1 DEF P!RowAfter, P!Transitions
    <3> QED
      BY <3>2 DEF P!Resolved, Row, P!ThreadRow
  <2> HIDE DEF after
  <2>8. RowInOrder(after, x, m.thread, last)
    BY <1>1, <1>6, <2>2, <2>3, <2>4, <2>5, <2>6, <2>7 DEF RowInOrder
  <2> QED
    BY <1>1, <1>6, <2>2, <2>3, <2>4, <2>5, <2>6, <2>7, <2>8 DEF after
<1> QED
  BY <1>4, <1>5, <1>6

-----------------------------------------------------------------------------
(* Types.                                                                  *)

TypeOK ==
  /\ row \in [Agents -> [Threads -> Row]]
  /\ journal \in [Agents -> SUBSET JournalEntry]
  /\ \A a \in Agents : Bounded(journal[a])
  /\ sending \in [Agents -> InFlight \cup {None}]
  /\ queue \in [Agents -> Seq(Message)]
  /\ sends \in Nat /\ opened \in Nat /\ crashes \in Nat
  /\ countered \in [Threads -> Nat] /\ unrecorded \in [Threads -> Nat]

LEMMA NoThreadIsARow ==
  ASSUME NEW a \in Agents
  PROVE  P(a)!NoThread \in Row /\ P(a)!NoThread.status = "absent"
         /\ P(a)!NoThread.awaiting = None
  BY DEF P!NoThread, Row, P!ThreadRow, P!Bases

\* What the mutex of an end holds, when it holds something.
LEMMA SendingType ==
  ASSUME TypeOK, NEW a \in Agents, sending[a] # None
  PROVE  /\ sending[a] \in InFlight /\ sending[a].env \in Message
         /\ sending[a].env.thread \in Threads /\ sending[a].env.from \in Agents
         /\ sending[a].env.eid \in Eids /\ sending[a].turns \in Seq(Turns)
         /\ sending[a].existing \in Row /\ sending[a].landed \in BOOLEAN
<1>1. sending[a] \in InFlight
  BY DEF TypeOK
<1> QED
  BY <1>1 DEF InFlight, Message, P!Envelope

\* The send that Begin puts in flight.
LEMMA BegunType ==
  ASSUME TypeOK, NEW a \in Agents, NEW in \in Says, Begin(a, in)
  PROVE  [env |-> EnvelopeOf(a, in, sends + 1), turns |-> in.turns,
          existing |-> HeldRow(a, in), landed |-> FALSE] \in InFlight
<1>1. in.type # "REQUEST" => in.thread \in Threads
  BY SaysAssumption
<1>2. HeldRow(a, in) \in Row
  BY <1>1, NoThreadIsARow DEF HeldRow, TypeOK
<1>3. sends + 1 \in Eids /\ sends + 1 \in Nat
  BY BoundsAssumption DEF Begin, TypeOK
<1>4. Peer(a) \in Agents /\ Roster[Peer(a)] \in Users
  BY PeerIsTheOther, EndsAssumption
<1>5. DebateOf(in) \in Threads
  BY DEF Begin
<1>6. EnvelopeOf(a, in, sends + 1) \in Message
  BY <1>3, <1>4, <1>5, SaysAssumption DEF EnvelopeOf, Message, P!Envelope, P!Types, P!Bases
<1>7. in.turns \in Seq(Turns)
  BY SaysAssumption
<1> QED
  BY <1>2, <1>6, <1>7 DEF InFlight

\* What a queue holds once a message is appended to it.
LEMMA LandedQueues ==
  ASSUME TypeOK, NEW a \in Agents, Land(a)
  PROVE  /\ queue' \in [Agents -> Seq(Message)]
         /\ \A x \in Agents \ {Peer(a)} : queue'[x] = queue[x]
         /\ LET y == Peer(a)  last == Len(queue[y]) + 1 IN
            /\ last \in DOMAIN queue'[y] /\ queue'[y][last] = sending[a].env
            /\ DOMAIN queue[y] = 1..(last - 1) /\ DOMAIN queue'[y] = 1..last
            /\ last \in Nat
            /\ \A i \in DOMAIN queue[y] : queue'[y][i] = queue[y][i]
<1> DEFINE y == Peer(a)
           m == sending[a].env
           q == queue[y]
<1>1. y \in Agents /\ q \in Seq(Message) /\ m \in Message
  BY PeerIsTheOther, SendingType DEF TypeOK, Land
<1>2. queue' = [queue EXCEPT ![y] = Append(q, m)]
  BY DEF Land
<1>3. /\ Append(q, m) \in Seq(Message) /\ Len(Append(q, m)) = Len(q) + 1
      /\ \A i \in 1..Len(q) : Append(q, m)[i] = q[i]
      /\ Append(q, m)[Len(q) + 1] = m
  BY <1>1, AppendProperties
<1>4. queue'[y] = Append(q, m) /\ \A x \in Agents \ {y} : queue'[x] = queue[x]
  BY <1>1, <1>2 DEF TypeOK
<1>5. queue' \in [Agents -> Seq(Message)]
  BY <1>1, <1>2, <1>3 DEF TypeOK
<1>6. DOMAIN q = 1..Len(q) /\ DOMAIN queue'[y] = 1..(Len(q) + 1) /\ Len(q) \in Nat
  BY <1>1, <1>3, <1>4
<1> QED
  BY <1>3, <1>4, <1>5, <1>6

\* What it holds once its first messages have been admitted.
LEMMA AdmittedQueues ==
  ASSUME TypeOK, NEW a \in Agents, NEW n \in 1..Len(queue[a]),
         queue' = [queue EXCEPT ![a] = SubSeq(@, n + 1, Len(@))]
  PROVE  /\ queue' \in [Agents -> Seq(Message)]
         /\ \A x \in Agents \ {a} : queue'[x] = queue[x]
         /\ DOMAIN queue[a] = 1..Len(queue[a]) /\ n \in DOMAIN queue[a] /\ n \in Nat
         /\ Len(queue[a]) \in Nat
         /\ DOMAIN queue'[a] = 1..(Len(queue[a]) - n)
         /\ \A i \in DOMAIN queue'[a] :
              i + n \in DOMAIN queue[a] /\ queue'[a][i] = queue[a][i + n]
         /\ \A i \in DOMAIN queue[a] : i > n =>
              i - n \in DOMAIN queue'[a] /\ queue'[a][i - n] = queue[a][i]
<1> DEFINE q == queue[a]
           rest == SubSeq(q, n + 1, Len(q))
<1>1. q \in Seq(Message) /\ Len(q) \in Nat /\ DOMAIN q = 1..Len(q) /\ n \in 1..Len(q)
  BY DEF TypeOK
<1>2. \A i \in (n + 1)..Len(q) : q[i] \in Message
  BY <1>1
<1>3. /\ rest \in Seq(Message)
      /\ Len(rest) = IF n + 1 <= Len(q) THEN Len(q) - (n + 1) + 1 ELSE 0
      /\ \A i \in 1..(Len(q) - (n + 1) + 1) : rest[i] = q[(n + 1) + i - 1]
  <2>1. n + 1 \in Int /\ Len(q) \in Int
    BY <1>1
  <2> HIDE DEF q
  <2> QED
    BY <1>2, <2>1, SubSeqProperties
<1>4. queue'[a] = rest /\ \A x \in Agents \ {a} : queue'[x] = queue[x]
  BY DEF TypeOK
<1>5. queue' \in [Agents -> Seq(Message)]
  BY <1>3 DEF TypeOK
<1> HIDE DEF q, rest
<1>6. Len(rest) = Len(q) - n /\ DOMAIN rest = 1..(Len(q) - n)
  BY <1>1, <1>3
<1>7. \A i \in DOMAIN rest : i + n \in DOMAIN q /\ rest[i] = q[i + n]
  <2> TAKE i \in DOMAIN rest
  <2>1. i \in 1..(Len(q) - n) /\ (n + 1) + i - 1 = i + n /\ i \in 1..(Len(q) - (n + 1) + 1)
    BY <1>1, <1>6
  <2>2. rest[i] = q[(n + 1) + i - 1]
    BY <1>3, <2>1
  <2>3. i + n \in DOMAIN q
    BY <1>1, <2>1
  <2> QED
    BY <2>1, <2>2, <2>3
<1>8. \A i \in DOMAIN q : i > n => i - n \in DOMAIN rest /\ rest[i - n] = q[i]
  <2> TAKE i \in DOMAIN q
  <2>1. i > n => i - n \in DOMAIN rest /\ (i - n) + n = i
    BY <1>1, <1>6
  <2> QED
    BY <1>7, <2>1
<1> QED
  BY <1>1, <1>4, <1>5, <1>6, <1>7, <1>8 DEF q

\* What admitting a batch makes of the rows of the end that admits it: each is
\* what one message of the batch makes of it, or is left as it was, and a
\* debate that comes out whole had one message in the batch, or none.
LEMMA AdmittedRows ==
  ASSUME TypeOK, NEW a \in Agents, NEW n \in 1..Len(queue[a]), NEW d \in Threads
  PROVE  /\ \/ RowAdmitted(a, n, d) = row[a][d]
            \/ \E i \in DOMAIN queue[a] :
                 /\ i <= n /\ queue[a][i].thread = d
                 /\ RowAdmitted(a, n, d) = P(a)!RowAfter(row[a][d], queue[a][i])
         /\ ~(Cardinality(Batched(a, n, d)) > 1) /\ Batched(a, n, d) # {} =>
              \E i \in DOMAIN queue[a] :
                 /\ Batched(a, n, d) = {i}
                 /\ RowAdmitted(a, n, d) = P(a)!RowAfter(row[a][d], queue[a][i])
         /\ Batched(a, n, d) = {} => RowAdmitted(a, n, d) = row[a][d]
<1>1. /\ queue[a] \in Seq(Message) /\ DOMAIN queue[a] = 1..Len(queue[a])
      /\ Len(queue[a]) \in Nat /\ n \in Nat /\ 1..n \subseteq DOMAIN queue[a]
  BY DEF TypeOK
<1>2. Writers(a, n, d) \subseteq Batched(a, n, d) /\ Batched(a, n, d) \subseteq 1..n
  BY DEF Writers, Batched
<1>3. Writers(a, n, d) # {} => LastOf(Writers(a, n, d)) \in Writers(a, n, d)
  <2>1. Writers(a, n, d) \in SUBSET Nat /\ \A m \in Writers(a, n, d) : m <= n
    BY <1>1, <1>2
  <2> QED
    BY <1>1, <2>1, GreatestExists DEF LastOf
<1>4. Writers(a, n, d) # {} =>
        /\ LastOf(Writers(a, n, d)) \in Batched(a, n, d)
        /\ RowAdmitted(a, n, d)
             = P(a)!RowAfter(row[a][d], queue[a][LastOf(Writers(a, n, d))])
  BY <1>2, <1>3 DEF RowAdmitted
<1>5. Writers(a, n, d) = {} => RowAdmitted(a, n, d) = row[a][d]
  BY DEF RowAdmitted
<1>6. ASSUME ~(Cardinality(Batched(a, n, d)) > 1), Batched(a, n, d) # {}
      PROVE  \E i \in DOMAIN queue[a] :
               /\ Batched(a, n, d) = {i}
               /\ RowAdmitted(a, n, d) = P(a)!RowAfter(row[a][d], queue[a][i])
  <2>1. IsFiniteSet(Batched(a, n, d))
    <3>1. IsFiniteSet(1..n)
      BY <1>1, FS_Interval
    <3> QED
      BY <1>2, <3>1, FS_Subset
  <2>2. Cardinality(Batched(a, n, d)) = 1
    BY <1>6, <2>1, FS_CardinalityType, FS_EmptySet
  <2>3. PICK i : Batched(a, n, d) = {i}
    BY <2>1, <2>2, FS_Singleton
  <2>4. i \in DOMAIN queue[a]
    BY <1>1, <1>2, <2>3
  <2>5. CASE Writers(a, n, d) # {}
    BY <1>4, <2>3, <2>4, <2>5
  <2>6. CASE Writers(a, n, d) = {}
    <3>1. P(a)!OutcomeOf(row[a][d], queue[a][i]) \notin P(a)!Transitions
      BY <2>3, <2>6 DEF Writers
    <3>2. P(a)!RowAfter(row[a][d], queue[a][i]) = row[a][d]
      BY <3>1 DEF P!RowAfter, P!Transitions
    <3> QED
      BY <1>5, <2>3, <2>4, <2>6, <3>2
  <2> QED
    BY <2>5, <2>6
<1>7. Writers(a, n, d) # {} =>
        \E i \in DOMAIN queue[a] :
           /\ i <= n /\ queue[a][i].thread = d
           /\ RowAdmitted(a, n, d) = P(a)!RowAfter(row[a][d], queue[a][i])
  BY <1>1, <1>2, <1>4 DEF Batched
<1> QED
  BY <1>2, <1>5, <1>6, <1>7

\* Init
LEMMA TypeInit == Init => TypeOK
<1> SUFFICES ASSUME Init PROVE TypeOK
  OBVIOUS
<1>1. row \in [Agents -> [Threads -> Row]]
  BY NoThreadIsARow DEF Init
<1>2. \A a \in Agents : journal[a] = {} /\ Bounded(journal[a])
  BY DEF Init, Bounded
<1>3. sending \in [Agents -> InFlight \cup {None}] /\ queue \in [Agents -> Seq(Message)]
  BY DEF Init
<1> QED
  BY <1>1, <1>2, <1>3 DEF Init, TypeOK

\* Every action keeps the types.
LEMMA TypeStep == TypeOK /\ [Next]_vars => TypeOK'
<1> SUFFICES ASSUME TypeOK, [Next]_vars PROVE TypeOK'
  OBVIOUS
<1>1. ASSUME NEW a \in Agents, NEW in \in Says, Begin(a, in) PROVE TypeOK'
  <2>1. sending' \in [Agents -> InFlight \cup {None}]
    BY <1>1, BegunType DEF Begin, TypeOK
  <2>2. sends' \in Nat /\ opened' \in Nat
    BY <1>1 DEF Begin, TypeOK
  <2> QED
    BY <1>1, <2>1, <2>2 DEF Begin, TypeOK, history
<1>2. ASSUME NEW a \in Agents, Land(a) PROVE TypeOK'
  <2>1. queue' \in [Agents -> Seq(Message)]
    BY <1>2, LandedQueues
  <2>2. [sending[a] EXCEPT !.landed = TRUE] \in InFlight
    BY <1>2, SendingType DEF Land, InFlight
  <2>3. sending' \in [Agents -> InFlight \cup {None}]
    BY <1>2, <2>2 DEF Land, TypeOK
  <2>4. countered' \in [Threads -> Nat]
    <3>1. countered[sending[a].env.thread] + Cardinality(Counters(sending[a])) \in Nat
      BY <1>2, SendingType, CountersOf DEF Land, TypeOK
    <3>2. countered' = [countered EXCEPT ![sending[a].env.thread] =
                          @ + Cardinality(Counters(sending[a]))]
      BY <1>2 DEF Land
    <3> QED
      BY <3>1, <3>2 DEF TypeOK
  <2> QED
    BY <1>2, <2>1, <2>3, <2>4 DEF Land, TypeOK
<1>3. ASSUME NEW a \in Agents, sending[a] # None, Forgotten(sending[a])
      PROVE  unrecorded' \in [Threads -> Nat]
  <2>1. unrecorded[sending[a].env.thread] + Cardinality(Counters(sending[a])) \in Nat
    BY <1>3, SendingType, CountersOf DEF TypeOK
  <2>2. \/ unrecorded' = unrecorded
        \/ unrecorded' = [unrecorded EXCEPT ![sending[a].env.thread] =
                             @ + Cardinality(Counters(sending[a]))]
    BY <1>3 DEF Forgotten
  <2> QED
    BY <2>1, <2>2 DEF TypeOK
<1>4. ASSUME NEW a \in Agents, Miss(a) PROVE TypeOK'
  <2>1. unrecorded' \in [Threads -> Nat]
    BY <1>3, <1>4 DEF Miss
  <2> DEFINE s == sending[a]
             after == P(a)!RowAfter(s.existing, s.env)
  <2>2. after \in Row
    BY <1>4, SendingType, RowAfterIsARow DEF Miss
  <2>3. [after EXCEPT !.delivered = FALSE] \in Row
    <3> HIDE DEF after
    <3> QED
      BY <2>2 DEF Row, P!ThreadRow
  <2>4. row' \in [Agents -> [Threads -> Row]]
    <3> HIDE DEF after
    <3> QED
      BY <1>4, <2>3 DEF Miss, TypeOK, after
  <2>5. sending' \in [Agents -> InFlight \cup {None}]
    BY <1>4 DEF Miss, TypeOK
  <2> QED
    BY <1>4, <2>1, <2>4, <2>5 DEF Miss, TypeOK
<1>5. ASSUME NEW a \in Agents, Record(a) PROVE TypeOK'
  <2> DEFINE s == sending[a]
             more == Journaled(a, s.env, s.turns)
  <2>1. P(a)!RowAfter(s.existing, s.env) \in Row
    BY <1>5, SendingType, RowAfterIsARow DEF Record
  <2>2. row' \in [Agents -> [Threads -> Row]]
    BY <1>5, <2>1 DEF Record, TypeOK
  <2>3. more \in SUBSET JournalEntry /\ Bounded(more)
    <3>1. journal[a] \in SUBSET JournalEntry /\ Bounded(journal[a])
      BY DEF TypeOK
    <3>2. s.env.thread \in Threads /\ s.env.eid \in Eids /\ s.turns \in Seq(Turns)
      BY <1>5, SendingType DEF Record
    <3> QED
      BY <3>1, <3>2, JournaledRounds
  <2>4. journal' = [journal EXCEPT ![a] = more]
    BY <1>5 DEF Record
  <2>5. journal' \in [Agents -> SUBSET JournalEntry] /\ \A x \in Agents : Bounded(journal'[x])
    <3> HIDE DEF more
    <3> QED
      BY <2>3, <2>4 DEF TypeOK
  <2>6. sending' \in [Agents -> InFlight \cup {None}]
    BY <1>5 DEF Record, TypeOK
  <2> QED
    BY <1>5, <2>2, <2>5, <2>6 DEF Record, TypeOK, history, Bounded
<1>6. ASSUME NEW a \in Agents, Crash(a) PROVE TypeOK'
  <2>1. unrecorded' \in [Threads -> Nat]
    BY <1>3, <1>6 DEF Crash
  <2>2. sending' \in [Agents -> InFlight \cup {None}] /\ crashes' \in Nat
    BY <1>6 DEF Crash, TypeOK
  <2> QED
    BY <1>6, <2>1, <2>2 DEF Crash, TypeOK
<1>7. ASSUME NEW a \in Agents, Admit(a) PROVE TypeOK'
  <2>1. PICK n \in 1..Len(queue[a]) :
          /\ row' = [row EXCEPT ![a] = [d \in Threads |-> RowAdmitted(a, n, d)]]
          /\ queue' = [queue EXCEPT ![a] = SubSeq(@, n + 1, Len(@))]
    BY <1>7 DEF Admit
  <2>2. queue' \in [Agents -> Seq(Message)]
    BY <2>1, AdmittedQueues
  <2>3. \A d \in Threads : RowAdmitted(a, n, d) \in Row
    <3> TAKE d \in Threads
    <3>1. row[a][d] \in Row /\ \A i \in DOMAIN queue[a] : queue[a][i] \in Message
      BY DEF TypeOK
    <3> QED
      BY <3>1, AdmittedRows, RowAfterIsARow
  <2>4. row' \in [Agents -> [Threads -> Row]]
    BY <2>1, <2>3 DEF TypeOK
  <2> QED
    BY <1>7, <2>2, <2>4 DEF Admit, TypeOK
<1>8. CASE UNCHANGED vars
  BY <1>8 DEF vars, history, TypeOK
<1> QED
  BY <1>1, <1>2, <1>4, <1>5, <1>6, <1>7, <1>8 DEF Next

-----------------------------------------------------------------------------
(* Who says what: the rows, the sends and the messages of a debate follow  *)
(* from who opened it.                                                     *)

Flying(a, d) == sending[a] # None /\ sending[a].env.thread = d

Holds(a, d) == row[a][d].status # "absent"

RowsInOrder(origin) ==
  \A a \in Agents, d \in Threads : RowInOrder(row[a][d], origin[d], d, opened)

SendInOrder(s, a, origin, last) ==
  LET d == s.env.thread IN
  /\ Rightful(s.env, origin, last) /\ s.env.from = a
  /\ RowInOrder(s.existing, origin[d], d, last)
  /\ s.env.type = "REQUEST" <=> s.existing.status = "absent"
  /\ s.env.type \in {"REPLY", "RESOLVED"} => s.existing.status = "open"
  /\ Carries(s, "COUNTER") => a = origin[d]

SendsInOrder(origin) ==
  \A a \in Agents : sending[a] # None => SendInOrder(sending[a], a, origin, opened)

QueuesInOrder(origin) ==
  \A a \in Agents : \A i \in DOMAIN queue[a] :
    Rightful(queue[a][i], origin, opened) /\ queue[a][i].from = Peer(a)

\* An opening on its way is the first that anybody hears of its debate.
OpeningsAreFirst ==
  /\ \A a, x \in Agents, d \in Threads :
       Flying(a, d) /\ sending[a].env.type = "REQUEST" /\ ~sending[a].landed =>
         /\ ~Holds(x, d)
         /\ \A i \in DOMAIN queue[x] : queue[x][i].thread # d
         /\ x # a => ~Flying(x, d)
  /\ \A x \in Agents, d \in Threads : \A i \in DOMAIN queue[x] :
       queue[x][i].type = "REQUEST" /\ queue[x][i].thread = d =>
         /\ ~Holds(x, d) /\ ~Flying(x, d)
         /\ \A j \in DOMAIN queue[x] : queue[x][j].thread = d => i <= j

InOrder(origin) ==
  /\ RowsInOrder(origin) /\ SendsInOrder(origin) /\ QueuesInOrder(origin)
  /\ OpeningsAreFirst

\* Who opened each debate, once an end has begun to send.
Origins(origin, a, in) ==
  IF in.type = "REQUEST" THEN [origin EXCEPT ![opened + 1] = a] ELSE origin

\* What validateSend has established of a send that it lets through.
LEMMA MayBegin ==
  ASSUME TypeOK, NEW origin \in [Threads -> Agents], RowsInOrder(origin),
         NEW a \in Agents, NEW in \in Says, Begin(a, in)
  PROVE  LET d == DebateOf(in)  r == HeldRow(a, in) IN
         /\ in.type = "REQUEST" =>
              /\ d = opened + 1 /\ opened' = opened + 1
              /\ r = P(a)!NoThread /\ ~Carries(in, "COUNTER")
         /\ in.type # "REQUEST" =>
              /\ d = in.thread /\ opened' = opened
              /\ r = row[a][d] /\ Holds(a, d)
         /\ in.type \in {"REPLY", "RESOLVED"} => r.status = "open"
         /\ in.type = "ACK" => a = Peer(origin[d])
         /\ in.type = "RESOLVED" =>
              IF in.basis = "abandoned" THEN a = origin[d] ELSE a = Peer(origin[d])
         /\ Carries(in, "COUNTER") =>
              a = origin[d] /\ MaxCounterRound(journal[a], d) + 1 <= MaxRounds
<1> DEFINE d == DebateOf(in)
           r == HeldRow(a, in)
           to == [in EXCEPT !.to = Peer(a)]
<1>1. /\ d \in Threads /\ P(a)!LoopPrevention(to, r) = None /\ ~RefusedTurn(a, in, d, r)
      /\ in.type \in {"REQUEST", "REPLY", "ACK", "RESOLVED"}
      /\ in.type # "REQUEST" => in.thread \in Threads
  BY SaysAssumption DEF Begin, MaySay
<1>2. to.type = in.type /\ to.basis = in.basis /\ to.to = Peer(a)
  <2>1. in = [type |-> in.type, turns |-> in.turns, thread |-> in.thread,
              basis |-> in.basis, to |-> in.to, patch |-> in.patch]
    BY SaysAssumption
  <2> HIDE DEF d, r
  <2> QED
    BY <2>1
<1>3. in.type = "REQUEST" =>
        d = opened + 1 /\ opened' = opened + 1 /\ r = P(a)!NoThread
  BY DEF Begin, DebateOf, HeldRow
<1>4. in.type # "REQUEST" => d = in.thread /\ opened' = opened /\ r = row[a][d]
  BY DEF Begin, DebateOf, HeldRow
<1> HIDE DEF to
<1>5. in.type # "REQUEST" => r.status # "absent" /\ r.opened_type = "REQUEST"
  BY <1>1, <1>2, NullAssumption DEF P!LoopPrevention, P!InThreadTypes, P!Held
<1>6. in.type # "REQUEST" =>
        r.from = origin[d] /\ r.to = Peer(origin[d]) /\ origin[d] \in Agents
  BY <1>1, <1>4, <1>5 DEF RowsInOrder, RowInOrder
<1>7. r \in Row
  BY <1>1, <1>3, <1>4, NoThreadIsARow DEF TypeOK
<1> HIDE DEF d, r
<1>8. in.type = "REPLY" => r.status = "open"
  <2>1. in.type = "REPLY" => P(a)!RefusedReply(to, r) = None
    BY <1>1, <1>2, <1>5 DEF P!LoopPrevention, P!InThreadTypes, P!Held
  <2>2. a \in {r.from, r.to} \/ in.type # "REPLY"
    BY <2>1, NullAssumption DEF P!RefusedReply
  <2>3. in.type = "REPLY" => r.status # "resolved"
    BY <2>1, <2>2, NullAssumption DEF P!RefusedReply
  <2> QED
    BY <1>5, <1>7, <2>3 DEF Row, P!ThreadRow
<1>9. in.type \in {"ACK", "RESOLVED"} =>
        /\ P(a)!RefusedClose(to, r) = None
        /\ in.type = "RESOLVED" => r.status # "resolved"
  BY <1>1, <1>2, <1>5, NullAssumption DEF P!LoopPrevention, P!InThreadTypes, P!Held
<1>10. in.type = "RESOLVED" => r.status = "open"
  BY <1>5, <1>7, <1>9 DEF Row, P!ThreadRow
<1>11. in.type = "RESOLVED" /\ in.basis = "abandoned" => a = origin[d]
  BY <1>2, <1>6, <1>9, NullAssumption DEF P!RefusedClose
<1>12. in.type = "ACK" \/ (in.type = "RESOLVED" /\ in.basis # "abandoned") => a = Peer(origin[d])
  BY <1>2, <1>6, <1>9, NullAssumption DEF P!RefusedClose
<1>13. Carries(in, "COUNTER") =>
         r.from = a /\ MaxCounterRound(journal[a], d) + 1 <= MaxRounds
  <2>1. MaxCounterRound(journal[a], d) \in Nat
    BY LastRound DEF TypeOK
  <2> QED
    BY <1>1, <2>1, BoundsAssumption DEF RefusedTurn, Exhausted
<1>14. in.type = "REQUEST" => ~Carries(in, "COUNTER")
  <2>1. P(a)!NoThread.from = None
    BY DEF P!NoThread
  <2> QED
    BY <1>3, <1>13, <2>1, NullAssumption
<1> QED
  BY <1>1, <1>3, <1>4, <1>5, <1>6, <1>8, <1>10, <1>11, <1>12, <1>13, <1>14 DEF d, r, Holds

\* Opening one more debate changes nothing of what was in order.
LEMMA StillInOrder ==
  ASSUME NEW last \in Nat, NEW more \in Nat, last <= more,
         NEW origin, NEW other, \A d \in Threads : d <= last => other[d] = origin[d]
  PROVE  /\ \A d \in Threads : \A r : RowInOrder(r, origin[d], d, last)
                                    => RowInOrder(r, other[d], d, more)
         /\ \A m \in Message : Rightful(m, origin, last) => Rightful(m, other, more)
<1>1. \A d \in Threads : d \in Nat
  BY BoundsAssumption
<1>2. \A m \in Message : m.thread \in Threads
  BY DEF Message, P!Envelope
<1> QED
  BY <1>1, <1>2 DEF RowInOrder, Rightful

LEMMA BeginOrigins ==
  ASSUME TypeOK, NEW origin \in [Threads -> Agents],
         NEW a \in Agents, NEW in \in Says, Begin(a, in)
  PROVE  /\ Origins(origin, a, in) \in [Threads -> Agents]
         /\ \A d \in Threads : d <= opened => Origins(origin, a, in)[d] = origin[d]
         /\ opened \in Nat /\ opened' \in Nat /\ opened <= opened'
         /\ in.type = "REQUEST" =>
              /\ opened + 1 \in Threads /\ opened' = opened + 1
              /\ Origins(origin, a, in)[opened + 1] = a
  BY BoundsAssumption DEF Origins, Begin, DebateOf, TypeOK

LEMMA BeginInOrder ==
  ASSUME TypeOK, NEW origin \in [Threads -> Agents], InOrder(origin),
         NEW a \in Agents, NEW in \in Says, Begin(a, in),
         NEW other, other = Origins(origin, a, in)
  PROVE  InOrder(other)'
<1> DEFINE d == DebateOf(in)
           m == EnvelopeOf(a, in, sends + 1)
           s == [env |-> m, turns |-> in.turns, existing |-> HeldRow(a, in), landed |-> FALSE]
<1>1. /\ other \in [Threads -> Agents] /\ \A t \in Threads : t <= opened => other[t] = origin[t]
      /\ opened \in Nat /\ opened' \in Nat /\ opened <= opened'
  BY BeginOrigins
<1>2. /\ row' = row /\ queue' = queue /\ sending' = [sending EXCEPT ![a] = s]
      /\ d \in Threads /\ sending[a] = None
  BY DEF Begin
<1>3. s \in InFlight
  BY BegunType
<1>4. sending'[a] = s /\ \A x \in Agents \ {a} : sending'[x] = sending[x]
  BY <1>2 DEF TypeOK
<1>5. /\ m.type = in.type /\ m.basis = in.basis /\ m.from = a /\ m.to = Peer(a)
      /\ m.to_user = Roster[Peer(a)] /\ m.thread = d
      /\ s.env = m /\ s.turns = in.turns /\ s.existing = HeldRow(a, in) /\ s.landed = FALSE
  BY DEF EnvelopeOf
<1>6. (\A t \in Threads : \A r : RowInOrder(r, origin[t], t, opened)
                                => RowInOrder(r, other[t], t, opened'))
      /\ \A e \in Message : Rightful(e, origin, opened) => Rightful(e, other, opened')
  BY <1>1, StillInOrder
<1>7. RowsInOrder(origin) /\ SendsInOrder(origin) /\ QueuesInOrder(origin) /\ OpeningsAreFirst
  BY DEF InOrder
<1>8. /\ in.type = "REQUEST" =>
           /\ d = opened + 1 /\ opened' = opened + 1 /\ other[d] = a
           /\ HeldRow(a, in) = P(a)!NoThread /\ ~Carries(in, "COUNTER")
      /\ in.type # "REQUEST" =>
           /\ opened' = opened /\ other = origin
           /\ HeldRow(a, in) = row[a][d] /\ Holds(a, d)
      /\ in.type \in {"REPLY", "RESOLVED"} => HeldRow(a, in).status = "open"
      /\ in.type = "ACK" => a = Peer(origin[d])
      /\ in.type = "RESOLVED" =>
           IF in.basis = "abandoned" THEN a = origin[d] ELSE a = Peer(origin[d])
      /\ Carries(in, "COUNTER") => a = origin[d]
      /\ in.type \in {"REQUEST", "REPLY", "ACK", "RESOLVED"}
  BY <1>7, MayBegin, BeginOrigins, SaysAssumption DEF Origins
<1> HIDE DEF d, m, s
<1>9. RowsInOrder(other)'
  BY <1>2, <1>6, <1>7 DEF RowsInOrder
<1>10. d <= opened'
  <2>1. CASE in.type = "REQUEST"
    BY <1>1, <1>8, <2>1
  <2>2. CASE in.type # "REQUEST"
    <3>1. Holds(a, d) /\ opened' = opened
      BY <1>8, <2>2
    <3> QED
      BY <1>2, <1>7, <3>1 DEF RowsInOrder, RowInOrder, Holds
  <2> QED
    BY <2>1, <2>2
<1>11. SendsInOrder(other)'
  <2>1. ASSUME NEW x \in Agents \ {a}, sending[x] # None
        PROVE  SendInOrder(sending[x], x, other, opened')
    <3>1. SendInOrder(sending[x], x, origin, opened) /\ sending[x].env \in Message
          /\ sending[x].env.thread \in Threads
      BY <1>7, <2>1, SendingType DEF SendsInOrder
    <3>2. sending[x].env.thread <= opened
      BY <3>1 DEF SendInOrder, Rightful
    <3> QED
      BY <1>1, <1>6, <3>1, <3>2 DEF SendInOrder
  <2>2. SendInOrder(s, a, other, opened')
    <3>1. other[d] \in Agents /\ Peer(a) # a
      BY <1>1, <1>2, PeerIsTheOther
    <3>2. origin[d] \in Agents /\ Peer(origin[d]) # origin[d]
      BY <1>2, PeerIsTheOther
    <3>3. Rightful(m, other, opened')
      BY <1>5, <1>8, <1>10, <3>2 DEF Rightful
    <3>4. RowInOrder(s.existing, other[d], d, opened')
      <4>1. CASE in.type = "REQUEST"
        BY <1>5, <1>8, <4>1, NoThreadIsARow DEF RowInOrder
      <4>2. CASE in.type # "REQUEST"
        BY <1>2, <1>5, <1>7, <1>8, <4>2 DEF RowsInOrder
      <4> QED
        BY <4>1, <4>2
    <3>5. Carries(s, "COUNTER") <=> Carries(in, "COUNTER")
      BY <1>5 DEF Carries
    <3>6. m.type = "REQUEST" <=> s.existing.status = "absent"
      BY <1>5, <1>8, NoThreadIsARow DEF Holds
    <3> QED
      BY <1>5, <1>8, <3>3, <3>4, <3>5, <3>6 DEF SendInOrder
  <2> QED
    BY <1>4, <2>1, <2>2 DEF SendsInOrder
<1>12. QueuesInOrder(other)'
  <2>1. \A x \in Agents : \A i \in DOMAIN queue[x] : queue[x][i] \in Message
    BY DEF TypeOK
  <2> QED
    BY <1>2, <1>6, <1>7, <2>1 DEF QueuesInOrder
<1>13. OpeningsAreFirst'
  <2>1. \A x \in Agents, t \in Threads : Holds(x, t)' <=> Holds(x, t)
    BY <1>2 DEF Holds
  <2>2. \A x \in Agents \ {a}, t \in Threads : Flying(x, t)' <=> Flying(x, t)
    BY <1>4 DEF Flying
  <2>3. \A t \in Threads : Flying(a, t)' <=> t = d
    BY <1>3, <1>4, <1>5, NullAssumption DEF Flying
  <2>4. in.type = "REQUEST" =>
          /\ \A x \in Agents : ~Holds(x, d) /\ \A i \in DOMAIN queue[x] : queue[x][i].thread # d
          /\ \A x \in Agents \ {a} : ~Flying(x, d)
    <3> SUFFICES ASSUME in.type = "REQUEST"
                 PROVE  /\ \A x \in Agents : /\ ~Holds(x, d)
                                             /\ \A i \in DOMAIN queue[x] : queue[x][i].thread # d
                        /\ \A x \in Agents \ {a} : ~Flying(x, d)
      OBVIOUS
    <3>1. d = opened + 1 /\ ~(d <= opened)
      BY <1>1, <1>8
    <3> QED
      BY <1>2, <1>7, <3>1 DEF RowsInOrder, RowInOrder, Holds, QueuesInOrder, Rightful,
                              SendsInOrder, SendInOrder, Flying
  <2>5. ASSUME NEW x \in Agents, NEW y \in Agents, NEW t \in Threads,
               Flying(x, t)', sending'[x].env.type = "REQUEST", ~sending'[x].landed
        PROVE  /\ ~Holds(y, t)
               /\ \A i \in DOMAIN queue[y] : queue[y][i].thread # t
               /\ y # x => ~Flying(y, t)'
    <3>1. CASE x = a
      BY <1>4, <1>5, <2>2, <2>3, <2>4, <2>5, <3>1
    <3>2. CASE x # a
      <4>1. /\ \A z \in Agents : ~Holds(z, t) /\ \A i \in DOMAIN queue[z] : queue[z][i].thread # t
            /\ \A z \in Agents : z # x => ~Flying(z, t)
            /\ Flying(x, t)
        BY <1>4, <1>7, <2>2, <2>5, <3>2 DEF OpeningsAreFirst
      <4>2. ASSUME t = d PROVE FALSE
        <5>1. in.type # "REQUEST"
          BY <2>4, <3>2, <4>1, <4>2
        <5> QED
          BY <1>8, <4>1, <4>2, <5>1
      <4> QED
        BY <2>2, <2>3, <4>1, <4>2
    <3> QED
      BY <3>1, <3>2
  <2>6. ASSUME NEW x \in Agents, NEW t \in Threads, NEW i \in DOMAIN queue[x],
               queue[x][i].type = "REQUEST", queue[x][i].thread = t
        PROVE  ~Holds(x, t) /\ ~Flying(x, t)' /\
               \A j \in DOMAIN queue[x] : queue[x][j].thread = t => i <= j
    <3>1. ~Holds(x, t) /\ ~Flying(x, t) /\
          \A j \in DOMAIN queue[x] : queue[x][j].thread = t => i <= j
      BY <1>7, <2>6 DEF OpeningsAreFirst
    <3>2. ASSUME x = a, t = d PROVE FALSE
      BY <1>8, <2>4, <2>6, <3>1, <3>2
    <3> QED
      BY <2>2, <2>3, <3>1, <3>2
  <2> QED
    BY <1>2, <2>1, <2>5, <2>6 DEF OpeningsAreFirst
<1> QED
  BY <1>9, <1>11, <1>12, <1>13 DEF InOrder

LEMMA LandInOrder ==
  ASSUME TypeOK, NEW origin \in [Threads -> Agents], InOrder(origin),
         NEW a \in Agents, Land(a)
  PROVE  InOrder(origin)'
<1> DEFINE y == Peer(a)
           m == sending[a].env
           last == Len(queue[y]) + 1
<1>1. /\ RowsInOrder(origin) /\ SendsInOrder(origin) /\ QueuesInOrder(origin)
      /\ OpeningsAreFirst
  BY DEF InOrder
<1>2. /\ sending[a] # None /\ ~sending[a].landed /\ row' = row /\ opened' = opened
      /\ sending' = [sending EXCEPT ![a].landed = TRUE]
  BY DEF Land
<1>3. y \in Agents /\ y # a /\ Peer(y) = a
  BY PeerIsTheOther
<1>4. sending[a] \in InFlight /\ m \in Message
  BY <1>2, SendingType
<1>5. /\ sending'[a] = [sending[a] EXCEPT !.landed = TRUE]
      /\ sending'[a].env = m /\ sending'[a].turns = sending[a].turns
      /\ sending'[a].existing = sending[a].existing /\ sending'[a].landed
      /\ sending'[a] # None
      /\ \A x \in Agents \ {a} : sending'[x] = sending[x]
  <2>1. sending'[a] = [sending[a] EXCEPT !.landed = TRUE]
        /\ \A x \in Agents \ {a} : sending'[x] = sending[x]
    BY <1>2 DEF TypeOK
  <2>2. [sending[a] EXCEPT !.landed = TRUE] \in InFlight
    BY <1>4 DEF InFlight
  <2> QED
    BY <1>4, <2>1, <2>2, NullAssumption DEF InFlight
<1>6. /\ \A x \in Agents \ {y} : queue'[x] = queue[x]
      /\ last \in DOMAIN queue'[y] /\ queue'[y][last] = m
      /\ DOMAIN queue[y] = 1..(last - 1) /\ DOMAIN queue'[y] = 1..last /\ last \in Nat
      /\ \A i \in DOMAIN queue[y] : queue'[y][i] = queue[y][i]
  BY LandedQueues
<1>7. \A x \in Agents : \A i \in DOMAIN queue'[x] :
        \/ i \in DOMAIN queue[x] /\ queue'[x][i] = queue[x][i]
        \/ x = y /\ i = last /\ queue'[x][i] = m
  <2> HIDE DEF last, m, y
  <2> TAKE x \in Agents
  <2>1. CASE x # y
    BY <1>6, <2>1
  <2>2. CASE x = y
    <3>1. \A i \in 1..last : i = last \/ i \in 1..(last - 1)
      BY <1>6
    <3> QED
      BY <1>6, <2>2, <3>1
  <2> QED
    BY <2>1, <2>2
<1>8. /\ \A x \in Agents, t \in Threads : Holds(x, t)' <=> Holds(x, t)
      /\ \A x \in Agents, t \in Threads : Flying(x, t)' <=> Flying(x, t)
  BY <1>2, <1>5 DEF Holds, Flying
<1>9. SendInOrder(sending[a], a, origin, opened)
  BY <1>1, <1>2 DEF SendsInOrder
<1> HIDE DEF m, last, y
<1>10. RowsInOrder(origin)'
  BY <1>1, <1>2 DEF RowsInOrder
<1>11. SendsInOrder(origin)'
  <2>1. SendInOrder(sending'[a], a, origin, opened)
    BY <1>5, <1>9 DEF SendInOrder, Carries, m
  <2> QED
    BY <1>1, <1>2, <1>5, <2>1 DEF SendsInOrder
<1>12. QueuesInOrder(origin)'
  <2>1. Rightful(m, origin, opened) /\ m.from = a
    BY <1>9 DEF SendInOrder, m
  <2> QED
    BY <1>1, <1>2, <1>3, <1>7, <2>1 DEF QueuesInOrder
<1>13. OpeningsAreFirst'
  <2>1. ASSUME NEW x \in Agents, NEW z \in Agents, NEW t \in Threads,
               Flying(x, t), sending'[x].env.type = "REQUEST", ~sending'[x].landed
        PROVE  /\ ~Holds(z, t)
               /\ \A i \in DOMAIN queue'[z] : queue'[z][i].thread # t
               /\ z # x => ~Flying(z, t)
    <3>1. x # a /\ sending'[x] = sending[x]
      BY <1>5, <2>1
    <3>2. /\ ~Holds(z, t) /\ ~Flying(a, t)
          /\ \A i \in DOMAIN queue[z] : queue[z][i].thread # t
          /\ z # x => ~Flying(z, t)
      BY <1>1, <2>1, <3>1 DEF OpeningsAreFirst
    <3>3. m.thread # t
      BY <1>2, <3>2 DEF Flying, m
    <3> QED
      BY <1>7, <3>2, <3>3
  <2>2. ASSUME NEW x \in Agents, NEW t \in Threads, NEW i \in DOMAIN queue'[x],
               queue'[x][i].type = "REQUEST", queue'[x][i].thread = t
        PROVE  /\ ~Holds(x, t) /\ ~Flying(x, t)
               /\ \A j \in DOMAIN queue'[x] : queue'[x][j].thread = t => i <= j
    <3>1. CASE i \in DOMAIN queue[x] /\ queue'[x][i] = queue[x][i]
      <4>1. /\ ~Holds(x, t) /\ ~Flying(x, t)
            /\ \A j \in DOMAIN queue[x] : queue[x][j].thread = t => i <= j
        BY <1>1, <2>2, <3>1 DEF OpeningsAreFirst
      <4>2. x = y => i <= last
        BY <1>6, <3>1
      <4> QED
        BY <1>7, <4>1, <4>2
    <3>2. CASE x = y /\ i = last /\ queue'[x][i] = m
      <4>1. Flying(a, t) /\ sending[a].env.type = "REQUEST"
        BY <1>2, <2>2, <3>2 DEF Flying, m
      <4>2. /\ ~Holds(x, t) /\ ~Flying(x, t)
            /\ \A j \in DOMAIN queue[x] : queue[x][j].thread # t
        BY <1>1, <1>2, <1>3, <3>2, <4>1 DEF OpeningsAreFirst
      <4> QED
        BY <1>6, <1>7, <3>2, <4>2
    <3> QED
      BY <1>7, <3>1, <3>2
  <2> QED
    BY <1>8, <2>1, <2>2 DEF OpeningsAreFirst
<1> QED
  BY <1>10, <1>11, <1>12, <1>13 DEF InOrder

\* A send that is over leaves the rows in order when the row it writes is.
LEMMA SettleInOrder ==
  ASSUME TypeOK, NEW origin \in [Threads -> Agents], InOrder(origin),
         NEW a \in Agents, sending[a] # None,
         sending' = [sending EXCEPT ![a] = None], queue' = queue, opened' = opened,
         NEW r, RowInOrder(r, origin[sending[a].env.thread], sending[a].env.thread, opened),
         row' = row \/ row' = [row EXCEPT ![a][sending[a].env.thread] = r]
  PROVE  InOrder(origin)'
<1> DEFINE d == sending[a].env.thread
<1>1. d \in Threads
  BY SendingType
<1>2. sending'[a] = None /\ \A x \in Agents \ {a} : sending'[x] = sending[x]
  BY DEF TypeOK
<1>3. /\ RowsInOrder(origin) /\ SendsInOrder(origin) /\ QueuesInOrder(origin)
      /\ OpeningsAreFirst
  BY DEF InOrder
<1>4. \A x \in Agents, t \in Threads : (x = a /\ t = d) \/ row'[x][t] = row[x][t]
  BY <1>1 DEF TypeOK
<1>5. row'[a][d] = row[a][d] \/ row'[a][d] = r
  BY <1>1 DEF TypeOK
<1>6. Flying(a, d)
  BY DEF Flying
<1>7. \A x \in Agents, t \in Threads : Flying(x, t)' <=> x # a /\ Flying(x, t)
  BY <1>2 DEF Flying
<1> HIDE DEF d
<1>8. RowsInOrder(origin)'
  <2>1. \A x \in Agents, t \in Threads : RowInOrder(row'[x][t], origin[t], t, opened)
    <3> TAKE x \in Agents, t \in Threads
    <3>1. CASE x = a /\ t = d
      BY <1>1, <1>3, <1>5, <3>1 DEF RowsInOrder, d
    <3>2. CASE row'[x][t] = row[x][t]
      BY <1>3, <3>2 DEF RowsInOrder
    <3> QED
      BY <1>4, <3>1, <3>2
  <2> QED
    BY <2>1 DEF RowsInOrder
<1>9. SendsInOrder(origin)' /\ QueuesInOrder(origin)'
  BY <1>2, <1>3 DEF SendsInOrder, QueuesInOrder
<1>10. \A x \in Agents, t \in Threads : Holds(x, t)' => Holds(x, t) \/ (x = a /\ t = d)
  BY <1>4 DEF Holds
<1>11. OpeningsAreFirst'
  <2>1. ASSUME NEW x \in Agents, NEW z \in Agents, NEW t \in Threads,
               Flying(x, t)', sending'[x].env.type = "REQUEST", ~sending'[x].landed
        PROVE  /\ ~Holds(z, t)'
               /\ \A i \in DOMAIN queue[z] : queue[z][i].thread # t
               /\ z # x => ~Flying(z, t)'
    <3>1. x # a /\ Flying(x, t) /\ sending'[x] = sending[x]
      BY <1>2, <1>7, <2>1
    <3>2. /\ ~Holds(z, t) /\ ~Flying(a, t)
          /\ \A i \in DOMAIN queue[z] : queue[z][i].thread # t
          /\ z # x => ~Flying(z, t)
      BY <1>3, <2>1, <3>1 DEF OpeningsAreFirst
    <3> QED
      BY <1>6, <1>7, <1>10, <3>2
  <2>2. ASSUME NEW x \in Agents, NEW t \in Threads, NEW i \in DOMAIN queue[x],
               queue[x][i].type = "REQUEST", queue[x][i].thread = t
        PROVE  /\ ~Holds(x, t)' /\ ~Flying(x, t)'
               /\ \A j \in DOMAIN queue[x] : queue[x][j].thread = t => i <= j
    <3>1. /\ ~Holds(x, t) /\ ~Flying(x, t)
          /\ \A j \in DOMAIN queue[x] : queue[x][j].thread = t => i <= j
      BY <1>3, <2>2 DEF OpeningsAreFirst
    <3> QED
      BY <1>6, <1>7, <1>10, <3>1
  <2> QED
    BY <2>1, <2>2 DEF OpeningsAreFirst
<1> QED
  BY <1>8, <1>9, <1>11 DEF InOrder

\* What a send records is in order.
LEMMA RecordedInOrder ==
  ASSUME TypeOK, NEW origin \in [Threads -> Agents], InOrder(origin),
         NEW a \in Agents, sending[a] # None
  PROVE  LET s == sending[a]
             after == P(a)!RowAfter(s.existing, s.env)
         IN /\ RowInOrder(after, origin[s.env.thread], s.env.thread, opened)
            /\ after \in Row
            /\ RowInOrder([after EXCEPT !.delivered = FALSE],
                          origin[s.env.thread], s.env.thread, opened)
<1> DEFINE s == sending[a]
           after == P(a)!RowAfter(s.existing, s.env)
<1>1. SendInOrder(s, a, origin, opened)
  BY DEF InOrder, SendsInOrder
<1>2. s.env \in Message /\ s.existing \in Row
  BY SendingType
<1>3. after \in Row
  BY <1>2, RowAfterIsARow
<1>4. RowInOrder(after, origin[s.env.thread], s.env.thread, opened)
  BY <1>1, <1>2, Transition DEF SendInOrder
<1> HIDE DEF after
<1>5. \A f \in {"status", "opened_type", "from", "to", "to_user", "awaiting"} :
        [after EXCEPT !.delivered = FALSE][f] = after[f]
  BY <1>3 DEF Row, P!ThreadRow
<1>6. RowInOrder([after EXCEPT !.delivered = FALSE], origin[s.env.thread], s.env.thread, opened)
  BY <1>4, <1>5 DEF RowInOrder
<1> QED
  BY <1>3, <1>4, <1>6 DEF after

LEMMA OverInOrder ==
  ASSUME TypeOK, NEW origin \in [Threads -> Agents], InOrder(origin),
         NEW a \in Agents, Miss(a) \/ Record(a) \/ Crash(a)
  PROVE  InOrder(origin)'
<1> DEFINE s == sending[a]
           after == P(a)!RowAfter(s.existing, s.env)
           untoldRow == [after EXCEPT !.delivered = FALSE]
<1>1. /\ sending[a] # None /\ sending' = [sending EXCEPT ![a] = None]
      /\ queue' = queue /\ opened' = opened
  BY DEF Miss, Record, Crash
<1>2. /\ RowInOrder(after, origin[s.env.thread], s.env.thread, opened)
      /\ RowInOrder(untoldRow, origin[s.env.thread], s.env.thread, opened)
  BY <1>1, RecordedInOrder
<1>3. \/ row' = row \/ row' = [row EXCEPT ![a][s.env.thread] = after]
      \/ row' = [row EXCEPT ![a][s.env.thread] = untoldRow]
  BY DEF Miss, Record, Crash
<1> HIDE DEF after, untoldRow
<1> QED
  BY <1>1, <1>2, <1>3, SettleInOrder

LEMMA AdmitInOrder ==
  ASSUME TypeOK, NEW origin \in [Threads -> Agents], InOrder(origin),
         NEW a \in Agents, Admit(a)
  PROVE  InOrder(origin)'
<1>1. PICK n \in 1..Len(queue[a]) :
        /\ row' = [row EXCEPT ![a] = [d \in Threads |-> RowAdmitted(a, n, d)]]
        /\ queue' = [queue EXCEPT ![a] = SubSeq(@, n + 1, Len(@))]
  BY DEF Admit
<1>2. sending' = sending /\ opened' = opened
  BY DEF Admit
<1>3. /\ RowsInOrder(origin) /\ SendsInOrder(origin) /\ QueuesInOrder(origin)
      /\ OpeningsAreFirst
  BY DEF InOrder
<1>4. /\ \A x \in Agents \ {a} : queue'[x] = queue[x]
      /\ DOMAIN queue[a] = 1..Len(queue[a]) /\ n \in DOMAIN queue[a] /\ n \in Nat
      /\ Len(queue[a]) \in Nat
      /\ DOMAIN queue'[a] = 1..(Len(queue[a]) - n)
      /\ \A i \in DOMAIN queue'[a] :
           i + n \in DOMAIN queue[a] /\ queue'[a][i] = queue[a][i + n]
  BY <1>1, AdmittedQueues
<1>5. /\ \A t \in Threads : row'[a][t] = RowAdmitted(a, n, t)
      /\ \A x \in Agents \ {a} : row'[x] = row[x]
  BY <1>1 DEF TypeOK
<1>6. ASSUME NEW t \in Threads
      PROVE  \/ row'[a][t] = row[a][t]
             \/ \E i \in DOMAIN queue[a] :
                  /\ i <= n /\ queue[a][i].thread = t
                  /\ row'[a][t] = P(a)!RowAfter(row[a][t], queue[a][i])
  BY <1>5, AdmittedRows
<1>7. \A x \in Agents, t \in Threads : Flying(x, t)' <=> Flying(x, t)
  BY <1>2 DEF Flying
<1>8. RowsInOrder(origin)'
  <2>1. ASSUME NEW t \in Threads
        PROVE  RowInOrder(row'[a][t], origin[t], t, opened)
    <3>1. RowInOrder(row[a][t], origin[t], t, opened)
      BY <1>3 DEF RowsInOrder
    <3>2. ASSUME NEW i \in DOMAIN queue[a], queue[a][i].thread = t
          PROVE  RowInOrder(P(a)!RowAfter(row[a][t], queue[a][i]), origin[t], t, opened)
      <4>1. queue[a][i] \in Message /\ row[a][t] \in Row
        BY DEF TypeOK
      <4>2. Rightful(queue[a][i], origin, opened) /\ queue[a][i].from # a
        BY <1>3, PeerIsTheOther DEF QueuesInOrder
      <4> QED
        BY <3>1, <3>2, <4>1, <4>2, Transition
    <3> QED
      BY <1>6, <3>1, <3>2
  <2>2. ASSUME NEW x \in Agents \ {a}, NEW t \in Threads
        PROVE  RowInOrder(row'[x][t], origin[t], t, opened)
    BY <1>3, <1>5 DEF RowsInOrder
  <2>3. ASSUME NEW x \in Agents, NEW t \in Threads
        PROVE  RowInOrder(row'[x][t], origin[t], t, opened)
    BY <2>1, <2>2
  <2> QED
    BY <1>2, <2>3 DEF RowsInOrder
<1>9. SendsInOrder(origin)'
  BY <1>2, <1>3 DEF SendsInOrder
<1>10. QueuesInOrder(origin)'
  <2>1. ASSUME NEW x \in Agents, NEW i \in DOMAIN queue'[x]
        PROVE  Rightful(queue'[x][i], origin, opened) /\ queue'[x][i].from = Peer(x)
    <3>1. CASE x = a
      BY <1>3, <1>4, <3>1 DEF QueuesInOrder
    <3>2. CASE x # a
      BY <1>3, <1>4, <3>2 DEF QueuesInOrder
    <3> QED
      BY <3>1, <3>2
  <2> QED
    BY <1>2, <2>1 DEF QueuesInOrder
<1>11. ASSUME NEW x \in Agents, NEW t \in Threads,
              \A i \in DOMAIN queue[x] : queue[x][i].thread = t => ~(i <= n)
       PROVE  row'[x][t] = row[x][t]
  BY <1>5, <1>6, <1>11
<1>12. OpeningsAreFirst'
  <2>1. ASSUME NEW x \in Agents, NEW z \in Agents, NEW t \in Threads,
               Flying(x, t), sending[x].env.type = "REQUEST", ~sending[x].landed
        PROVE  /\ ~Holds(z, t)'
               /\ \A i \in DOMAIN queue'[z] : queue'[z][i].thread # t
               /\ z # x => ~Flying(z, t)
    <3>1. /\ ~Holds(z, t)
          /\ z # x => ~Flying(z, t)
          /\ \A i \in DOMAIN queue[z] : queue[z][i].thread # t
      BY <1>3, <2>1 DEF OpeningsAreFirst
    <3>2. row'[z][t] = row[z][t]
      BY <1>11, <3>1
    <3>3. \A i \in DOMAIN queue'[z] : queue'[z][i].thread # t
      <4>1. CASE z = a
        BY <1>4, <3>1, <4>1
      <4>2. CASE z # a
        BY <1>4, <3>1, <4>2
      <4> QED
        BY <4>1, <4>2
    <3> QED
      BY <3>1, <3>2, <3>3 DEF Holds
  <2>2. ASSUME NEW x \in Agents, NEW t \in Threads, NEW i \in DOMAIN queue'[x],
               queue'[x][i].type = "REQUEST", queue'[x][i].thread = t
        PROVE  /\ ~Holds(x, t)' /\ ~Flying(x, t)
               /\ \A j \in DOMAIN queue'[x] : queue'[x][j].thread = t => i <= j
    <3>1. CASE x = a
      <4>1. i + n \in DOMAIN queue[a] /\ queue'[a][i] = queue[a][i + n] /\ i \in Nat \ {0}
        BY <1>4, <3>1
      <4>2. /\ ~Holds(a, t) /\ ~Flying(a, t)
            /\ \A j \in DOMAIN queue[a] : queue[a][j].thread = t => i + n <= j
        BY <1>3, <2>2, <3>1, <4>1 DEF OpeningsAreFirst
      <4>3. \A j \in DOMAIN queue[a] : queue[a][j].thread = t => ~(j <= n)
        BY <1>4, <4>1, <4>2
      <4>4. row'[a][t] = row[a][t]
        BY <1>11, <4>3
      <4>5. \A j \in DOMAIN queue'[a] : queue'[a][j].thread = t => i <= j
        <5> TAKE j \in DOMAIN queue'[a]
        <5>1. queue'[a][j].thread = t => i + n <= j + n
          BY <1>4, <4>2
        <5> QED
          BY <1>4, <4>1, <5>1
      <4> QED
        BY <3>1, <4>2, <4>4, <4>5 DEF Holds
    <3>2. CASE x # a
      <4>1. queue'[x] = queue[x] /\ row'[x] = row[x]
        BY <1>4, <1>5, <3>2
      <4> QED
        BY <1>3, <2>2, <4>1 DEF OpeningsAreFirst, Holds
    <3> QED
      BY <3>1, <3>2
  <2> QED
    BY <1>2, <1>7, <2>1, <2>2 DEF OpeningsAreFirst
<1> QED
  BY <1>8, <1>9, <1>10, <1>12 DEF InOrder

\* Whatever happens other than the beginning of a send, everything said stays
\* in order, and the debates are those that were opened.
LEMMA StepInOrder ==
  ASSUME TypeOK, NEW origin \in [Threads -> Agents], InOrder(origin),
         NEW a \in Agents,
         Land(a) \/ Miss(a) \/ Record(a) \/ Crash(a) \/ Admit(a) \/ UNCHANGED vars
  PROVE  InOrder(origin)'
<1>1. CASE UNCHANGED vars
  BY <1>1 DEF vars, history, InOrder, RowsInOrder, SendsInOrder, QueuesInOrder,
              OpeningsAreFirst, Holds, Flying
<1> QED
  BY <1>1, LandInOrder, OverInOrder, AdmitInOrder

-----------------------------------------------------------------------------
(* A debate that is open can be closed.                                    *)

LEMMA OrderLetsDebatesEnd ==
  ASSUME TypeOK, NEW origin \in [Threads -> Agents], RowsInOrder(origin)
  PROVE  DebatesCanEnd
<1> SUFFICES ASSUME NEW a \in Agents, NEW d \in Threads, row[a][d].status = "open"
             PROVE  LET turn == IF row[a][d].from = a THEN "ESCALATE" ELSE "CONSENSUS"
                    IN MaySay(a, [type |-> WireType[turn], turns |-> <<turn>>,
                                  thread |-> d, basis |-> WireBasis[turn],
                                  to |-> Peer(a), patch |-> FALSE])
  BY DEF DebatesCanEnd
<1> DEFINE r == row[a][d]
           turn == IF r.from = a THEN "ESCALATE" ELSE "CONSENSUS"
           in == [type |-> "RESOLVED", turns |-> <<turn>>, thread |-> d,
                  basis |-> WireBasis[turn], to |-> Peer(a), patch |-> FALSE]
           to == [in EXCEPT !.to = Peer(a)]
<1>1. WireType[turn] = "RESOLVED"
      /\ WireBasis["ESCALATE"] = "abandoned" /\ WireBasis["CONSENSUS"] = "done"
  BY DEF WireType, WireBasis, Turns
<1>2. /\ r.opened_type = "REQUEST" /\ r.from = origin[d] /\ r.to = Peer(origin[d])
      /\ origin[d] \in Agents
  BY DEF RowsInOrder, RowInOrder
<1>3. r.from = a => r.to = Peer(a)
  BY <1>2
<1>4. r.from # a => r.to = a /\ r.from = Peer(a)
  BY <1>2, PeerIsTheOther
<1>5. HeldRow(a, in) = r /\ DebateOf(in) = d
  BY DEF HeldRow, DebateOf
<1>6. /\ to.type = "RESOLVED" /\ to.basis = in.basis /\ to.to = Peer(a)
      /\ in.basis = WireBasis[turn]
  OBVIOUS
<1> HIDE DEF to
<1>7. P(a)!RefusedClose(to, r) = None
  <2>1. CASE r.from = a
    BY <1>1, <1>3, <1>6, <2>1 DEF P!RefusedClose
  <2>2. CASE r.from # a
    BY <1>1, <1>4, <1>6, <2>2 DEF P!RefusedClose
  <2> QED
    BY <2>1, <2>2
<1>8. P(a)!Held(r) /\ r.status # "resolved"
  BY DEF P!Held
<1>9. P(a)!LoopPrevention(to, r) = None
  <2> HIDE DEF in, r
  <2> QED
    BY <1>2, <1>6, <1>7, <1>8 DEF P!LoopPrevention, P!InThreadTypes
<1>10. ~Carries(in, "COUNTER") /\ ~Carries(in, "AUDIT") /\ ~in.patch
  BY DEF Carries
<1>11. ~RefusedTurn(a, in, d, r)
  <2> HIDE DEF in, r
  <2> QED
    BY <1>10 DEF RefusedTurn, InlinesAPatch, Exhausted
<1>12. MaySay(a, in)
  BY <1>5, <1>9, <1>11 DEF MaySay, to
<1> QED
  BY <1>1, <1>12

-----------------------------------------------------------------------------
(* The cap of rounds.                                                      *)

Out(a, d) == Flying(a, d) /\ sending[a].landed

\* Who is about to be told of a round has been told of fewer than the cap,
\* but for what no journal holds.
Capped ==
  \A d \in Threads, a \in Agents :
    Flying(a, d) /\ ~sending[a].landed /\ Carries(sending[a], "COUNTER") =>
      countered[d] + 1 <= MaxRounds + unrecorded[d]

\* The journal of who counters has every COUNTER that got out, but for the one
\* whose send is not over and those that were never recorded.
Counted(origin) ==
  \A d \in Threads :
    /\ ~(d <= opened) => countered[d] = 0
    /\ d <= opened =>
         \/ countered[d] <= unrecorded[d] + MaxCounterRound(journal[origin[d]], d)
         \/ /\ Out(origin[d], d) /\ Carries(sending[origin[d]], "COUNTER")
            /\ countered[d] <= unrecorded[d] + MaxCounterRound(journal[origin[d]], d)
                                 + Cardinality(Counters(sending[origin[d]]))

LEMMA BeginCapped ==
  ASSUME TypeOK, NEW origin \in [Threads -> Agents], InOrder(origin),
         Capped, Counted(origin),
         NEW a \in Agents, NEW in \in Says, Begin(a, in),
         NEW other, other = Origins(origin, a, in)
  PROVE  Capped' /\ Counted(other)'
<1> DEFINE d == DebateOf(in)
           s == [env |-> EnvelopeOf(a, in, sends + 1), turns |-> in.turns,
                 existing |-> HeldRow(a, in), landed |-> FALSE]
<1>1. /\ sending' = [sending EXCEPT ![a] = s] /\ sending[a] = None /\ d \in Threads
      /\ journal' = journal /\ countered' = countered /\ unrecorded' = unrecorded
  BY DEF Begin, history
<1>2. /\ other \in [Threads -> Agents] /\ \A t \in Threads : t <= opened => other[t] = origin[t]
      /\ opened \in Nat /\ opened' \in Nat /\ opened <= opened'
      /\ in.type = "REQUEST" => opened' = opened + 1 /\ other[opened + 1] = a
  BY BeginOrigins
<1>3. sending'[a] = s /\ \A x \in Agents \ {a} : sending'[x] = sending[x]
  BY <1>1 DEF TypeOK
<1>4. s \in InFlight /\ s.env.thread = d /\ s.turns = in.turns /\ ~s.landed
  BY BegunType DEF EnvelopeOf
<1>5. Carries(s, "COUNTER") =>
        a = origin[d] /\ MaxCounterRound(journal[a], d) + 1 <= MaxRounds
  BY <1>4, MayBegin DEF Carries, InOrder
<1> HIDE DEF d, s
<1>6. \A x \in Agents, t \in Threads :
        /\ countered[t] \in Nat /\ unrecorded[t] \in Nat /\ t \in Nat
        /\ MaxCounterRound(journal[x], t) \in Nat /\ MaxRounds \in Nat
  <2>1. \A x \in Agents : journal[x] \in SUBSET JournalEntry /\ Bounded(journal[x])
    BY DEF TypeOK
  <2> QED
    BY <2>1, LastRound, BoundsAssumption DEF TypeOK
<1>7. \A t \in Threads : ~Out(a, t) /\ ~Out(a, t)'
  BY <1>1, <1>3, <1>4 DEF Out, Flying
<1>8. \A x \in Agents \ {a}, t \in Threads : Out(x, t)' <=> Out(x, t)
  BY <1>3 DEF Out, Flying
<1>9. Capped'
  <2>1. ASSUME NEW x \in Agents, NEW t \in Threads, Flying(x, t)', ~sending'[x].landed,
               Carries(sending'[x], "COUNTER")
        PROVE  countered[t] + 1 <= MaxRounds + unrecorded[t]
    <3>1. CASE x # a
      BY <1>3, <2>1, <3>1 DEF Capped, Flying
    <3>2. CASE x = a
      <4>1. t = d /\ Carries(s, "COUNTER")
        BY <1>3, <1>4, <2>1, <3>2 DEF Flying
      <4>2. a = origin[t] /\ MaxCounterRound(journal[a], t) + 1 <= MaxRounds
        BY <1>5, <4>1
      <4>3. countered[t] <= unrecorded[t] + MaxCounterRound(journal[a], t)
        BY <1>6, <1>7, <4>2 DEF Counted
      <4> QED
        BY <1>6, <4>2, <4>3
    <3> QED
      BY <3>1, <3>2
  <2> QED
    BY <1>1, <2>1 DEF Capped
<1>10. Counted(other)'
  <2> SUFFICES
        ASSUME NEW t \in Threads
        PROVE  /\ ~(t <= opened') => countered'[t] = 0
               /\ t <= opened' =>
                    \/ countered'[t] <= unrecorded'[t] + MaxCounterRound(journal'[other[t]], t)
                    \/ /\ Out(other[t], t)' /\ Carries(sending'[other[t]], "COUNTER")
                       /\ countered'[t]
                            <= unrecorded'[t] + MaxCounterRound(journal'[other[t]], t)
                                 + Cardinality(Counters(sending'[other[t]]))
    BY DEF Counted
  <2>1. CASE t <= opened
    <3>1. other[t] = origin[t] /\ origin[t] \in Agents /\ t <= opened'
      BY <1>2, <1>6, <2>1
    <3>2. CASE countered[t] <= unrecorded[t] + MaxCounterRound(journal[origin[t]], t)
      BY <1>1, <3>1, <3>2
    <3>3. CASE /\ Out(origin[t], t) /\ Carries(sending[origin[t]], "COUNTER")
               /\ countered[t] <= unrecorded[t] + MaxCounterRound(journal[origin[t]], t)
                                    + Cardinality(Counters(sending[origin[t]]))
      <4>1. origin[t] # a
        BY <1>7, <3>3
      <4> QED
        BY <1>1, <1>3, <1>8, <3>1, <3>3, <4>1
    <3> QED
      BY <2>1, <3>2, <3>3 DEF Counted
  <2>2. CASE ~(t <= opened)
    <3>1. countered[t] = 0 /\ other[t] \in Agents
      BY <1>2, <2>2 DEF Counted
    <3>2. countered[t] <= unrecorded[t] + MaxCounterRound(journal[other[t]], t)
      BY <1>6, <3>1
    <3> QED
      BY <1>1, <3>1, <3>2
  <2> QED
    BY <2>1, <2>2
<1> QED
  BY <1>9, <1>10

LEMMA RoundsType ==
  ASSUME TypeOK
  PROVE  \A x \in Agents, t \in Threads :
           /\ countered[t] \in Nat /\ unrecorded[t] \in Nat /\ t \in Nat
           /\ MaxCounterRound(journal[x], t) \in Nat /\ MaxRounds \in Nat
<1>1. \A x \in Agents : journal[x] \in SUBSET JournalEntry /\ Bounded(journal[x])
  BY DEF TypeOK
<1> QED
  BY <1>1, LastRound, BoundsAssumption DEF TypeOK

LEMMA LandCapped ==
  ASSUME TypeOK, NEW origin \in [Threads -> Agents], InOrder(origin),
         Capped, Counted(origin), NEW a \in Agents, Land(a)
  PROVE  Capped' /\ Counted(origin)'
<1> DEFINE d == sending[a].env.thread
           counters == Carries(sending[a], "COUNTER")
           k == Cardinality(Counters(sending[a]))
<1>1. /\ sending[a] # None /\ ~sending[a].landed /\ opened' = opened
      /\ journal' = journal /\ unrecorded' = unrecorded
      /\ countered' = [countered EXCEPT ![d] = @ + k]
  BY DEF Land
<1>2. /\ sending'[a] # None /\ sending'[a].landed /\ sending'[a].env.thread = d
      /\ Carries(sending'[a], "COUNTER") <=> counters
      /\ Cardinality(Counters(sending'[a])) = k
      /\ \A x \in Agents \ {a} : sending'[x] = sending[x]
  <2>1. sending'[a] = [sending[a] EXCEPT !.landed = TRUE]
        /\ \A x \in Agents \ {a} : sending'[x] = sending[x]
    BY DEF Land, TypeOK
  <2>2. sending[a] \in InFlight
    BY <1>1, SendingType
  <2>3. [sending[a] EXCEPT !.landed = TRUE] \in InFlight
    BY <2>2 DEF InFlight
  <2> QED
    BY <2>1, <2>2, <2>3, NullAssumption DEF InFlight, Carries, Counters
<1>3. d \in Threads /\ d <= opened /\ (counters => a = origin[d])
  BY <1>1, SendingType DEF InOrder, SendsInOrder, SendInOrder, Rightful
<1>4. /\ k \in Nat /\ countered'[d] = countered[d] + k
      /\ ~counters => countered'[d] = countered[d]
      /\ \A t \in Threads \ {d} : countered'[t] = countered[t]
  <2>1. k \in Nat /\ (~counters => k = 0)
    BY <1>1, SendingType, CountersOf
  <2> HIDE DEF k
  <2> QED
    BY <1>1, <1>3, <2>1 DEF TypeOK
<1>5. /\ \A t \in Threads : Flying(a, t) <=> t = d
      /\ \A x \in Agents, t \in Threads : Flying(x, t)' <=> Flying(x, t)
      /\ \A t \in Threads : ~Out(a, t)
      /\ \A t \in Threads : Out(a, t)' <=> t = d
      /\ \A x \in Agents \ {a}, t \in Threads : Out(x, t)' <=> Out(x, t)
  BY <1>1, <1>2 DEF Flying, Out
<1>6. \A x \in Agents, t \in Threads :
        Flying(x, t) /\ Carries(sending[x], "COUNTER") => x = origin[t]
  BY DEF InOrder, SendsInOrder, SendInOrder, Flying
<1> HIDE DEF d, counters, k
<1>7. Capped'
  <2>2. ASSUME NEW t \in Threads, NEW x \in Agents,
               Flying(x, t), ~sending'[x].landed, Carries(sending'[x], "COUNTER")
        PROVE  countered'[t] + 1 <= MaxRounds + unrecorded[t]
    <3>1. x # a /\ sending'[x] = sending[x]
      BY <1>2, <2>2
    <3>2. countered[t] + 1 <= MaxRounds + unrecorded[t]
      BY <2>2, <3>1 DEF Capped
    <3>3. ~(t = d /\ counters)
      BY <1>3, <1>6, <2>2, <3>1
    <3>4. countered'[t] = countered[t]
      BY <1>4, <3>3
    <3> QED
      BY <3>2, <3>4
  <2> QED
    BY <1>1, <1>5, <2>2 DEF Capped
<1>8. ASSUME NEW t \in Threads
      PROVE  /\ ~(t <= opened) => countered'[t] = 0
             /\ t <= opened =>
                  \/ countered'[t] <= unrecorded[t] + MaxCounterRound(journal[origin[t]], t)
                  \/ /\ Out(origin[t], t)' /\ Carries(sending'[origin[t]], "COUNTER")
                     /\ countered'[t]
                          <= unrecorded[t] + MaxCounterRound(journal[origin[t]], t)
                               + Cardinality(Counters(sending'[origin[t]]))
  <2>1. /\ countered[t] \in Nat /\ unrecorded[t] \in Nat /\ origin[t] \in Agents
        /\ MaxCounterRound(journal[origin[t]], t) \in Nat
    BY RoundsType
  <2>2. CASE t = d /\ counters
    <3>1. countered[t] <= unrecorded[t] + MaxCounterRound(journal[origin[t]], t)
      BY <1>3, <1>5, <2>2 DEF Counted
    <3>2. Out(origin[t], t)' /\ Carries(sending'[origin[t]], "COUNTER")
      BY <1>2, <1>3, <1>5, <2>2
    <3> QED
      BY <1>2, <1>3, <1>4, <2>1, <2>2, <3>1, <3>2
  <2>3. CASE ~(t = d /\ counters)
    <3>1. countered'[t] = countered[t]
      BY <1>4, <2>3
    <3>2. Out(origin[t], t) => Out(origin[t], t)' /\ sending'[origin[t]] = sending[origin[t]]
      BY <1>2, <1>5, <2>1
    <3> QED
      BY <3>1, <3>2 DEF Counted
  <2> QED
    BY <2>2, <2>3
<1>9. Counted(origin)'
  BY <1>1, <1>8 DEF Counted
<1> QED
  BY <1>7, <1>9

\* A send that is over and was not recorded.
LEMMA ForgottenCapped ==
  ASSUME TypeOK, NEW origin \in [Threads -> Agents], InOrder(origin),
         Capped, Counted(origin), NEW a \in Agents, Miss(a) \/ Crash(a)
  PROVE  Capped' /\ Counted(origin)'
<1> DEFINE d == sending[a].env.thread
           lost == sending[a].landed
           k == Cardinality(Counters(sending[a]))
<1>1. /\ sending[a] # None /\ sending' = [sending EXCEPT ![a] = None]
      /\ opened' = opened /\ journal' = journal /\ countered' = countered
      /\ unrecorded' = IF lost THEN [unrecorded EXCEPT ![d] = @ + k] ELSE unrecorded
  BY DEF Miss, Crash, Forgotten
<1>2. sending'[a] = None /\ \A x \in Agents \ {a} : sending'[x] = sending[x]
  BY <1>1 DEF TypeOK
<1>3. d \in Threads
  BY <1>1, SendingType
<1>4. /\ k \in Nat
      /\ lost => unrecorded'[d] = unrecorded[d] + k
      /\ ~lost => unrecorded' = unrecorded
      /\ \A t \in Threads \ {d} : unrecorded'[t] = unrecorded[t]
  <2>1. k \in Nat
    BY <1>1, SendingType, CountersOf
  <2> HIDE DEF k
  <2> QED
    BY <1>1, <1>3, <2>1 DEF TypeOK
<1>5. /\ \A t \in Threads : Flying(a, t) => t = d
      /\ \A x \in Agents, t \in Threads : Flying(x, t)' <=> x # a /\ Flying(x, t)
      /\ \A x \in Agents, t \in Threads : Out(x, t)' <=> x # a /\ Out(x, t)
      /\ \A t \in Threads : Out(a, t) => t = d /\ sending[a].landed
  BY <1>1, <1>2 DEF Flying, Out
<1> HIDE DEF d, lost, k
<1>6. \A t \in Threads : unrecorded[t] <= unrecorded'[t] /\ unrecorded'[t] \in Nat
  <2> TAKE t \in Threads
  <2>1. unrecorded[t] \in Nat
    BY RoundsType
  <2> QED
    BY <1>4, <2>1
<1>7. Capped'
  <2>1. ASSUME NEW t \in Threads
        PROVE  \A x \in Agents :
                 /\ x # a /\ Flying(x, t) /\ ~sending'[x].landed
                 /\ Carries(sending'[x], "COUNTER")
                 => countered[t] + 1 <= MaxRounds + unrecorded'[t]
    <3>1. countered[t] \in Nat /\ unrecorded[t] \in Nat /\ MaxRounds \in Nat
      BY RoundsType, EndsAssumption
    <3>2. \A x \in Agents : x # a => sending'[x] = sending[x]
      BY <1>2
    <3>3. \A x \in Agents : /\ x # a /\ Flying(x, t) /\ ~sending'[x].landed
                            /\ Carries(sending'[x], "COUNTER")
                            => countered[t] + 1 <= MaxRounds + unrecorded[t]
      BY <3>2 DEF Capped
    <3>4. \A n \in Nat : n <= MaxRounds + unrecorded[t] => n <= MaxRounds + unrecorded'[t]
      BY <1>6, <3>1
    <3> QED
      BY <3>1, <3>3, <3>4
  <2> QED
    BY <1>1, <1>5, <2>1 DEF Capped
<1>8. ASSUME NEW t \in Threads
      PROVE  /\ ~(t <= opened) => countered[t] = 0
             /\ t <= opened =>
                  \/ countered[t] <= unrecorded'[t] + MaxCounterRound(journal[origin[t]], t)
                  \/ /\ Out(origin[t], t)' /\ Carries(sending'[origin[t]], "COUNTER")
                     /\ countered[t]
                          <= unrecorded'[t] + MaxCounterRound(journal[origin[t]], t)
                               + Cardinality(Counters(sending'[origin[t]]))
  <2>1. /\ countered[t] \in Nat /\ unrecorded[t] \in Nat /\ origin[t] \in Agents
        /\ MaxCounterRound(journal[origin[t]], t) \in Nat
    BY RoundsType
  <2>2. ASSUME countered[t] <= unrecorded[t] + MaxCounterRound(journal[origin[t]], t)
        PROVE  countered[t] <= unrecorded'[t] + MaxCounterRound(journal[origin[t]], t)
    BY <1>6, <2>1, <2>2
  <2>3. ASSUME Out(origin[t], t), Carries(sending[origin[t]], "COUNTER"),
               countered[t] <= unrecorded[t] + MaxCounterRound(journal[origin[t]], t)
                                 + Cardinality(Counters(sending[origin[t]]))
        PROVE  \/ countered[t] <= unrecorded'[t] + MaxCounterRound(journal[origin[t]], t)
               \/ /\ Out(origin[t], t)' /\ Carries(sending'[origin[t]], "COUNTER")
                  /\ countered[t]
                       <= unrecorded'[t] + MaxCounterRound(journal[origin[t]], t)
                            + Cardinality(Counters(sending'[origin[t]]))
    <3>1. CASE origin[t] = a
      <4>1. lost /\ t = d /\ Cardinality(Counters(sending[origin[t]])) = k
        BY <1>5, <2>3, <3>1 DEF lost, k
      <4> QED
        BY <1>4, <2>1, <2>3, <4>1
    <3>2. CASE origin[t] # a
      <4>1. Out(origin[t], t)' /\ sending'[origin[t]] = sending[origin[t]]
        BY <1>2, <1>5, <2>1, <2>3, <3>2
      <4>2. Cardinality(Counters(sending[origin[t]])) \in Nat
        BY <2>1, <2>3, SendingType, CountersOf DEF Out, Flying
      <4> QED
        BY <1>6, <2>1, <2>3, <4>1, <4>2
    <3> QED
      BY <3>1, <3>2
  <2> QED
    BY <2>2, <2>3 DEF Counted
<1>9. Counted(origin)'
  BY <1>1, <1>8 DEF Counted
<1> QED
  BY <1>7, <1>9

LEMMA RecordCapped ==
  ASSUME TypeOK, NEW origin \in [Threads -> Agents], InOrder(origin),
         Capped, Counted(origin), NEW a \in Agents, Record(a)
  PROVE  Capped' /\ Counted(origin)'
<1> DEFINE d == sending[a].env.thread
           more == Journaled(a, sending[a].env, sending[a].turns)
<1>1. /\ sending[a] # None /\ sending' = [sending EXCEPT ![a] = None]
      /\ opened' = opened /\ countered' = countered /\ unrecorded' = unrecorded
      /\ journal' = [journal EXCEPT ![a] = more]
  BY DEF Record, history
<1>2. sending'[a] = None /\ \A x \in Agents \ {a} : sending'[x] = sending[x]
  BY <1>1 DEF TypeOK
<1>3. d \in Threads /\ sending[a].env.eid \in Eids /\ sending[a].turns \in Seq(Turns)
  BY <1>1, SendingType
<1>4. /\ \A t \in Threads : Out(a, t) => t = d
      /\ \A x \in Agents, t \in Threads : Flying(x, t)' <=> x # a /\ Flying(x, t)
      /\ \A x \in Agents, t \in Threads : Out(x, t)' <=> x # a /\ Out(x, t)
  BY <1>1, <1>2 DEF Flying, Out
<1>5. \A x \in Agents : journal[x] \in SUBSET JournalEntry /\ Bounded(journal[x])
  BY DEF TypeOK
<1>6. /\ more \in SUBSET JournalEntry /\ Bounded(more) /\ journal[a] \subseteq more
      /\ MaxCounterRound(journal[a], d) + Cardinality(Counters(sending[a]))
           <= MaxCounterRound(more, d)
  BY <1>3, <1>5, JournaledRounds DEF Counters
<1>7. journal'[a] = more /\ \A x \in Agents \ {a} : journal'[x] = journal[x]
  BY <1>1 DEF TypeOK
<1> HIDE DEF d, more
<1>8. \A x \in Agents, t \in Threads :
        /\ MaxCounterRound(journal[x], t) <= MaxCounterRound(journal'[x], t)
        /\ MaxCounterRound(journal'[x], t) \in Nat
  <2> TAKE x \in Agents, t \in Threads
  <2>1. CASE x = a
    BY <1>5, <1>6, <1>7, <2>1, RoundsOnlyGrow, LastRound
  <2>2. CASE x # a
    <3>1. MaxCounterRound(journal[x], t) \in Nat
      BY RoundsType
    <3> QED
      BY <1>7, <2>2, <3>1
  <2> QED
    BY <2>1, <2>2
<1>9. Capped'
  BY <1>1, <1>2, <1>4 DEF Capped
<1>10. ASSUME NEW t \in Threads
       PROVE  /\ ~(t <= opened) => countered[t] = 0
              /\ t <= opened =>
                   \/ countered[t] <= unrecorded[t] + MaxCounterRound(journal'[origin[t]], t)
                   \/ /\ Out(origin[t], t)' /\ Carries(sending'[origin[t]], "COUNTER")
                      /\ countered[t]
                           <= unrecorded[t] + MaxCounterRound(journal'[origin[t]], t)
                                + Cardinality(Counters(sending'[origin[t]]))
  <2>1. /\ countered[t] \in Nat /\ unrecorded[t] \in Nat /\ origin[t] \in Agents
        /\ MaxCounterRound(journal[origin[t]], t) \in Nat
        /\ MaxCounterRound(journal'[origin[t]], t) \in Nat
        /\ MaxCounterRound(journal[origin[t]], t) <= MaxCounterRound(journal'[origin[t]], t)
    BY <1>8, RoundsType
  <2>2. ASSUME countered[t] <= unrecorded[t] + MaxCounterRound(journal[origin[t]], t)
        PROVE  countered[t] <= unrecorded[t] + MaxCounterRound(journal'[origin[t]], t)
    BY <2>1, <2>2
  <2>3. ASSUME Out(origin[t], t), Carries(sending[origin[t]], "COUNTER"),
               countered[t] <= unrecorded[t] + MaxCounterRound(journal[origin[t]], t)
                                 + Cardinality(Counters(sending[origin[t]]))
        PROVE  \/ countered[t] <= unrecorded[t] + MaxCounterRound(journal'[origin[t]], t)
               \/ /\ Out(origin[t], t)' /\ Carries(sending'[origin[t]], "COUNTER")
                  /\ countered[t]
                       <= unrecorded[t] + MaxCounterRound(journal'[origin[t]], t)
                            + Cardinality(Counters(sending'[origin[t]]))
    <3>1. CASE origin[t] = a
      <4>1. MaxCounterRound(journal[a], t) + Cardinality(Counters(sending[a]))
              <= MaxCounterRound(journal'[a], t)
        BY <1>4, <1>6, <1>7, <2>3, <3>1
      <4>2. Cardinality(Counters(sending[a])) \in Nat
        BY <1>1, SendingType, CountersOf
      <4> QED
        BY <2>1, <2>3, <3>1, <4>1, <4>2
    <3>2. CASE origin[t] # a
      <4>1. Out(origin[t], t)' /\ sending'[origin[t]] = sending[origin[t]]
        BY <1>2, <1>4, <2>1, <2>3, <3>2
      <4>2. Cardinality(Counters(sending[origin[t]])) \in Nat
        BY <2>1, <2>3, SendingType, CountersOf DEF Out, Flying
      <4> QED
        BY <2>1, <2>3, <4>1, <4>2
    <3> QED
      BY <3>1, <3>2
  <2> QED
    BY <2>2, <2>3 DEF Counted
<1>11. Counted(origin)'
  BY <1>1, <1>10 DEF Counted
<1> QED
  BY <1>9, <1>11

LEMMA StepCapped ==
  ASSUME TypeOK, NEW origin \in [Threads -> Agents], InOrder(origin),
         Capped, Counted(origin), NEW a \in Agents,
         Land(a) \/ Miss(a) \/ Record(a) \/ Crash(a) \/ Admit(a) \/ UNCHANGED vars
  PROVE  Capped' /\ Counted(origin)'
<1>1. CASE Admit(a) \/ UNCHANGED vars
  <2>1. /\ sending' = sending /\ journal' = journal /\ opened' = opened
        /\ countered' = countered /\ unrecorded' = unrecorded
    BY <1>1 DEF Admit, vars, history
  <2> QED
    BY <2>1 DEF Capped, Counted, Out, Flying
<1> QED
  BY <1>1, LandCapped, ForgottenCapped, RecordCapped

-----------------------------------------------------------------------------
(* The agreement of the two ends.                                          *)

\* A debate no end wrote from a row read too early, nor closed untold.
Whole(d) == d \notin torn \cup untold

\* A message of a type that got out, its send not over; one on its way.
Sent(a, d, type) == Out(a, d) /\ sending[a].env.type = type

Heard(a, d, type) ==
  \E i \in DOMAIN queue[a] : queue[a][i].thread = d /\ queue[a][i].type = type

Closed(a, d) == row[a][d].status = "resolved" \/ Sent(a, d, "RESOLVED")

Waits(a, d) ==
  \/ row[a][d].awaiting = Peer(a)
  \/ Sent(a, d, "REQUEST") \/ Sent(a, d, "REPLY")

\* The row a send will be applied to is the row it was judged by.
NothingStale ==
  \A a \in Agents, d \in Threads : Whole(d) /\ Flying(a, d) =>
    IF sending[a].env.type = "REQUEST" THEN ~Holds(a, d)
    ELSE sending[a].existing = row[a][d]

\* Both ends hold a debate, or the opening is on its way; an end that has
\* closed it has told the other; if each waits for the other, an answer is on
\* its way.
Agreed(origin, d) ==
  /\ Holds(Peer(origin[d]), d) \/ Heard(Peer(origin[d]), d, "REQUEST") =>
       Holds(origin[d], d) \/ Sent(origin[d], d, "REQUEST")
  /\ Holds(origin[d], d) \/ Sent(origin[d], d, "REQUEST") =>
       Holds(Peer(origin[d]), d) \/ Heard(Peer(origin[d]), d, "REQUEST")
  /\ \A a \in Agents :
       /\ Heard(a, d, "ACK") \/ Heard(a, d, "REPLY") \/ Heard(a, d, "RESOLVED") =>
            Holds(Peer(a), d)
       /\ Closed(a, d) => Closed(Peer(a), d) \/ Heard(Peer(a), d, "RESOLVED")
       /\ Heard(a, d, "RESOLVED") => Closed(Peer(a), d)
       /\ Waits(a, d) /\ Waits(Peer(a), d) =>
            Heard(a, d, "REPLY") \/ Heard(Peer(a), d, "REPLY")

Agreeing(origin) == \A d \in Threads : Whole(d) => Agreed(origin, d)

\* An action that changes nothing the two ends can tell each other keeps them
\* in agreement.
LEMMA StaysAgreed ==
  ASSUME NEW origin \in [Threads -> Agents], NEW other \in [Threads -> Agents],
         NEW d \in Threads, other[d] = origin[d], Agreed(origin, d),
         \A x \in Agents :
           /\ Holds(x, d) => Holds(x, d)'
           /\ Holds(x, d)' => Holds(x, d) \/ (x = origin[d] /\ Sent(x, d, "REQUEST"))
           /\ (Holds(x, d) \/ Sent(x, d, "REQUEST") <=> Holds(x, d)' \/ Sent(x, d, "REQUEST")')
           /\ Closed(x, d)' <=> Closed(x, d)
           /\ Waits(x, d)' => Waits(x, d)
           /\ Heard(x, d, "REQUEST")' <=> Heard(x, d, "REQUEST")
           /\ Heard(x, d, "ACK")' <=> Heard(x, d, "ACK")
           /\ Heard(x, d, "REPLY")' <=> Heard(x, d, "REPLY")
           /\ Heard(x, d, "RESOLVED")' <=> Heard(x, d, "RESOLVED")
  PROVE  Agreed(other, d)'
<1> DEFINE o == origin[d]
           y == Peer(origin[d])
<1>1. o \in Agents /\ y \in Agents /\ y # o
  BY PeerIsTheOther
<1>2. \A x \in Agents : Peer(x) \in Agents
  BY PeerIsTheOther
<1>3. /\ Holds(y, d)' \/ Heard(y, d, "REQUEST")' => Holds(o, d)' \/ Sent(o, d, "REQUEST")'
      /\ Holds(o, d)' \/ Sent(o, d, "REQUEST")' => Holds(y, d)' \/ Heard(y, d, "REQUEST")'
  BY <1>1 DEF Agreed
<1>4. \A x \in Agents :
        /\ Heard(x, d, "ACK")' \/ Heard(x, d, "REPLY")' \/ Heard(x, d, "RESOLVED")' =>
             Holds(Peer(x), d)'
        /\ Closed(x, d)' => Closed(Peer(x), d)' \/ Heard(Peer(x), d, "RESOLVED")'
        /\ Heard(x, d, "RESOLVED")' => Closed(Peer(x), d)'
        /\ Waits(x, d)' /\ Waits(Peer(x), d)' =>
             Heard(x, d, "REPLY")' \/ Heard(Peer(x), d, "REPLY")'
  BY <1>2 DEF Agreed
<1> QED
  BY <1>3, <1>4 DEF Agreed

\* So does one that does not touch the debate at all.
LEMMA UntouchedStaysAgreed ==
  ASSUME NEW origin \in [Threads -> Agents], NEW other \in [Threads -> Agents],
         NEW d \in Threads, other[d] = origin[d], Agreed(origin, d),
         \A x \in Agents :
           /\ row'[x][d] = row[x][d]
           /\ \A type \in {"REQUEST", "ACK", "REPLY", "RESOLVED"} :
                /\ Sent(x, d, type)' <=> Sent(x, d, type)
                /\ Heard(x, d, type)' <=> Heard(x, d, type)
  PROVE  Agreed(other, d)'
<1>1. \A x \in Agents :
        /\ Holds(x, d)' <=> Holds(x, d)
        /\ Closed(x, d)' <=> Closed(x, d)
        /\ Waits(x, d)' <=> Waits(x, d)
        /\ Sent(x, d, "REQUEST")' <=> Sent(x, d, "REQUEST")
        /\ Heard(x, d, "REQUEST")' <=> Heard(x, d, "REQUEST")
        /\ Heard(x, d, "ACK")' <=> Heard(x, d, "ACK")
        /\ Heard(x, d, "REPLY")' <=> Heard(x, d, "REPLY")
        /\ Heard(x, d, "RESOLVED")' <=> Heard(x, d, "RESOLVED")
  BY DEF Holds, Closed, Waits
<1> QED
  BY <1>1, StaysAgreed

LEMMA BeginAgreed ==
  ASSUME TypeOK, NEW origin \in [Threads -> Agents], InOrder(origin),
         Agreeing(origin), NothingStale,
         NEW a \in Agents, NEW in \in Says, Begin(a, in),
         NEW other, other = Origins(origin, a, in)
  PROVE  Agreeing(other)' /\ NothingStale'
<1> DEFINE d == DebateOf(in)
           s == [env |-> EnvelopeOf(a, in, sends + 1), turns |-> in.turns,
                 existing |-> HeldRow(a, in), landed |-> FALSE]
<1>1. /\ sending' = [sending EXCEPT ![a] = s] /\ sending[a] = None /\ d \in Threads
      /\ row' = row /\ queue' = queue /\ torn' = torn /\ untold' = untold
  BY DEF Begin, history
<1>2. /\ other \in [Threads -> Agents] /\ \A t \in Threads : t <= opened => other[t] = origin[t]
      /\ opened \in Nat
  BY BeginOrigins
<1>3. sending'[a] = s /\ \A x \in Agents \ {a} : sending'[x] = sending[x]
  BY <1>1 DEF TypeOK
<1>4. /\ s \in InFlight /\ s.env.thread = d /\ s.env.type = in.type /\ ~s.landed
      /\ s.existing = HeldRow(a, in)
  BY BegunType DEF EnvelopeOf
<1>5. \A t \in Threads : Flying(a, t)' => t = d
  BY <1>3, <1>4 DEF Flying
<1>6. /\ in.type = "REQUEST" => d = opened + 1
      /\ in.type # "REQUEST" => HeldRow(a, in) = row[a][d]
  BY MayBegin DEF InOrder
<1> HIDE DEF d, s
<1>7. \A x \in Agents, t \in Threads :
        /\ Out(x, t)' <=> Out(x, t)
        /\ Out(x, t) => sending'[x] = sending[x]
  BY <1>1, <1>3, <1>4 DEF Out, Flying
<1>8. \A x \in Agents, t \in Threads, type \in {"REQUEST", "ACK", "REPLY", "RESOLVED"} :
        /\ Sent(x, t, type)' <=> Sent(x, t, type)
        /\ Heard(x, t, type)' <=> Heard(x, t, type)
  BY <1>1, <1>7 DEF Sent, Heard
<1>9. ASSUME NEW t \in Threads, Whole(t)' PROVE Agreed(other, t)'
  <2>1. Agreed(origin, t)
    BY <1>1, <1>9 DEF Agreeing, Whole
  <2>2. CASE t <= opened
    BY <1>1, <1>2, <1>8, <2>1, <2>2, UntouchedStaysAgreed
  <2>3. CASE ~(t <= opened)
    <3>1. \A x \in Agents : ~Holds(x, t) /\ row[x][t].status # "resolved" /\ row[x][t].awaiting = None
      BY <2>3 DEF InOrder, RowsInOrder, RowInOrder, Holds
    <3>2. \A x \in Agents, type \in {"REQUEST", "ACK", "REPLY", "RESOLVED"} :
            ~Sent(x, t, type) /\ ~Heard(x, t, type)
      BY <2>3 DEF InOrder, SendsInOrder, SendInOrder, QueuesInOrder, Rightful,
                  Sent, Out, Flying, Heard
    <3>3. \A x \in Agents : None # Peer(x)
      BY PeerIsTheOther, NullAssumption
    <3>4. \A x \in Agents : ~Holds(x, t)' /\ ~Closed(x, t)' /\ ~Waits(x, t)'
      BY <1>1, <1>8, <3>1, <3>2, <3>3 DEF Holds, Closed, Waits
    <3>5. \A x \in Agents : /\ ~Sent(x, t, "REQUEST")' /\ ~Heard(x, t, "REQUEST")'
                            /\ ~Heard(x, t, "ACK")' /\ ~Heard(x, t, "REPLY")'
                            /\ ~Heard(x, t, "RESOLVED")'
      BY <1>8, <3>2
    <3>6. other[t] \in Agents /\ Peer(other[t]) \in Agents
      BY <1>2, PeerIsTheOther
    <3> QED
      BY <3>4, <3>5, <3>6 DEF Agreed
  <2> QED
    BY <2>2, <2>3
<1>10. NothingStale'
  <2>1. ASSUME NEW x \in Agents, NEW t \in Threads, Whole(t)', Flying(x, t)'
        PROVE  IF sending'[x].env.type = "REQUEST" THEN ~Holds(x, t)
               ELSE sending'[x].existing = row[x][t]
    <3>1. CASE x # a
      <4>1. sending'[x] = sending[x] /\ Flying(x, t) /\ Whole(t)
        BY <1>1, <1>3, <2>1, <3>1 DEF Flying, Whole
      <4> QED
        BY <4>1 DEF NothingStale
    <3>2. CASE x = a
      <4>1. t = d /\ sending'[x] = s
        BY <1>3, <1>5, <2>1, <3>2
      <4>2. CASE in.type = "REQUEST"
        <5>1. ~(t <= opened)
          BY <1>2, <1>6, <4>1, <4>2
        <5>2. ~Holds(x, t)
          BY <5>1 DEF InOrder, RowsInOrder, RowInOrder, Holds
        <5> QED
          BY <1>4, <4>1, <4>2, <5>2
      <4>3. CASE in.type # "REQUEST"
        BY <1>4, <1>6, <3>2, <4>1, <4>3
      <4> QED
        BY <4>2, <4>3
    <3> QED
      BY <3>1, <3>2
  <2>2. \A x \in Agents, t \in Threads : Holds(x, t)' <=> Holds(x, t)
    BY <1>1 DEF Holds
  <2> QED
    BY <1>1, <2>1, <2>2 DEF NothingStale
<1> QED
  BY <1>9, <1>10 DEF Agreeing

\* Once a send is over only what it wrote is left of it.
LEMMA OverTouches ==
  ASSUME TypeOK, NEW a \in Agents, Miss(a) \/ Record(a) \/ Crash(a)
  PROVE  /\ sending[a] # None /\ sending'[a] = None /\ queue' = queue
         /\ \A x \in Agents \ {a} : sending'[x] = sending[x]
         /\ \A x \in Agents, t \in Threads :
              ~(x = a /\ t = sending[a].env.thread) => row'[x][t] = row[x][t]
         /\ \A x \in Agents, t \in Threads :
              /\ Flying(x, t)' <=> x # a /\ Flying(x, t)
              /\ \A type \in {"REQUEST", "ACK", "REPLY", "RESOLVED"} :
                   /\ Sent(x, t, type)' <=> x # a /\ Sent(x, t, type)
                   /\ Heard(x, t, type)' <=> Heard(x, t, type)
         /\ torn \subseteq torn' /\ untold \subseteq untold'
<1>1. /\ sending[a] # None /\ sending' = [sending EXCEPT ![a] = None] /\ queue' = queue
      /\ torn \subseteq torn' /\ untold \subseteq untold'
  BY DEF Miss, Record, Crash, Forgotten, history
<1>2. sending'[a] = None /\ \A x \in Agents \ {a} : sending'[x] = sending[x]
  BY <1>1 DEF TypeOK
<1>3. sending[a].env.thread \in Threads
  BY <1>1, SendingType
<1>4. \E r : row' = row \/ row' = [row EXCEPT ![a][sending[a].env.thread] = r]
  <2>1. CASE Miss(a)
    BY <2>1 DEF Miss
  <2>2. CASE Record(a)
    BY <2>2 DEF Record
  <2>3. CASE Crash(a)
    BY <2>3 DEF Crash
  <2> QED
    BY <2>1, <2>2, <2>3
<1>5. \A x \in Agents, t \in Threads :
        ~(x = a /\ t = sending[a].env.thread) => row'[x][t] = row[x][t]
  BY <1>3, <1>4 DEF TypeOK
<1>6. \A x \in Agents, t \in Threads : Flying(x, t)' <=> x # a /\ Flying(x, t)
  BY <1>2 DEF Flying
<1>7. \A x \in Agents, t \in Threads, type \in {"REQUEST", "ACK", "REPLY", "RESOLVED"} :
        /\ Sent(x, t, type)' <=> x # a /\ Sent(x, t, type)
        /\ Heard(x, t, type)' <=> Heard(x, t, type)
  BY <1>1, <1>2, <1>6 DEF Sent, Out, Heard
<1> QED
  BY <1>1, <1>2, <1>5, <1>6, <1>7

\* A send that is over leaves no send to be stale.
LEMMA OverStale ==
  ASSUME TypeOK, NothingStale, NEW a \in Agents, Miss(a) \/ Record(a) \/ Crash(a)
  PROVE  NothingStale'
<1>1. ASSUME NEW x \in Agents, NEW t \in Threads, Whole(t)', Flying(x, t)'
      PROVE  IF sending'[x].env.type = "REQUEST" THEN ~Holds(x, t)'
             ELSE sending'[x].existing = row'[x][t]
  <2>1. /\ x # a /\ Flying(x, t) /\ sending'[x] = sending[x] /\ row'[x][t] = row[x][t]
        /\ Whole(t)
    BY <1>1, OverTouches DEF Whole
  <2> QED
    BY <2>1 DEF NothingStale, Holds
<1> QED
  BY <1>1 DEF NothingStale

\* A send that is lost leaves the debates it does not tear, or close untold,
\* as they were.
LEMMA ForgottenAgreed ==
  ASSUME TypeOK, NEW origin \in [Threads -> Agents], Agreeing(origin),
         NEW a \in Agents, Miss(a) \/ Crash(a)
  PROVE  Agreeing(origin)'
<1> DEFINE d == sending[a].env.thread
<1>1. ASSUME NEW t \in Threads, Whole(t)' PROVE Agreed(origin, t)'
  <2>1. Agreed(origin, t)
    BY <1>1, OverTouches DEF Agreeing, Whole
  <2>2. \A x \in Agents : row'[x][t] = row[x][t]
    <3>1. CASE t # d
      BY <3>1, OverTouches
    <3>2. CASE t = d
      <4>1. row' = row
        BY <1>1, <3>2 DEF Miss, Crash, Whole
      <4> QED
        BY <4>1
    <3> QED
      BY <3>1, <3>2
  <2>3. ~Out(a, t)
    <3>1. Out(a, t) => t = d /\ sending[a].landed
      BY DEF Out, Flying
    <3>2. t = d /\ sending[a].landed => t \in torn'
      BY DEF Miss, Crash, Forgotten
    <3> QED
      BY <1>1, <3>1, <3>2 DEF Whole
  <2>4. \A x \in Agents, type \in {"REQUEST", "ACK", "REPLY", "RESOLVED"} :
          /\ Sent(x, t, type)' <=> Sent(x, t, type)
          /\ Heard(x, t, type)' <=> Heard(x, t, type)
    BY <2>3, OverTouches DEF Sent
  <2> QED
    BY <2>1, <2>2, <2>4, UntouchedStaysAgreed
<1> QED
  BY <1>1 DEF Agreeing

\* What the end that sent it records is what it told the other.
LEMMA RecordAgreed ==
  ASSUME TypeOK, NEW origin \in [Threads -> Agents], InOrder(origin),
         Agreeing(origin), NothingStale, NEW a \in Agents, Record(a)
  PROVE  Agreeing(origin)'
<1> DEFINE s == sending[a]
           d == s.env.thread
           after == P(a)!RowAfter(s.existing, s.env)
<1>1. /\ s # None /\ s.landed /\ sending[a] # None
      /\ row' = [row EXCEPT ![a][d] = after] /\ torn' = torn /\ untold' = untold
  BY DEF Record, history
<1>2. d \in Threads /\ s.env \in Message /\ s.existing \in Row
  BY <1>1, SendingType
<1>3. row'[a][d] = after
  BY <1>1, <1>2 DEF TypeOK
<1>4. SendInOrder(s, a, origin, opened)
  BY <1>1 DEF InOrder, SendsInOrder
<1>5. /\ RowInOrder(after, origin[d], d, opened)
      /\ s.env.type = "REQUEST" => after.status = "open" /\ after.awaiting = s.env.to
      /\ s.existing.status # "absent" /\ s.env.type = "ACK"
           => after.status = s.existing.status /\ after.awaiting = s.existing.awaiting
      /\ s.existing.status = "open" /\ s.env.type = "REPLY"
           => after.status = "open" /\ after.awaiting = Peer(s.env.from)
      /\ s.existing.status # "absent" /\ s.env.type = "RESOLVED"
           => after.status = "resolved"
  BY <1>2, <1>4, Transition DEF SendInOrder
<1>6. Flying(a, d) /\ Out(a, d) /\ \A t \in Threads : Out(a, t) => t = d
  BY <1>1 DEF Flying, Out
<1>7. Peer(a) # None
  BY PeerIsTheOther, NullAssumption
<1>8. /\ s.env.from = a /\ s.env.to = Peer(a)
      /\ s.env.type \in {"REQUEST", "REPLY", "ACK", "RESOLVED"}
      /\ s.env.type = "REQUEST" => a = origin[d]
      /\ s.env.type # "REQUEST" => s.existing.status # "absent"
      /\ s.env.type \in {"REPLY", "RESOLVED"} => s.existing.status = "open"
  BY <1>4 DEF SendInOrder, Rightful
<1>9. \A type : Sent(a, d, type) <=> type = s.env.type
  BY <1>6 DEF Sent
<1> HIDE DEF s, d, after
<1>10. ASSUME NEW t \in Threads, Whole(t)' PROVE Agreed(origin, t)'
  <2>1. Agreed(origin, t) /\ Whole(t)
    BY <1>1, <1>10 DEF Agreeing, Whole
  <2>2. CASE t # d
    <3>1. \A x \in Agents : row'[x][t] = row[x][t]
      BY <2>2, OverTouches DEF d, s
    <3>2. \A x \in Agents, type \in {"REQUEST", "ACK", "REPLY", "RESOLVED"} :
            /\ Sent(x, t, type)' <=> Sent(x, t, type)
            /\ Heard(x, t, type)' <=> Heard(x, t, type)
      BY <1>6, <2>2, OverTouches DEF Sent
    <3> QED
      BY <2>1, <3>1, <3>2, UntouchedStaysAgreed
  <2>3. CASE t = d
    <3>1. \A x \in Agents \ {a} : row'[x][t] = row[x][t]
      BY OverTouches
    <3>2. \A x \in Agents : \A type \in {"REQUEST", "ACK", "REPLY", "RESOLVED"} :
            /\ Sent(x, t, type)' <=> x # a /\ Sent(x, t, type)
            /\ Heard(x, t, type)' <=> Heard(x, t, type)
      BY OverTouches
    <3>3. IF s.env.type = "REQUEST" THEN ~Holds(a, t) ELSE s.existing = row[a][t]
      BY <1>6, <2>1, <2>3 DEF NothingStale, s
    <3>4. ASSUME NEW x \in Agents, x # a
          PROVE  /\ Holds(x, t)' <=> Holds(x, t)
                 /\ Closed(x, t)' <=> Closed(x, t)
                 /\ Waits(x, t)' <=> Waits(x, t)
                 /\ Sent(x, t, "REQUEST")' <=> Sent(x, t, "REQUEST")
      BY <3>1, <3>2, <3>4 DEF Holds, Closed, Waits
    <3>5. \A type \in {"REQUEST", "ACK", "REPLY", "RESOLVED"} :
            ~Sent(a, t, type)' /\ (Sent(a, t, type) <=> type = s.env.type)
      BY <1>9, <2>3, <3>2
    <3>6. /\ Holds(a, t) <=> row[a][t].status # "absent"
          /\ Holds(a, t)' <=> after.status # "absent"
          /\ Closed(a, t) <=> row[a][t].status = "resolved" \/ s.env.type = "RESOLVED"
          /\ Closed(a, t)' <=> after.status = "resolved"
          /\ Waits(a, t) <=> row[a][t].awaiting = Peer(a) \/ s.env.type \in {"REQUEST", "REPLY"}
          /\ Waits(a, t)' <=> after.awaiting = Peer(a)
      BY <1>3, <2>3, <3>5 DEF Holds, Closed, Waits
    <3>7. /\ Holds(a, t) => Holds(a, t)'
          /\ Holds(a, t)' => Holds(a, t) \/ (a = origin[t] /\ Sent(a, t, "REQUEST"))
          /\ Holds(a, t) \/ Sent(a, t, "REQUEST") <=> Holds(a, t)' \/ Sent(a, t, "REQUEST")'
          /\ Closed(a, t)' <=> Closed(a, t)
          /\ Waits(a, t)' => Waits(a, t)
      <4>1. CASE s.env.type = "REQUEST"
        BY <1>5, <1>8, <2>3, <3>3, <3>5, <3>6, <4>1
      <4>2. CASE s.env.type = "ACK"
        BY <1>5, <1>8, <2>3, <3>3, <3>5, <3>6, <4>2
      <4>3. CASE s.env.type = "REPLY"
        BY <1>5, <1>8, <2>3, <3>3, <3>5, <3>6, <4>3
      <4>4. CASE s.env.type = "RESOLVED"
        <5>1. after.status = "resolved" /\ after.awaiting = None
          BY <1>5, <1>8, <4>4 DEF RowInOrder
        <5> QED
          BY <1>7, <1>8, <2>3, <3>3, <3>5, <3>6, <4>4, <5>1
      <4> QED
        BY <1>8, <4>1, <4>2, <4>3, <4>4
    <3> QED
      BY <2>1, <3>2, <3>4, <3>7, StaysAgreed
  <2> QED
    BY <2>2, <2>3
<1> QED
  BY <1>10 DEF Agreeing

LEMMA LandAgreed ==
  ASSUME TypeOK, NEW origin \in [Threads -> Agents], InOrder(origin),
         Agreeing(origin), NothingStale, NEW a \in Agents, Land(a)
  PROVE  Agreeing(origin)' /\ NothingStale'
<1> DEFINE y == Peer(a)
           m == sending[a].env
           d == sending[a].env.thread
<1>1. /\ sending[a] # None /\ ~sending[a].landed /\ row' = row
      /\ torn' = torn /\ untold' = untold
  BY DEF Land
<1>2. y \in Agents /\ y # a /\ Peer(y) = a /\ \A x \in Agents : x = a \/ x = y
  BY PeerIsTheOther
<1>3. /\ sending'[a] # None /\ sending'[a].landed /\ sending'[a].env = m
      /\ sending'[a].existing = sending[a].existing
      /\ \A x \in Agents \ {a} : sending'[x] = sending[x]
  <2>1. sending'[a] = [sending[a] EXCEPT !.landed = TRUE]
        /\ \A x \in Agents \ {a} : sending'[x] = sending[x]
    BY DEF Land, TypeOK
  <2>2. sending[a] \in InFlight
    BY <1>1, SendingType
  <2>3. [sending[a] EXCEPT !.landed = TRUE] \in InFlight
    BY <2>2 DEF InFlight
  <2> QED
    BY <2>1, <2>2, <2>3, NullAssumption DEF InFlight
<1>4. d \in Threads
  BY <1>1, SendingType
<1>5. SendInOrder(sending[a], a, origin, opened)
  BY <1>1 DEF InOrder, SendsInOrder
<1>6. /\ m.type \in {"REQUEST", "REPLY", "ACK", "RESOLVED"}
      /\ m.type = "REQUEST" => a = origin[d]
      /\ m.type # "REQUEST" => sending[a].existing.status # "absent"
  BY <1>5 DEF SendInOrder, Rightful
<1>7. /\ \A t \in Threads : Flying(a, t) <=> t = d
      /\ \A x \in Agents, t \in Threads : Flying(x, t)' <=> Flying(x, t)
      /\ \A t \in Threads : ~Out(a, t)
      /\ \A t \in Threads : Out(a, t)' <=> t = d
      /\ \A x \in Agents \ {a}, t \in Threads : Out(x, t)' <=> Out(x, t)
  BY <1>1, <1>3 DEF Flying, Out
<1>8. \A t \in Threads, type \in {"REQUEST", "ACK", "REPLY", "RESOLVED"} :
        /\ ~Sent(a, t, type)
        /\ Sent(a, t, type)' <=> t = d /\ type = m.type
        /\ Sent(y, t, type)' <=> Sent(y, t, type)
  BY <1>2, <1>3, <1>7 DEF Sent
<1>9. \A t \in Threads, type \in {"REQUEST", "ACK", "REPLY", "RESOLVED"} :
        /\ Heard(a, t, type)' <=> Heard(a, t, type)
        /\ Heard(y, t, type)' <=> Heard(y, t, type) \/ (t = d /\ type = m.type)
  <2> DEFINE last == Len(queue[y]) + 1
  <2>1. /\ queue'[a] = queue[a]
        /\ last \in DOMAIN queue'[y] /\ queue'[y][last] = m
        /\ DOMAIN queue[y] = 1..(last - 1) /\ DOMAIN queue'[y] = 1..last /\ last \in Nat
        /\ \A i \in DOMAIN queue[y] : queue'[y][i] = queue[y][i]
    BY <1>2, LandedQueues
  <2> HIDE DEF last, y, m
  <2>2. \A i \in DOMAIN queue'[y] : i = last \/ i \in DOMAIN queue[y]
    BY <2>1
  <2>3. \A i \in DOMAIN queue[y] : i \in DOMAIN queue'[y]
    BY <2>1
  <2>4. m.thread = d
    BY DEF m
  <2> HIDE DEF d
  <2> TAKE t \in Threads, type \in {"REQUEST", "ACK", "REPLY", "RESOLVED"}
  <2>5. Heard(a, t, type)' <=> Heard(a, t, type)
    BY <2>1 DEF Heard
  <2>6. Heard(y, t, type)' => Heard(y, t, type) \/ (t = d /\ type = m.type)
    <3> SUFFICES ASSUME NEW i \in DOMAIN queue'[y],
                        queue'[y][i].thread = t, queue'[y][i].type = type
                 PROVE  Heard(y, t, type) \/ (t = d /\ type = m.type)
      BY DEF Heard, y
    <3> QED
      BY <2>1, <2>2, <2>4 DEF Heard
  <2>7. Heard(y, t, type) => Heard(y, t, type)'
    <3> SUFFICES ASSUME NEW i \in DOMAIN queue[y],
                        queue[y][i].thread = t, queue[y][i].type = type
                 PROVE  \E j \in DOMAIN queue'[y] :
                          queue'[y][j].thread = t /\ queue'[y][j].type = type
      BY DEF Heard, y
    <3> QED
      BY <2>1, <2>3
  <2>8. t = d /\ type = m.type => Heard(y, t, type)'
    <3> SUFFICES ASSUME t = d, type = m.type
                 PROVE  \E j \in DOMAIN queue'[y] :
                          queue'[y][j].thread = t /\ queue'[y][j].type = type
      BY DEF Heard, y
    <3> QED
      BY <2>1, <2>4
  <2> QED
    BY <2>5, <2>6, <2>7, <2>8
<1>10. \A x \in Agents, t \in Threads :
         /\ Holds(x, t)' <=> Holds(x, t)
         /\ x # a \/ t # d => (Closed(x, t)' <=> Closed(x, t)) /\ (Waits(x, t)' <=> Waits(x, t))
  BY <1>1, <1>2, <1>8 DEF Holds, Closed, Waits
<1> HIDE DEF d, m, y
<1>11. ASSUME NEW t \in Threads, Whole(t)' PROVE Agreed(origin, t)'
  <2>1. Agreed(origin, t) /\ Whole(t)
    BY <1>1, <1>11 DEF Agreeing, Whole
  <2>2. CASE t # d
    <3>1. \A x \in Agents :
            /\ row'[x][t] = row[x][t]
            /\ \A type \in {"REQUEST", "ACK", "REPLY", "RESOLVED"} :
                 /\ Sent(x, t, type)' <=> Sent(x, t, type)
                 /\ Heard(x, t, type)' <=> Heard(x, t, type)
      BY <1>1, <1>2, <1>8, <1>9, <2>2
    <3> QED
      BY <2>1, <3>1, UntouchedStaysAgreed
  <2>3. CASE t = d
    <3>1. m.type # "REQUEST" => Holds(a, t)
      BY <1>6, <1>7, <2>1, <2>3 DEF NothingStale, Holds, m
    <3>2. origin[t] \in Agents /\ (origin[t] = a \/ origin[t] = y)
      BY <1>2
    <3>3. /\ Closed(a, t)' <=> Closed(a, t) \/ m.type = "RESOLVED"
          /\ Waits(a, t)' <=> Waits(a, t) \/ m.type \in {"REQUEST", "REPLY"}
      BY <1>1, <1>8, <2>3 DEF Closed, Waits, y
    <3>4. m.type = "REQUEST" => ~Waits(y, t) /\ ~Closed(y, t)
      <4> SUFFICES ASSUME m.type = "REQUEST" PROVE ~Waits(y, t) /\ ~Closed(y, t)
        OBVIOUS
      <4>1. ~Holds(y, t) /\ ~Flying(y, t)
        BY <1>1, <1>2, <1>7, <2>3 DEF InOrder, OpeningsAreFirst, m
      <4>2. row[y][t].awaiting = None /\ row[y][t].status = "absent"
        BY <1>2, <4>1 DEF InOrder, RowsInOrder, RowInOrder, Holds
      <4>3. Peer(y) # None
        BY <1>2, NullAssumption
      <4> QED
        BY <4>1, <4>2, <4>3 DEF Waits, Closed, Sent, Out
    <3>5. \A x \in Agents : Peer(x) \in Agents /\ (x = a => Peer(x) = y) /\ (x = y => Peer(x) = a)
      BY <1>2, PeerIsTheOther DEF y
    <3>6. /\ Holds(Peer(origin[t]), t)' \/ Heard(Peer(origin[t]), t, "REQUEST")' =>
               Holds(origin[t], t)' \/ Sent(origin[t], t, "REQUEST")'
          /\ Holds(origin[t], t)' \/ Sent(origin[t], t, "REQUEST")' =>
               Holds(Peer(origin[t]), t)' \/ Heard(Peer(origin[t]), t, "REQUEST")'
      <4>1. CASE origin[t] = a
        BY <1>2, <1>8, <1>9, <1>10, <2>1, <2>3, <3>5, <4>1 DEF Agreed
      <4>2. CASE origin[t] = y
        <5>1. m.type # "REQUEST"
          BY <1>2, <1>6, <2>3, <4>2
        <5> QED
          BY <1>2, <1>8, <1>9, <1>10, <2>1, <3>5, <4>2, <5>1 DEF Agreed
      <4> QED
        BY <3>2, <4>1, <4>2
    <3>7. /\ Heard(y, t, "ACK")' \/ Heard(y, t, "REPLY")' \/ Heard(y, t, "RESOLVED")' =>
               Holds(a, t)'
          /\ Heard(a, t, "ACK")' \/ Heard(a, t, "REPLY")' \/ Heard(a, t, "RESOLVED")' =>
               Holds(y, t)'
      BY <1>2, <1>9, <1>10, <2>1, <3>1, <3>5 DEF Agreed
    <3>8. /\ Closed(a, t)' => Closed(y, t)' \/ Heard(y, t, "RESOLVED")'
          /\ Closed(y, t)' => Closed(a, t)' \/ Heard(a, t, "RESOLVED")'
          /\ Heard(y, t, "RESOLVED")' => Closed(a, t)'
          /\ Heard(a, t, "RESOLVED")' => Closed(y, t)'
      BY <1>2, <1>9, <1>10, <2>1, <2>3, <3>3, <3>5 DEF Agreed
    <3>9. Waits(a, t)' /\ Waits(y, t)' => Heard(a, t, "REPLY")' \/ Heard(y, t, "REPLY")'
      BY <1>2, <1>6, <1>9, <1>10, <2>1, <2>3, <3>3, <3>4, <3>5 DEF Agreed
    <3> QED
      BY <1>2, <3>5, <3>6, <3>7, <3>8, <3>9 DEF Agreed
  <2> QED
    BY <2>2, <2>3
<1>12. NothingStale'
  <2>1. ASSUME NEW x \in Agents, NEW t \in Threads, Whole(t)', Flying(x, t)'
        PROVE  IF sending'[x].env.type = "REQUEST" THEN ~Holds(x, t)'
               ELSE sending'[x].existing = row'[x][t]
    <3>1. Whole(t) /\ Flying(x, t)
      BY <1>1, <1>7, <2>1 DEF Whole
    <3>2. sending'[x].env = sending[x].env /\ sending'[x].existing = sending[x].existing
      BY <1>3 DEF m
    <3> QED
      BY <1>1, <1>10, <3>1, <3>2 DEF NothingStale
  <2> QED
    BY <2>1 DEF NothingStale
<1> QED
  BY <1>11, <1>12 DEF Agreeing

\* A batch with one message of a debate, or none, brings its end what the
\* other had told it.
LEMMA AdmitAgreed ==
  ASSUME TypeOK, NEW origin \in [Threads -> Agents], InOrder(origin),
         Agreeing(origin), NothingStale, NEW a \in Agents, Admit(a)
  PROVE  Agreeing(origin)' /\ NothingStale'
<1> DEFINE y == Peer(a)
<1>1. PICK n \in 1..Len(queue[a]) :
        /\ row' = [row EXCEPT ![a] = [d \in Threads |-> RowAdmitted(a, n, d)]]
        /\ queue' = [queue EXCEPT ![a] = SubSeq(@, n + 1, Len(@))]
        /\ torn' = torn \cup
             {d \in Threads : /\ Batched(a, n, d) # {}
                              /\ \/ Cardinality(Batched(a, n, d)) > 1
                                 \/ sending[a] # None /\ sending[a].env.thread = d}
  BY DEF Admit
<1>2. sending' = sending /\ untold' = untold
  BY DEF Admit
<1>3. y \in Agents /\ y # a /\ Peer(y) = a /\ \A x \in Agents : x = a \/ x = y
  BY PeerIsTheOther
<1>4. /\ queue'[y] = queue[y]
      /\ DOMAIN queue[a] = 1..Len(queue[a]) /\ n \in DOMAIN queue[a] /\ n \in Nat
      /\ Len(queue[a]) \in Nat
      /\ DOMAIN queue'[a] = 1..(Len(queue[a]) - n)
      /\ \A i \in DOMAIN queue'[a] :
           i + n \in DOMAIN queue[a] /\ queue'[a][i] = queue[a][i + n]
      /\ \A i \in DOMAIN queue[a] : i > n =>
           i - n \in DOMAIN queue'[a] /\ queue'[a][i - n] = queue[a][i]
  BY <1>1, <1>3, AdmittedQueues
<1>5. /\ \A t \in Threads : row'[a][t] = RowAdmitted(a, n, t)
      /\ row'[y] = row[y]
  BY <1>1, <1>3 DEF TypeOK
<1>6. ASSUME NEW t \in Threads, Whole(t)'
      PROVE  /\ Whole(t)
             /\ Batched(a, n, t) # {} =>
                  ~(Cardinality(Batched(a, n, t)) > 1) /\ ~Flying(a, t)
  BY <1>1, <1>2, <1>6 DEF Whole, Flying
<1>7. \A x \in Agents, t \in Threads, type \in {"REQUEST", "ACK", "REPLY", "RESOLVED"} :
        Sent(x, t, type)' <=> Sent(x, t, type)
  BY <1>2 DEF Sent, Out, Flying
<1>8. \A t \in Threads, type \in {"REQUEST", "ACK", "REPLY", "RESOLVED"} :
        /\ Heard(y, t, type)' <=> Heard(y, t, type)
        /\ Heard(a, t, type)' => Heard(a, t, type)
        /\ Heard(a, t, type) =>
             \/ Heard(a, t, type)'
             \/ \E i \in Batched(a, n, t) : queue[a][i].type = type
  <2> HIDE DEF y
  <2> TAKE t \in Threads, type \in {"REQUEST", "ACK", "REPLY", "RESOLVED"}
  <2>1. Heard(y, t, type)' <=> Heard(y, t, type)
    <3> USE DEF y
    <3> QED
      BY <1>4 DEF Heard
  <2>2. Heard(a, t, type)' => Heard(a, t, type)
    BY <1>4 DEF Heard
  <2>3. Heard(a, t, type) =>
          \/ Heard(a, t, type)'
          \/ \E i \in Batched(a, n, t) : queue[a][i].type = type
    <3> SUFFICES ASSUME NEW i \in DOMAIN queue[a],
                        queue[a][i].thread = t, queue[a][i].type = type
                 PROVE  \/ \E j \in DOMAIN queue'[a] :
                             queue'[a][j].thread = t /\ queue'[a][j].type = type
                        \/ \E j \in Batched(a, n, t) : queue[a][j].type = type
      BY DEF Heard
    <3>1. CASE i > n
      BY <1>4, <3>1
    <3>2. CASE ~(i > n)
      <4>1. i \in Batched(a, n, t)
        BY <1>4, <3>2 DEF Batched
      <4> QED
        BY <4>1
    <3> QED
      BY <3>1, <3>2
  <2> QED
    BY <2>1, <2>2, <2>3
<1>9. ASSUME NEW t \in Threads, Batched(a, n, t) = {}
      PROVE  /\ \A x \in Agents : row'[x][t] = row[x][t]
             /\ \A x \in Agents : \A type \in {"REQUEST", "ACK", "REPLY", "RESOLVED"} :
                  Heard(x, t, type)' <=> Heard(x, t, type)
  <2>1. row'[a][t] = row[a][t]
    BY <1>5, <1>9, AdmittedRows
  <2> QED
    BY <1>3, <1>5, <1>8, <1>9, <2>1
<1>10. NothingStale'
  <2>1. ASSUME NEW x \in Agents, NEW t \in Threads, Whole(t)', Flying(x, t)
        PROVE  IF sending[x].env.type = "REQUEST" THEN ~Holds(x, t)'
               ELSE sending[x].existing = row'[x][t]
    <3>1. row'[x][t] = row[x][t]
      <4>1. CASE x = y
        BY <1>5, <4>1
      <4>2. CASE x = a
        <5>1. Batched(a, n, t) = {}
          BY <1>6, <2>1, <4>2
        <5> QED
          BY <1>9, <4>2, <5>1
      <4> QED
        BY <1>3, <4>1, <4>2
    <3>2. Whole(t)
      BY <1>6, <2>1
    <3> QED
      BY <2>1, <3>1, <3>2 DEF NothingStale, Holds
  <2> QED
    BY <1>2, <2>1 DEF NothingStale, Flying
<1> HIDE DEF y
<1>11. ASSUME NEW t \in Threads, Whole(t)' PROVE Agreed(origin, t)'
  <2>1. Agreed(origin, t) /\ Whole(t)
    BY <1>6, <1>11 DEF Agreeing
  <2>2. CASE Batched(a, n, t) = {}
    BY <1>7, <1>9, <2>1, <2>2, UntouchedStaysAgreed
  <2>3. CASE Batched(a, n, t) # {}
    <3>1. PICK i \in DOMAIN queue[a] :
            /\ Batched(a, n, t) = {i}
            /\ row'[a][t] = P(a)!RowAfter(row[a][t], queue[a][i])
      BY <1>5, <1>6, <1>11, <2>3, AdmittedRows
    <3> DEFINE m == queue[a][i]
               was == row[a][t]
               after == P(a)!RowAfter(was, m)
    <3>2. i <= n /\ m.thread = t /\ m \in Message /\ was \in Row
      BY <1>4, <3>1 DEF Batched, TypeOK
    <3>3. Rightful(m, origin, opened) /\ m.from = y /\ y # a
      BY <1>3 DEF InOrder, QueuesInOrder, y
    <3>4. RowInOrder(was, origin[t], t, opened)
      BY DEF InOrder, RowsInOrder
    <3>5. /\ RowInOrder(after, origin[t], t, opened)
          /\ m.type = "REQUEST" => after.status = "open" /\ after.awaiting = m.to
          /\ was.status # "absent" /\ m.type = "ACK"
               => after.status = was.status /\ after.awaiting = was.awaiting
          /\ was.status = "open" /\ m.type = "REPLY"
               => after.status = "open" /\ after.awaiting = Peer(m.from)
          /\ was.status # "absent" /\ m.type = "RESOLVED" => after.status = "resolved"
          /\ was.status = "resolved" /\ m.type = "REPLY" => after = was
      BY <3>2, <3>3, <3>4, Transition
    <3>6. /\ m.type \in {"REQUEST", "REPLY", "ACK", "RESOLVED"} /\ m.to = a
          /\ m.type = "REQUEST" => origin[t] = y
      BY <1>3, <3>2, <3>3 DEF Rightful
    <3>7. \A type \in {"REQUEST", "ACK", "REPLY", "RESOLVED"} :
            /\ ~Sent(a, t, type) /\ ~Sent(a, t, type)'
            /\ Sent(y, t, type)' <=> Sent(y, t, type)
      BY <1>3, <1>6, <1>7, <1>11, <2>3 DEF Sent, Out
    <3>8. \A type \in {"REQUEST", "ACK", "REPLY", "RESOLVED"} :
            /\ Heard(y, t, type)' <=> Heard(y, t, type)
            /\ Heard(a, t, type)' => Heard(a, t, type)
            /\ type # m.type => (Heard(a, t, type)' <=> Heard(a, t, type))
      BY <1>8, <3>1
    <3>9. Heard(a, t, m.type)
      BY <3>2 DEF Heard
    <3>10. \A x \in Agents : Peer(x) \in Agents /\ (x = a => Peer(x) = y) /\ (x = y => Peer(x) = a)
      BY <1>3, PeerIsTheOther DEF y
    <3>11. origin[t] = a \/ origin[t] = y
      BY <1>3
    <3>12. ASSUME m.type # "REQUEST" PROVE Holds(a, t)
      <4>1. Holds(y, t)
        BY <1>3, <2>1, <3>6, <3>9, <3>10, <3>12 DEF Agreed
      <4>2. CASE origin[t] = a
        BY <1>3, <2>1, <3>7, <3>10, <4>1, <4>2 DEF Agreed
      <4>3. CASE origin[t] = y
        <5>1. Holds(a, t) \/ Heard(a, t, "REQUEST")
          BY <1>3, <2>1, <3>10, <4>1, <4>3 DEF Agreed
        <5>2. ASSUME Heard(a, t, "REQUEST") PROVE FALSE
          <6>1. PICK k \in DOMAIN queue[a] : queue[a][k].thread = t /\ queue[a][k].type = "REQUEST"
            BY <5>2 DEF Heard
          <6>2. k <= i
            BY <3>2, <6>1 DEF InOrder, OpeningsAreFirst
          <6>3. k \in Batched(a, n, t)
            BY <1>4, <3>2, <6>1, <6>2 DEF Batched
          <6> QED
            BY <3>1, <3>12, <6>1, <6>3
        <5> QED
          BY <5>1, <5>2
      <4> QED
        BY <3>11, <4>2, <4>3
    <3>13. m.type = "REQUEST" => ~Holds(a, t)
      BY <3>2 DEF InOrder, OpeningsAreFirst
    <3>14. /\ Holds(a, t)' <=> after.status # "absent"
           /\ Holds(a, t) <=> was.status # "absent"
           /\ Closed(a, t)' <=> after.status = "resolved"
           /\ Closed(a, t) <=> was.status = "resolved"
           /\ Waits(a, t)' <=> after.awaiting = y
           /\ Waits(a, t) <=> was.awaiting = y
      BY <3>1, <3>7 DEF Holds, Closed, Waits, y
    <3>15. /\ Holds(y, t)' <=> Holds(y, t)
           /\ Closed(y, t)' <=> Closed(y, t)
           /\ Waits(y, t)' <=> Waits(y, t)
      BY <1>5, <3>7 DEF Holds, Closed, Waits
    <3>16. /\ was.status \in {"absent", "open", "resolved"}
           /\ was.status # "open" => was.awaiting = None
           /\ after.status # "open" => after.awaiting = None
           /\ y # None
      BY <1>3, <3>2, <3>4, <3>5, NullAssumption DEF RowInOrder, Row, P!ThreadRow
    <3>17. Peer(m.from) = a
      BY <1>3, <3>3
    <3> HIDE DEF m, was, after
    <3>18. /\ Holds(a, t)'
           /\ m.type # "ACK" => ~Waits(a, t)'
           /\ m.type = "ACK" => (Waits(a, t)' <=> Waits(a, t))
           /\ Closed(a, t)' <=> Closed(a, t) \/ m.type = "RESOLVED"
      <4>1. CASE m.type = "REQUEST"
        BY <3>3, <3>5, <3>6, <3>13, <3>14, <4>1
      <4>2. CASE m.type = "ACK"
        BY <3>5, <3>12, <3>14, <4>2
      <4>3. CASE m.type = "REPLY"
        BY <3>3, <3>5, <3>12, <3>14, <3>16, <3>17, <4>3
      <4>4. CASE m.type = "RESOLVED"
        BY <3>5, <3>12, <3>14, <3>16, <4>4
      <4> QED
        BY <3>6, <4>1, <4>2, <4>3, <4>4
    <3>19. /\ Holds(Peer(origin[t]), t)' \/ Heard(Peer(origin[t]), t, "REQUEST")' =>
                Holds(origin[t], t)' \/ Sent(origin[t], t, "REQUEST")'
           /\ Holds(origin[t], t)' \/ Sent(origin[t], t, "REQUEST")' =>
                Holds(Peer(origin[t]), t)' \/ Heard(Peer(origin[t]), t, "REQUEST")'
      <4>1. CASE origin[t] = a
        BY <1>3, <2>1, <3>7, <3>8, <3>10, <3>12, <3>15, <3>18, <3>6, <4>1 DEF Agreed
      <4>2. CASE origin[t] = y
        <5>1. Holds(y, t) \/ Sent(y, t, "REQUEST")
          BY <1>3, <2>1, <3>9, <3>10, <3>12, <4>2 DEF Agreed
        <5> QED
          BY <1>3, <3>7, <3>10, <3>15, <3>18, <4>2, <5>1
      <4> QED
        BY <3>11, <4>1, <4>2
    <3>20. /\ Heard(y, t, "ACK")' \/ Heard(y, t, "REPLY")' \/ Heard(y, t, "RESOLVED")' =>
                Holds(a, t)'
           /\ Heard(a, t, "ACK")' \/ Heard(a, t, "REPLY")' \/ Heard(a, t, "RESOLVED")' =>
                Holds(y, t)'
      BY <1>3, <2>1, <3>8, <3>10, <3>15, <3>18 DEF Agreed
    <3>21. /\ Closed(a, t)' => Closed(y, t)' \/ Heard(y, t, "RESOLVED")'
           /\ Closed(y, t)' => Closed(a, t)' \/ Heard(a, t, "RESOLVED")'
           /\ Heard(y, t, "RESOLVED")' => Closed(a, t)'
           /\ Heard(a, t, "RESOLVED")' => Closed(y, t)'
      BY <1>3, <2>1, <3>8, <3>9, <3>10, <3>15, <3>18 DEF Agreed
    <3>22. Waits(a, t)' /\ Waits(y, t)' => Heard(a, t, "REPLY")' \/ Heard(y, t, "REPLY")'
      BY <1>3, <2>1, <3>8, <3>10, <3>15, <3>18 DEF Agreed
    <3> QED
      BY <1>3, <3>10, <3>19, <3>20, <3>21, <3>22 DEF Agreed
  <2> QED
    BY <2>2, <2>3
<1> QED
  BY <1>10, <1>11 DEF Agreeing

\* In agreement, with nothing on its way, is what EndsAgree says.
LEMMA AgreedIsAgreement ==
  ASSUME TypeOK, NEW origin \in [Threads -> Agents], RowsInOrder(origin),
         Agreeing(origin)
  PROVE  EndsAgree
<1> SUFFICES ASSUME NEW d \in Threads \ (torn \cup untold), NEW a \in Agents,
                    Quiet(d), Holds(a, d)
             PROVE  /\ row[a][d].status = row[Peer(a)][d].status
                    /\ ~(row[a][d].awaiting = Peer(a) /\ row[Peer(a)][d].awaiting = a)
  BY DEF EndsAgree, Holds
<1> DEFINE b == Peer(a)
<1>1. b \in Agents /\ Peer(b) = a /\ b # a /\ \A x \in Agents : x = a \/ x = b
  BY PeerIsTheOther
<1>2. Agreed(origin, d)
  BY DEF Agreeing, Whole
<1>3. \A x \in Agents, type \in {"REQUEST", "ACK", "REPLY", "RESOLVED"} :
        ~Sent(x, d, type) /\ ~Heard(x, d, type)
  BY DEF Quiet, Sent, Out, Flying, Heard
<1>4. origin[d] = a \/ origin[d] = b
  BY <1>1
<1>5. Holds(b, d)
  BY <1>1, <1>2, <1>3, <1>4 DEF Agreed
<1>6. Closed(a, d) <=> Closed(b, d)
  BY <1>1, <1>2, <1>3 DEF Agreed
<1>7. row[a][d].status = "resolved" <=> row[b][d].status = "resolved"
  BY <1>1, <1>3, <1>6 DEF Closed
<1>8. \A x \in Agents : row[x][d].status \in {"absent", "open", "resolved"}
  <2>1. \A x \in Agents : row[x][d] \in Row
    BY DEF TypeOK
  <2> QED
    BY <2>1 DEF Row, P!ThreadRow
<1>9. row[a][d].status = row[b][d].status
  BY <1>1, <1>5, <1>7, <1>8 DEF Holds
<1>10. ~(Waits(a, d) /\ Waits(b, d))
  BY <1>1, <1>2, <1>3 DEF Agreed
<1> QED
  BY <1>1, <1>9, <1>10 DEF Waits

-----------------------------------------------------------------------------
(* The inductive invariant, for whoever opened each debate.                *)

InvOf(origin) ==
  InOrder(origin) /\ Counted(origin) /\ Agreeing(origin) /\ Capped /\ NothingStale

Inv == TypeOK /\ \E origin \in [Threads -> Agents] : InvOf(origin)

LEMMA InvInit == Init => Inv
<1> SUFFICES ASSUME Init PROVE Inv
  OBVIOUS
<1>1. TypeOK
  BY TypeInit
<1>2. PICK origin : origin \in [Threads -> Agents]
  <2>1. PICK a : a \in Agents
    BY EndsAssumption
  <2>2. [d \in Threads |-> a] \in [Threads -> Agents]
    BY <2>1
  <2> QED
    BY <2>2
<1>3. \A a \in Agents, d \in Threads :
        /\ row[a][d].status = "absent" /\ row[a][d].awaiting = None
        /\ sending[a] = None /\ queue[a] = <<>>
  BY NoThreadIsARow DEF Init
<1>4. \A a \in Agents : DOMAIN queue[a] = {}
  BY <1>3, EndsAssumption DEF Init
<1>5. InOrder(origin) /\ NothingStale
  BY <1>3, <1>4 DEF Init, InOrder, RowsInOrder, RowInOrder, SendsInOrder, QueuesInOrder,
                    OpeningsAreFirst, Holds, Flying, NothingStale
<1>6. \A a \in Agents, d \in Threads :
        /\ ~Holds(a, d) /\ ~Flying(a, d)
        /\ \A type : ~Sent(a, d, type) /\ ~Heard(a, d, type)
  BY <1>3, <1>4 DEF Holds, Flying, Sent, Out, Heard
<1>7. \A a \in Agents : Peer(a) \in Agents /\ Peer(a) # None
  BY PeerIsTheOther, NullAssumption
<1>8. \A a \in Agents, d \in Threads : ~Closed(a, d) /\ ~Waits(a, d)
  BY <1>3, <1>6, <1>7 DEF Closed, Waits
<1>9. Agreeing(origin)
  <2>1. \A d \in Threads : origin[d] \in Agents /\ Peer(origin[d]) \in Agents
    BY <1>2, <1>7
  <2> QED
    BY <1>6, <1>7, <1>8, <2>1 DEF Agreeing, Agreed
<1>10. \A a \in Agents, d \in Threads :
         /\ countered[d] = 0 /\ unrecorded[d] = 0
         /\ MaxCounterRound(journal[a], d) \in Nat /\ MaxRounds \in Nat
  BY <1>1, RoundsType DEF Init
<1>11. Capped /\ Counted(origin)
  <2>1. \A d \in Threads : 0 <= MaxRounds + 0 /\ 0 <= 0 + MaxCounterRound(journal[origin[d]], d)
    BY <1>2, <1>10
  <2>2. \A d \in Threads : countered[d] = 0 /\ unrecorded[d] = 0
    BY DEF Init
  <2>3. Capped
    BY <1>6, <2>1, <2>2 DEF Capped
  <2>4. Counted(origin)
    BY <2>1, <2>2 DEF Counted
  <2> QED
    BY <2>3, <2>4
<1> QED
  BY <1>1, <1>2, <1>5, <1>9, <1>11 DEF Inv, InvOf

LEMMA InvStep == Inv /\ [Next]_vars => Inv'
<1> SUFFICES ASSUME Inv, [Next]_vars PROVE Inv'
  OBVIOUS
<1>1. TypeOK /\ TypeOK'
  BY TypeStep DEF Inv
<1>2. PICK origin \in [Threads -> Agents] : InvOf(origin)
  BY DEF Inv
<1>3. /\ InOrder(origin) /\ Counted(origin) /\ Agreeing(origin)
      /\ Capped /\ NothingStale
  BY <1>2 DEF InvOf
<1>4. ASSUME NEW a \in Agents, NEW in \in Says, Begin(a, in) PROVE Inv'
  <2>1. PICK other : other = Origins(origin, a, in)
    OBVIOUS
  <2>2. other \in [Threads -> Agents]
    BY <1>1, <1>4, <2>1, BeginOrigins
  <2>3. InOrder(other)' /\ Capped' /\ Counted(other)' /\ Agreeing(other)' /\ NothingStale'
    BY <1>1, <1>3, <1>4, <2>1, BeginInOrder, BeginCapped, BeginAgreed
  <2>4. InvOf(other)'
    BY <2>3 DEF InvOf
  <2> QED
    BY <1>1, <2>2, <2>4 DEF Inv
<1>5. ASSUME NEW a \in Agents,
             Land(a) \/ Miss(a) \/ Record(a) \/ Crash(a) \/ Admit(a) \/ UNCHANGED vars
      PROVE  Inv'
  <2>1. InOrder(origin)' /\ Capped' /\ Counted(origin)'
    BY <1>1, <1>3, <1>5, StepInOrder, StepCapped
  <2>2. Agreeing(origin)' /\ NothingStale'
    <3>1. CASE Land(a)
      BY <1>1, <1>3, <3>1, LandAgreed
    <3>2. CASE Admit(a)
      BY <1>1, <1>3, <3>2, AdmitAgreed
    <3>3. CASE Record(a)
      BY <1>1, <1>3, <3>3, RecordAgreed, OverStale
    <3>4. CASE Miss(a) \/ Crash(a)
      BY <1>1, <1>3, <3>4, ForgottenAgreed, OverStale
    <3>5. CASE UNCHANGED vars
      BY <1>3, <3>5 DEF vars, history, Agreeing, Agreed, NothingStale, Whole, Holds, Sent,
                        Heard, Closed, Waits, Out, Flying
    <3> QED
      BY <1>5, <3>1, <3>2, <3>3, <3>4, <3>5
  <2>3. InvOf(origin)'
    BY <2>1, <2>2 DEF InvOf
  <2> QED
    BY <1>1, <2>3 DEF Inv
<1>6. PICK a : a \in Agents
  BY EndsAssumption
<1> QED
  BY <1>4, <1>5, <1>6 DEF Next

\* Types, order, the count of the rounds and the agreement of the two ends hold
\* of every state two daemons can reach.
THEOREM DebatesInv == Spec => []Inv
  BY InvInit, InvStep, PTL DEF Spec

\* Whatever is lost, crossed or cut short, a COUNTER reaches the peer only
\* while fewer rounds than the cap have, but for the COUNTERs no journal holds
\* (readMaxCounterRound in checkDebateTurn, appendDebateTurn after the delivery).
THEOREM CapHolds == Spec => RoundsAreCapped
<1>1. ASSUME Inv, [Next]_vars, NEW d \in Threads, countered'[d] > countered[d]
      PROVE  countered[d] < MaxRounds + unrecorded[d]
  <2>1. TypeOK /\ Capped
    BY <1>1 DEF Inv, InvOf
  <2>2. countered[d] \in Nat /\ unrecorded[d] \in Nat /\ MaxRounds \in Nat
    BY <2>1, RoundsType, EndsAssumption
  <2>3. countered' # countered
    BY <1>1, <2>2
  <2>4. PICK a \in Agents : Land(a)
    BY <1>1, <2>3 DEF Next, Begin, Miss, Record, Crash, Admit, vars, history
  <2>5. /\ sending[a] # None /\ ~sending[a].landed
        /\ countered' = [countered EXCEPT ![sending[a].env.thread] =
                           @ + Cardinality(Counters(sending[a]))]
    BY <2>4 DEF Land
  <2>6. d = sending[a].env.thread
    BY <1>1, <2>1, <2>2, <2>5 DEF TypeOK
  <2>7. Carries(sending[a], "COUNTER")
    <3>1. SUFFICES ASSUME ~Carries(sending[a], "COUNTER") PROVE FALSE
      OBVIOUS
    <3>2. Cardinality(Counters(sending[a])) = 0
      BY <2>1, <2>5, <3>1, SendingType, CountersOf
    <3> QED
      BY <1>1, <2>1, <2>2, <2>5, <2>6, <3>2 DEF TypeOK
  <2>8. countered[d] + 1 <= MaxRounds + unrecorded[d]
    BY <2>1, <2>5, <2>6, <2>7 DEF Capped, Flying
  <2> QED
    BY <2>2, <2>8
<1>2. Inv /\ [Next]_vars =>
        [\A d \in Threads : countered'[d] > countered[d] =>
           countered[d] < MaxRounds + unrecorded[d]]_vars
  BY <1>1
<1> QED
  BY <1>2, DebatesInv, PTL DEF Spec, RoundsAreCapped

\* An end for which a debate is open may close it with the turn that is its
\* own (checkLoopPrevention and checkDebateTurn refuse neither).
THEOREM EndIsReachable == Spec => []DebatesCanEnd
<1>1. Inv => DebatesCanEnd
  BY OrderLetsDebatesEnd DEF Inv, InvOf, InOrder
<1> QED
  BY <1>1, DebatesInv, PTL

\* Once nothing is on its way, two ends that tore no row and told each other
\* their closes agree whether a debate is over, and do not wait for each other.
THEOREM AgreementHolds == Spec => []EndsAgree
<1>1. Inv => EndsAgree
  BY AgreedIsAgreement DEF Inv, InvOf, InOrder
<1> QED
  BY <1>1, DebatesInv, PTL
=============================================================================
