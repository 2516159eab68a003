------------------------------- MODULE Debates -------------------------------
(***************************************************************************)
(* A debate between the two ends of one project, each a daemon with its    *)
(* own ledger: a REQUEST thread whose bodies carry turn markers            *)
(* (src/shared/debate-marker.ts), judged before they are sent              *)
(* (checkDebateTurn in src/daemon/send/validate.ts) and journaled by the   *)
(* daemon that sent them, never by the one that receives them              *)
(* (src/ledger/debate-journal.ts, src/daemon/send/send-path.ts).           *)
(*                                                                         *)
(* This composes the state machine of ThreadProtocol with itself: what one *)
(* end sends, from the row it read before it awaited Telegram, is what the *)
(* other admits, to the row it holds by then.                              *)
(***************************************************************************)
EXTENDS Naturals, FiniteSets, Sequences

CONSTANTS
  Agents,      \* the two ends
  Users, Roster, Threads, Eids, MaxHistory, None,   \* see ThreadProtocol
  Says,        \* what an agent may ask to send
  MaxRounds,   \* ARENA_LIGHT_MAX_ROUNDS
  MaxSends,    \* bound: how many sends are begun
  MaxCrashes   \* bound: how often a daemon dies

P(me) == INSTANCE ThreadProtocol WITH Me <- me, Names <- Agents

\* A debate has two ends, and each is in the roster of the other.
ASSUME EndsAssumption ==
  /\ \E a, b \in Agents : a # b /\ Agents = {a, b}
  /\ Roster \in [Agents -> Users]

ASSUME BoundsAssumption ==
  /\ Threads \subseteq Nat
  /\ MaxRounds \in Nat /\ MaxSends \in Nat /\ MaxCrashes \in Nat
  /\ 1..MaxSends \subseteq Eids /\ Eids \subseteq Nat
  /\ MaxHistory \in Nat \ {0}

VARIABLES
  row,         \* the threads table of each end
  journal,     \* the debate_journal table of each end
  sending,     \* the send each end's mutex admits, or None
  queue,       \* what Telegram holds for each end's bot, in order
  sends, opened, crashes,
  countered,   \* history: how many COUNTERs reached the peer, by debate
  unrecorded,  \* history: how many of those no journal holds
  torn,        \* history: debates of which an end applied one message to a
               \* row that lacked another it had sent or admitted
  untold       \* history: debates closed with nobody told

history == <<countered, unrecorded, torn, untold>>
vars == <<row, journal, sending, queue, sends, opened, crashes, history>>

-----------------------------------------------------------------------------
(* Turns.                                                                  *)

Turns == {"PROPOSAL", "AUDIT", "COUNTER", "CONSENSUS", "ESCALATE"}

ASSUME SaysAssumption ==
  \A in \in Says :
    /\ in.type \in {"REQUEST", "REPLY", "ACK", "RESOLVED"}
    /\ in.turns \in Seq(Turns)
    /\ in.thread \in Threads \cup {None}
    /\ in.type # "REQUEST" => in.thread \in Threads
    /\ in.basis \in {"abandoned", "done", None}
    /\ in = [type |-> in.type, turns |-> in.turns, thread |-> in.thread,
             basis |-> in.basis, to |-> in.to, patch |-> in.patch]

\* The rows and the messages of both ends, and what their mutexes hold.
Row == P(CHOOSE a \in Agents : TRUE)!ThreadRow
Message == P(CHOOSE a \in Agents : TRUE)!Envelope
InFlight == [env : Message, turns : Seq(Turns), existing : Row, landed : BOOLEAN]

ASSUME NullAssumption ==
  /\ None \notin Agents /\ None \notin Users /\ None \notin Nat
  /\ None \notin InFlight
  /\ None \notin {"not_requestable", "unanchored", "unauthorized", "stale",
                  "UNKNOWN_THREAD", "NOT_REQUESTABLE", "NOT_ADDRESSEE",
                  "NOT_ORIGINATOR", "NOT_PARTICIPANT", "ALREADY_RESOLVED"}

\* The message each turn is meant to be; nothing in the code refuses another.
WireType == [t \in Turns |->
  CASE t = "PROPOSAL" -> "REQUEST"
    [] t \in {"AUDIT", "COUNTER"} -> "REPLY"
    [] t \in {"CONSENSUS", "ESCALATE"} -> "RESOLVED"]

WireBasis == [t \in Turns |->
  CASE t = "CONSENSUS" -> "done"
    [] t = "ESCALATE" -> "abandoned"
    [] t \in {"PROPOSAL", "AUDIT", "COUNTER"} -> None]

Peer(a) == CHOOSE b \in Agents : b # a

\* The thread a send is about: an opening generates the next one.
DebateOf(in) == IF in.type = "REQUEST" THEN opened + 1 ELSE in.thread

\* readMaxCounterRound over the rows of one journal.
MaxCounterRound(rows, d) ==
  LET rounds == {0} \cup {r.round : r \in {q \in rows : q.debate = d
                                                      /\ q.turn = "COUNTER"}}
  IN CHOOSE n \in rounds : \A m \in rounds : m <= n

Carries(in, turn) == \E i \in DOMAIN in.turns : in.turns[i] = turn
Counters(in) == {i \in DOMAIN in.turns : in.turns[i] = "COUNTER"}

\* Mutants of Exhausted: the cap holds for no turn; it holds for every turn.
NeverExhausted(a, in, d) == FALSE
AnyTurnExhausted(a, in, d) ==
  in.turns # <<>> /\ MaxCounterRound(journal[a], d) + 1 > MaxRounds

\* However many COUNTERs a body carries, the one round they start is judged.
Exhausted(a, in, d) ==
  Carries(in, "COUNTER") /\ MaxCounterRound(journal[a], d) + 1 > MaxRounds

\* The shape of a diff in the text of a turn; its refs are not looked at.
InlinesAPatch(in) == in.turns # <<>> /\ in.patch

\* checkDebateTurn: only the originator counters, only the addressee audits,
\* nobody inlines a patch, and the rounds are capped.
RefusedTurn(a, in, d, held) ==
  \/ Carries(in, "COUNTER") /\ held.from # a
  \/ Carries(in, "AUDIT") /\ held.to # a
  \/ InlinesAPatch(in)
  \/ Exhausted(a, in, d)

\* The row validateSend reads: none for an opening.
HeldRow(a, in) ==
  IF in.type = "REQUEST" THEN P(a)!NoThread ELSE row[a][in.thread]

MaySay(a, in) == LET held == HeldRow(a, in) IN
  /\ P(a)!LoopPrevention([in EXCEPT !.to = Peer(a)], held) = None
  /\ ~RefusedTurn(a, in, DebateOf(in), held)

-----------------------------------------------------------------------------
(* Sending.                                                                *)

\* appendDebateTurn for each turn of a body: a COUNTER opens the round after
\* the last, each COUNTER of a body its own; any other turn is numbered with
\* the round reached by then.
Journaled(a, env, turns) ==
  LET reached == MaxCounterRound(journal[a], env.thread)
      CountersBy(i) == {j \in 1..i : turns[j] = "COUNTER"}
  IN journal[a] \cup
       {[debate |-> env.thread, turn |-> turns[i], eid |-> env.eid,
         round |-> reached + Cardinality(CountersBy(i))] : i \in DOMAIN turns}

EnvelopeOf(a, in, eid) ==
  [eid |-> eid, type |-> in.type, from |-> a, to |-> Peer(a),
   to_user |-> Roster[Peer(a)], thread |-> DebateOf(in), basis |-> in.basis,
   via |-> "group", mid |-> eid, at |-> eid]

\* One send at a time: it reads the row, and awaits Telegram.
Begin(a, in) ==
  /\ sending[a] = None /\ sends < MaxSends
  /\ DebateOf(in) \in Threads
  /\ MaySay(a, in)
  /\ sends' = sends + 1
  /\ opened' = IF in.type = "REQUEST" THEN opened + 1 ELSE opened
  /\ sending' = [sending EXCEPT ![a] =
       [env |-> EnvelopeOf(a, in, sends + 1), turns |-> in.turns,
        existing |-> HeldRow(a, in), landed |-> FALSE]]
  /\ UNCHANGED <<row, journal, queue, crashes, history>>

\* Telegram takes the message, and the peer's bot will be given it.
Land(a) == LET s == sending[a] IN
  /\ s # None /\ ~s.landed
  /\ sending' = [sending EXCEPT ![a].landed = TRUE]
  /\ queue' = [queue EXCEPT ![Peer(a)] = Append(@, s.env)]
  /\ countered' = [countered EXCEPT ![s.env.thread] = @ + Cardinality(Counters(s))]
  /\ UNCHANGED <<row, journal, sends, opened, crashes, unrecorded, torn, untold>>

\* What a send that is not recorded leaves unsaid.
Forgotten(s) ==
  /\ torn' = IF s.landed THEN torn \cup {s.env.thread} ELSE torn
  /\ unrecorded' = IF s.landed
                   THEN [unrecorded EXCEPT ![s.env.thread] = @ + Cardinality(Counters(s))]
                   ELSE unrecorded

\* The transport reports that nobody was reached, and it may be wrong: the
\* answer of Telegram can be lost after the message was taken.  An abandonment
\* alone is applied, and no turn is journaled.
Miss(a) == LET s == sending[a]
               abandons == s.env.type = "RESOLVED" /\ s.env.basis = "abandoned"
               closed == [P(a)!RowAfter(s.existing, s.env) EXCEPT !.delivered = FALSE]
           IN
  /\ s # None
  /\ sending' = [sending EXCEPT ![a] = None]
  /\ row' = IF abandons THEN [row EXCEPT ![a][s.env.thread] = closed] ELSE row
  /\ untold' = IF abandons THEN untold \cup {s.env.thread} ELSE untold
  /\ Forgotten(s)
  /\ UNCHANGED <<journal, queue, sends, opened, crashes, countered>>

\* The transaction after the await writes the row and the turns together.
Record(a) == LET s == sending[a] IN
  /\ s # None /\ s.landed
  /\ sending' = [sending EXCEPT ![a] = None]
  /\ row' = [row EXCEPT ![a][s.env.thread] = P(a)!RowAfter(s.existing, s.env)]
  /\ journal' = [journal EXCEPT ![a] = Journaled(a, s.env, s.turns)]
  /\ UNCHANGED <<queue, sends, opened, crashes, history>>

\* The daemon dies with a send in flight; its ledger never hears of it.
Crash(a) == LET s == sending[a] IN
  /\ s # None /\ crashes < MaxCrashes
  /\ crashes' = crashes + 1
  /\ sending' = [sending EXCEPT ![a] = None]
  /\ Forgotten(s)
  /\ UNCHANGED <<row, journal, queue, sends, opened, countered, untold>>

-----------------------------------------------------------------------------
(* Receiving.                                                              *)

\* The messages of a debate among the first n of a queue.
Batched(a, n, d) == {i \in 1..n : queue[a][i].thread = d}

\* The ones among them that carry a row to write.
Writers(a, n, d) ==
  {i \in Batched(a, n, d) :
     P(a)!OutcomeOf(row[a][d], queue[a][i]) \in P(a)!Transitions}

LastOf(S) == CHOOSE i \in S : \A j \in S : j <= i

RowAdmitted(a, n, d) ==
  IF Writers(a, n, d) = {} THEN row[a][d]
  ELSE P(a)!RowAfter(row[a][d], queue[a][LastOf(Writers(a, n, d))])

\* admitTelegramUpdates on a batch: every message is applied to the row as it
\* was before the batch, and the last write of a thread stands.
Admit(a) == LET Busy(d) == sending[a] # None /\ sending[a].env.thread = d IN
  \E n \in 1..Len(queue[a]) :
    /\ row' = [row EXCEPT ![a] = [d \in Threads |-> RowAdmitted(a, n, d)]]
    /\ queue' = [queue EXCEPT ![a] = SubSeq(@, n + 1, Len(@))]
    /\ torn' = torn \cup {d \in Threads : /\ Batched(a, n, d) # {}
                                          /\ Cardinality(Batched(a, n, d)) > 1 \/ Busy(d)}
    /\ UNCHANGED <<journal, sending, sends, opened, crashes, countered,
                   unrecorded, untold>>

Init ==
  /\ row = [a \in Agents |-> [d \in Threads |-> P(a)!NoThread]]
  /\ journal = [a \in Agents |-> {}]
  /\ sending = [a \in Agents |-> None]
  /\ queue = [a \in Agents |-> <<>>]
  /\ sends = 0 /\ opened = 0 /\ crashes = 0
  /\ countered = [d \in Threads |-> 0]
  /\ unrecorded = [d \in Threads |-> 0]
  /\ torn = {} /\ untold = {}

Next == \E a \in Agents :
  \/ \E in \in Says : Begin(a, in)
  \/ Land(a) \/ Miss(a) \/ Record(a) \/ Crash(a) \/ Admit(a)

Spec == Init /\ [][Next]_vars

-----------------------------------------------------------------------------
(* Properties.                                                             *)

\* The cap of rounds is on what the peer is told, although it is counted in
\* the journal of the one who counters, after the message is out: a COUNTER
\* reaches the peer only while fewer rounds than the cap have, leaving out
\* those that a crash, or a lost answer of Telegram, kept from the journal.
\* One body may bring several COUNTERs, which are judged as one: those alone
\* take a debate past the cap.
RoundsAreCapped ==
  [][\A d \in Threads : countered'[d] > countered[d] =>
       countered[d] < MaxRounds + unrecorded[d]]_vars

\* However a debate went, whatever was lost and whatever its rounds, each end
\* for which it is open may still close it with the turn that is its own.
DebatesCanEnd ==
  \A a \in Agents, d \in Threads :
    row[a][d].status = "open" =>
      LET turn == IF row[a][d].from = a THEN "ESCALATE" ELSE "CONSENSUS"
      IN MaySay(a, [type |-> WireType[turn], turns |-> <<turn>>, thread |-> d,
                    basis |-> WireBasis[turn], to |-> Peer(a), patch |-> FALSE])

Quiet(d) ==
  \A a \in Agents :
    /\ sending[a] # None => sending[a].env.thread # d
    /\ \A i \in DOMAIN queue[a] : queue[a][i].thread # d

\* When nothing of a debate is on its way, its two ends agree whether it is
\* over and do not wait for each other, also when their messages crossed.
\* The exceptions are the debates an end wrote from a row it had read too
\* early, and those closed with nobody told.
EndsAgree ==
  \A d \in Threads \ (torn \cup untold), a \in Agents :
    Quiet(d) /\ row[a][d].status # "absent" =>
      LET here == row[a][d]  there == row[Peer(a)][d] IN
      /\ here.status = there.status
      /\ ~(here.awaiting = Peer(a) /\ there.awaiting = a)

=============================================================================
