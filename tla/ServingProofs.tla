---------------------------- MODULE ServingProofs ----------------------------
(***************************************************************************)
(* Theorems about Serving, for any clients, calls, threads and limits.     *)
(***************************************************************************)
EXTENDS Serving, FiniteSetTheorems, WellFoundedInduction, TLAPS

-----------------------------------------------------------------------------
(* The newest of some rows, and the first few of them.                     *)

\* Rows of a log of n.
RowsOf(n) == {s \in Nat : s <= n}

LEMMA NewestIsOne ==
  ASSUME NEW n \in Nat, NEW S, S \subseteq RowsOf(n), S # {}
  PROVE  Newest(S) \in S /\ \A r \in S : r <= Newest(S)
<1>1. \A s \in S : s \in Nat /\ s <= n /\ n - s \in Nat
  BY DEF RowsOf
<1> DEFINE T == {n - s : s \in S}
<1>2. T \subseteq Nat /\ T # {}
  BY <1>1
<1>3. PICK x \in T : \A y \in T : <<y, x>> \notin OpToRel(<, Nat)
  BY <1>2, NatLessThanWellFounded, WFMin
<1>4. x \in Nat /\ \A y \in T : y \in Nat /\ ~(y < x)
  BY <1>2, <1>3 DEF OpToRel
<1>5. PICK s \in S : x = n - s
  BY <1>3
<1>6. ASSUME NEW r \in S PROVE r <= s
  <2>1. n - r \in T
    OBVIOUS
  <2>2. ~(n - r < n - s)
    BY <1>4, <1>5, <2>1
  <2> QED
    BY <1>1, <2>2
<1> QED
  BY <1>6 DEF Newest

LEMMA RowsAreFinite ==
  ASSUME NEW n \in Nat, NEW S, S \subseteq RowsOf(n)
  PROVE  IsFiniteSet(S)
<1>1. S \in SUBSET Nat /\ \A s \in S : s <= n
  BY DEF RowsOf
<1> QED
  BY <1>1, FS_BoundedSetOfNaturals

\* What is older than one of the first is one of them.
LEMMA FirstAreOldest ==
  ASSUME NEW n \in Nat, NEW S, S \subseteq RowsOf(n), NEW limit \in Nat,
         NEW s \in FirstOf(S, limit), NEW r \in S, r <= s
  PROVE  r \in FirstOf(S, limit)
<1> DEFINE Before(q) == {u \in S : u < q}
<1>1. Before(r) \subseteq Before(s) /\ Before(s) \subseteq RowsOf(n)
  <2>1. s \in S /\ \A u \in S : u \in Nat
    BY DEF FirstOf, RowsOf
  <2> QED
    BY <2>1
<1>2. IsFiniteSet(Before(s)) /\ IsFiniteSet(Before(r))
  BY <1>1, RowsAreFinite
<1>3. /\ Cardinality(Before(r)) <= Cardinality(Before(s))
      /\ Cardinality(Before(r)) \in Nat /\ Cardinality(Before(s)) \in Nat
  BY <1>1, <1>2, FS_Subset, FS_CardinalityType
<1>4. Cardinality(Before(s)) < limit
  BY DEF FirstOf
<1>5. Cardinality(Before(r)) < limit
  BY <1>3, <1>4
<1> QED
  BY <1>5 DEF FirstOf

-----------------------------------------------------------------------------
(* A position is accounted for by what has been given and passed.          *)

Accounted(position, texts, passed) ==
  \A s \in updates : HasText(s) /\ s <= position =>
    s \in texts \/ Folded(s, texts) \/ s \in passed

\* A turn that awaits us is that of a message.
TurnsAreThere == \A t \in Threads : thread[t].awaiting = "me" => thread[t].turn > 0

\* So is what a call that waits has read.
CallsAreAccounted ==
  \A k \in Calls : call[k] # IdleCall => Accounted(call[k].previous, given[call[k].by], past[call[k].by])

ServingInv == TypeOK /\ TurnsAreThere /\ CallsAreAccounted /\ NothingIsPassedOver

\* The rows that are stored, and those of an answer.
LEMMA StoredRows ==
  ASSUME TypeOK
  PROVE  /\ last \in Nat /\ last <= MaxRows /\ updates \subseteq RowsOf(last)
         /\ \A s \in updates : s \in Seqs /\ row[s].at \in 0..MaxClock /\ s \in 1..last
<1>1. last \in Nat /\ last <= MaxRows /\ MaxRows \in Nat
  BY ServingAssumption DEF TypeOK
<1>2. \A s \in updates : s \in 1..last
  BY DEF TypeOK
<1>3. \A s \in updates : s \in RowsOf(last) /\ s \in Seqs
  BY <1>1, <1>2 DEF RowsOf, Seqs
<1>4. \A s \in Seqs : row[s].at \in 0..MaxClock
  BY DEF TypeOK
<1> QED
  BY <1>1, <1>2, <1>3, <1>4

LEMMA RowsRead ==
  ASSUME NEW previous, NEW limit
  PROVE  ReadRows(previous, limit) \subseteq updates
  BY DEF ReadRows, FirstOf

\* The catch-up position is one of the log.
LEMMA CatchUpType ==
  ASSUME TypeOK
  PROVE  CatchUpSeq \in 0..last
<1> DEFINE S == {s \in updates : row[s].at < clock - CatchUp}
<1>1. last \in Nat /\ S \subseteq RowsOf(last)
  BY StoredRows
<1>2. CatchUpSeq = Newest(S)
  BY DEF CatchUpSeq
<1>3. CASE S = {}
  BY <1>1, <1>2, <1>3 DEF Newest
<1>4. CASE S # {}
  <2>1. Newest(S) \in S
    BY <1>1, <1>4, NewestIsOne
  <2> QED
    BY <1>1, <1>2, <2>1 DEF RowsOf
<1> QED
  BY <1>3, <1>4

LEMMA EnsuredType ==
  ASSUME TypeOK, NEW c \in Clients
  PROVE  Ensured(c) \in Cursor
  BY CatchUpType DEF Ensured, NewCursor, Cursor, TypeOK

\* The next position is that of a row, or stays.
LEMMA NextSeqType ==
  ASSUME TypeOK, NEW previous \in 0..last, NEW limit \in Nat
  PROVE  /\ NextSeq(previous, ReadRows(previous, limit)) \in 0..last
         /\ \A s \in updates : s > previous /\ s <= NextSeq(previous, ReadRows(previous, limit))
              => s \in ReadRows(previous, limit)
<1>1. PICK S : S = {s \in updates : s > previous}
  OBVIOUS
<1>2. PICK R : R = ReadRows(previous, limit)
  OBVIOUS
<1>3. R = FirstOf(S, limit)
  BY <1>1, <1>2 DEF ReadRows
<1>4. last \in Nat /\ S \subseteq RowsOf(last) /\ R \subseteq S
  BY <1>1, <1>3, StoredRows DEF FirstOf
<1>5. CASE R = {}
  <2>1. NextSeq(previous, R) = previous
    BY <1>5 DEF NextSeq
  <2>2. \A s \in updates : ~(s > previous /\ s <= previous)
    BY <1>4, StoredRows DEF RowsOf
  <2> QED
    BY <1>2, <2>1, <2>2
<1>6. CASE R # {}
  <2>1. NextSeq(previous, R) = Newest(R) /\ Newest(R) \in R
    BY <1>4, <1>6, NewestIsOne DEF NextSeq
  <2>2. \A s \in S : s <= Newest(R) => s \in R
    BY <1>3, <1>4, <2>1, FirstAreOldest
  <2>3. Newest(R) \in 0..last
    <3>1. Newest(R) \in RowsOf(last)
      BY <1>4, <2>1
    <3> QED
      BY <1>4, <3>1 DEF RowsOf
  <2> QED
    BY <1>1, <1>2, <2>1, <2>2, <2>3
<1> QED
  BY <1>5, <1>6

\* Every text of a batch is in the log, or behind a checkpoint that is.
LEMMA LogIsFolded ==
  ASSUME TypeOK, NEW R, R \subseteq updates, NEW s \in Texts(R)
  PROVE  s \in Log(R) \/ Folded(s, Log(R))
<1> USE DEF Folded
<1>1. PICK C : C = Checkpoints(R)
  OBVIOUS
<1>2. PICK L : L = {q \in C : \A r \in C : row[r].at <= row[q].at}
  OBVIOUS
<1>3. WindowStart(R) = Newest(L)
  BY <1>1, <1>2 DEF WindowStart
<1>4. /\ last \in Nat /\ MaxClock \in Nat /\ s \in Nat /\ s > 0
      /\ \A q \in C : q \in updates /\ q \in R /\ row[q].kind = "checkpoint" /\ q \in Nat
      /\ \A q \in C : row[q].at \in 0..MaxClock
      /\ L \subseteq RowsOf(last)
  BY <1>1, <1>2, StoredRows, ServingAssumption DEF Checkpoints, Texts
<1>5. CASE C = {}
  <2>1. WindowStart(R) = 0
    BY <1>2, <1>3, <1>5 DEF Newest
  <2> QED
    BY <1>4, <2>1 DEF Log
<1>6. CASE C # {}
  <2>1. PICK Ats : Ats = {row[q].at : q \in C}
    OBVIOUS
  <2>2. Ats \subseteq RowsOf(MaxClock) /\ Ats # {}
    BY <1>4, <1>6, <2>1 DEF RowsOf
  <2>3. Newest(Ats) \in Ats /\ \A a \in Ats : a <= Newest(Ats)
    BY <1>4, <2>2, NewestIsOne
  <2>4. PICK q \in C : row[q].at = Newest(Ats)
    BY <2>1, <2>3
  <2>5. q \in L
    BY <1>2, <2>1, <2>3, <2>4
  <2>6. WindowStart(R) \in L
    BY <1>3, <1>4, <2>5, NewestIsOne
  <2>7. WindowStart(R) \in C /\ WindowStart(R) \in Texts(R) /\ WindowStart(R) \in Nat
    BY <1>2, <1>4, <2>6 DEF Texts, HasText
  <2>8. WindowStart(R) \in Log(R)
    BY <2>7 DEF Log
  <2> QED
    BY <1>4, <2>7, <2>8 DEF Log
<1> QED
  BY <1>5, <1>6

-----------------------------------------------------------------------------
(* An answer.                                                              *)

\* The catch-up position is that of a row before the window, so that no
\* session begins past a row that is not, unless one admitted later is.
LEMMA PassedType ==
  ASSUME TypeOK, NEW c \in Clients
  PROVE  /\ PassedBy(c) \subseteq 1..last /\ past[c] \subseteq PassedBy(c)
         /\ CallsAreAccounted /\ NothingIsPassedOver =>
              Accounted(Ensured(c).seq, given[c], PassedBy(c))
<1>1. past[c] \subseteq 1..last /\ PassedBy(c) \subseteq 1..last
  BY DEF TypeOK, PassedBy, BeforeWindow, Overtaken
<1>2. past[c] \subseteq PassedBy(c)
  BY DEF PassedBy
<1>3. CASE cursor[c] = None
  <2>1. Ensured(c).seq = CatchUpSeq
    BY <1>3 DEF Ensured, NewCursor
  <2>2. ASSUME NEW s \in updates, s <= CatchUpSeq PROVE s \in BeforeWindow \cup Overtaken
    <3> DEFINE S == {q \in updates : row[q].at < clock - CatchUp}
    <3>1. S \subseteq RowsOf(last) /\ last \in Nat /\ s \in 1..last /\ CatchUpSeq = Newest(S)
      BY StoredRows DEF CatchUpSeq
    <3>2. S # {}
      BY <2>2, <3>1 DEF Newest
    <3>3. CatchUpSeq \in S
      BY <3>1, <3>2, NewestIsOne
    <3>4. CatchUpSeq \in updates \cap BeforeWindow /\ CatchUpSeq \in Nat
      BY <3>1, <3>3, StoredRows DEF BeforeWindow
    <3> QED
      BY <2>2, <3>1, <3>4 DEF Overtaken
  <2> QED
    BY <1>1, <1>2, <1>3, <2>1, <2>2 DEF PassedBy, Accounted
<1>4. CASE cursor[c] # None
  BY <1>1, <1>2, <1>4 DEF Ensured, NothingIsPassedOver, Accounted
<1> QED
  BY <1>1, <1>2, <1>3, <1>4

LEMMA OldestAreOfThem ==
  ASSUME NEW T, NEW n
  PROVE  Oldest(T, n) \subseteq T
  BY DEF Oldest

LEMMA EmittedType ==
  ASSUME NEW shown, NEW full
  PROVE  Emitted(shown, full) \subseteq Threads
<1>1. Selected(shown) \subseteq Threads
  BY OldestAreOfThem DEF Selected, Fresh, Reminders, Rest, NeedsAction
<1>2. Oldest(WaitingOnPeer, Surfaced) \subseteq Threads
  BY OldestAreOfThem DEF WaitingOnPeer
<1> QED
  BY <1>1, <1>2 DEF Emitted

\* Whatever the call began with, an answer leaves the types and the account:
\* it gives every text up to where it moves the cursor.
LEMMA AnswerKeeps ==
  ASSUME TypeOK, TurnsAreThere, NEW c \in Clients,
         NEW p, p.previous \in 0..last, p.request \in Requests,
         NEW cur \in Cursor, Answer(c, p, cur),
         Accounted(p.previous, given[c], PassedBy(c)), Accounted(cur.seq, given[c], PassedBy(c))
  PROVE  /\ cursor' \in [Clients -> Cursor \cup {None}]
         /\ given' \in [Clients -> SUBSET (1..last)] /\ past' \in [Clients -> SUBSET (1..last)]
         /\ given[c] \subseteq given'[c] /\ past[c] \subseteq past'[c]
         /\ Accounted(cursor'[c].seq, given'[c], past'[c])
         /\ \A d \in Clients : d # c => /\ given'[d] = given[d] /\ past'[d] = past[d]
                                       /\ cursor'[d] = cursor[d]
<1>1. PICK R : R = ReadRows(p.previous, p.request.limit)
  OBVIOUS
<1>2. PICK emitted : emitted = Emitted(cur.surfaced, p.request.full)
  OBVIOUS
<1>3. PICK seq : seq = NextSeq(p.previous, R)
  OBVIOUS
<1>4. p.request.limit \in Nat /\ last \in Nat
  BY ServingAssumption, StoredRows
<1>5. /\ seq \in 0..last
      /\ \A s \in updates : s > p.previous /\ s <= seq => s \in R
  BY <1>1, <1>3, <1>4, NextSeqType
<1>6. R \subseteq updates
  BY <1>1, RowsRead
<1>7. PICK next : next = IF Persists(p.request) THEN Advanced(Surfaces(cur, emitted), seq) ELSE cur
  OBVIOUS
<1>8. PICK shown : shown = given[c] \cup Log(R) \cup {TurnText(t) : t \in emitted \cap NeedsAction}
  OBVIOUS
<1>9. /\ cursor' = [cursor EXCEPT ![c] = next] /\ given' = [given EXCEPT ![c] = shown]
      /\ past' = [past EXCEPT ![c] = PassedBy(c)]
  BY <1>1, <1>2, <1>3, <1>7, <1>8 DEF Answer
<1>10. next \in Cursor
  <2>1. emitted \subseteq Threads /\ clock \in 0..MaxClock
    BY <1>2, EmittedType DEF TypeOK
  <2>2. Surfaces(cur, emitted) \in Cursor
    BY <2>1 DEF Surfaces, Cursor
  <2>3. Advanced(Surfaces(cur, emitted), seq) \in Cursor
    BY <1>5, <2>1, <2>2 DEF Advanced, Cursor
  <2> QED
    BY <1>7, <2>3
<1>11. shown \subseteq 1..last
  <2>1. Log(R) \subseteq 1..last
    BY <1>6, StoredRows DEF Log, Texts
  <2>2. \A t \in NeedsAction : TurnText(t) \in 1..last
    <3>1. ASSUME NEW t \in NeedsAction PROVE TurnText(t) \in 1..last
      <4>1. t \in Threads /\ thread[t].turn > 0
        BY DEF NeedsAction, TurnsAreThere
      <4>2. thread[t].turn \in 0..last
        BY <4>1 DEF TypeOK
      <4> QED
        BY <1>4, <4>1, <4>2 DEF TurnText
    <3> QED
      BY <3>1
  <2> QED
    BY <1>8, <2>1, <2>2 DEF TypeOK
<1>12. next.seq = seq \/ next.seq = cur.seq
  BY <1>7 DEF Advanced, Surfaces, Cursor
<1>13. Accounted(seq, shown, PassedBy(c))
  <2>1. ASSUME NEW s \in updates, HasText(s), s <= seq
        PROVE  s \in shown \/ Folded(s, shown) \/ s \in PassedBy(c)
    <3>1. CASE s <= p.previous
      BY <1>8, <2>1, <3>1 DEF Accounted, Folded
    <3>2. CASE ~(s <= p.previous)
      <4>1. s \in R
        BY <1>4, <1>5, <2>1, <3>2, StoredRows
      <4>2. s \in Texts(R)
        BY <2>1, <4>1 DEF Texts
      <4> QED
        BY <1>6, <1>8, <4>2, LogIsFolded DEF Folded
    <3> QED
      BY <3>1, <3>2
  <2> QED
    BY <2>1 DEF Accounted
<1>14. Accounted(cur.seq, shown, PassedBy(c))
  BY <1>8 DEF Accounted, Folded
<1>15. cursor'[c] = next /\ given'[c] = shown /\ past'[c] = PassedBy(c)
  BY <1>9 DEF TypeOK
<1> QED
  BY <1>8, <1>9, <1>10, <1>11, <1>12, <1>13, <1>14, <1>15, PassedType DEF TypeOK

-----------------------------------------------------------------------------
(* Every step. *)

LEMMA InitServingInv == Init => ServingInv
<1> SUFFICES ASSUME Init PROVE ServingInv
  OBVIOUS
<1>1. TypeOK
  <2>1. NoRow \in [kind : Kinds \cup {"none"}, thread : Threads \cup {None}, at : 0..MaxClock]
    BY ServingAssumption DEF NoRow
  <2>2. NoThread \in [awaiting : {"me", "peer", None}, turn : 0..last, opened : 0..MaxClock]
    BY ServingAssumption DEF NoThread, Init
  <2>3. given \in [Clients -> SUBSET (1..last)] /\ past \in [Clients -> SUBSET (1..last)]
    BY DEF Init
  <2> QED
    BY <2>1, <2>2, <2>3, ServingAssumption DEF Init, TypeOK
<1>2. TurnsAreThere
  BY ServingAssumption DEF Init, TurnsAreThere, NoThread
<1>3. CallsAreAccounted /\ NothingIsPassedOver
  BY DEF Init, CallsAreAccounted, NothingIsPassedOver
<1> QED
  BY <1>1, <1>2, <1>3 DEF ServingInv

\* A new row is past every position and every text that was given.
LEMMA AdmitKeeps ==
  ASSUME ServingInv, Admit
  PROVE  ServingInv'
<1>1. PICK kind \in Kinds, t \in Threads \cup {None}, at \in {clock, clock - 1} \cap Nat :
        /\ row' = [row EXCEPT ![last + 1] = [kind |-> kind, thread |-> t, at |-> at]]
        /\ thread' = [u \in Threads |-> IF u = t THEN TurnOf(t, last + 1, at) ELSE thread[u]]
  BY DEF Admit
<1>2. /\ last < MaxRows /\ last' = last + 1 /\ updates' = updates \cup {last + 1}
      /\ UNCHANGED <<clock, cursor, call, given, past>>
  BY DEF Admit, client
<1>3. /\ last \in Nat /\ MaxRows \in Nat /\ MaxClock \in Nat /\ clock \in 0..MaxClock
      /\ last + 1 \in Seqs
  BY <1>2, ServingAssumption, StoredRows DEF ServingInv, TypeOK, Seqs
<1>4. at \in 0..MaxClock
  BY <1>1, <1>3
<1>5. \A s \in 1..last : row'[s] = row[s] /\ s \in Seqs
  BY <1>1, <1>3 DEF ServingInv, TypeOK, Seqs
<1>6. row' \in [Seqs -> [kind : Kinds \cup {"none"}, thread : Threads \cup {None}, at : 0..MaxClock]]
  BY <1>1, <1>4 DEF ServingInv, TypeOK
<1>7. /\ thread' \in [Threads -> [awaiting : {"me", "peer", None}, turn : 0..last',
                                  opened : 0..MaxClock]]
      /\ TurnsAreThere'
  <2>1. \A u \in Threads :
          /\ thread[u] \in [awaiting : {"me", "peer", None}, turn : 0..last, opened : 0..MaxClock]
          /\ thread[u].awaiting = "me" => thread[u].turn > 0
    BY DEF ServingInv, TypeOK, TurnsAreThere
  <2>2. \A u \in Threads :
          /\ thread[u] \in [awaiting : {"me", "peer", None}, turn : 0..last', opened : 0..MaxClock]
          /\ thread[u].awaiting = "me" => thread[u].turn > 0
    BY <1>2, <1>3, <2>1
  <2>3. t \in Threads =>
          /\ TurnOf(t, last + 1, at) \in
               [awaiting : {"me", "peer", None}, turn : 0..last', opened : 0..MaxClock]
          /\ TurnOf(t, last + 1, at).turn > 0
    BY <1>2, <1>3, <1>4, <2>1 DEF TurnOf
  <2> QED
    BY <1>1, <2>2, <2>3 DEF TurnsAreThere
<1>8. Cursor \subseteq Cursor' /\ 0..last \subseteq 0..last' /\ 1..last \subseteq 1..last'
  BY <1>2, <1>3 DEF Cursor
<1>9. TypeOK'
  <2>1. updates' \subseteq 1..last' /\ last' \in 0..MaxRows
    BY <1>2, <1>3, <1>8 DEF ServingInv, TypeOK
  <2>2. cursor' \in [Clients -> Cursor' \cup {None}]
    BY <1>2, <1>8 DEF ServingInv, TypeOK
  <2>3. call' \in [Calls -> [by : Clients, previous : 0..last', request : Requests] \cup {IdleCall}]
    BY <1>2, <1>8 DEF ServingInv, TypeOK
  <2>4. given' \in [Clients -> SUBSET (1..last')] /\ past' \in [Clients -> SUBSET (1..last')]
    BY <1>2, <1>8 DEF ServingInv, TypeOK
  <2> QED
    BY <1>2, <1>3, <1>6, <1>7, <2>1, <2>2, <2>3, <2>4 DEF TypeOK
<1>10. ASSUME NEW position \in 0..last, NEW texts, texts \subseteq 1..last, NEW passed,
              Accounted(position, texts, passed)
       PROVE  Accounted(position, texts, passed)'
  <2>1. ASSUME NEW s \in updates', HasText(s)', s <= position
        PROVE  \/ s \in texts \/ s \in passed
               \/ \E r \in texts : r > s /\ row'[r].kind = "checkpoint"
    <3>1. s \in updates /\ s \in 1..last
      BY <1>2, <1>3, <2>1, StoredRows DEF ServingInv
    <3>2. HasText(s)
      BY <1>5, <2>1, <3>1 DEF HasText
    <3> QED
      BY <1>5, <1>10, <2>1, <3>1, <3>2 DEF Accounted, Folded
  <2> QED
    BY <2>1 DEF Accounted, Folded
<1>11. CallsAreAccounted'
  <2>1. ASSUME NEW k \in Calls, call[k] # IdleCall
        PROVE  Accounted(call[k].previous, given[call[k].by], past[call[k].by])'
    <3>1. call[k].previous \in 0..last /\ call[k].by \in Clients
      BY <2>1 DEF ServingInv, TypeOK
    <3>2. given[call[k].by] \subseteq 1..last
      BY <3>1 DEF ServingInv, TypeOK
    <3>3. Accounted(call[k].previous, given[call[k].by], past[call[k].by])
      BY <2>1 DEF ServingInv, CallsAreAccounted
    <3> QED
      BY <1>2, <1>10, <3>1, <3>2, <3>3 DEF Accounted, Folded, HasText
  <2> QED
    BY <1>2, <2>1 DEF CallsAreAccounted
<1>12. NothingIsPassedOver'
  <2>1. ASSUME NEW c \in Clients, cursor[c] # None
        PROVE  Accounted(cursor[c].seq, given[c], past[c])'
    <3>1. cursor[c].seq \in 0..last /\ given[c] \subseteq 1..last
      BY <2>1 DEF ServingInv, TypeOK, Cursor
    <3>2. Accounted(cursor[c].seq, given[c], past[c])
      BY <2>1 DEF ServingInv, NothingIsPassedOver, Accounted
    <3> QED
      BY <1>2, <1>10, <3>1, <3>2 DEF Accounted, Folded, HasText
  <2> QED
    BY <1>2, <2>1 DEF NothingIsPassedOver, Accounted, Folded
<1> QED
  BY <1>7, <1>9, <1>11, <1>12 DEF ServingInv

\* Steps that leave the rows to what they are, and take none back.
LEMMA AccountStays ==
  ASSUME UNCHANGED row, updates' \subseteq updates,
         NEW position, NEW texts, NEW more, texts \subseteq more,
         NEW passed, NEW farther, passed \subseteq farther, Accounted(position, texts, passed)
  PROVE  Accounted(position, more, farther)'
  BY DEF Accounted, Folded, HasText

LEMMA FetchAtOnceKeeps ==
  ASSUME ServingInv, NEW c \in Clients, NEW request \in Requests, FetchAtOnce(c, request)
  PROVE  ServingInv'
<1>1. PICK p : p = Asked(c, request)
  OBVIOUS
<1>2. Ensured(c) \in Cursor /\ Ensured(c).seq \in 0..last
  BY EnsuredType DEF ServingInv, Cursor
<1>3. p.previous = Ensured(c).seq /\ p.request = request
  BY <1>1 DEF Asked
<1>4. Accounted(Ensured(c).seq, given[c], PassedBy(c))
  BY PassedType DEF ServingInv
<1>5. Answer(c, p, Ensured(c)) /\ UNCHANGED <<clock, last, row, updates, thread, call>>
  BY <1>1 DEF FetchAtOnce, inbox
<1>6. /\ cursor' \in [Clients -> Cursor \cup {None}]
      /\ given' \in [Clients -> SUBSET (1..last)] /\ past' \in [Clients -> SUBSET (1..last)]
      /\ given[c] \subseteq given'[c] /\ past[c] \subseteq past'[c]
      /\ Accounted(cursor'[c].seq, given'[c], past'[c])
      /\ \A d \in Clients : d # c => /\ given'[d] = given[d] /\ past'[d] = past[d]
                                    /\ cursor'[d] = cursor[d]
  BY <1>2, <1>3, <1>4, <1>5, AnswerKeeps DEF ServingInv
<1>7. Cursor' = Cursor
  BY <1>5 DEF Cursor
<1>8. TypeOK' /\ TurnsAreThere'
  BY <1>5, <1>6, <1>7 DEF ServingInv, TypeOK, TurnsAreThere
<1>9. \A d \in Clients : given[d] \subseteq given'[d] /\ past[d] \subseteq past'[d]
  BY <1>6, PassedType DEF ServingInv
<1>10. CallsAreAccounted'
  <2>1. ASSUME NEW k \in Calls, call[k] # IdleCall
        PROVE  Accounted(call[k].previous, given[call[k].by], past[call[k].by])'
    <3>1. call[k].by \in Clients
      BY <2>1 DEF ServingInv, TypeOK
    <3>2. Accounted(call[k].previous, given[call[k].by], past[call[k].by])
      BY <2>1 DEF ServingInv, CallsAreAccounted
    <3> QED
      BY <1>5, <1>9, <3>1, <3>2 DEF Accounted, Folded, HasText
  <2> QED
    BY <1>5, <2>1 DEF CallsAreAccounted
<1>11. NothingIsPassedOver'
  BY <1>5, <1>6 DEF ServingInv, NothingIsPassedOver, Accounted, Folded, HasText
<1> QED
  BY <1>8, <1>10, <1>11 DEF ServingInv

LEMMA WakeKeeps ==
  ASSUME ServingInv, NEW k \in Calls, Wake(k)
  PROVE  ServingInv'
<1>1. PICK c : c = call[k].by
  OBVIOUS
<1>2. /\ c \in Clients /\ call[k].previous \in 0..last /\ call[k].request \in Requests
      /\ call[k] # IdleCall
  BY <1>1 DEF Wake, ServingInv, TypeOK
<1>3. /\ call' = [call EXCEPT ![k] = IdleCall] /\ UNCHANGED <<clock, last, row, updates, thread>>
      /\ call' \in [Calls -> [by : Clients, previous : 0..last, request : Requests] \cup {IdleCall}]
  BY DEF Wake, inbox, ServingInv, TypeOK
<1>4. \A j \in Calls : call'[j] # IdleCall => call[j] # IdleCall /\ call'[j] = call[j]
  BY <1>3 DEF ServingInv, TypeOK
<1>5. Cursor' = Cursor
  BY <1>3 DEF Cursor
<1>6. CASE cursor[c] = None
  <2>1. UNCHANGED <<cursor, given, past>>
    BY <1>1, <1>6 DEF Wake
  <2>2. TypeOK' /\ TurnsAreThere'
    BY <1>3, <1>5, <2>1 DEF ServingInv, TypeOK, TurnsAreThere
  <2>3. CallsAreAccounted' /\ NothingIsPassedOver'
    BY <1>3, <1>4, <2>1
    DEF ServingInv, CallsAreAccounted, NothingIsPassedOver, Accounted, Folded, HasText
  <2> QED
    BY <2>2, <2>3 DEF ServingInv
<1>7. CASE cursor[c] # None
  <2>1. Answer(c, call[k], cursor[c]) /\ cursor[c] \in Cursor
    BY <1>1, <1>2, <1>7 DEF Wake, ServingInv, TypeOK
  <2>2. /\ Accounted(call[k].previous, given[c], PassedBy(c))
        /\ Accounted(cursor[c].seq, given[c], PassedBy(c))
    BY <1>1, <1>2, <1>7, PassedType
    DEF ServingInv, CallsAreAccounted, NothingIsPassedOver, Accounted
  <2>3. /\ cursor' \in [Clients -> Cursor \cup {None}]
        /\ given' \in [Clients -> SUBSET (1..last)] /\ past' \in [Clients -> SUBSET (1..last)]
        /\ given[c] \subseteq given'[c] /\ past[c] \subseteq past'[c]
        /\ Accounted(cursor'[c].seq, given'[c], past'[c])
        /\ \A d \in Clients : d # c => /\ given'[d] = given[d] /\ past'[d] = past[d]
                                      /\ cursor'[d] = cursor[d]
    BY <1>2, <2>1, <2>2, AnswerKeeps DEF ServingInv
  <2>4. TypeOK' /\ TurnsAreThere'
    BY <1>3, <1>5, <2>3 DEF ServingInv, TypeOK, TurnsAreThere
  <2>5. \A d \in Clients : given[d] \subseteq given'[d] /\ past[d] \subseteq past'[d]
    BY <1>2, <2>3, PassedType DEF ServingInv
  <2>6. CallsAreAccounted'
    BY <1>3, <1>4, <2>5 DEF ServingInv, TypeOK, CallsAreAccounted, Accounted, Folded, HasText
  <2>7. NothingIsPassedOver'
    BY <1>3, <2>3 DEF ServingInv, NothingIsPassedOver, Accounted, Folded, HasText
  <2> QED
    BY <2>4, <2>6, <2>7 DEF ServingInv
<1> QED
  BY <1>6, <1>7

LEMMA BeginWaitKeeps ==
  ASSUME ServingInv, NEW k \in Calls, NEW c \in Clients, NEW request \in Requests,
         BeginWait(k, c, request)
  PROVE  ServingInv'
<1>1. Ensured(c) \in Cursor /\ Ensured(c).seq \in 0..last
  BY EnsuredType DEF ServingInv, Cursor
<1>2. /\ Accounted(Ensured(c).seq, given[c], PassedBy(c))
      /\ PassedBy(c) \subseteq 1..last /\ past[c] \subseteq PassedBy(c)
  BY PassedType DEF ServingInv
<1>3. /\ call' = [call EXCEPT ![k] = Asked(c, request)]
      /\ cursor' = [cursor EXCEPT ![c] = Ensured(c)]
      /\ past' = [past EXCEPT ![c] = PassedBy(c)]
      /\ UNCHANGED <<clock, last, row, updates, thread, given>>
  BY DEF BeginWait, inbox
<1>4. /\ call'[k] = Asked(c, request) /\ \A j \in Calls : j # k => call'[j] = call[j]
      /\ cursor'[c] = Ensured(c) /\ \A d \in Clients : d # c => cursor'[d] = cursor[d]
      /\ past'[c] = PassedBy(c) /\ \A d \in Clients : d # c => past'[d] = past[d]
  BY <1>3 DEF ServingInv, TypeOK
<1>5. Asked(c, request) \in [by : Clients, previous : 0..last, request : Requests]
  BY <1>1 DEF Asked
<1>6. Cursor' = Cursor
  BY <1>3 DEF Cursor
<1>7. TypeOK' /\ TurnsAreThere'
  BY <1>1, <1>2, <1>3, <1>5, <1>6 DEF ServingInv, TypeOK, TurnsAreThere
<1>8. \A d \in Clients : given[d] \subseteq given'[d] /\ past[d] \subseteq past'[d]
  BY <1>2, <1>3, <1>4
<1>9. Asked(c, request).previous = Ensured(c).seq /\ Asked(c, request).by = c
  BY DEF Asked
<1>11. CallsAreAccounted'
  <2>1. ASSUME NEW j \in Calls, call'[j] # IdleCall
        PROVE  Accounted(call[j].previous, given[call[j].by], past[call[j].by])'
    <3>1. CASE j = k
      BY <1>2, <1>3, <1>4, <1>9, <3>1 DEF Accounted, Folded, HasText
    <3>2. CASE j # k
      BY <1>3, <1>4, <1>8, <2>1, <3>2
      DEF ServingInv, TypeOK, CallsAreAccounted, Accounted, Folded, HasText
    <3> QED
      BY <3>1, <3>2
  <2> QED
    BY <2>1 DEF CallsAreAccounted
<1>12. NothingIsPassedOver'
  BY <1>2, <1>3, <1>4 DEF ServingInv, NothingIsPassedOver, Accounted, Folded, HasText
<1> QED
  BY <1>7, <1>11, <1>12 DEF ServingInv

LEMMA NextServingInv ==
  ASSUME ServingInv, [Next]_vars
  PROVE  ServingInv'
<1> USE DEF inbox, client
<1>1. CASE Admit
  BY <1>1, AdmitKeeps
<1>2. CASE Tick
  <2>1. clock' \in 0..MaxClock /\ UNCHANGED <<last, row, updates, thread, cursor, call, given, past>>
    BY <1>2, ServingAssumption DEF Tick, ServingInv, TypeOK
  <2>2. Cursor' = Cursor
    BY <2>1 DEF Cursor
  <2>3. TypeOK' /\ TurnsAreThere'
    BY <2>1, <2>2 DEF ServingInv, TypeOK, TurnsAreThere
  <2>4. CallsAreAccounted' /\ NothingIsPassedOver'
    BY <2>1 DEF ServingInv, CallsAreAccounted, NothingIsPassedOver, Accounted, Folded, HasText
  <2> QED
    BY <2>3, <2>4 DEF ServingInv
<1>3. CASE Sweep
  <2>1. /\ updates' \subseteq updates /\ UNCHANGED <<clock, last, row, thread, call, given, past>>
        /\ \A c \in Clients : cursor'[c] = cursor[c] \/ cursor'[c] = None
        /\ cursor' \in [Clients -> Cursor \cup {None}]
    BY <1>3 DEF Sweep, ServingInv, TypeOK
  <2>2. Cursor' = Cursor
    BY <2>1 DEF Cursor
  <2>3. TypeOK' /\ TurnsAreThere'
    BY <2>1, <2>2 DEF ServingInv, TypeOK, TurnsAreThere
  <2>4. CallsAreAccounted' /\ NothingIsPassedOver'
    BY <2>1 DEF ServingInv, CallsAreAccounted, NothingIsPassedOver, Accounted, Folded, HasText
  <2> QED
    BY <2>3, <2>4 DEF ServingInv
<1>4. ASSUME NEW t \in Threads, Say(t) PROVE ServingInv'
  <2>1. UNCHANGED <<clock, last, row, updates, cursor, call, given, past>>
    BY <1>4 DEF Say
  <2>2. Cursor' = Cursor
    BY <2>1 DEF Cursor
  <2>3. clock \in 0..MaxClock /\ thread[t].turn \in 0..last /\ thread[t].opened \in 0..MaxClock
    BY DEF ServingInv, TypeOK
  <2>4. PICK said : said = [awaiting |-> "peer", turn |-> thread[t].turn,
                            opened |-> IF thread[t] = NoThread THEN clock ELSE thread[t].opened]
    OBVIOUS
  <2>5. thread' = [thread EXCEPT ![t] = said]
    BY <1>4, <2>4 DEF Say
  <2>6. said \in [awaiting : {"me", "peer", None}, turn : 0..last, opened : 0..MaxClock]
    BY <2>3, <2>4
  <2>7. TypeOK'
    BY <2>1, <2>2, <2>5, <2>6 DEF ServingInv, TypeOK
  <2>8. TurnsAreThere'
    BY <2>4, <2>5 DEF ServingInv, TypeOK, TurnsAreThere
  <2>9. CallsAreAccounted' /\ NothingIsPassedOver'
    BY <2>1 DEF ServingInv, CallsAreAccounted, NothingIsPassedOver, Accounted, Folded, HasText
  <2> QED
    BY <2>7, <2>8, <2>9 DEF ServingInv
<1>5. ASSUME NEW c \in Clients, NEW request \in Requests, Fetch(c, request) PROVE ServingInv'
  BY <1>5, FetchAtOnceKeeps, BeginWaitKeeps DEF Fetch
<1>6. ASSUME NEW k \in Calls, Wake(k) PROVE ServingInv'
  BY <1>6, WakeKeeps
<1>7. CASE UNCHANGED vars
  <2>1. UNCHANGED <<clock, last, row, updates, thread, cursor, call, given, past>>
    BY <1>7 DEF vars
  <2>2. Cursor' = Cursor
    BY <2>1 DEF Cursor
  <2>3. TypeOK' /\ TurnsAreThere'
    BY <2>1, <2>2 DEF ServingInv, TypeOK, TurnsAreThere
  <2>4. CallsAreAccounted' /\ NothingIsPassedOver'
    BY <2>1 DEF ServingInv, CallsAreAccounted, NothingIsPassedOver, Accounted, Folded, HasText
  <2> QED
    BY <2>3, <2>4 DEF ServingInv
<1> QED
  BY <1>1, <1>2, <1>3, <1>4, <1>5, <1>6, <1>7 DEF Next

\* The log, the cursors, the calls and what was given keep their types.
THEOREM ServingTypeCorrect == Spec => []TypeOK
  BY InitServingInv, NextServingInv, PTL DEF Spec, ServingInv

\* A cursor never passes a text its client was not given, but for those a
\* session of the client began past: the rows before its window and those
\* admitted before one of them.  For any number of overlapping fetches, in
\* batches of any size.
THEOREM CursorsPassNothingOver == Spec => []NothingIsPassedOver
  BY InitServingInv, NextServingInv, PTL DEF Spec, ServingInv
=============================================================================
