--------------------------- MODULE DoorbellsProofs ---------------------------
(***************************************************************************)
(* Theorems about Doorbells, for any wire, scan depth and ladder.          *)
(***************************************************************************)
EXTENDS Doorbells, FiniteSetTheorems, WellFoundedInduction, TLAPS

\* Every call up to a position was told, or was before the window.
Settled(position) ==
  \A s \in 1..Last : CallsUs(s) /\ s \notin told \cup skipped => position < s
SettledOrNone(position) == position # None => Settled(position)

\* What a neighbour may put back, and what a commit is about to make the
\* watermark, are as good as what is there.
EveryPositionIsSettled ==
  /\ SettledOrNone(watermark) /\ SettledOrNone(file)
  /\ \A position \in neighbour : SettledOrNone(position)
  /\ pc = "committing" => Settled(through)

\* A summary at hand reaches no further than one scan.
SummaryIsOneScan ==
  pc \in {"ringing", "turn"} => through <= watermark + Depth

DoorbellsInv == PositionsOK /\ EveryPositionIsSettled /\ SummaryIsOneScan

-----------------------------------------------------------------------------
(* A summary covers what it examined, row after row.                       *)

LEMMA CoveredIsExamined ==
  ASSUME PositionsOK, NEW after \in 0..Last
  PROVE  /\ after + Cardinality(Examined(after)) \in after..Last
         /\ after + Cardinality(Examined(after)) <= after + Depth
<1>1. Last \in Nat /\ after \in Nat /\ after <= Last
  BY DEF PositionsOK, Last
<1>2. Depth \in Nat /\ Depth > 0
  BY DoorbellsAssumption
<1>3. PICK end \in Nat : end = IF after + Depth < Last THEN after + Depth ELSE Last
  BY <1>1, <1>2
<1>4. Examined(after) = (after + 1)..end
  <2>1. \A s : s \in Examined(after) => s \in (after + 1)..end
    BY <1>1, <1>2, <1>3 DEF Examined
  <2>2. \A s : s \in (after + 1)..end => s \in Examined(after)
    BY <1>1, <1>2, <1>3 DEF Examined
  <2> QED
    BY <2>1, <2>2
<1>5. Cardinality((after + 1)..end) = IF after + 1 > end THEN 0 ELSE end - (after + 1) + 1
  <2>1. after + 1 \in Int /\ end \in Int
    BY <1>1, <1>3
  <2> QED
    BY <2>1, FS_Interval, Zenon
<1>6. Cardinality(Examined(after)) = end - after
  BY <1>1, <1>2, <1>3, <1>4, <1>5
<1> QED
  BY <1>1, <1>2, <1>3, <1>6

\* The furthest of two settled positions is settled.
LEMMA FurthestIsSettled ==
  ASSUME NEW a \in Nat, NEW b \in Nat, Settled(a), Settled(b)
  PROVE  Settled(MaxOf(a, b))
  BY DEF Settled, MaxOf, Last

LEMMA InitDoorbellsInv == Init => DoorbellsInv
<1> SUFFICES ASSUME Init PROVE DoorbellsInv
  OBVIOUS
<1>1. row = <<>> /\ Last = 0
  BY DEF Init, Last
<1>2. PositionsOK
  BY <1>1 DEF Init, PositionsOK, Position
<1>3. EveryPositionIsSettled
  BY DEF Init, EveryPositionIsSettled, SettledOrNone
<1>4. SummaryIsOneScan
  BY DEF Init, SummaryIsOneScan
<1> QED
  BY <1>2, <1>3, <1>4 DEF DoorbellsInv

\* Steps that write no position of the satellite and settle nothing less.
LEMMA QuietStep ==
  ASSUME DoorbellsInv, row' = row, told \subseteq told', skipped \subseteq skipped',
         watermark' = watermark, file' = file, neighbour' = neighbour,
         pc' = "committing" => Settled(through)'
  PROVE  EveryPositionIsSettled'
  BY DEF DoorbellsInv, EveryPositionIsSettled, SettledOrNone, Settled, CallsUs, Last

\* The watermark in memory and in the file advance to a settled position.
LEMMA AdvanceStep ==
  ASSUME DoorbellsInv, NEW seq \in 0..Last, Settled(seq), watermark # None, AdvanceTo(seq),
         UNCHANGED <<row, told, skipped, neighbour>>, pc' # "committing"
  PROVE  /\ watermark' \in 0..Last /\ file' \in Position
         /\ EveryPositionIsSettled'
<1>1. Last \in Nat /\ None \notin Nat
  BY DoorbellsAssumption DEF DoorbellsInv, PositionsOK, Last
<1>2. watermark \in 0..Last /\ Settled(watermark)
  BY DEF DoorbellsInv, PositionsOK, Position, EveryPositionIsSettled, SettledOrNone
<1>3. watermark' = MaxOf(watermark, seq) /\ watermark' \in 0..Last /\ Settled(watermark')
  BY <1>1, <1>2, FurthestIsSettled DEF AdvanceTo, MaxOf
<1>4. file' \in Position /\ SettledOrNone(file')
  <2>1. CASE file' = file
    BY <2>1 DEF DoorbellsInv, PositionsOK, EveryPositionIsSettled
  <2>2. CASE file = None /\ file' = seq
    BY <2>2 DEF Position, SettledOrNone
  <2>3. CASE file # None /\ file' = MaxOf(file, seq)
    <3>1. file \in 0..Last /\ Settled(file)
      BY <2>3 DEF DoorbellsInv, PositionsOK, Position, EveryPositionIsSettled, SettledOrNone
    <3>2. MaxOf(file, seq) \in 0..Last /\ Settled(MaxOf(file, seq))
      BY <1>1, <3>1, FurthestIsSettled DEF MaxOf
    <3> QED
      BY <2>3, <3>2 DEF Position, SettledOrNone
  <2> QED
    BY <2>1, <2>2, <2>3 DEF AdvanceTo, Persist
<1> QED
  BY <1>3, <1>4
  DEF DoorbellsInv, EveryPositionIsSettled, SettledOrNone, Settled, CallsUs, Position, Last

-----------------------------------------------------------------------------
(* Every step. *)

\* A row that is stored is past every position there is.
LEMMA ArriveKeeps ==
  ASSUME DoorbellsInv, Arrive
  PROVE  DoorbellsInv'
<1>1. PICK m \in Wire : row' = Append(row, m)
  BY DEF Arrive
<1>2. /\ row \in Seq(Wire) /\ row' \in Seq(Wire) /\ Last \in Nat /\ Last' = Last + 1
      /\ \A s \in 1..Last : row'[s] = row[s]
  BY <1>1 DEF DoorbellsInv, PositionsOK, Last
<1>3. UNCHANGED <<role, old, cursor, watermark, file, neighbour, pc, through, told, skipped>>
  BY DEF Arrive, satellite, bounds, history
<1>4. Position \subseteq Position'
  BY <1>2 DEF Position
<1>5. PositionsOK'
  <2>1. neighbour' \in {{}} \cup {{position} : position \in Position'}
    BY <1>3, <1>4 DEF DoorbellsInv, PositionsOK
  <2> QED
    BY <1>2, <1>3, <1>4, <2>1 DEF DoorbellsInv, PositionsOK
<1>6. ASSUME NEW position \in 0..Last, Settled(position)
      PROVE  \A s \in 1..Last' :
               (row'[s].verified /\ (row'[s].direct \/ row'[s].broadcast \/ row'[s].ours))
                 /\ s \notin told' \cup skipped' => position < s
  BY <1>2, <1>3, <1>6 DEF Settled, CallsUs
<1>7. \A position \in neighbour : position \in Position
  BY DEF DoorbellsInv, PositionsOK
<1>8. EveryPositionIsSettled'
  BY <1>3, <1>6, <1>7
  DEF DoorbellsInv, PositionsOK, EveryPositionIsSettled, SettledOrNone, Settled, CallsUs, Position
<1>9. SummaryIsOneScan'
  BY <1>3 DEF DoorbellsInv, SummaryIsOneScan
<1> QED
  BY <1>5, <1>8, <1>9 DEF DoorbellsInv

\* What does not touch the rows keeps what is a position.
LEMMA PositionIsKept ==
  ASSUME row' = row
  PROVE  Last' = Last /\ Position' = Position
  BY DEF Last, Position

LEMMA SeedKeeps ==
  ASSUME DoorbellsInv, Seed
  PROVE  DoorbellsInv'
<1>1. /\ UNCHANGED <<role, row, old, through, neighbour, told>>
      /\ cursor' = Ensured /\ watermark' = Ensured /\ pc' = "reading"
      /\ skipped' = skipped \cup 1..Ensured /\ Persist(Ensured)
  BY DEF Seed, log, bounds
<1>2. Last \in Nat /\ None \notin Nat /\ Last' = Last /\ Position' = Position
  BY <1>1, PositionIsKept, DoorbellsAssumption DEF DoorbellsInv, PositionsOK, Last
<1>3. Ensured \in 0..Last
  BY <1>2 DEF Ensured, DoorbellsInv, PositionsOK, Position
<1>4. Settled(Ensured)' /\ Ensured' = Ensured
  BY <1>1, <1>2, <1>3 DEF Settled, CallsUs, Ensured
<1>5. \A position \in 0..Last : (\A s \in 1..Last : CallsUs(s) /\ s \notin told \cup skipped => position < s)
        => (\A s \in 1..Last : CallsUs(s)' /\ s \notin told' \cup skipped' => position < s)
  BY <1>1 DEF CallsUs
<1>6. file' \in Position /\ (file' # None => Settled(file)')
  <2>1. CASE file' = file
    BY <1>1, <1>2, <2>1
    DEF DoorbellsInv, PositionsOK, EveryPositionIsSettled, SettledOrNone, Settled, CallsUs
  <2>2. CASE file' = Ensured
    BY <1>1, <1>2, <1>3, <1>4, <2>2 DEF Position, Settled
  <2>3. CASE file # None /\ file' = MaxOf(file, Ensured)
    <3>1. file \in 0..Last
      BY <2>3 DEF DoorbellsInv, PositionsOK, Position
    <3>2. file' = file \/ file' = Ensured
      BY <2>3 DEF MaxOf
    <3> QED
      BY <2>1, <2>2, <3>2
  <2> QED
    BY <1>1, <2>1, <2>2, <2>3 DEF Persist
<1>7. PositionsOK'
  BY <1>1, <1>2, <1>3, <1>6 DEF DoorbellsInv, PositionsOK, Position
<1>8. EveryPositionIsSettled'
  BY <1>1, <1>2, <1>4, <1>6
  DEF DoorbellsInv, EveryPositionIsSettled, SettledOrNone, Settled, CallsUs
<1>9. SummaryIsOneScan'
  BY <1>1 DEF SummaryIsOneScan
<1> QED
  BY <1>7, <1>8, <1>9 DEF DoorbellsInv

\* A summary without a call moves the watermark to its end; one with calls
\* is noted down, and only what ends in a commit counts them as told.
LEMMA ReadKeeps ==
  ASSUME DoorbellsInv, Read
  PROVE  DoorbellsInv'
<1> DEFINE covered == watermark + Cardinality(Examined(watermark))
<1>1. /\ pc = "reading" /\ UNCHANGED <<role, row, old, cursor, neighbour, skipped>>
      /\ through' = covered
      /\ IF Rung(watermark) = {}
         THEN /\ pc' = "idle" /\ AdvanceTo(covered) /\ UNCHANGED told
         ELSE /\ UNCHANGED <<watermark, file>>
              /\ pc' \in {"ringing", "idle", "committing", "turn"}
              /\ told' = IF pc' = "committing" THEN told \cup Rung(watermark) ELSE told
  BY DEF Read, Silent, log, bounds
<1>2. Last \in Nat /\ None \notin Nat /\ watermark # None /\ watermark \in 0..Last
  BY <1>1, DoorbellsAssumption DEF DoorbellsInv, PositionsOK, Position, Last
<1>3. covered \in watermark..Last /\ covered <= watermark + Depth
  BY <1>2, CoveredIsExamined DEF DoorbellsInv
<1>4. Last' = Last /\ Position' = Position
  BY <1>1, PositionIsKept
<1>5. Settled(watermark)
  BY <1>2 DEF DoorbellsInv, EveryPositionIsSettled, SettledOrNone
<1>6. Depth \in Nat
  BY DoorbellsAssumption
<1> HIDE DEF covered
<1>7. \A s \in 1..Last : CallsUs(s) /\ s \notin told \cup skipped =>
        covered < s \/ s \in Rung(watermark)
  BY <1>2, <1>3, <1>5, <1>6 DEF Settled, Rung
<1>8. CASE Rung(watermark) = {}
  <2>1. Settled(covered) /\ covered \in 0..Last
    BY <1>2, <1>3, <1>7, <1>8 DEF Settled
  <2>2. /\ watermark' \in 0..Last /\ file' \in Position
        /\ EveryPositionIsSettled'
    BY <1>1, <1>2, <1>8, <2>1, AdvanceStep
  <2> QED
    BY <1>1, <1>2, <1>4, <1>8, <2>1, <2>2 DEF DoorbellsInv, PositionsOK, SummaryIsOneScan, Position
<1>9. CASE Rung(watermark) # {}
  <2>1. told \subseteq told' /\ told' \subseteq 1..Last
    BY <1>1, <1>9 DEF Rung, DoorbellsInv, PositionsOK
  <2>2. pc' = "committing" => Settled(through)'
    BY <1>1, <1>2, <1>3, <1>4, <1>7, <1>9 DEF Settled, CallsUs
  <2>3. EveryPositionIsSettled'
    BY <1>1, <1>9, <2>1, <2>2, QuietStep
  <2>4. PositionsOK'
    BY <1>1, <1>2, <1>3, <1>4, <1>9, <2>1 DEF DoorbellsInv, PositionsOK
  <2>5. SummaryIsOneScan'
    BY <1>1, <1>3, <1>9 DEF SummaryIsOneScan
  <2> QED
    BY <2>3, <2>4, <2>5 DEF DoorbellsInv
<1> QED
  BY <1>8, <1>9

\* The calls of the summary at hand have been told: a commit may follow.
LEMMA ToldKeeps ==
  ASSUME DoorbellsInv, pc \in {"ringing", "turn"}, pc' = "committing", told' = told \cup AtHand,
         UNCHANGED <<role, row, old, cursor, watermark, through, file, neighbour, skipped>>
  PROVE  DoorbellsInv'
<1>1. Last \in Nat /\ None \notin Nat /\ watermark \in 0..Last /\ through \in 0..Last /\ Depth \in Nat
  BY DoorbellsAssumption DEF DoorbellsInv, PositionsOK, Position, Last
<1>2. Last' = Last /\ Position' = Position
  BY PositionIsKept
<1>3. Settled(watermark) /\ through <= watermark + Depth
  BY <1>1 DEF DoorbellsInv, EveryPositionIsSettled, SettledOrNone, SummaryIsOneScan
<1>4. Settled(through)'
  BY <1>1, <1>2, <1>3 DEF Settled, AtHand, Rung, CallsUs
<1>5. EveryPositionIsSettled'
  BY <1>4, QuietStep
<1>6. told' \subseteq 1..Last
  BY DEF DoorbellsInv, PositionsOK, AtHand, Rung
<1> QED
  BY <1>1, <1>2, <1>5, <1>6 DEF DoorbellsInv, PositionsOK, SummaryIsOneScan

\* The commit moves the watermark, and a ring that was heard does so even
\* when the commit fails.
LEMMA CommitKeeps ==
  ASSUME DoorbellsInv, pc = "committing", pc' = "idle", AdvanceTo(through),
         cursor' \in {cursor, None, CommittedAt(through)},
         UNCHANGED <<role, row, old, through, neighbour, told, skipped>>
  PROVE  DoorbellsInv'
<1>1. Last \in Nat /\ watermark # None /\ through \in 0..Last /\ Settled(through)
  BY DEF DoorbellsInv, PositionsOK, EveryPositionIsSettled, Last
<1>2. Last' = Last /\ Position' = Position
  BY PositionIsKept
<1>3. /\ watermark' \in 0..Last /\ file' \in Position
      /\ EveryPositionIsSettled'
  BY <1>1, AdvanceStep
<1>4. cursor' \in Position
  BY <1>1 DEF CommittedAt, Ensured, MaxOf, DoorbellsInv, PositionsOK, Position
<1> QED
  BY <1>1, <1>2, <1>3, <1>4, DoorbellsAssumption
  DEF DoorbellsInv, PositionsOK, SummaryIsOneScan, Position

\* A failed call leaves the positions, and may lose the session.
LEMMA GivesUpKeeps ==
  ASSUME DoorbellsInv, pc' = "idle", cursor' \in {cursor, None, CommittedAt(through)},
         UNCHANGED <<role, row, old, watermark, through, file, neighbour, told, skipped>>
  PROVE  DoorbellsInv'
<1>1. Last \in Nat /\ through \in 0..Last
  BY DEF DoorbellsInv, PositionsOK, Last
<1>2. Last' = Last /\ Position' = Position
  BY PositionIsKept
<1>3. cursor' \in Position
  BY <1>1 DEF CommittedAt, Ensured, MaxOf, DoorbellsInv, PositionsOK, Position
<1>4. EveryPositionIsSettled'
  BY QuietStep
<1> QED
  BY <1>2, <1>3, <1>4 DEF DoorbellsInv, PositionsOK, SummaryIsOneScan

LEMMA NextDoorbellsInv ==
  ASSUME DoorbellsInv, [Next]_vars
  PROVE  DoorbellsInv'
<1> USE DEF log, satellite, bounds, history
<1>1. CASE Arrive
  BY <1>1, ArriveKeeps
<1>2. CASE Age
  <2>1. Last \in Nat /\ Last' = Last /\ Position' = Position /\ UNCHANGED <<row, told, skipped>>
    BY <1>2, PositionIsKept DEF Age, DoorbellsInv, PositionsOK, Last
  <2>2. EveryPositionIsSettled'
    BY <1>2, <2>1
    DEF Age, DoorbellsInv, EveryPositionIsSettled, SettledOrNone, Settled, CallsUs
  <2> QED
    BY <1>2, <2>1, <2>2 DEF Age, DoorbellsInv, PositionsOK, SummaryIsOneScan
<1>3. CASE SetLevel \/ Tick \/ UNCHANGED vars
  <2>1. UNCHANGED <<role, row, old, cursor, pc, watermark, through, file, neighbour, told, skipped>>
    BY <1>3 DEF SetLevel, Tick, vars
  <2>2. Last' = Last /\ Position' = Position
    BY <2>1, PositionIsKept
  <2>3. EveryPositionIsSettled'
    BY <2>1, <2>2 DEF DoorbellsInv, EveryPositionIsSettled, SettledOrNone, Settled, CallsUs
  <2> QED
    BY <2>1, <2>2, <2>3 DEF DoorbellsInv, PositionsOK, SummaryIsOneScan
<1>4. CASE Look
  <2>1. /\ UNCHANGED <<role, row, old, cursor, through, file, neighbour, told, skipped>>
        /\ watermark' = watermark \/ watermark' = file
        /\ pc' = IF watermark' = None THEN "seeding" ELSE "reading"
    BY <1>4 DEF Look
  <2>2. Last' = Last /\ Position' = Position
    BY <2>1, PositionIsKept
  <2>3. EveryPositionIsSettled'
    BY <2>1, <2>2 DEF DoorbellsInv, EveryPositionIsSettled, SettledOrNone, Settled, CallsUs
  <2> QED
    BY <2>1, <2>2, <2>3 DEF DoorbellsInv, PositionsOK, SummaryIsOneScan
<1>5. CASE Seed
  BY <1>5, SeedKeeps
<1>6. CASE Read
  BY <1>6, ReadKeeps
<1>7. CASE Deliver
  BY <1>7, ToldKeeps DEF Deliver
<1>8. CASE DeliverFails
  BY <1>8, GivesUpKeeps DEF DeliverFails
<1>9. CASE TurnExits
  BY <1>9, ToldKeeps DEF TurnExits
<1>10. CASE TurnFails
  BY <1>10, GivesUpKeeps DEF TurnFails
<1>11. CASE Commit
  BY <1>11, CommitKeeps DEF Commit
<1>12. CASE LinkFails
  <2>1. CASE pc = "committing" /\ role = "channel"
    BY <1>12, <2>1, CommitKeeps DEF LinkFails
  <2>2. CASE ~(pc = "committing" /\ role = "channel")
    BY <1>12, <2>2, GivesUpKeeps DEF LinkFails
  <2> QED
    BY <2>1, <2>2
<1>13. CASE Restart
  <2>1. /\ UNCHANGED <<role, row, old, file, neighbour, told, skipped>>
        /\ cursor' = None /\ watermark' = None /\ through' = 0 /\ pc' = "idle"
    BY <1>13 DEF Restart
  <2>2. Last' = Last /\ Position' = Position /\ Last \in Nat
    BY <2>1, PositionIsKept DEF DoorbellsInv, PositionsOK, Last
  <2>3. EveryPositionIsSettled'
    BY <2>1, <2>2 DEF DoorbellsInv, EveryPositionIsSettled, SettledOrNone, Settled, CallsUs
  <2> QED
    BY <2>1, <2>2, <2>3 DEF DoorbellsInv, PositionsOK, SummaryIsOneScan, Position
<1>14. CASE NeighbourReads \/ NeighbourWrites
  <2>1. /\ UNCHANGED <<role, row, old, cursor, pc, watermark, through, told, skipped>>
        /\ \/ file' = file /\ neighbour' = {file}
           \/ file' \in neighbour /\ neighbour' = {}
    BY <1>14 DEF NeighbourReads, NeighbourWrites
  <2>2. Last' = Last /\ Position' = Position
    BY <2>1, PositionIsKept
  <2>3. EveryPositionIsSettled'
    BY <2>1, <2>2 DEF DoorbellsInv, EveryPositionIsSettled, SettledOrNone, Settled, CallsUs
  <2>4. file' \in Position /\ neighbour' \in {{}} \cup {{position} : position \in Position}
    BY <2>1 DEF DoorbellsInv, PositionsOK
  <2> QED
    BY <2>1, <2>2, <2>3, <2>4 DEF DoorbellsInv, PositionsOK, SummaryIsOneScan
<1> QED
  BY <1>1, <1>2, <1>3, <1>4, <1>5, <1>6, <1>7, <1>8, <1>9, <1>10, <1>11, <1>12, <1>13, <1>14
  DEF Next

\* No message that calls this agent is passed over untold, for any scan
\* depth, any order of failures and any number of restarts.
THEOREM EveryCallIsAhead == Spec => []NoCallIsMissed
<1>1. DoorbellsInv => NoCallIsMissed
  BY DEF DoorbellsInv, EveryPositionIsSettled, SettledOrNone, Settled, NoCallIsMissed
<1> QED
  BY <1>1, InitDoorbellsInv, NextDoorbellsInv, PTL DEF Spec

-----------------------------------------------------------------------------
(* The pace of the turns.                                                  *)

Ages == Seq(0..Window - 1)

Falling(ages) == \A i, j \in 1..Len(ages) : i <= j => ages[j] <= ages[i]

Running == IF pc = "turn" THEN 1 ELSE 0

\* Every turn that this process started is under way, or is remembered since
\* it ended, which was no earlier; and one starts only while there is room.
TurnsAreCounted ==
  /\ wakes \in Ages /\ starts \in Ages
  /\ Falling(wakes) /\ Falling(starts)
  /\ Len(starts) <= Len(wakes) + Running
  /\ \A k \in 1..Len(starts) - Running :
       wakes[Len(wakes) + 1 - k] <= starts[Len(starts) + 1 - Running - k]
  /\ Len(starts) <= Budget
  /\ pc = "turn" => Len(wakes) < Budget

\* Of a falling sequence, what grows too old is a prefix, and Older drops it.
LEMMA OlderDropsAPrefix ==
  ASSUME NEW ages \in Ages, Falling(ages)
  PROVE  \E m \in 0..Len(ages) :
           /\ \A i \in 1..m : ages[i] + 1 >= Window
           /\ \A i \in m + 1..Len(ages) : ages[i] + 1 < Window
           /\ Older(ages) = [i \in 1..Len(ages) - m |-> ages[m + i] + 1]
<1> DEFINE n == Len(ages)
           TooOld == {i \in 1..n : ages[i] + 1 >= Window}
           Fresh == {i \in Nat : i + 1 \notin TooOld}
<1>1. n \in Nat /\ Window \in Nat /\ \A i \in 1..n : ages[i] \in Int
  BY DoorbellsAssumption DEF Ages
<1>2. n \in Fresh /\ Fresh \subseteq Nat
  BY <1>1
<1>3. PICK m \in Fresh : \A i \in Fresh : m <= i
  <2>1. PICK m \in Fresh : \A i \in Fresh : <<i, m>> \notin OpToRel(<, Nat)
    BY <1>2, NatLessThanWellFounded, WFMin
  <2>2. ASSUME NEW i \in Fresh PROVE m <= i
    <3>1. ~ (<<i, m>> \in {pair \in Nat \X Nat : pair[1] < pair[2]})
      BY <2>1 DEF OpToRel
    <3>2. i \in Nat /\ m \in Nat
      BY <1>2
    <3> QED
      BY <3>1, <3>2
  <2> QED
    BY <2>2
<1>4. m \in 0..n
  BY <1>1, <1>2, <1>3
<1>5. \A i \in 1..m : i \in TooOld
  <2> TAKE i \in 1..m
  <2>1. i - 1 \in Nat /\ i - 1 \notin Fresh
    BY <1>3, <1>4
  <2> QED
    BY <1>4, <2>1
<1>6. \A i \in m + 1..n : i \notin TooOld
  <2> SUFFICES ASSUME NEW i \in m + 1..n, i \in TooOld PROVE FALSE
    OBVIOUS
  <2>1. m + 1 \in 1..n /\ i \in 1..n /\ m + 1 <= i
    BY <1>1, <1>4
  <2>2. ages[i] <= ages[m + 1]
    BY <2>1 DEF Falling
  <2>3. m + 1 \in TooOld
    BY <1>1, <2>1, <2>2
  <2> QED
    BY <1>3, <2>3
<1>7. TooOld = 1..m
  <2>1. \A i : i \in 1..m => i \in TooOld
    BY <1>5
  <2>2. \A i : i \in TooOld => i \in 1..m
    BY <1>1, <1>4, <1>6
  <2> QED
    BY <2>1, <2>2
<1>8. Cardinality(1..m) = m
  BY <1>4, FS_Interval
<1>9. Gone(ages) = m
  BY <1>7, <1>8 DEF Gone
<1>10. \A i \in 1..m : ages[i] + 1 >= Window
  BY <1>5
<1>11. \A i \in m + 1..n : ages[i] + 1 < Window
  BY <1>1, <1>4, <1>6
<1> HIDE DEF n, TooOld, Fresh
<1>12. Older(ages) = [i \in 1..n - m |-> ages[m + i] + 1]
  BY <1>9 DEF Older, n
<1> QED
  BY <1>4, <1>10, <1>11, <1>12 DEF n

LEMMA OlderIsFalling ==
  ASSUME NEW ages \in Ages, Falling(ages)
  PROVE  Older(ages) \in Ages /\ Falling(Older(ages)) /\ Len(Older(ages)) <= Len(ages)
<1>1. PICK m \in 0..Len(ages) :
           /\ \A i \in 1..m : ages[i] + 1 >= Window
           /\ \A i \in m + 1..Len(ages) : ages[i] + 1 < Window
           /\ Older(ages) = [i \in 1..Len(ages) - m |-> ages[m + i] + 1]
  BY OlderDropsAPrefix
<1>2. Len(ages) \in Nat /\ Window \in Nat /\ \A i \in 1..Len(ages) : ages[i] \in 0..Window - 1
  BY DoorbellsAssumption DEF Ages
<1>3. \A i \in 1..Len(ages) - m : ages[m + i] + 1 \in 0..Window - 1
  <2> TAKE i \in 1..Len(ages) - m
  <2>1. m + i \in m + 1..Len(ages) /\ m + i \in 1..Len(ages)
    BY <1>2
  <2> QED
    BY <1>1, <1>2, <2>1
<1>4. Older(ages) \in Ages /\ Len(Older(ages)) = Len(ages) - m
  BY <1>1, <1>2, <1>3 DEF Ages
<1>5. Falling(Older(ages))
  BY <1>1, <1>2, <1>4 DEF Falling
<1> QED
  BY <1>2, <1>4, <1>5

\* A turn is remembered from when it ended, so it is not forgotten before the
\* start of it is.
LEMMA TickCounts ==
  ASSUME TurnsAreCounted, Tick
  PROVE  TurnsAreCounted'
<1> DEFINE w == Len(wakes)
           s == Len(starts)
<1>1. pc' = pc /\ wakes' = Older(wakes) /\ starts' = Older(starts) /\ Running' = Running
  BY DEF Tick, Running
<1>2. /\ wakes' \in Ages /\ Falling(wakes') /\ Len(wakes') <= Len(wakes)
      /\ starts' \in Ages /\ Falling(starts') /\ Len(starts') <= Len(starts)
  BY <1>1, OlderIsFalling DEF TurnsAreCounted
<1>3. PICK m \in 0..w :
           /\ \A i \in 1..m : wakes[i] + 1 >= Window
           /\ \A i \in m + 1..w : wakes[i] + 1 < Window
           /\ wakes' = [i \in 1..w - m |-> wakes[m + i] + 1]
  BY <1>1, OlderDropsAPrefix DEF TurnsAreCounted
<1>4. PICK l \in 0..s :
           /\ \A i \in 1..l : starts[i] + 1 >= Window
           /\ \A i \in l + 1..s : starts[i] + 1 < Window
           /\ starts' = [i \in 1..s - l |-> starts[l + i] + 1]
  BY <1>1, OlderDropsAPrefix DEF TurnsAreCounted
<1>5. /\ w \in Nat /\ s \in Nat /\ Running \in {0, 1} /\ Window \in Nat /\ Budget \in Nat
      /\ \A i \in 1..w : wakes[i] \in Int
      /\ \A i \in 1..s : starts[i] \in Int
  <2>1. Window \in Nat /\ Budget \in Nat /\ Running \in {0, 1}
    BY DoorbellsAssumption DEF Running
  <2>2. wakes \in Seq(0..Window - 1) /\ starts \in Seq(0..Window - 1)
    BY DEF TurnsAreCounted, Ages
  <2>3. w \in Nat /\ \A i \in 1..w : wakes[i] \in Int
    BY <2>1, <2>2
  <2>4. s \in Nat /\ \A i \in 1..s : starts[i] \in Int
    BY <2>1, <2>2
  <2> QED
    BY <2>1, <2>3, <2>4
<1>6. Len(wakes') = w - m /\ Len(starts') = s - l
  BY <1>3, <1>4, <1>5, <1>2 DEF Ages
<1>7. \A k \in 1..s - Running : wakes[w + 1 - k] <= starts[s + 1 - Running - k]
  BY DEF TurnsAreCounted
<1>8. s <= w + Running
  BY DEF TurnsAreCounted
<1> HIDE DEF w, s
<1>9. s - l - Running <= w - m
  <2> SUFFICES ASSUME w - m < s - l - Running PROVE FALSE
    BY <1>5
  <2>1. w - m + 1 \in 1..s - Running
    BY <1>5, <1>3, <1>4
  <2>2. w + 1 - (w - m + 1) = m /\ s + 1 - Running - (w - m + 1) \in l + 1..s
    BY <1>5, <1>3, <1>4
  <2>3. m \in 1..m
    BY <1>3, <1>4, <1>5, <1>8
  <2>4. wakes[m] <= starts[s + 1 - Running - (w - m + 1)]
    BY <1>7, <2>1, <2>2
  <2>5. wakes[m] + 1 >= Window
    BY <1>3, <2>3
  <2>6. starts[s + 1 - Running - (w - m + 1)] + 1 < Window
    BY <1>4, <2>2
  <2>7. m \in 1..w /\ s + 1 - Running - (w - m + 1) \in 1..s
    BY <1>3, <1>4, <1>5, <2>2, <2>3
  <2> QED
    BY <1>5, <2>4, <2>5, <2>6, <2>7
<1>10. ASSUME NEW k \in 1..Len(starts') - Running
       PROVE  wakes'[Len(wakes') + 1 - k] <= starts'[Len(starts') + 1 - Running - k]
  <2>1. /\ k \in 1..s - Running
        /\ w - m + 1 - k \in 1..w - m
        /\ s - l + 1 - Running - k \in 1..s - l
    BY <1>3, <1>4, <1>5, <1>6, <1>9
  <2>2. /\ wakes'[w - m + 1 - k] = wakes[m + (w - m + 1 - k)] + 1
        /\ starts'[s - l + 1 - Running - k] = starts[l + (s - l + 1 - Running - k)] + 1
    BY <1>3, <1>4, <2>1
  <2>3. /\ m + (w - m + 1 - k) = w + 1 - k
        /\ l + (s - l + 1 - Running - k) = s + 1 - Running - k
        /\ w + 1 - k \in 1..w /\ s + 1 - Running - k \in 1..s
    BY <1>3, <1>4, <1>5, <2>1
  <2>4. wakes[w + 1 - k] <= starts[s + 1 - Running - k]
    BY <1>7, <2>1
  <2> QED
    BY <1>5, <1>6, <2>2, <2>3, <2>4
<1>11. Len(starts') <= Len(wakes') + Running
  BY <1>5, <1>6, <1>9, <1>3, <1>4
<1>12. Len(starts') <= Budget
  BY <1>5, <1>4, <1>6 DEF TurnsAreCounted, s
<1>13. pc' = "turn" => Len(wakes') < Budget
  BY <1>1, <1>3, <1>5, <1>6 DEF TurnsAreCounted, w
<1> QED
  BY <1>1, <1>2, <1>10, <1>11, <1>12, <1>13 DEF TurnsAreCounted, Running

\* Not before there is room, and then it counts once.
LEMMA TurnStarts ==
  ASSUME TurnsAreCounted, pc # "turn", Len(wakes) < Budget,
         wakes' = wakes, starts' = Append(starts, 0), pc' = "turn"
  PROVE  TurnsAreCounted'
<1>1. /\ Window \in Nat /\ Window > 0 /\ Budget \in Nat
      /\ wakes \in Seq(0..Window - 1) /\ starts \in Seq(0..Window - 1)
  BY DoorbellsAssumption DEF TurnsAreCounted, Ages
<1>2. /\ Running = 0 /\ Running' = 1
      /\ Len(starts') = Len(starts) + 1 /\ starts' \in Seq(0..Window - 1)
      /\ \A i \in 1..Len(starts) : starts'[i] = starts[i] /\ starts[i] \in 0..Window - 1
      /\ starts'[Len(starts) + 1] = 0
  BY <1>1 DEF Running
<1>3. Falling(starts')
  <2> SUFFICES ASSUME NEW i \in 1..Len(starts'), NEW j \in 1..Len(starts'), i <= j
               PROVE  starts'[j] <= starts'[i]
    BY DEF Falling
  <2>1. CASE j = Len(starts) + 1
    BY <1>1, <1>2, <2>1
  <2>2. CASE j # Len(starts) + 1
    <3>1. i \in 1..Len(starts) /\ j \in 1..Len(starts)
      BY <1>1, <1>2, <2>2
    <3> QED
      BY <1>2, <3>1 DEF Falling, TurnsAreCounted
  <2> QED
    BY <2>1, <2>2
<1>4. ASSUME NEW k \in 1..Len(starts') - 1
      PROVE  wakes[Len(wakes) + 1 - k] <= starts'[Len(starts') + 1 - 1 - k]
  <2>1. /\ k \in 1..Len(starts) - Running
        /\ Len(starts') + 1 - 1 - k = Len(starts) + 1 - Running - k
        /\ Len(starts) + 1 - Running - k \in 1..Len(starts)
    BY <1>1, <1>2
  <2> QED
    BY <1>2, <2>1 DEF TurnsAreCounted
<1>5. Len(starts') <= Len(wakes) + 1 /\ Len(starts') <= Budget
  BY <1>1, <1>2 DEF TurnsAreCounted
<1> QED
  BY <1>1, <1>2, <1>3, <1>4, <1>5 DEF TurnsAreCounted, Ages

LEMMA TurnEnds ==
  ASSUME TurnsAreCounted, pc = "turn", pc' # "turn",
         wakes' = Append(wakes, 0), starts' = starts
  PROVE  TurnsAreCounted'
<1>1. /\ Window \in Nat /\ Window > 0 /\ Budget \in Nat
      /\ wakes \in Seq(0..Window - 1) /\ starts \in Seq(0..Window - 1)
  BY DoorbellsAssumption DEF TurnsAreCounted, Ages
<1>2. /\ Running = 1 /\ Running' = 0
      /\ Len(wakes') = Len(wakes) + 1 /\ wakes' \in Seq(0..Window - 1)
      /\ \A i \in 1..Len(wakes) : wakes'[i] = wakes[i] /\ wakes[i] \in 0..Window - 1
      /\ wakes'[Len(wakes) + 1] = 0
      /\ \A i \in 1..Len(starts) : starts[i] \in 0..Window - 1
  BY <1>1 DEF Running
<1>3. Falling(wakes')
  <2> SUFFICES ASSUME NEW i \in 1..Len(wakes'), NEW j \in 1..Len(wakes'), i <= j
               PROVE  wakes'[j] <= wakes'[i]
    BY DEF Falling
  <2>1. CASE j = Len(wakes) + 1
    BY <1>1, <1>2, <2>1
  <2>2. CASE j # Len(wakes) + 1
    <3>1. i \in 1..Len(wakes) /\ j \in 1..Len(wakes)
      BY <1>1, <1>2, <2>2
    <3> QED
      BY <1>2, <3>1 DEF Falling, TurnsAreCounted
  <2> QED
    BY <2>1, <2>2
<1>4. Len(starts) <= Len(wakes) + 1
  BY <1>2 DEF TurnsAreCounted
<1>5. ASSUME NEW k \in 1..Len(starts)
      PROVE  wakes'[Len(wakes') + 1 - k] <= starts[Len(starts) + 1 - k]
  <2>1. CASE k = 1
    BY <1>1, <1>2, <2>1
  <2>2. CASE k # 1
    <3>1. /\ k - 1 \in 1..Len(starts) - Running
          /\ Len(wakes') + 1 - k = Len(wakes) + 1 - (k - 1)
          /\ Len(starts) + 1 - k = Len(starts) + 1 - Running - (k - 1)
          /\ Len(wakes) + 1 - (k - 1) \in 1..Len(wakes)
      BY <1>1, <1>2, <1>4, <2>2
    <3>2. wakes[Len(wakes) + 1 - (k - 1)] <= starts[Len(starts) + 1 - Running - (k - 1)]
      BY <3>1 DEF TurnsAreCounted
    <3> QED
      BY <1>2, <3>1, <3>2
  <2> QED
    BY <2>1, <2>2
<1>6. /\ Len(starts') <= Len(wakes') + Running' /\ Len(starts') <= Budget
      /\ Falling(starts')
  BY <1>1, <1>2, <1>4 DEF TurnsAreCounted
<1>7. \A k \in 1..Len(starts') - Running' :
        wakes'[Len(wakes') + 1 - k] <= starts'[Len(starts') + 1 - Running' - k]
  <2>1. Len(starts') - Running' = Len(starts) /\ Len(starts) \in Nat
    BY <1>1, <1>2
  <2>2. \A k \in 1..Len(starts) : Len(starts') + 1 - Running' - k = Len(starts) + 1 - k
    BY <1>1, <1>2
  <2> QED
    BY <1>5, <2>1, <2>2
<1> QED
  BY <1>1, <1>2, <1>3, <1>6, <1>7 DEF TurnsAreCounted, Ages

LEMMA InitTurnsAreCounted == Init => TurnsAreCounted
  BY DoorbellsAssumption DEF Init, TurnsAreCounted, Ages, Falling, Running

LEMMA NextTurnsAreCounted ==
  ASSUME TurnsAreCounted, [Next]_vars
  PROVE  TurnsAreCounted'
<1> USE DEF log, satellite, bounds, history
<1>1. CASE Tick
  BY <1>1, TickCounts
<1>2. CASE Read
  <2>1. CASE pc' = "turn"
    <3>1. pc # "turn" /\ wakes' = wakes /\ starts' = Append(starts, 0) /\ ~Spent
      BY <1>2, <2>1 DEF Read
    <3>2. Len(wakes) < Budget
      BY <3>1, DoorbellsAssumption DEF Spent, TurnsAreCounted, Ages
    <3> QED
      BY <2>1, <3>1, <3>2, TurnStarts
  <2>2. CASE pc' # "turn"
    <3>1. pc # "turn" /\ wakes' = wakes /\ starts' = starts
      BY <1>2, <2>2 DEF Read
    <3> QED
      BY <2>2, <3>1 DEF TurnsAreCounted, Running
  <2> QED
    BY <2>1, <2>2
<1>3. CASE TurnExits
  BY <1>3, TurnEnds DEF TurnExits
<1>4. CASE TurnFails
  BY <1>4, TurnEnds DEF TurnFails
<1>5. CASE Restart
  <2>1. wakes' = <<>> /\ starts' = <<>> /\ pc' = "idle"
    BY <1>5 DEF Restart
  <2> QED
    BY <2>1, DoorbellsAssumption DEF TurnsAreCounted, Ages, Falling, Running
<1>6. CASE \/ Arrive \/ Age \/ SetLevel \/ Look \/ Seed \/ Deliver \/ DeliverFails \/ Commit
           \/ LinkFails \/ NeighbourReads \/ NeighbourWrites \/ UNCHANGED vars
  <2>1. wakes' = wakes /\ starts' = starts /\ (pc = "turn" <=> pc' = "turn")
    BY <1>6 DEF Arrive, Age, SetLevel, Look, Seed, Deliver, DeliverFails, Commit, LinkFails,
                NeighbourReads, NeighbourWrites, vars
  <2> QED
    BY <2>1 DEF TurnsAreCounted, Running
<1> QED
  BY <1>1, <1>2, <1>3, <1>4, <1>5, <1>6 DEF Next

\* However long turns run and whatever fails, one process of the runner starts
\* no more of them in any window than the budget, whatever the budget, the
\* window and the cooldown.
THEOREM TurnsAreBudgeted == Spec => []WakesAreBounded
<1>1. TurnsAreCounted => WakesAreBounded
  BY DEF TurnsAreCounted, WakesAreBounded
<1> QED
  BY <1>1, InitTurnsAreCounted, NextTurnsAreCounted, PTL DEF Spec

-----------------------------------------------------------------------------
(* The types.                                                              *)

BoundsOK ==
  /\ Last <= MaxRows /\ ladder \in Levels
  /\ restarts \in 0..MaxRestarts /\ changes \in 0..MaxChanges

LEMMA NextBoundsOK ==
  ASSUME PositionsOK, BoundsOK, [Next]_vars
  PROVE  BoundsOK'
<1> USE DEF log, satellite, bounds, history
<1>1. /\ MaxRows \in Nat /\ MaxRestarts \in Nat /\ MaxChanges \in Nat /\ Last \in Nat
  BY DoorbellsAssumption DEF PositionsOK, Last
<1>2. CASE Arrive
  <2>1. Last' = Last + 1 /\ Last < MaxRows
    BY <1>2 DEF Arrive, Last, PositionsOK
  <2> QED
    BY <1>1, <1>2, <2>1 DEF Arrive, BoundsOK
<1>3. CASE SetLevel
  BY <1>1, <1>3 DEF SetLevel, BoundsOK, Last
<1>4. CASE Restart
  BY <1>1, <1>4 DEF Restart, BoundsOK, Last
<1>5. CASE \/ Age \/ Tick \/ Look \/ Seed \/ Read \/ Deliver \/ DeliverFails \/ TurnExits
           \/ TurnFails \/ Commit \/ LinkFails \/ NeighbourReads \/ NeighbourWrites
           \/ UNCHANGED vars
  <2>1. UNCHANGED <<row, ladder, restarts, changes>>
    BY <1>5 DEF Age, Tick, Look, Seed, Read, Deliver, DeliverFails, TurnExits, TurnFails,
                Commit, LinkFails, NeighbourReads, NeighbourWrites, vars
  <2> QED
    BY <2>1 DEF BoundsOK, Last
<1> QED
  BY <1>2, <1>3, <1>4, <1>5 DEF Next

\* Positions stay within the inbox, ages within the window, counters within
\* their bounds.
THEOREM DoorbellsTypeCorrect == Spec => []TypeOK
<1>1. Init => BoundsOK
  BY DoorbellsAssumption DEF Init, BoundsOK, Last
<1>2. DoorbellsInv /\ BoundsOK /\ [Next]_vars => BoundsOK'
  BY NextBoundsOK DEF DoorbellsInv
<1>3. DoorbellsInv /\ TurnsAreCounted /\ BoundsOK => TypeOK
  <2>1. Window \in Nat /\ Window > 0
    BY DoorbellsAssumption
  <2>2. ASSUME NEW ages \in Seq(0..Window - 1) PROVE ages \in Seq(0..Window)
    BY <2>1
  <2> QED
    BY <2>2 DEF DoorbellsInv, TurnsAreCounted, BoundsOK, TypeOK, Ages
<1> QED
  BY <1>1, <1>2, <1>3, InitDoorbellsInv, NextDoorbellsInv, InitTurnsAreCounted,
     NextTurnsAreCounted, PTL DEF Spec
=============================================================================
