----------------------------- MODULE JudgedLog -----------------------------
(***************************************************************************)
(* What the inbox promises, with no poll loop, batch or crash in it: the   *)
(* messages sent to a bot form a log, each of them is decided once, kept   *)
(* or dropped, and the server forgets a message only after that, unless it *)
(* lost the message first.                                                 *)
(***************************************************************************)
EXTENDS Naturals

CONSTANT Capacity    \* the longest log

VARIABLES
  arrived,    \* messages sent so far; their ids are 1..arrived
  forgotten,  \* ids the server no longer holds: 1..forgotten
  lost,       \* ids the server dropped on its own
  verdict     \* what was decided of each id

logVars == <<arrived, forgotten, lost, verdict>>

Ids == 1..Capacity

Decided(u) == verdict[u] # "pending"

Init ==
  /\ arrived = 0
  /\ forgotten = 0
  /\ lost = {}
  /\ verdict = [u \in Ids |-> "pending"]

Arrive ==
  /\ arrived < Capacity
  /\ arrived' = arrived + 1
  /\ UNCHANGED <<forgotten, lost, verdict>>

\* Any number of pending messages are decided at once, for good.
Decide ==
  /\ \E S \in SUBSET (1..arrived) :
       /\ \A u \in S : ~Decided(u)
       /\ verdict' \in {v \in [Ids -> {"pending", "kept", "dropped"}] :
            \A u \in Ids : IF u \in S THEN v[u] # "pending" ELSE v[u] = verdict[u]}
  /\ UNCHANGED <<arrived, forgotten, lost>>

Forget ==
  /\ \E n \in forgotten + 1 .. arrived :
       /\ \A u \in forgotten + 1 .. n : Decided(u) \/ u \in lost
       /\ forgotten' = n
  /\ UNCHANGED <<arrived, lost, verdict>>

Lose ==
  /\ forgotten < arrived
  /\ forgotten' = forgotten + 1
  /\ lost' = lost \cup {forgotten'}
  /\ UNCHANGED <<arrived, verdict>>

Next == Arrive \/ Decide \/ Forget \/ Lose

Spec == Init /\ [][Next]_logVars
=============================================================================
