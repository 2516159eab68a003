----------------------------- MODULE MCSendPath -----------------------------
(***************************************************************************)
(* The instances of SendPath that TLC checks.  t1 is a thread we opened    *)
(* towards bob, t2 one bob opened towards us; calls open n1, n2 and n3.    *)
(***************************************************************************)
EXTENDS SendPath

MCNames == {"me", "bob", "carol", "dave"}
MCUsers == {"u1", "u2", "u3"}
MCRoster ==
  [n \in {"me", "bob", "carol"} |->
     CASE n = "me" -> "u1" [] n = "bob" -> "u2" [] n = "carol" -> "u3"]
MCEids == 1..20
MCThreads == {"t1", "t2", "n1", "n2", "n3"}
TwoCalls == 1..2
Fresh(c) == CASE c = 1 -> "n1" [] c = 2 -> "n2" [] c = 3 -> "n3"
FreshTwo == [c \in TwoCalls |-> Fresh(c)]

Asked(from, to, eid) ==
  [NoThread EXCEPT !.status = "open", !.opened_eid = eid, !.from = from,
     !.to = to, !.to_user = UserOf(to), !.anchor = eid, !.awaiting = to]

OneEach == {[t \in MCThreads |->
               CASE t = "t1" -> Asked("me", "bob", 19)
                 [] t = "t2" -> Asked("bob", "me", 20)
                 [] t \notin {"t1", "t2"} -> NoThread]}

Ask(type, to, thread, basis) ==
  [type |-> type, to |-> to, thread |-> thread, basis |-> basis, flaw |-> None,
   marked |-> FALSE]

Abandon     == Ask("RESOLVED", "bob", "t1", "abandoned")
FollowUp    == Ask("REPLY", "bob", "t1", None)
NotMine     == Ask("RESOLVED", "bob", "t1", "done")
AckIt       == Ask("ACK", "bob", "t2", "done")
Answer      == Ask("REPLY", "bob", "t2", None)
CloseIt     == Ask("RESOLVED", "bob", "t2", "done")
NotOpened   == Ask("RESOLVED", "bob", "t2", "abandoned")
Strayed     == Ask("REPLY", "carol", "t2", None)
Unheld      == Ask("ACK", "bob", "n3", "done")
Open        == Ask("REQUEST", "bob", None, None)
OpenUnknown == Ask("REQUEST", "dave", None, None)
Announce    == Ask("BROADCAST", None, None, None)
Proclaim    == [Announce EXCEPT !.marked = TRUE]
Leaking     == [Open EXCEPT !.flaw = "SECRET_PATTERN_DETECTED"]
Empty       == [CloseIt EXCEPT !.flaw = "VALIDATION_ERROR"]
Wordy       == [Abandon EXCEPT !.flaw = "WIRE_TOO_LONG"]
Misrouted   == [Announce EXCEPT !.flaw = "WRONG_ROOM"]

Said(eid, type, thread, basis) ==
  [eid |-> eid, type |-> type, from |-> "bob", to |-> "me", to_user |-> None,
   thread |-> thread, basis |-> basis, via |-> "group", mid |-> eid, at |-> 0]

BobAcks     == Said(11, "ACK", "n1", "done")
BobCloses   == Said(12, "RESOLVED", "t1", "done")
BobReplies  == Said(13, "REPLY", "t2", None)
BobAbandons == Said(14, "RESOLVED", "t2", "abandoned")

AllInputs  == {Abandon, FollowUp, NotMine, AckIt, Answer, CloseIt, NotOpened,
               Strayed, Unheld, Open, OpenUnknown, Announce, Proclaim, Leaking,
               Empty, Wordy, Misrouted}
PaceInputs == {Open, Announce}
AllPeers   == {BobAcks, BobCloses, BobReplies, BobAbandons}
NoPeers    == {}
=============================================================================
