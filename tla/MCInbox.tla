------------------------------ MODULE MCInbox ------------------------------
(***************************************************************************)
(* The instances of Inbox that TLC checks.  The binding speaks for "me";   *)
(* "bob" and "carol" are its peers, "dave" is a name somebody else's       *)
(* roster knows, and user "u9" is in nobody's roster.                      *)
(***************************************************************************)
EXTENDS Inbox, TLC

MCThreads == {"t1", "t2", "t3"}

MCEids == 1..20

MCNames == {"me", "bob", "carol", "dave"}

MCUsers == {"u1", "u2", "u3", "u9"}

MCRoster ==
  [n \in {"me", "bob", "carol"} |->
     CASE n = "me" -> "u1" [] n = "bob" -> "u2" [] n = "carol" -> "u3"]

\* What a peer sends into the group; a direct copy carries the same eid.
Said(user, eid, type, to, thread, basis) ==
  [form |-> "envelope", chat |-> "group", user |-> user, eid |-> eid,
   type |-> type, to |-> to, to_user |-> None, thread |-> thread,
   basis |-> basis, checkpoint |-> FALSE]

Directly(m) == [m EXCEPT !.chat = "private"]

\* bob opens t1 towards us, in the group and again by direct message.
Request      == Said("u2", 1, "REQUEST", "me", "t1", None)
RequestCopy  == Directly(Request)
\* A second opening of the same thread, with an eid of its own.
Reopening    == Said("u3", 2, "REQUEST", "me", "t1", None)
\* What its originator may still say on it.
OwnReply     == Said("u2", 3, "REPLY", "me", "t1", None)
Abandonment  == Said("u2", 4, "RESOLVED", "me", "t1", "abandoned")
\* What its addressee would say, said by a bystander.
Intrusion    == Said("u3", 5, "RESOLVED", "bob", "t1", "done")

\* bob's answers on t2, a thread we opened towards him.
Ack          == Said("u2", 6, "ACK", "me", "t2", "done")
AckCopy      == Directly(Ack)
Reply        == Said("u2", 7, "REPLY", "me", "t2", None)
Close        == Said("u2", 8, "RESOLVED", "me", "t2", "done")

Checkpoint   == [Said("u3", 9, "BROADCAST", None, "t3", None)
                   EXCEPT !.checkpoint = TRUE]
NotOurs      == Said("u2", 10, "REQUEST", "carol", "t3", None)
Misaddressed == Said("u2", 11, "REQUEST", "dave", "t3", None)
Anchored     == [Misaddressed EXCEPT !.to_user = "u1"]

Stranger     == Said("u9", 12, "REQUEST", "me", "t3", None)
Anonymous    == [Stranger EXCEPT !.user = None]
Foreign      == [Request EXCEPT !.chat = "foreign"]
Echo         == Said("u1", 13, "REPLY", "bob", "t2", None)
Garbled      == [Stranger EXCEPT !.form = "malformed"]

\* The thread tables of a daemon that has sent bob one REQUEST, t2.
Ours == [NoThread EXCEPT !.status = "open", !.opened_eid = 20, !.from = "me",
                         !.to = "bob", !.to_user = "u2", !.anchor = 0,
                         !.awaiting = "bob"]

\* What a v1 bus left: a thread it never anchored to a user id.
Migrated == [Ours EXCEPT !.to_user = None]

\* And one v1 opened with a BROADCAST, which nobody may continue.
Announced == [Ours EXCEPT !.opened_type = "BROADCAST"]

Starting(row) == [t \in MCThreads |-> IF t = "t2" THEN row ELSE NoThread]

FreshLedger == {Starting(Ours)}
AnyLedger   == {Starting(Ours), Starting(Migrated), Starting(Announced)}

\* Nothing tells two daemons on one bot apart.
EitherDaemon == Permutations(Pollers)

ThreadWire == {Request, RequestCopy, Reopening, OwnReply, Abandonment,
               Intrusion, Ack, AckCopy, Reply, Close}
AnyWire    == ThreadWire \cup {Stranger, Anonymous, Foreign, Echo, Garbled,
                               Checkpoint, NotOurs, Misaddressed, Anchored}
TwiceWire  == {Request, RequestCopy, OwnReply, Close}
FairWire   == {Request, RequestCopy, Stranger, Echo}
=============================================================================
