------------------------------ MODULE MCDebates ------------------------------
(* Two debates between two ends, one round each.                           *)
EXTENDS Debates

MCRoster == [a |-> 11, b |-> 12]

Say(turns, type, basis, d) ==
  [type |-> type, turns |-> turns, basis |-> basis, thread |-> d,
   to |-> None, patch |-> FALSE]

\* The five turns as the docs write them, a plain answer, an
\* acknowledgement, a body with two COUNTERs, and one with a patch.
MCSays ==
  {Say(<<"PROPOSAL">>, "REQUEST", None, None)} \cup
  UNION {{Say(<<"AUDIT">>, "REPLY", None, d),
          Say(<<"COUNTER">>, "REPLY", None, d),
          Say(<<"COUNTER", "COUNTER">>, "REPLY", None, d),
          Say(<<"CONSENSUS">>, "RESOLVED", "done", d),
          Say(<<"ESCALATE">>, "RESOLVED", "abandoned", d),
          Say(<<>>, "REPLY", None, d),
          Say(<<>>, "ACK", None, d),
          [Say(<<"AUDIT">>, "REPLY", None, d) EXCEPT !.patch = TRUE]}
         : d \in Threads}
=============================================================================
