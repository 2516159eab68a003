---------------------------- MODULE MCDoorbells ----------------------------
(* An instance for TLC: a message for us, and one for another agent.        *)
EXTENDS Doorbells

Row(verified, ours) ==
  [verified |-> verified, direct |-> FALSE, broadcast |-> FALSE, ours |-> ours]
MCWire == {Row(TRUE, TRUE), Row(TRUE, FALSE)}
=============================================================================
