---------------------------- MODULE MCServing ----------------------------
(* An instance for TLC: a client asks for the news one at a time, and looks *)
(* at everything without marking it.                                        *)
EXTENDS Serving

Inputs(mark, full, limit) == [mark |-> mark, full |-> full, limit |-> limit]
MCRequests == {Inputs(TRUE, FALSE, 1), Inputs(FALSE, TRUE, 2)}
=============================================================================
