-------------------------- MODULE MCDaemonElection --------------------------
(* The instances of DaemonElection that TLC checks. *)
EXTENDS DaemonElection, TLC

Alike == Permutations(Daemons) \cup Permutations(Clients)
=============================================================================
