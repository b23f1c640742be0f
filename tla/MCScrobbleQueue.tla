-------------------------- MODULE MCScrobbleQueue --------------------------
(* Small instances of ScrobbleQueue.                                       *)
EXTENDS ScrobbleQueue, TLC

Symmetry == Permutations(Plays)
============================================================================
