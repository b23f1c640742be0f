------------------------- MODULE MCScrobbleDelivery -------------------------
(* Instances of ScrobbleDelivery for TLC: two accounts, one of which may be
   connected anew under a second session.                                  *)
EXTENDS ScrobbleDelivery, TLC

CONSTANTS anna1, anna2, ben, p1, p2, p3

Sessions == anna1 :> "anna" @@ anna2 :> "anna" @@ ben :> "ben"
TwoAccounts == anna1 :> "anna" @@ ben :> "ben"

Symmetry == Permutations(Plays)
=============================================================================
