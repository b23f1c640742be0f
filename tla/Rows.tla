-------------------------------- MODULE Rows --------------------------------
(***************************************************************************)
(* Sequences of queued rows (src/refrain/scrobble_queue.py): the batch at  *)
(* the front, what is left without it, and what is left when rows go from  *)
(* anywhere.                                                               *)
(***************************************************************************)
EXTENDS Integers, Sequences

Smaller(m, n) == IF m < n THEN m ELSE n

(* The first n rows, or all there are.                                     *)
Prefix(s, n) == [i \in 1 .. Smaller(n, Len(s)) |-> s[i]]

(* The rows behind those.                                                  *)
After(s, n) == [i \in 1 .. Len(s) - Smaller(n, Len(s)) |-> s[i + Smaller(n, Len(s))]]

(* The order-preserving ways to list the positions S as n of them: what
   stays of s where only the rows at S stay is [i \in 1 .. n |-> s[f[i]]]
   for the one f there is, and the one n.                                  *)
Listings(n, S) ==
  {f \in [1 .. n -> S] : /\ \A i, j \in 1 .. n : i < j => f[i] < f[j]
                         /\ \A x \in S : \E i \in 1 .. n : f[i] = x}
=============================================================================
