---------------------------- MODULE Rows_proofs ----------------------------
(* What the operators on sequences of queued rows give.                    *)
EXTENDS Rows, TLAPS

(* A batch is the front of the queue, in its order.                        *)
LEMMA PrefixProperties ==
  ASSUME NEW S, NEW s \in Seq(S), NEW n \in Nat
  PROVE  /\ Prefix(s, n) \in Seq(S)
         /\ Len(Prefix(s, n)) = Smaller(n, Len(s))
         /\ \A i \in 1 .. Smaller(n, Len(s)) : Prefix(s, n)[i] = s[i]
  BY DEF Prefix, Smaller

(* What is behind a batch is no longer than the queue, ...                 *)
LEMMA AfterProperties ==
  ASSUME NEW S, NEW s \in Seq(S), NEW n \in Nat
  PROVE  /\ After(s, n) \in Seq(S)
         /\ Len(After(s, n)) \in Nat
         /\ Len(After(s, n)) <= Len(s)
  BY DEF After, Smaller

(* ... holds every row past the batch, and no other.                       *)
LEMMA AfterKeeps ==
  ASSUME NEW S, NEW s \in Seq(S), NEW n \in Nat, n <= Len(s)
  PROVE  /\ \A i \in n + 1 .. Len(s) : \E j \in DOMAIN After(s, n) : After(s, n)[j] = s[i]
         /\ \A j \in DOMAIN After(s, n) : \E i \in n + 1 .. Len(s) : After(s, n)[j] = s[i]
<1>1. Len(s) \in Nat /\ After(s, n) = [i \in 1 .. Len(s) - n |-> s[i + n]]
  BY DEF After, Smaller
<1>2. ASSUME NEW i \in n + 1 .. Len(s)
      PROVE  \E j \in DOMAIN After(s, n) : After(s, n)[j] = s[i]
  <2>1. i - n \in 1 .. Len(s) - n /\ (i - n) + n = i
    BY <1>1
  <2>2. i - n \in DOMAIN After(s, n) /\ After(s, n)[i - n] = s[i]
    BY <1>1, <2>1
  <2>3. QED
    BY <2>2
<1>3. ASSUME NEW j \in DOMAIN After(s, n)
      PROVE  \E i \in n + 1 .. Len(s) : After(s, n)[j] = s[i]
  <2>1. j \in 1 .. Len(s) - n /\ j + n \in n + 1 .. Len(s)
    BY <1>1
  <2>2. QED
    BY <1>1, <2>1
<1>4. QED
  BY <1>2, <1>3

(* Where only some positions stay, every row that stays stood at one of    *)
(* them, and every one of them stays.                                      *)
LEMMA ListingProperties ==
  ASSUME NEW S, NEW s \in Seq(S), NEW mine \in SUBSET DOMAIN s,
         NEW n \in Nat, NEW f \in Listings(n, mine)
  PROVE  LET t == [i \in 1 .. n |-> s[f[i]]]
         IN  /\ t \in Seq(S)
             /\ \A j \in DOMAIN t : \E i \in mine : t[j] = s[i]
             /\ \A i \in mine : \E j \in DOMAIN t : t[j] = s[i]
<1> DEFINE t == [i \in 1 .. n |-> s[f[i]]]
<1>1. f \in [1 .. n -> mine] /\ \A x \in mine : \E i \in 1 .. n : f[i] = x
  BY DEF Listings
<1>2. \A i \in 1 .. n : f[i] \in mine /\ s[f[i]] \in S
  BY <1>1
<1>3. t \in Seq(S)
  BY <1>2
<1>4. DOMAIN t = 1 .. n
  OBVIOUS
<1>5. QED
  BY <1>1, <1>2, <1>3, <1>4
=============================================================================
