---------------------------- MODULE DurableQueue ----------------------------
(***************************************************************************)
(* What the queue of plays promises its callers                            *)
(* (src/refrain/scrobble_queue.py): plays in the order they came, each     *)
(* once, the newest Cap of them, and beside them the rows written down for *)
(* a restart.  Every change either reaches those rows as well, or leaves   *)
(* them as they were or already changed and is known to have failed; while *)
(* no change is known to have failed, a restart loses nothing but the      *)
(* plays whose rows cannot be read back.                                   *)
(***************************************************************************)
EXTENDS Integers, Sequences, Rows

CONSTANTS
  Plays, Accounts, NoAccount, Cap, BatchSize,
  Broken     \* plays whose rows do not survive being read back

VARIABLES
  queue,   \* the rows that wait
  saved,   \* the rows written down, the queue at their end
  stale    \* that may not be so, and the queue knows it

Row == [play : Plays, account : Accounts \cup {NoAccount}]

LastOf(s) ==
  LET over == IF Len(s) > Cap THEN Len(s) - Cap ELSE 0
  IN  [i \in 1 .. Len(s) - over |-> s[i + over]]

(* A change of the queue is written down: as the whole queue, as one row   *)
(* more, or not at all, and whenever that leaves anything but the queue    *)
(* behind, it is known.                                                    *)
Store(new, longer) ==
  /\ queue' = new
  /\ saved' \in {saved, new, longer}
  /\ stale' \in BOOLEAN
  /\ stale' \/ LastOf(saved') = new

Put(row) ==
  /\ \A i \in 1 .. Len(queue) : queue[i].play # row.play
  /\ Store(LastOf(Append(queue, row)), Append(saved, row))

(* The rows of other accounts go.                                          *)
Restrict(account) ==
  LET kept == {i \in 1 .. Len(queue) : queue[i].account \in {account, NoAccount}}
  IN  \E n \in 0 .. Len(queue) : \E f \in Listings(n, kept) :
        Store([i \in 1 .. n |-> queue[f[i]]], saved)

(* A batch leaves the front.                                               *)
Remove(n) == Store(After(queue, n), saved)

(* A process starts with the rows it can make out of those written down,   *)
(* and knows if these are not all, or cannot read them.                    *)
Whole(s) == {i \in 1 .. Len(s) : s[i].play \notin Broken}

Restart ==
  /\ UNCHANGED saved
  /\ stale' \in BOOLEAN
  /\ \/ \E n \in 0 .. Len(saved) : \E f \in Listings(n, Whole(saved)) :
          /\ queue' = LastOf([i \in 1 .. n |-> saved[f[i]]])
          /\ stale' \/ n = Len(saved)
     \/ queue' = <<>> /\ stale'

(* Someone removes the saved rows.                                         *)
Lose == UNCHANGED queue /\ saved' = <<>> /\ stale' = TRUE

Init ==
  /\ saved \in Seq(Row)
  /\ stale \in BOOLEAN
  /\ \E n \in 0 .. Len(saved) : \E f \in Listings(n, Whole(saved)) :
       /\ queue = LastOf([i \in 1 .. n |-> saved[f[i]]])
       /\ stale \/ n = Len(saved)

Next ==
  \/ \E row \in Row : Put(row)
  \/ \E account \in Accounts : Restrict(account)
  \/ \E n \in 0 .. BatchSize : Remove(n)
  \/ Restart
  \/ Lose

Spec == Init /\ [][Next]_<<queue, saved, stale>>
=============================================================================
