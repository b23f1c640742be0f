---------------------- MODULE ScrobbleQueue_refinement ----------------------
(***************************************************************************)
(* The scrobble queue keeps what DurableQueue promises, for every cap,     *)
(* every batch size and every set of plays: each of its steps is a step of *)
(* the promise, or changes nothing the promise speaks of.                  *)
(***************************************************************************)
EXTENDS ScrobbleQueue_proofs

stale == fileDirty \/ ~fileThere
shown == <<items, rows, stale>>

BatchWithinBounds == Len(batch) <= BatchSize

RInv == IInv /\ KeysCountItems /\ BatchWithinBounds

(* No drain takes more rows than its batch size.                           *)
LEMMA BatchStep == IInv /\ BatchWithinBounds /\ [Next]_vars => BatchWithinBounds'
<1> SUFFICES ASSUME IInv, BatchWithinBounds, [Next]_vars PROVE BatchWithinBounds'
  OBVIOUS
<1>1. batch' = batch \/ batch' = <<>> \/ batch' = Prefix(items, BatchSize)
  BY Zenon DEF Next, vars, Enqueue, DropOtherAccounts, TakeBatch, DrainDone, SubmitReturns,
     SubmitRaises, RemoveSubmitted, Restart, FileVanishes, drainer
<1>2. Len(<<>>) <= BatchSize
  BY QueueAssumption
<1>3. Len(Prefix(items, BatchSize)) <= BatchSize
  <2>1. items \in Seq(Item) /\ BatchSize \in Nat /\ Len(items) \in Nat
    BY QueueAssumption DEF IInv, TypeOK
  <2>2. Len(Prefix(items, BatchSize)) = Smaller(BatchSize, Len(items))
    BY <2>1, PrefixProperties
  <2> QED  BY <2>1, <2>2 DEF Smaller
<1> QED  BY <1>1, <1>2, <1>3 DEF BatchWithinBounds

LEMMA RInvariance == Spec => []RInv
<1>1. Init => BatchWithinBounds
  BY QueueAssumption DEF Init, BatchWithinBounds
<1>2. Spec => []BatchWithinBounds
  BY <1>1, Invariance, BatchStep, PTL DEF Spec
<1> QED  BY <1>2, Invariance, KeysStayInStep, PTL DEF RInv

----------------------------------------------------------------------------
(* The file, seen as the rows a restart has to load.                       *)

LEMMA LastOfIsNewest == \A s : Promise!LastOf(s) = Newest(s)
  BY Zenon DEF Promise!LastOf, Newest

(* A rewrite of the whole file stores the queue, or is known to have       *)
(* failed.                                                                 *)
LEMMA SaveStores ==
  ASSUME NEW new \in Seq(Item), Len(new) <= MaxEntries, items' = new, Save(new), NEW longer
  PROVE  Promise!Store(new, longer)
<1>1. Newest(new) = new
  BY NewestProperties
<1>2. CASE SaveSucceeds(new)
  <2>1. rows' = new /\ fileDirty' = FALSE /\ fileThere' = TRUE
    BY <1>2, Zenon DEF SaveSucceeds
  <2>2. Promise!LastOf(rows') = new /\ (fileDirty' \/ ~fileThere') = FALSE
    BY <1>1, <2>1, LastOfIsNewest, Zenon
  <2> QED  BY <2>1, <2>2, Zenon DEF Promise!Store
<1>3. CASE SaveFails
  <2>1. rows' = rows /\ (fileDirty' \/ ~fileThere') = TRUE
    BY <1>3, Zenon DEF SaveFails, disk
  <2> QED  BY <2>1, Zenon DEF Promise!Store
<1> QED  BY <1>2, <1>3 DEF Save

(* So does the append of one row to a file known to hold the queue.        *)
LEMMA AppendStores ==
  ASSUME IInv, NEW it \in Item, items' = Newest(Append(items, it)),
         AppendRow(it, Newest(Append(items, it)))
  PROVE  Promise!Store(Newest(Append(items, it)), Append(rows, it))
<1> DEFINE new == Newest(Append(items, it))
           longer == Append(rows, it)
<1>1. items \in Seq(Item) /\ rows \in Seq(Item) /\ Append(items, it) \in Seq(Item)
  BY DEF IInv, TypeOK
<1>2. new \in Seq(Item) /\ Len(new) <= MaxEntries
  BY <1>1, NewestProperties
<1>3. CASE NeedsRewrite /\ Save(new)
  <2> HIDE DEF new
  <2>1. items' = new
    BY DEF new
  <2>2. Promise!Store(new, longer)
    BY <1>2, <1>3, <2>1, SaveStores, Zenon
  <2> QED  BY <2>2 DEF new
<1>4. CASE ~NeedsRewrite /\ (AppendSucceeds(it) \/ AppendFails(it))
  <2>1. ~fileDirty /\ fileThere
    BY <1>4, Zenon DEF NeedsRewrite
  <2>2. Newest(rows) = items
    BY <2>1, Zenon DEF IInv, FileInv, FileHoldsQueue
  <2>3. Newest(longer) = new
    BY <1>1, <2>2, NewestOfAppend
  <2>6. items' = new
    OBVIOUS
  <2>7. AppendSucceeds(it) => rows' = longer /\ fileDirty' = fileDirty /\ fileThere' = fileThere
    BY Zenon DEF AppendSucceeds
  <2>8. AppendFails(it) => (rows' = rows \/ rows' = longer) /\ fileDirty' = TRUE
    BY Zenon DEF AppendFails
  <2> HIDE DEF new, longer
  <2>4. CASE AppendSucceeds(it)
    <3>a. rows' = longer /\ fileDirty' = fileDirty /\ fileThere' = fileThere
      BY <2>4, <2>7
    <3>b. ~fileDirty' /\ fileThere'
      BY <2>1, <3>a
    <3>1. rows' = longer /\ (fileDirty' \/ ~fileThere') = FALSE
      BY <3>a, <3>b
    <3>2. Promise!LastOf(rows') = new
      BY <2>3, <3>1, LastOfIsNewest, Zenon
    <3>3. Promise!Store(new, longer)
      BY <2>6, <3>1, <3>2, Zenon DEF Promise!Store
    <3> QED  BY <3>3 DEF new, longer
  <2>5. CASE AppendFails(it)
    <3>1. rows' \in {rows, longer} /\ (fileDirty' \/ ~fileThere') = TRUE
      BY <2>5, <2>8, Zenon
    <3>2. Promise!Store(new, longer)
      BY <2>6, <3>1, Zenon DEF Promise!Store
    <3> QED  BY <3>2 DEF new, longer
  <2> QED  BY <1>4, <2>4, <2>5
<1> QED  BY <1>3, <1>4, Zenon DEF AppendRow

(* What is read back is a listing of the rows that survive.                *)
LEMMA ParsedSurvives ==
  ASSUME NEW read \in Parsed(rows), rows \in Seq(Item)
  PROVE  \E n \in 0 .. Len(rows) : \E f \in Promise!Listings(n, Promise!Whole(rows)) :
           read = [i \in 1 .. n |-> rows[f[i]]] /\ Len(read) = n
<1>1. PICK n \in 0 .. Len(rows) :
        \E f \in Listings(n, Parsing(rows)) : read = [i \in 1 .. n |-> rows[f[i]]]
  BY Zenon DEF Parsed
<1>2. PICK f \in Listings(n, Parsing(rows)) : read = [i \in 1 .. n |-> rows[f[i]]]
  BY <1>1
<1>3. f \in Promise!Listings(n, Promise!Whole(rows))
  BY <1>2, Zenon DEF Promise!Listings, Listings, Promise!Whole, Parsing
<1>4. Len(read) = n
  BY <1>1, <1>2
<1> QED  BY <1>1, <1>2, <1>3, <1>4, Zenon

----------------------------------------------------------------------------
(* The steps.                                                              *)

LEMMA InitPromise == Init => Promise!Init
<1> SUFFICES ASSUME Init PROVE Promise!Init
  OBVIOUS
<1>1. rows \in Seq(Item) /\ (fileDirty \/ ~fileThere) \in BOOLEAN /\ rows \in Seq(Promise!Row)
  BY InitIInv DEF IInv, TypeOK, Promise!Row, Item
<1>2. PICK read \in Parsed(rows) :
        items = Newest(read) /\ fileDirty = (torn \/ Len(read) < Len(rows))
  BY Zenon DEF Init
<1>3. PICK n \in 0 .. Len(rows) : \E f \in Promise!Listings(n, Promise!Whole(rows)) :
        read = [i \in 1 .. n |-> rows[f[i]]] /\ Len(read) = n
  BY <1>1, <1>2, ParsedSurvives
<1>4. PICK f \in Promise!Listings(n, Promise!Whole(rows)) :
        read = [i \in 1 .. n |-> rows[f[i]]] /\ Len(read) = n
  BY <1>3
<1>5. items = Promise!LastOf([i \in 1 .. n |-> rows[f[i]]])
  BY <1>2, <1>4, LastOfIsNewest, Zenon
<1>6. n = Len(rows) \/ n < Len(rows)
  BY <1>1, <1>3
<1>7. (fileDirty \/ ~fileThere) \/ n = Len(rows)
  BY <1>2, <1>4, <1>6, Zenon
<1> QED  BY <1>1, <1>3, <1>4, <1>5, <1>7, Zenon DEF Promise!Init

LEMMA EnqueuePuts ==
  ASSUME RInv, NEW it \in Item, Enqueue(it)
  PROVE  \E row \in Promise!Row : Promise!Put(row)
<1>1. /\ keys[it.play] = 0 /\ items' = Newest(Append(items, it))
      /\ AppendRow(it, Newest(Append(items, it)))
  BY Zenon DEF Enqueue
<1>2. Promise!Store(Newest(Append(items, it)), Append(rows, it))
  BY <1>1, AppendStores, Zenon DEF RInv
<1>3. items \in Seq(Item) /\ it.play \in Plays
  BY DEF RInv, IInv, TypeOK, Item
<1>4. CountOf(items, it.play) = 0
  BY <1>1, <1>3 DEF RInv, KeysCountItems, KeysOf
<1>5. Carriers(items, it.play) = {}
  BY <1>3, <1>4, CarriersCount, FS_EmptySet
<1>6. \A i \in 1 .. Len(items) : items[i].play # it.play
  BY <1>5, Zenon DEF Carriers
<1>7. Promise!LastOf(Append(items, it)) = Newest(Append(items, it))
  BY Zenon DEF Promise!LastOf, Newest
<1>8. Promise!Put(it)
  BY <1>2, <1>6, <1>7, Zenon DEF Promise!Put
<1> QED  BY <1>8, Zenon DEF Promise!Row, Item

LEMMA DropRestricts ==
  ASSUME RInv, NEW account \in Accounts, DropOtherAccounts(account)
  PROVE  Promise!Restrict(account) \/ UNCHANGED shown
<1>1. CASE UNCHANGED <<memory, disk, belief>>
  BY <1>1 DEF memory, disk, belief, shown, stale
<1>2. ASSUME NEW n \in 0 .. Len(items), NEW f \in Listings(n, MineAt(account)),
             items' = [i \in 1 .. n |-> items[f[i]]], Save(items')
      PROVE  Promise!Restrict(account)
  <2>1. items \in Seq(Item) /\ Len(items) <= MaxEntries /\ Len(items) \in Nat
    BY DEF RInv, IInv, TypeOK
  <2>2. MineAt(account) \in SUBSET DOMAIN items /\ n \in Nat
    BY <2>1 DEF MineAt
  <2>3. items' \in Seq(Item) /\ Len(items') <= MaxEntries
    <3>1. items' \in Seq(Item)
      BY <1>2, <2>1, <2>2, ListingProperties
    <3>2. Len(items') = n
      BY <1>2, <2>2
    <3> QED  BY <2>1, <3>1, <3>2, QueueAssumption
  <2>4. Promise!Store(items', rows)
    BY <1>2, <2>3, SaveStores, Zenon
  <2>5. f \in Promise!Listings(n, {i \in 1 .. Len(items) :
                                     items[i].account \in {account, NoAccount}})
    BY Zenon DEF Promise!Listings, Listings, MineAt, Mine
  <2>6. Promise!Store([i \in 1 .. n |-> items[f[i]]], rows)
    BY <1>2, <2>4, Zenon
  <2> QED  BY <2>5, <2>6, Zenon DEF Promise!Restrict
<1> QED  BY <1>1, <1>2, Zenon DEF DropOtherAccounts

LEMMA RemovalRemoves ==
  ASSUME RInv, RemoveSubmitted
  PROVE  \E n \in 0 .. BatchSize : Promise!Remove(n)
<1>1. items' = After(items, Len(batch)) /\ Save(items')
  BY Zenon DEF RemoveSubmitted
<1>2. /\ items \in Seq(Item) /\ Len(items) <= MaxEntries /\ Len(items) \in Nat
      /\ batch \in Seq(Item) /\ Len(batch) \in Nat
  BY DEF RInv, IInv, TypeOK
<1>3. Len(batch) \in 0 .. BatchSize
  BY <1>2, QueueAssumption DEF RInv, BatchWithinBounds
<1>4. items' \in Seq(Item) /\ Len(items') <= MaxEntries
  <2>1. /\ After(items, Len(batch)) \in Seq(Item) /\ Len(After(items, Len(batch))) \in Nat
        /\ Len(After(items, Len(batch))) <= Len(items)
    BY <1>2, AfterProperties
  <2> QED  BY <1>1, <1>2, <2>1, QueueAssumption
<1>5. Promise!Store(items', rows)
  BY <1>1, <1>4, SaveStores, Zenon
<1>6. Promise!After(items, Len(batch)) = After(items, Len(batch))
  BY Zenon DEF Promise!After, Promise!Smaller, After, Smaller
<1>7. Promise!Remove(Len(batch))
  BY <1>1, <1>5, <1>6, Zenon DEF Promise!Remove
<1> QED  BY <1>3, <1>7, Zenon

LEMMA RestartRestarts ==
  ASSUME RInv, Restart
  PROVE  Promise!Restart
<1>1. rows \in Seq(Item) /\ rows' = rows /\ (fileDirty' \/ ~fileThere') \in BOOLEAN
  <2>1. RInv'
    BY KeysStep, BatchStep, RestartStep, Zenon DEF RInv, Next
  <2>2. fileDirty' \in BOOLEAN /\ fileThere' \in BOOLEAN
    BY <2>1, Zenon DEF RInv, IInv, TypeOK
  <2>3. rows \in Seq(Item) /\ rows' = rows
    BY Zenon DEF RInv, IInv, TypeOK, Restart, disk
  <2> QED  BY <2>2, <2>3, Zenon
<1>2. CASE LoadRows
  <2>1. PICK read \in Parsed(rows) :
          items' = Newest(read) /\ fileDirty' = (torn \/ Len(read) < Len(rows))
    BY <1>2, Zenon DEF LoadRows
  <2>2. PICK n \in 0 .. Len(rows) : \E f \in Promise!Listings(n, Promise!Whole(rows)) :
          read = [i \in 1 .. n |-> rows[f[i]]] /\ Len(read) = n
    BY <1>1, <2>1, ParsedSurvives
  <2>3. PICK f \in Promise!Listings(n, Promise!Whole(rows)) :
          read = [i \in 1 .. n |-> rows[f[i]]] /\ Len(read) = n
    BY <2>2
  <2>4. items' = Promise!LastOf([i \in 1 .. n |-> rows[f[i]]])
    BY <2>1, <2>3, LastOfIsNewest, Zenon
  <2>5. n = Len(rows) \/ n < Len(rows)
    BY <1>1, <2>2
  <2>6. (fileDirty' \/ ~fileThere') \/ n = Len(rows)
    BY <2>1, <2>3, <2>5, Zenon
  <2> QED  BY <1>1, <2>2, <2>3, <2>4, <2>6, Zenon DEF Promise!Restart
<1>3. CASE StartEmpty \/ FailToStart
  <2>1. items' = <<>> /\ (fileDirty' \/ ~fileThere') = TRUE
    BY <1>3, Zenon DEF StartEmpty, FailToStart
  <2> QED  BY <1>1, <2>1, Zenon DEF Promise!Restart
<1> QED  BY <1>2, <1>3, Zenon DEF Restart

LEMMA VanishingLoses == FileVanishes => Promise!Lose
  BY Zenon DEF FileVanishes, memory, Promise!Lose

LEMMA StepPromise == RInv /\ [Next]_vars => [Promise!Next]_shown
<1> SUFFICES ASSUME RInv, [Next]_vars PROVE Promise!Next \/ UNCHANGED shown
  OBVIOUS
<1>1. ASSUME NEW it \in Item, Enqueue(it)
      PROVE  Promise!Next
  BY <1>1, EnqueuePuts, Zenon DEF Promise!Next
<1>2. ASSUME NEW account \in Accounts, DropOtherAccounts(account)
      PROVE  Promise!Next \/ UNCHANGED shown
  BY <1>2, DropRestricts, Zenon DEF Promise!Next
<1>3. CASE RemoveSubmitted
  BY <1>3, RemovalRemoves, Zenon DEF Promise!Next
<1>4. CASE Restart
  BY <1>4, RestartRestarts, Zenon DEF Promise!Next
<1>5. CASE FileVanishes
  BY <1>5, VanishingLoses, Zenon DEF Promise!Next
<1>6. CASE TakeBatch \/ DrainDone \/ SubmitReturns \/ SubmitRaises \/ UNCHANGED vars
  BY <1>6 DEF TakeBatch, DrainDone, SubmitReturns, SubmitRaises, vars, memory, disk, belief,
              shown, stale
<1> QED  BY <1>1, <1>2, <1>3, <1>4, <1>5, <1>6, Zenon DEF Next

(* Everything the queue and its file do is allowed by the promise: a play  *)
(* is queued once, rows only go as a batch, as another account's or past   *)
(* the cap, and what a restart has to load differs from the queue only     *)
(* while a change is known to have failed.                                 *)
THEOREM QueueKeepsItsPromise == Spec => KeepsPromise
<1>1. RInv /\ [Next]_vars => [Promise!Next]_<<items, rows, fileDirty \/ ~fileThere>>
  BY StepPromise DEF shown, stale
<1> QED  BY <1>1, InitPromise, RInvariance, PTL DEF Spec, KeepsPromise, Promise!Spec
=============================================================================
