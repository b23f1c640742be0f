------------------------ MODULE ScrobbleQueue_proofs ------------------------
(***************************************************************************)
(* What holds of the scrobble queue for every cap, every batch size and    *)
(* every set of plays.                                                     *)
(***************************************************************************)
EXTENDS ScrobbleQueue, Rows_proofs, SequenceTheorems, FiniteSetTheorems, FunctionTheorems, TLAPS

(* The slack the file is allowed past the cap is a positive number.        *)
LEMMA SlackType == Slack \in Nat \ {0}
  BY QueueAssumption DEF Slack

(* Trimming keeps a sequence of rows within the cap, and gives the last of *)
(* them in their order.                                                    *)
LEMMA NewestProperties ==
  ASSUME NEW S, NEW s \in Seq(S)
  PROVE  /\ Newest(s) \in Seq(S)
         /\ Len(Newest(s)) \in Nat
         /\ Len(Newest(s)) <= MaxEntries
         /\ Len(s) <= MaxEntries => Newest(s) = s
         /\ Len(s) > MaxEntries =>
              /\ Len(Newest(s)) = MaxEntries
              /\ \A i \in 1 .. MaxEntries :
                   Newest(s)[i] = s[i + (Len(s) - MaxEntries)]
<1>1. Len(s) \in Nat /\ \A i \in 1 .. Len(s) : s[i] \in S
  OBVIOUS
<1>2. CASE Len(s) <= MaxEntries
  <2>1. Newest(s) = [i \in 1 .. Len(s) |-> s[i]]
    BY <1>1, <1>2, QueueAssumption DEF Newest
  <2>2. Newest(s) = s
    BY <2>1
  <2>3. QED
    BY <1>1, <1>2, <2>2, QueueAssumption
<1>3. CASE Len(s) > MaxEntries
  <2> DEFINE over == Len(s) - MaxEntries
  <2>1. Newest(s) = [i \in 1 .. MaxEntries |-> s[i + over]]
    BY <1>1, <1>3, QueueAssumption DEF Newest
  <2>2. \A i \in 1 .. MaxEntries : s[i + over] \in S
    BY <1>1, <1>3, QueueAssumption
  <2>3. Newest(s) \in Seq(S) /\ Len(Newest(s)) = MaxEntries
    BY <2>1, <2>2, QueueAssumption
  <2>4. QED
    BY <1>1, <1>3, <2>1, <2>3, QueueAssumption
<1>4. QED
  BY <1>1, <1>2, <1>3, QueueAssumption

(* Two sequences past the cap with the same end are trimmed to the same.   *)
LEMMA NewestSameEnd ==
  ASSUME NEW S, NEW u \in Seq(S), NEW v \in Seq(S),
         NEW m \in Nat \ {0}, NEW n \in Nat \ {0},
         Len(u) = MaxEntries + m, Len(v) = MaxEntries + n,
         \A i \in 1 .. MaxEntries : u[i + m] = v[i + n]
  PROVE  Newest(u) = Newest(v)
<1>0. /\ Len(u) > MaxEntries /\ Len(u) - MaxEntries = m
      /\ Len(v) > MaxEntries /\ Len(v) - MaxEntries = n
  BY QueueAssumption
<1>1. /\ Newest(u) \in Seq(S) /\ Len(Newest(u)) = MaxEntries
      /\ \A i \in 1 .. MaxEntries : Newest(u)[i] = u[i + m]
  BY <1>0, NewestProperties
<1>2. /\ Newest(v) \in Seq(S) /\ Len(Newest(v)) = MaxEntries
      /\ \A i \in 1 .. MaxEntries : Newest(v)[i] = v[i + n]
  BY <1>0, NewestProperties
<1>3. \A i \in 1 .. Len(Newest(u)) : Newest(u)[i] = Newest(v)[i]
  BY <1>1, <1>2
<1>4. QED
  BY <1>1, <1>2, <1>3, SeqEqual

LEMMA OverflowProperties ==
  ASSUME NEW S, NEW s \in Seq(S)
  PROVE  /\ Overflow(s) \in Seq(S)
         /\ Len(Overflow(s)) = IF Len(s) > MaxEntries THEN Len(s) - MaxEntries ELSE 0
  BY QueueAssumption DEF Overflow

(* Trimming before or after a row is appended gives the same queue: why    *)
(* the file may keep rows that memory has dropped.                         *)
LEMMA NewestOfAppend ==
  ASSUME NEW S, NEW s \in Seq(S), NEW e \in S
  PROVE  Newest(Append(Newest(s), e)) = Newest(Append(s, e))
<1> DEFINE t == Newest(s)
<1>1. t \in Seq(S) /\ Append(t, e) \in Seq(S) /\ Append(s, e) \in Seq(S)
  BY NewestProperties
<1>2. CASE Len(s) <= MaxEntries
  BY <1>2, NewestProperties
<1>3. CASE Len(s) > MaxEntries
  <2> DEFINE d == Len(s) - MaxEntries
             u == Append(t, e)
             v == Append(s, e)
  <2>1. d \in Nat \ {0} /\ Len(s) = MaxEntries + d /\ Len(s) \in Nat
    BY <1>3, QueueAssumption
  <2>2. /\ Len(t) = MaxEntries
        /\ \A i \in 1 .. MaxEntries : t[i] = s[i + d]
    BY <1>3, NewestProperties
  <2> HIDE DEF t, d
  <2>3. Len(u) = MaxEntries + 1 /\ Len(v) = MaxEntries + (d + 1)
    BY <1>1, <2>1, <2>2, QueueAssumption
  <2>4. ASSUME NEW i \in 1 .. MaxEntries
        PROVE  u[i + 1] = v[i + (d + 1)]
    <3>1. CASE i < MaxEntries
      <4>1. u[i + 1] = t[i + 1] /\ i + 1 \in 1 .. MaxEntries
        BY <3>1, <1>1, <2>2, QueueAssumption
      <4>2. v[i + (d + 1)] = s[(i + 1) + d]
        BY <3>1, <1>1, <2>1, QueueAssumption
      <4>3. QED
        BY <4>1, <4>2, <2>2
    <3>2. CASE i = MaxEntries
      <4>1. i + 1 = Len(t) + 1 /\ i + (d + 1) = Len(s) + 1
        BY <3>2, <2>1, <2>2, QueueAssumption
      <4>2. u[Len(t) + 1] = e /\ v[Len(s) + 1] = e
        BY <1>1
      <4> HIDE DEF u, v
      <4>3. u[i + 1] = e /\ v[i + (d + 1)] = e
        BY <4>1, <4>2
      <4>4. QED
        BY <4>3
    <3>3. i < MaxEntries \/ i = MaxEntries
      BY QueueAssumption
    <3> HIDE DEF u, v
    <3>4. QED
      BY <3>1, <3>2, <3>3
  <2> HIDE DEF u, v
  <2>5. u \in Seq(S) /\ v \in Seq(S)
    BY <1>1 DEF u, v
  <2>6. Newest(u) = Newest(v)
    <3>1. d + 1 \in Nat \ {0} /\ 1 \in Nat \ {0}
      BY <2>1
    <3>2. QED
      BY <3>1, <2>1, <2>3, <2>4, <2>5, NewestSameEnd
  <2>7. QED
    BY <2>6 DEF t, u, v
<1>4. QED
  BY <1>2, <1>3, QueueAssumption

(* An order-preserving map of 1 .. n into itself moves nothing: i numbers  *)
(* lie up to i and are mapped up to f[i], and so from i on.                *)
LEMMA IncreasingIsIdentity ==
  ASSUME NEW n \in Nat, NEW f \in [1 .. n -> 1 .. n],
         \A i, j \in 1 .. n : i < j => f[i] < f[j]
  PROVE  \A i \in 1 .. n : f[i] = i
<1> SUFFICES ASSUME NEW i \in 1 .. n PROVE f[i] = i
  OBVIOUS
<1>1. i \in Nat /\ f[i] \in 1 .. n
  OBVIOUS
<1>2. \A a, b \in 1 .. n : f[a] = f[b] => a = b
  OBVIOUS
<1>3. i <= f[i]
  <2> DEFINE S == 1 .. i
             T == 1 .. f[i]
             g == [k \in S |-> f[k]]
  <2>1. ASSUME NEW k \in S PROVE k \in 1 .. n /\ f[k] \in T
    <3>1. k \in 1 .. n /\ (k = i \/ k < i)
      BY <1>1
    <3>2. f[k] \in 1 .. n /\ (f[k] = f[i] \/ f[k] < f[i])
      BY <3>1
    <3> QED  BY <1>1, <3>1, <3>2
  <2>2. g \in [S -> T] /\ \A a, b \in S : g[a] = g[b] => a = b
    BY <1>2, <2>1
  <2>3. /\ IsFiniteSet(T) /\ Cardinality(T) = f[i] /\ Cardinality(S) = i
    BY <1>1, FS_Interval
  <2> HIDE DEF S, T, g
  <2>4. g \in Injection(S, T)
    BY <2>2, Fun_IsInj
  <2> QED  BY <2>3, <2>4, FS_Injection
<1>4. f[i] <= i
  <2> DEFINE S == i .. n
             T == f[i] .. n
             g == [k \in S |-> f[k]]
  <2>1. ASSUME NEW k \in S PROVE k \in 1 .. n /\ f[k] \in T
    <3>1. k \in 1 .. n /\ (k = i \/ i < k)
      BY <1>1
    <3>2. f[k] \in 1 .. n /\ (f[k] = f[i] \/ f[i] < f[k])
      BY <3>1
    <3> QED  BY <1>1, <3>1, <3>2
  <2>2. g \in [S -> T] /\ \A a, b \in S : g[a] = g[b] => a = b
    BY <1>2, <2>1
  <2>3. /\ IsFiniteSet(T) /\ Cardinality(T) = n - f[i] + 1 /\ Cardinality(S) = n - i + 1
    BY <1>1, FS_Interval
  <2> HIDE DEF S, T, g
  <2>4. g \in Injection(S, T)
    BY <2>2, Fun_IsInj
  <2>5. n - i + 1 <= n - f[i] + 1
    BY <2>3, <2>4, FS_Injection
  <2> QED  BY <1>1, <2>5
<1> QED  BY <1>1, <1>3, <1>4

(* What is read back of a file is made of its rows, and is all of them if  *)
(* it is as many.                                                          *)
LEMMA ParsedProperties ==
  ASSUME NEW s \in Seq(Item), NEW read \in Parsed(s)
  PROVE  /\ read \in Seq(Item) /\ Len(read) \in Nat /\ Len(read) <= Len(s)
         /\ ~(Len(read) < Len(s)) => read = s
<1>a. PICK n \in 0 .. Len(s) :
        \E f \in Listings(n, Parsing(s)) : read = [i \in 1 .. n |-> s[f[i]]]
  BY Zenon DEF Parsed
<1>1. PICK f \in Listings(n, Parsing(s)) : read = [i \in 1 .. n |-> s[f[i]]]
  BY <1>a
<1>2. /\ n \in Nat /\ Len(s) \in Nat /\ n <= Len(s) /\ Parsing(s) \subseteq 1 .. Len(s)
      /\ f \in [1 .. n -> Parsing(s)] /\ \A i, j \in 1 .. n : i < j => f[i] < f[j]
  BY <1>a, <1>1 DEF Listings, Parsing
<1>3. \A i \in 1 .. n : f[i] \in 1 .. Len(s) /\ s[f[i]] \in Item
  BY <1>2
<1>4. read \in Seq(Item) /\ Len(read) = n
  BY <1>1, <1>2, <1>3
<1>5. ASSUME n = Len(s)
      PROVE  read = s
  <2>1. f \in [1 .. n -> 1 .. n]
    BY <1>2, <1>3, <1>5
  <2>2. \A i \in 1 .. n : f[i] = i
    BY <1>2, <2>1, IncreasingIsIdentity
  <2>3. \A i \in 1 .. Len(read) : read[i] = s[i]
    BY <1>1, <1>4, <2>2
  <2> QED  BY <1>4, <1>5, <2>3, SeqEqual
<1> QED  BY <1>2, <1>4, <1>5

(* The rows that carry a key can be counted.                               *)
LEMMA CountType ==
  ASSUME NEW S, NEW s \in Seq(S), NEW p
  PROVE  CountOf(s, p) \in Nat
<1> DEFINE I == {i \in DOMAIN s : s[i].play = p}
<1>1. DOMAIN s = 1 .. Len(s) /\ Len(s) \in Nat
  OBVIOUS
<1>2. IsFiniteSet(1 .. Len(s))
  BY <1>1, FS_Interval
<1>3. I \subseteq 1 .. Len(s)
  BY <1>1
<1>4. IsFiniteSet(I)
  BY <1>2, <1>3, FS_Subset
<1>5. QED
  BY <1>4, FS_CardinalityType DEF CountOf

LEMMA KeysType ==
  ASSUME NEW S, NEW s \in Seq(S)
  PROVE  KeysOf(s) \in [Plays -> Nat]
  BY CountType DEF KeysOf

LEMMA DropKeysType ==
  ASSUME NEW S, NEW s \in Seq(S), NEW k \in [Plays -> Nat]
  PROVE  DropKeys(k, s) \in [Plays -> Nat]
<1>1. \A p \in Plays : CountOf(s, p) \in Nat
  BY CountType
<1>2. QED
  BY <1>1 DEF DropKeys

-----------------------------------------------------------------------------
(* The inductive invariant.                                                *)

(* What is known of the file whatever has failed: it agrees with memory    *)
(* unless it is marked dirty, it is bounded, and no file means no rows.    *)
FileInv ==
  /\ FileHoldsQueue
  /\ NeverBuildOnTornRow
  /\ FileBounded
  /\ ~fileThere => rows = <<>> /\ torn = FALSE /\ garbled = FALSE

FileType ==
  /\ fileThere \in BOOLEAN
  /\ rows \in Seq(Item)
  /\ torn \in BOOLEAN
  /\ garbled \in BOOLEAN
  /\ fileRows \in Nat
  /\ fileDirty \in BOOLEAN

IInv == TypeOK /\ FileInv /\ BatchLeadsQueue

(* A rewrite, successful or not, leaves the file in order.                 *)
LEMMA SaveKeepsFile ==
  ASSUME IInv, NEW new \in Seq(Item), Len(new) <= MaxEntries,
         items' = new, Save(new)
  PROVE  FileType' /\ FileInv'
<1>0. Len(new) \in Nat /\ Newest(new) = new
  BY NewestProperties
<1>1. CASE SaveSucceeds(new)
  <2>1. /\ fileThere' = TRUE /\ rows' = new /\ torn' = FALSE /\ garbled' = FALSE
        /\ fileRows' = Len(new) /\ fileDirty' = FALSE
    BY <1>1 DEF SaveSucceeds
  <2>2. FileType'
    BY <2>1, <1>0 DEF FileType
  <2>3. FileHoldsQueue'
    BY <2>1, <1>0 DEF FileHoldsQueue
  <2>4. NeverBuildOnTornRow'
    BY <2>1 DEF NeverBuildOnTornRow
  <2>5. FileBounded'
    BY <2>1, <1>0, SlackType, QueueAssumption DEF FileBounded
  <2>6. QED
    BY <2>1, <2>2, <2>3, <2>4, <2>5 DEF FileInv
<1>2. CASE SaveFails
  BY <1>2 DEF SaveFails, disk, IInv, TypeOK, FileInv, FileType, FileHoldsQueue,
              NeverBuildOnTornRow, FileBounded
<1>3. QED
  BY <1>1, <1>2 DEF Save

(* So does an append of one row to the queue.                              *)
LEMMA AppendKeepsFile ==
  ASSUME IInv, NEW it \in Item, items' = Newest(Append(items, it)),
         AppendRow(it, Newest(Append(items, it)))
  PROVE  FileType' /\ FileInv'
<1> DEFINE new == Newest(Append(items, it))
<1>1. items \in Seq(Item) /\ Append(items, it) \in Seq(Item)
  BY DEF IInv, TypeOK
<1>2. new \in Seq(Item) /\ Len(new) <= MaxEntries
  BY <1>1, NewestProperties
<1>3. CASE NeedsRewrite /\ Save(new)
  BY <1>2, <1>3, SaveKeepsFile
<1>4. ASSUME ~NeedsRewrite
      PROVE  /\ fileThere = TRUE /\ fileDirty = FALSE /\ torn = FALSE /\ garbled = FALSE
             /\ Newest(rows) = items /\ fileRows = Len(rows)
             /\ Len(Append(rows, it)) = Len(rows) + 1
             /\ Len(rows) + 1 <= MaxEntries + Slack
             /\ Append(rows, it) \in Seq(Item)
             /\ Newest(Append(rows, it)) = Newest(Append(items, it))
  <2>1. /\ fileThere = TRUE /\ fileDirty = FALSE /\ torn = FALSE /\ garbled = FALSE
        /\ Newest(rows) = items /\ fileRows = Len(rows)
    BY <1>4 DEF NeedsRewrite, IInv, TypeOK, FileInv, FileHoldsQueue,
                NeverBuildOnTornRow
  <2>2. Len(rows) < MaxEntries + Slack /\ rows \in Seq(Item) /\ Len(rows) \in Nat
    BY <1>4, <2>1, SlackType, QueueAssumption DEF NeedsRewrite, IInv, TypeOK
  <2>3. QED
    BY <2>1, <2>2, NewestOfAppend, SlackType, QueueAssumption
<1>5. CASE ~NeedsRewrite /\ AppendSucceeds(it)
  BY <1>4, <1>5 DEF AppendSucceeds, FileType, FileInv, FileHoldsQueue,
                    NeverBuildOnTornRow, FileBounded, IInv, TypeOK
<1>6. CASE ~NeedsRewrite /\ AppendFails(it)
  BY <1>4, <1>6 DEF AppendFails, FileType, FileInv, FileHoldsQueue,
                    NeverBuildOnTornRow, FileBounded, IInv, TypeOK
<1>7. QED
  BY <1>3, <1>5, <1>6 DEF AppendRow

(***************************************************************************)
(* The steps.                                                              *)
(***************************************************************************)

(* The initial states satisfy the invariant.                               *)
LEMMA InitIInv == Init => IInv
<1> SUFFICES ASSUME Init PROVE IInv
  OBVIOUS
<1>1. PICK n \in 0 .. MaxEntries + Slack : rows \in [1 .. n -> Item]
  BY DEF Init, FileRowsAtStart
<1>2. n \in Nat /\ rows \in Seq(Item) /\ Len(rows) = n /\ n <= MaxEntries + Slack
  BY <1>1, SlackType, QueueAssumption
<1>3. PICK read \in Parsed(rows) :
        /\ items = Newest(read) /\ fileRows = Len(read)
        /\ fileDirty = (torn \/ Len(read) < Len(rows))
  BY Zenon DEF Init
<1>6. /\ read \in Seq(Item) /\ Len(read) \in Nat
      /\ ~(Len(read) < Len(rows)) => read = rows
  BY <1>2, <1>3, ParsedProperties
<1>7. items \in Seq(Item) /\ Len(items) <= MaxEntries
  BY <1>3, <1>6, NewestProperties
<1>8. /\ fileRows \in Nat /\ fileDirty \in BOOLEAN /\ torn \in BOOLEAN /\ garbled = FALSE
      /\ fileThere \in BOOLEAN /\ (~fileThere => rows = <<>> /\ torn = FALSE)
  <2>1. torn \in BOOLEAN /\ garbled = FALSE /\ fileThere \in BOOLEAN
        /\ (~fileThere => rows = <<>> /\ torn = FALSE)
    BY DEF Init
  <2>2. fileDirty \in BOOLEAN
    BY <1>3, Zenon
  <2> QED  BY <1>3, <1>6, <2>1, <2>2
<1>9. FileHoldsQueue /\ NeverBuildOnTornRow
  <2>1. torn \/ garbled => fileDirty
    BY <1>3, <1>8, Zenon
  <2>2. ASSUME ~fileDirty
        PROVE  Newest(rows) = items /\ fileRows = Len(rows)
    <3>1. ~(Len(read) < Len(rows))
      BY <1>3, <2>2, Zenon
    <3> QED  BY <1>3, <1>6, <3>1
  <2> QED  BY <2>1, <2>2, Zenon DEF FileHoldsQueue, NeverBuildOnTornRow
<1>4. keys \in [Plays -> Nat]
  BY <1>7, KeysType DEF Init
<1>a. /\ drainPc = "idle" /\ batch = <<>> /\ batch \in Seq(Item) /\ trimmed = 0 /\ stores = 0
  BY DEF Init
<1>b. TypeOK
  BY <1>2, <1>4, <1>7, <1>8, <1>a DEF TypeOK
<1>c. FileBounded /\ BatchLeadsQueue
  BY <1>2, <1>a DEF FileBounded, BatchLeadsQueue
<1>5. QED
  BY <1>8, <1>9, <1>b, <1>c DEF IInv, FileInv

(* An enqueue: the file follows memory, and the batch under way moves by   *)
(* the row the cap pushes out.                                             *)
LEMMA EnqueueStep ==
  ASSUME IInv, NEW it \in Item, Enqueue(it)
  PROVE  IInv'
<1> DEFINE all == Append(items, it)
           over == Len(Overflow(all))
<1>1. /\ items \in Seq(Item) /\ Len(items) \in Nat /\ Len(items) <= MaxEntries
      /\ all \in Seq(Item) /\ Len(all) = Len(items) + 1
      /\ \A i \in 1 .. Len(items) : all[i] = items[i]
  BY DEF IInv, TypeOK
<1>2. items' = Newest(all) /\ AppendRow(it, Newest(all))
  BY DEF Enqueue
<1>3. items' \in Seq(Item) /\ Len(items') \in Nat /\ Len(items') <= MaxEntries
  BY <1>1, <1>2, NewestProperties
<1>4. FileType' /\ FileInv'
  BY <1>2, AppendKeepsFile
<1>5. /\ Overflow(all) \in Seq(Item) /\ over \in Nat
      /\ over = IF Len(all) > MaxEntries THEN Len(all) - MaxEntries ELSE 0
  <2> HIDE DEF all
  <2>1. QED
    BY <1>1, OverflowProperties, QueueAssumption
<1>6. keys' \in [Plays -> Nat]
  <2>1. AddKey(keys, it.play) \in [Plays -> Nat]
    BY DEF AddKey, IInv, TypeOK, Item
  <2>2. QED
    BY <2>1, <1>5, DropKeysType DEF Enqueue
<1>7. TypeOK'
  BY <1>3, <1>4, <1>5, <1>6, QueueAssumption DEF Enqueue, IInv, TypeOK, FileType
<1>8. BatchLeadsQueue'
  <2> SUFFICES ASSUME drainPc \in {"submitting", "accepted"},
                      NEW i \in 1 .. Len(batch), i > trimmed + over
               PROVE  /\ i - (trimmed + over) <= Len(items')
                      /\ items'[i - (trimmed + over)] = batch[i]
    BY DEF Enqueue, BatchLeadsQueue
  <2>1. /\ trimmed \in Nat /\ batch \in Seq(Item) /\ Len(batch) \in Nat
        /\ i \in Nat /\ i > trimmed
    BY <1>5 DEF IInv, TypeOK
  <2>2. i - trimmed <= Len(items) /\ items[i - trimmed] = batch[i]
    BY <2>1 DEF IInv, BatchLeadsQueue
  <2>3. CASE Len(all) <= MaxEntries
    <3> HIDE DEF over, all
    <3>1. over = 0 /\ items' = all
      BY <2>3, <1>1, <1>2, <1>5, NewestProperties, QueueAssumption
    <3>2. i - trimmed \in 1 .. Len(items)
      BY <2>1, <2>2, <1>1
    <3>3. i - (trimmed + over) = i - trimmed
      BY <3>1, <2>1
    <3>4. QED
      BY <3>1, <3>2, <3>3, <1>1, <2>1, <2>2
  <2>4. CASE Len(all) > MaxEntries
    <3> HIDE DEF over, all
    <3>1. over = Len(all) - MaxEntries /\ over = 1
      BY <2>4, <1>1, <1>5, QueueAssumption
    <3>2. /\ Len(items') = MaxEntries
          /\ \A j \in 1 .. MaxEntries :
               items'[j] = all[j + (Len(all) - MaxEntries)]
      BY <2>4, <1>1, <1>2, NewestProperties
    <3>3. i - (trimmed + over) \in 1 .. MaxEntries
      BY <3>1, <2>1, <2>2, <1>1, QueueAssumption
    <3>4. items'[i - (trimmed + over)] = all[(i - (trimmed + over)) + over]
      BY <3>1, <3>2, <3>3
    <3>5. /\ (i - (trimmed + over)) + over = i - trimmed
          /\ i - trimmed \in 1 .. Len(items)
      BY <3>1, <2>1, <2>2, <1>1
    <3>6. all[i - trimmed] = items[i - trimmed]
      BY <3>5, <1>1
    <3>7. QED
      BY <3>2, <3>3, <3>4, <3>5, <3>6, <2>2
  <2>5. QED
    BY <2>3, <2>4, <1>1, QueueAssumption
<1>9. QED
  BY <1>4, <1>7, <1>8 DEF IInv

(* Dropping other accounts' rows happens while no batch is under way.      *)
LEMMA DropStep ==
  ASSUME IInv, NEW account \in Accounts, DropOtherAccounts(account)
  PROVE  IInv'
<1>1. CASE MineAt(account) = 1 .. Len(items) /\ UNCHANGED <<memory, disk, belief>>
  BY <1>1 DEF IInv, TypeOK, FileInv, FileHoldsQueue, NeverBuildOnTornRow,
              FileBounded, BatchLeadsQueue, DropOtherAccounts, memory, disk, belief
<1>2. ASSUME NEW n \in 0 .. Len(items), NEW f \in Listings(n, MineAt(account)),
             items' = [i \in 1 .. n |-> items[f[i]]],
             keys' = KeysOf(items'), Save(items')
      PROVE  IInv'
  <2>1. items \in Seq(Item) /\ Len(items) \in Nat /\ Len(items) <= MaxEntries
    BY DEF IInv, TypeOK
  <2>2. n \in Nat /\ n <= MaxEntries
    BY <2>1, QueueAssumption
  <2>3. \A i \in 1 .. n : items[f[i]] \in Item
    BY <2>1 DEF Listings, MineAt
  <2>4. items' \in Seq(Item) /\ Len(items') = n
    BY <1>2, <2>2, <2>3
  <2>5. FileType' /\ FileInv'
    BY <1>2, <2>2, <2>4, SaveKeepsFile
  <2>6. keys' \in [Plays -> Nat]
    BY <1>2, <2>4, KeysType
  <2>7. QED
    BY <2>2, <2>4, <2>5, <2>6
       DEF IInv, TypeOK, FileType, BatchLeadsQueue, DropOtherAccounts
<1>3. QED
  BY <1>1, <1>2 DEF DropOtherAccounts

(* Taking a batch copies the front of the queue.                           *)
LEMMA TakeStep ==
  ASSUME IInv, TakeBatch
  PROVE  IInv'
<1>1. items \in Seq(Item) /\ Len(items) \in Nat
  BY DEF IInv, TypeOK
<1>2. /\ batch' \in Seq(Item)
      /\ Len(batch') = Smaller(BatchSize, Len(items))
      /\ \A i \in 1 .. Smaller(BatchSize, Len(items)) : batch'[i] = items[i]
  BY <1>1, PrefixProperties, QueueAssumption DEF TakeBatch
<1>3. /\ Smaller(BatchSize, Len(items)) \in Nat
      /\ Smaller(BatchSize, Len(items)) <= Len(items)
  BY <1>1, QueueAssumption DEF Smaller
<1>4. BatchLeadsQueue'
  <2> SUFFICES ASSUME NEW i \in 1 .. Len(batch'), i > 0
               PROVE  i - 0 <= Len(items) /\ items[i - 0] = batch'[i]
    BY DEF TakeBatch, BatchLeadsQueue, memory
  <2>1. i - 0 = i
    OBVIOUS
  <2>2. QED
    BY <2>1, <1>2, <1>3, <1>1
<1>5. QED
  BY <1>2, <1>4 DEF IInv, TypeOK, FileInv, FileHoldsQueue, NeverBuildOnTornRow,
                    FileBounded, TakeBatch, memory, disk, belief

(* Removing a batch rewrites the file with what is left.                   *)
LEMMA RemoveStep ==
  ASSUME IInv, RemoveSubmitted
  PROVE  IInv'
<1>1. /\ items \in Seq(Item) /\ Len(items) \in Nat /\ Len(items) <= MaxEntries
      /\ batch \in Seq(Item) /\ Len(batch) \in Nat /\ keys \in [Plays -> Nat]
  BY DEF IInv, TypeOK
<1>2. /\ items' \in Seq(Item) /\ Len(items') \in Nat /\ Len(items') <= Len(items)
      /\ Save(items')
  BY <1>1, AfterProperties DEF RemoveSubmitted
<1>3. Len(items') <= MaxEntries
  BY <1>1, <1>2, QueueAssumption
<1>4. FileType' /\ FileInv'
  BY <1>2, <1>3, SaveKeepsFile
<1>5. keys' \in [Plays -> Nat]
  <2>1. Prefix(items, Len(batch)) \in Seq(Item)
    BY <1>1, PrefixProperties
  <2>2. QED
    BY <2>1, <1>1, DropKeysType DEF RemoveSubmitted
<1>6. batch' \in Seq(Item) /\ trimmed' = 0 /\ drainPc' = "draining" /\ stores' = stores
  BY DEF RemoveSubmitted
<1>7. QED
  BY <1>2, <1>3, <1>4, <1>5, <1>6 DEF IInv, TypeOK, FileType, BatchLeadsQueue

(* A restart loads what the file holds, or nothing if it cannot be read,   *)
(* or does not come up.                                                    *)
LEMMA RestartStep ==
  ASSUME IInv, Restart
  PROVE  IInv'
<1>1. /\ rows \in Seq(Item) /\ Len(rows) \in Nat /\ torn \in BOOLEAN /\ garbled \in BOOLEAN
      /\ fileThere \in BOOLEAN
      /\ rows' = rows /\ torn' = torn /\ garbled' = garbled /\ fileThere' = fileThere
  BY DEF IInv, TypeOK, Restart, disk
<1>2. /\ items' \in Seq(Item) /\ Len(items') \in Nat /\ Len(items') <= MaxEntries
      /\ fileRows' \in Nat /\ fileDirty' \in BOOLEAN /\ drainPc' \in {"idle", "down"}
      /\ torn \/ garbled => fileDirty'
      /\ ~fileDirty' => items' = Newest(rows) /\ fileRows' = Len(rows)
  <2>1. CASE LoadRows
    <3>1. PICK read \in Parsed(rows) :
            /\ items' = Newest(read) /\ fileRows' = Len(read)
            /\ fileDirty' = (torn \/ Len(read) < Len(rows))
      BY <2>1, Zenon DEF LoadRows
    <3>2. /\ read \in Seq(Item) /\ Len(read) \in Nat
          /\ ~(Len(read) < Len(rows)) => read = rows
      BY <1>1, <3>1, ParsedProperties
    <3>3. items' \in Seq(Item) /\ Len(items') \in Nat /\ Len(items') <= MaxEntries
      BY <3>1, <3>2, NewestProperties
    <3>4. fileDirty' \in BOOLEAN /\ (torn \/ garbled => fileDirty')
      BY <1>1, <2>1, <3>1, Zenon DEF LoadRows
    <3>5. ~fileDirty' => items' = Newest(rows) /\ fileRows' = Len(rows)
      <4>1. ~fileDirty' => ~(Len(read) < Len(rows))
        BY <3>1, Zenon
      <4> QED  BY <3>1, <3>2, <4>1, Zenon
    <3>6. drainPc' \in {"idle", "down"}
      BY <2>1, Zenon DEF LoadRows
    <3> QED  BY <3>1, <3>2, <3>3, <3>4, <3>5, <3>6
  <2>2. CASE StartEmpty \/ FailToStart
    <3>1. items' = <<>> /\ fileRows' = 0 /\ fileDirty' = TRUE /\ drainPc' \in {"idle", "down"}
      BY <2>2, Zenon DEF StartEmpty, FailToStart
    <3> QED  BY <3>1, QueueAssumption
  <2> QED  BY <2>1, <2>2, Zenon DEF Restart
<1>3. keys' \in [Plays -> Nat]
  BY <1>2, KeysType DEF Restart
<1>4. TypeOK'
  <2>1. batch' = <<>> /\ trimmed' = 0 /\ stores' \in Nat
    BY DEF Restart, IInv, TypeOK
  <2>2. batch' \in Seq(Item)
    BY <2>1
  <2>3. QED
    BY <1>1, <1>2, <1>3, <2>1, <2>2 DEF TypeOK
<1>5. /\ BatchLeadsQueue' /\ FileBounded'
      /\ (~fileThere' => rows' = <<>> /\ torn' = FALSE /\ garbled' = FALSE)
  BY <1>1, <1>2 DEF IInv, FileInv, FileBounded, BatchLeadsQueue
<1>6. FileHoldsQueue' /\ NeverBuildOnTornRow'
  <2>1. Newest(rows') = Newest(rows) /\ Len(rows') = Len(rows)
    BY <1>1, Zenon
  <2> QED  BY <1>1, <1>2, <2>1, Zenon DEF FileHoldsQueue, NeverBuildOnTornRow
<1>7. QED
  BY <1>4, <1>5, <1>6 DEF IInv, FileInv

(* Every other step leaves the queue alone, or only loses the file.        *)
LEMMA OtherSteps ==
  ASSUME IInv, \/ DrainDone \/ SubmitReturns \/ SubmitRaises
               \/ FileVanishes \/ UNCHANGED vars
  PROVE  IInv'
<1>1. CASE DrainDone
  BY <1>1 DEF DrainDone, memory, disk, belief, IInv, TypeOK, FileInv,
     FileHoldsQueue, NeverBuildOnTornRow, FileBounded, BatchLeadsQueue
<1>2. CASE SubmitReturns
  BY <1>2 DEF SubmitReturns, memory, disk, belief, IInv, TypeOK, FileInv,
     FileHoldsQueue, NeverBuildOnTornRow, FileBounded, BatchLeadsQueue
<1>3. CASE SubmitRaises
  BY <1>3 DEF SubmitRaises, memory, disk, belief, IInv, TypeOK, FileInv,
     FileHoldsQueue, NeverBuildOnTornRow, FileBounded, BatchLeadsQueue
<1>4. CASE FileVanishes
  <2>1. /\ fileThere' = FALSE /\ rows' = <<>> /\ torn' = FALSE /\ garbled' = FALSE
        /\ UNCHANGED <<items, keys, fileRows, fileDirty, drainPc, batch, trimmed, stores>>
    BY <1>4 DEF FileVanishes, memory, belief, drainer
  <2>2. rows' \in Seq(Item) /\ Len(rows') <= MaxEntries + Slack
    BY <2>1, SlackType, QueueAssumption
  <2>3. TypeOK' /\ BatchLeadsQueue'
    BY <2>1, <2>2 DEF IInv, TypeOK, BatchLeadsQueue
  <2>4. FileInv'
    BY <2>1, <2>2 DEF FileInv, FileHoldsQueue, NeverBuildOnTornRow, FileBounded
  <2>5. QED
    BY <2>3, <2>4 DEF IInv
<1>5. CASE UNCHANGED vars
  BY <1>5 DEF vars, IInv, TypeOK, FileInv,
     FileHoldsQueue, NeverBuildOnTornRow, FileBounded, BatchLeadsQueue
<1>6. QED
  BY <1>1, <1>2, <1>3, <1>4, <1>5

(* The invariant holds in every state of every behaviour.                  *)
THEOREM Invariance == Spec => []IInv
<1>1. ASSUME IInv, [Next]_vars
      PROVE  IInv'
  BY <1>1, EnqueueStep, DropStep, TakeStep, RemoveStep, RestartStep, OtherSteps
     DEF Next
<1>2. QED
  BY <1>1, InitIInv, PTL DEF Spec

(* The queue in memory never exceeds its cap and every variable keeps its  *)
(* type, for every cap and batch size.                                     *)
THEOREM TypeCorrect == Spec => []TypeOK
<1>1. IInv => TypeOK
  BY DEF IInv
<1>2. QED
  BY <1>1, Invariance, PTL

(* What a restart loads from a file that is believed clean is the queue in *)
(* memory, whatever appends, trims, drains and failures came before.       *)
THEOREM RestartLoadsTheQueue == Spec => []FileHoldsQueue
<1>1. IInv => FileHoldsQueue
  BY DEF IInv, FileInv
<1>2. QED
  BY <1>1, Invariance, PTL

(* The file never runs further past the cap than the slack.                *)
THEOREM FileStaysSound == Spec => []FileBounded
<1>1. IInv => FileBounded
  BY DEF IInv, FileInv
<1>2. QED
  BY <1>1, Invariance, PTL

(* Half a row that a failed append left is never built on: the queue knows
   that the file is not what it should be, and writes it anew.             *)
THEOREM TornRowIsNoticed == Spec => []NeverBuildOnTornRow
<1>1. IInv => NeverBuildOnTornRow
  BY DEF IInv, FileInv
<1>2. QED
  BY <1>1, Invariance, PTL

(* A drain whose submission no trim interrupted removes exactly its batch. *)
THEOREM DrainRemovesItsBatch == Spec => []DrainExact
<1>1. IInv => DrainExact
  <2> SUFFICES ASSUME IInv, drainPc = "accepted", trimmed = 0
               PROVE  Prefix(items, Len(batch)) = batch
    BY DEF DrainExact
  <2>1. /\ items \in Seq(Item) /\ Len(items) \in Nat
        /\ batch \in Seq(Item) /\ Len(batch) \in Nat
    BY DEF IInv, TypeOK
  <2>2. ASSUME NEW i \in 1 .. Len(batch)
        PROVE  i <= Len(items) /\ items[i] = batch[i]
    <3>1. i > trimmed /\ i - trimmed = i
      BY <2>1
    <3>2. QED
      BY <3>1 DEF IInv, BatchLeadsQueue
  <2>3. Len(batch) <= Len(items)
    <3>1. CASE Len(batch) = 0
      BY <3>1, <2>1
    <3>2. CASE Len(batch) # 0
      <4>1. Len(batch) \in 1 .. Len(batch)
        BY <3>2, <2>1
      <4>2. QED
        BY <4>1, <2>2
    <3>3. QED
      BY <3>1, <3>2
  <2>4. Smaller(Len(batch), Len(items)) = Len(batch)
    BY <2>1, <2>3 DEF Smaller
  <2>5. /\ Prefix(items, Len(batch)) \in Seq(Item)
        /\ Len(Prefix(items, Len(batch))) = Len(batch)
        /\ \A i \in 1 .. Len(batch) : Prefix(items, Len(batch))[i] = items[i]
    BY <2>1, <2>4, PrefixProperties
  <2>6. \A i \in 1 .. Len(batch) : Prefix(items, Len(batch))[i] = batch[i]
    BY <2>2, <2>5
  <2>7. QED
    BY <2>1, <2>5, <2>6, SeqEqual
<1>2. QED
  BY <1>1, Invariance, PTL

-----------------------------------------------------------------------------
(* Counting rows.                                                          *)

Carriers(s, p) == {i \in 1 .. Len(s) : s[i].play = p}

(* s is u with v behind it.                                                *)
Joined(s, u, v) ==
  /\ Len(s) = Len(u) + Len(v)
  /\ \A i \in 1 .. Len(u) : u[i] = s[i]
  /\ \A i \in 1 .. Len(v) : v[i] = s[i + Len(u)]

LEMMA CarriersCount ==
  ASSUME NEW s \in Seq(Item), NEW p
  PROVE  /\ IsFiniteSet(Carriers(s, p))
         /\ CountOf(s, p) = Cardinality(Carriers(s, p)) /\ CountOf(s, p) \in Nat
<1>1. DOMAIN s = 1 .. Len(s) /\ Len(s) \in Nat
  OBVIOUS
<1>2. IsFiniteSet(1 .. Len(s))
  BY <1>1, FS_Interval
<1>3. IsFiniteSet(Carriers(s, p))
  BY <1>2, FS_Subset DEF Carriers
<1> QED  BY <1>1, <1>3, FS_CardinalityType DEF CountOf, Carriers

(* A sequence cut in two carries a play as often as its parts do.          *)
LEMMA CountOfParts ==
  ASSUME NEW s \in Seq(Item), NEW u \in Seq(Item), NEW v \in Seq(Item), NEW p,
         Joined(s, u, v)
  PROVE  CountOf(s, p) = CountOf(u, p) + CountOf(v, p)
<1> USE DEF Joined
<1> DEFINE m == Len(u)
           A == Carriers(u, p)
           B == {i \in m + 1 .. Len(s) : s[i].play = p}
           C == Carriers(v, p)
           f == [i \in C |-> i + m]
<1>1. m \in Nat /\ Len(v) \in Nat /\ Len(s) = m + Len(v)
  OBVIOUS
<1>2. Carriers(s, p) = A \cup B /\ A \cap B = {}
  BY <1>1 DEF Carriers
<1>3. IsFiniteSet(A) /\ IsFiniteSet(C) /\ IsFiniteSet(Carriers(s, p))
  BY CarriersCount
<1>4. IsFiniteSet(B)
  BY <1>2, <1>3, FS_Subset
<1>5. Cardinality(B) = Cardinality(C)
  <2>1. f \in Bijection(C, B)
    <3>1. \A i \in C : i \in 1 .. Len(v) /\ s[i + m].play = p
      BY DEF Carriers
    <3>2. \A i \in C : f[i] = i + m /\ i + m \in B
      BY <1>1, <3>1
    <3>3. f \in [C -> B]
      BY <3>2
    <3>4. ASSUME NEW i \in C, NEW j \in C, f[i] = f[j]
          PROVE  i = j
      BY <1>1, <3>1, <3>2, <3>4
    <3>5. ASSUME NEW k \in B
          PROVE  \E i \in C : f[i] = k
      <4>1. k - m \in 1 .. Len(v) /\ (k - m) + m = k
        BY <1>1
      <4>2. v[k - m].play = p
        BY <4>1
      <4>3. k - m \in C
        BY <4>1, <4>2 DEF Carriers
      <4> QED  BY <3>2, <4>1, <4>3
    <3> HIDE DEF f, B, C
    <3> QED  BY <3>3, <3>4, <3>5, Fun_IsBij
  <2> HIDE DEF f, B, C
  <2>2. ExistsBijection(C, B)
    BY <2>1 DEF ExistsBijection
  <2> QED  BY <1>3, <2>2, FS_Bijection DEF C
<1>6. Cardinality(A \cup B) = Cardinality(A) + Cardinality(B) - Cardinality(A \cap B)
  BY <1>3, <1>4, FS_Union
<1>7. Cardinality(A \cap B) = 0
  BY <1>2, FS_EmptySet
<1>8. CountOf(s, p) = Cardinality(Carriers(s, p)) /\ CountOf(u, p) = Cardinality(A)
      /\ CountOf(v, p) = Cardinality(C)
  BY CarriersCount
<1>9. Cardinality(A) \in Nat /\ Cardinality(C) \in Nat
  BY <1>3, FS_CardinalityType
<1> HIDE DEF A, B, C
<1> QED  BY <1>2, <1>5, <1>6, <1>7, <1>8, <1>9

LEMMA CountOfOne ==
  ASSUME NEW S, NEW e \in S, NEW p
  PROVE  CountOf(<<e>>, p) = IF e.play = p THEN 1 ELSE 0
<1>1. DOMAIN <<e>> = {1} /\ <<e>>[1] = e
  OBVIOUS
<1>2. CASE e.play = p
  <2>1. {i \in DOMAIN <<e>> : <<e>>[i].play = p} = {1}
    BY <1>1, <1>2
  <2> QED  BY <1>2, <2>1, FS_Singleton DEF CountOf
<1>3. CASE e.play # p
  <2>1. {i \in DOMAIN <<e>> : <<e>>[i].play = p} = {}
    BY <1>1, <1>3
  <2> QED  BY <1>3, <2>1, FS_EmptySet DEF CountOf
<1> QED  BY <1>2, <1>3

(* A trim drops the rows in front, and their keys with them.               *)
LEMMA TrimKeepsKeys ==
  ASSUME NEW s \in Seq(Item)
  PROVE  DropKeys(KeysOf(s), Overflow(s)) = KeysOf(Newest(s))
<1>1. /\ Overflow(s) \in Seq(Item) /\ Newest(s) \in Seq(Item) /\ Len(s) \in Nat
      /\ Len(Overflow(s)) = IF Len(s) > MaxEntries THEN Len(s) - MaxEntries ELSE 0
      /\ \A i \in 1 .. Len(Overflow(s)) : Overflow(s)[i] = s[i]
  BY NewestProperties, QueueAssumption DEF Overflow
<1>2. /\ Len(s) = Len(Overflow(s)) + Len(Newest(s))
      /\ \A i \in 1 .. Len(Newest(s)) : Newest(s)[i] = s[i + Len(Overflow(s))]
  <2>1. CASE Len(s) <= MaxEntries
    <3>1. Len(Overflow(s)) = 0 /\ Newest(s) = s
      BY <1>1, <2>1, NewestProperties, QueueAssumption
    <3> QED  BY <1>1, <3>1
  <2>2. CASE Len(s) > MaxEntries
    <3>1. /\ Len(Overflow(s)) = Len(s) - MaxEntries /\ Len(Newest(s)) = MaxEntries
          /\ \A i \in 1 .. MaxEntries : Newest(s)[i] = s[i + (Len(s) - MaxEntries)]
      BY <1>1, <2>2, NewestProperties
    <3>2. MaxEntries \in Nat /\ Len(s) = Len(Overflow(s)) + MaxEntries
      BY <1>1, <3>1, QueueAssumption
    <3> QED  BY <3>1, <3>2
  <2> QED  BY <1>1, <2>1, <2>2, QueueAssumption
<1>3. ASSUME NEW p \in Plays
      PROVE  /\ CountOf(s, p) = CountOf(Overflow(s), p) + CountOf(Newest(s), p)
             /\ CountOf(Overflow(s), p) \in Nat /\ CountOf(Newest(s), p) \in Nat
  <2>1. CountOf(s, p) = CountOf(Overflow(s), p) + CountOf(Newest(s), p)
    <3>1. Joined(s, Overflow(s), Newest(s))
      BY <1>1, <1>2 DEF Joined
    <3> QED  BY <1>1, <3>1, CountOfParts
  <2>2. CountOf(Overflow(s), p) \in Nat /\ CountOf(Newest(s), p) \in Nat
    BY <1>1, CarriersCount, Zenon
  <2> QED  BY <2>1, <2>2
<1>4. ASSUME NEW p \in Plays
      PROVE  DropKeys(KeysOf(s), Overflow(s))[p] = KeysOf(Newest(s))[p]
  BY <1>3 DEF DropKeys, KeysOf
<1> QED  BY <1>4 DEF DropKeys, KeysOf

(* So does the removal of a batch.                                         *)
LEMMA RemovalKeepsKeys ==
  ASSUME NEW s \in Seq(Item), NEW n \in Nat
  PROVE  DropKeys(KeysOf(s), Prefix(s, n)) = KeysOf(After(s, n))
<1> DEFINE m == Smaller(n, Len(s))
<1>1. /\ Prefix(s, n) \in Seq(Item) /\ After(s, n) \in Seq(Item) /\ Len(s) \in Nat
      /\ Len(Prefix(s, n)) = m /\ \A i \in 1 .. m : Prefix(s, n)[i] = s[i]
  <2>1. After(s, n) \in Seq(Item)
    BY AfterProperties
  <2>2. /\ Prefix(s, n) \in Seq(Item)
        /\ Len(Prefix(s, n)) = m /\ \A i \in 1 .. m : Prefix(s, n)[i] = s[i]
    BY PrefixProperties
  <2> QED  BY <2>1, <2>2
<1>2. m \in Nat /\ m <= Len(s)
  BY <1>1 DEF Smaller
<1>3. After(s, n) = [i \in 1 .. Len(s) - m |-> s[i + m]]
  BY DEF After
<1> HIDE DEF m
<1>4. Len(After(s, n)) = Len(s) - m /\ \A i \in 1 .. Len(s) - m : After(s, n)[i] = s[i + m]
  BY <1>1, <1>2, <1>3
<1>5. ASSUME NEW p \in Plays
      PROVE  /\ CountOf(s, p) = CountOf(Prefix(s, n), p) + CountOf(After(s, n), p)
             /\ CountOf(Prefix(s, n), p) \in Nat /\ CountOf(After(s, n), p) \in Nat
  <2>1. Len(s) = Len(Prefix(s, n)) + Len(After(s, n))
    BY <1>1, <1>2, <1>4
  <2>2. /\ \A i \in 1 .. Len(Prefix(s, n)) : Prefix(s, n)[i] = s[i]
        /\ \A i \in 1 .. Len(After(s, n)) : After(s, n)[i] = s[i + Len(Prefix(s, n))]
    BY <1>1, <1>4
  <2>3. CountOf(s, p) = CountOf(Prefix(s, n), p) + CountOf(After(s, n), p)
    <3>1. Joined(s, Prefix(s, n), After(s, n))
      BY <2>1, <2>2 DEF Joined
    <3> QED  BY <1>1, <3>1, CountOfParts
  <2>4. CountOf(Prefix(s, n), p) \in Nat /\ CountOf(After(s, n), p) \in Nat
    BY <1>1, CarriersCount, Zenon
  <2> QED  BY <2>3, <2>4
<1>6. ASSUME NEW p \in Plays
      PROVE  DropKeys(KeysOf(s), Prefix(s, n))[p] = KeysOf(After(s, n))[p]
  BY <1>5 DEF DropKeys, KeysOf
<1> QED  BY <1>6 DEF DropKeys, KeysOf

(* A row at the end counts once more.                                      *)
LEMMA AppendAddsKey ==
  ASSUME NEW s \in Seq(Item), NEW it \in Item
  PROVE  AddKey(KeysOf(s), it.play) = KeysOf(Append(s, it))
<1>1. /\ Append(s, it) \in Seq(Item) /\ Len(Append(s, it)) = Len(s) + 1 /\ Len(s) \in Nat
      /\ \A i \in 1 .. Len(s) : s[i] = Append(s, it)[i]
      /\ <<it>> \in Seq(Item) /\ Len(<<it>>) = 1
      /\ \A i \in 1 .. 1 : <<it>>[i] = Append(s, it)[i + Len(s)]
  OBVIOUS
<1>2. ASSUME NEW p \in Plays
      PROVE  /\ CountOf(Append(s, it), p) = CountOf(s, p) + CountOf(<<it>>, p)
             /\ CountOf(s, p) \in Nat
  <2>1. /\ Len(Append(s, it)) = Len(s) + Len(<<it>>)
        /\ \A i \in 1 .. Len(<<it>>) : <<it>>[i] = Append(s, it)[i + Len(s)]
    BY <1>1
  <2>2. \A i \in 1 .. Len(s) : s[i] = Append(s, it)[i]
    BY <1>1
  <2>3. CountOf(Append(s, it), p) = CountOf(s, p) + CountOf(<<it>>, p)
    <3>1. Joined(Append(s, it), s, <<it>>)
      BY <2>1, <2>2 DEF Joined
    <3> DEFINE all == Append(s, it)
               one == <<it>>
    <3>2. all \in Seq(Item) /\ one \in Seq(Item) /\ Joined(all, s, one)
      BY <1>1, <3>1
    <3> HIDE DEF all, one
    <3>3. CountOf(all, p) = CountOf(s, p) + CountOf(one, p)
      BY <3>2, CountOfParts
    <3> QED  BY <3>3 DEF all, one
  <2> QED  BY <2>3, CarriersCount
<1>3. it.play \in Plays
  BY DEF Item
<1>4. ASSUME NEW p \in Plays
      PROVE  AddKey(KeysOf(s), it.play)[p] = KeysOf(Append(s, it))[p]
  BY <1>2, <1>3, CountOfOne DEF AddKey, KeysOf
<1> QED  BY <1>4 DEF AddKey, KeysOf

LEMMA KeysStep == IInv /\ KeysCountItems /\ [Next]_vars => KeysCountItems'
<1> SUFFICES ASSUME IInv, KeysCountItems, [Next]_vars PROVE KeysCountItems'
  OBVIOUS
<1>a. items \in Seq(Item) /\ batch \in Seq(Item) /\ Len(batch) \in Nat /\ keys = KeysOf(items)
  BY DEF IInv, TypeOK, KeysCountItems
<1>1. ASSUME NEW it \in Item, Enqueue(it)
      PROVE  KeysCountItems'
  <2> DEFINE all == Append(items, it)
  <2>1. items' = Newest(all) /\ keys' = DropKeys(AddKey(keys, it.play), Overflow(all))
    BY <1>1, Zenon DEF Enqueue
  <2>2. all \in Seq(Item)
    BY <1>a
  <2>3. AddKey(keys, it.play) = KeysOf(all)
    BY <1>a, AppendAddsKey
  <2> HIDE DEF all
  <2>4. DropKeys(KeysOf(all), Overflow(all)) = KeysOf(Newest(all))
    BY <2>2, TrimKeepsKeys
  <2> QED  BY <2>1, <2>3, <2>4 DEF KeysCountItems
<1>2. CASE RemoveSubmitted
  <2>1. items' = After(items, Len(batch)) /\ keys' = DropKeys(keys, Prefix(items, Len(batch)))
    BY <1>2, Zenon DEF RemoveSubmitted
  <2>2. DropKeys(KeysOf(items), Prefix(items, Len(batch))) = KeysOf(After(items, Len(batch)))
    BY <1>a, RemovalKeepsKeys
  <2> QED  BY <1>a, <2>1, <2>2 DEF KeysCountItems
<1>3. CASE Restart
  BY <1>3, Zenon DEF Restart, KeysCountItems
<1>4. ASSUME NEW account \in Accounts, DropOtherAccounts(account)
      PROVE  KeysCountItems'
  <2>1. keys' = KeysOf(items') \/ UNCHANGED memory
    BY <1>4, Zenon DEF DropOtherAccounts
  <2> QED  BY <2>1 DEF KeysCountItems, memory
<1>5. CASE TakeBatch \/ DrainDone \/ SubmitReturns \/ SubmitRaises \/ FileVanishes \/ UNCHANGED vars
  <2>1. UNCHANGED memory
    BY <1>5 DEF TakeBatch, DrainDone, SubmitReturns, SubmitRaises, FileVanishes, vars, memory
  <2> QED  BY <2>1 DEF KeysCountItems, memory
<1> QED  BY <1>1, <1>2, <1>3, <1>4, <1>5, Zenon DEF Next

(* The counts beside the queue are those of its rows, whatever is stored,  *)
(* trimmed, filtered, drained and loaded, and however often a file from    *)
(* before holds a play: no play is refused for ever, none is queued twice. *)
THEOREM KeysStayInStep == Spec => []KeysCountItems
<1>1. Init => KeysCountItems
  BY DEF Init, KeysCountItems
<1> QED  BY <1>1, Invariance, KeysStep, PTL DEF Spec

(* A drain whose submission was interrupted by trims loses at most as many *)
(* rows that were not submitted as were trimmed.                           *)
THEOREM LossesAreTheTrims == Spec => []LossesBoundedByTrims
<1>1. IInv => LossesBoundedByTrims
  <2> SUFFICES ASSUME IInv, drainPc = "accepted"
               PROVE  Cardinality({i \in DOMAIN Prefix(items, Len(batch)) :
                                     \A j \in DOMAIN batch : items[i] # batch[j]}) <= trimmed
    BY DEF LossesBoundedByTrims
  <2> DEFINE b == Len(batch)
             lost == {i \in DOMAIN Prefix(items, b) : \A j \in DOMAIN batch : items[i] # batch[j]}
             tail == b - trimmed + 1 .. b
  <2>1. /\ items \in Seq(Item) /\ Len(items) \in Nat /\ batch \in Seq(Item) /\ b \in Nat
        /\ trimmed \in Nat /\ DOMAIN batch = 1 .. b
    BY DEF IInv, TypeOK
  <2>2. lost \subseteq tail
    <3> SUFFICES ASSUME NEW i \in lost PROVE i \in tail
      OBVIOUS
    <3>1. DOMAIN Prefix(items, b) = 1 .. Smaller(b, Len(items))
      BY DEF Prefix
    <3>2. i \in 1 .. b /\ i <= Len(items)
      BY <2>1, <3>1 DEF Smaller
    <3>3. CASE i + trimmed <= b
      <4>1. i + trimmed \in 1 .. b /\ i + trimmed > trimmed /\ (i + trimmed) - trimmed = i
        BY <2>1, <3>2, <3>3
      <4>2. items[i] = batch[i + trimmed]
        BY <4>1 DEF IInv, BatchLeadsQueue
      <4> QED  BY <2>1, <4>1, <4>2
    <3> QED  BY <2>1, <3>2, <3>3
  <2>3. IsFiniteSet(tail) /\ Cardinality(tail) = trimmed
    <3>1. b - trimmed + 1 \in Int /\ b \in Int
      BY <2>1
    <3> DEFINE a == b - trimmed + 1
    <3>2. /\ IsFiniteSet(a .. b)
          /\ Cardinality(a .. b) = IF a > b THEN 0 ELSE b - a + 1
      <4> HIDE DEF a
      <4> QED  BY <3>1, FS_Interval DEF a
    <3> QED  BY <2>1, <3>2
  <2> HIDE DEF tail, lost
  <2>4. IsFiniteSet(lost) /\ Cardinality(lost) <= Cardinality(tail)
    BY <2>2, <2>3, FS_Subset
  <2> QED  BY <2>3, <2>4 DEF lost
<1> QED  BY <1>1, Invariance, PTL
=============================================================================
