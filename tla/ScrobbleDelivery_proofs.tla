----------------------- MODULE ScrobbleDelivery_proofs -----------------------
(***************************************************************************)
(* What holds of the delivery of scrobbles for any plays, any sessions and *)
(* accounts, and any batch size.                                           *)
(***************************************************************************)
EXTENDS ScrobbleDelivery, Rows_proofs, FiniteSetTheorems

Counts == [switches : 0 .. MaxSwitches, announced : 0 .. MaxAnnounced,
           restarts : 0 .. MaxRestarts]

(* The types, one variable at a time.                                      *)
Types ==
  /\ client \in Clients \cup {NoClient}
  /\ sharing \in BOOLEAN /\ invalid \in BOOLEAN /\ late \in BOOLEAN /\ inflight \in BOOLEAN
  /\ rested \in BOOLEAN /\ switched \in BOOLEAN
  /\ queue \in Seq(Row)
  /\ pool \in Seq({"drain", "announce"})
  /\ pc \in {"idle", "dropping", "taking", "sending", "asking", "answered", "announcing"}
  /\ asked \in Clients
  /\ batch \in Seq(Row)
  /\ answer \in {"taken", "rejected", "failed", "revoked"}
  /\ known \in Accounts
  /\ revoked \subseteq Clients
  /\ sent \subseteq [play : Plays, from : Accounts, to : Accounts]
  /\ refused \subseteq Plays
  /\ dropped \subseteq Plays
  /\ counts \in Counts

LEMMA TypesAreTypeOK == Types <=> TypeOK
  BY DEF Types, TypeOK, Counts

Waiting == {i \in DOMAIN pool : pool[i] = "drain"}

(* The flag is set exactly while a drain waits or runs, and only one does. *)
FlagInv ==
  /\ \A i, j \in Waiting : i = j
  /\ Waiting # {} => inflight /\ ~Draining
  /\ Draining => inflight
  /\ inflight => Draining \/ Waiting # {}

HasBatch == pc \in {"sending", "asking", "answered"}

(* The batch is the front of the queue until it is removed, and when the
   worker is about to remove it, Last.fm has taken or refused all of it.   *)
BatchInv ==
  /\ HasBatch => /\ Len(batch) <= Len(queue)
                 /\ \A i \in 1 .. Len(batch) : queue[i] = batch[i]
  /\ pc = "answered" /\ answer \in {"taken", "rejected"} =>
       \A i \in 1 .. Len(batch) : batch[i].play \in Settled

(* While the account stays, what the drain read at its beginning is still
   so, and everything it handles was heard under that account.             *)
AccountInv ==
  ~switched =>
    /\ Draining => client # NoClient /\ known = AccountOf[client]
    /\ pc = "taking" \/ HasBatch => \A i \in DOMAIN queue : queue[i].account = known
    /\ HasBatch => \A i \in DOMAIN batch : batch[i].account = known
    /\ pc = "asking" => asked = client

IInv == Types /\ FlagInv /\ BatchInv /\ AccountInv

LEMMA InitIInv == Init => IInv
<1> SUFFICES ASSUME Init PROVE IInv
  OBVIOUS
<1>1. Types
  <2>1. /\ client \in Clients \cup {NoClient} /\ asked \in Clients
        /\ known \in Accounts
    BY DeliveryAssumption DEF Init, Accounts
  <2>2. queue \in Seq(Row) /\ batch \in Seq(Row) /\ pool \in Seq({"drain", "announce"})
    BY DEF Init
  <2>3. counts \in Counts
    BY DeliveryAssumption DEF Init, Counts
  <2>4. QED
    BY <2>1, <2>2, <2>3 DEF Init, Types
<1>2. Waiting = {} /\ ~Draining /\ ~HasBatch
  BY DEF Init, Waiting, Draining, HasBatch
<1>3. FlagInv /\ BatchInv /\ AccountInv
  BY <1>2 DEF Init, FlagInv, BatchInv, AccountInv, Draining, HasBatch
<1>4. QED
  BY <1>1, <1>3 DEF IInv

-----------------------------------------------------------------------------
(* The flag, step by step.                                                 *)

(* A drain that is started is the only one.                                *)
LEMMA MaybeDrainFlag ==
  ASSUME Types, FlagInv, NEW rows, NEW force, MaybeDrain(rows, force), pc' = pc
  PROVE  /\ FlagInv'
         /\ pool' \in Seq({"drain", "announce"})
         /\ inflight' \in BOOLEAN /\ rested' \in BOOLEAN
<1>1. CASE UNCHANGED <<inflight, rested, pool>>
  <2>1. Waiting' = Waiting /\ Draining' = Draining
    BY <1>1 DEF Waiting, Draining
  <2>2. QED
    BY <1>1, <2>1 DEF Types, FlagInv
<1>2. CASE /\ ~inflight /\ inflight' = TRUE /\ rested' = FALSE
           /\ pool' = Append(pool, "drain")
  <2>1. ~Draining /\ Waiting = {} /\ ~Draining'
    BY <1>2 DEF FlagInv, Draining
  <2>2. Waiting' = {Len(pool) + 1}
    <3>1. \A i \in DOMAIN pool : pool[i] # "drain"
      BY <2>1 DEF Waiting
    <3>2. /\ DOMAIN pool' = 1 .. Len(pool) + 1 /\ Len(pool) \in Nat
          /\ \A i \in 1 .. Len(pool) : pool'[i] = pool[i]
          /\ pool'[Len(pool) + 1] = "drain"
      BY <1>2 DEF Types
    <3>3. QED
      BY <3>1, <3>2 DEF Waiting
  <2>3. FlagInv'
    <3> HIDE DEF Waiting, Draining
    <3>1. QED
      BY <1>2, <2>1, <2>2 DEF FlagInv
  <2>4. pool \in Seq({"drain", "announce"})
    BY DEF Types
  <2>5. pool' \in Seq({"drain", "announce"})
    BY <1>2, <2>4
  <2>6. QED
    BY <1>2, <2>3, <2>5
<1>3. QED
  BY <1>1, <1>2 DEF MaybeDrain

(* A task for an announcement is no drain.                                 *)
LEMMA AnnounceFlag ==
  ASSUME Types, FlagInv, pool' = Append(pool, "announce"), UNCHANGED <<inflight, pc>>
  PROVE  FlagInv'
<1>1. /\ DOMAIN pool' = 1 .. Len(pool) + 1 /\ Len(pool) \in Nat
      /\ DOMAIN pool = 1 .. Len(pool)
      /\ \A i \in 1 .. Len(pool) : pool'[i] = pool[i]
      /\ pool'[Len(pool) + 1] = "announce"
  BY DEF Types
<1>2. Waiting' = Waiting
  BY <1>1 DEF Waiting
<1>3. QED
  BY <1>2 DEF FlagInv, Draining

(* The task at the head is taken: whatever waits behind it moves up.       *)
LEMMA TakeTask ==
  ASSUME Types, FlagInv, pool # <<>>, pool' = Tail(pool)
  PROVE  /\ pool' \in Seq({"drain", "announce"})
         /\ Head(pool) = "drain" => Waiting' = {} /\ inflight /\ ~Draining
         /\ Head(pool) = "announce" =>
              /\ \A i, j \in Waiting' : i = j
              /\ (Waiting' # {}) = (Waiting # {})
<1>1. /\ Len(pool) \in Nat /\ Len(pool) >= 1
      /\ DOMAIN pool = 1 .. Len(pool) /\ DOMAIN pool' = 1 .. Len(pool) - 1
      /\ \A i \in 1 .. Len(pool) - 1 : pool'[i] = pool[i + 1]
      /\ Head(pool) = pool[1]
      /\ pool' \in Seq({"drain", "announce"})
  BY DEF Types
<1>2. \A i \in Waiting' : i \in Nat /\ i + 1 \in Waiting /\ i + 1 # 1
  BY <1>1 DEF Waiting
<1>3. CASE Head(pool) = "drain"
  <2>1. 1 \in Waiting
    BY <1>1, <1>3 DEF Waiting
  <2>2. QED
    BY <1>1, <1>2, <1>3, <2>1 DEF FlagInv
<1>4. CASE Head(pool) = "announce"
  <2>1. \A i \in Waiting : i - 1 \in Waiting'
    BY <1>1, <1>4 DEF Waiting
  <2>2. \A i, j \in Waiting' : i = j
    BY <1>2 DEF FlagInv
  <2>3. (Waiting' # {}) = (Waiting # {})
    BY <1>2, <2>1
  <2>4. QED
    BY <1>1, <1>4, <2>2, <2>3
<1>5. QED
  BY <1>1, <1>3, <1>4

(* A drain goes on, or ends, with its flag.                                *)
LEMMA DrainGoesOn ==
  ASSUME FlagInv, Draining, UNCHANGED pool,
         \/ Draining' /\ UNCHANGED inflight
         \/ DrainEnds
  PROVE  FlagInv'
<1>1. Waiting = {} /\ inflight
  BY DEF FlagInv
<1>2. Waiting' = {}
  BY <1>1 DEF Waiting
<1>3. QED
  BY <1>1, <1>2 DEF FlagInv, DrainEnds, Draining

-----------------------------------------------------------------------------
(* Each part of the invariant is kept by every step.                       *)

LEMMA TypesStep ==
  ASSUME IInv, [Next]_vars
  PROVE  Types'
<1> USE DEF worker, history
<1>t. Types /\ FlagInv
  BY DEF IInv
<1>r. \A s \in Seq(Row) : \A i \in DOMAIN s : s[i].play \in Plays /\ s[i].account \in Accounts
  <2>1. \A s \in Seq(Row) : \A i \in DOMAIN s : s[i] \in Row
    OBVIOUS
  <2>2. QED
    BY <2>1 DEF Row
<1>1. ASSUME NEW p \in Plays, Enqueue(p) PROVE Types'
  <2> DEFINE row == [play |-> p, account |-> AccountOf[client]]
  <2>1. row \in Row
    BY <1>1, <1>t DEF Types, Enqueue, Row, Accounts
  <2>2. queue' \in Seq(Row)
    <3>1. queue \in Seq(Row) /\ queue' = Append(queue, row)
      BY <1>1, <1>t DEF Types, Enqueue
    <3> HIDE DEF row
    <3>2. QED
      BY <3>1, <2>1
  <2>3. /\ pool' \in Seq({"drain", "announce"})
        /\ inflight' \in BOOLEAN /\ rested' \in BOOLEAN
    BY <1>1, <1>t, MaybeDrainFlag DEF Enqueue
  <2>4. QED
    BY <1>1, <1>t, <2>2, <2>3 DEF Enqueue, Types
<1>2. CASE Poll
  <2>1. /\ pool' \in Seq({"drain", "announce"})
        /\ inflight' \in BOOLEAN /\ rested' \in BOOLEAN
    BY <1>2, <1>t, MaybeDrainFlag DEF Poll
  <2>2. QED
    BY <1>2, <1>t, <2>1 DEF Poll, Types
<1>3. CASE IntervalPasses
  BY <1>3, <1>t DEF IntervalPasses, Types
<1>4. CASE AnnounceSong
  <2>1. pool' \in Seq({"drain", "announce"})
    BY <1>4, <1>t DEF AnnounceSong, Types
  <2>2. counts' \in Counts
    <3>1. counts \in Counts
      BY <1>t DEF Types
    <3>2. QED
      BY <1>4, <3>1, DeliveryAssumption DEF AnnounceSong, Counts
  <2>3. QED
    BY <1>4, <1>t, <2>1, <2>2 DEF AnnounceSong, Types
<1>5. ASSUME NEW c \in Clients \cup {NoClient}, Reconfigure(c) PROVE Types'
  <2>1. counts' \in Counts
    <3>1. counts \in Counts
      BY <1>t DEF Types
    <3>2. QED
      BY <1>5, <3>1, DeliveryAssumption DEF Reconfigure, Counts
  <2>2. QED
    BY <1>5, <1>t, <2>1 DEF Reconfigure, Types
<1>6. CASE StartDrain
  <2>1. pool' \in Seq({"drain", "announce"})
    BY <1>6, <1>t, TakeTask DEF StartDrain
  <2>2. client # NoClient => AccountOf[client] \in Accounts
    BY <1>t DEF Types, Accounts
  <2>3. QED
    BY <1>6, <1>t, <2>1, <2>2 DEF StartDrain, DrainEnds, Types
<1>7. CASE DropOtherAccounts
  <2> DEFINE mine == {i \in DOMAIN queue : queue[i].account = known}
  <2>1. PICK n \in 0 .. Len(queue) : \E f \in Listings(n, mine) :
          queue' = [i \in 1 .. n |-> queue[f[i]]]
    BY <1>7 DEF DropOtherAccounts
  <2>2. queue \in Seq(Row) /\ n \in Nat /\ mine \in SUBSET DOMAIN queue
    BY <1>t DEF Types
  <2>3. queue' \in Seq(Row)
    <3> HIDE DEF mine
    <3>1. QED
      BY <2>1, <2>2, ListingProperties
  <2>4. dropped' \subseteq Plays
    <3>1. {queue[i].play : i \in DOMAIN queue \ mine} \subseteq Plays
      BY <2>2, <1>r
    <3>2. QED
      BY <1>7, <1>t, <3>1 DEF DropOtherAccounts, Types
  <2>5. QED
    BY <1>7, <1>t, <2>3, <2>4 DEF DropOtherAccounts, Types
<1>8. CASE TakeBatch
  <2>1. batch' \in Seq(Row)
    <3>1. queue \in Seq(Row) /\ batch \in Seq(Row) /\ BatchSize \in Nat
      BY <1>t, DeliveryAssumption DEF Types
    <3>2. QED
      BY <1>8, <3>1, PrefixProperties DEF TakeBatch
  <2>2. QED
    BY <1>8, <1>t, <2>1 DEF TakeBatch, DrainEnds, Types
<1>9. CASE SendWithoutClient \/ Send
  BY <1>9, <1>t DEF SendWithoutClient, Send, DrainEnds, Types
<1>10. CASE LastfmTakes \/ LastfmTakesUnheard
  <2>1. sent' \subseteq [play : Plays, from : Accounts, to : Accounts]
    <3>1. \A i \in DOMAIN batch : batch[i].play \in Plays /\ batch[i].account \in Accounts
      BY <1>t, <1>r DEF Types
    <3>2. AccountOf[asked] \in Accounts
      BY <1>t DEF Types, Accounts
    <3>3. Took(batch, asked) \subseteq [play : Plays, from : Accounts, to : Accounts]
      BY <3>1, <3>2 DEF Took
    <3>4. QED
      BY <1>10, <1>t, <3>3 DEF LastfmTakes, LastfmTakesUnheard, Types
  <2>2. QED
    BY <1>10, <1>t, <2>1 DEF LastfmTakes, LastfmTakesUnheard, Types
<1>11. CASE LastfmRejects
  <2>1. {batch[i].play : i \in DOMAIN batch} \subseteq Plays
    BY <1>t, <1>r DEF Types
  <2>2. QED
    BY <1>11, <1>t, <2>1 DEF LastfmRejects, Types
<1>12. CASE LastfmFails \/ LastfmRefusesSession
  BY <1>12, <1>t DEF LastfmFails, LastfmRefusesSession, Types
<1>13. CASE RemoveBatch
  <2>1. Len(batch) \in Nat /\ queue \in Seq(Row)
    BY <1>t DEF Types
  <2>2. queue' \in Seq(Row)
    BY <1>13, <2>1, AfterProperties DEF RemoveBatch
  <2>3. QED
    BY <1>13, <1>t, <2>2 DEF RemoveBatch, Types
<1>14. CASE StopDrain
  BY <1>14, <1>t DEF StopDrain, Latch, DrainEnds, Types
<1>15. CASE StartAnnouncement
  <2>1. pool' \in Seq({"drain", "announce"})
    BY <1>15, <1>t, TakeTask DEF StartAnnouncement
  <2>2. QED
    BY <1>15, <1>t, <2>1 DEF StartAnnouncement, Types
<1>16. CASE AnnouncementEnds
  BY <1>16, <1>t DEF AnnouncementEnds, Latch, Types
<1>17. ASSUME NEW c \in Clients, Revoke(c) PROVE Types'
  BY <1>17, <1>t DEF Revoke, Types
<1>18. CASE Restart
  <2>1. counts' \in Counts
    <3>1. counts \in Counts
      BY <1>t DEF Types
    <3>2. QED
      BY <1>18, <3>1, DeliveryAssumption DEF Restart, Counts
  <2>3. queue' \in Seq(Row)
    <3>1. queue \in Seq(Row)
      BY <1>t DEF Types
    <3>2. ASSUME NEW p \in Plays, client # NoClient,
                 queue' = Append(queue, [play |-> p, account |-> AccountOf[client]])
          PROVE  queue' \in Seq(Row)
      <4> DEFINE row == [play |-> p, account |-> AccountOf[client]]
      <4>1. row \in Row
        BY <1>t, <3>2 DEF Types, Row, Accounts
      <4>2. queue' = Append(queue, row)
        BY <3>2
      <4> HIDE DEF row
      <4>3. QED
        BY <3>1, <4>1, <4>2
    <3>3. QED
      BY <1>18, <3>1, <3>2 DEF Restart
  <2>2. QED
    <3>1. pool' \in Seq({"drain", "announce"})
      BY <1>18 DEF Restart
    <3>2. /\ invalid' = FALSE /\ late' = FALSE /\ inflight' = FALSE /\ rested' = TRUE
          /\ pc' = "idle"
          /\ UNCHANGED <<client, sharing, asked, batch, answer, known, revoked, switched,
                         sent, refused, dropped>>
      BY <1>18 DEF Restart
    <3>3. QED
      BY <1>t, <2>1, <2>3, <3>1, <3>2 DEF Types
<1>19. CASE UNCHANGED vars
  BY <1>19, <1>t DEF vars, Types
<1>21. CASE SwitchSharing
  BY <1>21, <1>t DEF SwitchSharing, Types
<1>20. QED
  BY <1>1, <1>2, <1>3, <1>4, <1>5, <1>6, <1>7, <1>8, <1>9, <1>10, <1>11, <1>12, <1>13,
     <1>14, <1>15, <1>16, <1>17, <1>18, <1>19, <1>21 DEF Next, WorkerSteps, LastfmAnswers

LEMMA FlagStep ==
  ASSUME IInv, [Next]_vars
  PROVE  FlagInv'
<1> USE DEF worker, history
<1>t. Types /\ FlagInv
  BY DEF IInv
<1>1. ASSUME NEW p \in Plays, Enqueue(p) PROVE FlagInv'
  BY <1>1, <1>t, MaybeDrainFlag DEF Enqueue
<1>2. CASE Poll
  BY <1>2, <1>t, MaybeDrainFlag DEF Poll
<1>3. CASE AnnounceSong
  BY <1>3, <1>t, AnnounceFlag DEF AnnounceSong
<1>4. CASE StartDrain
  <2>1. Waiting' = {} /\ inflight
    BY <1>4, <1>t, TakeTask DEF StartDrain
  <2>2. QED
    BY <1>4, <2>1 DEF StartDrain, DrainEnds, FlagInv, Draining
<1>5. CASE DropOtherAccounts \/ Send \/ LastfmAnswers \/ RemoveBatch
  <2>1. Draining /\ Draining' /\ UNCHANGED <<inflight, pool>>
    BY <1>5 DEF DropOtherAccounts, Send, LastfmAnswers, LastfmTakes, LastfmTakesUnheard,
                LastfmRejects, LastfmFails, LastfmRefusesSession, RemoveBatch, Draining
  <2>2. QED
    BY <1>t, <2>1, DrainGoesOn
<1>6. CASE TakeBatch
  <2>1. Draining /\ UNCHANGED pool
    BY <1>6 DEF TakeBatch, Draining
  <2>2. (Draining' /\ UNCHANGED inflight) \/ DrainEnds
    BY <1>6 DEF TakeBatch, Draining
  <2>3. QED
    BY <1>t, <2>1, <2>2, DrainGoesOn
<1>7. CASE SendWithoutClient \/ StopDrain
  <2>1. Draining /\ UNCHANGED pool /\ DrainEnds
    BY <1>7 DEF SendWithoutClient, StopDrain, Draining
  <2>2. QED
    BY <1>t, <2>1, DrainGoesOn
<1>8. CASE StartAnnouncement
  <2>1. /\ \A i, j \in Waiting' : i = j
        /\ (Waiting' # {}) = (Waiting # {})
    BY <1>8, <1>t, TakeTask DEF StartAnnouncement
  <2>2. ~Draining /\ ~Draining' /\ UNCHANGED inflight
    BY <1>8 DEF StartAnnouncement, Draining
  <2>3. QED
    BY <1>t, <2>1, <2>2, Zenon DEF FlagInv
<1>9. CASE AnnouncementEnds
  <2>1. UNCHANGED <<inflight, pool>> /\ ~Draining /\ ~Draining'
    BY <1>9 DEF AnnouncementEnds, Draining
  <2>2. Waiting' = Waiting
    BY <2>1 DEF Waiting
  <2>3. QED
    BY <1>t, <2>1, <2>2 DEF FlagInv
<1>10. CASE Restart
  <2>1. Waiting' = {} /\ ~Draining' /\ ~inflight'
    BY <1>10 DEF Restart, Waiting, Draining
  <2>2. QED
    BY <2>1 DEF FlagInv
<1>11. ASSUME UNCHANGED <<inflight, pool, pc>> PROVE FlagInv'
  BY <1>11, <1>t DEF FlagInv, Waiting, Draining
<1>12. CASE IntervalPasses \/ SwitchSharing
  BY <1>11, <1>12 DEF IntervalPasses, SwitchSharing
<1>13. ASSUME NEW c \in Clients \cup {NoClient}, Reconfigure(c) PROVE FlagInv'
  BY <1>11, <1>13 DEF Reconfigure
<1>14. ASSUME NEW c \in Clients, Revoke(c) PROVE FlagInv'
  BY <1>11, <1>14 DEF Revoke
<1>15. CASE UNCHANGED vars
  BY <1>11, <1>15 DEF vars
<1>16. QED
  BY <1>1, <1>2, <1>3, <1>4, <1>5, <1>6, <1>7, <1>8, <1>9, <1>10, <1>12, <1>13, <1>14,
     <1>15 DEF Next, WorkerSteps

(* The batch stays the front of the queue.                                 *)
LEMMA BatchStep ==
  ASSUME IInv, [Next]_vars
  PROVE  BatchInv'
<1> USE DEF worker, history
<1>t. Types /\ BatchInv
  BY DEF IInv
<1>1. ASSUME NEW p \in Plays, Enqueue(p) PROVE BatchInv'
  <2> DEFINE row == [play |-> p, account |-> AccountOf[client]]
  <2>1. queue' = Append(queue, row) /\ queue \in Seq(Row) /\ batch \in Seq(Row)
    BY <1>1, <1>t DEF Enqueue, Types
  <2>2. /\ Len(queue') = Len(queue) + 1 /\ Len(queue) \in Nat /\ Len(batch) \in Nat
        /\ \A i \in 1 .. Len(queue) : queue'[i] = queue[i]
    <3> HIDE DEF row
    <3>1. QED
      BY <2>1
  <2>3. UNCHANGED <<pc, batch, answer, sent, refused, dropped>>
    BY <1>1 DEF Enqueue
  <2>4. QED
    BY <1>t, <2>2, <2>3 DEF BatchInv, HasBatch, Settled
<1>2. CASE TakeBatch
  <2>1. queue \in Seq(Row) /\ Len(queue) \in Nat /\ BatchSize \in Nat
    BY <1>t, DeliveryAssumption DEF Types
  <2>2. CASE queue = <<>>
    BY <1>2, <2>2 DEF TakeBatch, DrainEnds, BatchInv, HasBatch
  <2>3. CASE queue # <<>>
    <3>1. pc' = "sending" /\ batch' = Prefix(queue, BatchSize) /\ UNCHANGED queue
      BY <1>2, <2>3 DEF TakeBatch
    <3>2. /\ Len(batch') = Smaller(BatchSize, Len(queue))
          /\ \A i \in 1 .. Smaller(BatchSize, Len(queue)) : batch'[i] = queue[i]
      BY <2>1, <3>1, PrefixProperties
    <3>3. Smaller(BatchSize, Len(queue)) <= Len(queue)
      BY <2>1 DEF Smaller
    <3>4. QED
      BY <3>1, <3>2, <3>3 DEF BatchInv, HasBatch
  <2>4. QED
    BY <2>2, <2>3
<1>3. CASE Send
  BY <1>3, <1>t DEF Send, BatchInv, HasBatch
<1>4. CASE LastfmTakes \/ LastfmTakesUnheard \/ LastfmRejects
  <2>1. pc = "asking" /\ UNCHANGED <<queue, batch>>
    BY <1>4 DEF LastfmTakes, LastfmTakesUnheard, LastfmRejects
  <2>2. DOMAIN batch = 1 .. Len(batch)
    BY <1>t DEF Types
  <2>3. \A i \in 1 .. Len(batch) : batch[i].play \in Settled'
    <3>1. ASSUME NEW i \in 1 .. Len(batch), LastfmTakes \/ LastfmTakesUnheard
          PROVE  batch[i].play \in Settled'
      <4> DEFINE s == [play |-> batch[i].play, from |-> batch[i].account,
                       to |-> AccountOf[asked]]
      <4>1. s \in sent'
        BY <3>1, <2>2 DEF LastfmTakes, LastfmTakesUnheard, Took
      <4>2. s.play = batch[i].play
        OBVIOUS
      <4> HIDE DEF s
      <4>3. QED
        BY <4>1, <4>2 DEF Settled
    <3>2. CASE LastfmRejects
      BY <3>2, <2>2 DEF LastfmRejects, Settled
    <3>3. QED
      BY <1>4, <3>1, <3>2
  <2>4. QED
    BY <1>t, <2>1, <2>3 DEF BatchInv, HasBatch
<1>5. CASE LastfmFails \/ LastfmRefusesSession
  BY <1>5, <1>t DEF LastfmFails, LastfmRefusesSession, BatchInv, HasBatch
<1>6. CASE \/ StartDrain \/ DropOtherAccounts \/ SendWithoutClient \/ RemoveBatch \/ StopDrain
           \/ StartAnnouncement \/ AnnouncementEnds \/ Restart
  <2>1. pc' \in {"idle", "dropping", "taking", "announcing"} \/ (pc' = pc /\ pc = "idle")
    BY <1>6 DEF StartDrain, DropOtherAccounts, SendWithoutClient, RemoveBatch, StopDrain,
                StartAnnouncement, AnnouncementEnds, Restart, DrainEnds
  <2>2. QED
    BY <2>1 DEF BatchInv, HasBatch
<1>7. ASSUME UNCHANGED <<queue, worker, history>> PROVE BatchInv'
  BY <1>7, <1>t DEF BatchInv, HasBatch, Settled
<1>8. CASE Poll \/ IntervalPasses \/ AnnounceSong \/ SwitchSharing
  BY <1>7, <1>8 DEF Poll, IntervalPasses, AnnounceSong, SwitchSharing
<1>9. ASSUME NEW c \in Clients \cup {NoClient}, Reconfigure(c) PROVE BatchInv'
  BY <1>7, <1>9 DEF Reconfigure
<1>10. ASSUME NEW c \in Clients, Revoke(c) PROVE BatchInv'
  BY <1>7, <1>10 DEF Revoke
<1>11. CASE UNCHANGED vars
  BY <1>7, <1>11 DEF vars
<1>12. QED
  BY <1>1, <1>2, <1>3, <1>4, <1>5, <1>6, <1>8, <1>9, <1>10, <1>11
  DEF Next, WorkerSteps, LastfmAnswers

(* What the drain knows of the account stays true while the account does.  *)
LEMMA AccountStep ==
  ASSUME IInv, [Next]_vars
  PROVE  AccountInv'
<1> USE DEF worker, history
<1>t. Types /\ FlagInv /\ AccountInv /\ BatchInv
  BY DEF IInv
<1>1. ASSUME NEW p \in Plays, Enqueue(p) PROVE AccountInv'
  <2> DEFINE row == [play |-> p, account |-> AccountOf[client]]
  <2>1. queue' = Append(queue, row) /\ queue \in Seq(Row)
    BY <1>1, <1>t DEF Enqueue, Types
  <2>2. row.account = AccountOf[client]
    OBVIOUS
  <2>3. \A i \in DOMAIN queue' :
          (i \in DOMAIN queue /\ queue'[i] = queue[i]) \/ queue'[i] = row
    <3> HIDE DEF row
    <3>1. QED
      BY <2>1
  <2> HIDE DEF row
  <2>4. UNCHANGED <<switched, pc, client, known, batch, asked>>
    BY <1>1 DEF Enqueue
  <2>5. ASSUME ~switched, pc = "taking" \/ HasBatch
        PROVE  \A i \in DOMAIN queue' : queue'[i].account = known
    <3>1. Draining
      BY <2>5 DEF Draining, HasBatch
    <3>2. QED
      BY <1>t, <2>2, <2>3, <2>5, <3>1 DEF AccountInv
  <2>6. QED
    BY <1>t, <2>4, <2>5 DEF AccountInv, Draining, HasBatch
<1>2. CASE StartDrain
  BY <1>2 DEF StartDrain, DrainEnds, AccountInv, Draining, HasBatch
<1>3. CASE DropOtherAccounts
  <2> DEFINE mine == {i \in DOMAIN queue : queue[i].account = known}
  <2>1. PICK n \in 0 .. Len(queue) : \E f \in Listings(n, mine) :
          queue' = [i \in 1 .. n |-> queue[f[i]]]
    BY <1>3 DEF DropOtherAccounts
  <2>2. queue \in Seq(Row) /\ n \in Nat /\ mine \in SUBSET DOMAIN queue
    BY <1>t DEF Types
  <2>3. \A j \in DOMAIN queue' : \E i \in mine : queue'[j] = queue[i]
    <3>1. PICK f \in Listings(n, mine) : queue' = [i \in 1 .. n |-> queue[f[i]]]
      BY <2>1
    <3>2. f \in [1 .. n -> mine]
      BY DEF Listings
    <3>3. \A j \in DOMAIN queue' : f[j] \in mine /\ queue'[j] = queue[f[j]]
      <4> HIDE DEF mine
      <4>1. QED
        BY <3>1, <3>2
    <3>4. QED
      BY <3>3, Zenon
  <2>4. \A j \in DOMAIN queue' : queue'[j].account = known
    BY <2>3
  <2>5. pc = "dropping" /\ pc' = "taking" /\ UNCHANGED <<switched, client, known>>
    BY <1>3 DEF DropOtherAccounts
  <2>6. QED
    BY <1>t, <2>4, <2>5 DEF AccountInv, Draining, HasBatch
<1>4. CASE TakeBatch
  <2>1. UNCHANGED <<switched, client, known, queue>> /\ pc = "taking"
    BY <1>4 DEF TakeBatch
  <2>2. CASE queue = <<>>
    BY <1>4, <2>2 DEF TakeBatch, DrainEnds, AccountInv, Draining, HasBatch
  <2>3. CASE queue # <<>>
    <3>1. pc' = "sending" /\ batch' = Prefix(queue, BatchSize)
      BY <1>4, <2>3 DEF TakeBatch
    <3>2. \A i \in DOMAIN batch' : i \in DOMAIN queue /\ batch'[i] = queue[i]
      <4>1. queue \in Seq(Row) /\ Len(queue) \in Nat /\ BatchSize \in Nat
        BY <1>t, DeliveryAssumption DEF Types
      <4>2. QED
        BY <3>1, <4>1 DEF Prefix, Smaller
    <3>3. QED
      BY <1>t, <2>1, <3>1, <3>2 DEF AccountInv, Draining, HasBatch
  <2>4. QED
    BY <2>2, <2>3
<1>5. CASE Send
  BY <1>5, <1>t DEF Send, AccountInv, Draining, HasBatch
<1>6. CASE LastfmAnswers
  <2>1. pc = "asking" /\ pc' = "answered" /\ UNCHANGED <<switched, client, known, queue, batch>>
    BY <1>6 DEF LastfmAnswers, LastfmTakes, LastfmTakesUnheard, LastfmRejects, LastfmFails,
                LastfmRefusesSession
  <2>2. QED
    BY <1>t, <2>1 DEF AccountInv, Draining, HasBatch
<1>7. CASE RemoveBatch
  <2>1. queue \in Seq(Row) /\ Len(batch) \in Nat /\ Len(batch) <= Len(queue)
    BY <1>7, <1>t DEF RemoveBatch, Types, BatchInv, HasBatch
  <2>2. queue' = After(queue, Len(batch)) /\ pc = "answered" /\ pc' = "taking"
        /\ UNCHANGED <<switched, client, known>>
    BY <1>7 DEF RemoveBatch
  <2>3. \A j \in DOMAIN queue' : \E i \in Len(batch) + 1 .. Len(queue) : queue'[j] = queue[i]
    BY <2>1, <2>2, AfterKeeps
  <2>4. \A i \in Len(batch) + 1 .. Len(queue) : i \in DOMAIN queue
    BY <2>1
  <2>5. ~switched => \A j \in DOMAIN queue' : queue'[j].account = known
    BY <1>t, <2>2, <2>3, <2>4 DEF AccountInv, HasBatch
  <2>6. QED
    BY <1>t, <2>2, <2>5 DEF AccountInv, Draining, HasBatch
<1>8. CASE SendWithoutClient \/ StopDrain \/ AnnouncementEnds \/ Restart
  <2>1. pc' = "idle"
    BY <1>8 DEF SendWithoutClient, StopDrain, AnnouncementEnds, Restart, DrainEnds
  <2>2. QED
    BY <2>1 DEF AccountInv, Draining, HasBatch
<1>9. CASE StartAnnouncement
  <2>1. pc' \in {"idle", "announcing"}
    BY <1>9 DEF StartAnnouncement
  <2>2. QED
    BY <2>1 DEF AccountInv, Draining, HasBatch
<1>10. ASSUME NEW c \in Clients \cup {NoClient}, Reconfigure(c) PROVE AccountInv'
  BY <1>10 DEF Reconfigure, AccountInv
<1>11. ASSUME UNCHANGED <<switched, client, queue, worker>> PROVE AccountInv'
  BY <1>11, <1>t DEF AccountInv, Draining, HasBatch
<1>12. CASE Poll \/ IntervalPasses \/ AnnounceSong \/ SwitchSharing
  BY <1>11, <1>12 DEF Poll, IntervalPasses, AnnounceSong, SwitchSharing
<1>13. ASSUME NEW c \in Clients, Revoke(c) PROVE AccountInv'
  BY <1>11, <1>13 DEF Revoke
<1>14. CASE UNCHANGED vars
  BY <1>11, <1>14 DEF vars
<1>15. QED
  BY <1>1, <1>2, <1>3, <1>4, <1>5, <1>6, <1>7, <1>8, <1>9, <1>10, <1>12, <1>13, <1>14
  DEF Next, WorkerSteps

-----------------------------------------------------------------------------
(* The theorems.                                                           *)

(* The inductive invariant: the flag tells whether a drain waits or runs,
   the batch is the front of the queue, and a drain that saw no change of
   account handles only plays of the account that is connected.            *)
THEOREM Invariance == Spec => []IInv
<1>1. Init => IInv
  BY InitIInv
<1>2. IInv /\ [Next]_vars => IInv'
  BY TypesStep, FlagStep, BatchStep, AccountStep DEF IInv
<1>3. QED
  BY <1>1, <1>2, PTL DEF Spec

(* Every variable keeps its type; above all the request always goes out
   under a session (_submit_batch looks at the client before it asks).     *)
THEOREM TypeCorrect == Spec => []TypeOK
<1>1. IInv => TypeOK
  BY TypesAreTypeOK DEF IInv
<1>2. QED
  BY <1>1, Invariance, PTL

(* However polls, restarts, changes of account and failures follow one
   another, one drain at most waits or runs, and _drain_inflight is set
   exactly then.                                                           *)
THEOREM OneDrainAtATime == Spec => []OneDrain
<1>1. IInv => OneDrain
  <2> SUFFICES ASSUME IInv PROVE OneDrain
    OBVIOUS
  <2>1. FlagInv
    BY DEF IInv
  <2>2. Cardinality({}) = 0 /\ \A i : Cardinality({i}) = 1
    BY FS_EmptySet, FS_Singleton
  <2>3. CASE Waiting = {}
    <3>1. inflight <=> Draining
      BY <2>1, <2>3 DEF FlagInv
    <3>2. Cardinality(Waiting) = 0
      BY <2>2, <2>3
    <3>3. QED
      BY <3>1, <3>2 DEF OneDrain, Waiting
  <2>4. CASE Waiting # {}
    <3>1. PICK i \in Waiting : Waiting = {i}
      BY <2>1, <2>4 DEF FlagInv
    <3>2. Cardinality(Waiting) = 1
      BY <2>2, <3>1
    <3>3. inflight /\ ~Draining
      BY <2>1, <2>4 DEF FlagInv
    <3>4. QED
      BY <3>2, <3>3 DEF OneDrain, Waiting
  <2>5. QED
    BY <2>3, <2>4
<1>2. QED
  BY <1>1, Invariance, PTL

(* A play is submitted under the account it was heard under, unless the
   account was changed after the drain had looked which one it is.         *)
THEOREM ToItsOwnAccount == Spec => OwnAccountUnlessSwitched
<1> DEFINE A == ~switched /\ Draining => \A s \in sent' \ sent : s.from = s.to
<1>1. IInv /\ [Next]_vars => [A]_vars
  <2> SUFFICES ASSUME IInv, [Next]_vars, ~switched, Draining, NEW s \in sent' \ sent
               PROVE  s.from = s.to
    OBVIOUS
  <2>1. LastfmTakes \/ LastfmTakesUnheard \/ UNCHANGED sent
    BY DEF vars, worker, history, Next, Enqueue, Poll, IntervalPasses, AnnounceSong, Reconfigure, SwitchSharing,
       WorkerSteps, StartDrain, DropOtherAccounts, TakeBatch, SendWithoutClient, Send,
       LastfmAnswers, LastfmRejects, LastfmFails, LastfmRefusesSession, RemoveBatch,
       StopDrain, StartAnnouncement, AnnouncementEnds, Revoke, Restart
  <2>2. pc = "asking" /\ s \in Took(batch, asked)
    BY <2>1 DEF LastfmTakes, LastfmTakesUnheard
  <2>3. PICK i \in DOMAIN batch :
          s = [play |-> batch[i].play, from |-> batch[i].account, to |-> AccountOf[asked]]
    BY <2>2 DEF Took
  <2>4. /\ asked = client /\ known = AccountOf[client]
        /\ batch[i].account = known
    BY <2>2 DEF IInv, AccountInv, HasBatch, Draining
  <2>5. QED
    BY <2>3, <2>4
<1>2. QED
  BY <1>1, Invariance, PTL DEF Spec, OwnAccountUnlessSwitched

(* No play is lost on the way: what leaves the queue was taken or refused
   by Last.fm, or was heard under an account that is not connected.        *)
THEOREM NothingLeavesUnsettled == Spec => LeavesForAReason
<1> DEFINE A == \A p \in Queued : p \in Queued' \/ p \in Settled'
<1>1. IInv /\ [Next]_vars => [A]_vars
  <2> SUFFICES ASSUME IInv, [Next]_vars, NEW k \in DOMAIN queue
               PROVE  queue[k].play \in Queued' \/ queue[k].play \in Settled'
    BY DEF Queued
  <2>t. Types /\ BatchInv /\ Types'
    BY TypesStep DEF IInv
  <2>q. queue \in Seq(Row) /\ Len(queue) \in Nat /\ k \in 1 .. Len(queue)
    BY <2>t DEF Types
  <2>1. ASSUME UNCHANGED queue PROVE queue[k].play \in Queued'
    BY <2>1 DEF Queued
  <2>2. ASSUME NEW row, queue' = Append(queue, row) PROVE queue[k].play \in Queued'
    <3>1. k \in DOMAIN queue' /\ queue'[k] = queue[k]
      BY <2>q, <2>2
    <3>2. QED
      BY <3>1 DEF Queued
  <2>3. CASE DropOtherAccounts
    <3> DEFINE mine == {i \in DOMAIN queue : queue[i].account = known}
    <3>1. PICK n \in 0 .. Len(queue) : \E f \in Listings(n, mine) :
            queue' = [i \in 1 .. n |-> queue[f[i]]]
      BY <2>3 DEF DropOtherAccounts
    <3>2. n \in Nat /\ mine \in SUBSET DOMAIN queue
      BY <2>q
    <3>3. CASE k \in mine
      <4>1. \E j \in DOMAIN queue' : queue'[j] = queue[k]
        <5>1. PICK f \in Listings(n, mine) : queue' = [i \in 1 .. n |-> queue[f[i]]]
          BY <3>1
        <5> HIDE DEF mine
        <5>2. \A i \in mine : \E j \in DOMAIN queue' : queue'[j] = queue[i]
          BY <2>q, <3>2, <5>1, ListingProperties
        <5>3. QED
          BY <3>3, <5>2
      <4>2. QED
        BY <4>1 DEF Queued
    <3>4. CASE k \notin mine
      <4>1. queue[k].play \in dropped'
        BY <2>3, <3>4 DEF DropOtherAccounts
      <4>2. QED
        BY <4>1 DEF Settled
    <3>5. QED
      BY <3>3, <3>4
  <2>4. CASE RemoveBatch
    <3>1. /\ pc = "answered" /\ answer \in {"taken", "rejected"}
          /\ queue' = After(queue, Len(batch)) /\ UNCHANGED <<sent, refused, dropped>>
      BY <2>4 DEF RemoveBatch, history
    <3>2. /\ Len(batch) \in Nat /\ Len(batch) <= Len(queue)
          /\ \A i \in 1 .. Len(batch) : queue[i] = batch[i] /\ batch[i].play \in Settled
      BY <2>t, <3>1 DEF Types, BatchInv, HasBatch
    <3>3. CASE k <= Len(batch)
      <4>1. queue[k].play \in Settled
        BY <2>q, <3>2, <3>3
      <4>2. QED
        BY <3>1, <4>1 DEF Settled
    <3>4. CASE k > Len(batch)
      <4>1. k \in Len(batch) + 1 .. Len(queue)
        BY <2>q, <3>2, <3>4
      <4>2. \A i \in Len(batch) + 1 .. Len(queue) :
              \E j \in DOMAIN queue' : queue'[j] = queue[i]
        BY <2>q, <3>1, <3>2, AfterKeeps
      <4>3. \E j \in DOMAIN queue' : queue'[j] = queue[k]
        BY <4>1, <4>2
      <4>4. QED
        BY <4>3 DEF Queued
    <3>5. QED
      BY <2>q, <3>2, <3>3, <3>4
  <2>7. ASSUME NEW p \in Plays, Enqueue(p) PROVE queue[k].play \in Queued'
    BY <2>2, <2>7 DEF Enqueue
  <2>8. CASE Restart
    BY <2>1, <2>2, <2>8 DEF Restart
  <2>5. \/ (\E p \in Plays : Enqueue(p)) \/ DropOtherAccounts \/ RemoveBatch \/ Restart
        \/ UNCHANGED queue
    BY DEF vars, worker, history, Next, Poll, IntervalPasses, AnnounceSong, Reconfigure, SwitchSharing,
       WorkerSteps, StartDrain, TakeBatch, SendWithoutClient, Send,
       LastfmAnswers, LastfmTakes, LastfmTakesUnheard, LastfmRejects, LastfmFails,
       LastfmRefusesSession, StopDrain, StartAnnouncement, AnnouncementEnds, Revoke
  <2>6. QED
    BY <2>1, <2>3, <2>4, <2>5, <2>7, <2>8
<1>2. QED
  BY <1>1, Invariance, PTL DEF Spec, LeavesForAReason
=============================================================================
