--------------------------- MODULE ScrobbleDelivery ---------------------------
(***************************************************************************)
(* How queued plays reach Last.fm (src/refrain/scrobble.py, the part of    *)
(* Scrobbler behind the queue).                                            *)
(*                                                                         *)
(* The poll thread queues plays, starts a drain when one is due and sends  *)
(* "now playing", all of it only while an account is connected and sharing *)
(* is on; the Settings page changes the account and turns sharing off and  *)
(* on; one worker thread runs the drains and the announcements in order,   *)
(* whatever the settings have become meanwhile.  The worker reads the      *)
(* client twice in a drain, once under the lock to drop what was heard     *)
(* under another account, and again, without it, for every batch.          *)
(*                                                                         *)
(* A client stands for a session of an account.  Last.fm may revoke a      *)
(* session, refuse what is submitted, be out of reach, or take a batch and *)
(* its answer be lost.  The queue is a sequence here; how it is kept on    *)
(* disk and capped is ScrobbleQueue.                                       *)
(***************************************************************************)
EXTENDS Integers, Sequences, FiniteSets, Rows

CONSTANTS
  Plays,        \* plays that may be queued
  Clients,      \* sessions
  NoClient,     \* scrobbling is off or not connected
  AccountOf,    \* the account of each session
  BatchSize,    \* MAX_BATCH
  MaxPool,      \* bound of the model: tasks waiting for the worker
  MaxSwitches,  \* bound of the model: changes of the client
  MaxRevoked,   \* bound of the model: sessions Last.fm revokes
  MaxAnnounced, \* bound of the model: "now playing" updates
  MaxRestarts   \* bound of the model: restarts of Refrain

ASSUME DeliveryAssumption ==
  /\ NoClient \notin Clients
  /\ DOMAIN AccountOf = Clients
  /\ BatchSize \in Nat \ {0}
  /\ {MaxPool, MaxSwitches, MaxRevoked, MaxAnnounced, MaxRestarts} \subseteq Nat

VARIABLES
  client,    \* _client, and with it _cfg.username
  sharing,   \* config.privacy.mode is not "off"
  invalid,   \* _session_invalid
  inflight,  \* _drain_inflight
  rested,    \* _DRAIN_INTERVAL_S has passed since _last_drain_mono
  queue,     \* the queue of plays, oldest first
  pool,      \* the executor's waiting tasks
  pc,        \* where the worker stands
  asked,     \* the session the worker's request goes out under
  batch,     \* the plays it submits
  answer,    \* what Last.fm made of it
  known,     \* the account the drain read when it began
  revoked,   \* environment: sessions Last.fm no longer takes
  sent,      \* history: plays Last.fm took, and for which account
  refused,   \* history: plays Last.fm refused for good
  dropped,   \* history: plays dropped because of their account
  switched,  \* history: the client changed since the drain began
  late,      \* history: the latch was set by an answer to another session
  counts     \* bounds of the model

vars == <<client, sharing, invalid, late, inflight, rested, queue, pool, pc, asked, batch, answer, known,
          revoked, sent, refused, dropped, switched, counts>>

worker == <<pc, asked, batch, answer, known>>
history == <<sent, refused, dropped>>

Accounts == {AccountOf[c] : c \in Clients}
Row == [play : Plays, account : Accounts]

Queued == {queue[i].play : i \in DOMAIN queue}
Settled == {s.play : s \in sent} \cup refused \cup dropped

----------------------------------------------------------------------------
(* The poll thread.                                                        *)

(* Variant: a new play does not start a drain unless one is due, and a play
   that ticks along does not either.                                       *)
DrainOnlyByForce(rows, force) ==
  IF client # NoClient /\ ~invalid /\ ~inflight /\ rows # <<>> /\ force
    THEN /\ inflight' = TRUE
         /\ rested' = FALSE
         /\ pool' = Append(pool, "drain")
    ELSE UNCHANGED <<inflight, rested, pool>>

(* _maybe_drain_locked, with the queue as it now is.                       *)
MaybeDrain(rows, force) ==
  IF client # NoClient /\ ~invalid /\ ~inflight /\ rows # <<>> /\ (force \/ rested)
    THEN /\ inflight' = TRUE
         /\ rested' = FALSE
         /\ pool' = Append(pool, "drain")
    ELSE UNCHANGED <<inflight, rested, pool>>

(* A play is banked, under the account of the moment.  Every step of the   *)
(* poll thread is behind the early return of update: with no client, or    *)
(* with sharing off, nothing is queued, started or announced.              *)
Enqueue(p) ==
  /\ sharing /\ client # NoClient
  /\ p \notin Queued \cup Settled
  /\ LET rows == Append(queue, [play |-> p, account |-> AccountOf[client]])
     IN  /\ queue' = rows
         /\ MaybeDrain(rows, TRUE)
  /\ UNCHANGED <<client, sharing, invalid, late, revoked, switched, counts, worker, history>>

(* A poll in which nothing is banked.                                      *)
Poll ==
  /\ sharing /\ client # NoClient
  /\ MaybeDrain(queue, FALSE)
  /\ UNCHANGED <<client, sharing, invalid, late, queue, revoked, switched, counts, worker, history>>

IntervalPasses ==
  /\ ~rested
  /\ rested' = TRUE
  /\ UNCHANGED <<client, sharing, invalid, late, inflight, queue, pool, revoked, switched, counts,
                 worker, history>>

(* "Now playing" for a song that begins.                                   *)
AnnounceSong ==
  /\ sharing /\ client # NoClient /\ ~invalid
  /\ Len(pool) < MaxPool
  /\ counts.announced < MaxAnnounced
  /\ counts' = [counts EXCEPT !.announced = @ + 1]
  /\ pool' = Append(pool, "announce")
  /\ UNCHANGED <<client, sharing, invalid, late, inflight, rested, queue, revoked, switched, worker, history>>

(* The user connects, changes the account or turns scrobbling off; a new
   session has not been refused.                                           *)
Reconfigure(c) ==
  /\ c # client
  /\ counts.switches < MaxSwitches
  /\ counts' = [counts EXCEPT !.switches = @ + 1]
  /\ client' = c
  /\ invalid' = FALSE /\ late' = FALSE
  /\ switched' = TRUE
  /\ UNCHANGED <<sharing, inflight, rested, queue, pool, revoked, worker, history>>

(* The user turns sharing off, or on again.                                *)
SwitchSharing ==
  /\ sharing' = ~sharing
  /\ UNCHANGED <<client, invalid, late, inflight, rested, queue, pool, revoked, switched,
                 counts, worker, history>>

----------------------------------------------------------------------------
(* The worker.                                                             *)

(* The drain is over, however it ended.                                    *)
DrainEnds ==
  /\ pc' = "idle"
  /\ inflight' = FALSE

(* Variant: a drain that finds no client leaves its flag set.              *)
StartDrainStuck ==
  /\ pc = "idle" /\ pool # <<>> /\ Head(pool) = "drain"
  /\ pool' = Tail(pool)
  /\ switched' = FALSE
  /\ IF client = NoClient
       THEN pc' = "idle" /\ UNCHANGED <<inflight, known>>
       ELSE /\ pc' = "dropping"
            /\ known' = AccountOf[client]
            /\ UNCHANGED inflight
  /\ UNCHANGED <<client, sharing, invalid, late, rested, queue, asked, batch, answer, revoked, counts, history>>

(* _do_drain reads the client and the account under the lock.              *)
StartDrain ==
  /\ pc = "idle" /\ pool # <<>> /\ Head(pool) = "drain"
  /\ pool' = Tail(pool)
  /\ switched' = FALSE
  /\ IF client = NoClient
       THEN DrainEnds /\ UNCHANGED known
       ELSE /\ pc' = "dropping"
            /\ known' = AccountOf[client]
            /\ UNCHANGED inflight
  /\ UNCHANGED <<client, sharing, invalid, late, rested, queue, asked, batch, answer, revoked, counts, history>>

(* Variant: rows of other accounts stay in the queue.                      *)
DropNothing ==
  /\ pc = "dropping"
  /\ pc' = "taking"
  /\ UNCHANGED <<client, sharing, invalid, late, inflight, rested, queue, pool, asked, batch, answer, known,
                 revoked, sent, refused, dropped, switched, counts>>

(* drop_other_accounts                                                     *)
DropOtherAccounts ==
  /\ pc = "dropping"
  /\ LET mine == {i \in DOMAIN queue : queue[i].account = known}
     IN  /\ \E n \in 0 .. Len(queue) : \E f \in Listings(n, mine) :
              queue' = [i \in 1 .. n |-> queue[f[i]]]
         /\ dropped' = dropped \cup {queue[i].play : i \in DOMAIN queue \ mine}
  /\ pc' = "taking"
  /\ UNCHANGED <<client, sharing, invalid, late, inflight, rested, pool, asked, batch, answer, known,
                 revoked, sent, refused, switched, counts>>

(* drain: the next batch, or the end of the queue.                         *)
TakeBatch ==
  /\ pc = "taking"
  /\ IF queue = <<>>
       THEN DrainEnds /\ UNCHANGED batch
       ELSE /\ pc' = "sending"
            /\ batch' = Prefix(queue, BatchSize)
            /\ UNCHANGED inflight
  /\ UNCHANGED <<client, sharing, invalid, late, rested, queue, pool, asked, answer, known, revoked,
                 switched, counts, history>>

(* _submit_batch reads the client, now; with none left the drain stops.    *)
SendWithoutClient ==
  /\ pc = "sending"
  /\ client = NoClient
  /\ DrainEnds
  /\ UNCHANGED <<client, sharing, invalid, late, rested, queue, pool, asked, batch, answer, known, revoked,
                 switched, counts, history>>

(* Variant: the client is not looked at before the batch goes out.         *)
SendUnchecked ==
  /\ pc = "sending"
  /\ pc' = "asking"
  /\ asked' = client
  /\ UNCHANGED <<client, sharing, invalid, late, inflight, rested, queue, pool, batch, answer, known,
                 revoked, switched, counts, history>>

Send ==
  /\ pc = "sending"
  /\ client # NoClient
  /\ pc' = "asking"
  /\ asked' = client
  /\ UNCHANGED <<client, sharing, invalid, late, inflight, rested, queue, pool, batch, answer, known,
                 revoked, switched, counts, history>>

Took(rows, c) == {[play |-> rows[i].play, from |-> rows[i].account, to |-> AccountOf[c]] :
                    i \in DOMAIN rows}

(* Last.fm takes the batch, and its answer arrives.                        *)
LastfmTakes ==
  /\ pc = "asking"
  /\ asked \notin revoked
  /\ sent' = sent \cup Took(batch, asked)
  /\ answer' = "taken"
  /\ pc' = "answered"
  /\ UNCHANGED <<client, sharing, invalid, late, inflight, rested, queue, pool, asked, batch, known, revoked,
                 refused, dropped, switched, counts>>

(* Last.fm takes the batch, and its answer is lost.                        *)
LastfmTakesUnheard ==
  /\ pc = "asking"
  /\ asked \notin revoked
  /\ sent' = sent \cup Took(batch, asked)
  /\ answer' = "failed"
  /\ pc' = "answered"
  /\ UNCHANGED <<client, sharing, invalid, late, inflight, rested, queue, pool, asked, batch, known, revoked,
                 refused, dropped, switched, counts>>

(* Last.fm finds the plays themselves wrong.                               *)
LastfmRejects ==
  /\ pc = "asking"
  /\ asked \notin revoked
  /\ refused' = refused \cup {batch[i].play : i \in DOMAIN batch}
  /\ answer' = "rejected"
  /\ pc' = "answered"
  /\ UNCHANGED <<client, sharing, invalid, late, inflight, rested, queue, pool, asked, batch, known, revoked,
                 sent, dropped, switched, counts>>

(* Last.fm is out of reach, overloaded, or finds the key wrong.            *)
LastfmFails ==
  /\ pc = "asking"
  /\ answer' = "failed"
  /\ pc' = "answered"
  /\ UNCHANGED <<client, sharing, invalid, late, inflight, rested, queue, pool, asked, batch, known, revoked,
                 switched, counts, history>>

LastfmRefusesSession ==
  /\ pc = "asking"
  /\ asked \in revoked
  /\ answer' = "revoked"
  /\ pc' = "answered"
  /\ UNCHANGED <<client, sharing, invalid, late, inflight, rested, queue, pool, asked, batch, known, revoked,
                 switched, counts, history>>

(* Variant: what Last.fm failed to take is removed as well.                *)
RemoveBatchAlways ==
  /\ pc = "answered"
  /\ queue' = After(queue, Len(batch))
  /\ pc' = "taking"
  /\ UNCHANGED <<client, sharing, invalid, late, inflight, rested, pool, asked, batch, answer, known,
                 revoked, switched, counts, history>>

(* The batch is done with: taken, or dropped because its plays are wrong.  *)
RemoveBatch ==
  /\ pc = "answered"
  /\ answer \in {"taken", "rejected"}
  /\ queue' = After(queue, Len(batch))
  /\ pc' = "taking"
  /\ UNCHANGED <<client, sharing, invalid, late, inflight, rested, pool, asked, batch, answer, known,
                 revoked, switched, counts, history>>

(* A refused session is latched, whichever session was asked.              *)
Latch(isRefused) ==
  /\ invalid' = (invalid \/ isRefused)
  /\ late' = (late \/ (isRefused /\ asked # client))

(* Anything else stops the drain and keeps the batch.                      *)
StopDrain ==
  /\ pc = "answered"
  /\ answer \in {"failed", "revoked"}
  /\ Latch(answer = "revoked")
  /\ DrainEnds
  /\ UNCHANGED <<client, sharing, rested, queue, pool, asked, batch, answer, known, revoked,
                 switched, counts, history>>

(* _do_now_playing                                                         *)
StartAnnouncement ==
  /\ pc = "idle" /\ pool # <<>> /\ Head(pool) = "announce"
  /\ pool' = Tail(pool)
  /\ IF client = NoClient
       THEN UNCHANGED <<pc, asked>>
       ELSE pc' = "announcing" /\ asked' = client
  /\ UNCHANGED <<client, sharing, invalid, late, inflight, rested, queue, batch, answer, known, revoked,
                 switched, counts, history>>

AnnouncementEnds ==
  /\ pc = "announcing"
  /\ pc' = "idle"
  /\ \E told \in BOOLEAN : Latch(told /\ asked \in revoked)
  /\ UNCHANGED <<client, sharing, inflight, rested, queue, pool, asked, batch, answer, known,
                 revoked, switched, counts, history>>

----------------------------------------------------------------------------
(* The environment.                                                        *)

Revoke(c) ==
  /\ c \notin revoked
  /\ Cardinality(revoked) < MaxRevoked
  /\ revoked' = revoked \cup {c}
  /\ UNCHANGED <<client, sharing, invalid, late, inflight, rested, queue, pool, switched, counts,
                 worker, history>>

(* Refrain ends, whatever the worker was at, and starts again with the
   queue as it was saved; a shutdown may bank the play in progress, when
   the executor takes no drain any more.                                   *)
Restart ==
  /\ counts.restarts < MaxRestarts
  /\ counts' = [counts EXCEPT !.restarts = @ + 1]
  /\ \/ UNCHANGED queue
     \/ \E p \in Plays \ (Queued \cup Settled) :
          /\ client # NoClient
          /\ queue' = Append(queue, [play |-> p, account |-> AccountOf[client]])
  /\ invalid' = FALSE /\ late' = FALSE /\ inflight' = FALSE /\ rested' = TRUE
  /\ pool' = <<>>
  /\ pc' = "idle"
  /\ UNCHANGED <<client, sharing, asked, batch, answer, known, revoked, switched, history>>

----------------------------------------------------------------------------
Init ==
  /\ client \in Clients
  /\ sharing = TRUE
  /\ invalid = FALSE /\ late = FALSE /\ inflight = FALSE /\ rested = TRUE
  /\ queue = <<>>
  /\ pool = <<>>
  /\ pc = "idle"
  /\ asked = client /\ batch = <<>> /\ answer = "failed" /\ known = AccountOf[client]
  /\ revoked = {}
  /\ sent = {} /\ refused = {} /\ dropped = {}
  /\ switched = FALSE
  /\ counts = [switches |-> 0, announced |-> 0, restarts |-> 0]

LastfmAnswers ==
  LastfmTakes \/ LastfmTakesUnheard \/ LastfmRejects \/ LastfmFails \/ LastfmRefusesSession

WorkerSteps ==
  \/ StartDrain \/ DropOtherAccounts \/ TakeBatch
  \/ SendWithoutClient \/ Send \/ RemoveBatch \/ StopDrain
  \/ StartAnnouncement \/ AnnouncementEnds

Next ==
  \/ \E p \in Plays : Enqueue(p)
  \/ Poll
  \/ IntervalPasses
  \/ AnnounceSong
  \/ \E c \in Clients \cup {NoClient} : Reconfigure(c)
  \/ SwitchSharing
  \/ WorkerSteps
  \/ LastfmAnswers
  \/ \E c \in Clients : Revoke(c)
  \/ Restart

Spec == Init /\ [][Next]_vars

(* The worker runs what it is given and every request ends (it times out);
   the daemon polls, which does something only while it may, and its clock
   runs; a request that is made again and again is some time taken, or its
   session refused.                                                        *)
FairSpec ==
  /\ Spec
  /\ WF_vars(WorkerSteps)
  /\ WF_vars(LastfmAnswers)
  /\ WF_vars(Poll)
  /\ WF_vars(IntervalPasses)
  /\ SF_vars(LastfmTakes \/ LastfmRefusesSession)

----------------------------------------------------------------------------
(* Properties.                                                             *)

TypeOK ==
  /\ client \in Clients \cup {NoClient}
  /\ {sharing, invalid, late, inflight, rested, switched} \subseteq BOOLEAN
  /\ queue \in Seq(Row)
  /\ pool \in Seq({"drain", "announce"})
  /\ pc \in {"idle", "dropping", "taking", "sending", "asking", "answered", "announcing"}
  /\ asked \in Clients
  /\ batch \in Seq(Row)
  /\ answer \in {"taken", "rejected", "failed", "revoked"}
  /\ known \in Accounts
  /\ revoked \subseteq Clients
  /\ sent \subseteq [play : Plays, from : Accounts, to : Accounts]
  /\ refused \cup dropped \subseteq Plays
  /\ counts \in [switches : 0 .. MaxSwitches, announced : 0 .. MaxAnnounced,
                 restarts : 0 .. MaxRestarts]

Draining == pc \in {"dropping", "taking", "sending", "asking", "answered"}

(* There is one drain at a time, waiting or running, and the flag says so:
   were it left set when a drain ends or fails, the queue would never be
   drained again; were it cleared early, two drains would remove each
   other's rows (_maybe_drain_locked and the `finally' of _do_drain).      *)
OneDrain ==
  LET waiting == {i \in DOMAIN pool : pool[i] = "drain"}
  IN  /\ Cardinality(waiting) + (IF Draining THEN 1 ELSE 0) = (IF inflight THEN 1 ELSE 0)

(* A play that was queued leaves the queue only because Last.fm took it or
   refused it, or because another account is connected (the comments of
   _submit_batch and drop_other_accounts).                                 *)
LeavesForAReason ==
  [][\A p \in Queued : p \in Queued' \/ p \in Settled']_vars

(* As long as the account is not changed while a drain is under way, every
   play goes to the account it was heard under.                            *)
OwnAccountUnlessSwitched ==
  [][~switched /\ Draining => \A s \in sent' \ sent : s.from = s.to]_vars

(* A play is never scrobbled to another account than its own
   (scrobble_queue.py:227-229).                                            *)
NeverToAnother == \A s \in sent : s.from = s.to

(* The queue empties again and again as long as sharing is on and the
   session that is connected is not one Last.fm refuses: a failed drain, a
   restart, a change of the account, sharing turned off and on, a session
   refused before ("a fresh session key clears a previous latch") must not
   keep the plays for ever.  The one exception is a session latched by the
   answer to a request of the session before it, which _handle_lastfm_error
   cannot tell from its own: the queue then waits for another connection.  *)
QueueEmpties ==
  []<>(queue = <<>> \/ ~sharing \/ client \in revoked \cup {NoClient} \/ late)
=============================================================================
