----------------------------- MODULE DiscordRPC -----------------------------
(***************************************************************************)
(* Discord Rich Presence (src/refrain/discord_rpc.py, class DiscordRPC):   *)
(* the daemon posts what Discord should show, and a thread of its own      *)
(* dials the Discord clients, sends, and takes the connections down.       *)
(*                                                                         *)
(* The thread's turn is cut where something else may come in between: it   *)
(* takes the inbox (Take), dials (Dial), dials again for a song (DialFor)  *)
(* and sends (Pump).  The daemon's poll is cut between the sharing flag    *)
(* and the post.  Times are ages and waits in one unit, which Tick         *)
(* advances: a token that is back and a refusal that is old are dropped    *)
(* there, where the code drops them on the next look.                      *)
(***************************************************************************)
EXTENDS Integers, Sequences, FiniteSets

CONSTANTS
  Clients,         \* the discord-ipc slots a client may listen on, by number
  Songs,           \* what may be shown
  Clear,           \* _CLEAR
  None,            \* no post, nothing pending, nothing shown
  Tokens,          \* _WRITE_TOKENS
  Window,          \* _WRITE_WINDOW_S
  Resend,          \* _RESEND_S
  MinBackoff,      \* the backoff after a connection
  MaxBackoff,      \* _max_backoff_s
  Rescan,          \* _IPC_RESCAN_INTERVAL_S
  SignedOutRetry,  \* _SIGNED_OUT_RETRY_S
  SignedOutTries,  \* _SIGNED_OUT_TRIES
  SignedOutGrace,  \* _SIGNED_OUT_GRACE_S
  RefusedRetry,    \* _REFUSED_RETRY_S
  RefusedForget,   \* _REFUSED_FORGET_S
  AllClients,      \* the values of all_clients in a run
  MaxEvents        \* bound of the model: what the user does and what goes wrong

ASSUME DiscordAssumption ==
  /\ Clients \subseteq Nat /\ IsFiniteSet(Clients)
  /\ Clear \notin Songs /\ None \notin Songs /\ Clear # None
  /\ {Tokens, Window, MinBackoff, SignedOutTries} \subseteq Nat \ {0}
  /\ {Resend, MaxBackoff, Rescan, SignedOutRetry, SignedOutGrace, RefusedRetry,
      RefusedForget, MaxEvents} \subseteq Nat
  /\ MinBackoff <= MaxBackoff
  /\ AllClients \subseteq BOOLEAN

VARIABLES
  allClients,  \* all_clients
  discord,     \* each client: "gone", "starting" (or signed out) or "ready"
  open,        \* the clients that hold their end of a connection
  shows,       \* what each client shows for Refrain
  denied,      \* history: the clients that refused a write on their connection
  sharing,     \* the privacy setting is not "off"
  wanted,      \* the song that is on, or Clear
  daemon,      \* where the daemon is in a poll, or in closing the connection
  sharingOff,  \* _sharing_off
  inbox,       \* _inbox
  inboxForce,  \* _inbox_force
  pc,          \* where the thread is in its turn
  job,         \* what it took from the inbox
  force,       \* ... and whether past the rate limit
  presences,   \* _presences: the clients the thread takes for connected
  status,      \* status
  fault,       \* _fault
  last,        \* _last_payload
  sentAge,     \* the time since _last_sent_mono
  cleared,     \* _cleared
  pending,     \* _pending
  writes,      \* _writes: how long ago each was, newest first
  refused,     \* _refused: how long ago a song was first refused, how often
  retryIn,     \* the time until _next_retry_ts
  backoff,     \* _backoff_s
  tries,       \* _signed_out_tries
  signedAge,   \* the time since _signed_out_since
  published,   \* _shown: connected, and the state
  written,     \* history: how long ago Discord answered each unforced write
  reopened,    \* history: how long ago each connection was opened anew
  hushed,      \* history: sharing is off, and the thread took what was posted since
  events       \* bound of the model

discordVars == <<discord, open, shows, denied>>
userVars == <<allClients, sharing, wanted>>
postVars == <<sharingOff, inbox, inboxForce>>
turnVars == <<pc, job, force>>
dialVars == <<status, retryIn, backoff, tries, signedAge>>
sentVars == <<fault, last, sentAge, cleared, pending, writes, refused>>
ghosts == <<written, reopened, hushed>>
vars == <<discordVars, userVars, daemon, postVars, turnVars, presences, dialVars, sentVars,
          published, ghosts, events>>

Phase == {"waiting", "took", "dialled", "linked", "ended"}
Stage == {"idle", "polling", "quitting", "gone", "renewing"}
Status == {"no_client", "rejected", "not_logged_in", "connected"}
Fault == {"", "silent", "refused"}
State == {"no_client", "rejected", "not_logged_in", "error", "idle", "showing"}
Job == Songs \cup {Clear, None}
Refusal == [age : Nat, times : Nat]

ASSUME NoneIsNoRefusal == None \notin Refusal

----------------------------------------------------------------------------
(* The rules.                                                              *)

Lesser(m, n) == IF m < n THEN m ELSE n

(* A wait that grows: _schedule_retry.                                     *)
RetryLater ==
  /\ retryIn' = backoff
  /\ backoff' = Lesser(2 * backoff, MaxBackoff)

(* Variant: one token more than there is.                                  *)
HasOneMoreToken == Len(writes) <= Tokens

(* _has_token                                                              *)
HasToken == Len(writes) < Tokens

(* _written_off                                                            *)
WrittenOff(song) ==
  /\ refused[song] # None
  /\ refused[song].times > 1 \/ refused[song].age < RefusedRetry

(* Variant: what was sent once is never sent again.                        *)
RecentForEver == TRUE

(* An unchanged status is still written every Resend.                      *)
Recent == sentAge < Resend

(* What pump has no reason to send.                                        *)
Settled(what) ==
  \/ what = Clear /\ cleared /\ Recent
  \/ what \in Songs /\ ((what = last /\ Recent) \/ WrittenOff(what))

(* _live_state                                                             *)
LiveState(links, st, bad, sent) ==
  CASE links = {} /\ st \in {"rejected", "not_logged_in"} -> st
    [] links = {} /\ st \notin {"rejected", "not_logged_in"} ->
         IF bad # "" THEN "error" ELSE "no_client"
    [] links # {} -> IF bad # "" THEN "error" ELSE IF sent # None THEN "showing" ELSE "idle"

(* _publish, at the end of a turn; read after everything else is assigned. *)
Publish ==
  published' = [connected |-> presences' # {},
                state |-> LiveState(presences', status', fault', last')]

(* Clients that misbehave, each an event of the bound.                     *)
Bad(answer) == {c \in DOMAIN answer : answer[c] \in {"rejected", "refused", "silent"}}

Allowed(answer) ==
  /\ events + Cardinality(Bad(answer)) <= MaxEvents
  /\ events' = events + Cardinality(Bad(answer))

----------------------------------------------------------------------------
(* Dialling.                                                               *)

(* The clients whose sockets answer (_scan_ipc_pipes), and those to dial.  *)
Live == {c \in Clients : discord[c] # "gone"}

Targets ==
  IF allClients THEN Live \ presences
  ELSE {c \in Live : \A d \in Live : c <= d} \ presences

(* What dialling may come to: a connection, code 1000, another refusal, or *)
(* no answer in time.                                                      *)
DialAnswers(c) ==
  {IF discord[c] = "ready" THEN "ok" ELSE "not ready", "rejected", "silent"}

(* The clients that are asked: the first that refuses the application ends *)
(* the sweep.                                                              *)
Asked(answer) ==
  {c \in Targets : \A d \in Targets : d < c => answer[d] # "rejected"}

(* Variant: what a connection before this one showed is still believed.    *)
ConnectedKeepingCache ==
  /\ last' = last /\ cleared' = FALSE /\ fault' = ""
  /\ refused' = [s \in Songs |-> None]

(* A connection is new to Discord: nothing is shown on it, nothing refused.*)
Connected ==
  /\ last' = None /\ cleared' = FALSE /\ fault' = ""
  /\ refused' = [s \in Songs |-> None]

(* One sweep over the clients to dial, and when to dial again: at once     *)
(* nobody is there, the application is refused, a client is not ready yet. *)
Sweep(answer) ==
  LET got == {c \in Asked(answer) : answer[c] = "ok"}
      rejected == \E c \in Asked(answer) : answer[c] = "rejected"
      notReady == \E c \in Asked(answer) : answer[c] = "not ready"
      errors == {c \in Asked(answer) : answer[c] \in {"not ready", "silent"}}
      silent == \E c \in errors : answer[c] = "silent" /\ \A d \in errors : d <= c
      links == presences \cup got
      waited == notReady /\ got = {}
      tried == IF waited THEN Lesser(tries + 1, SignedOutTries) ELSE 0
      since == IF waited /\ tries > 0 THEN signedAge ELSE 0
      signedOut == tried = SignedOutTries /\ since >= SignedOutGrace
  IN  /\ presences' = links
      /\ open' = open \cup got
      /\ shows' = [c \in Clients |-> IF c \in got THEN None ELSE shows[c]]
      /\ denied' = denied \ got
      /\ \/ /\ rejected /\ links = {}
            /\ status' = "rejected" /\ fault' = ""
            /\ backoff' = MaxBackoff /\ retryIn' = MaxBackoff
            /\ UNCHANGED <<tries, signedAge, last, cleared, refused>>
         \/ /\ got # {}
            /\ Connected
            /\ status' = "connected" /\ backoff' = MinBackoff
            /\ retryIn' = IF rejected THEN MaxBackoff ELSE IF notReady THEN backoff ELSE retryIn
            /\ tries' = tried /\ signedAge' = since
         \/ /\ got = {} /\ links # {}
            /\ status' = "connected"
            /\ IF rejected THEN retryIn' = MaxBackoff /\ UNCHANGED backoff ELSE RetryLater
            /\ tries' = tried /\ signedAge' = since
            /\ UNCHANGED <<fault, last, cleared, refused>>
         \/ /\ ~rejected /\ links = {}
            /\ status' = IF signedOut THEN "not_logged_in" ELSE "no_client"
            /\ fault' = IF silent THEN "silent" ELSE ""
            /\ IF notReady /\ ~signedOut THEN retryIn' = SignedOutRetry /\ UNCHANGED backoff
                                         ELSE RetryLater
            /\ tries' = tried /\ signedAge' = since
            /\ UNCHANGED <<last, cleared, refused>>

(* _ensure_connected.  With nobody listening the sweep has nobody to ask:  *)
(* pypresence looks for itself, and fails.                                 *)
EnsureConnected ==
  /\ UNCHANGED <<discord, sentAge, writes>>
  /\ \/ /\ (presences # {} /\ ~allClients) \/ retryIn > 0
        /\ UNCHANGED <<open, shows, denied, presences, dialVars, fault, last, cleared, refused, events>>
     \/ /\ presences = {} \/ allClients
        /\ retryIn = 0
        /\ \/ /\ Targets = {} /\ Live # {}
              /\ retryIn' = Rescan
              /\ UNCHANGED <<open, shows, denied, presences, status, backoff, tries, signedAge, fault,
                             last, cleared, refused, events>>
           \/ /\ Targets # {} \/ Live = {}
              /\ \E answer \in [Targets -> {"ok", "not ready", "rejected", "silent"}] :
                   /\ \A c \in Targets : answer[c] \in DialAnswers(c)
                   /\ Allowed(answer)
                   /\ Sweep(answer)

----------------------------------------------------------------------------
(* Sending.                                                                *)

(* What each connection may answer to a write: one whose client is gone    *)
(* fails, and so does one whose answer does not come in time.              *)
SendAnswers(c) == IF c \in open THEN {"ok", "refused", "silent"} ELSE {"dead"}

Said(answer, what) == {c \in presences : answer[c] = what}

(* A connection that failed is closed, which takes its activity with it.   *)
Written(answer, what) ==
  LET failed == Said(answer, "dead") \cup Said(answer, "silent")
  IN  /\ presences' = presences \ failed
      /\ open' = open \ failed
      /\ shows' = [c \in Clients |-> IF c \in failed THEN None
                                     ELSE IF c \in Said(answer, "ok") THEN what ELSE shows[c]]
      /\ denied' = (denied \cup Said(answer, "refused")) \ failed

(* A write that Discord answered costs a token.                            *)
Spend(answer, forced) ==
  /\ writes' = <<0>> \o writes
  /\ written' = IF forced THEN written ELSE <<0>> \o written

(* _send_update: each client is judged on its own.                         *)
SendUpdate(song, answer, forced) ==
  LET delivered == Said(answer, "ok") # {}
      declined == Said(answer, "refused") # {}
      before == refused[song]
  IN  /\ Written(answer, song)
      /\ UNCHANGED <<status, tries, signedAge>>
      /\ \/ /\ delivered
            /\ pending' = None /\ last' = song /\ sentAge' = 0
            /\ cleared' = FALSE /\ fault' = ""
            /\ Spend(answer, forced)
            /\ UNCHANGED <<refused, retryIn, backoff>>
         \/ /\ ~delivered /\ declined
            /\ pending' = None /\ fault' = "refused"
            /\ refused' = [refused EXCEPT ![song] =
                 IF before = None THEN [age |-> 0, times |-> 1]
                 ELSE [age |-> before.age, times |-> before.times + 1]]
            /\ Spend(answer, forced)
            /\ UNCHANGED <<last, sentAge, cleared, retryIn, backoff>>
         \/ /\ ~delivered /\ ~declined
            /\ pending' = song /\ last' = None
            /\ fault' = IF Said(answer, "silent") # {} THEN "silent" ELSE fault
            /\ RetryLater
            /\ UNCHANGED <<sentAge, cleared, refused, writes, written>>

(* _send_clear: a refused clear stays pending; without a connection left   *)
(* there is nothing to clear, and it stays pending too.                    *)
SendClear(answer, forced) ==
  /\ Written(answer, None)
  /\ last' = None
  /\ UNCHANGED <<status, tries, signedAge, fault, refused>>
  /\ \/ /\ presences' = {}
        /\ cleared' = FALSE /\ pending' = Clear
        /\ RetryLater
        /\ UNCHANGED <<sentAge, writes, written>>
     \/ /\ presences' # {}
        /\ Spend(answer, forced)
        /\ IF Said(answer, "refused") # {} THEN pending' = Clear /\ UNCHANGED <<cleared, sentAge>>
                                           ELSE pending' = None /\ cleared' = TRUE /\ sentAge' = 0
        /\ UNCHANGED <<retryIn, backoff>>

(* pump, for what is pending by now.                                       *)
Send(what, forced) ==
  LET held == what = None \/ presences = {} \/ Settled(what) \/ ~(forced \/ HasToken)
  IN  /\ UNCHANGED discord
      /\ \/ /\ held
            /\ pending' = IF presences # {} /\ Settled(what) THEN None ELSE what
            /\ UNCHANGED <<open, shows, denied, presences, dialVars, fault, last, sentAge, cleared, writes,
                           refused, written, events>>
         \/ /\ ~held
            /\ \E answer \in [presences -> {"ok", "refused", "silent", "dead"}] :
                 /\ \A c \in presences : answer[c] \in SendAnswers(c)
                 /\ Allowed(answer)
                 /\ IF what = Clear THEN SendClear(answer, forced)
                                    ELSE SendUpdate(what, answer, forced)

----------------------------------------------------------------------------
(* The serving thread.                                                     *)

Stopping == daemon \in {"gone", "renewing"}

(* _serve: what is in the inbox is taken, and the inbox emptied.           *)
Take ==
  /\ pc = "waiting" /\ ~Stopping
  /\ job' = inbox /\ force' = inboxForce
  /\ inbox' = None /\ inboxForce' = FALSE
  /\ pc' = "took"
  /\ hushed' = (hushed \/ (sharingOff /\ inbox = Clear))
  /\ UNCHANGED <<discordVars, userVars, daemon, sharingOff, presences, dialVars, sentVars,
                 published, written, reopened, events>>

(* Variant: the thread dials without a look at the flag.                   *)
DialRegardless ==
  /\ pc = "took"
  /\ pc' = "dialled"
  /\ EnsureConnected
  /\ UNCHANGED <<userVars, daemon, postVars, job, force, pending, published, ghosts>>

(* Whatever the job, a thread that may share looks for clients.            *)
Dial ==
  /\ pc = "took"
  /\ pc' = "dialled"
  /\ \/ ~sharingOff /\ EnsureConnected
     \/ sharingOff /\ UNCHANGED <<discordVars, presences, dialVars, fault, last, sentAge, cleared,
                                  writes, refused, events>>
  /\ UNCHANGED <<userVars, daemon, postVars, job, force, pending, published, ghosts>>

(* update: a song is kept as pending once there is a connection, and       *)
(* dropped without one.                                                    *)
DialFor ==
  /\ pc = "dialled" /\ job \in Songs
  /\ EnsureConnected
  /\ IF presences' # {}
       THEN /\ pending' = job
            /\ pc' = "linked"
            /\ UNCHANGED <<job, force, published>>
       ELSE /\ UNCHANGED pending
            /\ pc' = "waiting" /\ job' = None /\ force' = FALSE
            /\ Publish
  /\ UNCHANGED <<userVars, daemon, postVars, ghosts>>

(* The end of a turn: update, clear or an empty inbox come to pump.        *)
Pump ==
  /\ pc = "linked" \/ (pc = "dialled" /\ job \notin Songs)
  /\ Send(IF job = Clear THEN Clear ELSE pending, job = Clear /\ force)
  /\ pc' = "waiting" /\ job' = None /\ force' = FALSE
  /\ Publish
  /\ UNCHANGED <<userVars, daemon, postVars, reopened, hushed>>

(* The loop has ended: a clear that is still in the inbox goes out, and    *)
(* the connections are taken down whatever came of it; the tokens and the  *)
(* retry it leaves are read by nobody.                                     *)
Leave ==
  /\ pc = "waiting" /\ Stopping
  /\ pc' = "ended"
  /\ presences' = {} /\ open' = {} /\ denied' = {}
  /\ shows' = [c \in Clients |-> None]
  /\ pending' = None
  /\ last' = IF presences = {} THEN last ELSE None
  /\ cleared' = IF presences = {} THEN cleared ELSE FALSE
  /\ UNCHANGED <<discord, userVars, daemon, postVars, job, force, dialVars, fault, sentAge, writes,
                 refused, ghosts, events>>
  /\ Publish

----------------------------------------------------------------------------
(* The daemon.                                                             *)

(* _update_rpc, first half: the thread is told whether it may dial.        *)
PollFlag ==
  /\ daemon = "idle"
  /\ daemon' = "polling"
  /\ sharingOff' = ~sharing
  /\ hushed' = (hushed /\ ~sharing)
  /\ UNCHANGED <<discordVars, userVars, inbox, inboxForce, turnVars, presences, dialVars, sentVars,
                 published, written, reopened, events>>

(* ... second half: what should be shown is posted (post, post_clear).     *)
PollPost ==
  /\ daemon = "polling"
  /\ daemon' = "idle"
  /\ inbox' = IF sharing THEN wanted ELSE Clear
  /\ UNCHANGED <<discordVars, userVars, sharingOff, inboxForce, turnVars, presences, dialVars,
                 sentVars, published, ghosts, events>>

(* ... or nothing is: a pause is new, a cover is on its way.               *)
HoldBack ==
  /\ daemon = "polling" /\ sharing
  /\ events < MaxEvents
  /\ daemon' = "idle" /\ events' = events + 1
  /\ UNCHANGED <<discordVars, userVars, postVars, turnVars, presences, dialVars, sentVars,
                 published, ghosts>>

(* cleanup: a clear past the rate limit is posted, then close stops the    *)
(* thread and waits for it.                                                *)
Quit ==
  /\ daemon = "idle" /\ events < MaxEvents
  /\ daemon' = "quitting" /\ events' = events + 1
  /\ inbox' = Clear /\ inboxForce' = TRUE
  /\ UNCHANGED <<discordVars, userVars, sharingOff, turnVars, presences, dialVars, sentVars,
                 published, ghosts>>

Close ==
  /\ daemon = "quitting"
  /\ daemon' = "gone"
  /\ UNCHANGED <<discordVars, userVars, postVars, turnVars, presences, dialVars, sentVars,
                 published, ghosts, events>>

(* update_config, and a source with an application of its own: close ...   *)
Renew ==
  /\ daemon = "idle" /\ events < MaxEvents
  /\ daemon' = "renewing" /\ events' = events + 1
  /\ UNCHANGED <<discordVars, userVars, postVars, turnVars, presences, dialVars, sentVars,
                 published, ghosts>>

(* ... and a new DiscordRPC, with sharing on until the next poll, and all  *)
(* of its tokens: what Discord answered a moment ago it does not know.     *)
Reopen ==
  /\ daemon = "renewing" /\ pc = "ended"
  /\ daemon' = "idle"
  /\ sharingOff' = FALSE /\ inbox' = None /\ inboxForce' = FALSE
  /\ pc' = "waiting" /\ job' = None /\ force' = FALSE
  /\ status' = "no_client" /\ retryIn' = 0 /\ backoff' = MinBackoff
  /\ tries' = 0 /\ signedAge' = 0
  /\ fault' = "" /\ last' = None /\ sentAge' = Resend /\ cleared' = FALSE
  /\ writes' = <<>> /\ refused' = [s \in Songs |-> None]
  /\ published' = [connected |-> FALSE, state |-> "no_client"]
  /\ reopened' = <<0>> \o reopened /\ hushed' = FALSE
  /\ UNCHANGED <<discordVars, userVars, presences, pending, written, events>>

----------------------------------------------------------------------------
(* The user, the Discord clients, and time.                                *)

Play(what) ==
  /\ daemon = "idle" /\ events < MaxEvents /\ what # wanted
  /\ wanted' = what /\ events' = events + 1
  /\ UNCHANGED <<discordVars, allClients, sharing, daemon, postVars, turnVars, presences,
                 dialVars, sentVars, published, ghosts>>

Share(on) ==
  /\ daemon = "idle" /\ events < MaxEvents /\ on # sharing
  /\ sharing' = on /\ events' = events + 1
  /\ UNCHANGED <<discordVars, allClients, wanted, daemon, postVars, turnVars, presences,
                 dialVars, sentVars, published, ghosts>>

(* A client starts, gets ready or logged in, or ends; one that ends leaves *)
(* the thread with a connection that only a write finds dead.              *)
DiscordMoves(c, to) ==
  /\ <<discord[c], to>> \in {<<"gone", "starting">>, <<"starting", "ready">>, <<"ready", "gone">>}
  /\ to = "ready" \/ events < MaxEvents
  /\ discord' = [discord EXCEPT ![c] = to]
  /\ events' = IF to = "ready" THEN events ELSE events + 1
  /\ open' = IF to = "gone" THEN open \ {c} ELSE open
  /\ shows' = IF to = "gone" THEN [shows EXCEPT ![c] = None] ELSE shows
  /\ UNCHANGED <<denied, userVars, daemon, postVars, turnVars, presences, dialVars, sentVars, published,
                 ghosts>>

(* A token is back after Window: the newest writes stay.                   *)
Older(ages) ==
  [i \in 1 .. Cardinality({k \in DOMAIN ages : ages[k] + 1 < Window}) |-> ages[i] + 1]

(* Variant: a wait that is over runs on.                                   *)
SoonerUnbounded(wait) == wait - 1

Sooner(wait) == IF wait > 0 THEN wait - 1 ELSE 0

RefusalOlder(entry) ==
  IF entry = None \/ entry.age >= RefusedForget THEN None
  ELSE [age |-> entry.age + 1, times |-> entry.times]

Tick ==
  /\ writes' = Older(writes)
  /\ written' = Older(written) /\ reopened' = Older(reopened)
  /\ sentAge' = Lesser(sentAge + 1, Resend)
  /\ retryIn' = Sooner(retryIn)
  /\ refused' = [s \in Songs |-> RefusalOlder(refused[s])]
  /\ signedAge' = IF tries > 0 THEN Lesser(signedAge + 1, SignedOutGrace) ELSE 0
  /\ UNCHANGED <<discordVars, userVars, daemon, postVars, turnVars, presences, status, backoff,
                 tries, fault, last, cleared, pending, published, hushed, events>>

----------------------------------------------------------------------------
(* start, after the first set_sharing: the clients may be in any state.    *)
Init ==
  /\ allClients \in AllClients
  /\ discord \in [Clients -> {"gone", "starting", "ready"}]
  /\ open = {} /\ denied = {} /\ shows = [c \in Clients |-> None]
  /\ sharing \in BOOLEAN /\ sharingOff = ~sharing
  /\ wanted \in Songs \cup {Clear}
  /\ daemon = "idle"
  /\ inbox = None /\ inboxForce = FALSE
  /\ pc = "waiting" /\ job = None /\ force = FALSE
  /\ presences = {}
  /\ status = "no_client" /\ retryIn = 0 /\ backoff = MinBackoff
  /\ tries = 0 /\ signedAge = 0
  /\ fault = "" /\ last = None /\ sentAge = Resend /\ cleared = FALSE
  /\ pending = None /\ writes = <<>> /\ refused = [s \in Songs |-> None]
  /\ published = [connected |-> FALSE, state |-> "no_client"]
  /\ written = <<>> /\ reopened = <<>> /\ hushed = FALSE
  /\ events = 0

ThreadNext == Take \/ Dial \/ DialFor \/ Pump \/ Leave

DaemonNext == PollFlag \/ PollPost \/ HoldBack \/ Quit \/ Close \/ Renew \/ Reopen

Next ==
  \/ ThreadNext
  \/ DaemonNext
  \/ \E what \in Songs \cup {Clear} : Play(what)
  \/ \E on \in BOOLEAN : Share(on)
  \/ \E c \in Clients : \E to \in {"gone", "starting", "ready"} : DiscordMoves(c, to)
  \/ Tick

Spec == Init /\ [][Next]_vars

(***************************************************************************)
(* The thread's loop and the poll timer run for ever and neither waits for *)
(* the other, but for close; time passes; a client that starts gets ready. *)
(* Discord refuses or leaves unanswered no more than MaxEvents times.      *)
(***************************************************************************)
Fairness ==
  /\ WF_vars(ThreadNext)
  /\ WF_vars(PollFlag) /\ WF_vars(PollPost) /\ WF_vars(Close) /\ WF_vars(Reopen)
  /\ WF_vars(Tick)
  /\ \A c \in Clients : WF_vars(DiscordMoves(c, "ready"))

FairSpec == Spec /\ Fairness

----------------------------------------------------------------------------
(* Properties.                                                             *)

(* Every variable has its type.                                            *)
TypeOK ==
  /\ allClients \in BOOLEAN
  /\ discord \in [Clients -> {"gone", "starting", "ready"}]
  /\ open \subseteq Clients /\ denied \subseteq Clients
  /\ shows \in [Clients -> Songs \cup {None}]
  /\ sharing \in BOOLEAN /\ wanted \in Songs \cup {Clear}
  /\ daemon \in Stage
  /\ sharingOff \in BOOLEAN /\ inbox \in Job /\ inboxForce \in BOOLEAN
  /\ pc \in Phase /\ job \in Job /\ force \in BOOLEAN
  /\ presences \subseteq Clients
  /\ status \in Status /\ retryIn \in Nat /\ backoff \in Nat
  /\ tries \in Nat /\ signedAge \in Nat
  /\ fault \in Fault /\ last \in Songs \cup {None} /\ sentAge \in Nat
  /\ cleared \in BOOLEAN /\ pending \in Job
  /\ writes \in Seq(Nat) /\ refused \in [Songs -> Refusal \cup {None}]
  /\ published \in [connected : BOOLEAN, state : State]
  /\ written \in Seq(Nat) /\ reopened \in Seq(Nat) /\ hushed \in BOOLEAN
  /\ events \in Nat

(* Discord answers at most Tokens writes within a window, refused ones and *)
(* resends included, and Tokens more for each connection opened anew in    *)
(* that window: a new DiscordRPC starts with all of its tokens, so that    *)
(* "no 20 s window holds more than five" is true of one connection only.   *)
(* The clear on the way out is past the limit and not counted.             *)
RateKept == Len(written) <= Tokens * (1 + Len(reopened))

(* What the thread believes to be shown is: a client holds a connection    *)
(* only if the thread has it too, every client shows the song that would   *)
(* not be sent again unless it refused a write itself, and after a clear   *)
(* none shows anything.                                                    *)
CacheIsTrue ==
  /\ open \subseteq presences
  /\ \A c \in Clients \ open : shows[c] = None
  /\ \A c \in open : /\ last # None => shows[c] = last \/ c \in denied
                     /\ cleared => shows[c] = None

(* Once the thread has taken the clear of a poll that found sharing off,   *)
(* no connection is made and no client comes to show a song, until a poll  *)
(* finds sharing on or the connection is a new one.                        *)
HushedStaysQuiet ==
  [][hushed /\ hushed' =>
       /\ open' \subseteq open
       /\ \A c \in Clients : shows'[c] \in {shows[c], None}]_vars

Wish == IF daemon \in {"quitting", "gone"} THEN None ELSE IF sharing THEN wanted ELSE Clear

(* Every client that is ready shows the song; with one client to be served *)
(* that is the first one, and the choice is not revised while it lives.    *)
Displayed(what) ==
  CASE what = None -> pc = "ended" /\ \A c \in Clients : shows[c] = None
    [] what = Clear -> \A c \in Clients : shows[c] = None
    [] what \in Songs ->
         IF allClients THEN \A c \in Clients : discord[c] = "ready" => shows[c] = what
         ELSE (\E c \in Clients : discord[c] = "ready") => \E c \in Clients : shows[c] = what

(* What the user wants shown in the end is what Discord shows in the end,  *)
(* and nothing else: through bursts of changes at the rate limit, dead     *)
(* pipes that only a resend finds, refused and unanswered writes, clients  *)
(* that start late, and connections opened anew.                           *)
LastWishIsShown ==
  \A what \in Job : <>[](Wish = what) => <>[]Displayed(what)
=============================================================================
