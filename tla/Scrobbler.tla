------------------------------ MODULE Scrobbler ------------------------------
(***************************************************************************)
(* The play in progress (src/refrain/scrobble.py, class Scrobbler): when a *)
(* play begins, goes on, is carried over a gap or a restart, counts, and   *)
(* is handed to the queue of scrobbles.                                    *)
(*                                                                         *)
(* The poll loop calls update with what the player shows: a song Last.fm   *)
(* would take (SongPoll), anything else (GapPoll), or whatever it shows    *)
(* while sharing is off or no account is connected (GatedPoll).  Between   *)
(* two polls the user may change the account, Refrain may be quit, and it  *)
(* may die.  A play in progress is kept in a file, which the next run      *)
(* compares with the first song it sees.                                   *)
(*                                                                         *)
(* What the listener really does is the environment, in Listener.  Time is *)
(* counted in one unit for every clock; it advances from poll to poll.     *)
(* How the queue keeps and submits what it is handed is ScrobbleQueue.     *)
(***************************************************************************)
EXTENDS Listener

CONSTANTS
  Other,          \* the names of something Last.fm would not take
  Accounts,       \* Last.fm accounts (identities of a configuration)
  NoAccount       \* scrobbling is off or not connected

ASSUME ScrobblerAssumption ==
  /\ Other \notin Songs
  /\ NoAccount \notin Accounts
  /\ \A w \in Worlds, song \in Songs : \A len \in w.lengths[song] : len >= MinTrack /\ len > 0

VARIABLES
  up,       \* Refrain is running
  account,  \* _cfg and _client: whose scrobbles, or NoAccount
  cur,      \* the play in progress (_key, _played_ms, ...), or None
  resume,   \* _resume: the last run's play, not yet compared with a song
  file,     \* scrobble_current.json, or None
  queued,   \* rows handed to the queue so far
  now,      \* the time of the last poll
  cut,      \* history: when sharing was last off or the account changed
  earned,   \* history: beginnings of the plays that counted
  events    \* bound of the model

vars == <<world, up, account, cur, resume, file, queued, now, heard, cut, earned, events>>

(* The fields of the play in progress.  `song' and `album' are _key, `name'
   the artist and title it will be scrobbled under, `saved' the play time in
   the file, `gone' when the source first went quiet on it, `told' what "now
   playing" has gone out for it; `listen' is the listen it began with.     *)
Play ==
  [song : Songs, album : BOOLEAN, name : Songs \cup {Other}, listen : Nat,
   started : Nat, played : Nat, dur : Nat, pos : Position, banked : BOOLEAN,
   saved : Nat, gone : Position, told : {"nothing", "song", "other"}]

(* A play as the file keeps it, and when it was saved.                     *)
Record ==
  [song : Songs, album : BOOLEAN, name : Songs \cup {Other}, listen : Nat,
   started : Nat, played : Nat, dur : Nat, pos : Position, banked : BOOLEAN,
   at : Nat]

ASSUME NoneIsNoPlay == None \notin Play /\ None \notin Record

----------------------------------------------------------------------------
(* The queue and the file.                                                 *)

Row(p) ==
  [name |-> p.name, listen |-> p.listen, started |-> p.started,
   dur |-> p.dur, account |-> account]

(* p counts and is not in the queue yet.                                   *)
MustBank(p) == p # None /\ ~p.banked /\ Counts(p.played, p.dur)

Banked(p) == IF MustBank(p) THEN {Row(p)} ELSE {}

Saved(p, t) ==
  [song |-> p.song, album |-> p.album, name |-> p.name, listen |-> p.listen,
   started |-> p.started, played |-> p.played, dur |-> p.dur, pos |-> p.pos,
   banked |-> p.banked, at |-> t]

(* What an attempt to leave the file as f can leave: f, or what was there. *)
Written(f) == {f} \cup (IF world.writesMayFail THEN {file} ELSE {})

(* The play has left something in the file.                                *)
OnFile(p) == p # None /\ (p.saved > 0 \/ p.banked)

----------------------------------------------------------------------------
(* One poll that shows a song: s is what it shows, t the time, dt the time
   since the last poll.                                                    *)

(* _settle_resume_locked: the song shown is the last run's play.           *)
Carries(s, t) ==
  /\ resume # None
  /\ resume.song = s.song /\ resume.album = s.album
  /\ ContinuesPlay(resume.dur, resume.pos, t - resume.at, s.len, s.pos)

FromRecord(r, s) ==
  [song |-> r.song, album |-> r.album, name |-> r.name, listen |-> r.listen,
   started |-> r.started, played |-> r.played, dur |-> s.len, pos |-> s.pos,
   banked |-> r.banked, saved |-> r.played, gone |-> None, told |-> "nothing"]

(* The play the poll is compared with: the last run's if it carries on,
   with the album it may have lacked.                                      *)
Compared(s, t) ==
  LET p == IF Carries(s, t) THEN FromRecord(resume, s) ELSE cur
  IN  IF FillsIn(p, s) THEN [p EXCEPT !.album = TRUE] ELSE p

SameSong(p, s) == p # None /\ p.song = s.song /\ p.album = s.album

StartsOver(p, s) ==
  LET counted == Counts(p.played, p.dur)
  IN  IsReplay(counted, p.pos, s.pos) \/ (s.restarted /\ counted)

Announced(p, playing, what) ==
  IF playing /\ p.told = "nothing" THEN [p EXCEPT !.told = what] ELSE p

Fresh(s, t) ==
  [song |-> s.song, album |-> s.album, name |-> s.song, listen |-> s.listen,
   started |-> t, played |-> 0, dur |-> s.len, pos |-> s.pos,
   banked |-> FALSE, saved |-> 0, gone |-> None, told |-> "nothing"]

(* The last run's play, closed because another song shows.                 *)
Closed(s, t) == IF Carries(s, t) THEN None ELSE resume

(* Variant: the new play takes the play time of the old one along.         *)
PlayBeginsKeepingTime(p, s, t) ==
  /\ queued' = queued \cup Banked(Closed(s, t)) \cup Banked(p)
  /\ \E f \in Written(None) :
       file' = IF Closed(s, t) # None \/ OnFile(p) THEN f ELSE file
  /\ cur' = Announced([Fresh(s, t) EXCEPT !.played = IF p = None THEN 0 ELSE p.played],
                      s.playing, "song")

(* Track boundary: what ended is queued if it counts, and s is a new play. *)
PlayBegins(p, s, t) ==
  /\ queued' = queued \cup Banked(Closed(s, t)) \cup Banked(p)
  /\ \E f \in Written(None) :
       file' = IF Closed(s, t) # None \/ OnFile(p) THEN f ELSE file
  /\ cur' = Announced(Fresh(s, t), s.playing, "song")

(* A play of which enough is new to be written, or that has just counted.  *)
WorthSaving(p, q) ==
  \/ q.played - p.saved >= SaveEvery
  \/ ~Counts(p.played, p.dur) /\ Counts(q.played, q.dur)

(* Variant: only the interval decides.                                     *)
KeepAtIntervals(p, q, t) ==
  IF q.played - p.saved >= SaveEvery
    THEN (\E f \in Written(Saved(q, t)) : file' = f) /\ cur' = [q EXCEPT !.saved = q.played]
    ELSE cur' = q /\ UNCHANGED file

Keep(p, q, t) ==
  IF WorthSaving(p, q)
    THEN (\E f \in Written(Saved(q, t)) : file' = f) /\ cur' = [q EXCEPT !.saved = q.played]
    ELSE cur' = q /\ UNCHANGED file

(* The same play goes on.  One carried over a restart starts its clock at
   this poll, so the time away is not credited.                            *)
PlayGoesOn(p, s, t, dt) ==
  LET credit == IF Carries(s, t) THEN 0 ELSE Credit(s.playing, dt)
      q == [p EXCEPT !.played = @ + credit, !.dur = s.len, !.pos = s.pos, !.gone = None]
  IN  /\ queued' = queued \cup Banked(Closed(s, t))
      /\ Keep(p, Announced(q, s.playing, "song"), t)

UpdateSong(s, t, dt) ==
  LET p == Compared(s, t)
  IN  /\ IF SameSong(p, s) /\ ~StartsOver(p, s)
           THEN PlayGoesOn(p, s, t, dt)
           ELSE PlayBegins(p, s, t)
      /\ resume' = None

----------------------------------------------------------------------------
(* One poll that shows no song: g is what it shows instead, perhaps nothing
   (of length 0, not playing).                                             *)

(* When the source went quiet on the play in progress.                     *)
GoneSince(t) == IF cur.gone = None THEN t ELSE cur.gone

WithinGrace(t) == t - GoneSince(t) <= GoneGrace

(* The gap's position is taken for the song's: the song seems to start
   over, and the play that begins then goes by the gap's names.            *)
GapStartsOver(g, t) ==
  /\ queued' = queued \cup Banked(cur)
  /\ \E f \in Written(None) : file' = IF OnFile(cur) THEN f ELSE file
  /\ LET p == [cur EXCEPT !.name = Other, !.started = t, !.played = 0, !.dur = g.len,
                          !.banked = FALSE, !.saved = 0, !.gone = GoneSince(t),
                          !.told = "nothing"]
     IN  cur' = Announced(p, g.playing, "other")

(* The play is carried over the gap.  Nothing is credited, but the length
   the gap reports becomes the play's, and "now playing" goes out with the
   gap's names if none went out for the song.                              *)
GapBridged(g, t) ==
  LET q == [cur EXCEPT !.dur = IF g.len > 0 THEN g.len ELSE @, !.gone = GoneSince(t)]
  IN  /\ queued' = queued
      /\ Keep(cur, Announced(q, g.playing, "other"), t)

(* The gap has lasted longer than the grace: the play is over.             *)
GapEndsThePlay ==
  /\ queued' = queued \cup Banked(cur)
  /\ \E f \in Written(None) : file' = IF OnFile(cur) THEN f ELSE file
  /\ cur' = None

(* With no play in progress nothing happens: a saved play is not compared
   with nothing.                                                           *)
UpdateGap(g, t) ==
  /\ CASE cur = None -> UNCHANGED <<queued, file, cur>>
      [] cur # None /\ ~WithinGrace(t) -> GapEndsThePlay
      [] cur # None /\ WithinGrace(t) ->
           IF IsReplay(Counts(cur.played, cur.dur), cur.pos, g.pos)
             THEN GapStartsOver(g, t)
             ELSE GapBridged(g, t)
  /\ UNCHANGED resume

----------------------------------------------------------------------------
(* The environment.                                                        *)

(* A saved play that is left for longer than its length and the grace is
   not carried on, so the listen is taken to be over.                      *)
LeftTooLong(t) == resume # None /\ t - resume.at > MayBeLeft(resume.dur, 0)

Nothing == [len |-> 0, pos |-> None, playing |-> FALSE]

(* Nothing at all, or something with a length that is too short or unknown;
   the position of a short clip is never taken for a song's.               *)
Gaps ==
  {Nothing} \cup
  (IF world.otherThings
     THEN {[len |-> len, pos |-> pos, playing |-> playing] :
             len \in 0 .. MinTrack - 1, pos \in {None, 0}, playing \in BOOLEAN}
     ELSE {})

----------------------------------------------------------------------------
Init ==
  /\ world \in Worlds
  /\ up = TRUE
  /\ account \in Accounts
  /\ cur = None /\ resume = None /\ file = None
  /\ queued = {}
  /\ now = 0
  /\ heard = NoListen
  /\ cut = 0
  /\ earned = {}
  /\ events = 0

(* What has counted at the end of a poll: the play in progress does or does
   not by the length now shown for it, whatever was shown before.  A gap
   says nothing about the song.                                            *)
Earning ==
  earned' = IF Counts(cur'.played, cur'.dur) THEN earned \cup {cur'.started}
                                             ELSE earned \ {cur'.started}

(* The poll loop, with the song that is heard.                             *)
PollGoesOn(t, dt) ==
  /\ ~heard.over /\ ~LeftTooLong(t)
  /\ \E h \in GoesOn(dt), playing \in BOOLEAN :
       /\ heard' = h
       /\ \E s \in Shown(h, playing, FALSE) : UpdateSong(s, t, dt)

PollBegins(t, dt) ==
  /\ heard.number < MaxListens
  /\ \E h \in Begins, playing \in BOOLEAN, restarted \in BOOLEAN :
       /\ restarted => cur # None /\ h.song = heard.song
       /\ heard' = h
       /\ \E s \in Shown(h, playing, restarted) : UpdateSong(s, t, dt)

SongPoll(dt) ==
  LET t == now + dt
  IN  /\ up /\ account # NoAccount
      /\ t <= MaxTime
      /\ now' = t
      /\ PollGoesOn(t, dt) \/ PollBegins(t, dt)
      /\ Earning
      /\ UNCHANGED <<world, up, account, cut, events>>

GapPoll(dt) ==
  LET t == now + dt
      since == IF heard.quiet = None THEN t ELSE heard.quiet
  IN  /\ up /\ account # NoAccount
      /\ t <= MaxTime
      /\ now' = t
      /\ \E g \in Gaps : UpdateGap(g, t)
      /\ heard' = IF heard.over THEN heard
                  ELSE [heard EXCEPT !.quiet = since,
                                     !.over = resume = None /\ t - since > GoneGrace]
      /\ UNCHANGED <<world, up, account, cut, earned, events>>

(* What counted but was not queued when the user cut it off is given up.   *)
GiveUp == earned' = {b \in earned : \E r \in queued : r.started = b}

(* Variant: only the play in progress is dropped, its file stays.          *)
DropPlayKeepingFile ==
  /\ cur' = None
  /\ resume' = None
  /\ UNCHANGED file

(* Everything in progress is dropped and forgotten.                        *)
DropPlay ==
  /\ cur' = None
  /\ resume' = None
  /\ \E f \in Written(None) : file' = f

(* Sharing is off, or no account is connected.                             *)
GatedPoll(dt) ==
  /\ up
  /\ now + dt <= MaxTime
  /\ account = NoAccount \/ events < MaxEvents
  /\ events' = IF account = NoAccount THEN events ELSE events + 1
  /\ now' = now + dt
  /\ IF cur # None \/ resume # None THEN DropPlay ELSE UNCHANGED <<cur, resume, file>>
  /\ heard' = Over(heard)
  /\ cut' = now + dt
  /\ GiveUp
  /\ UNCHANGED <<world, up, account, queued>>

(* A configuration with the same identity changes nothing and has no step. *)
Reconfigure(a) ==
  /\ up
  /\ a # account
  /\ events < MaxEvents
  /\ events' = events + 1
  /\ account' = a
  /\ DropPlay
  /\ heard' = Over(heard)
  /\ cut' = now
  /\ GiveUp
  /\ UNCHANGED <<world, up, queued, now>>

(* Quit: what counts is queued now, and the play is saved as it stands.  A
   saved play that was never compared with a song stays.                   *)
Shutdown ==
  /\ world.quits
  /\ up
  /\ events < MaxEvents
  /\ events' = events + 1
  /\ up' = FALSE
  /\ queued' = queued \cup Banked(cur)
  /\ IF cur # None
       THEN LET p == [cur EXCEPT !.banked = @ \/ MustBank(cur)]
            IN  \E f \in Written(Saved(p, now)) : file' = f
       ELSE IF resume = None THEN \E f \in Written(None) : file' = f ELSE UNCHANGED file
  /\ cur' = None /\ resume' = None
  /\ UNCHANGED <<world, account, now, heard, cut, earned>>

Crash ==
  /\ world.crashes
  /\ up
  /\ events < MaxEvents
  /\ events' = events + 1
  /\ up' = FALSE
  /\ cur' = None /\ resume' = None
  /\ UNCHANGED <<world, account, file, queued, now, heard, cut, earned>>

(* The next run loads the saved play, and looks its album up afresh.       *)
Start ==
  /\ ~up
  /\ up' = TRUE
  /\ resume' = file
  /\ heard' = HeardAfresh
  /\ UNCHANGED <<world, account, cur, file, queued, now, cut, earned, events>>

Next ==
  \/ \E dt \in 1 .. MaxStep : SongPoll(dt)
  \/ \E dt \in 1 .. MaxStep : GapPoll(dt)
  \/ \E dt \in 1 .. MaxStep : GatedPoll(dt)
  \/ \E a \in Accounts \cup {NoAccount} : Reconfigure(a)
  \/ Shutdown
  \/ Crash
  \/ Start

Spec == Init /\ [][Next]_vars

----------------------------------------------------------------------------
(* Properties.                                                             *)

TypeOK ==
  /\ world \in Worlds
  /\ up \in BOOLEAN
  /\ account \in Accounts \cup {NoAccount}
  /\ cur \in Play \cup {None}
  /\ resume \in Record \cup {None}
  /\ file \in Record \cup {None}
  /\ \A r \in queued : /\ r.name \in Songs \cup {Other}
                       /\ {r.listen, r.started, r.dur} \subseteq Nat
                       /\ r.account \in Accounts
  /\ now \in Nat
  /\ heard \in Listen /\ (~heard.over => heard.song \in Songs)
  /\ cut \in Nat /\ events \in Nat
  /\ earned \subseteq Nat

(* One listen is never scrobbled under two beginnings: not when Refrain is
   quit or dies in the middle of the song and comes back, not over a gap
   and not when the song's album turns up late (the comments of shutdown
   and _settle_resume_locked; docs/lastfm.md:57-61).                       *)
OncePerListen ==
  \A q, r \in queued : q.listen = r.listen => q.started = r.started

(* The same, as long as the source shows songs or nothing: what else it
   shows may be taken for the song starting over (GapStartsOver).          *)
OncePerListenOfSongs == ~world.otherThings => OncePerListen

(* While the source shows songs and no gap outlasts the grace, a listen that
   goes on is one play: the album that turns up in it, or has shown before,
   changes nothing (the docstring of fills_in_album; the comment of update
   on it).                                                                 *)
OnePlayPerListen ==
  [][ /\ up /\ up' /\ ~world.otherThings
      /\ cur # None /\ cur' # None
      /\ cur.listen = heard.number /\ heard'.number = heard.number
      => cur'.started = cur.started ]_vars

(* A play that has counted is never lost, unless the user cuts it off: it
   is in the queue, or still in progress (counting, unless it is being
   carried over a gap), or in the file, from where the next run queues it
   (docs/lastfm.md:61-62).                                                 *)
CountedSurvives ==
  \A b \in earned :
    \/ \E r \in queued : r.started = b
    \/ /\ cur # None /\ cur.started = b
       /\ Counts(cur.played, cur.dur) \/ cur.gone # None
    \/ ~up /\ file # None /\ file.started = b /\ Counts(file.played, file.dur)
    \/ resume # None /\ resume.started = b /\ Counts(resume.played, resume.dur)

(* The same, as long as the source shows songs or nothing: the length of
   something else may become the song's (GapBridged).                      *)
CountedSongSurvives == ~world.otherThings => CountedSurvives

(* The same time is never credited to two plays, nor time nobody heard: the
   stretches of time that two queued plays must have been heard for do not
   overlap, and none lies in the future.                                   *)
TimeCountsOnce ==
  \A q \in queued :
    /\ q.started + Needed(q.dur) <= now
    /\ \A r \in queued : q.started < r.started => q.started + Needed(q.dur) <= r.started

(* What is queued was heard since sharing was last off and since the account
   last changed, and goes to that account: what was heard before is nobody's
   to scrobble (the comments of reconfigure and of the gate in update).
   That it also began since then is not so: see the README.                *)
HeardSinceTheCut ==
  [][\A r \in queued' \ queued :
       /\ r.account = account
       /\ Later(cut, r.started) + Needed(r.dur) <= now']_vars
=============================================================================
