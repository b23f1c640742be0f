----------------------------- MODULE PlayHistory -----------------------------
(***************************************************************************)
(* The recently played songs (src/refrain/history.py, class PlayHistory):  *)
(* the list of plays that counted, newest first, the song on right now,    *)
(* the file both are kept in, and the copy the window shows.               *)
(*                                                                         *)
(* The poll loop calls update with what the player shows; the user takes   *)
(* songs out, clears the list, switches the history off and on and changes *)
(* its limit; the scrobbler marks what it has queued; Refrain may be quit, *)
(* and it may die.  All of it runs on the daemon's thread.  The daemon     *)
(* hands the window a new copy when a call says that something changed.    *)
(*                                                                         *)
(* A row is the same object in the list and in the play in progress (or    *)
(* the saved play) it belongs to: CurrentIsNewest.  Time is counted in one *)
(* unit for every clock; it advances from poll to poll.  What the listener *)
(* really does is the environment, in Listener.                            *)
(***************************************************************************)
EXTENDS Listener, Rows

CONSTANTS
  UnknownCounts,  \* _UNKNOWN_LENGTH_COUNTS_AFTER_MS
  PauseShown,     \* PAUSE_SHOWN_AFTER_S
  Limits,         \* values of history.max_entries
  FirstLimits,    \* bound of the model: those it may have before the first start
  Damaged         \* a file whose JSON cannot be read

ASSUME PlayHistoryAssumption ==
  /\ UnknownCounts \in Nat \ {0}
  /\ PauseShown \in Nat
  /\ Limits \subseteq Nat \ {0} /\ FirstLimits \subseteq Limits

VARIABLES
  up,       \* Refrain is running
  config,   \* the history's settings as the window last saved them
  enabled,  \* _enabled
  limit,    \* _limit
  entries,  \* _entries: the plays that counted, newest first
  cur,      \* _cur: the song on right now, or None
  resume,   \* _resume: the last run's song, not yet compared, or None
  ignore,   \* _ignore_key: a song taken out while it played, or None
  gone,     \* _gone_at
  file,     \* history.json, Damaged, or None
  bad,      \* a damaged file was set aside
  window,   \* the copy the window shows
  now,      \* the time of the last poll
  cut,      \* history: when the list was last cleared or off
  removed,  \* history: beginnings of the plays the user took out
  out,      \* history: the listen the user took out while it played
  last,     \* history: when a play last counted
  spent,    \* history: for how long Refrain heard the listen under way
  events    \* bound of the model

memory == <<enabled, limit, entries, cur, resume, ignore, gone>>
disk == <<file, bad>>
ghosts == <<cut, removed, out, last, spent>>
vars == <<world, heard, up, config, memory, disk, window, now, ghosts, events>>

(* A row: its song, whether it has the album, when it began, its length,
   whether it went to Last.fm; `listen' is the listen it began with.       *)
Entry ==
  [song : Songs, album : BOOLEAN, started : Nat, dur : Nat, scrobbled : BOOLEAN,
   listen : Nat]

(* The song on right now: how much of it was heard and is in the file, its
   position, whether it plays, since when it is paused, whether it is shown
   as playing, and whether it counted.                                     *)
Play ==
  [entry : Entry, played : Nat, saved : Nat, pos : Position, playing : BOOLEAN,
   paused : Position, shown : BOOLEAN, counted : BOOLEAN]

(* The same as the file keeps it, and when it was saved.                   *)
Record ==
  [entry : Entry, played : Nat, pos : Position, counted : BOOLEAN, at : Nat]

Key == [song : Songs, album : BOOLEAN]

(* history.json, where it can be read.                                     *)
File == [entries : Seq(Entry), current : Record \cup {None}]

ASSUME NoneIsNoEntry ==
  /\ None \notin Play /\ None \notin Record /\ None \notin Key
  /\ None \notin File /\ Damaged \notin File /\ Damaged # None

KeyOf(e) == [song |-> e.song, album |-> e.album]

----------------------------------------------------------------------------
(* The rules.                                                              *)

(* counts_as_played: Last.fm's rule; without a length, its cap.            *)
CountsAsPlayed(played, dur) == IF dur = 0 THEN played >= UnknownCounts ELSE Counts(played, dur)

(* _same_play, and what remove compares.                                   *)
SamePlay(e, f) == e.started = f.started /\ e.song = f.song

----------------------------------------------------------------------------
(* The file and the window.                                                *)

Trimmed(list, n) == SubSeq(list, 1, IF Len(list) < n THEN Len(list) ELSE n)

RecordOf(c, t) ==
  [entry |-> c.entry, played |-> c.played, pos |-> c.pos, counted |-> c.counted, at |-> t]

(* What _save_locked writes: the list, and the song on right now or the one
   that was not compared yet.                                              *)
Stored(list, c, r, t) ==
  [entries |-> list, current |-> IF c # None THEN RecordOf(c, t) ELSE r]

(* What an attempt to leave the file as f can leave: f, or what was there;
   a disk that fills up may leave the beginning of f.                      *)
Written(f) == {f} \cup (IF world.writesMayFail THEN {file, Damaged} ELSE {})

Save(list, c, r, t) ==
  /\ \E f \in Written(Stored(list, c, r, t)) : file' = f
  /\ UNCHANGED bad

(* The song on right now, when it is written.                              *)
Kept(c) == IF c = None THEN None ELSE [c EXCEPT !.saved = c.played]

(* Variant: a damaged file that was set aside is left there.               *)
DeleteOnlyTheFile ==
  /\ \E f \in {None} \cup (IF world.writesMayFail THEN {file} ELSE {}) : file' = f
  /\ UNCHANGED bad

(* _delete_file: the file, and the damaged one set aside.                  *)
DeleteFile ==
  /\ \E f \in {None} \cup (IF world.writesMayFail THEN {file} ELSE {}) : file' = f
  /\ \E b \in {FALSE} \cup (IF world.writesMayFail THEN {bad} ELSE {}) : bad' = b

(* snapshot: a row of the window, and the whole of it.                     *)
Line(e) == [song |-> e.song, album |-> e.album, started |-> e.started, scrobbled |-> e.scrobbled]

Snapshot(on, n, list, c) ==
  IF ~on THEN [on |-> FALSE, lines |-> <<>>, nowPlaying |-> FALSE, playing |-> FALSE]
  ELSE LET rows == Trimmed(IF c # None /\ ~c.counted THEN <<c.entry>> \o list ELSE list, n)
       IN  [on |-> TRUE, lines |-> [i \in 1 .. Len(rows) |-> Line(rows[i])],
            nowPlaying |-> c # None, playing |-> c # None /\ c.shown]

(* _emit_history, when a call returned that something changed.             *)
Emit(changed) ==
  window' = IF changed THEN Snapshot(enabled', limit', entries', cur') ELSE window

----------------------------------------------------------------------------
(* One poll that shows a song: s is what it shows, `dressed' whether its
   cover turned up, t the time, dt the time since the last poll.           *)

(* The list with the row of c in it, where c is the newest row.            *)
Relisted(list, c) == IF c # None /\ c.counted THEN [list EXCEPT ![1] = c.entry] ELSE list

(* The song on right now, with the album that turned up.                   *)
FilledIn(c, s) ==
  IF c # None /\ FillsIn(KeyOf(c.entry), s) THEN [c EXCEPT !.entry.album = TRUE] ELSE c

(* Variant: the song taken out stays out under its first key only.         *)
IgnoredByFirstKey(s) == ignore

IgnoredNow(s) == IF FillsIn(ignore, s) THEN [ignore EXCEPT !.album = TRUE] ELSE ignore

SameSong(c, s) == c # None /\ c.entry.song = s.song /\ c.entry.album = s.album

StartsOver(c, s) == c.counted /\ (s.restarted \/ IsReplay(c.counted, c.pos, s.pos))

(* The song follows one that was just playing.                             *)
FollowsPlay(c, t) ==
  c # None /\ (c.playing \/ (c.paused # None /\ t - c.paused < PauseShown))

(* Variant: the time heard so far goes to the next song.                   *)
StartedWithTheTimeSoFar(s, t) ==
  [entry |-> [song |-> s.song, album |-> s.album, started |-> t, dur |-> s.len,
              scrobbled |-> FALSE, listen |-> s.listen],
   played |-> IF cur = None THEN 0 ELSE cur.played, saved |-> 0, pos |-> s.pos,
   playing |-> s.playing, paused |-> IF s.playing THEN None ELSE t, shown |-> TRUE,
   counted |-> FALSE]

(* _start_locked, and what update sets after it.                           *)
Started(s, t) ==
  [entry |-> [song |-> s.song, album |-> s.album, started |-> t, dur |-> s.len,
              scrobbled |-> FALSE, listen |-> s.listen],
   played |-> 0, saved |-> 0, pos |-> s.pos, playing |-> s.playing,
   paused |-> IF s.playing THEN None ELSE t, shown |-> TRUE, counted |-> FALSE]

(* The first song after a start is the last run's, and still the same play.*)
CarriesOn(s, t) ==
  /\ resume # None
  /\ KeyOf(resume.entry) = [song |-> s.song, album |-> s.album]
  /\ ContinuesPlay(resume.entry.dur, resume.pos, t - resume.at, s.len, s.pos)

(* Variant: what had counted counts again.                                 *)
CarriedOnAnew(s, t) ==
  [entry |-> [resume.entry EXCEPT !.dur = IF s.len > 0 THEN s.len ELSE @],
   played |-> resume.played, saved |-> resume.played, pos |-> s.pos, playing |-> s.playing,
   paused |-> IF s.playing THEN None ELSE t, shown |-> TRUE, counted |-> FALSE]

(* Variant: the count begins at zero again.                                *)
CarriedOnFromZero(s, t) ==
  [entry |-> [resume.entry EXCEPT !.dur = IF s.len > 0 THEN s.len ELSE @],
   played |-> 0, saved |-> 0, pos |-> s.pos, playing |-> s.playing,
   paused |-> IF s.playing THEN None ELSE t, shown |-> TRUE, counted |-> resume.counted]

(* _resume_locked, where the song is carried on with.                      *)
CarriedOn(s, t) ==
  [entry |-> [resume.entry EXCEPT !.dur = IF s.len > 0 THEN s.len ELSE @],
   played |-> resume.played, saved |-> resume.played, pos |-> s.pos, playing |-> s.playing,
   paused |-> IF s.playing THEN None ELSE t, shown |-> TRUE, counted |-> resume.counted]

(* _finish_current_locked leaves something to write.                       *)
WorthFinishing(c) == c # None /\ (c.counted \/ c.saved > 0)

(* Another song, or the same one over again, and it was not taken out.  c is
   what was on, the first song after a start has no such.                  *)
SongBegins(c, list, s, t) ==
  LET carried == CarriesOn(s, t)
      letGo == resume # None /\ ~carried /\ ~resume.counted
      begins == s.playing \/ FollowsPlay(c, t)
  IN  /\ resume' = None
      /\ cur' = IF carried THEN CarriedOn(s, t) ELSE IF begins THEN Started(s, t) ELSE None
      /\ entries' = IF carried THEN Relisted(list, CarriedOn(s, t)) ELSE list
      /\ IF WorthFinishing(c) \/ letGo THEN Save(list, None, None, t) ELSE UNCHANGED disk
      /\ ignore' = None
      /\ Emit(c # None \/ carried \/ begins)

(* A song the user took out, and it is still on.                           *)
StaysOut(c, list, ig, t) ==
  /\ cur' = None
  /\ entries' = list
  /\ IF WorthFinishing(c) THEN Save(list, None, resume, t) ELSE UNCHANGED disk
  /\ ignore' = ig
  /\ UNCHANGED resume
  /\ Emit(c # None)

(* The song on right now, with what this poll says of it.                  *)
Heard(c, s, t, dt) ==
  LET since == IF c.paused = None THEN t ELSE c.paused
  IN  [c EXCEPT !.played = @ + Credit(s.playing, dt),
                !.entry.dur = IF s.len > 0 THEN s.len ELSE @,
                !.pos = s.pos,
                !.playing = s.playing,
                !.paused = IF s.playing THEN None ELSE since,
                !.shown = s.playing \/ (@ /\ t - since < PauseShown)]

(* Variant: a row is listed as the play it is when it is over.             *)
WorthSavingAtTheEnd(q) == FALSE

(* A crash should leave a recent position.                                 *)
WorthSaving(q) == q.played - q.saved >= SaveEvery

(* Variant: what the window shows only changes with the list.              *)
ChangeShows(c, q, counts) == counts

ChangeOfShown(c, q, counts) == counts \/ c.shown # q.shown

(* The same play goes on.  When it counts it becomes the newest row.       *)
SongGoesOn(c, list, s, dressed, t, dt) ==
  LET q == Heard(c, s, t, dt)
      counts == ~c.counted /\ CountsAsPlayed(q.played, q.entry.dur)
      r == [q EXCEPT !.counted = c.counted \/ counts]
      kept == IF counts THEN Trimmed(<<r.entry>> \o list, limit) ELSE Relisted(list, r)
      filled == c.entry # cur.entry
      news == c.counted /\ (filled \/ dressed \/ r.entry.dur # c.entry.dur)
  IN  /\ entries' = kept
      /\ IF counts \/ news \/ WorthSaving(r)
           THEN cur' = [r EXCEPT !.saved = r.played] /\ Save(kept, r, resume, t)
           ELSE cur' = r /\ UNCHANGED disk
      /\ UNCHANGED <<resume, ignore>>
      /\ Emit(filled \/ dressed \/ ChangeOfShown(c, r, counts))

UpdateSong(s, dressed, t, dt) ==
  LET c == FilledIn(cur, s)
      list == Relisted(entries, c)
      ig == IgnoredNow(s)
  IN  /\ gone' = None
      /\ IF SameSong(c, s) /\ ~StartsOver(c, s)
           THEN SongGoesOn(c, list, s, dressed, t, dt)
           ELSE IF ig # None /\ ig = [song |-> s.song, album |-> s.album]
                  THEN StaysOut(c, list, ig, t)
                  ELSE SongBegins(c, list, s, t)

----------------------------------------------------------------------------
(* One poll that shows no song: within the grace nothing happens, past it
   the song on right now is over, and one that was taken out is forgotten. *)

GoneSince(t) == IF gone = None THEN t ELSE gone

WithinGrace(t) == t - GoneSince(t) <= GoneGrace

UpdateNothing(t) ==
  /\ UNCHANGED <<entries, resume>>
  /\ CASE cur = None /\ ignore = None -> UNCHANGED <<cur, ignore, gone, disk, window>>
       [] (cur # None \/ ignore # None) /\ WithinGrace(t) ->
            gone' = GoneSince(t) /\ UNCHANGED <<cur, ignore, disk, window>>
       [] (cur # None \/ ignore # None) /\ ~WithinGrace(t) ->
            /\ gone' = None /\ cur' = None /\ ignore' = None
            /\ IF WorthFinishing(cur) THEN Save(entries, None, resume, t) ELSE UNCHANGED disk
            /\ Emit(cur # None)

----------------------------------------------------------------------------
(* The polls, with what is heard.                                          *)

(* A saved song that is left for longer than it may is not carried on, so
   the listen is taken to be over.                                         *)
LeftTooLong(t) == resume # None /\ t - resume.at > MayBeLeft(resume.entry.dur, 0)

Poll(dt) ==
  /\ up
  /\ now + dt <= MaxTime
  /\ now' = now + dt
  /\ UNCHANGED <<world, up, config, enabled, limit, cut, removed, out, events>>

(* A cover turns up late as an album does.                                 *)
Dressed == IF world.lateAlbum THEN BOOLEAN ELSE {FALSE}

Update(s, t, dt) ==
  IF enabled THEN \E dressed \in Dressed : UpdateSong(s, dressed, t, dt)
             ELSE UNCHANGED <<entries, cur, resume, ignore, gone, disk, window>>

(* When a play counts.                                                     *)
Counting(t) ==
  last' = IF cur' # None /\ cur'.counted /\ (cur = None \/ ~cur.counted) /\ resume = None
            THEN t ELSE last

SongPoll(dt) ==
  LET t == now + dt
  IN  /\ Poll(dt)
      /\ \/ /\ ~heard.over /\ ~LeftTooLong(t)
            /\ \E h \in GoesOn(dt), playing \in BOOLEAN :
                 /\ heard' = h
                 /\ \E s \in Shown(h, playing, FALSE) : Update(s, t, dt)
                 /\ spent' = IF cur # None /\ cur.entry.listen = heard.number
                               THEN spent + Credit(playing, dt) ELSE spent
         \/ /\ heard.number < MaxListens
            /\ \E h \in Begins, playing \in BOOLEAN, restarted \in BOOLEAN :
                 /\ restarted => cur # None /\ h.song = heard.song
                 /\ heard' = h
                 /\ \E s \in Shown(h, playing, restarted) : Update(s, t, dt)
            /\ spent' = 0
      /\ Counting(t)

(* Nothing is played, or nothing that has a name.                          *)
NothingPoll(dt) ==
  LET t == now + dt
      since == IF heard.quiet = None THEN t ELSE heard.quiet
  IN  /\ Poll(dt)
      /\ IF enabled THEN UpdateNothing(t)
                    ELSE UNCHANGED <<entries, cur, resume, ignore, gone, disk, window>>
      /\ heard' = IF heard.over THEN heard
                  ELSE [heard EXCEPT !.quiet = since,
                                     !.over = resume = None /\ t - since > GoneGrace]
      /\ UNCHANGED <<last, spent>>

----------------------------------------------------------------------------
(* What the user and the scrobbler ask for.                                *)

Event ==
  /\ up
  /\ events < MaxEvents
  /\ events' = events + 1
  /\ UNCHANGED <<world, up, now, last>>

(* mark_scrobbled: the newest row of the song.                             *)
MarkScrobbled(song) ==
  \E i \in 1 .. Len(entries) :
    LET marked == [entries EXCEPT ![i].scrobbled = TRUE]
    IN
      /\ Event
      /\ enabled
      /\ entries[i].song = song /\ \A j \in 1 .. i - 1 : entries[j].song # song
      /\ ~entries[i].scrobbled
      /\ entries' = marked
      /\ cur' = IF i = 1 /\ cur # None /\ cur.counted
                  THEN [Kept(cur) EXCEPT !.entry.scrobbled = TRUE] ELSE Kept(cur)
      /\ resume' = IF i = 1 /\ resume # None /\ resume.counted
                     THEN [resume EXCEPT !.entry.scrobbled = TRUE] ELSE resume
      /\ Save(marked, cur', resume', now)
      /\ UNCHANGED <<heard, config, enabled, limit, ignore, gone, cut, removed, out, spent>>
      /\ Emit(TRUE)

(* Variant: the saved song of the last run is not taken out.               *)
ForgetOnlyTheList(line) == resume

(* The saved song of the last run goes with its row.                       *)
ForgetTheSaved(line) == IF resume # None /\ SamePlay(resume.entry, line) THEN None ELSE resume

(* Variant: only a change of the list is written.                          *)
ListChanged(taken, list) == list # entries

Changed(taken, list) == taken \/ list # entries

(* remove: a song the window shows.                                        *)
Remove(line) ==
  LET taken == cur # None /\ SamePlay(cur.entry, line)
      stays == {i \in 1 .. Len(entries) : ~SamePlay(entries[i], line)}
      c == IF taken THEN None ELSE cur
      r == ForgetTheSaved(line)
  IN  \E n \in 0 .. Len(entries) : \E f \in Listings(n, stays) :
      LET list == [i \in 1 .. n |-> entries[f[i]]] IN
      /\ Event
      /\ enabled
      /\ ignore' = IF taken THEN KeyOf(cur.entry) ELSE ignore
      /\ entries' = list
      /\ resume' = r
      /\ IF Changed(taken, list) THEN cur' = Kept(c) /\ Save(list, c, r, now)
                                 ELSE cur' = c /\ UNCHANGED disk
      /\ removed' = removed \cup {line.started}
      /\ out' = IF taken THEN cur.entry.listen ELSE out
      /\ UNCHANGED <<heard, config, enabled, limit, gone, cut>>
      /\ spent' = IF taken \/ r # resume THEN 0 ELSE spent
      /\ Emit(taken \/ list # entries)

(* clear: the song playing right now comes back and counts from zero.      *)
Clear ==
  /\ Event
  /\ entries' = <<>> /\ cur' = None /\ resume' = None /\ ignore' = None
  /\ DeleteFile
  /\ cut' = now /\ out' = 0 /\ spent' = 0
  /\ UNCHANGED <<heard, config, enabled, limit, gone, removed>>
  /\ Emit(TRUE)

(* The window saves the settings, and hands them to the daemon.            *)
Configure(c) ==
  /\ Event
  /\ config = [on |-> enabled, limit |-> limit]
  /\ c # config
  /\ config' = c
  /\ UNCHANGED <<heard, memory, disk, window, ghosts>>

(* _load: what a file gives, ...                                           *)
LoadedRows(f) == IF f \in {None, Damaged} THEN <<>> ELSE f.entries

(* ... the saved song, which must be the newest row if it had counted, ... *)
LoadedSong(f) ==
  IF f \in {None, Damaged} \/ f.current = None THEN None
  ELSE IF ~f.current.counted THEN f.current
  ELSE IF f.entries # <<>> /\ SamePlay(f.entries[1], f.current.entry)
         THEN [f.current EXCEPT !.entry = f.entries[1]] ELSE None

(* ... and a damaged file set aside.  The list may be longer than the limit,
   and is written again if it was.                                         *)
Load(n) ==
  LET list == Trimmed(LoadedRows(file), n)
  IN  /\ entries' = list
      /\ resume' = LoadedSong(file)
      /\ CASE file = Damaged ->
                \/ file' = None /\ bad' = TRUE
                \/ world.writesMayFail /\ UNCHANGED disk
           [] file # Damaged /\ list # LoadedRows(file) ->
                Save(list, None, LoadedSong(file), now)
           [] OTHER -> UNCHANGED disk

(* Variant: a lower limit is not written.                                  *)
LimitInMemory(list) == UNCHANGED <<cur, disk>>

(* A lower limit drops the oldest rows, and saves.                         *)
LimitSaved(list) ==
  IF list # entries
    THEN cur' = Kept(cur) /\ Save(list, cur, resume, now)
    ELSE UNCHANGED <<cur, disk>>

(* reconfigure: off deletes the list; on loads what is there.              *)
SwitchedOff ==
  /\ ~config.on
  /\ enabled' = FALSE /\ limit' = config.limit
  /\ entries' = <<>> /\ cur' = None /\ resume' = None
  /\ DeleteFile
  /\ cut' = now /\ out' = 0 /\ spent' = 0
  /\ UNCHANGED <<ignore, gone>>
  /\ Emit(enabled)

SwitchedOn ==
  /\ config.on /\ ~enabled
  /\ enabled' = TRUE /\ limit' = config.limit
  /\ Load(IF limit # config.limit THEN config.limit ELSE Len(LoadedRows(file)))
  /\ cut' = now
  /\ UNCHANGED <<cur, ignore, gone, out, spent>>
  /\ Emit(TRUE)

Limited ==
  /\ config.on /\ enabled
  /\ limit' = config.limit
  /\ entries' = Trimmed(entries, config.limit)
  /\ LimitSaved(Trimmed(entries, config.limit))
  /\ UNCHANGED <<enabled, resume, ignore, gone, cut, out, spent>>
  /\ Emit(TRUE)

Reconfigure ==
  /\ up
  /\ config # [on |-> enabled, limit |-> limit]
  /\ SwitchedOff \/ SwitchedOn \/ Limited
  /\ UNCHANGED <<world, heard, up, config, now, removed, last, events>>

----------------------------------------------------------------------------
(* The process.                                                            *)

Forget ==
  /\ up' = FALSE
  /\ enabled' = FALSE /\ entries' = <<>> /\ cur' = None /\ resume' = None
  /\ ignore' = None /\ gone' = None
  /\ window' = Snapshot(FALSE, limit, <<>>, None)
  /\ UNCHANGED limit

(* shutdown: the song on right now is saved as it stands.                  *)
Shutdown ==
  /\ world.quits
  /\ up
  /\ events < MaxEvents
  /\ events' = events + 1
  /\ IF enabled THEN Save(entries, cur, resume, now) ELSE UNCHANGED disk
  /\ Forget
  /\ out' = 0
  /\ UNCHANGED <<world, heard, config, now, cut, removed, last, spent>>

(* What a crash takes is at most what was heard since the last save.       *)
Crash ==
  /\ world.crashes
  /\ up
  /\ events < MaxEvents
  /\ events' = events + 1
  /\ Forget
  /\ out' = 0
  /\ spent' = IF cur # None /\ cur.saved < spent THEN cur.saved ELSE spent
  /\ UNCHANGED <<world, heard, config, now, disk, cut, removed, last>>

(* __init__: the settings of the last run, or those saved after it.  Off
   deletes a file that was left behind.                                    *)
Start ==
  /\ ~up
  /\ up' = TRUE
  /\ enabled' = config.on /\ limit' = config.limit
  /\ IF config.on THEN Load(config.limit)
                  ELSE DeleteFile /\ entries' = <<>> /\ resume' = None
  /\ cut' = IF config.on THEN cut ELSE now
  /\ spent' = IF config.on THEN spent ELSE 0
  /\ heard' = HeardAfresh
  /\ UNCHANGED <<world, config, cur, ignore, gone, now, removed, out, last, events>>
  /\ Emit(TRUE)

(* Before the first start; a crash before it may have left a damaged file.  *)
Init ==
  /\ world \in Worlds
  /\ up = FALSE
  /\ config \in [on : BOOLEAN, limit : FirstLimits]
  /\ enabled = FALSE /\ limit = config.limit
  /\ entries = <<>> /\ cur = None /\ resume = None /\ ignore = None /\ gone = None
  /\ file \in {None} \cup (IF world.crashes THEN {Damaged} ELSE {}) /\ bad = FALSE
  /\ window = Snapshot(FALSE, limit, <<>>, None)
  /\ now = 0
  /\ heard = NoListen
  /\ cut = 0 /\ removed = {} /\ out = 0 /\ last = 0 /\ spent = 0
  /\ events = 0

Next ==
  \/ \E dt \in 1 .. MaxStep : SongPoll(dt)
  \/ \E dt \in 1 .. MaxStep : NothingPoll(dt)
  \/ \E song \in Songs : MarkScrobbled(song)
  \/ \E i \in 1 .. Len(window.lines) : Remove(window.lines[i])
  \/ Clear
  \/ \E c \in [on : BOOLEAN, limit : Limits] : Configure(c)
  \/ Reconfigure
  \/ Shutdown
  \/ Crash
  \/ Start

Spec == Init /\ [][Next]_vars

----------------------------------------------------------------------------
(* Properties.                                                             *)

LineType == [song : Songs, album : BOOLEAN, started : Nat, scrobbled : BOOLEAN]

Window ==
  [on : BOOLEAN, lines : Seq(LineType), nowPlaying : BOOLEAN, playing : BOOLEAN]

(* The settings, the list, the song on right now, the file and the window
   keep their types.                                                       *)
TypeOK ==
  /\ world \in Worlds
  /\ heard \in Listen
  /\ up \in BOOLEAN
  /\ config \in [on : BOOLEAN, limit : Limits]
  /\ enabled \in BOOLEAN /\ limit \in Limits
  /\ entries \in Seq(Entry)
  /\ cur \in Play \cup {None}
  /\ resume \in Record \cup {None}
  /\ ignore \in Key \cup {None}
  /\ gone \in Position
  /\ file \in File \cup {None, Damaged}
  /\ bad \in BOOLEAN
  /\ window \in Window
  /\ now \in Nat /\ cut \in Nat /\ removed \subseteq Nat /\ out \in Nat
  /\ last \in Nat /\ spent \in Nat /\ events \in Nat

(* A play in progress that has counted is the newest row, the very same one,
   and one that has not is no row at all; so for the last run's song
   while it waits to be compared (the comment of _Current.counted; the
   docstring of _Resume).                                                  *)
CurrentIsNewest ==
  \A p \in {cur, resume} \ {None} :
    IF p.counted THEN entries # <<>> /\ entries[1] = p.entry
                 ELSE \A i \in 1 .. Len(entries) : ~SamePlay(entries[i], p.entry)

(* The window shows what there is: whatever changes a line of it says that
   something changed (the docstrings of update, remove and reconfigure).   *)
WindowIsCurrent == up => window = Snapshot(enabled, limit, entries, cur)

Lines(list) == [i \in 1 .. Len(list) |-> Line(list[i])]

(* A crash loses no row: the list in the file is the list in memory, with
   every mark and album (docs/architecture.md:267-268).                    *)
WhatIsListedIsStored ==
  up /\ enabled /\ ~world.writesMayFail => Lines(entries) = Lines(LoadedRows(file))

(* A restart in the middle of a song is not a second play: one listen is one
   row (docs/faq.md:263-271).                                              *)
OneRowPerListen ==
  \A i, j \in 1 .. Len(entries) : entries[i].listen = entries[j].listen => i = j

(* How long a play of this length must be heard.                           *)
NeededFor(dur) == IF dur = 0 THEN UnknownCounts ELSE Needed(dur)

(* A new row was heard for as long as its length asks for, in time that
   counted for no other row, since the list was last cleared or off (the
   docstring of clear; docs/architecture.md:260-266).                      *)
HeardForItself ==
  [][ LET row == entries'[1]
      IN  /\ ~world.writesMayFail
          /\ up /\ enabled /\ entries' # <<>>
          /\ \A i \in 1 .. Len(entries) : ~SamePlay(entries[i], row)
          => /\ row.started >= last
             /\ Later(cut, row.started) + NeededFor(row.dur) <= now' ]_vars

(* What Refrain heard of a listen is not forgotten, not when it is quit in
   the middle and comes back: once it is enough the play is in the list
   (docs/faq.md:253-261).                                                  *)
HeardIsListed ==
  ~world.writesMayFail /\ cur # None /\ CountsAsPlayed(spent, cur.entry.dur) => cur.counted

(* A crash costs less than SaveEvery of the play in progress (the comment of
   _PROGRESS_SAVE_EVERY_MS).                                               *)
ProgressIsStored ==
  ~world.writesMayFail /\ cur # None =>
    LET known == IF file # None /\ file.current # None /\ SamePlay(file.current.entry, cur.entry)
                   THEN file.current.played ELSE 0
    IN  cur.played - known < SaveEvery

RowsIn(f) == IF f \in {None, Damaged} THEN {} ELSE
  {f.entries[i] : i \in 1 .. Len(f.entries)} \cup
  (IF f.current = None THEN {} ELSE {f.current.entry})

(* What the user took out, cleared or switched off is gone for good: it is
   nowhere in memory and nowhere in the file (docs/faq.md:250-251).        *)
ForgottenStaysForgotten ==
  ~world.writesMayFail =>
    \A e \in {entries[i] : i \in 1 .. Len(entries)}
             \cup {p.entry : p \in {cur, resume} \ {None}} \cup RowsIn(file) :
      e.started \notin removed /\ e.started > cut

(* A song taken out while it plays does not come back as the song on right
   now, not after a poll without a song, nor with its album (the docstring
   of remove).  A restart does bring it back: see the README.              *)
RemovedStaysOut == cur # None => cur.entry.listen # out

(* While the history is off nothing is kept, the damaged file included (the
   comments of __init__ and _delete_file).                                 *)
OffKeepsNothing ==
  up /\ ~enabled /\ ~world.writesMayFail =>
    entries = <<>> /\ cur = None /\ resume = None /\ file = None /\ ~bad
=============================================================================
