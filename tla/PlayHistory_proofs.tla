-------------------------- MODULE PlayHistory_proofs --------------------------
(***************************************************************************)
(* What holds of the recently played songs for any songs, lengths, limits, *)
(* graces and intervals, and for any number of polls, requests, restarts   *)
(* and crashes.                                                            *)
(***************************************************************************)
EXTENDS PlayHistory, TLAPS

(* What a poll that shows a song shows.                                    *)
SongShown ==
  [song : Songs, album : BOOLEAN, len : Nat, pos : Position, playing : BOOLEAN,
   restarted : BOOLEAN, listen : Nat]

(* A listen with a song in it.                                             *)
Hearing == {h \in Listen : h.song \in Songs}

-----------------------------------------------------------------------------
(* The environment.                                                        *)

LEMMA Constants ==
  /\ MinTrack \in Nat /\ SaveEvery \in Nat \ {0} /\ ScrobbleAfter \in Nat \ {0}
  /\ ResumeGrace \in Nat /\ GoneGrace \in Nat /\ ReplayStart \in Nat /\ ReplayJump \in Nat
  /\ MaxGap \in Nat /\ MaxStep \in Nat /\ MaxTime \in Nat /\ PauseShown \in Nat
  /\ UnknownCounts \in Nat \ {0} /\ Limits \subseteq Nat \ {0} /\ FirstLimits \subseteq Limits
  /\ None \notin Nat /\ None \notin Songs
  BY PlayRulesAssumption, ListenerAssumption, PlayHistoryAssumption

LEMMA CreditBound ==
  ASSUME NEW playing \in BOOLEAN, NEW dt \in Nat
  PROVE  Credit(playing, dt) \in Nat /\ Credit(playing, dt) <= dt
  BY DEF Credit

LEMMA WorldType ==
  ASSUME world \in Worlds
  PROVE  /\ world \in World
         /\ \A song \in Songs : world.lengths[song] \subseteq Nat
         /\ world.seekTo \subseteq Nat
<1>1. world \in World
  BY ListenerAssumption
<1>2. QED
  BY <1>1 DEF World

(* What the environment shows is of the right kind.                        *)
LEMMA ShownType ==
  ASSUME world \in Worlds, NEW h \in Hearing, NEW playing \in BOOLEAN, NEW restarted \in BOOLEAN
  PROVE  Shown(h, playing, restarted) \subseteq SongShown
<1>1. h.song \in Songs /\ h.album \in BOOLEAN /\ h.pos \in Nat /\ h.number \in Nat
  BY DEF Hearing, Listen
<1>2. world.lengths[h.song] \subseteq Nat
  BY <1>1, WorldType
<1>3. QED
  BY <1>1, <1>2 DEF Shown, SongShown, Position

LEMMA GoesOnType ==
  ASSUME world \in Worlds, heard \in Hearing, NEW dt \in Nat, NEW h \in GoesOn(dt)
  PROVE  h \in Hearing
<1>1. heard.pos \in Nat /\ SoughtTo(heard.pos) \subseteq Nat
  BY WorldType DEF SoughtTo, Hearing, Listen
<1>2. Places(dt) \subseteq Nat
  BY <1>1 DEF Places
<1>3. AlbumShows(heard.album) \subseteq BOOLEAN
  BY DEF AlbumShows
<1>4. ASSUME NEW pos \in Nat, NEW album \in BOOLEAN
      PROVE  HeardAt(pos, album) \in Hearing
  BY DEF HeardAt, Hearing, Listen, Position
<1>5. QED
  BY <1>2, <1>3, <1>4 DEF GoesOn

LEMMA BeginsType ==
  ASSUME world \in Worlds, heard.number \in Nat, NEW h \in Begins
  PROVE  h \in Hearing /\ h.number = heard.number + 1
<1> DEFINE first == AlbumShows(FALSE)
<1>1. first \subseteq BOOLEAN
  BY DEF AlbumShows
<1>2. ASSUME NEW song \in Songs, NEW album \in BOOLEAN
      PROVE  /\ HeardFirst(song, album) \in Hearing
             /\ HeardFirst(song, album).number = heard.number + 1
  BY DEF HeardFirst, Hearing, Listen, Position
<1>3. Playable \subseteq Songs
  BY DEF Playable
<1>4. Begins = {HeardFirst(song, album) : song \in Playable, album \in first}
  BY DEF Begins
<1> HIDE DEF first
<1>5. QED
  BY <1>1, <1>2, <1>3, <1>4

-----------------------------------------------------------------------------
(* The operators.                                                          *)

LEMMA TrimmedRows ==
  ASSUME NEW S, NEW list \in Seq(S), NEW n \in Nat
  PROVE  /\ Trimmed(list, n) \in Seq(S)
         /\ Len(Trimmed(list, n)) = IF Len(list) < n THEN Len(list) ELSE n
         /\ \A i \in 1 .. Len(Trimmed(list, n)) :
              i \in 1 .. Len(list) /\ Trimmed(list, n)[i] = list[i]
  BY DEF Trimmed

LEMMA ListedRows ==
  ASSUME NEW S, NEW list \in Seq(S), NEW e \in S
  PROVE  /\ <<e>> \o list \in Seq(S)
         /\ Len(<<e>> \o list) = Len(list) + 1
         /\ (<<e>> \o list)[1] = e
         /\ \A i \in 2 .. Len(list) + 1 : (<<e>> \o list)[i] = list[i - 1]
  OBVIOUS

LEMMA RecordFields ==
  ASSUME NEW c \in Play, NEW t \in Nat
  PROVE  /\ RecordOf(c, t) \in Record /\ RecordOf(c, t) # None
         /\ RecordOf(c, t).entry = c.entry /\ RecordOf(c, t).played = c.played
         /\ RecordOf(c, t).counted = c.counted
  BY NoneIsNoEntry DEF RecordOf, Record, Play

LEMMA KeptFields ==
  ASSUME NEW c \in Play \cup {None}
  PROVE  /\ Kept(c) \in Play \cup {None} /\ (Kept(c) = None <=> c = None)
         /\ c # None =>
              /\ Kept(c) \in Play
              /\ Kept(c).entry = c.entry /\ Kept(c).played = c.played /\ Kept(c).saved = c.played
              /\ Kept(c).counted = c.counted /\ Kept(c).shown = c.shown
  BY NoneIsNoEntry DEF Kept, Play

LEMMA StartedFields ==
  ASSUME NEW s \in SongShown, NEW t \in Nat
  PROVE  /\ Started(s, t) \in Play /\ Started(s, t) # None
         /\ Started(s, t).entry.started = t /\ Started(s, t).entry.listen = s.listen
         /\ Started(s, t).played = 0 /\ Started(s, t).saved = 0 /\ ~Started(s, t).counted
<1>1. Started(s, t) \in Play
  BY DEF Started, SongShown, Play, Entry, Position
<1>2. QED
  BY <1>1, NoneIsNoEntry DEF Started

LEMMA CarriedOnFields ==
  ASSUME NEW s \in SongShown, NEW t \in Nat, resume \in Record
  PROVE  LET c == CarriedOn(s, t)
         IN  /\ c \in Play /\ c # None
             /\ c.entry.song = resume.entry.song /\ c.entry.album = resume.entry.album
             /\ c.entry.started = resume.entry.started
             /\ c.entry.scrobbled = resume.entry.scrobbled
             /\ c.entry.listen = resume.entry.listen
             /\ c.played = resume.played /\ c.saved = resume.played
             /\ c.counted = resume.counted
<1> DEFINE e == [resume.entry EXCEPT !.dur = IF s.len > 0 THEN s.len ELSE @]
<1>1. /\ e \in Entry
      /\ e.song = resume.entry.song /\ e.album = resume.entry.album
      /\ e.started = resume.entry.started /\ e.scrobbled = resume.entry.scrobbled
      /\ e.listen = resume.entry.listen
  BY DEF Record, Entry, SongShown
<1>2. CarriedOn(s, t).entry = e
  BY DEF CarriedOn
<1>3. resume.played \in Nat /\ resume.counted \in BOOLEAN
  BY DEF Record
<1> HIDE DEF e
<1>4. CarriedOn(s, t) \in Play
  BY <1>1, <1>2, <1>3 DEF CarriedOn, e, SongShown, Play, Position
<1>5. QED
  BY <1>1, <1>2, <1>4, NoneIsNoEntry DEF CarriedOn

LEMMA FilledInFields ==
  ASSUME NEW c \in Play \cup {None}, NEW s \in SongShown
  PROVE  LET d == FilledIn(c, s)
         IN  /\ d \in Play \cup {None} /\ (d = None <=> c = None)
             /\ c # None =>
                  /\ d.entry \in Entry
                  /\ d.entry.song = c.entry.song /\ d.entry.started = c.entry.started
                  /\ d.entry.listen = c.entry.listen /\ d.entry.dur = c.entry.dur
                  /\ d.entry.scrobbled = c.entry.scrobbled
                  /\ d.entry.album # c.entry.album => d.entry # c.entry
                  /\ d.entry.album = c.entry.album => d.entry = c.entry
                  /\ d.played = c.played /\ d.saved = c.saved /\ d.pos = c.pos
                  /\ d.playing = c.playing /\ d.paused = c.paused /\ d.shown = c.shown
                  /\ d.counted = c.counted
<1>1. CASE c = None
  BY <1>1 DEF FilledIn
<1>2. CASE c \in Play /\ ~FillsIn(KeyOf(c.entry), s)
  BY <1>2, NoneIsNoEntry DEF FilledIn, Play
<1>3. CASE c \in Play /\ FillsIn(KeyOf(c.entry), s)
  <2> DEFINE d == [c EXCEPT !.entry.album = TRUE]
  <2>1. FilledIn(c, s) = d
    BY <1>3, NoneIsNoEntry DEF FilledIn
  <2>2. ~c.entry.album
    BY <1>3 DEF FillsIn, KeyOf
  <2>3. /\ d \in Play
        /\ d.entry = [c.entry EXCEPT !.album = TRUE]
        /\ d.played = c.played /\ d.saved = c.saved /\ d.pos = c.pos
        /\ d.playing = c.playing /\ d.paused = c.paused /\ d.shown = c.shown
        /\ d.counted = c.counted
    BY <1>3 DEF Play, Entry
  <2> HIDE DEF d
  <2>4. d.entry.album
    BY <1>3, <2>3 DEF Play, Entry
  <2>5. QED
    BY <1>3, <2>1, <2>2, <2>3, <2>4, NoneIsNoEntry DEF Play, Entry
<1>4. QED
  BY <1>1, <1>2, <1>3

LEMMA IgnoredNowType ==
  ASSUME NEW s \in SongShown, ignore \in Key \cup {None}
  PROVE  IgnoredNow(s) \in Key \cup {None}
  BY DEF IgnoredNow, FillsIn, Key

LEMMA HeardFields ==
  ASSUME NEW c \in Play, NEW s \in SongShown, NEW t \in Nat, NEW dt \in Nat
  PROVE  LET q == Heard(c, s, t, dt)
         IN  /\ q \in Play /\ q # None
             /\ q.entry.song = c.entry.song /\ q.entry.album = c.entry.album
             /\ q.entry.started = c.entry.started /\ q.entry.scrobbled = c.entry.scrobbled
             /\ q.entry.listen = c.entry.listen
             /\ q.saved = c.saved /\ q.played >= c.played
<1> DEFINE e == [c.entry EXCEPT !.dur = IF s.len > 0 THEN s.len ELSE @]
           since == IF c.paused = None THEN t ELSE c.paused
           paused == IF s.playing THEN None ELSE since
           shown == s.playing \/ (c.shown /\ t - since < PauseShown)
           played == c.played + Credit(s.playing, dt)
           q == [c EXCEPT !.played = played, !.entry = e, !.pos = s.pos,
                          !.playing = s.playing, !.paused = paused, !.shown = shown]
<1>1. Heard(c, s, t, dt) = q
  BY DEF Heard, Play
<1>2. /\ e \in Entry
      /\ e.song = c.entry.song /\ e.album = c.entry.album
      /\ e.started = c.entry.started /\ e.scrobbled = c.entry.scrobbled
      /\ e.listen = c.entry.listen
  BY DEF Play, Entry, SongShown
<1>3. paused \in Position /\ shown \in BOOLEAN
  BY DEF Play, Position, SongShown
<1>4. played \in Nat /\ played >= c.played
  <2>1. c.played \in Nat
    BY DEF Play
  <2>2. s.playing \in BOOLEAN
    BY DEF SongShown
  <2>3. Credit(s.playing, dt) \in Nat
    BY <2>2, CreditBound
  <2>4. QED
    BY <2>1, <2>3
<1>5. s.pos \in Position /\ s.playing \in BOOLEAN
  BY DEF SongShown
<1> HIDE DEF e, paused, shown, played
<1>6. q \in Play /\ q.entry = e /\ q.saved = c.saved /\ q.played >= c.played
  BY <1>2, <1>3, <1>4, <1>5 DEF Play
<1>7. QED
  BY <1>1, <1>2, <1>6, NoneIsNoEntry

-----------------------------------------------------------------------------
(* The invariant: the play in progress or the saved song is the newest row,*)
(* or none at all, in memory and in the file, and nothing began later than *)
(* now.                                                                    *)

NewestOf(p, list) ==
  IF p.counted THEN list # <<>> /\ list[1] = p.entry
               ELSE \A i \in 1 .. Len(list) : ~SamePlay(list[i], p.entry)

RowsUntil(list, n) == \A i \in 1 .. Len(list) : list[i].started <= n

MemoryOK(list, c, r, n) ==
  /\ list \in Seq(Entry) /\ c \in Play \cup {None} /\ r \in Record \cup {None}
  /\ c = None \/ r = None
  /\ c # None => NewestOf(c, list) /\ c.entry.started <= n
  /\ r # None => NewestOf(r, list) /\ r.entry.started <= n
  /\ RowsUntil(list, n)

FileOK(f, n) ==
  /\ f \in File \cup {None, Damaged}
  /\ f \notin {None, Damaged} =>
       /\ RowsUntil(f.entries, n)
       /\ f.current # None =>
            /\ f.current.entry.started <= n
            /\ NewestOf(f.current, f.entries)

HistoryInv ==
  /\ MemoryOK(entries, cur, resume, now)
  /\ FileOK(file, now)
  /\ enabled => up
  /\ ~enabled => entries = <<>> /\ cur = None /\ resume = None
  /\ RowsUntil(window.lines, now)
  /\ cut <= now /\ \A n \in removed : n <= now

(* What the listener is at, besides the types.                             *)
TypeInv == TypeOK /\ (~heard.over => heard \in Hearing)

LEMMA RowFields ==
  ASSUME NEW list \in Seq(Entry), NEW i \in 1 .. Len(list)
  PROVE  /\ list[i] \in Entry /\ list[i].song \in Songs /\ list[i].album \in BOOLEAN
         /\ list[i].started \in Nat /\ list[i].dur \in Nat /\ list[i].scrobbled \in BOOLEAN
<1>1. list[i] \in Entry
  OBVIOUS
<1>2. QED
  BY <1>1 DEF Entry

LEMMA MemoryLater ==
  ASSUME NEW list, NEW c, NEW r, NEW m \in Nat, NEW n \in Nat, m <= n,
         MemoryOK(list, c, r, m)
  PROVE  MemoryOK(list, c, r, n)
<1>0. list \in Seq(Entry)
  BY DEF MemoryOK
<1>1. \A i \in 1 .. Len(list) : list[i].started \in Nat
  BY <1>0, RowFields
<1>2. RowsUntil(list, n)
  BY <1>1 DEF MemoryOK, RowsUntil
<1>3. c # None => c.entry.started \in Nat
  BY DEF MemoryOK, Play, Entry
<1>4. r # None => r.entry.started \in Nat
  BY DEF MemoryOK, Record, Entry
<1>5. QED
  BY <1>2, <1>3, <1>4 DEF MemoryOK

LEMMA FileLater ==
  ASSUME NEW f, NEW m \in Nat, NEW n \in Nat, m <= n, FileOK(f, m)
  PROVE  FileOK(f, n)
<1>1. CASE f \in {None, Damaged}
  BY <1>1 DEF FileOK
<1>2. CASE f \notin {None, Damaged}
  <2>1. f.entries \in Seq(Entry) /\ f.current \in Record \cup {None}
    BY <1>2 DEF FileOK, File
  <2>2. \A i \in 1 .. Len(f.entries) : f.entries[i].started \in Nat
    BY <2>1, RowFields
  <2>3. f.current # None => f.current.entry.started \in Nat
    BY <2>1 DEF Record, Entry
  <2>4. QED
    BY <1>2, <2>2, <2>3 DEF FileOK, RowsUntil
<1>3. QED
  BY <1>1, <1>2

(* A save leaves what memory has, or what was there, or a torn file.       *)
LEMMA SaveLeaves ==
  ASSUME NEW list \in Seq(Entry), NEW c \in Play \cup {None}, NEW r \in Record \cup {None},
         NEW t \in Nat, Save(list, c, r, t)
  PROVE  /\ Stored(list, c, r, t) \in File /\ Stored(list, c, r, t) \notin {None, Damaged}
         /\ Stored(list, c, r, t).entries = list
         /\ Stored(list, c, r, t).current = IF c # None THEN RecordOf(c, t) ELSE r
         /\ file' \in {Stored(list, c, r, t), file, Damaged}
         /\ ~world.writesMayFail => file' = Stored(list, c, r, t)
         /\ bad' = bad
<1>1. (IF c # None THEN RecordOf(c, t) ELSE r) \in Record \cup {None}
  BY RecordFields
<1>2. /\ Stored(list, c, r, t) \in File
      /\ Stored(list, c, r, t).entries = list
      /\ Stored(list, c, r, t).current = IF c # None THEN RecordOf(c, t) ELSE r
  BY <1>1 DEF Stored, File
<1>3. QED
  BY <1>2, NoneIsNoEntry DEF Save, Written

LEMMA SaveOK ==
  ASSUME NEW list, NEW c, NEW r, NEW n \in Nat, NEW t \in Nat,
         MemoryOK(list, c, r, n), FileOK(file, n), Save(list, c, r, t)
  PROVE  FileOK(file', n)
<1>1. list \in Seq(Entry) /\ c \in Play \cup {None} /\ r \in Record \cup {None}
  BY DEF MemoryOK
<1> DEFINE f == Stored(list, c, r, t)
<1>2. /\ f \in File /\ f \notin {None, Damaged} /\ f.entries = list
      /\ f.current = IF c # None THEN RecordOf(c, t) ELSE r
      /\ file' \in {f, file, Damaged}
  <2> HIDE DEF f
  <2>1. f = Stored(list, c, r, t)
    BY DEF f
  <2>2. QED
    BY <1>1, <2>1, SaveLeaves, SMTT(40)
<1> HIDE DEF f
<1>3. c # None => /\ f.current.entry = c.entry /\ f.current.counted = c.counted
                  /\ NewestOf(c, list) /\ c.entry.started <= n
  BY <1>1, <1>2, RecordFields DEF MemoryOK
<1>4. c = None => f.current = r
  BY <1>2
<1>5. RowsUntil(f.entries, n)
  BY <1>2 DEF MemoryOK
<1>6. ASSUME f.current # None
      PROVE  f.current.entry.started <= n /\ NewestOf(f.current, f.entries)
  <2>1. CASE c # None
    BY <1>2, <1>3, <2>1 DEF NewestOf
  <2>2. CASE c = None
    BY <1>2, <1>4, <1>6, <2>2 DEF MemoryOK
  <2>3. QED
    BY <2>1, <2>2
<1>7. FileOK(f, n)
  BY <1>2, <1>5, <1>6 DEF FileOK
<1>8. FileOK(Damaged, n)
  BY DEF FileOK
<1>9. QED
  BY <1>2, <1>7, <1>8

LEMMA DeleteOK ==
  ASSUME NEW n, FileOK(file, n), DeleteFile
  PROVE  FileOK(file', n) /\ (bad \in BOOLEAN => bad' \in BOOLEAN)
         /\ (~world.writesMayFail => file' = None /\ ~bad')
  BY DEF DeleteFile, FileOK

(* What a file gives.                                                      *)
LEMMA LoadedSongFields ==
  ASSUME NEW n, NEW f, FileOK(f, n)
  PROVE  /\ LoadedRows(f) \in Seq(Entry) /\ RowsUntil(LoadedRows(f), n)
         /\ LoadedSong(f) \in Record \cup {None}
         /\ LoadedSong(f) # None =>
              /\ f \notin {None, Damaged} /\ f.current # None
              /\ NewestOf(LoadedSong(f), LoadedRows(f))
              /\ LoadedSong(f).entry.started = f.current.entry.started
              /\ LoadedSong(f).entry.song = f.current.entry.song
              /\ LoadedSong(f).entry.started <= n
              /\ LoadedSong(f).played = f.current.played
<1>1. CASE f \in {None, Damaged}
  BY <1>1 DEF LoadedRows, LoadedSong, RowsUntil
<1>2. CASE f \notin {None, Damaged}
  <2>1. f.entries \in Seq(Entry) /\ f.current \in Record \cup {None}
    BY <1>2 DEF FileOK, File
  <2>2. LoadedRows(f) = f.entries /\ RowsUntil(f.entries, n)
    BY <1>2 DEF LoadedRows, FileOK
  <2>3. CASE f.current = None
    BY <1>2, <2>1, <2>2, <2>3 DEF LoadedSong
  <2>4. CASE f.current # None /\ ~f.current.counted
    BY <1>2, <2>1, <2>2, <2>4 DEF LoadedSong, FileOK
  <2>5. CASE /\ f.current # None /\ f.current.counted
             /\ f.entries # <<>> /\ SamePlay(f.entries[1], f.current.entry)
    <3> DEFINE r == [f.current EXCEPT !.entry = f.entries[1]]
    <3>1. f.current \in Record /\ f.entries[1] \in Entry
      BY <2>1, <2>5
    <3>2. LoadedSong(f) = r
      BY <1>2, <2>5 DEF LoadedSong
    <3>3. /\ r \in Record /\ r.entry = f.entries[1] /\ r.counted /\ r.played = f.current.played
      BY <2>5, <3>1 DEF Record
    <3> HIDE DEF r
    <3>4. 1 \in 1 .. Len(f.entries)
      BY <2>1, <2>5
    <3>5. f.entries[1].started <= n
      BY <2>2, <3>4 DEF RowsUntil
    <3>6. r # None
      BY <3>3, NoneIsNoEntry
    <3>7. QED
      BY <1>2, <2>1, <2>2, <2>5, <3>2, <3>3, <3>5, <3>6 DEF NewestOf, SamePlay
  <2>6. CASE /\ f.current # None /\ f.current.counted
             /\ ~(f.entries # <<>> /\ SamePlay(f.entries[1], f.current.entry))
    BY <1>2, <2>2, <2>1, <2>6 DEF LoadedSong
  <2>7. QED
    BY <2>3, <2>4, <2>5, <2>6
<1>3. QED
  BY <1>1, <1>2

(* A list cut at the end keeps its newest row, unless all of it goes.      *)
LEMMA CutKeepsNewest ==
  ASSUME NEW list \in Seq(Entry), NEW k \in Nat, k > 0 \/ k >= Len(list), NEW p,
         NewestOf(p, list)
  PROVE  NewestOf(p, Trimmed(list, k))
<1>1. /\ Len(Trimmed(list, k)) = IF Len(list) < k THEN Len(list) ELSE k
      /\ \A i \in 1 .. Len(Trimmed(list, k)) :
           i \in 1 .. Len(list) /\ Trimmed(list, k)[i] = list[i]
      /\ Trimmed(list, k) \in Seq(Entry)
  BY TrimmedRows
<1>2. CASE p.counted
  <2>1. Len(list) > 0
    BY <1>2 DEF NewestOf
  <2>2. Len(Trimmed(list, k)) > 0
    BY <1>1, <2>1
  <2>3. Trimmed(list, k) # <<>> /\ Trimmed(list, k)[1] = list[1]
    BY <1>1, <2>2
  <2>4. QED
    BY <1>2, <2>3 DEF NewestOf
<1>3. CASE ~p.counted
  BY <1>1, <1>3 DEF NewestOf
<1>4. QED
  BY <1>2, <1>3

LEMMA CutIsOK ==
  ASSUME NEW list, NEW c, NEW r, NEW n \in Nat, NEW k \in Nat, k > 0 \/ k >= Len(list),
         MemoryOK(list, c, r, n)
  PROVE  MemoryOK(Trimmed(list, k), c, r, n)
<1>1. list \in Seq(Entry)
  BY DEF MemoryOK
<1>2. RowsUntil(Trimmed(list, k), n) /\ Trimmed(list, k) \in Seq(Entry)
  BY <1>1, TrimmedRows DEF MemoryOK, RowsUntil
<1>3. QED
  BY <1>1, <1>2, CutKeepsNewest DEF MemoryOK

LEMMA LoadOK ==
  ASSUME NEW n \in Nat, NEW k \in Nat, FileOK(file, n), now \in Nat, bad \in BOOLEAN,
         k > 0 \/ k >= Len(LoadedRows(file)), Load(k)
  PROVE  MemoryOK(entries', None, resume', n) /\ FileOK(file', n) /\ bad' \in BOOLEAN
<1> DEFINE all == LoadedRows(file)
           list == Trimmed(all, k)
           song == LoadedSong(file)
<1>1. MemoryOK(all, None, song, n)
  BY LoadedSongFields DEF MemoryOK
<1>2. entries' = list /\ resume' = song
  BY DEF Load
<1>3. \/ UNCHANGED disk
      \/ file' = None /\ bad' = TRUE
      \/ Save(list, None, song, now)
  BY DEF Load
<1> HIDE DEF all, song
<1>4. MemoryOK(list, None, song, n)
  BY <1>1, CutIsOK DEF all
<1> HIDE DEF list
<1>5. MemoryOK(entries', None, resume', n)
  BY <1>2, <1>4
<1>6. CASE UNCHANGED disk
  BY <1>5, <1>6 DEF disk
<1>7. CASE file' = None /\ bad' = TRUE
  BY <1>5, <1>7 DEF FileOK
<1>8. CASE Save(list, None, song, now)
  BY <1>4, <1>5, <1>8, SaveOK DEF Save
<1>9. QED
  BY <1>3, <1>6, <1>7, <1>8

-----------------------------------------------------------------------------
(* The window.                                                             *)

LEMMA LineFields ==
  ASSUME NEW e \in Entry
  PROVE  Line(e) \in LineType /\ Line(e).started = e.started /\ Line(e).song = e.song
  BY DEF Line, LineType, Entry

LEMMA SnapshotType ==
  ASSUME NEW on \in BOOLEAN, NEW n \in Nat, NEW list \in Seq(Entry), NEW c \in Play \cup {None}
  PROVE  Snapshot(on, n, list, c) \in Window
<1>1. CASE ~on
  BY <1>1 DEF Snapshot, Window
<1>2. CASE on
  <2> DEFINE all == IF c # None /\ ~c.counted THEN <<c.entry>> \o list ELSE list
             rows == Trimmed(all, n)
             lines == [i \in 1 .. Len(rows) |-> Line(rows[i])]
  <2>1. all \in Seq(Entry)
    BY NoneIsNoEntry, ListedRows DEF Play
  <2> HIDE DEF all
  <2>2. rows \in Seq(Entry)
    BY <2>1, TrimmedRows
  <2> HIDE DEF rows
  <2>3. Len(rows) \in Nat /\ \A i \in 1 .. Len(rows) : Line(rows[i]) \in LineType
    BY <2>2, LineFields
  <2>4. lines \in Seq(LineType)
    BY <2>3
  <2> HIDE DEF lines
  <2>5. Snapshot(on, n, list, c)
          = [on |-> TRUE, lines |-> lines, nowPlaying |-> c # None, playing |-> c # None /\ c.shown]
    BY <1>2 DEF Snapshot, all, rows, lines
  <2>6. (c # None) \in BOOLEAN /\ (c # None /\ c.shown) \in BOOLEAN
    OBVIOUS
  <2>7. QED
    BY <2>4, <2>5, <2>6 DEF Window
<1>3. QED
  BY <1>1, <1>2

(* Every line of the window is a row, or the song on right now.            *)
LEMMA SnapshotLines ==
  ASSUME NEW on \in BOOLEAN, NEW n \in Nat, NEW list \in Seq(Entry), NEW c \in Play \cup {None},
         NEW i \in 1 .. Len(Snapshot(on, n, list, c).lines)
  PROVE  \/ c # None /\ Snapshot(on, n, list, c).lines[i] = Line(c.entry)
         \/ \E j \in 1 .. Len(list) : Snapshot(on, n, list, c).lines[i] = Line(list[j])
<1>1. on
  BY DEF Snapshot
<1> DEFINE all == IF c # None /\ ~c.counted THEN <<c.entry>> \o list ELSE list
           rows == Trimmed(all, n)
           lines == [k \in 1 .. Len(rows) |-> Line(rows[k])]
<1>2. Snapshot(on, n, list, c).lines = lines
  BY <1>1 DEF Snapshot
<1>3. /\ all \in Seq(Entry)
      /\ \A k \in 1 .. Len(all) :
           \/ c # None /\ all[k] = c.entry
           \/ \E j \in 1 .. Len(list) : all[k] = list[j]
  <2>1. CASE c # None /\ ~c.counted
    <3> DEFINE e == c.entry
               more == <<e>> \o list
    <3>1. e \in Entry
      BY <2>1 DEF Play
    <3> HIDE DEF e
    <3>2. /\ more \in Seq(Entry) /\ Len(more) = Len(list) + 1 /\ more[1] = e
          /\ \A k \in 2 .. Len(list) + 1 : more[k] = list[k - 1]
      BY <3>1, ListedRows
    <3>3. all = more
      BY <2>1 DEF e
    <3> HIDE DEF more, all
    <3>4. ASSUME NEW k \in 1 .. Len(more), k # 1
          PROVE  k - 1 \in 1 .. Len(list) /\ more[k] = list[k - 1]
      BY <3>2, <3>4
    <3>5. QED
      BY <2>1, <3>2, <3>3, <3>4 DEF e
  <2>2. CASE ~(c # None /\ ~c.counted)
    BY <2>2
  <2>3. QED
    BY <2>1, <2>2
<1> HIDE DEF all
<1>4. /\ rows \in Seq(Entry)
      /\ \A k \in 1 .. Len(rows) : k \in 1 .. Len(all) /\ rows[k] = all[k]
  BY <1>3, TrimmedRows
<1> HIDE DEF rows
<1>5. i \in 1 .. Len(rows) /\ lines[i] = Line(rows[i])
  BY <1>2, <1>4
<1>6. QED
  BY <1>2, <1>3, <1>4, <1>5

LEMMA EmitKeeps ==
  ASSUME NEW n \in Nat, NEW changed, window \in Window, RowsUntil(window.lines, n),
         enabled' \in BOOLEAN, limit' \in Nat,
         MemoryOK(entries', cur', resume', n), Emit(changed)
  PROVE  window' \in Window /\ RowsUntil(window'.lines, n)
<1> DEFINE s == Snapshot(enabled', limit', entries', cur')
<1>1. window' = s \/ window' = window
  BY DEF Emit
<1> HIDE DEF s
<1>2. /\ entries' \in Seq(Entry) /\ cur' \in Play \cup {None}
      /\ RowsUntil(entries', n) /\ (cur' # None => cur'.entry.started <= n)
  BY DEF MemoryOK
<1>3. s \in Window
  BY <1>2, SnapshotType DEF s
<1>4. ASSUME NEW i \in 1 .. Len(s.lines) PROVE s.lines[i].started <= n
  <2>1. \/ cur' # None /\ s.lines[i] = Line(cur'.entry)
        \/ \E j \in 1 .. Len(entries') : s.lines[i] = Line(entries'[j])
    BY <1>2, <1>4, SnapshotLines DEF s
  <2>2. CASE cur' # None /\ s.lines[i] = Line(cur'.entry)
    <3>1. cur'.entry \in Entry
      BY <1>2, <2>2 DEF Play
    <3>2. QED
      BY <1>2, <2>2, <3>1, LineFields
  <2>3. CASE \E j \in 1 .. Len(entries') : s.lines[i] = Line(entries'[j])
    <3>1. PICK j \in 1 .. Len(entries') : s.lines[i] = Line(entries'[j])
      BY <2>3
    <3>2. entries'[j] \in Entry /\ entries'[j].started <= n
      BY <1>2 DEF RowsUntil
    <3>3. QED
      BY <3>1, <3>2, LineFields
  <2>4. QED
    BY <2>1, <2>2, <2>3
<1>5. QED
  BY <1>1, <1>3, <1>4 DEF RowsUntil

LEMMA WindowLater ==
  ASSUME NEW w \in Window, NEW m \in Nat, NEW n \in Nat, m <= n, RowsUntil(w.lines, m)
  PROVE  RowsUntil(w.lines, n)
<1>1. w.lines \in Seq(LineType)
  BY DEF Window
<1>2. \A i \in 1 .. Len(w.lines) : w.lines[i].started \in Nat
  <2>1. \A i \in 1 .. Len(w.lines) : w.lines[i] \in LineType
    BY <1>1
  <2>2. QED
    BY <2>1 DEF LineType
<1>3. QED
  BY <1>2 DEF RowsUntil

-----------------------------------------------------------------------------
(* A poll that shows a song.                                               *)

LEMMA RelistedRows ==
  ASSUME NEW list \in Seq(Entry), NEW c \in Play \cup {None},
         c # None /\ c.counted => list # <<>>
  PROVE  /\ Relisted(list, c) \in Seq(Entry)
         /\ Len(Relisted(list, c)) = Len(list)
         /\ \A i \in 1 .. Len(list) :
              Relisted(list, c)[i] = IF i = 1 /\ c # None /\ c.counted THEN c.entry ELSE list[i]
<1>1. CASE c # None /\ c.counted
  <2> DEFINE e == c.entry
  <2>1. e \in Entry /\ Len(list) > 0
    BY <1>1 DEF Play
  <2>2. Relisted(list, c) = [list EXCEPT ![1] = e]
    BY <1>1 DEF Relisted
  <2> HIDE DEF e
  <2>3. /\ [list EXCEPT ![1] = e] \in Seq(Entry) /\ Len([list EXCEPT ![1] = e]) = Len(list)
        /\ \A i \in 1 .. Len(list) :
             [list EXCEPT ![1] = e][i] = IF i = 1 THEN e ELSE list[i]
    BY <2>1
  <2>4. QED
    BY <1>1, <2>2, <2>3 DEF e
<1>2. CASE ~(c # None /\ c.counted)
  BY <1>2 DEF Relisted
<1>3. QED
  BY <1>1, <1>2

(* The play p, or what it was saved as, goes on as c.                      *)
LEMMA RelistedOK ==
  ASSUME NEW n \in Nat, NEW list \in Seq(Entry), RowsUntil(list, n),
         NEW p, NewestOf(p, list), p.entry.started <= n,
         NEW c \in Play, c.counted = p.counted,
         c.entry.song = p.entry.song, c.entry.started = p.entry.started
  PROVE  MemoryOK(Relisted(list, c), c, None, n)
<1> DEFINE rows == Relisted(list, c)
<1>1. c # None /\ c.counted \in BOOLEAN
  BY NoneIsNoEntry DEF Play
<1>2. c.counted => Len(list) > 0
  BY DEF NewestOf
<1>3. /\ rows \in Seq(Entry) /\ Len(rows) = Len(list)
      /\ \A i \in 1 .. Len(list) : rows[i] = IF i = 1 /\ c.counted THEN c.entry ELSE list[i]
  BY <1>1, <1>2, RelistedRows
<1> HIDE DEF rows
<1>4. RowsUntil(rows, n)
  BY <1>3 DEF RowsUntil
<1>5. NewestOf(c, rows)
  <2>1. CASE c.counted
    <3>1. rows # <<>> /\ rows[1] = c.entry
      BY <1>2, <1>3, <2>1
    <3>2. QED
      BY <2>1, <3>1 DEF NewestOf
  <2>2. CASE ~c.counted
    BY <1>3, <2>2 DEF NewestOf, SamePlay
  <2>3. QED
    BY <2>1, <2>2
<1>6. MemoryOK(rows, c, None, n)
  BY <1>1, <1>3, <1>4, <1>5 DEF MemoryOK
<1>7. QED
  BY <1>6 DEF rows

LEMMA FilledInOK ==
  ASSUME NEW n \in Nat, NEW s \in SongShown, MemoryOK(entries, cur, resume, n)
  PROVE  MemoryOK(Relisted(entries, FilledIn(cur, s)), FilledIn(cur, s), resume, n)
<1> DEFINE c == FilledIn(cur, s)
<1>1. /\ c \in Play \cup {None} /\ (c = None <=> cur = None)
      /\ cur # None => /\ c.entry.song = cur.entry.song /\ c.entry.started = cur.entry.started
                       /\ c.counted = cur.counted
  BY FilledInFields DEF MemoryOK
<1> HIDE DEF c
<1>2. CASE cur = None
  BY <1>1, <1>2 DEF Relisted, c
<1>3. CASE cur # None
  <2>1. resume = None /\ c \in Play
    BY <1>1, <1>3 DEF MemoryOK
  <2>2. /\ entries \in Seq(Entry) /\ RowsUntil(entries, n)
        /\ NewestOf(cur, entries) /\ cur.entry.started <= n
    BY <1>3 DEF MemoryOK
  <2>3. MemoryOK(Relisted(entries, c), c, None, n)
    BY <1>1, <1>3, <2>1, <2>2, RelistedOK
  <2>4. QED
    BY <2>1, <2>3 DEF c
<1>4. QED
  BY <1>2, <1>3

(* The same play goes on.                                                  *)
LEMMA GoesOnOK ==
  ASSUME NEW n \in Nat, NEW t \in Nat, n <= t, NEW dt \in Nat, NEW s \in SongShown, NEW dressed,
         NEW c \in Play, NEW list, MemoryOK(list, c, resume, n), FileOK(file, n),
         limit \in Nat \ {0}, bad \in BOOLEAN, SongGoesOn(c, list, s, dressed, t, dt)
  PROVE  MemoryOK(entries', cur', resume', n) /\ FileOK(file', n) /\ bad' \in BOOLEAN
<1> DEFINE q == Heard(c, s, t, dt)
           counts == ~c.counted /\ CountsAsPlayed(q.played, q.entry.dur)
           r == [q EXCEPT !.counted = c.counted \/ counts]
           kept == IF counts THEN Trimmed(<<r.entry>> \o list, limit) ELSE Relisted(list, r)
<1>1. c # None /\ c.counted \in BOOLEAN /\ resume = None
  BY NoneIsNoEntry DEF MemoryOK, Play
<1>2. /\ q \in Play
      /\ q.entry.song = c.entry.song /\ q.entry.started = c.entry.started
  BY HeardFields
<1>3. /\ entries' = kept /\ resume' = resume
      /\ \/ cur' = Kept(r) /\ Save(kept, r, resume, t)
         \/ cur' = r /\ UNCHANGED disk
  <2>1. r # None
    BY <1>2, NoneIsNoEntry DEF Play
  <2>2. QED
    BY <2>1 DEF SongGoesOn, Kept
<1> HIDE DEF q
<1>4. /\ r \in Play /\ r # None /\ r.entry = q.entry
      /\ r.counted = (c.counted \/ counts)
  BY <1>1, <1>2, NoneIsNoEntry DEF Play
<1> HIDE DEF counts, r
<1>5. r.entry.song = c.entry.song /\ r.entry.started = c.entry.started /\ r.entry \in Entry
  BY <1>2, <1>4 DEF Play
<1>6. list \in Seq(Entry) /\ RowsUntil(list, n) /\ NewestOf(c, list) /\ c.entry.started <= n
  BY <1>1 DEF MemoryOK
<1>7. MemoryOK(kept, r, None, n)
  <2>1. CASE counts
    <3> DEFINE e == r.entry
               all == <<e>> \o list
    <3>1. e \in Entry
      BY <1>5
    <3>2. /\ all \in Seq(Entry) /\ Len(all) = Len(list) + 1 /\ all[1] = e
          /\ \A i \in 2 .. Len(list) + 1 : all[i] = list[i - 1]
      <4> HIDE DEF e
      <4>1. QED
        BY <1>6, <3>1, ListedRows
    <3>3. kept = Trimmed(all, limit)
      BY <2>1
    <3> HIDE DEF all
    <3>4. RowsUntil(all, n)
      <4>1. ASSUME NEW i \in 1 .. Len(all) PROVE all[i].started <= n
        <5>1. CASE i = 1
          BY <1>5, <1>6, <3>2, <5>1
        <5>2. CASE i # 1
          <6>1. i - 1 \in 1 .. Len(list) /\ all[i] = list[i - 1]
            BY <1>6, <3>2, <5>2
          <6>2. QED
            BY <1>6, <6>1 DEF RowsUntil
        <5>3. QED
          BY <5>1, <5>2
      <4>2. QED
        BY <4>1 DEF RowsUntil
    <3>5. NewestOf(r, all)
      <4>1. all # <<>>
        BY <1>6, <3>2
      <4>2. r.counted
        BY <1>4, <2>1
      <4>3. QED
        BY <3>2, <4>1, <4>2 DEF NewestOf
    <3>6. MemoryOK(all, r, None, n)
      BY <1>4, <1>5, <1>6, <3>2, <3>4, <3>5 DEF MemoryOK
    <3>7. MemoryOK(Trimmed(all, limit), r, None, n)
      BY <3>6, CutIsOK
    <3>8. QED
      BY <3>3, <3>7
  <2>2. CASE ~counts
    <3>1. kept = Relisted(list, r) /\ r.counted = c.counted
      BY <1>1, <1>4, <2>2
    <3>2. QED
      BY <1>4, <1>5, <1>6, <3>1, RelistedOK
  <2>3. QED
    BY <2>1, <2>2
<1> HIDE DEF kept
<1>8. CASE cur' = Kept(r) /\ Save(kept, r, resume, t)
  <2>1. FileOK(file', n) /\ bad' \in BOOLEAN
    BY <1>1, <1>7, <1>8, SaveOK DEF Save
  <2>2. /\ Kept(r) \in Play /\ Kept(r).entry = r.entry /\ Kept(r).counted = r.counted
    BY <1>4, KeptFields
  <2>3. MemoryOK(kept, Kept(r), None, n)
    BY <1>4, <1>7, <2>2 DEF MemoryOK, NewestOf
  <2>4. QED
    BY <1>1, <1>3, <1>8, <2>1, <2>3
<1>9. CASE cur' = r /\ UNCHANGED disk
  BY <1>1, <1>3, <1>7, <1>9 DEF disk
<1>10. QED
  BY <1>3, <1>8, <1>9

(* A song that was taken out is still on.                                  *)
LEMMA StaysOutOK ==
  ASSUME NEW n \in Nat, NEW t \in Nat, NEW c, NEW list, NEW ig, MemoryOK(list, c, resume, n),
         FileOK(file, n), bad \in BOOLEAN, StaysOut(c, list, ig, t)
  PROVE  MemoryOK(entries', cur', resume', n) /\ FileOK(file', n) /\ bad' \in BOOLEAN
<1>1. /\ cur' = None /\ entries' = list /\ resume' = resume
      /\ \/ Save(list, None, resume, t)
         \/ UNCHANGED disk
  BY DEF StaysOut
<1>2. MemoryOK(list, None, resume, n)
  BY DEF MemoryOK
<1>3. CASE Save(list, None, resume, t)
  BY <1>1, <1>2, <1>3, SaveOK DEF Save
<1>4. CASE UNCHANGED disk
  BY <1>1, <1>2, <1>4 DEF disk
<1>5. QED
  BY <1>1, <1>3, <1>4

(* Another song begins, or the last run's goes on.                         *)
LEMMA BeginsOK ==
  ASSUME NEW n \in Nat, NEW t \in Nat, n < t, NEW s \in SongShown, NEW c, NEW list,
         MemoryOK(list, c, resume, n), FileOK(file, n), bad \in BOOLEAN,
         SongBegins(c, list, s, t)
  PROVE  MemoryOK(entries', cur', resume', t) /\ FileOK(file', t) /\ bad' \in BOOLEAN
<1>0. list \in Seq(Entry) /\ RowsUntil(list, n)
  BY DEF MemoryOK
<1>1. /\ resume' = None
      /\ \/ Save(list, None, None, t)
         \/ UNCHANGED disk
  BY DEF SongBegins
<1>2. MemoryOK(list, None, None, n)
  BY DEF MemoryOK
<1>3. FileOK(file', n) /\ bad' \in BOOLEAN
  <2>1. CASE Save(list, None, None, t)
    BY <1>2, <2>1, SaveOK DEF Save
  <2>2. CASE UNCHANGED disk
    BY <2>2 DEF disk
  <2>3. QED
    BY <1>1, <2>1, <2>2
<1>4. FileOK(file', t)
  BY <1>3, FileLater
<1>5. CASE CarriesOn(s, t)
  <2>1. cur' = CarriedOn(s, t) /\ entries' = Relisted(list, CarriedOn(s, t))
    BY <1>5 DEF SongBegins
  <2>2. resume # None
    BY <1>5 DEF CarriesOn
  <2>3. resume \in Record /\ NewestOf(resume, list) /\ resume.entry.started <= n
    BY <2>2 DEF MemoryOK
  <2>4. /\ CarriedOn(s, t) \in Play
        /\ CarriedOn(s, t).counted = resume.counted
        /\ CarriedOn(s, t).entry.song = resume.entry.song
        /\ CarriedOn(s, t).entry.started = resume.entry.started
    BY <2>3, CarriedOnFields
  <2>5. MemoryOK(Relisted(list, CarriedOn(s, t)), CarriedOn(s, t), None, n)
    BY <1>0, <2>3, <2>4, RelistedOK
  <2>6. QED
    BY <1>1, <1>3, <1>4, <2>1, <2>5, MemoryLater
<1>6. CASE ~CarriesOn(s, t)
  <2>1. entries' = list /\ cur' \in {Started(s, t), None}
    BY <1>6 DEF SongBegins
  <2>2. CASE cur' = None
    BY <1>1, <1>2, <1>3, <1>4, <2>1, <2>2, MemoryLater
  <2>3. CASE cur' = Started(s, t)
    <3>1. cur' \in Play /\ cur'.entry.started = t /\ ~cur'.counted
      BY <2>3, StartedFields
    <3>2. \A i \in 1 .. Len(list) : list[i].started \in Nat
      BY <1>0, RowFields
    <3>3. NewestOf(cur', list) /\ RowsUntil(list, t)
      BY <1>0, <3>1, <3>2 DEF NewestOf, SamePlay, RowsUntil
    <3>4. QED
      BY <1>0, <1>1, <1>3, <1>4, <2>1, <3>1, <3>3 DEF MemoryOK
  <2>4. QED
    BY <2>1, <2>2, <2>3
<1>7. QED
  BY <1>5, <1>6

LEMMA UpdateSongOK ==
  ASSUME NEW n \in Nat, NEW t \in Nat, n < t, NEW dt \in Nat, NEW s \in SongShown, NEW dressed,
         MemoryOK(entries, cur, resume, n), FileOK(file, n), bad \in BOOLEAN,
         limit \in Nat \ {0}, ignore \in Key \cup {None}, UpdateSong(s, dressed, t, dt)
  PROVE  /\ MemoryOK(entries', cur', resume', t) /\ FileOK(file', t) /\ bad' \in BOOLEAN
         /\ ignore' \in Key \cup {None} /\ gone' = None
         /\ \E changed : Emit(changed)
<1> DEFINE c == FilledIn(cur, s)
           list == Relisted(entries, c)
           ig == IgnoredNow(s)
<1>1. MemoryOK(list, c, resume, n)
  BY FilledInOK
<1>2. ig \in Key \cup {None}
  BY IgnoredNowType
<1>3. /\ gone' = None
      /\ \/ SameSong(c, s) /\ SongGoesOn(c, list, s, dressed, t, dt)
         \/ StaysOut(c, list, ig, t)
         \/ SongBegins(c, list, s, t)
  BY DEF UpdateSong
<1> HIDE DEF c, list, ig
<1>4. CASE SameSong(c, s) /\ SongGoesOn(c, list, s, dressed, t, dt)
  <2>1. c \in Play
    BY <1>1, <1>4 DEF MemoryOK, SameSong
  <2>2. MemoryOK(entries', cur', resume', n) /\ FileOK(file', n) /\ bad' \in BOOLEAN
    BY <1>1, <1>4, <2>1, GoesOnOK
  <2>3. ignore' = ignore /\ \E changed : Emit(changed)
    BY <1>4 DEF SongGoesOn
  <2>4. QED
    BY <1>3, <2>2, <2>3, MemoryLater, FileLater
<1>5. CASE StaysOut(c, list, ig, t)
  <2>1. MemoryOK(entries', cur', resume', n) /\ FileOK(file', n) /\ bad' \in BOOLEAN
    BY <1>1, <1>5, StaysOutOK
  <2>2. ignore' = ig /\ \E changed : Emit(changed)
    BY <1>5 DEF StaysOut
  <2>3. QED
    BY <1>2, <1>3, <2>1, <2>2, MemoryLater, FileLater
<1>6. CASE SongBegins(c, list, s, t)
  <2>1. MemoryOK(entries', cur', resume', t) /\ FileOK(file', t) /\ bad' \in BOOLEAN
    BY <1>1, <1>6, BeginsOK
  <2>2. ignore' = None /\ \E changed : Emit(changed)
    BY <1>6 DEF SongBegins
  <2>3. QED
    BY <1>3, <2>1, <2>2
<1>7. QED
  BY <1>3, <1>4, <1>5, <1>6

-----------------------------------------------------------------------------
(* What the user and the scrobbler ask for.                                *)

Marked(list, i) == [list EXCEPT ![i].scrobbled = TRUE]

LEMMA MarkedRows ==
  ASSUME NEW list \in Seq(Entry), NEW i \in 1 .. Len(list)
  PROVE  /\ Marked(list, i) \in Seq(Entry) /\ Len(Marked(list, i)) = Len(list)
         /\ \A j \in 1 .. Len(list) :
              Marked(list, i)[j] = IF j = i THEN [list[i] EXCEPT !.scrobbled = TRUE] ELSE list[j]
<1> DEFINE e == [list[i] EXCEPT !.scrobbled = TRUE]
           marked == [list EXCEPT ![i] = e]
<1>1. e \in Entry
  <2>1. list[i] \in Entry
    OBVIOUS
  <2>2. QED
    BY <2>1 DEF Entry
<1>2. Marked(list, i) = marked
  BY DEF Marked
<1> HIDE DEF e
<1>3. /\ marked \in Seq(Entry) /\ Len(marked) = Len(list)
      /\ \A j \in 1 .. Len(list) : marked[j] = IF j = i THEN e ELSE list[j]
  BY <1>1
<1> HIDE DEF marked
<1>4. QED
  BY <1>2, <1>3 DEF e

LEMMA MarkedFields ==
  ASSUME NEW list \in Seq(Entry), NEW i \in 1 .. Len(list), NEW j \in 1 .. Len(list)
  PROVE  /\ Marked(list, i)[j].song = list[j].song
         /\ Marked(list, i)[j].started = list[j].started
         /\ Marked(list, i)[j].listen = list[j].listen
<1> DEFINE e == list[j]
           f == Marked(list, i)[j]
<1>1. f = IF j = i THEN [e EXCEPT !.scrobbled = TRUE] ELSE e
  <2>1. f = IF j = i THEN [list[i] EXCEPT !.scrobbled = TRUE] ELSE e
    BY MarkedRows
  <2> HIDE DEF f
  <2>2. QED
    BY <2>1
<1>2. e \in Entry
  OBVIOUS
<1> HIDE DEF e, f
<1>3. f.song = e.song /\ f.started = e.started /\ f.listen = e.listen
  BY <1>1, <1>2 DEF Entry
<1>4. QED
  BY <1>3 DEF e, f

(* The play p of the newest row, when row i is marked, is q.               *)
LEMMA MarkedNewest ==
  ASSUME NEW list \in Seq(Entry), NEW i \in 1 .. Len(list), NEW p, NewestOf(p, list),
         p.entry \in Entry, p.counted \in BOOLEAN, NEW q, q.counted = p.counted,
         q.entry = IF i = 1 /\ p.counted THEN [p.entry EXCEPT !.scrobbled = TRUE] ELSE p.entry
  PROVE  NewestOf(q, Marked(list, i)) /\ q.entry.started = p.entry.started
<1> DEFINE marked == Marked(list, i)
<1>1. /\ Len(marked) = Len(list) /\ marked \in Seq(Entry)
      /\ \A j \in 1 .. Len(list) :
           marked[j] = IF j = i THEN [list[i] EXCEPT !.scrobbled = TRUE] ELSE list[j]
      /\ \A j \in 1 .. Len(list) :
           /\ marked[j].song = list[j].song /\ marked[j].started = list[j].started
  BY MarkedRows, MarkedFields
<1> HIDE DEF marked
<1>2. q.entry.started = p.entry.started
  BY DEF Entry
<1>3. NewestOf(q, marked)
  <2>1. CASE p.counted
    <3>1. list[1] = p.entry /\ 1 \in 1 .. Len(list)
      BY <2>1 DEF NewestOf
    <3>2. marked # <<>>
      BY <1>1, <3>1
    <3>3. marked[1] = IF 1 = i THEN [list[1] EXCEPT !.scrobbled = TRUE] ELSE list[1]
      BY <1>1, <3>1
    <3>4. marked[1] = q.entry
      BY <2>1, <3>1, <3>3
    <3>5. QED
      BY <2>1, <3>2, <3>4 DEF NewestOf
  <2>2. CASE ~p.counted
    <3>1. q.entry = p.entry
      BY <2>2
    <3>2. QED
      BY <1>1, <2>2, <3>1 DEF NewestOf, SamePlay
  <2>3. QED
    BY <2>1, <2>2
<1>4. QED
  BY <1>2, <1>3 DEF marked

(* What mark_scrobbled makes of the play in progress.                      *)
MarkedPlay(i) ==
  IF i = 1 /\ cur # None /\ cur.counted
    THEN [Kept(cur) EXCEPT !.entry.scrobbled = TRUE] ELSE Kept(cur)

MarkedSong(i) ==
  IF i = 1 /\ resume # None /\ resume.counted
    THEN [resume EXCEPT !.entry.scrobbled = TRUE] ELSE resume

LEMMA MarkedPlayFields ==
  ASSUME cur \in Play \cup {None}, NEW i
  PROVE  /\ MarkedPlay(i) \in Play \cup {None} /\ (MarkedPlay(i) = None <=> cur = None)
         /\ cur # None =>
              /\ MarkedPlay(i).counted = cur.counted /\ MarkedPlay(i).played = cur.played
              /\ MarkedPlay(i).saved = cur.played
              /\ MarkedPlay(i).entry = IF i = 1 /\ cur.counted
                                         THEN [cur.entry EXCEPT !.scrobbled = TRUE] ELSE cur.entry
<1>1. CASE i = 1 /\ cur # None /\ cur.counted
  <2> DEFINE k == Kept(cur)
             q == [k EXCEPT !.entry.scrobbled = TRUE]
  <2>1. /\ k \in Play /\ k.entry = cur.entry /\ k.played = cur.played /\ k.saved = cur.played
        /\ k.counted = cur.counted
    BY <1>1, KeptFields
  <2>2. MarkedPlay(i) = q
    BY <1>1 DEF MarkedPlay
  <2> HIDE DEF k
  <2>3. /\ q \in Play /\ q.counted = k.counted /\ q.played = k.played /\ q.saved = k.saved
        /\ q.entry = [k.entry EXCEPT !.scrobbled = TRUE]
    BY <2>1 DEF Play, Entry
  <2> HIDE DEF q
  <2>4. QED
    BY <1>1, <2>1, <2>2, <2>3, NoneIsNoEntry
<1>2. CASE ~(i = 1 /\ cur # None /\ cur.counted)
  BY <1>2, KeptFields DEF MarkedPlay
<1>3. QED
  BY <1>1, <1>2

LEMMA MarkedSongFields ==
  ASSUME resume \in Record \cup {None}, NEW i
  PROVE  /\ MarkedSong(i) \in Record \cup {None} /\ (MarkedSong(i) = None <=> resume = None)
         /\ resume # None =>
              /\ MarkedSong(i).counted = resume.counted /\ MarkedSong(i).played = resume.played
              /\ MarkedSong(i).entry = IF i = 1 /\ resume.counted
                                         THEN [resume.entry EXCEPT !.scrobbled = TRUE]
                                         ELSE resume.entry
<1>1. CASE i = 1 /\ resume # None /\ resume.counted
  <2> DEFINE q == [resume EXCEPT !.entry.scrobbled = TRUE]
  <2>1. MarkedSong(i) = q /\ resume \in Record
    BY <1>1 DEF MarkedSong
  <2>2. /\ q \in Record /\ q.counted = resume.counted /\ q.played = resume.played
        /\ q.entry = [resume.entry EXCEPT !.scrobbled = TRUE]
    BY <2>1 DEF Record, Entry
  <2> HIDE DEF q
  <2>3. QED
    BY <1>1, <2>1, <2>2, NoneIsNoEntry
<1>2. CASE ~(i = 1 /\ resume # None /\ resume.counted)
  BY <1>2 DEF MarkedSong
<1>3. QED
  BY <1>1, <1>2

LEMMA MarkOK ==
  ASSUME NEW n \in Nat, MemoryOK(entries, cur, resume, n), NEW i \in 1 .. Len(entries)
  PROVE  MemoryOK(Marked(entries, i), MarkedPlay(i), MarkedSong(i), n)
<1> DEFINE marked == Marked(entries, i)
<1>1. /\ entries \in Seq(Entry) /\ cur \in Play \cup {None} /\ resume \in Record \cup {None}
      /\ cur = None \/ resume = None
      /\ RowsUntil(entries, n)
  BY DEF MemoryOK
<1>2. marked \in Seq(Entry) /\ RowsUntil(marked, n)
  <2>1. /\ marked \in Seq(Entry) /\ Len(marked) = Len(entries)
        /\ \A j \in 1 .. Len(entries) : marked[j].started = entries[j].started
    BY <1>1, MarkedRows, MarkedFields
  <2> HIDE DEF marked
  <2>2. QED
    BY <1>1, <2>1 DEF RowsUntil
<1>3. cur # None => NewestOf(MarkedPlay(i), marked) /\ MarkedPlay(i).entry.started <= n
  <2> SUFFICES ASSUME cur # None
               PROVE  NewestOf(MarkedPlay(i), marked) /\ MarkedPlay(i).entry.started <= n
    OBVIOUS
  <2>1. /\ NewestOf(cur, entries) /\ cur.entry.started <= n
        /\ cur.entry \in Entry /\ cur.counted \in BOOLEAN
    BY <1>1 DEF MemoryOK, Play
  <2>2. QED
    BY <1>1, <2>1, MarkedPlayFields, MarkedNewest
<1>4. resume # None => NewestOf(MarkedSong(i), marked) /\ MarkedSong(i).entry.started <= n
  <2> SUFFICES ASSUME resume # None
               PROVE  NewestOf(MarkedSong(i), marked) /\ MarkedSong(i).entry.started <= n
    OBVIOUS
  <2>1. /\ NewestOf(resume, entries) /\ resume.entry.started <= n
        /\ resume.entry \in Entry /\ resume.counted \in BOOLEAN
    BY <1>1 DEF MemoryOK, Record
  <2>2. QED
    BY <1>1, <2>1, MarkedSongFields, MarkedNewest
<1> HIDE DEF marked
<1>5. MemoryOK(marked, MarkedPlay(i), MarkedSong(i), n)
  BY <1>1, <1>2, <1>3, <1>4, MarkedPlayFields, MarkedSongFields DEF MemoryOK
<1>6. QED
  BY <1>5 DEF marked

(* The rows that stay when some are taken out.                             *)
LEMMA RowsThatStay ==
  ASSUME NEW list \in Seq(Entry), NEW n \in Nat, NEW S \in SUBSET (1 .. Len(list)),
         NEW f \in Listings(n, S)
  PROVE  LET rows == [i \in 1 .. n |-> list[f[i]]]
         IN  /\ rows \in Seq(Entry) /\ Len(rows) = n
             /\ \A i \in 1 .. n : f[i] \in S /\ rows[i] = list[f[i]]
             /\ 1 \in S => n > 0 /\ f[1] = 1
<1> DEFINE rows == [i \in 1 .. n |-> list[f[i]]]
<1>1. /\ \A i \in 1 .. n : f[i] \in S
      /\ \A i, j \in 1 .. n : i < j => f[i] < f[j]
      /\ \A x \in S : \E i \in 1 .. n : f[i] = x
  BY DEF Listings
<1>2. ASSUME NEW i \in 1 .. n
      PROVE  f[i] \in 1 .. Len(list) /\ list[f[i]] \in Entry
  <2>1. f[i] \in 1 .. Len(list)
    BY <1>1
  <2>2. QED
    BY <2>1
<1>3. rows \in Seq(Entry) /\ Len(rows) = n /\ \A i \in 1 .. n : rows[i] = list[f[i]]
  BY <1>2
<1>4. ASSUME 1 \in S PROVE n > 0 /\ f[1] = 1
  <2>1. PICK i \in 1 .. n : f[i] = 1
    BY <1>1, <1>4
  <2>2. i > 1 => f[1] < f[i] /\ f[1] \in 1 .. Len(list)
    BY <1>1, <1>2
  <2>3. QED
    BY <2>1, <2>2
<1> HIDE DEF rows
<1>5. QED
  BY <1>1, <1>3, <1>4 DEF rows

LEMMA StaysNewest ==
  ASSUME NEW list \in Seq(Entry), NEW line, NEW n \in Nat,
         NEW f \in Listings(n, {i \in 1 .. Len(list) : ~SamePlay(list[i], line)}),
         NEW p, NewestOf(p, list), ~SamePlay(p.entry, line)
  PROVE  NewestOf(p, [i \in 1 .. n |-> list[f[i]]])
<1> DEFINE S == {i \in 1 .. Len(list) : ~SamePlay(list[i], line)}
           rows == [i \in 1 .. n |-> list[f[i]]]
<1>1. /\ rows \in Seq(Entry) /\ Len(rows) = n
      /\ \A i \in 1 .. n : f[i] \in S /\ rows[i] = list[f[i]]
      /\ 1 \in S => n > 0 /\ f[1] = 1
  <2>1. S \in SUBSET (1 .. Len(list)) /\ f \in Listings(n, S)
    OBVIOUS
  <2> HIDE DEF S
  <2>2. QED
    BY <2>1, RowsThatStay
<1> HIDE DEF rows
<1>2. CASE p.counted
  <2>1. list[1] = p.entry /\ 1 \in 1 .. Len(list)
    BY <1>2 DEF NewestOf
  <2>2. 1 \in S
    BY <2>1
  <2>3. rows # <<>> /\ rows[1] = p.entry
    BY <1>1, <2>1, <2>2
  <2>4. NewestOf(p, rows)
    BY <1>2, <2>3 DEF NewestOf
  <2>5. QED
    BY <2>4 DEF rows
<1>3. CASE ~p.counted
  <2>1. \A i \in 1 .. n : f[i] \in 1 .. Len(list) /\ rows[i] = list[f[i]]
    BY <1>1
  <2>2. NewestOf(p, rows)
    BY <1>1, <1>3, <2>1 DEF NewestOf
  <2>3. QED
    BY <2>2 DEF rows
<1>4. QED
  BY <1>2, <1>3

LEMMA RemoveOK ==
  ASSUME NEW m \in Nat, MemoryOK(entries, cur, resume, m), NEW line, NEW n \in Nat,
         NEW f \in Listings(n, {i \in 1 .. Len(entries) : ~SamePlay(entries[i], line)}),
         NEW c, c = IF cur # None /\ SamePlay(cur.entry, line) THEN None ELSE cur
  PROVE  MemoryOK([i \in 1 .. n |-> entries[f[i]]], c, ForgetTheSaved(line), m)
<1> DEFINE S == {i \in 1 .. Len(entries) : ~SamePlay(entries[i], line)}
           rows == [i \in 1 .. n |-> entries[f[i]]]
           r == ForgetTheSaved(line)
<1>1. /\ entries \in Seq(Entry) /\ cur \in Play \cup {None} /\ resume \in Record \cup {None}
      /\ (cur = None \/ resume = None) /\ RowsUntil(entries, m)
      /\ cur # None => NewestOf(cur, entries) /\ cur.entry.started <= m
      /\ resume # None => NewestOf(resume, entries) /\ resume.entry.started <= m
      /\ RowsUntil(entries, m)
  BY DEF MemoryOK
<1>2. rows \in Seq(Entry) /\ RowsUntil(rows, m)
  <2>1. S \in SUBSET (1 .. Len(entries)) /\ f \in Listings(n, S)
    OBVIOUS
  <2> HIDE DEF S
  <2>2. /\ rows \in Seq(Entry) /\ Len(rows) = n
        /\ \A i \in 1 .. n : f[i] \in 1 .. Len(entries) /\ rows[i] = entries[f[i]]
    BY <1>1, <2>1, RowsThatStay
  <2> HIDE DEF rows
  <2>3. QED
    BY <1>1, <2>2 DEF RowsUntil
<1>3. c # None => c = cur /\ ~SamePlay(cur.entry, line)
  OBVIOUS
<1>4. r # None => r = resume /\ ~SamePlay(resume.entry, line)
  BY DEF ForgetTheSaved
<1>5. c # None => NewestOf(c, rows)
  BY <1>1, <1>3, StaysNewest
<1>6. r # None => NewestOf(r, rows)
  BY <1>1, <1>4, StaysNewest
<1>7. c \in Play \cup {None} /\ r \in Record \cup {None} /\ (c = None \/ r = None)
  BY <1>1, <1>3, <1>4
<1> HIDE DEF rows, r
<1>8. MemoryOK(rows, c, r, m)
  BY <1>1, <1>2, <1>3, <1>4, <1>5, <1>6, <1>7 DEF MemoryOK
<1>9. QED
  BY <1>8 DEF rows, r

-----------------------------------------------------------------------------
(* Every step keeps the types and the invariant.                           *)

Inv == TypeInv /\ HistoryInv

(* The rest of the invariant, besides memory and file.                     *)
RestOK ==
  /\ world \in Worlds /\ heard \in Listen /\ (~heard.over => heard \in Hearing)
  /\ up \in BOOLEAN /\ config \in [on : BOOLEAN, limit : Limits]
  /\ enabled \in BOOLEAN /\ limit \in Limits
  /\ ignore \in Key \cup {None} /\ gone \in Position /\ bad \in BOOLEAN /\ window \in Window
  /\ now \in Nat /\ cut \in Nat /\ removed \subseteq Nat /\ out \in Nat
  /\ last \in Nat /\ spent \in Nat /\ events \in Nat
  /\ enabled => up
  /\ ~enabled => entries = <<>> /\ cur = None /\ resume = None
  /\ RowsUntil(window.lines, now)
  /\ cut <= now /\ \A n \in removed : n <= now

LEMMA InvParts ==
  /\ Inv <=> MemoryOK(entries, cur, resume, now) /\ FileOK(file, now) /\ RestOK
  /\ Inv' <=> MemoryOK(entries', cur', resume', now') /\ FileOK(file', now') /\ RestOK'
  BY DEF Inv, TypeInv, TypeOK, HistoryInv, MemoryOK, FileOK, RestOK

LEMMA InvFacts ==
  ASSUME Inv
  PROVE  /\ MemoryOK(entries, cur, resume, now) /\ FileOK(file, now) /\ RestOK
         /\ entries \in Seq(Entry) /\ cur \in Play \cup {None} /\ resume \in Record \cup {None}
         /\ limit \in Nat \ {0} /\ now \in Nat /\ config.limit \in Limits
         /\ config.limit \in Nat \ {0} /\ config.on \in BOOLEAN
<1>1. MemoryOK(entries, cur, resume, now) /\ FileOK(file, now) /\ RestOK
  BY InvParts
<1>2. QED
  BY <1>1, Constants DEF MemoryOK, RestOK

(* What the polls have in common.                                          *)
LEMMA PollFacts ==
  ASSUME Inv, NEW dt \in 1 .. MaxStep, Poll(dt)
  PROVE  /\ now + dt \in Nat /\ now < now + dt /\ dt \in Nat /\ now' = now + dt
         /\ UNCHANGED <<world, up, config, enabled, limit, cut, removed, out, events>>
         /\ cut' <= now' /\ \A n \in removed' : n <= now'
         /\ RowsUntil(window.lines, now + dt)
<1>1. /\ now \in Nat /\ cut \in Nat /\ cut <= now
      /\ \A n \in removed : n \in Nat /\ n <= now
  BY InvFacts DEF RestOK
<1>2. dt \in Nat /\ dt > 0
  BY Constants
<1>3. /\ now' = now + dt
      /\ UNCHANGED <<world, up, config, enabled, limit, cut, removed, out, events>>
  BY DEF Poll
<1>4. now + dt \in Nat /\ now < now + dt
  BY <1>1, <1>2
<1>5. RowsUntil(window.lines, now + dt)
  BY <1>1, <1>4, InvFacts, WindowLater DEF RestOK
<1>6. QED
  BY <1>1, <1>2, <1>3, <1>4, <1>5

(* What a poll leaves to remember of the song, the listen and the time.    *)
LEMMA SongPollShows ==
  ASSUME Inv, NEW dt \in 1 .. MaxStep, SongPoll(dt)
  PROVE  /\ \E s \in SongShown : Update(s, now + dt, dt)
         /\ heard' \in Hearing /\ spent' \in Nat /\ last' \in Nat
<1> DEFINE t == now + dt
<1>1. t \in Nat /\ dt \in Nat
  BY PollFacts DEF SongPoll
<1>2. world \in Worlds /\ heard \in Listen /\ spent \in Nat /\ last \in Nat
      /\ (~heard.over => heard \in Hearing)
  BY InvFacts DEF RestOK
<1>3. last' \in Nat
  BY <1>1, <1>2 DEF SongPoll, Counting
<1>4. CASE /\ ~heard.over
           /\ \E h \in GoesOn(dt), playing \in BOOLEAN :
                 /\ heard' = h
                 /\ \E s \in Shown(h, playing, FALSE) : Update(s, t, dt)
                 /\ spent' = IF cur # None /\ cur.entry.listen = heard.number
                               THEN spent + Credit(playing, dt) ELSE spent
  <2>1. PICK h \in GoesOn(dt), playing \in BOOLEAN :
          /\ heard' = h
          /\ \E s \in Shown(h, playing, FALSE) : Update(s, t, dt)
          /\ spent' = IF cur # None /\ cur.entry.listen = heard.number
                        THEN spent + Credit(playing, dt) ELSE spent
    BY <1>4
  <2>2. h \in Hearing
    BY <1>1, <1>2, <1>4, GoesOnType
  <2>3. Shown(h, playing, FALSE) \subseteq SongShown
    BY <1>2, <2>2, ShownType
  <2>4. Credit(playing, dt) \in Nat
    BY <1>1, CreditBound
  <2>5. spent' \in Nat
    BY <1>2, <2>1, <2>4
  <2>6. QED
    BY <1>3, <2>1, <2>2, <2>3, <2>5
<1>5. CASE /\ \E h \in Begins, playing \in BOOLEAN, restarted \in BOOLEAN :
                 /\ heard' = h
                 /\ \E s \in Shown(h, playing, restarted) : Update(s, t, dt)
           /\ spent' = 0
  <2>1. PICK h \in Begins, playing \in BOOLEAN, restarted \in BOOLEAN :
          heard' = h /\ \E s \in Shown(h, playing, restarted) : Update(s, t, dt)
    BY <1>5
  <2>2. heard.number \in Nat
    BY <1>2 DEF Listen
  <2>3. h \in Hearing
    BY <1>2, <2>2, BeginsType
  <2>4. Shown(h, playing, restarted) \subseteq SongShown
    BY <1>2, <2>3, ShownType
  <2>5. QED
    BY <1>3, <1>5, <2>1, <2>3, <2>4
<1>6. QED
  BY <1>4, <1>5 DEF SongPoll

LEMMA SongPollKeeps ==
  ASSUME Inv, NEW dt \in 1 .. MaxStep, SongPoll(dt)
  PROVE  Inv'
<1> DEFINE t == now + dt
<1>1. /\ t \in Nat /\ now < t /\ dt \in Nat /\ now' = t
      /\ UNCHANGED <<world, up, config, enabled, limit, cut, removed, out, events>>
      /\ cut' <= now' /\ \A n \in removed' : n <= now'
      /\ RowsUntil(window.lines, t)
  BY PollFacts DEF SongPoll
<1>2. /\ heard' \in Hearing /\ spent' \in Nat /\ last' \in Nat
      /\ \E s \in SongShown : Update(s, t, dt)
  BY SongPollShows
<1>3. PICK s \in SongShown : Update(s, t, dt)
  BY <1>2
<1>4. /\ MemoryOK(entries, cur, resume, now) /\ FileOK(file, now) /\ RestOK
      /\ now \in Nat /\ limit \in Nat \ {0}
  BY InvFacts
<1> HIDE DEF t
<1>5. /\ MemoryOK(entries', cur', resume', t) /\ FileOK(file', t)
      /\ bad' \in BOOLEAN /\ ignore' \in Key \cup {None} /\ gone' \in Position
      /\ window' \in Window /\ RowsUntil(window'.lines, t)
      /\ ~enabled' => entries' = <<>> /\ cur' = None /\ resume' = None
  <2>1. CASE enabled
    <3>1. PICK dressed \in Dressed : UpdateSong(s, dressed, t, dt)
      BY <1>3, <2>1 DEF Update
    <3>2. /\ MemoryOK(entries', cur', resume', t) /\ FileOK(file', t) /\ bad' \in BOOLEAN
          /\ ignore' \in Key \cup {None} /\ gone' = None
          /\ \E changed : Emit(changed)
      BY <1>1, <1>4, <3>1, UpdateSongOK DEF RestOK
    <3>3. window' \in Window /\ RowsUntil(window'.lines, t)
      BY <1>1, <1>4, <3>2, EmitKeeps DEF RestOK
    <3>4. QED
      BY <1>1, <2>1, <3>2, <3>3 DEF Position
  <2>2. CASE ~enabled
    <3>1. UNCHANGED <<entries, cur, resume, ignore, gone, file, bad, window>>
      BY <1>3, <2>2 DEF Update, disk
    <3>2. MemoryOK(entries', cur', resume', t) /\ FileOK(file', t)
      BY <1>1, <1>4, <3>1, MemoryLater, FileLater
    <3>3. QED
      BY <1>1, <1>4, <2>2, <3>1, <3>2 DEF RestOK
  <2>3. QED
    BY <1>4, <2>1, <2>2 DEF RestOK
<1>6. RestOK'
  BY <1>1, <1>2, <1>4, <1>5 DEF RestOK, Hearing
<1>7. QED
  BY <1>1, <1>5, <1>6, InvParts

LEMMA NothingPollKeeps ==
  ASSUME Inv, NEW dt \in 1 .. MaxStep, NothingPoll(dt)
  PROVE  Inv'
<1> DEFINE t == now + dt
<1>1. /\ t \in Nat /\ now < t /\ dt \in Nat /\ now' = t
      /\ UNCHANGED <<world, up, config, enabled, limit, cut, removed, out, events>>
      /\ cut' <= now' /\ \A n \in removed' : n <= now'
      /\ RowsUntil(window.lines, t)
  BY PollFacts DEF NothingPoll
<1>2. /\ MemoryOK(entries, cur, resume, now) /\ FileOK(file, now) /\ RestOK
      /\ now \in Nat /\ limit \in Nat \ {0}
  BY InvFacts
<1>3. heard' \in Listen /\ (~heard'.over => heard' \in Hearing)
  <2> DEFINE since == IF heard.quiet = None THEN t ELSE heard.quiet
             over == resume = None /\ t - since > GoneGrace
  <2>1. heard' = IF heard.over THEN heard ELSE [heard EXCEPT !.quiet = since, !.over = over]
    BY DEF NothingPoll
  <2>2. heard \in Listen /\ (~heard.over => heard \in Hearing)
    BY <1>2 DEF RestOK
  <2>3. since \in Position /\ over \in BOOLEAN
    BY <1>1, <2>2 DEF Listen, Position
  <2> HIDE DEF since, over
  <2>4. QED
    BY <2>1, <2>2, <2>3 DEF Listen, Hearing
<1>4. UNCHANGED <<last, spent>>
  BY DEF NothingPoll
<1>5. /\ UNCHANGED <<entries, resume>> /\ cur' \in {cur, None}
      /\ ignore' \in {ignore, None} /\ gone' \in Position
      /\ UNCHANGED disk \/ Save(entries, None, resume, t)
      /\ window' = window \/ \E changed : Emit(changed)
      /\ ~enabled => cur' = cur
  <2>1. CASE enabled
    <3>1. UpdateNothing(t)
      BY <2>1 DEF NothingPoll
    <3>2. gone \in Position /\ t \in Position
      BY <1>1, <1>2 DEF RestOK, Position
    <3> HIDE DEF t
    <3>3. CASE cur = None /\ ignore = None
      BY <3>1, <3>2, <3>3 DEF UpdateNothing
    <3>4. CASE (cur # None \/ ignore # None) /\ WithinGrace(t)
      BY <2>1, <3>1, <3>2, <3>4 DEF UpdateNothing, GoneSince
    <3>5. CASE (cur # None \/ ignore # None) /\ ~WithinGrace(t)
      BY <2>1, <3>1, <3>5 DEF UpdateNothing, Position
    <3>6. QED
      BY <3>3, <3>4, <3>5
  <2>2. CASE ~enabled
    BY <1>2, <2>2 DEF NothingPoll, RestOK
  <2>3. QED
    BY <1>2, <2>1, <2>2 DEF RestOK
<1> HIDE DEF t
<1>6. MemoryOK(entries', cur', resume', now)
  BY <1>2, <1>5 DEF MemoryOK
<1>7. FileOK(file', now) /\ bad' \in BOOLEAN
  <2>1. CASE UNCHANGED disk
    BY <1>2, <2>1 DEF disk, RestOK
  <2>2. CASE Save(entries, None, resume, t)
    <3>1. MemoryOK(entries, None, resume, now)
      BY <1>2 DEF MemoryOK
    <3>2. QED
      BY <1>1, <1>2, <2>2, <3>1, SaveOK DEF RestOK, Save
  <2>3. QED
    BY <1>5, <2>1, <2>2
<1>8. MemoryOK(entries', cur', resume', t) /\ FileOK(file', t)
  BY <1>1, <1>2, <1>6, <1>7, MemoryLater, FileLater
<1>9. window' \in Window /\ RowsUntil(window'.lines, t)
  BY <1>1, <1>2, <1>5, <1>8, EmitKeeps DEF RestOK
<1>10. RestOK'
  BY <1>1, <1>2, <1>3, <1>4, <1>5, <1>7, <1>9 DEF RestOK
<1>11. QED
  BY <1>1, <1>8, <1>10, InvParts

(* What requests and the process have in common.                           *)
LEMMA EventFacts ==
  ASSUME Inv, events' = events + 1
  PROVE  events' \in Nat
  BY InvFacts DEF RestOK

LEMMA MarkKeeps ==
  ASSUME Inv, NEW song \in Songs, MarkScrobbled(song)
  PROVE  Inv'
<1>1. PICK i \in 1 .. Len(entries) :
        /\ Event /\ enabled
        /\ entries' = Marked(entries, i) /\ cur' = MarkedPlay(i) /\ resume' = MarkedSong(i)
        /\ Save(Marked(entries, i), cur', resume', now)
        /\ UNCHANGED <<heard, config, enabled, limit, ignore, gone, cut, removed, out, spent>>
        /\ Emit(TRUE)
  BY DEF MarkScrobbled, Marked, MarkedPlay, MarkedSong
<1>2. /\ MemoryOK(entries, cur, resume, now) /\ FileOK(file, now) /\ RestOK
      /\ now \in Nat /\ limit \in Nat \ {0}
  BY InvFacts
<1>3. MemoryOK(entries', cur', resume', now)
  BY <1>1, <1>2, MarkOK
<1>4. FileOK(file', now) /\ bad' = bad
  BY <1>1, <1>2, <1>3, SaveOK DEF Save
<1>5. window' \in Window /\ RowsUntil(window'.lines, now)
  BY <1>1, <1>2, <1>3, EmitKeeps DEF RestOK
<1>6. events' \in Nat /\ UNCHANGED <<world, up, now, last>>
  BY <1>1, EventFacts DEF Event
<1>7. RestOK'
  BY <1>1, <1>2, <1>4, <1>5, <1>6 DEF RestOK
<1>8. QED
  BY <1>3, <1>4, <1>6, <1>7, InvParts

(* What remove leaves, where the rows at n positions stay.                 *)
Removing(line, taken, c, r, list) ==
  /\ Event
  /\ enabled
  /\ ignore' = IF taken THEN KeyOf(cur.entry) ELSE ignore
  /\ entries' = list
  /\ resume' = r
  /\ IF Changed(taken, list) THEN cur' = Kept(c) /\ Save(list, c, r, now)
                             ELSE cur' = c /\ UNCHANGED disk
  /\ removed' = removed \cup {line.started}
  /\ out' = IF taken THEN cur.entry.listen ELSE out
  /\ UNCHANGED <<heard, config, enabled, limit, gone, cut>>
  /\ spent' = IF taken \/ r # resume THEN 0 ELSE spent
  /\ Emit(taken \/ list # entries)

LEMMA RemoveKeeps ==
  ASSUME Inv, NEW k \in 1 .. Len(window.lines), NEW line, line = window.lines[k], Remove(line)
  PROVE  Inv'
<1> DEFINE taken == cur # None /\ SamePlay(cur.entry, line)
           c == IF taken THEN None ELSE cur
           r == ForgetTheSaved(line)
           stays == {i \in 1 .. Len(entries) : ~SamePlay(entries[i], line)}
<1>1. PICK n \in 0 .. Len(entries) : \E f \in Listings(n, stays) :
        Removing(line, taken, c, r, [i \in 1 .. n |-> entries[f[i]]])
  BY DEF Remove, Removing
<1>2. PICK f \in Listings(n, stays) :
        Removing(line, taken, c, r, [i \in 1 .. n |-> entries[f[i]]])
  BY <1>1
<1>3. /\ MemoryOK(entries, cur, resume, now) /\ FileOK(file, now) /\ RestOK
      /\ now \in Nat /\ limit \in Nat \ {0} /\ cur \in Play \cup {None}
      /\ entries \in Seq(Entry)
  BY InvFacts
<1>4. c = IF cur # None /\ SamePlay(cur.entry, line) THEN None ELSE cur
  OBVIOUS
<1> DEFINE list == [i \in 1 .. n |-> entries[f[i]]]
<1>5. MemoryOK(list, c, r, now)
  BY <1>3, <1>4, RemoveOK
<1>6. line.started \in Nat /\ line.started <= now
  <2>1. window \in Window /\ RowsUntil(window.lines, now)
    BY <1>3 DEF RestOK
  <2>2. window.lines \in Seq(LineType)
    BY <2>1 DEF Window
  <2>3. line \in LineType
    BY <2>2
  <2>4. QED
    BY <2>1, <2>3 DEF RowsUntil, LineType
<1>7. taken => KeyOf(cur.entry) \in Key /\ cur.entry.listen \in Nat
  BY <1>3 DEF KeyOf, Key, Play, Entry
<1>8. /\ Event /\ entries' = list /\ resume' = r
      /\ ignore' \in Key \cup {None} /\ out' \in Nat /\ spent' \in Nat
      /\ removed' = removed \cup {line.started}
      /\ UNCHANGED <<heard, config, enabled, limit, gone, cut>> /\ enabled
      /\ \E changed : Emit(changed)
  BY <1>2, <1>3, <1>7 DEF RestOK, Removing
<1>9. \/ cur' = Kept(c) /\ Save(list, c, r, now)
      \/ cur' = c /\ UNCHANGED disk
  BY <1>2 DEF Removing
<1> HIDE DEF list, c, r, taken
<1>10. MemoryOK(entries', cur', resume', now) /\ FileOK(file', now) /\ bad' \in BOOLEAN
  <2>1. CASE cur' = Kept(c) /\ Save(list, c, r, now)
    <3>1. FileOK(file', now) /\ bad' = bad
      BY <1>3, <1>5, <2>1, SaveOK DEF Save
    <3>2. c \in Play \cup {None}
      BY <1>5 DEF MemoryOK
    <3>3. MemoryOK(list, Kept(c), r, now)
      BY <1>5, <3>2, KeptFields DEF MemoryOK, NewestOf
    <3>4. QED
      BY <1>3, <1>8, <2>1, <3>1, <3>3 DEF RestOK
  <2>2. CASE cur' = c /\ UNCHANGED disk
    BY <1>3, <1>5, <1>8, <2>2 DEF disk, RestOK
  <2>3. QED
    BY <1>9, <2>1, <2>2
<1>11. window' \in Window /\ RowsUntil(window'.lines, now)
  BY <1>3, <1>8, <1>10, EmitKeeps DEF RestOK
<1>12. events' \in Nat /\ UNCHANGED <<world, up, now, last>>
  BY <1>8, EventFacts DEF Event
<1>13. removed' \subseteq Nat /\ \A m \in removed' : m <= now
  BY <1>3, <1>6, <1>8 DEF RestOK
<1>14. RestOK'
  BY <1>3, <1>8, <1>10, <1>11, <1>12, <1>13 DEF RestOK
<1>15. QED
  BY <1>10, <1>12, <1>14, InvParts

(* Nothing to remember, with a window that shows nothing.                  *)
LEMMA EmptyMemory ==
  ASSUME NEW n \in Nat
  PROVE  MemoryOK(<<>>, None, None, n)
  BY DEF MemoryOK, RowsUntil

LEMMA ClearKeeps ==
  ASSUME Inv, Clear
  PROVE  Inv'
<1>1. /\ FileOK(file, now) /\ RestOK /\ now \in Nat /\ limit \in Nat \ {0}
  BY InvFacts
<1>2. /\ Event /\ entries' = <<>> /\ cur' = None /\ resume' = None /\ ignore' = None
      /\ DeleteFile /\ cut' = now /\ out' = 0 /\ spent' = 0
      /\ UNCHANGED <<heard, config, enabled, limit, gone, removed>> /\ Emit(TRUE)
  BY DEF Clear
<1>3. MemoryOK(entries', cur', resume', now)
  BY <1>1, <1>2, EmptyMemory
<1>4. FileOK(file', now) /\ bad' \in BOOLEAN
  BY <1>1, <1>2, DeleteOK DEF RestOK
<1>5. window' \in Window /\ RowsUntil(window'.lines, now)
  BY <1>1, <1>2, <1>3, EmitKeeps DEF RestOK
<1>6. events' \in Nat /\ UNCHANGED <<world, up, now, last>>
  BY <1>2, EventFacts DEF Event
<1>7. RestOK'
  BY <1>1, <1>2, <1>4, <1>5, <1>6 DEF RestOK
<1>8. QED
  BY <1>3, <1>4, <1>6, <1>7, InvParts

LEMMA ConfigureKeeps ==
  ASSUME Inv, NEW c \in [on : BOOLEAN, limit : Limits], Configure(c)
  PROVE  Inv'
<1>1. /\ MemoryOK(entries, cur, resume, now) /\ FileOK(file, now) /\ RestOK
  BY InvFacts
<1>2. /\ config' = c /\ events' \in Nat
      /\ UNCHANGED <<world, heard, up, enabled, limit, entries, cur, resume, ignore, gone, file,
                     bad, window, now, cut, removed, out, last, spent>>
  BY EventFacts DEF Configure, Event, memory, disk, ghosts
<1>3. RestOK'
  BY <1>1, <1>2 DEF RestOK
<1>4. QED
  BY <1>1, <1>2, <1>3, InvParts

LEMMA ReconfigureKeeps ==
  ASSUME Inv, Reconfigure
  PROVE  Inv'
<1>1. /\ MemoryOK(entries, cur, resume, now) /\ FileOK(file, now) /\ RestOK
      /\ now \in Nat /\ entries \in Seq(Entry) /\ limit \in Nat \ {0}
      /\ config.limit \in Limits /\ config.limit \in Nat \ {0}
  BY InvFacts
<1>2. up /\ UNCHANGED <<world, heard, up, config, now, removed, last, events>>
  BY DEF Reconfigure
<1>3. /\ MemoryOK(entries', cur', resume', now) /\ FileOK(file', now) /\ bad' \in BOOLEAN
      /\ enabled' \in BOOLEAN /\ limit' \in Limits /\ cut' \in {cut, now} /\ out' \in {out, 0}
      /\ spent' \in {spent, 0} /\ ignore' = ignore /\ gone' = gone
      /\ \E changed : Emit(changed)
      /\ ~enabled' => entries' = <<>> /\ cur' = None /\ resume' = None
  <2>1. CASE SwitchedOff
    <3>1. /\ enabled' = FALSE /\ limit' = config.limit
          /\ entries' = <<>> /\ cur' = None /\ resume' = None /\ DeleteFile
          /\ cut' = now /\ out' = 0 /\ spent' = 0 /\ UNCHANGED <<ignore, gone>>
          /\ \E changed : Emit(changed)
      BY <2>1 DEF SwitchedOff
    <3>2. FileOK(file', now) /\ bad' \in BOOLEAN
      BY <1>1, <3>1, DeleteOK DEF RestOK
    <3>3. QED
      BY <1>1, <3>1, <3>2, EmptyMemory
  <2>2. CASE SwitchedOn
    <3> DEFINE k == IF limit # config.limit THEN config.limit ELSE Len(LoadedRows(file))
    <3>1. /\ ~enabled /\ enabled' = TRUE /\ limit' = config.limit /\ Load(k)
          /\ cut' = now /\ UNCHANGED <<cur, ignore, gone, out, spent>>
          /\ \E changed : Emit(changed)
      BY <2>2 DEF SwitchedOn
    <3>2. LoadedRows(file) \in Seq(Entry)
      BY <1>1, LoadedSongFields
    <3>3. k \in Nat /\ (k > 0 \/ k >= Len(LoadedRows(file)))
      BY <1>1, <3>2
    <3>4. cur' = None
      BY <1>1, <3>1 DEF RestOK
    <3> HIDE DEF k
    <3>5. MemoryOK(entries', None, resume', now) /\ FileOK(file', now) /\ bad' \in BOOLEAN
      BY <1>1, <3>1, <3>3, LoadOK DEF RestOK
    <3>6. QED
      BY <1>1, <3>1, <3>4, <3>5
  <2>3. CASE Limited
    <3> DEFINE list == Trimmed(entries, config.limit)
    <3>1. /\ enabled /\ limit' = config.limit /\ entries' = list
          /\ \/ cur' = Kept(cur) /\ Save(list, cur, resume, now)
             \/ UNCHANGED <<cur, file, bad>>
          /\ UNCHANGED <<enabled, resume, ignore, gone, cut, out, spent>>
          /\ \E changed : Emit(changed)
      BY <2>3 DEF Limited, LimitSaved, disk
    <3>2. MemoryOK(list, cur, resume, now)
      BY <1>1, CutIsOK
    <3> HIDE DEF list
    <3>3. MemoryOK(list, Kept(cur), resume, now)
      <4>1. cur \in Play \cup {None}
        BY <3>2 DEF MemoryOK
      <4>2. QED
        BY <3>2, <4>1, KeptFields DEF MemoryOK, NewestOf
    <3>4. CASE cur' = Kept(cur) /\ Save(list, cur, resume, now)
      <4>1. FileOK(file', now) /\ bad' = bad
        BY <1>1, <3>2, <3>4, SaveOK DEF Save
      <4>2. QED
        BY <1>1, <3>1, <3>3, <3>4, <4>1 DEF RestOK
    <3>5. CASE UNCHANGED <<cur, file, bad>>
      BY <1>1, <3>1, <3>2, <3>5 DEF RestOK
    <3>6. QED
      BY <3>1, <3>4, <3>5
  <2>4. QED
    BY <2>1, <2>2, <2>3 DEF Reconfigure
<1>4. window' \in Window /\ RowsUntil(window'.lines, now)
  BY <1>1, <1>3, Constants, EmitKeeps DEF RestOK
<1>5. RestOK'
  BY <1>1, <1>2, <1>3, <1>4 DEF RestOK
<1>6. QED
  BY <1>2, <1>3, <1>5, InvParts

(* The process ends: memory is gone.                                       *)
LEMMA ForgetKeeps ==
  ASSUME Inv, Forget, FileOK(file', now), bad' \in BOOLEAN, events' = events + 1, out' = 0,
         spent' \in Nat, UNCHANGED <<world, heard, config, now, cut, removed, last>>
  PROVE  Inv'
<1>1. RestOK /\ now \in Nat /\ limit \in Nat
  BY InvFacts
<1>2. /\ up' = FALSE /\ enabled' = FALSE /\ entries' = <<>> /\ cur' = None /\ resume' = None
      /\ ignore' = None /\ gone' = None /\ limit' = limit
      /\ window' = Snapshot(FALSE, limit, <<>>, None)
  BY DEF Forget
<1>3. window' \in Window /\ RowsUntil(window'.lines, now)
  BY <1>2 DEF Snapshot, Window, RowsUntil
<1>4. MemoryOK(entries', cur', resume', now)
  BY <1>1, <1>2, EmptyMemory
<1>5. events' \in Nat
  BY EventFacts
<1>6. RestOK'
  BY <1>1, <1>2, <1>3, <1>5 DEF RestOK, Position
<1>7. QED
  BY <1>4, <1>6, InvParts

LEMMA ShutdownKeeps ==
  ASSUME Inv, Shutdown
  PROVE  Inv'
<1>1. /\ MemoryOK(entries, cur, resume, now) /\ FileOK(file, now) /\ RestOK /\ now \in Nat
  BY InvFacts
<1>2. /\ Save(entries, cur, resume, now) \/ UNCHANGED disk
      /\ Forget /\ out' = 0 /\ events' = events + 1
      /\ UNCHANGED <<world, heard, config, now, cut, removed, last, spent>>
  BY DEF Shutdown
<1>3. FileOK(file', now) /\ bad' = bad
  <2>1. CASE Save(entries, cur, resume, now)
    BY <1>1, <2>1, SaveOK DEF Save
  <2>2. CASE UNCHANGED disk
    BY <1>1, <2>2 DEF disk
  <2>3. QED
    BY <1>2, <2>1, <2>2
<1>4. QED
  BY <1>1, <1>2, <1>3, ForgetKeeps DEF RestOK

LEMMA CrashKeeps ==
  ASSUME Inv, Crash
  PROVE  Inv'
<1>1. /\ FileOK(file, now) /\ RestOK /\ now \in Nat /\ cur \in Play \cup {None}
  BY InvFacts
<1>2. /\ Forget /\ out' = 0 /\ events' = events + 1 /\ UNCHANGED <<file, bad>>
      /\ spent' = IF cur # None /\ cur.saved < spent THEN cur.saved ELSE spent
      /\ UNCHANGED <<world, heard, config, now, cut, removed, last>>
  BY DEF Crash, disk
<1>3. spent' \in Nat
  BY <1>1, <1>2 DEF RestOK, Play
<1>4. QED
  BY <1>1, <1>2, <1>3, ForgetKeeps DEF RestOK

LEMMA StartKeeps ==
  ASSUME Inv, Start
  PROVE  Inv'
<1>1. /\ FileOK(file, now) /\ RestOK /\ now \in Nat
      /\ config.limit \in Limits /\ config.limit \in Nat \ {0} /\ config.on \in BOOLEAN
  BY InvFacts
<1>2. /\ ~up /\ up' = TRUE /\ enabled' = config.on /\ limit' = config.limit
      /\ cut' = IF config.on THEN cut ELSE now
      /\ spent' = IF config.on THEN spent ELSE 0
      /\ heard' = HeardAfresh /\ Emit(TRUE)
      /\ UNCHANGED <<world, config, cur, ignore, gone, now, removed, out, last, events>>
  BY DEF Start
<1>3. cur' = None
  BY <1>1, <1>2 DEF RestOK
<1>4. /\ MemoryOK(entries', None, resume', now) /\ FileOK(file', now) /\ bad' \in BOOLEAN
      /\ ~enabled' => entries' = <<>> /\ resume' = None
  <2>1. CASE config.on
    <3>1. Load(config.limit)
      BY <2>1 DEF Start
    <3>2. QED
      BY <1>1, <1>2, <2>1, <3>1, LoadOK DEF RestOK
  <2>2. CASE ~config.on
    <3>1. DeleteFile /\ entries' = <<>> /\ resume' = None
      BY <2>2 DEF Start
    <3>2. QED
      BY <1>1, <3>1, DeleteOK, EmptyMemory DEF RestOK
  <2>3. QED
    BY <2>1, <2>2
<1>5. heard' \in Listen /\ (~heard'.over => heard' \in Hearing)
  BY <1>1, <1>2 DEF HeardAfresh, Listen, Hearing, RestOK, Position
<1>6. window' \in Window /\ RowsUntil(window'.lines, now)
  BY <1>1, <1>2, <1>3, <1>4, EmitKeeps DEF RestOK
<1>7. RestOK'
  BY <1>1, <1>2, <1>3, <1>4, <1>5, <1>6 DEF RestOK
<1>8. QED
  BY <1>2, <1>3, <1>4, <1>7, InvParts

LEMMA InitHolds == Init => Inv
<1> SUFFICES ASSUME Init PROVE Inv
  OBVIOUS
<1>1. /\ now = 0 /\ entries = <<>> /\ cur = None /\ resume = None /\ ignore = None /\ gone = None
      /\ up = FALSE /\ enabled = FALSE /\ bad = FALSE /\ heard = NoListen
      /\ cut = 0 /\ removed = {} /\ out = 0 /\ last = 0 /\ spent = 0 /\ events = 0
      /\ world \in Worlds /\ config \in [on : BOOLEAN, limit : FirstLimits]
      /\ limit = config.limit /\ file \in {None, Damaged}
      /\ window = Snapshot(FALSE, limit, <<>>, None)
  BY DEF Init
<1>2. MemoryOK(entries, cur, resume, now) /\ FileOK(file, now)
  BY <1>1, EmptyMemory DEF FileOK
<1>3. window \in Window /\ RowsUntil(window.lines, now)
  BY <1>1 DEF Snapshot, Window, RowsUntil
<1>4. heard \in Listen /\ heard.over
  BY <1>1 DEF NoListen, Listen, Position
<1>5. config \in [on : BOOLEAN, limit : Limits] /\ limit \in Limits
  BY <1>1, Constants
<1>6. /\ up \in BOOLEAN /\ enabled \in BOOLEAN /\ bad \in BOOLEAN /\ ~enabled
      /\ ignore \in Key \cup {None} /\ gone \in Position
      /\ now \in Nat /\ cut \in Nat /\ removed \subseteq Nat /\ out \in Nat
      /\ last \in Nat /\ spent \in Nat /\ events \in Nat
      /\ cut <= now /\ \A n \in removed : n <= now
  <2>1. up \in BOOLEAN /\ enabled \in BOOLEAN /\ bad \in BOOLEAN /\ ~enabled
    BY <1>1, Zenon
  <2>2. now = 0 /\ cut = 0 /\ removed = {} /\ out = 0 /\ last = 0 /\ spent = 0 /\ events = 0
    BY <1>1, Zenon
  <2>3. ignore \in Key \cup {None} /\ gone \in Position
    BY <1>1 DEF Position
  <2>4. QED
    BY <2>1, <2>2, <2>3
<1>7. RestOK
  BY <1>1, <1>3, <1>4, <1>5, <1>6, Zenon DEF RestOK
<1>8. QED
  BY <1>2, <1>7, InvParts

LEMMA NothingChanges == Inv /\ UNCHANGED vars => Inv'
<1> SUFFICES ASSUME Inv, UNCHANGED vars PROVE Inv'
  OBVIOUS
<1>1. UNCHANGED <<world, heard, up, config, enabled, limit, entries, cur, resume, ignore, gone,
                  file, bad, window, now, cut, removed, out, last, spent, events>>
  BY DEF vars, memory, disk, ghosts
<1>2. QED
  BY <1>1, InvParts DEF RestOK

LEMMA InvKept == Inv /\ [Next]_vars => Inv'
<1> SUFFICES ASSUME Inv, [Next]_vars PROVE Inv'
  OBVIOUS
<1>1. ASSUME NEW dt \in 1 .. MaxStep, SongPoll(dt) PROVE Inv'
  BY <1>1, SongPollKeeps
<1>2. ASSUME NEW dt \in 1 .. MaxStep, NothingPoll(dt) PROVE Inv'
  BY <1>2, NothingPollKeeps
<1>3. ASSUME NEW song \in Songs, MarkScrobbled(song) PROVE Inv'
  BY <1>3, MarkKeeps
<1>4. ASSUME NEW i \in 1 .. Len(window.lines), Remove(window.lines[i]) PROVE Inv'
  BY <1>4, RemoveKeeps
<1>5. CASE Clear
  BY <1>5, ClearKeeps
<1>6. ASSUME NEW c \in [on : BOOLEAN, limit : Limits], Configure(c) PROVE Inv'
  BY <1>6, ConfigureKeeps
<1>7. CASE Reconfigure
  BY <1>7, ReconfigureKeeps
<1>8. CASE Shutdown
  BY <1>8, ShutdownKeeps
<1>9. CASE Crash
  BY <1>9, CrashKeeps
<1>10. CASE Start
  BY <1>10, StartKeeps
<1>11. CASE UNCHANGED vars
  BY <1>11, NothingChanges
<1>12. QED
  BY <1>1, <1>2, <1>3, <1>4, <1>5, <1>6, <1>7, <1>8, <1>9, <1>10, <1>11 DEF Next

LEMMA InvHolds == Spec => []Inv
  BY InitHolds, InvKept, PTL DEF Spec

(* The settings, the list, the song on right now, the file and the window  *)
(* keep their types, whatever is polled, asked for, saved and loaded.      *)
THEOREM TypeCorrect == Spec => []TypeOK
<1>1. Inv => TypeOK
  BY DEF Inv, TypeInv
<1>2. QED
  BY <1>1, InvHolds, PTL

(* The song on right now, and the last run's while it waits to be compared,*)
(* is the newest row if it counted and none otherwise, through every load, *)
(* trim, late album, mark and removal.                                     *)
THEOREM TheSongIsTheNewestRow == Spec => []CurrentIsNewest
<1>1. Inv => CurrentIsNewest
  BY DEF Inv, HistoryInv, MemoryOK, CurrentIsNewest, NewestOf
<1>2. QED
  BY <1>1, InvHolds, PTL

-----------------------------------------------------------------------------
(* Off.                                                                    *)

(* While the history is off nothing is on disk.                            *)
OffInv == up /\ ~enabled /\ ~world.writesMayFail => file = None /\ ~bad

LEMMA OffKept == Inv /\ OffInv /\ [Next]_vars => OffInv'
<1> SUFFICES ASSUME Inv, OffInv, [Next]_vars, up', ~enabled', ~world'.writesMayFail
             PROVE  file' = None /\ ~bad'
  BY DEF OffInv
<1> USE DEF memory, disk, ghosts
<1>1. CASE UNCHANGED <<world, up, enabled, file, bad>>
  BY <1>1 DEF OffInv
<1>2. ASSUME NEW dt \in 1 .. MaxStep, SongPoll(dt) PROVE UNCHANGED <<world, up, enabled, file, bad>>
  <2>1. UNCHANGED <<world, up, enabled>>
    BY <1>2 DEF SongPoll, Poll
  <2>2. \E s \in SongShown : Update(s, now + dt, dt)
    BY <1>2, SongPollShows
  <2>3. PICK s \in SongShown : Update(s, now + dt, dt)
    BY <2>2
  <2>4. ~enabled
    BY <2>1
  <2>5. UNCHANGED <<file, bad>>
    BY <2>3, <2>4 DEF Update, disk
  <2>6. QED
    BY <2>1, <2>5
<1>3. ASSUME NEW dt \in 1 .. MaxStep, NothingPoll(dt)
      PROVE  UNCHANGED <<world, up, enabled, file, bad>>
  BY <1>3 DEF NothingPoll, Poll
<1>4. ASSUME NEW song \in Songs, MarkScrobbled(song) PROVE FALSE
  BY <1>4 DEF MarkScrobbled
<1>5. ASSUME NEW i \in 1 .. Len(window.lines), Remove(window.lines[i]) PROVE FALSE
  BY <1>5 DEF Remove
<1>6. CASE Clear
  BY <1>6 DEF Clear, Event, DeleteFile
<1>7. ASSUME NEW c \in [on : BOOLEAN, limit : Limits], Configure(c)
      PROVE  UNCHANGED <<world, up, enabled, file, bad>>
  BY <1>7 DEF Configure, Event
<1>8. CASE Reconfigure
  <2>1. ~SwitchedOn
    BY DEF SwitchedOn
  <2>2. ~Limited
    <3>1. Limited => enabled /\ enabled' = enabled
      BY DEF Limited
    <3>2. enabled \in BOOLEAN
      BY InvFacts DEF RestOK
    <3>3. enabled = TRUE => enabled' # enabled
      OBVIOUS
    <3>4. QED
      BY <3>1, <3>2, <3>3
  <2>3. SwitchedOff /\ world' = world
    BY <1>8, <2>1, <2>2 DEF Reconfigure
  <2>4. QED
    BY <2>3 DEF SwitchedOff, DeleteFile
<1>9. CASE Shutdown
  BY <1>9 DEF Shutdown, Forget
<1>10. CASE Crash
  BY <1>10 DEF Crash, Forget
<1>11. CASE Start
  BY <1>11 DEF Start, DeleteFile
<1>12. CASE UNCHANGED vars
  BY <1>1, <1>12 DEF vars
<1>13. QED
  BY <1>1, <1>2, <1>3, <1>4, <1>5, <1>6, <1>7, <1>8, <1>9, <1>10, <1>11, <1>12 DEF Next

(* While the history is off nothing is kept of what was listed, not in     *)
(* memory, not in the file, and not in a damaged file that was set aside.  *)
THEOREM OffMeansNothing == Spec => []OffKeepsNothing
<1>1. Init => OffInv
  BY DEF Init, OffInv
<1>2. Inv /\ OffInv => OffKeepsNothing
  BY DEF Inv, HistoryInv, OffInv, OffKeepsNothing
<1>3. QED
  BY <1>1, <1>2, InvHolds, OffKept, PTL DEF Spec

-----------------------------------------------------------------------------
(* What a poll that shows a song may do to rows, file and window.          *)

(* Two lists the window shows alike.                                       *)
Alike(a, b) == Len(a) = Len(b) /\ \A i \in 1 .. Len(a) : Line(a[i]) = Line(b[i])

ShownAlike(c, d) ==
  /\ c = None <=> d = None
  /\ c # None => Line(c.entry) = Line(d.entry) /\ c.counted = d.counted /\ c.shown = d.shown

(* What remains of a row whatever turns up about its song.                 *)
Beginning(e) == <<e.started, e.song>>

Began(list, c, r) ==
  {Beginning(list[i]) : i \in 1 .. Len(list)}
    \cup {Beginning(p.entry) : p \in {c, r} \ {None}}

LEMMA LinesAlike ==
  ASSUME NEW e, NEW f, e.song = f.song, e.album = f.album, e.started = f.started,
         e.scrobbled = f.scrobbled
  PROVE  Line(e) = Line(f)
  BY DEF Line

(* The play of the newest row, or of none, is put back into the list.      *)
LEMMA RelistedAlike ==
  ASSUME NEW list \in Seq(Entry), NEW p, NewestOf(p, list), NEW c \in Play, c.counted = p.counted,
         Line(c.entry) = Line(p.entry)
  PROVE  Alike(Relisted(list, c), list)
<1>1. c # None /\ (c.counted => list # <<>>)
  BY NoneIsNoEntry DEF NewestOf
<1>2. /\ Len(Relisted(list, c)) = Len(list)
      /\ \A i \in 1 .. Len(list) :
           Relisted(list, c)[i] = IF i = 1 /\ c # None /\ c.counted THEN c.entry ELSE list[i]
  BY <1>1, RelistedRows
<1>3. ASSUME NEW i \in 1 .. Len(list)
      PROVE  Line(Relisted(list, c)[i]) = Line(list[i])
  <2>1. CASE i = 1 /\ c.counted
    BY <1>1, <1>2, <2>1 DEF NewestOf
  <2>2. CASE ~(i = 1 /\ c.counted)
    BY <1>2, <2>2
  <2>3. QED
    BY <2>1, <2>2
<1>4. QED
  BY <1>2, <1>3 DEF Alike

LEMMA RelistedBegan ==
  ASSUME NEW list \in Seq(Entry), NEW c \in Play, c.counted => list # <<>>,
         NEW i \in 1 .. Len(Relisted(list, c))
  PROVE  \/ Beginning(Relisted(list, c)[i]) = Beginning(c.entry)
         \/ i \in 1 .. Len(list) /\ Relisted(list, c)[i] = list[i]
<1>1. c # None
  BY NoneIsNoEntry
<1>2. /\ Len(Relisted(list, c)) = Len(list)
      /\ \A j \in 1 .. Len(list) :
           Relisted(list, c)[j] = IF j = 1 /\ c # None /\ c.counted THEN c.entry ELSE list[j]
  BY <1>1, RelistedRows
<1>3. QED
  BY <1>2

(* How the file and the play in progress end up, when s began at t.        *)
FileAfter(t) ==
  \/ UNCHANGED disk /\ Alike(entries', entries)
  \/ \E k \in {None, cur'} : Save(entries', k, resume', t)

WindowAfter ==
  \/ window' = Snapshot(enabled', limit', entries', cur')
  \/ window' = window /\ Alike(entries', entries) /\ ShownAlike(cur', cur)

BeganAfter(s, t) ==
  /\ \A i \in 1 .. Len(entries') : Beginning(entries'[i]) \in Began(entries, cur, resume)
  /\ cur' # None => Beginning(cur'.entry) \in Began(entries, cur, resume) \cup {<<t, s.song>>}
  /\ resume' \in {resume, None}

ProgressAfter(t) ==
  /\ cur' # None =>
       \/ /\ cur # None /\ Beginning(cur'.entry) = Beginning(cur.entry)
          /\ cur'.saved = cur.saved /\ cur'.played - cur'.saved < SaveEvery /\ UNCHANGED disk
       \/ cur'.saved = cur'.played /\ Save(entries', cur', resume', t)
       \/ /\ resume # None /\ Beginning(cur'.entry) = Beginning(resume.entry)
          /\ cur'.played = resume.played /\ cur'.saved = resume.played /\ UNCHANGED disk
       \/ /\ cur'.played = 0 /\ cur'.saved = 0 /\ cur'.entry.started = t /\ resume' = None
          /\ UNCHANGED disk \/ Save(entries', None, None, t)
  /\ resume' # None => \/ UNCHANGED disk
                       \/ cur' = None /\ Save(entries', None, resume', t)

Outcome(s, t) == FileAfter(t) /\ WindowAfter /\ BeganAfter(s, t) /\ ProgressAfter(t)

(* What filling in the album leaves of the list.                           *)
LEMMA FilledInOutcome ==
  ASSUME NEW n \in Nat, NEW s \in SongShown, MemoryOK(entries, cur, resume, n)
  PROVE  LET c == FilledIn(cur, s)
             list == Relisted(entries, c)
         IN  /\ list \in Seq(Entry) /\ (c = None => list = entries)
             /\ c # None => /\ c \in Play /\ cur \in Play /\ cur # None
                            /\ Beginning(c.entry) = Beginning(cur.entry)
                            /\ NewestOf(c, list)
             /\ \A i \in 1 .. Len(list) : Beginning(list[i]) \in Began(entries, cur, resume)
             /\ c # None /\ (~c.counted \/ c.entry = cur.entry) => Alike(list, entries)
<1> DEFINE c == FilledIn(cur, s)
           list == Relisted(entries, c)
<1>1. /\ entries \in Seq(Entry) /\ cur \in Play \cup {None}
      /\ cur # None => NewestOf(cur, entries)
  BY DEF MemoryOK
<1>2. /\ c \in Play \cup {None} /\ (c = None <=> cur = None)
      /\ cur # None => /\ c.entry.song = cur.entry.song /\ c.entry.started = cur.entry.started
                       /\ c.counted = cur.counted
  BY <1>1, FilledInFields
<1>3. MemoryOK(list, c, resume, n)
  BY FilledInOK
<1> HIDE DEF c
<1>4. CASE c = None
  <2>1. list = entries
    BY <1>4 DEF Relisted
  <2>2. QED
    BY <1>1, <1>4, <2>1 DEF Began, c
<1>5. CASE c # None
  <2>1. c \in Play /\ cur \in Play /\ cur # None /\ NewestOf(cur, entries)
    BY <1>1, <1>2, <1>5
  <2>2. Beginning(c.entry) = Beginning(cur.entry) /\ c.counted = cur.counted
    BY <1>2, <2>1 DEF Beginning
  <2>3. list \in Seq(Entry) /\ NewestOf(c, list)
    BY <1>3, <1>5 DEF MemoryOK
  <2>4. c.counted => entries # <<>>
    BY <2>1, <2>2 DEF NewestOf
  <2>5. ASSUME NEW i \in 1 .. Len(list)
        PROVE  Beginning(list[i]) \in Began(entries, cur, resume)
    <3>1. \/ Beginning(list[i]) = Beginning(c.entry)
          \/ i \in 1 .. Len(entries) /\ list[i] = entries[i]
      BY <1>1, <2>1, <2>4, <2>5, RelistedBegan
    <3> HIDE DEF list
    <3>2. QED
      BY <2>1, <2>2, <3>1 DEF Began
  <2>6. ASSUME ~c.counted \/ c.entry = cur.entry
        PROVE  Alike(list, entries)
    <3>1. CASE c.entry = cur.entry
      BY <1>1, <2>1, <2>2, <3>1, RelistedAlike
    <3>2. CASE ~c.counted
      <4>1. list = entries
        BY <3>2 DEF Relisted
      <4>2. QED
        BY <4>1 DEF Alike
    <3>3. QED
      BY <2>6, <3>1, <3>2
  <2> HIDE DEF list
  <2>7. QED
    BY <1>5, <2>1, <2>2, <2>3, <2>5, <2>6 DEF c, list
<1>6. QED
  BY <1>4, <1>5

LEMMA AlikeTwice ==
  ASSUME NEW a, NEW b, NEW c, Alike(a, b), Alike(b, c)
  PROVE  Alike(a, c)
  BY DEF Alike

LEMMA GoesOnOutcome ==
  ASSUME NEW n \in Nat, NEW t \in Nat, NEW dt \in Nat, NEW s \in SongShown, NEW dressed,
         MemoryOK(entries, cur, resume, n), limit \in Nat,
         NEW c \in Play, c = FilledIn(cur, s), NEW list, list = Relisted(entries, c),
         SongGoesOn(c, list, s, dressed, t, dt)
  PROVE  Outcome(s, t)
<1> DEFINE q == Heard(c, s, t, dt)
           counts == ~c.counted /\ CountsAsPlayed(q.played, q.entry.dur)
           r == [q EXCEPT !.counted = c.counted \/ counts]
           filled == c.entry # cur.entry
           news == c.counted /\ (filled \/ dressed \/ r.entry.dur # c.entry.dur)
           kept == IF counts THEN Trimmed(<<r.entry>> \o list, limit) ELSE Relisted(list, r)
<1>1. /\ c # None /\ cur \in Play /\ cur # None /\ list \in Seq(Entry) /\ NewestOf(c, list)
      /\ Beginning(c.entry) = Beginning(cur.entry)
      /\ \A i \in 1 .. Len(list) : Beginning(list[i]) \in Began(entries, cur, resume)
      /\ ~c.counted \/ ~filled => Alike(list, entries)
      /\ c.saved = cur.saved /\ c.shown = cur.shown /\ c.counted = cur.counted
      /\ c.entry.song = cur.entry.song
  <2>1. cur \in Play \cup {None} /\ c # None
    BY NoneIsNoEntry DEF MemoryOK
  <2>2. QED
    BY <2>1, FilledInOutcome, FilledInFields
<1>2. resume = None /\ c.counted \in BOOLEAN
  BY <1>1 DEF MemoryOK, Play
<1>3. /\ q \in Play
      /\ q.entry.song = c.entry.song /\ q.entry.album = c.entry.album
      /\ q.entry.started = c.entry.started /\ q.entry.scrobbled = c.entry.scrobbled
      /\ q.saved = c.saved
  BY HeardFields
<1>4. /\ entries' = kept /\ resume' = resume
      /\ IF counts \/ news \/ WorthSaving(r)
           THEN cur' = [r EXCEPT !.saved = r.played] /\ Save(kept, r, resume, t)
           ELSE cur' = r /\ UNCHANGED disk
      /\ Emit(filled \/ dressed \/ ChangeOfShown(c, r, counts))
  BY DEF SongGoesOn
<1> HIDE DEF q
<1>5. /\ r \in Play /\ r # None /\ r.entry = q.entry /\ r.saved = q.saved
      /\ r.counted = (c.counted \/ counts)
  BY <1>2, <1>3, NoneIsNoEntry DEF Play
<1> HIDE DEF counts, r, filled
<1>6. Line(r.entry) = Line(c.entry) /\ Beginning(r.entry) = Beginning(c.entry)
  BY <1>3, <1>5, LinesAlike DEF Beginning
<1>7. ~counts => /\ kept = Relisted(list, r) /\ r.counted = c.counted
                 /\ Alike(kept, list)
  <2> SUFFICES ASSUME ~counts
               PROVE  kept = Relisted(list, r) /\ r.counted = c.counted /\ Alike(kept, list)
    OBVIOUS
  <2>1. kept = Relisted(list, r) /\ r.counted = c.counted
    BY <1>2, <1>5
  <2>2. Alike(Relisted(list, r), list)
    BY <1>1, <1>5, <1>6, <2>1, RelistedAlike
  <2>3. QED
    BY <2>1, <2>2
<1>8. ASSUME NEW i \in 1 .. Len(kept)
      PROVE  Beginning(kept[i]) \in Began(entries, cur, resume)
  <2>1. Beginning(r.entry) \in Began(entries, cur, resume)
    BY <1>1, <1>6 DEF Began
  <2>2. CASE counts
    <3> DEFINE e == r.entry
               all == <<e>> \o list
    <3>1. e \in Entry
      BY <1>5 DEF Play
    <3> HIDE DEF e
    <3>2. /\ all \in Seq(Entry) /\ Len(all) = Len(list) + 1 /\ all[1] = e
          /\ \A k \in 2 .. Len(list) + 1 : all[k] = list[k - 1]
      BY <1>1, <3>1, ListedRows
    <3>3. kept = Trimmed(all, limit)
      BY <2>2 DEF e
    <3> HIDE DEF all
    <3>4. i \in 1 .. Len(all) /\ kept[i] = all[i]
      BY <1>8, <3>2, <3>3, TrimmedRows
    <3> HIDE DEF kept
    <3>5. CASE i = 1
      BY <2>1, <3>2, <3>4, <3>5 DEF e
    <3>6. CASE i # 1
      <4>1. i - 1 \in 1 .. Len(list) /\ all[i] = list[i - 1]
        BY <3>2, <3>4, <3>6
      <4>2. QED
        BY <1>1, <3>4, <4>1
    <3>7. QED
      BY <3>5, <3>6
  <2>3. CASE ~counts
    <3>1. kept = Relisted(list, r) /\ (r.counted => list # <<>>)
      BY <1>1, <1>7, <2>3 DEF NewestOf
    <3>2. \/ Beginning(kept[i]) = Beginning(r.entry)
          \/ i \in 1 .. Len(list) /\ kept[i] = list[i]
      BY <1>1, <1>5, <1>8, <3>1, RelistedBegan
    <3> HIDE DEF kept
    <3>3. QED
      BY <1>1, <2>1, <3>2
  <2>4. QED
    BY <2>2, <2>3
<1> HIDE DEF kept
<1>9. cur' \in {Kept(r), r}
  BY <1>4, <1>5 DEF Kept
<1>10. /\ Kept(r) \in Play /\ Kept(r).entry = r.entry /\ Kept(r).played = r.played
       /\ Kept(r).saved = r.played /\ Kept(r).counted = r.counted /\ Kept(r).shown = r.shown
  BY <1>5, KeptFields
<1>11. /\ cur' \in Play /\ cur' # None /\ cur'.entry = r.entry /\ cur'.counted = r.counted
       /\ cur'.shown = r.shown
  BY <1>5, <1>9, <1>10, NoneIsNoEntry
<1>12. WindowAfter
  <2>1. CASE filled \/ dressed \/ ChangeOfShown(c, r, counts)
    BY <1>4, <2>1 DEF Emit, WindowAfter
  <2>2. CASE ~(filled \/ dressed \/ ChangeOfShown(c, r, counts))
    <3>1. ~counts /\ ~filled /\ c.shown = r.shown /\ window' = window
      BY <1>4, <2>2 DEF Emit, ChangeOfShown
    <3>2. Alike(entries', entries)
      BY <1>1, <1>4, <1>7, <3>1, AlikeTwice
    <3>3. ShownAlike(cur', cur)
      BY <1>1, <1>6, <1>7, <1>11, <3>1 DEF ShownAlike, filled
    <3>4. QED
      BY <3>1, <3>2, <3>3 DEF WindowAfter
  <2>3. QED
    BY <2>1, <2>2
<1>13. BeganAfter(s, t)
  BY <1>1, <1>4, <1>6, <1>8, <1>11 DEF BeganAfter, Began
<1>14. CASE counts \/ news \/ WorthSaving(r)
  <2>1. cur' = Kept(r) /\ Save(kept, r, resume, t)
    BY <1>4, <1>5, <1>14 DEF Kept
  <2>2. RecordOf(Kept(r), t) = RecordOf(r, t)
    BY <1>5 DEF Kept, RecordOf, Play
  <2>3. Save(entries', cur', resume', t)
    BY <1>4, <1>5, <1>11, <2>1, <2>2 DEF Save, Stored
  <2>4. FileAfter(t)
    BY <2>3 DEF FileAfter
  <2>5. ProgressAfter(t)
    BY <1>2, <1>4, <1>10, <2>1, <2>3 DEF ProgressAfter
  <2>6. QED
    BY <1>12, <1>13, <2>4, <2>5 DEF Outcome
<1>15. CASE ~(counts \/ news \/ WorthSaving(r))
  <2>1. cur' = r /\ UNCHANGED disk /\ ~counts /\ ~news /\ ~WorthSaving(r)
    BY <1>4, <1>15
  <2>2. ~c.counted \/ ~filled
    BY <2>1
  <2>3. Alike(entries', entries)
    BY <1>1, <1>4, <1>7, <2>1, <2>2, AlikeTwice
  <2>4. r.played - r.saved < SaveEvery
    <3>1. r.played \in Nat /\ r.saved \in Nat
      BY <1>5 DEF Play
    <3>2. QED
      BY <2>1, <3>1, Constants DEF WorthSaving
  <2>5. FileAfter(t)
    BY <2>1, <2>3 DEF FileAfter
  <2>6. ProgressAfter(t)
    BY <1>1, <1>2, <1>3, <1>4, <1>5, <1>6, <2>1, <2>4 DEF ProgressAfter
  <2>7. QED
    BY <1>12, <1>13, <2>5, <2>6 DEF Outcome
<1>16. QED
  BY <1>14, <1>15

LEMMA StaysOutOutcome ==
  ASSUME NEW n \in Nat, NEW t \in Nat, NEW s \in SongShown, NEW ig,
         MemoryOK(entries, cur, resume, n),
         NEW c, c = FilledIn(cur, s), NEW list, list = Relisted(entries, c),
         StaysOut(c, list, ig, t)
  PROVE  Outcome(s, t)
<1>1. /\ cur' = None /\ entries' = list /\ resume' = resume
      /\ IF WorthFinishing(c) THEN Save(list, None, resume, t) ELSE UNCHANGED disk
      /\ Emit(c # None)
  BY DEF StaysOut
<1>2. /\ list \in Seq(Entry) /\ (c = None => list = entries)
      /\ \A i \in 1 .. Len(list) : Beginning(list[i]) \in Began(entries, cur, resume)
      /\ c # None /\ ~c.counted => Alike(list, entries)
      /\ c # None => cur # None
  BY FilledInOutcome
<1>3. c = None => cur = None
  BY FilledInFields DEF MemoryOK
<1>4. Alike(entries, entries)
  BY DEF Alike
<1>5. FileAfter(t)
  <2>1. CASE WorthFinishing(c)
    BY <1>1, <2>1 DEF FileAfter
  <2>2. CASE ~WorthFinishing(c)
    BY <1>1, <1>2, <1>4, <2>2 DEF FileAfter, WorthFinishing
  <2>3. QED
    BY <2>1, <2>2
<1>6. WindowAfter
  <2>1. CASE c # None
    BY <1>1, <2>1 DEF WindowAfter, Emit
  <2>2. CASE c = None
    BY <1>1, <1>2, <1>3, <1>4, <2>2 DEF WindowAfter, Emit, ShownAlike
  <2>3. QED
    BY <2>1, <2>2
<1>7. BeganAfter(s, t)
  BY <1>1, <1>2 DEF BeganAfter
<1>8. ProgressAfter(t)
  <2>1. cur' = None
    BY <1>1
  <2>2. CASE WorthFinishing(c)
    <3>1. Save(entries', None, resume', t)
      BY <1>1, <2>2
    <3>2. QED
      BY <2>1, <3>1 DEF ProgressAfter
  <2>3. CASE ~WorthFinishing(c)
    BY <1>1, <2>1, <2>3 DEF ProgressAfter
  <2>4. QED
    BY <2>2, <2>3
<1>9. QED
  BY <1>5, <1>6, <1>7, <1>8 DEF Outcome

LEMMA BeginsOutcome ==
  ASSUME NEW n \in Nat, NEW t \in Nat, NEW s \in SongShown,
         MemoryOK(entries, cur, resume, n),
         NEW c, c = FilledIn(cur, s), NEW list, list = Relisted(entries, c),
         SongBegins(c, list, s, t)
  PROVE  Outcome(s, t)
<1>1. /\ list \in Seq(Entry) /\ (c = None => list = entries)
      /\ \A i \in 1 .. Len(list) : Beginning(list[i]) \in Began(entries, cur, resume)
      /\ c # None /\ ~c.counted => Alike(list, entries)
      /\ c # None => cur # None
  BY FilledInOutcome
<1>2. (c = None => cur = None) /\ (c # None => resume = None)
  BY <1>1, FilledInFields DEF MemoryOK
<1>3. Alike(entries, entries)
  BY DEF Alike
<1>4. resume' = None
  BY DEF SongBegins
<1>5. CASE CarriesOn(s, t)
  <2> DEFINE p == CarriedOn(s, t)
  <2>1. /\ resume \in Record /\ resume # None /\ c = None /\ cur = None /\ list = entries
        /\ NewestOf(resume, entries)
    BY <1>1, <1>2, <1>5 DEF CarriesOn, MemoryOK
  <2>2. cur' = p /\ entries' = Relisted(list, p) /\ UNCHANGED disk /\ Emit(TRUE)
    BY <1>5, <2>1 DEF SongBegins, WorthFinishing
  <2>3. /\ p \in Play /\ p # None
        /\ p.entry.song = resume.entry.song /\ p.entry.album = resume.entry.album
        /\ p.entry.started = resume.entry.started
        /\ p.entry.scrobbled = resume.entry.scrobbled
        /\ p.played = resume.played /\ p.saved = resume.played /\ p.counted = resume.counted
    BY <2>1, CarriedOnFields
  <2> HIDE DEF p
  <2>4. Beginning(p.entry) = Beginning(resume.entry) /\ Line(p.entry) = Line(resume.entry)
    BY <2>3, LinesAlike DEF Beginning
  <2>5. Alike(entries', entries)
    BY <1>1, <2>1, <2>2, <2>3, <2>4, RelistedAlike
  <2>6. ASSUME NEW i \in 1 .. Len(entries')
        PROVE  Beginning(entries'[i]) \in Began(entries, cur, resume)
    <3>1. p.counted => entries # <<>>
      BY <2>1, <2>3 DEF NewestOf
    <3>2. \/ Beginning(entries'[i]) = Beginning(p.entry)
          \/ i \in 1 .. Len(entries) /\ entries'[i] = entries[i]
      BY <1>1, <2>1, <2>2, <2>3, <2>6, <3>1, RelistedBegan
    <3>3. QED
      BY <2>1, <2>4, <3>2 DEF Began
  <2>7. BeganAfter(s, t)
    BY <1>4, <2>1, <2>2, <2>4, <2>6 DEF BeganAfter, Began
  <2>8. FileAfter(t) /\ WindowAfter /\ ProgressAfter(t)
    BY <1>4, <2>1, <2>2, <2>3, <2>4, <2>5 DEF FileAfter, WindowAfter, ProgressAfter, Emit
  <2>9. QED
    BY <2>7, <2>8 DEF Outcome
<1>6. CASE ~CarriesOn(s, t)
  <2> DEFINE begins == s.playing \/ FollowsPlay(c, t)
         letGo == resume # None /\ ~CarriesOn(s, t) /\ ~resume.counted
  <2>0. /\ entries' = list /\ cur' = IF begins THEN Started(s, t) ELSE None
        /\ IF WorthFinishing(c) \/ letGo THEN Save(list, None, None, t) ELSE UNCHANGED disk
        /\ Emit(c # None \/ begins)
    <3>1. entries' = list
      BY <1>6 DEF SongBegins
    <3>2. cur' = IF begins THEN Started(s, t) ELSE None
      BY <1>6 DEF SongBegins
    <3>3. IF WorthFinishing(c) \/ letGo THEN Save(list, None, None, t) ELSE UNCHANGED disk
      BY DEF SongBegins
    <3>4. Emit(c # None \/ CarriesOn(s, t) \/ begins)
      BY DEF SongBegins
    <3>5. Emit(c # None \/ begins)
      <4> HIDE DEF begins
      <4>1. QED
        BY <1>6, <3>4 DEF Emit
    <3>6. QED
      BY <3>1, <3>2, <3>3, <3>5
  <2> HIDE DEF letGo
  <2>1. /\ entries' = list /\ cur' = IF begins THEN Started(s, t) ELSE None
        /\ \/ Save(list, None, None, t)
           \/ UNCHANGED disk /\ ~WorthFinishing(c)
        /\ Emit(c # None \/ begins)
    <3> HIDE DEF begins
    <3>1. CASE WorthFinishing(c) \/ letGo
      BY <2>0, <3>1
    <3>2. CASE ~(WorthFinishing(c) \/ letGo)
      BY <2>0, <3>2
    <3>3. QED
      BY <3>1, <3>2
  <2> HIDE DEF begins
  <2>2. FileAfter(t)
    BY <1>1, <1>3, <1>4, <2>1 DEF FileAfter, WorthFinishing
  <2>3. WindowAfter
    <3>1. CASE c # None \/ begins
      BY <2>1, <3>1 DEF WindowAfter, Emit
    <3>2. CASE ~(c # None \/ begins)
      BY <1>1, <1>2, <1>3, <2>1, <3>2 DEF WindowAfter, Emit, ShownAlike
    <3>3. QED
      BY <3>1, <3>2
  <2>4. /\ Started(s, t).entry.started = t /\ Started(s, t).entry.song = s.song
        /\ Started(s, t).played = 0 /\ Started(s, t).saved = 0
    BY StartedFields DEF Started
  <2>5. BeganAfter(s, t)
    BY <1>1, <1>4, <2>1, <2>4 DEF BeganAfter, Beginning
  <2>6. ProgressAfter(t)
    BY <1>4, <2>1, <2>4 DEF ProgressAfter
  <2>7. QED
    BY <2>2, <2>3, <2>5, <2>6 DEF Outcome
<1>7. QED
  BY <1>5, <1>6

LEMMA UpdateSongOutcome ==
  ASSUME Inv, NEW t \in Nat, NEW dt \in Nat, NEW s \in SongShown, NEW dressed,
         UpdateSong(s, dressed, t, dt)
  PROVE  Outcome(s, t)
<1> DEFINE c == FilledIn(cur, s)
           list == Relisted(entries, c)
<1>1. MemoryOK(entries, cur, resume, now) /\ now \in Nat /\ limit \in Nat
  BY InvFacts
<1>2. \/ SameSong(c, s) /\ SongGoesOn(c, list, s, dressed, t, dt)
      \/ \E ig : StaysOut(c, list, ig, t)
      \/ SongBegins(c, list, s, t)
  BY DEF UpdateSong
<1>3. c \in Play \cup {None}
  BY <1>1, FilledInFields DEF MemoryOK
<1>4. c = FilledIn(cur, s) /\ list = Relisted(entries, c)
  OBVIOUS
<1> HIDE DEF c, list
<1>5. CASE SameSong(c, s) /\ SongGoesOn(c, list, s, dressed, t, dt)
  BY <1>1, <1>3, <1>4, <1>5, GoesOnOutcome DEF SameSong
<1>6. CASE \E ig : StaysOut(c, list, ig, t)
  BY <1>1, <1>4, <1>6, StaysOutOutcome
<1>7. CASE SongBegins(c, list, s, t)
  BY <1>1, <1>4, <1>7, BeginsOutcome
<1>8. QED
  BY <1>2, <1>5, <1>6, <1>7

(* A poll that shows a song, with the history on.                          *)
LEMMA SongPollOutcome ==
  ASSUME Inv, NEW dt \in 1 .. MaxStep, SongPoll(dt), enabled
  PROVE  \E s \in SongShown : Outcome(s, now + dt)
<1>1. PICK s \in SongShown : Update(s, now + dt, dt)
  BY SongPollShows
<1>2. PICK dressed \in Dressed : UpdateSong(s, dressed, now + dt, dt)
  BY <1>1 DEF Update
<1>3. now + dt \in Nat /\ dt \in Nat
  BY PollFacts DEF SongPoll
<1>4. QED
  BY <1>2, <1>3, UpdateSongOutcome

-----------------------------------------------------------------------------
(* The window.                                                             *)

(* What the window shows tells lists and plays apart by no more.           *)
LEMMA SnapshotSame ==
  ASSUME NEW on, NEW n \in Nat, NEW a \in Seq(Entry), NEW b \in Seq(Entry),
         NEW c \in Play \cup {None}, NEW d \in Play \cup {None}, Alike(a, b), ShownAlike(c, d)
  PROVE  Snapshot(on, n, a, c) = Snapshot(on, n, b, d)
<1>1. CASE ~on
  BY <1>1 DEF Snapshot
<1>2. CASE on
  <2> DEFINE more == c # None /\ ~c.counted
             allA == IF more THEN <<c.entry>> \o a ELSE a
             allB == IF more THEN <<d.entry>> \o b ELSE b
             rowsA == Trimmed(allA, n)
             rowsB == Trimmed(allB, n)
  <2>1. /\ c = None <=> d = None
        /\ c # None => Line(c.entry) = Line(d.entry) /\ c.counted = d.counted /\ c.shown = d.shown
        /\ Len(a) = Len(b) /\ \A i \in 1 .. Len(a) : Line(a[i]) = Line(b[i])
    BY DEF Alike, ShownAlike
  <2>2. more <=> d # None /\ ~d.counted
    BY <2>1
  <2>3. /\ allA \in Seq(Entry) /\ allB \in Seq(Entry) /\ Len(allA) = Len(allB)
        /\ \A i \in 1 .. Len(allA) : Line(allA[i]) = Line(allB[i])
    <3>1. CASE more
      <4> DEFINE e == c.entry
                 f == d.entry
                 longA == <<e>> \o a
                 longB == <<f>> \o b
      <4>1. e \in Entry /\ f \in Entry /\ Line(e) = Line(f)
        BY <2>1, <3>1 DEF Play
      <4> HIDE DEF e, f
      <4>2. /\ longA \in Seq(Entry) /\ Len(longA) = Len(a) + 1 /\ longA[1] = e
            /\ \A i \in 2 .. Len(a) + 1 : longA[i] = a[i - 1]
        BY <4>1, ListedRows
      <4>3. /\ longB \in Seq(Entry) /\ Len(longB) = Len(b) + 1 /\ longB[1] = f
            /\ \A i \in 2 .. Len(b) + 1 : longB[i] = b[i - 1]
        BY <4>1, ListedRows
      <4>4. allA = longA /\ allB = longB
        BY <3>1 DEF e, f
      <4> HIDE DEF longA, longB, allA, allB
      <4>5. ASSUME NEW i \in 1 .. Len(longA)
            PROVE  Line(longA[i]) = Line(longB[i])
        <5>1. CASE i = 1
          BY <4>1, <4>2, <4>3, <5>1
        <5>2. CASE i # 1
          <6>1. i \in 2 .. Len(a) + 1 /\ i - 1 \in 1 .. Len(a)
            BY <4>2, <5>2
          <6>2. QED
            BY <2>1, <4>2, <4>3, <6>1
        <5>3. QED
          BY <5>1, <5>2
      <4>6. QED
        BY <2>1, <4>2, <4>3, <4>4, <4>5
    <3>2. CASE ~more
      BY <2>1, <3>2
    <3>3. QED
      BY <3>1, <3>2
  <2>4. /\ Snapshot(on, n, a, c)
             = [on |-> TRUE, lines |-> [i \in 1 .. Len(rowsA) |-> Line(rowsA[i])],
                nowPlaying |-> c # None, playing |-> c # None /\ c.shown]
        /\ Snapshot(on, n, b, d)
             = [on |-> TRUE, lines |-> [i \in 1 .. Len(rowsB) |-> Line(rowsB[i])],
                nowPlaying |-> d # None, playing |-> d # None /\ d.shown]
    <3>1. (IF c # None /\ ~c.counted THEN <<c.entry>> \o a ELSE a) = allA
      OBVIOUS
    <3>2. (IF d # None /\ ~d.counted THEN <<d.entry>> \o b ELSE b) = allB
      BY <2>2
    <3> HIDE DEF more, allA, allB
    <3>3. QED
      BY <1>2, <3>1, <3>2 DEF Snapshot
  <2> HIDE DEF more, allA, allB
  <2>5. /\ Len(rowsA) = Len(rowsB) /\ Len(rowsA) \in Nat
        /\ \A i \in 1 .. Len(rowsA) : Line(rowsA[i]) = Line(rowsB[i])
    <3>1. /\ Len(rowsA) = IF Len(allA) < n THEN Len(allA) ELSE n
          /\ \A i \in 1 .. Len(rowsA) : i \in 1 .. Len(allA) /\ rowsA[i] = allA[i]
      BY <2>3, TrimmedRows
    <3>2. /\ Len(rowsB) = IF Len(allB) < n THEN Len(allB) ELSE n
          /\ \A i \in 1 .. Len(rowsB) : i \in 1 .. Len(allB) /\ rowsB[i] = allB[i]
      BY <2>3, TrimmedRows
    <3>3. Len(rowsA) = Len(rowsB) /\ Len(rowsA) \in Nat
      BY <2>3, <3>1, <3>2
    <3> HIDE DEF rowsA, rowsB
    <3>4. QED
      BY <2>3, <3>1, <3>2, <3>3
  <2> HIDE DEF rowsA, rowsB
  <2>6. [i \in 1 .. Len(rowsA) |-> Line(rowsA[i])] = [i \in 1 .. Len(rowsB) |-> Line(rowsB[i])]
    BY <2>5
  <2>7. (c # None) = (d # None) /\ (c # None /\ c.shown) = (d # None /\ d.shown)
    BY <2>1
  <2>8. QED
    BY <2>4, <2>6, <2>7
<1>3. QED
  BY <1>1, <1>2

LEMMA ShownAsKept ==
  ASSUME NEW c \in Play \cup {None}, NEW d \in {c, Kept(c)}
  PROVE  ShownAlike(d, c)
  BY KeptFields DEF ShownAlike

LEMMA EmitShows ==
  ASSUME Emit(TRUE)
  PROVE  WindowIsCurrent'
  BY DEF Emit, WindowIsCurrent

LEMMA WindowKept == Inv /\ WindowIsCurrent /\ [Next]_vars => WindowIsCurrent'
<1> SUFFICES ASSUME Inv, WindowIsCurrent, [Next]_vars PROVE WindowIsCurrent'
  OBVIOUS
<1> USE DEF memory, disk, ghosts
<1>0. /\ Inv' /\ entries \in Seq(Entry) /\ cur \in Play \cup {None} /\ limit \in Nat
      /\ entries' \in Seq(Entry) /\ cur' \in Play \cup {None}
  <2>1. Inv'
    BY InvKept
  <2>2. MemoryOK(entries', cur', resume', now')
    BY <2>1, InvParts
  <2>3. QED
    BY <2>1, <2>2, InvFacts DEF MemoryOK
<1>1. CASE UNCHANGED <<up, enabled, limit, entries, cur, window>>
  BY <1>1 DEF WindowIsCurrent
<1>2. CASE /\ UNCHANGED <<up, enabled, limit>>
           /\ window' = window /\ Alike(entries', entries) /\ ShownAlike(cur', cur)
  <2>1. Snapshot(enabled, limit, entries', cur') = Snapshot(enabled, limit, entries, cur)
    BY <1>0, <1>2, SnapshotSame
  <2>2. QED
    BY <1>2, <2>1 DEF WindowIsCurrent
<1>3. ASSUME NEW dt \in 1 .. MaxStep, SongPoll(dt) PROVE WindowIsCurrent'
  <2>1. UNCHANGED <<up, enabled, limit>>
    BY <1>3 DEF SongPoll, Poll
  <2>2. CASE enabled
    <3>1. WindowAfter
      BY <1>3, <2>2, SongPollOutcome DEF Outcome
    <3>2. CASE window' = Snapshot(enabled', limit', entries', cur')
      BY <3>2 DEF WindowIsCurrent
    <3>3. QED
      BY <1>2, <2>1, <3>1, <3>2 DEF WindowAfter
  <2>3. CASE ~enabled
    <3>1. PICK s \in SongShown : Update(s, now + dt, dt)
      BY <1>3, SongPollShows
    <3>2. UNCHANGED <<entries, cur, window>>
      BY <2>3, <3>1 DEF Update
    <3>3. QED
      BY <1>1, <2>1, <3>2
  <2>4. QED
    BY <2>2, <2>3
<1>4. ASSUME NEW dt \in 1 .. MaxStep, NothingPoll(dt) PROVE WindowIsCurrent'
  <2>1. UNCHANGED <<up, enabled, limit>>
    BY <1>4 DEF NothingPoll, Poll
  <2>2. CASE UNCHANGED <<entries, cur, window>>
    BY <1>1, <2>1, <2>2
  <2>3. CASE enabled
    <3>1. UpdateNothing(now + dt)
      BY <1>4, <2>3 DEF NothingPoll
    <3>2. CASE (cur # None \/ ignore # None) /\ ~WithinGrace(now + dt)
      <4>1. cur' = None /\ entries' = entries /\ Emit(cur # None)
        BY <3>1, <3>2 DEF UpdateNothing
      <4>2. CASE cur # None
        BY <4>1, <4>2 DEF Emit, WindowIsCurrent
      <4>3. CASE cur = None
        BY <2>2, <4>1, <4>3 DEF Emit
      <4>4. QED
        BY <4>2, <4>3
    <3>3. CASE ~((cur # None \/ ignore # None) /\ ~WithinGrace(now + dt))
      <4>1. UNCHANGED <<entries, cur, window>>
        BY <3>1, <3>3 DEF UpdateNothing
      <4>2. QED
        BY <2>2, <4>1
    <3>4. QED
      BY <3>2, <3>3
  <2>4. CASE ~enabled
    BY <1>4, <2>2, <2>4 DEF NothingPoll
  <2>5. QED
    BY <2>3, <2>4
<1>5. ASSUME NEW song \in Songs, MarkScrobbled(song) PROVE WindowIsCurrent'
  BY <1>5, EmitShows DEF MarkScrobbled
<1>6. ASSUME NEW k \in 1 .. Len(window.lines), Remove(window.lines[k]) PROVE WindowIsCurrent'
  <2> DEFINE line == window.lines[k]
             taken == cur # None /\ SamePlay(cur.entry, line)
             c == IF taken THEN None ELSE cur
             r == ForgetTheSaved(line)
  <2>1. PICK list : Removing(line, taken, c, r, list)
    BY <1>6 DEF Remove, Removing
  <2> HIDE DEF r, line
  <2>2. UNCHANGED <<up, enabled, limit>> /\ entries' = list /\ Emit(taken \/ list # entries)
    BY <2>1 DEF Removing, Event
  <2>3. CASE taken \/ list # entries
    BY <2>2, <2>3 DEF Emit, WindowIsCurrent
  <2>4. CASE ~(taken \/ list # entries)
    <3>1. cur' \in {cur, Kept(cur)}
      BY <2>1, <2>4 DEF Removing
    <3>2. ShownAlike(cur', cur)
      BY <1>0, <3>1, ShownAsKept
    <3>3. Alike(entries', entries) /\ window' = window
      BY <2>2, <2>4 DEF Alike, Emit
    <3>4. QED
      BY <1>2, <2>2, <3>2, <3>3
  <2>5. QED
    BY <2>3, <2>4
<1>7. CASE Clear
  BY <1>7, EmitShows DEF Clear
<1>8. ASSUME NEW c \in [on : BOOLEAN, limit : Limits], Configure(c) PROVE WindowIsCurrent'
  BY <1>1, <1>8 DEF Configure, Event
<1>9. CASE Reconfigure
  <2>1. CASE SwitchedOff
    <3>1. /\ enabled' = FALSE /\ Emit(enabled) /\ up /\ up' = up
      BY <1>9, <2>1 DEF SwitchedOff, Reconfigure
    <3>2. CASE enabled
      BY <3>1, <3>2 DEF Emit, WindowIsCurrent
    <3>3. CASE ~enabled
      <4>1. window' = Snapshot(enabled, limit, entries, cur)
        BY <3>1, <3>3 DEF Emit, WindowIsCurrent
      <4>2. Snapshot(enabled, limit, entries, cur) = Snapshot(FALSE, limit', entries', cur')
        BY <3>3 DEF Snapshot
      <4>3. QED
        BY <3>1, <4>1, <4>2 DEF WindowIsCurrent
    <3>4. QED
      BY <3>2, <3>3
  <2>2. CASE SwitchedOn
    BY <2>2, EmitShows DEF SwitchedOn
  <2>3. CASE Limited
    BY <2>3, EmitShows DEF Limited
  <2>4. QED
    BY <1>9, <2>1, <2>2, <2>3 DEF Reconfigure
<1>10. CASE Shutdown
  BY <1>10 DEF Shutdown, Forget, WindowIsCurrent
<1>11. CASE Crash
  BY <1>11 DEF Crash, Forget, WindowIsCurrent
<1>12. CASE Start
  BY <1>12, EmitShows DEF Start
<1>13. CASE UNCHANGED vars
  BY <1>1, <1>13 DEF vars
<1>14. QED
  BY <1>3, <1>4, <1>5, <1>6, <1>7, <1>8, <1>9, <1>10, <1>11, <1>12, <1>13 DEF Next

(* The window shows what there is: no poll, request or change of the       *)
(* settings changes a line of it and returns that nothing did.             *)
THEOREM TheWindowIsCurrent == Spec => []WindowIsCurrent
<1>1. Init => WindowIsCurrent
  BY DEF Init, WindowIsCurrent
<1>2. QED
  BY <1>1, InvHolds, WindowKept, PTL DEF Spec

-----------------------------------------------------------------------------
(* The file, where writes do not fail.                                     *)

(* What the file has of a play.                                            *)
Known(f, e) ==
  IF f # None /\ f.current # None /\ SamePlay(f.current.entry, e) THEN f.current.played ELSE 0

(* The file has the list as the window would show it, and of the song on   *)
(* right now, or the saved one, what was heard when it was last written.   *)
SongStored(f, c, r) ==
  /\ c # None => Known(f, c.entry) = c.saved /\ c.played - c.saved < SaveEvery
  /\ r # None => Known(f, r.entry) = r.played

StoredOK(f, list, c, r) ==
  /\ f # Damaged /\ Alike(list, LoadedRows(f))
  /\ SongStored(f, c, r)

StoredInv ==
  up /\ enabled /\ ~world.writesMayFail => StoredOK(file, entries, cur, resume)

LEMMA AlikeItself ==
  ASSUME NEW a
  PROVE  Alike(a, a)
  BY DEF Alike

LEMMA KnownBeginning ==
  ASSUME NEW f, NEW e, NEW g, Beginning(e) = Beginning(g)
  PROVE  Known(f, e) = Known(f, g)
  BY DEF Known, SamePlay, Beginning

LEMMA SavedRows ==
  ASSUME NEW list \in Seq(Entry), NEW c \in Play \cup {None}, NEW r \in Record \cup {None},
         NEW t \in Nat, Save(list, c, r, t), ~world.writesMayFail
  PROVE  /\ file' # Damaged /\ LoadedRows(file') = list
         /\ c # None => Known(file', c.entry) = c.played
         /\ c = None /\ r # None => Known(file', r.entry) = r.played
         /\ c = None /\ r = None => \A e : Known(file', e) = 0
<1>1. /\ file' \notin {None, Damaged} /\ file'.entries = list
      /\ file'.current = IF c # None THEN RecordOf(c, t) ELSE r
  BY SaveLeaves, ZenonT(60)
<1>2. c # None => RecordOf(c, t) # None /\ RecordOf(c, t).entry = c.entry
                  /\ RecordOf(c, t).played = c.played
  BY RecordFields
<1>3. QED
  BY <1>1, <1>2 DEF LoadedRows, Known, SamePlay

(* The play is written as it goes on.                                      *)
LEMMA SavedIsStored ==
  ASSUME NEW list \in Seq(Entry), NEW c \in Play \cup {None}, NEW r \in Record \cup {None},
         NEW t \in Nat, Save(list, c, r, t), ~world.writesMayFail, c = None \/ r = None
  PROVE  StoredOK(file', list, Kept(c), r)
<1>1. /\ file' # Damaged /\ LoadedRows(file') = list
      /\ c # None => Known(file', c.entry) = c.played
      /\ c = None /\ r # None => Known(file', r.entry) = r.played
  BY SavedRows
<1>2. Kept(c) # None => /\ c # None /\ c.played \in Nat /\ Kept(c).entry = c.entry
                        /\ Kept(c).played = c.played /\ Kept(c).saved = c.played
  BY KeptFields DEF Play
<1>3. Kept(c) # None => Kept(c).played - Kept(c).saved < SaveEvery
  BY <1>2, Constants
<1>4. r # None => Known(file', r.entry) = r.played
  BY <1>1
<1>5. QED
  BY <1>1, <1>2, <1>3, <1>4, AlikeItself DEF StoredOK, SongStored

LEMMA KeptTwice ==
  ASSUME NEW c \in Play \cup {None}
  PROVE  Kept(Kept(c)) = Kept(c)
  BY NoneIsNoEntry DEF Kept, Play

LEMMA LoadedIsStored ==
  ASSUME NEW n \in Nat, FileOK(file, n), NEW k \in Nat, now \in Nat, Load(k),
         ~world.writesMayFail
  PROVE  StoredOK(file', entries', None, resume')
<1> DEFINE all == LoadedRows(file)
           list == Trimmed(all, k)
           song == LoadedSong(file)
<1>1. /\ all \in Seq(Entry) /\ song \in Record \cup {None}
      /\ song # None =>
           /\ file \notin {None, Damaged} /\ file.current # None
           /\ song.entry.started = file.current.entry.started
           /\ song.entry.song = file.current.entry.song
           /\ song.played = file.current.played
  BY LoadedSongFields
<1>2. song # None => Known(file, song.entry) = song.played
  BY <1>1 DEF Known, SamePlay
<1>3. list \in Seq(Entry)
  BY <1>1, TrimmedRows
<1>4. entries' = list /\ resume' = song
  BY DEF Load
<1>5. CASE file = Damaged
  <2>1. file' = None
    BY <1>5 DEF Load
  <2>2. all = <<>> /\ song = None
    BY <1>5 DEF LoadedRows, LoadedSong
  <2>3. list = <<>>
    <3> HIDE DEF all
    <3>1. Len(list) = IF Len(all) < k THEN Len(all) ELSE k
      BY <1>1, TrimmedRows
    <3>2. Len(list) = 0
      BY <2>2, <3>1
    <3> HIDE DEF list
    <3>3. QED
      BY <1>3, <3>2
  <2>4. LoadedRows(file') = <<>> /\ file' # Damaged
    <3>1. None # Damaged
      BY NoneIsNoEntry
    <3>2. QED
      BY <2>1, <3>1 DEF LoadedRows
  <2> HIDE DEF all, song, list
  <2>5. QED
    BY <1>4, <2>2, <2>3, <2>4, AlikeItself DEF StoredOK, SongStored
<1>6. CASE file # Damaged /\ list # all
  <2>1. Save(list, None, song, now)
    BY <1>6 DEF Load
  <2> HIDE DEF all, song, list
  <2>2. StoredOK(file', list, Kept(None), song)
    BY <1>1, <1>3, <2>1, SavedIsStored
  <2>3. QED
    BY <1>4, <2>2 DEF Kept
<1>7. CASE file # Damaged /\ list = all
  <2>1. UNCHANGED file
    BY <1>7 DEF Load, disk
  <2>2. Alike(list, all)
    BY <1>7, AlikeItself
  <2>3. Alike(list, LoadedRows(file'))
    BY <2>1, <2>2
  <2> HIDE DEF all, song, list
  <2>4. QED
    BY <1>2, <1>4, <1>7, <2>1, <2>3 DEF StoredOK, SongStored
<1>8. QED
  BY <1>5, <1>6, <1>7

(* A poll that shows a song.                                               *)
LEMMA PollIsStored ==
  ASSUME Inv, Inv', StoredInv, up, enabled, ~world.writesMayFail,
         NEW t \in Nat, t > now, NEW s \in SongShown, Outcome(s, t)
  PROVE  StoredOK(file', entries', cur', resume')
<1>1. /\ entries \in Seq(Entry) /\ cur \in Play \cup {None} /\ resume \in Record \cup {None}
      /\ FileOK(file, now) /\ now \in Nat
      /\ StoredOK(file, entries, cur, resume)
  BY InvFacts DEF StoredInv
<1>2. /\ entries' \in Seq(Entry) /\ cur' \in Play \cup {None} /\ resume' \in Record \cup {None}
      /\ cur' = None \/ resume' = None
  BY InvParts DEF MemoryOK
<1>3. FileAfter(t) /\ BeganAfter(s, t) /\ ProgressAfter(t)
  BY DEF Outcome
<1>4. file' # Damaged /\ Alike(entries', LoadedRows(file'))
  <2>1. CASE UNCHANGED disk /\ Alike(entries', entries)
    <3>1. file' = file /\ file # Damaged /\ Alike(entries, LoadedRows(file))
      BY <1>1, <2>1 DEF disk, StoredOK
    <3>2. Alike(entries', LoadedRows(file))
      BY <2>1, <3>1, AlikeTwice
    <3>3. QED
      BY <3>1, <3>2
  <2>2. CASE \E k \in {None, cur'} : Save(entries', k, resume', t)
    <3>1. PICK k \in {None, cur'} : Save(entries', k, resume', t)
      BY <2>2
    <3>2. file' # Damaged /\ LoadedRows(file') = entries'
      BY <1>2, <3>1, SavedRows
    <3>3. QED
      BY <3>2, AlikeItself
  <2>3. QED
    BY <1>3, <2>1, <2>2 DEF FileAfter
<1>5. ASSUME cur' # None
      PROVE  Known(file', cur'.entry) = cur'.saved /\ cur'.played - cur'.saved < SaveEvery
  <2>0. cur' \in Play /\ cur'.saved \in Nat /\ cur'.played \in Nat
    BY <1>2, <1>5 DEF Play
  <2>1. CASE /\ cur # None /\ Beginning(cur'.entry) = Beginning(cur.entry)
             /\ cur'.saved = cur.saved /\ cur'.played - cur'.saved < SaveEvery /\ UNCHANGED disk
    BY <1>1, <2>1, KnownBeginning DEF StoredOK, SongStored, disk
  <2>2. CASE cur'.saved = cur'.played /\ Save(entries', cur', resume', t)
    <3>1. Known(file', cur'.entry) = cur'.played
      BY <1>2, <1>5, <2>2, SavedRows
    <3>2. QED
      BY <2>0, <2>2, <3>1, Constants
  <2>3. CASE /\ resume # None /\ Beginning(cur'.entry) = Beginning(resume.entry)
             /\ cur'.played = resume.played /\ cur'.saved = resume.played /\ UNCHANGED disk
    <3>1. Known(file', cur'.entry) = resume.played
      BY <1>1, <2>3, KnownBeginning DEF StoredOK, SongStored, disk
    <3>2. QED
      BY <2>0, <2>3, <3>1, Constants
  <2>4. CASE /\ cur'.played = 0 /\ cur'.saved = 0 /\ cur'.entry.started = t /\ resume' = None
             /\ UNCHANGED disk \/ Save(entries', None, None, t)
    <3>1. Known(file', cur'.entry) = 0
      <4>1. CASE UNCHANGED disk
        <5>1. file' = file /\ file # Damaged
          BY <1>1, <4>1 DEF disk, StoredOK
        <5>2. file # None /\ file.current # None =>
                file.current.entry.started <= now /\ file.current.entry.started \in Nat
          BY <1>1, <5>1 DEF FileOK, File, Record, Entry
        <5>3. QED
          BY <1>1, <2>4, <5>1, <5>2 DEF Known, SamePlay
      <4>2. CASE Save(entries', None, None, t)
        BY <1>2, <4>2, SavedRows
      <4>3. QED
        BY <2>4, <4>1, <4>2
    <3>2. QED
      BY <2>0, <2>4, <3>1, Constants
  <2>5. QED
    BY <1>3, <1>5, <2>1, <2>2, <2>3, <2>4 DEF ProgressAfter
<1>6. ASSUME resume' # None
      PROVE  Known(file', resume'.entry) = resume'.played
  <2>1. CASE UNCHANGED disk
    <3>1. resume' = resume
      BY <1>3, <1>6 DEF BeganAfter
    <3>2. QED
      BY <1>1, <1>6, <2>1, <3>1 DEF StoredOK, SongStored, disk
  <2>2. CASE cur' = None /\ Save(entries', None, resume', t)
    BY <1>2, <1>6, <2>2, SavedRows
  <2>3. QED
    BY <1>3, <1>6, <2>1, <2>2 DEF ProgressAfter
<1>7. QED
  BY <1>4, <1>5, <1>6 DEF StoredOK, SongStored

LEMMA StoredKept == Inv /\ StoredInv /\ [Next]_vars => StoredInv'
<1> SUFFICES ASSUME Inv, StoredInv, [Next]_vars, up', enabled', ~world'.writesMayFail
             PROVE  StoredOK(file', entries', cur', resume')
  BY DEF StoredInv
<1> USE DEF memory, disk, ghosts
<1>0. /\ Inv' /\ entries \in Seq(Entry) /\ cur \in Play \cup {None} /\ resume \in Record \cup {None}
      /\ entries' \in Seq(Entry) /\ cur' \in Play \cup {None} /\ resume' \in Record \cup {None}
      /\ (cur = None \/ resume = None) /\ (cur' = None \/ resume' = None)
      /\ FileOK(file, now) /\ now \in Nat /\ config.limit \in Nat
      /\ ~enabled => entries = <<>> /\ cur = None /\ resume = None
      /\ enabled \in BOOLEAN
  <2>1. Inv'
    BY InvKept
  <2>2. MemoryOK(entries', cur', resume', now') /\ MemoryOK(entries, cur, resume, now)
    BY <2>1, InvParts
  <2>3. QED
    BY <2>1, <2>2, InvFacts DEF MemoryOK, RestOK
<1>1. CASE UNCHANGED <<world, up, enabled, entries, cur, resume, file>>
  BY <1>1 DEF StoredInv
<1>2. ASSUME NEW dt \in 1 .. MaxStep, SongPoll(dt) PROVE StoredOK(file', entries', cur', resume')
  <2>1. UNCHANGED <<world, up, enabled>> /\ now + dt \in Nat /\ now + dt > now
    BY <1>2, PollFacts DEF SongPoll
  <2>2. PICK s \in SongShown : Outcome(s, now + dt)
    BY <1>2, <2>1, SongPollOutcome
  <2>3. QED
    BY <1>0, <2>1, <2>2, PollIsStored
<1>3. ASSUME NEW dt \in 1 .. MaxStep, NothingPoll(dt)
      PROVE  StoredOK(file', entries', cur', resume')
  <2>1. UNCHANGED <<world, up, enabled>> /\ now + dt \in Nat
    BY <1>3, PollFacts DEF NothingPoll
  <2>2. UpdateNothing(now + dt) /\ StoredOK(file, entries, cur, resume)
    BY <1>3, <2>1 DEF NothingPoll, StoredInv
  <2>3. /\ UNCHANGED <<entries, resume>> /\ cur' \in {cur, None}
        /\ \/ UNCHANGED disk
           \/ cur' = None /\ Save(entries, None, resume, now + dt)
    <3>1. CASE (cur # None \/ ignore # None) /\ ~WithinGrace(now + dt)
      BY <2>2, <3>1 DEF UpdateNothing
    <3>2. CASE ~((cur # None \/ ignore # None) /\ ~WithinGrace(now + dt))
      BY <2>2, <3>2 DEF UpdateNothing
    <3>3. QED
      BY <3>1, <3>2
  <2>4. CASE UNCHANGED disk
    BY <2>2, <2>3, <2>4 DEF StoredOK, SongStored
  <2>5. CASE cur' = None /\ Save(entries, None, resume, now + dt)
    <3>1. StoredOK(file', entries, Kept(None), resume)
      BY <1>0, <2>1, <2>5, SavedIsStored
    <3>2. QED
      BY <2>3, <2>5, <3>1 DEF Kept
  <2>6. QED
    BY <2>3, <2>4, <2>5
<1>4. ASSUME NEW song \in Songs, MarkScrobbled(song)
      PROVE  StoredOK(file', entries', cur', resume')
  <2>1. PICK i \in 1 .. Len(entries) :
          /\ Event /\ entries' = Marked(entries, i) /\ cur' = MarkedPlay(i)
          /\ Save(Marked(entries, i), cur', resume', now)
    BY <1>4 DEF MarkScrobbled, Marked, MarkedPlay
  <2>2. world' = world
    BY <2>1 DEF Event
  <2>3. StoredOK(file', entries', Kept(cur'), resume')
    BY <1>0, <2>1, <2>2, SavedIsStored
  <2>4. cur' # None => cur'.saved = cur.played /\ cur'.played = cur.played
    BY <1>0, <2>1, MarkedPlayFields
  <2>5. Kept(cur') = cur'
    BY <1>0, <2>4 DEF Kept, Play
  <2>6. QED
    BY <2>3, <2>5
<1>5. ASSUME NEW k \in 1 .. Len(window.lines), Remove(window.lines[k])
      PROVE  StoredOK(file', entries', cur', resume')
  <2> DEFINE line == window.lines[k]
             taken == cur # None /\ SamePlay(cur.entry, line)
             c == IF taken THEN None ELSE cur
             r == ForgetTheSaved(line)
  <2>1. PICK list : Removing(line, taken, c, r, list)
    BY <1>5 DEF Remove, Removing
  <2>2. r \in {resume, None} /\ c \in {cur, None}
    BY DEF ForgetTheSaved
  <2> HIDE DEF r, line
  <2>3. /\ UNCHANGED <<world, up>> /\ enabled /\ entries' = list /\ resume' = r
        /\ IF Changed(taken, list) THEN cur' = Kept(c) /\ Save(list, c, r, now)
                                   ELSE cur' = c /\ UNCHANGED disk
    BY <2>1 DEF Removing, Event
  <2>4. CASE Changed(taken, list)
    <3>1. cur' = Kept(c) /\ Save(list, c, r, now)
      BY <2>3, <2>4
    <3> HIDE DEF c
    <3>2. c \in Play \cup {None} /\ (c = None \/ r = None) /\ r \in Record \cup {None}
      BY <1>0, <2>2
    <3>3. StoredOK(file', list, Kept(c), r)
      BY <1>0, <2>3, <3>1, <3>2, SavedIsStored
    <3>4. QED
      BY <2>3, <3>1, <3>3
  <2>5. CASE ~Changed(taken, list)
    <3>1. ~taken /\ list = entries
      BY <2>5 DEF Changed
    <3>2. cur' = cur /\ file' = file
      BY <2>3, <2>5, <3>1
    <3>3. StoredOK(file, entries, cur, resume)
      BY <2>3 DEF StoredInv
    <3>4. QED
      BY <2>2, <2>3, <3>1, <3>2, <3>3 DEF StoredOK, SongStored
  <2>6. QED
    BY <2>4, <2>5
<1>6. CASE Clear
  <2>1. file' = None /\ entries' = <<>> /\ cur' = None /\ resume' = None
    BY <1>6 DEF Clear, Event, DeleteFile
  <2>2. LoadedRows(None) = <<>> /\ None # Damaged
    BY NoneIsNoEntry DEF LoadedRows
  <2>3. QED
    BY <2>1, <2>2, AlikeItself DEF StoredOK, SongStored
<1>7. ASSUME NEW c \in [on : BOOLEAN, limit : Limits], Configure(c)
      PROVE  StoredOK(file', entries', cur', resume')
  BY <1>1, <1>7 DEF Configure, Event
<1>8. CASE Reconfigure
  <2>0. UNCHANGED <<world, up>>
    BY <1>8 DEF Reconfigure
  <2>1. CASE SwitchedOff
    BY <2>1 DEF SwitchedOff
  <2>2. CASE SwitchedOn
    <3> DEFINE k == IF limit # config.limit THEN config.limit ELSE Len(LoadedRows(file))
    <3>1. Load(k) /\ cur' = None
      BY <1>0, <2>2 DEF SwitchedOn
    <3>2. k \in Nat
      <4>1. LoadedRows(file) \in Seq(Entry)
        BY <1>0, LoadedSongFields
      <4>2. QED
        BY <1>0, <4>1
    <3> HIDE DEF k
    <3>3. QED
      BY <1>0, <2>0, <3>1, <3>2, LoadedIsStored
  <2>3. CASE Limited
    <3> DEFINE list == Trimmed(entries, config.limit)
    <3>1. /\ enabled /\ entries' = list /\ resume' = resume
          /\ IF list # entries THEN cur' = Kept(cur) /\ Save(list, cur, resume, now)
                               ELSE UNCHANGED <<cur, disk>>
      BY <2>3 DEF Limited, LimitSaved
    <3> HIDE DEF list
    <3>2. CASE list # entries
      <4>1. StoredOK(file', list, Kept(cur), resume)
        BY <1>0, <2>0, <3>1, <3>2, SavedIsStored
      <4>2. QED
        BY <3>1, <3>2, <4>1
    <3>3. CASE list = entries
      BY <1>1, <2>0, <3>1, <3>3 DEF StoredInv
    <3>4. QED
      BY <3>2, <3>3
  <2>4. QED
    BY <1>8, <2>1, <2>2, <2>3 DEF Reconfigure
<1>9. CASE Shutdown
  BY <1>9 DEF Shutdown, Forget
<1>10. CASE Crash
  BY <1>10 DEF Crash, Forget
<1>11. CASE Start
  <2>1. ~up /\ world' = world /\ cur' = cur /\ enabled' = config.on
    BY <1>11 DEF Start
  <2>2. cur' = None
    BY <1>0, <2>1, InvFacts DEF RestOK
  <2>3. Load(config.limit)
    BY <1>11, <2>1 DEF Start
  <2>4. QED
    BY <1>0, <2>1, <2>2, <2>3, LoadedIsStored
<1>12. CASE UNCHANGED vars
  BY <1>1, <1>12 DEF vars
<1>13. QED
  BY <1>2, <1>3, <1>4, <1>5, <1>6, <1>7, <1>8, <1>9, <1>10, <1>11, <1>12 DEF Next

LEMMA StoredHolds == Spec => []StoredInv
<1>1. Init => StoredInv
  BY DEF Init, StoredInv
<1>2. QED
  BY <1>1, InvHolds, StoredKept, PTL DEF Spec

(* A crash loses no row: at every moment the file has the list, with every *)
(* mark and album.                                                         *)
THEOREM TheListIsStored == Spec => []WhatIsListedIsStored
<1>1. Inv /\ StoredInv => WhatIsListedIsStored
  <2> SUFFICES ASSUME Inv, StoredInv, up, enabled, ~world.writesMayFail
               PROVE  Lines(entries) = Lines(LoadedRows(file))
    BY DEF WhatIsListedIsStored
  <2>1. Alike(entries, LoadedRows(file))
    BY DEF StoredInv, StoredOK
  <2>2. QED
    BY <2>1 DEF Alike, Lines
<1>2. QED
  BY <1>1, InvHolds, StoredHolds, PTL

(* A crash costs less than SaveEvery of the play in progress, through every*)
(* save, load and song that is carried on.                                 *)
THEOREM TheProgressIsStored == Spec => []ProgressIsStored
<1>1. Inv /\ StoredInv => ProgressIsStored
  <2> SUFFICES ASSUME Inv, StoredInv, ~world.writesMayFail, cur # None
               PROVE  cur.played - Known(file, cur.entry) < SaveEvery
    BY DEF ProgressIsStored, Known
  <2>1. enabled /\ up
    BY InvFacts DEF RestOK
  <2>2. Known(file, cur.entry) = cur.saved /\ cur.played - cur.saved < SaveEvery
    BY <2>1 DEF StoredInv, StoredOK, SongStored
  <2>3. QED
    BY <2>2
<1>2. QED
  BY <1>1, InvHolds, StoredHolds, PTL

-----------------------------------------------------------------------------
(* What was forgotten, where writes do not fail.                           *)

FileBegan(f) == IF f \in {None, Damaged} THEN {} ELSE Began(f.entries, f.current, None)

AllBegan(list, c, r, f) == Began(list, c, r) \cup FileBegan(f)

(* No play began at the time of one that was taken out, or up to the time  *)
(* the list was cleared, and two that began at one time are one.           *)
Clean(B, k, R) ==
  \A b \in B : b[1] > k /\ b[1] \notin R /\ \A d \in B : d[1] = b[1] => d = b

CleanInv ==
  ~world.writesMayFail => Clean(AllBegan(entries, cur, resume, file), cut, removed)

LEMMA CleanLess ==
  ASSUME NEW B, NEW k, NEW R, Clean(B, k, R), NEW C, C \subseteq B
  PROVE  Clean(C, k, R)
  BY DEF Clean

LEMMA CleanNone ==
  ASSUME NEW k, NEW R
  PROVE  Clean({}, k, R)
  BY DEF Clean

LEMMA CleanMore ==
  ASSUME NEW n \in Nat, NEW t \in Nat, t > n, NEW song, NEW k \in Nat, k <= n,
         NEW R \in SUBSET Nat, \A m \in R : m <= n,
         NEW B, Clean(B, k, R), \A b \in B : b[1] \in Nat /\ b[1] <= n
  PROVE  Clean(B \cup {<<t, song>>}, k, R)
<1> DEFINE new == <<t, song>>
<1>1. new[1] = t
  OBVIOUS
<1> HIDE DEF new
<1>2. new[1] > k /\ new[1] \notin R /\ \A b \in B : b[1] # new[1]
  BY <1>1
<1>3. Clean(B \cup {new}, k, R)
  BY <1>2 DEF Clean
<1>4. QED
  BY <1>3 DEF new

LEMMA BeganRows ==
  ASSUME NEW list, NEW c, NEW r, NEW b \in Began(list, c, r)
  PROVE  \/ \E i \in 1 .. Len(list) : b = Beginning(list[i])
         \/ c # None /\ b = Beginning(c.entry)
         \/ r # None /\ b = Beginning(r.entry)
  BY DEF Began

LEMMA BeganUntil ==
  ASSUME NEW n \in Nat, NEW list, NEW c, NEW r, NEW f, MemoryOK(list, c, r, n), FileOK(f, n)
  PROVE  \A b \in AllBegan(list, c, r, f) : b[1] \in Nat /\ b[1] <= n
<1>1. ASSUME NEW l \in Seq(Entry), RowsUntil(l, n), NEW i \in 1 .. Len(l)
      PROVE  Beginning(l[i])[1] \in Nat /\ Beginning(l[i])[1] <= n
  <2>1. l[i].started \in Nat /\ l[i].started <= n
    BY <1>1, RowFields DEF RowsUntil
  <2>2. QED
    BY <2>1 DEF Beginning
<1>2. ASSUME NEW b \in Began(list, c, r)
      PROVE  b[1] \in Nat /\ b[1] <= n
  <2>1. list \in Seq(Entry) /\ RowsUntil(list, n)
    BY DEF MemoryOK
  <2>2. c # None => Beginning(c.entry)[1] \in Nat /\ Beginning(c.entry)[1] <= n
    BY DEF MemoryOK, Beginning, Play, Entry
  <2>3. r # None => Beginning(r.entry)[1] \in Nat /\ Beginning(r.entry)[1] <= n
    BY DEF MemoryOK, Beginning, Record, Entry
  <2>4. QED
    BY <1>1, <1>2, <2>1, <2>2, <2>3, BeganRows
<1>3. ASSUME NEW b \in FileBegan(f)
      PROVE  b[1] \in Nat /\ b[1] <= n
  <2>1. f \notin {None, Damaged} /\ b \in Began(f.entries, f.current, None)
    BY <1>3 DEF FileBegan
  <2>2. f.entries \in Seq(Entry) /\ f.current \in Record \cup {None} /\ RowsUntil(f.entries, n)
    BY <2>1 DEF FileOK, File
  <2>3. f.current # None =>
          Beginning(f.current.entry)[1] \in Nat /\ Beginning(f.current.entry)[1] <= n
    BY <2>1, <2>2 DEF FileOK, Beginning, Record, Entry
  <2>4. QED
    BY <1>1, <2>1, <2>2, <2>3, BeganRows
<1>4. QED
  BY <1>2, <1>3 DEF AllBegan

(* A save leaves in the file what began in memory, ...                     *)
LEMMA SavedBegan ==
  ASSUME NEW list \in Seq(Entry), NEW c \in Play \cup {None}, NEW r \in Record \cup {None},
         NEW t \in Nat, Save(list, c, r, t), ~world.writesMayFail
  PROVE  FileBegan(file') \subseteq Began(list, c, r)
<1>1. /\ file' \notin {None, Damaged} /\ file'.entries = list
      /\ file'.current = IF c # None THEN RecordOf(c, t) ELSE r
  BY SaveLeaves, ZenonT(60)
<1>2. c # None => RecordOf(c, t).entry = c.entry
  BY RecordFields
<1>3. SUFFICES ASSUME NEW b \in FileBegan(file')
               PROVE  b \in Began(list, c, r)
  OBVIOUS
<1>4. b \in Began(list, file'.current, None)
  BY <1>1, <1>3 DEF FileBegan
<1>5. \/ \E i \in 1 .. Len(list) : b = Beginning(list[i])
      \/ file'.current # None /\ b = Beginning(file'.current.entry)
  BY <1>4, BeganRows
<1>6. QED
  BY <1>1, <1>2, <1>5 DEF Began

(* ... and a load leaves in both what began in the file.                   *)
LEMMA LoadedBegan ==
  ASSUME NEW n \in Nat, FileOK(file, n), NEW k \in Nat, now \in Nat, Load(k),
         ~world.writesMayFail
  PROVE  AllBegan(entries', None, resume', file') \subseteq FileBegan(file)
<1> DEFINE all == LoadedRows(file)
           list == Trimmed(all, k)
           song == LoadedSong(file)
           B == FileBegan(file)
<1>1. /\ all \in Seq(Entry) /\ song \in Record \cup {None}
      /\ song # None =>
           /\ file \notin {None, Damaged} /\ file.current # None
           /\ song.entry.started = file.current.entry.started
           /\ song.entry.song = file.current.entry.song
  BY LoadedSongFields
<1>2. /\ list \in Seq(Entry)
      /\ \A i \in 1 .. Len(list) : i \in 1 .. Len(all) /\ list[i] = all[i]
  BY <1>1, TrimmedRows
<1>3. \A i \in 1 .. Len(all) : Beginning(all[i]) \in B
  <2>1. CASE file \in {None, Damaged}
    BY <2>1 DEF LoadedRows
  <2>2. CASE file \notin {None, Damaged}
    BY <2>2 DEF LoadedRows, FileBegan, Began
  <2>3. QED
    BY <2>1, <2>2
<1>4. song # None => Beginning(song.entry) \in B
  <2> SUFFICES ASSUME song # None PROVE Beginning(song.entry) \in B
    OBVIOUS
  <2>1. Beginning(song.entry) = Beginning(file.current.entry)
    BY <1>1 DEF Beginning
  <2> HIDE DEF song
  <2>2. QED
    BY <1>1, <2>1 DEF FileBegan, Began
<1>5. entries' = list /\ resume' = song
  BY DEF Load
<1>6. \/ file' = file
      \/ file' = None
      \/ Save(list, None, song, now)
  BY DEF Load, disk
<1> HIDE DEF all, list, song
<1>7. \A b \in Began(list, None, song) : b \in B
  BY <1>2, <1>3, <1>4, BeganRows
<1>8. FileBegan(file') \subseteq B
  <2>1. CASE Save(list, None, song, now)
    BY <1>1, <1>2, <1>7, <2>1, SavedBegan
  <2>2. CASE file' = None
    BY <2>2 DEF FileBegan
  <2>3. CASE file' = file
    BY <2>3
  <2>4. QED
    BY <1>6, <2>1, <2>2, <2>3
<1>9. QED
  BY <1>5, <1>7, <1>8 DEF AllBegan

(* What a poll that shows a song leaves began before, or with it.          *)
LEMMA PollBegan ==
  ASSUME Inv, Inv', ~world.writesMayFail, NEW t \in Nat, NEW s \in SongShown, Outcome(s, t)
  PROVE  AllBegan(entries', cur', resume', file')
           \subseteq AllBegan(entries, cur, resume, file) \cup {<<t, s.song>>}
<1> DEFINE B == Began(entries, cur, resume)
           C == B \cup {<<t, s.song>>}
<1>1. entries' \in Seq(Entry) /\ cur' \in Play \cup {None} /\ resume' \in Record \cup {None}
  BY InvParts DEF MemoryOK
<1>2. FileAfter(t) /\ BeganAfter(s, t)
  BY DEF Outcome
<1>3. /\ \A i \in 1 .. Len(entries') : Beginning(entries'[i]) \in B
      /\ cur' # None => Beginning(cur'.entry) \in C
      /\ resume' \in {resume, None}
  BY <1>2 DEF BeganAfter
<1>4. resume' # None => Beginning(resume'.entry) \in B
  BY <1>3 DEF Began
<1> HIDE DEF B
<1>5. ASSUME NEW k \in {None, cur'}, NEW b \in Began(entries', k, resume')
      PROVE  b \in C
  <2>1. \/ \E i \in 1 .. Len(entries') : b = Beginning(entries'[i])
        \/ k # None /\ b = Beginning(k.entry)
        \/ resume' # None /\ b = Beginning(resume'.entry)
    BY <1>5, BeganRows
  <2>2. QED
    BY <1>3, <1>4, <2>1
<1>6. FileBegan(file') \subseteq FileBegan(file) \cup C
  <2>1. CASE UNCHANGED disk
    BY <2>1 DEF disk
  <2>2. CASE \E k \in {None, cur'} : Save(entries', k, resume', t)
    <3>1. PICK k \in {None, cur'} : Save(entries', k, resume', t)
      BY <2>2
    <3>2. FileBegan(file') \subseteq Began(entries', k, resume')
      BY <1>1, <3>1, SavedBegan
    <3>3. QED
      BY <1>5, <3>2
  <2>3. QED
    BY <1>2, <2>1, <2>2 DEF FileAfter
<1>7. QED
  BY <1>5, <1>6 DEF AllBegan, B

LEMMA MarkedBeginnings ==
  ASSUME NEW list \in Seq(Entry), NEW i \in 1 .. Len(list)
  PROVE  /\ Len(Marked(list, i)) = Len(list)
         /\ \A j \in 1 .. Len(list) : Beginning(Marked(list, i)[j]) = Beginning(list[j])
<1> DEFINE marked == Marked(list, i)
<1>1. Len(marked) = Len(list)
  BY MarkedRows
<1>2. ASSUME NEW j \in 1 .. Len(list)
      PROVE  Beginning(marked[j]) = Beginning(list[j])
  <2>1. marked[j].song = list[j].song /\ marked[j].started = list[j].started
    BY MarkedFields
  <2> HIDE DEF marked
  <2>2. QED
    BY <2>1 DEF Beginning
<1>3. QED
  BY <1>1, <1>2

LEMMA MarkBegan ==
  ASSUME NEW n \in Nat, MemoryOK(entries, cur, resume, n), NEW i \in 1 .. Len(entries)
  PROVE  Began(Marked(entries, i), MarkedPlay(i), MarkedSong(i))
           \subseteq Began(entries, cur, resume)
<1> DEFINE marked == Marked(entries, i)
<1>1. /\ entries \in Seq(Entry) /\ cur \in Play \cup {None} /\ resume \in Record \cup {None}
  BY DEF MemoryOK
<1>2. /\ Len(marked) = Len(entries)
      /\ \A j \in 1 .. Len(entries) : Beginning(marked[j]) = Beginning(entries[j])
  BY <1>1, MarkedBeginnings
<1> DEFINE p == MarkedPlay(i)
           r == MarkedSong(i)
<1>3. p # None => cur # None /\ Beginning(p.entry) = Beginning(cur.entry)
  <2>1. (p # None => cur # None)
        /\ (p # None => p.entry = IF i = 1 /\ cur.counted
                                    THEN [cur.entry EXCEPT !.scrobbled = TRUE] ELSE cur.entry)
    BY <1>1, MarkedPlayFields
  <2>2. cur # None => cur.entry \in Entry
    BY <1>1 DEF Play
  <2> HIDE DEF p
  <2>3. QED
    BY <2>1, <2>2 DEF Beginning, Entry
<1>4. r # None => resume # None /\ Beginning(r.entry) = Beginning(resume.entry)
  <2>1. (r # None => resume # None)
        /\ (r # None => r.entry = IF i = 1 /\ resume.counted
                                    THEN [resume.entry EXCEPT !.scrobbled = TRUE] ELSE resume.entry)
    BY <1>1, MarkedSongFields
  <2>2. resume # None => resume.entry \in Entry
    BY <1>1 DEF Record
  <2> HIDE DEF r
  <2>3. QED
    BY <2>1, <2>2 DEF Beginning, Entry
<1> HIDE DEF marked, p, r
<1>5. ASSUME NEW b \in Began(marked, p, r) PROVE b \in Began(entries, cur, resume)
  <2>1. \/ \E j \in 1 .. Len(marked) : b = Beginning(marked[j])
        \/ p # None /\ b = Beginning(p.entry)
        \/ r # None /\ b = Beginning(r.entry)
    BY <1>5, BeganRows
  <2>2. QED
    BY <1>2, <1>3, <1>4, <2>1 DEF Began
<1>6. QED
  BY <1>5 DEF marked, p, r

(* A line of the window is a row, or the song on right now.                *)
LEMMA LinesAreRows ==
  ASSUME Inv, WindowIsCurrent, up, NEW k \in 1 .. Len(window.lines)
  PROVE  \/ \E i \in 1 .. Len(entries) : SamePlay(entries[i], window.lines[k])
         \/ cur # None /\ SamePlay(cur.entry, window.lines[k])
<1>1. /\ entries \in Seq(Entry) /\ cur \in Play \cup {None} /\ limit \in Nat /\ enabled \in BOOLEAN
  BY InvFacts DEF RestOK
<1>2. window = Snapshot(enabled, limit, entries, cur)
  BY DEF WindowIsCurrent
<1> DEFINE w == Snapshot(enabled, limit, entries, cur)
<1>3. k \in 1 .. Len(w.lines)
  BY <1>2
<1>4. \/ cur # None /\ w.lines[k] = Line(cur.entry)
      \/ \E j \in 1 .. Len(entries) : w.lines[k] = Line(entries[j])
  BY <1>1, <1>3, SnapshotLines
<1> HIDE DEF w
<1>5. CASE cur # None /\ w.lines[k] = Line(cur.entry)
  <2>1. cur.entry \in Entry
    BY <1>1, <1>5 DEF Play
  <2>2. QED
    BY <1>2, <1>5, <2>1, LineFields DEF SamePlay, w
<1>6. CASE \E j \in 1 .. Len(entries) : w.lines[k] = Line(entries[j])
  <2>1. PICK j \in 1 .. Len(entries) : w.lines[k] = Line(entries[j])
    BY <1>6
  <2>2. entries[j] \in Entry
    BY <1>1
  <2>3. QED
    BY <1>2, <2>1, <2>2, LineFields DEF SamePlay, w
<1>7. QED
  BY <1>4, <1>5, <1>6

LEMMA RemoveCleans ==
  ASSUME Inv, CleanInv, WindowIsCurrent, ~world.writesMayFail,
         NEW k \in 1 .. Len(window.lines), NEW line, line = window.lines[k], Remove(line)
  PROVE  Clean(AllBegan(entries', cur', resume', file'), cut', removed')
<1> DEFINE taken == cur # None /\ SamePlay(cur.entry, line)
           c == IF taken THEN None ELSE cur
           r == ForgetTheSaved(line)
           S == {i \in 1 .. Len(entries) : ~SamePlay(entries[i], line)}
           out1 == <<line.started, line.song>>
           B == Began(entries, cur, resume)
<1>1. PICK n \in 0 .. Len(entries) : \E f \in Listings(n, S) :
        Removing(line, taken, c, r, [i \in 1 .. n |-> entries[f[i]]])
  BY DEF Remove, Removing
<1>2. PICK f \in Listings(n, S) :
        Removing(line, taken, c, r, [i \in 1 .. n |-> entries[f[i]]])
  BY <1>1
<1> DEFINE list == [i \in 1 .. n |-> entries[f[i]]]
<1>3. /\ entries \in Seq(Entry) /\ cur \in Play \cup {None} /\ resume \in Record \cup {None}
      /\ now \in Nat
  BY InvFacts
<1>4. /\ list \in Seq(Entry) /\ Len(list) = n
      /\ \A i \in 1 .. n : /\ f[i] \in 1 .. Len(entries) /\ list[i] = entries[f[i]]
                           /\ ~SamePlay(list[i], line)
  <2>1. S \in SUBSET (1 .. Len(entries)) /\ n \in Nat
    BY <1>3
  <2>2. \A i \in S : i \in 1 .. Len(entries) /\ ~SamePlay(entries[i], line)
    OBVIOUS
  <2> HIDE DEF S
  <2>3. /\ list \in Seq(Entry) /\ Len(list) = n
        /\ \A i \in 1 .. n : f[i] \in S /\ list[i] = entries[f[i]]
    BY <1>3, <2>1, RowsThatStay
  <2> HIDE DEF list
  <2>4. QED
    BY <2>2, <2>3
<1>5. /\ up /\ entries' = list /\ resume' = r /\ cut' = cut
      /\ removed' = removed \cup {line.started}
      /\ IF Changed(taken, list) THEN cur' = Kept(c) /\ Save(list, c, r, now)
                                 ELSE cur' = c /\ UNCHANGED disk
  BY <1>2 DEF Removing, Event
<1>6. /\ c \in {cur, None} /\ (c # None => ~SamePlay(c.entry, line))
      /\ r \in {resume, None} /\ (r # None => ~SamePlay(r.entry, line))
  BY DEF ForgetTheSaved
<1> HIDE DEF list, c, r, S
<1>7. \/ \E i \in 1 .. Len(entries) : SamePlay(entries[i], line)
      \/ taken
  BY <1>5, LinesAreRows
<1>8. Changed(taken, list)
  <2>1. CASE taken
    BY <2>1 DEF Changed
  <2>2. CASE \E i \in 1 .. Len(entries) : SamePlay(entries[i], line)
    <3>1. list # entries
      BY <1>3, <1>4, <2>2
    <3>2. QED
      BY <3>1 DEF Changed
  <2>3. QED
    BY <1>7, <2>1, <2>2
<1>9. cur' = Kept(c) /\ Save(list, c, r, now)
  BY <1>5, <1>8
<1>10. c \in Play \cup {None} /\ r \in Record \cup {None}
  BY <1>3, <1>6
<1>11. Kept(c) # None => c # None /\ Kept(c).entry = c.entry
  BY <1>10, KeptFields
<1>12. FileBegan(file') \subseteq Began(list, c, r)
  BY <1>3, <1>4, <1>9, <1>10, SavedBegan
<1>13. Began(list, Kept(c), r) \subseteq Began(list, c, r)
  BY <1>11 DEF Began
<1>14. ASSUME NEW b \in Began(list, c, r)
       PROVE  b \in B /\ b # out1
  <2>1. \/ \E i \in 1 .. Len(list) : b = Beginning(list[i])
        \/ c # None /\ b = Beginning(c.entry)
        \/ r # None /\ b = Beginning(r.entry)
    BY <1>14, BeganRows
  <2>2. CASE \E i \in 1 .. Len(list) : b = Beginning(list[i])
    <3>1. PICK i \in 1 .. Len(list) : b = Beginning(list[i])
      BY <2>2
    <3>2. f[i] \in 1 .. Len(entries) /\ list[i] = entries[f[i]] /\ ~SamePlay(list[i], line)
      BY <1>4
    <3>3. QED
      BY <3>1, <3>2 DEF Began, SamePlay, Beginning
  <2>3. CASE c # None /\ b = Beginning(c.entry)
    BY <1>6, <2>3 DEF Began, SamePlay, Beginning
  <2>4. CASE r # None /\ b = Beginning(r.entry)
    BY <1>6, <2>4 DEF Began, SamePlay, Beginning
  <2>5. QED
    BY <2>1, <2>2, <2>3, <2>4
<1>15. out1 \in B
  <2>1. CASE \E i \in 1 .. Len(entries) : SamePlay(entries[i], line)
    BY <2>1 DEF Began, SamePlay, Beginning
  <2>2. CASE taken
    BY <2>2 DEF Began, SamePlay, Beginning
  <2>3. QED
    BY <1>7, <2>1, <2>2
<1>16. Clean(B, cut, removed)
  BY CleanLess DEF CleanInv, AllBegan
<1>17. AllBegan(entries', cur', resume', file') \subseteq Began(list, c, r)
  BY <1>5, <1>9, <1>12, <1>13 DEF AllBegan
<1>18. out1[1] = line.started
  OBVIOUS
<1> HIDE DEF out1, B
<1>19. Clean(Began(list, c, r), cut, removed \cup {line.started})
  BY <1>14, <1>15, <1>16, <1>18 DEF Clean
<1>20. QED
  BY <1>5, <1>17, <1>19, CleanLess

LEMMA NothingBegan ==
  ASSUME NEW f, f = None
  PROVE  AllBegan(<<>>, None, None, f) = {}
  BY DEF AllBegan, Began, FileBegan

(* Fewer rows, the same play or none, and the file as it was or saved.     *)
LEMMA FewerBegan ==
  ASSUME NEW list \in Seq(Entry), NEW c \in Play \cup {None}, NEW r \in Record \cup {None},
         NEW t \in Nat, ~world.writesMayFail,
         Began(list, c, r) \subseteq Began(entries, cur, resume),
         Save(list, c, r, t) \/ file' = file
  PROVE  /\ AllBegan(list, c, r, file') \subseteq AllBegan(entries, cur, resume, file)
         /\ AllBegan(list, Kept(c), r, file') \subseteq AllBegan(entries, cur, resume, file)
         /\ FileBegan(file') \subseteq AllBegan(entries, cur, resume, file)
<1>1. FileBegan(file') \subseteq Began(list, c, r) \/ file' = file
  BY SavedBegan
<1>2. Kept(c) # None => c # None /\ Kept(c).entry = c.entry
  BY KeptFields
<1>3. Began(list, Kept(c), r) \subseteq Began(list, c, r)
  BY <1>2 DEF Began
<1>4. QED
  BY <1>1, <1>3 DEF AllBegan

LEMMA CleanKept == Inv /\ OffInv /\ WindowIsCurrent /\ CleanInv /\ [Next]_vars => CleanInv'
<1> SUFFICES ASSUME Inv, OffInv, WindowIsCurrent, CleanInv, [Next]_vars, ~world'.writesMayFail
             PROVE  Clean(AllBegan(entries', cur', resume', file'), cut', removed')
  BY DEF CleanInv
<1> USE DEF memory, disk, ghosts
<1> DEFINE B == AllBegan(entries, cur, resume, file)
           C == AllBegan(entries', cur', resume', file')
<1>0. /\ Inv' /\ entries \in Seq(Entry) /\ cur \in Play \cup {None} /\ resume \in Record \cup {None}
      /\ entries' \in Seq(Entry) /\ cur' \in Play \cup {None} /\ resume' \in Record \cup {None}
      /\ FileOK(file, now) /\ MemoryOK(entries, cur, resume, now)
      /\ now \in Nat /\ config.limit \in Nat
      /\ ~enabled => entries = <<>> /\ cur = None /\ resume = None
      /\ enabled \in BOOLEAN /\ cut <= now /\ cut \in Nat
      /\ removed \in SUBSET Nat /\ \A n \in removed : n <= now
  <2>1. Inv'
    BY InvKept
  <2>2. MemoryOK(entries', cur', resume', now') /\ MemoryOK(entries, cur, resume, now)
    BY <2>1, InvParts
  <2>3. QED
    BY <2>1, <2>2, InvFacts DEF MemoryOK, RestOK
<1>1. CASE UNCHANGED <<world, entries, cur, resume, file, cut, removed>>
  BY <1>1 DEF CleanInv
<1>2. CASE world' = world /\ cut' = cut /\ removed' = removed /\ C \subseteq B
  <2>1. Clean(B, cut, removed)
    BY <1>2 DEF CleanInv
  <2> HIDE DEF B, C
  <2>2. Clean(C, cut, removed)
    BY <1>2, <2>1, CleanLess
  <2>3. QED
    BY <1>2, <2>2 DEF C
<1>3. CASE C = {}
  BY <1>3, CleanNone
<1> HIDE DEF C
<1>4. ASSUME NEW dt \in 1 .. MaxStep, SongPoll(dt) PROVE Clean(C, cut', removed')
  <2>1. UNCHANGED <<world, enabled, cut, removed>> /\ now + dt \in Nat /\ now + dt > now
    BY <1>4, PollFacts DEF SongPoll
  <2>2. CASE enabled
    <3>1. PICK s \in SongShown : Outcome(s, now + dt)
      BY <1>4, <2>2, SongPollOutcome
    <3>2. C \subseteq B \cup {<<now + dt, s.song>>}
      BY <1>0, <2>1, <3>1, PollBegan DEF C
    <3>3. Clean(B, cut, removed) /\ \A b \in B : b[1] \in Nat /\ b[1] <= now
      BY <1>0, <2>1, BeganUntil DEF CleanInv
    <3> HIDE DEF B
    <3>4. Clean(B \cup {<<now + dt, s.song>>}, cut, removed)
      BY <1>0, <2>1, <3>3, CleanMore
    <3>5. Clean(C, cut, removed)
      BY <3>2, <3>4, CleanLess
    <3>6. QED
      BY <2>1, <3>5
  <2>3. CASE ~enabled
    <3>1. PICK s \in SongShown : Update(s, now + dt, dt)
      BY <1>4, SongPollShows
    <3>2. UNCHANGED <<entries, cur, resume, file>>
      BY <2>3, <3>1 DEF Update
    <3>3. QED
      BY <1>1, <2>1, <3>2 DEF C
  <2>4. QED
    BY <2>2, <2>3
<1>5. ASSUME NEW dt \in 1 .. MaxStep, NothingPoll(dt) PROVE Clean(C, cut', removed')
  <2>1. UNCHANGED <<world, enabled, cut, removed>> /\ now + dt \in Nat
    BY <1>5, PollFacts DEF NothingPoll
  <2>2. CASE enabled /\ (cur # None \/ ignore # None) /\ ~WithinGrace(now + dt)
    <3>1. /\ UNCHANGED <<entries, resume>> /\ cur' = None
          /\ file' = file \/ Save(entries, None, resume, now + dt)
      BY <1>5, <2>2 DEF NothingPoll, UpdateNothing
    <3>2. Began(entries, None, resume) \subseteq Began(entries, cur, resume)
      BY DEF Began
    <3>3. C \subseteq B
      BY <1>0, <2>1, <3>1, <3>2, FewerBegan DEF C
    <3>4. QED
      BY <1>2, <2>1, <3>3 DEF C
  <2>3. CASE ~(enabled /\ (cur # None \/ ignore # None) /\ ~WithinGrace(now + dt))
    <3>1. UNCHANGED <<entries, cur, resume, file>>
      BY <1>5, <2>3 DEF NothingPoll, UpdateNothing
    <3>2. QED
      BY <1>1, <2>1, <3>1 DEF C
  <2>4. QED
    BY <2>2, <2>3
<1>6. ASSUME NEW song \in Songs, MarkScrobbled(song) PROVE Clean(C, cut', removed')
  <2>1. PICK i \in 1 .. Len(entries) :
          /\ Event /\ UNCHANGED <<cut, removed>>
          /\ entries' = Marked(entries, i) /\ cur' = MarkedPlay(i) /\ resume' = MarkedSong(i)
          /\ Save(Marked(entries, i), cur', resume', now)
    BY <1>6 DEF MarkScrobbled, Marked, MarkedPlay, MarkedSong
  <2>2. world' = world
    BY <2>1 DEF Event
  <2>3. Began(entries', cur', resume') \subseteq Began(entries, cur, resume)
    BY <1>0, <2>1, MarkBegan
  <2>4. Save(entries', cur', resume', now)
    BY <2>1
  <2>5. C \subseteq B
    BY <1>0, <2>2, <2>3, <2>4, FewerBegan DEF C
  <2>6. QED
    BY <1>2, <2>1, <2>2, <2>5 DEF C
<1>7. ASSUME NEW k \in 1 .. Len(window.lines), Remove(window.lines[k])
      PROVE  Clean(C, cut', removed')
  <2>1. world' = world
    BY <1>7 DEF Remove, Event
  <2>2. QED
    BY <1>7, <2>1, RemoveCleans DEF C
<1>8. CASE Clear
  <2>1. file' = None /\ entries' = <<>> /\ cur' = None /\ resume' = None
    BY <1>8 DEF Clear, Event, DeleteFile
  <2>2. QED
    BY <1>3, <2>1, NothingBegan DEF C
<1>9. ASSUME NEW c \in [on : BOOLEAN, limit : Limits], Configure(c)
      PROVE  Clean(C, cut', removed')
  BY <1>1, <1>9 DEF Configure, Event, C
<1>10. CASE Reconfigure
  <2>0. UNCHANGED <<world, up, removed>> /\ up
    BY <1>10 DEF Reconfigure
  <2>1. CASE SwitchedOff
    <3>1. file' = None /\ entries' = <<>> /\ cur' = None /\ resume' = None
      BY <2>0, <2>1 DEF SwitchedOff, DeleteFile
    <3>2. QED
      BY <1>3, <3>1, NothingBegan DEF C
  <2>2. CASE SwitchedOn
    <3> DEFINE k == IF limit # config.limit THEN config.limit ELSE Len(LoadedRows(file))
    <3>1. Load(k) /\ cur' = None /\ file = None
      BY <1>0, <2>0, <2>2 DEF SwitchedOn, OffInv
    <3>2. k \in Nat
      <4>1. LoadedRows(file) \in Seq(Entry)
        BY <1>0, LoadedSongFields
      <4>2. QED
        BY <1>0, <4>1
    <3> HIDE DEF k
    <3>3. C \subseteq FileBegan(file)
      BY <1>0, <2>0, <3>1, <3>2, LoadedBegan DEF C
    <3>4. C = {}
      BY <3>1, <3>3 DEF FileBegan
    <3>5. QED
      BY <1>3, <3>4 DEF C
  <2>3. CASE Limited
    <3> DEFINE list == Trimmed(entries, config.limit)
    <3>1. /\ entries' = list /\ resume' = resume /\ cut' = cut
          /\ \/ cur' = Kept(cur) /\ Save(list, cur, resume, now)
             \/ cur' = cur /\ file' = file
      BY <2>3 DEF Limited, LimitSaved
    <3>2. /\ list \in Seq(Entry)
          /\ \A i \in 1 .. Len(list) : i \in 1 .. Len(entries) /\ list[i] = entries[i]
      BY <1>0, TrimmedRows
    <3> HIDE DEF list
    <3>3. Began(list, cur, resume) \subseteq Began(entries, cur, resume)
      BY <3>2 DEF Began
    <3>4. C \subseteq B
      <4>1. CASE cur' = Kept(cur) /\ Save(list, cur, resume, now)
        BY <1>0, <2>0, <3>1, <3>2, <3>3, <4>1, FewerBegan DEF C
      <4>2. CASE cur' = cur /\ file' = file
        BY <1>0, <2>0, <3>1, <3>2, <3>3, <4>2, FewerBegan DEF C
      <4>3. QED
        BY <3>1, <4>1, <4>2
    <3>5. QED
      BY <1>2, <2>0, <3>1, <3>4 DEF C
  <2>4. QED
    BY <1>10, <2>1, <2>2, <2>3 DEF Reconfigure
<1>11. CASE Shutdown
  <2>1. /\ UNCHANGED <<world, cut, removed>> /\ entries' = <<>> /\ cur' = None /\ resume' = None
        /\ Save(entries, cur, resume, now) \/ file' = file
    BY <1>11 DEF Shutdown, Forget
  <2>2. FileBegan(file') \subseteq B
    BY <1>0, <2>1, FewerBegan
  <2>3. C = FileBegan(file')
    BY <2>1 DEF C, AllBegan, Began
  <2>4. QED
    BY <1>2, <2>1, <2>2, <2>3 DEF C
<1>12. CASE Crash
  <2>1. /\ UNCHANGED <<world, cut, removed>> /\ entries' = <<>> /\ cur' = None /\ resume' = None
        /\ file' = file
    BY <1>12 DEF Crash, Forget
  <2>2. C \subseteq B
    BY <2>1 DEF C, AllBegan, Began
  <2>3. QED
    BY <1>2, <2>1, <2>2 DEF C
<1>13. CASE Start
  <2>1. /\ UNCHANGED <<world, removed>> /\ cur' = cur /\ ~up
        /\ cut' = IF config.on THEN cut ELSE now
    BY <1>13 DEF Start
  <2>2. cur' = None
    BY <1>0, <2>1, InvFacts DEF RestOK
  <2>3. CASE config.on
    <3>1. Load(config.limit)
      BY <1>13, <2>3 DEF Start
    <3>2. C \subseteq FileBegan(file)
      BY <1>0, <2>1, <2>2, <3>1, LoadedBegan DEF C
    <3>3. C \subseteq B
      BY <3>2 DEF AllBegan
    <3>4. QED
      BY <1>2, <2>1, <2>3, <3>3 DEF C
  <2>4. CASE ~config.on
    <3>1. file' = None /\ entries' = <<>> /\ resume' = None
      BY <1>13, <2>1, <2>4 DEF Start, DeleteFile
    <3>2. QED
      BY <1>3, <2>2, <3>1, NothingBegan DEF C
  <2>5. QED
    BY <2>3, <2>4
<1>14. CASE UNCHANGED vars
  BY <1>1, <1>14 DEF vars, C
<1>15. QED
  BY <1>4, <1>5, <1>6, <1>7, <1>8, <1>9, <1>10, <1>11, <1>12, <1>13, <1>14 DEF Next, C

(* What the user took out, cleared or switched off is gone for good: it is *)
(* nowhere in memory and nowhere in the file, and no load brings it back.  *)
THEOREM ForgottenIsGone == Spec => []ForgottenStaysForgotten
<1>1. Init => OffInv /\ WindowIsCurrent
  BY DEF Init, OffInv, WindowIsCurrent
<1>2. Init => CleanInv
  <2> SUFFICES ASSUME Init PROVE Clean(AllBegan(entries, cur, resume, file), cut, removed)
    BY DEF CleanInv
  <2>1. entries = <<>> /\ cur = None /\ resume = None /\ file \in {None, Damaged}
    BY DEF Init
  <2>2. AllBegan(entries, cur, resume, file) = {}
    BY <2>1 DEF AllBegan, Began, FileBegan
  <2>3. QED
    BY <2>2, CleanNone
<1>3. CleanInv => ForgottenStaysForgotten
  <2> SUFFICES ASSUME CleanInv, ~world.writesMayFail,
                      NEW e \in {entries[i] : i \in 1 .. Len(entries)}
                                 \cup {p.entry : p \in {cur, resume} \ {None}} \cup RowsIn(file)
               PROVE  e.started \notin removed /\ e.started > cut
    BY DEF ForgottenStaysForgotten
  <2>1. Beginning(e) \in AllBegan(entries, cur, resume, file)
    <3>1. CASE e \in {entries[i] : i \in 1 .. Len(entries)}
      BY <3>1 DEF AllBegan, Began
    <3>2. CASE e \in {p.entry : p \in {cur, resume} \ {None}}
      BY <3>2 DEF AllBegan, Began
    <3>3. CASE e \in RowsIn(file)
      <4>1. file \notin {None, Damaged}
        BY <3>3 DEF RowsIn
      <4>2. Beginning(e) \in Began(file.entries, file.current, None)
        BY <3>3, <4>1 DEF RowsIn, Began
      <4>3. QED
        BY <4>1, <4>2 DEF AllBegan, FileBegan
    <3>4. QED
      BY <3>1, <3>2, <3>3
  <2>2. Beginning(e)[1] = e.started
    BY DEF Beginning
  <2>3. Clean(AllBegan(entries, cur, resume, file), cut, removed)
    BY DEF CleanInv
  <2>4. QED
    BY <2>1, <2>2, <2>3 DEF Clean
<1>4. QED
  BY <1>1, <1>2, <1>3, InvHolds, OffKept, WindowKept, CleanKept, PTL DEF Spec

-----------------------------------------------------------------------------
(* What a poll that shows a song makes of the play in progress.            *)

SameRows(a, b) ==
  /\ Len(a) = Len(b)
  /\ \A i \in 1 .. Len(a) : a[i].listen = b[i].listen /\ SamePlay(a[i], b[i])

(* The song counts: a row more, and the oldest may go.                     *)
OneMore(a, b, l) ==
  /\ Len(a) <= Len(b) + 1
  /\ \A i \in 1 .. Len(a) : a[i].listen = IF i = 1 THEN l ELSE b[i - 1].listen

(* The song s is the play in progress, and goes on.                        *)
WentOn(s, dt) ==
  /\ cur # None /\ cur' # None
  /\ cur'.entry.listen = cur.entry.listen /\ cur'.entry.started = cur.entry.started
  /\ KeyOf(cur'.entry) = KeyOf(s) /\ cur'.pos = s.pos
  /\ cur'.entry.dur = IF s.len > 0 THEN s.len ELSE cur.entry.dur
  /\ cur'.played = cur.played + Credit(s.playing, dt)
  /\ cur'.counted \/ ~CountsAsPlayed(cur'.played, cur'.entry.dur)
  /\ \/ cur'.counted = cur.counted /\ SameRows(entries', entries)
     \/ /\ ~cur.counted /\ cur'.counted
        /\ CountsAsPlayed(cur'.played, cur'.entry.dur)
        /\ OneMore(entries', entries, cur.entry.listen)
  /\ UNCHANGED <<resume, ignore>>

(* The song s was taken out, and stays out.                                *)
LeftOut(s) ==
  /\ cur' = None /\ ignore # None /\ ignore' = KeyOf(s)
  /\ SameRows(entries', entries) /\ UNCHANGED resume

(* The song s is carried on with, begins, or is not yet played.            *)
Begun(s, t) ==
  /\ resume' = None /\ ignore' = None /\ SameRows(entries', entries)
  /\ \/ CarriesOn(s, t) /\ cur' = CarriedOn(s, t)
     \/ ~CarriesOn(s, t) /\ cur' \in {Started(s, t), None}

(* It is the song of the play in progress, still the same play.            *)
StillOn(s) == SameSong(FilledIn(cur, s), s) /\ ~StartsOver(FilledIn(cur, s), s)

StillOut(s) == IgnoredNow(s) # None /\ IgnoredNow(s) = KeyOf(s)

PollMade(s, t, dt) ==
  \/ StillOn(s) /\ WentOn(s, dt)
  \/ ~StillOn(s) /\ StillOut(s) /\ LeftOut(s)
  \/ ~StillOn(s) /\ ~StillOut(s) /\ Begun(s, t)

LEMMA HeardExactly ==
  ASSUME NEW c \in Play, NEW s \in SongShown, NEW t \in Nat, NEW dt \in Nat
  PROVE  LET q == Heard(c, s, t, dt)
         IN  /\ q.played = c.played + Credit(s.playing, dt)
             /\ q.entry.dur = (IF s.len > 0 THEN s.len ELSE c.entry.dur)
             /\ q.pos = s.pos /\ q.counted = c.counted
<1> DEFINE e == [c.entry EXCEPT !.dur = IF s.len > 0 THEN s.len ELSE @]
           since == IF c.paused = None THEN t ELSE c.paused
           paused == IF s.playing THEN None ELSE since
           shown == s.playing \/ (c.shown /\ t - since < PauseShown)
           played == c.played + Credit(s.playing, dt)
           q == [c EXCEPT !.played = played, !.entry = e, !.pos = s.pos,
                          !.playing = s.playing, !.paused = paused, !.shown = shown]
<1>1. Heard(c, s, t, dt) = q
  BY DEF Heard, Play
<1>2. e.dur = IF s.len > 0 THEN s.len ELSE c.entry.dur
  BY DEF Play, Entry
<1> HIDE DEF e, paused, shown
<1>3. q.entry = e /\ q.pos = s.pos /\ q.counted = c.counted /\ q.played = played
  BY DEF Play
<1> HIDE DEF q, played
<1>4. QED
  BY <1>1, <1>2, <1>3 DEF played

LEMMA RelistedSame ==
  ASSUME NEW list \in Seq(Entry), NEW c \in Play \cup {None},
         c # None /\ c.counted => /\ list # <<>> /\ list[1].listen = c.entry.listen
                                  /\ SamePlay(list[1], c.entry)
  PROVE  SameRows(Relisted(list, c), list)
<1>1. /\ Len(Relisted(list, c)) = Len(list)
      /\ \A i \in 1 .. Len(list) :
           Relisted(list, c)[i] = IF i = 1 /\ c # None /\ c.counted THEN c.entry ELSE list[i]
  BY RelistedRows
<1>2. QED
  BY <1>1 DEF SameRows, SamePlay

LEMMA FilledInSame ==
  ASSUME NEW n \in Nat, NEW s \in SongShown, MemoryOK(entries, cur, resume, n)
  PROVE  LET c == FilledIn(cur, s)
             list == Relisted(entries, c)
         IN  /\ list \in Seq(Entry) /\ SameRows(list, entries)
             /\ c \in Play \cup {None} /\ (c = None <=> cur = None)
             /\ c # None /\ c.counted => /\ list # <<>> /\ list[1].listen = c.entry.listen
                                         /\ SamePlay(list[1], c.entry)
<1> DEFINE c == FilledIn(cur, s)
           list == Relisted(entries, c)
<1>1. /\ entries \in Seq(Entry) /\ cur \in Play \cup {None}
      /\ cur # None => NewestOf(cur, entries)
  BY DEF MemoryOK
<1>2. /\ c \in Play \cup {None} /\ (c = None <=> cur = None)
      /\ cur # None => /\ c.entry.listen = cur.entry.listen /\ c.counted = cur.counted
                        /\ SamePlay(c.entry, cur.entry)
  BY <1>1, FilledInFields DEF SamePlay
<1> HIDE DEF c
<1>3. c # None /\ c.counted => /\ entries # <<>> /\ entries[1].listen = c.entry.listen
                               /\ SamePlay(entries[1], c.entry)
  BY <1>1, <1>2 DEF NewestOf, SamePlay
<1>4. SameRows(list, entries) /\ list \in Seq(Entry)
  BY <1>1, <1>2, <1>3, RelistedSame, RelistedRows
<1> HIDE DEF list
<1>5. c # None /\ c.counted => /\ list # <<>> /\ list[1].listen = c.entry.listen
                               /\ SamePlay(list[1], c.entry)
  <2>1. c # None /\ c.counted => Len(entries) > 0
    BY <1>1, <1>3
  <2>2. c # None /\ c.counted => 1 \in 1 .. Len(list)
    BY <1>4, <2>1 DEF SameRows
  <2>3. QED
    BY <1>3, <1>4, <2>2 DEF SameRows, SamePlay
<1>6. QED
  BY <1>2, <1>4, <1>5 DEF c, list

LEMMA SameRowsTwice ==
  ASSUME NEW a, NEW b, NEW c, SameRows(a, b), SameRows(b, c)
  PROVE  SameRows(a, c)
  BY DEF SameRows, SamePlay

LEMMA GoesOnMade ==
  ASSUME NEW n \in Nat, NEW t \in Nat, NEW dt \in Nat, NEW s \in SongShown, NEW dressed,
         MemoryOK(entries, cur, resume, n), limit \in Nat,
         NEW c, c = FilledIn(cur, s), NEW list, list = Relisted(entries, c), SameSong(c, s),
         SongGoesOn(c, list, s, dressed, t, dt)
  PROVE  WentOn(s, dt)
<1> DEFINE q == Heard(c, s, t, dt)
           counts == ~c.counted /\ CountsAsPlayed(q.played, q.entry.dur)
           r == [q EXCEPT !.counted = c.counted \/ counts]
           kept == IF counts THEN Trimmed(<<r.entry>> \o list, limit) ELSE Relisted(list, r)
<1>1. /\ list \in Seq(Entry) /\ SameRows(list, entries)
      /\ c \in Play /\ c # None /\ cur # None /\ cur \in Play
      /\ c.counted => /\ list # <<>> /\ list[1].listen = c.entry.listen
                      /\ SamePlay(list[1], c.entry)
  BY FilledInSame DEF SameSong, MemoryOK
<1>2. /\ c.entry.song = cur.entry.song /\ c.entry.started = cur.entry.started
      /\ c.entry.listen = cur.entry.listen /\ c.entry.dur = cur.entry.dur
      /\ c.played = cur.played /\ c.counted = cur.counted
  BY <1>1, FilledInFields
<1>3. /\ q \in Play /\ q.entry.song = c.entry.song /\ q.entry.album = c.entry.album
      /\ q.entry.started = c.entry.started /\ q.entry.listen = c.entry.listen
  <2>1. c \in Play
    BY <1>1
  <2>2. QED
    BY <2>1, HeardFields
<1>4. /\ q.played = c.played + Credit(s.playing, dt)
      /\ q.entry.dur = IF s.len > 0 THEN s.len ELSE c.entry.dur
      /\ q.pos = s.pos /\ q.counted = c.counted
  BY <1>1, HeardExactly
<1>5. /\ entries' = kept /\ UNCHANGED <<resume, ignore>>
      /\ cur' = [r EXCEPT !.saved = r.played] \/ cur' = r
  BY DEF SongGoesOn
<1> HIDE DEF q
<1>6. c.counted \in BOOLEAN /\ counts \in BOOLEAN
  BY <1>1 DEF Play
<1>7. /\ r \in Play /\ r.entry = q.entry /\ r.played = q.played /\ r.pos = q.pos
      /\ r.counted = (c.counted \/ counts)
  BY <1>3, <1>6 DEF Play
<1>8. c.counted \/ counts \/ ~CountsAsPlayed(q.played, q.entry.dur)
  OBVIOUS
<1>9. counts => CountsAsPlayed(q.played, q.entry.dur) /\ ~c.counted
  OBVIOUS
<1> HIDE DEF counts, r
<1>10. /\ cur' # None /\ cur'.entry = r.entry /\ cur'.played = r.played /\ cur'.pos = r.pos
       /\ cur'.counted = r.counted
  <2>1. cur' \in {Kept(r), r}
    BY <1>5, <1>7, NoneIsNoEntry DEF Kept
  <2>2. Kept(r).pos = r.pos
    BY <1>7, NoneIsNoEntry DEF Kept, Play
  <2>3. QED
    BY <1>7, <2>1, <2>2, KeptFields, NoneIsNoEntry
<1>11. KeyOf(cur'.entry) = KeyOf(s)
  BY <1>3, <1>7, <1>10 DEF SameSong, KeyOf
<1>12. CASE ~counts
  <2>1. entries' = Relisted(list, r) /\ r.counted = c.counted
    BY <1>5, <1>6, <1>7, <1>12
  <2>2. SameRows(Relisted(list, r), list)
    <3>1. r.counted => SamePlay(list[1], r.entry)
      BY <1>1, <1>3, <1>7, <2>1 DEF SamePlay
    <3>2. QED
      BY <1>1, <1>3, <1>7, <2>1, <3>1, RelistedSame
  <2>3. SameRows(entries', entries)
    BY <1>1, <2>1, <2>2, SameRowsTwice
  <2>4. cur'.counted = cur.counted
    BY <1>2, <1>10, <2>1
  <2>5. cur'.counted \/ ~CountsAsPlayed(cur'.played, cur'.entry.dur)
    <3>1. c.counted \/ ~CountsAsPlayed(q.played, q.entry.dur)
      BY <1>8, <1>12
    <3>2. cur'.counted = c.counted
      BY <1>10, <2>1
    <3>3. cur'.played = q.played /\ cur'.entry = q.entry
      BY <1>7, <1>10
    <3>4. CASE c.counted
      BY <3>2, <3>4
    <3>5. CASE ~CountsAsPlayed(q.played, q.entry.dur)
      BY <3>3, <3>5
    <3>6. QED
      BY <3>1, <3>4, <3>5
  <2>6. /\ cur'.played = cur.played + Credit(s.playing, dt)
        /\ cur'.entry.dur = IF s.len > 0 THEN s.len ELSE cur.entry.dur
        /\ cur'.entry.listen = cur.entry.listen /\ cur'.entry.started = cur.entry.started
        /\ cur'.pos = s.pos
    BY <1>2, <1>3, <1>4, <1>7, <1>10
  <2>7. QED
    BY <1>1, <1>5, <1>10, <1>11, <2>3, <2>4, <2>5, <2>6, Zenon DEF WentOn
<1>13. CASE counts
  <2> DEFINE e == r.entry
             all == <<e>> \o list
  <2>1. e \in Entry
    BY <1>7 DEF Play
  <2> HIDE DEF e
  <2>2. /\ all \in Seq(Entry) /\ Len(all) = Len(list) + 1 /\ all[1] = e
        /\ \A k \in 2 .. Len(list) + 1 : all[k] = list[k - 1]
    BY <1>1, <2>1, ListedRows
  <2>3. entries' = Trimmed(all, limit)
    BY <1>5, <1>13 DEF e
  <2> HIDE DEF all
  <2>4. /\ Len(entries') <= Len(list) + 1
        /\ \A i \in 1 .. Len(entries') : i \in 1 .. Len(all) /\ entries'[i] = all[i]
    BY <2>2, <2>3, TrimmedRows
  <2>5. e.listen = cur.entry.listen
    BY <1>2, <1>3, <1>7 DEF e
  <2>6. OneMore(entries', entries, cur.entry.listen)
    <3>1. Len(list) = Len(entries) /\ Len(list) \in Nat
          /\ \A i \in 1 .. Len(list) : list[i].listen = entries[i].listen
      BY <1>1 DEF SameRows
    <3>2. ASSUME NEW i \in 1 .. Len(entries'), i # 1
          PROVE  entries'[i].listen = entries[i - 1].listen
      <4>1. i \in 2 .. Len(list) + 1 /\ i - 1 \in 1 .. Len(list)
        BY <2>2, <2>4, <3>1, <3>2
      <4>2. entries'[i] = list[i - 1]
        BY <2>2, <2>4, <4>1
      <4>3. QED
        BY <3>1, <4>1, <4>2
    <3>3. 1 \in 1 .. Len(entries') => entries'[1] = e
      BY <2>2, <2>4
    <3>4. QED
      BY <2>4, <2>5, <3>1, <3>2, <3>3 DEF OneMore
  <2>7. ~cur.counted /\ cur'.counted /\ CountsAsPlayed(cur'.played, cur'.entry.dur)
    <3>1. ~c.counted /\ CountsAsPlayed(q.played, q.entry.dur)
      BY <1>9, <1>13
    <3>2. r.counted
      BY <1>7, <1>13
    <3>3. cur'.played = q.played /\ cur'.entry = q.entry /\ cur'.counted = r.counted
      BY <1>7, <1>10
    <3>4. QED
      BY <1>2, <3>1, <3>2, <3>3
  <2>8. /\ cur'.played = cur.played + Credit(s.playing, dt)
        /\ cur'.entry.dur = IF s.len > 0 THEN s.len ELSE cur.entry.dur
        /\ cur'.entry.listen = cur.entry.listen /\ cur'.entry.started = cur.entry.started
        /\ cur'.pos = s.pos
    BY <1>2, <1>3, <1>4, <1>7, <1>10
  <2>9. QED
    BY <1>1, <1>5, <1>10, <1>11, <2>6, <2>7, <2>8, Zenon DEF WentOn
<1>14. QED
  BY <1>12, <1>13

LEMMA BeginsMade ==
  ASSUME NEW n \in Nat, NEW t \in Nat, NEW s \in SongShown, MemoryOK(entries, cur, resume, n),
         NEW c, c = FilledIn(cur, s), NEW list, list = Relisted(entries, c),
         SongBegins(c, list, s, t)
  PROVE  Begun(s, t)
<1>1. list \in Seq(Entry) /\ SameRows(list, entries) /\ (c = None <=> cur = None)
  BY FilledInSame
<1>2. resume' = None /\ ignore' = None
  BY DEF SongBegins
<1>3. CASE CarriesOn(s, t)
  <2> DEFINE p == CarriedOn(s, t)
  <2>1. /\ resume \in Record /\ resume # None /\ cur = None /\ NewestOf(resume, entries)
        /\ entries \in Seq(Entry)
    BY <1>3 DEF CarriesOn, MemoryOK
  <2>2. c = None /\ list = entries
    BY <1>1, <2>1 DEF Relisted
  <2>3. cur' = p /\ entries' = Relisted(entries, p)
    BY <1>3, <2>2 DEF SongBegins
  <2>4. p \in Play /\ p.entry.listen = resume.entry.listen /\ p.counted = resume.counted
        /\ SamePlay(resume.entry, p.entry)
    BY <2>1, CarriedOnFields DEF SamePlay
  <2> HIDE DEF p
  <2>5. SameRows(entries', entries)
    BY <2>1, <2>3, <2>4, RelistedSame DEF NewestOf
  <2>6. QED
    BY <1>2, <1>3, <2>3, <2>5 DEF Begun, p
<1>4. CASE ~CarriesOn(s, t)
  <2>1. entries' = list /\ cur' \in {Started(s, t), None}
    BY <1>4 DEF SongBegins
  <2>2. QED
    BY <1>1, <1>2, <1>4, <2>1 DEF Begun
<1>5. QED
  BY <1>3, <1>4

(* One poll goes on, leaves out or begins, as the song shown asks for.     *)
LEMMA UpdateSongMade ==
  ASSUME Inv, NEW t \in Nat, NEW dt \in Nat, NEW s \in SongShown, NEW dressed,
         UpdateSong(s, dressed, t, dt)
  PROVE  gone' = None /\ PollMade(s, t, dt)
<1> DEFINE c == FilledIn(cur, s)
           list == Relisted(entries, c)
           ig == IgnoredNow(s)
<1>1. MemoryOK(entries, cur, resume, now) /\ now \in Nat /\ limit \in Nat
  BY InvFacts
<1>2. /\ gone' = None
      /\ IF StillOn(s) THEN SongGoesOn(c, list, s, dressed, t, dt)
         ELSE IF StillOut(s) THEN StaysOut(c, list, ig, t) ELSE SongBegins(c, list, s, t)
  BY DEF UpdateSong, StillOn, StillOut, KeyOf
<1>3. c = FilledIn(cur, s) /\ list = Relisted(entries, c) /\ ig = IgnoredNow(s)
  OBVIOUS
<1> HIDE DEF c, list, ig
<1>4. CASE StillOn(s)
  <2>1. SameSong(c, s) /\ SongGoesOn(c, list, s, dressed, t, dt)
    BY <1>2, <1>3, <1>4 DEF StillOn
  <2>2. WentOn(s, dt)
    BY <1>1, <1>3, <2>1, GoesOnMade
  <2>3. QED
    BY <1>2, <1>4, <2>2 DEF PollMade
<1>5. CASE ~StillOn(s) /\ StillOut(s)
  <2>1. cur' = None /\ ignore' = ig /\ entries' = list /\ resume' = resume
    BY <1>2, <1>5 DEF StaysOut
  <2>2. SameRows(list, entries)
    BY <1>1, <1>3, FilledInSame
  <2>3. ignore # None /\ ig = KeyOf(s)
    BY <1>3, <1>5 DEF StillOut, IgnoredNow, FillsIn
  <2>4. LeftOut(s)
    BY <2>1, <2>2, <2>3 DEF LeftOut
  <2>5. QED
    BY <1>2, <1>5, <2>4 DEF PollMade
<1>6. CASE ~StillOn(s) /\ ~StillOut(s)
  <2>1. Begun(s, t)
    BY <1>1, <1>2, <1>3, <1>6, BeginsMade
  <2>2. QED
    BY <1>2, <1>6, <2>1 DEF PollMade
<1>7. QED
  BY <1>4, <1>5, <1>6

-----------------------------------------------------------------------------
(* What is heard, and what a poll shows of it.                             *)

Shows(s, h) ==
  /\ h.song = s.song /\ h.album = s.album /\ h.number = s.listen
  /\ s.pos \in {h.pos, None} /\ s.len \in world.lengths[h.song]

(* The listen under way goes on.                                           *)
Continues(s, dt) ==
  /\ ~heard.over /\ ~LeftTooLong(now + dt) /\ ~s.restarted
  /\ heard'.number = heard.number /\ heard'.song = heard.song
  /\ heard'.pos \in Places(dt) /\ heard'.album \in AlbumShows(heard.album)
  /\ spent' = IF cur # None /\ cur.entry.listen = heard.number
                THEN spent + Credit(s.playing, dt) ELSE spent

Another == heard'.number = heard.number + 1 /\ heard'.album \in AlbumShows(FALSE) /\ spent' = 0

LEMMA ShownShows ==
  ASSUME world \in Worlds, NEW h \in Hearing, NEW playing \in BOOLEAN, NEW restarted \in BOOLEAN,
         NEW s \in Shown(h, playing, restarted)
  PROVE  /\ s \in SongShown /\ Shows(s, h)
         /\ s.playing = playing /\ s.restarted = restarted
<1>1. s \in SongShown
  BY ShownType
<1>2. PICK len \in world.lengths[h.song], pos \in IF world.blind THEN {h.pos, None} ELSE {h.pos} :
        s = [song |-> h.song, album |-> h.album, len |-> len, pos |-> pos, playing |-> playing,
             restarted |-> restarted, listen |-> h.number]
  BY DEF Shown
<1>3. QED
  BY <1>1, <1>2 DEF Shows

LEMMA SongPollHears ==
  ASSUME Inv, NEW dt \in 1 .. MaxStep, SongPoll(dt)
  PROVE  /\ heard' \in Hearing /\ ~heard'.over /\ heard'.quiet = None
         /\ \E s \in SongShown : /\ Update(s, now + dt, dt) /\ Shows(s, heard')
                                 /\ Continues(s, dt) \/ Another
<1> DEFINE t == now + dt
<1>1. t \in Nat /\ dt \in Nat
  BY PollFacts DEF SongPoll
<1>2. world \in Worlds /\ heard \in Listen /\ heard.number \in Nat
      /\ (~heard.over => heard \in Hearing)
  BY InvFacts DEF RestOK, Listen
<1>3. CASE /\ ~heard.over /\ ~LeftTooLong(t)
           /\ \E h \in GoesOn(dt), playing \in BOOLEAN :
                 /\ heard' = h
                 /\ \E s \in Shown(h, playing, FALSE) : Update(s, t, dt)
                 /\ spent' = IF cur # None /\ cur.entry.listen = heard.number
                               THEN spent + Credit(playing, dt) ELSE spent
  <2>1. PICK h \in GoesOn(dt), playing \in BOOLEAN :
          /\ heard' = h
          /\ \E s \in Shown(h, playing, FALSE) : Update(s, t, dt)
          /\ spent' = IF cur # None /\ cur.entry.listen = heard.number
                        THEN spent + Credit(playing, dt) ELSE spent
    BY <1>3
  <2>2. PICK pos \in Places(dt), album \in AlbumShows(heard.album) : h = HeardAt(pos, album)
    BY DEF GoesOn
  <2>3. heard \in Hearing /\ h \in Hearing
    BY <1>1, <1>2, <1>3, GoesOnType
  <2>4. /\ h.number = heard.number /\ h.song = heard.song /\ h.pos = pos /\ h.album = album
        /\ h.quiet = None /\ h.over = heard.over
    BY <2>2, <2>3 DEF HeardAt, Hearing, Listen
  <2>5. PICK s \in Shown(h, playing, FALSE) : Update(s, t, dt)
    BY <2>1
  <2>6. s \in SongShown /\ Shows(s, h) /\ s.playing = playing /\ s.restarted = FALSE
    BY <1>2, <2>3, ShownShows
  <2>7. Continues(s, dt)
    BY <1>3, <2>1, <2>4, <2>6 DEF Continues
  <2>8. QED
    BY <1>3, <2>1, <2>3, <2>4, <2>5, <2>6, <2>7
<1>4. CASE /\ \E h \in Begins, playing \in BOOLEAN, restarted \in BOOLEAN :
                 /\ heard' = h
                 /\ \E s \in Shown(h, playing, restarted) : Update(s, t, dt)
           /\ spent' = 0
  <2>1. PICK h \in Begins, playing \in BOOLEAN, restarted \in BOOLEAN :
          heard' = h /\ \E s \in Shown(h, playing, restarted) : Update(s, t, dt)
    BY <1>4
  <2>2. h \in Hearing /\ h.number = heard.number + 1
    BY <1>2, BeginsType
  <2>3. PICK song \in Playable, album \in AlbumShows(FALSE) : h = HeardFirst(song, album)
    <3> DEFINE first == AlbumShows(FALSE)
    <3>1. Begins = {HeardFirst(song, album) : song \in Playable, album \in first}
      BY DEF Begins
    <3> HIDE DEF first
    <3>2. \E song \in Playable, album \in first : h = HeardFirst(song, album)
      BY <3>1
    <3>3. QED
      BY <3>2 DEF first
  <2>4. ~h.over /\ h.quiet = None /\ h.album = album
    BY <2>3 DEF HeardFirst
  <2>5. PICK s \in Shown(h, playing, restarted) : Update(s, t, dt)
    BY <2>1
  <2>6. s \in SongShown /\ Shows(s, h)
    BY <1>2, <2>2, ShownShows
  <2>7. Another
    BY <1>4, <2>1, <2>2, <2>4 DEF Another
  <2>8. QED
    BY <2>1, <2>2, <2>4, <2>5, <2>6, <2>7
<1>5. QED
  BY <1>3, <1>4 DEF SongPoll

(* The same, with the history on.                                          *)
LEMMA SongPollMade ==
  ASSUME Inv, NEW dt \in 1 .. MaxStep, SongPoll(dt), enabled
  PROVE  /\ gone' = None
         /\ \E s \in SongShown : /\ PollMade(s, now + dt, dt) /\ Shows(s, heard')
                                 /\ Continues(s, dt) \/ Another
                                 /\ FileAfter(now + dt) /\ ProgressAfter(now + dt)
<1>1. PICK s \in SongShown : /\ Update(s, now + dt, dt) /\ Shows(s, heard')
                             /\ Continues(s, dt) \/ Another
  BY SongPollHears
<1>2. PICK dressed \in Dressed : UpdateSong(s, dressed, now + dt, dt)
  BY <1>1 DEF Update
<1>3. now + dt \in Nat /\ dt \in Nat
  BY PollFacts DEF SongPoll
<1>4. gone' = None /\ PollMade(s, now + dt, dt)
  BY <1>2, <1>3, UpdateSongMade
<1>5. FileAfter(now + dt) /\ ProgressAfter(now + dt)
  BY <1>2, <1>3, UpdateSongOutcome DEF Outcome
<1>6. QED
  BY <1>1, <1>4, <1>5

-----------------------------------------------------------------------------
(* The steps, by what they do to the list, the plays and the file.         *)

(* p is q, as far as who hears it could tell.                              *)
SamePlayAs(p, q) ==
  /\ p = None <=> q = None
  /\ q # None =>
       /\ p.entry.song = q.entry.song /\ p.entry.album = q.entry.album
       /\ p.entry.listen = q.entry.listen /\ p.entry.started = q.entry.started
       /\ p.entry.dur = q.entry.dur
       /\ p.pos = q.pos /\ p.played = q.played /\ p.counted = q.counted

(* Rows of a are rows of b, each of another one.                           *)
Drawn(a, b) ==
  \E f \in [1 .. Len(a) -> 1 .. Len(b)] :
    /\ \A i \in 1 .. Len(a) : a[i].listen = b[f[i]].listen /\ SamePlay(a[i], b[f[i]])
    /\ \A i, j \in 1 .. Len(a) : f[i] = f[j] => i = j

SavedOr(list, c, r, t) == file' = file \/ Save(list, c, r, t)

(* Rows are marked or trimmed, or nothing happens to them.                 *)
KeptStep ==
  /\ UNCHANGED <<heard, up, enabled, ignore, gone, cut, removed, out, last, spent>>
  /\ SamePlayAs(cur', cur) /\ SamePlayAs(resume', resume)
  /\ resume # None => resume'.at = resume.at
  /\ Drawn(entries', entries)
  /\ SavedOr(entries', cur', resume', now)

(* Rows are taken out, perhaps the play in progress with them.             *)
RemoveStep ==
  \E line, c, r :
    /\ UNCHANGED <<heard, up, enabled, gone, cut, last>>
    /\ c = IF cur # None /\ SamePlay(cur.entry, line) THEN None ELSE cur
    /\ r = ForgetTheSaved(line)
    /\ SamePlayAs(cur', c) /\ resume' = r
    /\ ignore' = IF c # cur THEN KeyOf(cur.entry) ELSE ignore
    /\ out' = IF c # cur THEN cur.entry.listen ELSE out
    /\ spent' = IF c # cur \/ r # resume THEN 0 ELSE spent
    /\ Drawn(entries', entries)
    /\ \A i \in 1 .. Len(entries') : \E j \in 1 .. Len(entries) :
         entries'[i] = entries[j] /\ ~SamePlay(entries[j], line)
    /\ SavedOr(entries', cur', resume', now)

(* Everything goes.                                                        *)
EmptyStep ==
  /\ entries' = <<>> /\ cur' = None /\ resume' = None /\ spent' = 0 /\ UNCHANGED last
  /\ out' = 0 \/ (out' = out /\ ~enabled)
  /\ heard' \in {heard, HeardAfresh}
  /\ DeleteFile

(* What the file has is there again.                                       *)
LoadStep ==
  /\ ~enabled /\ cur' = None
  /\ UNCHANGED <<ignore, gone, out, last, spent>>
  /\ \/ ~up /\ heard' = HeardAfresh
     \/ up /\ heard' = heard
  /\ up' /\ enabled'
  /\ \E k \in Nat : entries' = Trimmed(LoadedRows(file), k)
  /\ resume' = LoadedSong(file)
  /\ file' \in {file, None} \/ Save(entries', None, resume', now)
  /\ file # Damaged => file' # None \/ file = None

Restarts == world.quits \/ world.crashes

(* Refrain stops: with the song on right now written, or not.              *)
StopStep ==
  /\ Restarts
  /\ ~up' /\ ~enabled' /\ entries' = <<>> /\ cur' = None /\ resume' = None /\ out' = 0
  /\ UNCHANGED <<heard, last>>
  /\ \/ /\ IF enabled THEN Save(entries, cur, resume, now) ELSE UNCHANGED file
        /\ UNCHANGED spent
     \/ /\ UNCHANGED file
        /\ spent' = IF cur # None /\ cur.saved < spent THEN cur.saved ELSE spent

OtherStep ==
  /\ UNCHANGED <<world, now>>
  /\ KeptStep \/ RemoveStep \/ EmptyStep \/ LoadStep \/ StopStep

LEMMA SameAsItself ==
  ASSUME NEW p
  PROVE  SamePlayAs(p, p)
  BY DEF SamePlayAs

LEMMA KeptIsSame ==
  ASSUME NEW c \in Play \cup {None}
  PROVE  /\ SamePlayAs(Kept(c), c)
         /\ \A t : c # None => RecordOf(Kept(c), t) = RecordOf(c, t)
<1>1. CASE c = None
  BY <1>1 DEF Kept, SamePlayAs
<1>2. CASE c # None
  <2>1. c \in Play
    BY <1>2
  <2>2. /\ Kept(c) # None /\ Kept(c).entry = c.entry /\ Kept(c).pos = c.pos
        /\ Kept(c).played = c.played /\ Kept(c).counted = c.counted
    BY <1>2, <2>1, NoneIsNoEntry DEF Kept, Play
  <2>3. QED
    BY <1>2, <2>2 DEF SamePlayAs, RecordOf
<1>3. QED
  BY <1>1, <1>2

LEMMA SaveKept ==
  ASSUME NEW list, NEW c \in Play \cup {None}, NEW r, NEW t, Save(list, c, r, t)
  PROVE  Save(list, Kept(c), r, t)
<1>1. Stored(list, Kept(c), r, t) = Stored(list, c, r, t)
  BY KeptIsSame DEF Stored, SamePlayAs
<1>2. QED
  BY <1>1 DEF Save

LEMMA DrawnSame ==
  ASSUME NEW a \in Seq(Entry), NEW b \in Seq(Entry), SameRows(a, b)
  PROVE  Drawn(a, b)
<1> DEFINE f == [i \in 1 .. Len(a) |-> i]
<1>1. f \in [1 .. Len(a) -> 1 .. Len(b)] /\ \A i \in 1 .. Len(a) : f[i] = i
  BY DEF SameRows
<1> HIDE DEF f
<1>2. QED
  BY <1>1 DEF Drawn, SameRows

LEMMA DrawnTrimmed ==
  ASSUME NEW list \in Seq(Entry), NEW k \in Nat
  PROVE  Drawn(Trimmed(list, k), list)
<1> DEFINE a == Trimmed(list, k)
           f == [i \in 1 .. Len(a) |-> i]
<1>1. \A i \in 1 .. Len(a) : i \in 1 .. Len(list) /\ a[i] = list[i]
  BY TrimmedRows
<1> HIDE DEF a
<1>2. f \in [1 .. Len(a) -> 1 .. Len(list)] /\ \A i \in 1 .. Len(a) : f[i] = i
  BY <1>1
<1> HIDE DEF f
<1>3. Drawn(a, list)
  BY <1>1, <1>2 DEF Drawn, SamePlay
<1>4. QED
  BY <1>3 DEF a

LEMMA MarkIsKept ==
  ASSUME Inv, NEW song \in Songs, MarkScrobbled(song)
  PROVE  OtherStep
<1>1. PICK i \in 1 .. Len(entries) :
        /\ Event
        /\ UNCHANGED <<heard, config, enabled, limit, ignore, gone, cut, removed, out, spent>>
        /\ entries' = Marked(entries, i) /\ cur' = MarkedPlay(i) /\ resume' = MarkedSong(i)
        /\ Save(Marked(entries, i), cur', resume', now)
  BY DEF MarkScrobbled, Marked, MarkedPlay, MarkedSong
<1>2. UNCHANGED <<world, now, up, last>>
  BY <1>1 DEF Event
<1>3. /\ MemoryOK(entries, cur, resume, now) /\ entries \in Seq(Entry)
      /\ cur \in Play \cup {None} /\ resume \in Record \cup {None}
  BY InvFacts
<1>4. Drawn(entries', entries)
  <2>1. /\ Marked(entries, i) \in Seq(Entry) /\ Len(Marked(entries, i)) = Len(entries)
        /\ \A j \in 1 .. Len(entries) : /\ Marked(entries, i)[j].listen = entries[j].listen
                                       /\ SamePlay(Marked(entries, i)[j], entries[j])
    <3>1. /\ Marked(entries, i) \in Seq(Entry) /\ Len(Marked(entries, i)) = Len(entries)
      BY <1>3, MarkedRows
    <3>2. ASSUME NEW j \in 1 .. Len(entries)
          PROVE  /\ Marked(entries, i)[j].listen = entries[j].listen
                 /\ SamePlay(Marked(entries, i)[j], entries[j])
      BY <1>3, MarkedFields DEF SamePlay
    <3>3. QED
      BY <3>1, <3>2
  <2>2. SameRows(Marked(entries, i), entries)
    BY <2>1 DEF SameRows
  <2>3. QED
    BY <1>1, <1>3, <2>1, <2>2, DrawnSame
<1>5. SamePlayAs(cur', cur)
  <2>1. CASE i = 1 /\ cur # None /\ cur.counted
    <3> DEFINE k == Kept(cur)
    <3>1. k \in Play /\ k # None /\ SamePlayAs(k, cur)
      BY <1>3, <2>1, KeptFields, KeptIsSame
    <3>2. cur' = [k EXCEPT !.entry.scrobbled = TRUE]
      BY <1>1, <2>1 DEF MarkedPlay
    <3> HIDE DEF k
    <3>3. /\ cur' \in Play /\ cur'.entry = [k.entry EXCEPT !.scrobbled = TRUE]
          /\ cur'.pos = k.pos /\ cur'.played = k.played /\ cur'.counted = k.counted
      BY <3>1, <3>2 DEF Play, Entry
    <3>4. /\ cur'.entry.song = k.entry.song /\ cur'.entry.album = k.entry.album
          /\ cur'.entry.listen = k.entry.listen /\ cur'.entry.started = k.entry.started
          /\ cur'.entry.dur = k.entry.dur
      BY <3>1, <3>3 DEF Play, Entry
    <3>5. cur' # None
      BY <3>3, NoneIsNoEntry
    <3>6. QED
      BY <2>1, <3>1, <3>3, <3>4, <3>5 DEF SamePlayAs
  <2>2. CASE ~(i = 1 /\ cur # None /\ cur.counted)
    BY <1>1, <1>3, <2>2, KeptIsSame DEF MarkedPlay
  <2>3. QED
    BY <2>1, <2>2
<1>6. SamePlayAs(resume', resume) /\ (resume # None => resume'.at = resume.at)
  <2>1. CASE i = 1 /\ resume # None /\ resume.counted
    <3>1. resume \in Record /\ resume' = [resume EXCEPT !.entry.scrobbled = TRUE]
      BY <1>1, <1>3, <2>1 DEF MarkedSong
    <3>2. /\ resume' \in Record /\ resume'.entry = [resume.entry EXCEPT !.scrobbled = TRUE]
          /\ resume'.pos = resume.pos /\ resume'.played = resume.played
          /\ resume'.counted = resume.counted /\ resume'.at = resume.at
      BY <3>1 DEF Record, Entry
    <3>3. /\ resume'.entry.song = resume.entry.song /\ resume'.entry.album = resume.entry.album
          /\ resume'.entry.listen = resume.entry.listen
          /\ resume'.entry.started = resume.entry.started
          /\ resume'.entry.dur = resume.entry.dur
      BY <3>1, <3>2 DEF Record, Entry
    <3>4. resume' # None
      BY <3>2, NoneIsNoEntry
    <3>5. QED
      BY <2>1, <3>2, <3>3, <3>4 DEF SamePlayAs
  <2>2. CASE ~(i = 1 /\ resume # None /\ resume.counted)
    BY <1>1, <2>2, SameAsItself DEF MarkedSong
  <2>3. QED
    BY <2>1, <2>2
<1>7. SavedOr(entries', cur', resume', now)
  BY <1>1 DEF SavedOr
<1>8. QED
  BY <1>1, <1>2, <1>4, <1>5, <1>6, <1>7 DEF OtherStep, KeptStep

LEMMA LimitedIsKept ==
  ASSUME Inv, Reconfigure, Limited
  PROVE  OtherStep
<1> DEFINE list == Trimmed(entries, config.limit)
<1>1. /\ UNCHANGED <<world, now, up, heard, removed, last>>
      /\ UNCHANGED <<enabled, resume, ignore, gone, cut, out, spent>>
      /\ entries' = list /\ LimitSaved(list)
  BY DEF Reconfigure, Limited
<1>2. entries \in Seq(Entry) /\ cur \in Play \cup {None} /\ config.limit \in Nat
  BY InvFacts
<1>3. Drawn(list, entries)
  BY <1>2, DrawnTrimmed
<1>4. \/ cur' = Kept(cur) /\ Save(list, cur, resume, now)
      \/ cur' = cur /\ file' = file
  BY <1>1 DEF LimitSaved, disk
<1> HIDE DEF list
<1>5. SamePlayAs(cur', cur) /\ SavedOr(entries', cur', resume', now)
  BY <1>1, <1>2, <1>4, KeptIsSame, SameAsItself, SaveKept DEF SavedOr
<1>6. SamePlayAs(resume', resume)
  BY <1>1, SameAsItself
<1>7. QED
  BY <1>1, <1>3, <1>5, <1>6 DEF OtherStep, KeptStep

LEMMA NothingIsKept ==
  ASSUME Inv, UNCHANGED <<world, now, heard, up, memory, file, ghosts>>
  PROVE  OtherStep
<1>1. UNCHANGED <<enabled, entries, cur, resume, ignore, gone, cut, removed, out, last, spent>>
  BY DEF memory, ghosts
<1>2. entries \in Seq(Entry)
  BY InvFacts
<1>3. Drawn(entries', entries)
  BY <1>1, <1>2, DrawnSame DEF SameRows, SamePlay
<1>4. QED
  BY <1>1, <1>3, SameAsItself DEF OtherStep, KeptStep, SavedOr

LEMMA RemoveIsKnown ==
  ASSUME Inv, NEW line, Remove(line)
  PROVE  OtherStep
<1> DEFINE taken == cur # None /\ SamePlay(cur.entry, line)
           c == IF taken THEN None ELSE cur
           r == ForgetTheSaved(line)
           S == {i \in 1 .. Len(entries) : ~SamePlay(entries[i], line)}
<1>1. PICK n \in 0 .. Len(entries) : \E f \in Listings(n, S) :
        Removing(line, taken, c, r, [i \in 1 .. n |-> entries[f[i]]])
  BY DEF Remove, Removing
<1>2. PICK f \in Listings(n, S) :
        Removing(line, taken, c, r, [i \in 1 .. n |-> entries[f[i]]])
  BY <1>1
<1> DEFINE list == [i \in 1 .. n |-> entries[f[i]]]
<1>3. entries \in Seq(Entry) /\ cur \in Play \cup {None}
  BY InvFacts
<1>4. n \in Nat /\ S \in SUBSET (1 .. Len(entries))
  BY <1>3
<1>5. \A x \in S : x \in 1 .. Len(entries) /\ ~SamePlay(entries[x], line)
  OBVIOUS
<1>6. taken <=> c # cur
  OBVIOUS
<1>7. c \in Play \cup {None} /\ c = IF cur # None /\ SamePlay(cur.entry, line) THEN None ELSE cur
  BY <1>3
<1>8. r = ForgetTheSaved(line)
  OBVIOUS
<1> HIDE DEF S, c, r
<1>9. /\ Len(list) = n /\ \A i \in 1 .. n : f[i] \in S /\ list[i] = entries[f[i]]
  BY <1>3, <1>4, RowsThatStay
<1>10. /\ Event /\ entries' = list /\ resume' = r
       /\ UNCHANGED <<heard, enabled, gone, cut>>
       /\ ignore' = IF c # cur THEN KeyOf(cur.entry) ELSE ignore
       /\ out' = IF c # cur THEN cur.entry.listen ELSE out
       /\ spent' = IF c # cur \/ r # resume THEN 0 ELSE spent
       /\ \/ cur' = Kept(c) /\ Save(list, c, r, now)
          \/ cur' = c /\ file' = file
  <2>1. /\ Event /\ entries' = list /\ resume' = r
        /\ UNCHANGED <<heard, enabled, gone, cut>>
    BY <1>2 DEF Removing
  <2>2. ignore' = IF taken THEN KeyOf(cur.entry) ELSE ignore
    BY <1>2 DEF Removing
  <2>3. out' = IF taken THEN cur.entry.listen ELSE out
    BY <1>2 DEF Removing
  <2>4. spent' = IF taken \/ r # resume THEN 0 ELSE spent
    BY <1>2 DEF Removing
  <2>5. \/ cur' = Kept(c) /\ Save(list, c, r, now)
        \/ cur' = c /\ file' = file
    BY <1>2 DEF Removing, disk
  <2> HIDE DEF list, taken
  <2>6. QED
    BY <1>6, <2>1, <2>2, <2>3, <2>4, <2>5
<1>11. UNCHANGED <<world, now, up, last>>
  BY <1>10 DEF Event
<1>12. Drawn(list, entries)
  <2>1. f \in [1 .. n -> S] /\ \A i, j \in 1 .. n : i < j => f[i] < f[j]
    BY DEF Listings
  <2>2. ASSUME NEW i \in 1 .. n, NEW j \in 1 .. n, f[i] = f[j] PROVE i = j
    <3>1. i \in Nat /\ j \in Nat /\ f[i] \in Nat
      <4>1. f[i] \in S
        BY <2>1
      <4>2. f[i] \in 1 .. Len(entries)
        BY <1>5, <4>1
      <4>3. QED
        BY <4>2
    <3>2. ~(i < j) /\ ~(j < i)
      BY <2>1, <2>2, <3>1
    <3>3. QED
      BY <3>1, <3>2
  <2>3. f \in [1 .. n -> 1 .. Len(entries)]
    BY <1>5, <2>1
  <2> HIDE DEF list
  <2>4. QED
    BY <1>9, <2>2, <2>3 DEF Drawn, SamePlay
<1>13. \A i \in 1 .. Len(list) : \E j \in 1 .. Len(entries) :
         list[i] = entries[j] /\ ~SamePlay(entries[j], line)
  BY <1>5, <1>9
<1> HIDE DEF list, taken
<1>14. SamePlayAs(cur', c) /\ SavedOr(entries', cur', resume', now)
  BY <1>7, <1>10, KeptIsSame, SameAsItself, SaveKept DEF SavedOr
<1>15. RemoveStep
  BY <1>7, <1>8, <1>10, <1>11, <1>12, <1>13, <1>14, Zenon DEF RemoveStep
<1>16. QED
  BY <1>11, <1>15 DEF OtherStep

LEMMA LoadLeaves ==
  ASSUME Inv, NEW k \in Nat, Load(k)
  PROVE  /\ entries' = Trimmed(LoadedRows(file), k) /\ resume' = LoadedSong(file)
         /\ file' \in {file, None} \/ Save(entries', None, resume', now)
         /\ file # Damaged => file' # None \/ file = None
<1>1. entries' = Trimmed(LoadedRows(file), k) /\ resume' = LoadedSong(file)
  BY DEF Load
<1>2. \/ file = Damaged /\ file' \in {file, None}
      \/ file # Damaged /\ Save(entries', None, resume', now)
      \/ file' = file
  <2>1. CASE file = Damaged
    BY <2>1 DEF Load, disk
  <2>2. CASE file # Damaged
    BY <1>1, <2>2 DEF Load, disk
  <2>3. QED
    BY <2>1, <2>2
<1>3. ASSUME Save(entries', None, resume', now) PROVE file' # None \/ file = None
  <2>1. FileOK(file, now) /\ now \in Nat
    BY InvFacts
  <2>2. LoadedRows(file) \in Seq(Entry) /\ LoadedSong(file) \in Record \cup {None}
    BY <2>1, LoadedSongFields
  <2>3. entries' \in Seq(Entry) /\ resume' \in Record \cup {None}
    BY <1>1, <2>2, TrimmedRows
  <2>4. Stored(entries', None, resume', now) \notin {None, Damaged}
        /\ file' \in {Stored(entries', None, resume', now), file, Damaged}
    <3>1. None \in Play \cup {None}
      OBVIOUS
    <3>2. QED
      BY <1>3, <2>1, <2>3, <3>1, SaveLeaves, ZenonT(60)
  <2>5. QED
    BY <2>4, NoneIsNoEntry
<1>4. QED
  BY <1>1, <1>2, <1>3

LEMMA OtherSteps ==
  ASSUME Inv, [Next]_vars
  PROVE  \/ \E dt \in 1 .. MaxStep : SongPoll(dt)
         \/ \E dt \in 1 .. MaxStep : NothingPoll(dt)
         \/ OtherStep
<1>1. /\ cur \in Play \cup {None} /\ config.limit \in Nat /\ FileOK(file, now)
      /\ ~enabled => entries = <<>> /\ cur = None /\ resume = None
      /\ enabled => up
  BY InvFacts DEF RestOK
<1>2. ASSUME NEW song \in Songs, MarkScrobbled(song) PROVE OtherStep
  BY <1>2, MarkIsKept
<1>3. ASSUME NEW i \in 1 .. Len(window.lines), Remove(window.lines[i]) PROVE OtherStep
  BY <1>3, RemoveIsKnown
<1>4. CASE Clear
  <2>1. UNCHANGED <<world, now>> /\ EmptyStep
    BY <1>4 DEF Clear, Event, EmptyStep
  <2>2. QED
    BY <2>1 DEF OtherStep
<1>5. ASSUME NEW c \in [on : BOOLEAN, limit : Limits], Configure(c) PROVE OtherStep
  BY <1>5, NothingIsKept DEF Configure, Event, disk
<1>6. CASE Reconfigure
  <2>1. UNCHANGED <<world, now, up, heard, removed, last>> /\ up
    BY <1>6 DEF Reconfigure
  <2>2. CASE SwitchedOff
    <3>1. EmptyStep
      BY <2>1, <2>2 DEF SwitchedOff, EmptyStep
    <3>2. QED
      BY <2>1, <3>1 DEF OtherStep
  <2>3. CASE SwitchedOn
    <3> DEFINE k == IF limit # config.limit THEN config.limit ELSE Len(LoadedRows(file))
    <3>1. k \in Nat
      <4>1. LoadedRows(file) \in Seq(Entry)
        BY <1>1, LoadedSongFields
      <4>2. QED
        BY <1>1, <4>1
    <3>2. Load(k) /\ ~enabled /\ enabled' /\ UNCHANGED <<cur, ignore, gone, out, spent>>
      BY <2>3 DEF SwitchedOn
    <3> HIDE DEF k
    <3>3. LoadStep
      BY <1>1, <2>1, <3>1, <3>2, LoadLeaves DEF LoadStep
    <3>4. QED
      BY <2>1, <3>3 DEF OtherStep
  <2>4. CASE Limited
    BY <1>6, <2>4, LimitedIsKept
  <2>5. QED
    BY <1>6, <2>2, <2>3, <2>4 DEF Reconfigure
<1>7. CASE Shutdown
  <2>1. /\ Restarts /\ UNCHANGED <<world, now, heard, last, spent>> /\ Forget /\ out' = 0
        /\ IF enabled THEN Save(entries, cur, resume, now) ELSE UNCHANGED file
    BY <1>7 DEF Shutdown, Restarts, disk
  <2>2. StopStep
    BY <2>1 DEF StopStep, Forget
  <2>3. QED
    BY <2>1, <2>2 DEF OtherStep
<1>8. CASE Crash
  <2>1. /\ Restarts /\ UNCHANGED <<world, now, heard, last, file>> /\ Forget /\ out' = 0
        /\ spent' = IF cur # None /\ cur.saved < spent THEN cur.saved ELSE spent
    BY <1>8 DEF Crash, Restarts, disk
  <2>2. StopStep
    BY <2>1 DEF StopStep, Forget
  <2>3. QED
    BY <2>1, <2>2 DEF OtherStep
<1>9. CASE Start
  <2>1. /\ ~up /\ up' /\ enabled' = config.on /\ heard' = HeardAfresh
        /\ UNCHANGED <<world, now, ignore, gone, out, last>>
        /\ spent' = IF config.on THEN spent ELSE 0
    BY <1>9 DEF Start
  <2>2. cur' = None /\ ~enabled
    BY <1>1, <1>9, <2>1 DEF Start
  <2>3. CASE config.on
    <3>1. Load(config.limit)
      BY <1>9, <2>3 DEF Start
    <3>2. LoadStep
      BY <1>1, <2>1, <2>2, <2>3, <3>1, LoadLeaves DEF LoadStep
    <3>3. QED
      BY <2>1, <3>2 DEF OtherStep
  <2>4. CASE ~config.on
    <3>1. DeleteFile /\ entries' = <<>> /\ resume' = None
      BY <1>9, <2>4 DEF Start
    <3>2. EmptyStep
      BY <2>1, <2>2, <2>4, <3>1 DEF EmptyStep
    <3>3. QED
      BY <2>1, <3>2 DEF OtherStep
  <2>5. QED
    BY <2>3, <2>4
<1>10. CASE UNCHANGED vars
  BY <1>10, NothingIsKept DEF vars, disk
<1>11. QED
  BY <1>2, <1>3, <1>4, <1>5, <1>6, <1>7, <1>8, <1>9, <1>10 DEF Next

(* One poll that shows no song.                                            *)
QuietSince(t) == IF heard.quiet = None THEN t ELSE heard.quiet

OverBy(t) == resume = None /\ t - QuietSince(t) > GoneGrace

NothingHeard(t) ==
  /\ UNCHANGED <<world, up, enabled, entries, resume, cut, removed, out, last, spent>>
  /\ now' = t
  /\ heard.over => heard' = heard
  /\ heard'.number = heard.number /\ heard'.song = heard.song
  /\ heard'.album = heard.album /\ heard'.pos = heard.pos
  /\ ~heard.over => heard'.quiet = QuietSince(t) /\ heard'.over = OverBy(t)

NothingLeft(t) ==
  \/ UNCHANGED <<cur, ignore, gone, file>> /\ (~enabled \/ (cur = None /\ ignore = None))
  \/ WithinGrace(t) /\ gone' = GoneSince(t) /\ UNCHANGED <<cur, ignore, file>>
  \/ /\ ~WithinGrace(t) /\ cur' = None /\ ignore' = None /\ gone' = None
     /\ SavedOr(entries', None, resume', t)

LEMMA NothingMade ==
  ASSUME Inv, NEW dt \in 1 .. MaxStep, NothingPoll(dt)
  PROVE  NothingHeard(now + dt) /\ NothingLeft(now + dt)
<1> DEFINE t == now + dt
<1>1. /\ UNCHANGED <<world, up, enabled, cut, removed, out, last, spent>> /\ now' = t
  BY DEF NothingPoll, Poll
<1>2. heard' = IF heard.over THEN heard
               ELSE [heard EXCEPT !.quiet = QuietSince(t), !.over = OverBy(t)]
  BY DEF NothingPoll, QuietSince, OverBy
<1>3. heard \in Listen
  BY InvFacts DEF RestOK
<1>4. /\ heard.over => heard' = heard
      /\ heard'.number = heard.number /\ heard'.song = heard.song
      /\ heard'.album = heard.album /\ heard'.pos = heard.pos
      /\ ~heard.over => heard'.quiet = QuietSince(t) /\ heard'.over = OverBy(t)
  BY <1>2, <1>3 DEF Listen
<1>5. CASE ~enabled
  <2>1. UNCHANGED <<entries, cur, resume, ignore, gone, file>>
    BY <1>5 DEF NothingPoll, disk
  <2>2. QED
    BY <1>1, <1>4, <1>5, <2>1 DEF NothingHeard, NothingLeft
<1>6. CASE enabled
  <2>1. UpdateNothing(t)
    BY <1>6 DEF NothingPoll
  <2>2. UNCHANGED <<entries, resume>>
    BY <2>1 DEF UpdateNothing
  <2>3. NothingHeard(t)
    BY <1>1, <1>4, <2>2 DEF NothingHeard
  <2>4. CASE cur = None /\ ignore = None
    <3>1. UNCHANGED <<cur, ignore, gone, file>>
      BY <2>1, <2>4 DEF UpdateNothing, disk
    <3>2. QED
      BY <2>3, <2>4, <3>1 DEF NothingLeft
  <2>5. CASE (cur # None \/ ignore # None) /\ WithinGrace(t)
    <3>1. gone' = GoneSince(t) /\ UNCHANGED <<cur, ignore, file>>
      BY <2>1, <2>5 DEF UpdateNothing, disk
    <3>2. QED
      BY <2>3, <2>5, <3>1 DEF NothingLeft
  <2>6. CASE (cur # None \/ ignore # None) /\ ~WithinGrace(t)
    <3>1. /\ cur' = None /\ ignore' = None /\ gone' = None
          /\ SavedOr(entries, None, resume, t)
      BY <2>1, <2>6 DEF UpdateNothing, disk, SavedOr
    <3>2. SavedOr(entries', None, resume', t)
      BY <2>2, <3>1
    <3>3. QED
      BY <2>3, <2>6, <3>1, <3>2 DEF NothingLeft
  <2>7. QED
    BY <2>4, <2>5, <2>6
<1>7. QED
  BY <1>5, <1>6

-----------------------------------------------------------------------------
(* The song on right now is the one that is heard, where it was last seen. *)

Follows ==
  /\ ~heard.over /\ ~world.lateAlbum => heard.album
  /\ cur # None => /\ ~heard.over /\ KeyOf(cur.entry) = KeyOf(heard)
                   /\ gone = heard.quiet /\ cur.pos \in {heard.pos, None}

LEMMA BegunFields ==
  ASSUME Inv, NEW s \in SongShown, NEW t \in Nat, Begun(s, t), cur' # None
  PROVE  /\ KeyOf(cur'.entry) = KeyOf(s) /\ cur'.pos = s.pos
         /\ \/ /\ CarriesOn(s, t) /\ resume # None /\ resume \in Record
               /\ cur'.entry.listen = resume.entry.listen
               /\ cur'.entry.started = resume.entry.started
               /\ cur'.entry.dur = IF s.len > 0 THEN s.len ELSE resume.entry.dur
               /\ cur'.played = resume.played /\ cur'.counted = resume.counted
            \/ /\ ~CarriesOn(s, t) /\ cur'.entry.listen = s.listen /\ cur'.entry.started = t
               /\ cur'.entry.dur = s.len /\ cur'.played = 0 /\ ~cur'.counted
<1>1. CASE CarriesOn(s, t) /\ cur' = CarriedOn(s, t)
  <2>1. resume # None /\ resume \in Record /\ KeyOf(resume.entry) = KeyOf(s)
    BY <1>1, InvFacts DEF CarriesOn, KeyOf
  <2>2. /\ cur'.entry.song = resume.entry.song /\ cur'.entry.album = resume.entry.album
        /\ cur'.entry.started = resume.entry.started
        /\ cur'.entry.listen = resume.entry.listen
        /\ cur'.played = resume.played /\ cur'.counted = resume.counted
    BY <1>1, <2>1, CarriedOnFields
  <2>3. cur'.pos = s.pos
    BY <1>1 DEF CarriedOn
  <2>4. cur'.entry.dur = IF s.len > 0 THEN s.len ELSE resume.entry.dur
    BY <1>1, <2>1 DEF CarriedOn, Record, Entry
  <2>5. QED
    BY <1>1, <2>1, <2>2, <2>3, <2>4 DEF KeyOf
<1>2. CASE ~CarriesOn(s, t) /\ cur' = Started(s, t)
  BY <1>2 DEF Started, KeyOf
<1>3. QED
  BY <1>1, <1>2 DEF Begun

LEMMA FollowsKept == Inv /\ Follows /\ [Next]_vars => Follows'
<1> SUFFICES ASSUME Inv, Follows, [Next]_vars
             PROVE  Follows'
  OBVIOUS
<1>0. /\ ~enabled => cur = None /\ resume = None
      /\ cur \in Play \cup {None} /\ resume \in Record \cup {None} /\ heard \in Listen
      /\ enabled \in BOOLEAN /\ (cur = None \/ resume = None)
  BY InvFacts DEF RestOK, MemoryOK
<1>1. ASSUME NEW dt \in 1 .. MaxStep, SongPoll(dt) PROVE Follows'
  <2>1. UNCHANGED <<world, enabled>> /\ now + dt \in Nat
    BY <1>1, PollFacts DEF SongPoll
  <2>2. heard' \in Hearing /\ ~heard'.over /\ heard'.quiet = None
        /\ \E s \in SongShown : /\ Update(s, now + dt, dt) /\ Shows(s, heard')
                                /\ Continues(s, dt) \/ Another
    BY <1>1, SongPollHears
  <2>3. ~world'.lateAlbum => heard'.album
    BY <2>1, <2>2 DEF Continues, Another, AlbumShows
  <2>4. CASE ~enabled
    <3>1. cur' = None
      BY <1>0, <2>2, <2>4 DEF Update
    <3>2. QED
      BY <2>3, <3>1 DEF Follows
  <2>5. CASE enabled
    <3>1. gone' = None
      BY <1>1, <2>5, SongPollMade
    <3>2. PICK s \in SongShown : PollMade(s, now + dt, dt) /\ Shows(s, heard')
      BY <1>1, <2>5, SongPollMade
    <3>3. ASSUME cur' # None PROVE KeyOf(cur'.entry) = KeyOf(s) /\ cur'.pos = s.pos
      <4>1. CASE WentOn(s, dt)
        BY <4>1 DEF WentOn
      <4>2. CASE LeftOut(s)
        BY <3>3, <4>2 DEF LeftOut
      <4>3. CASE Begun(s, now + dt)
        BY <2>1, <3>3, <4>3, BegunFields
      <4>4. QED
        BY <3>2, <4>1, <4>2, <4>3 DEF PollMade
    <3>4. KeyOf(s) = KeyOf(heard') /\ s.pos \in {heard'.pos, None}
      BY <3>2 DEF Shows, KeyOf
    <3>5. ASSUME cur' # None
          PROVE  /\ ~heard'.over /\ KeyOf(cur'.entry) = KeyOf(heard')
                 /\ gone' = heard'.quiet /\ cur'.pos \in {heard'.pos, None}
      BY <2>2, <3>1, <3>3, <3>4, <3>5
    <3>6. Follows' <=> /\ ~heard'.over /\ ~world'.lateAlbum => heard'.album
                       /\ cur' # None =>
                            /\ ~heard'.over /\ KeyOf(cur'.entry) = KeyOf(heard')
                            /\ gone' = heard'.quiet /\ cur'.pos \in {heard'.pos, None}
      BY DEF Follows, KeyOf
    <3>7. QED
      BY <2>3, <3>5, <3>6
  <2>6. QED
    BY <1>0, <2>4, <2>5
<1>2. ASSUME NEW dt \in 1 .. MaxStep, NothingPoll(dt) PROVE Follows'
  <2> DEFINE t == now + dt
  <2>0. NothingHeard(t) /\ NothingLeft(t)
    BY <1>2, NothingMade
  <2>1. /\ UNCHANGED <<world, enabled, resume>>
        /\ heard.over => heard' = heard
        /\ heard'.number = heard.number /\ heard'.song = heard.song
        /\ heard'.album = heard.album /\ heard'.pos = heard.pos
        /\ ~heard.over => heard'.quiet = QuietSince(t) /\ heard'.over = OverBy(t)
    BY <2>0 DEF NothingHeard
  <2> HIDE DEF t
  <2>2. ~heard'.over /\ ~world'.lateAlbum => heard'.album
    BY <2>1 DEF Follows
  <2>3. CASE cur' = None
    BY <2>2, <2>3 DEF Follows
  <2>4. CASE cur' # None
    <3>1. cur # None /\ cur' = cur /\ resume = None
          /\ WithinGrace(t) /\ gone' = GoneSince(t)
      BY <1>0, <2>0, <2>4 DEF NothingLeft
    <3>2. ~heard.over /\ KeyOf(cur.entry) = KeyOf(heard) /\ gone = heard.quiet
          /\ cur.pos \in {heard.pos, None}
      BY <3>1 DEF Follows
    <3>3. GoneSince(t) = QuietSince(t)
      BY <3>2 DEF GoneSince, QuietSince
    <3>4. ~heard'.over /\ gone' = heard'.quiet
      <4>1. ~OverBy(t)
        <5>1. t \in Nat
          BY <1>2, PollFacts DEF NothingPoll, t
        <5>2. QuietSince(t) \in Nat
          BY <1>0, <5>1 DEF QuietSince, Listen, Position
        <5>3. t - QuietSince(t) <= GoneGrace
          BY <3>1, <3>3 DEF WithinGrace
        <5>4. ~(t - QuietSince(t) > GoneGrace)
          BY <5>1, <5>2, <5>3, Constants
        <5>5. QED
          BY <5>4 DEF OverBy
      <4>2. QED
        BY <2>1, <3>1, <3>2, <3>3, <4>1
    <3>5. KeyOf(heard') = KeyOf(heard)
      BY <2>1 DEF KeyOf
    <3>6. KeyOf(cur.entry)' = KeyOf(cur'.entry) /\ KeyOf(heard)' = KeyOf(heard')
      BY DEF KeyOf
    <3>7. KeyOf(cur'.entry) = KeyOf(heard') /\ cur'.pos \in {heard'.pos, None}
      BY <2>1, <3>1, <3>2, <3>5
    <3>8. QED
      BY <2>2, <3>4, <3>6, <3>7 DEF Follows
  <2>5. QED
    BY <2>3, <2>4
<1>3. CASE OtherStep
  <2>1. world' = world /\ (heard' = heard \/ heard' = HeardAfresh)
    BY <1>3 DEF OtherStep, KeptStep, RemoveStep, EmptyStep, LoadStep, StopStep
  <2>2. ~heard'.over /\ ~world'.lateAlbum => heard'.album
    BY <1>0, <2>1 DEF Follows, HeardAfresh, Listen
  <2>3. cur' # None => /\ UNCHANGED <<heard, gone>> /\ cur # None
                       /\ cur'.entry.song = cur.entry.song /\ cur'.entry.album = cur.entry.album
                       /\ cur'.pos = cur.pos
    BY <1>3 DEF OtherStep, KeptStep, RemoveStep, EmptyStep, LoadStep, StopStep, SamePlayAs
  <2>4. QED
    BY <2>2, <2>3 DEF Follows, KeyOf
<1>4. QED
  BY <1>1, <1>2, <1>3, OtherSteps

-----------------------------------------------------------------------------
(* The listens are numbered as they are heard.                             *)

RowsBy(list, n) == \A i \in 1 .. Len(list) : list[i].listen \in 1 .. n

PlayBy(p, n) == p # None => p.entry.listen \in 1 .. n

FileBy(f, n) == RowsBy(LoadedRows(f), n) /\ PlayBy(LoadedSong(f), n)

Numbered ==
  /\ ~heard.over => heard.number >= 1
  /\ RowsBy(entries, heard.number) /\ PlayBy(cur, heard.number) /\ PlayBy(resume, heard.number)
  /\ FileBy(file, heard.number)

(* The song a file gives is the one it has.                                *)
LEMMA LoadedIsCurrent ==
  ASSUME NEW f, NEW n, FileOK(f, n), f \notin {None, Damaged}
  PROVE  LoadedSong(f) = f.current /\ LoadedRows(f) = f.entries
<1>1. f.entries \in Seq(Entry) /\ f.current \in Record \cup {None}
  BY DEF FileOK, File
<1>2. CASE f.current # None /\ f.current.counted
  <2>1. f.entries # <<>> /\ f.entries[1] = f.current.entry
    <3>1. NewestOf(f.current, f.entries)
      BY <1>2 DEF FileOK
    <3>2. QED
      BY <1>2, <3>1 DEF NewestOf
  <2>2. LoadedSong(f) = [f.current EXCEPT !.entry = f.entries[1]]
    BY <1>2, <2>1 DEF LoadedSong, SamePlay
  <2>3. [f.current EXCEPT !.entry = f.entries[1]] = f.current
    BY <1>1, <1>2, <2>1 DEF Record
  <2>4. QED
    BY <2>2, <2>3 DEF LoadedRows
<1>3. CASE ~(f.current # None /\ f.current.counted)
  BY <1>3 DEF LoadedSong, LoadedRows
<1>4. QED
  BY <1>2, <1>3

(* What a save leaves to load.                                             *)
LEMMA SavedToLoad ==
  ASSUME NEW list, NEW c, NEW r, NEW n \in Nat, NEW t \in Nat,
         MemoryOK(list, c, r, n), FileOK(file, n), SavedOr(list, c, r, t)
  PROVE  \/ file' = file
         \/ file' = Damaged /\ world.writesMayFail
         \/ /\ LoadedRows(file') = list /\ file' \notin {None, Damaged}
            /\ LoadedSong(file') = IF c # None THEN RecordOf(c, t) ELSE r
<1>1. list \in Seq(Entry) /\ c \in Play \cup {None} /\ r \in Record \cup {None}
  BY DEF MemoryOK
<1> DEFINE f == Stored(list, c, r, t)
<1>2. CASE file' = file
  BY <1>2
<1>3. CASE Save(list, c, r, t)
  <2>1. f \in File /\ f \notin {None, Damaged}
    BY <1>1, <1>3, SaveLeaves, ZenonT(60)
  <2>6. f.entries = list /\ f.current = IF c # None THEN RecordOf(c, t) ELSE r
    BY DEF Stored
  <2>7. file' \in {f, file, Damaged}
    BY <1>3 DEF Save, Written
  <2>5. ~world.writesMayFail => file' = f
    BY <1>3 DEF Save, Written
  <2>2. FileOK(file', n)
    BY <1>3, SaveOK
  <2> HIDE DEF f
  <2>3. file' = f => LoadedRows(file') = f.entries /\ LoadedSong(file') = f.current
    BY <2>1, <2>2, LoadedIsCurrent
  <2>4. QED
    BY <2>1, <2>3, <2>5, <2>6, <2>7
<1>4. QED
  BY <1>2, <1>3 DEF SavedOr

LEMMA NothingToLoad ==
  LoadedRows(None) = <<>> /\ LoadedRows(Damaged) = <<>>
  /\ LoadedSong(None) = None /\ LoadedSong(Damaged) = None
  BY DEF LoadedRows, LoadedSong

LEMMA NumberedMore ==
  ASSUME NEW m \in Nat, NEW n \in Nat, m <= n
  PROVE  /\ \A list : RowsBy(list, m) => RowsBy(list, n)
         /\ \A p : PlayBy(p, m) => PlayBy(p, n)
         /\ \A f : FileBy(f, m) => FileBy(f, n)
<1>1. \A l : l \in 1 .. m => l \in 1 .. n
  OBVIOUS
<1>2. /\ \A list : RowsBy(list, m) => RowsBy(list, n)
      /\ \A p : PlayBy(p, m) => PlayBy(p, n)
  BY <1>1 DEF RowsBy, PlayBy
<1>3. QED
  BY <1>2 DEF FileBy

LEMMA DrawnBy ==
  ASSUME NEW a \in Seq(Entry), NEW b \in Seq(Entry), Drawn(a, b), NEW n, RowsBy(b, n)
  PROVE  RowsBy(a, n)
  BY DEF Drawn, RowsBy

LEMMA SavedBy ==
  ASSUME NEW list, NEW c, NEW r, NEW n \in Nat, NEW t \in Nat, NEW m,
         MemoryOK(list, c, r, n), FileOK(file, n), SavedOr(list, c, r, t),
         RowsBy(list, m), PlayBy(c, m), PlayBy(r, m), FileBy(file, m)
  PROVE  FileBy(file', m)
<1>1. c # None => RecordOf(c, t).entry = c.entry
  BY DEF RecordOf
<1>2. \/ file' = file
      \/ file' = Damaged
      \/ /\ LoadedRows(file') = list
         /\ LoadedSong(file') = IF c # None THEN RecordOf(c, t) ELSE r
  BY SavedToLoad
<1>3. CASE file' = file
  BY <1>3
<1>4. CASE file' = Damaged
  BY <1>4, NothingToLoad DEF FileBy, RowsBy, PlayBy
<1>5. CASE /\ LoadedRows(file') = list
           /\ LoadedSong(file') = IF c # None THEN RecordOf(c, t) ELSE r
  BY <1>1, <1>5 DEF FileBy, PlayBy
<1>6. QED
  BY <1>2, <1>3, <1>4, <1>5

(* A poll saves what it leaves, or leaves the file.                        *)
LEMMA PollSaves ==
  ASSUME NEW t, FileAfter(t)
  PROVE  \E k \in {None, cur'} : SavedOr(entries', k, resume', t)
  BY DEF FileAfter, SavedOr, disk

LEMMA NumbersGrow ==
  ASSUME Inv, [Next]_vars
  PROVE  heard.number \in Nat /\ heard'.number \in Nat /\ heard.number <= heard'.number
<1>1. heard \in Listen
  BY InvFacts DEF RestOK
<1>2. heard.number \in Nat
  BY <1>1 DEF Listen
<1>3. ASSUME NEW dt \in 1 .. MaxStep, SongPoll(dt)
      PROVE  heard'.number = heard.number \/ heard'.number = heard.number + 1
  BY <1>3, SongPollHears DEF Continues, Another
<1>4. ASSUME NEW dt \in 1 .. MaxStep, NothingPoll(dt) PROVE heard'.number = heard.number
  BY <1>4, NothingMade DEF NothingHeard
<1>5. OtherStep => heard'.number = heard.number
  <2>1. OtherStep => heard' \in {heard, HeardAfresh}
    BY DEF OtherStep, KeptStep, RemoveStep, EmptyStep, LoadStep, StopStep
  <2>2. HeardAfresh.number = heard.number
    BY <1>1 DEF HeardAfresh, Listen
  <2>3. QED
    BY <2>1, <2>2
<1>6. heard'.number = heard.number \/ heard'.number = heard.number + 1
  BY <1>3, <1>4, <1>5, OtherSteps
<1>7. QED
  BY <1>2, <1>6

(* Where the list and the plays are numbered, and what was saved of them,  *)
(* so is what a step leaves.                                               *)
LEMMA NumberedAfter ==
  ASSUME Inv, [Next]_vars, Numbered, ~heard'.over => heard'.number >= 1,
         RowsBy(entries', heard'.number), PlayBy(cur', heard'.number),
         PlayBy(resume', heard'.number),
         \/ \E k \in {None, cur'}, t \in Nat : SavedOr(entries', k, resume', t)
         \/ \E t \in Nat : SavedOr(entries, cur, resume, t)
         \/ file' = None
  PROVE  Numbered'
<1> DEFINE m == heard'.number
<1>1. m \in Nat /\ heard.number \in Nat /\ heard.number <= m
  BY NumbersGrow
<1>2. /\ MemoryOK(entries', cur', resume', now') /\ MemoryOK(entries, cur, resume, now)
      /\ FileOK(file, now) /\ now \in Nat /\ now' \in Nat
  BY InvKept, InvParts DEF RestOK
<1>3. /\ FileBy(file, m) /\ RowsBy(entries, m) /\ PlayBy(cur, m) /\ PlayBy(resume, m)
  <2> HIDE DEF m
  <2>1. QED
    BY <1>1, NumberedMore DEF Numbered
<1> HIDE DEF m
<1>4. FileBy(file', m)
  <2>1. CASE file' = None
    BY <2>1, NothingToLoad DEF FileBy, RowsBy, PlayBy
  <2>2. CASE \E t \in Nat : SavedOr(entries, cur, resume, t)
    BY <1>2, <1>3, <2>2, SavedBy
  <2>3. CASE \E k \in {None, cur'}, t \in Nat : SavedOr(entries', k, resume', t)
    <3>1. PICK k \in {None, cur'}, t \in Nat : SavedOr(entries', k, resume', t)
      BY <2>3
    <3>2. CASE file' = file
      BY <1>3, <3>2
    <3>3. CASE Save(entries', k, resume', t)
      <4>1. now <= now'
        <5>1. \/ \E dt \in 1 .. MaxStep : Poll(dt)
              \/ now' = now
          BY OtherSteps DEF SongPoll, NothingPoll, OtherStep
        <5>2. QED
          BY <1>2, <5>1, PollFacts
      <4>2. FileOK(file, now')
        BY <1>2, <4>1, FileLater
      <4>3. MemoryOK(entries', k, resume', now')
        BY <1>2 DEF MemoryOK
      <4>4. RowsBy(entries', m) /\ PlayBy(k, m) /\ PlayBy(resume', m)
        BY DEF m, PlayBy
      <4>5. QED
        BY <1>2, <1>3, <3>1, <4>2, <4>3, <4>4, SavedBy
    <3>4. QED
      BY <3>1, <3>2, <3>3 DEF SavedOr
  <2>4. QED
    BY <2>1, <2>2, <2>3
<1>5. QED
  BY <1>4 DEF Numbered, m, FileBy, RowsBy, PlayBy, LoadedRows, LoadedSong

(* The rows a poll leaves have the listens they had; one more may have the *)
(* listen of the play in progress.                                         *)
LEMMA PollRows ==
  ASSUME NEW s, NEW t, NEW dt, PollMade(s, t, dt), entries \in Seq(Entry),
         entries' \in Seq(Entry)
  PROVE  \/ SameRows(entries', entries)
         \/ cur # None /\ OneMore(entries', entries, cur.entry.listen)
  BY DEF PollMade, WentOn, LeftOut, Begun

LEMMA NumberedKept == Inv /\ Numbered /\ [Next]_vars => Numbered'
<1> SUFFICES ASSUME Inv, Numbered, [Next]_vars
             PROVE  Numbered'
  OBVIOUS
<1> DEFINE m == heard'.number
<1>1. m \in Nat /\ heard.number \in Nat /\ heard.number <= m
  BY NumbersGrow
<1>2. /\ RowsBy(entries, m) /\ PlayBy(cur, m) /\ PlayBy(resume, m) /\ FileBy(file, m)
      /\ ~heard.over => m >= 1
  <2>1. RowsBy(entries, m) /\ PlayBy(cur, m) /\ PlayBy(resume, m) /\ FileBy(file, m)
    <3> HIDE DEF m
    <3>1. QED
      BY <1>1, NumberedMore DEF Numbered
  <2>2. ~heard.over => m >= 1
    BY <1>1 DEF Numbered
  <2>3. QED
    BY <2>1, <2>2
<1>3. /\ entries \in Seq(Entry) /\ cur \in Play \cup {None} /\ resume \in Record \cup {None}
      /\ entries' \in Seq(Entry) /\ FileOK(file, now) /\ now \in Nat /\ heard \in Listen
  <2>1. MemoryOK(entries', cur', resume', now') /\ MemoryOK(entries, cur, resume, now)
    BY InvKept, InvParts
  <2>2. QED
    BY <2>1, InvFacts DEF MemoryOK, RestOK
<1> HIDE DEF m
<1>4. ASSUME NEW dt \in 1 .. MaxStep, SongPoll(dt) PROVE Numbered'
  <2>1. now + dt \in Nat
    BY <1>4, PollFacts DEF SongPoll
  <2>2. m >= 1
    <3>1. m = heard.number + 1 \/ ~heard.over
      BY <1>4, SongPollHears DEF Continues, Another, m
    <3>2. QED
      BY <1>1, <1>2, <3>1
  <2>3. CASE ~enabled
    <3>1. UNCHANGED <<entries, cur, resume, file>>
      BY <1>4, <2>3, SongPollHears DEF Update, disk
    <3>2. SavedOr(entries', cur', resume', 0)
      BY <3>1 DEF SavedOr
    <3>3. QED
      BY <1>2, <2>2, <3>1, <3>2, NumberedAfter DEF m
  <2>4. CASE enabled
    <3>1. PICK s \in SongShown : /\ PollMade(s, now + dt, dt) /\ Shows(s, heard')
                                 /\ FileAfter(now + dt)
      BY <1>4, <2>4, SongPollMade
    <3>2. RowsBy(entries', m)
      <4>1. \/ SameRows(entries', entries)
            \/ cur # None /\ OneMore(entries', entries, cur.entry.listen)
        BY <1>3, <3>1, PollRows
      <4>2. CASE SameRows(entries', entries)
        BY <1>2, <4>2 DEF SameRows, RowsBy
      <4>3. CASE cur # None /\ OneMore(entries', entries, cur.entry.listen)
        <5>1. ASSUME NEW i \in 1 .. Len(entries') PROVE entries'[i].listen \in 1 .. m
          <6>1. CASE i = 1
            BY <1>2, <4>3, <6>1 DEF OneMore, PlayBy
          <6>2. CASE i # 1
            <7>1. i - 1 \in 1 .. Len(entries)
              BY <1>3, <4>3, <6>2 DEF OneMore
            <7>2. QED
              BY <1>2, <4>3, <6>2, <7>1 DEF OneMore, RowsBy
          <6>3. QED
            BY <6>1, <6>2
        <5>2. QED
          BY <5>1 DEF RowsBy
      <4>4. QED
        BY <4>1, <4>2, <4>3
    <3>3. PlayBy(cur', m)
      <4>1. CASE WentOn(s, dt)
        BY <1>2, <4>1 DEF WentOn, PlayBy
      <4>2. CASE LeftOut(s)
        BY <4>2 DEF LeftOut, PlayBy
      <4>3. CASE Begun(s, now + dt)
        <5>1. s.listen = m
          BY <3>1 DEF Shows, m
        <5>2. cur' # None => \/ resume # None /\ cur'.entry.listen = resume.entry.listen
                             \/ cur'.entry.listen = s.listen
          BY <2>1, <4>3, BegunFields
        <5>3. QED
          BY <1>1, <1>2, <2>2, <5>1, <5>2 DEF PlayBy
      <4>4. QED
        BY <3>1, <4>1, <4>2, <4>3 DEF PollMade
    <3>4. PlayBy(resume', m)
      BY <1>2, <3>1 DEF PollMade, WentOn, LeftOut, Begun, PlayBy
    <3>5. \E k \in {None, cur'} : SavedOr(entries', k, resume', now + dt)
      BY <3>1, PollSaves
    <3>6. QED
      BY <2>1, <2>2, <3>2, <3>3, <3>4, <3>5, NumberedAfter DEF m
  <2>5. QED
    BY <2>3, <2>4
<1>5. ASSUME NEW dt \in 1 .. MaxStep, NothingPoll(dt) PROVE Numbered'
  <2>1. NothingHeard(now + dt) /\ NothingLeft(now + dt) /\ now + dt \in Nat
    BY <1>5, NothingMade, PollFacts DEF NothingPoll
  <2>2. UNCHANGED <<entries, resume>> /\ cur' \in {cur, None} /\ m = heard.number
        /\ (heard.over => heard'.over)
        /\ (file' = file \/ SavedOr(entries', None, resume', now + dt))
    BY <2>1 DEF NothingHeard, NothingLeft, m
  <2>3. RowsBy(entries', m) /\ PlayBy(cur', m) /\ PlayBy(resume', m)
    BY <1>2, <2>2 DEF PlayBy
  <2>4. SavedOr(entries', None, resume', now + dt)
    BY <2>2 DEF SavedOr
  <2>5. QED
    BY <1>2, <2>1, <2>2, <2>3, <2>4, NumberedAfter DEF m
<1>6. CASE OtherStep
  <2>1. heard' \in {heard, HeardAfresh}
    BY <1>6 DEF OtherStep, KeptStep, RemoveStep, EmptyStep, LoadStep, StopStep
  <2>2. heard'.over = heard.over
    BY <1>3, <2>1 DEF HeardAfresh, Listen
  <2>3. ~heard'.over => m >= 1
    BY <1>2, <2>2
  <2>4. RowsBy(entries', m)
    <3>1. CASE Drawn(entries', entries)
      BY <1>2, <1>3, <3>1, DrawnBy
    <3>2. CASE entries' = <<>>
      BY <3>2 DEF RowsBy
    <3>3. CASE LoadStep
      <4>1. PICK k \in Nat : entries' = Trimmed(LoadedRows(file), k)
        BY <3>3 DEF LoadStep
      <4>2. LoadedRows(file) \in Seq(Entry)
        BY <1>3, LoadedSongFields
      <4>3. Drawn(entries', LoadedRows(file))
        BY <4>1, <4>2, DrawnTrimmed
      <4>4. QED
        BY <1>2, <1>3, <4>2, <4>3, DrawnBy DEF FileBy
    <3>4. QED
      BY <1>6, <3>1, <3>2, <3>3 DEF OtherStep, KeptStep, RemoveStep, EmptyStep, StopStep
  <2>5. PlayBy(cur', m)
    <3>1. cur' # None => cur # None /\ cur'.entry.listen = cur.entry.listen
      BY <1>6 DEF OtherStep, KeptStep, RemoveStep, EmptyStep, LoadStep, StopStep, SamePlayAs
    <3>2. QED
      BY <1>2, <3>1 DEF PlayBy
  <2>6. PlayBy(resume', m)
    <3>1. \/ resume' = None
          \/ resume # None /\ resume'.entry.listen = resume.entry.listen
          \/ resume' = LoadedSong(file)
      BY <1>6 DEF OtherStep, KeptStep, RemoveStep, EmptyStep, LoadStep, StopStep, SamePlayAs,
                  ForgetTheSaved
    <3>2. QED
      BY <1>2, <3>1 DEF PlayBy, FileBy
  <2>7. \/ \E k \in {None, cur'}, t \in Nat : SavedOr(entries', k, resume', t)
        \/ \E t \in Nat : SavedOr(entries, cur, resume, t)
        \/ file' = None
    <3>1. CASE KeptStep \/ RemoveStep
      <4>1. SavedOr(entries', cur', resume', now)
        BY <3>1 DEF KeptStep, RemoveStep
      <4>2. QED
        BY <1>3, <4>1
    <3>2. CASE EmptyStep
      BY <1>3, <3>2 DEF EmptyStep, DeleteFile, SavedOr
    <3>3. CASE LoadStep
      <4>1. file' = None \/ SavedOr(entries', None, resume', now)
        BY <3>3 DEF LoadStep, SavedOr
      <4>2. QED
        BY <1>3, <4>1
    <3>4. CASE StopStep
      <4>1. SavedOr(entries, cur, resume, now)
        BY <3>4 DEF StopStep, SavedOr
      <4>2. QED
        BY <1>3, <4>1
    <3>5. QED
      BY <1>6, <3>1, <3>2, <3>3, <3>4 DEF OtherStep
  <2>8. QED
    BY <2>3, <2>4, <2>5, <2>6, <2>7, NumberedAfter DEF m
<1>7. QED
  BY <1>4, <1>5, <1>6, OtherSteps

LEMMA FollowsAndNumbered == Spec => [](Follows /\ Numbered)
<1>1. Init => Follows /\ Numbered
  <2>1. Init => Follows
    BY DEF Init, Follows, NoListen
  <2>2. Init => Numbered
    BY NothingToLoad DEF Init, Numbered, NoListen, RowsBy, PlayBy, FileBy
  <2>3. QED
    BY <2>1, <2>2
<1>2. QED
  BY <1>1, InvHolds, FollowsKept, NumberedKept, PTL DEF Spec

-----------------------------------------------------------------------------
(* A song taken out while it plays stays out.                              *)

(* A late album is found to be the song's.                                 *)
AlbumsAreTold == world.lateAlbum => Songs \subseteq Plain

(* The listen that was taken out is ignored as long as it goes on, under   *)
(* the name it has now; while it may come back from the file there is none.*)
TakenOut ==
  /\ ~enabled => out = 0
  /\ out # 0 => resume = None
  /\ out <= heard.number
  /\ out # 0 /\ out = heard.number =>
       /\ cur = None
       /\ ~heard.over => ignore # None /\ ignore = KeyOf(heard) /\ gone = heard.quiet
  /\ RemovedStaysOut

LEMMA AlbumSet ==
  ASSUME NEW k \in Key
  PROVE  [k EXCEPT !.album = TRUE] = [song |-> k.song, album |-> TRUE]
<1>1. \A a, b : (\A f \in {"song", "album"} : a[f] = b[f])
        => [x \in {"song", "album"} |-> a[x]] = [x \in {"song", "album"} |-> b[x]]
  OBVIOUS
<1> DEFINE x == [k EXCEPT !.album = TRUE]
           y == [song |-> k.song, album |-> TRUE]
<1>2. x \in Key /\ y \in Key
  BY DEF Key
<1>3. x.song = k.song /\ y.song = k.song /\ x.album = TRUE /\ y.album = TRUE
  BY DEF Key
<1> HIDE DEF x, y
<1>4. x = [f \in {"song", "album"} |-> x[f]] /\ y = [f \in {"song", "album"} |-> y[f]]
  BY <1>2, SMT DEF Key
<1>5. QED
  BY <1>1, <1>3, <1>4 DEF x, y

(* What is ignored is ignored with the album that turned up.               *)
LEMMA StaysIgnored ==
  ASSUME Follows, AlbumsAreTold, NEW dt, NEW s \in SongShown, heard.album \in BOOLEAN,
         ~heard.over, ignore # None, ignore = KeyOf(heard),
         Shows(s, heard'), Continues(s, dt)
  PROVE  StillOut(s)
<1>1. heard.song = s.song /\ s.album \in AlbumShows(heard.album) /\ s.song \in Songs
      /\ s.album \in BOOLEAN
  BY DEF Shows, Continues, SongShown
<1>2. ignore = [song |-> s.song, album |-> heard.album]
  BY <1>1 DEF KeyOf
<1>3. CASE heard.album
  <2>1. s.album = TRUE
    BY <1>1, <1>3 DEF AlbumShows
  <2>2. IgnoredNow(s) = ignore
    BY <1>2, <1>3 DEF IgnoredNow, FillsIn
  <2>3. ignore.song = s.song /\ heard.album = TRUE
    BY <1>2, <1>3, <2>1, <2>2
  <2>4. QED
    BY <1>2, <1>3, <2>1, <2>2 DEF StillOut, KeyOf
<1>4. CASE ~heard.album
  <2>1. s.song \in Plain
    BY <1>1, <1>4 DEF Follows, AlbumsAreTold
  <2>2. ignore.song = s.song /\ ~ignore.album
    BY <1>2, <1>4
  <2>3. CASE s.album
    <3>1. IgnoredNow(s) = [ignore EXCEPT !.album = TRUE]
      BY <2>1, <2>2, <2>3 DEF IgnoredNow, FillsIn
    <3>2. [ignore EXCEPT !.album = TRUE] = [song |-> s.song, album |-> TRUE]
      <4>1. ignore \in Key /\ ignore.song = s.song
        BY <1>1, <1>2, <2>2 DEF Key
      <4>2. QED
        BY <4>1, AlbumSet
    <3>3. IgnoredNow(s) = [song |-> s.song, album |-> s.album]
      BY <1>1, <2>3, <3>1, <3>2
    <3>4. IgnoredNow(s) # None
      <4>1. FillsIn(ignore, s)
        BY <2>1, <2>2, <2>3 DEF FillsIn
      <4>2. IgnoredNow(s) \in Key
        BY <1>1, <3>3 DEF Key
      <4>3. QED
        BY <4>2, NoneIsNoEntry
    <3>5. QED
      BY <3>3, <3>4 DEF StillOut, KeyOf
  <2>4. CASE ~s.album
    <3>1. IgnoredNow(s) = ignore
      BY <2>4 DEF IgnoredNow, FillsIn
    <3>2. s.album = heard.album
      <4>1. heard.album = FALSE /\ s.album = FALSE
        BY <1>1, <1>4, <2>4
      <4>2. QED
        BY <4>1
    <3>3. QED
      BY <1>2, <3>1, <3>2 DEF StillOut, KeyOf
  <2>5. QED
    BY <2>3, <2>4
<1>5. QED
  BY <1>3, <1>4

LEMMA TakenOutPoll ==
  ASSUME Inv, Follows, Numbered, TakenOut, AlbumsAreTold, enabled,
         NEW dt \in 1 .. MaxStep, SongPoll(dt)
  PROVE  TakenOut'
<1>1. /\ UNCHANGED <<world, enabled, out>> /\ now + dt \in Nat /\ out \in Nat
      /\ heard.number \in Nat /\ heard.album \in BOOLEAN
  <2>1. heard \in Listen
    BY InvFacts DEF RestOK
  <2>2. heard.album \in BOOLEAN /\ heard.number \in Nat
    BY <2>1 DEF Listen
  <2>3. QED
    BY <2>2, PollFacts, InvFacts DEF SongPoll, RestOK
<1>2. gone' = None /\ heard'.quiet = None
  BY SongPollMade, SongPollHears
<1>3. PICK s \in SongShown : /\ PollMade(s, now + dt, dt) /\ Shows(s, heard')
                             /\ Continues(s, dt) \/ Another
  BY SongPollMade
<1>4. KeyOf(s) = KeyOf(heard') /\ s.listen = heard'.number
  BY <1>3 DEF Shows, KeyOf
<1>5. resume' \in {resume, None}
  BY <1>3 DEF PollMade, WentOn, LeftOut, Begun
<1>6. CASE out # 0 /\ out = heard.number /\ Continues(s, dt)
  <2>1. cur = None /\ ~heard.over /\ ignore # None /\ ignore = KeyOf(heard)
        /\ heard'.number = heard.number
    BY <1>6 DEF TakenOut, Continues
  <2>2. StillOut(s)
    BY <1>1, <1>3, <1>6, <2>1, StaysIgnored
  <2>3. ~StillOn(s)
    BY <2>1 DEF StillOn, SameSong, FilledIn
  <2>4. LeftOut(s)
    BY <1>3, <2>2, <2>3 DEF PollMade
  <2>5. cur' = None /\ ignore' = KeyOf(s)
    BY <2>4 DEF LeftOut
  <2>6. ignore' # None
    <3>1. KeyOf(s) \in Key
      BY DEF KeyOf, Key, SongShown
    <3>2. QED
      BY <2>5, <3>1, NoneIsNoEntry
  <2>7. QED
    BY <1>1, <1>2, <1>4, <1>5, <2>1, <2>5, <2>6 DEF TakenOut, RemovedStaysOut, KeyOf
<1>7. CASE ~(out # 0 /\ out = heard.number /\ Continues(s, dt))
  <2>1. out = 0 \/ out < heard'.number
    <3>1. out <= heard.number
      BY DEF TakenOut
    <3>2. heard'.number = heard.number \/ heard'.number = heard.number + 1
      BY <1>3 DEF Continues, Another
    <3>3. heard'.number = heard.number => out = 0 \/ out # heard.number
      <4>1. Another => heard'.number # heard.number
        BY <1>1 DEF Another
      <4>2. Continues(s, dt) => out = 0 \/ out # heard.number
        BY <1>7
      <4>3. QED
        BY <1>3, <4>1, <4>2
    <3>4. QED
      BY <1>1, <3>1, <3>2, <3>3
  <2>2. heard'.number \in Nat /\ heard'.number >= 1
    <3>1. Numbered' /\ ~heard'.over
      BY NumberedKept, SongPollHears DEF Next
    <3>2. heard'.number \in Nat
      BY NumbersGrow DEF Next
    <3>3. QED
      BY <3>1, <3>2 DEF Numbered
  <2>3. ASSUME cur' # None PROVE cur'.entry.listen # out
    <3>1. CASE WentOn(s, dt)
      BY <3>1 DEF WentOn, TakenOut, RemovedStaysOut
    <3>2. CASE LeftOut(s)
      BY <2>3, <3>2 DEF LeftOut
    <3>3. CASE Begun(s, now + dt)
      <4>1. \/ resume # None /\ cur'.entry.listen = resume.entry.listen
            \/ cur'.entry.listen = s.listen
        BY <1>1, <2>3, <3>3, BegunFields
      <4>2. resume # None => out = 0 /\ resume.entry.listen \in 1 .. heard.number
        BY DEF TakenOut, Numbered, PlayBy
      <4>3. QED
        BY <1>1, <1>4, <2>1, <2>2, <4>1, <4>2
    <3>4. QED
      BY <1>3, <3>1, <3>2, <3>3 DEF PollMade
  <2>4. out' <= heard'.number /\ ~(out' # 0 /\ out' = heard'.number)
    BY <1>1, <2>1, <2>2
  <2>5. (~enabled' => out' = 0) /\ (out' # 0 => resume' = None)
    BY <1>1, <1>5 DEF TakenOut
  <2>6. RemovedStaysOut'
    BY <1>1, <2>3 DEF RemovedStaysOut
  <2>7. QED
    BY <2>4, <2>5, <2>6 DEF TakenOut
<1>8. QED
  BY <1>6, <1>7

LEMMA TakenOutKept ==
  Inv /\ Follows /\ Numbered /\ (AlbumsAreTold => TakenOut) /\ [Next]_vars
    => (AlbumsAreTold => TakenOut)'
<1> SUFFICES ASSUME Inv, Follows, Numbered, AlbumsAreTold => TakenOut, [Next]_vars,
                    AlbumsAreTold'
             PROVE  TakenOut'
  OBVIOUS
<1>0. world' = world
  BY OtherSteps DEF SongPoll, NothingPoll, Poll, OtherStep
<1>1. AlbumsAreTold /\ TakenOut
  BY <1>0 DEF AlbumsAreTold
<1>2. /\ ~enabled => cur = None /\ resume = None
      /\ cur \in Play \cup {None} /\ resume \in Record \cup {None} /\ heard \in Listen
      /\ enabled \in BOOLEAN /\ (cur = None \/ resume = None) /\ out \in Nat
      /\ heard.number \in Nat /\ heard'.number \in Nat
  BY InvFacts, NumbersGrow DEF RestOK, MemoryOK
<1>3. ASSUME NEW dt \in 1 .. MaxStep, SongPoll(dt) PROVE TakenOut'
  <2>1. CASE enabled
    BY <1>1, <1>3, <2>1, TakenOutPoll
  <2>2. CASE ~enabled
    <3>1. UNCHANGED <<enabled, out>>
      BY <1>3 DEF SongPoll, Poll
    <3>2. cur' = None /\ resume' = None /\ out = 0
      BY <1>1, <1>2, <1>3, <2>2, SongPollHears DEF Update, TakenOut
    <3>3. QED
      BY <1>2, <3>1, <3>2 DEF TakenOut, RemovedStaysOut
  <2>3. QED
    BY <2>1, <2>2
<1>4. ASSUME NEW dt \in 1 .. MaxStep, NothingPoll(dt) PROVE TakenOut'
  <2> DEFINE t == now + dt
  <2>1. NothingHeard(t) /\ NothingLeft(t)
    BY <1>4, NothingMade
  <2>2. t \in Nat
    BY <1>4, PollFacts DEF NothingPoll
  <2> HIDE DEF t
  <2>3. /\ UNCHANGED <<enabled, out, resume>> /\ cur' \in {cur, None}
        /\ heard'.number = heard.number /\ KeyOf(heard') = KeyOf(heard)
        /\ (heard.over => heard'.over)
        /\ (~heard.over => heard'.quiet = QuietSince(t) /\ heard'.over = OverBy(t))
    BY <2>1 DEF NothingHeard, NothingLeft, KeyOf
  <2>4. ASSUME out # 0, out = heard.number, ~heard'.over
        PROVE  ignore' # None /\ ignore' = KeyOf(heard') /\ gone' = heard'.quiet
    <3>1. /\ ~heard.over /\ ignore # None /\ ignore = KeyOf(heard) /\ gone = heard.quiet
          /\ resume = None /\ enabled
      BY <1>1, <1>2, <2>3, <2>4 DEF TakenOut
    <3>2. GoneSince(t) = QuietSince(t)
      BY <3>1 DEF GoneSince, QuietSince
    <3>3. ~(t - QuietSince(t) > GoneGrace)
      BY <2>3, <2>4, <3>1 DEF OverBy
    <3>4. WithinGrace(t)
      <4>1. QuietSince(t) \in Nat
        BY <1>2, <2>2 DEF QuietSince, Listen, Position
      <4>2. QED
        BY <2>2, <3>2, <3>3, <4>1, Constants DEF WithinGrace
    <3>5. gone' = GoneSince(t) /\ ignore' = ignore
      BY <2>1, <3>1, <3>4 DEF NothingLeft
    <3>6. QED
      BY <2>3, <3>1, <3>2, <3>5
  <2>5. KeyOf(heard)' = KeyOf(heard')
    BY DEF KeyOf
  <2>6. out # 0 /\ out = heard.number => cur' = None
    BY <1>1, <2>3 DEF TakenOut
  <2>7. QED
    BY <1>1, <2>3, <2>4, <2>5, <2>6 DEF TakenOut, RemovedStaysOut
<1>5. CASE OtherStep
  <2>1. CASE KeptStep
    <3>1. UNCHANGED <<heard, enabled, ignore, gone, out>>
      BY <2>1 DEF KeptStep
    <3>2. /\ cur' = None <=> cur = None
          /\ resume' = None <=> resume = None
          /\ cur # None => cur'.entry.listen = cur.entry.listen
      BY <2>1 DEF KeptStep, SamePlayAs
    <3>3. QED
      BY <1>1, <3>1, <3>2 DEF TakenOut, RemovedStaysOut, KeyOf
  <2>2. CASE RemoveStep
    <3>1. PICK line, c, r :
            /\ UNCHANGED <<heard, enabled, gone>>
            /\ c = IF cur # None /\ SamePlay(cur.entry, line) THEN None ELSE cur
            /\ r = ForgetTheSaved(line)
            /\ SamePlayAs(cur', c) /\ resume' = r
            /\ ignore' = IF c # cur THEN KeyOf(cur.entry) ELSE ignore
            /\ out' = IF c # cur THEN cur.entry.listen ELSE out
      BY <2>2 DEF RemoveStep
    <3>2. resume' # None => resume # None
      BY <3>1 DEF ForgetTheSaved
    <3>3. CASE c = cur
      <4>1. /\ UNCHANGED <<heard, enabled, ignore, gone, out>>
            /\ cur' = None <=> cur = None
            /\ cur # None => cur'.entry.listen = cur.entry.listen
        BY <3>1, <3>3 DEF SamePlayAs
      <4>2. QED
        BY <1>1, <3>2, <4>1 DEF TakenOut, RemovedStaysOut, KeyOf
    <3>4. CASE c # cur
      <4>1. /\ c = None /\ cur # None /\ cur' = None /\ enabled /\ resume = None
            /\ ignore' = KeyOf(cur.entry) /\ out' = cur.entry.listen
        BY <1>2, <3>1, <3>4 DEF SamePlayAs
      <4>2. out' \in 1 .. heard.number
        BY <4>1 DEF Numbered, PlayBy
      <4>3. KeyOf(cur.entry) = KeyOf(heard) /\ gone = heard.quiet
        BY <4>1 DEF Follows
      <4>4. ignore' # None
        <5>1. KeyOf(cur.entry) \in Key
          BY <1>2, <4>1 DEF KeyOf, Key, Play, Entry
        <5>2. QED
          BY <4>1, <5>1, NoneIsNoEntry
      <4>5. QED
        BY <1>2, <3>1, <3>2, <4>1, <4>2, <4>3, <4>4 DEF TakenOut, RemovedStaysOut, KeyOf
    <3>5. QED
      BY <3>3, <3>4
  <2>3. CASE EmptyStep \/ StopStep \/ LoadStep
    <3>1. cur' = None /\ out' = 0
      BY <1>1, <2>3 DEF EmptyStep, StopStep, LoadStep, TakenOut
    <3>2. QED
      BY <1>2, <3>1 DEF TakenOut, RemovedStaysOut
  <2>4. QED
    BY <1>5, <2>1, <2>2, <2>3 DEF OtherStep
<1>6. QED
  BY <1>3, <1>4, <1>5, OtherSteps

(* A song the user takes out while it plays is not the song on right now   *)
(* again, however long the listen goes on, through polls without a song and*)
(* with an album that turns up, where the album is recognised as its own.  *)
THEOREM OutStaysOut == Spec => [](AlbumsAreTold => RemovedStaysOut)
<1>1. Init => (AlbumsAreTold => TakenOut)
  BY DEF Init, TakenOut, RemovedStaysOut, NoListen
<1>2. (AlbumsAreTold => TakenOut) => (AlbumsAreTold => RemovedStaysOut)
  BY DEF TakenOut
<1>3. QED
  BY <1>1, <1>2, InvHolds, FollowsAndNumbered, TakenOutKept, PTL DEF Spec

-----------------------------------------------------------------------------
(* One listen is one row.                                                  *)

(* What is written may be read again.                                      *)
Reloads == Restarts \/ world.writesMayFail

LengthsTold == \A song \in Songs : 0 \in world.lengths[song] => world.lengths[song] = {0}

(* Where the file may be read again, the song is found where it was left.  *)
RowsFoundAgain == Reloads => ~world.lateAlbum /\ world.seekTo = {} /\ LengthsTold

Has(list, n) == \E i \in 1 .. Len(list) : list[i].listen = n

Distinct(list) == \A i, j \in 1 .. Len(list) : list[i].listen = list[j].listen => i = j

(* One row of each listen; that of the play p only when it has counted; that
   of the listen h under way only when p is its play.                      *)
Once(list, p, h) ==
  /\ Distinct(list)
  /\ p # None /\ ~p.counted => ~Has(list, p.entry.listen)
  /\ ~h.over /\ Has(list, h.number) => p # None /\ p.counted /\ p.entry.listen = h.number

(* The listen under way is where the saved song r will be compared with it.*)
HeardIn(r, h, n) ==
  r # None /\ ~h.over /\ r.entry.listen = h.number =>
    /\ KeyOf(r.entry) = KeyOf(h)
    /\ r.pos = None \/ (r.pos <= h.pos /\ h.pos <= r.pos + (n - r.at))

LengthTold(p) == p # None /\ p.entry.dur = 0 => 0 \in world.lengths[p.entry.song]

Latest(c, r) == IF c # None THEN c ELSE r

MemoryOnce(list, c, r, h) == Once(list, Latest(c, r), h)

FileOnce(f, h, n) ==
  /\ Once(LoadedRows(f), LoadedSong(f), h)
  /\ HeardIn(LoadedSong(f), h, n) /\ LengthTold(LoadedSong(f))

OneRow ==
  /\ MemoryOnce(entries, cur, resume, heard)
  /\ ~Reloads => resume = None
  /\ Reloads => /\ HeardIn(resume, heard, now) /\ LengthTold(cur) /\ LengthTold(resume)
                /\ FileOnce(file, heard, now)

(* Before the first start there is nothing.                                *)
NothingYet == ~Restarts /\ ~up => file = None

LEMMA NothingYetKept == Inv /\ NothingYet /\ [Next]_vars => NothingYet'
<1> SUFFICES ASSUME Inv, NothingYet, [Next]_vars, ~Restarts', ~up'
             PROVE  file' = None
  BY DEF NothingYet
<1>1. CASE UNCHANGED vars
  BY <1>1 DEF NothingYet, Restarts, vars, disk
<1>2. CASE Next
  <2>1. world' = world
    BY OtherSteps DEF SongPoll, NothingPoll, Poll, OtherStep
  <2>2. ~world.quits /\ ~world.crashes
    BY <2>1 DEF Restarts
  <2>3. ~Shutdown /\ ~Crash
    BY <2>2 DEF Shutdown, Crash
  <2>4. /\ \A dt \in 1 .. MaxStep : ~SongPoll(dt) /\ ~NothingPoll(dt)
        /\ ~Reconfigure /\ ~Start
    <3>1. \A dt : ~Poll(dt)
      BY DEF Poll
    <3>2. ~Reconfigure
      BY DEF Reconfigure
    <3>3. ~Start
      BY DEF Start
    <3>4. QED
      BY <3>1, <3>2, <3>3 DEF SongPoll, NothingPoll
  <2>5. ~Event
    BY DEF Event
  <2>6. ~Clear /\ \A c \in [on : BOOLEAN, limit : Limits] : ~Configure(c)
    BY <2>5 DEF Clear, Configure
  <2>7. \A song \in Songs : ~MarkScrobbled(song)
    BY <2>5 DEF MarkScrobbled
  <2>8. \A line : ~Remove(line)
    BY <2>5 DEF Remove
  <2>9. QED
    BY <1>2, <2>3, <2>4, <2>6, <2>7, <2>8 DEF Next
<1>3. QED
  BY <1>1, <1>2

LEMMA OffHolds == Spec => [](OffInv /\ NothingYet)
<1>1. Init => OffInv /\ NothingYet
  BY DEF Init, OffInv, NothingYet, Restarts
<1>2. QED
  BY <1>1, InvHolds, OffKept, NothingYetKept, PTL DEF Spec

(* ~Reloads: nothing is there to load.                                     *)
LEMMA NothingThere ==
  ASSUME Inv, OffInv, NothingYet, ~Reloads, ~enabled
  PROVE  file = None
<1>1. up \in BOOLEAN
  BY InvFacts DEF RestOK
<1>2. QED
  BY <1>1 DEF OffInv, NothingYet, Reloads

LEMMA HasInDrawn ==
  ASSUME NEW a, NEW b, Drawn(a, b), NEW n, Has(a, n)
  PROVE  Has(b, n)
  BY DEF Drawn, Has

LEMMA DistinctDrawn ==
  ASSUME NEW a, NEW b, Drawn(a, b), Distinct(b)
  PROVE  Distinct(a)
<1>1. PICK f \in [1 .. Len(a) -> 1 .. Len(b)] :
        /\ \A i \in 1 .. Len(a) : a[i].listen = b[f[i]].listen
        /\ \A i, j \in 1 .. Len(a) : f[i] = f[j] => i = j
  BY DEF Drawn
<1>2. SUFFICES ASSUME NEW i \in 1 .. Len(a), NEW j \in 1 .. Len(a), a[i].listen = a[j].listen
               PROVE  i = j
  BY DEF Distinct
<1>3. f[i] \in 1 .. Len(b) /\ f[j] \in 1 .. Len(b)
  BY <1>1
<1>4. b[f[i]].listen = b[f[j]].listen
  BY <1>1, <1>2
<1>5. f[i] = f[j]
  BY <1>3, <1>4 DEF Distinct
<1>6. QED
  BY <1>1, <1>5

(* Fewer rows of the same play, while the listen goes on or is over.       *)
LEMMA OnceDrawn ==
  ASSUME NEW a, NEW b, Drawn(a, b), NEW p, NEW q, SamePlayAs(q, p),
         NEW h, NEW g, g.number = h.number, h.over => g.over, Once(b, p, h)
  PROVE  Once(a, q, g)
<1>1. Distinct(a)
  BY DistinctDrawn DEF Once
<1>2. ASSUME q # None, ~q.counted PROVE ~Has(a, q.entry.listen)
  <2>1. p # None /\ ~p.counted /\ q.entry.listen = p.entry.listen
    BY <1>2 DEF SamePlayAs
  <2>2. QED
    BY <2>1, HasInDrawn DEF Once
<1>3. ASSUME ~g.over, Has(a, g.number)
      PROVE  q # None /\ q.counted /\ q.entry.listen = g.number
  <2>1. ~h.over /\ Has(b, h.number)
    BY <1>3, HasInDrawn
  <2>2. p # None /\ p.counted /\ p.entry.listen = h.number
    BY <2>1 DEF Once
  <2>3. QED
    BY <2>2 DEF SamePlayAs
<1>4. QED
  BY <1>1, <1>2, <1>3 DEF Once

LEMMA OnceNoRows ==
  ASSUME NEW p, NEW h
  PROVE  Once(<<>>, p, h)
  BY DEF Once, Has, Distinct

(* The next listen has no row yet.                                         *)
LEMMA OnceNext ==
  ASSUME NEW list, NEW p, NEW h, NEW g, Once(list, p, h), h.number \in Nat, g.number \in Nat,
         RowsBy(list, h.number), h.number < g.number
  PROVE  Once(list, p, g) /\ ~Has(list, g.number)
<1>1. ~Has(list, g.number)
  <2>1. g.number \notin 1 .. h.number
    OBVIOUS
  <2>2. QED
    BY <2>1 DEF Has, RowsBy
<1>2. QED
  BY <1>1 DEF Once

LEMMA RecordIsSame ==
  ASSUME NEW c, c # None, NEW t, NEW f, f = RecordOf(c, t), f # None
  PROVE  SamePlayAs(f, c) /\ f.at = t
  BY DEF RecordOf, SamePlayAs

(* What is saved of a memory with one row of each listen has one of each.  *)
LEMMA SavedOnce ==
  ASSUME NEW list, NEW c, NEW r, NEW n \in Nat, NEW t \in Nat, NEW h,
         MemoryOK(list, c, r, n), FileOK(file, n), SavedOr(list, c, r, t),
         Once(list, Latest(c, r), h), HeardIn(r, h, t), LengthTold(c), LengthTold(r),
         c # None /\ ~h.over => KeyOf(c.entry) = KeyOf(h) /\ c.pos \in {h.pos, None},
         h.pos \in Nat, FileOnce(file, h, t)
  PROVE  FileOnce(file', h, t)
<1>1. CASE file' = file
  BY <1>1
<1>2. CASE file' = Damaged
  BY <1>2, NothingToLoad, OnceNoRows DEF FileOnce, HeardIn, LengthTold
<1>3. CASE /\ LoadedRows(file') = list /\ file' \notin {None, Damaged}
           /\ LoadedSong(file') = IF c # None THEN RecordOf(c, t) ELSE r
  <2>1. list \in Seq(Entry) /\ c \in Play \cup {None}
    BY DEF MemoryOK
  <2>2. CASE c = None
    BY <1>3, <2>2 DEF FileOnce, Latest
  <2>3. CASE c # None
    <3> DEFINE f == RecordOf(c, t)
    <3>1. f \in Record /\ f # None
      BY <2>1, <2>3, RecordFields, NoneIsNoEntry
    <3>2. f = RecordOf(c, t)
      OBVIOUS
    <3> HIDE DEF f
    <3>3. SamePlayAs(f, c) /\ f.at = t
      BY <2>3, <3>1, <3>2, RecordIsSame
    <3>4. Drawn(list, list)
      BY <2>1, DrawnSame DEF SameRows, SamePlay
    <3>5. Once(list, f, h)
      BY <2>3, <3>3, <3>4, OnceDrawn DEF Latest
    <3>6. LengthTold(f)
      BY <2>3, <3>3 DEF LengthTold, SamePlayAs
    <3>7. HeardIn(f, h, t)
      <4>1. f.entry.song = c.entry.song /\ f.entry.album = c.entry.album /\ f.pos = c.pos
        BY <2>3, <3>3 DEF SamePlayAs
      <4>2. KeyOf(f.entry) = KeyOf(c.entry)
        BY <4>1 DEF KeyOf
      <4>3. f.pos = h.pos => f.pos <= h.pos /\ h.pos <= f.pos + (t - f.at)
        BY <3>3
      <4>4. QED
        BY <2>3, <4>1, <4>2, <4>3 DEF HeardIn
    <3>8. QED
      BY <1>3, <2>3, <3>2, <3>5, <3>6, <3>7 DEF FileOnce
  <2>4. QED
    BY <2>2, <2>3
<1>4. QED
  BY <1>1, <1>2, <1>3, SavedToLoad

(* What a step does to the listen under way.                               *)
LEMMA HeardMoves ==
  ASSUME Inv, [Next]_vars
  PROVE  /\ heard.number \in Nat /\ heard'.number \in Nat
         /\ \/ heard'.number = heard.number /\ (heard.over => heard'.over)
            \/ heard.number < heard'.number
<1>1. heard.number \in Nat /\ heard'.number \in Nat /\ heard \in Listen
  BY NumbersGrow, InvFacts DEF RestOK
<1>2. ASSUME NEW dt \in 1 .. MaxStep, SongPoll(dt)
      PROVE  \/ heard'.number = heard.number /\ (heard.over => heard'.over)
             \/ heard.number < heard'.number
  <2>1. (~heard.over /\ heard'.number = heard.number) \/ heard'.number = heard.number + 1
    BY <1>2, SongPollHears DEF Continues, Another
  <2>2. QED
    BY <1>1, <2>1
<1>3. ASSUME NEW dt \in 1 .. MaxStep, NothingPoll(dt)
      PROVE  heard'.number = heard.number /\ (heard.over => heard'.over)
  BY <1>3, NothingMade DEF NothingHeard
<1>4. OtherStep => heard'.number = heard.number /\ (heard.over => heard'.over)
  <2>1. OtherStep => heard' \in {heard, HeardAfresh}
    BY DEF OtherStep, KeptStep, RemoveStep, EmptyStep, LoadStep, StopStep
  <2>2. HeardAfresh.number = heard.number /\ HeardAfresh.over = heard.over
    BY <1>1 DEF HeardAfresh, Listen
  <2>3. QED
    BY <2>1, <2>2
<1>5. QED
  BY <1>1, <1>2, <1>3, <1>4, OtherSteps

LEMMA ContinuesPlace ==
  ASSUME NEW dt \in Nat, NEW s, Continues(s, dt), world.seekTo = {}
  PROVE  heard'.pos \in {heard.pos, heard.pos + dt}
<1>1. SoughtTo(heard.pos) = {}
  BY DEF SoughtTo
<1>2. QED
  BY <1>1 DEF Continues, Places

LEMMA HeardStays ==
  ASSUME Inv, Follows, ~world.lateAlbum, world.seekTo = {}, [Next]_vars,
         ~heard'.over, heard'.number = heard.number
  PROVE  /\ ~heard.over /\ KeyOf(heard') = KeyOf(heard)
         /\ heard.pos <= heard'.pos /\ heard'.pos <= heard.pos + (now' - now)
<1>1. heard.number \in Nat /\ heard \in Listen /\ heard.pos \in Nat /\ now \in Nat
      /\ (heard.over => heard'.over)
  <2>1. heard \in Listen /\ now \in Nat
    BY InvFacts DEF RestOK
  <2>2. heard.over => heard'.over
    BY HeardMoves
  <2>3. QED
    BY <2>1, <2>2 DEF Listen
<1>2. heard.album
  BY <1>1 DEF Follows
<1>3. ASSUME NEW dt \in 1 .. MaxStep, SongPoll(dt)
      PROVE  /\ KeyOf(heard') = KeyOf(heard)
             /\ heard.pos <= heard'.pos /\ heard'.pos <= heard.pos + (now' - now)
  <2>1. now' = now + dt /\ dt \in Nat
    BY <1>3, PollFacts DEF SongPoll
  <2>2. PICK s \in SongShown : Continues(s, dt) \/ Another
    BY <1>3, SongPollHears
  <2>3. ~Another
    <3>1. Another => heard'.number = heard.number + 1
      BY DEF Another
    <3>2. QED
      BY <1>1, <3>1
  <2>4. heard'.song = heard.song /\ heard'.album \in AlbumShows(heard.album)
        /\ heard'.pos \in {heard.pos, heard.pos + dt}
    BY <2>1, <2>2, <2>3, ContinuesPlace DEF Continues
  <2>5. heard'.album = TRUE /\ heard.album = TRUE
    BY <1>1, <1>2, <2>4 DEF AlbumShows, Listen
  <2>6. KeyOf(heard') = KeyOf(heard)
    BY <2>4, <2>5 DEF KeyOf
  <2>7. heard.pos <= heard'.pos /\ heard'.pos <= heard.pos + (now' - now)
    BY <1>1, <2>1, <2>4
  <2>8. QED
    BY <2>6, <2>7
<1>4. ASSUME heard'.song = heard.song, heard'.album = heard.album, heard'.pos = heard.pos,
             now' - now \in Nat
      PROVE  /\ KeyOf(heard') = KeyOf(heard)
             /\ heard.pos <= heard'.pos /\ heard'.pos <= heard.pos + (now' - now)
  BY <1>1, <1>4 DEF KeyOf
<1>5. ASSUME NEW dt \in 1 .. MaxStep, NothingPoll(dt)
      PROVE  /\ heard'.song = heard.song /\ heard'.album = heard.album /\ heard'.pos = heard.pos
             /\ now' - now \in Nat
  <2>1. NothingHeard(now + dt) /\ dt \in Nat
    BY <1>5, NothingMade, PollFacts DEF NothingPoll
  <2>2. QED
    BY <1>1, <2>1 DEF NothingHeard
<1>6. ASSUME OtherStep
      PROVE  /\ heard'.song = heard.song /\ heard'.album = heard.album /\ heard'.pos = heard.pos
             /\ now' - now \in Nat
  <2>1. heard' \in {heard, HeardAfresh} /\ now' = now
    BY <1>6 DEF OtherStep, KeptStep, RemoveStep, EmptyStep, LoadStep, StopStep
  <2>2. /\ HeardAfresh.song = heard.song /\ HeardAfresh.pos = heard.pos
        /\ HeardAfresh.album = heard.album
    BY <1>1, <1>2 DEF HeardAfresh, Listen
  <2>3. QED
    BY <1>1, <2>1, <2>2
<1>7. QED
  BY <1>1, <1>3, <1>4, <1>5, <1>6, OtherSteps

LEMMA OnceLater ==
  ASSUME Inv, [Next]_vars, NEW list, NEW p, Once(list, p, heard), RowsBy(list, heard.number)
  PROVE  Once(list, p, heard')
<1>1. CASE heard'.number = heard.number /\ (heard.over => heard'.over)
  BY <1>1 DEF Once
<1>2. CASE heard.number < heard'.number
  BY <1>2, HeardMoves, OnceNext
<1>3. QED
  BY <1>1, <1>2, HeardMoves

LEMMA HeardInLater ==
  ASSUME Inv, Follows, ~world.lateAlbum, world.seekTo = {}, [Next]_vars,
         NEW r \in Record \cup {None}, PlayBy(r, heard.number), HeardIn(r, heard, now)
  PROVE  HeardIn(r, heard', now')
<1> SUFFICES ASSUME r # None, ~heard'.over, r.entry.listen = heard'.number
             PROVE  /\ KeyOf(r.entry) = KeyOf(heard')
                    /\ \/ r.pos = None
                       \/ r.pos <= heard'.pos /\ heard'.pos <= r.pos + (now' - r.at)
  BY DEF HeardIn
<1>1. heard'.number = heard.number
  <2>1. r.entry.listen \in 1 .. heard.number
    BY DEF PlayBy
  <2>2. QED
    BY <2>1, HeardMoves
<1>2. /\ ~heard.over /\ KeyOf(heard') = KeyOf(heard)
      /\ heard.pos <= heard'.pos /\ heard'.pos <= heard.pos + (now' - now)
  BY <1>1, HeardStays
<1>3. /\ KeyOf(r.entry) = KeyOf(heard)
      /\ r.pos = None \/ (r.pos <= heard.pos /\ heard.pos <= r.pos + (now - r.at))
  BY <1>1, <1>2 DEF HeardIn
<1>4. /\ r.pos \in Nat \cup {None} /\ r.at \in Nat /\ now \in Nat /\ now' \in Nat
      /\ heard.pos \in Nat /\ heard'.pos \in Nat
  <2>1. RestOK /\ RestOK'
    BY InvFacts, InvKept, InvParts
  <2>2. heard \in Listen /\ heard' \in Listen /\ now \in Nat /\ now' \in Nat
    BY <2>1 DEF RestOK
  <2>3. QED
    BY <2>2 DEF Record, Position, Listen
<1>5. r.pos # None => r.pos <= heard'.pos /\ heard'.pos <= r.pos + (now' - r.at)
  BY <1>2, <1>3, <1>4
<1>6. QED
  BY <1>2, <1>3, <1>5

LEMMA FileOnceLater ==
  ASSUME Inv, Follows, Numbered, ~world.lateAlbum, world.seekTo = {}, [Next]_vars,
         FileOnce(file, heard, now)
  PROVE  FileOnce(file, heard', now')
<1>1. LoadedSong(file) \in Record \cup {None}
  BY InvFacts, LoadedSongFields
<1>2. RowsBy(LoadedRows(file), heard.number) /\ PlayBy(LoadedSong(file), heard.number)
  BY DEF Numbered, FileBy
<1>3. Once(LoadedRows(file), LoadedSong(file), heard')
  BY <1>2, OnceLater DEF FileOnce
<1>4. HeardIn(LoadedSong(file), heard', now')
  BY <1>1, <1>2, HeardInLater DEF FileOnce
<1>5. QED
  BY <1>3, <1>4 DEF FileOnce

-----------------------------------------------------------------------------
(* A poll with the song that was on.                                       *)

(* While the listen goes on, the play in progress does.                    *)
LEMMA StaysOn ==
  ASSUME Inv, Follows, AlbumsAreTold, NEW dt \in Nat, NEW s \in SongShown,
         cur # None, Shows(s, heard'), Continues(s, dt)
  PROVE  StillOn(s)
<1> DEFINE d == FilledIn(cur, s)
<1>1. cur \in Play /\ heard.pos \in Nat /\ heard.album \in BOOLEAN
  <2>1. heard \in Listen
    BY InvFacts DEF RestOK
  <2>2. QED
    BY <2>1, InvFacts DEF Listen
<1>2. cur.entry.song = heard.song /\ cur.entry.album = heard.album /\ cur.pos \in {heard.pos, None}
      /\ ~heard.over
  BY DEF Follows, KeyOf
<1>3. s.song = heard.song /\ s.album \in AlbumShows(heard.album) /\ s.song \in Songs
      /\ s.album \in BOOLEAN /\ s.pos \in {heard'.pos, None} /\ ~s.restarted
  BY DEF Shows, Continues, SongShown
<1>4. d \in Play /\ d # None /\ d.entry.song = cur.entry.song /\ d.pos = cur.pos
  BY <1>1, FilledInFields
<1>5. d.entry.album = s.album
  <2>1. CASE heard.album
    <3>1. s.album = TRUE /\ cur.entry.album = TRUE
      BY <1>2, <1>3, <2>1 DEF AlbumShows
    <3>2. d = cur
      BY <3>1 DEF FilledIn, FillsIn, KeyOf
    <3>3. QED
      BY <3>1, <3>2
  <2>2. CASE ~heard.album
    <3>1. s.song \in Plain
      BY <1>2, <1>3, <2>2 DEF Follows, AlbumsAreTold
    <3>2. CASE s.album
      <4>1. d = [cur EXCEPT !.entry.album = TRUE]
        <5>1. KeyOf(cur.entry) # None
          <6>1. KeyOf(cur.entry) \in Key
            BY <1>1 DEF KeyOf, Key, Play, Entry
          <6>2. QED
            BY <6>1, NoneIsNoEntry
        <5>2. KeyOf(cur.entry).song = s.song /\ ~KeyOf(cur.entry).album
          BY <1>2, <1>3, <2>2 DEF KeyOf
        <5>3. QED
          BY <3>1, <3>2, <5>1, <5>2 DEF FilledIn, FillsIn
      <4>2. d.entry.album = TRUE
        BY <1>1, <4>1 DEF Play, Entry
      <4>3. QED
        BY <1>3, <3>2, <4>2
    <3>3. CASE ~s.album
      <4>1. d = cur
        BY <3>3 DEF FilledIn, FillsIn
      <4>2. QED
        BY <1>1, <1>2, <1>3, <2>2, <3>3, <4>1
    <3>4. QED
      BY <3>2, <3>3
  <2>3. QED
    BY <2>1, <2>2
<1>6. ~IsReplay(d.counted, d.pos, s.pos)
  <2>1. CASE d.pos = None \/ s.pos = None
    BY <2>1 DEF IsReplay
  <2>2. CASE d.pos # None /\ s.pos # None
    <3>1. d.pos = heard.pos /\ s.pos = heard'.pos
      BY <1>2, <1>3, <1>4, <2>2
    <3>2. \/ s.pos \in {heard.pos, heard.pos + dt}
          \/ ~(s.pos < ReplayStart /\ heard.pos - s.pos >= ReplayJump)
      BY <3>1 DEF Continues, Places, SoughtTo
    <3>3. s.pos \in Nat
      BY <2>2 DEF SongShown, Position
    <3>4. ~(s.pos < ReplayStart /\ d.pos - s.pos >= ReplayJump)
      BY <1>1, <3>1, <3>2, <3>3, Constants, ReplayAssumption
    <3>5. QED
      BY <3>4 DEF IsReplay
  <2>3. QED
    BY <2>1, <2>2
<1>7. SameSong(d, s)
  BY <1>2, <1>3, <1>4, <1>5 DEF SameSong
<1>8. ~StartsOver(d, s)
  BY <1>3, <1>6 DEF StartsOver
<1>9. QED
  BY <1>7, <1>8 DEF StillOn

(* The saved song of the listen under way is carried on with.              *)
LEMMA CarriedOnWith ==
  ASSUME Inv, Follows, ~world.lateAlbum, world.seekTo = {}, LengthsTold,
         NEW dt \in Nat, NEW s \in SongShown, resume # None,
         resume.entry.listen = heard.number, HeardIn(resume, heard, now), LengthTold(resume),
         Shows(s, heard'), Continues(s, dt)
  PROVE  CarriesOn(s, now + dt)
<1>1. /\ resume \in Record /\ heard.pos \in Nat /\ heard.album \in BOOLEAN /\ now \in Nat
      /\ ~heard.over
  <2>1. heard \in Listen
    BY InvFacts DEF RestOK
  <2>2. QED
    BY <2>1, InvFacts DEF Listen, Continues
<1>2. /\ resume.entry.song = heard.song /\ resume.entry.album = heard.album
      /\ \/ resume.pos = None
         \/ resume.pos <= heard.pos /\ heard.pos <= resume.pos + (now - resume.at)
  BY <1>1 DEF HeardIn, KeyOf
<1>3. /\ s.song = heard.song /\ s.album \in AlbumShows(heard.album)
      /\ s.pos \in {heard.pos, heard.pos + dt, None}
      /\ s.len \in world.lengths[s.song] /\ s.song \in Songs /\ s.len \in Nat
  BY ContinuesPlace DEF Shows, Continues, SongShown
<1>4. heard.album = TRUE /\ s.album = TRUE
  BY <1>1, <1>3 DEF Follows, AlbumShows
<1>5. KeyOf(resume.entry) = [song |-> s.song, album |-> s.album]
  BY <1>2, <1>3, <1>4 DEF KeyOf
<1>6. resume.entry.dur \in Nat /\ resume.at \in Nat /\ resume.pos \in Nat \cup {None}
  BY <1>1 DEF Record, Entry, Position
<1>7. (now + dt) - resume.at <= MayBeLeft(resume.entry.dur, s.len)
  <2>1. ~((now + dt) - resume.at > MayBeLeft(resume.entry.dur, 0))
    <3>1. ~LeftTooLong(now + dt)
      BY DEF Continues
    <3>2. QED
      BY <3>1 DEF LeftTooLong
  <2>2. MayBeLeft(resume.entry.dur, s.len) = MayBeLeft(resume.entry.dur, 0)
    <3>1. CASE resume.entry.dur > 0
      BY <3>1 DEF MayBeLeft
    <3>2. CASE resume.entry.dur = 0
      <4>1. s.len = 0
        BY <1>2, <1>3, <3>2 DEF LengthTold, LengthsTold
      <4>2. QED
        BY <4>1
    <3>3. QED
      BY <1>6, <3>1, <3>2
  <2>3. MayBeLeft(resume.entry.dur, 0) \in Nat
    BY <1>6, Constants, PlayRulesAssumption DEF MayBeLeft
  <2>4. QED
    BY <1>1, <1>6, <2>1, <2>2, <2>3
<1>8. \/ resume.pos = None \/ s.pos = None
      \/ /\ resume.pos - Slack <= s.pos
         /\ s.pos <= resume.pos + ((now + dt) - resume.at) + Slack
  <2>1. Slack \in Nat
    BY PlayRulesAssumption
  <2>2. QED
    BY <1>1, <1>2, <1>3, <1>6, <2>1
<1>9. ContinuesPlay(resume.entry.dur, resume.pos, (now + dt) - resume.at, s.len, s.pos)
  BY <1>7, <1>8 DEF ContinuesPlay
<1>10. QED
  BY <1>5, <1>9 DEF CarriesOn

-----------------------------------------------------------------------------
(* A poll keeps one row of each listen.                                    *)

LEMMA OnceFrom ==
  ASSUME NEW a, NEW b, Drawn(a, b), Distinct(b), NEW q, NEW g,
         q # None /\ ~q.counted => ~Has(b, q.entry.listen),
         Has(b, g.number) => q # None /\ q.counted /\ q.entry.listen = g.number
  PROVE  Once(a, q, g)
<1>1. Distinct(a)
  BY DistinctDrawn
<1>2. QED
  BY <1>1, HasInDrawn DEF Once

LEMMA OnceWithOneMore ==
  ASSUME NEW a \in Seq(Entry), NEW b \in Seq(Entry), NEW l, OneMore(a, b, l), Distinct(b),
         ~Has(b, l), NEW q, q # None, q.counted, q.entry.listen = l, NEW g, ~Has(b, g.number)
  PROVE  Once(a, q, g)
<1>1. ASSUME NEW i \in 1 .. Len(a), i # 1
      PROVE  i - 1 \in 1 .. Len(b) /\ a[i].listen = b[i - 1].listen /\ a[i].listen # l
  <2>1. i - 1 \in 1 .. Len(b)
    BY <1>1 DEF OneMore
  <2>2. a[i].listen = b[i - 1].listen
    BY <1>1 DEF OneMore
  <2>3. QED
    BY <2>1, <2>2 DEF Has
<1>2. 1 \in 1 .. Len(a) => a[1].listen = l
  BY DEF OneMore
<1>3. ASSUME NEW i \in 1 .. Len(a), NEW j \in 1 .. Len(a), a[i].listen = a[j].listen
      PROVE  i = j
  <2>1. CASE i = 1 \/ j = 1
    BY <1>1, <1>2, <1>3, <2>1
  <2>2. CASE i # 1 /\ j # 1
    <3>1. b[i - 1].listen = b[j - 1].listen /\ i - 1 \in 1 .. Len(b) /\ j - 1 \in 1 .. Len(b)
      BY <1>1, <1>3, <2>2
    <3>2. i - 1 = j - 1
      BY <3>1 DEF Distinct
    <3>3. QED
      BY <3>2
  <2>3. QED
    BY <2>1, <2>2
<1>4. ASSUME Has(a, g.number) PROVE l = g.number
  <2>1. PICK i \in 1 .. Len(a) : a[i].listen = g.number
    BY <1>4 DEF Has
  <2>2. CASE i = 1
    BY <1>2, <2>1, <2>2
  <2>3. CASE i # 1
    BY <1>1, <2>1, <2>3 DEF Has
  <2>4. QED
    BY <2>2, <2>3
<1>5. QED
  BY <1>3, <1>4 DEF Once, Distinct

(* A row of the listen heard is that of the play in progress.              *)
LEMMA RowIsOnIt ==
  ASSUME Inv, Numbered, NEW dt \in Nat, NEW s, MemoryOnce(entries, cur, resume, heard),
         Continues(s, dt) \/ Another, Has(entries, heard'.number)
  PROVE  /\ Continues(s, dt) /\ heard'.number = heard.number
         /\ Latest(cur, resume) # None /\ Latest(cur, resume).counted
         /\ Latest(cur, resume).entry.listen = heard'.number
<1>1. heard.number \in Nat
  BY InvFacts DEF RestOK, Listen
<1>2. ~Another
  <2>1. Another => heard'.number = heard.number + 1
    BY DEF Another
  <2>2. heard'.number = heard.number + 1 => ~Has(entries, heard'.number)
    <3>1. RowsBy(entries, heard.number)
      BY DEF Numbered
    <3>2. heard.number + 1 \notin 1 .. heard.number
      BY <1>1
    <3>3. QED
      BY <3>1, <3>2 DEF Has, RowsBy
  <2>3. QED
    BY <2>1, <2>2
<1>3. ~heard.over /\ heard'.number = heard.number
  BY <1>2 DEF Continues
<1>4. QED
  BY <1>2, <1>3 DEF MemoryOnce, Once

LEMMA PollOnce ==
  ASSUME Inv, Follows, Numbered, AlbumsAreTold, RowsFoundAgain, OneRow,
         NEW dt \in Nat, NEW s \in SongShown, now + dt \in Nat, entries' \in Seq(Entry),
         PollMade(s, now + dt, dt), Shows(s, heard'), Continues(s, dt) \/ Another
  PROVE  MemoryOnce(entries', cur', resume', heard')
<1> DEFINE p == Latest(cur, resume)
           m == heard'.number
<1>1. /\ entries \in Seq(Entry) /\ cur \in Play \cup {None} /\ resume \in Record \cup {None}
      /\ cur = None \/ resume = None
  BY InvFacts DEF MemoryOK
<1>2. /\ Distinct(entries) /\ MemoryOnce(entries, cur, resume, heard)
      /\ p # None /\ ~p.counted => ~Has(entries, p.entry.listen)
  BY DEF OneRow, MemoryOnce, Once
<1>3. Has(entries, m) => /\ Continues(s, dt) /\ m = heard.number
                         /\ p # None /\ p.counted /\ p.entry.listen = m
  BY <1>2, RowIsOnIt
<1>4. s.listen = m
  BY DEF Shows
<1>5. SameRows(entries', entries) => Drawn(entries', entries)
  BY <1>1, DrawnSame
<1> HIDE DEF m
<1>6. CASE WentOn(s, dt)
  <2>1. /\ cur # None /\ cur' # None /\ cur'.entry.listen = cur.entry.listen /\ resume' = resume
    BY <1>6 DEF WentOn
  <2>2. p = cur /\ Latest(cur', resume') = cur'
    BY <2>1 DEF Latest
  <2>3. CASE cur'.counted = cur.counted /\ SameRows(entries', entries)
    <3>1. Once(entries', cur', heard')
      BY <1>2, <1>3, <1>5, <2>1, <2>2, <2>3, OnceFrom DEF m
    <3>2. QED
      BY <2>2, <3>1 DEF MemoryOnce
  <2>4. CASE ~cur.counted /\ cur'.counted /\ OneMore(entries', entries, cur.entry.listen)
    <3>1. ~Has(entries, cur.entry.listen) /\ ~Has(entries, m)
      BY <1>2, <1>3, <2>2, <2>4, <2>1
    <3>2. Once(entries', cur', heard')
      BY <1>1, <1>2, <2>1, <2>4, <3>1, OnceWithOneMore DEF m
    <3>3. QED
      BY <2>2, <3>2 DEF MemoryOnce
  <2>5. QED
    BY <1>6, <2>3, <2>4 DEF WentOn
<1>7. CASE LeftOut(s) /\ ~StillOn(s)
  <2>1. cur' = None /\ resume' = resume /\ Drawn(entries', entries)
    BY <1>5, <1>7 DEF LeftOut
  <2>2. Latest(cur', resume') = resume
    BY <2>1 DEF Latest
  <2>3. resume # None /\ ~resume.counted => ~Has(entries, resume.entry.listen)
    BY <1>1, <1>2 DEF Latest
  <2>4. ASSUME Has(entries, m)
        PROVE  resume # None /\ resume.counted /\ resume.entry.listen = m
    <3>1. cur = None
      BY <1>3, <1>7, <2>4, StaysOn
    <3>2. QED
      BY <1>3, <2>4, <3>1 DEF Latest
  <2>5. Once(entries', resume, heard')
    BY <1>2, <2>1, <2>3, <2>4, OnceFrom DEF m
  <2>6. QED
    BY <2>2, <2>5 DEF MemoryOnce
<1>8. CASE Begun(s, now + dt) /\ ~StillOn(s)
  <2>1. resume' = None /\ Drawn(entries', entries)
    BY <1>5, <1>8 DEF Begun
  <2>2. Latest(cur', resume') = cur'
    BY <2>1 DEF Latest
  <2>3. CASE CarriesOn(s, now + dt)
    <3>1. cur' = CarriedOn(s, now + dt) /\ resume # None /\ resume \in Record
      BY <1>1, <1>8, <2>3 DEF Begun, CarriesOn
    <3>2. cur' # None /\ cur'.entry.listen = resume.entry.listen /\ cur'.counted = resume.counted
      BY <3>1, CarriedOnFields
    <3>3. p = resume
      BY <1>1, <3>1 DEF Latest
    <3>4. Once(entries', cur', heard')
      BY <1>2, <1>3, <2>1, <3>1, <3>2, <3>3, OnceFrom DEF m
    <3>5. QED
      BY <2>2, <3>4 DEF MemoryOnce
  <2>4. CASE ~CarriesOn(s, now + dt)
    <3>1. cur' \in {Started(s, now + dt), None}
      BY <1>8, <2>4 DEF Begun
    <3>2. cur' # None => ~cur'.counted /\ cur'.entry.listen = m
      BY <1>4, <3>1 DEF Started
    <3>3. ~Has(entries, m)
      <4>1. SUFFICES ASSUME Has(entries, m) PROVE FALSE
        OBVIOUS
      <4>2. Continues(s, dt) /\ m = heard.number
            /\ p # None /\ p.entry.listen = m
        BY <1>3, <4>1
      <4>3. cur = None
        BY <1>8, <4>2, StaysOn
      <4>4. resume # None /\ resume.entry.listen = heard.number
        BY <4>2, <4>3 DEF Latest
      <4>5. /\ ~world.lateAlbum /\ world.seekTo = {} /\ LengthsTold
            /\ HeardIn(resume, heard, now) /\ LengthTold(resume)
        BY <4>4 DEF OneRow, RowsFoundAgain
      <4>6. QED
        BY <2>4, <4>2, <4>4, <4>5, CarriedOnWith
    <3>4. Once(entries', cur', heard')
      BY <1>2, <2>1, <3>2, <3>3, OnceFrom DEF m
    <3>5. QED
      BY <2>2, <3>4 DEF MemoryOnce
  <2>5. QED
    BY <2>3, <2>4
<1>9. QED
  BY <1>6, <1>7, <1>8 DEF PollMade

(* What is saved by a step that leaves one row of each listen.             *)
LEMMA StepSaves ==
  ASSUME Inv, [Next]_vars, Follows', NEW k \in {None, cur'},
         SavedOr(entries', k, resume', now'), FileOnce(file, heard', now'),
         Once(entries', Latest(k, resume'), heard'),
         HeardIn(resume', heard', now'), LengthTold(cur'), LengthTold(resume')
  PROVE  FileOnce(file', heard', now')
<1>1. /\ MemoryOK(entries', cur', resume', now') /\ FileOK(file, now) /\ now \in Nat /\ now' \in Nat
      /\ heard' \in Listen
  BY InvKept, InvParts DEF RestOK
<1>2. now <= now'
  <2>1. \/ \E dt \in 1 .. MaxStep : Poll(dt)
        \/ now' = now
    BY OtherSteps DEF SongPoll, NothingPoll, OtherStep
  <2>2. QED
    BY <1>1, <2>1, PollFacts
<1>3. FileOK(file, now')
  BY <1>1, <1>2, FileLater
<1>4. MemoryOK(entries', k, resume', now')
  BY <1>1 DEF MemoryOK
<1>5. LengthTold(k)
  BY DEF LengthTold
<1>6. k # None /\ ~heard'.over => KeyOf(k.entry) = KeyOf(heard') /\ k.pos \in {heard'.pos, None}
  BY DEF Follows, KeyOf
<1>7. heard'.pos \in Nat
  BY <1>1 DEF Listen
<1>8. QED
  BY <1>1, <1>3, <1>4, <1>5, <1>6, <1>7, SavedOnce

LEMMA OneRowAfter ==
  ASSUME world' = world, MemoryOnce(entries', cur', resume', heard'),
         ~Reloads => resume' = None,
         Reloads => /\ HeardIn(resume', heard', now') /\ LengthTold(cur') /\ LengthTold(resume')
                    /\ FileOnce(file', heard', now')
  PROVE  OneRow'
<1>1. Reloads' = Reloads
  BY DEF Reloads, Restarts
<1>2. /\ LengthTold(cur)' <=> LengthTold(cur')
      /\ LengthTold(resume)' <=> LengthTold(resume')
      /\ LengthTold(LoadedSong(file))' <=> LengthTold(LoadedSong(file'))
  BY DEF LengthTold, LoadedSong, SamePlay
<1>3. /\ MemoryOnce(entries, cur, resume, heard)' <=> MemoryOnce(entries', cur', resume', heard')
      /\ Once(LoadedRows(file), LoadedSong(file), heard)'
           <=> Once(LoadedRows(file'), LoadedSong(file'), heard')
      /\ HeardIn(resume, heard, now)' <=> HeardIn(resume', heard', now')
      /\ HeardIn(LoadedSong(file), heard, now)' <=> HeardIn(LoadedSong(file'), heard', now')
  OBVIOUS
<1>4. FileOnce(file, heard, now)' <=> FileOnce(file', heard', now')
  BY <1>2, <1>3 DEF FileOnce
<1>5. QED
  BY <1>1, <1>2, <1>3, <1>4 DEF OneRow

LEMMA SongPollOneRow ==
  ASSUME Inv, Follows, Numbered, AlbumsAreTold, RowsFoundAgain, OneRow, [Next]_vars, Follows',
         NEW dt \in 1 .. MaxStep, SongPoll(dt)
  PROVE  OneRow'
<1>1. /\ UNCHANGED <<world, enabled>> /\ now + dt \in Nat /\ dt \in Nat /\ now' = now + dt
      /\ now < now'
  BY PollFacts DEF SongPoll
<1>2. /\ ~enabled => cur = None /\ resume = None /\ entries = <<>>
      /\ entries' \in Seq(Entry) /\ resume \in Record \cup {None} /\ enabled \in BOOLEAN
      /\ cur \in Play \cup {None} /\ now \in Nat
  <2>1. MemoryOK(entries', cur', resume', now')
    BY InvKept, InvParts
  <2>2. QED
    BY <2>1, InvFacts DEF RestOK, MemoryOK
<1>3. /\ ~Reloads => resume = None
      /\ Reloads => /\ ~world.lateAlbum /\ world.seekTo = {}
                    /\ HeardIn(resume, heard, now) /\ FileOnce(file, heard, now)
                    /\ LengthTold(cur) /\ LengthTold(resume)
  BY DEF OneRow, RowsFoundAgain
<1>4. Reloads => FileOnce(file, heard', now')
  BY <1>3, FileOnceLater
<1>5. CASE ~enabled
  <2>1. UNCHANGED <<entries, cur, resume, file>>
    BY <1>5, SongPollHears DEF Update, disk
  <2>2. MemoryOnce(entries', cur', resume', heard')
    BY <1>2, <1>5, <2>1, OnceNoRows DEF MemoryOnce
  <2>3. HeardIn(resume', heard', now') /\ LengthTold(cur') /\ LengthTold(resume')
    BY <1>2, <1>5, <2>1 DEF HeardIn, LengthTold
  <2>4. QED
    BY <1>1, <1>2, <1>4, <1>5, <2>1, <2>2, <2>3, OneRowAfter
<1>6. CASE enabled
  <2>1. PICK s \in SongShown : /\ PollMade(s, now + dt, dt) /\ Shows(s, heard')
                               /\ Continues(s, dt) \/ Another
                               /\ FileAfter(now + dt) /\ ProgressAfter(now + dt)
    BY <1>6, SongPollMade
  <2>2. MemoryOnce(entries', cur', resume', heard')
    BY <1>1, <1>2, <2>1, PollOnce
  <2>3. resume' \in {resume, None}
    BY <2>1 DEF PollMade, WentOn, LeftOut, Begun
  <2>4. cur' # None =>
          /\ KeyOf(cur'.entry) = KeyOf(s)
          /\ cur'.entry.dur = 0 => s.len = 0
          /\ cur'.entry.started = now + dt => ~cur'.counted
    <3>1. CASE WentOn(s, dt)
      <4>1. cur \in Play /\ cur.entry.started <= now /\ cur.entry.started \in Nat
            /\ cur'.entry.started = cur.entry.started
        BY <1>2, <3>1, InvFacts DEF WentOn, MemoryOK, Play, Entry
      <4>2. cur'.entry.started # now + dt
        BY <1>1, <1>2, <4>1
      <4>3. cur'.entry.dur = 0 => s.len = 0
        BY <3>1 DEF WentOn, SongShown
      <4>4. QED
        BY <3>1, <4>2, <4>3 DEF WentOn
    <3>2. CASE LeftOut(s)
      BY <3>2 DEF LeftOut
    <3>3. CASE Begun(s, now + dt) /\ cur' # None
      <4>1. KeyOf(cur'.entry) = KeyOf(s)
            /\ \/ /\ resume # None /\ resume \in Record
                  /\ cur'.entry.started = resume.entry.started
                  /\ cur'.entry.dur = IF s.len > 0 THEN s.len ELSE resume.entry.dur
               \/ cur'.entry.dur = s.len /\ ~cur'.counted
        BY <1>1, <3>3, BegunFields
      <4>2. resume # None => resume.entry.started <= now /\ resume.entry.started \in Nat
        BY <1>2, InvFacts DEF MemoryOK, Record, Entry
      <4>3. resume # None => resume.entry.started # now + dt
        BY <1>1, <1>2, <4>2
      <4>4. cur'.entry.dur = 0 => s.len = 0
        BY <4>1 DEF SongShown
      <4>5. QED
        BY <4>1, <4>3, <4>4
    <3>4. QED
      BY <2>1, <3>1, <3>2, <3>3 DEF PollMade
  <2>5. LengthTold(cur')
    <3>1. cur' # None => cur'.entry.song = s.song
      BY <2>4 DEF KeyOf
    <3>2. s.len \in world.lengths[s.song]
      BY <2>1 DEF Shows
    <3>3. QED
      BY <2>4, <3>1, <3>2 DEF LengthTold
  <2>6. ASSUME Reloads PROVE HeardIn(resume', heard', now') /\ LengthTold(resume')
    <3>1. CASE resume' = None
      BY <3>1 DEF HeardIn, LengthTold
    <3>2. CASE resume' = resume
      <4>1. PlayBy(resume, heard.number)
        BY DEF Numbered
      <4>2. HeardIn(resume, heard', now')
        BY <1>2, <1>3, <2>6, <4>1, HeardInLater
      <4>3. QED
        BY <1>3, <2>6, <3>2, <4>2
    <3>3. QED
      BY <2>3, <3>1, <3>2
  <2>7. \E k \in {None, cur'} : /\ SavedOr(entries', k, resume', now')
                                /\ Once(entries', Latest(k, resume'), heard')
    <3>1. Once(entries', Latest(cur', resume'), heard')
      BY <2>2 DEF MemoryOnce
    <3>2. CASE cur' = None
      <4>1. PICK k \in {None, cur'} : SavedOr(entries', k, resume', now')
        BY <1>1, <2>1, PollSaves
      <4>2. k = cur'
        BY <3>2
      <4>3. QED
        BY <3>1, <4>1, <4>2
    <3>3. CASE cur' # None
      <4>1. \/ file' = file
            \/ Save(entries', cur', resume', now')
            \/ /\ cur'.entry.started = now + dt /\ resume' = None
               /\ Save(entries', None, None, now')
        BY <1>1, <2>1, <3>3 DEF ProgressAfter, disk
      <4>2. CASE file' = file \/ Save(entries', cur', resume', now')
        BY <3>1, <4>2 DEF SavedOr
      <4>3. CASE /\ cur'.entry.started = now + dt /\ resume' = None
                 /\ Save(entries', None, None, now')
        <5>1. ~cur'.counted
          BY <2>4, <3>3, <4>3
        <5>2. Latest(cur', resume') = cur' /\ Latest(None, resume') = None
          BY <3>3, <4>3 DEF Latest
        <5>3. Once(entries', None, heard')
          BY <3>1, <5>1, <5>2 DEF Once
        <5>4. QED
          BY <4>3, <5>2, <5>3 DEF SavedOr
      <4>4. QED
        BY <4>1, <4>2, <4>3
    <3>4. QED
      BY <3>2, <3>3
  <2>8. ASSUME Reloads PROVE FileOnce(file', heard', now')
    <3>1. PICK k \in {None, cur'} : /\ SavedOr(entries', k, resume', now')
                                    /\ Once(entries', Latest(k, resume'), heard')
      BY <2>7
    <3>2. QED
      BY <1>4, <2>5, <2>6, <2>8, <3>1, StepSaves
  <2>9. ~Reloads => resume' = None
    BY <1>3, <2>3
  <2>10. QED
    BY <1>1, <2>2, <2>5, <2>6, <2>8, <2>9, OneRowAfter
<1>7. QED
  BY <1>2, <1>5, <1>6

(* A play that is over by the grace leaves its listen over.                *)
LEMMA OverWithIt ==
  ASSUME Inv, Follows, NEW dt \in 1 .. MaxStep, NothingPoll(dt), cur # None, cur' = None
  PROVE  heard'.over
<1> DEFINE t == now + dt
<1>1. NothingHeard(t) /\ NothingLeft(t) /\ t \in Nat
  BY NothingMade, PollFacts DEF NothingPoll
<1>2. resume = None /\ ~heard.over /\ gone = heard.quiet /\ heard \in Listen
      /\ enabled
  BY InvFacts DEF Follows, MemoryOK, RestOK
<1>3. ~WithinGrace(t)
  BY <1>1, <1>2 DEF NothingLeft
<1>4. GoneSince(t) = QuietSince(t)
  BY <1>2 DEF GoneSince, QuietSince
<1>5. t - QuietSince(t) > GoneGrace
  <2>1. QuietSince(t) \in Nat
    BY <1>1, <1>2 DEF QuietSince, Listen, Position
  <2> HIDE DEF t
  <2>2. QED
    BY <1>1, <1>3, <1>4, <2>1, Constants DEF WithinGrace
<1>6. OverBy(t)
  BY <1>2, <1>5 DEF OverBy
<1>7. QED
  BY <1>1, <1>2, <1>6 DEF NothingHeard

LEMMA NothingPollOneRow ==
  ASSUME Inv, Follows, Numbered, AlbumsAreTold, RowsFoundAgain, OneRow, [Next]_vars, Follows',
         NEW dt \in 1 .. MaxStep, NothingPoll(dt)
  PROVE  OneRow'
<1> DEFINE t == now + dt
<1>0. NothingHeard(t) /\ NothingLeft(t)
  BY NothingMade
<1>1. t \in Nat /\ now' = t /\ world' = world
  BY PollFacts DEF NothingPoll
<1> HIDE DEF t
<1>2. /\ entries \in Seq(Entry) /\ cur \in Play \cup {None} /\ resume \in Record \cup {None}
      /\ cur = None \/ resume = None
      /\ heard \in Listen
      /\ ~enabled => cur = None
  BY InvFacts DEF MemoryOK, RestOK
<1>3. /\ ~Reloads => resume = None
      /\ Reloads => /\ ~world.lateAlbum /\ world.seekTo = {}
                    /\ HeardIn(resume, heard, now) /\ FileOnce(file, heard, now)
                    /\ LengthTold(cur) /\ LengthTold(resume)
      /\ Once(entries, Latest(cur, resume), heard)
  BY DEF OneRow, RowsFoundAgain, MemoryOnce
<1>4. Reloads => FileOnce(file, heard', now')
  BY <1>3, FileOnceLater
<1>5. UNCHANGED <<entries, resume>>
  BY <1>0 DEF NothingHeard
<1>6. Reloads => HeardIn(resume', heard', now') /\ LengthTold(resume')
  <2>1. PlayBy(resume, heard.number)
    BY DEF Numbered
  <2>2. QED
    BY <1>2, <1>3, <1>5, <2>1, HeardInLater
<1>7. CASE cur' = cur /\ file' = file
  <2>1. Once(entries, Latest(cur, resume), heard')
    <3>1. RowsBy(entries, heard.number)
      BY DEF Numbered
    <3>2. QED
      BY <1>3, <3>1, OnceLater
  <2>2. MemoryOnce(entries', cur', resume', heard')
    BY <1>5, <1>7, <2>1 DEF MemoryOnce
  <2>3. QED
    BY <1>1, <1>3, <1>4, <1>5, <1>6, <1>7, <2>2, OneRowAfter
<1>8. CASE ~WithinGrace(t) /\ cur' = None /\ SavedOr(entries', None, resume', t)
  <2>1. MemoryOnce(entries', cur', resume', heard')
    <3>1. CASE cur = None
      <4>1. RowsBy(entries, heard.number)
        BY DEF Numbered
      <4>2. Once(entries, Latest(cur, resume), heard')
        BY <1>3, <4>1, OnceLater
      <4>3. QED
        BY <1>5, <1>8, <3>1, <4>2 DEF MemoryOnce
    <3>2. CASE cur # None
      <4>1. resume = None
        BY <1>2, <3>2
      <4>2. heard'.over
        BY <1>8, <3>2, OverWithIt
      <4>3. Latest(cur', resume') = None
        BY <1>5, <1>8, <4>1 DEF Latest
      <4>4. QED
        BY <1>3, <1>5, <4>2, <4>3 DEF MemoryOnce, Once
    <3>3. QED
      BY <3>1, <3>2
  <2>2. Once(entries', Latest(None, resume'), heard') /\ SavedOr(entries', None, resume', now')
    BY <1>1, <1>8, <2>1 DEF MemoryOnce
  <2>3. LengthTold(cur')
    BY <1>8 DEF LengthTold
  <2>4. Reloads => FileOnce(file', heard', now')
    <3>1. None \in {None, cur'}
      OBVIOUS
    <3>2. QED
      BY <1>4, <1>6, <2>2, <2>3, <3>1, StepSaves
  <2>5. QED
    BY <1>1, <1>3, <1>5, <1>6, <2>1, <2>3, <2>4, OneRowAfter
<1>9. QED
  BY <1>0, <1>7, <1>8 DEF NothingLeft

LEMMA OtherStepOneRow ==
  ASSUME Inv, OffInv, NothingYet, Follows, Numbered, AlbumsAreTold, RowsFoundAgain, OneRow,
         [Next]_vars, Follows', OtherStep
  PROVE  OneRow'
<1>1. /\ world' = world /\ now' = now
      /\ KeptStep \/ RemoveStep \/ EmptyStep \/ LoadStep \/ StopStep
  BY DEF OtherStep
<1>2. /\ entries \in Seq(Entry) /\ cur \in Play \cup {None} /\ resume \in Record \cup {None}
      /\ cur = None \/ resume = None
      /\ heard \in Listen /\ FileOK(file, now) /\ now \in Nat
      /\ MemoryOK(entries, cur, resume, now)
  BY InvFacts DEF MemoryOK, RestOK
<1>3. /\ ~Reloads => resume = None
      /\ Reloads => /\ ~world.lateAlbum /\ world.seekTo = {}
                    /\ HeardIn(resume, heard, now) /\ FileOnce(file, heard, now)
                    /\ LengthTold(cur) /\ LengthTold(resume)
      /\ Once(entries, Latest(cur, resume), heard)
  BY DEF OneRow, RowsFoundAgain, MemoryOnce
<1>4. Reloads => FileOnce(file, heard', now')
  BY <1>3, FileOnceLater
<1>5. HeardIn(None, heard', now') /\ LengthTold(None)
  BY DEF HeardIn, LengthTold
<1>6. ASSUME heard' = heard, SavedOr(entries', cur', resume', now),
             MemoryOnce(entries', cur', resume', heard'),
             ~Reloads => resume' = None,
             Reloads => HeardIn(resume', heard', now') /\ LengthTold(cur') /\ LengthTold(resume')
      PROVE  OneRow'
  <2>1. SavedOr(entries', cur', resume', now') /\ Once(entries', Latest(cur', resume'), heard')
    BY <1>1, <1>6 DEF MemoryOnce
  <2>2. cur' \in {None, cur'}
    OBVIOUS
  <2>3. Reloads => FileOnce(file', heard', now')
    BY <1>4, <1>6, <2>1, <2>2, StepSaves
  <2>4. QED
    BY <1>1, <1>6, <2>3, OneRowAfter
<1>7. CASE KeptStep
  <2>1. /\ heard' = heard /\ SamePlayAs(cur', cur) /\ SamePlayAs(resume', resume)
        /\ resume # None => resume'.at = resume.at
        /\ Drawn(entries', entries) /\ SavedOr(entries', cur', resume', now)
    BY <1>7 DEF KeptStep
  <2>2. SamePlayAs(Latest(cur', resume'), Latest(cur, resume))
    BY <2>1 DEF SamePlayAs, Latest
  <2>3. MemoryOnce(entries', cur', resume', heard')
    BY <1>3, <2>1, <2>2, OnceDrawn DEF MemoryOnce
  <2>4. LengthTold(cur) => LengthTold(cur')
    BY <2>1 DEF SamePlayAs, LengthTold
  <2>5. LengthTold(resume) => LengthTold(resume')
    BY <2>1 DEF SamePlayAs, LengthTold
  <2>6. HeardIn(resume, heard, now) => HeardIn(resume', heard', now')
    <3>1. CASE resume = None
      BY <1>5, <2>1, <3>1 DEF SamePlayAs
    <3>2. CASE resume # None
      <4>1. /\ resume' # None /\ resume'.entry.song = resume.entry.song
            /\ resume'.entry.album = resume.entry.album
            /\ resume'.entry.listen = resume.entry.listen
            /\ resume'.pos = resume.pos /\ resume'.at = resume.at
        BY <2>1, <3>2 DEF SamePlayAs
      <4>2. KeyOf(resume'.entry) = KeyOf(resume.entry)
        BY <4>1 DEF KeyOf
      <4>3. QED
        BY <1>1, <2>1, <3>2, <4>1, <4>2 DEF HeardIn
    <3>3. QED
      BY <3>1, <3>2
  <2>7. resume = None => resume' = None
    BY <2>1 DEF SamePlayAs
  <2>8. QED
    BY <1>3, <1>6, <2>1, <2>3, <2>4, <2>5, <2>6, <2>7
<1>8. CASE RemoveStep
  <2>1. PICK line, c, r :
          /\ heard' = heard
          /\ c = IF cur # None /\ SamePlay(cur.entry, line) THEN None ELSE cur
          /\ r = ForgetTheSaved(line)
          /\ SamePlayAs(cur', c) /\ resume' = r
          /\ Drawn(entries', entries)
          /\ \A i \in 1 .. Len(entries') : \E j \in 1 .. Len(entries) :
               entries'[i] = entries[j] /\ ~SamePlay(entries[j], line)
          /\ SavedOr(entries', cur', resume', now)
    BY <1>8 DEF RemoveStep
  <2>2. r = IF resume # None /\ SamePlay(resume.entry, line) THEN None ELSE resume
    BY <2>1 DEF ForgetTheSaved
  <2> DEFINE p == Latest(cur, resume)
             q == Latest(c, r)
  <2>3. \/ q = p
        \/ q = None /\ p # None /\ SamePlay(p.entry, line)
    BY <1>2, <2>1, <2>2 DEF Latest
  <2>4. p # None /\ p.counted => entries # <<>> /\ entries[1] = p.entry
    BY <1>2 DEF Latest, MemoryOK, NewestOf
  <2>5. Distinct(entries)
    BY <1>3 DEF Once
  <2>6. SamePlayAs(Latest(cur', resume'), q)
    BY <1>2, <2>1, <2>2 DEF SamePlayAs, Latest
  <2> HIDE DEF p, q
  <2>7. Once(entries', Latest(cur', resume'), heard')
    <3>1. CASE q = p
      <4>1. Once(entries, q, heard)
        BY <1>3, <3>1 DEF p
      <4>2. QED
        BY <2>1, <2>6, <4>1, OnceDrawn
    <3>2. CASE q = None /\ p # None /\ SamePlay(p.entry, line)
      <4>1. Latest(cur', resume') = None
        BY <2>6, <3>2 DEF SamePlayAs
      <4>2. Distinct(entries')
        BY <2>1, <2>5, DistinctDrawn
      <4>3. ASSUME ~heard.over, Has(entries', heard.number) PROVE FALSE
        <5>1. PICK i \in 1 .. Len(entries') : entries'[i].listen = heard.number
          BY <4>3 DEF Has
        <5>2. PICK j \in 1 .. Len(entries) :
                entries'[i] = entries[j] /\ ~SamePlay(entries[j], line)
          BY <2>1
        <5>3. Has(entries, heard.number)
          BY <5>1, <5>2 DEF Has
        <5>4. p.counted /\ p.entry.listen = heard.number
          BY <1>3, <4>3, <5>3 DEF Once, p
        <5>5. entries[1] = p.entry /\ 1 \in 1 .. Len(entries)
          BY <1>2, <2>4, <3>2, <5>4
        <5>6. j = 1
          BY <2>5, <5>1, <5>2, <5>4, <5>5 DEF Distinct
        <5>7. QED
          BY <3>2, <5>2, <5>5, <5>6
      <4>4. QED
        BY <2>1, <4>1, <4>2, <4>3 DEF Once
    <3>3. QED
      BY <2>3, <3>1, <3>2
  <2>8. resume' \in {resume, None}
    BY <2>1, <2>2
  <2>9. LengthTold(cur) => LengthTold(cur')
    BY <2>1 DEF SamePlayAs, LengthTold
  <2>10. LengthTold(resume) => LengthTold(resume')
    BY <1>5, <2>8
  <2>11. HeardIn(resume, heard, now) => HeardIn(resume', heard', now')
    BY <1>1, <1>5, <2>1, <2>8
  <2>12. QED
    BY <1>3, <1>6, <2>1, <2>7, <2>8, <2>9, <2>10, <2>11 DEF MemoryOnce
<1>9. CASE EmptyStep
  <2>1. entries' = <<>> /\ cur' = None /\ resume' = None /\ file' \in {file, None}
    BY <1>9 DEF EmptyStep, DeleteFile
  <2>2. FileOnce(None, heard', now')
    BY <1>5, NothingToLoad, OnceNoRows DEF FileOnce
  <2>3. Reloads => FileOnce(file', heard', now')
    BY <1>4, <2>1, <2>2
  <2>4. MemoryOnce(entries', cur', resume', heard')
    BY <2>1, OnceNoRows DEF MemoryOnce
  <2>5. QED
    BY <1>1, <1>5, <2>1, <2>3, <2>4, OneRowAfter
<1>10. CASE LoadStep
  <2>1. PICK k \in Nat : entries' = Trimmed(LoadedRows(file), k)
    BY <1>10 DEF LoadStep
  <2>2. /\ ~enabled /\ cur' = None /\ resume' = LoadedSong(file)
        /\ file' \in {file, None} \/ Save(entries', None, resume', now)
    BY <1>10 DEF LoadStep
  <2>3. CASE ~Reloads
    <3>1. file = None
      BY <2>2, <2>3, NothingThere
    <3>2. entries' = <<>> /\ resume' = None
      BY <2>1, <2>2, <3>1, NothingToLoad DEF Trimmed
    <3>3. MemoryOnce(entries', cur', resume', heard')
      BY <3>2, OnceNoRows DEF MemoryOnce
    <3>4. QED
      BY <1>1, <2>3, <3>2, <3>3, OneRowAfter
  <2>4. CASE Reloads
    <3>1. LoadedRows(file) \in Seq(Entry)
      BY <1>2, LoadedSongFields
    <3>2. Drawn(entries', LoadedRows(file))
      BY <2>1, <3>1, DrawnTrimmed
    <3>3. FileOnce(file, heard', now')
      BY <1>4, <2>4
    <3>4. Once(entries', LoadedSong(file), heard')
      BY <3>2, <3>3, SameAsItself, OnceDrawn DEF FileOnce
    <3>5. Latest(cur', resume') = resume' /\ Latest(None, resume') = resume'
      BY <2>2 DEF Latest
    <3>6. HeardIn(resume', heard', now') /\ LengthTold(resume') /\ LengthTold(cur')
      BY <1>5, <2>2, <3>3 DEF FileOnce
    <3>7. FileOnce(file', heard', now')
      <4>1. CASE file' \in {file, None}
        <5>1. FileOnce(None, heard', now')
          BY <1>5, NothingToLoad, OnceNoRows DEF FileOnce
        <5>2. QED
          BY <3>3, <4>1, <5>1
      <4>2. CASE Save(entries', None, resume', now)
        <5>1. SavedOr(entries', None, resume', now') /\ None \in {None, cur'}
              /\ Once(entries', Latest(None, resume'), heard')
          BY <1>1, <2>2, <3>4, <3>5, <4>2 DEF SavedOr
        <5>2. QED
          BY <3>3, <3>6, <5>1, StepSaves
      <4>3. QED
        BY <2>2, <4>1, <4>2
    <3>8. MemoryOnce(entries', cur', resume', heard')
      BY <2>2, <3>4, <3>5 DEF MemoryOnce
    <3>9. QED
      BY <1>1, <2>4, <3>6, <3>7, <3>8, OneRowAfter
  <2>5. QED
    BY <2>3, <2>4
<1>11. CASE StopStep
  <2>1. /\ Restarts /\ heard' = heard /\ entries' = <<>> /\ cur' = None /\ resume' = None
        /\ SavedOr(entries, cur, resume, now)
    BY <1>11 DEF StopStep, SavedOr
  <2>2. Reloads
    BY <2>1 DEF Reloads
  <2>3. cur # None /\ ~heard.over =>
          KeyOf(cur.entry) = KeyOf(heard) /\ cur.pos \in {heard.pos, None}
    BY DEF Follows
  <2>4. heard.pos \in Nat
    BY <1>2 DEF Listen
  <2>5. FileOnce(file', heard, now)
    BY <1>2, <1>3, <2>1, <2>2, <2>3, <2>4, SavedOnce
  <2>6. MemoryOnce(entries', cur', resume', heard')
    BY <2>1, OnceNoRows DEF MemoryOnce
  <2>7. QED
    BY <1>1, <1>5, <2>1, <2>5, <2>6, OneRowAfter
<1>12. QED
  BY <1>1, <1>7, <1>8, <1>9, <1>10, <1>11

OneRowInv == AlbumsAreTold /\ RowsFoundAgain => OneRow

LEMMA OneRowKept ==
  Inv /\ OffInv /\ NothingYet /\ Follows /\ Numbered /\ OneRowInv /\ [Next]_vars => OneRowInv'
<1> SUFFICES ASSUME Inv, OffInv, NothingYet, Follows, Numbered, OneRowInv, [Next]_vars,
                    AlbumsAreTold', RowsFoundAgain'
             PROVE  OneRow'
  BY DEF OneRowInv
<1>1. world' = world
  BY OtherSteps DEF SongPoll, NothingPoll, Poll, OtherStep
<1>2. AlbumsAreTold /\ RowsFoundAgain
  BY <1>1 DEF AlbumsAreTold, RowsFoundAgain, Reloads, Restarts, LengthsTold
<1>3. OneRow /\ Follows'
  BY <1>2, FollowsKept DEF OneRowInv
<1>4. QED
  BY <1>2, <1>3, SongPollOneRow, NothingPollOneRow, OtherStepOneRow, OtherSteps

LEMMA OneRowHolds == Spec => []OneRowInv
<1>1. Init => OneRowInv
  <2> SUFFICES ASSUME Init, RowsFoundAgain PROVE OneRow
    BY DEF OneRowInv
  <2>1. entries = <<>> /\ cur = None /\ resume = None /\ file \in {None, Damaged}
    BY DEF Init
  <2>2. Once(LoadedRows(file), LoadedSong(file), heard) /\ LoadedSong(file) = None
    BY <2>1, NothingToLoad, OnceNoRows
  <2>3. QED
    BY <2>1, <2>2, OnceNoRows DEF OneRow, MemoryOnce, FileOnce, HeardIn, LengthTold
<1>2. QED
  BY <1>1, InvHolds, OffHolds, FollowsAndNumbered, OneRowKept, PTL DEF Spec

(* One listen is one row, however often the song is paused, its album turns *)
(* up, its row is taken out or Refrain is quit or dies in the middle of it: *)
(* provided the album that turns up is taken for the song's, and, where the *)
(* file may be read again, that albums show at once, the listener stays in  *)
(* place, and a song without a length never gets one.                       *)
THEOREM OneListenOneRow == Spec => [](AlbumsAreTold /\ RowsFoundAgain => OneRowPerListen)
<1>1. OneRowInv => (AlbumsAreTold /\ RowsFoundAgain => OneRowPerListen)
  BY DEF OneRowInv, OneRow, MemoryOnce, Once, Distinct, OneRowPerListen
<1>2. QED
  BY <1>1, OneRowHolds, PTL

-----------------------------------------------------------------------------
(* A row is of time that counted for no other.                             *)

(* p began after the last play counted, unless it counted itself, and what *)
(* was heard of it was heard since.                                        *)
OwnTime(p, l, n) ==
  p # None => /\ ~p.counted => l <= p.entry.started
              /\ p.entry.started + p.played <= n

OwnTimes ==
  /\ last <= now
  /\ ~world.writesMayFail => /\ OwnTime(cur, last, now) /\ OwnTime(resume, last, now)
                             /\ OwnTime(LoadedSong(file), last, now)

LEMMA SavedOwnTime ==
  ASSUME NEW list, NEW c, NEW r, NEW n \in Nat, NEW t \in Nat, NEW l, NEW m,
         MemoryOK(list, c, r, n), FileOK(file, n), SavedOr(list, c, r, t),
         OwnTime(c, l, m), OwnTime(r, l, m), OwnTime(LoadedSong(file), l, m)
  PROVE  OwnTime(LoadedSong(file'), l, m)
<1>1. c \in Play \cup {None}
  BY DEF MemoryOK
<1>2. CASE file' = file
  BY <1>2
<1>3. CASE file' = Damaged
  BY <1>3, NothingToLoad DEF OwnTime
<1>4. CASE LoadedSong(file') = IF c # None THEN RecordOf(c, t) ELSE r
  <2>1. c # None => /\ RecordOf(c, t) # None /\ RecordOf(c, t).entry = c.entry
                    /\ RecordOf(c, t).played = c.played /\ RecordOf(c, t).counted = c.counted
    BY <1>1, RecordFields
  <2>2. QED
    BY <1>4, <2>1 DEF OwnTime
<1>5. QED
  BY <1>2, <1>3, <1>4, SavedToLoad

LEMMA OwnTimeLater ==
  ASSUME NEW p, NEW l, NEW m \in Nat, NEW n \in Nat, m <= n,
         p # None => p.entry.started \in Nat /\ p.played \in Nat, OwnTime(p, l, m)
  PROVE  OwnTime(p, l, n)
  BY DEF OwnTime

(* The play in progress counts: it is a new row, and saved.                *)
LEMMA CountingSaves ==
  ASSUME Inv, [Next]_vars, NEW t \in Nat, NEW dt, NEW s \in SongShown, WentOn(s, dt), StillOn(s),
         ~cur.counted, cur'.counted, entries' # <<>> => entries'[1] = cur'.entry, entries' # <<>>,
         FileAfter(t)
  PROVE  \E k \in {None, cur'} : Save(entries', k, resume', t)
<1>1. cur \in Play /\ cur # None /\ NewestOf(cur, entries) /\ entries \in Seq(Entry)
      /\ entries' \in Seq(Entry)
  <2>1. MemoryOK(entries', cur', resume', now')
    BY InvKept, InvParts
  <2>2. QED
    BY <2>1, InvFacts DEF MemoryOK, WentOn
<1>2. \A i \in 1 .. Len(entries) : ~SamePlay(entries[i], cur.entry)
  BY <1>1 DEF NewestOf
<1>3. cur'.entry.started = cur.entry.started /\ cur'.entry.song = cur.entry.song
  <2>1. cur'.entry.song = s.song /\ cur'.entry.started = cur.entry.started
    BY DEF WentOn, KeyOf
  <2>2. FilledIn(cur, s).entry.song = s.song
    BY DEF StillOn, SameSong
  <2>3. FilledIn(cur, s).entry.song = cur.entry.song
    BY <1>1, FilledInFields
  <2>4. QED
    BY <2>1, <2>2, <2>3
<1>4. ~Alike(entries', entries)
  <2>1. SUFFICES ASSUME Alike(entries', entries) PROVE FALSE
    OBVIOUS
  <2>2. 1 \in 1 .. Len(entries') /\ 1 \in 1 .. Len(entries)
    BY <1>1, <2>1 DEF Alike
  <2>3. Line(entries'[1]) = Line(entries[1])
    BY <2>1, <2>2 DEF Alike
  <2>4. entries'[1].song = entries[1].song /\ entries'[1].started = entries[1].started
    BY <2>3, LinesAlike DEF Line
  <2>5. SamePlay(entries[1], cur.entry)
    BY <1>3, <2>4 DEF SamePlay
  <2>6. QED
    BY <1>2, <2>2, <2>5
<1>5. QED
  BY <1>4 DEF FileAfter

LEMMA SongPollOwnTimes ==
  ASSUME Inv, OwnTimes, [Next]_vars, NEW dt \in 1 .. MaxStep, SongPoll(dt)
  PROVE  OwnTimes'
<1> DEFINE t == now + dt
<1>1. /\ UNCHANGED <<world, enabled>> /\ t \in Nat /\ dt \in Nat /\ now' = t /\ now < t
      /\ now \in Nat /\ last \in Nat /\ last <= now
  BY PollFacts, InvFacts DEF SongPoll, RestOK, OwnTimes
<1>2. last' = IF cur' # None /\ cur'.counted /\ (cur = None \/ ~cur.counted) /\ resume = None
                THEN t ELSE last
  BY DEF SongPoll, Counting
<1>3. /\ cur \in Play \cup {None} /\ resume \in Record \cup {None} /\ (cur = None \/ resume = None)
      /\ ~enabled => cur = None /\ resume = None
      /\ enabled \in BOOLEAN
      /\ MemoryOK(entries', cur', resume', now') /\ FileOK(file, now) /\ FileOK(file, now')
      /\ LoadedSong(file) \in Record \cup {None}
  <2>1. MemoryOK(entries', cur', resume', now') /\ FileOK(file, now)
    BY InvKept, InvParts
  <2>2. FileOK(file, now') /\ LoadedSong(file) \in Record \cup {None}
    BY <1>1, <2>1, FileLater, LoadedSongFields
  <2>3. QED
    BY <2>1, <2>2, InvFacts DEF MemoryOK, RestOK
<1> HIDE DEF t
<1>4. /\ cur # None => cur.entry.started \in Nat /\ cur.played \in Nat
      /\ resume # None => resume.entry.started \in Nat /\ resume.played \in Nat
      /\ LoadedSong(file) # None => /\ LoadedSong(file).entry.started \in Nat
                                    /\ LoadedSong(file).played \in Nat
  BY <1>3 DEF Play, Record, Entry
<1>5. last' <= now'
  BY <1>1, <1>2
<1>6. ASSUME ~world.writesMayFail
      PROVE  /\ OwnTime(cur', last', now') /\ OwnTime(resume', last', now')
             /\ OwnTime(LoadedSong(file'), last', now')
  <2>1. /\ OwnTime(cur, last, now) /\ OwnTime(resume, last, now)
        /\ OwnTime(LoadedSong(file), last, now)
    BY <1>6 DEF OwnTimes
  <2>2. OwnTime(resume, last, now') /\ OwnTime(LoadedSong(file), last, now')
    BY <1>1, <1>4, <2>1, OwnTimeLater
  <2>3. OwnTime(None, last', now')
    BY DEF OwnTime
  <2>4. CASE ~enabled
    <3>1. UNCHANGED <<cur, resume, file>>
      BY <2>4, SongPollHears DEF Update, disk
    <3>2. last' = last /\ cur' = None /\ resume' = None
      BY <1>2, <1>3, <2>4, <3>1
    <3>3. QED
      BY <2>2, <2>3, <3>1, <3>2
  <2>5. CASE enabled
    <3>1. PICK s \in SongShown : PollMade(s, t, dt) /\ FileAfter(t)
      BY <2>5, SongPollMade DEF t
    <3>2. resume' \in {resume, None}
      BY <3>1 DEF PollMade, WentOn, LeftOut, Begun
    <3>3. CASE WentOn(s, dt) /\ StillOn(s) /\ ~cur.counted /\ cur'.counted
      <4>1. cur # None /\ resume = None /\ resume' = None /\ cur' # None /\ cur \in Play
        BY <1>3, <3>3 DEF WentOn
      <4>2. last' = t
        BY <1>2, <3>3, <4>1
      <4>3. OwnTime(cur', last', now')
        <5>1. cur'.played = cur.played + Credit(s.playing, dt)
              /\ cur'.entry.started = cur.entry.started
          BY <3>3 DEF WentOn
        <5>2. Credit(s.playing, dt) \in Nat /\ Credit(s.playing, dt) <= dt
          BY <1>1, CreditBound DEF SongShown
        <5>3. cur.entry.started + cur.played <= now
          BY <2>1, <4>1 DEF OwnTime
        <5>4. cur'.entry.started + cur'.played <= now'
          BY <1>1, <1>4, <4>1, <5>1, <5>2, <5>3 DEF t
        <5>5. QED
          BY <3>3, <5>4 DEF OwnTime
      <4>4. \E k \in {None, cur'} : Save(entries', k, resume', t)
        <5>1. entries' # <<>> /\ entries'[1] = cur'.entry
          BY <1>3, <3>3, <4>1 DEF MemoryOK, NewestOf
        <5>2. QED
          BY <1>1, <3>1, <3>3, <5>1, CountingSaves
      <4>5. PICK k \in {None, cur'} : Save(entries', k, resume', t)
        BY <4>4
      <4>6. OwnTime(LoadedSong(file'), last', now')
        <5>1. MemoryOK(entries', k, resume', now')
          BY <1>3 DEF MemoryOK
        <5>2. FileOK(file', now')
          BY InvKept, InvParts
        <5>3. file' = Stored(entries', k, resume', t)
          BY <1>6, <4>5 DEF Save, Written
        <5>4. file' \in File /\ file' \notin {None, Damaged}
          <6>1. entries' \in Seq(Entry) /\ k \in Play \cup {None} /\ resume' \in Record \cup {None}
            BY <5>1 DEF MemoryOK
          <6>2. QED
            BY <1>1, <4>5, <5>3, <6>1, SaveLeaves, ZenonT(60)
        <5>5. LoadedSong(file') = file'.current
          BY <5>2, <5>4, LoadedIsCurrent
        <5>6. file'.current = IF k # None THEN RecordOf(k, t) ELSE resume'
          BY <5>3 DEF Stored
        <5>7. cur' \in Play
          BY <1>3, <4>1 DEF MemoryOK
        <5>8. RecordOf(cur', t).entry = cur'.entry /\ RecordOf(cur', t).played = cur'.played
              /\ RecordOf(cur', t).counted = cur'.counted
          BY <1>1, <5>7, RecordFields
        <5>9. QED
          BY <4>1, <4>3, <5>5, <5>6, <5>8 DEF OwnTime
      <4>7. QED
        BY <2>3, <4>1, <4>3, <4>6
    <3>4. ASSUME last' = last, OwnTime(cur', last', now')
          PROVE  /\ OwnTime(cur', last', now') /\ OwnTime(resume', last', now')
                 /\ OwnTime(LoadedSong(file'), last', now')
      <4>1. OwnTime(resume', last', now')
        BY <2>2, <2>3, <3>2, <3>4
      <4>2. PICK k \in {None, cur'} : SavedOr(entries', k, resume', t)
        BY <3>1, PollSaves
      <4>3. MemoryOK(entries', k, resume', now')
        BY <1>3 DEF MemoryOK
      <4>4. OwnTime(k, last', now') /\ OwnTime(LoadedSong(file), last', now')
        BY <2>2, <2>3, <3>4
      <4>5. OwnTime(LoadedSong(file'), last', now')
        BY <1>1, <1>3, <4>1, <4>2, <4>3, <4>4, SavedOwnTime
      <4>6. QED
        BY <3>4, <4>1, <4>5
    <3>5. CASE WentOn(s, dt) /\ StillOn(s) /\ (cur.counted \/ ~cur'.counted)
      <4>1. cur # None /\ cur' # None /\ cur \in Play
        BY <1>3, <3>5 DEF WentOn
      <4>2. last' = last
        BY <1>2, <3>5, <4>1
      <4>3. cur'.played = cur.played + Credit(s.playing, dt)
            /\ cur'.entry.started = cur.entry.started
            /\ (~cur'.counted => ~cur.counted)
        BY <3>5 DEF WentOn
      <4>4. Credit(s.playing, dt) \in Nat /\ Credit(s.playing, dt) <= dt
        BY <1>1, CreditBound DEF SongShown
      <4>5. cur.entry.started + cur.played <= now /\ (~cur.counted => last <= cur.entry.started)
        BY <2>1, <4>1 DEF OwnTime
      <4>6. cur'.entry.started + cur'.played <= now'
        BY <1>1, <1>4, <4>1, <4>3, <4>4, <4>5 DEF t
      <4>7. OwnTime(cur', last', now')
        BY <4>2, <4>3, <4>5, <4>6 DEF OwnTime
      <4>8. QED
        BY <3>4, <4>2, <4>7
    <3>6. CASE LeftOut(s)
      <4>1. cur' = None
        BY <3>6 DEF LeftOut
      <4>2. QED
        BY <1>2, <2>3, <3>4, <4>1
    <3>7. CASE Begun(s, t)
      <4>1. CASE cur' = None
        BY <1>2, <2>3, <3>4, <4>1
      <4>2. CASE cur' # None
        <5>1. \/ /\ resume # None
                 /\ cur'.entry.started = resume.entry.started
                 /\ cur'.played = resume.played /\ cur'.counted = resume.counted
              \/ cur'.entry.started = t /\ cur'.played = 0 /\ ~cur'.counted
          BY <1>1, <3>7, <4>2, BegunFields
        <5>2. CASE /\ resume # None
                   /\ cur'.entry.started = resume.entry.started
                   /\ cur'.played = resume.played /\ cur'.counted = resume.counted
          <6>1. last' = last
            BY <1>2, <5>2
          <6>2. OwnTime(cur', last', now')
            BY <2>2, <5>2, <6>1 DEF OwnTime
          <6>3. QED
            BY <3>4, <6>1, <6>2
        <5>3. CASE cur'.entry.started = t /\ cur'.played = 0 /\ ~cur'.counted
          <6>1. last' = last
            BY <1>2, <5>3
          <6>2. last <= t /\ t + 0 <= now'
            BY <1>1
          <6>3. OwnTime(cur', last', now')
            BY <5>3, <6>1, <6>2 DEF OwnTime
          <6>4. QED
            BY <3>4, <6>1, <6>3
        <5>4. QED
          BY <5>1, <5>2, <5>3
      <4>3. QED
        BY <4>1, <4>2
    <3>8. QED
      BY <3>1, <3>3, <3>5, <3>6, <3>7 DEF PollMade
  <2>6. QED
    BY <1>3, <2>4, <2>5
<1>7. QED
  BY <1>1, <1>5, <1>6 DEF OwnTimes, OwnTime, LoadedSong, SamePlay

LEMMA NothingPollOwnTimes ==
  ASSUME Inv, OwnTimes, [Next]_vars, NEW dt \in 1 .. MaxStep, NothingPoll(dt)
  PROVE  OwnTimes'
<1> DEFINE t == now + dt
<1>1. /\ NothingHeard(t) /\ NothingLeft(t) /\ t \in Nat /\ now < t /\ now' = t
      /\ now \in Nat /\ last \in Nat /\ last <= now /\ last' = last /\ world' = world
  BY NothingMade, PollFacts, InvFacts DEF NothingPoll, NothingHeard, RestOK, OwnTimes
<1>2. /\ MemoryOK(entries', cur', resume', now') /\ FileOK(file, now)
      /\ cur \in Play \cup {None} /\ resume \in Record \cup {None}
  BY InvKept, InvParts DEF MemoryOK
<1>3. FileOK(file, now') /\ LoadedSong(file) \in Record \cup {None}
  BY <1>1, <1>2, FileLater, LoadedSongFields
<1> HIDE DEF t
<1>4. /\ cur # None => cur.entry.started \in Nat /\ cur.played \in Nat
      /\ resume # None => resume.entry.started \in Nat /\ resume.played \in Nat
      /\ LoadedSong(file) # None => /\ LoadedSong(file).entry.started \in Nat
                                    /\ LoadedSong(file).played \in Nat
  BY <1>2, <1>3 DEF Play, Record, Entry
<1>5. last' <= now'
  BY <1>1
<1>6. ASSUME ~world.writesMayFail
      PROVE  /\ OwnTime(cur', last', now') /\ OwnTime(resume', last', now')
             /\ OwnTime(LoadedSong(file'), last', now')
  <2>1. /\ OwnTime(cur, last, now) /\ OwnTime(resume, last, now)
        /\ OwnTime(LoadedSong(file), last, now)
    BY <1>6 DEF OwnTimes
  <2>2. /\ OwnTime(cur, last', now') /\ OwnTime(resume, last', now')
        /\ OwnTime(LoadedSong(file), last', now')
    <3>1. now' \in Nat /\ now <= now' /\ last' = last
      BY <1>1
    <3>2. QED
      BY <1>1, <1>4, <2>1, <3>1, OwnTimeLater
  <2>3. OwnTime(None, last', now')
    BY DEF OwnTime
  <2>4. /\ cur' \in {cur, None} /\ resume' = resume
        /\ file' = file \/ SavedOr(entries', None, resume', t)
    BY <1>1 DEF NothingHeard, NothingLeft
  <2>5. CASE file' = file
    BY <2>2, <2>3, <2>4, <2>5
  <2>6. CASE SavedOr(entries', None, resume', t)
    <3>1. MemoryOK(entries', None, resume', now')
      BY <1>2 DEF MemoryOK
    <3>2. OwnTime(resume', last', now')
      BY <2>2, <2>4
    <3>3. OwnTime(LoadedSong(file'), last', now')
      BY <1>1, <1>3, <2>2, <2>3, <2>6, <3>1, <3>2, SavedOwnTime
    <3>4. QED
      BY <2>2, <2>3, <2>4, <3>3
  <2>7. QED
    BY <2>4, <2>5, <2>6
<1>7. QED
  BY <1>1, <1>5, <1>6 DEF OwnTimes, OwnTime, LoadedSong, SamePlay

LEMMA OtherStepOwnTimes ==
  ASSUME Inv, OwnTimes, [Next]_vars, OtherStep
  PROVE  OwnTimes'
<1>1. /\ UNCHANGED <<world, now>> /\ now \in Nat /\ last <= now
      /\ KeptStep \/ RemoveStep \/ EmptyStep \/ LoadStep \/ StopStep
  BY InvFacts DEF OtherStep, OwnTimes
<1>2. last' = last
  BY <1>1 DEF KeptStep, RemoveStep, EmptyStep, LoadStep, StopStep
<1>3. /\ MemoryOK(entries', cur', resume', now') /\ MemoryOK(entries, cur, resume, now)
      /\ FileOK(file, now)
  BY InvKept, InvParts
<1>4. OwnTime(None, last, now) /\ LoadedSong(None) = None
  BY NothingToLoad DEF OwnTime
<1>5. \A p, q : SamePlayAs(p, q) /\ OwnTime(q, last, now) => OwnTime(p, last, now)
  BY DEF SamePlayAs, OwnTime
<1>6. ASSUME ~world.writesMayFail
      PROVE  /\ OwnTime(cur', last, now) /\ OwnTime(resume', last, now)
             /\ OwnTime(LoadedSong(file'), last, now)
  <2>1. /\ OwnTime(cur, last, now) /\ OwnTime(resume, last, now)
        /\ OwnTime(LoadedSong(file), last, now)
    BY <1>6 DEF OwnTimes
  <2>2. ASSUME OwnTime(cur', last, now), OwnTime(resume', last, now),
               SavedOr(entries', cur', resume', now)
        PROVE  OwnTime(LoadedSong(file'), last, now)
    <3>1. now' = now
      BY <1>1
    <3>2. MemoryOK(entries', cur', resume', now)
      BY <1>3, <3>1
    <3>3. QED
      BY <1>1, <1>3, <2>1, <2>2, <3>2, SavedOwnTime
  <2>3. CASE KeptStep
    <3>1. OwnTime(cur', last, now) /\ OwnTime(resume', last, now)
      BY <1>5, <2>1, <2>3 DEF KeptStep
    <3>2. QED
      BY <2>2, <2>3, <3>1 DEF KeptStep
  <2>4. CASE RemoveStep
    <3>1. PICK line, c, r :
            /\ c \in {cur, None} /\ r = ForgetTheSaved(line)
            /\ SamePlayAs(cur', c) /\ resume' = r
            /\ SavedOr(entries', cur', resume', now)
      BY <2>4 DEF RemoveStep
    <3>2. OwnTime(c, last, now) /\ OwnTime(r, last, now)
      BY <1>4, <2>1, <3>1 DEF ForgetTheSaved
    <3>3. OwnTime(cur', last, now) /\ OwnTime(resume', last, now)
      BY <1>5, <3>1, <3>2
    <3>4. QED
      BY <2>2, <3>1, <3>3
  <2>5. CASE EmptyStep
    <3>1. cur' = None /\ resume' = None /\ file' \in {file, None}
      BY <2>5 DEF EmptyStep, DeleteFile
    <3>2. QED
      BY <1>4, <2>1, <3>1
  <2>6. CASE LoadStep
    <3>1. /\ cur' = None /\ resume' = LoadedSong(file)
          /\ file' \in {file, None} \/ Save(entries', None, resume', now)
      BY <2>6 DEF LoadStep
    <3>2. OwnTime(cur', last, now) /\ OwnTime(resume', last, now)
      BY <1>4, <2>1, <3>1
    <3>3. CASE file' \in {file, None}
      BY <1>4, <2>1, <3>2, <3>3
    <3>4. CASE Save(entries', None, resume', now)
      BY <2>2, <3>1, <3>2, <3>4 DEF SavedOr
    <3>5. QED
      BY <3>1, <3>2, <3>3, <3>4
  <2>7. CASE StopStep
    <3>1. cur' = None /\ resume' = None /\ SavedOr(entries, cur, resume, now)
      BY <2>7 DEF StopStep, SavedOr
    <3>2. OwnTime(LoadedSong(file'), last, now)
      BY <1>1, <1>3, <2>1, <3>1, SavedOwnTime
    <3>3. QED
      BY <1>4, <3>1, <3>2
  <2>8. QED
    BY <1>1, <2>3, <2>4, <2>5, <2>6, <2>7
<1>7. QED
  BY <1>1, <1>2, <1>6 DEF OwnTimes, OwnTime, LoadedSong, SamePlay

LEMMA OwnTimesHold == Spec => []OwnTimes
<1>1. Init => OwnTimes
  <2>1. Init => cur = None /\ resume = None /\ file \in {None, Damaged} /\ now = 0 /\ last = 0
    BY DEF Init
  <2>2. QED
    BY <2>1, NothingToLoad DEF OwnTimes, OwnTime
<1>2. Inv /\ OwnTimes /\ [Next]_vars => OwnTimes'
  BY SongPollOwnTimes, NothingPollOwnTimes, OtherStepOwnTimes, OtherSteps
<1>3. QED
  BY <1>1, <1>2, InvHolds, PTL DEF Spec

(* A play that counts was heard for as long as its length asks for.        *)
LEMMA CountsNeeds ==
  ASSUME NEW played \in Nat, NEW dur \in Nat, CountsAsPlayed(played, dur)
  PROVE  NeededFor(dur) \in Nat /\ NeededFor(dur) <= played
<1>1. CASE dur = 0
  BY <1>1, PlayHistoryAssumption DEF NeededFor, CountsAsPlayed
<1>2. CASE dur # 0
  <2> DEFINE half == (dur + 1) \div 2
  <2>1. 2 * played >= dur \/ played >= ScrobbleAfter
    BY <1>2 DEF CountsAsPlayed, Counts
  <2>2. half \in Nat /\ 2 * half <= dur + 1
    OBVIOUS
  <2>3. 2 * played >= dur => half <= played
    BY <2>2
  <2> HIDE DEF half
  <2>4. NeededFor(dur) = IF half < ScrobbleAfter THEN half ELSE ScrobbleAfter
    BY <1>2 DEF NeededFor, Needed, half
  <2>5. ScrobbleAfter \in Nat
    BY PlayRulesAssumption
  <2>6. QED
    BY <2>1, <2>2, <2>3, <2>4, <2>5
<1>3. QED
  BY <1>1, <1>2

(* A new row is the play in progress, that counts with this poll.          *)
LEMMA NewRowCounts ==
  ASSUME Inv, [Next]_vars, up, enabled, entries' # <<>>,
         \A i \in 1 .. Len(entries) : ~SamePlay(entries[i], entries'[1])
  PROVE  /\ cur # None /\ ~cur.counted /\ cur' # None
         /\ entries'[1] = cur'.entry /\ cur'.entry.started = cur.entry.started
         /\ CountsAsPlayed(cur'.played, cur'.entry.dur)
<1>1. entries \in Seq(Entry) /\ MemoryOK(entries', cur', resume', now')
  BY InvFacts, InvKept, InvParts
<1>2. entries' \in Seq(Entry) /\ 1 \in 1 .. Len(entries')
  <2>1. entries' \in Seq(Entry)
    BY <1>1 DEF MemoryOK
  <2>2. QED
    BY <2>1
<1>3. ~SameRows(entries', entries)
  <2>1. SamePlay(entries'[1], entries[1]) => SamePlay(entries[1], entries'[1])
    BY DEF SamePlay
  <2>2. QED
    BY <1>2, <2>1 DEF SameRows
<1>4. ~Drawn(entries', entries)
  <2> SUFFICES ASSUME Drawn(entries', entries) PROVE FALSE
    OBVIOUS
  <2>1. PICK f \in [1 .. Len(entries') -> 1 .. Len(entries)] :
          \A i \in 1 .. Len(entries') : SamePlay(entries'[i], entries[f[i]])
    BY DEF Drawn
  <2>2. f[1] \in 1 .. Len(entries) /\ SamePlay(entries'[1], entries[f[1]])
    BY <1>2, <2>1
  <2>3. SamePlay(entries[f[1]], entries'[1])
    BY <2>2 DEF SamePlay
  <2>4. QED
    BY <2>2, <2>3
<1>5. entries' # entries
  BY <1>2 DEF SamePlay
<1>6. ~OtherStep
  BY <1>4 DEF OtherStep, KeptStep, RemoveStep, EmptyStep, LoadStep, StopStep
<1>7. ASSUME NEW dt \in 1 .. MaxStep, NothingPoll(dt) PROVE FALSE
  BY <1>5, <1>7, NothingMade DEF NothingHeard
<1>8. PICK dt \in 1 .. MaxStep : SongPoll(dt)
  BY <1>6, <1>7, OtherSteps
<1>9. PICK s \in SongShown : PollMade(s, now + dt, dt)
  BY <1>8, SongPollMade
<1>10. WentOn(s, dt) /\ ~cur.counted /\ cur'.counted
       /\ CountsAsPlayed(cur'.played, cur'.entry.dur)
  BY <1>3, <1>9 DEF PollMade, WentOn, LeftOut, Begun
<1>11. entries'[1] = cur'.entry
  BY <1>1, <1>10 DEF MemoryOK, NewestOf, WentOn
<1>12. QED
  BY <1>10, <1>11 DEF WentOn

(* A new row was heard for as long as its length asks for, in time that    *)
(* counted for no other row, since the list was last cleared or off: the   *)
(* time of a play that counted, was taken out, cleared or switched off     *)
(* never goes to another, not even over a restart in the middle of it.     *)
THEOREM RowsAreHeardForThemselves == Spec => HeardForItself
<1> DEFINE Row == LET row == entries'[1]
                  IN  /\ ~world.writesMayFail
                      /\ up /\ enabled /\ entries' # <<>>
                      /\ \A i \in 1 .. Len(entries) : ~SamePlay(entries[i], row)
                      => /\ row.started >= last
                         /\ Later(cut, row.started) + NeededFor(row.dur) <= now'
<1>1. Inv /\ OwnTimes /\ OwnTimes' /\ ForgottenStaysForgotten /\ [Next]_vars => Row
  <2> SUFFICES ASSUME Inv, OwnTimes, OwnTimes', ForgottenStaysForgotten, [Next]_vars,
                      ~world.writesMayFail, up, enabled, entries' # <<>>,
                      \A i \in 1 .. Len(entries) : ~SamePlay(entries[i], entries'[1])
               PROVE  /\ entries'[1].started >= last
                      /\ Later(cut, entries'[1].started) + NeededFor(entries'[1].dur) <= now'
    OBVIOUS
  <2>1. /\ cur # None /\ ~cur.counted /\ cur' # None
        /\ entries'[1] = cur'.entry /\ cur'.entry.started = cur.entry.started
        /\ CountsAsPlayed(cur'.played, cur'.entry.dur)
    BY NewRowCounts
  <2>2. world' = world
    BY OtherSteps DEF SongPoll, NothingPoll, Poll, OtherStep
  <2>3. /\ last <= cur.entry.started
        /\ cur'.entry.started + cur'.played <= now'
    BY <2>1, <2>2 DEF OwnTimes, OwnTime
  <2>4. cur.entry.started > cut
    BY <2>1 DEF ForgottenStaysForgotten
  <2>5. /\ cur.entry.started \in Nat /\ cur'.played \in Nat /\ cur'.entry.dur \in Nat
        /\ now' \in Nat /\ last \in Nat /\ cut \in Nat
    <3>1. MemoryOK(entries', cur', resume', now') /\ RestOK' /\ RestOK
      BY InvKept, InvParts
    <3>2. cur \in Play /\ cur' \in Play
      BY <2>1, <3>1, InvFacts DEF MemoryOK
    <3>3. QED
      BY <3>1, <3>2 DEF Play, Entry, RestOK
  <2>6. Later(cut, cur.entry.started) = cur.entry.started
    BY <2>4, <2>5 DEF Later
  <2>7. NeededFor(cur'.entry.dur) \in Nat /\ NeededFor(cur'.entry.dur) <= cur'.played
    BY <2>1, <2>5, CountsNeeds
  <2>8. QED
    BY <2>1, <2>3, <2>5, <2>6, <2>7
<1>2. QED
  BY <1>1, InvHolds, OwnTimesHold, ForgottenIsGone, PTL DEF Spec, HeardForItself

-----------------------------------------------------------------------------
(* What is known of a play: a length its song has, and its listen.         *)

LengthKnown(p) == p # None => p.entry.dur \in world.lengths[p.entry.song]

(* The saved song that is the play p is of the listen p is of.             *)
SameListen(f, p) ==
  p # None /\ LoadedSong(f) # None /\ SamePlay(LoadedSong(f).entry, p.entry)
    => LoadedSong(f).entry.listen = p.entry.listen

PlaysKnown ==
  /\ LengthKnown(cur) /\ LengthKnown(resume) /\ LengthKnown(LoadedSong(file))
  /\ SameListen(file, cur) /\ SameListen(file, resume)

LEMMA SavedKnown ==
  ASSUME NEW list, NEW c, NEW r, NEW k \in {None, c}, NEW n \in Nat, NEW t \in Nat,
         MemoryOK(list, c, r, n), FileOK(file, n), SavedOr(list, k, r, t),
         LengthKnown(c), LengthKnown(r), LengthKnown(LoadedSong(file)),
         SameListen(file, c), SameListen(file, r)
  PROVE  /\ LengthKnown(LoadedSong(file'))
         /\ SameListen(file', c) /\ SameListen(file', r)
<1>1. /\ MemoryOK(list, k, r, n) /\ k \in Play \cup {None} /\ LengthKnown(k)
      /\ c = None \/ r = None
  BY DEF MemoryOK
<1>2. CASE file' = file
  BY <1>2
<1>3. CASE file' = Damaged
  BY <1>3, NothingToLoad DEF LengthKnown, SameListen
<1>4. CASE LoadedSong(file') = IF k # None THEN RecordOf(k, t) ELSE r
  <2>1. k # None => RecordOf(k, t) # None /\ RecordOf(k, t).entry = k.entry /\ r = None
    BY <1>1, RecordFields
  <2>2. QED
    BY <1>1, <1>4, <2>1 DEF LengthKnown, SameListen
<1>5. QED
  BY <1>1, <1>2, <1>3, <1>4, SavedToLoad

(* A step that leaves known plays and saves them, or not.                  *)
LEMMA PlaysKnownAfter ==
  ASSUME world' = world, LengthKnown(cur'), LengthKnown(resume'), LengthKnown(LoadedSong(file')),
         SameListen(file', cur'), SameListen(file', resume')
  PROVE  PlaysKnown'
<1>1. /\ LengthKnown(cur)' <=> LengthKnown(cur')
      /\ LengthKnown(resume)' <=> LengthKnown(resume')
      /\ LengthKnown(LoadedSong(file))' <=> LengthKnown(LoadedSong(file'))
  BY DEF LengthKnown, LoadedSong, SamePlay
<1>2. /\ SameListen(file, cur)' <=> SameListen(file', cur')
      /\ SameListen(file, resume)' <=> SameListen(file', resume')
  BY DEF SameListen, LoadedSong, SamePlay
<1>3. QED
  BY <1>1, <1>2 DEF PlaysKnown

LEMMA SongPollKnown ==
  ASSUME Inv, PlaysKnown, [Next]_vars, NEW dt \in 1 .. MaxStep, SongPoll(dt)
  PROVE  PlaysKnown'
<1> DEFINE t == now + dt
<1>1. UNCHANGED <<world, enabled>> /\ t \in Nat /\ dt \in Nat /\ now' = t /\ now < t /\ now \in Nat
  BY PollFacts, InvFacts DEF SongPoll
<1>2. /\ MemoryOK(entries', cur', resume', now') /\ FileOK(file, now)
      /\ cur \in Play \cup {None} /\ resume \in Record \cup {None} /\ enabled \in BOOLEAN
  BY InvKept, InvParts DEF MemoryOK, RestOK
<1>3. /\ FileOK(file, now') /\ LoadedSong(file) \in Record \cup {None}
      /\ LoadedSong(file) # None => LoadedSong(file).entry.started <= now
  BY <1>1, <1>2, FileLater, LoadedSongFields
<1> HIDE DEF t
<1>4. CASE ~enabled
  <2>1. UNCHANGED <<cur, resume, file>>
    BY <1>4, SongPollHears DEF Update, disk
  <2>2. QED
    BY <1>1, <2>1, PlaysKnownAfter DEF PlaysKnown
<1>5. CASE enabled
  <2>1. PICK s \in SongShown : PollMade(s, t, dt) /\ Shows(s, heard') /\ FileAfter(t)
    BY <1>5, SongPollMade DEF t
  <2>2. s.len \in world.lengths[s.song]
    BY <2>1 DEF Shows
  <2>3. LengthKnown(cur') /\ SameListen(file, cur')
    <3>1. CASE StillOn(s) /\ WentOn(s, dt)
      <4>1. cur \in Play /\ cur # None /\ cur' # None
        BY <1>2, <3>1 DEF WentOn
      <4>2. cur.entry.song = s.song
        <5>1. FilledIn(cur, s).entry.song = s.song
          BY <3>1 DEF StillOn, SameSong
        <5>2. FilledIn(cur, s).entry.song = cur.entry.song
          BY <4>1, FilledInFields
        <5>3. QED
          BY <5>1, <5>2
      <4>3. /\ cur'.entry.song = s.song /\ cur'.entry.started = cur.entry.started
            /\ cur'.entry.listen = cur.entry.listen
            /\ cur'.entry.dur = IF s.len > 0 THEN s.len ELSE cur.entry.dur
        BY <3>1 DEF WentOn, KeyOf
      <4>4. LengthKnown(cur')
        BY <2>2, <4>1, <4>2, <4>3 DEF PlaysKnown, LengthKnown
      <4>5. SameListen(file, cur')
        BY <4>1, <4>2, <4>3 DEF PlaysKnown, SameListen, SamePlay
      <4>6. QED
        BY <4>4, <4>5
    <3>2. CASE LeftOut(s) \/ cur' = None
      BY <3>2 DEF LeftOut, LengthKnown, SameListen
    <3>3. CASE Begun(s, t) /\ cur' # None
      <4>1. KeyOf(cur'.entry) = KeyOf(s)
            /\ \/ /\ CarriesOn(s, t) /\ resume # None
                  /\ cur'.entry.listen = resume.entry.listen
                  /\ cur'.entry.started = resume.entry.started
                  /\ cur'.entry.dur = IF s.len > 0 THEN s.len ELSE resume.entry.dur
               \/ cur'.entry.started = t /\ cur'.entry.dur = s.len
        BY <1>1, <3>3, BegunFields
      <4>2. cur'.entry.song = s.song
        BY <4>1 DEF KeyOf
      <4>3. CASE /\ CarriesOn(s, t) /\ resume # None
                 /\ cur'.entry.listen = resume.entry.listen
                 /\ cur'.entry.started = resume.entry.started
                 /\ cur'.entry.dur = IF s.len > 0 THEN s.len ELSE resume.entry.dur
        <5>1. resume.entry.song = s.song
          BY <4>3 DEF CarriesOn, KeyOf
        <5>2. LengthKnown(cur')
          BY <2>2, <4>2, <4>3, <5>1 DEF PlaysKnown, LengthKnown
        <5>3. SameListen(file, cur')
          BY <4>2, <4>3, <5>1 DEF PlaysKnown, SameListen, SamePlay
        <5>4. QED
          BY <5>2, <5>3
      <4>4. CASE cur'.entry.started = t /\ cur'.entry.dur = s.len
        <5>1. LoadedSong(file) # None => LoadedSong(file).entry.started # t
          <6>1. LoadedSong(file) # None => LoadedSong(file).entry.started \in Nat
            BY <1>3 DEF Record, Entry
          <6>2. QED
            BY <1>1, <1>3, <6>1
        <5>2. QED
          BY <2>2, <4>2, <4>4, <5>1 DEF LengthKnown, SameListen, SamePlay
      <4>5. QED
        BY <4>1, <4>3, <4>4
    <3>4. QED
      BY <2>1, <3>1, <3>2, <3>3 DEF PollMade
  <2>4. resume' \in {resume, None}
    BY <2>1 DEF PollMade, WentOn, LeftOut, Begun
  <2>5. LengthKnown(resume') /\ SameListen(file, resume') /\ LengthKnown(LoadedSong(file))
    BY <2>4 DEF PlaysKnown, LengthKnown, SameListen
  <2>6. PICK k \in {None, cur'} : SavedOr(entries', k, resume', t)
    BY <2>1, PollSaves
  <2>7. /\ LengthKnown(LoadedSong(file'))
        /\ SameListen(file', cur') /\ SameListen(file', resume')
    BY <1>1, <1>2, <1>3, <2>3, <2>5, <2>6, SavedKnown
  <2>8. QED
    BY <1>1, <2>3, <2>5, <2>7, PlaysKnownAfter
<1>6. QED
  BY <1>2, <1>4, <1>5

LEMMA NothingPollKnown ==
  ASSUME Inv, PlaysKnown, [Next]_vars, NEW dt \in 1 .. MaxStep, NothingPoll(dt)
  PROVE  PlaysKnown'
<1> DEFINE t == now + dt
<1>1. /\ NothingHeard(t) /\ NothingLeft(t) /\ t \in Nat /\ now < t /\ now' = t /\ now \in Nat
      /\ world' = world
  BY NothingMade, PollFacts, InvFacts DEF NothingPoll
<1>2. MemoryOK(entries', cur', resume', now') /\ FileOK(file, now)
  BY InvKept, InvParts
<1>3. FileOK(file, now')
  BY <1>1, <1>2, FileLater
<1> HIDE DEF t
<1>4. /\ cur' \in {cur, None} /\ resume' = resume
      /\ file' = file \/ SavedOr(entries', None, resume', t)
  BY <1>1 DEF NothingHeard, NothingLeft
<1>5. /\ LengthKnown(cur') /\ LengthKnown(resume') /\ LengthKnown(LoadedSong(file))
      /\ SameListen(file, cur') /\ SameListen(file, resume')
  BY <1>4 DEF PlaysKnown, LengthKnown, SameListen
<1>6. SavedOr(entries', None, resume', t)
  BY <1>4 DEF SavedOr
<1>7. /\ LengthKnown(LoadedSong(file'))
      /\ SameListen(file', cur') /\ SameListen(file', resume')
  BY <1>1, <1>2, <1>3, <1>5, <1>6, SavedKnown
<1>8. QED
  BY <1>1, <1>5, <1>7, PlaysKnownAfter

LEMMA OtherStepKnown ==
  ASSUME Inv, PlaysKnown, [Next]_vars, OtherStep
  PROVE  PlaysKnown'
<1>1. /\ UNCHANGED <<world, now>> /\ now \in Nat
      /\ KeptStep \/ RemoveStep \/ EmptyStep \/ LoadStep \/ StopStep
  BY InvFacts DEF OtherStep
<1>2. /\ MemoryOK(entries', cur', resume', now') /\ MemoryOK(entries, cur, resume, now)
      /\ FileOK(file, now)
  BY InvKept, InvParts
<1>3. /\ LengthKnown(cur) /\ LengthKnown(resume) /\ LengthKnown(LoadedSong(file))
      /\ SameListen(file, cur) /\ SameListen(file, resume)
  BY DEF PlaysKnown
<1>4. LengthKnown(None) /\ LoadedSong(None) = None /\ (\A f : SameListen(f, None))
      /\ \A p : SameListen(None, p)
  BY NothingToLoad DEF LengthKnown, SameListen
<1>5. /\ \A p, q : SamePlayAs(p, q) /\ LengthKnown(q) => LengthKnown(p)
      /\ \A p, q : SamePlayAs(p, q) /\ SameListen(file, q) => SameListen(file, p)
  BY DEF SamePlayAs, LengthKnown, SameListen, SamePlay
<1>6. ASSUME LengthKnown(cur'), LengthKnown(resume'),
             SameListen(file, cur'), SameListen(file, resume'),
             SavedOr(entries', cur', resume', now)
      PROVE  PlaysKnown'
  <2>1. now' = now
    BY <1>1
  <2>2. MemoryOK(entries', cur', resume', now)
    BY <1>2, <2>1
  <2>3. /\ LengthKnown(LoadedSong(file'))
        /\ SameListen(file', cur') /\ SameListen(file', resume')
    BY <1>1, <1>2, <1>3, <1>6, <2>2, SavedKnown
  <2>4. QED
    BY <1>1, <1>6, <2>3, PlaysKnownAfter
<1>7. CASE KeptStep
  <2>1. /\ LengthKnown(cur') /\ LengthKnown(resume')
        /\ SameListen(file, cur') /\ SameListen(file, resume')
    BY <1>3, <1>5, <1>7 DEF KeptStep
  <2>2. QED
    BY <1>6, <1>7, <2>1 DEF KeptStep
<1>8. CASE RemoveStep
  <2>1. PICK line, c, r :
          /\ c \in {cur, None} /\ r = ForgetTheSaved(line)
          /\ SamePlayAs(cur', c) /\ resume' = r
          /\ SavedOr(entries', cur', resume', now)
    BY <1>8 DEF RemoveStep
  <2>2. r \in {resume, None}
    BY <2>1 DEF ForgetTheSaved
  <2>3. /\ LengthKnown(c) /\ LengthKnown(r) /\ SameListen(file, c) /\ SameListen(file, r)
    BY <1>3, <1>4, <2>1, <2>2
  <2>4. LengthKnown(cur') /\ SameListen(file, cur')
    BY <1>5, <2>1, <2>3
  <2>5. QED
    BY <1>6, <2>1, <2>3, <2>4
<1>9. CASE EmptyStep
  <2>1. cur' = None /\ resume' = None /\ file' \in {file, None}
    BY <1>9 DEF EmptyStep, DeleteFile
  <2>2. LengthKnown(LoadedSong(file'))
    BY <1>3, <1>4, <2>1
  <2>3. QED
    BY <1>1, <1>4, <2>1, <2>2, PlaysKnownAfter
<1>10. CASE LoadStep
  <2>1. /\ cur' = None /\ resume' = LoadedSong(file)
        /\ file' \in {file, None} \/ Save(entries', None, resume', now)
    BY <1>10 DEF LoadStep
  <2>2. LengthKnown(cur') /\ LengthKnown(resume') /\ SameListen(file, cur')
        /\ SameListen(file, resume')
    BY <1>3, <1>4, <2>1 DEF SameListen
  <2>3. CASE file' \in {file, None}
    <3>1. /\ LengthKnown(LoadedSong(file'))
          /\ SameListen(file', cur') /\ SameListen(file', resume')
      BY <1>3, <1>4, <2>2, <2>3
    <3>2. QED
      BY <1>1, <2>2, <3>1, PlaysKnownAfter
  <2>4. CASE Save(entries', None, resume', now)
    <3>1. SavedOr(entries', cur', resume', now)
      BY <2>1, <2>4 DEF SavedOr
    <3>2. QED
      BY <1>6, <2>2, <3>1
  <2>5. QED
    BY <2>1, <2>3, <2>4
<1>11. CASE StopStep
  <2>1. cur' = None /\ resume' = None /\ SavedOr(entries, cur, resume, now)
    BY <1>11 DEF StopStep, SavedOr
  <2>2. LengthKnown(LoadedSong(file'))
    BY <1>1, <1>2, <1>3, <2>1, SavedKnown
  <2>3. QED
    BY <1>1, <1>4, <2>1, <2>2, PlaysKnownAfter
<1>12. QED
  BY <1>1, <1>7, <1>8, <1>9, <1>10, <1>11

LEMMA PlaysKnownHolds == Spec => []PlaysKnown
<1>1. Init => PlaysKnown
  <2>1. Init => cur = None /\ resume = None /\ file \in {None, Damaged}
    BY DEF Init
  <2>2. QED
    BY <2>1, NothingToLoad DEF PlaysKnown, LengthKnown, SameListen
<1>2. Inv /\ PlaysKnown /\ [Next]_vars => PlaysKnown'
  BY SongPollKnown, NothingPollKnown, OtherStepKnown, OtherSteps
<1>3. QED
  BY <1>1, <1>2, InvHolds, PTL DEF Spec

-----------------------------------------------------------------------------
(* What was heard of a listen is with the play in progress, or saved.      *)

LengthsFixed == \A song \in Songs : \A m, n \in world.lengths[song] : m = n

(* Where Refrain may be quit or die, a listen is found to be the one it    *)
(* was, of the same length.                                                *)
ListensFoundAgain == Restarts => ~world.lateAlbum /\ world.seekTo = {} /\ LengthsFixed

(* p counted as soon as it could.                                          *)
NotYet(p) == p # None /\ CountsAsPlayed(p.played, p.entry.dur) => p.counted

(* n was heard of the listen under way h, and p has it.                    *)
SpentOn(p, n, h) == ~h.over /\ n > 0 => /\ p # None /\ p.entry.listen = h.number
                                        /\ n <= p.played

HeldBy == IF up THEN Latest(cur, resume) ELSE LoadedSong(file)

Listed ==
  /\ NotYet(cur) /\ NotYet(resume) /\ NotYet(LoadedSong(file))
  /\ SpentOn(HeldBy, spent, heard)

LEMMA CountsMore ==
  ASSUME NEW dur \in Nat, NEW played \in Nat, NEW more \in Nat, played <= more,
         CountsAsPlayed(played, dur)
  PROVE  CountsAsPlayed(more, dur) /\ played > 0
<1>1. CASE dur = 0
  BY <1>1, Constants DEF CountsAsPlayed
<1>2. CASE dur # 0
  <2>1. dur > MinTrack /\ (2 * played >= dur \/ played >= ScrobbleAfter)
    BY <1>2 DEF CountsAsPlayed, Counts
  <2>2. 2 * more >= dur \/ more >= ScrobbleAfter
    BY <2>1, Constants
  <2>3. played > 0
    BY <1>2, <2>1, Constants
  <2>4. QED
    BY <1>2, <2>1, <2>2, <2>3 DEF CountsAsPlayed, Counts
<1>3. QED
  BY <1>1, <1>2

LEMMA NothingCounts ==
  ASSUME NEW dur \in Nat
  PROVE  ~CountsAsPlayed(0, dur)
  BY CountsMore

(* A write that does not fail leaves the song of the memory.               *)
LEMMA SavedSong ==
  ASSUME NEW list, NEW c, NEW r, NEW n \in Nat, NEW t \in Nat,
         MemoryOK(list, c, r, n), FileOK(file, n), Save(list, c, r, t), ~world.writesMayFail
  PROVE  LoadedSong(file') = IF c # None THEN RecordOf(c, t) ELSE r
<1>1. list \in Seq(Entry) /\ c \in Play \cup {None} /\ r \in Record \cup {None}
  BY DEF MemoryOK
<1>2. file' \notin {None, Damaged}
      /\ file'.current = IF c # None THEN RecordOf(c, t) ELSE r
  BY <1>1, SaveLeaves, ZenonT(60)
<1>3. FileOK(file', n)
  BY SaveOK
<1>4. QED
  BY <1>2, <1>3, LoadedIsCurrent

LEMMA SavedNotYet ==
  ASSUME NEW list, NEW c, NEW r, NEW n \in Nat, NEW t \in Nat,
         MemoryOK(list, c, r, n), FileOK(file, n), SavedOr(list, c, r, t),
         NotYet(c), NotYet(r), NotYet(LoadedSong(file))
  PROVE  NotYet(LoadedSong(file'))
<1>1. c \in Play \cup {None}
  BY DEF MemoryOK
<1>2. CASE file' = file
  BY <1>2
<1>3. CASE file' = Damaged
  BY <1>3, NothingToLoad DEF NotYet
<1>4. CASE LoadedSong(file') = IF c # None THEN RecordOf(c, t) ELSE r
  <2>1. c # None => /\ RecordOf(c, t) # None /\ RecordOf(c, t).entry = c.entry
                    /\ RecordOf(c, t).played = c.played /\ RecordOf(c, t).counted = c.counted
    BY <1>1, RecordFields
  <2>2. QED
    BY <1>4, <2>1 DEF NotYet
<1>5. QED
  BY <1>2, <1>3, <1>4, SavedToLoad

(* What the file has of a play is of its listen.                           *)
LEMMA KnownLoaded ==
  ASSUME NEW n, FileOK(file, n), file # Damaged, NEW p, p # None, SameListen(file, p),
         Known(file, p.entry) # 0
  PROVE  /\ LoadedSong(file) # None /\ LoadedSong(file).entry.listen = p.entry.listen
         /\ LoadedSong(file).played = Known(file, p.entry)
<1>1. /\ file # None /\ file.current # None /\ SamePlay(file.current.entry, p.entry)
      /\ Known(file, p.entry) = file.current.played
  BY DEF Known
<1>2. LoadedSong(file) = file.current
  BY <1>1, LoadedIsCurrent
<1>3. QED
  BY <1>1, <1>2 DEF SameListen

LEMMA ListedAfter ==
  ASSUME NotYet(cur'), NotYet(resume'), NotYet(LoadedSong(file')),
         SpentOn(IF up' THEN Latest(cur', resume') ELSE LoadedSong(file'), spent', heard')
  PROVE  Listed'
<1>1. /\ NotYet(cur)' <=> NotYet(cur')
      /\ NotYet(resume)' <=> NotYet(resume')
      /\ NotYet(LoadedSong(file))' <=> NotYet(LoadedSong(file'))
  BY DEF NotYet, LoadedSong, SamePlay
<1>2. SpentOn(HeldBy, spent, heard)'
  BY DEF SpentOn, HeldBy, Latest, LoadedSong, SamePlay
<1>3. QED
  BY <1>1, <1>2 DEF Listed

(* A poll with the song that was on, and what it makes of the time heard.  *)
LEMMA PollSpent ==
  ASSUME Inv, Follows, AlbumsAreTold, Listed, up,
         resume # None => ~world.lateAlbum /\ world.seekTo = {} /\ LengthsTold,
         HeardIn(resume, heard, now), LengthTold(resume),
         NEW dt \in Nat, now + dt \in Nat, NEW s \in SongShown, PollMade(s, now + dt, dt),
         Shows(s, heard'), Continues(s, dt) \/ Another
  PROVE  SpentOn(Latest(cur', resume'), spent', heard')
<1>1. CASE Another
  <2>1. spent' = 0
    BY <1>1 DEF Another
  <2>2. QED
    BY <2>1 DEF SpentOn
<1>2. CASE Continues(s, dt)
  <2>1. /\ ~heard.over /\ heard'.number = heard.number
        /\ spent' = IF cur # None /\ cur.entry.listen = heard.number
                      THEN spent + Credit(s.playing, dt) ELSE spent
    BY <1>2 DEF Continues
  <2>2. /\ SpentOn(Latest(cur, resume), spent, heard) /\ spent \in Nat
        /\ cur \in Play \cup {None} /\ resume \in Record \cup {None}
    BY InvFacts DEF Listed, HeldBy, RestOK, MemoryOK
  <2>3. Credit(s.playing, dt) \in Nat
    BY CreditBound DEF SongShown
  <2>4. CASE WentOn(s, dt)
    <3>1. /\ cur # None /\ cur' # None /\ cur'.entry.listen = cur.entry.listen
          /\ cur'.played = cur.played + Credit(s.playing, dt) /\ cur.played \in Nat
      BY <2>2, <2>4 DEF WentOn, Play
    <3>2. Latest(cur', resume') = cur' /\ Latest(cur, resume) = cur
      BY <3>1 DEF Latest
    <3>3. CASE cur.entry.listen = heard.number
      <4>1. spent <= cur.played
        BY <2>1, <2>2, <3>1, <3>2 DEF SpentOn
      <4>2. spent' <= cur'.played
        BY <2>1, <2>2, <2>3, <3>1, <3>3, <4>1
      <4>3. QED
        BY <2>1, <3>1, <3>2, <3>3, <4>2 DEF SpentOn
    <3>4. CASE cur.entry.listen # heard.number
      <4>1. ~(spent' > 0)
        BY <2>1, <2>2, <3>2, <3>4 DEF SpentOn
      <4>2. QED
        BY <4>1 DEF SpentOn
    <3>5. QED
      BY <3>3, <3>4
  <2>5. CASE ~StillOn(s)
    <3>1. cur = None
      BY <1>2, <2>5, StaysOn
    <3>2. spent' = spent /\ SpentOn(resume, spent, heard)
      BY <2>1, <2>2, <3>1 DEF Latest
    <3>3. CASE LeftOut(s)
      <4>1. Latest(cur', resume') = resume
        BY <3>3 DEF LeftOut, Latest
      <4>2. QED
        BY <2>1, <3>2, <4>1 DEF SpentOn
    <3>4. CASE Begun(s, now + dt)
      <4> SUFFICES ASSUME spent > 0
                   PROVE  /\ Latest(cur', resume') # None
                          /\ Latest(cur', resume').entry.listen = heard.number
                          /\ spent <= Latest(cur', resume').played
        BY <2>1, <3>2 DEF SpentOn
      <4>1. resume # None /\ resume.entry.listen = heard.number /\ spent <= resume.played
        BY <2>1, <3>2 DEF SpentOn
      <4>2. CarriesOn(s, now + dt)
        BY <1>2, <4>1, CarriedOnWith
      <4>3. cur' = CarriedOn(s, now + dt) /\ resume \in Record
        BY <2>2, <3>4, <4>1, <4>2 DEF Begun
      <4>4. cur' # None /\ cur'.entry.listen = resume.entry.listen /\ cur'.played = resume.played
        BY <4>3, CarriedOnFields
      <4>5. Latest(cur', resume') = cur'
        BY <4>4 DEF Latest
      <4>6. QED
        BY <4>1, <4>4, <4>5
    <3>5. QED
      BY <2>5, <3>3, <3>4 DEF PollMade
  <2>6. QED
    BY <2>4, <2>5 DEF PollMade
<1>3. QED
  BY <1>1, <1>2

(* What is on after a poll counted as soon as it could.                    *)
LEMMA PollCounts ==
  ASSUME Inv, PlaysKnown, Listed, resume # None => LengthsFixed,
         NEW dt \in Nat, NEW t \in Nat, NEW s \in SongShown, PollMade(s, t, dt), Shows(s, heard')
  PROVE  NotYet(cur')
<1>1. CASE WentOn(s, dt)
  BY <1>1 DEF WentOn, NotYet
<1>2. CASE LeftOut(s) \/ cur' = None
  BY <1>2 DEF LeftOut, NotYet
<1>3. CASE Begun(s, t) /\ cur' # None
  <2>1. CASE /\ CarriesOn(s, t) /\ resume # None /\ resume \in Record
             /\ cur'.entry.dur = IF s.len > 0 THEN s.len ELSE resume.entry.dur
             /\ cur'.played = resume.played /\ cur'.counted = resume.counted
    <3>1. resume.entry.song = s.song /\ s.song \in Songs
      BY <2>1 DEF CarriesOn, KeyOf, SongShown
    <3>2. s.len \in world.lengths[s.song] /\ resume.entry.dur \in world.lengths[s.song]
      BY <2>1, <3>1 DEF Shows, PlaysKnown, LengthKnown
    <3>3. s.len = resume.entry.dur
      BY <2>1, <3>1, <3>2 DEF LengthsFixed
    <3>4. cur'.entry.dur = resume.entry.dur
      BY <2>1, <3>3
    <3>5. QED
      BY <2>1, <3>4 DEF Listed, NotYet
  <2>2. CASE cur'.entry.dur = s.len /\ cur'.played = 0
    <3>1. s.len \in Nat
      BY DEF SongShown
    <3>2. QED
      BY <2>2, <3>1, NothingCounts DEF NotYet
  <2>3. QED
    BY <1>3, <2>1, <2>2, BegunFields
<1>4. QED
  BY <1>1, <1>2, <1>3 DEF PollMade

-----------------------------------------------------------------------------
(* Every step keeps it.                                                    *)

Unforgotten == ~world.writesMayFail /\ AlbumsAreTold /\ ListensFoundAgain

LEMMA WhereFoundAgain ==
  ASSUME Inv, Unforgotten
  PROVE  /\ RowsFoundAgain /\ (Reloads <=> Restarts)
         /\ Restarts => ~world.lateAlbum /\ world.seekTo = {} /\ LengthsFixed /\ LengthsTold
<1>1. Reloads <=> Restarts
  BY DEF Unforgotten, Reloads
<1>2. LengthsFixed => LengthsTold
  BY DEF LengthsFixed, LengthsTold
<1>3. QED
  BY <1>1, <1>2 DEF Unforgotten, ListensFoundAgain, RowsFoundAgain

LEMMA SongPollListed ==
  ASSUME Inv, Follows, PlaysKnown, OneRow, Unforgotten, Listed, [Next]_vars,
         NEW dt \in 1 .. MaxStep, SongPoll(dt)
  PROVE  Listed'
<1> DEFINE t == now + dt
<1>1. /\ UNCHANGED <<world, enabled, up>> /\ up /\ t \in Nat /\ dt \in Nat /\ now' = t /\ now < t
      /\ now \in Nat /\ enabled \in BOOLEAN /\ spent \in Nat
  BY PollFacts, InvFacts DEF SongPoll, Poll, RestOK
<1>2. /\ MemoryOK(entries', cur', resume', now') /\ FileOK(file, now)
      /\ ~enabled => cur = None /\ resume = None
  BY InvKept, InvParts DEF RestOK
<1>3. FileOK(file, now')
  BY <1>1, <1>2, FileLater
<1>4. /\ resume # None => Restarts
      /\ Restarts => HeardIn(resume, heard, now) /\ LengthTold(resume)
      /\ Restarts => ~world.lateAlbum /\ world.seekTo = {} /\ LengthsFixed /\ LengthsTold
      /\ AlbumsAreTold
  BY WhereFoundAgain DEF OneRow, Unforgotten
<1>5. HeardIn(None, heard, now) /\ LengthTold(None)
  BY DEF HeardIn, LengthTold
<1>6. NotYet(LoadedSong(file)) /\ NotYet(resume) /\ SpentOn(Latest(cur, resume), spent, heard)
  BY <1>1 DEF Listed, HeldBy
<1>7. CASE ~enabled
  <2>1. UNCHANGED <<cur, resume, file>>
    BY <1>7, SongPollHears DEF Update, disk
  <2>2. PICK s \in SongShown : Continues(s, dt) \/ Another
    BY SongPollHears
  <2>3. ~(spent' > 0)
    <3>1. CASE Another
      BY <3>1 DEF Another
    <3>2. CASE Continues(s, dt)
      <4>1. ~heard.over /\ spent' = spent
        BY <1>2, <1>7, <3>2 DEF Continues
      <4>2. QED
        BY <1>2, <1>6, <1>7, <4>1 DEF SpentOn, Latest
    <3>3. QED
      BY <2>2, <3>1, <3>2
  <2>4. SpentOn(Latest(cur', resume'), spent', heard')
    BY <2>3 DEF SpentOn
  <2>5. NotYet(cur') /\ NotYet(resume') /\ NotYet(LoadedSong(file'))
    BY <2>1 DEF Listed
  <2>6. QED
    BY <1>1, <2>4, <2>5, ListedAfter
<1>8. CASE enabled
  <2>1. PICK s \in SongShown : /\ PollMade(s, t, dt) /\ Shows(s, heard')
                               /\ Continues(s, dt) \/ Another
                               /\ FileAfter(t)
    BY <1>8, SongPollMade DEF t
  <2>2. HeardIn(resume, heard, now) /\ LengthTold(resume)
    BY <1>4, <1>5
  <2>3. SpentOn(Latest(cur', resume'), spent', heard')
    BY <1>1, <1>4, <2>1, <2>2, PollSpent
  <2> HIDE DEF t
  <2>4. NotYet(cur')
    BY <1>1, <1>4, <2>1, PollCounts
  <2>5. resume' \in {resume, None}
    BY <2>1 DEF PollMade, WentOn, LeftOut, Begun
  <2>6. NotYet(None)
    BY DEF NotYet
  <2>7. NotYet(resume')
    BY <1>6, <2>5, <2>6
  <2>8. PICK k \in {None, cur'} : SavedOr(entries', k, resume', t)
    BY <2>1, PollSaves
  <2>9. NotYet(LoadedSong(file'))
    <3>1. MemoryOK(entries', k, resume', now') /\ NotYet(k)
      BY <1>2, <2>4, <2>6 DEF MemoryOK
    <3>2. QED
      BY <1>1, <1>3, <1>6, <2>7, <2>8, <3>1, SavedNotYet
  <2>10. QED
    BY <1>1, <2>3, <2>4, <2>7, <2>9, ListedAfter
<1>9. QED
  BY <1>1, <1>7, <1>8

LEMMA NothingPollListed ==
  ASSUME Inv, Follows, Listed, [Next]_vars, NEW dt \in 1 .. MaxStep, NothingPoll(dt)
  PROVE  Listed'
<1> DEFINE t == now + dt
<1>1. /\ NothingHeard(t) /\ NothingLeft(t) /\ t \in Nat /\ now < t /\ now' = t /\ now \in Nat
      /\ up /\ up' = up
  BY NothingMade, PollFacts, InvFacts DEF NothingPoll, Poll
<1>2. MemoryOK(entries', cur', resume', now') /\ FileOK(file, now)
  BY InvKept, InvParts
<1>3. FileOK(file, now')
  BY <1>1, <1>2, FileLater
<1> HIDE DEF t
<1>4. /\ cur' \in {cur, None} /\ resume' = resume /\ spent' = spent
      /\ heard'.number = heard.number /\ (heard.over => heard'.over)
      /\ SavedOr(entries', None, resume', t)
  BY <1>1 DEF NothingHeard, NothingLeft, SavedOr
<1>5. NotYet(None)
  BY DEF NotYet
<1>6. NotYet(cur') /\ NotYet(resume')
  BY <1>4, <1>5 DEF Listed
<1>7. NotYet(LoadedSong(file'))
  <2>1. MemoryOK(entries', None, resume', now')
    BY <1>2 DEF MemoryOK
  <2>2. NotYet(LoadedSong(file))
    BY DEF Listed
  <2>3. QED
    BY <1>1, <1>3, <1>4, <1>5, <1>6, <2>1, <2>2, SavedNotYet
<1>8. SpentOn(Latest(cur', resume'), spent', heard')
  <2>1. CASE cur' = cur
    <3>1. SpentOn(Latest(cur, resume), spent, heard)
      BY <1>1 DEF Listed, HeldBy
    <3>2. QED
      BY <1>4, <2>1, <3>1 DEF SpentOn
  <2>2. CASE cur' = None /\ cur # None
    <3>1. heard'.over
      BY <2>2, OverWithIt
    <3>2. QED
      BY <3>1 DEF SpentOn
  <2>3. QED
    BY <1>4, <2>1, <2>2
<1>9. QED
  BY <1>1, <1>6, <1>7, <1>8, ListedAfter

(* While Refrain does not run, it starts, or nothing happens.              *)
LEMMA DownSteps ==
  ASSUME Inv, [Next]_vars, ~up
  PROVE  UNCHANGED vars \/ (UNCHANGED <<world, now>> /\ (EmptyStep \/ LoadStep))
<1>1. Start \/ UNCHANGED vars
  BY DEF Next, SongPoll, NothingPoll, Poll, MarkScrobbled, Remove, Clear, Configure, Event,
         Reconfigure, Shutdown, Crash
<1>2. CASE Start
  <2>1. up' = TRUE
    BY <1>2 DEF Start
  <2>2. OtherStep
    <3>1. \A dt \in 1 .. MaxStep : ~SongPoll(dt) /\ ~NothingPoll(dt)
      BY DEF SongPoll, NothingPoll, Poll
    <3>2. QED
      BY <3>1, OtherSteps
  <2>3. ~KeptStep /\ ~RemoveStep /\ ~StopStep
    BY <2>1 DEF KeptStep, RemoveStep, StopStep
  <2>4. QED
    BY <2>2, <2>3 DEF OtherStep
<1>3. QED
  BY <1>1, <1>2

(* Refrain stops: the time heard is in the file.                           *)
LEMMA StopListed ==
  ASSUME Inv, StoredInv, PlaysKnown, ~world.writesMayFail, Listed, up, StopStep
  PROVE  SpentOn(LoadedSong(file'), spent', heard')
<1>1. /\ cur \in Play \cup {None} /\ resume \in Record \cup {None} /\ spent \in Nat /\ now \in Nat
      /\ MemoryOK(entries, cur, resume, now) /\ FileOK(file, now)
      /\ ~enabled => cur = None /\ resume = None
      /\ enabled \in BOOLEAN
  BY InvFacts DEF RestOK
<1>2. /\ heard' = heard /\ SpentOn(Latest(cur, resume), spent, heard)
      /\ SameListen(file, cur) /\ SameListen(file, resume)
  BY DEF StopStep, Listed, HeldBy, PlaysKnown
<1> SUFFICES ASSUME ~heard.over, spent' > 0
             PROVE  /\ LoadedSong(file') # None
                    /\ LoadedSong(file').entry.listen = heard.number
                    /\ spent' <= LoadedSong(file').played
  BY <1>2 DEF SpentOn
<1>3. CASE enabled /\ Save(entries, cur, resume, now) /\ spent' = spent
  <2>1. /\ Latest(cur, resume) # None /\ Latest(cur, resume).entry.listen = heard.number
        /\ spent <= Latest(cur, resume).played
    BY <1>2, <1>3 DEF SpentOn
  <2>2. LoadedSong(file') = IF cur # None THEN RecordOf(cur, now) ELSE resume
    BY <1>1, <1>3, SavedSong
  <2>3. cur # None => /\ RecordOf(cur, now) # None /\ RecordOf(cur, now).entry = cur.entry
                      /\ RecordOf(cur, now).played = cur.played
    BY <1>1, RecordFields
  <2>4. QED
    BY <1>3, <2>1, <2>2, <2>3 DEF Latest
<1>4. CASE ~enabled /\ spent' = spent
  BY <1>1, <1>2, <1>4 DEF SpentOn, Latest
<1>5. CASE /\ UNCHANGED file
           /\ spent' = IF cur # None /\ cur.saved < spent THEN cur.saved ELSE spent
  <2>1. /\ spent > 0 /\ spent' \in Nat
        /\ cur # None => spent' <= cur.saved
        /\ cur = None => spent' = spent
    BY <1>1, <1>5 DEF Play
  <2>2. /\ Latest(cur, resume) # None /\ Latest(cur, resume).entry.listen = heard.number
        /\ spent <= Latest(cur, resume).played
    BY <1>2, <2>1 DEF SpentOn
  <2>3. enabled
    BY <1>1, <2>2 DEF Latest
  <2>4. file # Damaged /\ SongStored(file, cur, resume)
    BY <2>3 DEF StoredInv, StoredOK
  <2>5. CASE cur # None
    <3>1. /\ cur \in Play /\ Known(file, cur.entry) = cur.saved /\ cur.saved \in Nat
          /\ cur.entry.listen = heard.number
      BY <1>1, <2>2, <2>4, <2>5 DEF SongStored, Play, Latest
    <3>2. Known(file, cur.entry) # 0
      BY <1>1, <2>1, <2>5, <3>1
    <3>3. /\ LoadedSong(file) # None /\ LoadedSong(file).entry.listen = cur.entry.listen
          /\ LoadedSong(file).played = Known(file, cur.entry)
      BY <1>1, <1>2, <2>4, <2>5, <3>2, KnownLoaded
    <3>4. QED
      BY <1>5, <2>1, <2>5, <3>1, <3>3
  <2>6. CASE cur = None
    <3>1. /\ resume # None /\ Known(file, resume.entry) = resume.played
          /\ resume.entry.listen = heard.number /\ spent <= resume.played /\ resume.played \in Nat
      BY <1>1, <2>2, <2>4, <2>6 DEF SongStored, Record, Latest
    <3>2. Known(file, resume.entry) # 0
      BY <1>1, <2>1, <3>1
    <3>3. /\ LoadedSong(file) # None /\ LoadedSong(file).entry.listen = resume.entry.listen
          /\ LoadedSong(file).played = Known(file, resume.entry)
      BY <1>1, <1>2, <2>4, <3>1, <3>2, KnownLoaded
    <3>4. QED
      BY <1>5, <2>1, <2>6, <3>1, <3>3
  <2>7. QED
    BY <2>5, <2>6
<1>6. QED
  BY <1>1, <1>3, <1>4, <1>5 DEF StopStep

LEMMA OtherStepListed ==
  ASSUME Inv, StoredInv, PlaysKnown, Unforgotten, Listed, [Next]_vars,
         OtherStep, up \/ EmptyStep \/ LoadStep
  PROVE  Listed'
<1>1. /\ UNCHANGED <<world, now>> /\ now \in Nat /\ spent \in Nat /\ heard \in Listen
      /\ KeptStep \/ RemoveStep \/ EmptyStep \/ LoadStep \/ StopStep
  BY InvFacts DEF OtherStep, RestOK
<1>2. /\ MemoryOK(entries', cur', resume', now') /\ MemoryOK(entries, cur, resume, now)
      /\ FileOK(file, now)
      /\ ~enabled => cur = None /\ resume = None
  BY InvKept, InvParts DEF MemoryOK, RestOK
<1>3. NotYet(cur) /\ NotYet(resume) /\ NotYet(LoadedSong(file))
  BY DEF Listed
<1>4. NotYet(None) /\ LoadedSong(None) = None
  BY NothingToLoad DEF NotYet
<1>5. \A p, q : SamePlayAs(p, q) /\ NotYet(q) => NotYet(p)
  BY DEF SamePlayAs, NotYet
<1>6. ASSUME NotYet(cur'), NotYet(resume'), SavedOr(entries', cur', resume', now),
             up' = up, up, SpentOn(Latest(cur', resume'), spent', heard')
      PROVE  Listed'
  <2>1. MemoryOK(entries', cur', resume', now)
    BY <1>1, <1>2
  <2>2. NotYet(LoadedSong(file'))
    BY <1>1, <1>2, <1>3, <1>6, <2>1, SavedNotYet
  <2>3. QED
    BY <1>6, <2>2, ListedAfter
<1>7. CASE up /\ KeptStep
  <2>1. /\ UNCHANGED <<heard, up, spent>>
        /\ SamePlayAs(cur', cur) /\ SamePlayAs(resume', resume)
        /\ SavedOr(entries', cur', resume', now)
    BY <1>7 DEF KeptStep
  <2>2. SpentOn(Latest(cur, resume), spent, heard)
    BY <1>7 DEF Listed, HeldBy
  <2>3. SpentOn(Latest(cur', resume'), spent', heard')
    BY <2>1, <2>2 DEF SpentOn, Latest, SamePlayAs
  <2>4. NotYet(cur') /\ NotYet(resume')
    BY <1>3, <1>5, <2>1
  <2>5. QED
    BY <1>6, <1>7, <2>1, <2>3, <2>4
<1>8. CASE up /\ RemoveStep
  <2>1. PICK line, c, r :
          /\ UNCHANGED <<heard, up>>
          /\ c \in {cur, None} /\ r = ForgetTheSaved(line)
          /\ SamePlayAs(cur', c) /\ resume' = r
          /\ spent' = IF c # cur \/ r # resume THEN 0 ELSE spent
          /\ SavedOr(entries', cur', resume', now)
    BY <1>8 DEF RemoveStep
  <2>2. r \in {resume, None}
    BY <2>1 DEF ForgetTheSaved
  <2>3. NotYet(c) /\ NotYet(r)
    BY <1>3, <1>4, <2>1, <2>2
  <2>4. NotYet(cur') /\ NotYet(resume')
    BY <1>5, <2>1, <2>3
  <2>5. SpentOn(Latest(cur', resume'), spent', heard')
    <3>1. CASE c = cur /\ r = resume
      <4>1. SpentOn(Latest(cur, resume), spent, heard)
        BY <1>8 DEF Listed, HeldBy
      <4>2. QED
        BY <2>1, <3>1, <4>1 DEF SpentOn, Latest, SamePlayAs
    <3>2. CASE ~(c = cur /\ r = resume)
      BY <2>1, <3>2 DEF SpentOn
    <3>3. QED
      BY <3>1, <3>2
  <2>6. QED
    BY <1>6, <1>8, <2>1, <2>4, <2>5
<1>9. CASE EmptyStep
  <2>1. cur' = None /\ resume' = None /\ spent' = 0 /\ file' \in {file, None}
    BY <1>9 DEF EmptyStep, DeleteFile
  <2>2. \A p : SpentOn(p, spent', heard')
    BY <2>1 DEF SpentOn
  <2>3. NotYet(cur') /\ NotYet(resume') /\ NotYet(LoadedSong(file'))
    BY <1>3, <1>4, <2>1
  <2>4. QED
    BY <2>2, <2>3, ListedAfter
<1>10. CASE LoadStep
  <2>1. /\ ~enabled /\ cur' = None /\ resume' = LoadedSong(file) /\ spent' = spent /\ up'
        /\ \/ ~up /\ heard' = HeardAfresh
           \/ up /\ heard' = heard
        /\ file' \in {file, None} \/ Save(entries', None, resume', now)
    BY <1>10 DEF LoadStep
  <2>2. NotYet(cur') /\ NotYet(resume')
    BY <1>3, <1>4, <2>1
  <2>3. NotYet(LoadedSong(file'))
    <3>1. CASE file' \in {file, None}
      BY <1>3, <1>4, <3>1
    <3>2. CASE Save(entries', None, resume', now)
      <4>1. MemoryOK(entries', None, resume', now) /\ SavedOr(entries', None, resume', now)
        BY <1>1, <1>2, <3>2 DEF MemoryOK, SavedOr
      <4>2. QED
        BY <1>1, <1>2, <1>3, <1>4, <2>2, <4>1, SavedNotYet
    <3>3. QED
      BY <2>1, <3>1, <3>2
  <2>4. SpentOn(Latest(cur', resume'), spent', heard')
    <3>1. CASE ~up /\ heard' = HeardAfresh
      <4>1. heard'.over = heard.over /\ heard'.number = heard.number
        BY <1>1, <3>1 DEF HeardAfresh, Listen
      <4>2. SpentOn(LoadedSong(file), spent, heard)
        BY <3>1 DEF Listed, HeldBy
      <4>3. QED
        BY <2>1, <4>1, <4>2 DEF SpentOn, Latest
    <3>2. CASE up /\ heard' = heard
      <4>1. SpentOn(Latest(cur, resume), spent, heard)
        BY <3>2 DEF Listed, HeldBy
      <4>2. Latest(cur, resume) = None
        BY <1>2, <2>1 DEF Latest
      <4>3. QED
        BY <2>1, <3>2, <4>1, <4>2 DEF SpentOn
    <3>3. QED
      BY <2>1, <3>1, <3>2
  <2>5. QED
    BY <2>1, <2>2, <2>3, <2>4, ListedAfter
<1>11. CASE up /\ StopStep
  <2>1. /\ ~up' /\ cur' = None /\ resume' = None /\ SavedOr(entries, cur, resume, now)
    BY <1>11 DEF StopStep, SavedOr
  <2>2. SpentOn(LoadedSong(file'), spent', heard')
    BY <1>11, StopListed DEF Unforgotten
  <2>3. NotYet(LoadedSong(file'))
    BY <1>1, <1>2, <1>3, <2>1, SavedNotYet
  <2>4. QED
    BY <1>4, <2>1, <2>2, <2>3, ListedAfter
<1>12. EmptyStep \/ LoadStep \/ (up /\ (KeptStep \/ RemoveStep \/ StopStep))
  BY <1>1
<1>13. QED
  BY <1>7, <1>8, <1>9, <1>10, <1>11, <1>12

ListedInv == Unforgotten => Listed

LEMMA ListedKept ==
  /\ Inv /\ Follows /\ StoredInv /\ PlaysKnown /\ OneRowInv /\ ListedInv /\ [Next]_vars
  => ListedInv'
<1> SUFFICES ASSUME Inv, Follows, StoredInv, PlaysKnown, OneRowInv, ListedInv, [Next]_vars,
                    Unforgotten'
             PROVE  Listed'
  BY DEF ListedInv
<1>1. world' = world
  BY OtherSteps DEF SongPoll, NothingPoll, Poll, OtherStep
<1>2. Unforgotten
  BY <1>1 DEF Unforgotten, AlbumsAreTold, ListensFoundAgain, Restarts, LengthsFixed
<1>3. Listed /\ OneRow
  BY <1>2, WhereFoundAgain DEF ListedInv, OneRowInv, Unforgotten
<1>4. CASE UNCHANGED vars
  <2>1. UNCHANGED <<up, cur, resume, file, spent, heard>>
    BY <1>4 DEF vars, memory, disk, ghosts
  <2>2. NotYet(cur') /\ NotYet(resume') /\ NotYet(LoadedSong(file'))
    BY <1>3, <2>1 DEF Listed
  <2>3. SpentOn(IF up' THEN Latest(cur', resume') ELSE LoadedSong(file'), spent', heard')
    BY <1>3, <2>1 DEF Listed, HeldBy
  <2>4. QED
    BY <2>2, <2>3, ListedAfter
<1>5. ASSUME OtherStep, ~UNCHANGED vars PROVE Listed'
  <2>1. up \/ EmptyStep \/ LoadStep
    BY <1>5, DownSteps
  <2>2. QED
    BY <1>2, <1>3, <1>5, <2>1, OtherStepListed
<1>6. QED
  BY <1>2, <1>3, <1>4, <1>5, SongPollListed, NothingPollListed, OtherSteps

LEMMA ListedHolds == Spec => []ListedInv
<1>1. Init => ListedInv
  <2>1. Init => /\ cur = None /\ resume = None /\ file \in {None, Damaged} /\ spent = 0
    BY DEF Init
  <2>2. QED
    BY <2>1, NothingToLoad DEF ListedInv, Listed, NotYet, SpentOn
<1>2. QED
  BY <1>1, InvHolds, FollowsAndNumbered, StoredHolds, PlaysKnownHolds, OneRowHolds, ListedKept,
     PTL DEF Spec

(* What Refrain heard of a listen is not forgotten: as soon as it is enough *)
(* the play is in the list, pauses, restarts and crashes in the middle of   *)
(* it notwithstanding.  The album that turns up must be taken for the       *)
(* song's, and where Refrain may be quit or die a listen must be found to   *)
(* be the one it was: albums show at once, the listener stays in place, and *)
(* every song has one length.                                              *)
THEOREM NothingHeardIsForgotten ==
  Spec => [](AlbumsAreTold /\ ListensFoundAgain => HeardIsListed)
<1>1. Inv /\ Follows /\ ListedInv => (AlbumsAreTold /\ ListensFoundAgain => HeardIsListed)
  <2> SUFFICES ASSUME Inv, Follows, ListedInv, AlbumsAreTold, ListensFoundAgain,
                      ~world.writesMayFail, cur # None, CountsAsPlayed(spent, cur.entry.dur)
               PROVE  cur.counted
    BY DEF HeardIsListed
  <2>1. Listed
    BY DEF ListedInv, Unforgotten
  <2>2. /\ ~heard.over /\ cur \in Play /\ up /\ spent \in Nat
    BY InvFacts DEF Follows, RestOK
  <2>3. cur.entry.dur \in Nat /\ cur.played \in Nat
    BY <2>2 DEF Play, Entry
  <2>4. spent > 0
    BY <2>2, <2>3, CountsMore
  <2>5. spent <= cur.played
    BY <2>1, <2>2, <2>4 DEF Listed, SpentOn, HeldBy, Latest
  <2>6. CountsAsPlayed(cur.played, cur.entry.dur)
    BY <2>2, <2>3, <2>5, CountsMore
  <2>7. QED
    BY <2>1, <2>6 DEF Listed, NotYet
<1>2. QED
  BY <1>1, InvHolds, FollowsAndNumbered, ListedHolds, PTL
=============================================================================
