--------------------------- MODULE Scrobbler_proofs ---------------------------
(***************************************************************************)
(* What holds of the play in progress for any songs, lengths, graces and   *)
(* intervals, and for any number of polls, restarts and changes of account.*)
(***************************************************************************)
EXTENDS Scrobbler, TLAPS

(* What a poll that shows a song shows, and what one shows that does not.  *)
SongShown ==
  [song : Songs, album : BOOLEAN, len : Nat, pos : Position, playing : BOOLEAN,
   restarted : BOOLEAN, listen : Nat]

GapShown == [len : Nat, pos : Position, playing : BOOLEAN]

RowType(r) ==
  /\ r.name \in Songs \cup {Other}
  /\ r.listen \in Nat /\ r.started \in Nat /\ r.dur \in Nat
  /\ r.account \in Accounts

-----------------------------------------------------------------------------
(* The operators.                                                          *)

LEMMA Constants ==
  /\ MinTrack \in Nat /\ SaveEvery \in Nat \ {0} /\ ScrobbleAfter \in Nat \ {0}
  /\ ResumeGrace \in Nat /\ GoneGrace \in Nat /\ ReplayStart \in Nat /\ ReplayJump \in Nat
  /\ MaxGap \in Nat /\ MaxStep \in Nat /\ MaxTime \in Nat
  /\ None \notin Nat
  BY PlayRulesAssumption, ListenerAssumption

(* A play is credited with no more than the time that has passed.          *)
LEMMA CreditBound ==
  ASSUME NEW playing \in BOOLEAN, NEW dt \in Nat
  PROVE  Credit(playing, dt) \in Nat /\ Credit(playing, dt) <= dt
  BY DEF Credit

(* A play that counts was heard for as long as its length asks for, and
   for some time at all.                                                   *)
LEMMA CountsNeeds ==
  ASSUME NEW played \in Nat, NEW dur \in Nat, Counts(played, dur)
  PROVE  Needed(dur) \in Nat /\ Needed(dur) <= played /\ played > 0
<1> DEFINE half == (dur + 1) \div 2
<1>1. dur > 0 /\ (2 * played >= dur \/ played >= ScrobbleAfter)
  BY Constants DEF Counts
<1>2. half \in Nat /\ 2 * half <= dur + 1
  OBVIOUS
<1>3. 2 * played >= dur => half <= played
  BY <1>2
<1>4. played > 0
  BY <1>1, Constants
<1> HIDE DEF half
<1>5. Needed(dur) = IF half < ScrobbleAfter THEN half ELSE ScrobbleAfter
  BY DEF Needed, half
<1>6. QED
  BY <1>1, <1>2, <1>3, <1>4, <1>5, Constants

LEMMA NeededType ==
  ASSUME NEW dur \in Nat
  PROVE  Needed(dur) \in Nat
  BY Constants DEF Needed

(* What the environment shows is of the right kind.                        *)
LEMMA WorldType ==
  ASSUME world \in Worlds
  PROVE  /\ world \in World
         /\ \A song \in Songs : world.lengths[song] \subseteq Nat
         /\ world.seekTo \subseteq Nat
<1>1. world \in World
  BY ListenerAssumption
<1>2. QED
  BY <1>1 DEF World

(* A listen with a song in it.                                             *)
Hearing == {h \in Listen : h.song \in Songs}

LEMMA ShownType ==
  ASSUME world \in Worlds, NEW h \in Hearing, NEW playing \in BOOLEAN, NEW restarted \in BOOLEAN
  PROVE  Shown(h, playing, restarted) \subseteq SongShown
<1>1. h.song \in Songs /\ h.album \in BOOLEAN /\ h.pos \in Nat /\ h.number \in Nat
  BY DEF Hearing, Listen
<1>2. world.lengths[h.song] \subseteq Nat
  BY <1>1, WorldType
<1>3. QED
  BY <1>1, <1>2 DEF Shown, SongShown, Position

LEMMA GoesOnType ==
  ASSUME world \in Worlds, heard \in Hearing, NEW dt \in Nat
  PROVE  GoesOn(dt) \subseteq Hearing
<1>1. heard.pos \in Nat /\ SoughtTo(heard.pos) \subseteq Nat
  BY WorldType DEF SoughtTo, Hearing, Listen
<1>2. Places(dt) \subseteq Nat
  BY <1>1 DEF Places
<1>3. AlbumShows(heard.album) \subseteq BOOLEAN
  BY DEF AlbumShows
<1>4. ASSUME NEW pos \in Nat, NEW album \in BOOLEAN
      PROVE  HeardAt(pos, album) \in Hearing
  BY DEF HeardAt, Hearing, Listen, Position
<1>5. QED
  BY <1>2, <1>3, <1>4 DEF GoesOn

LEMMA BeginsType ==
  ASSUME world \in Worlds, heard.number \in Nat
  PROVE  Begins \subseteq Hearing
<1> DEFINE first == AlbumShows(FALSE)
<1>1. first \subseteq BOOLEAN
  BY DEF AlbumShows
<1>2. ASSUME NEW song \in Songs, NEW album \in BOOLEAN
      PROVE  HeardFirst(song, album) \in Hearing
  BY DEF HeardFirst, Hearing, Listen, Position
<1>3. Playable \subseteq Songs
  BY DEF Playable
<1>4. Begins = {HeardFirst(song, album) : song \in Playable, album \in first}
  BY DEF Begins
<1> HIDE DEF first
<1>5. QED
  BY <1>1, <1>2, <1>3, <1>4

LEMMA GapsType == Gaps \subseteq GapShown
<1>1. Nothing \in GapShown
  BY DEF Nothing, GapShown, Position
<1>2. ASSUME NEW len \in 0 .. MinTrack - 1, NEW pos \in {None, 0}, NEW playing \in BOOLEAN
      PROVE  [len |-> len, pos |-> pos, playing |-> playing] \in GapShown
  BY Constants DEF GapShown, Position
<1>3. QED
  BY <1>1, <1>2 DEF Gaps

LEMMA FreshType ==
  ASSUME NEW s \in SongShown, NEW t \in Nat
  PROVE  /\ Fresh(s, t) \in Play
         /\ Fresh(s, t).started = t /\ Fresh(s, t).played = 0
         /\ Fresh(s, t).saved = 0 /\ Fresh(s, t).banked = FALSE
  BY DEF SongShown, Fresh, Play, Position

LEMMA AnnouncedType ==
  ASSUME NEW p \in Play, NEW playing, NEW what \in {"song", "other"}
  PROVE  LET q == Announced(p, playing, what)
         IN  /\ q \in Play
             /\ q.started = p.started /\ q.played = p.played /\ q.dur = p.dur
             /\ q.saved = p.saved /\ q.banked = p.banked
  BY DEF Announced, Play

LEMMA SavedType ==
  ASSUME NEW p \in Play, NEW t \in Nat
  PROVE  /\ Saved(p, t) \in Record
         /\ Saved(p, t).started = p.started /\ Saved(p, t).played = p.played
         /\ Saved(p, t).dur = p.dur /\ Saved(p, t).banked = p.banked
  BY DEF Saved, Play, Record

LEMMA FromRecordType ==
  ASSUME NEW r \in Record, NEW s \in SongShown
  PROVE  LET p == FromRecord(r, s)
         IN  /\ p \in Play
             /\ p.started = r.started /\ p.played = r.played /\ p.saved = r.played
             /\ p.banked = r.banked /\ p.dur = s.len
  BY DEF FromRecord, Play, Record, SongShown, Position

(* The play a poll is compared with is the one in progress or the saved
   one, but for the album and the length.                                  *)
LEMMA ComparedType ==
  ASSUME NEW s \in SongShown, NEW t \in Nat,
         cur \in Play \cup {None}, resume \in Record \cup {None}
  PROVE  LET p == Compared(s, t)
         IN  /\ p \in Play \cup {None}
             /\ Carries(s, t) =>
                  /\ p # None
                  /\ p.started = resume.started /\ p.played = resume.played
                  /\ p.saved = resume.played /\ p.banked = resume.banked
             /\ ~Carries(s, t) =>
                  /\ p = None <=> cur = None
                  /\ p # None =>
                       /\ p.started = cur.started /\ p.played = cur.played /\ p.dur = cur.dur
                       /\ p.saved = cur.saved /\ p.banked = cur.banked
<1> DEFINE p0 == IF Carries(s, t) THEN FromRecord(resume, s) ELSE cur
<1>1. p0 \in Play => [p0 EXCEPT !.album = TRUE] \in Play
  BY DEF Play
<1>2. Compared(s, t) = IF FillsIn(p0, s) THEN [p0 EXCEPT !.album = TRUE] ELSE p0
  BY DEF Compared
<1>3. CASE Carries(s, t)
  <2>1. resume \in Record
    BY <1>3 DEF Carries
  <2>2. /\ p0 \in Play
        /\ p0.started = resume.started /\ p0.played = resume.played
        /\ p0.saved = resume.played /\ p0.banked = resume.banked
    BY <1>3, <2>1, FromRecordType
  <2> HIDE DEF p0
  <2>3. QED
    BY <1>1, <1>2, <1>3, <2>2, NoneIsNoPlay DEF Play
<1>4. CASE ~Carries(s, t)
  <2>1. p0 = cur
    BY <1>4
  <2> HIDE DEF p0
  <2>2. CASE cur = None
    BY <1>2, <1>4, <2>1, <2>2, NoneIsNoPlay DEF FillsIn
  <2>3. CASE cur \in Play
    BY <1>1, <1>2, <1>4, <2>1, <2>3, NoneIsNoPlay DEF Play
  <2>4. QED
    BY <2>2, <2>3
<1>5. QED
  BY <1>3, <1>4

-----------------------------------------------------------------------------
(* The types, and that nothing is in progress without an account.          *)

Types ==
  /\ world \in Worlds /\ up \in BOOLEAN /\ account \in Accounts \cup {NoAccount}
  /\ cur \in Play \cup {None}
  /\ resume \in Record \cup {None} /\ file \in Record \cup {None}
  /\ \A r \in queued : RowType(r)
  /\ now \in Nat
  /\ heard \in Listen /\ (~heard.over => heard.song \in Songs)
  /\ cut \in Nat /\ events \in Nat /\ earned \subseteq Nat
  /\ account = NoAccount => cur = None

-----------------------------------------------------------------------------
(* Types are kept.                                                         *)

LEMMA BankedType ==
  ASSUME NEW p, p \in Play \/ p \in Record \/ p = None, account \in Accounts
  PROVE  \A r \in Banked(p) :
           /\ RowType(r) /\ p # None
           /\ Counts(p.played, p.dur)
           /\ r.started = p.started /\ r.dur = p.dur /\ r.account = account
<1> SUFFICES ASSUME NEW r \in Banked(p), p # None
             PROVE  /\ RowType(r) /\ Counts(p.played, p.dur)
                    /\ r.started = p.started /\ r.dur = p.dur /\ r.account = account
  BY DEF Banked, MustBank
<1>1. r = Row(p) /\ Counts(p.played, p.dur)
  BY DEF Banked, MustBank
<1>2. /\ p.name \in Songs \cup {Other}
      /\ p.listen \in Nat /\ p.started \in Nat /\ p.dur \in Nat
  BY DEF Play, Record
<1>3. QED
  BY <1>1, <1>2 DEF Row, RowType

LEMMA KeepType ==
  ASSUME NEW p \in Play, NEW q \in Play, NEW t \in Nat, file \in Record \cup {None},
         Keep(p, q, t)
  PROVE  /\ cur' \in Play
         /\ cur'.started = q.started /\ cur'.played = q.played /\ cur'.dur = q.dur
         /\ cur'.banked = q.banked
         /\ file' \in Record \cup {None}
         /\ ~world.writesMayFail =>
              \/ /\ WorthSaving(p, q)
                 /\ file' = Saved(q, t) /\ cur'.saved = q.played
              \/ /\ ~WorthSaving(p, q)
                 /\ file' = file /\ cur' = q
<1>1. Saved(q, t) \in Record
  BY SavedType
<1>2. CASE WorthSaving(p, q)
  <2>1. /\ cur' = [q EXCEPT !.saved = q.played]
        /\ file' \in Written(Saved(q, t))
    BY <1>2 DEF Keep
  <2>2. file' \in Record \cup {None} /\ (~world.writesMayFail => file' = Saved(q, t))
    BY <1>1, <2>1 DEF Written
  <2>3. /\ cur' \in Play /\ cur'.saved = q.played
        /\ cur'.started = q.started /\ cur'.played = q.played /\ cur'.dur = q.dur
        /\ cur'.banked = q.banked
    BY <2>1 DEF Play
  <2>4. QED
    BY <1>2, <2>2, <2>3
<1>3. CASE ~WorthSaving(p, q)
  BY <1>3 DEF Keep
<1>4. QED
  BY <1>2, <1>3

LEMMA BeginsEffect ==
  ASSUME NEW p \in Play \cup {None}, NEW s \in SongShown, NEW t \in Nat,
         resume \in Record \cup {None}, file \in Record \cup {None}, account \in Accounts,
         \A r \in queued : RowType(r),
         PlayBegins(p, s, t)
  PROVE  /\ cur' \in Play
         /\ cur'.started = t /\ cur'.played = 0 /\ cur'.saved = 0 /\ cur'.banked = FALSE
         /\ file' \in Record \cup {None}
         /\ \A r \in queued' : RowType(r)
<1> DEFINE f == Fresh(s, t)
<1>1. f \in Play /\ f.started = t /\ f.played = 0 /\ f.saved = 0 /\ f.banked = FALSE
  BY FreshType
<1>2. cur' = Announced(f, s.playing, "song")
  BY DEF PlayBegins
<1> HIDE DEF f
<1>3. /\ cur' \in Play
      /\ cur'.started = f.started /\ cur'.played = f.played
      /\ cur'.saved = f.saved /\ cur'.banked = f.banked
  BY <1>1, <1>2, AnnouncedType
<1>4. Closed(s, t) \in Record \/ Closed(s, t) = None
  BY DEF Closed
<1>5. file' \in Record \cup {None}
  BY DEF PlayBegins, Written
<1>6. queued' = queued \cup Banked(Closed(s, t)) \cup Banked(p)
  BY DEF PlayBegins
<1>7. \A r \in Banked(Closed(s, t)) \cup Banked(p) : RowType(r)
  BY <1>4, BankedType
<1>8. QED
  BY <1>1, <1>3, <1>5, <1>6, <1>7

(* What the play becomes at a poll that goes on with it, before it is kept. *)
Heard(p, s, t, dt) ==
  Announced([p EXCEPT !.played = @ + (IF Carries(s, t) THEN 0 ELSE Credit(s.playing, dt)),
                      !.dur = s.len, !.pos = s.pos, !.gone = None], s.playing, "song")

LEMMA HeardType ==
  ASSUME NEW p \in Play, NEW s \in SongShown, NEW t \in Nat, NEW dt \in Nat
  PROVE  LET q == Heard(p, s, t, dt)
         IN  /\ q \in Play
             /\ q.started = p.started /\ q.saved = p.saved /\ q.banked = p.banked
             /\ q.dur = s.len
             /\ p.played <= q.played /\ q.played <= p.played + dt
             /\ Carries(s, t) => q.played = p.played
<1> DEFINE credit == IF Carries(s, t) THEN 0 ELSE Credit(s.playing, dt)
           q0 == [p EXCEPT !.played = @ + credit, !.dur = s.len, !.pos = s.pos, !.gone = None]
<1>1. s.playing \in BOOLEAN /\ s.len \in Nat /\ s.pos \in Position
  BY DEF SongShown
<1>2. credit \in Nat /\ credit <= dt /\ (Carries(s, t) => credit = 0)
  BY <1>1, CreditBound
<1> HIDE DEF credit
<1>3. p.played \in Nat
  BY DEF Play
<1>4. p.played + credit \in Nat
  BY <1>2, <1>3
<1>5. None \in Position
  BY DEF Position
<1>6. /\ q0 \in Play
      /\ q0.started = p.started /\ q0.saved = p.saved /\ q0.banked = p.banked
      /\ q0.dur = s.len /\ q0.played = p.played + credit
  BY <1>1, <1>4, <1>5 DEF Play
<1>7. Heard(p, s, t, dt) = Announced(q0, s.playing, "song")
  BY DEF Heard, credit
<1> HIDE DEF q0
<1>8. LET q == Heard(p, s, t, dt)
      IN  /\ q \in Play
          /\ q.started = q0.started /\ q.saved = q0.saved /\ q.banked = q0.banked
          /\ q.dur = q0.dur /\ q.played = q0.played
  BY <1>6, <1>7, AnnouncedType
<1>9. QED
  BY <1>2, <1>3, <1>6, <1>8

LEMMA GoesOnEffect ==
  ASSUME NEW p, NEW s, NEW t, NEW dt
  PROVE  PlayGoesOn(p, s, t, dt) <=>
           /\ queued' = queued \cup Banked(Closed(s, t))
           /\ Keep(p, Heard(p, s, t, dt), t)
<1> DEFINE credit == IF Carries(s, t) THEN 0 ELSE Credit(s.playing, dt)
<1>1. Heard(p, s, t, dt) =
        Announced([p EXCEPT !.played = @ + credit, !.dur = s.len, !.pos = s.pos, !.gone = None],
                  s.playing, "song")
  BY DEF Heard
<1>2. QED
  BY <1>1, Zenon DEF PlayGoesOn

LEMMA SongTypes ==
  ASSUME Types, account # NoAccount, NEW s \in SongShown, NEW t \in Nat, NEW dt \in Nat,
         UpdateSong(s, t, dt)
  PROVE  /\ cur' \in Play
         /\ resume' = None
         /\ file' \in Record \cup {None}
         /\ \A r \in queued' : RowType(r)
<1>1. /\ account \in Accounts
      /\ cur \in Play \cup {None} /\ resume \in Record \cup {None}
      /\ file \in Record \cup {None}
      /\ \A r \in queued : RowType(r)
  BY DEF Types
<1> DEFINE p == Compared(s, t)
<1>2. p \in Play \cup {None}
  BY <1>1, ComparedType
<1>3. /\ IF SameSong(p, s) /\ ~StartsOver(p, s)
           THEN PlayGoesOn(p, s, t, dt)
           ELSE PlayBegins(p, s, t)
      /\ resume' = None
  BY DEF UpdateSong
<1> HIDE DEF p
<1>4. CASE PlayBegins(p, s, t)
  BY <1>1, <1>2, <1>3, <1>4, BeginsEffect
<1>5. CASE SameSong(p, s) /\ PlayGoesOn(p, s, t, dt)
  <2>1. p \in Play
    BY <1>2, <1>5 DEF SameSong
  <2>2. /\ queued' = queued \cup Banked(Closed(s, t))
        /\ Keep(p, Heard(p, s, t, dt), t)
    BY <1>5, GoesOnEffect
  <2>3. Heard(p, s, t, dt) \in Play
    BY <2>1, HeardType
  <2>4. Closed(s, t) \in Record \/ Closed(s, t) = None
    BY <1>1 DEF Closed
  <2>5. QED
    BY <1>1, <1>3, <2>1, <2>2, <2>3, <2>4, KeepType, BankedType
<1>6. QED
  BY <1>3, <1>4, <1>5

LEMMA GoneType ==
  ASSUME cur \in Play, NEW t \in Nat
  PROVE  GoneSince(t) \in Position
  BY DEF GoneSince, Play, Position

LEMMA StartsOverEffect ==
  ASSUME cur \in Play, NEW g \in GapShown, NEW t \in Nat, GapStartsOver(g, t)
  PROVE  /\ cur' \in Play
         /\ cur'.started = t /\ cur'.played = 0 /\ cur'.saved = 0 /\ cur'.banked = FALSE
<1> DEFINE p == [cur EXCEPT !.name = Other, !.started = t, !.played = 0, !.dur = g.len,
                            !.banked = FALSE, !.saved = 0, !.gone = GoneSince(t),
                            !.told = "nothing"]
<1>1. cur' = Announced(p, g.playing, "other")
  BY DEF GapStartsOver
<1>2. g.len \in Nat /\ GoneSince(t) \in Position
  BY GoneType DEF GapShown
<1>3. p \in Play /\ p.started = t /\ p.played = 0 /\ p.saved = 0 /\ p.banked = FALSE
  BY <1>2 DEF Play
<1> HIDE DEF p
<1>4. /\ cur' \in Play
      /\ cur'.started = p.started /\ cur'.played = p.played
      /\ cur'.saved = p.saved /\ cur'.banked = p.banked
  BY <1>1, <1>3, AnnouncedType
<1>5. QED
  BY <1>3, <1>4

(* What the play becomes at a poll of a gap, before it is kept.            *)
Bridged(g, t) ==
  Announced([cur EXCEPT !.dur = IF g.len > 0 THEN g.len ELSE @, !.gone = GoneSince(t)],
            g.playing, "other")

LEMMA BridgedType ==
  ASSUME cur \in Play, NEW g \in GapShown, NEW t \in Nat
  PROVE  LET q == Bridged(g, t)
         IN  /\ q \in Play
             /\ q.started = cur.started /\ q.saved = cur.saved /\ q.banked = cur.banked
             /\ q.played = cur.played
<1> DEFINE q0 == [cur EXCEPT !.dur = IF g.len > 0 THEN g.len ELSE @, !.gone = GoneSince(t)]
<1>1. g.len \in Nat /\ GoneSince(t) \in Position /\ cur.dur \in Nat
  BY GoneType DEF GapShown, Play
<1>2. /\ q0 \in Play
      /\ q0.started = cur.started /\ q0.saved = cur.saved /\ q0.banked = cur.banked
      /\ q0.played = cur.played
  BY <1>1 DEF Play
<1>3. Bridged(g, t) = Announced(q0, g.playing, "other")
  BY DEF Bridged
<1> HIDE DEF q0
<1>4. LET q == Bridged(g, t)
      IN  /\ q \in Play
          /\ q.started = q0.started /\ q.saved = q0.saved /\ q.banked = q0.banked
          /\ q.played = q0.played
  BY <1>2, <1>3, AnnouncedType
<1>5. QED
  BY <1>2, <1>4

LEMMA BridgedEffect ==
  ASSUME NEW g, NEW t
  PROVE  GapBridged(g, t) <=> queued' = queued /\ Keep(cur, Bridged(g, t), t)
  BY Zenon DEF GapBridged, Bridged

LEMMA GapTypes ==
  ASSUME Types, account # NoAccount, NEW g \in GapShown, NEW t \in Nat, UpdateGap(g, t)
  PROVE  /\ cur' \in Play \cup {None}
         /\ resume' = resume
         /\ file' \in Record \cup {None}
         /\ \A r \in queued' : RowType(r)
<1>1. /\ account \in Accounts
      /\ cur \in Play \cup {None} /\ file \in Record \cup {None}
      /\ \A r \in queued : RowType(r)
  BY DEF Types
<1>2. resume' = resume
  BY DEF UpdateGap
<1>3. \A r \in Banked(cur) : RowType(r)
  BY <1>1, BankedType
<1>4. CASE cur = None
  BY <1>1, <1>2, <1>4 DEF UpdateGap
<1>5. CASE cur # None /\ ~WithinGrace(t)
  <2>1. GapEndsThePlay
    BY <1>5 DEF UpdateGap
  <2>2. QED
    BY <1>1, <1>2, <1>3, <2>1 DEF GapEndsThePlay, Written
<1>6. CASE cur # None /\ WithinGrace(t)
  <2>1. cur \in Play
    BY <1>1, <1>6
  <2>2. CASE GapStartsOver(g, t)
    <3>1. cur' \in Play
      BY <2>1, <2>2, StartsOverEffect
    <3>2. queued' = queued \cup Banked(cur) /\ file' \in Record \cup {None}
      BY <1>1, <2>2 DEF GapStartsOver, Written
    <3>3. QED
      BY <1>1, <1>2, <1>3, <3>1, <3>2
  <2>3. CASE GapBridged(g, t)
    <3>1. queued' = queued /\ Keep(cur, Bridged(g, t), t)
      BY <2>3, BridgedEffect
    <3>2. QED
      BY <1>1, <1>2, <2>1, <3>1, BridgedType, KeepType
  <2>4. QED
    BY <1>6, <2>2, <2>3 DEF UpdateGap
<1>7. QED
  BY <1>4, <1>5, <1>6

LEMMA EarningType ==
  ASSUME earned \subseteq Nat, cur' \in Play, Earning
  PROVE  earned' \subseteq Nat
  BY DEF Earning, Play

(* The step of a poll that shows a song, without the environment's choice. *)
LEMMA SongPollStep ==
  ASSUME Types, NEW dt \in 1 .. MaxStep, SongPoll(dt)
  PROVE  /\ up /\ account # NoAccount
         /\ now' = now + dt
         /\ heard' \in Hearing
         /\ \E s \in SongShown : UpdateSong(s, now + dt, dt)
         /\ Earning
         /\ UNCHANGED <<world, up, account, cut, events>>
<1> DEFINE t == now + dt
<1>1. /\ up /\ account # NoAccount /\ now' = t /\ Earning
      /\ UNCHANGED <<world, up, account, cut, events>>
      /\ PollGoesOn(t, dt) \/ PollBegins(t, dt)
  BY DEF SongPoll
<1>2. world \in Worlds /\ dt \in Nat /\ t \in Nat
  BY Constants DEF Types
<1> HIDE DEF t
<1>3. CASE PollGoesOn(t, dt)
  <2>1. PICK h \in GoesOn(dt), playing \in BOOLEAN :
          heard' = h /\ \E s \in Shown(h, playing, FALSE) : UpdateSong(s, t, dt)
    BY <1>3 DEF PollGoesOn
  <2>2. h \in Hearing
    <3>1. heard \in Hearing
      BY <1>3 DEF PollGoesOn, Types, Hearing
    <3>2. QED
      BY <1>2, <2>1, <3>1, GoesOnType
  <2>3. Shown(h, playing, FALSE) \subseteq SongShown
    BY <1>2, <2>2, ShownType
  <2>4. QED
    BY <1>1, <2>1, <2>2, <2>3 DEF t
<1>4. CASE PollBegins(t, dt)
  <2>1. PICK h \in Begins, playing \in BOOLEAN, restarted \in BOOLEAN :
          heard' = h /\ \E s \in Shown(h, playing, restarted) : UpdateSong(s, t, dt)
    BY <1>4 DEF PollBegins
  <2>2. h \in Hearing
    <3>1. heard.number \in Nat
      BY DEF Types, Listen
    <3>2. QED
      BY <1>2, <2>1, <3>1, BeginsType
  <2>3. Shown(h, playing, restarted) \subseteq SongShown
    BY <1>2, <2>2, ShownType
  <2>4. QED
    BY <1>1, <2>1, <2>2, <2>3 DEF t
<1>5. QED
  BY <1>1, <1>3, <1>4

(* The listen stays one however it is touched.                             *)
LEMMA ListenKept ==
  ASSUME heard \in Listen, NEW t \in Nat, NEW b \in BOOLEAN
  PROVE  /\ Over(heard) \in Listen /\ Over(heard).over
         /\ LET h == [heard EXCEPT !.quiet = IF heard.quiet = None THEN t ELSE heard.quiet,
                                   !.over = b]
            IN  h \in Listen /\ h.song = heard.song
         /\ LET h == [heard EXCEPT !.album = @ /\ b, !.quiet = None]
            IN  h \in Listen /\ h.song = heard.song /\ h.over = heard.over
<1>1. Over(heard) \in Listen /\ Over(heard).over
  BY DEF Over, Listen
<1>2. (IF heard.quiet = None THEN t ELSE heard.quiet) \in Position
  BY DEF Listen, Position
<1>3. LET h == [heard EXCEPT !.quiet = IF heard.quiet = None THEN t ELSE heard.quiet,
                             !.over = b]
      IN  h \in Listen /\ h.song = heard.song
  BY <1>2 DEF Listen
<1>4. (heard.album /\ b) \in BOOLEAN /\ None \in Position
  BY DEF Position
<1>5. LET h == [heard EXCEPT !.album = @ /\ b, !.quiet = None]
      IN  h \in Listen /\ h.song = heard.song /\ h.over = heard.over
  BY <1>4 DEF Listen
<1>6. QED
  BY <1>1, <1>3, <1>5

LEMMA TypesInit == Init => Types
<1>1. NoListen \in Listen /\ NoListen.over
  BY DEF NoListen, Listen, Position
<1>2. QED
  BY <1>1 DEF Init, Types

LEMMA TypesStep ==
  ASSUME Types, [Next]_vars
  PROVE  Types'
<1>1. ASSUME NEW dt \in 1 .. MaxStep, SongPoll(dt)
      PROVE  Types'
  <2>1. /\ account # NoAccount
        /\ now' = now + dt
        /\ heard' \in Hearing
        /\ Earning
        /\ UNCHANGED <<world, up, account, cut, events>>
    BY <1>1, SongPollStep
  <2>2. PICK s \in SongShown : UpdateSong(s, now + dt, dt)
    BY <1>1, SongPollStep
  <2>3. now \in Nat /\ dt \in Nat /\ now + dt \in Nat /\ earned \subseteq Nat
    BY Constants DEF Types
  <2>4. /\ cur' \in Play /\ resume' = None /\ file' \in Record \cup {None}
        /\ \A r \in queued' : RowType(r)
    BY <2>1, <2>2, <2>3, SongTypes
  <2>5. earned' \subseteq Nat
    BY <2>1, <2>3, <2>4, EarningType
  <2>6. QED
    BY <2>1, <2>3, <2>4, <2>5 DEF Types, Hearing
<1>2. ASSUME NEW dt \in 1 .. MaxStep, GapPoll(dt)
      PROVE  Types'
  <2> DEFINE t == now + dt
  <2>1. dt \in Nat /\ t \in Nat /\ heard \in Listen /\ account # NoAccount
    BY <1>2, Constants DEF Types, GapPoll
  <2>2. PICK g \in Gaps : UpdateGap(g, t)
    BY <1>2 DEF GapPoll
  <2>3. g \in GapShown
    BY GapsType
  <2>4. /\ cur' \in Play \cup {None} /\ resume' = resume /\ file' \in Record \cup {None}
        /\ \A r \in queued' : RowType(r)
    BY <2>1, <2>2, <2>3, GapTypes
  <2> DEFINE since == IF heard.quiet = None THEN t ELSE heard.quiet
             over == resume = None /\ t - since > GoneGrace
  <2>5. heard' = IF heard.over THEN heard ELSE [heard EXCEPT !.quiet = since, !.over = over]
    BY <1>2 DEF GapPoll
  <2>6. over \in BOOLEAN
    OBVIOUS
  <2>7. now' = t /\ UNCHANGED <<world, up, account, cut, earned, events>>
    BY <1>2 DEF GapPoll
  <2> HIDE DEF over, t
  <2>8. heard' \in Listen /\ (~heard'.over => heard'.song \in Songs)
    BY <2>1, <2>5, <2>6, ListenKept DEF Types
  <2>9. QED
    BY <2>1, <2>4, <2>7, <2>8 DEF Types
<1>3. ASSUME NEW dt \in 1 .. MaxStep, GatedPoll(dt)
      PROVE  Types'
  <2>1. dt \in Nat /\ now \in Nat /\ now + dt \in Nat
    BY Constants DEF Types
  <2>2. events' \in Nat
    BY <1>3 DEF GatedPoll, Types
  <2>3. /\ cur' = cur \/ cur' = None
        /\ resume' = resume \/ resume' = None
        /\ file' = file \/ file' = None
    BY <1>3 DEF GatedPoll, DropPlay, Written
  <2>4. earned' \subseteq Nat
    BY <1>3 DEF GatedPoll, GiveUp, Types
  <2>5. Over(heard) \in Listen /\ Over(heard).over
    BY <2>1, ListenKept DEF Types
  <2>6. QED
    BY <1>3, <2>1, <2>2, <2>3, <2>4, <2>5 DEF GatedPoll, Types
<1>4. ASSUME NEW a \in Accounts \cup {NoAccount}, Reconfigure(a)
      PROVE  Types'
  <2>1. Over(heard) \in Listen /\ Over(heard).over
    BY ListenKept DEF Types
  <2>2. cur' = None /\ resume' = None /\ (file' = file \/ file' = None)
    BY <1>4 DEF Reconfigure, DropPlay, Written
  <2>3. earned' \subseteq Nat
    BY <1>4 DEF Reconfigure, GiveUp, Types
  <2>4. QED
    BY <1>4, <2>1, <2>2, <2>3 DEF Reconfigure, Types
<1>5. CASE Shutdown
  <2>1. cur' = None /\ resume' = None
    BY <1>5 DEF Shutdown
  <2>2. \A r \in queued' : RowType(r)
    <3>1. queued' = queued \cup Banked(cur)
      BY <1>5 DEF Shutdown
    <3>2. CASE cur = None
      BY <3>1, <3>2 DEF Banked, MustBank, Types
    <3>3. CASE cur \in Play /\ account \in Accounts
      BY <3>1, <3>3, BankedType DEF Types
    <3>4. QED
      BY <3>2, <3>3, NoneIsNoPlay DEF Types
  <2>3. file' \in Record \cup {None}
    <3>1. CASE cur # None
      <4> DEFINE p == [cur EXCEPT !.banked = @ \/ MustBank(cur)]
      <4>1. file' \in Written(Saved(p, now))
        BY <1>5, <3>1 DEF Shutdown
      <4>2. cur \in Play /\ now \in Nat /\ file \in Record \cup {None}
        BY <3>1 DEF Types
      <4>3. (cur.banked \/ MustBank(cur)) \in BOOLEAN
        BY Zenon
      <4>4. p \in Play
        BY <4>2, <4>3 DEF Play
      <4> HIDE DEF p
      <4>5. QED
        BY <4>1, <4>2, <4>4, SavedType DEF Written
    <3>2. CASE cur = None
      BY <1>5, <3>2 DEF Shutdown, Written, Types
    <3>3. QED
      BY <3>1, <3>2
  <2>4. events' \in Nat /\ up' \in BOOLEAN
    <3>1. events' = events + 1 /\ up' \in BOOLEAN
      BY <1>5, Zenon DEF Shutdown
    <3>2. QED
      BY <3>1 DEF Types
  <2>5. UNCHANGED <<world, account, now, heard, cut, earned>>
    BY <1>5 DEF Shutdown
  <2>6. QED
    BY <2>1, <2>2, <2>3, <2>4, <2>5 DEF Types
<1>6. CASE Crash
  <2>1. events' = events + 1 /\ up' \in BOOLEAN /\ cur' = None /\ resume' = None
    BY <1>6, Zenon DEF Crash
  <2>2. UNCHANGED <<world, account, file, queued, now, heard, cut, earned>>
    BY <1>6 DEF Crash
  <2>3. QED
    BY <2>1, <2>2 DEF Types
<1>7. CASE Start
  <2> DEFINE h == [heard EXCEPT !.album = @ /\ ~world.lateAlbum, !.quiet = None]
  <2>1. h \in Listen /\ h.song = heard.song /\ h.over = heard.over
    <3>1. (~world.lateAlbum) \in BOOLEAN /\ heard \in Listen
      BY DEF Types
    <3>2. QED
      BY <3>1, ListenKept
  <2>2. heard' = h /\ up' = TRUE /\ resume' = file
    BY <1>7 DEF Start, HeardAfresh
  <2>3. UNCHANGED <<world, account, cur, file, queued, now, cut, earned, events>>
    BY <1>7 DEF Start
  <2> HIDE DEF h
  <2>4. QED
    BY <2>1, <2>2, <2>3 DEF Types
<1>8. CASE UNCHANGED vars
  BY <1>8 DEF vars, Types
<1>9. QED
  BY <1>1, <1>2, <1>3, <1>4, <1>5, <1>6, <1>7, <1>8 DEF Next

LEMMA TypesAlways == Spec => []Types
<1>1. Init => Types
  BY TypesInit
<1>2. Types /\ [Next]_vars => Types'
  BY TypesStep
<1>3. QED
  BY <1>1, <1>2, PTL DEF Spec

(* Every variable keeps its type.                                          *)
THEOREM TypeCorrect == Spec => []TypeOK
<1>1. Types => TypeOK
  BY DEF Types, TypeOK, RowType
<1>2. QED
  BY <1>1, TypesAlways, PTL

-----------------------------------------------------------------------------
(* The invariant of play time, for a file that can be written.             *)

(* What the file f holds of the play c in progress: c once anything of it
   was saved, which is before it can be queued; otherwise at most a play of
   which nothing was heard.                                                *)
KeptIn(f, c) ==
  /\ ~OnFile(c) => f = None \/ f.played = 0
  /\ c # None /\ Counts(c.played, c.dur) => OnFile(c)
  /\ OnFile(c) => f # None /\ f.started = c.started

(* The last run's play is the file's until it has been compared.           *)
FileInv ==
  /\ resume # None => up /\ cur = None /\ file = resume
  /\ ~up => cur = None /\ resume = None
  /\ up /\ resume = None => KeptIn(file, cur)

(* The play time of p lies after its beginning, after the cut c, and before
   n, and what was queued of another play was heard before p began.        *)
OwnTime(p, c, Q, n) ==
  p # None =>
    /\ Later(c, p.started) + p.played <= n
    /\ \A r \in Q : r.started # p.started => r.started + Needed(r.dur) <= p.started

(* TimeCountsOnce, of any queue and time.                                  *)
Apart(Q, n) ==
  \A q \in Q :
    /\ q.started + Needed(q.dur) <= n
    /\ \A r \in Q : q.started < r.started => q.started + Needed(q.dur) <= r.started

TimeInv ==
  /\ FileInv
  /\ cut <= now
  /\ OwnTime(cur, cut, queued, now)
  /\ OwnTime(file, cut, queued, now)
  /\ Apart(queued, now)

IInv == ~world.writesMayFail => TimeInv

(* A play that ends may be queued: its time is its own.                    *)
LEMMA Ended ==
  ASSUME NEW p, p \in Play \/ p \in Record \/ p = None, account \in Accounts,
         NEW Q, \A r \in Q : RowType(r), NEW c \in Nat, NEW n \in Nat,
         OwnTime(p, c, Q, n), Apart(Q, n)
  PROVE  /\ Apart(Q \cup Banked(p), n)
         /\ OwnTime(p, c, Q \cup Banked(p), n)
         /\ \A r \in Banked(p) : r.account = account /\ Later(c, r.started) + Needed(r.dur) <= n
<1> DEFINE B == Banked(p)
<1>1. \A r \in B : /\ RowType(r) /\ p # None /\ Counts(p.played, p.dur)
                   /\ r.started = p.started /\ r.dur = p.dur /\ r.account = account
  BY BankedType
<1>2. p # None => p.started \in Nat /\ p.played \in Nat /\ p.dur \in Nat
  BY DEF Play, Record
<1>3. \A r \in Q \cup B : r.started \in Nat /\ Needed(r.dur) \in Nat
  BY <1>1, NeededType DEF RowType
<1> HIDE DEF B
<1>4. \A r \in B : Needed(r.dur) <= p.played
  BY <1>1, <1>2, CountsNeeds
<1>5. \A r \in B : Later(c, r.started) + Needed(r.dur) <= n
  BY <1>1, <1>2, <1>3, <1>4 DEF OwnTime, Later
<1>6. \A r \in B : r.started + Needed(r.dur) <= n
  BY <1>1, <1>2, <1>3, <1>5 DEF Later
<1>7. \A q \in Q : \A r \in B :
        q.started # r.started => q.started + Needed(q.dur) <= r.started
  BY <1>1 DEF OwnTime
<1>8. ASSUME NEW q \in Q \cup B, NEW r \in Q \cup B, q.started < r.started
      PROVE  q.started + Needed(q.dur) <= r.started
  <2>1. CASE q \in B /\ r \in B
    BY <1>1, <1>2, <1>8, <2>1
  <2>2. CASE q \in Q /\ r \in Q
    BY <1>8, <2>2 DEF Apart
  <2>3. CASE q \in Q /\ r \in B
    BY <1>3, <1>7, <1>8, <2>3
  <2>4. CASE q \in B /\ r \in Q
    <3>1. r.started + Needed(r.dur) <= q.started
      BY <1>3, <1>7, <1>8, <2>4
    <3>2. QED
      BY <1>3, <1>8, <3>1
  <2>5. QED
    BY <2>1, <2>2, <2>3, <2>4
<1>9. Apart(Q \cup B, n)
  BY <1>6, <1>8 DEF Apart
<1>10. OwnTime(p, c, Q \cup B, n)
  BY <1>1 DEF OwnTime
<1>11. QED
  BY <1>1, <1>5, <1>9, <1>10 DEF B

(* A play that begins now has no time yet.                                 *)
LEMMA Begun ==
  ASSUME NEW p \in Play, NEW c \in Nat, NEW n \in Nat, c <= n, p.started = n, p.played = 0,
         NEW Q, Apart(Q, n)
  PROVE  OwnTime(p, c, Q, n)
  BY DEF OwnTime, Apart, Later

(* A play that goes on is credited with no more time than passes.          *)
LEMMA Longer ==
  ASSUME NEW p, p \in Play \/ p \in Record, NEW q, q \in Play \/ q \in Record,
         NEW c \in Nat, NEW n \in Nat, NEW dt \in Nat, NEW Q,
         OwnTime(p, c, Q, n), p # None,
         q.started = p.started, q.played <= p.played + dt
  PROVE  OwnTime(q, c, Q, n + dt)
<1>1. /\ p.started \in Nat /\ p.played \in Nat
      /\ q.started \in Nat /\ q.played \in Nat
  BY DEF Play, Record
<1>2. Later(c, q.started) \in Nat /\ Later(c, q.started) = Later(c, p.started)
  BY <1>1 DEF Later
<1>3. Later(c, p.started) + p.played <= n
  BY DEF OwnTime
<1>4. Later(c, q.started) + q.played <= n + dt
  BY <1>1, <1>2, <1>3
<1>5. QED
  BY <1>4 DEF OwnTime

(* Time that passes harms nothing.                                         *)
LEMMA LaterStill ==
  ASSUME NEW Q, \A r \in Q : RowType(r), NEW n \in Nat, NEW dt \in Nat, Apart(Q, n)
  PROVE  Apart(Q, n + dt)
<1>1. \A r \in Q : r.started \in Nat /\ Needed(r.dur) \in Nat
  BY NeededType DEF RowType
<1>2. QED
  BY <1>1 DEF Apart

(* Keeping a play that goes on, at time t.                                 *)
LEMMA KeepInv ==
  ASSUME NEW p \in Play, NEW q \in Play, NEW t \in Nat, file \in Record \cup {None},
         ~world.writesMayFail, Keep(p, q, t),
         q.started = p.started, q.saved = p.saved, q.banked = p.banked,
         KeptIn(file, p),
         NEW c \in Nat, NEW Q, OwnTime(q, c, Q, t), OwnTime(file, c, Q, t)
  PROVE  /\ KeptIn(file', cur')
         /\ OwnTime(cur', c, Q, t) /\ OwnTime(file', c, Q, t)
<1>1. /\ cur' \in Play
      /\ cur'.started = q.started /\ cur'.played = q.played /\ cur'.dur = q.dur
      /\ cur'.banked = q.banked
      /\ \/ WorthSaving(p, q) /\ file' = Saved(q, t) /\ cur'.saved = q.played
         \/ ~WorthSaving(p, q) /\ file' = file /\ cur' = q
  BY KeepType
<1>2. OwnTime(cur', c, Q, t)
  BY <1>1, NoneIsNoPlay DEF OwnTime
<1>3. CASE WorthSaving(p, q) /\ file' = Saved(q, t) /\ cur'.saved = q.played
  <2>1. /\ file' \in Record /\ file'.started = q.started /\ file'.played = q.played
    BY <1>3, SavedType
  <2>2. OwnTime(file', c, Q, t)
    BY <2>1, NoneIsNoPlay DEF OwnTime
  <2>3. q.played \in Nat /\ q.dur \in Nat
    BY DEF Play
  <2>4. Counts(q.played, q.dur) => q.played > 0
    BY <2>3, CountsNeeds
  <2>5. KeptIn(file', cur')
    BY <1>1, <1>3, <2>1, <2>3, <2>4, NoneIsNoPlay DEF KeptIn, OnFile
  <2>6. QED
    BY <1>2, <2>2, <2>5
<1>4. CASE ~WorthSaving(p, q) /\ file' = file /\ cur' = q
  <2>1. Counts(q.played, q.dur) => Counts(p.played, p.dur)
    BY <1>4 DEF WorthSaving
  <2>2. OnFile(p) <=> OnFile(q)
    BY NoneIsNoPlay DEF OnFile
  <2>3. KeptIn(file', cur')
    BY <1>4, <2>1, <2>2, NoneIsNoPlay DEF KeptIn
  <2>4. QED
    BY <1>2, <1>4, <2>3
<1>5. QED
  BY <1>1, <1>3, <1>4

(* What a poll that shows a song compares it with is the play in the file,
   or one that has left nothing there; and a saved play that is closed is
   the file's.                                                             *)
LEMMA ComparedInv ==
  ASSUME Types, TimeInv, up, NEW s \in SongShown, NEW t \in Nat
  PROVE  LET p == Compared(s, t)
             e == Closed(s, t)
         IN  /\ p \in Play \cup {None} /\ e \in Record \cup {None}
             /\ OwnTime(p, cut, queued, now) /\ OwnTime(e, cut, queued, now)
             /\ e # None => p = None
             /\ e = None => KeptIn(file, p)
<1> DEFINE p == Compared(s, t)
           e == Closed(s, t)
<1>1. /\ cur \in Play \cup {None} /\ resume \in Record \cup {None}
      /\ file \in Record \cup {None}
  BY DEF Types
<1>2. /\ p \in Play \cup {None}
      /\ Carries(s, t) => /\ p # None
                          /\ p.started = resume.started /\ p.played = resume.played
                          /\ p.saved = resume.played /\ p.banked = resume.banked
      /\ ~Carries(s, t) =>
           /\ p = None <=> cur = None
           /\ p # None =>
                /\ p.started = cur.started /\ p.played = cur.played /\ p.dur = cur.dur
                /\ p.saved = cur.saved /\ p.banked = cur.banked
  BY <1>1, ComparedType
<1>3. e = IF Carries(s, t) THEN None ELSE resume
  BY DEF Closed
<1>4. resume # None => cur = None /\ file = resume
  BY DEF TimeInv, FileInv
<1>5. OwnTime(cur, cut, queued, now) /\ OwnTime(file, cut, queued, now)
  BY DEF TimeInv
<1> HIDE DEF p, e
<1>6. CASE Carries(s, t)
  <2>1. resume # None /\ resume \in Record
    BY <1>1, <1>6 DEF Carries
  <2>2. OwnTime(p, cut, queued, now)
    BY <1>2, <1>4, <1>5, <1>6, <2>1 DEF OwnTime
  <2>3. p \in Play /\ p.played \in Nat /\ p.dur \in Nat
    BY <1>2, <1>6 DEF Play
  <2>4. Counts(p.played, p.dur) => p.played > 0
    BY <2>3, CountsNeeds
  <2>5. KeptIn(file, p)
    BY <1>2, <1>4, <1>6, <2>1, <2>3, <2>4 DEF KeptIn, OnFile
  <2>6. e = None
    BY <1>3, <1>6
  <2>7. QED
    BY <1>2, <2>2, <2>5, <2>6 DEF p, e, OwnTime
<1>7. CASE ~Carries(s, t) /\ resume # None
  <2>1. p = None /\ e = resume
    BY <1>2, <1>3, <1>4, <1>7
  <2>2. QED
    BY <1>1, <1>4, <1>5, <1>7, <2>1 DEF p, e, OwnTime
<1>8. CASE ~Carries(s, t) /\ resume = None
  <2>1. e = None
    BY <1>3, <1>8
  <2>2. KeptIn(file, cur)
    BY <1>8 DEF TimeInv, FileInv
  <2>3. OwnTime(p, cut, queued, now)
    BY <1>2, <1>5, <1>8 DEF OwnTime
  <2>4. OnFile(p) <=> OnFile(cur)
    BY <1>2, <1>8 DEF OnFile
  <2>5. KeptIn(file, p)
    BY <1>2, <1>8, <2>2, <2>4 DEF KeptIn
  <2>6. QED
    BY <1>2, <2>1, <2>3, <2>5 DEF p, e, OwnTime
<1>9. QED
  BY <1>6, <1>7, <1>8

(* What a poll has queued is the account's and was heard since the cut.    *)
NewRows ==
  \A r \in queued' \ queued :
    r.account = account /\ Later(cut, r.started) + Needed(r.dur) <= now

(* What a poll leaves behind at time n.                                    *)
AfterPoll(n) ==
  /\ KeptIn(file', cur')
  /\ OwnTime(cur', cut, queued', n) /\ OwnTime(file', cut, queued', n)
  /\ Apart(queued', n)
  /\ NewRows

LEMMA FileLater ==
  ASSUME Types, NEW Q, NEW dt \in Nat, OwnTime(file, cut, Q, now)
  PROVE  OwnTime(file, cut, Q, now + dt)
<1>1. CASE file = None
  BY <1>1 DEF OwnTime
<1>2. CASE file # None
  <2>1. file \in Record /\ now \in Nat /\ cut \in Nat
    BY <1>2 DEF Types
  <2>2. file.played \in Nat /\ file.played <= file.played + dt
    BY <2>1 DEF Record
  <2>3. QED
    BY <1>2, <2>1, <2>2, Longer
<1>3. QED
  BY <1>1, <1>2

(* A play with no time yet has left nothing in the file.                   *)
LEMMA FreshKept ==
  ASSUME NEW q \in Play, q.played = 0, q.saved = 0, q.banked = FALSE,
         NEW f, f = None \/ f.played = 0
  PROVE  KeptIn(f, q)
<1>1. ~OnFile(q)
  BY DEF OnFile
<1>2. ~Counts(q.played, q.dur)
  <2>1. q.played \in Nat /\ q.dur \in Nat
    BY DEF Play
  <2>2. QED
    BY <2>1, CountsNeeds
<1>3. QED
  BY <1>1, <1>2 DEF KeptIn

(* A play ends and another begins, or none.                                *)
LEMMA EndInv ==
  ASSUME Types, TimeInv, ~world.writesMayFail, account # NoAccount, NEW dt \in Nat,
         NEW p, p \in Play \/ p \in Record \/ p = None, OwnTime(p, cut, queued, now),
         queued' = queued \cup Banked(p),
         \/ file' = None
         \/ file' = file /\ Banked(p) = {} /\ (file = None \/ file.played = 0),
         \/ cur' = None
         \/ /\ cur' \in Play /\ cur'.started = now + dt
            /\ cur'.played = 0 /\ cur'.saved = 0 /\ cur'.banked = FALSE
  PROVE  AfterPoll(now + dt)
<1> DEFINE n == now + dt
<1>1. /\ account \in Accounts /\ cut \in Nat /\ now \in Nat /\ n \in Nat
      /\ file \in Record \cup {None} /\ \A r \in queued : RowType(r)
  BY DEF Types
<1>2. Apart(queued, now) /\ cut <= n /\ OwnTime(file, cut, queued, now)
  BY <1>1 DEF TimeInv
<1>3. /\ Apart(queued', now)
      /\ \A r \in Banked(p) : r.account = account /\ Later(cut, r.started) + Needed(r.dur) <= now
  BY <1>1, <1>2, Ended
<1>4. \A r \in queued' : RowType(r)
  BY <1>1, BankedType
<1>5. Apart(queued', n)
  BY <1>1, <1>3, <1>4, LaterStill
<1>6. OwnTime(file', cut, queued', n)
  <2>1. CASE file' = None
    BY <2>1 DEF OwnTime
  <2>2. CASE file' = file /\ queued' = queued
    BY <1>1, <1>2, <2>2, FileLater
  <2>3. QED
    BY <2>1, <2>2
<1>7. OwnTime(cur', cut, queued', n)
  <2>1. CASE cur' = None
    BY <2>1 DEF OwnTime
  <2>2. CASE cur' # None
    BY <1>1, <1>2, <1>5, <2>2, Begun
  <2>3. QED
    BY <2>1, <2>2
<1>8. KeptIn(file', cur')
  <2>1. file' = None \/ file'.played = 0
    OBVIOUS
  <2>2. CASE cur' = None
    BY <2>1, <2>2 DEF KeptIn, OnFile
  <2>3. CASE cur' # None
    BY <2>1, <2>3, FreshKept
  <2>4. QED
    BY <2>2, <2>3
<1>9. NewRows
  BY <1>3 DEF NewRows
<1>10. QED
  BY <1>5, <1>6, <1>7, <1>8, <1>9 DEF AfterPoll

LEMMA SongInv ==
  ASSUME Types, TimeInv, ~world.writesMayFail, up, account # NoAccount,
         NEW s \in SongShown, NEW dt \in Nat, UpdateSong(s, now + dt, dt)
  PROVE  AfterPoll(now + dt) /\ resume' = None
<1> DEFINE t == now + dt
           p == Compared(s, t)
           e == Closed(s, t)
<1>1. /\ account \in Accounts /\ cut \in Nat /\ now \in Nat /\ t \in Nat
      /\ file \in Record \cup {None} /\ resume \in Record \cup {None}
      /\ \A r \in queued : RowType(r)
  BY DEF Types
<1>2. /\ p \in Play \cup {None} /\ e \in Record \cup {None}
      /\ OwnTime(p, cut, queued, now) /\ OwnTime(e, cut, queued, now)
      /\ e # None => p = None
      /\ e = None => KeptIn(file, p)
  BY <1>1, ComparedInv
<1>3. /\ IF SameSong(p, s) /\ ~StartsOver(p, s)
           THEN PlayGoesOn(p, s, t, dt)
           ELSE PlayBegins(p, s, t)
      /\ resume' = None
  BY DEF UpdateSong
<1>4. p = None => Banked(p) = {}
  BY DEF Banked, MustBank
<1>5. e = None => Banked(e) = {}
  BY DEF Banked, MustBank
<1>6. ASSUME PlayBegins(p, s, t)
      PROVE  AfterPoll(t)
  <2>1. /\ cur' \in Play /\ cur'.started = t
        /\ cur'.played = 0 /\ cur'.saved = 0 /\ cur'.banked = FALSE
    BY <1>1, <1>2, <1>6, BeginsEffect
  <2>2. /\ queued' = queued \cup Banked(e) \cup Banked(p)
        /\ file' = IF e # None \/ OnFile(p) THEN None ELSE file
    BY <1>6 DEF PlayBegins, Written
  <2> HIDE DEF p, e
  <2>3. CASE e # None
    <3>1. queued' = queued \cup Banked(e) /\ file' = None
      BY <1>2, <1>4, <2>2, <2>3
    <3>2. QED
      BY <1>2, <2>1, <2>3, <3>1, EndInv
  <2>4. CASE e = None
    <3>1. queued' = queued \cup Banked(p)
      BY <1>5, <2>2, <2>4
    <3>2. \/ file' = None
          \/ file' = file /\ Banked(p) = {} /\ (file = None \/ file.played = 0)
      <4>1. KeptIn(file, p)
        BY <1>2, <2>4
      <4>2. CASE OnFile(p)
        BY <2>2, <4>2
      <4>3. CASE ~OnFile(p)
        BY <2>2, <2>4, <4>1, <4>3 DEF KeptIn, Banked, MustBank
      <4>4. QED
        BY <4>2, <4>3
    <3>3. QED
      BY <1>2, <2>1, <3>1, <3>2, EndInv
  <2>5. QED
    BY <2>3, <2>4
<1>7. ASSUME SameSong(p, s), PlayGoesOn(p, s, t, dt)
      PROVE  AfterPoll(t)
  <2> DEFINE q == Heard(p, s, t, dt)
  <2>1. p # None /\ p \in Play
    BY <1>2, <1>7 DEF SameSong
  <2>2. queued' = queued \cup Banked(e) /\ Keep(p, q, t)
    BY <1>7, GoesOnEffect
  <2>3. /\ q \in Play
        /\ q.started = p.started /\ q.saved = p.saved /\ q.banked = p.banked
        /\ q.played <= p.played + dt
    BY <1>1, <2>1, HeardType
  <2> HIDE DEF p, e, q
  <2>4. KeptIn(file, p) /\ queued' = queued
    BY <1>2, <1>5, <2>1, <2>2
  <2>5. OwnTime(q, cut, queued, t)
    BY <1>1, <1>2, <2>1, <2>3, Longer
  <2>6. OwnTime(file, cut, queued, t) /\ Apart(queued, t)
    BY <1>1, FileLater, LaterStill DEF TimeInv
  <2> HIDE DEF t
  <2>7. KeptIn(file', cur') /\ OwnTime(cur', cut, queued, t) /\ OwnTime(file', cut, queued, t)
    BY <1>1, <2>1, <2>2, <2>3, <2>4, <2>5, <2>6, KeepInv
  <2>8. QED
    BY <2>4, <2>6, <2>7 DEF AfterPoll, NewRows
<1>8. QED
  BY <1>3, <1>6, <1>7

LEMMA GapInv ==
  ASSUME Types, TimeInv, ~world.writesMayFail, up, account # NoAccount, resume = None,
         NEW g \in GapShown, NEW dt \in Nat, UpdateGap(g, now + dt)
  PROVE  AfterPoll(now + dt)
<1> DEFINE t == now + dt
<1>1. /\ account \in Accounts /\ cut \in Nat /\ now \in Nat /\ t \in Nat
      /\ cur \in Play \cup {None} /\ file \in Record \cup {None}
      /\ \A r \in queued : RowType(r)
  BY DEF Types
<1>2. KeptIn(file, cur) /\ OwnTime(cur, cut, queued, now)
  BY DEF TimeInv, FileInv
<1>3. OwnTime(file, cut, queued, t) /\ Apart(queued, t)
  BY <1>1, FileLater, LaterStill DEF TimeInv
<1>4. ~OnFile(cur) => Banked(cur) = {} /\ (file = None \/ file.played = 0)
  BY <1>2 DEF KeptIn, Banked, MustBank
<1>5. CASE cur = None
  <2>1. queued' = queued /\ file' = file /\ cur' = cur
    BY <1>5 DEF UpdateGap
  <2>2. QED
    BY <1>2, <1>3, <1>5, <2>1 DEF AfterPoll, NewRows, OwnTime
<1>6. CASE cur # None /\ ~WithinGrace(t)
  <2>1. GapEndsThePlay
    BY <1>6 DEF UpdateGap
  <2>2. /\ queued' = queued \cup Banked(cur) /\ cur' = None
        /\ file' = IF OnFile(cur) THEN None ELSE file
    BY <2>1 DEF GapEndsThePlay, Written
  <2>3. QED
    BY <1>1, <1>2, <1>4, <2>2, EndInv
<1>7. CASE cur # None /\ WithinGrace(t)
  <2>1. cur \in Play
    BY <1>1, <1>7
  <2>2. ASSUME GapStartsOver(g, t)
        PROVE  AfterPoll(t)
    <3>1. /\ cur' \in Play /\ cur'.started = t
          /\ cur'.played = 0 /\ cur'.saved = 0 /\ cur'.banked = FALSE
      BY <1>1, <2>1, <2>2, StartsOverEffect
    <3>2. /\ queued' = queued \cup Banked(cur)
          /\ file' = IF OnFile(cur) THEN None ELSE file
      BY <2>2 DEF GapStartsOver, Written
    <3>3. QED
      BY <1>1, <1>2, <1>4, <3>1, <3>2, EndInv
  <2>3. ASSUME GapBridged(g, t)
        PROVE  AfterPoll(t)
    <3> DEFINE q == Bridged(g, t)
    <3>1. queued' = queued /\ Keep(cur, q, t)
      BY <2>3, BridgedEffect
    <3>2. /\ q \in Play
          /\ q.started = cur.started /\ q.saved = cur.saved /\ q.banked = cur.banked
          /\ q.played = cur.played
      BY <1>1, <2>1, BridgedType
    <3> HIDE DEF q
    <3>3. cur.played \in Nat /\ q.played <= cur.played + dt
      BY <2>1, <3>2 DEF Play
    <3>4. OwnTime(q, cut, queued, t)
      BY <1>1, <1>2, <1>7, <2>1, <3>2, <3>3, Longer
    <3> HIDE DEF t
    <3>5. KeptIn(file', cur') /\ OwnTime(cur', cut, queued, t)
          /\ OwnTime(file', cut, queued, t)
      BY <1>1, <1>2, <1>3, <2>1, <3>1, <3>2, <3>4, KeepInv
    <3>6. QED
      BY <1>3, <3>1, <3>5 DEF AfterPoll, NewRows
  <2>4. QED
    BY <1>7, <2>2, <2>3 DEF UpdateGap
<1>8. QED
  BY <1>5, <1>6, <1>7

LEMMA InvInit == Init => TimeInv
<1>1. Init => /\ up /\ cur = None /\ resume = None /\ file = None /\ queued = {}
              /\ cut = 0 /\ now = 0
  BY DEF Init
<1>2. QED
  BY <1>1 DEF TimeInv, FileInv, KeptIn, OnFile, OwnTime, Apart

(* What is cut off is dropped, and nothing but an unheard play stays.      *)
LEMMA DropInv ==
  ASSUME Types, TimeInv, ~world.writesMayFail, up,
         NEW n \in Nat, now <= n,
         cur' = None, resume' = None, queued' = queued, up' = up, cut' = n, now' = n,
         \/ file' = None
         \/ file' = file /\ cur = None /\ resume = None
  PROVE  TimeInv'
<1>1. now \in Nat /\ cut \in Nat /\ file \in Record \cup {None} /\ \A r \in queued : RowType(r)
  BY DEF Types
<1>2. Apart(queued', n)
  <2>1. \A r \in queued : r.started \in Nat /\ Needed(r.dur) \in Nat
    BY <1>1, NeededType DEF RowType
  <2>2. QED
    BY <1>1, <2>1 DEF TimeInv, Apart
<1>3. CASE file' = None
  BY <1>2, <1>3 DEF TimeInv, FileInv, KeptIn, OnFile, OwnTime
<1>4. CASE file' = file /\ cur = None /\ resume = None
  <2>1. file = None \/ file.played = 0
    BY <1>4 DEF TimeInv, FileInv, KeptIn, OnFile
  <2>2. KeptIn(file', cur')
    BY <1>4, <2>1 DEF KeptIn, OnFile
  <2>3. OwnTime(file', n, queued', n)
    <3>1. CASE file = None
      BY <1>4, <3>1 DEF OwnTime
    <3>2. CASE file # None
      <4>1. file.started \in Nat /\ file.played = 0
        BY <1>1, <2>1, <3>2 DEF Record
      <4>2. /\ Later(cut, file.started) + 0 <= now
            /\ \A r \in queued :
                 r.started # file.started => r.started + Needed(r.dur) <= file.started
        BY <3>2, <4>1 DEF TimeInv, OwnTime
      <4>3. Later(n, file.started) + 0 <= n
        BY <1>1, <4>1, <4>2 DEF Later
      <4>4. QED
        BY <1>4, <4>1, <4>2, <4>3 DEF OwnTime
    <3>3. QED
      BY <3>1, <3>2
  <2>4. QED
    BY <1>2, <2>2, <2>3 DEF TimeInv, FileInv, OwnTime
<1>5. QED
  BY <1>3, <1>4

(* A poll while an account is connected.                                   *)
LEMMA PolledInv ==
  ASSUME Types, TimeInv, NEW dt \in Nat, AfterPoll(now + dt),
         up, up' = up, resume' = None, cut' = cut, now' = now + dt
  PROVE  TimeInv'
<1>1. cut <= now + dt
  BY DEF TimeInv, Types
<1>2. QED
  BY <1>1 DEF AfterPoll, TimeInv, FileInv

LEMMA ShutdownInv ==
  ASSUME Types, TimeInv, ~world.writesMayFail, Shutdown
  PROVE  TimeInv' /\ NewRows
<1>1. /\ cur \in Play \cup {None} /\ file \in Record \cup {None} /\ cut \in Nat /\ now \in Nat
      /\ \A r \in queued : RowType(r)
      /\ cur # None => account \in Accounts
  BY DEF Types
<1>2. /\ up /\ ~up' /\ cur' = None /\ resume' = None
      /\ queued' = queued \cup Banked(cur)
      /\ UNCHANGED <<now, cut, account>>
  BY DEF Shutdown
<1>3. OwnTime(cur, cut, queued, now) /\ OwnTime(file, cut, queued, now) /\ Apart(queued, now)
  BY DEF TimeInv
<1>4. CASE cur = None
  <2>1. queued' = queued
    BY <1>2, <1>4 DEF Banked, MustBank
  <2>2. file' = file \/ file' = None
    BY <1>4 DEF Shutdown, Written
  <2>3. OwnTime(file', cut, queued, now)
    BY <1>3, <2>2 DEF OwnTime
  <2>4. QED
    BY <1>2, <1>3, <2>1, <2>3 DEF TimeInv, FileInv, OwnTime, NewRows
<1>5. CASE cur # None
  <2> DEFINE p == [cur EXCEPT !.banked = @ \/ MustBank(cur)]
  <2>1. file' = Saved(p, now)
    BY <1>5 DEF Shutdown, Written
  <2>2. cur \in Play /\ (cur.banked \/ MustBank(cur)) \in BOOLEAN
    BY <1>1, <1>5, Zenon
  <2>3. p \in Play /\ p.started = cur.started /\ p.played = cur.played
    BY <2>2 DEF Play
  <2> HIDE DEF p
  <2>4. file' \in Record /\ file'.started = cur.started /\ file'.played = cur.played
    BY <1>1, <2>1, <2>3, SavedType
  <2>5. /\ Apart(queued', now)
        /\ OwnTime(cur, cut, queued', now)
        /\ \A r \in Banked(cur) :
             r.account = account /\ Later(cut, r.started) + Needed(r.dur) <= now
    BY <1>1, <1>2, <1>3, <1>5, Ended
  <2>6. OwnTime(file', cut, queued', now)
    BY <1>5, <2>4, <2>5 DEF OwnTime
  <2>7. NewRows
    BY <1>2, <2>5 DEF NewRows
  <2>8. QED
    BY <1>2, <2>5, <2>6, <2>7 DEF TimeInv, FileInv, OwnTime
<1>6. QED
  BY <1>4, <1>5

LEMMA InvStep ==
  ASSUME Types, TimeInv, ~world.writesMayFail, [Next]_vars
  PROVE  TimeInv' /\ NewRows /\ now <= now' /\ world' = world
<1>1. now \in Nat /\ cut \in Nat /\ \A r \in queued : RowType(r)
  BY DEF Types
<1>2. ASSUME NEW dt \in 1 .. MaxStep, SongPoll(dt)
      PROVE  TimeInv' /\ NewRows /\ now <= now' /\ world' = world
  <2>1. dt \in Nat
    BY Constants
  <2>2. /\ up /\ account # NoAccount /\ now' = now + dt
        /\ UNCHANGED <<world, up, account, cut, events>>
    BY <1>2, SongPollStep
  <2>3. PICK s \in SongShown : UpdateSong(s, now + dt, dt)
    BY <1>2, SongPollStep
  <2>4. AfterPoll(now + dt) /\ resume' = None
    BY <2>1, <2>2, <2>3, SongInv
  <2>5. TimeInv'
    BY <2>1, <2>2, <2>4, PolledInv
  <2>6. QED
    BY <1>1, <2>1, <2>2, <2>4, <2>5 DEF AfterPoll
<1>3. ASSUME NEW dt \in 1 .. MaxStep, GapPoll(dt)
      PROVE  TimeInv' /\ NewRows /\ now <= now' /\ world' = world
  <2>1. dt \in Nat
    BY Constants
  <2>2. /\ up /\ account # NoAccount /\ now' = now + dt
        /\ UNCHANGED <<world, up, account, cut, earned, events>>
    BY <1>3 DEF GapPoll
  <2>3. PICK g \in Gaps : UpdateGap(g, now + dt)
    BY <1>3 DEF GapPoll
  <2>4. g \in GapShown /\ resume' = resume
    BY <2>3, GapsType DEF UpdateGap
  <2>5. CASE resume = None
    <3>1. AfterPoll(now + dt)
      BY <2>1, <2>2, <2>3, <2>4, <2>5, GapInv
    <3>2. TimeInv'
      BY <2>1, <2>2, <2>4, <2>5, <3>1, PolledInv
    <3>3. QED
      BY <1>1, <2>1, <2>2, <3>1, <3>2 DEF AfterPoll
  <2>6. CASE resume # None
    <3>1. cur = None
      BY <2>6 DEF TimeInv, FileInv
    <3>2. queued' = queued /\ file' = file /\ cur' = cur
      BY <2>3, <3>1 DEF UpdateGap
    <3>3. OwnTime(file, cut, queued, now + dt) /\ Apart(queued, now + dt)
      BY <1>1, <2>1, FileLater, LaterStill DEF TimeInv
    <3>4. cut <= now + dt
      BY <1>1, <2>1 DEF TimeInv
    <3>5. FileInv'
      BY <2>2, <2>4, <3>2 DEF TimeInv, FileInv
    <3>6. QED
      BY <1>1, <2>1, <2>2, <3>1, <3>2, <3>3, <3>4, <3>5 DEF TimeInv, NewRows, OwnTime
  <2>7. QED
    BY <2>5, <2>6
<1>4. ASSUME NEW dt \in 1 .. MaxStep, GatedPoll(dt)
      PROVE  TimeInv' /\ NewRows /\ now <= now' /\ world' = world
  <2>1. dt \in Nat /\ now + dt \in Nat /\ now <= now + dt
    BY <1>1, Constants
  <2>2. /\ up /\ now' = now + dt /\ cut' = now + dt
        /\ UNCHANGED <<world, up, account, queued>>
    BY <1>4 DEF GatedPoll
  <2>3. /\ cur' = None /\ resume' = None
        /\ file' = None \/ (file' = file /\ cur = None /\ resume = None)
    BY <1>4 DEF GatedPoll, DropPlay, Written
  <2>4. TimeInv'
    BY <2>1, <2>2, <2>3, DropInv
  <2>5. QED
    BY <2>1, <2>2, <2>4 DEF NewRows
<1>5. ASSUME NEW a \in Accounts \cup {NoAccount}, Reconfigure(a)
      PROVE  TimeInv' /\ NewRows /\ now <= now' /\ world' = world
  <2>1. /\ up /\ now' = now /\ cut' = now /\ UNCHANGED <<world, up, queued>>
        /\ cur' = None /\ resume' = None /\ file' = None
    BY <1>5 DEF Reconfigure, DropPlay, Written
  <2>2. TimeInv'
    BY <1>1, <2>1, DropInv
  <2>3. QED
    BY <1>1, <2>1, <2>2 DEF NewRows
<1>6. CASE Shutdown
  <2>1. now' = now /\ world' = world
    BY <1>6 DEF Shutdown
  <2>2. QED
    BY <1>1, <1>6, <2>1, ShutdownInv
<1>7. CASE Crash
  <2>1. /\ ~up' /\ cur' = None /\ resume' = None
        /\ UNCHANGED <<world, account, file, queued, now, cut>>
    BY <1>7 DEF Crash
  <2>2. QED
    BY <1>1, <2>1 DEF TimeInv, FileInv, OwnTime, NewRows
<1>8. CASE Start
  <2>1. /\ ~up /\ up' /\ resume' = file
        /\ UNCHANGED <<world, account, cur, file, queued, now, cut>>
    BY <1>8 DEF Start
  <2>2. cur' = None
    BY <2>1 DEF TimeInv, FileInv
  <2>3. FileInv'
    BY <2>1, <2>2 DEF FileInv, KeptIn, OnFile
  <2>4. QED
    BY <1>1, <2>1, <2>3 DEF TimeInv, NewRows
<1>9. CASE UNCHANGED vars
  BY <1>1, <1>9 DEF vars, TimeInv, FileInv, NewRows
<1>10. QED
  BY <1>2, <1>3, <1>4, <1>5, <1>6, <1>7, <1>8, <1>9 DEF Next

(* What a run may meet does not change in it.                              *)
LEMMA WorldKept == [Next]_vars => world' = world
  BY DEF Next, vars, SongPoll, GapPoll, GatedPoll, Reconfigure, Shutdown, Crash, Start

LEMMA Invariance == Spec => [](Types /\ IInv)
<1>1. Init => IInv
  BY InvInit DEF IInv
<1>2. Types /\ IInv /\ [Next]_vars => IInv'
  BY InvStep, WorldKept DEF IInv
<1>3. QED
  BY <1>1, <1>2, TypesAlways, PTL DEF Spec

(* As long as the progress file can be written and removed, the same time
   is never credited to two plays, nor time nobody heard: over restarts,
   gaps, changes of account and lengths that are corrected.                *)
THEOREM CreditedOnce == Spec => [](~world.writesMayFail => TimeCountsOnce)
<1>1. IInv => (~world.writesMayFail => TimeCountsOnce)
  BY DEF IInv, TimeInv, Apart, TimeCountsOnce
<1>2. QED
  BY <1>1, Invariance, PTL

(* As long as the progress file can be removed, what is queued was heard
   since sharing was last off and since the account last changed, and goes
   to the account of now.                                                  *)
THEOREM QueuedOnlyWhatWasShared == Spec /\ ~world.writesMayFail => HeardSinceTheCut
<1>1. Spec /\ ~world.writesMayFail => [](~world.writesMayFail)
  <2>1. ~world.writesMayFail /\ [Next]_vars => (~world.writesMayFail)'
    BY WorldKept
  <2>2. QED
    BY <2>1, PTL DEF Spec
<1>2. ASSUME Types, IInv, ~world.writesMayFail, [Next]_vars, Types'
      PROVE  [\A r \in queued' \ queued :
                /\ r.account = account
                /\ Later(cut, r.started) + Needed(r.dur) <= now']_vars
  <2>1. SUFFICES ASSUME NEW r \in queued' \ queued
                 PROVE  /\ r.account = account
                        /\ Later(cut, r.started) + Needed(r.dur) <= now'
    BY Zenon
  <2>2. /\ r.account = account /\ Later(cut, r.started) + Needed(r.dur) <= now
        /\ now <= now'
    BY <1>2, InvStep DEF IInv, NewRows
  <2>3. /\ r.started \in Nat /\ Needed(r.dur) \in Nat /\ cut \in Nat
        /\ now \in Nat /\ now' \in Nat
    BY <1>2, NeededType DEF Types, RowType
  <2>4. QED
    BY <2>2, <2>3 DEF Later
<1>3. QED
  BY <1>1, <1>2, Invariance, PTL DEF Spec, HeardSinceTheCut

-----------------------------------------------------------------------------
(* What a poll shows of the listen, and what the play takes from it.       *)

LEMMA AnnouncedFields ==
  ASSUME NEW p \in Play, NEW playing, NEW what \in {"song", "other"}
  PROVE  /\ Announced(p, playing, what).song = p.song
         /\ Announced(p, playing, what).album = p.album
         /\ Announced(p, playing, what).listen = p.listen
         /\ Announced(p, playing, what).pos = p.pos
         /\ Announced(p, playing, what).gone = p.gone
  BY DEF Announced, Play

LEMMA SavedFields ==
  ASSUME NEW p \in Play, NEW t \in Nat
  PROVE  /\ Saved(p, t).song = p.song /\ Saved(p, t).album = p.album
         /\ Saved(p, t).listen = p.listen /\ Saved(p, t).pos = p.pos
         /\ Saved(p, t).at = t
  BY DEF Saved, Play

(* The play of a poll that begins one.                                     *)
LEMMA BeginsFields ==
  ASSUME NEW p, NEW s \in SongShown, NEW t \in Nat, PlayBegins(p, s, t)
  PROVE  /\ cur' \in Play
         /\ cur'.song = s.song /\ cur'.album = s.album /\ cur'.listen = s.listen
         /\ cur'.pos = s.pos /\ cur'.gone = None /\ cur'.dur = s.len
         /\ cur'.started = t /\ cur'.played = 0 /\ cur'.banked = FALSE
         /\ queued' = queued \cup Banked(Closed(s, t)) \cup Banked(p)
         /\ file' \in {None, file}
<1> DEFINE f == Fresh(s, t)
<1>1. f \in Play /\ f.started = t /\ f.played = 0 /\ f.saved = 0 /\ f.banked = FALSE
  BY FreshType
<1>2. /\ f.song = s.song /\ f.album = s.album /\ f.listen = s.listen
      /\ f.pos = s.pos /\ f.gone = None /\ f.dur = s.len
  BY DEF Fresh
<1>3. /\ cur' = Announced(f, s.playing, "song")
      /\ queued' = queued \cup Banked(Closed(s, t)) \cup Banked(p)
      /\ file' \in {None, file}
  BY DEF PlayBegins, Written
<1> HIDE DEF f
<1>4. /\ cur' \in Play /\ cur'.started = f.started /\ cur'.played = f.played
      /\ cur'.dur = f.dur /\ cur'.banked = f.banked
  BY <1>1, <1>3, AnnouncedType
<1>5. /\ cur'.song = f.song /\ cur'.album = f.album /\ cur'.listen = f.listen
      /\ cur'.pos = f.pos /\ cur'.gone = f.gone
  BY <1>1, <1>3, AnnouncedFields
<1>6. QED
  BY <1>1, <1>2, <1>3, <1>4, <1>5

(* What is kept is the play as it is now, ...                              *)
LEMMA KeepFields ==
  ASSUME NEW p, NEW q \in Play, NEW t \in Nat, Keep(p, q, t)
  PROVE  /\ cur' \in Play
         /\ cur'.song = q.song /\ cur'.album = q.album /\ cur'.listen = q.listen
         /\ cur'.pos = q.pos /\ cur'.gone = q.gone /\ cur'.dur = q.dur
         /\ cur'.started = q.started /\ cur'.played = q.played /\ cur'.banked = q.banked
         /\ file' \in {file, Saved(q, t)}
<1>1. CASE WorthSaving(p, q)
  <2>1. cur' = [q EXCEPT !.saved = q.played] /\ file' \in Written(Saved(q, t))
    BY <1>1 DEF Keep
  <2>2. q.played \in Nat
    BY DEF Play
  <2>3. QED
    BY <2>1, <2>2 DEF Play, Written
<1>2. CASE ~WorthSaving(p, q)
  BY <1>2 DEF Keep
<1>3. QED
  BY <1>1, <1>2

(* ... and the file has it from the moment it counts.                      *)
LEMMA KeepFile ==
  ASSUME NEW p, NEW q \in Play, NEW t \in Nat, Keep(p, q, t), ~world.writesMayFail,
         Counts(q.played, q.dur)
  PROVE  file' = Saved(q, t) \/ (file' = file /\ Counts(p.played, p.dur))
<1>1. CASE WorthSaving(p, q)
  BY <1>1 DEF Keep, Written
<1>2. CASE ~WorthSaving(p, q)
  BY <1>2 DEF Keep, WorthSaving
<1>3. QED
  BY <1>1, <1>2

LEMMA HeardFields ==
  ASSUME NEW p \in Play, NEW s \in SongShown, NEW t \in Nat, NEW dt \in Nat
  PROVE  /\ Heard(p, s, t, dt).song = p.song /\ Heard(p, s, t, dt).album = p.album
         /\ Heard(p, s, t, dt).listen = p.listen
         /\ Heard(p, s, t, dt).pos = s.pos /\ Heard(p, s, t, dt).gone = None
<1> DEFINE credit == IF Carries(s, t) THEN 0 ELSE Credit(s.playing, dt)
           q0 == [p EXCEPT !.played = @ + credit, !.dur = s.len, !.pos = s.pos, !.gone = None]
<1>1. s.playing \in BOOLEAN /\ s.len \in Nat /\ s.pos \in Position
  BY DEF SongShown
<1>2. credit \in Nat
  BY <1>1, CreditBound
<1> HIDE DEF credit
<1>3. p.played \in Nat
  BY DEF Play
<1>4. p.played + credit \in Nat /\ None \in Position
  BY <1>2, <1>3 DEF Position
<1>5. /\ q0 \in Play /\ q0.song = p.song /\ q0.album = p.album /\ q0.listen = p.listen
      /\ q0.pos = s.pos /\ q0.gone = None
  BY <1>1, <1>4 DEF Play
<1>6. Heard(p, s, t, dt) = Announced(q0, s.playing, "song")
  BY DEF Heard, credit
<1> HIDE DEF q0
<1>7. QED
  BY <1>5, <1>6, AnnouncedFields

(* The play a poll is compared with, as ComparedType has it, and its song. *)
LEMMA ComparedFields ==
  ASSUME NEW s \in SongShown, NEW t \in Nat,
         cur \in Play \cup {None}, resume \in Record \cup {None}
  PROVE  /\ Carries(s, t) =>
              /\ Compared(s, t).listen = resume.listen /\ Compared(s, t).dur = s.len
              /\ Compared(s, t).pos = s.pos
              /\ Compared(s, t).song = s.song /\ Compared(s, t).album = s.album
         /\ ~Carries(s, t) /\ cur # None =>
              /\ Compared(s, t).listen = cur.listen /\ Compared(s, t).pos = cur.pos
              /\ Compared(s, t).song = cur.song
              /\ Compared(s, t).album = (cur.album \/ FillsIn(cur, s))
<1> DEFINE p0 == IF Carries(s, t) THEN FromRecord(resume, s) ELSE cur
<1>1. Compared(s, t) = IF FillsIn(p0, s) THEN [p0 EXCEPT !.album = TRUE] ELSE p0
  BY DEF Compared
<1>2. CASE Carries(s, t)
  <2>1. resume \in Record /\ resume.song = s.song /\ resume.album = s.album
    BY <1>2 DEF Carries
  <2>2. /\ p0 \in Play /\ p0.listen = resume.listen /\ p0.dur = s.len /\ p0.pos = s.pos
        /\ p0.song = s.song /\ p0.album = s.album
    BY <1>2, <2>1, FromRecordType DEF FromRecord
  <2>3. ~FillsIn(p0, s)
    BY <2>2 DEF FillsIn
  <2> HIDE DEF p0
  <2>4. QED
    BY <1>1, <1>2, <2>2, <2>3
<1>3. CASE ~Carries(s, t) /\ cur # None
  <2>1. p0 = cur /\ cur \in Play
    BY <1>3
  <2> HIDE DEF p0
  <2>2. cur.album \in BOOLEAN
    BY <2>1 DEF Play
  <2>3. CASE FillsIn(cur, s)
    <3>1. Compared(s, t) = [cur EXCEPT !.album = TRUE]
      BY <1>1, <2>1, <2>3
    <3>2. /\ Compared(s, t).listen = cur.listen /\ Compared(s, t).pos = cur.pos
          /\ Compared(s, t).song = cur.song /\ Compared(s, t).album = TRUE
      BY <2>1, <3>1 DEF Play
    <3>3. QED
      BY <1>3, <2>3, <3>2
  <2>4. CASE ~FillsIn(cur, s)
    <3>1. Compared(s, t) = cur
      BY <1>1, <2>1, <2>4
    <3>2. QED
      BY <1>3, <2>2, <2>4, <3>1
  <2>5. QED
    BY <2>3, <2>4
<1>4. QED
  BY <1>2, <1>3

(* The step of a poll that shows a song, and what is heard.                *)
ShownOf(s, h) ==
  /\ s.song = h.song /\ s.album = h.album /\ s.pos \in {None, h.pos}
  /\ s.listen = h.number /\ s.len \in world.lengths[h.song]

Continues(s, dt) ==
  /\ ~heard.over /\ ~LeftTooLong(now + dt) /\ ~s.restarted
  /\ heard'.song = heard.song /\ heard'.number = heard.number
  /\ heard'.pos \in Places(dt) /\ heard'.album \in AlbumShows(heard.album)

BeginsAnew == heard'.number = heard.number + 1 /\ heard'.album \in AlbumShows(FALSE)

Polled(s, dt) ==
  /\ UpdateSong(s, now + dt, dt)
  /\ ShownOf(s, heard')
  /\ Continues(s, dt) \/ BeginsAnew

LEMMA SongPollShows ==
  ASSUME Types, NEW dt \in 1 .. MaxStep, SongPoll(dt)
  PROVE  /\ heard'.quiet = None /\ ~heard'.over
         /\ \E s \in SongShown : Polled(s, dt)
<1> DEFINE t == now + dt
<1>1. PollGoesOn(t, dt) \/ PollBegins(t, dt)
  BY DEF SongPoll
<1>2. world \in Worlds /\ dt \in Nat /\ t \in Nat /\ heard \in Listen
  BY Constants DEF Types
<1>3. ASSUME NEW h \in Hearing, NEW playing \in BOOLEAN, NEW restarted \in BOOLEAN,
             NEW s \in Shown(h, playing, restarted)
      PROVE  ShownOf(s, h) /\ s.restarted = restarted
  BY <1>3 DEF Shown, ShownOf
<1> HIDE DEF t
<1>4. CASE PollGoesOn(t, dt)
  <2>1. PICK h \in GoesOn(dt), playing \in BOOLEAN :
          heard' = h /\ \E s \in Shown(h, playing, FALSE) : UpdateSong(s, t, dt)
    BY <1>4 DEF PollGoesOn
  <2>2. heard \in Hearing /\ ~heard.over /\ ~LeftTooLong(t)
    BY <1>4 DEF PollGoesOn, Types, Hearing
  <2>3. h \in Hearing
    BY <1>2, <2>1, <2>2, GoesOnType
  <2>4. /\ h.song = heard.song /\ h.number = heard.number /\ h.quiet = None
        /\ h.over = heard.over
        /\ h.pos \in Places(dt) /\ h.album \in AlbumShows(heard.album)
    <3>1. PICK pos \in Places(dt), album \in AlbumShows(heard.album) : h = HeardAt(pos, album)
      BY DEF GoesOn
    <3>2. /\ h.song = heard.song /\ h.number = heard.number /\ h.quiet = None
          /\ h.over = heard.over /\ h.pos = pos /\ h.album = album
      BY <1>2, <3>1 DEF HeardAt, Listen
    <3>3. QED
      BY <3>1, <3>2
  <2>5. PICK s \in Shown(h, playing, FALSE) : UpdateSong(s, t, dt)
    BY <2>1
  <2>6. s \in SongShown
    BY <1>2, <2>3, ShownType
  <2>7. ShownOf(s, h) /\ s.restarted = FALSE
    BY <1>3, <2>3
  <2>8. Polled(s, dt)
    BY <2>1, <2>2, <2>4, <2>5, <2>7 DEF Polled, Continues, t
  <2>9. QED
    BY <2>1, <2>2, <2>4, <2>6, <2>8
<1>5. CASE PollBegins(t, dt)
  <2>1. PICK h \in Begins, playing \in BOOLEAN, restarted \in BOOLEAN :
          heard' = h /\ \E s \in Shown(h, playing, restarted) : UpdateSong(s, t, dt)
    BY <1>5 DEF PollBegins
  <2>2. h \in Hearing
    <3>1. heard.number \in Nat
      BY <1>2 DEF Listen
    <3>2. QED
      BY <1>2, <2>1, <3>1, BeginsType
  <2>3. /\ h.number = heard.number + 1 /\ h.quiet = None /\ ~h.over
        /\ h.album \in AlbumShows(FALSE)
    <3> DEFINE shows == AlbumShows(FALSE)
    <3>1. Begins = {HeardFirst(song, album) : song \in Playable, album \in shows}
      BY DEF Begins
    <3> HIDE DEF shows
    <3>2. PICK song \in Playable, album \in shows : h = HeardFirst(song, album)
      BY <3>1
    <3>3. QED
      BY <3>2 DEF HeardFirst, shows
  <2>4. PICK s \in Shown(h, playing, restarted) : UpdateSong(s, t, dt)
    BY <2>1
  <2>5. s \in SongShown
    BY <1>2, <2>2, ShownType
  <2>6. ShownOf(s, h)
    BY <1>3, <2>2
  <2>7. Polled(s, dt)
    BY <2>1, <2>3, <2>4, <2>6 DEF Polled, BeginsAnew, t
  <2>8. QED
    BY <2>1, <2>3, <2>5, <2>7
<1>6. QED
  BY <1>1, <1>4, <1>5

(* Either another play begins, or the one compared goes on.                *)
Ends(s, t) ==
  /\ ~(SameSong(Compared(s, t), s) /\ ~StartsOver(Compared(s, t), s))
  /\ PlayBegins(Compared(s, t), s, t)

Lasts(s, t, dt) ==
  /\ Compared(s, t) \in Play
  /\ SameSong(Compared(s, t), s)
  /\ queued' = queued \cup Banked(Closed(s, t))
  /\ Keep(Compared(s, t), Heard(Compared(s, t), s, t, dt), t)

LEMMA SongOutcome ==
  ASSUME Types, NEW s \in SongShown, NEW t \in Nat, NEW dt \in Nat, UpdateSong(s, t, dt)
  PROVE  resume' = None /\ (Ends(s, t) \/ Lasts(s, t, dt))
<1> DEFINE p == Compared(s, t)
<1>1. p \in Play \cup {None}
  BY ComparedType DEF Types
<1>2. /\ IF SameSong(p, s) /\ ~StartsOver(p, s)
           THEN PlayGoesOn(p, s, t, dt)
           ELSE PlayBegins(p, s, t)
      /\ resume' = None
  BY DEF UpdateSong
<1>3. CASE SameSong(p, s) /\ ~StartsOver(p, s)
  <2>1. p \in Play /\ PlayGoesOn(p, s, t, dt)
    BY <1>1, <1>2, <1>3 DEF SameSong
  <2>2. Lasts(s, t, dt)
    BY <1>3, <2>1, GoesOnEffect DEF Lasts
  <2>3. QED
    BY <1>2, <2>2
<1>4. CASE ~(SameSong(p, s) /\ ~StartsOver(p, s))
  BY <1>2, <1>4 DEF Ends
<1>5. QED
  BY <1>3, <1>4

LEMMA LastsFields ==
  ASSUME NEW s \in SongShown, NEW t \in Nat, NEW dt \in Nat, Lasts(s, t, dt)
  PROVE  /\ cur' \in Play
         /\ cur'.song = s.song /\ cur'.album = s.album /\ cur'.pos = s.pos
         /\ cur'.gone = None /\ cur'.dur = s.len
         /\ cur'.listen = Compared(s, t).listen /\ cur'.started = Compared(s, t).started
         /\ cur'.banked = Compared(s, t).banked
         /\ \/ file' = file
            \/ /\ file' \in Record
               /\ file'.song = cur'.song /\ file'.album = cur'.album
               /\ file'.listen = cur'.listen /\ file'.started = cur'.started
               /\ file'.pos = cur'.pos /\ file'.dur = cur'.dur
               /\ file'.played = cur'.played
               /\ file'.banked = cur'.banked /\ file'.at = t
<1> DEFINE p == Compared(s, t)
           q == Heard(p, s, t, dt)
<1>1. p \in Play /\ SameSong(p, s) /\ Keep(p, q, t)
  BY DEF Lasts
<1>2. /\ q \in Play /\ q.started = p.started /\ q.banked = p.banked /\ q.dur = s.len
  BY <1>1, HeardType
<1>3. /\ q.song = p.song /\ q.album = p.album /\ q.listen = p.listen
      /\ q.pos = s.pos /\ q.gone = None
  BY <1>1, HeardFields
<1>4. p.song = s.song /\ p.album = s.album
  BY <1>1 DEF SameSong
<1> HIDE DEF q
<1>5. /\ cur' \in Play
      /\ cur'.song = q.song /\ cur'.album = q.album /\ cur'.listen = q.listen
      /\ cur'.pos = q.pos /\ cur'.gone = q.gone /\ cur'.dur = q.dur
      /\ cur'.started = q.started /\ cur'.played = q.played /\ cur'.banked = q.banked
      /\ file' \in {file, Saved(q, t)}
  BY <1>1, <1>2, KeepFields
<1>6. /\ Saved(q, t) \in Record
      /\ Saved(q, t).started = q.started /\ Saved(q, t).dur = q.dur
      /\ Saved(q, t).played = q.played
      /\ Saved(q, t).banked = q.banked
      /\ Saved(q, t).song = q.song /\ Saved(q, t).album = q.album
      /\ Saved(q, t).listen = q.listen /\ Saved(q, t).pos = q.pos
      /\ Saved(q, t).at = t
  BY <1>2, SavedType, SavedFields
<1>7. QED
  BY <1>2, <1>3, <1>4, <1>5, <1>6

(* A poll that shows nothing, where nothing but songs is shown.            *)
QuietEnds(t) ==
  /\ cur # None /\ ~WithinGrace(t)
  /\ cur' = None /\ queued' = queued \cup Banked(cur) /\ file' \in {None, file}

QuietLasts(t) ==
  /\ cur # None /\ WithinGrace(t)
  /\ queued' = queued
  /\ Keep(cur, Bridged(Nothing, t), t)

LEMMA QuietOutcome ==
  ASSUME Types, ~world.otherThings, NEW g \in Gaps, NEW t \in Nat, UpdateGap(g, t)
  PROVE  /\ resume' = resume
         /\ \/ cur = None /\ UNCHANGED <<queued, file, cur>>
            \/ QuietEnds(t)
            \/ QuietLasts(t)
<1>1. g = Nothing
  BY DEF Gaps
<1>2. CASE cur = None
  BY <1>2 DEF UpdateGap
<1>3. CASE cur # None /\ ~WithinGrace(t)
  BY <1>3 DEF UpdateGap, GapEndsThePlay, Written, QuietEnds
<1>4. CASE cur # None /\ WithinGrace(t)
  <2>1. ~IsReplay(Counts(cur.played, cur.dur), cur.pos, g.pos)
    BY <1>1 DEF IsReplay, Nothing
  <2>2. GapBridged(g, t)
    BY <1>4, <2>1 DEF UpdateGap
  <2>3. QED
    BY <1>1, <1>4, <2>2, BridgedEffect DEF UpdateGap, QuietLasts
<1>5. QED
  BY <1>2, <1>3, <1>4

LEMMA QuietFields ==
  ASSUME cur \in Play, NEW t \in Nat, QuietLasts(t)
  PROVE  /\ cur' \in Play
         /\ cur'.song = cur.song /\ cur'.album = cur.album /\ cur'.listen = cur.listen
         /\ cur'.pos = cur.pos /\ cur'.dur = cur.dur /\ cur'.started = cur.started
         /\ cur'.played = cur.played /\ cur'.banked = cur.banked
         /\ cur'.gone = GoneSince(t)
         /\ \/ file' = file
            \/ /\ file' \in Record
               /\ file'.song = cur.song /\ file'.album = cur.album
               /\ file'.listen = cur.listen /\ file'.started = cur.started
               /\ file'.pos = cur.pos /\ file'.dur = cur.dur
               /\ file'.played = cur.played
               /\ file'.banked = cur.banked /\ file'.at = t
<1> DEFINE q0 == [cur EXCEPT !.gone = GoneSince(t)]
           q == Bridged(Nothing, t)
<1>1. GoneSince(t) \in Position
  BY GoneType
<1>2. /\ q0 \in Play
      /\ q0.song = cur.song /\ q0.album = cur.album /\ q0.listen = cur.listen
      /\ q0.pos = cur.pos /\ q0.dur = cur.dur /\ q0.started = cur.started
      /\ q0.played = cur.played /\ q0.banked = cur.banked /\ q0.gone = GoneSince(t)
  BY <1>1 DEF Play
<1>3. q = Announced(q0, FALSE, "other")
  <2>1. [cur EXCEPT !.dur = IF Nothing.len > 0 THEN Nothing.len ELSE @, !.gone = GoneSince(t)] = q0
    <3>1. (IF Nothing.len > 0 THEN Nothing.len ELSE cur.dur) = cur.dur
      BY DEF Nothing
    <3>2. [cur EXCEPT !.dur = cur.dur, !.gone = GoneSince(t)] = q0
      BY DEF Play
    <3>3. QED
      BY <3>1, <3>2
  <2>2. Nothing.playing = FALSE
    BY DEF Nothing
  <2>3. QED
    BY <2>1, <2>2 DEF Bridged
<1>4. q = q0
  BY <1>3 DEF Announced
<1>5. Keep(cur, q0, t)
  BY <1>4 DEF QuietLasts
<1> HIDE DEF q0, q
<1>6. /\ cur' \in Play
      /\ cur'.song = q0.song /\ cur'.album = q0.album /\ cur'.listen = q0.listen
      /\ cur'.pos = q0.pos /\ cur'.gone = q0.gone /\ cur'.dur = q0.dur
      /\ cur'.started = q0.started /\ cur'.played = q0.played /\ cur'.banked = q0.banked
      /\ file' \in {file, Saved(q0, t)}
  BY <1>2, <1>5, KeepFields
<1>7. /\ Saved(q0, t) \in Record
      /\ Saved(q0, t).started = q0.started /\ Saved(q0, t).dur = q0.dur
      /\ Saved(q0, t).played = q0.played
      /\ Saved(q0, t).banked = q0.banked
      /\ Saved(q0, t).song = q0.song /\ Saved(q0, t).album = q0.album
      /\ Saved(q0, t).listen = q0.listen /\ Saved(q0, t).pos = q0.pos
      /\ Saved(q0, t).at = t
  BY <1>2, SavedType, SavedFields
<1>8. QED
  BY <1>2, <1>6, <1>7

-----------------------------------------------------------------------------
(* What is in progress follows what is heard, where only songs are shown.  *)

Fits(c, h) ==
  /\ ~h.over
  /\ c.song = h.song /\ c.album = h.album
  /\ c.pos \in {None, h.pos} /\ c.gone = h.quiet

Matches ==
  /\ resume # None => up /\ cur = None /\ file = resume
  /\ ~up => cur = None /\ resume = None
  /\ cur # None => Fits(cur, heard)
  /\ ~world.lateAlbum /\ ~heard.over => heard.album

LEMMA MatchesInit == Init => Matches
  BY DEF Init, Matches, NoListen

(* The listener's silence and the play's are the same.                     *)
LEMMA QuietMatches ==
  ASSUME Types, Matches, ~world.otherThings, NEW dt \in 1 .. MaxStep, GapPoll(dt)
  PROVE  Matches'
<1> DEFINE t == now + dt
           since == IF heard.quiet = None THEN t ELSE heard.quiet
           over == resume = None /\ t - since > GoneGrace
<1>1. /\ t \in Nat /\ heard \in Listen /\ cur \in Play \cup {None} /\ since \in Nat
  BY Constants DEF Types, Listen, Position
<1>2. PICK g \in Gaps : UpdateGap(g, t)
  BY DEF GapPoll
<1>3. /\ resume' = resume
      /\ \/ cur = None /\ UNCHANGED <<queued, file, cur>>
         \/ QuietEnds(t)
         \/ QuietLasts(t)
  BY <1>1, <1>2, QuietOutcome
<1>4. /\ heard' = IF heard.over THEN heard ELSE [heard EXCEPT !.quiet = since, !.over = over]
      /\ UNCHANGED <<world, up, account>>
  BY DEF GapPoll
<1>5. /\ heard'.song = heard.song /\ heard'.album = heard.album /\ heard'.pos = heard.pos
      /\ heard.over => heard'.over
      /\ ~heard.over => heard'.quiet = since /\ heard'.over = over
  BY <1>1, <1>4 DEF Listen
<1>6. ~world.lateAlbum /\ ~heard'.over => heard'.album
  BY <1>5 DEF Matches
<1>7. CASE cur = None /\ UNCHANGED <<queued, file, cur>>
  BY <1>3, <1>4, <1>6, <1>7 DEF Matches
<1>8. CASE QuietEnds(t)
  <2>1. cur' = None /\ resume = None /\ up
    BY <1>8 DEF QuietEnds, Matches
  <2>2. QED
    BY <1>3, <1>4, <1>6, <2>1 DEF Matches
<1>9. CASE QuietLasts(t)
  <2>1. cur # None /\ WithinGrace(t) /\ cur \in Play /\ resume = None /\ up
    BY <1>1, <1>9 DEF QuietLasts, Matches
  <2>2. /\ cur'.song = cur.song /\ cur'.album = cur.album /\ cur'.pos = cur.pos
        /\ cur'.gone = GoneSince(t)
    BY <1>1, <1>9, <2>1, QuietFields
  <2>3. Fits(cur, heard)
    BY <2>1 DEF Matches
  <2>4. GoneSince(t) = since
    BY <2>3 DEF GoneSince, Fits
  <2>5. ~over
    BY <2>1, <2>4, <1>1, Constants DEF WithinGrace
  <2> HIDE DEF over
  <2>6. ~heard'.over /\ heard'.quiet = since
    BY <1>5, <2>3, <2>5 DEF Fits
  <2>7. Fits(cur', heard')
    BY <1>5, <2>2, <2>3, <2>4, <2>6 DEF Fits
  <2>8. QED
    BY <1>3, <1>4, <1>6, <2>1, <2>7 DEF Matches
<1>10. QED
  BY <1>3, <1>7, <1>8, <1>9

LEMMA AlbumHeard ==
  ASSUME Matches, ~world.lateAlbum, NEW s \in SongShown, NEW dt,
         Continues(s, dt) \/ BeginsAnew, heard'.album \in BOOLEAN
  PROVE  heard'.album
<1>1. \A b \in BOOLEAN : AlbumShows(b) = {TRUE}
  BY DEF AlbumShows
<1>2. AlbumShows(FALSE) = {TRUE}
  BY DEF AlbumShows
<1>3. AlbumShows(heard.album) = {TRUE}
  BY DEF AlbumShows
<1>4. QED
  BY <1>2, <1>3 DEF Continues, BeginsAnew

(* A poll that shows a song shows the one in progress.                     *)
LEMMA PolledMatches ==
  ASSUME Types, Matches, NEW dt \in 1 .. MaxStep, NEW s \in SongShown, Polled(s, dt),
         up' = up, up, world' = world, heard'.quiet = None, ~heard'.over, heard'.album \in BOOLEAN
  PROVE  Matches'
<1>1. now + dt \in Nat /\ dt \in Nat
  BY Constants DEF Types
<1>2. ShownOf(s, heard') /\ (Continues(s, dt) \/ BeginsAnew)
  BY DEF Polled
<1>3. resume' = None /\ (Ends(s, now + dt) \/ Lasts(s, now + dt, dt))
  BY <1>1, SongOutcome DEF Polled
<1>4. /\ cur'.song = s.song /\ cur'.album = s.album /\ cur'.pos = s.pos /\ cur'.gone = None
  <2>1. CASE Ends(s, now + dt)
    <3>1. PlayBegins(Compared(s, now + dt), s, now + dt)
      BY <2>1 DEF Ends
    <3>2. QED
      BY <1>1, <3>1, BeginsFields
  <2>2. CASE Lasts(s, now + dt, dt)
    BY <1>1, <2>2, LastsFields
  <2>3. QED
    BY <1>3, <2>1, <2>2
<1>5. Fits(cur', heard')
  BY <1>2, <1>4 DEF Fits, ShownOf
<1>6. ~world.lateAlbum => heard'.album
  BY <1>2, AlbumHeard
<1>7. QED
  BY <1>3, <1>5, <1>6 DEF Matches

LEMMA MatchesStep ==
  ASSUME Types, Types', Matches, ~world.otherThings, [Next]_vars
  PROVE  Matches'
<1>1. ASSUME NEW dt \in 1 .. MaxStep, SongPoll(dt)
      PROVE  Matches'
  <2>1. heard'.quiet = None /\ ~heard'.over
    BY <1>1, SongPollShows
  <2>2. PICK s \in SongShown : Polled(s, dt)
    BY <1>1, SongPollShows
  <2>3. up /\ up' = up /\ world' = world
    BY <1>1 DEF SongPoll
  <2>4. heard'.album \in BOOLEAN
    BY DEF Types, Listen
  <2>5. QED
    BY <2>1, <2>2, <2>3, <2>4, PolledMatches
<1>2. ASSUME NEW dt \in 1 .. MaxStep, GapPoll(dt)
      PROVE  Matches'
  BY <1>2, QuietMatches
<1>3. ASSUME NEW dt \in 1 .. MaxStep, GatedPoll(dt)
      PROVE  Matches'
  <2>1. up /\ up' = up /\ world' = world /\ cur' = None /\ resume' = None
    BY <1>3 DEF GatedPoll, DropPlay
  <2>2. heard'.over
    BY <1>3 DEF GatedPoll, Over, Types, Listen
  <2>3. QED
    BY <2>1, <2>2 DEF Matches
<1>4. ASSUME NEW a \in Accounts \cup {NoAccount}, Reconfigure(a)
      PROVE  Matches'
  <2>1. up /\ up' = up /\ world' = world /\ cur' = None /\ resume' = None
    BY <1>4 DEF Reconfigure, DropPlay
  <2>2. heard'.over
    BY <1>4 DEF Reconfigure, Over, Types, Listen
  <2>3. QED
    BY <2>1, <2>2 DEF Matches
<1>5. CASE Shutdown
  BY <1>5 DEF Shutdown, Matches
<1>6. CASE Crash
  BY <1>6 DEF Crash, Matches
<1>7. CASE Start
  <2>1. /\ ~up /\ up' /\ resume' = file
        /\ UNCHANGED <<world, cur, file>>
        /\ heard' = HeardAfresh
    BY <1>7 DEF Start
  <2>2. cur = None
    BY <2>1 DEF Matches
  <2>3. heard'.over = heard.over /\ (~world.lateAlbum => heard'.album = heard.album)
    <3>1. heard.album \in BOOLEAN
      BY DEF Types, Listen
    <3>2. heard'.over = heard.over /\ heard'.album = (heard.album /\ ~world.lateAlbum)
      BY <2>1 DEF HeardAfresh, Types, Listen
    <3>3. QED
      BY <3>1, <3>2
  <2>4. QED
    BY <2>1, <2>2, <2>3 DEF Matches
<1>8. CASE UNCHANGED vars
  BY <1>8 DEF vars, Matches
<1>9. QED
  BY <1>1, <1>2, <1>3, <1>4, <1>5, <1>6, <1>7, <1>8 DEF Next

(* An album that turns up late is recognised as the song's.                *)
AlbumsAreTold == world.lateAlbum => Songs \subseteq Plain

(* Where the listener is never looks like the song starting over.          *)
LEMMA NoJumpBack ==
  ASSUME Types, NEW s \in SongShown, NEW dt \in Nat, Continues(s, dt), ShownOf(s, heard'),
         NEW before \in {None, heard.pos}, NEW counted
  PROVE  ~IsReplay(counted, before, s.pos)
<1> SUFFICES ASSUME before # None, s.pos # None
             PROVE  ~(s.pos < ReplayStart /\ before - s.pos >= ReplayJump)
  BY DEF IsReplay
<1>1. before = heard.pos /\ s.pos = heard'.pos
  BY DEF ShownOf
<1>2. heard.pos \in Nat /\ ReplayJump \in Nat /\ ReplayJump > 0
  BY Constants, ReplayAssumption DEF Types, Listen
<1>3. heard'.pos \in {heard.pos, heard.pos + dt} \cup SoughtTo(heard.pos)
  BY DEF Continues, Places
<1>4. CASE heard'.pos \in {heard.pos, heard.pos + dt}
  BY <1>1, <1>2, <1>4
<1>5. CASE heard'.pos \in SoughtTo(heard.pos)
  BY <1>1, <1>5 DEF SoughtTo
<1>6. QED
  BY <1>3, <1>4, <1>5

(* While the listen goes on, the play in progress is found to be the one
   shown.                                                                  *)
LEMMA StaysTheSame ==
  ASSUME Types, Matches, AlbumsAreTold, cur # None, heard'.album \in BOOLEAN,
         NEW dt \in 1 .. MaxStep, NEW s \in SongShown, Polled(s, dt), Continues(s, dt)
  PROVE  /\ ~Carries(s, now + dt)
         /\ Lasts(s, now + dt, dt)
         /\ cur'.started = cur.started /\ cur'.listen = cur.listen
<1> DEFINE t == now + dt
           p == Compared(s, t)
<1>1. t \in Nat /\ dt \in Nat /\ cur \in Play /\ resume = None
  BY Constants DEF Types, Matches
<1>2. ShownOf(s, heard') /\ UpdateSong(s, t, dt) /\ Fits(cur, heard)
  BY DEF Polled, Matches
<1>3. ~Carries(s, t)
  BY <1>1 DEF Carries
<1>4. /\ p.listen = cur.listen /\ p.pos = cur.pos /\ p.song = cur.song
      /\ p.album = (cur.album \/ FillsIn(cur, s))
  BY <1>1, <1>3, ComparedFields
<1>5. p # None /\ p.started = cur.started
  BY <1>1, <1>3, ComparedType
<1>6. p.song = s.song /\ cur.song = s.song
  BY <1>2, <1>4 DEF Fits, ShownOf, Continues
<1>7. p.album = s.album
  <2>1. cur.album \in BOOLEAN /\ s.album \in BOOLEAN /\ s.song \in Songs
    BY <1>1 DEF Play, SongShown
  <2>2. cur.album = heard.album /\ s.album \in AlbumShows(heard.album)
    BY <1>2 DEF Fits, ShownOf, Continues
  <2>3. CASE cur.album
    <3>1. AlbumShows(heard.album) = {TRUE}
      BY <2>2, <2>3 DEF AlbumShows
    <3>2. s.album = TRUE
      BY <2>2, <3>1
    <3>3. QED
      BY <1>4, <2>3, <3>2
  <2>4. CASE ~cur.album
    <3>1. world.lateAlbum
      BY <1>2, <2>2, <2>4 DEF Matches, Fits
    <3>2. s.song \in Plain
      BY <2>1, <3>1 DEF AlbumsAreTold
    <3>3. FillsIn(cur, s) <=> s.album
      <4>1. cur # None /\ cur.song = s.song /\ ~cur.album
        BY <1>6, <2>4
      <4>2. QED
        BY <3>2, <4>1, Zenon DEF FillsIn
    <3>4. CASE s.album
      BY <1>4, <2>1, <3>3, <3>4
    <3>5. CASE ~s.album
      BY <1>4, <2>1, <2>4, <3>3, <3>5
    <3>6. QED
      BY <3>4, <3>5
  <2>5. QED
    BY <2>3, <2>4
<1>8. ~StartsOver(p, s)
  <2>1. p.pos \in {None, heard.pos}
    BY <1>2, <1>4 DEF Fits
  <2>2. ~IsReplay(Counts(p.played, p.dur), p.pos, s.pos)
    BY <1>1, <1>2, <2>1, NoJumpBack
  <2>3. ~s.restarted
    BY DEF Continues
  <2>4. QED
    BY <2>2, <2>3 DEF StartsOver
<1>9. SameSong(p, s)
  BY <1>5, <1>6, <1>7 DEF SameSong
<1>10. Lasts(s, t, dt)
  BY <1>1, <1>2, <1>8, <1>9, SongOutcome DEF Ends
<1>11. cur'.listen = p.listen /\ cur'.started = p.started
  BY <1>1, <1>10, LastsFields
<1>12. QED
  BY <1>3, <1>4, <1>5, <1>10, <1>11

(* Where nothing but songs is shown, what is in progress follows what is
   heard at all times.                                                     *)
LEMMA MatchesAlways == Spec => [](Types /\ (~world.otherThings => Matches))
<1>1. Init => (~world.otherThings => Matches)
  BY MatchesInit
<1>2. Types /\ Types' /\ (~world.otherThings => Matches) /\ [Next]_vars
        => (~world.otherThings => Matches)'
  BY MatchesStep, WorldKept
<1>3. QED
  BY <1>1, <1>2, TypesAlways, PTL DEF Spec

(* The next listen has a number of its own.                                *)
LEMMA AnotherListen ==
  ASSUME NEW n \in Nat, heard.number = n, heard'.number = n
  PROVE  ~BeginsAnew
<1>1. n # n + 1
  OBVIOUS
<1>2. QED
  BY <1>1 DEF BeginsAnew

(* The step of OnePlayPerListen.                                           *)
LEMMA OnePlayStep ==
  ASSUME Types, Types', ~world.otherThings => Matches, AlbumsAreTold, [Next]_vars,
         up, up', ~world.otherThings, cur # None, cur' # None,
         heard'.number = heard.number
  PROVE  cur'.started = cur.started
<1>1. Matches /\ cur \in Play
  BY DEF Types
<1>2. ASSUME NEW dt \in 1 .. MaxStep, SongPoll(dt)
      PROVE  cur'.started = cur.started
  <2>1. PICK s \in SongShown : Polled(s, dt)
    BY <1>2, SongPollShows
  <2>2. Continues(s, dt)
    <3>1. heard.number \in Nat
      BY DEF Types, Listen
    <3>2. ~BeginsAnew
      BY <3>1, AnotherListen
    <3>3. QED
      BY <2>1, <3>2 DEF Polled
  <2>3. heard'.album \in BOOLEAN
    BY DEF Types, Listen
  <2>4. QED
    BY <1>1, <2>1, <2>2, <2>3, StaysTheSame
<1>3. ASSUME NEW dt \in 1 .. MaxStep, GapPoll(dt)
      PROVE  cur'.started = cur.started
  <2>1. PICK g \in Gaps : UpdateGap(g, now + dt)
    BY <1>3 DEF GapPoll
  <2>2. now + dt \in Nat
    BY Constants DEF Types
  <2>3. QuietLasts(now + dt)
    BY <2>1, <2>2, QuietOutcome DEF QuietEnds
  <2>4. QED
    BY <1>1, <2>2, <2>3, QuietFields
<1>4. ASSUME NEW dt \in 1 .. MaxStep, GatedPoll(dt)
      PROVE  FALSE
  BY <1>4 DEF GatedPoll, DropPlay
<1>5. ASSUME NEW a \in Accounts \cup {NoAccount}, Reconfigure(a)
      PROVE  FALSE
  BY <1>5 DEF Reconfigure, DropPlay
<1>6. ~Shutdown /\ ~Crash /\ ~Start
  BY DEF Shutdown, Crash, Start
<1>7. CASE UNCHANGED vars
  BY <1>7 DEF vars
<1>8. QED
  BY <1>2, <1>3, <1>4, <1>5, <1>6, <1>7 DEF Next

(* While Refrain runs and the source shows songs, a listen is one play: where
   the listener seeks to, how long he is silent within the grace, and when
   the album turns up change nothing, as long as no song with a late album
   has a "%" or a "|" in its names.                                        *)
THEOREM OneListenOnePlay == Spec /\ AlbumsAreTold => OnePlayPerListen
<1>1. Spec /\ AlbumsAreTold => []AlbumsAreTold
  <2>1. AlbumsAreTold /\ [Next]_vars => AlbumsAreTold'
    BY WorldKept DEF AlbumsAreTold
  <2>2. QED
    BY <2>1, PTL DEF Spec
<1>2. ASSUME Types, ~world.otherThings => Matches, AlbumsAreTold, [Next]_vars, Types'
      PROVE  [ /\ up /\ up' /\ ~world.otherThings
               /\ cur # None /\ cur' # None
               /\ cur.listen = heard.number /\ heard'.number = heard.number
               => cur'.started = cur.started ]_vars
  BY <1>2, OnePlayStep, Zenon
<1>3. QED
  BY <1>1, <1>2, MatchesAlways, PTL DEF Spec, OnePlayPerListen

-----------------------------------------------------------------------------
(* What has counted is never lost, where only songs are shown.             *)

InQueue(b, Q) == \E r \in Q : r.started = b

(* p began at b and counts.                                                *)
Counting(p, b) == p # None /\ p.started = b /\ Counts(p.played, p.dur)

(* A play that is marked as queued is queued.                              *)
MarkedIn(p, Q) == p # None /\ p.banked => InQueue(p.started, Q)

(* The length of a play is one its song is shown with.                     *)
LengthIn(p, L) == p # None => p.dur \in L[p.song]

PlayFacts ==
  /\ MarkedIn(cur, queued) /\ MarkedIn(resume, queued) /\ MarkedIn(file, queued)
  /\ LengthIn(cur, world.lengths) /\ LengthIn(resume, world.lengths)
  /\ LengthIn(file, world.lengths)

(* What has counted is queued, in progress, or saved.                      *)
EarnedKept ==
  \A b \in earned :
    \/ InQueue(b, queued)
    \/ Counting(cur, b)
    \/ ~up /\ Counting(file, b)
    \/ Counting(resume, b)

(* What counts now is also in the file, where Refrain may die.             *)
Stored ==
  world.crashes =>
    \A b \in Nat : Counting(cur, b) => InQueue(b, queued) \/ Counting(file, b)

(* Where Refrain may die, the file can be written and no song is shown with
   one length before it dies and with another afterwards.                  *)
SafeInACrash ==
  world.crashes =>
    /\ ~world.writesMayFail
    /\ \A song \in Songs : \A l, m \in world.lengths[song] : l = m

(* A play that counts is in the queue once its row has been handed over.   *)
LEMMA BankedOne ==
  ASSUME NEW p, NEW b, Counting(p, b), NEW Q, MarkedIn(p, Q)
  PROVE  InQueue(b, Q \cup Banked(p))
<1>1. p # None /\ p.started = b /\ Counts(p.played, p.dur)
  BY DEF Counting
<1>2. CASE p.banked
  BY <1>1, <1>2 DEF MarkedIn, InQueue
<1>3. CASE ~p.banked
  <2>1. Banked(p) = {Row(p)}
    BY <1>1, <1>3 DEF Banked, MustBank
  <2>2. Row(p).started = b
    BY <1>1 DEF Row
  <2>3. QED
    BY <2>1, <2>2 DEF InQueue
<1>4. QED
  BY <1>2, <1>3

LEMMA StaysQueued ==
  ASSUME NEW Q, NEW R, Q \subseteq R
  PROVE  /\ \A b : InQueue(b, Q) => InQueue(b, R)
         /\ \A p : MarkedIn(p, Q) => MarkedIn(p, R)
  BY DEF InQueue, MarkedIn

(* The marks and the lengths stay true of whatever the file is left as.    *)
LEMMA FactsKept ==
  ASSUME NEW c, NEW f, NEW Q, NEW L, MarkedIn(file, Q), LengthIn(file, L),
         MarkedIn(c, Q), LengthIn(c, L),
         \/ f = None
         \/ f = file
         \/ /\ c # None /\ f.song = c.song /\ f.started = c.started
            /\ f.dur = c.dur /\ f.banked = c.banked
  PROVE  MarkedIn(f, Q) /\ LengthIn(f, L)
  BY DEF MarkedIn, LengthIn

(* The mark of the play a poll is compared with.                           *)
LEMMA ComparedMarked ==
  ASSUME Types, PlayFacts, NEW s \in SongShown, NEW t \in Nat
  PROVE  MarkedIn(Compared(s, t), queued)
<1>1. CASE Carries(s, t)
  <2>1. resume # None
    BY <1>1 DEF Carries
  <2>2. Compared(s, t).started = resume.started /\ Compared(s, t).banked = resume.banked
    BY <1>1, ComparedType DEF Types
  <2>3. QED
    BY <2>1, <2>2 DEF PlayFacts, MarkedIn
<1>2. CASE ~Carries(s, t) /\ Compared(s, t) # None
  <2>1. cur # None
    BY <1>2, ComparedType DEF Types
  <2>2. Compared(s, t).started = cur.started /\ Compared(s, t).banked = cur.banked
    BY <1>2, ComparedType DEF Types
  <2>3. QED
    BY <2>1, <2>2 DEF PlayFacts, MarkedIn
<1>3. CASE Compared(s, t) = None
  BY <1>3 DEF MarkedIn
<1>4. QED
  BY <1>1, <1>2, <1>3

LEMMA PolledFacts ==
  ASSUME Types, PlayFacts, NEW dt \in 1 .. MaxStep, NEW s \in SongShown, Polled(s, dt),
         world' = world
  PROVE  PlayFacts'
<1> DEFINE t == now + dt
<1>1. t \in Nat /\ dt \in Nat
  BY Constants DEF Types
<1>2. ShownOf(s, heard') /\ UpdateSong(s, t, dt)
  BY DEF Polled
<1> HIDE DEF t
<1>3. s.len \in world.lengths[s.song]
  BY <1>2 DEF ShownOf
<1>4. resume' = None /\ (Ends(s, t) \/ Lasts(s, t, dt))
  BY <1>1, <1>2, SongOutcome
<1>5. CASE Ends(s, t)
  <2>1. PlayBegins(Compared(s, t), s, t)
    BY <1>5 DEF Ends
  <2>2. /\ cur'.song = s.song /\ cur'.dur = s.len /\ cur'.banked = FALSE
        /\ queued \subseteq queued'
        /\ file' \in {None, file}
    BY <1>1, <2>1, BeginsFields
  <2>3. MarkedIn(cur', queued') /\ LengthIn(cur', world.lengths)
    BY <1>3, <2>2 DEF MarkedIn, LengthIn
  <2>4. MarkedIn(file, queued') /\ LengthIn(file, world.lengths)
    BY <2>2, StaysQueued DEF PlayFacts
  <2>5. MarkedIn(file', queued') /\ LengthIn(file', world.lengths)
    BY <2>2, <2>3, <2>4, FactsKept
  <2>6. MarkedIn(None, queued') /\ LengthIn(None, world.lengths)
    BY DEF MarkedIn, LengthIn
  <2>7. QED
    BY <1>4, <2>3, <2>5, <2>6 DEF PlayFacts
<1>6. CASE Lasts(s, t, dt)
  <2>1. /\ cur' \in Play /\ cur'.song = s.song /\ cur'.dur = s.len
        /\ cur'.started = Compared(s, t).started /\ cur'.banked = Compared(s, t).banked
        /\ \/ file' = file
           \/ /\ file'.song = cur'.song /\ file'.started = cur'.started
              /\ file'.dur = cur'.dur /\ file'.banked = cur'.banked
    BY <1>1, <1>6, LastsFields
  <2>2. queued \subseteq queued' /\ Compared(s, t) \in Play
    BY <1>6 DEF Lasts
  <2>3. MarkedIn(Compared(s, t), queued')
    BY <1>1, <2>2, ComparedMarked, StaysQueued
  <2>4. cur' # None /\ Compared(s, t) # None
    BY <2>1, <2>2, NoneIsNoPlay
  <2>5. MarkedIn(cur', queued') /\ LengthIn(cur', world.lengths)
    BY <1>3, <2>1, <2>3, <2>4 DEF MarkedIn, LengthIn
  <2>6. MarkedIn(file, queued') /\ LengthIn(file, world.lengths)
    BY <2>2, StaysQueued DEF PlayFacts
  <2>7. MarkedIn(file', queued') /\ LengthIn(file', world.lengths)
    BY <2>1, <2>4, <2>5, <2>6, FactsKept
  <2>8. MarkedIn(None, queued') /\ LengthIn(None, world.lengths)
    BY DEF MarkedIn, LengthIn
  <2>9. QED
    BY <1>4, <2>5, <2>7, <2>8 DEF PlayFacts
<1>7. QED
  BY <1>4, <1>5, <1>6

LEMMA QuietFacts ==
  ASSUME Types, PlayFacts, ~world.otherThings, NEW dt \in 1 .. MaxStep, GapPoll(dt)
  PROVE  PlayFacts'
<1> DEFINE t == now + dt
<1>1. t \in Nat
  BY Constants DEF Types
<1>2. PICK g \in Gaps : UpdateGap(g, t)
  BY DEF GapPoll
<1>3. world' = world
  BY DEF GapPoll
<1> HIDE DEF t
<1>4. /\ resume' = resume
      /\ \/ cur = None /\ UNCHANGED <<queued, file, cur>>
         \/ QuietEnds(t)
         \/ QuietLasts(t)
  BY <1>1, <1>2, QuietOutcome
<1>5. CASE UNCHANGED <<queued, file, cur>>
  BY <1>3, <1>4, <1>5 DEF PlayFacts
<1>6. CASE QuietEnds(t)
  <2>1. cur' = None /\ queued \subseteq queued' /\ file' \in {None, file}
    BY <1>6 DEF QuietEnds
  <2>2. MarkedIn(resume, queued') /\ MarkedIn(file, queued')
    BY <2>1, StaysQueued DEF PlayFacts
  <2>3. MarkedIn(None, queued') /\ LengthIn(None, world.lengths)
    BY DEF MarkedIn, LengthIn
  <2>4. QED
    BY <1>3, <1>4, <2>1, <2>2, <2>3 DEF PlayFacts
<1>7. CASE QuietLasts(t)
  <2>1. cur # None /\ cur \in Play /\ queued' = queued
    BY <1>7 DEF QuietLasts, Types
  <2>2. /\ cur' \in Play /\ cur'.song = cur.song /\ cur'.dur = cur.dur
        /\ cur'.started = cur.started /\ cur'.banked = cur.banked
        /\ \/ file' = file
           \/ /\ file'.song = cur.song /\ file'.started = cur.started
              /\ file'.dur = cur.dur /\ file'.banked = cur.banked
    BY <1>1, <1>7, <2>1, QuietFields
  <2>3. MarkedIn(cur', queued) /\ LengthIn(cur', world.lengths)
    BY <2>1, <2>2 DEF PlayFacts, MarkedIn, LengthIn
  <2>4. MarkedIn(file', queued) /\ LengthIn(file', world.lengths)
    BY <2>1, <2>2, FactsKept DEF PlayFacts
  <2>5. QED
    BY <1>3, <1>4, <2>1, <2>3, <2>4 DEF PlayFacts
<1>8. QED
  BY <1>4, <1>5, <1>6, <1>7

LEMMA ShutdownFacts ==
  ASSUME Types, PlayFacts, Shutdown
  PROVE  PlayFacts'
<1>1. /\ cur' = None /\ resume' = None /\ world' = world
      /\ queued' = queued \cup Banked(cur) /\ queued \subseteq queued'
  BY DEF Shutdown
<1>2. MarkedIn(None, queued') /\ LengthIn(None, world.lengths)
  BY DEF MarkedIn, LengthIn
<1>3. MarkedIn(file, queued') /\ LengthIn(file, world.lengths)
  BY <1>1, StaysQueued DEF PlayFacts
<1>4. CASE cur = None
  <2>1. file' \in {None, file}
    BY <1>4 DEF Shutdown, Written
  <2>2. QED
    BY <1>1, <1>2, <1>3, <2>1 DEF PlayFacts
<1>5. CASE cur # None
  <2> DEFINE p == [cur EXCEPT !.banked = @ \/ MustBank(cur)]
  <2>1. file' \in {file, Saved(p, now)}
    BY <1>5 DEF Shutdown, Written
  <2>2. /\ cur \in Play /\ now \in Nat
        /\ (cur.banked \/ MustBank(cur)) \in BOOLEAN
    BY <1>5, Zenon DEF Types
  <2>3. /\ p \in Play /\ p.started = cur.started /\ p.song = cur.song /\ p.dur = cur.dur
        /\ p.banked = (cur.banked \/ MustBank(cur))
    BY <2>2 DEF Play
  <2>4. p # None
    BY <2>3, NoneIsNoPlay
  <2>5. MarkedIn(p, queued')
    <3>1. SUFFICES ASSUME p.banked
                   PROVE  InQueue(cur.started, queued')
      BY <2>3 DEF MarkedIn
    <3>2. CASE cur.banked
      BY <1>1, <1>5, <3>2, StaysQueued DEF PlayFacts, MarkedIn
    <3>3. CASE MustBank(cur)
      <4>1. Counting(cur, cur.started)
        BY <3>3 DEF MustBank, Counting
      <4>2. MarkedIn(cur, queued)
        BY DEF PlayFacts
      <4>3. QED
        BY <1>1, <4>1, <4>2, BankedOne
    <3>4. QED
      BY <2>3, <3>1, <3>2, <3>3
  <2>6. LengthIn(p, world.lengths)
    BY <1>5, <2>3 DEF PlayFacts, LengthIn
  <2> HIDE DEF p
  <2>7. /\ Saved(p, now).started = p.started /\ Saved(p, now).dur = p.dur
        /\ Saved(p, now).banked = p.banked /\ Saved(p, now).song = p.song
    BY <2>2, <2>3, SavedType, SavedFields
  <2>8. MarkedIn(file', queued') /\ LengthIn(file', world.lengths)
    BY <1>3, <2>1, <2>4, <2>5, <2>6, <2>7, FactsKept
  <2>9. QED
    BY <1>1, <1>2, <2>8 DEF PlayFacts
<1>6. QED
  BY <1>4, <1>5

LEMMA FactsStep ==
  ASSUME Types, Matches, PlayFacts, ~world.otherThings, [Next]_vars
  PROVE  PlayFacts'
<1>1. ASSUME NEW dt \in 1 .. MaxStep, SongPoll(dt)
      PROVE  PlayFacts'
  <2>1. PICK s \in SongShown : Polled(s, dt)
    BY <1>1, SongPollShows
  <2>2. world' = world
    BY <1>1 DEF SongPoll
  <2>3. QED
    BY <2>1, <2>2, PolledFacts
<1>2. ASSUME NEW dt \in 1 .. MaxStep, GapPoll(dt)
      PROVE  PlayFacts'
  BY <1>2, QuietFacts
<1>3. MarkedIn(None, queued) /\ LengthIn(None, world.lengths)
  BY DEF MarkedIn, LengthIn
<1>4. ASSUME cur' = None, resume' = None, file' \in {None, file},
             queued' = queued, world' = world
      PROVE  PlayFacts'
  BY <1>3, <1>4 DEF PlayFacts
<1>5. ASSUME NEW dt \in 1 .. MaxStep, GatedPoll(dt)
      PROVE  PlayFacts'
  BY <1>4, <1>5 DEF GatedPoll, DropPlay, Written
<1>6. ASSUME NEW a \in Accounts \cup {NoAccount}, Reconfigure(a)
      PROVE  PlayFacts'
  BY <1>4, <1>6 DEF Reconfigure, DropPlay, Written
<1>7. CASE Shutdown
  BY <1>7, ShutdownFacts
<1>8. CASE Crash
  BY <1>4, <1>8 DEF Crash
<1>9. CASE Start
  <2>1. cur' = cur /\ resume' = file /\ UNCHANGED <<world, file, queued>>
    BY <1>9 DEF Start
  <2>2. QED
    BY <2>1 DEF PlayFacts
<1>10. CASE UNCHANGED vars
  BY <1>10 DEF vars, PlayFacts
<1>11. QED
  BY <1>1, <1>2, <1>5, <1>6, <1>7, <1>8, <1>9, <1>10 DEF Next

LEMMA FactsInit == Init => PlayFacts
  BY DEF Init, PlayFacts, MarkedIn, LengthIn

(* The play in progress follows the listener, and its mark and its length
   are true, where only songs are shown.                                   *)
LEMMA FactsAlways ==
  Spec => [](Types /\ (~world.otherThings => Matches /\ PlayFacts))
<1>1. Init => (~world.otherThings => PlayFacts)
  BY FactsInit
<1>2. Types /\ (~world.otherThings => Matches) /\ (~world.otherThings => PlayFacts) /\ [Next]_vars
        => (~world.otherThings => PlayFacts)'
  BY FactsStep, WorldKept
<1>3. QED
  BY <1>1, <1>2, MatchesAlways, PTL DEF Spec

(* What counted is in the queue, or in the play that goes on.              *)
LEMMA EndsEarned ==
  ASSUME Types, Matches, PlayFacts, NEW s \in SongShown, NEW t \in Nat, Ends(s, t),
         NEW b, Counting(cur, b) \/ Counting(resume, b)
  PROVE  InQueue(b, queued')
<1> DEFINE p == Compared(s, t)
           Q == queued \cup Banked(Closed(s, t))
<1>1. queued' = Q \cup Banked(p) /\ ~(SameSong(p, s) /\ ~StartsOver(p, s))
  BY DEF Ends, PlayBegins
<1>2. MarkedIn(p, queued)
  BY ComparedMarked
<1>3. MarkedIn(p, Q)
  BY <1>2, StaysQueued
<1> HIDE DEF Q
<1>4. CASE ~Carries(s, t) /\ Counting(cur, b)
  <2>1. cur # None /\ cur.started = b /\ Counts(cur.played, cur.dur)
    BY <1>4 DEF Counting
  <2>2. /\ p # None /\ p.started = cur.started /\ p.played = cur.played /\ p.dur = cur.dur
    BY <1>4, <2>1, ComparedType DEF Types
  <2>3. Counting(p, b)
    BY <2>1, <2>2 DEF Counting
  <2>4. QED
    BY <1>1, <1>3, <2>3, BankedOne
<1>5. CASE ~Carries(s, t) /\ Counting(resume, b)
  <2>1. Closed(s, t) = resume
    BY <1>5 DEF Closed
  <2>2. MarkedIn(resume, queued)
    BY DEF PlayFacts
  <2>3. InQueue(b, Q)
    BY <1>5, <2>1, <2>2, BankedOne DEF Q
  <2>4. QED
    BY <1>1, <2>3, StaysQueued
<1>6. CASE Carries(s, t)
  <2>1. resume # None /\ cur = None
    BY <1>6 DEF Carries, Matches
  <2>2. Counting(resume, b)
    BY <2>1 DEF Counting
  <2>3. p # None /\ p.started = resume.started
    BY <1>6, ComparedType DEF Types
  <2>4. p.song = s.song /\ p.album = s.album
    BY <1>6, ComparedFields DEF Types
  <2>5. StartsOver(p, s)
    BY <1>1, <2>3, <2>4 DEF SameSong
  <2>6. Counts(p.played, p.dur)
    BY <2>5 DEF StartsOver, IsReplay
  <2>7. Counting(p, b)
    BY <2>2, <2>3, <2>6 DEF Counting
  <2>8. QED
    BY <1>1, <1>3, <2>7, BankedOne
<1>7. QED
  BY <1>4, <1>5, <1>6 DEF Counting

LEMMA LastsEarned ==
  ASSUME Types, Matches, PlayFacts, NEW s \in SongShown, NEW t \in Nat, NEW dt \in Nat,
         Lasts(s, t, dt), NEW b, Counting(cur, b) \/ Counting(resume, b)
  PROVE  InQueue(b, queued') \/ cur'.started = b
<1>1. /\ cur'.started = Compared(s, t).started
      /\ queued' = queued \cup Banked(Closed(s, t))
      /\ Compared(s, t) # None
  BY LastsFields, NoneIsNoPlay DEF Lasts
<1>2. CASE ~Carries(s, t) /\ Counting(cur, b)
  <2>1. Compared(s, t).started = cur.started
    BY <1>1, <1>2, ComparedType DEF Types
  <2>2. QED
    BY <1>1, <1>2, <2>1 DEF Counting
<1>3. CASE ~Carries(s, t) /\ Counting(resume, b)
  <2>1. Closed(s, t) = resume
    BY <1>3 DEF Closed
  <2>2. MarkedIn(resume, queued)
    BY DEF PlayFacts
  <2>3. QED
    BY <1>1, <1>3, <2>1, <2>2, BankedOne
<1>4. CASE Carries(s, t)
  <2>1. cur = None
    BY <1>4 DEF Carries, Matches
  <2>2. Counting(resume, b)
    BY <2>1 DEF Counting
  <2>3. Compared(s, t).started = resume.started
    BY <1>4, ComparedType DEF Types
  <2>4. QED
    BY <1>1, <2>2, <2>3 DEF Counting
<1>5. QED
  BY <1>2, <1>3, <1>4

(* What counts is written when it first does.                              *)
LEMMA LastsStored ==
  ASSUME Types, Matches, PlayFacts, Stored, SafeInACrash, world.crashes,
         NEW s \in SongShown, s.len \in world.lengths[s.song],
         NEW t \in Nat, NEW dt \in Nat, Lasts(s, t, dt),
         NEW b \in Nat, Counting(cur', b)
  PROVE  InQueue(b, queued') \/ Counting(file', b)
<1> DEFINE p == Compared(s, t)
           q == Heard(p, s, t, dt)
<1>1. /\ p \in Play /\ p # None /\ SameSong(p, s) /\ Keep(p, q, t)
      /\ queued \subseteq queued'
  BY NoneIsNoPlay DEF Lasts
<1>2. q \in Play /\ q.started = p.started
  BY <1>1, HeardType
<1> HIDE DEF q
<1>3. cur'.started = q.started /\ cur'.played = q.played /\ cur'.dur = q.dur
  BY <1>1, <1>2, KeepFields
<1>4. q.started = b /\ Counts(q.played, q.dur)
  BY <1>3 DEF Counting
<1>5. file' = Saved(q, t) \/ (file' = file /\ Counts(p.played, p.dur))
  <2>1. ~world.writesMayFail
    BY DEF SafeInACrash
  <2>2. QED
    BY <1>1, <1>2, <1>4, <2>1, KeepFile
<1>6. CASE file' = Saved(q, t)
  <2>1. /\ Saved(q, t) \in Record /\ Saved(q, t).started = q.started
        /\ Saved(q, t).played = q.played /\ Saved(q, t).dur = q.dur
    BY <1>2, SavedType
  <2>2. QED
    BY <1>4, <1>6, <2>1, NoneIsNoPlay DEF Counting
<1>7. CASE file' = file /\ Counts(p.played, p.dur) /\ Carries(s, t)
  <2>1. resume # None /\ file = resume /\ resume.song = s.song
    BY <1>7 DEF Carries, Matches
  <2>2. p.started = resume.started /\ p.played = resume.played /\ p.dur = s.len
    BY <1>7, ComparedType, ComparedFields DEF Types
  <2>3. resume.dur = s.len
    <3>1. resume.dur \in world.lengths[s.song] /\ s.song \in Songs
      BY <2>1 DEF PlayFacts, LengthIn, SongShown
    <3>2. QED
      BY <3>1 DEF SafeInACrash
  <2>4. QED
    BY <1>2, <1>4, <1>7, <2>1, <2>2, <2>3 DEF Counting
<1>8. CASE file' = file /\ Counts(p.played, p.dur) /\ ~Carries(s, t)
  <2>1. /\ cur # None /\ p.started = cur.started /\ p.played = cur.played
        /\ p.dur = cur.dur
    BY <1>1, <1>8, ComparedType DEF Types
  <2>2. Counting(cur, b)
    BY <1>2, <1>4, <1>8, <2>1 DEF Counting
  <2>3. InQueue(b, queued) \/ Counting(file, b)
    BY <2>2 DEF Stored
  <2>4. QED
    BY <1>1, <1>8, <2>3, StaysQueued
<1>9. QED
  BY <1>5, <1>6, <1>7, <1>8

LEMMA PolledEarned ==
  ASSUME Types, Types', Matches, PlayFacts, up, up' = up, EarnedKept, Earning,
         NEW dt \in 1 .. MaxStep, NEW s \in SongShown, Polled(s, dt)
  PROVE  EarnedKept'
<1> DEFINE t == now + dt
<1>1. t \in Nat /\ dt \in Nat /\ UpdateSong(s, t, dt)
  BY Constants DEF Types, Polled
<1> HIDE DEF t
<1>2. resume' = None /\ (Ends(s, t) \/ Lasts(s, t, dt))
  BY <1>1, SongOutcome
<1>3. cur' \in Play
  <2>1. CASE Ends(s, t)
    <3>1. PlayBegins(Compared(s, t), s, t)
      BY <2>1 DEF Ends
    <3>2. QED
      BY <1>1, <3>1, BeginsFields
  <2>2. CASE Lasts(s, t, dt)
    BY <1>1, <2>2, LastsFields
  <2>3. QED
    BY <1>2, <2>1, <2>2
<1>4. queued \subseteq queued'
  BY <1>2 DEF Ends, PlayBegins, Lasts
<1>5. cur' # None
  BY <1>3, NoneIsNoPlay
<1>6. ASSUME NEW b \in earned'
      PROVE  InQueue(b, queued') \/ Counting(cur', b)
  <2>1. CASE b = cur'.started
    <3>1. Counts(cur'.played, cur'.dur)
      BY <1>6, <2>1 DEF Earning
    <3>2. QED
      BY <1>5, <2>1, <3>1 DEF Counting
  <2>2. CASE b # cur'.started
    <3>1. b \in earned
      BY <1>6, <2>2 DEF Earning
    <3>2. InQueue(b, queued) \/ Counting(cur, b) \/ Counting(resume, b)
      BY <3>1 DEF EarnedKept
    <3>3. CASE InQueue(b, queued)
      BY <1>4, <3>3, StaysQueued
    <3>4. CASE Counting(cur, b) \/ Counting(resume, b)
      BY <1>1, <1>2, <2>2, <3>4, EndsEarned, LastsEarned
    <3>5. QED
      BY <3>2, <3>3, <3>4
  <2>3. QED
    BY <2>1, <2>2
<1>7. QED
  BY <1>6 DEF EarnedKept

LEMMA PolledStored ==
  ASSUME Types, Types', Matches, PlayFacts, Stored, SafeInACrash, world' = world,
         NEW dt \in 1 .. MaxStep, NEW s \in SongShown, Polled(s, dt)
  PROVE  Stored'
<1> DEFINE t == now + dt
<1>1. t \in Nat /\ dt \in Nat /\ UpdateSong(s, t, dt) /\ s.len \in world.lengths[s.song]
  BY Constants DEF Types, Polled, ShownOf
<1> HIDE DEF t
<1>2. Ends(s, t) \/ Lasts(s, t, dt)
  BY <1>1, SongOutcome
<1>3. SUFFICES ASSUME world.crashes, NEW b \in Nat, Counting(cur', b)
               PROVE  InQueue(b, queued') \/ Counting(file', b)
  BY DEF Stored
<1>4. CASE Ends(s, t)
  <2>1. PlayBegins(Compared(s, t), s, t)
    BY <1>4 DEF Ends
  <2>2. cur' \in Play /\ cur'.played = 0
    BY <1>1, <2>1, BeginsFields
  <2>3. Counts(0, cur'.dur) /\ cur'.dur \in Nat
    BY <1>3, <2>2 DEF Counting, Play
  <2>4. 0 > 0
    BY <2>3, CountsNeeds
  <2>5. QED
    BY <2>4
<1>5. CASE Lasts(s, t, dt)
  BY <1>1, <1>3, <1>5, LastsStored
<1>6. QED
  BY <1>2, <1>4, <1>5

LEMMA QuietEarned ==
  ASSUME Types, Matches, PlayFacts, EarnedKept, Stored, ~world.otherThings,
         NEW dt \in 1 .. MaxStep, GapPoll(dt)
  PROVE  EarnedKept' /\ Stored'
<1> DEFINE t == now + dt
<1>1. t \in Nat /\ cur \in Play \cup {None}
  BY Constants DEF Types
<1>2. PICK g \in Gaps : UpdateGap(g, t)
  BY DEF GapPoll
<1>3. UNCHANGED <<world, up, earned>>
  BY DEF GapPoll
<1> HIDE DEF t
<1>4. /\ resume' = resume
      /\ \/ cur = None /\ UNCHANGED <<queued, file, cur>>
         \/ QuietEnds(t)
         \/ QuietLasts(t)
  BY <1>1, <1>2, QuietOutcome
<1>5. CASE UNCHANGED <<queued, file, cur>>
  BY <1>3, <1>4, <1>5 DEF EarnedKept, Stored
<1>6. CASE QuietEnds(t)
  <2>1. cur' = None /\ queued' = queued \cup Banked(cur) /\ up /\ up'
    BY <1>3, <1>6 DEF QuietEnds, Matches
  <2>2. MarkedIn(cur, queued)
    BY DEF PlayFacts
  <2>3. \A b : InQueue(b, queued) \/ Counting(cur, b) => InQueue(b, queued')
    BY <2>1, <2>2, BankedOne, StaysQueued
  <2>4. EarnedKept'
    BY <1>3, <1>4, <2>1, <2>3 DEF EarnedKept
  <2>5. Stored'
    BY <2>1 DEF Stored, Counting
  <2>6. QED
    BY <2>4, <2>5
<1>7. CASE QuietLasts(t)
  <2>1. cur # None /\ cur \in Play /\ queued' = queued /\ up /\ up'
    BY <1>1, <1>3, <1>7 DEF QuietLasts, Matches
  <2>2. /\ cur' \in Play /\ cur'.started = cur.started
        /\ cur'.played = cur.played /\ cur'.dur = cur.dur
        /\ \/ file' = file
           \/ /\ file' \in Record /\ file'.started = cur.started
              /\ file'.played = cur.played /\ file'.dur = cur.dur
    BY <1>1, <1>7, <2>1, QuietFields
  <2>3. \A b : Counting(cur', b) <=> Counting(cur, b)
    BY <2>1, <2>2, NoneIsNoPlay DEF Counting
  <2>4. EarnedKept'
    BY <1>3, <1>4, <2>1, <2>3 DEF EarnedKept
  <2>5. \A b : Counting(cur, b) => file' = file \/ Counting(file', b)
    BY <2>2, NoneIsNoPlay DEF Counting
  <2>6. Stored'
    BY <1>3, <2>1, <2>3, <2>5 DEF Stored
  <2>7. QED
    BY <2>4, <2>6
<1>8. QED
  BY <1>4, <1>5, <1>6, <1>7

LEMMA ShutdownEarned ==
  ASSUME Types, Matches, PlayFacts, EarnedKept, Shutdown
  PROVE  EarnedKept' /\ Stored'
<1>1. /\ up /\ ~up' /\ cur' = None /\ resume' = None
      /\ queued' = queued \cup Banked(cur) /\ earned' = earned
  BY DEF Shutdown
<1>2. Stored'
  BY <1>1 DEF Stored, Counting
<1>3. MarkedIn(cur, queued)
  BY DEF PlayFacts
<1>4. \A b : InQueue(b, queued) \/ Counting(cur, b) => InQueue(b, queued')
  BY <1>1, <1>3, BankedOne, StaysQueued
<1>5. \A b : Counting(resume, b) => Counting(file', b)
  <2>1. CASE resume = None
    BY <2>1 DEF Counting
  <2>2. CASE resume # None
    <3>1. cur = None /\ file = resume
      BY <2>2 DEF Matches
    <3>2. file' = file
      BY <2>2, <3>1 DEF Shutdown
    <3>3. QED
      BY <3>1, <3>2
  <2>3. QED
    BY <2>1, <2>2
<1>6. EarnedKept'
  BY <1>1, <1>4, <1>5 DEF EarnedKept
<1>7. QED
  BY <1>2, <1>6

(* The user's cut gives up what is not in the queue.                       *)
LEMMA DropEarned ==
  ASSUME GiveUp, cur' = None, queued' = queued
  PROVE  EarnedKept' /\ Stored'
<1>1. Stored'
  BY DEF Stored, Counting
<1>2. EarnedKept'
  BY DEF EarnedKept, GiveUp, InQueue
<1>3. QED
  BY <1>1, <1>2

LEMMA EarnedStep ==
  ASSUME Types, Types', Matches, PlayFacts, ~world.otherThings, SafeInACrash,
         EarnedKept, Stored, [Next]_vars
  PROVE  EarnedKept' /\ Stored'
<1>1. ASSUME NEW dt \in 1 .. MaxStep, SongPoll(dt)
      PROVE  EarnedKept' /\ Stored'
  <2>1. PICK s \in SongShown : Polled(s, dt)
    BY <1>1, SongPollShows
  <2>2. up /\ up' = up /\ world' = world /\ Earning
    BY <1>1 DEF SongPoll
  <2>3. QED
    BY <2>1, <2>2, PolledEarned, PolledStored
<1>2. ASSUME NEW dt \in 1 .. MaxStep, GapPoll(dt)
      PROVE  EarnedKept' /\ Stored'
  BY <1>2, QuietEarned
<1>3. ASSUME NEW dt \in 1 .. MaxStep, GatedPoll(dt)
      PROVE  EarnedKept' /\ Stored'
  <2>1. cur' = None /\ queued' = queued /\ GiveUp
    BY <1>3 DEF GatedPoll, DropPlay
  <2>2. QED
    BY <2>1, DropEarned
<1>4. ASSUME NEW a \in Accounts \cup {NoAccount}, Reconfigure(a)
      PROVE  EarnedKept' /\ Stored'
  <2>1. cur' = None /\ queued' = queued /\ GiveUp
    BY <1>4 DEF Reconfigure, DropPlay
  <2>2. QED
    BY <2>1, DropEarned
<1>5. CASE Shutdown
  BY <1>5, ShutdownEarned
<1>6. CASE Crash
  <2>1. /\ world.crashes /\ up /\ ~up' /\ cur' = None /\ resume' = None
        /\ UNCHANGED <<file, queued, earned>>
    BY <1>6 DEF Crash
  <2>2. \A b \in Nat : Counting(cur, b) => InQueue(b, queued) \/ Counting(file, b)
    BY <2>1 DEF Stored
  <2>3. \A b : Counting(resume, b) => Counting(file, b)
    BY DEF Matches, Counting
  <2>4. earned \subseteq Nat
    BY DEF Types
  <2>5. EarnedKept'
    BY <2>1, <2>2, <2>3, <2>4 DEF EarnedKept
  <2>6. Stored'
    BY <2>1 DEF Stored, Counting
  <2>7. QED
    BY <2>5, <2>6
<1>7. CASE Start
  <2>1. /\ ~up /\ up' /\ resume' = file
        /\ UNCHANGED <<world, cur, file, queued, earned>>
    BY <1>7 DEF Start
  <2>2. cur = None /\ resume = None
    BY <2>1 DEF Matches
  <2>3. EarnedKept'
    BY <2>1, <2>2 DEF EarnedKept, Counting
  <2>4. Stored'
    BY <2>1, <2>2 DEF Stored, Counting
  <2>5. QED
    BY <2>3, <2>4
<1>8. CASE UNCHANGED vars
  BY <1>8 DEF vars, EarnedKept, Stored
<1>9. QED
  BY <1>1, <1>2, <1>3, <1>4, <1>5, <1>6, <1>7, <1>8 DEF Next

(* What has counted is never lost: it is queued, in progress or in the file,
   over every quit, and over every crash where the file can be written and
   the song comes back with the length it had.                             *)
THEOREM CountedIsKept == Spec => [](SafeInACrash => CountedSongSurvives)
<1> DEFINE Inv == ~world.otherThings /\ SafeInACrash => EarnedKept /\ Stored
<1>1. Init => Inv
  BY DEF Init, EarnedKept, Stored, Counting
<1>2. Types /\ Types' /\ (~world.otherThings => Matches /\ PlayFacts) /\ Inv /\ [Next]_vars
        => Inv'
  <2>1. SUFFICES ASSUME Types, Types', ~world.otherThings => Matches /\ PlayFacts, Inv,
                        [Next]_vars, ~world'.otherThings, SafeInACrash'
                 PROVE  EarnedKept' /\ Stored'
    OBVIOUS
  <2>2. ~world.otherThings /\ SafeInACrash
    BY <2>1, WorldKept DEF SafeInACrash
  <2>3. QED
    BY <2>1, <2>2, EarnedStep
<1>3. Inv => (SafeInACrash => CountedSongSurvives)
  BY DEF EarnedKept, InQueue, Counting, CountedSongSurvives, CountedSurvives
<1> HIDE DEF Inv
<1>4. QED
  BY <1>1, <1>2, <1>3, FactsAlways, TypesAlways, PTL DEF Spec

-----------------------------------------------------------------------------
(* One listen, one beginning: over restarts too.                           *)

Restarts == world.quits \/ world.crashes

(* Where Refrain may be quit or die, it finds the file as it left it and
   the song under the name it had, and where time has taken it to.         *)
FoundAgain ==
  Restarts => ~world.lateAlbum /\ ~world.writesMayFail /\ world.seekTo = {}

(* p is the play of the listen l that began at b.                          *)
Of(p, l, b) == p # None /\ p.listen = l /\ p.started = b

QueuedAs(l, b, Q) == \E r \in Q : r.listen = l /\ r.started = b

(* The listen l has had a play that began at b: it is queued, in progress,
   or in the file that a restart would read.                               *)
Had(l, b) ==
  \/ QueuedAs(l, b, queued)
  \/ Of(cur, l, b)
  \/ Of(resume, l, b)
  \/ Restarts /\ Of(file, l, b)

(* The one play that may go on for the listen under way.                   *)
Holder == IF ~up THEN file ELSE IF cur # None THEN cur ELSE resume

OneBeginning == \A l, b, c \in Nat : Had(l, b) /\ Had(l, c) => b = c

Numbered == \A l, b \in Nat : Had(l, b) => l <= heard.number

HeldNow ==
  ~heard.over => \A l, b \in Nat : l = heard.number /\ Had(l, b) => Of(Holder, l, b)

(* A play that is queued while it is in progress is in the file: Refrain
   will find that it was queued.                                           *)
QueuedIsOnFile ==
  Restarts /\ cur # None /\ (\E b \in Nat : QueuedAs(cur.listen, b, queued))
    => Of(file, cur.listen, cur.started)

(* The saved play f is that of the listen h, which has since gone on, at n.*)
HeardIn(f, h, n) ==
  /\ f.song = h.song /\ f.album = h.album
  /\ f.at <= n
  /\ f.pos = None \/ (f.pos <= h.pos /\ h.pos <= f.pos + (n - f.at))

FileIsHeard ==
  Restarts /\ file # None /\ ~heard.over /\ file.listen = heard.number
    => HeardIn(file, heard, now)

OnceInv ==
  /\ ~up \/ resume # None => Restarts
  /\ OneBeginning /\ Numbered /\ HeldNow
  /\ QueuedIsOnFile /\ FileIsHeard

LEMMA HeardInLater ==
  ASSUME NEW f \in Record, NEW h \in Listen, NEW k \in Listen, NEW n \in Nat, NEW dt \in Nat,
         HeardIn(f, h, n), k.song = h.song, k.album = h.album,
         k.pos \in {h.pos, h.pos + dt}
  PROVE  HeardIn(f, k, n + dt)
<1>1. f.at \in Nat /\ h.pos \in Nat /\ k.pos \in Nat /\ f.pos \in Nat \cup {None}
  BY DEF Record, Listen, Position
<1>2. f.at <= n + dt
  BY <1>1 DEF HeardIn
<1>3. CASE f.pos = None
  BY <1>2, <1>3 DEF HeardIn
<1>4. CASE f.pos # None
  <2>1. f.pos \in Nat /\ f.pos <= h.pos /\ h.pos <= f.pos + (n - f.at)
    BY <1>1, <1>4 DEF HeardIn
  <2>2. f.pos <= k.pos /\ k.pos <= f.pos + ((n + dt) - f.at)
    BY <1>1, <2>1
  <2>3. QED
    BY <1>2, <2>2 DEF HeardIn
<1>5. QED
  BY <1>3, <1>4

LEMMA HeardInNow ==
  ASSUME NEW f, NEW h \in Listen, NEW n \in Nat,
         f.song = h.song, f.album = h.album, f.at = n, f.pos \in {None, h.pos}
  PROVE  HeardIn(f, h, n)
<1>1. h.pos \in Nat
  BY DEF Listen
<1>2. f.pos = None \/ (f.pos <= h.pos /\ h.pos <= f.pos + (n - f.at))
  BY <1>1
<1>3. QED
  BY <1>2 DEF HeardIn

LEMMA BankedOf ==
  ASSUME NEW p, NEW l, NEW b, NEW Q, QueuedAs(l, b, Q \cup Banked(p))
  PROVE  QueuedAs(l, b, Q) \/ Of(p, l, b)
<1>1. PICK r \in Q \cup Banked(p) : r.listen = l /\ r.started = b
  BY DEF QueuedAs
<1>2. CASE r \in Q
  BY <1>1, <1>2 DEF QueuedAs
<1>3. CASE r \in Banked(p)
  <2>1. p # None /\ r = Row(p)
    BY <1>3 DEF Banked, MustBank
  <2>2. r.listen = p.listen /\ r.started = p.started
    BY <2>1 DEF Row
  <2>3. QED
    BY <1>1, <2>1, <2>2 DEF Of
<1>4. QED
  BY <1>1, <1>2, <1>3

(* The play a poll is compared with is the one in progress, or the saved
   one.                                                                    *)
LEMMA ComparedOf ==
  ASSUME Types, NEW s \in SongShown, NEW t \in Nat, NEW l, NEW b
  PROVE  /\ Carries(s, t) => (Of(Compared(s, t), l, b) <=> Of(resume, l, b))
         /\ ~Carries(s, t) => (Of(Compared(s, t), l, b) <=> Of(cur, l, b))
<1> DEFINE p == Compared(s, t)
<1>1. CASE Carries(s, t)
  <2>1. resume # None /\ p # None /\ p.started = resume.started
    BY <1>1, ComparedType DEF Carries, Types
  <2>2. p.listen = resume.listen
    BY <1>1, ComparedFields DEF Types
  <2>3. QED
    BY <1>1, <2>1, <2>2 DEF Of
<1>2. CASE ~Carries(s, t) /\ cur # None
  <2>1. p # None /\ p.started = cur.started
    BY <1>2, ComparedType DEF Types
  <2>2. p.listen = cur.listen
    BY <1>2, ComparedFields DEF Types
  <2>3. QED
    BY <1>2, <2>1, <2>2 DEF Of
<1>3. CASE ~Carries(s, t) /\ cur = None
  <2>1. p = None
    BY <1>3, ComparedType DEF Types
  <2>2. QED
    BY <1>3, <2>1 DEF Of
<1>4. QED
  BY <1>1, <1>2, <1>3

(* Nothing new has begun, ...                                              *)
LEMMA NothingNew ==
  ASSUME Types, Types', OneBeginning, Numbered, heard.number <= heard'.number,
         \A l, b \in Nat : Had(l, b)' => Had(l, b)
  PROVE  OneBeginning' /\ Numbered'
<1>1. heard.number \in Nat /\ heard'.number \in Nat
  BY DEF Types, Listen
<1>2. OneBeginning'
  BY DEF OneBeginning
<1>3. \A l, b \in Nat : Had(l, b)' => l <= heard'.number
  <2>1. TAKE l, b \in Nat
  <2>2. HAVE Had(l, b)'
  <2>3. l <= heard.number
    BY <2>2 DEF Numbered
  <2>4. QED
    BY <1>1, <2>3
<1>4. QED
  BY <1>2, <1>3 DEF Numbered

(* ... or the play that has is the first of its listen.                    *)
LEMMA FirstOfItsListen ==
  ASSUME Types, Types', OneBeginning, Numbered, heard.number <= heard'.number,
         NEW t,
         \A l, b \in Nat : Had(l, b)' => Had(l, b) \/ (l = heard'.number /\ b = t),
         \A b \in Nat : ~Had(heard'.number, b)
  PROVE  OneBeginning' /\ Numbered'
<1>1. heard.number \in Nat /\ heard'.number \in Nat
  BY DEF Types, Listen
<1>2. ASSUME NEW l \in Nat, NEW b \in Nat, NEW c \in Nat, Had(l, b)', Had(l, c)'
      PROVE  b = c
  <2>1. CASE l = heard'.number
    BY <1>2, <2>1
  <2>2. CASE l # heard'.number
    <3>1. Had(l, b) /\ Had(l, c)
      BY <1>2, <2>2
    <3>2. QED
      BY <3>1 DEF OneBeginning
  <2>3. QED
    BY <2>1, <2>2
<1>3. \A l, b \in Nat : Had(l, b)' => l <= heard'.number
  <2>1. TAKE l, b \in Nat
  <2>2. HAVE Had(l, b)'
  <2>3. CASE l = heard'.number
    BY <1>1, <2>3
  <2>4. CASE Had(l, b)
    <3>1. l <= heard.number
      BY <2>4 DEF Numbered
    <3>2. QED
      BY <1>1, <3>1
  <2>5. QED
    BY <2>2, <2>3, <2>4
<1>4. QED
  BY <1>2, <1>3 DEF OneBeginning, Numbered

(* A poll at which a play begins.                                          *)
LEMMA EndsHad ==
  ASSUME Types, NEW s \in SongShown, NEW t \in Nat, Ends(s, t), ShownOf(s, heard'),
         resume' = None, world' = world
  PROVE  /\ cur' # None /\ Of(cur', heard'.number, t) /\ file' \in {None, file}
         /\ \A l, b : QueuedAs(l, b, queued') => Had(l, b)
         /\ \A l, b : Had(l, b)' => Had(l, b) \/ (l = heard'.number /\ b = t)
<1> DEFINE p == Compared(s, t)
           e == Closed(s, t)
<1>1. PlayBegins(p, s, t) /\ s.listen = heard'.number
  BY DEF Ends, ShownOf
<1>2. /\ cur' \in Play /\ cur'.listen = s.listen /\ cur'.started = t
      /\ queued' = (queued \cup Banked(e)) \cup Banked(p)
      /\ file' \in {None, file}
  BY <1>1, BeginsFields
<1>3. cur' # None /\ \A l, b : Of(cur', l, b) <=> l = heard'.number /\ b = t
  BY <1>1, <1>2, NoneIsNoPlay DEF Of
<1>4. \A l, b : Of(p, l, b) => Of(cur, l, b) \/ Of(resume, l, b)
  BY ComparedOf
<1>5. \A l, b : Of(e, l, b) => Of(resume, l, b)
  BY DEF Closed, Of
<1>6. ASSUME NEW l, NEW b, QueuedAs(l, b, queued')
      PROVE  Had(l, b)
  <2>1. QueuedAs(l, b, queued \cup Banked(e)) \/ Of(p, l, b)
    BY <1>2, <1>6, BankedOf
  <2>2. QueuedAs(l, b, queued) \/ Of(e, l, b) \/ Of(p, l, b)
    BY <2>1, BankedOf
  <2>3. QED
    BY <1>4, <1>5, <2>2 DEF Had
<1>7. ASSUME NEW l, NEW b, Had(l, b)'
      PROVE  Had(l, b) \/ (l = heard'.number /\ b = t)
  <2>1. \/ QueuedAs(l, b, queued') \/ Of(cur', l, b) \/ Of(None, l, b)
        \/ Restarts /\ Of(file', l, b)
    BY <1>7 DEF Had, Restarts
  <2>2. ~Of(None, l, b)
    BY DEF Of
  <2>3. CASE Restarts /\ Of(file', l, b)
    BY <1>2, <2>2, <2>3 DEF Had
  <2>4. QED
    BY <1>3, <1>6, <2>1, <2>2, <2>3
<1>8. QED
  BY <1>2, <1>3, <1>6, <1>7

(* A poll at which the play compared goes on.                              *)
LEMMA LastsHad ==
  ASSUME Types, NEW s \in SongShown, NEW t \in Nat, NEW dt \in Nat, Lasts(s, t, dt),
         resume' = None, world' = world
  PROVE  /\ \A l, b : Of(cur', l, b) <=> Of(Compared(s, t), l, b)
         /\ \A l, b : QueuedAs(l, b, queued') => QueuedAs(l, b, queued) \/ Of(Closed(s, t), l, b)
         /\ \A l, b : Had(l, b)' => Had(l, b)
<1> DEFINE p == Compared(s, t)
           e == Closed(s, t)
<1>1. /\ cur' \in Play /\ cur'.listen = p.listen /\ cur'.started = p.started
      /\ \/ file' = file
         \/ file'.listen = cur'.listen /\ file'.started = cur'.started
  BY LastsFields
<1>2. p # None /\ cur' # None /\ queued' = queued \cup Banked(e)
  BY <1>1, NoneIsNoPlay DEF Lasts
<1>3. \A l, b : Of(cur', l, b) <=> Of(p, l, b)
  BY <1>1, <1>2 DEF Of
<1>4. \A l, b : Of(p, l, b) => Of(cur, l, b) \/ Of(resume, l, b)
  BY ComparedOf
<1>5. \A l, b : Of(e, l, b) => Of(resume, l, b)
  BY DEF Closed, Of
<1>6. \A l, b : QueuedAs(l, b, queued') => QueuedAs(l, b, queued) \/ Of(e, l, b)
  BY <1>2, BankedOf
<1>7. ASSUME NEW l, NEW b, Had(l, b)'
      PROVE  Had(l, b)
  <2>1. \/ QueuedAs(l, b, queued') \/ Of(cur', l, b) \/ Of(None, l, b)
        \/ Restarts /\ Of(file', l, b)
    BY <1>7 DEF Had, Restarts
  <2>2. ~Of(None, l, b)
    BY DEF Of
  <2>3. Of(file', l, b) => Of(file, l, b) \/ Of(cur', l, b)
    BY <1>1, <1>2 DEF Of
  <2>4. QED
    BY <1>3, <1>4, <1>5, <1>6, <2>1, <2>2, <2>3 DEF Had
<1>8. QED
  BY <1>3, <1>6, <1>7

LEMMA EndsOnce ==
  ASSUME Types, Types', OnceInv, NEW s \in SongShown, NEW t \in Nat, Ends(s, t),
         ShownOf(s, heard'), resume' = None, world' = world, up, up' = up,
         heard.number <= heard'.number, \A b \in Nat : ~Had(heard'.number, b)
  PROVE  OnceInv'
<1>1. /\ cur' # None /\ Of(cur', heard'.number, t) /\ file' \in {None, file}
      /\ \A l, b : QueuedAs(l, b, queued') => Had(l, b)
      /\ \A l, b : Had(l, b)' => Had(l, b) \/ (l = heard'.number /\ b = t)
  BY EndsHad
<1>2. Restarts' <=> Restarts
  BY DEF Restarts
<1>3. OneBeginning' /\ Numbered'
  BY <1>1, FirstOfItsListen DEF OnceInv
<1>4. HeldNow'
  <2>1. Holder' = cur'
    BY <1>1 DEF Holder
  <2>2. \A l, b \in Nat : l = heard'.number /\ Had(l, b)' => Of(cur', l, b)
    BY <1>1
  <2>3. QED
    BY <2>1, <2>2 DEF HeldNow
<1>5. QueuedIsOnFile'
  <2>1. cur'.listen = heard'.number
    BY <1>1 DEF Of
  <2>2. ~\E b \in Nat : QueuedAs(cur'.listen, b, queued')
    BY <1>1, <2>1
  <2>3. QED
    BY <2>2 DEF QueuedIsOnFile
<1>6. FileIsHeard'
  <2>1. SUFFICES ASSUME Restarts, file' # None, file'.listen = heard'.number
                 PROVE  FALSE
    BY <1>2 DEF FileIsHeard
  <2>2. file' = file /\ file \in Record
    BY <1>1, <2>1 DEF Types
  <2>3. Of(file, heard'.number, file.started) /\ file.started \in Nat
    BY <2>1, <2>2 DEF Of, Record
  <2>4. Had(heard'.number, file.started)
    BY <2>1, <2>3 DEF Had
  <2>5. QED
    BY <2>3, <2>4
<1>7. QED
  BY <1>3, <1>4, <1>5, <1>6 DEF OnceInv

(* What goes on for the listen is what has gone on for it.                 *)
LEMMA LastsHolds ==
  ASSUME Types, Matches, HeldNow, NEW s \in SongShown, NEW t \in Nat, NEW dt \in Nat,
         Lasts(s, t, dt), up, up' = up, ~heard.over,
         \A k, c : Of(cur', k, c) <=> Of(Compared(s, t), k, c),
         NEW l \in Nat, l = heard.number, NEW b \in Nat, Had(l, b)
  PROVE  Of(cur', l, b)
<1>1. Of(Holder, l, b)
  BY DEF HeldNow
<1>2. CASE cur # None
  <2>1. ~Carries(s, t) /\ Of(cur, l, b)
    BY <1>1, <1>2 DEF Carries, Matches, Holder
  <2>2. QED
    BY <2>1, ComparedOf
<1>3. CASE cur = None
  <2>1. Of(resume, l, b)
    BY <1>1, <1>3 DEF Holder
  <2>2. Carries(s, t)
    BY <1>3, ComparedType, NoneIsNoPlay DEF Lasts, Types
  <2>3. QED
    BY <2>1, <2>2, ComparedOf
<1>4. QED
  BY <1>2, <1>3

LEMMA LastsQueued ==
  ASSUME Types, Matches, QueuedIsOnFile, NEW s \in SongShown, NEW t \in Nat, NEW dt \in Nat,
         Lasts(s, t, dt), resume' = None, world' = world
  PROVE  QueuedIsOnFile'
<1> DEFINE p == Compared(s, t)
<1>1. /\ \A l, b : Of(cur', l, b) <=> Of(p, l, b)
      /\ \A l, b : QueuedAs(l, b, queued') => QueuedAs(l, b, queued) \/ Of(Closed(s, t), l, b)
  BY LastsHad
<1>2. /\ cur' \in Play /\ cur' # None
      /\ \/ file' = file
         \/ /\ file' \in Record /\ file'.listen = cur'.listen
            /\ file'.started = cur'.started
  BY LastsFields, NoneIsNoPlay
<1> HIDE DEF p
<1>3. SUFFICES ASSUME Restarts, NEW b \in Nat, QueuedAs(cur'.listen, b, queued'), file' = file
               PROVE  Of(file, cur'.listen, cur'.started)
  BY <1>2, NoneIsNoPlay DEF QueuedIsOnFile, Restarts, Of
<1>4. Of(p, cur'.listen, cur'.started)
  BY <1>1, <1>2 DEF Of
<1>5. CASE Carries(s, t)
  <2>1. file = resume
    BY <1>5 DEF Carries, Matches
  <2>2. QED
    BY <1>4, <1>5, <2>1, ComparedOf DEF p
<1>6. CASE ~Carries(s, t)
  <2>1. Of(cur, cur'.listen, cur'.started)
    BY <1>4, <1>6, ComparedOf DEF p
  <2>2. cur # None /\ resume = None /\ cur'.listen = cur.listen /\ cur'.started = cur.started
    BY <2>1 DEF Of, Matches
  <2>3. Closed(s, t) = None
    BY <2>2 DEF Closed
  <2>4. QueuedAs(cur.listen, b, queued)
    BY <1>1, <1>3, <2>2, <2>3 DEF Of
  <2>5. QED
    BY <1>3, <2>2, <2>4 DEF QueuedIsOnFile
<1>7. QED
  BY <1>5, <1>6

(* What the file holds of the listen is where time has taken it from.      *)
LEMMA LastsFile ==
  ASSUME Types, Types', Matches, Matches', FoundAgain, FileIsHeard, NEW s \in SongShown,
         NEW dt \in 1 .. MaxStep, Lasts(s, now + dt, dt), Continues(s, dt), world' = world,
         now' = now + dt
  PROVE  FileIsHeard'
<1> DEFINE t == now + dt
<1>1. t \in Nat /\ dt \in Nat /\ now \in Nat /\ heard \in Listen /\ heard' \in Listen
  BY Constants DEF Types
<1>2. SUFFICES ASSUME Restarts, file' # None, ~heard'.over, file'.listen = heard'.number
               PROVE  HeardIn(file', heard', t)
  BY DEF FileIsHeard, Restarts
<1>3. /\ cur' \in Play
      /\ \/ file' = file
         \/ /\ file'.song = cur'.song /\ file'.album = cur'.album
            /\ file'.pos = cur'.pos /\ file'.at = t
  BY <1>1, LastsFields
<1>4. cur' # None /\ Fits(cur', heard')
  BY <1>3, NoneIsNoPlay DEF Matches
<1>5. CASE file' = file
  <2>1. /\ file \in Record /\ ~heard.over /\ file.listen = heard.number
    BY <1>2, <1>5 DEF Types, Continues
  <2>2. HeardIn(file, heard, now)
    BY <1>2, <1>5, <2>1 DEF FileIsHeard
  <2>3. heard'.song = heard.song /\ heard'.pos \in {heard.pos, heard.pos + dt}
    BY <1>2 DEF Continues, FoundAgain, Places, SoughtTo
  <2>4. heard'.album = heard.album
    <3>1. heard.album /\ heard'.album
      BY <1>2, <2>1 DEF Matches, FoundAgain
    <3>2. heard.album \in BOOLEAN /\ heard'.album \in BOOLEAN
      BY <1>1 DEF Listen
    <3>3. QED
      BY <3>1, <3>2
  <2>5. QED
    BY <1>1, <1>5, <2>1, <2>2, <2>3, <2>4, HeardInLater
<1>6. CASE /\ file'.song = cur'.song /\ file'.album = cur'.album
           /\ file'.pos = cur'.pos /\ file'.at = t
  <2>1. /\ file'.song = heard'.song /\ file'.album = heard'.album
        /\ file'.pos \in {None, heard'.pos} /\ file'.at = t
    BY <1>4, <1>6 DEF Fits
  <2> HIDE DEF t
  <2>2. QED
    BY <1>1, <2>1, HeardInNow
<1>7. QED
  BY <1>3, <1>5, <1>6

LEMMA NumberGrows ==
  ASSUME heard.number \in Nat, NEW s, NEW dt, Continues(s, dt) \/ BeginsAnew
  PROVE  heard.number <= heard'.number
<1>1. \A n \in Nat : n <= n /\ n <= n + 1
  OBVIOUS
<1>2. QED
  BY <1>1 DEF Continues, BeginsAnew

LEMMA LastsOnce ==
  ASSUME Types, Types', Matches, Matches', FoundAgain, OnceInv, NEW s \in SongShown,
         NEW dt \in 1 .. MaxStep, Lasts(s, now + dt, dt), Continues(s, dt) \/ BeginsAnew,
         resume' = None, world' = world, up, up' = up, now' = now + dt
  PROVE  OnceInv'
<1> DEFINE t == now + dt
<1>1. t \in Nat /\ dt \in Nat /\ heard.number \in Nat /\ heard'.number \in Nat
  BY Constants DEF Types, Listen
<1>2. /\ \A l, b : Of(cur', l, b) <=> Of(Compared(s, t), l, b)
      /\ \A l, b : Had(l, b)' => Had(l, b)
  BY <1>1, LastsHad
<1>3. heard.number <= heard'.number
  BY <1>1, NumberGrows
<1>4. OneBeginning' /\ Numbered'
  BY <1>2, <1>3, NothingNew DEF OnceInv
<1>5. QueuedIsOnFile'
  BY <1>1, LastsQueued DEF OnceInv
<1>6. cur' # None
  BY <1>1, LastsFields, NoneIsNoPlay
<1>7. Holder' = cur'
  BY <1>6 DEF Holder
<1>8. CASE Continues(s, dt)
  <2>1. HeldNow'
    <3>1. ASSUME NEW l \in Nat, NEW b \in Nat, l = heard'.number, Had(l, b)'
          PROVE  Of(cur', l, b)
      <4>1. Had(l, b) /\ l = heard.number /\ ~heard.over
        BY <1>2, <1>8, <3>1 DEF Continues
      <4>2. QED
        BY <1>1, <1>2, <4>1, LastsHolds DEF OnceInv
    <3>2. QED
      BY <1>7, <3>1 DEF HeldNow
  <2>2. FileIsHeard'
    BY <1>8, LastsFile DEF OnceInv
  <2>3. QED
    BY <1>4, <1>5, <2>1, <2>2 DEF OnceInv
<1>9. CASE BeginsAnew
  <2>1. \A l, b \in Nat : Had(l, b)' => l # heard'.number
    <3>1. TAKE l, b \in Nat
    <3>2. HAVE Had(l, b)'
    <3>3. l <= heard.number
      BY <1>2, <3>2 DEF OnceInv, Numbered
    <3>4. heard'.number = heard.number + 1
      BY <1>9 DEF BeginsAnew
    <3>5. QED
      BY <1>1, <3>3, <3>4
  <2>2. HeldNow'
    BY <2>1 DEF HeldNow
  <2>3. FileIsHeard'
    <3>1. SUFFICES ASSUME Restarts, file' # None, file'.listen = heard'.number
                   PROVE  FALSE
      BY DEF FileIsHeard, Restarts
    <3>2. file' \in Record
      BY <3>1 DEF Types
    <3>3. /\ file'.listen \in Nat /\ file'.started \in Nat
          /\ Of(file', file'.listen, file'.started)
      BY <3>1, <3>2 DEF Record, Of
    <3>4. PICK l \in Nat, b \in Nat : l = file'.listen /\ b = file'.started
      BY <3>3
    <3>5. Had(l, b)'
      BY <3>1, <3>3, <3>4 DEF Had, Restarts
    <3>6. QED
      BY <2>1, <3>1, <3>4, <3>5
  <2>4. QED
    BY <1>4, <1>5, <2>2, <2>3 DEF OnceInv
<1>10. QED
  BY <1>8, <1>9

(* The saved play of the listen that goes on is carried on, and goes on.   *)
LEMMA FoundByTheNextRun ==
  ASSUME Types, Types', Matches, Matches', PlayFacts, FoundAgain, OnceInv,
         NEW s \in SongShown, NEW dt \in 1 .. MaxStep, Polled(s, dt), Continues(s, dt),
         ~heard'.over, world' = world, up,
         resume # None, resume.listen = heard.number
  PROVE  Carries(s, now + dt)
<1> DEFINE t == now + dt
<1>1. /\ t \in Nat /\ dt \in Nat /\ now \in Nat /\ heard \in Listen /\ heard' \in Listen
      /\ resume \in Record
  BY Constants DEF Types
<1>2. Restarts /\ file = resume /\ ~heard.over
  BY DEF OnceInv, Matches, Continues
<1>3. HeardIn(resume, heard, now)
  BY <1>2 DEF OnceInv, FileIsHeard
<1>4. heard'.song = heard.song /\ heard'.pos \in {heard.pos, heard.pos + dt}
  BY <1>2 DEF Continues, FoundAgain, Places, SoughtTo
<1>5. heard'.album = heard.album
  <2>1. heard.album /\ heard'.album
    BY <1>2 DEF Matches, FoundAgain
  <2>2. heard.album \in BOOLEAN /\ heard'.album \in BOOLEAN
    BY <1>1 DEF Listen
  <2>3. QED
    BY <2>1, <2>2
<1>6. ShownOf(s, heard')
  BY DEF Polled
<1>7. HeardIn(resume, heard', t)
  BY <1>1, <1>3, <1>4, <1>5, HeardInLater
<1>8. resume.song = s.song /\ resume.album = s.album
  BY <1>6, <1>7 DEF HeardIn, ShownOf
<1>9. t - resume.at <= MayBeLeft(resume.dur, s.len)
  <2>1. resume.dur > 0
    <3>1. resume.dur \in world.lengths[resume.song] /\ resume.song \in Songs /\ world \in Worlds
      BY <1>1 DEF PlayFacts, LengthIn, Record, Types
    <3>2. QED
      BY <3>1, ScrobblerAssumption
  <2>2. MayBeLeft(resume.dur, s.len) = MayBeLeft(resume.dur, 0)
    BY <2>1 DEF MayBeLeft
  <2>3. ~(t - resume.at > MayBeLeft(resume.dur, 0))
    BY DEF Continues, LeftTooLong
  <2>4. MayBeLeft(resume.dur, 0) \in Nat /\ resume.at \in Nat
    BY <1>1, <2>1, Constants DEF MayBeLeft, Record
  <2> HIDE DEF t
  <2>5. QED
    BY <1>1, <2>2, <2>3, <2>4
<1>10. \/ resume.pos = None \/ s.pos = None
       \/ /\ resume.pos - Slack <= s.pos
          /\ s.pos <= resume.pos + (t - resume.at) + Slack
  <2>1. SUFFICES ASSUME resume.pos # None, s.pos # None
                 PROVE  /\ resume.pos - Slack <= s.pos
                        /\ s.pos <= resume.pos + (t - resume.at) + Slack
    OBVIOUS
  <2>2. s.pos = heard'.pos
    BY <1>6, <2>1 DEF ShownOf
  <2>3. resume.pos <= s.pos /\ s.pos <= resume.pos + (t - resume.at)
    BY <1>7, <2>1, <2>2 DEF HeardIn
  <2>4. /\ resume.pos \in Nat /\ s.pos \in Nat /\ resume.at \in Nat /\ Slack \in Nat
    BY <1>1, <2>1, PlayRulesAssumption DEF Record, SongShown, Position
  <2> HIDE DEF t
  <2>5. QED
    BY <1>1, <2>3, <2>4
<1>11. QED
  BY <1>8, <1>9, <1>10 DEF Carries, ContinuesPlay

LEMMA CarriedLasts ==
  ASSUME Types, NEW s \in SongShown, NEW t \in Nat, Carries(s, t), ~s.restarted
  PROVE  ~Ends(s, t)
<1> DEFINE p == Compared(s, t)
<1>1. p # None /\ p.song = s.song /\ p.album = s.album /\ p.pos = s.pos
  BY ComparedType, ComparedFields DEF Types
<1>2. ~IsReplay(Counts(p.played, p.dur), p.pos, s.pos)
  <2>1. SUFFICES ASSUME s.pos # None
                 PROVE  ~(s.pos - s.pos >= ReplayJump)
    BY <1>1 DEF IsReplay
  <2>2. s.pos \in Nat
    BY <2>1 DEF SongShown, Position
  <2>3. QED
    BY <2>2, Constants, ReplayAssumption
<1>3. QED
  BY <1>1, <1>2 DEF Ends, SameSong, StartsOver

LEMMA PolledOnce ==
  ASSUME Types, Types', Matches, Matches', PlayFacts, FoundAgain, AlbumsAreTold, OnceInv,
         NEW s \in SongShown, NEW dt \in 1 .. MaxStep, Polled(s, dt),
         ~heard'.over, world' = world, up, up' = up, now' = now + dt
  PROVE  OnceInv'
<1> DEFINE t == now + dt
<1>1. /\ t \in Nat /\ dt \in Nat /\ heard.number \in Nat /\ heard'.number \in Nat
      /\ heard'.album \in BOOLEAN
  BY Constants DEF Types, Listen
<1>2. /\ UpdateSong(s, t, dt) /\ ShownOf(s, heard')
      /\ Continues(s, dt) \/ BeginsAnew
  BY DEF Polled
<1>3. resume' = None /\ (Ends(s, t) \/ Lasts(s, t, dt))
  BY <1>1, <1>2, SongOutcome
<1>4. CASE Lasts(s, t, dt)
  BY <1>2, <1>3, <1>4, LastsOnce
<1>5. CASE Ends(s, t)
  <2>1. ASSUME NEW b \in Nat, Had(heard'.number, b)
        PROVE  FALSE
    <3>1. CASE BeginsAnew
      <4>1. heard'.number <= heard.number
        BY <1>1, <2>1 DEF OnceInv, Numbered
      <4>2. heard'.number = heard.number + 1
        BY <3>1 DEF BeginsAnew
      <4>3. QED
        BY <1>1, <4>1, <4>2
    <3>2. CASE Continues(s, dt)
      <4>1. /\ Had(heard.number, b) /\ ~heard.over /\ ~s.restarted
            /\ heard'.number = heard.number
        BY <2>1, <3>2 DEF Continues
      <4>2. Of(Holder, heard.number, b)
        BY <1>1, <4>1 DEF OnceInv, HeldNow
      <4>3. CASE cur # None
        <5>1. Lasts(s, t, dt) /\ ~Carries(s, t)
          BY <1>1, <3>2, <4>3, StaysTheSame
        <5>2. ~Ends(s, t)
          <6> DEFINE p == Compared(s, t)
          <6>1. p.pos = cur.pos /\ SameSong(p, s)
            BY <1>1, <4>3, <5>1, ComparedFields DEF Types, Lasts
          <6>2. Fits(cur, heard)
            BY <4>3 DEF Matches
          <6>3. ~IsReplay(Counts(p.played, p.dur), p.pos, s.pos)
            BY <1>1, <1>2, <3>2, <6>1, <6>2, NoJumpBack DEF Fits
          <6>4. QED
            BY <4>1, <6>1, <6>3 DEF Ends, StartsOver
        <5>3. QED
          BY <1>5, <5>2
      <4>4. CASE cur = None
        <5>1. resume # None /\ resume.listen = heard.number
          BY <4>2, <4>4 DEF Holder, Of
        <5>2. Carries(s, t)
          BY <3>2, <5>1, FoundByTheNextRun
        <5>3. QED
          BY <1>1, <1>5, <4>1, <5>2, CarriedLasts
      <4>5. QED
        BY <4>3, <4>4
    <3>3. QED
      BY <1>2, <3>1, <3>2
  <2>2. heard.number <= heard'.number
    BY <1>1, <1>2, NumberGrows
  <2>3. QED
    BY <1>1, <1>2, <1>3, <1>5, <2>1, <2>2, EndsOnce
<1>6. QED
  BY <1>3, <1>4, <1>5

(* The file of the play in progress is where the listener is.              *)
LEMMA FitsFile ==
  ASSUME Types, cur \in Play, Fits(cur, heard), NEW n \in Nat, NEW f,
         f.song = cur.song, f.album = cur.album, f.pos = cur.pos, f.at = n
  PROVE  HeardIn(f, heard, n)
<1>1. heard \in Listen
  BY DEF Types
<1>2. f.song = heard.song /\ f.album = heard.album /\ f.pos \in {None, heard.pos}
  BY DEF Fits
<1>3. QED
  BY <1>1, <1>2, HeardInNow

LEMMA QuietHad ==
  ASSUME Types, Matches, NEW t \in Nat, resume' = resume, world' = world,
         \/ cur = None /\ UNCHANGED <<queued, file, cur>>
         \/ QuietEnds(t)
         \/ QuietLasts(t)
  PROVE  \A l, b : Had(l, b)' => Had(l, b)
<1>1. TAKE l, b
<1>2. HAVE Had(l, b)'
<1>3. \/ QueuedAs(l, b, queued') \/ Of(cur', l, b) \/ Of(resume, l, b)
      \/ Restarts /\ Of(file', l, b)
  BY <1>2 DEF Had, Restarts
<1>4. CASE cur = None /\ UNCHANGED <<queued, file, cur>>
  BY <1>3, <1>4 DEF Had
<1>5. CASE QuietEnds(t)
  <2>1. queued' = queued \cup Banked(cur) /\ cur' = None /\ file' \in {None, file}
    BY <1>5 DEF QuietEnds
  <2>2. ~Of(None, l, b)
    BY DEF Of
  <2>3. QueuedAs(l, b, queued') => QueuedAs(l, b, queued) \/ Of(cur, l, b)
    BY <2>1, BankedOf
  <2>4. QED
    BY <1>3, <2>1, <2>2, <2>3 DEF Had
<1>6. CASE QuietLasts(t)
  <2>1. cur # None /\ cur \in Play /\ queued' = queued
    BY <1>6 DEF QuietLasts, Types
  <2>2. /\ cur'.listen = cur.listen /\ cur'.started = cur.started
        /\ \/ file' = file
           \/ file'.listen = cur.listen /\ file'.started = cur.started
    BY <1>6, <2>1, QuietFields
  <2>3. /\ Of(cur', l, b) => Of(cur, l, b)
        /\ Of(file', l, b) => Of(file, l, b) \/ Of(cur, l, b)
    BY <2>1, <2>2 DEF Of
  <2>4. QED
    BY <1>3, <2>1, <2>3 DEF Had
<1>7. QED
  BY <1>4, <1>5, <1>6

LEMMA QuietOnce ==
  ASSUME Types, Types', Matches, Matches', ~world.otherThings, FoundAgain, OnceInv,
         NEW dt \in 1 .. MaxStep, GapPoll(dt)
  PROVE  OnceInv'
<1> DEFINE t == now + dt
           since == IF heard.quiet = None THEN t ELSE heard.quiet
           over == resume = None /\ t - since > GoneGrace
<1>1. /\ t \in Nat /\ dt \in Nat /\ now \in Nat /\ heard \in Listen /\ heard' \in Listen
      /\ cur \in Play \cup {None}
  BY Constants DEF Types
<1>2. PICK g \in Gaps : UpdateGap(g, t)
  BY DEF GapPoll
<1>3. /\ resume' = resume
      /\ \/ cur = None /\ UNCHANGED <<queued, file, cur>>
         \/ QuietEnds(t)
         \/ QuietLasts(t)
  BY <1>1, <1>2, QuietOutcome
<1>4. /\ heard' = IF heard.over THEN heard ELSE [heard EXCEPT !.quiet = since, !.over = over]
      /\ UNCHANGED <<world, up, account>> /\ now' = t /\ up
  BY DEF GapPoll
<1>5. /\ heard'.song = heard.song /\ heard'.album = heard.album /\ heard'.pos = heard.pos
      /\ heard'.number = heard.number
      /\ ~heard'.over => ~heard.over
  BY <1>1, <1>4 DEF Listen
<1> HIDE DEF t, over, since
<1>6. \A l, b : Had(l, b)' => Had(l, b)
  BY <1>1, <1>3, <1>4, QuietHad
<1>7. OneBeginning' /\ Numbered'
  <2>1. heard.number <= heard'.number
    BY <1>1, <1>5 DEF Listen
  <2>2. QED
    BY <1>6, <2>1, NothingNew DEF OnceInv
<1>8. ~up' \/ resume' # None => Restarts'
  BY <1>3, <1>4 DEF OnceInv, Restarts
<1>9. CASE cur = None /\ UNCHANGED <<queued, file, cur>>
  <2>1. Holder' = Holder
    BY <1>3, <1>4, <1>9 DEF Holder
  <2>2. HeldNow'
    BY <1>5, <1>6, <2>1 DEF OnceInv, HeldNow
  <2>3. QueuedIsOnFile'
    BY <1>9 DEF QueuedIsOnFile
  <2>4. FileIsHeard'
    <3>1. SUFFICES ASSUME Restarts, file # None, ~heard.over, file.listen = heard.number
                   PROVE  HeardIn(file, heard', t)
      BY <1>4, <1>5, <1>9 DEF FileIsHeard, Restarts
    <3>2. HeardIn(file, heard, now) /\ file \in Record
      BY <3>1 DEF OnceInv, FileIsHeard, Types
    <3>3. QED
      BY <1>1, <1>5, <3>2, HeardInLater DEF t
  <2>5. QED
    BY <1>7, <1>8, <2>2, <2>3, <2>4 DEF OnceInv
<1>10. CASE QuietEnds(t)
  <2>1. cur' = None /\ cur # None /\ ~WithinGrace(t)
    BY <1>10 DEF QuietEnds
  <2>2. resume = None /\ Fits(cur, heard)
    BY <2>1 DEF Matches
  <2>3. GoneSince(t) = since /\ ~heard.over
    BY <2>2 DEF GoneSince, Fits, since
  <2>4. over
    <3>1. since \in Nat /\ GoneGrace \in Nat
      BY <1>1, Constants DEF since, Listen, Position
    <3>2. ~(t - since <= GoneGrace)
      BY <2>1, <2>3 DEF WithinGrace
    <3>3. t - since > GoneGrace
      BY <1>1, <3>1, <3>2
    <3>4. QED
      BY <2>2, <3>3 DEF over
  <2>5. heard'.over
    BY <1>1, <1>4, <2>3, <2>4 DEF Listen
  <2>6. QED
    BY <1>7, <1>8, <2>1, <2>5 DEF OnceInv, HeldNow, QueuedIsOnFile, FileIsHeard
<1>11. CASE QuietLasts(t)
  <2>1. cur # None /\ cur \in Play /\ queued' = queued
    BY <1>1, <1>11 DEF QuietLasts
  <2>2. /\ cur' \in Play /\ cur'.listen = cur.listen /\ cur'.started = cur.started
        /\ cur'.song = cur.song /\ cur'.album = cur.album /\ cur'.pos = cur.pos
        /\ \/ file' = file
           \/ /\ file' \in Record
              /\ file'.listen = cur.listen /\ file'.started = cur.started
              /\ file'.song = cur.song /\ file'.album = cur.album
              /\ file'.pos = cur.pos /\ file'.at = t
    BY <1>1, <1>11, <2>1, QuietFields
  <2>3. cur' # None /\ \A l, b : Of(cur', l, b) <=> Of(cur, l, b)
    BY <2>1, <2>2, NoneIsNoPlay DEF Of
  <2>4. Holder' = cur' /\ Holder = cur
    BY <1>4, <2>1, <2>3 DEF Holder
  <2>5. HeldNow'
    BY <1>5, <1>6, <2>3, <2>4 DEF OnceInv, HeldNow
  <2>6. QueuedIsOnFile'
    <3>1. SUFFICES ASSUME Restarts, \E b \in Nat : QueuedAs(cur.listen, b, queued)
                   PROVE  Of(file', cur.listen, cur.started)
      BY <1>4, <2>1, <2>2 DEF QueuedIsOnFile, Restarts
    <3>2. Of(file, cur.listen, cur.started)
      BY <2>1, <3>1 DEF OnceInv, QueuedIsOnFile
    <3>3. QED
      BY <2>2, <3>2, NoneIsNoPlay DEF Of
  <2>7. FileIsHeard'
    <3>1. SUFFICES ASSUME Restarts, file' # None, ~heard.over, file'.listen = heard.number
                   PROVE  HeardIn(file', heard', t)
      BY <1>4, <1>5 DEF FileIsHeard, Restarts
    <3>2. CASE file' = file
      <4>1. HeardIn(file, heard, now) /\ file \in Record
        BY <3>1, <3>2 DEF OnceInv, FileIsHeard, Types
      <4>2. QED
        BY <1>1, <1>5, <3>2, <4>1, HeardInLater DEF t
    <3>3. CASE /\ file'.song = cur.song /\ file'.album = cur.album
               /\ file'.pos = cur.pos /\ file'.at = t
      <4>1. Fits(cur, heard)
        BY <2>1 DEF Matches
      <4>2. HeardIn(file', heard, t)
        BY <1>1, <2>1, <3>3, <4>1, FitsFile
      <4>3. QED
        BY <1>5, <4>2 DEF HeardIn
    <3>4. QED
      BY <2>2, <3>2, <3>3
  <2>8. QED
    BY <1>7, <1>8, <2>5, <2>6, <2>7 DEF OnceInv
<1>12. QED
  BY <1>3, <1>9, <1>10, <1>11

(* The listen is over and nothing is in progress.                          *)
LEMMA DropOnce ==
  ASSUME Types, Types', OnceInv, cur' = None, resume' = None, file' \in {None, file},
         queued' = queued, world' = world, up, up' = up, heard' = Over(heard)
  PROVE  OnceInv'
<1>1. heard'.over /\ heard'.number = heard.number /\ heard.number \in Nat
  BY DEF Types, Listen, Over
<1>2. \A l, b : Had(l, b)' => Had(l, b)
  BY DEF Had, Of, Restarts
<1>3. heard.number <= heard'.number
  BY <1>1
<1>4. OneBeginning' /\ Numbered'
  BY <1>2, <1>3, NothingNew DEF OnceInv
<1>5. QED
  BY <1>1, <1>4 DEF OnceInv, HeldNow, QueuedIsOnFile, FileIsHeard

LEMMA ShutdownOnce ==
  ASSUME Types, Types', Matches, FoundAgain, OnceInv, Shutdown
  PROVE  OnceInv'
<1>1. /\ Restarts /\ ~world.writesMayFail /\ Restarts' /\ now \in Nat
      /\ heard.number \in Nat
  BY DEF Shutdown, Restarts, FoundAgain, Types, Listen
<1>2. /\ up /\ ~up' /\ cur' = None /\ resume' = None
      /\ queued' = queued \cup Banked(cur)
      /\ UNCHANGED <<world, heard, now>>
  BY DEF Shutdown
<1>3. /\ cur # None =>
           /\ file' \in Record /\ file'.listen = cur.listen /\ file'.started = cur.started
           /\ file'.song = cur.song /\ file'.album = cur.album
           /\ file'.pos = cur.pos /\ file'.at = now
      /\ cur = None => file' = resume
  <2>1. CASE cur = None
    <3>1. resume # None => file' = file
      BY <2>1 DEF Shutdown
    <3>2. resume = None => file' = None
      BY <1>1, <2>1 DEF Shutdown, Written
    <3>3. QED
      BY <2>1, <3>1, <3>2 DEF Matches
  <2>2. CASE cur # None
    <3> DEFINE p == [cur EXCEPT !.banked = @ \/ MustBank(cur)]
    <3>1. file' = Saved(p, now)
      BY <1>1, <2>2 DEF Shutdown, Written
    <3>2. cur \in Play /\ (cur.banked \/ MustBank(cur)) \in BOOLEAN
      BY <2>2, Zenon DEF Types
    <3>3. /\ p \in Play /\ p.started = cur.started /\ p.song = cur.song
          /\ p.album = cur.album /\ p.listen = cur.listen /\ p.pos = cur.pos
      BY <3>2 DEF Play
    <3> HIDE DEF p
    <3>4. /\ Saved(p, now) \in Record /\ Saved(p, now).started = p.started
          /\ Saved(p, now).song = p.song /\ Saved(p, now).album = p.album
          /\ Saved(p, now).listen = p.listen /\ Saved(p, now).pos = p.pos
          /\ Saved(p, now).at = now
      BY <1>1, <3>3, SavedType, SavedFields
    <3>5. QED
      BY <2>2, <3>1, <3>3, <3>4
  <2>3. QED
    BY <2>1, <2>2
<1>4. \A l, b : Of(file', l, b) <=> Of(Holder, l, b)
  BY <1>2, <1>3, NoneIsNoPlay DEF Of, Holder
<1>5. \A l, b : Had(l, b)' => Had(l, b)
  <2>1. TAKE l, b
  <2>2. HAVE Had(l, b)'
  <2>3. QueuedAs(l, b, queued') \/ Of(None, l, b) \/ Of(file', l, b)
    BY <1>2, <2>2 DEF Had
  <2>4. ~Of(None, l, b)
    BY DEF Of
  <2>5. QueuedAs(l, b, queued') => QueuedAs(l, b, queued) \/ Of(cur, l, b)
    BY <1>2, BankedOf
  <2>6. Of(file', l, b) => Of(cur, l, b) \/ Of(resume, l, b)
    BY <1>2, <1>4 DEF Holder
  <2>7. QED
    BY <2>3, <2>4, <2>5, <2>6 DEF Had
<1>6. OneBeginning' /\ Numbered'
  <2>1. heard.number <= heard'.number
    BY <1>1, <1>2
  <2>2. QED
    BY <1>5, <2>1, NothingNew DEF OnceInv
<1>7. HeldNow'
  <2>1. Holder' = file'
    BY <1>2 DEF Holder
  <2>2. QED
    BY <1>2, <1>4, <1>5, <2>1 DEF OnceInv, HeldNow
<1>8. QueuedIsOnFile'
  BY <1>2 DEF QueuedIsOnFile
<1>9. FileIsHeard'
  <2>1. SUFFICES ASSUME file' # None, ~heard.over, file'.listen = heard.number
                 PROVE  HeardIn(file', heard, now)
    BY <1>2 DEF FileIsHeard
  <2>2. CASE cur = None
    BY <1>1, <1>3, <2>1, <2>2 DEF OnceInv, FileIsHeard, Matches
  <2>3. CASE cur # None
    <3>1. cur \in Play /\ Fits(cur, heard)
      BY <2>3 DEF Types, Matches
    <3>2. QED
      BY <1>1, <1>3, <2>3, <3>1, FitsFile
  <2>4. QED
    BY <2>2, <2>3
<1>10. QED
  BY <1>1, <1>6, <1>7, <1>8, <1>9 DEF OnceInv

LEMMA CrashOnce ==
  ASSUME Types, Types', Matches, OnceInv, Crash
  PROVE  OnceInv'
<1>1. /\ Restarts /\ Restarts' /\ up /\ ~up' /\ cur' = None /\ resume' = None
      /\ UNCHANGED <<file, queued, now, heard>>
      /\ heard.number \in Nat
  BY DEF Crash, Restarts, Types, Listen
<1>2. \A l, b : Had(l, b)' => Had(l, b)
  BY <1>1 DEF Had, Of
<1>3. OneBeginning' /\ Numbered'
  <2>1. heard.number <= heard'.number
    BY <1>1
  <2>2. QED
    BY <1>2, <2>1, NothingNew DEF OnceInv
<1>4. HeldNow'
  <2>1. SUFFICES ASSUME ~heard.over, NEW l \in Nat, NEW b \in Nat, l = heard.number,
                        Had(l, b)'
                 PROVE  Of(file, l, b)
    BY <1>1 DEF HeldNow, Holder
  <2>2. QueuedAs(l, b, queued) \/ Of(file, l, b)
    BY <1>1, <2>1 DEF Had, Of
  <2>3. Of(Holder, l, b)
    BY <1>2, <2>1 DEF OnceInv, HeldNow
  <2>4. CASE cur = None
    BY <1>1, <2>3, <2>4 DEF Holder, Of, Matches
  <2>5. CASE cur # None /\ QueuedAs(l, b, queued)
    <3>1. cur.listen = l /\ cur.started = b
      BY <1>1, <2>3, <2>5 DEF Holder, Of
    <3>2. QED
      BY <1>1, <2>5, <3>1 DEF OnceInv, QueuedIsOnFile
  <2>6. QED
    BY <2>2, <2>4, <2>5
<1>5. QueuedIsOnFile'
  BY <1>1 DEF QueuedIsOnFile
<1>6. FileIsHeard'
  BY <1>1 DEF OnceInv, FileIsHeard
<1>7. QED
  BY <1>1, <1>3, <1>4, <1>5, <1>6 DEF OnceInv

LEMMA StartOnce ==
  ASSUME Types, Types', Matches, Matches', FoundAgain, OnceInv, Start
  PROVE  OnceInv'
<1>1. /\ ~up /\ up' /\ resume' = file
      /\ UNCHANGED <<world, cur, file, queued, now>>
  BY DEF Start
<1>2. cur = None /\ resume = None /\ Restarts /\ Restarts'
  BY <1>1 DEF Matches, OnceInv, Restarts
<1>3. /\ heard'.number = heard.number /\ heard'.over = heard.over
      /\ heard'.song = heard.song /\ heard'.pos = heard.pos
      /\ heard.number \in Nat
  BY DEF Start, HeardAfresh, Types, Listen
<1>4. ~heard.over => heard'.album = heard.album
  <2>1. heard.album \in BOOLEAN /\ heard'.album \in BOOLEAN
    BY DEF Types, Listen
  <2>2. ~heard.over => heard.album /\ heard'.album
    BY <1>1, <1>2, <1>3 DEF FoundAgain, Matches
  <2>3. QED
    BY <2>1, <2>2
<1>5. \A l, b : Had(l, b)' => Had(l, b)
  BY <1>1, <1>2 DEF Had, Restarts
<1>6. OneBeginning' /\ Numbered'
  <2>1. heard.number <= heard'.number
    BY <1>3
  <2>2. QED
    BY <1>5, <2>1, NothingNew DEF OnceInv
<1>7. HeldNow'
  <2>1. Holder' = Holder
    BY <1>1, <1>2 DEF Holder
  <2>2. QED
    BY <1>3, <1>5, <2>1 DEF OnceInv, HeldNow
<1>8. QueuedIsOnFile'
  BY <1>1, <1>2 DEF QueuedIsOnFile
<1>9. FileIsHeard'
  <2>1. SUFFICES ASSUME file # None, ~heard.over, file.listen = heard.number
                 PROVE  HeardIn(file, heard', now)
    BY <1>1, <1>3 DEF FileIsHeard
  <2>2. HeardIn(file, heard, now)
    BY <1>2, <2>1 DEF OnceInv, FileIsHeard
  <2>3. QED
    BY <1>3, <1>4, <2>1, <2>2 DEF HeardIn
<1>10. QED
  BY <1>2, <1>6, <1>7, <1>8, <1>9 DEF OnceInv

LEMMA OnceStep ==
  ASSUME Types, Types', Matches, Matches', PlayFacts, ~world.otherThings,
         FoundAgain, AlbumsAreTold, OnceInv, [Next]_vars
  PROVE  OnceInv'
<1>1. ASSUME NEW dt \in 1 .. MaxStep, SongPoll(dt)
      PROVE  OnceInv'
  <2>1. ~heard'.over
    BY <1>1, SongPollShows
  <2>2. PICK s \in SongShown : Polled(s, dt)
    BY <1>1, SongPollShows
  <2>3. world' = world /\ up /\ up' = up /\ now' = now + dt
    BY <1>1 DEF SongPoll
  <2>4. QED
    BY <2>1, <2>2, <2>3, PolledOnce
<1>2. ASSUME NEW dt \in 1 .. MaxStep, GapPoll(dt)
      PROVE  OnceInv'
  BY <1>2, QuietOnce
<1>3. ASSUME NEW dt \in 1 .. MaxStep, GatedPoll(dt)
      PROVE  OnceInv'
  <2>1. /\ cur' = None /\ resume' = None /\ file' \in {None, file}
        /\ queued' = queued /\ world' = world /\ up /\ up' = up /\ heard' = Over(heard)
    BY <1>3 DEF GatedPoll, DropPlay, Written
  <2>2. QED
    BY <2>1, DropOnce
<1>4. ASSUME NEW a \in Accounts \cup {NoAccount}, Reconfigure(a)
      PROVE  OnceInv'
  <2>1. /\ cur' = None /\ resume' = None /\ file' \in {None, file}
        /\ queued' = queued /\ world' = world /\ up /\ up' = up /\ heard' = Over(heard)
    BY <1>4 DEF Reconfigure, DropPlay, Written
  <2>2. QED
    BY <2>1, DropOnce
<1>5. CASE Shutdown
  BY <1>5, ShutdownOnce
<1>6. CASE Crash
  BY <1>6, CrashOnce
<1>7. CASE Start
  BY <1>7, StartOnce
<1>8. CASE UNCHANGED vars
  <2>1. \A l, b : Had(l, b)' <=> Had(l, b)
    BY <1>8 DEF vars, Had, Restarts
  <2>2. Holder' = Holder
    BY <1>8 DEF vars, Holder
  <2>3. OneBeginning' /\ Numbered' /\ HeldNow'
    BY <1>8, <2>1, <2>2 DEF vars, OnceInv, OneBeginning, Numbered, HeldNow
  <2>4. QED
    BY <1>8, <2>3 DEF vars, OnceInv, QueuedIsOnFile, FileIsHeard, Restarts
<1>9. QED
  BY <1>1, <1>2, <1>3, <1>4, <1>5, <1>6, <1>7, <1>8 DEF Next

LEMMA OnceInit == Init => OnceInv
<1>1. Init => up /\ cur = None /\ resume = None /\ file = None /\ queued = {}
  BY DEF Init
<1>2. SUFFICES ASSUME up, cur = None, resume = None, file = None, queued = {}
               PROVE  OnceInv
  BY <1>1
<1>3. \A l, b : ~Had(l, b)
  BY <1>2 DEF Had, QueuedAs, Of
<1>4. OneBeginning /\ Numbered /\ HeldNow
  BY <1>3 DEF OneBeginning, Numbered, HeldNow
<1>5. QueuedIsOnFile /\ FileIsHeard
  BY <1>2 DEF QueuedIsOnFile, FileIsHeard
<1>6. QED
  BY <1>2, <1>4, <1>5 DEF OnceInv

(* One listen is never scrobbled under two beginnings: not over any number of
   polls, gaps, seeks, changes of account, quits and crashes, where a restart
   finds the song and the file as they were left and a late album is
   recognised.                                                             *)
THEOREM OnceForAll == Spec => [](FoundAgain /\ AlbumsAreTold => OncePerListenOfSongs)
<1> DEFINE Inv == ~world.otherThings /\ FoundAgain /\ AlbumsAreTold => OnceInv
<1>1. Init => Inv
  BY OnceInit
<1>2. Types /\ Types' /\ (~world.otherThings => Matches /\ PlayFacts)
        /\ (~world.otherThings => Matches /\ PlayFacts)' /\ Inv /\ [Next]_vars
        => Inv'
  <2>1. SUFFICES ASSUME Types, Types', ~world.otherThings => Matches /\ PlayFacts,
                        (~world.otherThings => Matches /\ PlayFacts)', Inv, [Next]_vars,
                        ~world'.otherThings, FoundAgain', AlbumsAreTold'
                 PROVE  OnceInv'
    OBVIOUS
  <2>2. ~world.otherThings /\ FoundAgain /\ AlbumsAreTold
    BY <2>1, WorldKept DEF FoundAgain, Restarts, AlbumsAreTold
  <2>3. QED
    BY <2>1, <2>2, OnceStep
<1>3. Types /\ Inv => (FoundAgain /\ AlbumsAreTold => OncePerListenOfSongs)
  <2>1. SUFFICES ASSUME Types, OneBeginning, NEW q \in queued, NEW r \in queued,
                        q.listen = r.listen
                 PROVE  q.started = r.started
    BY DEF OnceInv, OncePerListenOfSongs, OncePerListen
  <2>2. q.listen \in Nat /\ q.started \in Nat /\ r.started \in Nat
    <3>1. RowType(q) /\ RowType(r)
      BY <2>1 DEF Types
    <3>2. QED
      BY <3>1 DEF RowType
  <2>3. Had(q.listen, q.started) /\ Had(q.listen, r.started)
    BY <2>1 DEF Had, QueuedAs
  <2>4. QED
    BY <2>1, <2>2, <2>3 DEF OneBeginning
<1> HIDE DEF Inv
<1>4. QED
  BY <1>1, <1>2, <1>3, FactsAlways, PTL DEF Spec
=============================================================================
