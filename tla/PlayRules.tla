------------------------------ MODULE PlayRules ------------------------------
(***************************************************************************)
(* The rules of src/refrain/scrobble.py that the scrobbler and the history *)
(* of recently played songs share: when a play counts, when it starts      *)
(* over, when the song on after a restart is still the same play, and how  *)
(* play time is credited.  Times and positions are in one unit.            *)
(***************************************************************************)
EXTENDS Integers, FiniteSets

CONSTANTS
  Plain,          \* the songs without a "%" or a "|" in their names
  None,           \* no play, no record, no known position, no such moment
  MinTrack,       \* _MIN_TRACK_MS
  ScrobbleAfter,  \* _SCROBBLE_AFTER_MS
  ReplayStart,    \* _REPLAY_START_MS
  ReplayJump,     \* _REPLAY_JUMP_MS
  ResumeGrace,    \* RESUME_GRACE_S
  UnknownLength,  \* RESUME_UNKNOWN_LENGTH_S
  GoneGrace,      \* GONE_GRACE_S
  Slack,          \* RESUME_POSITION_SLACK_MS
  SaveEvery,      \* PROGRESS_SAVE_EVERY_MS
  MaxGap          \* _MAX_TICK_GAP_MS

ASSUME PlayRulesAssumption ==
  /\ None \notin Nat
  /\ MinTrack \in Nat
  /\ ScrobbleAfter \in Nat \ {0}
  /\ {ReplayStart, ReplayJump, ResumeGrace, UnknownLength, GoneGrace, Slack, MaxGap} \subseteq Nat
  /\ SaveEvery \in Nat \ {0}

(* A song that stands still has not gone back.                             *)
ASSUME ReplayAssumption == ReplayJump > 0

Position == Nat \cup {None}

(* should_scrobble: half the length or ScrobbleAfter, whichever is first.  *)
Counts(played, dur) ==
  /\ dur > MinTrack
  /\ 2 * played >= dur \/ played >= ScrobbleAfter

(* How long a play of this length must be heard.                           *)
Needed(dur) ==
  LET half == (dur + 1) \div 2
  IN  IF half < ScrobbleAfter THEN half ELSE ScrobbleAfter

(* Variant: any jump back of that length.                                  *)
IsReplayAnywhere(counted, before, pos) ==
  /\ counted
  /\ before # None /\ pos # None
  /\ before - pos >= ReplayJump

(* is_replay: the player's position has gone from well into the song back to
   its beginning.                                                          *)
IsReplay(counted, before, pos) ==
  /\ counted
  /\ before # None /\ pos # None
  /\ pos < ReplayStart
  /\ before - pos >= ReplayJump

(* fills_in_album: the song of the key, now with the album it lacked.  A key
   escapes the names in it (content_key), what it is compared with does not:
   a song with an escaped sign in its names is never found to be the same. *)
FillsIn(key, s) ==
  /\ key # None
  /\ key.song = s.song /\ s.song \in Plain
  /\ ~key.album /\ s.album

(* How long a play may be left: its length, r's before the one shown now,
   and the grace.                                                          *)
MayBeLeft(dur, len) ==
  LET length == IF dur > 0 THEN dur ELSE len
  IN  (IF length > 0 THEN length ELSE UnknownLength) + ResumeGrace

(* Variant: a play is carried on only where it was left.                   *)
ContinuesPlayInPlace(dur, before, away, len, pos) ==
  /\ away <= MayBeLeft(dur, len)
  /\ before = None \/ pos = None \/ (before - Slack <= pos /\ pos <= before + Slack)

(* continues_play: is the song of length len now at `pos' the play saved at
   position `before' with length dur, `away' ago?                          *)
ContinuesPlay(dur, before, away, len, pos) ==
  /\ away <= MayBeLeft(dur, len)
  /\ before = None \/ pos = None \/ (before - Slack <= pos /\ pos <= before + away + Slack)

(* Variant: a pause takes back what was credited.                          *)
CreditNet(playing, dt) == IF playing THEN dt ELSE 0 - dt

(* accrue_play_ms: what the time since the last poll adds.                 *)
Credit(playing, dt) == IF playing /\ dt <= MaxGap THEN dt ELSE 0

Later(m, n) == IF m < n THEN n ELSE m
=============================================================================
