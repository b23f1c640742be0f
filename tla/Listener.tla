------------------------------- MODULE Listener -------------------------------
(***************************************************************************)
(* The listener and the player: what is really heard, and what a poll of   *)
(* the source may show of it.  This is the environment of the modules that *)
(* follow plays (src/refrain/scrobble.py, src/refrain/history.py): they    *)
(* read what is shown, and never `heard'.                                  *)
(***************************************************************************)
EXTENDS PlayRules

CONSTANTS
  Songs,          \* source, title and artist of a song
  Worlds,         \* what a run may meet, see World
  MaxStep,        \* longest time between two polls
  MaxTime,        \* bound of the model: the clock
  MaxListens,     \* bound of the model: listens
  MaxEvents       \* bound of the model: quits, crashes, switches, user's requests

(* What may happen in a run: the lengths each song may be reported with (0
   if unknown), whether its album may show later than its title, whether
   the position may be unknown, the places the listener may seek to,
   whether the source may show something other than a song, whether Refrain
   may be quit or die, and whether a file may refuse a write or a removal. *)
World ==
  [lengths : [Songs -> SUBSET Nat], lateAlbum : BOOLEAN, blind : BOOLEAN,
   seekTo : SUBSET Nat, otherThings : BOOLEAN, quits : BOOLEAN, crashes : BOOLEAN,
   writesMayFail : BOOLEAN]

ASSUME ListenerAssumption ==
  /\ Worlds \subseteq World
  /\ None \notin Songs
  /\ Plain \subseteq Songs
  /\ {MaxStep, MaxTime, MaxListens, MaxEvents} \subseteq Nat

VARIABLES
  world,    \* what this run may meet
  heard     \* the listen under way

(* A listen: the song, where it is, its number, whether its album has
   shown, when the player first fell silent on it, and whether
   it is over: the player was silent for longer than the grace, the user
   turned sharing off or changed the account, or Refrain was away for
   longer than a play may be left.                                         *)
Listen ==
  [song : Songs \cup {None}, pos : Nat, number : Nat, album : BOOLEAN,
   quiet : Position, over : BOOLEAN]

NoListen == [song |-> None, pos |-> 0, number |-> 0, album |-> FALSE,
             quiet |-> None, over |-> TRUE]

Over(h) == [h EXCEPT !.over = TRUE]

(* The places a listener may seek to without beginning the song again.     *)
SoughtTo(pos) == {to \in world.seekTo : ~(to < ReplayStart /\ pos - to >= ReplayJump)}

(* Whether the album shows now; one that has shown stays shown.            *)
AlbumShows(shown) == IF world.lateAlbum /\ ~shown THEN BOOLEAN ELSE {TRUE}

(* Where the song is after dt: played all the time or not at all, or sought
   in.                                                                     *)
Places(dt) == {heard.pos, heard.pos + dt} \cup SoughtTo(heard.pos)

(* The listen goes on.                                                     *)
HeardAt(pos, album) == [heard EXCEPT !.pos = pos, !.album = album, !.quiet = None]

GoesOn(dt) == {HeardAt(pos, album) : pos \in Places(dt), album \in AlbumShows(heard.album)}

(* Another listen begins, perhaps of the same song.                        *)
HeardFirst(song, album) ==
  [song |-> song, pos |-> 0, number |-> heard.number + 1, album |-> album,
   quiet |-> None, over |-> FALSE]

Playable == {song \in Songs : world.lengths[song] # {}}

Begins == {HeardFirst(song, album) : song \in Playable, album \in AlbumShows(FALSE)}

(* What a poll may show of the listen h.                                   *)
Shown(h, playing, restarted) ==
  {[song |-> h.song, album |-> h.album, len |-> len, pos |-> pos, playing |-> playing,
    restarted |-> restarted, listen |-> h.number] :
     len \in world.lengths[h.song],
     pos \in IF world.blind THEN {h.pos, None} ELSE {h.pos}}

(* The album of a song is looked up afresh by every run.                   *)
HeardAfresh == [heard EXCEPT !.album = @ /\ ~world.lateAlbum, !.quiet = None]
=============================================================================
