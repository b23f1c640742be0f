---------------------------- MODULE MCScrobbler ----------------------------
(* Instances of Scrobbler for TLC.  The bounds keep the order of the real
   ones: grace < replay jump, gap clamp, save interval < half a long song. *)
EXTENDS Scrobbler, TLC

CONSTANTS s1, s2, a1, a2

Symmetry == Permutations({a1, a2})

(* A short song and a long one, and nothing out of the ordinary.           *)
Calm ==
  [lengths |-> s1 :> {2} @@ s2 :> {6}, lateAlbum |-> FALSE, blind |-> FALSE,
   seekTo |-> {}, otherThings |-> FALSE, quits |-> FALSE, crashes |-> FALSE,
   writesMayFail |-> FALSE]

(* A song whose length is reported wrong before or after it is known.      *)
Corrected == s1 :> {2, 6} @@ s2 :> {}
OneShort == s1 :> {2} @@ s2 :> {}
OneLong == s1 :> {6} @@ s2 :> {}

(* Refrain is quit, dies and comes back.                                   *)
Restarting == [Calm EXCEPT !.quits = TRUE, !.crashes = TRUE]
RestartingBlind == [Restarting EXCEPT !.blind = TRUE, !.lengths = OneShort]

(* Refrain stays up, and what it is shown is out of the ordinary, ...      *)
StayingUp == [Calm EXCEPT !.lengths = Corrected, !.lateAlbum = TRUE, !.seekTo = {0, 1}]

(* ... or the file refuses what it is asked, and positions are unknown.     *)
Refusing == [Calm EXCEPT !.lengths = Corrected, !.blind = TRUE, !.writesMayFail = TRUE]

(* Something without a length plays in between, from its beginning.        *)
Interrupted == [Restarting EXCEPT !.otherThings = TRUE, !.lengths = OneLong]

Ordinary == {Restarting, RestartingBlind, StayingUp, Refusing, Interrupted}

(* The worlds in which the code does not do what its comments say.         *)
AlbumLaterThanRestart == {[Calm EXCEPT !.lengths = OneShort, !.lateAlbum = TRUE, !.quits = TRUE]}
AlbumShowsLate == {[Calm EXCEPT !.lengths = OneShort, !.lateAlbum = TRUE]}
ClipInTheGap == {[Calm EXCEPT !.lengths = OneLong, !.otherThings = TRUE]}
============================================================================
