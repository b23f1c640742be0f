---------------------------- MODULE MCPlayHistory ----------------------------
(* Instances of PlayHistory for TLC.                                       *)
EXTENDS PlayHistory, TLC

CONSTANTS s1, s2

(* A short song and a long one, and nothing out of the ordinary.           *)
Calm ==
  [lengths |-> s1 :> {2} @@ s2 :> {6}, lateAlbum |-> FALSE, blind |-> FALSE,
   seekTo |-> {}, otherThings |-> FALSE, quits |-> FALSE, crashes |-> FALSE,
   writesMayFail |-> FALSE]

OneShort == s1 :> {2} @@ s2 :> {}
OneLong == s1 :> {6} @@ s2 :> {}

(* Refrain is quit and comes back, ...                                     *)
Restarting == [Calm EXCEPT !.quits = TRUE]

(* ... knowing neither lengths nor, at times, positions; ...               *)
RestartingBlind == [Restarting EXCEPT !.blind = TRUE, !.lengths = s1 :> {0} @@ s2 :> {}]

(* ... or it dies, ...                                                     *)
Crashing == [Calm EXCEPT !.crashes = TRUE, !.lengths = OneLong]

(* ... and the file refuses what it is asked.                              *)
Failing == [Restarting EXCEPT !.lengths = OneLong, !.writesMayFail = TRUE]

(* Refrain stays up, and what it is shown is out of the ordinary.          *)
Late == [Calm EXCEPT !.lengths = OneShort, !.lateAlbum = TRUE]
Corrected == [Calm EXCEPT !.lengths = s1 :> {2, 6} @@ s2 :> {}]
Sought == [Calm EXCEPT !.lengths = OneShort, !.seekTo = {0, 1}]

Ordinary == {Restarting, RestartingBlind, Crashing, Failing, Late, Corrected, Sought}
============================================================================
