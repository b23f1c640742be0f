---------------------------- MODULE CoverFetcher ----------------------------
(***************************************************************************)
(* The cover images (src/refrain/cover_fetcher.py, and what cover_art.py   *)
(* does to the files).                                                     *)
(*                                                                         *)
(* The daemon asks for the cover of the song that plays; a pool of one     *)
(* worker thread looks the song up in the catalog, downloads the image     *)
(* into a temporary directory, and takes images out of it again, one job   *)
(* after the other.  The daemon also says which images the history needs:  *)
(* these are copied into the lasting cache, the others there are deleted,  *)
(* by whichever thread finds something to copy, under a lock of its own.   *)
(* Lookups and downloads fail and are left alone for a while, a copy may   *)
(* fail, the directory may be impossible to create, the process may end.   *)
(*                                                                         *)
(* A song is its key (artist, title, album); a cover is its URL, which     *)
(* also names its file.                                                    *)
(***************************************************************************)
EXTENDS Integers, Sequences, FiniteSets

CONSTANTS
  Songs,     \* keys that are asked for
  NoSong,    \* nothing plays, or the user wants no covers
  Covers,    \* URLs of cover images
  NoCover,   \* the catalog has none
  CoverOf,   \* what the catalog answers for a song
  FilledIn,  \* the song with the album the catalog has, or itself
  MaxMemo,   \* _MAX_MEMO_ENTRIES
  MaxJobs    \* bound of the model: jobs that wait when the song changes

ASSUME CoverAssumption ==
  /\ NoSong \notin Songs
  /\ NoCover \notin Covers
  /\ CoverOf \in [Songs -> Covers \cup {NoCover}]
  /\ FilledIn \in [Songs -> Songs]
  /\ MaxMemo \in Nat \ {0}
  /\ MaxJobs \in Nat

VARIABLES
  shown,       \* the song the daemon is at
  asking,      \* the cover whose image the daemon just found missing
  jobs,        \* what the executor has queued
  at,          \* how far the worker is with its job
  song,        \* the song of that job
  cover,       \* its image; for a drop, the image to spare
  memo,        \* _url_cache: the songs whose answer is known, oldest first
  inflight,    \* _inflight
  cooling,     \* _failed_at: songs whose lookup failed a moment ago
  imageInflight, \* _image_inflight
  imageCooling,  \* _image_failed_at
  keep,        \* _keep
  keptOnce,    \* _kept_once
  dirThere,    \* _temp_dir is known
  closed,      \* _closed
  temp,        \* images in the temporary directory
  kept,        \* images in the lasting cache
  uncopied     \* images the last copying failed to copy

daemon == <<shown, asking>>
worker == <<at, song, cover>>
answers == <<memo, inflight, cooling>>
images == <<imageInflight, imageCooling>>
wishes == <<keep, keptOnce>>
files == <<temp, kept, uncopied>>
vars == <<shown, asking, jobs, at, song, cover, memo, inflight, cooling, imageInflight,
          imageCooling, keep, keptOnce, dirThere, closed, temp, kept, uncopied>>

Job ==
  [do : {"look up"}, song : Songs] \cup [do : {"download"}, cover : Covers]
    \cup [do : {"drop"}, song : Songs \cup {NoSong}]

Known(s) == \E i \in 1 .. Len(memo) : memo[i] = s

Kept(url) == url \in kept
InTemp(url) == dirThere /\ url \in temp

Running == keptOnce /\ ~closed

----------------------------------------------------------------------------
(* Copying for the history.                                                *)

(* keep_cover_images: what is missing is copied from the temporary         *)
(* directory if it is there, and everything that is not wanted goes.  Each *)
(* copy may fail.                                                          *)
Copy(urls) ==
  LET missing == {u \in urls \ kept : InTemp(u)}
  IN  \E copied \in SUBSET missing :
        /\ kept' = (kept \cap urls) \cup copied
        /\ uncopied' = missing \ copied

----------------------------------------------------------------------------
(* The daemon.                                                             *)

Submit(job) == jobs' = Append(jobs, job)

(* keep_covers, at the start and whenever the history changes.             *)
KeepCovers(urls) ==
  /\ ~closed
  /\ asking = NoCover
  /\ IF keptOnce /\ urls = keep
       THEN UNCHANGED <<wishes, kept, uncopied>>
       ELSE /\ keep' = urls
            /\ keptOnce' = TRUE
            /\ Copy(urls)
  /\ UNCHANGED <<daemon, jobs, worker, answers, images, dirThere, closed, temp>>

(* Variant: the temporary images go at once.                               *)
TrackChangeDroppingAtOnce(s) ==
  /\ Running
  /\ asking = NoCover
  /\ shown' = s
  /\ temp' = temp \cap {u \in Covers : \E k \in Songs : k = s /\ Known(k) /\ CoverOf[k] = u}
  /\ UNCHANGED <<asking, jobs, worker, answers, images, wishes, dirThere, closed, kept, uncopied>>

(* The song changed, or was paused or resumed: the temporary images of     *)
(* others go, behind everything the worker has to do for them.             *)
TrackChange(s) ==
  /\ Running
  /\ asking = NoCover
  /\ Len(jobs) < MaxJobs
  /\ shown' = s
  /\ Submit([do |-> "drop", song |-> s])
  /\ UNCHANGED <<asking, worker, answers, images, wishes, dirThere, closed, files>>

(* get, by every stage of a poll: a song that is not known and not being   *)
(* looked up is, unless it failed a moment ago.  The last stage asks for   *)
(* it under the album the catalog had.                                     *)
NamesOf(s) == {k \in Songs : s \in Songs /\ k \in {s, FilledIn[s]}}

Get(s) ==
  /\ Running
  /\ asking = NoCover
  /\ s \in NamesOf(shown)
  /\ s = shown \/ Known(shown)
  /\ ~Known(s)
  /\ s \notin inflight
  /\ s \notin cooling
  /\ inflight' = inflight \cup {s}
  /\ Submit([do |-> "look up", song |-> s])
  /\ UNCHANGED <<daemon, worker, memo, cooling, images, wishes, dirThere, closed, files>>

(* Variant: an image that was dropped is not missed.                       *)
FindMissingOnce ==
  /\ Running
  /\ asking = NoCover
  /\ shown \in Songs
  /\ Known(shown)
  /\ CoverOf[shown] # NoCover
  /\ ~Kept(CoverOf[shown])
  /\ ~dirThere
  /\ asking' = CoverOf[shown]
  /\ UNCHANGED <<shown, jobs, worker, answers, images, wishes, dirThere, closed, files>>

(* get_local_path finds neither copy of a known cover, ...                 *)
FindMissing ==
  /\ Running
  /\ asking = NoCover
  /\ shown \in Songs
  /\ Known(shown)
  /\ CoverOf[shown] # NoCover
  /\ ~Kept(CoverOf[shown])
  /\ ~InTemp(CoverOf[shown])
  /\ asking' = CoverOf[shown]
  /\ UNCHANGED <<shown, jobs, worker, answers, images, wishes, dirThere, closed, files>>

(* ... and has it downloaded again, unless that is under way or failed a   *)
(* moment ago.                                                             *)
DownloadAgain ==
  /\ asking # NoCover
  /\ asking' = NoCover
  /\ \/ /\ asking \in imageInflight \cup imageCooling
        /\ UNCHANGED <<jobs, imageInflight>>
     \/ /\ asking \notin imageInflight \cup imageCooling
        /\ imageInflight' = imageInflight \cup {asking}
        /\ Submit([do |-> "download", cover |-> asking])
  /\ UNCHANGED <<shown, worker, answers, imageCooling, wishes, dirThere, closed, files>>

(* The time a failure is left alone runs out.                              *)
LookUpAgain(s) ==
  /\ s \in cooling
  /\ cooling' = cooling \ {s}
  /\ UNCHANGED <<daemon, jobs, worker, memo, inflight, images, wishes, dirThere, closed, files>>

FetchAgain(url) ==
  /\ url \in imageCooling
  /\ imageCooling' = imageCooling \ {url}
  /\ UNCHANGED <<daemon, jobs, worker, answers, imageInflight, wishes, dirThere, closed, files>>

(* shutdown: what waits is cancelled, and its callbacks hear of it.        *)
Waiting(what) == {job \in Job : job.do = what /\ \E i \in 1 .. Len(jobs) : jobs[i] = job}

Shutdown ==
  /\ Running
  /\ asking = NoCover
  /\ closed' = TRUE
  /\ dirThere' = FALSE
  /\ jobs' = <<>>
  /\ inflight' = inflight \ {job.song : job \in Waiting("look up")}
  /\ cooling' = cooling \cup {job.song : job \in Waiting("look up")}
  /\ imageInflight' = imageInflight \ {job.cover : job \in Waiting("download")}
  /\ UNCHANGED <<daemon, worker, memo, imageCooling, wishes, files>>

----------------------------------------------------------------------------
(* The worker.                                                             *)

FirstStep(job) ==
  CASE job.do = "look up"  -> "looking up"
    [] job.do = "download" -> "image"
    [] job.do = "drop"     -> "dropping"

(* The executor starts the oldest job.                                     *)
Take ==
  /\ at = "idle"
  /\ jobs # <<>>
  /\ jobs' = Tail(jobs)
  /\ at' = FirstStep(Head(jobs))
  /\ song' = IF Head(jobs).do = "download" THEN NoSong ELSE Head(jobs).song
  /\ cover' = IF Head(jobs).do = "download" THEN Head(jobs).cover ELSE NoCover
  /\ UNCHANGED <<daemon, answers, images, wishes, dirThere, closed, files>>

(* _fetch_all: the catalog answers, ...                                    *)
LookUp ==
  /\ at = "looking up"
  /\ cover' = CoverOf[song]
  /\ at' = IF CoverOf[song] = NoCover THEN "done" ELSE "image"
  /\ UNCHANGED <<daemon, jobs, song, answers, images, wishes, dirThere, closed, files>>

(* Variant: the callback of a failed lookup leaves the song in flight.     *)
LookUpFailsForgetfully ==
  /\ at = "looking up"
  /\ at' = "idle"
  /\ cooling' = cooling \cup {song}
  /\ UNCHANGED <<daemon, jobs, song, cover, memo, inflight, images, wishes, dirThere, closed,
                 files>>

(* ... or cannot be reached: _on_done leaves the song alone for a while.   *)
LookUpFails ==
  /\ at = "looking up"
  /\ at' = "idle"
  /\ inflight' = inflight \ {song}
  /\ cooling' = cooling \cup {song}
  /\ UNCHANGED <<daemon, jobs, song, cover, memo, images, wishes, dirThere, closed, files>>

(* _download: nothing to do for an image that is there; otherwise it needs *)
(* the temporary directory, which may be impossible to make, and is never  *)
(* made after the end.                                                     *)
FindImage ==
  /\ at = "image"
  /\ \/ /\ Kept(cover) \/ InTemp(cover)
        /\ at' = "done"
        /\ UNCHANGED dirThere
     \/ /\ ~Kept(cover) /\ ~dirThere
        /\ at' = "done"
        /\ UNCHANGED dirThere
     \/ /\ ~Kept(cover) /\ ~InTemp(cover)
        /\ dirThere \/ ~closed
        /\ at' = "downloading"
        /\ dirThere' = TRUE
  /\ UNCHANGED <<daemon, jobs, song, cover, answers, images, wishes, closed, files>>

Download ==
  /\ at = "downloading"
  /\ at' = "downloaded"
  /\ temp' = temp \cup {cover}
  /\ UNCHANGED <<daemon, jobs, song, cover, answers, images, wishes, dirThere, closed, kept,
                 uncopied>>

DownloadFails ==
  /\ at = "downloading"
  /\ at' = "done"
  /\ imageCooling' = imageCooling \cup {cover}
  /\ UNCHANGED <<daemon, jobs, song, cover, answers, imageInflight, wishes, dirThere, closed,
                 files>>

(* Variant: the history is not asked again when an image has arrived.      *)
KeepArrivedNever ==
  /\ at = "downloaded"
  /\ at' = "done"
  /\ UNCHANGED <<daemon, jobs, song, cover, answers, images, wishes, dirThere, closed, files>>

(* The song may have made the history while its image was on its way.      *)
KeepArrived ==
  /\ at = "downloaded"
  /\ at' = "done"
  /\ IF cover \in keep THEN Copy(keep) ELSE UNCHANGED <<kept, uncopied>>
  /\ UNCHANGED <<daemon, jobs, song, cover, answers, images, wishes, dirThere, closed, temp>>

(* _on_done and _trim_locked, or _image_done.                              *)
Finish ==
  /\ at = "done"
  /\ at' = "idle"
  /\ IF song = NoSong
       THEN /\ imageInflight' = imageInflight \ {cover}
            /\ UNCHANGED <<memo, inflight, cooling>>
       ELSE /\ memo' = IF Len(memo) < MaxMemo THEN Append(memo, song)
                       ELSE Append(Tail(memo), song)
            /\ inflight' = inflight \ {song}
            /\ cooling' = cooling \ {song}
            /\ UNCHANGED imageInflight
  /\ UNCHANGED <<daemon, jobs, song, cover, imageCooling, wishes, dirThere, closed, files>>

(* _drop_temp: the image of the song it was queued for is spared, ...      *)
ReadSpared ==
  /\ at = "dropping"
  /\ at' = IF dirThere THEN "sweeping" ELSE "idle"
  /\ cover' = IF song \in Songs /\ Known(song) THEN CoverOf[song] ELSE NoCover
  /\ UNCHANGED <<daemon, jobs, song, answers, images, wishes, dirThere, closed, files>>

(* ... the others are deleted.                                             *)
Sweep ==
  /\ at = "sweeping"
  /\ at' = "idle"
  /\ temp' = temp \cap {cover}
  /\ UNCHANGED <<daemon, jobs, song, cover, answers, images, wishes, dirThere, closed, kept,
                 uncopied>>

----------------------------------------------------------------------------
(* The process ends, however far it got, and a new one starts: it sweeps   *)
(* the temporary directory of the one before and knows nothing.            *)
Restart ==
  /\ keptOnce
  /\ shown' = NoSong /\ asking' = NoCover
  /\ jobs' = <<>>
  /\ at' = "idle" /\ song' = NoSong /\ cover' = NoCover
  /\ memo' = <<>> /\ inflight' = {} /\ cooling' = {}
  /\ imageInflight' = {} /\ imageCooling' = {}
  /\ keep' = {} /\ keptOnce' = FALSE
  /\ dirThere' = FALSE /\ closed' = FALSE
  /\ temp' = {} /\ uncopied' = {}
  /\ UNCHANGED kept

Init ==
  /\ shown = NoSong /\ asking = NoCover
  /\ jobs = <<>>
  /\ at = "idle" /\ song = NoSong /\ cover = NoCover
  /\ memo = <<>> /\ inflight = {} /\ cooling = {}
  /\ imageInflight = {} /\ imageCooling = {}
  /\ keep = {} /\ keptOnce = FALSE
  /\ dirThere = FALSE /\ closed = FALSE
  /\ temp = {} /\ uncopied = {}
  /\ kept \in SUBSET Covers

DaemonNext ==
  \/ \E urls \in SUBSET Covers : KeepCovers(urls)
  \/ \E s \in Songs \cup {NoSong} : TrackChange(s)
  \/ \E s \in Songs : Get(s)
  \/ FindMissing
  \/ DownloadAgain
  \/ Shutdown

WorkerNext ==
  \/ Take
  \/ LookUp
  \/ LookUpFails
  \/ FindImage
  \/ Download
  \/ DownloadFails
  \/ KeepArrived
  \/ Finish
  \/ ReadSpared
  \/ Sweep

Next ==
  \/ DaemonNext
  \/ WorkerNext
  \/ \E s \in Songs : LookUpAgain(s)
  \/ \E url \in Covers : FetchAgain(url)
  \/ Restart

Spec == Init /\ [][Next]_vars

(***************************************************************************)
(* The worker never rests on a job (every request has a timeout); the      *)
(* daemon asks for what it shows in every poll, and time passes; and where *)
(* the song that is shown is looked up and its image fetched for ever, the *)
(* catalog answers some day, the directory can be made and the download    *)
(* succeeds.                                                               *)
(***************************************************************************)
ImageForShown == shown \in Songs /\ cover = CoverOf[shown]

Fairness ==
  /\ WF_vars(WorkerNext)
  /\ WF_vars(\E s \in Songs : s = shown /\ Get(s))
  /\ SF_vars(FindMissing)
  /\ WF_vars(DownloadAgain)
  /\ WF_vars(\E s \in Songs : s = shown /\ LookUpAgain(s))
  /\ WF_vars(\E s \in Songs : s = shown /\ FetchAgain(CoverOf[s]))
  /\ SF_vars(song = shown /\ LookUp)
  /\ SF_vars(ImageForShown /\ FindImage /\ at' = "downloading")
  /\ SF_vars(ImageForShown /\ Download)

FairSpec == Spec /\ Fairness

----------------------------------------------------------------------------
(* Properties.                                                             *)

(* What is marked as under way is under way: it waits for the worker, once,*)
(* or the worker is at it.  A mark that stays behind, after a failure or   *)
(* the end, would keep the song from ever being looked up again.           *)
UnderWay(s) ==
  \/ \E i \in 1 .. Len(jobs) : jobs[i] = [do |-> "look up", song |-> s]
  \/ at \in {"looking up", "image", "downloading", "downloaded", "done"} /\ song = s

BeingFetched(url) ==
  \/ \E i \in 1 .. Len(jobs) : jobs[i] = [do |-> "download", cover |-> url]
  \/ at \in {"image", "downloading", "downloaded", "done"} /\ song = NoSong /\ cover = url

MarksAreTrue ==
  /\ inflight = {s \in Songs : UnderWay(s)}
  /\ imageInflight = {url \in Covers : BeingFetched(url)}

(* "Cover images stay on disk only for the songs in the history", and for  *)
(* these they do: an image that arrived while the history changed is       *)
(* copied by one of the two threads, unless the disk refused.              *)
ImagesFollowHistory ==
  keptOnce =>
    /\ kept \subseteq keep
    /\ \A url \in keep \ (kept \cup uncopied) :
         InTemp(url) => at = "downloaded" /\ cover = url

(* The temporary images are the shown song's, under either of its albums,  *)
(* as soon as the worker is done with what was queued for songs before it. *)
DropIsDue ==
  \/ at \in {"dropping", "sweeping"}
  \/ \E i \in 1 .. Len(jobs) : jobs[i].do = "drop"

TempIsForShown ==
  Running /\ ~DropIsDue =>
    \A url \in temp : \E s \in NamesOf(shown) : CoverOf[s] = url

(* The song that plays comes to have its image, again and again, whatever  *)
(* fails meanwhile and whatever the history does with its own copy.        *)
ShownGetsItsImage ==
  \A s \in Songs :
    <>[](shown = s /\ Running) /\ CoverOf[s] # NoCover
      => []<>(Kept(CoverOf[s]) \/ InTemp(CoverOf[s]))
=============================================================================
