-------------------------- MODULE CoverFetcher_proofs --------------------------
(***************************************************************************)
(* What holds of the covers for all songs, covers, memo sizes and numbers  *)
(* of jobs.  The invariants build on each other: types; the marks against  *)
(* the queue and the worker; the images against the history; and, for the  *)
(* temporary images, what the order of the queue says of each job.         *)
(***************************************************************************)
EXTENDS CoverFetcher, TLAPS

(* Where the worker may be, and what it then has in hand.                  *)
Places == {"idle", "looking up", "image", "downloading", "downloaded", "done", "dropping",
           "sweeping"}

Fetching == {"image", "downloading", "downloaded"}

TypeInv ==
  /\ shown \in Songs \cup {NoSong} /\ asking \in Covers \cup {NoCover}
  /\ jobs \in Seq(Job)
  /\ at \in Places /\ song \in Songs \cup {NoSong} /\ cover \in Covers \cup {NoCover}
  /\ at = "looking up" => song \in Songs
  /\ at \in Fetching => cover \in Covers
  /\ at = "done" /\ song = NoSong => cover \in Covers
  /\ inflight \subseteq Songs /\ imageInflight \subseteq Covers
  /\ keptOnce \in BOOLEAN /\ dirThere \in BOOLEAN /\ closed \in BOOLEAN
  /\ temp \subseteq Covers

(* What a job is, by what it does.                                         *)
LEMMA JobFields ==
  ASSUME NEW job \in Job
  PROVE  /\ job.do \in {"look up", "download", "drop"}
         /\ job.do = "look up" => job.song \in Songs /\ job = [do |-> "look up", song |-> job.song]
         /\ job.do = "download" => /\ job.cover \in Covers
                                   /\ job = [do |-> "download", cover |-> job.cover]
         /\ job.do = "drop" => job.song \in Songs \cup {NoSong}
  <1>1. CASE job \in [do : {"look up"}, song : Songs]
    BY <1>1
  <1>2. CASE job \in [do : {"download"}, cover : Covers]
    BY <1>2
  <1>3. CASE job \in [do : {"drop"}, song : Songs \cup {NoSong}]
    BY <1>3
  <1> QED BY <1>1, <1>2, <1>3 DEF Job

(* The queue after its oldest job was taken, and after one more was put in.*)
LEMMA TakenJobs ==
  ASSUME jobs \in Seq(Job), jobs # <<>>
  PROVE  /\ Len(jobs) \in Nat \ {0}
         /\ Head(jobs) = jobs[1] /\ jobs[1] \in Job
         /\ Tail(jobs) \in Seq(Job) /\ Len(Tail(jobs)) = Len(jobs) - 1
         /\ \A i \in 1 .. Len(Tail(jobs)) : Tail(jobs)[i] = jobs[i + 1]
  OBVIOUS

LEMMA SubmittedJobs ==
  ASSUME jobs \in Seq(Job), NEW job \in Job, Submit(job)
  PROVE  /\ jobs' \in Seq(Job) /\ Len(jobs') = Len(jobs) + 1 /\ Len(jobs) \in Nat
         /\ \A i \in 1 .. Len(jobs) : jobs'[i] = jobs[i]
         /\ jobs'[Len(jobs) + 1] = job
  BY DEF Submit

LEMMA InitTypes == Init => TypeInv
<1> SUFFICES ASSUME Init PROVE TypeInv
  OBVIOUS
<1>1. jobs \in Seq(Job)
  BY DEF Init
<1> QED BY <1>1 DEF Init, TypeInv, Places, Fetching

LEMMA TypesKept == TypeInv /\ [Next]_vars => TypeInv'
<1> SUFFICES ASSUME TypeInv, [Next]_vars PROVE TypeInv'
  OBVIOUS
<1> USE DEF daemon, worker, answers, images, wishes, files
<1>1. ASSUME NEW urls \in SUBSET Covers, KeepCovers(urls) PROVE TypeInv'
  BY <1>1 DEF KeepCovers, TypeInv
<1>2. ASSUME NEW s \in Songs \cup {NoSong}, TrackChange(s) PROVE TypeInv'
  <2>1. [do |-> "drop", song |-> s] \in Job
    BY DEF Job
  <2>2. jobs' \in Seq(Job)
    BY <1>2, <2>1, SubmittedJobs DEF TrackChange, TypeInv
  <2> QED BY <1>2, <2>2 DEF TrackChange, TypeInv
<1>3. ASSUME NEW s \in Songs, Get(s) PROVE TypeInv'
  <2>1. [do |-> "look up", song |-> s] \in Job
    BY DEF Job
  <2>2. jobs' \in Seq(Job)
    BY <1>3, <2>1, SubmittedJobs DEF Get, TypeInv
  <2> QED BY <1>3, <2>2 DEF Get, TypeInv
<1>4. CASE FindMissing
  BY <1>4, CoverAssumption DEF FindMissing, TypeInv
<1>5. CASE DownloadAgain
  <2>1. asking \in Covers
    BY <1>5 DEF DownloadAgain, TypeInv
  <2>2. [do |-> "download", cover |-> asking] \in Job
    BY <2>1 DEF Job
  <2>3. jobs' \in Seq(Job)
    BY <1>5, <2>2, SubmittedJobs DEF DownloadAgain, TypeInv
  <2> QED BY <1>5, <2>1, <2>3 DEF DownloadAgain, TypeInv
<1>6. CASE Shutdown
  <2>0. jobs' = <<>>
    BY <1>6 DEF Shutdown
  <2>1. jobs' \in Seq(Job)
    BY <2>0
  <2>2. inflight' \subseteq inflight /\ imageInflight' \subseteq imageInflight
    BY <1>6 DEF Shutdown
  <2>3. /\ UNCHANGED <<shown, asking, at, song, cover, keptOnce, temp>>
        /\ closed' = TRUE /\ dirThere' = FALSE
    BY <1>6 DEF Shutdown
  <2> QED BY <2>1, <2>2, <2>3 DEF TypeInv
<1>7. CASE Take
  <2>1. Head(jobs) \in Job /\ Tail(jobs) \in Seq(Job)
    BY <1>7, TakenJobs DEF Take, TypeInv
  <2> DEFINE job == Head(jobs)
  <2>2. /\ job.do \in {"look up", "download", "drop"}
        /\ job.do = "look up" => job.song \in Songs
        /\ job.do = "download" => job.cover \in Covers
        /\ job.do = "drop" => job.song \in Songs \cup {NoSong}
    BY <2>1, JobFields
  <2>3. /\ at' = FirstStep(job)
        /\ song' = IF job.do = "download" THEN NoSong ELSE job.song
        /\ cover' = IF job.do = "download" THEN job.cover ELSE NoCover
        /\ jobs' = Tail(jobs)
        /\ UNCHANGED <<shown, asking, inflight, imageInflight, keptOnce, dirThere, closed, temp>>
    BY <1>7 DEF Take
  <2> HIDE DEF job
  <2>4. /\ at' \in {"looking up", "image", "dropping"}
        /\ song' \in Songs \cup {NoSong} /\ cover' \in Covers \cup {NoCover}
        /\ at' = "looking up" => song' \in Songs
        /\ at' = "image" => cover' \in Covers
    BY <2>2, <2>3 DEF FirstStep
  <2> QED BY <2>1, <2>3, <2>4 DEF TypeInv, Places, Fetching
<1>8. CASE LookUp
  BY <1>8, CoverAssumption DEF LookUp, TypeInv, Places, Fetching
<1>9. CASE LookUpFails
  BY <1>9 DEF LookUpFails, TypeInv, Places, Fetching
<1>10. CASE FindImage
  BY <1>10 DEF FindImage, TypeInv, Places, Fetching
<1>11. CASE Download
  BY <1>11 DEF Download, TypeInv, Places, Fetching
<1>12. CASE DownloadFails
  BY <1>12 DEF DownloadFails, TypeInv, Places, Fetching
<1>13. CASE KeepArrived
  BY <1>13 DEF KeepArrived, TypeInv, Places, Fetching
<1>14. CASE Finish
  BY <1>14 DEF Finish, TypeInv, Places, Fetching
<1>15. CASE ReadSpared
  BY <1>15, CoverAssumption DEF ReadSpared, TypeInv, Places, Fetching
<1>16. CASE Sweep
  BY <1>16 DEF Sweep, TypeInv, Places, Fetching
<1>17. ASSUME NEW s \in Songs, LookUpAgain(s) PROVE TypeInv'
  BY <1>17 DEF LookUpAgain, TypeInv
<1>18. ASSUME NEW url \in Covers, FetchAgain(url) PROVE TypeInv'
  BY <1>18 DEF FetchAgain, TypeInv
<1>19. CASE Restart
  <2>1. jobs' \in Seq(Job)
    BY <1>19 DEF Restart
  <2> QED BY <1>19, <2>1 DEF Restart, TypeInv, Places, Fetching
<1>20. CASE UNCHANGED vars
  BY <1>20 DEF vars, TypeInv
<1> QED
  BY <1>1, <1>2, <1>3, <1>4, <1>5, <1>6, <1>7, <1>8, <1>9, <1>10, <1>11, <1>12, <1>13, <1>14,
     <1>15, <1>16, <1>17, <1>18, <1>19, <1>20 DEF Next, DaemonNext, WorkerNext

----------------------------------------------------------------------------
(* The images kept for the history.                                        *)

(* A directory that is not known and may still be made is empty, and the   *)
(* worker only downloads into one that is known or was until the end.      *)
DirInv ==
  /\ ~dirThere /\ ~closed => temp = {}
  /\ at = "downloading" => dirThere \/ closed

(* What copying leaves uncopied failed.                                    *)
LEMMA Copied ==
  ASSUME NEW urls, Copy(urls)
  PROVE  /\ kept' \subseteq urls
         /\ \A url \in urls \ (kept' \cup uncopied') : ~InTemp(url)
  BY DEF Copy

LEMMA DirKept == TypeInv /\ DirInv /\ [Next]_vars => DirInv'
<1> SUFFICES ASSUME TypeInv, DirInv, [Next]_vars PROVE DirInv'
  OBVIOUS
<1> USE DEF DirInv, daemon, worker, answers, images, wishes, files
<1>1. ASSUME NEW urls \in SUBSET Covers, KeepCovers(urls) PROVE DirInv'
  BY <1>1 DEF KeepCovers
<1>2. ASSUME NEW s \in Songs \cup {NoSong}, TrackChange(s) PROVE DirInv'
  BY <1>2 DEF TrackChange
<1>3. ASSUME NEW s \in Songs, Get(s) PROVE DirInv'
  BY <1>3 DEF Get
<1>4. CASE FindMissing \/ DownloadAgain \/ Shutdown \/ Restart
  BY <1>4 DEF FindMissing, DownloadAgain, Shutdown, Restart
<1>5. CASE Take
  BY <1>5, TakenJobs, JobFields DEF Take, FirstStep, TypeInv
<1>6. CASE LookUp \/ LookUpFails \/ FindImage \/ Download \/ DownloadFails \/ KeepArrived
  BY <1>6 DEF LookUp, LookUpFails, FindImage, Download, DownloadFails, KeepArrived
<1>7. CASE Finish \/ ReadSpared \/ Sweep
  BY <1>7 DEF Finish, ReadSpared, Sweep
<1>8. ASSUME NEW s \in Songs, LookUpAgain(s) PROVE DirInv'
  BY <1>8 DEF LookUpAgain
<1>9. ASSUME NEW url \in Covers, FetchAgain(url) PROVE DirInv'
  BY <1>9 DEF FetchAgain
<1>10. CASE UNCHANGED vars
  BY <1>10 DEF vars
<1> QED
  BY <1>1, <1>2, <1>3, <1>4, <1>5, <1>6, <1>7, <1>8, <1>9, <1>10
     DEF Next, DaemonNext, WorkerNext

LEMMA ImagesKept ==
  TypeInv /\ DirInv /\ ImagesFollowHistory /\ [Next]_vars => ImagesFollowHistory'
<1> SUFFICES ASSUME TypeInv, DirInv, ImagesFollowHistory, [Next]_vars
             PROVE  ImagesFollowHistory'
  OBVIOUS
<1> USE DEF ImagesFollowHistory, InTemp, daemon, worker, answers, images, wishes, files
<1>1. ASSUME NEW urls \in SUBSET Covers, KeepCovers(urls) PROVE ImagesFollowHistory'
  <2>1. CASE keptOnce /\ urls = keep
    BY <1>1, <2>1 DEF KeepCovers
  <2>2. CASE ~(keptOnce /\ urls = keep)
    <3>1. keep' = urls /\ Copy(urls) /\ UNCHANGED <<dirThere, temp>>
      BY <1>1, <2>2 DEF KeepCovers
    <3> QED BY <3>1, Copied
  <2> QED BY <2>1, <2>2
<1>2. ASSUME NEW s \in Songs \cup {NoSong}, TrackChange(s) PROVE ImagesFollowHistory'
  BY <1>2 DEF TrackChange
<1>3. ASSUME NEW s \in Songs, Get(s) PROVE ImagesFollowHistory'
  BY <1>3 DEF Get
<1>4. CASE FindMissing \/ DownloadAgain
  BY <1>4 DEF FindMissing, DownloadAgain
<1>5. CASE Shutdown \/ Restart
  BY <1>5 DEF Shutdown, Restart
<1>6. CASE Take
  BY <1>6 DEF Take
<1>7. CASE LookUp \/ LookUpFails \/ DownloadFails
  BY <1>7 DEF LookUp, LookUpFails, DownloadFails
<1>8. CASE FindImage
  BY <1>8 DEF FindImage, DirInv
<1>9. CASE Download
  BY <1>9 DEF Download
<1>10. CASE KeepArrived
  <2>1. CASE cover \in keep
    <3>1. Copy(keep) /\ UNCHANGED <<keep, dirThere, temp>>
      BY <1>10, <2>1 DEF KeepArrived
    <3> QED BY <3>1, Copied
  <2>2. CASE cover \notin keep
    BY <1>10, <2>2 DEF KeepArrived
  <2> QED BY <2>1, <2>2
<1>11. CASE Finish \/ ReadSpared \/ Sweep
  BY <1>11 DEF Finish, ReadSpared, Sweep
<1>12. ASSUME NEW s \in Songs, LookUpAgain(s) PROVE ImagesFollowHistory'
  BY <1>12 DEF LookUpAgain
<1>13. ASSUME NEW url \in Covers, FetchAgain(url) PROVE ImagesFollowHistory'
  BY <1>13 DEF FetchAgain
<1>14. CASE UNCHANGED vars
  BY <1>14 DEF vars
<1> QED
  BY <1>1, <1>2, <1>3, <1>4, <1>5, <1>6, <1>7, <1>8, <1>9, <1>10, <1>11, <1>12, <1>13, <1>14
     DEF Next, DaemonNext, WorkerNext

(* No image stays on disk that the history does not list; and one that it  *)
(* lists is there, if it was downloaded and the disk took it, whichever of *)
(* the two threads came second.                                            *)
THEOREM KeptForTheHistory == Spec => []ImagesFollowHistory
<1>1. Init => TypeInv /\ DirInv /\ ImagesFollowHistory
  BY InitTypes DEF Init, DirInv, ImagesFollowHistory
<1>2. TypeInv /\ DirInv /\ ImagesFollowHistory /\ [Next]_vars
        => (TypeInv /\ DirInv /\ ImagesFollowHistory)'
  BY TypesKept, DirKept, ImagesKept
<1> QED BY <1>1, <1>2, PTL DEF Spec
----------------------------------------------------------------------------
(* The marks.                                                              *)

Fetched == {"image", "downloading", "downloaded", "done"}

LookUpOf(s) == [do |-> "look up", song |-> s]
DownloadOf(url) == [do |-> "download", cover |-> url]

InQueue(job) == \E i \in 1 .. Len(jobs) : jobs[i] = job

(* A lookup or a download waits once, and not while the worker is at it.   *)
OnceInv ==
  /\ \A i, j \in 1 .. Len(jobs) : jobs[i] = jobs[j] /\ jobs[i].do # "drop" => i = j
  /\ at \in Fetched \cup {"looking up"} /\ song \in Songs => ~InQueue(LookUpOf(song))
  /\ at \in Fetched /\ song = NoSong => ~InQueue(DownloadOf(cover))

LEMMA DifferentJobs ==
  ASSUME NEW s, NEW url
  PROVE  LookUpOf(s) # DownloadOf(url)
  BY LookUpOf(s).do = "look up", DownloadOf(url).do = "download" DEF LookUpOf, DownloadOf

LEMMA UnderWayIs ==
  ASSUME NEW s
  PROVE  /\ UnderWay(s) <=> InQueue(LookUpOf(s)) \/ (at \in Fetched \cup {"looking up"} /\ song = s)
         /\ BeingFetched(s) <=>
              InQueue(DownloadOf(s)) \/ (at \in Fetched /\ song = NoSong /\ cover = s)
         /\ UnderWay(s)' <=>
              InQueue(LookUpOf(s))' \/ (at' \in Fetched \cup {"looking up"} /\ song' = s)
         /\ BeingFetched(s)' <=>
              InQueue(DownloadOf(s))' \/ (at' \in Fetched /\ song' = NoSong /\ cover' = s)
  BY DEF UnderWay, BeingFetched, InQueue, LookUpOf, DownloadOf, Fetched

(* What is in the queue after one more job.                                *)
LEMMA InQueueAfter ==
  ASSUME TypeInv, NEW job \in Job, Submit(job)
  PROVE  \A other : InQueue(other)' <=> InQueue(other) \/ other = job
<1>1. /\ Len(jobs') = Len(jobs) + 1 /\ Len(jobs) \in Nat
      /\ \A i \in 1 .. Len(jobs) : jobs'[i] = jobs[i]
      /\ jobs'[Len(jobs) + 1] = job
  BY SubmittedJobs DEF TypeInv
<1> QED BY <1>1 DEF InQueue

(* What is in it after the oldest was taken, which waited only once.       *)
LEMMA InQueueTaken ==
  ASSUME TypeInv, OnceInv, Take
  PROVE  /\ Head(jobs) \in Job
         /\ \A other : InQueue(other) <=> InQueue(other)' \/ other = Head(jobs)
         /\ \A job : job = Head(jobs) /\ job.do # "drop" => ~InQueue(job)'
<1>1. /\ Len(jobs) \in Nat \ {0} /\ Head(jobs) = jobs[1] /\ jobs[1] \in Job
      /\ jobs' = Tail(jobs)
      /\ Len(jobs') = Len(jobs) - 1
      /\ \A i \in 1 .. Len(jobs') : jobs'[i] = jobs[i + 1]
  BY TakenJobs DEF Take, TypeInv
<1>2. \A i \in 1 .. Len(jobs) : i = 1 \/ (i - 1 \in 1 .. Len(jobs') /\ jobs'[i - 1] = jobs[i])
  BY <1>1
<1>3. \A other : InQueue(other) <=> InQueue(other)' \/ other = Head(jobs)
  BY <1>1, <1>2 DEF InQueue
<1>4. \A i \in 1 .. Len(jobs') : i + 1 \in 1 .. Len(jobs) /\ i + 1 # 1
  BY <1>1
<1>5. ASSUME Head(jobs).do # "drop", NEW i \in 1 .. Len(jobs'), jobs'[i] = Head(jobs)
      PROVE  FALSE
  <2>1. jobs[1] = jobs[i + 1] /\ jobs[1].do # "drop"
    BY <1>1, <1>5
  <2>2. 1 \in 1 .. Len(jobs) /\ i + 1 \in 1 .. Len(jobs) /\ i + 1 # 1
    BY <1>1, <1>4
  <2>3. \A k, j \in 1 .. Len(jobs) : jobs[k] = jobs[j] /\ jobs[k].do # "drop" => k = j
    BY DEF OnceInv
  <2> HIDE DEF OnceInv
  <2> QED BY <2>1, <2>2, <2>3
<1>6. \A job : job = Head(jobs) /\ job.do # "drop" => ~InQueue(job)'
  BY <1>5 DEF InQueue
<1> QED BY <1>1, <1>3, <1>6

(* A job that was not in the queue waits once.                             *)
LEMMA OnceAfter ==
  ASSUME TypeInv, OnceInv, NEW job \in Job, Submit(job), job.do # "drop" => ~InQueue(job)
  PROVE  \A i, j \in 1 .. Len(jobs') : jobs'[i] = jobs'[j] /\ jobs'[i].do # "drop" => i = j
<1>1. /\ Len(jobs') = Len(jobs) + 1 /\ Len(jobs) \in Nat
      /\ \A i \in 1 .. Len(jobs) : jobs'[i] = jobs[i]
      /\ jobs'[Len(jobs) + 1] = job
  BY SubmittedJobs DEF TypeInv
<1> SUFFICES ASSUME NEW i \in 1 .. Len(jobs'), NEW j \in 1 .. Len(jobs'),
                    jobs'[i] = jobs'[j], jobs'[i].do # "drop"
             PROVE  i = j
  OBVIOUS
<1>2. CASE i \in 1 .. Len(jobs) /\ j \in 1 .. Len(jobs)
  BY <1>1, <1>2 DEF OnceInv
<1>3. CASE i = Len(jobs) + 1 /\ j \in 1 .. Len(jobs)
  BY <1>1, <1>3 DEF InQueue
<1>4. CASE j = Len(jobs) + 1 /\ i \in 1 .. Len(jobs)
  BY <1>1, <1>4 DEF InQueue
<1> QED BY <1>1, <1>2, <1>3, <1>4

MarksInv == OnceInv /\ MarksAreTrue

(* Steps that leave the queue, the marks and what the worker has in hand.  *)
LEMMA MarksUntouched ==
  ASSUME MarksInv, UNCHANGED <<jobs, song, inflight, imageInflight>>,
         at' = at \/ {at, at'} \subseteq Fetched,
         cover' = cover
  PROVE  MarksInv'
<1>1. \A job : InQueue(job)' <=> InQueue(job)
  BY DEF InQueue
<1>2. (at' \in Fetched <=> at \in Fetched) /\ (at' = "looking up" <=> at = "looking up")
  BY DEF Fetched
<1>3. OnceInv'
  <2>1. /\ LookUpOf(song)' = LookUpOf(song) /\ DownloadOf(cover)' = DownloadOf(cover)
        /\ InQueue(LookUpOf(song))' <=> InQueue(LookUpOf(song))
        /\ InQueue(DownloadOf(cover))' <=> InQueue(DownloadOf(cover))
    BY <1>1 DEF LookUpOf, DownloadOf, InQueue
  <2> QED BY <2>1, <1>2 DEF MarksInv, OnceInv
<1>4. \A s : (UnderWay(s)' <=> UnderWay(s)) /\ (BeingFetched(s)' <=> BeingFetched(s))
  BY <1>1, UnderWayIs DEF InQueue, LookUpOf, DownloadOf, UnderWay, BeingFetched, Fetched
<1>5. MarksAreTrue'
  BY <1>4 DEF MarksInv, MarksAreTrue
<1> QED BY <1>3, <1>5 DEF MarksInv

(* One more lookup.                                                        *)
LEMMA MarksAfterGet ==
  ASSUME TypeInv, MarksInv, NEW s \in Songs, Get(s)
  PROVE  MarksInv'
<1> DEFINE job == LookUpOf(s)
<1>1. /\ Submit(job) /\ s \notin inflight /\ inflight' = inflight \cup {s}
      /\ UNCHANGED <<at, song, cover, imageInflight>>
  BY DEF Get, LookUpOf, worker, images
<1>2. job \in Job /\ job.do = "look up" /\ job.song = s
  BY DEF Job, LookUpOf
<1>3. ~InQueue(job) /\ ~(at \in Fetched \cup {"looking up"} /\ song = s)
  BY <1>1, UnderWayIs DEF MarksInv, MarksAreTrue
<1>4. \A other : InQueue(other)' <=> InQueue(other) \/ other = job
  BY <1>1, <1>2, InQueueAfter
<1>5. \A url : DownloadOf(url) # job
  BY DifferentJobs
<1>6. \A x : LookUpOf(x) = job => x = s
  BY <1>2 DEF LookUpOf
<1>7. \A i, j \in 1 .. Len(jobs') : jobs'[i] = jobs'[j] /\ jobs'[i].do # "drop" => i = j
  BY <1>1, <1>2, <1>3, OnceAfter DEF MarksInv
<1> HIDE DEF job
<1>8. OnceInv'
  <2>1. LookUpOf(song)' = LookUpOf(song) /\ DownloadOf(cover)' = DownloadOf(cover)
    BY <1>1 DEF LookUpOf, DownloadOf
  <2>2. at' \in Fetched \cup {"looking up"} /\ song' \in Songs => ~InQueue(LookUpOf(song))'
    BY <1>1, <1>3, <1>4, <1>6, <2>1 DEF MarksInv, OnceInv
  <2>3. at' \in Fetched /\ song' = NoSong => ~InQueue(DownloadOf(cover))'
    BY <1>1, <1>4, <1>5, <2>1 DEF MarksInv, OnceInv
  <2> QED BY <1>7, <2>2, <2>3 DEF OnceInv
<1>9. \A x : UnderWay(x)' <=> UnderWay(x) \/ x = s
  <2> SUFFICES ASSUME NEW x PROVE UnderWay(x)' <=> UnderWay(x) \/ x = s
    OBVIOUS
  <2>1. UnderWay(x)' <=> InQueue(LookUpOf(x))' \/ (at' \in Fetched \cup {"looking up"} /\ song' = x)
    BY UnderWayIs
  <2>2. InQueue(LookUpOf(x))' <=> InQueue(LookUpOf(x)) \/ LookUpOf(x) = job
    BY <1>4
  <2>3. LookUpOf(s) = job
    BY DEF job
  <2> QED BY <1>1, <1>6, <2>1, <2>2, <2>3, UnderWayIs
<1>10. \A x : BeingFetched(x)' <=> BeingFetched(x)
  <2> SUFFICES ASSUME NEW x PROVE BeingFetched(x)' <=> BeingFetched(x)
    OBVIOUS
  <2>1. BeingFetched(x)' <=>
          InQueue(DownloadOf(x))' \/ (at' \in Fetched /\ song' = NoSong /\ cover' = x)
    BY UnderWayIs
  <2>2. InQueue(DownloadOf(x))' <=> InQueue(DownloadOf(x))
    BY <1>4, <1>5
  <2> QED BY <1>1, <2>1, <2>2, UnderWayIs
<1>11. MarksAreTrue'
  BY <1>1, <1>9, <1>10 DEF MarksInv, MarksAreTrue
<1> QED BY <1>8, <1>11 DEF MarksInv

(* One more download.                                                      *)
LEMMA MarksAfterDownload ==
  ASSUME TypeInv, MarksInv, NEW url \in Covers, Submit(DownloadOf(url)),
         url \notin imageInflight, imageInflight' = imageInflight \cup {url},
         UNCHANGED <<at, song, cover, inflight>>
  PROVE  MarksInv'
<1> DEFINE job == DownloadOf(url)
<1>2. job \in Job /\ job.do = "download" /\ job.cover = url
  BY DEF Job, DownloadOf
<1>3. ~InQueue(job) /\ ~(at \in Fetched /\ song = NoSong /\ cover = url)
  BY UnderWayIs DEF MarksInv, MarksAreTrue
<1>4. \A other : InQueue(other)' <=> InQueue(other) \/ other = job
  BY <1>2, InQueueAfter
<1>5. \A x : LookUpOf(x) # job
  BY DifferentJobs
<1>6. \A x : DownloadOf(x) = job => x = url
  BY <1>2 DEF DownloadOf
<1>7. \A i, j \in 1 .. Len(jobs') : jobs'[i] = jobs'[j] /\ jobs'[i].do # "drop" => i = j
  BY <1>2, <1>3, OnceAfter DEF MarksInv
<1> HIDE DEF job
<1>8. OnceInv'
  <2>1. LookUpOf(song)' = LookUpOf(song) /\ DownloadOf(cover)' = DownloadOf(cover)
    BY DEF LookUpOf, DownloadOf
  <2>2. at' \in Fetched \cup {"looking up"} /\ song' \in Songs => ~InQueue(LookUpOf(song))'
    BY <1>4, <1>5, <2>1 DEF MarksInv, OnceInv
  <2>3. at' \in Fetched /\ song' = NoSong => ~InQueue(DownloadOf(cover))'
    BY <1>3, <1>4, <1>6, <2>1 DEF MarksInv, OnceInv
  <2> QED BY <1>7, <2>2, <2>3 DEF OnceInv
<1>9. \A x : UnderWay(x)' <=> UnderWay(x)
  <2> SUFFICES ASSUME NEW x PROVE UnderWay(x)' <=> UnderWay(x)
    OBVIOUS
  <2>1. InQueue(LookUpOf(x))' <=> InQueue(LookUpOf(x))
    BY <1>4, <1>5
  <2> QED BY <2>1, UnderWayIs
<1>10. \A x : BeingFetched(x)' <=> BeingFetched(x) \/ x = url
  <2> SUFFICES ASSUME NEW x PROVE BeingFetched(x)' <=> BeingFetched(x) \/ x = url
    OBVIOUS
  <2>1. InQueue(DownloadOf(x))' <=> InQueue(DownloadOf(x)) \/ DownloadOf(x) = job
    BY <1>4
  <2>2. DownloadOf(url) = job
    BY DEF job
  <2> QED BY <1>6, <2>1, <2>2, UnderWayIs
<1>11. MarksAreTrue'
  BY <1>9, <1>10 DEF MarksInv, MarksAreTrue
<1> QED BY <1>8, <1>11 DEF MarksInv

(* One more drop.                                                          *)
LEMMA MarksAfterDrop ==
  ASSUME TypeInv, MarksInv, NEW s \in Songs \cup {NoSong}, TrackChange(s)
  PROVE  MarksInv'
<1> DEFINE job == [do |-> "drop", song |-> s]
<1>1. Submit(job) /\ UNCHANGED <<at, song, cover, inflight, imageInflight>>
  BY DEF TrackChange, worker, answers, images
<1>2. job \in Job /\ job.do = "drop"
  BY DEF Job
<1>3. \A other : InQueue(other)' <=> InQueue(other) \/ other = job
  BY <1>1, <1>2, InQueueAfter
<1>4. \A x : LookUpOf(x).do = "look up" /\ DownloadOf(x).do = "download"
  BY DEF LookUpOf, DownloadOf
<1>5. \A i, j \in 1 .. Len(jobs') : jobs'[i] = jobs'[j] /\ jobs'[i].do # "drop" => i = j
  BY <1>1, <1>2, OnceAfter DEF MarksInv
<1> HIDE DEF job
<1>6. \A x : /\ InQueue(LookUpOf(x))' <=> InQueue(LookUpOf(x))
             /\ InQueue(DownloadOf(x))' <=> InQueue(DownloadOf(x))
  <2> SUFFICES ASSUME NEW x PROVE /\ InQueue(LookUpOf(x))' <=> InQueue(LookUpOf(x))
                                  /\ InQueue(DownloadOf(x))' <=> InQueue(DownloadOf(x))
    OBVIOUS
  <2>1. LookUpOf(x) # job /\ DownloadOf(x) # job
    BY <1>2, <1>4
  <2> QED BY <1>3, <2>1
<1>7. OnceInv'
  <2>1. LookUpOf(song)' = LookUpOf(song) /\ DownloadOf(cover)' = DownloadOf(cover)
    BY <1>1 DEF LookUpOf, DownloadOf
  <2>2. at' \in Fetched \cup {"looking up"} /\ song' \in Songs => ~InQueue(LookUpOf(song))'
    BY <1>1, <1>6, <2>1 DEF MarksInv, OnceInv
  <2>3. at' \in Fetched /\ song' = NoSong => ~InQueue(DownloadOf(cover))'
    BY <1>1, <1>6, <2>1 DEF MarksInv, OnceInv
  <2> QED BY <1>5, <2>2, <2>3 DEF OnceInv
<1>8. \A x : (UnderWay(x)' <=> UnderWay(x)) /\ (BeingFetched(x)' <=> BeingFetched(x))
  <2> SUFFICES ASSUME NEW x PROVE /\ UnderWay(x)' <=> UnderWay(x)
                                  /\ BeingFetched(x)' <=> BeingFetched(x)
    OBVIOUS
  <2> QED BY <1>1, <1>6, UnderWayIs
<1>9. MarksAreTrue'
  BY <1>1, <1>8 DEF MarksInv, MarksAreTrue
<1> QED BY <1>7, <1>9 DEF MarksInv

(* The worker takes a job.                                                 *)
LEMMA MarksAfterTake ==
  ASSUME TypeInv, MarksInv, Take
  PROVE  MarksInv'
<1>1. PICK job \in Job : job = Head(jobs)
  BY InQueueTaken DEF MarksInv
<1>2. /\ \A other : InQueue(other) <=> InQueue(other)' \/ other = job
      /\ job.do # "drop" => ~InQueue(job)'
  BY <1>1, InQueueTaken DEF MarksInv
<1>3. /\ job.do \in {"look up", "download", "drop"}
      /\ job.do = "look up" => job.song \in Songs /\ job = LookUpOf(job.song)
      /\ job.do = "download" => job.cover \in Covers /\ job = DownloadOf(job.cover)
  BY JobFields DEF LookUpOf, DownloadOf
<1>4. /\ at = "idle" /\ at' = FirstStep(job)
      /\ song' = IF job.do = "download" THEN NoSong ELSE job.song
      /\ cover' = IF job.do = "download" THEN job.cover ELSE NoCover
      /\ UNCHANGED <<inflight, imageInflight>>
  BY <1>1 DEF Take, answers, images
<1>5. \A i, j \in 1 .. Len(jobs') : jobs'[i] = jobs'[j] /\ jobs'[i].do # "drop" => i = j
  <2>1. /\ Len(jobs) \in Nat \ {0} /\ Len(jobs') = Len(jobs) - 1
        /\ \A i \in 1 .. Len(jobs') : jobs'[i] = jobs[i + 1]
    BY TakenJobs DEF Take, TypeInv
  <2> SUFFICES ASSUME NEW i \in 1 .. Len(jobs'), NEW j \in 1 .. Len(jobs'),
                      jobs'[i] = jobs'[j], jobs'[i].do # "drop"
               PROVE  i = j
    OBVIOUS
  <2>2. i + 1 \in 1 .. Len(jobs) /\ j + 1 \in 1 .. Len(jobs)
    BY <2>1
  <2>3. jobs[i + 1] = jobs[j + 1] /\ jobs[i + 1].do # "drop"
    BY <2>1
  <2>4. i + 1 = j + 1
    BY <2>2, <2>3 DEF MarksInv, OnceInv
  <2> QED BY <2>1, <2>4
<1>6. \A x : LookUpOf(x).do = "look up" /\ LookUpOf(x).song = x
            /\ DownloadOf(x).do = "download" /\ DownloadOf(x).cover = x
  BY DEF LookUpOf, DownloadOf
<1>7. \A x : /\ UnderWay(x) <=> InQueue(LookUpOf(x))
             /\ BeingFetched(x) <=> InQueue(DownloadOf(x))
  BY <1>4, UnderWayIs DEF Fetched
<1>8. CASE job.do = "look up"
  <2>1. at' = "looking up" /\ song' = job.song /\ job.song # NoSong
    BY <1>3, <1>4, <1>8, CoverAssumption DEF FirstStep
  <2>2. OnceInv'
    <3>1. LookUpOf(song)' = job
      BY <1>3, <1>8, <2>1 DEF LookUpOf
    <3>2. ~InQueue(LookUpOf(song))'
      BY <1>2, <1>8, <3>1
    <3> QED BY <1>5, <2>1, <3>2 DEF OnceInv, Fetched
  <2>3. \A x : (UnderWay(x)' <=> UnderWay(x)) /\ (BeingFetched(x)' <=> BeingFetched(x))
    <3> SUFFICES ASSUME NEW x PROVE /\ UnderWay(x)' <=> UnderWay(x)
                                    /\ BeingFetched(x)' <=> BeingFetched(x)
      OBVIOUS
    <3>1. LookUpOf(x) = job <=> x = job.song
      BY <1>3, <1>6, <1>8
    <3>2. DownloadOf(x) # job
      BY <1>6, <1>8
    <3>3. UnderWay(x)' <=> InQueue(LookUpOf(x))' \/ x = job.song
      BY <2>1, UnderWayIs
    <3>4. BeingFetched(x)' <=> InQueue(DownloadOf(x))'
      BY <2>1, UnderWayIs
    <3> QED BY <1>2, <1>7, <3>1, <3>2, <3>3, <3>4
  <2> QED BY <1>4, <2>2, <2>3 DEF MarksInv, MarksAreTrue
<1>9. CASE job.do = "download"
  <2>1. at' = "image" /\ song' = NoSong /\ cover' = job.cover /\ NoSong \notin Songs
    BY <1>3, <1>4, <1>9, CoverAssumption DEF FirstStep
  <2>2. OnceInv'
    <3>1. DownloadOf(cover)' = job
      BY <1>3, <1>9, <2>1 DEF DownloadOf
    <3>2. ~InQueue(DownloadOf(cover))'
      BY <1>2, <1>9, <3>1
    <3> QED BY <1>5, <2>1, <3>2 DEF OnceInv
  <2>3. \A x \in Songs : UnderWay(x)' <=> UnderWay(x)
    <3> SUFFICES ASSUME NEW x \in Songs PROVE UnderWay(x)' <=> UnderWay(x)
      OBVIOUS
    <3>1. LookUpOf(x) # job
      BY <1>6, <1>9
    <3> QED BY <1>2, <1>7, <2>1, <3>1, UnderWayIs
  <2>4. \A x : BeingFetched(x)' <=> BeingFetched(x)
    <3> SUFFICES ASSUME NEW x PROVE BeingFetched(x)' <=> BeingFetched(x)
      OBVIOUS
    <3>1. DownloadOf(x) = job <=> x = job.cover
      BY <1>3, <1>6, <1>9
    <3>2. BeingFetched(x)' <=> InQueue(DownloadOf(x))' \/ x = job.cover
      BY <2>1, UnderWayIs DEF Fetched
    <3> QED BY <1>2, <1>7, <3>1, <3>2
  <2> QED BY <1>4, <2>2, <2>3, <2>4 DEF MarksInv, MarksAreTrue
<1>10. CASE job.do = "drop"
  <2>1. at' = "dropping"
    BY <1>4, <1>10 DEF FirstStep
  <2>2. OnceInv'
    BY <1>5, <2>1 DEF OnceInv, Fetched
  <2>3. \A x : (UnderWay(x)' <=> UnderWay(x)) /\ (BeingFetched(x)' <=> BeingFetched(x))
    <3> SUFFICES ASSUME NEW x PROVE /\ UnderWay(x)' <=> UnderWay(x)
                                    /\ BeingFetched(x)' <=> BeingFetched(x)
      OBVIOUS
    <3>1. LookUpOf(x) # job /\ DownloadOf(x) # job
      BY <1>6, <1>10
    <3> QED BY <1>2, <1>7, <2>1, <3>1, UnderWayIs DEF Fetched
  <2> QED BY <1>4, <2>2, <2>3 DEF MarksInv, MarksAreTrue
<1> QED BY <1>3, <1>8, <1>9, <1>10

(* The queue and the marks stay, and the worker is not at a lookup or a    *)
(* download, neither before nor after.                                     *)
LEMMA MarksOfNoJob ==
  ASSUME MarksInv, UNCHANGED <<jobs, inflight, imageInflight>>,
         {at, at'} \cap (Fetched \cup {"looking up"}) = {}
  PROVE  MarksInv'
<1>1. \A job : InQueue(job)' <=> InQueue(job)
  BY DEF InQueue
<1>2. OnceInv'
  BY DEF MarksInv, OnceInv, Fetched
<1>3. \A s : (UnderWay(s)' <=> UnderWay(s)) /\ (BeingFetched(s)' <=> BeingFetched(s))
  <2> SUFFICES ASSUME NEW s PROVE /\ UnderWay(s)' <=> UnderWay(s)
                                  /\ BeingFetched(s)' <=> BeingFetched(s)
    OBVIOUS
  <2> QED BY <1>1, UnderWayIs
<1> QED BY <1>2, <1>3 DEF MarksInv, MarksAreTrue

(* The worker is done with a lookup, ...                                   *)
LEMMA MarksAfterLookUp ==
  ASSUME TypeInv, MarksInv, UNCHANGED <<jobs, imageInflight>>,
         at \in Fetched \cup {"looking up"}, song \in Songs, at' = "idle",
         inflight' = inflight \ {song}
  PROVE  MarksInv'
<1>1. \A job : InQueue(job)' <=> InQueue(job)
  BY DEF InQueue
<1>2. OnceInv'
  BY DEF MarksInv, OnceInv, Fetched
<1>3. ~InQueue(LookUpOf(song)) /\ song # NoSong
  BY CoverAssumption DEF MarksInv, OnceInv
<1>4. \A s : (UnderWay(s)' <=> UnderWay(s) /\ s # song) /\ (BeingFetched(s)' <=> BeingFetched(s))
  <2> SUFFICES ASSUME NEW s PROVE /\ UnderWay(s)' <=> UnderWay(s) /\ s # song
                                  /\ BeingFetched(s)' <=> BeingFetched(s)
    OBVIOUS
  <2> QED BY <1>1, <1>3, UnderWayIs DEF Fetched
<1> QED BY <1>2, <1>4 DEF MarksInv, MarksAreTrue

(* ... and with a download.                                                *)
LEMMA MarksAfterImage ==
  ASSUME TypeInv, MarksInv, UNCHANGED <<jobs, inflight>>,
         at = "done", song = NoSong, at' = "idle",
         imageInflight' = imageInflight \ {cover}
  PROVE  MarksInv'
<1>1. \A job : InQueue(job)' <=> InQueue(job)
  BY DEF InQueue
<1>2. OnceInv'
  BY DEF MarksInv, OnceInv, Fetched
<1>3. ~InQueue(DownloadOf(cover)) /\ NoSong \notin Songs
  BY CoverAssumption DEF MarksInv, OnceInv, Fetched
<1>4. \A s \in Songs : UnderWay(s)' <=> UnderWay(s)
  <2> SUFFICES ASSUME NEW s \in Songs PROVE UnderWay(s)' <=> UnderWay(s)
    OBVIOUS
  <2> QED BY <1>1, <1>3, UnderWayIs DEF Fetched
<1>5. \A url : BeingFetched(url)' <=> BeingFetched(url) /\ url # cover
  <2> SUFFICES ASSUME NEW url PROVE BeingFetched(url)' <=> BeingFetched(url) /\ url # cover
    OBVIOUS
  <2> QED BY <1>1, <1>3, UnderWayIs DEF Fetched
<1> QED BY <1>2, <1>4, <1>5 DEF MarksInv, MarksAreTrue

(* The end cancels what waits.                                             *)
LEMMA MarksAfterShutdown ==
  ASSUME TypeInv, MarksInv, Shutdown
  PROVE  MarksInv'
<1>1. jobs' = <<>> /\ UNCHANGED <<at, song, cover>>
  BY DEF Shutdown, worker
<1>2. inflight' = inflight \ {job.song : job \in Waiting("look up")}
  BY DEF Shutdown
<1>3. imageInflight' = imageInflight \ {job.cover : job \in Waiting("download")}
  BY DEF Shutdown
<1>4. \A job : ~InQueue(job)'
  BY <1>1 DEF InQueue
<1>5. \A s \in Songs : s \in {job.song : job \in Waiting("look up")} <=> InQueue(LookUpOf(s))
  <2> SUFFICES ASSUME NEW s \in Songs
               PROVE  s \in {job.song : job \in Waiting("look up")} <=> InQueue(LookUpOf(s))
    OBVIOUS
  <2>1. LookUpOf(s) \in Job /\ LookUpOf(s).do = "look up" /\ LookUpOf(s).song = s
    BY DEF Job, LookUpOf
  <2>2. InQueue(LookUpOf(s)) => LookUpOf(s) \in Waiting("look up")
    BY <2>1 DEF Waiting, InQueue
  <2>3. ASSUME NEW job \in Waiting("look up"), job.song = s PROVE InQueue(LookUpOf(s))
    <3>1. job \in Job /\ job.do = "look up" /\ InQueue(job)
      BY <2>3 DEF Waiting, InQueue
    <3>2. job = LookUpOf(s)
      BY <2>3, <3>1, JobFields DEF LookUpOf
    <3> QED BY <3>1, <3>2
  <2> QED BY <2>1, <2>2, <2>3
<1>6. \A url \in Covers :
        url \in {job.cover : job \in Waiting("download")} <=> InQueue(DownloadOf(url))
  <2> SUFFICES ASSUME NEW url \in Covers
               PROVE  url \in {job.cover : job \in Waiting("download")} <=> InQueue(DownloadOf(url))
    OBVIOUS
  <2>1. DownloadOf(url) \in Job /\ DownloadOf(url).do = "download" /\ DownloadOf(url).cover = url
    BY DEF Job, DownloadOf
  <2>2. InQueue(DownloadOf(url)) => DownloadOf(url) \in Waiting("download")
    BY <2>1 DEF Waiting, InQueue
  <2>3. ASSUME NEW job \in Waiting("download"), job.cover = url PROVE InQueue(DownloadOf(url))
    <3>1. job \in Job /\ job.do = "download" /\ InQueue(job)
      BY <2>3 DEF Waiting, InQueue
    <3>2. job = DownloadOf(url)
      BY <2>3, <3>1, JobFields DEF DownloadOf
    <3> QED BY <3>1, <3>2
  <2> QED BY <2>1, <2>2, <2>3
<1>7. \A s \in Songs : s \in inflight <=> UnderWay(s)
  BY DEF MarksInv, MarksAreTrue
<1>8. \A url \in Covers : url \in imageInflight <=> BeingFetched(url)
  BY DEF MarksInv, MarksAreTrue
<1>9. \A s \in Songs : s \in inflight' <=> UnderWay(s)'
  <2> SUFFICES ASSUME NEW s \in Songs PROVE s \in inflight' <=> UnderWay(s)'
    OBVIOUS
  <2>1. at \in Fetched \cup {"looking up"} /\ song = s => ~InQueue(LookUpOf(s))
    BY DEF MarksInv, OnceInv
  <2>2. UnderWay(s) <=> InQueue(LookUpOf(s)) \/ (at \in Fetched \cup {"looking up"} /\ song = s)
    BY UnderWayIs
  <2>3. UnderWay(s)' <=> at \in Fetched \cup {"looking up"} /\ song = s
    BY <1>1, <1>4, UnderWayIs
  <2>4. s \in inflight' <=> s \in inflight /\ ~InQueue(LookUpOf(s))
    BY <1>2, <1>5
  <2> QED BY <1>7, <2>1, <2>2, <2>3, <2>4
<1>10. \A url \in Covers : url \in imageInflight' <=> BeingFetched(url)'
  <2> SUFFICES ASSUME NEW url \in Covers PROVE url \in imageInflight' <=> BeingFetched(url)'
    OBVIOUS
  <2>1. at \in Fetched /\ song = NoSong /\ cover = url => ~InQueue(DownloadOf(url))
    BY DEF MarksInv, OnceInv
  <2>2. BeingFetched(url) <=>
          InQueue(DownloadOf(url)) \/ (at \in Fetched /\ song = NoSong /\ cover = url)
    BY UnderWayIs
  <2>3. BeingFetched(url)' <=> at \in Fetched /\ song = NoSong /\ cover = url
    BY <1>1, <1>4, UnderWayIs
  <2>4. url \in imageInflight' <=> url \in imageInflight /\ ~InQueue(DownloadOf(url))
    BY <1>3, <1>6
  <2> QED BY <1>8, <2>1, <2>2, <2>3, <2>4
<1>11. inflight' \subseteq Songs /\ imageInflight' \subseteq Covers
  BY <1>2, <1>3 DEF TypeInv
<1>12. MarksAreTrue'
  BY <1>9, <1>10, <1>11 DEF MarksAreTrue
<1>13. OnceInv'
  BY <1>1 DEF OnceInv, InQueue
<1> QED BY <1>12, <1>13 DEF MarksInv

LEMMA MarksKept == TypeInv /\ MarksInv /\ [Next]_vars => MarksInv'
<1> SUFFICES ASSUME TypeInv, MarksInv, [Next]_vars PROVE MarksInv'
  OBVIOUS
<1> USE DEF daemon, worker, answers, images, wishes, files
<1>1. ASSUME NEW urls \in SUBSET Covers, KeepCovers(urls) PROVE MarksInv'
  <2>1. UNCHANGED <<jobs, at, song, cover, inflight, imageInflight>>
    BY <1>1 DEF KeepCovers
  <2> QED BY <2>1, MarksUntouched
<1>2. ASSUME NEW s \in Songs \cup {NoSong}, TrackChange(s) PROVE MarksInv'
  BY <1>2, MarksAfterDrop
<1>3. ASSUME NEW s \in Songs, Get(s) PROVE MarksInv'
  BY <1>3, MarksAfterGet
<1>4. CASE FindMissing
  BY <1>4, MarksUntouched DEF FindMissing
<1>5. CASE DownloadAgain
  <2>1. asking \in Covers
    BY <1>5 DEF DownloadAgain, TypeInv
  <2>2. CASE asking \in imageInflight \cup imageCooling
    BY <1>5, <2>2, MarksUntouched DEF DownloadAgain
  <2>3. CASE asking \notin imageInflight \cup imageCooling
    <3>1. PICK url \in Covers : url = asking
      BY <2>1
    <3>2. /\ Submit(DownloadOf(url)) /\ url \notin imageInflight
          /\ imageInflight' = imageInflight \cup {url}
          /\ UNCHANGED <<at, song, cover, inflight>>
      BY <1>5, <2>3, <3>1 DEF DownloadAgain, DownloadOf, Submit
    <3> QED BY <3>2, MarksAfterDownload
  <2> QED BY <2>2, <2>3
<1>6. CASE Shutdown
  BY <1>6, MarksAfterShutdown
<1>7. CASE Take
  BY <1>7, MarksAfterTake
<1>8. CASE LookUp
  <2>1. /\ UNCHANGED <<jobs, song, inflight, imageInflight>>
        /\ at = "looking up" /\ at' \in Fetched /\ song \in Songs /\ song # NoSong
    BY <1>8, CoverAssumption DEF LookUp, Fetched, TypeInv
  <2>2. \A job : InQueue(job)' <=> InQueue(job)
    BY <2>1 DEF InQueue
  <2>3. OnceInv'
    <3>1. LookUpOf(song)' = LookUpOf(song)
      BY <2>1 DEF LookUpOf
    <3>2. ~InQueue(LookUpOf(song))'
      BY <2>1, <2>2, <3>1 DEF MarksInv, OnceInv
    <3> QED BY <2>1, <3>2 DEF MarksInv, OnceInv
  <2>4. \A s : (UnderWay(s)' <=> UnderWay(s)) /\ (BeingFetched(s)' <=> BeingFetched(s))
    <3> SUFFICES ASSUME NEW s PROVE /\ UnderWay(s)' <=> UnderWay(s)
                                    /\ BeingFetched(s)' <=> BeingFetched(s)
      OBVIOUS
    <3> QED BY <2>1, <2>2, UnderWayIs
  <2> QED BY <2>1, <2>3, <2>4 DEF MarksInv, MarksAreTrue
<1>9. CASE LookUpFails
  BY <1>9, MarksAfterLookUp DEF LookUpFails, TypeInv
<1>10. CASE FindImage \/ Download \/ DownloadFails \/ KeepArrived
  BY <1>10, MarksUntouched DEF FindImage, Download, DownloadFails, KeepArrived, Fetched
<1>11. CASE Finish
  <2>1. CASE song = NoSong
    BY <1>11, <2>1, MarksAfterImage DEF Finish
  <2>2. CASE song # NoSong
    BY <1>11, <2>2, MarksAfterLookUp DEF Finish, TypeInv, Fetched
  <2> QED BY <2>1, <2>2
<1>12. CASE ReadSpared \/ Sweep
  BY <1>12, MarksOfNoJob DEF ReadSpared, Sweep, Fetched
<1>13. ASSUME NEW s \in Songs, LookUpAgain(s) PROVE MarksInv'
  BY <1>13, MarksUntouched DEF LookUpAgain
<1>14. ASSUME NEW url \in Covers, FetchAgain(url) PROVE MarksInv'
  BY <1>14, MarksUntouched DEF FetchAgain
<1>15. CASE Restart
  <2>1. jobs' = <<>> /\ at' = "idle" /\ inflight' = {} /\ imageInflight' = {}
    BY <1>15 DEF Restart
  <2>2. \A s : ~UnderWay(s)' /\ ~BeingFetched(s)'
    BY <2>1 DEF UnderWay, BeingFetched
  <2>3. OnceInv'
    BY <2>1 DEF OnceInv, Fetched
  <2> QED BY <2>1, <2>2, <2>3 DEF MarksInv, MarksAreTrue
<1>16. CASE UNCHANGED vars
  BY <1>16, MarksUntouched DEF vars
<1> QED
  BY <1>1, <1>2, <1>3, <1>4, <1>5, <1>6, <1>7, <1>8, <1>9, <1>10, <1>11, <1>12, <1>13, <1>14,
     <1>15, <1>16 DEF Next, DaemonNext, WorkerNext

(* A song or an image is marked as under way exactly while a job for it    *)
(* waits or the worker is at it: whatever fails or is cancelled, no mark   *)
(* stays behind to keep the song from being looked up again.               *)
THEOREM MarksSayWhatIsUnderWay == Spec => []MarksAreTrue
<1>1. Init => TypeInv /\ MarksInv
  <2> SUFFICES ASSUME Init PROVE MarksInv
    BY InitTypes
  <2> QED BY DEF Init, MarksInv, OnceInv, MarksAreTrue, UnderWay, BeingFetched, InQueue, Fetched
<1>2. TypeInv /\ MarksInv /\ [Next]_vars => (TypeInv /\ MarksInv)'
  BY TypesKept, MarksKept
<1>3. MarksInv => MarksAreTrue
  BY DEF MarksInv
<1> QED BY <1>1, <1>2, <1>3, PTL DEF Spec

----------------------------------------------------------------------------
(* The temporary images.                                                   *)

(* An image, and a job, for the song s.                                    *)
IsFor(s, url) == \E k \in NamesOf(s) : CoverOf[k] = url

JobIsFor(s, job) ==
  /\ job.do = "look up" => job.song \in NamesOf(s)
  /\ job.do = "download" => IsFor(s, job.cover)
  /\ job.do = "drop" => job.song = s

NoDropAfter(i) == \A j \in 1 .. Len(jobs) : j > i => jobs[j].do # "drop"

NoDropWaits == \A j \in 1 .. Len(jobs) : jobs[j].do # "drop"

(* From the last drop on, everything that waits is for the shown song; when*)
(* no drop waits, so is what the worker has in hand; and when it is not at *)
(* a drop either, so is what it has put into the directory.                *)
QueueIsForShown ==
  Running => \A i \in 1 .. Len(jobs) : NoDropAfter(i) => JobIsFor(shown, jobs[i])

HandIsForShown ==
  Running /\ NoDropWaits =>
    /\ at = "looking up" => song \in NamesOf(shown)
    /\ at \in Fetching => IsFor(shown, cover)
    /\ at \in {"dropping", "sweeping"} => song = shown
    /\ at = "sweeping" /\ cover # NoCover => IsFor(shown, cover)
    /\ at \notin {"dropping", "sweeping"} => \A url \in temp : IsFor(shown, url)

AskedIsShown == Running /\ asking # NoCover => IsFor(shown, asking)

(* Nothing is under way before the history named its covers.               *)
NothingBefore == ~keptOnce => jobs = <<>> /\ temp = {} /\ at = "idle" /\ asking = NoCover

ShownInv == QueueIsForShown /\ HandIsForShown /\ AskedIsShown /\ NothingBefore

LEMMA ShownHasItsOwn ==
  ASSUME TypeInv, shown \in Songs
  PROVE  shown \in NamesOf(shown)
  BY DEF NamesOf

(* One more job for the shown song.                                        *)
LEMMA ShownAfterSubmit ==
  ASSUME TypeInv, ShownInv, NEW job \in Job, Submit(job), job.do # "drop", JobIsFor(shown, job),
         keptOnce, UNCHANGED <<shown, at, song, cover, keptOnce, closed, temp>>,
         asking' \in {asking, NoCover}
  PROVE  ShownInv'
<1>1. /\ Len(jobs') = Len(jobs) + 1 /\ Len(jobs) \in Nat
      /\ \A i \in 1 .. Len(jobs) : jobs'[i] = jobs[i]
      /\ jobs'[Len(jobs) + 1] = job
  BY SubmittedJobs DEF TypeInv
<1>2. Running' <=> Running
  BY DEF Running
<1>3. QueueIsForShown'
  <2> SUFFICES ASSUME Running, NEW i \in 1 .. Len(jobs'), NoDropAfter(i)'
               PROVE  JobIsFor(shown', jobs'[i])
    BY <1>2 DEF QueueIsForShown
  <2>1. CASE i = Len(jobs) + 1
    BY <1>1, <2>1
  <2>2. CASE i \in 1 .. Len(jobs)
    <3>1. NoDropAfter(i)
      BY <1>1 DEF NoDropAfter
    <3>2. JobIsFor(shown, jobs[i])
      BY <2>2, <3>1 DEF ShownInv, QueueIsForShown
    <3>3. JobIsFor(shown, jobs'[i])
      BY <1>1, <2>2, <3>2
    <3> QED BY <3>3
  <2> QED BY <1>1, <2>1, <2>2
<1>4. NoDropWaits' => NoDropWaits
  BY <1>1 DEF NoDropWaits
<1>5. HandIsForShown'
  BY <1>2, <1>4 DEF ShownInv, HandIsForShown, NamesOf, IsFor
<1>6. AskedIsShown' /\ NothingBefore'
  BY <1>2 DEF ShownInv, AskedIsShown, NothingBefore, IsFor, NamesOf
<1> QED BY <1>3, <1>5, <1>6 DEF ShownInv

(* Another song is shown, and the drop for it is the last in the queue.    *)
LEMMA ShownAfterDrop ==
  ASSUME TypeInv, ShownInv, NEW s \in Songs \cup {NoSong}, TrackChange(s)
  PROVE  ShownInv'
<1> DEFINE job == [do |-> "drop", song |-> s]
<1>1. job \in Job /\ job.do = "drop" /\ job.song = s
  BY DEF Job
<1>2. /\ Submit(job) /\ shown' = s /\ asking' = NoCover
      /\ UNCHANGED <<at, song, cover, keptOnce, closed, temp>> /\ keptOnce
  BY DEF TrackChange, worker, wishes, files, Running
<1> HIDE DEF job
<1>3. /\ Len(jobs') = Len(jobs) + 1 /\ Len(jobs) \in Nat
      /\ jobs'[Len(jobs) + 1] = job
  BY <1>1, <1>2, SubmittedJobs DEF TypeInv
<1>4. QueueIsForShown'
  <2> SUFFICES ASSUME NEW i \in 1 .. Len(jobs'), NoDropAfter(i)'
               PROVE  JobIsFor(shown', jobs'[i])
    BY DEF QueueIsForShown
  <2>1. i = Len(jobs) + 1
    BY <1>1, <1>3 DEF NoDropAfter
  <2>2. jobs'[i].do = "drop" /\ jobs'[i].song = shown'
    BY <1>1, <1>2, <1>3, <2>1
  <2> QED BY <2>2 DEF JobIsFor
<1>5. ~NoDropWaits'
  BY <1>1, <1>3 DEF NoDropWaits
<1>6. HandIsForShown' /\ AskedIsShown' /\ NothingBefore'
  BY <1>2, <1>5 DEF HandIsForShown, AskedIsShown, NothingBefore
<1> QED BY <1>4, <1>6 DEF ShownInv

(* The worker takes a job.                                                 *)
LEMMA ShownAfterTake ==
  ASSUME TypeInv, ShownInv, Take
  PROVE  ShownInv'
<1>1. PICK job \in Job : job = Head(jobs)
  BY TakenJobs DEF Take, TypeInv
<1>2. /\ Len(jobs) \in Nat \ {0} /\ job = jobs[1]
      /\ Len(jobs') = Len(jobs) - 1
      /\ \A i \in 1 .. Len(jobs') : jobs'[i] = jobs[i + 1]
  BY <1>1, TakenJobs DEF Take, TypeInv
<1>3. /\ at = "idle" /\ at' = FirstStep(job)
      /\ song' = IF job.do = "download" THEN NoSong ELSE job.song
      /\ cover' = IF job.do = "download" THEN job.cover ELSE NoCover
      /\ UNCHANGED <<shown, asking, keptOnce, closed, temp>> /\ jobs # <<>>
  BY <1>1 DEF Take, daemon, wishes, files
<1>4. job.do \in {"look up", "download", "drop"}
  BY JobFields
<1>5. Running' <=> Running
  BY <1>3 DEF Running
<1>6. \A j \in 1 .. Len(jobs) : j > 1 => j - 1 \in 1 .. Len(jobs') /\ jobs'[j - 1] = jobs[j]
  BY <1>2
<1>7. QueueIsForShown'
  <2> SUFFICES ASSUME Running, NEW i \in 1 .. Len(jobs'), NoDropAfter(i)'
               PROVE  JobIsFor(shown', jobs'[i])
    BY <1>5 DEF QueueIsForShown
  <2>0. i + 1 \in 1 .. Len(jobs)
    BY <1>2
  <2>1. NoDropAfter(i + 1)
    <3> SUFFICES ASSUME NEW j \in 1 .. Len(jobs), j > i + 1
                 PROVE  jobs[j].do # "drop"
      BY DEF NoDropAfter
    <3>1. j - 1 \in 1 .. Len(jobs') /\ j - 1 > i /\ jobs'[j - 1] = jobs[j]
      BY <1>2, <1>6
    <3> QED BY <3>1 DEF NoDropAfter
  <2>2. JobIsFor(shown, jobs[i + 1])
    BY <2>0, <2>1 DEF ShownInv, QueueIsForShown
  <2>3. JobIsFor(shown, jobs'[i])
    BY <1>2, <2>2
  <2> QED BY <1>3, <2>3
<1>8. Running /\ NoDropWaits' => JobIsFor(shown, job)
  <2> SUFFICES ASSUME Running, NoDropWaits' PROVE JobIsFor(shown, job)
    OBVIOUS
  <2>1. 1 \in 1 .. Len(jobs) /\ NoDropAfter(1)
    BY <1>2, <1>6 DEF NoDropWaits, NoDropAfter
  <2> QED BY <1>2, <2>1 DEF ShownInv, QueueIsForShown
<1>9. NoDropWaits' /\ job.do # "drop" => NoDropWaits
  <2> SUFFICES ASSUME NoDropWaits', job.do # "drop", NEW j \in 1 .. Len(jobs)
               PROVE  jobs[j].do # "drop"
    BY DEF NoDropWaits
  <2>1. CASE j = 1
    BY <1>2, <2>1
  <2>2. CASE j > 1
    BY <1>6, <2>2 DEF NoDropWaits
  <2> QED BY <1>2, <2>1, <2>2
<1>10. HandIsForShown'
  <2> SUFFICES ASSUME Running, NoDropWaits'
               PROVE  /\ at' = "looking up" => song' \in NamesOf(shown)
                      /\ at' \in Fetching => IsFor(shown, cover')
                      /\ at' \in {"dropping", "sweeping"} => song' = shown
                      /\ at' = "sweeping" /\ cover' # NoCover => IsFor(shown, cover')
                      /\ at' \notin {"dropping", "sweeping"} => \A url \in temp : IsFor(shown, url)
    BY <1>3, <1>5 DEF HandIsForShown
  <2>1. CASE job.do = "look up"
    BY <1>3, <1>8, <1>9, <2>1
       DEF FirstStep, JobIsFor, Fetching, ShownInv, HandIsForShown
  <2>2. CASE job.do = "download"
    BY <1>3, <1>8, <1>9, <2>2
       DEF FirstStep, JobIsFor, Fetching, ShownInv, HandIsForShown
  <2>3. CASE job.do = "drop"
    BY <1>3, <1>8, <2>3 DEF FirstStep, JobIsFor, Fetching
  <2> QED BY <1>4, <2>1, <2>2, <2>3
<1>11. AskedIsShown' /\ NothingBefore'
  BY <1>3, <1>5 DEF ShownInv, AskedIsShown, NothingBefore, IsFor
<1> QED BY <1>7, <1>10, <1>11 DEF ShownInv

(* Steps that leave what waits and what is asked for, and from which what  *)
(* the worker has in hand is for the shown song if it was.                 *)
LEMMA ShownAfterStep ==
  ASSUME ShownInv, UNCHANGED <<shown, asking, jobs, keptOnce, closed>>,
         at # "idle",
         NoDropWaits /\ Running =>
           /\ at' # "looking up"
           /\ at' \in Fetching => IsFor(shown, cover')
           /\ at' \in {"dropping", "sweeping"} => song' = shown
           /\ at' = "sweeping" /\ cover' # NoCover => IsFor(shown, cover')
           /\ at' \notin {"dropping", "sweeping"} => \A url \in temp' : IsFor(shown, url)
  PROVE  ShownInv'
<1>1. /\ Running' <=> Running
      /\ NoDropWaits' <=> NoDropWaits
      /\ \A i : NoDropAfter(i)' <=> NoDropAfter(i)
  BY DEF Running, NoDropWaits, NoDropAfter
<1>2. keptOnce
  BY DEF ShownInv, NothingBefore
<1>3. QueueIsForShown'
  BY <1>1 DEF ShownInv, QueueIsForShown
<1>4. HandIsForShown'
  BY <1>1 DEF HandIsForShown
<1>5. AskedIsShown' /\ NothingBefore'
  BY <1>1, <1>2 DEF ShownInv, AskedIsShown, NothingBefore
<1> QED BY <1>3, <1>4, <1>5 DEF ShownInv

LEMMA ShownUntouched ==
  ASSUME ShownInv, UNCHANGED <<shown, asking, jobs, at, song, cover, closed, temp>>,
         keptOnce' = keptOnce
  PROVE  ShownInv'
<1>1. /\ Running' <=> Running
      /\ NoDropWaits' <=> NoDropWaits
      /\ \A i : NoDropAfter(i)' <=> NoDropAfter(i)
  BY DEF Running, NoDropWaits, NoDropAfter
<1>2. QueueIsForShown'
  BY <1>1 DEF ShownInv, QueueIsForShown
<1>3. HandIsForShown' /\ AskedIsShown' /\ NothingBefore'
  BY <1>1 DEF ShownInv, HandIsForShown, AskedIsShown, NothingBefore
<1> QED BY <1>2, <1>3 DEF ShownInv

LEMMA ShownKept == TypeInv /\ DirInv /\ ShownInv /\ [Next]_vars => ShownInv'
<1> SUFFICES ASSUME TypeInv, DirInv, ShownInv, [Next]_vars PROVE ShownInv'
  OBVIOUS
<1> USE DEF daemon, worker, answers, images, wishes, files
<1> DEFINE Hand == /\ at = "looking up" => song \in NamesOf(shown)
                   /\ at \in Fetching => IsFor(shown, cover)
                   /\ at \in {"dropping", "sweeping"} => song = shown
                   /\ at = "sweeping" /\ cover # NoCover => IsFor(shown, cover)
                   /\ at \notin {"dropping", "sweeping"} => \A url \in temp : IsFor(shown, url)
<1>0. NoDropWaits /\ Running => Hand
  BY DEF ShownInv, HandIsForShown
<1>1. ASSUME NEW urls \in SUBSET Covers, KeepCovers(urls) PROVE ShownInv'
  <2>1. UNCHANGED <<shown, asking, jobs, at, song, cover, closed, temp>> /\ keptOnce'
    BY <1>1 DEF KeepCovers
  <2>2. CASE keptOnce
    BY <2>1, <2>2, ShownUntouched DEF TypeInv
  <2>3. CASE ~keptOnce
    <3>1. jobs' = <<>> /\ temp' = {} /\ at' = "idle" /\ asking' = NoCover
      BY <2>1, <2>3 DEF ShownInv, NothingBefore
    <3>2. QueueIsForShown'
      BY <3>1 DEF QueueIsForShown
    <3> QED BY <2>1, <3>1, <3>2
            DEF ShownInv, HandIsForShown, AskedIsShown, NothingBefore, Fetching
  <2> QED BY <2>2, <2>3
<1>2. ASSUME NEW s \in Songs \cup {NoSong}, TrackChange(s) PROVE ShownInv'
  BY <1>2, ShownAfterDrop
<1>3. ASSUME NEW s \in Songs, Get(s) PROVE ShownInv'
  <2> DEFINE job == [do |-> "look up", song |-> s]
  <2>1. job \in Job /\ job.do = "look up" /\ job.song = s
    BY DEF Job
  <2>2. /\ Submit(job) /\ keptOnce /\ s \in NamesOf(shown)
        /\ UNCHANGED <<shown, asking, at, song, cover, keptOnce, closed, temp>>
    BY <1>3 DEF Get, Running
  <2> HIDE DEF job
  <2>3. JobIsFor(shown, job)
    BY <2>1, <2>2 DEF JobIsFor
  <2> QED BY <2>1, <2>2, <2>3, ShownAfterSubmit
<1>4. CASE FindMissing
  <2>1. /\ shown \in Songs /\ asking' = CoverOf[shown] /\ keptOnce
        /\ UNCHANGED <<shown, jobs, at, song, cover, keptOnce, closed, temp>>
    BY <1>4 DEF FindMissing, Running
  <2>2. IsFor(shown, asking')
    BY <2>1, ShownHasItsOwn DEF IsFor
  <2>3. /\ Running' <=> Running
        /\ NoDropWaits' <=> NoDropWaits
        /\ \A i : NoDropAfter(i)' <=> NoDropAfter(i)
    BY <2>1 DEF Running, NoDropWaits, NoDropAfter
  <2>4. QueueIsForShown'
    BY <2>1, <2>3 DEF ShownInv, QueueIsForShown
  <2>5. HandIsForShown'
    BY <2>1, <2>3 DEF ShownInv, HandIsForShown
  <2>6. AskedIsShown' /\ NothingBefore'
    BY <2>1, <2>2 DEF AskedIsShown, NothingBefore
  <2> QED BY <2>4, <2>5, <2>6 DEF ShownInv
<1>5. CASE DownloadAgain
  <2>1. /\ asking \in Covers /\ asking # NoCover /\ asking' = NoCover /\ keptOnce
        /\ UNCHANGED <<shown, at, song, cover, keptOnce, closed, temp>>
    BY <1>5 DEF DownloadAgain, TypeInv, ShownInv, NothingBefore
  <2>2. CASE jobs' = jobs
    <3>1. /\ Running' <=> Running
          /\ NoDropWaits' <=> NoDropWaits
          /\ \A i : NoDropAfter(i)' <=> NoDropAfter(i)
      BY <2>1, <2>2 DEF Running, NoDropWaits, NoDropAfter
    <3>2. QueueIsForShown'
      BY <2>1, <2>2, <3>1 DEF ShownInv, QueueIsForShown
    <3>3. HandIsForShown'
      BY <2>1, <2>2, <3>1 DEF ShownInv, HandIsForShown
    <3>4. AskedIsShown' /\ NothingBefore'
      BY <2>1 DEF AskedIsShown, NothingBefore
    <3> QED BY <3>2, <3>3, <3>4 DEF ShownInv
  <2>3. CASE jobs' # jobs
    <3>1. PICK url \in Covers : url = asking
      BY <2>1
    <3> DEFINE job == [do |-> "download", cover |-> url]
    <3>2. job \in Job /\ job.do = "download" /\ job.cover = url
      BY DEF Job
    <3>3. Submit(job)
      BY <1>5, <2>3, <3>1 DEF DownloadAgain, Submit
    <3> HIDE DEF job
    <3>4. CASE Running
      <4>1. JobIsFor(shown, job)
        BY <2>1, <3>1, <3>2, <3>4 DEF JobIsFor, ShownInv, AskedIsShown
      <4> QED BY <2>1, <3>2, <3>3, <4>1, ShownAfterSubmit
    <3>5. CASE ~Running
      <4>1. ~Running'
        BY <2>1, <3>5 DEF Running
      <4> QED BY <2>1, <4>1
              DEF ShownInv, QueueIsForShown, HandIsForShown, AskedIsShown, NothingBefore
    <3> QED BY <3>4, <3>5
  <2> QED BY <2>2, <2>3
<1>6. CASE Shutdown
  <2>1. ~Running' /\ keptOnce'
    BY <1>6 DEF Shutdown, Running
  <2> QED BY <2>1 DEF ShownInv, QueueIsForShown, HandIsForShown, AskedIsShown, NothingBefore
<1>7. CASE Take
  BY <1>7, ShownAfterTake
<1>8. CASE LookUp
  <2>1. /\ UNCHANGED <<shown, asking, jobs, keptOnce, closed, temp>> /\ at = "looking up"
        /\ at' \in {"done", "image"} /\ cover' = CoverOf[song]
    BY <1>8 DEF LookUp
  <2>2. Hand => IsFor(shown, cover')
    BY <2>1 DEF IsFor
  <2> QED BY <1>0, <2>1, <2>2, ShownAfterStep DEF Fetching
<1>9. CASE LookUpFails \/ FindImage \/ DownloadFails \/ KeepArrived \/ Finish
  <2>1. /\ UNCHANGED <<shown, asking, jobs, song, cover, keptOnce, closed, temp>> /\ at # "idle"
        /\ at' \in {"idle", "done", "downloading"}
        /\ at \notin {"dropping", "sweeping"} /\ (at' = "downloading" => at = "image")
    BY <1>9 DEF LookUpFails, FindImage, DownloadFails, KeepArrived, Finish
  <2> QED BY <1>0, <2>1, ShownAfterStep DEF Fetching
<1>10. CASE Download
  <2>1. /\ UNCHANGED <<shown, asking, jobs, song, cover, keptOnce, closed>> /\ at = "downloading"
        /\ at' = "downloaded" /\ temp' = temp \cup {cover}
    BY <1>10 DEF Download
  <2> QED BY <1>0, <2>1, ShownAfterStep DEF Fetching
<1>11. CASE ReadSpared
  <2>1. /\ UNCHANGED <<shown, asking, jobs, song, keptOnce, closed, temp>> /\ at = "dropping"
        /\ at' = IF dirThere THEN "sweeping" ELSE "idle"
        /\ cover' = IF song \in Songs /\ Known(song) THEN CoverOf[song] ELSE NoCover
    BY <1>11 DEF ReadSpared
  <2>2. Hand /\ cover' # NoCover => IsFor(shown, cover')
    BY <2>1, ShownHasItsOwn DEF IsFor
  <2>3. Running /\ ~dirThere => temp' = {}
    BY <2>1 DEF DirInv, Running
  <2> QED BY <1>0, <2>1, <2>2, <2>3, ShownAfterStep DEF Fetching
<1>12. CASE Sweep
  <2>1. /\ UNCHANGED <<shown, asking, jobs, song, cover, keptOnce, closed>> /\ at = "sweeping"
        /\ at' = "idle" /\ temp' = temp \cap {cover}
    BY <1>12 DEF Sweep
  <2>2. \A url \in temp' : url = cover /\ url # NoCover
    BY <2>1, CoverAssumption DEF TypeInv
  <2> QED BY <1>0, <2>1, <2>2, ShownAfterStep DEF Fetching
<1>13. ASSUME NEW s \in Songs, LookUpAgain(s) PROVE ShownInv'
  BY <1>13, ShownUntouched DEF LookUpAgain
<1>14. ASSUME NEW url \in Covers, FetchAgain(url) PROVE ShownInv'
  BY <1>14, ShownUntouched DEF FetchAgain
<1>15. CASE Restart
  <2>1. /\ ~Running' /\ jobs' = <<>> /\ temp' = {} /\ at' = "idle" /\ asking' = NoCover
    BY <1>15 DEF Restart, Running
  <2> QED BY <2>1 DEF ShownInv, QueueIsForShown, HandIsForShown, AskedIsShown, NothingBefore
<1>16. CASE UNCHANGED vars
  BY <1>16, ShownUntouched DEF vars
<1> QED
  BY <1>1, <1>2, <1>3, <1>4, <1>5, <1>6, <1>7, <1>8, <1>9, <1>10, <1>11, <1>12, <1>13, <1>14,
     <1>15, <1>16 DEF Next, DaemonNext, WorkerNext

(* When no drop waits or runs, every temporary image is the shown song's:  *)
(* the drop was queued behind all that the songs before it still had to    *)
(* land, and everything queued since is for the song shown now.            *)
THEOREM TempImagesAreShown == Spec => []TempIsForShown
<1>1. Init => TypeInv /\ DirInv /\ ShownInv
  <2> SUFFICES ASSUME Init PROVE DirInv /\ ShownInv
    BY InitTypes
  <2> DirInv
    BY DEF Init, DirInv
  <2>1. ~Running /\ jobs = <<>> /\ temp = {} /\ at = "idle" /\ asking = NoCover
    BY DEF Init, Running
  <2> QED BY <2>1 DEF ShownInv, QueueIsForShown, HandIsForShown, AskedIsShown, NothingBefore
<1>2. TypeInv /\ DirInv /\ ShownInv /\ [Next]_vars => (TypeInv /\ DirInv /\ ShownInv)'
  BY TypesKept, DirKept, ShownKept
<1>3. ShownInv => TempIsForShown
  <2> SUFFICES ASSUME ShownInv, Running, ~DropIsDue, NEW url \in temp
               PROVE  \E s \in NamesOf(shown) : CoverOf[s] = url
    BY DEF TempIsForShown
  <2>1. NoDropWaits /\ at \notin {"dropping", "sweeping"}
    BY DEF DropIsDue, NoDropWaits
  <2> QED BY <2>1 DEF ShownInv, HandIsForShown, IsFor
<1> QED BY <1>1, <1>2, <1>3, PTL DEF Spec

=============================================================================
