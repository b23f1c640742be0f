# Refrain, modelled

Refrain watches what a music player shows, puts it on Discord, keeps a list of
recently played songs, and reports plays to Last.fm. This directory holds TLA+
modules translated from its Python source (`src/refrain`), TLC configurations
that check them on small instances, and proofs, checked by TLAPS, of what
should hold whatever the instance. Line numbers are those of the sources; each
definition's place in the source is in `PROJECT.json` under `map`.

    tlc -workers 2 -config Scrobbler.cfg MCScrobbler      # a run (see "The runs")
    tlapm Scrobbler_proofs.tla                            # a module of proofs

## The system

One process, a handful of threads. The **daemon** thread polls the player about
twice a second and feeds everything else; the **GUI** thread shows it and
changes the settings; the scrobbler, the cover fetcher, the Discord connection
and the updater each do their slow work on a thread of their own. They share
state through objects with a lock, and Qt signals.

| component | source | state | operations | what is hard |
|---|---|---|---|---|
| The play in progress | `scrobble.py`, `Scrobbler.update` and around it | the song, what was heard of it, when it began, its length and last position, whether it was queued; `scrobble_current.json`; the last run's play | a poll with a song, without one, or with sharing off; reconfigure; shutdown; start | what carries over gaps, restarts, late albums, corrected lengths, seeks and replays |
| The queue | `scrobble_queue.py` | the rows, a count per dedup key, the file and what is believed of it | enqueue, drop other accounts, drain, load | a drain runs while rows are added and trimmed; appends and rewrites fail, or stop half-way |
| Delivery | `scrobble.py`, `_maybe_drain_locked` to `_handle_lastfm_error` | client, session latch, in-flight flag, the executor's tasks | start a drain, submit a batch, announce, change the account | the worker reads the account twice; answers are lost; sessions are revoked |
| Listening history | `history.py` | the list, the song playing now, the last run's, `history.json` | update, mark scrobbled, remove, clear, reconfigure, shutdown | said to take one decision with the scrobbler, but has rules of its own |
| Discord Rich Presence | `discord_rpc.py` | per client: connection, what is shown, tokens; the wanted activity | update, clear, pump, set sharing, retry, close | a rate limit, several clients, threads that post and threads that serve |
| Position and length | `timing.py`, `song_lengths.py` | the anchor of the song's clock; measured lengths | resolve a position, learn a length | stale positions, seeks, start frames, wrong lengths |
| The poll loop | `daemon.py` | active source, idle and paused state, the song's album | choose a source, detect idling, dispatch | order of the calls of one poll, paused or dangling players |
| Covers | `cover_fetcher.py`, `cover_art.py` | cache, lookups under way, image files | get, keep, shut down | the shown song, the history and a worker at cross purposes; failures, cooldowns, evictions, a shutdown |
| Sources | `sources/*.py` | D-Bus objects | read, control | the environment of the models |
| Secrets, updater, single instance | `secrets_store.py`, `updater.py`, `single_instance.py` | keyring and fallback file; partial downloads; a lock file | set, get, delete, move; apply; acquire | one store fails and the other is used; a kill in the middle |
| Windows, configuration, desktop | `app.py`, `ui/`, `config.py`, ... | Qt objects, files | what the user does | what the user can do is in the models as actions |

Interactions that matter: the daemon calls `history.update` and then
`Scrobbler.update` with the same poll (`daemon.py:1317-1351`); the scrobbler
appends to the queue under its own lock and calls back into the history when it
has; the executor's worker drains the queue while the daemon appends to it; the
settings page calls `Scrobbler.reconfigure` at any time.

What makes each component correct, and where it is checked:

- **play in progress**: one listen is one scrobble; what counted is not lost;
  no time is credited twice; what was heard while sharing was off, or under
  another account, stays out. (`Scrobbler`)
- **queue**: memory, counts and file never drift apart, whatever write fails; a
  drain removes its own rows; rows leave some day. (`ScrobbleQueue`)
- **delivery**: one drain at a time; nothing disappears unsettled; each play
  goes to its account; the queue empties. (`ScrobbleDelivery`)
- **history**: lists each listen once, keeps what was heard over a restart,
  forgets what it is told to forget, and the window shows it. (`PlayHistory`)
- **Discord**: the last state wanted is shown some day, within the rate limit;
  what is believed to be shown is; nobody is dialled with sharing off.
  (`DiscordRPC`)
- **covers**: the shown song gets its image; temporary images are the shown
  song's, lasting ones the history's; no mark stays behind. (`CoverFetcher`)
- **position**: the shown position never runs ahead of the song or jumps
  without cause. (not modelled)

## The modules

    Rows ............... prefixes and selections of a sequence (shared)
    ScrobbleQueue ...... the queue and its file        MCScrobbleQueue
    DurableQueue ....... what the queue promises (abstract)
    ScrobbleDelivery ... drains, sessions, accounts    MCScrobbleDelivery
    PlayRules .......... when a play counts, starts over, goes on (shared)
    Listener ........... what is heard and what a poll shows of it (shared)
    Scrobbler .......... the play in progress          MCScrobbler
    PlayHistory ........ the recently played songs     MCPlayHistory
    DiscordRPC ......... the connection to Discord     MCDiscordRPC
    CoverFetcher ....... the cover images              MCCoverFetcher
    Rows_proofs, ScrobbleQueue_proofs, ScrobbleQueue_refinement,
    ScrobbleDelivery_proofs, Scrobbler_proofs, DiscordRPC_proofs, CoverFetcher_proofs,
    PlayHistory_proofs

Three of the modules cut one path, from the player to Last.fm, at its two hand-overs.
`Scrobbler` hands over a row by adding it to `queued`, and nothing of the play
depends on what becomes of it; `ScrobbleDelivery` sees the queue as a sequence
that grows at the back; `ScrobbleQueue` sees the delivery as a background
thread that takes batches, succeeds or fails. `PlayHistory` hears of the queue
only when a play is stored (`mark_scrobbled`), which its model allows at any
time and for any song. `Scrobbler` and `PlayHistory` extend `Listener` and, through
it, `PlayRules`: the code shares those rules too (`history.py` imports them from
`scrobble.py`).

### ScrobbleQueue

`items` and `keys` are `_items` and `_keys`; `fileThere`, `rows` and `torn` are
the file as it is, and `fileRows` and `fileDirty` what the object believes of
it. A row is its dedup key and its account; what `_normalize` refuses changes
nothing and has no step. `drain` is split where the code drops the lock:
`TakeBatch`, then `SubmitReturns` or `SubmitRaises`, then `RemoveSubmitted`.
Every write may fail; a failed append may leave nothing, half a row, or a row
without its line end (`torn`), and half a row may end within a character
(`garbled`). A restart may come between any two steps: `LoadRows` loads the file,
`StartEmpty` is a file that cannot be opened, and `FailToStart` one that ends
within a character, which nobody catches: Refrain does not start (`"down"`) until
someone deletes the file (`FileVanishes`). `Broken` are plays whose names
hold one of the line separators that `splitlines` knows and JSON leaves as they
are: their row is written whole and not read back (`Parsed`). `trimmed` is a history variable: rows the cap pushed out while a
batch was with Last.fm.

### DurableQueue

What a caller of the queue may rely on, with `queue`, the rows `saved` for a
restart, and `stale`, which says that the two may differ. Every change goes
through `Store`: it reaches the saved rows, or it leaves them as they were or as
they are to be, and is known to have failed. `ScrobbleQueue` implements it
(`KeepsPromise`) under the mapping `queue <- items`, `saved <- rows` (a
file past the cap is compacted late, and a restart loads the newest of the rows it
can read back) and `stale <- fileDirty \/ ~fileThere`. The dedup counts, appends against rewrites,
half rows, and the batch under way are gone from it.

### ScrobbleDelivery

A *client* is a session of an account. `pool` holds the tasks waiting for the
one worker; `pc` says where it stands. `_do_drain` reads the account under the
lock (`StartDrain`, into `known`), drops the other accounts' rows, and then
`_submit_batch` reads the client again for each batch without the lock (`Send`,
into `asked`): `Reconfigure` may come in between. What Last.fm may answer is
five actions, `LastfmTakesUnheard` being a batch it took and whose answer was
lost. With sharing off or no account a poll returns before it asks for a drain,
queues or announces anything (`Poll`, `Enqueue`, `AnnounceSong`);
`SwitchSharing` turns it off and on at any time. The queue has no cap here: what the
cap does to a drain is in `ScrobbleQueue`. `sent`, `refused`, `dropped`, `switched` and
`late` are history variables.

### Scrobbler

`cur` is `_key`, `_played_ms` and the fields beside them; `file` is
`scrobble_current.json`; `resume` is `_resume`, the last run's play before it
has been compared with a song. A poll is one action of the whole `update`:
`SongPoll` for something Last.fm would take, `GapPoll` for anything else,
`GatedPoll` while sharing is off or no account is connected. `UpdateSong` reads
in the order of the code: settle the last run's play (`Carries`, `Closed`),
fill in the album (`Compared`), tell a replay (`StartsOver`), and then either
end the play and begin another (`PlayBegins`) or go on and save (`PlayGoesOn`,
`Keep`). `UpdateGap` has the three ends of a gap.

The listener is the environment: `heard` is the listen under way (song, place,
number). The program never reads its number; properties compare it with what is
queued. Its song and place are shown to the program as `Shown` says: the
position may be withheld, the album may come late, the length may be one of
several. A record in `Worlds` says what may happen in a run, so that one run
covers several environments without their product.

All clocks are one counter that polls advance by 1 to `MaxStep`. The real
clocks are a monotonic one and the wall clock; a wall clock that is set is not
modelled.

### PlayHistory

`entries`, `cur`, `resume`, `ignore` and `gone` are the fields of `PlayHistory`.
In the code a row that is playing is one object, in the list and in `_cur` (or
`_resume`); here `Relisted` writes a change of it back to the list and
`CurrentIsNewest` says that the two never differ. `window` is the copy the daemon
emits when a call returns that something changed (`Emit`). A poll is one action:
`UpdateSong` fills in the album, then goes on with the song (`SongGoesOn`), keeps
one out that the user removed (`StaysOut`), or begins one (`SongBegins`, which
compares the last run's song: `CarriesOn`); `UpdateNothing` is a poll without a
song. What the user asks for are `Remove`, `Clear`, and `Configure` followed by
`Reconfigure` (a crash may come in between, with the settings saved); what the
scrobbler asks for is `MarkScrobbled`. A write that fails leaves the file as it
was, and one the disk cuts short a file that cannot be read: `os.write` in
`paths.py:58` may write less than it is given and nobody looks. `cut`, `removed`, `out`,
`last` and `spent` are history variables; `spent`, what Refrain heard of the
listen under way, starts over where nothing may be kept of it, also at a start
with the history off. Covers and addresses are left out,
except that a cover may turn up (`Dressed`) and is then shown and saved; so is
`resume_estimate_ms`, which decides nothing here.

### DiscordRPC

The class is shared by the daemon's thread, which posts, and a thread of its
own, which dials, sends and takes connections down. The thread's turn is cut
where something else may come in between: `Take` (the inbox), `Dial`, `DialFor`
(the second attempt of `update`), `Pump` and `Leave`. The daemon's poll is cut
between `set_sharing_off` (`PollFlag`) and the post (`PollPost`, or `HoldBack`
where the daemon waits for a cover or a length). `Quit`/`Close` end it,
`Renew`/`Reopen` are `update_config` with another application id.

A client is the number of its socket. `discord` is what it is, `open` and
`shows` what it has of Refrain, `presences` what Refrain has of it: an end may be
gone while the other is not. `Sweep` dials every target of `_ensure_connected`
in one step, each answering as it may; `SendUpdate` writes to every connected
client, each of which takes the song, refuses it, hangs or is gone. Times are
ages and waits that `Tick` advances: a token that is back and a refusal that is
old are dropped there, where the code drops them when it next looks. A song's
payload is the song: the code compares payloads, and two of one song differ only
in what the model leaves out. `denied`, `written`, `reopened` and `hushed` are history
variables: what Discord answered stays in `written` when a new `DiscordRPC` starts
with no `writes` of its own.

### CoverFetcher

`jobs` is the queue of the executor and `at`, `song`, `cover` its one worker:
`LookUp`, `FindImage`, `Download`, `KeepArrived` and `Finish` are the steps of
`_fetch_all` (or of `_download` alone, `song` being `NoSong`) between which the
daemon's thread may come in, `ReadSpared` and `Sweep` those of `_drop_temp`.
`memo` is `_url_cache`, oldest first, `inflight` and `imageInflight` the marks,
`cooling` and `imageCooling` the failures of the last minute. `keep_covers` and
the end of `_download` copy under `_keep_lock` (`Copy`), each copy possibly
failing into `uncopied`, a history variable. `get_local_path` is two steps,
`FindMissing` and `DownloadAgain`: it drops the lock in between. A song is
asked for under its own album and, once known, under the catalog's (`NamesOf`).
`Restart` ends the process wherever it is; the next one sweeps the directory
left behind. Only the daemon's thread is taken to call the fetcher; the
notification threads, which only call `get_local_path`, are its `FindMissing`.

## The runs

| run | asks | bounds | distinct states |
|---|---|---|---|
| `queue` | do memory, counts and file stay in step, do rows leave, and is it a `DurableQueue` | two plays, two accounts, a cap of 2 and batches of 2, one of which holds a line separator, two stores on top of any file of up to 3 rows | 176,531 |
| `queue_drain_claim` | does a drain remove exactly what it submitted | cap 2, batches of 1 | violated |
| `scrobbler` | the play in progress in five environments | two songs (lengths 2 and 6), time 6, polls 1 to 3 apart, two listens, two events (quit, crash, switch, gated poll) | 531,855 |
| `scrobbler_escape_claim` | is a late album the same play whatever the song is called | one short song with a `%` in its title | violated |
| `scrobbler_album_claim` | is one listen one scrobble when the album turns up after a restart | one short song, one quit | violated |
| `scrobbler_gap_claim` | does a counted play survive what plays in a gap | one long song, clips | violated |
| `delivery` | drains, sessions, accounts, restarts | two plays, two accounts, one switch, revocation, announcement and restart each, sharing turned off and on without end | 1,087,808 |
| `delivery_account_claim` | does a play only go to its own account | one switch | violated |
| `history` | the history in seven environments | one or two songs (lengths 2 and 6), time 4, polls 1 or 2 apart, two listens, two requests or restarts, a limit of 2 that may be set to 1 | 255,359 |
| `discord` | the rate, what is believed shown, and silence with sharing off | two clients, two songs, two tokens in a window of 2, resend after 2, waits of 1, two events (plays, settings, faults, connections opened anew) | 2,340,048 |
| `discord_shown` | does Discord come to show what is wanted | one client, two songs, one token in a window of 1, the same faults | 277,330 |
| `covers` | marks, temporary and lasting images, and does the shown song get its image | two songs with a cover each, the first known to the catalog under the name of the second; a memo of one, a song that changes while no job waits | 110,588 |

Why the bounds are enough to say something. The thresholds of `MCScrobbler`
keep the order of the real ones (the gap clamp, save interval, grace and replay
distance against half a song), scaled so that a few polls cross each of them:
one song is shorter than the saving interval and one needs the four-minute cap;
a poll may fall on, before and past the grace, and on both sides of every
tolerance. With two listens a play can be replayed, ended by another song, or
carried over; with two events a quit can follow a crash or a change of account.
The queue starts from *every* file of up to cap + slack rows, torn or not,
duplicates included, so short behaviours reach what long ones would. In the
delivery a pool of two tasks holds a drain and an announcement, more than the
program ever has waiting per kind but for announcements.

Longer random behaviours of `Scrobbler` (time 20, five listens, six events)
found nothing the exhaustive run does not.

`MCPlayHistory` keeps the same order of thresholds. A limit of 1 under a list of
two rows makes every trim happen, and the song of length 2 is short enough to be
heard out twice, which is what two rows of one song need. Each environment is small by itself (a
restart and a removal, a crash and a change of the settings, ...),
with at most two requests in one behaviour. With three (732,194 states), or up to time
5 with two (1,010,653), nothing more was found.

`discord` keeps the order of the real times (the window and the resend are the
long ones, retries the short ones) and uses two events because a fault after a
change of song, or a setting turned twice, is what it takes to part what is
believed from what is shown; two tokens so that a burst is one too many. The
claims about two clients are in `discord`, the liveness is checked with one: the
code sends to all clients in one go, and with two the graph is too large for it.

`covers` has a memo of one, so every second answer evicts the first, and a song
that the catalog knows under the name of another, which is how the two lookups of
one poll evict each other. With `MaxJobs = 1` the song changes only while no job
waits: the lookup or download behind which the drop is queued is the one the
worker is at. `MaxJobs` bounds that moment, not the queue, and `TempImagesAreShown`
is proved for a queue of any length. Three songs, a memo of two and two jobs
(1,424,063 states, without liveness) found nothing more.

Deadlock checking is off only for `Scrobbler` and `PlayHistory`, whose clock is
bounded: behaviours end when time does.

### What the properties say

- `FileHoldsQueue`, `NeverBuildOnTornRow`, `FileBounded`, `KeysCountItems`:
  what a restart would load is what is in memory, unless the file is marked
  dirty; and nothing is appended behind half a row or half a character.
- `DrainExact`, `LossesBoundedByTrims`: a drain removes its batch, and at most
  as many others as the cap pushed out meanwhile. The comment at
  `scrobble_queue.py:270-272` claims the removal is always exact
  (`OnlySubmittedRemoved`); it is not.
- `OneDrain`: the in-flight flag is set exactly while one drain waits or runs.
- `LeavesForAReason`: a row leaves the queue only when Last.fm took or refused
  it, or another account is connected.
- `OwnAccountUnlessSwitched`: while the account stays, plays go to their own;
  without that condition it fails (`NeverToAnother`).
- `OncePerListenOfSongs`, `CountedSongSurvives`: one listen, one beginning in
  the queue; what counted is in the queue, in progress, or in the file from
  where the next run queues it. Both are for sources that show songs or
  nothing; without that they fail (`OncePerListen` with late albums,
  `CountedSurvives` with clips), which is what the claim runs show. The runs have
  songs of lengths 2 and 6: odd lengths, and a song of exactly the minimum, are in the
  theorems only.
- `TimeCountsOnce`: the stretches of time that two queued plays must have been
  heard for do not overlap, and none lies in the future.
- `HeardSinceTheCut`: what is queued was heard since sharing was last off or
  the account last changed.
- `OnePlayPerListen`: while Refrain runs and the source shows songs, a listen is
  one play, whenever its album turns up; false for songs with a `%` or a `|` in
  their names.
- `CurrentIsNewest`: a play that counts is the newest row, one that does not is
  no row, and the same for the last run's song while it waits.
- `OneRowPerListen`, `HeardIsListed`, `HeardForItself`: over quits and starts a
  listen is one row, is listed once it was heard for long enough, and not before it
  was, in time that counted for no other row.
- `WhatIsListedIsStored`, `ProgressIsStored`: what a crash costs, which is no row and
  less than one saving interval of the song playing.
- `ForgottenStaysForgotten`, `RemovedStaysOut`, `OffKeepsNothing`: what was removed,
  cleared or switched off is in no field and no file, and does not come back with
  its late album or after a poll without a song.
- `WindowIsCurrent`: the window shows what there is, so that what the user clicks
  on is there to be removed.

- `KeepsPromise`: all of `DurableQueue`, step by step.
- `RateKept`: a window has at most as many answered writes as tokens, and as many
  again for each connection opened anew in it, refused ones and resends included,
  the forced clear on the way out not. In the run both happen: two tokens, and four
  answered writes in a window with one reopening (item 25).
- `CacheIsTrue` and `HushedStaysQuiet` have an exception each, a client that refused
  (item 21) and a connection opened anew (item 18); what the code does wrong in these
  two cases they do not tell.
- `CacheIsTrue`: a connection a client holds is one the thread has too; a song
  that would not be sent again is what every client shows that did not refuse a
  write (`denied`); after a clear none shows anything.
- `HushedStaysQuiet`: from the moment the thread took the clear of a poll that
  found sharing off, no connection is made and no song comes to be shown, whatever
  the thread was in the middle of.
- `LastWishIsShown`: once the user and Discord settle, Discord comes to show what
  is wanted and keeps showing it.
- `MarksAreTrue`: a song or image is marked as under way exactly while it is; a
  mark that stayed behind would keep the song without its cover for good.
- `ImagesFollowHistory`: nothing stays on disk that the history does not list,
  and what it lists is there if it was ever downloaded and the disk took it, on
  whichever thread it was noticed.
- `TempIsForShown`: once the worker is done with the drops queued, every
  temporary image is the shown song's, under either album; until `shutdown` (item 26).
- `ShownGetsItsImage`: the song that stays on has its image again and again.

The properties about the file, and those that count what was heard, are for a file
that takes what it is given: the code accepts the loss otherwise ("A failed write
keeps the list for this session").

### Fairness

`FairSpec` of `ScrobbleQueue`: the scrobbler starts a drain again and again
(`_maybe_drain_locked`, every minute while the queue is not empty), the drain's
own steps are not held up, Last.fm answers a submission that is tried for ever
(strong fairness: it may fail any finite number of times in between), and at
some time the restarts stop. A failing disk needs no fairness: `QueueDrains`
holds although every write may fail for ever.

`FairSpec` of `ScrobbleDelivery`: the executor runs its tasks (`WorkerSteps`),
every request ends because it has a timeout (`LastfmAnswers`), the daemon polls
and the drain interval passes, and a request made for ever is some time taken or
its session refused (strong fairness on the two together: the code cannot make
Last.fm take what it refuses). `QueueEmpties` says the queue is empty again and
again, unless sharing is off again and again, no account is connected, the session
was refused, or the latch was set by an answer to the session before (`late`). The
last is not as it should be (item 9): without it `QueueEmpties` is violated.

`FairSpec` of `DiscordRPC`: the thread runs (`ThreadNext`), the daemon polls
(`PollFlag`, `PollPost`) and closes or reopens what it set out to
(`Close`, `Reopen`), time passes, and a client that is starting gets ready.
Misbehaviour and holding back count as events, of which there are at most
`MaxEvents`: `LastWishIsShown` is for a Discord that settles down some day, which
the code cannot bring about.

`FairSpec` of `CoverFetcher`: the worker runs, since every request has a timeout;
every poll asks for the cover and the image of the shown song (`Get`,
`FindMissing`, `DownloadAgain`), and cooldowns run out. Strong fairness where a
poll's question is not open all the time: `FindMissing`, because with the memo at
its cap the two names of one song evict each other, and the success of what is
tried for ever (lookup, directory, download).

`Scrobbler` and `PlayHistory` have no liveness property: the player is not obliged
to do anything.

## What is proved

For all values of the constants, all numbers of plays, songs, accounts, sizes
and steps; the bounds of the model (`MaxStores`, `MaxTime`, ...) are arbitrary
too. From the named assumptions `QueueAssumption`, `DeliveryAssumption`,
`PlayRulesAssumption`, `ReplayAssumption`, `ListenerAssumption`,
`ScrobblerAssumption`, `DiscordAssumption`, `PlayHistoryAssumption`,
`CoverAssumption`, and `NoneIsNoPlay`, `NoneIsNoEntry` and `NoneIsNoRefusal` (the
values for "none" are not themselves plays, files or refusals),
which TLC evaluates in the runs.

**ScrobbleQueue** — `TypeCorrect`, `RestartLoadsTheQueue` (`FileHoldsQueue`),
`FileStaysSound` (`FileBounded`), `TornRowIsNoticed` (`NeverBuildOnTornRow`),
`DrainRemovesItsBatch` (`DrainExact`). The invariant is `TypeOK /\ FileInv /\ BatchLeadsQueue`.
`FileHoldsQueue` is not inductive alone: after an append it needs that the
newest rows of a longer sequence depend only on its end
(`NewestOfAppend`), and that no file means no rows. `DrainExact` needs
`BatchLeadsQueue`: the queue still starts with the batch, short of the rows
trimmed. `KeysStayInStep` (`KeysCountItems`) counts: the set of positions of a
play's rows is carried through an append, a cut at the front and a selection by a
bijection each. `LossesAreTheTrims` (`LossesBoundedByTrims`) needs that the batch
is never longer than the queue and the rows trimmed together.

**ScrobbleQueue_refinement** — `QueueKeepsItsPromise` (`KeepsPromise`): initial
states are initial states of `DurableQueue`, and every step is one of its steps
or a stutter. It stands on the invariant above with `KeysCountItems`, which is
why the counts' word that a play is not queued yet may be taken for `Put`'s guard.
A trim in memory and an append to the file are one `Store`, because the newest rows
of the longer file are the trimmed queue.

**ScrobbleDelivery** — `TypeCorrect`, `OneDrainAtATime` (`OneDrain`),
`ToItsOwnAccount` (`OwnAccountUnlessSwitched`), `NothingLeavesUnsettled`
(`LeavesForAReason`). The invariant has a part for each: the flag against the
pool and the worker (`FlagInv`, stated with positions of the pool, from which
the cardinality of `OneDrain` follows); the batch being the front of the queue
until it is removed, and settled when it is about to be (`BatchInv`); and what
the worker knows being what is connected, as long as nobody switches
(`AccountInv`).

**Scrobbler** — `TypeCorrect`; `CreditedOnce` (`TimeCountsOnce`) and
`QueuedOnlyWhatWasShared` (`HeardSinceTheCut`), both for worlds in which the
progress file can be written and removed. The invariant (`TimeInv`) ties three
places together: what the file holds of the play in progress (`FileInv`,
`KeptIn`: a play that counts has left something in the file, and a file that is
not the play's own holds at most a play of which nothing was heard), and that
for the play in progress and for the file alike, beginning (or cut) plus play
time is not past now, and everything queued of another play was heard before it
began (`OwnTime`). `TimeCountsOnce` alone says nothing of plays that are not
queued yet, so it is not inductive. The part about a file with an unheard play
is there because of the stale file described below.

Three more theorems compare what the scrobbler keeps with what the listener hears.
They need that the play in progress is the listen under way, where it was last seen
(`Matches`), and that seeing the song go on never looks like a replay, which is what
`ReplayAssumption` (a jump back has a length) is for.

- `OneListenOnePlay` (`OnePlayPerListen`), for worlds with `AlbumsAreTold`: an album
  that comes late is found to be the song's, that is, no name has a `%` or a `|`.
  Item 5 below is what happens otherwise.
- `CountedIsKept` (`CountedSongSurvives`): what has counted is queued, counting now,
  in the file, or about to be compared (`EarnedKept`), and, where Refrain may crash,
  what counts now is in the file too (`Stored`). For quits there is no condition. For
  crashes it needs `SafeInACrash`: writes that do not fail, and one length per song,
  since a play that counts under one length and is carried on with a longer one counts
  no more, or counts with a shorter one before that is saved (item 8).
- `OnceForAll` (`OncePerListenOfSongs`): all places where a play of one listen may be
  found, the queue, the play in progress, the saved one and the file, agree on when it
  began (`OneBeginning`), and a file with the listen under way has it where the
  listener can still be (`FileIsHeard`). Where Refrain restarts it needs `FoundAgain`:
  no late album (item 3 below), no failing write, and a listener who does not seek
  while Refrain is away, whom `_resume` has no way to tell from a new listen.

**DiscordRPC** — `TypeCorrect`; `ShownIsBelieved` (`CacheIsTrue`), from an
invariant that also says what each phase of the turn leaves connected;
`RateIsKept` (`RateKept`): the newest of the answered writes are the connection's own
and matched by the ages it keeps, so that the tokens it counts are at least those in
use; before them, the k-th lot of as many as there are tokens came before the k-th
latest reopening (`Own`, `RateInv`). A write and the reopening after it leave the
window together, since all three sequences are in order; `SharingOffIsQuiet` (`HushedStaysQuiet`): once hushed, nothing to be
shown is in the inbox, in the turn or pending (`HushInv`).

**PlayHistory** — `TypeCorrect` and `TheSongIsTheNewestRow` (`CurrentIsNewest`),
whether or not writes fail, from the invariant `Inv`: in memory (`MemoryOK`) the
play in progress or the saved song is the newest row if it counted and no row if
it did not, at most one of the two is there, and nothing began later than now; the
file holds the like (`FileOK`), since the next start makes it memory.
`TheWindowIsCurrent` (`WindowIsCurrent`): what a poll may leave behind is said once,
in `Outcome`, and a poll that does not emit leaves list and play looking the same
(`Alike`, `ShownAlike`, `SnapshotSame`). `OffMeansNothing` (`OffKeepsNothing`, needs
`OffInv`: no file while off). Where writes do not fail: `TheListIsStored`
(`WhatIsListedIsStored`) and `TheProgressIsStored` (`ProgressIsStored`), both from
`StoredInv`: the file has the list as the window would show it, and of the play in
progress what its `saved` says; `ForgottenIsGone` (`ForgottenStaysForgotten`), from
`CleanInv`: in memory and file together two plays that began at one time are one,
so that taking out what the window names takes out every copy of it. That needs
`WindowIsCurrent` (a line a click refers to is a row) and `OffInv` (switching on
loads nothing).

Four theorems compare the history with what the listener hears. They rest on
`Follows` (the song on right now is the listen under way, where it was last seen)
and `Numbered` (nothing is of a listen still to come). Their hypotheses are about
the world, and every environment of the run `history` meets them.

- `OutStaysOut` (`RemovedStaysOut`), from `TakenOut`: while the listen that was taken
  out goes on, it is ignored under the name it has now and nothing of it waits to be
  carried on. It needs `AlbumsAreTold`, for the reason of item 5.
- `OneListenOneRow` (`OneRowPerListen`), from `OneRow`: in memory and in the file
  alike no listen has two rows, the row of the listen under way is that of the play
  in progress, and what is saved of it is where the next start will find the
  listener. Where the file may be read again (after a quit, a crash, or a deletion
  that failed) it needs `RowsFoundAgain`: albums show at once, the listener does not
  seek meanwhile, and a song that has no length at first never gets one. In each of
  the other cases the name, the place or the time the song may be left for differs
  from what was saved, and the code takes it for another play.
- `RowsAreHeardForThemselves` (`HeardForItself`), without any hypothesis, from
  `OwnTimes`: what was heard of a play in memory or in the file fits between its
  beginning and now, and a play that has not counted began after the last one that
  did. A play that was counted when it was removed cannot come back with its time,
  which is where `ForgottenIsGone` is needed again.
- `NothingHeardIsForgotten` (`HeardIsListed`), from `Listed`: a play counts as soon
  as it may, in memory and in the file, and what was heard of the listen under way is
  all with the play in progress or, between two runs, with the saved one. Its part
  `PlaysKnown` says that a length comes from the song and that the same play is the
  same listen everywhere. Where Refrain restarts it needs `ListensFoundAgain`: as
  above, and that every song has one length, because a play carried on with another
  length may have counted by it already, and does so one poll later.

**CoverFetcher** — `KeptForTheHistory` (`ImagesFollowHistory`), which needs that a
temporary directory nobody knows of is empty as long as one may still be made
(`DirInv`); `MarksSayWhatIsUnderWay` (`MarksAreTrue`): each lookup and each
download waits at most once, and not while the worker is at the same
(`OnceInv`), so what a job takes off the marks is its own; `TempImagesAreShown`
(`TempIsForShown`): from the last drop in the queue on every job is for the song
shown; when no drop waits so is what the worker holds, and when it is not at one
either so is what lies in the directory (`ShownInv`).

The proofs follow one pattern: a lemma for what each operator returns, a lemma
for what each kind of poll leaves behind, one step per action, PTL at the end.

Only model-checked: the liveness properties (`QueueDrains`, `QueueEmpties`,
`LastWishIsShown`, `ShownGetsItsImage`), which are out of the prover's reach, as is
ENABLED. Every safety property of a passing run is stated by a theorem, those that
compare with the listener under the hypotheses given above.

## Where the code does not do what it says

Found while modelling; the first five have a run.

1. `scrobble_queue.py:275` — a drain removes the first rows of the queue as it
   is *after* the submission; a play stored at the cap meanwhile has shifted
   them, and a row that was never submitted goes, though in the run's trace one with
   the same dedup key was (`queue_drain_claim`).
2. `scrobble.py:946` — the account may change between a drain's filter and its
   batches: plays of one account are scrobbled to the other
   (`delivery_account_claim`).
3. `scrobble.py:792` — the saved play's key is compared exactly, album included. A
   song that counted before its album was known, and whose album is known by the
   first poll after a restart, is taken for another: the saved play is closed, and
   the same listen is scrobbled again (`scrobbler_album_claim`).
4. `scrobble.py:675` — in a gap the length of what is shown replaces the song's:
   a play that had counted may not count any more (`scrobbler_gap_claim`).
5. `scrobble.py:128` — a key escapes `%` and `|` in the names
   (`sources/base.py:79-90`), and what `fills_in_album` compares it with does
   not: for a song with one of these signs a late album is never recognised, and
   the poll in which it turns up ends the play and begins another
   (`scrobbler_escape_claim`). The history uses the same function, so there the song
   loses its count or gets a second row.

And without a run of their own:

6. In a gap "now playing" goes out with the names of what is shown then
   (`scrobble.py:684-699`), though the comment at 622-624 says none goes out.
7. The position of a poll in a gap is compared with the song's
   (`scrobble.py:642`) though 613-614 says it belongs to something else: the
   song can be taken for starting over, and what follows goes by the other
   thing's names (`GapStartsOver`).
8. A play carried over a restart counts at once if its length is now shorter,
   without being saved at that moment (801, 677-682); only the boundary queues
   it.
9. The session latch may be set by an answer to the session before
   (`scrobble.py:966`), although 511 and 570-571 say a new session starts
   unrefused: the new one is then not used until the next change. `QueueEmpties`
   fails without the exception `late`, which is this.
10. The class comment (412-414) and `docs/lastfm.md:9` say a play goes out the
   moment it qualifies; it is queued when it ends.
11. The file of a play that was carried on, and of which nothing was heard
    before or after, outlives its end (`scrobble.py:745` asks whether this run
    saved something, and 599-600 clears only when something is in progress). It
    can be carried on after sharing was off in between, so a row may *begin*
    before the cut; what it is credited with is still all heard after it, which
    is why `HeardSinceTheCut` speaks of time heard and not of beginnings.
12. `history.py:762-763` says a damaged file is kept for a look rather than
    overwritten by the next save. One that cannot be decoded (751-755) is not set
    aside, and one that could not be moved is not either: the next save replaces it.
    `Load` has the second.
13. `history.py:512-514` says a song removed while it plays stays out until the next
    song. `_ignore_key` is in no file, so after a restart the song is on again,
    counts from zero and gets a row. `RemovedStaysOut` is for one run of Refrain.
14. Switching the history off (`history.py:560-569`) keeps `_ignore_key` and
    `_gone_at`: switched on again it still keeps a song out, while `clear` does not.
15. A play that counted early under a wrong length stays in the history when the
    length is corrected; the scrobbler asks again at the boundary. So the two can
    differ on such a song, though `docs/architecture.md:260-262` calls them one
    decision.
16. `paths.py:58` takes `os.write` to write all it is given. On a disk that fills up
    it may write less without an error, and the cut-off file then replaces the good
    one, although the docstring promises an atomic replacement. `PlayHistory` has
    this (`Written`); `ScrobbleQueue` and `Scrobbler` take a write as all or
    nothing, so what they say of the file is said for writes that are not cut short.
17. `discord_rpc.py:367-368` says of the pending song that the last one wanted is
    the one that goes out. `update` returns before it stores the new one when
    nobody is connected (it cannot be dialled, or the backoff runs), so an older
    song that failed before is still pending, and goes out after the connection is
    made if no later post replaces it first.
18. `discord_rpc.py:389-390` says that with sharing off the thread does not reach
    for Discord by itself. A connection opened anew by `update_config`
    (`daemon.py:654-655`) starts with sharing on, until the next poll says
    otherwise; `HushedStaysQuiet` ends where a connection is new.
19. `_fault` of a song a client refused survives the clear that follows
    (`discord_rpc.py:802-827`): the status window says "error" while nothing is to
    be shown.
20. With one client wanted, the first in order is tried first, and one that is
    signed out keeps the others from being tried for as long as it is
    (`discord_rpc.py:552-596`).
21. A resend that one client refuses while another hangs leaves `_last_payload`
    set although nobody shows it: `CacheIsTrue` excepts a client that refused.
22. A drop queued for the song before can delete the image of a song that was
    played, left and come back to meanwhile (`cover_fetcher.py:257-268` spares the
    song it was queued for): the next poll downloads it again. A copy for the
    history that failed is only tried again when the history's covers change or
    that image is downloaded anew (`cover_fetcher.py:240`).

23. `scrobble_queue.py:119-124` catches `OSError` and a JSON error, not the
    `UnicodeDecodeError` of a file that an append left cut within a character. It
    leaves `Scrobbler.__init__` (431) and the daemon's, and Refrain does not start
    until the file is removed. `FailToStart` has it; `QueueDrains` is about the plays
    in memory and says nothing of those in such a file.
24. `scrobble_queue.py:126` splits the file with `splitlines`, which also splits at
    U+0085, U+2028 and U+2029; the rows are written with `ensure_ascii=False`, which
    leaves these in a name as they are. Such a row is lost at the next start although
    it was written whole (`Broken`).
25. `discord_rpc.py:129-131` says no window of 20 s holds more than five writes. The
    tokens are the object's, and `daemon.py:654` and `1617` make a new one in the
    middle of a window: it may then hold twice as many. `RateKept` counts the
    reopenings.
26. `cover_fetcher.py:14-15` says `shutdown` removes the temporary images. It only
    forgets the directory (270-278), which the next start sweeps; `TempIsForShown`
    ends at the shutdown.

## What is not modelled

Wording (labels, logging, normalisation of names beyond acceptance); Last.fm's
error codes beyond the four kinds the code tells apart; two Refrains on one file
(the single-instance lock); a wall clock that jumps; the `.tmp` file of an
atomic write (it replaces the file or leaves it; item 16 above is the exception,
which `ScrobbleQueue` and `Scrobbler` do not have).

Of the history: `resume_estimate_ms`, addresses and covers beyond one that turns
up, and rows a hand-edited file may hold; that is why it is "partly" modelled.

Of Discord: what pypresence does when it looks for a client itself (an attempt
that fails), the trimming of a payload's fields, no application id, the eviction
of the oldest of 64 refusals, and a close that gives up waiting for the thread.

Of the covers: the search in the catalog and its answers on disk, the addresses,
lengths and albums remembered under the same keys, files that cannot be deleted,
and the lock that spares a second run's directory.

The composition of `Scrobbler` and `PlayHistory` under one listener: where the two
take different decisions (items 2, 4 and 15, and a clip between two stretches of a
song, a gap for one and a boundary for the other, `history.py:356`) is known from
reading; their product is beyond what TLC finishes at bounds where both decide
anything.

Positions and lengths (`timing.py`, `song_lengths.py`) are arithmetic on one
song's clock by one thread; the models take what they resolve as input. Choosing a
player and detecting an idle one (`daemon.py`) is a chain of conditions on the
poll's data without state shared between threads. Secrets, the updater, the
single instance, the configuration and the windows are calls to services outside
the program, one at a time. `PROJECT.json` has a reason for each under
`components`.
