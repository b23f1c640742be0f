--------------------------- MODULE ScrobbleQueue ---------------------------
(***************************************************************************)
(* The persistent queue of plays waiting for Last.fm                       *)
(* (src/refrain/scrobble_queue.py).                                        *)
(*                                                                         *)
(* Two threads use it.  The daemon's worker appends a play (enqueue); the  *)
(* scrobbler's background thread drains it (drop_other_accounts, then      *)
(* drain), holding the lock while it takes a batch and while it removes    *)
(* one, and not while the batch is on its way to Last.fm.  Every change is *)
(* mirrored in a file: an enqueue appends one row, everything else         *)
(* rewrites the file atomically.  Any write may fail, an append may leave  *)
(* half a row, and the process may die at any point and load the file      *)
(* again - if the file can be decoded: an append cut inside a character    *)
(* leaves one that cannot, and no process starts on that.                  *)
(*                                                                         *)
(* A play stands for its dedup key (artist, track, second it began).       *)
(* Writing leaves every character of a name as it is, but loading splits   *)
(* the text wherever str.splitlines does, at U+0085 or U+2028 too: a row   *)
(* whose names hold one of those is written like any other and read back   *)
(* as two pieces that do not parse.  Broken are the plays with such names. *)
(* Items that _normalize refuses and a play that is already queued change  *)
(* nothing and have no step.                                               *)
(***************************************************************************)
EXTENDS Integers, Sequences, FiniteSets, Rows

CONSTANTS
  Plays,      \* dedup keys of the plays that can be queued
  Accounts,   \* Last.fm accounts, equal up to case
  NoAccount,  \* a row written before accounts were recorded
  MaxEntries, \* max_entries: rows kept in memory
  BatchSize,  \* batch_size of drain
  Broken,     \* plays with a line separator of Unicode in their names
  MaxStores   \* bound of the model: enqueues that store a row

ASSUME QueueAssumption ==
  /\ NoAccount \notin Accounts
  /\ MaxEntries \in Nat \ {0}
  /\ BatchSize \in Nat \ {0}
  /\ Broken \subseteq Plays
  /\ MaxStores \in Nat

VARIABLES
  items,      \* _items: the queue in memory, oldest first
  keys,       \* _keys: how many queued rows carry each dedup key
  fileThere,  \* the file exists
  rows,       \* the rows written to the file, whole
  torn,       \* the file also holds something that is no whole row
  garbled,    \* what is torn ends within a character: no UTF-8 any more
  fileRows,   \* _file_rows
  fileDirty,  \* _file_dirty
  drainPc,    \* where the background thread stands in drain; "down" when
              \*   there is no process, the last one having failed to start
  batch,      \* the rows it took and is submitting
  trimmed,    \* rows the cap pushed out since the batch was taken
  stores      \* rows stored so far (bounds the model)

memory == <<items, keys>>
disk == <<fileThere, rows, torn, garbled>>
belief == <<fileRows, fileDirty>>
drainer == <<drainPc, batch, trimmed>>
vars == <<items, keys, fileThere, rows, torn, garbled, fileRows, fileDirty,
          drainPc, batch, trimmed, stores>>

Item == [play : Plays, account : Accounts \cup {NoAccount}]

(* How far the file may run past the cap before it is compacted.           *)
Slack == IF MaxEntries < 10 THEN 1 ELSE MaxEntries \div 10

----------------------------------------------------------------------------
(* Sequences of rows.                                                      *)

(* Variant: the queue is never trimmed.                                    *)
NewestUncapped(s) == s

(* The rows a loaded or trimmed queue keeps: the last MaxEntries.          *)
Newest(s) ==
  LET over == IF Len(s) > MaxEntries THEN Len(s) - MaxEntries ELSE 0
  IN  [i \in 1 .. Len(s) - over |-> s[i + over]]

(* The rows in front of those.                                             *)
Overflow(s) ==
  LET over == IF Len(s) > MaxEntries THEN Len(s) - MaxEntries ELSE 0
  IN  [i \in 1 .. over |-> s[i]]

(* The rows of a file that parse when it is read again, in their order (a  *)
(* set of one listing).                                                    *)
Parsing(s) == {i \in 1 .. Len(s) : s[i].play \notin Broken}
Parsed(s) ==
  UNION {{[i \in 1 .. n |-> s[f[i]]] : f \in Listings(n, Parsing(s))} :
           n \in 0 .. Len(s)}

CountOf(s, p) == Cardinality({i \in DOMAIN s : s[i].play = p})
KeysOf(s) == [p \in Plays |-> CountOf(s, p)]
AddKey(k, p) == [k EXCEPT ![p] = @ + 1]
(* Variant: a dedup key is forgotten with the first row that carries it.   *)
DropKeysAsSet(k, s) == [p \in Plays |-> IF CountOf(s, p) > 0 THEN 0 ELSE k[p]]

DropKeys(k, s) ==
  [p \in Plays |-> IF k[p] > CountOf(s, p) THEN k[p] - CountOf(s, p) ELSE 0]

----------------------------------------------------------------------------
(* Writing the file.                                                       *)

(* _save_locked: the whole queue, through a temporary file and a rename,   *)
(* so it either replaces the old file or leaves it as it was.              *)
SaveSucceeds(new) ==
  /\ fileThere' = TRUE
  /\ rows' = new
  /\ torn' = FALSE
  /\ garbled' = FALSE
  /\ fileRows' = Len(new)
  /\ fileDirty' = FALSE

(* Variant: a failed rewrite goes unnoticed.                               *)
SaveFailsQuietly == UNCHANGED <<disk, belief>>

SaveFails ==
  /\ fileDirty' = TRUE
  /\ UNCHANGED <<disk, fileRows>>

Save(new) == SaveSucceeds(new) \/ SaveFails

(* _append_locked: one row at the end of a file that is known to hold the  *)
(* queue, the whole queue otherwise.                                       *)
(* Variant: the file is never compacted.                                   *)
NeedsRewriteIgnoringSlack == fileDirty \/ ~fileThere

NeedsRewrite == fileDirty \/ fileRows >= MaxEntries + Slack \/ ~fileThere

AppendSucceeds(it) ==
  /\ rows' = Append(rows, it)
  /\ fileRows' = fileRows + 1
  /\ UNCHANGED <<fileThere, torn, garbled, fileDirty>>

(* Variant: a failed append goes unnoticed.                                *)
AppendFailsQuietly(it) ==
  /\ torn' = TRUE
  /\ rows' \in {rows, Append(rows, it)}
  /\ UNCHANGED <<fileThere, garbled, belief>>

(* The file cannot be opened, or the write stops part of the way: the row  *)
(* may be missing, half there (and cut within a character), or there       *)
(* without its line end.                                                   *)
AppendFails(it) ==
  /\ fileDirty' = TRUE
  /\ \/ UNCHANGED <<rows, torn, garbled>>
     \/ /\ torn' = TRUE
        /\ \/ rows' = rows /\ garbled' \in BOOLEAN
           \/ rows' = Append(rows, it) /\ UNCHANGED garbled
  /\ UNCHANGED <<fileThere, fileRows>>

AppendRow(it, new) ==
  \/ NeedsRewrite /\ Save(new)
  \/ ~NeedsRewrite /\ (AppendSucceeds(it) \/ AppendFails(it))

----------------------------------------------------------------------------
(* The operations.                                                         *)

(* __init__ and _load: what a process that starts on this file holds.      *)
FileRowsAtStart == UNION {[1 .. n -> Item] : n \in 0 .. MaxEntries + Slack}

Init ==
  /\ fileThere \in BOOLEAN
  /\ rows \in {r \in FileRowsAtStart : ~fileThere => r = <<>>}
  /\ torn \in {b \in BOOLEAN : b => fileThere}
  /\ garbled = FALSE
  /\ \E read \in Parsed(rows) :
       /\ items = Newest(read)
       /\ fileRows = Len(read)
       /\ fileDirty = (torn \/ Len(read) < Len(rows))
  /\ keys = KeysOf(items)
  /\ drainPc = "idle"
  /\ batch = <<>>
  /\ trimmed = 0
  /\ stores = 0

(* Variant: a new play goes to the front of the queue.                     *)
EnqueueInFront(it) ==
  /\ drainPc # "down"
  /\ keys[it.play] = 0
  /\ stores < MaxStores
  /\ Len(items) < MaxEntries
  /\ items' = <<it>> \o items
  /\ keys' = AddKey(keys, it.play)
  /\ Save(items')
  /\ stores' = stores + 1
  /\ UNCHANGED drainer

(* enqueue: the worker stores a play that is not queued yet; at the cap    *)
(* the oldest row makes room, whether or not it is on its way to Last.fm.  *)
Enqueue(it) ==
  LET all == Append(items, it)
  IN  /\ drainPc # "down"
      /\ keys[it.play] = 0
      /\ stores < MaxStores
      /\ items' = Newest(all)
      /\ keys' = DropKeys(AddKey(keys, it.play), Overflow(all))
      /\ AppendRow(it, Newest(all))
      /\ trimmed' = IF drainPc \in {"submitting", "accepted"}
                      THEN trimmed + Len(Overflow(all)) ELSE trimmed
      /\ stores' = stores + 1
      /\ UNCHANGED <<drainPc, batch>>

(* drop_other_accounts, the first thing a drain does: rows heard under     *)
(* another account go, the others stay in their order; a row without an    *)
(* account belongs to anyone.                                              *)
Mine(it, account) == it.account \in {account, NoAccount}
MineAt(account) == {i \in 1 .. Len(items) : Mine(items[i], account)}

(* Variant: other accounts' rows are dropped while a batch is under way.   *)
DropOtherAccountsAnyTime(account) ==
  /\ drainPc # "down"
  /\ drainPc' = IF drainPc = "idle" THEN "draining" ELSE drainPc
  /\ \E n \in 0 .. Len(items) : \E f \in Listings(n, MineAt(account)) :
       items' = [i \in 1 .. n |-> items[f[i]]]
  /\ keys' = KeysOf(items')
  /\ Save(items')
  /\ UNCHANGED <<batch, trimmed, stores>>

DropOtherAccounts(account) ==
  /\ drainPc = "idle"
  /\ drainPc' = "draining"
  /\ \/ /\ MineAt(account) = 1 .. Len(items)
        /\ UNCHANGED <<memory, disk, belief>>
     \/ /\ MineAt(account) # 1 .. Len(items)
        /\ \E n \in 0 .. Len(items) : \E f \in Listings(n, MineAt(account)) :
             items' = [i \in 1 .. n |-> items[f[i]]]
        /\ keys' = KeysOf(items')
        /\ Save(items')
  /\ UNCHANGED <<batch, trimmed, stores>>

(* drain, first half: the oldest rows are copied under the lock.           *)
TakeBatch ==
  /\ drainPc = "draining"
  /\ items # <<>>
  /\ batch' = Prefix(items, BatchSize)
  /\ trimmed' = 0
  /\ drainPc' = "submitting"
  /\ UNCHANGED <<memory, disk, belief, stores>>

DrainDone ==
  /\ drainPc = "draining"
  /\ items = <<>>
  /\ drainPc' = "idle"
  /\ UNCHANGED <<memory, disk, belief, batch, trimmed, stores>>

(* submit(batch) returns: Last.fm took the rows, or refused them for good. *)
SubmitReturns ==
  /\ drainPc = "submitting"
  /\ drainPc' = "accepted"
  /\ UNCHANGED <<memory, disk, belief, batch, trimmed, stores>>

(* submit(batch) raises: the drain ends with every row kept.               *)
SubmitRaises ==
  /\ drainPc = "submitting"
  /\ drainPc' = "idle"
  /\ batch' = <<>>
  /\ trimmed' = 0
  /\ UNCHANGED <<memory, disk, belief, stores>>

(* Variant: rows leave the queue only once the file could be rewritten.    *)
RemoveSubmittedIfSaved ==
  /\ drainPc = "accepted"
  /\ \/ /\ items' = After(items, Len(batch))
        /\ keys' = DropKeys(keys, Prefix(items, Len(batch)))
        /\ SaveSucceeds(items')
     \/ SaveFails /\ UNCHANGED memory
  /\ batch' = <<>>
  /\ trimmed' = 0
  /\ drainPc' = "draining"
  /\ UNCHANGED stores

(* drain, second half: as many rows as were submitted leave the front.     *)
RemoveSubmitted ==
  /\ drainPc = "accepted"
  /\ items' = After(items, Len(batch))
  /\ keys' = DropKeys(keys, Prefix(items, Len(batch)))
  /\ Save(items')
  /\ batch' = <<>>
  /\ trimmed' = 0
  /\ drainPc' = "draining"
  /\ UNCHANGED stores

(* The process ends, at any point, and another one loads the file: the     *)
(* rows that parse, with anything else in it noticed.                      *)
LoadRows ==
  /\ ~garbled
  /\ \E read \in Parsed(rows) :
       /\ items' = Newest(read)
       /\ fileRows' = Len(read)
       /\ fileDirty' = (torn \/ Len(read) < Len(rows))
  /\ drainPc' = "idle"

(* A file that cannot be read (OSError) starts an empty queue that will    *)
(* overwrite it.                                                           *)
StartEmpty ==
  /\ fileThere
  /\ items' = <<>>
  /\ fileRows' = 0
  /\ fileDirty' = TRUE
  /\ drainPc' = "idle"

(* A file that can be read and not decoded ends the start: read_text       *)
(* raises UnicodeDecodeError, which is no OSError and goes through         *)
(* Scrobbler and Daemon, so that Refrain does not come up (every variable  *)
(* of the process has the value of one that holds nothing).                *)
FailToStart ==
  /\ garbled
  /\ items' = <<>>
  /\ fileRows' = 0
  /\ fileDirty' = TRUE
  /\ drainPc' = "down"

Restart ==
  /\ LoadRows \/ StartEmpty \/ FailToStart
  /\ keys' = KeysOf(items')
  /\ batch' = <<>>
  /\ trimmed' = 0
  /\ UNCHANGED <<disk, stores>>

(* Someone else deletes the file while the process runs.                   *)
FileVanishes ==
  /\ fileThere
  /\ fileThere' = FALSE
  /\ rows' = <<>>
  /\ torn' = FALSE
  /\ garbled' = FALSE
  /\ UNCHANGED <<memory, belief, drainer, stores>>

Next ==
  \/ \E it \in Item : Enqueue(it)
  \/ \E a \in Accounts : DropOtherAccounts(a)
  \/ TakeBatch
  \/ DrainDone
  \/ SubmitReturns
  \/ SubmitRaises
  \/ RemoveSubmitted
  \/ Restart
  \/ FileVanishes

Spec == Init /\ [][Next]_vars

(***************************************************************************)
(* A drain runs again and again (the scrobbler starts one every minute     *)
(* while the queue is not empty), its own steps are never held up, Last.fm *)
(* answers a submission that is tried for ever, and some process stays up. *)
(***************************************************************************)
Fairness ==
  /\ WF_vars(\E a \in Accounts : DropOtherAccounts(a))
  /\ WF_vars(TakeBatch)
  /\ WF_vars(DrainDone)
  /\ SF_vars(SubmitReturns)
  /\ WF_vars(RemoveSubmitted)
  /\ <>[][~Restart]_vars

FairSpec == Spec /\ Fairness

----------------------------------------------------------------------------
(* Properties.                                                             *)

(* Every variable has its type, and the queue never exceeds its cap.       *)
TypeOK ==
  /\ items \in Seq(Item) /\ Len(items) <= MaxEntries
  /\ keys \in [Plays -> Nat]
  /\ fileThere \in BOOLEAN
  /\ rows \in Seq(Item)
  /\ torn \in BOOLEAN
  /\ garbled \in BOOLEAN
  /\ fileRows \in Nat
  /\ fileDirty \in BOOLEAN
  /\ drainPc \in {"idle", "draining", "submitting", "accepted", "down"}
  /\ batch \in Seq(Item)
  /\ trimmed \in Nat
  /\ stores \in Nat

(* While the file is believed clean and is still there, the newest rows    *)
(* written to it are the queue in memory, row for row, and they are        *)
(* counted right: the claim of the class that the newest max_entries rows  *)
(* "are exactly the ones in memory", through appends past the cap, trims,  *)
(* drains and failed writes.  A restart reads all of them back but those   *)
(* of Broken plays, which it takes for corrupt lines.                      *)
FileHoldsQueue ==
  fileThere /\ ~fileDirty => /\ Newest(rows) = items
                             /\ fileRows = Len(rows)

(* A row is never appended to a file that ends in half a row, or in half a *)
(* character: whatever leaves one there also makes the queue rewrite the   *)
(* file first.                                                             *)
NeverBuildOnTornRow == torn \/ garbled => fileDirty

(* The file is compacted before it runs more than the slack past the cap,  *)
(* however appends, failures and restarts follow each other.               *)
FileBounded == Len(rows) <= MaxEntries + Slack

(* The count of rows per dedup key agrees with the queue after every trim, *)
(* drain, filter and reload, a play that a legacy file holds twice         *)
(* included; else a play could be refused for ever or be queued twice.     *)
KeysCountItems == keys = KeysOf(items)

(* While a batch is with Last.fm the queue still starts with it, short of  *)
(* the rows the cap pushed out meanwhile.                                  *)
BatchLeadsQueue ==
  drainPc \in {"submitting", "accepted"} =>
    \A i \in 1 .. Len(batch) :
      i > trimmed => /\ i - trimmed <= Len(items)
                     /\ items[i - trimmed] = batch[i]

(* A drain that removes a batch removes no other row as long as the cap    *)
(* pushed nothing out while the batch was submitted.                       *)
DrainExact ==
  drainPc = "accepted" /\ trimmed = 0 =>
    Prefix(items, Len(batch)) = batch

(* However many rows the cap pushed out meanwhile, a drain loses at most   *)
(* that many rows that were not submitted.                                 *)
LossesBoundedByTrims ==
  drainPc = "accepted" =>
    Cardinality({i \in DOMAIN Prefix(items, Len(batch)) :
                   \A j \in DOMAIN batch : items[i] # batch[j]}) <= trimmed

(* "Drop exactly the rows we just submitted": no row leaves the queue in   *)
(* the second half of a drain that was not in its batch.                   *)
OnlySubmittedRemoved ==
  [][RemoveSubmitted =>
       \A i \in DOMAIN Prefix(items, Len(batch)) :
         \E j \in DOMAIN batch : items[i] = batch[j]]_vars

(* The queue and its file keep what DurableQueue promises: what a restart  *)
(* has to load can only differ from the queue while the file is known to   *)
(* be dirty, or is gone, and a restart then loads what it can make out of  *)
(* it, or nothing.                                                         *)
Promise ==
  INSTANCE DurableQueue WITH queue <- items, saved <- rows,
                             stale <- fileDirty \/ ~fileThere, Cap <- MaxEntries

KeepsPromise == Promise!Spec

(* A play that is queued leaves the queue some day: a failing Last.fm or a *)
(* failing disk never wedges the drain (a process that stays up has it     *)
(* drained; one that does not come up again holds no queue).               *)
QueueDrains ==
  \A p \in Plays :
    (\E i \in 1 .. Len(items) : items[i].play = p)
      ~> (\A i \in 1 .. Len(items) : items[i].play # p)
============================================================================
