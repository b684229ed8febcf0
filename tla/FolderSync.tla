----------------------------- MODULE FolderSync -----------------------------
(***************************************************************************)
(* The folder of one device and its replica of the session: the watcher    *)
(* and the ingestion that turn saves on disk into session edits, and the   *)
(* materializer that writes the session to disk.  They share the disk with *)
(* every editor and program of the user, which nobody can stop, and they   *)
(* know what they last saw only from the materialization index and the     *)
(* baselines, which are durable at once, while the replica is durable only *)
(* up to its last exported batch.                                          *)
(*                                                                         *)
(* One path is modelled.  A text is a set of lines, the lines numbered in  *)
(* the order they are first written; a hash is the text it is the hash of, *)
(* and a file's size and time are the text that was on disk when they were *)
(* read.  Ingestion and materialization are tasks of one queue; a task is  *)
(* split where it awaits the disk, and the user, the watcher, the room and *)
(* the export timer act in between.                                        *)
(*                                                                         *)
(* Files at the path follow one another, each with an id larger than those *)
(* before.  The index has a row per file, so a deleted file's row may stand*)
(* beside the next one's.  Baselines are by file too, but once a file is   *)
(* followed by another its baseline is not read again, so one is kept.     *)
(*                                                                         *)
(* Left out: other kinds of files, modes, renames, two live files at one   *)
(* path, a peer's new file where one was deleted, the pause while Git has  *)
(* another branch checked out, the offline observation and the first join  *)
(* of a folder.                                                            *)
(***************************************************************************)
EXTENDS Integers, FiniteSets

CONSTANTS
    Absent,         \* no file on disk
    NoBaseline,     \* no baseline recorded
    MaxSaves,       \* bound: saves by the user
    MaxRemovals,    \* bound: removals by the user
    MaxPeerEdits,   \* bound: edits by other members
    MaxPeerRemovals,\* bound: files removed by other members
    MaxCrashes      \* bound: crashes of the daemon

ASSUME FolderBounds ==
    {MaxSaves, MaxRemovals, MaxPeerEdits, MaxPeerRemovals, MaxCrashes} \subseteq Nat

VARIABLES
    disk,           \* the text at the path, or Absent
    held,           \* what an editor that has just removed the file still holds
    hint,           \* the file system has an event the watcher has not handled
    phase,          \* stage of the daemon
    events,         \* changes reported to the host and not ingested yet; a scan's
                    \* deletion names the file of a row
    step,           \* where the task at the head of the queue is
    replica,        \* the session's file as the daemon's memory has it
    durable,        \* the same, of exported batches and the room's
    files,          \* file ids given out so far at the path
    lost,           \* ids that died with the daemon: no tree has an entry of them
    index,          \* the materialization index, rows of files: what was last seen on disk
    baseline,       \* the text that the next save on disk is compared with
    pending,        \* the file is in pendingMaterialize
    deleting,       \* pendingDeletes: files whose deletion waits for a new name
    copies,         \* lines kept in .conflict copies
    buried,         \* lines of deleted files, which keep their text
    written,        \* lines written so far (history)
    struck,         \* lines that the user or a peer removed (history)
    typed,          \* lines the user wrote and no ingestion has sent (history)
    echoed,         \* lines sent or removed as edits of the user's that are not (history)
    mishaps,        \* what went against the user and the daemon so far (history)
    saves, removals, peerEdits, peerRemovals, crashes

diskVars == <<disk, held, hint>>
daemonVars == <<phase, events, step, pending, deleting>>
sessionVars == <<replica, durable, buried, files, lost>>
indexVars == <<index, baseline>>
historyVars == <<written, struck, typed, echoed, mishaps>>
countVars == <<saves, removals, peerEdits, peerRemovals, crashes>>
folderVars == <<diskVars, daemonVars, sessionVars, indexVars, copies, historyVars, countVars>>

MaxLines == MaxSaves + MaxPeerEdits
Line == 1..MaxLines
Text == SUBSET Line

ASSUME AbsentIsNoText == \A t \in Text : t # Absent

\* id tells one file at the path from the next; ever holds the lines it has ever
\* had, and seen those that its deletion knew.
File == [id: Nat, state: {"none", "live", "deleted"}, text: Text, ever: Text, seen: Text]
NoFile == [id |-> 0, state |-> "none", text |-> {}, ever |-> {}, seen |-> {}]

Idle == [at |-> "idle", text |-> {}, writes |-> FALSE]

Reported(kind, id) == [kind |-> kind, id |-> id]
Change == Reported("change", 0)

FolderInit ==
    /\ \/ disk = Absent /\ replica = NoFile /\ index = {} /\ baseline = NoBaseline
       \/ /\ disk = {} /\ replica = [NoFile EXCEPT !.id = 1, !.state = "live"]
          /\ index = {[id |-> 1, text |-> {}, stat |-> {}]}
          /\ baseline = [id |-> 1, text |-> {}]
    /\ durable = replica /\ files = replica.id /\ lost = {}
    /\ held = {} /\ hint = FALSE
    /\ phase = "live" /\ events = {} /\ step = Idle
    /\ pending = FALSE /\ deleting = {}
    /\ copies = {} /\ buried = {}
    /\ written = 0 /\ struck = {} /\ typed = {} /\ echoed = {} /\ mishaps = {}
    /\ saves = 0 /\ removals = 0 /\ peerEdits = 0 /\ peerRemovals = 0 /\ crashes = 0

NewId == files + 1

(***************************************************************************)
(* The materialization index                                               *)
(***************************************************************************)
\* getByFileId: the row of the file that is there now.
Own == {r \in index : r.id = replica.id}
Known == Own # {}

\* getByPath finds the row of the oldest file; a scan goes by that of the newest.
Oldest == {r \in index : \A q \in index : r.id <= q.id}
Newest == {r \in index : \A q \in index : q.id <= r.id}

\* isEcho: the bytes on disk are nothing new.
Echo(bytes) == \E r \in Oldest : r.text = bytes

\* recordMaterialization replaces the file's row, and no other.
Upsert(row, rows) == {r \in rows : r.id # row.id} \cup {row}

\* Fault: the row is written beside those of deleted files at the path.
RecordBeside(row) == index' = Upsert(row, index)

\* recordDiskState first retires, from the oldest row on, those of files that the
\* tree holds deleted.
RecordDiskState(row) ==
    LET stays == {r \in index : \E q \in index : q.id <= r.id /\ q.id \in lost \cup {row.id}}
    IN  index' = Upsert(row, stays)

(***************************************************************************)
(* The user's programs                                                     *)
(***************************************************************************)
OnDisk == IF disk = Absent THEN {} ELSE disk

\* A change between the last look of a task and its write is not seen by it, and
\* a file that has the bytes of its own row again looks untouched.
Unseen ==
    (IF step.at \in {"rename", "unlink"} THEN {"saved during a write"} ELSE {})
      \cup (IF \E r \in Own : r.text = disk' THEN {"took a save back"} ELSE {})

Changes ==
    /\ hint' = (phase # "down")
    /\ mishaps' = mishaps \cup Unseen
    /\ UNCHANGED <<daemonVars, sessionVars, indexVars, copies, echoed,
                   peerEdits, peerRemovals, crashes>>

\* A save with a new line, to the file, to a new one, or of what the editor held.
Type(base) ==
    /\ saves < MaxSaves /\ saves' = saves + 1
    /\ base \in IF disk = Absent THEN {{}, held} ELSE {disk}
    /\ written' = written + 1
    /\ disk' = base \cup {written'} /\ held' = {}
    /\ typed' = typed \cup {written'} \cup (base \ OnDisk)
    /\ struck' = struck \cup (held \ base)
    /\ Changes /\ UNCHANGED removals

\* A save without one of the lines.
Strike(l) ==
    /\ saves < MaxSaves /\ saves' = saves + 1
    /\ l \in OnDisk
    /\ disk' = disk \ {l}
    /\ struck' = struck \cup {l}
    /\ Changes /\ UNCHANGED <<held, written, typed, removals>>

Remove ==
    /\ removals < MaxRemovals /\ removals' = removals + 1
    /\ disk # Absent /\ disk' = Absent /\ held' = disk
    /\ Changes /\ UNCHANGED <<written, struck, typed, saves>>

(***************************************************************************)
(* Other members, through the room.  What they do reaches the exported     *)
(* state and the memory of the daemon alike; one that is down hears of it  *)
(* before it reconciles.                                                   *)
(***************************************************************************)
\* scheduleMaterialize, on a remote change.
RemoteChange ==
    /\ pending' = TRUE
    /\ peerEdits' = peerEdits + 1
    /\ UNCHANGED <<diskVars, phase, events, step, deleting, lost, indexVars, copies, typed,
                   echoed, mishaps, saves, removals, peerRemovals, crashes>>

Put(file, l) == [file EXCEPT !.text = @ \cup {l}, !.ever = @ \cup {l}]
Cut(file, l) == [file EXCEPT !.text = @ \ {l}]

PeerCreates ==
    /\ peerEdits < MaxPeerEdits
    /\ durable.state = "none" /\ replica = durable
    /\ written' = written + 1
    /\ replica' = Put([NoFile EXCEPT !.id = NewId, !.state = "live"], written')
    /\ durable' = replica' /\ files' = NewId
    /\ RemoteChange /\ UNCHANGED <<buried, struck>>

PeerTypes ==
    /\ peerEdits < MaxPeerEdits
    /\ durable.state = "live"
    /\ written' = written + 1
    /\ durable' = Put(durable, written')
    /\ IF replica.id = durable.id
       THEN replica' = Put(replica, written') /\ UNCHANGED buried
       ELSE buried' = buried \cup {written'} /\ UNCHANGED replica
    /\ RemoteChange /\ UNCHANGED <<struck, files>>

PeerStrikes(l) ==
    /\ peerEdits < MaxPeerEdits
    /\ durable.state = "live" /\ l \in durable.text
    /\ durable' = Cut(durable, l)
    /\ replica' = IF replica.id = durable.id THEN Cut(replica, l) ELSE replica
    /\ struck' = struck \cup {l}
    /\ RemoteChange /\ UNCHANGED <<buried, written, files>>

Deleted(file, seen) == [file EXCEPT !.state = "deleted", !.seen = seen]

PeerRemoves ==
    /\ peerRemovals < MaxPeerRemovals /\ peerRemovals' = peerRemovals + 1
    /\ durable.state = "live"
    /\ durable' = Deleted(durable, durable.ever)
    /\ replica' = IF replica.id = durable.id /\ replica.state = "live"
                  THEN Deleted(replica, durable.ever) ELSE replica
    /\ pending' = TRUE
    /\ UNCHANGED <<diskVars, phase, events, step, deleting, buried, files, lost, indexVars,
                   copies, historyVars, saves, removals, peerEdits, crashes>>

(***************************************************************************)
(* The watcher.  It reports, the host decides: a change is not reported    *)
(* when the bytes on disk are those of the index.                          *)
(***************************************************************************)
Watch ==
    /\ phase = "live" /\ hint /\ hint' = FALSE
    /\ events' = events \cup
         (IF disk = Absent THEN {Reported("delete", 0)}
          ELSE IF Echo(disk) THEN {} ELSE {Change})
    /\ UNCHANGED <<disk, held, phase, step, pending, deleting, sessionVars, indexVars, copies,
                   historyVars, countVars>>

\* diffAgainstIndex: size and time first, and the hash only when they differ.
Difference ==
    IF disk = Absent THEN {Reported("missing", r.id) : r \in Newest}
    ELSE IF \E r \in Newest : disk \in {r.stat, r.text} THEN {} ELSE {Change}

Scan ==
    /\ phase = "scan" /\ phase' = "ingest"
    /\ events' = Difference
    /\ UNCHANGED <<diskVars, step, pending, deleting, sessionVars, indexVars, copies,
                   historyVars, countVars>>

Rescan ==
    /\ phase = "live" /\ Difference # {}
    /\ events' = events \cup Difference
    /\ UNCHANGED <<diskVars, phase, step, pending, deleting, sessionVars, indexVars, copies,
                   historyVars, countVars>>

(***************************************************************************)
(* Ingestion: a reported change is read from the disk and compared with    *)
(* the baseline, so that only what the user changed becomes an edit.       *)
(***************************************************************************)
Free == step = Idle /\ phase \in {"ingest", "live"}

\* The task at the head of the queue is over, or its next part begins.
Done ==
    /\ step' = Idle
    /\ phase' = IF phase = "project" THEN "live" ELSE phase

Goes(at, text) ==
    /\ step' = [step EXCEPT !.at = at, !.text = text]
    /\ UNCHANGED phase

\* Fault: the index row is written without the size and time of the file.
DiskUnmeasured(id, text) == [id |-> id, text |-> text]

Entry(id, text) == [NoFile EXCEPT !.id = id, !.state = "live", !.text = text, !.ever = text]
Disk(id, text) == [id |-> id, text |-> text, stat |-> text]

TakeChange ==
    /\ Free /\ Change \in events /\ events' = events \ {Change}
    /\ step' = IF disk = Absent THEN Idle ELSE [Idle EXCEPT !.at = "read", !.text = disk]
    /\ UNCHANGED <<diskVars, phase, pending, deleting, sessionVars, indexVars, copies,
                   historyVars, countVars>>

\* What an ingestion adds and takes away, and the part the user did not do.
Sends(added, removed) ==
    /\ echoed' = echoed \cup (added \ typed) \cup (removed \ struck)
    /\ typed' = typed \ step.text

HasBaseline == baseline # NoBaseline /\ baseline.id = replica.id

\* applyExternalDiskChange without a baseline: the whole text is replaced.
Replace ==
    /\ replica.state = "live" /\ ~HasBaseline
    /\ replica' = [replica EXCEPT !.text = step.text, !.ever = @ \cup step.text]
    /\ mishaps' = mishaps \cup {"met unseen"}
    /\ Sends(step.text \ replica.text, replica.text \ step.text)
    /\ UNCHANGED <<buried, files>>

\* Fault: the disk is compared with the session's text and not with the baseline.
MergesWithoutBase ==
    /\ replica.state = "live" /\ HasBaseline
    /\ replica' = [replica EXCEPT !.text = step.text, !.ever = @ \cup step.text]
    /\ Sends(step.text \ replica.text, replica.text \ step.text)
    /\ UNCHANGED <<buried, files, mishaps>>

\* applyExternalDiskChange: the difference between the baseline and the disk is
\* merged into the text as it is now.
Merges ==
    /\ replica.state = "live" /\ HasBaseline
    /\ LET added == step.text \ baseline.text
           removed == baseline.text \ step.text
       IN  /\ replica' = [replica EXCEPT !.text = (@ \ removed) \cup added,
                                         !.ever = @ \cup added]
           /\ Sends(added, removed)
    /\ UNCHANGED <<buried, files, mishaps>>

Create ==
    /\ replica.state # "live"
    /\ replica' = Entry(NewId, step.text) /\ files' = NewId
    /\ buried' = buried \cup replica.text
    /\ typed' = typed \ step.text
    /\ UNCHANGED <<echoed, mishaps>>

\* ingestChange, after the reads.  The bytes of the index are nothing new.
Ingest ==
    /\ step.at = "read"
    /\ step' = IF step.writes THEN [step EXCEPT !.at = "turn"] ELSE Idle
    /\ IF Echo(step.text)
       THEN UNCHANGED <<sessionVars, indexVars, pending, typed, echoed, mishaps>>
       ELSE /\ Replace \/ Merges \/ Create
            /\ RecordDiskState(Disk(replica'.id, step.text))
            /\ baseline' = [id |-> replica'.id, text |-> step.text]
            /\ pending' = (pending \/ replica'.text # step.text)
            /\ UNCHANGED <<durable, lost>>
    /\ UNCHANGED <<diskVars, phase, events, deleting, copies, written, struck, countVars>>

\* The row and the baseline of the file that is there now go.
Forgets == /\ index' = index \ Own
           /\ baseline' = IF HasBaseline THEN NoBaseline ELSE baseline

DeleteEntry ==
    /\ replica' = Deleted(replica, replica.ever)
    /\ Forgets

\* ingestDelete: a file that is still missing waits for a new name, and without
\* a row in the index for nothing.  Where no file is live the row that a scan
\* named goes.
TakeDelete(e) ==
    /\ Free /\ e \in events /\ events' = events \ {e}
    /\ CASE disk # Absent -> UNCHANGED <<replica, indexVars, deleting>>
         [] disk = Absent /\ replica.state # "live" ->
                /\ index' = {r \in index : e.kind # "missing" \/ r.id # e.id}
                /\ UNCHANGED <<replica, baseline, deleting>>
         [] disk = Absent /\ replica.state = "live" /\ Known ->
                deleting' = deleting \cup {replica.id} /\ UNCHANGED <<replica, indexVars>>
         [] OTHER -> DeleteEntry /\ UNCHANGED deleting
    /\ UNCHANGED <<diskVars, phase, step, pending, durable, buried, files, lost, copies,
                   historyVars, countVars>>
TakeDeletes(kind) == \E e \in events : e.kind = kind /\ TakeDelete(e)

\* commitPendingDelete, when the rename window is over or a reconcile ends it.
CommitDelete ==
    /\ Free /\ (phase = "ingest" => events = {})
    /\ \E id \in deleting :
         /\ deleting' = deleting \ {id}
         /\ IF replica.state = "live" /\ replica.id = id /\ disk = Absent THEN DeleteEntry
            ELSE UNCHANGED <<replica, indexVars>>
    /\ UNCHANGED <<diskVars, phase, events, step, pending, durable, buried, files, lost, copies,
                   historyVars, countVars>>

(***************************************************************************)
(* Materialization                                                         *)
(***************************************************************************)
\* materializePending takes a save that no event has reported yet in first.
MaterializePending ==
    /\ Free /\ phase = "live" /\ pending /\ pending' = FALSE
    /\ step' = IF /\ replica.state = "live" /\ disk # Absent
                  /\ \E r \in Own : disk # r.stat
               THEN [at |-> "read", text |-> disk, writes |-> TRUE]
               ELSE [Idle EXCEPT !.at = "turn"]
    /\ UNCHANGED <<diskVars, phase, events, deleting, sessionVars, indexVars, copies,
                   historyVars, countVars>>

\* The last part of reconcile: the session's files are written to the folder.
Project ==
    /\ Free /\ phase = "ingest" /\ events = {} /\ deleting = {}
    /\ phase' = "project" /\ pending' = FALSE
    /\ step' = [Idle EXCEPT !.at = "turn"]
    /\ UNCHANGED <<diskVars, events, deleting, sessionVars, indexVars, copies,
                   historyVars, countVars>>

NeedsMaterialization ==
    CASE replica.state = "live" -> \A r \in Own : r.text # replica.text
      [] replica.state = "deleted" -> Known
      [] OTHER -> FALSE

\* A deletion that had not seen some of the text waits for a member to decide.
InConflict == replica.state = "deleted" /\ ~(replica.ever \subseteq replica.seen)

NothingToWrite ==
    /\ step.at = "turn" /\ (~NeedsMaterialization \/ InConflict)
    /\ Done
    /\ UNCHANGED <<diskVars, events, pending, deleting, sessionVars, indexVars, copies,
                   historyVars, countVars>>

\* handleDeletion up to its unlink: bytes that nobody ingested stay.
TurnToDelete ==
    /\ step.at = "turn" /\ NeedsMaterialization /\ ~InConflict /\ replica.state = "deleted"
    /\ CASE disk = Absent -> Forgets /\ Done
         [] disk # Absent /\ (\E r \in Own : disk # r.text) -> UNCHANGED indexVars /\ Done
         [] OTHER -> UNCHANGED indexVars /\ Goes("unlink", {})
    /\ UNCHANGED <<diskVars, events, pending, deleting, sessionVars, copies, historyVars, countVars>>

\* A file that is gone by now makes the unlink, and with it the task, fail.
Unlink ==
    /\ step.at = "unlink"
    /\ IF disk = Absent THEN Done /\ UNCHANGED <<disk, hint>>
       ELSE Goes("forget", {}) /\ disk' = Absent /\ hint' = TRUE
    /\ UNCHANGED <<held, events, pending, deleting, sessionVars, indexVars, copies,
                   historyVars, countVars>>

Forget ==
    /\ step.at = "forget" /\ Done /\ Forgets
    /\ UNCHANGED <<diskVars, events, pending, deleting, sessionVars, copies, historyVars, countVars>>

\* handleTextMaterialization reads the text before its first await.
TurnToWrite ==
    /\ step.at = "turn" /\ NeedsMaterialization /\ replica.state = "live"
    /\ Goes("check", replica.text)
    /\ UNCHANGED <<diskVars, events, pending, deleting, sessionVars, indexVars, copies,
                   historyVars, countVars>>

\* Fault: the file on disk is replaced without a look at it.
CheckNothing ==
    /\ step.at = "check" /\ Goes("rename", step.text)
    /\ UNCHANGED <<diskVars, events, pending, deleting, sessionVars, indexVars, copies,
                   historyVars, countVars>>

\* Divergent disk protection.
CheckDisk ==
    /\ step.at = "check" /\ Goes("rename", step.text)
    /\ copies' = copies \cup
         (IF HasBaseline /\ disk \notin {Absent, baseline.text, step.text} THEN disk ELSE {})
    /\ mishaps' = mishaps \cup
         (IF ~HasBaseline /\ disk \notin {Absent, step.text} THEN {"met unseen"} ELSE {})
    /\ UNCHANGED <<diskVars, events, pending, deleting, sessionVars, indexVars,
                   written, struck, typed, echoed, countVars>>

Rename ==
    /\ step.at = "rename" /\ Goes("record", step.text)
    /\ disk' = step.text /\ hint' = TRUE
    /\ struck' = struck \cup held /\ held' = {}
    /\ UNCHANGED <<events, pending, deleting, sessionVars, indexVars, copies,
                   written, typed, echoed, mishaps, countVars>>

\* The index gets the hash of what was written and the size and time of what is
\* there by now; without a file the stat fails and nothing is recorded.
Record ==
    /\ step.at = "record" /\ Done
    /\ IF disk = Absent
       THEN mishaps' = mishaps \cup {"not recorded"} /\ UNCHANGED indexVars
       ELSE /\ index' = Upsert([id |-> replica.id, text |-> step.text, stat |-> disk], index)
            /\ baseline' = [id |-> replica.id, text |-> step.text]
            /\ UNCHANGED mishaps
    /\ UNCHANGED <<diskVars, events, pending, deleting, sessionVars, copies,
                   written, struck, typed, echoed, countVars>>

(***************************************************************************)
(* The export timer, crashes and restarts                                  *)
(***************************************************************************)
\* flushSubmit: the batch is in the outbound queue before it is sent.
FlushSubmit ==
    /\ phase # "down" /\ replica # durable /\ durable' = replica
    /\ UNCHANGED <<diskVars, daemonVars, replica, buried, files, lost, indexVars, copies,
                   historyVars, countVars>>

\* What a crash leaves half done: edits ingested and not exported, and a file
\* written and not recorded.
HalfDone ==
    (IF replica # durable THEN {"crashed before the export"} ELSE {})
      \cup (IF step.at = "record" THEN {"not recorded"} ELSE {})

Crash ==
    /\ crashes < MaxCrashes /\ crashes' = crashes + 1
    /\ phase # "down" /\ phase' = "down"
    /\ events' = {} /\ step' = Idle /\ pending' = FALSE /\ deleting' = {}
    /\ hint' = FALSE
    /\ replica' = durable /\ lost' = lost \cup (durable.id + 1)..files
    /\ mishaps' = mishaps \cup HalfDone
    /\ UNCHANGED <<disk, held, durable, buried, files, indexVars, copies, written, struck, typed, echoed,
                   saves, removals, peerEdits, peerRemovals>>

Start ==
    /\ phase = "down" /\ phase' = "scan"
    /\ UNCHANGED <<diskVars, events, step, pending, deleting, sessionVars, indexVars, copies,
                   historyVars, countVars>>

User ==
    \/ Remove
    \/ \E base \in {{}, OnDisk, held} : Type(base)
    \/ \E l \in OnDisk : Strike(l)
Peers == PeerCreates \/ PeerTypes \/ PeerRemoves \/ \E l \in durable.text : PeerStrikes(l)
Parts == Ingest \/ NothingToWrite \/ TurnToDelete \/ Unlink \/ Forget \/ TurnToWrite \/ CheckDisk \/ Rename \/ Record

FolderNext ==
    \/ User \/ Peers
    \/ Watch \/ Scan \/ Rescan \/ Parts
    \/ TakeChange \/ TakeDeletes("delete") \/ TakeDeletes("missing") \/ CommitDelete
    \/ MaterializePending \/ Project \/ FlushSubmit \/ Crash \/ Start

FolderSpec == FolderInit /\ [][FolderNext]_folderVars

\* Events arrive, timers fire, the daemon is started again, and each task of the
\* queue has its turn and ends.
FolderFairness ==
    /\ WF_folderVars(Watch) /\ WF_folderVars(Scan) /\ WF_folderVars(Start)
    /\ WF_folderVars(FlushSubmit) /\ WF_folderVars(Parts) /\ WF_folderVars(Project)
    /\ SF_folderVars(TakeChange) /\ SF_folderVars(CommitDelete) /\ SF_folderVars(MaterializePending)
    /\ SF_folderVars(TakeDeletes("delete")) /\ SF_folderVars(TakeDeletes("missing"))

FairFolderSpec == FolderSpec /\ FolderFairness

(***************************************************************************)
(* Properties                                                              *)
(***************************************************************************)
\* The ids given out, and 0 for no file.
Id == 0..files

\* The rows are of files that were given an id, and so is whatever names a file.
NamesFiles ==
    /\ files \in Nat /\ {replica.id, durable.id} \cup lost \cup deleting \subseteq Id
    /\ events \subseteq [kind: {"change", "delete", "missing"}, id: Id]
    /\ index \subseteq [id: Id, text: Text, stat: Text]
    /\ baseline \in [id: Id, text: Text] \cup {NoBaseline}

\* Types of the disk, of the daemon's state and of what a task has in hand.
FolderTypeOK ==
    /\ disk \in Text \cup {Absent} /\ held \in Text /\ hint \in BOOLEAN
    /\ phase \in {"down", "scan", "ingest", "project", "live"} /\ pending \in BOOLEAN
    /\ step \in [at: {"idle", "read", "turn", "check", "rename", "record", "unlink", "forget"},
                 text: Text, writes: BOOLEAN]
    /\ replica \in File /\ durable \in File
    /\ NamesFiles

\* Every line someone wrote and nobody removed is in the session, on the disk or
\* in a copy beside it.
LinesLast ==
    1..written \subseteq struck \cup OnDisk \cup held \cup replica.text \cup buried \cup copies

\* No line is lost by ingestion and materialization crossing each other, the user
\* and the peers.  Lost are lines saved between the last look of a write and its
\* rename, those of a file that met another member's unseen, and those of edits
\* that a crash found ingested and not exported.
LinesLastOtherwise ==
    mishaps \subseteq {"not recorded", "took a save back"} => LinesLast

\* What the daemon sends as edits of the user is what the user changed on disk,
\* and never a peer's text read back (handleFileEvent's "echoes never become
\* CRDT mutations").  A file written and not recorded is read back; so is one that
\* met another member's file with no baseline to compare it with.
OnlyTheUsersEdits ==
    mishaps \subseteq {"crashed before the export", "saved during a write", "took a save back"}
        => echoed = {}

\* Files that two members create at one path do not overwrite each other (C18 of
\* the master plan: "Project tree conflicts never silently overwrite").
NeverOverwritesUnseen == mishaps \subseteq {"met unseen"} => LinesLast

Agree == disk = IF replica.state = "live" THEN replica.text ELSE Absent

\* The index takes a save for what the materializer wrote.
Disguised == \E r \in Own : r.stat = disk /\ r.text # disk

\* The folder comes to show the session's file, whatever saves, edits, deletions
\* and crashes met.  It need not while a deletion waits for a decision, when the
\* index took a save for its own write, when ingested edits died with the daemon,
\* or when a save returned to the bytes the file's own row has; the rows of files
\* that were there before hide nothing.
FolderCatchesUp ==
    <>[](\/ Agree \/ InConflict \/ Disguised
         \/ mishaps \cap {"crashed before the export", "took a save back"} # {})
=============================================================================
