----------------------------- MODULE SessionSync -----------------------------
(***************************************************************************)
(* Devices and their room.  Each member's daemon (projectd) edits a        *)
(* replica, journals every exported batch in a durable outbox, and keeps a *)
(* local snapshot with the watermark up to which it has applied the        *)
(* session.  It reaches the room over a socket that can drop at any time;  *)
(* after a drop or a crash it bootstraps from the published snapshot,      *)
(* replays the log in pages, turns live and resends its outbox.            *)
(*                                                                         *)
(* Room to device is one ordered stream per socket.  Device to room is a   *)
(* set: the room awaits the control plane before it acts on a message, so  *)
(* messages complete in any order, and one read from a socket that has     *)
(* since closed still takes effect.                                        *)
(*                                                                         *)
(* Abstractions: a replica is the set of batches it holds (Yjs merges them *)
(* in any order and ignores repeats); connecting, hello and ready are one  *)
(* step, as the device only touches its own connection in them; of         *)
(* AutoGit's leader only its integrations are here, its own replica is     *)
(* not; encryption, decode failures and the lifecycle fence are left out.  *)
(***************************************************************************)
EXTENDS SessionRoomLog, Sequences

CONSTANTS
    Member,         \* the devices modelled
    Author,         \* batch -> the member that exports it
    ReplayPage,     \* rows in one sync_delta (256 in the room)
    MaxFaults,      \* bound: drops and crashes
    MaxTogether     \* bound: drops, crashes, barriers and leaders in one behaviour

ASSUME MembersAreClients == Member \subseteq Client
ASSUME AuthorsAreMembers == Author \in [Batch -> Member]
ASSUME SyncBounds == {MaxFaults, MaxTogether} \subseteq Nat
ASSUME ReplayPagePositive == ReplayPage \in Nat \ {0}

VARIABLES
    dev,        \* member -> the volatile state of its daemon
    outbox,     \* member -> exported batches it has no acknowledgement for (durable)
    disk,       \* member -> its local snapshot and watermark (durable)
    minted,     \* batches exported so far
    submits,    \* submit_batch messages the room has not completed
    syncReq,    \* member -> knownSeq of the sync_request in flight, or NoSeq
    toClient,   \* member -> messages on its socket, in order
    captured,   \* captures made at a barrier, uploaded for publication
    cloud,      \* the published snapshot
    faults      \* drops and crashes so far

netVars == <<submits, syncReq, toClient>>
deviceVars == <<dev, outbox, disk, minted>>
cloudVars == <<captured, cloud>>
syncVars == <<vars, deviceVars, netVars, cloudVars, faults>>
roomOnlyVars == <<vars, cloud>>

NoSnapshot == [seq |-> NoSeq, content |-> {}]

(***************************************************************************)
(* A daemon.  conn: "down" not running; "off" no socket; "boot" asked for  *)
(* the published snapshot; "loading" downloads it; "syncing" replays;      *)
(* "live".  capture: "no", or how far a capture that holds the host's work *)
(* queue has come.                                                         *)
(***************************************************************************)
Stopped == [conn |-> "down", watermark |-> 0, above |-> {}, replica |-> {},
            draft |-> NoBatch, held |-> {}, boot |-> NoSnapshot,
            required |-> 0, capture |-> "no"]

Connected(c) == dev[c].conn \notin {"down", "off"}
Restoring(c) == dev[c].conn \in {"boot", "loading"}

\* applyBatch and restoreSnapshot: batches merge into the replica in any order.
Merged(d, batches) == [d EXCEPT !.replica = @ \cup batches]

\* exportBatch: the export watermark moves past the draft.
Exported(d) == [d EXCEPT !.draft = NoBatch]

\* What save writes: the replica, under the watermark it has reached.
SavedSnapshot(d) == [seq |-> d.watermark, content |-> d.replica]

\* hasApplied and markApplied of the transport, for a set of sequences.
Applied(d, s) == s <= d.watermark \/ s \in d.above

\* Fault: the latest sequence seen is taken for the watermark.
MarkedAsLatest(d, seqs) ==
    LET all == seqs \cup {d.watermark}
    IN  [d EXCEPT !.watermark = CHOOSE s \in all : \A t \in all : t <= s]

Marked(d, seqs) ==
    LET all == d.above \cup {s \in seqs : s > d.watermark}
        top == CHOOSE w \in d.watermark..(d.watermark + Cardinality(all)) :
                  (d.watermark + 1)..w \subseteq all /\ w + 1 \notin all
    IN  [d EXCEPT !.watermark = top, !.above = {s \in all : s > top}]

\* receiveEncryptedBatch for a set of rows: what is marked already is skipped.
Received(d, rows) ==
    LET fresh == {r \in rows : ~Applied(d, r.seq)}
    IN  Marked(Merged(d, {r.batch : r \in fresh}), {r.seq : r \in fresh})

Row(s, b) == [seq |-> s, batch |-> b]
BatchMsg(s, b) == [type |-> "session_batch", rows |-> {Row(s, b)}]
AckMsg(s, b) == [type |-> "batch_ack", seq |-> s, batch |-> b]
Submit(c, b) == [client |-> c, batch |-> b, attached |-> TRUE]

SyncInit ==
    /\ Init
    /\ dev = [c \in Member |-> [Stopped EXCEPT !.conn = "off"]]
    /\ outbox = [c \in Member |-> {}]
    /\ disk = [c \in Member |-> [seq |-> 0, content |-> {}]]
    /\ minted = {}
    /\ submits = {}
    /\ syncReq = [c \in Member |-> NoSeq]
    /\ toClient = [c \in Member |-> << >>]
    /\ captured = {}
    /\ cloud = NoSnapshot
    /\ faults = 0

(***************************************************************************)
(* Editing and the journal                                                 *)
(***************************************************************************)
\* An edit of the folder reaches the replica through the host's work queue,
\* which a capture holds.
Edit(c, b) ==
    /\ dev[c].conn # "down" /\ dev[c].capture = "no"
    /\ dev[c].draft = NoBatch /\ Author[b] = c /\ b \notin minted
    /\ dev' = [dev EXCEPT ![c].draft = b, ![c].replica = @ \cup {b}]
    /\ UNCHANGED <<vars, outbox, disk, minted, netVars, cloudVars, faults>>

\* Fault: the export does not move the export watermark.
ExportKeepingDraft(c) ==
    LET b == dev[c].draft
    IN  /\ b # NoBatch
        /\ minted' = minted \cup {b}
        /\ outbox' = [outbox EXCEPT ![c] = @ \cup {b}]
        /\ submits' = submits \cup (IF dev[c].conn = "live" THEN {Submit(c, b)} ELSE {})
        /\ UNCHANGED <<vars, dev, disk, syncReq, toClient, cloudVars, faults>>

\* flushSubmit: the outbox takes the batch before it counts as exported.
Export(c) ==
    LET b == dev[c].draft
    IN  /\ b # NoBatch
        /\ minted' = minted \cup {b}
        /\ outbox' = [outbox EXCEPT ![c] = @ \cup {b}]
        /\ dev' = [dev EXCEPT ![c] = Exported(@)]
        /\ submits' = submits \cup (IF dev[c].conn = "live" THEN {Submit(c, b)} ELSE {})
        /\ UNCHANGED <<vars, disk, syncReq, toClient, cloudVars, faults>>

\* Fault: the local snapshot is saved whatever waits for export.
PersistAnyway(c) ==
    /\ dev[c].conn # "down"
    /\ disk' = [disk EXCEPT ![c] = SavedSnapshot(dev[c])]
    /\ UNCHANGED <<vars, dev, outbox, minted, netVars, cloudVars, faults>>

\* persistSnapshot: unexported edits never become the restored baseline.
PersistSnapshot(c) ==
    /\ dev[c].conn # "down" /\ dev[c].draft = NoBatch
    /\ disk' = [disk EXCEPT ![c] = SavedSnapshot(dev[c])]
    /\ UNCHANGED <<vars, dev, outbox, minted, netVars, cloudVars, faults>>

(***************************************************************************)
(* Drops, crashes and restarts                                             *)
(***************************************************************************)
\* The socket of c is gone.  Its unread messages are lost; each submission the
\* room has read, but not completed, may still complete with nobody to answer.
SocketGone(c, completed) ==
    /\ syncReq' = [syncReq EXCEPT ![c] = NoSeq]
    /\ toClient' = [toClient EXCEPT ![c] = << >>]
    /\ \E read \in SUBSET {m \in submits \ completed : m.client = c /\ m.attached} :
          submits' = {m \in submits \ completed : ~(m.client = c /\ m.attached)}
                       \cup {[m EXCEPT !.attached = FALSE] : m \in read}

\* handleClose.
Closed(d) == [d EXCEPT !.conn = "off", !.held = {}, !.boot = NoSnapshot, !.capture = "no"]

RoomForMore == faults + Cardinality(barriers) + generation < MaxTogether

Drop(c) ==
    /\ Connected(c) /\ faults < MaxFaults /\ RoomForMore
    /\ faults' = faults + 1
    /\ dev' = [dev EXCEPT ![c] = Closed(@)]
    /\ SocketGone(c, {})
    /\ UNCHANGED <<vars, outbox, disk, minted, cloudVars>>

Crash(c) ==
    /\ dev[c].conn # "down" /\ faults < MaxFaults /\ RoomForMore
    /\ faults' = faults + 1
    /\ dev' = [dev EXCEPT ![c] = Stopped]
    /\ SocketGone(c, {})
    /\ UNCHANGED <<vars, outbox, disk, minted, cloudVars>>

\* start: the local snapshot, then the batches of the outbox on top of it.
Restart(c) ==
    /\ dev[c].conn = "down"
    /\ dev' = [dev EXCEPT ![c] = [Stopped EXCEPT
                 !.conn = "off", !.watermark = disk[c].seq,
                 !.replica = disk[c].content \cup outbox[c]]]
    /\ UNCHANGED <<vars, outbox, disk, minted, netVars, cloudVars, faults>>

(***************************************************************************)
(* Connecting: snapshot bootstrap, paged replay, live                      *)
(***************************************************************************)
Connect(c) ==
    /\ dev[c].conn = "off"
    /\ dev' = [dev EXCEPT ![c].conn = "boot"]
    /\ UNCHANGED <<vars, outbox, disk, minted, netVars, cloudVars, faults>>

\* The room answers snapshot_get.
FetchSnapshot(c) ==
    /\ dev[c].conn = "boot"
    /\ dev' = [dev EXCEPT ![c].conn = "loading", ![c].boot = cloud]
    /\ UNCHANGED <<vars, outbox, disk, minted, netVars, cloudVars, faults>>

\* restoreCloudSnapshot: merges the snapshot and moves the watermark to it.
Restored(d) ==
    Marked([Merged(d, d.boot.content) EXCEPT !.watermark = d.boot.seq,
                     !.above = {s \in d.above : s > d.boot.seq}], {})

\* The download is done.  A snapshot ahead of the watermark is restored unless
\* edits wait for export; then the broadcasts held back are applied and the
\* rest is asked for.  Below the room's replay floor there is no way on.
LoadSnapshot(c) ==
    LET d      == dev[c]
        ahead  == d.boot.seq > d.watermark
        loaded == IF ahead THEN Restored(d) ELSE d
        synced == Received(loaded, d.held)
    IN  /\ d.conn = "loading"
        /\ IF (ahead /\ d.draft # NoBatch) \/ loaded.watermark < d.required
           THEN /\ dev' = [dev EXCEPT ![c] = Closed(IF ahead /\ d.draft # NoBatch
                                                    THEN d ELSE loaded)]
                /\ SocketGone(c, {})
           ELSE /\ dev' = [dev EXCEPT ![c] = [synced EXCEPT
                             !.conn = "syncing", !.held = {}, !.boot = NoSnapshot]]
                /\ syncReq' = [syncReq EXCEPT ![c] = synced.watermark]
                /\ UNCHANGED <<submits, toClient>>
        /\ UNCHANGED <<vars, outbox, disk, minted, cloudVars, faults>>

Send(c, m) == toClient' = [toClient EXCEPT ![c] = Append(@, m)]

\* handleSyncRequest: one page of rows, or the way round by a snapshot.
AnswerSync(c) ==
    LET from == syncReq[c]
        page == {s \in DOMAIN log : s > from /\
                   Cardinality({t \in DOMAIN log : t > from /\ t < s}) < ReplayPage}
        to   == IF page = {} THEN from
                ELSE CHOOSE s \in page : \A t \in page : t <= s
    IN  /\ from # NoSeq
        /\ syncReq' = [syncReq EXCEPT ![c] = NoSeq]
        /\ IF from < replayFloor
           THEN Send(c, [type |-> "snapshot_required", floor |-> replayFloor])
           ELSE Send(c, [type |-> "sync_delta", to |-> to, head |-> currentSeq,
                         rows |-> {Row(s, log[s]) : s \in page}])
        /\ UNCHANGED <<vars, deviceVars, submits, cloudVars, faults>>

(***************************************************************************)
(* The device handles the next message of its socket                       *)
(***************************************************************************)
Incoming(c, type) ==
    /\ toClient[c] # << >> /\ Head(toClient[c]).type = type
    /\ toClient' = [toClient EXCEPT ![c] = Tail(@)]

\* Fault: a device that is sent to the snapshot goes live instead.
LiveDespiteFloor(c) ==
    /\ Incoming(c, "snapshot_required")
    /\ dev' = [dev EXCEPT ![c].conn = "live"]
    /\ UNCHANGED <<vars, outbox, disk, minted, submits, syncReq, cloudVars, faults>>

HandleSnapshotRequired(c) ==
    /\ Incoming(c, "snapshot_required")
    /\ dev' = [dev EXCEPT ![c].required =
                            IF @ < Head(toClient[c]).floor THEN Head(toClient[c]).floor ELSE @,
                          ![c].conn = IF Restoring(c) THEN @ ELSE "boot"]
    /\ UNCHANGED <<vars, outbox, disk, minted, submits, syncReq, cloudVars, faults>>

\* Fault: what is sent leaves the outbox, without waiting for the acknowledgement.
ForgetSent(c) ==
    LET m == Head(toClient[c])
    IN  /\ Incoming(c, "sync_delta")
        /\ dev' = [dev EXCEPT ![c] = [Received(@, m.rows) EXCEPT !.conn = "live"]]
        /\ submits' = submits \cup {Submit(c, b) : b \in outbox[c]}
        /\ outbox' = [outbox EXCEPT ![c] = {}]
        /\ UNCHANGED <<vars, syncReq, disk, minted, cloudVars, faults>>

\* A page that is not the last asks for the next one; the last one turns the
\* device live, and it sends its outbox.
HandleSyncDelta(c) ==
    LET m == Head(toClient[c])
        d == Received(dev[c], m.rows)
    IN  /\ Incoming(c, "sync_delta")
        /\ IF m.rows # {} /\ m.to < m.head
           THEN /\ dev' = [dev EXCEPT ![c] = d]
                /\ syncReq' = [syncReq EXCEPT ![c] = m.to]
                /\ UNCHANGED submits
           ELSE /\ dev' = [dev EXCEPT ![c] = [d EXCEPT !.conn = "live"]]
                /\ submits' = submits \cup {Submit(c, b) : b \in outbox[c]}
                /\ UNCHANGED syncReq
        /\ UNCHANGED <<vars, outbox, disk, minted, cloudVars, faults>>

\* Broadcasts wait until the snapshot is in.
HeldBack(d, rows) == [d EXCEPT !.held = @ \cup rows]

HandleSessionBatch(c) ==
    LET rows == Head(toClient[c]).rows
    IN  /\ Incoming(c, "session_batch")
        /\ dev' = [dev EXCEPT ![c] = IF Restoring(c) THEN HeldBack(@, rows)
                                     ELSE Received(@, rows)]
        /\ UNCHANGED <<vars, outbox, disk, minted, submits, syncReq, cloudVars, faults>>

\* An acknowledged batch leaves the outbox: the room holds it from then on.
HandleBatchAck(c) ==
    LET m == Head(toClient[c])
    IN  /\ Incoming(c, "batch_ack")
        /\ dev' = [dev EXCEPT ![c] = Marked(@, {m.seq})]
        /\ outbox' = [outbox EXCEPT ![c] = @ \ {m.batch}]
        /\ UNCHANGED <<vars, disk, minted, submits, syncReq, cloudVars, faults>>

(***************************************************************************)
(* The room completes a submission (handleSubmitBatch)                     *)
(***************************************************************************)
\* Each connected member c gets the messages msgs[c], in order, after its others.
SendEach(msgs) ==
    toClient' = [c \in Member |-> IF Connected(c) THEN toClient[c] \o msgs[c] ELSE toClient[c]]

Completed(m) == submits' = submits \ {m}

\* An accepted batch is acknowledged on the socket it came from and broadcast to
\* every other one, which may be a newer socket of the same device.
AcceptSubmit(m) ==
    LET seq == currentSeq + 1
        msgs == [c \in Member |-> IF c = m.client /\ m.attached
                                  THEN <<AckMsg(seq, m.batch)>> ELSE <<BatchMsg(seq, m.batch)>>]
    IN  /\ AppendBatch(m.batch)
        /\ Completed(m)
        /\ SendEach(msgs)
        /\ UNCHANGED <<deviceVars, syncReq, cloudVars, faults>>

ParkSubmit(m) ==
    /\ BufferBatch(m.batch)
    /\ Completed(m)
    /\ UNCHANGED <<deviceVars, syncReq, toClient, cloudVars, faults>>

\* A batch with a receipt is acknowledged again; one that is parked already is not.
RepeatSubmit(m) ==
    /\ Completed(m)
    /\ \/ /\ receipts[m.batch] # 0
          /\ IF m.attached THEN Send(m.client, AckMsg(receipts[m.batch], m.batch))
             ELSE UNCHANGED toClient
       \/ receipts[m.batch] = 0 /\ buffer[m.batch] # 0 /\ UNCHANGED toClient
    /\ UNCHANGED <<vars, deviceVars, syncReq, cloudVars, faults>>

\* A full integration buffer refuses the batch and closes the socket.
RefuseSubmit(m) ==
    /\ receipts[m.batch] = 0 /\ Integrating
    /\ buffer[m.batch] = 0 /\ integration.count >= BufferLimit
    /\ IF m.attached
       THEN /\ dev' = [dev EXCEPT ![m.client] = Closed(@)]
            /\ SocketGone(m.client, {m})
       ELSE Completed(m) /\ UNCHANGED <<dev, syncReq, toClient>>
    /\ UNCHANGED <<vars, outbox, disk, minted, cloudVars, faults>>

(***************************************************************************)
(* Integrations of a leader outside the model                              *)
(***************************************************************************)
Leader == Client \ Member

LeaderStep ==
    /\ \/ RoomForMore /\ \E k \in Leader : GrantLease(k)
       \/ \E k \in Leader : BeginIntegration(k)
       \/ LoseLease
       \/ IntegrationLapses
    /\ UNCHANGED <<deviceVars, netVars, cloudVars, faults>>

\* The new rows, and what c is sent about them: each row in order, and directly
\* after a row of its own the acknowledgement.
NewRow(n) == log'[currentSeq + n]
OwnRows(c, n) == {i \in 1..n : NewRow(i) \in Batch /\ Author[NewRow(i)] = c}
LastAbout(c, n) == n + Cardinality(OwnRows(c, n))

NewsOfRows(c, count) ==
    [p \in 1..LastAbout(c, count) |->
        LET n == CHOOSE n \in 1..count : LastAbout(c, n - 1) < p /\ p <= LastAbout(c, n)
        IN  IF p = LastAbout(c, n - 1) + 1 THEN BatchMsg(currentSeq + n, NewRow(n))
            ELSE AckMsg(currentSeq + n, NewRow(n))]

EndOfIntegration ==
    /\ \/ \E k \in Leader, sys \in SystemBatch \cup {NoBatch} : FinishIntegration(k, sys)
       \/ ExpireIntegration
    /\ SendEach([c \in Member |-> NewsOfRows(c, currentSeq' - currentSeq)])
    /\ UNCHANGED <<deviceVars, submits, syncReq, cloudVars, faults>>

(***************************************************************************)
(* Durable snapshots (publishDurableSnapshot)                              *)
(***************************************************************************)
\* Fault: the capture does not wait for the acknowledgements.
AskWithoutAcks(c) ==
    /\ dev[c].conn = "live" /\ dev[c].capture = "no"
    /\ dev[c].draft = NoBatch
    /\ dev' = [dev EXCEPT ![c].capture = "asked"]
    /\ UNCHANGED <<vars, outbox, disk, minted, netVars, cloudVars, faults>>

\* With everything exported and acknowledged the device asks for a barrier; the
\* capture holds the work queue until the answer comes.
AskBarrier(c) ==
    /\ dev[c].conn = "live" /\ dev[c].capture = "no"
    /\ dev[c].draft = NoBatch /\ outbox[c] = {}
    /\ dev' = [dev EXCEPT ![c].capture = "asked"]
    /\ UNCHANGED <<vars, outbox, disk, minted, netVars, cloudVars, faults>>

GrantBarrier(c) ==
    /\ dev[c].capture = "asked" /\ Connected(c)
    /\ SnapshotBarrier(c) /\ RoomForMore
    /\ Send(c, [type |-> "barrier_ack", seq |-> currentSeq])
    /\ dev' = [dev EXCEPT ![c].capture = "granted"]
    /\ UNCHANGED <<outbox, disk, minted, submits, syncReq, cloudVars, faults>>

\* The capture is made as the barrier arrives, if the replica is exactly there,
\* and then uploaded under the barrier's sequence.
HandleBarrierAck(c) ==
    LET seq == Head(toClient[c]).seq
        bar == [client |-> c, generation |-> 0, seq |-> seq]
    IN  /\ Incoming(c, "barrier_ack")
        /\ captured' = captured \cup
             (IF dev[c].watermark = seq /\ dev[c].draft = NoBatch
              THEN {[bar |-> bar, content |-> dev[c].replica]} ELSE {})
        /\ dev' = [dev EXCEPT ![c].capture = "no"]
        /\ UNCHANGED <<vars, outbox, disk, minted, submits, syncReq, cloud, faults>>

VerifyCapture(cap) ==
    /\ VerifySnapshot(cap.bar.client, cap.bar)
    /\ UNCHANGED <<deviceVars, netVars, cloudVars, faults>>

\* The room completes the publication, or drops it.
PublishCapture(cap) ==
    /\ CommitSnapshot(cap.bar.client, cap.bar)
    /\ captured' = captured \ {cap}
    /\ cloud' = IF ~Frozen /\ snapshot <= cap.bar.seq
                THEN [seq |-> cap.bar.seq, content |-> cap.content] ELSE cloud
    /\ UNCHANGED <<deviceVars, netVars, faults>>

CompactStep ==
    /\ CompactReplay
    /\ UNCHANGED <<deviceVars, netVars, cloudVars, faults>>

\* Exactly one of these is enabled from a drop until the replay is answered.
Bootstraps(c) == Connect(c) \/ FetchSnapshot(c) \/ LoadSnapshot(c) \/ AnswerSync(c)

\* Time passes, then the alarm ends the integration if its owner did not.
AlarmEndsIntegration ==
    IF Integrating /\ ~integration.expired
    THEN IntegrationLapses /\ UNCHANGED <<deviceVars, netVars, cloudVars, faults>>
    ELSE EndOfIntegration

RoomCompletes(m) ==
    AcceptSubmit(m) \/ ParkSubmit(m) \/ RepeatSubmit(m) \/ RefuseSubmit(m)

Handle(c) ==
    \/ HandleSnapshotRequired(c) \/ HandleSyncDelta(c) \/ HandleSessionBatch(c)
    \/ HandleBatchAck(c) \/ HandleBarrierAck(c)

SyncNext ==
    \/ \E c \in Member, b \in Batch : Edit(c, b)
    \/ \E c \in Member :
         \/ Export(c) \/ PersistSnapshot(c) \/ Drop(c) \/ Crash(c) \/ Restart(c)
         \/ Bootstraps(c) \/ Handle(c)
         \/ AskBarrier(c) \/ GrantBarrier(c)
    \/ \E m \in submits : RoomCompletes(m)
    \/ \E cap \in captured : VerifyCapture(cap) \/ PublishCapture(cap)
    \/ LeaderStep \/ EndOfIntegration \/ CompactStep

SyncSpec == SyncInit /\ [][SyncNext]_syncVars

\* The daemon's timers, its message loop, its reconnect backoff and the room
\* keep running.  Nothing is assumed of the user, of drops, of crashes, of
\* restarts or of snapshots.
SyncFairness ==
    /\ \A c \in Member :
         /\ WF_syncVars(Export(c))
         /\ WF_syncVars(Bootstraps(c))
         /\ WF_syncVars(Handle(c))
    /\ \A b \in Batch : WF_syncVars(Submit(Author[b], b) \in submits
                                      /\ RoomCompletes(Submit(Author[b], b)))
    /\ WF_syncVars(AlarmEndsIntegration)

FairSyncSpec == SyncSpec /\ SyncFairness

(***************************************************************************)
(* Properties                                                              *)
(***************************************************************************)
RowType == [seq: Nat, batch: AllBatch]
SnapshotType == [seq: Nat \cup {NoSeq}, content: SUBSET AllBatch]
DeviceType ==
    [conn: {"down", "off", "boot", "loading", "syncing", "live"},
     watermark: Nat, above: SUBSET Nat, replica: SUBSET AllBatch,
     draft: Batch \cup {NoBatch}, held: SUBSET RowType,
     boot: SnapshotType, required: Nat, capture: {"no", "asked", "granted"}]
Message ==
    [type: {"session_batch"}, rows: SUBSET RowType]
      \cup [type: {"sync_delta"}, to: Nat, head: Nat, rows: SUBSET RowType]
      \cup [type: {"batch_ack"}, seq: Nat, batch: AllBatch]
      \cup [type: {"snapshot_required"}, floor: Nat]
      \cup [type: {"barrier_ack"}, seq: Nat]

\* Types of the daemons' state, of their journals, of what travels and of the
\* room's; no device is ahead of the room.
SyncTypeOK ==
    /\ TypeOK
    /\ dev \in [Member -> DeviceType]
    /\ outbox \in [Member -> SUBSET Batch]
    /\ disk \in [Member -> [seq: Nat, content: SUBSET AllBatch]]
    /\ minted \subseteq Batch
    /\ submits \subseteq [client: Member, batch: Batch, attached: BOOLEAN]
    /\ syncReq \in [Member -> Nat \cup {NoSeq}]
    /\ toClient \in [Member -> Seq(Message)]
    /\ captured \subseteq [bar: Barrier, content: SUBSET AllBatch]
    /\ cloud \in SnapshotType
    /\ \A c \in Member :
         /\ dev[c].watermark <= currentSeq /\ dev[c].above \subseteq 1..currentSeq
         /\ dev[c].draft # NoBatch => Author[dev[c].draft] = c /\ dev[c].draft \notin minted
         /\ dev[c].required <= replayFloor
         /\ outbox[c] \subseteq {b \in minted : Author[b] = c}
         /\ disk[c].seq <= currentSeq

\* A replica holds every batch at or below its watermark, and every one it has
\* marked above it: no order of replayed pages, broadcasts, acknowledgements,
\* restores and crashes makes a device count a change it does not have.
WatermarkIsContent ==
    \A c \in Member, b \in Sequenced :
        /\ dev[c].conn # "down" /\ Applied(dev[c], receipts[b]) => b \in dev[c].replica
        /\ receipts[b] <= disk[c].seq => b \in disk[c].content

\* A capture made at a barrier, and so the published snapshot that replaces the
\* compacted log, holds exactly the batches up to the barrier.
SnapshotIsExact ==
    \A snap \in {[seq |-> cap.bar.seq, content |-> cap.content] : cap \in captured} \cup {cloud} :
        snap.content = {b \in Sequenced : receipts[b] <= snap.seq}

\* An exported edit is never lost: its author's journal has it, or the room has
\* sequenced it and can still hand it out, as a row or in the snapshot.
NoEditLost ==
    \A b \in minted :
        \/ b \in outbox[Author[b]]
        \/ /\ b \in Sequenced
           /\ receipts[b] \in DOMAIN log \/ b \in cloud.content

\* No edit is stranded on one device: what a replica or a local snapshot holds
\* is exported, or is a draft its device still exports.  A restart or a restored
\* snapshot never turns an unexported edit into part of the baseline.
NoEditStranded ==
    \A c \in Member :
        /\ disk[c].content \subseteq minted \cup SystemBatch
        /\ dev[c].replica \subseteq minted \cup SystemBatch \cup {dev[c].draft}

\* An exported edit reaches the log, whatever drops, refusals and integrations
\* it meets, unless its author's daemon stays down.
EditsReachTheLog ==
    \A b \in Batch :
        b \in minted ~> (b \in Sequenced \/ dev[Author[b]].conn = "down")

\* A sequenced batch reaches every replica whose daemon stays up, by broadcast,
\* by replay or by snapshot.
BatchesReachEveryone ==
    \A b \in AllBatch, c \in Member :
        b \in Sequenced ~> (b \in dev[c].replica \/ dev[c].conn = "down")
=============================================================================
