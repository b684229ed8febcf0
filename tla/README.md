# Verification of the collaboration core

These TLA+ modules model the part of the application in which several programs must
agree while everything fails around them: the live collaboration session. They are
translated from the code, not from its documents, checked with TLC and, for the most
important part, proved with TLAPS. Paths below are relative to the repository.

## 1. The system

The repository is a desktop workbench (Electron, React), a background daemon that keeps
project folders in step (`apps/projectd`), a Cloudflare worker with one Durable Object per
session (`cloudflare/worker`), a control plane on Convex (`convex`), and supporting
packages. The collaboration core is:

| Component | State | Operations | Interacts by |
|---|---|---|---|
| Session room, `CollaborationSessionRoom.ts` | durable: the log of encrypted batches, receipts, replay floor, published snapshot, active integration and its buffer, barriers, fence, commit record, lease, last checkpoint; per socket: an attachment | submit, sync, snapshot barrier, publish, compact, integration begin and finish, lifecycle prepare, cancel, commit and paused close, lease election, renew and release, alarm | web sockets to the daemons; HTTP to the control plane and the object store |
| Room client and transport, `SessionRoomClient.ts`, `SessionTransport.ts` | connection state, unacknowledged batches, watermark and sequences applied above it, broadcasts held back | connect, bootstrap, replay, go live, submit, requests | callbacks into the host |
| Host, `CollaborationSessionHost.ts` | replica, timers, work queue, status | start, stop, ingest, export, persist, capture, reconnect, materialise | journal and snapshot in SQLite, folder, room client, AutoGit agent |
| Journal and local snapshot, `OutboundBatchQueue.ts`, `LocalReplicaStore.ts` | exported batches without acknowledgement; one snapshot with its watermark | enqueue, acknowledge, prune; save, load | called by the host |
| Control plane, `convex/collaborationSessions.ts` | lifecycle, revision, key version, members, last lifecycle receipt | validate, finalize, pause, resume, close, join, leave, revoke | called by the room and by the desktop |
| AutoGit agent, `AutoGitAgent.ts` | eligibility, leadership, lease, checkpoint in progress | elect, renew, step aside, checkpoint, rebase, merge | room client, Git |
| Folder synchronisation, `filesystem/*` | index of what was written, watcher state | scan, watch, stable read, materialise | host |

What is hard in it:

- **The room's awaits.** A Durable Object runs one event at a time only until it awaits
  the network. Every message awaits the control plane, and a publication the object store
  too, so messages of one socket overlap and what was read before an await is stale after it.
- **Lost and repeated messages.** Sockets drop with messages unread in both directions;
  an acknowledgement can be lost although the batch is in the log.
- **Crashes.** A daemon dies between export, send, acknowledgement and snapshot.
- **Two stores without a transaction.** A pause is a fence in the room and a lifecycle in
  the control plane; the answer of the second may be lost, late or repeated.
- **Compaction under readers.** Rows below a published snapshot are deleted page by page
  while members replay.
- **A remote outside the protocol.** A push may land although its answer is lost, the lease
  may move between push and publication, and others push to the same branch.
- **A disk shared with every program of the user.** Between the read that decided a write
  and the write itself, an editor may save.
- **Integrations.** While a leader adopts a rebase, edits are parked and later sequenced
  behind the result, by the leader or, if it is gone, by an alarm.

What makes each component correct:

- room log: exactly-once sequencing; the tail above the floor is complete; nothing changes
  behind a fence; an integration's basis does not move; parked edits keep their order;
- devices: a watermark never claims what the replica lacks; no exported or drafted edit is
  lost or stranded; every batch reaches everyone; a published snapshot is exact;
- lifecycle: what the control plane may have committed stays fenced in the room; a fence
  takes effect at most once; a pending commit is resolved; a close keeps the frontier its pause committed;
- lease: older leaders are fenced off; a device that can push gets to lead;
- session branch: what the room shows as saved is on the branch and is what the session
  was; neither saves, merges nor rebases lose or repeat work;
- folder: no line is lost between disk and session; nothing but the user's own edits is
  sent as the user's; the folder comes to show the session.

Components that are not modelled are listed with the reason in `PROJECT.json`.

## 2. Modules

| Module | Models | Notes |
|---|---|---|
| `SessionHistory` | what the room promises: one history that grows at its end, a durable prefix, freezing | abstract specification |
| `SessionRoomLog` | the room's durable state; one action per handler or part of a handler between awaits | implements `SessionHistory` |
| `SessionSync` | daemons, journals, sockets and replays around the room; EXTENDS `SessionRoomLog` and reuses its actions | composition, implements both |
| `AtomicLifecycle` | what pausing, closing and resuming would be with one store and no messages | abstract specification |
| `SessionLifecycle` | fence, commit record and retries of the room with the lifecycle of the control plane | two stores, implements `AtomicLifecycle` |
| `AutoGitLease` | elections, eligibility, renewals, the write-back of socket attachments, sockets a device left behind | |
| `SavedSession` | what saving promises: a branch whose commits show the session as it was, and a record of the last one | abstract specification |
| `AutoGitBranch` | saves, recovery, merges of outside commits and rebases: devices, room record and remote branch | implements `SavedSession` |
| `FolderSync` | watcher, ingestion, materialization and the index over one path of the disk | |
| `MCSessionRoomLog`, `MCSessionSync`, `MCSessionLifecycle`, `MCAutoGitLease`, `MCAutoGitBranch`, `MCFolderSync` | symmetry, authors of batches, sockets and joint bounds for TLC | |
| `SessionRoomLogProofs` | theorems about `SessionRoomLog` | TLAPS |
| `SessionSyncProofs` | theorems about `SessionSync`; EXTENDS the room's | TLAPS |
| `SessionLifecycleProofs`, `AutoGitLeaseProofs` | theorems about `SessionLifecycle` and `AutoGitLease` | TLAPS |
| `SavedSessionProofs` | a theorem about `SavedSession`, taken over by every implementation | TLAPS |
| `AutoGitBranchProofs`, `AutoGitBranchWorkProofs` | theorems about `AutoGitBranch`: types, shapes and merges; what is saved | TLAPS |
| `FolderSyncProofs` | theorems about `FolderSync` | TLAPS |

An operator introduced by a comment "Fault:" is a plausible bug of the definition it sits
before. No specification uses it; put in that definition's place, it makes the property it is
paired with in `PROJECT.json` fail, which shows that the property says something.

### How state and actions correspond to the code

**SessionRoomLog.** `currentSeq`, `log` (`batch:` keys), `receipts` (`receipt:` and
`batch-id:` keys), `replayFloor`, `snapshot` (`replica:snapshot`), `compactionPending`,
`integration` and `buffer` (`integration:active`, `integration:pending:`), `fence`,
`barriers`, and as much of the lease as authorises a publication or an integration.
`acceptBatch` is `AppendBatch` or `BufferBatch`; a retry that finds a receipt changes
nothing and needs no action. `finishIntegration` is `EndIntegration`, called by
`FinishIntegration` (the owner) and `ExpireIntegration` (the alarm). `handleSnapshotPublish`
is `VerifySnapshot` up to its awaits and `CommitSnapshot` after them, which includes the
compaction page that follows; `CompactReplay` is the alarm's. A batch is its identity, the
buffer's character limit is folded into its entry limit, and a lease that ran out is no lease.

**SessionSync.** `dev` is the volatile state of a daemon, `outbox` and `disk` its two
durable stores. Room to device is one ordered stream per socket; device to room is a set,
because the room's checks let messages overtake each other. A drop keeps any subset of the
submissions the room has already read: they still take effect with nobody to answer.
`above` is `appliedAboveWatermark`, `held` the broadcasts kept back during a bootstrap.
A replica is the set of batches it holds, which is what Yjs documents amount to: updates
commute and repeat harmlessly. The leader's own replica is outside this model.

**SessionLifecycle.** `Validate` is the control plane's answer to the room's check of a
sender, each action of `Deliver` what the room does with that answer later. A finalization
once sent stays in `calls` and may be processed again at any time; `answered` holds the
answers on their way, which `HandleReceipt` applies and `LoseReply` loses.

**AutoGitLease.** `Arrive` is the part of `webSocketMessage` before its await and reads the
attachment; `Handle` is the rest, which first writes back what it read. `Overlap` bounds how
many messages of one socket are between the two; their checks end in any order. `Connect` is
`openConnection` with the outbox and the eligibility that `becomeLive` sends, and the fresh
attachment of `handleHello`; a socket the device used before stays open until the room
notices (`SocketCloses`), its messages still arrive and `pickCandidate` still counts it. The
history variable `late` holds the sockets of which a check ended out of turn: an older
attachment was written over a newer one, or an older eligibility was handled last. A socket
leaves it when an eligibility arrives and finds nothing else being checked. A daemon that
comes back has the client id it had, where the code draws a new one if it lost its state,
and the room never finds a socket gone before its daemon does.

**AutoGitBranch.** `log` is the session's content after each change, `checkpoint`,
`adoption`, `receipt`, `window` and `taken` are what the room keeps, `commits` and `remote`
the repository on the other side, and `sees` to `rebase` the fields of the agent. `job[d].step`
says where the agent is between two calls: `resolveParent` is the `Resolve...` actions,
`captureAtBarrier` with `saveSnapshot`'s choices `Capture`, the renewal before the push
`Fence`, then `Push`, `Publish` (`handleCheckpointPublish`) or `Mark`
(`handleCheckpointClean`). A rebase goes `Compute`, `Begin`, `Adopt`, `Integrate`,
`FinishIntegration`, `Adopted`, and is taken up again by `Apply`, which walks
`recoverIntegration` (`RecoverRow`), the receipt, a save that was pushed and not recorded
(`PublishPending`) and the branch check. Each call has three outcomes: done and heard
(`heard` TRUE), done and not heard, lost before it arrived (`CallLost`). A content is a set of
items and `Merge` decides item by item, as `git merge-file` does where it has no conflict.
The merged update of a rebase is recorded by its result (`taken`), the batch kept on the
leader's disk by `staged`.

**FolderSync.** `disk` belongs to the user; `index` is the materialization index (hash in
`text`, size and time in `stat`), `baseline` the text at the last agreement, `replica` the
file in memory and `durable` what has been exported. Files follow one another at the path,
with growing ids (`files` counts them, `lost` has those that a crash took with the tree). The
index has a row per file, and a deleted file's row may stand beside the next one's: a lookup
by path finds the oldest row (`Oldest`; `getByPath` takes one row of a key ordered by file, and
ids begin with a time), a scan the newest (`Newest`), the materializer that of its own file
(`Own`). `RecordDiskState` retires rows of deleted files, from the oldest on, before it
writes its own, as the loop of `recordDiskState` does; a row of a file that died with the
daemon stops it. One baseline is kept, for the file it names: a baseline of an earlier file is
never read again. `step` is where the task at the head of
the host's queue is: ingestion reads (`TakeChange`) and later applies (`Ingest`);
materialization takes its text (`TurnToWrite`), looks at the disk (`CheckDisk`), renames
(`Rename`) and records (`Record`), with the user free to save between any two. `Watch` and
`Scan` are the watcher's two sources. A text is a set of numbered lines, so that each line's
fate can be followed; `mishaps` names, per behaviour, the windows in which the code itself
has nothing to go by, and each property says which of them it excepts.

## 3. Runs

| Run | Asks | Instance | Distinct states |
|---|---|---|---|
| `room_log` | all safety and step properties of the room, and that it implements `SessionHistory` | 3 edits, 1 system batch, 2 devices, 2 barriers, 2 leases, buffer 2, page 2 | 836348 |
| `sync` | what devices hold, journal and publish is right | 2 devices with one edit each, an outside leader, 1 fault, 1 barrier, pages of 1, 2 drops, crashes, barriers and leaders in all | 1203440 |
| `sync_live` | every exported edit reaches the log, every batch reaches every device | as above, 3 drops, crashes, barriers and leaders in all, bounded by `Apart` | 55716 |
| `lifecycle` | room and control plane agree, as if they were one store (`AtomicLifecycle`); pending commits are resolved while the membership stands | 2 members, one of them manager, 2 fences, 1 forced change, 1 departure or batch | 313841 |
| `lifecycle_stuck` | commits are resolved beside a revocation: **violated** | 1 fence, 1 departure | |
| `lease` | agreement on eligibility, fencing of old leaders, somebody leads | 2 devices, one of which may leave a half-open socket behind, 1 change each, 2 messages of a socket checked at once | 461674 |
| `lease_overlap` | somebody leads, however the checks of one socket end: **violated** | 1 device, 1 socket | |
| `branch` | record, marks and branch agree; no work lost or merged twice; saving implements `SavedSession` | 2 devices, 1 edit, 1 outside commit, 1 rebase, 2 leases, 1 fault, bounded by `Apart` | 578635 |
| `branch_remerge` | what is taken out stays out, with a publication lost: **violated** | 1 device, 2 edits, 1 fault | |
| `branch_stuck` | saving again builds on a branch others moved during a rebase: **violated** | 1 device, 1 outside commit, 1 rebase | |
| `folder` | no line lost, no echo sent, the folder catches up | 2 saves, 1 removal, 2 edits and 1 removal by peers, 1 crash, bounded by `Apart` | 108805 |
| `folder_unseen` | files created at one path do not overwrite each other: **violated** | 1 save, 1 edit by a peer | |

Why the bounds suffice. Two devices are enough for every conflict, which is always between
one device and the rest. Three edits fill a buffer of two and leave one to arrive later;
with a compaction page of two rows, a snapshot of the third sequence needs two pages, so
the page rule is exercised at, below and above its limit. A buffer of one makes the refusal
of a full buffer happen, and replay pages of one row make a two-row replay span two pages
and meet a floor that rose in between. One fault is enough to lose each kind of message; the
second attempt it causes meets every interleaving of the first. Two fences allow a pause
that a close replaces, and one that is prepared anew after a resume. Two lease generations
let a leader return after another or be deposed in any step of a save. One edit can come
before, between and after the steps of a save and of a rebase; one fault cuts either in each
of its steps. Two saves and two peer edits make a write meet a file that changed since it was
read, twice. The constants of the code (64 entries, 128 and 256 rows) appear only in
comparisons with those counts.

`MaxTogether` bounds the faults, the barriers and the lease generations of one behaviour
taken together: drops, crashes, barriers and new leaders stop once their number is used up.
`MaxChecks` bounds the messages of all sockets being checked at once; arrivals beyond it wait. An `Apart` of an MC module bounds kinds of rare steps jointly, where the full
product is out of reach: in `sync_live`, a failing device beside published snapshots, or an
integration beside two edits; in `lifecycle`, a departure or an accepted batch; in `branch`,
any two of outside commits, rebases and faults; in `folder`, four edits, or three of which
one is the user's removal or a crash. No `Apart` holds back a step that fairness asks for.

`CHECK_DEADLOCK FALSE` everywhere: with the bounds used up the system may come to rest.
Symmetry is used where no definition tells the members apart and no liveness is checked:
members' batches in `room_log`, devices in `branch`.

### Fairness

- `SessionSync`: the submit timer (`scheduleSubmit`) exports, a disconnected client
  reconnects (`scheduleReconnect`), sockets deliver and the client handles what they
  deliver, the room completes each submission, and the alarm of an integration fires
  (Durable Object alarms are retried by the platform). Nothing is assumed of users, drops,
  crashes, restarts, publications or leaders. `BatchesReachEveryone` is about devices that
  stay up from some point on.
- `SessionLifecycle`: the alarm retries the commit it has; an answer that is repeatedly on
  its way gets through once (strong fairness, since each may be lost); somebody resumes a
  paused session; devices keep sending messages. `ResolvesWithFixedMembers` assumes that
  nobody leaves or is revoked; `lifecycle_stuck` shows why.
- `AutoGitLease`: messages are delivered and handled, dead sockets are noticed, timers of
  the agent (`scheduleEligibilityCheck`, the renewal interval) and of the room fire, and a
  lease nobody renews runs out. A leader that is there renews in time. Nothing is assumed of
  connecting, of changes of mind, or of the order in which checks end; `HeardDeviceLeads` asks
  nothing while a check of the device's socket has ended out of turn, `AbleDeviceLeads` drops
  that exception and fails.
- `AutoGitBranch` (only for `branch_stuck`): timers start saves and poll the remote, calls
  that are under way return, room messages arrive, the integration alarm rings. Members who
  want a save or the rebase applied keep asking for it (strong fairness): the counterexample
  needs no inattentive user.
- `FolderSync`: watcher events arrive, timers fire, a crashed daemon is started again, and a
  queued task gets its turn (strong fairness for the tasks that share the queue) and ends.
  Nothing is assumed of the user, of peers or of rescans.

## 4. What the checks found

1. **Eligibility lost** (`lease_overlap`). `ensureCurrentAuthorization` writes the whole
   attachment back after its await. A device that goes live sends its outbox and then its
   eligibility; if the batch's check ends last, the eligibility is overwritten and nobody
   leads once no lease runs, although the room's comment says the alarm elects a successor;
   it lasts until the device connects again or has another reason to say what it finds.
2. **Stuck commit** (`lifecycle_stuck`). A revocation rotates the session key between
   commit and finalization. The control plane then refuses every retry, the room refuses
   the cancel, and resume is a no-op on an ACTIVE session: it stays frozen until somebody
   forces a pause and resumes.
3. **Own save merged as outside work** (`branch_remerge`). Before a device knows a first
   checkpoint it never asks whether new commits on the branch are the session's own. A first
   save whose publication is lost is merged back into the session by the next one, and what
   a member removed since returns.
4. **A rebase overtaken by a push blocks saving** (`branch_stuck`). The agent gives the
   rebase up and says to save again, but the room keeps the adoption, which only that
   rebase's checkpoint would clear, and refuses every other barrier.
5. **Unseen files overwritten** (`folder_unseen`). Two members create a file at one path.
   Without a baseline ingestion replaces the peer's text with the disk's, and the
   materializer the disk's with the peer's without a copy, although the design rules both out.

Everything else that was stated holds. Three windows are known to the model and excepted by
name in the properties they would break: edits ingested and lost to a crash within the 40 ms
before their export; a save between a write's last look and its rename, or between the rename
and the `lstat` that records it; a save that returns to the bytes in the index row of its own
file. They are listed as hazards. Rows of files that were deleted are no exception: a
save that returns to their bytes is taken in, because `recordDiskState` has retired them, and
the mutant `RecordBeside`, which lets them stand, breaks `FolderCatchesUp`.

## 5. Proofs

For any sets of devices, members and batches, finite or not, and any limits, TLAPS checks:

| Module | Theorems | Of the run |
|---|---|---|
| `SessionRoomLogProofs` | `TypeCorrect`, `HistoryIsExactlyOnce`, `TailIsReplayable`, `FenceFreezesFrontier`, `IntegrationsAreIsolated`, `SystemBatchAfterBasis`, `ParkedBatchesKeepOrder`, `RoomRefinesHistory`, `CompactionNeverStopsEarly` | `room_log`, all properties |
| `SessionSyncProofs` | `DevicesRunTheRoom`, `DevicesKeepHistory`, `SyncTypeCorrect`, `WatermarksAreContent`, `SnapshotsAreExact`, `EditsAreKept`, `EditsAreNotStranded` | `sync`, all properties |
| `SessionLifecycleProofs` | `LifecycleTypes`, `FrontierIsFenced`, `PendingIsFenced`, `DoneWasApplied`, `AppliedOnce`, `CloseKeepsFrontier`, `TwoStoresActAsOne` | `lifecycle`, all but liveness |
| `AutoGitLeaseProofs` | `LeaseTypes`, `HolderAloneIsCurrent`, `OpinionsAgree` | `lease`, all but liveness |
| `AutoGitBranchProofs` | `BranchTypes`, `MergesOnce` | `branch`, two properties |
| `AutoGitBranchWorkProofs` | `MarksAreHonest`, `SavedStaysOnTheBranch`, `PushesKeepWork`, `RecordStaysOnTheBranch`, `BranchRefinesSavedSession`, `RecordedWorkIsKept` | `branch`, the remaining five |
| `SavedSessionProofs` | `SavedStays` | none: about `SavedSession` itself |
| `FolderSyncProofs` | `FolderTypes`, `SendsNoEchoes`, `LosesNoLine` | `folder`, all but liveness |

*Assumptions.* `BatchesApart` (a system batch is not a member's), `NullsApart` (the null
values differ from what they stand against), `LimitsPositive`, and the corresponding named
assumptions of the other modules (`ClientsOrdered`, `OverlapPositive`, `AbsentIsNoText` and so
on). TLC evaluates them in every run of a module that extends theirs. No theorem has a
hypothesis beyond them.

### The room

*The inductive invariant* is `RoomInv`, the conjunction of `TypeOK`, `ExactlyOnceHistory`,
`ReplayableTail`, `FrozenFrontier` and `IntegrationIsolated`. None is inductive alone:

- ending an integration keeps the history gap-free only because the buffer numbers its
  batches 1..count without a gap and holds none that is sequenced (`IntegrationIsolated`);
- the buffer stays unsequenced only because no batch is appended while it exists, and the
  fence stays at the head only because a fence excludes an integration (`FrozenFrontier`);
- publishing moves the floor to a barrier's sequence, which is in the log only because
  barriers are never ahead of it (`TypeOK`), and what it deletes is below the new floor
  because `ReplayableTail` held for the old one.

`NextKeepsInv` has one case per action. The hard one is `SequenceAll`: `SequencingPlaces`
says which batches move and where, `SequencingKeepsHistory` that the new places are exactly
the next first + count sequences, each used once; `EndKeepsInv` puts them together for both
ways an integration ends. The step properties and the refinement follow from `RoomInv` and
the same two lemmas, case by case.

*Compaction.* `compactReplay` decides from one page whether it is done. `FullPage` counts: a
row that is not among the first n has n rows before it. So a page that stops below the floor
cannot leave a row it owes (`PageRuleStopsLate`), and `CompactionComplete` is inductive
together with `RoomInv`.

### Devices around the room

`SyncNextIsNext` shows that every step of `SyncNext` is a step of the room or leaves it alone;
hence `DevicesRunTheRoom`, and everything proved of the room holds in the composition.

*The inductive invariant* `SyncInv` adds to `RoomInv`:

- for each device (`DeviceOK`, a predicate on its values, so that a step of one device is
  argued on that device alone): it is not ahead of the room (`Bounds`); each sequence it
  counts, it holds, in memory and on disk (`Marks`); what it holds is sequenced, journalled
  or its draft (`Journal`); what waits on its socket is true (`Wire`); at most one replay
  request or answer is under way (`Replay`); and while it captures, it has nothing to export
  and what reaches it before its barrier is at or below the barrier (`Capture`);
- a submission is of a batch its author minted and, while its socket is open, still holds
  (`Submitted`);
- a minted batch is in a journal or sequenced, and what is parked or sequenced was minted
  (`Minting`);
- captures are exact (`GoodCapture`), as is the published snapshot (`Published`).

`Marks` needs `Wire`: a device advances over a page because the page holds every row of its
span, which is `ReplayableTail` at the time the room made it. `Capture` is what makes a
snapshot exact although broadcasts race the barrier's answer: the stream is in order, so
whatever precedes the answer is below it, and a device that captures exports nothing.
`EditsAreKept` follows from `Minting`, `ReplayableTail` and `Published`: a sequenced batch
is in a row above the floor or in the snapshot at it.

### Lifecycle and lease

`LifecycleInv` orders fences, commits, finalizations and answers by the lifecycle revision.
The key parts are `PendingStands` (a finalization for the present revision is for the fence
and the commit that stand, so nothing the control plane can still apply has been given up by
the room), `AppliedIsPast` and `CallsAreOfFences` (each fence is finalized at one revision,
so a repeated call cannot apply twice) and `FrontierStands`, which together give
`CommittedFrontier`. `CloseKeepsFrontier` and `AppliedOnce` are step properties that follow.

*One store for two.* `TwoStoresActAsOne` maps the room and the control plane to
`AtomicLifecycle`: the session is settled (`Settled`) while the control plane stands at the
revision its last receipt brought it to. A finalization is then the whole pause or close: by
`PendingStands` the fence it is for still stands, and by `FenceFreezesHead` the head is still
at it, so the frontier that is recorded is the last edit in the session (`FinalizeIsSeen`).
An edit that is let in finds the session unsettled, for `FrontierStands` puts a fence, which
admits no edit, behind every settled state (`EditIsSeen`). A paused session closes only from
where its pause settled it, because the fence was prepared at the revision of the receipt
that opened it (`FenceOpenedBy`): a pause by force, which settles nothing, cannot be closed
through the fence. Everything else, a forced step, a resume, a member who goes, brings a new
revision that no receipt has (`NewRevisionUnsettles`) or leaves the session where it was.

`LeaseInv` is the type invariant with `OnlyTheHolderIsCurrent`; `ElectKeepsInv` carries the
cases of an election through every handler. The lowest eligible client exists because the
clients are numbers (`LowestIsMember`, by the well-foundedness of `<`).

`OpinionsAgree` needs more (`Opined`), of each connected device's socket: the last
eligibility in the stream, else the last one being checked, else the attachment is what the
device finds now (`Upheld`), unless the socket is in `late`. A check that ends in turn keeps
this: it writes back what the attachment still is, or is the newest eligibility of those
being checked. A socket leaves `late` only as an eligibility arrives at it, which is then
the last word again unless the stream holds a later one.

### Saving to the branch

A Git history is a sequence of commits, each after its parent; `Ancestors` is a recursive
function on it, and what is needed of it (an ancestor is no later, ancestry is transitive,
appending a commit changes no ancestors) is proved by least counterexample. `HistorySteps`
shows that every step appends at most one entry to the log and one commit, so that whatever
is said of an entry or a commit stays true. On this rest, one after the other:

- `TypeInv` bounds every commit, sequence number and generation by those that exist.
- `ShapeInv` ties a device's job to the rebase it carries, its journal and the batch it
  keeps on disk: which parent a save builds on, in which states of the journal a step of a
  rebase can happen.
- `MergeInv`: a merge that is in the log is known to its device, by the batch kept, by the
  end of the rebase or by what `RecoverRow` found. `MergesOnce` follows: a crash between the
  merge and the record of it leaves the batch on disk, and the next attempt finds it.
- `OrderInv`: no device knows a checkpoint ahead of the room's, and whoever holds the lease
  has looked at the branch at or after the checkpoint. The checkpoint moves only under the
  lease, so a leader that was deposed between its look and its push cannot move it back.
- `ContentInv`: a commit of a save holds the session as it was at its barrier; everything in
  the commit a save builds on has been in the session by then; what a device counts as saved
  the branch has kept, but for what members took out. So an item of the old branch that a
  push drops was in the session when the push was captured or had left it by a member's hand,
  which is `PushesKeepWork`; the mark is honest because the barrier, not the moment of
  publication, names the content.
- `LineageInv`, `ClaimInv` and `LineInv`: a rebase replaces a commit of the branch that is
  not a rebase itself; whoever carries one holds the room's adoption or has its receipt, and
  with a receipt the branch is past what was replaced. So a push over a save happens while
  the adoption stands, and `RecordStaysOnTheBranch` holds through it.

*What members are promised.* `BranchRefinesSavedSession` maps all of it to `SavedSession`, in
which a save has no steps, no leader and no failures. The session, the branch and the record
move one at a time (`OneMoves`). A push is a `Save`: what it puts there is a content the
session had (`PushedTree`), and it drops only what members took out. A publication or a mark
is a `Record`: what becomes visible is no older than what was (the guard `TooOld`, whose
absence the mutant `NeverTooOld` shows) and the mark is at or after the save (`MarkedAfter`).
The branch itself may go back to an older content than the saved one, when a leader is
deposed between its fence and its push; the abstract specification allows that and the
record does not follow. `SavedSessionProofs` proves `SavedStays` of the abstract
specification alone; `RecordedWorkIsKept` is that theorem carried back through the
refinement, without another look at the agent.

### The folder

`FolderInv` has three layers. Types and stages (`StageInv`) hold always: rows, baseline,
reports and waiting deletions name files that were given an id (`NamesFiles`), so a new
file has no row yet; a file the daemon deletes by itself is forgotten at once, so what the
materializer deletes a peer deleted; the editor has a text to write back only while there is
no file. The other two hold while no mishap happened but those the property allows for:

- `EchoState`, for `SendsNoEchoes`: the disk differs from the baseline only by what the user
  typed and struck, except between a write and its record, when it differs so from the text
  that was written; what ingestion has read differs so from the baseline. Only ingestion
  sends, and what it sends is the difference between these two.
- `RowsKept` and `LineState`, for `LosesNoLine`: what the file's own row and the baseline
  know is in the session or struck, so it may go from the disk; what the baseline knows is
  on the disk, with the editor or struck, so ingestion takes nothing from the session that
  the user did not; and what a rename or an unlink is about to replace is in the session, in
  the text being written, or in the copy that `CheckDisk` made.

Both follow the task through its stages: `Record` moves the baseline without having read the
disk, which `EchoState` justifies by what it says of the disk between the rename and the
record; and what `LineState` says of a write about to happen holds only until somebody saves
again, which is the mishap "saved during a write" that `LosesNoLine` excepts.

### What is only model-checked

- Liveness: `EditsReachTheLog`, `BatchesReachEveryone`, `ResolvesWithFixedMembers`,
  `HeardDeviceLeads`, `FolderCatchesUp`. The prover handles neither ENABLED nor fairness.
- That each property can fail: the five violated runs and the mutants of `PROJECT.json`.

Every invariant and step property of a passing run has a theorem.

No module declares a RECURSIVE operator.

## 6. Not modelled

The modules cover the collaboration core, a small part of a large repository by its lines:
the desktop application, its assistants, terminals and DevApps, generated schemas and user
interface are outside. Within the core:

- Encryption and key distribution, tickets, roles below manager, request timeouts and error
  codes; recovery exports; pairing of devices.
- AutoGit: conflict markers and the resolution of conflicts in the worktree, env files, a
  member's explicit sync from GitHub (the merge is that of a save), the adoption of a save by
  the local branch, reviewed merges and pull requests. Branches are changed from outside only
  by commits on top.
- Folders: binary files and their staging, symlinks, modes, renames, two live files at one
  path, a peer's new file where one was deleted, the pause while Git has another branch checked out, offline observation, the first
  join of a folder.
- The CRDTs themselves: convergence is the library's, a replica is the set of updates it has.
- A pause by force of a closed session is in `SessionLifecycle` as the code has it; no
  property judges it.

`PROJECT.json` names every part and why.

## 7. What could come next

1. `PendingBinaries`: staging, upload and revision export across crashes.
2. The reviewed merge (`SessionMerger`, `TargetWatcher`) on top of `AutoGitBranch`.
3. The hazards of `PROJECT.json` that no property covers yet, among them the batch of a
   device that was paired anew and the fence nobody cancels.
