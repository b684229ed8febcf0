--------------------------- MODULE SessionRoomLog ---------------------------
(***************************************************************************)
(* The durable state of one CollaborationSessionRoom: the sequenced log of *)
(* encrypted batches with its receipts, the replay floor and compaction,   *)
(* the integration barrier that parks edits while AutoGit adopts a rebase, *)
(* the snapshot barriers, and the lifecycle fence that freezes writes.     *)
(*                                                                         *)
(* The room is a Durable Object: its input gate lets no other event in     *)
(* while it awaits its storage, so a handler is one step unless it awaits  *)
(* the network.  Only the publication of a snapshot does (object store and *)
(* control plane), and it is two steps here.                               *)
(*                                                                         *)
(* Abstractions: a batch is its identity; the barrier a fence or snapshot  *)
(* quotes is its sequence; a lease that ran out and one that was vacated   *)
(* are both "no leader" (holdsLease refuses either; AutoGitLease has the   *)
(* clock); the character limit of the integration buffer is its entry      *)
(* limit; key generations are in SessionLifecycle.                         *)
(***************************************************************************)
EXTENDS Integers, FiniteSets

CONSTANTS
    Batch,          \* batches that members submit
    SystemBatch,    \* batches an integration owner hands to the room
    Client,         \* devices of the session
    NoClient,
    NoBatch,
    NoIntegration,
    BufferLimit,    \* entries an integration may park (64 in the room)
    CompactPage,    \* log rows one compaction pass looks at (128 in the room)
    MaxGeneration,  \* bound: lease generations granted
    MaxBarriers     \* bound: barriers created

ASSUME BatchesApart == Batch \cap SystemBatch = {}
ASSUME NullsApart ==
    /\ NoClient \notin Client
    /\ NoBatch \notin Batch \cup SystemBatch
    /\ NoIntegration \notin [owner: Client, generation: Nat, base: Nat,
                             count: Nat, expired: BOOLEAN]
ASSUME LimitsPositive ==
    /\ BufferLimit \in Nat \ {0}
    /\ CompactPage \in Nat \ {0}
ASSUME BoundsNatural ==
    /\ MaxGeneration \in Nat
    /\ MaxBarriers \in Nat

AllBatch == Batch \cup SystemBatch

VARIABLES
    currentSeq,         \* sequence of the last accepted batch
    log,                \* sequence -> batch, the rows kept for replay
    receipts,           \* batch -> its sequence, 0 before it is accepted
    replayFloor,        \* rows at or below it may be compacted away
    snapshot,           \* sequence of the published snapshot, NoSeq if none
    compactionPending,  \* rows at or below the floor may remain
    integration,        \* the active integration barrier, or NoIntegration
    buffer,             \* batch -> its 1-based order in the integration, 0 if not parked
    fence,              \* sequence the lifecycle fence froze, NoSeq if open
    barriers,           \* frontiers handed out for capture
    verifying,          \* publications awaiting the object store
    leader,             \* current holder of the AutoGit lease
    generation          \* lease generations granted so far

logVars == <<currentSeq, log, receipts>>
snapshotVars == <<replayFloor, snapshot, compactionPending>>
integrationVars == <<integration, buffer>>
barrierVars == <<barriers, verifying>>
leaseVars == <<leader, generation>>
vars == <<logVars, snapshotVars, integrationVars, fence, barrierVars, leaseVars>>

NoSeq == -1
Integration == [owner: Client, generation: Nat, base: Nat,
                count: Nat, expired: BOOLEAN]
Barrier == [client: Client \cup {NoClient}, generation: Nat, seq: Nat]

(***************************************************************************)
(* Helpers                                                                 *)
(***************************************************************************)
Frozen == fence # NoSeq
Integrating == integration # NoIntegration
Buffered == {b \in AllBatch : buffer[b] # 0}
Sequenced == {b \in AllBatch : receipts[b] # 0}
HoldsLease(c, g) == leader = c /\ generation = g

\* The log with one more row for each batch of the set new, at its place.
WithRows(new, place) ==
    [s \in DOMAIN log \cup {place[b] : b \in new} |->
        IF s \in DOMAIN log THEN log[s] ELSE CHOOSE b \in new : place[b] = s]

Init ==
    /\ currentSeq = 0
    /\ log = [s \in {} |-> NoBatch]
    /\ receipts = [b \in AllBatch |-> 0]
    /\ replayFloor = 0
    /\ snapshot = NoSeq
    /\ compactionPending = FALSE
    /\ integration = NoIntegration
    /\ buffer = [b \in AllBatch |-> 0]
    /\ fence = NoSeq
    /\ barriers = {}
    /\ verifying = {}
    /\ leader = NoClient
    /\ generation = 0

(***************************************************************************)
(* Batch admission (acceptBatch).  A batch with a receipt is acknowledged  *)
(* again and changes nothing; a frozen session or a full buffer refuses.   *)
(***************************************************************************)
\* Fault: admission that does not look for an active integration.
AppendPastIntegration(b) ==
    /\ receipts[b] = 0 /\ ~Frozen
    /\ currentSeq' = currentSeq + 1
    /\ receipts' = [receipts EXCEPT ![b] = currentSeq + 1]
    /\ log' = WithRows({b}, receipts')
    /\ UNCHANGED <<snapshotVars, integrationVars, fence, barrierVars, leaseVars>>

AppendBatch(b) ==
    /\ receipts[b] = 0 /\ ~Frozen /\ ~Integrating
    /\ currentSeq' = currentSeq + 1
    /\ receipts' = [receipts EXCEPT ![b] = currentSeq + 1]
    /\ log' = WithRows({b}, receipts')
    /\ UNCHANGED <<snapshotVars, integrationVars, fence, barrierVars, leaseVars>>

BufferBatch(b) ==
    /\ receipts[b] = 0 /\ ~Frozen /\ Integrating
    /\ buffer[b] = 0 /\ integration.count < BufferLimit
    /\ integration' = [integration EXCEPT !.count = @ + 1]
    /\ buffer' = [buffer EXCEPT ![b] = integration.count + 1]
    /\ UNCHANGED <<logVars, snapshotVars, fence, barrierVars, leaseVars>>

AcceptBatch(b) == AppendBatch(b) \/ BufferBatch(b)

(***************************************************************************)
(* Integration barrier                                                     *)
(***************************************************************************)
BeginIntegration(c) ==
    /\ leader = c /\ ~Frozen /\ ~Integrating
    /\ integration' = [owner |-> c, generation |-> generation,
                       base |-> currentSeq, count |-> 0, expired |-> FALSE]
    /\ UNCHANGED <<logVars, snapshotVars, buffer, fence, barrierVars, leaseVars>>

IntegrationLapses ==
    /\ Integrating /\ ~integration.expired
    /\ integration' = [integration EXCEPT !.expired = TRUE]
    /\ UNCHANGED <<logVars, snapshotVars, buffer, fence, barrierVars, leaseVars>>

\* Fault: the parked batches are read in reverse key order.
SequenceReversed(sys) ==
    LET first == IF sys = NoBatch THEN 0 ELSE 1
        new   == (Buffered \cup {sys}) \ (Sequenced \cup {NoBatch})
    IN  /\ currentSeq' = currentSeq + first + integration.count
        /\ receipts' = [b \in AllBatch |->
                          CASE b \notin new -> receipts[b]
                            [] b = sys      -> currentSeq + 1
                            [] OTHER -> currentSeq + first + integration.count + 1 - buffer[b]]
        /\ log' = WithRows(new, receipts')

\* Fault: the parked batches are sequenced before the system batch.
SequenceSystemLast(sys) ==
    LET first == IF sys = NoBatch THEN 0 ELSE 1
        new   == (Buffered \cup {sys}) \ (Sequenced \cup {NoBatch})
    IN  /\ currentSeq' = currentSeq + first + integration.count
        /\ receipts' = [b \in AllBatch |->
                          CASE b \notin new -> receipts[b]
                            [] b = sys      -> currentSeq + integration.count + 1
                            [] OTHER        -> currentSeq + buffer[b]]
        /\ log' = WithRows(new, receipts')

\* The system batch, if there is one, takes the next sequence; the parked
\* batches follow in the order they came.
SequenceAll(sys) ==
    LET first == IF sys = NoBatch THEN 0 ELSE 1
        new   == (Buffered \cup {sys}) \ (Sequenced \cup {NoBatch})
    IN  /\ currentSeq' = currentSeq + first + integration.count
        /\ receipts' = [b \in AllBatch |->
                          CASE b \notin new -> receipts[b]
                            [] b = sys      -> currentSeq + 1
                            [] OTHER        -> currentSeq + first + buffer[b]]
        /\ log' = WithRows(new, receipts')

\* Fault: the parked entries are not deleted once they are sequenced.
EndKeepingBuffer(sys) ==
    /\ SequenceAll(sys)
    /\ integration' = NoIntegration
    /\ UNCHANGED <<buffer, snapshotVars, fence, barrierVars, leaseVars>>

EndIntegration(sys) ==
    /\ SequenceAll(sys)
    /\ integration' = NoIntegration
    /\ buffer' = [b \in AllBatch |-> 0]
    /\ UNCHANGED <<snapshotVars, fence, barrierVars, leaseVars>>

\* A system batch is minted for one integration, so it has no receipt yet; a
\* retried completion finds the integration's own receipt and changes nothing.
FinishIntegration(c, sys) ==
    /\ Integrating /\ integration.owner = c
    /\ HoldsLease(c, integration.generation)
    /\ sys # NoBatch => ~integration.expired /\ receipts[sys] = 0
    /\ EndIntegration(sys)

\* Fault: the alarm asks for the owner's lease, as a completion does.
ExpireHeldIntegration ==
    /\ Integrating /\ integration.expired
    /\ HoldsLease(integration.owner, integration.generation)
    /\ EndIntegration(NoBatch)

\* The alarm ends an integration its owner abandoned.
ExpireIntegration ==
    /\ Integrating /\ integration.expired
    /\ EndIntegration(NoBatch)

(***************************************************************************)
(* Snapshot publication and compaction                                     *)
(***************************************************************************)
\* Fault: a barrier one short of the head.
NewBarrierShort(c, g) ==
    /\ Cardinality(barriers) < MaxBarriers
    /\ barriers' = barriers \cup {[client |-> c, generation |-> g, seq |-> currentSeq - 1]}
    /\ UNCHANGED <<logVars, snapshotVars, integrationVars, fence, verifying, leaseVars>>

NewBarrier(c, g) ==
    /\ Cardinality(barriers) < MaxBarriers
    /\ barriers' = barriers \cup {[client |-> c, generation |-> g, seq |-> currentSeq]}
    /\ UNCHANGED <<logVars, snapshotVars, integrationVars, fence, verifying, leaseVars>>

SnapshotBarrier(c) == ~Frozen /\ NewBarrier(c, 0)

LeaseBarrier(c) == leader = c /\ NewBarrier(NoClient, generation)

MayPublish(c, bar) ==
    \/ bar.generation = 0 /\ bar.client = c
    \/ HoldsLease(c, bar.generation)

\* The checks of snapshot_publish before it asks the object store for the chunks.
VerifySnapshot(c, bar) ==
    /\ snapshot <= bar.seq /\ MayPublish(c, bar)
    /\ verifying' = verifying \cup {<<c, bar>>}
    /\ UNCHANGED <<logVars, snapshotVars, integrationVars, fence, barriers, leaseVars>>

\* Fault: the page is deleted without stopping at the floor.
CompactWholePage(f) ==
    LET page == {s \in DOMAIN log : Cardinality({t \in DOMAIN log : t < s}) < CompactPage}
    IN  /\ log' = [s \in DOMAIN log \ page |-> log[s]]
        /\ compactionPending' = (Cardinality(page) = CompactPage /\ \A s \in page : s < f)

\* Fault: a full page is taken for the last one.
CompactOnePage(f) ==
    LET page == {s \in DOMAIN log : Cardinality({t \in DOMAIN log : t < s}) < CompactPage}
        kept == DOMAIN log \ {s \in page : s <= f}
    IN  /\ log' = [s \in kept |-> log[s]]
        /\ compactionPending' = (Cardinality(page) > CompactPage)

\* One compaction page over the rows of the log, with the floor f.
CompactPageOf(f) ==
    LET page == {s \in DOMAIN log : Cardinality({t \in DOMAIN log : t < s}) < CompactPage}
        kept == DOMAIN log \ {s \in page : s <= f}
    IN  /\ log' = [s \in kept |-> log[s]]
        /\ compactionPending' = (Cardinality(page) = CompactPage /\ \A s \in page : s < f)

\* Fault: the published snapshot is not read again after the verification.
CommitStaleSnapshot(c, bar) ==
    /\ <<c, bar>> \in verifying
    /\ verifying' = verifying \ {<<c, bar>>}
    /\ IF MayPublish(c, bar) /\ ~Frozen
       THEN /\ snapshot' = bar.seq
            /\ replayFloor' = bar.seq
            /\ CompactPageOf(bar.seq)
       ELSE UNCHANGED <<log, snapshotVars>>
    /\ UNCHANGED <<currentSeq, receipts, integrationVars, fence, barriers, leaseVars>>

\* The rest of snapshot_publish: every check that may have gone stale is made
\* again, and an accepted snapshot raises the floor and compacts a page.
CommitSnapshot(c, bar) ==
    /\ <<c, bar>> \in verifying
    /\ verifying' = verifying \ {<<c, bar>>}
    /\ IF MayPublish(c, bar) /\ ~Frozen /\ snapshot <= bar.seq
       THEN /\ snapshot' = bar.seq
            /\ replayFloor' = bar.seq
            /\ CompactPageOf(bar.seq)
       ELSE UNCHANGED <<log, snapshotVars>>
    /\ UNCHANGED <<currentSeq, receipts, integrationVars, fence, barriers, leaseVars>>

\* The alarm resumes a compaction that needs more pages.
CompactReplay ==
    /\ compactionPending
    /\ CompactPageOf(replayFloor)
    /\ UNCHANGED <<currentSeq, receipts, replayFloor, snapshot, integrationVars,
                   fence, barrierVars, leaseVars>>

(***************************************************************************)
(* Lifecycle fence.  Who may prepare, cancel or complete it, and when the  *)
(* control plane releases it, is in SessionLifecycle.                      *)
(***************************************************************************)
\* Fault: a fence that does not wait for the integration.
PrepareDuringIntegration ==
    /\ ~Frozen
    /\ snapshot = currentSeq
    /\ fence' = currentSeq
    /\ UNCHANGED <<logVars, snapshotVars, integrationVars, barrierVars, leaseVars>>

PrepareFence ==
    /\ ~Frozen /\ ~Integrating
    /\ snapshot = currentSeq
    /\ fence' = currentSeq
    /\ UNCHANGED <<logVars, snapshotVars, integrationVars, barrierVars, leaseVars>>

ReleaseFence ==
    /\ Frozen
    /\ fence' = NoSeq
    /\ UNCHANGED <<logVars, snapshotVars, integrationVars, barrierVars, leaseVars>>

(***************************************************************************)
(* The lease, as far as the log depends on it                              *)
(***************************************************************************)
GrantLease(c) ==
    /\ leader = NoClient /\ generation < MaxGeneration
    /\ leader' = c
    /\ generation' = generation + 1
    /\ UNCHANGED <<logVars, snapshotVars, integrationVars, fence, barrierVars>>

LoseLease ==
    /\ leader # NoClient
    /\ leader' = NoClient
    /\ UNCHANGED <<logVars, snapshotVars, integrationVars, fence, barrierVars, generation>>

Next ==
    \/ \E b \in Batch : AcceptBatch(b)
    \/ \E c \in Client : BeginIntegration(c)
    \/ \E c \in Client, sys \in SystemBatch \cup {NoBatch} : FinishIntegration(c, sys)
    \/ IntegrationLapses
    \/ ExpireIntegration
    \/ \E c \in Client : SnapshotBarrier(c) \/ LeaseBarrier(c)
    \/ \E c \in Client, bar \in barriers : VerifySnapshot(c, bar)
    \/ \E c \in Client, bar \in barriers : CommitSnapshot(c, bar)
    \/ CompactReplay
    \/ PrepareFence \/ ReleaseFence
    \/ \E c \in Client : GrantLease(c)
    \/ LoseLease

Spec == Init /\ [][Next]_vars

(***************************************************************************)
(* Properties                                                              *)
(***************************************************************************)
\* Types of the room's storage keys; no barrier is ahead of the log.
TypeOK ==
    /\ currentSeq \in Nat
    /\ receipts \in [AllBatch -> Nat]
    /\ DOMAIN log \subseteq Nat
    /\ log \in [DOMAIN log -> AllBatch]
    /\ replayFloor \in Nat
    /\ snapshot \in Nat \cup {NoSeq}
    /\ compactionPending \in BOOLEAN
    /\ integration \in Integration \cup {NoIntegration}
    /\ buffer \in [AllBatch -> Nat]
    /\ fence \in Nat \cup {NoSeq}
    /\ barriers \subseteq {bar \in Barrier : bar.seq <= currentSeq}
    /\ verifying \subseteq (Client \X barriers)
    /\ leader \in Client \cup {NoClient}
    /\ generation \in Nat

\* Every accepted batch has a sequence of its own, and the sequences in use are
\* 1..currentSeq without a gap: retries, integrations and buffered edits never
\* share, skip or reuse a position (acceptBatch, finishIntegration).
ExactlyOnceHistory ==
    /\ \A b1, b2 \in Sequenced : receipts[b1] = receipts[b2] => b1 = b2
    /\ \A b \in Sequenced : receipts[b] <= currentSeq
    /\ \A s \in 1..currentSeq : \E b \in AllBatch : receipts[b] = s

\* A member that knows everything up to the floor can replay the rest, and what
\* lies below it is in the published snapshot: no row above the floor is missing,
\* each row holds the batch whose receipt names it, and the floor is the
\* snapshot's own sequence, whichever publication raised it and however far
\* compaction got.
ReplayableTail ==
    /\ replayFloor = IF snapshot = NoSeq THEN 0 ELSE snapshot
    /\ replayFloor <= currentSeq
    /\ (replayFloor + 1)..currentSeq \subseteq DOMAIN log
    /\ \A s \in DOMAIN log : s # 0 /\ receipts[log[s]] = s

\* When no compaction is owed, no row at or below the floor is left: the page
\* rule of compactReplay never stops early.
CompactionComplete ==
    ~compactionPending => \A s \in DOMAIN log : s > replayFloor

\* While the fence stands the head is the fence's sequence, the published
\* snapshot holds all of it and no integration can add to it (the promise the
\* control plane's pause or close is committed on).
FrozenFrontier ==
    Frozen => /\ fence = currentSeq
              /\ snapshot = currentSeq
              /\ ~Integrating

\* While an integration is active the head stays at the basis its owner staged
\* against, and every parked batch is a member's, is unsequenced and keeps a place
\* of its own among the first count places.
IntegrationIsolated ==
    /\ Buffered \subseteq Batch
    /\ ~Integrating => Buffered = {}
    /\ Integrating =>
         /\ integration.base = currentSeq
         /\ integration.count <= BufferLimit
         /\ Buffered \cap Sequenced = {}
         /\ \A b1, b2 \in Buffered : buffer[b1] = buffer[b2] => b1 = b2
         /\ \A b \in Buffered : buffer[b] <= integration.count
         /\ \A k \in 1..integration.count : \E b \in Buffered : buffer[b] = k

\* A system batch is sequenced directly after the basis its integration froze:
\* no edit comes between what the owner merged against and its result.
SystemBatchFollowsBasis ==
    [][\A sys \in SystemBatch :
         receipts[sys] = 0 /\ receipts'[sys] # 0 =>
            Integrating /\ receipts'[sys] = integration.base + 1]_vars

\* Batches parked by an integration are sequenced in the order they arrived, and
\* before any batch that arrives later.
ArrivalOrderKept ==
    [][\A b1, b2 \in Batch :
         buffer[b1] # 0 /\ receipts'[b2] # 0 /\ receipts[b2] = 0
           /\ (buffer[b2] = 0 \/ buffer[b1] < buffer[b2]) =>
              receipts'[b1] # 0 /\ receipts'[b1] < receipts'[b2]]_vars

\* The detailed room implements the abstract session history.
History == INSTANCE SessionHistory WITH
    Batch   <- AllBatch,
    place   <- receipts,
    head    <- currentSeq,
    durable <- snapshot,
    frozen  <- Frozen

ImplementsHistory == History!Spec
=============================================================================
