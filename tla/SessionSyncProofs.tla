-------------------------- MODULE SessionSyncProofs --------------------------
(***************************************************************************)
(* Proofs about SessionSync, for any members, batches, limits and faults:  *)
(* the composition is an execution of the room, every device counts only   *)
(* what it has, published snapshots are exact, and no edit is lost or left *)
(* on one device.  The inductive invariant says, for each device, what it  *)
(* holds, what its journal owes and what is still on its socket.           *)
(***************************************************************************)
EXTENDS SessionSync, SessionRoomLogProofs, FiniteSetTheorems, WellFoundedInduction

(***************************************************************************)
(* The inductive invariant.  The part of one device is about its values:   *)
(* its daemon d, its outbox o, its disk k, its sync_request q in flight    *)
(* and the messages w on its socket.                                       *)
(***************************************************************************)
UpTo(seq) == {b \in Sequenced : receipts[b] <= seq}

\* A row is what the room sequenced at its place.
TrueRow(r) == r.batch \in Sequenced /\ receipts[r.batch] = r.seq

\* Rows a message brings, and whether it answers a sync_request.
RowsOf(m) == IF m.type \in {"session_batch", "sync_delta"} THEN m.rows ELSE {}
Answers(m) == m.type \in {"sync_delta", "snapshot_required"}

BarrierOf(c, seq) == [client |-> c, generation |-> 0, seq |-> seq]
Online(d) == d.conn \notin {"down", "off"}

DiskType == [seq: Nat, content: SUBSET AllBatch]
SubmitType == [client: Member, batch: Batch, attached: BOOLEAN]

\* No device is ahead of the room.
Bounds(c, d, o, k) ==
    /\ d \in DeviceType /\ o \in SUBSET Batch /\ k \in DiskType
    /\ d.watermark <= currentSeq /\ d.above \in SUBSET (1..currentSeq)
    /\ d.draft # NoBatch => Author[d.draft] = c
    /\ d.required <= replayFloor
    /\ \A b \in o : Author[b] = c
    /\ k.seq <= currentSeq

\* A device that counts a sequence has its batch, in memory as on disk.
Marks(d, k) ==
    /\ d.conn # "down" => \A b \in Sequenced : Applied(d, receipts[b]) => b \in d.replica
    /\ \A b \in Sequenced : receipts[b] <= k.seq => b \in k.content

\* What a device holds is sequenced, in its journal or its draft, and it holds
\* what its journal owes.
Journal(d, o, k) ==
    /\ d.conn # "down" => o \subseteq d.replica
    /\ d.conn = "down" => d.replica = {} /\ d.draft = NoBatch
    /\ d.draft # NoBatch => d.draft \in d.replica
    /\ d.replica \subseteq (Sequenced \cup o \cup {d.draft})
    /\ k.content \subseteq (Sequenced \cup o)

\* What a message says is so.
Honest(c, d, m) ==
    /\ \A r \in RowsOf(m) : TrueRow(r)
    /\ m.type = "batch_ack" => /\ m.batch \in Sequenced /\ receipts[m.batch] = m.seq
                               /\ m.batch \in d.replica
    /\ m.type = "snapshot_required" => m.floor <= replayFloor
    /\ m.type = "barrier_ack" => BarrierOf(c, m.seq) \in barriers

\* What reached a device and waits there, or is on its way, is so.
Wire(c, d, q, w) ==
    /\ q \in Nat \cup {NoSeq} /\ w \in Seq(Message)
    /\ ~Online(d) => w = << >> /\ q = NoSeq
    /\ \A i \in 1..Len(w) : Honest(c, d, w[i])
    /\ \A r \in d.held : TrueRow(r)
    /\ d.boot.seq <= currentSeq
    /\ d.boot.content = UpTo(d.boot.seq)

\* One request or answer at a time, and only in the replay.
Replay(d, q, w) ==
    /\ d.conn # "syncing" => q = NoSeq
    /\ \A i \in 1..Len(w) :
         Answers(w[i]) =>
            /\ d.conn = "syncing" /\ q = NoSeq
            /\ \A j \in 1..Len(w) : Answers(w[j]) => j = i

\* A capture starts with nothing to export and stays live; what the device holds
\* and what reaches it before the barrier is at or below the barrier.
Capture(d, o, w) ==
    /\ d.capture # "no" => d.conn = "live" /\ d.draft = NoBatch /\ o = {}
    /\ \A i \in 1..Len(w) : w[i].type = "barrier_ack" =>
         /\ d.capture = "granted"
         /\ d.replica \subseteq UpTo(w[i].seq)
         /\ \A j \in 1..Len(w) :
              /\ w[j].type = "barrier_ack" => j = i
              /\ j < i => \A r \in RowsOf(w[j]) : r.seq <= w[i].seq

DeviceOK(c, d, o, k, q, w) ==
    /\ Bounds(c, d, o, k)
    /\ Marks(d, k)
    /\ Journal(d, o, k)
    /\ Wire(c, d, q, w)
    /\ Replay(d, q, w)
    /\ Capture(d, o, w)

Devices ==
    /\ dev \in [Member -> DeviceType]
    /\ outbox \in [Member -> SUBSET Batch]
    /\ disk \in [Member -> DiskType]
    /\ syncReq \in [Member -> Nat \cup {NoSeq}]
    /\ toClient \in [Member -> Seq(Message)]
    /\ \A c \in Member : DeviceOK(c, dev[c], outbox[c], disk[c], syncReq[c], toClient[c])

\* A submission is of a batch its author minted; while its socket is open the
\* author still holds it.
Submitted(m) ==
    /\ m \in SubmitType
    /\ m.batch \in minted /\ Author[m.batch] = m.client
    /\ m.attached => Online(dev[m.client]) /\ m.batch \in dev[m.client].replica

\* What is minted is in a journal or sequenced, a draft is not minted, and only
\* what is minted is parked or sequenced.
Minting ==
    /\ minted \in SUBSET Batch
    /\ \A b \in minted : b \in outbox[Author[b]] \/ b \in Sequenced
    /\ \A c \in Member : outbox[c] \subseteq minted /\ dev[c].draft \notin minted
    /\ (Sequenced \cup Buffered) \subseteq (minted \cup SystemBatch)

\* Captures are exact at a barrier the room handed out.
GoodCapture(cap) ==
    /\ cap \in [bar: Barrier, content: SUBSET AllBatch]
    /\ cap.bar \in barriers /\ cap.bar.client \in Client /\ cap.bar.generation = 0
    /\ cap.content = UpTo(cap.bar.seq)

\* The cloud has the published snapshot.
Published ==
    /\ cloud \in SnapshotType
    /\ cloud.seq = snapshot
    /\ cloud.content = UpTo(cloud.seq)

SyncInv ==
    /\ RoomInv
    /\ Devices
    /\ \A m \in submits : Submitted(m)
    /\ Minting
    /\ \A cap \in captured : GoodCapture(cap)
    /\ Published

(***************************************************************************)
(* Watermarks                                                              *)
(***************************************************************************)
\* The devices e and d agree on all but their marks.
SameButMarks(e, d) ==
    /\ e.conn = d.conn /\ e.replica = d.replica /\ e.draft = d.draft /\ e.held = d.held
    /\ e.boot = d.boot /\ e.required = d.required /\ e.capture = d.capture

\* Sets of sequences are finite.
LEMMA FiniteBelow ==
    ASSUME NEW h \in Nat, NEW all \in SUBSET (1..h)
    PROVE  IsFiniteSet(all) /\ Cardinality(all) \in Nat
<1>1. IsFiniteSet(1..h)
  BY FS_Interval
<1> QED
  BY <1>1, FS_Subset, FS_CardinalityType

\* From any mark there is a first sequence that is missing, and it is at most as
\* far as there are sequences.
LEMMA FirstMissing ==
    ASSUME NEW h \in Nat, NEW all \in SUBSET (1..h), NEW w \in Nat
    PROVE  \E t \in w..(w + Cardinality(all)) : (w + 1)..t \subseteq all /\ t + 1 \notin all
<1> DEFINE missing == {t \in Nat : w <= t /\ t + 1 \notin all}
<1>1. w + h \in missing
  OBVIOUS
<1>2. PICK t \in missing : \A u \in missing : ~(<<u, t>> \in OpToRel(<, Nat))
  BY <1>1, WFMin, NatLessThanWellFounded
<1>3. \A u \in missing : ~(u < t)
  BY <1>2 DEF OpToRel
<1>4. (w + 1)..t \subseteq all
  <2> SUFFICES ASSUME NEW s \in (w + 1)..t, s \notin all PROVE FALSE
    OBVIOUS
  <2>1. s - 1 \in missing /\ s - 1 < t
    OBVIOUS
  <2> QED
    BY <1>3, <2>1
<1>5. t <= w + Cardinality(all)
  <2>1. IsFiniteSet(all) /\ Cardinality(all) \in Nat
    BY FiniteBelow
  <2>2. Cardinality((w + 1)..t) <= Cardinality(all)
    BY <1>4, <2>1, FS_Subset
  <2>3. Cardinality((w + 1)..t) = IF w + 1 > t THEN 0 ELSE t - (w + 1) + 1
    BY FS_Interval
  <2> QED
    BY <2>1, <2>2, <2>3
<1> QED
  BY <1>4, <1>5

\* Marking adds exactly the sequences marked to those that count as applied.
LEMMA MarkedCounts ==
    ASSUME NEW d \in DeviceType, NEW h \in Nat, d.watermark <= h,
           d.above \in SUBSET (1..h), NEW S \in SUBSET (1..h)
    PROVE  LET e == Marked(d, S)
           IN  /\ e \in DeviceType /\ SameButMarks(e, d)
               /\ e.watermark <= h /\ e.above \in SUBSET (1..h)
               /\ \A s \in Nat : Applied(e, s) <=> Applied(d, s) \/ s \in S
<1> DEFINE w == d.watermark
           all == d.above \cup {s \in S : s > w}
           good(t) == (w + 1)..t \subseteq all /\ t + 1 \notin all
           top == CHOOSE t \in w..(w + Cardinality(all)) : good(t)
           rest == {s \in all : s > top}
           e == [d EXCEPT !.watermark = top, !.above = rest]
<1>1. w \in Nat /\ all \in SUBSET (1..h)
  BY DEF DeviceType
<1>2. Cardinality(all) \in Nat
  BY <1>1, FiniteBelow
<1>3. e = Marked(d, S)
  BY DEF Marked
<1> HIDE DEF all
<1>4. top \in w..(w + Cardinality(all)) /\ good(top)
  BY <1>1, FirstMissing
<1> HIDE DEF w
<1>5. top \in Nat /\ w <= top
  BY <1>1, <1>2, <1>4
<1>6. (w + 1)..top \subseteq all
  BY <1>4
<1> HIDE DEF top
<1>7. top <= h
  <2>1. CASE top = w
    BY <2>1 DEF w
  <2>2. CASE top # w
    <3>1. top \in (w + 1)..top
      BY <1>1, <1>5, <2>2
    <3> QED
      BY <1>1, <1>6, <3>1
  <2> QED
    BY <2>1, <2>2
<1>8. rest \in SUBSET (1..h)
  BY <1>1
<1>9. \A s \in Nat : (s <= top \/ s \in rest) <=> (s <= w \/ s \in d.above) \/ s \in S
  <2> TAKE s \in Nat
  <2>1. s \in all <=> s \in d.above \/ (s \in S /\ s > w)
    BY DEF all
  <2>2. s <= top => s <= w \/ s \in all
    BY <1>1, <1>5, <1>6
  <2>3. s \in rest <=> s \in all /\ s > top
    OBVIOUS
  <2> QED
    BY <1>1, <1>5, <2>1, <2>2, <2>3
<1>10. /\ e.watermark = top /\ e.above = rest /\ SameButMarks(e, d)
       /\ rest \in SUBSET Nat => e \in DeviceType
  BY <1>5 DEF DeviceType, SameButMarks
<1> HIDE DEF e, rest
<1>11. rest \in SUBSET Nat
  BY <1>8
<1>12. \A s \in Nat : Applied(e, s) <=> Applied(d, s) \/ s \in S
  BY <1>9, <1>10 DEF Applied, w
<1> QED
  BY <1>3, <1>7, <1>8, <1>10, <1>11, <1>12

(***************************************************************************)
(* What the room does beneath the devices                                  *)
(***************************************************************************)
\* The room only moves forward: a batch is sequenced once and beyond the head, a
\* barrier stays, the floor rises.
RoomGrows ==
    /\ currentSeq' \in Nat /\ currentSeq <= currentSeq'
    /\ receipts' \in [AllBatch -> Nat]
    /\ \A b \in AllBatch : \/ receipts'[b] = receipts[b]
                           \/ receipts[b] = 0 /\ receipts'[b] > currentSeq
    /\ barriers \subseteq barriers'
    /\ replayFloor' \in Nat /\ replayFloor <= replayFloor'

\* Types of the room, for use where its state stays visible.
LEMMA RoomTypes ==
    ASSUME RoomInv
    PROVE  /\ currentSeq \in Nat /\ receipts \in [AllBatch -> Nat]
           /\ replayFloor \in Nat /\ replayFloor <= currentSeq
           /\ snapshot \in Nat \cup {NoSeq} /\ snapshot <= currentSeq
           /\ replayFloor = IF snapshot = NoSeq THEN 0 ELSE snapshot
           /\ buffer \in [AllBatch -> Nat]
           /\ \A b \in Sequenced : b \in AllBatch /\ receipts[b] \in 1..currentSeq
           /\ \A b1, b2 \in Sequenced : receipts[b1] = receipts[b2] => b1 = b2
           /\ \A s \in DOMAIN log : s \in 1..currentSeq /\ log[s] \in Sequenced /\ receipts[log[s]] = s
           /\ \A bar \in barriers : bar \in Barrier /\ bar.seq \in Nat /\ bar.seq <= currentSeq
           /\ Buffered \subseteq Batch /\ Buffered \cap Sequenced = {}
<1>1. /\ currentSeq \in Nat /\ receipts \in [AllBatch -> Nat]
      /\ replayFloor \in Nat /\ snapshot \in Nat \cup {NoSeq}
      /\ buffer \in [AllBatch -> Nat]
      /\ DOMAIN log \subseteq Nat /\ \A s \in DOMAIN log : log[s] \in AllBatch
      /\ \A bar \in barriers : bar \in Barrier /\ bar.seq <= currentSeq
  BY DEF RoomInv, TypeOK
<1>2. \A bar \in barriers : bar.seq \in Nat
  BY <1>1 DEF Barrier
<1>3. /\ replayFloor = IF snapshot = NoSeq THEN 0 ELSE snapshot
      /\ replayFloor <= currentSeq /\ snapshot <= currentSeq
  BY <1>1 DEF RoomInv, ReplayableTail, NoSeq
<1>4. \A b \in Sequenced : b \in AllBatch /\ receipts[b] \in 1..currentSeq
  BY <1>1 DEF RoomInv, ExactlyOnceHistory, Sequenced
<1>5. \A b1, b2 \in Sequenced : receipts[b1] = receipts[b2] => b1 = b2
  BY DEF RoomInv, ExactlyOnceHistory
<1>6. \A s \in DOMAIN log : log[s] \in Sequenced /\ receipts[log[s]] = s
  BY <1>1 DEF RoomInv, ReplayableTail, Sequenced
<1>7. Buffered \subseteq Batch /\ Buffered \cap Sequenced = {}
  BY DEF RoomInv, IntegrationIsolated
<1> QED
  BY <1>1, <1>2, <1>3, <1>4, <1>5, <1>6, <1>7

\* Every step of the room moves it forward.
LEMMA NextGrows ==
    ASSUME RoomInv, RoomInv', [Next]_vars
    PROVE  RoomGrows
<1>1. /\ currentSeq \in Nat /\ receipts \in [AllBatch -> Nat] /\ replayFloor \in Nat
      /\ currentSeq' \in Nat /\ receipts' \in [AllBatch -> Nat] /\ replayFloor' \in Nat
  BY DEF RoomInv, TypeOK
<1>2. /\ currentSeq <= currentSeq'
      /\ \A b \in AllBatch : \/ receipts'[b] = receipts[b]
                             \/ receipts[b] = 0 /\ receipts'[b] > currentSeq
  <2>1. CASE UNCHANGED <<currentSeq, receipts>>
    BY <1>1, <2>1
  <2>2. ASSUME NEW b \in Batch, AppendBatch(b)
        PROVE  /\ currentSeq <= currentSeq'
               /\ \A x \in AllBatch : \/ receipts'[x] = receipts[x]
                                      \/ receipts[x] = 0 /\ receipts'[x] > currentSeq
    <3>1. /\ receipts[b] = 0 /\ currentSeq' = currentSeq + 1
          /\ receipts' = [receipts EXCEPT ![b] = currentSeq + 1]
      BY <2>2 DEF AppendBatch
    <3> QED
      BY <1>1, <3>1
  <2>3. ASSUME NEW sys \in SystemBatch \cup {NoBatch}, Integrating,
               sys # NoBatch => receipts[sys] = 0, EndIntegration(sys)
        PROVE  /\ currentSeq <= currentSeq'
               /\ \A x \in AllBatch : \/ receipts'[x] = receipts[x]
                                      \/ receipts[x] = 0 /\ receipts'[x] > currentSeq
    <3>1. SequenceAll(sys)
      BY <2>3 DEF EndIntegration
    <3> QED
      BY <2>3, <3>1, SequencingKeepsHistory
  <2> QED
    BY <2>1, <2>2, <2>3, OnlyAdmissionSequences
<1>3. barriers \subseteq barriers' /\ replayFloor <= replayFloor'
  <2>1. ASSUME UNCHANGED <<barriers, replayFloor>>
        PROVE  barriers \subseteq barriers' /\ replayFloor <= replayFloor'
    BY <1>1, <2>1
  <2>2. ASSUME NEW b \in Batch, AcceptBatch(b) PROVE UNCHANGED <<barriers, replayFloor>>
    BY <2>2 DEF AcceptBatch, AppendBatch, BufferBatch, barrierVars, snapshotVars
  <2>3. ASSUME NEW sys, EndIntegration(sys) PROVE UNCHANGED <<barriers, replayFloor>>
    BY <2>3 DEF EndIntegration, barrierVars, snapshotVars
  <2>4. ASSUME NEW c \in Client, SnapshotBarrier(c) \/ LeaseBarrier(c)
        PROVE  barriers \subseteq barriers' /\ replayFloor <= replayFloor'
    BY <1>1, <2>4 DEF SnapshotBarrier, LeaseBarrier, NewBarrier, snapshotVars
  <2>5. ASSUME NEW c \in Client, NEW bar \in barriers, CommitSnapshot(c, bar)
        PROVE  barriers \subseteq barriers' /\ replayFloor <= replayFloor'
    <3>1. /\ barriers' = barriers
          /\ replayFloor' = replayFloor \/ (snapshot <= bar.seq /\ replayFloor' = bar.seq)
      BY <2>5 DEF CommitSnapshot, snapshotVars
    <3>2. bar.seq \in Nat /\ replayFloor = IF snapshot = NoSeq THEN 0 ELSE snapshot
      BY RoomTypes
    <3> QED
      BY <1>1, <3>1, <3>2
  <2>6. CASE \/ \E c \in Client : BeginIntegration(c) \/ GrantLease(c)
             \/ \E c \in Client, bar \in barriers : VerifySnapshot(c, bar)
             \/ IntegrationLapses \/ PrepareFence \/ ReleaseFence \/ LoseLease
             \/ CompactReplay \/ UNCHANGED vars
    BY <2>1, <2>6 DEF BeginIntegration, GrantLease, VerifySnapshot, IntegrationLapses,
       PrepareFence, ReleaseFence, LoseLease, CompactReplay, vars, barrierVars, snapshotVars
  <2> QED
    BY <2>1, <2>2, <2>3, <2>4, <2>5, <2>6 DEF Next, FinishIntegration, ExpireIntegration
<1> QED
  BY <1>1, <1>2, <1>3 DEF RoomGrows

\* What was sequenced stays so, at its place, and what is up to a place the room
\* has reached stays the same.
LEMMA SequencedStays ==
    ASSUME RoomInv, RoomGrows
    PROVE  /\ \A b \in Sequenced : b \in Sequenced' /\ receipts'[b] = receipts[b]
           /\ \A b \in Sequenced' : b \in Sequenced \/ receipts'[b] > currentSeq
           /\ \A seq \in Nat \cup {NoSeq} : seq <= currentSeq => UpTo(seq)' = UpTo(seq)
           /\ \A r : TrueRow(r) => TrueRow(r)'
<1>1. \A b \in Sequenced : b \in Sequenced' /\ receipts'[b] = receipts[b]
  BY RoomTypes DEF RoomGrows, Sequenced
<1>2. \A b \in Sequenced' : b \in Sequenced \/ receipts'[b] > currentSeq
  BY DEF RoomGrows, Sequenced
<1>3. ASSUME NEW seq \in Nat \cup {NoSeq}, seq <= currentSeq PROVE UpTo(seq)' = UpTo(seq)
  <2>1. \A b \in Sequenced' : receipts'[b] <= seq => b \in Sequenced
    <3> SUFFICES ASSUME NEW b \in Sequenced', receipts'[b] > currentSeq PROVE ~(receipts'[b] <= seq)
      BY <1>2
    <3>1. receipts'[b] \in Nat /\ currentSeq \in Nat /\ seq \in Int
      BY RoomTypes DEF RoomGrows, Sequenced, NoSeq
    <3> QED
      BY <1>3, <3>1
  <2> QED
    BY <1>1, <2>1 DEF UpTo
<1>4. ASSUME NEW r, TrueRow(r) PROVE TrueRow(r)'
  BY <1>1, <1>4 DEF TrueRow
<1> QED
  BY <1>1, <1>2, <1>3, <1>4

\* A device that does nothing keeps its part of the invariant while the room moves
\* forward.
LEMMA DeviceStays ==
    ASSUME RoomInv, RoomGrows, NEW c \in Member, NEW d, NEW o, NEW k, NEW q, NEW w,
           DeviceOK(c, d, o, k, q, w)
    PROVE  DeviceOK(c, d, o, k, q, w)'
<1>1. /\ currentSeq \in Nat /\ currentSeq' \in Nat /\ currentSeq <= currentSeq'
      /\ replayFloor \in Nat /\ replayFloor' \in Nat /\ replayFloor <= replayFloor'
      /\ \A b \in Sequenced : receipts[b] \in Nat
      /\ \A b \in Sequenced' : receipts'[b] \in Nat
  BY RoomTypes DEF RoomGrows, Sequenced
<1>2. /\ d \in DeviceType /\ d.watermark \in Nat /\ d.required \in Nat
      /\ d.boot.seq \in Nat \cup {NoSeq}
      /\ k.seq \in Nat /\ w \in Seq(Message)
  BY DEF DeviceOK, Bounds, Wire, DeviceType, SnapshotType, DiskType
<1>3. Bounds(c, d, o, k)'
  <2>1. (1..currentSeq) \subseteq (1..currentSeq)'
    BY <1>1
  <2> QED
    BY <1>1, <1>2, <2>1 DEF DeviceOK, Bounds
<1>4. Marks(d, k)'
  <2>1. ASSUME NEW b \in Sequenced', b \notin Sequenced
        PROVE  ~Applied(d, receipts'[b]) /\ ~(receipts'[b] <= k.seq)
    <3>1. receipts'[b] > currentSeq
      BY <2>1, SequencedStays
    <3>2. /\ d.watermark <= currentSeq /\ d.above \in SUBSET (1..currentSeq)
          /\ k.seq <= currentSeq
      BY DEF DeviceOK, Bounds
    <3> QED
      BY <1>1, <1>2, <3>1, <3>2 DEF Applied
  <2>2. \A b \in Sequenced : receipts'[b] = receipts[b]
    BY SequencedStays
  <2>3. Marks(d, k)
    BY DEF DeviceOK
  <2> QED
    BY <2>1, <2>2, <2>3 DEF Marks
<1>5. Journal(d, o, k)'
  <2>1. Sequenced \subseteq Sequenced'
    BY SequencedStays
  <2> QED
    BY <2>1 DEF DeviceOK, Journal
<1>6. Wire(c, d, q, w)'
  <2>1. ASSUME NEW i \in 1..Len(w) PROVE Honest(c, d, w[i])'
    <3>1. Honest(c, d, w[i])
      BY <2>1 DEF DeviceOK, Wire
    <3>2. w[i].type = "snapshot_required" => w[i].floor \in Nat
      BY <1>2, <2>1 DEF Message
    <3>3. barriers \subseteq barriers'
      BY DEF RoomGrows
    <3> QED
      BY <1>1, <3>1, <3>2, <3>3, SequencedStays DEF Honest
  <2>2. d.boot.seq <= currentSeq /\ d.boot.seq <= currentSeq'
    BY <1>1, <1>2 DEF DeviceOK, Wire, NoSeq
  <2>3. UpTo(d.boot.seq)' = UpTo(d.boot.seq)
    BY <1>2, <2>2, SequencedStays
  <2>4. \A r \in d.held : TrueRow(r)'
    BY SequencedStays DEF DeviceOK, Wire
  <2> QED
    BY <2>1, <2>2, <2>3, <2>4 DEF DeviceOK, Wire
<1>7. Replay(d, q, w)'
  BY DEF DeviceOK, Replay
<1>8. Capture(d, o, w)'
  <2>1. ASSUME NEW i \in 1..Len(w), w[i].type = "barrier_ack", d.replica \subseteq UpTo(w[i].seq)
        PROVE  d.replica \subseteq UpTo(w[i].seq)'
    <3>1. \A b \in UpTo(w[i].seq) : b \in UpTo(w[i].seq)'
      BY SequencedStays DEF UpTo
    <3> QED
      BY <2>1, <3>1
  <2> QED
    BY <2>1 DEF DeviceOK, Capture
<1> QED
  BY <1>3, <1>4, <1>5, <1>6, <1>7, <1>8 DEF DeviceOK

(***************************************************************************)
(* A step of one device while the room stands still                        *)
(***************************************************************************)
\* A step of the device c that leaves the room alone keeps the invariant if it
\* keeps c's part, loses nothing from c's journal that is not sequenced, and
\* mints, submits and captures in order.
LEMMA DeviceKeepsInv ==
    ASSUME SyncInv, NEW c \in Member, UNCHANGED vars, cloud' = cloud,
           NEW d, NEW o, NEW k, NEW q, NEW w, DeviceOK(c, d, o, k, q, w),
           dev' = [dev EXCEPT ![c] = d], outbox' = [outbox EXCEPT ![c] = o],
           disk' = [disk EXCEPT ![c] = k], syncReq' = [syncReq EXCEPT ![c] = q],
           toClient' = [toClient EXCEPT ![c] = w],
           \A b \in outbox[c] : b \in o \/ b \in Sequenced,
           minted' \in SUBSET Batch, minted \subseteq minted',
           \A b \in minted' : b \in minted \/ (b \in o /\ Author[b] = c),
           o \subseteq minted', d.draft \notin minted',
           \A m \in submits' : \/ m \in submits /\ m.client # c
                               \/ Submitted(m)',
           \A cap \in captured' : cap \in captured \/ GoodCapture(cap)
    PROVE  SyncInv'
<1>1. /\ RoomInv /\ Devices /\ Minting /\ Published
      /\ \A m \in submits : Submitted(m)
      /\ \A cap \in captured : GoodCapture(cap)
  BY DEF SyncInv
<1>2. RoomInv'
  <2>1. [Next]_vars
    OBVIOUS
  <2> QED
    BY <1>1, <2>1, NextKeepsInv
<1>3. d \in DeviceType /\ o \in SUBSET Batch /\ k \in DiskType /\ q \in Nat \cup {NoSeq} /\ w \in Seq(Message)
  BY DEF DeviceOK, Bounds, Wire
<1>4. RoomGrows
  BY <1>1, <1>2, NextGrows
<1>5. ASSUME NEW x \in Member, x # c
      PROVE  /\ dev'[x] = dev[x] /\ outbox'[x] = outbox[x] /\ disk'[x] = disk[x]
             /\ syncReq'[x] = syncReq[x] /\ toClient'[x] = toClient[x]
  BY <1>1, <1>5 DEF Devices
<1>6. /\ dev'[c] = d /\ outbox'[c] = o /\ disk'[c] = k /\ syncReq'[c] = q /\ toClient'[c] = w
  BY <1>1 DEF Devices
<1>7. Devices'
  <2>1. /\ dev' \in [Member -> DeviceType] /\ outbox' \in [Member -> SUBSET Batch]
        /\ disk' \in [Member -> DiskType] /\ syncReq' \in [Member -> Nat \cup {NoSeq}]
        /\ toClient' \in [Member -> Seq(Message)]
    BY <1>1, <1>3 DEF Devices
  <2>2. ASSUME NEW x \in Member
        PROVE  DeviceOK(x, dev[x], outbox[x], disk[x], syncReq[x], toClient[x])'
    <3>1. CASE x = c
      <4>1. DeviceOK(c, d, o, k, q, w)'
        BY <1>1, <1>4, DeviceStays
      <4> QED
        BY <1>6, <3>1, <4>1
    <3>2. CASE x # c
      <4>1. DeviceOK(x, dev[x], outbox[x], disk[x], syncReq[x], toClient[x])
        BY <1>1 DEF Devices
      <4> QED
        BY <1>1, <1>4, <1>5, <3>2, <4>1, DeviceStays
    <3> QED
      BY <3>1, <3>2
  <2> QED
    BY <2>1, <2>2 DEF Devices
<1>8. \A m \in submits' : Submitted(m)'
  <2> SUFFICES ASSUME NEW m \in submits, m.client # c PROVE Submitted(m)'
    OBVIOUS
  <2>1. Submitted(m) /\ m.client \in Member
    BY <1>1 DEF Submitted, SubmitType
  <2>2. dev'[m.client] = dev[m.client]
    BY <1>5, <2>1
  <2> QED
    BY <2>1, <2>2 DEF Submitted
<1>9. Sequenced' = Sequenced /\ Buffered' = Buffered /\ barriers' = barriers /\ receipts' = receipts
      /\ snapshot' = snapshot
  BY DEF vars, logVars, integrationVars, barrierVars, snapshotVars, Sequenced, Buffered
<1>10. Minting'
  <2>1. \A b \in minted' : b \in outbox'[Author[b]] \/ b \in Sequenced
    <3> SUFFICES ASSUME NEW b \in minted' PROVE b \in outbox'[Author[b]] \/ b \in Sequenced
      OBVIOUS
    <3>1. CASE b \notin minted
      BY <1>6, <3>1
    <3>2. CASE b \in minted
      <4>1. b \in outbox[Author[b]] \/ b \in Sequenced
        BY <1>1, <3>2 DEF Minting
      <4>2. Author[b] \in Member
        BY <1>1, <3>2, AuthorsAreMembers DEF Minting
      <4> QED
        BY <1>5, <1>6, <4>1, <4>2
    <3> QED
      BY <3>1, <3>2
  <2>2. ASSUME NEW x \in Member PROVE outbox'[x] \subseteq minted' /\ dev'[x].draft \notin minted'
    <3>1. CASE x = c
      BY <1>6, <3>1
    <3>2. CASE x # c
      <4>1. /\ outbox[x] \subseteq minted /\ dev[x].draft \notin minted
            /\ dev[x].draft # NoBatch => Author[dev[x].draft] = x
        BY <1>1 DEF Minting, Devices, DeviceOK, Bounds
      <4>2. dev[x].draft \notin minted'
        BY <3>2, <4>1, NullsApart
      <4> QED
        BY <1>5, <3>2, <4>1, <4>2
    <3> QED
      BY <3>1, <3>2
  <2> QED
    BY <1>1, <1>9, <2>1, <2>2 DEF Minting
<1>11. \A seq : UpTo(seq)' = UpTo(seq)
  BY <1>9 DEF UpTo
<1>12. Published'
  BY <1>1, <1>9, <1>11 DEF Published
<1>13. \A cap \in captured' : GoodCapture(cap)'
  BY <1>1, <1>9, <1>11 DEF GoodCapture
<1> QED
  BY <1>2, <1>7, <1>8, <1>10, <1>12, <1>13 DEF SyncInv

(***************************************************************************)
(* What a device may do and stay in order                                  *)
(***************************************************************************)
\* The parts of a device's state and their types.
LEMMA DeviceParts ==
    ASSUME NEW c, NEW d, NEW o, NEW k, NEW q, NEW w, DeviceOK(c, d, o, k, q, w)
    PROVE  /\ d \in DeviceType /\ o \in SUBSET Batch /\ k \in DiskType /\ w \in Seq(Message)
           /\ q \in Nat \cup {NoSeq}
           /\ d.watermark \in Nat /\ d.replica \in SUBSET AllBatch /\ d.held \in SUBSET RowType
           /\ d.draft \in Batch \cup {NoBatch} /\ d.boot \in SnapshotType
           /\ d.boot.seq \in Nat \cup {NoSeq} /\ d.required \in Nat
           /\ k.seq \in Nat /\ k.content \in SUBSET AllBatch
           /\ \A i \in 1..Len(w) : w[i] \in Message
  BY DEF DeviceOK, Bounds, Wire, DeviceType, SnapshotType, DiskType

\* What a device knows of the rows of a message that is so.
LEMMA TrueRows ==
    ASSUME RoomInv, NEW r \in RowType, TrueRow(r)
    PROVE  r.batch \in Sequenced /\ r.seq \in 1..currentSeq /\ receipts[r.batch] = r.seq
  BY RoomTypes DEF TrueRow

\* Rows that are so, received by a running device: none is ahead of a barrier that
\* is on its way.
LEMMA ReceivedOK ==
    ASSUME RoomInv, NEW c, NEW d, NEW o, NEW k, NEW q, NEW w, DeviceOK(c, d, o, k, q, w),
           d.conn # "down", NEW rows \in SUBSET RowType, \A r \in rows : TrueRow(r),
           \A i \in 1..Len(w) : w[i].type = "barrier_ack" => \A r \in rows : r.seq <= w[i].seq
    PROVE  LET e == Received(d, rows)
           IN  /\ DeviceOK(c, e, o, k, q, w) /\ d.replica \subseteq e.replica
               /\ e.conn = d.conn /\ e.draft = d.draft /\ e.held = d.held
               /\ e.boot = d.boot /\ e.required = d.required /\ e.capture = d.capture
<1> DEFINE fresh == {r \in rows : ~Applied(d, r.seq)}
           news == {r.batch : r \in fresh}
           seqs == {r.seq : r \in fresh}
           f == [d EXCEPT !.replica = d.replica \cup news]
           e == Marked(f, seqs)
<1>1. e = Received(d, rows)
  BY DEF Received, Merged
<1>2. \A r \in rows : /\ r \in RowType /\ r.seq \in Nat /\ r.batch \in AllBatch
                      /\ r.batch \in Sequenced /\ r.seq \in 1..currentSeq
                      /\ receipts[r.batch] = r.seq
  BY TrueRows DEF RowType
<1>3. seqs \in SUBSET (1..currentSeq) /\ news \in SUBSET Sequenced /\ news \in SUBSET AllBatch
  BY <1>2
<1>4. /\ f \in DeviceType /\ f.replica = d.replica \cup news
      /\ f.conn = d.conn /\ f.draft = d.draft /\ f.held = d.held /\ f.boot = d.boot
      /\ f.required = d.required /\ f.capture = d.capture
      /\ f.watermark = d.watermark /\ f.above = d.above
  BY <1>3, DeviceParts DEF DeviceType
<1> HIDE DEF f, fresh, news, seqs
<1>5. currentSeq \in Nat /\ f.watermark <= currentSeq /\ f.above \in SUBSET (1..currentSeq)
  BY <1>4, RoomTypes DEF DeviceOK, Bounds
<1>6. /\ e \in DeviceType /\ SameButMarks(e, f)
      /\ e.watermark <= currentSeq /\ e.above \in SUBSET (1..currentSeq)
      /\ \A s \in Nat : Applied(e, s) <=> Applied(f, s) \/ s \in seqs
  BY <1>3, <1>4, <1>5, MarkedCounts
<1> HIDE DEF e
<1>7. /\ e.conn = d.conn /\ e.draft = d.draft /\ e.held = d.held /\ e.boot = d.boot
      /\ e.required = d.required /\ e.capture = d.capture
      /\ e.replica = d.replica \cup news
  BY <1>4, <1>6 DEF SameButMarks
<1>8. Bounds(c, e, o, k)
  BY <1>6, <1>7 DEF DeviceOK, Bounds
<1>9. Marks(e, k)
  <2>1. ASSUME NEW b \in Sequenced, Applied(e, receipts[b]) PROVE b \in e.replica
    <3>1. receipts[b] \in Nat /\ (Applied(d, receipts[b]) \/ receipts[b] \in seqs)
      BY <1>4, <1>6, <2>1, RoomTypes DEF Applied
    <3>2. CASE Applied(d, receipts[b])
      BY <1>7, <3>2 DEF DeviceOK, Marks
    <3>3. CASE receipts[b] \in seqs
      <4>1. PICK r \in fresh : r.seq = receipts[b]
        BY <3>3 DEF seqs
      <4>2. r.batch \in Sequenced /\ receipts[r.batch] = receipts[b]
        BY <1>2, <4>1 DEF fresh
      <4>3. r.batch = b
        BY <4>2, RoomTypes
      <4> QED
        BY <1>7, <4>1, <4>3 DEF news
    <3> QED
      BY <3>1, <3>2, <3>3
  <2> QED
    BY <1>7, <2>1 DEF DeviceOK, Marks
<1>10. Journal(e, o, k)
  BY <1>3, <1>7 DEF DeviceOK, Journal
<1>11. Wire(c, e, q, w)
  BY <1>7 DEF DeviceOK, Wire, Honest, Online
<1>12. Replay(e, q, w)
  BY <1>7 DEF DeviceOK, Replay
<1>13. Capture(e, o, w)
  <2>1. ASSUME NEW i \in 1..Len(w), w[i].type = "barrier_ack" PROVE e.replica \subseteq UpTo(w[i].seq)
    <3>1. \A b \in news : b \in Sequenced /\ receipts[b] <= w[i].seq
      BY <1>2, <2>1 DEF news, fresh
    <3>2. d.replica \subseteq UpTo(w[i].seq)
      BY <2>1 DEF DeviceOK, Capture
    <3> QED
      BY <1>7, <3>1, <3>2 DEF UpTo
  <2> QED
    BY <1>7, <2>1 DEF DeviceOK, Capture
<1> QED
  BY <1>1, <1>7, <1>8, <1>9, <1>10, <1>11, <1>12, <1>13 DEF DeviceOK

\* The acknowledgement of a batch the device holds.
LEMMA AcknowledgedOK ==
    ASSUME RoomInv, NEW c, NEW d, NEW o, NEW k, NEW q, NEW w, DeviceOK(c, d, o, k, q, w),
           NEW b \in Sequenced, b \in d.replica
    PROVE  LET e == Marked(d, {receipts[b]})
           IN  DeviceOK(c, e, o \ {b}, k, q, w) /\ SameButMarks(e, d)
<1> DEFINE seqs == {receipts[b]}
           e == Marked(d, seqs)
<1>1. currentSeq \in Nat /\ seqs \in SUBSET (1..currentSeq)
  BY RoomTypes
<1>2. d \in DeviceType /\ d.watermark <= currentSeq /\ d.above \in SUBSET (1..currentSeq)
  BY DEF DeviceOK, Bounds
<1> HIDE DEF seqs
<1>3. /\ e \in DeviceType /\ SameButMarks(e, d)
      /\ e.watermark <= currentSeq /\ e.above \in SUBSET (1..currentSeq)
      /\ \A s \in Nat : Applied(e, s) <=> Applied(d, s) \/ s \in seqs
  BY <1>1, <1>2, MarkedCounts
<1> HIDE DEF e
<1>4. /\ e.conn = d.conn /\ e.replica = d.replica /\ e.draft = d.draft /\ e.held = d.held
      /\ e.boot = d.boot /\ e.required = d.required /\ e.capture = d.capture
  BY <1>3 DEF SameButMarks
<1>5. Bounds(c, e, o \ {b}, k)
  BY <1>3, <1>4 DEF DeviceOK, Bounds
<1>6. Marks(e, k)
  <2>1. ASSUME NEW x \in Sequenced, Applied(e, receipts[x]) PROVE x \in e.replica
    <3>1. receipts[x] \in Nat
      BY RoomTypes
    <3>2. CASE Applied(d, receipts[x])
      <4>1. d.conn # "down"
        BY DEF DeviceOK, Journal
      <4> QED
        BY <1>4, <3>2, <4>1 DEF DeviceOK, Marks
    <3>3. CASE receipts[x] \in seqs
      <4>1. x = b
        BY <3>3, RoomTypes DEF seqs
      <4> QED
        BY <1>4, <4>1
    <3> QED
      BY <1>3, <2>1, <3>1, <3>2, <3>3
  <2>2. d.conn = "down" => d.replica = {}
    BY DEF DeviceOK, Journal
  <2> QED
    BY <1>4, <2>1, <2>2 DEF DeviceOK, Marks
<1>7. Journal(e, o \ {b}, k)
  BY <1>4 DEF DeviceOK, Journal
<1>8. Wire(c, e, q, w) /\ Replay(e, q, w) /\ Capture(e, o \ {b}, w)
  BY <1>4 DEF DeviceOK, Wire, Honest, Online, Replay, Capture
<1> QED
  BY <1>3, <1>5, <1>6, <1>7, <1>8 DEF DeviceOK, seqs, e

\* A published snapshot ahead of the watermark, restored while nothing is captured.
LEMMA RestoredOK ==
    ASSUME RoomInv, NEW c, NEW d, NEW o, NEW k, NEW q, NEW w, DeviceOK(c, d, o, k, q, w),
           d.conn = "loading", d.boot.seq > d.watermark
    PROVE  LET e == Restored(d)
           IN  DeviceOK(c, e, o, k, q, w) /\ e.conn = d.conn /\ e.draft = d.draft /\ e.held = d.held
               /\ d.replica \subseteq e.replica
<1> DEFINE h == currentSeq
           f == [d EXCEPT !.replica = d.replica \cup d.boot.content,
                          !.watermark = d.boot.seq, !.above = {s \in d.above : s > d.boot.seq}]
           e == Marked(f, {})
<1>1. e = Restored(d)
  BY DeviceParts DEF Restored, Merged, DeviceType
<1>2. /\ d \in DeviceType /\ d.boot.content = UpTo(d.boot.seq) /\ d.boot.seq <= h
      /\ d.boot.seq \in Nat /\ h \in Nat /\ d.boot.content \in SUBSET AllBatch
      /\ d.above \in SUBSET (1..h) /\ d.watermark \in Nat
  <2>1. d.boot.seq \in Nat \cup {NoSeq} /\ d.watermark \in Nat
    BY DeviceParts
  <2>2. d.boot.seq \in Nat
    BY <2>1 DEF NoSeq
  <2> QED
    BY <2>1, <2>2, DeviceParts, RoomTypes DEF DeviceOK, Bounds, Wire, SnapshotType
<1>3. /\ f \in DeviceType /\ f.replica = d.replica \cup d.boot.content
      /\ f.conn = d.conn /\ f.draft = d.draft /\ f.held = d.held /\ f.boot = d.boot
      /\ f.required = d.required /\ f.capture = d.capture
      /\ f.watermark = d.boot.seq /\ f.above = {s \in d.above : s > d.boot.seq}
  BY <1>2 DEF DeviceType
<1> HIDE DEF f
<1>4. f.watermark <= h /\ f.above \in SUBSET (1..h) /\ {} \in SUBSET (1..h)
  BY <1>2, <1>3
<1>5. /\ e \in DeviceType /\ SameButMarks(e, f)
      /\ e.watermark <= h /\ e.above \in SUBSET (1..h)
      /\ \A s \in Nat : Applied(e, s) <=> Applied(f, s) \/ s \in {}
  BY <1>2, <1>3, <1>4, MarkedCounts
<1> HIDE DEF e
<1>6. /\ e.conn = d.conn /\ e.draft = d.draft /\ e.held = d.held /\ e.boot = d.boot
      /\ e.required = d.required /\ e.capture = d.capture
      /\ e.replica = d.replica \cup d.boot.content
  BY <1>3, <1>5 DEF SameButMarks
<1>7. Bounds(c, e, o, k)
  BY <1>5, <1>6 DEF DeviceOK, Bounds
<1>8. Marks(e, k)
  <2>1. ASSUME NEW b \in Sequenced, Applied(e, receipts[b]) PROVE b \in e.replica
    <3>1. receipts[b] \in Nat /\ (receipts[b] <= d.boot.seq \/ receipts[b] \in d.above)
      BY <1>3, <1>5, <2>1, RoomTypes DEF Applied
    <3>2. CASE receipts[b] <= d.boot.seq
      BY <1>2, <1>6, <3>2 DEF UpTo
    <3>3. CASE receipts[b] \in d.above
      BY <1>6, <3>3 DEF DeviceOK, Marks, Applied
    <3> QED
      BY <3>1, <3>2, <3>3
  <2> QED
    BY <1>6, <2>1 DEF DeviceOK, Marks
<1>9. Journal(e, o, k)
  <2>1. d.boot.content \subseteq Sequenced
    BY <1>2 DEF UpTo
  <2> QED
    BY <1>6, <2>1 DEF DeviceOK, Journal
<1>10. Wire(c, e, q, w) /\ Replay(e, q, w)
  BY <1>6 DEF DeviceOK, Wire, Honest, Online, Replay
<1>11. Capture(e, o, w)
  <2>1. d.capture = "no"
    BY DEF DeviceOK, Capture
  <2> QED
    BY <1>6, <2>1 DEF DeviceOK, Capture
<1> QED
  BY <1>1, <1>6, <1>7, <1>8, <1>9, <1>10, <1>11 DEF DeviceOK

\* A device whose socket is gone.
LEMMA ClosedOK ==
    ASSUME RoomInv, NEW c, NEW d, NEW o, NEW k, NEW q, NEW w, DeviceOK(c, d, o, k, q, w),
           Online(d)
    PROVE  LET e == Closed(d)
           IN  DeviceOK(c, e, o, k, NoSeq, << >>) /\ e.draft = d.draft
<1> DEFINE e == [d EXCEPT !.conn = "off", !.held = {}, !.boot = NoSnapshot, !.capture = "no"]
<1>1. e = Closed(d)
  BY DEF Closed
<1>2. /\ e \in DeviceType /\ e.conn = "off" /\ e.held = {} /\ e.boot = NoSnapshot /\ e.capture = "no"
      /\ e.watermark = d.watermark /\ e.above = d.above /\ e.replica = d.replica
      /\ e.draft = d.draft /\ e.required = d.required
  <2>1. NoSnapshot \in SnapshotType /\ d \in DeviceType
    BY DeviceParts DEF SnapshotType, NoSnapshot, NoSeq
  <2> QED
    BY <2>1 DEF DeviceType
<1> HIDE DEF e
<1>3. Bounds(c, e, o, k) /\ Journal(e, o, k)
  BY <1>2 DEF DeviceOK, Bounds, Journal, Online
<1>4. Marks(e, k)
  BY <1>2 DEF DeviceOK, Marks, Applied, Online
<1>5. Wire(c, e, NoSeq, << >>)
  <2>1. e.boot.seq = -1 /\ e.boot.content = {}
    BY <1>2 DEF NoSnapshot, NoSeq
  <2>2. UpTo(-1) = {}
    BY RoomTypes DEF UpTo
  <2>3. currentSeq \in Nat
    BY RoomTypes
  <2> QED
    BY <1>2, <2>1, <2>2, <2>3 DEF Wire
<1>6. Replay(e, NoSeq, << >>) /\ Capture(e, o, << >>)
  BY <1>2 DEF Replay, Capture
<1> QED
  BY <1>1, <1>2, <1>3, <1>4, <1>5, <1>6 DEF DeviceOK

\* A step of the connection: what the device holds and has captured stays, what
\* it waits for changes.
LEMMA SteeredOK ==
    ASSUME RoomInv, NEW c, NEW d, NEW o, NEW k, NEW q, NEW w, DeviceOK(c, d, o, k, q, w),
           d.conn # "down",
           NEW e \in DeviceType, e.replica = d.replica, e.draft = d.draft, e.capture = d.capture,
           e.watermark = d.watermark, e.above = d.above, Online(e),
           \A r \in e.held : TrueRow(r),
           e.boot.seq <= currentSeq, e.boot.content = UpTo(e.boot.seq),
           e.required <= replayFloor, d.capture # "no" => e.conn = "live",
           NEW p \in Nat \cup {NoSeq}, Replay(e, p, w)
    PROVE  DeviceOK(c, e, o, k, p, w)
<1>1. Bounds(c, e, o, k)
  BY DEF DeviceOK, Bounds
<1>2. Marks(e, k) /\ Journal(e, o, k)
  BY DEF DeviceOK, Marks, Journal, Applied, Online
<1>3. Wire(c, e, p, w)
  BY DEF DeviceOK, Wire, Honest
<1>4. Capture(e, o, w)
  BY DEF DeviceOK, Capture
<1> QED
  BY <1>1, <1>2, <1>3, <1>4 DEF DeviceOK

\* The first message of a socket is so, no row it brings is ahead of a barrier
\* behind it, and there is one answer and one barrier at most.
LEMMA HandledOK ==
    ASSUME RoomInv, NEW c, NEW d, NEW o, NEW k, NEW q, NEW w, DeviceOK(c, d, o, k, q, w),
           w # << >>
    PROVE  LET m == Head(w)
               u == Tail(w)
           IN  /\ DeviceOK(c, d, o, k, q, u) /\ Online(d)
               /\ m \in Message /\ Honest(c, d, m)
               /\ Answers(m) => /\ d.conn = "syncing" /\ q = NoSeq
                                /\ \A i \in 1..Len(u) : ~Answers(u[i])
               /\ \A i \in 1..Len(u) : u[i].type = "barrier_ack" =>
                    /\ m.type # "barrier_ack"
                    /\ \A r \in RowsOf(m) : r.seq <= u[i].seq
               /\ m.type = "barrier_ack" => d.capture = "granted" /\ d.replica \subseteq UpTo(m.seq)
<1> DEFINE m == Head(w)
           u == Tail(w)
<1>1. w \in Seq(Message)
  BY DeviceParts
<1>2. /\ Len(w) \in Nat /\ Len(w) >= 1 /\ m = w[1] /\ u \in Seq(Message) /\ Len(u) = Len(w) - 1
      /\ \A i \in 1..Len(u) : i + 1 \in 1..Len(w) /\ u[i] = w[i + 1] /\ 1 < i + 1
  BY <1>1
<1> HIDE DEF m, u
<1>3. 1 \in 1..Len(w) /\ m \in Message
  BY <1>1, <1>2
<1>4. Honest(c, d, m) /\ Online(d)
  BY <1>2, <1>3 DEF DeviceOK, Wire
<1>5. ASSUME Answers(m)
      PROVE  d.conn = "syncing" /\ q = NoSeq /\ \A i \in 1..Len(u) : ~Answers(u[i])
  <2>1. d.conn = "syncing" /\ q = NoSeq /\ \A j \in 1..Len(w) : Answers(w[j]) => j = 1
    BY <1>2, <1>3, <1>5 DEF DeviceOK, Replay
  <2> QED
    BY <1>2, <2>1
<1>6. ASSUME NEW i \in 1..Len(u), u[i].type = "barrier_ack"
      PROVE  m.type # "barrier_ack" /\ \A r \in RowsOf(m) : r.seq <= u[i].seq
  <2>1. i + 1 \in 1..Len(w) /\ u[i] = w[i + 1] /\ 1 < i + 1
    BY <1>2
  <2>2. \A j \in 1..Len(w) : /\ w[j].type = "barrier_ack" => j = i + 1
                             /\ j < i + 1 => \A r \in RowsOf(w[j]) : r.seq <= w[i + 1].seq
    BY <1>6, <2>1 DEF DeviceOK, Capture
  <2> QED
    BY <1>2, <1>3, <2>1, <2>2
<1>7. m.type = "barrier_ack" => d.capture = "granted" /\ d.replica \subseteq UpTo(m.seq)
  BY <1>2, <1>3 DEF DeviceOK, Capture
<1>8. Wire(c, d, q, u)
  <2>1. \A i \in 1..Len(u) : Honest(c, d, u[i])
    BY <1>2 DEF DeviceOK, Wire
  <2> QED
    BY <1>2, <1>4, <2>1 DEF DeviceOK, Wire
<1>9. Replay(d, q, u)
  <2>1. ASSUME NEW i \in 1..Len(u), Answers(u[i])
        PROVE  /\ d.conn = "syncing" /\ q = NoSeq
               /\ \A j \in 1..Len(u) : Answers(u[j]) => j = i
    <3>1. i + 1 \in 1..Len(w) /\ Answers(w[i + 1])
      BY <1>2, <2>1
    <3>2. /\ d.conn = "syncing" /\ q = NoSeq
          /\ \A j \in 1..Len(w) : Answers(w[j]) => j = i + 1
      BY <3>1 DEF DeviceOK, Replay
    <3>3. ASSUME NEW j \in 1..Len(u), Answers(u[j]) PROVE j = i
      BY <1>2, <3>2, <3>3
    <3> QED
      BY <3>2, <3>3
  <2> QED
    BY <2>1 DEF DeviceOK, Replay
<1>10. Capture(d, o, u)
  <2>1. ASSUME NEW i \in 1..Len(u), u[i].type = "barrier_ack"
        PROVE  /\ d.capture = "granted" /\ d.replica \subseteq UpTo(u[i].seq)
               /\ \A j \in 1..Len(u) :
                    /\ u[j].type = "barrier_ack" => j = i
                    /\ j < i => \A r \in RowsOf(u[j]) : r.seq <= u[i].seq
    <3>1. i + 1 \in 1..Len(w) /\ u[i] = w[i + 1] /\ w[i + 1].type = "barrier_ack"
      BY <1>2, <2>1
    <3>2. /\ d.capture = "granted" /\ d.replica \subseteq UpTo(w[i + 1].seq)
          /\ \A j \in 1..Len(w) :
               /\ w[j].type = "barrier_ack" => j = i + 1
               /\ j < i + 1 => \A r \in RowsOf(w[j]) : r.seq <= w[i + 1].seq
      BY <3>1 DEF DeviceOK, Capture
    <3>3. ASSUME NEW j \in 1..Len(u)
          PROVE  /\ u[j].type = "barrier_ack" => j = i
                 /\ j < i => \A r \in RowsOf(u[j]) : r.seq <= u[i].seq
      <4>1. j + 1 \in 1..Len(w) /\ u[j] = w[j + 1]
        BY <1>2, <3>3
      <4>2. j < i => j + 1 < i + 1
        OBVIOUS
      <4> QED
        BY <3>1, <3>2, <4>1, <4>2
    <3> QED
      BY <3>1, <3>2, <3>3
  <2> QED
    BY <2>1 DEF DeviceOK, Capture
<1>11. DeviceOK(c, d, o, k, q, u)
  BY <1>8, <1>9, <1>10 DEF DeviceOK
<1> QED
  BY <1>3, <1>4, <1>5, <1>6, <1>7, <1>11 DEF m, u

\* The answer to the request in flight.
LEMMA AnsweredOK ==
    ASSUME RoomInv, NEW c, NEW d, NEW o, NEW k, NEW q, NEW w, DeviceOK(c, d, o, k, q, w),
           q # NoSeq, NEW m \in Message, Answers(m), Honest(c, d, m)
    PROVE  DeviceOK(c, d, o, k, NoSeq, Append(w, m)) /\ Online(d)
<1> DEFINE u == Append(w, m)
           n == Len(w)
<1>1. w \in Seq(Message)
  BY DeviceParts
<1>2. /\ u \in Seq(Message) /\ n \in Nat /\ Len(u) = n + 1
      /\ \A i \in 1..Len(u) : (i \in 1..n /\ u[i] = w[i]) \/ (i = n + 1 /\ u[i] = m)
  BY <1>1
<1> HIDE DEF u
<1>3. d.conn = "syncing" /\ \A i \in 1..n : ~Answers(w[i])
  BY DEF DeviceOK, Replay
<1>4. \A i \in 1..n : Honest(c, d, w[i])
  BY DEF DeviceOK, Wire
<1>5. d.capture = "no" /\ \A i \in 1..n : w[i].type # "barrier_ack"
  BY <1>3 DEF DeviceOK, Capture
<1> HIDE DEF n
<1>6. m.type # "barrier_ack"
  BY DEF Answers
<1>7. Wire(c, d, NoSeq, u) /\ Online(d)
  <2>1. \A i \in 1..Len(u) : Honest(c, d, u[i])
    BY <1>2, <1>4
  <2> QED
    BY <1>2, <1>3, <2>1 DEF DeviceOK, Wire, Online
<1>8. Replay(d, NoSeq, u)
  BY <1>2, <1>3 DEF Replay
<1>9. Capture(d, o, u)
  BY <1>2, <1>5, <1>6 DEF Capture
<1> QED
  BY <1>7, <1>8, <1>9 DEF DeviceOK, u

(***************************************************************************)
(* The actions of a device                                                 *)
(***************************************************************************)
\* What the invariant says of one device.
LEMMA OfDevice ==
    ASSUME SyncInv, NEW c \in Member
    PROVE  /\ RoomInv
           /\ DeviceOK(c, dev[c], outbox[c], disk[c], syncReq[c], toClient[c])
           /\ dev \in [Member -> DeviceType] /\ outbox \in [Member -> SUBSET Batch]
           /\ disk \in [Member -> DiskType] /\ syncReq \in [Member -> Nat \cup {NoSeq}]
           /\ toClient \in [Member -> Seq(Message)]
           /\ minted \in SUBSET Batch
           /\ outbox[c] \subseteq minted /\ dev[c].draft \notin minted
           /\ \A m \in submits : Submitted(m)
           /\ (Sequenced \cup Buffered) \subseteq (minted \cup SystemBatch)
  BY DEF SyncInv, Devices, Minting

\* A step that changes neither the journal nor what travels to the room, and under
\* which a running device keeps what it holds.
LEMMA QuietKeepsSync ==
    ASSUME SyncInv, NEW c \in Member,
           NEW d, NEW k, NEW q, NEW w, DeviceOK(c, d, outbox[c], k, q, w),
           dev' = [dev EXCEPT ![c] = d], disk' = [disk EXCEPT ![c] = k],
           syncReq' = [syncReq EXCEPT ![c] = q], toClient' = [toClient EXCEPT ![c] = w],
           UNCHANGED vars, UNCHANGED <<outbox, minted, submits, captured, cloud>>,
           d.draft \notin minted,
           Online(dev[c]) => Online(d) /\ dev[c].replica \subseteq d.replica
    PROVE  SyncInv'
<1>1. outbox' = [outbox EXCEPT ![c] = outbox[c]]
  BY OfDevice
<1>2. \A m \in submits' : \/ m \in submits /\ m.client # c
                          \/ Submitted(m)'
  <2> SUFFICES ASSUME NEW m \in submits, m.client = c PROVE Submitted(m)'
    OBVIOUS
  <2>1. Submitted(m) /\ dev'[c] = d
    BY OfDevice
  <2> QED
    BY <2>1 DEF Submitted
<1>3. \A b \in outbox[c] : b \in outbox[c] \/ b \in Sequenced
  OBVIOUS
<1>4. /\ minted' \in SUBSET Batch /\ minted \subseteq minted'
      /\ \A b \in minted' : b \in minted \/ (b \in outbox[c] /\ Author[b] = c)
      /\ outbox[c] \subseteq minted' /\ d.draft \notin minted'
  BY OfDevice
<1>5. \A cap \in captured' : cap \in captured \/ GoodCapture(cap)
  OBVIOUS
<1>6. cloud' = cloud
  OBVIOUS
<1> QED
  BY <1>1, <1>2, <1>3, <1>4, <1>5, <1>6, DeviceKeepsInv

\* The socket is gone and with it what was on it: submissions the room has read
\* may still complete.
LEMMA GoneKeepsSync ==
    ASSUME SyncInv, NEW c \in Member, NEW completed, SocketGone(c, completed),
           NEW d, DeviceOK(c, d, outbox[c], disk[c], NoSeq, << >>),
           dev' = [dev EXCEPT ![c] = d],
           UNCHANGED vars, UNCHANGED <<outbox, disk, minted, captured, cloud>>,
           d.draft \notin minted
    PROVE  SyncInv'
<1>1. /\ outbox' = [outbox EXCEPT ![c] = outbox[c]] /\ disk' = [disk EXCEPT ![c] = disk[c]]
      /\ syncReq' = [syncReq EXCEPT ![c] = NoSeq] /\ toClient' = [toClient EXCEPT ![c] = << >>]
  BY OfDevice DEF SocketGone
<1>2. \A m \in submits' : \/ m \in submits /\ m.client # c
                          \/ Submitted(m)'
  <2> SUFFICES ASSUME NEW m \in submits', ~(m \in submits /\ m.client # c) PROVE Submitted(m)'
    OBVIOUS
  <2>1. PICK read \in SUBSET {x \in submits \ completed : x.client = c /\ x.attached} :
          submits' = {x \in submits \ completed : ~(x.client = c /\ x.attached)}
                       \cup {[x EXCEPT !.attached = FALSE] : x \in read}
    BY DEF SocketGone
  <2>2. CASE m \in submits /\ ~m.attached
    <3>1. Submitted(m)
      BY <2>2, OfDevice
    <3> QED
      BY <2>2, <3>1 DEF Submitted
  <2>3. CASE \E x \in submits : m = [x EXCEPT !.attached = FALSE]
    <3>1. PICK x \in submits : m = [x EXCEPT !.attached = FALSE]
      BY <2>3
    <3>2. Submitted(x)
      BY OfDevice
    <3>3. m \in SubmitType /\ m.client = x.client /\ m.batch = x.batch /\ ~m.attached
      BY <3>1, <3>2 DEF Submitted, SubmitType
    <3> HIDE <3>1
    <3> QED
      BY <3>2, <3>3 DEF Submitted
  <2> QED
    BY <2>1, <2>2, <2>3
<1>3. \A b \in outbox[c] : b \in outbox[c] \/ b \in Sequenced
  OBVIOUS
<1>4. /\ minted' \in SUBSET Batch /\ minted \subseteq minted'
      /\ \A b \in minted' : b \in minted \/ (b \in outbox[c] /\ Author[b] = c)
      /\ outbox[c] \subseteq minted' /\ d.draft \notin minted'
  BY OfDevice
<1>5. \A cap \in captured' : cap \in captured \/ GoodCapture(cap)
  OBVIOUS
<1>6. cloud' = cloud
  OBVIOUS
<1> QED
  BY <1>1, <1>2, <1>3, <1>4, <1>5, <1>6, DeviceKeepsInv

\* Drops, crashes, restarts.
LEMMA FaultsKeepSync ==
    ASSUME SyncInv, NEW c \in Member, Drop(c) \/ Crash(c) \/ Restart(c)
    PROVE  SyncInv'
<1>1. CASE Drop(c)
  <2> DEFINE d == Closed(dev[c])
  <2>1. /\ Online(dev[c]) /\ SocketGone(c, {}) /\ dev' = [dev EXCEPT ![c] = d]
        /\ UNCHANGED vars /\ UNCHANGED <<outbox, disk, minted, captured, cloud>>
    BY <1>1 DEF Drop, Connected, Online, cloudVars
  <2>2. DeviceOK(c, d, outbox[c], disk[c], NoSeq, << >>) /\ d.draft = dev[c].draft
    BY <2>1, OfDevice, ClosedOK
  <2> HIDE DEF d
  <2>3. d.draft \notin minted
    BY <2>2, OfDevice
  <2> QED
    BY <2>1, <2>2, <2>3, GoneKeepsSync
<1>2. CASE Crash(c)
  <2> DEFINE d == Stopped
  <2>1. /\ SocketGone(c, {}) /\ dev' = [dev EXCEPT ![c] = d]
        /\ UNCHANGED vars /\ UNCHANGED <<outbox, disk, minted, captured, cloud>>
    BY <1>2 DEF Crash, cloudVars
  <2>2. /\ d \in DeviceType /\ d.conn = "down" /\ d.watermark = 0 /\ d.above = {} /\ d.replica = {}
        /\ d.draft = NoBatch /\ d.held = {} /\ d.boot = NoSnapshot /\ d.required = 0
        /\ d.capture = "no" /\ d.boot.seq = -1 /\ d.boot.content = {}
    BY DEF Stopped, DeviceType, SnapshotType, NoSnapshot, NoSeq
  <2> HIDE DEF d
  <2>3. DeviceOK(c, d, outbox[c], disk[c], NoSeq, << >>)
    <3>1. Bounds(c, d, outbox[c], disk[c])
      BY <2>2, OfDevice, RoomTypes DEF DeviceOK, Bounds
    <3>2. Marks(d, disk[c]) /\ Journal(d, outbox[c], disk[c])
      BY <2>2, OfDevice DEF DeviceOK, Marks, Journal
    <3>3. Wire(c, d, NoSeq, << >>)
      <4>1. UpTo(-1) = {} /\ currentSeq \in Nat
        BY OfDevice, RoomTypes DEF UpTo
      <4> QED
        BY <2>2, <4>1 DEF Wire
    <3>4. Replay(d, NoSeq, << >>) /\ Capture(d, outbox[c], << >>)
      BY <2>2 DEF Replay, Capture
    <3> QED
      BY <3>1, <3>2, <3>3, <3>4 DEF DeviceOK
  <2>4. d.draft \notin minted
    BY <2>2, OfDevice, NullsApart
  <2> QED
    BY <2>1, <2>3, <2>4, GoneKeepsSync
<1>3. CASE Restart(c)
  <2> DEFINE d == [Stopped EXCEPT !.conn = "off", !.watermark = disk[c].seq,
                                  !.replica = disk[c].content \cup outbox[c]]
  <2>1. /\ dev[c].conn = "down" /\ dev' = [dev EXCEPT ![c] = d]
        /\ UNCHANGED vars /\ UNCHANGED <<outbox, minted, submits, captured, cloud>>
    BY <1>3 DEF Restart, cloudVars, netVars
  <2>2. /\ disk[c].seq \in Nat /\ disk[c].content \in SUBSET AllBatch
        /\ outbox[c] \in SUBSET Batch /\ disk[c].seq <= currentSeq
    BY OfDevice DEF DiskType, DeviceOK, Bounds
  <2>3. /\ d \in DeviceType /\ d.conn = "off" /\ d.watermark = disk[c].seq /\ d.above = {}
        /\ d.replica = disk[c].content \cup outbox[c]
        /\ d.draft = NoBatch /\ d.held = {} /\ d.boot = NoSnapshot /\ d.required = 0
        /\ d.capture = "no" /\ d.boot.seq = -1 /\ d.boot.content = {}
    BY <2>2 DEF Stopped, DeviceType, SnapshotType, NoSnapshot, NoSeq, AllBatch
  <2> HIDE DEF d
  <2>4. /\ syncReq[c] = NoSeq /\ toClient[c] = << >>
        /\ DeviceOK(c, dev[c], outbox[c], disk[c], syncReq[c], toClient[c])
    BY <2>1, OfDevice DEF DeviceOK, Wire, Online
  <2>5. DeviceOK(c, d, outbox[c], disk[c], syncReq[c], toClient[c])
    <3>1. Bounds(c, d, outbox[c], disk[c])
      BY <2>2, <2>3, <2>4, OfDevice, RoomTypes DEF DeviceOK, Bounds
    <3>2. Marks(d, disk[c]) /\ Journal(d, outbox[c], disk[c])
      BY <2>3, <2>4 DEF DeviceOK, Marks, Journal, Applied
    <3>3. Wire(c, d, NoSeq, << >>)
      <4>1. UpTo(-1) = {} /\ currentSeq \in Nat
        BY OfDevice, RoomTypes DEF UpTo
      <4> QED
        BY <2>3, <4>1 DEF Wire
    <3>4. Replay(d, NoSeq, << >>) /\ Capture(d, outbox[c], << >>)
      BY <2>3 DEF Replay, Capture
    <3> QED
      BY <2>4, <3>1, <3>2, <3>3, <3>4 DEF DeviceOK
  <2>6. d.draft \notin minted
    BY <2>3, OfDevice, NullsApart
  <2>7. /\ disk' = [disk EXCEPT ![c] = disk[c]] /\ syncReq' = [syncReq EXCEPT ![c] = syncReq[c]]
        /\ toClient' = [toClient EXCEPT ![c] = toClient[c]]
    BY <1>3, OfDevice DEF Restart, netVars
  <2>8. Online(dev[c]) => Online(d) /\ dev[c].replica \subseteq d.replica
    BY <2>1 DEF Online
  <2> QED
    BY <2>1, <2>5, <2>6, <2>7, <2>8, QuietKeepsSync
<1> QED
  BY <1>1, <1>2, <1>3

\* Edits, exports and local snapshots.
LEMMA EditKeepsSync ==
    ASSUME SyncInv, NEW c \in Member, NEW b \in Batch, Edit(c, b)
    PROVE  SyncInv'
<1> DEFINE d == [dev[c] EXCEPT !.draft = b, !.replica = dev[c].replica \cup {b}]
<1>1. /\ dev[c].conn # "down" /\ dev[c].capture = "no" /\ dev[c].draft = NoBatch
      /\ Author[b] = c /\ b \notin minted
  BY DEF Edit
<1>2. dev' = [dev EXCEPT ![c] = d]
  BY OfDevice DEF Edit
<1>3. UNCHANGED vars /\ UNCHANGED <<outbox, minted, submits, captured, cloud>>
  BY DEF Edit, netVars, cloudVars
<1>4. /\ disk' = [disk EXCEPT ![c] = disk[c]] /\ syncReq' = [syncReq EXCEPT ![c] = syncReq[c]]
      /\ toClient' = [toClient EXCEPT ![c] = toClient[c]]
  BY OfDevice DEF Edit, netVars
<1>5. /\ d \in DeviceType /\ d.draft = b /\ d.replica = dev[c].replica \cup {b}
      /\ d.conn = dev[c].conn /\ d.watermark = dev[c].watermark /\ d.above = dev[c].above
      /\ d.held = dev[c].held /\ d.boot = dev[c].boot /\ d.required = dev[c].required
      /\ d.capture = dev[c].capture
  BY OfDevice DEF DeviceType, AllBatch
<1> HIDE DEF d
<1>6. DeviceOK(c, dev[c], outbox[c], disk[c], syncReq[c], toClient[c])
  BY OfDevice
<1>7. DeviceOK(c, d, outbox[c], disk[c], syncReq[c], toClient[c])
  <2>1. Bounds(c, d, outbox[c], disk[c])
    BY <1>1, <1>5, <1>6 DEF DeviceOK, Bounds
  <2>2. Marks(d, disk[c])
    BY <1>5, <1>6 DEF DeviceOK, Marks, Applied
  <2>3. Journal(d, outbox[c], disk[c])
    <3>1. NoBatch \notin dev[c].replica
      BY <1>6, DeviceParts, NullsApart DEF AllBatch
    <3> QED
      BY <1>1, <1>5, <1>6, <3>1 DEF DeviceOK, Journal
  <2>4. Wire(c, d, syncReq[c], toClient[c]) /\ Replay(d, syncReq[c], toClient[c])
    BY <1>5, <1>6 DEF DeviceOK, Wire, Honest, Online, Replay
  <2>5. Capture(d, outbox[c], toClient[c])
    BY <1>1, <1>5, <1>6 DEF DeviceOK, Capture
  <2> QED
    BY <2>1, <2>2, <2>3, <2>4, <2>5 DEF DeviceOK
<1>8. /\ d.draft \notin minted
      /\ Online(dev[c]) => Online(d) /\ dev[c].replica \subseteq d.replica
  BY <1>1, <1>5 DEF Online
<1> QED
  BY <1>2, <1>3, <1>4, <1>7, <1>8, QuietKeepsSync

LEMMA ExportKeepsSync ==
    ASSUME SyncInv, NEW c \in Member, Export(c)
    PROVE  SyncInv'
<1> DEFINE b == dev[c].draft
           d == [dev[c] EXCEPT !.draft = NoBatch]
           o == outbox[c] \cup {b}
<1>1. b # NoBatch /\ b \in Batch /\ Author[b] = c /\ b \in dev[c].replica
  BY OfDevice, DeviceParts DEF Export, DeviceOK, Bounds, Journal
<1>2. /\ dev' = [dev EXCEPT ![c] = d] /\ outbox' = [outbox EXCEPT ![c] = o]
      /\ minted' = minted \cup {b}
      /\ submits' = submits \cup (IF dev[c].conn = "live" THEN {Submit(c, b)} ELSE {})
  BY DEF Export, Exported
<1>3. UNCHANGED vars /\ cloud' = cloud /\ captured' = captured
  BY DEF Export, cloudVars
<1>4. /\ disk' = [disk EXCEPT ![c] = disk[c]] /\ syncReq' = [syncReq EXCEPT ![c] = syncReq[c]]
      /\ toClient' = [toClient EXCEPT ![c] = toClient[c]]
  BY OfDevice DEF Export
<1>5. /\ d \in DeviceType /\ d.draft = NoBatch /\ d.replica = dev[c].replica
      /\ d.conn = dev[c].conn /\ d.watermark = dev[c].watermark /\ d.above = dev[c].above
      /\ d.held = dev[c].held /\ d.boot = dev[c].boot /\ d.required = dev[c].required
      /\ d.capture = dev[c].capture
  BY OfDevice DEF DeviceType
<1>6. dev'[c] = d
  BY <1>2, OfDevice
<1> HIDE DEF d, o
<1>7. DeviceOK(c, dev[c], outbox[c], disk[c], syncReq[c], toClient[c])
  BY OfDevice
<1>8. dev[c].conn # "down" /\ dev[c].capture = "no"
  BY <1>1, <1>7 DEF DeviceOK, Journal, Capture
<1>9. DeviceOK(c, d, o, disk[c], syncReq[c], toClient[c])
  <2>1. Bounds(c, d, o, disk[c])
    BY <1>1, <1>5, <1>7 DEF DeviceOK, Bounds, o
  <2>2. Marks(d, disk[c]) /\ Journal(d, o, disk[c])
    BY <1>1, <1>5, <1>7, <1>8 DEF DeviceOK, Marks, Journal, Applied, o
  <2>3. Wire(c, d, syncReq[c], toClient[c]) /\ Replay(d, syncReq[c], toClient[c])
    BY <1>5, <1>7 DEF DeviceOK, Wire, Honest, Online, Replay
  <2>4. Capture(d, o, toClient[c])
    BY <1>5, <1>7, <1>8 DEF DeviceOK, Capture
  <2> QED
    BY <2>1, <2>2, <2>3, <2>4 DEF DeviceOK
<1>10. \A x \in outbox[c] : x \in o \/ x \in Sequenced
  BY DEF o
<1>11. /\ minted' \in SUBSET Batch /\ minted \subseteq minted'
       /\ \A x \in minted' : x \in minted \/ (x \in o /\ Author[x] = c)
       /\ o \subseteq minted' /\ d.draft \notin minted'
  BY <1>1, <1>2, <1>5, OfDevice, NullsApart DEF o
<1>12. \A m \in submits' : \/ m \in submits /\ m.client # c
                           \/ Submitted(m)'
  <2>1. ASSUME NEW m \in submits PROVE Submitted(m)'
    <3>1. Submitted(m) /\ m.client \in Member
      BY OfDevice DEF Submitted, SubmitType
    <3>2. dev'[m.client].conn = dev[m.client].conn /\ dev'[m.client].replica = dev[m.client].replica
      BY <1>2, <1>5, <1>6, <3>1, OfDevice
    <3>3. m.batch \in minted'
      BY <1>11, <3>1 DEF Submitted
    <3> QED
      BY <3>1, <3>2, <3>3 DEF Submitted, Online
  <2>2. ASSUME dev[c].conn = "live", NEW m, m = Submit(c, b) PROVE Submitted(m)'
    <3>1. m \in SubmitType /\ m.batch = b /\ m.client = c
      BY <1>1, <2>2 DEF Submit, SubmitType
    <3>2. b \in minted' /\ Online(dev'[c]) /\ b \in dev'[c].replica
      BY <1>1, <1>2, <1>5, <1>6, <2>2 DEF Online
    <3> QED
      BY <1>1, <3>1, <3>2 DEF Submitted
  <2> QED
    BY <1>2, <2>1, <2>2
<1>13. \A cap \in captured' : cap \in captured \/ GoodCapture(cap)
  BY <1>3
<1> HIDE DEF b
<1> QED
  BY <1>2, <1>3, <1>4, <1>9, <1>10, <1>11, <1>12, <1>13, DeviceKeepsInv

LEMMA PersistKeepsSync ==
    ASSUME SyncInv, NEW c \in Member, PersistSnapshot(c)
    PROVE  SyncInv'
<1> DEFINE k == [seq |-> dev[c].watermark, content |-> dev[c].replica]
<1>1. dev[c].conn # "down" /\ dev[c].draft = NoBatch
  BY DEF PersistSnapshot
<1>2. disk' = [disk EXCEPT ![c] = k]
  BY DEF PersistSnapshot, SavedSnapshot
<1>3. UNCHANGED vars /\ UNCHANGED <<outbox, minted, submits, captured, cloud>>
  BY DEF PersistSnapshot, netVars, cloudVars
<1>4. /\ dev' = [dev EXCEPT ![c] = dev[c]] /\ syncReq' = [syncReq EXCEPT ![c] = syncReq[c]]
      /\ toClient' = [toClient EXCEPT ![c] = toClient[c]]
  BY OfDevice DEF PersistSnapshot, netVars
<1>5. DeviceOK(c, dev[c], outbox[c], disk[c], syncReq[c], toClient[c])
  BY OfDevice
<1>6. k \in DiskType /\ k.seq = dev[c].watermark /\ k.content = dev[c].replica
  BY <1>5, DeviceParts DEF DiskType
<1> HIDE DEF k
<1>7. NoBatch \notin dev[c].replica
  BY <1>5, DeviceParts, NullsApart DEF AllBatch
<1>8. DeviceOK(c, dev[c], outbox[c], k, syncReq[c], toClient[c])
  <2>1. Bounds(c, dev[c], outbox[c], k)
    BY <1>5, <1>6 DEF DeviceOK, Bounds
  <2>2. Marks(dev[c], k)
    BY <1>1, <1>5, <1>6 DEF DeviceOK, Marks, Applied
  <2>3. Journal(dev[c], outbox[c], k)
    BY <1>1, <1>5, <1>6, <1>7 DEF DeviceOK, Journal
  <2> QED
    BY <1>5, <2>1, <2>2, <2>3 DEF DeviceOK
<1>9. /\ dev[c].draft \notin minted
      /\ Online(dev[c]) => Online(dev[c]) /\ dev[c].replica \subseteq dev[c].replica
  BY OfDevice
<1> QED
  BY <1>2, <1>3, <1>4, <1>8, <1>9, QuietKeepsSync

\* Connecting, the snapshot bootstrap and the replay.
LEMMA ConnectKeepsSync ==
    ASSUME SyncInv, NEW c \in Member, Connect(c)
    PROVE  SyncInv'
<1> DEFINE d == [dev[c] EXCEPT !.conn = "boot"]
<1>1. dev[c].conn = "off" /\ dev' = [dev EXCEPT ![c] = d]
  BY DEF Connect
<1>2. UNCHANGED vars /\ UNCHANGED <<outbox, minted, submits, captured, cloud>>
  BY DEF Connect, netVars, cloudVars
<1>3. /\ disk' = [disk EXCEPT ![c] = disk[c]] /\ syncReq' = [syncReq EXCEPT ![c] = syncReq[c]]
      /\ toClient' = [toClient EXCEPT ![c] = toClient[c]]
  BY OfDevice DEF Connect, netVars
<1>4. /\ d \in DeviceType /\ d.conn = "boot" /\ d.draft = dev[c].draft
      /\ d.replica = dev[c].replica /\ d.watermark = dev[c].watermark /\ d.above = dev[c].above
      /\ d.held = dev[c].held /\ d.boot = dev[c].boot /\ d.required = dev[c].required
      /\ d.capture = dev[c].capture
  BY OfDevice DEF DeviceType
<1> HIDE DEF d
<1>5. DeviceOK(c, dev[c], outbox[c], disk[c], syncReq[c], toClient[c]) /\ RoomInv
  BY OfDevice
<1>6. syncReq[c] = NoSeq /\ toClient[c] = << >> /\ dev[c].capture = "no"
  BY <1>1, <1>5 DEF DeviceOK, Wire, Online, Capture
<1>7. DeviceOK(c, d, outbox[c], disk[c], syncReq[c], toClient[c])
  <2>1. Replay(d, syncReq[c], toClient[c]) /\ syncReq[c] \in Nat \cup {NoSeq} /\ Online(d)
    BY <1>4, <1>6 DEF Replay, Online
  <2>2. /\ \A r \in d.held : TrueRow(r)
        /\ d.boot.seq <= currentSeq /\ d.boot.content = UpTo(d.boot.seq)
        /\ d.required <= replayFloor
    BY <1>4, <1>5 DEF DeviceOK, Wire, Bounds
  <2> QED
    BY <1>1, <1>4, <1>5, <1>6, <2>1, <2>2, SteeredOK
<1>8. /\ d.draft \notin minted
      /\ Online(dev[c]) => Online(d) /\ dev[c].replica \subseteq d.replica
  BY <1>4, OfDevice DEF Online
<1> QED
  BY <1>1, <1>2, <1>3, <1>7, <1>8, QuietKeepsSync

LEMMA FetchKeepsSync ==
    ASSUME SyncInv, NEW c \in Member, FetchSnapshot(c)
    PROVE  SyncInv'
<1> DEFINE d == [dev[c] EXCEPT !.conn = "loading", !.boot = cloud]
<1>1. dev[c].conn = "boot" /\ dev' = [dev EXCEPT ![c] = d]
  BY OfDevice DEF FetchSnapshot
<1>2. UNCHANGED vars /\ UNCHANGED <<outbox, minted, submits, captured, cloud>>
  BY DEF FetchSnapshot, netVars, cloudVars
<1>3. /\ disk' = [disk EXCEPT ![c] = disk[c]] /\ syncReq' = [syncReq EXCEPT ![c] = syncReq[c]]
      /\ toClient' = [toClient EXCEPT ![c] = toClient[c]]
  BY OfDevice DEF FetchSnapshot, netVars
<1>4. /\ cloud \in SnapshotType /\ cloud.seq = snapshot /\ cloud.content = UpTo(cloud.seq)
      /\ cloud.seq <= currentSeq
  BY OfDevice, RoomTypes DEF SyncInv, Published
<1>5. /\ d \in DeviceType /\ d.conn = "loading" /\ d.draft = dev[c].draft
      /\ d.replica = dev[c].replica /\ d.watermark = dev[c].watermark /\ d.above = dev[c].above
      /\ d.held = dev[c].held /\ d.boot = cloud /\ d.required = dev[c].required
      /\ d.capture = dev[c].capture
  BY <1>4, OfDevice DEF DeviceType
<1> HIDE DEF d
<1>6. DeviceOK(c, dev[c], outbox[c], disk[c], syncReq[c], toClient[c]) /\ RoomInv
  BY OfDevice
<1>7. DeviceOK(c, d, outbox[c], disk[c], syncReq[c], toClient[c])
  <2>1. Replay(d, syncReq[c], toClient[c]) /\ syncReq[c] \in Nat \cup {NoSeq} /\ Online(d)
    BY <1>1, <1>5, <1>6, DeviceParts DEF DeviceOK, Replay, Online
  <2>2. /\ \A r \in d.held : TrueRow(r)
        /\ d.boot.seq <= currentSeq /\ d.boot.content = UpTo(d.boot.seq)
        /\ d.required <= replayFloor
    BY <1>4, <1>5, <1>6 DEF DeviceOK, Wire, Bounds
  <2>3. dev[c].capture = "no" /\ dev[c].conn # "down"
    BY <1>1, <1>6 DEF DeviceOK, Capture
  <2> QED
    BY <1>5, <1>6, <2>1, <2>2, <2>3, SteeredOK
<1>8. /\ d.draft \notin minted
      /\ Online(dev[c]) => Online(d) /\ dev[c].replica \subseteq d.replica
  BY <1>5, OfDevice DEF Online
<1> QED
  BY <1>1, <1>2, <1>3, <1>7, <1>8, QuietKeepsSync

\* A download that ends: the snapshot is restored if it is ahead, then what was
\* held back is received.
LEMMA LoadKeepsSync ==
    ASSUME SyncInv, NEW c \in Member, LoadSnapshot(c)
    PROVE  SyncInv'
<1> DEFINE d == dev[c]
           ahead == d.boot.seq > d.watermark
           loaded == IF ahead THEN Restored(d) ELSE d
           synced == Received(loaded, d.held)
           stays == IF ahead /\ d.draft # NoBatch THEN d ELSE loaded
           gives == (ahead /\ d.draft # NoBatch) \/ loaded.watermark < d.required
           e == [synced EXCEPT !.conn = "syncing", !.held = {}, !.boot = NoSnapshot]
<1>1. /\ d.conn = "loading"
      /\ gives => dev' = [dev EXCEPT ![c] = Closed(stays)] /\ SocketGone(c, {})
      /\ ~gives => /\ dev' = [dev EXCEPT ![c] = e]
                   /\ syncReq' = [syncReq EXCEPT ![c] = synced.watermark]
                   /\ UNCHANGED <<submits, toClient>>
  BY DEF LoadSnapshot
<1>2. UNCHANGED vars /\ UNCHANGED <<outbox, disk, minted, captured, cloud>>
  BY DEF LoadSnapshot, cloudVars
<1>3. DeviceOK(c, d, outbox[c], disk[c], syncReq[c], toClient[c]) /\ RoomInv /\ d.draft \notin minted
  BY OfDevice
<1> HIDE DEF gives
<1>4. /\ DeviceOK(c, loaded, outbox[c], disk[c], syncReq[c], toClient[c])
      /\ loaded.conn = d.conn /\ loaded.draft = d.draft /\ loaded.held = d.held
      /\ d.replica \subseteq loaded.replica
  <2>1. CASE ahead
    BY <1>1, <1>3, <2>1, RestoredOK
  <2>2. CASE ~ahead
    BY <1>3, <2>2
  <2> QED
    BY <2>1, <2>2
<1> HIDE DEF loaded, d
<1>5. CASE gives
  <2>1. /\ DeviceOK(c, stays, outbox[c], disk[c], syncReq[c], toClient[c]) /\ Online(stays)
        /\ stays.draft \notin minted
    BY <1>1, <1>3, <1>4 DEF Online
  <2> HIDE DEF stays
  <2> DEFINE f == Closed(stays)
  <2>2. DeviceOK(c, f, outbox[c], disk[c], NoSeq, << >>) /\ f.draft = stays.draft
    BY <1>3, <2>1, ClosedOK
  <2>3. dev' = [dev EXCEPT ![c] = f] /\ SocketGone(c, {})
    BY <1>1, <1>5
  <2> HIDE DEF f
  <2>4. f.draft \notin minted
    BY <2>1, <2>2
  <2> QED
    BY <1>2, <2>2, <2>3, <2>4, GoneKeepsSync
<1>6. CASE ~gives
  <2>1. /\ d.held \in SUBSET RowType /\ \A r \in d.held : TrueRow(r)
        /\ \A i \in 1..Len(toClient[c]) : toClient[c][i].type # "barrier_ack"
        /\ d.capture = "no" /\ syncReq[c] = NoSeq
        /\ \A i \in 1..Len(toClient[c]) : ~Answers(toClient[c][i])
    BY <1>1, <1>3, DeviceParts DEF DeviceOK, Wire, Capture, Replay
  <2>2. /\ DeviceOK(c, synced, outbox[c], disk[c], syncReq[c], toClient[c])
        /\ loaded.replica \subseteq synced.replica
        /\ synced.conn = loaded.conn /\ synced.draft = loaded.draft
    BY <1>1, <1>3, <1>4, <2>1, ReceivedOK
  <2> HIDE DEF synced
  <2>3. /\ e \in DeviceType /\ e.conn = "syncing" /\ e.held = {} /\ e.boot = NoSnapshot
        /\ e.replica = synced.replica /\ e.draft = synced.draft /\ e.capture = synced.capture
        /\ e.watermark = synced.watermark /\ e.above = synced.above /\ e.required = synced.required
    <3>1. synced \in DeviceType /\ NoSnapshot \in SnapshotType
      BY <2>2, DeviceParts DEF SnapshotType, NoSnapshot, NoSeq
    <3> QED
      BY <3>1 DEF DeviceType
  <2>4. synced.watermark \in Nat \cup {NoSeq} /\ synced.required <= replayFloor
    BY <2>2, DeviceParts DEF DeviceOK, Bounds
  <2>5. e.boot.seq <= currentSeq /\ e.boot.content = UpTo(e.boot.seq)
    <3>1. UpTo(-1) = {} /\ currentSeq \in Nat
      BY <1>3, RoomTypes DEF UpTo
    <3> QED
      BY <2>3, <3>1 DEF NoSnapshot, NoSeq
  <2>6. dev' = [dev EXCEPT ![c] = e]
    BY <1>1, <1>6
  <2> HIDE DEF e
  <2> DEFINE p == synced.watermark
  <2>7. syncReq' = [syncReq EXCEPT ![c] = p]
    BY <1>1, <1>6
  <2>8. DeviceOK(c, e, outbox[c], disk[c], p, toClient[c])
    <3>1. Replay(e, p, toClient[c]) /\ Online(e) /\ \A r \in e.held : TrueRow(r)
      BY <2>1, <2>3 DEF Replay, Online
    <3>2. synced.conn # "down" /\ (synced.capture # "no" => e.conn = "live")
      BY <1>1, <1>4, <2>2 DEF DeviceOK, Capture
    <3> HIDE DEF p
    <3>3. p \in Nat \cup {NoSeq} /\ e.required <= replayFloor
      BY <2>3, <2>4 DEF p
    <3> QED
      BY <1>3, <2>2, <2>3, <2>5, <3>1, <3>2, <3>3, SteeredOK
  <2> HIDE DEF p
  <2>9. /\ disk' = [disk EXCEPT ![c] = disk[c]]
        /\ toClient' = [toClient EXCEPT ![c] = toClient[c]]
        /\ UNCHANGED <<outbox, minted, submits, captured, cloud>>
    BY <1>1, <1>2, <1>6, OfDevice
  <2>10. /\ e.draft \notin minted
         /\ Online(dev[c]) => Online(e) /\ dev[c].replica \subseteq e.replica
    BY <1>3, <1>4, <2>2, <2>3 DEF d, Online
  <2> QED
    BY <1>2, <2>6, <2>7, <2>8, <2>9, <2>10, QuietKeepsSync
<1> QED
  BY <1>5, <1>6

\* A set of sequences that is not empty has a last one.
LEMMA LastOf ==
    ASSUME NEW h \in Nat, NEW S \in SUBSET (1..h), S # {}
    PROVE  \E s \in S : \A t \in S : t <= s
<1> DEFINE D == {h - s : s \in S}
<1>1. D \in SUBSET Nat /\ D # {}
  <2>1. \A s \in S : h - s \in Nat
    OBVIOUS
  <2> QED
    BY <2>1
<1>2. PICK n \in D : \A u \in D : ~(<<u, n>> \in OpToRel(<, Nat))
  BY <1>1, WFMin, NatLessThanWellFounded
<1>3. PICK s \in S : n = h - s
  OBVIOUS
<1>4. ASSUME NEW t \in S PROVE t <= s
  <2>1. h - t \in D /\ h - t \in Nat /\ n \in Nat
    BY <1>1
  <2>2. ~(h - t < n)
    BY <1>2, <2>1 DEF OpToRel
  <2> QED
    BY <1>3, <2>2
<1> QED
  BY <1>4

LEMMA AnswerKeepsSync ==
    ASSUME SyncInv, NEW c \in Member, AnswerSync(c)
    PROVE  SyncInv'
<1> DEFINE from == syncReq[c]
           page == {s \in DOMAIN log : s > from /\
                      Cardinality({t \in DOMAIN log : t > from /\ t < s}) < ReplayPage}
           to == IF page = {} THEN from ELSE CHOOSE s \in page : \A t \in page : t <= s
           rows == {Row(s, log[s]) : s \in page}
           way == [type |-> "snapshot_required", floor |-> replayFloor]
           delta == [type |-> "sync_delta", to |-> to, head |-> currentSeq, rows |-> rows]
           m == IF from < replayFloor THEN way ELSE delta
           q == NoSeq
           w == Append(toClient[c], m)
<1>1. /\ from # NoSeq /\ syncReq' = [syncReq EXCEPT ![c] = q]
      /\ toClient' = [toClient EXCEPT ![c] = w]
  BY OfDevice DEF AnswerSync, Send
<1>2. /\ dev' = [dev EXCEPT ![c] = dev[c]] /\ disk' = [disk EXCEPT ![c] = disk[c]]
      /\ UNCHANGED vars /\ UNCHANGED <<outbox, minted, submits, captured, cloud>>
  BY OfDevice DEF AnswerSync, deviceVars, cloudVars
<1>3. DeviceOK(c, dev[c], outbox[c], disk[c], syncReq[c], toClient[c]) /\ RoomInv
  BY OfDevice
<1>4. from \in Nat /\ currentSeq \in Nat /\ replayFloor \in Nat
  BY <1>1, <1>3, DeviceParts, RoomTypes
<1>5. page \in SUBSET (1..currentSeq) /\ page \subseteq DOMAIN log
  BY <1>3, RoomTypes
<1> HIDE DEF page
<1>6. to \in Nat
  <2>1. CASE page = {}
    BY <1>4, <2>1
  <2>2. CASE page # {}
    <3>1. \E s \in page : \A t \in page : t <= s
      BY <1>4, <1>5, <2>2, LastOf
    <3>2. to \in page
      BY <2>2, <3>1
    <3> HIDE DEF to
    <3> QED
      BY <1>4, <1>5, <3>2
  <2> QED
    BY <2>1, <2>2
<1> HIDE DEF to
<1>7. \A r \in rows : r \in RowType /\ TrueRow(r)
  <2>1. ASSUME NEW s \in page PROVE Row(s, log[s]) \in RowType /\ TrueRow(Row(s, log[s]))
    <3>1. s \in Nat /\ log[s] \in Sequenced /\ receipts[log[s]] = s
      BY <1>3, <1>4, <1>5, RoomTypes
    <3> QED
      BY <3>1 DEF Row, RowType, TrueRow, Sequenced
  <2> QED
    BY <2>1
<1> HIDE DEF rows
<1>8. m \in Message /\ Answers(m) /\ Honest(c, dev[c], m)
  <2>1. /\ way \in Message /\ way.type = "snapshot_required" /\ way.floor <= replayFloor
        /\ delta \in Message /\ delta.type = "sync_delta" /\ delta.rows = rows
    BY <1>4, <1>6, <1>7 DEF Message
  <2> HIDE DEF way, delta
  <2> QED
    BY <1>7, <2>1 DEF Answers, Honest, RowsOf
<1> HIDE DEF m
<1>9. DeviceOK(c, dev[c], outbox[c], disk[c], q, w)
  BY <1>1, <1>3, <1>8, AnsweredOK
<1> HIDE DEF w, q
<1>10. /\ dev[c].draft \notin minted
       /\ Online(dev[c]) => Online(dev[c]) /\ dev[c].replica \subseteq dev[c].replica
  BY OfDevice
<1> QED
  BY <1>1, <1>2, <1>9, <1>10, QuietKeepsSync

(***************************************************************************)
(* The messages of a socket                                                *)
(***************************************************************************)
\* Taking the first message off the socket.
LEMMA TakingOne ==
    ASSUME SyncInv, NEW c \in Member, NEW type, Incoming(c, type)
    PROVE  LET m == Head(toClient[c])
               w == Tail(toClient[c])
           IN  /\ toClient' = [toClient EXCEPT ![c] = w]
               /\ DeviceOK(c, dev[c], outbox[c], disk[c], syncReq[c], w) /\ Online(dev[c])
               /\ m \in Message /\ m.type = type /\ Honest(c, dev[c], m)
               /\ Answers(m) => /\ dev[c].conn = "syncing" /\ syncReq[c] = NoSeq
                                /\ \A i \in 1..Len(w) : ~Answers(w[i])
               /\ \A i \in 1..Len(w) : w[i].type = "barrier_ack" =>
                    /\ m.type # "barrier_ack"
                    /\ \A r \in RowsOf(m) : r.seq <= w[i].seq
               /\ m.type = "barrier_ack" =>
                    dev[c].capture = "granted" /\ dev[c].replica \subseteq UpTo(m.seq)
<1>1. /\ toClient' = [toClient EXCEPT ![c] = Tail(toClient[c])]
      /\ toClient[c] # << >> /\ Head(toClient[c]).type = type
  BY DEF Incoming
<1>2. RoomInv /\ DeviceOK(c, dev[c], outbox[c], disk[c], syncReq[c], toClient[c])
  BY OfDevice
<1> QED
  BY <1>1, <1>2, HandledOK

LEMMA SnapshotRequiredKeepsSync ==
    ASSUME SyncInv, NEW c \in Member, HandleSnapshotRequired(c)
    PROVE  SyncInv'
<1> DEFINE m == Head(toClient[c])
           w == Tail(toClient[c])
           floor == IF dev[c].required < m.floor THEN m.floor ELSE dev[c].required
           d == [dev[c] EXCEPT !.required = floor, !.conn = "boot"]
<1>1. /\ toClient' = [toClient EXCEPT ![c] = w] /\ m \in Message /\ m.type = "snapshot_required"
      /\ DeviceOK(c, dev[c], outbox[c], disk[c], syncReq[c], w) /\ Honest(c, dev[c], m)
      /\ dev[c].conn = "syncing" /\ syncReq[c] = NoSeq /\ \A i \in 1..Len(w) : ~Answers(w[i])
  BY TakingOne DEF HandleSnapshotRequired, Answers
<1>2. dev' = [dev EXCEPT ![c] = d]
  BY <1>1, OfDevice DEF HandleSnapshotRequired, Restoring
<1>3. UNCHANGED vars /\ UNCHANGED <<outbox, minted, submits, captured, cloud>>
  BY DEF HandleSnapshotRequired, cloudVars
<1>4. disk' = [disk EXCEPT ![c] = disk[c]] /\ syncReq' = [syncReq EXCEPT ![c] = syncReq[c]]
  BY OfDevice DEF HandleSnapshotRequired
<1>5. floor \in Nat /\ floor <= replayFloor
  <2>1. m.floor \in Nat /\ m.floor <= replayFloor
    BY <1>1 DEF Honest, Message
  <2>2. dev[c].required \in Nat /\ dev[c].required <= replayFloor
    BY <1>1, DeviceParts DEF DeviceOK, Bounds
  <2> QED
    BY <2>1, <2>2
<1> HIDE DEF floor, m, w
<1>6. /\ d \in DeviceType /\ d.conn = "boot" /\ d.required = floor /\ d.draft = dev[c].draft
      /\ d.replica = dev[c].replica /\ d.watermark = dev[c].watermark /\ d.above = dev[c].above
      /\ d.held = dev[c].held /\ d.boot = dev[c].boot /\ d.capture = dev[c].capture
  BY <1>5, OfDevice DEF DeviceType
<1> HIDE DEF d
<1>7. DeviceOK(c, d, outbox[c], disk[c], syncReq[c], w)
  <2>1. Replay(d, syncReq[c], w) /\ syncReq[c] \in Nat \cup {NoSeq} /\ Online(d)
    BY <1>1, <1>6 DEF Replay, Online
  <2>2. /\ \A r \in d.held : TrueRow(r)
        /\ d.boot.seq <= currentSeq /\ d.boot.content = UpTo(d.boot.seq)
        /\ d.required <= replayFloor
    BY <1>1, <1>5, <1>6 DEF DeviceOK, Wire
  <2>3. dev[c].capture = "no" /\ dev[c].conn # "down"
    BY <1>1 DEF DeviceOK, Capture
  <2> QED
    BY <1>1, <1>6, <2>1, <2>2, <2>3, OfDevice, SteeredOK
<1>8. /\ d.draft \notin minted
      /\ Online(dev[c]) => Online(d) /\ dev[c].replica \subseteq d.replica
  BY <1>6, OfDevice DEF Online
<1> QED
  BY <1>1, <1>2, <1>3, <1>4, <1>7, <1>8, QuietKeepsSync

LEMMA SessionBatchKeepsSync ==
    ASSUME SyncInv, NEW c \in Member, HandleSessionBatch(c)
    PROVE  SyncInv'
<1> DEFINE m == Head(toClient[c])
           w == Tail(toClient[c])
           rows == m.rows
           hold == HeldBack(dev[c], rows)
           got == Received(dev[c], rows)
           d == IF Restoring(c) THEN hold ELSE got
<1>1. /\ toClient' = [toClient EXCEPT ![c] = w] /\ m \in Message /\ m.type = "session_batch"
      /\ DeviceOK(c, dev[c], outbox[c], disk[c], syncReq[c], w) /\ Honest(c, dev[c], m)
      /\ \A i \in 1..Len(w) : w[i].type = "barrier_ack" => \A r \in RowsOf(m) : r.seq <= w[i].seq
      /\ Online(dev[c])
  BY TakingOne DEF HandleSessionBatch
<1>2. dev' = [dev EXCEPT ![c] = d]
  BY DEF HandleSessionBatch
<1>3. UNCHANGED vars /\ UNCHANGED <<outbox, minted, submits, captured, cloud>>
  BY DEF HandleSessionBatch, cloudVars
<1>4. disk' = [disk EXCEPT ![c] = disk[c]] /\ syncReq' = [syncReq EXCEPT ![c] = syncReq[c]]
  BY OfDevice DEF HandleSessionBatch
<1>5. /\ rows \in SUBSET RowType /\ \A r \in rows : TrueRow(r)
      /\ \A i \in 1..Len(w) : w[i].type = "barrier_ack" => \A r \in rows : r.seq <= w[i].seq
  BY <1>1 DEF Message, Honest, RowsOf
<1> HIDE DEF rows, m, w
<1>6. RoomInv /\ dev[c] \in DeviceType
  BY OfDevice
<1>7. /\ DeviceOK(c, d, outbox[c], disk[c], syncReq[c], w)
      /\ d.conn = dev[c].conn /\ d.draft = dev[c].draft /\ dev[c].replica \subseteq d.replica
  <2>1. CASE Restoring(c)
    <3>1. /\ hold \in DeviceType /\ hold.held = dev[c].held \cup rows
          /\ hold.conn = dev[c].conn /\ hold.replica = dev[c].replica
          /\ hold.draft = dev[c].draft /\ hold.capture = dev[c].capture
          /\ hold.watermark = dev[c].watermark /\ hold.above = dev[c].above
          /\ hold.boot = dev[c].boot /\ hold.required = dev[c].required
      BY <1>5, <1>6 DEF DeviceType, HeldBack
    <3> HIDE DEF hold
    <3>2. /\ Replay(hold, syncReq[c], w) /\ syncReq[c] \in Nat \cup {NoSeq} /\ Online(hold)
          /\ dev[c].conn # "down" /\ (dev[c].capture # "no" => hold.conn = "live")
      BY <1>1, <3>1, DeviceParts DEF DeviceOK, Replay, Online, Capture
    <3>3. /\ \A r \in hold.held : TrueRow(r)
          /\ hold.boot.seq <= currentSeq /\ hold.boot.content = UpTo(hold.boot.seq)
          /\ hold.required <= replayFloor
      BY <1>1, <1>5, <3>1 DEF DeviceOK, Wire, Bounds
    <3>4. DeviceOK(c, hold, outbox[c], disk[c], syncReq[c], w)
      BY <1>1, <1>6, <3>1, <3>2, <3>3, SteeredOK
    <3> QED
      BY <2>1, <3>1, <3>4
  <2>2. CASE ~Restoring(c)
    <3>1. dev[c].conn # "down"
      BY <1>1 DEF Online
    <3>2. /\ DeviceOK(c, got, outbox[c], disk[c], syncReq[c], w)
          /\ got.conn = dev[c].conn /\ got.draft = dev[c].draft /\ dev[c].replica \subseteq got.replica
      BY <1>1, <1>5, <1>6, <3>1, ReceivedOK
    <3> QED
      BY <2>2, <3>2
  <2> QED
    BY <2>1, <2>2
<1> HIDE DEF d
<1>8. /\ d.draft \notin minted
      /\ Online(dev[c]) => Online(d) /\ dev[c].replica \subseteq d.replica
  BY <1>7, OfDevice DEF Online
<1> QED
  BY <1>1, <1>2, <1>3, <1>4, <1>7, <1>8, QuietKeepsSync

LEMMA SyncDeltaKeepsSync ==
    ASSUME SyncInv, NEW c \in Member, HandleSyncDelta(c)
    PROVE  SyncInv'
<1> DEFINE m == Head(toClient[c])
           w == Tail(toClient[c])
           d == Received(dev[c], m.rows)
           more == m.rows # {} /\ m.to < m.head
           live == [d EXCEPT !.conn = "live"]
<1>1. /\ toClient' = [toClient EXCEPT ![c] = w] /\ m \in Message /\ m.type = "sync_delta"
      /\ DeviceOK(c, dev[c], outbox[c], disk[c], syncReq[c], w) /\ Honest(c, dev[c], m)
      /\ \A i \in 1..Len(w) : w[i].type = "barrier_ack" => \A r \in RowsOf(m) : r.seq <= w[i].seq
      /\ dev[c].conn = "syncing" /\ syncReq[c] = NoSeq /\ \A i \in 1..Len(w) : ~Answers(w[i])
  BY TakingOne DEF HandleSyncDelta, Answers
<1>2. /\ more => /\ dev' = [dev EXCEPT ![c] = d] /\ syncReq' = [syncReq EXCEPT ![c] = m.to]
                 /\ UNCHANGED submits
      /\ ~more => /\ dev' = [dev EXCEPT ![c] = live]
                  /\ submits' = submits \cup {Submit(c, b) : b \in outbox[c]}
                  /\ UNCHANGED syncReq
  BY DEF HandleSyncDelta
<1>3. UNCHANGED vars /\ UNCHANGED <<outbox, minted, captured, cloud>>
  BY DEF HandleSyncDelta, cloudVars
<1>4. disk' = [disk EXCEPT ![c] = disk[c]]
  BY OfDevice DEF HandleSyncDelta
<1>5. /\ m.rows \in SUBSET RowType /\ m.to \in Nat /\ \A r \in m.rows : TrueRow(r)
      /\ \A i \in 1..Len(w) : w[i].type = "barrier_ack" => \A r \in m.rows : r.seq <= w[i].seq
  BY <1>1 DEF Message, Honest, RowsOf
<1> HIDE DEF m, w, more
<1>6. RoomInv /\ dev[c].conn # "down"
  BY <1>1, OfDevice
<1>7. /\ DeviceOK(c, d, outbox[c], disk[c], syncReq[c], w)
      /\ d.conn = dev[c].conn /\ d.draft = dev[c].draft /\ dev[c].replica \subseteq d.replica
      /\ d.held = dev[c].held
  BY <1>1, <1>5, <1>6, ReceivedOK
<1> HIDE DEF d
<1>8. /\ d \in DeviceType /\ d.boot.seq <= currentSeq /\ d.boot.content = UpTo(d.boot.seq)
      /\ d.required <= replayFloor /\ d.capture = "no" /\ \A r \in d.held : TrueRow(r)
  BY <1>1, <1>7, DeviceParts DEF DeviceOK, Wire, Bounds, Capture
<1>9. CASE more
  <2> DEFINE p == m.to
  <2>1. p \in Nat \cup {NoSeq}
    BY <1>5
  <2>2. syncReq' = [syncReq EXCEPT ![c] = p]
    BY <1>2, <1>9
  <2> HIDE DEF p
  <2>3. Replay(d, p, w) /\ Online(d)
    BY <1>1, <1>7 DEF Replay, Online
  <2>4. DeviceOK(c, d, outbox[c], disk[c], p, w)
    BY <1>6, <1>7, <1>8, <2>1, <2>3, SteeredOK DEF Online
  <2>5. dev' = [dev EXCEPT ![c] = d] /\ UNCHANGED <<outbox, minted, submits, captured, cloud>>
    BY <1>2, <1>3, <1>9
  <2>6. /\ d.draft \notin minted
        /\ Online(dev[c]) => Online(d) /\ dev[c].replica \subseteq d.replica
    BY <1>7, OfDevice DEF Online
  <2> QED
    BY <1>1, <1>3, <1>4, <2>2, <2>4, <2>5, <2>6, QuietKeepsSync
<1>10. CASE ~more
  <2>1. /\ live \in DeviceType /\ live.conn = "live" /\ live.held = d.held /\ live.boot = d.boot
        /\ live.replica = d.replica /\ live.draft = d.draft /\ live.capture = d.capture
        /\ live.watermark = d.watermark /\ live.above = d.above /\ live.required = d.required
    BY <1>8 DEF DeviceType
  <2>2. dev' = [dev EXCEPT ![c] = live]
    BY <1>2, <1>10
  <2> HIDE DEF live
  <2>3. Replay(live, syncReq[c], w) /\ Online(live) /\ syncReq[c] \in Nat \cup {NoSeq}
    BY <1>1, <2>1 DEF Replay, Online
  <2>4. d.conn # "down"
    BY <1>6, <1>7
  <2>5. DeviceOK(c, live, outbox[c], disk[c], syncReq[c], w)
    BY <1>6, <1>7, <1>8, <2>1, <2>3, <2>4, SteeredOK
  <2>6. /\ syncReq' = [syncReq EXCEPT ![c] = syncReq[c]]
        /\ outbox' = [outbox EXCEPT ![c] = outbox[c]]
        /\ submits' = submits \cup {Submit(c, b) : b \in outbox[c]}
    BY <1>2, <1>3, <1>10, OfDevice
  <2>7. \A b \in outbox[c] : b \in outbox[c] \/ b \in Sequenced
    OBVIOUS
  <2>8. /\ minted' \in SUBSET Batch /\ minted \subseteq minted'
        /\ \A b \in minted' : b \in minted \/ (b \in outbox[c] /\ Author[b] = c)
        /\ outbox[c] \subseteq minted' /\ live.draft \notin minted'
    BY <1>3, <1>7, <2>1, OfDevice
  <2>9. dev'[c] = live /\ minted' = minted
    BY <1>3, <2>2, OfDevice
  <2>10. \A x \in submits' : \/ x \in submits /\ x.client # c
                             \/ Submitted(x)'
    <3>1. ASSUME NEW x \in submits, x.client = c PROVE Submitted(x)'
      <4>1. Submitted(x)
        BY <3>1, OfDevice
      <4> QED
        BY <1>7, <2>1, <2>3, <2>9, <3>1, <4>1 DEF Submitted
    <3>2. ASSUME NEW b \in outbox[c], NEW x, x = Submit(c, b) PROVE Submitted(x)'
      <4>1. b \in Batch /\ Author[b] = c /\ b \in minted /\ b \in dev[c].replica
        BY <1>1, <1>6, OfDevice DEF DeviceOK, Bounds, Journal
      <4>2. x \in SubmitType /\ x.batch = b /\ x.client = c
        BY <3>2, <4>1 DEF Submit, SubmitType
      <4> HIDE <3>2
      <4> QED
        BY <1>7, <2>1, <2>3, <2>9, <4>1, <4>2 DEF Submitted
    <3> QED
      BY <2>6, <3>1, <3>2
  <2>11. \A cap \in captured' : cap \in captured \/ GoodCapture(cap)
    BY <1>3
  <2>12. cloud' = cloud
    BY <1>3
  <2> QED
    BY <1>1, <1>3, <1>4, <2>2, <2>5, <2>6, <2>7, <2>8, <2>10, <2>11, <2>12, DeviceKeepsInv
<1> QED
  BY <1>9, <1>10

LEMMA BatchAckKeepsSync ==
    ASSUME SyncInv, NEW c \in Member, HandleBatchAck(c)
    PROVE  SyncInv'
<1> DEFINE m == Head(toClient[c])
           w == Tail(toClient[c])
           d == Marked(dev[c], {m.seq})
           o == outbox[c] \ {m.batch}
<1>1. /\ toClient' = [toClient EXCEPT ![c] = w] /\ m \in Message /\ m.type = "batch_ack"
      /\ DeviceOK(c, dev[c], outbox[c], disk[c], syncReq[c], w) /\ Honest(c, dev[c], m)
      /\ Online(dev[c])
  BY TakingOne DEF HandleBatchAck
<1>2. /\ dev' = [dev EXCEPT ![c] = d] /\ outbox' = [outbox EXCEPT ![c] = o]
      /\ UNCHANGED vars /\ UNCHANGED <<minted, submits, captured, cloud>>
  BY DEF HandleBatchAck, cloudVars
<1>3. disk' = [disk EXCEPT ![c] = disk[c]] /\ syncReq' = [syncReq EXCEPT ![c] = syncReq[c]]
  BY OfDevice DEF HandleBatchAck
<1>4. m.batch \in Sequenced /\ m.batch \in dev[c].replica /\ receipts[m.batch] = m.seq
  BY <1>1 DEF Honest
<1>5. DeviceOK(c, d, o, disk[c], syncReq[c], w) /\ SameButMarks(d, dev[c])
  BY <1>1, <1>4, OfDevice, AcknowledgedOK
<1>6. \A b \in outbox[c] : b \in o \/ b \in Sequenced
  BY <1>4
<1> HIDE DEF d, w, m
<1>7. /\ minted' \in SUBSET Batch /\ minted \subseteq minted'
      /\ \A b \in minted' : b \in minted \/ (b \in o /\ Author[b] = c)
      /\ o \subseteq minted' /\ d.draft \notin minted'
  BY <1>2, <1>5, OfDevice DEF SameButMarks
<1> HIDE DEF o
<1>8. \A x \in submits' : \/ x \in submits /\ x.client # c
                          \/ Submitted(x)'
  <2> SUFFICES ASSUME NEW x \in submits, x.client = c PROVE Submitted(x)'
    BY <1>2
  <2>1. Submitted(x) /\ dev'[c] = d /\ minted' = minted
    BY <1>2, OfDevice
  <2>2. d.conn = dev[c].conn /\ d.replica = dev[c].replica
    BY <1>5 DEF SameButMarks
  <2> QED
    BY <2>1, <2>2 DEF Submitted, Online
<1>9. /\ \A cap \in captured' : cap \in captured \/ GoodCapture(cap)
      /\ cloud' = cloud
  BY <1>2
<1> QED
  BY <1>1, <1>2, <1>3, <1>5, <1>6, <1>7, <1>8, <1>9, DeviceKeepsInv

LEMMA BarrierAckKeepsSync ==
    ASSUME SyncInv, NEW c \in Member, HandleBarrierAck(c)
    PROVE  SyncInv'
<1> DEFINE m == Head(toClient[c])
           w == Tail(toClient[c])
           d == [dev[c] EXCEPT !.capture = "no"]
           bar == BarrierOf(c, m.seq)
           shot == [bar |-> bar, content |-> dev[c].replica]
<1>1. /\ toClient' = [toClient EXCEPT ![c] = w] /\ m \in Message /\ m.type = "barrier_ack"
      /\ DeviceOK(c, dev[c], outbox[c], disk[c], syncReq[c], w) /\ Honest(c, dev[c], m)
      /\ Online(dev[c]) /\ dev[c].replica \subseteq UpTo(m.seq)
      /\ \A i \in 1..Len(w) : w[i].type # "barrier_ack"
  BY TakingOne DEF HandleBarrierAck
<1>2. /\ dev' = [dev EXCEPT ![c] = d]
      /\ UNCHANGED vars /\ UNCHANGED <<outbox, minted, submits, cloud>>
  BY DEF HandleBarrierAck
<1>3. \A cap \in captured' : \/ cap \in captured
                             \/ dev[c].watermark = m.seq /\ cap = shot
  BY DEF HandleBarrierAck, BarrierOf
<1>4. /\ disk' = [disk EXCEPT ![c] = disk[c]] /\ syncReq' = [syncReq EXCEPT ![c] = syncReq[c]]
      /\ outbox' = [outbox EXCEPT ![c] = outbox[c]]
  BY <1>2, OfDevice DEF HandleBarrierAck
<1>5. /\ bar \in barriers /\ bar \in Barrier /\ bar.client = c /\ bar.generation = 0
      /\ bar.seq = m.seq
  BY <1>1, OfDevice, RoomTypes DEF Honest, BarrierOf
<1> HIDE DEF bar, m, w
<1>6. dev[c].watermark = m.seq => dev[c].replica = UpTo(m.seq)
  BY <1>1 DEF DeviceOK, Marks, Applied, Online, UpTo
<1>7. shot.bar = bar /\ shot.content = dev[c].replica /\ shot \in [bar: Barrier, content: SUBSET AllBatch]
  BY <1>1, <1>5, DeviceParts
<1> HIDE DEF shot
<1>8. \A cap \in captured' : cap \in captured \/ GoodCapture(cap)
  BY <1>3, <1>5, <1>6, <1>7, MembersAreClients DEF GoodCapture
<1>9. /\ d \in DeviceType /\ d.capture = "no"
      /\ d.conn = dev[c].conn /\ d.watermark = dev[c].watermark /\ d.above = dev[c].above
      /\ d.replica = dev[c].replica /\ d.draft = dev[c].draft
      /\ d.held = dev[c].held /\ d.boot = dev[c].boot /\ d.required = dev[c].required
  BY OfDevice DEF DeviceType
<1> HIDE DEF d
<1>10. DeviceOK(c, d, outbox[c], disk[c], syncReq[c], w)
  <2>1. Bounds(c, d, outbox[c], disk[c]) /\ Marks(d, disk[c]) /\ Journal(d, outbox[c], disk[c])
    BY <1>1, <1>9 DEF DeviceOK, Bounds, Marks, Journal, Applied
  <2>2. Wire(c, d, syncReq[c], w) /\ Replay(d, syncReq[c], w)
    BY <1>1, <1>9 DEF DeviceOK, Wire, Honest, Online, Replay
  <2>3. Capture(d, outbox[c], w)
    BY <1>1, <1>9 DEF Capture
  <2> QED
    BY <2>1, <2>2, <2>3 DEF DeviceOK
<1>11. \A b \in outbox[c] : b \in outbox[c] \/ b \in Sequenced
  OBVIOUS
<1>12. /\ minted' \in SUBSET Batch /\ minted \subseteq minted'
       /\ \A b \in minted' : b \in minted \/ (b \in outbox[c] /\ Author[b] = c)
       /\ outbox[c] \subseteq minted' /\ d.draft \notin minted'
  BY <1>2, <1>9, OfDevice
<1>13. \A x \in submits' : \/ x \in submits /\ x.client # c
                           \/ Submitted(x)'
  <2> SUFFICES ASSUME NEW x \in submits, x.client = c PROVE Submitted(x)'
    BY <1>2
  <2>1. Submitted(x) /\ dev'[c] = d /\ minted' = minted
    BY <1>2, OfDevice
  <2> QED
    BY <1>9, <2>1 DEF Submitted, Online
<1>14. cloud' = cloud
  BY <1>2
<1> QED
  BY <1>1, <1>2, <1>4, <1>8, <1>10, <1>11, <1>12, <1>13, <1>14, DeviceKeepsInv

\* Asking for a barrier: nothing is on its way yet.
LEMMA AskKeepsSync ==
    ASSUME SyncInv, NEW c \in Member, AskBarrier(c)
    PROVE  SyncInv'
<1> DEFINE d == [dev[c] EXCEPT !.capture = "asked"]
<1>1. /\ dev[c].conn = "live" /\ dev[c].capture = "no" /\ dev[c].draft = NoBatch
      /\ outbox[c] = {} /\ dev' = [dev EXCEPT ![c] = d]
      /\ UNCHANGED vars /\ UNCHANGED <<outbox, minted, submits, captured, cloud>>
  BY OfDevice DEF AskBarrier, netVars, cloudVars
<1>2. /\ disk' = [disk EXCEPT ![c] = disk[c]] /\ syncReq' = [syncReq EXCEPT ![c] = syncReq[c]]
      /\ toClient' = [toClient EXCEPT ![c] = toClient[c]]
  BY OfDevice DEF AskBarrier, netVars
<1>3. /\ d \in DeviceType /\ d.capture = "asked"
      /\ d.conn = dev[c].conn /\ d.watermark = dev[c].watermark /\ d.above = dev[c].above
      /\ d.replica = dev[c].replica /\ d.draft = dev[c].draft
      /\ d.held = dev[c].held /\ d.boot = dev[c].boot /\ d.required = dev[c].required
  BY OfDevice DEF DeviceType
<1> HIDE DEF d
<1>4. DeviceOK(c, dev[c], outbox[c], disk[c], syncReq[c], toClient[c])
  BY OfDevice
<1>5. DeviceOK(c, d, outbox[c], disk[c], syncReq[c], toClient[c])
  <2>1. Bounds(c, d, outbox[c], disk[c]) /\ Marks(d, disk[c]) /\ Journal(d, outbox[c], disk[c])
    BY <1>3, <1>4 DEF DeviceOK, Bounds, Marks, Journal, Applied
  <2>2. Wire(c, d, syncReq[c], toClient[c]) /\ Replay(d, syncReq[c], toClient[c])
    BY <1>3, <1>4 DEF DeviceOK, Wire, Honest, Online, Replay
  <2>3. Capture(d, outbox[c], toClient[c])
    BY <1>1, <1>3, <1>4 DEF DeviceOK, Capture
  <2> QED
    BY <2>1, <2>2, <2>3 DEF DeviceOK
<1>6. /\ d.draft \notin minted
      /\ Online(dev[c]) => Online(d) /\ dev[c].replica \subseteq d.replica
  BY <1>3, OfDevice DEF Online
<1> QED
  BY <1>1, <1>2, <1>5, <1>6, QuietKeepsSync

\* A refused batch loses its submission, and its socket if that is still open.
LEMMA RefuseKeepsSync ==
    ASSUME SyncInv, NEW m \in submits, RefuseSubmit(m)
    PROVE  SyncInv'
<1> DEFINE c == m.client
           d == Closed(dev[c])
<1>1. RoomInv /\ Submitted(m) /\ c \in Member
  BY DEF SyncInv, Submitted, SubmitType
<1>2. UNCHANGED vars /\ UNCHANGED <<outbox, disk, minted, captured, cloud>>
  BY DEF RefuseSubmit, cloudVars
<1>3. CASE m.attached
  <2>1. dev' = [dev EXCEPT ![c] = d] /\ SocketGone(c, {m})
    BY <1>3 DEF RefuseSubmit
  <2>2. Online(dev[c])
    BY <1>1, <1>3 DEF Submitted
  <2>3. DeviceOK(c, d, outbox[c], disk[c], NoSeq, << >>) /\ d.draft = dev[c].draft
    BY <1>1, <2>2, OfDevice, ClosedOK
  <2> HIDE DEF d, c
  <2>4. d.draft \notin minted
    BY <1>1, <2>3, OfDevice
  <2> QED
    BY <1>1, <1>2, <2>1, <2>3, <2>4, GoneKeepsSync
<1>4. CASE ~m.attached
  <2>1. submits' = submits \ {m} /\ UNCHANGED <<dev, syncReq, toClient>>
    BY <1>4 DEF RefuseSubmit, Completed
  <2>2. /\ dev' = [dev EXCEPT ![c] = dev[c]] /\ outbox' = [outbox EXCEPT ![c] = outbox[c]]
        /\ disk' = [disk EXCEPT ![c] = disk[c]] /\ syncReq' = [syncReq EXCEPT ![c] = syncReq[c]]
        /\ toClient' = [toClient EXCEPT ![c] = toClient[c]]
    BY <1>1, <1>2, <2>1, OfDevice
  <2> HIDE DEF c
  <2>3. DeviceOK(c, dev[c], outbox[c], disk[c], syncReq[c], toClient[c])
    BY <1>1, OfDevice
  <2>4. \A x \in outbox[c] : x \in outbox[c] \/ x \in Sequenced
    OBVIOUS
  <2>5. /\ minted' \in SUBSET Batch /\ minted \subseteq minted'
        /\ \A x \in minted' : x \in minted \/ (x \in outbox[c] /\ Author[x] = c)
        /\ outbox[c] \subseteq minted' /\ dev[c].draft \notin minted'
    BY <1>1, <1>2, OfDevice
  <2>6. \A x \in submits' : \/ x \in submits /\ x.client # c
                            \/ Submitted(x)'
    BY <1>1, <1>2, <2>1, OfDevice DEF Submitted
  <2>7. /\ \A cap \in captured' : cap \in captured \/ GoodCapture(cap)
        /\ cloud' = cloud
    BY <1>2
  <2>8. UNCHANGED vars
    BY <1>2
  <2> QED
    BY <1>1, <2>2, <2>3, <2>4, <2>5, <2>6, <2>7, <2>8, DeviceKeepsInv
<1> QED
  BY <1>3, <1>4

(***************************************************************************)
(* The room moves                                                          *)
(***************************************************************************)
\* Broadcasts and acknowledgements that are so, sent after the messages there are.
LEMMA SentOK ==
    ASSUME NEW c, NEW d, NEW o, NEW k, NEW q, NEW w, DeviceOK(c, d, o, k, q, w)',
           Online(d), NEW news \in Seq(Message),
           \A i \in 1..Len(news) : /\ news[i].type \in {"session_batch", "batch_ack"}
                                   /\ Honest(c, d, news[i])'
    PROVE  DeviceOK(c, d, o, k, q, w \o news)'
<1> DEFINE u == w \o news
           n == Len(w)
<1>1. w \in Seq(Message)
  BY DEF DeviceOK, Wire
<1>2. /\ u \in Seq(Message) /\ n \in Nat /\ Len(u) \in Nat
      /\ \A i \in 1..Len(u) : \/ i \in 1..n /\ u[i] = w[i]
                              \/ i > n /\ i - n \in 1..Len(news) /\ u[i] = news[i - n]
  BY <1>1
<1> HIDE DEF u
<1>3. ASSUME NEW i \in 1..Len(u), i > n
      PROVE  Honest(c, d, u[i])' /\ ~Answers(u[i]) /\ u[i].type # "barrier_ack"
  <2>1. i - n \in 1..Len(news) /\ u[i] = news[i - n]
    BY <1>2, <1>3
  <2>2. news[i - n].type \in {"session_batch", "batch_ack"} /\ Honest(c, d, news[i - n])'
    BY <2>1
  <2> QED
    BY <2>1, <2>2 DEF Answers
<1>4. \A i \in 1..Len(u) : (i \in 1..n /\ u[i] = w[i]) \/ i > n
  BY <1>2
<1> HIDE DEF n
<1>5. \A i \in 1..Len(w) : Honest(c, d, w[i])'
  BY DEF DeviceOK, Wire
<1>6. Wire(c, d, q, u)'
  <2>1. \A i \in 1..Len(u) : Honest(c, d, u[i])'
    BY <1>3, <1>4, <1>5 DEF n
  <2> QED
    BY <1>2, <2>1 DEF DeviceOK, Wire
<1>7. Replay(d, q, u)'
  <2>1. ASSUME NEW i \in 1..Len(u), Answers(u[i])
        PROVE  /\ d.conn = "syncing" /\ q = NoSeq
               /\ \A j \in 1..Len(u) : Answers(u[j]) => j = i
    <3>1. i \in 1..n /\ Answers(w[i])
      BY <1>3, <1>4, <2>1
    <3>2. /\ d.conn = "syncing" /\ q = NoSeq
          /\ \A j \in 1..n : Answers(w[j]) => j = i
      BY <3>1 DEF DeviceOK, Replay, n
    <3> QED
      BY <1>3, <1>4, <3>2
  <2> QED
    BY <2>1 DEF DeviceOK, Replay
<1>8. Capture(d, o, u)'
  <2>1. ASSUME NEW i \in 1..Len(u), u[i].type = "barrier_ack"
        PROVE  /\ d.capture = "granted" /\ d.replica \subseteq UpTo(u[i].seq)'
               /\ \A j \in 1..Len(u) :
                    /\ u[j].type = "barrier_ack" => j = i
                    /\ j < i => \A r \in RowsOf(u[j]) : r.seq <= u[i].seq
    <3>1. i \in 1..n /\ u[i] = w[i] /\ w[i].type = "barrier_ack"
      BY <1>3, <1>4, <2>1
    <3>2. /\ d.capture = "granted" /\ d.replica \subseteq UpTo(w[i].seq)'
          /\ \A j \in 1..n :
               /\ w[j].type = "barrier_ack" => j = i
               /\ j < i => \A r \in RowsOf(w[j]) : r.seq <= w[i].seq
      BY <3>1 DEF DeviceOK, Capture, n
    <3>3. ASSUME NEW j \in 1..Len(u)
          PROVE  /\ u[j].type = "barrier_ack" => j = i
                 /\ j < i => \A r \in RowsOf(u[j]) : r.seq <= u[i].seq
      <4>1. CASE j \in 1..n /\ u[j] = w[j]
        BY <3>1, <3>2, <4>1
      <4>2. CASE j > n
        <5>1. n \in Nat /\ ~(j < i)
          BY <1>2, <3>1, <4>2 DEF n
        <5> QED
          BY <1>3, <4>2, <5>1
      <4> QED
        BY <1>4, <4>1, <4>2
    <3> QED
      BY <3>1, <3>2, <3>3
  <2> QED
    BY <2>1 DEF DeviceOK, Capture
<1> QED
  BY <1>6, <1>7, <1>8 DEF DeviceOK, u

\* An acknowledgement and a broadcast of what is sequenced are so.
LEMMA NewsIsSo ==
    ASSUME RoomInv', NEW c, NEW d, NEW b \in Sequenced', NEW s, s = receipts'[b]
    PROVE  /\ BatchMsg(s, b) \in Message /\ BatchMsg(s, b).type = "session_batch"
           /\ Honest(c, d, BatchMsg(s, b))'
           /\ AckMsg(s, b) \in Message /\ AckMsg(s, b).type = "batch_ack"
           /\ b \in d.replica => Honest(c, d, AckMsg(s, b))'
<1> DEFINE row == Row(s, b)
           news == BatchMsg(s, b)
           ack == AckMsg(s, b)
<1>1. s \in Nat /\ b \in AllBatch
  BY DEF RoomInv, TypeOK, Sequenced
<1>2. row \in RowType /\ TrueRow(row)'
  BY <1>1 DEF Row, RowType, TrueRow
<1>3. news.type = "session_batch" /\ news.rows = {row} /\ news \in Message
  BY <1>2 DEF BatchMsg, Message
<1>4. ack.type = "batch_ack" /\ ack.seq = s /\ ack.batch = b /\ ack \in Message
  BY <1>1 DEF AckMsg, Message
<1> HIDE DEF row, news, ack
<1>5. Honest(c, d, news)'
  BY <1>2, <1>3 DEF Honest, RowsOf
<1>6. b \in d.replica => Honest(c, d, ack)'
  BY <1>4 DEF Honest, RowsOf
<1> QED
  BY <1>3, <1>4, <1>5, <1>6 DEF news, ack

\* A step of the room that keeps what each running device holds, every part of
\* the devices, and the published snapshot in order.
LEMMA RoomMoves ==
    ASSUME SyncInv, RoomInv', RoomGrows,
           dev' \in [Member -> DeviceType], toClient' \in [Member -> Seq(Message)],
           UNCHANGED <<outbox, disk, minted, syncReq>>,
           submits' \subseteq submits, captured' \subseteq captured,
           \A c \in Member :
              /\ DeviceOK(c, dev[c], outbox[c], disk[c], syncReq[c], toClient[c])'
              /\ dev'[c].conn = dev[c].conn /\ dev'[c].replica = dev[c].replica
              /\ dev'[c].draft = dev[c].draft,
           (Sequenced \cup Buffered)' \subseteq (minted \cup SystemBatch),
           Published'
    PROVE  SyncInv'
<1>1. RoomInv /\ Devices /\ Minting
  BY DEF SyncInv
<1>2. Devices'
  BY <1>1 DEF Devices
<1>3. \A m \in submits' : Submitted(m)'
  <2> SUFFICES ASSUME NEW m \in submits PROVE Submitted(m)'
    OBVIOUS
  <2>1. Submitted(m)
    BY DEF SyncInv
  <2>2. m.client \in Member
    BY <2>1 DEF Submitted, SubmitType
  <2> QED
    BY <2>1, <2>2 DEF Submitted, Online
<1>4. Sequenced \subseteq Sequenced' /\ barriers \subseteq barriers'
  BY <1>1, SequencedStays DEF RoomGrows
<1>5. Minting'
  BY <1>1, <1>4 DEF Minting
<1>6. \A cap \in captured' : GoodCapture(cap)'
  <2> SUFFICES ASSUME NEW cap \in captured PROVE GoodCapture(cap)'
    OBVIOUS
  <2>1. GoodCapture(cap)
    BY DEF SyncInv
  <2>2. cap.bar.seq \in Nat /\ cap.bar.seq <= currentSeq
    BY <1>1, <2>1, RoomTypes DEF GoodCapture
  <2>3. UpTo(cap.bar.seq)' = UpTo(cap.bar.seq)
    BY <1>1, <2>2, SequencedStays
  <2> QED
    BY <1>4, <2>1, <2>3 DEF GoodCapture
<1> QED
  BY <1>2, <1>3, <1>5, <1>6 DEF SyncInv

\* News of what is sequenced.
NewsFor(c, d, news) ==
    \A i \in 1..Len(news) : /\ news[i].type \in {"session_batch", "batch_ack"}
                            /\ Honest(c, d, news[i])

\* A step of the room that at most sends news to the running devices and publishes
\* nothing.
LEMMA RoomSends ==
    ASSUME SyncInv, [Next]_vars, UNCHANGED <<deviceVars, syncReq, cloud, snapshot>>,
           submits' \subseteq submits, captured' \subseteq captured,
           toClient' \in [Member -> Seq(Message)],
           \A c \in Member :
              \/ toClient'[c] = toClient[c]
              \/ /\ Online(dev[c])
                 /\ \E news \in Seq(Message) :
                       NewsFor(c, dev[c], news)' /\ toClient'[c] = toClient[c] \o news,
           (Sequenced \cup Buffered)' \subseteq (minted \cup SystemBatch)
    PROVE  SyncInv'
<1>1. RoomInv /\ RoomInv' /\ Published
  BY NextKeepsInv DEF SyncInv
<1>2. RoomGrows
  BY <1>1, NextGrows
<1>3. /\ dev' = dev /\ outbox' = outbox /\ disk' = disk /\ minted' = minted /\ syncReq' = syncReq
      /\ cloud' = cloud /\ snapshot' = snapshot
  BY DEF deviceVars
<1>4. ASSUME NEW c \in Member
      PROVE  DeviceOK(c, dev[c], outbox[c], disk[c], syncReq[c], toClient[c])'
  <2>1. DeviceOK(c, dev[c], outbox[c], disk[c], syncReq[c], toClient[c])
    BY OfDevice
  <2>2. ASSUME NEW d, d = dev[c], NEW o, o = outbox[c], NEW k, k = disk[c],
               NEW q, q = syncReq[c], NEW w, w = toClient[c]
        PROVE  DeviceOK(c, dev[c], outbox[c], disk[c], syncReq[c], toClient[c])'
    <3>1. DeviceOK(c, d, o, k, q, w)'
      BY <1>1, <1>2, <2>1, <2>2, DeviceStays
    <3>2. CASE toClient'[c] = w
      BY <1>3, <2>2, <3>1, <3>2
    <3>3. ASSUME NEW news \in Seq(Message), Online(d), NewsFor(c, d, news)',
                 toClient'[c] = w \o news
          PROVE  DeviceOK(c, dev[c], outbox[c], disk[c], syncReq[c], toClient[c])'
      <4>1. DeviceOK(c, d, o, k, q, w \o news)'
        BY <3>1, <3>3, SentOK DEF NewsFor
      <4> QED
        BY <1>3, <2>2, <3>3, <4>1
    <3>4. \A news \in Seq(Message) : NewsFor(c, dev[c], news)' => NewsFor(c, d, news)'
      BY <1>3, <2>2
    <3> QED
      BY <2>2, <3>2, <3>3, <3>4
  <2> QED
    BY <2>2
<1>5. Published'
  <2>1. cloud.seq \in Nat \cup {NoSeq} /\ cloud.seq <= currentSeq
    BY <1>1, RoomTypes DEF Published, SnapshotType
  <2>2. UpTo(cloud.seq)' = UpTo(cloud.seq)
    BY <1>1, <1>2, <1>3, <2>1, SequencedStays DEF UpTo
  <2> QED
    BY <1>1, <1>3, <2>2 DEF Published
<1>6. dev' \in [Member -> DeviceType]
  BY <1>3 DEF SyncInv, Devices
<1>7. \A c \in Member : /\ dev'[c].conn = dev[c].conn /\ dev'[c].replica = dev[c].replica
                        /\ dev'[c].draft = dev[c].draft
  BY <1>3
<1>8. UNCHANGED <<outbox, disk, minted, syncReq>>
  BY <1>3
<1> QED
  BY <1>1, <1>2, <1>4, <1>5, <1>6, <1>7, <1>8, RoomMoves

\* Admission and the retries of what was admitted.
LEMMA AcceptKeepsSync ==
    ASSUME SyncInv, NEW m \in submits, AcceptSubmit(m)
    PROVE  SyncInv'
<1> SUFFICES ASSUME NEW seq, seq = currentSeq + 1 PROVE SyncInv'
  OBVIOUS
<1> DEFINE b == m.batch
           ack == AckMsg(seq, b)
           news == BatchMsg(seq, b)
<1>1. RoomInv /\ Submitted(m) /\ b \in Batch /\ b \in AllBatch /\ b \in minted
  BY DEF SyncInv, Submitted, SubmitType, AllBatch
<1>2. AppendBatch(b) /\ submits' = submits \ {m}
  BY DEF AcceptSubmit, Completed
<1>3. [Next]_vars
  BY <1>1, <1>2 DEF Next, AcceptBatch
<1>4. RoomInv'
  BY <1>1, <1>3, NextKeepsInv
<1>5. UNCHANGED <<deviceVars, syncReq, cloud, snapshot>> /\ captured' = captured
  BY <1>2 DEF AcceptSubmit, AppendBatch, cloudVars, snapshotVars
<1>6. /\ receipts' = [receipts EXCEPT ![b] = seq] /\ UNCHANGED buffer
      /\ receipts \in [AllBatch -> Nat] /\ currentSeq \in Nat
  BY <1>1, <1>2, RoomTypes DEF AppendBatch, integrationVars
<1>7. receipts'[b] = seq /\ b \in Sequenced'
  BY <1>1, <1>6 DEF Sequenced
<1>8. /\ Sequenced' \subseteq Sequenced \cup {b} /\ Buffered' = Buffered
  BY <1>6 DEF Sequenced, Buffered
<1>9. (Sequenced \cup Buffered)' \subseteq (minted \cup SystemBatch)
  BY <1>1, <1>8 DEF SyncInv, Minting
<1>10. toClient' = [c \in Member |->
          IF Online(dev[c])
          THEN toClient[c] \o (IF c = m.client /\ m.attached THEN <<ack>> ELSE <<news>>)
          ELSE toClient[c]]
  BY DEF AcceptSubmit, SendEach, Connected, Online
<1>11. ack \in Message /\ news \in Message
  BY <1>4, <1>7, NewsIsSo
<1>12. ASSUME NEW c \in Member
       PROVE  /\ NewsFor(c, dev[c], <<news>>)'
              /\ c = m.client /\ m.attached => NewsFor(c, dev[c], <<ack>>)'
  <2>1. dev'[c] = dev[c]
    BY <1>5 DEF deviceVars
  <2>2. ASSUME NEW d, d = dev'[c]
        PROVE  /\ NewsFor(c, d, <<news>>)'
               /\ b \in d.replica => NewsFor(c, d, <<ack>>)'
    <3>1. /\ news.type = "session_batch" /\ ack.type = "batch_ack"
          /\ Honest(c, d, news)' /\ (b \in d.replica => Honest(c, d, ack)')
      BY <1>4, <1>7, NewsIsSo
    <3> HIDE DEF news, ack
    <3> QED
      BY <3>1 DEF NewsFor
  <2>3. c = m.client /\ m.attached => b \in dev[c].replica
    BY <1>1 DEF Submitted
  <2> QED
    BY <2>1, <2>2, <2>3
<1> HIDE DEF news, ack
<1>13. toClient' \in [Member -> Seq(Message)]
  BY <1>10, <1>11 DEF SyncInv, Devices
<1>14. ASSUME NEW c \in Member
       PROVE  \/ toClient'[c] = toClient[c]
              \/ /\ Online(dev[c])
                 /\ \E some \in Seq(Message) :
                       NewsFor(c, dev[c], some)' /\ toClient'[c] = toClient[c] \o some
  <2>1. <<ack>> \in Seq(Message) /\ <<news>> \in Seq(Message)
    BY <1>11
  <2> QED
    BY <1>10, <1>12, <2>1
<1>15. submits' \subseteq submits /\ captured' \subseteq captured
  BY <1>2, <1>5
<1> QED
  BY <1>3, <1>5, <1>9, <1>13, <1>14, <1>15, RoomSends

\* A step of the room that sends nothing.
LEMMA RoomAlone ==
    ASSUME SyncInv, [Next]_vars,
           UNCHANGED <<deviceVars, syncReq, toClient, captured, cloud, snapshot>>,
           submits' \subseteq submits,
           (Sequenced \cup Buffered)' \subseteq (minted \cup SystemBatch)
    PROVE  SyncInv'
<1>1. UNCHANGED <<deviceVars, syncReq, cloud, snapshot>> /\ captured' \subseteq captured
  OBVIOUS
<1>2. /\ toClient' \in [Member -> Seq(Message)]
      /\ \A c \in Member : toClient'[c] = toClient[c]
  BY DEF SyncInv, Devices
<1> QED
  BY <1>1, <1>2, RoomSends

LEMMA ParkKeepsSync ==
    ASSUME SyncInv, NEW m \in submits, ParkSubmit(m)
    PROVE  SyncInv'
<1>1. RoomInv /\ m.batch \in Batch /\ m.batch \in minted
  BY DEF SyncInv, Submitted, SubmitType
<1>2. BufferBatch(m.batch) /\ submits' = submits \ {m}
  BY DEF ParkSubmit, Completed
<1>3. [Next]_vars
  BY <1>1, <1>2 DEF Next, AcceptBatch
<1>4. UNCHANGED <<deviceVars, syncReq, toClient, captured, cloud, snapshot>>
  BY <1>2 DEF ParkSubmit, BufferBatch, cloudVars, snapshotVars
<1>5. /\ Sequenced' = Sequenced /\ Buffered' \subseteq Buffered \cup {m.batch}
  <2>1. /\ receipts' = receipts /\ buffer' = [buffer EXCEPT ![m.batch] = integration.count + 1]
        /\ buffer \in [AllBatch -> Nat]
    BY <1>1, <1>2, RoomTypes DEF BufferBatch, logVars
  <2> QED
    BY <2>1 DEF Sequenced, Buffered
<1>6. (Sequenced \cup Buffered)' \subseteq (minted \cup SystemBatch)
  BY <1>1, <1>5 DEF SyncInv, Minting
<1>7. submits' \subseteq submits
  BY <1>2
<1> QED
  BY <1>3, <1>4, <1>6, <1>7, RoomAlone

LEMMA RepeatKeepsSync ==
    ASSUME SyncInv, NEW m \in submits, RepeatSubmit(m)
    PROVE  SyncInv'
<1> SUFFICES ASSUME NEW seq, seq = receipts[m.batch] PROVE SyncInv'
  OBVIOUS
<1> DEFINE c == m.client
           b == m.batch
           ack == AckMsg(seq, b)
<1>1. RoomInv /\ Submitted(m) /\ c \in Member /\ b \in Batch
  BY DEF SyncInv, Submitted, SubmitType
<1>2. /\ UNCHANGED vars /\ UNCHANGED <<deviceVars, syncReq, captured, cloud>>
      /\ submits' = submits \ {m}
  BY DEF RepeatSubmit, Completed, cloudVars
<1>3. [Next]_vars /\ snapshot' = snapshot /\ receipts' = receipts
  BY <1>2 DEF vars, logVars, snapshotVars
<1>4. (Sequenced \cup Buffered)' \subseteq (minted \cup SystemBatch)
  BY <1>2 DEF vars, logVars, integrationVars, Sequenced, Buffered, SyncInv, Minting
<1>5. CASE toClient' = toClient
  <2>1. UNCHANGED <<deviceVars, syncReq, toClient, captured, cloud, snapshot>>
    BY <1>2, <1>3, <1>5
  <2>2. submits' \subseteq submits
    BY <1>2
  <2> QED
    BY <1>3, <1>4, <2>1, <2>2, RoomAlone
<1>6. CASE toClient' # toClient
  <2>1. /\ seq # 0 /\ m.attached
        /\ toClient' = [toClient EXCEPT ![c] = Append(toClient[c], ack)]
    BY <1>6 DEF RepeatSubmit, Send
  <2>2. RoomInv' /\ b \in Sequenced'
    BY <1>1, <1>3, <2>1, NextKeepsInv DEF Sequenced, AllBatch
  <2>3. Online(dev[c]) /\ b \in dev[c].replica /\ dev' = dev
    BY <1>1, <1>2, <2>1 DEF Submitted, deviceVars
  <2>4. ASSUME NEW d, d = dev'[c] PROVE NewsFor(c, d, <<ack>>)' /\ ack \in Message
    <3>1. ack \in Message /\ ack.type = "batch_ack" /\ Honest(c, d, ack)'
      BY <1>3, <2>2, <2>3, <2>4, NewsIsSo
    <3> HIDE DEF ack
    <3> QED
      BY <3>1 DEF NewsFor
  <2>5. ack \in Message /\ NewsFor(c, dev[c], <<ack>>)'
    BY <2>3, <2>4
  <2> HIDE DEF ack, c, b
  <2>6. toClient \in [Member -> Seq(Message)]
    BY DEF SyncInv, Devices
  <2>7. /\ <<ack>> \in Seq(Message) /\ toClient'[c] = toClient[c] \o <<ack>>
        /\ toClient' \in [Member -> Seq(Message)]
        /\ \A x \in Member : x # c => toClient'[x] = toClient[x]
    BY <1>1, <2>1, <2>5, <2>6
  <2>8. ASSUME NEW x \in Member
        PROVE  \/ toClient'[x] = toClient[x]
               \/ /\ Online(dev[x])
                  /\ \E some \in Seq(Message) :
                        NewsFor(x, dev[x], some)' /\ toClient'[x] = toClient[x] \o some
    <3>1. CASE x # c
      BY <2>7, <3>1
    <3>2. CASE x = c
      BY <2>3, <2>5, <2>7, <3>2
    <3> QED
      BY <3>1, <3>2
  <2>9. /\ UNCHANGED <<deviceVars, syncReq, cloud, snapshot>>
        /\ submits' \subseteq submits /\ captured' \subseteq captured
    BY <1>2, <1>3
  <2> QED
    BY <1>3, <1>4, <2>7, <2>8, <2>9, RoomSends
<1> QED
  BY <1>5, <1>6

\* The leader outside the model, verification and compaction.
LEMMA LeaderKeepsSync ==
    ASSUME SyncInv, LeaderStep \/ CompactStep \/ \E cap \in captured : VerifyCapture(cap)
    PROVE  SyncInv'
<1>1. CASE LeaderStep
  <2>1. \/ \E k \in Client : GrantLease(k) \/ BeginIntegration(k)
        \/ LoseLease \/ IntegrationLapses
    BY <1>1 DEF LeaderStep, Leader
  <2>2. [Next]_vars
    BY <2>1 DEF Next
  <2>3. UNCHANGED <<receipts, buffer, snapshot>>
    BY <2>1 DEF GrantLease, BeginIntegration, LoseLease, IntegrationLapses, logVars,
       snapshotVars, integrationVars
  <2>4. UNCHANGED <<deviceVars, syncReq, toClient, captured, cloud, snapshot>>
    BY <1>1, <2>3 DEF LeaderStep, netVars, cloudVars
  <2>5. (Sequenced \cup Buffered)' \subseteq (minted \cup SystemBatch)
    BY <2>3 DEF Sequenced, Buffered, SyncInv, Minting
  <2>6. submits' \subseteq submits
    BY <1>1 DEF LeaderStep, netVars
  <2> QED
    BY <2>2, <2>4, <2>5, <2>6, RoomAlone
<1>2. CASE CompactStep
  <2>1. [Next]_vars
    BY <1>2 DEF Next, CompactStep
  <2>2. UNCHANGED <<receipts, buffer, snapshot>>
    BY <1>2 DEF CompactStep, CompactReplay, integrationVars
  <2>3. UNCHANGED <<deviceVars, syncReq, toClient, captured, cloud, snapshot>>
    BY <1>2, <2>2 DEF CompactStep, netVars, cloudVars
  <2>4. (Sequenced \cup Buffered)' \subseteq (minted \cup SystemBatch)
    BY <2>2 DEF Sequenced, Buffered, SyncInv, Minting
  <2>5. submits' \subseteq submits
    BY <1>2 DEF CompactStep, netVars
  <2> QED
    BY <2>1, <2>3, <2>4, <2>5, RoomAlone
<1>3. ASSUME NEW cap \in captured, VerifyCapture(cap) PROVE SyncInv'
  <2>1. cap.bar \in barriers /\ cap.bar.client \in Client
    BY DEF SyncInv, GoodCapture
  <2>2. [Next]_vars
    BY <1>3, <2>1 DEF Next, VerifyCapture
  <2>3. UNCHANGED <<receipts, buffer, snapshot>>
    BY <1>3 DEF VerifyCapture, VerifySnapshot, logVars, integrationVars, snapshotVars
  <2>4. UNCHANGED <<deviceVars, syncReq, toClient, captured, cloud, snapshot>>
    BY <1>3, <2>3 DEF VerifyCapture, netVars, cloudVars
  <2>5. (Sequenced \cup Buffered)' \subseteq (minted \cup SystemBatch)
    BY <2>3 DEF Sequenced, Buffered, SyncInv, Minting
  <2>6. submits' \subseteq submits
    BY <1>3 DEF VerifyCapture, netVars
  <2> QED
    BY <2>2, <2>4, <2>5, <2>6, RoomAlone
<1> QED
  BY <1>1, <1>2, <1>3

\* Granting a barrier: what the device holds and what is on its socket is at or
\* below the head.
LEMMA GrantKeepsSync ==
    ASSUME SyncInv, NEW c \in Member, GrantBarrier(c)
    PROVE  SyncInv'
<1> SUFFICES ASSUME NEW seq, seq = currentSeq,
                    NEW dc, dc = dev[c], NEW w, w = toClient[c]
             PROVE  SyncInv'
  OBVIOUS
<1> DEFINE m == [type |-> "barrier_ack", seq |-> seq]
           d == [dc EXCEPT !.capture = "granted"]
           u == Append(w, m)
<1>1. RoomInv /\ DeviceOK(c, dc, outbox[c], disk[c], syncReq[c], w) /\ Published
  BY OfDevice DEF SyncInv
<1>2. /\ dc.capture = "asked" /\ Online(dc) /\ SnapshotBarrier(c)
      /\ toClient' = [toClient EXCEPT ![c] = u] /\ dev' = [dev EXCEPT ![c] = d]
  BY OfDevice DEF GrantBarrier, Connected, Online, Send
<1>3. UNCHANGED <<outbox, disk, minted, syncReq, submits, captured, cloud>>
  BY DEF GrantBarrier, cloudVars
<1>4. [Next]_vars
  BY <1>2, MembersAreClients DEF Next
<1>5. RoomInv' /\ RoomGrows
  BY <1>1, <1>4, NextKeepsInv, NextGrows
<1>6. /\ UNCHANGED <<receipts, buffer, snapshot, currentSeq, replayFloor>>
      /\ BarrierOf(c, seq) \in barriers'
  BY <1>2 DEF SnapshotBarrier, NewBarrier, BarrierOf, logVars, integrationVars, snapshotVars
<1>7. /\ d \in DeviceType /\ d.capture = "granted"
      /\ d.conn = dc.conn /\ d.watermark = dc.watermark /\ d.above = dc.above
      /\ d.replica = dc.replica /\ d.draft = dc.draft
      /\ d.held = dc.held /\ d.boot = dc.boot /\ d.required = dc.required
  <2>1. dc \in DeviceType
    BY <1>1 DEF DeviceOK, Bounds
  <2> QED
    BY <2>1 DEF DeviceType
<1>8. seq \in Nat /\ m \in Message /\ m.type = "barrier_ack" /\ m.seq = seq
  BY <1>1, RoomTypes DEF Message
<1> HIDE DEF m, d
<1>9. /\ w \in Seq(Message) /\ u \in Seq(Message) /\ Len(w) \in Nat /\ Len(u) = Len(w) + 1
      /\ \A i \in 1..Len(u) : (i \in 1..Len(w) /\ u[i] = w[i]) \/ (i = Len(w) + 1 /\ u[i] = m)
  BY <1>1, <1>8, DeviceParts
<1> HIDE DEF u
<1>10. DeviceOK(c, d, outbox[c], disk[c], syncReq[c], u)'
  <2>1. ASSUME NEW o, o = outbox[c], NEW k, k = disk[c], NEW q, q = syncReq[c]
        PROVE  DeviceOK(c, d, o, k, q, u)'
    <3>1. DeviceOK(c, dc, o, k, q, w) /\ DeviceOK(c, dc, o, k, q, w)'
      BY <1>1, <1>5, <2>1, DeviceStays
    <3>2. \A i \in 1..Len(w) : w[i].type # "barrier_ack"
      BY <1>2, <3>1 DEF DeviceOK, Capture
    <3>3. Bounds(c, d, o, k)' /\ Marks(d, k)' /\ Journal(d, o, k)'
      BY <1>7, <3>1 DEF DeviceOK, Bounds, Marks, Journal, Applied
    <3>4. Wire(c, d, q, u)'
      <4>1. Honest(c, d, m)'
        BY <1>6, <1>8 DEF Honest, RowsOf
      <4>2. \A i \in 1..Len(w) : Honest(c, dc, w[i])'
        BY <3>1 DEF DeviceOK, Wire
      <4>3. \A i \in 1..Len(w) : Honest(c, d, w[i])'
        BY <1>7, <4>2 DEF Honest
      <4>4. \A i \in 1..Len(u) : Honest(c, d, u[i])'
        BY <1>9, <4>1, <4>3
      <4>5. Online(d)
        BY <1>2, <1>7 DEF Online
      <4> QED
        BY <1>7, <1>9, <3>1, <4>4, <4>5 DEF DeviceOK, Wire
    <3>5. Replay(d, q, u)'
      <4>1. ~Answers(m)
        BY <1>8 DEF Answers
      <4> QED
        BY <1>7, <1>9, <3>1, <4>1 DEF DeviceOK, Replay
    <3>6. Capture(d, o, u)'
      <4>1. dc.conn = "live" /\ dc.draft = NoBatch /\ o = {}
        BY <1>2, <3>1 DEF DeviceOK, Capture
      <4>2. dc.replica \subseteq Sequenced
        <5>1. NoBatch \notin dc.replica
          BY <3>1, DeviceParts, NullsApart DEF AllBatch
        <5> QED
          BY <3>1, <4>1, <5>1 DEF DeviceOK, Journal
      <4>3. dc.replica \subseteq UpTo(seq)'
        BY <1>1, <1>6, <4>2, RoomTypes DEF UpTo, Sequenced
      <4>4. ASSUME NEW i \in 1..Len(w), NEW r \in RowsOf(w[i]) PROVE r.seq <= seq
        <5>1. TrueRow(r)
          BY <3>1 DEF DeviceOK, Wire, Honest
        <5> QED
          BY <1>1, <5>1, RoomTypes DEF TrueRow
      <4>5. \A i \in 1..Len(u) : u[i].type = "barrier_ack" => i = Len(w) + 1 /\ u[i] = m
        BY <1>9, <3>2
      <4>6. \A j \in 1..Len(u) : j < Len(w) + 1 => \A r \in RowsOf(u[j]) : r.seq <= seq
        BY <1>9, <4>4
      <4>7. ASSUME NEW i \in 1..Len(u), u[i].type = "barrier_ack"
            PROVE  /\ d.capture = "granted" /\ d.replica \subseteq UpTo(u[i].seq)'
                   /\ \A j \in 1..Len(u) :
                        /\ u[j].type = "barrier_ack" => j = i
                        /\ j < i => \A r \in RowsOf(u[j]) : r.seq <= u[i].seq
        <5>1. i = Len(w) + 1 /\ u[i] = m /\ u[i].seq = seq
          BY <1>8, <4>5, <4>7
        <5>2. d.capture = "granted" /\ d.replica \subseteq UpTo(seq)'
          BY <1>7, <4>3
        <5>3. UpTo(seq)' = UpTo(u[i].seq)'
          BY <5>1
        <5> QED
          BY <4>5, <4>6, <5>1, <5>2, <5>3
      <4> QED
        BY <1>7, <4>1, <4>7 DEF Capture
    <3> QED
      BY <3>3, <3>4, <3>5, <3>6 DEF DeviceOK
  <2> QED
    BY <1>3, <2>1
<1>11. \A x \in Member :
          /\ DeviceOK(x, dev[x], outbox[x], disk[x], syncReq[x], toClient[x])'
          /\ dev'[x].conn = dev[x].conn /\ dev'[x].replica = dev[x].replica
          /\ dev'[x].draft = dev[x].draft
  <2> SUFFICES ASSUME NEW x \in Member
               PROVE  /\ DeviceOK(x, dev[x], outbox[x], disk[x], syncReq[x], toClient[x])'
                      /\ dev'[x].conn = dev[x].conn /\ dev'[x].replica = dev[x].replica
                      /\ dev'[x].draft = dev[x].draft
    OBVIOUS
  <2>1. CASE x = c
    <3>1. dev'[c] = d /\ toClient'[c] = u
      BY <1>2, OfDevice
    <3> QED
      BY <1>7, <1>10, <2>1, <3>1
  <2>2. CASE x # c
    <3>1. /\ dev'[x] = dev[x] /\ toClient'[x] = toClient[x] /\ outbox'[x] = outbox[x]
          /\ disk'[x] = disk[x] /\ syncReq'[x] = syncReq[x]
      BY <1>2, <1>3, <2>2, OfDevice
    <3>2. DeviceOK(x, dev[x], outbox[x], disk[x], syncReq[x], toClient[x])
      BY OfDevice
    <3> QED
      BY <1>1, <1>5, <3>1, <3>2, DeviceStays
  <2> QED
    BY <2>1, <2>2
<1>12. /\ dev' \in [Member -> DeviceType] /\ toClient' \in [Member -> Seq(Message)]
  BY <1>2, <1>7, <1>9, OfDevice
<1>13. UNCHANGED <<outbox, disk, minted, syncReq>> /\ submits' \subseteq submits /\ captured' \subseteq captured
  BY <1>3
<1>14. (Sequenced \cup Buffered)' \subseteq (minted \cup SystemBatch)
  BY <1>6 DEF Sequenced, Buffered, SyncInv, Minting
<1>15. Published'
  <2>1. \A s : UpTo(s)' = UpTo(s)
    BY <1>6 DEF UpTo, Sequenced
  <2> QED
    BY <1>1, <1>3, <1>6, <2>1 DEF Published
<1> QED
  BY <1>5, <1>11, <1>12, <1>13, <1>14, <1>15, RoomMoves

\* Publishing a capture, or dropping it.
LEMMA PublishKeepsSync ==
    ASSUME SyncInv, NEW cap \in captured, PublishCapture(cap)
    PROVE  SyncInv'
<1> DEFINE bar == cap.bar
<1>1. /\ RoomInv /\ Published /\ GoodCapture(cap)
      /\ bar \in barriers /\ bar.client \in Client /\ bar.generation = 0
      /\ cap.content = UpTo(bar.seq) /\ cap.content \in SUBSET AllBatch
  BY DEF SyncInv, GoodCapture
<1>2. bar.seq \in Nat /\ bar.seq <= currentSeq
  BY <1>1, RoomTypes
<1>3. CommitSnapshot(bar.client, bar) /\ captured' = captured \ {cap}
  BY DEF PublishCapture
<1>4. [Next]_vars
  BY <1>1, <1>3 DEF Next
<1>5. RoomInv' /\ RoomGrows
  BY <1>1, <1>4, NextKeepsInv, NextGrows
<1>6. UNCHANGED <<receipts, buffer, deviceVars, netVars>>
  BY <1>3 DEF PublishCapture, CommitSnapshot, integrationVars
<1>7. \A s : UpTo(s)' = UpTo(s)
  BY <1>6 DEF UpTo, Sequenced
<1>8. Published'
  <2>1. MayPublish(bar.client, bar)
    BY <1>1 DEF MayPublish
  <2>2. CASE ~Frozen /\ snapshot <= bar.seq
    <3>1. snapshot' = bar.seq /\ cloud' = [seq |-> bar.seq, content |-> cap.content]
      BY <1>3, <2>1, <2>2 DEF CommitSnapshot, PublishCapture
    <3>2. cloud' \in SnapshotType /\ cloud'.seq = snapshot' /\ cloud'.content = UpTo(cloud'.seq)
      BY <1>1, <1>2, <3>1 DEF SnapshotType
    <3>3. UpTo(cloud'.seq) = UpTo(cloud.seq)'
      BY <1>6 DEF UpTo, Sequenced
    <3> QED
      BY <3>2, <3>3 DEF Published
  <2>3. CASE ~(~Frozen /\ snapshot <= bar.seq)
    <3>1. snapshot' = snapshot /\ cloud' = cloud
      BY <1>3, <2>3 DEF CommitSnapshot, PublishCapture, snapshotVars
    <3> QED
      BY <1>1, <1>7, <3>1 DEF Published
  <2> QED
    BY <2>2, <2>3
<1>9. /\ dev' = dev /\ outbox' = outbox /\ disk' = disk /\ minted' = minted /\ syncReq' = syncReq
      /\ toClient' = toClient /\ submits' = submits
  BY <1>6 DEF deviceVars, netVars
<1>10. \A x \in Member :
          /\ DeviceOK(x, dev[x], outbox[x], disk[x], syncReq[x], toClient[x])'
          /\ dev'[x].conn = dev[x].conn /\ dev'[x].replica = dev[x].replica
          /\ dev'[x].draft = dev[x].draft
  <2> SUFFICES ASSUME NEW x \in Member
               PROVE  DeviceOK(x, dev[x], outbox[x], disk[x], syncReq[x], toClient[x])'
    BY <1>9
  <2>1. DeviceOK(x, dev[x], outbox[x], disk[x], syncReq[x], toClient[x])
    BY OfDevice
  <2> QED
    BY <1>1, <1>5, <1>9, <2>1, DeviceStays
<1>11. dev' \in [Member -> DeviceType] /\ toClient' \in [Member -> Seq(Message)]
  BY <1>9 DEF SyncInv, Devices
<1>12. /\ UNCHANGED <<outbox, disk, minted, syncReq>>
       /\ submits' \subseteq submits /\ captured' \subseteq captured
  BY <1>3, <1>9
<1>13. (Sequenced \cup Buffered)' \subseteq (minted \cup SystemBatch)
  BY <1>6 DEF Sequenced, Buffered, SyncInv, Minting
<1> QED
  BY <1>5, <1>8, <1>10, <1>11, <1>12, <1>13, RoomMoves

\* What a device is sent about the rows of an integration: broadcasts of the new
\* rows, and acknowledgements of its own.
LEMMA NewsAreAboutRows ==
    ASSUME NEW c \in Member, NEW count \in Nat, NEW p \in 1..LastAbout(c, count)
    PROVE  \E n \in 1..count :
              \/ NewsOfRows(c, count)[p] = BatchMsg(currentSeq + n, NewRow(n))
              \/ /\ NewRow(n) \in Batch /\ Author[NewRow(n)] = c
                 /\ NewsOfRows(c, count)[p] = AckMsg(currentSeq + n, NewRow(n))
<1>1. ASSUME NEW n \in Nat
      PROVE  OwnRows(c, n) \in SUBSET (1..n) /\ LastAbout(c, n) \in Nat
  <2>1. OwnRows(c, n) \in SUBSET (1..n)
    BY DEF OwnRows
  <2>2. Cardinality(OwnRows(c, n)) \in Nat
    BY <2>1, FiniteBelow
  <2> QED
    BY <2>1, <2>2 DEF LastAbout
<1>2. LastAbout(c, 0) = 0
  <2>1. OwnRows(c, 0) = {}
    BY DEF OwnRows
  <2> QED
    BY <2>1, FS_EmptySet DEF LastAbout
<1>3. ASSUME NEW n \in Nat \ {0}, LastAbout(c, n) # LastAbout(c, n - 1) + 1
      PROVE  NewRow(n) \in Batch /\ Author[NewRow(n)] = c
  <2> SUFFICES ASSUME ~(NewRow(n) \in Batch /\ Author[NewRow(n)] = c) PROVE FALSE
    OBVIOUS
  <2>1. OwnRows(c, n) = OwnRows(c, n - 1)
    BY DEF OwnRows
  <2>2. Cardinality(OwnRows(c, n)) \in Nat
    BY <1>1, FiniteBelow
  <2> QED
    BY <1>3, <2>1, <2>2 DEF LastAbout
<1> DEFINE about(n) == LastAbout(c, n - 1) < p /\ p <= LastAbout(c, n)
           reached == {n \in Nat : p <= LastAbout(c, n)}
<1>4. \E n \in 1..count : about(n)
  <2>1. p \in Nat /\ p >= 1 /\ count \in reached
    BY <1>1
  <2>2. PICK n \in reached : \A k \in reached : ~(<<k, n>> \in OpToRel(<, Nat))
    BY <2>1, WFMin, NatLessThanWellFounded
  <2>3. \A k \in reached : ~(k < n)
    BY <2>2 DEF OpToRel
  <2>4. n # 0 /\ n <= count
    BY <1>2, <2>1, <2>3
  <2>5. n - 1 \in Nat /\ n - 1 \notin reached
    BY <2>3, <2>4
  <2> QED
    BY <1>1, <2>1, <2>4, <2>5
<1> DEFINE n == CHOOSE n \in 1..count : about(n)
<1>5. n \in 1..count /\ LastAbout(c, n - 1) < p /\ p <= LastAbout(c, n)
  BY <1>4
<1>6. NewsOfRows(c, count)[p] =
        IF p = LastAbout(c, n - 1) + 1 THEN BatchMsg(currentSeq + n, NewRow(n))
        ELSE AckMsg(currentSeq + n, NewRow(n))
  BY DEF NewsOfRows
<1> HIDE DEF n
<1>7. CASE p = LastAbout(c, n - 1) + 1
  BY <1>5, <1>6, <1>7
<1>8. CASE p # LastAbout(c, n - 1) + 1
  <2>1. n \in Nat \ {0} /\ n - 1 \in Nat
    BY <1>5
  <2>2. LastAbout(c, n) \in Nat /\ LastAbout(c, n - 1) \in Nat
    BY <1>1, <2>1
  <2>3. LastAbout(c, n) # LastAbout(c, n - 1) + 1
    BY <1>5, <1>8, <2>2
  <2>4. NewRow(n) \in Batch /\ Author[NewRow(n)] = c
    BY <1>3, <2>1, <2>3
  <2> QED
    BY <1>5, <1>6, <1>8, <2>4
<1> QED
  BY <1>7, <1>8

\* The end of an integration sequences what was parked and tells every device; a
\* device is acknowledged what it still holds in its journal.
LEMMA EndKeepsSync ==
    ASSUME SyncInv, EndOfIntegration
    PROVE  SyncInv'
<1>1. RoomInv /\ Minting
  BY DEF SyncInv
<1>2. PICK sys \in SystemBatch \cup {NoBatch} :
         Integrating /\ (sys # NoBatch => receipts[sys] = 0) /\ EndIntegration(sys)
  BY DEF EndOfIntegration, FinishIntegration, ExpireIntegration
<1>3. [Next]_vars
  BY DEF EndOfIntegration, Next, Leader
<1>4. RoomInv' /\ RoomGrows
  BY <1>1, <1>3, NextKeepsInv, NextGrows
<1>5. /\ buffer' = [b \in AllBatch |-> 0] /\ SequenceAll(sys) /\ snapshot' = snapshot
      /\ replayFloor' = replayFloor
  BY <1>2 DEF EndIntegration, snapshotVars
<1>6. /\ UNCHANGED <<deviceVars, syncReq, cloud, snapshot>>
      /\ submits' \subseteq submits /\ captured' \subseteq captured
  BY <1>5 DEF EndOfIntegration, cloudVars
<1>7. \A b \in Sequenced' : b \in Sequenced \/ b \in Buffered \/ b = sys
  BY <1>1, <1>2, <1>5, SequencingPlaces DEF Sequenced
<1>8. (Sequenced \cup Buffered)' \subseteq (minted \cup SystemBatch)
  <2>1. Buffered' = {} /\ NoBatch \notin Sequenced'
    BY <1>5, NullsApart DEF Buffered, Sequenced, AllBatch
  <2> QED
    BY <1>1, <1>7, <2>1 DEF Minting
<1>9. currentSeq \in Nat /\ currentSeq' \in Nat /\ currentSeq <= currentSeq'
      /\ replayFloor \in Nat /\ replayFloor <= currentSeq
  BY <1>1, <1>4, RoomTypes DEF RoomGrows
<1>count. PICK count \in Nat : count = currentSeq' - currentSeq /\ currentSeq' = currentSeq + count
  <2>1. \A x, y \in Nat : x <= y => \E n \in Nat : n = y - x /\ y = x + n
    OBVIOUS
  <2> QED
    BY <1>9, <2>1
<1>10. ASSUME NEW n \in 1..count
       PROVE  NewRow(n) \in Sequenced' /\ receipts'[NewRow(n)] = currentSeq + n
  <2>1. currentSeq + n \in (replayFloor' + 1)..currentSeq' /\ currentSeq + n # 0
    <3>1. \A f, x, y \in Nat : f <= x /\ y = x + count => x + n \in (f + 1)..y /\ x + n # 0
      OBVIOUS
    <3>2. replayFloor' = replayFloor
      BY <1>5
    <3> QED
      BY <1>9, <1>count, <3>1, <3>2
  <2>2. currentSeq + n \in DOMAIN log'
    BY <1>4, <2>1 DEF RoomInv, ReplayableTail
  <2>3. log'[currentSeq + n] \in AllBatch /\ receipts'[log'[currentSeq + n]] = currentSeq + n
    BY <1>4, <2>2 DEF RoomInv, TypeOK, ReplayableTail
  <2> QED
    BY <2>1, <2>3 DEF NewRow, Sequenced
<1>11. ASSUME NEW c \in Member, Online(dev[c]), NEW n \in 1..count,
              NewRow(n) \in Batch, Author[NewRow(n)] = c
       PROVE  NewRow(n) \in dev[c].replica
  <2> DEFINE b == NewRow(n)
  <2>1. b \in Sequenced' /\ receipts'[b] > currentSeq
    BY <1>9, <1>10
  <2> HIDE DEF b
  <2>2. b \notin Sequenced
    <3> SUFFICES ASSUME b \in Sequenced PROVE FALSE
      OBVIOUS
    <3>1. receipts'[b] = receipts[b] /\ receipts[b] \in 1..currentSeq
      BY <1>1, <1>4, RoomTypes, SequencedStays
    <3> QED
      BY <1>9, <2>1, <3>1
  <2>3. b \in Batch /\ b # sys /\ Author[b] = c
    BY <1>11, BatchesApart, NullsApart DEF b
  <2>4. b \in Buffered /\ b \notin SystemBatch
    BY <1>7, <2>1, <2>2, <2>3, BatchesApart
  <2>5. b \in outbox[c]
    BY <1>1, <2>2, <2>3, <2>4 DEF Minting
  <2>6. outbox[c] \subseteq dev[c].replica
    BY <1>11, OfDevice DEF DeviceOK, Journal, Online
  <2> QED
    BY <2>5, <2>6 DEF b
<1>12. ASSUME NEW c \in Member, Online(dev[c]), NEW news, news = NewsOfRows(c, count)
       PROVE  news \in Seq(Message) /\ NewsFor(c, dev[c], news)'
  <2>1. LastAbout(c, count) \in Nat
    <3>1. OwnRows(c, count) \in SUBSET (1..count)
      BY DEF OwnRows
    <3>2. Cardinality(OwnRows(c, count)) \in Nat
      BY <3>1, FiniteBelow
    <3> QED
      BY <3>2 DEF LastAbout
  <2>2. dev'[c] = dev[c]
    BY <1>6 DEF deviceVars
  <2>3. ASSUME NEW p \in 1..LastAbout(c, count), NEW d, d = dev[c]
        PROVE  /\ news[p] \in Message /\ news[p].type \in {"session_batch", "batch_ack"}
               /\ Honest(c, d, news[p])'
    <3>1. PICK n \in 1..count :
             \/ NewsOfRows(c, count)[p] = BatchMsg(currentSeq + n, NewRow(n))
             \/ /\ NewRow(n) \in Batch /\ Author[NewRow(n)] = c
                /\ NewsOfRows(c, count)[p] = AckMsg(currentSeq + n, NewRow(n))
      BY NewsAreAboutRows
    <3>2. NewRow(n) \in Sequenced' /\ receipts'[NewRow(n)] = currentSeq + n
      BY <1>10
    <3>3. ASSUME NEW b \in Sequenced', b = NewRow(n), NEW s, s = receipts'[b]
          PROVE  /\ news[p] \in Message /\ news[p].type \in {"session_batch", "batch_ack"}
                 /\ Honest(c, d, news[p])'
      <4>1. /\ BatchMsg(s, b) \in Message /\ BatchMsg(s, b).type = "session_batch"
            /\ Honest(c, d, BatchMsg(s, b))'
            /\ AckMsg(s, b) \in Message /\ AckMsg(s, b).type = "batch_ack"
            /\ b \in d.replica => Honest(c, d, AckMsg(s, b))'
        BY <1>4, <3>3, NewsIsSo
      <4>2. \/ news[p] = BatchMsg(s, b)
            \/ b \in d.replica /\ news[p] = AckMsg(s, b)
        BY <1>11, <1>12, <2>3, <3>1, <3>2, <3>3
      <4>3. CASE news[p] = BatchMsg(s, b)
        BY <4>1, <4>3
      <4>4. CASE b \in d.replica /\ news[p] = AckMsg(s, b)
        BY <4>1, <4>4
      <4> QED
        BY <4>2, <4>3, <4>4
    <3> QED
      BY <3>2, <3>3
  <2>4. news \in [1..LastAbout(c, count) -> Message]
    <3>1. news = [p \in 1..LastAbout(c, count) |-> news[p]]
      BY <1>12 DEF NewsOfRows
    <3> QED
      BY <2>3, <3>1
  <2>5. news \in Seq(Message) /\ Len(news) = LastAbout(c, count)
    BY <2>1, <2>4
  <2> QED
    BY <2>2, <2>3, <2>5 DEF NewsFor
<1>13. toClient' = [c \in Member |-> IF Online(dev[c]) THEN toClient[c] \o NewsOfRows(c, count)
                                    ELSE toClient[c]]
  BY <1>count DEF EndOfIntegration, SendEach, Connected, Online
<1>14. ASSUME NEW c \in Member
       PROVE  /\ toClient'[c] \in Seq(Message)
              /\ \/ toClient'[c] = toClient[c]
                 \/ /\ Online(dev[c])
                    /\ \E some \in Seq(Message) :
                          NewsFor(c, dev[c], some)' /\ toClient'[c] = toClient[c] \o some
  <2>1. toClient[c] \in Seq(Message)
    BY OfDevice
  <2>2. CASE ~Online(dev[c])
    BY <1>13, <2>1, <2>2
  <2>3. CASE Online(dev[c])
    <3>1. PICK news : news = NewsOfRows(c, count)
      OBVIOUS
    <3>2. /\ news \in Seq(Message) /\ NewsFor(c, dev[c], news)'
          /\ toClient'[c] = toClient[c] \o news
      BY <1>12, <1>13, <2>3, <3>1
    <3>3. toClient[c] \o news \in Seq(Message)
      BY <2>1, <3>2
    <3> QED
      BY <2>3, <3>2, <3>3
  <2> QED
    BY <2>2, <2>3
<1>15. toClient' \in [Member -> Seq(Message)]
  BY <1>13, <1>14
<1> QED
  BY <1>3, <1>6, <1>8, <1>14, <1>15, RoomSends

(***************************************************************************)
(* The invariant                                                           *)
(***************************************************************************)
LEMMA SyncInitEstablishes == SyncInit => SyncInv
<1> SUFFICES ASSUME SyncInit PROVE SyncInv
  OBVIOUS
<1> DEFINE d == [Stopped EXCEPT !.conn = "off"]
           k == [seq |-> 0, content |-> {}]
<1>1. /\ Init /\ dev = [c \in Member |-> d] /\ outbox = [c \in Member |-> {}]
      /\ disk = [c \in Member |-> k] /\ minted = {} /\ submits = {}
      /\ syncReq = [c \in Member |-> NoSeq] /\ toClient = [c \in Member |-> << >>]
      /\ captured = {} /\ cloud = NoSnapshot
  BY DEF SyncInit
<1>2. RoomInv
  BY <1>1, InitEstablishes
<1>3. Sequenced = {} /\ Buffered = {} /\ currentSeq = 0 /\ snapshot = NoSeq
  BY <1>1 DEF Init, Sequenced, Buffered
<1>4. /\ d \in DeviceType /\ d.conn = "off" /\ d.watermark = 0 /\ d.above = {} /\ d.replica = {}
      /\ d.draft = NoBatch /\ d.held = {} /\ d.boot = NoSnapshot /\ d.required = 0
      /\ d.capture = "no" /\ d.boot.seq = -1 /\ d.boot.content = {}
  BY DEF Stopped, DeviceType, SnapshotType, NoSnapshot, NoSeq
<1>5. k \in DiskType /\ k.seq = 0 /\ k.content = {}
  BY DEF DiskType
<1> HIDE DEF d, k
<1>6. \A seq : UpTo(seq) = {}
  BY <1>3 DEF UpTo
<1>7. ASSUME NEW c \in Member PROVE DeviceOK(c, d, {}, k, NoSeq, << >>)
  <2>1. Bounds(c, d, {}, k)
    BY <1>2, <1>3, <1>4, <1>5, RoomTypes DEF Bounds
  <2>2. Marks(d, k) /\ Journal(d, {}, k)
    BY <1>3, <1>4, <1>5 DEF Marks, Journal
  <2>3. Wire(c, d, NoSeq, << >>)
    BY <1>3, <1>4, <1>6 DEF Wire
  <2>4. Replay(d, NoSeq, << >>) /\ Capture(d, {}, << >>)
    BY <1>4 DEF Replay, Capture
  <2> QED
    BY <2>1, <2>2, <2>3, <2>4 DEF DeviceOK
<1>8. Devices
  <2>1. /\ dev \in [Member -> DeviceType] /\ outbox \in [Member -> SUBSET Batch]
        /\ disk \in [Member -> DiskType] /\ syncReq \in [Member -> Nat \cup {NoSeq}]
        /\ toClient \in [Member -> Seq(Message)]
    BY <1>1, <1>4, <1>5
  <2> QED
    BY <1>1, <1>7, <2>1 DEF Devices
<1>9. Minting
  BY <1>1, <1>3, <1>4, NullsApart DEF Minting
<1>10. Published
  BY <1>1, <1>3, <1>6 DEF Published, NoSnapshot, SnapshotType, NoSeq
<1> QED
  BY <1>1, <1>2, <1>8, <1>9, <1>10 DEF SyncInv

LEMMA SyncNextKeepsInv == SyncInv /\ [SyncNext]_syncVars => SyncInv'
<1> SUFFICES ASSUME SyncInv, [SyncNext]_syncVars PROVE SyncInv'
  OBVIOUS
<1>1. CASE UNCHANGED syncVars
  <2>1. /\ [Next]_vars /\ UNCHANGED <<receipts, buffer, snapshot>>
        /\ UNCHANGED <<deviceVars, syncReq, toClient, captured, cloud>> /\ submits' = submits
    BY <1>1 DEF syncVars, netVars, cloudVars, vars, logVars, snapshotVars, integrationVars
  <2>2. (Sequenced \cup Buffered)' \subseteq (minted \cup SystemBatch)
    BY <2>1 DEF Sequenced, Buffered, SyncInv, Minting
  <2>3. /\ UNCHANGED <<deviceVars, syncReq, toClient, captured, cloud, snapshot>>
        /\ submits' \subseteq submits
    BY <2>1
  <2> QED
    BY <2>1, <2>2, <2>3, RoomAlone
<1>2. ASSUME NEW c \in Member, NEW b \in Batch, Edit(c, b) PROVE SyncInv'
  BY <1>2, EditKeepsSync
<1>3. ASSUME NEW c \in Member,
             Export(c) \/ PersistSnapshot(c) \/ Drop(c) \/ Crash(c) \/ Restart(c)
      PROVE  SyncInv'
  BY <1>3, ExportKeepsSync, PersistKeepsSync, FaultsKeepSync
<1>4. ASSUME NEW c \in Member, Bootstraps(c) PROVE SyncInv'
  BY <1>4, ConnectKeepsSync, FetchKeepsSync, LoadKeepsSync, AnswerKeepsSync DEF Bootstraps
<1>5. ASSUME NEW c \in Member, Handle(c) PROVE SyncInv'
  BY <1>5, SnapshotRequiredKeepsSync, SyncDeltaKeepsSync, SessionBatchKeepsSync,
     BatchAckKeepsSync, BarrierAckKeepsSync DEF Handle
<1>6. ASSUME NEW c \in Member, AskBarrier(c) \/ GrantBarrier(c) PROVE SyncInv'
  BY <1>6, AskKeepsSync, GrantKeepsSync
<1>7. ASSUME NEW m \in submits, RoomCompletes(m) PROVE SyncInv'
  BY <1>7, AcceptKeepsSync, ParkKeepsSync, RepeatKeepsSync, RefuseKeepsSync DEF RoomCompletes
<1>8. ASSUME NEW cap \in captured, VerifyCapture(cap) \/ PublishCapture(cap) PROVE SyncInv'
  BY <1>8, LeaderKeepsSync, PublishKeepsSync
<1>9. ASSUME LeaderStep \/ EndOfIntegration \/ CompactStep PROVE SyncInv'
  BY <1>9, LeaderKeepsSync, EndKeepsSync
<1> QED
  BY <1>1, <1>2, <1>3, <1>4, <1>5, <1>6, <1>7, <1>8, <1>9 DEF SyncNext

\* Every step of the composition is a step of the room, or leaves the room alone.
LEMMA SyncNextIsNext == SyncInv /\ [SyncNext]_syncVars => [Next]_vars
<1> SUFFICES ASSUME SyncInv, [SyncNext]_syncVars PROVE [Next]_vars
  OBVIOUS
<1>1. CASE UNCHANGED syncVars
  BY <1>1 DEF syncVars
<1>2. ASSUME NEW c \in Member, NEW b \in Batch, Edit(c, b) PROVE UNCHANGED vars
  BY <1>2 DEF Edit
<1>3. ASSUME NEW c \in Member,
             Export(c) \/ PersistSnapshot(c) \/ Drop(c) \/ Crash(c) \/ Restart(c) \/ AskBarrier(c)
      PROVE  UNCHANGED vars
  BY <1>3 DEF Export, PersistSnapshot, Drop, Crash, Restart, AskBarrier
<1>4. ASSUME NEW c \in Member, Bootstraps(c) \/ Handle(c) PROVE UNCHANGED vars
  BY <1>4 DEF Bootstraps, Connect, FetchSnapshot, LoadSnapshot, AnswerSync, Handle,
     HandleSnapshotRequired, HandleSyncDelta, HandleSessionBatch, HandleBatchAck, HandleBarrierAck
<1>5. ASSUME NEW c \in Member, GrantBarrier(c) PROVE Next
  BY <1>5, MembersAreClients DEF GrantBarrier, Next
<1>6. ASSUME NEW m \in submits, RoomCompletes(m) PROVE [Next]_vars
  <2>1. m.batch \in Batch
    BY DEF SyncInv, Submitted, SubmitType
  <2> QED
    BY <1>6, <2>1 DEF RoomCompletes, AcceptSubmit, ParkSubmit, RepeatSubmit, RefuseSubmit,
       Next, AcceptBatch
<1>7. ASSUME NEW cap \in captured, VerifyCapture(cap) \/ PublishCapture(cap) PROVE Next
  <2>1. cap.bar \in barriers /\ cap.bar.client \in Client
    BY DEF SyncInv, GoodCapture
  <2> QED
    BY <1>7, <2>1 DEF VerifyCapture, PublishCapture, Next
<1>8. ASSUME LeaderStep \/ EndOfIntegration \/ CompactStep PROVE Next
  BY <1>8 DEF LeaderStep, EndOfIntegration, CompactStep, Next, Leader
<1> QED
  BY <1>1, <1>2, <1>3, <1>4, <1>5, <1>6, <1>7, <1>8 DEF SyncNext

(***************************************************************************)
(* Theorems                                                                *)
(***************************************************************************)
\* The invariant holds in every behaviour of the devices and their room.
THEOREM SyncInvariant == SyncSpec => []SyncInv
<1>1. SyncInit => SyncInv
  BY SyncInitEstablishes
<1>2. SyncInv /\ [SyncNext]_syncVars => SyncInv'
  BY SyncNextKeepsInv
<1> QED
  BY <1>1, <1>2, PTL DEF SyncSpec

\* The room under its devices is the room of SessionRoomLog: submissions, retries,
\* barriers and publications reach it only as steps it has, so whatever is proved
\* of the room alone holds beneath any members, drops and crashes.
THEOREM DevicesRunTheRoom == SyncSpec => Spec
<1>1. SyncInit => Init
  BY DEF SyncInit
<1>2. SyncInv /\ [SyncNext]_syncVars => [Next]_vars
  BY SyncNextIsNext
<1> QED
  BY <1>1, <1>2, SyncInvariant, PTL DEF SyncSpec, Spec

\* The composition implements the abstract session history.
THEOREM DevicesKeepHistory == SyncSpec => ImplementsHistory
  BY DevicesRunTheRoom, RoomRefinesHistory

\* Types, and no device ahead of the room.
THEOREM SyncTypeCorrect == SyncSpec => []SyncTypeOK
<1>1. SyncInv => SyncTypeOK
  <2> SUFFICES ASSUME SyncInv PROVE SyncTypeOK
    OBVIOUS
  <2>1. TypeOK
    BY DEF SyncInv, RoomInv
  <2>2. /\ dev \in [Member -> DeviceType] /\ outbox \in [Member -> SUBSET Batch]
        /\ disk \in [Member -> DiskType] /\ syncReq \in [Member -> Nat \cup {NoSeq}]
        /\ toClient \in [Member -> Seq(Message)]
    BY DEF SyncInv, Devices
  <2>3. /\ minted \subseteq Batch /\ submits \subseteq SubmitType
        /\ captured \subseteq [bar: Barrier, content: SUBSET AllBatch] /\ cloud \in SnapshotType
    BY DEF SyncInv, Minting, Submitted, GoodCapture, Published
  <2>4. \A c \in Member :
          /\ dev[c].watermark <= currentSeq /\ dev[c].above \subseteq 1..currentSeq
          /\ dev[c].draft # NoBatch => Author[dev[c].draft] = c /\ dev[c].draft \notin minted
          /\ dev[c].required <= replayFloor
          /\ outbox[c] \subseteq {b \in minted : Author[b] = c}
          /\ disk[c].seq <= currentSeq
    BY OfDevice DEF DeviceOK, Bounds
  <2> QED
    BY <2>1, <2>2, <2>3, <2>4 DEF SyncTypeOK, DiskType, SubmitType
<1> QED
  BY <1>1, SyncInvariant, PTL

\* A watermark is never ahead of what the replica, or the disk, holds.
THEOREM WatermarksAreContent == SyncSpec => []WatermarkIsContent
<1>1. SyncInv => WatermarkIsContent
  BY OfDevice DEF WatermarkIsContent, DeviceOK, Marks
<1> QED
  BY <1>1, SyncInvariant, PTL

\* What is captured and published is the session up to its sequence, no more and no
\* less.
THEOREM SnapshotsAreExact == SyncSpec => []SnapshotIsExact
<1>1. SyncInv => SnapshotIsExact
  BY DEF SyncInv, SnapshotIsExact, GoodCapture, Published, UpTo
<1> QED
  BY <1>1, SyncInvariant, PTL

\* No exported edit is lost, however far the log is compacted.
THEOREM EditsAreKept == SyncSpec => []NoEditLost
<1>1. SyncInv => NoEditLost
  <2> SUFFICES ASSUME SyncInv, NEW b \in minted, b \notin outbox[Author[b]]
               PROVE  b \in Sequenced /\ (receipts[b] \in DOMAIN log \/ b \in cloud.content)
    BY DEF NoEditLost
  <2>1. RoomInv /\ b \in Sequenced
    BY DEF SyncInv, Minting
  <2>2. /\ receipts[b] \in 1..currentSeq /\ replayFloor \in Nat /\ currentSeq \in Nat
        /\ replayFloor = IF snapshot = NoSeq THEN 0 ELSE snapshot
    BY <2>1, RoomTypes
  <2>3. CASE receipts[b] > replayFloor
    <3>1. receipts[b] \in (replayFloor + 1)..currentSeq
      BY <2>2, <2>3
    <3> QED
      BY <2>1, <3>1 DEF RoomInv, ReplayableTail
  <2>4. CASE ~(receipts[b] > replayFloor)
    <3>1. receipts[b] <= snapshot
      BY <2>2, <2>4
    <3> QED
      BY <2>1, <3>1 DEF SyncInv, Published, UpTo
  <2> QED
    BY <2>1, <2>3, <2>4
<1> QED
  BY <1>1, SyncInvariant, PTL

\* No edit stays on one device without being in its journal or its draft.
THEOREM EditsAreNotStranded == SyncSpec => []NoEditStranded
<1>1. SyncInv => NoEditStranded
  <2> SUFFICES ASSUME SyncInv, NEW c \in Member
               PROVE  /\ disk[c].content \subseteq minted \cup SystemBatch
                      /\ dev[c].replica \subseteq minted \cup SystemBatch \cup {dev[c].draft}
    BY DEF NoEditStranded
  <2>1. /\ Sequenced \subseteq minted \cup SystemBatch /\ outbox[c] \subseteq minted
        /\ disk[c].content \subseteq (Sequenced \cup outbox[c])
        /\ dev[c].replica \subseteq (Sequenced \cup outbox[c] \cup {dev[c].draft})
    BY OfDevice DEF DeviceOK, Journal
  <2> QED
    BY <2>1
<1> QED
  BY <1>1, SyncInvariant, PTL
=============================================================================
