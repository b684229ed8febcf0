------------------------ MODULE SessionRoomLogProofs ------------------------
(***************************************************************************)
(* Proofs about SessionRoomLog, for any number of batches and devices and  *)
(* any limits.  RoomInv is the inductive invariant: the named invariants   *)
(* of the room together, for none of them is inductive alone.  What the    *)
(* page rule of compactReplay owes is a matter of its own, at the end.     *)
(***************************************************************************)
EXTENDS SessionRoomLog, TLAPS, FiniteSetTheorems

RoomInv ==
    /\ TypeOK
    /\ ExactlyOnceHistory
    /\ ReplayableTail
    /\ FrozenFrontier
    /\ IntegrationIsolated

\* What the log grown holds when the batches of new were added, each at its place.
RowsAdded(grown, new, place) ==
    /\ \A s : s \in DOMAIN grown <=> s \in DOMAIN log \/ \E b \in new : place[b] = s
    /\ grown \in [DOMAIN grown -> AllBatch]
    /\ \A s \in DOMAIN log : grown[s] = log[s]
    /\ \A s \in DOMAIN grown \ DOMAIN log : grown[s] \in new /\ place[grown[s]] = s

(***************************************************************************)
(* The log with new rows keeps the rows it had, and each new place holds a *)
(* new batch that was given that place.                                    *)
(***************************************************************************)
\* WithRows keeps the rows there are and adds one row per new batch at its place.
LEMMA WithRowsAdds ==
    ASSUME log \in [DOMAIN log -> AllBatch],
           NEW new \in SUBSET AllBatch, NEW place \in [AllBatch -> Nat]
    PROVE  RowsAdded(WithRows(new, place), new, place)
<1> DEFINE grown == WithRows(new, place)
<1>1. DOMAIN grown = DOMAIN log \cup {place[b] : b \in new}
  BY DEF WithRows
<1>2. \A s \in DOMAIN log : grown[s] = log[s]
  BY DEF WithRows
<1>3. ASSUME NEW s \in DOMAIN grown \ DOMAIN log
      PROVE  grown[s] \in new /\ place[grown[s]] = s
  <2>1. \E b \in new : place[b] = s
    BY <1>1
  <2>2. grown[s] = CHOOSE b \in new : place[b] = s
    BY <1>1 DEF WithRows
  <2> QED
    BY <2>1, <2>2
<1>4. grown \in [DOMAIN grown -> AllBatch]
  <2>1. \A s \in DOMAIN grown : grown[s] \in AllBatch
    BY <1>1, <1>2, <1>3
  <2>2. grown = [s \in DOMAIN grown |-> grown[s]]
    BY DEF WithRows
  <2> QED
    BY <2>1, <2>2
<1> QED
  BY <1>1, <1>2, <1>3, <1>4 DEF RowsAdded

\* An empty room satisfies RoomInv.
LEMMA InitEstablishes == Init => RoomInv
<1> SUFFICES ASSUME Init PROVE RoomInv
  OBVIOUS
<1>1. log \in [DOMAIN log -> AllBatch] /\ DOMAIN log = {}
  BY DEF Init
<1>2. TypeOK
  BY <1>1, NullsApart DEF Init, TypeOK, NoSeq, Barrier
<1>3. ExactlyOnceHistory
  BY DEF Init, ExactlyOnceHistory, Sequenced
<1>4. ReplayableTail
  BY <1>1 DEF Init, ReplayableTail, NoSeq
<1>5. FrozenFrontier
  BY DEF Init, FrozenFrontier, Frozen
<1>6. IntegrationIsolated
  BY DEF Init, IntegrationIsolated, Buffered, Integrating
<1> QED
  BY <1>2, <1>3, <1>4, <1>5, <1>6 DEF RoomInv

(***************************************************************************)
(* Accepting a batch                                                       *)
(***************************************************************************)
\* A batch appended outside an integration keeps RoomInv (acceptBatch).
LEMMA AppendKeepsInv ==
    ASSUME RoomInv, NEW b \in Batch, AppendBatch(b)
    PROVE  RoomInv'
<1>1. /\ currentSeq \in Nat /\ currentSeq' = currentSeq + 1
      /\ b \in AllBatch
      /\ receipts \in [AllBatch -> Nat] /\ receipts' \in [AllBatch -> Nat]
      /\ receipts[b] = 0 /\ receipts'[b] = currentSeq + 1
      /\ \A x \in AllBatch \ {b} : receipts'[x] = receipts[x]
  BY DEF RoomInv, TypeOK, AppendBatch, AllBatch
<1>2. fence = NoSeq /\ ~Integrating
  BY DEF AppendBatch, Frozen
<1>3. UNCHANGED <<snapshotVars, integrationVars, fence, barrierVars, leaseVars>>
  BY DEF AppendBatch
<1>4. /\ DOMAIN log' = DOMAIN log \cup {currentSeq + 1}
      /\ log' \in [DOMAIN log' -> AllBatch]
      /\ \A s \in DOMAIN log : log'[s] = log[s]
      /\ \A s \in DOMAIN log' \ DOMAIN log : log'[s] = b
  <2>2. {b} \in SUBSET AllBatch
    BY <1>1
  <2>3. log' = WithRows({b}, receipts')
    BY DEF AppendBatch
  <2>4. log \in [DOMAIN log -> AllBatch]
    BY DEF RoomInv, TypeOK
  <2>5. RowsAdded(log', {b}, receipts')
    BY <1>1, <2>2, <2>3, <2>4, WithRowsAdds
  <2> QED
    BY <1>1, <2>5 DEF RowsAdded
<1> USE DEF snapshotVars, integrationVars, barrierVars, leaseVars
<1>5. TypeOK'
  <2>1. barriers' \subseteq {bar \in Barrier : bar.seq <= currentSeq'}
    BY <1>1, <1>3 DEF RoomInv, TypeOK, Barrier
  <2>2. verifying' \subseteq Client \X barriers'
    BY <1>3 DEF RoomInv, TypeOK
  <2>3. DOMAIN log' \subseteq Nat
    BY <1>1, <1>4 DEF RoomInv, TypeOK
  <2> QED
    BY <1>1, <1>3, <1>4, <2>1, <2>2, <2>3 DEF RoomInv, TypeOK
<1>6. ExactlyOnceHistory'
  BY <1>1 DEF RoomInv, ExactlyOnceHistory, Sequenced
<1>7. ReplayableTail'
  <2>1. /\ replayFloor' = replayFloor /\ snapshot' = snapshot
        /\ replayFloor \in Nat /\ replayFloor <= currentSeq
    BY <1>3 DEF RoomInv, TypeOK, ReplayableTail
  <2>2. (replayFloor' + 1)..currentSeq' \subseteq DOMAIN log'
    BY <1>1, <1>4, <2>1 DEF RoomInv, ReplayableTail
  <2>3. \A s \in DOMAIN log' : s # 0 /\ receipts'[log'[s]] = s
    <3>1. ASSUME NEW s \in DOMAIN log
          PROVE  s # 0 /\ receipts'[log'[s]] = s
      <4>1. s # 0 /\ receipts[log[s]] = s /\ log[s] \in AllBatch
        BY DEF RoomInv, ReplayableTail, TypeOK
      <4> QED
        BY <4>1, <1>1, <1>4
    <3>2. ASSUME NEW s \in DOMAIN log' \ DOMAIN log
          PROVE  s # 0 /\ receipts'[log'[s]] = s
      BY <1>1, <1>4
    <3> QED
      BY <3>1, <3>2, <1>4
  <2>4. replayFloor' = IF snapshot' = NoSeq THEN 0 ELSE snapshot'
    BY <1>3 DEF RoomInv, ReplayableTail
  <2>5. replayFloor' <= currentSeq'
    BY <1>1, <2>1
  <2> QED
    BY <2>2, <2>3, <2>4, <2>5 DEF ReplayableTail, NoSeq
<1>8. FrozenFrontier'
  BY <1>2, <1>3 DEF FrozenFrontier, Frozen
<1>9. IntegrationIsolated'
  BY <1>2, <1>3 DEF RoomInv, IntegrationIsolated, Integrating, Buffered
<1> QED
  BY <1>5, <1>6, <1>7, <1>8, <1>9 DEF RoomInv

\* A batch parked by an integration keeps RoomInv (acceptBatch, buffered branch).
LEMMA BufferKeepsInv ==
    ASSUME RoomInv, NEW b \in Batch, BufferBatch(b)
    PROVE  RoomInv'
<1>1. /\ integration \in Integration
      /\ integration' \in Integration
      /\ integration'.base = integration.base
      /\ integration'.count = integration.count + 1
      /\ integration.count \in Nat /\ integration.count < BufferLimit
  BY DEF RoomInv, TypeOK, BufferBatch, Integrating, Integration
<1>2. /\ buffer \in [AllBatch -> Nat] /\ buffer' \in [AllBatch -> Nat]
      /\ b \in AllBatch /\ buffer[b] = 0 /\ buffer'[b] = integration.count + 1
      /\ \A x \in AllBatch \ {b} : buffer'[x] = buffer[x]
  BY <1>1 DEF RoomInv, TypeOK, BufferBatch, AllBatch
<1>3. /\ integration # NoIntegration /\ integration' # NoIntegration
      /\ fence = NoSeq /\ receipts[b] = 0
  BY <1>1, NullsApart DEF Integration, BufferBatch, Frozen, Integrating
<1>4. UNCHANGED <<logVars, snapshotVars, fence, barrierVars, leaseVars>>
  BY DEF BufferBatch
<1> USE DEF logVars, snapshotVars, barrierVars, leaseVars
<1>5. TypeOK'
  BY <1>1, <1>2, <1>4 DEF RoomInv, TypeOK
<1>6. ExactlyOnceHistory'
  BY <1>4 DEF RoomInv, ExactlyOnceHistory, Sequenced
<1>7. ReplayableTail'
  BY <1>4 DEF RoomInv, ReplayableTail
<1>8. FrozenFrontier'
  BY <1>3, <1>4 DEF FrozenFrontier, Frozen
<1>9. IntegrationIsolated'
  <2>0. IntegrationIsolated
    BY DEF RoomInv
  <2>1. /\ Buffered' = Buffered \cup {b}
        /\ Sequenced' = Sequenced /\ b \notin Sequenced
    BY <1>1, <1>2, <1>3, <1>4 DEF Buffered, Sequenced
  <2>2. \A k \in 1..integration'.count : \E x \in Buffered' : buffer'[x] = k
    <3> SUFFICES ASSUME NEW k \in 1..integration'.count
                 PROVE  \E x \in Buffered' : buffer'[x] = k
      OBVIOUS
    <3>1. CASE k = integration.count + 1
      BY <3>1, <1>2, <2>1
    <3>2. CASE k \in 1..integration.count
      <4>1. PICK x \in Buffered : buffer[x] = k
        BY <3>2, <2>0, <1>3 DEF IntegrationIsolated, Integrating
      <4>2. x # b /\ x \in AllBatch
        BY <4>1, <1>2 DEF Buffered
      <4> QED
        BY <4>1, <4>2, <1>2, <2>1
    <3> QED
      BY <3>1, <3>2, <1>1
  <2>3. integration'.count <= BufferLimit
    BY <1>1, LimitsPositive
  <2>4. \A x \in Buffered : buffer[x] \in Nat /\ buffer[x] <= integration.count
    BY <2>0, <1>2, <1>3 DEF IntegrationIsolated, Integrating, Buffered
  <2>5. \A x \in Buffered : x # b /\ buffer'[x] = buffer[x]
    BY <1>2 DEF Buffered
  <2>6. /\ \A x, y \in Buffered' : buffer'[x] = buffer'[y] => x = y
        /\ \A x \in Buffered' : buffer'[x] <= integration'.count
    <3>1. \A x, y \in Buffered : buffer[x] = buffer[y] => x = y
      BY <2>0, <1>3 DEF IntegrationIsolated, Integrating
    <3> QED
      BY <1>1, <1>2, <2>1, <2>4, <2>5, <3>1
  <2>7. Buffered \cap Sequenced = {} /\ Buffered \subseteq Batch /\ integration.base = currentSeq
    BY <2>0, <1>3 DEF IntegrationIsolated, Integrating
  <2> QED
    BY <1>1, <1>3, <1>4, <2>1, <2>2, <2>3, <2>6, <2>7 DEF IntegrationIsolated, Integrating
<1> QED
  BY <1>5, <1>6, <1>7, <1>8, <1>9 DEF RoomInv

(***************************************************************************)
(* Ending an integration                                                   *)
(***************************************************************************)
\* Where SequenceAll puts each batch: the system batch after the head, the parked
\* batches after it in their order, and no other batch moves.
LEMMA SequencingPlaces ==
    ASSUME RoomInv, Integrating, NEW sys \in SystemBatch \cup {NoBatch},
           sys # NoBatch => receipts[sys] = 0, SequenceAll(sys)
    PROVE  /\ sys # NoBatch => receipts'[sys] = currentSeq + 1
           /\ \A b \in Buffered :
                receipts'[b] = currentSeq + (IF sys = NoBatch THEN 0 ELSE 1) + buffer[b]
           /\ \A b \in AllBatch : b \notin Buffered /\ b # sys => receipts'[b] = receipts[b]
<1> DEFINE first == IF sys = NoBatch THEN 0 ELSE 1
           new   == (Buffered \cup {sys}) \ (Sequenced \cup {NoBatch})
<1>1. Buffered \subseteq Batch /\ Buffered \cap Sequenced = {}
  BY DEF RoomInv, IntegrationIsolated
<1>2. /\ \A b \in Buffered : b \in new /\ b \in AllBatch /\ b # sys
      /\ sys # NoBatch => sys \in new /\ sys \in AllBatch
      /\ \A b \in new : b \in Buffered \/ b = sys
  <2>1. \A b \in Batch : b # NoBatch
    BY NullsApart
  <2>2. \A b \in Buffered : b \in new /\ b \in AllBatch /\ b # sys
    BY <1>1, <2>1, BatchesApart DEF AllBatch
  <2>3. sys # NoBatch => sys \in new /\ sys \in AllBatch
    BY DEF Sequenced, AllBatch
  <2> QED
    BY <2>2, <2>3
<1> HIDE DEF first
<1>3. receipts' = [b \in AllBatch |->
                        CASE b \notin new -> receipts[b]
                          [] b = sys      -> currentSeq + 1
                          [] OTHER        -> currentSeq + first + buffer[b]]
  BY DEF SequenceAll, first
<1> HIDE DEF new
<1>4. ASSUME NEW b \in AllBatch, b \notin Buffered, b # sys
      PROVE  receipts'[b] = receipts[b]
  <2>1. b \notin new
    BY <1>2, <1>4
  <2> QED
    BY <1>3, <1>4, <2>1
<1>5. ASSUME sys # NoBatch PROVE receipts'[sys] = currentSeq + 1
  <2>1. sys \in AllBatch /\ ~(sys \notin new)
    BY <1>2, <1>5
  <2> QED
    BY <1>3, <2>1
<1>6. ASSUME NEW b \in Buffered PROVE receipts'[b] = currentSeq + first + buffer[b]
  <2>1. b \in AllBatch /\ ~(b \notin new) /\ b # sys
    BY <1>2
  <2> QED
    BY <1>3, <2>1
<1> QED
  BY <1>4, <1>5, <1>6 DEF first

\* Sequencing the system batch and the parked ones keeps the history exact: the
\* buffer numbers the parked batches 1..count, so the new places are the next
\* first + count sequences, each used once.
LEMMA SequencingKeepsHistory ==
    ASSUME RoomInv, Integrating, NEW sys \in SystemBatch \cup {NoBatch},
           sys # NoBatch => receipts[sys] = 0, SequenceAll(sys)
    PROVE  /\ currentSeq' \in Nat /\ currentSeq <= currentSeq'
           /\ receipts' \in [AllBatch -> Nat]
           /\ \A b \in AllBatch : receipts'[b] = receipts[b] \/ (receipts[b] = 0 /\ receipts'[b] > currentSeq)
           /\ DOMAIN log' \subseteq Nat
           /\ log' \in [DOMAIN log' -> AllBatch]
           /\ DOMAIN log \subseteq DOMAIN log'
           /\ (currentSeq + 1)..currentSeq' \subseteq DOMAIN log'
           /\ \A s \in DOMAIN log' : s # 0 /\ receipts'[log'[s]] = s
           /\ ExactlyOnceHistory'
<1> DEFINE first == IF sys = NoBatch THEN 0 ELSE 1
           new   == (Buffered \cup {sys}) \ (Sequenced \cup {NoBatch})
<1>1. /\ currentSeq \in Nat /\ receipts \in [AllBatch -> Nat]
      /\ buffer \in [AllBatch -> Nat]
      /\ integration \in Integration /\ integration.count \in Nat
  BY DEF RoomInv, TypeOK, Integrating, Integration
<1>2. /\ Buffered \subseteq Batch /\ Buffered \cap Sequenced = {}
      /\ \A b1, b2 \in Buffered : buffer[b1] = buffer[b2] => b1 = b2
      /\ \A b \in Buffered : buffer[b] \in 1..integration.count
      /\ \A k \in 1..integration.count : \E b \in Buffered : buffer[b] = k
  BY <1>1 DEF RoomInv, IntegrationIsolated, Buffered
<1>3. first \in {0, 1} /\ (sys # NoBatch => first = 1)
  OBVIOUS
<1>4. /\ Buffered \subseteq new /\ new \subseteq AllBatch
      /\ \A b \in new : b \in Buffered \/ b = sys
      /\ sys # NoBatch => sys \in new /\ sys \notin Buffered
      /\ sys \notin Buffered
      /\ \A b \in new : receipts[b] = 0
  <2>1. \A b \in Batch : b # NoBatch
    BY NullsApart
  <2>2. Buffered \subseteq new /\ sys \notin Buffered
    BY <1>2, <2>1, BatchesApart
  <2>3. sys # NoBatch => sys \in new
    BY DEF Sequenced
  <2> QED
    BY <1>2, <2>2, <2>3 DEF AllBatch, Buffered, Sequenced
<1> HIDE DEF first
<1>5. /\ currentSeq' = currentSeq + first + integration.count
      /\ receipts' = [b \in AllBatch |->
                        CASE b \notin new -> receipts[b]
                          [] b = sys      -> currentSeq + 1
                          [] OTHER        -> currentSeq + first + buffer[b]]
      /\ log' = WithRows(new, receipts')
  BY DEF SequenceAll, first
<1> HIDE DEF new
<1>6. /\ \A b \in AllBatch \ new : receipts'[b] = receipts[b]
      /\ sys # NoBatch => receipts'[sys] = currentSeq + 1
      /\ \A b \in Buffered : receipts'[b] = currentSeq + first + buffer[b]
  <2>1. \A b \in AllBatch \ new : b \notin Buffered /\ b # sys
    BY <1>4, NullsApart DEF AllBatch
  <2> QED
    BY <2>1, SequencingPlaces DEF first
<1>7. \A b \in new : /\ receipts'[b] \in Nat
                      /\ receipts'[b] > currentSeq /\ receipts'[b] <= currentSeq'
  <2>1. ASSUME NEW b \in Buffered
        PROVE  /\ receipts'[b] \in Nat
               /\ receipts'[b] > currentSeq /\ receipts'[b] <= currentSeq'
    <3>1. receipts'[b] = currentSeq + first + buffer[b] /\ buffer[b] \in 1..integration.count
      BY <1>2, <1>6
    <3> QED
      BY <1>1, <1>3, <1>5, <3>1
  <2>2. ASSUME sys # NoBatch
        PROVE  /\ receipts'[sys] \in Nat
               /\ receipts'[sys] > currentSeq /\ receipts'[sys] <= currentSeq'
    BY <1>1, <1>3, <1>5, <1>6, <2>2
  <2>3. \A b \in new : b \in Buffered \/ (b = sys /\ sys # NoBatch)
    BY <1>4 DEF new
  <2> QED
    BY <2>1, <2>2, <2>3
<1>8. currentSeq' \in Nat /\ currentSeq <= currentSeq'
  BY <1>1, <1>3, <1>5
<1>9. receipts' \in [AllBatch -> Nat]
  <2>1. \A b \in AllBatch : receipts'[b] \in Nat
    BY <1>1, <1>6, <1>7
  <2>2. receipts' = [b \in AllBatch |-> receipts'[b]]
    BY <1>5
  <2> QED
    BY <2>1, <2>2
<1>10. Sequenced' = Sequenced \cup new
  BY <1>1, <1>4, <1>6, <1>7, <1>9 DEF Sequenced
<1>11. /\ \A b \in Sequenced : b \notin new /\ receipts'[b] = receipts[b] /\ receipts[b] <= currentSeq
       /\ \A b1, b2 \in Sequenced : receipts[b1] = receipts[b2] => b1 = b2
       /\ \A s \in 1..currentSeq : \E b \in AllBatch : receipts[b] = s
  BY <1>4, <1>6 DEF RoomInv, ExactlyOnceHistory, Sequenced
<1>12. \A s \in (currentSeq + 1)..currentSeq' : \E b \in new : receipts'[b] = s
  <2> SUFFICES ASSUME NEW s \in (currentSeq + 1)..currentSeq'
               PROVE  \E b \in new : receipts'[b] = s
    OBVIOUS
  <2>1. CASE sys # NoBatch /\ s = currentSeq + 1
    BY <2>1, <1>4, <1>6
  <2>2. CASE ~(sys # NoBatch /\ s = currentSeq + 1)
    <3>1. sys = NoBatch => first = 0
      BY DEF first
    <3>2. s - currentSeq - first \in 1..integration.count
      BY <1>1, <1>3, <1>5, <2>2, <3>1
    <3>3. PICK b \in Buffered : buffer[b] = s - currentSeq - first
      BY <1>2, <3>2
    <3>4. receipts'[b] = currentSeq + first + (s - currentSeq - first)
      BY <1>6, <3>3
    <3> QED
      BY <1>1, <1>3, <1>4, <3>3, <3>4
  <2> QED
    BY <2>1, <2>2
<1>13. ExactlyOnceHistory'
  <2>1. ASSUME NEW b1 \in Sequenced', NEW b2 \in Sequenced', receipts'[b1] = receipts'[b2]
        PROVE  b1 = b2
    <3>1. CASE b1 \in Sequenced /\ b2 \in Sequenced
      BY <2>1, <3>1, <1>11
    <3>2. CASE (b1 \in Sequenced /\ b2 \in new) \/ (b1 \in new /\ b2 \in Sequenced)
      <4>1. ASSUME NEW x \in Sequenced, NEW y \in new, receipts'[x] = receipts'[y]
            PROVE  FALSE
        <5>1. receipts[x] <= currentSeq /\ receipts'[y] > currentSeq /\ receipts[x] = receipts'[y]
          BY <4>1, <1>7, <1>11
        <5>2. receipts'[y] \in Nat
          BY <1>7
        <5> QED
          BY <5>1, <5>2, <1>1
      <4> QED
        BY <2>1, <3>2, <4>1
    <3>3. CASE b1 \in Buffered /\ b2 \in Buffered
      <4>1. /\ receipts'[b1] = currentSeq + first + buffer[b1]
            /\ receipts'[b2] = currentSeq + first + buffer[b2]
            /\ buffer[b1] \in Nat /\ buffer[b2] \in Nat
        BY <3>3, <1>2, <1>6
      <4>2. currentSeq + first + buffer[b1] = currentSeq + first + buffer[b2]
        BY <2>1, <4>1
      <4>3. first \in Nat
        BY <1>3
      <4>4. buffer[b1] = buffer[b2]
        <5> HIDE <2>1
        <5> QED BY <4>1, <4>2, <4>3, <1>1
      <4> QED
        BY <3>3, <4>4, <1>2
    <3>4. CASE b1 \in new /\ b2 \in new /\ ~(b1 \in Buffered /\ b2 \in Buffered)
      <4>1. ASSUME NEW x \in Buffered, sys # NoBatch
            PROVE  receipts'[x] # receipts'[sys]
        <5>1. /\ receipts'[x] = currentSeq + 1 + buffer[x] /\ buffer[x] \in 1..integration.count
              /\ receipts'[sys] = currentSeq + 1
          BY <4>1, <1>2, <1>3, <1>6
        <5> QED
          BY <5>1, <1>1
      <4>2. \A b \in new : b \in Buffered \/ (b = sys /\ sys # NoBatch)
        BY <1>4 DEF new
      <4> QED
        BY <2>1, <3>4, <4>1, <4>2
    <3>5. (b1 \in Sequenced \/ b1 \in new) /\ (b2 \in Sequenced \/ b2 \in new)
      BY <1>10
    <3> QED
      BY <3>1, <3>2, <3>3, <3>4, <3>5
  <2>2. \A b \in Sequenced' : receipts'[b] <= currentSeq'
    <3>1. ASSUME NEW b \in Sequenced PROVE receipts'[b] <= currentSeq'
      <4>1. receipts'[b] <= currentSeq /\ receipts'[b] \in Nat
        BY <1>9, <1>11 DEF Sequenced
      <4> QED
        BY <4>1, <1>1, <1>8
    <3> QED
      BY <3>1, <1>7, <1>10
  <2>3. \A s \in 1..currentSeq' : \E b \in AllBatch : receipts'[b] = s
    <3> SUFFICES ASSUME NEW s \in 1..currentSeq'
                 PROVE  \E b \in AllBatch : receipts'[b] = s
      OBVIOUS
    <3>1. CASE s \in 1..currentSeq
      <4>1. PICK b \in AllBatch : receipts[b] = s
        BY <3>1, <1>11
      <4>2. b \in Sequenced
        BY <4>1, <3>1 DEF Sequenced
      <4> QED
        BY <4>1, <4>2, <1>11
    <3>2. CASE s \in (currentSeq + 1)..currentSeq'
      BY <3>2, <1>4, <1>12
    <3> QED
      BY <3>1, <3>2, <1>1, <1>8
  <2> QED
    BY <2>1, <2>2, <2>3 DEF ExactlyOnceHistory
<1>14. RowsAdded(log', new, receipts')
  <2>1. log \in [DOMAIN log -> AllBatch]
    BY DEF RoomInv, TypeOK
  <2> QED
    BY <2>1, <1>4, <1>5, <1>9, WithRowsAdds
<1>15. DOMAIN log' \subseteq Nat /\ DOMAIN log \subseteq DOMAIN log'
  BY <1>7, <1>14 DEF RowsAdded, RoomInv, TypeOK
<1>16. (currentSeq + 1)..currentSeq' \subseteq DOMAIN log'
  BY <1>12, <1>14 DEF RowsAdded
<1>17. \A s \in DOMAIN log' : s # 0 /\ receipts'[log'[s]] = s
  <2>1. ASSUME NEW s \in DOMAIN log
        PROVE  s # 0 /\ receipts'[log'[s]] = s
    <3>1. s # 0 /\ receipts[log[s]] = s /\ log[s] \in AllBatch
      BY DEF RoomInv, ReplayableTail, TypeOK
    <3>2. log[s] \in Sequenced /\ log'[s] = log[s]
      BY <3>1, <1>14 DEF Sequenced, RowsAdded
    <3> QED
      BY <3>1, <3>2, <1>11
  <2>2. ASSUME NEW s \in DOMAIN log' \ DOMAIN log
        PROVE  s # 0 /\ receipts'[log'[s]] = s
    <3>1. log'[s] \in new /\ receipts'[log'[s]] = s
      BY <1>14 DEF RowsAdded
    <3> QED
      BY <3>1, <1>1, <1>7
  <2> QED
    BY <2>1, <2>2, <1>15
<1>18. \A b \in AllBatch : receipts'[b] = receipts[b] \/ (receipts[b] = 0 /\ receipts'[b] > currentSeq)
  BY <1>4, <1>6, <1>7
<1>19. log' \in [DOMAIN log' -> AllBatch]
  BY <1>14 DEF RowsAdded
<1> QED
  BY <1>8, <1>9, <1>13, <1>15, <1>16, <1>17, <1>18, <1>19

\* The end of an integration, finished by its owner or by the alarm.
LEMMA EndKeepsInv ==
    ASSUME RoomInv, Integrating, NEW sys \in SystemBatch \cup {NoBatch},
           sys # NoBatch => receipts[sys] = 0, EndIntegration(sys)
    PROVE  RoomInv'
<1>1. /\ currentSeq' \in Nat /\ currentSeq <= currentSeq'
      /\ receipts' \in [AllBatch -> Nat]
      /\ DOMAIN log' \subseteq Nat
      /\ log' \in [DOMAIN log' -> AllBatch]
      /\ DOMAIN log \subseteq DOMAIN log'
      /\ (currentSeq + 1)..currentSeq' \subseteq DOMAIN log'
      /\ \A s \in DOMAIN log' : s # 0 /\ receipts'[log'[s]] = s
      /\ ExactlyOnceHistory'
  BY SequencingKeepsHistory DEF EndIntegration
<1>2. /\ integration' = NoIntegration /\ buffer' = [b \in AllBatch |-> 0]
      /\ UNCHANGED <<snapshotVars, fence, barrierVars, leaseVars>>
  BY DEF EndIntegration
<1> USE DEF snapshotVars, barrierVars, leaseVars
<1>3. TypeOK'
  <2>1. currentSeq \in Nat /\ barriers \subseteq {bar \in Barrier : bar.seq <= currentSeq}
    BY DEF RoomInv, TypeOK
  <2>2. barriers' \subseteq {bar \in Barrier : bar.seq <= currentSeq'}
    BY <1>1, <1>2, <2>1 DEF Barrier
  <2> QED
    BY <1>1, <1>2, <2>2 DEF RoomInv, TypeOK
<1>4. ReplayableTail'
  <2>1. /\ currentSeq \in Nat /\ replayFloor \in Nat /\ replayFloor <= currentSeq
        /\ (replayFloor + 1)..currentSeq \subseteq DOMAIN log
    BY DEF RoomInv, TypeOK, ReplayableTail
  <2>2. replayFloor' = IF snapshot' = NoSeq THEN 0 ELSE snapshot'
    BY <1>2 DEF RoomInv, ReplayableTail
  <2>3. replayFloor' = replayFloor
    BY <1>2
  <2>4. replayFloor' <= currentSeq' /\ (replayFloor' + 1)..currentSeq' \subseteq DOMAIN log'
    BY <1>1, <2>1, <2>3
  <2> QED
    BY <1>1, <2>2, <2>4 DEF ReplayableTail, NoSeq
<1>5. FrozenFrontier'
  BY <1>2 DEF RoomInv, FrozenFrontier, Frozen
<1>6. IntegrationIsolated'
  BY <1>2 DEF IntegrationIsolated, Integrating, Buffered
<1> QED
  BY <1>1, <1>3, <1>4, <1>5, <1>6 DEF RoomInv

(***************************************************************************)
(* Beginning an integration, and its lapse                                 *)
(***************************************************************************)
\* An integration that begins at the head keeps RoomInv (handleIntegrationBegin).
LEMMA BeginKeepsInv ==
    ASSUME RoomInv, NEW c \in Client, BeginIntegration(c)
    PROVE  RoomInv'
<1> DEFINE begun == [owner |-> c, generation |-> generation,
                     base |-> currentSeq, count |-> 0, expired |-> FALSE]
<1>1. /\ integration' = begun /\ fence = NoSeq /\ integration = NoIntegration
      /\ UNCHANGED <<logVars, snapshotVars, buffer, fence, barrierVars, leaseVars>>
  BY DEF BeginIntegration, Frozen, Integrating
<1>2. begun \in Integration /\ begun.base = currentSeq /\ begun.count = 0
  BY DEF Integration, RoomInv, TypeOK
<1> HIDE DEF begun
<1>3. integration' # NoIntegration
  BY <1>1, <1>2, NullsApart DEF Integration
<1> USE DEF logVars, snapshotVars, barrierVars, leaseVars
<1>4. TypeOK'
  BY <1>1, <1>2 DEF RoomInv, TypeOK
<1>5. ExactlyOnceHistory' /\ ReplayableTail'
  BY <1>1 DEF RoomInv, ExactlyOnceHistory, Sequenced, ReplayableTail
<1>6. FrozenFrontier'
  BY <1>1 DEF FrozenFrontier, Frozen
<1>7. IntegrationIsolated'
  <2>1. Buffered = {} /\ Buffered' = Buffered
    BY <1>1 DEF RoomInv, IntegrationIsolated, Integrating, Buffered
  <2>2. integration'.base = currentSeq' /\ integration'.count = 0
    BY <1>1, <1>2
  <2>3. integration'.count <= BufferLimit /\ 1..integration'.count = {}
    BY <2>2, LimitsPositive
  <2> QED
    BY <1>3, <2>1, <2>2, <2>3 DEF IntegrationIsolated, Integrating
<1> QED
  BY <1>4, <1>5, <1>6, <1>7 DEF RoomInv

\* An integration whose time ran out is still the same integration.
LEMMA LapseKeepsInv ==
    ASSUME RoomInv, IntegrationLapses
    PROVE  RoomInv'
<1>1. /\ integration \in Integration /\ integration' \in Integration
      /\ integration'.base = integration.base
      /\ integration'.count = integration.count
      /\ integration # NoIntegration
  BY DEF RoomInv, TypeOK, IntegrationLapses, Integrating, Integration
<1>2. UNCHANGED <<logVars, snapshotVars, buffer, fence, barrierVars, leaseVars>>
  BY DEF IntegrationLapses
<1>3. integration' # NoIntegration
  BY <1>1, NullsApart DEF Integration
<1> USE DEF logVars, snapshotVars, barrierVars, leaseVars
<1>4. TypeOK'
  BY <1>1, <1>2 DEF RoomInv, TypeOK
<1>5. ExactlyOnceHistory' /\ ReplayableTail'
  BY <1>2 DEF RoomInv, ExactlyOnceHistory, Sequenced, ReplayableTail
<1>6. FrozenFrontier'
  BY <1>1, <1>2 DEF RoomInv, FrozenFrontier, Frozen, Integrating
<1>7. IntegrationIsolated'
  <2>1. Buffered' = Buffered /\ Sequenced' = Sequenced
    BY <1>2 DEF Buffered, Sequenced
  <2> QED
    BY <1>1, <1>2, <1>3, <2>1 DEF RoomInv, IntegrationIsolated, Integrating
<1> QED
  BY <1>4, <1>5, <1>6, <1>7 DEF RoomInv

(***************************************************************************)
(* Steps that leave the log, the snapshot and the integration alone and at *)
(* most release the fence.                                                 *)
(***************************************************************************)
\* A step that changes none of the room's state keeps RoomInv.
LEMMA QuietKeepsInv ==
    ASSUME RoomInv, TypeOK', fence' \in {fence, NoSeq},
           UNCHANGED <<logVars, snapshotVars, integrationVars>>
    PROVE  RoomInv'
<1> USE DEF logVars, snapshotVars, integrationVars
<1>1. Buffered' = Buffered /\ Sequenced' = Sequenced /\ Integrating' = Integrating
  BY DEF Buffered, Sequenced, Integrating
<1>2. ExactlyOnceHistory' /\ ReplayableTail'
  BY DEF RoomInv, ExactlyOnceHistory, Sequenced, ReplayableTail
<1>3. FrozenFrontier'
  BY <1>1 DEF RoomInv, FrozenFrontier, Frozen
<1>4. IntegrationIsolated'
  BY <1>1 DEF RoomInv, IntegrationIsolated
<1> QED
  BY <1>2, <1>3, <1>4 DEF RoomInv

\* A new barrier is at the head.
LEMMA NewBarrierKeepsInv ==
    ASSUME RoomInv, NEW c \in Client \cup {NoClient}, NEW g \in Nat, NewBarrier(c, g)
    PROVE  RoomInv'
<1> DEFINE bar == [client |-> c, generation |-> g, seq |-> currentSeq]
<1>1. currentSeq \in Nat
  BY DEF RoomInv, TypeOK
<1>2. bar \in Barrier /\ bar.seq <= currentSeq
  BY <1>1 DEF Barrier
<1>3. barriers' = barriers \cup {bar}
  BY DEF NewBarrier
<1>4. UNCHANGED <<logVars, snapshotVars, integrationVars, fence, verifying, leaseVars>>
  BY DEF NewBarrier
<1> HIDE DEF bar
<1>5. TypeOK'
  <2>1. verifying' \subseteq Client \X barriers'
    BY <1>3, <1>4 DEF RoomInv, TypeOK
  <2>2. barriers' \subseteq {x \in Barrier : x.seq <= currentSeq'}
    BY <1>2, <1>3, <1>4 DEF RoomInv, TypeOK, logVars
  <2> QED
    BY <1>4, <2>1, <2>2 DEF RoomInv, TypeOK, logVars, snapshotVars, integrationVars, leaseVars
<1> QED
  BY <1>4, <1>5, QuietKeepsInv

\* A publication sent to the object store names a barrier that was handed out.
LEMMA VerifyKeepsInv ==
    ASSUME RoomInv, NEW c \in Client, NEW bar \in barriers, VerifySnapshot(c, bar)
    PROVE  RoomInv'
<1>1. /\ verifying' = verifying \cup {<<c, bar>>}
      /\ UNCHANGED <<logVars, snapshotVars, integrationVars, fence, barriers, leaseVars>>
  BY DEF VerifySnapshot
<1>2. TypeOK'
  BY <1>1 DEF RoomInv, TypeOK, logVars, snapshotVars, integrationVars, leaseVars
<1> QED
  BY <1>1, <1>2, QuietKeepsInv

\* A fence is prepared over a snapshot of the head, with no integration active.
LEMMA PrepareKeepsInv ==
    ASSUME RoomInv, PrepareFence
    PROVE  RoomInv'
<1>1. /\ ~Integrating /\ snapshot = currentSeq /\ fence' = currentSeq
      /\ UNCHANGED <<logVars, snapshotVars, integrationVars, barrierVars, leaseVars>>
  BY DEF PrepareFence
<1> USE DEF logVars, snapshotVars, integrationVars, barrierVars, leaseVars
<1>2. TypeOK'
  BY <1>1 DEF RoomInv, TypeOK
<1>3. ExactlyOnceHistory' /\ ReplayableTail'
  BY <1>1 DEF RoomInv, ExactlyOnceHistory, Sequenced, ReplayableTail
<1>4. FrozenFrontier'
  BY <1>1 DEF FrozenFrontier, Integrating
<1>5. IntegrationIsolated'
  BY <1>1 DEF RoomInv, IntegrationIsolated, Integrating, Buffered
<1> QED
  BY <1>2, <1>3, <1>4, <1>5 DEF RoomInv

\* Releasing the fence keeps RoomInv.
LEMMA ReleaseKeepsInv ==
    ASSUME RoomInv, ReleaseFence
    PROVE  RoomInv'
<1>1. /\ fence' = NoSeq
      /\ UNCHANGED <<logVars, snapshotVars, integrationVars, barrierVars, leaseVars>>
  BY DEF ReleaseFence
<1>2. TypeOK'
  BY <1>1 DEF RoomInv, TypeOK, logVars, snapshotVars, integrationVars, barrierVars, leaseVars
<1> QED
  BY <1>1, <1>2, QuietKeepsInv

\* Granting or losing the lease touches neither the log nor the integration.
LEMMA LeaseKeepsInv ==
    ASSUME RoomInv, (\E c \in Client : GrantLease(c)) \/ LoseLease
    PROVE  RoomInv'
<1>1. /\ leader' \in Client \cup {NoClient} /\ generation' \in Nat
      /\ UNCHANGED <<logVars, snapshotVars, integrationVars, fence, barrierVars>>
  BY DEF GrantLease, LoseLease, RoomInv, TypeOK
<1>2. TypeOK'
  BY <1>1 DEF RoomInv, TypeOK, logVars, snapshotVars, integrationVars, barrierVars
<1> QED
  BY <1>1, <1>2, QuietKeepsInv

(***************************************************************************)
(* Publication and compaction                                              *)
(***************************************************************************)
\* A compaction page removes rows at or below the floor and no other.
LEMMA CompactionKeepsTail ==
    ASSUME NEW f \in Nat, CompactPageOf(f), DOMAIN log \subseteq Nat,
           log \in [DOMAIN log -> AllBatch]
    PROVE  /\ DOMAIN log' \subseteq DOMAIN log
           /\ \A s \in DOMAIN log : s > f => s \in DOMAIN log'
           /\ \A s \in DOMAIN log' : log'[s] = log[s]
           /\ log' \in [DOMAIN log' -> AllBatch]
           /\ compactionPending' \in BOOLEAN
<1> DEFINE page == {s \in DOMAIN log : Cardinality({t \in DOMAIN log : t < s}) < CompactPage}
           kept == DOMAIN log \ {s \in page : s <= f}
<1>1. /\ log' = [s \in kept |-> log[s]]
      /\ compactionPending' = (Cardinality(page) = CompactPage /\ \A s \in page : s < f)
  BY DEF CompactPageOf
<1>2. \A s \in DOMAIN log : s > f => s \in kept
  OBVIOUS
<1>3. kept \subseteq DOMAIN log
  OBVIOUS
<1>4. compactionPending' \in BOOLEAN
  BY <1>1
<1> HIDE DEF page, kept
<1> QED
  BY <1>1, <1>2, <1>3, <1>4

\* A compaction pass of the alarm keeps RoomInv (compactReplay).
LEMMA CompactReplayKeepsInv ==
    ASSUME RoomInv, CompactReplay
    PROVE  RoomInv'
<1>1. /\ replayFloor \in Nat /\ currentSeq \in Nat /\ DOMAIN log \subseteq Nat
      /\ log \in [DOMAIN log -> AllBatch]
  BY DEF RoomInv, TypeOK
<1>2. /\ CompactPageOf(replayFloor)
      /\ UNCHANGED <<currentSeq, receipts, replayFloor, snapshot, integrationVars,
                     fence, barrierVars, leaseVars>>
  BY DEF CompactReplay
<1>3. /\ DOMAIN log' \subseteq DOMAIN log
      /\ \A s \in DOMAIN log : s > replayFloor => s \in DOMAIN log'
      /\ \A s \in DOMAIN log' : log'[s] = log[s]
      /\ log' \in [DOMAIN log' -> AllBatch]
      /\ compactionPending' \in BOOLEAN
  BY <1>1, <1>2, CompactionKeepsTail
<1> USE DEF integrationVars, barrierVars, leaseVars
<1>4. TypeOK'
  BY <1>1, <1>2, <1>3 DEF RoomInv, TypeOK
<1>5. ExactlyOnceHistory'
  BY <1>2 DEF RoomInv, ExactlyOnceHistory, Sequenced
<1>6. ReplayableTail'
  <2>1. (replayFloor + 1)..currentSeq \subseteq DOMAIN log'
    BY <1>1, <1>3 DEF RoomInv, ReplayableTail
  <2>2. \A s \in DOMAIN log' : s # 0 /\ receipts[log'[s]] = s
    BY <1>3 DEF RoomInv, ReplayableTail
  <2> QED
    BY <1>2, <2>1, <2>2 DEF RoomInv, ReplayableTail
<1>7. FrozenFrontier' /\ IntegrationIsolated'
  <2>1. Buffered' = Buffered /\ Sequenced' = Sequenced
    BY <1>2 DEF Buffered, Sequenced
  <2> QED
    BY <1>2, <2>1 DEF RoomInv, FrozenFrontier, Frozen, IntegrationIsolated, Integrating
<1> QED
  BY <1>4, <1>5, <1>6, <1>7 DEF RoomInv

\* A committed publication: its barrier is no older than the snapshot it replaces
\* and no newer than the head, so the floor moves up within the log.
LEMMA CommitKeepsInv ==
    ASSUME RoomInv, NEW c \in Client, NEW bar \in barriers, CommitSnapshot(c, bar)
    PROVE  RoomInv'
<1>1. /\ bar \in Barrier /\ bar.seq \in Nat /\ bar.seq <= currentSeq
      /\ currentSeq \in Nat /\ replayFloor \in Nat
      /\ snapshot \in Nat \cup {NoSeq}
      /\ DOMAIN log \subseteq Nat /\ log \in [DOMAIN log -> AllBatch]
  BY DEF RoomInv, TypeOK, Barrier
<1>2. /\ verifying' = verifying \ {<<c, bar>>}
      /\ UNCHANGED <<currentSeq, receipts, integrationVars, fence, barriers, leaseVars>>
  BY DEF CommitSnapshot
<1>3. CASE UNCHANGED <<log, snapshotVars>>
  <2>1. TypeOK'
    BY <1>2, <1>3 DEF RoomInv, TypeOK, snapshotVars, integrationVars, leaseVars
  <2> QED
    BY <1>2, <1>3, <2>1, QuietKeepsInv DEF logVars
<1>4. CASE /\ ~Frozen /\ snapshot <= bar.seq
           /\ snapshot' = bar.seq /\ replayFloor' = bar.seq
           /\ CompactPageOf(bar.seq)
  <2>1. /\ DOMAIN log' \subseteq DOMAIN log
        /\ \A s \in DOMAIN log : s > bar.seq => s \in DOMAIN log'
        /\ \A s \in DOMAIN log' : log'[s] = log[s]
        /\ log' \in [DOMAIN log' -> AllBatch]
        /\ compactionPending' \in BOOLEAN
    BY <1>1, <1>4, CompactionKeepsTail
  <2> USE DEF integrationVars, leaseVars
  <2>2. TypeOK'
    BY <1>1, <1>2, <1>4, <2>1 DEF RoomInv, TypeOK
  <2>3. ExactlyOnceHistory'
    BY <1>2 DEF RoomInv, ExactlyOnceHistory, Sequenced
  <2>4. ReplayableTail'
    <3>1. replayFloor <= bar.seq
      BY <1>1, <1>4 DEF RoomInv, ReplayableTail
    <3>2. (bar.seq + 1)..currentSeq \subseteq DOMAIN log'
      BY <1>1, <2>1, <3>1 DEF RoomInv, ReplayableTail
    <3>3. \A s \in DOMAIN log' : s # 0 /\ receipts[log'[s]] = s
      BY <2>1 DEF RoomInv, ReplayableTail
    <3>4. snapshot' # NoSeq /\ replayFloor' = snapshot' /\ replayFloor' <= currentSeq'
      BY <1>1, <1>2, <1>4 DEF NoSeq
    <3> QED
      BY <1>2, <1>4, <3>2, <3>3, <3>4 DEF ReplayableTail, NoSeq
  <2>5. FrozenFrontier'
    BY <1>2, <1>4 DEF FrozenFrontier, Frozen
  <2>6. IntegrationIsolated'
    <3>1. Buffered' = Buffered /\ Sequenced' = Sequenced
      BY <1>2 DEF Buffered, Sequenced
    <3> QED
      BY <1>2, <3>1 DEF RoomInv, IntegrationIsolated, Integrating
  <2> QED
    BY <2>2, <2>3, <2>4, <2>5, <2>6 DEF RoomInv
<1> QED
  BY <1>3, <1>4 DEF CommitSnapshot

(***************************************************************************)
(* The whole next-state relation                                           *)
(***************************************************************************)
\* Every step of the room keeps RoomInv: one case for each action of Next.
LEMMA NextKeepsInv == RoomInv /\ [Next]_vars => RoomInv'
<1> SUFFICES ASSUME RoomInv, [Next]_vars PROVE RoomInv'
  OBVIOUS
<1>1. ASSUME NEW b \in Batch, AcceptBatch(b) PROVE RoomInv'
  BY <1>1, AppendKeepsInv, BufferKeepsInv DEF AcceptBatch
<1>2. ASSUME NEW c \in Client, BeginIntegration(c) PROVE RoomInv'
  BY <1>2, BeginKeepsInv
<1>3. ASSUME NEW c \in Client, NEW sys \in SystemBatch \cup {NoBatch}, FinishIntegration(c, sys)
      PROVE  RoomInv'
  BY <1>3, EndKeepsInv DEF FinishIntegration
<1>4. CASE IntegrationLapses
  BY <1>4, LapseKeepsInv
<1>5. CASE ExpireIntegration
  BY <1>5, EndKeepsInv DEF ExpireIntegration
<1>6. ASSUME NEW c \in Client, SnapshotBarrier(c) \/ LeaseBarrier(c) PROVE RoomInv'
  <2>1. generation \in Nat
    BY DEF RoomInv, TypeOK
  <2> QED
    BY <1>6, <2>1, NewBarrierKeepsInv DEF SnapshotBarrier, LeaseBarrier
<1>7. ASSUME NEW c \in Client, NEW bar \in barriers, VerifySnapshot(c, bar) PROVE RoomInv'
  BY <1>7, VerifyKeepsInv
<1>8. ASSUME NEW c \in Client, NEW bar \in barriers, CommitSnapshot(c, bar) PROVE RoomInv'
  BY <1>8, CommitKeepsInv
<1>9. CASE CompactReplay
  BY <1>9, CompactReplayKeepsInv
<1>10. CASE PrepareFence \/ ReleaseFence
  BY <1>10, PrepareKeepsInv, ReleaseKeepsInv
<1>11. CASE (\E c \in Client : GrantLease(c)) \/ LoseLease
  BY <1>11, LeaseKeepsInv
<1>12. CASE UNCHANGED vars
  <2>1. /\ fence' = fence
        /\ UNCHANGED <<logVars, snapshotVars, integrationVars, barrierVars, leaseVars>>
    BY <1>12 DEF vars
  <2>2. TypeOK'
    BY <2>1 DEF RoomInv, TypeOK, logVars, snapshotVars, integrationVars, barrierVars, leaseVars
  <2> QED
    BY <2>1, <2>2, QuietKeepsInv
<1> QED
  BY <1>1, <1>2, <1>3, <1>4, <1>5, <1>6, <1>7, <1>8, <1>9, <1>10, <1>11, <1>12 DEF Next

(***************************************************************************)
(* The invariants of every execution                                       *)
(***************************************************************************)
\* RoomInv holds in every state the room can reach.
THEOREM RoomInvariant == Spec => []RoomInv
<1>1. Init => RoomInv
  BY InitEstablishes
<1>2. RoomInv /\ [Next]_vars => RoomInv'
  BY NextKeepsInv
<1> QED
  BY <1>1, <1>2, PTL DEF Spec

\* The room's storage keys always have their types and no barrier is ahead of the log.
THEOREM TypeCorrect == Spec => []TypeOK
<1>1. RoomInv => TypeOK
  BY DEF RoomInv
<1> QED
  BY <1>1, RoomInvariant, PTL

\* Sequences 1..currentSeq are each held by exactly one accepted batch, however
\* batches are retried, parked and released (acceptBatch, finishIntegration).
THEOREM HistoryIsExactlyOnce == Spec => []ExactlyOnceHistory
<1>1. RoomInv => ExactlyOnceHistory
  BY DEF RoomInv
<1> QED
  BY <1>1, RoomInvariant, PTL

\* A member that knows everything up to the floor can always replay the rest
\* (handleSnapshotPublish, compactReplay, handleSyncRequest).
THEOREM TailIsReplayable == Spec => []ReplayableTail
<1>1. RoomInv => ReplayableTail
  BY DEF RoomInv
<1> QED
  BY <1>1, RoomInvariant, PTL

\* What a prepared pause or close promised stays true until the fence is released
\* (handleLifecycleFence).
THEOREM FenceFreezesFrontier == Spec => []FrozenFrontier
<1>1. RoomInv => FrozenFrontier
  BY DEF RoomInv
<1> QED
  BY <1>1, RoomInvariant, PTL

\* No edit reaches the log while an integration stages against its basis, and the
\* buffer numbers the parked edits without a gap (acceptBatch, handleIntegrationBegin).
THEOREM IntegrationsAreIsolated == Spec => []IntegrationIsolated
<1>1. RoomInv => IntegrationIsolated
  BY DEF RoomInv
<1> QED
  BY <1>1, RoomInvariant, PTL

(***************************************************************************)
(* The order of the history                                                *)
(***************************************************************************)
\* Every step that gives a batch its sequence is an append of that batch or the
\* end of an integration.
LEMMA OnlyAdmissionSequences ==
    ASSUME RoomInv, [Next]_vars
    PROVE  \/ UNCHANGED <<currentSeq, receipts>>
           \/ \E b \in Batch : AppendBatch(b)
           \/ \E sys \in SystemBatch \cup {NoBatch} :
                /\ Integrating /\ (sys # NoBatch => receipts[sys] = 0)
                /\ EndIntegration(sys)
<1> DEFINE Quiet == UNCHANGED <<currentSeq, receipts>>
<1>1. ASSUME NEW b \in Batch, AcceptBatch(b) PROVE Quiet \/ AppendBatch(b)
  BY <1>1 DEF AcceptBatch, BufferBatch, logVars
<1>2. ASSUME NEW c \in Client, BeginIntegration(c) PROVE Quiet
  BY <1>2 DEF BeginIntegration, logVars
<1>3. CASE IntegrationLapses
  BY <1>3 DEF IntegrationLapses, logVars
<1>4. ASSUME NEW c \in Client, SnapshotBarrier(c) \/ LeaseBarrier(c) PROVE Quiet
  BY <1>4 DEF SnapshotBarrier, LeaseBarrier, NewBarrier, logVars
<1>5. ASSUME NEW c \in Client, NEW bar \in barriers, VerifySnapshot(c, bar) PROVE Quiet
  BY <1>5 DEF VerifySnapshot, logVars
<1>6. ASSUME NEW c \in Client, NEW bar \in barriers, CommitSnapshot(c, bar) PROVE Quiet
  BY <1>6 DEF CommitSnapshot
<1>7. CASE CompactReplay
  BY <1>7 DEF CompactReplay
<1>8. CASE PrepareFence \/ ReleaseFence
  BY <1>8 DEF PrepareFence, ReleaseFence, logVars
<1>9. CASE (\E c \in Client : GrantLease(c)) \/ LoseLease
  BY <1>9 DEF GrantLease, LoseLease, logVars
<1>10. CASE UNCHANGED vars
  BY <1>10 DEF vars, logVars
<1>11. ASSUME NEW c \in Client, NEW sys \in SystemBatch \cup {NoBatch}, FinishIntegration(c, sys)
       PROVE  Integrating /\ (sys # NoBatch => receipts[sys] = 0) /\ EndIntegration(sys)
  BY <1>11 DEF FinishIntegration
<1>12. CASE ExpireIntegration
  BY <1>12 DEF ExpireIntegration
<1> QED
  BY <1>1, <1>2, <1>3, <1>4, <1>5, <1>6, <1>7, <1>8, <1>9, <1>10, <1>11, <1>12 DEF Next

\* A system batch is sequenced directly after the basis its integration froze
\* (finishIntegration).
THEOREM SystemBatchAfterBasis == Spec => SystemBatchFollowsBasis
<1> DEFINE Follows == \A sys \in SystemBatch :
                         receipts[sys] = 0 /\ receipts'[sys] # 0 =>
                            Integrating /\ receipts'[sys] = integration.base + 1
<1>1. RoomInv /\ [Next]_vars => [Follows]_vars
  <2> SUFFICES ASSUME RoomInv, [Next]_vars, NEW sys \in SystemBatch,
                      receipts[sys] = 0, receipts'[sys] # 0
               PROVE  Integrating /\ receipts'[sys] = integration.base + 1
    OBVIOUS
  <2>1. sys \in AllBatch /\ sys \notin Batch /\ sys # NoBatch
    BY BatchesApart, NullsApart DEF AllBatch
  <2>2. ASSUME NEW b \in Batch, AppendBatch(b) PROVE receipts'[sys] = receipts[sys]
    BY <2>1, <2>2 DEF AppendBatch, RoomInv, TypeOK
  <2>3. ASSUME NEW s \in SystemBatch \cup {NoBatch}, Integrating,
               s # NoBatch => receipts[s] = 0, EndIntegration(s)
        PROVE  receipts'[sys] = receipts[sys] \/ receipts'[sys] = integration.base + 1
    <3>1. SequenceAll(s)
      BY <2>3 DEF EndIntegration
    <3>2. sys \notin Buffered /\ integration.base = currentSeq
      BY <2>1, <2>3 DEF RoomInv, IntegrationIsolated
    <3> QED
      BY <2>1, <2>3, <3>1, <3>2, SequencingPlaces
  <2> QED
    BY <2>2, <2>3, OnlyAdmissionSequences
<1> QED
  BY <1>1, RoomInvariant, PTL DEF Spec, SystemBatchFollowsBasis

\* Batches parked by an integration keep the order they came in, and come before
\* whatever arrives later (acceptBatch, finishIntegration).
THEOREM ParkedBatchesKeepOrder == Spec => ArrivalOrderKept
<1> DEFINE Kept == \A b1, b2 \in Batch :
                      buffer[b1] # 0 /\ receipts'[b2] # 0 /\ receipts[b2] = 0
                        /\ (buffer[b2] = 0 \/ buffer[b1] < buffer[b2]) =>
                           receipts'[b1] # 0 /\ receipts'[b1] < receipts'[b2]
<1>1. RoomInv /\ [Next]_vars => [Kept]_vars
  <2> SUFFICES ASSUME RoomInv, [Next]_vars, NEW b1 \in Batch, NEW b2 \in Batch,
                      buffer[b1] # 0, receipts'[b2] # 0, receipts[b2] = 0,
                      buffer[b2] = 0 \/ buffer[b1] < buffer[b2]
               PROVE  receipts'[b1] # 0 /\ receipts'[b1] < receipts'[b2]
    OBVIOUS
  <2>1. b1 \in Buffered /\ b2 \in AllBatch
    BY DEF Buffered, AllBatch
  <2>2. Integrating
    BY <2>1 DEF RoomInv, IntegrationIsolated
  <2>3. ASSUME NEW s \in SystemBatch \cup {NoBatch}, s # NoBatch => receipts[s] = 0,
               EndIntegration(s)
        PROVE  receipts'[b1] # 0 /\ receipts'[b1] < receipts'[b2]
    <3> DEFINE first == IF s = NoBatch THEN 0 ELSE 1
    <3>1. SequenceAll(s)
      BY <2>3 DEF EndIntegration
    <3>2. /\ \A b \in Buffered : receipts'[b] = currentSeq + first + buffer[b]
          /\ \A b \in AllBatch : b \notin Buffered /\ b # s => receipts'[b] = receipts[b]
      BY <2>2, <2>3, <3>1, SequencingPlaces
    <3>3. first \in Nat /\ currentSeq \in Nat /\ buffer[b1] \in Nat /\ buffer[b2] \in Nat
      BY <2>1 DEF RoomInv, TypeOK, Buffered
    <3> HIDE DEF first
    <3>4. b2 # s
      BY BatchesApart, NullsApart
    <3>5. b2 \in Buffered
      BY <2>1, <3>2, <3>4
    <3>6. buffer[b1] < buffer[b2]
      BY <3>5 DEF Buffered
    <3>7. /\ receipts'[b1] = currentSeq + first + buffer[b1]
          /\ receipts'[b2] = currentSeq + first + buffer[b2]
      BY <2>1, <3>2, <3>5
    <3> QED
      BY <3>3, <3>6, <3>7
  <2>4. ASSUME NEW b \in Batch, AppendBatch(b) PROVE FALSE
    BY <2>2, <2>4 DEF AppendBatch
  <2> QED
    BY <2>3, <2>4, OnlyAdmissionSequences
<1> QED
  BY <1>1, RoomInvariant, PTL DEF Spec, ArrivalOrderKept

(***************************************************************************)
(* The room implements SessionHistory                                      *)
(***************************************************************************)
\* An appended batch extends the abstract history by one place.
LEMMA AppendExtends ==
    ASSUME RoomInv, RoomInv', NEW b \in Batch, AppendBatch(b)
    PROVE  History!Extend
<1>1. /\ currentSeq \in Nat /\ currentSeq' = currentSeq + 1
      /\ receipts \in [AllBatch -> Nat] /\ receipts' \in [AllBatch -> Nat]
      /\ b \in AllBatch /\ receipts[b] = 0 /\ receipts'[b] = currentSeq + 1
      /\ \A x \in AllBatch \ {b} : receipts'[x] = receipts[x]
      /\ ~Frozen /\ snapshot' = snapshot /\ fence' = fence
  BY DEF RoomInv, TypeOK, AppendBatch, AllBatch, snapshotVars
<1>2. \A x \in AllBatch : receipts[x] <= currentSeq
  BY <1>1 DEF RoomInv, ExactlyOnceHistory, Sequenced
<1>3. receipts' \in [AllBatch -> 0..currentSeq']
  BY <1>1, <1>2
<1>4. \A x \in AllBatch : IF receipts[x] # 0 THEN receipts'[x] = receipts[x]
                         ELSE receipts'[x] = 0 \/ receipts'[x] > currentSeq
  BY <1>1
<1>5. /\ \A s \in (currentSeq + 1)..currentSeq' : \E x \in AllBatch : receipts'[x] = s
      /\ \A x, y \in AllBatch : receipts'[x] = receipts'[y] /\ receipts'[x] > currentSeq => x = y
  BY <1>1, <1>2
<1>6. Frozen' = Frozen
  BY <1>1 DEF Frozen
<1> QED
  BY <1>1, <1>3, <1>4, <1>5, <1>6 DEF History!Extend

\* The end of an integration extends the abstract history by the batches it releases.
LEMMA EndExtends ==
    ASSUME RoomInv, RoomInv', Integrating, NEW sys \in SystemBatch \cup {NoBatch},
           sys # NoBatch => receipts[sys] = 0, EndIntegration(sys)
    PROVE  History!Extend \/ UNCHANGED History!vars
<1>1. /\ currentSeq' \in Nat /\ currentSeq <= currentSeq'
      /\ receipts' \in [AllBatch -> Nat]
      /\ \A b \in AllBatch : receipts'[b] = receipts[b] \/ (receipts[b] = 0 /\ receipts'[b] > currentSeq)
  BY SequencingKeepsHistory DEF EndIntegration
<1>2. /\ currentSeq \in Nat /\ receipts \in [AllBatch -> Nat]
      /\ ~Frozen /\ Frozen' = Frozen /\ snapshot' = snapshot
  BY DEF RoomInv, TypeOK, FrozenFrontier, Frozen, EndIntegration, snapshotVars
<1>3. /\ \A b \in AllBatch : receipts'[b] <= currentSeq'
      /\ \A b1, b2 \in AllBatch : receipts'[b1] # 0 /\ receipts'[b1] = receipts'[b2] => b1 = b2
      /\ \A s \in 1..currentSeq' : \E b \in AllBatch : receipts'[b] = s
  BY <1>1 DEF RoomInv, ExactlyOnceHistory, Sequenced
<1>4. CASE currentSeq' > currentSeq
  <2>1. receipts' \in [AllBatch -> 0..currentSeq']
    BY <1>1, <1>3
  <2>2. \A b \in AllBatch : IF receipts[b] # 0 THEN receipts'[b] = receipts[b]
                           ELSE receipts'[b] = 0 \/ receipts'[b] > currentSeq
    BY <1>1
  <2>3. \A s \in (currentSeq + 1)..currentSeq' : \E b \in AllBatch : receipts'[b] = s
    BY <1>1, <1>2, <1>3
  <2>4. \A b1, b2 \in AllBatch :
          receipts'[b1] = receipts'[b2] /\ receipts'[b1] > currentSeq => b1 = b2
    BY <1>2, <1>3
  <2> QED
    BY <1>1, <1>2, <1>4, <2>1, <2>2, <2>3, <2>4 DEF History!Extend
<1>5. CASE currentSeq' = currentSeq
  <2>1. \A b \in AllBatch : receipts'[b] = receipts[b]
    BY <1>1, <1>2, <1>3, <1>5
  <2>2. receipts' = receipts
    BY <1>1, <1>2, <2>1
  <2> QED
    BY <1>2, <1>5, <2>2 DEF History!vars
<1> QED
  BY <1>1, <1>2, <1>4, <1>5

\* Every step of the room is a step or a stutter of SessionHistory.
LEMMA StepImplements ==
    ASSUME RoomInv, RoomInv', [Next]_vars
    PROVE  [History!Next]_(History!vars)
<1> DEFINE Same == UNCHANGED <<currentSeq, receipts, snapshot, fence>>
<1>1. Same => UNCHANGED History!vars
  BY DEF History!vars, Frozen
<1>2. ASSUME NEW b \in Batch, AcceptBatch(b) PROVE History!Extend \/ Same
  BY <1>2, AppendExtends DEF AcceptBatch, BufferBatch, logVars, snapshotVars
<1>3. ASSUME NEW c \in Client, NEW sys \in SystemBatch \cup {NoBatch}, FinishIntegration(c, sys)
      PROVE  History!Extend \/ UNCHANGED History!vars
  BY <1>3, EndExtends DEF FinishIntegration
<1>4. ASSUME ExpireIntegration PROVE History!Extend \/ UNCHANGED History!vars
  BY <1>4, EndExtends DEF ExpireIntegration
<1>5. ASSUME NEW c \in Client, BeginIntegration(c) PROVE Same
  BY <1>5 DEF BeginIntegration, logVars, snapshotVars
<1>6. ASSUME IntegrationLapses PROVE Same
  BY <1>6 DEF IntegrationLapses, logVars, snapshotVars
<1>7. ASSUME NEW c \in Client, SnapshotBarrier(c) \/ LeaseBarrier(c) PROVE Same
  BY <1>7 DEF SnapshotBarrier, LeaseBarrier, NewBarrier, logVars, snapshotVars
<1>8. ASSUME NEW c \in Client, NEW bar \in barriers, VerifySnapshot(c, bar) PROVE Same
  BY <1>8 DEF VerifySnapshot, logVars, snapshotVars
<1>9. ASSUME NEW c \in Client, NEW bar \in barriers, CommitSnapshot(c, bar)
      PROVE  History!Publish \/ Same
  <2>1. UNCHANGED <<currentSeq, receipts, fence>>
    BY <1>9 DEF CommitSnapshot
  <2>2. CASE ~Frozen /\ snapshot <= bar.seq /\ snapshot' = bar.seq
    <3>1. /\ bar.seq \in Nat /\ bar.seq <= currentSeq /\ currentSeq \in Nat
          /\ snapshot \in Nat \cup {NoSeq}
      BY DEF RoomInv, TypeOK, Barrier
    <3>2. snapshot' \in snapshot..currentSeq
      BY <2>2, <3>1 DEF NoSeq
    <3> QED
      BY <2>1, <2>2, <3>2 DEF History!Publish, Frozen
  <2>3. CASE snapshot' = snapshot
    BY <2>1, <2>3
  <2> QED
    BY <1>9, <2>2, <2>3 DEF CommitSnapshot, snapshotVars
<1>10. ASSUME CompactReplay PROVE Same
  BY <1>10 DEF CompactReplay
<1>11. CASE PrepareFence
  <2>1. /\ ~Frozen /\ snapshot = currentSeq /\ fence' = currentSeq
        /\ UNCHANGED <<currentSeq, receipts, snapshot>> /\ currentSeq \in Nat
    BY <1>11 DEF PrepareFence, logVars, snapshotVars, RoomInv, TypeOK
  <2>2. Frozen'
    BY <2>1 DEF Frozen, NoSeq
  <2> QED
    BY <2>1, <2>2 DEF History!Next, History!Freeze, Frozen
<1>12. CASE ReleaseFence
  BY <1>12 DEF ReleaseFence, logVars, snapshotVars, Frozen, History!Next, History!Thaw
<1>13. ASSUME (\E c \in Client : GrantLease(c)) \/ LoseLease PROVE Same
  BY <1>13 DEF GrantLease, LoseLease, logVars, snapshotVars
<1>14. ASSUME UNCHANGED vars PROVE Same
  BY <1>14 DEF vars, logVars, snapshotVars
<1> HIDE DEF Same
<1> QED
  BY <1>1, <1>2, <1>3, <1>4, <1>5, <1>6, <1>7, <1>8, <1>9, <1>10, <1>11, <1>12, <1>13, <1>14
     DEF Next, History!Next

\* Whatever retries, integrations, publications and fences the room goes through,
\* it keeps the promise of SessionHistory to the members.
THEOREM RoomRefinesHistory == Spec => ImplementsHistory
<1>1. Init => History!Init
  BY DEF Init, History!Init, Frozen, NoSeq
<1>2. RoomInv /\ RoomInv' /\ [Next]_vars => [History!Next]_(History!vars)
  BY StepImplements
<1> QED
  BY <1>1, <1>2, RoomInvariant, PTL DEF Spec, ImplementsHistory, History!Spec

(***************************************************************************)
(* Compaction, for any page size: the page rule of compactReplay, which    *)
(* looks at the first rows of the log only, never forgets a row it owes.   *)
(* The argument counts: a row that is not in the page has a full page of   *)
(* rows before it.                                                         *)
(***************************************************************************)
\* The elements of D below s, and the first n elements of D.
Below(D, s) == {t \in D : t < s}
FirstOf(D, n) == {s \in D : Cardinality(Below(D, s)) < n}

\* An earlier element has fewer elements before it, and each fewer than there are.
LEMMA BelowGrows ==
    ASSUME NEW D \in SUBSET Nat, IsFiniteSet(D), NEW s \in D
    PROVE  /\ Cardinality(Below(D, s)) \in Nat
           /\ Cardinality(Below(D, s)) < Cardinality(D)
           /\ \A t \in D : t < s => Cardinality(Below(D, t)) < Cardinality(Below(D, s))
<1>1. \A t \in D : IsFiniteSet(Below(D, t)) /\ Cardinality(Below(D, t)) \in Nat
  BY FS_Subset, FS_CardinalityType DEF Below
<1>2. Cardinality(D) \in Nat
  BY FS_CardinalityType
<1>3. Cardinality(Below(D, s)) < Cardinality(D)
  <2>1. Below(D, s) \in SUBSET D /\ Below(D, s) # D
    BY DEF Below
  <2>2. Cardinality(Below(D, s)) <= Cardinality(D) /\ Cardinality(D) # Cardinality(Below(D, s))
    BY <2>1, FS_Subset
  <2> QED
    BY <1>1, <1>2, <2>2
<1>4. ASSUME NEW t \in D, t < s PROVE Cardinality(Below(D, t)) < Cardinality(Below(D, s))
  <2>1. Below(D, t) \in SUBSET Below(D, s)
    <3> SUFFICES ASSUME NEW u \in D, u < t PROVE u < s
      BY DEF Below
    <3>1. u \in Nat /\ t \in Nat /\ s \in Nat
      OBVIOUS
    <3> QED
      BY <1>4, <3>1
  <2>2. t \in Below(D, s) /\ t \notin Below(D, t)
    BY <1>4 DEF Below
  <2>3. /\ Cardinality(Below(D, t)) <= Cardinality(Below(D, s))
        /\ Cardinality(Below(D, s)) # Cardinality(Below(D, t))
    BY <1>1, <2>1, <2>2, FS_Subset
  <2> QED
    BY <1>1, <2>3
<1> QED
  BY <1>1, <1>3, <1>4

\* If an element is not among the first n, the first n are n elements.
LEMMA FullPage ==
    ASSUME NEW D \in SUBSET Nat, IsFiniteSet(D), NEW n \in Nat, NEW x \in D,
           x \notin FirstOf(D, n)
    PROVE  Cardinality(FirstOf(D, n)) = n
<1> DEFINE m == Cardinality(D)
           rank == [s \in D |-> Cardinality(Below(D, s))]
           page == FirstOf(D, n)
           first == [s \in page |-> Cardinality(Below(D, s))]
<1>1. m \in Nat
  BY FS_CardinalityType
<1>2. \A s \in D : Cardinality(Below(D, s)) \in 0..(m - 1)
  BY <1>1, BelowGrows
<1>3. \A s, t \in D : Cardinality(Below(D, s)) = Cardinality(Below(D, t)) => s = t
  <2> SUFFICES ASSUME NEW s \in D, NEW t \in D, s # t
               PROVE  Cardinality(Below(D, s)) # Cardinality(Below(D, t))
    OBVIOUS
  <2>1. s < t \/ t < s
    OBVIOUS
  <2> QED
    BY <2>1, BelowGrows
<1>4. rank \in Injection(D, 0..(m - 1))
  BY <1>2, <1>3 DEF Injection, IsInjective
<1>5. IsFiniteSet(0..(m - 1)) /\ Cardinality(0..(m - 1)) = m
  <2>1. m - 1 \in Int /\ 0 \in Int /\ (IF 0 > m - 1 THEN 0 ELSE (m - 1) - 0 + 1) = m
    BY <1>1
  <2> HIDE DEF m
  <2> QED
    BY <2>1, FS_Interval
<1>6. rank \in Surjection(D, 0..(m - 1))
  BY <1>4, <1>5, FS_Injection
<1>7. \A k \in 0..(m - 1) : \E s \in D : Cardinality(Below(D, s)) = k
  BY <1>6 DEF Surjection
<1>8. n <= m - 1
  BY <1>1, <1>2 DEF FirstOf
<1>9. page \in SUBSET D /\ \A s \in D : s \in page <=> Cardinality(Below(D, s)) < n
  BY DEF FirstOf
<1>10. first \in Injection(page, 0..(n - 1))
  <2>1. ASSUME NEW s \in page PROVE Cardinality(Below(D, s)) \in 0..(n - 1)
    <3>1. s \in D /\ Cardinality(Below(D, s)) < n
      BY <1>9
    <3>2. Cardinality(Below(D, s)) \in 0..(m - 1)
      BY <1>2, <3>1
    <3> HIDE DEF m, page
    <3> QED
      BY <1>1, <3>1, <3>2
  <2>2. first \in [page -> 0..(n - 1)]
    BY <2>1
  <2>3. \A s, t \in page : first[s] = first[t] => s = t
    BY <1>3, <1>9
  <2> QED
    BY <2>2, <2>3 DEF Injection, IsInjective
<1>11. first \in Surjection(page, 0..(n - 1))
  <2>1. \A k \in 0..(n - 1) : \E s \in page : Cardinality(Below(D, s)) = k
    BY <1>1, <1>7, <1>8, <1>9
  <2> QED
    BY <1>10, <2>1 DEF Injection, IsInjective, Surjection
<1>12. IsFiniteSet(0..(n - 1)) /\ Cardinality(0..(n - 1)) = n
  BY FS_Interval
<1> QED
  BY <1>10, <1>11, <1>12, FS_Injection

\* A compaction page that clears the flag leaves no row at or below the floor.
LEMMA PageRuleStopsLate ==
    ASSUME RoomInv, NEW f \in Nat, CompactPageOf(f), ~compactionPending'
    PROVE  \A s \in DOMAIN log' : s > f
<1> DEFINE D == DOMAIN log
           page == {s \in D : Cardinality({t \in D : t < s}) < CompactPage}
<1>1. /\ log' = [s \in D \ {s \in page : s <= f} |-> log[s]]
      /\ compactionPending' = (Cardinality(page) = CompactPage /\ \A s \in page : s < f)
  BY DEF CompactPageOf
<1>2. page = FirstOf(D, CompactPage)
  BY DEF FirstOf, Below
<1>3. D \in SUBSET Nat /\ IsFiniteSet(D) /\ CompactPage \in Nat
  <2>1. D \in SUBSET Nat /\ currentSeq \in Nat
    BY DEF RoomInv, TypeOK
  <2>2. \A s \in D : s <= currentSeq
    BY DEF RoomInv, TypeOK, ReplayableTail, ExactlyOnceHistory, Sequenced
  <2> QED
    BY <2>1, <2>2, FS_BoundedSetOfNaturals, LimitsPositive
<1> HIDE DEF D, page
<1> SUFFICES ASSUME NEW s \in D, s \notin page \/ ~(s <= f) PROVE s > f
  BY <1>1
<1>4. CASE ~(s <= f)
  BY <1>3, <1>4
<1>5. CASE s \notin page
  <2>1. Cardinality(page) = CompactPage
    BY <1>2, <1>3, <1>5, FullPage
  <2>2. PICK p \in page : ~(p < f)
    BY <1>1, <2>1
  <2>3. p \in D /\ Cardinality(Below(D, p)) < CompactPage
    BY <1>2 DEF FirstOf
  <2>4. Cardinality(Below(D, s)) >= CompactPage
    BY <1>2, <1>3, <1>5, BelowGrows DEF FirstOf
  <2>5. ~(s < p) /\ s # p
    BY <1>3, <2>3, <2>4, BelowGrows
  <2> QED
    BY <1>3, <2>2, <2>3, <2>5
<1> QED
  BY <1>4, <1>5

\* Compaction is complete and the rest of the room's invariant holds.
CompactionInv == RoomInv /\ CompactionComplete

\* Rows that are added lie above the floor, and a page that ends the compaction
\* has removed every row it owed.
LEMMA CompactionStepKeepsInv == CompactionInv /\ [Next]_vars => CompactionInv'
<1> SUFFICES ASSUME RoomInv, CompactionComplete, [Next]_vars, RoomInv'
             PROVE  CompactionComplete'
  BY NextKeepsInv DEF CompactionInv
<1>1. CASE UNCHANGED <<log, replayFloor, compactionPending>>
  BY <1>1 DEF CompactionComplete
<1>2. ASSUME NEW new \in SUBSET AllBatch, log' = WithRows(new, receipts'),
             \A b \in new : receipts'[b] > currentSeq,
             UNCHANGED snapshotVars
      PROVE  CompactionComplete'
  <2>1. replayFloor <= currentSeq /\ replayFloor \in Nat /\ currentSeq \in Nat
    BY DEF RoomInv, TypeOK, ReplayableTail
  <2>2. receipts' \in [AllBatch -> Nat]
    BY DEF RoomInv, TypeOK
  <2>3. \A s \in DOMAIN log' : s \in DOMAIN log \/ \E b \in new : receipts'[b] = s
    BY <1>2 DEF WithRows
  <2>4. \A b \in new : receipts'[b] > replayFloor
    BY <1>2, <2>1, <2>2
  <2> QED
    BY <1>2, <2>3, <2>4 DEF CompactionComplete, snapshotVars
<1>3. ASSUME NEW sys \in SystemBatch \cup {NoBatch}, EndIntegration(sys),
             Integrating, sys # NoBatch => receipts[sys] = 0
      PROVE  CompactionComplete'
  <2> DEFINE new == (Buffered \cup {sys}) \ (Sequenced \cup {NoBatch})
  <2>1. log' = WithRows(new, receipts') /\ UNCHANGED snapshotVars
    BY <1>3 DEF EndIntegration, SequenceAll
  <2>2. new \in SUBSET AllBatch
    BY <1>3 DEF Buffered, AllBatch
  <2>3. \A b \in new : receipts'[b] > currentSeq
    <3> SUFFICES ASSUME NEW b \in new PROVE receipts'[b] > currentSeq
      OBVIOUS
    <3>1. b \in AllBatch /\ receipts[b] = 0
      BY <2>2 DEF Sequenced
    <3>2. /\ sys # NoBatch => receipts'[sys] = currentSeq + 1
          /\ \A x \in Buffered :
               receipts'[x] = currentSeq + (IF sys = NoBatch THEN 0 ELSE 1) + buffer[x]
      BY <1>3, SequencingPlaces DEF EndIntegration
    <3>3. currentSeq \in Nat /\ buffer[b] \in Nat
      BY <3>1 DEF RoomInv, TypeOK
    <3>4. CASE b \in Buffered
      <4>1. buffer[b] # 0
        BY <3>4 DEF Buffered
      <4> HIDE DEF new
      <4> QED
        BY <3>2, <3>3, <3>4, <4>1
    <3>5. CASE b \notin Buffered
      <4>1. b = sys /\ sys # NoBatch
        BY <3>5
      <4> HIDE DEF new
      <4> QED
        BY <3>2, <3>3, <4>1
    <3> QED
      BY <3>4, <3>5
  <2> HIDE DEF new
  <2> QED
    BY <1>2, <2>1, <2>2, <2>3
<1>4. ASSUME NEW b \in Batch, AcceptBatch(b) PROVE CompactionComplete'
  <2>1. CASE AppendBatch(b)
    <3>1. /\ log' = WithRows({b}, receipts') /\ UNCHANGED snapshotVars
          /\ receipts' = [receipts EXCEPT ![b] = currentSeq + 1]
      BY <2>1 DEF AppendBatch
    <3>2. {b} \in SUBSET AllBatch /\ receipts'[b] > currentSeq
      BY <3>1 DEF AllBatch, RoomInv, TypeOK
    <3> QED
      BY <1>2, <3>1, <3>2
  <2>2. CASE BufferBatch(b)
    BY <1>1, <2>2 DEF BufferBatch, logVars, snapshotVars
  <2> QED
    BY <1>4, <2>1, <2>2 DEF AcceptBatch
<1>5. ASSUME NEW f \in Nat, CompactPageOf(f), replayFloor' = f PROVE CompactionComplete'
  BY <1>5, PageRuleStopsLate DEF CompactionComplete
<1>6. CASE CompactReplay
  BY <1>5, <1>6 DEF CompactReplay, RoomInv, TypeOK
<1>7. ASSUME NEW c \in Client, NEW bar \in barriers, CommitSnapshot(c, bar)
      PROVE  CompactionComplete'
  <2>1. bar.seq \in Nat
    BY DEF RoomInv, TypeOK, Barrier
  <2> QED
    BY <1>1, <1>5, <1>7, <2>1 DEF CommitSnapshot, snapshotVars
<1>8. ASSUME \/ \E c \in Client : \/ BeginIntegration(c) \/ SnapshotBarrier(c)
                                  \/ LeaseBarrier(c) \/ GrantLease(c)
             \/ \E c \in Client, bar \in barriers : VerifySnapshot(c, bar)
             \/ IntegrationLapses \/ PrepareFence \/ ReleaseFence \/ LoseLease
             \/ UNCHANGED vars
      PROVE  CompactionComplete'
  BY <1>1, <1>8 DEF BeginIntegration, SnapshotBarrier, LeaseBarrier, NewBarrier, GrantLease,
     VerifySnapshot, IntegrationLapses, PrepareFence, ReleaseFence, LoseLease, vars,
     logVars, snapshotVars
<1> QED
  BY <1>3, <1>4, <1>6, <1>7, <1>8 DEF Next, FinishIntegration, ExpireIntegration

\* When no compaction is owed the log holds no row at or below the floor: the
\* page rule of compactReplay never stops early, however many pages it takes.
THEOREM CompactionNeverStopsEarly == Spec => []CompactionComplete
<1>1. Init => CompactionInv
  BY InitEstablishes DEF CompactionInv, Init, CompactionComplete
<1>2. CompactionInv => CompactionComplete
  BY DEF CompactionInv
<1> QED
  BY <1>1, <1>2, CompactionStepKeepsInv, PTL DEF Spec
=============================================================================
