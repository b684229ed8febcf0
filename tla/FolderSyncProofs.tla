--------------------------- MODULE FolderSyncProofs ---------------------------
(***************************************************************************)
(* Proofs about FolderSync, for any numbers of saves, removals, edits by   *)
(* peers and crashes: what crossing tasks, users, peers and restarts may   *)
(* do to the lines of a file, and what is sent as the user's edits.        *)
(***************************************************************************)
EXTENDS FolderSync, TLAPS

(***************************************************************************)
(* Types                                                                   *)
(***************************************************************************)
\* Every written line was counted as a save or as a peer's edit.
Counted ==
    /\ written \in Nat /\ saves \in 0..MaxSaves /\ peerEdits \in 0..MaxPeerEdits
    /\ written <= saves + peerEdits

TypeInv == FolderTypeOK /\ Counted

\* There are at most as many lines as saves and peers' edits.
LEMMA Bounds ==
    /\ MaxSaves \in Nat /\ MaxPeerEdits \in Nat /\ MaxLines \in Nat
    /\ {} \in Text
  BY FolderBounds DEF MaxLines, Text

\* A line that is written now is a line.
LEMMA WrittenIsLine ==
    ASSUME NEW w \in Nat, NEW s \in 0..MaxSaves, NEW p \in 0..MaxPeerEdits,
           w <= s + p, s < MaxSaves \/ p < MaxPeerEdits
    PROVE  w + 1 \in Line
  BY Bounds DEF MaxLines, Line

\* A new file gets an id of its own.
LEMMA NewIdType ==
    ASSUME NamesFiles
    PROVE  /\ NewId \in Nat /\ NewId # 0 /\ 0 \in Id
           /\ Id \subseteq 0..NewId /\ NewId \in 0..NewId /\ NewId \notin Id
  BY DEF NamesFiles, NewId, Id

\* What recordDiskState and recordMaterialization leave in the index.
LEMMA RecordedRows ==
    ASSUME NEW row
    PROVE  /\ RecordDiskState(row) => index' \subseteq index \cup {row}
           /\ \A r \in Upsert(row, index) : r = row \/ (r \in index /\ r.id # row.id)
           /\ RecordDiskState(row) => \A r \in index' : r = row \/ r.id # row.id
<1>1. ASSUME NEW rows, rows \subseteq index
      PROVE  /\ Upsert(row, rows) \subseteq index \cup {row}
             /\ \A r \in Upsert(row, rows) : r = row \/ (r \in index /\ r.id # row.id)
  BY <1>1 DEF Upsert
<1>2. ASSUME RecordDiskState(row)
      PROVE  \E rows : rows \subseteq index /\ index' = Upsert(row, rows)
  BY <1>2 DEF RecordDiskState
<1>3. index \subseteq index
  OBVIOUS
<1> QED
  BY <1>1, <1>2, <1>3

\* What is done to a file leaves a file (SessionReplica).
LEMMA FileTypes ==
    /\ NoFile \in File
    /\ \A f \in File :
         /\ \A l \in Line : Put(f, l) \in File /\ Cut(f, l) \in File
         /\ \A t \in Text : Deleted(f, t) \in File
    /\ \A i \in Nat : [NoFile EXCEPT !.id = i, !.state = "live"] \in File
    /\ \A i \in Nat, t \in Text : Entry(i, t) \in File
<1>1. NoFile \in File
  BY Bounds DEF NoFile, File
<1>2. ASSUME NEW f \in File, NEW l \in Line PROVE Put(f, l) \in File /\ Cut(f, l) \in File
  BY DEF File, Put, Cut, Text
<1>3. ASSUME NEW f \in File, NEW t \in Text PROVE Deleted(f, t) \in File
  BY DEF File, Deleted
<1>4. ASSUME NEW i \in Nat PROVE [NoFile EXCEPT !.id = i, !.state = "live"] \in File
  BY Bounds DEF NoFile, File
<1>5. ASSUME NEW i \in Nat, NEW t \in Text PROVE Entry(i, t) \in File
  BY Bounds DEF NoFile, File, Entry
<1> QED
  BY <1>1, <1>2, <1>3, <1>4, <1>5

\* What a member does to a file leaves it the file it is.
LEMMA SameFile ==
    ASSUME NEW f \in File
    PROVE  /\ \A l : Put(f, l).id = f.id /\ Cut(f, l).id = f.id
           /\ \A t : Deleted(f, t).id = f.id
  BY DEF File, Put, Cut, Deleted

\* A step that begins no file, records nothing and forgets no tree.
Quiet ==
    /\ UNCHANGED <<files, lost>>
    /\ {replica'.id, durable'.id} \subseteq {replica.id, durable.id}
    /\ deleting' \subseteq deleting \cup {replica.id}
    /\ events' \subseteq events \cup [kind: {"change", "delete", "missing"}, id: Id]
    /\ index' \subseteq index /\ baseline' \in {baseline, NoBaseline}

\* Such a step names no file that was not named before.
LEMMA QuietNames == ASSUME NamesFiles, Quiet PROVE NamesFiles'
<1>1. Id' = Id
  BY DEF Quiet, Id
<1> QED
  BY <1>1 DEF Quiet, NamesFiles

\* What the watcher and a scan report.
LEMMA ReportTypes ==
    ASSUME NamesFiles
    PROVE  /\ {Change, Reported("delete", 0)} \subseteq [kind: {"change", "delete", "missing"}, id: Id]
           /\ Difference \subseteq [kind: {"change", "delete", "missing"}, id: Id]
<1>1. {Change, Reported("delete", 0)} \subseteq [kind: {"change", "delete", "missing"}, id: Id]
  BY NewIdType DEF Change, Reported
<1>2. \A r \in Newest : Reported("missing", r.id) \in [kind: {"change", "delete", "missing"}, id: Id]
  BY DEF Newest, Reported, NamesFiles
<1> QED
  BY <1>1, <1>2 DEF Difference

\* Every step but a new file, a record and a crash is such a step.
LEMMA QuietSteps ==
    ASSUME FolderTypeOK,
           \/ User \/ PeerTypes \/ PeerRemoves \/ \E l \in durable.text : PeerStrikes(l)
           \/ Watch \/ Scan \/ Rescan \/ TakeChange \/ TakeDeletes("delete") \/ TakeDeletes("missing")
           \/ CommitDelete \/ MaterializePending \/ Project \/ FlushSubmit \/ Start
           \/ NothingToWrite \/ TurnToDelete \/ Unlink \/ Forget \/ TurnToWrite \/ CheckDisk \/ Rename
           \/ UNCHANGED folderVars
    PROVE  Quiet
<1>0. NamesFiles /\ replica \in File /\ durable \in File
  BY DEF FolderTypeOK
<1> USE DEF Quiet, diskVars, daemonVars, sessionVars, indexVars, historyVars, countVars
<1>1. CASE User
  BY <1>1 DEF User, Remove, Type, Strike, Changes
<1>2. CASE PeerTypes
  BY <1>0, <1>2, SameFile DEF PeerTypes, RemoteChange
<1>3. CASE PeerRemoves
  BY <1>0, <1>3, SameFile DEF PeerRemoves
<1>4. ASSUME NEW l, PeerStrikes(l) PROVE Quiet
  BY <1>0, <1>4, SameFile DEF PeerStrikes, RemoteChange
<1>5. CASE Watch
  BY <1>0, <1>5, ReportTypes DEF Watch
<1>6. CASE Scan \/ Rescan
  BY <1>0, <1>6, ReportTypes DEF Scan, Rescan
<1>7. CASE TakeChange \/ MaterializePending \/ Project \/ FlushSubmit \/ Start
  BY <1>7 DEF TakeChange, MaterializePending, Project, FlushSubmit, Start
<1>8. ASSUME NEW e \in events, TakeDelete(e) PROVE Quiet
  BY <1>0, <1>8, SameFile DEF TakeDelete, DeleteEntry, Forgets
<1>9. CASE CommitDelete
  BY <1>0, <1>9, SameFile DEF CommitDelete, DeleteEntry, Forgets
<1>10. CASE NothingToWrite \/ TurnToDelete \/ Unlink \/ Forget
  BY <1>10 DEF NothingToWrite, TurnToDelete, Unlink, Forget, Forgets
<1>11. CASE TurnToWrite \/ CheckDisk \/ Rename
  BY <1>11 DEF TurnToWrite, CheckDisk, Rename
<1>12. CASE UNCHANGED folderVars
  BY <1>12 DEF folderVars
<1> QED
  BY <1>1, <1>2, <1>3, <1>4, <1>5, <1>6, <1>7, <1>8, <1>9, <1>10, <1>11, <1>12 DEF TakeDeletes

\* When a file begins, what names files still does.
LEMMA MoreFiles ==
    ASSUME NamesFiles, files' = NewId, replica'.id = NewId,
           durable'.id \in {durable.id, NewId}, UNCHANGED <<lost, deleting, events>>,
           index' \subseteq [id: 0..NewId, text: Text, stat: Text],
           baseline' \in [id: 0..NewId, text: Text] \cup {NoBaseline}
    PROVE  NamesFiles'
<1>1. Id \subseteq Id' /\ Id' = 0..NewId /\ NewId \in Nat
  BY NewIdType DEF Id
<1>2. {replica'.id, durable'.id} \cup lost' \cup deleting' \subseteq Id'
  BY <1>1, NewIdType DEF NamesFiles
<1>3. events' \subseteq [kind: {"change", "delete", "missing"}, id: Id']
  BY <1>1 DEF NamesFiles
<1> QED
  BY <1>1, <1>2, <1>3 DEF NamesFiles

\* The rows of the files there were are rows of the files there are.
LEMMA OldRows ==
    ASSUME NamesFiles
    PROVE  /\ index \subseteq [id: 0..NewId, text: Text, stat: Text]
           /\ baseline \in [id: 0..NewId, text: Text] \cup {NoBaseline}
<1>1. Id \subseteq 0..NewId
  BY NewIdType
<1> QED
  BY <1>1 DEF NamesFiles

\* Every step names only files that were given an id.
LEMMA NamesKept == ASSUME FolderTypeOK, [FolderNext]_folderVars PROVE NamesFiles'
<1>0. /\ NamesFiles /\ replica \in File /\ durable \in File /\ step.text \in Text
      /\ disk \in Text \cup {Absent}
  BY DEF FolderTypeOK
<1>1. CASE PeerCreates
  <2>1. /\ files' = NewId /\ UNCHANGED <<lost, deleting, events, index, baseline>>
        /\ replica' = Put([NoFile EXCEPT !.id = NewId, !.state = "live"], written')
        /\ durable' = replica'
    BY <1>1 DEF PeerCreates, RemoteChange, indexVars
  <2>2. replica'.id = NewId
    BY <2>1 DEF Put, NoFile
  <2> QED
    BY <1>0, <2>1, <2>2, MoreFiles, OldRows
<1>2. CASE Ingest
  <2>1. UNCHANGED <<lost, deleting, events, durable>>
    BY <1>2 DEF Ingest, sessionVars
  <2>2. CASE Echo(step.text)
    <3>1. Quiet
      BY <1>2, <2>1, <2>2 DEF Ingest, Quiet, sessionVars, indexVars
    <3> QED
      BY <1>0, <3>1, QuietNames
  <2>3. CASE ~Echo(step.text)
    <3>1. /\ RecordDiskState(Disk(replica'.id, step.text))
          /\ baseline' = [id |-> replica'.id, text |-> step.text]
      BY <1>2, <2>3 DEF Ingest
    <3>2. index' \subseteq index \cup {Disk(replica'.id, step.text)}
      BY <3>1, RecordedRows
    <3>3. CASE Create
      <4>1. files' = NewId /\ replica'.id = NewId
        BY <3>3 DEF Create, Entry, NoFile
      <4>2. Disk(replica'.id, step.text) \in [id: 0..NewId, text: Text, stat: Text]
        BY <1>0, <4>1, NewIdType DEF Disk
      <4>3. baseline' \in [id: 0..NewId, text: Text]
        BY <1>0, <3>1, <4>1, NewIdType
      <4> QED
        BY <1>0, <2>1, <3>2, <4>1, <4>2, <4>3, MoreFiles, OldRows
    <3>4. CASE Replace \/ Merges
      <4>1. files' = files /\ replica'.id = replica.id
        BY <1>0, <3>4 DEF Replace, Merges, File
      <4>2. Id' = Id /\ replica.id \in Id
        BY <1>0, <4>1 DEF Id, NamesFiles
      <4>3. Disk(replica'.id, step.text) \in [id: Id, text: Text, stat: Text]
        BY <1>0, <4>1, <4>2 DEF Disk
      <4>4. baseline' \in [id: Id, text: Text]
        BY <1>0, <3>1, <4>1, <4>2
      <4> QED
        BY <1>0, <2>1, <3>2, <4>1, <4>2, <4>3, <4>4 DEF NamesFiles
    <3> QED
      BY <1>2, <2>3, <3>3, <3>4 DEF Ingest
  <2> QED
    BY <2>2, <2>3
<1>3. CASE Record
  <2>1. UNCHANGED <<files, lost, deleting, events, replica, durable>>
    BY <1>3 DEF Record, sessionVars
  <2>2. Id' = Id /\ replica.id \in Id
    BY <1>0, <2>1 DEF Id, NamesFiles
  <2>3. CASE disk = Absent
    <3>1. UNCHANGED <<index, baseline>>
      BY <1>3, <2>3 DEF Record, indexVars
    <3> QED
      BY <1>0, <2>1, <2>2, <3>1 DEF NamesFiles
  <2>4. CASE disk # Absent
    <3>1. PICK row : /\ row = [id |-> replica.id, text |-> step.text, stat |-> disk]
                     /\ index' = Upsert(row, index)
      BY <1>3, <2>4 DEF Record
    <3>2. row \in [id: Id, text: Text, stat: Text]
      BY <1>0, <2>2, <2>4, <3>1
    <3>3. index' \subseteq index \cup {row}
      BY <3>1 DEF Upsert
    <3>4. baseline' \in [id: Id, text: Text]
      BY <1>0, <1>3, <2>2, <2>4 DEF Record
    <3> QED
      BY <1>0, <2>1, <2>2, <3>2, <3>3, <3>4 DEF NamesFiles
  <2> QED
    BY <2>3, <2>4
<1>4. CASE Crash
  <2>1. /\ UNCHANGED <<files, index, baseline, durable>> /\ replica' = durable
        /\ events' = {} /\ deleting' = {} /\ lost' = lost \cup (durable.id + 1)..files
    BY <1>4 DEF Crash, indexVars
  <2>2. Id' = Id /\ durable.id \in Nat /\ files \in Nat
    BY <1>0, <2>1 DEF Id, NamesFiles, File
  <2>3. (durable.id + 1)..files \subseteq Id
    BY <2>2 DEF Id
  <2> QED
    BY <1>0, <2>1, <2>2, <2>3 DEF NamesFiles
<1>5. CASE ~(PeerCreates \/ Ingest \/ Record \/ Crash)
  <2>1. Quiet
    BY <1>5, QuietSteps DEF FolderNext, Peers, Parts
  <2> QED
    BY <1>0, <2>1, QuietNames
<1> QED
  BY <1>1, <1>2, <1>3, <1>4, <1>5

\* The types hold at the start.
LEMMA InitTypes == ASSUME FolderInit PROVE TypeInv
<1>1. replica \in File /\ durable \in File
  <2>1. [NoFile EXCEPT !.id = 1, !.state = "live"] \in File
    BY FileTypes
  <2> QED
    BY <2>1, FileTypes DEF FolderInit
<1>2. step \in [at: {"idle", "read", "turn", "check", "rename", "record", "unlink", "forget"},
                text: Text, writes: BOOLEAN]
  BY Bounds DEF FolderInit, Idle
<1>3. Counted
  BY Bounds DEF FolderInit, Counted
<1>4. NamesFiles
  <2>1. files \in {0, 1} /\ replica.id = files /\ durable.id = files /\ (index # {} => files = 1)
    <3>1. NoFile.id = 0 /\ [NoFile EXCEPT !.id = 1, !.state = "live"].id = 1
      BY DEF NoFile
    <3> QED
      BY <3>1 DEF FolderInit
  <2>4. files \in Id /\ (index # {} => 1 \in Id)
    BY <2>1 DEF Id
  <2>2. lost = {} /\ deleting = {} /\ events = {}
    BY DEF FolderInit
  <2>3. /\ index \subseteq [id: Id, text: Text, stat: Text]
        /\ baseline \in [id: Id, text: Text] \cup {NoBaseline}
    <3>1. CASE index = {} /\ baseline = NoBaseline
      BY <3>1
    <3>2. CASE /\ index = {[id |-> 1, text |-> {}, stat |-> {}]}
               /\ baseline = [id |-> 1, text |-> {}]
      BY <3>2, <2>4, Bounds
    <3> QED
      BY <3>1, <3>2 DEF FolderInit
  <2> QED
    BY <2>1, <2>2, <2>3, <2>4 DEF NamesFiles
<1>5. disk \in Text \cup {Absent} /\ held \in Text /\ hint \in BOOLEAN
  BY Bounds DEF FolderInit
<1> QED
  BY <1>1, <1>2, <1>3, <1>4, <1>5 DEF FolderInit, TypeInv, FolderTypeOK

\* The user's programs keep the types.
LEMMA UserTypes == ASSUME TypeInv, NamesFiles', User PROVE TypeInv'
<1>1. CASE Remove
  BY <1>1, Bounds DEF TypeInv, FolderTypeOK, Counted, Remove, Changes, daemonVars, sessionVars,
     indexVars
<1>2. ASSUME NEW base, Type(base) PROVE TypeInv'
  <2>1. written + 1 \in Line
    BY <1>2, WrittenIsLine DEF TypeInv, Counted, Type
  <2>2. base \in Text
    BY <1>2, Bounds DEF TypeInv, FolderTypeOK, Type
  <2> QED
    BY <1>2, <2>1, <2>2, Bounds DEF TypeInv, FolderTypeOK, Counted, Type, Changes, daemonVars,
       sessionVars, indexVars, Text
<1>3. ASSUME NEW l, Strike(l) PROVE TypeInv'
  BY <1>3, Bounds DEF TypeInv, FolderTypeOK, Counted, Strike, OnDisk, Changes, daemonVars,
     sessionVars, indexVars, Text
<1> QED
  BY <1>1, <1>2, <1>3 DEF User

\* Other members keep the types.
LEMMA PeerTypesKept == ASSUME TypeInv, NamesFiles', Peers PROVE TypeInv'
<1>1. CASE PeerCreates
  <2>1. written + 1 \in Line /\ NewId \in Nat
    BY <1>1, WrittenIsLine, NewIdType DEF TypeInv, FolderTypeOK, Counted, PeerCreates
  <2>2. replica' \in File /\ durable' \in File
    BY <1>1, <2>1, FileTypes DEF PeerCreates
  <2> QED
    BY <1>1, <2>2, Bounds DEF TypeInv, FolderTypeOK, Counted, PeerCreates, RemoteChange,
       diskVars, indexVars
<1>2. CASE PeerTypes
  <2>1. written + 1 \in Line
    BY <1>2, WrittenIsLine DEF TypeInv, Counted, PeerTypes
  <2>2. replica' \in File /\ durable' \in File
    BY <1>2, <2>1, FileTypes DEF PeerTypes, TypeInv, FolderTypeOK
  <2> QED
    BY <1>2, <2>2, Bounds DEF TypeInv, FolderTypeOK, Counted, PeerTypes, RemoteChange,
       diskVars, indexVars
<1>3. CASE PeerRemoves
  BY <1>3, FileTypes DEF TypeInv, FolderTypeOK, Counted, PeerRemoves, diskVars, indexVars,
     historyVars, File
<1>4. ASSUME NEW l \in durable.text, PeerStrikes(l) PROVE TypeInv'
  <2>1. l \in Line
    BY <1>4 DEF TypeInv, FolderTypeOK, File, Text
  <2>2. replica' \in File /\ durable' \in File
    BY <1>4, <2>1, FileTypes DEF PeerStrikes, TypeInv, FolderTypeOK
  <2> QED
    BY <1>4, <2>2, Bounds DEF TypeInv, FolderTypeOK, Counted, PeerStrikes, RemoteChange,
       diskVars, indexVars
<1> QED
  BY <1>1, <1>2, <1>3, <1>4 DEF Peers

\* Ingestion keeps the types, for each way a change is taken in.
LEMMA IngestTypes == ASSUME TypeInv, NamesFiles', Ingest PROVE TypeInv'
<1>1. step.text \in Text /\ NewId \in Nat /\ replica \in File /\ durable \in File
  BY NewIdType DEF TypeInv, FolderTypeOK
<1>2. step' \in [at: {"idle", "read", "turn", "check", "rename", "record", "unlink", "forget"},
                 text: Text, writes: BOOLEAN]
  BY Bounds DEF TypeInv, FolderTypeOK, Ingest, Idle
<1>3. (Replace \/ Merges \/ Create) => replica' \in File
  <2>1. CASE Replace
    BY <1>1, <2>1 DEF Replace, File, Text
  <2>2. CASE Merges
    BY <1>1, <2>2 DEF Merges, File, Text
  <2>3. CASE Create
    BY <1>1, <2>3, FileTypes DEF Create
  <2> QED
    BY <2>1, <2>2, <2>3
<1>4. CASE Echo(step.text)
  BY <1>2, <1>4 DEF TypeInv, FolderTypeOK, Counted, Ingest, sessionVars, indexVars, diskVars,
     countVars
<1>5. CASE ~Echo(step.text)
  BY <1>1, <1>2, <1>3, <1>5 DEF TypeInv, FolderTypeOK, Counted, Ingest, diskVars, countVars,
     Disk, File
<1> QED
  BY <1>4, <1>5

\* The watcher, the queue, the export timer, crashes and restarts keep the types.
LEMMA TasksTypes ==
    ASSUME TypeInv, NamesFiles',
           \/ Watch \/ Scan \/ Rescan \/ TakeChange \/ TakeDeletes("delete") \/ TakeDeletes("missing")
           \/ CommitDelete \/ MaterializePending \/ Project \/ FlushSubmit \/ Crash \/ Start
    PROVE  TypeInv'
<1> USE DEF TypeInv, FolderTypeOK, Counted
<1>1. CASE Watch
  BY <1>1 DEF Watch, sessionVars, indexVars, historyVars, countVars
<1>2. CASE Scan
  BY <1>2 DEF Scan, Difference, diskVars, sessionVars, indexVars, historyVars, countVars
<1>3. CASE Rescan
  BY <1>3 DEF Rescan, Difference, diskVars, sessionVars, indexVars, historyVars, countVars
<1>4. CASE TakeChange
  BY <1>4, Bounds DEF TakeChange, Idle, diskVars, sessionVars, indexVars, historyVars, countVars
<1>5. ASSUME NEW e \in events, TakeDelete(e) PROVE TypeInv'
  <2>1. replica.ever \in Text /\ Deleted(replica, replica.ever) \in File
    BY FileTypes DEF File
  <2> QED
    BY <1>5, <2>1 DEF TakeDelete, DeleteEntry, Forgets, diskVars, indexVars, historyVars,
       countVars
<1>6. CASE CommitDelete
  <2>1. replica.ever \in Text /\ Deleted(replica, replica.ever) \in File
    BY FileTypes DEF File
  <2> QED
    BY <1>6, <2>1 DEF CommitDelete, DeleteEntry, Forgets, diskVars, indexVars, historyVars,
       countVars
<1>7. CASE MaterializePending
  BY <1>7, Bounds DEF MaterializePending, Idle, diskVars, sessionVars, indexVars, historyVars,
     countVars
<1>8. CASE Project
  BY <1>8, Bounds DEF Project, Idle, diskVars, sessionVars, indexVars, historyVars, countVars
<1>9. CASE FlushSubmit
  BY <1>9 DEF FlushSubmit, diskVars, daemonVars, indexVars, historyVars, countVars
<1>10. CASE Crash
  BY <1>10, Bounds DEF Crash, Idle, indexVars
<1>11. CASE Start
  BY <1>11 DEF Start, diskVars, sessionVars, indexVars, historyVars, countVars
<1> QED
  BY <1>1, <1>2, <1>3, <1>4, <1>5, <1>6, <1>7, <1>8, <1>9, <1>10, <1>11
     DEF TakeDeletes

\* How a task goes on, or ends.
Stage == {"down", "scan", "ingest", "project", "live"}
Task == [at: {"idle", "read", "turn", "check", "rename", "record", "unlink", "forget"},
         text: Text, writes: BOOLEAN]

LEMMA TaskTypes ==
    ASSUME FolderTypeOK
    PROVE  /\ Done => phase' \in Stage /\ step' \in Task
           /\ \A t \in Text : \A at \in {"check", "rename", "record", "unlink", "forget"} :
                 Goes(at, t) => phase' \in Stage /\ step' \in Task
<1>1. Idle \in Task
  BY Bounds DEF Idle, Task
<1>2. phase \in Stage /\ step \in Task
  BY DEF FolderTypeOK, Stage, Task
<1>3. Done => phase' \in Stage /\ step' \in Task
  BY <1>1, <1>2 DEF Done, Stage
<1>4. ASSUME NEW t \in Text, NEW at \in {"check", "rename", "record", "unlink", "forget"},
             Goes(at, t)
      PROVE  phase' \in Stage /\ step' \in Task
  BY <1>2, <1>4 DEF Goes, Task
<1> QED
  BY <1>3, <1>4

\* The materializer's parts keep the types.
LEMMA MaterializerTypes ==
    ASSUME TypeInv, NamesFiles',
           \/ NothingToWrite \/ TurnToDelete \/ Unlink \/ Forget \/ TurnToWrite
           \/ CheckDisk \/ Rename \/ Record
    PROVE  TypeInv'
<1> USE DEF TypeInv, FolderTypeOK, Counted
<1>1. CASE NothingToWrite
  BY <1>1, Bounds DEF NothingToWrite, Done, Idle, diskVars, sessionVars, indexVars,
     historyVars, countVars
<1>2. CASE TurnToDelete
  BY <1>2, Bounds, TaskTypes DEF TurnToDelete, Forgets, Stage, Task, diskVars, sessionVars,
     indexVars, historyVars, countVars
<1>3. CASE Unlink
  BY <1>3, Bounds, TaskTypes DEF Unlink, Stage, Task, sessionVars, indexVars, historyVars,
     countVars
<1>4. CASE Forget
  BY <1>4, Bounds DEF Forget, Forgets, Done, Idle, diskVars, sessionVars, historyVars, countVars
<1>5. CASE TurnToWrite
  BY <1>5 DEF TurnToWrite, Goes, File, diskVars, sessionVars, indexVars, historyVars, countVars
<1>6. CASE CheckDisk
  BY <1>6 DEF CheckDisk, Goes, diskVars, sessionVars, indexVars, countVars
<1>7. CASE Rename
  BY <1>7, Bounds DEF Rename, Goes, sessionVars, indexVars, countVars
<1>8. CASE Record
  <2>1. phase' \in Stage /\ step' \in Task
    BY <1>8, TaskTypes DEF Record
  <2> QED
    BY <1>8, <2>1 DEF Record, Stage, Task, diskVars, sessionVars, countVars
<1> QED
  BY <1>1, <1>2, <1>3, <1>4, <1>5, <1>6, <1>7, <1>8

\* Every step keeps the types.
LEMMA NextTypes == ASSUME TypeInv, [FolderNext]_folderVars PROVE TypeInv'
<1>1. CASE UNCHANGED folderVars
  BY <1>1, NamesKept DEF TypeInv, FolderTypeOK, Counted, folderVars, diskVars, daemonVars,
     sessionVars, indexVars, historyVars, countVars
<1>2. NamesFiles'
  BY NamesKept DEF TypeInv
<1> QED
  BY <1>1, <1>2, UserTypes, PeerTypesKept, IngestTypes, TasksTypes, MaterializerTypes DEF FolderNext,
     Parts

(***************************************************************************)
(* Files and tasks                                                         *)
(***************************************************************************)
\* Nobody brings a deleted file back once its deletion is exported.
BothDeleted == replica.state = "deleted" /\ durable.state = "deleted"

FileState(f) == (f.state = "none" <=> f.id = 0) /\ (f.state = "none" => f.text = {})

\* The editor holds a text only while there is no file; the daemon forgets a file
\* it deletes by itself at once, so what the materializer deletes was deleted by a
\* peer; and what it writes has been a file.
StageInv ==
    /\ disk # Absent => held = {}
    /\ replica.state = "deleted" /\ durable.state # "deleted" =>
          ~Known /\ ~HasBaseline /\ step.at \in {"idle", "read", "turn"}
    /\ step.at \in {"unlink", "forget"} => BothDeleted
    /\ step.at \in {"check", "rename", "record"} => replica.state # "none"
    /\ FileState(replica) /\ FileState(durable)

\* Every step keeps the stages of files and tasks.
LEMMA StagesKept == ASSUME FolderTypeOK, StageInv, [FolderNext]_folderVars PROVE StageInv'
<1> USE DEF StageInv, BothDeleted, FolderTypeOK, File, FileState, Known, Own, HasBaseline,
   diskVars, daemonVars, sessionVars, indexVars, historyVars, countVars
<1>1. CASE Remove
  BY <1>1 DEF Remove, Changes
<1>2. ASSUME NEW base, Type(base) PROVE StageInv'
  BY <1>2 DEF Type, Changes, OnDisk
<1>3. ASSUME NEW l, Strike(l) PROVE StageInv'
  BY <1>3 DEF Strike, Changes, OnDisk
<1>4. CASE PeerCreates
  <2>1. NewId \in Nat \ {0}
    BY NewIdType
  <2> QED
    BY <1>4, <2>1 DEF PeerCreates, RemoteChange, Put, NoFile
<1>5. CASE PeerTypes
  <2>1. UNCHANGED <<disk, held, index, baseline, step>> /\ durable.state = "live"
    BY <1>5 DEF PeerTypes, RemoteChange
  <2>2. durable'.id = durable.id /\ durable'.state = durable.state
    BY <1>5 DEF PeerTypes, Put
  <2>3. replica'.id = replica.id /\ replica'.state = replica.state
    BY <1>5 DEF PeerTypes, Put
  <2>4. replica.state = "none" => replica' = replica
    BY <1>5 DEF PeerTypes
  <2> QED
    BY <2>1, <2>2, <2>3, <2>4
<1>6. ASSUME NEW l, PeerStrikes(l) PROVE StageInv'
  BY <1>6 DEF PeerStrikes, RemoteChange, Cut
<1>7. CASE PeerRemoves
  BY <1>7 DEF PeerRemoves, Deleted
<1>8. CASE Watch
  BY <1>8 DEF Watch
<1>9. CASE Scan
  BY <1>9 DEF Scan
<1>10. CASE Rescan
  BY <1>10 DEF Rescan
<1>11. CASE TakeChange
  BY <1>11 DEF TakeChange, Free, Idle
<1>12. ASSUME NEW e \in events, TakeDelete(e) PROVE StageInv'
  BY <1>12 DEF TakeDelete, Free, Idle, DeleteEntry, Forgets, Deleted
<1>13. CASE CommitDelete
  BY <1>13 DEF CommitDelete, Free, Idle, DeleteEntry, Forgets, Deleted
<1>14. CASE MaterializePending
  BY <1>14 DEF MaterializePending, Free, Idle
<1>15. CASE Project
  BY <1>15 DEF Project, Free, Idle
<1>16. CASE FlushSubmit
  BY <1>16 DEF FlushSubmit
<1>17. CASE Crash
  BY <1>17 DEF Crash, Idle, HalfDone
<1>18. CASE Start
  BY <1>18 DEF Start
<1>19. CASE Ingest
  <2>1. CASE Echo(step.text)
    BY <1>19, <2>1 DEF Ingest, Idle
  <2>2. CASE Replace
    BY <1>19, <2>2 DEF Ingest, Replace, Disk, Idle, HasBaseline
  <2>3. CASE Merges
    BY <1>19, <2>3 DEF Ingest, Merges, Disk, Idle, HasBaseline
  <2>4. CASE Create
    <3>1. NewId \in Nat \ {0}
      BY NewIdType
    <3> QED
      BY <1>19, <2>4, <3>1 DEF Ingest, Create, Entry, NoFile, Disk, Idle
  <2> QED
    BY <1>19, <2>1, <2>2, <2>3, <2>4 DEF Ingest
<1>20. CASE NothingToWrite
  BY <1>20 DEF NothingToWrite, Done, Idle
<1>21. CASE TurnToDelete
  BY <1>21 DEF TurnToDelete, NeedsMaterialization, Forgets, Done, Goes, Idle
<1>22. CASE Unlink
  BY <1>22 DEF Unlink, Done, Goes, Idle
<1>23. CASE Forget
  BY <1>23 DEF Forget, Forgets, Done, Idle
<1>24. CASE TurnToWrite
  BY <1>24 DEF TurnToWrite, NeedsMaterialization, Goes
<1>25. CASE CheckDisk
  BY <1>25 DEF CheckDisk, Goes, HasBaseline
<1>26. CASE Rename
  BY <1>26 DEF Rename, Goes
<1>27. CASE Record
  BY <1>27 DEF Record, Done, Idle
<1>28. CASE UNCHANGED folderVars
  BY <1>28 DEF folderVars
<1> QED
  BY <1>1, <1>2, <1>3, <1>4, <1>5, <1>6, <1>7, <1>8, <1>9, <1>10, <1>11, <1>12, <1>13, <1>14,
     <1>15, <1>16, <1>17, <1>18, <1>19, <1>20, <1>21, <1>22, <1>23, <1>24, <1>25, <1>26,
     <1>27, <1>28 DEF FolderNext, User, Peers, Parts, TakeDeletes
(***************************************************************************)
(* Mishaps                                                                 *)
(***************************************************************************)
Only(S) == mishaps \subseteq S
EchoMishaps == {"crashed before the export", "saved during a write", "took a save back"}
LineMishaps == {"not recorded", "took a save back"}

\* What went wrong stays known (the history is only added to).
LEMMA MishapsStay == ASSUME [FolderNext]_folderVars PROVE mishaps \subseteq mishaps'
<1> USE DEF diskVars, daemonVars, sessionVars, indexVars, historyVars, countVars
<1>1. CASE Remove
  BY <1>1 DEF Remove, Changes
<1>2. ASSUME NEW base, Type(base) PROVE mishaps \subseteq mishaps'
  BY <1>2 DEF Type, Changes
<1>3. ASSUME NEW l, Strike(l) PROVE mishaps \subseteq mishaps'
  BY <1>3 DEF Strike, Changes
<1>4. CASE PeerCreates
  BY <1>4 DEF PeerCreates, RemoteChange
<1>5. CASE PeerTypes
  BY <1>5 DEF PeerTypes, RemoteChange
<1>6. ASSUME NEW l, PeerStrikes(l) PROVE mishaps \subseteq mishaps'
  BY <1>6 DEF PeerStrikes, RemoteChange
<1>7. CASE PeerRemoves
  BY <1>7 DEF PeerRemoves
<1>8. CASE Watch
  BY <1>8 DEF Watch
<1>9. CASE Scan
  BY <1>9 DEF Scan
<1>10. CASE Rescan
  BY <1>10 DEF Rescan
<1>11. CASE TakeChange
  BY <1>11 DEF TakeChange
<1>12. ASSUME NEW e \in events, TakeDelete(e) PROVE mishaps \subseteq mishaps'
  BY <1>12 DEF TakeDelete
<1>13. CASE CommitDelete
  BY <1>13 DEF CommitDelete
<1>14. CASE MaterializePending
  BY <1>14 DEF MaterializePending
<1>15. CASE Project
  BY <1>15 DEF Project
<1>16. CASE FlushSubmit
  BY <1>16 DEF FlushSubmit
<1>17. CASE Crash
  BY <1>17 DEF Crash
<1>18. CASE Start
  BY <1>18 DEF Start
<1>19. CASE Ingest
  BY <1>19 DEF Ingest, Replace, Merges, Create
<1>20. CASE NothingToWrite
  BY <1>20 DEF NothingToWrite
<1>21. CASE TurnToDelete
  BY <1>21 DEF TurnToDelete
<1>22. CASE Unlink
  BY <1>22 DEF Unlink
<1>23. CASE Forget
  BY <1>23 DEF Forget
<1>24. CASE TurnToWrite
  BY <1>24 DEF TurnToWrite
<1>25. CASE CheckDisk
  BY <1>25 DEF CheckDisk
<1>26. CASE Rename
  BY <1>26 DEF Rename
<1>27. CASE Record
  BY <1>27 DEF Record
<1>28. CASE UNCHANGED folderVars
  BY <1>28 DEF folderVars
<1> QED
  BY <1>1, <1>2, <1>3, <1>4, <1>5, <1>6, <1>7, <1>8, <1>9, <1>10, <1>11, <1>12, <1>13, <1>14,
     <1>15, <1>16, <1>17, <1>18, <1>19, <1>20, <1>21, <1>22, <1>23, <1>24, <1>25, <1>26,
     <1>27, <1>28 DEF FolderNext, User, Peers, Parts, TakeDeletes

\* Where the task is after a part of it.
LEMMA Moved ==
    ASSUME FolderTypeOK
    PROVE  /\ Done => step'.at = "idle" /\ step'.text = {}
           /\ \A at, t : Goes(at, t) => step'.at = at /\ step'.text = t
<1>1. Done => step'.at = "idle" /\ step'.text = {}
  BY DEF Done, Idle
<1>2. ASSUME NEW at, NEW t, Goes(at, t) PROVE step'.at = at /\ step'.text = t
  BY <1>2 DEF FolderTypeOK, Goes
<1> QED
  BY <1>1, <1>2

\* Writing a line adds it alone.
LEMMA OneLineMore ==
    ASSUME NEW w \in Nat
    PROVE  1..(w + 1) \subseteq (1..w) \cup {w + 1}
  OBVIOUS

\* A save with a new line leaves a file with a line (Type).
LEMMA TypeWrites ==
    ASSUME TypeInv, NEW base, Type(base)
    PROVE  written' \in Line /\ disk' \in Text /\ disk' # Absent
<1>1. written + 1 \in Line
  BY WrittenIsLine DEF TypeInv, Counted, Type
<1>2. base \in Text
  BY Bounds DEF TypeInv, FolderTypeOK, Type
<1> QED
  BY <1>1, <1>2, AbsentIsNoText DEF Type, Text

\* A save without a line leaves a file (Strike).
LEMMA StrikeWrites ==
    ASSUME TypeInv, NEW l, Strike(l)
    PROVE  disk # Absent /\ disk' \in Text /\ disk' # Absent
  BY AbsentIsNoText DEF Strike, OnDisk, Text, TypeInv, FolderTypeOK

\* A mishap that is not among those allowed has not happened.
LEMMA NoMishap ==
    ASSUME NEW S, NEW m, m \notin S, mishaps' = mishaps \cup {m}, Only(S)'
    PROVE  FALSE
  BY DEF Only

\* Without a file that met another's unseen, ingestion always has a baseline.
LEMMA NoReplace ==
    ASSUME NEW S, "met unseen" \notin S, Only(S)'
    PROVE  ~Replace
  BY DEF Only, Replace

(***************************************************************************)
(* Edits that are sent                                                     *)
(***************************************************************************)
\* The disk, or what the editor holds of it, differs from t by the user's doing.
FollowsFrom(t) ==
   IF disk = Absent THEN t \ held \subseteq struck
   ELSE disk \ t \subseteq typed /\ t \ disk \subseteq struck

\* Nothing was sent that is not the user's: the disk follows from the text that the
\* task has in hand, and from the baseline, except between a write and its record;
\* what was read follows from the baseline too.
EchoState ==
    /\ echoed = {}
    /\ step.at \in {"read", "record"} => FollowsFrom(step.text)
    /\ baseline # NoBaseline /\ ~BothDeleted =>
        /\ step.at # "record" => FollowsFrom(baseline.text)
        /\ step.at = "read" =>
              step.text \ baseline.text \subseteq typed /\ baseline.text \ step.text \subseteq struck

\* Every step keeps it: only Ingest sends, and Record alone moves the baseline
\* without the disk having been read.
LEMMA EchoKept ==
    ASSUME TypeInv, StageInv, EchoState, Only(EchoMishaps), Only(EchoMishaps)',
           [FolderNext]_folderVars
    PROVE  EchoState'
<1>0. ~Replace
  BY NoReplace DEF EchoMishaps
<1> USE DEF EchoState, FollowsFrom, Only, EchoMishaps, StageInv, BothDeleted, TypeInv,
   FolderTypeOK, File, FileState, diskVars, daemonVars, sessionVars, indexVars, historyVars,
   countVars
<1>1. CASE Remove
  BY <1>1 DEF Remove, Changes
<1>2. ASSUME NEW base, Type(base) PROVE EchoState'
  BY <1>2, TypeWrites DEF Type, Changes, OnDisk
<1>3. ASSUME NEW l, Strike(l) PROVE EchoState'
  BY <1>3, StrikeWrites DEF Strike, Changes, OnDisk
<1>4. CASE PeerCreates
  BY <1>4 DEF PeerCreates, RemoteChange, Put, NoFile
<1>5. CASE PeerTypes
  BY <1>5 DEF PeerTypes, RemoteChange, Put
<1>6. ASSUME NEW l, PeerStrikes(l) PROVE EchoState'
  BY <1>6 DEF PeerStrikes, RemoteChange, Cut
<1>7. CASE PeerRemoves
  BY <1>7 DEF PeerRemoves, Deleted
<1>8. CASE Watch
  BY <1>8 DEF Watch
<1>9. CASE Scan
  BY <1>9 DEF Scan
<1>10. CASE Rescan
  BY <1>10 DEF Rescan
<1>11. CASE TakeChange
  BY <1>11 DEF TakeChange, Free, Idle
<1>12. ASSUME NEW e \in events, TakeDelete(e) PROVE EchoState'
  BY <1>12 DEF TakeDelete, Free, Idle, DeleteEntry, Forgets, Deleted
<1>13. CASE CommitDelete
  BY <1>13 DEF CommitDelete, Free, Idle, DeleteEntry, Forgets, Deleted
<1>14. CASE MaterializePending
  BY <1>14 DEF MaterializePending, Free, Idle
<1>15. CASE Project
  BY <1>15 DEF Project, Free, Idle
<1>16. CASE FlushSubmit
  BY <1>16 DEF FlushSubmit
<1>17. CASE Crash
  BY <1>17 DEF Crash, Idle, HalfDone
<1>18. CASE Start
  BY <1>18 DEF Start
<1>19. CASE Ingest
  <2>1. CASE Echo(step.text)
    BY <1>19, <2>1 DEF Ingest, Idle
  <2>2. CASE ~Echo(step.text)
    <3>0. Merges \/ Create
      BY <1>0, <1>19, <2>2 DEF Ingest
    <3> HIDE DEF EchoState, FollowsFrom, Only, EchoMishaps, StageInv, TypeInv
    <3>1. baseline' = [id |-> replica'.id, text |-> step.text] /\ step.at = "read"
      BY <1>19, <2>2 DEF Ingest
    <3>2. echoed' = {} /\ typed' = typed \ step.text
      BY <3>1, <3>0 DEF Merges, Create, Sends, EchoState, HasBaseline
    <3>3. step'.at \in {"turn", "idle"}
      BY <1>19 DEF Ingest, Idle, TypeInv
    <3>4. disk' = disk /\ held' = held /\ struck' = struck
      BY <1>19 DEF Ingest
    <3>5. FollowsFrom(step.text)
      BY <3>1 DEF EchoState
    <3>6. baseline'.text = step.text
      BY <3>1
    <3>7. FollowsFrom(baseline.text)'
      BY <3>2, <3>4, <3>5, <3>6 DEF FollowsFrom
    <3> QED
      BY <3>2, <3>3, <3>6, <3>7 DEF EchoState
  <2> QED
    BY <1>0, <1>19, <2>1, <2>2 DEF Ingest
<1>20. CASE NothingToWrite
  BY <1>20 DEF NothingToWrite, Done, Idle
<1>21. CASE TurnToDelete
  <2>1. step.at = "turn" /\ step'.at \in {"idle", "unlink"}
    BY <1>21, Moved DEF TurnToDelete
  <2>2. baseline' \in {baseline, NoBaseline}
    BY <1>21 DEF TurnToDelete, Forgets
  <2>3. UNCHANGED <<disk, held, replica, durable, struck, typed, echoed>>
    BY <1>21 DEF TurnToDelete
  <2> HIDE DEF FolderTypeOK, TypeInv
  <2> QED
    BY <2>1, <2>2, <2>3
<1>22. CASE Unlink
  <2>1. step.at = "unlink" /\ step'.at \in {"idle", "forget"}
    BY <1>22, Moved DEF Unlink
  <2>3. UNCHANGED <<replica, durable, echoed>>
    BY <1>22 DEF Unlink
  <2> HIDE DEF FolderTypeOK, TypeInv
  <2> QED
    BY <2>1, <2>3
<1>23. CASE Forget
  BY <1>23 DEF Forget, Forgets, Done, Idle
<1>24. CASE TurnToWrite
  BY <1>24 DEF TurnToWrite, NeedsMaterialization, Goes
<1>25. CASE CheckDisk
  BY <1>25 DEF CheckDisk, Goes, HasBaseline
<1>26. CASE Rename
  BY <1>26, AbsentIsNoText DEF Rename, Goes
<1>27. CASE Record
  <2>1. disk # Absent
    BY <1>27, NoMishap DEF Record
  <2>2. baseline' = [id |-> replica.id, text |-> step.text] /\ step'.at = "idle" /\ step.at = "record"
    BY <1>27, <2>1 DEF Record, Done, Idle
  <2>3. UNCHANGED <<disk, held, struck, typed, echoed>>
    BY <1>27 DEF Record
  <2>4. FollowsFrom(baseline.text)'
    BY <2>2, <2>3
  <2> QED
    BY <2>2, <2>3, <2>4
<1>28. CASE UNCHANGED folderVars
  BY <1>28 DEF folderVars
<1> QED
  BY <1>1, <1>2, <1>3, <1>4, <1>5, <1>6, <1>7, <1>8, <1>9, <1>10, <1>11, <1>12, <1>13, <1>14,
     <1>15, <1>16, <1>17, <1>18, <1>19, <1>20, <1>21, <1>22, <1>23, <1>24, <1>25, <1>26,
     <1>27, <1>28 DEF FolderNext, User, Peers, Parts, TakeDeletes
(***************************************************************************)
(* Lines                                                                   *)
(***************************************************************************)
Kept == struck \cup OnDisk \cup held

\* No line is lost.  What the baseline knows is in the session, and on the disk, so that
\* ingestion takes nothing away that was not struck; and what a write or an unlink
\* is about to replace is in the session, in the text that is written or in a copy.
LineState ==
    /\ LinesLast
    /\ baseline # NoBaseline =>
          /\ replica.state # "none"
          /\ baseline.text \subseteq replica.text \cup struck
          /\ ~BothDeleted => baseline.text \subseteq Kept
          /\ step.at = "read" => BothDeleted \/ baseline.text \subseteq struck \cup step.text
          /\ step.at \in {"check", "rename"} => baseline.text \subseteq struck \cup step.text
    /\ step.at \in {"read", "record"} => step.text \subseteq Kept
    /\ step.at \in {"check", "rename", "record"} => step.text \subseteq replica.text \cup struck
    /\ step.at = "rename" => OnDisk \subseteq struck \cup replica.text \cup copies \cup step.text
    /\ step.at = "unlink" => OnDisk \subseteq struck \cup replica.text \cup copies

\* What the index knows of the file is in the session, so that it can go from the
\* disk.
RowsKept == \A r \in Own : r.text \subseteq replica.text \cup struck

\* A step that leaves the file the file it is and adds no rows keeps its rows kept.
LEMMA RowsStay ==
    ASSUME RowsKept, index' \subseteq index, replica'.id = replica.id,
           replica.text \cup struck \subseteq replica'.text \cup struck'
    PROVE  RowsKept'
  BY DEF RowsKept, Own

\* So does every step, where no crash took the session back.
LEMMA RowsStayKept ==
    ASSUME TypeInv, LineState, RowsKept, Only(LineMishaps)', [FolderNext]_folderVars
    PROVE  RowsKept'
<1>0. /\ NamesFiles /\ replica \in File /\ durable \in File
  BY DEF TypeInv, FolderTypeOK
<1> USE DEF diskVars, daemonVars, sessionVars, indexVars, historyVars, countVars
<1>1. CASE User
  BY <1>1, RowsStay DEF User, Remove, Type, Strike, Changes
<1>2. CASE PeerCreates
  <2>1. index' = index /\ replica'.id = NewId
    BY <1>2 DEF PeerCreates, RemoteChange, Put, NoFile
  <2>2. \A r \in index : r.id \in Id
    BY <1>0 DEF NamesFiles
  <2>3. Own' = {}
    BY <1>0, <2>1, <2>2, NewIdType DEF Own
  <2> QED
    BY <2>3 DEF RowsKept
<1>3. CASE PeerTypes
  <2>1. index' = index /\ struck' = struck
    BY <1>3 DEF PeerTypes, RemoteChange
  <2>2. replica'.id = replica.id /\ replica.text \subseteq replica'.text
    <3>1. replica' = replica \/ replica' = Put(replica, written')
      BY <1>3 DEF PeerTypes
    <3> QED
      BY <1>0, <3>1 DEF Put, File
  <2> QED
    BY <2>1, <2>2, RowsStay
<1>4. ASSUME NEW l, PeerStrikes(l) PROVE RowsKept'
  <2>1. index' = index /\ struck' = struck \cup {l}
    BY <1>4 DEF PeerStrikes, RemoteChange
  <2>2. replica'.id = replica.id /\ replica.text \subseteq replica'.text \cup {l}
    BY <1>0, <1>4 DEF PeerStrikes, Cut, File
  <2> QED
    BY <2>1, <2>2, RowsStay
<1>5. CASE PeerRemoves
  <2>1. index' = index /\ struck' = struck
    BY <1>5 DEF PeerRemoves
  <2>2. replica'.id = replica.id /\ replica'.text = replica.text
    BY <1>0, <1>5 DEF PeerRemoves, Deleted, File
  <2> QED
    BY <2>1, <2>2, RowsStay
<1>6. ASSUME NEW e \in events, TakeDelete(e) PROVE RowsKept'
  <2>1. index' \subseteq index /\ struck' = struck
    BY <1>6 DEF TakeDelete, DeleteEntry, Forgets
  <2>2. replica'.id = replica.id /\ replica'.text = replica.text
    BY <1>0, <1>6 DEF TakeDelete, DeleteEntry, Deleted, File
  <2> QED
    BY <2>1, <2>2, RowsStay
<1>7. CASE CommitDelete
  <2>1. index' \subseteq index /\ struck' = struck
    BY <1>7 DEF CommitDelete, DeleteEntry, Forgets
  <2>2. replica'.id = replica.id /\ replica'.text = replica.text
    BY <1>0, <1>7 DEF CommitDelete, DeleteEntry, Deleted, File
  <2> QED
    BY <2>1, <2>2, RowsStay
<1>8. CASE Crash
  <2>1. index' = index /\ struck' = struck /\ replica' = durable
    BY <1>8 DEF Crash
  <2>2. replica = durable
    BY <1>8 DEF Crash, HalfDone, Only, LineMishaps
  <2> QED
    BY <2>1, <2>2, RowsStay
<1>9. CASE Ingest
  <2>1. CASE Echo(step.text)
    BY <1>9, <2>1, RowsStay DEF Ingest
  <2>2. CASE ~Echo(step.text)
    <3>1. RecordDiskState(Disk(replica'.id, step.text)) /\ struck' = struck
      BY <1>9, <2>2 DEF Ingest
    <3>2. \A r \in Own' : r.text = step.text
      BY <3>1, RecordedRows DEF Disk, Own
    <3>3. step.text \subseteq replica'.text \cup struck'
      <4>1. CASE Create
        BY <3>1, <4>1 DEF Create, Entry, NoFile
      <4>2. CASE Merges
        <5>1. baseline.text \subseteq replica.text \cup struck
          BY <4>2 DEF Merges, HasBaseline, LineState
        <5>2. replica'.text = (replica.text \ (baseline.text \ step.text)) \cup (step.text \ baseline.text)
          BY <1>0, <4>2 DEF Merges, File
        <5> QED
          BY <3>1, <5>1, <5>2
      <4>3. ~Replace
        BY NoReplace DEF LineMishaps
      <4> QED
        BY <1>9, <2>2, <4>1, <4>2, <4>3 DEF Ingest
    <3> QED
      BY <3>2, <3>3 DEF RowsKept
  <2> QED
    BY <2>1, <2>2
<1>10. CASE Record
  <2>1. UNCHANGED <<replica, struck>> /\ step.text \subseteq replica.text \cup struck
    BY <1>10 DEF Record, LineState
  <2>2. CASE disk = Absent
    BY <1>10, <2>1, <2>2, RowsStay DEF Record
  <2>3. CASE disk # Absent
    <3>1. PICK row : /\ row = [id |-> replica.id, text |-> step.text, stat |-> disk]
                     /\ index' = Upsert(row, index)
      BY <1>10, <2>3 DEF Record
    <3>2. \A r \in Own' : r = row \/ r \in Own
      BY <2>1, <3>1, RecordedRows DEF Own
    <3> QED
      BY <2>1, <3>1, <3>2 DEF RowsKept
  <2> QED
    BY <2>2, <2>3
<1>11. CASE Watch \/ Scan \/ Rescan \/ TakeChange \/ MaterializePending \/ Project \/ FlushSubmit \/ Start
  BY <1>11, RowsStay DEF Watch, Scan, Rescan, TakeChange, MaterializePending, Project, FlushSubmit, Start
<1>12. CASE NothingToWrite \/ TurnToDelete \/ Unlink \/ Forget
  BY <1>12, RowsStay DEF NothingToWrite, TurnToDelete, Unlink, Forget, Forgets
<1>13. CASE TurnToWrite \/ CheckDisk \/ Rename
  BY <1>13, RowsStay DEF TurnToWrite, CheckDisk, Rename
<1>14. CASE UNCHANGED folderVars
  BY <1>14, RowsStay DEF folderVars
<1> QED
  BY <1>1, <1>2, <1>3, <1>4, <1>5, <1>6, <1>7, <1>8, <1>9, <1>10, <1>11, <1>12, <1>13, <1>14
     DEF FolderNext, Peers, Parts, TakeDeletes

\* Every step keeps it.
LEMMA LineKept ==
    ASSUME TypeInv, StageInv, LineState, RowsKept, Only(LineMishaps), Only(LineMishaps)',
           [FolderNext]_folderVars
    PROVE  LineState'
<1>0. ~Replace
  BY NoReplace DEF LineMishaps
<1> USE DEF LineState, Kept, LinesLast, Only, LineMishaps, OnDisk, StageInv, BothDeleted,
   TypeInv, FolderTypeOK, File, FileState, diskVars, daemonVars, sessionVars, indexVars,
   historyVars, countVars
<1>1. CASE Remove
  BY <1>1 DEF Remove, Changes
<1>2. ASSUME NEW base, Type(base) PROVE LineState'
  <2>1. step.at \notin {"rename", "unlink"}
    BY <1>2 DEF Type, Changes, Unseen
  <2>2. disk' # Absent /\ written \in Nat
    BY <1>2, TypeWrites DEF Counted
  <2>3. /\ disk' = base \cup {written'} /\ written' = written + 1 /\ held' = {}
        /\ struck' = struck \cup (held \ base) /\ OnDisk \subseteq base
    BY <1>2 DEF Type
  <2>4. UNCHANGED <<step, replica, durable, index, baseline, buried, copies>>
    BY <1>2 DEF Type, Changes
  <2>5. 1..written' \subseteq (1..written) \cup {written'}
    BY <2>2, <2>3, OneLineMore
  <2>6. Kept \subseteq Kept'
    BY <2>2, <2>3
  <2> HIDE DEF FolderTypeOK, TypeInv
  <2>7. LinesLast'
    <3> SUFFICES ASSUME NEW l \in 1..written'
                 PROVE  l \in struck' \cup disk' \cup held' \cup replica'.text \cup buried' \cup copies'
      BY <2>2
    <3>1. 1..written \subseteq struck \cup OnDisk \cup held \cup replica.text \cup buried \cup copies
      OBVIOUS
    <3> HIDE DEF LineState, StageInv, Only, Kept, OnDisk
    <3>2. l = written' \/ l \in struck \cup OnDisk \cup held \cup replica.text \cup buried \cup copies
      BY <2>5, <3>1
    <3> QED
      BY <2>3, <2>4, <3>2
  <2> HIDE DEF LinesLast
  <2> QED
    BY <2>1, <2>3, <2>4, <2>6, <2>7
<1>3. ASSUME NEW l, Strike(l) PROVE LineState'
  <2>1. step.at \notin {"rename", "unlink"}
    BY <1>3 DEF Strike, Changes, Unseen
  <2>2. disk' # Absent /\ disk # Absent
    BY <1>3, StrikeWrites
  <2>3. disk' = disk \ {l} /\ struck' = struck \cup {l}
    BY <1>3 DEF Strike
  <2>4. UNCHANGED <<step, replica, durable, index, baseline, buried, copies, held, written>>
    BY <1>3 DEF Strike, Changes
  <2>6. Kept \subseteq Kept'
    BY <2>2, <2>3, <2>4
  <2> HIDE DEF FolderTypeOK, TypeInv
  <2> QED
    BY <2>1, <2>2, <2>3, <2>4, <2>6
<1>4. CASE PeerCreates
  <2>1. replica.text = {} /\ baseline = NoBaseline /\ replica.state = "none"
    BY <1>4 DEF PeerCreates
  <2>2. replica'.text = {written'} /\ replica'.state = "live" /\ written' = written + 1
    BY <1>4 DEF PeerCreates, Put, NoFile
  <2>3. UNCHANGED <<disk, held, index, baseline, step, buried, copies, struck>>
    BY <1>4 DEF PeerCreates, RemoteChange
  <2>4. 1..written' \subseteq (1..written) \cup {written'}
    BY <2>2, OneLineMore DEF Counted
  <2>9. LinesLast'
    <3> SUFFICES ASSUME NEW l \in 1..written'
                 PROVE  l \in struck' \cup OnDisk' \cup held' \cup replica'.text \cup buried' \cup copies'
      OBVIOUS
    <3>1. 1..written \subseteq struck \cup OnDisk \cup held \cup replica.text \cup buried \cup copies
      OBVIOUS
    <3> HIDE DEF LineState, StageInv, Kept, FolderTypeOK, TypeInv, Only
    <3>2. l = written' \/ l \in struck \cup OnDisk \cup held \cup replica.text \cup buried \cup copies
      BY <2>4, <3>1
    <3> QED
      BY <2>1, <2>2, <2>3, <3>2
  <2> HIDE DEF FolderTypeOK, TypeInv, Only
  <2> HIDE DEF LinesLast
  <2> QED
    BY <2>1, <2>2, <2>3, <2>9
<1>5. CASE PeerTypes
  <2>1. written' = written + 1 /\ replica'.state = replica.state
    BY <1>5 DEF PeerTypes, Put
  <2>2. replica.text \subseteq replica'.text /\ buried \subseteq buried'
        /\ written' \in replica'.text \cup buried'
    <3>1. CASE replica.id = durable.id
      <4>1. replica' = Put(replica, written') /\ buried' = buried /\ replica \in File
        BY <1>5, <3>1 DEF PeerTypes
      <4> HIDE DEF LineState, StageInv, TypeInv, FolderTypeOK, Only
      <4> QED
        BY <4>1 DEF Put
    <3>2. CASE replica.id # durable.id
      BY <1>5, <3>2 DEF PeerTypes
    <3> QED
      BY <3>1, <3>2
  <2>3. UNCHANGED <<disk, held, index, baseline, step, copies, struck>>
    BY <1>5 DEF PeerTypes, RemoteChange
  <2>4. 1..written' \subseteq (1..written) \cup {written'}
    BY <2>1, OneLineMore DEF Counted
  <2>5. durable'.state = "live" /\ durable.state = "live"
    BY <1>5 DEF PeerTypes, Put
  <2>9. LinesLast'
    <3> SUFFICES ASSUME NEW l \in 1..written'
                 PROVE  l \in struck' \cup OnDisk' \cup held' \cup replica'.text \cup buried' \cup copies'
      OBVIOUS
    <3>1. 1..written \subseteq struck \cup OnDisk \cup held \cup replica.text \cup buried \cup copies
      OBVIOUS
    <3> HIDE DEF LineState, StageInv, Kept, FolderTypeOK, TypeInv, Only
    <3>2. l = written' \/ l \in struck \cup OnDisk \cup held \cup replica.text \cup buried \cup copies
      BY <2>4, <3>1
    <3> QED
      BY <2>2, <2>3, <3>2
  <2> HIDE DEF FolderTypeOK, TypeInv, Only
  <2> HIDE DEF LinesLast
  <2> QED
    BY <2>1, <2>2, <2>3, <2>5, <2>9
<1>6. ASSUME NEW l, PeerStrikes(l) PROVE LineState'
  BY <1>6 DEF PeerStrikes, RemoteChange, Cut
<1>7. CASE PeerRemoves
  BY <1>7 DEF PeerRemoves, Deleted
<1>8. CASE Watch
  BY <1>8 DEF Watch
<1>9. CASE Scan
  BY <1>9 DEF Scan
<1>10. CASE Rescan
  BY <1>10 DEF Rescan
<1>11. CASE TakeChange
  BY <1>11 DEF TakeChange, Free, Idle
<1>12. ASSUME NEW e \in events, TakeDelete(e) PROVE LineState'
  <2>1. /\ replica'.text = replica.text /\ replica'.id = replica.id
        /\ replica' = replica \/ replica'.state = "deleted"
    BY <1>12 DEF TakeDelete, DeleteEntry, Deleted
  <2>2. index' \subseteq index /\ baseline' \in {baseline, NoBaseline}
    BY <1>12 DEF TakeDelete, DeleteEntry, Forgets
  <2>3. UNCHANGED <<disk, held, step, durable, buried, copies, struck, written>>
    BY <1>12 DEF TakeDelete
  <2>4. step.at = "idle"
    BY <1>12 DEF TakeDelete, Free, Idle
  <2>5. BothDeleted => replica'.state = "deleted"
    BY <2>1
  <2>9. LinesLast'
    <3> SUFFICES ASSUME NEW l \in 1..written'
                 PROVE  l \in struck' \cup OnDisk' \cup held' \cup replica'.text \cup buried' \cup copies'
      OBVIOUS
    <3>1. 1..written \subseteq struck \cup OnDisk \cup held \cup replica.text \cup buried \cup copies
      OBVIOUS
    <3> HIDE DEF LineState, StageInv, Kept, FolderTypeOK, TypeInv, Only
    <3> QED
      BY <2>1, <2>3, <3>1
  <2> HIDE DEF FolderTypeOK, TypeInv, Only
  <2> HIDE DEF LinesLast
  <2> QED
    BY <2>1, <2>2, <2>3, <2>4, <2>5, <2>9
<1>13. CASE CommitDelete
  <2>1. /\ replica'.text = replica.text /\ replica'.id = replica.id
        /\ replica' = replica \/ replica'.state = "deleted"
    BY <1>13 DEF CommitDelete, DeleteEntry, Deleted
  <2>2. index' \subseteq index /\ baseline' \in {baseline, NoBaseline}
    BY <1>13 DEF CommitDelete, DeleteEntry, Forgets
  <2>3. UNCHANGED <<disk, held, step, durable, buried, copies, struck, written>>
    BY <1>13 DEF CommitDelete
  <2>4. step.at = "idle"
    BY <1>13 DEF CommitDelete, Free, Idle
  <2>5. BothDeleted => replica'.state = "deleted"
    BY <2>1
  <2>9. LinesLast'
    <3> SUFFICES ASSUME NEW l \in 1..written'
                 PROVE  l \in struck' \cup OnDisk' \cup held' \cup replica'.text \cup buried' \cup copies'
      OBVIOUS
    <3>1. 1..written \subseteq struck \cup OnDisk \cup held \cup replica.text \cup buried \cup copies
      OBVIOUS
    <3> HIDE DEF LineState, StageInv, Kept, FolderTypeOK, TypeInv, Only
    <3> QED
      BY <2>1, <2>3, <3>1
  <2> HIDE DEF FolderTypeOK, TypeInv, Only
  <2> HIDE DEF LinesLast
  <2> QED
    BY <2>1, <2>2, <2>3, <2>4, <2>5, <2>9
<1>14. CASE MaterializePending
  BY <1>14 DEF MaterializePending, Free, Idle
<1>15. CASE Project
  BY <1>15 DEF Project, Free, Idle
<1>16. CASE FlushSubmit
  BY <1>16 DEF FlushSubmit
<1>17. CASE Crash
  BY <1>17 DEF Crash, Idle, HalfDone
<1>18. CASE Start
  BY <1>18 DEF Start
<1>19. CASE Ingest
  <2>1. CASE Echo(step.text)
    BY <1>19, <2>1 DEF Ingest, Idle
  <2>2. CASE ~Echo(step.text)
    <3>1. Merges \/ Create
      BY <1>0, <1>19, <2>2 DEF Ingest
    <3>2. baseline'.text = step.text /\ step.at = "read"
      <4>1. baseline' = [id |-> replica'.id, text |-> step.text] /\ step.at = "read"
        BY <1>19, <2>2 DEF Ingest
      <4> HIDE DEF LineState, StageInv, Kept, FolderTypeOK, TypeInv, Only
      <4> QED
        BY <4>1
    <3>3. step'.at \in {"turn", "idle"}
      BY <1>19 DEF Ingest, Idle
    <3>4. UNCHANGED <<disk, held, struck, copies, written>>
      BY <1>19 DEF Ingest
    <3>5. /\ replica'.state = "live"
          /\ replica.text \subseteq replica'.text \cup buried' \cup struck
          /\ step.text \subseteq replica'.text \cup struck
          /\ buried \subseteq buried'
      <4>1. CASE Merges
        <5>1. replica.state = "live" /\ baseline # NoBaseline
          BY <4>1 DEF Merges, HasBaseline
        <5>2. baseline.text \subseteq struck \cup step.text
          BY <5>1, <3>2
        <5>3. baseline.text \subseteq replica.text \cup struck
          BY <5>1
        <5>4. /\ replica'.text = (replica.text \ (baseline.text \ step.text)) \cup (step.text \ baseline.text)
              /\ replica'.state = "live" /\ buried' = buried
          BY <4>1 DEF Merges
        <5> HIDE DEF LineState, StageInv, Kept, FolderTypeOK, TypeInv, Only
        <5> QED
          BY <5>2, <5>3, <5>4
      <4>2. CASE Create
        BY <4>2 DEF Create, Entry, NoFile
      <4> QED
        BY <3>1, <4>1, <4>2
    <3>6. step.text \subseteq Kept
      BY <3>2
    <3>7. LinesLast'
      <4> SUFFICES ASSUME NEW l \in 1..written'
                   PROVE  l \in struck' \cup OnDisk' \cup held' \cup replica'.text \cup buried' \cup copies'
        OBVIOUS
      <4>1. 1..written \subseteq struck \cup OnDisk \cup held \cup replica.text \cup buried \cup copies
        OBVIOUS
      <4> HIDE DEF LineState, StageInv, Kept, FolderTypeOK, TypeInv, Only
      <4> QED
        BY <3>4, <3>5, <4>1
    <3> HIDE DEF FolderTypeOK, TypeInv, Only, LinesLast
    <3> QED
      BY <3>2, <3>3, <3>4, <3>5, <3>6, <3>7
  <2> QED
    BY <2>1, <2>2
<1>20. CASE NothingToWrite
  BY <1>20 DEF NothingToWrite, Done, Idle
<1>21. CASE TurnToDelete
  <2>1. step.at = "turn" /\ step'.at \in {"idle", "unlink"}
    BY <1>21, Moved DEF TurnToDelete
  <2>2. \/ UNCHANGED indexVars
        \/ index' \subseteq index /\ baseline' \in {baseline, NoBaseline}
    BY <1>21 DEF TurnToDelete, Forgets
  <2>3. UNCHANGED <<disk, held, replica, durable, struck, copies, buried, written>>
    BY <1>21 DEF TurnToDelete
  <2>4. step'.at = "unlink" => /\ disk # Absent /\ replica.state = "deleted"
                               /\ \E r \in Own : disk = r.text
    <3>1. CASE disk = Absent
      BY <1>21, <3>1, Moved DEF TurnToDelete
    <3>2. CASE disk # Absent /\ \E r \in Own : disk # r.text
      BY <1>21, <3>2, Moved DEF TurnToDelete
    <3>3. CASE disk # Absent /\ \A r \in Own : disk = r.text
      BY <1>21, <3>3, Moved DEF TurnToDelete, NeedsMaterialization, Known
    <3> QED
      BY <3>1, <3>2, <3>3
  <2> HIDE DEF FolderTypeOK, TypeInv
  <2>5. step'.at = "unlink" => OnDisk \subseteq struck \cup replica.text
    <3>1. \A r \in Own : r.text \subseteq replica.text \cup struck
      BY DEF RowsKept
    <3> HIDE DEF LineState, StageInv, Only, Kept
    <3> QED
      BY <2>4, <3>1
  <2> QED
    BY <2>1, <2>2, <2>3, <2>5
<1>22. CASE Unlink
  <2>1. CASE disk = Absent
    <3>1. step'.at = "idle"
      BY <1>22, <2>1, Moved DEF Unlink
    <3>2. UNCHANGED <<disk, held, replica, durable, index, baseline, struck, buried, copies, written>>
      BY <1>22, <2>1 DEF Unlink
    <3> HIDE DEF FolderTypeOK, TypeInv, Only
    <3> QED
      BY <3>1, <3>2
  <2>2. CASE disk # Absent
    <3>1. step.at = "unlink" /\ step'.at = "forget" /\ BothDeleted
      BY <1>22, <2>2, Moved DEF Unlink
    <3>2. disk' = Absent /\ UNCHANGED <<held, replica, durable, index, baseline, struck, buried, copies, written>>
      BY <1>22, <2>2 DEF Unlink
    <3>3. OnDisk \subseteq struck \cup replica.text \cup copies
      BY <3>1
    <3>7. LinesLast'
      <4>1. 1..written \subseteq struck \cup OnDisk \cup held \cup replica.text \cup buried \cup copies
        OBVIOUS
      <4> HIDE DEF LineState, StageInv, Kept, FolderTypeOK, TypeInv, Only, OnDisk
      <4> QED
        BY <3>2, <3>3, <4>1
    <3> HIDE DEF FolderTypeOK, TypeInv, Only, LinesLast
    <3> QED
      BY <3>1, <3>2, <3>7
  <2> QED
    BY <2>1, <2>2
<1>23. CASE Forget
  BY <1>23 DEF Forget, Forgets, Done, Idle
<1>24. CASE TurnToWrite
  BY <1>24 DEF TurnToWrite, NeedsMaterialization, Goes
<1>25. CASE CheckDisk
  BY <1>25 DEF CheckDisk, Goes, HasBaseline
<1>26. CASE Rename
  <2>1. step.at = "rename" /\ step'.at = "record" /\ step'.text = step.text
    BY <1>26, Moved DEF Rename
  <2>2. disk' = step.text /\ disk' # Absent
    BY <1>26, AbsentIsNoText DEF Rename
  <2>3. /\ struck' = struck \cup held /\ held' = {}
        /\ UNCHANGED <<replica, durable, index, baseline, buried, copies, written>>
    BY <1>26 DEF Rename
  <2>4. OnDisk' = step.text
    BY <2>2
  <2>5. /\ OnDisk \subseteq struck \cup replica.text \cup copies \cup step.text
        /\ baseline # NoBaseline => baseline.text \subseteq struck \cup step.text
        /\ step.text \subseteq replica.text \cup struck
    BY <2>1
  <2>6. 1..written \subseteq struck \cup OnDisk \cup held \cup replica.text \cup buried \cup copies
    OBVIOUS
  <2> HIDE DEF OnDisk, TypeInv, FolderTypeOK, Only
  <2>7. LinesLast'
    BY <2>3, <2>4, <2>5, <2>6
  <2> HIDE DEF LinesLast
  <2> QED
    BY <2>1, <2>3, <2>4, <2>5, <2>7
<1>27. CASE Record
  <2>1. step.at = "record" /\ step'.at = "idle"
    BY <1>27, Moved DEF Record
  <2>2. UNCHANGED <<disk, held, replica, durable, buried, copies, written, struck>>
    BY <1>27 DEF Record
  <2>3. \/ baseline' = baseline
        \/ baseline'.text = step.text
    <3>1. CASE disk = Absent
      BY <1>27, <3>1 DEF Record
    <3>2. CASE disk # Absent
      <4>1. PICK b : b = [id |-> replica.id, text |-> step.text] /\ baseline' = b
        BY <1>27, <3>2 DEF Record
      <4>2. b.text = step.text
        BY <4>1
      <4> QED
        BY <4>1, <4>2
    <3> QED
      BY <3>1, <3>2
  <2> HIDE DEF TypeInv, FolderTypeOK, Only
  <2>4. LinesLast'
    BY <2>2
  <2> HIDE DEF LinesLast
  <2> QED
    BY <2>1, <2>2, <2>3, <2>4
<1>28. CASE UNCHANGED folderVars
  BY <1>28 DEF folderVars
<1> QED
  BY <1>1, <1>2, <1>3, <1>4, <1>5, <1>6, <1>7, <1>8, <1>9, <1>10, <1>11, <1>12, <1>13, <1>14,
     <1>15, <1>16, <1>17, <1>18, <1>19, <1>20, <1>21, <1>22, <1>23, <1>24, <1>25, <1>26,
     <1>27, <1>28 DEF FolderNext, User, Peers, Parts, TakeDeletes
(***************************************************************************)
(* Theorems                                                                *)
(***************************************************************************)
FolderInv ==
    /\ TypeInv /\ StageInv
    /\ Only(EchoMishaps) => EchoState
    /\ Only(LineMishaps) => LineState /\ RowsKept

\* The invariant holds at the start, in a bound folder and in an empty one.
LEMMA InitFolderInv == ASSUME FolderInit PROVE FolderInv
<1>1. TypeInv
  BY InitTypes
<1>2. step.at = "idle" /\ durable = replica
  BY DEF FolderInit, Idle
<1>3. CASE replica = NoFile /\ index = {} /\ baseline = NoBaseline
  <2>1. StageInv
    BY <1>2, <1>3 DEF FolderInit, StageInv, BothDeleted, FileState, NoFile
  <2>2. EchoState /\ LineState /\ RowsKept
    BY <1>2, <1>3 DEF FolderInit, EchoState, LineState, LinesLast, RowsKept, Own
  <2> QED
    BY <1>1, <2>1, <2>2 DEF FolderInv
<1>4. CASE /\ disk = {} /\ replica = [NoFile EXCEPT !.id = 1, !.state = "live"]
           /\ index = {[id |-> 1, text |-> {}, stat |-> {}]}
           /\ baseline = [id |-> 1, text |-> {}]
  <2>1. replica.state = "live" /\ replica.id = 1
    BY <1>4 DEF NoFile
  <2>2. StageInv
    BY <1>2, <2>1 DEF FolderInit, StageInv, BothDeleted, FileState
  <2>3. baseline.text = {} /\ RowsKept
    BY <1>4 DEF RowsKept, Own
  <2>4. EchoState
    BY <1>2, <1>4, <2>3 DEF FolderInit, EchoState, FollowsFrom
  <2>5. LineState
    BY <1>2, <2>1, <2>3 DEF FolderInit, LineState, LinesLast
  <2> QED
    BY <1>1, <2>2, <2>3, <2>4, <2>5 DEF FolderInv
<1> QED
  BY <1>3, <1>4 DEF FolderInit

\* Every step keeps the invariant.
LEMMA NextFolderInv == ASSUME FolderInv, [FolderNext]_folderVars PROVE FolderInv'
<1>1. TypeInv'
  BY NextTypes DEF FolderInv
<1>2. StageInv'
  BY StagesKept DEF FolderInv, TypeInv
<1>3. ASSUME Only(EchoMishaps)' PROVE EchoState'
  <2>1. Only(EchoMishaps)
    BY <1>3, MishapsStay DEF Only
  <2> QED
    BY <1>3, <2>1, EchoKept DEF FolderInv
<1>4. ASSUME Only(LineMishaps)' PROVE LineState' /\ RowsKept'
  <2>1. Only(LineMishaps)
    BY <1>4, MishapsStay DEF Only
  <2> QED
    BY <1>4, <2>1, LineKept, RowsStayKept DEF FolderInv
<1> QED
  BY <1>1, <1>2, <1>3, <1>4 DEF FolderInv

\* The invariant holds of every behaviour.
LEMMA AlwaysFolderInv == FolderSpec => []FolderInv
  BY InitFolderInv, NextFolderInv, PTL DEF FolderSpec

\* Disk, replica, index, baseline and the task in hand keep their types.
THEOREM FolderTypes == FolderSpec => []FolderTypeOK
<1>1. FolderInv => FolderTypeOK
  BY DEF FolderInv, TypeInv
<1> QED
  BY <1>1, AlwaysFolderInv, PTL

\* Nothing but what the user changed on disk is sent as the user's edit
\* (handleFileEvent), whatever crossed: peers' edits, deletions, writes, restarts.
THEOREM SendsNoEchoes == FolderSpec => []OnlyTheUsersEdits
<1>1. FolderInv => OnlyTheUsersEdits
  BY DEF FolderInv, EchoState, Only, EchoMishaps, OnlyTheUsersEdits
<1> QED
  BY <1>1, AlwaysFolderInv, PTL

\* No line that somebody wrote and nobody took out is lost between the disk and the
\* session (ingestChange, handleTextMaterialization, handleDeletion).
THEOREM LosesNoLine == FolderSpec => []LinesLastOtherwise
<1>1. FolderInv => LinesLastOtherwise
  BY DEF FolderInv, LineState, Only, LineMishaps, LinesLastOtherwise
<1> QED
  BY <1>1, AlwaysFolderInv, PTL
=============================================================================
