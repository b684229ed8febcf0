----------------------- MODULE AutoGitBranchWorkProofs -----------------------
(***************************************************************************)
(* Proofs about what AutoGitBranch saves, for any devices, items and       *)
(* bounds.  OrderInv puts the checkpoint, the branch and what a leader saw *)
(* of it in order; ContentInv says that a commit of a save holds the       *)
(* session as it was at its barrier, that what a save builds on has been   *)
(* in the session, and that what a device counts as saved is on the        *)
(* branch; LineageInv, ClaimInv and LineInv say where the checkpoint is on *)
(* the branch while a rebase replaces it.  From ContentInv follows that    *)
(* saving implements SavedSession.                                         *)
(***************************************************************************)
EXTENDS AutoGitBranchProofs


(***************************************************************************)
(* Ancestors                                                               *)
(***************************************************************************)
\* What holds of a commit whenever it holds of the commits before it holds of all.
LEMMA LeastCommit ==
    ASSUME NEW n \in Nat, NEW Bad \in SUBSET (0..n), Bad # {}
    PROVE  \E c \in Bad : \A b \in 0..n : b < c => b \notin Bad
<1>1. Bad \in SUBSET Nat
  OBVIOUS
<1>2. PICK c \in Bad : \A b \in Bad : ~(<<b, c>> \in OpToRel(<, Nat))
  BY <1>1, WFMin, NatLessThanWellFounded
<1>3. \A b \in 0..n : b < c => b \notin Bad
  BY <1>1, <1>2 DEF OpToRel
<1> QED
  BY <1>3

\* The ancestors of the commits of a history.
LEMMA HistoryFacts ==
    ASSUME NEW cs \in History
    PROVE  /\ Len(cs) \in Nat
           /\ Line(cs, 0) = {}
           /\ \A c \in 1..Len(cs) : /\ cs[c].parent \in 0..Len(cs) /\ cs[c].parent < c
                                    /\ Line(cs, c) = {c} \cup Line(cs, cs[c].parent)
<1>1. Len(cs) \in Nat /\ DOMAIN cs = 1..Len(cs)
  BY DEF History
<1>2. \A c \in 1..Len(cs) : cs[c].parent \in 0..(c - 1)
                            /\ Line(cs, c) = {c} \cup Line(cs, cs[c].parent)
  BY <1>1, LineUnfolds
<1>3. \A c \in 1..Len(cs) : cs[c].parent \in 0..Len(cs) /\ cs[c].parent < c
  BY <1>1, <1>2
<1> QED
  BY <1>1, <1>2, <1>3, LineUnfolds

\* The ancestors of a commit are not after it, and hold the commit itself.
LEMMA LineBelow ==
    ASSUME NEW cs \in History, NEW c \in 0..Len(cs)
    PROVE  Line(cs, c) \subseteq 1..c /\ (c # 0 => c \in Line(cs, c))
<1>1. Len(cs) \in Nat /\ c \in Nat
  BY HistoryFacts
<1> DEFINE Bad == {n \in 0..Len(cs) : ~(Line(cs, n) \subseteq 1..n)}
<1>2. ASSUME Bad # {} PROVE FALSE
  <2>1. PICK m \in Bad : \A b \in 0..Len(cs) : b < m => b \notin Bad
    BY <1>1, <1>2, LeastCommit
  <2>2. m # 0
    BY <2>1, HistoryFacts
  <2>3. m \in 1..Len(cs)
    BY <1>1, <2>2
  <2>4. PICK p : p = cs[m].parent
    OBVIOUS
  <2>5. p \in 0..Len(cs) /\ p < m /\ Line(cs, m) = {m} \cup Line(cs, p)
    BY <2>3, <2>4, HistoryFacts
  <2>6. Line(cs, p) \subseteq 1..p
    BY <2>1, <2>5
  <2>7. 1..p \subseteq 1..m /\ m \in 1..m
    BY <1>1, <2>3, <2>5
  <2> QED
    BY <2>1, <2>5, <2>6, <2>7
<1>3. Line(cs, c) \subseteq 1..c
  BY <1>2
<1>4. c # 0 => c \in Line(cs, c)
  <2>1. c # 0 => c \in 1..Len(cs)
    BY <1>1
  <2> QED
    BY <2>1, HistoryFacts
<1> QED
  BY <1>3, <1>4

\* The ancestors of an ancestor are ancestors.
LEMMA LineTransitive ==
    ASSUME NEW cs \in History, NEW c \in 0..Len(cs), NEW b \in Line(cs, c)
    PROVE  Line(cs, b) \subseteq Line(cs, c)
<1>1. Len(cs) \in Nat /\ c \in Nat
  BY HistoryFacts
<1> DEFINE Bad == {n \in 0..Len(cs) : \E x \in Line(cs, n) : ~(Line(cs, x) \subseteq Line(cs, n))}
<1>2. ASSUME Bad # {} PROVE FALSE
  <2>1. PICK m \in Bad : \A y \in 0..Len(cs) : y < m => y \notin Bad
    BY <1>1, <1>2, LeastCommit
  <2>2. PICK x \in Line(cs, m) : ~(Line(cs, x) \subseteq Line(cs, m))
    BY <2>1
  <2>3. m # 0
    BY <2>2, HistoryFacts
  <2>4. m \in 1..Len(cs)
    BY <1>1, <2>3
  <2>5. PICK p : p = cs[m].parent
    OBVIOUS
  <2>6. p \in 0..Len(cs) /\ p < m /\ Line(cs, m) = {m} \cup Line(cs, p)
    BY <2>4, <2>5, HistoryFacts
  <2>7. x # m /\ x \in Line(cs, p)
    BY <2>2, <2>6
  <2>8. Line(cs, x) \subseteq Line(cs, p)
    BY <2>1, <2>6, <2>7
  <2> QED
    BY <2>2, <2>6, <2>8
<1> QED
  BY <1>2

\* A commit keeps its ancestors.
LEMMA LineStays ==
    ASSUME NEW cs \in History, NEW ds \in History, Extends(cs, ds), NEW c \in 0..Len(cs)
    PROVE  Line(ds, c) = Line(cs, c)
<1>1. Len(cs) \in Nat /\ Len(ds) \in Nat /\ Len(cs) <= Len(ds) /\ c \in Nat
  BY HistoryFacts DEF Extends
<1> DEFINE Bad == {n \in 0..Len(cs) : Line(ds, n) # Line(cs, n)}
<1>2. ASSUME Bad # {} PROVE FALSE
  <2>1. PICK m \in Bad : \A y \in 0..Len(cs) : y < m => y \notin Bad
    BY <1>1, <1>2, LeastCommit
  <2>2. m # 0
    BY <2>1, HistoryFacts
  <2>3. m \in 1..Len(cs) /\ m \in 1..Len(ds)
    BY <1>1, <2>2
  <2>4. PICK p : p = cs[m].parent
    OBVIOUS
  <2>5. p \in 0..Len(cs) /\ p < m /\ Line(cs, m) = {m} \cup Line(cs, p)
    BY <2>3, <2>4, HistoryFacts
  <2>6. ds[m] = cs[m]
    BY <2>3 DEF Extends
  <2>7. Line(ds, m) = {m} \cup Line(ds, p)
    BY <2>3, <2>4, <2>6, HistoryFacts
  <2>8. Line(ds, p) = Line(cs, p)
    BY <2>1, <2>5
  <2> QED
    BY <2>1, <2>5, <2>7, <2>8
<1> QED
  BY <1>2

\* The same of the branch.
LEMMA AncestorsFacts ==
    ASSUME HistoryTypes
    PROVE  /\ \A c : Ancestors(c) = Line(commits, c)
           /\ Ancestors(0) = {} /\ Ancestors(1) = {1}
           /\ \A c \in 1..Len(commits) : c \in Ancestors(c)
           /\ \A c \in 0..Len(commits) : \A b \in Ancestors(c) :
                b \in 1..Len(commits) /\ b <= c /\ Ancestors(b) \subseteq Ancestors(c)
<1>1. commits \in History /\ Len(commits) \in Nat \ {0}
  BY HistoryTypesUnfold DEF HistoryTypes
<1>2. \A c : Ancestors(c) = Line(commits, c)
  BY DEF Ancestors, Line
<1>3. Line(commits, 0) = {} /\ Line(commits, 1) = {1}
  <2>1. 1 \in 1..Len(commits) /\ 1 \in 0..Len(commits)
    BY <1>1
  <2>2. Line(commits, 1) \subseteq 1..1 /\ 1 \in Line(commits, 1)
    BY <1>1, <2>1, LineBelow
  <2> QED
    BY <1>1, <2>2, HistoryFacts
<1>4. \A c \in 0..Len(commits) : Line(commits, c) \subseteq 1..c /\ (c # 0 => c \in Line(commits, c))
  BY <1>1, LineBelow
<1>5. \A c \in 0..Len(commits) : 1..c \subseteq 1..Len(commits) /\ \A b \in 1..c : b <= c
  BY <1>1
<1>6. \A c \in 0..Len(commits) : \A b \in Line(commits, c) : Line(commits, b) \subseteq Line(commits, c)
  BY <1>1, LineTransitive
<1>7. \A c \in 1..Len(commits) : c \in 0..Len(commits) /\ c # 0
  BY <1>1
<1> QED
  BY <1>2, <1>3, <1>4, <1>5, <1>6, <1>7

(***************************************************************************)
(* The checkpoint, the branch and what a leader saw of it, in order        *)
(***************************************************************************)
\* C is the commit of the checkpoint, R the branch, has whether the job's lease
\* is the present one.
Ordered(j, r, m, i, C, R, has) ==
    /\ m.commit <= C /\ i <= R /\ j.head <= R
    /\ has /\ j.step \in Looked => C <= j.head
    /\ j.step \in {"recover", "publish"} => j.out <= R /\ (has => C <= j.out)
    /\ j.step \in OnParent /\ r = NoRebase /\ j.head = 0 => j.parent = 1
    /\ j.step = "mark" /\ has => C = j.parent

OrderInv ==
    /\ checkpoint.commit <= remote
    /\ checkpoint = NoCheckpoint \/ checkpoint.commit # 0
    /\ \A d \in Device : Ordered(job[d], rebase[d], mine[d], integrated[d], checkpoint.commit, remote,
                                 HasLease(d, job[d].gen))

\* What a step gives to a device, as far as the order goes.
Shifts(d, j, r, m, i) ==
    /\ job' = [job EXCEPT ![d] = j]
    /\ rebase' = [rebase EXCEPT ![d] = r]
    /\ mine' = [mine EXCEPT ![d] = m]
    /\ integrated' = [integrated EXCEPT ![d] = i]

\* A function set to its own value at d is as it was.
LEMMA UnmovedSaved ==
    ASSUME TypeInv, NEW d \in Device
    PROVE  /\ mine = [mine EXCEPT ![d] = mine[d]] /\ integrated = [integrated EXCEPT ![d] = integrated[d]]
           /\ clean = [clean EXCEPT ![d] = clean[d]] /\ rebase = [rebase EXCEPT ![d] = rebase[d]]
           /\ job = [job EXCEPT ![d] = job[d]]
  BY DeviceFunctions

\* A step of one device keeps the order, when its own records stay in order and
\* the checkpoint and the branch only move forward.
LEMMA OrderMoves ==
    ASSUME TypeInv, OrderInv, NEW d \in Device, NEW j, NEW r, NEW m, NEW i,
           NEW C \in Nat, NEW R \in Nat,
           Shifts(d, j, r, m, i), checkpoint'.commit = C, remote' = R,
           checkpoint.commit <= C, remote <= R, C <= R,
           checkpoint' = NoCheckpoint \/ C # 0,
           C # checkpoint.commit => HasLease(d, job[d].gen),
           UNCHANGED <<leader, generation>>,
           Ordered(j, r, m, i, C, R, HasLease(d, j.gen))
    PROVE  OrderInv'
<1>1. job'[d] = j /\ rebase'[d] = r /\ mine'[d] = m /\ integrated'[d] = i
  BY DeviceFunctions DEF Shifts
<1>2. \A e \in Device \ {d} : /\ job'[e] = job[e] /\ rebase'[e] = rebase[e]
                              /\ mine'[e] = mine[e] /\ integrated'[e] = integrated[e]
  BY DeviceFunctions DEF Shifts
<1>3. \A e : \A g : HasLease(e, g)' <=> HasLease(e, g)
  BY DEF HasLease
<1>4. ASSUME NEW e \in Device \ {d}
      PROVE  Ordered(job[e], rebase[e], mine[e], integrated[e], C, R, HasLease(e, job[e].gen))
  <2>1. Ordered(job[e], rebase[e], mine[e], integrated[e], checkpoint.commit, remote, HasLease(e, job[e].gen))
    BY DEF OrderInv
  <2>2. HasLease(e, job[e].gen) => C = checkpoint.commit
    BY DEF HasLease
  <2>3. /\ mine[e].commit \in Nat /\ integrated[e] \in Nat /\ job[e].head \in Nat /\ job[e].out \in Nat
        /\ remote \in Nat /\ checkpoint.commit \in Nat
    BY RecordsOfTypes, DevicesOfTypes DEF CheckpointsTo
  <2> QED
    BY <2>1, <2>2, <2>3 DEF Ordered
<1>5. \A e \in Device : Ordered(job'[e], rebase'[e], mine'[e], integrated'[e], C, R, HasLease(e, job'[e].gen))
  BY <1>1, <1>2, <1>4
<1>6. \A e \in Device : HasLease(e, job'[e].gen) <=> HasLease(e, job[e].gen)'
  BY DEF HasLease
<1>7. \A e \in Device : Ordered(job'[e], rebase'[e], mine'[e], integrated'[e], C, R, HasLease(e, job[e].gen)')
  BY <1>5, <1>6 DEF Ordered
<1>8. \A e \in Device : Ordered(job[e], rebase[e], mine[e], integrated[e], checkpoint.commit, remote,
                                HasLease(e, job[e].gen))'
  BY <1>7 DEF Ordered
<1> QED
  BY <1>8 DEF OrderInv

\* A checkpoint a device takes over.
LEMMA AcceptsMoves ==
    ASSUME TypeInv, NEW d \in Device, NEW c, Accepts(d, c)
    PROVE  \E m \in {mine[d], c}, i \in {integrated[d], 0} :
              mine' = [mine EXCEPT ![d] = m] /\ integrated' = [integrated EXCEPT ![d] = i]
  BY UnmovedSaved DEF Accepts

\* What a push may put on the branch is not before what is there.
LEMMA PushGoesForward ==
    ASSUME TypeInv, ShapeInv, NEW d \in Device, At(d, "push"), Takes(d)
    PROVE  /\ job[d].out # 0 => remote <= job[d].out
           /\ remote <= job[d].parent \/ remote = 0
<1>1. Shape(job[d], rebase[d], journal[d], staged[d]) /\ job[d].step = "push"
  BY DEF ShapeInv, At
<1>2. job[d].out \in {0, job[d].parent} /\ job[d].parent # 0
  BY <1>1 DEF Shape, SaveShape, OnParent
<1>3. /\ job[d].parent \in 0..Len(commits) /\ job[d].parent \in Nat /\ remote \in 0..Len(commits)
      /\ remote \in Nat /\ HistoryTypes
  BY RecordsOfTypes, DevicesOfTypes DEF JobsTo
<1>4. CASE rebase[d] # NoRebase
  <2>1. /\ rebase[d].from = journal[d].from /\ rebase[d].result = journal[d].result
        /\ journal[d].state # "none"
    BY <1>1, <1>4 DEF Shape, RebaseShape, UnderWay
  <2>2. journal[d].from < journal[d].result
    BY <1>1, <2>1 DEF Shape, JournalShape
  <2>3. remote = rebase[d].from /\ job[d].parent = rebase[d].result
    BY <1>1, <1>4 DEF Takes, Shape, SaveShape, OnParent
  <2>4. journal[d].from \in Nat /\ journal[d].result \in Nat
    BY RecordsOfTypes
  <2>5. remote <= job[d].parent
    BY <2>1, <2>2, <2>3, <2>4
  <2> QED
    BY <1>2, <2>5
<1>5. CASE rebase[d] = NoRebase
  <2>1. remote = 0 \/ remote \in Ancestors(job[d].parent)
    BY <1>2, <1>5 DEF Takes
  <2>2. remote \in Ancestors(job[d].parent) => remote <= job[d].parent
    BY <1>3, AncestorsFacts
  <2> QED
    BY <1>2, <1>3, <2>1, <2>2
<1> QED
  BY <1>4, <1>5

\* The order, device by device.
LEMMA OrderRest ==
    ASSUME TypeInv, OrderInv, NEW d \in Device
    PROVE  /\ mine[d].commit \in Nat /\ integrated[d] \in Nat /\ job[d].head \in Nat /\ job[d].out \in Nat
           /\ job[d].parent \in Nat /\ remote \in Nat /\ checkpoint.commit \in Nat
           /\ mine[d].commit <= checkpoint.commit /\ integrated[d] <= remote
           /\ job[d].head <= remote /\ checkpoint.commit <= remote
           /\ checkpoint = NoCheckpoint \/ checkpoint.commit # 0
           /\ Ordered(job[d], rebase[d], mine[d], integrated[d], checkpoint.commit, remote,
                      HasLease(d, job[d].gen))
<1>1. checkpoint.commit \in Nat
  <2>1. checkpoint \in CheckpointsTo(Len(commits), Seq0) /\ Len(commits) \in Nat
    BY DevicesOfTypes, HistoryTypesUnfold
  <2> QED
    BY <2>1 DEF CheckpointsTo
<1> QED
  BY <1>1, RecordsOfTypes DEF OrderInv, Ordered

\* The steps of a save keep the order.
LEMMA SaveKeepsOrder ==
    ASSUME TypeInv, ShapeInv, OrderInv, NEW d \in Device, NEW heard,
           \/ ResolveRebase(d) \/ ResolveUnmoved(d) \/ ResolveOwn(d) \/ ResolveOutside(d)
           \/ MergeOutside(d) \/ Capture(d) \/ CaptureRefused(d) \/ Fence(d) \/ FenceRefused(d)
           \/ Push(d, heard) \/ PushRejected(d) \/ Publish(d, heard) \/ PublishRefused(d)
           \/ Mark(d, heard) \/ MarkRefused(d)
    PROVE  OrderInv'
<1> DEFINE j0 == job[d]
           r0 == rebase[d]
           m0 == mine[d]
           i0 == integrated[d]
           C0 == checkpoint.commit
<1>1. SaveShape(j0, r0)
  <2>1. Shape(j0, r0, journal[d], staged[d])
    BY DEF ShapeInv
  <2> QED
    BY <2>1 DEF Shape
<1>2. /\ j0 \in JobsTo(Len(commits), Seq0, generation)
      /\ m0.commit \in Nat /\ i0 \in Nat /\ j0.head \in Nat /\ j0.out \in Nat /\ j0.parent \in Nat
      /\ remote \in Nat /\ C0 \in Nat /\ m0.commit <= C0 /\ i0 <= remote
      /\ j0.head <= remote /\ C0 <= remote
      /\ checkpoint = NoCheckpoint \/ C0 # 0
      /\ Ordered(j0, r0, m0, i0, C0, remote, HasLease(d, j0.gen))
      /\ Len(commits) \in Nat /\ remote <= Len(commits)
  <2>1. remote \in 0..Len(commits) /\ Len(commits) \in Nat
    BY DevicesOfTypes, HistoryTypesUnfold
  <2> QED
    BY <2>1, OrderRest, RecordsOfTypes
<1>3. /\ mine = [mine EXCEPT ![d] = m0] /\ integrated = [integrated EXCEPT ![d] = i0]
      /\ rebase = [rebase EXCEPT ![d] = r0]
  BY UnmovedSaved
<1>4. ASSUME NEW j, NEW r, NEW m, NEW i, NEW C \in Nat, NEW R \in Nat,
           Shifts(d, j, r, m, i), checkpoint'.commit = C, remote' = R,
           C0 <= C, remote <= R, C <= R,
           checkpoint' = NoCheckpoint \/ C # 0,
           C # C0 => HasLease(d, j0.gen),
           UNCHANGED <<leader, generation>>,
           Ordered(j, r, m, i, C, R, HasLease(d, j.gen))
      PROVE OrderInv'
  BY <1>4, OrderMoves
<1> HIDE DEF j0, r0, m0, i0, C0
<1>5. ASSUME NEW j, Goes(d, j), UNCHANGED <<rebase, mine, integrated, checkpoint, remote, leader, generation>>,
             Ordered(j, r0, m0, i0, C0, remote, HasLease(d, j.gen))
      PROVE  OrderInv'
  <2>1. Shifts(d, j, r0, m0, i0)
    BY <1>3, <1>5 DEF Goes, Shifts
  <2>2. checkpoint'.commit = C0 /\ remote' = remote /\ (checkpoint' = NoCheckpoint \/ C0 # 0)
    BY <1>2, <1>5 DEF C0
  <2> QED
    BY <1>2, <1>4, <1>5, <2>1, <2>2
<1>6. Idle.step = "idle" /\ Idle.head = 0
  BY DEF Idle
<1>7. ASSUME Stops(d), UNCHANGED <<mine, integrated, checkpoint, remote, leader, generation>>,
             NEW r, rebase' = [rebase EXCEPT ![d] = r]
      PROVE  OrderInv'
  <2>1. Shifts(d, Idle, r, m0, i0)
    BY <1>3, <1>7 DEF Stops, Goes, Shifts
  <2>2. checkpoint'.commit = C0 /\ remote' = remote /\ (checkpoint' = NoCheckpoint \/ C0 # 0)
    BY <1>2, <1>7 DEF C0
  <2>3. Ordered(Idle, r, m0, i0, C0, remote, HasLease(d, Idle.gen))
    BY <1>2, <1>6 DEF Ordered, Looked, OnParent
  <2> QED
    BY <1>2, <1>4, <1>7, <2>1, <2>2, <2>3
<1>8. ASSUME NEW p, NEW step
      PROVE  LET j == [j0 EXCEPT !.step = step, !.parent = p, !.head = remote]
             IN  j.step = step /\ j.parent = p /\ j.head = remote /\ j.out = j0.out
  BY <1>2 DEF JobsTo
<1>9. CASE ResolveRebase(d)
  <2>1. UNCHANGED <<mine, integrated, checkpoint, remote, leader, generation>> /\ r0 # NoRebase
    BY <1>9 DEF ResolveRebase, Looks, roomVars, gitVars, r0
  <2>2. CASE remote = rebase[d].from
    <3>1. PICK j : j = [j0 EXCEPT !.step = "capture", !.parent = rebase[d].result, !.head = remote]
      OBVIOUS
    <3>2. Goes(d, j) /\ UNCHANGED rebase
      BY <1>9, <2>2, <3>1 DEF ResolveRebase, BuildsOn, j0
    <3>3. j.step = "capture" /\ j.head = remote
      BY <1>8, <3>1
    <3>4. Ordered(j, r0, m0, i0, C0, remote, HasLease(d, j.gen))
      BY <1>2, <2>1, <3>3 DEF Ordered
    <3> QED
      BY <1>5, <2>1, <3>2, <3>4
  <2>3. CASE remote # rebase[d].from
    BY <1>7, <1>9, <2>1, <2>3 DEF ResolveRebase
  <2> QED
    BY <2>2, <2>3
<1>10. CASE ResolveUnmoved(d)
  <2>1. PICK j : j = [j0 EXCEPT !.step = "capture", !.parent = Base(d), !.head = remote]
    OBVIOUS
  <2>2. /\ UNCHANGED <<rebase, mine, integrated, checkpoint, remote, leader, generation>>
        /\ Goes(d, j)
    BY <1>10, <2>1 DEF ResolveUnmoved, Looks, BuildsOn, roomVars, gitVars, j0
  <2>3. j.step = "capture" /\ j.head = remote /\ j.parent = Base(d)
    BY <1>8, <2>1
  <2>4. remote = 0 => Base(d) = 1
    BY <1>2 DEF Base, Known, m0, i0, C0
  <2>5. Ordered(j, r0, m0, i0, C0, remote, HasLease(d, j.gen))
    BY <1>2, <2>3, <2>4 DEF Ordered
  <2> QED
    BY <1>5, <2>2, <2>5
<1>11. CASE ResolveOwn(d)
  <2>1. PICK j : j = [j0 EXCEPT !.step = "recover", !.parent = remote, !.head = remote,
                                !.out = remote, !.seq = commits[remote].seq]
    OBVIOUS
  <2>2. /\ UNCHANGED <<rebase, mine, integrated, checkpoint, remote, leader, generation>>
        /\ Goes(d, j)
    BY <1>11, <2>1 DEF ResolveOwn, Looks, roomVars, gitVars, j0
  <2>3. j.step = "recover" /\ j.head = remote /\ j.out = remote
    BY <1>2, <2>1 DEF JobsTo
  <2>4. Ordered(j, r0, m0, i0, C0, remote, HasLease(d, j.gen))
    BY <1>2, <2>3 DEF Ordered, OnParent
  <2> QED
    BY <1>5, <2>2, <2>4
<1>12. CASE ResolveOutside(d)
  <2>1. /\ UNCHANGED <<rebase, mine, integrated, checkpoint, remote, leader, generation>>
    BY <1>12 DEF ResolveOutside, Looks, roomVars, gitVars
  <2>2. CASE Stops(d)
    BY <1>3, <1>7, <2>1, <2>2
  <2>3. CASE ~Stops(d)
    <3>1. PICK j : j = [j0 EXCEPT !.step = "merge", !.parent = Base(d), !.head = remote]
      OBVIOUS
    <3>2. Goes(d, j)
      BY <1>12, <2>3, <3>1 DEF ResolveOutside, BuildsOn, j0
    <3>3. j.step = "merge" /\ j.head = remote
      BY <1>8, <3>1
    <3>4. Ordered(j, r0, m0, i0, C0, remote, HasLease(d, j.gen))
      BY <1>2, <3>3 DEF Ordered, OnParent
    <3> QED
      BY <1>5, <2>1, <3>2, <3>4
  <2> QED
    BY <2>2, <2>3
<1>13. CASE MergeOutside(d)
  <2>1. PICK j : j = [j0 EXCEPT !.step = "capture", !.parent = j0.head]
    OBVIOUS
  <2>2. /\ UNCHANGED <<rebase, mine, checkpoint, remote, leader, generation>>
        /\ integrated' = [integrated EXCEPT ![d] = j0.head] /\ Goes(d, j) /\ j0.step = "merge"
    BY <1>13, <2>1 DEF MergeOutside, Integrates, At, gitVars, j0
  <2>3. j.step = "capture" /\ j.head = j0.head /\ j.parent = j0.head /\ j.gen = j0.gen
    BY <1>2, <2>1 DEF JobsTo
  <2>4. j0.head # 0
    BY <1>1, <2>2 DEF SaveShape
  <2>5. Shifts(d, j, r0, m0, j0.head)
    BY <1>3, <2>2 DEF Goes, Shifts
  <2>6. Ordered(j, r0, m0, j0.head, C0, remote, HasLease(d, j.gen))
    BY <1>2, <2>2, <2>3, <2>4 DEF Ordered, Looked
  <2>7. checkpoint'.commit = C0 /\ remote' = remote /\ (checkpoint' = NoCheckpoint \/ C0 # 0)
    BY <1>2, <2>2 DEF C0
  <2> QED
    BY <1>2, <1>4, <2>2, <2>5, <2>6, <2>7
<1>14. CASE Capture(d)
  <2>1. PICK j : j = AfterCapture(d)
    OBVIOUS
  <2>2. /\ UNCHANGED <<rebase, mine, integrated, checkpoint, remote, leader, generation>>
        /\ Goes(d, j) /\ HasLease(d, j0.gen) /\ j0.step = "capture"
    BY <1>14, <2>1 DEF Capture, At, agentVars, roomVars, gitVars, j0
  <2>3. /\ j.head = j0.head /\ j.parent = j0.parent /\ j.gen = j0.gen
        /\ \/ j.step = "fence"
           \/ j.step = "publish" /\ j.out = j0.parent /\ r0 = NoRebase /\ j0.head # 0
           \/ j.step = "mark" /\ r0 = NoRebase /\ j0.head # 0 /\ j0.parent = m0.commit
    <3>1. CASE Content # TreeOf(j0.parent)
      BY <1>2, <2>1, <3>1 DEF AfterCapture, JobsTo, j0, r0
    <3>2. CASE Content = TreeOf(j0.parent) /\ (r0 # NoRebase \/ j0.head = 0)
      BY <1>2, <2>1, <3>2 DEF AfterCapture, JobsTo, j0, r0
    <3>3. CASE Content = TreeOf(j0.parent) /\ r0 = NoRebase /\ j0.head # 0 /\ j0.parent # m0.commit
      BY <1>2, <2>1, <3>3 DEF AfterCapture, JobsTo, j0, r0, m0
    <3>4. CASE Content = TreeOf(j0.parent) /\ r0 = NoRebase /\ j0.head # 0 /\ j0.parent = m0.commit
      BY <1>2, <2>1, <3>4 DEF AfterCapture, JobsTo, j0, r0, m0
    <3> QED
      BY <3>1, <3>2, <3>3, <3>4
  <2>4. r0 = NoRebase /\ j0.head # 0 => j0.parent = j0.head
    BY <1>1, <2>2 DEF SaveShape, OnParent
  <2>5. C0 <= j0.head
    BY <1>2, <2>2 DEF Ordered, Looked
  <2>6. r0 = NoRebase /\ j0.head = 0 => j0.parent = 1
    BY <1>2, <2>2 DEF Ordered, OnParent
  <2>7. Ordered(j, r0, m0, i0, C0, remote, HasLease(d, j.gen))
    BY <1>2, <2>3, <2>4, <2>5, <2>6 DEF Ordered
  <2> QED
    BY <1>5, <2>2, <2>7
<1>15. CASE Fence(d)
  <2>1. PICK j : j = [j0 EXCEPT !.step = "push"]
    OBVIOUS
  <2>2. /\ UNCHANGED <<rebase, mine, integrated, checkpoint, remote, leader, generation>>
        /\ Goes(d, j) /\ j0.step = "fence"
    BY <1>15, <2>1 DEF Fence, Goto, At, agentVars, roomVars, gitVars, j0
  <2>3. j.step = "push" /\ j.head = j0.head /\ j.parent = j0.parent /\ j.gen = j0.gen
    BY <1>2, <2>1 DEF JobsTo
  <2>4. Ordered(j, r0, m0, i0, C0, remote, HasLease(d, j.gen))
    BY <1>2, <2>2, <2>3 DEF Ordered, Looked, OnParent
  <2> QED
    BY <1>5, <2>2, <2>4
<1>16. CASE Push(d, heard)
  <2>1. PICK id : id = IF j0.out # 0 THEN j0.out ELSE Len(commits) + 1
    OBVIOUS
  <2>2. /\ UNCHANGED <<rebase, mine, integrated, checkpoint, leader, generation>>
        /\ remote' = id /\ j0.step = "push" /\ At(d, "push") /\ Takes(d)
    BY <1>16, <2>1 DEF Push, At, agentVars, roomVars, j0
  <2>3. id \in Nat /\ remote <= id
    BY <1>2, <2>1, <2>2, PushGoesForward DEF j0
  <2>4. C0 <= id
    BY <1>2, <2>3
  <2>5. PICK j : Goes(d, j) /\ (j = Idle \/ j = [j0 EXCEPT !.step = "publish", !.out = id])
    BY <1>16, <2>1 DEF Push, Stops, j0
  <2>6. \/ j.step = "idle" /\ j.head = 0
        \/ j.step = "publish" /\ j.out = id /\ j.head = j0.head /\ j.parent = j0.parent /\ j.gen = j0.gen
    <3>1. LET p == [j0 EXCEPT !.step = "publish", !.out = id]
          IN  p.step = "publish" /\ p.out = id /\ p.head = j0.head /\ p.parent = j0.parent /\ p.gen = j0.gen
      BY <1>2 DEF JobsTo
    <3> QED
      BY <1>6, <2>5, <3>1
  <2>7. Shifts(d, j, r0, m0, i0)
    BY <1>3, <2>2, <2>5 DEF Goes, Shifts
  <2>8. j0.head <= id /\ i0 <= id
    BY <1>2, <2>3
  <2>9. HasLease(d, j0.gen) => C0 <= j0.head
    BY <1>2, <2>2 DEF Ordered, Looked
  <2>10. r0 = NoRebase /\ j0.head = 0 => j0.parent = 1
    BY <1>2, <2>2 DEF Ordered, OnParent
  <2>11. Ordered(j, r0, m0, i0, C0, id, HasLease(d, j.gen))
    <3>1. CASE j.step = "idle" /\ j.head = 0
      BY <1>2, <2>3, <2>8, <3>1 DEF Ordered, Looked, OnParent
    <3>2. CASE j.step = "publish" /\ j.out = id /\ j.head = j0.head /\ j.parent = j0.parent /\ j.gen = j0.gen
      BY <1>2, <2>3, <2>4, <2>8, <2>9, <2>10, <3>2 DEF Ordered
    <3> QED
      BY <2>6, <3>1, <3>2
  <2>12. checkpoint'.commit = C0 /\ (checkpoint' = NoCheckpoint \/ C0 # 0)
    BY <1>2, <2>2 DEF C0
  <2> QED
    BY <1>2, <1>4, <2>2, <2>3, <2>4, <2>7, <2>11, <2>12
<1>17. CASE Mark(d, heard)
  <2>1. PICK marked : marked = [checkpoint EXCEPT !.through = Larger(@, j0.seq)]
    OBVIOUS
  <2>2. /\ UNCHANGED <<rebase, remote, leader, generation>> /\ checkpoint' = marked
        /\ j0.step = "mark" /\ HasLease(d, j0.gen)
        /\ \/ UNCHANGED <<mine, integrated>>
           \/ Accepts(d, marked)
    BY <1>17, <2>1 DEF Mark, At, gitVars, j0
  <2>3. marked.commit = C0
    <3>1. checkpoint \in CheckpointsTo(Len(commits), Seq0)
      BY DevicesOfTypes
    <3> QED
      BY <2>1, <3>1 DEF CheckpointsTo, C0
  <2>4. PICK m \in {m0, marked}, i \in {i0, 0} :
           mine' = [mine EXCEPT ![d] = m] /\ integrated' = [integrated EXCEPT ![d] = i]
    BY <1>3, <2>2, AcceptsMoves DEF m0, i0
  <2>5. PICK j : Goes(d, j) /\ (j = Idle \/ j = [j0 EXCEPT !.step = "compute"])
    BY <1>17 DEF Mark, Saved, Goto, Stops, j0
  <2>6. j.step \in {"idle", "compute"} /\ j.head \in {0, j0.head}
    <3>1. [j0 EXCEPT !.step = "compute"].step = "compute" /\ [j0 EXCEPT !.step = "compute"].head = j0.head
      BY <1>2 DEF JobsTo
    <3> QED
      BY <1>6, <2>5, <3>1
  <2>7. Shifts(d, j, r0, m, i)
    BY <1>3, <2>2, <2>4, <2>5 DEF Goes, Shifts
  <2>8. C0 # 0
    <3>1. C0 = j0.parent
      BY <1>2, <2>2 DEF Ordered
    <3>2. j0.parent # 0
      BY <1>1, <2>2 DEF SaveShape, OnParent
    <3> QED
      BY <3>1, <3>2
  <2>9. m.commit <= C0 /\ i <= remote /\ j.head <= remote
    BY <1>2, <2>3, <2>4, <2>6
  <2>10. Ordered(j, r0, m, i, C0, remote, HasLease(d, j.gen))
    BY <2>6, <2>9 DEF Ordered, Looked, OnParent
  <2> QED
    BY <1>2, <1>4, <2>2, <2>3, <2>7, <2>8, <2>10
<1>18. CASE Publish(d, heard)
  <2>1. PICK c : c = Recorded(d)
    OBVIOUS
  <2>2. /\ UNCHANGED <<remote, leader, generation>> /\ checkpoint' = c
        /\ j0.step \in {"recover", "publish"} /\ HasLease(d, j0.gen)
        /\ \/ UNCHANGED <<mine, integrated>>
           \/ Accepts(d, c)
    BY <1>18, <2>1 DEF Publish, Publishing, Records, agentVars, gitVars, j0
  <2>3. c.commit = j0.out
    BY <2>1 DEF Recorded, Repeats, j0
  <2>4. PICK m \in {m0, c}, i \in {i0, 0} :
           mine' = [mine EXCEPT ![d] = m] /\ integrated' = [integrated EXCEPT ![d] = i]
    BY <1>3, <2>2, AcceptsMoves DEF m0, i0
  <2>5. PICK r : rebase' = [rebase EXCEPT ![d] = r] /\ (j0.step = "recover" => r = r0)
    <3>1. j0.step = "recover" => r0 = NoRebase
      BY <1>1 DEF SaveShape
    <3> QED
      BY <1>3, <1>18, <3>1 DEF Publish, FinishesRebase, agentVars, r0
  <2>6. C0 <= j0.out /\ j0.out <= remote /\ j0.out # 0
    BY <1>1, <1>2, <2>2 DEF Ordered, SaveShape
  <2>7. PICK j : Goes(d, j) /\ (\/ j = Idle
                                \/ j = [j0 EXCEPT !.step = "compute"]
                                \/ j = [j0 EXCEPT !.step = "capture"] /\ j0.step = "recover")
    BY <1>18 DEF Publish, Saved, Goto, Stops, At, j0
  <2>8. \/ j.step \in {"idle", "compute"} /\ j.head \in {0, j0.head}
        \/ /\ j.step = "capture" /\ j0.step = "recover"
           /\ j.head = j0.head /\ j.parent = j0.parent
    <3>1. CASE j = Idle
      BY <1>6, <3>1
    <3>2. CASE j = [j0 EXCEPT !.step = "compute"]
      BY <1>2, <3>2 DEF JobsTo
    <3>3. CASE j = [j0 EXCEPT !.step = "capture"] /\ j0.step = "recover"
      BY <1>2, <3>3 DEF JobsTo
    <3> QED
      BY <2>7, <3>1, <3>2, <3>3
  <2>9. Shifts(d, j, r, m, i)
    BY <2>4, <2>5, <2>7 DEF Goes, Shifts
  <2>10. m.commit <= j0.out /\ i <= remote
    BY <1>2, <2>3, <2>4, <2>6
  <2>11. Ordered(j, r, m, i, j0.out, remote, HasLease(d, j.gen))
    <3>1. CASE j.step \in {"idle", "compute"} /\ j.head \in {0, j0.head}
      BY <1>2, <2>10, <3>1 DEF Ordered, Looked, OnParent
    <3>2. CASE j.step = "capture" /\ j0.step = "recover" /\ j.head = j0.head /\ j.parent = j0.parent
      <4>1. j0.out = j0.head /\ j0.head # 0
        BY <1>1, <3>2 DEF SaveShape
      <4> QED
        BY <1>2, <2>10, <3>2, <4>1 DEF Ordered
    <3> QED
      BY <2>8, <3>1, <3>2
  <2> QED
    BY <1>2, <1>4, <2>2, <2>3, <2>6, <2>9, <2>11
<1>19. CASE \/ CaptureRefused(d) \/ FenceRefused(d) \/ PushRejected(d) \/ PublishRefused(d) \/ MarkRefused(d)
  <2>1. Stops(d) /\ UNCHANGED <<rebase, mine, integrated, checkpoint, remote, leader, generation>>
    BY <1>19 DEF CaptureRefused, FenceRefused, PushRejected, PublishRefused, MarkRefused, Barred, Deposed,
                 agentVars, roomVars, gitVars
  <2> QED
    BY <1>3, <1>7, <2>1
<1> QED
  BY <1>9, <1>10, <1>11, <1>12, <1>13, <1>14, <1>15, <1>16, <1>17, <1>18, <1>19

\* A step that leaves a device out of a save, and the room and the branch as they are.
LEMMA OrderKept ==
    ASSUME TypeInv, OrderInv, NEW d \in Device, NEW j, NEW r, NEW m, NEW i,
           Shifts(d, j, r, m, i), j.step \notin Looked, j.head \in {0, job[d].head},
           m.commit <= checkpoint.commit, i \in {0, integrated[d]},
           UNCHANGED <<checkpoint, remote, leader, generation>>
    PROVE  OrderInv'
<1>1. PICK C : C = checkpoint.commit
  OBVIOUS
<1>2. PICK R : R = remote
  OBVIOUS
<1>3. /\ C \in Nat /\ R \in Nat /\ C <= R /\ integrated[d] <= R /\ job[d].head <= R
      /\ checkpoint = NoCheckpoint \/ C # 0
      /\ m.commit <= C /\ integrated[d] \in Nat /\ job[d].head \in Nat
  BY <1>1, <1>2, OrderRest
<1>4. Ordered(j, r, m, i, C, R, HasLease(d, j.gen))
  BY <1>3 DEF Ordered, Looked, OnParent
<1>5. checkpoint'.commit = C /\ remote' = R /\ (checkpoint' = NoCheckpoint \/ C # 0)
  BY <1>1, <1>2, <1>3
<1>6. checkpoint.commit <= C /\ remote <= R /\ (C # checkpoint.commit => HasLease(d, job[d].gen))
  BY <1>1, <1>2, <1>3
<1> QED
  BY <1>3, <1>4, <1>5, <1>6, OrderMoves

\* So do the steps that begin or end a device's work.
LEMMA BeginningKeepsOrder ==
    ASSUME TypeInv, OrderInv, NEW d \in Device,
           \/ Handover(d) \/ Hear(d) \/ StartSave(d) \/ PollRemote(d)
           \/ Asks(d) \/ CallLost(d) \/ Restart(d)
    PROVE  OrderInv'
<1>1. /\ mine = [mine EXCEPT ![d] = mine[d]] /\ integrated = [integrated EXCEPT ![d] = integrated[d]]
      /\ rebase = [rebase EXCEPT ![d] = rebase[d]] /\ job = [job EXCEPT ![d] = job[d]]
  BY UnmovedSaved
<1>2. /\ mine[d].commit \in Nat /\ integrated[d] \in Nat /\ job[d].head \in Nat
      /\ remote \in Nat /\ checkpoint.commit \in Nat
      /\ mine[d].commit <= checkpoint.commit /\ integrated[d] <= remote
      /\ job[d].head <= remote /\ checkpoint.commit <= remote
      /\ checkpoint = NoCheckpoint \/ checkpoint.commit # 0
      /\ Ordered(job[d], rebase[d], mine[d], integrated[d], checkpoint.commit, remote,
                 HasLease(d, job[d].gen))
  BY OrderRest
<1>3. ASSUME NEW j, Goes(d, j), j.step \notin Looked, j.head = 0,
             UNCHANGED <<mine, integrated, rebase, checkpoint, remote, leader, generation>>
      PROVE  OrderInv'
  <2>1. Shifts(d, j, rebase[d], mine[d], integrated[d])
    BY <1>1, <1>3 DEF Goes, Shifts
  <2> QED
    BY <1>2, <1>3, <2>1, OrderKept
<1>4. ASSUME NEW b, Begins(d, b),
             UNCHANGED <<mine, integrated, rebase, checkpoint, remote, leader, generation>>
      PROVE  OrderInv'
  <2>1. PICK j : j = [Idle EXCEPT !.step = "resolve", !.gen = sees[d], !.rebases = b]
    OBVIOUS
  <2>2. j.step = "resolve" /\ j.head = 0
    BY <2>1 DEF Idle
  <2> QED
    BY <1>3, <1>4, <2>1, <2>2 DEF Begins, Looked
<1>5. UNCHANGED <<job, rebase, mine, integrated, checkpoint, remote, leader, generation>> => OrderInv'
  BY DEF OrderInv, HasLease
<1>6. CASE Handover(d)
  <2>1. /\ UNCHANGED <<job, rebase, mine, integrated, checkpoint, remote>> /\ generation' = generation + 1
    BY <1>6 DEF Handover, gitVars, agentVars
  <2>2. \A e \in Device : job[e].gen \in 0..generation /\ generation \in Nat
    BY DevicesOfTypes DEF JobsTo, HistoryTypes
  <2>3. \A e \in Device : ~HasLease(e, job[e].gen)'
    BY <2>1, <2>2 DEF HasLease
  <2>4. ASSUME NEW e \in Device
        PROVE  Ordered(job[e], rebase[e], mine[e], integrated[e], checkpoint.commit, remote,
                       HasLease(e, job[e].gen)')
    BY <2>3 DEF OrderInv, Ordered
  <2> QED
    BY <2>1, <2>4 DEF OrderInv, Ordered
<1>7. CASE Hear(d)
  <2>1. UNCHANGED <<job, rebase, checkpoint, remote, leader, generation>>
    BY <1>7 DEF Hear, roomVars, gitVars
  <2>2. PICK m, i : /\ mine' = [mine EXCEPT ![d] = m] /\ integrated' = [integrated EXCEPT ![d] = i]
                    /\ m \in {mine[d], checkpoint} /\ i \in {integrated[d], 0}
    <3>1. CASE UNCHANGED <<mine, integrated>>
      BY <1>1, <3>1
    <3>2. CASE Accepts(d, checkpoint)
      BY <3>2, AcceptsMoves
    <3> QED
      BY <1>7, <3>1, <3>2 DEF Hear
  <2>3. Shifts(d, job[d], rebase[d], m, i)
    BY <1>1, <2>1, <2>2 DEF Shifts
  <2>4. m.commit <= checkpoint.commit /\ i <= remote
    BY <1>2, <2>2
  <2>5. Ordered(job[d], rebase[d], m, i, checkpoint.commit, remote, HasLease(d, job[d].gen))
    BY <1>2, <2>4 DEF Ordered
  <2>6. PICK C : C = checkpoint.commit
    OBVIOUS
  <2>7. PICK R : R = remote
    OBVIOUS
  <2>8. /\ Ordered(job[d], rebase[d], m, i, C, R, HasLease(d, job[d].gen))
        /\ C \in Nat /\ R \in Nat /\ C <= R /\ checkpoint.commit <= C /\ remote <= R
        /\ checkpoint'.commit = C /\ remote' = R /\ (checkpoint' = NoCheckpoint \/ C # 0)
        /\ (C # checkpoint.commit => HasLease(d, job[d].gen))
    BY <1>2, <2>1, <2>5, <2>6, <2>7
  <2> QED
    BY <2>1, <2>3, <2>8, OrderMoves
<1>8. CASE StartSave(d) \/ PollRemote(d) \/ SaveNow(d) \/ RequestRebase(d)
  <2>1. UNCHANGED <<mine, integrated, rebase, checkpoint, remote, leader, generation>>
    BY <1>8 DEF StartSave, PollRemote, SaveNow, RequestRebase, roomVars, gitVars
  <2>2. UNCHANGED job \/ \E b : Begins(d, b)
    BY <1>8 DEF StartSave, PollRemote, SaveNow, RequestRebase
  <2> QED
    BY <1>4, <1>5, <2>1, <2>2
<1>9. CASE Apply(d)
  <2>1. PICK j : j = [Idle EXCEPT !.step = "row", !.gen = sees[d]]
    OBVIOUS
  <2>2. j.step = "row" /\ j.head = 0
    BY <2>1 DEF Idle
  <2> QED
    BY <1>3, <1>9, <2>1, <2>2 DEF Apply, Looked, agentVars, roomVars, gitVars
<1>10. CASE CallLost(d) \/ Restart(d)
  <2>1. UNCHANGED <<checkpoint, remote, leader, generation>> /\ Goes(d, Idle)
    BY <1>10 DEF CallLost, Restart, Stops, roomVars, gitVars
  <2>2. Idle.step = "idle" /\ Idle.head = 0 /\ NoCheckpoint.commit = 0
    BY DEF Idle, NoCheckpoint
  <2>3. PICK r, m, i : /\ rebase' = [rebase EXCEPT ![d] = r]
                       /\ mine' = [mine EXCEPT ![d] = m] /\ integrated' = [integrated EXCEPT ![d] = i]
                       /\ m \in {mine[d], NoCheckpoint} /\ i \in {integrated[d], 0}
    BY <1>1, <1>10 DEF CallLost, Restart, agentVars
  <2>4. Shifts(d, Idle, r, m, i)
    BY <2>1, <2>3 DEF Goes, Shifts
  <2>5. m.commit <= checkpoint.commit
    BY <1>2, <2>2, <2>3
  <2> QED
    BY <2>1, <2>2, <2>3, <2>4, <2>5, OrderKept DEF Looked
<1> QED
  BY <1>6, <1>7, <1>8, <1>9, <1>10 DEF Asks

\* So do the steps of a rebase and of its adoption.
LEMMA RebaseKeepsOrder ==
    ASSUME TypeInv, OrderInv, NEW d \in Device, NEW heard,
           \/ Compute(d, heard) \/ RecoverRow(d, heard) \/ FindReceipt(d) \/ PublishPending(d, heard)
           \/ ApplyRefused(d) \/ ApplyGoesOn(d) \/ Begin(d)
           \/ Adopt(d, heard) \/ Integrate(d, heard) \/ FinishIntegration(d, heard) \/ FinishRefused(d)
           \/ Adopted(d)
    PROVE  OrderInv'
<1>1. /\ mine = [mine EXCEPT ![d] = mine[d]] /\ integrated = [integrated EXCEPT ![d] = integrated[d]]
      /\ rebase = [rebase EXCEPT ![d] = rebase[d]]
  BY UnmovedSaved
<1>2. /\ mine[d].commit \in Nat /\ integrated[d] \in Nat /\ job[d].head \in Nat
      /\ remote \in Nat /\ checkpoint.commit \in Nat
      /\ mine[d].commit <= checkpoint.commit /\ integrated[d] <= remote
      /\ job[d].head <= remote /\ checkpoint.commit <= remote
  BY OrderRest
<1>3. job[d] \in JobsTo(Len(commits), Seq0, generation)
  BY RecordsOfTypes
<1>4. Idle.step = "idle" /\ Idle.head = 0
  BY DEF Idle
<1>5. PICK r : rebase' = [rebase EXCEPT ![d] = r]
  BY <1>1 DEF Compute, RecoverRow, FindReceipt, PublishPending, ApplyRefused, ApplyGoesOn, Begin, Adopt, Integrate,
              FinishIntegration, FinishRefused, Adopted, Finishes, agentVars
<1>6. ASSUME NEW j, Goes(d, j), j.step \notin Looked, j.head \in {0, job[d].head},
             UNCHANGED <<mine, integrated, checkpoint, remote, leader, generation>>
      PROVE  OrderInv'
  <2>1. Shifts(d, j, r, mine[d], integrated[d])
    BY <1>1, <1>5, <1>6 DEF Goes, Shifts
  <2> QED
    BY <1>2, <1>6, <2>1, OrderKept
<1>7. ASSUME UNCHANGED <<mine, integrated, checkpoint, remote, leader, generation>>,
             \/ Stops(d) \/ Begins(d, FALSE)
             \/ \E step \in Steps \ Looked :
                  Goto(d, step) \/ \E b : Goes(d, [job[d] EXCEPT !.step = step, !.recovered = b])
      PROVE  OrderInv'
  <2>1. CASE Stops(d)
    BY <1>4, <1>6, <1>7, <2>1 DEF Stops, Looked
  <2>2. CASE Begins(d, FALSE)
    <3>1. PICK j : j = [Idle EXCEPT !.step = "resolve", !.gen = sees[d], !.rebases = FALSE]
      OBVIOUS
    <3>2. j.step = "resolve" /\ j.head = 0
      BY <3>1 DEF Idle
    <3> QED
      BY <1>6, <1>7, <2>2, <3>1, <3>2 DEF Begins, Looked
  <2>3. ASSUME NEW step \in Steps \ Looked, Goto(d, step) PROVE OrderInv'
    <3>1. PICK j : j = [job[d] EXCEPT !.step = step]
      OBVIOUS
    <3>2. j.step = step /\ j.head = job[d].head
      BY <1>3, <3>1 DEF JobsTo
    <3> QED
      BY <1>6, <1>7, <2>3, <3>1, <3>2 DEF Goto
  <2>4. ASSUME NEW step \in Steps \ Looked, NEW b, Goes(d, [job[d] EXCEPT !.step = step, !.recovered = b])
        PROVE  OrderInv'
    <3>1. PICK j : j = [job[d] EXCEPT !.step = step, !.recovered = b]
      OBVIOUS
    <3>2. j.step = step /\ j.head = job[d].head
      BY <1>3, <3>1 DEF JobsTo
    <3> QED
      BY <1>6, <1>7, <2>4, <3>1, <3>2
  <2> QED
    BY <1>7, <2>1, <2>2, <2>3, <2>4
<1>8. {"begin", "adopt", "integrate", "adopted", "finish", "receipt"} \subseteq Steps \ Looked
  BY DEF Steps, Looked
<1>9. CASE PublishPending(d, heard)
  <2>1. CASE UNCHANGED <<mine, integrated, checkpoint, remote, leader, generation>>
    BY <1>7, <1>9, <2>1 DEF PublishPending, Finishes
  <2>2. CASE ~UNCHANGED <<mine, integrated, checkpoint, remote, leader, generation>>
    <3>1. PICK c : c = [commit |-> remote, seq |-> journal[d].seq, through |-> journal[d].seq]
      OBVIOUS
    <3>2. /\ checkpoint' = c /\ Goes(d, Idle) /\ UNCHANGED <<remote, leader, generation>>
          /\ HasLease(d, job[d].gen) /\ remote # 0
          /\ UNCHANGED <<mine, integrated>> \/ Accepts(d, c)
      BY <1>9, <2>2, <3>1 DEF PublishPending, Pushed, Finishes, Stops, gitVars, roomVars
    <3>3. PICK m, i : /\ mine' = [mine EXCEPT ![d] = m] /\ integrated' = [integrated EXCEPT ![d] = i]
                      /\ m \in {mine[d], c} /\ i \in {integrated[d], 0}
      BY <1>1, <3>2, AcceptsMoves
    <3>4. Shifts(d, Idle, r, m, i)
      BY <1>5, <3>2, <3>3 DEF Goes, Shifts
    <3>5. PICK R : R = remote
      OBVIOUS
    <3>6. c.commit = R
      BY <3>1, <3>5
    <3>7. Ordered(Idle, r, m, i, R, R, HasLease(d, Idle.gen))
      <4>1. m.commit <= R /\ i <= R /\ 0 <= R
        BY <1>2, <3>3, <3>5, <3>6
      <4> QED
        BY <1>4, <4>1 DEF Ordered, Looked, OnParent
    <3>8. /\ R \in Nat /\ R <= R /\ checkpoint.commit <= R /\ remote <= R
          /\ checkpoint'.commit = R /\ remote' = R /\ (checkpoint' = NoCheckpoint \/ R # 0)
          /\ (R # checkpoint.commit => HasLease(d, job[d].gen))
          /\ UNCHANGED <<leader, generation>>
      BY <1>2, <3>2, <3>5, <3>6
    <3> QED
      BY <3>4, <3>7, <3>8, OrderMoves
  <2> QED
    BY <2>1, <2>2
<1>10. CASE RecoverRow(d, heard)
  <2>1. UNCHANGED <<mine, integrated, checkpoint, remote, leader, generation>>
    BY <1>10 DEF RecoverRow, TakesIn, agentVars, roomVars, gitVars
  <2>2. Stops(d) \/ Goto(d, "receipt") \/ \E b : Goes(d, [job[d] EXCEPT !.step = "receipt", !.recovered = b])
    BY <1>10 DEF RecoverRow
  <2> QED
    BY <1>7, <1>8, <2>1, <2>2
<1>11. CASE Compute(d, heard) \/ FindReceipt(d) \/ ApplyRefused(d) \/ ApplyGoesOn(d) \/ Begin(d)
  <2>1. UNCHANGED <<mine, integrated, checkpoint, remote, leader, generation>>
    BY <1>11 DEF Compute, FindReceipt, ApplyRefused, ApplyGoesOn, Begin, agentVars, roomVars, gitVars
  <2>2. Stops(d) \/ Goto(d, "begin") \/ Goto(d, "adopt")
    BY <1>11 DEF Compute, FindReceipt, Finishes, ApplyRefused, ApplyGoesOn, Begin
  <2> QED
    BY <1>7, <1>8, <2>1, <2>2
<1>12. CASE Adopt(d, heard) \/ Integrate(d, heard) \/ FinishIntegration(d, heard) \/ FinishRefused(d)
  <2>1. UNCHANGED <<mine, integrated, checkpoint, remote, leader, generation>>
    BY <1>12 DEF Adopt, Integrate, FinishIntegration, TakesIn, FinishRefused, agentVars, roomVars, gitVars
  <2>2. Stops(d) \/ Goto(d, "integrate") \/ Goto(d, "adopted") \/ Goto(d, "finish")
    BY <1>12 DEF Adopt, AfterAdoption, Integrate, FinishIntegration, FinishRefused
  <2> QED
    BY <1>7, <1>8, <2>1, <2>2
<1>13. CASE Adopted(d)
  <2>1. UNCHANGED <<mine, integrated, checkpoint, remote, leader, generation>>
    BY <1>13 DEF Adopted, roomVars, gitVars
  <2> QED
    BY <1>7, <1>13, <2>1 DEF Adopted
<1> QED
  BY <1>9, <1>10, <1>11, <1>12, <1>13

\* Every step keeps the order.
LEMMA OrderStep ==
    ASSUME TypeInv, ShapeInv, OrderInv, [BranchNext]_branchVars
    PROVE  OrderInv'
<1>1. UNCHANGED <<job, rebase, mine, integrated, checkpoint, remote, leader, generation>> => OrderInv'
  BY DEF OrderInv, HasLease
<1>2. CASE UNCHANGED branchVars \/ ExpireWindow \/ \E i \in Item : Edit(i)
  BY <1>1, <1>2 DEF branchVars, roomVars, gitVars, agentVars, ExpireWindow, Edit
<1>3. ASSUME NEW n \in Item, PushOutside(n) PROVE OrderInv'
  <2>1. /\ UNCHANGED <<job, rebase, mine, integrated, checkpoint, leader, generation>>
        /\ remote' = Len(commits) + 1
    BY <1>3 DEF PushOutside, roomVars, agentVars
  <2>2. PICK R : R = Len(commits) + 1
    OBVIOUS
  <2>3. remote \in 0..Len(commits) /\ Len(commits) \in Nat /\ HistoryTypes
    BY DevicesOfTypes, HistoryTypesUnfold
  <2>4. R \in Nat /\ remote <= R /\ remote' = R /\ remote \in Nat
    BY <2>1, <2>2, <2>3
  <2>5. \A e \in Device : HasLease(e, job[e].gen)' <=> HasLease(e, job[e].gen)
    BY <2>1 DEF HasLease
  <2>6. checkpoint.commit \in Nat
    <3>1. checkpoint \in CheckpointsTo(Len(commits), Seq0)
      BY DevicesOfTypes
    <3> QED
      BY <2>3, <3>1 DEF CheckpointsTo
  <2>7. ASSUME NEW e \in Device
        PROVE  Ordered(job[e], rebase[e], mine[e], integrated[e], checkpoint.commit, R,
                       HasLease(e, job[e].gen)')
    <3>1. Ordered(job[e], rebase[e], mine[e], integrated[e], checkpoint.commit, remote,
                  HasLease(e, job[e].gen))
      BY DEF OrderInv
    <3>2. integrated[e] \in Nat /\ job[e].head \in Nat /\ job[e].out \in Nat
      BY RecordsOfTypes
    <3> QED
      BY <2>4, <2>5, <3>1, <3>2 DEF Ordered
  <2>8. checkpoint.commit <= R
    BY <2>4, <2>6 DEF OrderInv
  <2> QED
    BY <2>1, <2>4, <2>7, <2>8 DEF OrderInv, Ordered
<1>4. ASSUME NEW d \in Device, Works(d) \/ (\E heard \in BOOLEAN : Calls(d, heard) \/ Compute(d, heard))
      PROVE  OrderInv'
  BY <1>4, SaveKeepsOrder, RebaseKeepsOrder DEF Works, Calls
<1>5. ASSUME NEW d \in Device, Handover(d) \/ Hear(d) \/ StartSave(d) \/ PollRemote(d) \/ Asks(d)
                               \/ CallLost(d) \/ Restart(d)
      PROVE  OrderInv'
  BY <1>5, BeginningKeepsOrder
<1> QED
  BY <1>2, <1>3, <1>4, <1>5 DEF BranchNext, Proceeds, Fails

\* The order holds in every reachable state.
LEMMA OrderAlways == BranchSpec => [](TypeInv /\ ShapeInv /\ OrderInv)
<1>1. BranchInit => OrderInv
  <2> SUFFICES ASSUME BranchInit PROVE OrderInv
    OBVIOUS
  <2>1. /\ checkpoint = NoCheckpoint /\ NoCheckpoint.commit = 0 /\ remote \in {0, 1}
    BY DEF BranchInit, NoCheckpoint
  <2>2. \A d \in Device : /\ job[d] = Idle /\ Idle.step = "idle" /\ Idle.head = 0
                          /\ mine[d] = NoCheckpoint /\ integrated[d] = 0
    BY DEF BranchInit, Idle
  <2> QED
    BY <2>1, <2>2 DEF OrderInv, Ordered, Looked, OnParent
<1>2. TypeInv /\ ShapeInv /\ OrderInv /\ [BranchNext]_branchVars => OrderInv'
  BY OrderStep
<1> QED
  BY <1>1, <1>2, ShapeAlways, PTL DEF BranchSpec

(***************************************************************************)
(* What is saved is the session, and the branch loses nothing of it        *)
(***************************************************************************)
\* Commit c holds the session as it was at sequence number s.
Saves(c, s) == TreeOf(c) = ContentAt(s)

HonestMark(c) == c.commit # 0 => Saves(c.commit, c.seq) /\ Saves(c.commit, c.through)

\* Everything in commit c has been in the session by sequence number n.
MetBy(c, n) == \A i \in TreeOf(c) : \E s \in 0..n : i \in ContentAt(s)
Met(c) == MetBy(c, Seq0)

\* The branch has lost nothing of the content x but what members took out.
KeptOnBranch(x) == x \ TreeOf(remote) \subseteq Removed

\* What a save publishes or marks is the session at its barrier; what it builds
\* on has been in the session; what it saw the branch has kept.
JobContent(j) ==
    /\ j.step \in {"fence", "push"} /\ j.out # 0 => Saves(j.out, j.seq)
    /\ j.step \in {"recover", "publish"} => Saves(j.out, j.seq) /\ KeptOnBranch(TreeOf(j.out))
    /\ j.step = "mark" => Saves(j.parent, j.seq)
    /\ j.step \in OnParent \cup {"merge"} => Met(j.parent)
    /\ j.step \in {"fence", "push"} => MetBy(j.parent, j.seq) /\ MetBy(j.head, j.seq)
    /\ j.step \in Looked => KeptOnBranch(TreeOf(j.head))

\* A rebase starts from what the session held, and its result is in the session
\* once the rebase is adopted.
RebaseContent(j, r, k) ==
    /\ k.pending # NoCommit => k.pending.tree = ContentAt(k.seq)
    /\ k.state # "none" => Met(k.from)
    /\ r # NoRebase => Met(r.result)
    /\ j.step = "adopted" => Met(k.result)

\* What a device counts as saved is on the branch.
AgentContent(m, i, cl) == HonestMark(m) /\ Met(i) /\ KeptOnBranch(ContentAt(cl))

DeviceContent(j, r, k, m, i, cl) == JobContent(j) /\ RebaseContent(j, r, k) /\ AgentContent(m, i, cl)

HistoryContent ==
    /\ ContentAt(0) = {} /\ TreeOf(1) = {}
    /\ \A c \in 1..Len(commits) : commits[c].kind = "own" => Saves(c, commits[c].seq)

RoomContent(c, T) == HonestMark(c) /\ KeptOnBranch(TreeOf(c.commit)) /\ \A r \in T : Met(r)

ContentInv ==
    /\ HistoryContent /\ RoomContent(checkpoint, taken)
    /\ \A d \in Device : DeviceContent(job[d], rebase[d], journal[d], mine[d], integrated[d], clean[d])

\* What is in a log and in a history stays in those that extend them.
LEMMA ExtendsFacts ==
    ASSUME HistoryTypes, NEW q \in Seq(SUBSET Item), Extends(log, q),
           NEW cs \in History, Extends(commits, cs)
    PROVE  /\ Seq0 \in Nat /\ Len(q) - 1 \in Nat /\ Seq0 <= Len(q) - 1 /\ Len(q) \in Nat
           /\ Len(commits) \in Nat /\ Len(cs) \in Nat /\ Len(commits) <= Len(cs)
           /\ \A c \in 1..Len(commits) : cs[c] = commits[c]
           /\ \A s \in 0..Seq0 : q[s + 1] = log[s + 1]
           /\ \A s \in 1..Seq0 : s \in 1..(Len(q) - 1) /\ q[s] = log[s] /\ q[s + 1] = log[s + 1]
<1>1. /\ Len(commits) \in Nat /\ Seq0 \in Nat /\ Len(log) = Seq0 + 1
      /\ Len(cs) \in Nat /\ Len(q) \in Nat
  BY HistoryTypesUnfold DEF History
<1>2. /\ Len(commits) <= Len(cs) /\ \A c \in 1..Len(commits) : cs[c] = commits[c]
      /\ Seq0 + 1 <= Len(q) /\ \A s \in 1..(Seq0 + 1) : q[s] = log[s]
  BY <1>1 DEF Extends
<1> QED
  BY <1>1, <1>2

\* What was in the log and in the commits stays as it was.
LEMMA HistoryStays ==
    ASSUME TypeInv, [BranchNext]_branchVars
    PROVE  /\ HistoryTypes' /\ Seq0 \in Nat /\ Seq0' \in Nat /\ Seq0 <= Seq0'
           /\ Len(commits) \in Nat /\ Len(commits') \in Nat /\ Len(commits) <= Len(commits')
           /\ \A c \in 1..Len(commits) : commits'[c] = commits[c]
           /\ \A c \in 0..Len(commits) : TreeOf(c)' = TreeOf(c)
           /\ \A s \in 0..Seq0 : ContentAt(s)' = ContentAt(s)
           /\ Removed \subseteq Removed'
<1>1. /\ HistoryTypes /\ HistoryTypes' /\ Extends(log, log') /\ Extends(commits, commits')
      /\ log' \in Seq(SUBSET Item) /\ commits' \in History
  BY DevicesOfTypes, StepGrows DEF HistoryTypes
<1>2. PICK q \in Seq(SUBSET Item) : q = log'
  BY <1>1
<1>3. PICK cs \in History : cs = commits'
  BY <1>1
<1>4. PICK t : t = Len(q) - 1
  OBVIOUS
<1>5. /\ Seq0 \in Nat /\ t \in Nat /\ Seq0 <= t
      /\ Len(commits) \in Nat /\ Len(cs) \in Nat /\ Len(commits) <= Len(cs)
      /\ \A c \in 1..Len(commits) : cs[c] = commits[c]
      /\ \A s \in 0..Seq0 : q[s + 1] = log[s + 1]
      /\ \A s \in 1..Seq0 : s \in 1..t /\ q[s] = log[s] /\ q[s + 1] = log[s + 1]
  BY <1>1, <1>2, <1>3, <1>4, ExtendsFacts
<1>6. Seq0' = t
  BY <1>2, <1>4 DEF Seq0
<1>7. \A c \in 0..Len(commits) : TreeOf(c)' = TreeOf(c)
  <2>1. \A c \in 0..Len(commits) : c = 0 \/ c \in 1..Len(commits)
    BY <1>5
  <2> QED
    BY <1>3, <1>5, <2>1 DEF TreeOf
<1>8. \A s \in 0..Seq0 : ContentAt(s)' = ContentAt(s)
  BY <1>2, <1>5 DEF ContentAt
<1>9. Removed \subseteq Removed'
  <2>1. Removed' = {i \in Item : \E s \in 1..t : i \in q[s] /\ i \notin q[s + 1]}
    BY <1>2, <1>6 DEF Removed
  <2> QED
    BY <1>5, <2>1 DEF Removed
<1> QED
  BY <1>1, <1>3, <1>5, <1>6, <1>7, <1>8, <1>9

\* What was in the session and is not any more, someone took out.
LEMMA LeftIsRemoved ==
    ASSUME HistoryTypes, NEW t \in 0..Seq0, NEW s \in 0..t, NEW i \in ContentAt(s), i \notin ContentAt(t)
    PROVE  i \in Removed
<1>1. Seq0 \in Nat /\ t \in Nat /\ s \in Nat /\ s <= t /\ t <= Seq0
  BY HistoryTypesUnfold
<1> DEFINE Out == {u \in 0..t : s <= u /\ i \notin ContentAt(u)}
<1>2. t \in Out
  BY <1>1
<1>3. PICK u \in Out : \A b \in 0..t : b < u => b \notin Out
  <2>1. Out \in SUBSET (0..t) /\ Out # {}
    BY <1>2
  <2> HIDE DEF Out
  <2> QED
    BY <1>1, <2>1, LeastCommit
<1>4. u # s /\ u \in Nat /\ s < u /\ u <= t
  BY <1>1, <1>3
<1>5. u - 1 \in 0..t /\ u - 1 < u /\ s <= u - 1
  BY <1>1, <1>4
<1>6. i \in ContentAt(u - 1) /\ i \notin ContentAt(u)
  BY <1>3, <1>5
<1>7. u \in 1..Seq0 /\ u - 1 + 1 = u
  BY <1>1, <1>4
<1>8. i \in log[u] /\ i \notin log[u + 1]
  BY <1>6, <1>7 DEF ContentAt
<1>9. i \in Item
  BY <1>1, HistoryTypesUnfold
<1> QED
  BY <1>7, <1>8, <1>9 DEF Removed

\* A merge from a commit that has been in the session brings the other one in.
LEMMA MergeMeets ==
    ASSUME HistoryTypes, NEW b \in 0..Len(commits), NEW c \in 0..Len(commits), Met(b), NEW i \in TreeOf(c)
    PROVE  (\E s \in 0..Seq0 : i \in ContentAt(s)) \/ i \in Merge(Content, TreeOf(b), TreeOf(c))
<1>1. i \in Item
  BY HistoryTypesUnfold
<1>2. i \in TreeOf(b) => \E s \in 0..Seq0 : i \in ContentAt(s)
  BY DEF Met, MetBy
<1>3. i \notin TreeOf(b) => i \in Merge(Content, TreeOf(b), TreeOf(c))
  BY <1>1 DEF Merge
<1> QED
  BY <1>2, <1>3

\* When merging c over a base that has been in the session changes nothing, c
\* has been in it too.
LEMMA MergeMetNow ==
    ASSUME HistoryTypes, NEW b \in 0..Len(commits), NEW c \in 0..Len(commits), Met(b),
           Merge(Content, TreeOf(b), TreeOf(c)) = Content
    PROVE  Met(c)
<1>1. Seq0 \in 0..Seq0
  BY HistoryTypesUnfold
<1>2. \A i \in TreeOf(c) : (\E s \in 0..Seq0 : i \in ContentAt(s)) \/ i \in ContentAt(Seq0)
  BY MergeMeets DEF Content
<1> QED
  BY <1>1, <1>2 DEF Met, MetBy

\* The merge of c over such a base brings c into the session.
LEMMA MergeMetNext ==
    ASSUME TypeInv, [BranchNext]_branchVars, NEW b \in 0..Len(commits), NEW c \in 0..Len(commits), Met(b),
           log' = Append(log, Merge(Content, TreeOf(b), TreeOf(c)))
    PROVE  Met(c)'
<1>1. HistoryTypes /\ Seq0 \in Nat
      /\ TreeOf(c)' = TreeOf(c) /\ \A s \in 0..Seq0 : ContentAt(s)' = ContentAt(s)
  BY DevicesOfTypes, HistoryStays
<1>2. log \in Seq(SUBSET Item) /\ Len(log) = Seq0 + 1
  BY <1>1, HistoryTypesUnfold
<1>3. PICK x : x = Merge(Content, TreeOf(b), TreeOf(c))
  OBVIOUS
<1>4. x \in SUBSET Item
  BY <1>3, MergeIsContent DEF NewContent
<1>5. PICK q : q = Append(log, x)
  OBVIOUS
<1>6. Len(q) = Len(log) + 1 /\ q[Len(log) + 1] = x
  BY <1>2, <1>4, <1>5, Appended
<1>7. PICK t : t = Seq0 + 1
  OBVIOUS
<1>8. Len(q) - 1 = t /\ q[t + 1] = x /\ t \in Nat
  BY <1>1, <1>2, <1>6, <1>7
<1>9. log' = q
  BY <1>3, <1>5
<1>10. Seq0' = t
  BY <1>8, <1>9 DEF Seq0
<1>11. ContentAt(t)' = x
  BY <1>8, <1>9 DEF ContentAt
<1>12. 0..Seq0 \subseteq 0..t /\ t \in 0..t
  BY <1>1, <1>7
<1>13. \A i \in TreeOf(c) : (\E s \in 0..Seq0 : i \in ContentAt(s)) \/ i \in x
  BY <1>1, <1>3, MergeMeets
<1>14. ASSUME NEW i \in TreeOf(c) PROVE \E s \in 0..t : i \in ContentAt(s)'
  BY <1>1, <1>11, <1>12, <1>13
<1> QED
  BY <1>1, <1>10, <1>14 DEF Met, MetBy

\* What a save pushes is the session at its barrier.
LEMMA PushedTree ==
    ASSUME TypeInv, [BranchNext]_branchVars, NEW d \in Device, NEW heard, Push(d, heard),
           JobContent(job[d])
    PROVE  \E id \in 1..Len(commits'), s \in 0..Seq0 :
              /\ s = job[d].seq /\ remote' = id /\ TreeOf(id)' = ContentAt(s)
              /\ id = IF job[d].out # 0 THEN job[d].out ELSE Len(commits) + 1
              /\ job[d].out = 0 => commits'[id].seq = s
<1>1. /\ HistoryTypes /\ Len(commits) \in Nat /\ Len(commits') \in Nat /\ Len(commits) <= Len(commits')
      /\ \A c \in 0..Len(commits) : TreeOf(c)' = TreeOf(c)
  BY DevicesOfTypes, HistoryStays
<1>2. job[d].out \in 0..Len(commits) /\ job[d].seq \in 0..Seq0 /\ job[d].step = "push"
  BY RecordsOfTypes DEF JobsTo, Push, At
<1>3. CASE job[d].out # 0
  <2>1. remote' = job[d].out
    BY <1>3 DEF Push
  <2>3. TreeOf(job[d].out) = ContentAt(job[d].seq)
    BY <1>2, <1>3 DEF JobContent, Saves
  <2>4. PICK id \in 0..Len(commits) : id = job[d].out
    BY <1>2
  <2>5. PICK s \in 0..Seq0 : s = job[d].seq
    BY <1>2
  <2>6. PICK n \in Nat : n = Len(commits')
    BY <1>1
  <2>7. id \in 1..n
    BY <1>1, <1>3, <2>4, <2>6
  <2>8. TreeOf(id)' = ContentAt(s)
    BY <1>1, <2>3, <2>4, <2>5
  <2> QED
    BY <1>3, <2>1, <2>4, <2>5, <2>6, <2>7, <2>8
<1>4. CASE job[d].out = 0
  <2>1. PICK c : c = Built(d)
    OBVIOUS
  <2>2. PICK id \in Nat : id = Len(commits) + 1
    BY <1>1
  <2>3. PICK s \in 0..Seq0 : s = job[d].seq
    BY <1>2
  <2>4. c.tree = ContentAt(s) /\ c.seq = s
    BY <1>4, <2>1, <2>3 DEF Built
  <2>5. commits' = Append(commits, c) /\ remote' = id
    BY <1>4, <2>1, <2>2 DEF Push
  <2>6. c \in Commits /\ commits \in Seq(Commits)
    BY <1>1, <2>1, BuiltIsCommit, HistoryTypesUnfold DEF NewCommit
  <2>7. PICK cs : cs = Append(commits, c)
    OBVIOUS
  <2>8. Len(cs) = id /\ cs[id] = c
    BY <2>2, <2>6, <2>7, Appended
  <2>9. id \in 1..Len(cs) /\ id # 0
    BY <1>1, <2>2, <2>8
  <2>10. commits' = cs
    BY <2>5, <2>7
  <2>11. TreeOf(id)' = ContentAt(s)
    BY <2>4, <2>8, <2>9, <2>10 DEF TreeOf
  <2> QED
    BY <1>4, <2>2, <2>3, <2>4, <2>5, <2>8, <2>9, <2>10, <2>11
<1> QED
  BY <1>3, <1>4

\* What the branch holds when a save is pushed had been in the session by then.
LEMMA BranchIsMet ==
    ASSUME TypeInv, ShapeInv, OrderInv, NEW d \in Device, At(d, "push"), Takes(d), JobContent(job[d]),
           HistoryContent
    PROVE  \A i \in TreeOf(remote) : \E s \in 0..job[d].seq : i \in ContentAt(s)
<1>1. Shape(job[d], rebase[d], journal[d], staged[d]) /\ job[d].step = "push"
  BY DEF ShapeInv, At
<1>2. SaveShape(job[d], rebase[d])
  BY <1>1 DEF Shape
<1>3. /\ MetBy(job[d].parent, job[d].seq) /\ MetBy(job[d].head, job[d].seq)
  BY <1>1 DEF JobContent
<1>4. CASE rebase[d] # NoRebase
  <2>1. remote = job[d].head
    BY <1>1, <1>2, <1>4 DEF Takes, SaveShape, OnParent
  <2> QED
    BY <1>3, <2>1 DEF MetBy
<1>5. CASE rebase[d] = NoRebase
  <2>1. /\ job[d].parent \in 0..Len(commits) /\ job[d].parent \in Nat /\ remote \in 0..Len(commits)
        /\ remote \in Nat /\ HistoryTypes /\ job[d].head \in Nat
    BY RecordsOfTypes, DevicesOfTypes DEF JobsTo
  <2>2. job[d].out \in {0, job[d].parent} /\ job[d].parent # 0
    BY <1>1, <1>2 DEF SaveShape, OnParent
  <2>3. remote = 0 \/ remote \in Ancestors(job[d].parent)
    BY <1>5, <2>2 DEF Takes
  <2>4. CASE remote = 0
    BY <2>4 DEF TreeOf
  <2>5. CASE remote \in Ancestors(job[d].parent) /\ job[d].head # 0
    <3>1. job[d].parent = job[d].head
      BY <1>1, <1>2, <1>5, <2>5 DEF SaveShape, OnParent
    <3>2. remote <= job[d].parent
      BY <2>1, <2>5, AncestorsFacts
    <3>3. job[d].head <= remote
      BY DEF OrderInv, Ordered
    <3>4. remote = job[d].parent
      BY <2>1, <3>1, <3>2, <3>3
    <3> QED
      BY <1>3, <3>4 DEF MetBy
  <2>6. CASE remote \in Ancestors(job[d].parent) /\ job[d].head = 0
    <3>1. job[d].parent = 1
      BY <1>1, <1>5, <2>6 DEF OrderInv, Ordered, OnParent
    <3>2. remote = 1
      BY <2>1, <2>6, <3>1, AncestorsFacts
    <3> QED
      BY <3>2 DEF HistoryContent
  <2> QED
    BY <2>3, <2>4, <2>5, <2>6
<1> QED
  BY <1>4, <1>5

\* Only a push moves the branch.
LEMMA RemoteMoves ==
    ASSUME [BranchNext]_branchVars
    PROVE  \/ remote' = remote
           \/ \E i \in Item : PushOutside(i)
           \/ \E d \in Device, heard \in BOOLEAN : Push(d, heard)
<1>1. CASE UNCHANGED branchVars \/ ExpireWindow \/ \E i \in Item : Edit(i) \/ PushOutside(i)
  BY <1>1 DEF branchVars, gitVars, ExpireWindow, Edit
<1>2. ASSUME NEW d \in Device, Handover(d) \/ Hear(d) \/ StartSave(d) \/ PollRemote(d) \/ Asks(d)
                               \/ CallLost(d) \/ Restart(d)
      PROVE  remote' = remote
  BY <1>2 DEF Handover, Hear, StartSave, PollRemote, Asks, SaveNow, RequestRebase, Apply, CallLost, Restart, gitVars
<1>3. ASSUME NEW d \in Device, Works(d) PROVE remote' = remote
  BY <1>3 DEF Works, ResolveRebase, ResolveUnmoved, ResolveOwn, ResolveOutside, Looks, MergeOutside, Integrates,
              Capture, CaptureRefused, Fence, FenceRefused, PushRejected, PublishRefused, MarkRefused,
              Barred, Deposed, FindReceipt, ApplyRefused, ApplyGoesOn, Begin, FinishRefused, Adopted, gitVars
<1>4. ASSUME NEW d \in Device, NEW heard \in BOOLEAN, Calls(d, heard), ~Push(d, heard) PROVE remote' = remote
  BY <1>4 DEF Calls, Publish, Records, Mark, Adopt, RecoverRow, PublishPending, Integrate, FinishIntegration, gitVars
<1>5. ASSUME NEW d \in Device, NEW conflicts, Compute(d, conflicts) PROVE remote' = remote
  BY <1>5 DEF Compute
<1> QED
  BY <1>1, <1>2, <1>3, <1>4, <1>5 DEF BranchNext, Proceeds, Fails

\* What a step takes off the branch, members took out of the session.
LEMMA BranchKeeps ==
    ASSUME TypeInv, ShapeInv, OrderInv, ContentInv, [BranchNext]_branchVars
    PROVE  TreeOf(remote) \ (TreeOf(remote))' \subseteq Removed'
<1>1. /\ HistoryTypes /\ remote \in 0..Len(commits) /\ Len(commits) \in Nat /\ Removed \subseteq Removed'
      /\ \A c \in 0..Len(commits) : TreeOf(c)' = TreeOf(c)
  BY DevicesOfTypes, HistoryStays
<1>2. PICK R \in 0..Len(commits) : R = remote
  BY <1>1
<1>3. CASE remote' = remote
  <2>1. (TreeOf(remote))' = TreeOf(R)'
    BY <1>2, <1>3 DEF TreeOf
  <2> QED
    BY <1>1, <1>2, <2>1
<1>4. ASSUME NEW i \in Item, PushOutside(i) PROVE TreeOf(remote) \ (TreeOf(remote))' \subseteq Removed'
  <2>1. PICK c : c = [parent |-> remote, kind |-> "outside", seq |-> 0, tree |-> TreeOf(remote) \cup {i}]
    OBVIOUS
  <2>2. PICK id : id = Len(commits) + 1
    OBVIOUS
  <2>3. commits' = Append(commits, c) /\ remote' = id
    BY <1>4, <2>1, <2>2 DEF PushOutside
  <2>4. c \in Commits
    <3>1. TreeOf(remote) \in SUBSET Item /\ remote \in Nat
      BY <1>1, HistoryTypesUnfold
    <3> QED
      BY <2>1, <3>1 DEF Commits
  <2>5. PICK cs : cs = Append(commits, c)
    OBVIOUS
  <2>6. cs[id] = c /\ id # 0
    <3>1. commits \in Seq(Commits)
      BY <1>1, HistoryTypesUnfold
    <3> QED
      BY <1>1, <2>2, <2>4, <2>5, <3>1, Appended
  <2>7. (TreeOf(remote))' = cs[id].tree
    BY <2>3, <2>5, <2>6 DEF TreeOf
  <2>8. TreeOf(remote) \subseteq cs[id].tree
    BY <2>1, <2>6
  <2> QED
    BY <2>7, <2>8
<1>5. ASSUME NEW d \in Device, NEW heard \in BOOLEAN, Push(d, heard)
      PROVE  TreeOf(remote) \ (TreeOf(remote))' \subseteq Removed'
  <2>1. JobContent(job[d]) /\ HistoryContent
    BY DEF ContentInv, DeviceContent
  <2>2. PICK id \in 1..Len(commits'), s \in 0..Seq0 : s = job[d].seq /\ remote' = id /\ TreeOf(id)' = ContentAt(s)
    BY <1>5, <2>1, PushedTree
  <2>3. (TreeOf(remote))' = TreeOf(id)'
    BY <2>2 DEF TreeOf
  <2>4. At(d, "push") /\ Takes(d)
    BY <1>5 DEF Push
  <2>5. \A i \in TreeOf(remote) : \E t \in 0..s : i \in ContentAt(t)
    BY <2>1, <2>2, <2>4, BranchIsMet
  <2>6. ASSUME NEW i \in TreeOf(remote), i \notin ContentAt(s) PROVE i \in Removed
    <3>1. PICK t \in 0..s : i \in ContentAt(t)
      BY <2>5
    <3> QED
      BY <1>1, <2>6, <3>1, LeftIsRemoved
  <2> QED
    BY <1>1, <2>2, <2>3, <2>6
<1> QED
  BY <1>3, <1>4, <1>5, RemoteMoves

\* The commits that saves made hold what they say.
LEMMA CommitsContent ==
    ASSUME TypeInv, ContentInv, [BranchNext]_branchVars
    PROVE  HistoryContent'
<1>1. /\ HistoryTypes /\ Len(commits) \in Nat \ {0} /\ Seq0 \in Nat
      /\ \A c \in 0..Len(commits) : TreeOf(c)' = TreeOf(c)
      /\ \A c \in 1..Len(commits) : commits'[c] = commits[c] /\ commits[c].seq \in 0..Seq0
      /\ \A s \in 0..Seq0 : ContentAt(s)' = ContentAt(s)
      /\ commits \in Seq(Commits)
  BY DevicesOfTypes, HistoryStays, HistoryTypesUnfold
<1>2. HistoryContent
  BY DEF ContentInv
<1>3. ContentAt(0)' = {} /\ TreeOf(1)' = {}
  <2>1. 0 \in 0..Seq0 /\ 1 \in 0..Len(commits)
    BY <1>1
  <2> QED
    BY <1>1, <1>2, <2>1 DEF HistoryContent
<1>4. PICK q : q = log'
  OBVIOUS
<1>5. PICK cs : cs = commits'
  OBVIOUS
<1>6. \A s \in 0..Seq0 : ContentAt(s) = q[s + 1]
  BY <1>1, <1>4 DEF ContentAt
<1>7. ASSUME NEW c \in 1..Len(commits), cs[c].kind = "own"
      PROVE  cs[c].tree = q[cs[c].seq + 1]
  <2>1. cs[c] = commits[c] /\ commits[c].seq \in 0..Seq0
    BY <1>1, <1>5
  <2>2. TreeOf(c) = ContentAt(commits[c].seq)
    BY <1>2, <1>7, <2>1 DEF HistoryContent, Saves
  <2>3. TreeOf(c) = commits[c].tree
    BY <1>1 DEF TreeOf
  <2> QED
    BY <1>6, <2>1, <2>2, <2>3
<1>8. ASSUME NEW c \in Commits, cs = Append(commits, c), c.kind = "own" => c.tree = q[c.seq + 1]
      PROVE  HistoryContent'
  <2>1. Len(cs) = Len(commits) + 1 /\ cs[Len(commits) + 1] = c
    BY <1>1, <1>8, Appended
  <2>2. \A n \in 1..Len(cs) : n \in 1..Len(commits) \/ n = Len(commits) + 1
    BY <1>1, <2>1
  <2>3. \A n \in 1..Len(cs) : n # 0 /\ (cs[n].kind = "own" => cs[n].tree = q[cs[n].seq + 1])
    BY <1>1, <1>7, <1>8, <2>1, <2>2
  <2> QED
    BY <1>3, <1>4, <1>5, <2>3 DEF HistoryContent, Saves, TreeOf, ContentAt
<1>9. CASE commits' = commits
  <2>1. \A n \in 1..Len(cs) : n # 0 /\ (cs[n].kind = "own" => cs[n].tree = q[cs[n].seq + 1])
    BY <1>1, <1>5, <1>7, <1>9
  <2> QED
    BY <1>3, <1>4, <1>5, <2>1 DEF HistoryContent, Saves, TreeOf, ContentAt
<1>10. ASSUME NEW i \in Item, PushOutside(i) PROVE HistoryContent'
  <2>1. PICK c : c = [parent |-> remote, kind |-> "outside", seq |-> 0, tree |-> TreeOf(remote) \cup {i}]
    OBVIOUS
  <2>2. cs = Append(commits, c) /\ c.kind # "own"
    BY <1>5, <1>10, <2>1 DEF PushOutside
  <2>3. c \in Commits
    <3>1. TreeOf(remote) \in SUBSET Item /\ remote \in Nat
      BY <1>1, HistoryTypesUnfold, DevicesOfTypes
    <3> QED
      BY <2>1, <3>1 DEF Commits
  <2> QED
    BY <1>8, <2>2, <2>3
<1>11. ASSUME NEW d \in Device, NEW heard, Push(d, heard), job[d].out = 0 PROVE HistoryContent'
  <2>1. PICK c : c = Built(d)
    OBVIOUS
  <2>2. cs = Append(commits, c)
    BY <1>5, <1>11, <2>1 DEF Push
  <2>3. c \in Commits
    BY <2>1, BuiltIsCommit DEF NewCommit
  <2>4. job[d].seq \in 0..Seq0
    BY RecordsOfTypes DEF JobsTo
  <2>5. c.tree = ContentAt(job[d].seq) /\ c.seq = job[d].seq
    BY <1>11, <2>1 DEF Built
  <2> QED
    BY <1>6, <1>8, <2>2, <2>3, <2>4, <2>5
<1>12. ASSUME NEW d \in Device, NEW conflicts, Compute(d, conflicts), commits' # commits PROVE HistoryContent'
  <2>1. PICK c : c = [parent |-> 1, kind |-> "rebased", seq |-> 0,
                      tree |-> TreeOf(mine[d].commit) \cup {TargetItem}]
    OBVIOUS
  <2>2. cs = Append(commits, c) /\ c.kind # "own"
    BY <1>5, <1>12, <2>1 DEF Compute
  <2>3. c \in Commits
    <3>1. mine[d].commit \in 0..Len(commits)
      BY DevicesOfTypes DEF CheckpointsTo
    <3>2. TreeOf(mine[d].commit) \in SUBSET Item
      BY <1>1, <3>1, HistoryTypesUnfold
    <3> QED
      BY <2>1, <3>2, NamesAreApart DEF Commits
  <2> QED
    BY <1>8, <2>2, <2>3
<1>13. \/ commits' = commits
       \/ \E i \in Item : PushOutside(i)
       \/ \E d \in Device, heard \in BOOLEAN : Push(d, heard) /\ job[d].out = 0
       \/ \E d \in Device, conflicts \in BOOLEAN : Compute(d, conflicts)
  <2>1. CASE UNCHANGED branchVars \/ ExpireWindow \/ \E i \in Item : Edit(i) \/ PushOutside(i)
    BY <2>1 DEF branchVars, gitVars, ExpireWindow, Edit
  <2>2. ASSUME NEW d \in Device, Handover(d) \/ Hear(d) \/ StartSave(d) \/ PollRemote(d) \/ Asks(d)
                                 \/ CallLost(d) \/ Restart(d)
        PROVE  commits' = commits
    BY <2>2 DEF Handover, Hear, StartSave, PollRemote, Asks, SaveNow, RequestRebase, Apply, CallLost, Restart,
                gitVars
  <2>3. ASSUME NEW d \in Device, Works(d) PROVE commits' = commits
    BY <2>3 DEF Works, ResolveRebase, ResolveUnmoved, ResolveOwn, ResolveOutside, Looks, MergeOutside, Integrates,
                Capture, CaptureRefused, Fence, FenceRefused, PushRejected, PublishRefused, MarkRefused,
                Barred, Deposed, FindReceipt, ApplyRefused, ApplyGoesOn, Begin, FinishRefused, Adopted, gitVars
  <2>4. ASSUME NEW d \in Device, NEW heard \in BOOLEAN, Calls(d, heard), commits' # commits
        PROVE  Push(d, heard) /\ job[d].out = 0
    BY <2>4 DEF Calls, Push, Publish, Records, Mark, Adopt, RecoverRow, PublishPending, Integrate,
                FinishIntegration, gitVars
  <2> QED
    BY <2>1, <2>2, <2>3, <2>4 DEF BranchNext, Proceeds, Fails
<1> QED
  BY <1>9, <1>10, <1>11, <1>12, <1>13

\* What was so of the content stays so.
LEMMA ContentLifts ==
    ASSUME TypeInv, ShapeInv, OrderInv, ContentInv, [BranchNext]_branchVars
    PROVE  /\ \A c \in 0..Len(commits), s \in 0..Seq0 : Saves(c, s) => Saves(c, s)'
           /\ \A c \in 0..Len(commits), s \in 0..Seq0 : MetBy(c, s) => MetBy(c, s)'
           /\ \A c \in 0..Len(commits) : Met(c) => Met(c)'
           /\ \A c \in 0..Len(commits) : KeptOnBranch(TreeOf(c)) => KeptOnBranch(TreeOf(c))'
           /\ \A s \in 0..Seq0 : KeptOnBranch(ContentAt(s)) => KeptOnBranch(ContentAt(s))'
<1>1. /\ Seq0 \in Nat /\ Seq0' \in Nat /\ Seq0 <= Seq0' /\ Removed \subseteq Removed'
      /\ \A c \in 0..Len(commits) : TreeOf(c)' = TreeOf(c)
      /\ \A s \in 0..Seq0 : ContentAt(s)' = ContentAt(s)
      /\ TreeOf(remote) \ (TreeOf(remote))' \subseteq Removed'
  BY HistoryStays, BranchKeeps
<1>2. PICK t \in Nat : t = Seq0'
  BY <1>1
<1>3. 0..Seq0 \subseteq 0..t /\ Seq0 \in 0..Seq0
  BY <1>1, <1>2
<1>4. \A c \in 0..Len(commits), s \in 0..Seq0 : Saves(c, s) => Saves(c, s)'
  BY <1>1 DEF Saves
<1>5. \A c \in 0..Len(commits), s \in 0..Seq0 : MetBy(c, s) => MetBy(c, s)'
  <2> SUFFICES ASSUME NEW c \in 0..Len(commits), NEW s \in 0..Seq0, MetBy(c, s)
               PROVE  MetBy(c, s)'
    OBVIOUS
  <2>1. 0..s \subseteq 0..Seq0
    BY <1>1
  <2>2. \A i \in TreeOf(c)' : \E u \in 0..s : i \in ContentAt(u)'
    BY <1>1, <2>1 DEF MetBy
  <2> QED
    BY <2>2 DEF MetBy
<1>6. \A c \in 0..Len(commits) : Met(c) => Met(c)'
  <2> SUFFICES ASSUME NEW c \in 0..Len(commits), Met(c) PROVE Met(c)'
    OBVIOUS
  <2>1. \A i \in TreeOf(c)' : \E u \in 0..t : i \in ContentAt(u)'
    BY <1>1, <1>3 DEF Met, MetBy
  <2> QED
    BY <1>2, <2>1 DEF Met, MetBy
<1>7. ASSUME NEW x, KeptOnBranch(x) PROVE x \ (TreeOf(remote))' \subseteq Removed'
  BY <1>1, <1>7 DEF KeptOnBranch
<1>8. \A c \in 0..Len(commits) : KeptOnBranch(TreeOf(c)) => KeptOnBranch(TreeOf(c))'
  <2> SUFFICES ASSUME NEW c \in 0..Len(commits), KeptOnBranch(TreeOf(c)) PROVE KeptOnBranch(TreeOf(c))'
    OBVIOUS
  <2>1. TreeOf(c)' \ (TreeOf(remote))' \subseteq Removed'
    BY <1>1, <1>7
  <2> QED
    BY <2>1 DEF KeptOnBranch
<1>9. \A s \in 0..Seq0 : KeptOnBranch(ContentAt(s)) => KeptOnBranch(ContentAt(s))'
  <2> SUFFICES ASSUME NEW s \in 0..Seq0, KeptOnBranch(ContentAt(s)) PROVE KeptOnBranch(ContentAt(s))'
    OBVIOUS
  <2>1. ContentAt(s)' \ (TreeOf(remote))' \subseteq Removed'
    BY <1>1, <1>7
  <2> QED
    BY <2>1 DEF KeptOnBranch
<1> QED
  BY <1>4, <1>5, <1>6, <1>8, <1>9

\* The same of the room and of what a device holds.
LEMMA RecordsLift ==
    ASSUME TypeInv, ShapeInv, OrderInv, ContentInv, [BranchNext]_branchVars
    PROVE  /\ \A j \in JobsTo(Len(commits), Seq0, generation) : JobContent(j) => JobContent(j)'
           /\ \A j : \A r \in RebasesTo(Len(commits)), k \in JournalsTo(Len(commits), Seq0) :
                RebaseContent(j, r, k) => RebaseContent(j, r, k)'
           /\ \A m \in CheckpointsTo(Len(commits), Seq0), i \in 0..Len(commits), s \in 0..Seq0 :
                AgentContent(m, i, s) => AgentContent(m, i, s)'
           /\ \A c \in CheckpointsTo(Len(commits), Seq0), T \in SUBSET (0..Len(commits)) :
                RoomContent(c, T) => RoomContent(c, T)'
<1>1. /\ \A c \in 0..Len(commits), s \in 0..Seq0 : Saves(c, s) => Saves(c, s)'
      /\ \A c \in 0..Len(commits), s \in 0..Seq0 : MetBy(c, s) => MetBy(c, s)'
      /\ \A c \in 0..Len(commits) : Met(c) => Met(c)'
      /\ \A c \in 0..Len(commits) : KeptOnBranch(TreeOf(c)) => KeptOnBranch(TreeOf(c))'
      /\ \A s \in 0..Seq0 : KeptOnBranch(ContentAt(s)) => KeptOnBranch(ContentAt(s))'
  BY ContentLifts
<1>2. \A s \in 0..Seq0 : ContentAt(s)' = ContentAt(s)
  BY HistoryStays
<1>3. ASSUME NEW j \in JobsTo(Len(commits), Seq0, generation), JobContent(j) PROVE JobContent(j)'
  <2>1. j.parent \in 0..Len(commits) /\ j.head \in 0..Len(commits) /\ j.out \in 0..Len(commits)
        /\ j.seq \in 0..Seq0
    BY DEF JobsTo
  <2> QED
    BY <1>1, <1>3, <2>1 DEF JobContent
<1>4. ASSUME NEW j, NEW r \in RebasesTo(Len(commits)), NEW k \in JournalsTo(Len(commits), Seq0),
             RebaseContent(j, r, k)
      PROVE  RebaseContent(j, r, k)'
  <2>1. k.from \in 0..Len(commits) /\ k.result \in 0..Len(commits) /\ k.seq \in 0..Seq0
        /\ r.result \in 0..Len(commits)
    BY DEF RebasesTo, JournalsTo
  <2> QED
    BY <1>1, <1>2, <1>4, <2>1 DEF RebaseContent
<1>5. ASSUME NEW m \in CheckpointsTo(Len(commits), Seq0), HonestMark(m) PROVE HonestMark(m)'
  <2>1. m.commit \in 0..Len(commits) /\ m.seq \in 0..Seq0 /\ m.through \in 0..Seq0
    BY DEF CheckpointsTo
  <2> QED
    BY <1>1, <1>5, <2>1 DEF HonestMark
<1>6. ASSUME NEW m \in CheckpointsTo(Len(commits), Seq0), NEW i \in 0..Len(commits), NEW s \in 0..Seq0,
             AgentContent(m, i, s)
      PROVE  AgentContent(m, i, s)'
  BY <1>1, <1>5, <1>6 DEF AgentContent
<1>7. ASSUME NEW c \in CheckpointsTo(Len(commits), Seq0), NEW T \in SUBSET (0..Len(commits)), RoomContent(c, T)
      PROVE  RoomContent(c, T)'
  <2>1. c.commit \in 0..Len(commits)
    BY DEF CheckpointsTo
  <2> QED
    BY <1>1, <1>5, <1>7, <2>1 DEF RoomContent
<1> QED
  BY <1>3, <1>4, <1>6, <1>7

\* What a step gives to a device.
Becomes(d, j, r, k, m, i, cl) ==
    /\ job' = [job EXCEPT ![d] = j]
    /\ rebase' = [rebase EXCEPT ![d] = r]
    /\ journal' = [journal EXCEPT ![d] = k]
    /\ mine' = [mine EXCEPT ![d] = m]
    /\ integrated' = [integrated EXCEPT ![d] = i]
    /\ clean' = [clean EXCEPT ![d] = cl]

\* A function set to its own value at d is as it was.
LEMMA AsItIs ==
    ASSUME TypeInv, NEW d \in Device
    PROVE  /\ job = [job EXCEPT ![d] = job[d]] /\ rebase = [rebase EXCEPT ![d] = rebase[d]]
           /\ journal = [journal EXCEPT ![d] = journal[d]] /\ mine = [mine EXCEPT ![d] = mine[d]]
           /\ integrated = [integrated EXCEPT ![d] = integrated[d]]
           /\ clean = [clean EXCEPT ![d] = clean[d]]
  BY DeviceFunctions

\* A step of one device keeps the content invariant, when it holds of that device
\* and of the room after the step.
LEMMA ContentMoves ==
    ASSUME TypeInv, ShapeInv, OrderInv, ContentInv, [BranchNext]_branchVars,
           NEW d \in Device, NEW j, NEW r, NEW k, NEW m, NEW i, NEW cl,
           Becomes(d, j, r, k, m, i, cl),
           RoomContent(checkpoint, taken)', DeviceContent(j, r, k, m, i, cl)'
    PROVE  ContentInv'
<1>1. HistoryContent'
  BY CommitsContent
<1>2. /\ job'[d] = j /\ rebase'[d] = r /\ journal'[d] = k /\ mine'[d] = m /\ integrated'[d] = i
      /\ clean'[d] = cl
  BY DeviceFunctions DEF Becomes
<1>3. \A e \in Device \ {d} : /\ job'[e] = job[e] /\ rebase'[e] = rebase[e] /\ journal'[e] = journal[e]
                              /\ mine'[e] = mine[e] /\ integrated'[e] = integrated[e] /\ clean'[e] = clean[e]
  BY DeviceFunctions DEF Becomes
<1>4. ASSUME NEW e \in Device \ {d}
      PROVE  DeviceContent(job[e], rebase[e], journal[e], mine[e], integrated[e], clean[e])'
  <2>1. DeviceContent(job[e], rebase[e], journal[e], mine[e], integrated[e], clean[e])
    BY DEF ContentInv
  <2>2. PICK je, re, ke, me, ie, ce : /\ je = job[e] /\ re = rebase[e] /\ ke = journal[e] /\ me = mine[e]
                                      /\ ie = integrated[e] /\ ce = clean[e]
    OBVIOUS
  <2>3. /\ je \in JobsTo(Len(commits), Seq0, generation) /\ re \in RebasesTo(Len(commits))
        /\ ke \in JournalsTo(Len(commits), Seq0) /\ me \in CheckpointsTo(Len(commits), Seq0)
        /\ ie \in 0..Len(commits) /\ ce \in 0..Seq0
    BY <2>2, DevicesOfTypes
  <2>4. DeviceContent(je, re, ke, me, ie, ce)
    BY <2>1, <2>2
  <2>5. DeviceContent(je, re, ke, me, ie, ce)'
    BY <2>3, <2>4, RecordsLift DEF DeviceContent
  <2>6. job'[e] = je /\ rebase'[e] = re /\ journal'[e] = ke /\ mine'[e] = me /\ integrated'[e] = ie
        /\ clean'[e] = ce
    BY <1>3, <2>2
  <2> QED
    BY <2>5, <2>6 DEF DeviceContent, JobContent, RebaseContent, AgentContent
<1>5. DeviceContent(job[d], rebase[d], journal[d], mine[d], integrated[d], clean[d])'
  BY <1>2 DEF DeviceContent, JobContent, RebaseContent, AgentContent
<1> QED
  BY <1>1, <1>4, <1>5 DEF ContentInv

\* With the log, the commits and the branch as they are, what was so stays so.
LEMMA ContentUnmoved ==
    ASSUME UNCHANGED <<log, commits, remote>>
    PROVE  /\ \A j, r, k, m, i, cl : DeviceContent(j, r, k, m, i, cl) => DeviceContent(j, r, k, m, i, cl)'
           /\ \A c, T : RoomContent(c, T) => RoomContent(c, T)'
<1>1. \A c, s : Saves(c, s)' <=> Saves(c, s)
  BY DEF Saves, TreeOf, ContentAt
<1>2. \A c, s : MetBy(c, s)' <=> MetBy(c, s)
  BY DEF MetBy, TreeOf, ContentAt
<1>3. \A c : Met(c)' <=> Met(c)
  BY DEF Met, MetBy, TreeOf, ContentAt, Seq0
<1>4. \A c : KeptOnBranch(TreeOf(c))' <=> KeptOnBranch(TreeOf(c))
  BY DEF KeptOnBranch, TreeOf, Removed, Seq0
<1>5. \A s : KeptOnBranch(ContentAt(s))' <=> KeptOnBranch(ContentAt(s))
  BY DEF KeptOnBranch, TreeOf, Removed, Seq0, ContentAt
<1>6. \A s : ContentAt(s)' = ContentAt(s)
  BY DEF ContentAt
<1>7. \A j : JobContent(j) => JobContent(j)'
  BY <1>1, <1>2, <1>3, <1>4 DEF JobContent
<1>8. \A j, r, k : RebaseContent(j, r, k) => RebaseContent(j, r, k)'
  BY <1>3, <1>6 DEF RebaseContent
<1>9. \A m, i, cl : AgentContent(m, i, cl) => AgentContent(m, i, cl)'
  BY <1>1, <1>3, <1>5 DEF AgentContent, HonestMark
<1>10. \A c, T : RoomContent(c, T) => RoomContent(c, T)'
  BY <1>1, <1>3, <1>4 DEF RoomContent, HonestMark
<1> QED
  BY <1>7, <1>8, <1>9, <1>10 DEF DeviceContent

\* A step that leaves log, commits and branch alone can be judged by what there
\* is before it.
LEMMA ContentKept ==
    ASSUME TypeInv, ShapeInv, OrderInv, ContentInv, [BranchNext]_branchVars,
           UNCHANGED <<log, commits, remote>>,
           NEW d \in Device, NEW j, NEW r, NEW k, NEW m, NEW i, NEW cl, NEW c, NEW T,
           Becomes(d, j, r, k, m, i, cl), checkpoint' = c, taken' = T,
           RoomContent(c, T), DeviceContent(j, r, k, m, i, cl)
    PROVE  ContentInv'
<1>1. DeviceContent(j, r, k, m, i, cl)' /\ RoomContent(c, T)'
  BY ContentUnmoved
<1>2. RoomContent(checkpoint, taken)'
  BY <1>1 DEF RoomContent, HonestMark
<1> QED
  BY <1>1, <1>2, ContentMoves

\* The content invariant, device by device.
LEMMA CheckpointContent ==
    ASSUME TypeInv, ContentInv
    PROVE  /\ RoomContent(checkpoint, taken) /\ HistoryContent
           /\ \A d \in Device :
                /\ JobContent(job[d]) /\ RebaseContent(job[d], rebase[d], journal[d])
                /\ HonestMark(mine[d]) /\ Met(integrated[d]) /\ KeptOnBranch(ContentAt(clean[d]))
                /\ mine[d].commit # 0 => Met(mine[d].commit)
           /\ Met(0) /\ Met(1) /\ KeptOnBranch({}) /\ KeptOnBranch(TreeOf(remote)) /\ KeptOnBranch(TreeOf(0))
<1>1. /\ RoomContent(checkpoint, taken) /\ HistoryContent
      /\ \A d \in Device :
           /\ JobContent(job[d]) /\ RebaseContent(job[d], rebase[d], journal[d])
           /\ HonestMark(mine[d]) /\ Met(integrated[d]) /\ KeptOnBranch(ContentAt(clean[d]))
  BY DEF ContentInv, DeviceContent, AgentContent
<1>2. /\ Met(0) /\ Met(1) /\ KeptOnBranch({}) /\ KeptOnBranch(TreeOf(remote)) /\ KeptOnBranch(TreeOf(0))
  BY <1>1 DEF Met, MetBy, KeptOnBranch, HistoryContent, TreeOf
<1>3. ASSUME NEW d \in Device, mine[d].commit # 0 PROVE Met(mine[d].commit)
  <2>1. mine[d].seq \in 0..Seq0
    BY DevicesOfTypes DEF CheckpointsTo
  <2>2. TreeOf(mine[d].commit) = ContentAt(mine[d].seq)
    BY <1>1, <1>3 DEF HonestMark, Saves
  <2> QED
    BY <2>1, <2>2 DEF Met, MetBy
<1> QED
  BY <1>1, <1>2, <1>3

\* What a save starts from has been in the session.
LEMMA BaseIsMet ==
    ASSUME TypeInv, ContentInv, NEW d \in Device
    PROVE  Met(Base(d))
  BY CheckpointContent DEF Base, Known

\* A checkpoint that a device takes over covers what the branch has kept.
LEMMA AcceptsContent ==
    ASSUME TypeInv, ContentInv, NEW d \in Device, NEW c, NEW s,
           HonestMark(c), c.commit # 0, KeptOnBranch(TreeOf(c.commit)), KeptOnBranch(ContentAt(s)),
           Accepts(d, c), CountsSaved(d, c, s)
    PROVE  \E m, i, cl : /\ mine' = [mine EXCEPT ![d] = m] /\ integrated' = [integrated EXCEPT ![d] = i]
                         /\ clean' = [clean EXCEPT ![d] = cl]
                         /\ AgentContent(m, i, cl)
<1>1. /\ HonestMark(mine[d]) /\ Met(integrated[d]) /\ KeptOnBranch(ContentAt(clean[d])) /\ Met(0)
  BY CheckpointContent
<1>2. PICK m, i : /\ mine' = [mine EXCEPT ![d] = m] /\ integrated' = [integrated EXCEPT ![d] = i]
                  /\ m \in {mine[d], c} /\ i \in {integrated[d], 0}
  BY AcceptsMoves
<1>3. KeptOnBranch(ContentAt(c.through))
  BY DEF HonestMark, Saves
<1>4. PICK cl : clean' = [clean EXCEPT ![d] = cl] /\ cl \in {clean[d], s, c.through}
  BY DEF CountsSaved, Larger
<1>5. HonestMark(m) /\ Met(i) /\ KeptOnBranch(ContentAt(cl))
  BY <1>1, <1>2, <1>3, <1>4
<1> QED
  BY <1>2, <1>4, <1>5 DEF AgentContent

\* A job that builds nothing claims nothing of content.
LEMMA IdleContent ==
    /\ \A j : j.step = "idle" => JobContent(j)
    /\ Idle.step = "idle"
    /\ \A j, j2, r, k : RebaseContent(j, r, k) /\ j2.step # "adopted" =>
         RebaseContent(j2, r, k) /\ RebaseContent(j2, NoRebase, k)
  BY DEF JobContent, Looked, OnParent, Idle, RebaseContent

\* resolveParent, as far as the content goes.
LEMMA ResolveKeepsContent ==
    ASSUME TypeInv, ShapeInv, OrderInv, ContentInv, [BranchNext]_branchVars, NEW d \in Device,
           ResolveRebase(d) \/ ResolveUnmoved(d) \/ ResolveOwn(d) \/ ResolveOutside(d)
    PROVE  ContentInv'
<1> DEFINE j0 == job[d]
           r0 == rebase[d]
<1>1. /\ RoomContent(checkpoint, taken) /\ HistoryContent
      /\ JobContent(j0) /\ RebaseContent(j0, r0, journal[d])
      /\ AgentContent(mine[d], integrated[d], clean[d])
      /\ KeptOnBranch(TreeOf(remote)) /\ Met(Base(d))
  BY CheckpointContent, BaseIsMet DEF AgentContent
<1>2. j0 \in JobsTo(Len(commits), Seq0, generation)
  BY RecordsOfTypes
<1>3. /\ rebase = [rebase EXCEPT ![d] = r0] /\ journal = [journal EXCEPT ![d] = journal[d]]
      /\ mine = [mine EXCEPT ![d] = mine[d]] /\ integrated = [integrated EXCEPT ![d] = integrated[d]]
      /\ clean = [clean EXCEPT ![d] = clean[d]]
  BY AsItIs
<1>4. /\ UNCHANGED <<log, commits, remote, checkpoint, taken, journal, mine, integrated, clean>>
      /\ j0.step = "resolve"
  BY DEF ResolveRebase, ResolveUnmoved, ResolveOwn, ResolveOutside, Looks, At, roomVars, gitVars, diskVars
<1> HIDE DEF j0, r0
<1>5. ASSUME NEW j, Goes(d, j), NEW r, rebase' = [rebase EXCEPT ![d] = r], r \in {r0, NoRebase},
             JobContent(j), j.step # "adopted"
      PROVE  ContentInv'
  <2>1. Becomes(d, j, r, journal[d], mine[d], integrated[d], clean[d])
    BY <1>3, <1>4, <1>5 DEF Becomes, Goes
  <2>2. DeviceContent(j, r, journal[d], mine[d], integrated[d], clean[d])
    BY <1>1, <1>5, IdleContent DEF DeviceContent
  <2> QED
    BY <1>1, <1>4, <2>1, <2>2, ContentKept
<1>6. CASE ResolveRebase(d)
  <2>1. CASE remote = rebase[d].from
    <3>1. PICK j : j = [j0 EXCEPT !.step = "capture", !.parent = rebase[d].result, !.head = remote]
      OBVIOUS
    <3>2. Goes(d, j) /\ UNCHANGED rebase /\ r0 # NoRebase
      BY <1>6, <2>1, <3>1 DEF ResolveRebase, BuildsOn, j0, r0
    <3>3. j.step = "capture" /\ j.head = remote /\ j.parent = r0.result
      BY <1>2, <3>1 DEF JobsTo, r0
    <3>4. JobContent(j)
      BY <1>1, <3>2, <3>3 DEF JobContent, RebaseContent, Looked, OnParent
    <3> QED
      BY <1>3, <1>5, <3>2, <3>3, <3>4
  <2>2. CASE remote # rebase[d].from
    BY <1>5, <1>6, <2>2, IdleContent DEF ResolveRebase, Stops
  <2> QED
    BY <2>1, <2>2
<1>7. CASE ResolveUnmoved(d)
  <2>1. PICK j : j = [j0 EXCEPT !.step = "capture", !.parent = Base(d), !.head = remote]
    OBVIOUS
  <2>2. Goes(d, j) /\ UNCHANGED rebase
    BY <1>7, <2>1 DEF ResolveUnmoved, BuildsOn, j0
  <2>3. j.step = "capture" /\ j.head = remote /\ j.parent = Base(d)
    BY <1>2, <2>1 DEF JobsTo
  <2>4. JobContent(j)
    BY <1>1, <2>3 DEF JobContent, Looked, OnParent
  <2> QED
    BY <1>3, <1>5, <2>2, <2>3, <2>4
<1>8. CASE ResolveOwn(d)
  <2>1. PICK j : j = [j0 EXCEPT !.step = "recover", !.parent = remote, !.head = remote,
                                !.out = remote, !.seq = commits[remote].seq]
    OBVIOUS
  <2>2. Goes(d, j) /\ UNCHANGED rebase /\ remote \notin {0, Base(d)} /\ Unrecorded(d)
    BY <1>8, <2>1 DEF ResolveOwn, j0
  <2>3. /\ j.step = "recover" /\ j.head = remote /\ j.out = remote
        /\ j.seq = commits[remote].seq
    BY <1>2, <2>1 DEF JobsTo
  <2>4. Base(d) = mine[d].commit /\ mine[d].commit # 0
    BY <2>2 DEF Unrecorded, Base, Known
  <2>5. /\ remote \in 1..Len(commits) /\ HistoryTypes /\ mine[d].commit \in 0..Len(commits)
        /\ mine[d].commit \in Nat /\ remote \in Nat /\ mine[d].commit <= remote
    <3>1. remote \in 0..Len(commits) /\ HistoryTypes /\ mine[d].commit \in 0..Len(commits)
          /\ Len(commits) \in Nat /\ mine[d].commit <= checkpoint.commit /\ checkpoint.commit <= remote
          /\ mine[d].commit \in Nat /\ remote \in Nat /\ checkpoint.commit \in Nat
      BY DevicesOfTypes, OrderRest, RecordsOfTypes DEF CheckpointsTo
    <3> QED
      BY <2>2, <3>1
  <2>6. remote \in Between(mine[d].commit, remote)
    <3>1. remote \in Ancestors(remote)
      BY <2>5, AncestorsFacts
    <3>2. ASSUME remote \in Ancestors(mine[d].commit) PROVE FALSE
      <4>1. remote <= mine[d].commit
        BY <2>5, <3>2, AncestorsFacts
      <4> QED
        BY <2>2, <2>4, <2>5, <4>1
    <3> QED
      BY <3>1, <3>2 DEF Between
  <2>7. commits[remote].kind = "own"
    BY <2>2, <2>6 DEF Unrecorded, OwnSince
  <2>8. Saves(remote, commits[remote].seq)
    BY <1>1, <2>5, <2>7 DEF HistoryContent
  <2>9. JobContent(j)
    BY <1>1, <2>3, <2>8 DEF JobContent, Looked, OnParent
  <2> QED
    BY <1>3, <1>5, <2>2, <2>3, <2>9
<1>9. CASE ResolveOutside(d)
  <2>1. CASE Stops(d)
    BY <1>3, <1>5, <1>9, <2>1, IdleContent DEF ResolveOutside, Stops
  <2>2. CASE ~Stops(d)
    <3>1. PICK j : j = [j0 EXCEPT !.step = "merge", !.parent = Base(d), !.head = remote]
      OBVIOUS
    <3>2. Goes(d, j) /\ UNCHANGED rebase
      BY <1>9, <2>2, <3>1 DEF ResolveOutside, BuildsOn, j0
    <3>3. j.step = "merge" /\ j.head = remote /\ j.parent = Base(d)
      BY <1>2, <3>1 DEF JobsTo
    <3>4. JobContent(j)
      BY <1>1, <3>3 DEF JobContent, Looked, OnParent
    <3> QED
      BY <1>3, <1>5, <3>2, <3>3, <3>4
  <2> QED
    BY <2>1, <2>2
<1> QED
  BY <1>6, <1>7, <1>8, <1>9

\* The merge of outside commits brings them into the session.
LEMMA MergeKeepsContent ==
    ASSUME TypeInv, ShapeInv, OrderInv, ContentInv, [BranchNext]_branchVars, NEW d \in Device,
           MergeOutside(d)
    PROVE  ContentInv'
<1>1. PICK j0, h0, p0 : j0 = job[d] /\ h0 = job[d].head /\ p0 = job[d].parent
  OBVIOUS
<1>2. PICK r0, k0, m0, c0, ck : /\ r0 = rebase[d] /\ k0 = journal[d] /\ m0 = mine[d] /\ c0 = clean[d]
                                /\ ck = checkpoint
  OBVIOUS
<1>3. /\ j0 \in JobsTo(Len(commits), Seq0, generation) /\ h0 \in 0..Len(commits) /\ p0 \in 0..Len(commits)
      /\ r0 \in RebasesTo(Len(commits)) /\ k0 \in JournalsTo(Len(commits), Seq0)
      /\ m0 \in CheckpointsTo(Len(commits), Seq0) /\ c0 \in 0..Seq0
      /\ ck \in CheckpointsTo(Len(commits), Seq0) /\ HistoryTypes /\ taken \in SUBSET (0..Len(commits))
  BY <1>1, <1>2, DevicesOfTypes DEF JobsTo, TypeInv, RoomTypes
<1>4. j0.step = "merge"
  BY <1>1 DEF MergeOutside, At
<1>5. /\ RoomContent(ck, taken) /\ JobContent(j0) /\ RebaseContent(j0, r0, k0)
      /\ HonestMark(m0) /\ KeptOnBranch(ContentAt(c0))
  BY <1>1, <1>2, CheckpointContent
<1>6. Met(p0) /\ KeptOnBranch(TreeOf(h0))
  BY <1>1, <1>4, <1>5 DEF JobContent, Looked, OnParent
<1>7. PICK j : j = [j0 EXCEPT !.step = "capture", !.parent = h0]
  OBVIOUS
<1>8. Becomes(d, j, r0, k0, m0, h0, c0) /\ UNCHANGED <<checkpoint, taken>>
  BY <1>1, <1>2, <1>7, AsItIs DEF MergeOutside, Integrates, Goes, Becomes, diskVars
<1>9. j.step = "capture" /\ j.parent = h0 /\ j.head = h0
  BY <1>1, <1>3, <1>7 DEF JobsTo
<1>10. Met(h0)'
  <2>1. PICK x : x = Merge(Content, TreeOf(p0), TreeOf(h0))
    OBVIOUS
  <2>2. log' = IF x = Content THEN log ELSE Append(log, x)
    BY <1>1, <2>1 DEF MergeOutside, Integrates
  <2>3. CASE x = Content
    <3>1. Met(h0)
      BY <1>3, <1>6, <2>1, <2>3, MergeMetNow
    <3> QED
      BY <1>3, <3>1, ContentLifts
  <2>4. CASE x # Content
    <3>1. log' = Append(log, Merge(Content, TreeOf(p0), TreeOf(h0)))
      BY <2>1, <2>2, <2>4
    <3> QED
      BY <1>3, <1>6, <3>1, MergeMetNext
  <2> QED
    BY <2>3, <2>4
<1>11. /\ KeptOnBranch(TreeOf(h0))' /\ RoomContent(ck, taken)'
  <2>1. RoomContent(ck, taken) => RoomContent(ck, taken)'
    <3>1. PICK T : T = taken
      OBVIOUS
    <3>2. RoomContent(ck, T) => RoomContent(ck, T)'
      BY <1>3, <3>1, RecordsLift
    <3> QED
      BY <1>8, <3>1, <3>2 DEF RoomContent
  <2>2. KeptOnBranch(TreeOf(h0)) => KeptOnBranch(TreeOf(h0))'
    BY <1>3, ContentLifts
  <2> QED
    BY <1>5, <1>6, <2>1, <2>2
<1>12. JobContent(j)'
  BY <1>9, <1>10, <1>11 DEF JobContent, Looked, OnParent
<1>13. RebaseContent(j, r0, k0)'
  <2>1. RebaseContent(j, r0, k0)
    BY <1>5, <1>9, IdleContent
  <2> QED
    BY <1>3, <2>1, RecordsLift
<1>14. AgentContent(m0, h0, c0)'
  <2>1. PICK i \in 0..Len(commits) : i = 0
    BY <1>3, HistoryTypesUnfold
  <2>2. AgentContent(m0, i, c0)
    BY <1>5, <2>1, CheckpointContent DEF AgentContent
  <2>3. AgentContent(m0, i, c0)'
    BY <1>3, <2>1, <2>2, RecordsLift
  <2> QED
    BY <1>10, <2>3 DEF AgentContent
<1>15. RoomContent(checkpoint, taken)'
  BY <1>2, <1>8, <1>11 DEF RoomContent, HonestMark
<1> QED
  BY <1>8, <1>12, <1>13, <1>14, <1>15, ContentMoves DEF DeviceContent

\* Capturing, renewing the lease and recording, as far as the content goes.
LEMMA SaveKeepsContent ==
    ASSUME TypeInv, ShapeInv, OrderInv, ContentInv, [BranchNext]_branchVars, NEW d \in Device, NEW heard,
           \/ Capture(d) \/ CaptureRefused(d) \/ Fence(d) \/ FenceRefused(d)
           \/ PushRejected(d) \/ Publish(d, heard) \/ PublishRefused(d)
           \/ Mark(d, heard) \/ MarkRefused(d)
    PROVE  ContentInv'
<1> DEFINE j0 == job[d]
           r0 == rebase[d]
           k0 == journal[d]
           C0 == checkpoint.commit
<1>1. /\ RoomContent(checkpoint, taken) /\ HistoryContent
      /\ JobContent(j0) /\ RebaseContent(j0, r0, k0)
      /\ AgentContent(mine[d], integrated[d], clean[d])
      /\ KeptOnBranch({})
  BY CheckpointContent DEF AgentContent
<1>2. /\ j0 \in JobsTo(Len(commits), Seq0, generation) /\ k0 \in JournalsTo(Len(commits), Seq0)
      /\ checkpoint \in CheckpointsTo(Len(commits), Seq0)
  BY RecordsOfTypes, DevicesOfTypes
<1>3. /\ rebase = [rebase EXCEPT ![d] = r0] /\ journal = [journal EXCEPT ![d] = k0]
      /\ mine = [mine EXCEPT ![d] = mine[d]] /\ integrated = [integrated EXCEPT ![d] = integrated[d]]
      /\ clean = [clean EXCEPT ![d] = clean[d]]
  BY AsItIs
<1>4. SaveShape(j0, r0) /\ Ordered(j0, r0, mine[d], integrated[d], C0, remote, HasLease(d, j0.gen))
  <2>1. Shape(j0, r0, k0, staged[d])
    BY DEF ShapeInv
  <2> QED
    BY <2>1 DEF Shape, OrderInv
<1>5. UNCHANGED <<log, commits, remote, taken>>
  BY DEF Capture, CaptureRefused, Fence, FenceRefused, PushRejected, Publish, Records, PublishRefused, Mark,
         MarkRefused, Barred, Deposed, roomVars, gitVars
<1> HIDE DEF j0, r0, k0, C0
<1>6. ASSUME NEW j, Goes(d, j), NEW r, rebase' = [rebase EXCEPT ![d] = r],
             NEW k, journal' = [journal EXCEPT ![d] = k],
             NEW m, NEW i, NEW cl, mine' = [mine EXCEPT ![d] = m],
             integrated' = [integrated EXCEPT ![d] = i], clean' = [clean EXCEPT ![d] = cl],
             JobContent(j), RebaseContent(j, r, k), AgentContent(m, i, cl),
             RoomContent(checkpoint', taken)
      PROVE  ContentInv'
  <2>1. Becomes(d, j, r, k, m, i, cl)
    BY <1>6 DEF Becomes, Goes
  <2>2. DeviceContent(j, r, k, m, i, cl)
    BY <1>6 DEF DeviceContent
  <2>3. PICK c, T : c = checkpoint' /\ T = taken
    OBVIOUS
  <2>4. RoomContent(c, T) /\ checkpoint' = c /\ taken' = T
    BY <1>5, <1>6, <2>3
  <2>5. UNCHANGED <<log, commits, remote>>
    BY <1>5
  <2> QED
    BY <2>1, <2>2, <2>4, <2>5, ContentKept
<1>7. ASSUME NEW j, Goes(d, j), JobContent(j), j.step # "adopted",
             UNCHANGED <<rebase, journal, mine, integrated, clean, checkpoint>>
      PROVE  ContentInv'
  <2>1. RebaseContent(j, r0, k0)
    BY <1>1, <1>7, IdleContent
  <2>2. RoomContent(checkpoint', taken)
    BY <1>1, <1>7
  <2> QED
    BY <1>1, <1>3, <1>6, <1>7, <2>1, <2>2
<1>8. CASE \/ CaptureRefused(d) \/ FenceRefused(d) \/ PushRejected(d) \/ PublishRefused(d) \/ MarkRefused(d)
  <2>1. Stops(d) /\ UNCHANGED <<rebase, journal, mine, integrated, clean, checkpoint>>
    BY <1>8 DEF CaptureRefused, FenceRefused, PushRejected, PublishRefused, MarkRefused, Barred, Deposed,
                agentVars, roomVars, diskVars
  <2> QED
    BY <1>7, <2>1, IdleContent DEF Stops
<1>9. CASE Capture(d)
  <2>1. PICK j : j = AfterCapture(d)
    OBVIOUS
  <2>2. /\ UNCHANGED <<rebase, journal, mine, integrated, clean, checkpoint>>
        /\ Goes(d, j) /\ j0.step = "capture"
    BY <1>9, <2>1 DEF Capture, At, agentVars, roomVars, diskVars, j0
  <2>3. /\ j.head = j0.head /\ j.parent = j0.parent /\ j.seq = Seq0
        /\ \/ j.step = "fence" /\ (j.out # 0 => j.out = j0.parent /\ Content = TreeOf(j0.parent))
           \/ /\ j.step = "publish" /\ j.out = j0.parent /\ r0 = NoRebase /\ j0.head # 0
              /\ Content = TreeOf(j0.parent)
           \/ j.step = "mark" /\ Content = TreeOf(j0.parent)
    <3>1. CASE Content # TreeOf(j0.parent)
      BY <1>2, <2>1, <3>1 DEF AfterCapture, JobsTo, j0, r0
    <3>2. CASE Content = TreeOf(j0.parent) /\ (r0 # NoRebase \/ j0.head = 0)
      BY <1>2, <2>1, <3>2 DEF AfterCapture, JobsTo, j0, r0
    <3>3. CASE Content = TreeOf(j0.parent) /\ r0 = NoRebase /\ j0.head # 0 /\ j0.parent # mine[d].commit
      BY <1>2, <2>1, <3>3 DEF AfterCapture, JobsTo, j0, r0
    <3>4. CASE Content = TreeOf(j0.parent) /\ r0 = NoRebase /\ j0.head # 0 /\ j0.parent = mine[d].commit
      BY <1>2, <2>1, <3>4 DEF AfterCapture, JobsTo, j0, r0
    <3> QED
      BY <3>1, <3>2, <3>3, <3>4
  <2>4. Met(j0.parent) /\ KeptOnBranch(TreeOf(j0.head))
    BY <1>1, <2>2 DEF JobContent, Looked, OnParent
  <2>5. Met(j0.head)
    <3>1. CASE r0 # NoRebase
      <4>1. Shape(job[d], rebase[d], journal[d], staged[d])
        BY DEF ShapeInv
      <4>2. r0.from = k0.from /\ k0.state # "none"
        BY <3>1, <4>1 DEF Shape, RebaseShape, UnderWay, r0, k0
      <4>3. j0.head = k0.from
        BY <1>4, <2>2, <3>1, <4>2 DEF SaveShape, OnParent
      <4> QED
        BY <1>1, <4>2, <4>3 DEF RebaseContent
    <3>2. CASE r0 = NoRebase /\ j0.head # 0
      <4>1. j0.parent = j0.head
        BY <1>4, <2>2, <3>2 DEF SaveShape, OnParent
      <4> QED
        BY <2>4, <4>1
    <3>3. CASE j0.head = 0
      BY <3>3, CheckpointContent
    <3> QED
      BY <3>1, <3>2, <3>3
  <2>6. Saves(j0.parent, Seq0) \/ Content # TreeOf(j0.parent)
    BY DEF Saves, Content
  <2>7. MetBy(j.parent, j.seq) /\ MetBy(j.head, j.seq)
    BY <2>3, <2>4, <2>5 DEF Met
  <2>8. r0 = NoRebase /\ j0.head # 0 => j0.parent = j0.head
    BY <1>4, <2>2 DEF SaveShape, OnParent
  <2>9. JobContent(j)
    <3>1. CASE j.step = "fence"
      BY <2>3, <2>4, <2>6, <2>7, <3>1 DEF JobContent, Looked, OnParent
    <3>2. CASE j.step = "publish"
      BY <2>3, <2>4, <2>6, <2>8, <3>2 DEF JobContent, Looked, OnParent
    <3>3. CASE j.step = "mark"
      BY <2>3, <2>4, <2>6, <3>3 DEF JobContent, Looked, OnParent
    <3> QED
      BY <2>3, <3>1, <3>2, <3>3
  <2> QED
    BY <1>7, <2>2, <2>3, <2>9
<1>10. CASE Fence(d)
  <2>1. PICK j : j = [j0 EXCEPT !.step = "push"]
    OBVIOUS
  <2>2. /\ UNCHANGED <<rebase, mine, integrated, clean, checkpoint>>
        /\ Goes(d, j) /\ j0.step = "fence"
    BY <1>10, <2>1 DEF Fence, Goto, At, agentVars, roomVars, j0
  <2>3. j.step = "push" /\ j.head = j0.head /\ j.parent = j0.parent /\ j.out = j0.out /\ j.seq = j0.seq
    BY <1>2, <2>1 DEF JobsTo
  <2>4. JobContent(j)
    BY <1>1, <2>2, <2>3 DEF JobContent, Looked, OnParent
  <2>5. PICK k : journal' = [journal EXCEPT ![d] = k] /\ RebaseContent(j, r0, k)
    <3>1. RebaseContent(j, r0, k0)
      BY <1>1, <2>3, IdleContent
    <3>2. CASE rebase[d] = NoRebase
      BY <1>3, <1>10, <3>1, <3>2 DEF Fence
    <3>3. CASE rebase[d] # NoRebase
      <4>1. PICK k : k = [k0 EXCEPT !.pending = Built(d), !.seq = j0.seq]
        OBVIOUS
      <4>2. journal' = [journal EXCEPT ![d] = k]
        BY <1>10, <3>3, <4>1 DEF Fence, j0, k0
      <4>3. k.pending = Built(d) /\ k.seq = j0.seq /\ k.state = k0.state /\ k.from = k0.from
            /\ k.result = k0.result
        BY <1>2, <4>1 DEF JournalsTo
      <4>4. Built(d).tree = ContentAt(j0.seq)
        <5>1. CASE j0.out # 0
          <6>1. TreeOf(j0.out) = ContentAt(j0.seq)
            BY <1>1, <2>2, <5>1 DEF JobContent, Saves
          <6> QED
            BY <5>1, <6>1 DEF Built, TreeOf, j0
        <5>2. CASE j0.out = 0
          BY <5>2 DEF Built, j0
        <5> QED
          BY <5>1, <5>2
      <4>5. RebaseContent(j, r0, k)
        BY <3>1, <4>3, <4>4 DEF RebaseContent
      <4> QED
        BY <4>2, <4>5
    <3> QED
      BY <3>2, <3>3
  <2>6. RoomContent(checkpoint', taken)
    BY <1>1, <2>2
  <2> QED
    BY <1>1, <1>3, <1>6, <2>2, <2>4, <2>5, <2>6
<1>11. CASE Mark(d, heard)
  <2>1. PICK marked : marked = [checkpoint EXCEPT !.through = Larger(@, j0.seq)]
    OBVIOUS
  <2>2. /\ UNCHANGED <<rebase, journal>> /\ checkpoint' = marked
        /\ j0.step = "mark" /\ HasLease(d, j0.gen)
        /\ \/ UNCHANGED <<mine, integrated, clean>> /\ Stops(d)
           \/ Accepts(d, marked) /\ CountsSaved(d, marked, j0.seq) /\ Saved(d)
    BY <1>11, <2>1 DEF Mark, At, diskVars, j0
  <2>3. marked.commit = C0 /\ marked.seq = checkpoint.seq /\ marked.through \in {checkpoint.through, j0.seq}
    BY <1>2, <2>1 DEF CheckpointsTo, Larger, C0
  <2>4. C0 = j0.parent /\ j0.parent # 0 /\ j0.parent = j0.head
    BY <1>4, <2>2 DEF Ordered, SaveShape, OnParent
  <2>5. Saves(j0.parent, j0.seq) /\ KeptOnBranch(TreeOf(j0.head))
    BY <1>1, <2>2 DEF JobContent, Looked
  <2>6. HonestMark(marked) /\ KeptOnBranch(TreeOf(marked.commit)) /\ KeptOnBranch(ContentAt(j0.seq))
    BY <1>1, <2>3, <2>4, <2>5 DEF HonestMark, RoomContent, Saves, C0
  <2>7. RoomContent(marked, taken)
    BY <1>1, <2>6 DEF RoomContent
  <2>8. PICK m, i, cl : /\ mine' = [mine EXCEPT ![d] = m] /\ integrated' = [integrated EXCEPT ![d] = i]
                        /\ clean' = [clean EXCEPT ![d] = cl] /\ AgentContent(m, i, cl)
    <3>1. CASE UNCHANGED <<mine, integrated, clean>>
      BY <1>1, <1>3, <3>1
    <3>2. CASE Accepts(d, marked) /\ CountsSaved(d, marked, j0.seq)
      <4>1. marked.commit # 0
        BY <2>3, <2>4
      <4> QED
        BY <2>6, <3>2, <4>1, AcceptsContent
    <3> QED
      BY <2>2, <3>1, <3>2
  <2>9. PICK j : Goes(d, j) /\ (j = Idle \/ j = [j0 EXCEPT !.step = "compute"])
    BY <2>2 DEF Saved, Goto, Stops, j0
  <2>10. j.step \in {"idle", "compute"}
    <3>1. [j0 EXCEPT !.step = "compute"].step = "compute"
      BY <1>2 DEF JobsTo
    <3> QED
      BY <2>9, <3>1, IdleContent
  <2>11. JobContent(j)
    BY <2>10 DEF JobContent, Looked, OnParent
  <2>12. RebaseContent(j, r0, k0)
    BY <1>1, <2>10, IdleContent
  <2>13. RoomContent(checkpoint', taken)
    BY <2>2, <2>7
  <2> QED
    BY <1>3, <1>6, <2>2, <2>8, <2>9, <2>11, <2>12, <2>13
<1>12. CASE Publish(d, heard)
  <2>1. PICK c : c = Recorded(d)
    OBVIOUS
  <2>2. PICK s : s = IF At(d, "recover") THEN 0 ELSE j0.seq
    OBVIOUS
  <2>3. /\ checkpoint' = c /\ j0.step \in {"recover", "publish"}
        /\ \/ UNCHANGED <<mine, integrated, clean>>
           \/ Accepts(d, c) /\ CountsSaved(d, c, s)
    BY <1>12, <2>1, <2>2 DEF Publish, Publishing, Records, agentVars, j0
  <2>4. Saves(j0.out, j0.seq) /\ KeptOnBranch(TreeOf(j0.out)) /\ j0.out # 0
    BY <1>1, <1>4, <2>3 DEF JobContent, SaveShape
  <2>5. c.commit = j0.out /\ HonestMark(c)
    <3>1. CASE Repeats(d)
      BY <1>1, <2>1, <3>1 DEF Recorded, Repeats, RoomContent, j0
    <3>2. CASE ~Repeats(d)
      BY <2>1, <2>4, <3>2 DEF Recorded, HonestMark, j0
    <3> QED
      BY <3>1, <3>2
  <2>6. RoomContent(c, taken)
    BY <1>1, <2>4, <2>5 DEF RoomContent
  <2>7. KeptOnBranch(ContentAt(s))
    <3>1. KeptOnBranch(ContentAt(0)) /\ KeptOnBranch(ContentAt(j0.seq))
      BY <1>1, <2>4 DEF HistoryContent, Saves
    <3> QED
      BY <2>2, <3>1
  <2>8. PICK m, i, cl : /\ mine' = [mine EXCEPT ![d] = m] /\ integrated' = [integrated EXCEPT ![d] = i]
                        /\ clean' = [clean EXCEPT ![d] = cl] /\ AgentContent(m, i, cl)
    <3>1. CASE UNCHANGED <<mine, integrated, clean>>
      BY <1>1, <1>3, <3>1
    <3>2. CASE Accepts(d, c) /\ CountsSaved(d, c, s)
      <4>1. c.commit # 0 /\ KeptOnBranch(TreeOf(c.commit))
        BY <2>4, <2>5
      <4> QED
        BY <2>5, <2>7, <3>2, <4>1, AcceptsContent
    <3> QED
      BY <2>3, <3>1, <3>2
  <2>9. PICK j : Goes(d, j) /\ (\/ j = Idle
                                \/ j = [j0 EXCEPT !.step = "compute"]
                                \/ j = [j0 EXCEPT !.step = "capture"] /\ j0.step = "recover")
    BY <1>12 DEF Publish, Saved, Goto, Stops, At, j0
  <2>10. \/ j.step \in {"idle", "compute"}
         \/ /\ j.step = "capture" /\ j0.step = "recover"
            /\ j.head = j0.head /\ j.parent = j0.parent
    <3>1. CASE j = Idle
      BY <3>1, IdleContent
    <3>2. CASE j = [j0 EXCEPT !.step = "compute"]
      BY <1>2, <3>2 DEF JobsTo
    <3>3. CASE j = [j0 EXCEPT !.step = "capture"] /\ j0.step = "recover"
      BY <1>2, <3>3 DEF JobsTo
    <3> QED
      BY <2>9, <3>1, <3>2, <3>3
  <2>11. JobContent(j)
    <3>1. CASE j.step \in {"idle", "compute"}
      BY <3>1 DEF JobContent, Looked, OnParent
    <3>2. CASE j.step = "capture" /\ j0.step = "recover" /\ j.head = j0.head /\ j.parent = j0.parent
      <4>1. j.parent = j0.out /\ KeptOnBranch(TreeOf(j.head))
        BY <1>1, <1>4, <3>2 DEF SaveShape, JobContent, Looked
      <4>2. j0.seq \in 0..Seq0
        BY <1>2 DEF JobsTo
      <4>3. Met(j.parent)
        BY <2>4, <4>1, <4>2 DEF Saves, Met, MetBy
      <4> QED
        BY <3>2, <4>1, <4>3 DEF JobContent, Looked, OnParent
    <3> QED
      BY <2>10, <3>1, <3>2
  <2>12. PICK r, k : /\ rebase' = [rebase EXCEPT ![d] = r] /\ journal' = [journal EXCEPT ![d] = k]
                     /\ RebaseContent(j, r, k)
    <3>1. RebaseContent(j, r0, k0) /\ RebaseContent(j, NoRebase, k0)
      BY <1>1, <2>10, IdleContent
    <3>2. CASE UNCHANGED <<rebase, journal>>
      BY <1>3, <3>1, <3>2
    <3>3. CASE ~UNCHANGED <<rebase, journal>>
      <4>1. PICK k : k = [k0 EXCEPT !.state = "applied"]
        OBVIOUS
      <4>2. r0 # NoRebase /\ rebase' = [rebase EXCEPT ![d] = NoRebase] /\ journal' = [journal EXCEPT ![d] = k]
        BY <1>12, <3>3, <4>1 DEF Publish, FinishesRebase, agentVars, diskVars, r0, k0
      <4>3. k.pending = k0.pending /\ k.seq = k0.seq /\ k.from = k0.from /\ k.result = k0.result
        BY <1>2, <4>1 DEF JournalsTo
      <4>4. k0.state # "none"
        <5>1. Shape(job[d], rebase[d], journal[d], staged[d])
          BY DEF ShapeInv
        <5> QED
          BY <4>2, <5>1 DEF Shape, RebaseShape, UnderWay, r0, k0
      <4>5. RebaseContent(j, NoRebase, k)
        BY <3>1, <4>3, <4>4 DEF RebaseContent
      <4> QED
        BY <4>2, <4>5
    <3> QED
      BY <3>2, <3>3
  <2>13. RoomContent(checkpoint', taken)
    BY <2>3, <2>6
  <2> QED
    BY <1>6, <2>8, <2>9, <2>11, <2>12, <2>13
<1> QED
  BY <1>8, <1>9, <1>10, <1>11, <1>12

\* What was so of the room stays so while it keeps its checkpoint and the rebases it took in.
LEMMA RoomLifts ==
    ASSUME TypeInv, ShapeInv, OrderInv, ContentInv, [BranchNext]_branchVars,
           UNCHANGED <<checkpoint, taken>>
    PROVE  RoomContent(checkpoint, taken)'
<1>1. PICK c, T : c = checkpoint /\ T = taken
  OBVIOUS
<1>2. c \in CheckpointsTo(Len(commits), Seq0) /\ T \in SUBSET (0..Len(commits))
  BY <1>1, DevicesOfTypes DEF TypeInv, RoomTypes
<1>3. RoomContent(c, T)
  BY <1>1, CheckpointContent
<1>4. RoomContent(c, T)'
  BY <1>2, <1>3, RecordsLift
<1>5. checkpoint' = c /\ taken' = T
  BY <1>1
<1> QED
  BY <1>4, <1>5 DEF RoomContent, HonestMark

\* A step that moves nothing but the log, the commits and the branch.
LEMMA ContentStands ==
    ASSUME TypeInv, ShapeInv, OrderInv, ContentInv, [BranchNext]_branchVars,
           UNCHANGED <<job, rebase, journal, mine, integrated, clean, checkpoint, taken>>
    PROVE  ContentInv'
<1>1. HistoryContent' /\ RoomContent(checkpoint, taken)'
  BY CommitsContent, RoomLifts
<1>2. CASE Device = {}
  BY <1>1, <1>2 DEF ContentInv
<1>3. ASSUME NEW d \in Device PROVE ContentInv'
  <2>1. PICK j, r, k, m, i, cl : /\ j = job[d] /\ r = rebase[d] /\ k = journal[d] /\ m = mine[d]
                                 /\ i = integrated[d] /\ cl = clean[d]
    OBVIOUS
  <2>2. /\ j \in JobsTo(Len(commits), Seq0, generation) /\ r \in RebasesTo(Len(commits))
        /\ k \in JournalsTo(Len(commits), Seq0) /\ m \in CheckpointsTo(Len(commits), Seq0)
        /\ i \in 0..Len(commits) /\ cl \in 0..Seq0
    BY <2>1, DevicesOfTypes
  <2>3. DeviceContent(j, r, k, m, i, cl)
    BY <2>1 DEF ContentInv
  <2>4. DeviceContent(j, r, k, m, i, cl)'
    BY <2>2, <2>3, RecordsLift DEF DeviceContent
  <2>5. Becomes(d, j, r, k, m, i, cl)
    BY <2>1, AsItIs DEF Becomes
  <2> QED
    BY <1>1, <2>4, <2>5, ContentMoves
<1> QED
  BY <1>2, <1>3

\* A push, as far as the content goes: what it puts on the branch is the session
\* at the barrier of the save.
LEMMA PushKeepsContent ==
    ASSUME TypeInv, ShapeInv, OrderInv, ContentInv, [BranchNext]_branchVars,
           NEW d \in Device, NEW heard, Push(d, heard)
    PROVE  ContentInv'
<1>1. PICK j0, r0, k0, m0, i0, c0 : /\ j0 = job[d] /\ r0 = rebase[d] /\ k0 = journal[d] /\ m0 = mine[d]
                                    /\ i0 = integrated[d] /\ c0 = clean[d]
  OBVIOUS
<1>2. /\ j0 \in JobsTo(Len(commits), Seq0, generation) /\ r0 \in RebasesTo(Len(commits))
      /\ k0 \in JournalsTo(Len(commits), Seq0) /\ m0 \in CheckpointsTo(Len(commits), Seq0)
      /\ i0 \in 0..Len(commits) /\ c0 \in 0..Seq0
  BY <1>1, DevicesOfTypes
<1>3. /\ JobContent(j0) /\ RebaseContent(j0, r0, k0) /\ AgentContent(m0, i0, c0)
      /\ j0.step = "push" /\ JobContent(job[d])
  BY <1>1, CheckpointContent DEF AgentContent, Push, At
<1>4. PICK id \in 1..Len(commits'), s \in 0..Seq0 :
         /\ s = job[d].seq /\ remote' = id /\ TreeOf(id)' = ContentAt(s)
         /\ id = IF job[d].out # 0 THEN job[d].out ELSE Len(commits) + 1
  BY <1>3, PushedTree
<1>5. ContentAt(s)' = ContentAt(s)
  BY HistoryStays
<1>6. PICK j : j = IF heard THEN [j0 EXCEPT !.step = "publish", !.out = id] ELSE Idle
  OBVIOUS
<1>7. Becomes(d, j, r0, k0, m0, i0, c0) /\ UNCHANGED <<checkpoint, taken>>
  BY <1>1, <1>4, <1>6, AsItIs DEF Push, Goes, Stops, Becomes, agentVars, diskVars, roomVars
<1>8. JobContent(j)'
  <2>1. CASE ~heard
    BY <1>6, <2>1, IdleContent DEF JobContent, Looked, OnParent
  <2>2. CASE heard
    <3>1. j.step = "publish" /\ j.out = id /\ j.parent = j0.parent /\ j.head = j0.head /\ j.seq = s
      BY <1>1, <1>2, <1>4, <1>6, <2>2 DEF JobsTo
    <3>2. PICK p, h \in 0..Len(commits) : p = j0.parent /\ h = j0.head
      BY <1>2 DEF JobsTo
    <3>3. Met(p) /\ KeptOnBranch(TreeOf(h))
      BY <1>3, <3>2 DEF JobContent, Looked, OnParent
    <3>4. Met(p)' /\ KeptOnBranch(TreeOf(h))'
      BY <3>3, ContentLifts
    <3>5. Saves(id, s)'
      BY <1>4, <1>5 DEF Saves
    <3>6. KeptOnBranch(TreeOf(id))'
      <4>1. (TreeOf(remote))' = TreeOf(id)'
        BY <1>4 DEF TreeOf
      <4> QED
        BY <4>1 DEF KeptOnBranch
    <3> QED
      BY <3>1, <3>2, <3>4, <3>5, <3>6 DEF JobContent, Looked, OnParent
  <2> QED
    BY <2>1, <2>2
<1>9. RebaseContent(j, r0, k0)'
  <2>1. j.step # "adopted"
    BY <1>2, <1>6, IdleContent DEF JobsTo
  <2>2. RebaseContent(j, r0, k0)
    BY <1>3, <2>1, IdleContent
  <2> QED
    BY <1>2, <2>2, RecordsLift
<1>10. AgentContent(m0, i0, c0)'
  BY <1>2, <1>3, RecordsLift
<1>11. RoomContent(checkpoint, taken)'
  BY <1>7, RoomLifts
<1> QED
  BY <1>7, <1>8, <1>9, <1>10, <1>11, ContentMoves DEF DeviceContent

\* What happens between saves, as far as the content goes.
LEMMA BeginningKeepsContent ==
    ASSUME TypeInv, ShapeInv, OrderInv, ContentInv, [BranchNext]_branchVars, NEW d \in Device,
           \/ Handover(d) \/ Hear(d) \/ StartSave(d) \/ PollRemote(d)
           \/ Asks(d) \/ CallLost(d) \/ Restart(d)
    PROVE  ContentInv'
<1>1. UNCHANGED <<log, commits, remote, checkpoint, taken, journal>>
  BY DEF Handover, Hear, StartSave, PollRemote, Asks, SaveNow, RequestRebase, Apply, CallLost, Restart,
         roomVars, gitVars, diskVars
<1>2. PICK j0, r0, k0, m0, i0, c0 : /\ j0 = job[d] /\ r0 = rebase[d] /\ k0 = journal[d] /\ m0 = mine[d]
                                    /\ i0 = integrated[d] /\ c0 = clean[d]
  OBVIOUS
<1>3. /\ JobContent(j0) /\ RebaseContent(j0, r0, k0) /\ AgentContent(m0, i0, c0)
      /\ RoomContent(checkpoint, taken)
  BY <1>2, CheckpointContent DEF AgentContent
<1>4. /\ job = [job EXCEPT ![d] = j0] /\ rebase = [rebase EXCEPT ![d] = r0]
      /\ journal = [journal EXCEPT ![d] = k0] /\ mine = [mine EXCEPT ![d] = m0]
      /\ integrated = [integrated EXCEPT ![d] = i0] /\ clean = [clean EXCEPT ![d] = c0]
  BY <1>2, AsItIs
<1>5. ASSUME NEW j, job' = [job EXCEPT ![d] = j], NEW r, rebase' = [rebase EXCEPT ![d] = r],
             NEW m, NEW i, NEW cl, mine' = [mine EXCEPT ![d] = m],
             integrated' = [integrated EXCEPT ![d] = i], clean' = [clean EXCEPT ![d] = cl],
             JobContent(j), RebaseContent(j, r, k0), AgentContent(m, i, cl)
      PROVE  ContentInv'
  <2>1. Becomes(d, j, r, k0, m, i, cl)
    BY <1>1, <1>4, <1>5 DEF Becomes
  <2>2. DeviceContent(j, r, k0, m, i, cl)
    BY <1>5 DEF DeviceContent
  <2>3. PICK c, T : c = checkpoint /\ T = taken
    OBVIOUS
  <2>4. RoomContent(c, T) /\ checkpoint' = c /\ taken' = T
    BY <1>1, <1>3, <2>3
  <2>5. UNCHANGED <<log, commits, remote>>
    BY <1>1
  <2> QED
    BY <2>1, <2>2, <2>4, <2>5, ContentKept
<1>6. ASSUME NEW j, Goes(d, j), j.step \in {"resolve", "row", "idle"},
             UNCHANGED <<rebase, mine, integrated, clean>>
      PROVE  ContentInv'
  <2>1. JobContent(j) /\ RebaseContent(j, r0, k0)
    BY <1>3, <1>6, IdleContent DEF JobContent, Looked, OnParent
  <2> QED
    BY <1>3, <1>4, <1>5, <1>6, <2>1 DEF Goes
<1>7. CASE Handover(d)
  BY <1>1, <1>7, ContentStands DEF Handover, agentVars
<1>8. CASE Hear(d)
  <2>1. UNCHANGED <<job, rebase>>
    BY <1>8 DEF Hear
  <2>2. PICK m, i, cl : /\ mine' = [mine EXCEPT ![d] = m] /\ integrated' = [integrated EXCEPT ![d] = i]
                        /\ clean' = [clean EXCEPT ![d] = cl] /\ AgentContent(m, i, cl)
    <3>1. CASE checkpoint = NoCheckpoint
      <4>1. UNCHANGED <<mine, integrated, clean>>
        BY <1>8, <3>1 DEF Hear
      <4> QED
        BY <1>3, <1>4, <4>1
    <3>2. CASE checkpoint # NoCheckpoint
      <4>1. Accepts(d, checkpoint) /\ CountsSaved(d, checkpoint, 0)
        BY <1>8, <3>2 DEF Hear
      <4>2. checkpoint.commit # 0
        BY <3>2 DEF OrderInv
      <4>3. HonestMark(checkpoint) /\ KeptOnBranch(TreeOf(checkpoint.commit))
        BY <1>3 DEF RoomContent
      <4>4. KeptOnBranch(ContentAt(0))
        BY CheckpointContent DEF HistoryContent
      <4> QED
        BY <4>1, <4>2, <4>3, <4>4, AcceptsContent
    <3> QED
      BY <3>1, <3>2
  <2> QED
    BY <1>3, <1>4, <1>5, <2>1, <2>2
<1>9. CASE StartSave(d) \/ PollRemote(d) \/ SaveNow(d) \/ RequestRebase(d)
  <2>1. UNCHANGED <<rebase, mine, integrated, clean>>
    BY <1>9 DEF StartSave, PollRemote, SaveNow, RequestRebase
  <2>2. CASE UNCHANGED job
    BY <1>1, <2>1, <2>2, ContentStands
  <2>3. ASSUME NEW b, Begins(d, b) PROVE ContentInv'
    <3>1. PICK j : j = [Idle EXCEPT !.step = "resolve", !.gen = sees[d], !.rebases = b]
      OBVIOUS
    <3>2. j.step = "resolve"
      BY <3>1 DEF Idle
    <3> QED
      BY <1>6, <2>1, <2>3, <3>1, <3>2 DEF Begins
  <2> QED
    BY <1>9, <2>2, <2>3 DEF StartSave, PollRemote, SaveNow, RequestRebase
<1>10. CASE Apply(d)
  <2>1. PICK j : j = [Idle EXCEPT !.step = "row", !.gen = sees[d]]
    OBVIOUS
  <2>2. j.step = "row"
    BY <2>1 DEF Idle
  <2> QED
    BY <1>6, <1>10, <2>1, <2>2 DEF Apply, agentVars
<1>11. CASE CallLost(d)
  BY <1>6, <1>11, IdleContent DEF CallLost, Stops, agentVars
<1>12. CASE Restart(d)
  <2>1. /\ job' = [job EXCEPT ![d] = Idle] /\ rebase' = [rebase EXCEPT ![d] = NoRebase]
        /\ mine' = [mine EXCEPT ![d] = NoCheckpoint] /\ integrated' = [integrated EXCEPT ![d] = 0]
        /\ clean' = [clean EXCEPT ![d] = 0]
    BY <1>12 DEF Restart, Stops, Goes
  <2>2. JobContent(Idle) /\ RebaseContent(Idle, NoRebase, k0)
    <3>1. Idle.step # "adopted"
      BY IdleContent
    <3> QED
      BY <1>3, <3>1, IdleContent
  <2>3. AgentContent(NoCheckpoint, 0, 0)
    <3>1. KeptOnBranch(ContentAt(0)) /\ Met(0) /\ NoCheckpoint.commit = 0
      BY CheckpointContent DEF HistoryContent, NoCheckpoint
    <3> QED
      BY <3>1 DEF AgentContent, HonestMark
  <2> QED
    BY <1>5, <2>1, <2>2, <2>3
<1> QED
  BY <1>7, <1>8, <1>9, <1>10, <1>11, <1>12 DEF Asks

\* The steps of a rebase that change neither the session nor the commits, as far
\* as the content goes.
LEMMA AdoptionKeepsContent ==
    ASSUME TypeInv, ShapeInv, MergeInv, OrderInv, ContentInv, [BranchNext]_branchVars,
           NEW d \in Device, NEW heard,
           \/ FindReceipt(d) \/ PublishPending(d, heard) \/ ApplyRefused(d) \/ ApplyGoesOn(d)
           \/ Begin(d) \/ Adopt(d, heard) \/ Integrate(d, heard) \/ FinishRefused(d) \/ Adopted(d)
    PROVE  ContentInv'
<1>1. UNCHANGED <<log, commits, remote, taken>>
  BY DEF FindReceipt, PublishPending, ApplyRefused, ApplyGoesOn, Begin, Adopt, Integrate, FinishRefused,
         Adopted, roomVars, gitVars
<1>2. PICK j0, r0, k0, m0, i0, c0 : /\ j0 = job[d] /\ r0 = rebase[d] /\ k0 = journal[d] /\ m0 = mine[d]
                                    /\ i0 = integrated[d] /\ c0 = clean[d]
  OBVIOUS
<1>3. /\ j0 \in JobsTo(Len(commits), Seq0, generation) /\ k0 \in JournalsTo(Len(commits), Seq0)
      /\ HistoryTypes /\ remote \in 0..Len(commits)
  BY <1>2, DevicesOfTypes
<1>4. /\ RebaseContent(j0, r0, k0) /\ AgentContent(m0, i0, c0)
      /\ RoomContent(checkpoint, taken)
  BY <1>2, CheckpointContent DEF AgentContent
<1>5. /\ rebase = [rebase EXCEPT ![d] = r0]
      /\ journal = [journal EXCEPT ![d] = k0] /\ mine = [mine EXCEPT ![d] = m0]
      /\ integrated = [integrated EXCEPT ![d] = i0] /\ clean = [clean EXCEPT ![d] = c0]
  BY <1>2, AsItIs
<1>6. RebaseSteps(j0, r0, k0, staged[d]) /\ MergeKnown(j0, k0, staged[d], taken)
  BY <1>2 DEF ShapeInv, Shape, MergeInv
<1>7. ASSUME NEW j, Goes(d, j), j.step \notin Looked, NEW r, rebase' = [rebase EXCEPT ![d] = r],
             NEW k, journal' = [journal EXCEPT ![d] = k],
             NEW m, NEW i, NEW cl, mine' = [mine EXCEPT ![d] = m],
             integrated' = [integrated EXCEPT ![d] = i], clean' = [clean EXCEPT ![d] = cl],
             RebaseContent(j, r, k), AgentContent(m, i, cl), RoomContent(checkpoint', taken)
      PROVE  ContentInv'
  <2>1. Becomes(d, j, r, k, m, i, cl)
    BY <1>7 DEF Becomes, Goes
  <2>2. JobContent(j)
    BY <1>7 DEF JobContent, Looked, OnParent
  <2>3. PICK c, T : c = checkpoint' /\ T = taken
    OBVIOUS
  <2>4. RoomContent(c, T) /\ checkpoint' = c /\ taken' = T
    BY <1>1, <1>7, <2>3
  <2>5. UNCHANGED <<log, commits, remote>>
    BY <1>1
  <2>6. DeviceContent(j, r, k, m, i, cl)
    BY <1>7, <2>2 DEF DeviceContent
  <2> QED
    BY <2>1, <2>4, <2>5, <2>6, ContentKept
<1>8. ASSUME NEW j, Goes(d, j), j.step \notin Looked, NEW r, rebase' = [rebase EXCEPT ![d] = r],
             NEW k, journal' = [journal EXCEPT ![d] = k], RebaseContent(j, r, k),
             UNCHANGED <<mine, integrated, clean, checkpoint>>
      PROVE  ContentInv'
  <2>1. RoomContent(checkpoint', taken)
    BY <1>4, <1>8
  <2> QED
    BY <1>4, <1>5, <1>7, <1>8, <2>1
<1>9. ASSUME NEW j, Goes(d, j), j.step \notin Looked, j.step = "adopted" => Met(k0.result),
             UNCHANGED <<rebase, journal, mine, integrated, clean, checkpoint>>
      PROVE  ContentInv'
  <2>1. RebaseContent(j, r0, k0)
    BY <1>4, <1>9 DEF RebaseContent
  <2> QED
    BY <1>5, <1>8, <1>9, <2>1
<1>10. Idle.step = "idle" /\ "idle" \notin Looked
  BY IdleContent DEF Looked, OnParent
<1>11. ASSUME Stops(d), UNCHANGED <<rebase, journal, mine, integrated, clean, checkpoint>>
       PROVE  ContentInv'
  BY <1>9, <1>10, <1>11 DEF Stops
<1>12. \A step \in {"begin", "adopt", "integrate", "finish", "adopted"} :
          /\ [j0 EXCEPT !.step = step].step = step /\ step \notin Looked
          /\ Goto(d, step) => Goes(d, [j0 EXCEPT !.step = step])
  BY <1>2, <1>3 DEF JobsTo, Looked, OnParent, Goto
<1>13. ASSUME NEW k, k.pending = k0.pending, k.seq = k0.seq, k.from = k0.from, k.result = k0.result,
              k0.state # "none", NEW j, NEW r \in {r0, NoRebase}, j.step # "adopted"
       PROVE  RebaseContent(j, r, k)
  BY <1>4, <1>13 DEF RebaseContent
<1>14. CASE ApplyRefused(d) \/ FinishRefused(d)
  BY <1>11, <1>14 DEF ApplyRefused, FinishRefused, agentVars, diskVars, roomVars
<1>15. CASE ApplyGoesOn(d)
  <2>1. PICK j : j = [j0 EXCEPT !.step = "begin"]
    OBVIOUS
  <2>2. Goes(d, j) /\ j.step = "begin" /\ j.step \notin Looked
        /\ UNCHANGED <<rebase, journal, mine, integrated, clean, checkpoint>>
    BY <1>12, <1>15, <2>1 DEF ApplyGoesOn, agentVars, diskVars, roomVars
  <2> QED
    BY <1>9, <2>2
<1>16. CASE Begin(d)
  <2>1. PICK j : j = [j0 EXCEPT !.step = "adopt"]
    OBVIOUS
  <2>2. PICK k : k = [k0 EXCEPT !.state = "adopting"]
    OBVIOUS
  <2>3. Goes(d, j) /\ j.step = "adopt" /\ j.step \notin Looked
        /\ journal' = [journal EXCEPT ![d] = k] /\ j0.step = "begin"
        /\ UNCHANGED <<rebase, mine, integrated, clean, checkpoint>>
    BY <1>2, <1>12, <1>16, <2>1, <2>2 DEF Begin, At, agentVars, roomVars
  <2>4. k.pending = k0.pending /\ k.seq = k0.seq /\ k.from = k0.from /\ k.result = k0.result
    BY <1>3, <2>2 DEF JournalsTo
  <2>5. k0.state # "none"
    BY <1>6, <2>3 DEF RebaseSteps
  <2>6. RebaseContent(j, r0, k)
    BY <1>13, <2>3, <2>4, <2>5
  <2> QED
    BY <1>5, <1>8, <2>3, <2>6
<1>17. CASE FindReceipt(d)
  <2>1. PICK k : k = [k0 EXCEPT !.state = "applied"]
    OBVIOUS
  <2>2. Goes(d, Idle) /\ journal' = [journal EXCEPT ![d] = k] /\ rebase' = [rebase EXCEPT ![d] = NoRebase]
        /\ UNCHANGED <<mine, integrated, clean, checkpoint>> /\ k0.state # "none"
    BY <1>2, <1>17, <2>1 DEF FindReceipt, Finishes, Stops, HasReceipt, Begun, roomVars
  <2>3. k.pending = k0.pending /\ k.seq = k0.seq /\ k.from = k0.from /\ k.result = k0.result
    BY <1>3, <2>1 DEF JournalsTo
  <2>4. RebaseContent(Idle, NoRebase, k)
    BY <1>10, <1>13, <2>2, <2>3
  <2> QED
    BY <1>8, <1>10, <2>2, <2>4
<1>18. CASE PublishPending(d, heard)
  <2>1. CASE UNCHANGED <<checkpoint, mine, integrated, clean, rebase, journal>>
    BY <1>11, <1>18, <2>1 DEF PublishPending, Finishes
  <2>2. CASE ~UNCHANGED <<checkpoint, mine, integrated, clean, rebase, journal>>
    <3>1. PICK c : c = [commit |-> remote, seq |-> k0.seq, through |-> k0.seq]
      OBVIOUS
    <3>2. PICK k : k = [k0 EXCEPT !.state = "applied"]
      OBVIOUS
    <3>3. /\ checkpoint' = c /\ Stops(d) /\ k0.pending # NoCommit /\ k0.state = "adopted"
          /\ remote # 0 /\ commits[remote] = k0.pending
          /\ \/ UNCHANGED <<mine, integrated, clean, rebase, journal>>
             \/ /\ Accepts(d, c) /\ CountsSaved(d, c, 0)
                /\ journal' = [journal EXCEPT ![d] = k] /\ rebase' = [rebase EXCEPT ![d] = NoRebase]
      BY <1>2, <1>18, <2>2, <3>1, <3>2 DEF PublishPending, Pushed, Finishes, diskVars, roomVars
    <3>4. Saves(remote, k0.seq)
      BY <1>4, <3>3 DEF RebaseContent, Saves, TreeOf
    <3>5. /\ HonestMark(c) /\ c.commit # 0 /\ KeptOnBranch(TreeOf(c.commit)) /\ KeptOnBranch(ContentAt(0))
      BY <3>1, <3>3, <3>4, CheckpointContent DEF HonestMark, HistoryContent
    <3>6. RoomContent(checkpoint', taken)
      BY <1>4, <3>3, <3>5 DEF RoomContent
    <3>7. Goes(d, Idle) /\ Idle.step \notin Looked /\ Idle.step # "adopted"
      BY <1>10, <3>3 DEF Stops
    <3>8. CASE UNCHANGED <<mine, integrated, clean, rebase, journal>>
      <4>1. RebaseContent(Idle, r0, k0)
        BY <1>4, <3>7, IdleContent
      <4> QED
        BY <1>4, <1>5, <1>7, <3>6, <3>7, <3>8, <4>1
    <3>9. CASE /\ Accepts(d, c) /\ CountsSaved(d, c, 0)
               /\ journal' = [journal EXCEPT ![d] = k] /\ rebase' = [rebase EXCEPT ![d] = NoRebase]
      <4>1. PICK m, i, cl : /\ mine' = [mine EXCEPT ![d] = m] /\ integrated' = [integrated EXCEPT ![d] = i]
                            /\ clean' = [clean EXCEPT ![d] = cl] /\ AgentContent(m, i, cl)
        BY <3>5, <3>9, AcceptsContent
      <4>2. k.pending = k0.pending /\ k.seq = k0.seq /\ k.from = k0.from /\ k.result = k0.result
        BY <1>3, <3>2 DEF JournalsTo
      <4>3. k0.state # "none"
        BY <3>3
      <4>4. RebaseContent(Idle, NoRebase, k)
        BY <1>13, <3>7, <4>2, <4>3
      <4> QED
        BY <1>7, <3>6, <3>7, <3>9, <4>1, <4>4
    <3> QED
      BY <3>3, <3>8, <3>9
  <2> QED
    BY <2>1, <2>2
<1>19. CASE Adopt(d, heard)
  <2>1. UNCHANGED <<rebase, journal, mine, integrated, clean, checkpoint>> /\ j0.step = "adopt"
    BY <1>2, <1>19 DEF Adopt, At, agentVars, diskVars
  <2>2. CASE Stops(d)
    BY <1>11, <2>1, <2>2
  <2>3. CASE Goto(d, AfterAdoption(d))
    <3>1. PICK step : step = AfterAdoption(d)
      OBVIOUS
    <3>2. step \in {"adopted", "integrate"} /\ (step = "adopted" => j0.recovered)
      BY <1>2, <3>1 DEF AfterAdoption
    <3>3. PICK j : j = [j0 EXCEPT !.step = step]
      OBVIOUS
    <3>4. Goes(d, j) /\ j.step = step /\ j.step \notin Looked
      BY <1>12, <2>3, <3>1, <3>2, <3>3
    <3>5. j.step = "adopted" => Met(k0.result)
      <4>1. j0.recovered => k0.result \in taken
        BY <1>6, <2>1 DEF MergeKnown
      <4> QED
        BY <1>4, <3>2, <3>4, <4>1 DEF RoomContent
    <3> QED
      BY <1>9, <2>1, <3>4, <3>5
  <2> QED
    BY <1>19, <2>2, <2>3 DEF Adopt
<1>20. CASE Integrate(d, heard)
  <2>1. UNCHANGED <<rebase, journal, mine, integrated, clean, checkpoint>> /\ j0.step = "integrate"
    BY <1>2, <1>20 DEF Integrate, At, agentVars
  <2>2. CASE Stops(d)
    BY <1>11, <2>1, <2>2
  <2>3. CASE Goto(d, "finish")
    <3>1. PICK j : j = [j0 EXCEPT !.step = "finish"]
      OBVIOUS
    <3>2. Goes(d, j) /\ j.step = "finish" /\ j.step \notin Looked
      BY <1>12, <2>3, <3>1
    <3> QED
      BY <1>9, <2>1, <3>2
  <2>4. CASE Goto(d, "adopted") /\ ~Changes(d)
    <3>1. PICK j : j = [j0 EXCEPT !.step = "adopted"]
      OBVIOUS
    <3>2. Goes(d, j) /\ j.step \notin Looked
      BY <1>12, <2>4, <3>1
    <3>3. PICK f, g \in 0..Len(commits) : f = k0.from /\ g = k0.result
      BY <1>3 DEF JournalsTo
    <3>4. Met(f)
      BY <1>4, <1>6, <2>1, <3>3 DEF RebaseSteps, RebaseContent
    <3>5. Merge(Content, TreeOf(f), TreeOf(g)) = Content
      BY <1>2, <2>4, <3>3 DEF Changes
    <3>6. Met(k0.result)
      BY <1>3, <3>3, <3>4, <3>5, MergeMetNow
    <3> QED
      BY <1>9, <2>1, <3>2, <3>6
  <2> QED
    BY <1>20, <2>2, <2>3, <2>4 DEF Integrate
<1>21. CASE Adopted(d)
  <2>1. PICK r : r = [from |-> k0.from, result |-> k0.result]
    OBVIOUS
  <2>2. PICK k : k = [k0 EXCEPT !.state = "adopted"]
    OBVIOUS
  <2>3. /\ rebase' = [rebase EXCEPT ![d] = r] /\ journal' = [journal EXCEPT ![d] = k]
        /\ j0.step = "adopted" /\ UNCHANGED <<mine, integrated, clean, checkpoint>>
        /\ Begins(d, FALSE) \/ Stops(d)
    BY <1>2, <1>21, <2>1, <2>2 DEF Adopted, At, roomVars
  <2>4. k.pending = k0.pending /\ k.seq = k0.seq /\ k.from = k0.from /\ k.result = k0.result
    BY <1>3, <2>2 DEF JournalsTo
  <2>5. k0.state # "none" /\ Met(k0.result) /\ r.result = k0.result
    BY <1>4, <1>6, <2>1, <2>3 DEF RebaseSteps, RebaseContent
  <2>6. PICK j : Goes(d, j) /\ j.step \in {"idle", "resolve"}
    <3>1. CASE Stops(d)
      BY <1>10, <3>1 DEF Stops
    <3>2. CASE Begins(d, FALSE)
      <4>1. PICK j : j = [Idle EXCEPT !.step = "resolve", !.gen = sees[d], !.rebases = FALSE]
        OBVIOUS
      <4>2. j.step = "resolve"
        BY <4>1 DEF Idle
      <4> QED
        BY <3>2, <4>1, <4>2 DEF Begins
    <3> QED
      BY <2>3, <3>1, <3>2
  <2>7. j.step \notin Looked
    BY <2>6 DEF Looked, OnParent
  <2>8. RebaseContent(j, r, k)
    BY <1>4, <2>4, <2>5, <2>6 DEF RebaseContent
  <2> QED
    BY <1>8, <2>3, <2>6, <2>7, <2>8
<1> QED
  BY <1>14, <1>15, <1>16, <1>17, <1>18, <1>19, <1>20, <1>21

\* The steps of a rebase that make its result and that take it into the session,
\* as far as the content goes.
LEMMA RebaseKeepsContent ==
    ASSUME TypeInv, ShapeInv, OrderInv, ContentInv, [BranchNext]_branchVars,
           NEW d \in Device, NEW heard,
           Compute(d, heard) \/ RecoverRow(d, heard) \/ FinishIntegration(d, heard)
    PROVE  ContentInv'
<1>1. PICK j0, r0, k0, m0, i0, c0, st : /\ j0 = job[d] /\ r0 = rebase[d] /\ k0 = journal[d] /\ m0 = mine[d]
                                        /\ i0 = integrated[d] /\ c0 = clean[d] /\ st = staged[d]
  OBVIOUS
<1>2. /\ j0 \in JobsTo(Len(commits), Seq0, generation) /\ r0 \in RebasesTo(Len(commits))
      /\ k0 \in JournalsTo(Len(commits), Seq0) /\ m0 \in CheckpointsTo(Len(commits), Seq0)
      /\ i0 \in 0..Len(commits) /\ c0 \in 0..Seq0 /\ st \in 0..Len(commits) /\ HistoryTypes
  BY <1>1, DevicesOfTypes
<1>3. /\ RebaseContent(j0, r0, k0) /\ AgentContent(m0, i0, c0)
      /\ m0.commit # 0 => Met(m0.commit)
  BY <1>1, CheckpointContent DEF AgentContent
<1>4. /\ rebase = [rebase EXCEPT ![d] = r0] /\ journal = [journal EXCEPT ![d] = k0]
      /\ mine = [mine EXCEPT ![d] = m0]
      /\ integrated = [integrated EXCEPT ![d] = i0] /\ clean = [clean EXCEPT ![d] = c0]
  BY <1>1, AsItIs
<1>5. JournalShape(k0, st) /\ RebaseSteps(j0, r0, k0, st)
  BY <1>1 DEF ShapeInv, Shape
<1>6. UNCHANGED <<rebase, mine, integrated, clean, checkpoint>>
  BY DEF Compute, RecoverRow, FinishIntegration, TakesIn, agentVars, roomVars
<1>7. AgentContent(m0, i0, c0)'
  BY <1>2, <1>3, RecordsLift
<1>8. ASSUME NEW j, j.step # "adopted" PROVE RebaseContent(j, r0, k0)'
  <2>1. RebaseContent(j, r0, k0)
    BY <1>3, <1>8, IdleContent
  <2> QED
    BY <1>2, <2>1, RecordsLift
<1>9. ASSUME NEW j, Goes(d, j), j.step \notin Looked, NEW k, journal' = [journal EXCEPT ![d] = k],
             RebaseContent(j, r0, k)', RoomContent(checkpoint, taken)'
      PROVE  ContentInv'
  <2>1. Becomes(d, j, r0, k, m0, i0, c0)
    BY <1>4, <1>6, <1>9 DEF Becomes, Goes
  <2>2. JobContent(j)'
    BY <1>9 DEF JobContent, Looked, OnParent
  <2>3. DeviceContent(j, r0, k, m0, i0, c0)'
    BY <1>7, <1>9, <2>2 DEF DeviceContent
  <2> QED
    BY <1>9, <2>1, <2>3, ContentMoves
<1>10. Idle.step = "idle" /\ "idle" \notin Looked
  BY IdleContent DEF Looked, OnParent
<1>11. ASSUME Met(k0.from), NEW r \in {st, k0.result}, TakesIn(d, r)
       PROVE  Met(r)' /\ RoomContent(checkpoint, taken)'
  <2>1. PICK f, g \in 0..Len(commits) : f = k0.from /\ g = r
    BY <1>2 DEF JournalsTo
  <2>2. log' = Append(log, Merge(Content, TreeOf(f), TreeOf(g)))
    BY <1>1, <1>11, <2>1 DEF TakesIn
  <2>3. Met(f)
    BY <1>11, <2>1
  <2>4. Met(g)'
    BY <2>2, <2>3, MergeMetNext
  <2>5. PICK c, T : c = checkpoint /\ T = taken
    OBVIOUS
  <2>6. c \in CheckpointsTo(Len(commits), Seq0) /\ T \in SUBSET (0..Len(commits)) /\ RoomContent(c, T)
    BY <2>5, DevicesOfTypes, CheckpointContent DEF TypeInv, RoomTypes
  <2>7. RoomContent(c, T)'
    BY <2>6, RecordsLift
  <2>8. RoomContent(c, T \cup {g})'
    BY <2>4, <2>7 DEF RoomContent
  <2>9. checkpoint' = c /\ taken' = T \cup {g}
    BY <1>11, <2>1, <2>5 DEF TakesIn
  <2> QED
    BY <2>1, <2>4, <2>8, <2>9 DEF RoomContent, HonestMark
<1>12. CASE Compute(d, heard)
  <2>1. RoomContent(checkpoint, taken)'
    BY <1>12, RoomLifts DEF Compute, roomVars
  <2>2. PICK j : Goes(d, j) /\ j.step \in {"idle", "begin"}
    <3>1. [j0 EXCEPT !.step = "begin"].step = "begin"
      BY <1>2 DEF JobsTo
    <3> QED
      BY <1>1, <1>10, <1>12, <3>1 DEF Compute, Stops, Goto
  <2>3. j.step \notin Looked
    BY <2>2 DEF Looked, OnParent
  <2>4. RebaseContent(j, r0, k0)'
    BY <1>8, <2>2
  <2>5. CASE UNCHANGED journal
    BY <1>4, <1>9, <2>1, <2>2, <2>3, <2>4, <2>5
  <2>6. CASE ~UNCHANGED journal
    <3>1. PICK f \in 0..Len(commits) : f = m0.commit
      BY <1>2 DEF CheckpointsTo
    <3>2. PICK k : k = [state |-> "computed", from |-> f, result |-> Len(commits) + 1,
                        pending |-> NoCommit, seq |-> 0]
      OBVIOUS
    <3>3. journal' = [journal EXCEPT ![d] = k]
      BY <1>1, <1>12, <2>6, <3>1, <3>2 DEF Compute
    <3>4. Met(f)
      BY <1>3, <3>1, CheckpointContent
    <3>5. Met(f)'
      BY <3>4, ContentLifts
    <3>6. k.pending = NoCommit /\ k.from = f
      BY <3>2
    <3>7. RebaseContent(j, r0, k)'
      BY <2>2, <2>4, <3>5, <3>6 DEF RebaseContent
    <3> QED
      BY <1>9, <2>1, <2>2, <2>3, <3>3, <3>7
  <2> QED
    BY <2>5, <2>6
<1>13. CASE RecoverRow(d, heard)
  <2>1. PICK j : Goes(d, j) /\ j.step \in {"idle", "receipt"}
    <3>1. \A b : [j0 EXCEPT !.step = "receipt", !.recovered = b].step = "receipt"
      BY <1>2 DEF JobsTo
    <3>2. [j0 EXCEPT !.step = "receipt"].step = "receipt"
      BY <1>2 DEF JobsTo
    <3>3. CASE Stops(d)
      BY <1>10, <3>3 DEF Stops
    <3>4. CASE Goto(d, "receipt")
      BY <1>1, <3>2, <3>4 DEF Goto
    <3>5. ASSUME NEW b, Goes(d, [job[d] EXCEPT !.step = "receipt", !.recovered = b])
          PROVE  \E j : Goes(d, j) /\ j.step \in {"idle", "receipt"}
      BY <1>1, <3>1, <3>5
    <3> QED
      BY <1>13, <3>3, <3>4, <3>5 DEF RecoverRow
  <2>2. j.step \notin Looked /\ UNCHANGED journal
    BY <1>13, <2>1 DEF Looked, OnParent, RecoverRow
  <2>3. RebaseContent(j, r0, k0)'
    BY <1>8, <2>1
  <2>4. RoomContent(checkpoint, taken)'
    <3>1. CASE UNCHANGED taken
      BY <1>6, <3>1, RoomLifts
    <3>2. CASE ~UNCHANGED taken
      <4>1. staged[d] # 0 /\ TakesIn(d, staged[d])
        BY <1>13, <3>2 DEF RecoverRow, roomVars
      <4>2. k0.state # "none" /\ st # 0 /\ TakesIn(d, st)
        BY <1>1, <1>5, <4>1 DEF JournalShape, UnderWay
      <4>3. Met(k0.from)
        BY <1>3, <4>2 DEF RebaseContent
      <4> QED
        BY <1>11, <4>2, <4>3
    <3> QED
      BY <3>1, <3>2
  <2> QED
    BY <1>4, <1>9, <2>1, <2>2, <2>3, <2>4
<1>14. CASE FinishIntegration(d, heard)
  <2>1. PICK j : Goes(d, j) /\ j.step \in {"idle", "adopted"}
    <3>1. [j0 EXCEPT !.step = "adopted"].step = "adopted"
      BY <1>2 DEF JobsTo
    <3> QED
      BY <1>1, <1>10, <1>14, <3>1 DEF FinishIntegration, Stops, Goto
  <2>2. j.step \notin Looked /\ UNCHANGED journal /\ j0.step = "finish" /\ TakesIn(d, k0.result)
    BY <1>1, <1>14, <2>1 DEF Looked, OnParent, FinishIntegration, diskVars, At
  <2>3. Met(k0.from)
    BY <1>3, <1>5, <2>2 DEF RebaseSteps, RebaseContent
  <2>4. Met(k0.result)' /\ RoomContent(checkpoint, taken)'
    BY <1>11, <2>2, <2>3
  <2>5. RebaseContent(Idle, r0, k0)'
    BY <1>8, <1>10
  <2>6. RebaseContent(j, r0, k0)'
    BY <2>4, <2>5 DEF RebaseContent
  <2> QED
    BY <1>4, <1>9, <2>1, <2>2, <2>4, <2>6
<1> QED
  BY <1>12, <1>13, <1>14

\* What the branch, the room and the devices hold of the session stays so.
LEMMA ContentStep ==
    ASSUME TypeInv, ShapeInv, MergeInv, OrderInv, ContentInv, [BranchNext]_branchVars
    PROVE  ContentInv'
<1>1. CASE UNCHANGED branchVars \/ ExpireWindow \/ \E i \in Item : Edit(i) \/ PushOutside(i)
  BY <1>1, ContentStands DEF branchVars, roomVars, agentVars, diskVars, ExpireWindow, Edit, PushOutside
<1>2. ASSUME NEW d \in Device, Handover(d) \/ Hear(d) \/ StartSave(d) \/ PollRemote(d) \/ Asks(d)
                               \/ CallLost(d) \/ Restart(d)
      PROVE  ContentInv'
  BY <1>2, BeginningKeepsContent
<1>3. ASSUME NEW d \in Device, Works(d) PROVE ContentInv'
  BY <1>3, ResolveKeepsContent, MergeKeepsContent, SaveKeepsContent, AdoptionKeepsContent DEF Works
<1>4. ASSUME NEW d \in Device, NEW heard, Calls(d, heard) \/ Compute(d, heard) PROVE ContentInv'
  BY <1>4, PushKeepsContent, SaveKeepsContent, AdoptionKeepsContent, RebaseKeepsContent DEF Calls
<1> QED
  BY <1>1, <1>2, <1>3, <1>4 DEF BranchNext, Proceeds, Fails

\* The content invariant holds in every reachable state.
LEMMA ContentAlways == BranchSpec => [](TypeInv /\ ShapeInv /\ MergeInv /\ OrderInv /\ ContentInv)
<1>1. BranchInit => ContentInv
  <2> SUFFICES ASSUME BranchInit PROVE ContentInv
    OBVIOUS
  <2>1. /\ Seq0 = 0 /\ ContentAt(0) = {} /\ TreeOf(1) = {} /\ TreeOf(0) = {}
        /\ Len(commits) = 1 /\ commits[1].kind = "base"
    BY DEF BranchInit, Seq0, ContentAt, TreeOf
  <2>2. HistoryContent
    BY <2>1 DEF HistoryContent
  <2>3. KeptOnBranch({}) /\ Met(0)
    BY <2>1 DEF KeptOnBranch, Met, MetBy
  <2>4. RoomContent(checkpoint, taken) /\ NoCheckpoint.commit = 0
    BY <2>1, <2>3 DEF BranchInit, RoomContent, HonestMark, NoCheckpoint
  <2>5. NoJournal.pending = NoCommit /\ NoJournal.state = "none"
    BY DEF NoJournal
  <2>6. DeviceContent(Idle, NoRebase, NoJournal, NoCheckpoint, 0, 0)
    BY <2>1, <2>3, <2>4, <2>5, IdleContent DEF DeviceContent, RebaseContent, AgentContent, HonestMark
  <2>7. \A d \in Device : /\ job[d] = Idle /\ rebase[d] = NoRebase /\ journal[d] = NoJournal
                          /\ mine[d] = NoCheckpoint /\ integrated[d] = 0 /\ clean[d] = 0
    BY DEF BranchInit
  <2> QED
    BY <2>2, <2>4, <2>6, <2>7 DEF ContentInv
<1>2. TypeInv /\ ShapeInv /\ MergeInv /\ OrderInv /\ ContentInv /\ [BranchNext]_branchVars => ContentInv'
  BY ContentStep
<1> QED
  BY <1>1, <1>2, MergesAlways, OrderAlways, PTL DEF BranchSpec

\* What the room shows as saved is the session as it was at the sequence number it
\* shows: for any devices, edits, rebases, lost calls and restarts.
THEOREM MarksAreHonest == BranchSpec => []MarkIsHonest
<1>1. ContentInv => MarkIsHonest
  BY DEF ContentInv, RoomContent, HonestMark, Saves, MarkIsHonest
<1> QED
  BY <1>1, ContentAlways, PTL

\* What a device counts as saved is on the branch, but for what members took out.
THEOREM SavedStaysOnTheBranch == BranchSpec => []SavedIsOnTheBranch
<1>1. ContentInv => SavedIsOnTheBranch
  BY DEF ContentInv, DeviceContent, AgentContent, KeptOnBranch, SavedIsOnTheBranch
<1> QED
  BY <1>1, ContentAlways, PTL

\* No push takes work off the branch that no member took out of the session.
THEOREM PushesKeepWork == BranchSpec => BranchKeepsWork
<1> DEFINE Keeps == TreeOf(remote) \ (TreeOf(remote))' \subseteq Removed'
<1>1. TypeInv /\ ShapeInv /\ OrderInv /\ ContentInv /\ [BranchNext]_branchVars => [Keeps]_branchVars
  BY BranchKeeps
<1> QED
  BY <1>1, ContentAlways, PTL DEF BranchSpec, BranchKeepsWork

(***************************************************************************)
(* The checkpoint is on the branch, or a rebase has just replaced it       *)
(***************************************************************************)
\* The branch only moves to later commits.
LEMMA RemoteGrows ==
    ASSUME TypeInv, ShapeInv, [BranchNext]_branchVars
    PROVE  remote \in Nat /\ remote' \in Nat /\ remote <= remote'
<1>1. remote \in 0..Len(commits) /\ remote \in Nat /\ Len(commits) \in Nat /\ HistoryTypes
  BY DevicesOfTypes, HistoryTypesUnfold
<1>2. PICK R : R = Len(commits) + 1
  OBVIOUS
<1>3. R \in Nat /\ remote <= R
  BY <1>1, <1>2
<1>4. ASSUME NEW i \in Item, PushOutside(i) PROVE remote' \in Nat /\ remote <= remote'
  BY <1>2, <1>3, <1>4 DEF PushOutside
<1>5. ASSUME NEW d \in Device, NEW heard, Push(d, heard) PROVE remote' \in Nat /\ remote <= remote'
  <2>1. job[d].out \in Nat /\ (job[d].out # 0 => remote <= job[d].out)
    BY <1>5, RecordsOfTypes, PushGoesForward DEF Push
  <2>2. remote' = IF job[d].out # 0 THEN job[d].out ELSE R
    BY <1>2, <1>5 DEF Push
  <2>3. PICK id : id = IF job[d].out # 0 THEN job[d].out ELSE R
    OBVIOUS
  <2>4. id \in Nat /\ remote <= id
    BY <1>3, <2>1, <2>3
  <2> QED
    BY <2>2, <2>3, <2>4
<1> QED
  BY <1>1, <1>4, <1>5, RemoteMoves

\* A commit keeps its ancestors, and what is recorded of it.
LEMMA CommitsStay ==
    ASSUME TypeInv, [BranchNext]_branchVars
    PROVE  /\ \A c \in 0..Len(commits) : Ancestors(c)' = Ancestors(c)
           /\ \A c \in 1..Len(commits) : commits'[c] = commits[c]
           /\ Len(commits) \in Nat /\ Len(commits') \in Nat /\ Len(commits) <= Len(commits')
           /\ HistoryTypes /\ HistoryTypes'
<1>1. /\ HistoryTypes /\ HistoryTypes' /\ Extends(commits, commits') /\ commits \in History /\ commits' \in History
  BY DevicesOfTypes, StepGrows DEF HistoryTypes
<1>2. PICK cs \in History : cs = commits'
  BY <1>1
<1>3. \A c \in 0..Len(commits) : Line(cs, c) = Line(commits, c)
  BY <1>1, <1>2, LineStays
<1>4. \A c : Ancestors(c)' = Line(cs, c) /\ Ancestors(c) = Line(commits, c)
  BY <1>2 DEF Ancestors, Line
<1> QED
  BY <1>1, <1>3, <1>4, HistoryStays

\* A commit that a push adds has its parent's ancestors.
LEMMA AddedCommit ==
    ASSUME TypeInv, [BranchNext]_branchVars, NEW c \in Commits, c.parent \in 0..Len(commits),
           commits' = Append(commits, c), NEW id, id = Len(commits) + 1
    PROVE  /\ Ancestors(id)' = {id} \cup Ancestors(c.parent)
           /\ c.parent < id /\ commits'[id] = c
<1>1. HistoryTypes /\ HistoryTypes' /\ Len(commits) \in Nat /\ commits \in Seq(Commits)
  BY CommitsStay, HistoryTypesUnfold
<1>2. PICK cs \in History : cs = commits'
  BY <1>1 DEF HistoryTypes
<1>3. Len(cs) = Len(commits) + 1 /\ cs[id] = c
  BY <1>1, <1>2, Appended
<1>4. id \in 1..Len(cs)
  BY <1>1, <1>3
<1>5. Line(cs, id) = {id} \cup Line(cs, c.parent)
  BY <1>3, <1>4, HistoryFacts
<1>6. \A n : Ancestors(n)' = Line(cs, n)
  BY <1>2 DEF Ancestors, Line
<1>7. Ancestors(c.parent)' = Ancestors(c.parent)
  BY CommitsStay
<1>8. PICK p : p = c.parent
  OBVIOUS
<1>9. Ancestors(p)' = Ancestors(p)
  BY <1>8, CommitsStay
<1>10. Ancestors(id)' = {id} \cup Ancestors(p)
  BY <1>5, <1>6, <1>8, <1>9
<1> QED
  BY <1>1, <1>2, <1>3, <1>8, <1>10

\* Where a push takes the branch: on top of what the save built on, and of the
\* branch as it was unless a rebase replaces it.
LEMMA PushedLine ==
    ASSUME TypeInv, ShapeInv, [BranchNext]_branchVars, NEW d \in Device, NEW heard, Push(d, heard)
    PROVE  \E id \in Nat :
              /\ remote' = id /\ id \in Ancestors(id)' /\ job[d].parent <= id
              /\ job[d].parent \in Ancestors(id)'
              /\ rebase[d] = NoRebase => Ancestors(remote) \subseteq Ancestors(id)'
              /\ id = IF job[d].out # 0 THEN job[d].out ELSE Len(commits) + 1
<1>1. PICK p, o : p = job[d].parent /\ o = job[d].out
  OBVIOUS
<1>2. /\ p \in 0..Len(commits) /\ p \in Nat /\ o \in 0..Len(commits) /\ o \in Nat /\ HistoryTypes
      /\ Len(commits) \in Nat
  BY <1>1, RecordsOfTypes, DevicesOfTypes DEF JobsTo
<1>3. o \in {0, p} /\ p # 0
  <2>1. Shape(job[d], rebase[d], journal[d], staged[d]) /\ job[d].step = "push"
    BY DEF ShapeInv, Push, At
  <2> QED
    BY <1>1, <2>1 DEF Shape, SaveShape, OnParent
<1>4. p \in 1..Len(commits) /\ p \in Ancestors(p)
  BY <1>2, <1>3, AncestorsFacts
<1>5. rebase[d] = NoRebase => Ancestors(remote) \subseteq Ancestors(p)
  <2>1. rebase[d] = NoRebase => remote = 0 \/ remote \in Ancestors(p)
    BY <1>1, <1>3 DEF Push, Takes
  <2> QED
    BY <1>2, <2>1, AncestorsFacts
<1>6. CASE o # 0
  <2>1. remote' = p
    BY <1>1, <1>3, <1>6 DEF Push
  <2>2. Ancestors(p)' = Ancestors(p)
    BY <1>2, CommitsStay
  <2> QED
    BY <1>1, <1>2, <1>3, <1>4, <1>5, <1>6, <2>1, <2>2
<1>7. CASE o = 0
  <2>1. PICK c : c = Built(d)
    OBVIOUS
  <2>2. PICK id \in Nat : id = Len(commits) + 1
    BY <1>2
  <2>3. commits' = Append(commits, c) /\ remote' = id /\ c.parent = p /\ c \in Commits
    BY <1>1, <1>7, <2>1, <2>2, BuiltIsCommit DEF Push, Built, NewCommit
  <2>4. Ancestors(id)' = {id} \cup Ancestors(p) /\ p < id
    BY <1>2, <2>2, <2>3, AddedCommit
  <2> QED
    BY <1>1, <1>2, <1>4, <1>5, <1>7, <2>2, <2>3, <2>4
<1> QED
  BY <1>6, <1>7

\* A commit from outside is on top of the branch.
LEMMA OutsideLine ==
    ASSUME TypeInv, [BranchNext]_branchVars, NEW i \in Item, PushOutside(i)
    PROVE  \E id \in Nat : remote' = id /\ Ancestors(remote) \subseteq Ancestors(id)'
<1>1. remote \in 0..Len(commits) /\ remote \in Nat /\ Len(commits) \in Nat /\ HistoryTypes
  BY DevicesOfTypes, HistoryTypesUnfold
<1>2. PICK c : c = [parent |-> remote, kind |-> "outside", seq |-> 0, tree |-> TreeOf(remote) \cup {i}]
  OBVIOUS
<1>3. PICK id \in Nat : id = Len(commits) + 1
  BY <1>1
<1>4. commits' = Append(commits, c) /\ remote' = id
  BY <1>2, <1>3 DEF PushOutside
<1>5. c \in Commits /\ c.parent = remote
  <2>1. TreeOf(remote) \in SUBSET Item
    BY <1>1, HistoryTypesUnfold
  <2> QED
    BY <1>1, <1>2, <2>1 DEF Commits
<1>6. Ancestors(id)' = {id} \cup Ancestors(remote)
  BY <1>1, <1>3, <1>4, <1>5, AddedCommit
<1> QED
  BY <1>4, <1>6

Claiming == {"integrate", "finish", "adopted"}

\* A journal that tells the same of its rebase.
SameRebase(k, o) ==
    /\ k.from = o.from /\ k.result = o.result /\ k.pending = o.pending
    /\ k.state # "none" => o.state # "none"

\* What a step gives to a device, as far as the branch goes: nothing of a save or
\* an adoption, ...
Quiet(d, j, r, k) ==
    /\ j.step \notin Looked \cup Claiming
    /\ r \in {rebase[d], NoRebase} /\ SameRebase(k, journal[d])

\* ... an adoption that the room has admitted, ...
Claims(d, j, r, k) ==
    /\ j.step \notin Looked /\ SameRebase(k, journal[d])
    /\ job[d].step \in Claiming \/ \E heard : Adopt(d, heard) /\ Goto(d, AfterAdoption(d))

\* ... a rebase, ...
Computed(d) ==
    [state |-> "computed", from |-> mine[d].commit, result |-> Len(commits) + 1,
     pending |-> NoCommit, seq |-> 0]
Computes(d, j, r, k) ==
    /\ \E conflicts : Compute(d, conflicts)
    /\ j.step \notin Looked \cup Claiming /\ r = NoRebase
    /\ SameRebase(k, journal[d]) \/ (k = Computed(d) /\ commits' # commits)

\* ... or the next step of a save.
Fenced(d) == [journal[d] EXCEPT !.pending = Built(d), !.seq = job[d].seq]
GoesOn(d, j) == job[d].step \in Looked /\ j.head = job[d].head /\ j.gen = job[d].gen
SavesOn(d, j, r, k) ==
    /\ j.step \in Looked /\ r = rebase[d]
    /\ SameRebase(k, journal[d]) \/ (k = Fenced(d) /\ r # NoRebase /\ job[d].step = "fence")
    /\ \/ j.head = remote /\ j.step # "publish" /\ (j.step = "recover" => j.out = remote)
       \/ GoesOn(d, j) /\ j.step \notin {"recover", "publish"}
       \/ GoesOn(d, j) /\ j.step = "publish" /\ r = NoRebase /\ j.head # 0 /\ j.out = j.head
       \/ GoesOn(d, j) /\ j.step = "publish" /\ remote' = j.out /\ \E heard : Push(d, heard)

Did(d, j, r, k) == Quiet(d, j, r, k) \/ Claims(d, j, r, k) \/ Computes(d, j, r, k) \/ SavesOn(d, j, r, k)

Turns(d, j, r, k) ==
    /\ job' = [job EXCEPT ![d] = j]
    /\ rebase' = [rebase EXCEPT ![d] = r]
    /\ journal' = [journal EXCEPT ![d] = k]

\* The names of steps that are neither of a save nor of an adoption.
LEMMA QuietSteps ==
    /\ "idle" \notin Looked \cup Claiming /\ "resolve" \notin Looked \cup Claiming
    /\ "row" \notin Looked \cup Claiming /\ "receipt" \notin Looked \cup Claiming
    /\ "begin" \notin Looked \cup Claiming /\ "adopt" \notin Looked \cup Claiming
    /\ "compute" \notin Looked \cup Claiming
    /\ \A step \in Claiming : step \notin Looked
    /\ Idle.step = "idle"
    /\ \A k : SameRebase(k, k)
  BY DEF Looked, OnParent, Claiming, Idle, SameRebase

\* What resolveParent gives to the job of a device.
LEMMA ResolveDoes ==
    ASSUME TypeInv, NEW d \in Device,
           ResolveRebase(d) \/ ResolveUnmoved(d) \/ ResolveOwn(d) \/ ResolveOutside(d)
    PROVE  \E j, r, k : Turns(d, j, r, k) /\ Did(d, j, r, k)
<1> DEFINE j0 == job[d]
           r0 == rebase[d]
           k0 == journal[d]
<1>1. j0 \in JobsTo(Len(commits), Seq0, generation) /\ k0 \in JournalsTo(Len(commits), Seq0)
  BY RecordsOfTypes
<1>2. /\ rebase = [rebase EXCEPT ![d] = r0] /\ journal = [journal EXCEPT ![d] = k0]
  BY Unmoved
<1>3. UNCHANGED journal
  BY DEF ResolveRebase, ResolveUnmoved, ResolveOwn, ResolveOutside, Looks, diskVars
<1> HIDE DEF j0, r0, k0
<1>4. ASSUME NEW j, Goes(d, j), UNCHANGED rebase, j.step \in {"merge", "capture", "recover"},
             j.head = remote, j.step = "recover" => j.out = remote
      PROVE  \E jj, r, k : Turns(d, jj, r, k) /\ Did(d, jj, r, k)
  <2>1. Turns(d, j, r0, k0)
    BY <1>2, <1>3, <1>4 DEF Goes, Turns
  <2>2. Did(d, j, r0, k0)
    BY <1>4, QuietSteps DEF Did, SavesOn, Looked, OnParent, r0, k0
  <2> QED
    BY <2>1, <2>2
<1>5. ASSUME Stops(d) PROVE \E jj, r, k : Turns(d, jj, r, k) /\ Did(d, jj, r, k)
  <2>1. PICK r \in {r0, NoRebase} : rebase' = [rebase EXCEPT ![d] = r]
    BY <1>2 DEF ResolveRebase, ResolveUnmoved, ResolveOwn, ResolveOutside
  <2>2. Turns(d, Idle, r, k0)
    BY <1>2, <1>3, <1>5, <2>1 DEF Stops, Goes, Turns
  <2>3. Did(d, Idle, r, k0)
    BY QuietSteps DEF Did, Quiet, r0, k0
  <2> QED
    BY <2>2, <2>3
<1>6. ASSUME NEW p, NEW step \in {"capture", "merge"}, BuildsOn(d, p, step), UNCHANGED rebase
      PROVE  \E jj, r, k : Turns(d, jj, r, k) /\ Did(d, jj, r, k)
  <2>1. PICK j : j = [j0 EXCEPT !.step = step, !.parent = p, !.head = remote]
    OBVIOUS
  <2>2. Goes(d, j)
    BY <1>6, <2>1 DEF BuildsOn, j0
  <2>3. j.step = step /\ j.head = remote
    BY <1>1, <2>1 DEF JobsTo
  <2> QED
    BY <1>4, <1>6, <2>2, <2>3
<1>7. CASE ResolveOwn(d)
  <2>1. PICK j : j = [j0 EXCEPT !.step = "recover", !.parent = remote, !.head = remote,
                                !.out = remote, !.seq = commits[remote].seq]
    OBVIOUS
  <2>2. Goes(d, j) /\ UNCHANGED rebase
    BY <1>7, <2>1 DEF ResolveOwn, j0
  <2>3. j.step = "recover" /\ j.head = remote /\ j.out = remote
    BY <1>1, <2>1 DEF JobsTo
  <2> QED
    BY <1>4, <2>2, <2>3
<1>8. CASE ResolveRebase(d)
  BY <1>5, <1>6, <1>8 DEF ResolveRebase
<1>9. CASE ResolveUnmoved(d) \/ ResolveOutside(d)
  BY <1>5, <1>6, <1>9 DEF ResolveUnmoved, ResolveOutside
<1> QED
  BY <1>7, <1>8, <1>9

\* What the other steps of a save give to the job and the journal of a device.
LEMMA SaveDoes ==
    ASSUME TypeInv, ShapeInv, NEW d \in Device, NEW heard,
           \/ MergeOutside(d) \/ Capture(d) \/ CaptureRefused(d) \/ Fence(d) \/ FenceRefused(d)
           \/ Push(d, heard) \/ PushRejected(d) \/ Publish(d, heard) \/ PublishRefused(d)
           \/ Mark(d, heard) \/ MarkRefused(d)
    PROVE  \E j, r, k : Turns(d, j, r, k) /\ Did(d, j, r, k)
<1> DEFINE j0 == job[d]
           r0 == rebase[d]
           k0 == journal[d]
           Done == \E j, r, k : Turns(d, j, r, k) /\ Did(d, j, r, k)
<1>1. j0 \in JobsTo(Len(commits), Seq0, generation) /\ k0 \in JournalsTo(Len(commits), Seq0)
  BY RecordsOfTypes
<1>2. /\ rebase = [rebase EXCEPT ![d] = r0] /\ journal = [journal EXCEPT ![d] = k0]
  BY Unmoved
<1>3. SaveShape(j0, r0)
  BY DEF ShapeInv, Shape
<1> HIDE DEF j0, r0, k0
<1>4. ASSUME NEW j, Goes(d, j), UNCHANGED <<rebase, journal>>, Did(d, j, r0, k0) PROVE Done
  BY <1>2, <1>4 DEF Goes, Turns
<1>5. ASSUME Stops(d), UNCHANGED <<rebase, journal>> PROVE Done
  <2>1. Did(d, Idle, r0, k0)
    BY QuietSteps DEF Did, Quiet, r0, k0
  <2> QED
    BY <1>4, <1>5, <2>1 DEF Stops
<1>6. ASSUME NEW j, Goes(d, j), UNCHANGED <<rebase, journal>>, GoesOn(d, j),
             j.step \in Looked \ {"recover", "publish"}
      PROVE  Done
  <2>1. Did(d, j, r0, k0)
    BY <1>6, QuietSteps DEF Did, SavesOn, r0, k0
  <2> QED
    BY <1>4, <1>6, <2>1
<1>7. \A step \in Looked : step \in {"recover", "merge", "capture", "fence", "push", "publish", "mark"}
  BY DEF Looked, OnParent
<1>8. CASE \/ CaptureRefused(d) \/ FenceRefused(d) \/ PushRejected(d) \/ PublishRefused(d) \/ MarkRefused(d)
  BY <1>5, <1>8 DEF CaptureRefused, FenceRefused, PushRejected, PublishRefused, MarkRefused, Barred, Deposed,
                    agentVars, diskVars
<1>9. CASE MergeOutside(d)
  <2>1. PICK j : j = [j0 EXCEPT !.step = "capture", !.parent = j0.head]
    OBVIOUS
  <2>2. Goes(d, j) /\ UNCHANGED <<rebase, journal>> /\ j0.step = "merge"
    BY <1>9, <2>1 DEF MergeOutside, Integrates, At, diskVars, j0
  <2>3. j.step = "capture" /\ j.head = j0.head /\ j.gen = j0.gen
    BY <1>1, <2>1 DEF JobsTo
  <2> QED
    BY <1>6, <2>2, <2>3 DEF GoesOn, Looked, OnParent, j0
<1>10. CASE Capture(d)
  <2>1. PICK j : j = AfterCapture(d)
    OBVIOUS
  <2>2. Goes(d, j) /\ UNCHANGED <<rebase, journal>> /\ j0.step = "capture"
    BY <1>10, <2>1 DEF Capture, At, agentVars, diskVars, j0
  <2>3. /\ j.head = j0.head /\ j.gen = j0.gen
        /\ \/ j.step \in {"fence", "mark"}
           \/ j.step = "publish" /\ j.out = j0.parent /\ r0 = NoRebase /\ j0.head # 0
    <3>1. CASE Content # TreeOf(j0.parent)
      BY <1>1, <2>1, <3>1 DEF AfterCapture, JobsTo, j0, r0
    <3>2. CASE Content = TreeOf(j0.parent) /\ (r0 # NoRebase \/ j0.head = 0)
      BY <1>1, <2>1, <3>2 DEF AfterCapture, JobsTo, j0, r0
    <3>3. CASE Content = TreeOf(j0.parent) /\ r0 = NoRebase /\ j0.head # 0 /\ j0.parent # mine[d].commit
      BY <1>1, <2>1, <3>3 DEF AfterCapture, JobsTo, j0, r0
    <3>4. CASE Content = TreeOf(j0.parent) /\ r0 = NoRebase /\ j0.head # 0 /\ j0.parent = mine[d].commit
      BY <1>1, <2>1, <3>4 DEF AfterCapture, JobsTo, j0, r0
    <3> QED
      BY <3>1, <3>2, <3>3, <3>4
  <2>4. GoesOn(d, j)
    BY <2>2, <2>3 DEF GoesOn, Looked, OnParent, j0
  <2>5. CASE j.step \in {"fence", "mark"}
    BY <1>6, <2>2, <2>4, <2>5 DEF Looked, OnParent
  <2>6. CASE j.step = "publish" /\ j.out = j0.parent /\ r0 = NoRebase /\ j0.head # 0
    <3>1. j0.parent = j0.head
      BY <1>3, <2>2, <2>6 DEF SaveShape, OnParent
    <3>2. Did(d, j, r0, k0)
      BY <2>3, <2>4, <2>6, <3>1, QuietSteps DEF Did, SavesOn, Looked, OnParent, r0, k0
    <3> QED
      BY <1>4, <2>2, <3>2
  <2> QED
    BY <2>3, <2>5, <2>6
<1>11. CASE Fence(d)
  <2>1. PICK j : j = [j0 EXCEPT !.step = "push"]
    OBVIOUS
  <2>2. Goes(d, j) /\ UNCHANGED rebase /\ j0.step = "fence"
    BY <1>11, <2>1 DEF Fence, Goto, At, agentVars, j0
  <2>3. j.step = "push" /\ j.head = j0.head /\ j.gen = j0.gen
    BY <1>1, <2>1 DEF JobsTo
  <2>4. GoesOn(d, j)
    BY <2>2, <2>3 DEF GoesOn, Looked, OnParent, j0
  <2>5. CASE r0 = NoRebase
    BY <1>6, <1>11, <2>2, <2>3, <2>4, <2>5 DEF Fence, Looked, OnParent, r0
  <2>6. CASE r0 # NoRebase
    <3>1. PICK k : k = Fenced(d)
      OBVIOUS
    <3>2. journal' = [journal EXCEPT ![d] = k]
      BY <1>11, <2>6, <3>1 DEF Fence, Fenced, r0
    <3>3. Turns(d, j, r0, k)
      BY <1>2, <2>2, <3>2 DEF Turns, Goes
    <3>4. Did(d, j, r0, k)
      BY <2>2, <2>3, <2>4, <2>6, <3>1 DEF Did, SavesOn, Looked, OnParent, r0, j0
    <3> QED
      BY <3>3, <3>4
  <2> QED
    BY <2>5, <2>6
<1>12. CASE Push(d, heard)
  <2>1. PICK id : id = IF job[d].out # 0 THEN job[d].out ELSE Len(commits) + 1
    OBVIOUS
  <2>2. PICK j : j = [j0 EXCEPT !.step = "publish", !.out = id]
    OBVIOUS
  <2>3. /\ UNCHANGED <<rebase, journal>> /\ j0.step = "push" /\ remote' = id
        /\ Goes(d, j) \/ Stops(d)
    BY <1>12, <2>1, <2>2 DEF Push, At, agentVars, diskVars, j0
  <2>4. j.step = "publish" /\ j.head = j0.head /\ j.gen = j0.gen /\ j.out = id
    BY <1>1, <2>2 DEF JobsTo
  <2>5. GoesOn(d, j)
    BY <2>3, <2>4 DEF GoesOn, Looked, OnParent, j0
  <2>6. Did(d, j, r0, k0)
    BY <1>12, <2>3, <2>4, <2>5, QuietSteps DEF Did, SavesOn, Looked, OnParent, r0, k0
  <2> QED
    BY <1>4, <1>5, <2>3, <2>6
<1>13. CASE Mark(d, heard)
  <2>1. UNCHANGED <<rebase, journal>> /\ (Stops(d) \/ Goto(d, "compute"))
    BY <1>13 DEF Mark, Saved, diskVars
  <2>2. PICK j : j = [j0 EXCEPT !.step = "compute"]
    OBVIOUS
  <2>3. j.step = "compute" /\ (Goto(d, "compute") => Goes(d, j))
    BY <1>1, <2>2 DEF JobsTo, Goto, j0
  <2>4. Did(d, j, r0, k0)
    BY <2>3, QuietSteps DEF Did, Quiet, r0, k0
  <2> QED
    BY <1>4, <1>5, <2>1, <2>3, <2>4
<1>14. CASE Publish(d, heard)
  <2>1. PICK k \in {k0, [k0 EXCEPT !.state = "applied"]}, r \in {r0, NoRebase} :
           /\ rebase' = [rebase EXCEPT ![d] = r] /\ journal' = [journal EXCEPT ![d] = k]
           /\ k # k0 => r0 # NoRebase
           /\ r0 = NoRebase => r = NoRebase
    <3>1. CASE UNCHANGED <<rebase, journal>>
      BY <1>2, <3>1
    <3>2. CASE /\ rebase[d] # NoRebase /\ journal' = [journal EXCEPT ![d].state = "applied"]
               /\ rebase' = [rebase EXCEPT ![d] = NoRebase]
      BY <3>2 DEF k0, r0
    <3> QED
      BY <1>14, <3>1, <3>2 DEF Publish, FinishesRebase, agentVars, diskVars
  <2>2. k0.state # "none" \/ k = k0
    <3>1. r0 # NoRebase => k0.state # "none"
      BY DEF ShapeInv, Shape, RebaseShape, UnderWay, r0, k0
    <3> QED
      BY <2>1, <3>1
  <2>3. SameRebase(k, k0)
    BY <1>1, <2>1, <2>2 DEF SameRebase, JournalsTo
  <2>4. PICK j : Goes(d, j) /\ (\/ j = Idle
                                \/ j = [j0 EXCEPT !.step = "compute"]
                                \/ j = [j0 EXCEPT !.step = "capture"] /\ j0.step = "recover")
    BY <1>14 DEF Publish, Saved, Goto, Stops, At, j0
  <2>5. \/ j.step \in {"idle", "compute"}
        \/ j.step = "capture" /\ j0.step = "recover" /\ j.head = j0.head /\ j.gen = j0.gen
    <3>1. CASE j = Idle
      BY <3>1, QuietSteps
    <3>2. CASE j = [j0 EXCEPT !.step = "compute"]
      BY <1>1, <3>2 DEF JobsTo
    <3>3. CASE j = [j0 EXCEPT !.step = "capture"] /\ j0.step = "recover"
      BY <1>1, <3>3 DEF JobsTo
    <3> QED
      BY <2>4, <3>1, <3>2, <3>3
  <2>6. Turns(d, j, r, k)
    BY <2>1, <2>4 DEF Turns, Goes
  <2>7. CASE j.step \in {"idle", "compute"}
    <3>1. Did(d, j, r, k)
      BY <2>1, <2>3, <2>7, QuietSteps DEF Did, Quiet, r0, k0
    <3> QED
      BY <2>6, <3>1
  <2>8. CASE j.step = "capture" /\ j0.step = "recover" /\ j.head = j0.head /\ j.gen = j0.gen
    <3>1. r0 = NoRebase
      BY <1>3, <2>8 DEF SaveShape
    <3>2. r = r0
      BY <2>1, <3>1
    <3>3. GoesOn(d, j)
      BY <2>8 DEF GoesOn, Looked, j0
    <3>4. Did(d, j, r, k)
      BY <2>3, <2>8, <3>2, <3>3 DEF Did, SavesOn, Looked, OnParent, r0, k0
    <3> QED
      BY <2>6, <3>4
  <2> QED
    BY <2>5, <2>7, <2>8
<1> QED
  BY <1>8, <1>9, <1>10, <1>11, <1>12, <1>13, <1>14

\* What the steps of a rebase give to the job and the journal of a device.
LEMMA RebaseDoes ==
    ASSUME TypeInv, ShapeInv, NEW d \in Device, NEW heard,
           \/ Compute(d, heard) \/ RecoverRow(d, heard) \/ FindReceipt(d) \/ PublishPending(d, heard)
           \/ ApplyRefused(d) \/ ApplyGoesOn(d) \/ Begin(d)
           \/ Adopt(d, heard) \/ Integrate(d, heard) \/ FinishIntegration(d, heard) \/ FinishRefused(d)
           \/ Adopted(d)
    PROVE  \E j, r, k : Turns(d, j, r, k) /\ Did(d, j, r, k)
<1> DEFINE j0 == job[d]
           r0 == rebase[d]
           k0 == journal[d]
           Done == \E j, r, k : Turns(d, j, r, k) /\ Did(d, j, r, k)
<1>1. j0 \in JobsTo(Len(commits), Seq0, generation) /\ k0 \in JournalsTo(Len(commits), Seq0)
  BY RecordsOfTypes
<1>2. /\ rebase = [rebase EXCEPT ![d] = r0] /\ journal = [journal EXCEPT ![d] = k0]
  BY Unmoved
<1>3. RebaseSteps(j0, r0, k0, staged[d])
  BY DEF ShapeInv, Shape
<1> HIDE DEF j0, r0, k0
<1>4. ASSUME NEW j, Goes(d, j), j.step \notin Looked \cup Claiming,
             NEW r \in {r0, NoRebase}, rebase' = [rebase EXCEPT ![d] = r],
             NEW k, SameRebase(k, k0), journal' = [journal EXCEPT ![d] = k]
      PROVE  Done
  <2>1. Turns(d, j, r, k)
    BY <1>4 DEF Goes, Turns
  <2>2. Did(d, j, r, k)
    BY <1>4 DEF Did, Quiet, r0, k0
  <2> QED
    BY <2>1, <2>2
<1>5. \A s \in {"applied", "adopting", "adopted"} : k0.state # "none" => SameRebase([k0 EXCEPT !.state = s], k0)
  BY <1>1 DEF JournalsTo, SameRebase
<1>6. Idle.step \notin Looked \cup Claiming /\ SameRebase(k0, k0)
  BY QuietSteps
<1>7. ASSUME Stops(d), UNCHANGED <<rebase, journal>> PROVE Done
  BY <1>2, <1>4, <1>6, <1>7 DEF Stops
<1>8. \A step : [j0 EXCEPT !.step = step].step = step
  BY <1>1 DEF JobsTo
<1>9. ASSUME NEW step \in {"receipt", "begin", "adopt"}, Goto(d, step), UNCHANGED rebase,
             NEW k, SameRebase(k, k0), journal' = [journal EXCEPT ![d] = k]
      PROVE  Done
  <2>1. PICK j : j = [j0 EXCEPT !.step = step]
    OBVIOUS
  <2>2. Goes(d, j) /\ j.step \notin Looked \cup Claiming
    BY <1>8, <1>9, <2>1, QuietSteps DEF Goto, j0
  <2> QED
    BY <1>2, <1>4, <1>9, <2>2
<1>10. ASSUME Finishes(d), k0.state # "none" PROVE Done
  <2>1. PICK k : k = [k0 EXCEPT !.state = "applied"]
    OBVIOUS
  <2>2. SameRebase(k, k0) /\ journal' = [journal EXCEPT ![d] = k] /\ rebase' = [rebase EXCEPT ![d] = NoRebase]
    BY <1>5, <1>10, <2>1 DEF Finishes, k0
  <2> QED
    BY <1>4, <1>6, <1>10, <2>2 DEF Finishes, Stops
<1>11. CASE Compute(d, heard)
  <2>1. j0.step = "compute" /\ r0 = NoRebase /\ rebase' = [rebase EXCEPT ![d] = r0]
    BY <1>2, <1>3, <1>11 DEF Compute, At, agentVars, RebaseSteps, j0
  <2>2. CASE Stops(d) /\ UNCHANGED journal
    BY <1>7, <1>11, <2>2 DEF Compute, agentVars
  <2>3. CASE ~(Stops(d) /\ UNCHANGED journal)
    <3>1. PICK k : k = Computed(d)
      OBVIOUS
    <3>2. \E c : commits' = Append(commits, c)
      BY <1>11, <2>3 DEF Compute
    <3>3. commits' # commits
      <4>1. commits \in Seq(Commits) /\ HistoryTypes
        BY DevicesOfTypes, HistoryTypesUnfold
      <4>2. PICK c : commits' = Append(commits, c)
        BY <3>2
      <4>3. Len(commits') = Len(commits) + 1 /\ Len(commits) \in Nat
        BY <4>1, <4>2
      <4> QED
        BY <4>3
    <3>4. PICK j \in {Idle, [j0 EXCEPT !.step = "begin"]} : Goes(d, j)
      BY <1>11, <2>3 DEF Compute, Stops, Goto, j0
    <3>5. j.step \notin Looked \cup Claiming
      BY <1>6, <1>8, <3>4, QuietSteps
    <3>6. Turns(d, j, r0, k)
      BY <1>11, <2>1, <2>3, <3>1, <3>4 DEF Turns, Goes, Compute, Computed
    <3>7. Did(d, j, r0, k)
      BY <1>11, <2>1, <3>1, <3>3, <3>5 DEF Did, Computes
    <3> QED
      BY <3>6, <3>7
  <2> QED
    BY <2>2, <2>3
<1>12. CASE RecoverRow(d, heard)
  <2>1. /\ UNCHANGED <<rebase, journal>>
        /\ \/ Stops(d) \/ Goto(d, "receipt")
           \/ \E b : Goes(d, [j0 EXCEPT !.step = "receipt", !.recovered = b])
    BY <1>12 DEF RecoverRow, agentVars, j0
  <2>2. ASSUME NEW b, Goes(d, [j0 EXCEPT !.step = "receipt", !.recovered = b]) PROVE Done
    <3>1. PICK j : j = [j0 EXCEPT !.step = "receipt", !.recovered = b]
      OBVIOUS
    <3>2. j.step \notin Looked \cup Claiming
      BY <1>1, <3>1, QuietSteps DEF JobsTo
    <3> QED
      BY <1>2, <1>4, <1>6, <2>1, <2>2, <3>1, <3>2
  <2> QED
    BY <1>2, <1>6, <1>7, <1>9, <2>1, <2>2
<1>13. CASE FindReceipt(d)
  BY <1>10, <1>13 DEF FindReceipt, HasReceipt, Begun, k0
<1>14. CASE PublishPending(d, heard)
  <2>1. k0.state # "none" /\ (Finishes(d) \/ (Stops(d) /\ UNCHANGED <<rebase, journal>>))
    BY <1>14 DEF PublishPending, Pushed, diskVars, k0
  <2> QED
    BY <1>7, <1>10, <2>1
<1>15. CASE ApplyRefused(d)
  BY <1>7, <1>15 DEF ApplyRefused, diskVars
<1>16. CASE ApplyGoesOn(d)
  BY <1>2, <1>6, <1>9, <1>16 DEF ApplyGoesOn, diskVars
<1>17. CASE Begin(d)
  <2>1. PICK k : k = [k0 EXCEPT !.state = "adopting"]
    OBVIOUS
  <2>2. /\ k0.state # "none" /\ journal' = [journal EXCEPT ![d] = k] /\ Goto(d, "adopt") /\ UNCHANGED rebase
    BY <1>3, <1>17, <2>1 DEF Begin, At, agentVars, RebaseSteps, j0, k0
  <2> QED
    BY <1>5, <1>9, <2>1, <2>2
<1>18. CASE Adopt(d, heard)
  <2>1. UNCHANGED <<rebase, journal>> /\ (Stops(d) \/ Goto(d, AfterAdoption(d)))
    BY <1>18 DEF Adopt, agentVars, diskVars
  <2>2. CASE Goto(d, AfterAdoption(d))
    <3>1. PICK j : j = [j0 EXCEPT !.step = AfterAdoption(d)]
      OBVIOUS
    <3>2. Goes(d, j) /\ j.step \notin Looked
      BY <1>8, <2>2, <3>1 DEF Goto, AfterAdoption, Looked, j0
    <3>3. Turns(d, j, r0, k0)
      BY <1>2, <2>1, <3>2 DEF Turns, Goes
    <3>4. Did(d, j, r0, k0)
      BY <1>6, <1>18, <2>2, <3>2 DEF Did, Claims, k0
    <3> QED
      BY <3>3, <3>4
  <2> QED
    BY <1>7, <2>1, <2>2
<1>19. ASSUME NEW j, Goes(d, j), j.step \notin Looked, j0.step \in Claiming,
              NEW r, rebase' = [rebase EXCEPT ![d] = r],
              NEW k, SameRebase(k, k0), journal' = [journal EXCEPT ![d] = k]
       PROVE  Done
  <2>1. Turns(d, j, r, k)
    BY <1>19 DEF Goes, Turns
  <2>2. Did(d, j, r, k)
    BY <1>19 DEF Did, Claims, j0, k0
  <2> QED
    BY <2>1, <2>2
<1>20. CASE Integrate(d, heard) \/ FinishIntegration(d, heard) \/ FinishRefused(d)
  <2>1. /\ UNCHANGED <<rebase, journal>> /\ j0.step \in Claiming
        /\ Stops(d) \/ Goto(d, "adopted") \/ Goto(d, "finish")
    BY <1>20 DEF Integrate, FinishIntegration, FinishRefused, TakesIn, At, agentVars, diskVars, Claiming, j0
  <2>2. PICK j \in {Idle, [j0 EXCEPT !.step = "adopted"], [j0 EXCEPT !.step = "finish"]} : Goes(d, j)
    BY <2>1 DEF Stops, Goto, j0
  <2>3. j.step \notin Looked
    BY <1>6, <1>8, <2>2, QuietSteps DEF Looked
  <2> QED
    BY <1>2, <1>6, <1>19, <2>1, <2>2, <2>3
<1>21. CASE Adopted(d)
  <2>1. PICK k : k = [k0 EXCEPT !.state = "adopted"]
    OBVIOUS
  <2>2. PICK r : r = [from |-> journal[d].from, result |-> journal[d].result]
    OBVIOUS
  <2>3. /\ j0.step = "adopted" /\ k0.state # "none"
        /\ journal' = [journal EXCEPT ![d] = k] /\ rebase' = [rebase EXCEPT ![d] = r]
    BY <1>3, <1>21, <2>1, <2>2 DEF Adopted, At, RebaseSteps, j0, k0
  <2>4. PICK begun : begun = [Idle EXCEPT !.step = "resolve", !.gen = sees[d], !.rebases = FALSE]
    OBVIOUS
  <2>5. begun.step = "resolve" /\ Idle.step = "idle" /\ (Goes(d, begun) \/ Goes(d, Idle))
    BY <1>21, <2>4 DEF Adopted, Begins, Stops, Idle
  <2> QED
    BY <1>5, <1>19, <2>1, <2>3, <2>5, QuietSteps DEF Claiming
<1> QED
  BY <1>11, <1>12, <1>13, <1>14, <1>15, <1>16, <1>17, <1>18, <1>20, <1>21

\* What the steps that begin or end its work give to them.
LEMMA BeginningDoes ==
    ASSUME TypeInv, NEW d \in Device,
           \/ Handover(d) \/ Hear(d) \/ StartSave(d) \/ PollRemote(d)
           \/ Asks(d) \/ CallLost(d) \/ Restart(d)
    PROVE  \/ UNCHANGED <<job, rebase, journal>>
           \/ \E j, r, k : Turns(d, j, r, k) /\ Did(d, j, r, k)
<1> DEFINE r0 == rebase[d]
           k0 == journal[d]
           Done == \E j, r, k : Turns(d, j, r, k) /\ Did(d, j, r, k)
<1>1. /\ rebase = [rebase EXCEPT ![d] = r0] /\ journal = [journal EXCEPT ![d] = k0]
  BY Unmoved
<1> HIDE DEF r0, k0
<1>2. ASSUME NEW j, Goes(d, j), j.step \in {"idle", "resolve", "row"}, UNCHANGED journal,
             UNCHANGED rebase \/ rebase' = [rebase EXCEPT ![d] = NoRebase]
      PROVE  Done
  <2>1. PICK r \in {r0, NoRebase} : rebase' = [rebase EXCEPT ![d] = r]
    BY <1>1, <1>2
  <2>2. Turns(d, j, r, k0)
    BY <1>1, <1>2, <2>1 DEF Goes, Turns
  <2>3. Did(d, j, r, k0)
    BY <1>2, QuietSteps DEF Did, Quiet, r0, k0
  <2> QED
    BY <2>2, <2>3
<1>3. CASE Handover(d) \/ Hear(d)
  BY <1>3 DEF Handover, Hear, agentVars, diskVars
<1>4. CASE StartSave(d) \/ PollRemote(d) \/ SaveNow(d) \/ RequestRebase(d)
  <2>1. UNCHANGED <<rebase, journal>> /\ (UNCHANGED job \/ \E b : Begins(d, b))
    BY <1>4 DEF StartSave, PollRemote, SaveNow, RequestRebase, diskVars
  <2>2. ASSUME NEW b, Begins(d, b) PROVE Done
    <3>1. PICK j : j = [Idle EXCEPT !.step = "resolve", !.gen = sees[d], !.rebases = b]
      OBVIOUS
    <3>2. j.step = "resolve" /\ Goes(d, j)
      BY <2>2, <3>1 DEF Begins, Idle
    <3> QED
      BY <1>2, <2>1, <3>2
  <2> QED
    BY <2>1, <2>2
<1>5. CASE Apply(d)
  <2>1. PICK j : j = [Idle EXCEPT !.step = "row", !.gen = sees[d]]
    OBVIOUS
  <2>2. j.step = "row" /\ Goes(d, j) /\ UNCHANGED <<rebase, journal>>
    BY <1>5, <2>1 DEF Apply, Idle, agentVars, diskVars
  <2> QED
    BY <1>2, <2>2
<1>6. CASE CallLost(d) \/ Restart(d)
  <2>1. /\ Goes(d, Idle) /\ Idle.step = "idle" /\ UNCHANGED journal
        /\ UNCHANGED rebase \/ rebase' = [rebase EXCEPT ![d] = NoRebase]
    BY <1>6, QuietSteps DEF CallLost, Restart, Stops, agentVars, diskVars
  <2> QED
    BY <1>2, <2>1
<1> QED
  BY <1>3, <1>4, <1>5, <1>6 DEF Asks

\* What any step does, as far as the branch goes.
LEMMA DeviceSteps ==
    ASSUME TypeInv, ShapeInv, [BranchNext]_branchVars
    PROVE  \/ UNCHANGED <<job, rebase, journal>>
           \/ \E d \in Device : \E j, r, k : Turns(d, j, r, k) /\ Did(d, j, r, k)
<1>1. CASE UNCHANGED branchVars \/ ExpireWindow \/ \E i \in Item : Edit(i) \/ PushOutside(i)
  BY <1>1 DEF branchVars, agentVars, diskVars, ExpireWindow, Edit, PushOutside
<1>2. ASSUME NEW d \in Device, Works(d) \/ (\E heard \in BOOLEAN : Calls(d, heard) \/ Compute(d, heard))
      PROVE  \E j, r, k : Turns(d, j, r, k) /\ Did(d, j, r, k)
  BY <1>2, ResolveDoes, SaveDoes, RebaseDoes DEF Works, Calls
<1>3. ASSUME NEW d \in Device, Handover(d) \/ Hear(d) \/ StartSave(d) \/ PollRemote(d) \/ Asks(d)
                               \/ CallLost(d) \/ Restart(d)
      PROVE  \/ UNCHANGED <<job, rebase, journal>>
             \/ \E j, r, k : Turns(d, j, r, k) /\ Did(d, j, r, k)
  BY <1>3, BeginningDoes
<1> QED
  BY <1>1, <1>2, <1>3 DEF BranchNext, Proceeds, Fails

\* What is done to one device leaves the others as they are.
LEMMA TurnsOne ==
    ASSUME TypeInv, NEW d \in Device, NEW j, NEW r, NEW k, Turns(d, j, r, k)
    PROVE  /\ job'[d] = j /\ rebase'[d] = r /\ journal'[d] = k
           /\ \A e \in Device \ {d} : job'[e] = job[e] /\ rebase'[e] = rebase[e] /\ journal'[e] = journal[e]
  BY DeviceFunctions DEF Turns

\* A rebase replaces a commit of the branch that is not one itself, and what the
\* journal keeps of the save that carries it is on top of its result.
JournalLine(j, r, k, cs, R) ==
    /\ k.state # "none" => cs[k.result].kind = "rebased"
    /\ k.from # 0 => cs[k.from].kind # "rebased"
    /\ k.from <= R
    /\ k.pending # NoCommit => k.pending.parent = k.result \/ k.pending.kind = "rebased"
    /\ j.step = "publish" /\ r # NoRebase => r.result <= j.out

LineageInv == \A d \in Device : JournalLine(job[d], rebase[d], journal[d], commits, remote)

\* Commits that stay and a branch that grows keep the lines of a device.
LEMMA JournalLineKept ==
    ASSUME NEW n \in Nat, NEW k \in JournalsTo(n, Seq0), NEW cs, NEW cs2, NEW R \in Nat, NEW R2 \in Nat, R <= R2,
           \A c \in 1..n : cs2[c] = cs[c],
           k.state # "none" => k.result # 0,
           NEW j, NEW r, JournalLine(j, r, k, cs, R)
    PROVE  JournalLine(j, r, k, cs2, R2)
<1>1. k.from \in 0..n /\ k.result \in 0..n
  BY DEF JournalsTo
<1> QED
  BY <1>1 DEF JournalLine

\* Every step keeps the lines of the journals.
LEMMA LineageStep ==
    ASSUME TypeInv, ShapeInv, OrderInv, LineageInv, [BranchNext]_branchVars
    PROVE  LineageInv'
<1>1. PICK cs : cs = commits'
  OBVIOUS
<1>2. PICK R : R = remote'
  OBVIOUS
<1>3. PICK n \in Nat : n = Len(commits)
  BY CommitsStay
<1>4. /\ remote \in Nat /\ R \in Nat /\ remote <= R
      /\ \A c \in 1..n : cs[c] = commits[c]
      /\ \A d \in Device : journal[d] \in JournalsTo(n, Seq0)
  BY <1>1, <1>2, <1>3, RemoteGrows, CommitsStay, RecordsOfTypes
<1>5. \A d \in Device : journal[d].state # "none" => journal[d].result # 0
  BY DEF ShapeInv, Shape, JournalShape
<1>6. \A d \in Device : JournalLine(job[d], rebase[d], journal[d], cs, R)
  BY <1>4, <1>5, JournalLineKept DEF LineageInv
<1>7. ASSUME NEW d \in Device, NEW j, NEW r, NEW k, Turns(d, j, r, k), Did(d, j, r, k)
      PROVE  JournalLine(j, r, k, cs, R)
  <2> DEFINE j0 == job[d]
             k0 == journal[d]
  <2>1. JournalLine(j0, rebase[d], k0, cs, R)
    BY <1>6
  <2>2. Shape(j0, rebase[d], k0, staged[d])
    BY DEF ShapeInv
  <2> HIDE DEF j0, k0
  <2>3. ASSUME SameRebase(k, k0), j.step = "publish" /\ r # NoRebase => r.result <= j.out
        PROVE  JournalLine(j, r, k, cs, R)
    BY <2>1, <2>3 DEF JournalLine, SameRebase
  <2>4. CASE Quiet(d, j, r, k) \/ Claims(d, j, r, k)
    <3>1. SameRebase(k, k0) /\ j.step \notin Looked
      BY <2>4 DEF Quiet, Claims, k0
    <3>2. j.step # "publish"
      BY <3>1 DEF Looked
    <3> QED
      BY <2>3, <3>1, <3>2
  <2>5. CASE Computes(d, j, r, k)
    <3>1. j.step # "publish"
      BY <2>5 DEF Computes, Looked
    <3>2. CASE k = Computed(d) /\ commits' # commits
      <4>1. PICK c : /\ commits' = Append(commits, c) /\ c.kind = "rebased"
                     /\ Ancestors(mine[d].commit) \cap Rebased = {}
        BY <2>5, <3>2 DEF Computes, Compute
      <4>2. k.from = mine[d].commit /\ k.result = n + 1 /\ k.pending = NoCommit
        BY <1>3, <3>2 DEF Computed
      <4>3. commits \in Seq(Commits) /\ HistoryTypes
        BY DevicesOfTypes, HistoryTypesUnfold
      <4>4. cs[n + 1].kind = "rebased"
        <5>1. cs[n + 1] = c
          BY <1>1, <1>3, <4>1, <4>3
        <5> QED
          BY <4>1, <5>1
      <4>5. /\ mine[d].commit \in 0..n /\ mine[d].commit \in Nat
            /\ mine[d].commit <= checkpoint.commit /\ checkpoint.commit <= remote /\ checkpoint.commit \in Nat
        <5>1. mine[d] \in CheckpointsTo(Len(commits), Seq0)
          BY DevicesOfTypes
        <5> QED
          BY <1>3, <5>1, OrderRest DEF CheckpointsTo
      <4>6. mine[d].commit # 0 => cs[mine[d].commit].kind # "rebased"
        <5>1. SUFFICES ASSUME mine[d].commit # 0 PROVE commits[mine[d].commit].kind # "rebased"
          BY <1>4, <4>5
        <5>2. mine[d].commit \in Ancestors(mine[d].commit)
          BY <1>3, <4>3, <4>5, <5>1, AncestorsFacts
        <5>3. mine[d].commit \in DOMAIN commits
          BY <1>3, <4>3, <4>5, <5>1, HistoryTypesUnfold
        <5> QED
          BY <4>1, <5>2, <5>3 DEF Rebased
      <4>7. mine[d].commit <= R
        BY <1>4, <4>5
      <4> QED
        BY <3>1, <4>2, <4>4, <4>6, <4>7 DEF JournalLine
    <3> QED
      BY <2>3, <2>5, <3>1, <3>2 DEF Computes, k0
  <2>6. CASE SavesOn(d, j, r, k)
    <3>1. r = rebase[d]
      BY <2>6 DEF SavesOn
    <3>2. r # NoRebase => /\ r.result = k0.result /\ k0.state # "none" /\ k0.state \in UnderWay
      BY <2>2, <3>1 DEF Shape, RebaseShape, UnderWay
    <3>3. ASSUME j.step = "publish", r # NoRebase PROVE r.result <= j.out
      <4>1. PICK heard : Push(d, heard) /\ remote' = j.out
        BY <2>6, <3>3 DEF SavesOn
      <4>2. job[d].step = "push"
        BY <4>1 DEF Push, At
      <4>3. job[d].parent = r.result
        BY <2>2, <3>1, <3>3, <4>2 DEF Shape, SaveShape, OnParent, j0
      <4>4. \E id \in Nat : remote' = id /\ job[d].parent <= id
        BY <4>1, PushedLine
      <4> QED
        BY <4>1, <4>3, <4>4
    <3>4. CASE SameRebase(k, k0)
      BY <2>3, <3>3, <3>4
    <3>5. CASE k = Fenced(d) /\ r # NoRebase /\ job[d].step = "fence"
      <4>1. PICK b : b = Built(d)
        OBVIOUS
      <4>2. PICK s : s = job[d].seq
        OBVIOUS
      <4>3. k = [k0 EXCEPT !.pending = b, !.seq = s]
        BY <3>5, <4>1, <4>2 DEF Fenced, k0
      <4>4. k.state = k0.state /\ k.from = k0.from /\ k.result = k0.result /\ k.pending = b
        BY <1>4, <4>3 DEF JournalsTo, k0
      <4>5. job[d].parent = r.result /\ job[d].out \in {0, job[d].parent}
        BY <2>2, <3>1, <3>5 DEF Shape, SaveShape, OnParent, j0
      <4>6. b.parent = k0.result \/ b.kind = "rebased"
        <5>1. CASE job[d].out = 0
          <6>1. b.parent = job[d].parent
            BY <4>1, <5>1 DEF Built
          <6> QED
            BY <3>2, <3>5, <4>5, <6>1
        <5>2. CASE job[d].out # 0
          <6>1. b = commits[k0.result]
            BY <3>2, <3>5, <4>1, <4>5, <5>2 DEF Built
          <6>2. commits[k0.result].kind = "rebased"
            BY <3>2, <3>5 DEF LineageInv, JournalLine, k0
          <6> QED
            BY <6>1, <6>2
        <5> QED
          BY <5>1, <5>2
      <4> QED
        BY <2>1, <3>3, <4>4, <4>6 DEF JournalLine
    <3> QED
      BY <2>6, <3>4, <3>5 DEF SavesOn, k0
  <2> QED
    BY <1>7, <2>4, <2>5, <2>6 DEF Did
<1>8. \A d \in Device : JournalLine(job'[d], rebase'[d], journal'[d], cs, R)
  <2>1. CASE UNCHANGED <<job, rebase, journal>>
    BY <1>6, <2>1
  <2>2. ASSUME NEW d \in Device, NEW j, NEW r, NEW k, Turns(d, j, r, k), Did(d, j, r, k)
        PROVE  \A e \in Device : JournalLine(job'[e], rebase'[e], journal'[e], cs, R)
    <3>1. /\ job'[d] = j /\ rebase'[d] = r /\ journal'[d] = k
          /\ \A e \in Device \ {d} : job'[e] = job[e] /\ rebase'[e] = rebase[e] /\ journal'[e] = journal[e]
      BY <2>2, TurnsOne
    <3>2. JournalLine(j, r, k, cs, R)
      BY <1>7, <2>2
    <3>3. ASSUME NEW e \in Device PROVE JournalLine(job'[e], rebase'[e], journal'[e], cs, R)
      <4>1. CASE e = d
        BY <3>1, <3>2, <4>1
      <4>2. CASE e # d
        BY <1>6, <3>1, <4>2
      <4> QED
        BY <4>1, <4>2
    <3> QED
      BY <3>3
  <2> QED
    BY <2>1, <2>2, DeviceSteps
<1> QED
  BY <1>1, <1>2, <1>8 DEF LineageInv

\* How the room's adoption, its receipts and its checkpoint move.
Still == UNCHANGED <<adoption, receipt>> /\ checkpoint'.commit = checkpoint.commit
Confirms(c) ==
    /\ checkpoint'.commit = c /\ adoption' = NoAdoption
    /\ receipt' = receipt \cup ({adoption.result} \ {0})
Fresh(d) == [by |-> d, from |-> journal[d].from, result |-> journal[d].result, since |-> Seq0]

\* Nothing happens to them, or a save is published, or a save that carries a
\* rebase is found pushed and recorded, or an adoption begins.
LEMMA RoomMoves ==
    ASSUME TypeInv, ShapeInv, [BranchNext]_branchVars
    PROVE  \/ Still
           \/ \E d \in Device, heard \in BOOLEAN : Publish(d, heard) /\ ~Repeats(d) /\ Confirms(job[d].out)
           \/ \E d \in Device, heard \in BOOLEAN :
                PublishPending(d, heard) /\ HasLease(d, job[d].gen) /\ Confirms(remote)
           \/ \E d \in Device, heard \in BOOLEAN :
                /\ Adopt(d, heard) /\ adoption = NoAdoption /\ adoption' = Fresh(d)
                /\ checkpoint.commit = journal[d].from /\ UNCHANGED <<receipt, checkpoint>>
<1>1. UNCHANGED <<adoption, receipt, checkpoint>> => Still
  BY DEF Still
<1>2. CASE UNCHANGED branchVars \/ ExpireWindow \/ \E i \in Item : Edit(i) \/ PushOutside(i)
  BY <1>1, <1>2 DEF branchVars, roomVars, ExpireWindow, Edit, PushOutside
<1>3. ASSUME NEW d \in Device, NEW heard \in BOOLEAN, Publish(d, heard)
      PROVE  Still \/ (~Repeats(d) /\ Confirms(job[d].out))
  <2>1. CASE Repeats(d)
    BY <1>1, <1>3, <2>1 DEF Publish, Records, Recorded
  <2>2. CASE ~Repeats(d)
    BY <1>3, <2>2 DEF Publish, Records, Recorded, Confirms
  <2> QED
    BY <2>1, <2>2
<1>4. ASSUME NEW d \in Device, NEW heard \in BOOLEAN, PublishPending(d, heard)
      PROVE  Still \/ (HasLease(d, job[d].gen) /\ Confirms(remote))
  <2>1. CASE checkpoint' = [commit |-> remote, seq |-> journal[d].seq, through |-> journal[d].seq]
             /\ HasLease(d, job[d].gen) /\ receipt' = receipt \cup {adoption.result} /\ adoption' = NoAdoption
    <3>1. adoption.result = journal[d].result /\ journal[d].state = "adopted"
      BY <1>4 DEF PublishPending, Pushed
    <3>2. adoption.result # 0
      BY <3>1 DEF ShapeInv, Shape, JournalShape
    <3>3. receipt' = receipt \cup ({adoption.result} \ {0})
      BY <2>1, <3>2
    <3> QED
      BY <2>1, <3>3 DEF Confirms
  <2>2. CASE UNCHANGED roomVars
    BY <1>1, <2>2 DEF roomVars
  <2> QED
    BY <1>4, <2>1, <2>2 DEF PublishPending
<1>5. ASSUME NEW d \in Device, NEW heard \in BOOLEAN, Mark(d, heard) PROVE Still
  <2>1. checkpoint'.commit = checkpoint.commit
    <3>1. PICK n : checkpoint' = [checkpoint EXCEPT !.through = n]
      BY <1>5 DEF Mark
    <3>2. checkpoint \in CheckpointsTo(Len(commits), Seq0)
      BY DevicesOfTypes
    <3> QED
      BY <3>1, <3>2 DEF CheckpointsTo
  <2> QED
    BY <1>5, <2>1 DEF Mark, Still
<1>6. ASSUME NEW d \in Device, NEW heard \in BOOLEAN, Adopt(d, heard)
      PROVE  \/ Still
             \/ /\ adoption = NoAdoption /\ adoption' = Fresh(d)
                /\ checkpoint.commit = journal[d].from /\ UNCHANGED <<receipt, checkpoint>>
  BY <1>1, <1>6 DEF Adopt, Fresh
<1>7. ASSUME NEW d \in Device,
             \/ ResolveRebase(d) \/ ResolveUnmoved(d) \/ ResolveOwn(d) \/ ResolveOutside(d)
             \/ MergeOutside(d) \/ Capture(d) \/ CaptureRefused(d) \/ Fence(d) \/ FenceRefused(d)
             \/ PushRejected(d) \/ PublishRefused(d) \/ MarkRefused(d)
      PROVE  Still
  BY <1>1, <1>7 DEF ResolveRebase, ResolveUnmoved, ResolveOwn, ResolveOutside, Looks, MergeOutside, Integrates,
      Capture, CaptureRefused, Fence, FenceRefused, PushRejected, PublishRefused, MarkRefused, Barred, Deposed,
      roomVars
<1>8. ASSUME NEW d \in Device, NEW heard \in BOOLEAN,
             \/ Push(d, heard) \/ Compute(d, heard) \/ RecoverRow(d, heard) \/ FindReceipt(d)
             \/ ApplyRefused(d) \/ ApplyGoesOn(d) \/ Begin(d)
             \/ Integrate(d, heard) \/ FinishIntegration(d, heard) \/ FinishRefused(d) \/ Adopted(d)
      PROVE  Still
  BY <1>1, <1>8 DEF Push, Compute, RecoverRow, FindReceipt, ApplyRefused, ApplyGoesOn, Begin, Integrate,
      FinishIntegration, FinishRefused, Adopted, TakesIn, roomVars
<1>9. ASSUME NEW d \in Device, Handover(d) \/ Hear(d) \/ StartSave(d) \/ PollRemote(d) \/ Asks(d)
                               \/ CallLost(d) \/ Restart(d)
      PROVE  Still
  BY <1>1, <1>9 DEF Handover, Hear, StartSave, PollRemote, Asks, SaveNow, RequestRebase, Apply, CallLost, Restart,
      roomVars
<1> QED
  BY <1>2, <1>3, <1>4, <1>5, <1>6, <1>7, <1>8, <1>9 DEF BranchNext, Proceeds, Fails, Works, Calls

(***************************************************************************)
(* Who carries a rebase has its adoption, or its receipt                   *)
(***************************************************************************)
\* a is the room's adoption, q its receipts, R the branch.
Claim(d, k, a, q) == (a.by = d /\ a.from = k.from /\ a.result = k.result) \/ k.result \in q

Claimed(d, j, r, k, a, q, R) ==
    /\ r # NoRebase \/ j.step \in Claiming => Claim(d, k, a, q)
    /\ k.result \in q => k.from < R

RoomClaim(a, q, C, n) ==
    /\ q \subseteq 0..n
    /\ a # NoAdoption => a.from = C /\ a.result # 0

ClaimInv ==
    /\ RoomClaim(adoption, receipt, checkpoint.commit, Len(commits))
    /\ \A d \in Device : Claimed(d, job[d], rebase[d], journal[d], adoption, receipt, remote)

\* A device that goes on with an adoption just admitted has its claim.
LEMMA AdmittedClaims ==
    ASSUME TypeInv, NEW d \in Device, NEW heard, Adopt(d, heard), Goto(d, AfterAdoption(d)),
           NEW a, a = adoption'
    PROVE  Claim(d, journal[d], a, receipt)
<1> DEFINE mineNow == /\ adoption.by = d /\ adoption.from = journal[d].from
                      /\ adoption.result = journal[d].result
           fresh == adoption = NoAdoption /\ checkpoint.commit = journal[d].from
           admitted == HasLease(d, job[d].gen) /\ journal[d].result \notin receipt /\ (mineNow \/ fresh)
<1>1. ~Stops(d)
  <2>1. job[d] \in JobsTo(Len(commits), Seq0, generation)
    BY RecordsOfTypes
  <2>2. PICK j : j = [job[d] EXCEPT !.step = AfterAdoption(d)]
    OBVIOUS
  <2>3. Goes(d, j) /\ j.step \in Claiming
    BY <2>1, <2>2 DEF Goto, JobsTo, AfterAdoption, Claiming
  <2>4. job'[d] = j
    BY <2>3, DeviceFunctions DEF Goes
  <2>5. Stops(d) => job'[d] = Idle
    BY DeviceFunctions DEF Stops, Goes
  <2> QED
    BY <2>3, <2>4, <2>5, QuietSteps
<1>2. admitted
  BY <1>1 DEF Adopt
<1>3. adoption' = IF admitted /\ ~mineNow
                  THEN [by |-> d, from |-> journal[d].from, result |-> journal[d].result, since |-> Seq0]
                  ELSE adoption
  BY DEF Adopt
<1>4. CASE mineNow
  BY <1>3, <1>4 DEF Claim
<1>5. CASE ~mineNow
  BY <1>2, <1>3, <1>5 DEF Claim
<1> QED
  BY <1>4, <1>5

\* What a step does to a device keeps the device's claim, when the claims it had
\* are kept.
LEMMA ClaimedMoves ==
    ASSUME TypeInv, ClaimInv, NEW d \in Device, NEW j, NEW r, NEW k, Did(d, j, r, k),
           NEW a, a = adoption', NEW q, receipt \subseteq q, NEW R, NEW n, n = Len(commits) + 1, n \notin q,
           Claim(d, journal[d], adoption, receipt) => Claim(d, journal[d], a, q),
           journal[d].result \in q => journal[d].from < R
    PROVE  Claimed(d, j, r, k, a, q, R)
<1>1. /\ journal[d] \in JournalsTo(Len(commits), Seq0)
      /\ rebase[d] # NoRebase \/ job[d].step \in Claiming => Claim(d, journal[d], adoption, receipt)
  BY RecordsOfTypes DEF ClaimInv, Claimed
<1>2. ASSUME k.from = journal[d].from, k.result = journal[d].result,
             r # NoRebase \/ j.step \in Claiming => Claim(d, journal[d], a, q)
      PROVE  Claimed(d, j, r, k, a, q, R)
  BY <1>2 DEF Claimed, Claim
<1>3. CASE Quiet(d, j, r, k)
  <2>1. k.from = journal[d].from /\ k.result = journal[d].result /\ j.step \notin Claiming /\ r \in {rebase[d], NoRebase}
    BY <1>3 DEF Quiet, SameRebase
  <2> QED
    BY <1>1, <1>2, <2>1
<1>4. CASE Claims(d, j, r, k)
  <2>1. k.from = journal[d].from /\ k.result = journal[d].result
    BY <1>4 DEF Claims, SameRebase
  <2>2. CASE job[d].step \in Claiming
    BY <1>1, <1>2, <2>1, <2>2
  <2>3. CASE \E heard : Adopt(d, heard) /\ Goto(d, AfterAdoption(d))
    <3>1. Claim(d, journal[d], a, receipt)
      BY <2>3, AdmittedClaims
    <3>2. Claim(d, journal[d], a, q)
      BY <3>1 DEF Claim
    <3> QED
      BY <1>2, <2>1, <3>2
  <2> QED
    BY <1>4, <2>2, <2>3 DEF Claims
<1>5. CASE Computes(d, j, r, k)
  <2>1. r = NoRebase /\ j.step \notin Claiming
    BY <1>5 DEF Computes
  <2>2. CASE SameRebase(k, journal[d])
    BY <1>2, <2>1, <2>2 DEF SameRebase
  <2>3. CASE k = Computed(d)
    <3>1. k.result = n
      BY <2>3 DEF Computed
    <3> QED
      BY <2>1, <3>1 DEF Claimed
  <2> QED
    BY <1>5, <2>2, <2>3 DEF Computes
<1>6. CASE SavesOn(d, j, r, k)
  <2>1. r = rebase[d] /\ j.step \notin Claiming
    BY <1>6, QuietSteps DEF SavesOn
  <2>2. CASE SameRebase(k, journal[d])
    BY <1>1, <1>2, <2>1, <2>2 DEF SameRebase
  <2>3. CASE k = Fenced(d)
    <3>1. k.from = journal[d].from /\ k.result = journal[d].result
      BY <1>1, <2>3 DEF Fenced, JournalsTo
    <3> QED
      BY <1>1, <1>2, <2>1, <3>1
  <2> QED
    BY <1>6, <2>2, <2>3 DEF SavesOn
<1> QED
  BY <1>3, <1>4, <1>5, <1>6 DEF Did

\* The claims are kept when every device keeps the claim it has.
LEMMA ClaimTurns ==
    ASSUME TypeInv, ShapeInv, ClaimInv, [BranchNext]_branchVars,
           NEW a, a = adoption', NEW q, q = receipt', NEW n, n = Len(commits), NEW C, C = checkpoint'.commit,
           receipt \subseteq q, RoomClaim(a, q, C, n),
           \A e \in Device : Claim(e, journal[e], adoption, receipt) => Claim(e, journal[e], a, q),
           \A e \in Device : journal[e].result \in q => journal[e].from < remote
    PROVE  ClaimInv'
<1>1. PICK R : R = remote'
  OBVIOUS
<1>2. /\ remote \in Nat /\ R \in Nat /\ remote <= R /\ n \in Nat
      /\ \A e \in Device : journal[e].from \in Nat
  BY <1>1, RemoteGrows, CommitsStay, RecordsOfTypes
<1>3. \A e \in Device : journal[e].result \in q => journal[e].from < R
  BY <1>2
<1>4. PICK m : m = Len(commits')
  OBVIOUS
<1>5. m \in Nat /\ n <= m
  BY <1>4, CommitsStay
<1>6. PICK new : new = n + 1
  OBVIOUS
<1>7. new \notin q
  BY <1>2, <1>6 DEF RoomClaim
<1>8. \A e \in Device : Claimed(e, job[e], rebase[e], journal[e], a, q, R)
  BY <1>3 DEF ClaimInv, Claimed
<1>9. \A e \in Device : Claimed(e, job'[e], rebase'[e], journal'[e], a, q, R)
  <2>1. CASE UNCHANGED <<job, rebase, journal>>
    BY <1>8, <2>1
  <2>2. ASSUME NEW d \in Device, NEW j, NEW r, NEW k, Turns(d, j, r, k), Did(d, j, r, k)
        PROVE  \A e \in Device : Claimed(e, job'[e], rebase'[e], journal'[e], a, q, R)
    <3>1. /\ job'[d] = j /\ rebase'[d] = r /\ journal'[d] = k
          /\ \A e \in Device \ {d} : job'[e] = job[e] /\ rebase'[e] = rebase[e] /\ journal'[e] = journal[e]
      BY <2>2, TurnsOne
    <3>2. Claimed(d, j, r, k, a, q, R)
      BY <1>3, <1>6, <1>7, <2>2, ClaimedMoves
    <3>3. ASSUME NEW e \in Device PROVE Claimed(e, job'[e], rebase'[e], journal'[e], a, q, R)
      <4>1. CASE e = d
        BY <3>1, <3>2, <4>1
      <4>2. CASE e # d
        BY <1>8, <3>1, <4>2
      <4> QED
        BY <4>1, <4>2
    <3> QED
      BY <3>3
  <2> QED
    BY <2>1, <2>2, DeviceSteps
<1>10. RoomClaim(a, q, C, m)
  BY <1>2, <1>5 DEF RoomClaim
<1>11. /\ RoomClaim(adoption', receipt', checkpoint'.commit, Len(commits'))
       /\ \A e \in Device : Claimed(e, job'[e], rebase'[e], journal'[e], adoption', receipt', remote')
  BY <1>1, <1>4, <1>9, <1>10
<1> QED
  BY <1>11 DEF ClaimInv, Claimed, Claim, RoomClaim

\* An adoption that ends in a checkpoint keeps them: its receipt is of a rebase that
\* one journal names, and the branch is past what that rebase replaced.
LEMMA ConfirmsClaims ==
    ASSUME TypeInv, ShapeInv, MergeInv, ClaimInv, [BranchNext]_branchVars, NEW c, Confirms(c),
           adoption.result # 0 =>
               \E d \in Device : adoption.result = journal[d].result /\ journal[d].from < remote
    PROVE  ClaimInv'
<1>1. PICK q : q = receipt \cup ({adoption.result} \ {0})
  OBVIOUS
<1>2. /\ receipt' = q /\ adoption' = NoAdoption /\ checkpoint'.commit = c /\ receipt \subseteq q
  BY <1>1 DEF Confirms
<1>3. PICK n \in Nat : n = Len(commits)
  BY CommitsStay
<1>4. RoomClaim(NoAdoption, q, c, n)
  <2>1. adoption \in AdoptionsTo(Len(commits), Seq0)
    BY DevicesOfTypes
  <2>2. adoption.result \in 0..n
    BY <1>3, <2>1 DEF AdoptionsTo
  <2> QED
    BY <1>1, <1>3, <2>2 DEF RoomClaim, ClaimInv
<1>5. ASSUME NEW e \in Device, Claim(e, journal[e], adoption, receipt) PROVE Claim(e, journal[e], NoAdoption, q)
  <2>1. CASE journal[e].result \in receipt
    BY <1>2, <2>1 DEF Claim
  <2>2. CASE adoption.by = e /\ adoption.result = journal[e].result
    <3>1. adoption # NoAdoption
      BY <2>2, NamesAreApart DEF NoAdoption
    <3>2. adoption.result # 0
      BY <3>1 DEF ClaimInv, RoomClaim
    <3> QED
      BY <1>1, <2>2, <3>2 DEF Claim
  <2> QED
    BY <1>5, <2>1, <2>2 DEF Claim
<1>6. ASSUME NEW e \in Device, journal[e].result \in q PROVE journal[e].from < remote
  <2>1. CASE journal[e].result \in receipt
    BY <2>1 DEF ClaimInv, Claimed
  <2>2. CASE journal[e].result = adoption.result /\ adoption.result # 0
    <3>1. PICK d \in Device : adoption.result = journal[d].result /\ journal[d].from < remote
      BY <2>2
    <3>2. e = d
      BY <2>2, <3>1 DEF MergeInv
    <3> QED
      BY <3>1, <3>2
  <2> QED
    BY <1>1, <1>6, <2>1, <2>2
<1> QED
  BY <1>2, <1>3, <1>4, <1>5, <1>6, ClaimTurns

\* A save that carries a rebase has put it on the branch before it is published.
LEMMA PublishConfirms ==
    ASSUME TypeInv, ShapeInv, OrderInv, LineageInv, ClaimInv, NEW d \in Device, NEW heard,
           Publish(d, heard), ~Repeats(d), adoption.result # 0
    PROVE  adoption.result = journal[d].result /\ journal[d].from < remote
<1>1. adoption # NoAdoption
  BY DEF NoAdoption
<1>2. adoption.result = rebase[d].result /\ job[d].step \in {"recover", "publish"}
  BY <1>1 DEF Publish, Excluded, Carries, Publishing
<1>3. rebase[d] # NoRebase
  BY <1>2 DEF NoRebase
<1>4. Shape(job[d], rebase[d], journal[d], staged[d])
  BY DEF ShapeInv
<1>5. rebase[d].result = journal[d].result
  BY <1>3, <1>4 DEF Shape, RebaseShape
<1>6. job[d].step = "publish"
  BY <1>2, <1>3, <1>4 DEF Shape, SaveShape
<1>7. journal[d].from < journal[d].result
  BY <1>2, <1>4, <1>5 DEF Shape, JournalShape
<1>8. rebase[d].result <= job[d].out
  BY <1>3, <1>6 DEF LineageInv, JournalLine
<1>9. job[d].out <= remote
  BY <1>6, OrderRest DEF Ordered
<1>10. /\ journal[d].from \in Nat /\ journal[d].result \in Nat /\ job[d].out \in Nat /\ remote \in Nat
  BY RecordsOfTypes
<1>11. journal[d].from < remote
  BY <1>5, <1>7, <1>8, <1>9, <1>10
<1> QED
  BY <1>2, <1>5, <1>11

\* So has one that is found pushed.
LEMMA PendingConfirms ==
    ASSUME TypeInv, ShapeInv, LineageInv, NEW d \in Device, Pushed(d)
    PROVE  adoption.result = journal[d].result /\ journal[d].from < remote
<1>1. /\ journal[d].state = "adopted" /\ journal[d].pending # NoCommit /\ adoption.result = journal[d].result
      /\ remote # 0 /\ commits[remote] = journal[d].pending
  BY DEF Pushed
<1>2. /\ journal[d].from < journal[d].result
  BY <1>1 DEF ShapeInv, Shape, JournalShape
<1>3. /\ journal[d].from <= remote
      /\ journal[d].pending.parent = journal[d].result \/ journal[d].pending.kind = "rebased"
      /\ journal[d].from # 0 => commits[journal[d].from].kind # "rebased"
  BY <1>1 DEF LineageInv, JournalLine
<1>4. /\ journal[d].from \in Nat /\ journal[d].result \in Nat /\ remote \in Nat
      /\ remote \in 1..Len(commits) /\ HistoryTypes
  <2>1. remote \in 0..Len(commits) /\ HistoryTypes
    BY DevicesOfTypes
  <2> QED
    BY <1>1, <2>1, RecordsOfTypes
<1>5. CASE journal[d].pending.parent = journal[d].result
  <2>1. commits[remote].parent \in 0..(remote - 1)
    BY <1>4, HistoryTypesUnfold
  <2>2. journal[d].result < remote
    BY <1>1, <1>4, <1>5, <2>1
  <2> QED
    BY <1>1, <1>2, <1>4, <2>2
<1>6. CASE journal[d].pending.kind = "rebased"
  <2>1. journal[d].from # remote
    BY <1>1, <1>3, <1>6
  <2> QED
    BY <1>1, <1>3, <1>4, <2>1
<1> QED
  BY <1>3, <1>5, <1>6

\* Every step keeps the claims.
LEMMA ClaimStep ==
    ASSUME TypeInv, ShapeInv, MergeInv, OrderInv, LineageInv, ClaimInv, [BranchNext]_branchVars
    PROVE  ClaimInv'
<1>1. PICK n \in Nat : n = Len(commits)
  BY CommitsStay
<1>2. /\ RoomClaim(adoption, receipt, checkpoint.commit, n)
      /\ \A e \in Device : journal[e].result \in receipt => journal[e].from < remote
  BY <1>1 DEF ClaimInv, Claimed
<1>3. CASE Still
  <2>1. adoption' = adoption /\ receipt' = receipt /\ checkpoint'.commit = checkpoint.commit
    BY <1>3 DEF Still
  <2> QED
    BY <1>1, <1>2, <2>1, ClaimTurns
<1>4. ASSUME NEW d \in Device, NEW heard, Publish(d, heard), ~Repeats(d), Confirms(job[d].out)
      PROVE  ClaimInv'
  BY <1>4, PublishConfirms, ConfirmsClaims
<1>5. ASSUME NEW d \in Device, NEW heard, PublishPending(d, heard), Confirms(remote) PROVE ClaimInv'
  <2>1. Pushed(d)
    BY <1>5 DEF PublishPending
  <2> QED
    BY <1>5, <2>1, PendingConfirms, ConfirmsClaims
<1>6. ASSUME NEW d \in Device, NEW heard, Adopt(d, heard), adoption = NoAdoption, adoption' = Fresh(d),
             checkpoint.commit = journal[d].from, UNCHANGED <<receipt, checkpoint>>
      PROVE  ClaimInv'
  <2>1. PICK a : a = Fresh(d)
    OBVIOUS
  <2>2. /\ a = adoption' /\ receipt' = receipt /\ checkpoint'.commit = checkpoint.commit
        /\ a.by = d /\ a.from = checkpoint.commit /\ a.result = journal[d].result
    BY <1>6, <2>1 DEF Fresh
  <2>3. journal[d].result # 0
    <3>1. job[d].step = "adopt"
      BY <1>6 DEF Adopt, At
    <3> QED
      BY <3>1 DEF ShapeInv, Shape, RebaseSteps, JournalShape
  <2>4. RoomClaim(a, receipt, checkpoint.commit, n)
    BY <1>2, <2>2, <2>3 DEF RoomClaim
  <2>5. ASSUME NEW e \in Device, Claim(e, journal[e], adoption, receipt) PROVE Claim(e, journal[e], a, receipt)
    <3>1. adoption.by # e
      BY <1>6, NamesAreApart DEF NoAdoption
    <3> QED
      BY <2>5, <3>1 DEF Claim
  <2> QED
    BY <1>1, <1>2, <2>2, <2>4, <2>5, ClaimTurns
<1> QED
  BY <1>3, <1>4, <1>5, <1>6, RoomMoves

(***************************************************************************)
(* The checkpoint is on the branch                                         *)
(***************************************************************************)
\* a is the room's adoption, C the commit of its checkpoint, A the commits of the
\* branch, l the leader of generation g.
RecordLine(a, C, A) == C = 0 \/ C \in A \/ (a.from = C /\ a.result \in A)

Fits(d, r, a) == a = NoAdoption \/ (a.by = d /\ a.result = r.result)

OnTheLine(d, j, r, a, A, l, g) ==
    l = d /\ g = j.gen /\ Fits(d, r, a) =>
        /\ r = NoRebase /\ j.step \in Looked /\ j.head # 0 => j.head \in A
        /\ j.step \in {"recover", "publish"} => j.out \in A

LineInv ==
    /\ RecordLine(adoption, checkpoint.commit, Ancestors(remote))
    /\ \A d \in Device :
          OnTheLine(d, job[d], rebase[d], adoption, Ancestors(remote), leader, generation)

\* The branch after a step: it keeps what is on it unless a rebase replaces that.
LEMMA BranchLine ==
    ASSUME TypeInv, ShapeInv, [BranchNext]_branchVars, NEW A, A = Ancestors(remote)'
    PROVE  /\ \A d \in Device : \A heard : Push(d, heard) => remote' \in A /\ job[d].parent \in A
           /\ \/ Ancestors(remote) \subseteq A
              \/ \E d \in Device, heard \in BOOLEAN : Push(d, heard) /\ rebase[d] # NoRebase
           /\ remote # 0 => remote \in Ancestors(remote)
<1>1. \A id : remote' = id => A = Ancestors(id)'
  BY DEF Ancestors
<1>2. remote \in 0..Len(commits) /\ Len(commits) \in Nat /\ HistoryTypes
  BY DevicesOfTypes, HistoryTypesUnfold
<1>3. remote # 0 => remote \in Ancestors(remote)
  BY <1>2, AncestorsFacts
<1>4. ASSUME NEW d \in Device, NEW heard, Push(d, heard)
      PROVE  /\ remote' \in A /\ job[d].parent \in A
             /\ rebase[d] = NoRebase => Ancestors(remote) \subseteq A
  <2>1. PICK id \in Nat : /\ remote' = id /\ id \in Ancestors(id)' /\ job[d].parent \in Ancestors(id)'
                          /\ rebase[d] = NoRebase => Ancestors(remote) \subseteq Ancestors(id)'
    BY <1>4, PushedLine
  <2> QED
    BY <1>1, <2>1
<1>5. ASSUME NEW i \in Item, PushOutside(i) PROVE Ancestors(remote) \subseteq A
  BY <1>1, <1>5, OutsideLine
<1>6. CASE remote' = remote
  <2>1. Ancestors(remote)' = Ancestors(remote)
    <3>1. PICK b \in 0..Len(commits) : b = remote
      BY <1>2
    <3>2. Ancestors(b)' = Ancestors(b)
      BY CommitsStay
    <3>3. A = Ancestors(b)'
      BY <1>1, <1>6, <3>1
    <3> QED
      BY <3>1, <3>2, <3>3
  <2> QED
    BY <1>3, <1>4, <2>1
<1> QED
  BY <1>3, <1>4, <1>5, <1>6, RemoteMoves

\* A lease given out before the last handover does not come back.
LEMMA LeaseStays ==
    ASSUME TypeInv, [BranchNext]_branchVars, NEW d \in Device
    PROVE  leader' = d /\ generation' = job[d].gen => HasLease(d, job[d].gen)
<1>1. job[d].gen \in 0..generation /\ generation \in Nat
  BY DevicesOfTypes DEF JobsTo, HistoryTypes
<1>2. ASSUME NEW e \in Device, Handover(e) PROVE generation' # job[d].gen
  BY <1>1, <1>2 DEF Handover
<1>3. CASE UNCHANGED <<leader, generation>>
  BY <1>3 DEF HasLease
<1>4. UNCHANGED <<leader, generation>> \/ \E e \in Device : Handover(e)
  <2>1. CASE UNCHANGED branchVars \/ ExpireWindow \/ \E i \in Item : Edit(i) \/ PushOutside(i)
    BY <2>1 DEF branchVars, roomVars, ExpireWindow, Edit, PushOutside
  <2>2. ASSUME NEW e \in Device, NEW heard \in BOOLEAN, Calls(e, heard) \/ Compute(e, heard)
        PROVE  UNCHANGED <<leader, generation>>
    BY <2>2 DEF Calls, Compute, Push, Publish, Records, Mark, Adopt, RecoverRow, TakesIn, PublishPending, Integrate,
        FinishIntegration, roomVars
  <2>3. ASSUME NEW e \in Device, Works(e) PROVE UNCHANGED <<leader, generation>>
    BY <2>3 DEF Works, ResolveRebase, ResolveUnmoved, ResolveOwn, ResolveOutside, Looks, MergeOutside, Integrates,
        Capture, CaptureRefused, Fence, FenceRefused, PushRejected, PublishRefused, MarkRefused, Barred, Deposed,
        FindReceipt, ApplyRefused, ApplyGoesOn, Begin, FinishRefused, Adopted, roomVars
  <2>4. ASSUME NEW e \in Device, Hear(e) \/ StartSave(e) \/ PollRemote(e) \/ Asks(e) \/ CallLost(e) \/ Restart(e)
        PROVE  UNCHANGED <<leader, generation>>
    BY <2>4 DEF Hear, StartSave, PollRemote, Asks, SaveNow, RequestRebase, Apply, CallLost, Restart, roomVars
  <2> QED
    BY <2>1, <2>2, <2>3, <2>4 DEF BranchNext, Proceeds, Fails
<1> QED
  BY <1>2, <1>3, <1>4

\* What keeps a device on the line: its place in the room and the branch under it.
Keeps(e, a, A) ==
    HasLease(e, job[e].gen) /\ Fits(e, rebase[e], a) =>
        Fits(e, rebase[e], adoption) /\ Ancestors(remote) \subseteq A

\* A device whose job does not move stays on the line.
LEMMA LineStands ==
    ASSUME TypeInv, LineInv, [BranchNext]_branchVars, NEW a, NEW A, NEW e \in Device, Keeps(e, a, A),
           NEW l, l = leader', NEW g, g = generation'
    PROVE  OnTheLine(e, job[e], rebase[e], a, A, l, g)
<1>1. l = e /\ g = job[e].gen => HasLease(e, job[e].gen)
  BY LeaseStays
<1>2. OnTheLine(e, job[e], rebase[e], adoption, Ancestors(remote), leader, generation)
  BY DEF LineInv
<1> QED
  BY <1>1, <1>2 DEF OnTheLine, Keeps, HasLease

\* One that moves does so too.
LEMMA LineTurns ==
    ASSUME TypeInv, ShapeInv, LineInv, [BranchNext]_branchVars,
           NEW A, A = Ancestors(remote)', NEW a,
           NEW d \in Device, NEW j, NEW r, NEW k, Turns(d, j, r, k), Did(d, j, r, k),
           \A e \in Device \ {d} : Keeps(e, a, A),
           j.step \in Looked =>
              /\ HasLease(d, job[d].gen) /\ Fits(d, rebase[d], a) => Fits(d, rebase[d], adoption)
              /\ rebase[d] = NoRebase => Ancestors(remote) \subseteq A
    PROVE  \A e \in Device : OnTheLine(e, job'[e], rebase'[e], a, A, leader', generation')
<1>1. /\ job'[d] = j /\ rebase'[d] = r /\ journal'[d] = k
      /\ \A e \in Device \ {d} : job'[e] = job[e] /\ rebase'[e] = rebase[e] /\ journal'[e] = journal[e]
  BY TurnsOne
<1>2. PICK l : l = leader'
  OBVIOUS
<1>3. PICK g : g = generation'
  OBVIOUS
<1>4. \A e \in Device \ {d} : OnTheLine(e, job[e], rebase[e], a, A, l, g)
  BY <1>2, <1>3, LineStands
<1>5. SaveShape(j, r)
  <2>1. ShapeInv'
    BY ShapeStep
  <2>2. SaveShape(job'[d], rebase'[d])
    BY <2>1 DEF ShapeInv, Shape, SaveShape
  <2> QED
    BY <1>1, <2>2
<1>6. l = d /\ g = job[d].gen => HasLease(d, job[d].gen)
  BY <1>2, <1>3, LeaseStays
<1>7. OnTheLine(d, job[d], rebase[d], adoption, Ancestors(remote), leader, generation)
  BY DEF LineInv
<1>8. OnTheLine(d, j, r, a, A, l, g)
  <2>1. CASE j.step \notin Looked
    BY <2>1 DEF OnTheLine, Looked
  <2>2. CASE j.step \in Looked
    <3>1. SavesOn(d, j, r, k)
      BY <2>2, QuietSteps DEF Did, Quiet, Claims, Computes
    <3>2. r = rebase[d]
      BY <3>1 DEF SavesOn
    <3>3. j.step = "recover" => r = NoRebase /\ j.head # 0 /\ j.out = j.head
      BY <1>5 DEF SaveShape
    <3>4. SUFFICES ASSUME l = d, g = j.gen, Fits(d, r, a)
                   PROVE  /\ r = NoRebase /\ j.head # 0 => j.head \in A
                          /\ j.step \in {"recover", "publish"} => j.out \in A
      BY DEF OnTheLine
    <3>5. CASE j.head = remote /\ j.step # "publish"
      <4>1. r = NoRebase /\ j.head # 0 => j.head \in A
        BY <2>2, <3>2, <3>5, BranchLine
      <4> QED
        BY <3>3, <3>5, <4>1
    <3>6. ASSUME GoesOn(d, j), r = NoRebase, j.head # 0 PROVE j.head \in A
      <4>1. job[d].step \in Looked /\ j.head = job[d].head /\ j.gen = job[d].gen
        BY <3>6 DEF GoesOn
      <4>2. HasLease(d, job[d].gen) /\ Fits(d, rebase[d], adoption) /\ Ancestors(remote) \subseteq A
        BY <1>6, <2>2, <3>2, <3>4, <3>6, <4>1
      <4> QED
        BY <1>7, <3>2, <3>6, <4>1, <4>2 DEF OnTheLine, HasLease
    <3>7. CASE GoesOn(d, j) /\ j.step \notin {"recover", "publish"}
      BY <3>6, <3>7
    <3>8. CASE GoesOn(d, j) /\ r = NoRebase /\ j.head # 0 /\ j.out = j.head
      BY <3>6, <3>8
    <3>9. CASE GoesOn(d, j) /\ remote' = j.out /\ \E heard : Push(d, heard)
      BY <3>6, <3>9, BranchLine
    <3> QED
      BY <3>1, <3>5, <3>7, <3>8, <3>9 DEF SavesOn
  <2> QED
    BY <2>1, <2>2
<1>9. ASSUME NEW e \in Device PROVE OnTheLine(e, job'[e], rebase'[e], a, A, l, g)
  <2>1. CASE e = d
    BY <1>1, <1>8, <2>1
  <2>2. CASE e # d
    BY <1>1, <1>4, <2>2
  <2> QED
    BY <2>1, <2>2
<1> QED
  BY <1>2, <1>3, <1>9

\* The line is kept when the checkpoint is on it and every device keeps to it.
LEMMA LineKeeps ==
    ASSUME TypeInv, ShapeInv, LineInv, [BranchNext]_branchVars,
           NEW A, A = Ancestors(remote)', NEW a, a = adoption', NEW C, C = checkpoint'.commit,
           RecordLine(a, C, A),
           \/ /\ UNCHANGED <<job, rebase, journal>>
              /\ \A e \in Device : Keeps(e, a, A)
           \/ \E d \in Device : \E j, r, k :
                /\ Turns(d, j, r, k) /\ Did(d, j, r, k)
                /\ \A e \in Device \ {d} : Keeps(e, a, A)
                /\ j.step \in Looked =>
                      /\ HasLease(d, job[d].gen) /\ Fits(d, rebase[d], a) => Fits(d, rebase[d], adoption)
                      /\ rebase[d] = NoRebase => Ancestors(remote) \subseteq A
    PROVE  LineInv'
<1>1. \A e \in Device : OnTheLine(e, job'[e], rebase'[e], a, A, leader', generation')
  <2>1. CASE UNCHANGED <<job, rebase, journal>> /\ \A e \in Device : Keeps(e, a, A)
    <3>1. PICK l : l = leader'
      OBVIOUS
    <3>2. PICK g : g = generation'
      OBVIOUS
    <3>3. \A e \in Device : OnTheLine(e, job[e], rebase[e], a, A, l, g)
      BY <2>1, <3>1, <3>2, LineStands
    <3> QED
      BY <2>1, <3>1, <3>2, <3>3
  <2>2. ASSUME NEW d \in Device, NEW j, NEW r, NEW k, Turns(d, j, r, k), Did(d, j, r, k),
               \A e \in Device \ {d} : Keeps(e, a, A),
               j.step \in Looked =>
                  /\ HasLease(d, job[d].gen) /\ Fits(d, rebase[d], a) => Fits(d, rebase[d], adoption)
                  /\ rebase[d] = NoRebase => Ancestors(remote) \subseteq A
        PROVE  \A e \in Device : OnTheLine(e, job'[e], rebase'[e], a, A, leader', generation')
    BY <2>2, LineTurns
  <2> QED
    BY <2>1, <2>2
<1>2. /\ RecordLine(adoption', checkpoint'.commit, Ancestors(remote)')
      /\ \A e \in Device : OnTheLine(e, job'[e], rebase'[e], adoption', Ancestors(remote)', leader', generation')
  BY <1>1
<1> QED
  BY <1>2 DEF LineInv, RecordLine, OnTheLine, Fits

\* A step after which every device may stay where it is.
LEMMA LineRests ==
    ASSUME TypeInv, ShapeInv, LineInv, [BranchNext]_branchVars,
           NEW A, A = Ancestors(remote)', Ancestors(remote) \subseteq A,
           NEW a, a = adoption', NEW C, C = checkpoint'.commit, RecordLine(a, C, A),
           \A e \in Device : HasLease(e, job[e].gen) /\ Fits(e, rebase[e], a) => Fits(e, rebase[e], adoption)
    PROVE  LineInv'
<1>1. \A e \in Device : Keeps(e, a, A)
  BY DEF Keeps
<1> QED
  BY <1>1, DeviceSteps, LineKeeps

\* A save that carries a rebase, pushed over the save which that replaces.
LEMMA ReplacedLine ==
    ASSUME TypeInv, ShapeInv, ClaimInv, LineInv, [BranchNext]_branchVars,
           NEW A, A = Ancestors(remote)', NEW d \in Device, NEW heard, Push(d, heard), rebase[d] # NoRebase
    PROVE  LineInv'
<1>1. UNCHANGED <<adoption, checkpoint>> /\ job[d].step = "push" /\ remote = rebase[d].from
  BY DEF Push, At, Takes, roomVars
<1>2. Shape(job[d], rebase[d], journal[d], staged[d])
  BY DEF ShapeInv
<1>3. rebase[d].from = journal[d].from /\ rebase[d].result = journal[d].result
  BY <1>2 DEF Shape, RebaseShape
<1>4. job[d].parent = journal[d].result
  BY <1>1, <1>2, <1>3 DEF Shape, SaveShape, OnParent
<1>5. /\ Claim(d, journal[d], adoption, receipt)
      /\ journal[d].result \in receipt => journal[d].from < remote
  BY DEF ClaimInv, Claimed
<1>6. journal[d].result \notin receipt
  BY <1>1, <1>3, <1>5, RecordsOfTypes
<1>7. adoption.by = d /\ adoption.result = journal[d].result
  BY <1>5, <1>6 DEF Claim
<1>8. adoption # NoAdoption
  BY <1>7, NamesAreApart DEF NoAdoption
<1>9. RecordLine(adoption, checkpoint.commit, A)
  BY <1>4, <1>7, <1>8, BranchLine DEF RecordLine, ClaimInv, RoomClaim
<1>10. \A e \in Device \ {d} : Keeps(e, adoption, A)
  BY <1>7, <1>8 DEF Keeps, Fits
<1>11. \E j, r, k : Turns(d, j, r, k) /\ Did(d, j, r, k)
  BY SaveDoes
<1>12. adoption' = adoption /\ checkpoint'.commit = checkpoint.commit
  BY <1>1
<1> QED
  BY <1>9, <1>10, <1>11, <1>12, LineKeeps

\* Every step keeps the line.
LEMMA LineStep ==
    ASSUME TypeInv, ShapeInv, OrderInv, ClaimInv, LineInv, [BranchNext]_branchVars
    PROVE  LineInv'
<1>1. PICK A : A = Ancestors(remote)'
  OBVIOUS
<1>2. RecordLine(adoption, checkpoint.commit, Ancestors(remote))
  BY DEF LineInv
<1>3. CASE \E d \in Device, heard \in BOOLEAN : Push(d, heard) /\ rebase[d] # NoRebase
  BY <1>1, <1>3, ReplacedLine
<1>4. CASE Ancestors(remote) \subseteq A
  <2>1. CASE Still
    <3>1. adoption' = adoption /\ checkpoint'.commit = checkpoint.commit
      BY <2>1 DEF Still
    <3>2. RecordLine(adoption, checkpoint.commit, A)
      BY <1>2, <1>4 DEF RecordLine
    <3> QED
      BY <1>1, <1>4, <3>1, <3>2, LineRests
  <2>2. ASSUME NEW d \in Device, NEW heard, Publish(d, heard), ~Repeats(d), Confirms(job[d].out)
        PROVE  LineInv'
    <3>1. HasLease(d, job[d].gen) /\ Fits(d, rebase[d], adoption) /\ job[d].step \in {"recover", "publish"}
      BY <2>2 DEF Publish, Publishing, Excluded, Carries, Fits
    <3>2. job[d].out \in Ancestors(remote)
      BY <3>1 DEF LineInv, OnTheLine, HasLease
    <3>3. RecordLine(NoAdoption, job[d].out, A)
      BY <1>4, <3>2 DEF RecordLine
    <3>4. \A e \in Device : HasLease(e, job[e].gen) => e = d
      BY <3>1 DEF HasLease
    <3>5. adoption' = NoAdoption /\ checkpoint'.commit = job[d].out
      BY <2>2 DEF Confirms
    <3> QED
      BY <1>1, <1>4, <3>1, <3>3, <3>4, <3>5, LineRests
  <2>3. ASSUME NEW d \in Device, NEW heard, PublishPending(d, heard), HasLease(d, job[d].gen), Confirms(remote)
        PROVE  LineInv'
    <3>1. remote # 0
      BY <2>3 DEF PublishPending, Pushed
    <3>2. RecordLine(NoAdoption, remote, A)
      BY <1>1, <1>4, <3>1, BranchLine DEF RecordLine
    <3>3. \A e \in Device \ {d} : Keeps(e, NoAdoption, A)
      BY <2>3 DEF Keeps, HasLease
    <3>4. PICK j, r, k : Turns(d, j, r, k) /\ Did(d, j, r, k)
      BY <2>3, RebaseDoes
    <3>5. j.step \notin Looked
      <4>1. job'[d] = j
        BY <3>4, TurnsOne
      <4>2. job'[d] = Idle
        BY <2>3, DeviceFunctions DEF PublishPending, Finishes, Stops, Goes
      <4> QED
        BY <4>1, <4>2, QuietSteps
    <3>6. adoption' = NoAdoption /\ checkpoint'.commit = remote
      BY <2>3 DEF Confirms
    <3> QED
      BY <1>1, <3>2, <3>3, <3>4, <3>5, <3>6, LineKeeps
  <2>4. ASSUME NEW d \in Device, NEW heard, Adopt(d, heard), adoption = NoAdoption, adoption' = Fresh(d),
               checkpoint.commit = journal[d].from, UNCHANGED <<receipt, checkpoint>>
        PROVE  LineInv'
    <3>1. PICK a : a = Fresh(d)
      OBVIOUS
    <3>2. a.by = d /\ a # NoAdoption
      BY <3>1, NamesAreApart DEF Fresh, NoAdoption
    <3>3. RecordLine(a, checkpoint.commit, A)
      BY <1>2, <1>4, <2>4 DEF RecordLine, NoAdoption
    <3>4. \A e \in Device \ {d} : Keeps(e, a, A)
      BY <3>2 DEF Keeps, Fits
    <3>5. PICK j, r, k : Turns(d, j, r, k) /\ Did(d, j, r, k)
      BY <2>4, RebaseDoes
    <3>6. j.step \notin Looked
      <4>1. job'[d] = j
        BY <3>5, TurnsOne
      <4>2. Stops(d) \/ Goto(d, AfterAdoption(d))
        BY <2>4 DEF Adopt
      <4>3. Stops(d) => job'[d] = Idle
        BY DeviceFunctions DEF Stops, Goes
      <4>4. PICK i : i = [job[d] EXCEPT !.step = AfterAdoption(d)]
        OBVIOUS
      <4>5. Goto(d, AfterAdoption(d)) => job'[d] = i
        BY <4>4, DeviceFunctions DEF Goto, Goes
      <4>6. job[d] \in JobsTo(Len(commits), Seq0, generation)
        BY RecordsOfTypes
      <4>7. i.step \in Claiming
        BY <4>4, <4>6 DEF JobsTo, AfterAdoption, Claiming
      <4> QED
        BY <4>1, <4>2, <4>3, <4>5, <4>7, QuietSteps
    <3>7. a = adoption' /\ checkpoint'.commit = checkpoint.commit
      BY <2>4, <3>1
    <3> QED
      BY <1>1, <3>3, <3>4, <3>5, <3>6, <3>7, LineKeeps
  <2> QED
    BY <2>1, <2>2, <2>3, <2>4, RoomMoves
<1> QED
  BY <1>1, <1>3, <1>4, BranchLine

\* The journals, the claims and the line hold in every reachable state.
LEMMA LineAlways ==
    BranchSpec => [](TypeInv /\ ShapeInv /\ MergeInv /\ OrderInv /\ LineageInv /\ ClaimInv /\ LineInv)
<1>1. BranchInit => LineageInv /\ ClaimInv /\ LineInv
  <2> SUFFICES ASSUME BranchInit PROVE LineageInv /\ ClaimInv /\ LineInv
    OBVIOUS
  <2>1. /\ checkpoint = NoCheckpoint /\ NoCheckpoint.commit = 0 /\ adoption = NoAdoption /\ receipt = {}
        /\ remote \in {0, 1} /\ Len(commits) \in Nat
    BY InitTypes, DevicesOfTypes, HistoryTypesUnfold DEF BranchInit, NoCheckpoint
  <2>2. \A d \in Device : /\ job[d] = Idle /\ rebase[d] = NoRebase /\ journal[d] = NoJournal
    BY DEF BranchInit
  <2>3. NoJournal.state = "none" /\ NoJournal.from = 0 /\ NoJournal.pending = NoCommit
    BY DEF NoJournal
  <2>4. Idle.step = "idle" /\ Idle.step \notin Looked \cup Claiming
    BY QuietSteps
  <2>5. LineageInv
    BY <2>1, <2>2, <2>3, <2>4 DEF LineageInv, JournalLine
  <2>6. ClaimInv
    BY <2>1, <2>2, <2>4 DEF ClaimInv, RoomClaim, Claimed
  <2>7. LineInv
    BY <2>1, <2>2, <2>4 DEF LineInv, RecordLine, OnTheLine
  <2> QED
    BY <2>5, <2>6, <2>7
<1>2. /\ TypeInv /\ ShapeInv /\ MergeInv /\ OrderInv /\ LineageInv /\ ClaimInv /\ LineInv /\ [BranchNext]_branchVars
      => LineageInv' /\ ClaimInv' /\ LineInv'
  BY LineageStep, ClaimStep, LineStep
<1> QED
  BY <1>1, <1>2, ContentAlways, PTL DEF BranchSpec

\* What the room shows as saved is on the branch, or has just been replaced there
\* by the rebase whose adoption the room holds.
THEOREM RecordStaysOnTheBranch == BranchSpec => []RecordIsOnTheBranch
<1>1. LineInv => RecordIsOnTheBranch
  BY DEF LineInv, RecordLine, RecordIsOnTheBranch
<1> QED
  BY <1>1, LineAlways, PTL

(***************************************************************************)
(* Saving implements SavedSession                                          *)
(***************************************************************************)
\* The names of SavedSession, read here.
LEMMA PromiseReads ==
    /\ Promise!Now = Seq0 /\ Promise!TakenOut = Removed
    /\ \A n : Promise!At(n) = ContentAt(n)
  BY DEF Promise!Now, Promise!TakenOut, Promise!At, Seq0, Removed, ContentAt

\* The branch and the record move one at a time, and neither with the log.
LEMMA OneMoves ==
    ASSUME [BranchNext]_branchVars
    PROVE  \/ UNCHANGED <<remote, checkpoint>>
           \/ \E i \in Item : PushOutside(i)
           \/ \E d \in Device, heard \in BOOLEAN :
                 \/ Push(d, heard) \/ Publish(d, heard) \/ Mark(d, heard) \/ PublishPending(d, heard)
<1>1. CASE UNCHANGED branchVars \/ ExpireWindow \/ \E i \in Item : Edit(i) \/ PushOutside(i)
  BY <1>1 DEF branchVars, roomVars, gitVars, ExpireWindow, Edit
<1>2. ASSUME NEW d \in Device, Handover(d) \/ Hear(d) \/ StartSave(d) \/ PollRemote(d) \/ Asks(d)
                               \/ CallLost(d) \/ Restart(d)
      PROVE  UNCHANGED <<remote, checkpoint>>
  BY <1>2 DEF Handover, Hear, StartSave, PollRemote, Asks, SaveNow, RequestRebase, Apply, CallLost, Restart,
              roomVars, gitVars
<1>3. ASSUME NEW d \in Device, Works(d) PROVE UNCHANGED <<remote, checkpoint>>
  BY <1>3 DEF Works, ResolveRebase, ResolveUnmoved, ResolveOwn, ResolveOutside, Looks, MergeOutside, Integrates,
              Capture, CaptureRefused, Fence, FenceRefused, PushRejected, PublishRefused, MarkRefused,
              Barred, Deposed, FindReceipt, ApplyRefused, ApplyGoesOn, Begin, FinishRefused, Adopted,
              roomVars, gitVars
<1>4. ASSUME NEW d \in Device, NEW heard \in BOOLEAN,
             \/ Adopt(d, heard) \/ RecoverRow(d, heard) \/ Integrate(d, heard) \/ FinishIntegration(d, heard)
             \/ Compute(d, heard)
      PROVE  UNCHANGED <<remote, checkpoint>>
  BY <1>4 DEF Adopt, RecoverRow, Integrate, FinishIntegration, TakesIn, Compute, roomVars, gitVars
<1> QED
  BY <1>1, <1>2, <1>3, <1>4 DEF BranchNext, Proceeds, Fails, Calls

\* A branch that stays where it is holds what it held.
LEMMA BranchStands ==
    ASSUME TypeInv, [BranchNext]_branchVars, remote' = remote
    PROVE  (TreeOf(remote))' = TreeOf(remote)
<1>1. PICK R \in 0..Len(commits) : R = remote
  BY DevicesOfTypes
<1>2. (TreeOf(remote))' = TreeOf(R)'
  BY <1>1 DEF TreeOf
<1> QED
  BY <1>1, <1>2, HistoryStays

\* The rest of the steps change the session, or nothing of the promise.
LEMMA OthersChange ==
    ASSUME TypeInv, [BranchNext]_branchVars, UNCHANGED <<remote, checkpoint>>
    PROVE  Promise!Change \/ UNCHANGED Promise!vars
<1>1. (TreeOf(remote))' = TreeOf(remote)
  BY BranchStands
<1>2. log' = log \/ \E x \in SUBSET Item : log' = Append(log, x)
  BY HistorySteps DEF GrowsTo, NewContent
<1> QED
  BY <1>1, <1>2 DEF Promise!Change, Promise!vars

\* A commit from outside adds to the branch.
LEMMA OutsideAdds ==
    ASSUME TypeInv, [BranchNext]_branchVars, NEW i \in Item, PushOutside(i)
    PROVE  Promise!Outside
<1>1. /\ HistoryTypes /\ remote \in 0..Len(commits) /\ Len(commits) \in Nat /\ remote \in Nat
      /\ commits \in Seq(Commits) /\ TreeOf(remote) \in SUBSET Item
  BY DevicesOfTypes, HistoryTypesUnfold
<1>2. PICK c : c = [parent |-> remote, kind |-> "outside", seq |-> 0, tree |-> TreeOf(remote) \cup {i}]
  OBVIOUS
<1>3. PICK id : id = Len(commits) + 1
  OBVIOUS
<1>4. commits' = Append(commits, c) /\ remote' = id /\ UNCHANGED <<log, checkpoint>>
  BY <1>2, <1>3 DEF PushOutside, roomVars
<1>5. c \in Commits
  BY <1>1, <1>2 DEF Commits
<1>6. PICK cs : cs = Append(commits, c)
  OBVIOUS
<1>7. cs[id] = c /\ id # 0
  BY <1>1, <1>3, <1>5, <1>6, Appended
<1>8. (TreeOf(remote))' = cs[id].tree
  BY <1>4, <1>6, <1>7 DEF TreeOf
<1>9. cs[id].tree = TreeOf(remote) \cup {i}
  BY <1>2, <1>7
<1> QED
  BY <1>1, <1>4, <1>8, <1>9 DEF Promise!Outside

\* A push puts a content of the session on the branch.
LEMMA PushSaves ==
    ASSUME TypeInv, ShapeInv, OrderInv, ContentInv, [BranchNext]_branchVars,
           NEW d \in Device, NEW heard \in BOOLEAN, Push(d, heard)
    PROVE  Promise!Save
<1>1. JobContent(job[d])
  BY DEF ContentInv, DeviceContent
<1>2. PICK id \in 1..Len(commits'), s \in 0..Seq0 : remote' = id /\ TreeOf(id)' = ContentAt(s)
  BY <1>1, PushedTree
<1>3. (TreeOf(remote))' = ContentAt(s)
  BY <1>2 DEF TreeOf
<1>4. UNCHANGED <<log, checkpoint>>
  BY DEF Push, roomVars
<1>5. Removed' = Removed
  BY <1>4 DEF Removed, Seq0
<1>6. TreeOf(remote) \ (TreeOf(remote))' \subseteq Removed
  BY <1>5, BranchKeeps
<1> QED
  BY <1>2, <1>3, <1>4, <1>6, PromiseReads DEF Promise!Save

\* What is recorded was on the branch, and is not older than what was recorded.
LEMMA PublishRecords ==
    ASSUME TypeInv, ContentInv, NEW d \in Device, NEW heard \in BOOLEAN, Publish(d, heard),
           [BranchNext]_branchVars
    PROVE  Promise!Record \/ UNCHANGED Promise!vars
<1>1. UNCHANGED <<log, commits, remote>> /\ checkpoint' = Recorded(d)
  BY DEF Publish, Records, gitVars
<1>2. (TreeOf(remote))' = TreeOf(remote)
  BY <1>1, BranchStands
<1>3. CASE Repeats(d)
  BY <1>1, <1>2, <1>3 DEF Promise!vars, Recorded
<1>4. CASE ~Repeats(d)
  <2>1. checkpoint'.seq = job[d].seq /\ checkpoint'.through = job[d].seq
    BY <1>1, <1>4 DEF Recorded
  <2>2. job[d].seq \in 0..Seq0 /\ checkpoint.seq \in Nat /\ Seq0 \in Nat
    <3>1. job[d].seq \in 0..Seq0 /\ checkpoint.seq \in 0..Seq0 /\ Seq0 \in Nat
      BY RecordsOfTypes, DevicesOfTypes, HistoryTypesUnfold DEF JobsTo, CheckpointsTo
    <3> QED
      BY <3>1
  <2>3. checkpoint.seq <= job[d].seq
    BY <1>4, <2>2 DEF Publish, TooOld
  <2>4. JobContent(job[d]) /\ job[d].step \in {"recover", "publish"}
    BY DEF ContentInv, DeviceContent, Publish, Publishing
  <2>5. KeptOnBranch(ContentAt(job[d].seq))
    BY <2>4 DEF JobContent, Saves
  <2> QED
    BY <1>1, <1>2, <2>1, <2>2, <2>3, <2>5, PromiseReads DEF Promise!Record, KeptOnBranch
<1> QED
  BY <1>3, <1>4

LEMMA PendingRecords ==
    ASSUME TypeInv, ContentInv, NEW d \in Device, NEW heard \in BOOLEAN, PublishPending(d, heard),
           [BranchNext]_branchVars
    PROVE  Promise!Record \/ UNCHANGED Promise!vars
<1>1. remote' = remote /\ (TreeOf(remote))' = TreeOf(remote)
  BY BranchStands DEF PublishPending, gitVars
<1>2. CASE UNCHANGED roomVars
  BY <1>1, <1>2 DEF Promise!vars, roomVars
<1>3. CASE /\ checkpoint' = [commit |-> remote, seq |-> journal[d].seq, through |-> journal[d].seq]
           /\ journal[d].seq >= Larger(checkpoint.seq, adoption.since) /\ log' = log
  <2>1. journal[d].seq \in 0..Seq0 /\ checkpoint.seq \in 0..Seq0 /\ Seq0 \in Nat /\ adoption.since \in Nat
    <3>1. journal[d].seq \in 0..Seq0 /\ checkpoint.seq \in 0..Seq0 /\ adoption.since \in 0..Seq0 /\ Seq0 \in Nat
      BY RecordsOfTypes, DevicesOfTypes, HistoryTypesUnfold DEF JournalsTo, CheckpointsTo, AdoptionsTo
    <3> QED
      BY <3>1
  <2>2. checkpoint.seq <= journal[d].seq
    BY <1>3, <2>1 DEF Larger
  <2>3. TreeOf(remote) = ContentAt(journal[d].seq)
    <3>1. RebaseContent(job[d], rebase[d], journal[d])
      BY DEF ContentInv, DeviceContent
    <3> QED
      BY <3>1 DEF PublishPending, Pushed, RebaseContent, TreeOf
  <2> QED
    BY <1>1, <1>3, <2>1, <2>2, <2>3, PromiseReads DEF Promise!Record
<1> QED
  BY <1>2, <1>3 DEF PublishPending

\* The record marks no content before the one it saved.
MarkedAfter == checkpoint.seq <= checkpoint.through

LEMMA MarkRecords ==
    ASSUME TypeInv, ShapeInv, OrderInv, ContentInv, MarkedAfter, NEW d \in Device, NEW heard \in BOOLEAN,
           Mark(d, heard), [BranchNext]_branchVars
    PROVE  Promise!Record /\ MarkedAfter'
<1>1. remote' = remote /\ (TreeOf(remote))' = TreeOf(remote) /\ log' = log
  BY BranchStands DEF Mark, gitVars
<1>2. /\ job[d].seq \in 0..Seq0 /\ checkpoint.seq \in 0..Seq0 /\ checkpoint.through \in 0..Seq0 /\ Seq0 \in Nat
      /\ checkpoint \in CheckpointsTo(Len(commits), Seq0)
  BY RecordsOfTypes, DevicesOfTypes, HistoryTypesUnfold DEF JobsTo, CheckpointsTo
<1>3. checkpoint' = [checkpoint EXCEPT !.through = Larger(@, job[d].seq)]
  BY DEF Mark
<1>4. checkpoint'.seq = checkpoint.seq /\ checkpoint'.through \in {checkpoint.through, job[d].seq}
  BY <1>2, <1>3 DEF CheckpointsTo, Larger
<1>5. checkpoint.through <= checkpoint'.through
  BY <1>2, <1>3 DEF CheckpointsTo, Larger
<1>6. ContentAt(job[d].seq) = TreeOf(checkpoint.commit) /\ checkpoint.commit # 0
  <2>1. /\ JobContent(job[d]) /\ job[d].step = "mark" /\ HasLease(d, job[d].gen)
        /\ SaveShape(job[d], rebase[d])
    BY DEF ContentInv, DeviceContent, ShapeInv, Shape, Mark, At
  <2>2. Saves(job[d].parent, job[d].seq) /\ job[d].parent # 0 /\ checkpoint.commit = job[d].parent
    BY <2>1 DEF JobContent, SaveShape, OnParent, OrderInv, Ordered
  <2> QED
    BY <2>2 DEF Saves
<1>7. /\ ContentAt(checkpoint.seq) = TreeOf(checkpoint.commit)
      /\ ContentAt(checkpoint.through) = TreeOf(checkpoint.commit)
      /\ KeptOnBranch(TreeOf(checkpoint.commit))
  BY <1>6 DEF ContentInv, RoomContent, HonestMark, Saves
<1>8. checkpoint'.through \in 0..Seq0 /\ checkpoint.seq <= checkpoint'.through
  BY <1>2, <1>4, <1>5 DEF MarkedAfter
<1>9. ContentAt(checkpoint'.through) = ContentAt(checkpoint.seq)
  BY <1>4, <1>6, <1>7
<1> QED
  BY <1>1, <1>2, <1>4, <1>7, <1>8, <1>9, PromiseReads DEF Promise!Record, KeptOnBranch, MarkedAfter

LEMMA MarkedAfterKept ==
    ASSUME TypeInv, ShapeInv, OrderInv, ContentInv, MarkedAfter, [BranchNext]_branchVars
    PROVE  MarkedAfter'
<1>1. CASE checkpoint' = checkpoint
  BY <1>1 DEF MarkedAfter
<1>2. CASE checkpoint'.seq = checkpoint'.through /\ checkpoint'.seq \in Nat
  BY <1>2 DEF MarkedAfter
<1>3. ASSUME NEW d \in Device, NEW heard \in BOOLEAN, Publish(d, heard) PROVE MarkedAfter'
  BY <1>1, <1>2, <1>3, RecordsOfTypes DEF Publish, Records, Recorded
<1>4. ASSUME NEW d \in Device, NEW heard \in BOOLEAN, PublishPending(d, heard) PROVE MarkedAfter'
  BY <1>1, <1>2, <1>4, RecordsOfTypes DEF PublishPending, roomVars
<1>5. ASSUME NEW d \in Device, NEW heard \in BOOLEAN, Push(d, heard) PROVE MarkedAfter'
  BY <1>1, <1>5 DEF Push, roomVars
<1>6. ASSUME NEW i \in Item, PushOutside(i) PROVE MarkedAfter'
  BY <1>1, <1>6 DEF PushOutside, roomVars
<1> QED
  BY <1>1, <1>3, <1>4, <1>5, <1>6, MarkRecords, OneMoves

\* Every step of the branch is one of SavedSession, or changes nothing of it.
LEMMA PromiseStep ==
    ASSUME TypeInv, ShapeInv, OrderInv, ContentInv, MarkedAfter, [BranchNext]_branchVars
    PROVE  [Promise!Next]_(Promise!vars)
  BY OneMoves, OthersChange, OutsideAdds, PushSaves, PublishRecords, PendingRecords, MarkRecords
     DEF Promise!Next

\* Saving, with its outside commits, rebases, lost calls and restarts, implements
\* SavedSession: the branch, the record and the session move one at a time, the
\* branch takes contents the session had, and the record never goes back.
THEOREM BranchRefinesSavedSession == BranchSpec => KeepsPromise
<1>1. BranchInit => Promise!Init /\ MarkedAfter
  <2> SUFFICES ASSUME BranchInit PROVE Promise!Init /\ MarkedAfter
    OBVIOUS
  <2>1. checkpoint.seq = 0 /\ checkpoint.through = 0 /\ log = << {} >>
    BY DEF BranchInit, NoCheckpoint
  <2>2. TreeOf(remote) = {}
    BY DEF BranchInit, TreeOf
  <2> QED
    BY <2>1, <2>2 DEF Promise!Init, MarkedAfter
<1>2. TypeInv /\ ShapeInv /\ OrderInv /\ ContentInv /\ MarkedAfter /\ [BranchNext]_branchVars
      => MarkedAfter' /\ [Promise!Next]_(Promise!vars)
  BY MarkedAfterKept, PromiseStep
<1> QED
  BY <1>1, <1>2, ContentAlways, PTL DEF BranchSpec, KeepsPromise, Promise!Spec

\* What follows from SavedSession, here.
Promised == INSTANCE SavedSessionProofs WITH
    history <- log, branch <- TreeOf(remote), saved <- checkpoint.seq, clean <- checkpoint.through

\* What the room shows as saved is on the branch, but for what members took out:
\* a consequence of the promise alone.
THEOREM RecordedWorkIsKept == BranchSpec => []Promise!SavedIsKept
<1>1. Promise!Spec => []Promised!SavedIsKept
  <2>1. Promise!Init => Promised!Init
    BY DEF Promise!Init, Promised!Init
  <2>2. [Promise!Next]_(Promise!vars) => [Promised!Next]_(Promised!vars)
    BY DEF Promise!Next, Promised!Next, Promise!vars, Promised!vars, Promise!Change, Promised!Change,
           Promise!Save, Promised!Save, Promise!Outside, Promised!Outside, Promise!Record, Promised!Record,
           Promise!Now, Promised!Now, Promise!At, Promised!At, Promise!TakenOut, Promised!TakenOut
  <2> QED
    BY <2>1, <2>2, Promised!SavedStays, PTL DEF Promise!Spec, Promised!Spec
<1>2. Promised!SavedIsKept => Promise!SavedIsKept
  BY DEF Promise!SavedIsKept, Promised!SavedIsKept, Promise!At, Promised!At, Promise!TakenOut, Promised!TakenOut,
         Promise!Now, Promised!Now
<1> QED
  BY <1>1, <1>2, BranchRefinesSavedSession, PTL DEF KeepsPromise
=============================================================================
