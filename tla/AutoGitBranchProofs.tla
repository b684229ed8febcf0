------------------------- MODULE AutoGitBranchProofs -------------------------
(***************************************************************************)
(* Proofs about AutoGitBranch, for any devices, items and bounds.  A Git   *)
(* history is a sequence of commits, each after its parent; what a save,   *)
(* a rebase and a journal name of it only grows.  The shape of a device    *)
(* ties its job to the rebase it carries, its journal on disk and the      *)
(* merge batch it keeps, and MergeInv tells from these whether the merge   *)
(* of a rebase is in the log.                                              *)
(***************************************************************************)
EXTENDS AutoGitBranch, TLAPS, WellFoundedInduction

(***************************************************************************)
(* Histories, as values                                                    *)
(***************************************************************************)
\* A Git history: every commit comes after its parent.
History == {cs \in Seq(Commits) : \A n \in DOMAIN cs : cs[n].parent < n}

\* Ancestors and TreeOf in the history cs.
Line(cs, c) ==
    LET above[n \in 0..Len(cs)] ==
            IF n = 0 THEN {} ELSE {n} \cup above[cs[n].parent]
    IN  above[c]

\* f lists the ancestors of the commits up to k.
Lists(cs, f, k) == f = [n \in 0..k |-> IF n = 0 THEN {} ELSE {n} \cup f[cs[n].parent]]

\* The table of ancestors that Ancestors defines by recursion exists.
LEMMA ListExists ==
    ASSUME NEW cs \in History, NEW k \in 0..Len(cs)
    PROVE  \E f : Lists(cs, f, k)
<1> DEFINE Bad == {n \in 0..Len(cs) : ~ \E f : Lists(cs, f, n)}
<1>1. SUFFICES ASSUME Bad # {} PROVE FALSE
  BY <1>1
<1>2. PICK m \in Bad : \A n \in Bad : ~(<<n, m>> \in OpToRel(<, Nat))
  <2>1. Bad \in SUBSET Nat /\ Len(cs) \in Nat
    BY DEF History
  <2> HIDE DEF Bad
  <2> QED
    BY <1>1, <2>1, WFMin, NatLessThanWellFounded
<1>3. m \in Nat /\ m <= Len(cs) /\ Len(cs) \in Nat /\ ~ \E f : Lists(cs, f, m)
  BY DEF History
<1>4. CASE m = 0
  <2> DEFINE f == [n \in 0..0 |-> {}]
  <2>1. Lists(cs, f, 0)
    BY DEF Lists
  <2> QED
    BY <1>3, <1>4, <2>1
<1>5. CASE m # 0
  <2>1. m - 1 \in 0..Len(cs) /\ m - 1 \in Nat /\ m - 1 < m
    BY <1>3, <1>5
  <2>2. m - 1 \notin Bad
    BY <1>2, <1>3, <2>1 DEF OpToRel
  <2>3. PICK f : Lists(cs, f, m - 1)
    BY <2>1, <2>2
  <2> HIDE DEF Bad
  <2> DEFINE g == [n \in 0..m |-> IF n = m THEN {m} \cup f[cs[m].parent] ELSE f[n]]
  <2>4. \A n \in 1..m : cs[n].parent \in 0..(m - 1) /\ cs[n].parent < n
    <3>1. \A n \in DOMAIN cs : cs[n].parent < n /\ cs[n] \in Commits
      BY DEF History
    <3>2. DOMAIN cs = 1..Len(cs)
      BY DEF History
    <3> QED
      BY <1>3, <3>1, <3>2 DEF Commits
  <2>5. \A n \in 0..m : g[n] = IF n = 0 THEN {} ELSE {n} \cup g[cs[n].parent]
    <3> SUFFICES ASSUME NEW n \in 0..m PROVE g[n] = IF n = 0 THEN {} ELSE {n} \cup g[cs[n].parent]
      OBVIOUS
    <3>1. CASE n = m
      <4>1. g[n] = {m} \cup f[cs[m].parent] /\ cs[m].parent \in 0..m /\ cs[m].parent # m
        BY <1>3, <1>5, <2>4, <3>1
      <4>2. g[cs[m].parent] = f[cs[m].parent]
        BY <4>1
      <4> QED
        BY <1>5, <3>1, <4>1, <4>2
    <3>2. CASE n # m /\ n # 0
      <4>1. n \in 0..(m - 1) /\ n \in 1..m /\ cs[n].parent \in 0..(m - 1)
        BY <1>3, <2>4, <3>2
      <4>2. f[n] = {n} \cup f[cs[n].parent]
        BY <2>3, <3>2, <4>1 DEF Lists
      <4>3. g[n] = f[n] /\ g[cs[n].parent] = f[cs[n].parent]
        BY <1>3, <3>2, <4>1
      <4> QED
        BY <3>2, <4>2, <4>3
    <3>3. CASE n # m /\ n = 0
      <4>1. 0 \in 0..(m - 1)
        BY <1>3, <1>5
      <4>2. f[0] = {}
        BY <2>3, <4>1 DEF Lists
      <4> QED
        BY <3>3, <4>2
    <3> QED
      BY <3>1, <3>2, <3>3
  <2>6. Lists(cs, g, m)
    <3>1. g = [n \in 0..m |-> g[n]]
      OBVIOUS
    <3> HIDE DEF g
    <3> QED
      BY <2>5, <3>1 DEF Lists
  <2> QED
    BY <1>3, <2>6
<1> QED
  BY <1>4, <1>5

\* The ancestors of a commit are the commit and those of its parent.
LEMMA LineUnfolds ==
    ASSUME NEW cs \in History
    PROVE  /\ Line(cs, 0) = {}
           /\ \A c \in DOMAIN cs : cs[c].parent \in 0..(c - 1)
                                   /\ Line(cs, c) = {c} \cup Line(cs, cs[c].parent)
<1> DEFINE above == CHOOSE f : Lists(cs, f, Len(cs))
<1>1. Len(cs) \in Nat /\ DOMAIN cs = 1..Len(cs)
  BY DEF History
<1>2. Lists(cs, above, Len(cs))
  BY <1>1, ListExists
<1>3. \A c : Line(cs, c) = above[c]
  BY DEF Line, Lists
<1> HIDE DEF above
<1>4. \A c \in DOMAIN cs : cs[c].parent \in 0..(c - 1)
  <2>1. \A n \in DOMAIN cs : cs[n].parent < n /\ cs[n] \in Commits
    BY DEF History
  <2> QED
    BY <1>1, <2>1 DEF Commits
<1>5. above[0] = {} /\ \A c \in DOMAIN cs : above[c] = {c} \cup above[cs[c].parent]
  BY <1>1, <1>2 DEF Lists
<1> QED
  BY <1>3, <1>4, <1>5

\* What Append does to a sequence.
LEMMA Appended ==
    ASSUME NEW S, NEW q \in Seq(S), NEW x \in S
    PROVE  /\ Append(q, x) \in Seq(S) /\ Len(q) \in Nat
           /\ Len(Append(q, x)) = Len(q) + 1
           /\ Append(q, x)[Len(q) + 1] = x
           /\ \A n \in 1..Len(q) : Append(q, x)[n] = q[n]
  OBVIOUS

\* q is p, with what was appended to it.
Extends(p, q) == Len(p) <= Len(q) /\ \A n \in 1..Len(p) : q[n] = p[n]

(***************************************************************************)
(* Types, with the commits, changes and generations there are so far       *)
(***************************************************************************)
States == {"none", "computed", "adopting", "adopted", "applied"}
CheckpointsTo(n, s) == [commit : 0..n, seq : 0..s, through : 0..s]
AdoptionsTo(n, s) == [by : Device \cup {NoDevice}, from : 0..n, result : 0..n, since : 0..s]
RebasesTo(n) == [from : 0..n, result : 0..n]
JobsTo(n, s, g) == [step : Steps, gen : 0..g, parent : 0..n, head : 0..n, seq : 0..s, out : 0..n,
                    rebases : BOOLEAN, recovered : BOOLEAN]
JournalsTo(n, s) == [state : States, from : 0..n, result : 0..n, pending : Commits, seq : 0..s]

HistoryTypes ==
    /\ log \in Seq(SUBSET Item) /\ log # << >>
    /\ commits \in History /\ commits # << >>
    /\ \A n \in DOMAIN commits : commits[n].seq <= Seq0
    /\ generation \in Nat

RoomTypes(n, s) ==
    /\ remote \in 0..n
    /\ leader \in Device \cup {NoDevice}
    /\ checkpoint \in CheckpointsTo(n, s) /\ adoption \in AdoptionsTo(n, s)
    /\ receipt \in SUBSET Nat /\ window \in Nat /\ taken \in SUBSET (0..n)
    /\ broughtIn \in SUBSET Nat /\ edits \in Nat /\ faults \in Nat

DeviceTypes(n, s, g) ==
    /\ sees \in [Device -> 0..g]
    /\ mine \in [Device -> CheckpointsTo(n, s)]
    /\ integrated \in [Device -> 0..n] /\ clean \in [Device -> 0..s]
    /\ blocked \in [Device -> BOOLEAN] /\ blockedAt \in [Device -> 0..n]
    /\ rebase \in [Device -> RebasesTo(n)]
    /\ job \in [Device -> JobsTo(n, s, g)]
    /\ journal \in [Device -> JournalsTo(n, s)]
    /\ staged \in [Device -> 0..n]

TypeInv ==
    /\ HistoryTypes /\ RoomTypes(Len(commits), Seq0)
    /\ DeviceTypes(Len(commits), Seq0, generation)

\* What there is of types stays in the types with more.
LEMMA TypesWiden ==
    ASSUME NEW n \in Nat, NEW s \in Nat, NEW g \in Nat,
           NEW m \in Nat, NEW t \in Nat, NEW h \in Nat, n <= m, s <= t, g <= h
    PROVE  /\ 0..n \subseteq 0..m /\ 0..s \subseteq 0..t /\ 0..g \subseteq 0..h
           /\ CheckpointsTo(n, s) \subseteq CheckpointsTo(m, t)
           /\ AdoptionsTo(n, s) \subseteq AdoptionsTo(m, t)
           /\ RebasesTo(n) \subseteq RebasesTo(m)
           /\ JobsTo(n, s, g) \subseteq JobsTo(m, t, h)
           /\ JournalsTo(n, s) \subseteq JournalsTo(m, t)
<1>1. 0..n \subseteq 0..m /\ 0..s \subseteq 0..t /\ 0..g \subseteq 0..h
  OBVIOUS
<1>2. CheckpointsTo(n, s) \subseteq CheckpointsTo(m, t) /\ AdoptionsTo(n, s) \subseteq AdoptionsTo(m, t)
  BY <1>1 DEF CheckpointsTo, AdoptionsTo
<1>3. RebasesTo(n) \subseteq RebasesTo(m) /\ JournalsTo(n, s) \subseteq JournalsTo(m, t)
  BY <1>1 DEF RebasesTo, JournalsTo
<1>4. JobsTo(n, s, g) \subseteq JobsTo(m, t, h)
  BY <1>1 DEF JobsTo
<1> QED
  BY <1>1, <1>2, <1>3, <1>4

\* A device's state stays typed as the history grows.
LEMMA DeviceTypesWiden ==
    ASSUME NEW n \in Nat, NEW s \in Nat, NEW g \in Nat,
           NEW m \in Nat, NEW t \in Nat, NEW h \in Nat, n <= m, s <= t, g <= h,
           DeviceTypes(n, s, g)
    PROVE  DeviceTypes(m, t, h)
<1>1. /\ 0..n \subseteq 0..m /\ 0..s \subseteq 0..t /\ 0..g \subseteq 0..h
      /\ CheckpointsTo(n, s) \subseteq CheckpointsTo(m, t)
      /\ RebasesTo(n) \subseteq RebasesTo(m)
      /\ JobsTo(n, s, g) \subseteq JobsTo(m, t, h)
      /\ JournalsTo(n, s) \subseteq JournalsTo(m, t)
  BY TypesWiden
<1> QED
  BY <1>1 DEF DeviceTypes

\* The room's state stays typed as the history grows.
LEMMA RoomTypesWiden ==
    ASSUME NEW n \in Nat, NEW s \in Nat, NEW m \in Nat, NEW t \in Nat, n <= m, s <= t,
           RoomTypes(n, s)
    PROVE  RoomTypes(m, t)
<1>1. /\ 0..n \subseteq 0..m
      /\ CheckpointsTo(n, s) \subseteq CheckpointsTo(m, t)
      /\ AdoptionsTo(n, s) \subseteq AdoptionsTo(m, t)
  BY TypesWiden
<1> QED
  BY <1>1 DEF RoomTypes

\* What a typed history gives.
LEMMA HistoryTypesUnfold ==
    ASSUME HistoryTypes
    PROVE  /\ log \in Seq(SUBSET Item) /\ Len(log) \in Nat \ {0} /\ Seq0 \in Nat
           /\ Len(log) = Seq0 + 1
           /\ commits \in Seq(Commits) /\ Len(commits) \in Nat \ {0} /\ DOMAIN commits = 1..Len(commits)
           /\ \A n \in 1..Len(commits) : /\ commits[n] \in Commits /\ commits[n].parent \in 0..(n - 1)
                                         /\ commits[n].seq \in 0..Seq0
           /\ \A s \in 0..Seq0 : ContentAt(s) \in SUBSET Item
           /\ \A c \in 0..Len(commits) : TreeOf(c) \in SUBSET Item
<1>1. commits \in Seq(Commits) /\ Len(commits) \in Nat \ {0} /\ DOMAIN commits = 1..Len(commits)
  BY DEF HistoryTypes, History
<1>2. log \in Seq(SUBSET Item) /\ Len(log) \in Nat \ {0} /\ Seq0 \in Nat /\ Len(log) = Seq0 + 1
  BY DEF HistoryTypes, Seq0
<1>3. \A n \in 1..Len(commits) : commits[n] \in Commits
  BY <1>1
<1>4. \A n \in 1..Len(commits) : commits[n].parent < n /\ commits[n].seq <= Seq0
  BY <1>1 DEF HistoryTypes, History
<1>5. \A n \in 1..Len(commits) : commits[n].parent \in 0..(n - 1) /\ commits[n].seq \in 0..Seq0
  BY <1>1, <1>2, <1>3, <1>4 DEF Commits
<1>6. \A s \in 0..Seq0 : ContentAt(s) \in SUBSET Item
  BY <1>2 DEF ContentAt
<1>7. \A c \in 0..Len(commits) : TreeOf(c) \in SUBSET Item
  BY <1>1, <1>3 DEF TreeOf, Commits
<1> QED
  BY <1>1, <1>2, <1>3, <1>5, <1>6, <1>7

(***************************************************************************)
(* How the log, the history and the lease grow                             *)
(***************************************************************************)
\* What a step may put after the log and after the commits.
NewContent(x) == x \in SUBSET Item
NewCommit(c) == c \in Commits /\ c.parent <= Len(commits) /\ c.seq <= Seq0

GrowsTo(q, cs, g) ==
    /\ q = log \/ \E x : NewContent(x) /\ q = Append(log, x)
    /\ cs = commits \/ \E c : NewCommit(c) /\ cs = Append(commits, c)
    /\ g = generation \/ g = generation + 1

\* The result of a merge is content again.
LEMMA MergeIsContent == \A x, y, z : NewContent(Merge(x, y, z))
  BY DEF NewContent, Merge

\* The types, device by device.
LEMMA DevicesOfTypes ==
    ASSUME TypeInv
    PROVE  /\ \A d \in Device :
                /\ job[d] \in JobsTo(Len(commits), Seq0, generation)
                /\ mine[d] \in CheckpointsTo(Len(commits), Seq0)
                /\ journal[d] \in JournalsTo(Len(commits), Seq0)
                /\ rebase[d] \in RebasesTo(Len(commits))
                /\ staged[d] \in 0..Len(commits) /\ integrated[d] \in 0..Len(commits)
                /\ clean[d] \in 0..Seq0 /\ sees[d] \in 0..generation
           /\ checkpoint \in CheckpointsTo(Len(commits), Seq0)
           /\ adoption \in AdoptionsTo(Len(commits), Seq0)
           /\ remote \in 0..Len(commits)
           /\ HistoryTypes
  BY DEF TypeInv, RoomTypes, DeviceTypes

\* The commit a save pushes is a commit.
LEMMA BuiltIsCommit ==
    ASSUME TypeInv, NEW d \in Device
    PROVE  NewCommit(Built(d))
<1>1. job[d] \in JobsTo(Len(commits), Seq0, generation)
  BY DevicesOfTypes
<1>2. HistoryTypes
  BY DevicesOfTypes
<1>3. job[d].out \in 0..Len(commits) /\ job[d].parent \in 0..Len(commits) /\ job[d].seq \in 0..Seq0
  BY <1>1 DEF JobsTo
<1>4. CASE job[d].out # 0
  <2>1. job[d].out \in 1..Len(commits)
    BY <1>2, <1>3, <1>4, HistoryTypesUnfold
  <2>2. /\ commits[job[d].out] \in Commits /\ commits[job[d].out].parent \in 0..(job[d].out - 1)
        /\ commits[job[d].out].seq \in 0..Seq0
    BY <1>2, <2>1, HistoryTypesUnfold
  <2>3. Built(d) = commits[job[d].out]
    BY <1>4 DEF Built
  <2> QED
    BY <1>2, <2>1, <2>2, <2>3, HistoryTypesUnfold DEF NewCommit
<1>5. CASE job[d].out = 0
  <2>1. Built(d) = [parent |-> job[d].parent, tree |-> ContentAt(job[d].seq), kind |-> "own",
                    seq |-> job[d].seq]
    BY <1>5 DEF Built
  <2>2. ContentAt(job[d].seq) \in SUBSET Item /\ Seq0 \in Nat /\ Len(commits) \in Nat
    BY <1>2, <1>3, HistoryTypesUnfold
  <2> QED
    BY <1>3, <2>1, <2>2 DEF NewCommit, Commits
<1> QED
  BY <1>4, <1>5

\* A step appends at most one entry to the log and one commit, and moves the
\* generation by at most one.
LEMMA HistorySteps ==
    ASSUME TypeInv, [BranchNext]_branchVars
    PROVE  GrowsTo(log', commits', generation')
<1> DEFINE Same == log' = log /\ commits' = commits /\ generation' = generation
<1>1. Same => GrowsTo(log', commits', generation')
  BY DEF GrowsTo
<1>2. HistoryTypes /\ remote \in 0..Len(commits)
  BY DevicesOfTypes
<1>3. ASSUME NEW r, TakesIn(leader, r) \/ \E d \in Device : TakesIn(d, r),
             commits' = commits
      PROVE  GrowsTo(log', commits', generation')
  <2>1. PICK d : TakesIn(d, r)
    BY <1>3
  <2>2. generation' = generation
        /\ log' = Append(log, Merge(Content, TreeOf(journal[d].from), TreeOf(r)))
    BY <2>1 DEF TakesIn
  <2> QED
    BY <1>3, <2>2, MergeIsContent DEF GrowsTo
<1>4. CASE UNCHANGED branchVars
  BY <1>1, <1>4 DEF branchVars, roomVars, gitVars
<1>5. CASE ExpireWindow
  BY <1>1, <1>5 DEF ExpireWindow, gitVars
<1>6. ASSUME NEW i \in Item, Edit(i) PROVE GrowsTo(log', commits', generation')
  <2>1. Content \in SUBSET Item
    BY <1>2, HistoryTypesUnfold DEF Content
  <2>2. NewContent(IF i \in Content THEN Content \ {i} ELSE Content \cup {i})
    BY <2>1 DEF NewContent
  <2>3. /\ log' = Append(log, IF i \in Content THEN Content \ {i} ELSE Content \cup {i})
        /\ commits' = commits /\ generation' = generation
    BY <1>6 DEF Edit, gitVars
  <2> QED
    BY <2>2, <2>3 DEF GrowsTo
<1>7. ASSUME NEW i \in Item, PushOutside(i) PROVE GrowsTo(log', commits', generation')
  <2> DEFINE c == [parent |-> remote, kind |-> "outside", seq |-> 0, tree |-> TreeOf(remote) \cup {i}]
  <2>1. log' = log /\ generation' = generation /\ commits' = Append(commits, c)
    BY <1>7 DEF PushOutside, roomVars
  <2>2. TreeOf(remote) \in SUBSET Item /\ Seq0 \in Nat /\ Len(commits) \in Nat
    BY <1>2, HistoryTypesUnfold
  <2>3. NewCommit(c)
    BY <1>2, <2>2 DEF NewCommit, Commits
  <2> QED
    BY <2>1, <2>3 DEF GrowsTo
<1>8. ASSUME NEW d \in Device, Handover(d) PROVE GrowsTo(log', commits', generation')
  BY <1>8 DEF Handover, gitVars, GrowsTo
<1>9. ASSUME NEW d \in Device, MergeOutside(d) PROVE GrowsTo(log', commits', generation')
  <2> DEFINE both == Merge(Content, TreeOf(job[d].parent), TreeOf(job[d].head))
  <2>1. /\ log' = log \/ log' = Append(log, both)
        /\ commits' = commits /\ generation' = generation
    BY <1>9 DEF MergeOutside, Integrates, gitVars
  <2> QED
    BY <2>1, MergeIsContent DEF GrowsTo
<1>10. ASSUME NEW d \in Device, NEW heard, Push(d, heard) PROVE GrowsTo(log', commits', generation')
  <2>1. /\ commits' = commits \/ commits' = Append(commits, Built(d))
        /\ log' = log /\ generation' = generation
    BY <1>10 DEF Push, roomVars
  <2> QED
    BY <2>1, BuiltIsCommit DEF GrowsTo
<1>11. ASSUME NEW d \in Device, NEW conflicts, Compute(d, conflicts)
       PROVE  GrowsTo(log', commits', generation')
  <2> DEFINE c == [parent |-> 1, kind |-> "rebased", seq |-> 0,
                   tree |-> TreeOf(mine[d].commit) \cup {TargetItem}]
  <2>1. /\ commits' = commits \/ commits' = Append(commits, c)
        /\ log' = log /\ generation' = generation
    BY <1>11 DEF Compute, roomVars
  <2>2. mine[d].commit \in 0..Len(commits)
    BY DevicesOfTypes DEF CheckpointsTo
  <2>3. TreeOf(mine[d].commit) \in SUBSET Item /\ Seq0 \in Nat /\ Len(commits) \in Nat \ {0}
    BY <1>2, <2>2, HistoryTypesUnfold
  <2>4. NewCommit(c)
    BY <2>3, NamesAreApart DEF NewCommit, Commits
  <2> QED
    BY <2>1, <2>4 DEF GrowsTo
<1>12. ASSUME NEW d \in Device, NEW heard, RecoverRow(d, heard) PROVE GrowsTo(log', commits', generation')
  <2>1. commits' = commits /\ (UNCHANGED roomVars \/ TakesIn(d, staged[d]))
    BY <1>12 DEF RecoverRow, gitVars
  <2> QED
    BY <1>1, <1>3, <2>1 DEF roomVars
<1>13. ASSUME NEW d \in Device, NEW heard, FinishIntegration(d, heard)
       PROVE  GrowsTo(log', commits', generation')
  <2>1. commits' = commits /\ TakesIn(d, journal[d].result)
    BY <1>13 DEF FinishIntegration, gitVars
  <2> QED
    BY <1>3, <2>1
<1>14. ASSUME NEW d \in Device, NEW heard \in BOOLEAN, Calls(d, heard)
       PROVE  GrowsTo(log', commits', generation')
  <2>1. CASE Publish(d, heard)
    BY <1>1, <2>1 DEF Publish, Records, gitVars
  <2>2. CASE Mark(d, heard)
    BY <1>1, <2>2 DEF Mark, gitVars
  <2>3. CASE Adopt(d, heard)
    BY <1>1, <2>3 DEF Adopt, gitVars
  <2>4. CASE PublishPending(d, heard)
    BY <1>1, <2>4 DEF PublishPending, gitVars, roomVars
  <2>5. CASE Integrate(d, heard)
    BY <1>1, <2>5 DEF Integrate, gitVars
  <2> QED
    BY <1>10, <1>12, <1>13, <1>14, <2>1, <2>2, <2>3, <2>4, <2>5 DEF Calls
<1>15. ASSUME NEW d \in Device, Works(d) PROVE GrowsTo(log', commits', generation')
  <2>1. CASE ResolveRebase(d) \/ ResolveUnmoved(d) \/ ResolveOwn(d) \/ ResolveOutside(d)
    BY <1>1, <2>1 DEF ResolveRebase, ResolveUnmoved, ResolveOwn, ResolveOutside, Looks, gitVars, roomVars
  <2>2. CASE Capture(d) \/ CaptureRefused(d) \/ Fence(d) \/ FenceRefused(d) \/ MarkRefused(d)
    BY <1>1, <2>2 DEF Capture, CaptureRefused, Fence, FenceRefused, MarkRefused, Barred, Deposed, gitVars,
                      roomVars
  <2>3. CASE PushRejected(d) \/ PublishRefused(d)
    BY <1>1, <2>3 DEF PushRejected, PublishRefused, Barred, Deposed, gitVars, roomVars
  <2>4. CASE FindReceipt(d) \/ ApplyRefused(d) \/ ApplyGoesOn(d) \/ Begin(d) \/ FinishRefused(d) \/ Adopted(d)
    BY <1>1, <2>4 DEF FindReceipt, ApplyRefused, ApplyGoesOn, Begin, FinishRefused, Adopted, gitVars, roomVars
  <2> QED
    BY <1>9, <1>15, <2>1, <2>2, <2>3, <2>4 DEF Works
<1>16. ASSUME NEW d \in Device, Hear(d) \/ StartSave(d) \/ PollRemote(d) \/ Asks(d) \/ CallLost(d) \/ Restart(d)
       PROVE  GrowsTo(log', commits', generation')
  BY <1>1, <1>16 DEF Hear, StartSave, PollRemote, Asks, SaveNow, RequestRebase, Apply, CallLost, Restart,
                     gitVars, roomVars
<1> QED
  BY <1>4, <1>5, <1>6, <1>7, <1>8, <1>11, <1>14, <1>15, <1>16 DEF BranchNext, Proceeds, Fails

\* The log, the commits and the generation only grow, and stay well-formed.
LEMMA HistoryGrows ==
    ASSUME HistoryTypes, NEW q, NEW cs, NEW g, GrowsTo(q, cs, g)
    PROVE  /\ q \in Seq(SUBSET Item) /\ q # << >> /\ Extends(log, q)
           /\ cs \in History /\ cs # << >> /\ Extends(commits, cs)
           /\ \A n \in DOMAIN cs : cs[n].seq <= Len(q) - 1
           /\ g \in Nat /\ generation <= g
<1>1. log \in Seq(SUBSET Item) /\ Len(log) \in Nat \ {0}
      /\ commits \in Seq(Commits) /\ Len(commits) \in Nat \ {0}
      /\ Seq0 \in Nat /\ Len(log) = Seq0 + 1
  BY HistoryTypesUnfold
<1>2. \A n \in 1..Len(commits) : commits[n].parent < n /\ commits[n].seq \in Nat /\ commits[n].seq <= Seq0
  BY <1>1, HistoryTypesUnfold
<1>3. q \in Seq(SUBSET Item) /\ q # << >> /\ Extends(log, q) /\ Len(q) \in Nat /\ Len(log) <= Len(q)
  <2>1. CASE q = log
    BY <1>1, <2>1 DEF Extends
  <2>2. ASSUME NEW x, NewContent(x), q = Append(log, x) PROVE <1>3!:
    <3>1. x \in SUBSET Item
      BY <2>2 DEF NewContent
    <3>2. /\ q \in Seq(SUBSET Item) /\ Len(q) = Len(log) + 1
          /\ \A n \in 1..Len(log) : q[n] = log[n]
      BY <1>1, <2>2, <3>1, Appended
    <3> QED
      BY <1>1, <3>2 DEF Extends
  <2> QED
    BY <2>1, <2>2 DEF GrowsTo
<1>4. cs \in Seq(Commits) /\ cs # << >> /\ Extends(commits, cs)
      /\ \A n \in 1..Len(cs) : cs[n].parent < n /\ cs[n].seq <= Seq0 /\ cs[n].seq \in Nat
  <2>1. CASE cs = commits
    BY <1>1, <1>2, <2>1 DEF Extends
  <2>2. ASSUME NEW c, NewCommit(c), cs = Append(commits, c) PROVE <1>4!:
    <3>1. c \in Commits /\ c.parent <= Len(commits) /\ c.seq <= Seq0 /\ c.parent \in Nat /\ c.seq \in Nat
      BY <2>2 DEF NewCommit, Commits
    <3>2. /\ cs \in Seq(Commits) /\ Len(cs) = Len(commits) + 1 /\ cs[Len(commits) + 1] = c
          /\ \A n \in 1..Len(commits) : cs[n] = commits[n]
      BY <1>1, <2>2, <3>1, Appended
    <3>3. c.parent < Len(commits) + 1
      BY <1>1, <3>1
    <3>4. \A n \in 1..Len(cs) : n = Len(commits) + 1 \/ n \in 1..Len(commits)
      BY <1>1, <3>2
    <3>5. \A n \in 1..Len(cs) : cs[n].parent < n /\ cs[n].seq <= Seq0 /\ cs[n].seq \in Nat
      BY <1>2, <3>1, <3>2, <3>3, <3>4
    <3> QED
      BY <1>1, <3>2, <3>5 DEF Extends
  <2> QED
    BY <2>1, <2>2 DEF GrowsTo
<1>5. g \in Nat /\ generation <= g
  BY DEF GrowsTo, HistoryTypes
<1>6. DOMAIN cs = 1..Len(cs)
  BY <1>4
<1>7. cs \in History
  BY <1>4, <1>6 DEF History
<1>8. \A n \in DOMAIN cs : cs[n].seq <= Len(q) - 1
  BY <1>1, <1>3, <1>4, <1>6
<1> QED
  BY <1>3, <1>4, <1>5, <1>7, <1>8

\* The histories stay typed, and only grow.
LEMMA StepGrows ==
    ASSUME TypeInv, [BranchNext]_branchVars
    PROVE  /\ HistoryTypes' /\ Extends(log, log') /\ Extends(commits, commits')
           /\ generation <= generation'
<1>1. HistoryTypes /\ GrowsTo(log', commits', generation')
  BY DevicesOfTypes, HistorySteps
<1>2. /\ log' \in Seq(SUBSET Item) /\ log' # << >> /\ Extends(log, log')
      /\ commits' \in History /\ commits' # << >> /\ Extends(commits, commits')
      /\ \A n \in DOMAIN commits' : commits'[n].seq <= Len(log') - 1
      /\ generation' \in Nat /\ generation <= generation'
  BY <1>1, HistoryGrows
<1> QED
  BY <1>2 DEF HistoryTypes, Seq0

(***************************************************************************)
(* Every step keeps the types                                              *)
(***************************************************************************)
\* The bounds after a step: they hold what there was, and what a step adds.
Bounds(n, s, g) ==
    /\ n \in Nat /\ s \in Nat /\ g \in Nat
    /\ Len(commits) \in 1..n /\ Seq0 \in 0..s /\ generation \in 0..g
    /\ commits' # commits => Len(commits) + 1 = n
    /\ generation' \in 0..g
    /\ remote \in 0..Len(commits)
    /\ RoomTypes(n, s) /\ DeviceTypes(n, s, g) /\ HistoryTypes /\ TypeInv

\* The values that a step gives to a device.
LEMMA BoundsUnfold ==
    ASSUME NEW n, NEW s, NEW g, Bounds(n, s, g), NEW d \in Device
    PROVE  /\ job[d] \in JobsTo(n, s, g) /\ mine[d] \in CheckpointsTo(n, s)
           /\ journal[d] \in JournalsTo(n, s) /\ rebase[d] \in RebasesTo(n)
           /\ staged[d] \in 0..n /\ integrated[d] \in 0..n /\ clean[d] \in 0..s /\ sees[d] \in 0..g
           /\ checkpoint \in CheckpointsTo(n, s) /\ adoption \in AdoptionsTo(n, s)
           /\ remote \in 0..n /\ n \in Nat /\ s \in Nat /\ g \in Nat /\ 1 \in 0..n /\ 0 \in 0..g
           /\ 0 \in 0..s /\ 0 \in 0..n
  BY DEF Bounds, RoomTypes, DeviceTypes

\* Accepting a checkpoint, and counting it as saved, keeps the types.
LEMMA AcceptsTypes ==
    ASSUME NEW n, NEW s, NEW g, Bounds(n, s, g), NEW d \in Device, NEW c \in CheckpointsTo(n, s)
    PROVE  /\ Accepts(d, c) => /\ mine' \in [Device -> CheckpointsTo(n, s)]
                               /\ integrated' \in [Device -> 0..n]
           /\ \A q \in 0..s : CountsSaved(d, c, q) => clean' \in [Device -> 0..s]
<1>1. mine \in [Device -> CheckpointsTo(n, s)] /\ integrated \in [Device -> 0..n]
      /\ clean \in [Device -> 0..s] /\ n \in Nat /\ s \in Nat
  BY DEF Bounds, DeviceTypes
<1>2. Accepts(d, c) => mine' \in [Device -> CheckpointsTo(n, s)] /\ integrated' \in [Device -> 0..n]
  BY <1>1 DEF Accepts
<1>3. ASSUME NEW q \in 0..s, CountsSaved(d, c, q) PROVE clean' \in [Device -> 0..s]
  <2>1. \A a, b \in 0..s : Larger(a, b) \in 0..s
    BY DEF Larger
  <2>2. c.through \in 0..s /\ clean[d] \in 0..s
    BY <1>1 DEF CheckpointsTo
  <2>3. Larger(clean[d], IF Outdated(d, c) THEN q ELSE Larger(q, c.through)) \in 0..s
    BY <2>1, <2>2
  <2>4. clean' = [clean EXCEPT ![d] = Larger(clean[d], IF Outdated(d, c) THEN q ELSE Larger(q, c.through))]
    BY <1>3 DEF CountsSaved
  <2> QED
    BY <1>1, <2>3, <2>4
<1> QED
  BY <1>2, <1>3

\* A job that a step gives to a device.
LEMMA GoesTypes ==
    ASSUME NEW n, NEW s, NEW g, Bounds(n, s, g), NEW d \in Device
    PROVE  /\ \A j \in JobsTo(n, s, g) : Goes(d, j) => job' \in [Device -> JobsTo(n, s, g)]
           /\ \A step \in Steps : Goto(d, step) => job' \in [Device -> JobsTo(n, s, g)]
           /\ Stops(d) => job' \in [Device -> JobsTo(n, s, g)]
           /\ \A b \in BOOLEAN : Begins(d, b) => job' \in [Device -> JobsTo(n, s, g)]
<1>1. job \in [Device -> JobsTo(n, s, g)] /\ sees[d] \in 0..g /\ n \in Nat /\ s \in Nat /\ g \in Nat
  BY DEF Bounds, DeviceTypes
<1>2. \A j \in JobsTo(n, s, g) : Goes(d, j) => job' \in [Device -> JobsTo(n, s, g)]
  BY <1>1 DEF Goes
<1>3. \A step \in Steps : [job[d] EXCEPT !.step = step] \in JobsTo(n, s, g)
  BY <1>1 DEF JobsTo
<1>4. Idle \in JobsTo(n, s, g)
  BY <1>1 DEF JobsTo, Idle, Steps
<1>5. \A b \in BOOLEAN : [Idle EXCEPT !.step = "resolve", !.gen = sees[d], !.rebases = b] \in JobsTo(n, s, g)
  <2>1. "resolve" \in Steps
    BY DEF Steps
  <2> QED
    BY <1>1, <1>4, <2>1 DEF JobsTo
<1> QED
  BY <1>2, <1>3, <1>4, <1>5 DEF Goto, Stops, Begins

\* Calls that fail, and what the room, a timer or a member has a device do.
LEMMA EnvironmentTypes ==
    ASSUME NEW n, NEW s, NEW g, Bounds(n, s, g), NEW d \in Device,
           \/ Handover(d) \/ Hear(d) \/ StartSave(d) \/ PollRemote(d)
           \/ Asks(d) \/ CallLost(d) \/ Restart(d)
    PROVE  RoomTypes(n, s)' /\ DeviceTypes(n, s, g)'
<1> USE BoundsUnfold, GoesTypes
<1>1. RoomTypes(n, s) /\ DeviceTypes(n, s, g) /\ generation' \in 0..g /\ generation \in 0..g
      /\ n \in Nat /\ s \in Nat /\ g \in Nat /\ remote \in 0..n
  BY DEF Bounds
<1>2. CASE Handover(d)
  BY <1>1, <1>2 DEF Handover, gitVars, agentVars, diskVars, countVars, RoomTypes, DeviceTypes
<1>3. CASE Hear(d)
  <2>1. /\ mine' \in [Device -> CheckpointsTo(n, s)] /\ integrated' \in [Device -> 0..n]
        /\ clean' \in [Device -> 0..s]
    <3>1. checkpoint \in CheckpointsTo(n, s) /\ 0 \in 0..s
      BY <1>1 DEF RoomTypes
    <3>2. CASE UNCHANGED <<mine, integrated, clean>>
      BY <1>1, <3>2 DEF DeviceTypes
    <3>3. CASE Accepts(d, checkpoint) /\ CountsSaved(d, checkpoint, 0)
      BY <3>1, <3>3, AcceptsTypes
    <3> QED
      BY <1>3, <3>2, <3>3 DEF Hear
  <2> QED
    BY <1>1, <1>3, <2>1 DEF Hear, roomVars, gitVars, diskVars, countVars, RoomTypes, DeviceTypes
<1>4. CASE StartSave(d)
  <2>1. job' \in [Device -> JobsTo(n, s, g)]
    BY <1>1, <1>4, GoesTypes DEF StartSave, DeviceTypes
  <2>2. blocked' \in [Device -> BOOLEAN] /\ blockedAt' \in [Device -> 0..n]
    BY <1>1, <1>4 DEF StartSave, Blocks, DeviceTypes
  <2> QED
    BY <1>1, <1>4, <2>1, <2>2 DEF StartSave, roomVars, gitVars, diskVars, countVars, RoomTypes, DeviceTypes
<1>5. CASE PollRemote(d)
  <2>1. job' \in [Device -> JobsTo(n, s, g)]
    BY <1>1, <1>5, GoesTypes DEF PollRemote, DeviceTypes
  <2>2. blocked' \in [Device -> BOOLEAN] /\ blockedAt' \in [Device -> 0..n]
    BY <1>1, <1>5 DEF PollRemote, Blocks, DeviceTypes
  <2> QED
    BY <1>1, <1>5, <2>1, <2>2 DEF PollRemote, roomVars, gitVars, diskVars, countVars, RoomTypes, DeviceTypes
<1>6. CASE SaveNow(d) \/ RequestRebase(d)
  <2>1. job' \in [Device -> JobsTo(n, s, g)]
    BY <1>6, GoesTypes DEF SaveNow, RequestRebase
  <2>2. blocked' \in [Device -> BOOLEAN]
    BY <1>1, <1>6 DEF SaveNow, RequestRebase, DeviceTypes
  <2> QED
    BY <1>1, <1>6, <2>1, <2>2 DEF SaveNow, RequestRebase, roomVars, gitVars, diskVars, countVars, RoomTypes,
                                  DeviceTypes
<1>7. CASE Apply(d)
  <2>1. [Idle EXCEPT !.step = "row", !.gen = sees[d]] \in JobsTo(n, s, g)
    BY <1>1 DEF DeviceTypes, Idle, JobsTo, Steps
  <2>2. job' \in [Device -> JobsTo(n, s, g)]
    BY <1>7, <2>1, GoesTypes DEF Apply
  <2> QED
    BY <1>1, <1>7, <2>2 DEF Apply, roomVars, gitVars, agentVars, diskVars, countVars, RoomTypes, DeviceTypes
<1>8. CASE CallLost(d)
  <2>1. job' \in [Device -> JobsTo(n, s, g)] /\ faults' \in Nat
    BY <1>1, <1>8, GoesTypes DEF CallLost, Answered, RoomTypes
  <2> QED
    BY <1>1, <1>8, <2>1 DEF CallLost, roomVars, gitVars, agentVars, diskVars, RoomTypes, DeviceTypes
<1>9. CASE Restart(d)
  <2>1. job' \in [Device -> JobsTo(n, s, g)] /\ faults' \in Nat
    BY <1>1, <1>9, GoesTypes DEF Restart, Answered, RoomTypes
  <2>2. NoCheckpoint \in CheckpointsTo(n, s) /\ NoRebase \in RebasesTo(n)
    BY <1>1 DEF NoCheckpoint, NoRebase, CheckpointsTo, RebasesTo
  <2> QED
    BY <1>1, <1>9, <2>1, <2>2 DEF Restart, roomVars, gitVars, diskVars, RoomTypes, DeviceTypes
<1> QED
  BY <1>2, <1>3, <1>4, <1>5, <1>6, <1>7, <1>8, <1>9 DEF Asks

\* How a save or a rebase resolves its parent, and how its capture is refused.
LEMMA ResolveTypes ==
    ASSUME NEW n, NEW s, NEW g, Bounds(n, s, g), NEW d \in Device,
           \/ ResolveRebase(d) \/ ResolveUnmoved(d) \/ ResolveOwn(d) \/ ResolveOutside(d)
    PROVE  RoomTypes(n, s)' /\ DeviceTypes(n, s, g)'
<1>1. /\ RoomTypes(n, s) /\ DeviceTypes(n, s, g) /\ generation' \in 0..g /\ generation \in 0..g
      /\ n \in Nat /\ s \in Nat /\ g \in Nat /\ remote \in 0..n /\ 0 \in 0..n /\ 1 \in 0..n
      /\ HistoryTypes
  BY DEF Bounds
<1>2. /\ job[d] \in JobsTo(n, s, g) /\ rebase[d] \in RebasesTo(n) /\ Base(d) \in 0..n
      /\ rebase[d].result \in 0..n
  BY <1>1 DEF DeviceTypes, Base, Known, CheckpointsTo, RebasesTo
<1>3. \A p \in 0..n, step \in Steps : BuildsOn(d, p, step) => job' \in [Device -> JobsTo(n, s, g)]
  <2> SUFFICES ASSUME NEW p \in 0..n, NEW step \in Steps, BuildsOn(d, p, step)
               PROVE  job' \in [Device -> JobsTo(n, s, g)]
    OBVIOUS
  <2>1. [job[d] EXCEPT !.step = step, !.parent = p, !.head = remote] \in JobsTo(n, s, g)
    BY <1>1, <1>2 DEF JobsTo
  <2> QED
    BY <2>1, GoesTypes DEF BuildsOn
<1>4. "merge" \in Steps /\ "capture" \in Steps /\ "recover" \in Steps
  BY DEF Steps
<1>5. NoRebase \in RebasesTo(n)
  BY <1>1 DEF NoRebase, RebasesTo
<1>6. CASE ResolveRebase(d)
  <2>1. job' \in [Device -> JobsTo(n, s, g)]
    BY <1>2, <1>3, <1>4, <1>6, GoesTypes DEF ResolveRebase
  <2>2. /\ rebase' \in [Device -> RebasesTo(n)]
        /\ blocked' \in [Device -> BOOLEAN] /\ blockedAt' \in [Device -> 0..n]
    BY <1>1, <1>5, <1>6 DEF ResolveRebase, Blocks, DeviceTypes
  <2> QED
    BY <1>1, <1>6, <2>1, <2>2 DEF ResolveRebase, Looks, roomVars, gitVars, diskVars, countVars, RoomTypes,
                                  DeviceTypes
<1>7. CASE ResolveUnmoved(d)
  <2>1. job' \in [Device -> JobsTo(n, s, g)]
    BY <1>2, <1>3, <1>4, <1>7 DEF ResolveUnmoved
  <2> QED
    BY <1>1, <1>7, <2>1 DEF ResolveUnmoved, Looks, roomVars, gitVars, diskVars, countVars, RoomTypes,
                            DeviceTypes
<1>8. CASE ResolveOwn(d)
  <2>1. remote \in 1..Len(commits)
    BY <1>8 DEF ResolveOwn, Bounds
  <2>2. commits[remote].seq \in 0..s
    BY <1>1, <2>1, HistoryTypesUnfold DEF Bounds
  <2>3. [job[d] EXCEPT !.step = "recover", !.parent = remote, !.head = remote,
                       !.out = remote, !.seq = commits[remote].seq] \in JobsTo(n, s, g)
    BY <1>1, <1>2, <1>4, <2>2 DEF JobsTo
  <2>4. job' \in [Device -> JobsTo(n, s, g)]
    BY <1>8, <2>3, GoesTypes DEF ResolveOwn
  <2> QED
    BY <1>1, <1>8, <2>4 DEF ResolveOwn, Looks, roomVars, gitVars, diskVars, countVars, RoomTypes, DeviceTypes
<1>9. CASE ResolveOutside(d)
  <2>1. job' \in [Device -> JobsTo(n, s, g)]
    BY <1>2, <1>3, <1>4, <1>9, GoesTypes DEF ResolveOutside
  <2>2. blocked' \in [Device -> BOOLEAN] /\ blockedAt' \in [Device -> 0..n]
    BY <1>1, <1>9 DEF ResolveOutside, Blocks, DeviceTypes
  <2> QED
    BY <1>1, <1>9, <2>1, <2>2 DEF ResolveOutside, Looks, roomVars, gitVars, diskVars, countVars, RoomTypes,
                                  DeviceTypes
<1> QED
  BY <1>6, <1>7, <1>8, <1>9

\* How a save merges, captures the session and pushes it.
LEMMA SaveTypes ==
    ASSUME NEW n, NEW s, NEW g, Bounds(n, s, g), NEW d \in Device,
           \/ MergeOutside(d) \/ Capture(d) \/ CaptureRefused(d) \/ Fence(d) \/ FenceRefused(d)
           \/ PushRejected(d) \/ PublishRefused(d) \/ MarkRefused(d)
           \/ \E heard : Push(d, heard)
    PROVE  RoomTypes(n, s)' /\ DeviceTypes(n, s, g)'
<1>1. /\ RoomTypes(n, s) /\ DeviceTypes(n, s, g) /\ generation' \in 0..g /\ generation \in 0..g
      /\ n \in Nat /\ s \in Nat /\ g \in Nat /\ remote \in 0..n /\ 0 \in 0..n /\ 0 \in 0..g
      /\ HistoryTypes /\ Seq0 \in 0..s
  BY DEF Bounds
<1>2. /\ job[d] \in JobsTo(n, s, g) /\ rebase[d] \in RebasesTo(n)
      /\ job[d].head \in 0..n /\ job[d].parent \in 0..n /\ job[d].out \in 0..n /\ job[d].seq \in 0..s
  BY <1>1 DEF DeviceTypes, JobsTo
<1>3. {"capture", "fence", "push", "publish", "mark"} \subseteq Steps
  BY DEF Steps
<1>4. CASE MergeOutside(d)
  <2>1. [job[d] EXCEPT !.step = "capture", !.parent = job[d].head] \in JobsTo(n, s, g)
    BY <1>2, <1>3 DEF JobsTo
  <2>2. job' \in [Device -> JobsTo(n, s, g)]
    BY <1>4, <2>1, GoesTypes DEF MergeOutside
  <2>3. /\ integrated' \in [Device -> 0..n] /\ broughtIn' \in SUBSET Nat
        /\ UNCHANGED <<leader, generation, checkpoint, adoption, receipt, window, taken, remote, sees,
                   mine, clean, blocked, blockedAt, rebase, diskVars, edits, faults>>
    <3>1. OutsideCommits \in SUBSET Nat
      BY <1>1, HistoryTypesUnfold DEF OutsideCommits
    <3>2. Integrates(d, job[d].parent, job[d].head)
      BY <1>4 DEF MergeOutside
    <3>3. /\ integrated' = [integrated EXCEPT ![d] = job[d].head]
          /\ broughtIn' = broughtIn \cup (Between(job[d].parent, job[d].head) \cap OutsideCommits)
      BY <3>2 DEF Integrates
    <3>4. broughtIn' \in SUBSET Nat /\ integrated' \in [Device -> 0..n]
      BY <1>1, <1>2, <3>1, <3>3 DEF RoomTypes, DeviceTypes
    <3> QED
      BY <3>2, <3>4 DEF Integrates, gitVars
  <2> QED
    BY <1>1, <2>2, <2>3 DEF diskVars, RoomTypes, DeviceTypes
<1>5. CASE Capture(d)
  <2>1. AfterCapture(d) \in JobsTo(n, s, g)
    <3>1. [job[d] EXCEPT !.seq = Seq0] \in JobsTo(n, s, g)
      BY <1>1, <1>2 DEF JobsTo
    <3>2. ASSUME NEW j \in JobsTo(n, s, g), j.parent \in 0..n
          PROVE  /\ [j EXCEPT !.step = "fence", !.out = 0] \in JobsTo(n, s, g)
                 /\ [j EXCEPT !.step = "fence", !.out = j.parent] \in JobsTo(n, s, g)
                 /\ [j EXCEPT !.step = "publish", !.out = j.parent] \in JobsTo(n, s, g)
                 /\ [j EXCEPT !.step = "mark"] \in JobsTo(n, s, g)
      BY <1>1, <1>3, <3>2 DEF JobsTo
    <3>3. [job[d] EXCEPT !.seq = Seq0].parent \in 0..n
      BY <3>1 DEF JobsTo
    <3> QED
      BY <3>1, <3>2, <3>3 DEF AfterCapture
  <2>2. job' \in [Device -> JobsTo(n, s, g)]
    BY <1>5, <2>1, GoesTypes DEF Capture
  <2> QED
    BY <1>1, <1>5, <2>2 DEF Capture, roomVars, gitVars, agentVars, diskVars, countVars, RoomTypes, DeviceTypes
<1>6. Deposed(d) => RoomTypes(n, s)' /\ DeviceTypes(n, s, g)'
  <2> SUFFICES ASSUME Deposed(d) PROVE RoomTypes(n, s)' /\ DeviceTypes(n, s, g)'
    OBVIOUS
  <2>1. job' \in [Device -> JobsTo(n, s, g)]
    BY GoesTypes DEF Deposed
  <2>2. sees' \in [Device -> 0..g]
    BY <1>1 DEF Deposed, DeviceTypes
  <2> QED
    BY <1>1, <2>1, <2>2 DEF Deposed, roomVars, gitVars, diskVars, countVars, RoomTypes, DeviceTypes
<1>7. Barred(d) => RoomTypes(n, s)' /\ DeviceTypes(n, s, g)'
  <2> SUFFICES ASSUME Barred(d) PROVE RoomTypes(n, s)' /\ DeviceTypes(n, s, g)'
    OBVIOUS
  <2>1. job' \in [Device -> JobsTo(n, s, g)]
    BY GoesTypes DEF Barred
  <2>2. blocked' \in [Device -> BOOLEAN] /\ blockedAt' \in [Device -> 0..n]
    BY <1>1, <1>2 DEF Barred, Blocks, DeviceTypes
  <2> QED
    BY <1>1, <2>1, <2>2 DEF Barred, roomVars, gitVars, diskVars, countVars, RoomTypes, DeviceTypes
<1>8. CASE CaptureRefused(d) \/ FenceRefused(d) \/ MarkRefused(d)
  BY <1>6, <1>7, <1>8 DEF CaptureRefused, FenceRefused, MarkRefused
<1>9. CASE Fence(d)
  <2>1. job' \in [Device -> JobsTo(n, s, g)]
    BY <1>3, <1>9, GoesTypes DEF Fence
  <2>2. journal' \in [Device -> JournalsTo(n, s)]
    <3>1. Built(d) \in Commits
      BY BuiltIsCommit DEF Bounds, NewCommit
    <3>2. [journal[d] EXCEPT !.pending = Built(d), !.seq = job[d].seq] \in JournalsTo(n, s)
      BY <1>1, <1>2, <3>1 DEF DeviceTypes, JournalsTo
    <3>3. journal' = journal
          \/ journal' = [journal EXCEPT ![d] = [journal[d] EXCEPT !.pending = Built(d), !.seq = job[d].seq]]
      BY <1>1, <1>9 DEF Fence, DeviceTypes, JournalsTo
    <3> QED
      BY <1>1, <3>2, <3>3 DEF DeviceTypes
  <2> QED
    BY <1>1, <1>9, <2>1, <2>2 DEF Fence, roomVars, gitVars, agentVars, countVars, RoomTypes, DeviceTypes
<1>10. CASE PushRejected(d)
  <2>1. job' \in [Device -> JobsTo(n, s, g)]
    BY <1>10, GoesTypes DEF PushRejected
  <2> QED
    BY <1>1, <1>10, <2>1 DEF PushRejected, roomVars, gitVars, diskVars, countVars, RoomTypes, DeviceTypes
<1>11. CASE PublishRefused(d)
  <2>1. CASE Deposed(d) \/ Barred(d)
    BY <1>6, <1>7, <2>1
  <2>2. CASE Stops(d) /\ UNCHANGED <<roomVars, gitVars, agentVars, diskVars, countVars>>
    <3>1. job' \in [Device -> JobsTo(n, s, g)]
      BY <2>2, GoesTypes
    <3> QED
      BY <1>1, <2>2, <3>1 DEF roomVars, gitVars, agentVars, diskVars, countVars, RoomTypes, DeviceTypes
  <2> QED
    BY <1>11, <2>1, <2>2 DEF PublishRefused
<1>12. ASSUME NEW heard, Push(d, heard) PROVE RoomTypes(n, s)' /\ DeviceTypes(n, s, g)'
  <2> DEFINE id == IF job[d].out # 0 THEN job[d].out ELSE Len(commits) + 1
  <2>1. id \in 0..n
    <3>1. CASE job[d].out # 0
      BY <1>2, <3>1
    <3>2. CASE job[d].out = 0
      <4>1. commits' = Append(commits, Built(d))
        BY <1>12, <3>2 DEF Push
      <4>2. commits' # commits
        <5>1. commits \in Seq(Commits) /\ Built(d) \in Commits
          BY <1>1, HistoryTypesUnfold, BuiltIsCommit DEF Bounds, NewCommit
        <5>2. Len(commits') = Len(commits) + 1 /\ Len(commits) \in Nat
          BY <4>1, <5>1, Appended
        <5> QED
          BY <5>2
      <4> QED
        BY <1>1, <3>2, <4>2 DEF Bounds
    <3> QED
      BY <3>1, <3>2
  <2>2. [job[d] EXCEPT !.step = "publish", !.out = id] \in JobsTo(n, s, g)
    BY <1>2, <1>3, <2>1 DEF JobsTo
  <2>3. job' \in [Device -> JobsTo(n, s, g)] /\ faults' \in Nat
    BY <1>1, <1>12, <2>2, GoesTypes DEF Push, Answered, RoomTypes
  <2>4. remote' \in 0..n
    BY <1>12, <2>1 DEF Push
  <2> QED
    BY <1>1, <1>12, <2>3, <2>4 DEF Push, roomVars, agentVars, diskVars, RoomTypes, DeviceTypes
<1> QED
  BY <1>4, <1>5, <1>8, <1>9, <1>10, <1>11, <1>12

\* How the room records what is saved.
LEMMA PublishTypes ==
    ASSUME NEW n, NEW s, NEW g, Bounds(n, s, g), NEW d \in Device, NEW heard,
           Publish(d, heard) \/ Mark(d, heard) \/ PublishPending(d, heard) \/ FindReceipt(d)
    PROVE  RoomTypes(n, s)' /\ DeviceTypes(n, s, g)'
<1>1. /\ RoomTypes(n, s) /\ DeviceTypes(n, s, g) /\ generation' \in 0..g /\ generation \in 0..g
      /\ n \in Nat /\ s \in Nat /\ g \in Nat /\ remote \in 0..n /\ 0 \in 0..n /\ 0 \in 0..s
  BY DEF Bounds
<1>2. /\ job[d] \in JobsTo(n, s, g)
      /\ job[d].out \in 0..n /\ job[d].seq \in 0..s
      /\ journal[d] \in JournalsTo(n, s) /\ journal[d].seq \in 0..s
      /\ checkpoint \in CheckpointsTo(n, s) /\ checkpoint.through \in 0..s
      /\ adoption.result \in Nat /\ adoption \in AdoptionsTo(n, s)
  BY <1>1 DEF RoomTypes, DeviceTypes, JobsTo, JournalsTo, CheckpointsTo, AdoptionsTo
<1>3. {"compute", "capture"} \subseteq Steps /\ "applied" \in States
  BY DEF Steps, States
<1>4. NoAdoption \in AdoptionsTo(n, s) /\ NoRebase \in RebasesTo(n)
  BY <1>1 DEF NoAdoption, NoRebase, AdoptionsTo, RebasesTo
<1>5. \A a, b \in 0..s : Larger(a, b) \in 0..s
  BY DEF Larger
<1>6. Saved(d) => job' \in [Device -> JobsTo(n, s, g)]
  BY <1>3, GoesTypes DEF Saved
<1>7. /\ (faults' = faults \/ \E heard2 : Answered(heard2)) => faults' \in Nat
      /\ journal' = journal \/ journal' = [journal EXCEPT ![d].state = "applied"]
            => journal' \in [Device -> JournalsTo(n, s)]
      /\ staged' = staged \/ staged' = [staged EXCEPT ![d] = 0] => staged' \in [Device -> 0..n]
      /\ rebase' = rebase \/ rebase' = [rebase EXCEPT ![d] = NoRebase] => rebase' \in [Device -> RebasesTo(n)]
      /\ blocked' = blocked \/ blocked' = [blocked EXCEPT ![d] = FALSE] => blocked' \in [Device -> BOOLEAN]
  <2>1. [journal[d] EXCEPT !.state = "applied"] \in JournalsTo(n, s)
    BY <1>2, <1>3 DEF JournalsTo
  <2>2. journal \in [Device -> JournalsTo(n, s)]
    BY <1>1 DEF DeviceTypes
  <2>3. journal' = journal \/ journal' = [journal EXCEPT ![d].state = "applied"]
            => journal' \in [Device -> JournalsTo(n, s)]
    BY <2>1, <2>2
  <2>4. (faults' = faults \/ \E heard2 : Answered(heard2)) => faults' \in Nat
    BY <1>1 DEF RoomTypes, Answered
  <2> QED
    BY <1>1, <1>4, <2>3, <2>4 DEF DeviceTypes
<1>8. CASE Publish(d, heard)
  <2>1. Recorded(d) \in CheckpointsTo(n, s)
    BY <1>2 DEF Recorded, CheckpointsTo
  <2>2. /\ checkpoint' \in CheckpointsTo(n, s) /\ adoption' \in AdoptionsTo(n, s)
        /\ receipt' \in SUBSET Nat
        /\ UNCHANGED <<log, leader, generation, window, taken, commits, remote, broughtIn, edits>>
    BY <1>1, <1>2, <1>4, <1>8, <2>1 DEF Publish, Records, RoomTypes, gitVars
  <2>3. /\ mine' \in [Device -> CheckpointsTo(n, s)] /\ integrated' \in [Device -> 0..n]
        /\ clean' \in [Device -> 0..s]
    <3>1. CASE UNCHANGED agentVars
      BY <1>1, <3>1 DEF agentVars, DeviceTypes
    <3>2. CASE Accepts(d, Recorded(d))
               /\ CountsSaved(d, Recorded(d), IF At(d, "recover") THEN 0 ELSE job[d].seq)
      <4>1. (IF At(d, "recover") THEN 0 ELSE job[d].seq) \in 0..s
        BY <1>1, <1>2
      <4> QED
        BY <2>1, <3>2, <4>1, AcceptsTypes
    <3> QED
      BY <1>8, <3>1, <3>2 DEF Publish
  <2>4. job' \in [Device -> JobsTo(n, s, g)]
    BY <1>3, <1>6, <1>8, GoesTypes DEF Publish
  <2>5. /\ UNCHANGED <<sees, blocked, blockedAt>>
        /\ journal' = journal \/ journal' = [journal EXCEPT ![d].state = "applied"]
        /\ staged' = staged \/ staged' = [staged EXCEPT ![d] = 0]
        /\ rebase' = rebase \/ rebase' = [rebase EXCEPT ![d] = NoRebase]
        /\ Answered(heard)
    BY <1>8 DEF Publish, FinishesRebase, agentVars, diskVars
  <2> QED
    BY <1>1, <1>7, <2>2, <2>3, <2>4, <2>5 DEF RoomTypes, DeviceTypes
<1>9. CASE Mark(d, heard)
  <2> DEFINE marked == [checkpoint EXCEPT !.through = Larger(@, job[d].seq)]
  <2>1. marked \in CheckpointsTo(n, s)
    BY <1>2, <1>5 DEF CheckpointsTo
  <2>2. checkpoint' = marked /\ Answered(heard)
        /\ UNCHANGED <<log, leader, generation, adoption, receipt, window, taken, gitVars, sees, blocked,
                       blockedAt, rebase, diskVars, broughtIn, edits>>
    BY <1>9 DEF Mark
  <2>3. /\ mine' \in [Device -> CheckpointsTo(n, s)] /\ integrated' \in [Device -> 0..n]
        /\ clean' \in [Device -> 0..s]
    <3>1. CASE UNCHANGED <<mine, integrated, clean>>
      BY <1>1, <3>1 DEF DeviceTypes
    <3>2. CASE Accepts(d, marked) /\ CountsSaved(d, marked, job[d].seq)
      BY <1>2, <2>1, <3>2, AcceptsTypes
    <3> QED
      BY <1>9, <3>1, <3>2 DEF Mark
  <2>4. job' \in [Device -> JobsTo(n, s, g)]
    BY <1>6, <1>9, GoesTypes DEF Mark
  <2> QED
    BY <1>1, <1>7, <2>1, <2>2, <2>3, <2>4 DEF RoomTypes, DeviceTypes, gitVars, diskVars
<1>10. CASE PublishPending(d, heard)
  <2> DEFINE seq == journal[d].seq
             saved == [commit |-> remote, seq |-> seq, through |-> seq]
  <2>1. saved \in CheckpointsTo(n, s)
    BY <1>1, <1>2 DEF CheckpointsTo
  <2>2. UNCHANGED <<log, leader, generation, window, taken, commits, remote, sees, blockedAt, broughtIn, edits>>
    BY <1>10 DEF PublishPending, roomVars, gitVars
  <2>3. checkpoint' = checkpoint \/ checkpoint' = saved
    BY <1>10 DEF PublishPending, roomVars
  <2>4. adoption' = adoption \/ adoption' = NoAdoption
    BY <1>10 DEF PublishPending, roomVars
  <2>5. receipt' = receipt \/ receipt' = receipt \cup {adoption.result}
    BY <1>10 DEF PublishPending, roomVars
  <2>6. faults' = faults \/ Answered(heard)
    BY <1>10 DEF PublishPending
  <2>7. Stops(d)
    BY <1>10 DEF PublishPending, Finishes
  <2>8. \/ UNCHANGED <<mine, integrated, clean>>
        \/ Accepts(d, saved) /\ CountsSaved(d, saved, 0)
    BY <1>10 DEF PublishPending
  <2>9. /\ journal' = journal \/ journal' = [journal EXCEPT ![d].state = "applied"]
        /\ staged' = staged \/ staged' = [staged EXCEPT ![d] = 0]
        /\ rebase' = rebase \/ rebase' = [rebase EXCEPT ![d] = NoRebase]
        /\ blocked' = blocked \/ blocked' = [blocked EXCEPT ![d] = FALSE]
    BY <1>10 DEF PublishPending, Finishes, diskVars
  <2>10. job' \in [Device -> JobsTo(n, s, g)]
    BY <2>7, GoesTypes
  <2> HIDE DEF saved
  <2>11. /\ mine' \in [Device -> CheckpointsTo(n, s)] /\ integrated' \in [Device -> 0..n]
         /\ clean' \in [Device -> 0..s]
    <3>1. CASE UNCHANGED <<mine, integrated, clean>>
      BY <1>1, <3>1 DEF DeviceTypes
    <3>2. CASE Accepts(d, saved) /\ CountsSaved(d, saved, 0)
      BY <1>1, <2>1, <3>2, AcceptsTypes
    <3> QED
      BY <2>8, <3>1, <3>2
  <2> QED
    BY <1>1, <1>2, <1>4, <1>7, <2>1, <2>2, <2>3, <2>4, <2>5, <2>6, <2>9, <2>10, <2>11 DEF RoomTypes, DeviceTypes
<1>11. CASE FindReceipt(d)
  <2>1. job' \in [Device -> JobsTo(n, s, g)]
    BY <1>11, GoesTypes DEF FindReceipt, Finishes
  <2>2. /\ journal' = [journal EXCEPT ![d].state = "applied"]
        /\ staged' = [staged EXCEPT ![d] = 0]
        /\ rebase' = [rebase EXCEPT ![d] = NoRebase]
        /\ blocked' = [blocked EXCEPT ![d] = FALSE]
        /\ UNCHANGED <<roomVars, gitVars, sees, mine, integrated, clean, blockedAt, countVars>>
    BY <1>11 DEF FindReceipt, Finishes
  <2> QED
    BY <1>1, <1>7, <2>1, <2>2 DEF RoomTypes, DeviceTypes, roomVars, gitVars, countVars
<1> QED
  BY <1>8, <1>9, <1>10, <1>11

\* How a rebase is computed, adopted and merged in.
LEMMA RebaseTypes ==
    ASSUME NEW n, NEW s, NEW g, Bounds(n, s, g), NEW d \in Device, NEW heard,
           \/ Compute(d, heard) \/ RecoverRow(d, heard) \/ ApplyRefused(d) \/ ApplyGoesOn(d) \/ Begin(d)
           \/ Adopt(d, heard) \/ Integrate(d, heard) \/ FinishIntegration(d, heard) \/ FinishRefused(d)
           \/ Adopted(d)
    PROVE  RoomTypes(n, s)' /\ DeviceTypes(n, s, g)'
<1>1. /\ RoomTypes(n, s) /\ DeviceTypes(n, s, g) /\ generation' \in 0..g /\ generation \in 0..g
      /\ n \in Nat /\ s \in Nat /\ g \in Nat /\ remote \in 0..n /\ 0 \in 0..n /\ 0 \in 0..s
      /\ HistoryTypes /\ Seq0 \in 0..s
  BY DEF Bounds
<1>2. /\ job[d] \in JobsTo(n, s, g) /\ job[d].gen \in Nat
      /\ journal[d] \in JournalsTo(n, s) /\ journal[d].from \in 0..n /\ journal[d].result \in 0..n
      /\ mine[d].commit \in 0..n /\ adoption \in AdoptionsTo(n, s) /\ staged[d] \in 0..n
  BY <1>1 DEF RoomTypes, DeviceTypes, JobsTo, JournalsTo, CheckpointsTo
<1>3. /\ {"begin", "receipt", "adopt", "integrate", "finish", "adopted"} \subseteq Steps
      /\ {"computed", "adopting", "adopted"} \subseteq States
  BY DEF Steps, States
<1>4. (faults' = faults \/ Answered(heard)) => faults' \in Nat
  BY <1>1 DEF RoomTypes, Answered
<1>5. \A st \in States : journal' = [journal EXCEPT ![d].state = st] => journal' \in [Device -> JournalsTo(n, s)]
  <2> SUFFICES ASSUME NEW st \in States, journal' = [journal EXCEPT ![d].state = st]
               PROVE  journal' \in [Device -> JournalsTo(n, s)]
    OBVIOUS
  <2>1. [journal[d] EXCEPT !.state = st] \in JournalsTo(n, s)
    BY <1>2 DEF JournalsTo
  <2>2. journal \in [Device -> JournalsTo(n, s)]
    BY <1>1 DEF DeviceTypes
  <2> QED
    BY <2>1, <2>2
<1>6. ASSUME NEW r \in 0..n, TakesIn(d, r)
      PROVE  /\ taken' \in SUBSET (0..n) /\ window' \in Nat
             /\ UNCHANGED <<leader, generation, checkpoint, adoption, receipt>>
  BY <1>1, <1>6 DEF TakesIn, RoomTypes
<1>7. CASE Compute(d, heard)
  <2>1. job' \in [Device -> JobsTo(n, s, g)]
    BY <1>3, <1>7, GoesTypes DEF Compute
  <2>2. journal' \in [Device -> JournalsTo(n, s)]
    <3>1. CASE UNCHANGED <<commits, journal>>
      BY <1>1, <3>1 DEF DeviceTypes
    <3>2. CASE ~UNCHANGED <<commits, journal>>
      <4> DEFINE c == [parent |-> 1, kind |-> "rebased", seq |-> 0,
                       tree |-> TreeOf(mine[d].commit) \cup {TargetItem}]
                 j == [state |-> "computed", from |-> mine[d].commit, result |-> Len(commits) + 1,
                       pending |-> NoCommit, seq |-> 0]
      <4>1. commits' = Append(commits, c) /\ journal' = [journal EXCEPT ![d] = j]
        BY <1>7, <3>2 DEF Compute
      <4>2. commits \in Seq(Commits) /\ TreeOf(mine[d].commit) \in SUBSET Item
        <5>1. mine[d].commit \in 0..Len(commits)
          BY DevicesOfTypes DEF Bounds, CheckpointsTo
        <5> QED
          BY <1>1, <5>1, HistoryTypesUnfold
      <4>3. c \in Commits
        BY <4>2, NamesAreApart DEF Commits
      <4>4. Len(commits') = Len(commits) + 1 /\ Len(commits) \in Nat
        BY <4>1, <4>2, <4>3, Appended
      <4>5. commits' # commits
        BY <4>4
      <4>6. Len(commits) + 1 = n
        BY <4>5 DEF Bounds
      <4>7. NoCommit \in Commits
        BY DEF NoCommit, Commits
      <4>8. j \in JournalsTo(n, s)
        BY <1>1, <1>2, <1>3, <4>6, <4>7 DEF JournalsTo
      <4> QED
        BY <1>1, <4>1, <4>8 DEF DeviceTypes
    <3> QED
      BY <3>1, <3>2
  <2> QED
    BY <1>1, <1>7, <2>1, <2>2 DEF Compute, roomVars, agentVars, countVars, RoomTypes, DeviceTypes
<1>8. CASE RecoverRow(d, heard)
  <2>1. job' \in [Device -> JobsTo(n, s, g)]
    <3>1. \A b \in BOOLEAN : [job[d] EXCEPT !.step = "receipt", !.recovered = b] \in JobsTo(n, s, g)
      BY <1>2, <1>3 DEF JobsTo
    <3> QED
      BY <1>3, <1>8, <3>1, GoesTypes DEF RecoverRow
  <2>2. UNCHANGED roomVars \/ TakesIn(d, staged[d])
    BY <1>8 DEF RecoverRow
  <2>3. /\ taken' \in SUBSET (0..n) /\ window' \in Nat
        /\ UNCHANGED <<leader, generation, checkpoint, adoption, receipt>>
    BY <1>1, <1>2, <1>6, <2>2 DEF roomVars, RoomTypes
  <2>4. staged' \in [Device -> 0..n]
    BY <1>1, <1>8 DEF RecoverRow, DeviceTypes
  <2>5. faults' \in Nat /\ UNCHANGED <<gitVars, agentVars, journal, broughtIn, edits>>
    BY <1>4, <1>8 DEF RecoverRow
  <2> QED
    BY <1>1, <2>1, <2>3, <2>4, <2>5 DEF gitVars, agentVars, RoomTypes, DeviceTypes
<1>9. CASE ApplyRefused(d) \/ ApplyGoesOn(d)
  <2>1. job' \in [Device -> JobsTo(n, s, g)]
    BY <1>3, <1>9, GoesTypes DEF ApplyRefused, ApplyGoesOn
  <2>2. UNCHANGED <<roomVars, gitVars, sees, mine, integrated, clean, blocked, blockedAt, rebase, diskVars,
                    countVars>>
    BY <1>9 DEF ApplyRefused, ApplyGoesOn
  <2> QED
    BY <1>1, <2>1, <2>2 DEF roomVars, gitVars, diskVars, countVars, RoomTypes, DeviceTypes
<1>10. CASE Begin(d)
  <2>1. job' \in [Device -> JobsTo(n, s, g)] /\ journal' \in [Device -> JournalsTo(n, s)]
    BY <1>3, <1>5, <1>10, GoesTypes DEF Begin
  <2> QED
    BY <1>1, <1>10, <2>1 DEF Begin, roomVars, gitVars, agentVars, countVars, RoomTypes, DeviceTypes
<1>11. CASE Adopt(d, heard)
  <2>1. job' \in [Device -> JobsTo(n, s, g)]
    <3>1. AfterAdoption(d) \in Steps
      BY <1>3 DEF AfterAdoption
    <3> QED
      BY <1>11, <3>1, GoesTypes DEF Adopt
  <2>2. [by |-> d, from |-> journal[d].from, result |-> journal[d].result, since |-> Seq0] \in AdoptionsTo(n, s)
    BY <1>1, <1>2 DEF AdoptionsTo
  <2>3. adoption' \in AdoptionsTo(n, s)
    BY <1>2, <1>11, <2>2 DEF Adopt
  <2>4. faults' \in Nat
        /\ UNCHANGED <<log, leader, generation, checkpoint, receipt, window, taken, gitVars,
                       agentVars, diskVars, broughtIn, edits>>
    BY <1>4, <1>11 DEF Adopt
  <2> QED
    BY <1>1, <2>1, <2>3, <2>4 DEF gitVars, agentVars, diskVars, RoomTypes, DeviceTypes
<1>12. CASE Integrate(d, heard)
  <2>1. job' \in [Device -> JobsTo(n, s, g)] /\ staged' \in [Device -> 0..n]
    <3>1. \/ (Goto(d, "adopted") \/ Stops(d)) /\ UNCHANGED staged
          \/ Goto(d, "finish") /\ staged' = [staged EXCEPT ![d] = journal[d].result]
      BY <1>12 DEF Integrate
    <3>2. staged' \in [Device -> 0..n]
      BY <1>1, <1>2, <3>1 DEF DeviceTypes
    <3> QED
      BY <1>3, <3>1, <3>2, GoesTypes
  <2>2. window' \in Nat /\ faults' \in Nat
        /\ UNCHANGED <<log, leader, generation, checkpoint, adoption, receipt, taken, gitVars, agentVars,
                       journal, broughtIn, edits>>
    BY <1>1, <1>2, <1>4, <1>12 DEF Integrate, RoomTypes
  <2> QED
    BY <1>1, <2>1, <2>2 DEF gitVars, agentVars, RoomTypes, DeviceTypes
<1>13. CASE FinishIntegration(d, heard)
  <2>1. job' \in [Device -> JobsTo(n, s, g)] /\ faults' \in Nat
    BY <1>3, <1>4, <1>13, GoesTypes DEF FinishIntegration
  <2>2. /\ taken' \in SUBSET (0..n) /\ window' \in Nat
        /\ UNCHANGED <<leader, generation, checkpoint, adoption, receipt>>
    BY <1>2, <1>6, <1>13 DEF FinishIntegration
  <2> QED
    BY <1>1, <1>13, <2>1, <2>2 DEF FinishIntegration, gitVars, agentVars, diskVars, RoomTypes, DeviceTypes
<1>14. CASE FinishRefused(d)
  <2>1. job' \in [Device -> JobsTo(n, s, g)]
    BY <1>14, GoesTypes DEF FinishRefused
  <2> QED
    BY <1>1, <1>14, <2>1 DEF FinishRefused, roomVars, gitVars, agentVars, diskVars, countVars, RoomTypes,
                             DeviceTypes
<1>15. CASE Adopted(d)
  <2>1. job' \in [Device -> JobsTo(n, s, g)] /\ journal' \in [Device -> JournalsTo(n, s)]
    BY <1>3, <1>5, <1>15, GoesTypes DEF Adopted
  <2>2. [from |-> journal[d].from, result |-> journal[d].result] \in RebasesTo(n)
    BY <1>2 DEF RebasesTo
  <2>3. rebase' \in [Device -> RebasesTo(n)]
    BY <1>1, <1>15, <2>2 DEF Adopted, DeviceTypes
  <2> QED
    BY <1>1, <1>15, <2>1, <2>3 DEF Adopted, roomVars, gitVars, countVars, RoomTypes, DeviceTypes
<1> QED
  BY <1>7, <1>8, <1>9, <1>10, <1>11, <1>12, <1>13, <1>14, <1>15

\* Every step keeps the types.
LEMMA TypeStep ==
    ASSUME TypeInv, [BranchNext]_branchVars
    PROVE  TypeInv'
<1>1. /\ HistoryTypes /\ RoomTypes(Len(commits), Seq0) /\ DeviceTypes(Len(commits), Seq0, generation)
      /\ Len(commits) \in Nat \ {0} /\ Seq0 \in Nat /\ generation \in Nat /\ Len(log) = Seq0 + 1
      /\ commits \in Seq(Commits)
  BY HistoryTypesUnfold DEF TypeInv, HistoryTypes
<1>2. /\ HistoryTypes' /\ Extends(log, log') /\ Extends(commits, commits') /\ generation <= generation'
  BY StepGrows
<1>3. /\ Len(commits') \in Nat /\ Len(log') \in Nat \ {0} /\ generation' \in Nat
      /\ Len(commits) <= Len(commits') /\ Len(log) <= Len(log')
  <2>1. Len(commits') \in Nat /\ Len(log') \in Nat \ {0} /\ generation' \in Nat
    BY <1>2 DEF HistoryTypes, History
  <2> QED
    BY <1>2, <2>1 DEF Extends
<1>4. PICK n, s, g : n = Len(commits') /\ s = Len(log') - 1 /\ g = generation'
  OBVIOUS
<1>5. n \in Nat /\ s \in Nat /\ g \in Nat /\ Len(commits) <= n /\ Seq0 <= s /\ generation <= g
  BY <1>1, <1>2, <1>3, <1>4
<1>6. commits' # commits => Len(commits) + 1 = n
  <2>1. ASSUME NEW c, NewCommit(c), commits' = Append(commits, c) PROVE Len(commits) + 1 = n
    BY <1>1, <1>4, <2>1, Appended DEF NewCommit
  <2> QED
    BY <2>1, HistorySteps DEF GrowsTo
<1>7. Bounds(n, s, g)
  <2>1. RoomTypes(n, s)
    BY <1>1, <1>5, RoomTypesWiden
  <2>2. DeviceTypes(n, s, g)
    BY <1>1, <1>5, DeviceTypesWiden
  <2>3. generation' \in 0..g
    BY <1>4, <1>5
  <2>4. remote \in 0..Len(commits)
    BY <1>1 DEF RoomTypes
  <2> QED
    BY <1>1, <1>5, <1>6, <2>1, <2>2, <2>3, <2>4 DEF Bounds
<1>8. /\ RoomTypes(n, s) /\ DeviceTypes(n, s, g) /\ n \in Nat /\ s \in Nat /\ 0 \in 0..n /\ remote \in 0..n
  BY <1>7, BoundsUnfold DEF Bounds, RoomTypes
<1>9. ASSUME UNCHANGED branchVars PROVE RoomTypes(n, s)' /\ DeviceTypes(n, s, g)'
  BY <1>8, <1>9 DEF branchVars, roomVars, gitVars, agentVars, diskVars, countVars, RoomTypes, DeviceTypes
<1>10. ASSUME NEW i \in Item, Edit(i) PROVE RoomTypes(n, s)' /\ DeviceTypes(n, s, g)'
  BY <1>8, <1>10 DEF Edit, gitVars, agentVars, diskVars, RoomTypes, DeviceTypes
<1>11. ASSUME NEW i \in Item, PushOutside(i) PROVE RoomTypes(n, s)' /\ DeviceTypes(n, s, g)'
  <2>1. commits' # commits
    <3> DEFINE c == [parent |-> remote, kind |-> "outside", seq |-> 0, tree |-> TreeOf(remote) \cup {i}]
    <3>1. commits' = Append(commits, c)
      BY <1>11 DEF PushOutside
    <3>2. remote \in 0..Len(commits)
      BY <1>1 DEF RoomTypes
    <3>3. TreeOf(remote) \in SUBSET Item
      BY <1>1, <3>2, HistoryTypesUnfold
    <3>4. c \in Commits
      BY <1>1, <3>2, <3>3 DEF Commits
    <3>5. Len(commits') = Len(commits) + 1
      BY <1>1, <3>1, <3>4, Appended
    <3> QED
      BY <1>1, <3>5
  <2>2. remote' \in 0..n
    BY <1>1, <1>5, <1>6, <1>11, <2>1 DEF PushOutside
  <2> QED
    BY <1>8, <1>11, <2>2 DEF PushOutside, roomVars, agentVars, diskVars, countVars, RoomTypes, DeviceTypes
<1>12. ASSUME ExpireWindow PROVE RoomTypes(n, s)' /\ DeviceTypes(n, s, g)'
  BY <1>8, <1>12 DEF ExpireWindow, gitVars, agentVars, diskVars, countVars, RoomTypes, DeviceTypes
<1>13. RoomTypes(n, s)' /\ DeviceTypes(n, s, g)'
  <2>1. ASSUME NEW d \in Device, Works(d) \/ (\E heard \in BOOLEAN : Calls(d, heard) \/ Compute(d, heard))
        PROVE  RoomTypes(n, s)' /\ DeviceTypes(n, s, g)'
    BY <1>7, <2>1, ResolveTypes, SaveTypes, PublishTypes, RebaseTypes DEF Works, Calls
  <2>2. ASSUME NEW d \in Device, Handover(d) \/ Hear(d) \/ StartSave(d) \/ PollRemote(d) \/ Asks(d)
                                 \/ CallLost(d) \/ Restart(d)
        PROVE  RoomTypes(n, s)' /\ DeviceTypes(n, s, g)'
    BY <1>7, <2>2, EnvironmentTypes
  <2> QED
    BY <1>9, <1>10, <1>11, <1>12, <2>1, <2>2 DEF BranchNext, Proceeds, Fails
<1>14. TypeInv'
  <2>1. RoomTypes(Len(commits), Seq0)'
    BY <1>4, <1>13 DEF RoomTypes, Seq0
  <2>2. DeviceTypes(Len(commits), Seq0, generation)'
    BY <1>4, <1>13 DEF DeviceTypes, Seq0
  <2> QED
    BY <1>2, <2>1, <2>2 DEF TypeInv
<1> QED
  BY <1>14

\* The initial states are typed.
LEMMA InitTypes == BranchInit => TypeInv
<1> SUFFICES ASSUME BranchInit PROVE TypeInv
  OBVIOUS
<1>1. log = << {} >> /\ commits = << [parent |-> 0, tree |-> {}, kind |-> "base", seq |-> 0] >>
      /\ generation = 0 /\ remote \in {0, 1}
  BY DEF BranchInit
<1>2. Len(log) = 1 /\ Len(commits) = 1 /\ Seq0 = 0 /\ log \in Seq(SUBSET Item)
  BY <1>1 DEF Seq0
<1>3. [parent |-> 0, tree |-> {}, kind |-> "base", seq |-> 0] \in Commits
  BY DEF Commits
<1>4. commits \in Seq(Commits) /\ DOMAIN commits = {1} /\ commits[1].parent = 0 /\ commits[1].seq = 0
  BY <1>1, <1>3
<1>5. commits \in History
  BY <1>4 DEF History
<1>6. HistoryTypes
  BY <1>1, <1>2, <1>4, <1>5 DEF HistoryTypes
<1>7. RoomTypes(1, 0)
  BY <1>1 DEF BranchInit, RoomTypes, CheckpointsTo, AdoptionsTo, NoCheckpoint, NoAdoption
<1>8. DeviceTypes(1, 0, 0)
  <2>1. /\ NoCheckpoint \in CheckpointsTo(1, 0) /\ NoRebase \in RebasesTo(1)
        /\ Idle \in JobsTo(1, 0, 0)
    BY DEF NoCheckpoint, NoRebase, Idle, CheckpointsTo, RebasesTo, JobsTo, Steps
  <2>2. NoCommit \in Commits
    BY DEF NoCommit, Commits
  <2>3. NoJournal \in JournalsTo(1, 0)
    BY <2>2 DEF NoJournal, JournalsTo, States
  <2> QED
    BY <2>1, <2>3 DEF BranchInit, DeviceTypes
<1> QED
  BY <1>1, <1>2, <1>6, <1>7, <1>8 DEF TypeInv

\* The types hold in every reachable state.
LEMMA TypesAlways == BranchSpec => []TypeInv
<1>1. BranchInit => TypeInv
  BY InitTypes
<1>2. TypeInv /\ [BranchNext]_branchVars => TypeInv'
  BY TypeStep
<1> QED
  BY <1>1, <1>2, PTL DEF BranchSpec

\* The types of the room and of the devices, as the runs check them.
THEOREM BranchTypes == BranchSpec => []BranchTypeOK
<1>1. TypeInv => BranchTypeOK
  <2> SUFFICES ASSUME TypeInv PROVE BranchTypeOK
    OBVIOUS
  <2>1. Len(commits) \in Nat /\ Seq0 \in Nat /\ commits \in Seq(Commits) /\ HistoryTypes
    BY HistoryTypesUnfold DEF TypeInv
  <2>2. /\ \A n \in Nat : 0..n \subseteq Nat
        /\ CheckpointsTo(Len(commits), Seq0) \subseteq Checkpoints
        /\ AdoptionsTo(Len(commits), Seq0)
             \subseteq [by : Device \cup {NoDevice}, from : Nat, result : Nat, since : Nat]
        /\ RebasesTo(Len(commits)) \subseteq [from : Nat, result : Nat]
    BY <2>1 DEF CheckpointsTo, AdoptionsTo, RebasesTo, Checkpoints
  <2>3. /\ JobsTo(Len(commits), Seq0, generation)
             \subseteq [step : Steps, gen : Nat, parent : Nat, head : Nat, seq : Nat,
                        out : Nat, rebases : BOOLEAN, recovered : BOOLEAN]
        /\ JournalsTo(Len(commits), Seq0)
             \subseteq [state : {"none", "computed", "adopting", "adopted", "applied"},
                        from : Nat, result : Nat, pending : Commits, seq : Nat]
    BY <2>1 DEF JobsTo, JournalsTo, States, HistoryTypes
  <2>4. generation \in Nat
    BY <2>1 DEF HistoryTypes
  <2> QED
    BY <2>1, <2>2, <2>3, <2>4 DEF TypeInv, BranchTypeOK, HistoryTypes, RoomTypes, DeviceTypes
<1> QED
  BY <1>1, TypesAlways, PTL

(***************************************************************************)
(* The shape of a device: its job, the rebase it carries, its journal and  *)
(* the merge batch it keeps                                                *)
(***************************************************************************)
Looked == {"recover", "merge", "capture", "fence", "push", "publish", "mark"}
OnParent == {"capture", "fence", "push", "publish", "mark"}
UnderWay == {"adopting", "adopted"}

\* A rebase comes after the save it starts from, and a merge batch is kept
\* while the rebase is being adopted.
JournalShape(k, st) ==
    /\ k.state # "none" <=> k.result # 0
    /\ k.result # 0 => k.from < k.result
    /\ st \in {0, k.result}
    /\ st # 0 => k.state \in UnderWay

\* The rebase that the next save pushes is the journal's.
RebaseShape(r, k) ==
    r # NoRebase => r = [from |-> k.from, result |-> k.result] /\ k.state \in UnderWay

\* A save builds on the branch, or on the rebase over the save it replaces.
SaveShape(j, r) ==
    /\ j.step \in {"recover", "merge", "mark"} => r = NoRebase
    /\ j.step \in {"recover", "merge", "mark"} => j.head # 0
    /\ j.step = "recover" => j.parent = j.head /\ j.out = j.head
    /\ j.step \in OnParent => /\ j.parent # 0
                              /\ r = NoRebase /\ j.head # 0 => j.parent = j.head
                              /\ r # NoRebase => j.parent = r.result /\ j.head = r.from
    /\ j.step \in {"fence", "push"} => j.out \in {0, j.parent}
    /\ j.step = "publish" => j.out # 0

\* A rebase is asked for with none under way, and its own steps follow the journal.
RebaseSteps(j, r, k, st) ==
    /\ j.rebases /\ j.step \in Looked \cup {"resolve", "compute"} =>
         r = NoRebase /\ k.state \notin UnderWay
    /\ j.step = "compute" => j.rebases
    /\ j.step \in {"row", "receipt", "begin"} => k.state \in {"computed", "adopting", "adopted"}
    /\ j.step \in {"adopt", "integrate", "finish", "adopted"} => k.state = "adopting"
    /\ j.step = "finish" => st = k.result

Shape(j, r, k, st) ==
    JournalShape(k, st) /\ RebaseShape(r, k) /\ SaveShape(j, r) /\ RebaseSteps(j, r, k, st)

ShapeInv == \A d \in Device : Shape(job[d], rebase[d], journal[d], staged[d])

\* What a step gives to a device; the others keep what they have.
Moves(d, j, r, k, st) ==
    /\ job' = [job EXCEPT ![d] = j]
    /\ rebase' = [rebase EXCEPT ![d] = r]
    /\ journal' = [journal EXCEPT ![d] = k]
    /\ staged' = [staged EXCEPT ![d] = st]

\* What is kept per device is a function.
LEMMA DeviceFunctions ==
    ASSUME TypeInv
    PROVE  /\ job = [d \in Device |-> job[d]] /\ rebase = [d \in Device |-> rebase[d]]
           /\ journal = [d \in Device |-> journal[d]] /\ staged = [d \in Device |-> staged[d]]
           /\ mine = [d \in Device |-> mine[d]] /\ integrated = [d \in Device |-> integrated[d]]
           /\ clean = [d \in Device |-> clean[d]] /\ sees = [d \in Device |-> sees[d]]
  BY DEF TypeInv, DeviceTypes

\* A step of one device that leaves it in shape leaves every device in shape.
LEMMA ShapeMoves ==
    ASSUME TypeInv, ShapeInv, NEW d \in Device, NEW j, NEW r, NEW k, NEW st,
           Moves(d, j, r, k, st), Shape(j, r, k, st)
    PROVE  ShapeInv'
<1>1. ASSUME NEW e \in Device PROVE Shape(job'[e], rebase'[e], journal'[e], staged'[e])
  <2>1. CASE e = d
    <3>1. job'[e] = j /\ rebase'[e] = r /\ journal'[e] = k /\ staged'[e] = st
      BY <2>1, DeviceFunctions DEF Moves
    <3> QED
      BY <3>1
  <2>2. CASE e # d
    <3>1. job'[e] = job[e] /\ rebase'[e] = rebase[e] /\ journal'[e] = journal[e] /\ staged'[e] = staged[e]
      BY <2>2, DeviceFunctions DEF Moves
    <3> QED
      BY <3>1 DEF ShapeInv
  <2> QED
    BY <2>1, <2>2
<1> QED
  BY <1>1 DEF ShapeInv

\* A job that ends leaves the journal, and a rebase may be given up.
LEMMA ShapeEnds ==
    ASSUME NEW j, NEW r, NEW k, NEW st, Shape(j, r, k, st)
    PROVE  Shape(Idle, r, k, st) /\ Shape(Idle, NoRebase, k, st)
  BY DEF Shape, JournalShape, RebaseShape, SaveShape, RebaseSteps, Idle, Looked, OnParent

\* The rebase is over.
LEMMA ShapeFinishes ==
    ASSUME NEW j, NEW r, NEW k, NEW st, Shape(j, r, k, st), "state" \in DOMAIN k,
           k.state # "none"
    PROVE  Shape(Idle, NoRebase, [k EXCEPT !.state = "applied"], 0)
  BY DEF Shape, JournalShape, RebaseShape, SaveShape, RebaseSteps, Idle, Looked, OnParent, UnderWay

\* A function set to its own value at d is as it was.
LEMMA Unmoved ==
    ASSUME TypeInv, NEW d \in Device
    PROVE  /\ job = [job EXCEPT ![d] = job[d]] /\ rebase = [rebase EXCEPT ![d] = rebase[d]]
           /\ journal = [journal EXCEPT ![d] = journal[d]] /\ staged = [staged EXCEPT ![d] = staged[d]]
  BY DeviceFunctions

\* A step that ends the job of a device, and may have it give up a rebase.
Ends(d) ==
    /\ Stops(d)
    /\ rebase' \in {rebase, [rebase EXCEPT ![d] = NoRebase]}
    /\ UNCHANGED diskVars

\* A job that ends leaves its device in shape.
LEMMA EndsShape ==
    ASSUME TypeInv, ShapeInv, NEW d \in Device, Ends(d)
    PROVE  ShapeInv'
<1>1. PICK r \in {rebase[d], NoRebase} : rebase' = [rebase EXCEPT ![d] = r]
  BY Unmoved DEF Ends
<1>2. Moves(d, Idle, r, journal[d], staged[d])
  BY <1>1, Unmoved DEF Ends, Stops, Goes, Moves, diskVars
<1>3. Shape(Idle, r, journal[d], staged[d])
  <2>1. Shape(job[d], rebase[d], journal[d], staged[d])
    BY DEF ShapeInv
  <2> QED
    BY <2>1, ShapeEnds
<1> QED
  BY <1>2, <1>3, ShapeMoves

\* The types of the fields of a device's records.
LEMMA RecordsOfTypes ==
    ASSUME TypeInv, NEW d \in Device
    PROVE  /\ job[d] \in JobsTo(Len(commits), Seq0, generation)
           /\ job[d].parent \in Nat /\ job[d].head \in Nat /\ job[d].out \in Nat /\ job[d].seq \in Nat
           /\ job[d].rebases \in BOOLEAN /\ job[d].recovered \in BOOLEAN /\ job[d].step \in Steps
           /\ journal[d] \in JournalsTo(Len(commits), Seq0)
           /\ journal[d].from \in Nat /\ journal[d].result \in Nat /\ journal[d].seq \in Nat
           /\ journal[d].state \in States
           /\ rebase[d] \in RebasesTo(Len(commits)) /\ rebase[d].from \in Nat /\ rebase[d].result \in Nat
           /\ mine[d].commit \in Nat /\ mine[d].seq \in Nat /\ mine[d].through \in Nat
           /\ integrated[d] \in Nat /\ clean[d] \in Nat /\ remote \in Nat /\ Len(commits) \in Nat
           /\ staged[d] \in Nat
<1>1. /\ job[d] \in JobsTo(Len(commits), Seq0, generation)
      /\ mine[d] \in CheckpointsTo(Len(commits), Seq0)
      /\ journal[d] \in JournalsTo(Len(commits), Seq0)
      /\ rebase[d] \in RebasesTo(Len(commits))
      /\ staged[d] \in 0..Len(commits) /\ integrated[d] \in 0..Len(commits)
      /\ clean[d] \in 0..Seq0 /\ remote \in 0..Len(commits) /\ HistoryTypes
  BY DevicesOfTypes
<1>2. Len(commits) \in Nat /\ Seq0 \in Nat
  BY <1>1, HistoryTypesUnfold
<1>3. \A n \in Nat : 0..n \subseteq Nat
  OBVIOUS
<1> QED
  BY <1>1, <1>2, <1>3 DEF JobsTo, CheckpointsTo, JournalsTo, RebasesTo

\* The steps of a save.
LEMMA SaveKeepsShape ==
    ASSUME TypeInv, ShapeInv, NEW d \in Device, NEW heard,
           \/ ResolveRebase(d) \/ ResolveUnmoved(d) \/ ResolveOwn(d) \/ ResolveOutside(d)
           \/ MergeOutside(d) \/ Capture(d) \/ CaptureRefused(d) \/ Fence(d) \/ FenceRefused(d)
           \/ Push(d, heard) \/ PushRejected(d) \/ Publish(d, heard) \/ PublishRefused(d)
           \/ Mark(d, heard) \/ MarkRefused(d)
    PROVE  ShapeInv'
<1> DEFINE j0 == job[d]
           r0 == rebase[d]
           k0 == journal[d]
           s0 == staged[d]
<1>1. Shape(j0, r0, k0, s0)
  BY DEF ShapeInv
<1>2. /\ j0 \in JobsTo(Len(commits), Seq0, generation)
      /\ j0.parent \in Nat /\ j0.head \in Nat /\ j0.out \in Nat
      /\ k0 \in JournalsTo(Len(commits), Seq0) /\ k0.state \in States
      /\ Len(commits) \in Nat /\ remote \in Nat
      /\ r0 \in RebasesTo(Len(commits))
  BY RecordsOfTypes
<1>3. /\ job = [job EXCEPT ![d] = j0] /\ rebase = [rebase EXCEPT ![d] = r0]
      /\ journal = [journal EXCEPT ![d] = k0] /\ staged = [staged EXCEPT ![d] = s0]
  BY Unmoved
<1>4. \A j, r, k, st : Moves(d, j, r, k, st) /\ Shape(j, r, k, st) => ShapeInv'
  BY ShapeMoves
<1>5. Ends(d) => ShapeInv'
  BY EndsShape
<1>6. \A j : Goes(d, j) /\ UNCHANGED <<rebase, diskVars>> => Moves(d, j, r0, k0, s0)
  BY <1>3 DEF Goes, Moves, diskVars
<1> HIDE DEF j0, r0, k0, s0
<1>7. CASE ResolveRebase(d)
  <2>1. At(d, "resolve") /\ j0.step = "resolve" /\ r0 # NoRebase /\ UNCHANGED diskVars
    BY <1>7 DEF ResolveRebase, Looks, At, j0, r0
  <2>2. CASE remote = rebase[d].from
    <3> DEFINE j == [j0 EXCEPT !.step = "capture", !.parent = r0.result, !.head = remote]
    <3>1. Goes(d, j) /\ UNCHANGED rebase
      BY <1>7, <2>2 DEF ResolveRebase, BuildsOn, j0, r0
    <3>2. Moves(d, j, r0, k0, s0)
      BY <1>6, <2>1, <3>1
    <3>3. j.step = "capture" /\ j.parent = r0.result /\ j.head = remote /\ j.rebases = j0.rebases
      BY <1>2 DEF JobsTo
    <3>4. remote = r0.from
      BY <2>2 DEF r0
    <3> HIDE DEF j
    <3>5. Shape(j, r0, k0, s0)
      BY <1>1, <2>1, <3>3, <3>4
         DEF Shape, JournalShape, RebaseShape, SaveShape, RebaseSteps, Looked, OnParent, UnderWay
    <3> QED
      BY <1>4, <3>2, <3>5
  <2>3. CASE remote # rebase[d].from
    BY <1>5, <1>7, <2>1, <2>3 DEF ResolveRebase, Ends
  <2> QED
    BY <2>2, <2>3
<1>8. CASE ResolveUnmoved(d)
  <2> DEFINE j == [j0 EXCEPT !.step = "capture", !.parent = Base(d), !.head = remote]
  <2>1. j0.step = "resolve" /\ r0 = NoRebase /\ remote \in {0, Base(d)} /\ Base(d) # 0 /\ Goes(d, j)
        /\ UNCHANGED <<rebase, diskVars>>
    BY <1>8 DEF ResolveUnmoved, Looks, BuildsOn, At, Base, j0, r0
  <2>2. Moves(d, j, r0, k0, s0)
    BY <1>6, <2>1
  <2>3. j.step = "capture" /\ j.parent = Base(d) /\ j.head = remote /\ j.rebases = j0.rebases
    BY <1>2 DEF JobsTo
  <2> HIDE DEF j
  <2>4. Shape(j, r0, k0, s0)
    BY <1>1, <2>1, <2>3
       DEF Shape, JournalShape, RebaseShape, SaveShape, RebaseSteps, Looked, OnParent, UnderWay
  <2> QED
    BY <1>4, <2>2, <2>4
<1>9. CASE ResolveOwn(d)
  <2> DEFINE j == [j0 EXCEPT !.step = "recover", !.parent = remote, !.head = remote,
                             !.out = remote, !.seq = commits[remote].seq]
  <2>1. j0.step = "resolve" /\ r0 = NoRebase /\ remote # 0 /\ Goes(d, j) /\ UNCHANGED <<rebase, diskVars>>
    BY <1>9 DEF ResolveOwn, Looks, At, j0, r0
  <2>2. Moves(d, j, r0, k0, s0)
    BY <1>6, <2>1
  <2>3. j.step = "recover" /\ j.parent = remote /\ j.head = remote /\ j.out = remote /\ j.rebases = j0.rebases
    BY <1>2 DEF JobsTo
  <2> HIDE DEF j
  <2>4. Shape(j, r0, k0, s0)
    BY <1>1, <2>1, <2>3
       DEF Shape, JournalShape, RebaseShape, SaveShape, RebaseSteps, Looked, OnParent, UnderWay
  <2> QED
    BY <1>4, <2>2, <2>4
<1>10. CASE ResolveOutside(d)
  <2>1. j0.step = "resolve" /\ r0 = NoRebase /\ remote # 0 /\ UNCHANGED <<rebase, diskVars>>
    BY <1>10 DEF ResolveOutside, Looks, At, j0, r0
  <2>2. CASE Base(d) \in Ancestors(remote)
    <3> DEFINE j == [j0 EXCEPT !.step = "merge", !.parent = Base(d), !.head = remote]
    <3>1. Moves(d, j, r0, k0, s0)
      BY <1>6, <1>10, <2>1, <2>2 DEF ResolveOutside, BuildsOn, j0
    <3>2. j.step = "merge" /\ j.head = remote /\ j.rebases = j0.rebases
      BY <1>2 DEF JobsTo
    <3> HIDE DEF j
    <3>3. Shape(j, r0, k0, s0)
      BY <1>1, <2>1, <3>2
         DEF Shape, JournalShape, RebaseShape, SaveShape, RebaseSteps, Looked, OnParent, UnderWay
    <3> QED
      BY <1>4, <3>1, <3>3
  <2>3. CASE Base(d) \notin Ancestors(remote)
    BY <1>5, <1>10, <2>1, <2>3 DEF ResolveOutside, Ends
  <2> QED
    BY <2>2, <2>3
<1>11. CASE MergeOutside(d)
  <2> DEFINE j == [j0 EXCEPT !.step = "capture", !.parent = j0.head]
  <2>1. j0.step = "merge" /\ Goes(d, j) /\ UNCHANGED <<rebase, diskVars>>
    BY <1>11 DEF MergeOutside, Integrates, At, j0
  <2>2. Moves(d, j, r0, k0, s0)
    BY <1>6, <2>1
  <2>3. j.step = "capture" /\ j.parent = j0.head /\ j.head = j0.head /\ j.rebases = j0.rebases
    BY <1>2 DEF JobsTo
  <2> HIDE DEF j
  <2>4. Shape(j, r0, k0, s0)
    BY <1>1, <2>1, <2>3
       DEF Shape, JournalShape, RebaseShape, SaveShape, RebaseSteps, Looked, OnParent, UnderWay
  <2> QED
    BY <1>4, <2>2, <2>4
<1>12. CASE Capture(d)
  <2> DEFINE j == AfterCapture(d)
  <2>1. j0.step = "capture" /\ Goes(d, j) /\ UNCHANGED <<rebase, diskVars>>
    BY <1>12 DEF Capture, At, agentVars, j0
  <2>2. Moves(d, j, r0, k0, s0)
    BY <1>6, <2>1
  <2>3. /\ j.parent = j0.parent /\ j.head = j0.head /\ j.rebases = j0.rebases
        /\ \/ j.step = "fence" /\ j.out \in {0, j0.parent}
           \/ j.step = "publish" /\ j.out = j0.parent
           \/ j.step = "mark" /\ r0 = NoRebase /\ j0.head # 0
    <3>1. CASE Content # TreeOf(j0.parent)
      BY <1>2, <3>1 DEF AfterCapture, JobsTo, j0, r0
    <3>2. CASE Content = TreeOf(j0.parent) /\ (r0 # NoRebase \/ j0.head = 0)
      BY <1>2, <3>2 DEF AfterCapture, JobsTo, j0, r0
    <3>3. CASE Content = TreeOf(j0.parent) /\ r0 = NoRebase /\ j0.head # 0
      BY <1>2, <3>3 DEF AfterCapture, JobsTo, j0, r0
    <3> QED
      BY <3>1, <3>2, <3>3
  <2> HIDE DEF j
  <2>4. Shape(j, r0, k0, s0)
    BY <1>1, <2>1, <2>3
       DEF Shape, JournalShape, RebaseShape, SaveShape, RebaseSteps, Looked, OnParent, UnderWay
  <2> QED
    BY <1>4, <2>2, <2>4
<1>13. CASE Fence(d)
  <2> DEFINE j == [j0 EXCEPT !.step = "push"]
  <2>1. j0.step = "fence" /\ Goes(d, j) /\ UNCHANGED <<rebase, staged>>
    BY <1>13 DEF Fence, Goto, At, agentVars, j0
  <2>2. PICK k : journal' = [journal EXCEPT ![d] = k]
                 /\ k.state = k0.state /\ k.from = k0.from /\ k.result = k0.result
    <3>1. \/ journal' = journal
          \/ journal' = [journal EXCEPT ![d] = [k0 EXCEPT !.pending = Built(d), !.seq = j0.seq]]
      BY <1>2, <1>13, DeviceFunctions DEF Fence, JournalsTo, j0, k0
    <3>2. LET k == [k0 EXCEPT !.pending = Built(d), !.seq = j0.seq]
          IN  k.state = k0.state /\ k.from = k0.from /\ k.result = k0.result
      BY <1>2 DEF JournalsTo
    <3> QED
      BY <1>3, <3>1, <3>2
  <2>3. Moves(d, j, r0, k, s0)
    BY <1>3, <2>1, <2>2 DEF Goes, Moves
  <2>4. j.step = "push" /\ j.parent = j0.parent /\ j.head = j0.head /\ j.out = j0.out /\ j.rebases = j0.rebases
    BY <1>2 DEF JobsTo
  <2> HIDE DEF j
  <2>5. Shape(j, r0, k, s0)
    BY <1>1, <2>1, <2>2, <2>4
       DEF Shape, JournalShape, RebaseShape, SaveShape, RebaseSteps, Looked, OnParent, UnderWay
  <2> QED
    BY <1>4, <2>3, <2>5
<1>14. CASE Push(d, heard)
  <2>1. CASE Stops(d)
    BY <1>5, <1>14, <2>1 DEF Push, Ends, agentVars
  <2>2. CASE ~Stops(d)
    <3> DEFINE id == IF j0.out # 0 THEN j0.out ELSE Len(commits) + 1
               j == [j0 EXCEPT !.step = "publish", !.out = id]
    <3>1. j0.step = "push" /\ Goes(d, j) /\ UNCHANGED <<rebase, diskVars>>
      BY <1>14, <2>2 DEF Push, At, agentVars, j0
    <3>2. Moves(d, j, r0, k0, s0)
      BY <1>6, <3>1
    <3>3. id # 0
      BY <1>2
    <3>4. j.step = "publish" /\ j.out = id /\ j.parent = j0.parent /\ j.head = j0.head
          /\ j.rebases = j0.rebases
      BY <1>2 DEF JobsTo
    <3> HIDE DEF j, id
    <3>5. Shape(j, r0, k0, s0)
      BY <1>1, <3>1, <3>3, <3>4
         DEF Shape, JournalShape, RebaseShape, SaveShape, RebaseSteps, Looked, OnParent, UnderWay
    <3> QED
      BY <1>4, <3>2, <3>5
  <2> QED
    BY <2>1, <2>2
<1>15. CASE Mark(d, heard)
  <2>1. j0.step = "mark" /\ UNCHANGED <<rebase, diskVars>>
    BY <1>15 DEF Mark, At, j0
  <2>2. CASE Stops(d)
    BY <1>5, <2>1, <2>2 DEF Ends
  <2>3. CASE ~Stops(d)
    <3> DEFINE j == [j0 EXCEPT !.step = "compute"]
    <3>1. j0.rebases /\ Goes(d, j)
      BY <1>15, <2>3 DEF Mark, Saved, Goto, j0
    <3>2. Moves(d, j, r0, k0, s0)
      BY <1>6, <2>1, <3>1
    <3>3. j.step = "compute" /\ j.rebases = j0.rebases
      BY <1>2 DEF JobsTo
    <3> HIDE DEF j
    <3>4. Shape(j, r0, k0, s0)
      BY <1>1, <2>1, <3>1, <3>3
         DEF Shape, JournalShape, RebaseShape, SaveShape, RebaseSteps, Looked, OnParent, UnderWay
    <3> QED
      BY <1>4, <3>2, <3>4
  <2> QED
    BY <2>2, <2>3
<1>16. CASE Publish(d, heard)
  <2>1. j0.step \in {"recover", "publish"}
    BY <1>16 DEF Publish, Publishing, j0
  <2>2. CASE Stops(d) /\ UNCHANGED <<rebase, diskVars>>
    BY <1>5, <2>2 DEF Ends
  <2>3. CASE Goto(d, "capture") /\ j0.step = "recover"
    <3> DEFINE j == [j0 EXCEPT !.step = "capture"]
    <3>1. r0 = NoRebase
      BY <1>1, <2>3 DEF Shape, SaveShape
    <3>2. Goes(d, j) /\ UNCHANGED <<rebase, diskVars>>
      BY <1>16, <2>3, <3>1 DEF Publish, FinishesRebase, Goto, agentVars, j0, r0
    <3>3. Moves(d, j, r0, k0, s0)
      BY <1>6, <3>2
    <3>4. j.step = "capture" /\ j.rebases = j0.rebases /\ j.head = j0.head /\ j.parent = j0.parent
      BY <1>2 DEF JobsTo
    <3> HIDE DEF j
    <3>5. Shape(j, r0, k0, s0)
      BY <1>1, <2>3, <3>1, <3>4
         DEF Shape, JournalShape, RebaseShape, SaveShape, RebaseSteps, Looked, OnParent, UnderWay
    <3> QED
      BY <1>4, <3>3, <3>5
  <2>4. CASE Saved(d) /\ r0 = NoRebase /\ UNCHANGED <<rebase, diskVars>>
    <3>1. CASE Stops(d)
      BY <2>2, <2>4, <3>1
    <3>2. CASE ~Stops(d)
      <4> DEFINE j == [j0 EXCEPT !.step = "compute"]
      <4>1. j0.rebases /\ Goes(d, j)
        BY <2>4, <3>2 DEF Saved, Goto, j0
      <4>2. Moves(d, j, r0, k0, s0)
        BY <1>6, <2>4, <4>1
      <4>3. j.step = "compute" /\ j.rebases = j0.rebases
        BY <1>2 DEF JobsTo
      <4> HIDE DEF j
      <4>4. Shape(j, r0, k0, s0)
        BY <1>1, <2>1, <2>4, <4>1, <4>3
           DEF Shape, JournalShape, RebaseShape, SaveShape, RebaseSteps, Looked, OnParent, UnderWay
      <4> QED
        BY <1>4, <4>2, <4>4
    <3> QED
      BY <3>1, <3>2
  <2>5. CASE Saved(d) /\ r0 # NoRebase /\ FinishesRebase(d)
    <3>1. ~j0.rebases
      BY <1>1, <2>1, <2>5 DEF Shape, RebaseSteps, Looked
    <3>2. Stops(d)
      BY <2>5, <3>1 DEF Saved, j0
    <3>3. journal' = [journal EXCEPT ![d] = [k0 EXCEPT !.state = "applied"]]
      BY <1>2, <2>5 DEF FinishesRebase, k0, r0
    <3>4. Moves(d, Idle, NoRebase, [k0 EXCEPT !.state = "applied"], 0)
      BY <2>5, <3>2, <3>3 DEF FinishesRebase, Stops, Goes, Moves, r0
    <3>5. k0.state # "none"
      BY <1>1, <2>5 DEF Shape, RebaseShape, UnderWay
    <3>6. Shape(Idle, NoRebase, [k0 EXCEPT !.state = "applied"], 0)
      BY <1>1, <1>2, <3>5, ShapeFinishes DEF JournalsTo
    <3> QED
      BY <1>4, <3>4, <3>6
  <2>6. \/ Stops(d) /\ UNCHANGED <<rebase, diskVars>>
        \/ Goto(d, "capture") /\ j0.step = "recover"
        \/ Saved(d) /\ FinishesRebase(d)
    BY <1>16 DEF Publish, agentVars, At, j0
  <2> QED
    BY <2>2, <2>3, <2>4, <2>5, <2>6 DEF FinishesRebase, r0
<1>17. CASE \/ CaptureRefused(d) \/ FenceRefused(d) \/ PushRejected(d) \/ PublishRefused(d) \/ MarkRefused(d)
  <2>1. Ends(d)
    BY <1>17 DEF CaptureRefused, FenceRefused, PushRejected, PublishRefused, MarkRefused, Barred, Deposed, Ends,
                 agentVars
  <2> QED
    BY <1>5, <2>1
<1> QED
  BY <1>7, <1>8, <1>9, <1>10, <1>11, <1>12, <1>13, <1>14, <1>15, <1>16, <1>17

\* What the room, a timer or a member has a device do.
LEMMA BeginningKeepsShape ==
    ASSUME TypeInv, ShapeInv, NEW d \in Device,
           \/ Handover(d) \/ Hear(d) \/ StartSave(d) \/ PollRemote(d)
           \/ Asks(d) \/ CallLost(d) \/ Restart(d)
    PROVE  ShapeInv'
<1> DEFINE r0 == rebase[d]
           k0 == journal[d]
           s0 == staged[d]
<1>1. Shape(job[d], r0, k0, s0)
  BY DEF ShapeInv
<1>2. /\ rebase = [rebase EXCEPT ![d] = r0]
      /\ journal = [journal EXCEPT ![d] = k0] /\ staged = [staged EXCEPT ![d] = s0]
  BY Unmoved
<1>3. \A j, r, k, st : Moves(d, j, r, k, st) /\ Shape(j, r, k, st) => ShapeInv'
  BY ShapeMoves
<1>4. \A j : Goes(d, j) /\ UNCHANGED <<rebase, diskVars>> => Moves(d, j, r0, k0, s0)
  BY <1>2 DEF Goes, Moves, diskVars
<1>5. UNCHANGED <<job, rebase, diskVars>> => ShapeInv'
  BY DEF ShapeInv, diskVars
<1> HIDE DEF r0, k0, s0
<1>6. \A b : [Idle EXCEPT !.step = "resolve", !.gen = sees[d], !.rebases = b].step = "resolve"
             /\ [Idle EXCEPT !.step = "resolve", !.gen = sees[d], !.rebases = b].rebases = b
  BY DEF Idle
<1>7. ASSUME NEW b \in BOOLEAN, Begins(d, b), UNCHANGED <<rebase, diskVars>>,
             b => r0 = NoRebase /\ k0.state \notin UnderWay
      PROVE  ShapeInv'
  <2> DEFINE j == [Idle EXCEPT !.step = "resolve", !.gen = sees[d], !.rebases = b]
  <2>1. Moves(d, j, r0, k0, s0)
    BY <1>4, <1>7 DEF Begins
  <2>2. j.step = "resolve" /\ j.rebases = b
    BY <1>6
  <2> HIDE DEF j
  <2>3. Shape(j, r0, k0, s0)
    BY <1>1, <1>7, <2>2
       DEF Shape, JournalShape, RebaseShape, SaveShape, RebaseSteps, Looked, OnParent, UnderWay
  <2> QED
    BY <1>3, <2>1, <2>3
<1>8. CASE Handover(d) \/ Hear(d)
  BY <1>5, <1>8 DEF Handover, Hear, agentVars
<1>9. CASE StartSave(d)
  BY <1>5, <1>7, <1>9 DEF StartSave
<1>10. CASE PollRemote(d)
  BY <1>5, <1>7, <1>10 DEF PollRemote
<1>11. CASE SaveNow(d)
  BY <1>7, <1>11 DEF SaveNow
<1>12. CASE RequestRebase(d)
  <2>1. r0 = NoRebase /\ k0.state \notin UnderWay
    BY <1>12 DEF RequestRebase, Interrupted, UnderWay, r0, k0
  <2> QED
    BY <1>7, <1>12, <2>1 DEF RequestRebase
<1>13. CASE Apply(d)
  <2> DEFINE j == [Idle EXCEPT !.step = "row", !.gen = sees[d]]
  <2>1. Moves(d, j, r0, k0, s0)
    BY <1>4, <1>13 DEF Apply, agentVars
  <2>2. j.step = "row" /\ ~j.rebases
    BY DEF Idle
  <2>3. k0.state \in {"computed", "adopting", "adopted"}
    BY <1>13 DEF Apply, k0
  <2> HIDE DEF j
  <2>4. Shape(j, r0, k0, s0)
    BY <1>1, <2>2, <2>3
       DEF Shape, JournalShape, RebaseShape, SaveShape, RebaseSteps, Looked, OnParent, UnderWay
  <2> QED
    BY <1>3, <2>1, <2>4
<1>14. CASE CallLost(d) \/ Restart(d)
  <2>1. Ends(d)
    BY <1>14 DEF CallLost, Restart, Ends, agentVars
  <2> QED
    BY <2>1, EndsShape
<1> QED
  BY <1>8, <1>9, <1>10, <1>11, <1>12, <1>13, <1>14 DEF Asks

\* The steps of a rebase.
LEMMA RebaseKeepsShape ==
    ASSUME TypeInv, ShapeInv, NEW d \in Device, NEW heard,
           \/ Compute(d, heard) \/ RecoverRow(d, heard) \/ FindReceipt(d) \/ PublishPending(d, heard)
           \/ ApplyRefused(d) \/ ApplyGoesOn(d) \/ Begin(d)
           \/ Adopt(d, heard) \/ Integrate(d, heard) \/ FinishIntegration(d, heard) \/ FinishRefused(d)
           \/ Adopted(d)
    PROVE  ShapeInv'
<1> DEFINE j0 == job[d]
           r0 == rebase[d]
           k0 == journal[d]
           s0 == staged[d]
<1>1. Shape(j0, r0, k0, s0)
  BY DEF ShapeInv
<1>2. /\ j0 \in JobsTo(Len(commits), Seq0, generation)
      /\ k0 \in JournalsTo(Len(commits), Seq0) /\ k0.state \in States
      /\ Len(commits) \in Nat
      /\ mine[d].commit \in 0..Len(commits) /\ s0 \in Nat
  BY RecordsOfTypes, DevicesOfTypes DEF CheckpointsTo
<1>3. /\ job = [job EXCEPT ![d] = j0] /\ rebase = [rebase EXCEPT ![d] = r0]
      /\ journal = [journal EXCEPT ![d] = k0] /\ staged = [staged EXCEPT ![d] = s0]
  BY Unmoved
<1>4. \A j, r, k, st : Moves(d, j, r, k, st) /\ Shape(j, r, k, st) => ShapeInv'
  BY ShapeMoves
<1>5. Ends(d) => ShapeInv'
  BY EndsShape
<1>6. \A j : Goes(d, j) /\ UNCHANGED <<rebase, diskVars>> => Moves(d, j, r0, k0, s0)
  BY <1>3 DEF Goes, Moves, diskVars
<1> HIDE DEF j0, r0, k0, s0
<1>7. \A st : /\ [j0 EXCEPT !.step = st].step = st
              /\ [j0 EXCEPT !.step = st].rebases = j0.rebases
  BY <1>2 DEF JobsTo
<1>8. Stops(d) /\ UNCHANGED <<rebase, diskVars>> => ShapeInv'
  BY <1>5 DEF Ends
<1>9. \A st : /\ [k0 EXCEPT !.state = st].state = st
              /\ [k0 EXCEPT !.state = st].from = k0.from
              /\ [k0 EXCEPT !.state = st].result = k0.result
  BY <1>2 DEF JournalsTo
<1>10. \A st : [journal EXCEPT ![d].state = st] = [journal EXCEPT ![d] = [k0 EXCEPT !.state = st]]
  BY DEF k0
<1>11. Finishes(d) /\ k0.state # "none" => ShapeInv'
  <2> SUFFICES ASSUME Finishes(d), k0.state # "none" PROVE ShapeInv'
    OBVIOUS
  <2>1. Moves(d, Idle, NoRebase, [k0 EXCEPT !.state = "applied"], 0)
    BY <1>10 DEF Finishes, Stops, Goes, Moves
  <2>2. Shape(Idle, NoRebase, [k0 EXCEPT !.state = "applied"], 0)
    BY <1>1, <1>2, ShapeFinishes DEF JournalsTo
  <2> QED
    BY <1>4, <2>1, <2>2
<1>12. CASE Compute(d, heard)
  <2>1. j0.step = "compute" /\ UNCHANGED <<rebase, staged>>
    BY <1>12 DEF Compute, At, agentVars, j0
  <2>2. CASE Stops(d) /\ UNCHANGED journal
    BY <1>8, <2>1, <2>2 DEF diskVars
  <2>3. CASE ~(Stops(d) /\ UNCHANGED journal)
    <3>1. PICK k : /\ k = [state |-> "computed", from |-> mine[d].commit, result |-> Len(commits) + 1,
                           pending |-> NoCommit, seq |-> 0]
                   /\ journal' = [journal EXCEPT ![d] = k]
      BY <1>12, <2>3 DEF Compute
    <3>2. /\ r0 = NoRebase /\ k0.state \notin UnderWay /\ s0 = 0
      BY <1>1, <2>1 DEF Shape, RebaseSteps, JournalShape, RebaseShape, UnderWay
    <3>3. k.state = "computed" /\ k.result # 0 /\ k.from < k.result
      BY <1>2, <3>1
    <3>4. PICK j \in {Idle, [j0 EXCEPT !.step = "begin"]} : Goes(d, j)
      BY <1>12, <2>3 DEF Compute, Stops, Goto, j0
    <3>5. j.step \in {"idle", "begin"}
      <4>1. Idle.step = "idle"
        BY DEF Idle
      <4> QED
        BY <1>7, <3>4, <4>1
    <3>6. Moves(d, j, r0, k, s0)
      BY <1>3, <2>1, <3>1, <3>4 DEF Moves, Goes
    <3>7. Shape(j, r0, k, s0)
      BY <1>1, <3>2, <3>3, <3>5
         DEF Shape, JournalShape, RebaseShape, SaveShape, RebaseSteps, Looked, OnParent, UnderWay
    <3> QED
      BY <1>4, <3>6, <3>7
  <2> QED
    BY <2>2, <2>3
<1>13. CASE RecoverRow(d, heard)
  <2>1. j0.step = "row" /\ UNCHANGED <<rebase, journal>>
    BY <1>13 DEF RecoverRow, At, agentVars, j0
  <2>2. CASE Stops(d) /\ UNCHANGED staged
    BY <1>8, <2>1, <2>2 DEF diskVars
  <2>3. CASE \E b : Goes(d, [j0 EXCEPT !.step = "receipt", !.recovered = b]) /\ UNCHANGED staged
    <3>1. PICK b : Goes(d, [j0 EXCEPT !.step = "receipt", !.recovered = b]) /\ UNCHANGED staged
      BY <2>3
    <3>2. PICK j : j = [j0 EXCEPT !.step = "receipt", !.recovered = b]
      OBVIOUS
    <3>3. Moves(d, j, r0, k0, s0)
      BY <1>6, <2>1, <3>1, <3>2 DEF diskVars
    <3>4. j.step = "receipt"
      BY <1>2, <3>2 DEF JobsTo
    <3>5. Shape(j, r0, k0, s0)
      BY <1>1, <2>1, <3>4
         DEF Shape, JournalShape, RebaseShape, SaveShape, RebaseSteps, Looked, OnParent, UnderWay
    <3> QED
      BY <1>4, <3>3, <3>5
  <2>4. CASE Goto(d, "receipt") /\ staged' = [staged EXCEPT ![d] = 0]
    <3>1. PICK j : j = [j0 EXCEPT !.step = "receipt"]
      OBVIOUS
    <3>2. Moves(d, j, r0, k0, 0)
      BY <1>3, <2>1, <2>4, <3>1 DEF Goto, Goes, Moves, j0
    <3>3. j.step = "receipt"
      BY <1>7, <3>1
    <3>4. Shape(j, r0, k0, 0)
      BY <1>1, <2>1, <3>3
         DEF Shape, JournalShape, RebaseShape, SaveShape, RebaseSteps, Looked, OnParent, UnderWay
    <3> QED
      BY <1>4, <3>2, <3>4
  <2> QED
    BY <1>13, <2>2, <2>3, <2>4 DEF RecoverRow, j0
<1>14. CASE FindReceipt(d)
  <2>1. k0.state # "none"
    BY <1>14 DEF FindReceipt, HasReceipt, Begun, k0
  <2> QED
    BY <1>11, <1>14, <2>1 DEF FindReceipt
<1>15. CASE PublishPending(d, heard)
  <2>1. k0.state # "none"
    BY <1>15 DEF PublishPending, Pushed, k0
  <2>2. Finishes(d) \/ (Stops(d) /\ UNCHANGED <<rebase, diskVars>>)
    BY <1>15 DEF PublishPending
  <2> QED
    BY <1>8, <1>11, <2>1, <2>2
<1>16. CASE ApplyRefused(d) \/ FinishRefused(d)
  BY <1>8, <1>16 DEF ApplyRefused, FinishRefused, agentVars
<1>17. CASE ApplyGoesOn(d)
  <2> DEFINE j == [j0 EXCEPT !.step = "begin"]
  <2>1. j0.step = "receipt" /\ Goes(d, j) /\ UNCHANGED <<rebase, diskVars>>
    BY <1>17 DEF ApplyGoesOn, Goto, At, j0
  <2>2. Moves(d, j, r0, k0, s0)
    BY <1>6, <2>1
  <2>3. j.step = "begin" /\ j.rebases = j0.rebases
    BY <1>7
  <2> HIDE DEF j
  <2>4. Shape(j, r0, k0, s0)
    BY <1>1, <2>1, <2>3
       DEF Shape, JournalShape, RebaseShape, SaveShape, RebaseSteps, Looked, OnParent, UnderWay
  <2> QED
    BY <1>4, <2>2, <2>4
<1>18. CASE Begin(d)
  <2> DEFINE j == [j0 EXCEPT !.step = "adopt"]
             k == [k0 EXCEPT !.state = "adopting"]
  <2>1. j0.step = "begin" /\ Goes(d, j) /\ UNCHANGED <<rebase, staged>> /\ journal' = [journal EXCEPT ![d] = k]
    BY <1>10, <1>18 DEF Begin, Goto, At, agentVars, j0
  <2>2. Moves(d, j, r0, k, s0)
    BY <1>3, <2>1 DEF Moves, Goes
  <2>3. j.step = "adopt" /\ k.state = "adopting" /\ k.from = k0.from /\ k.result = k0.result
    BY <1>7, <1>9
  <2> HIDE DEF j, k
  <2>4. Shape(j, r0, k, s0)
    BY <1>1, <2>1, <2>3
       DEF Shape, JournalShape, RebaseShape, SaveShape, RebaseSteps, Looked, OnParent, UnderWay
  <2> QED
    BY <1>4, <2>2, <2>4
<1>19. CASE Adopt(d, heard)
  <2>1. j0.step = "adopt" /\ UNCHANGED <<rebase, diskVars>>
    BY <1>19 DEF Adopt, At, agentVars, j0
  <2>2. CASE Stops(d)
    BY <1>8, <2>1, <2>2
  <2>3. CASE ~Stops(d)
    <3> DEFINE j == [j0 EXCEPT !.step = AfterAdoption(d)]
    <3>1. Goes(d, j)
      BY <1>19, <2>3 DEF Adopt, Goto, j0
    <3>2. Moves(d, j, r0, k0, s0)
      BY <1>6, <2>1, <3>1
    <3>3. j.step \in {"integrate", "adopted"}
      BY <1>7 DEF AfterAdoption
    <3> HIDE DEF j
    <3>4. Shape(j, r0, k0, s0)
      BY <1>1, <2>1, <3>3
         DEF Shape, JournalShape, RebaseShape, SaveShape, RebaseSteps, Looked, OnParent, UnderWay
    <3> QED
      BY <1>4, <3>2, <3>4
  <2> QED
    BY <2>2, <2>3
<1>20. CASE Integrate(d, heard)
  <2>1. j0.step = "integrate" /\ UNCHANGED <<rebase, journal>>
    BY <1>20 DEF Integrate, At, agentVars, j0
  <2>2. CASE Stops(d) /\ UNCHANGED staged
    BY <1>8, <2>1, <2>2 DEF diskVars
  <2>3. CASE Goto(d, "adopted") /\ UNCHANGED staged
    <3> DEFINE j == [j0 EXCEPT !.step = "adopted"]
    <3>1. Moves(d, j, r0, k0, s0)
      BY <1>6, <2>1, <2>3 DEF Goto, diskVars, j0
    <3>2. j.step = "adopted"
      BY <1>7
    <3> HIDE DEF j
    <3>3. Shape(j, r0, k0, s0)
      BY <1>1, <2>1, <3>2
         DEF Shape, JournalShape, RebaseShape, SaveShape, RebaseSteps, Looked, OnParent, UnderWay
    <3> QED
      BY <1>4, <3>1, <3>3
  <2>4. CASE Goto(d, "finish") /\ staged' = [staged EXCEPT ![d] = k0.result]
    <3> DEFINE j == [j0 EXCEPT !.step = "finish"]
    <3>1. Moves(d, j, r0, k0, k0.result)
      BY <1>3, <2>1, <2>4 DEF Goto, Goes, Moves, j0
    <3>2. j.step = "finish"
      BY <1>7
    <3> HIDE DEF j
    <3>3. Shape(j, r0, k0, k0.result)
      BY <1>1, <2>1, <3>2
         DEF Shape, JournalShape, RebaseShape, SaveShape, RebaseSteps, Looked, OnParent, UnderWay
    <3> QED
      BY <1>4, <3>1, <3>3
  <2> QED
    BY <1>20, <2>2, <2>3, <2>4 DEF Integrate, k0
<1>21. CASE FinishIntegration(d, heard)
  <2>1. j0.step = "finish" /\ UNCHANGED <<rebase, diskVars>>
    BY <1>21 DEF FinishIntegration, At, agentVars, j0
  <2>2. CASE Stops(d)
    BY <1>8, <2>1, <2>2
  <2>3. CASE ~Stops(d)
    <3> DEFINE j == [j0 EXCEPT !.step = "adopted"]
    <3>1. Moves(d, j, r0, k0, s0)
      BY <1>6, <1>21, <2>1, <2>3 DEF FinishIntegration, Goto, j0
    <3>2. j.step = "adopted"
      BY <1>7
    <3> HIDE DEF j
    <3>3. Shape(j, r0, k0, s0)
      BY <1>1, <2>1, <3>2
         DEF Shape, JournalShape, RebaseShape, SaveShape, RebaseSteps, Looked, OnParent, UnderWay
    <3> QED
      BY <1>4, <3>1, <3>3
  <2> QED
    BY <2>2, <2>3
<1>22. CASE Adopted(d)
  <2> DEFINE k == [k0 EXCEPT !.state = "adopted"]
             r == [from |-> k0.from, result |-> k0.result]
  <2>1. j0.step = "adopted" /\ UNCHANGED staged /\ journal' = [journal EXCEPT ![d] = k]
        /\ rebase' = [rebase EXCEPT ![d] = r]
    BY <1>10, <1>22 DEF Adopted, At, j0, k0
  <2>2. PICK j \in {Idle, [Idle EXCEPT !.step = "resolve", !.gen = sees[d], !.rebases = FALSE]} : Goes(d, j)
    BY <1>22 DEF Adopted, Begins, Stops
  <2>3. j.step \in {"idle", "resolve"} /\ ~j.rebases
    <3> DEFINE b == [Idle EXCEPT !.step = "resolve", !.gen = sees[d], !.rebases = FALSE]
    <3>1. Idle.step = "idle" /\ ~Idle.rebases
      BY DEF Idle
    <3>2. b.step = "resolve" /\ ~b.rebases
      BY DEF Idle
    <3> HIDE DEF b
    <3>3. j = Idle \/ j = b
      BY <2>2 DEF b
    <3> QED
      BY <3>1, <3>2, <3>3
  <2>4. Moves(d, j, r, k, s0)
    BY <1>3, <2>1, <2>2 DEF Moves, Goes
  <2>5. k.state = "adopted" /\ k.from = k0.from /\ k.result = k0.result
    BY <1>9
  <2> HIDE DEF k
  <2>6. Shape(j, r, k, s0)
    BY <1>1, <2>1, <2>3, <2>5
       DEF Shape, JournalShape, RebaseShape, SaveShape, RebaseSteps, Looked, OnParent, UnderWay
  <2> QED
    BY <1>4, <2>4, <2>6
<1> QED
  BY <1>12, <1>13, <1>14, <1>15, <1>16, <1>17, <1>18, <1>19, <1>20, <1>21, <1>22

\* Every step keeps the shapes.
LEMMA ShapeStep ==
    ASSUME TypeInv, ShapeInv, [BranchNext]_branchVars
    PROVE  ShapeInv'
<1>1. UNCHANGED <<job, rebase, diskVars>> => ShapeInv'
  BY DEF ShapeInv, diskVars
<1>2. CASE UNCHANGED branchVars \/ ExpireWindow \/ \E i \in Item : Edit(i) \/ PushOutside(i)
  BY <1>1, <1>2 DEF branchVars, agentVars, ExpireWindow, Edit, PushOutside
<1>3. ASSUME NEW d \in Device, Works(d) \/ (\E heard \in BOOLEAN : Calls(d, heard) \/ Compute(d, heard))
      PROVE  ShapeInv'
  BY <1>3, SaveKeepsShape, RebaseKeepsShape DEF Works, Calls
<1>4. ASSUME NEW d \in Device, Handover(d) \/ Hear(d) \/ StartSave(d) \/ PollRemote(d) \/ Asks(d)
                               \/ CallLost(d) \/ Restart(d)
      PROVE  ShapeInv'
  BY <1>4, BeginningKeepsShape
<1> QED
  BY <1>2, <1>3, <1>4 DEF BranchNext, Proceeds, Fails

\* The shapes hold in every reachable state.
LEMMA ShapeAlways == BranchSpec => [](TypeInv /\ ShapeInv)
<1>1. BranchInit => ShapeInv
  BY DEF BranchInit, ShapeInv, Shape, JournalShape, RebaseShape, SaveShape, RebaseSteps, NoJournal, NoRebase,
         Idle, Looked, OnParent
<1>2. TypeInv /\ TypeInv' /\ ShapeInv /\ [BranchNext]_branchVars => ShapeInv'
  BY ShapeStep
<1> QED
  BY <1>1, <1>2, TypesAlways, PTL DEF BranchSpec

(***************************************************************************)
(* The merge of a rebase gets into the session once                        *)
(***************************************************************************)
OfASave == Looked \cup {"resolve", "compute"}

\* A merge that is in the log is known to its device: by the batch it keeps, by
\* the end of the rebase, or by what the job has recovered.
MergeKnown(j, k, st, T) ==
    /\ k.result \in T => st = k.result \/ k.state = "applied"
    /\ j.step \in OfASave \cup {"row"} => ~j.recovered
    /\ j.step \in {"receipt", "begin", "adopt"} => (j.recovered <=> k.result \in T)
    /\ j.step \in {"integrate", "finish"} => k.result \notin T

MergeInv ==
    /\ 0 \notin taken
    /\ \A d, e \in Device : journal[d].result = journal[e].result /\ d # e => journal[d].result = 0
    /\ \A d \in Device : MergeKnown(job[d], journal[d], staged[d], taken)

\* A step of one device keeps what is known of the merges, when the device still
\* knows of its own.
LEMMA MergeMoves ==
    ASSUME TypeInv, MergeInv, NEW d \in Device, NEW j, NEW r, NEW k, NEW st, NEW T,
           Moves(d, j, r, k, st), taken' = T,
           T \in {taken, taken \cup {journal[d].result}}, 0 \notin T,
           k.result \in {journal[d].result, Len(commits) + 1},
           MergeKnown(j, k, st, T)
    PROVE  MergeInv'
<1>1. job'[d] = j /\ journal'[d] = k /\ staged'[d] = st
  BY DeviceFunctions DEF Moves
<1>2. \A e \in Device \ {d} : job'[e] = job[e] /\ journal'[e] = journal[e] /\ staged'[e] = staged[e]
  BY DeviceFunctions DEF Moves
<1>3. \A e \in Device : journal[e].result \in 0..Len(commits) /\ Len(commits) \in Nat
  BY DevicesOfTypes, HistoryTypesUnfold DEF JournalsTo
<1>4. \A e \in Device \ {d} : journal[e].result \in T <=> journal[e].result \in taken
  BY <1>3 DEF MergeInv
<1>5. \A e \in Device \ {d} : MergeKnown(job'[e], journal'[e], staged'[e], T)
  <2> SUFFICES ASSUME NEW e \in Device \ {d} PROVE MergeKnown(job'[e], journal'[e], staged'[e], T)
    OBVIOUS
  <2>1. MergeKnown(job[e], journal[e], staged[e], taken) /\ (journal[e].result \in T <=> journal[e].result \in taken)
    BY <1>4 DEF MergeInv
  <2>2. MergeKnown(job[e], journal[e], staged[e], T)
    BY <2>1 DEF MergeKnown
  <2> QED
    BY <1>2, <2>2
<1>6. \A e \in Device : MergeKnown(job'[e], journal'[e], staged'[e], T)
  BY <1>1, <1>5
<1>7. \A e, f \in Device : journal'[e].result = journal'[f].result /\ e # f => journal'[e].result = 0
  <2> SUFFICES ASSUME NEW e \in Device, NEW f \in Device, e # f, journal'[e].result = journal'[f].result
               PROVE  journal'[e].result = 0
    OBVIOUS
  <2>1. CASE e # d /\ f # d
    BY <1>2, <2>1 DEF MergeInv
  <2>2. CASE e = d
    <3>1. k.result = journal[f].result
      BY <1>1, <1>2, <2>2
    <3>2. k.result = journal[d].result
      BY <1>3, <3>1
    <3> QED
      BY <1>1, <2>2, <3>1, <3>2 DEF MergeInv
  <2>3. CASE f = d
    <3>1. k.result = journal[e].result
      BY <1>1, <1>2, <2>3
    <3>2. k.result = journal[d].result
      BY <1>3, <3>1
    <3> QED
      BY <1>1, <2>3, <3>1, <3>2 DEF MergeInv
  <2> QED
    BY <2>1, <2>2, <2>3
<1> QED
  BY <1>6, <1>7 DEF MergeInv

\* What the steps of a save do to the device.
LEMMA SaveMoves ==
    ASSUME TypeInv, NEW d \in Device, NEW heard,
           \/ ResolveRebase(d) \/ ResolveUnmoved(d) \/ ResolveOwn(d) \/ ResolveOutside(d)
           \/ MergeOutside(d) \/ Capture(d) \/ CaptureRefused(d) \/ Fence(d) \/ FenceRefused(d)
           \/ Push(d, heard) \/ PushRejected(d) \/ Publish(d, heard) \/ PublishRefused(d)
           \/ Mark(d, heard) \/ MarkRefused(d)
    PROVE  /\ taken' = taken
           /\ job[d].step \in OfASave
           /\ \E j, r, k, st :
                /\ Moves(d, j, r, k, st)
                /\ j = Idle \/ (j.step \in OfASave /\ j.recovered = job[d].recovered)
                /\ k.result = journal[d].result
                /\ \/ k.state = journal[d].state /\ st = staged[d]
                   \/ k.state = "applied" /\ st = 0
<1> DEFINE j0 == job[d]
           r0 == rebase[d]
           k0 == journal[d]
           s0 == staged[d]
           Good(j) == j = Idle \/ (j.step \in OfASave /\ j.recovered = j0.recovered)
           Moved(j, r, k, st) ==
             /\ Moves(d, j, r, k, st) /\ Good(j) /\ k.result = k0.result
             /\ (k.state = k0.state /\ st = s0) \/ (k.state = "applied" /\ st = 0)
           Done == \E j, r, k, st : Moved(j, r, k, st)
<1>1. /\ j0 \in JobsTo(Len(commits), Seq0, generation)
      /\ k0 \in JournalsTo(Len(commits), Seq0)
  BY RecordsOfTypes
<1>2. /\ rebase = [rebase EXCEPT ![d] = r0]
      /\ journal = [journal EXCEPT ![d] = k0] /\ staged = [staged EXCEPT ![d] = s0]
  BY Unmoved
<1>3. ASSUME NEW j, Goes(d, j), Good(j), UNCHANGED <<rebase, diskVars>>
      PROVE  Done
  <2>1. Moves(d, j, r0, k0, s0)
    BY <1>2, <1>3 DEF Goes, Moves, diskVars
  <2> QED
    BY <1>3, <2>1
<1>4. ASSUME Ends(d) PROVE Done
  <2>1. PICK r : rebase' = [rebase EXCEPT ![d] = r]
    BY <1>2, <1>4 DEF Ends
  <2>2. Moves(d, Idle, r, k0, s0)
    BY <1>2, <1>4, <2>1 DEF Ends, Stops, Goes, Moves, diskVars
  <2> QED
    BY <2>2
<1> HIDE DEF Done, Moved, j0, r0, k0, s0
<1>5. {"resolve", "recover", "merge", "capture", "fence", "push", "publish", "mark", "compute"} \subseteq OfASave
  BY DEF OfASave, Looked
<1>6. taken' = taken /\ j0.step \in OfASave
  BY <1>5 DEF ResolveRebase, ResolveUnmoved, ResolveOwn, ResolveOutside, Looks, MergeOutside, Integrates,
              Capture, CaptureRefused, Fence, FenceRefused, Push, PushRejected, Publish, Publishing, Records,
              PublishRefused, Mark, MarkRefused, Barred, Deposed, roomVars, At, j0
<1>7. ASSUME NEW step \in OfASave, NEW p, NEW h, Goes(d, [j0 EXCEPT !.step = step, !.parent = p, !.head = h])
      PROVE  \E j : Goes(d, j) /\ Good(j)
  <2>1. PICK j : j = [j0 EXCEPT !.step = step, !.parent = p, !.head = h]
    OBVIOUS
  <2>2. j.step = step /\ j.recovered = j0.recovered
    BY <1>1, <2>1 DEF JobsTo
  <2> QED
    BY <1>7, <2>1, <2>2
<1>8. ASSUME NEW step \in OfASave, Goto(d, step) PROVE \E j : Goes(d, j) /\ Good(j)
  <2>1. PICK j : j = [j0 EXCEPT !.step = step]
    OBVIOUS
  <2>2. j.step = step /\ j.recovered = j0.recovered
    BY <1>1, <2>1 DEF JobsTo
  <2> QED
    BY <1>8, <2>1, <2>2 DEF Goto, j0
<1>9. Stops(d) => \E j : Goes(d, j) /\ Good(j)
  BY DEF Stops
<1>10. Saved(d) => \E j : Goes(d, j) /\ Good(j)
  BY <1>5, <1>8, <1>9 DEF Saved
<1>11. ASSUME ResolveRebase(d) PROVE Done
  <2>1. UNCHANGED diskVars
    BY <1>11 DEF ResolveRebase, Looks
  <2>2. CASE remote = rebase[d].from
    <3>1. UNCHANGED rebase /\ BuildsOn(d, rebase[d].result, "capture")
      BY <1>11, <2>2 DEF ResolveRebase
    <3>2. \E j : Goes(d, j) /\ Good(j)
      BY <1>5, <1>7, <3>1 DEF BuildsOn, j0
    <3> QED
      BY <1>3, <2>1, <3>1, <3>2
  <2>3. CASE remote # rebase[d].from
    BY <1>4, <1>11, <2>1, <2>3 DEF ResolveRebase, Ends
  <2> QED
    BY <2>2, <2>3
<1>12. ASSUME ResolveUnmoved(d) PROVE Done
  <2>1. UNCHANGED <<rebase, diskVars>> /\ BuildsOn(d, Base(d), "capture")
    BY <1>12 DEF ResolveUnmoved, Looks
  <2>2. \E j : Goes(d, j) /\ Good(j)
    BY <1>5, <1>7, <2>1 DEF BuildsOn, j0
  <2> QED
    BY <1>3, <2>1, <2>2
<1>13. ASSUME ResolveOwn(d) PROVE Done
  <2>1. PICK j : j = [j0 EXCEPT !.step = "recover", !.parent = remote, !.head = remote,
                                !.out = remote, !.seq = commits[remote].seq]
    OBVIOUS
  <2>2. j.step = "recover" /\ j.recovered = j0.recovered
    BY <1>1, <2>1 DEF JobsTo
  <2>3. Goes(d, j) /\ UNCHANGED <<rebase, diskVars>>
    BY <1>13, <2>1 DEF ResolveOwn, Looks, j0
  <2> QED
    BY <1>3, <1>5, <2>2, <2>3
<1>14. ASSUME ResolveOutside(d) PROVE Done
  <2>1. UNCHANGED <<rebase, diskVars>> /\ (BuildsOn(d, Base(d), "merge") \/ Stops(d))
    BY <1>14 DEF ResolveOutside, Looks
  <2>2. \E j : Goes(d, j) /\ Good(j)
    BY <1>5, <1>7, <1>9, <2>1 DEF BuildsOn, j0
  <2> QED
    BY <1>3, <2>1, <2>2
<1>15. ASSUME MergeOutside(d) PROVE Done
  <2>1. PICK j : j = [j0 EXCEPT !.step = "capture", !.parent = j0.head]
    OBVIOUS
  <2>2. j.step = "capture" /\ j.recovered = j0.recovered
    BY <1>1, <2>1 DEF JobsTo
  <2>3. Goes(d, j) /\ UNCHANGED <<rebase, diskVars>>
    BY <1>15, <2>1 DEF MergeOutside, Integrates, j0
  <2> QED
    BY <1>3, <1>5, <2>2, <2>3
<1>16. ASSUME Capture(d) PROVE Done
  <2>1. PICK j : j = AfterCapture(d)
    OBVIOUS
  <2>2. j.step \in {"fence", "publish", "mark"} /\ j.recovered = j0.recovered
    BY <1>1, <2>1 DEF AfterCapture, JobsTo, j0
  <2>3. Goes(d, j) /\ UNCHANGED <<rebase, diskVars>>
    BY <1>16, <2>1 DEF Capture, agentVars
  <2> QED
    BY <1>3, <1>5, <2>2, <2>3
<1>17. ASSUME Fence(d) PROVE Done
  <2>1. PICK j : Goes(d, j) /\ Good(j)
    BY <1>5, <1>8, <1>17 DEF Fence
  <2>2. PICK k : journal' = [journal EXCEPT ![d] = k] /\ k.state = k0.state /\ k.result = k0.result
    <3>1. \/ journal' = journal
          \/ journal' = [journal EXCEPT ![d] = [k0 EXCEPT !.pending = Built(d), !.seq = job[d].seq]]
      BY <1>1, <1>17, DeviceFunctions DEF Fence, JournalsTo, k0
    <3>2. LET k == [k0 EXCEPT !.pending = Built(d), !.seq = job[d].seq]
          IN  k.state = k0.state /\ k.result = k0.result
      BY <1>1 DEF JournalsTo
    <3> QED
      BY <1>2, <3>1, <3>2
  <2>3. Moves(d, j, r0, k, s0)
    BY <1>2, <1>17, <2>1, <2>2 DEF Fence, Goes, Moves, agentVars
  <2> QED
    BY <2>1, <2>2, <2>3 DEF Moved, Done
<1>18. ASSUME Push(d, heard) PROVE Done
  <2>1. UNCHANGED <<rebase, diskVars>>
    BY <1>18 DEF Push, agentVars
  <2>2. CASE Stops(d)
    BY <1>3, <1>9, <2>1, <2>2
  <2>3. CASE ~Stops(d)
    <3>1. PICK id : Goes(d, [j0 EXCEPT !.step = "publish", !.out = id])
      BY <1>18, <2>3 DEF Push, j0
    <3>2. PICK j : j = [j0 EXCEPT !.step = "publish", !.out = id]
      OBVIOUS
    <3>3. j.step = "publish" /\ j.recovered = j0.recovered
      BY <1>1, <3>2 DEF JobsTo
    <3> QED
      BY <1>3, <1>5, <2>1, <3>1, <3>2, <3>3
  <2> QED
    BY <2>2, <2>3
<1>19. ASSUME Mark(d, heard) PROVE Done
  <2>1. UNCHANGED <<rebase, diskVars>> /\ (Saved(d) \/ Stops(d))
    BY <1>19 DEF Mark
  <2>2. PICK j : Goes(d, j) /\ Good(j)
    BY <1>9, <1>10, <2>1
  <2> QED
    BY <1>3, <2>1, <2>2
<1>20. ASSUME Publish(d, heard) PROVE Done
  <2>1. PICK j : Goes(d, j) /\ Good(j)
    BY <1>5, <1>8, <1>9, <1>10, <1>20 DEF Publish
  <2>2. CASE UNCHANGED <<rebase, diskVars>>
    BY <1>3, <2>1, <2>2
  <2>3. CASE ~UNCHANGED <<rebase, diskVars>>
    <3>1. /\ journal' = [journal EXCEPT ![d].state = "applied"]
          /\ staged' = [staged EXCEPT ![d] = 0]
          /\ rebase' = [rebase EXCEPT ![d] = NoRebase]
      BY <1>20, <2>3 DEF Publish, FinishesRebase, agentVars
    <3>2. PICK k : k = [k0 EXCEPT !.state = "applied"]
      OBVIOUS
    <3>3. k.state = "applied" /\ k.result = k0.result
      BY <1>1, <3>2 DEF JournalsTo
    <3>4. Moves(d, j, NoRebase, k, 0)
      BY <2>1, <3>1, <3>2 DEF Goes, Moves, k0
    <3> QED
      BY <2>1, <3>3, <3>4 DEF Moved, Done
  <2> QED
    BY <2>2, <2>3
<1>21. ASSUME \/ CaptureRefused(d) \/ FenceRefused(d) \/ PushRejected(d) \/ PublishRefused(d) \/ MarkRefused(d)
       PROVE  Done
  <2>1. Ends(d)
    BY <1>21 DEF CaptureRefused, FenceRefused, PushRejected, PublishRefused, MarkRefused, Barred, Deposed, Ends,
                 agentVars
  <2> QED
    BY <1>4, <2>1
<1>22. Done
  BY <1>11, <1>12, <1>13, <1>14, <1>15, <1>16, <1>17, <1>18, <1>19, <1>20, <1>21
<1>23. PICK j, r, k, st : Moved(j, r, k, st)
  BY <1>22 DEF Done
<1> QED
  BY <1>6, <1>23 DEF Moved, j0, k0, s0

\* The steps of a save keep what is known of the merges.
LEMMA SaveKeepsMerges ==
    ASSUME TypeInv, MergeInv, NEW d \in Device, NEW heard,
           \/ ResolveRebase(d) \/ ResolveUnmoved(d) \/ ResolveOwn(d) \/ ResolveOutside(d)
           \/ MergeOutside(d) \/ Capture(d) \/ CaptureRefused(d) \/ Fence(d) \/ FenceRefused(d)
           \/ Push(d, heard) \/ PushRejected(d) \/ Publish(d, heard) \/ PublishRefused(d)
           \/ Mark(d, heard) \/ MarkRefused(d)
    PROVE  MergeInv'
<1>1. taken' = taken /\ job[d].step \in OfASave
  BY SaveMoves
<1>2. PICK j, r, k, st :
        /\ Moves(d, j, r, k, st)
        /\ j = Idle \/ (j.step \in OfASave /\ j.recovered = job[d].recovered)
        /\ k.result = journal[d].result
        /\ \/ k.state = journal[d].state /\ st = staged[d]
           \/ k.state = "applied" /\ st = 0
  BY SaveMoves
<1>3. MergeKnown(job[d], journal[d], staged[d], taken)
  BY DEF MergeInv
<1>4. Idle.step = "idle"
  BY DEF Idle
<1>5. MergeKnown(j, k, st, taken)
  BY <1>1, <1>2, <1>3, <1>4 DEF MergeKnown, OfASave, Looked
<1> QED
  BY <1>1, <1>2, <1>5, MergeMoves DEF MergeInv

\* A device that does not take part in a rebase, and one that begins to.
LEMMA BeginningKeepsMerges ==
    ASSUME TypeInv, MergeInv, NEW d \in Device,
           \/ Handover(d) \/ Hear(d) \/ StartSave(d) \/ PollRemote(d)
           \/ Asks(d) \/ CallLost(d) \/ Restart(d)
    PROVE  MergeInv'
<1>1. MergeKnown(job[d], journal[d], staged[d], taken) /\ 0 \notin taken
  BY DEF MergeInv
<1>2. /\ rebase = [rebase EXCEPT ![d] = rebase[d]]
      /\ journal = [journal EXCEPT ![d] = journal[d]] /\ staged = [staged EXCEPT ![d] = staged[d]]
  BY Unmoved
<1>3. UNCHANGED <<diskVars, taken>>
  BY DEF Handover, Hear, StartSave, PollRemote, Asks, SaveNow, RequestRebase, Apply, CallLost, Restart, roomVars
<1>4. UNCHANGED job => MergeInv'
  BY <1>3 DEF MergeInv, diskVars
<1>5. ASSUME NEW j, Goes(d, j), j.step \in {"idle", "resolve", "row"}, ~j.recovered PROVE MergeInv'
  <2>1. PICK r : rebase' = [rebase EXCEPT ![d] = r]
    BY <1>2 DEF Handover, Hear, StartSave, PollRemote, Asks, SaveNow, RequestRebase, Apply, CallLost, Restart,
                agentVars
  <2>2. Moves(d, j, r, journal[d], staged[d])
    BY <1>2, <1>3, <1>5, <2>1 DEF Moves, Goes, diskVars
  <2>3. MergeKnown(j, journal[d], staged[d], taken)
    BY <1>1, <1>5 DEF MergeKnown, OfASave, Looked
  <2> QED
    BY <1>1, <1>3, <2>2, <2>3, MergeMoves
<1>6. Idle.step = "idle" /\ ~Idle.recovered
  BY DEF Idle
<1>7. \A b \in BOOLEAN : Begins(d, b) => MergeInv'
  <2> SUFFICES ASSUME NEW b \in BOOLEAN, Begins(d, b) PROVE MergeInv'
    OBVIOUS
  <2>1. PICK j : j = [Idle EXCEPT !.step = "resolve", !.gen = sees[d], !.rebases = b]
    OBVIOUS
  <2>2. j.step = "resolve" /\ ~j.recovered
    BY <2>1 DEF Idle
  <2> QED
    BY <1>5, <2>1, <2>2 DEF Begins
<1>8. CASE Handover(d) \/ Hear(d)
  BY <1>4, <1>8 DEF Handover, Hear
<1>9. CASE StartSave(d) \/ PollRemote(d) \/ SaveNow(d) \/ RequestRebase(d)
  BY <1>4, <1>7, <1>9 DEF StartSave, PollRemote, SaveNow, RequestRebase
<1>10. CASE Apply(d)
  <2>1. PICK j : j = [Idle EXCEPT !.step = "row", !.gen = sees[d]]
    OBVIOUS
  <2>2. j.step = "row" /\ ~j.recovered
    BY <2>1 DEF Idle
  <2> QED
    BY <1>5, <1>10, <2>1, <2>2 DEF Apply
<1>11. CASE CallLost(d) \/ Restart(d)
  BY <1>5, <1>6, <1>11 DEF CallLost, Restart, Stops
<1> QED
  BY <1>8, <1>9, <1>10, <1>11 DEF Asks

\* So do the steps of a rebase and of its adoption.
LEMMA RebaseKeepsMerges ==
    ASSUME TypeInv, ShapeInv, MergeInv, NEW d \in Device, NEW heard,
           \/ Compute(d, heard) \/ RecoverRow(d, heard) \/ FindReceipt(d) \/ PublishPending(d, heard)
           \/ ApplyRefused(d) \/ ApplyGoesOn(d) \/ Begin(d)
           \/ Adopt(d, heard) \/ Integrate(d, heard) \/ FinishIntegration(d, heard) \/ FinishRefused(d)
           \/ Adopted(d)
    PROVE  MergeInv'
<1> DEFINE j0 == job[d]
           r0 == rebase[d]
           k0 == journal[d]
           s0 == staged[d]
<1>1. Shape(j0, r0, k0, s0)
  BY DEF ShapeInv
<1>2. /\ j0 \in JobsTo(Len(commits), Seq0, generation)
      /\ k0 \in JournalsTo(Len(commits), Seq0) /\ k0.state \in States
      /\ k0.result \in 0..Len(commits) /\ Len(commits) \in Nat /\ j0.recovered \in BOOLEAN
      /\ taken \in SUBSET (0..Len(commits))
  BY RecordsOfTypes, DevicesOfTypes DEF TypeInv, RoomTypes, JournalsTo
<1>3. /\ rebase = [rebase EXCEPT ![d] = r0]
      /\ journal = [journal EXCEPT ![d] = k0] /\ staged = [staged EXCEPT ![d] = s0]
  BY Unmoved
<1>4. MergeKnown(j0, k0, s0, taken) /\ 0 \notin taken
  BY DEF MergeInv
<1>5. ASSUME NEW j, NEW r, NEW k, NEW st, NEW T, Moves(d, j, r, k, st), taken' = T,
             T \in {taken, taken \cup {k0.result}}, 0 \notin T,
             k.result \in {k0.result, Len(commits) + 1}, MergeKnown(j, k, st, T)
      PROVE  MergeInv'
  BY <1>5, MergeMoves
<1> HIDE DEF j0, r0, k0, s0
<1>6. ASSUME NEW j, Goes(d, j), UNCHANGED <<rebase, diskVars, taken>>, MergeKnown(j, k0, s0, taken)
      PROVE  MergeInv'
  <2>1. Moves(d, j, r0, k0, s0)
    BY <1>3, <1>6 DEF Goes, Moves, diskVars
  <2> QED
    BY <1>4, <1>5, <1>6, <2>1
<1>7. Idle.step = "idle" /\ ~Idle.recovered
  BY DEF Idle
<1>8. Stops(d) /\ UNCHANGED <<rebase, diskVars, taken>> => MergeInv'
  <2>1. MergeKnown(Idle, k0, s0, taken)
    BY <1>4, <1>7 DEF MergeKnown, OfASave, Looked
  <2> QED
    BY <1>6, <2>1 DEF Stops
<1>9. \A st : /\ [j0 EXCEPT !.step = st].step = st
              /\ [j0 EXCEPT !.step = st].recovered = j0.recovered
  BY <1>2 DEF JobsTo
<1>10. \A st : /\ [k0 EXCEPT !.state = st].state = st
               /\ [k0 EXCEPT !.state = st].result = k0.result
  BY <1>2 DEF JournalsTo
<1>11. \A st : [journal EXCEPT ![d].state = st] = [journal EXCEPT ![d] = [k0 EXCEPT !.state = st]]
  BY DEF k0
<1>12. Finishes(d) /\ UNCHANGED taken => MergeInv'
  <2> SUFFICES ASSUME Finishes(d), UNCHANGED taken PROVE MergeInv'
    OBVIOUS
  <2>1. PICK k : k = [k0 EXCEPT !.state = "applied"]
    OBVIOUS
  <2>2. k.state = "applied" /\ k.result = k0.result
    BY <1>10, <2>1
  <2>3. Moves(d, Idle, NoRebase, k, 0)
    BY <1>11, <2>1 DEF Finishes, Stops, Goes, Moves
  <2>4. MergeKnown(Idle, k, 0, taken)
    BY <1>4, <1>7, <2>2 DEF MergeKnown, OfASave, Looked
  <2> QED
    BY <1>4, <1>5, <2>2, <2>3, <2>4
<1>13. CASE Compute(d, heard)
  <2>1. j0.step = "compute" /\ UNCHANGED <<rebase, staged, taken>>
    BY <1>13 DEF Compute, At, agentVars, roomVars, j0
  <2>2. CASE Stops(d) /\ UNCHANGED journal
    BY <1>8, <2>1, <2>2 DEF diskVars
  <2>3. CASE ~(Stops(d) /\ UNCHANGED journal)
    <3>1. PICK k : k.result = Len(commits) + 1 /\ journal' = [journal EXCEPT ![d] = k]
      BY <1>13, <2>3 DEF Compute
    <3>2. PICK j : Goes(d, j) /\ (j = Idle \/ j = [j0 EXCEPT !.step = "begin"])
      BY <1>13, <2>3 DEF Compute, Stops, Goto, j0
    <3>3. j.step \in {"idle", "begin"} /\ (j.step = "begin" => j.recovered = j0.recovered)
      BY <1>7, <1>9, <3>2
    <3>4. Moves(d, j, r0, k, s0)
      BY <1>3, <2>1, <3>1, <3>2 DEF Moves, Goes
    <3>5. k.result \notin taken /\ ~j0.recovered
      BY <1>2, <1>4, <2>1, <3>1 DEF MergeKnown, OfASave
    <3>6. MergeKnown(j, k, s0, taken)
      BY <3>3, <3>5 DEF MergeKnown, OfASave, Looked
    <3> QED
      BY <1>4, <1>5, <2>1, <3>1, <3>4, <3>6
  <2> QED
    BY <2>2, <2>3
<1>14. CASE RecoverRow(d, heard)
  <2>1. j0.step = "row" /\ UNCHANGED <<rebase, journal>>
    BY <1>14 DEF RecoverRow, At, agentVars, j0
  <2>2. k0.result # 0 /\ k0.state # "applied" /\ ~j0.recovered /\ s0 \in {0, k0.result}
    BY <1>1, <1>4, <2>1 DEF Shape, RebaseSteps, JournalShape, MergeKnown
  <2>3. ASSUME NEW b, NEW T, taken' = T, Goes(d, [j0 EXCEPT !.step = "receipt", !.recovered = b]), UNCHANGED staged,
               T \in {taken, taken \cup {k0.result}}, b <=> k0.result \in T,
               k0.result \in T => s0 = k0.result
        PROVE  MergeInv'
    <3>1. PICK j : j = [j0 EXCEPT !.step = "receipt", !.recovered = b]
      OBVIOUS
    <3>2. j.step = "receipt" /\ j.recovered = b
      BY <1>2, <3>1 DEF JobsTo
    <3>3. Moves(d, j, r0, k0, s0)
      BY <1>3, <2>1, <2>3, <3>1 DEF Goes, Moves
    <3>4. MergeKnown(j, k0, s0, T)
      BY <2>3, <3>2 DEF MergeKnown, OfASave, Looked
    <3>5. 0 \notin T
      BY <1>4, <2>2, <2>3
    <3> QED
      BY <1>5, <2>3, <3>3, <3>4, <3>5
  <2>4. CASE UNCHANGED roomVars /\ UNCHANGED staged
    <3>1. taken' = taken
      BY <2>4 DEF roomVars
    <3>2. CASE Stops(d)
      BY <1>8, <2>1, <2>4, <3>1, <3>2 DEF diskVars
    <3>3. CASE ~Stops(d)
      <4>1. PICK b : /\ Goes(d, [j0 EXCEPT !.step = "receipt", !.recovered = b])
                     /\ b = (s0 # 0) /\ (s0 = 0 \/ s0 \in taken)
        <5>1. CASE staged[d] \in taken \cup {0}
          <6>1. Goes(d, [j0 EXCEPT !.step = "receipt", !.recovered = (s0 # 0)])
            BY <1>14, <2>4, <3>3, <5>1 DEF RecoverRow, j0, s0
          <6> QED
            BY <5>1, <6>1 DEF s0
        <5>2. CASE staged[d] \notin taken \cup {0}
          <6>1. TakesIn(d, staged[d]) \/ staged' = [staged EXCEPT ![d] = 0]
            BY <1>14, <5>2 DEF RecoverRow
          <6>2. ~TakesIn(d, staged[d])
            BY <3>1, <5>2 DEF TakesIn
          <6>3. staged'[d] = 0
            BY <6>1, <6>2, DeviceFunctions
          <6> QED
            BY <2>4, <5>2, <6>3
        <5> QED
          BY <5>1, <5>2
      <4>2. b <=> k0.result \in taken
        BY <1>4, <2>2, <4>1 DEF MergeKnown
      <4> QED
        BY <1>4, <2>2, <2>3, <2>4, <3>1, <4>1, <4>2
    <3> QED
      BY <3>2, <3>3
  <2>5. CASE TakesIn(d, staged[d]) /\ s0 # 0 /\ UNCHANGED staged
             /\ (Goes(d, [j0 EXCEPT !.step = "receipt", !.recovered = TRUE]) \/ Stops(d))
    <3>1. taken' = taken \cup {k0.result} /\ s0 = k0.result
      BY <2>2, <2>5 DEF TakesIn, s0
    <3>2. CASE Stops(d)
      <4>1. Moves(d, Idle, r0, k0, s0)
        BY <1>3, <2>1, <2>5, <3>2 DEF Stops, Goes, Moves
      <4>2. MergeKnown(Idle, k0, s0, taken \cup {k0.result})
        BY <1>7, <3>1 DEF MergeKnown, OfASave, Looked
      <4> QED
        BY <1>4, <1>5, <2>2, <3>1, <4>1, <4>2
    <3>3. CASE Goes(d, [j0 EXCEPT !.step = "receipt", !.recovered = TRUE])
      BY <2>3, <2>5, <3>1, <3>3
    <3> QED
      BY <2>5, <3>2, <3>3
  <2>6. CASE Goto(d, "receipt") /\ staged' = [staged EXCEPT ![d] = 0] /\ s0 \notin taken /\ taken' = taken
    <3>1. PICK j : j = [j0 EXCEPT !.step = "receipt"]
      OBVIOUS
    <3>2. j.step = "receipt" /\ j.recovered = j0.recovered
      BY <1>9, <3>1
    <3>3. Moves(d, j, r0, k0, 0)
      BY <1>3, <2>1, <2>6, <3>1 DEF Goto, Goes, Moves, j0
    <3>4. k0.result \notin taken
      BY <1>4, <2>2, <2>6 DEF MergeKnown
    <3>5. MergeKnown(j, k0, 0, taken)
      BY <2>2, <3>2, <3>4 DEF MergeKnown, OfASave, Looked
    <3> QED
      BY <1>4, <1>5, <2>6, <3>3, <3>5
  <2> QED
    BY <1>14, <2>4, <2>5, <2>6 DEF RecoverRow, roomVars, j0, s0
<1>15. CASE FindReceipt(d)
  BY <1>12, <1>15 DEF FindReceipt, roomVars
<1>16. CASE PublishPending(d, heard)
  <2>1. taken' = taken
    BY <1>16 DEF PublishPending, roomVars
  <2>2. Finishes(d) \/ (Stops(d) /\ UNCHANGED <<rebase, diskVars>>)
    BY <1>16 DEF PublishPending
  <2> QED
    BY <1>8, <1>12, <2>1, <2>2
<1>17. CASE ApplyRefused(d) \/ FinishRefused(d)
  BY <1>8, <1>17 DEF ApplyRefused, FinishRefused, agentVars, roomVars
<1>18. CASE ApplyGoesOn(d)
  <2>1. PICK j : j = [j0 EXCEPT !.step = "begin"]
    OBVIOUS
  <2>2. j0.step = "receipt" /\ Goes(d, j) /\ UNCHANGED <<rebase, diskVars, taken>>
    BY <1>18, <2>1 DEF ApplyGoesOn, Goto, At, roomVars, j0
  <2>3. j.step = "begin" /\ j.recovered = j0.recovered
    BY <1>9, <2>1
  <2>4. MergeKnown(j, k0, s0, taken)
    BY <1>4, <2>2, <2>3 DEF MergeKnown, OfASave, Looked
  <2> QED
    BY <1>6, <2>2, <2>4
<1>19. CASE Begin(d)
  <2>1. PICK j, k : j = [j0 EXCEPT !.step = "adopt"] /\ k = [k0 EXCEPT !.state = "adopting"]
    OBVIOUS
  <2>2. j0.step = "begin" /\ Goes(d, j) /\ UNCHANGED <<rebase, staged, taken>>
        /\ journal' = [journal EXCEPT ![d] = k]
    BY <1>11, <1>19, <2>1 DEF Begin, Goto, At, agentVars, roomVars, j0
  <2>3. Moves(d, j, r0, k, s0)
    BY <1>3, <2>2 DEF Moves, Goes
  <2>4. j.step = "adopt" /\ j.recovered = j0.recovered /\ k.result = k0.result
    BY <1>9, <1>10, <2>1
  <2>5. k0.state # "applied"
    BY <1>1, <2>2 DEF Shape, RebaseSteps
  <2>6. MergeKnown(j, k, s0, taken)
    BY <1>4, <2>2, <2>4, <2>5 DEF MergeKnown, OfASave, Looked
  <2> QED
    BY <1>4, <1>5, <2>2, <2>3, <2>4, <2>6
<1>20. CASE Adopt(d, heard)
  <2>1. j0.step = "adopt" /\ UNCHANGED <<rebase, diskVars, taken>>
    BY <1>20 DEF Adopt, At, agentVars, j0
  <2>2. CASE Stops(d)
    BY <1>8, <2>1, <2>2
  <2>3. CASE ~Stops(d)
    <3>1. PICK j : j = [j0 EXCEPT !.step = AfterAdoption(d)]
      OBVIOUS
    <3>2. Goes(d, j)
      BY <1>20, <2>3, <3>1 DEF Adopt, Goto, j0
    <3>3. j.step = IF j0.recovered THEN "adopted" ELSE "integrate"
      BY <1>9, <3>1 DEF AfterAdoption, j0
    <3>4. MergeKnown(j, k0, s0, taken)
      BY <1>4, <2>1, <3>3 DEF MergeKnown, OfASave, Looked
    <3> QED
      BY <1>6, <2>1, <3>2, <3>4
  <2> QED
    BY <2>2, <2>3
<1>21. CASE Integrate(d, heard)
  <2>1. j0.step = "integrate" /\ UNCHANGED <<rebase, journal, taken>>
    BY <1>21 DEF Integrate, At, agentVars, j0
  <2>2. CASE Stops(d) /\ UNCHANGED staged
    BY <1>8, <2>1, <2>2 DEF diskVars
  <2>3. CASE Goto(d, "adopted") /\ UNCHANGED staged
    <3>1. PICK j : j = [j0 EXCEPT !.step = "adopted"]
      OBVIOUS
    <3>2. j.step = "adopted" /\ Goes(d, j)
      BY <1>9, <2>3, <3>1 DEF Goto, j0
    <3>3. MergeKnown(j, k0, s0, taken)
      BY <1>4, <2>1, <3>2 DEF MergeKnown, OfASave, Looked
    <3> QED
      BY <1>6, <2>1, <2>3, <3>2, <3>3 DEF diskVars
  <2>4. CASE Goto(d, "finish") /\ staged' = [staged EXCEPT ![d] = k0.result]
    <3>1. PICK j : j = [j0 EXCEPT !.step = "finish"]
      OBVIOUS
    <3>2. j.step = "finish"
      BY <1>9, <3>1
    <3>3. Moves(d, j, r0, k0, k0.result)
      BY <1>3, <2>1, <2>4, <3>1 DEF Goto, Goes, Moves, j0
    <3>4. MergeKnown(j, k0, k0.result, taken)
      BY <1>4, <2>1, <3>2 DEF MergeKnown, OfASave, Looked
    <3> QED
      BY <1>4, <1>5, <2>1, <3>3, <3>4
  <2> QED
    BY <1>21, <2>2, <2>3, <2>4 DEF Integrate, k0
<1>22. CASE FinishIntegration(d, heard)
  <2>1. j0.step = "finish" /\ UNCHANGED <<rebase, diskVars>> /\ taken' = taken \cup {k0.result}
    BY <1>22 DEF FinishIntegration, TakesIn, At, agentVars, j0, k0
  <2>2. k0.result # 0 /\ s0 = k0.result
    BY <1>1, <2>1 DEF Shape, RebaseSteps, JournalShape
  <2>3. PICK j : Goes(d, j) /\ (j = Idle \/ j = [j0 EXCEPT !.step = "adopted"])
    BY <1>22 DEF FinishIntegration, Stops, Goto, j0
  <2>4. j.step \in {"idle", "adopted"}
    BY <1>7, <1>9, <2>3
  <2>5. Moves(d, j, r0, k0, s0)
    BY <1>3, <2>1, <2>3 DEF Moves, Goes, diskVars
  <2>6. MergeKnown(j, k0, s0, taken \cup {k0.result})
    BY <2>2, <2>4 DEF MergeKnown, OfASave, Looked
  <2> QED
    BY <1>4, <1>5, <2>1, <2>2, <2>5, <2>6
<1>23. CASE Adopted(d)
  <2>1. PICK k : k = [k0 EXCEPT !.state = "adopted"]
    OBVIOUS
  <2>2. /\ j0.step = "adopted" /\ UNCHANGED <<staged, taken>> /\ journal' = [journal EXCEPT ![d] = k]
        /\ \E r : rebase' = [rebase EXCEPT ![d] = r]
    BY <1>11, <1>23, <2>1 DEF Adopted, At, roomVars, j0
  <2>3. PICK r : rebase' = [rebase EXCEPT ![d] = r]
    BY <2>2
  <2>4. PICK j : Goes(d, j) /\ (j = Idle
                   \/ j = [Idle EXCEPT !.step = "resolve", !.gen = sees[d], !.rebases = FALSE])
    BY <1>23 DEF Adopted, Begins, Stops
  <2>5. j.step \in {"idle", "resolve"} /\ ~j.recovered
    <3>1. LET b == [Idle EXCEPT !.step = "resolve", !.gen = sees[d], !.rebases = FALSE]
          IN  b.step = "resolve" /\ ~b.recovered
      BY DEF Idle
    <3> QED
      BY <1>7, <2>4, <3>1
  <2>6. Moves(d, j, r, k, s0)
    BY <1>3, <2>2, <2>3, <2>4 DEF Moves, Goes
  <2>7. k.result = k0.result /\ k0.state # "applied"
    BY <1>1, <1>10, <2>1, <2>2 DEF Shape, RebaseSteps
  <2>8. MergeKnown(j, k, s0, taken)
    BY <1>4, <2>5, <2>7 DEF MergeKnown, OfASave, Looked
  <2> QED
    BY <1>4, <1>5, <2>2, <2>6, <2>7, <2>8
<1> QED
  BY <1>13, <1>14, <1>15, <1>16, <1>17, <1>18, <1>19, <1>20, <1>21, <1>22, <1>23

\* Every step keeps what is known of the merges.
LEMMA MergeStep ==
    ASSUME TypeInv, ShapeInv, MergeInv, [BranchNext]_branchVars
    PROVE  MergeInv'
<1>1. UNCHANGED <<job, diskVars, taken>> => MergeInv'
  BY DEF MergeInv, diskVars
<1>2. CASE UNCHANGED branchVars \/ ExpireWindow \/ \E i \in Item : Edit(i) \/ PushOutside(i)
  BY <1>1, <1>2 DEF branchVars, roomVars, ExpireWindow, Edit, PushOutside
<1>3. ASSUME NEW d \in Device, Works(d) \/ (\E heard \in BOOLEAN : Calls(d, heard) \/ Compute(d, heard))
      PROVE  MergeInv'
  BY <1>3, SaveKeepsMerges, RebaseKeepsMerges DEF Works, Calls
<1>4. ASSUME NEW d \in Device, Handover(d) \/ Hear(d) \/ StartSave(d) \/ PollRemote(d) \/ Asks(d)
                               \/ CallLost(d) \/ Restart(d)
      PROVE  MergeInv'
  BY <1>4, BeginningKeepsMerges
<1> QED
  BY <1>2, <1>3, <1>4 DEF BranchNext, Proceeds, Fails

\* Only a merge of a rebase closes the window with a change of the log.
LEMMA MergedOnceStep ==
    ASSUME TypeInv, MergeInv, [BranchNext]_branchVars
    PROVE  window # 0 /\ window' = 0 /\ log' # log => taken' # taken
<1> SUFFICES ASSUME window # 0, window' = 0, log' # log PROVE taken' # taken
  OBVIOUS
<1>1. CASE UNCHANGED branchVars \/ ExpireWindow \/ \E i \in Item : Edit(i) \/ PushOutside(i)
  BY <1>1 DEF branchVars, roomVars, ExpireWindow, Edit, PushOutside
<1>2. ASSUME NEW d \in Device, Handover(d) \/ Hear(d) \/ StartSave(d) \/ PollRemote(d) \/ Asks(d)
                               \/ CallLost(d) \/ Restart(d)
      PROVE  taken' # taken
  BY <1>2 DEF Handover, Hear, StartSave, PollRemote, Asks, SaveNow, RequestRebase, Apply, CallLost, Restart,
              roomVars
<1>3. ASSUME NEW d \in Device, NEW heard, FinishIntegration(d, heard) PROVE taken' # taken
  <2>1. journal[d].result \notin taken
    BY <1>3 DEF MergeInv, MergeKnown, FinishIntegration, At
  <2> QED
    BY <1>3, <2>1 DEF FinishIntegration, TakesIn
<1>4. ASSUME NEW d \in Device, NEW heard, RecoverRow(d, heard) PROVE taken' # taken
  BY <1>4 DEF RecoverRow, TakesIn, roomVars
<1>5. ASSUME NEW d \in Device, Works(d) PROVE taken' # taken
  <2>1. CASE ResolveRebase(d) \/ ResolveUnmoved(d) \/ ResolveOwn(d) \/ ResolveOutside(d)
    BY <2>1 DEF ResolveRebase, ResolveUnmoved, ResolveOwn, ResolveOutside, Looks, roomVars
  <2>2. CASE MergeOutside(d)
    BY <2>2 DEF MergeOutside, Integrates
  <2>3. CASE Capture(d) \/ CaptureRefused(d) \/ Fence(d) \/ FenceRefused(d) \/ MarkRefused(d)
    BY <2>3 DEF Capture, CaptureRefused, Fence, FenceRefused, MarkRefused, Barred, Deposed, roomVars
  <2>4. CASE PushRejected(d) \/ PublishRefused(d)
    BY <2>4 DEF PushRejected, PublishRefused, Barred, Deposed, roomVars
  <2>5. CASE FindReceipt(d) \/ ApplyRefused(d) \/ ApplyGoesOn(d) \/ Begin(d) \/ FinishRefused(d) \/ Adopted(d)
    BY <2>5 DEF FindReceipt, ApplyRefused, ApplyGoesOn, Begin, FinishRefused, Adopted, roomVars
  <2> QED
    BY <1>5, <2>1, <2>2, <2>3, <2>4, <2>5 DEF Works
<1>6. ASSUME NEW d \in Device, NEW heard, Calls(d, heard) \/ Compute(d, heard) PROVE taken' # taken
  <2>1. CASE Push(d, heard) \/ Compute(d, heard)
    BY <2>1 DEF Push, Compute, roomVars
  <2>2. CASE Publish(d, heard) \/ Mark(d, heard) \/ Adopt(d, heard) \/ Integrate(d, heard)
    BY <2>2 DEF Publish, Records, Mark, Adopt, Integrate
  <2>3. CASE PublishPending(d, heard)
    BY <2>3 DEF PublishPending, roomVars
  <2> QED
    BY <1>3, <1>4, <1>6, <2>1, <2>2, <2>3 DEF Calls
<1> QED
  BY <1>1, <1>2, <1>5, <1>6 DEF BranchNext, Proceeds, Fails

\* What is known of the merges holds in every reachable state.
LEMMA MergesAlways == BranchSpec => [](TypeInv /\ ShapeInv /\ MergeInv)
<1>1. BranchInit => MergeInv
  BY DEF BranchInit, MergeInv, MergeKnown, NoJournal, Idle, OfASave, Looked
<1>2. TypeInv /\ ShapeInv /\ MergeInv /\ [BranchNext]_branchVars => MergeInv'
  BY MergeStep
<1> QED
  BY <1>1, <1>2, ShapeAlways, PTL DEF BranchSpec

\* The merge of a rebase changes the session once, however often its adoption
\* is taken up again after a crash, a lost answer or a change of leader.
THEOREM MergesOnce == BranchSpec => RebaseMergedOnce
<1> DEFINE Once == window # 0 /\ window' = 0 /\ log' # log => taken' # taken
<1>1. TypeInv /\ MergeInv /\ [BranchNext]_branchVars => [Once]_branchVars
  BY MergedOnceStep
<1> QED
  BY <1>1, MergesAlways, PTL DEF BranchSpec, RebaseMergedOnce
=============================================================================
