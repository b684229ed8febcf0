---------------------------- MODULE AutoGitBranch ----------------------------
(***************************************************************************)
(* Saving a live session to its Git branch.  The device that holds the     *)
(* lease looks at the branch on the remote, records a save an earlier      *)
(* leader pushed and did not record, merges commits others pushed into the *)
(* session, captures the session at a room barrier, renews its lease,      *)
(* pushes a commit and publishes it as the room's checkpoint.  A member    *)
(* may have the session rebased on its target branch: the result is        *)
(* adopted into the session and pushed over the save it replaces, and a    *)
(* journal on the device that computed it takes it through crashes.        *)
(*                                                                         *)
(* Every call of a device to the room or to the remote is a step; the      *)
(* lease may move between two of them, the call or its answer may be lost, *)
(* and the device may restart.                                             *)
(*                                                                         *)
(* Abstractions: the content of the session is the set of items in it, so  *)
(* a three-way merge never conflicts; all devices write to one content,    *)
(* and the merge of a diff is one change of it; barrier ids and object ids *)
(* are told apart by what they name; who leads is AutoGitLease's concern,  *)
(* here the lease just moves; others only add commits on top of the        *)
(* branch; env files, the notice, the move of local baselines and a        *)
(* member's sync from GitHub, the same merge outside of a save, are left   *)
(* out.                                                                    *)
(***************************************************************************)
EXTENDS Naturals, Sequences, FiniteSets

CONSTANTS
    Device,
    NoDevice,
    Item,          \* what the content is made of
    TargetItem,    \* the item the target branch has and the session lacks
    MaxEdits,      \* bound: edits of members
    MaxOutside,    \* bound: commits pushed from outside the session
    MaxRebases,    \* bound: rebases
    MaxGeneration, \* bound: lease generations
    MaxFaults      \* bound: lost calls, lost answers and restarts

ASSUME NamesAreApart == NoDevice \notin Device /\ TargetItem \in Item
ASSUME BoundsAreNat == {MaxEdits, MaxOutside, MaxRebases, MaxGeneration, MaxFaults} \subseteq Nat

VARIABLES
    log,        \* the room: content of the session after each change
    leader, generation,
    checkpoint, \* the room: what is saved
    adoption,   \* the room: the rebase being adopted
    receipt,    \* the room: rebases whose adoption ended in a checkpoint
    window,     \* the room: generation in which a rebase is being merged in, or 0
    taken,      \* the room: rebases whose merge is in the log
    commits,    \* every commit that got to the remote or that a rebase made
    remote,     \* the branch on the remote, 0 when it is not there
    sees,       \* device -> generation it believes to lead in, or 0
    mine,       \* device -> the checkpoint it knows
    integrated, \* device -> newest outside commit merged in since, or 0
    clean,      \* device -> sequence number it believes to be saved
    blocked,    \* device -> saving has stopped until someone acts
    blockedAt,  \* device -> the branch the stopped save had seen, or 0
    rebase,     \* device -> the adopted rebase its next save pushes
    job,        \* device -> the save or rebase in progress
    journal,    \* device, on disk -> the rebase it has computed
    staged,     \* device, on disk -> the rebase whose merge batch it keeps, or 0
    broughtIn,  \* history: outside commits merged into the session
    edits, faults

roomVars == <<log, leader, generation, checkpoint, adoption, receipt, window, taken>>
gitVars == <<commits, remote>>
agentVars == <<sees, mine, integrated, clean, blocked, blockedAt, rebase>>
diskVars == <<journal, staged>>
countVars == <<broughtIn, edits, faults>>
branchVars == <<roomVars, gitVars, agentVars, job, diskVars, countVars>>

NoCheckpoint == [commit |-> 0, seq |-> 0, through |-> 0]
NoAdoption == [by |-> NoDevice, from |-> 0, result |-> 0, since |-> 0]
NoRebase == [from |-> 0, result |-> 0]
NoCommit == [parent |-> 0, tree |-> {}, kind |-> "none", seq |-> 0]
NoJournal == [state |-> "none", from |-> 0, result |-> 0, pending |-> NoCommit, seq |-> 0]
Idle == [step |-> "idle", gen |-> 0, parent |-> 0, head |-> 0, seq |-> 0,
         out |-> 0, rebases |-> FALSE, recovered |-> FALSE]

(***************************************************************************)
(* Session content and Git history                                         *)
(***************************************************************************)
Seq0 == Len(log) - 1
ContentAt(s) == log[s + 1]
Content == ContentAt(Seq0)

\* git merge-file and the choices around it, item by item.
Merge(ours, base, theirs) ==
    {i \in Item : i \in (IF (i \in base) <=> (i \in theirs) THEN ours ELSE theirs)}

Ancestors(c) ==
    LET above[n \in 0..Len(commits)] ==
            IF n = 0 THEN {} ELSE {n} \cup above[commits[n].parent]
    IN  above[c]

TreeOf(c) == IF c = 0 THEN {} ELSE commits[c].tree
Between(base, head) == Ancestors(head) \ Ancestors(base)

\* ownCheckpointsSince: the branch goes from the anchor to head by saves of
\* this session only.
OwnSince(anchor, head) ==
    /\ anchor \in Ancestors(head)
    /\ \A c \in Between(anchor, head) : commits[c].kind = "own"

(***************************************************************************)
(* Devices                                                                 *)
(***************************************************************************)
Leads(d) == sees[d] # 0
HasLease(d, gen) == leader = d /\ generation = gen
Free(d) == job[d].step = "idle"
At(d, step) == job[d].step = step
Dirty(d) == Seq0 > clean[d]
Known(d) == IF integrated[d] # 0 THEN integrated[d] ELSE mine[d].commit
Larger(a, b) == IF a >= b THEN a ELSE b

\* A rebase the room or the journal has not finished and this agent does not carry.
Interrupted(d) ==
    /\ rebase[d] = NoRebase
    /\ adoption # NoAdoption \/ journal[d].state \in {"adopting", "adopted"}

BranchInit ==
    /\ log = << {} >>
    /\ leader = NoDevice /\ generation = 0
    /\ checkpoint = NoCheckpoint /\ adoption = NoAdoption
    /\ receipt = {} /\ window = 0 /\ taken = {}
    /\ commits = << [parent |-> 0, tree |-> {}, kind |-> "base", seq |-> 0] >>
    /\ remote \in {0, 1}
    /\ sees = [d \in Device |-> 0]
    /\ mine = [d \in Device |-> NoCheckpoint]
    /\ integrated = [d \in Device |-> 0]
    /\ clean = [d \in Device |-> 0]
    /\ blocked = [d \in Device |-> FALSE]
    /\ blockedAt = [d \in Device |-> 0]
    /\ rebase = [d \in Device |-> NoRebase]
    /\ job = [d \in Device |-> Idle]
    /\ journal = [d \in Device |-> NoJournal]
    /\ staged = [d \in Device |-> 0]
    /\ broughtIn = {} /\ edits = 0 /\ faults = 0

Goes(d, j) == job' = [job EXCEPT ![d] = j]
Goto(d, step) == Goes(d, [job[d] EXCEPT !.step = step])
Stops(d) == Goes(d, Idle)

\* handleFailure for a code that stops saving until someone acts.
Blocks(d, head) ==
    /\ blocked' = [blocked EXCEPT ![d] = TRUE]
    /\ blockedAt' = [blockedAt EXCEPT ![d] = head]

\* handleFailure for LEASE_STALE.
Deposed(d) ==
    /\ sees' = [sees EXCEPT ![d] = 0]
    /\ Stops(d)
    /\ UNCHANGED <<roomVars, gitVars, mine, integrated, clean, blocked, blockedAt,
                   rebase, diskVars, countVars>>

\* acceptCheckpoint: an older checkpoint is ignored, a new one covers what was
\* merged in from outside.
Outdated(d, c) == mine[d].commit \notin {0, c.commit} /\ c.seq < mine[d].seq
Accepts(d, c) ==
    IF Outdated(d, c)
    THEN UNCHANGED <<mine, integrated>>
    ELSE /\ mine' = [mine EXCEPT ![d] = c]
         /\ integrated' = [integrated EXCEPT ![d] = IF c.commit = mine[d].commit THEN @ ELSE 0]

\* Fault: whatever the session holds now counts as saved.
CountsAllSaved(d, c, s) == clean' = [clean EXCEPT ![d] = Seq0]

\* Fault: the first change that is not saved is counted too.
CountsOneMoreSaved(d, c, s) ==
    clean' = [clean EXCEPT ![d] = Larger(@, IF Outdated(d, c) THEN s ELSE 1 + Larger(s, c.through))]

\* cleanThroughSeq, once c is accepted and the capture at s, if any, is saved.
CountsSaved(d, c, s) ==
    clean' = [clean EXCEPT ![d] = Larger(@, IF Outdated(d, c) THEN s ELSE Larger(s, c.through))]

\* A call either has its answer, or costs a fault: the work was done and the
\* device does not know.
Answered(heard) == IF heard THEN UNCHANGED faults ELSE faults < MaxFaults /\ faults' = faults + 1

(***************************************************************************)
(* What goes on around the saving                                          *)
(***************************************************************************)
\* A member edits; while a rebase is being merged in the room keeps edits back.
Edit(i) ==
    /\ edits < MaxEdits /\ window = 0
    /\ i = TargetItem => i \in Content
    /\ log' = Append(log, IF i \in Content THEN Content \ {i} ELSE Content \cup {i})
    /\ edits' = edits + 1
    /\ UNCHANGED <<leader, generation, checkpoint, adoption, receipt, window, taken, gitVars,
                   agentVars, job, diskVars, broughtIn, faults>>

OutsideCommits == {c \in DOMAIN commits : commits[c].kind = "outside"}
Rebased == {c \in DOMAIN commits : commits[c].kind = "rebased"}

\* Someone pushes a commit on top of the branch from outside the session.
PushOutside(i) ==
    /\ Cardinality(OutsideCommits) < MaxOutside /\ remote # 0 /\ i # TargetItem
    /\ commits' = Append(commits, [parent |-> remote, kind |-> "outside", seq |-> 0,
                                   tree |-> TreeOf(remote) \cup {i}])
    /\ remote' = Len(commits) + 1
    /\ UNCHANGED <<roomVars, agentVars, job, diskVars, countVars>>

\* The lease runs out or is given up, and the room grants it again.
Handover(d) ==
    /\ generation < MaxGeneration
    /\ leader' = d /\ generation' = generation + 1
    /\ UNCHANGED <<log, checkpoint, adoption, receipt, window, taken, gitVars, agentVars, job,
                   diskVars, countVars>>

\* handleRoomState: a device that leads or led hears who leads and what is saved.
Hear(d) ==
    LET now == IF leader = d THEN generation ELSE 0 IN
    /\ sees[d] # now \/ (now # 0 /\ mine[d] # checkpoint)
    /\ sees' = [sees EXCEPT ![d] = now]
    /\ IF checkpoint = NoCheckpoint THEN UNCHANGED <<mine, integrated, clean>>
       ELSE Accepts(d, checkpoint) /\ CountsSaved(d, checkpoint, 0)
    /\ blocked' = [blocked EXCEPT ![d] = @ /\ ~(sees[d] = 0 /\ now # 0)]
    /\ UNCHANGED <<roomVars, gitVars, blockedAt, rebase, job, diskVars, countVars>>

\* A call of the device never reaches the room or the remote.
CallLost(d) ==
    /\ job[d].step \notin {"idle", "begin", "adopted"}
    /\ Answered(FALSE)
    /\ Stops(d)
    /\ UNCHANGED <<roomVars, gitVars, agentVars, diskVars, broughtIn, edits>>

\* The daemon restarts: what it kept in memory is gone.
Restart(d) ==
    /\ Answered(FALSE)
    /\ sees' = [sees EXCEPT ![d] = 0]
    /\ mine' = [mine EXCEPT ![d] = NoCheckpoint]
    /\ integrated' = [integrated EXCEPT ![d] = 0]
    /\ clean' = [clean EXCEPT ![d] = 0]
    /\ blocked' = [blocked EXCEPT ![d] = FALSE]
    /\ blockedAt' = [blockedAt EXCEPT ![d] = 0]
    /\ rebase' = [rebase EXCEPT ![d] = NoRebase]
    /\ Stops(d)
    /\ UNCHANGED <<roomVars, gitVars, diskVars, broughtIn, edits>>

(***************************************************************************)
(* A save begins                                                           *)
(***************************************************************************)
Begins(d, rebases) ==
    Goes(d, [Idle EXCEPT !.step = "resolve", !.gen = sees[d], !.rebases = rebases])

\* scheduleCheckpoint and the start of checkpointOnce.
StartSave(d) ==
    /\ Leads(d) /\ Free(d) /\ Dirty(d) /\ ~blocked[d]
    /\ IF Interrupted(d)
       THEN Blocks(d, 0) /\ UNCHANGED job
       ELSE Begins(d, FALSE) /\ UNCHANGED <<blocked, blockedAt>>
    /\ UNCHANGED <<roomVars, gitVars, sees, mine, integrated, clean, rebase, diskVars,
                   countVars>>

\* checkpointNow: a member saves now.
SaveNow(d) ==
    /\ Leads(d) /\ Free(d) /\ ~Interrupted(d)
    /\ blocked' = [blocked EXCEPT ![d] = FALSE]
    /\ Begins(d, FALSE)
    /\ UNCHANGED <<roomVars, gitVars, sees, mine, integrated, clean, blockedAt, rebase,
                   diskVars, countVars>>

\* pollRemote: the branch is not where the device left it.
PollRemote(d) ==
    /\ Leads(d) /\ Free(d) /\ Known(d) \notin {0, remote}
    /\ blocked[d] => remote # blockedAt[d]
    /\ IF Interrupted(d)
       THEN Blocks(d, remote) /\ UNCHANGED job
       ELSE blocked' = [blocked EXCEPT ![d] = FALSE] /\ Begins(d, FALSE) /\ UNCHANGED blockedAt
    /\ UNCHANGED <<roomVars, gitVars, sees, mine, integrated, clean, rebase, diskVars, countVars>>

\* runRebase: the session is saved first.
RequestRebase(d) ==
    /\ Leads(d) /\ Free(d) /\ rebase[d] = NoRebase /\ ~Interrupted(d)
    /\ Cardinality(Rebased) < MaxRebases
    /\ blocked' = [blocked EXCEPT ![d] = FALSE]
    /\ Begins(d, TRUE)
    /\ UNCHANGED <<roomVars, gitVars, sees, mine, integrated, clean, blockedAt, rebase,
                   diskVars, countVars>>

(***************************************************************************)
(* resolveParent                                                           *)
(***************************************************************************)
\* Before the first save both sides start from the commit the session began with.
Base(d) == IF Known(d) = 0 THEN 1 ELSE Known(d)

Looks(d) ==
    /\ At(d, "resolve")
    /\ UNCHANGED <<roomVars, gitVars, sees, mine, integrated, clean, diskVars, countVars>>

BuildsOn(d, parent, step) ==
    Goes(d, [job[d] EXCEPT !.step = step, !.parent = parent, !.head = remote])

\* An adopted rebase builds on its result, over the save it replaces.
ResolveRebase(d) ==
    /\ Looks(d) /\ rebase[d] # NoRebase
    /\ IF remote = rebase[d].from
       THEN BuildsOn(d, rebase[d].result, "capture") /\ UNCHANGED <<rebase, blocked, blockedAt>>
       ELSE Stops(d) /\ rebase' = [rebase EXCEPT ![d] = NoRebase] /\ Blocks(d, remote)

ResolveUnmoved(d) ==
    /\ Looks(d) /\ rebase[d] = NoRebase /\ remote \in {0, Base(d)}
    /\ BuildsOn(d, Base(d), "capture")
    /\ UNCHANGED <<rebase, blocked, blockedAt>>

\* Every commit since the last save is a save of this session.
Unrecorded(d) == mine[d].commit # 0 /\ integrated[d] = 0 /\ OwnSince(mine[d].commit, remote)

ResolveOwn(d) ==
    /\ Looks(d) /\ rebase[d] = NoRebase /\ remote \notin {0, Base(d)} /\ Unrecorded(d)
    /\ Goes(d, [job[d] EXCEPT !.step = "recover", !.parent = remote, !.head = remote,
                              !.out = remote, !.seq = commits[remote].seq])
    /\ UNCHANGED <<rebase, blocked, blockedAt>>

ResolveOutside(d) ==
    /\ Looks(d) /\ rebase[d] = NoRebase /\ remote \notin {0, Base(d)} /\ ~Unrecorded(d)
    /\ IF Base(d) \in Ancestors(remote)
       THEN BuildsOn(d, Base(d), "merge") /\ UNCHANGED <<blocked, blockedAt>>
       ELSE Stops(d) /\ Blocks(d, remote)
    /\ UNCHANGED rebase

\* Fault: the save builds on the outside commits and the session never takes them in.
SkipsOutside(d, base, head) ==
    /\ integrated' = [integrated EXCEPT ![d] = head]
    /\ UNCHANGED <<roomVars, gitVars, sees, mine, clean, blocked, blockedAt, rebase, diskVars,
                   countVars>>

\* integrateExternalCommits: what head has and base lacks goes into the session;
\* while a rebase is being merged in the room keeps it back.
Integrates(d, base, head) ==
    LET both == Merge(Content, TreeOf(base), TreeOf(head)) IN
    /\ window = 0
    /\ log' = IF both = Content THEN log ELSE Append(log, both)
    /\ broughtIn' = broughtIn \cup (Between(base, head) \cap OutsideCommits)
    /\ integrated' = [integrated EXCEPT ![d] = head]
    /\ UNCHANGED <<leader, generation, checkpoint, adoption, receipt, window, taken, gitVars, sees,
                   mine, clean, blocked, blockedAt, rebase, diskVars, edits, faults>>

\* The merge of a save, and what resolveParent does with its result.
MergeOutside(d) ==
    /\ At(d, "merge") /\ Integrates(d, job[d].parent, job[d].head)
    /\ Goes(d, [job[d] EXCEPT !.step = "capture", !.parent = job[d].head])

(***************************************************************************)
(* captureAtBarrier and saveSnapshot                                       *)
(***************************************************************************)
Carries(d) == adoption.by = d /\ adoption.result = rebase[d].result

\* handleFailure for REBASE_RECOVERY_REQUIRED.
Barred(d) ==
    /\ Stops(d) /\ Blocks(d, job[d].head)
    /\ UNCHANGED <<roomVars, gitVars, sees, mine, integrated, clean, rebase, diskVars,
                   countVars>>

\* What a capture at the present barrier leads to.  A session the parent holds
\* exactly needs no commit.
AfterCapture(d) ==
    LET j == [job[d] EXCEPT !.seq = Seq0]
        same == Content = TreeOf(j.parent)
    IN  CASE ~same -> [j EXCEPT !.step = "fence", !.out = 0]
          [] same /\ (rebase[d] # NoRebase \/ j.head = 0) -> [j EXCEPT !.step = "fence", !.out = j.parent]
          [] same /\ rebase[d] = NoRebase /\ j.head # 0 /\ j.parent # mine[d].commit ->
                [j EXCEPT !.step = "publish", !.out = j.parent]
          [] OTHER -> [j EXCEPT !.step = "mark"]

Capture(d) ==
    /\ At(d, "capture")
    /\ adoption = NoAdoption \/ Carries(d)
    /\ HasLease(d, job[d].gen)
    /\ Goes(d, AfterCapture(d))
    /\ UNCHANGED <<roomVars, gitVars, agentVars, diskVars, countVars>>

CaptureRefused(d) ==
    /\ At(d, "capture")
    /\ IF adoption # NoAdoption /\ ~Carries(d) THEN Barred(d)
       ELSE ~HasLease(d, job[d].gen) /\ Deposed(d)

\* The commit a save pushes: the capture on top of its parent, or the parent itself.
Built(d) ==
    IF job[d].out # 0 THEN commits[job[d].out]
    ELSE [parent |-> job[d].parent, tree |-> ContentAt(job[d].seq), kind |-> "own", seq |-> job[d].seq]

\* renewLease, then retainCheckpoint when a rebase is saved.
Fence(d) ==
    /\ At(d, "fence") /\ HasLease(d, job[d].gen)
    /\ journal' = IF rebase[d] = NoRebase THEN journal
                  ELSE [journal EXCEPT ![d].pending = Built(d), ![d].seq = job[d].seq]
    /\ Goto(d, "push")
    /\ UNCHANGED <<roomVars, gitVars, agentVars, staged, countVars>>

FenceRefused(d) == At(d, "fence") /\ ~HasLease(d, job[d].gen) /\ Deposed(d)

\* Fault: the push is forced.
TakesAnything(d) == TRUE

\* The remote takes a fast-forward, or the replacement of exactly the save the
\* rebase started from.
Takes(d) ==
    IF rebase[d] # NoRebase THEN remote = rebase[d].from
    ELSE remote = 0 \/ remote \in Ancestors(IF job[d].out # 0 THEN job[d].out ELSE job[d].parent)

Push(d, heard) ==
    LET id == IF job[d].out # 0 THEN job[d].out ELSE Len(commits) + 1 IN
    /\ At(d, "push") /\ Takes(d)
    /\ commits' = IF job[d].out # 0 THEN commits ELSE Append(commits, Built(d))
    /\ remote' = id
    /\ IF heard THEN Goes(d, [job[d] EXCEPT !.step = "publish", !.out = id]) ELSE Stops(d)
    /\ Answered(heard)
    /\ UNCHANGED <<roomVars, agentVars, diskVars, broughtIn, edits>>

\* PUSH_REJECTED: tried again later.
PushRejected(d) ==
    /\ At(d, "push") /\ ~Takes(d)
    /\ Stops(d)
    /\ UNCHANGED <<roomVars, gitVars, sees, mine, integrated, clean, blocked, blockedAt, rebase,
                   diskVars, countVars>>

(***************************************************************************)
(* handleCheckpointPublish and handleCheckpointClean                       *)
(***************************************************************************)
Publishing(d) == job[d].step \in {"recover", "publish"}
Repeats(d) == checkpoint.commit = job[d].out

\* Fault: a save older than the recorded one is recorded over it.
NeverTooOld(d) == FALSE

TooOld(d) == job[d].seq < checkpoint.seq
\* Only the save that carries the pending rebase may be published.
Excluded(d) ==
    \/ window # 0
    \/ adoption # NoAdoption /\ ~(Carries(d) /\ job[d].seq >= adoption.since)

\* Fault: the record names the change sequenced last, not the one captured.
RecordedAsNow(d) ==
    IF Repeats(d) THEN checkpoint
    ELSE [commit |-> job[d].out, seq |-> job[d].seq, through |-> Seq0]

Recorded(d) ==
    IF Repeats(d) THEN checkpoint
    ELSE [commit |-> job[d].out, seq |-> job[d].seq, through |-> job[d].seq]

Records(d) ==
    /\ checkpoint' = Recorded(d)
    /\ IF Repeats(d) THEN UNCHANGED <<receipt, adoption>>
       ELSE /\ receipt' = receipt \cup ({adoption.result} \ {0})
            /\ adoption' = NoAdoption
    /\ UNCHANGED <<log, leader, generation, window, taken, gitVars>>

\* finishRebase, when the save carried a rebase.
FinishesRebase(d) ==
    IF rebase[d] = NoRebase THEN UNCHANGED <<rebase, diskVars>>
    ELSE /\ journal' = [journal EXCEPT ![d].state = "applied"]
         /\ staged' = [staged EXCEPT ![d] = 0]
         /\ rebase' = [rebase EXCEPT ![d] = NoRebase]

\* A save is done; the rebase it was made for follows.
Saved(d) == IF job[d].rebases THEN Goto(d, "compute") ELSE Stops(d)

Publish(d, heard) ==
    /\ Publishing(d) /\ HasLease(d, job[d].gen)
    /\ Repeats(d) \/ (~TooOld(d) /\ ~Excluded(d))
    /\ Records(d) /\ Answered(heard)
    /\ IF ~heard
       THEN Stops(d) /\ UNCHANGED <<agentVars, diskVars>>
       ELSE /\ Accepts(d, Recorded(d))
            /\ CountsSaved(d, Recorded(d), IF At(d, "recover") THEN 0 ELSE job[d].seq)
            /\ IF At(d, "recover") THEN Goto(d, "capture") ELSE Saved(d)
            /\ FinishesRebase(d)
            /\ UNCHANGED <<sees, blocked, blockedAt>>
    /\ UNCHANGED <<broughtIn, edits>>

PublishRefused(d) ==
    /\ Publishing(d)
    /\ \/ ~HasLease(d, job[d].gen) /\ Deposed(d)
       \/ /\ HasLease(d, job[d].gen) /\ ~Repeats(d) /\ TooOld(d)
          /\ Stops(d)
          /\ UNCHANGED <<roomVars, gitVars, agentVars, diskVars, countVars>>
       \/ /\ HasLease(d, job[d].gen) /\ ~Repeats(d) /\ ~TooOld(d) /\ Excluded(d)
          /\ Barred(d)

\* markSavedThrough: the branch already holds the session at the barrier.
Mark(d, heard) ==
    LET marked == [checkpoint EXCEPT !.through = Larger(@, job[d].seq)] IN
    /\ At(d, "mark") /\ adoption = NoAdoption /\ HasLease(d, job[d].gen)
    /\ checkpoint' = marked
    /\ Answered(heard)
    /\ IF heard
       THEN Accepts(d, marked) /\ CountsSaved(d, marked, job[d].seq) /\ Saved(d)
       ELSE Stops(d) /\ UNCHANGED <<mine, integrated, clean>>
    /\ UNCHANGED <<log, leader, generation, adoption, receipt, window, taken, gitVars, sees, blocked,
                   blockedAt, rebase, diskVars, broughtIn, edits>>

MarkRefused(d) ==
    /\ At(d, "mark")
    /\ IF adoption # NoAdoption THEN Barred(d) ELSE ~HasLease(d, job[d].gen) /\ Deposed(d)

(***************************************************************************)
(* An explicit rebase: computeRebase, and Apply on a retained one          *)
(***************************************************************************)
\* The result of the rebase holds the save and what the target has; a save that is
\* on top of the target already needs none.  A rebase with conflicts is left to be
\* resolved and applied.
Compute(d, conflicts) ==
    LET from == mine[d].commit
        result == Len(commits) + 1
    IN  /\ At(d, "compute")
        /\ IF Cardinality(Rebased) < MaxRebases /\ Ancestors(from) \cap Rebased = {}
           THEN /\ commits' = Append(commits, [parent |-> 1, kind |-> "rebased", seq |-> 0,
                                               tree |-> TreeOf(from) \cup {TargetItem}])
                /\ journal' = [journal EXCEPT ![d] = [state |-> "computed", from |-> from,
                                                      result |-> result, pending |-> NoCommit, seq |-> 0]]
                /\ IF conflicts THEN Stops(d) ELSE Goto(d, "begin")
           ELSE Stops(d) /\ UNCHANGED <<commits, journal>>
        /\ UNCHANGED <<roomVars, remote, agentVars, staged, countVars>>

\* Apply: the lease is renewed before anything else.
Apply(d) ==
    /\ Leads(d) /\ Free(d) /\ journal[d].state \in {"computed", "adopting", "adopted"}
    /\ HasLease(d, sees[d])
    /\ Goes(d, [Idle EXCEPT !.step = "row", !.gen = sees[d]])
    /\ UNCHANGED <<roomVars, gitVars, agentVars, diskVars, countVars>>

\* finishIntegration with the batch of rebase r, whose merge the window admits.
TakesIn(d, r) ==
    /\ window # 0 /\ HasLease(d, window) /\ job[d].gen = window
    /\ log' = Append(log, Merge(Content, TreeOf(journal[d].from), TreeOf(r)))
    /\ taken' = taken \cup {r}
    /\ window' = 0
    /\ UNCHANGED <<leader, generation, checkpoint, adoption, receipt>>

\* recoverIntegration: a merge batch kept on disk is in the log, or gets there
\* while its window is open, or is dropped.
RecoverRow(d, heard) ==
    /\ At(d, "row")
    /\ \/ /\ IF staged[d] = 0 THEN heard ELSE staged[d] \in taken
          /\ Answered(heard)
          /\ IF heard THEN Goes(d, [job[d] EXCEPT !.step = "receipt", !.recovered = (staged[d] # 0)])
             ELSE Stops(d)
          /\ UNCHANGED <<roomVars, staged>>
       \/ /\ staged[d] \notin taken \cup {0} /\ TakesIn(d, staged[d])
          /\ Answered(heard)
          /\ IF heard THEN Goes(d, [job[d] EXCEPT !.step = "receipt", !.recovered = TRUE]) ELSE Stops(d)
          /\ UNCHANGED staged
       \/ /\ staged[d] \notin taken \cup {0} /\ heard
          /\ ~(window # 0 /\ HasLease(d, window) /\ job[d].gen = window)
          /\ staged' = [staged EXCEPT ![d] = 0]
          /\ Goto(d, "receipt")
          /\ UNCHANGED <<roomVars, faults>>
    /\ UNCHANGED <<gitVars, agentVars, journal, broughtIn, edits>>

\* The rebase is over: the journal says so, and saving may go on.
Finishes(d) ==
    /\ journal' = [journal EXCEPT ![d].state = "applied"]
    /\ staged' = [staged EXCEPT ![d] = 0]
    /\ rebase' = [rebase EXCEPT ![d] = NoRebase]
    /\ blocked' = [blocked EXCEPT ![d] = FALSE]
    /\ Stops(d)

Begun(d) == journal[d].state \in {"adopting", "adopted"}
HasReceipt(d) == Begun(d) /\ journal[d].result \in receipt

\* The room says that the adoption ended in a checkpoint.
FindReceipt(d) ==
    /\ At(d, "receipt") /\ HasReceipt(d)
    /\ Finishes(d)
    /\ UNCHANGED <<roomVars, gitVars, sees, mine, integrated, clean, blockedAt, countVars>>

\* The save that carries the rebase got to the remote, and the room did not hear of it.
Pushed(d) ==
    /\ journal[d].state = "adopted" /\ journal[d].pending # NoCommit
    /\ adoption.result = journal[d].result
    /\ remote # 0 /\ commits[remote] = journal[d].pending

PublishPending(d, heard) ==
    LET seq == journal[d].seq
        saved == [commit |-> remote, seq |-> seq, through |-> seq]
    IN  /\ At(d, "receipt") /\ ~HasReceipt(d) /\ Pushed(d)
        /\ IF HasLease(d, job[d].gen) /\ window = 0 /\ seq >= Larger(checkpoint.seq, adoption.since)
           THEN /\ checkpoint' = saved
                /\ receipt' = receipt \cup {adoption.result}
                /\ adoption' = NoAdoption
                /\ Answered(heard)
                /\ IF heard
                   THEN Accepts(d, saved) /\ CountsSaved(d, saved, 0) /\ Finishes(d)
                   ELSE Stops(d) /\ UNCHANGED <<mine, integrated, clean, blocked, rebase, diskVars>>
                /\ UNCHANGED <<log, leader, generation, window, taken>>
           ELSE /\ heard /\ Stops(d)
                /\ UNCHANGED <<roomVars, mine, integrated, clean, blocked, rebase, diskVars, faults>>
        /\ UNCHANGED <<gitVars, sees, blockedAt, broughtIn, edits>>

\* The branch is no longer the save that the rebase started from.
ApplyRefused(d) ==
    /\ At(d, "receipt") /\ ~HasReceipt(d) /\ ~Pushed(d) /\ remote # journal[d].from
    /\ Stops(d)
    /\ UNCHANGED <<roomVars, gitVars, sees, mine, integrated, clean, blocked, blockedAt, rebase,
                   diskVars, countVars>>

ApplyGoesOn(d) ==
    /\ At(d, "receipt") /\ ~HasReceipt(d) /\ ~Pushed(d) /\ remote = journal[d].from
    /\ Goto(d, "begin")
    /\ UNCHANGED <<roomVars, gitVars, sees, mine, integrated, clean, blocked, blockedAt, rebase,
                   diskVars, countVars>>

\* beginAdoption, in the journal.
Begin(d) ==
    /\ At(d, "begin")
    /\ journal' = [journal EXCEPT ![d].state = "adopting"]
    /\ Goto(d, "adopt")
    /\ UNCHANGED <<roomVars, gitVars, agentVars, staged, countVars>>

\* Fault: the recovered merge batch is not taken into account.
MergesAgain(d) == "integrate"

\* A merge that the recovered batch has brought in is not made again.
AfterAdoption(d) == IF job[d].recovered THEN "adopted" ELSE "integrate"

\* handleRebaseAdoption
Adopt(d, heard) ==
    LET mineNow == /\ adoption.by = d /\ adoption.from = journal[d].from
                   /\ adoption.result = journal[d].result
        fresh == adoption = NoAdoption /\ checkpoint.commit = journal[d].from
        admitted == HasLease(d, job[d].gen) /\ journal[d].result \notin receipt /\ (mineNow \/ fresh)
    IN  /\ At(d, "adopt")
        /\ adoption' = IF admitted /\ ~mineNow
                       THEN [by |-> d, from |-> journal[d].from, result |-> journal[d].result,
                             since |-> Seq0]
                       ELSE adoption
        /\ heard \/ admitted
        /\ Answered(heard)
        /\ IF admitted /\ heard
           THEN Goto(d, AfterAdoption(d))
           ELSE Stops(d)
        /\ UNCHANGED <<log, leader, generation, checkpoint, receipt, window, taken, gitVars,
                       agentVars, diskVars, broughtIn, edits>>

Changes(d) == Merge(Content, TreeOf(journal[d].from), TreeOf(journal[d].result)) # Content

\* handleIntegrationBegin, and the batch that the device then keeps on disk.
Integrate(d, heard) ==
    LET admitted == HasLease(d, job[d].gen) /\ adoption.by = d /\ window \in {0, job[d].gen} IN
    /\ At(d, "integrate")
    /\ heard \/ (Changes(d) /\ admitted)
    /\ Answered(heard)
    /\ window' = IF Changes(d) /\ admitted THEN job[d].gen ELSE window
    /\ CASE ~Changes(d) -> Goto(d, "adopted") /\ UNCHANGED staged
         [] Changes(d) /\ admitted /\ heard ->
                Goto(d, "finish") /\ staged' = [staged EXCEPT ![d] = journal[d].result]
         [] OTHER -> Stops(d) /\ UNCHANGED staged
    /\ UNCHANGED <<log, leader, generation, checkpoint, adoption, receipt, taken, gitVars, agentVars,
                   journal, broughtIn, edits>>

\* handleIntegrationFinish: the merge is sequenced, edits held back come after it.
FinishIntegration(d, heard) ==
    /\ At(d, "finish") /\ TakesIn(d, journal[d].result)
    /\ Answered(heard)
    /\ IF heard THEN Goto(d, "adopted") ELSE Stops(d)
    /\ UNCHANGED <<gitVars, agentVars, diskVars, broughtIn, edits>>

FinishRefused(d) ==
    /\ At(d, "finish") /\ ~(window # 0 /\ HasLease(d, window) /\ job[d].gen = window)
    /\ Stops(d)
    /\ UNCHANGED <<roomVars, gitVars, agentVars, diskVars, countVars>>

\* The room's alarm lets waiting edits go on without the merge.
ExpireWindow ==
    /\ window # 0 /\ window' = 0
    /\ UNCHANGED <<log, leader, generation, checkpoint, adoption, receipt, taken, gitVars, agentVars,
                   job, diskVars, countVars>>

\* markAdopted; the next save pushes the result over the save it replaces.
Adopted(d) ==
    /\ At(d, "adopted")
    /\ journal' = [journal EXCEPT ![d].state = "adopted"]
    /\ rebase' = [rebase EXCEPT ![d] = [from |-> journal[d].from, result |-> journal[d].result]]
    /\ IF Leads(d) THEN Begins(d, FALSE) ELSE Stops(d)
    /\ UNCHANGED <<roomVars, gitVars, sees, mine, integrated, clean, blocked, blockedAt,
                   staged, countVars>>

(***************************************************************************)
(* Specification                                                           *)
(***************************************************************************)
\* What a device does by itself once a save or a rebase is under way.
Works(d) ==
    \/ ResolveRebase(d) \/ ResolveUnmoved(d) \/ ResolveOwn(d) \/ ResolveOutside(d)
    \/ MergeOutside(d) \/ Capture(d) \/ CaptureRefused(d) \/ Fence(d) \/ FenceRefused(d)
    \/ PushRejected(d) \/ PublishRefused(d) \/ MarkRefused(d)
    \/ FindReceipt(d) \/ ApplyRefused(d) \/ ApplyGoesOn(d)
    \/ Begin(d) \/ FinishRefused(d) \/ Adopted(d)

Calls(d, heard) ==
    \/ Push(d, heard) \/ Publish(d, heard) \/ Mark(d, heard) \/ Adopt(d, heard)
    \/ RecoverRow(d, heard) \/ PublishPending(d, heard) \/ Integrate(d, heard)
    \/ FinishIntegration(d, heard)

Proceeds(d) == Works(d) \/ Calls(d, TRUE) \/ (\E conflicts \in BOOLEAN : Compute(d, conflicts))
Asks(d) == SaveNow(d) \/ RequestRebase(d) \/ Apply(d)
Fails(d) == CallLost(d) \/ Restart(d) \/ Calls(d, FALSE)

BranchNext ==
    \/ \E i \in Item : Edit(i) \/ PushOutside(i)
    \/ \E d \in Device :
          \/ Handover(d) \/ Hear(d) \/ StartSave(d) \/ PollRemote(d)
          \/ Asks(d) \/ Proceeds(d) \/ Fails(d)
    \/ ExpireWindow

BranchSpec == BranchInit /\ [][BranchNext]_branchVars

\* Timers start saves and poll the remote, calls return or time out, messages
\* of the room arrive, and its alarm rings.
FairBranchSpec ==
    /\ BranchSpec
    /\ WF_branchVars(ExpireWindow)
    /\ \A d \in Device : /\ WF_branchVars(Hear(d)) /\ WF_branchVars(StartSave(d))
                         /\ WF_branchVars(PollRemote(d)) /\ WF_branchVars(Proceeds(d))

\* Members who want a save or a rebase ask for it until they get it.
InsistentBranchSpec ==
    /\ FairBranchSpec
    /\ \A d \in Device : SF_branchVars(SaveNow(d)) /\ SF_branchVars(Apply(d))

(***************************************************************************)
(* Properties                                                              *)
(***************************************************************************)
Steps == {"idle", "resolve", "recover", "merge", "capture", "fence", "push", "publish", "mark",
          "compute", "row", "receipt", "begin", "adopt", "integrate", "finish", "adopted"}
Checkpoints == [commit : Nat, seq : Nat, through : Nat]
Commits == [parent : Nat, tree : SUBSET Item, kind : {"none", "base", "own", "outside", "rebased"},
            seq : Nat]

BranchTypeOK ==
    /\ log \in Seq(SUBSET Item) /\ log # << >>
    /\ leader \in Device \cup {NoDevice} /\ generation \in Nat
    /\ checkpoint \in Checkpoints
    /\ adoption \in [by : Device \cup {NoDevice}, from : Nat, result : Nat, since : Nat]
    /\ receipt \subseteq Nat /\ window \in Nat /\ taken \subseteq Nat
    /\ commits \in Seq(Commits) /\ remote \in 0..Len(commits)
    /\ sees \in [Device -> Nat] /\ mine \in [Device -> Checkpoints]
    /\ integrated \in [Device -> Nat] /\ clean \in [Device -> 0..Seq0]
    /\ blocked \in [Device -> BOOLEAN]
    /\ blockedAt \in [Device -> Nat]
    /\ rebase \in [Device -> [from : Nat, result : Nat]]
    /\ job \in [Device -> [step : Steps, gen : Nat, parent : Nat, head : Nat, seq : Nat,
                           out : Nat, rebases : BOOLEAN, recovered : BOOLEAN]]
    /\ journal \in [Device -> [state : {"none", "computed", "adopting", "adopted", "applied"},
                               from : Nat, result : Nat, pending : Commits, seq : Nat]]
    /\ staged \in [Device -> Nat]
    /\ broughtIn \subseteq Nat /\ edits \in Nat /\ faults \in Nat

\* Items some member took out of the session, and items that came in.
Removed == {i \in Item : \E s \in 1..Seq0 : i \in log[s] /\ i \notin log[s + 1]}
Entries(i) == {s \in 1..Seq0 : i \notin log[s] /\ i \in log[s + 1]}

\* What the room shows as saved is the session as it was at the sequence
\* number it shows, both the one captured and the one marked clean since.
MarkIsHonest ==
    checkpoint.commit # 0 =>
        /\ TreeOf(checkpoint.commit) = ContentAt(checkpoint.seq)
        /\ TreeOf(checkpoint.commit) = ContentAt(checkpoint.through)

\* The commit the room shows is on the branch, or a rebase being adopted has
\* just replaced it there.
RecordIsOnTheBranch ==
    \/ checkpoint.commit = 0
    \/ checkpoint.commit \in Ancestors(remote)
    \/ adoption.from = checkpoint.commit /\ adoption.result \in Ancestors(remote)

\* What a device counts as saved is on the branch, but for what members took
\* out of the session.
SavedIsOnTheBranch ==
    \A d \in Device : ContentAt(clean[d]) \ TreeOf(remote) \subseteq Removed

\* The branch never loses work no member took out of the session: not a save
\* of a former leader, not a commit pushed from outside, not what a rebase
\* replaced.
BranchKeepsWork ==
    [][TreeOf(remote) \ (TreeOf(remote))' \subseteq Removed']_branchVars

\* The merge of a rebase gets into the session once, however often its adoption
\* is taken up again after a crash, a lost answer or a change of leader.
RebaseMergedOnce ==
    [][window # 0 /\ window' = 0 /\ log' # log => taken' # taken]_branchVars

\* What a merge brings into the session comes from a commit of others it had
\* not merged before: an edit that takes it out again stays.
EditsStay ==
    [][log' # log /\ edits' = edits /\ taken' = taken =>
          \A i \in Content' \ Content : \E c \in broughtIn' \ broughtIn : i \in TreeOf(c)]_branchVars

\* What SavedSession names, here.
Promise == INSTANCE SavedSession WITH
    history <- log, branch <- TreeOf(remote), saved <- checkpoint.seq, clean <- checkpoint.through

\* The branch, the room's record and the session keep the promise of SavedSession:
\* a step changes one of them, a push brings the session as it once was and takes
\* off only what members took out, and what the room shows as saved never goes
\* back and was on the branch when it was recorded.
KeepsPromise == Promise!Spec

Lasts == <>[](leader # NoDevice)

\* A session whose branch changed during a rebase is saved on top of the
\* branch as it is now.
SaveAgainBuilds == Lasts => []<>(TreeOf(remote) = Content)
=============================================================================
