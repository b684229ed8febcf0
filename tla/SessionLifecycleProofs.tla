------------------------ MODULE SessionLifecycleProofs ------------------------
(***************************************************************************)
(* Proofs about SessionLifecycle, for any principals and any bounds.  The  *)
(* invariants of the two stores are not inductive alone: LifecycleInv adds *)
(* how fences, commits, finalizations and replies are ordered by the       *)
(* lifecycle revision.                                                     *)
(***************************************************************************)
EXTENDS SessionLifecycle, TLAPS

\* What a message was told is not ahead of the control plane, and a live message
\* that was told the present revision finds the session open.
RepliesArePast ==
    \A m \in Principal :
        seen[m] # NoReply =>
            /\ seen[m].revision <= revision
            /\ ~seen[m].recovery /\ seen[m].revision = revision =>
                 lifecycle \in {"ACTIVE", "DORMANT"}

\* The fence freezes the head, and is the only fence of its number.
FenceFreezesHead ==
    fence # NoFence =>
        /\ fence.id \in 1..fences /\ fence.revision <= revision /\ head = fence.seq
        /\ \A call \in calls : call.fence.id = fence.id => call.fence = fence /\ commit # NoCommit

\* A finalization is sent for a commit, and a commit is of the fence that stands.
CommitIsOfFence ==
    commit # NoCommit =>
        /\ fence # NoFence /\ commit.id = fence.id /\ commit.expected = fence.revision
        /\ \E call \in calls : call.fence = fence

\* Each fence is finalized at the revision it was prepared at.
CallsAreOfFences ==
    \A call \in calls :
        /\ call.fence.id \in 1..fences
        /\ call.expected = call.fence.revision /\ call.expected <= revision
        /\ \A other \in calls : other.fence.id = call.fence.id => other = call

\* What was applied was sent, is behind the control plane, and is the receipt if
\* nothing else happened to the lifecycle since.
AppliedIsPast ==
    /\ \A id \in applied : \E call \in calls : call.fence.id = id
    /\ \A call \in calls :
         call.fence.id \in applied =>
            /\ call.expected < revision
            /\ call.expected + 1 = revision => receipt = call
    /\ receipt # NoReceipt => receipt \in calls /\ receipt.fence.id \in applied

\* A finalization for the present revision is for the fence and commit that stand.
PendingStands ==
    \A call \in calls : call.expected = revision => fence = call.fence /\ commit # NoCommit

\* CommittedFrontier, with the commit that keeps the fence.
FrontierStands ==
    receipt # NoReceipt /\ revision = receipt.expected + 1 =>
        /\ lifecycle = Target(receipt.fence.intent)
        /\ fence # NoFence /\ head = receipt.fence.seq
        /\ commit # NoCommit /\ commit.expected + 1 >= revision

\* A fence for the present revision was prepared in an open session, or took over
\* the pause that stands, at its frontier.
FenceOpenedBy ==
    fence # NoFence /\ fence.revision = revision =>
        IF commit # NoCommit /\ commit.fromPaused
        THEN receipt # NoReceipt /\ receipt.fence.seq = fence.seq /\ revision = receipt.expected + 1
        ELSE lifecycle \in {"ACTIVE", "DORMANT"}

LifecycleInv ==
    /\ LifecycleTypeOK /\ DoneMeansApplied
    /\ RepliesArePast /\ FenceFreezesHead /\ CommitIsOfFence /\ CallsAreOfFences
    /\ AppliedIsPast /\ PendingStands /\ FrontierStands /\ FenceOpenedBy

\* A new session satisfies the invariant.
LEMMA LifecycleInitEstablishes == LifecycleInit => LifecycleInv
<1> SUFFICES ASSUME LifecycleInit PROVE LifecycleInv
  OBVIOUS
<1>1. LifecycleTypeOK
  BY LifecycleBounds DEF LifecycleInit, LifecycleTypeOK
<1>2. DoneMeansApplied /\ RepliesArePast /\ FenceFreezesHead /\ CommitIsOfFence
  BY DEF LifecycleInit, DoneMeansApplied, RepliesArePast, FenceFreezesHead, CommitIsOfFence
<1>3. CallsAreOfFences /\ AppliedIsPast /\ PendingStands /\ FrontierStands /\ FenceOpenedBy
  BY DEF LifecycleInit, CallsAreOfFences, AppliedIsPast, PendingStands, FrontierStands,
         FenceOpenedBy
<1> QED
  BY <1>1, <1>2, <1>3 DEF LifecycleInv

\* A step that moves the lifecycle and its revision, or only members, and leaves
\* the room and the wire alone, keeps the invariant.
LEMMA ControlStepKeepsInv ==
    ASSUME LifecycleInv,
           UNCHANGED <<receipt, roomVars, seen, wireVars>>,
           lifecycle' \in {"ACTIVE", "DORMANT", "PAUSED", "CLOSED"},
           keyVersion' \in Nat,
           member' \in [Principal -> {"active", "left", "revoked"}],
           \/ revision' = revision + 1
           \/ /\ revision' = revision
              /\ \/ lifecycle' = lifecycle
                 \/ {lifecycle, lifecycle'} \subseteq {"ACTIVE", "DORMANT"}
    PROVE  LifecycleInv'
<1>1. LifecycleTypeOK'
  BY DEF LifecycleInv, LifecycleTypeOK, roomVars, wireVars
<1>2. DoneMeansApplied' /\ FenceFreezesHead' /\ CommitIsOfFence' /\ CallsAreOfFences'
  BY DEF LifecycleInv, LifecycleTypeOK, roomVars, wireVars, DoneMeansApplied,
         FenceFreezesHead, CommitIsOfFence, CallsAreOfFences, Fence, Call
<1>3. RepliesArePast'
  BY DEF LifecycleInv, LifecycleTypeOK, roomVars, wireVars, RepliesArePast, Reply
<1>4. AppliedIsPast'
  BY DEF LifecycleInv, LifecycleTypeOK, roomVars, wireVars, AppliedIsPast, Call
<1>5. PendingStands'
  BY DEF LifecycleInv, LifecycleTypeOK, roomVars, wireVars, PendingStands, Call,
         CallsAreOfFences
<1>6. FrontierStands'
  BY DEF LifecycleInv, LifecycleTypeOK, roomVars, wireVars, FrontierStands, Call,
         AppliedIsPast, Target, CallsAreOfFences
<1>7. FenceOpenedBy'
  BY DEF LifecycleInv, LifecycleTypeOK, roomVars, wireVars, FenceOpenedBy, Fence,
         FenceFreezesHead
<1> QED
  BY <1>1, <1>2, <1>3, <1>4, <1>5, <1>6, <1>7 DEF LifecycleInv

\* A reply to a message keeps the invariant.
LEMMA ValidateKeepsInv ==
    ASSUME LifecycleInv, NEW m \in Principal, Validate(m)
    PROVE  LifecycleInv'
<1> DEFINE reply == [revision |-> revision, key |-> keyVersion,
                     recovery |-> lifecycle # "ACTIVE"]
<1>1. /\ UNCHANGED <<controlVars, roomVars, wireVars, boundVars>>
      /\ seen' = [seen EXCEPT ![m] = reply]
  BY DEF Validate
<1>2. /\ reply \in Reply /\ reply.revision = revision
      /\ ~reply.recovery => lifecycle = "ACTIVE"
  BY DEF Reply, LifecycleInv, LifecycleTypeOK
<1> HIDE DEF reply
<1>3. LifecycleTypeOK'
  BY <1>1, <1>2 DEF LifecycleInv, LifecycleTypeOK, controlVars, roomVars, wireVars
<1>4. RepliesArePast'
  <2> SUFFICES ASSUME NEW n \in Principal, seen'[n] # NoReply
               PROVE  /\ seen'[n].revision <= revision'
                      /\ ~seen'[n].recovery /\ seen'[n].revision = revision' =>
                           lifecycle' \in {"ACTIVE", "DORMANT"}
    BY DEF RepliesArePast
  <2>1. CASE n = m
    <3>1. seen'[n] = reply
      BY <1>1, <2>1 DEF LifecycleInv, LifecycleTypeOK
    <3>2. UNCHANGED <<revision, lifecycle>> /\ revision \in Nat
      BY <1>1 DEF controlVars, LifecycleInv, LifecycleTypeOK
    <3>3. lifecycle = "ACTIVE" => lifecycle \in {"ACTIVE", "DORMANT"}
      OBVIOUS
    <3> QED
      BY <1>2, <3>1, <3>2, <3>3
  <2>2. CASE n # m
    BY <1>1, <2>2 DEF LifecycleInv, LifecycleTypeOK, controlVars, RepliesArePast
  <2> QED
    BY <2>1, <2>2
<1>5. DoneMeansApplied' /\ FenceFreezesHead' /\ CommitIsOfFence' /\ CallsAreOfFences'
  BY <1>1 DEF LifecycleInv, controlVars, roomVars, wireVars, DoneMeansApplied,
              FenceFreezesHead, CommitIsOfFence, CallsAreOfFences
<1>6. AppliedIsPast' /\ PendingStands' /\ FrontierStands' /\ FenceOpenedBy'
  BY <1>1 DEF LifecycleInv, controlVars, roomVars, wireVars, AppliedIsPast,
              PendingStands, FrontierStands, FenceOpenedBy
<1> QED
  BY <1>3, <1>4, <1>5, <1>6 DEF LifecycleInv

(***************************************************************************)
(* Finalization                                                            *)
(***************************************************************************)
\* A finalization that applies keeps the invariant: it is for the fence and the
\* commit that stand.
LEMMA ApplyKeepsInv ==
    ASSUME LifecycleInv, NEW call \in calls,
           Applies(call),
           lifecycle' = Target(call.fence.intent), revision' = revision + 1,
           receipt' = call, applied' = applied \cup {call.fence.id},
           answered' = answered \cup {call.fence.id},
           UNCHANGED <<keyVersion, member, roomVars, seen, calls>>
    PROVE  LifecycleInv'
<1>1. call.expected = revision /\ fence = call.fence /\ commit # NoCommit
  BY DEF Applies, LifecycleInv, PendingStands
<1>2. call \in Call /\ call.fence \in Fence /\ revision \in Nat
  BY DEF LifecycleInv, LifecycleTypeOK, Call
<1>3. Target(call.fence.intent) \in {"PAUSED", "CLOSED"}
  BY DEF Target
<1>4. call.fence.id \in 1..fences
  BY DEF LifecycleInv, CallsAreOfFences
<1>5. LifecycleTypeOK'
  <2>1. answered' \subseteq applied' /\ applied' \subseteq 1..fences
    BY <1>4 DEF LifecycleInv, LifecycleTypeOK
  <2>2. lifecycle' \in {"ACTIVE", "DORMANT", "PAUSED", "CLOSED"}
    BY <1>3
  <2>3. revision' \in Nat /\ receipt' \in Call
    BY <1>2
  <2> QED
    BY <2>1, <2>2, <2>3 DEF LifecycleInv, LifecycleTypeOK, roomVars
<1>6. DoneMeansApplied' /\ CommitIsOfFence'
  BY DEF LifecycleInv, DoneMeansApplied, CommitIsOfFence, roomVars
<1>7. RepliesArePast'
  BY DEF LifecycleInv, LifecycleTypeOK, RepliesArePast, Reply
<1>8. FenceFreezesHead' /\ CallsAreOfFences'
  BY DEF LifecycleInv, LifecycleTypeOK, FenceFreezesHead, CallsAreOfFences, Fence, Call, roomVars
<1>9. AppliedIsPast'
  <2>1. \A id \in applied' : \E c \in calls : c.fence.id = id
    BY DEF LifecycleInv, AppliedIsPast
  <2>2. ASSUME NEW c \in calls, c.fence.id \in applied'
        PROVE  c.expected < revision' /\ (c.expected + 1 = revision' => receipt' = c)
    <3>1. c.expected \in Nat
      BY DEF LifecycleInv, LifecycleTypeOK, Call
    <3>2. CASE c.fence.id = call.fence.id
      <4>1. c = call
        BY <3>2 DEF LifecycleInv, CallsAreOfFences
      <4> QED
        BY <1>1, <1>2, <4>1
    <3>3. CASE c.fence.id \in applied
      <4>1. c.expected < revision
        BY <3>3 DEF LifecycleInv, AppliedIsPast
      <4> QED
        BY <1>2, <3>1, <4>1
    <3> QED
      BY <2>2, <3>2, <3>3
  <2> QED
    BY <2>1, <2>2 DEF AppliedIsPast
<1>10. PendingStands'
  BY DEF LifecycleInv, LifecycleTypeOK, CallsAreOfFences, PendingStands, Call
<1>11. FrontierStands'
  <2>1. fence # NoFence /\ head = call.fence.seq
    BY <1>1, <1>2, LifecycleNullsApart DEF LifecycleInv, FenceFreezesHead
  <2>2. commit.expected = revision
    BY <1>1 DEF LifecycleInv, CommitIsOfFence, CallsAreOfFences
  <2> QED
    BY <1>1, <1>2, <2>1, <2>2 DEF FrontierStands, roomVars
<1>12. FenceOpenedBy'
  BY <1>1, <1>2 DEF LifecycleInv, FenceFreezesHead, FenceOpenedBy, Fence, roomVars
<1> QED
  BY <1>5, <1>6, <1>7, <1>8, <1>9, <1>10, <1>11, <1>12 DEF LifecycleInv

\* finalizeLifecycleFromServer keeps the invariant, asked once or again.
LEMMA FinalizeKeepsInv ==
    ASSUME LifecycleInv, NEW call \in calls, FinalizeLifecycle(call)
    PROVE  LifecycleInv'
<1>1. CASE HasReceipt(call.fence)
  <2>1. /\ UNCHANGED <<controlVars, applied, roomVars, seen, calls>>
        /\ answered' = answered \cup {call.fence.id}
    BY <1>1 DEF FinalizeLifecycle
  <2>2. call.fence.id \in applied
    BY <1>1 DEF HasReceipt, LifecycleInv, AppliedIsPast
  <2>3. LifecycleTypeOK'
    BY <2>1, <2>2 DEF LifecycleInv, LifecycleTypeOK, controlVars, roomVars
  <2>4. DoneMeansApplied' /\ FenceFreezesHead' /\ CommitIsOfFence' /\ CallsAreOfFences'
    BY <2>1 DEF LifecycleInv, controlVars, roomVars, DoneMeansApplied,
                FenceFreezesHead, CommitIsOfFence, CallsAreOfFences
  <2>5. AppliedIsPast' /\ PendingStands' /\ FrontierStands' /\ FenceOpenedBy' /\ RepliesArePast'
    BY <2>1 DEF LifecycleInv, controlVars, roomVars, AppliedIsPast, RepliesArePast,
                PendingStands, FrontierStands, FenceOpenedBy
  <2> QED
    BY <2>3, <2>4, <2>5 DEF LifecycleInv
<1>2. CASE ~HasReceipt(call.fence)
  <2>1. /\ Applies(call)
        /\ lifecycle' = Target(call.fence.intent) /\ revision' = revision + 1
        /\ receipt' = call /\ applied' = applied \cup {call.fence.id}
        /\ answered' = answered \cup {call.fence.id}
        /\ UNCHANGED <<keyVersion, member, roomVars, seen, calls>>
    BY <1>2 DEF FinalizeLifecycle
  <2> QED
    BY <2>1, ApplyKeepsInv
<1> QED
  BY <1>1, <1>2

(***************************************************************************)
(* Room                                                                    *)
(***************************************************************************)
\* A handled message leaves the control plane and the answers alone, and forgets
\* the reply it was told.
LEMMA HandledLeaves ==
    ASSUME LifecycleInv, NEW m \in Principal, Handled(m)
    PROVE  /\ UNCHANGED <<lifecycle, revision, keyVersion, receipt, member, answered, applied>>
           /\ seen' \in [Principal -> Reply \cup {NoReply}]
           /\ \A n \in Principal : seen'[n] \in {seen[n], NoReply}
<1>1. seen' = [seen EXCEPT ![m] = NoReply]
  BY DEF Handled
<1>2. seen \in [Principal -> Reply \cup {NoReply}]
  BY DEF LifecycleInv, LifecycleTypeOK
<1> QED
  BY <1>1, <1>2 DEF Handled, controlVars

\* While no commit stands, no finalization is for the present revision and the
\* control plane is not where a finalization left it.
LEMMA NothingPendingWithoutCommit ==
    ASSUME LifecycleInv, commit = NoCommit
    PROVE  /\ \A call \in calls : call.expected # revision
           /\ ~(receipt # NoReceipt /\ revision = receipt.expected + 1)
  BY DEF LifecycleInv, PendingStands, FrontierStands

\* The same when a live message finds the commit outdated, with its fence.
LEMMA NothingPendingWhenOutdated ==
    ASSUME LifecycleInv, NEW m \in Principal, Live(m), Outdated(m)
    PROVE  /\ FenceFor(m) = NoFence /\ CommitFor(m) = NoCommit
           /\ \A call \in calls : call.expected # revision
           /\ ~(receipt # NoReceipt /\ revision = receipt.expected + 1)
<1>1. /\ commit # NoCommit /\ fence # NoFence
      /\ commit.id = fence.id /\ commit.expected = fence.revision
  BY DEF LifecycleInv, CommitIsOfFence, Outdated
<1>2. /\ commit.expected \in Nat /\ revision \in Nat /\ commit.fromPaused \in BOOLEAN
      /\ seen[m] # NoReply /\ seen[m].revision \in Nat
  BY <1>1 DEF LifecycleInv, LifecycleTypeOK, Commit, Reply, Live
<1>3. /\ seen[m].revision <= revision
      /\ seen[m].revision = revision => lifecycle \in {"ACTIVE", "DORMANT"}
  BY <1>2 DEF LifecycleInv, RepliesArePast, Live
<1>4. seen[m].revision > commit.expected
  BY <1>2 DEF Outdated
<1>5. ASSUME NEW call \in calls, call.expected = revision
      PROVE  FALSE
  <2>1. fence = call.fence /\ call.expected = fence.revision
    BY <1>5 DEF LifecycleInv, PendingStands, CallsAreOfFences
  <2> QED
    BY <1>1, <1>2, <1>3, <1>4, <1>5, <2>1
<1>6. ASSUME receipt # NoReceipt, revision = receipt.expected + 1
      PROVE  FALSE
  <2>1. lifecycle \in {"PAUSED", "CLOSED"} /\ commit.expected + 1 >= revision
    BY <1>6 DEF LifecycleInv, FrontierStands, Target
  <2>2. seen[m].revision < revision
    BY <1>2, <1>3, <2>1
  <2> QED
    BY <1>2, <1>4, <2>1, <2>2
<1>7. FenceFor(m) = NoFence /\ CommitFor(m) = NoCommit
  BY <1>1 DEF FenceFor, CommitFor
<1> QED
  BY <1>5, <1>6, <1>7

\* The fence and the commit can be given up while nothing is pending for the
\* present revision.
LEMMA GivingUpKeepsInv ==
    ASSUME LifecycleInv,
           UNCHANGED <<controlVars, answered, applied, fences, calls>>,
           seen' \in [Principal -> Reply \cup {NoReply}],
           \A n \in Principal : seen'[n] \in {seen[n], NoReply},
           head' \in 0..MaxHead, fence' = NoFence, commit' = NoCommit,
           \A call \in calls : call.expected # revision,
           ~(receipt # NoReceipt /\ revision = receipt.expected + 1)
    PROVE  LifecycleInv'
<1>1. LifecycleTypeOK'
  BY DEF LifecycleInv, LifecycleTypeOK, controlVars
<1>2. RepliesArePast'
  BY DEF LifecycleInv, RepliesArePast, controlVars
<1>3. DoneMeansApplied' /\ FenceFreezesHead' /\ CommitIsOfFence' /\ FenceOpenedBy'
  BY DEF DoneMeansApplied, FenceFreezesHead, CommitIsOfFence, FenceOpenedBy
<1>4. CallsAreOfFences' /\ AppliedIsPast'
  BY DEF LifecycleInv, CallsAreOfFences, AppliedIsPast, controlVars
<1>5. PendingStands' /\ FrontierStands'
  BY DEF PendingStands, FrontierStands, controlVars
<1> QED
  BY <1>1, <1>2, <1>3, <1>4, <1>5 DEF LifecycleInv

\* A message that leaves the fence and the commit as they were.
LEMMA LeavingKeepsInv ==
    ASSUME LifecycleInv,
           UNCHANGED <<controlVars, answered, applied, roomVars, calls>>,
           seen' \in [Principal -> Reply \cup {NoReply}],
           \A n \in Principal : seen'[n] \in {seen[n], NoReply}
    PROVE  LifecycleInv'
<1>1. LifecycleTypeOK'
  BY DEF LifecycleInv, LifecycleTypeOK, controlVars, roomVars
<1>2. RepliesArePast'
  BY DEF LifecycleInv, RepliesArePast, controlVars
<1>3. DoneMeansApplied' /\ FenceFreezesHead' /\ CommitIsOfFence' /\ FenceOpenedBy'
  BY DEF LifecycleInv, DoneMeansApplied, FenceFreezesHead, CommitIsOfFence, FenceOpenedBy,
         controlVars, roomVars
<1>4. CallsAreOfFences' /\ AppliedIsPast'
  BY DEF LifecycleInv, CallsAreOfFences, AppliedIsPast, controlVars, roomVars
<1>5. PendingStands' /\ FrontierStands'
  BY DEF LifecycleInv, PendingStands, FrontierStands, controlVars, roomVars
<1> QED
  BY <1>1, <1>2, <1>3, <1>4, <1>5 DEF LifecycleInv

\* A message that is accepted as an edit, or that only reads or is refused.
LEMMA EditOrReadKeepsInv ==
    ASSUME LifecycleInv, NEW m \in Principal, AcceptEdit(m) \/ ReadOrRefused(m)
    PROVE  LifecycleInv'
<1>1. Handled(m) /\ UNCHANGED <<fences, calls>>
  BY DEF AcceptEdit, ReadOrRefused
<1>2. /\ UNCHANGED <<controlVars, answered, applied, fences, calls>>
      /\ seen' \in [Principal -> Reply \cup {NoReply}]
      /\ \A n \in Principal : seen'[n] \in {seen[n], NoReply}
  BY <1>1, HandledLeaves DEF controlVars
<1>3. head' \in 0..MaxHead
  BY LifecycleBounds DEF AcceptEdit, ReadOrRefused, LifecycleInv, LifecycleTypeOK
<1>4. CASE Live(m) /\ Outdated(m)
  <2>1. fence' = NoFence /\ commit' = NoCommit
    BY <1>4, NothingPendingWhenOutdated DEF AcceptEdit, ReadOrRefused
  <2> QED
    BY <1>2, <1>3, <1>4, <2>1, NothingPendingWhenOutdated, GivingUpKeepsInv
<1>5. CASE ~(Live(m) /\ Outdated(m)) /\ ReadOrRefused(m)
  <2>1. UNCHANGED roomVars
    BY <1>5 DEF ReadOrRefused, FenceFor, CommitFor, roomVars
  <2> QED
    BY <1>2, <2>1, LeavingKeepsInv
<1>6. CASE ~(Live(m) /\ Outdated(m)) /\ AcceptEdit(m)
  <2>1. fence = NoFence /\ fence' = NoFence /\ commit' = commit
    BY <1>6 DEF AcceptEdit, FenceFor, CommitFor
  <2>2. commit = NoCommit
    BY <2>1 DEF LifecycleInv, CommitIsOfFence
  <2> QED
    BY <1>2, <1>3, <2>1, <2>2, NothingPendingWithoutCommit, GivingUpKeepsInv
<1> QED
  BY <1>4, <1>5, <1>6

\* A cancelled fence has no commit.
LEMMA CancelKeepsInv ==
    ASSUME LifecycleInv, NEW m \in Principal, Cancel(m)
    PROVE  LifecycleInv'
<1>1. /\ UNCHANGED <<controlVars, answered, applied, fences, calls>>
      /\ seen' \in [Principal -> Reply \cup {NoReply}]
      /\ \A n \in Principal : seen'[n] \in {seen[n], NoReply}
  BY HandledLeaves DEF Cancel, controlVars
<1>2. ~Outdated(m)
  BY NothingPendingWhenOutdated DEF Cancel
<1>3. commit = NoCommit
  BY <1>2 DEF Cancel, CommitFor
<1>4. head' \in 0..MaxHead /\ fence' = NoFence /\ commit' = NoCommit
  BY DEF Cancel, LifecycleInv, LifecycleTypeOK
<1> QED
  BY <1>1, <1>3, <1>4, NothingPendingWithoutCommit, GivingUpKeepsInv

\* A fence prepared on a fresh number, with no fence left, keeps the invariant.
LEMMA PrepareKeepsInv ==
    ASSUME LifecycleInv, NEW m \in Principal, NEW intent \in {"pause", "close"},
           Prepare(m, intent)
    PROVE  LifecycleInv'
<1> DEFINE f == [id |-> fences + 1, intent |-> intent, seq |-> head,
                 key |-> seen[m].key, by |-> m, revision |-> seen[m].revision]
<1>1. /\ UNCHANGED <<controlVars, answered, applied, head, calls>>
      /\ seen' \in [Principal -> Reply \cup {NoReply}]
      /\ \A n \in Principal : seen'[n] \in {seen[n], NoReply}
      /\ fences' = fences + 1 /\ fence' = f
  BY HandledLeaves DEF Prepare, controlVars
<1>2. /\ seen[m] \in Reply /\ ~seen[m].recovery /\ seen[m].revision <= revision
      /\ seen[m].revision = revision => lifecycle \in {"ACTIVE", "DORMANT"}
  BY DEF Prepare, Live, LifecycleInv, LifecycleTypeOK, RepliesArePast
<1>3. commit' = NoCommit
  <2>1. CASE Outdated(m)
    BY <2>1, NothingPendingWhenOutdated DEF Prepare
  <2>2. CASE ~Outdated(m)
    BY <2>2 DEF Prepare, FenceFor, CommitFor, LifecycleInv, CommitIsOfFence
  <2> QED
    BY <2>1, <2>2
<1>4. /\ \A call \in calls : call.expected # revision
      /\ ~(receipt # NoReceipt /\ revision = receipt.expected + 1)
  <2>1. CASE Outdated(m)
    BY <2>1, NothingPendingWhenOutdated DEF Prepare
  <2>2. CASE ~Outdated(m)
    BY <1>3, <2>2, NothingPendingWithoutCommit DEF Prepare, CommitFor
  <2> QED
    BY <2>1, <2>2
<1>5. fences \in Nat /\ fences' \in 0..MaxFences
  BY LifecycleBounds DEF Prepare, LifecycleInv, LifecycleTypeOK
<1>6. /\ f \in Fence /\ f.id = fences + 1 /\ f.revision = seen[m].revision /\ f.seq = head
  BY <1>2, <1>5, LifecycleBounds DEF Fence, Reply, LifecycleInv, LifecycleTypeOK
<1> HIDE DEF f
<1>7. LifecycleTypeOK'
  <2>1. applied' \subseteq 1..fences'
    BY <1>1, <1>5 DEF LifecycleInv, LifecycleTypeOK
  <2> QED
    BY <1>1, <1>3, <1>5, <1>6, <2>1 DEF LifecycleInv, LifecycleTypeOK, controlVars
<1>8. RepliesArePast'
  BY <1>1 DEF LifecycleInv, RepliesArePast, controlVars
<1>9. DoneMeansApplied' /\ CommitIsOfFence'
  BY <1>3 DEF DoneMeansApplied, CommitIsOfFence
<1>10. CallsAreOfFences' /\ FenceFreezesHead'
  BY <1>1, <1>2, <1>5, <1>6 DEF LifecycleInv, CallsAreOfFences, FenceFreezesHead, controlVars
<1>11. AppliedIsPast' /\ PendingStands' /\ FrontierStands'
  BY <1>1, <1>4 DEF LifecycleInv, AppliedIsPast, PendingStands, FrontierStands, controlVars
<1>12. FenceOpenedBy'
  BY <1>1, <1>2, <1>3, <1>6 DEF FenceOpenedBy, controlVars
<1> QED
  BY <1>7, <1>8, <1>9, <1>10, <1>11, <1>12 DEF LifecycleInv

\* A fence f that stands with the head is committed at its revision under a new
\* call: the commit and the finalization are of the same fence.
LEMMA CommitKeepsInv ==
    ASSUME LifecycleInv, NEW f \in Fence, NEW paused \in BOOLEAN,
           UNCHANGED <<controlVars, answered, applied, head>>,
           seen' \in [Principal -> Reply \cup {NoReply}],
           \A n \in Principal : seen'[n] \in {seen[n], NoReply},
           fences' \in 0..MaxFences, fences <= fences', f.id \in 1..fences',
           f.seq = head, f.revision <= revision,
           \A call \in calls : call.fence.id # f.id /\ call.expected # revision,
           receipt # NoReceipt /\ revision = receipt.expected + 1 => f.revision + 1 >= revision,
           receipt # NoReceipt /\ revision = receipt.expected + 1 => fence # NoFence,
           f.revision = revision =>
               IF paused THEN receipt # NoReceipt /\ receipt.fence.seq = f.seq /\ revision = receipt.expected + 1
               ELSE lifecycle \in {"ACTIVE", "DORMANT"},
           fence' = f,
           commit' = [id |-> f.id, expected |-> f.revision, done |-> FALSE,
                      fromPaused |-> paused],
           calls' = calls \cup {[fence |-> f, expected |-> f.revision]}
    PROVE  LifecycleInv'
<1> DEFINE new == [fence |-> f, expected |-> f.revision]
<1>1. /\ f.id \in Nat /\ f.revision \in Nat /\ fences \in Nat /\ f # NoFence
      /\ revision \in Nat
  BY LifecycleNullsApart, LifecycleBounds DEF Fence, LifecycleInv, LifecycleTypeOK
<1>2. /\ commit' \in Commit /\ commit'.id = f.id /\ commit'.expected = f.revision
      /\ ~commit'.done /\ commit' # NoCommit
  <2>1. commit'.id = f.id /\ commit'.expected = f.revision /\ ~commit'.done
    OBVIOUS
  <2>2. commit' \in Commit
    BY <1>1 DEF Commit
  <2> QED
    BY <2>1, <2>2, LifecycleNullsApart
<1>14. commit'.fromPaused <=> paused
  OBVIOUS
<1>3. new \in Call /\ new.fence = f /\ new.expected = f.revision /\ calls' = calls \cup {new}
  BY <1>1 DEF Call
<1> HIDE DEF new
<1>4. f.id \notin applied
  BY DEF LifecycleInv, AppliedIsPast
<1>5. LifecycleTypeOK'
  <2>1. applied' \subseteq 1..fences'
    BY <1>1 DEF LifecycleInv, LifecycleTypeOK
  <2> QED
    BY <1>2, <1>3, <2>1 DEF LifecycleInv, LifecycleTypeOK, controlVars
<1>6. RepliesArePast' /\ DoneMeansApplied'
  BY <1>2 DEF LifecycleInv, RepliesArePast, DoneMeansApplied, controlVars
<1>7. CommitIsOfFence'
  BY <1>1, <1>2, <1>3 DEF CommitIsOfFence
<1>8. FenceFreezesHead'
  BY <1>2, <1>3 DEF FenceFreezesHead, controlVars
<1>9. CallsAreOfFences'
  <2>1. \A call \in calls : call.fence.id \in 1..fences'
    BY <1>1 DEF LifecycleInv, CallsAreOfFences
  <2> QED
    BY <1>3, <2>1 DEF LifecycleInv, CallsAreOfFences, controlVars
<1>10. AppliedIsPast'
  BY <1>3, <1>4 DEF LifecycleInv, AppliedIsPast, controlVars
<1>11. PendingStands'
  BY <1>2, <1>3 DEF PendingStands, controlVars
<1>12. FrontierStands'
  BY <1>1, <1>2 DEF LifecycleInv, FrontierStands, controlVars
<1>13. FenceOpenedBy'
  BY <1>2, <1>14 DEF FenceOpenedBy, controlVars
<1> QED
  BY <1>5, <1>6, <1>7, <1>8, <1>9, <1>10, <1>11, <1>12, <1>13 DEF LifecycleInv

\* handleLifecycleCommit keeps the invariant.
LEMMA CommitFenceKeepsInv ==
    ASSUME LifecycleInv, NEW m \in Principal, CommitFence(m)
    PROVE  LifecycleInv'
<1>1. /\ UNCHANGED <<controlVars, answered, applied, head, fence, fences>>
      /\ seen' \in [Principal -> Reply \cup {NoReply}]
      /\ \A n \in Principal : seen'[n] \in {seen[n], NoReply}
  BY HandledLeaves DEF CommitFence, controlVars
<1>2. ~Outdated(m)
  BY NothingPendingWhenOutdated DEF CommitFence
<1>3. commit = NoCommit /\ fence # NoFence
  BY <1>2 DEF CommitFence, CommitFor, FenceFor
<1>4. /\ fence \in Fence /\ fence.id \in 1..fences /\ fence.revision <= revision
      /\ fence.seq = head /\ fences \in 0..MaxFences /\ fences \in Nat
      /\ \A call \in calls : call.fence.id # fence.id
  BY LifecycleBounds, <1>3 DEF LifecycleInv, LifecycleTypeOK, FenceFreezesHead
<1>5. fence.revision = revision => lifecycle \in {"ACTIVE", "DORMANT"}
  BY <1>3 DEF LifecycleInv, FenceOpenedBy
<1>6. /\ fence' = fence
      /\ commit' = [id |-> fence.id, expected |-> fence.revision,
                    done |-> FALSE, fromPaused |-> FALSE]
      /\ calls' = calls \cup {[fence |-> fence, expected |-> fence.revision]}
  BY DEF CommitFence
<1>7. /\ \A call \in calls : call.fence.id # fence.id /\ call.expected # revision
      /\ ~(receipt # NoReceipt /\ revision = receipt.expected + 1)
  BY <1>3, <1>4, NothingPendingWithoutCommit
<1>8. fences' \in 0..MaxFences /\ fences <= fences' /\ fence.id \in 1..fences'
  BY <1>1, <1>4
<1> HIDE DEF CommitFence
<1> QED
  BY <1>1, <1>3, <1>4, <1>5, <1>6, <1>7, <1>8, CommitKeepsInv

\* handlePausedClose keeps the invariant: it takes over a pause that was applied.
LEMMA PausedCloseKeepsInv ==
    ASSUME LifecycleInv, NEW m \in Principal, PausedClose(m)
    PROVE  LifecycleInv'
<1> DEFINE f == [id |-> fences + 1, intent |-> "close", seq |-> fence.seq,
                 key |-> fence.key, by |-> m, revision |-> seen[m].revision]
<1>1. /\ UNCHANGED <<controlVars, answered, applied, head>>
      /\ seen' \in [Principal -> Reply \cup {NoReply}]
      /\ \A n \in Principal : seen'[n] \in {seen[n], NoReply}
  BY HandledLeaves DEF PausedClose, controlVars
<1>2. /\ fence # NoFence /\ commit # NoCommit /\ commit.id = fence.id /\ commit.done
      /\ seen[m] # NoReply /\ seen[m].revision = commit.expected + 1
      /\ fence.seq = head /\ fences' = fences + 1 /\ fence' = f
      /\ commit' = [id |-> f.id, expected |-> f.revision, done |-> FALSE, fromPaused |-> TRUE]
      /\ calls' = calls \cup {[fence |-> f, expected |-> f.revision]}
  BY DEF PausedClose
<1>3. /\ fence \in Fence /\ fences \in Nat /\ seen[m] \in Reply /\ commit \in Commit
      /\ revision \in Nat /\ seen[m].revision <= revision
  BY <1>2, LifecycleBounds DEF LifecycleInv, LifecycleTypeOK, RepliesArePast
<1>4. f \in Fence /\ f.id = fences + 1 /\ f.revision = seen[m].revision /\ f.seq = head
  BY <1>2, <1>3 DEF Fence, Reply
<1> HIDE DEF f
<1>5. PICK done \in calls : done.fence = fence
  BY <1>2 DEF LifecycleInv, CommitIsOfFence
<1>6. done.fence.id \in applied /\ done.expected = commit.expected /\ done \in Call
  BY <1>2, <1>5 DEF LifecycleInv, LifecycleTypeOK, DoneMeansApplied, CommitIsOfFence, CallsAreOfFences
<1>7. /\ done.expected < revision
      /\ done.expected + 1 = revision => receipt = done
  BY <1>5, <1>6 DEF LifecycleInv, AppliedIsPast
<1>8. \A call \in calls : call.fence.id # f.id /\ call.expected # revision
  <2> SUFFICES ASSUME NEW call \in calls
               PROVE  call.fence.id # f.id /\ call.expected # revision
    OBVIOUS
  <2>1. call.fence.id # f.id
    BY <1>3, <1>4 DEF LifecycleInv, CallsAreOfFences
  <2>2. ASSUME call.expected = revision PROVE FALSE
    <3>1. call.fence = fence
      BY <2>2 DEF LifecycleInv, PendingStands
    <3>2. call = done
      BY <1>5, <3>1 DEF LifecycleInv, CallsAreOfFences
    <3> QED
      BY <1>3, <1>7, <2>2, <3>2
  <2> QED
    BY <2>1, <2>2
<1>9. f.revision = revision =>
        receipt # NoReceipt /\ receipt.fence.seq = f.seq /\ revision = receipt.expected + 1
  BY <1>2, <1>3, <1>4, <1>5, <1>6, <1>7, LifecycleNullsApart
<1>10. receipt # NoReceipt /\ revision = receipt.expected + 1 => f.revision + 1 >= revision
  BY <1>2, <1>3, <1>4 DEF LifecycleInv, FrontierStands, Commit
<1>11. /\ fences' \in 0..MaxFences /\ fences <= fences' /\ f.id \in 1..fences'
       /\ f.revision <= revision
  BY <1>2, <1>3, <1>4, LifecycleBounds DEF PausedClose
<1> QED
  BY <1>1, <1>2, <1>4, <1>8, <1>9, <1>10, <1>11, CommitKeepsInv

\* An answer that reaches the room, or is lost, keeps the invariant.
LEMMA AnswerKeepsInv ==
    ASSUME LifecycleInv, NEW id \in answered, HandleReceipt(id) \/ LoseReply(id)
    PROVE  LifecycleInv'
<1>1. /\ UNCHANGED <<controlVars, head, fence, fences, seen, calls, applied>>
      /\ answered' = answered \ {id}
  BY DEF HandleReceipt, LoseReply, roomVars
<1>2. /\ commit \in Commit \cup {NoCommit} /\ id \in applied
      /\ answered' \subseteq applied
  BY <1>1 DEF LifecycleInv, LifecycleTypeOK
<1>3. \/ commit' = commit
      \/ /\ commit # NoCommit /\ commit.id = id
         /\ commit' = [commit EXCEPT !.done = TRUE]
  BY DEF HandleReceipt, LoseReply, roomVars
<1>4. /\ commit' \in Commit \cup {NoCommit}
      /\ commit' = NoCommit <=> commit = NoCommit
      /\ commit # NoCommit => /\ commit'.id = commit.id
                              /\ commit'.expected = commit.expected
                              /\ commit'.fromPaused = commit.fromPaused
                              /\ commit'.done = commit.done \/ commit.id = id
  <2>1. CASE commit' = commit
    BY <1>2, <2>1
  <2>2. CASE commit # NoCommit /\ commit.id = id /\ commit' = [commit EXCEPT !.done = TRUE]
    <3>1. commit \in Commit
      BY <1>2, <2>2
    <3>2. /\ commit'.id = commit.id /\ commit'.expected = commit.expected
          /\ commit'.fromPaused = commit.fromPaused
      BY <2>2, <3>1 DEF Commit
    <3>3. commit' \in Commit
      BY <2>2, <3>1 DEF Commit
    <3> QED
      BY <2>2, <3>2, <3>3, LifecycleNullsApart
  <2> QED
    BY <1>3, <2>1, <2>2
<1>5. LifecycleTypeOK'
  BY <1>1, <1>2, <1>4 DEF LifecycleInv, LifecycleTypeOK, controlVars
<1>6. DoneMeansApplied'
  BY <1>1, <1>2, <1>4 DEF LifecycleInv, DoneMeansApplied
<1>7. RepliesArePast' /\ CallsAreOfFences' /\ AppliedIsPast'
  BY <1>1 DEF LifecycleInv, RepliesArePast, CallsAreOfFences, AppliedIsPast, controlVars
<1>8. FenceFreezesHead' /\ CommitIsOfFence' /\ PendingStands'
  BY <1>1, <1>4 DEF LifecycleInv, FenceFreezesHead, CommitIsOfFence, PendingStands, controlVars
<1>9. FrontierStands' /\ FenceOpenedBy'
  BY <1>1, <1>4 DEF LifecycleInv, FrontierStands, FenceOpenedBy, controlVars
<1> QED
  BY <1>5, <1>6, <1>7, <1>8, <1>9 DEF LifecycleInv

\* Forced changes, a resume, and members that leave, join or are revoked.
LEMMA ManagersKeepInv ==
    ASSUME LifecycleInv, NEW m \in Principal,
           \/ ForcePause(m) \/ ForceClose(m) \/ Resume(m) \/ Leave(m) \/ Join(m)
           \/ \E n \in Principal : Revoke(m, n)
    PROVE  LifecycleInv'
<1>1. /\ lifecycle \in {"ACTIVE", "DORMANT", "PAUSED", "CLOSED"} /\ keyVersion \in Nat
      /\ member \in [Principal -> {"active", "left", "revoked"}]
  BY DEF LifecycleInv, LifecycleTypeOK
<1>2. CASE ForcePause(m) \/ ForceClose(m) \/ Resume(m)
  <2>1. /\ UNCHANGED <<receipt, roomVars, seen, wireVars, keyVersion>>
        /\ revision' = revision + 1
        /\ lifecycle' \in {"ACTIVE", "DORMANT", "PAUSED", "CLOSED"}
    BY <1>2 DEF ForcePause, ForceClose, Resume
  <2>2. member' \in [Principal -> {"active", "left", "revoked"}]
    BY <1>1, <1>2 DEF ForcePause, ForceClose, Resume
  <2> QED
    BY <1>1, <2>1, <2>2, ControlStepKeepsInv
<1>3. CASE Leave(m) \/ Join(m) \/ \E n \in Principal : Revoke(m, n)
  <2>1. UNCHANGED <<receipt, roomVars, seen, wireVars, revision>>
    BY <1>3 DEF Leave, Join, Revoke, Departs
  <2>2. keyVersion' \in Nat
    BY <1>1, <1>3 DEF Leave, Join, Revoke
  <2>3. member' \in [Principal -> {"active", "left", "revoked"}]
    BY <1>1, <1>3 DEF Leave, Join, Revoke, Departs
  <2>4. \/ lifecycle' = lifecycle
        \/ {lifecycle, lifecycle'} \subseteq {"ACTIVE", "DORMANT"}
    BY <1>3 DEF Leave, Join, Revoke, Departs
  <2>5. lifecycle' \in {"ACTIVE", "DORMANT", "PAUSED", "CLOSED"}
    BY <1>1, <2>4
  <2> QED
    BY <2>1, <2>2, <2>3, <2>4, <2>5, ControlStepKeepsInv
<1> QED
  BY <1>2, <1>3

\* Every step of the two stores keeps LifecycleInv.
LEMMA LifecycleStepKeepsInv == LifecycleInv /\ [LifecycleNext]_lifecycleVars => LifecycleInv'
<1> SUFFICES ASSUME LifecycleInv, [LifecycleNext]_lifecycleVars PROVE LifecycleInv'
  OBVIOUS
<1>1. ASSUME NEW m \in Principal, Deliver(m) PROVE LifecycleInv'
  BY <1>1, EditOrReadKeepsInv, PrepareKeepsInv, CancelKeepsInv, CommitFenceKeepsInv,
     PausedCloseKeepsInv DEF Deliver
<1>2. CASE UNCHANGED lifecycleVars
  <2>1. /\ UNCHANGED <<controlVars, answered, applied, roomVars, calls>>
        /\ seen' = seen
    BY <1>2 DEF lifecycleVars, wireVars
  <2>2. seen' \in [Principal -> Reply \cup {NoReply}]
    BY <2>1 DEF LifecycleInv, LifecycleTypeOK
  <2> QED
    BY <2>1, <2>2, LeavingKeepsInv
<1>3. CASE LifecycleNext
  BY <1>1, <1>3, ValidateKeepsInv, ManagersKeepInv, FinalizeKeepsInv, AnswerKeepsInv
     DEF LifecycleNext
<1> QED
  BY <1>2, <1>3

\* LifecycleInv is an invariant of the two stores.
THEOREM LifecycleInvHolds == LifecycleSpec => []LifecycleInv
<1> QED
  BY LifecycleInitEstablishes, LifecycleStepKeepsInv, PTL DEF LifecycleSpec

(***************************************************************************)
(* Results                                                                 *)
(***************************************************************************)
\* The two stores and what travels between them keep their types.
THEOREM LifecycleTypes == LifecycleSpec => []LifecycleTypeOK
<1>1. LifecycleInv => LifecycleTypeOK
  BY DEF LifecycleInv
<1> QED
  BY <1>1, LifecycleInvHolds, PTL

\* While the control plane stands where a finalization left it, the room is
\* fenced at the frontier the finalization recorded (collaborationSessions.ts and
\* CollaborationSessionRoom.ts agree on it without a common transaction).
THEOREM FrontierIsFenced == LifecycleSpec => []CommittedFrontier
<1>1. LifecycleInv => CommittedFrontier
  BY DEF LifecycleInv, FrontierStands, CommittedFrontier
<1> QED
  BY <1>1, LifecycleInvHolds, PTL

\* A finalization that can still apply is for the fence and commit that stand.
THEOREM PendingIsFenced == LifecycleSpec => []PendingFinalizationIsFenced
<1>1. LifecycleInv => PendingFinalizationIsFenced
  <2> SUFFICES ASSUME LifecycleInv, NEW call \in calls, Applies(call)
               PROVE  /\ fence = call.fence /\ head = call.fence.seq
                      /\ commit # NoCommit /\ commit.id = call.fence.id
    BY DEF PendingFinalizationIsFenced
  <2>1. fence = call.fence /\ commit # NoCommit
    BY DEF Applies, LifecycleInv, PendingStands
  <2>2. fence # NoFence /\ commit.id = fence.id
    BY <2>1 DEF LifecycleInv, CommitIsOfFence
  <2> QED
    BY <2>1, <2>2 DEF LifecycleInv, FenceFreezesHead
<1> QED
  BY <1>1, LifecycleInvHolds, PTL

\* A commit the room calls done was applied by the control plane.
THEOREM DoneWasApplied == LifecycleSpec => []DoneMeansApplied
<1>1. LifecycleInv => DoneMeansApplied
  BY DEF LifecycleInv
<1> QED
  BY <1>1, LifecycleInvHolds, PTL

\* Only a finalization that applies moves the receipt.
LEMMA ReceiptMoves ==
    ASSUME LifecycleInv, LifecycleNext, receipt' # receipt
    PROVE  \E call \in calls :
               /\ Applies(call) /\ receipt' = call
               /\ lifecycle' = Target(call.fence.intent)
<1>1. ASSUME NEW m \in Principal, Deliver(m) PROVE FALSE
  BY <1>1 DEF Deliver, AcceptEdit, ReadOrRefused, Prepare, Cancel, CommitFence, PausedClose,
              Handled, controlVars
<1>2. ASSUME NEW m \in Principal,
             \/ Validate(m) \/ ForcePause(m) \/ ForceClose(m) \/ Resume(m) \/ Leave(m) \/ Join(m)
      PROVE  FALSE
  BY <1>2 DEF Validate, ForcePause, ForceClose, Resume, Leave, Join, Departs, controlVars
<1>3. ASSUME NEW m \in Principal, NEW n \in Principal, Revoke(m, n) PROVE FALSE
  BY <1>3 DEF Revoke, Departs
<1>4. ASSUME NEW id \in answered, HandleReceipt(id) \/ LoseReply(id) PROVE FALSE
  BY <1>4 DEF HandleReceipt, LoseReply, controlVars
<1>5. PICK call \in calls : FinalizeLifecycle(call)
  BY <1>1, <1>2, <1>3, <1>4 DEF LifecycleNext
<1>6. ~HasReceipt(call.fence)
  BY <1>5 DEF FinalizeLifecycle, controlVars
<1> QED
  BY <1>5, <1>6 DEF FinalizeLifecycle

\* However often the alarm and the managers ask, a fence is applied once.
THEOREM AppliedOnce == LifecycleSpec => FinalizedOnce
<1>1. LifecycleInv /\ [LifecycleNext]_lifecycleVars
        => [receipt' # receipt => receipt'.fence.id \notin applied]_lifecycleVars
  <2> SUFFICES ASSUME LifecycleInv, LifecycleNext, receipt' # receipt
               PROVE  receipt'.fence.id \notin applied
    OBVIOUS
  <2>1. PICK call \in calls : Applies(call) /\ receipt' = call
    BY ReceiptMoves
  <2>2. call.expected = revision /\ revision \in Nat
    BY <2>1 DEF Applies, LifecycleInv, LifecycleTypeOK
  <2> QED
    BY <2>1, <2>2 DEF LifecycleInv, AppliedIsPast
<1> QED
  BY <1>1, LifecycleInvHolds, PTL DEF LifecycleSpec, FinalizedOnce

\* A committed pause that becomes a close does so at its own frontier.
THEOREM CloseKeepsFrontier == LifecycleSpec => CloseKeepsPausedFrontier
<1>1. LifecycleInv /\ [LifecycleNext]_lifecycleVars
        => [lifecycle = "PAUSED" /\ lifecycle' = "CLOSED" /\ receipt' # receipt =>
              receipt # NoReceipt /\ receipt'.fence.seq = receipt.fence.seq]_lifecycleVars
  <2> SUFFICES ASSUME LifecycleInv, LifecycleNext, lifecycle = "PAUSED", receipt' # receipt
               PROVE  receipt # NoReceipt /\ receipt'.fence.seq = receipt.fence.seq
    OBVIOUS
  <2>1. PICK call \in calls : Applies(call) /\ receipt' = call
    BY ReceiptMoves
  <2>2. call.expected = revision /\ fence = call.fence /\ commit # NoCommit
    BY <2>1 DEF Applies, LifecycleInv, PendingStands
  <2>3. fence # NoFence /\ fence.revision = revision
    BY <2>2 DEF LifecycleInv, CommitIsOfFence, CallsAreOfFences
  <2>4. receipt # NoReceipt /\ receipt.fence.seq = fence.seq
    BY <2>3 DEF LifecycleInv, FenceOpenedBy
  <2> QED
    BY <2>1, <2>2, <2>4
<1> QED
  BY <1>1, LifecycleInvHolds, PTL DEF LifecycleSpec, CloseKeepsPausedFrontier

(***************************************************************************)
(* The two stores act as one                                               *)
(***************************************************************************)
\* Target and receipt, as the abstract session sees them.
LEMMA SettledFacts ==
    ASSUME LifecycleInv
    PROVE  /\ head \in Nat /\ revision \in Nat
           /\ receipt # NoReceipt => receipt.expected < revision /\ receipt.expected \in Nat
           /\ Settled => lifecycle \in {"PAUSED", "CLOSED"} /\ head = receipt.fence.seq
<1>1. head \in Nat /\ revision \in Nat
  BY LifecycleBounds DEF LifecycleInv, LifecycleTypeOK
<1>2. receipt # NoReceipt => receipt.expected < revision
  BY DEF LifecycleInv, AppliedIsPast
<1>3. receipt # NoReceipt => receipt.expected \in Nat
  BY DEF LifecycleInv, LifecycleTypeOK, Call
<1>4. Settled => lifecycle \in {"PAUSED", "CLOSED"} /\ head = receipt.fence.seq
  BY DEF LifecycleInv, FrontierStands, Settled, Target
<1> QED
  BY <1>1, <1>2, <1>3, <1>4

\* A step that leaves the control plane and the head alone changes nothing.
LEMMA StutterIsSeen ==
    ASSUME UNCHANGED <<lifecycle, revision, receipt, head>>
    PROVE  UNCHANGED Atomic!vars
  BY DEF Atomic!vars, Settled

\* An edit is accepted only where the session is not settled.
LEMMA EditIsSeen ==
    ASSUME LifecycleInv, LifecycleInv', NEW m \in Principal, AcceptEdit(m)
    PROVE  Atomic!Edit
<1>1. head' = head + 1 /\ UNCHANGED <<lifecycle, revision, receipt>>
  BY DEF AcceptEdit, Handled, controlVars
<1>2. Settled' = Settled
  BY <1>1 DEF Settled
<1>3. ~Settled
  <2> SUFFICES ASSUME Settled PROVE FALSE
    OBVIOUS
  <2>1. head = receipt.fence.seq /\ head \in Nat
    BY SettledFacts
  <2>2. head' = receipt'.fence.seq
    BY <1>2 DEF LifecycleInv, FrontierStands, Settled
  <2> QED
    BY <1>1, <2>1, <2>2
<1> QED
  BY <1>1, <1>2, <1>3 DEF Atomic!Edit

\* A finalization settles the session at its last edit.
LEMMA FinalizeIsSeen ==
    ASSUME LifecycleInv, NEW call \in calls, FinalizeLifecycle(call)
    PROVE  Atomic!Pause \/ Atomic!Close \/ UNCHANGED Atomic!vars
<1>1. head' = head
  BY DEF FinalizeLifecycle, roomVars
<1>2. CASE HasReceipt(call.fence)
  BY <1>1, <1>2, StutterIsSeen DEF FinalizeLifecycle, controlVars
<1>3. CASE ~HasReceipt(call.fence)
  <2>1. /\ Applies(call) /\ lifecycle' = Target(call.fence.intent)
        /\ revision' = revision + 1 /\ receipt' = call
    BY <1>3 DEF FinalizeLifecycle
  <2>2. call \in Call /\ call # NoReceipt
    BY LifecycleNullsApart DEF LifecycleInv, LifecycleTypeOK
  <2>3. call.expected = revision /\ fence = call.fence /\ commit # NoCommit
    BY <2>1 DEF Applies, LifecycleInv, PendingStands
  <2>4. fence # NoFence /\ head = fence.seq /\ fence.revision = revision
    BY <2>3 DEF LifecycleInv, CommitIsOfFence, FenceFreezesHead, CallsAreOfFences
  <2>5. Settled' = TRUE
    BY <2>1, <2>2, <2>3 DEF Settled
  <2>6. receipt' # NoReceipt /\ receipt'.fence.seq = head'
    BY <1>1, <2>1, <2>2, <2>3, <2>4
  <2>7. lifecycle = "PAUSED" => Settled
    BY <2>4 DEF LifecycleInv, FenceOpenedBy, Settled
  <2>8. call.fence.intent \in {"pause", "close"}
    BY <2>2 DEF Call, Fence
  <2>9. CASE call.fence.intent = "pause"
    BY <1>1, <2>1, <2>5, <2>6, <2>9 DEF Atomic!Pause, Atomic!Settle, Applies, MayBecome, Target
  <2>10. CASE call.fence.intent = "close"
    BY <1>1, <2>1, <2>5, <2>6, <2>7, <2>10 DEF Atomic!Close, Atomic!Settle, Applies, MayBecome, Target
  <2> QED
    BY <2>8, <2>9, <2>10
<1> QED
  BY <1>2, <1>3

\* A new revision without a finalization settles nothing.
LEMMA NewRevisionUnsettles ==
    ASSUME LifecycleInv, revision' = revision + 1, receipt' = receipt
    PROVE  Settled' = FALSE
  BY SettledFacts DEF Settled

LEMMA ManagersAreSeen ==
    ASSUME LifecycleInv, NEW m \in Principal, ForcePause(m) \/ ForceClose(m) \/ Resume(m)
    PROVE  Atomic!Force \/ Atomic!Resume
<1>1. revision' = revision + 1 /\ UNCHANGED <<receipt, head>>
  BY DEF ForcePause, ForceClose, Resume, roomVars
<1>2. Settled' = FALSE
  BY <1>1, NewRevisionUnsettles
<1> QED
  BY <1>1, <1>2 DEF ForcePause, ForceClose, Resume, Atomic!Force, Atomic!Resume

LEMMA MembersAreSeen ==
    ASSUME LifecycleInv, NEW m \in Principal, Leave(m) \/ Join(m) \/ \E n \in Principal : Revoke(n, m)
    PROVE  Atomic!Empties \/ UNCHANGED Atomic!vars
<1>1. UNCHANGED <<revision, receipt, head>>
  BY DEF Leave, Join, Revoke, Departs, roomVars
<1>2. \/ lifecycle' = lifecycle
      \/ lifecycle = "ACTIVE" /\ lifecycle' = "DORMANT"
      \/ lifecycle = "DORMANT" /\ lifecycle' = "ACTIVE"
  BY DEF Leave, Join, Revoke, Departs
<1>3. Settled' = Settled
  BY <1>1 DEF Settled
<1>4. CASE lifecycle' = lifecycle
  BY <1>1, <1>4, StutterIsSeen
<1>5. CASE lifecycle' # lifecycle
  <2>1. ~Settled
    BY <1>2, <1>5, SettledFacts
  <2> QED
    BY <1>1, <1>2, <1>3, <1>5, <2>1 DEF Atomic!Empties
<1> QED
  BY <1>4, <1>5

LEMMA AtomicStep ==
    ASSUME LifecycleInv, LifecycleInv', [LifecycleNext]_lifecycleVars
    PROVE  [Atomic!Next]_(Atomic!vars)
<1>1. CASE UNCHANGED lifecycleVars
  BY <1>1, StutterIsSeen DEF lifecycleVars, controlVars, roomVars
<1>2. ASSUME NEW m \in Principal, Deliver(m), ~AcceptEdit(m) PROVE UNCHANGED Atomic!vars
  BY <1>2, StutterIsSeen DEF Deliver, ReadOrRefused, Prepare, Cancel, CommitFence, PausedClose, Handled, controlVars
<1>3. ASSUME NEW m \in Principal, Validate(m) PROVE UNCHANGED Atomic!vars
  BY <1>3, StutterIsSeen DEF Validate, controlVars, roomVars
<1>4. ASSUME NEW id \in answered, HandleReceipt(id) \/ LoseReply(id) PROVE UNCHANGED Atomic!vars
  BY <1>4, StutterIsSeen DEF HandleReceipt, LoseReply, controlVars, roomVars
<1> QED
  BY <1>1, <1>2, <1>3, <1>4, EditIsSeen, FinalizeIsSeen, ManagersAreSeen, MembersAreSeen
     DEF LifecycleNext, Atomic!Next

\* Room and control plane, with their fences, lost answers and stale replies,
\* implement the session that pauses and closes in one step.
THEOREM TwoStoresActAsOne == LifecycleSpec => ActsAsOneStore
<1>1. LifecycleInit => Atomic!Init
  BY DEF LifecycleInit, Atomic!Init, Settled
<1>2. LifecycleInv /\ LifecycleInv' /\ [LifecycleNext]_lifecycleVars => [Atomic!Next]_(Atomic!vars)
  BY AtomicStep
<1> QED
  BY <1>1, <1>2, LifecycleInvHolds, PTL DEF LifecycleSpec, ActsAsOneStore, Atomic!Spec
=============================================================================
