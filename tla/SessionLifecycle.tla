-------------------------- MODULE SessionLifecycle --------------------------
(***************************************************************************)
(* Pausing and closing a session: two stores that must agree without a     *)
(* common transaction.  The control plane (Convex) owns the lifecycle, its *)
(* revision, the members and the key version; the room owns the head of    *)
(* the log, the fence that freezes admission and the commit record that    *)
(* says the control plane may have been asked.  A manager prepares a fence *)
(* at a durable frontier, commits it, and the room asks the control plane  *)
(* to finalize it until an answer arrives.  Beside that path a manager can *)
(* force a pause or a close, resume, leave, join and revoke at any time.   *)
(*                                                                         *)
(* A message of a live socket is two steps: the control plane checks the   *)
(* sender and replies (Validate), and the room then acts on a reply that   *)
(* may be stale.                                                           *)
(*                                                                         *)
(* Abstractions: every principal here has the manager's role; a snapshot   *)
(* of the head exists whenever a fence is prepared (SessionRoomLog has the *)
(* frontier check); the sessions and frontiers a message quotes are the    *)
(* current ones; Git lag is left out.  A finalization, once sent, may be   *)
(* processed again at any time: that is its alarm retries, the retries of  *)
(* managers and its delayed copies in one.                                 *)
(***************************************************************************)
EXTENDS Integers, FiniteSets

CONSTANTS
    Principal,      \* devices with the role of session manager
    ProjectManager, \* those of them that also manage the project
    NoFence,
    NoCommit,
    NoReceipt,
    NoReply,
    MaxHead,        \* bound: batches accepted
    MaxFences,      \* bound: fences prepared
    MaxForced,      \* bound: forced pauses and closes
    MaxDepartures   \* bound: members that leave or are revoked

ASSUME ProjectManagersArePrincipals == ProjectManager \subseteq Principal
ASSUME LifecycleBounds == {MaxHead, MaxFences, MaxForced, MaxDepartures} \subseteq Nat

VARIABLES
    lifecycle,      \* control plane: state of the session
    revision,       \* control plane: lifecycleRevision
    keyVersion,     \* control plane: activeKeyVersion
    receipt,        \* control plane: the last finalization it applied
    member,         \* control plane: principal -> membership
    head,           \* room: currentSeq
    fence,          \* room: the lifecycle fence
    commit,         \* room: the commit record
    fences,         \* room: fences made so far
    seen,           \* principal -> what its message in flight was told
    calls,          \* finalizations sent to the control plane
    answered,       \* fences whose successful answer is on its way to the room
    applied,        \* fences the control plane ever applied (history)
    forced, departures

controlVars == <<lifecycle, revision, keyVersion, receipt, member>>
roomVars == <<head, fence, commit, fences>>
wireVars == <<calls, answered, applied>>
boundVars == <<forced, departures>>
lifecycleVars == <<controlVars, roomVars, seen, wireVars, boundVars>>

Fence == [id: Nat, intent: {"pause", "close"}, seq: Nat, key: Nat,
          by: Principal, revision: Nat]
Commit == [id: Nat, expected: Nat, done: BOOLEAN, fromPaused: BOOLEAN]
Reply == [revision: Nat, key: Nat, recovery: BOOLEAN]
Call == [fence: Fence, expected: Nat]

ASSUME LifecycleNullsApart ==
    NoFence \notin Fence /\ NoCommit \notin Commit /\ NoReply \notin Reply /\ NoReceipt \notin Call

LifecycleInit ==
    /\ lifecycle = "ACTIVE" /\ revision = 0 /\ keyVersion = 1
    /\ receipt = NoReceipt
    /\ member = [m \in Principal |-> "active"]
    /\ head = 0 /\ fence = NoFence /\ commit = NoCommit /\ fences = 0
    /\ seen = [m \in Principal |-> NoReply]
    /\ calls = {} /\ answered = {} /\ applied = {}
    /\ forced = 0 /\ departures = 0

(***************************************************************************)
(* Control plane                                                           *)
(***************************************************************************)
IsManager(m) == member[m] = "active" \/ m \in ProjectManager

\* getRoomAccessForServer: a live socket needs an ACTIVE session, a recovery
\* socket a paused or closed one.
Validate(m) ==
    /\ seen[m] = NoReply /\ member[m] = "active"
    /\ lifecycle \in {"ACTIVE", "PAUSED", "CLOSED"}
    /\ seen' = [seen EXCEPT ![m] = [revision |-> revision, key |-> keyVersion,
                                    recovery |-> lifecycle # "ACTIVE"]]
    /\ UNCHANGED <<controlVars, roomVars, wireVars, boundVars>>

\* The states from which walkLifecycle reaches the fence's target.
MayBecome(intent) == IF intent = "pause" THEN {"ACTIVE"} ELSE {"ACTIVE", "DORMANT", "PAUSED"}
Target(intent) == IF intent = "pause" THEN "PAUSED" ELSE "CLOSED"

HasReceipt(f) == receipt # NoReceipt /\ receipt.fence.id = f.id

\* Fault: the revision the fence was prepared at is not compared.
AppliesAnyRevision(call) ==
    /\ ~HasReceipt(call.fence)
    /\ keyVersion = call.fence.key
    /\ receipt # NoReceipt => call.fence.seq >= receipt.fence.seq
    /\ lifecycle \in MayBecome(call.fence.intent)

Applies(call) ==
    /\ ~HasReceipt(call.fence)
    /\ revision = call.expected /\ keyVersion = call.fence.key
    /\ receipt # NoReceipt => call.fence.seq >= receipt.fence.seq
    /\ lifecycle \in MayBecome(call.fence.intent)

\* finalizeLifecycleFromServer: a fence with a receipt is answered again, a new
\* one moves the session; the answer may never arrive.
FinalizeLifecycle(call) ==
    /\ IsManager(call.fence.by)
    /\ HasReceipt(call.fence) \/ Applies(call)
    /\ answered' = answered \cup {call.fence.id}
    /\ IF HasReceipt(call.fence) THEN UNCHANGED <<controlVars, applied>>
       ELSE /\ lifecycle' = Target(call.fence.intent)
            /\ revision' = revision + 1
            /\ receipt' = call
            /\ applied' = applied \cup {call.fence.id}
            /\ UNCHANGED <<keyVersion, member>>
    /\ UNCHANGED <<roomVars, seen, calls, boundVars>>

ForcePause(m) ==
    /\ IsManager(m) /\ lifecycle # "PAUSED" /\ forced < MaxForced
    /\ lifecycle' = "PAUSED" /\ revision' = revision + 1 /\ forced' = forced + 1
    /\ UNCHANGED <<keyVersion, receipt, member, roomVars, seen, wireVars, departures>>

ForceClose(m) ==
    /\ IsManager(m) /\ lifecycle # "CLOSED" /\ forced < MaxForced
    /\ lifecycle' = "CLOSED" /\ revision' = revision + 1 /\ forced' = forced + 1
    /\ member' = [n \in Principal |-> IF member[n] = "active" THEN "left" ELSE member[n]]
    /\ UNCHANGED <<keyVersion, receipt, roomVars, seen, wireVars, departures>>

Resume(m) ==
    /\ IsManager(m) /\ lifecycle \in {"PAUSED", "DORMANT"}
    /\ lifecycle' = "ACTIVE" /\ revision' = revision + 1
    /\ UNCHANGED <<keyVersion, receipt, member, roomVars, seen, wireVars, boundVars>>

\* m is no longer an active member; a session without members is dormant.
Departs(m, status) ==
    /\ departures < MaxDepartures /\ departures' = departures + 1
    /\ member' = [member EXCEPT ![m] = status]
    /\ lifecycle' = IF lifecycle = "ACTIVE" /\ \A n \in Principal : member'[n] # "active"
                    THEN "DORMANT" ELSE lifecycle
    /\ UNCHANGED <<revision, receipt, roomVars, seen, wireVars, forced>>

Leave(m) == member[m] = "active" /\ Departs(m, "left") /\ UNCHANGED keyVersion

\* A revocation also rotates the session key.
Revoke(m, n) ==
    /\ IsManager(m) /\ n # m /\ member[n] # "revoked"
    /\ Departs(n, "revoked")
    /\ keyVersion' = keyVersion + 1

Join(m) ==
    /\ member[m] = "left" /\ lifecycle # "CLOSED"
    /\ member' = [member EXCEPT ![m] = "active"]
    /\ lifecycle' = IF lifecycle = "DORMANT" THEN "ACTIVE" ELSE lifecycle
    /\ UNCHANGED <<revision, keyVersion, receipt, roomVars, seen, wireVars, boundVars>>

(***************************************************************************)
(* Room: a validated message of a live socket.  ensureCurrentAuthorization *)
(* first drops a commit, and its fence, that a later resume has outdated.  *)
(***************************************************************************)
Live(m) == seen[m] # NoReply /\ ~seen[m].recovery

\* Fault: any commit is taken for outdated once the session is ACTIVE.
OutdatedWhenActive(m) == commit # NoCommit

\* Fault: the comparison is one revision late.
OutdatedOneLate(m) ==
    /\ commit # NoCommit
    /\ seen[m].revision > commit.expected + (IF commit.fromPaused THEN 1 ELSE 2)

Outdated(m) ==
    /\ commit # NoCommit
    /\ seen[m].revision > commit.expected + (IF commit.fromPaused THEN 0 ELSE 1)

FenceFor(m) == IF Outdated(m) /\ fence # NoFence /\ fence.id = commit.id THEN NoFence ELSE fence
CommitFor(m) == IF Outdated(m) THEN NoCommit ELSE commit

Handled(m) ==
    /\ seen' = [seen EXCEPT ![m] = NoReply]
    /\ UNCHANGED <<controlVars, answered, applied, boundVars>>

\* Fault: a batch is accepted without a look at the fence.
AcceptUnfenced(m) ==
    /\ Live(m) /\ head < MaxHead
    /\ head' = head + 1
    /\ fence' = FenceFor(m) /\ commit' = CommitFor(m)
    /\ Handled(m) /\ UNCHANGED <<fences, calls>>

\* A batch is accepted: the fence is read in the transaction that appends it.
AcceptEdit(m) ==
    /\ Live(m) /\ FenceFor(m) = NoFence /\ head < MaxHead
    /\ head' = head + 1
    /\ fence' = FenceFor(m) /\ commit' = CommitFor(m)
    /\ Handled(m) /\ UNCHANGED <<fences, calls>>

\* A message that is refused, or that only reads.
ReadOrRefused(m) ==
    /\ seen[m] # NoReply
    /\ IF Live(m) THEN fence' = FenceFor(m) /\ commit' = CommitFor(m)
       ELSE UNCHANGED <<fence, commit>>
    /\ Handled(m) /\ UNCHANGED <<head, fences, calls>>

Prepare(m, intent) ==
    /\ Live(m) /\ FenceFor(m) = NoFence /\ fences < MaxFences
    /\ fences' = fences + 1
    /\ fence' = [id |-> fences + 1, intent |-> intent, seq |-> head,
                 key |-> seen[m].key, by |-> m, revision |-> seen[m].revision]
    /\ commit' = CommitFor(m)
    /\ Handled(m) /\ UNCHANGED <<head, calls>>

\* Fault: a fence is cancelled although its commit may have been applied.
CancelCommitted(m) ==
    /\ Live(m) /\ FenceFor(m) # NoFence
    /\ fence' = NoFence /\ commit' = NoCommit
    /\ Handled(m) /\ UNCHANGED <<head, fences, calls>>

Cancel(m) ==
    /\ Live(m) /\ FenceFor(m) # NoFence /\ CommitFor(m) = NoCommit
    /\ fence' = NoFence /\ commit' = NoCommit
    /\ Handled(m) /\ UNCHANGED <<head, fences, calls>>

\* Fault: the commit expects the revision before the fence's.
CommitBehindFence(m) ==
    /\ Live(m) /\ FenceFor(m) # NoFence /\ CommitFor(m) = NoCommit /\ fence.by = m
    /\ commit' = [id |-> fence.id, expected |-> fence.revision - 1,
                  done |-> FALSE, fromPaused |-> FALSE]
    /\ calls' = calls \cup {[fence |-> fence, expected |-> fence.revision - 1]}
    /\ Handled(m) /\ UNCHANGED <<head, fence, fences>>

\* handleLifecycleCommit: the record is durable before the control plane is asked.
CommitFence(m) ==
    /\ Live(m) /\ FenceFor(m) # NoFence /\ CommitFor(m) = NoCommit /\ fence.by = m
    /\ commit' = [id |-> fence.id, expected |-> fence.revision,
                  done |-> FALSE, fromPaused |-> FALSE]
    /\ calls' = calls \cup {[fence |-> fence, expected |-> fence.revision]}
    /\ Handled(m) /\ UNCHANGED <<head, fence, fences>>

\* handlePausedClose: a recovery socket turns the committed pause into a close
\* without opening admission in between.
PausedClose(m) ==
    LET f == [id |-> fences + 1, intent |-> "close", seq |-> fence.seq,
              key |-> fence.key, by |-> m, revision |-> seen[m].revision]
    IN  /\ seen[m] # NoReply /\ seen[m].recovery /\ fences < MaxFences
        /\ fence # NoFence /\ fence.intent = "pause" /\ fence.key = seen[m].key
        /\ commit # NoCommit /\ commit.id = fence.id /\ commit.done
        /\ seen[m].revision = commit.expected + 1
        /\ fence.seq = head
        /\ fence' = f
        /\ fences' = fences + 1
        /\ commit' = [id |-> f.id, expected |-> f.revision, done |-> FALSE, fromPaused |-> TRUE]
        /\ calls' = calls \cup {[fence |-> f, expected |-> f.revision]}
        /\ Handled(m) /\ UNCHANGED head

\* Fault: the answer is not matched with the commit it is for.
ReceiptUnmatched(id) ==
    /\ id \in answered /\ answered' = answered \ {id}
    /\ commit' = IF commit # NoCommit THEN [commit EXCEPT !.done = TRUE] ELSE commit
    /\ UNCHANGED <<controlVars, head, fence, fences, seen, calls, applied, boundVars>>

\* The rest of finishLifecycleCommit, once an answer arrives.
HandleReceipt(id) ==
    /\ id \in answered /\ answered' = answered \ {id}
    /\ commit' = IF commit # NoCommit /\ commit.id = id THEN [commit EXCEPT !.done = TRUE]
                 ELSE commit
    /\ UNCHANGED <<controlVars, head, fence, fences, seen, calls, applied, boundVars>>

\* A timeout, a dropped connection or an eviction of the room loses the answer.
LoseReply(id) ==
    /\ id \in answered /\ answered' = answered \ {id}
    /\ UNCHANGED <<controlVars, roomVars, seen, calls, applied, boundVars>>

Deliver(m) ==
    \/ AcceptEdit(m) \/ ReadOrRefused(m) \/ Cancel(m) \/ CommitFence(m) \/ PausedClose(m)
    \/ \E intent \in {"pause", "close"} : Prepare(m, intent)

LifecycleNext ==
    \/ \E m \in Principal :
         \/ Validate(m) \/ Deliver(m)
         \/ ForcePause(m) \/ ForceClose(m) \/ Resume(m) \/ Leave(m) \/ Join(m)
    \/ \E m, n \in Principal : Revoke(m, n)
    \/ \E call \in calls : FinalizeLifecycle(call)
    \/ \E id \in answered : HandleReceipt(id) \/ LoseReply(id)

LifecycleSpec == LifecycleInit /\ [][LifecycleNext]_lifecycleVars

\* The alarm retries the commit it has and an answer gets through in the end;
\* managers resume a paused session and their devices keep sending messages.
LifecycleFairness ==
    /\ WF_lifecycleVars(\E call \in calls : /\ commit # NoCommit /\ commit.id = call.fence.id
                                            /\ ~commit.done /\ FinalizeLifecycle(call))
    /\ \A id \in 1..MaxFences : SF_lifecycleVars(HandleReceipt(id))
    /\ WF_lifecycleVars(\E m \in Principal : Resume(m))
    /\ \A m \in Principal : SF_lifecycleVars(Validate(m)) /\ WF_lifecycleVars(Deliver(m))

FairLifecycleSpec == LifecycleSpec /\ LifecycleFairness

(***************************************************************************)
(* Properties                                                              *)
(***************************************************************************)
\* Types of the two stores and of what travels between them.
LifecycleTypeOK ==
    /\ lifecycle \in {"ACTIVE", "DORMANT", "PAUSED", "CLOSED"}
    /\ revision \in Nat /\ keyVersion \in Nat
    /\ receipt \in Call \cup {NoReceipt}
    /\ member \in [Principal -> {"active", "left", "revoked"}]
    /\ head \in 0..MaxHead /\ fences \in 0..MaxFences
    /\ fence \in Fence \cup {NoFence}
    /\ commit \in Commit \cup {NoCommit}
    /\ seen \in [Principal -> Reply \cup {NoReply}]
    /\ calls \subseteq Call /\ answered \subseteq applied /\ applied \subseteq 1..fences

\* As long as the control plane stands where a finalization left it, the room
\* is fenced at exactly the frontier the finalization recorded: nobody writes
\* into a session that was paused or closed, whatever answers were lost and
\* whichever stale message the room still handles.
CommittedFrontier ==
    receipt # NoReceipt /\ revision = receipt.expected + 1 =>
        /\ lifecycle = Target(receipt.fence.intent)
        /\ fence # NoFence /\ head = receipt.fence.seq

\* A finalization that the control plane can still apply, now or when it is
\* resent, is for the fence that stands: the room never gives a fence up, by a
\* cancel, a resume it hears of or a paused close, while it may take effect.
PendingFinalizationIsFenced ==
    \A call \in calls :
        Applies(call) => /\ fence = call.fence /\ head = call.fence.seq
                         /\ commit # NoCommit /\ commit.id = call.fence.id

\* The room calls a commit done only if the control plane applied its fence.
DoneMeansApplied ==
    commit # NoCommit /\ commit.done => commit.id \in applied

\* The control plane applies a fence at most once, however often it is asked.
FinalizedOnce ==
    [][receipt' # receipt => receipt'.fence.id \notin applied]_lifecycleVars

\* A pause that was committed turns into a close with no write in between: the
\* frontier of the close is the frontier of the pause.
CloseKeepsPausedFrontier ==
    [][lifecycle = "PAUSED" /\ lifecycle' = "CLOSED" /\ receipt' # receipt =>
          receipt # NoReceipt /\ receipt'.fence.seq = receipt.fence.seq]_lifecycleVars

\* The control plane stands where the last finalization left it.
Settled == receipt # NoReceipt /\ revision = receipt.expected + 1

Atomic == INSTANCE AtomicLifecycle WITH
    state <- lifecycle, settled <- Settled,
    frontier <- IF receipt = NoReceipt THEN 0 ELSE receipt.fence.seq

\* Room and control plane, with their fences, lost answers and stale replies,
\* pause and close the session as one store would: its frontier is the last edit
\* in it, and no edit gets in until the session is forced on or resumed.
ActsAsOneStore == Atomic!Spec

\* A commit that is pending is resolved, by a retry or by a resume through the
\* control plane, as the room tells a manager whose cancel it refuses, unless the
\* session is closed.
CommitResolves ==
    (commit # NoCommit /\ ~commit.done)
        ~> (commit = NoCommit \/ commit.done \/ lifecycle = "CLOSED")

\* The same in a session that no member leaves and whose key nobody rotates,
\* beside forced pauses, lost answers and any stale message.
ResolvesWithFixedMembers == [](departures = 0) => CommitResolves
=============================================================================
