---------------------------- MODULE AutoGitLease ----------------------------
(***************************************************************************)
(* The AutoGit lease: which device saves the session to its Git branch.    *)
(* The room grants the lease to the eligible socket with the lowest client *)
(* id, keeps whether a socket is eligible in the socket's own attachment,  *)
(* and lets the lease run out when its holder stops renewing it.  Devices  *)
(* tell the room whether they can push, renew, step aside and release.     *)
(*                                                                         *)
(* The room reads the attachment when a message arrives, asks the control  *)
(* plane whether the sender is still admitted, then writes the whole       *)
(* attachment back and handles the message: arrival and handling are two   *)
(* steps, other messages of the same socket can come in between, and       *)
(* checks can end in another order than they began.                        *)
(*                                                                         *)
(* A device whose connection breaks opens another one under the same client*)
(* id.  The room may not have noticed: the older socket stays open for a   *)
(* while, what is in flight on it still arrives, and its attachment still  *)
(* counts in an election.                                                  *)
(*                                                                         *)
(* Abstractions: a lease generation is told apart only as the present one  *)
(* or an older one, since the code compares it for equality; time is the   *)
(* step that lets a lease lapse; a device learns the room's present state  *)
(* at some point after each change; every device may write; a daemon that  *)
(* stopped comes back under the id it had, where the code would draw one;  *)
(* the room never finds a socket gone before its daemon does.              *)
(***************************************************************************)
EXTENDS Integers, SequencesExt

CONSTANTS
    Client,     \* client ids, in the order elections prefer them
    NoClient,
    Socket,     \* sockets that may be open in the room, each named by its client's
                \* id and a number
    NoSocket,
    Overlap,    \* messages of one socket the room may be checking at once
    MaxChanges, \* bound: for each client, changes of heart while online, lost connections
                \* and other messages
    MaxChecks   \* bound: messages of all sockets the room is checking at once

ASSUME ClientsOrdered == Client \subseteq Nat /\ NoClient \notin Client
ASSUME SocketsNamed == Socket \subseteq Client \X Nat /\ NoSocket \notin Socket
ASSUME OverlapPositive == Overlap \in Nat \ {0} /\ MaxChanges \in Nat /\ MaxChecks \in Nat

VARIABLES
    leader,     \* holder of the lease in the room, or NoClient
    running,    \* the lease has not run out
    attachment, \* socket -> "closed", or whether it counts as eligible
    checking,   \* socket -> messages whose sender is being checked, as they came
    wire,       \* socket -> messages on the way to the room, in order
    connection, \* client -> the socket its daemon is connected by, or NoSocket
    able,       \* client -> its daemon finds that it can push
    knows,      \* client -> what it last heard of the lease
    changes,    \* client -> how much of MaxChanges it has used
    late        \* history: sockets whose checks ended out of turn, see Handle

roomVars == <<leader, running, attachment>>
deviceVars == <<connection, able, knows>>
leaseVars == <<roomVars, checking, wire, deviceVars, changes, late>>

Online(c) == connection[c] # NoSocket

Closed == "closed"
Yes == "eligible"
No == "not eligible"
Opinion(b) == IF b THEN Yes ELSE No

Kinds == {"eligibility", "renew", "release", "other"}

\* A message; current: it quotes the present generation; read: the attachment
\* as it was when the message arrived.
Message(kind, value) == [kind |-> kind, value |-> value, current |-> FALSE,
                         read |-> Closed]
Nothing == [me |-> FALSE, current |-> FALSE]

Leading(c) == Online(c) /\ able[c] /\ knows[c].me

LeaseInit ==
    /\ leader = NoClient /\ running = FALSE
    /\ attachment = [l \in Socket |-> Closed]
    /\ checking = [l \in Socket |-> << >>]
    /\ wire = [l \in Socket |-> << >>]
    /\ connection = [c \in Client |-> NoSocket]
    /\ able \in [Client -> BOOLEAN]
    /\ knows = [c \in Client |-> Nothing]
    /\ changes = [c \in Client |-> 0] /\ late = {}

(***************************************************************************)
(* Elections                                                               *)
(***************************************************************************)
\* pickCandidate: the clients with an eligible socket, given the attachments att.
Lowest(S) == CHOOSE c \in S : \A d \in S : c <= d
Eligible(att) == {l[1] : l \in {s \in Socket : att[s] = Yes}}

\* Fault: a grant that keeps the generation it had.
SameGeneration(rest) ==
    /\ checking' = rest
    /\ UNCHANGED <<wire, knows>>

\* What quotes or believes the present generation is outdated by the next one.
NewGeneration(rest) ==
    LET old(m) == [m EXCEPT !.current = FALSE]
        outdated(q) == [l \in Socket |-> [i \in DOMAIN q[l] |-> old(q[l][i])]]
    IN  /\ checking' = outdated(rest) /\ wire' = outdated(wire)
        /\ knows' = [c \in Client |-> old(knows[c])]

\* electIfNeeded: a holder h whose lease runs keeps it; otherwise the lowest
\* eligible client gets the next generation.  att and rest are the attachments
\* and the checks that the handler leaves.
Elect(att, h, runs, rest) ==
    /\ attachment' = att
    /\ \/ /\ h # NoClient /\ runs
          /\ leader' = h /\ running' = TRUE
          /\ checking' = rest /\ UNCHANGED <<wire, knows>>
       \/ /\ ~(h # NoClient /\ runs) /\ Eligible(att) # {}
          /\ leader' = Lowest(Eligible(att)) /\ running' = TRUE
          /\ NewGeneration(rest)
       \/ /\ ~(h # NoClient /\ runs) /\ Eligible(att) = {}
          /\ leader' = NoClient /\ running' = FALSE
          /\ knows' = [c \in Client |-> [knows[c] EXCEPT !.current = FALSE]]
          /\ checking' = rest /\ UNCHANGED wire

(***************************************************************************)
(* Room                                                                    *)
(***************************************************************************)
Checks == {p \in Socket \X (1..Overlap) : p[2] \in DOMAIN checking[p[1]]}

\* A message arrives: the room reads the attachment and asks the control plane.
\* An eligibility that finds its socket idle speaks for its device again.
Arrive(l) ==
    /\ attachment[l] # Closed /\ wire[l] # << >>
    /\ Len(checking[l]) < Overlap /\ Cardinality(Checks) < MaxChecks
    /\ checking' = [checking EXCEPT ![l] = Append(@, [Head(wire[l]) EXCEPT !.read = attachment[l]])]
    /\ wire' = [wire EXCEPT ![l] = Tail(@)]
    /\ late' = IF checking[l] = << >> /\ Head(wire[l]).kind = "eligibility"
               THEN late \ {l} ELSE late
    /\ UNCHANGED <<roomVars, deviceVars, changes>>

\* The checks left when the i-th of socket l is done.
Without(l, i) == [checking EXCEPT ![l] = RemoveAt(@, i)]

\* ensureCurrentAuthorization writes back the attachment it was given.
Restored(l, i) == [attachment EXCEPT ![l] = checking[l][i].read]

\* Who still holds the lease when a socket of client c says m.
Kept(c, m) == IF m.value = No /\ leader = c THEN NoClient ELSE leader

\* Fault: stepping aside while another holds the lease is not recorded.
IgnoresBystander(l, i) ==
    LET m == checking[l][i]
    IN  /\ m.kind = "eligibility"
        /\ Elect([attachment EXCEPT ![l] = IF m.value = No /\ leader # l[1] THEN m.read ELSE m.value],
                 Kept(l[1], m), running, Without(l, i))

HandleEligibility(l, i) ==
    LET m == checking[l][i]
    IN  /\ m.kind = "eligibility"
        /\ Elect([attachment EXCEPT ![l] = m.value], Kept(l[1], m), running, Without(l, i))

HandleRenew(l, i) ==
    /\ checking[l][i].kind = "renew"
    /\ Elect(Restored(l, i), leader, running, Without(l, i))

HandleRelease(l, i) ==
    /\ checking[l][i].kind = "release"
    /\ IF leader = l[1] /\ checking[l][i].current
       THEN Elect([attachment EXCEPT ![l] = No], NoClient, FALSE, Without(l, i))
       ELSE /\ attachment' = Restored(l, i)
            /\ checking' = Without(l, i)
            /\ UNCHANGED <<leader, running, wire, knows>>

\* Any other message: a batch, a barrier, a request.
HandleOther(l, i) ==
    /\ checking[l][i].kind = "other"
    /\ attachment' = Restored(l, i)
    /\ checking' = Without(l, i)
    /\ UNCHANGED <<leader, running, wire, knows>>

\* An eligibility handled before an older one, or an attachment written back over
\* a newer one: the room may have lost what the device said last.
OutOfTurn(l, i) ==
    LET m == checking[l][i]
    IN  \/ m.kind # "eligibility" /\ m.read # attachment[l]
        \/ m.kind = "eligibility" /\ \E j \in 1..(i - 1) : checking[l][j].kind = "eligibility"

\* Checks may end in any order.
Handle(l, kind) ==
    /\ \E i \in DOMAIN checking[l] :
         /\ checking[l][i].kind = kind
         /\ \/ HandleEligibility(l, i) \/ HandleRenew(l, i)
            \/ HandleRelease(l, i) \/ HandleOther(l, i)
         /\ late' = IF OutOfTurn(l, i) THEN late \cup {l} ELSE late
    /\ UNCHANGED <<connection, able, changes>>

\* The lease runs out: its holder's renewals no longer come, or come too late.
Lapse ==
    /\ leader # NoClient /\ running
    /\ running' = FALSE
    /\ UNCHANGED <<leader, attachment, checking, wire, deviceVars, changes, late>>

\* Fault: the alarm only drops the holder.
AlarmWithoutElection ==
    /\ leader # NoClient /\ ~running
    /\ leader' = NoClient
    /\ knows' = [d \in Client |-> [knows[d] EXCEPT !.current = FALSE]]
    /\ UNCHANGED <<running, attachment, checking, wire, connection, able, changes, late>>

\* The alarm of a lease that has run out.
Alarm ==
    /\ leader # NoClient /\ ~running
    /\ Elect(attachment, leader, FALSE, checking)
    /\ UNCHANGED <<connection, able, changes, late>>

(***************************************************************************)
(* Devices                                                                 *)
(***************************************************************************)
Quiet(l, kind) == /\ \A i \in DOMAIN wire[l] : wire[l][i].kind # kind
                  /\ \A i \in DOMAIN checking[l] : checking[l][i].kind # kind
Post(l, m) == wire' = [wire EXCEPT ![l] = Append(@, m)]

Changed(c) == changes[c] < MaxChanges /\ changes' = [changes EXCEPT ![c] = @ + 1]

\* handleHello: a fresh attachment, beside those of the client's older sockets.
Authenticated(l) == [attachment EXCEPT ![l] = No]

\* openConnection and becomeLive: a new socket, whatever became of the older ones;
\* the outbox, if there is one, then the eligibility.
Connect(c) ==
    /\ ~Online(c)
    /\ \E l \in Socket :
         /\ l[1] = c /\ attachment[l] = Closed
         /\ \A s \in Socket : s[1] = c /\ s[2] < l[2] => attachment[s] # Closed
         /\ connection' = [connection EXCEPT ![c] = l]
         /\ attachment' = Authenticated(l)
         /\ \E outbox \in {<< >>, <<Message("other", No)>>} :
              /\ changes[c] + Len(outbox) <= MaxChanges
              /\ changes' = [changes EXCEPT ![c] = @ + Len(outbox)]
              /\ wire' = [wire EXCEPT ![l] = outbox \o <<Message("eligibility", Opinion(able[c]))>>]
    /\ UNCHANGED <<leader, running, checking, able, knows, late>>

\* refreshEligibility and the step aside on a push the remote refuses.
ChangesItsMind(c) ==
    /\ able' = [able EXCEPT ![c] = ~@]
    /\ \/ ~Online(c) /\ UNCHANGED <<wire, changes>>
       \/ /\ Online(c) /\ Changed(c)
          /\ Post(connection[c], Message("eligibility", Opinion(~able[c])))
    /\ UNCHANGED <<roomVars, checking, connection, knows, late>>

\* A device that cannot push looks again, and says so again.
Recheck(c) ==
    /\ Online(c) /\ ~able[c] /\ Quiet(connection[c], "eligibility")
    /\ Post(connection[c], Message("eligibility", No))
    /\ UNCHANGED <<roomVars, checking, deviceVars, changes, late>>

Renew(c) ==
    /\ Leading(c) /\ Quiet(connection[c], "renew")
    /\ Post(connection[c], [Message("renew", No) EXCEPT !.current = knows[c].current])
    /\ UNCHANGED <<roomVars, checking, deviceVars, changes, late>>

SendOther(c) ==
    /\ Online(c) /\ Changed(c)
    /\ Post(connection[c], Message("other", No))
    /\ UNCHANGED <<roomVars, checking, deviceVars, late>>

\* A state broadcast or an acknowledgement arrives.
Learn(c) ==
    /\ Online(c) /\ ~knows[c].current
    /\ knows' = [knows EXCEPT ![c] = [me |-> leader = c, current |-> TRUE]]
    /\ UNCHANGED <<roomVars, checking, wire, connection, able, changes, late>>

\* The daemon goes, or takes its connection for broken: it may release the lease
\* first, and what it sent may still arrive on the socket it leaves behind.
Disconnect(c) ==
    /\ Online(c) /\ Changed(c)
    /\ connection' = [connection EXCEPT ![c] = NoSocket]
    /\ knows' = [knows EXCEPT ![c] = Nothing]
    /\ \/ UNCHANGED wire
       \/ /\ Leading(c)
          /\ Post(connection[c], [Message("release", No) EXCEPT !.current = knows[c].current])
    /\ UNCHANGED <<roomVars, checking, able, late>>

\* A socket no daemon uses any more.
Abandoned(l) == attachment[l] # Closed /\ connection[l[1]] # l

\* Fault: checks of a closed socket are kept.
SocketKeepsChecks(l) ==
    /\ Abandoned(l)
    /\ attachment' = [attachment EXCEPT ![l] = Closed]
    /\ wire' = [wire EXCEPT ![l] = << >>]
    /\ UNCHANGED <<leader, running, checking, deviceVars, changes, late>>

\* The room notices that a socket is gone; what was in flight on it is lost.
SocketCloses(l) ==
    /\ Abandoned(l)
    /\ attachment' = [attachment EXCEPT ![l] = Closed]
    /\ checking' = [checking EXCEPT ![l] = << >>]
    /\ wire' = [wire EXCEPT ![l] = << >>]
    /\ late' = late \ {l}
    /\ UNCHANGED <<leader, running, deviceVars, changes>>

LeaseNext ==
    \/ \E l \in Socket :
         Arrive(l) \/ (\E kind \in Kinds : Handle(l, kind)) \/ SocketCloses(l)
    \/ \E c \in Client :
         \/ Connect(c) \/ ChangesItsMind(c) \/ Recheck(c) \/ Renew(c) \/ SendOther(c)
         \/ Learn(c) \/ Disconnect(c)
    \/ Lapse \/ Alarm

LeaseSpec == LeaseInit /\ [][LeaseNext]_leaseVars

\* Messages and checks get through, a device that cannot push looks again, dead
\* sockets are noticed, a lease nobody renews runs out, and its alarm fires.
LeaseFairness ==
    /\ \A l \in Socket :
         /\ WF_leaseVars(Arrive(l)) /\ WF_leaseVars(SocketCloses(l))
         /\ \A kind \in Kinds : WF_leaseVars(Handle(l, kind))
    /\ \A c \in Client : WF_leaseVars(Recheck(c)) /\ WF_leaseVars(Learn(c))
    /\ WF_leaseVars(Lapse /\ ~Leading(leader))
    /\ WF_leaseVars(Alarm)

FairLeaseSpec == LeaseSpec /\ LeaseFairness

(***************************************************************************)
(* Properties                                                              *)
(***************************************************************************)
MessageType == [kind: Kinds, value: {Yes, No}, current: BOOLEAN, read: {Closed, Yes, No}]

\* Some message of q quotes the present generation.
Quotes(q) == \E i \in DOMAIN q : q[i].kind \in {"renew", "release"} /\ q[i].current

\* Types of the room's lease and attachments and of the devices' views: a check
\* never writes a closed attachment back, and none outlives its socket.
LeaseTypeOK ==
    /\ leader \in Client \cup {NoClient} /\ running \in BOOLEAN
    /\ running => leader # NoClient
    /\ attachment \in [Socket -> {Closed, Yes, No}]
    /\ checking \in [Socket -> Seq({m \in MessageType : m.read # Closed})]
    /\ \A l \in Socket : attachment[l] = Closed => checking[l] = << >>
    /\ wire \in [Socket -> Seq(MessageType)]
    /\ connection \in [Client -> Socket \cup {NoSocket}]
    /\ \A c \in Client : Online(c) => attachment[connection[c]] # Closed /\ connection[c][1] = c
    /\ able \in [Client -> BOOLEAN] /\ late \subseteq Socket
    /\ knows \in [Client -> [me: BOOLEAN, current: BOOLEAN]]

\* Once everything a connected device sent is handled, the room holds its socket
\* eligible exactly if the device finds that it can push: whatever older sockets,
\* elections and other devices did.  Not so if, since the device last said what it
\* finds to an idle socket, a check of that socket ended out of turn.
EligibilityAgrees ==
    \A c \in Client :
        LET l == connection[c]
        IN  Online(c) /\ wire[l] = << >> /\ checking[l] = << >> /\ l \notin late =>
                attachment[l] = Opinion(able[c])

\* Whoever believes in the present generation of the lease, or quotes it to the
\* room on any of its sockets, is its holder: an older leader can neither renew nor
\* release what a newer one was granted.
OnlyTheHolderIsCurrent ==
    leader # NoClient =>
        /\ \A c \in Client \ {leader} : ~(knows[c].me /\ knows[c].current)
        /\ \A l \in Socket : l[1] # leader => ~Quotes(checking[l]) /\ ~Quotes(wire[l])

\* While a connected device can push, and no check of its socket ends out of turn,
\* some device gets to save the session: the room elects a successor for a leader
\* that left, stepped aside or stopped renewing, the successor learns of it, and a
\* half-open socket that still counts as eligible does not keep the lease for ever.
HeardDeviceLeads ==
    \A c \in Client :
        Online(c) /\ able[c] ~>
            \/ ~Online(c) \/ ~able[c] \/ connection[c] \in late
            \/ \E d \in Client : Leading(d)

\* The same of every connected device that can push, however its checks end.
AbleDeviceLeads ==
    \A c \in Client :
        Online(c) /\ able[c] ~> ~Online(c) \/ ~able[c] \/ \E d \in Client : Leading(d)
=============================================================================
