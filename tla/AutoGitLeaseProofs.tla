-------------------------- MODULE AutoGitLeaseProofs --------------------------
(***************************************************************************)
(* Proofs about AutoGitLease, for any devices, any number of sockets and of*)
(* messages in flight, and any number of checks at once, ending in any     *)
(* order: there is one holder of the present generation and nobody else    *)
(* speaks or believes in its name; and room and devices agree on who is    *)
(* eligible unless checks of the device's socket ended out of turn.        *)
(***************************************************************************)
EXTENDS AutoGitLease, TLAPS, SequenceTheorems, WellFoundedInduction

LeaseInv == LeaseTypeOK /\ OnlyTheHolderIsCurrent

\* An election finds the eligible client with the lowest id (pickCandidate).
LEMMA LowestIsMember ==
    ASSUME NEW S \in SUBSET Client, S # {}
    PROVE  Lowest(S) \in S
<1>1. PICK c \in S : \A d \in S : ~(<<d, c>> \in OpToRel(<, Nat))
  BY ClientsOrdered, WFMin, NatLessThanWellFounded
<1>2. \A d \in S : c \in Nat /\ d \in Nat
  BY ClientsOrdered
<1>3. ASSUME NEW d \in S PROVE c <= d
  <2>1. ~(d < c)
    BY <1>1, <1>2 DEF OpToRel
  <2>2. c \in Nat /\ d \in Nat
    BY <1>2
  <2> QED
    BY <2>1, <2>2, SMT
<1> QED
  BY <1>3 DEF Lowest

Checked == {m \in MessageType : m.read # Closed}
View == [me: BOOLEAN, current: BOOLEAN]

\* The parts of the type invariant, for use where the state stays visible.
LEMMA LeaseTypesUnfold ==
    ASSUME LeaseInv
    PROVE  /\ leader \in Client \cup {NoClient} /\ running \in BOOLEAN
           /\ running => leader # NoClient
           /\ attachment \in [Socket -> {Closed, Yes, No}]
           /\ checking \in [Socket -> Seq(Checked)]
           /\ \A l \in Socket : attachment[l] = Closed => checking[l] = << >>
           /\ wire \in [Socket -> Seq(MessageType)]
           /\ connection \in [Client -> Socket \cup {NoSocket}]
           /\ \A c \in Client : Online(c) => /\ attachment[connection[c]] # Closed
                                             /\ connection[c][1] = c
           /\ able \in [Client -> BOOLEAN] /\ late \subseteq Socket
           /\ knows \in [Client -> View]
  BY DEF LeaseInv, LeaseTypeOK, Checked, View

\* The states of an attachment differ, and an opinion is one of them.
LEMMA ClosedIsNoOpinion == /\ Closed \notin {Yes, No} /\ Yes # No
                           /\ \A b \in BOOLEAN : Opinion(b) \in {Yes, No}
  BY DEF Closed, Yes, No, Opinion

\* A socket is named by its client.
LEMMA OwnerIsClient ==
    ASSUME NEW l \in Socket
    PROVE  l[1] \in Client /\ l[1] # NoClient /\ l # NoSocket
  BY SocketsNamed, ClientsOrdered

(***************************************************************************)
(* Sequences of messages                                                   *)
(***************************************************************************)
\* The entries that are left when one is taken out, in their order.
LEMMA Removed ==
    ASSUME NEW S, NEW q \in Seq(S), NEW i \in DOMAIN q
    PROVE  /\ RemoveAt(q, i) \in Seq(S) /\ Len(RemoveAt(q, i)) = Len(q) - 1
           /\ \A j \in 1..(Len(q) - 1) :
                RemoveAt(q, i)[j] = IF j < i THEN q[j] ELSE q[j + 1]
<1> DEFINE a == SubSeq(q, 1, i - 1)
           b == SubSeq(q, i + 1, Len(q))
<1>1. Len(q) \in Nat /\ i \in 1..Len(q) /\ DOMAIN q = 1..Len(q)
  OBVIOUS
<1>2. a \in Seq(S) /\ Len(a) = i - 1 /\ \A j \in 1..(i - 1) : a[j] = q[j]
  BY <1>1
<1>3. b \in Seq(S) /\ Len(b) = Len(q) - i /\ \A j \in 1..(Len(q) - i) : b[j] = q[i + j]
  BY <1>1
<1>4. RemoveAt(q, i) = a \o b
  BY DEF RemoveAt
<1> HIDE DEF a, b
<1>5. a \o b \in Seq(S) /\ Len(a \o b) = Len(q) - 1
  <2>1. a \o b \in Seq(S) /\ Len(a \o b) = Len(a) + Len(b)
    BY <1>2, <1>3, ConcatProperties
  <2>2. (i - 1) + (Len(q) - i) = Len(q) - 1
    BY <1>1
  <2> QED
    BY <1>2, <1>3, <2>1, <2>2
<1>6. ASSUME NEW j \in 1..(Len(q) - 1)
      PROVE  (a \o b)[j] = IF j < i THEN q[j] ELSE q[j + 1]
  <2>1. j \in 1..(Len(a) + Len(b))
    BY <1>1, <1>2, <1>3
  <2>2. (a \o b)[j] = IF j <= Len(a) THEN a[j] ELSE b[j - Len(a)]
    BY <1>2, <1>3, <2>1, ConcatProperties
  <2>3. CASE j < i
    BY <1>1, <1>2, <2>2, <2>3
  <2>4. CASE ~(j < i)
    <3>1. /\ ~(j <= Len(a)) /\ j - Len(a) \in 1..(Len(q) - i)
          /\ i + (j - Len(a)) = j + 1
      BY <1>1, <1>2, <2>4
    <3> QED
      BY <1>3, <2>2, <2>4, <3>1
  <2> QED
    BY <2>3, <2>4
<1> QED
  BY <1>4, <1>5, <1>6

\* So nothing is left that was not there.
LEMMA RemovedWasThere ==
    ASSUME NEW S, NEW q \in Seq(S), NEW i \in DOMAIN q, NEW j \in DOMAIN RemoveAt(q, i)
    PROVE  \E k \in DOMAIN q : RemoveAt(q, i)[j] = q[k]
<1>1. /\ Len(q) \in Nat /\ DOMAIN q = 1..Len(q)
      /\ DOMAIN RemoveAt(q, i) = 1..(Len(q) - 1)
  BY Removed
<1>2. RemoveAt(q, i)[j] = IF j < i THEN q[j] ELSE q[j + 1]
  BY <1>1, Removed
<1> QED
  BY <1>1, <1>2

\* What is checked are messages; messages that are not of a closed socket may be.
LEMMA CheckedAreMessages ==
    /\ \A q \in Seq(Checked) : q \in Seq(MessageType) /\ \A i \in DOMAIN q : q[i].read # Closed
    /\ \A q \in Seq(MessageType) : (\A i \in DOMAIN q : q[i].read # Closed) => q \in Seq(Checked)
<1>1. ASSUME NEW q \in Seq(Checked)
      PROVE  q \in Seq(MessageType) /\ \A i \in DOMAIN q : q[i].read # Closed
  <2>1. \A i \in DOMAIN q : q[i] \in Checked
    OBVIOUS
  <2>2. \A m \in Checked : m \in MessageType /\ m.read # Closed
    BY DEF Checked
  <2>3. q \in Seq(MessageType)
    BY <2>2, SeqMonotonic
  <2> QED
    BY <2>1, <2>2, <2>3
<1>2. ASSUME NEW q \in Seq(MessageType), \A i \in DOMAIN q : q[i].read # Closed
      PROVE  q \in Seq(Checked)
  <2>1. Len(q) \in Nat /\ DOMAIN q = 1..Len(q) /\ q = [i \in 1..Len(q) |-> q[i]]
    OBVIOUS
  <2>2. \A i \in 1..Len(q) : q[i] \in MessageType
    OBVIOUS
  <2>3. \A i \in 1..Len(q) : q[i] \in Checked
    BY <1>2, <2>1, <2>2 DEF Checked
  <2> QED
    BY <2>1, <2>3, IsASeq
<1> QED
  BY <1>1, <1>2

\* A message or a view of an older generation differs in nothing else.
LEMMA OutdatedMessage ==
    ASSUME NEW m \in MessageType
    PROVE  LET o == [m EXCEPT !.current = FALSE]
           IN  /\ o \in MessageType /\ ~o.current
               /\ o.kind = m.kind /\ o.value = m.value /\ o.read = m.read
  BY DEF MessageType

LEMMA OutdatedView ==
    ASSUME NEW v \in View
    PROVE  LET o == [v EXCEPT !.current = FALSE] IN o \in View /\ ~o.current
  BY DEF View

\* Messages r say the same as messages q, of the same or of an older generation.
SameWords(q, r) ==
    /\ r \in Seq(MessageType) /\ Len(r) = Len(q) /\ DOMAIN r = DOMAIN q
    /\ \A i \in DOMAIN q : /\ r[i].kind = q[i].kind /\ r[i].value = q[i].value
                           /\ r[i].read = q[i].read /\ (r[i].current => q[i].current)

LEMMA OutdatedMessages ==
    ASSUME NEW q \in Seq(MessageType)
    PROVE  LET r == [i \in DOMAIN q |-> [q[i] EXCEPT !.current = FALSE]]
           IN  SameWords(q, r) /\ \A i \in DOMAIN r : ~r[i].current
<1> DEFINE old(m) == [m EXCEPT !.current = FALSE]
           r == [i \in DOMAIN q |-> old(q[i])]
<1>1. \A m \in MessageType : /\ old(m) \in MessageType /\ ~old(m).current
                             /\ old(m).kind = m.kind /\ old(m).value = m.value
                             /\ old(m).read = m.read
  BY OutdatedMessage
<1> HIDE DEF old
<1>2. Len(q) \in Nat /\ DOMAIN q = 1..Len(q) /\ \A i \in 1..Len(q) : q[i] \in MessageType
  OBVIOUS
<1>3. \A i \in DOMAIN q : r[i] = old(q[i]) /\ r[i] \in MessageType
  BY <1>1, <1>2
<1>4. r \in Seq(MessageType) /\ Len(r) = Len(q) /\ DOMAIN r = DOMAIN q
  <2>1. r \in [1..Len(q) -> MessageType] /\ DOMAIN r = 1..Len(q)
    BY <1>2, <1>3
  <2>2. r \in Seq(MessageType)
    BY <1>2, <2>1
  <2> QED
    BY <1>2, <2>1, <2>2
<1> HIDE DEF r
<1>5. SameWords(q, r) /\ \A i \in DOMAIN r : ~r[i].current
  BY <1>1, <1>2, <1>3, <1>4 DEF SameWords
<1> QED
  BY <1>5 DEF r, old

LEMMA SameWordsAsBefore == \A q \in Seq(MessageType) : SameWords(q, q)
  BY DEF SameWords

\* Checked messages of another generation are still checked ones.
LEMMA SameWordsChecked ==
    ASSUME NEW q \in Seq(Checked), NEW r, SameWords(q, r)
    PROVE  r \in Seq(Checked) /\ (q = << >> => r = << >>)
<1>1. r \in Seq(MessageType) /\ \A i \in DOMAIN r : r[i].read # Closed
  BY CheckedAreMessages DEF SameWords
<1>2. r \in Seq(Checked)
  BY <1>1, CheckedAreMessages
<1>3. q = << >> => r = << >>
  BY <1>1 DEF SameWords
<1> QED
  BY <1>2, <1>3

(***************************************************************************)
(* Elections                                                               *)
(***************************************************************************)
\* A new generation outdates every message and every view.
LEMMA NewGenerationOutdates ==
    ASSUME LeaseInv, NEW rest \in [Socket -> Seq(Checked)], NewGeneration(rest)
    PROVE  /\ checking' \in [Socket -> Seq(Checked)] /\ wire' \in [Socket -> Seq(MessageType)]
           /\ \A l \in Socket :
                /\ SameWords(rest[l], checking'[l]) /\ SameWords(wire[l], wire'[l])
                /\ rest[l] = << >> => checking'[l] = << >>
                /\ ~Quotes(checking'[l]) /\ ~Quotes(wire'[l])
           /\ knows' \in [Client -> View] /\ \A c \in Client : ~knows'[c].current
<1> DEFINE outdated(q) == [i \in DOMAIN q |-> [q[i] EXCEPT !.current = FALSE]]
<1>1. /\ checking' = [l \in Socket |-> outdated(rest[l])]
      /\ wire' = [l \in Socket |-> outdated(wire[l])]
      /\ knows' = [c \in Client |-> [knows[c] EXCEPT !.current = FALSE]]
  BY DEF NewGeneration
<1>2. \A q \in Seq(MessageType) :
        SameWords(q, outdated(q)) /\ \A i \in DOMAIN outdated(q) : ~outdated(q)[i].current
  BY OutdatedMessages
<1> HIDE DEF outdated
<1>3. ASSUME NEW l \in Socket
      PROVE  /\ SameWords(rest[l], checking'[l]) /\ SameWords(wire[l], wire'[l])
             /\ rest[l] = << >> => checking'[l] = << >>
             /\ ~Quotes(checking'[l]) /\ ~Quotes(wire'[l])
             /\ checking'[l] \in Seq(Checked) /\ wire'[l] \in Seq(MessageType)
  <2>1. rest[l] \in Seq(Checked) /\ rest[l] \in Seq(MessageType) /\ wire[l] \in Seq(MessageType)
    BY CheckedAreMessages, LeaseTypesUnfold
  <2>2. checking'[l] = outdated(rest[l]) /\ wire'[l] = outdated(wire[l])
    BY <1>1
  <2>3. SameWords(rest[l], checking'[l]) /\ SameWords(wire[l], wire'[l])
    BY <1>2, <2>1, <2>2
  <2>4. ~Quotes(checking'[l]) /\ ~Quotes(wire'[l])
    BY <1>2, <2>1, <2>2 DEF Quotes
  <2>5. wire'[l] \in Seq(MessageType)
    BY <2>3 DEF SameWords
  <2> QED
    BY <2>1, <2>3, <2>4, <2>5, SameWordsChecked
<1>4. checking' \in [Socket -> Seq(Checked)] /\ wire' \in [Socket -> Seq(MessageType)]
  BY <1>1, <1>3
<1>5. knows' \in [Client -> View] /\ \A c \in Client : ~knows'[c].current
  BY <1>1, OutdatedView, LeaseTypesUnfold
<1> QED
  BY <1>3, <1>4, <1>5

\* What checks rest are left when a handler is done: some of those there were.
LeftOf(rest) ==
    /\ rest \in [Socket -> Seq(Checked)]
    /\ \A l \in Socket : \A i \in DOMAIN rest[l] :
         \E j \in DOMAIN checking[l] : rest[l][i] = checking[l][j]

\* The attachments att a handler leaves: no socket opens or closes by it.
Answered(att) ==
    /\ att \in [Socket -> {Closed, Yes, No}]
    /\ \A l \in Socket : att[l] = Closed <=> attachment[l] = Closed

LEMMA LeftQuotesNoMore ==
    ASSUME NEW rest, LeftOf(rest), NEW l \in Socket, ~Quotes(checking[l])
    PROVE  ~Quotes(rest[l])
  BY DEF LeftOf, Quotes

\* An election keeps the invariant, whether the holder stays, a successor gets
\* the next generation or nobody is eligible.
LEMMA ElectKeepsInv ==
    ASSUME LeaseInv, NEW att, Answered(att), NEW h \in {leader, NoClient},
           NEW runs \in BOOLEAN, NEW rest, LeftOf(rest),
           \A l \in Socket : checking[l] = << >> => rest[l] = << >>,
           Elect(att, h, runs, rest), UNCHANGED <<connection, able>>, late' \subseteq Socket
    PROVE  LeaseInv'
<1> USE LeaseTypesUnfold
<1>1. /\ attachment' = att /\ attachment' \in [Socket -> {Closed, Yes, No}]
      /\ connection' \in [Client -> Socket \cup {NoSocket}] /\ able' \in [Client -> BOOLEAN]
      /\ \A c \in Client : Online(c)' => /\ attachment'[connection'[c]] # Closed
                                         /\ connection'[c][1] = c
      /\ rest \in [Socket -> Seq(Checked)]
      /\ \A l \in Socket : attachment'[l] = Closed => rest[l] = << >>
  <2>1. attachment' = att
    BY DEF Elect
  <2>2. ASSUME NEW c \in Client, Online(c)'
        PROVE  attachment'[connection'[c]] # Closed /\ connection'[c][1] = c
    <3>1. Online(c) /\ connection[c] \in Socket
      BY <2>2 DEF Online
    <3> QED
      BY <2>1, <3>1 DEF Answered
  <2> QED
    BY <2>1, <2>2 DEF Answered, LeftOf
<1>2. CASE /\ h # NoClient /\ leader' = h /\ running' = TRUE
           /\ checking' = rest /\ UNCHANGED <<wire, knows>>
  <2>1. leader' = leader
    BY <1>2
  <2>2. LeaseTypeOK'
    BY <1>1, <1>2, <2>1 DEF LeaseTypeOK, Checked, View
  <2>3. OnlyTheHolderIsCurrent'
    BY <1>2, <2>1, LeftQuotesNoMore DEF LeaseInv, OnlyTheHolderIsCurrent
  <2> QED
    BY <2>2, <2>3 DEF LeaseInv
<1>3. CASE /\ Eligible(att) # {} /\ leader' = Lowest(Eligible(att)) /\ running' = TRUE
           /\ NewGeneration(rest)
  <2>1. leader' \in Client /\ leader' # NoClient
    <3>1. Eligible(att) \in SUBSET Client
      BY OwnerIsClient DEF Eligible
    <3>2. Lowest(Eligible(att)) \in Eligible(att)
      BY <1>3, <3>1, LowestIsMember
    <3> QED
      BY <1>3, <3>1, <3>2, ClientsOrdered
  <2>2. /\ checking' \in [Socket -> Seq(Checked)] /\ wire' \in [Socket -> Seq(MessageType)]
        /\ \A l \in Socket : /\ rest[l] = << >> => checking'[l] = << >>
                             /\ ~Quotes(checking'[l]) /\ ~Quotes(wire'[l])
        /\ knows' \in [Client -> View] /\ \A c \in Client : ~knows'[c].current
    BY <1>1, <1>3, NewGenerationOutdates
  <2>3. LeaseTypeOK'
    BY <1>1, <1>3, <2>1, <2>2 DEF LeaseTypeOK, Checked, View
  <2>4. OnlyTheHolderIsCurrent'
    BY <2>2 DEF OnlyTheHolderIsCurrent
  <2> QED
    BY <2>3, <2>4 DEF LeaseInv
<1>4. CASE /\ leader' = NoClient /\ running' = FALSE
           /\ knows' = [c \in Client |-> [knows[c] EXCEPT !.current = FALSE]]
           /\ checking' = rest /\ UNCHANGED wire
  <2>1. knows' \in [Client -> View]
    BY <1>4, OutdatedView
  <2>2. LeaseTypeOK'
    BY <1>1, <1>4, <2>1 DEF LeaseTypeOK, Checked, View
  <2>3. OnlyTheHolderIsCurrent'
    BY <1>4 DEF OnlyTheHolderIsCurrent
  <2> QED
    BY <2>2, <2>3 DEF LeaseInv
<1> QED
  BY <1>2, <1>3, <1>4 DEF Elect

(***************************************************************************)
(* Room                                                                    *)
(***************************************************************************)
\* What is left when a check is handled, and the attachment it was given.
LEMMA HandledCheck ==
    ASSUME LeaseInv, NEW l \in Socket, NEW i \in DOMAIN checking[l]
    PROVE  /\ checking[l][i] \in MessageType /\ checking[l][i].read \in {Yes, No}
           /\ checking[l][i].value \in {Yes, No}
           /\ LeftOf(Without(l, i))
           /\ \A s \in Socket : checking[s] = << >> => Without(l, i)[s] = << >>
           /\ \A v \in {Yes, No} : Answered([attachment EXCEPT ![l] = v])
<1> USE LeaseTypesUnfold
<1>1. checking[l] \in Seq(Checked) /\ checking[l] # << >> /\ attachment[l] # Closed
  OBVIOUS
<1>2. checking[l][i] \in MessageType /\ checking[l][i].read \in {Yes, No}
      /\ checking[l][i].value \in {Yes, No}
  <2>1. checking[l][i] \in Checked
    BY <1>1
  <2> QED
    BY <2>1 DEF Checked, MessageType
<1>3. Without(l, i) \in [Socket -> Seq(Checked)]
  BY <1>1, Removed DEF Without
<1>4. LeftOf(Without(l, i))
  <2> SUFFICES ASSUME NEW s \in Socket, NEW j \in DOMAIN Without(l, i)[s]
               PROVE  \E k \in DOMAIN checking[s] : Without(l, i)[s][j] = checking[s][k]
    BY <1>3 DEF LeftOf
  <2>1. CASE s = l
    BY <1>1, <2>1, RemovedWasThere DEF Without
  <2>2. CASE s # l
    BY <2>2 DEF Without
  <2> QED
    BY <2>1, <2>2
<1>5. \A s \in Socket : checking[s] = << >> => Without(l, i)[s] = << >>
  BY <1>1 DEF Without
<1>6. \A v \in {Yes, No} : Answered([attachment EXCEPT ![l] = v])
  BY <1>1, ClosedIsNoOpinion DEF Answered
<1> QED
  BY <1>2, <1>4, <1>5, <1>6

\* A handled message that holds no election.
LEMMA PlainHandleKeepsInv ==
    ASSUME LeaseInv, NEW l \in Socket, NEW i \in DOMAIN checking[l],
           attachment' = Restored(l, i), checking' = Without(l, i),
           UNCHANGED <<leader, running, wire, knows, connection, able>>, late' \subseteq Socket
    PROVE  LeaseInv'
<1> USE LeaseTypesUnfold
<1>1. /\ Answered(attachment') /\ LeftOf(checking')
      /\ \A s \in Socket : checking[s] = << >> => checking'[s] = << >>
  BY HandledCheck DEF Restored
<1>2. LeaseTypeOK'
  <2>1. /\ attachment' \in [Socket -> {Closed, Yes, No}] /\ checking' \in [Socket -> Seq(Checked)]
        /\ \A s \in Socket : attachment'[s] = Closed => checking'[s] = << >>
    BY <1>1 DEF Answered, LeftOf
  <2>2. \A c \in Client : Online(c)' => /\ attachment'[connection'[c]] # Closed
                                        /\ connection'[c][1] = c
    <3> SUFFICES ASSUME NEW c \in Client, Online(c)'
                 PROVE  attachment'[connection'[c]] # Closed /\ connection'[c][1] = c
      OBVIOUS
    <3>1. Online(c) /\ connection[c] \in Socket
      BY DEF Online
    <3> QED
      BY <1>1, <3>1 DEF Answered
  <2> QED
    BY <2>1, <2>2 DEF LeaseTypeOK, Checked, View
<1>3. OnlyTheHolderIsCurrent'
  BY <1>1, LeftQuotesNoMore DEF LeaseInv, OnlyTheHolderIsCurrent
<1> QED
  BY <1>2, <1>3 DEF LeaseInv

\* Whatever message the room handles, the invariant is kept.
LEMMA HandleKeepsInv ==
    ASSUME LeaseInv, NEW l \in Socket, NEW kind \in Kinds, Handle(l, kind)
    PROVE  LeaseInv'
<1>1. PICK i \in DOMAIN checking[l] :
        /\ \/ HandleEligibility(l, i) \/ HandleRenew(l, i)
           \/ HandleRelease(l, i) \/ HandleOther(l, i)
        /\ late' = IF OutOfTurn(l, i) THEN late \cup {l} ELSE late
  BY DEF Handle
<1>2. UNCHANGED <<connection, able>> /\ running \in BOOLEAN /\ late' \subseteq Socket
  BY <1>1, LeaseTypesUnfold DEF Handle
<1> DEFINE m == checking[l][i]
<1>3. /\ m.read \in {Yes, No} /\ m.value \in {Yes, No} /\ LeftOf(Without(l, i))
      /\ \A s \in Socket : checking[s] = << >> => Without(l, i)[s] = << >>
      /\ \A v \in {Yes, No} : Answered([attachment EXCEPT ![l] = v])
  BY HandledCheck
<1>4. CASE HandleEligibility(l, i)
  <2>1. Elect([attachment EXCEPT ![l] = m.value], Kept(l[1], m), running, Without(l, i))
    BY <1>4 DEF HandleEligibility
  <2>2. Kept(l[1], m) \in {leader, NoClient}
    BY DEF Kept
  <2> QED
    BY <1>2, <1>3, <2>1, <2>2, ElectKeepsInv
<1>5. CASE HandleRenew(l, i)
  <2>1. Elect([attachment EXCEPT ![l] = m.read], leader, running, Without(l, i))
    BY <1>5 DEF HandleRenew, Restored
  <2> QED
    BY <1>2, <1>3, <2>1, ElectKeepsInv
<1>6. CASE HandleRelease(l, i)
  <2>1. CASE leader = l[1] /\ m.current
    <3>1. Elect([attachment EXCEPT ![l] = No], NoClient, FALSE, Without(l, i))
      BY <1>6, <2>1 DEF HandleRelease
    <3> QED
      BY <1>2, <1>3, <3>1, ElectKeepsInv
  <2>2. CASE ~(leader = l[1] /\ m.current)
    BY <1>2, <1>6, <2>2, PlainHandleKeepsInv DEF HandleRelease
  <2> QED
    BY <2>1, <2>2
<1>7. CASE HandleOther(l, i)
  BY <1>2, <1>7, PlainHandleKeepsInv DEF HandleOther
<1> QED
  BY <1>1, <1>4, <1>5, <1>6, <1>7

\* The first message on the wire of a socket, and what remains behind it.
LEMMA FirstOfWire ==
    ASSUME LeaseInv, NEW l \in Socket, Arrive(l)
    PROVE  /\ wire[l] \in Seq(MessageType) /\ wire[l] # << >>
           /\ Head(wire[l]) \in MessageType
           /\ Head(wire[l]) = wire[l][1] /\ 1 \in DOMAIN wire[l]
           /\ Tail(wire[l]) \in Seq(MessageType) /\ Len(Tail(wire[l])) = Len(wire[l]) - 1
           /\ \A i \in DOMAIN Tail(wire[l]) : i + 1 \in DOMAIN wire[l]
                                              /\ Tail(wire[l])[i] = wire[l][i + 1]
<1>1. wire[l] \in Seq(MessageType) /\ wire[l] # << >>
  BY LeaseTypesUnfold DEF Arrive
<1> QED
  BY <1>1

\* A message that arrives is checked as it was sent, behind those that came before.
LEMMA ArrivedMessage ==
    ASSUME LeaseInv, NEW l \in Socket, Arrive(l)
    PROVE  LET m == [Head(wire[l]) EXCEPT !.read = attachment[l]]
           IN  /\ m \in Checked /\ m \in MessageType
               /\ m.kind = Head(wire[l]).kind /\ m.value = Head(wire[l]).value
               /\ m.current = Head(wire[l]).current
               /\ checking' = [checking EXCEPT ![l] = Append(checking[l], m)]
               /\ Append(checking[l], m) \in Seq(Checked)
               /\ Len(Append(checking[l], m)) = Len(checking[l]) + 1
               /\ \A i \in 1..Len(checking[l]) : Append(checking[l], m)[i] = checking[l][i]
               /\ Append(checking[l], m)[Len(checking[l]) + 1] = m
<1> DEFINE first == Head(wire[l])
           m == [first EXCEPT !.read = attachment[l]]
<1>1. attachment[l] \in {Closed, Yes, No} /\ attachment[l] # Closed /\ checking[l] \in Seq(Checked)
  BY LeaseTypesUnfold DEF Arrive
<1>2. first \in MessageType
  BY FirstOfWire
<1>3. checking' = [checking EXCEPT ![l] = Append(checking[l], m)]
  BY DEF Arrive
<1> HIDE DEF first
<1>4. /\ m \in Checked /\ m \in MessageType /\ m.kind = first.kind
      /\ m.value = first.value /\ m.current = first.current
  BY <1>1, <1>2 DEF Checked, MessageType
<1> HIDE DEF m
<1>5. /\ Append(checking[l], m) \in Seq(Checked)
      /\ Len(Append(checking[l], m)) = Len(checking[l]) + 1
      /\ \A i \in 1..Len(checking[l]) : Append(checking[l], m)[i] = checking[l][i]
      /\ Append(checking[l], m)[Len(checking[l]) + 1] = m
  BY <1>1, <1>4, AppendProperties
<1> QED
  BY <1>3, <1>4, <1>5 DEF m, first

LEMMA ArriveKeepsInv ==
    ASSUME LeaseInv, NEW l \in Socket, Arrive(l)
    PROVE  LeaseInv'
<1> DEFINE first == Head(wire[l])
           m == [first EXCEPT !.read = attachment[l]]
           more == Append(checking[l], m)
<1> USE LeaseTypesUnfold
<1>1. /\ attachment[l] # Closed /\ wire[l] \in Seq(MessageType)
      /\ wire' = [wire EXCEPT ![l] = Tail(wire[l])]
      /\ UNCHANGED <<leader, running, attachment, connection, able, knows>>
      /\ late' \subseteq Socket
  BY DEF Arrive, roomVars, deviceVars
<1>2. /\ checking' = [checking EXCEPT ![l] = more] /\ more \in Seq(Checked)
      /\ Len(more) = Len(checking[l]) + 1 /\ more[Len(checking[l]) + 1] = m
      /\ \A i \in 1..Len(checking[l]) : more[i] = checking[l][i]
      /\ m.kind = first.kind /\ m.current = first.current
  BY ArrivedMessage
<1>3. /\ first = wire[l][1] /\ 1 \in DOMAIN wire[l] /\ Tail(wire[l]) \in Seq(MessageType)
      /\ \A i \in DOMAIN Tail(wire[l]) : i + 1 \in DOMAIN wire[l]
                                         /\ Tail(wire[l])[i] = wire[l][i + 1]
  BY FirstOfWire
<1> HIDE DEF first, m, more
<1>4. LeaseTypeOK'
  <2>1. checking' \in [Socket -> Seq(Checked)] /\ wire' \in [Socket -> Seq(MessageType)]
    BY <1>1, <1>2, <1>3
  <2>2. \A s \in Socket : attachment'[s] = Closed => checking'[s] = << >>
    BY <1>1, <1>2
  <2>3. \A c \in Client : Online(c)' => /\ attachment'[connection'[c]] # Closed
                                        /\ connection'[c][1] = c
    BY <1>1 DEF Online
  <2> QED
    BY <1>1, <2>1, <2>2, <2>3 DEF LeaseTypeOK, Checked, View
<1>5. OnlyTheHolderIsCurrent'
  <2> SUFFICES ASSUME leader # NoClient, NEW s \in Socket, s[1] # leader
               PROVE  ~Quotes(checking'[s]) /\ ~Quotes(wire'[s])
    BY <1>1 DEF LeaseInv, OnlyTheHolderIsCurrent
  <2>1. ~Quotes(checking[s]) /\ ~Quotes(wire[s])
    BY DEF LeaseInv, OnlyTheHolderIsCurrent
  <2>2. CASE s # l
    BY <1>1, <1>2, <2>1, <2>2
  <2>3. CASE s = l
    <3>1. ~(m.kind \in {"renew", "release"} /\ m.current)
      BY <1>2, <1>3, <2>1, <2>3 DEF Quotes
    <3>2. checking'[s] = more /\ wire'[s] = Tail(wire[l])
      BY <1>1, <1>2, <2>3
    <3>3. /\ DOMAIN more = 1..(Len(checking[l]) + 1) /\ Len(checking[l]) \in Nat
          /\ DOMAIN checking[l] = 1..Len(checking[l])
      <4>1. Len(checking[l]) \in Nat /\ DOMAIN checking[l] = 1..Len(checking[l])
        OBVIOUS
      <4> QED
        BY <1>2, <4>1
    <3>4. ~Quotes(more)
      <4> SUFFICES ASSUME NEW i \in DOMAIN more
                   PROVE  ~(more[i].kind \in {"renew", "release"} /\ more[i].current)
        BY DEF Quotes
      <4>1. CASE i \in 1..Len(checking[l])
        BY <1>2, <2>1, <2>3, <3>3, <4>1 DEF Quotes
      <4>2. CASE i = Len(checking[l]) + 1
        BY <1>2, <3>1, <4>2
      <4> QED
        BY <3>3, <4>1, <4>2
    <3>5. ~Quotes(Tail(wire[l]))
      BY <1>3, <2>1, <2>3 DEF Quotes
    <3> QED
      BY <3>2, <3>4, <3>5
  <2> QED
    BY <2>2, <2>3
<1> QED
  BY <1>4, <1>5 DEF LeaseInv

\* Time and the alarm: a lease that ran out is given to a successor.
LEMMA TimeKeepsInv == LeaseInv /\ (Lapse \/ Alarm) => LeaseInv'
<1> SUFFICES ASSUME LeaseInv, Lapse \/ Alarm PROVE LeaseInv'
  OBVIOUS
<1> USE LeaseTypesUnfold
<1>1. CASE Lapse
  <2>1. LeaseTypeOK'
    BY <1>1 DEF Lapse, deviceVars, LeaseTypeOK, Checked, View, Online
  <2>2. OnlyTheHolderIsCurrent'
    BY <1>1 DEF Lapse, deviceVars, LeaseInv, OnlyTheHolderIsCurrent
  <2> QED
    BY <2>1, <2>2 DEF LeaseInv
<1>2. CASE Alarm
  <2>1. Elect(attachment, leader, FALSE, checking) /\ UNCHANGED <<connection, able, late>>
    BY <1>2 DEF Alarm
  <2>2. Answered(attachment) /\ LeftOf(checking)
    BY DEF Answered, LeftOf
  <2> QED
    BY <2>1, <2>2, ElectKeepsInv
<1> QED
  BY <1>1, <1>2

(***************************************************************************)
(* Devices                                                                 *)
(***************************************************************************)
\* A message a device makes has the type of messages and quotes nothing.
LEMMA MadeMessage ==
    ASSUME NEW kind \in Kinds, NEW value \in {Yes, No}
    PROVE  /\ Message(kind, value) \in MessageType /\ Message(kind, value).kind = kind
           /\ Message(kind, value).value = value /\ ~Message(kind, value).current
  BY DEF Message, MessageType

\* One that quotes what the device knows of the generation has the type too.
LEMMA QuotingMessage ==
    ASSUME NEW kind \in Kinds, NEW value \in {Yes, No}, NEW b \in BOOLEAN
    PROVE  /\ [Message(kind, value) EXCEPT !.current = b] \in MessageType
           /\ [Message(kind, value) EXCEPT !.current = b].kind = kind
           /\ [Message(kind, value) EXCEPT !.current = b].current = b
  BY DEF Message, MessageType

\* The socket of a connected device is its own, and open.
LEMMA ConnectedSocket ==
    ASSUME LeaseInv, NEW c \in Client, Online(c)
    PROVE  /\ connection[c] \in Socket /\ connection[c][1] = c
           /\ attachment[connection[c]] # Closed
  BY LeaseTypesUnfold DEF Online

\* The sockets of devices stay theirs when no socket closes and devices only go.
LEMMA ConnectionsStand ==
    ASSUME LeaseInv, NEW c \in Client, UNCHANGED attachment,
           connection' = connection \/ connection' = [connection EXCEPT ![c] = NoSocket]
    PROVE  /\ connection' \in [Client -> Socket \cup {NoSocket}]
           /\ \A d \in Client : Online(d)' => /\ attachment'[connection'[d]] # Closed
                                              /\ connection'[d][1] = d
<1> USE LeaseTypesUnfold
<1>1. connection' \in [Client -> Socket \cup {NoSocket}]
  OBVIOUS
<1>2. ASSUME NEW d \in Client, Online(d)'
      PROVE  attachment'[connection'[d]] # Closed /\ connection'[d][1] = d
  <2>1. connection'[d] = connection[d] /\ Online(d)
    BY <1>2 DEF Online
  <2> QED
    BY <2>1, ConnectedSocket
<1> QED
  BY <1>1, <1>2

\* What device c may believe, and have on a wire that carried q: of the present
\* generation only if it holds the lease.
Honest(c, view) == view.me /\ view.current => leader = c \/ leader = NoClient
HonestWords(c, q, sent) ==
    \A i \in DOMAIN sent :
        \/ i \in DOMAIN q /\ sent[i] = q[i]
        \/ ~(sent[i].kind \in {"renew", "release"} /\ sent[i].current)
        \/ leader = c \/ leader = NoClient

\* A device that is honest in its view and on a socket of its own keeps the holder
\* the only one who is current.
LEMMA HonestDevice ==
    ASSUME LeaseInv, NEW c \in Client, NEW l \in Socket, l[1] = c, UNCHANGED <<leader, checking>>,
           NEW view \in View, knows' = [knows EXCEPT ![c] = view], Honest(c, view),
           NEW sent \in Seq(MessageType), wire' = [wire EXCEPT ![l] = sent],
           HonestWords(c, wire[l], sent)
    PROVE  OnlyTheHolderIsCurrent'
<1> USE LeaseTypesUnfold
<1> SUFFICES ASSUME leader # NoClient
             PROVE  /\ \A d \in Client \ {leader} : ~(knows'[d].me /\ knows'[d].current)
                    /\ \A s \in Socket : s[1] # leader =>
                         ~Quotes(checking[s]) /\ ~Quotes(wire'[s])
  BY DEF OnlyTheHolderIsCurrent
<1>1. /\ \A d \in Client \ {leader} : ~(knows[d].me /\ knows[d].current)
      /\ \A s \in Socket : s[1] # leader => ~Quotes(checking[s]) /\ ~Quotes(wire[s])
  BY DEF LeaseInv, OnlyTheHolderIsCurrent
<1>2. ASSUME NEW d \in Client \ {leader} PROVE ~(knows'[d].me /\ knows'[d].current)
  <2>1. CASE d # c
    BY <1>1, <1>2, <2>1
  <2>2. CASE d = c
    <3>1. knows'[d] = view
      BY <2>2
    <3> QED
      BY <1>2, <2>2, <3>1 DEF Honest
  <2> QED
    BY <2>1, <2>2
<1>3. ASSUME NEW s \in Socket, s[1] # leader
      PROVE  ~Quotes(checking[s]) /\ ~Quotes(wire'[s])
  <2>1. ~Quotes(checking[s]) /\ ~Quotes(wire[s])
    BY <1>1, <1>3
  <2>2. CASE s # l
    BY <2>1, <2>2
  <2>3. CASE s = l
    <3>1. wire'[s] = sent
      BY <2>3
    <3>2. \A i \in DOMAIN sent :
            ~(sent[i].kind \in {"renew", "release"} /\ sent[i].current)
      BY <1>3, <2>1, <2>3 DEF Quotes, HonestWords
    <3> QED
      BY <2>1, <3>1, <3>2 DEF Quotes
  <2> QED
    BY <2>2, <2>3
<1> QED
  BY <1>2, <1>3

\* One more honest message at the end of what is on the wire.
LEMMA AppendedMessage ==
    ASSUME LeaseInv, NEW c \in Client, NEW l \in Socket, NEW m \in MessageType,
           m.current => leader = c \/ leader = NoClient
    PROVE  Append(wire[l], m) \in Seq(MessageType) /\ HonestWords(c, wire[l], Append(wire[l], m))
<1>1. wire[l] \in Seq(MessageType)
  BY LeaseTypesUnfold
<1>2. /\ Append(wire[l], m) \in Seq(MessageType)
      /\ \A i \in DOMAIN Append(wire[l], m) :
           \/ i \in DOMAIN wire[l] /\ Append(wire[l], m)[i] = wire[l][i]
           \/ Append(wire[l], m)[i] = m
  BY <1>1
<1> QED
  BY <1>2 DEF HonestWords

\* A view the device has already, and a device that believes it leads.
LEMMA ViewIsHonest ==
    ASSUME LeaseInv, NEW c \in Client
    PROVE  /\ knows[c] \in View
           /\ knows' = knows => knows' = [knows EXCEPT ![c] = knows[c]]
           /\ Honest(c, knows[c])
  BY LeaseTypesUnfold DEF LeaseInv, OnlyTheHolderIsCurrent, Honest

\* Knowing nothing is a view, and an honest one.
LEMMA NothingIsAView == Nothing \in View /\ \A c \in Client : Honest(c, Nothing)
  BY DEF Nothing, View, Honest

\* A connected device that says something, quoting the lease only if it leads,
\* and perhaps goes.
LEMMA PostingKeepsInv ==
    ASSUME LeaseInv, NEW c \in Client, Online(c), NEW m \in MessageType,
           m.current => leader = c \/ leader = NoClient,
           Post(connection[c], m),
           UNCHANGED <<roomVars, checking, late>>, able' \in [Client -> BOOLEAN],
           connection' = connection \/ connection' = [connection EXCEPT ![c] = NoSocket],
           NEW view \in View, knows' = [knows EXCEPT ![c] = view], Honest(c, view)
    PROVE  LeaseInv'
<1> USE LeaseTypesUnfold
<1>1. PICK l \in Socket : l = connection[c] /\ l[1] = c
  BY ConnectedSocket
<1> DEFINE sent == Append(wire[l], m)
<1>2. sent \in Seq(MessageType) /\ HonestWords(c, wire[l], sent)
  BY AppendedMessage
<1>3. wire' = [wire EXCEPT ![l] = sent]
  BY <1>1 DEF Post
<1> HIDE DEF sent
<1>4. UNCHANGED <<leader, running, attachment>>
  BY DEF roomVars
<1>5. LeaseTypeOK'
  <2>1. /\ connection' \in [Client -> Socket \cup {NoSocket}]
        /\ \A d \in Client : Online(d)' => /\ attachment'[connection'[d]] # Closed
                                           /\ connection'[d][1] = d
    BY <1>4, ConnectionsStand
  <2>2. knows' \in [Client -> View] /\ wire' \in [Socket -> Seq(MessageType)]
    BY <1>2, <1>3
  <2> QED
    BY <1>4, <2>1, <2>2 DEF LeaseTypeOK, Checked, View
<1>6. OnlyTheHolderIsCurrent'
  BY <1>1, <1>2, <1>3, <1>4, HonestDevice
<1> QED
  BY <1>5, <1>6 DEF LeaseInv

\* A device that leads quotes what it knows of the generation.
LEMMA QuotedByLeader ==
    ASSUME LeaseInv, NEW c \in Client, Leading(c), NEW kind \in {"renew", "release"}
    PROVE  LET m == [Message(kind, No) EXCEPT !.current = knows[c].current]
           IN  /\ m \in MessageType /\ m.kind = kind
               /\ m.current => leader = c \/ leader = NoClient
<1>1. kind \in Kinds /\ No \in {Yes, No} /\ knows[c].me
  BY DEF Kinds, Leading
<1>2. /\ knows[c].current \in BOOLEAN
      /\ knows[c].me /\ knows[c].current => leader = c \/ leader = NoClient
  BY ViewIsHonest DEF View, Honest
<1> QED
  BY <1>1, <1>2, QuotingMessage

\* A connection opens on a socket that was closed: what it carries first.
LEMMA ConnectedBy ==
    ASSUME NEW c \in Client, Connect(c)
    PROVE  \E l \in Socket :
             /\ l[1] = c /\ attachment[l] = Closed
             /\ connection' = [connection EXCEPT ![c] = l]
             /\ attachment' = [attachment EXCEPT ![l] = No]
             /\ \E outbox \in {<< >>, <<Message("other", No)>>} :
                  wire' = [wire EXCEPT ![l] =
                             outbox \o <<Message("eligibility", Opinion(able[c]))>>]
             /\ UNCHANGED <<leader, running, checking, able, knows, late>>
  BY DEF Connect, Authenticated

\* openConnection: what a new socket carries quotes no lease.
LEMMA ConnectKeepsInv ==
    ASSUME LeaseInv, NEW c \in Client, Connect(c)
    PROVE  LeaseInv'
<1> USE LeaseTypesUnfold
<1> DEFINE first == Message("other", No)
           last == Message("eligibility", Opinion(able[c]))
<1>1. PICK l \in Socket :
        /\ l[1] = c /\ attachment[l] = Closed
        /\ connection' = [connection EXCEPT ![c] = l]
        /\ attachment' = [attachment EXCEPT ![l] = No]
        /\ \E outbox \in {<< >>, <<first>>} : wire' = [wire EXCEPT ![l] = outbox \o <<last>>]
        /\ UNCHANGED <<leader, running, checking, able, knows, late>>
  BY ConnectedBy
<1>2. PICK outbox \in {<< >>, <<first>>} : wire' = [wire EXCEPT ![l] = outbox \o <<last>>]
  BY <1>1
<1>3. /\ first \in MessageType /\ first.kind = "other"
      /\ last \in MessageType /\ last.kind = "eligibility"
  BY MadeMessage, ClosedIsNoOpinion DEF Kinds
<1> HIDE DEF first, last
<1> DEFINE sent == outbox \o <<last>>
<1>4. sent \in Seq(MessageType) /\ \A i \in DOMAIN sent : sent[i] \in {first, last}
  <2>1. CASE outbox = << >>
    BY <1>3, <2>1
  <2>2. CASE outbox = <<first>>
    BY <1>3, <2>2
  <2> QED
    BY <2>1, <2>2
<1>5. wire' = [wire EXCEPT ![l] = sent]
  BY <1>2
<1> HIDE DEF sent
<1>6. HonestWords(c, wire[l], sent)
  BY <1>3, <1>4 DEF HonestWords
<1>7. ASSUME NEW d \in Client, Online(d)'
      PROVE  attachment'[connection'[d]] # Closed /\ connection'[d][1] = d
  <2>1. CASE d = c
    BY <1>1, <2>1, ClosedIsNoOpinion
  <2>2. CASE d # c
    <3>1. connection'[d] = connection[d]
      BY <1>1, <2>2
    <3>2. Online(d)
      BY <1>7, <3>1 DEF Online
    <3>3. connection[d] \in Socket /\ connection[d][1] = d /\ attachment[connection[d]] # Closed
      BY <3>2, ConnectedSocket
    <3>4. attachment'[connection[d]] = attachment[connection[d]]
      BY <1>1, <3>3
    <3> QED
      BY <3>1, <3>3, <3>4
  <2> QED
    BY <2>1, <2>2
<1>8. LeaseTypeOK'
  <2>1. attachment' \in [Socket -> {Closed, Yes, No}] /\ wire' \in [Socket -> Seq(MessageType)]
    BY <1>1, <1>4, <1>5
  <2>2. \A s \in Socket : attachment'[s] = Closed => checking'[s] = << >>
    BY <1>1, ClosedIsNoOpinion
  <2>3. connection' \in [Client -> Socket \cup {NoSocket}]
    BY <1>1
  <2> QED
    BY <1>1, <1>7, <2>1, <2>2, <2>3 DEF LeaseTypeOK, Checked, View
<1>9. OnlyTheHolderIsCurrent'
  <2>1. PICK view \in View : knows' = [knows EXCEPT ![c] = view] /\ Honest(c, view)
    BY <1>1, ViewIsHonest
  <2>2. l[1] = c /\ UNCHANGED <<leader, checking>>
    BY <1>1
  <2> QED
    BY <1>4, <1>5, <1>6, <2>1, <2>2, HonestDevice
<1> QED
  BY <1>8, <1>9 DEF LeaseInv

\* A device that changes only its view, its ability or its connection.
LEMMA SilentKeepsInv ==
    ASSUME LeaseInv, NEW c \in Client, UNCHANGED <<roomVars, checking, wire, late>>,
           connection' = connection \/ connection' = [connection EXCEPT ![c] = NoSocket],
           able' \in [Client -> BOOLEAN],
           NEW view \in View, knows' = [knows EXCEPT ![c] = view], Honest(c, view)
    PROVE  LeaseInv'
<1> USE LeaseTypesUnfold
<1>1. UNCHANGED <<leader, running, attachment>>
  BY DEF roomVars
<1>2. LeaseTypeOK'
  <2>1. /\ connection' \in [Client -> Socket \cup {NoSocket}]
        /\ \A d \in Client : Online(d)' => /\ attachment'[connection'[d]] # Closed
                                           /\ connection'[d][1] = d
    BY <1>1, ConnectionsStand
  <2>2. knows' \in [Client -> View]
    OBVIOUS
  <2> QED
    BY <1>1, <2>1, <2>2 DEF LeaseTypeOK, Checked, View
<1>3. OnlyTheHolderIsCurrent'
  <2> SUFFICES ASSUME leader # NoClient, NEW d \in Client \ {leader}
               PROVE  ~(knows'[d].me /\ knows'[d].current)
    BY <1>1 DEF LeaseInv, OnlyTheHolderIsCurrent
  <2>1. CASE d = c
    <3>1. knows'[d] = view
      BY <2>1
    <3> QED
      BY <2>1, <3>1 DEF Honest
  <2>2. CASE d # c
    BY <2>2 DEF LeaseInv, OnlyTheHolderIsCurrent
  <2> QED
    BY <2>1, <2>2
<1> QED
  BY <1>2, <1>3 DEF LeaseInv

\* A device learns the state of the lease, or goes.
LEMMA LearnOrGoKeepsInv ==
    ASSUME LeaseInv, NEW c \in Client, Learn(c) \/ Disconnect(c)
    PROVE  LeaseInv'
<1> USE LeaseTypesUnfold
<1>1. CASE Learn(c)
  <2> DEFINE view == [me |-> leader = c, current |-> TRUE]
  <2>1. view \in View /\ Honest(c, view)
    BY DEF View, Honest
  <2>2. knows' = [knows EXCEPT ![c] = view]
    BY <1>1 DEF Learn
  <2> HIDE DEF view
  <2>3. /\ UNCHANGED <<roomVars, checking, wire, late, connection>>
        /\ able' \in [Client -> BOOLEAN]
    BY <1>1 DEF Learn
  <2> QED
    BY <2>1, <2>2, <2>3, SilentKeepsInv
<1>2. CASE Disconnect(c)
  <2>1. /\ UNCHANGED <<roomVars, checking, able, late>>
        /\ connection' = [connection EXCEPT ![c] = NoSocket]
        /\ knows' = [knows EXCEPT ![c] = Nothing]
    BY <1>2 DEF Disconnect
  <2>2. CASE UNCHANGED wire
    BY <2>1, <2>2, NothingIsAView, SilentKeepsInv
  <2>3. CASE /\ Leading(c)
             /\ Post(connection[c], [Message("release", No) EXCEPT !.current = knows[c].current])
    <3>1. PICK m \in MessageType :
            /\ m.current => leader = c \/ leader = NoClient
            /\ Post(connection[c], m)
      BY <2>3, QuotedByLeader
    <3>2. Online(c) /\ able' \in [Client -> BOOLEAN]
      BY <2>1, <2>3 DEF Leading
    <3> QED
      BY <2>1, <3>1, <3>2, NothingIsAView, PostingKeepsInv
  <2> QED
    BY <1>2, <2>2, <2>3 DEF Disconnect
<1> QED
  BY <1>1, <1>2

\* The room forgets a closed socket with its checks and what was on its way.
LEMMA SocketClosesKeepsInv ==
    ASSUME LeaseInv, NEW l \in Socket, SocketCloses(l)
    PROVE  LeaseInv'
<1> USE LeaseTypesUnfold
<1>1. /\ UNCHANGED <<leader, running, connection, able, knows>>
      /\ attachment' = [attachment EXCEPT ![l] = Closed]
      /\ checking' = [checking EXCEPT ![l] = << >>]
      /\ wire' = [wire EXCEPT ![l] = << >>]
      /\ late' \subseteq Socket /\ connection[l[1]] # l
  BY DEF SocketCloses, Abandoned, deviceVars
<1>2. /\ << >> \in Seq(MessageType) /\ << >> \in Seq(Checked) /\ ~Quotes(<< >>)
  BY DEF Quotes
<1>3. LeaseTypeOK'
  <2>1. /\ attachment' \in [Socket -> {Closed, Yes, No}] /\ checking' \in [Socket -> Seq(Checked)]
        /\ wire' \in [Socket -> Seq(MessageType)]
        /\ \A s \in Socket : attachment'[s] = Closed => checking'[s] = << >>
    BY <1>1, <1>2
  <2>2. ASSUME NEW d \in Client, Online(d)'
        PROVE  attachment'[connection'[d]] # Closed /\ connection'[d][1] = d
    <3>1. Online(d)
      BY <1>1, <2>2 DEF Online
    <3>2. connection[d] \in Socket /\ connection[d][1] = d /\ attachment[connection[d]] # Closed
      BY <3>1, ConnectedSocket
    <3>3. connection[d] # l
      BY <1>1, <3>2
    <3> QED
      BY <1>1, <3>2, <3>3
  <2> QED
    BY <1>1, <2>1, <2>2 DEF LeaseTypeOK, Checked, View
<1>4. OnlyTheHolderIsCurrent'
  <2>1. \A s \in Socket : /\ checking'[s] = checking[s] \/ checking'[s] = << >>
                          /\ wire'[s] = wire[s] \/ wire'[s] = << >>
    BY <1>1
  <2> QED
    BY <1>1, <1>2, <2>1 DEF LeaseInv, OnlyTheHolderIsCurrent
<1> QED
  BY <1>3, <1>4 DEF LeaseInv

\* Every step of the room and of the devices keeps LeaseInv.
LEMMA LeaseStepKeepsInv == LeaseInv /\ [LeaseNext]_leaseVars => LeaseInv'
<1> SUFFICES ASSUME LeaseInv, [LeaseNext]_leaseVars PROVE LeaseInv'
  OBVIOUS
<1> USE LeaseTypesUnfold
<1>1. ASSUME NEW c \in Client, ChangesItsMind(c) PROVE LeaseInv'
  <2>1. /\ UNCHANGED <<roomVars, checking, connection, knows, late>>
        /\ able' \in [Client -> BOOLEAN] /\ Opinion(~able[c]) \in {Yes, No}
    BY <1>1, ClosedIsNoOpinion DEF ChangesItsMind
  <2>2. CASE Online(c) /\ Post(connection[c], Message("eligibility", Opinion(~able[c])))
    <3>1. /\ Message("eligibility", Opinion(~able[c])) \in MessageType
          /\ ~Message("eligibility", Opinion(~able[c])).current
      BY <2>1, MadeMessage DEF Kinds
    <3>2. PICK view \in View : knows' = [knows EXCEPT ![c] = view] /\ Honest(c, view)
      BY <2>1, ViewIsHonest
    <3> QED
      BY <2>1, <2>2, <3>1, <3>2, PostingKeepsInv
  <2>3. CASE UNCHANGED wire
    <3>1. PICK view \in View : knows' = [knows EXCEPT ![c] = view] /\ Honest(c, view)
      BY <2>1, ViewIsHonest
    <3> QED
      BY <2>1, <2>3, <3>1, SilentKeepsInv
  <2> QED
    BY <1>1, <2>2, <2>3 DEF ChangesItsMind
<1>2. ASSUME NEW c \in Client, Recheck(c) \/ SendOther(c) PROVE LeaseInv'
  <2>1. PICK m \in MessageType : ~m.current /\ Post(connection[c], m)
    BY <1>2, MadeMessage DEF Recheck, SendOther, Kinds
  <2>2. /\ Online(c) /\ UNCHANGED <<roomVars, checking, connection, knows, late>>
        /\ able' \in [Client -> BOOLEAN]
    BY <1>2 DEF Recheck, SendOther, deviceVars
  <2>3. PICK view \in View : knows' = [knows EXCEPT ![c] = view] /\ Honest(c, view)
    BY <2>2, ViewIsHonest
  <2> QED
    BY <2>1, <2>2, <2>3, PostingKeepsInv
<1>3. ASSUME NEW c \in Client, Renew(c) PROVE LeaseInv'
  <2>1. PICK m \in MessageType :
          /\ m.current => leader = c \/ leader = NoClient
          /\ Post(connection[c], m)
    BY <1>3, QuotedByLeader DEF Renew
  <2>2. /\ Online(c) /\ UNCHANGED <<roomVars, checking, connection, knows, late>>
        /\ able' \in [Client -> BOOLEAN]
    BY <1>3 DEF Renew, Leading, deviceVars
  <2>3. PICK view \in View : knows' = [knows EXCEPT ![c] = view] /\ Honest(c, view)
    BY <2>2, ViewIsHonest
  <2> QED
    BY <2>1, <2>2, <2>3, PostingKeepsInv
<1>4. CASE UNCHANGED leaseVars
  <2>1. UNCHANGED <<leader, running, attachment, checking, wire, connection, able, knows, late>>
    BY <1>4 DEF leaseVars, roomVars, deviceVars
  <2>2. LeaseTypeOK' /\ OnlyTheHolderIsCurrent'
    BY <2>1 DEF LeaseInv, LeaseTypeOK, OnlyTheHolderIsCurrent, Online
  <2> QED
    BY <2>2 DEF LeaseInv
<1>5. CASE LeaseNext
  BY <1>1, <1>2, <1>3, <1>5, ArriveKeepsInv, HandleKeepsInv, ConnectKeepsInv,
     LearnOrGoKeepsInv, SocketClosesKeepsInv, TimeKeepsInv DEF LeaseNext
<1> QED
  BY <1>4, <1>5

\* A room without sockets satisfies the invariant.
LEMMA LeaseInitEstablishes == LeaseInit => LeaseInv
<1> SUFFICES ASSUME LeaseInit PROVE LeaseInv
  OBVIOUS
<1>1. << >> \in Seq(MessageType) /\ << >> \in Seq(Checked) /\ Nothing \in View
  BY DEF Nothing, View
<1>2. LeaseTypeOK
  BY <1>1 DEF LeaseInit, LeaseTypeOK, View, Checked, Online
<1>3. OnlyTheHolderIsCurrent
  BY DEF LeaseInit, OnlyTheHolderIsCurrent
<1> QED
  BY <1>2, <1>3 DEF LeaseInv

\* LeaseInv is an invariant of the lease.
THEOREM LeaseInvHolds == LeaseSpec => []LeaseInv
<1> QED
  BY LeaseInitEstablishes, LeaseStepKeepsInv, PTL DEF LeaseSpec

\* The room's lease and attachments and the devices' views keep their types; a
\* check never outlives its socket or writes a closed attachment back.
THEOREM LeaseTypes == LeaseSpec => []LeaseTypeOK
<1>1. LeaseInv => LeaseTypeOK
  BY DEF LeaseInv
<1> QED
  BY <1>1, LeaseInvHolds, PTL

\* At most one device believes in the present generation, or quotes it to the
\* room, and it holds the lease (electIfNeeded, the lease messages): however many
\* sockets a device has, and however many checks overlap.
THEOREM HolderAloneIsCurrent == LeaseSpec => []OnlyTheHolderIsCurrent
<1>1. LeaseInv => OnlyTheHolderIsCurrent
  BY DEF LeaseInv
<1> QED
  BY <1>1, LeaseInvHolds, PTL

(***************************************************************************)
(* Agreement on eligibility: the last word of a connected device counts,   *)
(* unless checks of its socket ended out of turn since it last spoke to an *)
(* idle socket.                                                            *)
(***************************************************************************)
\* A stream q says nothing of eligibility; the last it says of it is v; it holds no
\* release, which only a device that goes sends.
Silent(q) == \A i \in DOMAIN q : q[i].kind # "eligibility"
LastWordIs(q, v) ==
    \E i \in DOMAIN q : /\ q[i].kind = "eligibility" /\ q[i].value = v
                        /\ \A j \in DOMAIN q : j > i => q[j].kind # "eligibility"
NoRelease(q) == \A i \in DOMAIN q : q[i].kind # "release"

\* What a device finds, v, is the last word of what it has on the wire w and in
\* the checks k of its socket, or else the attachment a.
Upheld(w, k, a, v) ==
    \/ LastWordIs(w, v)
    \/ Silent(w) /\ LastWordIs(k, v)
    \/ Silent(w) /\ Silent(k) /\ a = v

\* That is so while its checks end in turn; what is on the wire speaks for it
\* whenever it speaks.
Heard(w, k, a, v, turn) ==
    /\ LastWordIs(w, v) \/ Silent(w)
    /\ NoRelease(w) /\ NoRelease(k)
    /\ turn => Upheld(w, k, a, v)

HeardBy(c) == LET l == connection[c]
              IN  Heard(wire[l], checking[l], attachment[l], Opinion(able[c]), l \notin late)
Opined == \A c \in Client : Online(c) => HeardBy(c)

OpinionInv == LeaseInv /\ Opined

(***************************************************************************)
(* What happens to a stream and its checks                                 *)
(***************************************************************************)
\* A new generation changes no word (NewGeneration).
LEMMA SameWordsHeard ==
    ASSUME NEW w, NEW k, NEW a, NEW v, NEW turn, Heard(w, k, a, v, turn),
           NEW x, SameWords(w, x), NEW y, SameWords(k, y)
    PROVE  Heard(x, y, a, v, turn)
<1>1. \A q, r : SameWords(q, r) => /\ Silent(q) => Silent(r)
                                   /\ LastWordIs(q, v) => LastWordIs(r, v)
                                   /\ NoRelease(q) => NoRelease(r)
  <2> SUFFICES ASSUME NEW q, NEW r, SameWords(q, r)
               PROVE  /\ Silent(q) => Silent(r)
                      /\ LastWordIs(q, v) => LastWordIs(r, v)
                      /\ NoRelease(q) => NoRelease(r)
    OBVIOUS
  <2>1. /\ DOMAIN r = DOMAIN q
        /\ \A i \in DOMAIN q : r[i].kind = q[i].kind /\ r[i].value = q[i].value
    BY DEF SameWords
  <2>2. (Silent(q) => Silent(r)) /\ (NoRelease(q) => NoRelease(r))
    BY <2>1 DEF Silent, NoRelease
  <2>3. ASSUME LastWordIs(q, v) PROVE LastWordIs(r, v)
    <3>1. PICK p \in DOMAIN q : /\ q[p].kind = "eligibility" /\ q[p].value = v
                                /\ \A j \in DOMAIN q : j > p => q[j].kind # "eligibility"
      BY <2>3 DEF LastWordIs
    <3>2. \A j \in DOMAIN r : j > p => r[j].kind # "eligibility"
      BY <2>1, <3>1
    <3>3. p \in DOMAIN r /\ r[p].kind = "eligibility" /\ r[p].value = v
      BY <2>1, <3>1
    <3> QED
      BY <3>2, <3>3 DEF LastWordIs
  <2> QED
    BY <2>2, <2>3
<1> QED
  BY <1>1 DEF Heard, Upheld

\* A device says what it finds, or sends something else.
LEMMA SaidIsHeard ==
    ASSUME NEW w \in Seq(MessageType), NEW k, NEW a, NEW v, NEW turn, Heard(w, k, a, v, turn),
           NEW m \in MessageType, m.kind # "release"
    PROVE  /\ m.kind = "eligibility" => Heard(Append(w, m), k, a, m.value, turn)
           /\ m.kind # "eligibility" => Heard(Append(w, m), k, a, v, turn)
<1> DEFINE x == Append(w, m)
           n == Len(w) + 1
<1>1. /\ Len(w) \in Nat /\ DOMAIN w = 1..Len(w) /\ DOMAIN x = 1..n /\ n \in Nat
      /\ n \in DOMAIN x /\ x[n] = m
      /\ \A i \in DOMAIN x : i # n => i \in DOMAIN w
      /\ \A i \in DOMAIN w : i \in DOMAIN x /\ x[i] = w[i] /\ ~(i > n)
      /\ \A j \in DOMAIN x : ~(j > n)
  OBVIOUS
<1> HIDE DEF x, n
<1>2. NoRelease(x) /\ NoRelease(k)
  BY <1>1 DEF Heard, NoRelease
<1>3. ASSUME m.kind = "eligibility" PROVE LastWordIs(x, m.value)
  BY <1>1, <1>3 DEF LastWordIs
<1>4. ASSUME m.kind # "eligibility"
      PROVE  (Silent(w) => Silent(x)) /\ (LastWordIs(w, v) => LastWordIs(x, v))
  BY <1>1, <1>4 DEF Silent, LastWordIs
<1> QED
  BY <1>2, <1>3, <1>4 DEF Heard, Upheld, x

\* A message arrives and joins the checks: an eligibility that finds the socket
\* idle is the device's last word, however the checks before it ended.
LEMMA ArrivedIsHeard ==
    ASSUME NEW w \in Seq(MessageType), w # << >>, NEW k \in Seq(Checked),
           NEW a, NEW v, NEW turn, Heard(w, k, a, v, turn),
           NEW m \in Checked, m.kind = Head(w).kind, m.value = Head(w).value
    PROVE  /\ Heard(Tail(w), Append(k, m), a, v, turn)
           /\ k = << >> /\ m.kind = "eligibility" => Heard(Tail(w), Append(k, m), a, v, TRUE)
<1> DEFINE x == Tail(w)
           y == Append(k, m)
           n == Len(k) + 1
<1>1. /\ Len(w) \in Nat \ {0} /\ DOMAIN w = 1..Len(w) /\ DOMAIN x = 1..(Len(w) - 1)
      /\ \A i \in DOMAIN x : i + 1 \in DOMAIN w /\ x[i] = w[i + 1]
      /\ 1 \in DOMAIN w /\ w[1] = Head(w)
  OBVIOUS
<1>2. \A j \in DOMAIN w : j # 1 => /\ j - 1 \in DOMAIN x /\ x[j - 1] = w[j]
                                   /\ \A i \in DOMAIN x : i > j - 1 => i + 1 > j
  BY <1>1
<1>3. /\ DOMAIN k = 1..Len(k) /\ Len(k) \in Nat /\ n \in Nat /\ DOMAIN y = 1..n
      /\ y[n] = m /\ n \in DOMAIN y
      /\ \A i \in DOMAIN k : i \in DOMAIN y /\ y[i] = k[i]
      /\ \A i \in DOMAIN y : ~(i > n) /\ (i # n => i \in DOMAIN k)
  BY AppendProperties
<1> HIDE DEF x, y, n
<1>4. Silent(w) => Silent(x) /\ m.kind # "eligibility"
  BY <1>1 DEF Silent
<1>5. ASSUME LastWordIs(w, v)
      PROVE  LastWordIs(x, v) \/ (Silent(x) /\ m.kind = "eligibility" /\ m.value = v)
  <2>1. PICK p \in DOMAIN w : /\ w[p].kind = "eligibility" /\ w[p].value = v
                              /\ \A j \in DOMAIN w : j > p => w[j].kind # "eligibility"
    BY <1>5 DEF LastWordIs
  <2>2. CASE p = 1
    <3>1. \A i \in DOMAIN x : i + 1 > p
      BY <1>1, <2>2
    <3> QED
      BY <1>1, <2>1, <2>2, <3>1 DEF Silent
  <2>3. CASE p # 1
    <3>1. /\ p - 1 \in DOMAIN x /\ x[p - 1] = w[p]
          /\ \A i \in DOMAIN x : i > p - 1 => i + 1 > p
      BY <1>2, <2>3
    <3> QED
      BY <1>1, <2>1, <3>1 DEF LastWordIs
  <2> QED
    BY <2>2, <2>3
<1>6. m.kind = "eligibility" => LastWordIs(y, m.value)
  BY <1>3 DEF LastWordIs
<1>7. m.kind # "eligibility" =>
        (Silent(k) => Silent(y)) /\ (LastWordIs(k, v) => LastWordIs(y, v))
  BY <1>3 DEF Silent, LastWordIs
<1>8. NoRelease(x) /\ NoRelease(y)
  BY <1>1, <1>3 DEF Heard, NoRelease
<1>9. Heard(x, y, a, v, turn)
  BY <1>4, <1>5, <1>6, <1>7, <1>8 DEF Heard, Upheld
<1>10. ASSUME m.kind = "eligibility" PROVE Heard(x, y, a, v, TRUE)
  BY <1>4, <1>5, <1>6, <1>8, <1>10 DEF Heard, Upheld
<1> QED
  BY <1>9, <1>10 DEF x, y

\* A check ends in turn: an eligibility is taken over, of any other message the
\* attachment that it read is written back (ensureCurrentAuthorization).
LEMMA HandledIsHeard ==
    ASSUME NEW w, NEW k \in Seq(Checked), NEW a, NEW v, NEW turn, Heard(w, k, a, v, turn),
           NEW i \in DOMAIN k,
           NEW b, b = IF k[i].kind = "eligibility" THEN k[i].value ELSE k[i].read,
           NEW still, still => turn,
           still => IF k[i].kind = "eligibility"
                    THEN \A j \in 1..(i - 1) : k[j].kind # "eligibility"
                    ELSE k[i].read = a
    PROVE  Heard(w, RemoveAt(k, i), b, v, still)
<1> DEFINE r == RemoveAt(k, i)
<1>1. /\ Len(k) \in Nat /\ DOMAIN k = 1..Len(k) /\ i \in 1..Len(k)
      /\ r \in Seq(Checked) /\ Len(r) = Len(k) - 1 /\ DOMAIN r = 1..(Len(k) - 1)
      /\ \A j \in 1..(Len(k) - 1) : r[j] = IF j < i THEN k[j] ELSE k[j + 1]
  BY Removed
<1> HIDE DEF r
<1>2. \A j \in DOMAIN r : \E p \in DOMAIN k : /\ p # i /\ r[j] = k[p]
                                              /\ p = IF j < i THEN j ELSE j + 1
  BY <1>1
<1>3. \A p \in DOMAIN k : p # i =>
        \E j \in DOMAIN r : /\ r[j] = k[p] /\ j = IF p < i THEN p ELSE p - 1
  BY <1>1
<1>4. NoRelease(r)
  BY <1>2 DEF Heard, NoRelease
<1>5. Silent(k) => Silent(r) /\ k[i].kind # "eligibility"
  BY <1>2 DEF Silent
<1>6. ASSUME NEW p \in DOMAIN k, p # i, k[p].kind = "eligibility", k[p].value = v,
             \A j \in DOMAIN k : j > p => k[j].kind # "eligibility"
      PROVE  LastWordIs(r, v)
  <2>1. PICK j \in DOMAIN r : r[j] = k[p] /\ j = IF p < i THEN p ELSE p - 1
    BY <1>3, <1>6
  <2>2. ASSUME NEW h \in DOMAIN r, h > j PROVE r[h].kind # "eligibility"
    <3>1. PICK s \in DOMAIN k : r[h] = k[s] /\ s = IF h < i THEN h ELSE h + 1
      BY <1>2
    <3>2. s > p
      BY <1>1, <1>6, <2>1, <2>2, <3>1
    <3> QED
      BY <1>6, <3>1, <3>2
  <2> QED
    BY <1>6, <2>1, <2>2 DEF LastWordIs
<1>7. ASSUME still, Silent(w)
      PROVE  LastWordIs(r, v) \/ (Silent(r) /\ b = v)
  <2>1. LastWordIs(k, v) \/ (Silent(k) /\ a = v)
    <3>1. ~LastWordIs(w, v)
      BY <1>7 DEF Silent, LastWordIs
    <3> QED
      BY <1>7, <3>1 DEF Heard, Upheld
  <2>2. CASE Silent(k) /\ a = v
    BY <1>5, <1>7, <2>2
  <2>3. CASE LastWordIs(k, v)
    <3>1. PICK p \in DOMAIN k : /\ k[p].kind = "eligibility" /\ k[p].value = v
                                /\ \A j \in DOMAIN k : j > p => k[j].kind # "eligibility"
      BY <2>3 DEF LastWordIs
    <3>2. CASE p # i
      BY <1>6, <3>1, <3>2
    <3>3. CASE p = i
      <4>1. \A j \in DOMAIN k : j # i => k[j].kind # "eligibility"
        <5> SUFFICES ASSUME NEW j \in DOMAIN k, j # i PROVE k[j].kind # "eligibility"
          OBVIOUS
        <5>1. j \in 1..(i - 1) \/ j > i
          BY <1>1
        <5> QED
          BY <1>7, <3>1, <3>3, <5>1
      <4>2. Silent(r)
        BY <1>2, <4>1 DEF Silent
      <4> QED
        BY <3>1, <3>3, <4>2
    <3> QED
      BY <3>2, <3>3
  <2> QED
    BY <2>1, <2>2, <2>3
<1>8. still => Upheld(w, r, b, v)
  BY <1>7 DEF Heard, Upheld
<1> QED
  BY <1>4, <1>8 DEF Heard, r

(***************************************************************************)
(* Steps                                                                   *)
(***************************************************************************)
\* An election leaves the opinions that its attachments and checks hold.
LEMMA ElectKeepsOpinions ==
    ASSUME LeaseInv, NEW att, NEW h, NEW runs, NEW rest \in [Socket -> Seq(Checked)],
           Elect(att, h, runs, rest), UNCHANGED <<connection, able>>,
           \A c \in Client : Online(c) =>
               LET l == connection[c]
               IN  Heard(wire[l], rest[l], att[l], Opinion(able[c]), l \notin late')
    PROVE  Opined'
<1>1. attachment' = att
  BY DEF Elect
<1> SUFFICES ASSUME NEW c \in Client, Online(c)' PROVE HeardBy(c)'
  BY DEF Opined
<1>2. Online(c) /\ connection[c] \in Socket
  BY ConnectedSocket DEF Online
<1> DEFINE l == connection[c]
<1>3. Heard(wire[l], rest[l], att[l], Opinion(able[c]), l \notin late')
  BY <1>2
<1>4. wire[l] \in Seq(MessageType) /\ rest[l] \in Seq(MessageType)
  BY <1>2, LeaseTypesUnfold, CheckedAreMessages
<1>5. SameWords(wire[l], wire'[l]) /\ SameWords(rest[l], checking'[l])
  <2>1. CASE checking' = rest /\ UNCHANGED wire
    BY <1>4, <2>1, SameWordsAsBefore
  <2>2. CASE NewGeneration(rest)
    BY <1>2, <2>2, NewGenerationOutdates
  <2> QED
    BY <2>1, <2>2 DEF Elect
<1>6. Heard(wire'[l], checking'[l], att[l], Opinion(able[c]), l \notin late')
  BY <1>3, <1>5, SameWordsHeard
<1> QED
  BY <1>1, <1>6 DEF HeardBy

\* What is left when the i-th check of l ends with b in the attachment: a check
\* that ends out of turn is recorded.
LEMMA LeftByCheck ==
    ASSUME OpinionInv, NEW l \in Socket, NEW i \in DOMAIN checking[l],
           late' = IF OutOfTurn(l, i) THEN late \cup {l} ELSE late,
           NEW b, b = IF checking[l][i].kind = "eligibility" THEN checking[l][i].value
                      ELSE checking[l][i].read
    PROVE  \A c \in Client : Online(c) =>
               LET s == connection[c]
               IN  Heard(wire[s], Without(l, i)[s], [attachment EXCEPT ![l] = b][s],
                         Opinion(able[c]), s \notin late')
<1>1. /\ checking \in [Socket -> Seq(Checked)] /\ attachment \in [Socket -> {Closed, Yes, No}]
      /\ LeaseInv
  BY LeaseTypesUnfold DEF OpinionInv
<1> SUFFICES ASSUME NEW c \in Client, Online(c)
             PROVE  Heard(wire[connection[c]], Without(l, i)[connection[c]],
                          [attachment EXCEPT ![l] = b][connection[c]],
                          Opinion(able[c]), connection[c] \notin late')
  OBVIOUS
<1>2. PICK s \in Socket : s = connection[c]
  BY <1>1, ConnectedSocket
<1>3. Heard(wire[s], checking[s], attachment[s], Opinion(able[c]), s \notin late)
  BY <1>2 DEF OpinionInv, Opined, HeardBy
<1>4. CASE s = l
  <2>1. Without(l, i)[s] = RemoveAt(checking[s], i) /\ [attachment EXCEPT ![l] = b][s] = b
    BY <1>1, <1>4 DEF Without
  <2>2. s \notin late' => s \notin late
    OBVIOUS
  <2>3. s \notin late' => IF checking[s][i].kind = "eligibility"
                          THEN \A j \in 1..(i - 1) : checking[s][j].kind # "eligibility"
                          ELSE checking[s][i].read = attachment[s]
    BY <1>4 DEF OutOfTurn
  <2>4. checking[s] \in Seq(Checked) /\ i \in DOMAIN checking[s]
    BY <1>1, <1>4
  <2>5. Heard(wire[s], RemoveAt(checking[s], i), b, Opinion(able[c]), s \notin late')
    BY <1>3, <1>4, <2>2, <2>3, <2>4, HandledIsHeard
  <2> QED
    BY <1>2, <2>1, <2>5
<1>5. CASE s # l
  <2>1. Without(l, i)[s] = checking[s] /\ [attachment EXCEPT ![l] = b][s] = attachment[s]
    BY <1>1, <1>5 DEF Without
  <2>2. s \notin late' <=> s \notin late
    BY <1>5
  <2>3. (s \notin late') = (s \notin late)
    BY <2>2
  <2> QED
    BY <1>2, <1>3, <2>1, <2>3
<1> QED
  BY <1>4, <1>5

\* A release comes from a device that has gone.
LEMMA HandleKeepsOpinions ==
    ASSUME OpinionInv, NEW l \in Socket, NEW kind \in Kinds, Handle(l, kind)
    PROVE  Opined'
<1>1. PICK i \in DOMAIN checking[l] :
        /\ \/ HandleEligibility(l, i) \/ HandleRenew(l, i)
           \/ HandleRelease(l, i) \/ HandleOther(l, i)
        /\ late' = IF OutOfTurn(l, i) THEN late \cup {l} ELSE late
  BY DEF Handle
<1>2. UNCHANGED <<connection, able>> /\ LeaseInv
  BY DEF Handle, OpinionInv
<1> DEFINE m == checking[l][i]
<1>3. Without(l, i) \in [Socket -> Seq(Checked)]
  BY <1>2, HandledCheck DEF LeftOf
<1>4. CASE HandleEligibility(l, i)
  <2>1. m.kind = "eligibility"
    BY <1>4 DEF HandleEligibility
  <2>2. PICK h : Elect([attachment EXCEPT ![l] = m.value], h, running, Without(l, i))
    BY <1>4 DEF HandleEligibility
  <2> DEFINE b == m.value
  <2>3. b = IF m.kind = "eligibility" THEN m.value ELSE m.read
    BY <2>1
  <2> HIDE DEF b
  <2>4. \A c \in Client : Online(c) =>
          LET s == connection[c]
          IN  Heard(wire[s], Without(l, i)[s], [attachment EXCEPT ![l] = b][s],
                    Opinion(able[c]), s \notin late')
    BY <1>1, <2>3, LeftByCheck
  <2>5. Elect([attachment EXCEPT ![l] = b], h, running, Without(l, i))
    BY <2>2 DEF b
  <2> QED
    BY <1>2, <1>3, <2>4, <2>5, ElectKeepsOpinions
<1>5. CASE HandleRenew(l, i)
  <2>1. m.kind # "eligibility"
    BY <1>5 DEF HandleRenew
  <2> DEFINE b == m.read
  <2>2. b = IF m.kind = "eligibility" THEN m.value ELSE m.read
    BY <2>1
  <2> HIDE DEF b
  <2>3. \A c \in Client : Online(c) =>
          LET s == connection[c]
          IN  Heard(wire[s], Without(l, i)[s], [attachment EXCEPT ![l] = b][s],
                    Opinion(able[c]), s \notin late')
    BY <1>1, <2>2, LeftByCheck
  <2>4. Elect([attachment EXCEPT ![l] = b], leader, running, Without(l, i))
    BY <1>5 DEF b, HandleRenew, Restored
  <2> QED
    BY <1>2, <1>3, <2>3, <2>4, ElectKeepsOpinions
<1>6. ASSUME m.kind # "eligibility", attachment' = Restored(l, i), checking' = Without(l, i),
             UNCHANGED wire
      PROVE  Opined'
  <2> DEFINE b == m.read
  <2>1. b = IF m.kind = "eligibility" THEN m.value ELSE m.read
    BY <1>6
  <2>2. attachment' = [attachment EXCEPT ![l] = b]
    BY <1>6 DEF Restored
  <2> HIDE DEF b
  <2>3. \A c \in Client : Online(c) =>
          LET s == connection[c]
          IN  Heard(wire[s], Without(l, i)[s], [attachment EXCEPT ![l] = b][s],
                    Opinion(able[c]), s \notin late')
    BY <1>1, <2>1, LeftByCheck
  <2> QED
    BY <1>2, <1>6, <2>2, <2>3 DEF Opined, HeardBy, Online
<1>7. CASE HandleOther(l, i)
  BY <1>6, <1>7 DEF HandleOther
<1>8. CASE HandleRelease(l, i)
  <2>1. m.kind = "release"
    BY <1>8 DEF HandleRelease
  <2>2. ASSUME NEW c \in Client, Online(c) PROVE connection[c] # l
    BY <2>1, <2>2 DEF OpinionInv, Opined, HeardBy, Heard, NoRelease
  <2>3. CASE Elect([attachment EXCEPT ![l] = No], NoClient, FALSE, Without(l, i))
    <3>1. ASSUME NEW c \in Client, Online(c)
          PROVE  LET s == connection[c]
                 IN  Heard(wire[s], Without(l, i)[s], [attachment EXCEPT ![l] = No][s],
                           Opinion(able[c]), s \notin late')
      <4>1. PICK s \in Socket : s = connection[c]
        BY <1>2, <3>1, ConnectedSocket
      <4>2. s # l
        BY <2>2, <3>1, <4>1
      <4>3. Without(l, i)[s] = checking[s] /\ [attachment EXCEPT ![l] = No][s] = attachment[s]
        BY <1>2, <4>2, LeaseTypesUnfold DEF Without
      <4>4. (s \notin late') = (s \notin late)
        BY <1>1, <4>2
      <4>5. Heard(wire[s], checking[s], attachment[s], Opinion(able[c]), s \notin late)
        BY <3>1, <4>1 DEF OpinionInv, Opined, HeardBy
      <4> QED
        BY <4>1, <4>3, <4>4, <4>5
    <3> QED
      BY <1>2, <1>3, <2>3, <3>1, ElectKeepsOpinions
  <2> QED
    BY <1>6, <1>8, <2>1, <2>3 DEF HandleRelease
<1> QED
  BY <1>1, <1>4, <1>5, <1>7, <1>8

\* A message that arrives leaves the device's last word where it was, or in the
\* checks.
LEMMA ArriveKeepsOpinions ==
    ASSUME OpinionInv, NEW l \in Socket, Arrive(l)
    PROVE  Opined'
<1> DEFINE m == [Head(wire[l]) EXCEPT !.read = attachment[l]]
<1>1. /\ wire \in [Socket -> Seq(MessageType)] /\ checking \in [Socket -> Seq(Checked)]
      /\ LeaseInv
  BY LeaseTypesUnfold DEF OpinionInv
<1>2. /\ wire[l] # << >> /\ wire' = [wire EXCEPT ![l] = Tail(wire[l])]
      /\ UNCHANGED <<connection, able, attachment>>
      /\ late' = IF checking[l] = << >> /\ Head(wire[l]).kind = "eligibility"
                 THEN late \ {l} ELSE late
  BY DEF Arrive, roomVars, deviceVars
<1>3. /\ m \in Checked /\ m.kind = Head(wire[l]).kind /\ m.value = Head(wire[l]).value
      /\ checking' = [checking EXCEPT ![l] = Append(checking[l], m)]
  BY <1>1, ArrivedMessage
<1> HIDE DEF m
<1> SUFFICES ASSUME NEW c \in Client, Online(c)' PROVE HeardBy(c)'
  BY DEF Opined
<1>4. Online(c)
  BY <1>2 DEF Online
<1>5. PICK s \in Socket : s = connection[c]
  BY <1>1, <1>4, ConnectedSocket
<1>6. Heard(wire[s], checking[s], attachment[s], Opinion(able[c]), s \notin late)
  BY <1>4, <1>5 DEF OpinionInv, Opined, HeardBy
<1>7. Heard(wire'[s], checking'[s], attachment[s], Opinion(able[c]), s \notin late')
  <2>1. CASE s = l
    <3>1. wire'[s] = Tail(wire[s]) /\ checking'[s] = Append(checking[s], m)
      BY <1>1, <1>2, <1>3, <2>1
    <3>2. /\ wire[s] \in Seq(MessageType) /\ wire[s] # << >> /\ checking[s] \in Seq(Checked)
          /\ m \in Checked /\ m.kind = Head(wire[s]).kind /\ m.value = Head(wire[s]).value
      BY <1>1, <1>2, <1>3, <2>1
    <3>3. /\ Heard(Tail(wire[s]), Append(checking[s], m), attachment[s], Opinion(able[c]),
                   s \notin late)
          /\ checking[s] = << >> /\ m.kind = "eligibility" =>
               Heard(Tail(wire[s]), Append(checking[s], m), attachment[s], Opinion(able[c]), TRUE)
      BY <1>6, <3>2, ArrivedIsHeard
    <3>4. CASE checking[s] = << >> /\ m.kind = "eligibility"
      <4>1. s \notin late'
        BY <1>2, <1>3, <2>1, <3>4
      <4>2. (s \notin late') = TRUE
        BY <4>1
      <4> QED
        BY <3>1, <3>3, <3>4, <4>2
    <3>5. CASE ~(checking[s] = << >> /\ m.kind = "eligibility")
      <4>1. late' = late
        BY <1>2, <1>3, <2>1, <3>5
      <4> QED
        BY <3>1, <3>3, <4>1
    <3> QED
      BY <3>4, <3>5
  <2>2. CASE s # l
    <3>1. wire'[s] = wire[s] /\ checking'[s] = checking[s] /\ (s \notin late') = (s \notin late)
      BY <1>1, <1>2, <1>3, <2>2
    <3> QED
      BY <1>6, <3>1
  <2> QED
    BY <2>1, <2>2
<1> QED
  BY <1>2, <1>5, <1>7 DEF HeardBy

\* Time changes no opinion.
LEMMA TimeKeepsOpinions ==
    ASSUME OpinionInv, Lapse \/ Alarm
    PROVE  Opined'
<1>1. CASE Lapse
  BY <1>1 DEF Lapse, deviceVars, OpinionInv, Opined, HeardBy, Online
<1>2. CASE Alarm
  <2>1. Elect(attachment, leader, FALSE, checking) /\ UNCHANGED <<connection, able, late>>
    BY <1>2 DEF Alarm
  <2>2. LeaseInv /\ checking \in [Socket -> Seq(Checked)]
    BY LeaseTypesUnfold DEF OpinionInv
  <2>3. \A c \in Client : Online(c) =>
          LET l == connection[c]
          IN  Heard(wire[l], checking[l], attachment[l], Opinion(able[c]), l \notin late')
    BY <2>1 DEF OpinionInv, Opined, HeardBy
  <2> QED
    BY <2>1, <2>2, <2>3, ElectKeepsOpinions
<1> QED
  BY <1>1, <1>2

\* A message posted by c: an eligibility is the device's opinion from now on.
LEMMA PostKeepsOpinions ==
    ASSUME OpinionInv, NEW c \in Client, Online(c), NEW m \in MessageType, m.kind # "release",
           Post(connection[c], m), UNCHANGED <<attachment, checking, connection, late>>,
           NEW now \in BOOLEAN, able' = [able EXCEPT ![c] = now],
           IF m.kind = "eligibility" THEN m.value = Opinion(now) ELSE now = able[c]
    PROVE  Opined'
<1>1. /\ wire \in [Socket -> Seq(MessageType)] /\ able \in [Client -> BOOLEAN] /\ LeaseInv
  BY LeaseTypesUnfold DEF OpinionInv
<1>2. PICK l \in Socket : l = connection[c] /\ l[1] = c
  BY <1>1, ConnectedSocket
<1>3. wire' = [wire EXCEPT ![l] = Append(wire[l], m)]
  BY <1>2 DEF Post
<1> SUFFICES ASSUME NEW d \in Client, Online(d)' PROVE HeardBy(d)'
  BY DEF Opined
<1>4. Online(d)
  BY DEF Online
<1>5. PICK s \in Socket : s = connection[d] /\ s[1] = d
  BY <1>1, <1>4, ConnectedSocket
<1>6. Heard(wire[s], checking[s], attachment[s], Opinion(able[d]), s \notin late)
  BY <1>4, <1>5 DEF OpinionInv, Opined, HeardBy
<1>7. Heard(wire'[s], checking[s], attachment[s], Opinion(able'[d]), s \notin late)
  <2>1. CASE d = c
    <3>1. wire'[s] = Append(wire[s], m) /\ able'[d] = now /\ wire[s] \in Seq(MessageType)
      BY <1>1, <1>2, <1>3, <1>5, <2>1
    <3>2. Heard(Append(wire[s], m), checking[s], attachment[s], Opinion(now), s \notin late)
      <4>1. CASE m.kind = "eligibility"
        <5>1. Heard(Append(wire[s], m), checking[s], attachment[s], m.value, s \notin late)
          BY <1>6, <3>1, <4>1, SaidIsHeard
        <5> QED
          BY <4>1, <5>1
      <4>2. CASE m.kind # "eligibility"
        <5>1. now = able[d]
          BY <2>1, <4>2
        <5> QED
          BY <1>6, <3>1, <4>2, <5>1, SaidIsHeard
      <4> QED
        BY <4>1, <4>2
    <3> QED
      BY <3>1, <3>2
  <2>2. CASE d # c
    <3>1. wire'[s] = wire[s] /\ able'[d] = able[d]
      BY <1>1, <1>2, <1>3, <1>5, <2>2
    <3> QED
      BY <1>6, <3>1
  <2> QED
    BY <2>1, <2>2
<1> QED
  BY <1>5, <1>7 DEF HeardBy

\* A device that connects says what it finds, behind its outbox (becomeLive).
LEMMA ConnectKeepsOpinions ==
    ASSUME OpinionInv, NEW c \in Client, Connect(c)
    PROVE  Opined'
<1> DEFINE v == Opinion(able[c])
           other == Message("other", No)
           last == Message("eligibility", v)
<1>1. PICK l \in Socket :
        /\ l[1] = c /\ attachment[l] = Closed
        /\ connection' = [connection EXCEPT ![c] = l]
        /\ attachment' = [attachment EXCEPT ![l] = No]
        /\ \E outbox \in {<< >>, <<other>>} : wire' = [wire EXCEPT ![l] = outbox \o <<last>>]
        /\ UNCHANGED <<leader, running, checking, able, knows, late>>
  BY ConnectedBy
<1>2. PICK outbox \in {<< >>, <<other>>} : wire' = [wire EXCEPT ![l] = outbox \o <<last>>]
  BY <1>1
<1>3. /\ wire \in [Socket -> Seq(MessageType)] /\ attachment \in [Socket -> {Closed, Yes, No}]
      /\ connection \in [Client -> Socket \cup {NoSocket}] /\ checking[l] = << >> /\ LeaseInv
      /\ v \in {Yes, No}
  BY <1>1, LeaseTypesUnfold, ClosedIsNoOpinion DEF OpinionInv
<1>4. /\ other \in MessageType /\ other.kind = "other"
      /\ last \in MessageType /\ last.kind = "eligibility" /\ last.value = v
  BY <1>3, MadeMessage, ClosedIsNoOpinion DEF Kinds
<1> HIDE DEF other, last, v
<1>5. ASSUME NEW turn PROVE Heard(outbox \o <<last>>, << >>, No, v, turn)
  <2>1. Heard(<< >>, << >>, No, No, turn) /\ << >> \in Seq(MessageType)
    BY DEF Heard, Upheld, Silent, NoRelease
  <2>2. Heard(<<other>>, << >>, No, No, turn) /\ <<other>> \in Seq(MessageType)
    <3>1. Heard(Append(<< >>, other), << >>, No, No, turn)
      BY <1>4, <2>1, SaidIsHeard
    <3> QED
      BY <1>4, <3>1
  <2>3. outbox \in Seq(MessageType) /\ Heard(outbox, << >>, No, No, turn)
    BY <2>1, <2>2
  <2>4. Heard(Append(outbox, last), << >>, No, v, turn)
    BY <1>4, <2>3, SaidIsHeard
  <2>5. outbox \o <<last>> = Append(outbox, last)
    OBVIOUS
  <2> QED
    BY <2>4, <2>5
<1> SUFFICES ASSUME NEW d \in Client, Online(d)' PROVE HeardBy(d)'
  BY DEF Opined
<1>6. CASE d = c
  <2>1. /\ connection'[d] = l /\ wire'[l] = outbox \o <<last>> /\ checking'[l] = << >>
        /\ attachment'[l] = No /\ able'[d] = able[c]
    BY <1>1, <1>2, <1>3, <1>6
  <2>2. Heard(wire'[l], checking'[l], attachment'[l], v, l \notin late')
    BY <1>5, <2>1
  <2> QED
    BY <2>1, <2>2 DEF HeardBy, v
<1>7. CASE d # c
  <2>1. connection'[d] = connection[d]
    BY <1>1, <1>3, <1>7
  <2>2. Online(d)
    BY <2>1 DEF Online
  <2>3. PICK s \in Socket : s = connection[d] /\ s[1] = d
    BY <1>3, <2>2, ConnectedSocket
  <2>4. wire'[s] = wire[s] /\ attachment'[s] = attachment[s]
    BY <1>1, <1>2, <1>3, <1>7, <2>3
  <2>5. Heard(wire[s], checking[s], attachment[s], Opinion(able[d]), s \notin late)
    BY <2>2, <2>3 DEF OpinionInv, Opined, HeardBy
  <2> QED
    BY <1>1, <2>1, <2>3, <2>4, <2>5 DEF HeardBy
<1> QED
  BY <1>6, <1>7

\* A device that goes has no opinion, and a socket that closes is nobody's.
LEMMA GoneKeepsOpinions ==
    ASSUME OpinionInv, (\E c \in Client : Disconnect(c)) \/ (\E l \in Socket : SocketCloses(l))
    PROVE  Opined'
<1>1. /\ wire \in [Socket -> Seq(MessageType)] /\ attachment \in [Socket -> {Closed, Yes, No}]
      /\ connection \in [Client -> Socket \cup {NoSocket}]
      /\ checking \in [Socket -> Seq(Checked)] /\ LeaseInv
  BY LeaseTypesUnfold DEF OpinionInv
<1> SUFFICES ASSUME NEW d \in Client, Online(d)' PROVE HeardBy(d)'
  BY DEF Opined
<1>2. ASSUME connection'[d] = connection[d], NEW s \in Socket, s = connection[d],
             able'[d] = able[d], wire'[s] = wire[s], checking'[s] = checking[s],
             attachment'[s] = attachment[s], (s \notin late') = (s \notin late)
      PROVE  HeardBy(d)'
  <2>1. Online(d)
    BY <1>2 DEF Online
  <2>2. Heard(wire[s], checking[s], attachment[s], Opinion(able[d]), s \notin late)
    BY <1>2, <2>1 DEF OpinionInv, Opined, HeardBy
  <2> QED
    BY <1>2, <2>2 DEF HeardBy
<1>3. ASSUME NEW c \in Client, Disconnect(c) PROVE HeardBy(d)'
  <2>1. d # c /\ connection'[d] = connection[d]
    BY <1>1, <1>3 DEF Disconnect, Online
  <2>2. Online(d) /\ Online(c)
    BY <1>3, <2>1 DEF Online, Disconnect
  <2>3. PICK s \in Socket : s = connection[d] /\ s[1] = d
    BY <1>1, <2>2, ConnectedSocket
  <2>4. PICK l \in Socket : l = connection[c] /\ l[1] = c
    BY <1>1, <2>2, ConnectedSocket
  <2>5. wire'[s] = wire[s]
    BY <1>1, <1>3, <2>1, <2>3, <2>4 DEF Disconnect, Post
  <2>6. UNCHANGED <<able, checking, attachment, late>>
    BY <1>3 DEF Disconnect, roomVars
  <2> QED
    BY <1>2, <2>1, <2>3, <2>5, <2>6
<1>4. ASSUME NEW l \in Socket, SocketCloses(l) PROVE HeardBy(d)'
  <2>1. UNCHANGED <<connection, able>> /\ connection[l[1]] # l
    BY <1>4 DEF SocketCloses, Abandoned, deviceVars
  <2>2. Online(d)
    BY <2>1 DEF Online
  <2>3. PICK s \in Socket : s = connection[d] /\ s[1] = d
    BY <1>1, <2>2, ConnectedSocket
  <2>4. s # l
    BY <2>1, <2>3
  <2>5. /\ wire'[s] = wire[s] /\ checking'[s] = checking[s] /\ attachment'[s] = attachment[s]
        /\ (s \notin late') = (s \notin late)
    BY <1>1, <1>4, <2>4 DEF SocketCloses
  <2> QED
    BY <1>2, <2>1, <2>3, <2>5
<1> QED
  BY <1>3, <1>4

\* What devices send and learn keeps their last word their opinion.
LEMMA DeviceKeepsOpinions ==
    ASSUME OpinionInv, NEW c \in Client,
           ChangesItsMind(c) \/ Recheck(c) \/ Renew(c) \/ SendOther(c) \/ Learn(c)
    PROVE  Opined'
<1>1. /\ able \in [Client -> BOOLEAN] /\ able[c] \in BOOLEAN /\ knows[c].current \in BOOLEAN
      /\ LeaseInv
  BY LeaseTypesUnfold DEF OpinionInv, View
<1>2. ASSUME ChangesItsMind(c) PROVE Opined'
  <2> DEFINE m == Message("eligibility", Opinion(~able[c]))
  <2>1. m \in MessageType /\ m.kind = "eligibility" /\ m.value = Opinion(~able[c])
    BY <1>1, MadeMessage, ClosedIsNoOpinion DEF Kinds
  <2>2. /\ able' = [able EXCEPT ![c] = ~able[c]]
        /\ UNCHANGED <<attachment, checking, connection, late>>
    BY <1>2 DEF ChangesItsMind, roomVars
  <2>3. CASE Online(c)
    <3>1. Post(connection[c], m) /\ (~able[c]) \in BOOLEAN
      BY <1>2, <2>3 DEF ChangesItsMind
    <3> HIDE DEF m
    <3> QED
      BY <2>1, <2>2, <2>3, <3>1, PostKeepsOpinions
  <2>4. CASE ~Online(c)
    <3>1. UNCHANGED wire /\ \A d \in Client : d # c => able'[d] = able[d]
      BY <1>1, <1>2, <2>2, <2>4 DEF ChangesItsMind
    <3>2. \A d \in Client : Online(d)' => Online(d) /\ d # c
      BY <2>2, <2>4 DEF Online
    <3> QED
      BY <2>2, <3>1, <3>2 DEF OpinionInv, Opined, HeardBy
  <2> QED
    BY <2>3, <2>4
<1>3. ASSUME Online(c), NEW m \in MessageType, m.kind # "release", Post(connection[c], m),
             UNCHANGED <<attachment, checking, connection, able, late>>,
             m.kind = "eligibility" => m.value = Opinion(able[c])
      PROVE  Opined'
  <2>1. able' = [able EXCEPT ![c] = able[c]]
    BY <1>1, <1>3
  <2> QED
    BY <1>1, <1>3, <2>1, PostKeepsOpinions
<1>4. ASSUME Recheck(c) PROVE Opined'
  <2>1. /\ Message("eligibility", No) \in MessageType
        /\ Message("eligibility", No).kind = "eligibility"
        /\ Message("eligibility", No).value = Opinion(able[c])
    BY <1>4, MadeMessage DEF Kinds, Recheck, Opinion
  <2> QED
    BY <1>3, <1>4, <2>1 DEF Recheck, roomVars, deviceVars
<1>5. ASSUME Renew(c) PROVE Opined'
  <2> DEFINE m == [Message("renew", No) EXCEPT !.current = knows[c].current]
  <2>1. m \in MessageType /\ m.kind = "renew"
    BY <1>1, QuotingMessage DEF Kinds
  <2>2. /\ Online(c) /\ Post(connection[c], m)
        /\ UNCHANGED <<attachment, checking, connection, able, late>>
    BY <1>5 DEF Renew, Leading, roomVars, deviceVars
  <2> HIDE DEF m
  <2> QED
    BY <1>3, <2>1, <2>2
<1>6. ASSUME SendOther(c) PROVE Opined'
  <2>1. Message("other", No) \in MessageType /\ Message("other", No).kind = "other"
    BY MadeMessage DEF Kinds
  <2> QED
    BY <1>3, <1>6, <2>1 DEF SendOther, roomVars, deviceVars
<1>7. ASSUME Learn(c) PROVE Opined'
  BY <1>7 DEF Learn, roomVars, OpinionInv, Opined, HeardBy, Online
<1> QED
  BY <1>2, <1>4, <1>5, <1>6, <1>7

(***************************************************************************)
(* Theorem                                                                 *)
(***************************************************************************)
\* Every step keeps the invariant.
LEMMA OpinionStepKeepsInv == OpinionInv /\ [LeaseNext]_leaseVars => OpinionInv'
<1> SUFFICES ASSUME OpinionInv, [LeaseNext]_leaseVars PROVE OpinionInv'
  OBVIOUS
<1>1. LeaseInv'
  BY LeaseStepKeepsInv DEF OpinionInv
<1>2. CASE UNCHANGED leaseVars
  BY <1>1, <1>2 DEF leaseVars, roomVars, deviceVars, OpinionInv, Opined, HeardBy, Online
<1>3. CASE LeaseNext
  <2>1. Opined'
    BY <1>3, ArriveKeepsOpinions, HandleKeepsOpinions, ConnectKeepsOpinions, GoneKeepsOpinions,
       DeviceKeepsOpinions, TimeKeepsOpinions DEF LeaseNext
  <2> QED
    BY <1>1, <2>1 DEF OpinionInv
<1> QED
  BY <1>2, <1>3

\* Once the room has handled what a connected device sent, it holds the device's
\* socket eligible exactly if the device finds that it can push, unless a check of
\* that socket ended out of turn since the device last spoke to it while it was idle
\* (webSocketMessage, ensureCurrentAuthorization): for any number of overlapping
\* checks, of devices and of sockets that a device left behind.
THEOREM OpinionsAgree == LeaseSpec => []EligibilityAgrees
<1>1. LeaseInit => OpinionInv
  BY LeaseInitEstablishes DEF LeaseInit, OpinionInv, Opined, Online
<1>2. OpinionInv /\ [LeaseNext]_leaseVars => OpinionInv'
  BY OpinionStepKeepsInv
<1>3. OpinionInv => EligibilityAgrees
  <2> SUFFICES ASSUME OpinionInv, NEW c \in Client, Online(c), wire[connection[c]] = << >>,
                      checking[connection[c]] = << >>, connection[c] \notin late
               PROVE  attachment[connection[c]] = Opinion(able[c])
    BY DEF EligibilityAgrees
  <2>1. \A v : Silent(<< >>) /\ ~LastWordIs(<< >>, v)
    BY DEF Silent, LastWordIs
  <2> QED
    BY <2>1 DEF OpinionInv, Opined, HeardBy, Heard, Upheld
<1> QED
  BY <1>1, <1>2, <1>3, PTL DEF LeaseSpec
=============================================================================
