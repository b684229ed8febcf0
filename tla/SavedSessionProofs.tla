------------------------- MODULE SavedSessionProofs -------------------------
(***************************************************************************)
(* What follows from SavedSession alone, and so for whatever implements it *)
(***************************************************************************)
EXTENDS SavedSession, TLAPS

\* The contents the session had, and the marks point into them.
HistoryInv ==
    /\ history \in Seq(SUBSET Item) /\ history # << >>
    /\ saved \in 0..Now /\ clean \in 0..Now

\* Items taken out stay taken out, and contents stay, as the session changes.
LEMMA ChangesAdd ==
    ASSUME HistoryInv, Change
    PROVE  /\ Now \in Nat /\ Now' = Now + 1 /\ TakenOut \subseteq TakenOut'
           /\ \A n \in 0..Now : At(n)' = At(n)
<1>1. PICK content \in SUBSET Item : history' = Append(history, content)
  BY DEF Change
<1>2. /\ Len(history) \in Nat \ {0} /\ Len(Append(history, content)) = Len(history) + 1
      /\ \A n \in 1..Len(history) : Append(history, content)[n] = history[n]
  BY DEF HistoryInv
<1>3. Now \in Nat /\ Now' = Now + 1
  BY <1>1, <1>2 DEF Now
<1>4. \A n \in 1..Len(history) : history'[n] = history[n]
  BY <1>1, <1>2
<1>5. \A n \in 0..Now : At(n)' = At(n)
  BY <1>2, <1>4 DEF At, Now
<1>6. TakenOut \subseteq TakenOut'
  <2>1. ASSUME NEW n \in 1..Now
        PROVE  n \in 1..Now' /\ history'[n] = history[n] /\ history'[n + 1] = history[n + 1]
    BY <1>2, <1>3, <1>4 DEF Now
  <2> QED
    BY <2>1 DEF TakenOut
<1> QED
  BY <1>3, <1>5, <1>6

LEMMA KeptStep ==
    ASSUME HistoryInv, SavedIsKept, [Next]_vars
    PROVE  HistoryInv' /\ SavedIsKept'
<1>1. CASE Change
  <2>1. /\ Now \in Nat /\ Now' = Now + 1 /\ TakenOut \subseteq TakenOut'
        /\ \A n \in 0..Now : At(n)' = At(n)
    BY <1>1, ChangesAdd
  <2>2. UNCHANGED <<branch, saved, clean>>
    BY <1>1 DEF Change
  <2>3. (At(saved))' = At(saved) /\ (At(clean))' = At(clean)
    <3>1. (At(saved))' = At(saved)' /\ (At(clean))' = At(clean)'
      BY <2>2 DEF At
    <3> QED
      BY <2>1, <2>2, <3>1 DEF HistoryInv, At
  <2>4. history' \in Seq(SUBSET Item) /\ history' # << >>
    BY <1>1 DEF Change, HistoryInv
  <2>5. saved' \in 0..Now' /\ clean' \in 0..Now'
    BY <2>1, <2>2 DEF HistoryInv
  <2>6. HistoryInv'
    BY <2>4, <2>5 DEF HistoryInv
  <2> QED
    BY <2>1, <2>2, <2>3, <2>6 DEF SavedIsKept
<1>2. CASE Save \/ Outside
  <2>1. UNCHANGED <<history, saved, clean>> /\ branch \ branch' \subseteq TakenOut
    BY <1>2 DEF Save, Outside
  <2> QED
    BY <2>1 DEF HistoryInv, SavedIsKept, TakenOut, At, Now
<1>3. CASE Record
  <2>1. Now \in Nat
    BY DEF HistoryInv, Now
  <2>2. saved' \in 0..Now /\ clean' \in 0..Now
    BY <1>3, <2>1 DEF Record, HistoryInv
  <2> QED
    BY <1>3, <2>2 DEF Record, HistoryInv, SavedIsKept, TakenOut, At, Now
<1>4. CASE UNCHANGED vars
  BY <1>4 DEF vars, HistoryInv, SavedIsKept, TakenOut, At, Now
<1> QED
  BY <1>1, <1>2, <1>3, <1>4 DEF Next

\* What is shown as saved is on the branch, but for what members took out: as
\* long as saving keeps to SavedSession, whatever is lost or starts again.
THEOREM SavedStays == Spec => []SavedIsKept
<1>1. Init => HistoryInv /\ SavedIsKept
  BY DEF Init, HistoryInv, SavedIsKept, Now, At
<1>2. HistoryInv /\ SavedIsKept /\ [Next]_vars => HistoryInv' /\ SavedIsKept'
  BY KeptStep
<1> QED
  BY <1>1, <1>2, PTL DEF Spec
=============================================================================
