---------------------------- MODULE SavedSession ----------------------------
(***************************************************************************)
(* What saving a session to its branch promises the members, whoever leads *)
(* and whatever is lost or starts again: the branch loses only what        *)
(* members took out of the session; it gets contents the session had, or   *)
(* grows; and what the room shows as saved, which never goes back, is a    *)
(* content of the session that the branch holds.  An older content than    *)
(* the one saved may get to the branch: a leader that lost its lease       *)
(* between the fence and the push.                                         *)
(***************************************************************************)
EXTENDS Naturals, Sequences

CONSTANT Item   \* what the content is made of

VARIABLES
    history,    \* the contents the session had, the present one last
    branch,     \* the content of the branch
    saved,      \* changes up to the content that is shown as saved
    clean       \* changes up to the newest one known to be that same content

vars == <<history, branch, saved, clean>>

Now == Len(history) - 1
At(n) == history[n + 1]

\* Items some member took out of the session.
TakenOut == {i \in Item : \E n \in 1..Now : i \in history[n] /\ i \notin history[n + 1]}

Init ==
    /\ history = << {} >> /\ branch = {}
    /\ saved = 0 /\ clean = 0

\* A member, or a merge, changes the session.
Change ==
    /\ \E content \in SUBSET Item : history' = Append(history, content)
    /\ UNCHANGED <<branch, saved, clean>>

\* A content of the session replaces the branch.
Save ==
    /\ \E n \in 0..Now : branch' = At(n)
    /\ branch \ branch' \subseteq TakenOut
    /\ UNCHANGED <<history, saved, clean>>

\* Others add to the branch.
Outside ==
    /\ branch' \in SUBSET Item /\ branch \subseteq branch'
    /\ UNCHANGED <<history, saved, clean>>

\* The room shows a content as saved.
Record ==
    /\ saved' \in saved..Now /\ clean' \in saved'..Now
    /\ At(clean') = At(saved')
    /\ At(saved') \ branch \subseteq TakenOut
    /\ UNCHANGED <<history, branch>>

Next == Change \/ Save \/ Outside \/ Record

Spec == Init /\ [][Next]_vars

\* What is shown as saved is on the branch, but for what members took out.
SavedIsKept == At(saved) \ branch \subseteq TakenOut /\ At(clean) = At(saved)
=============================================================================
