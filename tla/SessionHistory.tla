--------------------------- MODULE SessionHistory ---------------------------
(***************************************************************************)
(* What the session room promises its members, whatever messages, retries, *)
(* integrations, compactions and fences it goes through: one history of    *)
(* batches that only grows at its end, in which a batch has at most one    *)
(* place; a durable prefix that only advances; and a frozen session, whose *)
(* whole history is durable and does not change until it is thawed.        *)
(***************************************************************************)
EXTENDS Integers

CONSTANT Batch

VARIABLES
    place,      \* batch -> its place in the history, 0 if it has none
    head,       \* the last place taken
    durable,    \* the published snapshot holds every place up to it, -1 if none
    frozen

vars == <<place, head, durable, frozen>>

Init ==
    /\ place = [b \in Batch |-> 0]
    /\ head = 0
    /\ durable = -1
    /\ frozen = FALSE

\* Any number of new batches take the places after the head, one each.
Extend ==
    /\ ~frozen
    /\ head' \in Nat /\ head' > head
    /\ place' \in [Batch -> 0..head']
    /\ \A b \in Batch : IF place[b] # 0 THEN place'[b] = place[b]
                        ELSE place'[b] = 0 \/ place'[b] > head
    /\ \A s \in (head + 1)..head' : \E b \in Batch : place'[b] = s
    /\ \A b1, b2 \in Batch : place'[b1] = place'[b2] /\ place'[b1] > head => b1 = b2
    /\ UNCHANGED <<durable, frozen>>

\* A snapshot of a prefix is published.
Publish ==
    /\ ~frozen
    /\ durable' \in durable..head
    /\ UNCHANGED <<place, head, frozen>>

\* Only a session whose whole history is durable can be frozen.
Freeze ==
    /\ ~frozen /\ durable = head
    /\ frozen' = TRUE
    /\ UNCHANGED <<place, head, durable>>

Thaw ==
    /\ frozen
    /\ frozen' = FALSE
    /\ UNCHANGED <<place, head, durable>>

Next == Extend \/ Publish \/ Freeze \/ Thaw

Spec == Init /\ [][Next]_vars
=============================================================================
