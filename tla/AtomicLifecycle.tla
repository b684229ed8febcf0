-------------------------- MODULE AtomicLifecycle ---------------------------
(***************************************************************************)
(* What pausing and closing would be with one store instead of two: the    *)
(* session takes edits until, in one step, it gets its new state and its   *)
(* frontier, the last edit in it.  While it is settled there, no edit gets *)
(* in.  A forced pause or close settles nothing; a resume opens the        *)
(* session again.                                                          *)
(***************************************************************************)
EXTENDS Naturals

VARIABLES
    state,
    head,       \* edits in the session
    settled,    \* the session stands where the last pause or close left it
    frontier    \* edits it held then

vars == <<state, head, settled, frontier>>

Init ==
    /\ state = "ACTIVE" /\ head = 0
    /\ settled = FALSE /\ frontier = 0

Edit ==
    /\ ~settled
    /\ head' = head + 1
    /\ UNCHANGED <<state, settled, frontier>>

Settle(target) ==
    /\ state' = target /\ settled' = TRUE
    /\ frontier' = head
    /\ UNCHANGED head

Pause == state = "ACTIVE" /\ Settle("PAUSED")
\* A paused session closes only from where its pause has settled it.
Close == state # "CLOSED" /\ (state = "PAUSED" => settled) /\ Settle("CLOSED")

\* The manager does not wait for a frontier.
Force ==
    /\ state' \in {"PAUSED", "CLOSED"} \ {state}
    /\ settled' = FALSE
    /\ UNCHANGED <<head, frontier>>

Resume ==
    /\ state \in {"PAUSED", "DORMANT"} /\ state' = "ACTIVE"
    /\ settled' = FALSE
    /\ UNCHANGED <<head, frontier>>

\* The last member goes, or the first one comes back.
Empties ==
    /\ ~settled
    /\ \/ state = "ACTIVE" /\ state' = "DORMANT"
       \/ state = "DORMANT" /\ state' = "ACTIVE"
    /\ UNCHANGED <<head, settled, frontier>>

Next == Edit \/ Pause \/ Close \/ Force \/ Resume \/ Empties

Spec == Init /\ [][Next]_vars
=============================================================================
