---------------------------- MODULE MCSessionSync ----------------------------
(***************************************************************************)
(* Small instances of SessionSync for TLC.                                 *)
(***************************************************************************)
EXTENDS SessionSync

CONSTANTS c1, c2, b2

\* b2 is the edit of c2; the others are edits of c1.
AuthorOf == [b \in Batch |-> IF b = b2 THEN c2 ELSE c1]

\* Bound of the liveness run: either a device fails and snapshots are published
\* beside one edit, or an outside leader integrates beside two.  None of the
\* steps it keeps back is one that fairness asks for.
Apart ==
    \/ generation = 0 /\ dev[c2].draft = NoBatch /\ b2 \notin minted
    \/ faults = 0 /\ barriers = {}

ApartSpec == SyncInit /\ [][SyncNext /\ Apart']_syncVars /\ SyncFairness
=============================================================================
