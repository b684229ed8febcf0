-------------------------- MODULE MCSessionLifecycle --------------------------
(***************************************************************************)
(* Small instances of SessionLifecycle for TLC.                            *)
(***************************************************************************)
EXTENDS SessionLifecycle

\* Bound: a run has either a departure or an accepted batch.  Neither is a step
\* that fairness asks for.
Apart == departures = 0 \/ head = 0

ApartSpec == LifecycleInit /\ [][LifecycleNext /\ Apart']_lifecycleVars /\ LifecycleFairness
=============================================================================
