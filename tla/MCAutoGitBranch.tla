--------------------------- MODULE MCAutoGitBranch ---------------------------
(***************************************************************************)
(* A small instance of AutoGitBranch for TLC.                              *)
(***************************************************************************)
EXTENDS AutoGitBranch, TLC

\* Devices differ in nothing.
DeviceSymmetry == Permutations(Device)

\* Bound: commits from outside, rebases and faults meet two kinds at a time.
Apart == OutsideCommits = {} \/ Rebased = {} \/ faults = 0

ApartSpec == BranchInit /\ [][BranchNext /\ Apart']_branchVars
=============================================================================
