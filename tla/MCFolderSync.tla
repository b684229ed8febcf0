---------------------------- MODULE MCFolderSync ----------------------------
(***************************************************************************)
(* A small instance of FolderSync for TLC.                                 *)
(***************************************************************************)
EXTENDS FolderSync

\* Bound: four edits and removals by a peer, or three of these, the user's removal
\* and the crash.
Apart ==
    LET rare == removals + crashes
    IN  saves + peerEdits + peerRemovals + rare <= IF rare = 0 THEN 4 ELSE 3

ApartSpec == FolderInit /\ [][FolderNext /\ Apart']_folderVars /\ FolderFairness
=============================================================================
