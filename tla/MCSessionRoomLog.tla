-------------------------- MODULE MCSessionRoomLog --------------------------
(***************************************************************************)
(* Small instances of SessionRoomLog for TLC.                              *)
(***************************************************************************)
EXTENDS SessionRoomLog, TLC

\* Members' batches are interchangeable: no definition tells them apart.
Symmetric == Permutations(Batch)
=============================================================================
