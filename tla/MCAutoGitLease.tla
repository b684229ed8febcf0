---------------------------- MODULE MCAutoGitLease ----------------------------
(***************************************************************************)
(* Sockets for TLC.  MCSocket: of two devices, the one that elections      *)
(* prefer may connect again while the room has not noticed that its first  *)
(* socket is gone.  OneSocket: one device, connected by one socket.        *)
(***************************************************************************)
EXTENDS AutoGitLease

MCSocket == {<<1, 1>>, <<1, 2>>, <<2, 1>>}
OneSocket == {<<1, 1>>}
=============================================================================
