---------------------------- MODULE MCAsyncServer ----------------------------
(***************************************************************************)
(* Small instances of AsyncServer for TLC.                                 *)
(***************************************************************************)
EXTENDS AsyncServer

CONSTANTS c1, c2, t1, t2

=============================================================================
