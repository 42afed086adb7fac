--------------------------- MODULE MCAsyncTCPClient ---------------------------
(***************************************************************************)
(* Small instances of AsyncTCPClient for TLC.                              *)
(***************************************************************************)
EXTENDS AsyncTCPClient, TLC

CONSTANTS s1, s2, t1, t2, u1, u2

\* Every request has an id of its own, as session.h asks for.
UniqueIds == s1 :> 1 @@ s2 :> 2

OneId == s1 :> 1

=============================================================================
