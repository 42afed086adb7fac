---------------------------- MODULE MCHTTPExchange ----------------------------
(***************************************************************************)
(* HTTPExchange with resources of each kind for TLC.                       *)
(***************************************************************************)
EXTENDS HTTPExchange

\* A file, an empty file, and a resource of every other kind.
SomeResources ==
    {[resource |-> "file", size |-> 2], [resource |-> "file", size |-> 0],
     [resource |-> "missing", size |-> 0], [resource |-> "unreadable", size |-> 0],
     [resource |-> "directory", size |-> 2], [resource |-> "rejected", size |-> 0]}

=============================================================================
