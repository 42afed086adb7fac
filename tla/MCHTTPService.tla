----------------------------- MODULE MCHTTPService -----------------------------
(***************************************************************************)
(* HTTPService with a small set of requests for TLC.                       *)
(***************************************************************************)
EXTENDS HTTPService

Shape(line, method, version, headers, resource, size) ==
    [line |-> line, method |-> method, version |-> version, headers |-> headers,
     resource |-> resource, size |-> size]

\* One request for each path through the handlers, with a second defect behind
\* the first one wherever there can be one.
PathRequests ==
    {Shape("cut", "other", "other", "cut", "missing", 0),
     Shape("long", "other", "other", "long", "file", 2),
     Shape("whole", "other", "other", "long", "file", 2),
     Shape("whole", "GET", "other", "long", "missing", 0),
     Shape("whole", "GET", "HTTP/1.1", "cut", "missing", 2),
     Shape("whole", "GET", "HTTP/1.1", "long", "unreadable", 0),
     Shape("whole", "GET", "HTTP/1.1", "cut", "rejected", 0),
     Shape("whole", "GET", "HTTP/1.1", "whole", "rejected", 0),
     Shape("whole", "GET", "HTTP/1.1", "whole", "directory", 2),
     Shape("whole", "GET", "HTTP/1.1", "whole", "missing", 0),
     Shape("whole", "GET", "HTTP/1.1", "whole", "unreadable", 2),
     Shape("whole", "GET", "HTTP/1.1", "whole", "file", 0),
     Shape("whole", "GET", "HTTP/1.1", "whole", "file", 2)}

=============================================================================
