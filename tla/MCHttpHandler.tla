--------------------------- MODULE MCHttpHandler ---------------------------
(* Requests of which each takes another way through HttpHandler.           *)
EXTENDS HttpHandler

Page == [head |-> 1, body |-> 0, lf |-> FALSE, parses |-> TRUE, path |-> "file",
         version |-> TRUE, method |-> "GET", query |-> FALSE, check |-> "ok",
         ranges |-> 0]
TwoParts == [Page EXCEPT !.ranges = 2]
Listing == [Page EXCEPT !.path = "directory"]
Upload == [Page EXCEPT !.path = "program", !.method = "POST", !.body = 2]
Endless == [Page EXCEPT !.head = 2]
Missing == [Page EXCEPT !.path = "missing"]
ToDirectory == [Listing EXCEPT !.method = "POST"]

MixedRequests == {TwoParts, Listing, Upload, Endless, Missing, ToDirectory}
Uploads == {Upload}
=============================================================================
