---------------------------- MODULE MCFileServer ----------------------------
(* Instances of FileServer.  For partB, c1 and c2 are like clientFiles/a.txt *)
(* and clientFiles/a.c, both stored as r, like encoded_a.txt, which GET saves*)
(* as c; ci is an image.  For partA, POST of x stores n, like new_x, and GET *)
(* of n stores d, like decoded_new_x.                                        *)
EXTENDS FileServer

CONSTANTS k1, k2

MCPaths == {"c1", "c2", "ci", "c", "r", "x", "n", "d"}

MCTarget == [a \in Methods \X MCPaths |->
  CASE a[2] \in {"c1", "c2"} -> "r" [] a[2] = "r" -> "c" [] a[2] = "x" -> "n" [] OTHER -> "d"]

\* Of 5 bytes, partB stores 5 characters of a text of 8, which decode to 3 bytes.
MCInitialFiles ==
  [p \in MCPaths |-> CASE p \in {"c1", "x"} -> <<97, 98, 99, 100, 101>>
                       [] p = "c2" -> <<255, 1, 128, 7, 200>>
                       [] p = "ci" -> <<1>>
                       [] OTHER -> Missing]

To(method, kind, names) == [method |-> method, kind |-> kind, names |-> names]

MCRequests == [partA |-> { To("POST", "file", <<"x">>), To("GET", "file", <<"n">>),
                           To("POST", "bare", <<"x">>), To("other", "file", <<"x">>) },
               partB |-> { To("POST", "file", <<"c1">>), To("POST", "list", <<"c2", "c1", "c">>),
                           To("GET", "file", <<"r">>), To("GET", "list", <<"r", "r">>),
                           To("POST", "image", <<"ci">>), To("other", "file", <<"c1">>) }]

MCRequestsB == [partB |-> MCRequests.partB]

=============================================================================
