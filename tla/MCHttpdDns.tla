----------------------------- MODULE MCHttpdDns -----------------------------
(* A table of two chains, ids that wrap around after three requests (so    *)
(* that the chains are not used evenly, as in the code), three tasks for   *)
(* two pending requests at most, two of which ask for the same name, and   *)
(* requests for both kinds of records or for A alone.                      *)
EXTENDS HttpdDns

MCQueryFlags == {{"A", "AAAA"}, {"A"}}

MCPeerName == [t \in Tasks |-> IF t = "t3" THEN "n2" ELSE "n1"]
=============================================================================
