------------------------------ MODULE HelperMC ------------------------------
(* A small instance of Helper: two different blocks, two tunnels.            *)
EXTENDS Helper

CONSTANTS w1, w2

Ask0 == [verb |-> "status", hold |-> None, names |-> FALSE, keep |-> FALSE]
MCRequests ==
  {[Ask0 EXCEPT !.verb = v] : v \in {"line", "line-stop", "release", "status"}}
    \cup {[Ask0 EXCEPT !.verb = "stop", !.keep = k] : k \in BOOLEAN}
    \cup {[Ask0 EXCEPT !.verb = "start", !.hold = w, !.names = TRUE] : w \in {w1, w2, None}}
=============================================================================
