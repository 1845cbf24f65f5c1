------------------------------ MODULE ListsMC -------------------------------
(* Two handlers that add two lists.                                        *)
EXTENDS Lists, TLC

CONSTANTS A, B, a1, h1, h2

\* A first start.
SomeStored == {[subs |-> <<>>, sel |-> None]}

SomeHosts == (A :> {a1, Refused, Down}) @@ (B :> {a1, Down})
=============================================================================
