---------------------------- MODULE SelectionMC -----------------------------
(* Two lists: the first changes its order, its lines and their texts.      *)
EXTENDS Selection, SequencesExt

CONSTANTS A, B, p, a1, a2, x, y, de, h1

SomeHosts == A :> {a1, a2, Refused, Down}

SomeLines == (A :> (a1 :> <<[label |-> x, raw |-> a1]>>
                 @@ a2 :> <<[label |-> y, raw |-> a2], [label |-> x, raw |-> a2]>>))
          @@ (B :> (B :> <<[label |-> x, raw |-> B]>>))

SomeCountry == [l \in Labels |-> de]

ByLabel == [scope |-> A, selector |-> x]

\* p is what the URLs of both begin with.
SomeMatches == None :> {A, B} @@ A :> {A} @@ p :> {A, B}

ByIndex == [scope |-> p, selector |-> 2]

\* A first start, and a start of what an earlier process left: lists and a
\* selection that was not resolved yet.
SomeStored == {[subs |-> <<>>, sel |-> None],
               [subs |-> <<A>>, sel |-> Selected(ByLabel, None, None)],
               [subs |-> <<A, B>>, sel |-> Selected(ByIndex, None, None)]}

SomeAsks == {ByIndex}

\* The elements that Only keeps are those SelectSeq keeps.
ASSUME OnlyIsSelectSeq ==
  \A s \in BoundedSeq({A, B, x}, 4) : \A S \in SUBSET {A, B, x} :
    Only(s, S) = SelectSeq(s, LAMBDA e : e \in S)
=============================================================================
