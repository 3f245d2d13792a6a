------------------------------ MODULE Positions ------------------------------
(***************************************************************************)
(* Sets of positions in a sequence, taken one after the other as a loop    *)
(* over the sequence meets them.                                           *)
(***************************************************************************)
EXTENDS Integers, FiniteSets

Increasing(s) == \A i, j \in DOMAIN s : i < j => s[i] < s[j]

\* The positions in the order of the sequence: there is one such enumeration.
Ascending(S) == CHOOSE s \in [1..Cardinality(S) -> S] : Increasing(s)
=============================================================================
