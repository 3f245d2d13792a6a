------------------------------ MODULE MCRelay ------------------------------
(***************************************************************************)
(* Small instances of Relay.                                               *)
(***************************************************************************)
EXTENDS Relay

CONSTANTS o1, o2

MCOutputs == {o1, o2}

\* With MaxPart = 2: a single part, the longest message that is passed on,
\* and one on which the handler gives up before its end.
LimitParts == {1, 3, 5}

\* No bsread message, the shortest one, and one with one channel.
BsreadParts == {1, 2, 4}
=============================================================================
