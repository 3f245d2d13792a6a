----------------------------- MODULE MCRepeater -----------------------------
(***************************************************************************)
(* Small instances of Repeater.                                            *)
(***************************************************************************)
EXTENDS Repeater

CONSTANTS s1, s2, o1, h1, h2, c1, c2

MCSources == {s1, s2}
OneSource == {s1}
OneOutput == {o1}
MCIds == {h1, h2}
MCClients == {c1, c2}
NoEnd == -1
NoAddrs == {}
LongSource == {s2}
=============================================================================
