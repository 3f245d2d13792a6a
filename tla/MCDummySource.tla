--------------------------- MODULE MCDummySource ---------------------------
(***************************************************************************)
(* Two clients, and room for a few messages.                               *)
(***************************************************************************)
EXTENDS DummySource
=============================================================================
