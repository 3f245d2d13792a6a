------------------------------ MODULE MCMemReq ------------------------------
(***************************************************************************)
(* A small instance of MemReq: a ring of five buffers, which a batch of    *)
(* two to four commands does not divide.                                   *)
(***************************************************************************)
EXTENDS MemReq
=============================================================================
