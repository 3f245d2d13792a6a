---------------------------- MODULE MCStartupCmd ----------------------------
(***************************************************************************)
(* Small instances of StartupCmd: every file up to a length, a buffer of a *)
(* few bytes.                                                              *)
(***************************************************************************)
EXTENDS StartupCmd
=============================================================================
