---------------------------- MODULE MCFetchControl ----------------------------
(* FetchControl with small groups.                                           *)
EXTENDS FetchControl
=============================================================================
