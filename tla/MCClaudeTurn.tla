---------------------------- MODULE MCClaudeTurn ----------------------------
(* One turn of a child that may edit two files and writes two events ahead. *)
EXTENDS ClaudeTurn
=============================================================================
