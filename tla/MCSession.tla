------------------------------ MODULE MCSession ------------------------------
(* The session of Session on small instances. *)
EXTENDS Session
==============================================================================
