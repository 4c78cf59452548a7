-------------------------- MODULE MCThreadAofWriter --------------------------
(* Instance of ThreadAofWriter for TLC.                                      *)
EXTENDS ThreadAofWriter
=============================================================================
