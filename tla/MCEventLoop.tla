----------------------------- MODULE MCEventLoop -----------------------------
(* Two timer slots, as in a slave that also saves. *)
EXTENDS EventLoop

MCDelays == {2, 5}
=============================================================================
