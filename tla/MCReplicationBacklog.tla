----------------------- MODULE MCReplicationBacklog -----------------------
(* Instance of ReplicationBacklog for TLC: a 16-byte ring, so that the drop *)
(* of Cap/8 = 2 bytes exceeds the shortest frame, with a short frame, one   *)
(* that wraps the ring, one as large as the ring and one larger than it.    *)
EXTENDS ReplicationBacklog

MCByte == 0..17
MCFrames ==
    {<<1>>, <<2, 3, 4, 5, 6>>, [i \in 1..16 |-> i], [i \in 1..17 |-> i]}
=============================================================================
