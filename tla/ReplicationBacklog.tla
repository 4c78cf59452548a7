------------------------- MODULE ReplicationBacklog -------------------------
(***************************************************************************)
(* The master's replication backlog: a byte ring of fixed capacity that    *)
(* retains the newest suffix of the encoded write stream.  The stream      *)
(* offsets base (oldest retained byte) and tip (next byte to be fed) only  *)
(* grow; head is the slot of the byte at offset base.                      *)
(*                                                                         *)
(* The history variable stream keeps every byte ever fed, so that what     *)
(* CopyRange returns can be compared with what was fed.                    *)
(***************************************************************************)
EXTENDS Integers, Sequences

CONSTANTS
    Byte,       \* the values a byte of a frame can take
    Zero,       \* the byte the ring is value-initialised with
    Frames,     \* the encoded frames that may be fed
    Cap,        \* buf_.size()
    MaxTip      \* bound: no frame is fed once it would take tip past it

ASSUME BacklogAssumption ==
    /\ Cap \in Nat \ {0}
    /\ MaxTip \in Nat
    /\ Frames \subseteq Seq(Byte)
    /\ Zero \in Byte

VARIABLES
    buf,        \* buf_ : the ring, one byte per slot 0 .. Cap-1
    head,       \* head_
    base,       \* base_
    tip,        \* tip_
    stream      \* history: the bytes fed so far, offset o at stream[o+1]

vars == <<buf, head, base, tip, stream>>

Min2(a, b) == IF a <= b THEN a ELSE b
Max2(a, b) == IF a >= b THEN a ELSE b

Init ==
    /\ buf = [p \in 0..Cap-1 |-> Zero]
    /\ head = 0
    /\ base = 0
    /\ tip = 0
    /\ stream = <<>>
-----------------------------------------------------------------------------
\* (mutant) the loop leaves one byte too few room
DropBytesShort(used, need) ==
    IF used + need > Cap + 1 /\ used > 0
    THEN Min2(used, Max2(need, Cap \div 8))
    ELSE 0

\* (mutant) drops although the frame would exactly fill the ring
DropBytesEager(used, need) ==
    IF used + need >= Cap /\ used > 0
    THEN Min2(used, Max2(need, Cap \div 8))
    ELSE 0

\* bytes one pass of the DropToMakeSpace loop removes, 0 when the loop is left
DropBytes(used, need) ==
    IF used + need > Cap /\ used > 0
    THEN Min2(used, Max2(need, Cap \div 8))
    ELSE 0

\* (mutant) the second memcpy restarts at the beginning of the frame
AppendBytesRestart(b, pos, frame) ==
    LET first == Min2(Len(frame), Cap - pos)
    IN  [p \in 0..Cap-1 |->
            IF p >= pos /\ p < pos + first THEN frame[p - pos + 1]
            ELSE IF p < Len(frame) - first THEN frame[p + 1]
            ELSE b[p]]

\* AppendBytes: one memcpy up to the end of the ring, one from slot 0
AppendBytes(b, pos, frame) ==
    LET first == Min2(Len(frame), Cap - pos)
    IN  [p \in 0..Cap-1 |->
            IF p >= pos /\ p < pos + first THEN frame[p - pos + 1]
            ELSE IF p < Len(frame) - first THEN frame[first + p + 1]
            ELSE b[p]]

\* FeedEncoded of a frame larger than the ring: nothing is retained
FeedOversized(frame) ==
    /\ Len(frame) > Cap
    /\ head' = 0
    /\ tip' = tip + Len(frame)
    /\ base' = tip'
    /\ UNCHANGED buf

\* FeedEncoded of a frame that fits; the loop of DropToMakeSpace runs at most
\* once (lemma DropOnce of ReplicationBacklogProofs)
FeedFitting(frame) ==
    /\ Len(frame) <= Cap
    /\ LET drop == DropBytes(tip - base, Len(frame))
       IN  /\ head' = (head + drop) % Cap
           /\ base' = base + drop
    /\ buf' = AppendBytes(buf, (head' + (tip - base')) % Cap, frame)
    /\ tip' = tip + Len(frame)

FeedEncoded(frame) ==
    /\ frame # <<>>                      \* an empty frame changes nothing
    /\ tip + Len(frame) <= MaxTip
    /\ FeedOversized(frame) \/ FeedFitting(frame)
    /\ stream' = stream \o frame

Contains(offset) == base <= offset /\ offset <= tip

\* the bytes CopyRange puts in *out: up to the end of the ring, then from 0
CopyRange(start, end) ==
    LET off == (start - base + head) % Cap
        n   == Min2(end - start, Cap - off)
    IN  [i \in 1..(end - start) |->
            IF i <= n THEN buf[off + i - 1] ELSE buf[i - n - 1]]

Next == \E frame \in Frames : FeedEncoded(frame)

Spec == Init /\ [][Next]_vars
-----------------------------------------------------------------------------
(* The offsets and the ring have their types and the ring is never over     *)
(* full: at most Cap bytes are retained.                                    *)
TypeOK ==
    /\ buf \in [0..Cap-1 -> Byte]
    /\ head \in 0..Cap-1
    /\ base \in Nat
    /\ tip \in Nat
    /\ stream \in Seq(Byte)
    /\ base <= tip
    /\ tip - base <= Cap
    /\ Len(stream) = tip

(* Every retained offset sits in the slot the arithmetic of CopyRange looks *)
(* it up in, however often the ring has wrapped.                            *)
RingHolds ==
    \A o \in base..tip-1 : buf[(o - base + head) % Cap] = stream[o+1]

(* CopyRange between two retained offsets returns exactly the bytes that    *)
(* were fed between them: the catch-up a resyncing slave is sent is the     *)
(* stream it missed, across drops, wrap-around and oversized frames.        *)
CopyRangeFaithful ==
    \A s, e \in base..tip :
        s <= e => /\ Len(CopyRange(s, e)) = e - s
                  /\ \A i \in 1..(e - s) : CopyRange(s, e)[i] = stream[s+i]

(* Feeding drops retained bytes only when the ring could not hold them      *)
(* together with the new frame, and a frame that fits the ring then costs   *)
(* no more than its own length or an eighth of the ring, whichever is       *)
(* larger: a slave is never forced into a full resync (or a fullsync waiter *)
(* kicked) by a backlog that still had room for what it was sent.           *)
NoEarlyDrop ==
    [][base' # base =>
          /\ tip' - base > Cap
          /\ tip' - tip <= Cap => base' - base <= Max2(tip' - tip, Cap \div 8)]_vars
=============================================================================
