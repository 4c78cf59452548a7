-------------------------- MODULE ReplicationProofs --------------------------
(***************************************************************************)
(* For any number of slaves, connections and keys, every capacity of the   *)
(* backlog, and any number of writes, broken links, failures and restarts: *)
(* a streaming slave has exactly the rest of the stream in flight, no      *)
(* slave is ahead of the master, no slave that waits for a snapshot is     *)
(* forgotten, and a slave whose snapshot covers its cut converges.         *)
(*                                                                         *)
(* The invariant behind the first two is LinkOK: what a connection carries *)
(* is, at every moment and in every state of the slave, what is left of a  *)
(* partial or of a full synchronization, and its frames are those of the   *)
(* log behind the offset the slave has or is about to get.                 *)
(***************************************************************************)
EXTENDS Replication, FiniteSetTheorems, SequenceTheorems, TLAPS

-----------------------------------------------------------------------------
(* What a connection carries: q is what the slave has not read, st the state *)
(* of the slave, off, id and rem its offset, its replid and its              *)
(* backlog_remaining_.                                                       *)

FullReply(st, q) == st = "kWaitFullresync" /\ q # <<>> /\ q[1].t = "fullresync"

\* the items before the frames
Headers(st, q) ==
    CASE st = "kWaitFullresync" -> IF q # <<>> /\ q[1].t = "continue" THEN 1 ELSE 4
      [] st = "kRecvRdbHeader" -> 3
      [] st = "kRecvRdbBody" -> 2
      [] st = "kRecvBacklogHeader" -> 1
      [] OTHER -> 0

\* the offset of the first frame and the replid of the stream
OffsetOf(st, q, off) == IF FullReply(st, q) THEN q[1].off ELSE off
IdOf(st, q, id) == IF FullReply(st, q) THEN q[1].replid ELSE id

FramesAfter(q, h) == \A i \in 1..Len(q) : i > h => q[i] \in FrameSet

\* What is left of a full synchronization when h items before the frames are:
\* the reply, the header of the file, the file, the header of the backlog.
\* It may not be sent yet beyond the second one, and an error line may end it.
FullLeft(q, h) ==
    /\ h >= 3 => Len(q) >= h - 2 /\ q[h - 2].t = "bulk"
    /\ \/ Len(q) = h - 2
       \/ h >= 2 /\ Len(q) = h - 1 /\ q[h - 1].t = "err"
       \/ /\ Len(q) >= h /\ (h >= 2 => q[h - 1].t = "rdb")
          /\ \/ Len(q) = h /\ q[h].t = "err"
             \/ /\ q[h].t = "bulk" /\ q[h].n <= Len(q) - h
                /\ FramesAfter(q, h)

Shape(st, q, rem) ==
    \/ st = "kWaitFullresync" /\ q = <<>>
    \/ st = "kWaitFullresync" /\ Len(q) = 1 /\ q[1].t = "err"
    \/ st = "kWaitFullresync" /\ q # <<>> /\ q[1].t = "continue" /\ FramesAfter(q, 1)
    \/ FullReply(st, q) /\ FullLeft(q, 4)
    \/ st = "kRecvRdbHeader" /\ FullLeft(q, 3)
    \/ st = "kRecvRdbBody" /\ FullLeft(q, 2)
    \/ st = "kRecvBacklogHeader" /\ FullLeft(q, 1)
    \/ st = "kRecvBacklogBody" /\ rem <= Len(q) /\ FramesAfter(q, 0)
    \/ st = "kStreaming" /\ FramesAfter(q, 0)

\* the master has sent the part with the frames
Delivers(st, q) ==
    LET h == Headers(st, q) IN h = 0 \/ (Len(q) >= h /\ q[h].t # "err")

\* the frames are those of the log lg behind the offset o
InLog(q, h, o, lg) ==
    \A i \in 1..Len(q) : i > h => o + i - h <= Len(lg) /\ q[i] = lg[o + i - h]

\* what the slave will apply
Carries(st, q, off, id, rem, lg, rid) ==
    LET h == Headers(st, q)
        o == OffsetOf(st, q, off)
        w == IdOf(st, q, id)
    IN  /\ Shape(st, q, rem)
        /\ w <= rid
        /\ w = rid => o <= Len(lg) /\ InLog(q, h, o, lg)

\* what the master thinks of the slave
Agrees(m, ps, r, b, st, q, off, id, lg, rid) ==
    LET h == Headers(st, q)
        o == OffsetOf(st, q, off)
        w == IdOf(st, q, id)
    IN  /\ ps # NoPsync => /\ m /\ r = "none" /\ st = "kWaitFullresync" /\ q = <<>>
                           /\ ps = <<0, -1>> \/ ps = <<id, off>>
        /\ r = "kWaitRdb" => st = "kWaitFullresync" /\ q = <<>>
        /\ r = "kSendingRdb" => w = rid /\ o = b /\ h >= 2 /\ Len(q) = h - 2
        /\ r = "kSynced" => Delivers(st, q) /\ w = rid /\ Len(q) - h = Len(lg) - o
        /\ m /\ Delivers(st, q) => r = "kSynced"

Link(m, ps, r, b, st, q, off, id, rem, lg, rid) ==
    /\ Carries(st, q, off, id, rem, lg, rid)
    /\ Agrees(m, ps, r, b, st, q, off, id, lg, rid)

LinkOK(c) ==
    LET s == peer[c]
    IN  Link(mopen[c], psync[c], reg[c], start[c], state[s], chan[c],
             repl_offset[s], master_replid[s], backlog_remaining[s], log, replid)

Linked(c) == peer[c] # NoSlave

Links == \A c \in Conns : Linked(c) => LinkOK(c)

\* the two ends of a connection
Ends == /\ \A c, d \in Conns : Linked(c) /\ peer[c] = peer[d] => c = d
        /\ \A c \in Conns : ~Linked(c) => chan[c] = <<>>
        /\ \A c \in Conns : reg[c] # "none" => mopen[c] /\ psync[c] = NoPsync

\* no slave has a replid or an offset that the master did not give it
NotAhead == \A s \in Slaves :
    /\ master_replid[s] <= replid
    /\ master_replid[s] = replid => repl_offset[s] <= tip

\* the fullsync bookkeeping
Cuts == /\ fullsync_start <= tip
        /\ \A c \in Conns : reg[c] = "kWaitRdb" => start[c] <= tip
        /\ save_started => child.path # "none"

-----------------------------------------------------------------------------
(* The stores: d is the master's, lg the log, u the number of writes that    *)
(* were not fed to it.                                                       *)

\* no frame behind the first p of the log is one of key k
Untouched(k, p, lg) == \A i \in 1..Len(lg) : i > p => lg[i].key # k

\* what the log says of a key since the last write that was not fed to it
Says(lg, d, hole) == \A k \in Keys, i \in 1..Len(lg) :
    lg[i].key = k /\ i > hole /\ Untouched(k, i, lg) => d[k] = lg[i].val

\* a store sd that the frames behind offset p bring up to date
Follows(sd, p, lg, d) == \A k \in Keys : Untouched(k, p, lg) => sd[k] = d[k]

\* an image of the running master, brought up to date by the log
Fits(img, lg, d, u) == /\ img.pos <= Len(lg)
                       /\ img.gen = u => Follows(img.data, img.pos, lg, d)

\* the images on their way to a slave that follows the stream w
RdbsFit(q, w, rid, lg, d, u) == \A i \in 1..Len(q) : q[i].t = "rdb" =>
    /\ q[i].img.gen <= u
    /\ w = rid => Fits(q[i].img, lg, d, u)

ChildFits == /\ child.img.gen <= unfed
             /\ child.path # "none" => Fits(child.img, log, data, unfed)

FileFits(c) == /\ file[c].gen <= unfed
               /\ reg[c] = "kSendingRdb" => Fits(file[c], log, data, unfed)

FlightFits(c) == Linked(c) =>
    RdbsFit(chan[c], IdOf(state[peer[c]], chan[c], master_replid[peer[c]]),
            replid, log, data, unfed)

Replica(s) ==
    /\ loaded_gen[s] <= unfed
    /\ state[s] \in {"kRecvRdbHeader", "kRecvRdbBody"} => ~covers[s]
    /\ covers[s] /\ loaded_gen[s] = unfed =>
         /\ last_hole <= repl_offset[s] /\ master_replid[s] = replid
         /\ Follows(sdata[s], repl_offset[s], log, data)

LinkInv == TypeOK /\ Links /\ Ends /\ NotAhead /\ Cuts /\ WaiterHasSave
StoreInv == /\ Says(log, data, last_hole)
            /\ ChildFits
            /\ \A c \in Conns : FileFits(c) /\ FlightFits(c)
            /\ \A s \in Slaves : Replica(s)
-----------------------------------------------------------------------------
(* What happens to one connection, step by step: each lemma takes a link in  *)
(* a state that is right and what one step does to it, and shows that it is  *)
(* right again.                                                              *)

Regs == {"none", "kWaitRdb", "kSendingRdb", "kSynced"}

Fixed(off, id, rem, lg, rid) ==
    /\ off \in Nat /\ id \in Nat /\ rem \in Nat
    /\ lg \in Seq(FrameSet) /\ rid \in Nat

Typed(m, ps, r, b, st, q, off, id, rem, lg, rid) ==
    /\ m \in BOOLEAN /\ ps \in Request \cup {NoPsync} /\ r \in Regs /\ b \in Nat
    /\ st \in States /\ q \in Seq(Message) /\ Fixed(off, id, rem, lg, rid)

\* q2 is q with one more item
Grown(q, q2, x) ==
    /\ Len(q2) = Len(q) + 1 /\ q2[Len(q) + 1] = x
    /\ \A i \in 1..Len(q) : q2[i] = q[i]

\* q2 is q with more items, none of them an image
Lengthened(q, q2) ==
    /\ Len(q2) >= Len(q) /\ \A i \in 1..Len(q) : q2[i] = q[i]
    /\ \A i \in 1..Len(q2) : i > Len(q) => q2[i].t # "rdb"

\* q2 is q without its first n items
Shrunk(q, q2, n) ==
    /\ Len(q2) = Len(q) - n
    /\ \A i \in 1..Len(q2) : q2[i] = q[i + n]

(* The items of the protocol, by type.                                       *)
LEMMA FrameItem ==
    ASSUME NEW x \in FrameSet
    PROVE  x.t = "frame" /\ x.key \in Keys /\ x.val \in Nat /\ x \in Message
BY DEF FrameSet, Message

LEMMA ItemTypes ==
    ASSUME NEW x \in Message
    PROVE  /\ x.t \in {"frame", "continue", "err", "fullresync", "bulk", "rdb"}
           /\ x.t = "frame" => x \in FrameSet
           /\ x.t = "fullresync" => x.replid \in Nat /\ x.off \in Nat
           /\ x.t = "bulk" => x.n \in Nat
           /\ x.t = "rdb" => x.img \in Image
BY DEF Message, FrameSet, Continue, ErrLine

(* Where the frames of a connection are in the log, when the log grows, when *)
(* the frame is also sent, and when the slave reads.                         *)
LEMMA InLogLogged ==
    ASSUME NEW q \in Seq(Message), NEW h \in Nat, NEW o \in Nat,
           NEW lg \in Seq(FrameSet), NEW lg2 \in Seq(FrameSet), NEW f,
           o <= Len(lg), InLog(q, h, o, lg), Grown(lg, lg2, f)
    PROVE  o <= Len(lg2) /\ InLog(q, h, o, lg2)
<1>1. Len(lg) \in Nat /\ Len(q) \in Nat /\ Len(lg2) = Len(lg) + 1
  BY DEF Grown
<1>2. ASSUME NEW i \in 1..Len(q), i > h
      PROVE  o + i - h <= Len(lg2) /\ q[i] = lg2[o + i - h]
  <2>1. o + i - h <= Len(lg) /\ q[i] = lg[o + i - h]
    BY <1>2 DEF InLog
  <2>2. PICK j \in 1..Len(lg) : j = o + i - h
    BY <1>2, <2>1, <1>1
  <2>3. lg2[j] = lg[j]
    BY DEF Grown
  <2> QED BY <2>1, <2>2, <2>3, <1>1
<1>3. o <= Len(lg2)
  BY <1>1
<1>4. InLog(q, h, o, lg2)
  BY <1>2 DEF InLog
<1> QED BY <1>3, <1>4

LEMMA InLogPushed ==
    ASSUME NEW q \in Seq(Message), NEW q2 \in Seq(Message), NEW h \in Nat,
           NEW o \in Nat, NEW lg \in Seq(FrameSet), NEW lg2 \in Seq(FrameSet),
           NEW f, InLog(q, h, o, lg), Grown(lg, lg2, f), Grown(q, q2, f),
           Len(q) - h = Len(lg) - o
    PROVE  InLog(q2, h, o, lg2)
<1>1. /\ Len(lg) \in Nat /\ Len(q) \in Nat /\ Len(lg2) = Len(lg) + 1
      /\ Len(q2) = Len(q) + 1
  BY DEF Grown
<1>2. ASSUME NEW i \in 1..Len(q2), i > h
      PROVE  o + i - h <= Len(lg2) /\ q2[i] = lg2[o + i - h]
  <2>1. CASE i <= Len(q)
    <3>1. o + i - h <= Len(lg) /\ q[i] = lg[o + i - h] /\ q2[i] = q[i]
      BY <1>1, <1>2, <2>1 DEF InLog, Grown
    <3>2. PICK j \in 1..Len(lg) : j = o + i - h
      BY <1>2, <3>1, <1>1
    <3>3. lg2[j] = lg[j]
      BY DEF Grown
    <3> QED BY <3>1, <3>2, <3>3, <1>1
  <2>2. CASE i = Len(q) + 1
    <3>1. PICK x \in Nat, y \in Nat : x = Len(q) /\ y = Len(lg)
      BY <1>1
    <3>2. x - h = y - o /\ i = x + 1
      BY <2>2, <3>1, Zenon
    <3>3. o + i - h = y + 1
      BY <3>2
    <3> QED BY <3>1, <3>3, <2>2, <1>1 DEF Grown
  <2> QED BY <1>1, <1>2, <2>1, <2>2
<1> QED BY <1>2 DEF InLog

LEMMA InLogRead ==
    ASSUME NEW q \in Seq(Message), NEW q2 \in Seq(Message), NEW h \in Nat,
           NEW o \in Nat, NEW lg \in Seq(FrameSet), InLog(q, h, o, lg)
    PROVE  /\ Shrunk(q, q2, 1) /\ h > 0 => InLog(q2, h - 1, o, lg)
           /\ \A n \in Nat : Shrunk(q, q2, n) /\ h = 0 => InLog(q2, 0, o + n, lg)
<1>1. ASSUME Shrunk(q, q2, 1), h > 0, NEW i \in 1..Len(q2), i > h - 1
      PROVE  o + i - (h - 1) <= Len(lg) /\ q2[i] = lg[o + i - (h - 1)]
  <2>1. i + 1 \in 1..Len(q) /\ i + 1 > h /\ o + (i + 1) - h = o + i - (h - 1)
        /\ q2[i] = q[i + 1]
    BY <1>1, SMTT(40) DEF Shrunk
  <2> QED BY <2>1 DEF InLog
<1>2. ASSUME NEW n \in Nat, Shrunk(q, q2, n), h = 0, NEW i \in 1..Len(q2)
      PROVE  (o + n) + i - 0 <= Len(lg) /\ q2[i] = lg[(o + n) + i - 0]
  <2>1. i + n \in 1..Len(q) /\ i + n > 0 /\ o + (i + n) - h = (o + n) + i - 0
        /\ q2[i] = q[i + n]
    BY <1>2 DEF Shrunk
  <2> QED BY <2>1, <1>2 DEF InLog
<1> QED BY <1>1, <1>2 DEF InLog

(* The log grows and the frame is not for this slave.                        *)
LEMMA LinkLogged ==
    ASSUME NEW m, NEW ps, NEW r, NEW b, NEW st, NEW q, NEW off, NEW id, NEW rem,
           NEW lg, NEW rid, NEW f, NEW lg2 \in Seq(FrameSet),
           Typed(m, ps, r, b, st, q, off, id, rem, lg, rid),
           Link(m, ps, r, b, st, q, off, id, rem, lg, rid),
           Grown(lg, lg2, f), r # "kSynced"
    PROVE  Link(m, ps, r, b, st, q, off, id, rem, lg2, rid)
<1> DEFINE h == Headers(st, q)
           o == OffsetOf(st, q, off)
           w == IdOf(st, q, id)
<1>1. h \in 0..4
  BY DEF Headers
<1>2. o \in Nat
  BY ItemTypes DEF OffsetOf, FullReply, Typed, Fixed
<1>3. w = rid => o <= Len(lg2) /\ InLog(q, h, o, lg2)
  <2>1. w = rid => o <= Len(lg) /\ InLog(q, h, o, lg)
    BY DEF Link, Carries
  <2>2. h \in Nat /\ q \in Seq(Message) /\ lg \in Seq(FrameSet)
    BY <1>1 DEF Typed, Fixed
  <2> HIDE DEF h, o, w
  <2> QED BY <2>1, <2>2, <1>2, InLogLogged
<1>4. Carries(st, q, off, id, rem, lg2, rid)
  BY <1>3 DEF Link, Carries
<1>5. Agrees(m, ps, r, b, st, q, off, id, lg2, rid)
  BY DEF Link, Agrees
<1> QED BY <1>4, <1>5 DEF Link

(* The log grows and the frame is pushed to this slave.                      *)
LEMMA LinkPushed ==
    ASSUME NEW m, NEW ps, NEW r, NEW b, NEW st, NEW q, NEW off, NEW id, NEW rem,
           NEW lg, NEW rid, NEW f \in FrameSet, NEW lg2 \in Seq(FrameSet),
           NEW q2 \in Seq(Message),
           Typed(m, ps, r, b, st, q, off, id, rem, lg, rid),
           Link(m, ps, r, b, st, q, off, id, rem, lg, rid),
           Grown(lg, lg2, f), Grown(q, q2, f), r = "kSynced"
    PROVE  Link(m, ps, r, b, st, q2, off, id, rem, lg2, rid)
<1> DEFINE h == Headers(st, q)
           o == OffsetOf(st, q, off)
           w == IdOf(st, q, id)
<1>1. h \in 0..4 /\ (h = 0 \/ Len(q) >= h) /\ Len(q) \in Nat /\ Len(lg) \in Nat
      /\ Len(q2) = Len(q) + 1 /\ \A i \in 1..Len(q) : q2[i] = q[i]
  BY DEF Headers, Link, Agrees, Delivers, Grown, Typed, Fixed
<1>2. Headers(st, q2) = h /\ (FullReply(st, q2) <=> FullReply(st, q))
  BY <1>1, FrameItem DEF Headers, FullReply, Grown
<1>3. OffsetOf(st, q2, off) = o /\ IdOf(st, q2, id) = w
  BY <1>1, <1>2 DEF OffsetOf, IdOf, FullReply
<1>4. o \in Nat
  BY ItemTypes DEF OffsetOf, FullReply, Typed, Fixed
<1>5. w = rid /\ Len(q) - h = Len(lg) - o
  BY DEF Link, Agrees
<1>6. o <= Len(lg2) /\ InLog(q2, h, o, lg2)
  <2>1. o <= Len(lg) /\ InLog(q, h, o, lg) /\ Len(lg2) = Len(lg) + 1
    BY <1>5 DEF Link, Carries, Grown
  <2>2. h \in Nat /\ q \in Seq(Message) /\ lg \in Seq(FrameSet)
    BY <1>1 DEF Typed, Fixed
  <2> HIDE DEF h, o, w
  <2>3. o <= Len(lg2)
    BY <2>1, <1>1, <1>4
  <2> QED BY <2>1, <2>2, <2>3, <1>4, <1>5, InLogPushed
<1>7. Shape(st, q2, rem)
  <2>1. Shape(st, q, rem) /\ Delivers(st, q)
    BY DEF Link, Carries, Agrees
  <2>2. q2[Len(q) + 1] \in FrameSet
    BY DEF Grown
  <2>3. ASSUME NEW n \in 0..4, FramesAfter(q, n)
        PROVE  FramesAfter(q2, n)
    BY <2>2, <2>3, <1>1 DEF FramesAfter
  <2>4. ASSUME NEW n \in 1..4, FullLeft(q, n), Len(q) >= n, q[n].t # "err"
        PROVE  FullLeft(q2, n)
    <3>1. q[n].t = "bulk" /\ q[n].n <= Len(q) - n /\ FramesAfter(q, n)
          /\ (n >= 2 => q[n - 1].t = "rdb") /\ (n >= 3 => q[n - 2].t = "bulk")
      BY <2>4, <1>1 DEF FullLeft
    <3>2. q[n].n \in Nat
      BY <3>1, <2>4, ItemTypes DEF Typed
    <3>3. FramesAfter(q2, n)
      BY <3>1, <2>3
    <3>4. q2[n] = q[n] /\ (n >= 2 => q2[n - 1] = q[n - 1]) /\ (n >= 3 => q2[n - 2] = q[n - 2])
      <4>1. n \in 1..Len(q) /\ (n >= 2 => n - 1 \in 1..Len(q))
            /\ (n >= 3 => n - 2 \in 1..Len(q))
        BY <1>1, <2>4
      <4> QED BY <4>1, <1>1
    <3> QED BY <3>1, <3>2, <3>3, <3>4, <1>1, <2>4 DEF FullLeft
  <2> QED
    <3>1. CASE st = "kWaitFullresync" /\ q[1].t = "continue" /\ FramesAfter(q, 1) /\ h = 1
      BY <3>1, <2>3, <1>1 DEF Shape
    <3>2. CASE FullReply(st, q) /\ FullLeft(q, 4) /\ h = 4
      BY <3>2, <2>4, <2>1, <1>1, <1>2 DEF Shape, Delivers
    <3>3. CASE st = "kRecvRdbHeader" /\ FullLeft(q, 3) /\ h = 3
      BY <3>3, <2>4, <2>1, <1>1 DEF Shape, Delivers
    <3>4. CASE st = "kRecvRdbBody" /\ FullLeft(q, 2) /\ h = 2
      BY <3>4, <2>4, <2>1, <1>1 DEF Shape, Delivers
    <3>5. CASE st = "kRecvBacklogHeader" /\ FullLeft(q, 1) /\ h = 1
      BY <3>5, <2>4, <2>1, <1>1 DEF Shape, Delivers
    <3>6. CASE st = "kRecvBacklogBody" /\ rem <= Len(q) /\ FramesAfter(q, 0)
      BY <3>6, <2>3, <1>1 DEF Shape, Typed, Fixed
    <3>7. CASE st = "kStreaming" /\ FramesAfter(q, 0)
      BY <3>7, <2>3 DEF Shape
    <3> QED BY <2>1, <1>1, <3>1, <3>2, <3>3, <3>4, <3>5, <3>6, <3>7
            DEF Shape, Headers, FullReply, Delivers
<1>8. Carries(st, q2, off, id, rem, lg2, rid)
  BY <1>2, <1>3, <1>5, <1>6, <1>7 DEF Carries, Link
<1>9. Agrees(m, ps, r, b, st, q2, off, id, lg2, rid)
  <2>1. ps = NoPsync
    BY DEF Link, Agrees
  <2>2. Delivers(st, q2)
    BY <1>1, <1>2 DEF Delivers, Link, Agrees
  <2>3. Len(q2) - h = Len(lg2) - o
    BY <1>5, <1>1, <1>4, SMTT(40) DEF Grown
  <2> QED BY <2>1, <2>2, <2>3, <1>2, <1>3, <1>5 DEF Agrees
<1> QED BY <1>8, <1>9 DEF Link
(* The master's end is closed and the slave forgotten.                       *)
LEMMA LinkClosed ==
    ASSUME NEW m, NEW ps, NEW r, NEW b, NEW st, NEW q, NEW off, NEW id, NEW rem,
           NEW lg, NEW rid,
           Typed(m, ps, r, b, st, q, off, id, rem, lg, rid),
           Link(m, ps, r, b, st, q, off, id, rem, lg, rid),
           NEW b2
    PROVE  Link(FALSE, NoPsync, "none", b2, st, q, off, id, rem, lg, rid)
BY DEF Link, Agrees

(* A waiter is told that the fullsync failed and forgotten.                  *)
LEMMA LinkTold ==
    ASSUME NEW m, NEW ps, NEW r, NEW b, NEW st, NEW q, NEW off, NEW id, NEW rem,
           NEW lg, NEW rid,
           Typed(m, ps, r, b, st, q, off, id, rem, lg, rid),
           Link(m, ps, r, b, st, q, off, id, rem, lg, rid),
           r = "kWaitRdb", NEW q2 \in Seq(Message), Grown(q, q2, ErrLine)
    PROVE  Link(m, NoPsync, "none", b, st, q2, off, id, rem, lg, rid)
<1>1. /\ st = "kWaitFullresync" /\ q = <<>> /\ Len(q2) = 1 /\ q2[1].t = "err"
      /\ Headers(st, q) = 4 /\ Headers(st, q2) = 4 /\ q2 # <<>>
      /\ ~FullReply(st, q) /\ ~FullReply(st, q2)
  BY DEF Link, Agrees, Grown, ErrLine, Headers, FullReply
<1>2. Carries(st, q2, off, id, rem, lg, rid)
  BY <1>1 DEF Link, Carries, Shape, InLog, OffsetOf, IdOf
<1>3. Agrees(m, NoPsync, "none", b, st, q2, off, id, lg, rid)
  BY <1>1 DEF Agrees, Delivers
<1> QED BY <1>2, <1>3 DEF Link

(* The cut of a waiter is moved.                                             *)
LEMMA LinkAligned ==
    ASSUME NEW m, NEW ps, NEW r, NEW b, NEW st, NEW q, NEW off, NEW id, NEW rem,
           NEW lg, NEW rid,
           Typed(m, ps, r, b, st, q, off, id, rem, lg, rid),
           Link(m, ps, r, b, st, q, off, id, rem, lg, rid),
           r # "kSendingRdb", NEW b2
    PROVE  Link(m, ps, r, b2, st, q, off, id, rem, lg, rid)
BY DEF Link, Agrees

(* PSYNC makes the slave a waiter.                                           *)
LEMMA LinkWaits ==
    ASSUME NEW m, NEW ps, NEW r, NEW b, NEW st, NEW q, NEW off, NEW id, NEW rem,
           NEW lg, NEW rid,
           Typed(m, ps, r, b, st, q, off, id, rem, lg, rid),
           Link(m, ps, r, b, st, q, off, id, rem, lg, rid),
           ps # NoPsync, NEW b2
    PROVE  Link(m, NoPsync, "kWaitRdb", b2, st, q, off, id, rem, lg, rid)
<1>1. st = "kWaitFullresync" /\ q = <<>> /\ Headers(st, q) = 4 /\ ~Delivers(st, q)
  BY DEF Link, Agrees, Headers, Delivers
<1> QED BY <1>1 DEF Link, Agrees

(* PSYNC is answered with the gap.                                           *)
LEMMA LinkContinued ==
    ASSUME NEW m, NEW ps, NEW r, NEW b, NEW st, NEW q, NEW off, NEW id, NEW rem,
           NEW lg, NEW rid,
           Typed(m, ps, r, b, st, q, off, id, rem, lg, rid),
           Link(m, ps, r, b, st, q, off, id, rem, lg, rid),
           ps # NoPsync, NEW b2, NEW o \in Nat, ps[1] = rid, ps[2] = o, o <= Len(lg),
           NEW q2 \in Seq(Message), Len(q2) = 1 + (Len(lg) - o),
           q2[1].t = "continue",
           \A i \in 1..(Len(lg) - o) : q2[i + 1] = lg[o + i]
    PROVE  Link(m, NoPsync, "kSynced", b2, st, q2, off, id, rem, lg, rid)
<1>0. Len(lg) \in Nat /\ Len(q2) \in Nat /\ lg \in Seq(FrameSet)
  BY DEF Typed, Fixed
<1>1. /\ st = "kWaitFullresync" /\ off = o /\ id = rid
      /\ Headers(st, q2) = 1 /\ q2 # <<>> /\ ~FullReply(st, q2)
  BY <1>0 DEF Link, Agrees, Headers, FullReply, Typed, Fixed
<1>2. ASSUME NEW i \in 1..Len(q2), i > 1
      PROVE  q2[i] \in FrameSet /\ o + i - 1 <= Len(lg) /\ q2[i] = lg[o + i - 1]
  <2>1. PICK j \in 1..(Len(lg) - o) : i = j + 1
    BY <1>0, <1>2
  <2>2. q2[i] = lg[o + j] /\ o + j \in 1..Len(lg) /\ o + i - 1 = o + j
    BY <1>0, <2>1
  <2> QED BY <1>0, <2>2
<1>3. Carries(st, q2, off, id, rem, lg, rid)
  <2>1. Shape(st, q2, rem)
    BY <1>1, <1>2 DEF Shape, FramesAfter
  <2>2. InLog(q2, 1, o, lg)
    BY <1>2 DEF InLog
  <2>3. OffsetOf(st, q2, off) = o /\ IdOf(st, q2, id) = rid
    BY <1>1 DEF OffsetOf, IdOf
  <2>4. rid <= rid
    BY DEF Typed, Fixed
  <2> QED BY <2>1, <2>2, <2>3, <2>4, <1>1 DEF Carries
<1>4. Agrees(m, NoPsync, "kSynced", b2, st, q2, off, id, lg, rid)
  <2>1. Delivers(st, q2)
    BY <1>0, <1>1 DEF Delivers
  <2>2. OffsetOf(st, q2, off) = o /\ IdOf(st, q2, id) = rid
    BY <1>1 DEF OffsetOf, IdOf
  <2>3. Len(q2) - 1 = Len(lg) - o
    BY <1>0
  <2> QED BY <2>1, <2>2, <2>3, <1>1 DEF Agrees
<1> QED BY <1>3, <1>4 DEF Link

(* The file of a waiter is announced, and opened or not.                     *)
LEMMA LinkAnnounced ==
    ASSUME NEW m, NEW ps, NEW r, NEW b, NEW st, NEW q, NEW off, NEW id, NEW rem,
           NEW lg, NEW rid,
           Typed(m, ps, r, b, st, q, off, id, rem, lg, rid),
           Link(m, ps, r, b, st, q, off, id, rem, lg, rid),
           r = "kWaitRdb", b <= Len(lg),
           NEW q2 \in Seq(Message), Len(q2) >= 2, q2[1] = FullResync(rid, b),
           q2[2].t = "bulk"
    PROVE  /\ Len(q2) = 2
               => Link(m, NoPsync, "kSendingRdb", b, st, q2, off, id, rem, lg, rid)
           /\ Len(q2) = 3 /\ q2[3].t = "err"
               => Link(m, NoPsync, "none", b, st, q2, off, id, rem, lg, rid)
<1>0. Len(lg) \in Nat /\ Len(q2) \in Nat /\ b \in Nat /\ rid \in Nat
  BY DEF Typed, Fixed
<1>1. /\ st = "kWaitFullresync" /\ q2[1].t = "fullresync" /\ q2[1].replid = rid
      /\ q2[1].off = b /\ q2 # <<>>
  BY <1>0 DEF Link, Agrees, FullResync
<1>2. FullReply(st, q2) /\ Headers(st, q2) = 4
  BY <1>1 DEF FullReply, Headers
<1>3. OffsetOf(st, q2, off) = b /\ IdOf(st, q2, id) = rid
  BY <1>1, <1>2 DEF OffsetOf, IdOf
<1>4. ASSUME Len(q2) = 2 \/ (Len(q2) = 3 /\ q2[3].t = "err")
      PROVE  Carries(st, q2, off, id, rem, lg, rid) /\ ~Delivers(st, q2)
  <2>1. FullLeft(q2, 4)
    BY <1>4 DEF FullLeft
  <2>2. InLog(q2, 4, b, lg)
    BY <1>4 DEF InLog
  <2>3. ~Delivers(st, q2)
    BY <1>2, <1>4 DEF Delivers
  <2> QED BY <2>1, <2>2, <2>3, <1>0, <1>2, <1>3 DEF Carries, Shape
<1>5. ASSUME Len(q2) = 2
      PROVE  Agrees(m, NoPsync, "kSendingRdb", b, st, q2, off, id, lg, rid)
  BY <1>4, <1>5, <1>2, <1>3 DEF Agrees
<1>6. ASSUME Len(q2) = 3, q2[3].t = "err"
      PROVE  Agrees(m, NoPsync, "none", b, st, q2, off, id, lg, rid)
  BY <1>4, <1>6 DEF Agrees
<1> QED BY <1>4, <1>5, <1>6 DEF Link

(* A new master process knows nothing of the link.                           *)
LEMMA LinkOrphaned ==
    ASSUME NEW m, NEW ps, NEW r, NEW b, NEW st, NEW q, NEW off, NEW id, NEW rem,
           NEW lg, NEW rid,
           Typed(m, ps, r, b, st, q, off, id, rem, lg, rid),
           Link(m, ps, r, b, st, q, off, id, rem, lg, rid),
           NEW b2, NEW lg2
    PROVE  Link(FALSE, NoPsync, "none", b2, st, q, off, id, rem, lg2, rid + 1)
<1>1. IdOf(st, q, id) <= rid /\ Shape(st, q, rem)
  BY DEF Link, Carries
<1>2. IdOf(st, q, id) \in Nat /\ rid \in Nat
  BY ItemTypes DEF IdOf, FullReply, Typed, Fixed
<1>3. Carries(st, q, off, id, rem, lg2, rid + 1)
  <2> DEFINE w == IdOf(st, q, id)
  <2>1. w <= rid + 1 /\ w # rid + 1
    <3> HIDE DEF w
    <3> QED BY <1>1, <1>2 DEF w
  <2> QED BY <2>1, <1>1 DEF Carries
<1>4. Agrees(FALSE, NoPsync, "none", b2, st, q, off, id, lg2, rid + 1)
  BY DEF Agrees
<1> QED BY <1>3, <1>4 DEF Link

(* A fresh connection.                                                       *)
LEMMA LinkFresh ==
    ASSUME NEW ps, NEW b, NEW off \in Nat, NEW id \in Nat,
           NEW lg \in Seq(FrameSet), NEW rid \in Nat,
           id <= rid, id = rid => off <= Len(lg), ps = <<0, -1>> \/ ps = <<id, off>>
    PROVE  Link(TRUE, ps, "none", b, "kWaitFullresync", <<>>, off, id, 0, lg, rid)
<1> DEFINE st == "kWaitFullresync"
           q == <<>>
<1>1. Headers(st, q) = 4 /\ ~FullReply(st, q) /\ Len(q) = 0
  BY DEF Headers, FullReply
<1>2. Carries(st, q, off, id, 0, lg, rid)
  BY <1>1 DEF Carries, Shape, InLog, OffsetOf, IdOf
<1>3. Agrees(TRUE, ps, "none", b, st, q, off, id, lg, rid)
  BY <1>1 DEF Agrees, Delivers
<1> QED BY <1>2, <1>3 DEF Link

\* q2 is q, one item more, and the backlog behind b with its header
BacklogSent(q, q2, lg, b) ==
    /\ Len(q2) = Len(q) + 2 + (Len(lg) - b)
    /\ q2[Len(q) + 2] = BulkHeader(Len(lg) - b)
    /\ \A i \in 1..(Len(lg) - b) : q2[Len(q) + 2 + i] = lg[b + i]

(* Where a slave can be while its file is being sent.                        *)
LEMMA SendingShape ==
    ASSUME NEW st, NEW q \in Seq(Message), NEW rem, Shape(st, q, rem),
           Headers(st, q) >= 2, Len(q) = Headers(st, q) - 2
    PROVE  /\ FullLeft(q, Headers(st, q)) /\ Headers(st, q) \in 2..4
           /\ \/ FullReply(st, q) /\ Headers(st, q) = 4
              \/ st = "kRecvRdbHeader" /\ Headers(st, q) = 3
              \/ st = "kRecvRdbBody" /\ Headers(st, q) = 2
BY DEF Shape, Headers, FullReply

(* The backlog follows the file, or an error line does.                      *)
LEMMA LinkSent ==
    ASSUME NEW m, NEW ps, NEW r, NEW b, NEW st, NEW q, NEW off, NEW id, NEW rem,
           NEW lg, NEW rid,
           Typed(m, ps, r, b, st, q, off, id, rem, lg, rid),
           Link(m, ps, r, b, st, q, off, id, rem, lg, rid),
           r = "kSendingRdb", NEW q2 \in Seq(Message), Len(q2) >= Len(q) + 2,
           \A i \in 1..Len(q) : q2[i] = q[i], q2[Len(q) + 1].t = "rdb"
    PROVE  /\ BacklogSent(q, q2, lg, b)
               => Link(m, ps, "kSynced", b, st, q2, off, id, rem, lg, rid)
           /\ Len(q2) = Len(q) + 2 /\ q2[Len(q) + 2].t = "err"
               => Link(m, ps, "none", b, st, q2, off, id, rem, lg, rid)
<1> DEFINE h == Headers(st, q)
<1>0. /\ Len(lg) \in Nat /\ Len(q2) \in Nat /\ Len(q) \in Nat /\ b \in Nat /\ rid \in Nat
      /\ q \in Seq(Message) /\ lg \in Seq(FrameSet)
  BY DEF Typed, Fixed
<1>1. Shape(st, q, rem) /\ h >= 2 /\ Len(q) = h - 2 /\ ps = NoPsync
  BY DEF Link, Carries, Agrees
<1>2. /\ FullLeft(q, h) /\ h \in 2..4
      /\ \/ FullReply(st, q) /\ h = 4
         \/ st = "kRecvRdbHeader" /\ h = 3
         \/ st = "kRecvRdbBody" /\ h = 2
  BY <1>0, <1>1, SendingShape
<1>3. Headers(st, q2) = h /\ (FullReply(st, q) <=> FullReply(st, q2)) /\ q2 # <<>>
      /\ (FullReply(st, q) => q2[1] = q[1])
  BY <1>0, <1>1, <1>2, SMTT(40) DEF Headers, FullReply
<1>4. /\ OffsetOf(st, q, off) = b /\ IdOf(st, q, id) = rid
      /\ OffsetOf(st, q2, off) = b /\ IdOf(st, q2, id) = rid /\ b <= Len(lg)
  <2>1. OffsetOf(st, q, off) = b /\ IdOf(st, q, id) = rid /\ b <= Len(lg)
    BY DEF Link, Agrees, Carries
  <2> QED BY <2>1, <1>3 DEF OffsetOf, IdOf
<1>5. ASSUME FullLeft(q2, h), InLog(q2, h, b, lg)
      PROVE  Carries(st, q2, off, id, rem, lg, rid)
  <2>1. Shape(st, q2, rem)
    BY <1>5, <1>2, <1>3 DEF Shape
  <2> QED BY <2>1, <1>0, <1>3, <1>4, <1>5 DEF Carries
<1>6. (h >= 3 => q2[h - 2].t = "bulk") /\ q2[h - 1].t = "rdb" /\ Len(q2) >= h
  <2> HIDE DEF h
  <2>1. h >= 3 => q[h - 2].t = "bulk"
    BY <1>2 DEF FullLeft
  <2>2. h >= 3 => h - 2 \in 1..Len(q)
    BY <1>0, <1>1, <1>2
  <2>3. h - 1 = Len(q) + 1 /\ h = Len(q) + 2
    BY <1>0, <1>1, <1>2
  <2> QED BY <2>1, <2>2, <2>3, <1>0
<1>7. ASSUME BacklogSent(q, q2, lg, b)
      PROVE  Link(m, ps, "kSynced", b, st, q2, off, id, rem, lg, rid)
  <2>1. Len(q) + 2 = h /\ Len(q2) = h + (Len(lg) - b)
    BY <1>0, <1>1, <1>2, <1>7 DEF BacklogSent
  <2>2. ASSUME NEW i \in 1..Len(q2), i > h
        PROVE  q2[i] \in FrameSet /\ b + i - h <= Len(lg) /\ q2[i] = lg[b + i - h]
    <3> HIDE DEF h
    <3>1. PICK j \in 1..(Len(lg) - b) : i = h + j
      BY <1>0, <1>2, <1>4, <2>1, <2>2
    <3>2. q2[h + j] = lg[b + j]
      BY <1>7, <2>1 DEF BacklogSent
    <3>3. b + j \in 1..Len(lg) /\ b + i - h = b + j
      BY <1>0, <1>2, <1>4, <3>1
    <3> QED BY <1>0, <3>1, <3>2, <3>3
  <2>3. q2[h].t = "bulk" /\ q2[h].n = Len(lg) - b
    BY <1>7, <2>1 DEF BacklogSent, BulkHeader
  <2>4. FullLeft(q2, h) /\ InLog(q2, h, b, lg)
    <3> HIDE DEF h
    <3>1. FramesAfter(q2, h) /\ InLog(q2, h, b, lg)
      BY <2>2 DEF FramesAfter, InLog
    <3>2. q2[h].n <= Len(q2) - h
      BY <2>1, <2>3, <1>0, <1>2, <1>4
    <3>3. Len(q2) >= h - 2
      BY <1>6, <1>2, <1>0
    <3> QED BY <3>1, <3>2, <3>3, <2>3, <1>6 DEF FullLeft
  <2>5. Delivers(st, q2)
    BY <1>3, <1>6, <2>3 DEF Delivers
  <2>6. Len(q2) - h = Len(lg) - b
    <3> HIDE DEF h
    <3> QED BY <2>1, <1>0, <1>2
  <2>7. Agrees(m, ps, "kSynced", b, st, q2, off, id, lg, rid)
    BY <2>5, <2>6, <1>1, <1>3, <1>4 DEF Agrees
  <2> QED BY <1>5, <2>4, <2>7 DEF Link
<1>8. ASSUME Len(q2) = Len(q) + 2, q2[Len(q) + 2].t = "err"
      PROVE  Link(m, ps, "none", b, st, q2, off, id, rem, lg, rid)
  <2>1. Len(q2) = h /\ q2[h].t = "err"
    BY <1>0, <1>1, <1>2, <1>8
  <2>2. FullLeft(q2, h) /\ InLog(q2, h, b, lg)
    BY <2>1, <1>2, <1>6 DEF FullLeft, InLog
  <2>3. ~Delivers(st, q2)
    BY <2>1, <1>2, <1>3 DEF Delivers
  <2>4. Agrees(m, ps, "none", b, st, q2, off, id, lg, rid)
    BY <2>3, <1>1 DEF Agrees
  <2>5. Carries(st, q2, off, id, rem, lg, rid)
    BY <1>5, <2>2
  <2> QED BY <2>4, <2>5 DEF Link
<1> QED BY <1>7, <1>8

(* The slave reads an item that comes before the frames.                     *)
LEMMA LinkReads ==
    ASSUME NEW m, NEW ps, NEW r, NEW b, NEW st, NEW q, NEW off, NEW id, NEW rem,
           NEW lg, NEW rid,
           Typed(m, ps, r, b, st, q, off, id, rem, lg, rid),
           Link(m, ps, r, b, st, q, off, id, rem, lg, rid),
           q # <<>>, NEW q2 \in Seq(Message), Shrunk(q, q2, 1),
           NEW st2 \in States, NEW off2 \in Nat, NEW id2 \in Nat, NEW rem2 \in Nat,
           Headers(st, q) > 0, Headers(st2, q2) = Headers(st, q) - 1,
           OffsetOf(st2, q2, off2) = OffsetOf(st, q, off),
           IdOf(st2, q2, id2) = IdOf(st, q, id),
           Shape(st2, q2, rem2), Delivers(st2, q2) <=> Delivers(st, q)
    PROVE  Link(m, ps, r, b, st2, q2, off2, id2, rem2, lg, rid)
<1> DEFINE h == Headers(st, q)
           o == OffsetOf(st, q, off)
           w == IdOf(st, q, id)
<1>0. /\ Len(lg) \in Nat /\ Len(q2) \in Nat /\ Len(q) \in Nat
      /\ q \in Seq(Message) /\ lg \in Seq(FrameSet) /\ Len(q) >= 1 /\ Len(q2) = Len(q) - 1
  BY DEF Typed, Fixed, Shrunk
<1>1. h \in 1..4
  BY DEF Headers
<1>2. o \in Nat
  BY ItemTypes DEF OffsetOf, FullReply, Typed, Fixed
<1>3. w <= rid /\ (w = rid => o <= Len(lg) /\ InLog(q, h, o, lg))
  BY DEF Link, Carries
<1>4. InLog(q, h, o, lg) => InLog(q2, h - 1, o, lg)
  <2> HIDE DEF h, o
  <2> QED BY <1>0, <1>1, <1>2, InLogRead
<1>5. Carries(st2, q2, off2, id2, rem2, lg, rid)
  BY <1>3, <1>4 DEF Carries
<1>6. ps = NoPsync /\ r # "kWaitRdb"
  BY DEF Link, Agrees
<1>7. r = "kSendingRdb" => w = rid /\ o = b /\ h - 1 >= 2 /\ Len(q2) = (h - 1) - 2
  <2>1. r = "kSendingRdb" => w = rid /\ o = b /\ h >= 2 /\ Len(q) = h - 2
    BY DEF Link, Agrees
  <2> HIDE DEF h, o, w
  <2> QED BY <2>1, <1>0, <1>1
<1>8. r = "kSynced" => Delivers(st2, q2) /\ w = rid /\ Len(q2) - (h - 1) = Len(lg) - o
  <2>1. r = "kSynced" => Delivers(st2, q2) /\ w = rid /\ Len(q) - h = Len(lg) - o
    BY DEF Link, Agrees
  <2> HIDE DEF h, o, w
  <2> QED BY <2>1, <1>0, <1>1, <1>2
<1>9. m /\ Delivers(st2, q2) => r = "kSynced"
  BY DEF Link, Agrees
<1>10. Agrees(m, ps, r, b, st2, q2, off2, id2, lg, rid)
  <2> HIDE DEF h, o, w
  <2>1. Headers(st2, q2) = h - 1 /\ OffsetOf(st2, q2, off2) = o /\ IdOf(st2, q2, id2) = w
    BY DEF h, o, w
  <2> QED BY <2>1, <1>6, <1>7, <1>8, <1>9 DEF Agrees
<1> QED BY <1>5, <1>10 DEF Link

(* What is left after one item.                                              *)
LEMMA LeftAfter ==
    ASSUME NEW q \in Seq(Message), NEW q2 \in Seq(Message), NEW h \in 1..4,
           q # <<>>, Shrunk(q, q2, 1)
    PROVE  /\ FramesAfter(q, h) => FramesAfter(q2, h - 1)
           /\ FullLeft(q, h) /\ h >= 2 /\ q[1].t # "err" => FullLeft(q2, h - 1)
           /\ h >= 2 => ((Len(q) >= h /\ q[h].t # "err")
                            <=> (Len(q2) >= h - 1 /\ q2[h - 1].t # "err"))
<1>0. Len(q) \in Nat /\ Len(q) >= 1 /\ Len(q2) = Len(q) - 1
      /\ \A i \in 1..Len(q2) : q2[i] = q[i + 1]
  BY DEF Shrunk
<1>1. ASSUME FramesAfter(q, h) PROVE FramesAfter(q2, h - 1)
  <2> SUFFICES ASSUME NEW i \in 1..Len(q2), i > h - 1 PROVE q2[i] \in FrameSet
    BY DEF FramesAfter
  <2>1. i + 1 \in 1..Len(q) /\ i + 1 > h /\ q2[i] = q[i + 1]
    BY <1>0
  <2> QED BY <2>1, <1>1 DEF FramesAfter
<1>2. \A i \in 2..4 : Len(q) >= i => q2[i - 1] = q[i]
  <2> SUFFICES ASSUME NEW i \in 2..4, Len(q) >= i PROVE q2[i - 1] = q[i]
    OBVIOUS
  <2>1. i - 1 \in 1..Len(q2) /\ (i - 1) + 1 = i
    BY <1>0
  <2> QED BY <1>0, <2>1
<1>3. ASSUME FullLeft(q, h), h >= 2, q[1].t # "err" PROVE FullLeft(q2, h - 1)
  <2>1. CASE h = 2
    <3>1. Len(q) >= 2 /\ ((Len(q) = 2 /\ q[2].t = "err")
                          \/ (q[2].t = "bulk" /\ q[2].n <= Len(q) - 2 /\ FramesAfter(q, 2)))
      BY <1>0, <1>3, <2>1 DEF FullLeft
    <3>2. q2[1] = q[2] /\ Len(q2) >= 1
      BY <1>0, <1>2, <3>1
    <3>3. q[2].t = "bulk" => q[2].n \in Nat
      BY <3>1, ItemTypes
    <3> QED BY <3>1, <3>2, <3>3, <2>1, <1>0, <1>1 DEF FullLeft
  <2>2. CASE h \in {3, 4}
    <3>1. /\ Len(q) >= h - 2 /\ (h = 4 => q[2].t = "bulk")
          /\ \/ Len(q) = h - 2
             \/ Len(q) = h - 1 /\ q[h - 1].t = "err"
             \/ /\ Len(q) >= h /\ q[h - 1].t = "rdb"
                /\ \/ Len(q) = h /\ q[h].t = "err"
                   \/ q[h].t = "bulk" /\ q[h].n <= Len(q) - h /\ FramesAfter(q, h)
      BY <1>0, <1>3, <2>2 DEF FullLeft
    <3>2. /\ (h = 4 => Len(q2) >= 1 /\ q2[1].t = "bulk")
          /\ (Len(q) >= h - 1 => q2[h - 2] = q[h - 1])
          /\ (Len(q) >= h => q2[h - 1] = q[h])
      <4>1. Len(q) >= h => q2[h - 1] = q[h]
        BY <1>2, <2>2
      <4>2. h - 1 \in 2..4 /\ (h - 1) - 1 = h - 2
        BY <2>2
      <4>3. Len(q) >= h - 1 => q2[h - 2] = q[h - 1]
        BY <1>2, <4>2
      <4>4. h = 4 => Len(q) >= 2 /\ q2[1] = q[2]
        BY <3>1, <1>2
      <4> QED BY <4>1, <4>3, <4>4, <3>1, <1>0
    <3>3. Len(q) >= h /\ q[h].t = "bulk" => q[h].n \in Nat
      BY ItemTypes
    <3>4. CASE h = 3
      <4>1. FramesAfter(q, 3) => FramesAfter(q2, 2)
        BY <1>1, <3>4
      <4> QED BY <3>1, <3>2, <3>3, <3>4, <4>1, <1>0 DEF FullLeft
    <3>5. CASE h = 4
      <4>1. FramesAfter(q, 4) => FramesAfter(q2, 3)
        BY <1>1, <3>5
      <4> QED BY <3>1, <3>2, <3>3, <3>5, <4>1, <1>0 DEF FullLeft
    <3> QED BY <3>4, <3>5, <2>2
  <2> QED BY <2>1, <2>2, <1>3
<1>4. ASSUME h >= 2
      PROVE (Len(q) >= h /\ q[h].t # "err") <=> (Len(q2) >= h - 1 /\ q2[h - 1].t # "err")
  BY <1>0, <1>2, <1>4
<1> QED BY <1>1, <1>3, <1>4

(* The slave reads +CONTINUE.                                                *)
LEMMA LinkReadsContinue ==
    ASSUME NEW m, NEW ps, NEW r, NEW b, NEW st, NEW q, NEW off, NEW id, NEW rem,
           NEW lg, NEW rid,
           Typed(m, ps, r, b, st, q, off, id, rem, lg, rid),
           Link(m, ps, r, b, st, q, off, id, rem, lg, rid),
           st = "kWaitFullresync", q # <<>>, q[1].t = "continue",
           NEW q2 \in Seq(Message), Shrunk(q, q2, 1)
    PROVE  Link(m, ps, r, b, "kStreaming", q2, off, id, rem, lg, rid)
<1>0. q \in Seq(Message) /\ Len(q) >= 1 /\ off \in Nat /\ id \in Nat /\ rem \in Nat
  BY DEF Typed, Fixed
<1>1. Headers(st, q) = 1 /\ ~FullReply(st, q) /\ Headers("kStreaming", q2) = 0
      /\ ~FullReply("kStreaming", q2) /\ Delivers(st, q) /\ Delivers("kStreaming", q2)
  BY <1>0 DEF Headers, FullReply, Delivers
<1>2. FramesAfter(q, 1)
  BY <1>0, <1>1 DEF Link, Carries, Shape
<1>3. FramesAfter(q2, 1 - 1)
  BY <1>0, <1>2, LeftAfter
<1>4. Shape("kStreaming", q2, rem)
  BY <1>3 DEF Shape
<1>5. /\ OffsetOf("kStreaming", q2, off) = OffsetOf(st, q, off)
      /\ IdOf("kStreaming", q2, id) = IdOf(st, q, id)
  BY <1>1 DEF OffsetOf, IdOf
<1>6. "kStreaming" \in States
  BY DEF States
<1> QED BY <1>0, <1>1, <1>4, <1>5, <1>6, LinkReads

(* The slave reads +FULLRESYNC.                                              *)
LEMMA LinkReadsFullResync ==
    ASSUME NEW m, NEW ps, NEW r, NEW b, NEW st, NEW q, NEW off, NEW id, NEW rem,
           NEW lg, NEW rid,
           Typed(m, ps, r, b, st, q, off, id, rem, lg, rid),
           Link(m, ps, r, b, st, q, off, id, rem, lg, rid),
           st = "kWaitFullresync", q # <<>>, q[1].t = "fullresync",
           NEW q2 \in Seq(Message), Shrunk(q, q2, 1)
    PROVE  Link(m, ps, r, b, "kRecvRdbHeader", q2, q[1].off, q[1].replid, rem, lg, rid)
<1>0. q \in Seq(Message) /\ Len(q) >= 1 /\ off \in Nat /\ id \in Nat /\ rem \in Nat
      /\ q[1].off \in Nat /\ q[1].replid \in Nat
  BY ItemTypes DEF Typed, Fixed
<1>1. Headers(st, q) = 4 /\ FullReply(st, q) /\ Headers("kRecvRdbHeader", q2) = 3
      /\ ~FullReply("kRecvRdbHeader", q2)
  BY <1>0 DEF Headers, FullReply
<1>2. FullLeft(q, 4)
  BY <1>0, <1>1 DEF Link, Carries, Shape
<1>3. FullLeft(q2, 4 - 1)
  BY <1>0, <1>2, LeftAfter
<1>4. Shape("kRecvRdbHeader", q2, rem)
  BY <1>3 DEF Shape
<1>5. /\ OffsetOf("kRecvRdbHeader", q2, q[1].off) = OffsetOf(st, q, off)
      /\ IdOf("kRecvRdbHeader", q2, q[1].replid) = IdOf(st, q, id)
  BY <1>1 DEF OffsetOf, IdOf
<1>6. "kRecvRdbHeader" \in States
  BY DEF States
<1>7. Delivers("kRecvRdbHeader", q2) <=> Delivers(st, q)
  <2>1. (Len(q) >= 4 /\ q[4].t # "err") <=> (Len(q2) >= 4 - 1 /\ q2[4 - 1].t # "err")
    BY <1>0, LeftAfter
  <2> QED BY <2>1, <1>1 DEF Delivers
<1> QED BY <1>0, <1>1, <1>4, <1>5, <1>6, <1>7, LinkReads

(* The slave reads the header of the file, then the file.                    *)
LEMMA LinkReadsFile ==
    ASSUME NEW m, NEW ps, NEW r, NEW b, NEW st, NEW q, NEW off, NEW id, NEW rem,
           NEW lg, NEW rid,
           Typed(m, ps, r, b, st, q, off, id, rem, lg, rid),
           Link(m, ps, r, b, st, q, off, id, rem, lg, rid),
           NEW h \in 2..3, NEW st2 \in States,
           \/ st = "kRecvRdbHeader" /\ st2 = "kRecvRdbBody" /\ h = 3
           \/ st = "kRecvRdbBody" /\ st2 = "kRecvBacklogHeader" /\ h = 2,
           q # <<>>, q[1].t # "err",
           NEW q2 \in Seq(Message), Shrunk(q, q2, 1)
    PROVE  Link(m, ps, r, b, st2, q2, off, id, rem, lg, rid)
<1>0. q \in Seq(Message) /\ Len(q) >= 1 /\ off \in Nat /\ id \in Nat /\ rem \in Nat
  BY DEF Typed, Fixed
<1>1. Headers(st, q) = h /\ ~FullReply(st, q) /\ Headers(st2, q2) = h - 1
      /\ ~FullReply(st2, q2)
  BY <1>0 DEF Headers, FullReply
<1>2. FullLeft(q, h)
  BY <1>0, <1>1 DEF Link, Carries, Shape
<1>3. FullLeft(q2, h - 1)
  BY <1>0, <1>2, LeftAfter
<1>4. Shape(st2, q2, rem)
  BY <1>3 DEF Shape
<1>5. /\ OffsetOf(st2, q2, off) = OffsetOf(st, q, off)
      /\ IdOf(st2, q2, id) = IdOf(st, q, id)
  BY <1>1 DEF OffsetOf, IdOf
<1>7. Delivers(st2, q2) <=> Delivers(st, q)
  <2>1. (Len(q) >= h /\ q[h].t # "err") <=> (Len(q2) >= h - 1 /\ q2[h - 1].t # "err")
    BY <1>0, LeftAfter
  <2> QED BY <2>1, <1>1 DEF Delivers
<1> QED BY <1>0, <1>1, <1>4, <1>5, <1>7, LinkReads

(* The slave takes an error line for a part of the file.                     *)
LEMMA LinkSwallows ==
    ASSUME NEW m, NEW ps, NEW r, NEW b, NEW st, NEW q, NEW off, NEW id, NEW rem,
           NEW lg, NEW rid,
           Typed(m, ps, r, b, st, q, off, id, rem, lg, rid),
           Link(m, ps, r, b, st, q, off, id, rem, lg, rid),
           st = "kRecvRdbBody", q # <<>>, q[1].t = "err",
           NEW q2 \in Seq(Message), Shrunk(q, q2, 1)
    PROVE  Link(m, ps, r, b, st, q2, off, id, rem, lg, rid)
<1>0. q \in Seq(Message) /\ Len(q) \in Nat /\ Len(q) >= 1
  BY DEF Typed, Fixed
<1>1. Headers(st, q) = 2 /\ ~FullReply(st, q) /\ Headers(st, q2) = 2
      /\ ~FullReply(st, q2)
  BY DEF Headers, FullReply
<1>2. FullLeft(q, 2)
  BY <1>0, <1>1 DEF Link, Carries, Shape
<1>3. Len(q) = 1 /\ Len(q2) = 0
  BY <1>0, <1>2 DEF FullLeft, Shrunk
<1>4. Shape(st, q2, rem)
  BY <1>3 DEF Shape, FullLeft
<1>5. Carries(st, q2, off, id, rem, lg, rid)
  BY <1>1, <1>3, <1>4 DEF Link, Carries, OffsetOf, IdOf, InLog
<1>6. ~Delivers(st, q2) /\ ~Delivers(st, q)
  BY <1>1, <1>3 DEF Delivers
<1>7. ps = NoPsync /\ r = "none"
  BY <1>0, <1>1, <1>3, <1>6 DEF Link, Agrees, Typed, Regs
<1>8. Agrees(m, ps, r, b, st, q2, off, id, lg, rid)
  BY <1>6, <1>7 DEF Agrees
<1> QED BY <1>5, <1>8 DEF Link

(* The slave reads the header of the backlog.                                *)
LEMMA LinkReadsBacklogHeader ==
    ASSUME NEW m, NEW ps, NEW r, NEW b, NEW st, NEW q, NEW off, NEW id, NEW rem,
           NEW lg, NEW rid,
           Typed(m, ps, r, b, st, q, off, id, rem, lg, rid),
           Link(m, ps, r, b, st, q, off, id, rem, lg, rid),
           st = "kRecvBacklogHeader", q # <<>>, q[1].t = "bulk",
           NEW q2 \in Seq(Message), Shrunk(q, q2, 1), NEW st2 \in States,
           st2 = (IF q[1].n = 0 THEN "kStreaming" ELSE "kRecvBacklogBody")
    PROVE  Link(m, ps, r, b, st2, q2, off, id, q[1].n, lg, rid)
<1>0. q \in Seq(Message) /\ Len(q) >= 1 /\ off \in Nat /\ id \in Nat /\ q[1].n \in Nat
  BY ItemTypes DEF Typed, Fixed
<1>1. Headers(st, q) = 1 /\ ~FullReply(st, q) /\ Headers(st2, q2) = 0
      /\ ~FullReply(st2, q2) /\ Delivers(st, q) /\ Delivers(st2, q2)
  BY <1>0 DEF Headers, FullReply, Delivers
<1>2. FramesAfter(q, 1) /\ q[1].n <= Len(q) - 1
  BY <1>0, <1>1 DEF Link, Carries, Shape, FullLeft
<1>3. FramesAfter(q2, 1 - 1) /\ Len(q2) = Len(q) - 1
  BY <1>0, <1>2, LeftAfter, SMTT(40) DEF Shrunk
<1>4. Shape(st2, q2, q[1].n)
  BY <1>2, <1>3 DEF Shape
<1>5. /\ OffsetOf(st2, q2, off) = OffsetOf(st, q, off)
      /\ IdOf(st2, q2, id) = IdOf(st, q, id)
  BY <1>1 DEF OffsetOf, IdOf
<1> QED BY <1>0, <1>1, <1>4, <1>5, LinkReads

(* The slave applies frames.                                                 *)
LEMMA LinkApplies ==
    ASSUME NEW m, NEW ps, NEW r, NEW b, NEW st, NEW q, NEW off, NEW id, NEW rem,
           NEW lg, NEW rid,
           Typed(m, ps, r, b, st, q, off, id, rem, lg, rid),
           Link(m, ps, r, b, st, q, off, id, rem, lg, rid),
           st \in {"kRecvBacklogBody", "kStreaming"}, NEW n \in Nat, n <= Len(q),
           NEW q2 \in Seq(Message), Shrunk(q, q2, n), NEW rem2
    PROVE  Link(m, ps, r, b, "kStreaming", q2, off + n, id, rem2, lg, rid)
<1>0. q \in Seq(Message) /\ Len(q) \in Nat /\ off \in Nat /\ lg \in Seq(FrameSet)
      /\ Len(lg) \in Nat /\ Len(q2) = Len(q) - n
  BY DEF Typed, Fixed, Shrunk
<1>1. Headers(st, q) = 0 /\ ~FullReply(st, q) /\ Headers("kStreaming", q2) = 0
      /\ ~FullReply("kStreaming", q2) /\ Delivers(st, q) /\ Delivers("kStreaming", q2)
  BY DEF Headers, FullReply, Delivers
<1>2. FramesAfter(q, 0) /\ id <= rid /\ (id = rid => off <= Len(lg) /\ InLog(q, 0, off, lg))
  BY <1>1 DEF Link, Carries, Shape, OffsetOf, IdOf
<1>3. FramesAfter(q2, 0)
  <2> SUFFICES ASSUME NEW i \in 1..Len(q2) PROVE q2[i] \in FrameSet
    BY DEF FramesAfter
  <2>1. i + n \in 1..Len(q) /\ i + n > 0 /\ q2[i] = q[i + n]
    BY <1>0 DEF Shrunk
  <2> QED BY <2>1, <1>2 DEF FramesAfter
<1>4. ASSUME id = rid
      PROVE  off + n <= Len(lg) /\ InLog(q2, 0, off + n, lg)
  <2>1. InLog(q2, 0, off + n, lg)
    BY <1>0, <1>2, <1>4, InLogRead
  <2>2. off + n <= Len(lg)
    <3>1. CASE n = 0
      BY <3>1, <1>0, <1>2, <1>4
    <3>2. CASE n > 0
      <4>1. n \in 1..Len(q) /\ off + n - 0 = off + n
        BY <3>2, <1>0
      <4> QED BY <4>1, <3>2, <1>2, <1>4 DEF InLog
    <3> QED BY <3>1, <3>2
  <2> QED BY <2>1, <2>2
<1>5. Carries("kStreaming", q2, off + n, id, rem2, lg, rid)
  BY <1>1, <1>2, <1>3, <1>4 DEF Carries, Shape, OffsetOf, IdOf
<1>6. ps = NoPsync /\ r # "kWaitRdb" /\ r # "kSendingRdb" /\ (m => r = "kSynced")
  BY <1>0, <1>1 DEF Link, Agrees
<1>7. r = "kSynced" => id = rid /\ Len(q2) - 0 = Len(lg) - (off + n)
  <2>1. r = "kSynced" => id = rid /\ Len(q) - 0 = Len(lg) - off
    BY <1>1 DEF Link, Agrees, OffsetOf, IdOf
  <2> QED BY <2>1, <1>0
<1>8. Agrees(m, ps, r, b, "kStreaming", q2, off + n, id, lg, rid)
  BY <1>1, <1>6, <1>7 DEF Agrees, OffsetOf, IdOf
<1> QED BY <1>5, <1>8 DEF Link

-----------------------------------------------------------------------------
(* Sequences and stores *)

LEMMA AppendGrows ==
    ASSUME NEW S, NEW q \in Seq(S), NEW x \in S
    PROVE  Append(q, x) \in Seq(S) /\ Grown(q, Append(q, x), x)
BY AppendProperties DEF Grown

LEMMA TailShrinks ==
    ASSUME NEW S, NEW q \in Seq(S), q # <<>>
    PROVE  /\ Tail(q) \in Seq(S) /\ Shrunk(q, Tail(q), 1)
           /\ Head(q) = q[1] /\ q[1] \in S /\ Len(q) >= 1
BY HeadTailProperties DEF Shrunk

LEMMA DropShrinks ==
    ASSUME NEW S, NEW q \in Seq(S), NEW n \in Nat, n <= Len(q)
    PROVE  /\ SubSeq(q, n + 1, Len(q)) \in Seq(S)
           /\ Shrunk(q, SubSeq(q, n + 1, Len(q)), n)
<1>0. Len(q) \in Nat
  OBVIOUS
<1>1. \A i \in (n + 1)..Len(q) : q[i] \in S
  BY <1>0
<1>2. /\ SubSeq(q, n + 1, Len(q)) \in Seq(S)
      /\ Len(SubSeq(q, n + 1, Len(q))) =
            IF n + 1 <= Len(q) THEN Len(q) - (n + 1) + 1 ELSE 0
      /\ \A i \in 1..(Len(q) - (n + 1) + 1) :
            SubSeq(q, n + 1, Len(q))[i] = q[(n + 1) + i - 1]
  BY <1>0, <1>1, SubSeqProperties
<1>3. PICK u \in Seq(S) : u = SubSeq(q, n + 1, Len(q))
  BY <1>2, Zenon
<1>4. Len(u) = Len(q) - n
  BY <1>0, <1>2, <1>3
<1>5. ASSUME NEW i \in 1..Len(u) PROVE u[i] = q[i + n]
  <2>1. i \in 1..(Len(q) - (n + 1) + 1) /\ (n + 1) + i - 1 = i + n
    BY <1>0, <1>4
  <2> QED BY <2>1, <1>2, <1>3
<1>6. Shrunk(q, u, n)
  BY <1>4, <1>5 DEF Shrunk
<1> QED BY <1>3, <1>6

(* LastOf is the greatest member of a bounded set of indices.                *)
LEMMA LastOfIn ==
    ASSUME NEW n \in Nat, NEW I \in SUBSET (1..n), I # {}
    PROVE  LastOf(I) \in I /\ \A j \in I : j <= LastOf(I)
<1> DEFINE T == {i \in Nat : n - i \in I}
<1>1. T # {} /\ T \in SUBSET Nat
  <2> PICK y \in I : TRUE
    OBVIOUS
  <2>1. n - y \in Nat /\ n - (n - y) = y
    OBVIOUS
  <2> QED BY <2>1
<1>2. PICK a \in T : \A y \in T : ~(<<y, a>> \in OpToRel(<, Nat))
  BY <1>1, NatLessThanWellFounded, WFMin
<1>3. n - a \in I /\ a \in Nat
  OBVIOUS
<1>4. ASSUME NEW y \in I PROVE y <= n - a
  <2>1. n - y \in T /\ n - y \in Nat /\ n - (n - y) = y
    OBVIOUS
  <2>2. ~(n - y < a)
    BY <1>2, <1>3, <2>1 DEF OpToRel
  <2> QED BY <2>1, <2>2, <1>3
<1> QED BY <1>3, <1>4 DEF LastOf

(* Frames make stores out of stores.                                         *)
LEMMA ApplyAllType ==
    ASSUME NEW d \in Store, NEW fs \in Seq(Message),
           \A i \in 1..Len(fs) : fs[i] \in FrameSet
    PROVE  ApplyAll(d, fs) \in Store
<1> DEFINE I(k) == {i \in DOMAIN fs : fs[i].key = k}
<1>1. ASSUME NEW k \in Keys
      PROVE  (IF I(k) = {} THEN d[k] ELSE fs[LastOf(I(k))].val) \in Nat
  <2>1. CASE I(k) = {}
    BY <2>1 DEF Store
  <2>2. CASE I(k) # {}
    <3>1. I(k) \in SUBSET (1..Len(fs)) /\ Len(fs) \in Nat
      OBVIOUS
    <3>2. LastOf(I(k)) \in I(k)
      <4> HIDE DEF I
      <4> QED BY <3>1, <2>2, LastOfIn
    <3>3. fs[LastOf(I(k))] \in FrameSet
      <4>1. LastOf(I(k)) \in 1..Len(fs)
        <5> HIDE DEF I
        <5> QED BY <3>1, <3>2
      <4> QED BY <4>1
    <3> QED BY <3>3, <2>2, FrameItem
  <2> QED BY <2>1, <2>2
<1>2. ApplyAll(d, fs) = [k \in Keys |-> IF I(k) = {} THEN d[k] ELSE fs[LastOf(I(k))].val]
  BY DEF ApplyAll
<1> QED
  <2> DEFINE V(k) == IF I(k) = {} THEN d[k] ELSE fs[LastOf(I(k))].val
  <2>1. \A k \in Keys : V(k) \in Nat
    BY <1>1
  <2>2. [k \in Keys |-> V(k)] \in [Keys -> Nat]
    <3> HIDE DEF V
    <3> QED BY <2>1
  <2> QED BY <1>2, <2>2 DEF Store

LEMMA EmptyStoreType == EmptyStore \in Store
BY DEF EmptyStore, Store

LEMMA ImageTypes == NoImage \in Image /\ (TypeOK => ImageNow \in Image)
BY EmptyStoreType DEF NoImage, Image, ImageNow, TypeOK, tip
-----------------------------------------------------------------------------
(* What a step leaves alone *)

(* The types of a link.                                                      *)
LEMMA LinkTyped ==
    ASSUME TypeOK, NEW c \in Conns, Linked(c)
    PROVE  /\ peer[c] \in Slaves
           /\ Typed(mopen[c], psync[c], reg[c], start[c], state[peer[c]], chan[c],
                    repl_offset[peer[c]], master_replid[peer[c]],
                    backlog_remaining[peer[c]], log, replid)
<1>1. peer[c] \in Slaves
  BY DEF TypeOK, Linked
<1> QED BY <1>1 DEF TypeOK, Typed, Fixed, Regs

(* A link none of whose variables changes.                                   *)
SameLink(d) ==
    /\ peer'[d] = peer[d] /\ mopen'[d] = mopen[d] /\ psync'[d] = psync[d]
    /\ reg'[d] = reg[d] /\ start'[d] = start[d] /\ chan'[d] = chan[d]

SameSlave(s) ==
    /\ state'[s] = state[s] /\ repl_offset'[s] = repl_offset[s]
    /\ master_replid'[s] = master_replid[s]
    /\ backlog_remaining'[s] = backlog_remaining[s]

(* A step of the master that leaves its stores, the log and the slaves       *)
(* alone, forgets images or takes a new one, and sends none.                 *)
Quiet ==
    /\ UNCHANGED <<data, log, replid, peer, slaveVars, histVars>>
    /\ child' = child \/ child' = NoChild \/ child'.img = ImageNow
    /\ \A d \in Conns :
         /\ Linked(d) => Lengthened(chan[d], chan'[d])
         /\ file'[d] \in {file[d], NoImage, child.img}
         /\ reg'[d] = "kSendingRdb" =>
              \/ reg[d] = "kSendingRdb" /\ file'[d] = file[d]
              \/ child.path # "none" /\ file'[d] = child.img

LEMMA GrownLonger ==
    ASSUME NEW q \in Seq(Message), NEW q2, NEW x, x.t # "rdb", Grown(q, q2, x)
    PROVE  Lengthened(q, q2)
BY DEF Grown, Lengthened

LEMMA SameLonger ==
    ASSUME NEW q \in Seq(Message)
    PROVE  Lengthened(q, q)
BY DEF Lengthened

LEMMA ErrLineType == ErrLine.t # "rdb"
BY DEF ErrLine

LEMMA LinkSame ==
    ASSUME NEW d, LinkOK(d), SameLink(d), SameSlave(peer[d]),
           log' = log, replid' = replid
    PROVE  LinkOK(d)'
BY DEF LinkOK, SameLink, SameSlave

(* A step of the slave at the end of c that keeps the connection.            *)
LEMMA SlaveSide ==
    ASSUME LinkInv, TypeOK', NEW c \in Conns, Linked(c),
           UNCHANGED <<masterVars, mopen, peer, psync>>,
           \A d \in Conns \ {c} : chan'[d] = chan[d],
           \A s \in Slaves \ {peer[c]} : SameSlave(s),
           LinkOK(c)', state'[peer[c]] # "kWaitFullresync"
    PROVE  LinkInv'
<1>0. log' = log /\ replid' = replid /\ reg' = reg /\ start' = start /\ mopen' = mopen
      /\ psync' = psync /\ peer' = peer /\ child' = child
      /\ save_started' = save_started /\ fullsync_start' = fullsync_start
  BY DEF masterVars
<1>1. peer[c] \in Slaves
  BY LinkTyped DEF LinkInv
<1>2. Links'
  <2> SUFFICES ASSUME NEW d \in Conns, Linked(d)'
               PROVE  LinkOK(d)'
    BY DEF Links
  <2>1. CASE d = c
    BY <2>1
  <2>2. CASE d # c
    <3>1. Linked(d) /\ peer[d] # peer[c]
      BY <2>2, <1>0 DEF Linked, LinkInv, Ends
    <3>2. LinkOK(d) /\ peer[d] \in Slaves
      BY <3>1, LinkTyped DEF LinkInv, Links
    <3>3. SameLink(d) /\ SameSlave(peer[d])
      BY <3>1, <3>2, <2>2, <1>0 DEF SameLink
    <3> QED BY <3>2, <3>3, <1>0, LinkSame
  <2> QED BY <2>1, <2>2
<1>3. Ends'
  BY <1>0 DEF LinkInv, Ends, Linked
<1>4. NotAhead'
  <2> SUFFICES ASSUME NEW s \in Slaves
               PROVE  /\ master_replid'[s] <= replid
                      /\ master_replid'[s] = replid => repl_offset'[s] <= Len(log)
    BY <1>0 DEF NotAhead, tip
  <2>1. CASE s = peer[c]
    <3>1. Carries(state'[s], chan'[c], repl_offset'[s], master_replid'[s],
                  backlog_remaining'[s], log, replid)
      BY <2>1, <1>0 DEF LinkOK, Link
    <3>2. ~FullReply(state'[s], chan'[c])
      BY <2>1 DEF FullReply
    <3> QED BY <3>1, <3>2 DEF Carries, OffsetOf, IdOf
  <2>2. CASE s # peer[c]
    BY <2>2 DEF LinkInv, NotAhead, SameSlave, tip
  <2> QED BY <2>1, <2>2
<1>5. Cuts' /\ WaiterHasSave'
  BY <1>0 DEF LinkInv, Cuts, WaiterHasSave, tip
<1> QED BY <1>2, <1>3, <1>4, <1>5 DEF LinkInv

(* A step of slave s that closes its connection.                             *)
LEMMA SlaveGone ==
    ASSUME LinkInv, TypeOK', NEW s \in Slaves,
           UNCHANGED <<masterVars, mopen, psync>>,
           \A d \in Conns : IF peer[d] = s
                            THEN peer'[d] = NoSlave /\ chan'[d] = <<>>
                            ELSE peer'[d] = peer[d] /\ chan'[d] = chan[d],
           \A t \in Slaves \ {s} : SameSlave(t),
           master_replid'[s] <= replid,
           master_replid'[s] = replid => repl_offset'[s] <= tip
    PROVE  LinkInv'
<1>0. log' = log /\ replid' = replid /\ reg' = reg /\ start' = start /\ mopen' = mopen
      /\ psync' = psync /\ child' = child
      /\ save_started' = save_started /\ fullsync_start' = fullsync_start
  BY DEF masterVars
<1>1. NoSlave \notin Slaves
  BY ReplicationAssumption
<1>2. \A d \in Conns : /\ Linked(d)' => Linked(d) /\ peer[d] # s /\ SameLink(d)
                       /\ ~Linked(d)' => chan'[d] = <<>>
  <2> SUFFICES ASSUME NEW d \in Conns
               PROVE  /\ Linked(d)' => Linked(d) /\ peer[d] # s /\ SameLink(d)
                      /\ ~Linked(d)' => chan'[d] = <<>>
    OBVIOUS
  <2>1. CASE peer[d] = s
    BY <2>1 DEF Linked
  <2>2. CASE peer[d] # s
    BY <2>2, <1>0 DEF Linked, SameLink, LinkInv, Ends
  <2> QED BY <2>1, <2>2
<1>3. Links'
  <2> SUFFICES ASSUME NEW d \in Conns, Linked(d)'
               PROVE  LinkOK(d)'
    BY DEF Links
  <2>1. Linked(d) /\ peer[d] # s /\ SameLink(d)
    BY <1>2
  <2>2. LinkOK(d) /\ peer[d] \in Slaves
    BY <2>1, LinkTyped DEF LinkInv, Links
  <2>3. SameSlave(peer[d])
    BY <2>1, <2>2
  <2> QED BY <2>1, <2>2, <2>3, <1>0, LinkSame
<1>4. Ends'
  <2>1. ASSUME NEW c \in Conns, NEW d \in Conns, Linked(c)', peer'[c] = peer'[d]
        PROVE  c = d
    <3>1. Linked(c) /\ peer'[c] = peer[c]
      BY <1>2, <2>1 DEF SameLink
    <3>2. Linked(d)'
      BY <2>1 DEF Linked
    <3>3. peer'[d] = peer[d]
      BY <1>2, <3>2 DEF SameLink
    <3> QED BY <2>1, <3>1, <3>3 DEF LinkInv, Ends
  <2>2. \A c \in Conns : reg'[c] # "none" => mopen'[c] /\ psync'[c] = NoPsync
    BY <1>0 DEF LinkInv, Ends
  <2> QED BY <2>1, <2>2, <1>2 DEF Ends
<1>5. NotAhead'
  <2> SUFFICES ASSUME NEW t \in Slaves
               PROVE  /\ master_replid'[t] <= replid
                      /\ master_replid'[t] = replid => repl_offset'[t] <= tip
    BY <1>0 DEF NotAhead, tip
  <2>1. CASE t = s
    BY <2>1
  <2>2. CASE t # s
    BY <2>2 DEF LinkInv, NotAhead, SameSlave
  <2> QED BY <2>1, <2>2
<1>6. Cuts' /\ WaiterHasSave'
  BY <1>0 DEF LinkInv, Cuts, WaiterHasSave, tip
<1> QED BY <1>3, <1>4, <1>5, <1>6 DEF LinkInv

(* A step of the master in the same process.                                 *)
LEMMA MasterSide ==
    ASSUME LinkInv, TypeOK', UNCHANGED <<peer, slaveVars, replid>>,
           Len(log') >= Len(log),
           \A d \in Conns : Linked(d) => LinkOK(d)',
           \A d \in Conns : ~Linked(d) => chan'[d] = chan[d],
           \A d \in Conns : reg'[d] # "none" => mopen'[d] /\ psync'[d] = NoPsync,
           Cuts', WaiterHasSave'
    PROVE  LinkInv'
<1>0. peer' = peer /\ state' = state /\ repl_offset' = repl_offset
      /\ master_replid' = master_replid /\ backlog_remaining' = backlog_remaining
      /\ replid' = replid
  BY DEF slaveVars
<1>1. Links' /\ Ends'
  BY <1>0 DEF LinkInv, Links, Ends, Linked
<1>2. NotAhead'
  <2>0. log \in Seq(FrameSet) /\ log' \in Seq(FrameSet) /\ repl_offset \in [Slaves -> Nat]
    BY Zenon DEF LinkInv, TypeOK
  <2>1. Len(log') \in Nat /\ Len(log) \in Nat /\ repl_offset \in [Slaves -> Nat]
    BY <2>0
  <2> QED BY <1>0, <2>1 DEF LinkInv, NotAhead, tip
<1> QED BY <1>1, <1>2 DEF LinkInv

-----------------------------------------------------------------------------
(* The slave's read callback *)

(* The first item of a connection is read: what Consume does.                *)
LEMMA Consumed ==
    ASSUME TypeOK, NEW c \in Conns, chan[c] # <<>>, Consume(c)
    PROVE  /\ chan' \in [Conns -> Seq(Message)] /\ chan'[c] \in Seq(Message)
           /\ Shrunk(chan[c], chan'[c], 1)
           /\ \A d \in Conns \ {c} : chan'[d] = chan[d]
           /\ Head(chan[c]) = chan[c][1] /\ chan[c][1] \in Message
<1>1. chan \in [Conns -> Seq(Message)] /\ chan[c] \in Seq(Message)
  BY DEF TypeOK
<1>2. /\ Tail(chan[c]) \in Seq(Message) /\ Shrunk(chan[c], Tail(chan[c]), 1)
      /\ Head(chan[c]) = chan[c][1] /\ chan[c][1] \in Message
  BY <1>1, TailShrinks
<1>3. PICK u \in Seq(Message) : u = Tail(chan[c])
  BY <1>2, Zenon
<1>4. chan' = [chan EXCEPT ![c] = u]
  BY <1>3, Zenon DEF Consume
<1> QED BY <1>1, <1>2, <1>3, <1>4

(* The state of the slave at the other end changes: what Goto does.          *)
LEMMA Gone ==
    ASSUME TypeOK, NEW c \in Conns, Linked(c), NEW st \in States, Goto(c, st)
    PROVE  /\ state' \in [Slaves -> States] /\ state'[peer[c]] = st
           /\ \A s \in Slaves \ {peer[c]} : state'[s] = state[s]
BY LinkTyped DEF TypeOK, Goto

LEMMA RecvContinueStep ==
    ASSUME LinkInv, NEW c \in Conns, RecvContinue(c)
    PROVE  LinkInv'
<1> DEFINE s == peer[c]
<1>0. TypeOK /\ Linked(c) /\ chan[c] # <<>> /\ state[s] = "kWaitFullresync"
      /\ Head(chan[c]).t = "continue" /\ Consume(c) /\ Goto(c, "kStreaming")
      /\ UNCHANGED <<masterVars, mopen, peer, psync, repl_offset, have_offset,
                     master_replid, sdata, backlog_remaining, boundVars, histVars>>
  BY DEF LinkInv, RecvContinue, Incoming, Linked
<1>1. "kStreaming" \in States
  BY DEF States
<1>2. /\ chan' \in [Conns -> Seq(Message)] /\ chan'[c] \in Seq(Message)
      /\ Shrunk(chan[c], chan'[c], 1)
      /\ \A d \in Conns \ {c} : chan'[d] = chan[d]
      /\ Head(chan[c]) = chan[c][1] /\ chan[c][1] \in Message
  BY <1>0, Consumed
<1>3. /\ state' \in [Slaves -> States] /\ state'[s] = "kStreaming"
      /\ \A t \in Slaves \ {s} : state'[t] = state[t]
  BY <1>0, <1>1, Gone
<1>4. TypeOK'
  BY <1>0, <1>2, <1>3 DEF TypeOK, masterVars, boundVars, histVars, tip
<1>5. LinkOK(c)'
  <2>1. LinkOK(c)
    BY <1>0 DEF LinkInv, Links
  <2>2. Link(mopen[c], psync[c], reg[c], start[c], "kStreaming", chan'[c],
             repl_offset[s], master_replid[s], backlog_remaining[s], log, replid)
    BY <2>1, <1>0, <1>2, LinkTyped, LinkReadsContinue DEF LinkOK
  <2> QED BY <2>2, <1>0, <1>3 DEF LinkOK, masterVars
<1> QED BY <1>0, <1>2, <1>3, <1>4, <1>5, SlaveSide DEF SameSlave

LEMMA RecvFullResyncStep ==
    ASSUME LinkInv, NEW c \in Conns, RecvFullResync(c)
    PROVE  LinkInv'
<1> DEFINE s == peer[c]
<1>0. TypeOK /\ Linked(c) /\ chan[c] # <<>> /\ state[s] = "kWaitFullresync"
      /\ Head(chan[c]).t = "fullresync" /\ Consume(c)
      /\ UNCHANGED <<masterVars, mopen, peer, psync, sdata, backlog_remaining,
                     boundVars, unfed, last_hole, loaded_gen>>
  BY DEF LinkInv, RecvFullResync, Incoming, Linked, slaveVars
<1>1. s \in Slaves
  BY <1>0, LinkTyped
<1>2. /\ chan' \in [Conns -> Seq(Message)] /\ chan'[c] \in Seq(Message)
      /\ Shrunk(chan[c], chan'[c], 1)
      /\ \A d \in Conns \ {c} : chan'[d] = chan[d]
      /\ Head(chan[c]) = chan[c][1] /\ chan[c][1] \in Message
  BY <1>0, Consumed
<1>3. /\ state' \in [Slaves -> States] /\ state'[s] = "kRecvRdbHeader"
      /\ \A t \in Slaves \ {s} : state'[t] = state[t]
  <2>1. "kRecvRdbHeader" \in States
    BY DEF States
  <2> QED BY <1>0, <2>1, Gone DEF RecvFullResync
<1>4. chan[c][1].t = "fullresync" /\ chan[c][1].off \in Nat /\ chan[c][1].replid \in Nat
  BY <1>0, <1>2, ItemTypes
<1>5. /\ master_replid' = [master_replid EXCEPT ![s] = chan[c][1].replid]
      /\ repl_offset' = [repl_offset EXCEPT ![s] = chan[c][1].off]
      /\ have_offset' = [have_offset EXCEPT ![s] = TRUE]
      /\ covers' = [covers EXCEPT ![s] = FALSE]
      /\ master_replid'[s] = chan[c][1].replid /\ repl_offset'[s] = chan[c][1].off
      /\ \A t \in Slaves \ {s} : /\ master_replid'[t] = master_replid[t]
                                 /\ repl_offset'[t] = repl_offset[t]
  BY <1>0, <1>1, <1>2 DEF RecvFullResync, TypeOK
<1>6. TypeOK'
  BY <1>0, <1>2, <1>3, <1>4, <1>5 DEF TypeOK, masterVars, slaveVars, boundVars, histVars, tip
<1>7. LinkOK(c)'
  <2>1. LinkOK(c) /\ psync' = psync
    BY <1>0 DEF LinkInv, Links
  <2>2. Link(mopen[c], psync[c], reg[c], start[c], "kRecvRdbHeader", chan'[c],
             chan[c][1].off, chan[c][1].replid, backlog_remaining[s], log, replid)
    BY <2>1, <1>0, <1>2, <1>4, LinkTyped, LinkReadsFullResync DEF LinkOK
  <2> QED BY <2>1, <2>2, <1>0, <1>2, <1>3, <1>4, <1>5 DEF LinkOK, masterVars
<1> QED BY <1>0, <1>1, <1>2, <1>3, <1>4, <1>5, <1>6, <1>7, SlaveSide DEF SameSlave

LEMMA RecvRdbHeaderStep ==
    ASSUME LinkInv, NEW c \in Conns, RecvRdbHeader(c)
    PROVE  LinkInv'
<1> DEFINE s == peer[c]
<1>0. TypeOK /\ Linked(c) /\ chan[c] # <<>> /\ state[s] = "kRecvRdbHeader"
      /\ Head(chan[c]).t = "bulk" /\ Consume(c)
      /\ UNCHANGED <<masterVars, mopen, peer, psync, repl_offset, have_offset,
                     master_replid, sdata, backlog_remaining, boundVars, histVars>>
  BY DEF LinkInv, RecvRdbHeader, Incoming, Linked, slaveVars
<1>1. s \in Slaves
  BY <1>0, LinkTyped
<1>2. /\ chan' \in [Conns -> Seq(Message)] /\ chan'[c] \in Seq(Message)
      /\ Shrunk(chan[c], chan'[c], 1)
      /\ \A d \in Conns \ {c} : chan'[d] = chan[d]
      /\ Head(chan[c]) = chan[c][1] /\ chan[c][1] \in Message
  BY <1>0, Consumed
<1>3. /\ state' \in [Slaves -> States] /\ state'[s] = "kRecvRdbBody"
      /\ \A t \in Slaves \ {s} : state'[t] = state[t]
  <2>1. "kRecvRdbBody" \in States
    BY DEF States
  <2> QED BY <1>0, <2>1, Gone DEF RecvRdbHeader
<1>4. chan[c][1].t # "err" /\ "kRecvRdbBody" \in States /\ 3 \in 2..3
  BY <1>0, <1>2 DEF States
<1>6. TypeOK'
  BY <1>0, <1>2, <1>3, <1>4 DEF TypeOK, masterVars, slaveVars, boundVars, histVars, tip
<1>7. LinkOK(c)'
  <2>1. LinkOK(c) /\ psync' = psync
    BY <1>0 DEF LinkInv, Links
  <2>2. Link(mopen[c], psync[c], reg[c], start[c], "kRecvRdbBody", chan'[c],
             repl_offset[s], master_replid[s], backlog_remaining[s], log, replid)
    BY <2>1, <1>0, <1>2, <1>4, LinkTyped, LinkReadsFile DEF LinkOK
  <2> QED BY <2>1, <2>2, <1>0, <1>2, <1>3, <1>4 DEF LinkOK, masterVars
<1> QED BY <1>0, <1>1, <1>2, <1>3, <1>4, <1>6, <1>7, SlaveSide DEF SameSlave

LEMMA LoadRdbStep ==
    ASSUME LinkInv, NEW c \in Conns, LoadRdb(c)
    PROVE  LinkInv'
<1> DEFINE s == peer[c]
<1>0. TypeOK /\ Linked(c) /\ chan[c] # <<>> /\ state[s] = "kRecvRdbBody"
      /\ Head(chan[c]).t = "rdb" /\ Consume(c)
      /\ UNCHANGED <<masterVars, mopen, peer, psync, repl_offset, have_offset,
                     master_replid, backlog_remaining, boundVars, unfed, last_hole>>
  BY DEF LinkInv, LoadRdb, Incoming, Linked, slaveVars
<1>1. s \in Slaves
  BY <1>0, LinkTyped
<1>2. /\ chan' \in [Conns -> Seq(Message)] /\ chan'[c] \in Seq(Message)
      /\ Shrunk(chan[c], chan'[c], 1)
      /\ \A d \in Conns \ {c} : chan'[d] = chan[d]
      /\ Head(chan[c]) = chan[c][1] /\ chan[c][1] \in Message
  BY <1>0, Consumed
<1>3. /\ state' \in [Slaves -> States] /\ state'[s] = "kRecvBacklogHeader"
      /\ \A t \in Slaves \ {s} : state'[t] = state[t]
  <2>1. "kRecvBacklogHeader" \in States
    BY DEF States
  <2> QED BY <1>0, <2>1, Gone DEF LoadRdb
<1>4. /\ chan[c][1].t # "err" /\ "kRecvBacklogHeader" \in States /\ 2 \in 2..3
      /\ chan[c][1].img \in Image
  BY <1>0, <1>2, ItemTypes DEF States
<1>5. /\ sdata' \in [Slaves -> Store] /\ covers' \in [Slaves -> BOOLEAN]
      /\ loaded_gen' \in [Slaves -> Nat]
  <2>1. chan[c][1].img.data \in Store /\ chan[c][1].img.gen \in Nat
    BY <1>4 DEF Image
  <2>2. sdata' \in [Slaves -> Store] /\ loaded_gen' \in [Slaves -> Nat]
    BY <1>0, <1>2, <2>1 DEF LoadRdb, TypeOK
  <2>3. covers' \in [Slaves -> BOOLEAN]
    BY <1>0 DEF LoadRdb, TypeOK
  <2> QED BY <2>2, <2>3
<1>6. TypeOK'
  BY <1>0, <1>2, <1>3, <1>4, <1>5 DEF TypeOK, masterVars, slaveVars, boundVars, histVars, tip
<1>7. LinkOK(c)'
  <2>1. LinkOK(c) /\ psync' = psync
    BY <1>0 DEF LinkInv, Links
  <2>2. Link(mopen[c], psync[c], reg[c], start[c], "kRecvBacklogHeader", chan'[c],
             repl_offset[s], master_replid[s], backlog_remaining[s], log, replid)
    BY <2>1, <1>0, <1>2, <1>4, LinkTyped, LinkReadsFile DEF LinkOK
  <2> QED BY <2>1, <2>2, <1>0, <1>2, <1>3, <1>4, <1>5 DEF LinkOK, masterVars
<1> QED BY <1>0, <1>1, <1>2, <1>3, <1>4, <1>5, <1>6, <1>7, SlaveSide DEF SameSlave

LEMMA SwallowErrorStep ==
    ASSUME LinkInv, NEW c \in Conns, SwallowError(c)
    PROVE  LinkInv'
<1> DEFINE s == peer[c]
<1>0. TypeOK /\ Linked(c) /\ chan[c] # <<>> /\ state[s] = "kRecvRdbBody"
      /\ Head(chan[c]).t = "err" /\ Consume(c)
      /\ UNCHANGED <<masterVars, mopen, peer, psync, slaveVars, boundVars, histVars>>
  BY DEF LinkInv, SwallowError, Incoming, Linked, slaveVars
<1>1. s \in Slaves
  BY <1>0, LinkTyped
<1>2. /\ chan' \in [Conns -> Seq(Message)] /\ chan'[c] \in Seq(Message)
      /\ Shrunk(chan[c], chan'[c], 1)
      /\ \A d \in Conns \ {c} : chan'[d] = chan[d]
      /\ Head(chan[c]) = chan[c][1] /\ chan[c][1] \in Message
  BY <1>0, Consumed
<1>3. state' = state /\ repl_offset' = repl_offset /\ master_replid' = master_replid
      /\ backlog_remaining' = backlog_remaining
  BY <1>0 DEF slaveVars
<1>4. chan[c][1].t = "err"
  BY <1>0, <1>2
<1>6. TypeOK'
  BY <1>0, <1>2, <1>3, <1>4 DEF TypeOK, masterVars, slaveVars, boundVars, histVars, tip
<1>7. LinkOK(c)'
  <2>1. LinkOK(c) /\ psync' = psync
    BY <1>0 DEF LinkInv, Links
  <2>2. Link(mopen[c], psync[c], reg[c], start[c], "kRecvRdbBody", chan'[c],
             repl_offset[s], master_replid[s], backlog_remaining[s], log, replid)
    BY <2>1, <1>0, <1>2, <1>4, LinkTyped, LinkSwallows DEF LinkOK
  <2> QED BY <2>1, <2>2, <1>0, <1>2, <1>3, <1>4 DEF LinkOK, masterVars
<1> QED BY <1>0, <1>1, <1>2, <1>3, <1>4, <1>6, <1>7, SlaveSide DEF SameSlave

LEMMA RecvBacklogHeaderStep ==
    ASSUME LinkInv, NEW c \in Conns, RecvBacklogHeader(c)
    PROVE  LinkInv'
<1> DEFINE s == peer[c]
<1>0. TypeOK /\ Linked(c) /\ chan[c] # <<>> /\ state[s] = "kRecvBacklogHeader"
      /\ Head(chan[c]).t = "bulk" /\ Consume(c)
      /\ UNCHANGED <<masterVars, mopen, peer, psync, repl_offset, have_offset,
                     master_replid, sdata, boundVars, histVars>>
  BY DEF LinkInv, RecvBacklogHeader, Incoming, Linked, slaveVars
<1>1. s \in Slaves
  BY <1>0, LinkTyped
<1>2. /\ chan' \in [Conns -> Seq(Message)] /\ chan'[c] \in Seq(Message)
      /\ Shrunk(chan[c], chan'[c], 1)
      /\ \A d \in Conns \ {c} : chan'[d] = chan[d]
      /\ Head(chan[c]) = chan[c][1] /\ chan[c][1] \in Message
  BY <1>0, Consumed
<1> DEFINE st2 == IF chan[c][1].n = 0 THEN "kStreaming" ELSE "kRecvBacklogBody"
<1>3. /\ state' \in [Slaves -> States] /\ state'[s] = st2
      /\ \A t \in Slaves \ {s} : state'[t] = state[t]
  <2>1. st2 \in States
    BY DEF States
  <2>2. Goto(c, st2)
    BY <1>0, <1>2 DEF RecvBacklogHeader
  <2> HIDE DEF st2
  <2> QED BY <1>0, <2>1, <2>2, Gone
<1>4. chan[c][1].t = "bulk" /\ chan[c][1].n \in Nat /\ st2 \in States
      /\ st2 # "kWaitFullresync"
  BY <1>0, <1>2, ItemTypes DEF States
<1>5. /\ backlog_remaining' \in [Slaves -> Nat] /\ backlog_remaining'[s] = chan[c][1].n
      /\ \A t \in Slaves \ {s} : backlog_remaining'[t] = backlog_remaining[t]
  BY <1>0, <1>1, <1>2, <1>4 DEF RecvBacklogHeader, TypeOK
<1>6. TypeOK'
  BY <1>0, <1>2, <1>3, <1>4, <1>5 DEF TypeOK, masterVars, slaveVars, boundVars, histVars, tip
<1>7. LinkOK(c)'
  <2>1. LinkOK(c) /\ psync' = psync
    BY <1>0 DEF LinkInv, Links
  <2>2. Link(mopen[c], psync[c], reg[c], start[c], st2, chan'[c],
             repl_offset[s], master_replid[s], chan[c][1].n, log, replid)
    BY <2>1, <1>0, <1>2, <1>4, LinkTyped, LinkReadsBacklogHeader DEF LinkOK
  <2> QED BY <2>1, <2>2, <1>0, <1>2, <1>3, <1>4, <1>5 DEF LinkOK, masterVars
<1> QED BY <1>0, <1>1, <1>2, <1>3, <1>4, <1>5, <1>6, <1>7, SlaveSide DEF SameSlave

LEMMA ApplyFrameStep ==
    ASSUME LinkInv, NEW c \in Conns, ApplyFrame(c)
    PROVE  LinkInv'
<1> DEFINE s == peer[c]
<1>0. TypeOK /\ Linked(c) /\ chan[c] # <<>> /\ state[s] = "kStreaming"
      /\ Head(chan[c]).t = "frame" /\ Consume(c)
      /\ UNCHANGED <<masterVars, mopen, peer, psync, state, master_replid,
                     backlog_remaining, boundVars, histVars>>
  BY DEF LinkInv, ApplyFrame, Incoming, Linked, slaveVars
<1>1. s \in Slaves
  BY <1>0, LinkTyped
<1>2. /\ chan' \in [Conns -> Seq(Message)] /\ chan'[c] \in Seq(Message)
      /\ Shrunk(chan[c], chan'[c], 1)
      /\ \A d \in Conns \ {c} : chan'[d] = chan[d]
      /\ Head(chan[c]) = chan[c][1] /\ chan[c][1] \in Message
  BY <1>0, Consumed
<1>3. /\ state' = state /\ master_replid' = master_replid
      /\ backlog_remaining' = backlog_remaining
  BY <1>0
<1>4. chan[c][1] \in FrameSet /\ 1 \in Nat /\ 1 <= Len(chan[c])
  <2>1. chan[c] \in Seq(Message)
    BY <1>0 DEF TypeOK
  <2> QED BY <1>0, <1>2, <2>1, ItemTypes, TailShrinks
<1>5. /\ repl_offset' \in [Slaves -> Nat] /\ repl_offset'[s] = repl_offset[s] + 1
      /\ \A t \in Slaves \ {s} : repl_offset'[t] = repl_offset[t]
      /\ have_offset' \in [Slaves -> BOOLEAN] /\ sdata' \in [Slaves -> Store]
  <2>1. /\ repl_offset' \in [Slaves -> Nat] /\ repl_offset'[s] = repl_offset[s] + 1
        /\ \A t \in Slaves \ {s} : repl_offset'[t] = repl_offset[t]
        /\ have_offset' \in [Slaves -> BOOLEAN]
    BY <1>0, <1>1 DEF ApplyFrame, TypeOK
  <2>2. PICK fs \in Seq(Message) : fs = <<chan[c][1]>> /\ Len(fs) = 1 /\ fs[1] \in FrameSet
    <3>1. PICK x \in FrameSet : x = chan[c][1] /\ x \in Message
      BY <1>2, <1>4
    <3>2. <<x>> \in Seq(Message) /\ Len(<<x>>) = 1 /\ <<x>>[1] \in FrameSet
      BY <3>1
    <3> QED BY <3>1, <3>2, Zenon
  <2>3. ApplyAll(sdata[s], fs) \in Store
    <3>1. sdata[s] \in Store
      BY <1>0, <1>1 DEF TypeOK
    <3> QED BY <3>1, <2>2, ApplyAllType
  <2>4. PICK d \in Store : d = ApplyAll(sdata[s], fs)
    BY <2>3, Zenon
  <2>5. sdata' = [sdata EXCEPT ![s] = d]
    BY <1>2, <2>2, <2>4 DEF ApplyFrame
  <2>6. sdata' \in [Slaves -> Store]
    BY <1>0, <2>5 DEF TypeOK
  <2> QED BY <2>1, <2>6
<1>6. TypeOK'
  BY <1>0, <1>2, <1>3, <1>4, <1>5 DEF TypeOK, masterVars, slaveVars, boundVars, histVars, tip
<1>7. LinkOK(c)'
  <2>1. LinkOK(c) /\ psync' = psync
    BY <1>0 DEF LinkInv, Links
  <2>2. Link(mopen[c], psync[c], reg[c], start[c], "kStreaming", chan'[c],
             repl_offset[s] + 1, master_replid[s], backlog_remaining[s], log, replid)
    BY <2>1, <1>0, <1>2, <1>4, LinkTyped, LinkApplies DEF LinkOK
  <2> QED BY <2>1, <2>2, <1>0, <1>2, <1>3, <1>4, <1>5 DEF LinkOK, masterVars
<1> QED BY <1>0, <1>1, <1>2, <1>3, <1>4, <1>5, <1>6, <1>7, SlaveSide DEF SameSlave

LEMMA ApplyBacklogStep ==
    ASSUME LinkInv, NEW c \in Conns, ApplyBacklog(c)
    PROVE  LinkInv'
<1> DEFINE s == peer[c]
           n == backlog_remaining[s]
<1>0. TypeOK /\ Linked(c) /\ chan[c] # <<>> /\ state[s] = "kRecvBacklogBody"
      /\ UNCHANGED <<masterVars, mopen, peer, psync, have_offset, master_replid,
                     boundVars, histVars>>
      /\ Goto(c, "kStreaming")
  BY DEF LinkInv, ApplyBacklog, Incoming, Linked
<1>1. s \in Slaves /\ n \in Nat /\ chan[c] \in Seq(Message) /\ sdata[s] \in Store
      /\ chan \in [Conns -> Seq(Message)] /\ n <= Len(chan[c])
  <2>1. s \in Slaves
    BY <1>0, LinkTyped
  <2> QED BY <1>0, <2>1 DEF TypeOK, ApplyBacklog
<1>2. /\ chan' \in [Conns -> Seq(Message)] /\ chan'[c] \in Seq(Message)
      /\ Shrunk(chan[c], chan'[c], n)
      /\ \A d \in Conns \ {c} : chan'[d] = chan[d]
  <2>1. PICK u \in Seq(Message) : u = SubSeq(chan[c], n + 1, Len(chan[c]))
                                  /\ Shrunk(chan[c], u, n)
    BY <1>1, DropShrinks
  <2>2. chan' = [chan EXCEPT ![c] = u]
    BY <2>1, <1>1 DEF ApplyBacklog
  <2> QED BY <2>1, <2>2, <1>1
<1>3. /\ state' \in [Slaves -> States] /\ state'[s] = "kStreaming"
      /\ \A t \in Slaves \ {s} : state'[t] = state[t]
  <2>1. "kStreaming" \in States
    BY DEF States
  <2> QED BY <1>0, <2>1, Gone
<1>4. sdata' \in [Slaves -> Store]
  <2>1. FramesAfter(chan[c], 0)
    <3>1. LinkOK(c)
      BY <1>0 DEF LinkInv, Links
    <3>2. Shape("kRecvBacklogBody", chan[c], n)
      BY <3>1, <1>0 DEF LinkOK, Link, Carries
    <3> QED BY <3>2 DEF Shape, FullReply
  <2>2. PICK fs \in Seq(Message) : /\ fs = SubSeq(chan[c], 1, n)
                                   /\ \A i \in 1..Len(fs) : fs[i] \in FrameSet
    <3>1. \A i \in 1..n : chan[c][i] \in FrameSet
      BY <1>1, <2>1 DEF FramesAfter
    <3>2. /\ SubSeq(chan[c], 1, n) \in Seq(FrameSet)
      BY <1>1, <3>1, SubSeqProperties
    <3>3. PICK u \in Seq(FrameSet) : u = SubSeq(chan[c], 1, n)
      BY <3>2, Zenon
    <3>4. \A i \in 1..Len(u) : u[i] \in FrameSet
      OBVIOUS
    <3>5. u \in Seq(Message)
      <4>1. FrameSet \subseteq Message
        BY DEF Message
      <4> QED BY <4>1
    <3> QED BY <3>3, <3>4, <3>5
  <2>3. PICK d \in Store : d = ApplyAll(sdata[s], fs)
    BY <1>1, <2>2, ApplyAllType
  <2>4. sdata' = [sdata EXCEPT ![s] = d]
    BY <2>2, <2>3 DEF ApplyBacklog
  <2> QED BY <1>0, <2>4 DEF TypeOK
<1>5. /\ repl_offset' \in [Slaves -> Nat] /\ repl_offset'[s] = repl_offset[s] + n
      /\ backlog_remaining' \in [Slaves -> Nat] /\ backlog_remaining'[s] = 0
      /\ \A t \in Slaves \ {s} : /\ repl_offset'[t] = repl_offset[t]
                                 /\ backlog_remaining'[t] = backlog_remaining[t]
  BY <1>0, <1>1 DEF ApplyBacklog, TypeOK
<1>6. TypeOK'
  BY <1>0, <1>2, <1>3, <1>4, <1>5 DEF TypeOK, masterVars, boundVars, histVars, tip
<1>7. LinkOK(c)'
  <2>1. LinkOK(c) /\ psync' = psync
    BY <1>0 DEF LinkInv, Links
  <2>2. Link(mopen[c], psync[c], reg[c], start[c], "kStreaming", chan'[c],
             repl_offset[s] + n, master_replid[s], 0, log, replid)
    BY <2>1, <1>0, <1>1, <1>2, LinkTyped, LinkApplies DEF LinkOK
  <2> QED BY <2>1, <2>2, <1>0, <1>2, <1>3, <1>5 DEF LinkOK, masterVars
<1> QED BY <1>0, <1>1, <1>2, <1>3, <1>5, <1>6, <1>7, SlaveSide DEF SameSlave
-----------------------------------------------------------------------------
(* The slave closes, restarts and connects *)

LEMMA FailLinkStep ==
    ASSUME LinkInv, NEW c \in Conns, Linked(c), FailLink(c),
           UNCHANGED <<masterVars, mopen, psync, repl_offset, have_offset,
                       master_replid, backlog_remaining, histVars>>,
           sdata' \in [Slaves -> Store],
           writes' \in Nat, breaks' \in Nat, saves' \in Nat, iofails' \in Nat,
           restarts' \in Nat
    PROVE  LinkInv'
<1> DEFINE s == peer[c]
<1>0. TypeOK /\ s \in Slaves /\ chan \in [Conns -> Seq(Message)]
      /\ peer \in [Conns -> Slaves \cup {NoSlave}] /\ state \in [Slaves -> States]
  BY LinkTyped DEF LinkInv, TypeOK
<1>1. <<>> \in Seq(Message) /\ "kError" \in States
  BY DEF States
<1>2. /\ state' \in [Slaves -> States] /\ chan' \in [Conns -> Seq(Message)]
      /\ peer' \in [Conns -> Slaves \cup {NoSlave}]
      /\ \A t \in Slaves \ {s} : state'[t] = state[t]
      /\ peer'[c] = NoSlave /\ chan'[c] = <<>>
      /\ \A d \in Conns \ {c} : peer'[d] = peer[d] /\ chan'[d] = chan[d]
  BY <1>0, <1>1 DEF FailLink
<1>3. TypeOK'
  BY <1>0, <1>2 DEF TypeOK, masterVars, histVars, tip
<1>4. \A d \in Conns : IF peer[d] = s
                       THEN peer'[d] = NoSlave /\ chan'[d] = <<>>
                       ELSE peer'[d] = peer[d] /\ chan'[d] = chan[d]
  <2>1. \A d \in Conns : peer[d] = s => d = c
    BY DEF LinkInv, Ends
  <2> QED BY <2>1, <1>2
<1>5. master_replid'[s] <= replid /\ (master_replid'[s] = replid => repl_offset'[s] <= tip)
  BY <1>0 DEF LinkInv, NotAhead
<1>6. \A t \in Slaves \ {s} : SameSlave(t)
  BY <1>2 DEF SameSlave
<1> QED BY <1>0, <1>3, <1>4, <1>5, <1>6, SlaveGone

LEMMA SlaveCloseStep ==
    ASSUME LinkInv, NEW c \in Conns, SlaveClose(c)
    PROVE  LinkInv'
<1>1. /\ sdata' \in [Slaves -> Store] /\ writes' \in Nat /\ breaks' \in Nat
      /\ saves' \in Nat /\ iofails' \in Nat /\ restarts' \in Nat
  BY DEF LinkInv, TypeOK, SlaveClose
<1> QED BY <1>1, FailLinkStep DEF SlaveClose, Linked

LEMMA RecvRefusalStep ==
    ASSUME LinkInv, NEW c \in Conns, RecvRefusal(c)
    PROVE  LinkInv'
<1>1. /\ sdata' \in [Slaves -> Store] /\ writes' \in Nat /\ breaks' \in Nat
      /\ saves' \in Nat /\ iofails' \in Nat /\ restarts' \in Nat
  BY DEF LinkInv, TypeOK, RecvRefusal, boundVars
<1> QED BY <1>1, FailLinkStep DEF RecvRefusal, Linked, Incoming

LEMMA LoadRdbFailsStep ==
    ASSUME LinkInv, NEW c \in Conns, LoadRdbFails(c)
    PROVE  LinkInv'
<1>0. TypeOK /\ Linked(c) /\ sdata \in [Slaves -> Store] /\ peer[c] \in Slaves
  BY LinkTyped DEF LinkInv, TypeOK, LoadRdbFails, Linked, Incoming
<1>1. /\ writes' \in Nat /\ breaks' \in Nat
      /\ saves' \in Nat /\ iofails' \in Nat /\ restarts' \in Nat
  BY DEF LinkInv, TypeOK, LoadRdbFails
<1>2. sdata' \in [Slaves -> Store]
  <2>1. PICK d \in {sdata[peer[c]], EmptyStore} : sdata' = [sdata EXCEPT ![peer[c]] = d]
    BY DEF LoadRdbFails
  <2>2. d \in Store
    BY <1>0, EmptyStoreType
  <2> QED BY <2>1, <2>2, <1>0
<1> QED BY <1>0, <1>1, <1>2, FailLinkStep DEF LoadRdbFails

LEMMA SlaveRestartStep ==
    ASSUME LinkInv, NEW s \in Slaves, SlaveRestart(s)
    PROVE  LinkInv'
<1>0. TypeOK /\ chan \in [Conns -> Seq(Message)] /\ replid \in Nat /\ tip \in Nat
      /\ peer \in [Conns -> Slaves \cup {NoSlave}]
  BY DEF LinkInv, TypeOK, tip
<1>1. <<>> \in Seq(Message) /\ "kInit" \in States
  BY DEF States
<1>2. /\ state' \in [Slaves -> States] /\ repl_offset' \in [Slaves -> Nat]
      /\ have_offset' \in [Slaves -> BOOLEAN] /\ master_replid' \in [Slaves -> Nat]
      /\ backlog_remaining' \in [Slaves -> Nat] /\ covers' \in [Slaves -> BOOLEAN]
      /\ repl_offset'[s] = 0 /\ master_replid'[s] = 0
      /\ \A t \in Slaves \ {s} : SameSlave(t)
  BY <1>0, <1>1 DEF SlaveRestart, TypeOK, SameSlave
<1>3. sdata' \in [Slaves -> Store]
  BY <1>0, EmptyStoreType DEF SlaveRestart, TypeOK
<1>4. /\ chan' \in [Conns -> Seq(Message)] /\ peer' \in [Conns -> Slaves \cup {NoSlave}]
      /\ \A d \in Conns : IF peer[d] = s
                          THEN peer'[d] = NoSlave /\ chan'[d] = <<>>
                          ELSE peer'[d] = peer[d] /\ chan'[d] = chan[d]
  BY <1>0, <1>1 DEF SlaveRestart
<1>5. TypeOK'
  BY <1>0, <1>2, <1>3, <1>4 DEF SlaveRestart, TypeOK, masterVars, tip
<1>6. master_replid'[s] <= replid /\ (master_replid'[s] = replid => repl_offset'[s] <= tip)
  BY <1>0, <1>2
<1>7. UNCHANGED <<masterVars, mopen, psync>>
  BY DEF SlaveRestart
<1> QED BY <1>2, <1>4, <1>5, <1>6, <1>7, SlaveGone

(* A slave with a connection is neither in kInit nor in kError.              *)
LEMMA LinkedState ==
    ASSUME NEW c, LinkOK(c)
    PROVE  state[peer[c]] \notin {"kInit", "kError"}
BY DEF LinkOK, Link, Carries, Shape, FullReply

LEMMA TryConnectStep ==
    ASSUME LinkInv, NEW s \in Slaves, NEW c \in Conns, TryConnect(s, c)
    PROVE  LinkInv'
<1>0. /\ TypeOK /\ ~mopen[c] /\ ~Linked(c) /\ chan[c] = <<>> /\ reg[c] = "none"
      /\ UNCHANGED <<masterVars, chan, repl_offset, have_offset, master_replid,
                     sdata, boundVars, histVars>>
  BY DEF LinkInv, TryConnect, Linked, Ends
<1>1. /\ log' = log /\ replid' = replid /\ reg' = reg /\ start' = start
      /\ child' = child /\ save_started' = save_started
      /\ fullsync_start' = fullsync_start /\ chan' = chan
      /\ repl_offset' = repl_offset /\ master_replid' = master_replid
  BY <1>0 DEF masterVars
<1>2. \A d \in Conns : Linked(d) => LinkOK(d) /\ peer[d] # s /\ peer[d] \in Slaves /\ d # c
  <2> SUFFICES ASSUME NEW d \in Conns, Linked(d)
               PROVE  LinkOK(d) /\ peer[d] # s /\ peer[d] \in Slaves /\ d # c
    OBVIOUS
  <2>1. LinkOK(d)
    BY DEF LinkInv, Links
  <2>2. peer[d] # s
    BY <2>1, LinkedState DEF TryConnect
  <2> QED BY <2>1, <2>2, <1>0, LinkTyped
<1>3. /\ repl_offset[s] \in Nat /\ master_replid[s] \in Nat
      /\ log \in Seq(FrameSet) /\ replid \in Nat
  BY <1>0 DEF TypeOK
<1>4. /\ psync'[c] = <<0, -1>> \/ psync'[c] = <<master_replid[s], repl_offset[s]>>
      /\ psync'[c] \in Request /\ psync' \in [Conns -> Request \cup {NoPsync}]
      /\ \A d \in Conns \ {c} : psync'[d] = psync[d]
  <2>1. <<0, -1>> \in Request /\ <<master_replid[s], repl_offset[s]>> \in Request
    BY <1>3 DEF Request
  <2>2. PICK x \in Request : /\ psync' = [psync EXCEPT ![c] = x]
                             /\ x = <<0, -1>> \/ x = <<master_replid[s], repl_offset[s]>>
    BY <2>1 DEF TryConnect
  <2>3. psync \in [Conns -> Request \cup {NoPsync}]
    BY <1>0 DEF TypeOK
  <2> HIDE DEF Request
  <2> QED BY <2>2, <2>3
<1>5. /\ mopen' \in [Conns -> BOOLEAN] /\ mopen'[c] = TRUE
      /\ peer' \in [Conns -> Slaves \cup {NoSlave}] /\ peer'[c] = s
      /\ \A d \in Conns \ {c} : mopen'[d] = mopen[d] /\ peer'[d] = peer[d]
  BY <1>0 DEF TypeOK, TryConnect
<1>6. /\ state' \in [Slaves -> States] /\ state'[s] = "kWaitFullresync"
      /\ backlog_remaining' \in [Slaves -> Nat] /\ backlog_remaining'[s] = 0
      /\ \A t \in Slaves \ {s} : SameSlave(t)
  <2>1. "kWaitFullresync" \in States
    BY DEF States
  <2> QED BY <2>1, <1>0 DEF TypeOK, TryConnect, SameSlave
<1>7. TypeOK'
  BY <1>0, <1>4, <1>5, <1>6 DEF TypeOK, masterVars, boundVars, histVars, tip
<1>8. LinkOK(c)'
  <2>1. master_replid[s] <= replid /\ (master_replid[s] = replid => repl_offset[s] <= Len(log))
    BY DEF LinkInv, NotAhead, tip
  <2>2. Link(TRUE, psync'[c], "none", start[c], "kWaitFullresync", <<>>,
             repl_offset[s], master_replid[s], 0, log, replid)
    BY <2>1, <1>3, <1>4, LinkFresh
  <2> QED BY <2>2, <1>0, <1>1, <1>5, <1>6 DEF LinkOK
<1>9. Links'
  <2> SUFFICES ASSUME NEW d \in Conns, Linked(d)', d # c
               PROVE  LinkOK(d)'
    BY <1>8 DEF Links
  <2>1. Linked(d)
    BY <1>5 DEF Linked
  <2>2. LinkOK(d) /\ peer[d] # s /\ peer[d] \in Slaves
    BY <1>2, <2>1
  <2>3. SameLink(d) /\ SameSlave(peer[d])
    BY <2>2, <1>1, <1>4, <1>5, <1>6 DEF SameLink
  <2> QED BY <2>2, <2>3, <1>1, LinkSame
<1>10. Ends'
  <2>1. ASSUME NEW a \in Conns, NEW d \in Conns, Linked(a)', peer'[a] = peer'[d]
        PROVE  a = d
    <3>1. \A x \in Conns \ {c} : peer'[x] = s => FALSE
      <4> SUFFICES ASSUME NEW x \in Conns \ {c}, peer'[x] = s PROVE FALSE
        OBVIOUS
      <4>1. peer[x] = s /\ Linked(x)
        BY <1>5, ReplicationAssumption DEF Linked
      <4> QED BY <4>1, <1>2
    <3>2. CASE a = c \/ d = c
      BY <3>1, <3>2, <2>1, <1>5
    <3>3. CASE a # c /\ d # c
      BY <3>3, <2>1, <1>5 DEF LinkInv, Ends, Linked
    <3> QED BY <3>2, <3>3
  <2>2. ASSUME NEW d \in Conns, ~Linked(d)'
        PROVE  chan'[d] = <<>>
    <3>1. CASE d = c
      BY <3>1, <1>0, <1>1
    <3>2. CASE d # c
      BY <3>2, <2>2, <1>1, <1>5 DEF LinkInv, Ends, Linked
    <3> QED BY <3>1, <3>2
  <2>3. ASSUME NEW d \in Conns, reg'[d] # "none"
        PROVE  mopen'[d] /\ psync'[d] = NoPsync
    BY <2>3, <1>0, <1>1, <1>4, <1>5 DEF LinkInv, Ends
  <2> QED BY <2>1, <2>2, <2>3 DEF Ends
<1>11. NotAhead' /\ Cuts' /\ WaiterHasSave'
  BY <1>1 DEF LinkInv, NotAhead, Cuts, WaiterHasSave, tip
<1> QED BY <1>7, <1>9, <1>10, <1>11 DEF LinkInv
-----------------------------------------------------------------------------
(* The master *)

LEMMA MasterRestartStep ==
    ASSUME LinkInv, MasterRestart
    PROVE  LinkInv'
<1>0. TypeOK /\ replid \in Nat
  BY DEF LinkInv, TypeOK
<1>1. /\ log' = <<>> /\ base' = 0 /\ replid' = replid + 1 /\ child' = NoChild
      /\ \A c \in Conns : reg'[c] = "none" /\ mopen'[c] = FALSE /\ psync'[c] = NoPsync
      /\ fullsync_start' = 0 /\ save_started' = FALSE
      /\ UNCHANGED <<start, peer, chan, slaveVars>>
  BY DEF MasterRestart, GenerateReplid
<1>2. TypeOK'
  <2>1. /\ reg' \in [Conns -> {"none", "kWaitRdb", "kSendingRdb", "kSynced"}]
        /\ file' \in [Conns -> Image] /\ mopen' \in [Conns -> BOOLEAN]
        /\ psync' \in [Conns -> Request \cup {NoPsync}]
        /\ covers' \in [Slaves -> BOOLEAN]
    BY ImageTypes DEF MasterRestart
  <2>2. data' \in Store /\ child' \in [path : {"none", "dump", "fullsync"}, img : Image]
    BY <1>0, EmptyStoreType, ImageTypes DEF TypeOK, MasterRestart, NoChild
  <2>3. log' \in Seq(FrameSet) /\ base' \in Nat /\ base' <= Len(log') /\ replid' \in Nat
    BY <1>0, <1>1
  <2>4. /\ fullsync_active' \in BOOLEAN /\ fullsync_start' \in Nat
        /\ save_started' \in BOOLEAN /\ restarts' \in Nat /\ last_hole' \in Int
        /\ UNCHANGED <<start, peer, chan, state, repl_offset, have_offset, master_replid,
                       sdata, backlog_remaining, writes, breaks, saves, iofails,
                       unfed, loaded_gen>>
    <3>1. /\ fullsync_active' = FALSE /\ fullsync_start' = 0 /\ save_started' = FALSE
          /\ restarts' = restarts + 1 /\ last_hole' = -1
      BY Zenon DEF MasterRestart
    <3>2. restarts \in Nat
      BY <1>0 DEF TypeOK
    <3>3. UNCHANGED <<start, peer, chan, state, repl_offset, have_offset, master_replid,
                      sdata, backlog_remaining, writes, breaks, saves, iofails,
                      unfed, loaded_gen>>
      BY DEF MasterRestart, slaveVars
    <3>4. restarts' \in Nat /\ last_hole' \in Int /\ fullsync_start' \in Nat
      BY <3>1, <3>2
    <3>5. fullsync_active' \in BOOLEAN /\ save_started' \in BOOLEAN
      BY <3>1, Zenon
    <3> QED BY <3>3, <3>4, <3>5, Zenon
  <2> QED BY <2>1, <2>2, <2>3, <2>4, <1>0 DEF TypeOK, tip
<1>3. Links'
  <2> SUFFICES ASSUME NEW c \in Conns, Linked(c)'
               PROVE  LinkOK(c)'
    BY DEF Links
  <2>1. Linked(c) /\ LinkOK(c)
    BY <1>1 DEF Linked, LinkInv, Links
  <2>2. Link(FALSE, NoPsync, "none", start[c], state[peer[c]], chan[c],
             repl_offset[peer[c]], master_replid[peer[c]],
             backlog_remaining[peer[c]], log', replid + 1)
    BY <2>1, <1>0, LinkTyped, LinkOrphaned DEF LinkOK
  <2> QED BY <2>2, <1>1 DEF LinkOK, slaveVars
<1>4. Ends'
  BY <1>1 DEF LinkInv, Ends, Linked
<1>5. NotAhead'
  <2>1. \A s \in Slaves : master_replid[s] \in Nat /\ master_replid[s] <= replid
    BY <1>0 DEF LinkInv, NotAhead, TypeOK
  <2>2. master_replid' = master_replid /\ replid' = replid + 1
    BY <1>1 DEF slaveVars
  <2> QED BY <2>1, <2>2, <1>0 DEF NotAhead
<1>6. Cuts' /\ WaiterHasSave'
  BY <1>1 DEF Cuts, WaiterHasSave, tip
<1> QED BY <1>2, <1>3, <1>4, <1>5, <1>6 DEF LinkInv

LEMMA ClientSaveStep ==
    ASSUME LinkInv, ClientSave
    PROVE  LinkInv' /\ Quiet
<1>0. TypeOK /\ log' = log /\ replid' = replid /\ reg' = reg /\ start' = start
      /\ save_started' = save_started /\ fullsync_start' = fullsync_start
      /\ UNCHANGED <<netVars, slaveVars>> /\ child'.path = "dump"
  BY DEF LinkInv, ClientSave
<1>1. TypeOK'
  BY <1>0, ImageTypes DEF ClientSave, TypeOK, netVars, slaveVars, histVars, tip
<1>2. ASSUME NEW d \in Conns, Linked(d) PROVE LinkOK(d)'
  <2>1. LinkOK(d)
    BY <1>2 DEF LinkInv, Links
  <2> QED BY <2>1, <1>0 DEF LinkOK, netVars, slaveVars
<1>3. Cuts' /\ WaiterHasSave'
  BY <1>0 DEF LinkInv, Cuts, WaiterHasSave, tip
<1>4. \A d \in Conns : reg'[d] # "none" => mopen'[d] /\ psync'[d] = NoPsync
  BY <1>0 DEF LinkInv, Ends, netVars
<1>5. peer' = peer /\ chan' = chan /\ Len(log') >= Len(log) /\ UNCHANGED slaveVars
  <2>1. Len(log) \in Nat
    BY <1>0 DEF TypeOK
  <2> QED BY <1>0, <2>1 DEF netVars
<1>6. Quiet
  <2>1. \A d \in Conns : Lengthened(chan[d], chan'[d])
    BY <1>0, <1>5, SameLonger DEF TypeOK
  <2>2. UNCHANGED <<data, log, replid, reg, file, peer, slaveVars, histVars>>
        /\ child'.img = ImageNow
    BY <1>5 DEF ClientSave
  <2> QED BY <2>1, <2>2 DEF Quiet
<1> QED BY <1>0, <1>1, <1>2, <1>3, <1>4, <1>5, <1>6, MasterSide

LEMMA MasterCloseStep ==
    ASSUME LinkInv, NEW c \in Conns, MasterClose(c)
    PROVE  LinkInv' /\ Quiet
<1>0. /\ TypeOK /\ UNCHANGED <<log, replid, start, fullsync_start, save_started, child,
                               peer, chan, slaveVars>>
      /\ Len(log) \in Nat
  BY SMTT(40) DEF LinkInv, MasterClose, TypeOK
<1>1. /\ reg' = [d \in Conns |-> IF d = c THEN "none" ELSE reg[d]]
      /\ reg' \in [Conns -> {"none", "kWaitRdb", "kSendingRdb", "kSynced"}]
  BY <1>0 DEF MasterClose, Erase, TypeOK
<1>2. /\ mopen' \in [Conns -> BOOLEAN] /\ mopen'[c] = FALSE
      /\ psync' \in [Conns -> Request \cup {NoPsync}] /\ psync'[c] = NoPsync
      /\ \A d \in Conns \ {c} : mopen'[d] = mopen[d] /\ psync'[d] = psync[d]
  BY <1>0 DEF MasterClose, TypeOK
<1>3. TypeOK'
  <2>1. file' \in [Conns -> Image] /\ fullsync_active' \in BOOLEAN /\ breaks' \in Nat
    BY <1>0, ImageTypes DEF MasterClose, TypeOK, ActiveAfterRemove, AnyActive
  <2> QED BY <1>0, <1>1, <1>2, <2>1 DEF MasterClose, TypeOK, slaveVars, histVars, tip
<1>4. ASSUME NEW d \in Conns, Linked(d) PROVE LinkOK(d)'
  <2>1. LinkOK(d)
    BY <1>4 DEF LinkInv, Links
  <2>2. CASE d = c
    <3>1. Link(FALSE, NoPsync, "none", start[d], state[peer[d]], chan[d],
               repl_offset[peer[d]], master_replid[peer[d]],
               backlog_remaining[peer[d]], log, replid)
      BY <2>1, <1>0, <1>4, LinkTyped, LinkClosed DEF LinkOK
    <3> QED BY <3>1, <2>2, <1>0, <1>1, <1>2 DEF LinkOK, slaveVars
  <2>3. CASE d # c
    BY <2>1, <2>3, <1>0, <1>1, <1>2 DEF LinkOK, slaveVars
  <2> QED BY <2>2, <2>3
<1>5. Cuts' /\ WaiterHasSave'
  BY <1>0, <1>1 DEF LinkInv, Cuts, WaiterHasSave, tip
<1>6. \A d \in Conns : reg'[d] # "none" => mopen'[d] /\ psync'[d] = NoPsync
  BY <1>1, <1>2 DEF LinkInv, Ends
<1>7. Quiet
  <2>1. \A d \in Conns : Lengthened(chan[d], chan'[d])
    BY <1>0, SameLonger DEF TypeOK
  <2>2. \A d \in Conns : file'[d] = IF d = c THEN NoImage ELSE file[d]
    BY <1>0 DEF MasterClose, TypeOK
  <2>3. UNCHANGED <<data, log, replid, peer, slaveVars, histVars, child>>
    BY DEF MasterClose
  <2> QED BY <2>1, <2>2, <2>3, <1>1 DEF Quiet
<1> QED BY <1>0, <1>3, <1>4, <1>5, <1>6, <1>7, MasterSide

LEMMA Joins ==
    ASSUME NEW S, NEW q \in Seq(S), NEW u \in Seq(S)
    PROVE  /\ q \o u \in Seq(S) /\ Len(q \o u) = Len(q) + Len(u)
           /\ \A i \in 1..Len(q) : (q \o u)[i] = q[i]
           /\ \A i \in 1..Len(u) : (q \o u)[Len(q) + i] = u[i]
<1>0. Len(q) \in Nat /\ Len(u) \in Nat
  OBVIOUS
<1>1. /\ q \o u \in Seq(S) /\ Len(q \o u) = Len(q) + Len(u)
      /\ \A i \in 1..(Len(q) + Len(u)) :
            (q \o u)[i] = IF i <= Len(q) THEN q[i] ELSE u[i - Len(q)]
  BY ConcatProperties
<1>2. PICK w \in Seq(S) : w = q \o u
  BY <1>1, Zenon
<1>3. \A i \in 1..(Len(q) + Len(u)) : w[i] = IF i <= Len(q) THEN q[i] ELSE u[i - Len(q)]
  BY <1>1, <1>2
<1>4. ASSUME NEW i \in 1..Len(q) PROVE w[i] = q[i]
  BY <1>0, <1>3
<1>5. ASSUME NEW i \in 1..Len(u) PROVE w[Len(q) + i] = u[i]
  <2>1. Len(q) + i \in 1..(Len(q) + Len(u)) /\ ~(Len(q) + i <= Len(q))
        /\ (Len(q) + i) - Len(q) = i
    BY <1>0
  <2> QED BY <1>3, <2>1
<1> QED BY <1>1, <1>2, <1>4, <1>5

LEMMA ItemsAre ==
    /\ Continue \in Message /\ ErrLine \in Message
    /\ \A id, o \in Nat : FullResync(id, o) \in Message
    /\ \A n \in Nat : BulkHeader(n) \in Message
    /\ \A img \in Image : RdbBody(img) \in Message
BY DEF Message, Continue, ErrLine, FullResync, BulkHeader, RdbBody

(* What CopyRange returns.                                                   *)
LEMMA GapIs ==
    ASSUME NEW o \in Nat, log \in Seq(FrameSet), o <= Len(log)
    PROVE  /\ GapFrom(o) \in Seq(Message) /\ Len(GapFrom(o)) = Len(log) - o
           /\ \A i \in 1..(Len(log) - o) : GapFrom(o)[i] = log[o + i]
<1>0. Len(log) \in Nat
  OBVIOUS
<1>1. \A i \in (o + 1)..Len(log) : log[i] \in Message
  <2> SUFFICES ASSUME NEW i \in (o + 1)..Len(log) PROVE log[i] \in Message
    OBVIOUS
  <2>1. i \in 1..Len(log)
    BY <1>0
  <2> QED BY <2>1, FrameItem
<1>2. /\ SubSeq(log, o + 1, Len(log)) \in Seq(Message)
      /\ Len(SubSeq(log, o + 1, Len(log))) =
            IF o + 1 <= Len(log) THEN Len(log) - (o + 1) + 1 ELSE 0
      /\ \A i \in 1..(Len(log) - (o + 1) + 1) :
            SubSeq(log, o + 1, Len(log))[i] = log[(o + 1) + i - 1]
  BY <1>0, <1>1, SubSeqProperties
<1>3. PICK u \in Seq(Message) : u = SubSeq(log, o + 1, Len(log))
  BY <1>2, Zenon
<1>4. Len(u) = Len(log) - o
  BY <1>0, <1>2, <1>3
<1>5. ASSUME NEW i \in 1..(Len(log) - o) PROVE u[i] = log[o + i]
  <2>1. i \in 1..(Len(log) - (o + 1) + 1) /\ (o + 1) + i - 1 = o + i
    BY <1>0
  <2> QED BY <2>1, <1>2, <1>3
<1>6. GapFrom(o) = u
  BY <1>3 DEF GapFrom, tip
<1> QED BY <1>3, <1>4, <1>5, <1>6

LEMMA OnPsyncPartialStep ==
    ASSUME LinkInv, NEW c \in Conns, OnPsyncPartial(c)
    PROVE  LinkInv' /\ Quiet
<1> DEFINE o == psync[c][2]
<1>0. /\ TypeOK /\ UNCHANGED <<log, replid, fullsync_start, save_started, child,
                               mopen, peer, slaveVars>>
      /\ log \in Seq(FrameSet) /\ Len(log) \in Nat /\ psync[c] # NoPsync /\ mopen[c]
      /\ chan \in [Conns -> Seq(Message)]
  BY DEF LinkInv, OnPsyncPartial, TypeOK
<1>1. o \in Nat /\ psync[c][1] = replid /\ o <= Len(log)
  <2>1. psync[c] \in Request
    BY <1>0 DEF TypeOK
  <2> QED BY <2>1, <1>0 DEF OnPsyncPartial, CanContinue, Retained, tip, Request
<1>2. PICK u \in Seq(Message) :
        /\ u = <<Continue>> \o GapFrom(o)
        /\ Len(u) = 1 + (Len(log) - o) /\ u[1].t = "continue"
        /\ \A i \in 1..(Len(log) - o) : u[i + 1] = log[o + i]
  <2>1. PICK v \in Seq(Message) : v = GapFrom(o) /\ Len(v) = Len(log) - o
                                  /\ \A i \in 1..(Len(log) - o) : v[i] = log[o + i]
    <3> HIDE DEF o
    <3> QED BY <1>0, <1>1, GapIs
  <2>2. PICK w \in Seq(Message) : w = <<Continue>> /\ Len(w) = 1 /\ w[1] = Continue
    <3>1. PICK x \in Message : x = Continue
      BY ItemsAre
    <3>2. <<x>> \in Seq(Message) /\ Len(<<x>>) = 1 /\ <<x>>[1] = x
      OBVIOUS
    <3> QED BY <3>1, <3>2, Zenon
  <2> HIDE DEF o
  <2>3. PICK u \in Seq(Message) :
          /\ u = w \o v /\ Len(u) = Len(w) + Len(v)
          /\ \A i \in 1..Len(w) : u[i] = w[i]
          /\ \A i \in 1..Len(v) : u[Len(w) + i] = v[i]
    <3>1. /\ w \o v \in Seq(Message) /\ Len(w \o v) = Len(w) + Len(v)
          /\ \A i \in 1..Len(w) : (w \o v)[i] = w[i]
          /\ \A i \in 1..Len(v) : (w \o v)[Len(w) + i] = v[i]
      BY Joins
    <3> QED BY <3>1, Zenon
  <2>4. Len(u) = 1 + (Len(log) - o) /\ u[1] = Continue
    BY <2>1, <2>2, <2>3
  <2>5. ASSUME NEW i \in 1..(Len(log) - o) PROVE u[i + 1] = log[o + i]
    <3>1. Len(w) + i = i + 1
      BY <2>2, <1>0, <1>1
    <3> QED BY <3>1, <2>1, <2>3
  <2>6. u = <<Continue>> \o GapFrom(o)
    BY <2>1, <2>2, <2>3, Zenon
  <2>7. u[1].t = "continue"
    BY <2>4 DEF Continue
  <2> QED BY <2>4, <2>5, <2>6, <2>7, Zenon
<1>3. /\ chan' \in [Conns -> Seq(Message)]
      /\ \A d \in Conns \ {c} : chan'[d] = chan[d]
      /\ ~Linked(c) => chan'[c] = chan[c]
      /\ Linked(c) => chan'[c] = u
  <2>1. chan' = [chan EXCEPT ![c] = IF peer[c] = NoSlave THEN chan[c] ELSE chan[c] \o u]
    BY <1>0, <1>2 DEF OnPsyncPartial, Send
  <2>2. CASE ~Linked(c)
    BY <2>1, <2>2, <1>0 DEF Linked
  <2>3. CASE Linked(c)
    <3>1. chan[c] = <<>>
      BY <2>3, <1>0 DEF LinkInv, Links, LinkOK, Link, Agrees
    <3>2. chan[c] \o u = u
      BY <3>1, ConcatEmptySeq
    <3>3. chan' = [chan EXCEPT ![c] = u]
      BY <2>1, <2>3, <3>2 DEF Linked
    <3> QED BY <3>3, <2>3, <1>0
  <2> QED BY <2>2, <2>3
<1>4. /\ reg' \in [Conns -> {"none", "kWaitRdb", "kSendingRdb", "kSynced"}]
      /\ reg'[c] = "kSynced" /\ start' \in [Conns -> Nat]
      /\ psync' \in [Conns -> Request \cup {NoPsync}] /\ psync'[c] = NoPsync
      /\ \A d \in Conns \ {c} : reg'[d] = reg[d] /\ start'[d] = start[d] /\ psync'[d] = psync[d]
  BY <1>0, <1>1 DEF OnPsyncPartial, TypeOK
<1>5. TypeOK'
  <2>1. fullsync_active' \in BOOLEAN
    BY <1>0 DEF OnPsyncPartial, TypeOK, ActiveAfterRemove, AnyActive
  <2> QED BY <2>1, <1>0, <1>3, <1>4 DEF OnPsyncPartial, TypeOK, slaveVars, boundVars, histVars, tip
<1>6. ASSUME NEW d \in Conns, Linked(d) PROVE LinkOK(d)'
  <2>1. LinkOK(d)
    BY <1>6 DEF LinkInv, Links
  <2>2. CASE d = c
    <3>1. Link(mopen[c], NoPsync, "kSynced", start'[c], state[peer[c]], u,
               repl_offset[peer[c]], master_replid[peer[c]],
               backlog_remaining[peer[c]], log, replid)
      <4> HIDE DEF o
      <4>1. psync[c][2] = o
        BY DEF o
      <4>2. Len(u) = 1 + (Len(log) - o) /\ u[1].t = "continue"
            /\ \A i \in 1..(Len(log) - o) : u[i + 1] = log[o + i]
        BY <1>2
      <4>3. /\ Typed(mopen[c], psync[c], reg[c], start[c], state[peer[c]], chan[c],
                     repl_offset[peer[c]], master_replid[peer[c]],
                     backlog_remaining[peer[c]], log, replid)
            /\ Link(mopen[c], psync[c], reg[c], start[c], state[peer[c]], chan[c],
                    repl_offset[peer[c]], master_replid[peer[c]],
                    backlog_remaining[peer[c]], log, replid)
        BY <2>1, <2>2, <1>0, <1>6, LinkTyped DEF LinkOK
      <4>4. o \in Nat /\ psync[c][1] = replid /\ o <= Len(log) /\ psync[c] # NoPsync
        BY <1>0, <1>1
      <4> QED BY <4>1, <4>2, <4>3, <4>4, LinkContinued
    <3> QED BY <3>1, <2>2, <1>0, <1>3, <1>4, <1>6 DEF LinkOK, slaveVars
  <2>3. CASE d # c
    BY <2>1, <2>3, <1>0, <1>3, <1>4 DEF LinkOK, slaveVars
  <2> QED BY <2>2, <2>3
<1>7. Cuts' /\ WaiterHasSave'
  BY <1>0, <1>4 DEF LinkInv, Cuts, WaiterHasSave, tip
<1>8. \A d \in Conns : reg'[d] # "none" => mopen'[d] /\ psync'[d] = NoPsync
  BY <1>0, <1>4 DEF LinkInv, Ends
<1>9. Quiet
  <2>1. ASSUME NEW d \in Conns, Linked(d) PROVE Lengthened(chan[d], chan'[d])
    <3>1. CASE d = c
      <4>1. chan[c] = <<>> /\ chan'[c] = u
        BY <3>1, <2>1, <1>0, <1>3 DEF LinkInv, Links, LinkOK, Link, Agrees
      <4>2. ASSUME NEW i \in 1..Len(u) PROVE u[i].t # "rdb"
        <5>1. CASE i = 1
          BY <5>1, <1>2
        <5>2. CASE i # 1
          <6> HIDE DEF o
          <6>1. PICK j \in 1..(Len(log) - o) : i = j + 1 /\ o + j \in 1..Len(log)
            <7>1. Len(u) = 1 + (Len(log) - o)
              BY <1>2
            <7> QED BY <7>1, <5>2, <1>0, <1>1
          <6>2. u[i] = log[o + j]
            BY <6>1, <1>2
          <6> QED BY <6>1, <6>2, <1>0, FrameItem
        <5> QED BY <5>1, <5>2
      <4> QED BY <3>1, <4>1, <4>2 DEF Lengthened
    <3>2. CASE d # c
      BY <3>2, <1>0, <1>3, SameLonger
    <3> QED BY <3>1, <3>2
  <2>2. UNCHANGED <<data, log, replid, peer, slaveVars, histVars, child, file>>
    BY DEF OnPsyncPartial
  <2> QED BY <2>1, <2>2, <1>4 DEF Quiet
<1> QED BY <1>0, <1>3, <1>5, <1>6, <1>7, <1>8, <1>9, MasterSide

(* Two items are sent, and others behind them.                               *)
LEMMA PairSent ==
    ASSUME NEW S, NEW q \in Seq(S), NEW a \in S, NEW b \in S
    PROVE  /\ q \o <<a, b>> \in Seq(S) /\ Len(q \o <<a, b>>) = Len(q) + 2
           /\ \A i \in 1..Len(q) : (q \o <<a, b>>)[i] = q[i]
           /\ (q \o <<a, b>>)[Len(q) + 1] = a /\ (q \o <<a, b>>)[Len(q) + 2] = b
<1>1. PICK w \in Seq(S) : w = <<a, b>> /\ Len(w) = 2 /\ w[1] = a /\ w[2] = b
  <2>1. <<a, b>> \in Seq(S) /\ Len(<<a, b>>) = 2 /\ <<a, b>>[1] = a /\ <<a, b>>[2] = b
    OBVIOUS
  <2> QED BY <2>1, Zenon
<1>2. /\ q \o w \in Seq(S) /\ Len(q \o w) = Len(q) + Len(w)
      /\ \A i \in 1..Len(q) : (q \o w)[i] = q[i]
      /\ \A i \in 1..Len(w) : (q \o w)[Len(q) + i] = w[i]
  BY Joins
<1>3. PICK u \in Seq(S) : u = q \o w
  BY <1>2, Zenon
<1>4. /\ Len(u) = Len(q) + Len(w) /\ \A i \in 1..Len(q) : u[i] = q[i]
      /\ \A i \in 1..Len(w) : u[Len(q) + i] = w[i]
  BY <1>2, <1>3, Zenon
<1>5. Len(u) = Len(q) + 2 /\ u[Len(q) + 1] = a /\ u[Len(q) + 2] = b
  BY <1>1, <1>4
<1>6. u = q \o <<a, b>>
  BY <1>1, <1>3, Zenon
<1> QED BY <1>4, <1>5, <1>6, Zenon

PairThen(q, a, b, v) == q \o (<<a, b>> \o v)
IsPairThen(u, q, a, b, v) ==
    /\ Len(u) = Len(q) + 2 + Len(v)
    /\ \A i \in 1..Len(q) : u[i] = q[i]
    /\ u[Len(q) + 1] = a /\ u[Len(q) + 2] = b
    /\ \A i \in 1..Len(v) : u[Len(q) + 2 + i] = v[i]

LEMMA PairAndRestSent ==
    ASSUME NEW S, NEW q \in Seq(S), NEW a \in S, NEW b \in S, NEW v \in Seq(S)
    PROVE  /\ PairThen(q, a, b, v) \in Seq(S)
           /\ IsPairThen(PairThen(q, a, b, v), q, a, b, v)
<1>1. PICK w \in Seq(S) : w = <<a, b>> /\ Len(w) = 2 /\ w[1] = a /\ w[2] = b
  <2>1. <<a, b>> \in Seq(S) /\ Len(<<a, b>>) = 2 /\ <<a, b>>[1] = a /\ <<a, b>>[2] = b
    OBVIOUS
  <2> QED BY <2>1, Zenon
<1>2. PICK y \in Seq(S) : /\ y = w \o v /\ Len(y) = Len(w) + Len(v)
                          /\ \A i \in 1..Len(w) : y[i] = w[i]
                          /\ \A i \in 1..Len(v) : y[Len(w) + i] = v[i]
  <2>1. /\ w \o v \in Seq(S) /\ Len(w \o v) = Len(w) + Len(v)
        /\ \A i \in 1..Len(w) : (w \o v)[i] = w[i]
        /\ \A i \in 1..Len(v) : (w \o v)[Len(w) + i] = v[i]
    BY Joins
  <2> QED BY <2>1, Zenon
<1>3. PICK u \in Seq(S) : /\ u = q \o y /\ Len(u) = Len(q) + Len(y)
                          /\ \A i \in 1..Len(q) : u[i] = q[i]
                          /\ \A i \in 1..Len(y) : u[Len(q) + i] = y[i]
  <2>1. /\ q \o y \in Seq(S) /\ Len(q \o y) = Len(q) + Len(y)
        /\ \A i \in 1..Len(q) : (q \o y)[i] = q[i]
        /\ \A i \in 1..Len(y) : (q \o y)[Len(q) + i] = y[i]
    BY Joins
  <2> QED BY <2>1, Zenon
<1>4. Len(u) = Len(q) + 2 + Len(v) /\ u[Len(q) + 1] = a /\ u[Len(q) + 2] = b
  <2>1. Len(y) = 2 + Len(v) /\ y[1] = a /\ y[2] = b /\ Len(v) \in Nat /\ Len(q) \in Nat
    BY <1>1, <1>2
  <2>2. u[Len(q) + 1] = y[1] /\ u[Len(q) + 2] = y[2]
    BY <2>1, <1>3
  <2> QED BY <1>3, <2>1, <2>2
<1>5. ASSUME NEW i \in 1..Len(v) PROVE u[Len(q) + 2 + i] = v[i]
  <2>1. 2 + i \in 1..Len(y) /\ Len(q) + 2 + i = Len(q) + (2 + i) /\ y[2 + i] = v[i]
    BY <1>1, <1>2
  <2>2. u[Len(q) + (2 + i)] = y[2 + i]
    BY <1>3, <2>1
  <2> QED BY <2>1, <2>2
<1>6. u = PairThen(q, a, b, v)
  BY <1>1, <1>2, <1>3, Zenon DEF PairThen
<1>7. IsPairThen(u, q, a, b, v)
  BY <1>3, <1>4, <1>5, Zenon DEF IsPairThen
<1> QED BY <1>6, <1>7

\* q2 is q with the image img and what follows it
ImageSent(q, q2, img) ==
    /\ Len(q2) > Len(q) /\ \A i \in 1..Len(q) : q2[i] = q[i]
    /\ q2[Len(q) + 1] = RdbBody(img)
    /\ \A i \in 1..Len(q2) : i > Len(q) + 1 => q2[i].t # "rdb"

LEMMA SendBacklogStep ==
    ASSUME LinkInv, NEW c \in Conns, SendBacklog(c)
    PROVE  /\ LinkInv'
           /\ UNCHANGED <<data, log, replid, peer, slaveVars, histVars, child>>
           /\ \A d \in Conns \ {c} : chan'[d] = chan[d] /\ reg'[d] = reg[d]
                                     /\ file'[d] = file[d]
           /\ reg'[c] # "kSendingRdb" /\ file'[c] = NoImage
           /\ Linked(c) => ImageSent(chan[c], chan'[c], file[c])
<1> DEFINE b == start[c]
<1>0. /\ TypeOK /\ UNCHANGED <<log, replid, start, fullsync_start, save_started, child,
                               mopen, peer, psync, slaveVars>>
      /\ log \in Seq(FrameSet) /\ Len(log) \in Nat /\ b \in Nat /\ reg[c] = "kSendingRdb"
      /\ chan \in [Conns -> Seq(Message)] /\ chan[c] \in Seq(Message)
      /\ file[c] \in Image
  BY DEF LinkInv, SendBacklog, TypeOK
<1>1. RdbBody(file[c]) \in Message /\ ErrLine \in Message
  BY <1>0, ItemsAre
<1>2. PICK ms : /\ chan' = Send(chan, c, ms)
                /\ \/ /\ b <= Len(log) /\ reg' = [reg EXCEPT ![c] = "kSynced"]
                      /\ ms = <<RdbBody(file[c]), BulkHeader(Len(log) - b)>> \o GapFrom(b)
                   \/ /\ reg' = Erase(reg, {c})
                      /\ ms = <<RdbBody(file[c]), ErrLine>>
  BY DEF SendBacklog, Retained, tip
<1>3. /\ reg' \in [Conns -> {"none", "kWaitRdb", "kSendingRdb", "kSynced"}]
      /\ reg'[c] \in {"none", "kSynced"}
      /\ \A d \in Conns \ {c} : reg'[d] = reg[d]
  BY <1>0, <1>2 DEF TypeOK, Erase
<1>4. /\ chan' \in [Conns -> Seq(Message)]
      /\ \A d \in Conns \ {c} : chan'[d] = chan[d]
      /\ ~Linked(c) => chan'[c] = chan[c]
      /\ Linked(c) =>
           /\ Len(chan'[c]) >= Len(chan[c]) + 2
           /\ \A i \in 1..Len(chan[c]) : chan'[c][i] = chan[c][i]
           /\ chan'[c][Len(chan[c]) + 1] = RdbBody(file[c])
           /\ \/ reg'[c] = "kSynced" /\ BacklogSent(chan[c], chan'[c], log, b)
              \/ /\ reg'[c] = "none" /\ Len(chan'[c]) = Len(chan[c]) + 2
                 /\ chan'[c][Len(chan[c]) + 2].t = "err"
  <2>1. CASE ~Linked(c)
    BY <2>1, <1>0, <1>2 DEF Linked, Send
  <2>2. CASE Linked(c)
    <3>1. PICK u \in Seq(Message) :
            /\ u = chan[c] \o ms
            /\ Len(u) >= Len(chan[c]) + 2
            /\ \A i \in 1..Len(chan[c]) : u[i] = chan[c][i]
            /\ u[Len(chan[c]) + 1] = RdbBody(file[c])
            /\ \/ reg'[c] = "kSynced" /\ BacklogSent(chan[c], u, log, b)
               \/ /\ reg'[c] = "none" /\ Len(u) = Len(chan[c]) + 2
                  /\ u[Len(chan[c]) + 2].t = "err"
      <4>1. PICK q \in Seq(Message), x \in Message, e \in Message :
              q = chan[c] /\ x = RdbBody(file[c]) /\ e = ErrLine
              /\ x.t = "rdb" /\ e.t = "err"
        <5>1. RdbBody(file[c]).t = "rdb" /\ ErrLine.t = "err"
          BY DEF RdbBody, ErrLine
        <5> QED BY <1>0, <1>1, <5>1, Zenon
      <4>2. CASE /\ b <= Len(log) /\ reg' = [reg EXCEPT ![c] = "kSynced"]
                 /\ ms = <<RdbBody(file[c]), BulkHeader(Len(log) - b)>> \o GapFrom(b)
        <5> HIDE DEF b
        <5>1. PICK h \in Message : h = BulkHeader(Len(log) - b)
          BY <1>0, <4>2, ItemsAre
        <5>2. PICK v \in Seq(Message) : v = GapFrom(b) /\ Len(v) = Len(log) - b
                                /\ \A i \in 1..(Len(log) - b) : v[i] = log[b + i]
          BY <1>0, <4>2, GapIs
        <5>3. PICK u \in Seq(Message) :
                /\ u = q \o (<<x, h>> \o v) /\ Len(u) = Len(q) + 2 + Len(v)
                /\ \A i \in 1..Len(q) : u[i] = q[i]
                /\ u[Len(q) + 1] = x /\ u[Len(q) + 2] = h
                /\ \A i \in 1..Len(v) : u[Len(q) + 2 + i] = v[i]
          <6>1. /\ PairThen(q, x, h, v) \in Seq(Message)
                /\ IsPairThen(PairThen(q, x, h, v), q, x, h, v)
            BY PairAndRestSent
          <6>2. PICK u \in Seq(Message) : u = PairThen(q, x, h, v) /\ IsPairThen(u, q, x, h, v)
            BY <6>1
          <6> QED BY <6>2, Zenon DEF PairThen, IsPairThen
        <5>4. BacklogSent(q, u, log, b)
          <6>1. Len(u) = Len(q) + 2 + (Len(log) - b) /\ u[Len(q) + 2] = BulkHeader(Len(log) - b)
            BY <5>1, <5>2, <5>3, Zenon
          <6>2. \A i \in 1..(Len(log) - b) : u[Len(q) + 2 + i] = log[b + i]
            BY <5>2, <5>3
          <6> QED BY <6>1, <6>2 DEF BacklogSent
        <5>5. u = chan[c] \o ms
          BY <4>1, <4>2, <5>1, <5>2, <5>3, Zenon
        <5>6. Len(u) >= Len(q) + 2 /\ reg'[c] = "kSynced"
          <6>1. Len(v) \in Nat /\ Len(q) \in Nat /\ reg \in [Conns ->
                  {"none", "kWaitRdb", "kSendingRdb", "kSynced"}]
            BY <1>0 DEF TypeOK
          <6>2. Len(u) >= Len(q) + 2
            <7>1. Len(u) = Len(q) + 2 + Len(v)
              BY <5>3, Zenon
            <7> QED BY <6>1, <7>1
          <6> QED BY <6>1, <6>2, <4>2
        <5> QED BY <4>1, <5>3, <5>4, <5>5, <5>6, Zenon
      <4>3. CASE reg' = Erase(reg, {c}) /\ ms = <<RdbBody(file[c]), ErrLine>>
        <5>1. /\ q \o <<x, e>> \in Seq(Message) /\ Len(q \o <<x, e>>) = Len(q) + 2
              /\ \A i \in 1..Len(q) : (q \o <<x, e>>)[i] = q[i]
              /\ (q \o <<x, e>>)[Len(q) + 1] = x /\ (q \o <<x, e>>)[Len(q) + 2] = e
          BY PairSent
        <5>2. PICK u \in Seq(Message) :
                /\ u = q \o <<x, e>> /\ Len(u) = Len(q) + 2
                /\ \A i \in 1..Len(q) : u[i] = q[i]
                /\ u[Len(q) + 1] = x /\ u[Len(q) + 2] = e
          BY <5>1, Zenon
        <5>3. u = chan[c] \o ms
          BY <4>1, <4>3, <5>2, Zenon
        <5>4. reg'[c] = "none" /\ Len(u) >= Len(q) + 2
          BY <4>3, <5>2 DEF Erase
        <5> QED BY <4>1, <5>2, <5>3, <5>4, Zenon
      <4> QED BY <4>2, <4>3, <1>2
    <3>2. chan' = [chan EXCEPT ![c] = u]
      BY <1>2, <2>2, <3>1 DEF Send, Linked
    <3>3. chan' \in [Conns -> Seq(Message)] /\ chan'[c] = u
          /\ \A d \in Conns \ {c} : chan'[d] = chan[d]
      BY <3>2, <1>0
    <3> QED BY <3>1, <3>3, <2>2, Zenon
  <2> QED BY <2>1, <2>2, Zenon
<1>5. TypeOK'
  <2>1. file' \in [Conns -> Image] /\ fullsync_active' \in BOOLEAN
    BY <1>0, ImageTypes DEF SendBacklog, TypeOK, ActiveAfterRemove, AnyActive
  <2>2. UNCHANGED <<data, log, base, replid, start, fullsync_start, save_started,
                    child, mopen, peer, psync, slaveVars, boundVars, histVars>>
    BY DEF SendBacklog
  <2> QED BY <2>1, <2>2, <1>0, <1>3, <1>4 DEF TypeOK, slaveVars, boundVars, histVars, tip
<1>6. ASSUME NEW d \in Conns, Linked(d) PROVE LinkOK(d)'
  <2>1. LinkOK(d)
    BY <1>6 DEF LinkInv, Links
  <2>2. CASE d = c
    <3>1. /\ Typed(mopen[c], psync[c], reg[c], start[c], state[peer[c]], chan[c],
                   repl_offset[peer[c]], master_replid[peer[c]],
                   backlog_remaining[peer[c]], log, replid)
          /\ Link(mopen[c], psync[c], reg[c], start[c], state[peer[c]], chan[c],
                  repl_offset[peer[c]], master_replid[peer[c]],
                  backlog_remaining[peer[c]], log, replid)
      BY <2>1, <2>2, <1>0, <1>6, LinkTyped DEF LinkOK
    <3>2. PICK q2 \in Seq(Message) : q2 = chan'[c]
      BY <1>4
    <3>3. /\ Len(q2) >= Len(chan[c]) + 2
          /\ \A i \in 1..Len(chan[c]) : q2[i] = chan[c][i]
          /\ q2[Len(chan[c]) + 1].t = "rdb"
          /\ \/ reg'[c] = "kSynced" /\ BacklogSent(chan[c], q2, log, start[c])
             \/ /\ reg'[c] = "none" /\ Len(q2) = Len(chan[c]) + 2
                /\ q2[Len(chan[c]) + 2].t = "err"
      <4>1. RdbBody(file[c]).t = "rdb"
        BY DEF RdbBody
      <4> QED BY <1>4, <1>6, <2>2, <3>2, <4>1
    <3>4. Link(mopen[c], psync[c], reg'[c], start[c], state[peer[c]], q2,
               repl_offset[peer[c]], master_replid[peer[c]],
               backlog_remaining[peer[c]], log, replid)
      BY <3>1, <3>3, <1>0, LinkSent
    <3> QED BY <3>2, <3>4, <2>2, <1>0 DEF LinkOK, slaveVars
  <2>3. CASE d # c
    BY <2>1, <2>3, <1>0, <1>3, <1>4 DEF LinkOK, slaveVars
  <2> QED BY <2>2, <2>3
<1>7. Cuts' /\ WaiterHasSave'
  BY <1>0, <1>3 DEF LinkInv, Cuts, WaiterHasSave, tip
<1>8. \A d \in Conns : reg'[d] # "none" => mopen'[d] /\ psync'[d] = NoPsync
  BY <1>0, <1>3 DEF LinkInv, Ends
<1>9. ASSUME Linked(c) PROVE ImageSent(chan[c], chan'[c], file[c])
  <2>1. PICK q2 \in Seq(Message) : q2 = chan'[c]
    BY <1>4
  <2>2. /\ Len(q2) >= Len(chan[c]) + 2 /\ Len(chan[c]) \in Nat
        /\ \A i \in 1..Len(chan[c]) : q2[i] = chan[c][i]
        /\ q2[Len(chan[c]) + 1] = RdbBody(file[c])
        /\ \/ BacklogSent(chan[c], q2, log, b)
           \/ Len(q2) = Len(chan[c]) + 2 /\ q2[Len(chan[c]) + 2].t = "err"
    BY <1>0, <1>4, <1>9, <2>1
  <2>3. ASSUME NEW i \in 1..Len(q2), i > Len(chan[c]) + 1 PROVE q2[i].t # "rdb"
    <3>1. CASE i = Len(chan[c]) + 2
      <4>1. BulkHeader(Len(log) - b).t # "rdb"
        BY DEF BulkHeader
      <4> QED BY <3>1, <4>1, <2>2 DEF BacklogSent
    <3>2. CASE i # Len(chan[c]) + 2
      <4> HIDE DEF b
      <4>1. BacklogSent(chan[c], q2, log, b)
        BY <3>2, <2>2, <2>3
      <4>2. Len(q2) = Len(chan[c]) + 2 + (Len(log) - b)
        BY <4>1 DEF BacklogSent
      <4>3. PICK j \in 1..(Len(log) - b) :
              i = Len(chan[c]) + 2 + j /\ b + j \in 1..Len(log)
        <5>1. PICK n \in Nat, m \in Nat, l \in Nat :
                n = Len(chan[c]) /\ m = Len(log) /\ l = Len(q2)
          BY <2>2, <1>0
        <5>2. i \in 1..l /\ i > n + 1 /\ i # n + 2 /\ l = n + 2 + (m - b) /\ b \in Nat
          BY <5>1, <4>2, <3>2, <2>3, <1>0, Zenon
        <5>3. i - n - 2 \in 1..(m - b) /\ i = n + 2 + (i - n - 2) /\ b + (i - n - 2) \in 1..m
          BY <5>2
        <5> QED BY <5>1, <5>3, Zenon
      <4>4. q2[i] = log[b + j]
        BY <4>1, <4>3 DEF BacklogSent
      <4> QED BY <4>3, <4>4, <1>0, FrameItem
    <3> QED BY <3>1, <3>2
  <2>4. Len(q2) > Len(chan[c])
    BY <2>2
  <2> QED BY <2>1, <2>2, <2>3, <2>4 DEF ImageSent
<1>10. /\ UNCHANGED <<data, log, replid, peer, slaveVars, histVars, child>>
       /\ file'[c] = NoImage /\ \A d \in Conns \ {c} : file'[d] = file[d]
  BY <1>0 DEF SendBacklog, TypeOK
<1>11. LinkInv'
  BY <1>0, <1>4, <1>5, <1>6, <1>7, <1>8, MasterSide
<1> QED BY <1>3, <1>4, <1>9, <1>10, <1>11

(* What becomes of connection d when the waiters of the registrations r are  *)
(* dropped, or kept and aligned.                                             *)
Dropped(d, r) ==
    /\ r[d] = "kWaitRdb" /\ reg'[d] = "none"
    /\ Linked(d) => Grown(chan[d], chan'[d], ErrLine)
    /\ ~Linked(d) => chan'[d] = chan[d]

Kept(d, r) == reg'[d] = r[d] /\ chan'[d] = chan[d]

ChildType == [path : {"none", "dump", "fullsync"}, img : Image]

LEMMA DropWaitersIs ==
    ASSUME TypeOK, NEW r \in [Conns -> Regs], DropWaiters(r)
    PROVE  /\ reg' \in [Conns -> Regs] /\ chan' \in [Conns -> Seq(Message)]
           /\ fullsync_active' \in BOOLEAN
           /\ \A d \in Conns : /\ reg'[d] # "kWaitRdb"
                               /\ IF r[d] = "kWaitRdb" THEN Dropped(d, r) ELSE Kept(d, r)
<1>0. chan \in [Conns -> Seq(Message)]
  BY DEF TypeOK
<1>1. /\ reg' \in [Conns -> Regs] /\ fullsync_active' \in BOOLEAN
      /\ \A d \in Conns : reg'[d] = IF r[d] = "kWaitRdb" THEN "none" ELSE r[d]
  BY DEF DropWaiters, Regs
<1> DEFINE G(d) == IF r[d] = "kWaitRdb" /\ peer[d] # NoSlave
                   THEN Append(chan[d], ErrLine) ELSE chan[d]
<1>2. \A d \in Conns : Append(chan[d], ErrLine) \in Seq(Message)
                       /\ Grown(chan[d], Append(chan[d], ErrLine), ErrLine)
  <2> SUFFICES ASSUME NEW d \in Conns
               PROVE  Append(chan[d], ErrLine) \in Seq(Message)
                      /\ Grown(chan[d], Append(chan[d], ErrLine), ErrLine)
    OBVIOUS
  <2>1. PICK e \in Message : e = ErrLine
    BY ItemsAre
  <2>2. PICK q \in Seq(Message) : q = chan[d]
    BY <1>0
  <2>3. Append(q, e) \in Seq(Message) /\ Grown(q, Append(q, e), e)
    BY AppendGrows
  <2> QED BY <2>1, <2>2, <2>3, Zenon
<1>3. ASSUME NEW d \in Conns
      PROVE  /\ G(d) \in Seq(Message)
             /\ r[d] = "kWaitRdb" /\ Linked(d) => Grown(chan[d], G(d), ErrLine)
             /\ ~(r[d] = "kWaitRdb" /\ Linked(d)) => G(d) = chan[d]
  <2>1. CASE r[d] = "kWaitRdb" /\ Linked(d)
    BY <2>1, <1>2, Zenon DEF Linked
  <2>2. CASE ~(r[d] = "kWaitRdb" /\ Linked(d))
    BY <2>2, <1>0 DEF Linked
  <2> QED BY <2>1, <2>2
<1>4. chan' = [d \in Conns |-> G(d)]
  BY DEF DropWaiters
<1> HIDE DEF G
<1>5. chan' \in [Conns -> Seq(Message)] /\ \A d \in Conns : chan'[d] = G(d)
  BY <1>3, <1>4
<1>6. ASSUME NEW d \in Conns
      PROVE  /\ reg'[d] # "kWaitRdb"
             /\ IF r[d] = "kWaitRdb" THEN Dropped(d, r) ELSE Kept(d, r)
  BY <1>1, <1>3, <1>5 DEF Dropped, Kept
<1> QED BY <1>1, <1>5, <1>6

(* What StartFullsyncIfNeeded leaves behind.                                 *)
LEMMA StartIs ==
    ASSUME LinkInv, NEW r \in [Conns -> Regs], NEW st \in [Conns -> Nat],
           NEW act \in BOOLEAN, NEW ss \in BOOLEAN, NEW ch \in ChildType,
           ss => ch.path # "none",
           \A d \in Conns : r[d] = "kWaitRdb" => st[d] <= tip,
           StartFullsyncIfNeeded(r, st, act, ss, ch)
    PROVE  /\ reg' \in [Conns -> Regs] /\ start' \in [Conns -> Nat]
           /\ chan' \in [Conns -> Seq(Message)] /\ fullsync_active' \in BOOLEAN
           /\ fullsync_start' \in Nat /\ fullsync_start' <= tip
           /\ save_started' \in BOOLEAN /\ child' \in ChildType /\ iofails' \in Nat
           /\ save_started' => child'.path # "none"
           /\ child' = ch \/ child'.img = ImageNow
           /\ \A d \in Conns : /\ r[d] # "kWaitRdb" => start'[d] = st[d]
                               /\ r[d] = "kWaitRdb" => start'[d] <= tip
                               /\ reg'[d] = "kWaitRdb" => child'.path # "none"
                               /\ Kept(d, r) \/ Dropped(d, r)
<1>0. /\ TypeOK /\ chan \in [Conns -> Seq(Message)] /\ fullsync_start \in Nat
      /\ iofails \in Nat /\ tip \in Nat /\ fullsync_start <= tip
  BY DEF LinkInv, Cuts, TypeOK, tip
<1>1. CASE ss \/ \A c \in Conns : r[c] # "kWaitRdb"
  <2>1. /\ reg' = r /\ start' = st /\ fullsync_active' = act
        /\ save_started' = ss /\ child' = ch
        /\ UNCHANGED <<fullsync_start, chan, iofails>>
    BY <1>1 DEF StartFullsyncIfNeeded
  <2> QED BY <2>1, <1>0, <1>1 DEF Kept
<1>2. CASE ~(ss \/ \A c \in Conns : r[c] # "kWaitRdb")
  <2> DEFINE cut == IF act THEN fullsync_start ELSE tip
  <2>0. StartFullsync(r, st, act, ch) /\ cut \in Nat /\ cut <= tip
    BY <1>0, <1>2 DEF StartFullsyncIfNeeded
  <2>1. /\ fullsync_start' = cut
        /\ start' = [c \in Conns |-> IF r[c] = "kWaitRdb" THEN cut ELSE st[c]]
    BY <2>0 DEF StartFullsync
  <2>2. /\ fullsync_start' \in Nat /\ fullsync_start' <= tip /\ start' \in [Conns -> Nat]
        /\ \A d \in Conns : /\ r[d] # "kWaitRdb" => start'[d] = st[d]
                            /\ r[d] = "kWaitRdb" => start'[d] <= tip
    <3> HIDE DEF cut
    <3> QED BY <2>0, <2>1
  <2>3. CASE /\ ch.path # "none" /\ child' = ch /\ save_started' = FALSE
             /\ reg' = r /\ chan' = chan /\ fullsync_active' = TRUE /\ iofails' = iofails
    BY <2>2, <2>3, <1>0 DEF Kept
  <2>4. CASE /\ ch.path = "none" /\ child' = [path |-> "fullsync", img |-> ImageNow]
             /\ save_started' = TRUE
             /\ reg' = r /\ chan' = chan /\ fullsync_active' = TRUE /\ iofails' = iofails
    <3>1. child' \in ChildType /\ child'.path # "none" /\ child'.img = ImageNow
      BY <2>4, <1>0, ImageTypes DEF ChildType
    <3> QED BY <3>1, <2>2, <2>4, <1>0 DEF Kept
  <2>5. CASE /\ ch.path = "none" /\ iofails' = iofails + 1
             /\ child' = ch /\ save_started' = FALSE /\ DropWaiters(r)
    <3>1. /\ reg' \in [Conns -> Regs] /\ chan' \in [Conns -> Seq(Message)]
          /\ fullsync_active' \in BOOLEAN
          /\ \A d \in Conns : /\ reg'[d] # "kWaitRdb"
                              /\ IF r[d] = "kWaitRdb" THEN Dropped(d, r) ELSE Kept(d, r)
      BY <2>5, <1>0, DropWaitersIs
    <3>2. iofails' \in Nat
      BY <2>5, <1>0
    <3>3. save_started' \in BOOLEAN /\ child' \in ChildType /\ ~save_started' /\ child' = ch
      BY <2>5, Zenon
    <3> QED BY <3>1, <3>2, <3>3, <2>2
  <2> QED BY <2>0, <2>3, <2>4, <2>5 DEF StartFullsync
<1> QED BY <1>1, <1>2

LEMMA KeptLonger ==
    ASSUME TypeOK, NEW r, NEW d \in Conns, Linked(d), Kept(d, r) \/ Dropped(d, r)
    PROVE  Lengthened(chan[d], chan'[d])
<1>1. chan[d] \in Seq(Message)
  BY DEF TypeOK
<1>2. CASE Kept(d, r)
  BY <1>1, <1>2, SameLonger DEF Kept
<1>3. CASE Dropped(d, r)
  BY <1>1, <1>3, GrownLonger, ErrLineType DEF Dropped
<1> QED BY <1>2, <1>3

(* The link of a connection whose waiter is kept or dropped.                 *)
LEMMA KeptOrDropped ==
    ASSUME LinkInv, NEW d \in Conns, Linked(d), NEW r \in [Conns -> Regs],
           NEW st \in [Conns -> Nat], NEW ps \in Request \cup {NoPsync},
           Link(mopen[d], ps, r[d], st[d], state[peer[d]], chan[d],
                repl_offset[peer[d]], master_replid[peer[d]],
                backlog_remaining[peer[d]], log, replid),
           r[d] # "none" => ps = NoPsync,
           Kept(d, r) \/ Dropped(d, r),
           chan' \in [Conns -> Seq(Message)], start' \in [Conns -> Nat],
           r[d] # "kWaitRdb" => start'[d] = st[d],
           psync'[d] = ps, UNCHANGED <<mopen, peer, slaveVars, log, replid>>
    PROVE  LinkOK(d)'
<1> DEFINE s == peer[d]
<1>1. Typed(mopen[d], ps, r[d], st[d], state[s], chan[d], repl_offset[s],
            master_replid[s], backlog_remaining[s], log, replid)
  BY LinkTyped DEF LinkInv, Typed
<1>2. CASE Kept(d, r)
  <2>1. Link(mopen[d], ps, r[d], start'[d], state[s], chan[d], repl_offset[s],
             master_replid[s], backlog_remaining[s], log, replid)
    BY <1>1, LinkAligned
  <2> QED BY <2>1, <1>2 DEF LinkOK, slaveVars, Kept
<1>3. CASE Dropped(d, r)
  <2>1. r[d] = "kWaitRdb" /\ reg'[d] = "none" /\ ps = NoPsync
        /\ Grown(chan[d], chan'[d], ErrLine) /\ chan'[d] \in Seq(Message)
    BY <1>3 DEF Dropped
  <2>2. Link(mopen[d], NoPsync, "none", st[d], state[s], chan'[d], repl_offset[s],
             master_replid[s], backlog_remaining[s], log, replid)
    BY <1>1, <2>1, LinkTold
  <2>3. Typed(mopen[d], NoPsync, "none", st[d], state[s], chan'[d], repl_offset[s],
             master_replid[s], backlog_remaining[s], log, replid)
    BY <1>1, <2>1 DEF Typed, Regs
  <2>4. Link(mopen[d], NoPsync, "none", start'[d], state[s], chan'[d], repl_offset[s],
             master_replid[s], backlog_remaining[s], log, replid)
    BY <2>2, <2>3, LinkAligned
  <2> QED BY <2>1, <2>4 DEF LinkOK, slaveVars
<1> QED BY <1>2, <1>3

(* The callers of StartFullsyncIfNeeded.                                     *)
LEMMA StartStep ==
    ASSUME LinkInv, NEW r \in [Conns -> Regs], NEW st \in [Conns -> Nat],
           NEW act \in BOOLEAN, NEW ss \in BOOLEAN, NEW ch \in ChildType,
           ss => ch.path # "none",
           \A d \in Conns : r[d] = "kWaitRdb" => st[d] <= tip,
           \A d \in Conns : r[d] # "none" => mopen[d] /\ psync'[d] = NoPsync,
           psync' \in [Conns -> Request \cup {NoPsync}],
           \A d \in Conns : Linked(d) =>
               Link(mopen[d], psync'[d], r[d], st[d], state[peer[d]], chan[d],
                    repl_offset[peer[d]], master_replid[peer[d]],
                    backlog_remaining[peer[d]], log, replid),
           StartFullsyncIfNeeded(r, st, act, ss, ch),
           UNCHANGED <<data, log, base, replid, file, mopen, peer, slaveVars,
                       writes, breaks, saves, restarts, histVars>>
    PROVE  /\ LinkInv'
           /\ child' = ch \/ child'.img = ImageNow
           /\ \A d \in Conns : Kept(d, r) \/ Dropped(d, r)
<1>0. TypeOK /\ Len(log) \in Nat
  BY DEF LinkInv, TypeOK
<1>1. /\ reg' \in [Conns -> Regs] /\ start' \in [Conns -> Nat]
      /\ chan' \in [Conns -> Seq(Message)] /\ fullsync_active' \in BOOLEAN
      /\ fullsync_start' \in Nat /\ fullsync_start' <= tip
      /\ save_started' \in BOOLEAN /\ child' \in ChildType /\ iofails' \in Nat
      /\ save_started' => child'.path # "none"
      /\ child' = ch \/ child'.img = ImageNow
      /\ \A d \in Conns : /\ r[d] # "kWaitRdb" => start'[d] = st[d]
                          /\ r[d] = "kWaitRdb" => start'[d] <= tip
                          /\ reg'[d] = "kWaitRdb" => child'.path # "none"
                          /\ Kept(d, r) \/ Dropped(d, r)
  BY StartIs
<1>2. TypeOK'
  BY <1>0, <1>1 DEF TypeOK, Regs, ChildType, slaveVars, histVars, tip
<1>3. ASSUME NEW d \in Conns, Linked(d) PROVE LinkOK(d)'
  BY <1>1, <1>3, KeptOrDropped
<1>4. Cuts' /\ WaiterHasSave'
  <2>1. \A d \in Conns : reg'[d] = "kWaitRdb" => start'[d] <= tip
    BY <1>1 DEF Kept, Dropped
  <2> QED BY <2>1, <1>1 DEF Cuts, WaiterHasSave, tip
<1>5. \A d \in Conns : /\ reg'[d] # "none" => mopen'[d] /\ psync'[d] = NoPsync
                       /\ ~Linked(d) => chan'[d] = chan[d]
  BY <1>1 DEF Kept, Dropped
<1>6. LinkInv'
  BY <1>0, <1>2, <1>3, <1>4, <1>5, MasterSide
<1> QED BY <1>1, <1>6

LEMMA OnPsyncFullStep ==
    ASSUME LinkInv, NEW c \in Conns, OnPsyncFull(c)
    PROVE  LinkInv' /\ Quiet
<1>0. /\ TypeOK /\ mopen[c] /\ psync[c] # NoPsync /\ save_started \in BOOLEAN
      /\ child \in ChildType /\ tip \in Nat
      /\ save_started => child.path # "none"
  BY DEF LinkInv, OnPsyncFull, TypeOK, ChildType, Cuts, tip
<1>1. PICK r \in [Conns -> Regs] : /\ r = [reg EXCEPT ![c] = "kWaitRdb"]
                                   /\ r[c] = "kWaitRdb"
                                   /\ \A d \in Conns \ {c} : r[d] = reg[d]
  <2>1. reg \in [Conns -> Regs] /\ "kWaitRdb" \in Regs
    BY <1>0 DEF TypeOK, Regs
  <2>2. /\ [reg EXCEPT ![c] = "kWaitRdb"] \in [Conns -> Regs]
        /\ [reg EXCEPT ![c] = "kWaitRdb"][c] = "kWaitRdb"
        /\ \A d \in Conns \ {c} : [reg EXCEPT ![c] = "kWaitRdb"][d] = reg[d]
    BY <2>1
  <2> QED BY <2>2, Zenon
<1>2. PICK st \in [Conns -> Nat] : /\ st = [start EXCEPT ![c] = tip]
                                   /\ st[c] = tip
                                   /\ \A d \in Conns \ {c} : st[d] = start[d]
  <2>1. start \in [Conns -> Nat]
    BY <1>0 DEF TypeOK
  <2>2. /\ [start EXCEPT ![c] = tip] \in [Conns -> Nat] /\ [start EXCEPT ![c] = tip][c] = tip
        /\ \A d \in Conns \ {c} : [start EXCEPT ![c] = tip][d] = start[d]
    BY <2>1, <1>0
  <2> QED BY <2>2, Zenon
<1>3. PICK act \in BOOLEAN :
        act = ActiveAfterRemove(Erase(reg, {c}), fullsync_active, save_started)
  BY <1>0 DEF TypeOK, ActiveAfterRemove, AnyActive
<1>4. /\ psync' \in [Conns -> Request \cup {NoPsync}] /\ psync'[c] = NoPsync
      /\ \A d \in Conns \ {c} : psync'[d] = psync[d]
  BY <1>0 DEF TypeOK, OnPsyncFull
<1>5. StartFullsyncIfNeeded(r, st, act, save_started, child)
  BY <1>1, <1>2, <1>3 DEF OnPsyncFull
<1>6. \A d \in Conns : r[d] = "kWaitRdb" => st[d] <= tip
  BY <1>0, <1>1, <1>2 DEF LinkInv, Cuts
<1>7. \A d \in Conns : r[d] # "none" => mopen[d] /\ psync'[d] = NoPsync
  BY <1>0, <1>1, <1>4 DEF LinkInv, Ends
<1>8. ASSUME NEW d \in Conns, Linked(d)
      PROVE  Link(mopen[d], psync'[d], r[d], st[d], state[peer[d]], chan[d],
                  repl_offset[peer[d]], master_replid[peer[d]],
                  backlog_remaining[peer[d]], log, replid)
  <2>1. LinkOK(d)
    BY <1>8 DEF LinkInv, Links
  <2>2. CASE d = c
    <3>1. Link(mopen[d], NoPsync, "kWaitRdb", st[d], state[peer[d]], chan[d],
               repl_offset[peer[d]], master_replid[peer[d]],
               backlog_remaining[peer[d]], log, replid)
      <4>1. Typed(mopen[d], psync[d], reg[d], start[d], state[peer[d]], chan[d],
                  repl_offset[peer[d]], master_replid[peer[d]],
                  backlog_remaining[peer[d]], log, replid)
        BY <1>0, <1>8, LinkTyped
      <4>2. Link(mopen[d], psync[d], reg[d], start[d], state[peer[d]], chan[d],
                 repl_offset[peer[d]], master_replid[peer[d]],
                 backlog_remaining[peer[d]], log, replid)
        BY <2>1 DEF LinkOK
      <4>3. psync[d] # NoPsync
        BY <2>2, <1>0
      <4> QED BY <4>1, <4>2, <4>3, LinkWaits
    <3> QED BY <3>1, <2>2, <1>1, <1>4
  <2>3. CASE d # c
    BY <2>1, <2>3, <1>1, <1>2, <1>4 DEF LinkOK
  <2> QED BY <2>2, <2>3
<1>9. UNCHANGED <<data, log, base, replid, file, mopen, peer, slaveVars,
                  writes, breaks, saves, restarts, histVars>>
  BY DEF OnPsyncFull
<1>10. /\ LinkInv'
       /\ child' = child \/ child'.img = ImageNow
       /\ \A d \in Conns : Kept(d, r) \/ Dropped(d, r)
  BY <1>0, <1>4, <1>5, <1>6, <1>7, <1>8, <1>9, StartStep
<1>11. ASSUME NEW d \in Conns
       PROVE  /\ Linked(d) => Lengthened(chan[d], chan'[d])
              /\ reg'[d] = "kSendingRdb" => reg[d] = "kSendingRdb"
  <2>1. Linked(d) => Lengthened(chan[d], chan'[d])
    BY <1>0, <1>10, KeptLonger
  <2>2. reg'[d] = "kSendingRdb" => reg[d] = "kSendingRdb"
    BY <1>1, <1>10 DEF Kept, Dropped
  <2> QED BY <2>1, <2>2
<1> QED BY <1>9, <1>10, <1>11 DEF Quiet

LEMMA DumpSavedStep ==
    ASSUME LinkInv, DumpSaved
    PROVE  LinkInv' /\ Quiet
<1>0. /\ TypeOK /\ reg \in [Conns -> Regs] /\ start \in [Conns -> Nat]
      /\ fullsync_active \in BOOLEAN /\ FALSE \in BOOLEAN
  BY DEF LinkInv, TypeOK, Regs
<1>1. NoChild \in ChildType
  BY ImageTypes DEF NoChild, ChildType
<1>2. /\ StartFullsyncIfNeeded(reg, start, fullsync_active, FALSE, NoChild)
      /\ UNCHANGED <<data, log, base, replid, file, mopen, peer, psync, slaveVars,
                     writes, breaks, saves, restarts, histVars>>
  BY DEF DumpSaved
<1>3. psync' = psync /\ psync' \in [Conns -> Request \cup {NoPsync}]
  BY <1>0, <1>2 DEF TypeOK
<1>4. /\ \A d \in Conns : reg[d] = "kWaitRdb" => start[d] <= tip
      /\ \A d \in Conns : reg[d] # "none" => mopen[d] /\ psync'[d] = NoPsync
  BY <1>3 DEF LinkInv, Cuts, Ends
<1>5. \A d \in Conns : Linked(d) =>
        Link(mopen[d], psync'[d], reg[d], start[d], state[peer[d]], chan[d],
             repl_offset[peer[d]], master_replid[peer[d]],
             backlog_remaining[peer[d]], log, replid)
  BY <1>3 DEF LinkInv, Links, LinkOK
<1>6. /\ LinkInv'
      /\ child' = NoChild \/ child'.img = ImageNow
      /\ \A d \in Conns : Kept(d, reg) \/ Dropped(d, reg)
  BY <1>0, <1>1, <1>2, <1>3, <1>4, <1>5, StartStep
<1>7. ASSUME NEW d \in Conns
      PROVE  /\ Linked(d) => Lengthened(chan[d], chan'[d])
             /\ reg'[d] = "kSendingRdb" => reg[d] = "kSendingRdb"
  <2>1. Linked(d) => Lengthened(chan[d], chan'[d])
    BY <1>0, <1>6, KeptLonger
  <2>2. reg'[d] = "kSendingRdb" => reg[d] = "kSendingRdb"
    BY <1>6 DEF Kept, Dropped
  <2> QED BY <2>1, <2>2
<1> QED BY <1>2, <1>6, <1>7 DEF Quiet

LEMMA FullsyncSaveFailedStep ==
    ASSUME LinkInv, FullsyncSaveFailed
    PROVE  LinkInv' /\ Quiet
<1>0. /\ TypeOK /\ reg \in [Conns -> Regs] /\ start \in [Conns -> Nat]
      /\ psync \in [Conns -> Request \cup {NoPsync}] /\ Len(log) \in Nat /\ iofails \in Nat
      /\ UNCHANGED <<data, log, base, replid, start, file, fullsync_start, mopen,
                     peer, psync, slaveVars, writes, breaks, saves, restarts, histVars>>
      /\ DropWaiters(reg) /\ child' = NoChild /\ save_started' = FALSE
      /\ iofails' = iofails + 1
  BY DEF LinkInv, TypeOK, Regs, FullsyncSaveFailed
<1>1. /\ reg' \in [Conns -> Regs] /\ chan' \in [Conns -> Seq(Message)]
      /\ fullsync_active' \in BOOLEAN
      /\ \A d \in Conns : /\ reg'[d] # "kWaitRdb"
                          /\ IF reg[d] = "kWaitRdb" THEN Dropped(d, reg) ELSE Kept(d, reg)
  BY <1>0, DropWaitersIs
<1>2. child' \in ChildType
  BY <1>0, ImageTypes DEF NoChild, ChildType
<1>3. save_started' \in BOOLEAN /\ ~save_started'
  BY <1>0, Zenon
<1>4. TypeOK'
  <2>1. iofails' \in Nat
    BY <1>0
  <2>2. UNCHANGED <<data, log, base, replid, start, file, fullsync_start, mopen,
                     peer, psync, slaveVars, writes, breaks, saves, restarts, histVars>>
    BY <1>0
  <2> QED BY <1>0, <2>1, <2>2, <1>1, <1>2, <1>3
          DEF TypeOK, Regs, ChildType, slaveVars, histVars, tip
<1>5. ASSUME NEW d \in Conns, Linked(d) PROVE LinkOK(d)'
  <2>1. Link(mopen[d], psync[d], reg[d], start[d], state[peer[d]], chan[d],
             repl_offset[peer[d]], master_replid[peer[d]],
             backlog_remaining[peer[d]], log, replid)
    BY <1>5 DEF LinkInv, Links, LinkOK
  <2>2. reg[d] # "none" => psync[d] = NoPsync
    BY DEF LinkInv, Ends
  <2>3. Kept(d, reg) \/ Dropped(d, reg)
    BY <1>1
  <2>4. psync[d] \in Request \cup {NoPsync} /\ start' \in [Conns -> Nat]
        /\ start'[d] = start[d] /\ psync'[d] = psync[d]
        /\ UNCHANGED <<mopen, peer, slaveVars, log, replid>>
    BY <1>0
  <2> QED BY <2>1, <2>2, <2>3, <2>4, <1>0, <1>1, <1>5, KeptOrDropped
<1>6. Cuts' /\ WaiterHasSave'
  BY <1>0, <1>1, <1>3 DEF LinkInv, Cuts, WaiterHasSave, tip
<1>7. \A d \in Conns : /\ reg'[d] # "none" => mopen'[d] /\ psync'[d] = NoPsync
                       /\ ~Linked(d) => chan'[d] = chan[d]
  BY <1>0, <1>1 DEF Kept, Dropped, LinkInv, Ends
<1>8. ASSUME NEW d \in Conns
      PROVE  /\ Linked(d) => Lengthened(chan[d], chan'[d])
             /\ reg'[d] = "kSendingRdb" => reg[d] = "kSendingRdb"
  <2>1. Linked(d) => Lengthened(chan[d], chan'[d])
    BY <1>0, <1>1, KeptLonger
  <2>2. reg'[d] = "kSendingRdb" => reg[d] = "kSendingRdb"
    BY <1>1 DEF Kept, Dropped
  <2> QED BY <2>1, <2>2
<1>9. Quiet
  BY <1>0, <1>8 DEF Quiet
<1> QED BY <1>0, <1>4, <1>5, <1>6, <1>7, <1>9, MasterSide

LEMMA PairPlusIs ==
    ASSUME NEW S, NEW q \in Seq(S), NEW a \in S, NEW b \in S, NEW v \in Seq(S)
    PROVE  q \o <<a, b>> \o v = PairThen(q, a, b, v)
<1>1. PICK w \in Seq(S) : w = <<a, b>>
  <2>1. <<a, b>> \in Seq(S)
    OBVIOUS
  <2> QED BY <2>1, Zenon
<1>2. (q \o w) \o v = q \o (w \o v)
  BY ConcatAssociative
<1> QED BY <1>1, <1>2, Zenon DEF PairThen

(* What a waiter is sent when the file is there: its cut, the header, and an *)
(* error line if the file cannot be opened.                                  *)
Announced(q, q2, o, opened) ==
    /\ q2 \in Seq(Message) /\ Len(q2) = Len(q) + (IF opened THEN 2 ELSE 3)
    /\ \A i \in 1..Len(q) : q2[i] = q[i]
    /\ q2[Len(q) + 1] = FullResync(replid, o) /\ q2[Len(q) + 2].t = "bulk"
    /\ ~opened => q2[Len(q) + 3].t = "err"

LEMMA AnnouncedIs ==
    ASSUME NEW q \in Seq(Message), NEW o \in Nat, replid \in Nat, NEW opened \in BOOLEAN
    PROVE  Announced(q, q \o <<FullResync(replid, o), BulkHeader(1)>>
                          \o (IF opened THEN <<>> ELSE <<ErrLine>>), o, opened)
<1>1. PICK a \in Message, b \in Message, e \in Message :
        a = FullResync(replid, o) /\ b = BulkHeader(1) /\ e = ErrLine
        /\ b.t = "bulk" /\ e.t = "err"
  <2>1. /\ FullResync(replid, o) \in Message /\ BulkHeader(1) \in Message
        /\ ErrLine \in Message /\ BulkHeader(1).t = "bulk" /\ ErrLine.t = "err"
    BY ItemsAre DEF BulkHeader, ErrLine
  <2> QED BY <2>1, Zenon
<1>2. PICK v \in Seq(Message) :
        /\ v = (IF opened THEN <<>> ELSE <<ErrLine>>)
        /\ Len(v) = (IF opened THEN 0 ELSE 1) /\ (~opened => v[1] = e)
  <2>1. <<>> \in Seq(Message) /\ Len(<<>>) = 0
    OBVIOUS
  <2>2. <<e>> \in Seq(Message) /\ Len(<<e>>) = 1 /\ <<e>>[1] = e
    OBVIOUS
  <2>3. CASE opened
    <3>1. (IF opened THEN <<>> ELSE <<ErrLine>>) = <<>> /\ (IF opened THEN 0 ELSE 1) = 0
      BY <2>3, Zenon
    <3>2. PICK y \in Seq(Message) : y = <<>> /\ Len(y) = 0
      BY <2>1, Zenon
    <3> QED BY <2>3, <3>1, <3>2
  <2>4. CASE ~opened
    BY <1>1, <2>2, <2>4, Zenon
  <2> QED BY <2>3, <2>4
<1>3. /\ PairThen(q, a, b, v) \in Seq(Message)
      /\ IsPairThen(PairThen(q, a, b, v), q, a, b, v)
  BY PairAndRestSent
<1>4. PICK u \in Seq(Message) : u = PairThen(q, a, b, v) /\ IsPairThen(u, q, a, b, v)
  BY <1>3
<1>5. u = q \o <<FullResync(replid, o), BulkHeader(1)>>
               \o (IF opened THEN <<>> ELSE <<ErrLine>>)
  <2>1. q \o <<a, b>> \o v = PairThen(q, a, b, v)
    BY PairPlusIs
  <2> QED BY <2>1, <1>1, <1>2, <1>4, Zenon
<1>6. Announced(q, u, o, opened)
  <2>1. /\ Len(u) = Len(q) + 2 + Len(v) /\ \A i \in 1..Len(q) : u[i] = q[i]
        /\ u[Len(q) + 1] = a /\ u[Len(q) + 2] = b
        /\ \A i \in 1..Len(v) : u[Len(q) + 2 + i] = v[i]
    BY <1>4 DEF IsPairThen
  <2>2. Len(q) \in Nat /\ Len(v) = (IF opened THEN 0 ELSE 1)
    BY <1>2
  <2>3. Len(u) = Len(q) + (IF opened THEN 2 ELSE 3)
    BY <2>1, <2>2
  <2>4. u[Len(q) + 1] = FullResync(replid, o) /\ u[Len(q) + 2].t = "bulk"
    BY <1>1, <2>1, Zenon
  <2>5. ASSUME ~opened PROVE u[Len(q) + 3].t = "err"
    <3>1. 1 \in 1..Len(v) /\ Len(q) + 2 + 1 = Len(q) + 3
      BY <2>2, <2>5
    <3>2. u[Len(q) + 3] = v[1]
      BY <3>1, <2>1
    <3> QED BY <3>2, <2>5, <1>1, <1>2, Zenon
  <2> QED BY <2>1, <2>3, <2>4, <2>5 DEF Announced
<1> QED BY <1>5, <1>6, Zenon

LEMMA FullsyncSavedStep ==
    ASSUME LinkInv, FullsyncSaved
    PROVE  LinkInv' /\ Quiet
<1> DEFINE waiters == {c \in Conns : reg[c] = "kWaitRdb"}
<1>0. /\ TypeOK /\ reg \in [Conns -> Regs] /\ start \in [Conns -> Nat]
      /\ chan \in [Conns -> Seq(Message)] /\ Len(log) \in Nat /\ iofails \in Nat
      /\ replid \in Nat /\ child.img \in Image /\ file \in [Conns -> Image]
      /\ UNCHANGED <<data, log, base, replid, start, fullsync_start, mopen, peer,
                     psync, slaveVars, writes, breaks, saves, restarts, histVars>>
      /\ child' = NoChild /\ save_started' = FALSE
  BY DEF LinkInv, TypeOK, Regs, FullsyncSaved
<1>1. PICK missing \in SUBSET waiters, unopened \in SUBSET waiters :
        /\ missing \cap unopened = {}
        /\ iofails' = iofails + Cardinality(missing \cup unopened)
        /\ LET bad == missing \cup unopened
           IN  /\ reg' = [c \in Conns |->
                            IF c \in bad THEN "none"
                            ELSE IF c \in waiters THEN "kSendingRdb" ELSE reg[c]]
               /\ file' = [c \in Conns |-> IF c \in waiters \ bad
                                           THEN child.img ELSE file[c]]
               /\ chan' = [c \in Conns |->
                    IF c \notin waiters \/ peer[c] = NoSlave THEN chan[c]
                    ELSE IF c \in missing THEN Append(chan[c], ErrLine)
                    ELSE chan[c] \o <<FullResync(replid, start[c]), BulkHeader(1)>>
                         \o (IF c \in unopened THEN <<ErrLine>> ELSE <<>>)]
               /\ fullsync_active' = IF bad = {} THEN fullsync_active
                     ELSE ActiveAfterRemove(reg', fullsync_active, FALSE)
  BY DEF FullsyncSaved
<1>2. /\ reg' \in [Conns -> Regs] /\ file' \in [Conns -> Image]
      /\ fullsync_active' \in BOOLEAN
      /\ \A c \in Conns : reg'[c] = IF c \in missing \cup unopened THEN "none"
                                    ELSE IF c \in waiters THEN "kSendingRdb" ELSE reg[c]
  <2>1. /\ reg' \in [Conns -> Regs] /\ file' \in [Conns -> Image]
        /\ \A c \in Conns : reg'[c] = IF c \in missing \cup unopened THEN "none"
                                      ELSE IF c \in waiters THEN "kSendingRdb" ELSE reg[c]
    BY <1>0, <1>1 DEF Regs
  <2>2. fullsync_active' \in BOOLEAN
    <3>1. fullsync_active \in BOOLEAN
      BY <1>0 DEF TypeOK
    <3>2. ActiveAfterRemove(reg', fullsync_active, FALSE) \in BOOLEAN
      BY <3>1 DEF ActiveAfterRemove, AnyActive
    <3> QED BY <3>1, <3>2, <1>1
  <2> QED BY <2>1, <2>2
<1>3. iofails' \in Nat
  <2>1. IsFiniteSet(missing \cup unopened)
    <3>1. missing \cup unopened \subseteq Conns
      OBVIOUS
    <3> QED BY <3>1, ReplicationAssumption, FS_Subset
  <2>2. Cardinality(missing \cup unopened) \in Nat
    BY <2>1, FS_CardinalityType
  <2> HIDE DEF waiters
  <2> QED BY <1>0, <1>1, <2>2
<1> DEFINE G(c) == IF c \notin waiters \/ peer[c] = NoSlave THEN chan[c]
                   ELSE IF c \in missing THEN Append(chan[c], ErrLine)
                   ELSE chan[c] \o <<FullResync(replid, start[c]), BulkHeader(1)>>
                        \o (IF c \in unopened THEN <<ErrLine>> ELSE <<>>)
<1>4. ASSUME NEW c \in Conns
      PROVE  /\ G(c) \in Seq(Message)
             /\ (c \notin waiters \/ ~Linked(c)) => G(c) = chan[c]
             /\ c \in waiters /\ Linked(c) =>
                  IF c \in missing THEN Grown(chan[c], G(c), ErrLine)
                  ELSE Announced(chan[c], G(c), start[c], c \notin unopened)
  <2>0. PICK q \in Seq(Message), o \in Nat, e \in Message :
          q = chan[c] /\ o = start[c] /\ e = ErrLine
    BY <1>0, ItemsAre
  <2>1. CASE c \notin waiters \/ ~Linked(c)
    BY <2>1, <1>0, Zenon DEF Linked
  <2>2. CASE c \in waiters /\ Linked(c) /\ c \in missing
    <3>1. Append(q, e) \in Seq(Message) /\ Grown(q, Append(q, e), e)
      BY AppendGrows
    <3>2. G(c) = Append(q, e)
      BY <2>0, <2>2, Zenon DEF Linked
    <3> QED BY <3>1, <3>2, <2>0, <2>2, Zenon
  <2>3. CASE c \in waiters /\ Linked(c) /\ c \notin missing
    <3>1. PICK opened \in BOOLEAN : opened <=> c \notin unopened
      OBVIOUS
    <3>2. Announced(q, q \o <<FullResync(replid, o), BulkHeader(1)>>
                          \o (IF opened THEN <<>> ELSE <<ErrLine>>), o, opened)
      BY <1>0, AnnouncedIs
    <3>3. G(c) = q \o <<FullResync(replid, o), BulkHeader(1)>>
                   \o (IF opened THEN <<>> ELSE <<ErrLine>>)
      <4>1. CASE c \in unopened
        BY <4>1, <3>1, <2>0, <2>3, Zenon DEF Linked
      <4>2. CASE c \notin unopened
        BY <4>2, <3>1, <2>0, <2>3, Zenon DEF Linked
      <4> QED BY <4>1, <4>2
    <3>4. Announced(chan[c], G(c), start[c], opened)
      BY <3>2, <3>3, <2>0, Zenon
    <3> HIDE DEF G, waiters
    <3>5. G(c) \in Seq(Message)
      BY <3>4 DEF Announced
    <3>6. opened = (c \notin unopened)
      BY <3>1
    <3> QED BY <3>4, <3>5, <3>6, <2>3, Zenon
  <2> QED BY <2>1, <2>2, <2>3, Zenon
<1>5. chan' = [c \in Conns |-> G(c)]
  BY <1>1, Zenon
<1>6. chan' \in [Conns -> Seq(Message)] /\ \A c \in Conns : chan'[c] = G(c)
  <2> HIDE DEF G, waiters
  <2> QED BY <1>4, <1>5
<1> HIDE DEF G
<1>7. child' \in ChildType /\ save_started' \in BOOLEAN /\ ~save_started'
  <2>1. NoChild \in ChildType
    BY ImageTypes DEF NoChild, ChildType
  <2> QED BY <2>1, <1>0, Zenon
<1>8. TypeOK'
  <2> HIDE DEF waiters
  <2>1. UNCHANGED <<data, log, base, replid, start, fullsync_start, mopen, peer,
                    psync, slaveVars, writes, breaks, saves, restarts, histVars>>
    BY <1>0
  <2> QED BY <2>1, <1>0, <1>2, <1>3, <1>6, <1>7
          DEF TypeOK, Regs, ChildType, slaveVars, histVars, tip
<1>9. ASSUME NEW d \in Conns, Linked(d) PROVE LinkOK(d)'
  <2> DEFINE s == peer[d]
  <2>0. UNCHANGED <<log, replid, start, mopen, peer, psync, slaveVars>>
    BY <1>0
  <2>1. /\ Link(mopen[d], psync[d], reg[d], start[d], state[s], chan[d],
                repl_offset[s], master_replid[s], backlog_remaining[s], log, replid)
        /\ Typed(mopen[d], psync[d], reg[d], start[d], state[s], chan[d],
                 repl_offset[s], master_replid[s], backlog_remaining[s], log, replid)
    BY <1>0, <1>9, LinkTyped DEF LinkInv, Links, LinkOK
  <2>2. chan'[d] = G(d) /\ chan'[d] \in Seq(Message)
    BY <1>6
  <2>3. CASE d \notin waiters
    <3>1. chan'[d] = chan[d] /\ reg'[d] = reg[d]
      BY <2>2, <2>3, <1>2, <1>4
    <3> QED BY <3>1, <2>0, <2>1 DEF LinkOK, slaveVars
  <2>4. CASE d \in waiters
    <3>0. reg[d] = "kWaitRdb" /\ psync[d] = NoPsync /\ start[d] <= Len(log) /\ chan[d] = <<>>
      BY <2>1, <2>4 DEF LinkInv, Ends, Cuts, tip, Link, Agrees
    <3>1. CASE d \in missing
      <4>1. Grown(chan[d], chan'[d], ErrLine) /\ reg'[d] = "none"
        BY <3>1, <2>2, <2>4, <1>2, <1>4, <1>9
      <4>2. Link(mopen[d], NoPsync, "none", start[d], state[s], chan'[d],
                 repl_offset[s], master_replid[s], backlog_remaining[s], log, replid)
        BY <4>1, <3>0, <2>1, <2>2, LinkTold
      <4> QED BY <4>1, <4>2, <3>0, <2>0 DEF LinkOK, slaveVars
    <3>2. CASE d \notin missing
      <4>0. PICK q2 \in Seq(Message) : q2 = chan'[d]
        BY <2>2
      <4>1. Announced(chan[d], q2, start[d], d \notin unopened)
        BY <3>2, <2>2, <2>4, <1>4, <1>9, <4>0
      <4>2. /\ Len(q2) = (IF d \notin unopened THEN 2 ELSE 3)
            /\ q2[1] = FullResync(replid, start[d]) /\ q2[2].t = "bulk"
            /\ d \in unopened => q2[3].t = "err"
        <5>1. Len(chan[d]) = 0
          BY <3>0
        <5> QED BY <4>1, <5>1 DEF Announced
      <4>3. reg'[d] = IF d \in unopened THEN "none" ELSE "kSendingRdb"
        BY <3>2, <2>4, <1>2
      <4>4. Link(mopen[d], NoPsync, reg'[d], start[d], state[s], q2,
                 repl_offset[s], master_replid[s], backlog_remaining[s], log, replid)
        BY <4>2, <4>3, <3>0, <2>1, LinkAnnounced
      <4> QED BY <4>0, <4>4, <3>0, <2>0 DEF LinkOK, slaveVars
    <3> QED BY <3>1, <3>2
  <2> QED BY <2>3, <2>4
<1>10. Cuts' /\ WaiterHasSave'
  <2>1. \A d \in Conns : reg'[d] # "kWaitRdb"
    BY <1>2
  <2> QED BY <2>1, <1>0, <1>7 DEF LinkInv, Cuts, WaiterHasSave, tip
<1>11. \A d \in Conns : /\ reg'[d] # "none" => mopen'[d] /\ psync'[d] = NoPsync
                        /\ ~Linked(d) => chan'[d] = chan[d]
  <2>1. \A d \in Conns : reg'[d] # "none" => reg[d] # "none"
    BY <1>2
  <2> QED BY <2>1, <1>0, <1>4, <1>6 DEF LinkInv, Ends
<1>12. Quiet
  <2>1. ASSUME NEW d \in Conns, Linked(d) PROVE Lengthened(chan[d], chan'[d])
    <3>0. chan[d] \in Seq(Message) /\ chan'[d] = G(d)
      BY <1>0, <1>6
    <3>1. CASE d \notin waiters
      <4>1. chan'[d] = chan[d]
        BY <3>0, <3>1, <1>4
      <4> QED BY <3>0, <4>1, SameLonger
    <3>2. CASE d \in waiters /\ d \in missing
      <4>1. Grown(chan[d], chan'[d], ErrLine)
        BY <3>0, <3>2, <2>1, <1>4
      <4> QED BY <3>0, <4>1, GrownLonger, ErrLineType
    <3>3. CASE d \in waiters /\ d \notin missing
      <4>1. Announced(chan[d], chan'[d], start[d], d \notin unopened)
        BY <3>0, <3>3, <2>1, <1>4
      <4>2. FullResync(replid, start[d]).t # "rdb"
        BY DEF FullResync
      <4> HIDE DEF waiters
      <4>3. PICK q2 \in Seq(Message), n \in Nat : q2 = chan'[d] /\ n = Len(chan[d])
        BY <3>0, <4>1 DEF Announced
      <4>4. /\ Len(q2) \in {n + 2, n + 3} /\ \A i \in 1..n : q2[i] = chan[d][i]
            /\ q2[n + 1].t # "rdb" /\ q2[n + 2].t # "rdb"
            /\ Len(q2) = n + 3 => q2[n + 3].t # "rdb"
        BY <4>1, <4>2, <4>3 DEF Announced
      <4>5. ASSUME NEW i \in 1..Len(q2), i > n PROVE q2[i].t # "rdb"
        <5>1. i \in {n + 1, n + 2} \/ (i = n + 3 /\ Len(q2) = n + 3)
          BY <4>4, <4>5
        <5> QED BY <5>1, <4>4
      <4>6. Len(q2) >= n
        BY <4>4
      <4> QED BY <4>3, <4>4, <4>5, <4>6 DEF Lengthened
    <3> QED BY <3>1, <3>2, <3>3
  <2>2. ASSUME NEW d \in Conns
        PROVE  /\ file'[d] \in {file[d], NoImage, child.img}
               /\ reg'[d] = "kSendingRdb" =>
                    \/ reg[d] = "kSendingRdb" /\ file'[d] = file[d]
                    \/ child.path # "none" /\ file'[d] = child.img
    <3>1. child.path # "none"
      BY DEF FullsyncSaved, WasFullsync
    <3>2. file'[d] = IF d \in waiters \ (missing \cup unopened) THEN child.img ELSE file[d]
      BY <1>1
    <3> QED BY <3>1, <3>2, <1>2
  <2> QED BY <2>1, <2>2, <1>0 DEF Quiet
<1> QED BY <1>0, <1>8, <1>9, <1>10, <1>11, <1>12, MasterSide

-----------------------------------------------------------------------------
(* Client writes *)

(* What feeding frame f does to connection d.                                *)
Fed(d, f) ==
    /\ \/ reg'[d] = reg[d] /\ mopen'[d] = mopen[d] /\ file'[d] = file[d]
       \/ /\ reg[d] # "none" /\ reg'[d] = "none" /\ mopen'[d] = FALSE
          /\ file'[d] = NoImage
    /\ ~Linked(d) => chan'[d] = chan[d]
    /\ Linked(d) =>
         \/ reg[d] = "kSynced" /\ Grown(chan[d], chan'[d], f)
         \/ reg[d] # "kSynced" /\ chan'[d] = chan[d]
         \/ /\ reg[d] = "kWaitRdb" /\ reg'[d] = "none" /\ mopen'[d] = FALSE
            /\ Grown(chan[d], chan'[d], ErrLine)

LEMMA FeedIs ==
    ASSUME TypeOK, NEW f \in FrameSet, NEW big \in BOOLEAN, FeedEncodedFrame(f, big)
    PROVE  /\ log' \in Seq(FrameSet) /\ Grown(log, log', f)
           /\ base' \in Nat /\ base' <= Len(log')
           /\ reg' \in [Conns -> Regs] /\ mopen' \in [Conns -> BOOLEAN]
           /\ chan' \in [Conns -> Seq(Message)] /\ file' \in [Conns -> Image]
           /\ fullsync_active' \in BOOLEAN
           /\ \A d \in Conns : Fed(d, f)
<1>0. /\ log \in Seq(FrameSet) /\ reg \in [Conns -> Regs] /\ mopen \in [Conns -> BOOLEAN]
      /\ chan \in [Conns -> Seq(Message)] /\ file \in [Conns -> Image]
      /\ fullsync_active \in BOOLEAN /\ base \in Nat /\ base <= Len(log) /\ Len(log) \in Nat
  BY DEF TypeOK, Regs, tip
<1>1. log' \in Seq(FrameSet) /\ Grown(log, log', f)
  <2>1. Append(log, f) \in Seq(FrameSet) /\ Grown(log, Append(log, f), f)
    BY <1>0, AppendGrows
  <2> QED BY <2>1 DEF FeedEncodedFrame
<1>2. base' \in Nat /\ base' <= Len(log')
  <2>1. Len(log') = Len(log) + 1
    BY <1>1 DEF Grown
  <2>2. base' = BaseAfterFeed(big)
    BY DEF FeedEncodedFrame
  <2> QED BY <2>1, <2>2, <1>0, ReplicationAssumption DEF BaseAfterFeed, tip
<1> DEFINE P(c) == IF PushedTo(c) /\ peer[c] # NoSlave THEN Append(chan[c], f) ELSE chan[c]
           pushed == [c \in Conns |-> P(c)]
           slow == {c \in Conns : reg[c] = "kSynced" /\ Len(pushed[c]) > OutputLimit}
           lost == {c \in Conns : InFullsync(reg[c]) /\ start[c] < base'}
           toldso == {c \in lost : reg[c] = "kWaitRdb" /\ peer[c] # NoSlave}
           G(c) == IF c \in toldso THEN Append(chan[c], ErrLine) ELSE pushed[c]
<1>3. PICK kick \in SUBSET slow :
        /\ chan' = [c \in Conns |-> G(c)]
        /\ mopen' = [c \in Conns |-> mopen[c] /\ c \notin lost \cup kick]
        /\ reg' = Erase(reg, lost \cup kick)
        /\ file' = [c \in Conns |-> IF c \in lost \cup kick THEN NoImage ELSE file[c]]
        /\ fullsync_active' =
             IF lost \cup kick = {} THEN fullsync_active
             ELSE ActiveAfterRemove(reg', fullsync_active, save_started)
  BY Zenon DEF FeedEncodedFrame
<1>4. ASSUME NEW c \in Conns
      PROVE  /\ Append(chan[c], f) \in Seq(Message)
             /\ Append(chan[c], ErrLine) \in Seq(Message)
             /\ Grown(chan[c], Append(chan[c], f), f)
             /\ Grown(chan[c], Append(chan[c], ErrLine), ErrLine)
  <2>1. PICK q \in Seq(Message), e \in Message, g \in Message : q = chan[c] /\ e = ErrLine /\ g = f
    BY <1>0, ItemsAre, FrameItem
  <2>2. /\ Append(q, e) \in Seq(Message) /\ Grown(q, Append(q, e), e)
        /\ Append(q, g) \in Seq(Message) /\ Grown(q, Append(q, g), g)
    BY AppendGrows
  <2> QED BY <2>1, <2>2, Zenon
<1>5. ASSUME NEW c \in Conns
      PROVE  /\ G(c) \in Seq(Message)
             /\ ~Linked(c) => G(c) = chan[c]
             /\ c \in toldso => Grown(chan[c], G(c), ErrLine)
             /\ c \notin toldso /\ Linked(c) =>
                  IF reg[c] = "kSynced" THEN Grown(chan[c], G(c), f) ELSE G(c) = chan[c]
  <2>0. pushed[c] = P(c)
    BY Zenon
  <2> HIDE DEF pushed, lost, slow
  <2>1. CASE c \in toldso
    <3>1. G(c) = Append(chan[c], ErrLine) /\ Linked(c)
      BY <2>1, Zenon DEF Linked
    <3> QED BY <3>1, <2>1, <1>4, Zenon
  <2>2. CASE c \notin toldso /\ reg[c] = "kSynced" /\ Linked(c)
    <3>1. G(c) = Append(chan[c], f)
      BY <2>0, <2>2, Zenon DEF PushedTo, Linked
    <3> QED BY <3>1, <2>2, <1>4, Zenon
  <2>3. CASE c \notin toldso /\ ~(reg[c] = "kSynced" /\ Linked(c))
    <3>1. G(c) = chan[c]
      BY <2>0, <2>3, Zenon DEF PushedTo, Linked
    <3> QED BY <3>1, <2>3, <1>0, Zenon
  <2> QED BY <2>1, <2>2, <2>3, Zenon
<1> HIDE DEF G
<1>6. chan' \in [Conns -> Seq(Message)] /\ \A c \in Conns : chan'[c] = G(c)
  <2> HIDE DEF lost, slow, toldso, pushed
  <2> QED BY <1>3, <1>5
<1>7. \A c \in lost \cup kick : reg[c] # "none"
  <2> HIDE DEF pushed
  <2> QED BY DEF InFullsync
<1>8. \A c \in toldso : reg[c] = "kWaitRdb" /\ Linked(c) /\ c \in lost \cup kick
  <2> HIDE DEF lost, slow, pushed
  <2> QED BY DEF Linked
<1> HIDE DEF lost, slow, toldso, pushed
<1>9. /\ reg' \in [Conns -> Regs] /\ mopen' \in [Conns -> BOOLEAN] /\ file' \in [Conns -> Image]
      /\ \A c \in Conns : /\ reg'[c] = IF c \in lost \cup kick THEN "none" ELSE reg[c]
                          /\ mopen'[c] = (mopen[c] /\ c \notin lost \cup kick)
                          /\ file'[c] = IF c \in lost \cup kick THEN NoImage ELSE file[c]
  BY <1>0, <1>3, ImageTypes DEF Erase, Regs
<1>10. fullsync_active' \in BOOLEAN
  <2>1. ActiveAfterRemove(reg', fullsync_active, save_started) \in BOOLEAN
    BY DEF ActiveAfterRemove
  <2> QED BY <1>0, <1>3, <2>1
<1>11. ASSUME NEW d \in Conns PROVE Fed(d, f)
  <2>1. CASE d \in lost \cup kick
    <3>1. /\ reg[d] # "none" /\ reg'[d] = "none" /\ mopen'[d] = FALSE
          /\ file'[d] = NoImage
      BY <1>7, <1>9, <2>1
    <3> QED BY <3>1, <1>5, <1>6, <1>8 DEF Fed
  <2>2. CASE d \notin lost \cup kick
    <3>1. /\ reg'[d] = reg[d] /\ mopen'[d] = mopen[d] /\ d \notin toldso
          /\ file'[d] = file[d]
      BY <1>0, <1>8, <1>9, <2>2
    <3> QED BY <3>1, <1>5, <1>6 DEF Fed
  <2> QED BY <2>1, <2>2
<1> QED BY <1>1, <1>2, <1>6, <1>9, <1>10, <1>11

(* The link of a connection in a step that feeds a frame.                    *)
LEMMA FedLink ==
    ASSUME LinkInv, NEW d \in Conns, Linked(d), NEW f \in FrameSet, Fed(d, f),
           log' \in Seq(FrameSet), Grown(log, log', f), chan' \in [Conns -> Seq(Message)],
           UNCHANGED <<replid, start, peer, psync, slaveVars>>
    PROVE  LinkOK(d)'
<1> DEFINE s == peer[d]
<1>0. /\ Link(mopen[d], psync[d], reg[d], start[d], state[s], chan[d],
              repl_offset[s], master_replid[s], backlog_remaining[s], log, replid)
      /\ Typed(mopen[d], psync[d], reg[d], start[d], state[s], chan[d],
               repl_offset[s], master_replid[s], backlog_remaining[s], log, replid)
      /\ reg[d] # "none" => psync[d] = NoPsync
      /\ chan'[d] \in Seq(Message)
  BY LinkTyped DEF LinkInv, Links, LinkOK, Ends
<1>1. \E r \in {reg[d], "none"} :
         /\ Link(mopen[d], psync[d], r, start[d], state[s], chan'[d],
                 repl_offset[s], master_replid[s], backlog_remaining[s], log', replid)
         /\ r # reg[d] => reg'[d] = "none" /\ mopen'[d] = FALSE /\ reg[d] # "none"
  <2>1. CASE reg[d] = "kSynced" /\ Grown(chan[d], chan'[d], f)
    <3>1. Link(mopen[d], psync[d], reg[d], start[d], state[s], chan'[d],
               repl_offset[s], master_replid[s], backlog_remaining[s], log', replid)
      BY <1>0, <2>1, LinkPushed
    <3> QED BY <3>1
  <2>2. CASE reg[d] # "kSynced" /\ chan'[d] = chan[d]
    <3>1. Link(mopen[d], psync[d], reg[d], start[d], state[s], chan[d],
               repl_offset[s], master_replid[s], backlog_remaining[s], log', replid)
      BY <1>0, <2>2, LinkLogged
    <3> QED BY <3>1, <2>2
  <2>3. CASE /\ reg[d] = "kWaitRdb" /\ reg'[d] = "none" /\ mopen'[d] = FALSE
             /\ Grown(chan[d], chan'[d], ErrLine)
    <3>1. Link(mopen[d], NoPsync, "none", start[d], state[s], chan'[d],
               repl_offset[s], master_replid[s], backlog_remaining[s], log, replid)
      BY <1>0, <2>3, LinkTold
    <3>2. Typed(mopen[d], NoPsync, "none", start[d], state[s], chan'[d],
                repl_offset[s], master_replid[s], backlog_remaining[s], log, replid)
      BY <1>0 DEF Typed, Regs
    <3>3. Link(mopen[d], NoPsync, "none", start[d], state[s], chan'[d],
               repl_offset[s], master_replid[s], backlog_remaining[s], log', replid)
      <4>1. "none" # "kSynced"
        OBVIOUS
      <4> QED BY <3>1, <3>2, <4>1, LinkLogged
    <3> QED BY <3>3, <1>0, <2>3
  <2> QED BY <2>1, <2>2, <2>3 DEF Fed
<1>2. PICK r \in {reg[d], "none"} :
         /\ Link(mopen[d], psync[d], r, start[d], state[s], chan'[d],
                 repl_offset[s], master_replid[s], backlog_remaining[s], log', replid)
         /\ r # reg[d] => reg'[d] = "none" /\ mopen'[d] = FALSE /\ reg[d] # "none"
  BY <1>1
<1>3. Typed(mopen[d], psync[d], r, start[d], state[s], chan'[d],
            repl_offset[s], master_replid[s], backlog_remaining[s], log', replid)
  BY <1>0 DEF Typed, Fixed, Regs
<1>4. CASE reg'[d] = reg[d] /\ mopen'[d] = mopen[d] /\ r = reg[d]
  BY <1>2, <1>4 DEF LinkOK, slaveVars
<1>5. CASE reg[d] # "none" /\ reg'[d] = "none" /\ mopen'[d] = FALSE
  <2>1. Link(FALSE, NoPsync, "none", start[d], state[s], chan'[d],
             repl_offset[s], master_replid[s], backlog_remaining[s], log', replid)
    BY <1>2, <1>3, LinkClosed
  <2> QED BY <2>1, <1>0, <1>5 DEF LinkOK, slaveVars
<1> QED BY <1>2, <1>4, <1>5 DEF Fed

LEMMA WriteStep ==
    ASSUME LinkInv, NEW k \in Keys, NEW v \in Nat, Write(k, v)
    PROVE  LinkInv'
<1>0. /\ TypeOK /\ Len(log) \in Nat /\ writes' \in Nat /\ data' \in Store
      /\ UNCHANGED <<replid, start, fullsync_start, save_started, child, peer, psync,
                     slaveVars, breaks, saves, restarts>>
      /\ Propagate(Frame(k, v)) /\ Frame(k, v) \in FrameSet
  <2>1. TypeOK /\ Len(log) \in Nat /\ writes' \in Nat /\ data' \in Store
    BY DEF LinkInv, TypeOK, Write, Store
  <2>2. Frame(k, v) \in FrameSet
    BY DEF Frame, FrameSet
  <2> QED BY <2>1, <2>2 DEF Write
<1>1. CASE LeaveHole /\ iofails' \in Nat
  <2>1. /\ UNCHANGED <<log, base, chan, mopen, reg, file, fullsync_active, covers, loaded_gen>>
        /\ unfed' \in Nat /\ last_hole' \in Int
    BY <1>0, <1>1 DEF LeaveHole, TypeOK, tip
  <2>2. TypeOK'
    BY <1>0, <1>1, <2>1 DEF TypeOK, slaveVars, tip
  <2>3. ASSUME NEW d \in Conns, Linked(d) PROVE LinkOK(d)'
    BY <1>0, <2>1, <2>3 DEF LinkInv, Links, LinkOK, slaveVars
  <2>4. Cuts' /\ WaiterHasSave'
    BY <1>0, <2>1 DEF LinkInv, Cuts, WaiterHasSave, tip
  <2>5. \A d \in Conns : reg'[d] # "none" => mopen'[d] /\ psync'[d] = NoPsync
    BY <1>0, <2>1 DEF LinkInv, Ends
  <2> QED BY <1>0, <2>1, <2>2, <2>3, <2>4, <2>5, MasterSide
<1>2. ASSUME NEW big \in Oversized, FeedEncodedFrame(Frame(k, v), big), UNCHANGED iofails
      PROVE  LinkInv'
  <2>0. PICK f \in FrameSet : f = Frame(k, v)
    BY <1>0
  <2>1. /\ log' \in Seq(FrameSet) /\ Grown(log, log', f)
        /\ base' \in Nat /\ base' <= Len(log')
        /\ reg' \in [Conns -> Regs] /\ mopen' \in [Conns -> BOOLEAN]
        /\ chan' \in [Conns -> Seq(Message)] /\ file' \in [Conns -> Image]
        /\ fullsync_active' \in BOOLEAN
        /\ \A d \in Conns : Fed(d, f)
    <3>1. big \in BOOLEAN /\ FeedEncodedFrame(f, big)
      BY <1>2, <2>0, ReplicationAssumption
    <3> QED BY <3>1, <1>0, FeedIs
  <2>2. UNCHANGED histVars
    BY <1>2 DEF FeedEncodedFrame
  <2>3. TypeOK'
    BY <1>0, <1>2, <2>1, <2>2 DEF TypeOK, Regs, slaveVars, histVars, tip
  <2>4. ASSUME NEW d \in Conns, Linked(d) PROVE LinkOK(d)'
    BY <1>0, <2>1, <2>4, FedLink
  <2>5. Len(log') >= Len(log)
    BY <2>1, <1>0 DEF Grown
  <2>6. Cuts' /\ WaiterHasSave'
    <3>1. \A d \in Conns : reg'[d] = "kWaitRdb" => reg[d] = "kWaitRdb"
      BY <2>1 DEF Fed
    <3>2. fullsync_start \in Nat /\ start \in [Conns -> Nat] /\ Len(log') = Len(log) + 1
      BY <1>0, <2>1 DEF TypeOK, Grown
    <3> QED BY <3>1, <3>2, <1>0 DEF LinkInv, Cuts, WaiterHasSave, tip
  <2>7. \A d \in Conns : /\ reg'[d] # "none" => mopen'[d] /\ psync'[d] = NoPsync
                         /\ ~Linked(d) => chan'[d] = chan[d]
    BY <1>0, <2>1 DEF Fed, LinkInv, Ends
  <2> QED BY <1>0, <2>3, <2>4, <2>5, <2>6, <2>7, MasterSide
<1>3. CASE LeaveHole /\ UNCHANGED iofails
  <2>1. iofails' \in Nat
    BY <1>0, <1>3 DEF TypeOK
  <2> QED BY <2>1, <1>1, <1>3
<1>4. CASE LeaveHole /\ iofails' = iofails + 1
  <2>1. iofails' \in Nat
    BY <1>0, <1>4 DEF TypeOK
  <2> QED BY <2>1, <1>1, <1>4
<1> QED BY <1>0, <1>2, <1>3, <1>4 DEF Propagate

-----------------------------------------------------------------------------
(* The specification *)

LEMMA LinkInvInit == Init => LinkInv
<1> SUFFICES ASSUME Init PROVE LinkInv
  OBVIOUS
<1>1. TypeOK
  <2>1. /\ data \in Store /\ log \in Seq(FrameSet) /\ base \in Nat /\ base <= tip
        /\ replid \in Nat
    BY EmptyStoreType DEF Init, tip
  <2>2. /\ reg \in [Conns -> {"none", "kWaitRdb", "kSendingRdb", "kSynced"}]
        /\ start \in [Conns -> Nat] /\ file \in [Conns -> Image]
        /\ fullsync_active \in BOOLEAN /\ fullsync_start \in Nat
        /\ save_started \in BOOLEAN
    BY ImageTypes DEF Init
  <2>3. child \in [path : {"none", "dump", "fullsync"}, img : Image]
    BY ImageTypes DEF Init, NoChild
  <2>4. /\ mopen \in [Conns -> BOOLEAN] /\ peer \in [Conns -> Slaves \cup {NoSlave}]
        /\ psync \in [Conns -> Request \cup {NoPsync}]
    BY DEF Init
  <2>5. chan \in [Conns -> Seq(Message)] /\ state \in [Slaves -> States]
    BY DEF Init, States
  <2>6. /\ repl_offset \in [Slaves -> Nat] /\ have_offset \in [Slaves -> BOOLEAN]
        /\ master_replid \in [Slaves -> Nat] /\ sdata \in [Slaves -> Store]
        /\ backlog_remaining \in [Slaves -> Nat]
    BY EmptyStoreType DEF Init
  <2>7. /\ writes \in Nat /\ breaks \in Nat /\ saves \in Nat /\ iofails \in Nat
        /\ restarts \in Nat /\ unfed \in Nat /\ last_hole \in Int
        /\ covers \in [Slaves -> BOOLEAN] /\ loaded_gen \in [Slaves -> Nat]
    BY DEF Init
  <2> QED BY <2>1, <2>2, <2>3, <2>4, <2>5, <2>6, <2>7 DEF TypeOK
<1>2. Links /\ Ends
  BY DEF Init, Links, Ends, Linked
<1>3. NotAhead /\ WaiterHasSave
  BY DEF Init, NotAhead, WaiterHasSave, tip
<1>4. Cuts
  BY DEF Init, Cuts, tip
<1> QED BY <1>1, <1>2, <1>3, <1>4 DEF LinkInv

(* A read of the slave at the end of c.                                      *)
LEMMA SlaveReadStep ==
    ASSUME LinkInv, NEW c \in Conns, SlaveRead(c)
    PROVE  LinkInv'
BY RecvContinueStep, RecvFullResyncStep, RecvRefusalStep, RecvRdbHeaderStep,
   LoadRdbStep, LoadRdbFailsStep, SwallowErrorStep, RecvBacklogHeaderStep,
   ApplyBacklogStep, ApplyFrameStep DEF SlaveRead

LEMMA LinkInvNext == LinkInv /\ [Next]_vars => LinkInv'
<1> SUFFICES ASSUME LinkInv, [Next]_vars PROVE LinkInv'
  OBVIOUS
<1>1. CASE ClientStep
  <2>1. ASSUME NEW k \in Keys, ClientSet(k) PROVE LinkInv'
    <3>1. writes + 1 \in Nat
      BY DEF LinkInv, TypeOK
    <3> QED BY <2>1, <3>1, WriteStep DEF ClientSet
  <2>2. ASSUME NEW k \in Keys, ClientDel(k) PROVE LinkInv'
    BY <2>2, WriteStep DEF ClientDel
  <2> QED BY <1>1, <2>1, <2>2, ClientSaveStep DEF ClientStep
<1>2. CASE MasterStep
  BY <1>2, OnPsyncPartialStep, OnPsyncFullStep, SendBacklogStep, FullsyncSavedStep,
     FullsyncSaveFailedStep, DumpSavedStep DEF MasterStep
<1>3. CASE LinkStep
  BY <1>3, MasterCloseStep, SlaveCloseStep, TryConnectStep DEF LinkStep
<1>4. CASE Restart
  BY <1>4, MasterRestartStep, SlaveRestartStep DEF Restart
<1>5. CASE \E c \in Conns : SlaveRead(c)
  BY <1>5, SlaveReadStep
<1>6. CASE UNCHANGED vars
  <2>0. UNCHANGED <<masterVars, netVars, slaveVars, boundVars, histVars>>
    BY <1>6 DEF vars
  <2>1. TypeOK'
    BY <2>0 DEF LinkInv, TypeOK, masterVars, netVars, slaveVars, boundVars, histVars, tip
  <2>2. UNCHANGED <<log, replid, reg, start, mopen, psync, peer, chan, fullsync_start,
                    save_started, child, slaveVars>>
    BY <2>0 DEF masterVars, netVars
  <2>3. ASSUME NEW d \in Conns, Linked(d) PROVE LinkOK(d)'
    BY <2>2, <2>3 DEF LinkInv, Links, LinkOK, slaveVars
  <2>4. Cuts' /\ WaiterHasSave'
    BY <2>2 DEF LinkInv, Cuts, WaiterHasSave, tip
  <2>5. \A d \in Conns : reg'[d] # "none" => mopen'[d] /\ psync'[d] = NoPsync
    BY <2>2 DEF LinkInv, Ends
  <2>6. Len(log') >= Len(log)
    <3>1. Len(log) \in Nat
      BY DEF LinkInv, TypeOK
    <3> QED BY <2>2, <3>1
  <2> QED BY <2>1, <2>2, <2>3, <2>4, <2>5, <2>6, MasterSide
<1> QED BY <1>1, <1>2, <1>3, <1>4, <1>5, <1>6 DEF Next

LEMMA LinkInvariant == Spec => []LinkInv
BY LinkInvInit, LinkInvNext, PTL DEF Spec

(* Offsets, messages and registrations keep their types in every state:      *)
(* what a connection carries is always a message of the protocol.            *)
THEOREM TypeCorrect == Spec => []TypeOK
<1>1. LinkInv => TypeOK
  BY DEF LinkInv
<1> QED BY <1>1, LinkInvariant, PTL

(* ReplicationMaster never forgets a slave that waits for an RDB: a save is  *)
(* running whose completion sends it the file or starts its fullsync.        *)
THEOREM WaitersHaveSave == Spec => []WaiterHasSave
<1>1. LinkInv => WaiterHasSave
  BY DEF LinkInv
<1> QED BY <1>1, LinkInvariant, PTL

(* A slave that has the running master's replid never asks TryPartialResync  *)
(* for an offset the master has not reached.                                 *)
THEOREM OffsetsNotAhead == Spec => []OffsetNeverAhead
<1>1. LinkInv => OffsetNeverAhead
  BY DEF LinkInv, NotAhead, OffsetNeverAhead
<1> QED BY <1>1, LinkInvariant, PTL

(* What a streaming slave on a live link has not read yet is as long as the  *)
(* log behind its offset.                                                    *)
LEMMA StreamingOffset ==
    ASSUME LinkInv, NEW c \in Conns, Streaming(c)
    PROVE  /\ LinkOK(c) /\ master_replid[peer[c]] = replid
           /\ Len(chan[c]) = Len(log) - repl_offset[peer[c]]
<1> DEFINE s == peer[c]
           q == chan[c]
           o == repl_offset[s]
<1>0. /\ Linked(c) /\ mopen[c] /\ state[s] = "kStreaming" /\ q \in Seq(Message)
  BY DEF LinkInv, TypeOK, Linked, Streaming
<1>1. LinkOK(c)
  BY <1>0 DEF LinkInv, Links
<1>2. Headers("kStreaming", q) = 0 /\ ~FullReply("kStreaming", q)
  BY DEF Headers, FullReply
<1>3. Agrees(TRUE, psync[c], reg[c], start[c], "kStreaming", q, o, master_replid[s],
             log, replid)
  <2>1. mopen[c] = TRUE
    BY <1>0, Zenon DEF LinkInv, TypeOK
  <2> QED BY <1>0, <1>1, <2>1 DEF LinkOK, Link
<1>4. reg[c] = "kSynced"
  BY <1>2, <1>3 DEF Agrees, Delivers
<1>5. master_replid[s] = replid /\ Len(q) - 0 = Len(log) - o
  BY <1>2, <1>3, <1>4 DEF Agrees, OffsetOf, IdOf
<1>6. Len(q) \in Nat
  BY <1>0
<1> QED BY <1>1, <1>5, <1>6

(* Between the offset of a streaming slave on a live link and the master's   *)
(* tip no frame is lost, duplicated or reordered, whether the slave got      *)
(* there by +CONTINUE or by a fullsync with writes during the save and the   *)
(* transfer, and however often the link broke before.                        *)
THEOREM StreamIsExact == Spec => []StreamExact
<1>1. LinkInv => StreamExact
  <2> SUFFICES ASSUME LinkInv, NEW c \in Conns, Streaming(c)
               PROVE  chan[c] = SubSeq(log, repl_offset[peer[c]] + 1, tip)
    BY DEF StreamExact
  <2> DEFINE s == peer[c]
             q == chan[c]
             o == repl_offset[s]
  <2>0. /\ Linked(c) /\ state[s] = "kStreaming" /\ s \in Slaves
        /\ q \in Seq(Message) /\ o \in Nat /\ log \in Seq(FrameSet)
    BY DEF LinkInv, TypeOK, Linked, Streaming
  <2>1. LinkOK(c) /\ master_replid[s] = replid /\ Len(q) = Len(log) - o
    BY StreamingOffset
  <2>2. Headers("kStreaming", q) = 0 /\ ~FullReply("kStreaming", q)
    BY DEF Headers, FullReply
  <2>3. o <= Len(log) /\ InLog(q, 0, o, log)
    BY <2>0, <2>1, <2>2 DEF LinkOK, Link, Carries, OffsetOf, IdOf
  <2>4. /\ GapFrom(o) \in Seq(Message) /\ Len(GapFrom(o)) = Len(log) - o
        /\ \A i \in 1..(Len(log) - o) : GapFrom(o)[i] = log[o + i]
    BY <2>0, <2>3, GapIs
  <2>5. ASSUME NEW i \in 1..Len(q) PROVE q[i] = GapFrom(o)[i]
    <3>1. q[i] = log[o + i - 0]
      BY <2>3, <2>0 DEF InLog
    <3>2. o + i - 0 = o + i /\ i \in 1..(Len(log) - o)
      BY <2>0, <2>1
    <3> QED BY <3>1, <3>2, <2>4
  <2>6. q = GapFrom(o)
    <3> HIDE DEF q, o
    <3>1. PICK u \in Seq(Message) : u = GapFrom(o)
      BY <2>4, Zenon
    <3> QED BY <2>0, <2>1, <2>4, <2>5, <3>1, SeqEqual
  <2> QED BY <2>6 DEF GapFrom
<1> QED BY <1>1, LinkInvariant, PTL

-----------------------------------------------------------------------------
(* The stores, step by step *)

(* One more frame in the log.                                                *)
LEMMA UntouchedFed ==
    ASSUME NEW lg \in Seq(FrameSet), NEW lg2 \in Seq(FrameSet), NEW f \in FrameSet,
           Grown(lg, lg2, f), NEW k, NEW p \in Int, Untouched(k, p, lg2)
    PROVE  Untouched(k, p, lg) /\ (p <= Len(lg) => k # f.key)
<1>1. Len(lg) \in Nat /\ Len(lg2) = Len(lg) + 1 /\ lg2[Len(lg) + 1] = f
      /\ \A i \in 1..Len(lg) : lg2[i] = lg[i]
  BY DEF Grown
<1>2. Untouched(k, p, lg)
  BY <1>1 DEF Untouched
<1>3. ASSUME p <= Len(lg) PROVE k # f.key
  <2>1. Len(lg) + 1 \in 1..Len(lg2) /\ Len(lg) + 1 > p
    BY <1>1, <1>3
  <2> QED BY <1>1, <2>1 DEF Untouched
<1> QED BY <1>2, <1>3

LEMMA FollowsFed ==
    ASSUME NEW lg \in Seq(FrameSet), NEW lg2 \in Seq(FrameSet), NEW f \in FrameSet,
           Grown(lg, lg2, f), NEW d, NEW d2, NEW sd, NEW p \in Int, p <= Len(lg),
           \A k \in Keys : k # f.key => d2[k] = d[k], Follows(sd, p, lg, d)
    PROVE  Follows(sd, p, lg2, d2)
<1> SUFFICES ASSUME NEW k \in Keys, Untouched(k, p, lg2) PROVE sd[k] = d2[k]
  BY DEF Follows
<1>1. Untouched(k, p, lg) /\ k # f.key
  BY UntouchedFed
<1> QED BY <1>1 DEF Follows

LEMMA FitsFed ==
    ASSUME NEW lg \in Seq(FrameSet), NEW lg2 \in Seq(FrameSet), NEW f \in FrameSet,
           Grown(lg, lg2, f), NEW d, NEW d2, NEW u, NEW img \in Image,
           \A k \in Keys : k # f.key => d2[k] = d[k], Fits(img, lg, d, u)
    PROVE  Fits(img, lg2, d2, u)
<1>1. Len(lg) \in Nat /\ Len(lg2) = Len(lg) + 1 /\ img.pos \in Nat
      /\ img.pos <= Len(lg) /\ img.pos \in Int
  BY DEF Grown, Fits, Image
<1>2. img.pos <= Len(lg2)
  BY <1>1
<1>3. img.gen = u => Follows(img.data, img.pos, lg2, d2)
  BY <1>1, FollowsFed DEF Fits
<1> QED BY <1>2, <1>3 DEF Fits

LEMMA SaysFed ==
    ASSUME NEW lg \in Seq(FrameSet), NEW lg2 \in Seq(FrameSet), NEW f \in FrameSet,
           Grown(lg, lg2, f), NEW d, NEW d2, NEW hole,
           \A k \in Keys : k # f.key => d2[k] = d[k], d2[f.key] = f.val,
           Says(lg, d, hole)
    PROVE  Says(lg2, d2, hole)
<1>1. Len(lg) \in Nat /\ Len(lg2) = Len(lg) + 1 /\ lg2[Len(lg) + 1] = f
      /\ \A i \in 1..Len(lg) : lg2[i] = lg[i]
  BY DEF Grown
<1> SUFFICES ASSUME NEW k \in Keys, NEW i \in 1..Len(lg2), lg2[i].key = k, i > hole,
                    Untouched(k, i, lg2)
             PROVE  d2[k] = lg2[i].val
  BY DEF Says
<1>2. CASE i = Len(lg) + 1
  BY <1>1, <1>2
<1>3. CASE i \in 1..Len(lg)
  <2>1. Untouched(k, i, lg) /\ k # f.key
    BY <1>1, <1>3, UntouchedFed
  <2>2. lg[i].key = k /\ lg2[i] = lg[i]
    BY <1>1, <1>3
  <2> QED BY <1>3, <2>1, <2>2 DEF Says
<1> QED BY <1>1, <1>2, <1>3

(* The frames behind an offset bring a store that follows from there to the  *)
(* offset behind them: for a key they name, the last one of them says what   *)
(* the master has.                                                           *)
LEMMA ApplyFollows ==
    ASSUME NEW lg \in Seq(FrameSet), NEW d, NEW sd, NEW hole \in Int, NEW o \in Nat,
           NEW n \in Nat, o + n <= Len(lg), hole <= o, NEW fs \in Seq(Message), Len(fs) = n,
           \A i \in 1..n : fs[i] = lg[o + i], Says(lg, d, hole), Follows(sd, o, lg, d)
    PROVE  Follows(ApplyAll(sd, fs), o + n, lg, d)
<1>0. Len(lg) \in Nat /\ DOMAIN fs = 1..n
  OBVIOUS
<1> SUFFICES ASSUME NEW k \in Keys, Untouched(k, o + n, lg)
             PROVE  ApplyAll(sd, fs)[k] = d[k]
  BY DEF Follows
<1> DEFINE I == {i \in DOMAIN fs : fs[i].key = k}
<1>1. ApplyAll(sd, fs)[k] = IF I = {} THEN sd[k] ELSE fs[LastOf(I)].val
  BY DEF ApplyAll
<1>2. ASSUME NEW j \in 1..Len(lg), j > o, j <= o + n
      PROVE  j - o \in 1..n /\ fs[j - o] = lg[j]
  <2>1. PICK i \in 1..n : i = j - o /\ o + i = j
    BY <1>0, <1>2
  <2> QED BY <2>1
<1>3. CASE I = {}
  <2>1. ASSUME NEW j \in 1..Len(lg), j > o PROVE lg[j].key # k
    <3>1. CASE j <= o + n
      BY <3>1, <2>1, <1>0, <1>2, <1>3
    <3>2. CASE ~(j <= o + n)
      BY <3>2, <1>0 DEF Untouched
    <3> QED BY <3>1, <3>2
  <2>2. Untouched(k, o, lg)
    BY <2>1 DEF Untouched
  <2> QED BY <2>2, <1>1, <1>3 DEF Follows
<1>4. CASE I # {}
  <2>0. I \in SUBSET (1..n)
    BY <1>0
  <2>1. LastOf(I) \in I /\ \A j \in I : j <= LastOf(I)
    <3> HIDE DEF I
    <3> QED BY <2>0, <1>4, LastOfIn
  <2>2. PICK m \in 1..n : m = LastOf(I)
    <3> HIDE DEF I
    <3> QED BY <2>0, <2>1
  <2>3. fs[m].key = k /\ \A j \in 1..n : fs[j].key = k => j <= m
    BY <1>0, <2>1, <2>2
  <2>4. PICK p \in 1..Len(lg) : p = o + m /\ p > hole
    BY <1>0
  <2>5. fs[m] = lg[p] /\ lg[p].key = k
    BY <2>3, <2>4
  <2>6. ASSUME NEW j \in 1..Len(lg), j > p PROVE lg[j].key # k
    <3>1. CASE j <= o + n
      <4>1. j > o
        BY <2>4, <2>6
      <4>2. PICK i \in 1..n : i = j - o /\ fs[i] = lg[j]
        BY <3>1, <4>1, <1>2
      <4>3. i > m
        BY <4>2, <2>4, <2>6
      <4> QED BY <4>2, <4>3, <2>3
    <3>2. CASE ~(j <= o + n)
      BY <3>2, <1>0 DEF Untouched
    <3> QED BY <3>1, <3>2
  <2>7. d[k] = lg[p].val
    BY <2>4, <2>5, <2>6 DEF Says, Untouched
  <2> QED BY <1>1, <1>4, <2>2, <2>5, <2>7
<1> QED BY <1>3, <1>4

(* An offset further on asks less of a store.                                *)
LEMMA FollowsLater ==
    ASSUME NEW lg \in Seq(FrameSet), NEW d, NEW sd, NEW o \in Nat, NEW p \in Nat,
           o <= p, Follows(sd, p, lg, d)
    PROVE  Follows(sd, o, lg, d)
<1>1. Len(lg) \in Nat
  OBVIOUS
<1> SUFFICES ASSUME NEW k \in Keys, Untouched(k, o, lg) PROVE sd[k] = d[k]
  BY DEF Follows
<1>2. Untouched(k, p, lg)
  BY <1>1 DEF Untouched
<1> QED BY <1>2 DEF Follows

(* The images on a connection, when the slave reads and when the master      *)
(* sends anything but an image.                                              *)
LEMMA RdbsRead ==
    ASSUME NEW q \in Seq(Message), NEW q2 \in Seq(Message), NEW n \in Nat, NEW w,
           NEW rid, NEW lg, NEW d, NEW u, Shrunk(q, q2, n), RdbsFit(q, w, rid, lg, d, u)
    PROVE  RdbsFit(q2, w, rid, lg, d, u)
<1> SUFFICES ASSUME NEW i \in 1..Len(q2), q2[i].t = "rdb"
             PROVE  q2[i].img.gen <= u /\ (w = rid => Fits(q2[i].img, lg, d, u))
  BY DEF RdbsFit
<1>1. PICK j \in 1..Len(q) : j = i + n /\ q2[i] = q[j]
  BY DEF Shrunk
<1> QED BY <1>1 DEF RdbsFit

LEMMA RdbsLengthened ==
    ASSUME NEW q \in Seq(Message), NEW q2 \in Seq(Message), Lengthened(q, q2), NEW st,
           NEW id, NEW rid, NEW lg, NEW d, NEW u,
           RdbsFit(q, IdOf(st, q, id), rid, lg, d, u)
    PROVE  RdbsFit(q2, IdOf(st, q2, id), rid, lg, d, u)
<1> SUFFICES ASSUME NEW i \in 1..Len(q2), q2[i].t = "rdb"
             PROVE  /\ q2[i].img.gen <= u
                    /\ IdOf(st, q2, id) = rid => Fits(q2[i].img, lg, d, u)
  BY DEF RdbsFit
<1>1. i \in 1..Len(q) /\ q2[i] = q[i]
  BY DEF Lengthened
<1>2. q # <<>> /\ q2 # <<>> /\ 1 \in 1..Len(q)
  BY <1>1
<1>3. IdOf(st, q2, id) = IdOf(st, q, id)
  BY <1>2 DEF Lengthened, IdOf, FullReply
<1> QED BY <1>1, <1>3 DEF RdbsFit

(* The master's steps that write nothing.                                    *)
LEMMA QuietStore ==
    ASSUME LinkInv, TypeOK', StoreInv, Quiet
    PROVE  StoreInv'
<1>0. /\ data' = data /\ log' = log /\ replid' = replid /\ peer' = peer
      /\ unfed' = unfed /\ last_hole' = last_hole /\ covers' = covers
      /\ loaded_gen' = loaded_gen /\ state' = state /\ repl_offset' = repl_offset
      /\ master_replid' = master_replid /\ sdata' = sdata
  <2>1. UNCHANGED <<data, log, replid, peer, slaveVars, histVars>>
    BY DEF Quiet
  <2> QED BY <2>1 DEF slaveVars, histVars
<1>1. TypeOK /\ unfed \in Nat /\ Len(log) \in Nat
  <2>1. TypeOK /\ log \in Seq(FrameSet) /\ unfed \in Nat
    BY Zenon DEF LinkInv, TypeOK
  <2> QED BY <2>1
<1>2. NoImage.gen <= unfed
  BY <1>1 DEF NoImage
<1>3. ChildFits'
  <2>1. CASE child' = child
    BY <2>1, <1>0 DEF StoreInv, ChildFits
  <2>2. CASE child' = NoChild
    BY <2>2, <1>0, <1>2 DEF ChildFits, NoChild
  <2>3. CASE child'.img = ImageNow
    <3>1. ImageNow.gen = unfed /\ ImageNow.pos = Len(log) /\ ImageNow.data = data
      BY DEF ImageNow, tip
    <3>2. Fits(ImageNow, log, data, unfed)
      BY <3>1, <1>1 DEF Fits, Follows
    <3> QED BY <2>3, <3>1, <3>2, <1>0, <1>1 DEF ChildFits
  <2> QED BY <2>1, <2>2, <2>3 DEF Quiet
<1>4. ASSUME NEW d \in Conns PROVE FileFits(d)'
  <2>1. file'[d].gen <= unfed
    BY <1>2 DEF Quiet, StoreInv, FileFits, ChildFits
  <2>2. reg'[d] = "kSendingRdb" => Fits(file'[d], log, data, unfed)
    BY DEF Quiet, StoreInv, FileFits, ChildFits
  <2> QED BY <2>1, <2>2, <1>0 DEF FileFits
<1>5. ASSUME NEW d \in Conns PROVE FlightFits(d)'
  <2> SUFFICES ASSUME Linked(d)
               PROVE  RdbsFit(chan'[d], IdOf(state[peer[d]], chan'[d], master_replid[peer[d]]),
                              replid, log, data, unfed)
    BY <1>0 DEF FlightFits, Linked
  <2>1. chan[d] \in Seq(Message) /\ chan'[d] \in Seq(Message)
    BY <1>1 DEF TypeOK
  <2>2. Lengthened(chan[d], chan'[d])
    BY DEF Quiet
  <2>3. RdbsFit(chan[d], IdOf(state[peer[d]], chan[d], master_replid[peer[d]]),
                replid, log, data, unfed)
    BY DEF StoreInv, FlightFits
  <2> QED BY <2>1, <2>2, <2>3, RdbsLengthened
<1>6. ASSUME NEW s \in Slaves PROVE Replica(s)'
  BY <1>0 DEF StoreInv, Replica
<1>7. Says(log, data, last_hole)'
  BY <1>0 DEF StoreInv
<1> QED BY <1>3, <1>4, <1>5, <1>6, <1>7 DEF StoreInv

(* SendBacklog puts the image of the open file on the connection.            *)
LEMMA SendBacklogStore ==
    ASSUME LinkInv, TypeOK', StoreInv, NEW c \in Conns, SendBacklog(c)
    PROVE  StoreInv'
<1>a. /\ UNCHANGED <<data, log, replid, peer, slaveVars, histVars, child>>
      /\ \A d \in Conns \ {c} : chan'[d] = chan[d] /\ reg'[d] = reg[d] /\ file'[d] = file[d]
      /\ reg'[c] # "kSendingRdb" /\ file'[c] = NoImage
      /\ Linked(c) => ImageSent(chan[c], chan'[c], file[c])
  BY SendBacklogStep
<1>0. /\ data' = data /\ log' = log /\ replid' = replid /\ peer' = peer
      /\ unfed' = unfed /\ last_hole' = last_hole /\ covers' = covers
      /\ loaded_gen' = loaded_gen /\ state' = state /\ repl_offset' = repl_offset
      /\ master_replid' = master_replid /\ sdata' = sdata /\ child' = child
  BY <1>a DEF slaveVars, histVars
<1>1. TypeOK /\ unfed \in Nat /\ chan[c] \in Seq(Message) /\ chan'[c] \in Seq(Message)
      /\ reg[c] = "kSendingRdb"
  BY DEF LinkInv, TypeOK, SendBacklog
<1>2. NoImage.gen <= unfed
  BY <1>1 DEF NoImage
<1>3. ChildFits'
  BY <1>0 DEF StoreInv, ChildFits
<1>4. ASSUME NEW d \in Conns PROVE FileFits(d)'
  BY <1>a, <1>0, <1>2 DEF StoreInv, FileFits
<1>5. ASSUME NEW d \in Conns, d # c PROVE FlightFits(d)'
  BY <1>a, <1>0, <1>5 DEF StoreInv, FlightFits, Linked
<1>6. FlightFits(c)'
  <2> SUFFICES ASSUME Linked(c), NEW i \in 1..Len(chan'[c]), chan'[c][i].t = "rdb"
               PROVE  chan'[c][i].img.gen <= unfed /\ Fits(chan'[c][i].img, log, data, unfed)
    BY <1>0 DEF FlightFits, Linked, RdbsFit
  <2>1. IdOf(state[peer[c]], chan[c], master_replid[peer[c]]) = replid
    BY <1>1 DEF LinkInv, Links, LinkOK, Link, Agrees
  <2>2. CASE i <= Len(chan[c])
    <3>1. i \in 1..Len(chan[c]) /\ chan'[c][i] = chan[c][i]
      BY <1>a, <1>1, <2>2 DEF ImageSent
    <3> QED BY <3>1, <2>1 DEF StoreInv, FlightFits, RdbsFit
  <2>3. CASE i = Len(chan[c]) + 1
    <3>1. chan'[c][i] = RdbBody(file[c])
      BY <1>a, <2>3 DEF ImageSent
    <3>2. chan'[c][i].img = file[c]
      BY <3>1 DEF RdbBody
    <3> QED BY <3>2, <1>1 DEF StoreInv, FileFits
  <2>4. ~(i > Len(chan[c]) + 1)
    BY <1>a DEF ImageSent
  <2>5. Len(chan[c]) \in Nat
    BY <1>1
  <2> QED BY <2>2, <2>3, <2>4, <2>5
<1>7. ASSUME NEW s \in Slaves PROVE Replica(s)'
  BY <1>0 DEF StoreInv, Replica
<1>8. Says(log, data, last_hole)'
  BY <1>0 DEF StoreInv
<1> QED BY <1>3, <1>4, <1>5, <1>6, <1>7, <1>8 DEF StoreInv

(* The slaves' steps leave the master's side alone.                          *)
SameReplica(t) == /\ sdata'[t] = sdata[t] /\ covers'[t] = covers[t]
                  /\ loaded_gen'[t] = loaded_gen[t]

LEMMA SlavesStore ==
    ASSUME StoreInv, UNCHANGED <<masterVars, unfed, last_hole>>,
           \A d \in Conns : FlightFits(d)', \A s \in Slaves : Replica(s)'
    PROVE  StoreInv'
<1>0. /\ data' = data /\ log' = log /\ unfed' = unfed /\ last_hole' = last_hole
      /\ child' = child /\ reg' = reg /\ file' = file
  BY DEF masterVars
<1>1. ChildFits' /\ Says(log, data, last_hole)'
  BY <1>0 DEF StoreInv, ChildFits
<1>2. \A d \in Conns : FileFits(d)'
  BY <1>0 DEF StoreInv, FileFits
<1> QED BY <1>1, <1>2 DEF StoreInv

LEMMA ReplicaSame ==
    ASSUME StoreInv, UNCHANGED <<masterVars, unfed, last_hole>>, NEW t \in Slaves,
           SameSlave(t), SameReplica(t)
    PROVE  Replica(t)'
<1>0. data' = data /\ log' = log /\ unfed' = unfed /\ last_hole' = last_hole /\ replid' = replid
  BY DEF masterVars
<1> QED BY <1>0 DEF StoreInv, Replica, SameSlave, SameReplica

(* A read of slave s that keeps the connection.                              *)
LEMMA ReadStore ==
    ASSUME LinkInv, TypeOK', StoreInv, NEW c \in Conns, Linked(c), NEW s \in Slaves,
           s = peer[c], NEW n \in Nat,
           UNCHANGED <<masterVars, peer, unfed, last_hole>>,
           \A d \in Conns \ {c} : chan'[d] = chan[d], Shrunk(chan[c], chan'[c], n),
           \A t \in Slaves \ {s} : SameSlave(t) /\ SameReplica(t),
           IdOf(state'[s], chan'[c], master_replid'[s]) =
             IdOf(state[s], chan[c], master_replid[s]),
           Replica(s)'
    PROVE  StoreInv'
<1>0. data' = data /\ log' = log /\ unfed' = unfed /\ replid' = replid /\ peer' = peer
  BY DEF masterVars
<1>1. TypeOK
  BY DEF LinkInv
<1>2. FlightFits(c)'
  <2>1. chan[c] \in Seq(Message) /\ chan'[c] \in Seq(Message)
    BY <1>1 DEF TypeOK
  <2>2. RdbsFit(chan[c], IdOf(state[s], chan[c], master_replid[s]), replid, log, data, unfed)
    BY DEF StoreInv, FlightFits
  <2>3. RdbsFit(chan'[c], IdOf(state[s], chan[c], master_replid[s]), replid, log, data, unfed)
    BY <2>1, <2>2, RdbsRead
  <2> QED BY <2>3, <1>0 DEF FlightFits
<1>3. ASSUME NEW d \in Conns, d # c PROVE FlightFits(d)'
  <2> SUFFICES ASSUME Linked(d)
               PROVE  RdbsFit(chan[d], IdOf(state'[peer[d]], chan[d], master_replid'[peer[d]]),
                              replid, log, data, unfed)
    BY <1>0, <1>3 DEF FlightFits, Linked
  <2>1. peer[d] \in Slaves /\ peer[d] # s
    BY <1>1, <1>3, LinkTyped DEF LinkInv, Ends
  <2> QED BY <2>1 DEF SameSlave, StoreInv, FlightFits
<1>4. ASSUME NEW t \in Slaves, t # s PROVE Replica(t)'
  BY <1>4, ReplicaSame
<1> QED BY <1>2, <1>3, <1>4, SlavesStore

(* A step of slave s that closes its connection.                             *)
LEMMA CloseStore ==
    ASSUME LinkInv, StoreInv, NEW s \in Slaves,
           UNCHANGED <<masterVars, unfed, last_hole>>,
           \A d \in Conns : IF peer[d] = s
                            THEN peer'[d] = NoSlave /\ chan'[d] = <<>>
                            ELSE peer'[d] = peer[d] /\ chan'[d] = chan[d],
           \A t \in Slaves \ {s} : SameSlave(t) /\ SameReplica(t),
           Replica(s)'
    PROVE  StoreInv'
<1>0. data' = data /\ log' = log /\ unfed' = unfed /\ replid' = replid
  BY DEF masterVars
<1>1. TypeOK
  BY DEF LinkInv
<1>2. ASSUME NEW d \in Conns PROVE FlightFits(d)'
  <2>1. CASE peer[d] = s
    BY <2>1 DEF FlightFits, Linked
  <2>2. CASE peer[d] # s
    <3>0. peer'[d] = peer[d] /\ chan'[d] = chan[d]
      BY <2>2
    <3> SUFFICES ASSUME Linked(d)
                 PROVE  RdbsFit(chan[d], IdOf(state'[peer[d]], chan[d], master_replid'[peer[d]]),
                                replid, log, data, unfed)
      BY <1>0, <3>0 DEF FlightFits, Linked
    <3>1. peer[d] \in Slaves
      BY <1>1, LinkTyped
    <3> QED BY <2>2, <3>1 DEF SameSlave, StoreInv, FlightFits
  <2> QED BY <2>1, <2>2
<1>3. ASSUME NEW t \in Slaves, t # s PROVE Replica(t)'
  BY <1>3, ReplicaSame
<1> QED BY <1>2, <1>3, SlavesStore

LEMMA RecvContinueStore ==
    ASSUME LinkInv, TypeOK', StoreInv, NEW c \in Conns, RecvContinue(c)
    PROVE  StoreInv'
<1>0. /\ TypeOK /\ Linked(c) /\ chan[c] # <<>> /\ state[peer[c]] = "kWaitFullresync"
      /\ Head(chan[c]).t = "continue" /\ Consume(c) /\ Goto(c, "kStreaming")
      /\ UNCHANGED <<masterVars, mopen, peer, psync, repl_offset, have_offset,
                     master_replid, sdata, backlog_remaining, boundVars, histVars>>
  BY DEF LinkInv, RecvContinue, Incoming, Linked
<1>1. PICK s \in Slaves : s = peer[c]
  BY <1>0, LinkTyped
<1>2. /\ Shrunk(chan[c], chan'[c], 1) /\ Head(chan[c]) = chan[c][1]
      /\ \A d \in Conns \ {c} : chan'[d] = chan[d]
  BY <1>0, Consumed
<1>3. state'[s] = "kStreaming" /\ \A t \in Slaves \ {s} : state'[t] = state[t]
  <2>1. "kStreaming" \in States
    BY DEF States
  <2> QED BY <1>0, <1>1, <2>1, Gone
<1>4. IdOf(state'[s], chan'[c], master_replid'[s]) = IdOf(state[s], chan[c], master_replid[s])
  BY <1>0, <1>1, <1>2, <1>3 DEF IdOf, FullReply
<1>5. UNCHANGED <<data, log, replid, repl_offset, master_replid, sdata, backlog_remaining,
                  unfed, last_hole, covers, loaded_gen>>
  BY <1>0 DEF masterVars, histVars
<1>6. Replica(s)'
  BY <1>3, <1>5 DEF StoreInv, Replica
<1>7. \A t \in Slaves \ {s} : SameSlave(t) /\ SameReplica(t)
  BY <1>3, <1>5 DEF SameSlave, SameReplica
<1> QED BY <1>0, <1>1, <1>2, <1>4, <1>5, <1>6, <1>7, ReadStore

LEMMA RecvFullResyncStore ==
    ASSUME LinkInv, TypeOK', StoreInv, NEW c \in Conns, RecvFullResync(c)
    PROVE  StoreInv'
<1>0. /\ TypeOK /\ Linked(c) /\ chan[c] # <<>> /\ state[peer[c]] = "kWaitFullresync"
      /\ Head(chan[c]).t = "fullresync" /\ Consume(c) /\ Goto(c, "kRecvRdbHeader")
      /\ UNCHANGED <<masterVars, mopen, peer, psync, sdata, backlog_remaining,
                     boundVars, unfed, last_hole, loaded_gen>>
  BY DEF LinkInv, RecvFullResync, Incoming, Linked
<1>1. PICK s \in Slaves : s = peer[c]
  BY <1>0, LinkTyped
<1>2. /\ Shrunk(chan[c], chan'[c], 1) /\ Head(chan[c]) = chan[c][1]
      /\ \A d \in Conns \ {c} : chan'[d] = chan[d]
  BY <1>0, Consumed
<1>3. state'[s] = "kRecvRdbHeader" /\ \A t \in Slaves \ {s} : state'[t] = state[t]
  <2>1. "kRecvRdbHeader" \in States
    BY DEF States
  <2> QED BY <1>0, <1>1, <2>1, Gone
<1>4. /\ master_replid'[s] = chan[c][1].replid /\ covers'[s] = FALSE
      /\ \A t \in Slaves \ {s} : /\ master_replid'[t] = master_replid[t]
                                 /\ repl_offset'[t] = repl_offset[t] /\ covers'[t] = covers[t]
  <2>1. /\ master_replid \in [Slaves -> Nat] /\ repl_offset \in [Slaves -> Nat]
        /\ covers \in [Slaves -> BOOLEAN]
    BY <1>0 DEF TypeOK
  <2>2. /\ master_replid' = [master_replid EXCEPT ![s] = Head(chan[c]).replid]
        /\ repl_offset' = [repl_offset EXCEPT ![s] = Head(chan[c]).off]
        /\ covers' = [covers EXCEPT ![s] = FALSE]
    BY <1>1 DEF RecvFullResync
  <2> QED BY <2>1, <2>2, <1>2
<1>5. IdOf(state'[s], chan'[c], master_replid'[s]) = IdOf(state[s], chan[c], master_replid[s])
  BY <1>0, <1>1, <1>2, <1>3, <1>4 DEF IdOf, FullReply
<1>6. UNCHANGED <<sdata, backlog_remaining, unfed, last_hole, loaded_gen>>
  BY <1>0
<1>7. Replica(s)'
  BY <1>4, <1>6 DEF StoreInv, Replica
<1>8. \A t \in Slaves \ {s} : SameSlave(t) /\ SameReplica(t)
  BY <1>3, <1>4, <1>6 DEF SameSlave, SameReplica
<1> QED BY <1>0, <1>1, <1>2, <1>5, <1>7, <1>8, ReadStore

LEMMA RecvRdbHeaderStore ==
    ASSUME LinkInv, TypeOK', StoreInv, NEW c \in Conns, RecvRdbHeader(c)
    PROVE  StoreInv'
<1>0. /\ TypeOK /\ Linked(c) /\ chan[c] # <<>> /\ state[peer[c]] = "kRecvRdbHeader"
      /\ Consume(c) /\ Goto(c, "kRecvRdbBody")
      /\ UNCHANGED <<masterVars, mopen, peer, psync, repl_offset, have_offset,
                     master_replid, sdata, backlog_remaining, boundVars, histVars>>
  BY DEF LinkInv, RecvRdbHeader, Incoming, Linked
<1>1. PICK s \in Slaves : s = peer[c]
  BY <1>0, LinkTyped
<1>2. /\ Shrunk(chan[c], chan'[c], 1)
      /\ \A d \in Conns \ {c} : chan'[d] = chan[d]
  BY <1>0, Consumed
<1>3. state'[s] = "kRecvRdbBody" /\ \A t \in Slaves \ {s} : state'[t] = state[t]
  <2>1. "kRecvRdbBody" \in States
    BY DEF States
  <2> QED BY <1>0, <1>1, <2>1, Gone
<1>4. IdOf(state'[s], chan'[c], master_replid'[s]) = IdOf(state[s], chan[c], master_replid[s])
  BY <1>0, <1>1, <1>3 DEF IdOf, FullReply
<1>5. UNCHANGED <<data, log, replid, repl_offset, master_replid, sdata, backlog_remaining,
                  unfed, last_hole, covers, loaded_gen>>
  BY <1>0 DEF masterVars, histVars
<1>6. Replica(s)'
  BY <1>0, <1>1, <1>3, <1>5 DEF StoreInv, Replica
<1>7. \A t \in Slaves \ {s} : SameSlave(t) /\ SameReplica(t)
  BY <1>3, <1>5 DEF SameSlave, SameReplica
<1> QED BY <1>0, <1>1, <1>2, <1>4, <1>5, <1>6, <1>7, ReadStore

(* The image becomes the store of the slave.                                 *)
LEMMA LoadRdbStore ==
    ASSUME LinkInv, TypeOK', StoreInv, NEW c \in Conns, LoadRdb(c)
    PROVE  StoreInv'
<1>0. /\ TypeOK /\ Linked(c) /\ chan[c] # <<>> /\ state[peer[c]] = "kRecvRdbBody"
      /\ Head(chan[c]).t = "rdb" /\ Consume(c) /\ Goto(c, "kRecvBacklogHeader")
      /\ UNCHANGED <<masterVars, mopen, peer, psync, repl_offset, have_offset,
                     master_replid, backlog_remaining, boundVars, unfed, last_hole>>
  BY DEF LinkInv, LoadRdb, Incoming, Linked
<1>1. PICK s \in Slaves : s = peer[c]
  BY <1>0, LinkTyped
<1>2. /\ Shrunk(chan[c], chan'[c], 1) /\ Head(chan[c]) = chan[c][1] /\ chan[c][1] \in Message
      /\ \A d \in Conns \ {c} : chan'[d] = chan[d]
  BY <1>0, Consumed
<1>3. state'[s] = "kRecvBacklogHeader" /\ \A t \in Slaves \ {s} : state'[t] = state[t]
  <2>1. "kRecvBacklogHeader" \in States
    BY DEF States
  <2> QED BY <1>0, <1>1, <2>1, Gone
<1>4. PICK img \in Image : img = chan[c][1].img
  BY <1>0, <1>2, ItemTypes
<1>5. /\ sdata'[s] = img.data /\ loaded_gen'[s] = img.gen
      /\ covers'[s] => /\ img.pos >= repl_offset[s] /\ last_hole <= repl_offset[s]
                       /\ master_replid[s] = replid
      /\ \A t \in Slaves \ {s} : SameReplica(t)
  <2>1. /\ sdata \in [Slaves -> Store] /\ loaded_gen \in [Slaves -> Nat]
        /\ covers \in [Slaves -> BOOLEAN]
    BY <1>0 DEF TypeOK
  <2>2. /\ sdata' = [sdata EXCEPT ![s] = img.data]
        /\ covers' = [covers EXCEPT ![s] = /\ img.pos >= repl_offset[s]
                                           /\ last_hole <= repl_offset[s]
                                           /\ master_replid[s] = replid]
        /\ loaded_gen' = [loaded_gen EXCEPT ![s] = img.gen]
    BY <1>1, <1>2, <1>4 DEF LoadRdb
  <2>3. covers'[s] => /\ img.pos >= repl_offset[s] /\ last_hole <= repl_offset[s]
                      /\ master_replid[s] = replid
    BY <2>1, <2>2, Zenon
  <2> QED BY <2>1, <2>2, <2>3 DEF SameReplica
<1>6. IdOf(state'[s], chan'[c], master_replid'[s]) = IdOf(state[s], chan[c], master_replid[s])
  BY <1>0, <1>1, <1>3 DEF IdOf, FullReply
<1>7. Replica(s)'
  <2>0. /\ data' = data /\ log' = log /\ replid' = replid /\ unfed' = unfed
        /\ last_hole' = last_hole /\ repl_offset' = repl_offset
        /\ master_replid' = master_replid
    BY <1>0 DEF masterVars
  <2>1. RdbsFit(chan[c], master_replid[s], replid, log, data, unfed)
    BY <1>0, <1>1 DEF StoreInv, FlightFits, IdOf, FullReply
  <2>2. /\ img.gen <= unfed
        /\ master_replid[s] = replid => Fits(img, log, data, unfed)
    <3>1. chan[c] \in Seq(Message)
      BY <1>0 DEF TypeOK
    <3>2. 1 \in 1..Len(chan[c])
      BY <1>0, <3>1
    <3> QED BY <2>1, <3>2, <1>0, <1>2, <1>4 DEF RdbsFit
  <2>3. ASSUME covers'[s], loaded_gen'[s] = unfed
        PROVE  /\ last_hole <= repl_offset[s] /\ master_replid[s] = replid
               /\ Follows(sdata'[s], repl_offset[s], log, data)
    <3>1. repl_offset[s] <= img.pos /\ img.pos \in Nat /\ repl_offset[s] \in Nat
          /\ log \in Seq(FrameSet)
      BY <2>3, <1>0, <1>5 DEF TypeOK, Image
    <3>2. Follows(img.data, img.pos, log, data)
      BY <2>2, <2>3, <1>5 DEF Fits
    <3>3. Follows(img.data, repl_offset[s], log, data)
      BY <3>1, <3>2, FollowsLater
    <3> QED BY <3>3, <2>3, <1>5
  <2> QED BY <2>0, <2>2, <2>3, <1>3, <1>5 DEF Replica
<1>8. \A t \in Slaves \ {s} : SameSlave(t)
  BY <1>0, <1>3 DEF SameSlave
<1> QED BY <1>0, <1>1, <1>2, <1>5, <1>6, <1>7, <1>8, ReadStore

LEMMA SwallowErrorStore ==
    ASSUME LinkInv, TypeOK', StoreInv, NEW c \in Conns, SwallowError(c)
    PROVE  StoreInv'
<1>0. /\ TypeOK /\ Linked(c) /\ chan[c] # <<>> /\ state[peer[c]] = "kRecvRdbBody"
      /\ Consume(c)
      /\ UNCHANGED <<masterVars, mopen, peer, psync, slaveVars, boundVars, histVars>>
  BY DEF LinkInv, SwallowError, Incoming, Linked
<1>1. PICK s \in Slaves : s = peer[c]
  BY <1>0, LinkTyped
<1>2. /\ Shrunk(chan[c], chan'[c], 1)
      /\ \A d \in Conns \ {c} : chan'[d] = chan[d]
  BY <1>0, Consumed
<1>3. UNCHANGED <<state, repl_offset, master_replid, sdata, backlog_remaining,
                  unfed, last_hole, covers, loaded_gen>>
  BY <1>0 DEF slaveVars, histVars
<1>4. IdOf(state'[s], chan'[c], master_replid'[s]) = IdOf(state[s], chan[c], master_replid[s])
  BY <1>0, <1>1, <1>3 DEF IdOf, FullReply
<1>5. \A t \in Slaves : SameSlave(t) /\ SameReplica(t)
  BY <1>3 DEF SameSlave, SameReplica
<1>6. Replica(s)'
  BY <1>0, <1>3, <1>5, ReplicaSame
<1> QED BY <1>0, <1>1, <1>2, <1>3, <1>4, <1>5, <1>6, ReadStore

LEMMA RecvBacklogHeaderStore ==
    ASSUME LinkInv, TypeOK', StoreInv, NEW c \in Conns, RecvBacklogHeader(c)
    PROVE  StoreInv'
<1> DEFINE st2 == IF Head(chan[c]).n = 0 THEN "kStreaming" ELSE "kRecvBacklogBody"
<1>0. /\ TypeOK /\ Linked(c) /\ chan[c] # <<>> /\ state[peer[c]] = "kRecvBacklogHeader"
      /\ Consume(c) /\ Goto(c, st2)
      /\ backlog_remaining' = [backlog_remaining EXCEPT ![peer[c]] = Head(chan[c]).n]
      /\ UNCHANGED <<masterVars, mopen, peer, psync, repl_offset, have_offset,
                     master_replid, sdata, boundVars, histVars>>
  BY DEF LinkInv, RecvBacklogHeader, Incoming, Linked
<1>1. PICK s \in Slaves : s = peer[c]
  BY <1>0, LinkTyped
<1>2. /\ Shrunk(chan[c], chan'[c], 1)
      /\ \A d \in Conns \ {c} : chan'[d] = chan[d]
  BY <1>0, Consumed
<1>3. /\ state'[s] \in {"kStreaming", "kRecvBacklogBody"}
      /\ \A t \in Slaves \ {s} : state'[t] = state[t]
  <2>1. st2 \in States
    BY DEF States
  <2>2. state'[s] = st2 /\ \A t \in Slaves \ {s} : state'[t] = state[t]
    <3> HIDE DEF st2
    <3> QED BY <1>0, <1>1, <2>1, Gone
  <2> QED BY <2>2
<1>4. IdOf(state'[s], chan'[c], master_replid'[s]) = IdOf(state[s], chan[c], master_replid[s])
  BY <1>0, <1>1, <1>3 DEF IdOf, FullReply
<1>5. UNCHANGED <<data, log, replid, repl_offset, master_replid, sdata,
                  unfed, last_hole, covers, loaded_gen>>
  BY <1>0 DEF masterVars, histVars
<1>6. Replica(s)'
  BY <1>3, <1>5 DEF StoreInv, Replica
<1>7. \A t \in Slaves \ {s} : SameSlave(t) /\ SameReplica(t)
  <2>1. backlog_remaining \in [Slaves -> Nat]
    BY <1>0 DEF TypeOK
  <2>2. \A t \in Slaves \ {s} : backlog_remaining'[t] = backlog_remaining[t]
    BY <2>1, <1>0, <1>1
  <2> QED BY <2>2, <1>3, <1>5 DEF SameSlave, SameReplica
<1> QED BY <1>0, <1>1, <1>2, <1>4, <1>5, <1>6, <1>7, ReadStore

(* Frames that arrive are those of the log behind the slave's offset, and    *)
(* the slave follows on.                                                     *)
LEMMA AppliedReplica ==
    ASSUME LinkInv, StoreInv, NEW c \in Conns, Linked(c), NEW s \in Slaves, s = peer[c],
           state[s] \in {"kStreaming", "kRecvBacklogBody"}, NEW n \in Nat,
           n <= Len(chan[c]), NEW fs \in Seq(Message), Len(fs) = n,
           \A i \in 1..n : fs[i] = chan[c][i],
           UNCHANGED <<masterVars, master_replid, histVars>>,
           sdata'[s] = ApplyAll(sdata[s], fs), repl_offset'[s] = repl_offset[s] + n,
           state'[s] = "kStreaming"
    PROVE  Replica(s)'
<1> DEFINE q == chan[c]
           o == repl_offset[s]
<1>0. /\ data' = data /\ log' = log /\ replid' = replid /\ unfed' = unfed
      /\ last_hole' = last_hole /\ covers' = covers /\ loaded_gen' = loaded_gen
      /\ master_replid' = master_replid
  BY DEF masterVars, histVars
<1>1. TypeOK /\ o \in Nat /\ log \in Seq(FrameSet) /\ last_hole \in Int /\ q \in Seq(Message)
  BY DEF LinkInv, TypeOK
<1>2. ASSUME covers[s], loaded_gen[s] = unfed
      PROVE  /\ last_hole <= o + n /\ master_replid[s] = replid
             /\ Follows(ApplyAll(sdata[s], fs), o + n, log, data)
  <2>1. /\ last_hole <= o /\ master_replid[s] = replid
        /\ Follows(sdata[s], o, log, data) /\ Says(log, data, last_hole)
    BY <1>2 DEF StoreInv, Replica
  <2>2. Headers(state[s], q) = 0 /\ ~FullReply(state[s], q)
    BY DEF Headers, FullReply
  <2>3. o <= Len(log) /\ InLog(q, 0, o, log)
    BY <2>1, <2>2 DEF LinkInv, Links, LinkOK, Link, Carries, OffsetOf, IdOf
  <2>4. \A i \in 1..n : o + i <= Len(log) /\ fs[i] = log[o + i]
    <3> SUFFICES ASSUME NEW i \in 1..n PROVE o + i <= Len(log) /\ fs[i] = log[o + i]
      OBVIOUS
    <3>1. i \in 1..Len(q) /\ i > 0 /\ o + i - 0 = o + i
      BY <1>1
    <3>2. o + i - 0 <= Len(log) /\ q[i] = log[o + i - 0]
      BY <2>3, <3>1 DEF InLog
    <3> QED BY <3>1, <3>2
  <2>5. o + n <= Len(log)
    <3>1. CASE n = 0
      BY <3>1, <2>3, <1>1
    <3>2. CASE n # 0
      BY <3>2, <2>4
    <3> QED BY <3>1, <3>2
  <2>6. Follows(ApplyAll(sdata[s], fs), o + n, log, data)
    <3> HIDE DEF o, q
    <3> QED BY <1>1, <2>1, <2>4, <2>5, ApplyFollows
  <2>7. last_hole <= o + n
    BY <1>1, <2>1
  <2> QED BY <2>1, <2>6, <2>7
<1>3. loaded_gen[s] <= unfed
  BY DEF StoreInv, Replica
<1> QED BY <1>0, <1>2, <1>3 DEF Replica

LEMMA ApplyFrameStore ==
    ASSUME LinkInv, TypeOK', StoreInv, NEW c \in Conns, ApplyFrame(c)
    PROVE  StoreInv'
<1>0. /\ TypeOK /\ Linked(c) /\ chan[c] # <<>> /\ state[peer[c]] = "kStreaming"
      /\ Head(chan[c]).t = "frame" /\ Consume(c)
      /\ UNCHANGED <<masterVars, mopen, peer, psync, state, master_replid,
                     backlog_remaining, boundVars, histVars>>
  BY DEF LinkInv, ApplyFrame, Incoming, Linked
<1>1. PICK s \in Slaves : s = peer[c]
  BY <1>0, LinkTyped
<1>2. /\ Shrunk(chan[c], chan'[c], 1) /\ Head(chan[c]) = chan[c][1] /\ chan[c][1] \in Message
      /\ \A d \in Conns \ {c} : chan'[d] = chan[d]
  BY <1>0, Consumed
<1>3. PICK fs \in Seq(Message) : fs = <<chan[c][1]>> /\ Len(fs) = 1 /\ fs[1] = chan[c][1]
  <2>1. PICK x \in Message : x = chan[c][1]
    BY <1>2
  <2>2. <<x>> \in Seq(Message) /\ Len(<<x>>) = 1 /\ <<x>>[1] = x
    OBVIOUS
  <2> QED BY <2>1, <2>2, Zenon
<1>4. /\ sdata'[s] = ApplyAll(sdata[s], fs) /\ repl_offset'[s] = repl_offset[s] + 1
      /\ \A t \in Slaves \ {s} : sdata'[t] = sdata[t] /\ repl_offset'[t] = repl_offset[t]
  <2>1. sdata \in [Slaves -> Store] /\ repl_offset \in [Slaves -> Nat]
    BY <1>0 DEF TypeOK
  <2>2. PICK v : v = ApplyAll(sdata[s], fs)
    OBVIOUS
  <2>3. sdata' = [sdata EXCEPT ![s] = v] /\ repl_offset' = [repl_offset EXCEPT ![s] = @ + 1]
    BY <1>1, <1>2, <1>3, <2>2 DEF ApplyFrame
  <2>4. /\ sdata'[s] = v /\ repl_offset'[s] = repl_offset[s] + 1
        /\ \A t \in Slaves \ {s} : sdata'[t] = sdata[t] /\ repl_offset'[t] = repl_offset[t]
    BY <2>1, <2>3
  <2> QED BY <2>2, <2>4
<1>5. UNCHANGED <<state, master_replid, backlog_remaining, unfed, last_hole, covers, loaded_gen>>
  BY <1>0 DEF histVars
<1>6. Replica(s)'
  <2>1. 1 \in Nat /\ 1 <= Len(chan[c]) /\ \A i \in 1..1 : fs[i] = chan[c][i]
    <3>1. chan[c] \in Seq(Message)
      BY <1>0 DEF TypeOK
    <3>2. 1 <= Len(chan[c])
      BY <1>0, <3>1
    <3> QED BY <3>2, <1>3
  <2>2. state[s] \in {"kStreaming", "kRecvBacklogBody"} /\ state'[s] = "kStreaming"
    BY <1>0, <1>1, <1>5
  <2>3. UNCHANGED <<masterVars, master_replid, histVars>> /\ Linked(c) /\ s = peer[c]
    BY <1>0, <1>1
  <2>4. /\ fs \in Seq(Message) /\ Len(fs) = 1
        /\ sdata'[s] = ApplyAll(sdata[s], fs) /\ repl_offset'[s] = repl_offset[s] + 1
    BY <1>3, <1>4
  <2> QED BY <2>1, <2>2, <2>3, <2>4, AppliedReplica, Zenon
<1>7. IdOf(state'[s], chan'[c], master_replid'[s]) = IdOf(state[s], chan[c], master_replid[s])
  BY <1>0, <1>1, <1>5 DEF IdOf, FullReply
<1>8. \A t \in Slaves \ {s} : SameSlave(t) /\ SameReplica(t)
  BY <1>4, <1>5 DEF SameSlave, SameReplica
<1> QED BY <1>0, <1>1, <1>2, <1>5, <1>6, <1>7, <1>8, ReadStore

LEMMA ApplyBacklogStore ==
    ASSUME LinkInv, TypeOK', StoreInv, NEW c \in Conns, ApplyBacklog(c)
    PROVE  StoreInv'
<1>0. /\ TypeOK /\ Linked(c) /\ chan[c] # <<>> /\ state[peer[c]] = "kRecvBacklogBody"
      /\ Goto(c, "kStreaming")
      /\ UNCHANGED <<masterVars, mopen, peer, psync, have_offset, master_replid,
                     boundVars, histVars>>
  BY DEF LinkInv, ApplyBacklog, Incoming, Linked
<1>1. PICK s \in Slaves : s = peer[c]
  BY <1>0, LinkTyped
<1>2. PICK n \in Nat : n = backlog_remaining[s]
  BY <1>0 DEF TypeOK
<1>3. chan[c] \in Seq(Message) /\ chan \in [Conns -> Seq(Message)] /\ n <= Len(chan[c])
  BY <1>0, <1>1, <1>2 DEF TypeOK, ApplyBacklog
<1>4. Shrunk(chan[c], chan'[c], n) /\ \A d \in Conns \ {c} : chan'[d] = chan[d]
  <2>1. PICK u \in Seq(Message) : u = SubSeq(chan[c], n + 1, Len(chan[c]))
                                  /\ Shrunk(chan[c], u, n)
    BY <1>3, DropShrinks
  <2>2. chan' = [chan EXCEPT ![c] = u]
    BY <2>1, <1>1, <1>2 DEF ApplyBacklog
  <2> QED BY <2>1, <2>2, <1>3
<1>5. PICK fs \in Seq(Message) : /\ fs = SubSeq(chan[c], 1, n) /\ Len(fs) = n
                                 /\ \A i \in 1..n : fs[i] = chan[c][i]
  <2>1. \A i \in 1..n : chan[c][i] \in Message
    BY <1>3
  <2>2. /\ SubSeq(chan[c], 1, n) \in Seq(Message)
        /\ Len(SubSeq(chan[c], 1, n)) = IF 1 <= n THEN n - 1 + 1 ELSE 0
        /\ \A i \in 1..(n - 1 + 1) : SubSeq(chan[c], 1, n)[i] = chan[c][1 + i - 1]
    BY <2>1, <1>3, SubSeqProperties
  <2>3. PICK u \in Seq(Message) : u = SubSeq(chan[c], 1, n)
    BY <2>2, Zenon
  <2>4. Len(u) = n
    BY <2>2, <2>3
  <2>5. ASSUME NEW i \in 1..n PROVE u[i] = chan[c][i]
    <3>1. i \in 1..(n - 1 + 1) /\ 1 + i - 1 = i
      OBVIOUS
    <3> QED BY <3>1, <2>2, <2>3
  <2> QED BY <2>3, <2>4, <2>5
<1>6. /\ sdata'[s] = ApplyAll(sdata[s], fs) /\ repl_offset'[s] = repl_offset[s] + n
      /\ \A t \in Slaves \ {s} : /\ sdata'[t] = sdata[t] /\ repl_offset'[t] = repl_offset[t]
                                 /\ backlog_remaining'[t] = backlog_remaining[t]
  <2>1. /\ sdata \in [Slaves -> Store] /\ repl_offset \in [Slaves -> Nat]
        /\ backlog_remaining \in [Slaves -> Nat]
    BY <1>0 DEF TypeOK
  <2>2. PICK v : v = ApplyAll(sdata[s], fs)
    OBVIOUS
  <2>3. /\ sdata' = [sdata EXCEPT ![s] = v] /\ repl_offset' = [repl_offset EXCEPT ![s] = @ + n]
        /\ backlog_remaining' = [backlog_remaining EXCEPT ![s] = 0]
    BY <1>1, <1>2, <1>5, <2>2 DEF ApplyBacklog
  <2>4. /\ sdata'[s] = v /\ repl_offset'[s] = repl_offset[s] + n
        /\ \A t \in Slaves \ {s} : /\ sdata'[t] = sdata[t] /\ repl_offset'[t] = repl_offset[t]
                                   /\ backlog_remaining'[t] = backlog_remaining[t]
    BY <2>1, <2>3
  <2> QED BY <2>2, <2>4
<1>7. state'[s] = "kStreaming" /\ \A t \in Slaves \ {s} : state'[t] = state[t]
  <2>1. "kStreaming" \in States
    BY DEF States
  <2> QED BY <1>0, <1>1, <2>1, Gone
<1>8. UNCHANGED <<master_replid, unfed, last_hole, covers, loaded_gen>>
  BY <1>0 DEF histVars
<1>9. Replica(s)'
  <2>1. state[s] \in {"kStreaming", "kRecvBacklogBody"} /\ state'[s] = "kStreaming"
    BY <1>0, <1>1, <1>7
  <2>2. UNCHANGED <<masterVars, master_replid, histVars>> /\ Linked(c) /\ s = peer[c]
    BY <1>0, <1>1
  <2>3. /\ fs \in Seq(Message) /\ Len(fs) = n /\ n <= Len(chan[c])
        /\ \A i \in 1..n : fs[i] = chan[c][i]
    BY <1>3, <1>5, Zenon
  <2>4. sdata'[s] = ApplyAll(sdata[s], fs) /\ repl_offset'[s] = repl_offset[s] + n
    BY <1>6, Zenon
  <2> QED BY <2>1, <2>2, <2>3, <2>4, AppliedReplica, Zenon
<1>10. IdOf(state'[s], chan'[c], master_replid'[s]) = IdOf(state[s], chan[c], master_replid[s])
  BY <1>0, <1>1, <1>7, <1>8 DEF IdOf, FullReply
<1>11. \A t \in Slaves \ {s} : SameSlave(t) /\ SameReplica(t)
  BY <1>6, <1>7, <1>8 DEF SameSlave, SameReplica
<1> QED BY <1>0, <1>1, <1>4, <1>8, <1>9, <1>10, <1>11, ReadStore

(* The slave gives the connection up: it has no image half loaded.           *)
LEMMA FailLinkStore ==
    ASSUME LinkInv, StoreInv, NEW c \in Conns, Linked(c), FailLink(c),
           UNCHANGED <<masterVars, repl_offset, master_replid, backlog_remaining, histVars>>,
           NEW d \in {sdata[peer[c]], EmptyStore}, sdata' = [sdata EXCEPT ![peer[c]] = d],
           d = sdata[peer[c]] \/ state[peer[c]] = "kRecvRdbBody"
    PROVE  StoreInv'
<1>0. /\ data' = data /\ log' = log /\ replid' = replid /\ unfed' = unfed
      /\ last_hole' = last_hole /\ covers' = covers /\ loaded_gen' = loaded_gen
      /\ UNCHANGED <<repl_offset, master_replid, backlog_remaining>>
  BY DEF masterVars, histVars
<1>1. TypeOK
  BY DEF LinkInv
<1>2. PICK s \in Slaves : s = peer[c]
  BY <1>1, LinkTyped
<1>3. /\ state'[s] = "kError" /\ sdata'[s] = d
      /\ \A t \in Slaves \ {s} : state'[t] = state[t] /\ sdata'[t] = sdata[t]
  <2>1. state \in [Slaves -> States] /\ sdata \in [Slaves -> Store]
    BY <1>1 DEF TypeOK
  <2> QED BY <2>1, <1>2 DEF FailLink
<1>4. \A e \in Conns : IF peer[e] = s THEN peer'[e] = NoSlave /\ chan'[e] = <<>>
                       ELSE peer'[e] = peer[e] /\ chan'[e] = chan[e]
  <2>1. peer \in [Conns -> Slaves \cup {NoSlave}] /\ chan \in [Conns -> Seq(Message)]
    BY <1>1 DEF TypeOK
  <2>2. \A e \in Conns : peer[e] = s => e = c
    BY <1>2 DEF LinkInv, Ends
  <2>3. peer' = [peer EXCEPT ![c] = NoSlave] /\ chan' = [chan EXCEPT ![c] = <<>>]
    BY DEF FailLink
  <2> QED BY <2>1, <2>2, <2>3, <1>2
<1>5. Replica(s)'
  <2>1. CASE d = sdata[s]
    BY <2>1, <1>0, <1>3 DEF StoreInv, Replica
  <2>2. CASE state[s] = "kRecvRdbBody"
    BY <2>2, <1>0, <1>3 DEF StoreInv, Replica
  <2> QED BY <2>1, <2>2, <1>2
<1>6. \A t \in Slaves \ {s} : SameSlave(t) /\ SameReplica(t)
  BY <1>0, <1>3 DEF SameSlave, SameReplica
<1> QED BY <1>0, <1>4, <1>5, <1>6, CloseStore

LEMMA SlaveCloseStore ==
    ASSUME LinkInv, StoreInv, NEW c \in Conns, SlaveClose(c) \/ RecvRefusal(c)
    PROVE  StoreInv'
<1>1. /\ Linked(c) /\ FailLink(c) /\ sdata' = sdata
      /\ UNCHANGED <<masterVars, repl_offset, master_replid, backlog_remaining, histVars>>
  BY DEF SlaveClose, RecvRefusal, Incoming, Linked
<1>2. peer[c] \in Slaves /\ sdata \in [Slaves -> Store]
  BY <1>1, LinkTyped DEF LinkInv, TypeOK
<1>3. sdata' = [sdata EXCEPT ![peer[c]] = sdata[peer[c]]]
  BY <1>1, <1>2
<1> QED BY <1>1, <1>3, FailLinkStore

LEMMA LoadRdbFailsStore ==
    ASSUME LinkInv, StoreInv, NEW c \in Conns, LoadRdbFails(c)
    PROVE  StoreInv'
<1>1. /\ Linked(c) /\ FailLink(c) /\ state[peer[c]] = "kRecvRdbBody"
      /\ UNCHANGED <<masterVars, repl_offset, master_replid, backlog_remaining, histVars>>
  BY DEF LoadRdbFails, Incoming, Linked
<1>2. PICK d \in {sdata[peer[c]], EmptyStore} : sdata' = [sdata EXCEPT ![peer[c]] = d]
  BY DEF LoadRdbFails
<1> QED BY <1>1, <1>2, FailLinkStore

LEMMA SlaveRestartStore ==
    ASSUME LinkInv, StoreInv, NEW s \in Slaves, SlaveRestart(s)
    PROVE  StoreInv'
<1>0. TypeOK /\ UNCHANGED <<masterVars, unfed, last_hole, loaded_gen>>
  BY DEF LinkInv, SlaveRestart
<1>1. /\ covers'[s] = FALSE
      /\ \A t \in Slaves \ {s} : SameSlave(t) /\ SameReplica(t)
  <2>1. /\ state \in [Slaves -> States] /\ repl_offset \in [Slaves -> Nat]
        /\ master_replid \in [Slaves -> Nat] /\ sdata \in [Slaves -> Store]
        /\ backlog_remaining \in [Slaves -> Nat] /\ covers \in [Slaves -> BOOLEAN]
    BY <1>0 DEF TypeOK
  <2> QED BY <2>1, <1>0 DEF SlaveRestart, SameSlave, SameReplica
<1>2. Replica(s)'
  BY <1>0, <1>1 DEF StoreInv, Replica
<1>3. \A d \in Conns : IF peer[d] = s THEN peer'[d] = NoSlave /\ chan'[d] = <<>>
                       ELSE peer'[d] = peer[d] /\ chan'[d] = chan[d]
  BY DEF SlaveRestart
<1> QED BY <1>0, <1>1, <1>2, <1>3, CloseStore

LEMMA TryConnectStore ==
    ASSUME LinkInv, StoreInv, NEW s \in Slaves, NEW c \in Conns, TryConnect(s, c)
    PROVE  StoreInv'
<1>0. /\ TypeOK /\ ~Linked(c)
      /\ UNCHANGED <<masterVars, chan, repl_offset, have_offset, master_replid,
                     sdata, boundVars, histVars>>
  BY DEF LinkInv, TryConnect, Linked
<1>1. UNCHANGED <<data, log, replid, repl_offset, master_replid, sdata, chan,
                  unfed, last_hole, covers, loaded_gen>>
  BY <1>0 DEF masterVars, histVars
<1>2. /\ state'[s] = "kWaitFullresync" /\ chan[c] = <<>>
      /\ \A t \in Slaves \ {s} : state'[t] = state[t]
      /\ peer'[c] = s /\ \A d \in Conns \ {c} : peer'[d] = peer[d]
  <2>1. state \in [Slaves -> States] /\ peer \in [Conns -> Slaves \cup {NoSlave}]
    BY <1>0 DEF TypeOK
  <2>2. chan[c] = <<>>
    BY <1>0 DEF LinkInv, Ends
  <2> QED BY <2>1, <2>2 DEF TryConnect
<1>3. ASSUME NEW d \in Conns PROVE FlightFits(d)'
  <2>1. CASE d = c
    <3>1. Len(chan'[d]) = 0
      BY <2>1, <1>1, <1>2
    <3> QED BY <3>1 DEF FlightFits, RdbsFit
  <2>2. CASE d # c
    <3>1. peer'[d] = peer[d]
      BY <2>2, <1>2
    <3> SUFFICES ASSUME Linked(d)
                 PROVE  RdbsFit(chan[d], IdOf(state'[peer[d]], chan[d], master_replid[peer[d]]),
                                replid, log, data, unfed)
      BY <1>1, <3>1 DEF FlightFits, Linked
    <3>2. peer[d] \in Slaves /\ peer[d] # s
      <4>1. peer[d] \in Slaves
        BY <1>0, LinkTyped
      <4>2. LinkOK(d)
        BY DEF LinkInv, Links
      <4>3. state[peer[d]] \notin {"kInit", "kError"}
        BY <4>2, LinkedState, <1>0
      <4>4. state[s] \in {"kInit", "kError"}
        BY DEF TryConnect
      <4> QED BY <4>1, <4>3, <4>4
    <3> QED BY <3>2, <1>2 DEF StoreInv, FlightFits
  <2> QED BY <2>1, <2>2
<1>4. ASSUME NEW t \in Slaves PROVE Replica(t)'
  BY <1>1, <1>2 DEF StoreInv, Replica
<1>5. UNCHANGED <<masterVars, unfed, last_hole>>
  BY <1>0, <1>1
<1> QED BY <1>3, <1>4, <1>5, SlavesStore

(* A new master process: no slave follows its stream yet.                    *)
LEMMA MasterRestartStore ==
    ASSUME LinkInv, StoreInv, MasterRestart
    PROVE  StoreInv'
<1>0. /\ TypeOK /\ replid \in Nat /\ unfed \in Nat
      /\ log' = <<>> /\ replid' = replid + 1 /\ child' = NoChild
      /\ \A d \in Conns : reg'[d] = "none" /\ file'[d] = NoImage
      /\ \A s \in Slaves : covers'[s] = FALSE
      /\ UNCHANGED <<peer, chan, slaveVars, unfed, loaded_gen>>
  BY DEF LinkInv, TypeOK, MasterRestart, GenerateReplid
<1>1. NoImage.gen <= unfed
  BY <1>0 DEF NoImage
<1>2. ChildFits'
  BY <1>0, <1>1 DEF ChildFits, NoChild
<1>3. ASSUME NEW d \in Conns PROVE FileFits(d)'
  BY <1>0, <1>1 DEF FileFits
<1>4. ASSUME NEW d \in Conns PROVE FlightFits(d)'
  <2>0. peer' = peer /\ chan' = chan /\ state' = state /\ master_replid' = master_replid
        /\ unfed' = unfed
    BY <1>0 DEF slaveVars
  <2> DEFINE w == IdOf(state[peer[d]], chan[d], master_replid[peer[d]])
  <2> SUFFICES ASSUME Linked(d)
               PROVE  RdbsFit(chan[d], w, replid', log', data', unfed)
    BY <2>0 DEF FlightFits, Linked
  <2>1. w <= replid
    BY DEF LinkInv, Links, LinkOK, Link, Carries
  <2>2. w # replid'
    <3>1. peer[d] \in Slaves /\ master_replid[peer[d]] \in Nat /\ chan[d] \in Seq(Message)
      BY <1>0, LinkTyped DEF TypeOK
    <3>2. w \in Nat
      BY <3>1, ItemTypes DEF IdOf, FullReply
    <3> HIDE DEF w
    <3> QED BY <3>2, <2>1, <1>0
  <2>3. RdbsFit(chan[d], w, replid, log, data, unfed)
    BY DEF StoreInv, FlightFits
  <2> HIDE DEF w
  <2> QED BY <2>2, <2>3 DEF RdbsFit
<1>5. ASSUME NEW s \in Slaves PROVE Replica(s)'
  BY <1>0 DEF StoreInv, Replica
<1>6. Says(log, data, last_hole)'
  <2>1. Len(log') = 0
    BY <1>0
  <2> QED BY <2>1 DEF Says
<1> QED BY <1>2, <1>3, <1>4, <1>5, <1>6 DEF StoreInv

LEMMA FrameOf ==
    ASSUME NEW k \in Keys, NEW v \in Nat
    PROVE  Frame(k, v) \in FrameSet /\ Frame(k, v).key = k /\ Frame(k, v).val = v
BY DEF Frame, FrameSet

(* A write: a frame that every store is brought up to date by, or a hole     *)
(* behind which no image counts.                                             *)
LEMMA WriteStore ==
    ASSUME LinkInv, TypeOK', StoreInv, NEW k \in Keys, NEW v \in Nat, Write(k, v)
    PROVE  StoreInv'
<1>0. /\ UNCHANGED <<replid, child, peer, state, repl_offset, master_replid, sdata>>
      /\ data' = [data EXCEPT ![k] = v] /\ Propagate(Frame(k, v))
  BY DEF Write, slaveVars
<1>1. /\ TypeOK /\ data \in Store /\ log \in Seq(FrameSet) /\ unfed \in Nat
      /\ chan \in [Conns -> Seq(Message)] /\ file \in [Conns -> Image]
      /\ child.img \in Image /\ child.img.gen \in Nat /\ last_hole \in Int
      /\ repl_offset \in [Slaves -> Nat] /\ loaded_gen \in [Slaves -> Nat]
  <2>1. TypeOK
    BY DEF LinkInv
  <2>2. /\ TypeOK /\ data \in Store /\ log \in Seq(FrameSet) /\ unfed \in Nat
        /\ chan \in [Conns -> Seq(Message)] /\ file \in [Conns -> Image]
        /\ child \in ChildType /\ last_hole \in Int
        /\ repl_offset \in [Slaves -> Nat] /\ loaded_gen \in [Slaves -> Nat]
    BY <2>1, Zenon DEF TypeOK, ChildType
  <2>3. child.img \in Image /\ child.img.gen \in Nat
    BY <2>2 DEF ChildType, Image
  <2> QED BY <2>2, <2>3
<1>2. Len(log) \in Nat
  BY <1>1
<1>3. CASE LeaveHole
  <2>0. /\ UNCHANGED <<log, chan, reg, file, covers, loaded_gen>>
        /\ unfed' = unfed + 1 /\ last_hole' = Len(log)
    BY <1>3 DEF LeaveHole, tip
  <2>1. ASSUME NEW img \in Image, img.gen <= unfed
        PROVE  /\ img.gen <= unfed'
               /\ img.pos <= Len(log) => Fits(img, log, data', unfed')
    <3>1. img.gen \in Nat
      BY DEF Image
    <3> QED BY <2>0, <2>1, <3>1, <1>1 DEF Fits
  <2>2. ChildFits'
    <3>1. child' = child /\ log' = log
      BY <1>0, <2>0
    <3>2. child.img.gen <= unfed /\ (child.path # "none" => child.img.pos <= Len(log))
      BY DEF StoreInv, ChildFits, Fits
    <3> QED BY <3>1, <3>2, <2>1, <1>1 DEF ChildFits
  <2>3. ASSUME NEW d \in Conns PROVE FileFits(d)'
    <3>1. file' = file /\ reg' = reg /\ log' = log /\ file[d] \in Image
      BY <2>0, <1>1
    <3>2. file[d].gen <= unfed /\ (reg[d] = "kSendingRdb" => file[d].pos <= Len(log))
      BY DEF StoreInv, FileFits, Fits
    <3> QED BY <3>1, <3>2, <2>1 DEF FileFits
  <2>4. ASSUME NEW d \in Conns PROVE FlightFits(d)'
    <3> DEFINE w == IdOf(state[peer[d]], chan[d], master_replid[peer[d]])
    <3> SUFFICES ASSUME Linked(d)
                 PROVE  RdbsFit(chan[d], w, replid, log, data', unfed')
      BY <1>0, <2>0 DEF FlightFits, Linked
    <3>1. RdbsFit(chan[d], w, replid, log, data, unfed)
      BY DEF StoreInv, FlightFits
    <3> HIDE DEF w
    <3> SUFFICES ASSUME NEW i \in 1..Len(chan[d]), chan[d][i].t = "rdb"
                 PROVE  /\ chan[d][i].img.gen <= unfed'
                        /\ w = replid => Fits(chan[d][i].img, log, data', unfed')
      BY DEF RdbsFit
    <3>2. chan[d][i].img \in Image
      <4>1. chan[d] \in Seq(Message)
        BY <1>1
      <4>2. chan[d][i] \in Message
        BY <4>1
      <4> QED BY <4>2, ItemTypes
    <3>3. chan[d][i].img.gen <= unfed /\ (w = replid => chan[d][i].img.pos <= Len(log))
      BY <3>1 DEF RdbsFit, Fits
    <3> QED BY <3>2, <3>3, <2>1
  <2>5. ASSUME NEW s \in Slaves PROVE Replica(s)'
    <3>1. loaded_gen[s] <= unfed /\ loaded_gen[s] \in Nat
      BY <1>1 DEF StoreInv, Replica
    <3>2. loaded_gen'[s] <= unfed' /\ loaded_gen'[s] # unfed'
      BY <3>1, <2>0, <1>1
    <3> QED BY <3>2, <1>0, <2>0 DEF StoreInv, Replica
  <2>6. Says(log, data, last_hole)'
    BY <2>0, <1>2 DEF Says
  <2> QED BY <2>2, <2>3, <2>4, <2>5, <2>6 DEF StoreInv
<1>4. ASSUME NEW big \in Oversized, FeedEncodedFrame(Frame(k, v), big)
      PROVE  StoreInv'
  <2>0. PICK f \in FrameSet : f = Frame(k, v) /\ f.key = k /\ f.val = v
    BY FrameOf, Zenon
  <2>1. /\ log' \in Seq(FrameSet) /\ Grown(log, log', f)
        /\ chan' \in [Conns -> Seq(Message)] /\ \A d \in Conns : Fed(d, f)
    <3>1. big \in BOOLEAN /\ FeedEncodedFrame(f, big)
      BY <1>4, <2>0, ReplicationAssumption
    <3> QED BY <3>1, <1>1, FeedIs
  <2>2. unfed' = unfed /\ last_hole' = last_hole /\ covers' = covers /\ loaded_gen' = loaded_gen
    BY <1>4 DEF FeedEncodedFrame, histVars
  <2>3. data'[f.key] = f.val /\ \A j \in Keys : j # f.key => data'[j] = data[j]
    BY <1>0, <1>1, <2>0 DEF Store
  <2>4. ASSUME NEW img \in Image, Fits(img, log, data, unfed)
        PROVE  Fits(img, log', data', unfed)
    BY <2>1, <2>3, <2>4, <1>1, FitsFed
  <2>5. ChildFits'
    <3>1. child' = child
      BY <1>0
    <3> QED BY <3>1, <2>2, <2>4, <1>1 DEF StoreInv, ChildFits
  <2>6. ASSUME NEW d \in Conns PROVE FileFits(d)'
    <3>1. NoImage.gen <= unfed
      BY <1>1 DEF NoImage
    <3>2. file[d] \in Image /\ file[d].gen <= unfed
          /\ (reg[d] = "kSendingRdb" => Fits(file[d], log, data, unfed))
      BY <1>1 DEF StoreInv, FileFits
    <3>3. \/ reg'[d] = reg[d] /\ file'[d] = file[d]
          \/ reg'[d] = "none" /\ file'[d] = NoImage
      BY <2>1 DEF Fed
    <3> QED BY <3>1, <3>2, <3>3, <2>2, <2>4 DEF FileFits
  <2>7. ASSUME NEW d \in Conns PROVE FlightFits(d)'
    <3> SUFFICES ASSUME Linked(d)
                 PROVE  RdbsFit(chan'[d], IdOf(state[peer[d]], chan'[d], master_replid[peer[d]]),
                                replid, log', data', unfed)
      BY <1>0, <2>2 DEF FlightFits, Linked
    <3>0. chan[d] \in Seq(Message) /\ chan'[d] \in Seq(Message)
      BY <1>1, <2>1
    <3>1. Lengthened(chan[d], chan'[d])
      <4>1. f.t # "rdb"
        BY FrameItem
      <4> QED BY <2>1, <3>0, <4>1, ErrLineType, GrownLonger, SameLonger DEF Fed
    <3>2. RdbsFit(chan[d], IdOf(state[peer[d]], chan[d], master_replid[peer[d]]),
                  replid, log, data, unfed)
      BY DEF StoreInv, FlightFits
    <3>3. RdbsFit(chan[d], IdOf(state[peer[d]], chan[d], master_replid[peer[d]]),
                  replid, log', data', unfed)
      <4> DEFINE w == IdOf(state[peer[d]], chan[d], master_replid[peer[d]])
      <4> HIDE DEF w
      <4> SUFFICES ASSUME NEW i \in 1..Len(chan[d]), chan[d][i].t = "rdb"
                   PROVE  /\ chan[d][i].img.gen <= unfed
                          /\ w = replid => Fits(chan[d][i].img, log', data', unfed)
        BY DEF RdbsFit, w
      <4>1. chan[d][i] \in Message
        BY <3>0
      <4>2. chan[d][i].img \in Image
        BY <4>1, ItemTypes
      <4>3. /\ chan[d][i].img.gen <= unfed
            /\ w = replid => Fits(chan[d][i].img, log, data, unfed)
        BY <3>2 DEF RdbsFit, w
      <4> QED BY <4>2, <4>3, <2>4
    <3> QED BY <3>0, <3>1, <3>3, RdbsLengthened
  <2>8. ASSUME NEW s \in Slaves PROVE Replica(s)'
    <3>1. ASSUME covers[s], loaded_gen[s] = unfed
          PROVE  /\ last_hole <= repl_offset[s] /\ master_replid[s] = replid
                 /\ Follows(sdata[s], repl_offset[s], log', data')
      <4>1. /\ last_hole <= repl_offset[s] /\ master_replid[s] = replid
            /\ Follows(sdata[s], repl_offset[s], log, data)
        BY <3>1 DEF StoreInv, Replica
      <4>2. repl_offset[s] <= Len(log)
        BY <4>1 DEF LinkInv, NotAhead, tip
      <4>3. repl_offset[s] \in Int
        BY <1>1
      <4>4. Follows(sdata[s], repl_offset[s], log', data')
        BY <4>1, <4>2, <4>3, <2>1, <2>3, <1>1, FollowsFed
      <4> QED BY <4>1, <4>4
    <3> QED BY <3>1, <1>0, <2>2 DEF StoreInv, Replica
  <2>9. Says(log, data, last_hole)'
    <3>1. Says(log', data', last_hole)
      BY <2>1, <2>3, <1>1, SaysFed DEF StoreInv
    <3> QED BY <3>1, <2>2
  <2> QED BY <2>5, <2>6, <2>7, <2>8, <2>9 DEF StoreInv
<1> QED BY <1>0, <1>3, <1>4 DEF Propagate

-----------------------------------------------------------------------------
(* The specification again, with the stores *)

LEMMA StoreInvInit == Init => StoreInv
<1> SUFFICES ASSUME Init PROVE StoreInv
  OBVIOUS
<1>1. Says(log, data, last_hole)
  <2>1. Len(log) = 0
    BY DEF Init
  <2> QED BY <2>1 DEF Says
<1>2. NoImage.gen <= unfed
  BY DEF Init, NoImage
<1>3. ChildFits
  BY <1>2 DEF Init, NoChild, ChildFits
<1>4. ASSUME NEW c \in Conns PROVE FileFits(c) /\ FlightFits(c)
  BY <1>2 DEF Init, FileFits, FlightFits, Linked
<1>5. ASSUME NEW s \in Slaves PROVE Replica(s)
  BY DEF Init, Replica
<1> QED BY <1>1, <1>3, <1>4, <1>5 DEF StoreInv

(* A read of the slave at the end of c.                                      *)
LEMMA SlaveReadStore ==
    ASSUME LinkInv, TypeOK', StoreInv, NEW c \in Conns, SlaveRead(c)
    PROVE  StoreInv'
BY RecvContinueStore, RecvFullResyncStore, SlaveCloseStore, RecvRdbHeaderStore,
   LoadRdbStore, LoadRdbFailsStore, SwallowErrorStore, RecvBacklogHeaderStore,
   ApplyBacklogStore, ApplyFrameStore DEF SlaveRead

LEMMA StoreInvNext == LinkInv /\ StoreInv /\ [Next]_vars => StoreInv'
<1> SUFFICES ASSUME LinkInv, StoreInv, [Next]_vars PROVE StoreInv'
  OBVIOUS
<1>0. TypeOK'
  <2>1. LinkInv'
    BY LinkInvNext
  <2> QED BY <2>1 DEF LinkInv
<1>1. CASE ClientStep
  <2>1. ASSUME NEW k \in Keys, ClientSet(k) PROVE StoreInv'
    <3>1. writes \in Nat
      <4>1. TypeOK
        BY DEF LinkInv
      <4> QED BY <4>1, Zenon DEF TypeOK
    <3>2. writes + 1 \in Nat
      BY <3>1
    <3> QED BY <1>0, <2>1, <3>2, WriteStore DEF ClientSet
  <2>2. ASSUME NEW k \in Keys, ClientDel(k) PROVE StoreInv'
    <3>1. 0 \in Nat
      OBVIOUS
    <3> QED BY <1>0, <2>2, <3>1, WriteStore DEF ClientDel
  <2>3. ASSUME ClientSave PROVE StoreInv'
    BY <1>0, <2>3, ClientSaveStep, QuietStore
  <2> QED BY <1>1, <2>1, <2>2, <2>3 DEF ClientStep
<1>2. CASE MasterStep
  <2>1. ASSUME NEW c \in Conns, OnPsyncPartial(c) PROVE StoreInv'
    BY <1>0, <2>1, OnPsyncPartialStep, QuietStore
  <2>2. ASSUME NEW c \in Conns, OnPsyncFull(c) PROVE StoreInv'
    BY <1>0, <2>2, OnPsyncFullStep, QuietStore
  <2>3. ASSUME NEW c \in Conns, SendBacklog(c) PROVE StoreInv'
    BY <1>0, <2>3, SendBacklogStore
  <2>4. ASSUME FullsyncSaved PROVE StoreInv'
    BY <1>0, <2>4, FullsyncSavedStep, QuietStore
  <2>5. ASSUME FullsyncSaveFailed PROVE StoreInv'
    BY <1>0, <2>5, FullsyncSaveFailedStep, QuietStore
  <2>6. ASSUME DumpSaved PROVE StoreInv'
    BY <1>0, <2>6, DumpSavedStep, QuietStore
  <2> QED BY <1>2, <2>1, <2>2, <2>3, <2>4, <2>5, <2>6 DEF MasterStep
<1>3. CASE LinkStep
  <2>1. ASSUME NEW c \in Conns, MasterClose(c) PROVE StoreInv'
    BY <1>0, <2>1, MasterCloseStep, QuietStore
  <2> QED BY <1>3, <2>1, SlaveCloseStore, TryConnectStore DEF LinkStep
<1>4. CASE Restart
  BY <1>4, MasterRestartStore, SlaveRestartStore DEF Restart
<1>5. CASE \E c \in Conns : SlaveRead(c)
  BY <1>0, <1>5, SlaveReadStore
<1>6. CASE UNCHANGED vars
  <2>1. UNCHANGED <<masterVars, netVars, slaveVars, histVars>>
    BY <1>6 DEF vars
  <2>2. UNCHANGED <<masterVars, unfed, last_hole>>
    BY <2>1 DEF histVars
  <2>3. /\ data' = data /\ log' = log /\ replid' = replid /\ peer' = peer /\ chan' = chan
        /\ unfed' = unfed /\ last_hole' = last_hole /\ covers' = covers
        /\ loaded_gen' = loaded_gen /\ state' = state /\ repl_offset' = repl_offset
        /\ master_replid' = master_replid /\ sdata' = sdata
    BY <2>1 DEF masterVars, netVars, slaveVars, histVars
  <2>4. ASSUME NEW d \in Conns PROVE FlightFits(d)'
    BY <2>3 DEF StoreInv, FlightFits, Linked
  <2>5. ASSUME NEW s \in Slaves PROVE Replica(s)'
    BY <2>3 DEF StoreInv, Replica
  <2> QED BY <2>2, <2>4, <2>5, SlavesStore
<1> QED BY <1>1, <1>2, <1>3, <1>4, <1>5, <1>6 DEF Next

LEMMA StoreInvariant == Spec => [](LinkInv /\ StoreInv)
<1>1. Init => LinkInv /\ StoreInv
  BY LinkInvInit, StoreInvInit
<1>2. LinkInv /\ StoreInv /\ [Next]_vars => (LinkInv /\ StoreInv)'
  BY LinkInvNext, StoreInvNext
<1> QED BY <1>1, <1>2, PTL DEF Spec

(* Replication converges: a streaming slave that has read everything sent to *)
(* it holds exactly the master's keys and values, if the image it loaded was *)
(* forked at or after its cut and every write since the fork was fed to the  *)
(* backlog.  Replaying frames the image already contains, resuming at an     *)
(* offset after any number of broken links, and joining another slave's      *)
(* fullsync all keep this.                                                   *)
THEOREM CleanReplicasConverge == Spec => []CleanReplicaConverges
<1>1. LinkInv /\ StoreInv => CleanReplicaConverges
  <2> SUFFICES ASSUME LinkInv, StoreInv, NEW c \in Conns, NEW s \in Slaves,
                      covers[s], loaded_gen[s] = unfed,
                      peer[c] = s, Streaming(c), chan[c] = <<>>
               PROVE  sdata[s] = data
    BY DEF CleanReplicaConverges, Converged
  <2>1. /\ repl_offset[s] \in Nat /\ log \in Seq(FrameSet)
        /\ sdata[s] \in Store /\ data \in Store
    BY DEF LinkInv, TypeOK
  <2>2. Len(chan[c]) = Len(log) - repl_offset[s]
    BY StreamingOffset
  <2>3. repl_offset[s] = Len(log)
    <3>1. Len(chan[c]) = 0 /\ Len(log) \in Nat
      BY <2>1
    <3> QED BY <2>1, <2>2, <3>1
  <2>4. Follows(sdata[s], Len(log), log, data)
    BY <2>3 DEF StoreInv, Replica
  <2>5. ASSUME NEW k \in Keys PROVE sdata[s][k] = data[k]
    <3>1. Untouched(k, Len(log), log)
      BY <2>1 DEF Untouched
    <3> QED BY <2>4, <3>1 DEF Follows
  <2> QED BY <2>1, <2>5 DEF Store
<1> QED BY <1>1, StoreInvariant, PTL
=============================================================================
