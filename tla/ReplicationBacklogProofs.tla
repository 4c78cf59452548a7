---------------------- MODULE ReplicationBacklogProofs ----------------------
(***************************************************************************)
(* Proofs about the replication backlog, for every capacity and every set  *)
(* of frames.  The inductive invariant is TypeOK /\ RingHolds: the ring's   *)
(* slots hold the retained suffix of the stream at the place the offset    *)
(* arithmetic of CopyRange expects it.                                     *)
(***************************************************************************)
EXTENDS ReplicationBacklog, TLAPS

(* The slot a positions further on, for positions less than two turns.      *)
W(a) == IF a < Cap THEN a ELSE a - Cap

(* Concatenation, byte by byte.                                             *)
LEMMA ConcatBytes ==
    ASSUME NEW S, NEW s \in Seq(S), NEW t \in Seq(S)
    PROVE  /\ s \o t \in Seq(S)
           /\ Len(s \o t) = Len(s) + Len(t)
           /\ \A i \in 1..Len(s) : (s \o t)[i] = s[i]
           /\ \A i \in 1..Len(t) : (s \o t)[Len(s) + i] = t[i]
OBVIOUS

(* One reduction modulo the capacity: a position less than two turns away   *)
(* from slot 0 is itself or itself minus one turn.                          *)
LEMMA ModWrap ==
    ASSUME NEW c \in Nat \ {0}, NEW a \in 0..(2*c - 1)
    PROVE  a % c = IF a < c THEN a ELSE a - c
<1>1. CASE a < c
  BY <1>1
<1>2. CASE a >= c
  BY <1>2
<1> QED BY <1>1, <1>2

(* The loop of DropToMakeSpace is left after one pass: what one pass drops  *)
(* always makes room for the frame or empties the ring.                     *)
LEMMA DropOnce ==
    ASSUME
           NEW used \in 0..Cap, NEW need \in 1..Cap
    PROVE  /\ DropBytes(used, need) \in 0..used
           /\ used - DropBytes(used, need) + need <= Cap
           /\ DropBytes(used - DropBytes(used, need), need) = 0
BY BacklogAssumption DEF DropBytes, Min2, Max2

(* What the copy loop of AppendBytes leaves in the ring: the frame from     *)
(* slot pos on, wrapping, and every other slot as it was.                   *)
LEMMA AppendBytesSlots ==
    ASSUME
           NEW b \in [0..Cap-1 -> Byte], NEW pos \in 0..Cap-1,
           NEW frame \in Seq(Byte), Len(frame) <= Cap
    PROVE  /\ AppendBytes(b, pos, frame) \in [0..Cap-1 -> Byte]
           /\ \A i \in 0..Len(frame)-1 :
                 AppendBytes(b, pos, frame)[W(pos + i)] = frame[i+1]
           /\ \A i \in Len(frame)..Cap-1 :
                 AppendBytes(b, pos, frame)[W(pos + i)] = b[W(pos + i)]
BY BacklogAssumption DEF AppendBytes, Min2, W

IInv == TypeOK /\ RingHolds

LEMMA InitIInv == Init => IInv
BY BacklogAssumption DEF Init, IInv, TypeOK, RingHolds

LEMMA OversizedIInv ==
    ASSUME IInv, NEW frame \in Frames,
           FeedEncoded(frame), FeedOversized(frame)
    PROVE  IInv'
<1>1. /\ frame \in Seq(Byte) /\ stream \in Seq(Byte) /\ Len(stream) = tip
      /\ stream' = stream \o frame /\ tip' = tip + Len(frame) /\ base' = tip'
      /\ tip \in Nat /\ head' = 0 /\ buf' = buf
  BY BacklogAssumption DEF FeedEncoded, FeedOversized, IInv, TypeOK
<1>2. stream' \in Seq(Byte) /\ Len(stream') = tip'
  BY <1>1, ConcatBytes
<1>3. TypeOK'
  BY BacklogAssumption, <1>1, <1>2 DEF IInv, TypeOK
<1>4. base'..(tip' - 1) = {}
  BY <1>1
<1> QED BY <1>3, <1>4 DEF IInv, RingHolds

LEMMA FittingIInv ==
    ASSUME IInv, NEW frame \in Frames,
           FeedEncoded(frame), FeedFitting(frame)
    PROVE  IInv'
<1> DEFINE n == Len(frame)
           used == tip - base
           drop == DropBytes(used, n)
           pos == (head' + (tip - base')) % Cap
<1>1. /\ frame \in Seq(Byte) /\ n \in 1..Cap /\ used \in 0..Cap
      /\ Cap \in Nat \ {0} /\ head \in 0..Cap-1 /\ base \in Nat /\ tip \in Nat
  BY BacklogAssumption DEF FeedEncoded, FeedFitting, IInv, TypeOK
<1>2. drop \in 0..used /\ used - drop + n <= Cap
  BY <1>1, DropOnce
<1>3. /\ base' = base + drop /\ tip' = tip + n
      /\ head' = W(head + drop) /\ head' \in 0..Cap-1
  <2> HIDE DEF drop
  <2>1. head + drop \in 0..(2*Cap - 1)
    BY <1>1, <1>2
  <2>2. (head + drop) % Cap = W(head + drop)
    BY <1>1, <2>1, ModWrap DEF W
  <2>3. head' = (head + drop) % Cap /\ base' = base + drop /\ tip' = tip + n
    BY DEF FeedFitting, drop
  <2> QED BY <1>1, <1>2, <2>1, <2>2, <2>3 DEF W
<1> HIDE DEF drop
<1>4. pos = W(head' + used - drop) /\ pos \in 0..Cap-1
  <2>1. head' + (tip - base') \in 0..(2*Cap - 1)
    BY <1>1, <1>2, <1>3
  <2>2. pos = W(head' + (tip - base'))
    BY <1>1, <2>1, ModWrap DEF W
  <2> QED BY <1>1, <1>2, <1>3, <2>1, <2>2 DEF W
<1>5. buf' = AppendBytes(buf, pos, frame)
  BY DEF FeedFitting
<1> HIDE DEF pos
<1>6. /\ buf' \in [0..Cap-1 -> Byte]
      /\ \A i \in 0..n-1 : buf'[W(pos + i)] = frame[i+1]
      /\ \A i \in n..Cap-1 : buf'[W(pos + i)] = buf[W(pos + i)]
  <2>1. buf \in [0..Cap-1 -> Byte]
    BY DEF IInv, TypeOK
  <2> QED BY <1>1, <1>4, <1>5, <2>1, AppendBytesSlots
<1>7. /\ stream' \in Seq(Byte) /\ Len(stream') = tip'
      /\ \A o \in 0..tip-1 : stream'[o+1] = stream[o+1]
      /\ \A o \in tip..tip'-1 : stream'[o+1] = frame[o - tip + 1]
  <2>1. stream \in Seq(Byte) /\ Len(stream) = tip /\ stream' = stream \o frame
    BY DEF FeedEncoded, IInv, TypeOK
  <2>2. /\ \A i \in 1..tip : stream'[i] = stream[i]
        /\ \A i \in 1..n : stream'[tip + i] = frame[i]
        /\ stream' \in Seq(Byte) /\ Len(stream') = tip + n
    <3>1. /\ \A i \in 1..Len(stream) : (stream \o frame)[i] = stream[i]
          /\ \A i \in 1..Len(frame) : (stream \o frame)[Len(stream) + i] = frame[i]
          /\ (stream \o frame) \in Seq(Byte)
          /\ Len(stream \o frame) = Len(stream) + Len(frame)
      <4>1. frame \in Seq(Byte) /\ stream \in Seq(Byte)
        BY <2>1, <1>1
      <4> QED BY <4>1
    <3> QED BY <3>1, <2>1, Zenon
  <2> HIDE DEF n
  <2>3. ASSUME NEW o \in tip..tip'-1
        PROVE  stream'[o+1] = frame[o - tip + 1]
    <3>1. o - tip + 1 \in 1..n /\ tip + (o - tip + 1) = o + 1
      BY <1>1, <1>3
    <3> QED BY <3>1, <2>2
  <2>4. ASSUME NEW o \in 0..tip-1
        PROVE  stream'[o+1] = stream[o+1]
    <3>1. o + 1 \in 1..tip
      BY <1>1
    <3> QED BY <3>1, <2>2
  <2> QED BY <1>3, <2>2, <2>3, <2>4
<1>8. TypeOK'
  BY <1>1, <1>2, <1>3, <1>6, <1>7 DEF TypeOK
<1>9. ASSUME NEW o \in base'..tip'-1
      PROVE  buf'[(o - base' + head') % Cap] = stream'[o+1]
  <2>1. o \in Int /\ o - base' + head' \in 0..(2*Cap - 1)
    BY <1>1, <1>2, <1>3
  <2>2. (o - base' + head') % Cap = W(o - base' + head')
    BY <1>1, <2>1, ModWrap DEF W
  <2>3. CASE o >= tip
    <3>1. o - tip \in 0..n-1
      BY <2>3, <2>1, <1>1, <1>3
    <3>2. W(o - base' + head') = W(pos + (o - tip))
      BY <2>3, <3>1, <2>1, <1>1, <1>2, <1>3, <1>4 DEF W
    <3>3. buf'[W(pos + (o - tip))] = frame[(o - tip) + 1]
      BY <3>1, <1>6
    <3>4. o \in tip..tip'-1
      BY <2>3, <2>1, <1>1, <1>3
    <3>5. stream'[o+1] = frame[(o - tip) + 1]
      BY <3>4, <1>7
    <3> QED BY <3>2, <3>3, <3>5, <2>2
  <2>4. CASE o < tip
    <3> DEFINE i == Cap - (used - drop) + (o - base')
    <3>1. o \in base..tip-1 /\ i \in n..Cap-1
      BY <2>4, <2>1, <1>1, <1>2, <1>3
    <3>2. W(pos + i) = W(o - base' + head')
      BY <2>4, <2>1, <3>1, <1>1, <1>2, <1>3, <1>4 DEF W
    <3>3. W(o - base' + head') = W(o - base + head)
      BY <2>4, <2>1, <3>1, <1>1, <1>2, <1>3 DEF W
    <3>4. (o - base + head) % Cap = W(o - base + head)
      <4>1. o - base + head \in 0..(2*Cap - 1)
        BY <3>1, <1>1
      <4> QED BY <4>1, <1>1, ModWrap DEF W
    <3>5. buf[W(o - base + head)] = stream[o+1]
      BY <3>1, <3>4 DEF IInv, RingHolds
    <3> HIDE DEF i
    <3>6. buf'[W(pos + i)] = buf[W(pos + i)]
      BY <3>1, <1>6
    <3> QED BY <3>1, <3>2, <3>3, <3>5, <3>6, <2>2, <1>1, <1>7
  <2> QED BY <2>1, <2>3, <2>4, <1>1
<1> QED BY <1>8, <1>9 DEF IInv, RingHolds

(* The ring never holds more than its capacity and its slots hold exactly   *)
(* the retained suffix of the stream (FeedEncoded, DropToMakeSpace,         *)
(* AppendBytes), for every capacity and every sequence of frames.           *)
THEOREM RingCorrect == Spec => [](TypeOK /\ RingHolds)
<1>1. Init => IInv
  BY InitIInv
<1>2. ASSUME IInv, [Next]_vars
      PROVE  IInv'
  <2>1. CASE UNCHANGED vars
    BY <1>2, <2>1 DEF vars, IInv, TypeOK, RingHolds
  <2>2. CASE Next
    <3> PICK frame \in Frames : FeedEncoded(frame)
      BY <2>2 DEF Next
    <3> QED BY <1>2, OversizedIInv, FittingIInv DEF FeedEncoded
  <2> QED BY <1>2, <2>1, <2>2
<1>3. IInv => TypeOK /\ RingHolds
  BY DEF IInv
<1> QED BY <1>1, <1>2, <1>3, PTL DEF Spec

(* CopyRange between two retained offsets returns exactly the bytes fed     *)
(* between them.                                                            *)
LEMMA IInvCopyRange == IInv => CopyRangeFaithful
<1> SUFFICES ASSUME IInv, NEW s \in base..tip, NEW e \in base..tip, s <= e,
                    NEW i \in 1..(e - s)
             PROVE  CopyRange(s, e)[i] = stream[s+i]
  <2>1. \A s, e \in base..tip : s <= e => Len(CopyRange(s, e)) = e - s
    BY DEF CopyRange, IInv, TypeOK
  <2> QED BY <2>1 DEF CopyRangeFaithful
<1> DEFINE off == (s - base + head) % Cap
           o == s + i - 1
<1>1. /\ Cap \in Nat \ {0} /\ head \in 0..Cap-1 /\ base \in Nat /\ tip \in Nat
      /\ tip - base <= Cap /\ s \in Int /\ e \in Int /\ i \in Int
  BY BacklogAssumption DEF IInv, TypeOK
<1>2. s < tip /\ s < e /\ e <= tip /\ base <= s /\ o \in base..tip-1 /\ o + 1 = s + i
  BY <1>1
<1>3. off = W(s - base + head) /\ off \in 0..Cap-1
  <2>1. s - base + head \in 0..(2*Cap - 1)
    BY <1>1, <1>2
  <2>2. off = W(s - base + head)
    BY <2>1, <1>1, ModWrap DEF W
  <2> HIDE DEF off
  <2> QED BY <2>1, <2>2, <1>1 DEF W
<1>4. (o - base + head) % Cap = W(o - base + head)
  <2>1. o - base + head \in 0..(2*Cap - 1)
    BY <1>1, <1>2
  <2> QED BY <2>1, <1>1, ModWrap DEF W
<1>5. buf[W(o - base + head)] = stream[s+i]
  BY <1>2, <1>4 DEF IInv, RingHolds
<1>6. CopyRange(s, e)[i] = IF i <= Min2(e - s, Cap - off) THEN buf[off + i - 1]
                           ELSE buf[i - Min2(e - s, Cap - off) - 1]
  BY DEF CopyRange
<1> HIDE DEF off
<1>7. CASE i <= Min2(e - s, Cap - off)
  <2>1. off + i - 1 = W(o - base + head)
    BY <1>1, <1>2, <1>3, <1>7 DEF W, Min2
  <2> QED BY <1>5, <1>6, <1>7, <2>1
<1>8. CASE ~(i <= Min2(e - s, Cap - off))
  <2>1. i - Min2(e - s, Cap - off) - 1 = W(o - base + head)
    BY <1>1, <1>2, <1>3, <1>8 DEF W, Min2
  <2> QED BY <1>5, <1>6, <1>8, <2>1
<1> QED BY <1>7, <1>8

(* The catch-up sent to a resyncing slave is the stream it missed, however  *)
(* often the ring wrapped, dropped or was emptied by an oversized frame.    *)
THEOREM CopyRangeCorrect == Spec => []CopyRangeFaithful
<1>1. Spec => []IInv
  BY RingCorrect, PTL DEF IInv
<1> QED BY <1>1, IInvCopyRange, PTL

(* A feed drops retained bytes only when they and the frame exceed the      *)
(* capacity; a frame that fits the ring then drops at most the larger of    *)
(* its own length and an eighth of the ring (DropToMakeSpace).              *)
THEOREM DropsOnlyOnOverflow == Spec => NoEarlyDrop
<1>1. Spec => []IInv
  BY RingCorrect, PTL DEF IInv
<1>2. ASSUME IInv, [Next]_vars
      PROVE  [base' # base =>
                /\ tip' - base > Cap
                /\ tip' - tip <= Cap =>
                      base' - base <= Max2(tip' - tip, Cap \div 8)]_vars
  <2> SUFFICES ASSUME NEW frame \in Frames, FeedEncoded(frame), base' # base
               PROVE  /\ tip' - base > Cap
                      /\ tip' - tip <= Cap =>
                            base' - base <= Max2(tip' - tip, Cap \div 8)
    BY <1>2 DEF Next
  <2>1. Len(frame) \in Nat /\ base \in Nat /\ tip \in Nat /\ base <= tip /\ Cap \in Nat
    BY <1>2, BacklogAssumption DEF IInv, TypeOK
  <2>2. CASE FeedOversized(frame)
    BY <2>1, <2>2 DEF FeedOversized
  <2>3. CASE FeedFitting(frame)
    BY <2>1, <2>3 DEF FeedFitting, DropBytes, Min2, Max2
  <2> QED BY <2>2, <2>3 DEF FeedEncoded
<1> QED BY <1>1, <1>2, PTL DEF Spec, NoEarlyDrop
=============================================================================
