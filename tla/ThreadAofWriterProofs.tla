------------------------ MODULE ThreadAofWriterProofs ------------------------
(***************************************************************************)
(* For every queue capacity and batch size: ThreadAofWriter loses and      *)
(* reorders no accepted frame, counts pending frames exactly, and a Flush  *)
(* that returns true tells the truth.                                      *)
(*                                                                         *)
(* None of the three is inductive.  The strengthening says where a batch   *)
(* can be (BatchShape), that the thread never writes after a failure       *)
(* (FailShape), that nobody counts up while a Flush runs or after it       *)
(* succeeded (DrainShape, FlushedShape), and what dirty_ means             *)
(* (SyncShape).                                                            *)
(***************************************************************************)
EXTENDS ThreadAofWriter, SequenceTheorems, TLAPS

BatchShape ==
    /\ tpc \in {"wait", "nothing", "failcancel", "discard", "discarddec", "done"}
         => batch = <<>>
    /\ tpc \in {"fill", "check", "write"} => batch # <<>>

FailShape ==
    /\ tpc \in {"faildec", "failcancel", "discard", "discarddec"} => io_failed
    /\ tpc = "write" => ~io_failed

DrainShape == rpc \in {"check", "sync"} => pending = 0

SyncShape ==
    /\ ~io_failed /\ ~dirty => durable = Len(file)
    /\ dirty /\ rpc # "stopped" => opened

FlushedShape ==
    flushed = "ok" => /\ pending = 0
                      /\ rpc \notin {"inc", "push", "undo"}
                      /\ file = accepted
                      /\ fsync # "no" => durable = Len(file)

Shapes == BatchShape /\ FailShape /\ DrainShape /\ SyncShape /\ FlushedShape

IInv == TypeOK /\ PendingExact /\ NoFrameLost /\ Shapes
-----------------------------------------------------------------------------
(* Sequences *)

(* Popping the head of a queue shortens it by one frame.                     *)
LEMMA PopHead ==
    ASSUME NEW q \in Seq(Nat), q # <<>>
    PROVE  /\ Head(q) \in Nat /\ Tail(q) \in Seq(Nat)
           /\ Len(Tail(q)) = Len(q) - 1 /\ Len(q) >= 1
           /\ q = <<Head(q)>> \o Tail(q)
<1>1. /\ Head(q) \in Nat /\ Tail(q) \in Seq(Nat) /\ Len(Tail(q)) = Len(q) - 1
      /\ \A i \in 1..Len(Tail(q)) : Tail(q)[i] = q[i + 1]
  BY HeadTailProperties
<1>2. Len(q) >= 1
  OBVIOUS
<1>3. /\ <<Head(q)>> \o Tail(q) \in Seq(Nat)
      /\ Len(<<Head(q)>> \o Tail(q)) = Len(q)
      /\ \A i \in 1..Len(q) : (<<Head(q)>> \o Tail(q))[i] =
                IF i <= 1 THEN <<Head(q)>>[i] ELSE Tail(q)[i - 1]
  <2>1. <<Head(q)>> \in Seq(Nat) /\ Len(<<Head(q)>>) = 1
    BY <1>1
  <2> QED BY <1>1, <1>2, <2>1, ConcatProperties
<1>4. \A i \in 1..Len(q) : (<<Head(q)>> \o Tail(q))[i] = q[i]
  BY <1>1, <1>2, <1>3
<1>5. q = <<Head(q)>> \o Tail(q)
  BY <1>3, <1>4, SeqEqual
<1> QED BY <1>1, <1>2, <1>5

(* Concatenation is associative.                                            *)
LEMMA Associative ==
    \A s, t, u \in Seq(Nat) : (s \o t) \o u = s \o (t \o u)
BY ConcatAssociative, SMTT(40)

(* Moving a frame or a batch from one place to the next keeps the order.     *)
LEMMA MoveFrames ==
    ASSUME NEW f \in Seq(Nat), NEW b \in Seq(Nat), NEW q \in Seq(Nat)
    PROVE  /\ q # <<>> => f \o b \o q = f \o Append(b, Head(q)) \o Tail(q)
           /\ q # <<>> => f \o <<>> \o q = f \o <<Head(q)>> \o Tail(q)
           /\ f \o b \o q = (f \o b) \o <<>> \o q
<1>1. f \o b \in Seq(Nat) /\ f \o b \o q \in Seq(Nat)
  BY ConcatProperties
<1>3. ASSUME q # <<>>
      PROVE  /\ f \o b \o q = f \o Append(b, Head(q)) \o Tail(q)
             /\ f \o <<>> \o q = f \o <<Head(q)>> \o Tail(q)
  <2>1. Head(q) \in Nat /\ Tail(q) \in Seq(Nat) /\ q = <<Head(q)>> \o Tail(q)
    BY <1>3, PopHead
  <2>0. <<Head(q)>> \in Seq(Nat)
    BY <2>1
  <2>2. PICK y \in Seq(Nat) : y = <<Head(q)>>
    BY <2>0, Zenon
  <2>3. PICK t \in Seq(Nat) : t = Tail(q)
    BY <2>1, Zenon
  <2>4. Append(b, Head(q)) = b \o <<Head(q)>>
    <3>1. PICK x \in Nat : x = Head(q)
      BY <2>1, Zenon
    <3>2. Append(b, x) = b \o <<x>>
      BY AppendIsConcat
    <3> QED BY <3>1, <3>2, Zenon
  <2>9. q = y \o t
    BY <2>1, <2>2, <2>3, Zenon
  <2>5. (f \o b) \o (y \o t) = ((f \o b) \o y) \o t
    <3>1. PICK fb \in Seq(Nat) : fb = f \o b
      BY <1>1, Zenon
    <3>2. (fb \o y) \o t = fb \o (y \o t)
      BY Associative
    <3> QED BY <3>1, <3>2
  <2>6. (f \o b) \o y = f \o (b \o y)
    BY Associative, SMTT(40)
  <2>7. f \o (y \o t) = (f \o y) \o t
    BY Associative, ZenonT(60)
  <2>8. f \o <<>> = f
    BY ConcatEmptySeq
  <2> QED BY <2>2, <2>3, <2>4, <2>5, <2>6, <2>7, <2>8, <2>9
<1>4. f \o b \o q = (f \o b) \o <<>> \o q
  BY <1>1, ConcatEmptySeq
<1> QED BY <1>3, <1>4

(* The same, with the three places named.                                    *)
Joined(f, b, q) == f \o b \o q
Plus(q, x) == Append(q, x)

LEMMA PushMoves ==
    ASSUME NEW f \in Seq(Nat), NEW b \in Seq(Nat), NEW q \in Seq(Nat), NEW x \in Nat
    PROVE  Plus(Joined(f, b, q), x) = Joined(f, b, Plus(q, x))
<1>0. f \o b \in Seq(Nat) /\ f \o b \o q \in Seq(Nat) /\ <<x>> \in Seq(Nat)
  BY ConcatProperties
<1>1. PICK y \in Seq(Nat) : y = <<x>>
  BY <1>0, Zenon
<1>2. Append(f \o b \o q, x) = (f \o b \o q) \o y /\ Append(q, x) = q \o y
  BY <1>0, <1>1, AppendIsConcat
<1>3. ((f \o b) \o q) \o y = (f \o b) \o (q \o y)
  <2>1. PICK fb \in Seq(Nat) : fb = f \o b
    BY <1>0, Zenon
  <2>2. (fb \o q) \o y = fb \o (q \o y)
    BY Associative
  <2> QED BY <2>1, <2>2
<1>4. Append(f \o b \o q, x) = f \o b \o Append(q, x)
  BY <1>2, <1>3
<1> QED BY <1>4, Zenon DEF Joined, Plus

LEMMA FillMoves ==
    ASSUME NEW f \in Seq(Nat), NEW b \in Seq(Nat), NEW q \in Seq(Nat), q # <<>>
    PROVE  Joined(f, b, q) = Joined(f, Append(b, Head(q)), Tail(q))
BY MoveFrames DEF Joined

LEMMA PopMoves ==
    ASSUME NEW f \in Seq(Nat), NEW q \in Seq(Nat), q # <<>>
    PROVE  Joined(f, <<>>, q) = Joined(f, <<Head(q)>>, Tail(q))
<1>1. <<>> \in Seq(Nat)
  OBVIOUS
<1> QED BY <1>1, MoveFrames DEF Joined

(* What is at the front of a concatenation is a prefix of it.                *)
LEMMA FrontIsPrefix ==
    ASSUME NEW f \in Seq(Nat), NEW b \in Seq(Nat), NEW q \in Seq(Nat),
           NEW n \in 0..Len(b)
    PROVE  /\ f \o SubSeq(b, 1, n) \in Seq(Nat)
           /\ Len(f \o SubSeq(b, 1, n)) <= Len(f \o b \o q)
           /\ \A i \in 1..Len(f \o SubSeq(b, 1, n)) :
                 (f \o SubSeq(b, 1, n))[i] = (f \o b \o q)[i]
<1> DEFINE s == SubSeq(b, 1, n)
<1>1. s \in Seq(Nat) /\ Len(s) = n /\ \A i \in 1..n : s[i] = b[i]
  OBVIOUS
<1>2. /\ f \o s \in Seq(Nat) /\ Len(f \o s) = Len(f) + n
      /\ \A i \in 1..(Len(f) + n) : (f \o s)[i] =
            IF i <= Len(f) THEN f[i] ELSE s[i - Len(f)]
  BY <1>1, ConcatProperties
<1>3. /\ f \o b \in Seq(Nat) /\ Len(f \o b) = Len(f) + Len(b)
      /\ \A i \in 1..(Len(f) + Len(b)) : (f \o b)[i] =
            IF i <= Len(f) THEN f[i] ELSE b[i - Len(f)]
  BY ConcatProperties
<1>4. /\ Len(f \o b \o q) = Len(f) + Len(b) + Len(q)
      /\ \A i \in 1..(Len(f) + Len(b)) : (f \o b \o q)[i] = (f \o b)[i]
  BY <1>3, ConcatProperties
<1> HIDE DEF s
<1>5. ASSUME NEW i \in 1..(Len(f) + n)
      PROVE  (f \o s)[i] = (f \o b \o q)[i]
  BY <1>1, <1>2, <1>3, <1>4, SMTT(40)
<1> QED BY <1>2, <1>4, <1>5 DEF s

(* The file is a prefix of file, batch and queue.                            *)
LEMMA HeadIsPrefix ==
    ASSUME NEW f \in Seq(Nat), NEW b \in Seq(Nat), NEW q \in Seq(Nat)
    PROVE  /\ Len(f) <= Len(f \o b \o q)
           /\ \A i \in 1..Len(f) : f[i] = (f \o b \o q)[i]
<1>1. /\ f \o b \in Seq(Nat) /\ Len(f \o b) = Len(f) + Len(b)
      /\ \A i \in 1..Len(f) : (f \o b)[i] = f[i]
  BY ConcatProperties
<1>2. /\ Len(f \o b \o q) = Len(f) + Len(b) + Len(q)
      /\ \A i \in 1..(Len(f) + Len(b)) : (f \o b \o q)[i] = (f \o b)[i]
  BY <1>1, ConcatProperties
<1> QED BY <1>1, <1>2
-----------------------------------------------------------------------------
(* The steps *)

(* The initial state satisfies the inductive invariant.                      *)
LEMMA InitIInv == Init => IInv
<1> SUFFICES ASSUME Init PROVE IInv
  OBVIOUS
<1> USE DEF Init
<1>1. TypeOK
  <2>1. <<>> \in Seq(Nat) /\ Len(<<>>) = 0
    OBVIOUS
  <2>2. 0 <= kQueueCapacity /\ 0 <= kMaxBatch
    BY AofAssumption
  <2>3. /\ rpc \in ReactorPlaces /\ tpc \in ThreadPlaces
        /\ flushed \in {"none", "ok", "failed"}
    BY DEF ReactorPlaces, ThreadPlaces
  <2> QED BY <2>1, <2>2, <2>3 DEF TypeOK
<1>2. PendingExact
  BY DEF PendingExact, Counted, Discarded
<1>3. NoFrameLost
  <2>1. <<>> \o <<>> \o <<>> = <<>>
    BY ConcatEmptySeq
  <2> QED BY <2>1 DEF NoFrameLost, InBatch
<1>4. Shapes
  BY DEF Shapes, BatchShape, FailShape, DrainShape, SyncShape, FlushedShape
<1> QED BY <1>1, <1>2, <1>3, <1>4 DEF IInv

(* The thread moves one frame from the queue into a batch with room for it.  *)
LEMMA FillStep ==
    ASSUME TypeOK, ThreadFill
    PROVE  /\ queue' \in Seq(Nat) /\ Len(queue') = Len(queue) - 1
           /\ batch' \in Seq(Nat) /\ Len(batch') = Len(batch) + 1 /\ batch' # <<>>
           /\ Len(queue') <= kQueueCapacity /\ Len(batch') <= kMaxBatch
<1>1. /\ queue \in Seq(Nat) /\ Len(queue) <= kQueueCapacity /\ batch \in Seq(Nat)
  BY DEF TypeOK
<1>2. queue # <<>> /\ queue' = Tail(queue) /\ Len(batch) < kMaxBatch
  BY DEF ThreadFill, PopFront
<1>3. /\ queue' \in Seq(Nat) /\ Len(queue') = Len(queue) - 1 /\ Len(queue) >= 1
      /\ Head(queue) \in Nat
  BY <1>1, <1>2, PopHead
<1>4. PICK h \in Nat : batch' = Append(batch, h)
  BY <1>3, Zenon DEF ThreadFill
<1>5. batch' \in Seq(Nat) /\ Len(batch') = Len(batch) + 1 /\ batch' # <<>>
  BY <1>1, <1>4, AppendProperties
<1>6. Len(queue') <= kQueueCapacity
  <2>1. Len(queue) \in Nat
    BY <1>1
  <2> QED BY <1>1, <1>3, <2>1, AofAssumption
<1>7. Len(batch') <= kMaxBatch
  <2>1. Len(batch) \in Nat
    BY <1>1
  <2> QED BY <1>2, <1>5, <2>1, AofAssumption
<1> QED BY <1>3, <1>5, <1>6, <1>7

(* Every step keeps the types, the count and the shapes.                     *)
LEMMA StepCount ==
    ASSUME IInv, [Next]_vars
    PROVE  TypeOK' /\ PendingExact' /\ Shapes'
<1> USE AofAssumption
    DEF IInv, TypeOK, PendingExact, Counted, Discarded, Shapes, BatchShape,
        FailShape, DrainShape, SyncShape, FlushedShape, ReactorPlaces,
        ThreadPlaces, queueVars, fileVars, histVars
<1>1. CASE EnqueueCheck
  BY <1>1 DEF EnqueueCheck
<1>2. CASE IncPending
  BY <1>2 DEF IncPending
<1>3. CASE Push
  <2>1. /\ Append(queue, offered) \in Seq(Nat)
        /\ Len(Append(queue, offered)) = Len(queue) + 1
        /\ Append(accepted, offered) \in Seq(Nat)
    BY AppendProperties
  <2>2. CASE cancelled
    BY <1>3, <2>2 DEF Push
  <2>3. CASE ~cancelled
    <3>1. /\ Len(queue) < kQueueCapacity /\ rpc = "push" /\ rpc' = "idle"
          /\ queue' = Append(queue, offered) /\ accepted' = Append(accepted, offered)
          /\ UNCHANGED <<fsync, cancelled, pending, io_failed, stopped, fileVars,
                         tpc, batch, offered, flushed>>
      BY <1>3, <2>3 DEF Push
    <3>11. TypeOK'
      BY <2>1, <3>1
    <3>12. PendingExact'
      BY <2>1, <3>1
    <3>13. Shapes'
      BY <2>1, <3>1
    <3> QED BY <3>11, <3>12, <3>13
  <2> QED BY <2>2, <2>3
<1>4. CASE EnqueueUndo
  <2>1. Len(queue) \in Nat /\ Len(batch) \in Nat
    OBVIOUS
  <2> QED BY <1>4, <2>1 DEF EnqueueUndo, DecPendingN
<1>5. CASE FlushCall
  BY <1>5 DEF FlushCall
<1>6. CASE StopCall
  BY <1>6 DEF StopCall
<1>7. CASE FlushDrained
  BY <1>7 DEF FlushDrained
<1>8. CASE FlushCheck
  BY <1>8 DEF FlushCheck, AfterFlush
<1>9. CASE FlushSync
  <2>1. /\ rpc = "sync" /\ pending = 0 /\ Len(queue) = 0 /\ Len(batch) = 0
    BY <1>9 DEF FlushSync
  <2>2. queue = <<>> /\ batch = <<>>
    BY <2>1
  <2>3. ~io_failed => file = accepted
    BY <2>2, ConcatEmptySeq DEF NoFrameLost, InBatch
  <2>4. PICK ok \in BOOLEAN : SyncFile(ok) /\ io_failed' = (io_failed \/ ~ok)
    BY <1>9 DEF FlushSync
  <2>5. /\ flushed' = IF io_failed' THEN "failed" ELSE "ok"
        /\ rpc' = IF stopped THEN "cancel" ELSE "idle"
        /\ UNCHANGED <<fsync, queueVars, pending, stopped, opened, file, tpc,
                       batch, offered, accepted>>
    BY <1>9 DEF FlushSync, AfterFlush
  <2>6. io_failed' \in BOOLEAN
    BY <2>4, Zenon
  <2>7. dirty' \in BOOLEAN /\ durable' \in Nat
    <3>1. dirty' = ~ok \/ dirty' = dirty
      BY <2>4 DEF SyncFile
    <3>2. durable' = Len(file) \/ durable' = durable
      BY <2>4 DEF SyncFile
    <3>3. dirty' \in BOOLEAN
      BY <3>1, Zenon
    <3> QED BY <3>2, <3>3
  <2>11. TypeOK'
    BY <2>5, <2>6, <2>7
  <2>12. PendingExact'
    BY <2>1, <2>5
  <2>13. Shapes'
    BY <2>1, <2>2, <2>3, <2>4, <2>5 DEF SyncFile
  <2> QED BY <2>11, <2>12, <2>13
<1>10. CASE StopCancel
  BY <1>10 DEF StopCancel
<1>11. CASE StopJoin
  BY <1>11 DEF StopJoin
<1>12. CASE ThreadPop
  <2>1. /\ queue' \in Seq(Nat) /\ Len(queue') = Len(queue) - 1 /\ Len(queue) >= 1
        /\ Head(queue) \in Nat
    BY <1>12, PopHead DEF ThreadPop, PopFront
  <2>2. batch' \in Seq(Nat) /\ Len(batch') = 1
    BY <1>12, <2>1 DEF ThreadPop
  <2>3. batch' # <<>>
    BY <1>12, <2>1 DEF ThreadPop
  <2>4. /\ tpc = "wait" /\ tpc' = "fill" /\ batch = <<>> /\ Len(batch) = 0
        /\ UNCHANGED <<fsync, cancelled, pending, io_failed, stopped, fileVars,
                       rpc, histVars>>
    BY <1>12 DEF ThreadPop
  <2>11. TypeOK'
    BY <2>1, <2>2, <2>4
  <2>12. PendingExact'
    BY <2>1, <2>2, <2>4
  <2>13. Shapes'
    BY <2>1, <2>3, <2>4
  <2> QED BY <2>11, <2>12, <2>13
<1>13. CASE ThreadPopFails
  BY <1>13 DEF ThreadPopFails
<1>14. CASE ThreadIdle
  <2>1. batch = <<>>
    BY <1>14 DEF ThreadIdle
  <2>11. TypeOK'
    BY <1>14 DEF ThreadIdle, SyncFile
  <2>12. PendingExact'
    BY <1>14, <2>1 DEF ThreadIdle, SyncFile
  <2>13. Shapes'
    BY <1>14, <2>1 DEF ThreadIdle, SyncFile
  <2> QED BY <2>11, <2>12, <2>13
<1>15. CASE ThreadFill
  <2>0. TypeOK
    OBVIOUS
  <2>3. /\ queue' \in Seq(Nat) /\ Len(queue') = Len(queue) - 1
        /\ batch' \in Seq(Nat) /\ Len(batch') = Len(batch) + 1 /\ batch' # <<>>
        /\ Len(queue') <= kQueueCapacity /\ Len(batch') <= kMaxBatch
    BY <1>15, <2>0, FillStep
  <2>4. /\ tpc = "fill" /\ tpc' = "fill"
        /\ UNCHANGED <<fsync, cancelled, pending, io_failed, stopped, fileVars,
                       rpc, histVars>>
    BY <1>15 DEF ThreadFill
  <2>11. TypeOK'
    BY <2>3, <2>4
  <2>12. PendingExact'
    BY <2>3, <2>4
  <2>13. Shapes'
    BY <2>3, <2>4
  <2> QED BY <2>11, <2>12, <2>13
<1>16. CASE ThreadFilled
  BY <1>16 DEF ThreadFilled
<1>17. CASE ThreadCheck
  BY <1>17 DEF ThreadCheck
<1>18. CASE ThreadWrite
  <2>1. Len(batch) >= 1 /\ flushed # "ok"
    BY <1>18 DEF ThreadWrite
  <2>2. file \o batch \in Seq(Nat) /\ Len(file \o batch) \in Nat
    BY ConcatProperties
  <2> QED BY <1>18, <2>1, <2>2 DEF ThreadWrite
<1>19. CASE ThreadWriteFails
  <2>1. Len(batch) >= 1 /\ flushed # "ok"
    BY <1>19 DEF ThreadWriteFails
  <2>2. file \o batch \in Seq(Nat)
    BY ConcatProperties
  <2>3. \A n \in 0..Len(batch) : file \o SubSeq(batch, 1, n) \in Seq(Nat)
    BY FrontIsPrefix
  <2>11. TypeOK'
    BY <1>19, <2>1, <2>2, <2>3 DEF ThreadWriteFails
  <2>12. PendingExact'
    BY <1>19, <2>1, <2>2, <2>3 DEF ThreadWriteFails
  <2>13. Shapes'
    BY <1>19, <2>1, <2>2, <2>3 DEF ThreadWriteFails
  <2> QED BY <2>11, <2>12, <2>13
<1>20. CASE ThreadDec
  <2>1. Len(queue) \in Nat /\ Len(batch) \in Nat
    OBVIOUS
  <2> QED BY <1>20, <2>1 DEF ThreadDec, DecPendingN
<1>21. CASE ThreadFailDec
  <2>1. Len(queue) \in Nat /\ Len(batch) \in Nat
    OBVIOUS
  <2> QED BY <1>21, <2>1 DEF ThreadFailDec, DecPendingN
<1>22. CASE ThreadFailCancel
  BY <1>22 DEF ThreadFailCancel
<1>23. CASE ThreadDiscard
  <2>1. CASE queue = <<>>
    BY <1>23, <2>1 DEF ThreadDiscard
  <2>2. CASE queue # <<>>
    <3>1. queue' \in Seq(Nat) /\ Len(queue') = Len(queue) - 1 /\ Len(queue) >= 1
      BY <1>23, <2>2, PopHead DEF ThreadDiscard, PopFront
    <3>2. /\ tpc = "discard" /\ tpc' = "discarddec"
          /\ UNCHANGED <<fsync, cancelled, pending, io_failed, stopped, fileVars,
                         rpc, batch, histVars>>
      BY <1>23, <2>2 DEF ThreadDiscard
    <3>11. TypeOK'
      BY <3>1, <3>2
    <3>12. PendingExact'
      BY <3>1, <3>2
    <3>13. Shapes'
      BY <3>1, <3>2
    <3> QED BY <3>11, <3>12, <3>13
  <2> QED BY <2>1, <2>2
<1>24. CASE ThreadDiscardDec
  <2>1. Len(queue) \in Nat /\ Len(batch) \in Nat
    OBVIOUS
  <2> QED BY <1>24, <2>1 DEF ThreadDiscardDec, DecPendingN
<1>25. CASE UNCHANGED vars
  BY <1>25 DEF vars
<1> QED BY <1>1, <1>2, <1>3, <1>4, <1>5, <1>6, <1>7, <1>8, <1>9, <1>10,
          <1>11, <1>12, <1>13, <1>14, <1>15, <1>16, <1>17, <1>18, <1>19,
          <1>20, <1>21, <1>22, <1>23, <1>24, <1>25
        DEF Next, Calls, ReactorStep, ThreadStep

(* Every step keeps the order of the frames.                                 *)
LEMMA StepFrames ==
    ASSUME IInv, [Next]_vars
    PROVE  NoFrameLost'
<1> DEFINE Prefix(f, a) == /\ Len(f) <= Len(a)
                           /\ \A i \in 1..Len(f) : f[i] = a[i]
<1>0. /\ queue \in Seq(Nat) /\ batch \in Seq(Nat) /\ file \in Seq(Nat)
      /\ accepted \in Seq(Nat) /\ offered \in Nat /\ InBatch \in Seq(Nat)
      /\ io_failed \in BOOLEAN
  BY DEF IInv, TypeOK, InBatch
<1>20. io_failed => Prefix(file, accepted)
  BY DEF IInv, NoFrameLost
<1>21. ~io_failed => accepted = file \o InBatch \o queue
  BY DEF IInv, NoFrameLost
<1>22. Prefix(file, accepted)
  <2>1. CASE io_failed
    BY <1>20, <2>1
  <2>2. CASE ~io_failed
    <3>1. Prefix(file, file \o InBatch \o queue)
      BY <1>0, HeadIsPrefix
    <3> QED BY <1>21, <2>2, <3>1
  <2> QED BY <2>1, <2>2
<1>23. ASSUME file' = file, accepted' = accepted, queue' = queue, InBatch' = InBatch,
             io_failed => io_failed'
      PROVE  NoFrameLost'
  <2>1. CASE io_failed'
    BY <1>22, <1>23, <2>1 DEF NoFrameLost
  <2>2. CASE ~io_failed'
    BY <1>21, <1>23, <2>2 DEF NoFrameLost
  <2> QED BY <2>1, <2>2
<1>24. ASSUME io_failed', Prefix(file', accepted')
      PROVE  NoFrameLost'
  BY <1>24 DEF NoFrameLost
<1>25. ASSUME ~io_failed', accepted' = file' \o InBatch' \o queue'
      PROVE  NoFrameLost'
  BY <1>25 DEF NoFrameLost
<1> HIDE DEF Prefix
<1> USE DEF queueVars, fileVars, histVars
<1>1. CASE EnqueueCheck \/ IncPending \/ EnqueueUndo \/ FlushCall \/ StopCall
  BY <1>1, <1>23 DEF EnqueueCheck, IncPending, EnqueueUndo, FlushCall, StopCall,
                    InBatch
<1>2. CASE FlushDrained \/ FlushCheck \/ StopCancel \/ StopJoin
  BY <1>2, <1>23 DEF FlushDrained, FlushCheck, StopCancel, StopJoin, InBatch
<1>13. CASE FlushSync
  <2>1. io_failed => io_failed'
    <3>1. PICK ok \in BOOLEAN : io_failed' = (io_failed \/ ~ok)
      BY <1>13 DEF FlushSync
    <3> QED BY <3>1, Zenon
  <2> QED BY <1>13, <1>23, <2>1 DEF FlushSync, InBatch
<1>3. CASE ThreadPopFails \/ ThreadIdle \/ ThreadFilled
  BY <1>3, <1>23 DEF ThreadPopFails, ThreadIdle, ThreadFilled, InBatch
<1>4. CASE ThreadDec \/ ThreadFailDec \/ ThreadFailCancel \/ ThreadDiscardDec
  BY <1>4, <1>23 DEF ThreadDec, ThreadFailDec, ThreadFailCancel, ThreadDiscardDec,
                    InBatch
<1>5. CASE ThreadCheck
  <2>1. CASE io_failed
    BY <1>5, <1>22, <1>24, <2>1 DEF ThreadCheck
  <2>2. CASE ~io_failed
    BY <1>5, <1>23, <2>2 DEF ThreadCheck, InBatch
  <2> QED BY <2>1, <2>2
<1>6. CASE Push
  <2>1. CASE cancelled
    BY <1>6, <1>23, <2>1 DEF Push, InBatch
  <2>2. CASE ~cancelled
    <3>1. /\ queue' = Append(queue, offered) /\ accepted' = Append(accepted, offered)
          /\ file' = file /\ InBatch' = InBatch /\ io_failed' = io_failed
      BY <1>6, <2>2 DEF Push, InBatch
    <3>2. CASE io_failed
      <4>1. Prefix(file, Append(accepted, offered))
        BY <1>0, <1>22, AppendProperties DEF Prefix
      <4> QED BY <1>24, <3>1, <3>2, <4>1
    <3>3. CASE ~io_failed
      <4>0. accepted = Joined(file, InBatch, queue)
        BY <1>21, <3>3 DEF Joined
      <4>1. Plus(Joined(file, InBatch, queue), offered)
            = Joined(file, InBatch, Plus(queue, offered))
        BY <1>0, PushMoves
      <4>2. accepted' = file' \o InBatch' \o queue'
        BY <3>1, <4>0, <4>1 DEF Joined, Plus
      <4> QED BY <1>25, <3>1, <3>3, <4>2
    <3> QED BY <3>2, <3>3
  <2> QED BY <2>1, <2>2
<1>7. CASE ThreadPop
  <2>1. /\ queue # <<>> /\ queue' = Tail(queue) /\ InBatch = <<>>
        /\ InBatch' = <<Head(queue)>> /\ file' = file /\ accepted' = accepted
        /\ io_failed' = io_failed
    BY <1>7 DEF ThreadPop, PopFront, InBatch
  <2>2. CASE io_failed
    BY <1>22, <1>24, <2>1, <2>2
  <2>3. CASE ~io_failed
    <3>0. accepted = Joined(file, <<>>, queue)
      BY <1>21, <2>1, <2>3 DEF Joined
    <3>1. Joined(file, <<>>, queue) = Joined(file, <<Head(queue)>>, Tail(queue))
      BY <1>0, <2>1, PopMoves
    <3>2. accepted' = file' \o InBatch' \o queue'
      BY <2>1, <3>0, <3>1 DEF Joined
    <3> QED BY <1>25, <2>1, <2>3, <3>2
  <2> QED BY <2>2, <2>3
<1>8. CASE ThreadFill
  <2>1. /\ queue # <<>> /\ queue' = Tail(queue) /\ InBatch = batch
        /\ InBatch' = Append(batch, Head(queue)) /\ file' = file
        /\ accepted' = accepted /\ io_failed' = io_failed
    BY <1>8 DEF ThreadFill, PopFront, InBatch
  <2>2. CASE io_failed
    BY <1>22, <1>24, <2>1, <2>2
  <2>3. CASE ~io_failed
    <3>0. accepted = Joined(file, batch, queue)
      BY <1>21, <2>1, <2>3 DEF Joined
    <3>1. Joined(file, batch, queue)
          = Joined(file, Append(batch, Head(queue)), Tail(queue))
      BY <1>0, <2>1, FillMoves
    <3>2. accepted' = file' \o InBatch' \o queue'
      BY <2>1, <3>0, <3>1 DEF Joined
    <3> QED BY <1>25, <2>1, <2>3, <3>2
  <2> QED BY <2>2, <2>3
<1>9. CASE ThreadWrite
  <2>1. /\ ~io_failed /\ io_failed' = io_failed /\ InBatch = batch
        /\ InBatch' = <<>> /\ queue' = queue /\ accepted' = accepted
        /\ file' = file \o batch
    BY <1>9 DEF ThreadWrite, InBatch, IInv, Shapes, FailShape
  <2>2. file \o batch \o queue = (file \o batch) \o <<>> \o queue
    BY <1>0, MoveFrames
  <2> QED BY <1>21, <1>25, <2>1, <2>2
<1>10. CASE ThreadWriteFails
  <2>1. /\ ~io_failed /\ io_failed' /\ InBatch = batch /\ accepted' = accepted
    BY <1>10 DEF ThreadWriteFails, InBatch, IInv, Shapes, FailShape
  <2>2. accepted = file \o batch \o queue
    BY <1>21, <2>1
  <2>3. \/ file' = file
        \/ \E n \in 0..Len(batch) : file' = file \o SubSeq(batch, 1, n)
        \/ file' = file \o batch
    BY <1>10 DEF ThreadWriteFails
  <2>4. /\ file \o batch = file \o SubSeq(batch, 1, Len(batch))
        /\ Len(batch) \in 0..Len(batch)
    <3>1. SubSeq(batch, 1, Len(batch)) = batch
      BY <1>0, SubSeqFull
    <3>2. Len(batch) \in 0..Len(batch)
      BY <1>0
    <3> QED BY <3>1, <3>2
  <2>5. ASSUME NEW n \in 0..Len(batch)
        PROVE  Prefix(file \o SubSeq(batch, 1, n), file \o batch \o queue)
    BY <1>0, FrontIsPrefix, ZenonT(60) DEF Prefix
  <2>6. Prefix(file', accepted)
    BY <1>22, <2>2, <2>3, <2>4, <2>5
  <2> QED BY <1>24, <2>1, <2>6
<1>11. CASE ThreadDiscard
  <2>1. io_failed /\ io_failed' = io_failed /\ file' = file /\ accepted' = accepted
    BY <1>11 DEF ThreadDiscard, IInv, Shapes, FailShape
  <2> QED BY <1>22, <1>24, <2>1
<1>12. CASE UNCHANGED vars
  BY <1>12, <1>23 DEF vars, InBatch
<1> QED BY <1>1, <1>2, <1>3, <1>4, <1>5, <1>6, <1>7, <1>8, <1>9, <1>10, <1>11,
          <1>12, <1>13 DEF Next, Calls, ReactorStep, ThreadStep
-----------------------------------------------------------------------------
(* IInv is an invariant of the specification.                                *)
LEMMA SpecIInv == Spec => []IInv
<1>1. IInv /\ [Next]_vars => IInv'
  BY StepCount, StepFrames DEF IInv
<1> QED BY <1>1, InitIInv, PTL DEF Spec

(* The queue and the batch keep their capacities, whatever the two threads   *)
(* do.                                                                       *)
THEOREM TypeCorrect == Spec => []TypeOK
<1>1. IInv => TypeOK
  BY DEF IInv
<1> QED BY <1>1, SpecIInv, PTL

(* pending_ is exact, whatever the two threads do: DecPendingN's clamp is    *)
(* never needed.                                                             *)
THEOREM PendingCorrect == Spec => []PendingExact
<1>1. IInv => PendingExact
  BY DEF IInv
<1> QED BY <1>1, SpecIInv, PTL

(* No frame that Enqueue accepted is lost, duplicated or reordered on its    *)
(* way to the file, and an I/O failure leaves a prefix of them there.        *)
THEOREM FramesCorrect == Spec => []NoFrameLost
<1>1. IInv => NoFrameLost
  BY DEF IInv
<1> QED BY <1>1, SpecIInv, PTL

(* When Flush returns true every accepted frame is in the file and, unless   *)
(* the policy is no, has been synced.                                        *)
THEOREM FlushCorrect == Spec => []FlushHonest
<1>1. IInv => FlushHonest
  BY DEF IInv, Shapes, FlushedShape, FlushHonest
<1> QED BY <1>1, SpecIInv, PTL
=============================================================================
