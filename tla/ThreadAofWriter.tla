--------------------------- MODULE ThreadAofWriter ---------------------------
(***************************************************************************)
(* The AOF writer with a flush thread: the reactor thread enqueues frames  *)
(* into a bounded BlockingQueue, the flush thread pops them in batches,    *)
(* writes and syncs them.  The two share queue_, pending_, io_failed_ and  *)
(* the file.  One step is one critical section of a mutex or one access to *)
(* an atomic.                                                              *)
(*                                                                         *)
(* Frames are numbered by the Enqueue call that offers them.  A condition  *)
(* variable is its predicate: every wait in the code re-checks it under    *)
(* the mutex that guards each change, and each change that can make it     *)
(* true notifies.                                                          *)
(***************************************************************************)
EXTENDS Integers, Sequences

CONSTANTS
    kQueueCapacity,     \* frames the queue holds
    kMaxBatch,          \* frames the flush thread writes at once
    MaxFrames           \* bound: Enqueue calls

ASSUME AofAssumption ==
    /\ kQueueCapacity \in Nat \ {0}
    /\ kMaxBatch \in Nat \ {0}
    /\ MaxFrames \in Nat

VARIABLES
    fsync,          \* fsync_: the policy, fixed at construction
    queue,          \* queue_.queue_
    cancelled,      \* queue_.cancelled_
    pending,        \* pending_
    io_failed,      \* io_failed_
    stopped,        \* stopped_
    opened,         \* fp_ # nullptr
    dirty,          \* dirty_
    file,           \* frames written to the file
    durable,        \* of these, how many fdatasync has put on disk
    rpc,            \* where the reactor thread is
    tpc,            \* where the flush thread is
    batch,          \* the flush thread's batch[0..n-1]
    offered,        \* Enqueue calls so far
    accepted,       \* history: frames whose Enqueue returned true
    flushed         \* history: what the last Flush returned, if nothing since

queueVars == <<queue, cancelled>>
fileVars  == <<opened, dirty, file, durable>>
histVars  == <<offered, accepted, flushed>>
vars == <<fsync, queueVars, pending, io_failed, stopped, fileVars, rpc, tpc,
          batch, histVars>>

Init ==
    /\ fsync \in {"no", "everysec", "always"}
    /\ queue = <<>> /\ cancelled = FALSE /\ pending = 0
    /\ io_failed = FALSE /\ stopped = FALSE
    /\ opened = FALSE /\ dirty = FALSE /\ file = <<>> /\ durable = 0
    /\ rpc = "idle" /\ tpc = "wait" /\ batch = <<>>
    /\ offered = 0 /\ accepted = <<>> /\ flushed = "none"
-----------------------------------------------------------------------------
\* DecPendingN: clamped at zero
DecPendingN(n) == pending' = IF n >= pending THEN 0 ELSE pending - n

\* SyncFile returns ok; the caller holds file_mu_.  With nothing to sync it
\* returns true at once
SyncFile(ok) ==
    IF fsync # "no" /\ opened /\ dirty
    THEN /\ dirty' = ~ok
         /\ durable' = IF ok THEN Len(file) ELSE durable
    ELSE ok /\ UNCHANGED <<dirty, durable>>

PopFront == queue' = Tail(queue)
-----------------------------------------------------------------------------
(* The reactor thread: Enqueue, Flush and Stop *)

\* Enqueue: stopped_, io_failed_ or a cancelled queue refuse the frame
EnqueueCheck ==
    /\ rpc = "idle"
    /\ offered < MaxFrames
    /\ offered' = offered + 1
    /\ flushed' = "none"
    /\ rpc' = IF stopped \/ io_failed \/ cancelled THEN "idle" ELSE "inc"
    /\ UNCHANGED <<fsync, queueVars, pending, io_failed, stopped, fileVars, tpc,
                   batch, accepted>>

IncPending ==
    /\ rpc = "inc"
    /\ pending' = pending + 1
    /\ rpc' = "push"
    /\ UNCHANGED <<fsync, queueVars, io_failed, stopped, fileVars, tpc, batch,
                   histVars>>

\* BlockingQueue::Push: waits for room, refuses once cancelled
PushUnbounded ==                                                     \* (mutant)
    /\ rpc = "push"
    /\ IF cancelled
       THEN rpc' = "undo" /\ UNCHANGED <<queue, accepted>>
       ELSE rpc' = "idle" /\ queue' = Append(queue, offered)
            /\ accepted' = Append(accepted, offered)
    /\ UNCHANGED <<fsync, cancelled, pending, io_failed, stopped, fileVars, tpc,
                   batch, offered, flushed>>
Push ==
    /\ rpc = "push"
    /\ Len(queue) < kQueueCapacity \/ cancelled
    /\ IF cancelled
       THEN rpc' = "undo" /\ UNCHANGED <<queue, accepted>>
       ELSE rpc' = "idle" /\ queue' = Append(queue, offered)
            /\ accepted' = Append(accepted, offered)
    /\ UNCHANGED <<fsync, cancelled, pending, io_failed, stopped, fileVars, tpc,
                   batch, offered, flushed>>

\* the push was refused: Enqueue takes its count back and returns false
EnqueueUndoForgets ==                                                \* (mutant)
    /\ rpc = "undo"
    /\ rpc' = "idle"
    /\ UNCHANGED <<fsync, queueVars, pending, io_failed, stopped, fileVars, tpc,
                   batch, histVars>>
EnqueueUndo ==
    /\ rpc = "undo"
    /\ DecPendingN(1)
    /\ rpc' = "idle"
    /\ UNCHANGED <<fsync, queueVars, io_failed, stopped, fileVars, tpc, batch,
                   histVars>>

\* WalManager::Flush, or Stop, whose compare-exchange lets one call through
FlushCall ==
    /\ rpc = "idle" /\ ~stopped
    /\ rpc' = "drain"
    /\ UNCHANGED <<fsync, queueVars, pending, io_failed, stopped, fileVars, tpc,
                   batch, histVars>>

StopCall ==
    /\ rpc = "idle" /\ ~stopped
    /\ stopped' = TRUE
    /\ rpc' = "drain"
    /\ UNCHANGED <<fsync, queueVars, pending, io_failed, fileVars, tpc, batch,
                   histVars>>

\* Flush waits on drain_cv_ until nothing is pending
FlushDrainedQueue ==                                                 \* (mutant)
    /\ rpc = "drain" /\ queue = <<>>
    /\ rpc' = "check"
    /\ UNCHANGED <<fsync, queueVars, pending, io_failed, stopped, fileVars, tpc,
                   batch, histVars>>
FlushDrained ==
    /\ rpc = "drain" /\ pending = 0
    /\ rpc' = "check"
    /\ UNCHANGED <<fsync, queueVars, pending, io_failed, stopped, fileVars, tpc,
                   batch, histVars>>

AfterFlush == IF stopped THEN "cancel" ELSE "idle"

\* the rest of Flush: give up if I/O failed, else sync under file_mu_
FlushCheck ==
    /\ rpc = "check"
    /\ rpc' = IF io_failed THEN AfterFlush ELSE "sync"
    /\ flushed' = IF io_failed THEN "failed" ELSE flushed
    /\ UNCHANGED <<fsync, queueVars, pending, io_failed, stopped, fileVars, tpc,
                   batch, offered, accepted>>

FlushSync ==
    /\ rpc = "sync"
    /\ \E ok \in BOOLEAN : SyncFile(ok) /\ io_failed' = (io_failed \/ ~ok)
    /\ flushed' = IF io_failed' THEN "failed" ELSE "ok"
    /\ rpc' = AfterFlush
    /\ UNCHANGED <<fsync, queueVars, pending, stopped, opened, file, tpc, batch,
                   offered, accepted>>

\* the rest of Stop: cancel the queue, join the thread, close the file
StopCancel ==
    /\ rpc = "cancel"
    /\ cancelled' = TRUE
    /\ rpc' = "join"
    /\ UNCHANGED <<fsync, queue, pending, io_failed, stopped, fileVars, tpc,
                   batch, histVars>>

StopJoin ==
    /\ rpc = "join" /\ tpc = "done"
    /\ opened' = FALSE
    /\ rpc' = "stopped"
    /\ UNCHANGED <<fsync, queueVars, pending, io_failed, stopped, dirty, file,
                   durable, tpc, batch, histVars>>
-----------------------------------------------------------------------------
(* The flush thread: FlushLoop *)

\* PopWaitFor(&batch[0], 1s) got a frame
ThreadPop ==
    /\ tpc = "wait" /\ queue # <<>>
    /\ batch' = <<Head(queue)>> /\ PopFront
    /\ tpc' = "fill"
    /\ UNCHANGED <<fsync, cancelled, pending, io_failed, stopped, fileVars, rpc,
                   histVars>>

\* it timed out, or the queue is cancelled and empty
ThreadPopFails ==
    /\ tpc = "wait" /\ queue = <<>>
    /\ tpc' = "nothing"
    /\ UNCHANGED <<fsync, queueVars, pending, io_failed, stopped, fileVars, rpc,
                   batch, histVars>>

\* leave the loop when cancelled, else the everysec sync of an idle second
ThreadIdleNoSync ==                                                  \* (mutant)
    /\ tpc = "nothing"
    /\ tpc' = IF cancelled THEN "done" ELSE "wait"
    /\ UNCHANGED <<fsync, queueVars, pending, io_failed, stopped, fileVars, rpc,
                   batch, histVars>>
ThreadIdle ==
    /\ tpc = "nothing"
    /\ \/ /\ cancelled
          /\ tpc' = "done"
          /\ UNCHANGED <<cancelled, io_failed, dirty, durable>>
       \/ /\ ~cancelled /\ (fsync # "everysec" \/ io_failed)
          /\ tpc' = "wait"
          /\ UNCHANGED <<cancelled, io_failed, dirty, durable>>
       \/ /\ ~cancelled /\ fsync = "everysec" /\ ~io_failed
          /\ \E ok \in BOOLEAN :
                /\ SyncFile(ok)
                /\ io_failed' = ~ok
                /\ cancelled' = ~ok
          /\ tpc' = "wait"
    /\ UNCHANGED <<fsync, queue, pending, stopped, opened, file, rpc, batch,
                   histVars>>

\* PopWaitFor(&batch[n], 0ms) until the batch is full or the queue empty
ThreadFillOverwrites ==                                              \* (mutant)
    /\ tpc = "fill" /\ Len(batch) < kMaxBatch /\ queue # <<>>
    /\ batch' = <<Head(queue)>> /\ PopFront
    /\ UNCHANGED <<fsync, cancelled, pending, io_failed, stopped, fileVars, rpc,
                   tpc, histVars>>
ThreadFill ==
    /\ tpc = "fill" /\ Len(batch) < kMaxBatch /\ queue # <<>>
    /\ batch' = Append(batch, Head(queue)) /\ PopFront
    /\ UNCHANGED <<fsync, cancelled, pending, io_failed, stopped, fileVars, rpc,
                   tpc, histVars>>

ThreadFilled ==
    /\ tpc = "fill"
    /\ Len(batch) = kMaxBatch \/ queue = <<>>
    /\ tpc' = "check"
    /\ UNCHANGED <<fsync, queueVars, pending, io_failed, stopped, fileVars, rpc,
                   batch, histVars>>

\* a batch popped after a failure is thrown away
ThreadCheck ==
    /\ tpc = "check"
    /\ tpc' = IF io_failed THEN "dec" ELSE "write"
    /\ UNCHANGED <<fsync, queueVars, pending, io_failed, stopped, fileVars, rpc,
                   batch, histVars>>

\* under file_mu_: EnsureOpen, WriteBatch, MaybeSyncAfterBatch; everysec syncs
\* if a second has passed
ThreadWrite ==
    /\ tpc = "write"
    /\ opened' = TRUE
    /\ file' = file \o batch
    /\ tpc' = "dec"
    /\ \/ fsync # "no" /\ dirty' = FALSE /\ durable' = Len(file')
       \/ fsync # "always" /\ dirty' = TRUE /\ UNCHANGED durable
    /\ UNCHANGED <<fsync, queueVars, pending, io_failed, stopped, rpc, batch,
                   histVars>>

\* the open, a write (after some frames) or the sync fails
ThreadWriteFails ==
    /\ tpc = "write"
    /\ io_failed' = TRUE
    /\ tpc' = "faildec"
    /\ \/ ~opened /\ UNCHANGED fileVars
       \/ /\ opened' = TRUE
          /\ \E n \in 0..Len(batch) : file' = file \o SubSeq(batch, 1, n)
          /\ UNCHANGED <<dirty, durable>>
       \/ /\ fsync # "no"
          /\ opened' = TRUE /\ dirty' = TRUE /\ file' = file \o batch
          /\ UNCHANGED durable
    /\ UNCHANGED <<fsync, queueVars, pending, stopped, rpc, batch, histVars>>

ThreadDecOne ==                                                      \* (mutant)
    /\ tpc = "dec"
    /\ DecPendingN(1)
    /\ batch' = <<>>
    /\ tpc' = "wait"
    /\ UNCHANGED <<fsync, queueVars, io_failed, stopped, fileVars, rpc, histVars>>
ThreadDec ==
    /\ tpc = "dec"
    /\ DecPendingN(Len(batch))
    /\ batch' = <<>>
    /\ tpc' = "wait"
    /\ UNCHANGED <<fsync, queueVars, io_failed, stopped, fileVars, rpc, histVars>>

\* after a failure: count the batch down, cancel the queue, pop the rest
ThreadFailDec ==
    /\ tpc = "faildec"
    /\ DecPendingN(Len(batch))
    /\ batch' = <<>>
    /\ tpc' = "failcancel"
    /\ UNCHANGED <<fsync, queueVars, io_failed, stopped, fileVars, rpc, histVars>>

ThreadFailCancel ==
    /\ tpc = "failcancel"
    /\ cancelled' = TRUE
    /\ tpc' = "discard"
    /\ UNCHANGED <<fsync, queue, pending, io_failed, stopped, fileVars, rpc,
                   batch, histVars>>

\* Pop blocks while the queue is empty and not cancelled
ThreadDiscard ==
    /\ tpc = "discard"
    /\ \/ queue # <<>> /\ PopFront /\ tpc' = "discarddec"
       \/ queue = <<>> /\ cancelled /\ tpc' = "done" /\ UNCHANGED queue
    /\ UNCHANGED <<fsync, cancelled, pending, io_failed, stopped, fileVars, rpc,
                   batch, histVars>>

ThreadDiscardDec ==
    /\ tpc = "discarddec"
    /\ DecPendingN(1)
    /\ tpc' = "discard"
    /\ UNCHANGED <<fsync, queueVars, io_failed, stopped, fileVars, rpc, batch,
                   histVars>>
-----------------------------------------------------------------------------
Calls == EnqueueCheck \/ FlushCall \/ StopCall

ReactorStep == \/ IncPending \/ Push \/ EnqueueUndo \/ FlushDrained \/ FlushCheck
               \/ FlushSync \/ StopCancel \/ StopJoin

ThreadStep == \/ ThreadPop \/ ThreadPopFails \/ ThreadIdle \/ ThreadFill
              \/ ThreadFilled \/ ThreadCheck \/ ThreadWrite \/ ThreadWriteFails
              \/ ThreadDec \/ ThreadFailDec \/ ThreadFailCancel \/ ThreadDiscard
              \/ ThreadDiscardDec

Next == Calls \/ ReactorStep \/ ThreadStep

Spec == Init /\ [][Next]_vars

\* Both threads are scheduled; nothing makes the reactor call in.
FairSpec == Spec /\ WF_vars(ReactorStep) /\ WF_vars(ThreadStep)
-----------------------------------------------------------------------------
ReactorPlaces == {"idle", "inc", "push", "undo", "drain", "check", "sync",
                  "cancel", "join", "stopped"}
ThreadPlaces == {"wait", "nothing", "fill", "check", "write", "dec", "faildec",
                 "failcancel", "discard", "discarddec", "done"}

(* Types; the queue and the batch keep their capacities.                     *)
TypeOK ==
    /\ fsync \in {"no", "everysec", "always"}
    /\ queue \in Seq(Nat) /\ Len(queue) <= kQueueCapacity
    /\ cancelled \in BOOLEAN /\ pending \in Nat /\ io_failed \in BOOLEAN
    /\ stopped \in BOOLEAN /\ opened \in BOOLEAN /\ dirty \in BOOLEAN
    /\ file \in Seq(Nat) /\ durable \in Nat
    /\ rpc \in ReactorPlaces /\ tpc \in ThreadPlaces
    /\ batch \in Seq(Nat) /\ Len(batch) <= kMaxBatch
    /\ offered \in Nat /\ accepted \in Seq(Nat)
    /\ flushed \in {"none", "ok", "failed"}

(* Every accepted frame is, in order and once, in the file, in the flush     *)
(* thread's batch or in the queue; after an I/O failure the file is still a  *)
(* prefix of what was accepted.                                              *)
InBatch == IF tpc \in {"fill", "check", "write"} THEN batch ELSE <<>>

NoFrameLost ==
    IF io_failed
    THEN /\ Len(file) <= Len(accepted)
         /\ \A i \in 1..Len(file) : file[i] = accepted[i]
    ELSE accepted = file \o InBatch \o queue

(* pending_ counts the frames between IncPending and DecPending exactly: the *)
(* clamp of DecPendingN never hides a frame that was counted down twice, and *)
(* zero means that nothing is on its way.                                    *)
Counted == IF rpc \in {"push", "undo"} THEN 1 ELSE 0
Discarded == IF tpc = "discarddec" THEN 1 ELSE 0

PendingExact == pending = Len(queue) + Len(batch) + Counted + Discarded

(* A Flush that returns true has put every accepted frame into the file and, *)
(* unless the policy is no, on disk.                                         *)
FlushHonest ==
    flushed = "ok" => /\ file = accepted
                      /\ fsync # "no" => durable = Len(accepted)

(* No call of the reactor thread blocks for ever: a Push into a full queue,  *)
(* a Flush and a Stop return, whether or not I/O fails.                      *)
ReactorNeverStuck == []<>(rpc \in {"idle", "stopped"})

(* Under everysec what has been written is synced in the end, without        *)
(* further writes or a Flush.                                                *)
EverysecSyncs == (fsync = "everysec" /\ dirty) ~> (~dirty \/ io_failed)
=============================================================================
