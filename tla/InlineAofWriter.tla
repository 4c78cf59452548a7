--------------------------- MODULE InlineAofWriter ---------------------------
(***************************************************************************)
(* InlineIoUringAofWriter: the AOF writer that runs in the reactor thread, *)
(* with an io_uring whose writes the kernel executes asynchronously.       *)
(*                                                                         *)
(* Abstractions.  The unit of data is a part of a frame: the units handed  *)
(* to the writer are numbered 1, 2, ... in the order of the commands, a    *)
(* frame is a run of consecutive units.  The file is opened with O_APPEND, *)
(* so a write goes to the end of the file whatever pw.offset says, and     *)
(* aof_offset_ has no effect.  A call of the writer is the sequence `todo` *)
(* of the steps it still has to take; the kernel may act between any two.  *)
(* Time: flush_due and sync_due say that flush_interval_ms_ since          *)
(* last_flush_ and a second since last_fsync_ have passed.                 *)
(***************************************************************************)
EXTENDS Integers, Sequences, SequencesExt

CONSTANTS
    Policies,       \* the fsync policies examined
    Sizes,          \* frame sizes, in units
    SoftFlush,      \* kSoftFlush
    HardCap,        \* kHardCap
    MaxPending,     \* kMaxPending
    RingEntries,    \* kRingEntries
    Ordered,        \* TRUE: the kernel executes writes in submission order
    ShortWrites,    \* TRUE: a write may be short
    MaxUnits,       \* bound: units appended to the buffer
    MaxSubmitFails, \* bound: io_uring_submit calls that fail
    MaxIoFails      \* bound: writes, waits and syncs that fail

ASSUME InlineAofAssumption ==
    /\ Policies \subseteq {"no", "everysec", "always"}
    /\ Sizes \subseteq Nat \ {0}
    /\ SoftFlush \in Nat \ {0} /\ HardCap \in Nat /\ SoftFlush <= HardCap
    /\ MaxPending \in Nat \ {0} /\ RingEntries \in Nat \ {0}
    /\ Ordered \in BOOLEAN /\ ShortWrites \in BOOLEAN
    /\ MaxUnits \in Nat /\ MaxSubmitFails \in Nat /\ MaxIoFails \in Nat

VARIABLES
    policy,         \* fsync_
    buf,            \* aof_buf_
    pending,        \* pending_: user_data, the units of buf, bytes_written
    next_ud,        \* next_user_data_
    dirty,          \* dirty_
    io_failed,      \* io_failed_
    stopped,        \* stopped_
    ring_inited,    \* ring_inited_ (and fd_ >= 0)
    flush_due,      \* now - last_flush_ >= flush_interval_ms_
    sync_due,       \* now - last_fsync_ >= 1 s
    awake,          \* the reactor is not in epoll_wait
    todo,           \* what is left of the call in progress
    \* the ring and the file
    sq,             \* SQEs prepared and not yet submitted
    inflight,       \* SQEs submitted and not yet executed
    cq,             \* completions not yet seen
    file,           \* units in the file
    synced,         \* units an fdatasync covered
    \* counters and history
    units,          \* units appended to the buffer so far
    acked,          \* the units of the frames Enqueue returned true for
    flushed,        \* result of the last Flush(): "none", "ok", "fail"
    submit_fails, io_fails

writerVars == <<policy, buf, pending, next_ud, dirty, io_failed, stopped,
                ring_inited, flush_due, sync_due>>
ringVars   == <<sq, inflight, cq, file>>
histVars   == <<units, acked, flushed, submit_fails, io_fails>>
vars == <<writerVars, awake, todo, ringVars, synced, histVars>>

\* A step of a call.  must: the call returns false when the step fails.
Op(name, must)  == [op |-> name, must |-> must, n |-> 0]
Must(name)      == Op(name, TRUE)
Try(name)       == Op(name, FALSE)
Arg(name, n)    == [op |-> name, must |-> TRUE, n |-> n]

At(name) == todo # <<>> /\ Head(todo).op = name
Done     == todo' = Tail(todo)

\* The step fails, and with it the call if it must not.  Stop() closes the
\* ring and the file in any case.
Fails == todo' = IF ~Head(todo).must THEN Tail(todo)
                 ELSE IF stopped THEN <<Must("close")>> ELSE <<>>

Garbage == 0
Upto(n) == [i \in 1..n |-> i]

-----------------------------------------------------------------------------

Init ==
    /\ policy \in Policies
    /\ buf = <<>> /\ pending = <<>> /\ next_ud = 1
    /\ dirty = FALSE /\ io_failed = FALSE /\ stopped = FALSE
    /\ ring_inited = TRUE
    /\ flush_due = FALSE /\ sync_due = FALSE
    /\ awake = FALSE /\ todo = <<>>
    /\ sq = <<>> /\ inflight = <<>> /\ cq = <<>> /\ file = <<>>
    /\ synced = {}
    /\ units = 0 /\ acked = {} /\ flushed = "none"
    /\ submit_fails = 0 /\ io_fails = 0

(***************************************************************************)
(* The calls.                                                              *)
(***************************************************************************)

SyncOps == IF policy = "always" THEN <<Must("sync")>> ELSE <<>>

\* A frame is appended whole, after a flush when it does not fit
Whole(size) ==
    LET full == Len(buf) + size > HardCap
        len  == IF full THEN size ELSE Len(buf) + size
    IN  (IF full THEN <<Must("flush")>> ELSE <<>>)
        \o <<Arg("append", size)>>
        \o (IF len >= SoftFlush \/ policy = "always"
            THEN <<Must("flush")>> ELSE <<>>)

\* Enqueue(frame)
Enqueue(size) ==
    /\ awake /\ todo = <<>>
    /\ ~stopped /\ ~io_failed
    /\ units + size <= MaxUnits
    /\ todo' = (IF size > HardCap THEN <<Must("flush"), Arg("pieces", size)>>
                ELSE Whole(size))
               \o SyncOps \o <<Arg("ack", size)>>
    /\ flushed' = "none"
    /\ UNCHANGED <<writerVars, awake, ringVars, synced, units, acked,
                   submit_fails, io_fails>>

\* Flush(), called through WalManager::Flush
Flush ==
    /\ awake /\ todo = <<>> /\ ~stopped
    /\ flushed' = IF io_failed THEN "fail" ELSE "none"
    /\ todo' = IF io_failed THEN <<>>
               ELSE <<Must("flush"), Must("drain"), Must("sync"),
                      Must("flushed")>>
    /\ UNCHANGED <<writerVars, awake, ringVars, synced,
                   units, acked, submit_fails, io_fails>>

\* Stop(): ~WalManager, when main() returns
Stop ==
    /\ awake /\ todo = <<>> /\ ~stopped
    /\ stopped' = TRUE
    /\ todo' = IF io_failed THEN <<Must("close")>>
               ELSE <<Must("flush"), Must("drain"), Must("sync"),
                      Must("flushed"), Must("close")>>
    /\ UNCHANGED <<policy, buf, pending, next_ud, dirty, io_failed,
                   ring_inited, flush_due, sync_due, awake, ringVars, synced,
                   histVars>>

\* Poll(), the idle callback, ends a round of the event loop
Poll ==
    /\ awake /\ todo = <<>>
    /\ awake' = FALSE
    /\ todo' = IF stopped \/ io_failed THEN <<>>
               ELSE <<Try("peek"), Try("poll")>>
    /\ UNCHANGED <<writerVars, ringVars, synced, histVars>>

\* epoll_wait returns: an event, never the writer, wakes the reactor
Wake ==
    /\ ~awake /\ todo = <<>>
    /\ awake' = TRUE
    /\ UNCHANGED <<writerVars, todo, ringVars, synced, histVars>>

-----------------------------------------------------------------------------

(***************************************************************************)
(* The steps of a call.                                                    *)
(***************************************************************************)

\* aof_buf_.append
DoAppend ==
    /\ At("append")
    /\ buf' = buf \o [i \in 1..Head(todo).n |-> units + i]
    /\ units' = units + Head(todo).n
    /\ Done
    /\ UNCHANGED <<policy, pending, next_ud, dirty, io_failed, stopped,
                   ring_inited, flush_due, sync_due, awake, ringVars, synced,
                   acked, flushed, submit_fails, io_fails>>

\* The loop over a frame above the hard cap: a piece of kSoftFlush, a flush
DoPiece ==
    /\ At("pieces")
    /\ LET left == Head(todo).n
           n    == IF left < SoftFlush THEN left ELSE SoftFlush
       IN  /\ buf' = buf \o [i \in 1..n |-> units + i]
           /\ units' = units + n
           /\ todo' = (IF n < left THEN <<Must("flush"), Arg("pieces", left - n)>>
                       ELSE <<Must("flush")>>) \o Tail(todo)
    /\ UNCHANGED <<policy, pending, next_ud, dirty, io_failed, stopped,
                   ring_inited, flush_due, sync_due, awake, ringVars, synced,
                   acked, flushed, submit_fails, io_fails>>

\* Enqueue returns true
Ack ==
    /\ At("ack")
    /\ acked' = acked \cup (units - Head(todo).n + 1)..units
    /\ Done
    /\ UNCHANGED <<writerVars, awake, ringVars, synced, units, flushed,
                   submit_fails, io_fails>>

\* FlushBuffer up to the prepared write
FlushBuffer ==
    /\ At("flush")
    /\ IF buf = <<>> THEN Done
       ELSE IF io_failed THEN Fails
       ELSE todo' = <<[Head(todo) EXCEPT !.op = "submit"]>> \o Tail(todo)
    /\ UNCHANGED <<writerVars, awake, ringVars, synced, histVars>>

NewSqe == [ud |-> next_ud, data |-> buf]

\* A submit that leaves the buffer as it was
SubmitKeepsBuffer ==
    /\ At("submit") /\ Len(pending) < MaxPending
    /\ pending' = Append(pending, [ud |-> next_ud, data |-> buf, written |-> 0])
    /\ inflight' = inflight \o Append(sq, NewSqe)
    /\ sq' = <<>>
    /\ next_ud' = next_ud + 1
    /\ buf' = buf
    /\ flush_due' = FALSE
    /\ Done
    /\ UNCHANGED <<policy, dirty, io_failed, stopped, ring_inited, sync_due,
                   awake, cq, file, synced, histVars>>

\* A submit that does not hold back when pending_ is full
SubmitUnbounded ==
    /\ At("submit")
    /\ pending' = Append(pending, [ud |-> next_ud, data |-> buf, written |-> 0])
    /\ inflight' = inflight \o Append(sq, NewSqe)
    /\ sq' = <<>>
    /\ next_ud' = next_ud + 1
    /\ buf' = <<>>
    /\ flush_due' = FALSE
    /\ Done
    /\ UNCHANGED <<policy, dirty, io_failed, stopped, ring_inited, sync_due,
                   awake, cq, file, synced, histVars>>

\* io_uring_submit succeeds: with the new write go those a failed submit left
Submit ==
    /\ At("submit") /\ Len(pending) < MaxPending
    /\ pending' = Append(pending, [ud |-> next_ud, data |-> buf, written |-> 0])
    /\ inflight' = inflight \o Append(sq, NewSqe)
    /\ sq' = <<>>
    /\ next_ud' = next_ud + 1
    /\ buf' = <<>>
    /\ flush_due' = FALSE
    /\ Done
    /\ UNCHANGED <<policy, dirty, io_failed, stopped, ring_inited, sync_due,
                   awake, cq, file, synced, histVars>>

\* io_uring_submit fails: the buffer is restored, the prepared SQE stays in
\* the submission queue (none is prepared when that queue is full)
SubmitFails ==
    /\ At("submit") /\ Len(pending) < MaxPending
    /\ submit_fails < MaxSubmitFails
    /\ submit_fails' = submit_fails + 1
    /\ IF Len(sq) < RingEntries
       THEN sq' = Append(sq, NewSqe) /\ next_ud' = next_ud + 1
       ELSE UNCHANGED <<sq, next_ud>>
    /\ Fails
    /\ UNCHANGED <<policy, buf, pending, dirty, io_failed, stopped,
                   ring_inited, flush_due, sync_due, awake, inflight, cq,
                   file, synced, units, acked, flushed, io_fails>>

\* SyncFile
Sync ==
    /\ At("sync")
    /\ IF policy # "no" /\ dirty
       THEN /\ synced' = synced \cup ToSet(file)
            /\ dirty' = FALSE /\ sync_due' = FALSE
       ELSE UNCHANGED <<synced, dirty, sync_due>>
    /\ Done
    /\ UNCHANGED <<policy, buf, pending, next_ud, io_failed, stopped,
                   ring_inited, flush_due, awake, ringVars, histVars>>

\* fdatasync fails; Flush() and Poll() give up on the file, Enqueue does not
SyncFails ==
    /\ At("sync") /\ policy # "no" /\ dirty
    /\ io_fails < MaxIoFails
    /\ io_fails' = io_fails + 1
    /\ io_failed' = (io_failed \/ ~awake
                     \/ \E i \in DOMAIN todo : todo[i].op = "flushed")
    /\ Fails
    /\ UNCHANGED <<policy, buf, pending, next_ud, dirty, stopped, ring_inited,
                   flush_due, sync_due, awake, ringVars, synced, units, acked,
                   flushed, submit_fails>>

\* Flush() returns !io_failed_
FlushReturns ==
    /\ At("flushed")
    /\ flushed' = IF io_failed THEN "fail" ELSE "ok"
    /\ Done
    /\ UNCHANGED <<writerVars, awake, ringVars, synced, units, acked,
                   submit_fails, io_fails>>

\* A Poll() that leaves the flush to the sync
PollDueNoFlush ==
    /\ At("poll")
    /\ todo' = <<Try("pollsync")>>
    /\ UNCHANGED <<writerVars, awake, ringVars, synced, histVars>>

\* The second half of Poll()
PollDue ==
    /\ At("poll")
    /\ todo' = (IF buf # <<>> /\ flush_due THEN <<Try("flush")>> ELSE <<>>)
               \o <<Try("pollsync")>>
    /\ UNCHANGED <<writerVars, awake, ringVars, synced, histVars>>

PollSync ==
    /\ At("pollsync")
    /\ todo' = IF policy = "everysec" /\ dirty /\ sync_due
               THEN <<Try("flush"), Try("drain"), Try("sync")>> ELSE <<>>
    /\ UNCHANGED <<writerVars, awake, ringVars, synced, histVars>>

\* The end of Stop()
Close ==
    /\ At("close")
    /\ ring_inited' = FALSE
    /\ pending' = <<>>
    /\ inflight' = <<>> /\ sq' = <<>> /\ cq' = <<>>
    /\ Done
    /\ UNCHANGED <<policy, buf, next_ud, dirty, io_failed, stopped, flush_due,
                   sync_due, awake, file, synced, histVars>>

-----------------------------------------------------------------------------

(***************************************************************************)
(* PeekCompletions, one completion at a time.                              *)
(***************************************************************************)

\* PeekCompletions runs: in Poll(), in WaitForPendingSlot when pending_ is
\* full, in DrainPending until pending_ is empty
Peeking == \/ At("peek")
           \/ At("submit") /\ Len(pending) >= MaxPending
           \/ At("drain") /\ pending # <<>>

FindPending(ud) == {i \in DOMAIN pending : pending[i].ud = ud}

\* A completion for no pending write: the SQE a failed submit left behind
PeekUnknown ==
    /\ Peeking /\ cq # <<>> /\ FindPending(Head(cq).ud) = {}
    /\ cq' = Tail(cq)
    /\ UNCHANGED <<writerVars, awake, todo, sq, inflight, file, synced,
                   histVars>>

\* An error completion that is only counted as done
PeekErrorForgets ==
    /\ Peeking /\ cq # <<>>
    /\ \E i \in FindPending(Head(cq).ud) :
        /\ Head(cq).res < 0
        /\ pending' = RemoveAt(pending, i)
    /\ cq' = Tail(cq)
    /\ UNCHANGED <<policy, buf, next_ud, dirty, io_failed, stopped,
                   ring_inited, flush_due, sync_due, awake, todo, sq,
                   inflight, file, synced, histVars>>

\* res < 0: io_failed_
PeekError ==
    /\ Peeking /\ cq # <<>>
    /\ \E i \in FindPending(Head(cq).ud) :
        /\ Head(cq).res < 0
        /\ io_failed' = TRUE
        /\ pending' = RemoveAt(pending, i)
    /\ cq' = Tail(cq)
    /\ UNCHANGED <<policy, buf, next_ud, dirty, stopped, ring_inited,
                   flush_due, sync_due, awake, todo, sq, inflight, file,
                   synced, histVars>>

Rest(pw, k) == SubSeq(pw.data, pw.written + k + 1, Len(pw.data))

\* A short write after which the whole write is submitted again
PeekShortWhole ==
    /\ Peeking /\ cq # <<>>
    /\ \E i \in FindPending(Head(cq).ud) :
        LET k == Head(cq).res
        IN  /\ k > 0 /\ Rest(pending[i], k) # <<>>
            /\ pending' = [pending EXCEPT ![i].written = 0]
            /\ inflight' = inflight \o Append(sq,
                   [ud |-> pending[i].ud, data |-> pending[i].data])
    /\ sq' = <<>>
    /\ cq' = Tail(cq)
    /\ UNCHANGED <<policy, buf, next_ud, dirty, io_failed, stopped,
                   ring_inited, flush_due, sync_due, awake, todo, file,
                   synced, histVars>>

\* 0 < res < rest: the rest is submitted again
PeekShort ==
    /\ Peeking /\ cq # <<>>
    /\ \E i \in FindPending(Head(cq).ud) :
        LET k == Head(cq).res
        IN  /\ k > 0 /\ Rest(pending[i], k) # <<>>
            /\ pending' = [pending EXCEPT ![i].written = @ + k]
            /\ inflight' = inflight \o Append(sq,
                   [ud |-> pending[i].ud, data |-> Rest(pending[i], k)])
    /\ sq' = <<>>
    /\ cq' = Tail(cq)
    /\ UNCHANGED <<policy, buf, next_ud, dirty, io_failed, stopped,
                   ring_inited, flush_due, sync_due, awake, todo, file,
                   synced, histVars>>

\* The same, and io_uring_submit fails
PeekShortFails ==
    /\ Peeking /\ cq # <<>> /\ submit_fails < MaxSubmitFails
    /\ \E i \in FindPending(Head(cq).ud) :
        LET k == Head(cq).res
        IN  /\ k > 0 /\ Rest(pending[i], k) # <<>>
            /\ pending' = RemoveAt(pending, i)
            /\ sq' = IF Len(sq) < RingEntries
                     THEN Append(sq, [ud |-> pending[i].ud,
                                      data |-> Rest(pending[i], k)])
                     ELSE sq
    /\ io_failed' = TRUE
    /\ submit_fails' = submit_fails + 1
    /\ cq' = Tail(cq)
    /\ UNCHANGED <<policy, buf, next_ud, dirty, stopped, ring_inited,
                   flush_due, sync_due, awake, todo, inflight, file, synced,
                   units, acked, flushed, io_fails>>

\* A completion that does not set dirty_
PeekCompleteClean ==
    /\ Peeking /\ cq # <<>>
    /\ \E i \in FindPending(Head(cq).ud) :
        /\ Head(cq).res > 0 /\ Rest(pending[i], Head(cq).res) = <<>>
        /\ pending' = RemoveAt(pending, i)
    /\ cq' = Tail(cq)
    /\ UNCHANGED <<policy, buf, next_ud, dirty, io_failed, stopped,
                   ring_inited, flush_due, sync_due, awake, todo, sq,
                   inflight, file, synced, histVars>>

\* The write is complete
PeekComplete ==
    /\ Peeking /\ cq # <<>>
    /\ \E i \in FindPending(Head(cq).ud) :
        /\ Head(cq).res > 0 /\ Rest(pending[i], Head(cq).res) = <<>>
        /\ pending' = RemoveAt(pending, i)
    /\ dirty' = TRUE
    /\ cq' = Tail(cq)
    /\ UNCHANGED <<policy, buf, next_ud, io_failed, stopped, ring_inited,
                   flush_due, sync_due, awake, todo, sq, inflight, file,
                   synced, histVars>>

\* Poll() saw all completions; DrainPending emptied pending_
PeekDone ==
    /\ \/ At("peek") /\ cq = <<>>
       \/ At("drain") /\ pending = <<>>
    /\ Done
    /\ UNCHANGED <<writerVars, awake, ringVars, synced, histVars>>

\* io_uring_wait_cqe fails, or the retries are used up.  Flush() then gives
\* up on the file; FlushBuffer and Poll() only return.
WaitFails ==
    /\ \/ At("submit") /\ Len(pending) >= MaxPending
       \/ At("drain") /\ pending # <<>>
    /\ io_fails < MaxIoFails
    /\ io_fails' = io_fails + 1
    /\ io_failed' = (io_failed \/ (At("drain") /\ Head(todo).must))
    /\ Fails
    /\ UNCHANGED <<policy, buf, pending, next_ud, dirty, stopped, ring_inited,
                   flush_due, sync_due, awake, ringVars, synced, units, acked,
                   flushed, submit_fails>>

-----------------------------------------------------------------------------

(***************************************************************************)
(* The kernel and the clock.                                               *)
(***************************************************************************)

\* What the memory of SQE e holds.  Nobody keeps the buffer of an SQE without
\* a pending write alive.
Contents(e) ==
    {e.data} \cup (IF FindPending(e.ud) = {}
                   THEN {[i \in 1..Len(e.data) |-> Garbage]} ELSE {})

\* The kernel executes the i-th write in flight: the first k units go to the
\* end of the file
KernelWrite(i, k) ==
    /\ i \in DOMAIN inflight /\ (Ordered => i = 1)
    /\ k \in 1..Len(inflight[i].data)
    /\ ShortWrites \/ k = Len(inflight[i].data)
    /\ \E d \in Contents(inflight[i]) : file' = file \o SubSeq(d, 1, k)
    /\ cq' = Append(cq, [ud |-> inflight[i].ud, res |-> k])
    /\ inflight' = RemoveAt(inflight, i)
    /\ UNCHANGED <<writerVars, awake, todo, sq, synced, histVars>>

KernelError(i) ==
    /\ i \in DOMAIN inflight /\ (Ordered => i = 1)
    /\ io_fails < MaxIoFails
    /\ io_fails' = io_fails + 1
    /\ cq' = Append(cq, [ud |-> inflight[i].ud, res |-> -1])
    /\ inflight' = RemoveAt(inflight, i)
    /\ UNCHANGED <<writerVars, awake, todo, sq, file, synced, units, acked,
                   flushed, submit_fails>>

FlushDue == /\ ~flush_due /\ flush_due' = TRUE
            /\ UNCHANGED <<policy, buf, pending, next_ud, dirty, io_failed,
                           stopped, ring_inited, sync_due, awake, todo,
                           ringVars, synced, histVars>>

SyncDue == /\ ~sync_due /\ sync_due' = TRUE
           /\ UNCHANGED <<policy, buf, pending, next_ud, dirty, io_failed,
                          stopped, ring_inited, flush_due, awake, todo,
                          ringVars, synced, histVars>>

Kernel == \E i \in 1..MaxUnits : \E k \in 1..MaxUnits : KernelWrite(i, k)

Peek == PeekUnknown \/ PeekError \/ PeekShort \/ PeekComplete \/ PeekDone

Step == \/ DoAppend \/ DoPiece \/ Ack \/ FlushBuffer \/ Submit \/ Sync
        \/ FlushReturns \/ PollDue \/ PollSync \/ Close \/ Peek

Next == \/ \E size \in Sizes : Enqueue(size)
        \/ Flush \/ Stop \/ Poll \/ Wake
        \/ Step
        \/ SubmitFails \/ SyncFails \/ PeekShortFails \/ WaitFails
        \/ Kernel
        \/ \E i \in 1..MaxUnits : KernelError(i)
        \/ FlushDue \/ SyncDue

\* A call that was started goes on, the kernel executes what it was given,
\* time passes, and a round of the loop ends with Poll().  No event is
\* assumed to arrive.
Fairness == WF_vars(Step) /\ WF_vars(Kernel) /\ WF_vars(FlushDue)
            /\ WF_vars(SyncDue) /\ SF_vars(Poll)

Spec == Init /\ [][Next]_vars /\ Fairness

-----------------------------------------------------------------------------

InBuffers == ToSet(buf) \cup UNION {ToSet(Rest(pending[i], 0)) : i \in DOMAIN pending}

TypeOK ==
    /\ policy \in Policies
    /\ buf \in Seq(1..MaxUnits) /\ Len(buf) <= HardCap
    /\ Len(pending) <= MaxPending
    /\ Len(sq) <= RingEntries
    /\ {dirty, io_failed, stopped, ring_inited, flush_due, sync_due, awake}
           \subseteq BOOLEAN
    /\ file \in Seq(0..MaxUnits)
    /\ synced \subseteq 0..MaxUnits /\ acked \subseteq 1..MaxUnits
    /\ units \in 0..MaxUnits
    /\ flushed \in {"none", "ok", "fail"}

\* As long as the writer does not report a failure, what was handed to it is
\* in the file, or in memory the writer will still write: short writes,
\* completions in any order, failed submits and full queues lose nothing.
NoUnitLost ==
    (~io_failed /\ ring_inited) => 1..units \subseteq ToSet(file) \cup InBuffers

\* Unless an io_uring_submit failed, no unit is in the file twice and nothing
\* else is in it: what a short write left is submitted again once and no more
\* than it, in whatever order the kernel executes and completes the writes,
\* and also when waits, syncs and writes fail.  (A submit that fails leaves
\* the write both in the ring and in the buffer, and the file gets it twice.)
NoUnitTwice ==
    submit_fails = 0 => IsInjective(file) /\ Garbage \notin ToSet(file)

\* Flush() returns true only when every unit handed over is in the file and,
\* unless the policy is no, an fdatasync followed the write.
FlushHonest ==
    flushed = "ok" => /\ 1..units \subseteq ToSet(file)
                      /\ policy # "no" => 1..units \subseteq synced

\* The file is the concatenation of the write commands in their order
\* (docs/Persist/Aof.md, On-disk format).
FileIsStream == file = Upto(Len(file))

Settled(u) ==
    \/ io_failed \/ stopped
    \/ IF policy = "everysec" THEN u \in synced ELSE u \in ToSet(file)

\* As long as events keep waking the reactor, Poll() brings every accepted
\* frame to the file, and under everysec to the disk.
PollSettles ==
    []<>awake => \A u \in 1..MaxUnits : (u \in acked) ~> Settled(u)
=============================================================================
