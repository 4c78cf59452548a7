----------------------------- MODULE Replication -----------------------------
(***************************************************************************)
(* PSYNC master/slave replication: the master (ReplicationMaster with the  *)
(* fork-based SnapshotManager it drives), the slaves (ReplicationSlave)    *)
(* and the TCP connections between them.                                   *)
(*                                                                         *)
(* Abstractions.  A write command frame is one unit of the replication     *)
(* stream, so offsets count frames; ReplicationBacklog models the byte     *)
(* ring and proves that CopyRange returns the stream, which is why the     *)
(* backlog is here the log of the frames fed and the offset base of the    *)
(* oldest one retained.  The n-th client write stores the value n, 0 is    *)
(* "no such key".  Every read callback runs to the end of the bytes that   *)
(* have arrived, which may be any prefix of what was sent, so consuming    *)
(* one item of a connection per step yields the same states.               *)
(*                                                                         *)
(* A connection has two ends.  Each end closes by itself (ForceClose, a    *)
(* reset, a process exit) and the other end notices later: what it has not *)
(* yet read is then lost, because TcpConn::HandleRead closes on EOF        *)
(* without running the read callback.                                      *)
(***************************************************************************)
EXTENDS Integers, Sequences, FiniteSets

CONSTANTS
    Slaves,         \* slave processes
    NoSlave,        \* no slave at this end of a connection
    Conns,          \* connections (the fds of the master's conns_ map)
    Keys,           \* keys of the store
    Cap,            \* frames the backlog ring holds
    OutputLimit,    \* kReplicaOutputLimit, in unsent frames
    Oversized,      \* TRUE \in Oversized: frames larger than the ring occur
    MaxWrites,      \* bound: client writes
    MaxBreaks,      \* bound: connections reset while both ends are open
    MaxSaves,       \* bound: client SAVEs
    MaxIoFails,     \* bound: failing forks, saves, file opens, loads, appends
    MaxRestarts     \* bound: process restarts

ASSUME ReplicationAssumption ==
    /\ NoSlave \notin Slaves
    /\ IsFiniteSet(Conns)
    /\ Cap \in Nat \ {0}
    /\ OutputLimit \in Nat
    /\ Oversized \subseteq BOOLEAN /\ FALSE \in Oversized
    /\ MaxWrites \in Nat /\ MaxBreaks \in Nat /\ MaxSaves \in Nat
    /\ MaxIoFails \in Nat /\ MaxRestarts \in Nat

VARIABLES
    \* master process
    data,               \* the stores: key -> number of the write it holds
    log,                \* frames fed to the backlog since the process started
    base,               \* backlog_.base_: frames log[base+1..] are retained
    replid,             \* replid_, numbered by master process
    reg,                \* slaves_[fd].state, "none" when not registered
    start,              \* slaves_[fd].backlog_start
    file,               \* the snapshot a connection's sendfile has open
    fullsync_active,    \* fullsync_active_
    fullsync_start,     \* fullsync_backlog_start_
    save_started,       \* save_started_for_fullsync_
    child,              \* the SAVE child: path and the forked image
    \* connections
    mopen,              \* the master's end is open (fd is in conns_)
    peer,               \* the slave whose end is open
    psync,              \* PSYNC sent and not yet read by the master
    chan,               \* what the master sent and the slave has not read
    \* slave processes
    state,              \* state_
    repl_offset,        \* repl_offset_
    have_offset,        \* have_offset_
    master_replid,      \* master_replid_, 0 when empty
    sdata,              \* the slave's stores
    backlog_remaining,  \* backlog_remaining_
    \* counters of the bounds
    writes, breaks, saves, iofails, restarts,
    \* history
    unfed,              \* writes that were not appended to the backlog
    last_hole,          \* offset at which the last of them happened, or -1
    covers,             \* the slave loaded an image that covers its cut offset
    loaded_gen          \* unfed writes that image contains

masterVars == <<data, log, base, replid, reg, start, file, fullsync_active,
                fullsync_start, save_started, child>>
netVars    == <<mopen, peer, psync, chan>>
slaveVars  == <<state, repl_offset, have_offset, master_replid, sdata,
                backlog_remaining>>
boundVars  == <<writes, breaks, saves, iofails, restarts>>
histVars   == <<unfed, last_hole, covers, loaded_gen>>
vars       == <<masterVars, netVars, slaveVars, boundVars, histVars>>

tip == Len(log)
-----------------------------------------------------------------------------
(* Data *)

Store == [Keys -> Nat]
EmptyStore == [k \in Keys |-> 0]

Frame(k, v)        == [t |-> "frame", key |-> k, val |-> v]
FrameSet           == [t : {"frame"}, key : Keys, val : Nat]
Continue           == [t |-> "continue"]
FullResync(id, o)  == [t |-> "fullresync", replid |-> id, off |-> o]
BulkHeader(n)      == [t |-> "bulk", n |-> n]
RdbBody(img)       == [t |-> "rdb", img |-> img]
ErrLine            == [t |-> "err"]

\* an RDB image: the stores, and (history) the offset and the number of unfed
\* writes at the fork
Image      == [data : Store, pos : Nat, gen : Nat]
ImageNow   == [data |-> data, pos |-> tip, gen |-> unfed]
NoImage    == [data |-> EmptyStore, pos |-> 0, gen |-> 0]
NoChild    == [path |-> "none", img |-> NoImage]

Message ==
    FrameSet \cup {Continue, ErrLine}
    \cup [t : {"fullresync"}, replid : Nat, off : Nat]
    \cup [t : {"bulk"}, n : Nat]
    \cup [t : {"rdb"}, img : Image]

\* PSYNC <replid> <offset>; <<0, -1>> stands for "PSYNC ? -1"
NoPsync == <<>>
Request == Nat \X (Nat \cup {-1})

\* the stores after ApplyMutation(kAofReplay) of the frames fs in order: SET
\* and DEL of a key leave what the last frame of that key says
FirstOf(I) == CHOOSE i \in I : \A j \in I : i <= j     \* (mutant)
LastOf(I) == CHOOSE i \in I : \A j \in I : j <= i
ApplyAll(d, fs) ==
    [k \in Keys |->
        LET I == {i \in DOMAIN fs : fs[i].key = k}
        IN  IF I = {} THEN d[k] ELSE fs[LastOf(I)].val]

States == {"kInit", "kWaitFullresync", "kRecvRdbHeader", "kRecvRdbBody",
           "kRecvBacklogHeader", "kRecvBacklogBody", "kStreaming", "kError"}

Init ==
    /\ data = EmptyStore /\ log = <<>> /\ base = 0 /\ replid = 1
    /\ reg = [c \in Conns |-> "none"]
    /\ start = [c \in Conns |-> 0]
    /\ file = [c \in Conns |-> NoImage]
    /\ fullsync_active = FALSE /\ fullsync_start = 0 /\ save_started = FALSE
    /\ child = NoChild
    /\ mopen = [c \in Conns |-> FALSE]
    /\ peer = [c \in Conns |-> NoSlave]
    /\ psync = [c \in Conns |-> NoPsync]
    /\ chan = [c \in Conns |-> <<>>]
    /\ state = [s \in Slaves |-> "kInit"]
    /\ repl_offset = [s \in Slaves |-> 0]
    /\ have_offset = [s \in Slaves |-> FALSE]
    /\ master_replid = [s \in Slaves |-> 0]
    /\ sdata = [s \in Slaves |-> EmptyStore]
    /\ backlog_remaining = [s \in Slaves |-> 0]
    /\ writes = 0 /\ breaks = 0 /\ saves = 0 /\ iofails = 0 /\ restarts = 0
    /\ unfed = 0 /\ last_hole = -1
    /\ covers = [s \in Slaves |-> FALSE]
    /\ loaded_gen = [s \in Slaves |-> 0]
-----------------------------------------------------------------------------
(* Helpers of the master *)

Retained(o)   == base <= o /\ o <= tip          \* backlog_.Contains
GapFromShort(o) == SubSeq(log, o + 1, tip - 1)   \* (mutant)
GapFrom(o)    == SubSeq(log, o + 1, tip)        \* backlog_.CopyRange(o, tip)

\* base_ after one more frame: an oversized frame empties the ring
BaseAfterFeedTwice(big) ==                                             \* (mutant)
    IF big THEN tip + 2
    ELSE IF tip + 1 - base > Cap THEN tip + 1 - Cap ELSE base
BaseAfterFeed(big) ==
    IF big THEN tip + 1
    ELSE IF tip + 1 - base > Cap THEN tip + 1 - Cap ELSE base

\* only synced slaves are pushed to; the others get the frame in their bulk
PushedTo(c) == reg[c] = "kSynced"

InFullsync(x) == x \in {"kWaitRdb", "kSendingRdb"}
AnyActive(r)  == \E c \in Conns : InFullsync(r[c])
HasSlaves     == \E c \in Conns : reg[c] # "none"

\* TcpConn::Send; nothing arrives once the slave has closed its end
Send(ch, c, ms) == [ch EXCEPT ![c] = IF peer[c] = NoSlave THEN @ ELSE @ \o ms]

\* slaves_.erase of the registrations C
Erase(r, C) == [c \in Conns |-> IF c \in C THEN "none" ELSE r[c]]

\* fullsync_active_ after RemoveSlave left the registrations r
ActiveAfterRemove(r, act, ss) == act /\ (AnyActive(r) \/ ss)

\* "-ERR fullsync save failed" to every waiter, all of them dropped
DropWaiters(r) ==
    /\ reg' = [c \in Conns |-> IF r[c] = "kWaitRdb" THEN "none" ELSE r[c]]
    /\ chan' = [c \in Conns |-> IF r[c] = "kWaitRdb" /\ peer[c] # NoSlave
                                THEN Append(chan[c], ErrLine) ELSE chan[c]]
    /\ fullsync_active' = FALSE

\* StartFullsyncIfNeeded past its early returns: align the waiters, then wait
\* for the running save, fork a fullsync save, or fail to fork
StartFullsync(r, st, act, ch) ==
    LET cut == IF act THEN fullsync_start ELSE tip
    IN  /\ fullsync_start' = cut
        /\ start' = [c \in Conns |-> IF r[c] = "kWaitRdb" THEN cut ELSE st[c]]
        /\ \/ /\ ch.path # "none"
              /\ child' = ch /\ save_started' = FALSE
              /\ reg' = r /\ chan' = chan /\ fullsync_active' = TRUE
              /\ iofails' = iofails
           \/ /\ ch.path = "none"
              /\ child' = [path |-> "fullsync", img |-> ImageNow]
              /\ save_started' = TRUE
              /\ reg' = r /\ chan' = chan /\ fullsync_active' = TRUE
              /\ iofails' = iofails
           \/ /\ ch.path = "none"
              /\ iofails < MaxIoFails
              /\ iofails' = iofails + 1
              /\ child' = ch /\ save_started' = FALSE
              /\ DropWaiters(r)

\* StartFullsyncIfNeeded with the values its caller has assigned so far
StartFullsyncIfNeeded(r, st, act, ss, ch) ==
    IF ss \/ \A c \in Conns : r[c] # "kWaitRdb"
    THEN /\ reg' = r /\ start' = st /\ fullsync_active' = act
         /\ save_started' = ss /\ child' = ch
         /\ UNCHANGED <<fullsync_start, chan, iofails>>
    ELSE StartFullsync(r, st, act, ch)
-----------------------------------------------------------------------------
(* Client commands at the master *)

\* FeedEncodedFrame: append to the ring, push to every synced slave, kick the
\* synced slaves over the output limit and the waiters the ring left behind
FeedEncodedFrame(f, big) ==
    /\ log' = Append(log, f)
    /\ base' = BaseAfterFeed(big)
    /\ LET pushed == [c \in Conns |->
                        IF PushedTo(c) /\ peer[c] # NoSlave
                        THEN Append(chan[c], f) ELSE chan[c]]
           slow   == {c \in Conns : reg[c] = "kSynced" /\ Len(pushed[c]) > OutputLimit}
           lost   == {c \in Conns : InFullsync(reg[c]) /\ start[c] < base'}
           toldso == {c \in lost : reg[c] = "kWaitRdb" /\ peer[c] # NoSlave}
       IN  \E kick \in SUBSET slow :
             LET drop == lost \cup kick
             IN  /\ chan' = [c \in Conns |-> IF c \in toldso
                                             THEN Append(chan[c], ErrLine)
                                             ELSE pushed[c]]
                 /\ mopen' = [c \in Conns |-> mopen[c] /\ c \notin drop]
                 /\ reg' = Erase(reg, drop)
                 /\ file' = [c \in Conns |-> IF c \in drop THEN NoImage ELSE file[c]]
                 /\ fullsync_active' =
                        IF drop = {} THEN fullsync_active
                        ELSE ActiveAfterRemove(reg', fullsync_active, save_started)
    /\ UNCHANGED histVars

\* history of a write that ApplyMutation does not hand to the backlog
LeaveHole ==
    /\ unfed' = unfed + 1
    /\ last_hole' = tip
    /\ UNCHANGED <<covers, loaded_gen>>
    /\ UNCHANGED <<log, base, chan, mopen, reg, file, fullsync_active>>

\* the end of ApplyMutation(kClient) once the store is changed: append to the
\* AOF, which may fail, and feed the backlog if a slave is registered
Propagate(f) ==
    \/ /\ HasSlaves
       /\ \E big \in Oversized : FeedEncodedFrame(f, big)
       /\ UNCHANGED iofails
    \/ /\ ~HasSlaves
       /\ LeaveHole
       /\ UNCHANGED iofails
    \/ /\ iofails < MaxIoFails          \* "aof append failed"
       /\ iofails' = iofails + 1
       /\ LeaveHole

Write(k, v) ==
    /\ writes < MaxWrites
    /\ writes' = writes + 1
    /\ data' = [data EXCEPT ![k] = v]
    /\ Propagate(Frame(k, v))
    /\ UNCHANGED <<replid, start, fullsync_start, save_started, child, peer, psync,
                   slaveVars, breaks, saves, restarts>>

ClientSet(k) == Write(k, writes + 1)

\* DEL of a key that is not there replies 0 and changes nothing
ClientDel(k) == data[k] # 0 /\ Write(k, 0)

\* SAVE: BackgroundSave to dump.rdb, refused while a child is running
ClientSave ==
    /\ child.path = "none"
    /\ saves < MaxSaves
    /\ saves' = saves + 1
    /\ child' = [path |-> "dump", img |-> ImageNow]
    /\ UNCHANGED <<data, log, base, replid, reg, start, file, fullsync_active,
                   fullsync_start, save_started, netVars, slaveVars,
                   writes, breaks, iofails, restarts, histVars>>
-----------------------------------------------------------------------------
(* PSYNC at the master *)

\* OnPsync, partial: TryPartialResync registers the slave as synced at once
\* and sends +CONTINUE and the gap
CanContinue(req) == req[2] >= 0 /\ req[1] = replid /\ Retained(req[2])

OnPsyncPartial(c) ==
    /\ mopen[c] /\ psync[c] # NoPsync
    /\ CanContinue(psync[c])
    /\ psync' = [psync EXCEPT ![c] = NoPsync]
    /\ fullsync_active' = ActiveAfterRemove(Erase(reg, {c}), fullsync_active, save_started)
    /\ reg' = [reg EXCEPT ![c] = "kSynced"]
    /\ start' = [start EXCEPT ![c] = psync[c][2]]
    /\ chan' = Send(chan, c, <<Continue>> \o GapFrom(psync[c][2]))
    /\ UNCHANGED <<data, log, base, replid, file, fullsync_start, save_started,
                   child, mopen, peer, slaveVars, boundVars, histVars>>

\* OnPsync, full: register as a waiter at the tip, then StartFullsyncIfNeeded
OnPsyncFull(c) ==
    /\ mopen[c] /\ psync[c] # NoPsync
    /\ ~CanContinue(psync[c])
    /\ psync' = [psync EXCEPT ![c] = NoPsync]
    /\ StartFullsyncIfNeeded([reg EXCEPT ![c] = "kWaitRdb"],
                             [start EXCEPT ![c] = tip],
                             ActiveAfterRemove(Erase(reg, {c}), fullsync_active, save_started),
                             save_started, child)
    /\ UNCHANGED <<data, log, base, replid, file, mopen, peer, slaveVars,
                   writes, breaks, saves, restarts, histVars>>
-----------------------------------------------------------------------------
(* The SAVE child is reaped: ReapSaveChild calls OnSaveDone *)

WasFullsync == save_started /\ child.path = "fullsync"

\* OnSaveDone(true, fullsync): BeginSendToWaiters runs SendRdbToSlave for
\* every waiter; stat or open of the file may fail for some of them
FullsyncSaved ==
    /\ WasFullsync
    /\ child' = NoChild /\ save_started' = FALSE
    /\ LET waiters == {c \in Conns : reg[c] = "kWaitRdb"}
       IN  \E missing, unopened \in SUBSET waiters :
             /\ missing \cap unopened = {}
             /\ iofails + Cardinality(missing \cup unopened) <= MaxIoFails
             /\ iofails' = iofails + Cardinality(missing \cup unopened)
             /\ LET bad == missing \cup unopened
                IN  /\ reg' = [c \in Conns |->
                                 IF c \in bad THEN "none"
                                 ELSE IF c \in waiters THEN "kSendingRdb" ELSE reg[c]]
                    /\ file' = [c \in Conns |-> IF c \in waiters \ bad
                                                THEN child.img ELSE file[c]]
                    /\ chan' = [c \in Conns |->
                         IF c \notin waiters \/ peer[c] = NoSlave THEN chan[c]
                         ELSE IF c \in missing THEN Append(chan[c], ErrLine)
                         ELSE chan[c] \o <<FullResync(replid, start[c]), BulkHeader(1)>>
                              \o (IF c \in unopened THEN <<ErrLine>> ELSE <<>>)]
                    /\ fullsync_active' = IF bad = {} THEN fullsync_active
                          ELSE ActiveAfterRemove(reg', fullsync_active, FALSE)
    /\ UNCHANGED <<data, log, base, replid, start, fullsync_start, mopen, peer,
                   psync, slaveVars, writes, breaks, saves, restarts, histVars>>

\* OnSaveDone(false, fullsync)
FullsyncSaveFailed ==
    /\ WasFullsync
    /\ iofails < MaxIoFails /\ iofails' = iofails + 1
    /\ child' = NoChild /\ save_started' = FALSE
    /\ DropWaiters(reg)
    /\ UNCHANGED <<data, log, base, replid, start, file, fullsync_start, mopen,
                   peer, psync, slaveVars, writes, breaks, saves, restarts, histVars>>

\* (mutant) the waiters of a deferred fullsync are forgotten
DumpSavedForgets ==
    /\ child.path # "none" /\ ~WasFullsync
    /\ child' = NoChild
    /\ UNCHANGED <<data, log, base, replid, reg, start, file, fullsync_active,
                   fullsync_start, save_started, netVars, slaveVars, boundVars,
                   histVars>>

\* OnSaveDone for dump.rdb, whatever its outcome: start the deferred fullsync
DumpSaved ==
    /\ child.path # "none" /\ ~WasFullsync
    /\ StartFullsyncIfNeeded(reg, start, fullsync_active, FALSE, NoChild)
    /\ UNCHANGED <<data, log, base, replid, file, mopen, peer, psync, slaveVars,
                   writes, breaks, saves, restarts, histVars>>

\* the sendfile of a connection has drained: SendBacklogToSlave
SendBacklog(c) ==
    /\ reg[c] = "kSendingRdb"
    /\ file' = [file EXCEPT ![c] = NoImage]
    /\ IF Retained(start[c])
       THEN /\ reg' = [reg EXCEPT ![c] = "kSynced"]
            /\ chan' = Send(chan, c, <<RdbBody(file[c]), BulkHeader(tip - start[c])>>
                                     \o GapFrom(start[c]))
            /\ fullsync_active' = (fullsync_active /\ AnyActive(reg'))
       ELSE /\ reg' = Erase(reg, {c})                    \* "-ERR backlog lost"
            /\ chan' = Send(chan, c, <<RdbBody(file[c]), ErrLine>>)
            /\ fullsync_active' = ActiveAfterRemove(reg', fullsync_active, save_started)
    /\ UNCHANGED <<data, log, base, replid, start, fullsync_start, save_started,
                   child, mopen, peer, psync, slaveVars, boundVars, histVars>>
-----------------------------------------------------------------------------
(* Connections and processes *)

\* the master's end closes (EOF, reset, write error): the close callback runs
\* RemoveSlave and forgets the connection
MasterClose(c) ==
    /\ mopen[c]
    /\ peer[c] # NoSlave => breaks < MaxBreaks
    /\ breaks' = IF peer[c] # NoSlave THEN breaks + 1 ELSE breaks
    /\ mopen' = [mopen EXCEPT ![c] = FALSE]
    /\ psync' = [psync EXCEPT ![c] = NoPsync]
    /\ reg' = Erase(reg, {c})
    /\ file' = [file EXCEPT ![c] = NoImage]
    /\ fullsync_active' = ActiveAfterRemove(reg', fullsync_active, save_started)
    /\ UNCHANGED <<data, log, base, replid, start, fullsync_start, save_started,
                   child, peer, chan, slaveVars, writes, saves, iofails, restarts,
                   histVars>>

\* GenerateReplid: a process gets an id no earlier one had
KeepReplid == replid                                                   \* (mutant)
GenerateReplid == replid + 1

\* a new master process: the backlog and the registrations are gone, replid_
\* is new, and the stores are what its persistence restores: all or nothing
MasterRestart ==
    /\ restarts < MaxRestarts
    /\ restarts' = restarts + 1
    /\ data' \in {data, EmptyStore}
    /\ log' = <<>> /\ base' = 0 /\ replid' = GenerateReplid
    /\ reg' = [c \in Conns |-> "none"]
    /\ file' = [c \in Conns |-> NoImage]
    /\ fullsync_active' = FALSE /\ fullsync_start' = 0 /\ save_started' = FALSE
    /\ child' = NoChild
    /\ mopen' = [c \in Conns |-> FALSE]
    /\ psync' = [c \in Conns |-> NoPsync]
    /\ last_hole' = -1
    /\ covers' = [s \in Slaves |-> FALSE]
    /\ UNCHANGED <<start, peer, chan, slaveVars, writes, breaks, saves, iofails,
                   unfed, loaded_gen>>

\* TryConnect: a fresh connection, PSYNC with the offset if there is one
TryConnect(s, c) ==
    /\ state[s] \in {"kInit", "kError"}
    /\ ~mopen[c] /\ peer[c] = NoSlave
    /\ mopen' = [mopen EXCEPT ![c] = TRUE]
    /\ peer' = [peer EXCEPT ![c] = s]
    /\ psync' = [psync EXCEPT ![c] =
                    IF have_offset[s] /\ master_replid[s] # 0
                    THEN <<master_replid[s], repl_offset[s]>> ELSE <<0, -1>>]
    /\ state' = [state EXCEPT ![s] = "kWaitFullresync"]
    /\ backlog_remaining' = [backlog_remaining EXCEPT ![s] = 0]
    /\ UNCHANGED <<masterVars, chan, repl_offset, have_offset, master_replid,
                   sdata, boundVars, histVars>>

\* Fail: the slave closes its end and schedules a reconnect; the offset is kept
FailLink(c) ==
    /\ state' = [state EXCEPT ![peer[c]] = "kError"]
    /\ peer' = [peer EXCEPT ![c] = NoSlave]
    /\ chan' = [chan EXCEPT ![c] = <<>>]

\* the close callback of the slave's connection
SlaveClose(c) ==
    /\ peer[c] # NoSlave
    /\ mopen[c] => breaks < MaxBreaks
    /\ breaks' = IF mopen[c] THEN breaks + 1 ELSE breaks
    /\ FailLink(c)
    /\ UNCHANGED <<masterVars, mopen, psync, repl_offset, have_offset,
                   master_replid, sdata, backlog_remaining, writes, saves,
                   iofails, restarts, histVars>>

\* a new slave process: what it replicated is not persisted
SlaveRestart(s) ==
    /\ restarts < MaxRestarts
    /\ restarts' = restarts + 1
    /\ state' = [state EXCEPT ![s] = "kInit"]
    /\ repl_offset' = [repl_offset EXCEPT ![s] = 0]
    /\ have_offset' = [have_offset EXCEPT ![s] = FALSE]
    /\ master_replid' = [master_replid EXCEPT ![s] = 0]
    /\ sdata' = [sdata EXCEPT ![s] = EmptyStore]
    /\ backlog_remaining' = [backlog_remaining EXCEPT ![s] = 0]
    /\ covers' = [covers EXCEPT ![s] = FALSE]
    /\ peer' = [c \in Conns |-> IF peer[c] = s THEN NoSlave ELSE peer[c]]
    /\ chan' = [c \in Conns |-> IF peer[c] = s THEN <<>> ELSE chan[c]]
    /\ UNCHANGED <<masterVars, mopen, psync, writes, breaks, saves, iofails,
                   unfed, last_hole, loaded_gen>>
-----------------------------------------------------------------------------
(* The slave's read callback: OnReadable, by state *)

Incoming(c, st) == peer[c] # NoSlave /\ chan[c] # <<>> /\ state[peer[c]] = st
Consume(c) == chan' = [chan EXCEPT ![c] = Tail(chan[c])]
Goto(c, st) == state' = [state EXCEPT ![peer[c]] = st]

\* kWaitFullresync: ConsumeSimpleString and HandleSyncReply
RecvContinue(c) ==
    /\ Incoming(c, "kWaitFullresync")
    /\ Head(chan[c]).t = "continue"
    /\ Consume(c)
    /\ Goto(c, "kStreaming")
    /\ UNCHANGED <<masterVars, mopen, peer, psync, repl_offset, have_offset,
                   master_replid, sdata, backlog_remaining, boundVars, histVars>>

RecvFullResync(c) ==
    /\ Incoming(c, "kWaitFullresync")
    /\ Head(chan[c]).t = "fullresync"
    /\ Consume(c)
    /\ Goto(c, "kRecvRdbHeader")
    /\ LET s == peer[c] IN
         /\ master_replid' = [master_replid EXCEPT ![s] = Head(chan[c]).replid]
         /\ repl_offset' = [repl_offset EXCEPT ![s] = Head(chan[c]).off]
         /\ have_offset' = [have_offset EXCEPT ![s] = TRUE]
         /\ covers' = [covers EXCEPT ![s] = FALSE]
    /\ UNCHANGED <<masterVars, mopen, peer, psync, sdata, backlog_remaining,
                   boundVars, unfed, last_hole, loaded_gen>>

\* an error line, or anything that is not a simple string
RecvRefusal(c) ==
    /\ Incoming(c, "kWaitFullresync")
    /\ Head(chan[c]).t \notin {"continue", "fullresync"}
    /\ FailLink(c)
    /\ UNCHANGED <<masterVars, mopen, psync, repl_offset, have_offset,
                   master_replid, sdata, backlog_remaining, boundVars, histVars>>

\* kRecvRdbHeader: only a bulk header is consumed, anything else is waited on
RecvRdbHeader(c) ==
    /\ Incoming(c, "kRecvRdbHeader")
    /\ Head(chan[c]).t = "bulk"
    /\ Consume(c)
    /\ Goto(c, "kRecvRdbBody")
    /\ UNCHANGED <<masterVars, mopen, peer, psync, repl_offset, have_offset,
                   master_replid, sdata, backlog_remaining, boundVars, histVars>>

\* kRecvRdbBody: the body is complete, FinishRdbAndLoad
LoadRdb(c) ==
    /\ Incoming(c, "kRecvRdbBody")
    /\ Head(chan[c]).t = "rdb"
    /\ Consume(c)
    /\ Goto(c, "kRecvBacklogHeader")
    /\ LET s == peer[c]
           img == Head(chan[c]).img
       IN  /\ sdata' = [sdata EXCEPT ![s] = img.data]
           /\ covers' = [covers EXCEPT ![s] = /\ img.pos >= repl_offset[s]
                                              /\ last_hole <= repl_offset[s]
                                              /\ master_replid[s] = replid]
           /\ loaded_gen' = [loaded_gen EXCEPT ![s] = img.gen]
    /\ UNCHANGED <<masterVars, mopen, peer, psync, repl_offset, have_offset,
                   master_replid, backlog_remaining, boundVars, unfed, last_hole>>

\* FinishRdbAndLoad fails: at the rename the stores are still the old ones,
\* in LoadFromPath they have been cleared
LoadRdbFails(c) ==
    /\ Incoming(c, "kRecvRdbBody")
    /\ Head(chan[c]).t = "rdb"
    /\ iofails < MaxIoFails /\ iofails' = iofails + 1
    /\ \E d \in {sdata[peer[c]], EmptyStore} :
          sdata' = [sdata EXCEPT ![peer[c]] = d]
    /\ FailLink(c)
    /\ UNCHANGED <<masterVars, mopen, psync, repl_offset, have_offset,
                   master_replid, backlog_remaining, writes, breaks, saves,
                   restarts, histVars>>

\* an error line here is counted as body bytes, and the body stays incomplete
SwallowError(c) ==
    /\ Incoming(c, "kRecvRdbBody")
    /\ Head(chan[c]).t = "err"
    /\ Consume(c)
    /\ UNCHANGED <<masterVars, mopen, peer, psync, slaveVars, boundVars, histVars>>

\* kRecvBacklogHeader: only a bulk header is consumed, anything else is waited on
RecvBacklogHeader(c) ==
    /\ Incoming(c, "kRecvBacklogHeader")
    /\ Head(chan[c]).t = "bulk"
    /\ Consume(c)
    /\ Goto(c, IF Head(chan[c]).n = 0 THEN "kStreaming" ELSE "kRecvBacklogBody")
    /\ backlog_remaining' = [backlog_remaining EXCEPT ![peer[c]] = Head(chan[c]).n]
    /\ UNCHANGED <<masterVars, mopen, peer, psync, repl_offset, have_offset,
                   master_replid, sdata, boundVars, histVars>>

\* kRecvBacklogBody: ApplyBacklog once all of it has arrived
ApplyBacklog(c) ==
    /\ Incoming(c, "kRecvBacklogBody")
    /\ LET s == peer[c]
           n == backlog_remaining[s]
       IN  /\ Len(chan[c]) >= n
           /\ sdata' = [sdata EXCEPT ![s] = ApplyAll(@, SubSeq(chan[c], 1, n))]
           /\ repl_offset' = [repl_offset EXCEPT ![s] = @ + n]
           /\ backlog_remaining' = [backlog_remaining EXCEPT ![s] = 0]
           /\ chan' = [chan EXCEPT ![c] = SubSeq(@, n + 1, Len(@))]
    /\ Goto(c, "kStreaming")
    /\ UNCHANGED <<masterVars, mopen, peer, psync, have_offset, master_replid,
                   boundVars, histVars>>

\* kStreaming: DrainStreaming, one frame.  Anything else would fail the decode
\* and the link, but a synced connection carries nothing else (StreamExact)
ApplyFrame(c) ==
    /\ Incoming(c, "kStreaming")
    /\ Head(chan[c]).t = "frame"
    /\ Consume(c)
    /\ LET s == peer[c] IN
         /\ sdata' = [sdata EXCEPT ![s] = ApplyAll(@, <<Head(chan[c])>>)]
         /\ repl_offset' = [repl_offset EXCEPT ![s] = @ + 1]
         /\ have_offset' = [have_offset EXCEPT ![s] = TRUE]
    /\ UNCHANGED <<masterVars, mopen, peer, psync, state, master_replid,
                   backlog_remaining, boundVars, histVars>>
-----------------------------------------------------------------------------
ClientStep == \/ \E k \in Keys : ClientSet(k) \/ ClientDel(k)
              \/ ClientSave

MasterStep == \/ \E c \in Conns : \/ OnPsyncPartial(c) \/ OnPsyncFull(c)
                                  \/ SendBacklog(c)
              \/ FullsyncSaved \/ FullsyncSaveFailed \/ DumpSaved

SlaveRead(c) == \/ RecvContinue(c) \/ RecvFullResync(c) \/ RecvRefusal(c)
                \/ RecvRdbHeader(c) \/ LoadRdb(c) \/ LoadRdbFails(c)
                \/ SwallowError(c) \/ RecvBacklogHeader(c) \/ ApplyBacklog(c)
                \/ ApplyFrame(c)

LinkStep == \/ \E c \in Conns : MasterClose(c) \/ SlaveClose(c)
            \/ \E s \in Slaves, c \in Conns : TryConnect(s, c)

Restart == MasterRestart \/ \E s \in Slaves : SlaveRestart(s)

Next == ClientStep \/ MasterStep \/ LinkStep \/ Restart
        \/ \E c \in Conns : SlaveRead(c)

Spec == Init /\ [][Next]_vars
-----------------------------------------------------------------------------
(* Fairness.  The reactor serves every ready descriptor and every due timer, *)
(* so a pending PSYNC, a finished child, a draining sendfile, arrived bytes, *)
(* an EOF and the reconnect timer are each handled in the end.  Nothing      *)
(* makes clients write, links break or processes restart.                    *)
Fairness ==
    /\ WF_vars(FullsyncSaved)
    /\ WF_vars(DumpSaved)
    /\ \A c \in Conns :
         /\ WF_vars(OnPsyncPartial(c))
         /\ WF_vars(OnPsyncFull(c))
         /\ WF_vars(SendBacklog(c))
         /\ WF_vars(SlaveRead(c))
         /\ WF_vars(peer[c] = NoSlave /\ MasterClose(c))
         /\ WF_vars(~mopen[c] /\ SlaveClose(c))
    /\ \A s \in Slaves : WF_vars(\E c \in Conns : TryConnect(s, c))

FairSpec == Spec /\ Fairness
-----------------------------------------------------------------------------
(* Types of the state; offsets are Nat, a connection's end belongs to at     *)
(* most one slave, messages are the ones of the protocol.                    *)
TypeOK ==
    /\ data \in Store /\ log \in Seq(FrameSet) /\ base \in Nat /\ base <= tip
    /\ replid \in Nat
    /\ reg \in [Conns -> {"none", "kWaitRdb", "kSendingRdb", "kSynced"}]
    /\ start \in [Conns -> Nat] /\ file \in [Conns -> Image]
    /\ fullsync_active \in BOOLEAN /\ fullsync_start \in Nat
    /\ save_started \in BOOLEAN
    /\ child \in [path : {"none", "dump", "fullsync"}, img : Image]
    /\ mopen \in [Conns -> BOOLEAN] /\ peer \in [Conns -> Slaves \cup {NoSlave}]
    /\ psync \in [Conns -> Request \cup {NoPsync}]
    /\ chan \in [Conns -> Seq(Message)]
    /\ state \in [Slaves -> States]
    /\ repl_offset \in [Slaves -> Nat] /\ have_offset \in [Slaves -> BOOLEAN]
    /\ master_replid \in [Slaves -> Nat] /\ sdata \in [Slaves -> Store]
    /\ backlog_remaining \in [Slaves -> Nat]
    /\ writes \in Nat /\ breaks \in Nat /\ saves \in Nat /\ iofails \in Nat
    /\ restarts \in Nat /\ unfed \in Nat /\ last_hole \in Int
    /\ covers \in [Slaves -> BOOLEAN] /\ loaded_gen \in [Slaves -> Nat]

Streaming(c) == mopen[c] /\ peer[c] # NoSlave /\ state[peer[c]] = "kStreaming"

(* A streaming slave on a live link has exactly the rest of the stream in    *)
(* flight: no frame is lost, duplicated or reordered between its offset and  *)
(* the master's tip, whichever way it got there (partial resync, fullsync    *)
(* with writes during the save and the transfer, reconnects).                *)
StreamExact ==
    \A c \in Conns :
        Streaming(c) => chan[c] = SubSeq(log, repl_offset[peer[c]] + 1, tip)

(* A slave whose replid is the running master's never claims an offset the   *)
(* master has not reached.                                                   *)
OffsetNeverAhead ==
    \A s \in Slaves : have_offset[s] /\ master_replid[s] = replid
                        => repl_offset[s] <= tip

(* A slave that waits for an RDB is never forgotten: a save is running whose *)
(* completion sends it the file or starts its fullsync save.                 *)
WaiterHasSave == \A c \in Conns : reg[c] = "kWaitRdb" => child.path # "none"

(* A drained streaming slave holds what the master holds.                    *)
Converged(s, c) ==
    peer[c] = s /\ Streaming(c) /\ chan[c] = <<>> => sdata[s] = data

ReplicaConverges == \A c \in Conns, s \in Slaves : Converged(s, c)

(* The same for a slave that loaded an image forked at or after its cut and  *)
(* since whose fork every write went to the backlog.  Everything else the    *)
(* protocol does (replaying frames the image already contains, resuming at   *)
(* an offset, joining another slave's fullsync) preserves convergence.       *)
CleanReplicaConverges ==
    \A c \in Conns, s \in Slaves :
        covers[s] /\ loaded_gen[s] = unfed => Converged(s, c)

(* Once links stop breaking every slave ends up streaming, with its offset   *)
(* at the master's tip.                                                      *)
CatchesUp == \A s \in Slaves :
    []<>(/\ state[s] = "kStreaming" /\ master_replid[s] = replid
         /\ repl_offset[s] = tip)
=============================================================================
