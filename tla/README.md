# Vemory in TLA+

Vemory is a RESP server written in C++: a string key-value store and a
semantic cache (questions found again by vector similarity) in one
single-threaded reactor, with fork-based snapshots, an append-only file (AOF)
and master/slave replication. This directory holds TLA+ models of the parts
that are hard to test, the TLC configurations that check them on small
instances, and TLAPS proofs of every invariant the passing runs check but one.

Run a configuration with `tlc -config X.cfg M` and a proof module with
`tlapm M.tla`. `PROJECT.json` lists runs, theorems, the source lines behind
every definition, and a mutant for every property: a plausible bug in the code
that makes TLC report the property.

## 1. The system

| component | state | operations | talks to |
|---|---|---|---|
| EventLoop, Timer (`net/EventLoop.h`, `util/Timer.h`) | timer map, epoll set | `Run`, `AddTimeout`, `DelTimeout`, idle callback | everything runs in its callbacks |
| TcpServer, TcpConn, MessageBuffer, TcpConnector (`net/`) | input buffer, output buffer, file being sent, output queued behind it | accept, read, `Send`, `SendFile`, `Close` | calls the protocol, replication master and slave |
| RESP, RequestContext, ProtocolExecutor, dispatchers (`protocol/`) | none between requests | parse, route, reply, refuse writes on a replica | calls `ApplyMutation`, SAVE, PSYNC |
| MutationApply (`mutate/`) | none | SET, DEL, VSET, VDEL: change the stores, then the AOF, then the backlog | stores, WalManager, ReplicationMaster |
| KvStore (`storage/KvStore.cc`) | hash map | get, set, del, dump, load | MutationApply, SnapshotManager |
| Semantic cache: VNodeIndex, VNodeStorage, LruOrder, USearchEmbedIndex | nodes by id, ids by key, next id, LRU order, vector index | VSET, VGET, VDEL, evict, load | MutationApply, SnapshotManager |
| ThreadAofWriter, BlockingQueue | bounded queue, pending count, file, failure flag | `Enqueue`, `Flush`, `Stop`; the flush thread | WalManager |
| InlineIoUringAofWriter | buffer, writes in flight, ring | `Enqueue`, `Flush`, `Poll`, `Stop`; the kernel | WalManager, idle callback |
| WalManager, SnapshotManager, `main` | AOF, `dump.rdb`, `dump.rdb.tmp`, SAVE child | append, replay, fork, save, rename, reap, load | stores, both AOF writers |
| ReplicationBacklog | byte ring, offsets `base` and `tip` | `FeedEncoded`, `CopyRange` | ReplicationMaster |
| ReplicationMaster | registered slaves with their state and cut, current fullsync | PSYNC, save done, sendfile done, feed, drop | SnapshotManager, TcpConn, backlog |
| ReplicationSlave | protocol state, offset, replid, reconnect timer | connect, read, load, apply, reconnect | master, stores |
| Config, Logging, MappedFile, codecs | none that changes | read once, format | all |

What is hard. The server is single-threaded, so most interleavings are not of
threads but of *callbacks*: between the PSYNC of a slave, the fork, the end of
the child, the last byte of the file and the backlog, any number of client
writes, closes and other slaves come in between. Real concurrency exists in
four places: the flush thread, the kernel behind io_uring, the SAVE child, and
the other server. Everything that touches a file or a link may fail half way,
and a crash may come between any two of these steps. The hazards are listed at
their lines in `PROJECT.json`.

What makes each part correct:

* the ring gives back the bytes that were fed, and drops only what it must;
* a slave on a live link is owed exactly the rest of the stream, it returns by
  itself after a failure, and it converges to the master's data;
* an accepted AOF frame is written once, by the threaded writer in order too, or
  the failure is reported; a successful flush means what it says; nobody waits
  for ever;
* the four structures of the cache agree, eviction is exact LRU, and what is
  logged reproduces what is stored, but for what the log refused;
* after any crash the data files can be loaded, and what was synced is there;
  what a finished SAVE holds survives any crash but the one that takes back its
  rename;
* a timer that is due fires although nothing else happens;
* requests are cut out of the bytes wherever TCP split them, carried out once
  and answered in order; nothing that is sent overtakes anything else, around a
  file too, and no event of an edge-triggered socket is missed;
* what is encoded, for the AOF or for a snapshot, decodes to the same data, and
  a part of it is recognised as such.

## 2. Modules

| module | models | checked by |
|---|---|---|
| `ReplicationBacklog` | the byte ring, with the arithmetic of the code | `MCReplicationBacklog` |
| `ReplicationBacklogProofs` | its proofs | TLAPS |
| `Replication` | master, slaves, the connections and the fullsync child | `MCReplication` |
| `ReplicationProofs` | its proofs | TLAPS |
| `ThreadAofWriter` | reactor and flush thread over `BlockingQueue` | `MCThreadAofWriter` |
| `ThreadAofWriterProofs` | its proofs | TLAPS |
| `InlineAofWriter` | reactor and kernel over an io_uring | `MCInlineAofWriter` |
| `InlineAofWriterProofs` | its proofs | TLAPS |
| `EventLoop` | `Run` and the timers, in relative time | `MCEventLoop` |
| `EventLoopProofs` | its proofs | TLAPS |
| `LruOrder` | the list of `LruOrder.h`, as used by the next two | through `SemanticCache` |
| `LruCache` | abstract: an exact LRU cache | refined by `SemanticCache` |
| `SemanticCache` | the four structures behind VSET, VGET, VDEL | `MCSemanticCache` |
| `SemanticCacheProofs` | its proofs, the refinement included | TLAPS |
| `Persistence` | SAVE children, files, AOF, crashes, startup | `MCPersistence` |
| `PersistenceProofs` | its proofs | TLAPS |
| `TcpConn` | a connection: buffers, `SendFile`, event mask, socket, epoll | through `ClientSession` |
| `RespDecode` | the RESP decoder and encoder over characters | `MCClientSession` |
| `RdbFormat` | the snapshot file and its two loaders over words | `MCClientSession` |
| `ClientSession` | a client, the protocol layer, dispatchers, KvStore, AOF and a fullsync over one `TcpConn` | `MCClientSession` |
| `ClientSessionProofs` | its proofs, those of the methods of `TcpConn` first | TLAPS |

How they fit together. `Replication` uses the backlog as a log of frames with
an offset of the oldest frame retained; `ReplicationBacklog` justifies this,
because it shows that `CopyRange` returns the stream between any two retained
offsets. `Persistence` sees an AOF writer as a queue that is appended to the
file in order and synced; the two writer modules show how far that is true of
each. `SemanticCache` implements `LruCache` under the refinement mapping
`val <- Val, order <- used`: the entries as a client sees them, and the keys by
the time of their last use, a history that the LRU list must match whenever it
evicts.

`ClientSession` composes `TcpConn`, `RespDecode` and `RdbFormat`: it is the way
of a request from the wire to the stores and back. It justifies three
abstractions of the others. `Replication` has a FIFO channel per connection,
which carries replies, the image, the backlog and live frames in the order of
the calls: `StreamOrder` shows this of the three output buffers, `DoneOnce` that
the completion of the image comes exactly once, `SlaveMatchesConn` that a slave
goes with its connection. `Persistence` replays whole frames and loads whole
snapshots: `LogReproducesStore` and `SnapshotLoads` show this of the bytes.

State and actions. Variables carry the names of the members they stand for
(`fullsync_active`, `repl_offset`, `pending`, `child_pid`, ...), each with a
comment. An action is one callback, or one lock-to-lock section of a call
where another thread or the kernel may come in between:

* `Replication`: `ClientSet`/`ClientDel` are `ApplyMutation` with the feed to
  every slave; `OnPsyncPartial`/`OnPsyncFull` are `OnPsync`;
  `FullsyncSaved`/`FullsyncSaveFailed`/`DumpSaved` are `OnSaveDone`;
  `SendBacklog` is the completion of the sendfile; `Recv*`, `LoadRdb*` and
  `Apply*` are the states of the slave's read callback; `MasterClose`,
  `SlaveClose` and `TryConnect` are the link; both processes restart.
  Each end of a connection closes by itself, the other end notices later and
  loses what it had not read, as `TcpConn::HandleRead` does.
* `ThreadAofWriter`: program counters `rpc` (reactor) and `tpc` (flush thread).
* `InlineAofWriter`: `todo` is what is left of the call in progress; the kernel
  acts between any two of its steps. The file is opened with `O_APPEND`, so a
  write goes to its end whatever offset the request carries.
* `EventLoop`: `rem[t]` is the time left of timer `t`, negative when overdue;
  the widths of the unsigned difference and of `int` are parameters. The history
  `slow` remembers that the idle callback or a stop took longer than some timer
  had left.
* `SemanticCache`: one action per way `VNodeIndex::Set` returns, and
  `EvictionStops` for the VDEL of a victim that the AOF refuses. A refused
  append leaves the change in place, unlogged and unfed (`LogRefused`), also of
  a VSET or VDEL itself. Ids have `IdBits` bits and wrap to 0 as the `uint16_t`
  does.
* `Persistence`: files are inodes, so that a process that has a renamed or
  truncated file open is represented; `Kill` keeps what the kernel was given,
  `PowerLoss` loses unsynced frames and possibly the last rename, that of the
  first SAVE included: `SaveToPath` syncs the file and not the directory. An
  earlier rename is taken to be on disk, because the sync of the file renamed
  last came after it. What was saved (`saved`), what was promised before the
  last rename (`before`) and whether it was taken back (`undone`) are histories.
* `TcpConn`: `conn` is a record of the members of the class and of the socket
  below it; a method (`Send`, `Close`, `BeginSendFile`, ...) maps the connection
  before the call to the one after it, so that any handler can call it. The
  loops of `HandleRead` and `HandleWrite` are steps, one system call each
  (`Recv`, `WriteOut`, `WriteFile`, ...), between which the peer goes on.
* `ClientSession`: `Io` is a step of `HandleIO`; `Execute` is a turn of
  `ProtocolExecutor::OnBufferReadable` with the whole of dispatch, store, AOF
  and feed, `ExecuteEnds` its return with the batch of replies; `SendRdb`,
  `FullsyncFails` and `SaveReaped` are `OnSaveDone`; the client sends, reads,
  ends or resets. Dispatchers map a round (connection, server, batch) to the
  next one.

## 3. Runs

| run | shows |
|---|---|
| `backlog_ring` | `CopyRangeFaithful`: what `CopyRange` returns is what was fed, over wrapping, full and oversized frames; `NoEarlyDrop`: nothing is dropped while there is room, and no more than the frame or an eighth of the ring |
| `replication_faults` | `StreamExact`: a streaming slave has exactly the rest of the stream in flight; `OffsetNeverAhead`; `WaiterHasSave`: a slave waiting for an RDB is never forgotten, also when a client SAVE is in its way. Link breaks, restarts, I/O failures, slow slaves, ring overflow |
| `replication_shared_fullsync` | `CleanReplicaConverges`: two slaves sharing a fullsync, breaking off and resuming, converge if their image covers their cut and no write bypassed the backlog since; a fork, a save, the open of a file, a load or an AOF append may fail. Slaves to which the condition does not apply are not spoken of |
| `replication_liveness` | `CatchesUp`: after every break or restart the slave reaches the master's tip again |
| `replication_midsync_break` | **violation** of `ReplicaConverges`, see section 6 |
| `thread_aof_writer` | `NoFrameLost`, `PendingExact`, `FlushHonest`, `ReactorNeverStuck`, `EverysecSyncs` over all policies and failures |
| `event_loop` | `SleepBounded`: `epoll_wait` never sleeps past a timer unless one was overdue when it was entered; `TimersFire`: without any I/O a due timer fires, with the same exception. The idle callback and stops make timers overdue |
| `inline_aof_writer` | `NoUnitLost`, `NoUnitTwice`, `FlushHonest`, with a kernel that reorders, shortens and fails writes |
| `inline_aof_ordered` | `FileIsStream` and `PollSettles`, with a kernel that writes in order and completely |
| `semantic_cache` | `Consistent`, `ReplicaAgrees` (for a replica that copies the vectors of a snapshot and for one that views them), and `ImplementsLru`, the refinement of `LruCache`, with vectors that usearch and frames that the AOF refuses |
| `persistence` | `DumpWhole`, `SyncedSurvives`, `SnapshotSurvives` over crashes at every step, with frames torn and renames taken back by a power loss |
| `client_session` | `StreamOrder`, `DoneOnce`, `NoLostWakeup` of the connection; `Framing`: requests are cut out of any fragmentation and carried out once each; `SlaveMatchesConn`; `LogReproducesStore`; `SnapshotLoads`; `Answered`: every complete request that arrives is answered or the connection is closed |

Bounds, all named constants, and why they are enough:

* ring of 16 bytes, 36 bytes fed: two full turns, with frames of 1, 5, 16 and 17
  bytes: shorter than, equal to and longer than the ring;
* one slave with two connections (the old one lingers while the new one is
  used) where the interest is in faults, two slaves where it is in a shared
  fullsync; a ring of one or two frames overflows with two writes;
* queue and batch of two, six frames: a full queue, a full batch and a blocked
  push behind each other;
* two writes in flight, frames of one to three units with buffer thresholds at
  two: every branch of `Enqueue`, a full `pending_`, a short write overtaken by
  another;
* two timers, one per place of the code that arms one; 6 and 4 bits instead of
  64 and 32 keep the wrap-around and the narrowing; an idle callback of up to 3
  ms and stops of up to 2 ms make timers overdue;
* three keys, room for two, ids of three bits, five writes, at the start a
  snapshot of up to three nodes whose writer may have freed one id more:
  eviction, replacement, a snapshot above the cap and the end of the ids are all
  reached; one failing add, one failing remove and one refused append, in any
  combination;
* two keys, three writes, three SAVEs, two crashes: a crash, a restart that
  goes on writing and saving, and a second crash; three SAVEs make `dump.rdb`,
  its predecessor and the temporary file three different files;
* a socket of two units that is writable only when empty, an RDB of two units
  and an output limit of three: every buffer of `TcpConn` fills, and a slave is
  kicked; `recv` of two bytes cuts every frame; an `int64_t` of 4 bits wraps in
  a length of two digits. The scripts of `MCClientSession` are one to three
  requests, with empty and CR LF values, empty keys, wrong arities, an empty
  request, lower-case names, two SAVEs, a SAVE in the way of a PSYNC, and
  malformed bytes of each kind; each runs on a master and on a replica, with one
  write of another client and an AOF that may fail at any time.

`MCClientSession` also evaluates `CodecAssumption`, without states: for up to
two tokens of up to two of the characters that mean something to the decoder, a
frame decodes to its tokens whatever follows it, and no proper part of it does.

Symmetry is used only for keys, vector dimensions, connections and slaves, and
never with a liveness property. Deadlock checking is off where a bounded run
simply ends.

Fairness. The reactor serves every ready descriptor and every due timer, and a
call that was started goes on: weak fairness of those steps. Nothing makes
clients write, links break or processes restart. `EventLoop` assumes no I/O at
all, and strong fairness only of the timeout of `epoll_wait`, which signals and other
events may pre-empt. `InlineAofWriter` assumes that the kernel executes what it
was given and, in `PollSettles`, that events keep waking the reactor: the code
arms no timer for the flush. `ThreadAofWriter` assumes that both threads are
scheduled and that I/O calls return. `ClientSession` assumes that the loop goes
on (`WF Io`), that the read callback returns and that the client reads what it
is sent; nothing makes the client send or end, or a fullsync begin.

## 4. Proofs

Every theorem holds for every value of the constants that satisfies the named
assumption of its module, which TLC evaluates in every run, and is checked down
to the last leaf. Some theorems have a condition besides: `~Orphans` and
`~SpentReloads` exclude behaviours of the code that break the property (section
6), and `AskedOnce` a second PSYNC on a connection, which `ClientSession` does
not model. TLC checked the inductive invariants on the bounds of section 3
before they were proved, except `IInv` of the client session, its `LogInv` and
`MapInv`, which quantify over sets it cannot enumerate, and `Once`, of which it
checked `NoUnitTwice`.

| module | theorem | property |
|---|---|---|
| `ReplicationBacklogProofs` | `RingCorrect`, `CopyRangeCorrect`, `DropsOnlyOnOverflow` | `TypeOK`, `CopyRangeFaithful`, `NoEarlyDrop` |
| `ReplicationProofs` | `TypeCorrect`, `WaitersHaveSave`, `OffsetsNotAhead`, `StreamIsExact`, `CleanReplicasConverge` | `TypeOK`, `WaiterHasSave`, `OffsetNeverAhead`, `StreamExact`, `CleanReplicaConverges` |
| `ThreadAofWriterProofs` | `TypeCorrect`, `FramesCorrect`, `PendingCorrect`, `FlushCorrect` | `TypeOK`, `NoFrameLost`, `PendingExact`, `FlushHonest` |
| `InlineAofWriterProofs` | `TypeCorrect`, `NothingIsLost`, `WrittenOnce`, `FlushCorrect` | `TypeOK`, `NoUnitLost`, `NoUnitTwice`, `FlushHonest` |
| `SemanticCacheProofs` (`~SpentReloads`) | `TypeCorrect`, `StructuresAgree`, `ReplicaFollows`, `CacheIsLru` | `TypeOK`, `Consistent`, `ReplicaAgrees`, `ImplementsLru` |
| `PersistenceProofs` | `TypeCorrect`, `SyncedWritesSurvive`, `DumpAlwaysWhole` (`~Orphans`), `SavedImagesSurvive` (`~Orphans`) | `TypeOK`, `SyncedSurvives`, `DumpWhole`, `SnapshotSurvives` |
| `ClientSessionProofs` | `DeliveredInOrder`, `WakeupsAreKept`, `CompletionIsCalledOnce`, `SlaveGoesWithConn` (`AskedOnce`), `RequestsAreFramed`, `LogReplaysToStore`, `SnapshotLoadsWhole` | `StreamOrder`, `NoLostWakeup`, `DoneOnce`, `SlaveMatchesConn`, `Framing`, `LogReproducesStore`, `SnapshotLoads` |
| | `CodecRoundTrip` | `CodecAssumption`, for all tokens |
| `EventLoopProofs` | `TypeCorrect`, `SleepsAreBounded` | `TypeOK`, `SleepBounded` |

Along which argument:

* **Backlog.** `CopyRange` is correct only because of where the bytes are, so
  the inductive invariant is `TypeOK /\ RingHolds`: the byte of every retained
  offset `o` is in slot `(o - base + head) % Cap`. Assumption: the capacity is
  positive and frames are sequences of bytes. The lemma `DropOnce` shows that
  the loop of the code ends after one pass.
* **Replication, the links** (`LinkInv`). `StreamExact` speaks of slaves that
  stream; whether that is what they will find depends on everything that was
  put on the connection before. `LinkOK` therefore says of every connection
  that what is on its way is what is left of one answer, of a partial or of a
  full resynchronisation, at whatever point the slave has read it, followed by
  frames, and that the slave's state and the master's registration fit that
  point. It needs that a slave reads one connection at a time and that a closed
  end keeps nothing (`Ends`), that no slave is ahead of the master whose replid
  it has (`NotAhead`), that a cut is never ahead of the tip (`Cuts`), and
  `WaiterHasSave`. Assumption: finitely many connections, a positive capacity.
* **Replication, the data** (`StoreInv`, on top). The child's memory, the image
  file, an image on its way and a replica each have an offset from which the
  log brings them up to date: they agree with the master on every key that no
  later frame touches (`Follows`), which `ChildFits`, `FileFits`, `FlightFits`
  and `Replica` say of the four, as long as no write bypassed the log since.
  `Says` relates the log to the master's store: the last frame of a key holds
  its value. Frames an image already contains are then harmless, because the
  last one decides, which is why a shared fullsync converges when the image
  covers the cut.
* **Threaded AOF writer.** The invariant adds where a batch can be
  (`BatchShape`), that the thread does not write after a failure (`FailShape`),
  that nobody counts up while a `Flush` runs (`DrainShape`, `FlushedShape`) and
  what `dirty_` means (`SyncShape`). For every queue capacity and batch size.
* **io_uring AOF writer** (`AofInv`). A call is a list of steps with the kernel
  between any two, so `Control` says what may be left of a call and what each
  remaining step relies on: that there is room for what is still to be
  appended, that `Enqueue` reports only what it took, and that `Flush` returns
  behind the drain and the sync. `Writes` says that a write in `pending_` has
  at most one request or completion in the ring, with the data that is left of
  it, which is what makes short writes and resubmissions harmless; `Kept` where
  each unit is; `Covered` what `dirty_` leaves to be synced. For every buffer
  size, ring, limit of writes in flight, and any number of failures.
* **io_uring AOF writer, the file** (`Once`, on top). A unit cannot reach the
  file twice because it is in one place: the file, the buffer and the writes in
  `pending_` share no unit and repeat none (`Apart`, `NoRepeat`), except that
  the units of a write which the kernel has put into the file count as written
  only when its completion is seen; until then the completion in the ring
  reports them (`Reported`). Every request in flight belongs to a write in
  `pending_` (`Owned`), so that the kernel writes what that write still lacks.
  This holds as long as no `io_uring_submit` failed: after a failure the request
  stays in the ring and its units in the buffer. The order of the file is not
  proved: it is the kernel's.
* **Semantic cache** (`CacheInv`). `Consistent` is kept because ids are fresh:
  the next id belongs to no living node, until the ids are used up (`Fresh`);
  `InStep` says that the LRU list of ids is the history of uses of their keys;
  `Rest` has the types of what is left. The refinement maps every VSET, VGET,
  VDEL and restart to one step of `LruCache`, the case of a VSET that evicts and
  is then refused, or stops in the middle because the AOF refuses a VDEL,
  included. `ReplicaAgrees` speaks of the keys outside `unlogged`: a refused
  append puts its key there, a logged one takes it out. The lemmas about
  removing a key from a list are proved by induction over sets of positions.
  Assumption: finitely many keys, ids of at least one bit, and a snapshot found
  at the start with no more nodes than the bound on writes and a next id within
  the ids.
* **Persistence.** `DumpWhole` is not inductive, because a rename makes
  `dump.rdb` of the temporary file and a power loss may bring its predecessor
  back; `FileInv` adds that one child at a time works on the files (`OneSaver`),
  which file it has open and that it is whole before the rename (`OpenFile`),
  and that this file is never `dump.rdb` or its predecessor (`Apart`,
  `OldDumpWhole`). For the log, `LogInv` says that frames hold past writes
  (`FramesPast`, `NoLog`), that what was synced is in the part of the file no
  crash takes away (`DurableInFile`), and that a running server is not behind
  any frame it has queued or a replay would reach (`MemAhead`). For snapshots,
  `SnapInv` follows an image from the fork to the disk: it holds past writes
  (`ImagesPast`), it lies between what was saved before and the stores
  (`ForkBetween`), it is what the file to be renamed holds (`Filled`) and then
  `dump.rdb` (`Delivered`), which is never behind what was reported as saved
  (`DumpAhead`), as its predecessor is not behind what was promised before the
  rename (`OldAhead`). For all keys and any number of writes, SAVEs, syncs and
  crashes.
* **Client session.** For every socket capacity, every threshold of
  writability, all data and all scripts. The state of a connection between two
  calls is `Good`: what the peer has, what is in the socket,
  in the buffer, left of the file and queued behind it are together what was
  accepted (`Ordered`); the callback is owed exactly while a file is in flight
  (`Counted`, `Shape`); and whoever has output or input left is registered for
  it and either in the ready list or not ready (`WakesOut`, `WakesIn`). Each
  method keeps `Good` for every caller; `IInv` says that every handler calls
  them in such a state. `Good` speaks of some set of units, which grows with
  what is sent, so that TLC cannot evaluate `IInv`; it checks the properties
  themselves. `SlaveInv` follows the Slave through the handlers, between which
  `SlaveMatchesConn` says nothing: each way a connection can be closed or a file
  can end, also inside of a request that feeds the frame of its own write back
  to the client as a replica, leaves Slave and connection in agreement. It
  needs that a Slave exists only once the client has asked.
* **The codec.** `CodecRoundTrip` is about any number of tokens, of any bytes,
  the decoder's own marks and CR LF included, as long as an `int64_t` can hold
  their number and lengths. Decoder and encoder are loops over data, written as
  folds, and the folds are computed turn by turn: `FoldLeft` stands for the
  fixed point of an equation, the lemmas `BulkFold`, `ValueFold` and `FlattenIs`
  show that it has one and what each turn does, and the induction over the turns
  is one over sets of numbers (`SetInduction`). That no part of a frame is a
  frame follows from `DecodeStable`, which says more: unless the decoder waits
  for more, its answer, also that the bytes are malformed, is the same however
  much follows. The recursion of the decimals is unrolled likewise
  (`DecimalIs`).
* **Framing** (`FedInv`). The requests dispatched so far, the input buffer and
  what is still in the socket are, end to end, what the client has sent; and
  whenever no data is fresh and the callback is over, the input holds no frame. A
  read moves bytes between the parts, a turn of the parser cuts the next request
  off, and by `DecodeStable` it cuts the same request that the whole script
  would give. It needs that the steps of `HandleIO` forget that data is fresh
  only by calling the parser or closing (`LoopLeaves`), and that no reply,
  feed, close or file touches what has arrived (`SameInput`). For any script
  that satisfies `ScriptsAssumption`, which says what the requests of a stream
  of bytes are: frames, one behind the other, and behind the last one nothing that
  is a frame, malformed or not.
* **The log** (`LogInv`). Unless a frame was refused, the loop of `Replay` takes
  the log in some number of turns, none of them short, and ends with the store
  (`Logged`). A write appends one frame and one turn (`CodecRoundTrip` decodes
  it, `DecodeStable` keeps the turns before it), and `Mutated` says for all
  dispatchers that the store never changes without one. `FromTokens` lets
  through only writes that `EncodeWriteCommand` can write and `Replay` accepts
  (`Sound`): a key that is not empty, and tokens an `int64_t` can measure, which
  they are because the decoder measured them.
* **The snapshot.** `Layout` is the file of a store: its entries in some order,
  each key once. `Loaded` is the loop of `KvStore::Load` on a file that was cut
  at any point: after `i` turns it has the first `i` entries, or it has failed
  with some of them (`KvLoadIs`). The loaders' verdicts follow, for each stage
  of `SaveToPath` and each cut (`LoadsSaved`), and that the image of a child is
  such a store is `MapInv`: finite, without an empty key, which `Load` would
  refuse.
* **Event loop** (`SleepInv`). `WaitTime` is right only when no timer is
  overdue: its unsigned difference, narrowed to `int`, makes an overdue timer a
  sleep without a limit. The invariant carries what prevents this around the
  loop: `HandleTimeout` leaves no timer that is due (`NoneDue`), and on
  the way to `epoll_wait` none becomes overdue without `slow` remembering it
  (`NoneOverdue`). That the map has a first timer follows from the
  well-foundedness of the naturals, for any set of timers. For all delays and
  widths; the assumption spells out what the powers of two mean, because the
  provers do not calculate them.

Only model-checked:

* every liveness property: `CatchesUp`, `ReactorNeverStuck`, `EverysecSyncs`,
  `TimersFire`, `PollSettles`, `Answered`. Fairness is out of the prover's
  reach;
* `FileIsStream`, the order of the file of the io_uring writer, for a kernel that
  executes writes whole and in the order of submission. Neither the code nor
  io_uring gives that, so that a theorem under this assumption would be of no use.

## 5. Not modelled

* Contents of vectors and distances (a search finds any vector the index
  holds), the wording of replies and logs, retry counters, writes of zero bytes.
* `TcpServer`: bind, listen and accept. Its accept loop is left when `accept4`
  fails for want of descriptors, and the edge-triggered listening socket wakes
  it again only for the next client; no liveness property of it can hold.
* The sections of a snapshot that hold nodes and vectors, and `RespVNodeCodec`,
  which packs the fields of a node: `SemanticCache` has the nodes as records.
* `Config`, `Logging`, the `AofWriter` factory: read once before the server
  starts; the settings that change behaviour are constants of the modules.
* `MappedFile` and the socket calls of `TcpConnector`: wrappers of system calls.
* `ringbuffer.h`, `ThreadPool.h`, `lrucache.h`: nothing includes them. The
  vendored libraries, the benchmarks and the demos are not the server.

Abstractions of `ClientSession` to know of: the name of a command is one letter
and the table of names is shortened accordingly; a client asks for PSYNC at most
once, and is given a full resynchronisation (partial ones are in `Replication`);
the backlog bulk is one unit; vector commands are in `SemanticCache`. Where the
code goes on using a `Slave` that a failing `Send` has removed from the list
(`FeedEncodedFrame`, `SendRdbToSlave`), the model goes on as if it were still
there. Memory is not modelled: a connection is captured by its own read callback
(`Vemory.cc`), so that it is never freed. Nor is a `fork` that fails modelled
here (`Replication` has it), or a `SendFile` whose file cannot be opened.

In `RespDecode`, `tokens->reserve(count)` (`RespDecode.cc:78`) has no counterpart:
an array header with a huge count throws there, uncaught, and ends the server,
where the model waits for more. The length of a line overflows an `int64_t`
(`RespDecode.cc:41`), which C++ leaves undefined; the model takes the wrap-around
that the build produces. The proofs are about counts and lengths that fit, in
which neither happens, except `Framing`, for which the decoder itself says what a
request is.

## 6. Where the code departs from its documents

One departure has a run of its own, whose trace TLC prints:

* `replication_midsync_break`: offset and replid are taken over when the
  `+FULLRESYNC` line is read. A slave that loses the link before the RDB
  arrives asks for the rest of the stream, is continued, and never gets the
  snapshot.

The others show as the conditions under which the properties above are stated.
Where the condition is a constant, changing it in the configuration makes TLC
report the property, where it is a conjunct or a history, dropping it does. A
property says nothing of the case its condition excludes:

| condition | what happens without it |
|---|---|
| `covers`, `loaded_gen` in `CleanReplicaConverges` | a slave that joins a running fullsync is promised frames from its own tip on, and given an image that was forked earlier; a write made while no slave is registered is not in the backlog, and a slave that returns is continued without it |
| `MaxIoFails = 0`, `Cap = 2` in `replication_liveness` | after a failing `SendFile`, or a start offset that left the ring, the master sends an error line in the middle of a bulk and keeps the connection open; the slave waits for ever |
| `~slow` in `SleepBounded`, `Oversleeps` in `TimersFire` | a timer that becomes overdue during the idle callback, or while a signal stops the process, turns into a negative timeout: `epoll_wait` sleeps without a limit |
| `Ordered`, `ShortWrites`, `MaxSubmitFails`, `MaxIoFails` in `inline_aof_ordered` (`FileIsStream`) | with `O_APPEND` the offsets of the requests are ignored: writes land in the order of execution, the rest of a short write behind later ones, the request of a failed submit is executed by the next one, and a write behind a failing one may have been executed already |
| `[]<>awake` in `PollSettles` | without events the flush interval passes unnoticed |
| `submit_fails = 0` in `NoUnitTwice` | the request of a failed submit stays in the ring and is executed by the next one, and its units, still in the buffer, are submitted again: the file has them twice |
| `Keys \ unlogged` in `ReplicaAgrees` | a VSET or VDEL whose AOF append fails, the VDEL of a victim included, is answered with an error, stays done and is not fed; a VSET on an existing key whose vector usearch refuses removes the entry and logs nothing. The key differs until it is next written |
| `undone` in `SnapshotSurvives` (`Promised`) | `SaveToPath` syncs the file and renames it, and nothing syncs the directory (`SnapshotManager.cc:72`, `252`): a SAVE reported as finished may be gone after a power loss, and its predecessor, or nothing if it was the first, is there again |
| `SpentReloads = FALSE` in `semantic_cache` (seen with `TRUE` and `IdBits = 2`) | a snapshot taken when the ids are used up restarts with id 1, which belongs to a living node |
| `~AppendedBehindTorn` in `SyncedSurvives` | replay stops at a truncated command and leaves it in the file; frames appended behind it are dropped at the next start |
| `~halted` in `ReplicaAgrees` | a slave of a build with mmap views the vectors of the snapshot in the file, and usearch refuses to add to a view: the first VSET behind a fullsync fails, the slave drops the link, resumes at the same frame and fails again; no frame behind it is ever applied |
| `~srv.missed` in `LogReproducesStore` | a write whose AOF append fails is answered with an error and stays in the store |
| `~conn.closed` in `Framing` | requests that arrive together with the end of the stream are read and dropped; a malformed frame stays in the buffer, so that every later read is answered with the same error |
| `~aof_on` in `SnapshotSurvives` | the AOF is replayed from its beginning over the snapshot; if its unsynced end was lost, older values replace newer ones |
| `Orphans = FALSE` in `persistence` | a SAVE child that outlives its server and the child of the next server write the same `dump.rdb.tmp` |

## 7. Plan

Done, in this order: the backlog ring; replication; both AOF writers; the event
loop; the semantic cache against its abstract specification; persistence; the
connection, the protocol layer, the codecs of the wire, the log and the
snapshot, and a replica that views its vectors. Proofs of the ring, of the
connection, of replication, of both writers, of the cache with its refinement,
of persistence, of the event loop, of the codec and of what rests on it: framing,
the log and the snapshot. Every invariant of a passing run but `FileIsStream` is
stated by a theorem.

Left: the sections of a snapshot that hold nodes and vectors, as words of the
file like those of the store; a PSYNC repeated on one connection, which would
make `AskedOnce` superfluous; and the errors of `accept4`.
