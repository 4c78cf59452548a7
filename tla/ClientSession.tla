--------------------------- MODULE ClientSession ---------------------------
(***************************************************************************)
(* A client and the server: the bytes of the client come in over a TcpConn *)
(* (module TcpConn), ProtocolExecutor cuts them into requests (module      *)
(* RespDecode), RequestContext and the dispatchers carry them out on the   *)
(* KvStore, the AOF and the replication, and the replies go back over the  *)
(* same connection.  A client that asks for PSYNC becomes a replica: its   *)
(* connection also carries the RDB file, the backlog and the frames of     *)
(* later writes.                                                           *)
(*                                                                         *)
(* The client sends one of the given scripts, byte by byte: a script is a  *)
(* sequence of requests on the wire, perhaps followed by bytes that are    *)
(* not one.  The name of a command is one letter.  The vector commands are *)
(* those of SemanticCache, partial resynchronisation that of Replication.  *)
(***************************************************************************)
EXTENDS TcpConn, RespDecode, RdbFormat

CONSTANTS
    Scripts,        \* what the client may send, see MCClientSession
    Roles,          \* "master", "replica": the roles of the server examined
    RdbFile,        \* the units of the RDB file
    OutputLimit,    \* kReplicaOutputLimit, in units
    MaxOthers       \* bound: writes of other clients

ASSUME ClientSessionAssumption ==
    RdbFile \in Seq([kind : {"rdb"}, body : Seq(STRING)])

\* Where request i of script s ends in its bytes
EndOf(s, i) == IF i = 0 THEN 0 ELSE s.ends[i]

\* The requests of a script are those its bytes hold: each of them is a frame,
\* the one behind the other, and what follows the last one is not
IsScript(s) ==
    /\ s.bytes \in Seq(STRING) /\ s.reqs \in Seq(Seq(Seq(STRING)))
    /\ s.ends \in Seq(0..Len(s.bytes)) /\ Len(s.ends) = Len(s.reqs)
    /\ \A i \in 1..Len(s.reqs) :
           /\ EndOf(s, i - 1) < EndOf(s, i)
           /\ DecodeArrayOfBulk(SubSeq(s.bytes, EndOf(s, i - 1) + 1, EndOf(s, i))) =
                  [st |-> "ok", pos |-> EndOf(s, i) - EndOf(s, i - 1) + 1,
                   tokens |-> s.reqs[i]]
    /\ DecodeArrayOfBulk(SubSeq(s.bytes, EndOf(s, Len(s.reqs)) + 1, Len(s.bytes))).st # "ok"

ASSUME ScriptsAssumption == \A s \in Scripts : IsScript(s)

VARIABLES
    script,         \* the script of the client
    sent,           \* bytes of it that have arrived
    srv,            \* the server behind the connection, see InitSrv
    batch,          \* batch of OnBufferReadable
    others          \* writes of other clients so far

vars == <<tcpVars, script, sent, srv, batch, others>>

InitSrv(role) ==
    [replica_readonly |-> role = "replica",
     store  |-> <<>>,       \* KvStore::map_
     aof    |-> <<>>,       \* the frames handed to WalManager
     failed |-> FALSE,      \* the AOF writer has failed
     missed |-> FALSE,      \* history: a write was not logged
     saving |-> "no",       \* save_in_progress(): "no", or what the child is for
     image  |-> <<>>,       \* the store as the last child forked has it
     slave  |-> "none",     \* the Slave of this connection: its state
     ran    |-> <<>>]       \* history: the requests dispatched

-----------------------------------------------------------------------------

\* ParseCommandType, which ignores case
ParseCommandType(name) ==
    CASE name \in {<<"S">>, <<"s">>} -> "SET"
      [] name \in {<<"G">>, <<"g">>} -> "GET"
      [] name \in {<<"D">>, <<"d">>} -> "DEL"
      [] name \in {<<"P">>, <<"p">>} -> "PING"
      [] name \in {<<"E">>, <<"e">>} -> "ECHO"
      [] name \in {<<"B">>, <<"b">>} -> "SAVE"
      [] name \in {<<"Y">>, <<"y">>} -> "PSYNC"
      [] OTHER -> "UNKNOWN"

Arity == [SET |-> {3}, GET |-> {2}, DEL |-> {2}, PING |-> {1, 2},
          ECHO |-> {2}, SAVE |-> {1}, PSYNC |-> {1, 3}, UNKNOWN |-> {}]

HasKey == {"SET", "GET", "DEL"}

\* RequestContext::FromTokens.  A request that it rejects is dispatched all
\* the same, with its command and without its arguments.
FromTokens(tokens) ==
    LET cmd == IF tokens = <<>> THEN "UNKNOWN" ELSE ParseCommandType(tokens[1])
        ok  == /\ Len(tokens) \in Arity[cmd]
               /\ cmd \in HasKey => tokens[2] # <<>>
    IN  [cmd |-> cmd,
         key |-> IF ok /\ cmd \in HasKey THEN tokens[2] ELSE <<>>,
         element |-> IF ok /\ cmd = "SET" THEN tokens[3]
                     ELSE IF ok /\ cmd \in {"PING", "ECHO"} /\ Len(tokens) = 2
                     THEN tokens[2] ELSE <<>>]

\* RespProtocolHandler::TryParse: the request at the beginning of the buffer
TryParse(buf) ==
    LET d == DecodeArrayOfBulk(buf)
    IN  [st |-> d.st, consumed |-> d.pos - 1, tokens |-> d.tokens,
         ctx |-> FromTokens(d.tokens)]

\* MessageBuffer::ReadCompleted
ReadCompleted(buf, n) == SubSeq(buf, n + 1, Len(buf))

\* What a reply, a replication message or a piece of the file is in the stream
Unit(kind, body) == [kind |-> kind, body |-> body]

-----------------------------------------------------------------------------

\* The state of a round of ProtocolExecutor, x: the connection, the server and
\* the replies batched so far.  A dispatcher maps it to the next one.

Replied(x, kind, body) == [x EXCEPT !.batch = Append(@, Unit(kind, body))]

\* FeedEncodedFrame, as far as this connection is a slave: one that is too
\* slow is closed.  The close callback removes the slave.
FeedEncodedFrame(x, frame) ==
    LET c == Send(x.conn, <<Unit("frame", frame)>>)
        d == IF OutputBuffered(c) > OutputLimit THEN Close(c) ELSE c
    IN  IF x.srv.slave # "synced" THEN x
        ELSE [x EXCEPT !.conn = d,
                       !.srv.slave = IF d.closed THEN "none" ELSE @]

WriteTokens(ctx) == IF ctx.cmd = "SET" THEN <<<<"S">>, ctx.key, ctx.element>>
                    ELSE <<<<"D">>, ctx.key>>

\* KvStore::Set and KvStore::Del
Applied(store, ctx) ==
    IF ctx.cmd = "SET"
    THEN [k \in DOMAIN store \cup {ctx.key} |-> IF k = ctx.key THEN ctx.element ELSE store[k]]
    ELSE [k \in DOMAIN store \ {ctx.key} |-> store[k]]

\* WalManager::Replay of the file: one command after the other, until there is
\* none that is complete and in order.  The shortest frame has 4 bytes.
ReplayOne(file, acc) ==
    LET d == DecodeArrayOfBulk(SubSeq(file, acc.off, Len(file)))
        ctx == FromTokens(d.tokens)
    IN  IF ~acc.going \/ d.st # "ok" \/ ctx.key = <<>>
        THEN [acc EXCEPT !.going = FALSE]
        ELSE [going |-> TRUE, off |-> acc.off + d.pos - 1,
              store |-> Applied(acc.store, ctx)]

Replay(file) ==
    FoldLeft(LAMBDA acc, i : ReplayOne(file, acc),
             [going |-> TRUE, off |-> 1, store |-> <<>>],
             [i \in 1..(Len(file) \div 4) |-> i]).store

\* An ApplyMutation that logs a DEL that found nothing, and not the others
ApplyMutationLogsMiss(x, ctx) ==
    LET hit   == ctx.key \in DOMAIN x.srv.store
        frame == EncodeCommand(WriteTokens(ctx))
        a     == [x EXCEPT !.srv.store = Applied(@, ctx)]
        okay  == IF ctx.cmd = "SET" THEN Unit("+OK", <<>>) ELSE Unit(":1", <<>>)
    IN  IF ctx.key = <<>> THEN Replied(x, "-ERR empty key", <<>>)
        ELSE IF ctx.cmd = "DEL" /\ hit THEN Replied(a, ":1", <<>>)
        ELSE IF x.srv.failed
        THEN Replied([a EXCEPT !.srv.missed = TRUE], "-ERR aof append failed", <<>>)
        ELSE LET b == FeedEncodedFrame([a EXCEPT !.srv.aof = Append(@, frame)], frame)
             IN  [b EXCEPT !.batch = Append(@, okay)]

\* ApplyMutation of a client's SET or DEL, and the reply of KvsDispatcher
ApplyMutation(x, ctx) ==
    LET hit   == ctx.key \in DOMAIN x.srv.store
        frame == EncodeCommand(WriteTokens(ctx))
        a     == [x EXCEPT !.srv.store = Applied(@, ctx)]
        okay  == IF ctx.cmd = "SET" THEN Unit("+OK", <<>>) ELSE Unit(":1", <<>>)
    IN  IF ctx.key = <<>> THEN Replied(x, "-ERR empty key", <<>>)
        ELSE IF ctx.cmd = "DEL" /\ ~hit THEN Replied(x, ":0", <<>>)
        ELSE IF x.srv.failed
        THEN Replied([a EXCEPT !.srv.missed = TRUE], "-ERR aof append failed", <<>>)
        ELSE LET b == FeedEncodedFrame([a EXCEPT !.srv.aof = Append(@, frame)], frame)
             IN  [b EXCEPT !.batch = Append(@, okay)]

\* KvsDispatcher, kGet
GetReply(x, ctx) ==
    IF ctx.key = <<>> THEN Replied(x, "-ERR get failed", <<>>)
    ELSE IF ctx.key \notin DOMAIN x.srv.store THEN Replied(x, "$-1", <<>>)
    ELSE Replied(x, "$", x.srv.store[ctx.key])

\* BackgroundSaveToPath forks a child, for dump.rdb or for the slaves.  A fork
\* that fails, and the error the client or the waiting slaves get for it, is in
\* Replication.
Forked(server, path) == [server EXCEPT !.saving = path, !.image = server.store]

\* PersistDispatcher: BackgroundSave forks unless a child is running
SaveReply(x) ==
    IF x.srv.saving # "no"
    THEN Replied(x, "-ERR Background save already in progress", <<>>)
    ELSE Replied([x EXCEPT !.srv = Forked(@, "dump")], "+OK", <<>>)

\* AssistDispatcher
AssistReply(x, ctx) ==
    IF ctx.cmd = "PING" /\ ctx.element = <<>> THEN Replied(x, "+PONG", <<>>)
    ELSE Replied(x, "$", ctx.element)

\* ReplicationDispatcher: OnPsync registers the connection and does not reply;
\* StartFullsyncIfNeeded forks unless a child is running
PsyncReply(x) ==
    LET waiting == [x.srv EXCEPT !.slave = "wait"]
    IN  IF x.conn.closed THEN Replied(x, "-unknown connection", <<>>)
        ELSE [x EXCEPT !.srv = IF waiting.saving = "no"
                               THEN Forked(waiting, "fullsync") ELSE waiting]

\* HandlerRegister::Dispatch with the table CommandHandler fills in.  A replica
\* has no ReplicationMaster.
Registered(x, ctx) ==
    CASE ctx.cmd \in {"SET", "DEL"}   -> ApplyMutation(x, ctx)
      [] ctx.cmd = "GET"              -> GetReply(x, ctx)
      [] ctx.cmd \in {"PING", "ECHO"} -> AssistReply(x, ctx)
      [] ctx.cmd = "SAVE"             -> SaveReply(x)
      [] ctx.cmd = "PSYNC" /\ ~x.srv.replica_readonly -> PsyncReply(x)
      [] OTHER                        -> Replied(x, "-ERR unknown command", <<>>)

\* CommandHandler::Dispatch: a replica refuses the writes of its clients
Dispatch(x, ctx) ==
    IF x.srv.replica_readonly /\ ctx.cmd \in {"SET", "DEL", "SAVE"}
    THEN Replied(x, "-READONLY", <<>>)
    ELSE Registered(x, ctx)

-----------------------------------------------------------------------------

Init == /\ TcpInit
        /\ script \in Scripts /\ sent = 0
        /\ srv \in {InitSrv(role) : role \in Roles}
        /\ batch = <<>> /\ others = 0

\* A close callback that leaves the slave registered
SlaveFollowsStale ==
    srv' = [srv EXCEPT !.slave = IF conn'.done > conn.done THEN "synced" ELSE @]

\* The close callback removes the slave; a file that was sent is followed by
\* the backlog, and the slave is in sync (SendBacklogToSlave)
SlaveFollows ==
    srv' = [srv EXCEPT !.slave = IF conn'.closed THEN "none"
                                 ELSE IF conn'.done > conn.done THEN "synced"
                                 ELSE @]

\* A step of HandleIO
Io == /\ Loop
      /\ SlaveFollows
      /\ UNCHANGED <<script, sent, batch, others>>

\* A round that takes one frame and forgets what is behind it in the buffer
ExecuteForgets ==
    /\ pc = "callback"
    /\ \E d \in {TryParse(conn.input)} :
        /\ d.st = "ok"
        /\ \E x \in {Dispatch([conn |-> [conn EXCEPT !.input = <<>>],
                               srv |-> [srv EXCEPT !.ran = Append(@, d.tokens)],
                               batch |-> batch], d.ctx)} :
               conn' = x.conn /\ srv' = x.srv /\ batch' = x.batch
    /\ UNCHANGED <<pc, ev, got, script, sent, others>>

\* OnBufferReadable, one turn of its loop: a complete frame is taken out of
\* the buffer and dispatched
Execute ==
    /\ pc = "callback"
    /\ \E d \in {TryParse(conn.input)} :
        /\ d.st = "ok"
        /\ \E x \in {Dispatch([conn |-> [conn EXCEPT !.input = ReadCompleted(@, d.consumed)],
                               srv |-> [srv EXCEPT !.ran = Append(@, d.tokens)],
                               batch |-> batch], d.ctx)} :
               conn' = x.conn /\ srv' = x.srv /\ batch' = x.batch
    /\ UNCHANGED <<pc, ev, got, script, sent, others>>

\* OnBufferReadable returns: the replies are sent at once.  A malformed frame
\* stays in the buffer, and the connection stays open.
ExecuteEnds ==
    /\ pc = "callback"
    /\ \E d \in {TryParse(conn.input)} :
        /\ d.st # "ok"
        /\ LET flushed == Send(conn, batch)
           IN  CallbackReturns(IF d.st = "more" THEN flushed
                   ELSE Send(flushed, <<Unit("-ERR protocol error", <<>>)>>))
    /\ SlaveFollows
    /\ batch' = <<>>
    /\ UNCHANGED <<script, sent, others>>

\* OnSaveDone of the child for the slaves, SendRdbToSlave: the header, then the
\* file, which HandleWrite begins to send
SendRdb ==
    /\ pc = "wait" /\ srv.saving = "fullsync" /\ srv.slave = "wait"
    /\ conn' = BeginSendFile(Send(conn, <<Unit("+FULLRESYNC", <<>>)>>), RdbFile,
                             <<Unit("backlog", <<>>)>>)
    /\ srv' = [srv EXCEPT !.saving = "no",
                          !.slave = IF conn'.closed THEN "none" ELSE "sending"]
    /\ IF conn'.closed THEN UNCHANGED <<pc, ev>>
       ELSE pc' = "write" /\ ev' = {"out"}
    /\ UNCHANGED <<got, script, sent, batch, others>>

\* OnSaveDone, and the child has failed: the slave is told and forgotten, its
\* connection stays open
FullsyncFails ==
    /\ pc = "wait" /\ srv.saving = "fullsync" /\ srv.slave = "wait"
    /\ conn' = Send(conn, <<Unit("-ERR fullsync save failed", <<>>)>>)
    /\ srv' = [srv EXCEPT !.saving = "no", !.slave = "none"]
    /\ UNCHANGED <<pc, ev, got, script, sent, batch, others>>

\* Another client's write, in the handler of its connection
OtherWrite ==
    /\ pc = "wait" /\ others < MaxOthers /\ ~srv.replica_readonly
    /\ LET x == ApplyMutation([conn |-> conn, srv |-> srv, batch |-> <<>>],
                              [cmd |-> "SET", key |-> <<"k">>, element |-> <<"o">>])
       IN  conn' = x.conn /\ srv' = x.srv
    /\ others' = others + 1
    /\ UNCHANGED <<pc, ev, got, script, sent, batch>>

\* The AOF writer fails
AofFails ==
    /\ ~srv.failed /\ srv' = [srv EXCEPT !.failed = TRUE]
    /\ UNCHANGED <<tcpVars, script, sent, batch, others>>

\* OnSaveDone of a child that no slave waits for; one that waits gets its own
SaveReaped ==
    /\ pc = "wait" /\ srv.saving # "no"
    /\ srv.saving = "fullsync" => srv.slave # "wait"
    /\ srv' = IF srv.slave = "wait" THEN Forked(srv, "fullsync")
              ELSE [srv EXCEPT !.saving = "no"]
    /\ UNCHANGED <<tcpVars, script, sent, batch, others>>

\* The client
ClientSends ==
    /\ sent < Len(script.bytes) /\ Len(conn.recvq) < RecvMax
    /\ Arrive(script.bytes[sent + 1])
    /\ sent' = sent + 1
    /\ UNCHANGED <<script, srv, batch, others>>

ClientEnds ==
    /\ PeerFin \/ PeerReset
    /\ UNCHANGED <<script, sent, srv, batch, others>>

ClientReads ==
    /\ PeerRead
    /\ UNCHANGED <<script, sent, srv, batch, others>>

Next == \/ Io \/ Execute \/ ExecuteEnds
        \/ SendRdb \/ FullsyncFails \/ SaveReaped \/ OtherWrite \/ AofFails
        \/ ClientSends \/ ClientEnds \/ ClientReads

\* The event loop goes on, the read callback returns, and the client reads what
\* it is sent.  Nothing is assumed of what it sends, nor that a fullsync begins.
Fairness == WF_vars(Io) /\ []<>(pc # "callback") /\ WF_vars(ClientReads)

Spec == Init /\ [][Next]_vars /\ Fairness

-----------------------------------------------------------------------------

\* How many requests of the script are complete in its first n bytes
Complete(n) == Cardinality({i \in DOMAIN script.ends : script.ends[i] <= n})

\* The bytes of the client are cut into its requests, which are carried out
\* once each and in order, wherever TCP cut them: between two events every
\* complete request that was read has been carried out, and nothing else has
\* (docs/Network/MessageBuffer.md, TCP fragmentation / coalescing).
Framing ==
    /\ IsPrefix(srv.ran, script.reqs)
    /\ (~conn.closed /\ ~conn.fresh /\ pc # "callback") =>
           Len(srv.ran) = Complete(sent - Len(conn.recvq))

\* As long as the AOF takes every frame, replaying it gives the store: what
\* EncodeWriteCommand wrote decodes to the command that was carried out, and
\* every command that changed the store is logged (docs/Persist/Aof.md).
LogReproducesStore == ~srv.missed => Replay(FlattenSeq(srv.aof)) = srv.store

\* The snapshot a child writes, for dump.rdb or for a slave, is the store at
\* the fork, and nothing short of all of it can be loaded, whatever the store
\* of the loader holds by then (docs/Persist/Snapshot.md, Load path).
SnapshotLoads == srv.saving # "no" => LoadsWholeOnly(srv.image, srv.store)

\* The Slave of the connection and the connection agree between two events: a
\* fullsync is in flight exactly while the socket is sending a file, and no
\* slave is left behind by a connection that was closed, however it was
\* (docs/Persist/Replication.md).
SlaveMatchesConn ==
    pc = "wait" => /\ srv.slave = "sending" <=> conn.sending
                   /\ conn.closed => srv.slave = "none"

\* The answers the client has got, without what it gets as a replica
Answers == SelectSeq(got, LAMBDA u : u.kind \notin
    {"+FULLRESYNC", "rdb", "backlog", "frame", "-ERR fullsync save failed"})

\* The first i requests of the script that get a reply
Due(i) == {j \in DOMAIN script.reqs :
              j <= i /\ FromTokens(script.reqs[j]).cmd # "PSYNC"}

\* Every complete request that arrives is answered, in its turn, unless the
\* connection is closed: again and again all that has arrived is answered.  The
\* scripts end, so that this is an answer to each of their requests.
Answered ==
    []<>(conn.closed \/ Len(Answers) >= Cardinality(Due(Complete(sent))))
=============================================================================
