------------------------------- MODULE TcpConn -------------------------------
(***************************************************************************)
(* One connection: TcpConn, its registration with epoll, and the socket    *)
(* below it.  Data sent is a sequence of units, which the socket may split *)
(* anywhere; the socket takes as many as it has room for.                  *)
(*                                                                         *)
(* The methods of TcpConn are operators that map the connection before the *)
(* call to the connection after it, so that the handlers of other modules  *)
(* can call them; each makes at most one system call that transfers data.  *)
(* HandleIO, HandleRead and HandleWrite, which loop over such calls, are   *)
(* steps between which the peer goes on.                                   *)
(*                                                                         *)
(* epoll is edge triggered: the connection gets into the ready list when   *)
(* data, the end of the stream or an error arrives, when a full socket     *)
(* becomes writable again, or when epoll_ctl finds it ready; it leaves the *)
(* list when epoll_wait reports it, with all the events that hold then.    *)
(***************************************************************************)
EXTENDS Integers, Sequences

CONSTANTS
    SndBuf,     \* capacity of the send buffer of the socket, in units
    LowWater,   \* free units from which epoll calls the socket writable
    RecvMax     \* bytes one recv() returns at most (the 4096 of Recv)

ASSUME TcpConnAssumption ==
    /\ SndBuf \in Nat \ {0} /\ LowWater \in 1..SndBuf
    /\ RecvMax \in Nat \ {0}

VARIABLES
    conn,       \* the connection, see NewConn
    pc,         \* what HandleIO is doing: nothing (wait), read, callback,
                \* write or close
    ev,         \* the events epoll_wait reported that are still to be handled
    got         \* what the peer has read

tcpVars == <<conn, pc, ev, got>>

NewConn ==
    [closed  |-> FALSE,     \* closed_
     input   |-> <<>>,      \* input_buffer_
     fresh   |-> FALSE,     \* has_data of HandleRead
     out     |-> <<>>,      \* output_buffer_
     sending |-> FALSE,     \* sendfile_fd_ >= 0
     rest    |-> <<>>,      \* the sendfile_remaining_ bytes of the file
     post    |-> <<>>,      \* post_sendfile_buffer_
     tail    |-> <<>>,      \* what the callback sendfile_done_ will send
     armed   |-> FALSE,     \* EPOLLOUT is in the event mask
     queued  |-> FALSE,     \* in the ready list of epoll
     recvq   |-> <<>>,      \* the receive queue of the socket
     fin     |-> FALSE,     \* the peer has shut its side down
     dead    |-> FALSE,     \* the peer has reset the connection
     wire    |-> <<>>,      \* the send queue of the socket
     files   |-> 0,         \* history: SendFile calls that were accepted
     done    |-> 0,         \* history: calls of sendfile_done_
     log     |-> <<>>]      \* history: the units accepted, in order

Least(a, b) == IF a < b THEN a ELSE b

Room(c)     == SndBuf - Len(c.wire)
Writable(c) == Room(c) >= LowWater
Readable(c) == c.recvq # <<>> \/ c.fin \/ c.dead

-----------------------------------------------------------------------------

\* ModEvent: epoll looks whether the new mask is ready
ModEvent(c, out) ==
    [c EXCEPT !.armed = out,
              !.queued = @ \/ Readable(c) \/ (out /\ Writable(c))]

EnableWrite(c)  == ModEvent(c, TRUE)
DisableWrite(c) == IF c.closed THEN c ELSE ModEvent(c, FALSE)

\* A ClearSendFile(false) that calls the callback without a file in flight
ClearSendFileAgain(c) ==
    [c EXCEPT !.sending = FALSE, !.rest = <<>>, !.tail = <<>>, !.post = <<>>,
              !.done = @ + 1]

\* ClearSendFile(false): what was queued behind the file is dropped
ClearSendFileFailed(c) ==
    [c EXCEPT !.sending = FALSE, !.rest = <<>>, !.tail = <<>>, !.post = <<>>,
              !.done = IF c.sending THEN @ + 1 ELSE @]

\* Close: once; DelEvent takes the connection out of the ready list
Close(c) ==
    IF c.closed THEN c
    ELSE [ClearSendFileFailed(c) EXCEPT
              !.closed = TRUE, !.armed = FALSE, !.queued = FALSE]

\* send() of d, of which the socket takes n units; the others go to
\* output_buffer_ (all of them on EAGAIN)
Direct(c, d) ==
    LET n == Least(Room(c), Len(d))
        a == [c EXCEPT !.wire = @ \o SubSeq(d, 1, n),
                       !.out  = SubSeq(d, n + 1, Len(d)),
                       !.log  = @ \o d]
    IN  IF n < Len(d) THEN EnableWrite(a) ELSE a

\* A Send that does not wait for the file in flight
SendThrough(c, d) ==
    IF c.closed \/ d = <<>> THEN c
    ELSE IF c.out # <<>>
    THEN EnableWrite([c EXCEPT !.out = @ \o d, !.log = @ \o d])
    ELSE IF c.dead THEN Close(c)
    ELSE Direct(c, d)

\* A Send that forgets to ask for EPOLLOUT
SendUnarmed(c, d) ==
    IF c.closed \/ d = <<>> THEN c
    ELSE IF c.sending THEN [c EXCEPT !.post = @ \o d, !.log = @ \o d]
    ELSE IF c.out # <<>> THEN [c EXCEPT !.out = @ \o d, !.log = @ \o d]
    ELSE IF c.dead THEN Close(c)
    ELSE [Direct(c, d) EXCEPT !.armed = c.armed, !.queued = c.queued]

\* Send
Send(c, d) ==
    IF c.closed \/ d = <<>> THEN c
    ELSE IF c.sending THEN [c EXCEPT !.post = @ \o d, !.log = @ \o d]
    ELSE IF c.out # <<>>
    THEN EnableWrite([c EXCEPT !.out = @ \o d, !.log = @ \o d])
    ELSE IF c.dead THEN Close(c)
    ELSE Direct(c, d)

\* ClearSendFile(true): what was queued behind the file is next, then the
\* callback sends
FileCleared(c) ==
    [c EXCEPT !.sending = FALSE, !.rest = <<>>, !.tail = <<>>,
              !.out = @ \o c.post, !.post = <<>>, !.done = @ + 1]

ClearSendFileDone(c) ==
    Send(IF c.post # <<>> THEN EnableWrite(FileCleared(c)) ELSE FileCleared(c),
         c.tail)

\* A SendFile that leaves EPOLLOUT to what was sent before
BeginSendFileUnarmed(c, file, tail) ==
    IF c.closed \/ c.sending THEN c
    ELSE [c EXCEPT !.sending = TRUE, !.rest = file, !.tail = tail,
                   !.files = @ + 1, !.log = @ \o file]

\* SendFile up to its call of HandleWrite.  tail is what the callback will
\* send.  One file at a time; open and fstat are taken to succeed.
BeginSendFile(c, file, tail) ==
    IF c.closed \/ c.sending THEN c
    ELSE EnableWrite([c EXCEPT !.sending = TRUE, !.rest = file, !.tail = tail,
                               !.files = @ + 1, !.log = @ \o file])

\* OutputBufferedBytes
OutputBuffered(c) == Len(c.out) + Len(c.post) + Len(c.rest)

-----------------------------------------------------------------------------

TcpInit == conn = NewConn /\ pc = "wait" /\ ev = {} /\ got = <<>>

\* What HandleIO does next about the events in s, in its order
Step(s) == IF conn'.closed THEN "wait"
           ELSE IF "in" \in s THEN "read"
           ELSE IF "out" \in s THEN "write"
           ELSE IF "hup" \in s THEN "close" ELSE "wait"

\* The handler of event e is through
Handled(e) == ev' = (IF conn'.closed THEN {} ELSE ev \ {e}) /\ pc' = Step(ev \ {e})

\* epoll_wait reports the connection with the events that hold now
Deliver ==
    /\ pc = "wait" /\ conn.queued
    /\ conn' = [conn EXCEPT !.queued = FALSE]
    /\ ev' = (IF Readable(conn) THEN {"in"} ELSE {}) \cup
             (IF conn.armed /\ (Writable(conn) \/ conn.dead) THEN {"out"} ELSE {}) \cup
             (IF conn.fin \/ conn.dead THEN {"hup"} ELSE {})
    /\ pc' = Step(ev')
    /\ UNCHANGED got

\* HandleRead: recv() returns data
Recv ==
    /\ pc = "read" /\ conn.recvq # <<>>
    /\ LET n == Least(RecvMax, Len(conn.recvq))
       IN  conn' = [conn EXCEPT !.input = @ \o SubSeq(conn.recvq, 1, n),
                                !.recvq = SubSeq(@, n + 1, Len(@)),
                                !.fresh = TRUE]
    /\ UNCHANGED <<pc, ev, got>>

\* HandleRead: recv() returns 0 or an error.  What was read is not handled.
RecvEnd ==
    /\ pc = "read" /\ conn.recvq = <<>> /\ (conn.fin \/ conn.dead)
    /\ conn' = Close([conn EXCEPT !.fresh = FALSE])
    /\ Handled("in")
    /\ UNCHANGED got

\* HandleRead: recv() returns EAGAIN, and read_cb_ is called if there was data
RecvAgain ==
    /\ pc = "read" /\ conn.recvq = <<>> /\ ~conn.fin /\ ~conn.dead
    /\ IF conn.fresh
       THEN conn' = [conn EXCEPT !.fresh = FALSE] /\ pc' = "callback" /\ UNCHANGED ev
       ELSE UNCHANGED conn /\ Handled("in")
    /\ UNCHANGED got

\* read_cb_ returns with the connection c
CallbackReturns(c) ==
    /\ pc = "callback"
    /\ conn' = c
    /\ Handled("in")
    /\ UNCHANGED got

\* HandleWrite: send() of output_buffer_
WriteOut ==
    /\ pc = "write" /\ conn.out # <<>> /\ ~conn.dead
    /\ LET n == Least(Room(conn), Len(conn.out))
       IN  IF n > 0
           THEN /\ conn' = [conn EXCEPT
                               !.wire = @ \o SubSeq(conn.out, 1, n),
                               !.out = SubSeq(@, n + 1, Len(@))]
                /\ UNCHANGED <<pc, ev>>
           ELSE UNCHANGED conn /\ Handled("out")
    /\ UNCHANGED got

\* HandleWrite: sendfile() of what is left of the file
WriteFile ==
    /\ pc = "write" /\ conn.out = <<>> /\ conn.rest # <<>> /\ ~conn.dead
    /\ LET n == Least(Room(conn), Len(conn.rest))
       IN  IF n > 0
           THEN /\ conn' = [conn EXCEPT
                               !.wire = @ \o SubSeq(conn.rest, 1, n),
                               !.rest = SubSeq(@, n + 1, Len(@))]
                /\ UNCHANGED <<pc, ev>>
           ELSE UNCHANGED conn /\ Handled("out")
    /\ UNCHANGED got

\* HandleWrite: the file is out, and the loop goes round again
WriteFileDone ==
    /\ pc = "write" /\ conn.out = <<>> /\ conn.sending /\ conn.rest = <<>>
    /\ conn' = ClearSendFileDone(conn)
    /\ UNCHANGED <<pc, ev, got>>

\* HandleWrite: nothing is left
WriteDone ==
    /\ pc = "write" /\ conn.out = <<>> /\ ~conn.sending
    /\ conn' = DisableWrite(conn)
    /\ Handled("out")
    /\ UNCHANGED got

\* HandleWrite: send() or sendfile() fails, because the peer is gone or the
\* file cannot be read
WriteFails ==
    /\ pc = "write"
    /\ (conn.out # <<>> /\ conn.dead) \/ (conn.out = <<>> /\ conn.rest # <<>>)
    /\ conn' = Close(ClearSendFileFailed(conn))
    /\ Handled("out")
    /\ UNCHANGED got

\* HandleIO: EPOLLERR, EPOLLHUP or EPOLLRDHUP
HangUp ==
    /\ pc = "close"
    /\ conn' = Close(conn)
    /\ Handled("hup")
    /\ UNCHANGED got

-----------------------------------------------------------------------------

\* A byte of the peer arrives
Arrive(b) ==
    /\ ~conn.closed /\ ~conn.fin /\ ~conn.dead
    /\ conn' = [conn EXCEPT !.recvq = Append(@, b), !.queued = TRUE]
    /\ UNCHANGED <<pc, ev, got>>

\* The peer shuts down its side, or resets the connection
PeerFin ==
    /\ ~conn.closed /\ ~conn.fin /\ ~conn.dead
    /\ conn' = [conn EXCEPT !.fin = TRUE, !.queued = TRUE]
    /\ UNCHANGED <<pc, ev, got>>

PeerReset ==
    /\ ~conn.closed /\ ~conn.dead
    /\ conn' = [conn EXCEPT !.dead = TRUE, !.queued = TRUE]
    /\ UNCHANGED <<pc, ev, got>>

\* The peer reads a unit, which may make the socket writable again
Drained(c) ==
    LET d == [c EXCEPT !.wire = Tail(@)]
    IN  [d EXCEPT !.queued = @ \/ (d.armed /\ Writable(d) /\ ~Writable(c))]

PeerRead ==
    /\ conn.wire # <<>> /\ ~conn.dead
    /\ got' = Append(got, Head(conn.wire))
    /\ conn' = Drained(conn)
    /\ UNCHANGED <<pc, ev>>

\* The steps of the connection itself, but for the read callback
Loop == \/ Deliver \/ Recv \/ RecvEnd \/ RecvAgain \/ HangUp
        \/ WriteOut \/ WriteFile \/ WriteFileDone \/ WriteDone \/ WriteFails

-----------------------------------------------------------------------------

\* The units accepted reach the peer in the order of the calls, each once: a
\* reply that is sent while a file is in flight follows the file, and what
\* the completion callback sends follows that.  A connection that is closed
\* has delivered a beginning of them.
StreamOrder ==
    IF conn.closed
    THEN \E rest \in 0..Len(conn.log) :
             got \o conn.wire = SubSeq(conn.log, 1, rest)
    ELSE got \o conn.wire \o conn.out \o conn.rest \o conn.post = conn.log

\* No wakeup is lost: between two events, a connection with output left waits
\* for EPOLLOUT and is either in the ready list or not writable, and one with
\* input, an end of stream or an error to handle is in the ready list.
NoLostWakeup ==
    (pc = "wait" /\ ~conn.closed) =>
        /\ (conn.out # <<>> \/ conn.sending) =>
               conn.armed /\ (conn.queued \/ ~Writable(conn))
        /\ Readable(conn) => conn.queued

\* The callback of SendFile is called once for every file, however it ends:
\* when the file is out, when a write fails, or when the connection closes.
DoneOnce == conn.done = IF conn.sending THEN conn.files - 1 ELSE conn.files
=============================================================================
