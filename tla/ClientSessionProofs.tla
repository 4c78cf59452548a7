------------------------- MODULE ClientSessionProofs -------------------------
(***************************************************************************)
(* The connection of a client, whatever the client sends, whatever the     *)
(* dispatchers reply and whatever is replicated over it: the units that    *)
(* were accepted arrive in order, no wakeup is lost, the callback of a     *)
(* file is called once, and the Slave of a connection goes with it.        *)
(* Then the requests themselves: each is dispatched once, wherever TCP cut *)
(* the stream; the log of the writes replays to the store; and a snapshot  *)
(* loads as the store at the fork.                                         *)
(*                                                                         *)
(* The first part is about the methods of TcpConn, for every capacity of   *)
(* the socket, all data and every caller: a call may come at any time, so  *)
(* each lemma is about a connection c in any state that is Good.  The      *)
(* second part shows that every step of the server calls them in such a    *)
(* state, the third follows the Slave through the handlers.                *)
(* The others are about the codec, for all tokens and all bytes, about     *)
(* what the dispatchers may do to the server, about the bytes between the  *)
(* client and the parser (FedInv), about the log (LogInv) and about the    *)
(* file of a snapshot (Layout, Loaded, MapInv).                            *)
(*                                                                         *)
(* Good(c, S, g, p) is the strengthening of the three properties of module *)
(* TcpConn: g is what the peer has read, and p says what HandleIO has      *)
(* still to handle: "out" for EPOLLOUT, "in" while it is in HandleRead.    *)
(* S is a set of units large enough for all that was sent so far.          *)
(***************************************************************************)
EXTENDS ClientSession, SequenceTheorems, FiniteSetTheorems, TLAPS

ConnFields ==
    {"closed", "input", "fresh", "out", "sending", "rest", "post", "tail",
     "armed", "queued", "recvq", "fin", "dead", "wire", "files", "done", "log"}

\* c has the fields of a connection
IsConn(c) == \E U : c \in [ConnFields -> U]

Typed(c, S, g) ==
    /\ IsConn(c)
    /\ c.closed \in BOOLEAN /\ c.sending \in BOOLEAN /\ c.armed \in BOOLEAN
    /\ c.queued \in BOOLEAN /\ c.fin \in BOOLEAN /\ c.dead \in BOOLEAN
    /\ c.out \in Seq(S) /\ c.rest \in Seq(S) /\ c.post \in Seq(S)
    /\ c.tail \in Seq(S) /\ c.wire \in Seq(S) /\ c.log \in Seq(S)
    /\ g \in Seq(S)
    /\ Len(c.wire) <= SndBuf
    /\ c.files \in Int /\ c.done \in Int

\* There is something behind a file only while one is in flight, and a closed
\* connection has neither a file nor a registration with epoll
Shape(c) ==
    /\ ~c.sending => c.rest = <<>> /\ c.post = <<>>
    /\ c.closed => ~c.sending /\ ~c.armed /\ ~c.queued

Counted(c) == c.done = IF c.sending THEN c.files - 1 ELSE c.files

\* \o, kept from the provers' own treatment of sequences
Cat(s, t) == s \o t

\* A sequence up to position n, and what is behind it
Lead(d, n) == SubSeq(d, 1, n)
Back(d, n)  == SubSeq(d, n + 1, Len(d))

\* What was read by the peer, is in the socket, in output_buffer_, in the file,
\* and behind the file
Flow(g, w, o, r, p) == Cat(g, Cat(w, Cat(o, Cat(r, p))))

\* e is the empty sequence
Neutral(S, e) == e \in Seq(S) /\ \A s \in Seq(S) : Cat(s, e) = s /\ Cat(e, s) = s

Ordered(c, S, g) ==
    IF c.closed THEN \E t \in Seq(S) : Cat(g, Cat(c.wire, t)) = c.log
    ELSE Flow(g, c.wire, c.out, c.rest, c.post) = c.log

WakesOut(c, p) ==
    ~c.closed /\ (c.out # <<>> \/ c.sending) =>
        c.armed /\ (c.queued \/ ~Writable(c) \/ "out" \in p)

WakesIn(c, p) == ~c.closed /\ Readable(c) => c.queued \/ "in" \in p

Good(c, S, g, p) ==
    /\ Typed(c, S, g) /\ Shape(c) /\ Counted(c)
    /\ Ordered(c, S, g) /\ WakesOut(c, p) /\ WakesIn(c, p)

-----------------------------------------------------------------------------
(* Sequences *)

(* A sequence is what is before a position and what is behind it.            *)
LEMMA Cut ==
    ASSUME NEW S, NEW d \in Seq(S), NEW n \in 0..Len(d)
    PROVE  /\ SubSeq(d, 1, n) \in Seq(S) /\ SubSeq(d, n + 1, Len(d)) \in Seq(S)
           /\ SubSeq(d, 1, n) \o SubSeq(d, n + 1, Len(d)) = d
           /\ Len(SubSeq(d, 1, n)) = n
           /\ SubSeq(d, n + 1, Len(d)) = <<>> <=> n = Len(d)
<1>1. Len(d) \in Nat /\ \A i \in 1..Len(d) : d[i] \in S
  BY LenProperties, ElementOfSeq
<1>2. SubSeq(d, 1, n) \in Seq(S) /\ Len(SubSeq(d, 1, n)) = n
  BY <1>1, SubSeqProperties
<1>3. /\ SubSeq(d, n + 1, Len(d)) \in Seq(S)
      /\ Len(SubSeq(d, n + 1, Len(d))) = Len(d) - n
  BY <1>1, SubSeqProperties
<1>4. SubSeq(d, 1, n) \o SubSeq(d, n + 1, Len(d)) = SubSeq(d, 1, Len(d))
  <2>1. 1 \in 1..Len(d) + 1 /\ n \in 1 - 1..Len(d) /\ Len(d) \in n..Len(d)
    BY <1>1
  <2> QED BY <2>1, ConcatAdjacentSubSeq
<1>5. SubSeq(d, 1, Len(d)) = d
  BY SubSeqFull
<1>6. SubSeq(d, n + 1, Len(d)) = <<>> <=> n = Len(d)
  <2> DEFINE u == SubSeq(d, n + 1, Len(d))
  <2>1. u \in Seq(S) /\ Len(u) = Len(d) - n
    BY <1>3
  <2>2. u = <<>> <=> Len(u) = 0
    BY <2>1, EmptySeq
  <2> QED BY <1>1, <2>1, <2>2
<1> QED BY <1>2, <1>3, <1>4, <1>5, <1>6

(* The same, for the provers: the two pieces by name.                        *)
LEMMA Pieces ==
    ASSUME NEW S, NEW d \in Seq(S), NEW n \in 0..Len(d)
    PROVE  /\ Lead(d, n) \in Seq(S) /\ Back(d, n) \in Seq(S)
           /\ Cat(Lead(d, n), Back(d, n)) = d
           /\ Len(Lead(d, n)) = n
           /\ Back(d, n) = <<>> <=> n = Len(d)
<1>1. /\ SubSeq(d, 1, n) \in Seq(S) /\ SubSeq(d, n + 1, Len(d)) \in Seq(S)
      /\ Len(SubSeq(d, 1, n)) = n
  BY Cut
<1>2. SubSeq(d, 1, n) \o SubSeq(d, n + 1, Len(d)) = d
  BY Cut
<1>3. SubSeq(d, n + 1, Len(d)) = <<>> <=> n = Len(d)
  BY Cut, ZenonT(60)
<1>4. Cat(Lead(d, n), Back(d, n)) = d
  BY <1>2 DEF Cat, Lead, Back
<1> QED BY <1>1, <1>3, <1>4 DEF Lead, Back

(* The first sequence of a concatenation is a beginning of it.               *)
LEMMA Beginning ==
    ASSUME NEW S, NEW s \in Seq(S), NEW t \in Seq(S)
    PROVE  /\ Len(s) \in 0..Len(s \o t)
           /\ s = SubSeq(s \o t, 1, Len(s))
<1>1. /\ s \o t \in Seq(S) /\ Len(s \o t) = Len(s) + Len(t)
      /\ \A i \in 1..Len(s) + Len(t) :
            (s \o t)[i] = IF i <= Len(s) THEN s[i] ELSE t[i - Len(s)]
  BY ConcatProperties
<1>2. Len(s) \in Nat /\ Len(t) \in Nat
  BY LenProperties
<1>3. \A i \in 1..Len(s) : (s \o t)[i] = s[i] /\ s[i] \in S
  BY <1>1, <1>2, ElementOfSeq
<1>4. /\ SubSeq(s \o t, 1, Len(s)) \in Seq(S)
      /\ Len(SubSeq(s \o t, 1, Len(s))) = Len(s)
      /\ \A i \in 1..Len(s) : SubSeq(s \o t, 1, Len(s))[i] = (s \o t)[i]
  BY <1>2, <1>3, SubSeqProperties
<1>5. s = SubSeq(s \o t, 1, Len(s))
  BY <1>3, <1>4, SeqEqual
<1> QED BY <1>1, <1>2, <1>5

(* Concatenation, with the facts about it that are used below: it stays in   *)
(* Seq(S), it is associative, and the empty sequence is neutral.             *)
LEMMA CatType ==
    ASSUME NEW S, NEW s \in Seq(S), NEW t \in Seq(S)
    PROVE  Cat(s, t) \in Seq(S)
BY ConcatProperties DEF Cat

LEMMA CatAssoc ==
    ASSUME NEW S, NEW s \in Seq(S), NEW t \in Seq(S), NEW u \in Seq(S)
    PROVE  Cat(Cat(s, t), u) = Cat(s, Cat(t, u))
BY ConcatAssociative DEF Cat

LEMMA CatEmpty ==
    ASSUME NEW S, NEW e, e = <<>>
    PROVE  Neutral(S, e)
<1>1. \A s \in Seq(S) : Cat(s, <<>>) = s /\ Cat(<<>>, s) = s
  BY ConcatEmptySeq DEF Cat
<1> QED BY <1>1, EmptySeq DEF Neutral

LEMMA NeutralIsEmpty ==
    ASSUME NEW S, NEW e, Neutral(S, e)
    PROVE  e = <<>>
<1>1. Neutral(S, <<>>)
  BY CatEmpty
<1>2. Cat(<<>>, e) = <<>> /\ Cat(<<>>, e) = e
  BY <1>1 DEF Neutral
<1> QED BY <1>2

(* The flow of a connection and the places at which it grows or moves on.    *)
LEMMA FlowType ==
    ASSUME NEW S, NEW g \in Seq(S), NEW w \in Seq(S), NEW o \in Seq(S),
           NEW r \in Seq(S), NEW p \in Seq(S)
    PROVE  Flow(g, w, o, r, p) \in Seq(S)
<1>1. Cat(r, p) \in Seq(S)
  BY CatType
<1>2. Cat(o, Cat(r, p)) \in Seq(S)
  BY <1>1, CatType
<1>3. Cat(w, Cat(o, Cat(r, p))) \in Seq(S)
  BY <1>2, CatType
<1> QED BY <1>3, CatType DEF Flow

(* Data appended to the last part of the flow is appended to the flow.       *)
LEMMA FlowPost ==
    ASSUME NEW S, NEW g \in Seq(S), NEW w \in Seq(S), NEW o \in Seq(S),
           NEW r \in Seq(S), NEW p \in Seq(S), NEW d \in Seq(S)
    PROVE  Flow(g, w, o, r, Cat(p, d)) = Cat(Flow(g, w, o, r, p), d)
<1>1. Cat(r, Cat(p, d)) = Cat(Cat(r, p), d)
  BY CatAssoc
<1>2. Cat(r, p) \in Seq(S)
  BY CatType
<1>3. Cat(o, Cat(Cat(r, p), d)) = Cat(Cat(o, Cat(r, p)), d)
  BY <1>2, CatAssoc
<1>4. Cat(o, Cat(r, p)) \in Seq(S)
  BY <1>2, CatType
<1>5. Cat(w, Cat(Cat(o, Cat(r, p)), d)) = Cat(Cat(w, Cat(o, Cat(r, p))), d)
  BY <1>4, CatAssoc
<1>6. Cat(w, Cat(o, Cat(r, p))) \in Seq(S)
  BY <1>4, CatType
<1>7. Cat(g, Cat(Cat(w, Cat(o, Cat(r, p))), d)) =
      Cat(Cat(g, Cat(w, Cat(o, Cat(r, p)))), d)
  BY <1>6, CatAssoc
<1> QED BY <1>1, <1>3, <1>5, <1>7 DEF Flow

(* Data accepted when nothing is behind the output buffer: as more output, or *)
(* as a file.  e stands for the parts that are empty.                        *)
LEMMA FlowGrows ==
    ASSUME NEW S, NEW g \in Seq(S), NEW w \in Seq(S), NEW o \in Seq(S),
           NEW d \in Seq(S), NEW e, Neutral(S, e)
    PROVE  /\ Flow(g, w, Cat(o, d), e, e) = Cat(Flow(g, w, o, e, e), d)
           /\ Flow(g, w, o, d, e) = Cat(Flow(g, w, o, e, e), d)
           /\ Flow(g, w, Cat(o, d), e, e) = Flow(g, w, o, e, d)
<1>1. Cat(d, e) = d /\ Cat(e, d) = d /\ Cat(e, e) = e /\ e \in Seq(S)
  BY DEF Neutral
<1>2. Cat(Cat(o, d), e) = Cat(o, d)
  BY CatType DEF Neutral
<1>3. /\ Flow(g, w, o, d, e) = Flow(g, w, o, e, d)
      /\ Flow(g, w, Cat(o, d), e, e) = Flow(g, w, o, e, d)
  BY <1>1, <1>2 DEF Flow
<1>4. Flow(g, w, o, e, Cat(e, d)) = Cat(Flow(g, w, o, e, e), d)
  BY <1>1, FlowPost
<1> QED BY <1>1, <1>3, <1>4

(* Moving the beginning of the output to the socket changes nothing, nor does *)
(* moving the beginning of the file when there is no output before it.       *)
LEMMA FlowMoves ==
    ASSUME NEW S, NEW g \in Seq(S), NEW w \in Seq(S), NEW a \in Seq(S),
           NEW b \in Seq(S), NEW r \in Seq(S), NEW p \in Seq(S)
    PROVE  Flow(g, Cat(w, a), b, r, p) = Flow(g, w, Cat(a, b), r, p)
<1>1. Cat(r, p) \in Seq(S)
  BY CatType
<1>2. Cat(b, Cat(r, p)) \in Seq(S)
  BY <1>1, CatType
<1>3. Cat(Cat(w, a), Cat(b, Cat(r, p))) = Cat(w, Cat(a, Cat(b, Cat(r, p))))
  BY <1>2, CatAssoc
<1>4. Cat(a, Cat(b, Cat(r, p))) = Cat(Cat(a, b), Cat(r, p))
  BY <1>1, CatAssoc
<1> QED BY <1>3, <1>4 DEF Flow

LEMMA FlowMovesFile ==
    ASSUME NEW S, NEW g \in Seq(S), NEW w \in Seq(S), NEW a \in Seq(S),
           NEW b \in Seq(S), NEW p \in Seq(S), NEW e, Neutral(S, e)
    PROVE  Flow(g, Cat(w, a), e, b, p) = Flow(g, w, e, Cat(a, b), p)
<1>1. Cat(b, p) \in Seq(S) /\ Cat(a, b) \in Seq(S)
  BY CatType
<1>2. Cat(Cat(w, a), Cat(b, p)) = Cat(w, Cat(a, Cat(b, p)))
  BY <1>1, CatAssoc
<1>3. Cat(a, Cat(b, p)) = Cat(Cat(a, b), p)
  BY CatAssoc
<1>4. /\ Cat(e, Cat(b, p)) = Cat(b, p)
      /\ Cat(e, Cat(Cat(a, b), p)) = Cat(Cat(a, b), p)
  BY <1>1, CatType DEF Neutral
<1> QED BY <1>2, <1>3, <1>4 DEF Flow

(* A unit that the peer reads moves from the socket to what it has read.     *)
LEMMA FlowRead ==
    ASSUME NEW S, NEW g \in Seq(S), NEW w \in Seq(S), w # <<>>
    PROVE  /\ Append(g, Head(w)) \in Seq(S) /\ Tail(w) \in Seq(S)
           /\ Len(Tail(w)) = Len(w) - 1
           /\ \A t \in Seq(S) :
                 Cat(Append(g, Head(w)), Cat(Tail(w), t)) = Cat(g, Cat(w, t))
<1>1. /\ Head(w) \in S /\ Tail(w) \in Seq(S) /\ Len(Tail(w)) = Len(w) - 1
  BY HeadTailProperties
<1>2. Append(g, Head(w)) = Cat(g, <<Head(w)>>) /\ Append(g, Head(w)) \in Seq(S)
  BY <1>1, AppendIsConcat, AppendProperties DEF Cat
<1>3. <<Head(w)>> \in Seq(S)
  BY <1>1
<1>4. w = Cat(<<Head(w)>>, Tail(w))
  <2>1. /\ Len(w) \in Nat \ {0} /\ Tail(w) = SubSeq(w, 2, Len(w))
        /\ Head(w) = w[1]
    BY LenProperties, EmptySeq, TailIsSubSeq
  <2>2. 1 \in 1..Len(w) /\ Len(w) \in 1..Len(w)
    BY <2>1
  <2>3. SubSeq(w, 1, Len(w)) = <<w[1]>> \o SubSeq(w, 1 + 1, Len(w))
    BY <2>2, SubSeqRecursiveFirst
  <2> QED BY <2>1, <2>3, SubSeqFull DEF Cat
<1>5. PICK h \in Seq(S), r \in Seq(S) :
         Append(g, Head(w)) = Cat(g, h) /\ w = Cat(h, r) /\ r = Tail(w)
  BY <1>1, <1>2, <1>3, <1>4
<1>6. ASSUME NEW t \in Seq(S)
      PROVE  Cat(Append(g, Head(w)), Cat(Tail(w), t)) = Cat(g, Cat(w, t))
  <2>1. Cat(r, t) \in Seq(S)
    BY CatType
  <2>2. Cat(Cat(g, h), Cat(r, t)) = Cat(g, Cat(h, Cat(r, t)))
    BY <2>1, CatAssoc
  <2>3. Cat(h, Cat(r, t)) = Cat(Cat(h, r), t)
    BY CatAssoc
  <2> QED BY <1>5, <2>2, <2>3
<1> QED BY <1>1, <1>2, <1>6

(* The flow is the concatenation that StreamOrder names.                     *)
LEMMA FlowIs ==
    ASSUME NEW S, NEW g \in Seq(S), NEW w \in Seq(S), NEW o \in Seq(S),
           NEW r \in Seq(S), NEW p \in Seq(S)
    PROVE  g \o w \o o \o r \o p = Flow(g, w, o, r, p)
<1>1. Cat(g, w) \in Seq(S) /\ Cat(r, p) \in Seq(S)
  BY CatType
<1>2. Cat(Cat(g, w), o) \in Seq(S) /\ Cat(o, Cat(r, p)) \in Seq(S)
  BY <1>1, CatType
<1>3. Cat(Cat(Cat(Cat(g, w), o), r), p) = Cat(Cat(Cat(g, w), o), Cat(r, p))
  BY <1>2, CatAssoc
<1>4. @ = Cat(Cat(g, w), Cat(o, Cat(r, p)))
  BY <1>1, CatAssoc
<1>5. @ = Flow(g, w, o, r, p)
  BY <1>2, CatAssoc DEF Flow
<1> QED BY <1>3, <1>4, <1>5 DEF Cat

-----------------------------------------------------------------------------
(* The methods *)

(* A connection of which one field is changed is a connection.               *)
LEMMA ExceptIsConn ==
    ASSUME NEW c, IsConn(c), NEW f \in ConnFields, NEW x
    PROVE  IsConn([c EXCEPT ![f] = x])
<1>1. PICK U : c \in [ConnFields -> U]
  BY DEF IsConn
<1>2. [c EXCEPT ![f] = x] \in [ConnFields -> U \cup {x}]
  BY <1>1
<1> QED BY <1>2 DEF IsConn

(* Close keeps a connection good, whatever it was doing: what has reached    *)
(* the socket is a beginning of what was accepted, and the callback of the   *)
(* file in flight has been called.                                           *)
LEMMA CloseKeeps ==
    ASSUME NEW S, NEW g, NEW c, NEW p,
           Good(c, S, g, p)
    PROVE  /\ Good(Close(c), S, g, p)
           /\ Close(c).closed
           /\ Close(c).out = c.out
<1> DEFINE z == Close(c)
<1>1. CASE c.closed
  BY <1>1 DEF Close, Good
<1>2. CASE ~c.closed
  <2>1. /\ IsConn(z)
        /\ z.closed = TRUE /\ z.out = c.out /\ z.sending = FALSE
        /\ z.rest = <<>> /\ z.post = <<>> /\ z.tail = <<>>
        /\ z.armed = FALSE /\ z.queued = FALSE /\ z.fin = c.fin
        /\ z.dead = c.dead /\ z.wire = c.wire /\ z.log = c.log
        /\ z.files = c.files
        /\ z.done = IF c.sending THEN c.done + 1 ELSE c.done
    <3>1. IsConn(c)
      BY DEF Good, Typed
    <3>2. IsConn(z)
      BY <1>2, <3>1, ExceptIsConn DEF Close, ClearSendFileFailed, ConnFields
    <3> QED BY <1>2, <3>1, <3>2 DEF Close, ClearSendFileFailed, IsConn, Good, Typed, ConnFields
  <2>2. Typed(z, S, g)
    <3>1. /\ z.closed \in BOOLEAN /\ z.sending \in BOOLEAN
          /\ z.armed \in BOOLEAN /\ z.queued \in BOOLEAN
      BY <2>1
    <3>2. /\ z.fin \in BOOLEAN /\ z.dead \in BOOLEAN /\ z.out \in Seq(S)
          /\ z.wire \in Seq(S) /\ Len(z.wire) <= SndBuf /\ z.log \in Seq(S)
          /\ g \in Seq(S) /\ z.files \in Int /\ z.done \in Int
      BY <2>1 DEF Good, Typed
    <3>3. z.rest \in Seq(S) /\ z.post \in Seq(S) /\ z.tail \in Seq(S)
      BY <2>1, EmptySeq
    <3> QED BY <2>1, <3>1, <3>2, <3>3 DEF Typed
  <2>3. Shape(z)
    BY <2>1 DEF Shape
  <2>4. Counted(z)
    BY <2>1 DEF Good, Typed, Counted
  <2>5. Ordered(z, S, g)
    <3>1. c.out \in Seq(S) /\ c.rest \in Seq(S) /\ c.post \in Seq(S)
      BY DEF Good, Typed
    <3>2. Cat(c.out, Cat(c.rest, c.post)) \in Seq(S)
      BY <3>1, CatType
    <3>3. Cat(g, Cat(c.wire, Cat(c.out, Cat(c.rest, c.post)))) = c.log
      BY <1>2 DEF Good, Ordered, Flow
    <3> QED BY <2>1, <3>2, <3>3 DEF Ordered
  <2>6. WakesOut(z, p) /\ WakesIn(z, p)
    BY <2>1 DEF WakesOut, WakesIn
  <2> QED BY <2>1, <2>2, <2>3, <2>4, <2>5, <2>6 DEF Good
<1> QED BY <1>1, <1>2

(* Data that waits behind a file, or behind other output, is appended to the *)
(* flow; EPOLLOUT is asked for whenever there is output.                     *)
LEMMA SendQueues ==
    ASSUME NEW S, NEW g, NEW c, NEW p,
           NEW d \in Seq(S), Good(c, S, g, p), ~c.closed,
           c.sending \/ c.out # <<>>, d # <<>>
    PROVE  Good(Send(c, d), S, g, p) /\ ~Send(c, d).closed
<1> DEFINE z == Send(c, d)
<1>0. /\ IsConn(c) /\ c.out \in Seq(S) /\ c.rest \in Seq(S) /\ c.post \in Seq(S)
      /\ c.wire \in Seq(S) /\ g \in Seq(S) /\ c.log \in Seq(S)
      /\ c.log = Flow(g, c.wire, c.out, c.rest, c.post)
  BY DEF Good, Typed, Ordered
<1>1. CASE c.sending
  <2>1. /\ IsConn(z)
        /\ z.closed = c.closed /\ z.out = c.out /\ z.sending = c.sending
        /\ z.rest = c.rest /\ z.post = Cat(c.post, d) /\ z.tail = c.tail
        /\ z.armed = c.armed /\ z.queued = c.queued /\ z.recvq = c.recvq
        /\ z.fin = c.fin /\ z.dead = c.dead /\ z.wire = c.wire
        /\ z.log = Cat(c.log, d) /\ z.files = c.files /\ z.done = c.done
    <3>1. IsConn(c)
      BY DEF Good, Typed
    <3>2. IsConn(z)
      BY <1>0, <1>1, <3>1, ExceptIsConn DEF Send, ConnFields
    <3> QED BY <1>0, <1>1, <3>1, <3>2 DEF Send, IsConn, Cat, ConnFields
  <2>2. z.post \in Seq(S) /\ z.log \in Seq(S)
    BY <1>0, <2>1, CatType
  <2>3. Typed(z, S, g)
    BY <2>1, <2>2 DEF Good, Typed
  <2>4. Shape(z) /\ Counted(z)
    BY <1>1, <2>1 DEF Good, Shape, Counted
  <2>5. Ordered(z, S, g)
    <3>1. Flow(g, c.wire, c.out, c.rest, Cat(c.post, d)) =
          Cat(Flow(g, c.wire, c.out, c.rest, c.post), d)
      <4>1. /\ c.out \in Seq(S) /\ c.rest \in Seq(S) /\ c.post \in Seq(S)
            /\ c.wire \in Seq(S) /\ g \in Seq(S)
        BY <1>0
      <4>2. \A w, u, r, x \in Seq(S) :
               Flow(g, w, u, r, Cat(x, d)) = Cat(Flow(g, w, u, r, x), d)
        BY <4>1, FlowPost
      <4> QED BY <4>1, <4>2
    <3> QED BY <1>0, <2>1, <3>1 DEF Ordered
  <2>6. WakesOut(z, p) /\ WakesIn(z, p)
    BY <2>1 DEF Good, WakesOut, WakesIn, Writable, Readable, Room
  <2> QED BY <2>1, <2>3, <2>4, <2>5, <2>6 DEF Good
<1>2. CASE ~c.sending
  <2>1. /\ IsConn(z)
        /\ z.closed = c.closed /\ z.out = Cat(c.out, d) /\ z.sending = c.sending
        /\ z.rest = c.rest /\ z.post = c.post /\ z.tail = c.tail
        /\ z.armed = TRUE
        /\ z.queued = (c.queued \/ Readable(c) \/ Writable(c))
        /\ z.recvq = c.recvq
        /\ z.fin = c.fin /\ z.dead = c.dead /\ z.wire = c.wire
        /\ z.log = Cat(c.log, d) /\ z.files = c.files /\ z.done = c.done
    <3>1. IsConn(c)
      BY DEF Good, Typed
    <3>2. IsConn(z)
      BY <1>0, <1>2, <3>1, ExceptIsConn DEF Send, EnableWrite, ModEvent, ConnFields
    <3> QED BY <1>0, <1>2, <3>1, <3>2 DEF Send, EnableWrite, ModEvent, Readable, Writable, Room, IsConn, Cat, ConnFields
  <2>2. z.out \in Seq(S) /\ z.log \in Seq(S)
    BY <1>0, <2>1, CatType
  <2>3. Typed(z, S, g)
    BY <2>1, <2>2 DEF Good, Typed
  <2>4. Shape(z) /\ Counted(z)
    BY <1>2, <2>1 DEF Good, Shape, Counted
  <2>5. Ordered(z, S, g)
    <3>1. c.rest = <<>> /\ c.post = <<>>
      BY <1>2 DEF Good, Shape
    <3>2. Neutral(S, c.rest) /\ c.post = c.rest
      BY <3>1, CatEmpty
    <3>3. Flow(g, c.wire, Cat(c.out, d), c.rest, c.rest) =
          Cat(Flow(g, c.wire, c.out, c.rest, c.rest), d)
      BY <1>0, <3>2, FlowGrows
    <3> QED BY <1>0, <2>1, <3>2, <3>3 DEF Ordered
  <2>6. WakesOut(z, p) /\ WakesIn(z, p)
    BY <2>1 DEF Good, WakesOut, WakesIn, Writable, Readable, Room
  <2> QED BY <2>1, <2>3, <2>4, <2>5, <2>6 DEF Good
<1> QED BY <1>1, <1>2

(* What the socket does not take at once waits in output_buffer_, and the    *)
(* socket is then full.                                                      *)
LEMMA DirectKeeps ==
    ASSUME NEW S, NEW g, NEW c, NEW p,
           NEW d \in Seq(S), Good(c, S, g, p), ~c.closed,
           ~c.sending, c.out = <<>>
    PROVE  Good(Direct(c, d), S, g, p) /\ ~Direct(c, d).closed
<1> DEFINE z == Direct(c, d)
           n == Least(Room(c), Len(d))
<1>0. /\ IsConn(c) /\ c.wire \in Seq(S) /\ g \in Seq(S) /\ c.log \in Seq(S)
      /\ c.rest = <<>> /\ c.post = <<>> /\ Len(c.wire) <= SndBuf
      /\ c.log = Flow(g, c.wire, <<>>, <<>>, <<>>)
  BY DEF Good, Typed, Ordered, Shape
<1>1. /\ Len(c.wire) \in Nat /\ Len(d) \in Nat /\ SndBuf \in Nat /\ LowWater \in Nat \ {0}
  BY <1>0, LenProperties, TcpConnAssumption
<1>2. /\ n \in 0..Len(d) /\ n <= SndBuf - Len(c.wire)
      /\ n < Len(d) => n = SndBuf - Len(c.wire)
  <2>1. Room(c) = SndBuf - Len(c.wire)
    BY DEF Room
  <2>2. \A x, y \in Int : Least(x, y) = IF x < y THEN x ELSE y
    BY DEF Least
  <2> QED BY <1>0, <1>1, <2>1, <2>2
<1> HIDE DEF n
<1>3. PICK a \in Seq(S), b \in Seq(S) :
        /\ a = Lead(d, n) /\ b = Back(d, n)
        /\ Cat(a, b) = d /\ Len(a) = n /\ (b = <<>> <=> n = Len(d))
  <2>1. n \in 0..Len(d)
    BY <1>2
  <2> QED BY <2>1, Pieces
<1>4. Cat(c.wire, a) \in Seq(S) /\ Len(Cat(c.wire, a)) = Len(c.wire) + n
  <2>1. \A s \in Seq(S) : Cat(s, a) \in Seq(S) /\ Len(Cat(s, a)) = Len(s) + Len(a)
    BY ConcatProperties DEF Cat
  <2> QED BY <1>0, <1>3, <2>1
<1>5. /\ IsConn(z)
      /\ z.closed = c.closed /\ z.out = b /\ z.sending = c.sending
      /\ z.rest = c.rest /\ z.post = c.post /\ z.tail = c.tail
      /\ z.recvq = c.recvq /\ z.fin = c.fin /\ z.dead = c.dead
      /\ z.wire = Cat(c.wire, a)
      /\ z.log = Cat(c.log, d) /\ z.files = c.files /\ z.done = c.done
      /\ n < Len(d) => z.armed = TRUE
      /\ n < Len(d) => z.queued \in BOOLEAN /\ (c.queued \/ Readable(c) => z.queued)
      /\ ~(n < Len(d)) => z.armed = c.armed /\ z.queued = c.queued
  <2>1. IsConn(c)
    BY DEF Good, Typed
  <2>2. IsConn(z)
    BY <1>0, <1>3, <2>1, ExceptIsConn DEF Direct, EnableWrite, ModEvent, n, ConnFields
  <2> QED BY <1>0, <1>3, <2>1, <2>2 DEF Direct, EnableWrite, ModEvent, Readable, Writable, Room, IsConn, Cat, Lead, Back, n, ConnFields
<1>6. Typed(z, S, g)
  <2>1. z.log \in Seq(S) /\ z.out \in Seq(S) /\ z.wire \in Seq(S) /\ Len(z.wire) <= SndBuf
    BY <1>0, <1>1, <1>2, <1>4, <1>5, CatType
  <2>2. z.armed \in BOOLEAN /\ z.queued \in BOOLEAN
    BY <1>5 DEF Good, Typed
  <2> QED BY <1>5, <2>1, <2>2 DEF Good, Typed
<1>7. Shape(z) /\ Counted(z)
  BY <1>5 DEF Good, Shape, Counted
<1>8. Ordered(z, S, g)
  <2>1. PICK e \in Seq(S) : e = <<>> /\ Neutral(S, e)
    BY EmptySeq, CatEmpty
  <2>2. g \in Seq(S) /\ c.wire \in Seq(S) /\ Neutral(S, e)
    BY <1>0, <2>1
  <2>3. Flow(g, Cat(c.wire, a), b, e, e) = Flow(g, c.wire, Cat(a, b), e, e)
    BY <2>2, FlowMoves
  <2>4. Flow(g, c.wire, Cat(e, d), e, e) = Cat(Flow(g, c.wire, e, e, e), d)
    BY <2>2, FlowGrows
  <2>5. Cat(e, d) = d
    BY <2>2 DEF Neutral
  <2>6. c.log = Flow(g, c.wire, e, e, e) /\ z.rest = e /\ z.post = e
    BY <1>0, <1>5, <2>1
  <2> QED BY <1>3, <1>5, <2>3, <2>4, <2>5, <2>6 DEF Ordered
<1>9. WakesOut(z, p)
  <2>1. CASE n < Len(d)
    BY <1>1, <1>2, <1>4, <1>5, <2>1 DEF WakesOut, Writable, Room
  <2>2. CASE ~(n < Len(d))
    BY <1>1, <1>2, <1>3, <1>5, <2>2 DEF WakesOut
  <2> QED BY <2>1, <2>2
<1>10. WakesIn(z, p)
  BY <1>5 DEF Good, WakesIn, Readable
<1> QED BY <1>5, <1>6, <1>7, <1>8, <1>9, <1>10 DEF Good

(* Send, in whatever state it finds the connection.                          *)
LEMMA SendKeeps ==
    ASSUME NEW S, NEW g, NEW c, NEW p,
           NEW d \in Seq(S), Good(c, S, g, p)
    PROVE  /\ Good(Send(c, d), S, g, p)
           /\ Send(c, d).closed => c.closed \/ Send(c, d).out = <<>>
           /\ c.closed => Send(c, d) = c
<1>1. CASE c.closed \/ d = <<>>
  BY <1>1 DEF Send
<1>2. CASE ~c.closed /\ d # <<>> /\ (c.sending \/ c.out # <<>>)
  BY <1>2, SendQueues
<1>3. CASE ~c.closed /\ d # <<>> /\ ~c.sending /\ c.out = <<>> /\ c.dead
  <2>1. Send(c, d) = Close(c)
    BY <1>3 DEF Send
  <2> QED BY <1>3, <2>1, CloseKeeps
<1>4. CASE ~c.closed /\ d # <<>> /\ ~c.sending /\ c.out = <<>> /\ ~c.dead
  <2>1. Send(c, d) = Direct(c, d)
    BY <1>4 DEF Send
  <2> QED BY <1>4, <2>1, DirectKeeps
<1>5. c.closed \in BOOLEAN /\ c.sending \in BOOLEAN /\ c.dead \in BOOLEAN
  BY DEF Good, Typed
<1> QED BY <1>1, <1>2, <1>3, <1>4, <1>5

(* SendFile takes the place behind all that was accepted before it.          *)
LEMMA BeginSendFileKeeps ==
    ASSUME NEW S, NEW g, NEW c, NEW p, NEW file \in Seq(S),
           NEW tail \in Seq(S), Good(c, S, g, p)
    PROVE  /\ Good(BeginSendFile(c, file, tail), S, g, p)
           /\ BeginSendFile(c, file, tail).closed = c.closed
<1> DEFINE z == BeginSendFile(c, file, tail)
<1>1. CASE c.closed \/ c.sending
  BY <1>1 DEF BeginSendFile
<1>2. CASE ~c.closed /\ ~c.sending
  <2>0. /\ IsConn(c) /\ c.out \in Seq(S) /\ c.rest = <<>> /\ c.post = <<>>
        /\ c.wire \in Seq(S) /\ g \in Seq(S) /\ c.log \in Seq(S)
        /\ c.log = Flow(g, c.wire, c.out, c.rest, c.post)
    BY <1>2 DEF Good, Typed, Ordered, Shape
  <2>1. /\ IsConn(z)
        /\ z.closed = c.closed /\ z.out = c.out /\ z.sending = TRUE
        /\ z.rest = file /\ z.post = c.post /\ z.tail = tail
        /\ z.armed = TRUE
        /\ z.queued = (c.queued \/ Readable(c) \/ Writable(c))
        /\ z.recvq = c.recvq
        /\ z.fin = c.fin /\ z.dead = c.dead /\ z.wire = c.wire
        /\ z.log = Cat(c.log, file) /\ z.files = c.files + 1 /\ z.done = c.done
    <3>1. IsConn(c)
      BY DEF Good, Typed
    <3>2. IsConn(z)
      BY <2>0, <1>2, <3>1, ExceptIsConn DEF BeginSendFile, EnableWrite, ModEvent, ConnFields
    <3> QED BY <2>0, <1>2, <3>1, <3>2 DEF BeginSendFile, EnableWrite, ModEvent, Readable, Writable, Room, IsConn, Cat, ConnFields
  <2>2. z.log \in Seq(S)
    BY <2>0, <2>1, CatType
  <2>3. Typed(z, S, g)
    <3>1. z.sending \in BOOLEAN /\ z.armed \in BOOLEAN /\ z.queued \in BOOLEAN
      BY <2>1
    <3>2. /\ z.closed \in BOOLEAN /\ z.fin \in BOOLEAN /\ z.dead \in BOOLEAN
          /\ z.post \in Seq(S) /\ Len(z.wire) <= SndBuf
          /\ z.files \in Int /\ z.done \in Int
      BY <2>1 DEF Good, Typed
    <3> QED BY <2>0, <2>1, <2>2, <3>1, <3>2 DEF Typed
  <2>4. Shape(z) /\ Counted(z)
    <3>1. c.done = c.files /\ c.files \in Int
      BY <1>2 DEF Good, Counted, Typed
    <3> QED BY <1>2, <2>1, <3>1 DEF Shape, Counted
  <2>5. Ordered(z, S, g)
    <3>1. Neutral(S, c.rest) /\ c.post = c.rest
      BY <2>0, CatEmpty
    <3>2. Flow(g, c.wire, c.out, file, c.rest) =
          Cat(Flow(g, c.wire, c.out, c.rest, c.rest), file)
      BY <2>0, <3>1, FlowGrows
    <3> QED BY <1>2, <2>0, <2>1, <3>1, <3>2 DEF Ordered
  <2>6. WakesOut(z, p) /\ WakesIn(z, p)
    BY <2>1 DEF Good, WakesOut, WakesIn, Writable, Readable, Room
  <2> QED BY <2>1, <2>3, <2>4, <2>5, <2>6 DEF Good
<1>3. c.closed \in BOOLEAN /\ c.sending \in BOOLEAN
  BY DEF Good, Typed
<1> QED BY <1>1, <1>2, <1>3

(* ClearSendFile(true): what waited behind the file becomes output, and what *)
(* the callback sends follows it.  HandleWrite goes on, and has neither      *)
(* output nor a rest of the file left.                                       *)
LEMMA FileDoneKeeps ==
    ASSUME NEW S, NEW g, NEW c, NEW p,
           Good(c, S, g, p),
           "out" \in p, ~c.closed, c.sending, Neutral(S, c.out), c.rest = c.out
    PROVE  /\ Good(ClearSendFileDone(c), S, g, p)
           /\ ClearSendFileDone(c).closed => ClearSendFileDone(c).out = <<>>
<1> DEFINE b == IF c.post # <<>> THEN EnableWrite(FileCleared(c)) ELSE FileCleared(c)
<1>0. /\ IsConn(c) /\ c.out \in Seq(S) /\ c.post \in Seq(S) /\ c.tail \in Seq(S)
      /\ c.wire \in Seq(S) /\ g \in Seq(S) /\ c.armed
      /\ c.log = Flow(g, c.wire, c.out, c.rest, c.post)
      /\ c.done = c.files - 1 /\ c.files \in Int
  BY DEF Good, Typed, Ordered, WakesOut, Counted
<1>1. c.armed = TRUE /\ c.queued \in BOOLEAN
  BY <1>0 DEF Good, Typed
<1>2. /\ IsConn(b)
      /\ b.closed = c.closed /\ b.out = Cat(c.out, c.post) /\ b.sending = FALSE
      /\ b.rest = <<>> /\ b.post = <<>> /\ b.tail = <<>>
      /\ b.armed = TRUE /\ b.queued \in BOOLEAN /\ (c.queued => b.queued)
      /\ b.recvq = c.recvq /\ b.fin = c.fin /\ b.dead = c.dead
      /\ b.wire = c.wire /\ b.log = c.log /\ b.files = c.files
      /\ b.done = c.done + 1
  <2> DEFINE a == FileCleared(c)
  <2>1. /\ a.closed = c.closed /\ a.out = Cat(c.out, c.post) /\ a.sending = FALSE
        /\ a.rest = <<>> /\ a.post = <<>> /\ a.tail = <<>>
        /\ a.armed = c.armed /\ a.queued = c.queued
        /\ a.recvq = c.recvq /\ a.fin = c.fin /\ a.dead = c.dead
        /\ a.wire = c.wire /\ a.log = c.log /\ a.files = c.files
        /\ a.done = c.done + 1
    BY <1>0 DEF FileCleared, IsConn, ConnFields, Cat
  <2>2. IsConn(a)
    BY <1>0, ExceptIsConn DEF FileCleared, ConnFields
  <2>3. b = IF c.post # <<>> THEN EnableWrite(a) ELSE a
    OBVIOUS
  <2> HIDE DEF a, b
  <2>4. CASE c.post # <<>>
    <3>1. b = EnableWrite(a)
      BY <2>3, <2>4
    <3>2. IsConn(b)
      BY <2>2, <3>1, ExceptIsConn DEF EnableWrite, ModEvent, ConnFields
    <3>3. /\ b.closed = a.closed /\ b.out = a.out /\ b.sending = a.sending
          /\ b.rest = a.rest /\ b.post = a.post /\ b.tail = a.tail
          /\ b.armed = TRUE
          /\ b.queued = (a.queued \/ Readable(a) \/ (TRUE /\ Writable(a)))
          /\ b.recvq = a.recvq /\ b.fin = a.fin /\ b.dead = a.dead
          /\ b.wire = a.wire /\ b.log = a.log /\ b.files = a.files
          /\ b.done = a.done
      BY <2>2, <3>1 DEF EnableWrite, ModEvent, IsConn, ConnFields
    <3> QED BY <2>1, <3>2, <3>3
  <2>5. CASE c.post = <<>>
    <3>1. b = a
      BY <2>3, <2>5
    <3> QED BY <1>1, <2>1, <2>2, <3>1
  <2> QED BY <2>4, <2>5
<1>8. ClearSendFileDone(c) = Send(b, c.tail)
  BY DEF ClearSendFileDone
<1> HIDE DEF b
<1>3. Typed(b, S, g)
  <2>1. b.out \in Seq(S)
    BY <1>0, <1>2, CatType
  <2>2. b.rest \in Seq(S) /\ b.post \in Seq(S) /\ b.tail \in Seq(S)
    BY <1>2, EmptySeq
  <2>3. b.sending \in BOOLEAN /\ b.armed \in BOOLEAN
    BY <1>2
  <2>4. b.done \in Int /\ b.files \in Int
    BY <1>0, <1>2
  <2> QED BY <1>2, <2>1, <2>2, <2>3, <2>4 DEF Good, Typed
<1>4. Shape(b) /\ Counted(b)
  BY <1>0, <1>2 DEF Shape, Counted
<1>5. Ordered(b, S, g)
  <2>1. Flow(g, c.wire, Cat(c.out, c.post), c.out, c.out) =
        Flow(g, c.wire, c.out, c.out, c.post)
    BY <1>0, FlowGrows
  <2>2. b.rest = c.out /\ b.post = c.out
    BY <1>2, NeutralIsEmpty
  <2> QED BY <1>0, <1>2, <2>1, <2>2 DEF Ordered
<1>6. WakesOut(b, p) /\ WakesIn(b, p)
  BY <1>2 DEF Good, WakesOut, WakesIn, Readable
<1>7. Good(b, S, g, p)
  BY <1>3, <1>4, <1>5, <1>6 DEF Good
<1>9. ~b.closed
  BY <1>2
<1>10. /\ Good(Send(b, c.tail), S, g, p)
       /\ Send(b, c.tail).closed => b.closed \/ Send(b, c.tail).out = <<>>
  <2>1. c.tail \in Seq(S)
    BY <1>0
  <2> QED BY <1>7, <2>1, SendKeeps
<1> QED BY <1>8, <1>9, <1>10

-----------------------------------------------------------------------------
(* The steps of the socket and of HandleIO *)

(* Steps that touch only the input side: data, an end or an error arrives or *)
(* is read, a request is taken out of the buffer.                            *)
LEMMA InputKeeps ==
    ASSUME NEW S, NEW g, NEW c, NEW z, NEW p,
           NEW k, Good(c, S, g, p), IsConn(z),
           z.closed = c.closed, z.out = c.out, z.sending = c.sending,
           z.rest = c.rest, z.post = c.post, z.tail = c.tail,
           z.armed = c.armed, z.wire = c.wire, z.files = c.files,
           z.done = c.done, z.log = c.log,
           z.fin \in BOOLEAN, z.dead \in BOOLEAN, z.queued \in BOOLEAN,
           c.queued => z.queued, c.closed => ~z.queued, WakesIn(z, k), "out" \in p => "out" \in k
    PROVE  Good(z, S, g, k)
<1>1. Typed(z, S, g)
  BY DEF Good, Typed
<1>2. Shape(z) /\ Counted(z) /\ Ordered(z, S, g)
  BY DEF Good, Shape, Counted, Ordered
<1>3. WakesOut(z, k)
  BY DEF Good, WakesOut, Writable, Room
<1> QED BY <1>1, <1>2, <1>3 DEF Good

(* epoll_wait takes the connection out of the ready list and reports what    *)
(* holds.                                                                    *)
LEMMA DeliverKeeps ==
    ASSUME NEW S, NEW g, NEW c, NEW z, Good(c, S, g, {}),
           z = [c EXCEPT !.queued = FALSE], NEW p,
           c.armed /\ Writable(c) => "out" \in p, Readable(c) => "in" \in p
    PROVE  Good(z, S, g, p)
<1>1. /\ IsConn(z)
      /\ z.closed = c.closed /\ z.out = c.out /\ z.sending = c.sending
      /\ z.rest = c.rest /\ z.post = c.post /\ z.tail = c.tail
      /\ z.armed = c.armed /\ z.wire = c.wire /\ z.files = c.files
      /\ z.done = c.done /\ z.log = c.log /\ z.fin = c.fin
      /\ z.dead = c.dead /\ z.recvq = c.recvq /\ z.queued = FALSE
  <2>1. IsConn(c)
    BY DEF Good, Typed
  <2>2. IsConn(z)
    BY <2>1, ExceptIsConn DEF ConnFields
  <2> QED BY <2>1, <2>2 DEF IsConn, ConnFields
<1>2. Typed(z, S, g)
  BY <1>1 DEF Good, Typed
<1>3. Shape(z) /\ Counted(z) /\ Ordered(z, S, g)
  BY <1>1 DEF Good, Shape, Counted, Ordered
<1>4. WakesOut(z, p)
  BY <1>1 DEF Good, WakesOut, Writable, Room
<1>5. WakesIn(z, p)
  BY <1>1 DEF WakesIn, Readable
<1> QED BY <1>2, <1>3, <1>4, <1>5 DEF Good

(* send() of the output, and sendfile() of the file when there is no output, *)
(* move a beginning of it to the socket.                                     *)
LEMMA WriteOutKeeps ==
    ASSUME NEW S, NEW g, NEW c, NEW p, NEW n \in 0..Len(c.out), NEW z,
           Good(c, S, g, p), ~c.closed, "out" \in p,
           c.out # <<>>, n <= Room(c),
           z = [c EXCEPT !.wire = @ \o SubSeq(c.out, 1, n),
                         !.out = SubSeq(@, n + 1, Len(@))]
    PROVE  Good(z, S, g, p) /\ ~z.closed
<1>0. /\ IsConn(c) /\ c.out \in Seq(S) /\ c.rest \in Seq(S) /\ c.post \in Seq(S)
      /\ c.wire \in Seq(S) /\ g \in Seq(S) /\ c.armed
      /\ c.log = Flow(g, c.wire, c.out, c.rest, c.post)
  BY DEF Good, Typed, Ordered, WakesOut
<1>1. PICK a \in Seq(S), b \in Seq(S) :
        /\ a = Lead(c.out, n) /\ b = Back(c.out, n)
        /\ Cat(a, b) = c.out /\ Len(a) = n
  <2>1. c.out \in Seq(S) /\ n \in 0..Len(c.out)
    BY <1>0
  <2> QED BY <2>1, Pieces
<1>2. Cat(c.wire, a) \in Seq(S) /\ Len(Cat(c.wire, a)) = Len(c.wire) + n
  <2>1. \A s \in Seq(S) : Cat(s, a) \in Seq(S) /\ Len(Cat(s, a)) = Len(s) + Len(a)
    BY ConcatProperties DEF Cat
  <2> QED BY <1>0, <1>1, <2>1
<1>3. IsConn(z)
  BY <1>0, ExceptIsConn DEF ConnFields
<1>4. /\ z.closed = c.closed /\ z.out = b /\ z.sending = c.sending
      /\ z.rest = c.rest /\ z.post = c.post /\ z.tail = c.tail
      /\ z.armed = c.armed /\ z.queued = c.queued
      /\ z.recvq = c.recvq /\ z.fin = c.fin /\ z.dead = c.dead
      /\ z.wire = Cat(c.wire, a) /\ z.log = c.log /\ z.files = c.files
      /\ z.done = c.done
  BY <1>0, <1>1 DEF IsConn, ConnFields, Cat, Lead, Back
<1>5. Len(z.wire) <= SndBuf
  <2>1. Len(c.wire) \in Nat /\ SndBuf \in Nat /\ n \in Int
    BY <1>0, LenProperties, TcpConnAssumption
  <2>2. n <= SndBuf - Len(c.wire)
    BY DEF Room
  <2> QED BY <1>2, <1>4, <2>1, <2>2, SMTT(40)
<1>6. Typed(z, S, g)
  BY <1>2, <1>3, <1>4, <1>5 DEF Good, Typed
<1>7. Shape(z) /\ Counted(z)
  BY <1>4 DEF Good, Shape, Counted
<1>8. Ordered(z, S, g)
  <2>1. Flow(g, Cat(c.wire, a), b, c.rest, c.post) =
        Flow(g, c.wire, Cat(a, b), c.rest, c.post)
    <3>1. /\ c.rest \in Seq(S) /\ c.post \in Seq(S) /\ c.wire \in Seq(S)
          /\ g \in Seq(S)
      BY <1>0
    <3>2. \A w, x, y \in Seq(S) :
             Flow(g, Cat(w, a), b, x, y) = Flow(g, w, Cat(a, b), x, y)
      BY <3>1, FlowMoves
    <3> QED BY <3>1, <3>2
  <2> QED BY <1>0, <1>1, <1>4, <2>1 DEF Ordered
<1>9. WakesOut(z, p) /\ WakesIn(z, p)
  BY <1>0, <1>4 DEF Good, WakesOut, WakesIn, Readable
<1> QED BY <1>4, <1>6, <1>7, <1>8, <1>9 DEF Good

LEMMA WriteFileKeeps ==
    ASSUME NEW S, NEW g, NEW c, NEW p, NEW n \in 0..Len(c.rest), NEW z,
           Good(c, S, g, p), ~c.closed, "out" \in p, c.sending,
           Neutral(S, c.out), n <= Room(c),
           z = [c EXCEPT !.wire = @ \o SubSeq(c.rest, 1, n),
                         !.rest = SubSeq(@, n + 1, Len(@))]
    PROVE  Good(z, S, g, p) /\ ~z.closed
<1>0. /\ IsConn(c) /\ c.out \in Seq(S) /\ c.rest \in Seq(S) /\ c.post \in Seq(S)
      /\ c.wire \in Seq(S) /\ g \in Seq(S) /\ c.armed
      /\ c.log = Flow(g, c.wire, c.out, c.rest, c.post)
  BY DEF Good, Typed, Ordered, WakesOut
<1>1. PICK a \in Seq(S), b \in Seq(S) :
        /\ a = Lead(c.rest, n) /\ b = Back(c.rest, n)
        /\ Cat(a, b) = c.rest /\ Len(a) = n
  <2>1. c.rest \in Seq(S) /\ n \in 0..Len(c.rest)
    BY <1>0
  <2> QED BY <2>1, Pieces
<1>2. Cat(c.wire, a) \in Seq(S) /\ Len(Cat(c.wire, a)) = Len(c.wire) + n
  <2>1. \A s \in Seq(S) : Cat(s, a) \in Seq(S) /\ Len(Cat(s, a)) = Len(s) + Len(a)
    BY ConcatProperties DEF Cat
  <2> QED BY <1>0, <1>1, <2>1
<1>3. IsConn(z)
  BY <1>0, ExceptIsConn DEF ConnFields
<1>4. /\ z.closed = c.closed /\ z.out = c.out /\ z.sending = c.sending
      /\ z.rest = b /\ z.post = c.post /\ z.tail = c.tail
      /\ z.armed = c.armed /\ z.queued = c.queued
      /\ z.recvq = c.recvq /\ z.fin = c.fin /\ z.dead = c.dead
      /\ z.wire = Cat(c.wire, a) /\ z.log = c.log /\ z.files = c.files
      /\ z.done = c.done
  BY <1>0, <1>1 DEF IsConn, ConnFields, Cat, Lead, Back
<1>5. Len(z.wire) <= SndBuf
  <2>1. Len(c.wire) \in Nat /\ SndBuf \in Nat /\ n \in Int
    BY <1>0, LenProperties, TcpConnAssumption
  <2>2. n <= SndBuf - Len(c.wire)
    BY DEF Room
  <2> QED BY <1>2, <1>4, <2>1, <2>2, SMTT(40)
<1>6. Typed(z, S, g)
  BY <1>2, <1>3, <1>4, <1>5 DEF Good, Typed
<1>7. Shape(z) /\ Counted(z)
  BY <1>4 DEF Good, Shape, Counted
<1>8. Ordered(z, S, g)
  <2>1. Flow(g, Cat(c.wire, a), c.out, b, c.post) =
        Flow(g, c.wire, c.out, Cat(a, b), c.post)
    BY <1>0, FlowMovesFile, SMTT(40)
  <2> QED BY <1>0, <1>1, <1>4, <2>1 DEF Ordered
<1>9. WakesOut(z, p) /\ WakesIn(z, p)
  BY <1>0, <1>4 DEF Good, WakesOut, WakesIn, Readable
<1> QED BY <1>4, <1>6, <1>7, <1>8, <1>9 DEF Good

\* What the peer has read when it has read one unit more
Taken(g, w) == Append(g, Head(w))

(* The peer reads a unit, from a connection that may be closed by now.  When  *)
(* that makes the socket writable again, epoll puts the connection into the  *)
(* ready list.                                                               *)
LEMMA PeerReadKeeps ==
    ASSUME NEW S, NEW g, NEW c, NEW p, NEW z, NEW j, Good(c, S, g, p),
           c.wire # <<>>, j = Taken(g, c.wire), z = Drained(c)
    PROVE  Good(z, S, j, p) /\ z.closed = c.closed /\ z.out = c.out
<1> DEFINE w == [c EXCEPT !.wire = Tail(@)]
<1>00. z = [w EXCEPT !.queued = @ \/ (w.armed /\ Writable(w) /\ ~Writable(c))]
  BY DEF Drained
<1>0. /\ IsConn(c) /\ c.wire \in Seq(S) /\ g \in Seq(S) /\ c.out \in Seq(S)
      /\ c.rest \in Seq(S) /\ c.post \in Seq(S) /\ Len(c.wire) <= SndBuf
  BY DEF Good, Typed
<1>1. PICK u \in Seq(S), h \in Seq(S) :
        /\ u = Tail(c.wire) /\ h = Taken(g, c.wire) /\ Len(u) = Len(c.wire) - 1
        /\ \A t \in Seq(S) : Cat(h, Cat(u, t)) = Cat(g, Cat(c.wire, t))
  <2>1. c.wire \in Seq(S) /\ g \in Seq(S) /\ c.wire # <<>>
    BY <1>0
  <2>2. Append(g, Head(c.wire)) \in Seq(S) /\ Tail(c.wire) \in Seq(S)
    BY <2>1, FlowRead
  <2>3. Len(Tail(c.wire)) = Len(c.wire) - 1
    BY <2>1, FlowRead
  <2>4. \A t \in Seq(S) :
           Cat(Append(g, Head(c.wire)), Cat(Tail(c.wire), t)) = Cat(g, Cat(c.wire, t))
    BY <2>1, FlowRead
  <2> QED BY <2>2, <2>3, <2>4 DEF Taken
<1>2. IsConn(w)
  BY <1>0, ExceptIsConn DEF ConnFields
<1>3. /\ w.closed = c.closed /\ w.out = c.out /\ w.sending = c.sending
      /\ w.rest = c.rest /\ w.post = c.post /\ w.tail = c.tail
      /\ w.armed = c.armed /\ w.queued = c.queued
      /\ w.recvq = c.recvq /\ w.fin = c.fin /\ w.dead = c.dead
      /\ w.wire = u /\ w.log = c.log /\ w.files = c.files
      /\ w.done = c.done
  BY <1>0, <1>1 DEF IsConn, ConnFields
<1> HIDE DEF w
<1>4. IsConn(z)
  <2>1. PICK q : z = [w EXCEPT !.queued = q]
    BY <1>00
  <2>2. IsConn([w EXCEPT !.queued = q])
    BY <1>2, ExceptIsConn DEF ConnFields
  <2> QED BY <2>1, <2>2
<1>5. /\ z.closed = w.closed /\ z.out = w.out /\ z.sending = w.sending
      /\ z.rest = w.rest /\ z.post = w.post /\ z.tail = w.tail
      /\ z.armed = w.armed
      /\ z.queued = (w.queued \/ (w.armed /\ Writable(w) /\ ~Writable(c)))
      /\ z.recvq = w.recvq /\ z.fin = w.fin /\ z.dead = w.dead
      /\ z.wire = w.wire /\ z.log = w.log /\ z.files = w.files
      /\ z.done = w.done
  BY <1>00, <1>2 DEF IsConn, ConnFields
<1>6. Typed(z, S, h)
  <2>1. Len(u) <= SndBuf
    <3>1. Len(c.wire) \in Nat /\ SndBuf \in Nat
      BY <1>0, LenProperties, TcpConnAssumption
    <3> QED BY <1>0, <1>1, <3>1
  <2> QED BY <1>3, <1>4, <1>5, <2>1 DEF Good, Typed
<1>7. Shape(z) /\ Counted(z)
  BY <1>3, <1>5 DEF Good, Shape, Counted
<1>8. Ordered(z, S, h)
  <2>1. CASE c.closed
    <3>1. PICK t \in Seq(S) : Cat(g, Cat(c.wire, t)) = c.log
      BY <2>1 DEF Good, Ordered
    <3>2. Cat(h, Cat(u, t)) = c.log
      BY <1>1, <3>1
    <3> QED BY <1>3, <1>5, <2>1, <3>2 DEF Ordered
  <2>2. CASE ~c.closed
    <3>1. Cat(c.out, Cat(c.rest, c.post)) \in Seq(S)
      BY <1>0, CatType
    <3>2. Cat(g, Cat(c.wire, Cat(c.out, Cat(c.rest, c.post)))) = c.log
      BY <2>2 DEF Good, Ordered, Flow
    <3>3. Cat(h, Cat(u, Cat(c.out, Cat(c.rest, c.post)))) = c.log
      BY <1>1, <3>1, <3>2
    <3> QED BY <1>3, <1>5, <2>2, <3>3 DEF Ordered, Flow
  <2> QED BY <2>1, <2>2
<1>9. WakesOut(z, p)
  <2>1. Writable(z) <=> Writable(w)
    BY <1>5 DEF Writable, Room
  <2> QED BY <1>3, <1>5, <2>1 DEF Good, WakesOut
<1>10. WakesIn(z, p)
  BY <1>3, <1>5 DEF Good, WakesIn, Readable
<1> QED BY <1>1, <1>3, <1>5, <1>6, <1>7, <1>8, <1>9, <1>10 DEF Good

(* HandleWrite leaves nothing behind and no longer asks for EPOLLOUT.        *)
LEMMA DisableKeeps ==
    ASSUME NEW S, NEW g, NEW c, NEW p, Good(c, S, g, p),
           c.out = <<>>, ~c.sending
    PROVE  Good(DisableWrite(c), S, g, p) /\ DisableWrite(c).out = <<>>
           /\ ~DisableWrite(c).sending
<1> DEFINE z == DisableWrite(c)
<1>1. CASE c.closed
  BY <1>1 DEF DisableWrite
<1>2. CASE ~c.closed
  <2>1. IsConn(c)
    BY DEF Good, Typed
  <2>2. IsConn(z)
    BY <1>2, <2>1, ExceptIsConn DEF DisableWrite, ModEvent, ConnFields
  <2>3. /\ z.closed = c.closed /\ z.out = c.out /\ z.sending = c.sending
        /\ z.rest = c.rest /\ z.post = c.post /\ z.tail = c.tail
        /\ z.armed = FALSE
        /\ z.queued = (c.queued \/ Readable(c) \/ (FALSE /\ Writable(c)))
        /\ z.recvq = c.recvq /\ z.fin = c.fin /\ z.dead = c.dead
        /\ z.wire = c.wire /\ z.log = c.log /\ z.files = c.files
        /\ z.done = c.done
    BY <1>2, <2>1 DEF DisableWrite, ModEvent, IsConn, ConnFields
  <2> HIDE DEF z
  <2>4. z.armed \in BOOLEAN /\ z.queued \in BOOLEAN
    BY <2>3
  <2>5. Typed(z, S, g)
    BY <2>2, <2>3, <2>4 DEF Good, Typed
  <2>6. Shape(z) /\ Counted(z) /\ Ordered(z, S, g)
    BY <1>2, <2>3 DEF Good, Shape, Counted, Ordered
  <2>7. WakesOut(z, p) /\ WakesIn(z, p)
    BY <2>3 DEF WakesOut, WakesIn, Readable
  <2>8. Good(z, S, g, p) /\ z.out = <<>> /\ ~z.sending
    BY <2>3, <2>5, <2>6, <2>7 DEF Good
  <2> QED BY <2>8 DEF z
<1> QED BY <1>1, <1>2

(* Larger data.                                                              *)
LEMMA GoodGrows ==
    ASSUME NEW S, NEW T, S \subseteq T, NEW g, NEW c, NEW p, Good(c, S, g, p)
    PROVE  Good(c, T, g, p)
<1>1. \A s \in Seq(S) : s \in Seq(T)
  BY SeqMonotonic
<1>2. Typed(c, T, g)
  BY <1>1 DEF Good, Typed
<1>3. Ordered(c, T, g)
  BY <1>1 DEF Good, Ordered
<1> QED BY <1>2, <1>3 DEF Good

(* HandleIO is through with an event when nothing of it is left, or when the *)
(* socket has to become ready again first.                                   *)
LEMMA PendingChanges ==
    ASSUME NEW S, NEW g, NEW c, NEW p, NEW k, Good(c, S, g, p),
           "out" \in p => ("out" \in k \/ c.closed \/ ~Writable(c)
                          \/ (c.out = <<>> /\ ~c.sending)),
           "in" \in p => "in" \in k \/ c.closed \/ ~Readable(c)
    PROVE  Good(c, S, g, k)
BY DEF Good, WakesOut, WakesIn

(* What Good says when HandleIO has nothing to do.                           *)
LEMMA GoodImplies ==
    ASSUME NEW S, NEW p, Good(conn, S, got, p), pc = "wait" => p = {}
    PROVE  StreamOrder /\ NoLostWakeup /\ DoneOnce
<1>1. /\ got \in Seq(S) /\ conn.wire \in Seq(S) /\ conn.out \in Seq(S)
      /\ conn.rest \in Seq(S) /\ conn.post \in Seq(S)
  BY DEF Good, Typed
<1>2. CASE ~conn.closed
  <2>1. got \o conn.wire \o conn.out \o conn.rest \o conn.post
        = Flow(got, conn.wire, conn.out, conn.rest, conn.post)
    <3>1. \A w, o, r, x \in Seq(S) : got \o w \o o \o r \o x = Flow(got, w, o, r, x)
      BY <1>1, FlowIs
    <3> QED BY <1>1, <3>1, ZenonT(60)
  <2>2. Flow(got, conn.wire, conn.out, conn.rest, conn.post) = conn.log
    BY <1>2 DEF Good, Ordered
  <2> QED BY <1>2, <2>1, <2>2 DEF Good, StreamOrder, NoLostWakeup, DoneOnce, WakesOut, WakesIn, Counted
<1>3. CASE conn.closed
  <2>1. PICK t \in Seq(S) : Cat(got, Cat(conn.wire, t)) = conn.log
    BY <1>3 DEF Good, Ordered
  <2>2. PICK s \in Seq(S) : s = Cat(got, conn.wire)
    BY <1>1, CatType
  <2>3. Cat(s, t) = conn.log
    BY <1>1, <2>1, <2>2, CatAssoc
  <2>4. s \o t = conn.log /\ got \o conn.wire = s
    BY <2>2, <2>3 DEF Cat
  <2>5. Len(s) \in 0..Len(conn.log) /\ s = SubSeq(conn.log, 1, Len(s))
    BY <2>4, Beginning
  <2>6. StreamOrder
    BY <1>3, <2>4, <2>5 DEF StreamOrder
  <2> QED BY <1>3, <2>6 DEF Good, NoLostWakeup, DoneOnce, Counted
<1>4. conn.closed \in BOOLEAN
  BY DEF Good, Typed
<1> QED BY <1>2, <1>3, <1>4

-----------------------------------------------------------------------------
(* The steps of the server, between which the connection is good *)

\* What HandleIO has still to look at: EPOLLOUT, and the socket it is reading
Pending == (ev \cap {"out"}) \cup (IF pc = "read" THEN {"in"} ELSE {})

\* The connection c is good and b is a batch of replies, for some set of units
Kept(c, b, g, p) ==
    \E S : Good(c, S, g, p) /\ b \in Seq(S) /\ RdbFile \in Seq(S)

\* HandleIO between its steps: no event is left when it is through, and
\* HandleWrite runs on a connection that is open or has no output; replies
\* are batched only inside of the read callback
Shaped ==
    /\ ev \subseteq {"in", "out", "hup"}
    /\ pc = "wait" => ev = {}
    /\ pc = "write" => "out" \in ev /\ (conn.closed => conn.out = <<>>)
    /\ pc # "callback" => batch = <<>>

IInv == Shaped /\ Kept(conn, batch, got, Pending)

-----------------------------------------------------------------------------
(* A round of ProtocolExecutor *)

(* One more unit is in some larger set.                                      *)
LEMMA KeptUnit ==
    ASSUME NEW c, NEW b, NEW g, NEW p, NEW u, Kept(c, b, g, p)
    PROVE  \E S : /\ Good(c, S, g, p) /\ b \in Seq(S) /\ RdbFile \in Seq(S)
                  /\ u \in S /\ <<u>> \in Seq(S) /\ Append(b, u) \in Seq(S)
<1>1. PICK R : Good(c, R, g, p) /\ b \in Seq(R) /\ RdbFile \in Seq(R)
  BY DEF Kept
<1> DEFINE S == R \cup {u}
<1>2. R \subseteq S /\ u \in S
  OBVIOUS
<1> HIDE DEF S
<1>3. b \in Seq(S) /\ RdbFile \in Seq(S)
  BY <1>1, <1>2, SeqMonotonic
<1>4. Good(c, S, g, p)
  BY <1>1, <1>2, GoodGrows
<1>5. <<u>> \in Seq(S)
  BY <1>2
<1>6. Append(b, u) \in Seq(S)
  BY <1>2, <1>3, AppendProperties
<1> QED BY <1>2, <1>3, <1>4, <1>5, <1>6

LEMMA KeptAppend ==
    ASSUME NEW c, NEW b, NEW g, NEW p, NEW u, Kept(c, b, g, p)
    PROVE  Kept(c, Append(b, u), g, p)
BY KeptUnit DEF Kept

LEMMA KeptSend ==
    ASSUME NEW c, NEW b, NEW g, NEW p, NEW u, Kept(c, b, g, p)
    PROVE  Kept(Send(c, <<u>>), b, g, p)
<1>1. PICK S : /\ Good(c, S, g, p) /\ b \in Seq(S) /\ RdbFile \in Seq(S)
               /\ <<u>> \in Seq(S)
  BY KeptUnit
<1>2. Good(Send(c, <<u>>), S, g, p)
  BY <1>1, SendKeeps
<1> QED BY <1>1, <1>2 DEF Kept

LEMMA KeptClose ==
    ASSUME NEW c, NEW b, NEW g, NEW p, Kept(c, b, g, p)
    PROVE  Kept(Close(c), b, g, p) /\ Close(c).closed
<1>1. PICK S : Good(c, S, g, p) /\ b \in Seq(S) /\ RdbFile \in Seq(S)
  BY DEF Kept
<1>2. Good(Close(c), S, g, p) /\ Close(c).closed
  BY <1>1, CloseKeeps
<1> QED BY <1>1, <1>2 DEF Kept

\* x is the state of a round
IsRound(x) == \E U : x \in [{"conn", "srv", "batch"} -> U]

Round(x, g, p) == IsRound(x) /\ Kept(x.conn, x.batch, g, p)

(* A round of which only the server has changed.                             *)
LEMMA ServerChanges ==
    ASSUME NEW x, NEW g, NEW p, NEW s, Round(x, g, p)
    PROVE  Round([x EXCEPT !.srv = s], g, p)
<1>1. PICK U : x \in [{"conn", "srv", "batch"} -> U]
  BY DEF Round, IsRound
<1> DEFINE y == [x EXCEPT !.srv = s]
<1>2. y \in [{"conn", "srv", "batch"} -> U \cup {s}]
  BY <1>1
<1>3. y.conn = x.conn /\ y.batch = x.batch
  BY <1>1
<1>4. IsRound(y)
  BY <1>2 DEF IsRound
<1> QED BY <1>3, <1>4 DEF Round

LEMMA ReplyKeeps ==
    ASSUME NEW x, NEW g, NEW p, NEW u, Round(x, g, p)
    PROVE  Round([x EXCEPT !.batch = Append(@, u)], g, p)
<1>1. PICK U : x \in [{"conn", "srv", "batch"} -> U]
  BY DEF Round, IsRound
<1> DEFINE y == [x EXCEPT !.batch = Append(@, u)]
<1>2. y \in [{"conn", "srv", "batch"} -> U \cup {Append(x.batch, u)}]
  BY <1>1
<1>3. y.conn = x.conn /\ y.batch = Append(x.batch, u)
  BY <1>1
<1>4. IsRound(y)
  BY <1>2 DEF IsRound
<1>5. Kept(x.conn, Append(x.batch, u), g, p)
  BY KeptAppend DEF Round
<1> QED BY <1>3, <1>4, <1>5 DEF Round

LEMMA RepliedKeeps ==
    ASSUME NEW x, NEW g, NEW p, NEW kind, NEW body, Round(x, g, p)
    PROVE  Round(Replied(x, kind, body), g, p)
BY ReplyKeeps DEF Replied

(* A frame for the slave, which may be closed for being too slow.            *)
LEMMA FeedKeeps ==
    ASSUME NEW x, NEW g, NEW p, NEW frame, Round(x, g, p)
    PROVE  Round(FeedEncodedFrame(x, frame), g, p)
<1> DEFINE c == Send(x.conn, <<Unit("frame", frame)>>)
           d == IF OutputBuffered(c) > OutputLimit THEN Close(c) ELSE c
           s == [x.srv EXCEPT !.slave = IF d.closed THEN "none" ELSE @]
           y == [x EXCEPT !.conn = d]
<1>1. CASE x.srv.slave # "synced"
  BY <1>1 DEF FeedEncodedFrame
<1>2. CASE x.srv.slave = "synced"
  <2>1. Kept(c, x.batch, g, p)
    BY KeptSend DEF Round
  <2> HIDE DEF c
  <2>2. Kept(d, x.batch, g, p)
    BY <2>1, KeptClose
  <2>3. FeedEncodedFrame(x, frame) = [y EXCEPT !.srv = s]
    <3>1. PICK U : x \in [{"conn", "srv", "batch"} -> U]
      BY DEF Round, IsRound
    <3>2. FeedEncodedFrame(x, frame) =
            [x EXCEPT !.conn = d, !.srv.slave = IF d.closed THEN "none" ELSE @]
      BY <1>2 DEF FeedEncodedFrame, c
    <3> QED BY <3>1, <3>2
  <2> HIDE DEF d
  <2>4. Round(y, g, p)
    <3>1. PICK U : x \in [{"conn", "srv", "batch"} -> U]
      BY DEF Round, IsRound
    <3>2. y \in [{"conn", "srv", "batch"} -> U \cup {d}]
      BY <3>1
    <3>3. y.conn = d /\ y.batch = x.batch
      BY <3>1
    <3> QED BY <2>2, <3>2, <3>3 DEF Round, IsRound
  <2> HIDE DEF y, s
  <2> QED BY <2>3, <2>4, ServerChanges
<1> QED BY <1>1, <1>2

(* The server of a round changes in one of its fields.                       *)
LEMMA FieldChanges ==
    ASSUME NEW x, NEW g, NEW p, NEW f, NEW v, Round(x, g, p)
    PROVE  Round([x EXCEPT !.srv[f] = v], g, p)
<1>1. PICK U : x \in [{"conn", "srv", "batch"} -> U]
  BY DEF Round, IsRound
<1> DEFINE s == [x.srv EXCEPT ![f] = v]
<1>2. [x EXCEPT !.srv[f] = v] = [x EXCEPT !.srv = s]
  BY <1>1
<1> HIDE DEF s
<1> QED BY <1>2, ServerChanges

LEMMA ApplyMutationKeeps ==
    ASSUME NEW x, NEW g, NEW p, NEW ctx, Round(x, g, p)
    PROVE  Round(ApplyMutation(x, ctx), g, p)
<1> DEFINE hit   == ctx.key \in DOMAIN x.srv.store
           frame == EncodeCommand(WriteTokens(ctx))
           a     == [x EXCEPT !.srv.store = Applied(@, ctx)]
           f     == [a EXCEPT !.srv.aof = Append(@, frame)]
           m     == [a EXCEPT !.srv.missed = TRUE]
           okay  == IF ctx.cmd = "SET" THEN Unit("+OK", <<>>) ELSE Unit(":1", <<>>)
           b     == FeedEncodedFrame(f, frame)
           r     == [b EXCEPT !.batch = Append(@, okay)]
<1>1. \/ ApplyMutation(x, ctx) = Replied(x, "-ERR empty key", <<>>)
      \/ ApplyMutation(x, ctx) = Replied(x, ":0", <<>>)
      \/ ApplyMutation(x, ctx) = Replied(m, "-ERR aof append failed", <<>>)
      \/ ApplyMutation(x, ctx) = r
  BY DEF ApplyMutation
<1>2. Round(a, g, p)
  BY FieldChanges
<1> HIDE DEF a, frame, okay
<1>3. Round(m, g, p) /\ Round(f, g, p)
  BY <1>2, FieldChanges
<1> HIDE DEF m, f
<1>4. Round(b, g, p)
  BY <1>3, FeedKeeps
<1> HIDE DEF b
<1>5. Round(r, g, p)
  BY <1>4, ReplyKeeps
<1> HIDE DEF r
<1>6. /\ Round(Replied(x, "-ERR empty key", <<>>), g, p)
      /\ Round(Replied(x, ":0", <<>>), g, p)
      /\ Round(Replied(m, "-ERR aof append failed", <<>>), g, p)
  BY <1>3, RepliedKeeps
<1> QED BY <1>1, <1>5, <1>6

(* Every dispatcher keeps the connection good.                               *)
LEMMA DispatchKeeps ==
    ASSUME NEW x, NEW g, NEW p, NEW ctx, Round(x, g, p)
    PROVE  Round(Dispatch(x, ctx), g, p)
<1>1. \A kind, body : Round(Replied(x, kind, body), g, p)
  BY RepliedKeeps
<1>2. Round(GetReply(x, ctx), g, p)
  BY <1>1 DEF GetReply
<1>3. Round(AssistReply(x, ctx), g, p)
  BY <1>1 DEF AssistReply
<1>4. Round(SaveReply(x), g, p)
  <2> DEFINE y == [x EXCEPT !.srv = Forked(@, "dump")]
  <2>1. Round(y, g, p)
    <3> DEFINE s == Forked(x.srv, "dump")
    <3>1. y = [x EXCEPT !.srv = s]
      OBVIOUS
    <3> HIDE DEF s, y
    <3> QED BY <3>1, ServerChanges
  <2>2. SaveReply(x) = Replied(y, "+OK", <<>>) \/
        SaveReply(x) = Replied(x, "-ERR Background save already in progress", <<>>)
    BY DEF SaveReply
  <2> HIDE DEF y
  <2>3. Round(Replied(y, "+OK", <<>>), g, p)
    BY <2>1, RepliedKeeps
  <2> QED BY <1>1, <2>2, <2>3
<1>5. Round(PsyncReply(x), g, p)
  <2> DEFINE w == [x.srv EXCEPT !.slave = "wait"]
             s == IF w.saving = "no" THEN Forked(w, "fullsync") ELSE w
  <2>1. \/ PsyncReply(x) = Replied(x, "-unknown connection", <<>>)
        \/ PsyncReply(x) = [x EXCEPT !.srv = s]
    BY DEF PsyncReply
  <2> HIDE DEF s
  <2>2. Round([x EXCEPT !.srv = s], g, p)
    BY ServerChanges
  <2> QED BY <1>1, <2>1, <2>2
<1>6. Round(ApplyMutation(x, ctx), g, p)
  BY ApplyMutationKeeps
<1>7. Round(Registered(x, ctx), g, p)
  BY <1>1, <1>2, <1>3, <1>4, <1>5, <1>6 DEF Registered
<1> QED BY <1>1, <1>7 DEF Dispatch

-----------------------------------------------------------------------------
(* The steps of HandleIO *)

(* When the handler of an event is through, HandleIO has the other events    *)
(* before it, unless the connection was closed.                              *)
LEMMA HandledShapes ==
    ASSUME Shaped, NEW e \in {"in", "out", "hup"}, Handled(e),
           conn'.closed \in BOOLEAN, batch' = <<>>
    PROVE  /\ Shaped'
           /\ ("out" \in ev /\ e # "out" /\ ~conn'.closed) => "out" \in Pending'
<1>1. CASE conn'.closed
  <2>1. ev' = {} /\ pc' = "wait"
    BY <1>1 DEF Handled, Step
  <2> QED BY <1>1, <2>1 DEF Shaped
<1>2. CASE ~conn'.closed
  <2>1. ev' = ev \ {e} /\ pc' = Step(ev')
    BY <1>2 DEF Handled
  <2>2. ev' \subseteq {"in", "out", "hup"}
    BY <2>1 DEF Shaped
  <2>3. /\ pc' = "wait" => ev' = {}
        /\ pc' = "write" => "out" \in ev'
    BY <1>2, <2>1, <2>2 DEF Step
  <2> QED BY <1>2, <2>1, <2>2, <2>3 DEF Shaped, Pending
<1> QED BY <1>1, <1>2

(* The handler of an event is through, and the connection it leaves waits    *)
(* for what is left to do.                                                   *)
LEMMA HandledKeeps ==
    ASSUME Shaped, NEW e \in {"in", "out", "hup"}, Handled(e), NEW p,
           batch' = <<>>, Kept(conn', batch', got', p),
           "out" \in p => (("out" \in ev /\ e # "out")
                          \/ conn'.closed \/ ~Writable(conn')
                          \/ (conn'.out = <<>> /\ ~conn'.sending)),
           "in" \in p => conn'.closed \/ ~Readable(conn')
    PROVE  IInv'
<1>1. PICK S : Good(conn', S, got', p) /\ batch' \in Seq(S) /\ RdbFile \in Seq(S)
  BY DEF Kept
<1>2. conn'.closed \in BOOLEAN
  BY <1>1 DEF Good, Typed
<1>3. Shaped' /\ (("out" \in ev /\ e # "out" /\ ~conn'.closed) => "out" \in Pending')
  BY <1>2, HandledShapes
<1>4. Good(conn', S, got', Pending')
  BY <1>1, <1>3, PendingChanges
<1> QED BY <1>1, <1>3, <1>4 DEF IInv, Kept

(* A step that touches only what is to be read.                              *)
LEMMA InputStep ==
    ASSUME NEW c, NEW b, NEW g, NEW p, NEW k, NEW z, Kept(c, b, g, p), IsConn(z),
           z.closed = c.closed, z.out = c.out, z.sending = c.sending,
           z.rest = c.rest, z.post = c.post, z.tail = c.tail,
           z.armed = c.armed, z.wire = c.wire, z.files = c.files,
           z.done = c.done, z.log = c.log,
           z.fin \in BOOLEAN, z.dead \in BOOLEAN, z.queued \in BOOLEAN,
           c.queued => z.queued, c.closed => ~z.queued, WakesIn(z, k),
           "out" \in p => "out" \in k
    PROVE  Kept(z, b, g, k)
<1>1. PICK S : Good(c, S, g, p) /\ b \in Seq(S) /\ RdbFile \in Seq(S)
  BY DEF Kept
<1>2. Good(z, S, g, k)
  BY <1>1, InputKeeps
<1> QED BY <1>1, <1>2 DEF Kept

(* What is kept of a connection, for the steps below.                        *)
LEMMA KeptTyped ==
    ASSUME NEW c, NEW b, NEW g, NEW p, Kept(c, b, g, p)
    PROVE  /\ IsConn(c) /\ c.closed \in BOOLEAN /\ c.sending \in BOOLEAN
           /\ c.queued \in BOOLEAN /\ c.fin \in BOOLEAN /\ c.dead \in BOOLEAN
           /\ c.closed => ~c.queued
           /\ ~c.sending => c.rest = <<>>
           /\ c.closed => ~c.sending
           /\ WakesIn(c, p)
BY DEF Kept, Good, Typed, Shape

(* fresh and input are not looked at by the properties.                      *)
LEMMA BufferStep ==
    ASSUME NEW c, NEW b, NEW g, NEW p, NEW z, Kept(c, b, g, p), NEW f, NEW v,
           f \in {"fresh", "input"}, z = [c EXCEPT ![f] = v]
    PROVE  /\ Kept(z, b, g, p)
           /\ z.closed = c.closed /\ z.recvq = c.recvq /\ z.fin = c.fin /\ z.dead = c.dead
<1>1. IsConn(c) /\ WakesIn(c, p) /\ (c.closed => ~c.queued)
      /\ c.fin \in BOOLEAN /\ c.dead \in BOOLEAN /\ c.queued \in BOOLEAN
  BY KeptTyped
<1>2. IsConn(z)
  BY <1>1, ExceptIsConn DEF ConnFields
<1>3. /\ z.closed = c.closed /\ z.out = c.out /\ z.sending = c.sending
      /\ z.rest = c.rest /\ z.post = c.post /\ z.tail = c.tail
      /\ z.armed = c.armed /\ z.wire = c.wire /\ z.files = c.files
      /\ z.done = c.done /\ z.log = c.log /\ z.fin = c.fin /\ z.dead = c.dead
      /\ z.queued = c.queued /\ z.recvq = c.recvq
  BY <1>1 DEF IsConn, ConnFields
<1>4. WakesIn(z, p)
  BY <1>1, <1>3 DEF WakesIn, Readable
<1>5. /\ z.fin \in BOOLEAN /\ z.dead \in BOOLEAN /\ z.queued \in BOOLEAN
      /\ c.queued => z.queued
      /\ c.closed => ~z.queued
  BY <1>1, <1>3
<1>6. Kept(z, b, g, p)
  BY <1>2, <1>3, <1>4, <1>5, InputStep
<1> QED BY <1>3, <1>6

(* HandleIO is through with an event: see PendingChanges.                    *)
LEMMA KeptPending ==
    ASSUME NEW c, NEW b, NEW g, NEW p, NEW k, Kept(c, b, g, p),
           "out" \in p => ("out" \in k \/ c.closed \/ ~Writable(c)
                          \/ (c.out = <<>> /\ ~c.sending)),
           "in" \in p => "in" \in k \/ c.closed \/ ~Readable(c)
    PROVE  Kept(c, b, g, k)
<1>1. PICK S : Good(c, S, g, p) /\ b \in Seq(S) /\ RdbFile \in Seq(S)
  BY DEF Kept
<1>2. Good(c, S, g, k)
  BY <1>1, PendingChanges
<1> QED BY <1>1, <1>2 DEF Kept

LEMMA DeliverStep ==
    ASSUME IInv, Deliver, UNCHANGED batch
    PROVE  IInv'
<1>1. PICK S : Good(conn, S, got, Pending) /\ batch \in Seq(S) /\ RdbFile \in Seq(S)
  BY DEF IInv, Kept
<1>2. ev = {} /\ Pending = {} /\ conn.queued
  BY DEF IInv, Shaped, Deliver, Pending
<1>3. ~conn.closed /\ IsConn(conn)
  BY <1>1, <1>2 DEF Good, Typed, Shape
<1>4. conn'.closed = conn.closed
  BY <1>3 DEF Deliver, IsConn, ConnFields
<1>5. /\ ev' \subseteq {"in", "out", "hup"}
      /\ conn.armed /\ Writable(conn) => "out" \in ev'
      /\ Readable(conn) => "in" \in ev'
      /\ pc' = Step(ev')
  BY DEF Deliver
<1>6. /\ pc' = "wait" => ev' = {}
      /\ pc' = "write" => "out" \in ev'
      /\ "in" \in ev' => pc' = "read"
  BY <1>3, <1>4, <1>5 DEF Step
<1>7. Shaped'
  <2>1. batch' = <<>>
    BY DEF IInv, Shaped, Deliver
  <2> QED BY <1>3, <1>4, <1>5, <1>6, <2>1 DEF Shaped
<1>8. conn' = [conn EXCEPT !.queued = FALSE] /\ got' = got
  BY DEF Deliver
<1>9. /\ conn.armed /\ Writable(conn) => "out" \in Pending'
      /\ Readable(conn) => "in" \in Pending'
  BY <1>5, <1>6 DEF Pending
<1>10. Good(conn', S, got, Pending')
  BY <1>1, <1>2, <1>8, <1>9, DeliverKeeps
<1> QED BY <1>1, <1>7, <1>8, <1>10 DEF IInv, Kept

LEMMA RecvStep ==
    ASSUME IInv, Recv, UNCHANGED batch
    PROVE  IInv'
<1> DEFINE n == Least(RecvMax, Len(conn.recvq))
           i == conn.input \o SubSeq(conn.recvq, 1, n)
           q == SubSeq(conn.recvq, n + 1, Len(conn.recvq))
<1>1. /\ conn' = [conn EXCEPT !.input = i, !.recvq = q, !.fresh = TRUE]
      /\ pc = "read" /\ pc' = pc /\ ev' = ev /\ got' = got /\ batch' = batch
  BY DEF Recv
<1> HIDE DEF i, q
<1>2. IsConn(conn) /\ (conn.closed => ~conn.queued) /\ conn.fin \in BOOLEAN
      /\ conn.dead \in BOOLEAN /\ conn.queued \in BOOLEAN
  BY KeptTyped DEF IInv
<1>3. IsConn(conn')
  BY <1>1, <1>2, ExceptIsConn DEF ConnFields
<1>4. /\ conn'.closed = conn.closed /\ conn'.out = conn.out
      /\ conn'.sending = conn.sending
      /\ conn'.rest = conn.rest /\ conn'.post = conn.post /\ conn'.tail = conn.tail
      /\ conn'.armed = conn.armed /\ conn'.wire = conn.wire
      /\ conn'.files = conn.files /\ conn'.done = conn.done /\ conn'.log = conn.log
      /\ conn'.fin = conn.fin /\ conn'.dead = conn.dead /\ conn'.queued = conn.queued
  BY <1>1, <1>2 DEF IsConn, ConnFields
<1>5. "in" \in Pending' /\ Pending' = Pending
  BY <1>1 DEF Pending
<1>6. WakesIn(conn', Pending')
  BY <1>5 DEF WakesIn
<1>7. Kept(conn', batch, got, Pending')
  <2>1. Kept(conn, batch, got, Pending)
    BY DEF IInv
  <2>2. /\ conn'.fin \in BOOLEAN /\ conn'.dead \in BOOLEAN
        /\ conn'.queued \in BOOLEAN /\ (conn.queued => conn'.queued)
        /\ (conn.closed => ~conn'.queued)
    BY <1>2, <1>4
  <2>3. "out" \in Pending => "out" \in Pending'
    BY <1>5
  <2> QED BY <1>3, <1>4, <1>6, <2>1, <2>2, <2>3, InputStep
<1>8. Shaped'
  BY <1>1 DEF IInv, Shaped
<1> QED BY <1>1, <1>7, <1>8 DEF IInv

LEMMA RecvEndStep ==
    ASSUME IInv, RecvEnd, UNCHANGED batch
    PROVE  IInv'
<1> DEFINE z == [conn EXCEPT !.fresh = FALSE]
<1>1. /\ conn' = Close(z) /\ Handled("in") /\ got' = got /\ batch' = batch
      /\ batch' = <<>>
  BY DEF RecvEnd, IInv, Shaped
<1>2. Kept(z, batch, got, Pending)
  <2>1. Kept(conn, batch, got, Pending)
    BY DEF IInv
  <2> QED BY <2>1, BufferStep
<1> HIDE DEF z
<1>3. Kept(conn', batch', got', Pending) /\ conn'.closed
  BY <1>1, <1>2, KeptClose
<1>4. Shaped
  BY DEF IInv
<1> QED BY <1>1, <1>3, <1>4, HandledKeeps

LEMMA RecvAgainStep ==
    ASSUME IInv, RecvAgain, UNCHANGED batch
    PROVE  IInv'
<1>0. /\ pc = "read" /\ ~Readable(conn) /\ got' = got /\ batch' = batch
  BY DEF RecvAgain, Readable
<1>01. batch' = <<>>
  BY DEF RecvAgain, IInv, Shaped
<1>00. Kept(conn, batch, got, Pending)
  BY DEF IInv
<1>1. CASE conn.fresh
  <2>1. /\ conn' = [conn EXCEPT !.fresh = FALSE] /\ pc' = "callback" /\ ev' = ev
    BY <1>1 DEF RecvAgain
  <2>2. /\ Kept(conn', batch, got, Pending) /\ ~Readable(conn')
    BY <1>0, <1>00, <2>1, BufferStep DEF Readable
  <2>3. "out" \in Pending => "out" \in Pending'
    BY <2>1 DEF Pending
  <2>4. Kept(conn', batch, got, Pending')
    BY <2>2, <2>3, KeptPending
  <2>5. Shaped'
    BY <1>0, <2>1 DEF IInv, Shaped
  <2> QED BY <1>0, <2>4, <2>5 DEF IInv
<1>2. CASE ~conn.fresh
  <2>1. conn' = conn /\ Handled("in")
    BY <1>2 DEF RecvAgain
  <2>2. Kept(conn', batch', got', Pending) /\ ~Readable(conn')
    BY <1>0, <1>00, <2>1
  <2>3. "out" \in Pending => "out" \in ev
    BY DEF Pending
  <2>4. Shaped
    BY DEF IInv
  <2> QED BY <1>01, <2>1, <2>2, <2>3, <2>4, HandledKeeps
<1> QED BY <1>1, <1>2

LEMMA HangUpStep ==
    ASSUME IInv, HangUp, UNCHANGED batch
    PROVE  IInv'
<1>1. conn' = Close(conn) /\ Handled("hup") /\ got' = got /\ batch' = batch
      /\ batch' = <<>>
  BY DEF HangUp, IInv, Shaped
<1>2. Kept(conn', batch', got', Pending) /\ conn'.closed
  BY <1>1, KeptClose DEF IInv
<1>3. Shaped
  BY DEF IInv
<1> QED BY <1>1, <1>2, <1>3, HandledKeeps

(* What the socket takes of d: as much as it has room for.                   *)
LEMMA SocketTakes ==
    ASSUME NEW S, NEW g, NEW c, NEW p, NEW d \in Seq(S), d # <<>>, Good(c, S, g, p),
           NEW n, n = Least(Room(c), Len(d))
    PROVE  /\ n \in 0..Len(d) /\ n <= Room(c)
           /\ ~(n > 0) => ~Writable(c)
<1>1. /\ c.wire \in Seq(S) /\ Len(c.wire) <= SndBuf
  BY DEF Good, Typed
<1>2. /\ Len(c.wire) \in Nat /\ Len(d) \in Nat \ {0} /\ SndBuf \in Nat
      /\ LowWater \in Nat \ {0}
  BY <1>1, LenProperties, EmptySeq, TcpConnAssumption
<1>3. Room(c) = SndBuf - Len(c.wire)
  BY DEF Room
<1>4. n = IF Room(c) < Len(d) THEN Room(c) ELSE Len(d)
  BY DEF Least
<1> QED BY <1>1, <1>2, <1>3, <1>4 DEF Writable

LEMMA WriteOutStep ==
    ASSUME IInv, WriteOut, UNCHANGED batch
    PROVE  IInv'
<1> DEFINE n == Least(Room(conn), Len(conn.out))
<1>1. PICK S : Good(conn, S, got, Pending) /\ batch \in Seq(S) /\ RdbFile \in Seq(S)
  BY DEF IInv, Kept
<1>2. /\ pc = "write" /\ conn.out # <<>> /\ got' = got /\ batch' = batch
      /\ n > 0 => /\ conn' = [conn EXCEPT
                              !.wire = @ \o SubSeq(conn.out, 1, n),
                              !.out = SubSeq(@, n + 1, Len(@))]
                  /\ pc' = pc /\ ev' = ev
      /\ ~(n > 0) => conn' = conn /\ Handled("out")
  BY DEF WriteOut
<1>3. /\ Shaped /\ ~conn.closed /\ "out" \in ev /\ "out" \in Pending
      /\ "in" \notin Pending /\ batch' = <<>>
  BY <1>1, <1>2 DEF IInv, Shaped, Pending
<1>4. conn.out \in Seq(S)
  BY <1>1 DEF Good, Typed
<1>5. /\ n \in 0..Len(conn.out) /\ n <= Room(conn)
      /\ ~(n > 0) => ~Writable(conn)
  BY <1>1, <1>2, <1>4, SocketTakes
<1> HIDE DEF n
<1>6. CASE n > 0
  <2>1. Good(conn', S, got, Pending) /\ ~conn'.closed
    BY <1>1, <1>2, <1>3, <1>5, <1>6, WriteOutKeeps
  <2>2. Pending' = Pending
    BY <1>2, <1>6 DEF Pending
  <2>3. Shaped'
    BY <1>2, <1>3, <1>6, <2>1 DEF Shaped
  <2> QED BY <1>1, <1>2, <2>1, <2>2, <2>3 DEF IInv, Kept
<1>7. CASE ~(n > 0)
  <2>1. Kept(conn', batch', got', Pending) /\ ~Writable(conn')
    BY <1>1, <1>2, <1>5, <1>7 DEF Kept
  <2> QED BY <1>2, <1>3, <1>7, <2>1, HandledKeeps
<1> QED BY <1>6, <1>7

LEMMA WriteFileStep ==
    ASSUME IInv, WriteFile, UNCHANGED batch
    PROVE  IInv'
<1> DEFINE n == Least(Room(conn), Len(conn.rest))
<1>1. PICK S : Good(conn, S, got, Pending) /\ batch \in Seq(S) /\ RdbFile \in Seq(S)
  BY DEF IInv, Kept
<1>2. /\ pc = "write" /\ conn.out = <<>> /\ conn.rest # <<>> /\ got' = got /\ batch' = batch
      /\ n > 0 => /\ conn' = [conn EXCEPT
                              !.wire = @ \o SubSeq(conn.rest, 1, n),
                              !.rest = SubSeq(@, n + 1, Len(@))]
                  /\ pc' = pc /\ ev' = ev
      /\ ~(n > 0) => conn' = conn /\ Handled("out")
  BY DEF WriteFile
<1>3. /\ Shaped /\ "out" \in ev /\ "out" \in Pending /\ "in" \notin Pending
      /\ batch' = <<>>
  BY <1>2 DEF IInv, Shaped, Pending
<1>4. conn.rest \in Seq(S) /\ conn.sending /\ ~conn.closed
  BY <1>1, <1>2 DEF Good, Typed, Shape
<1>5. /\ n \in 0..Len(conn.rest) /\ n <= Room(conn)
      /\ ~(n > 0) => ~Writable(conn)
  BY <1>1, <1>2, <1>4, SocketTakes
<1>55. Neutral(S, conn.out)
  BY <1>2, CatEmpty
<1> HIDE DEF n
<1>6. CASE n > 0
  <2>1. Good(conn', S, got, Pending) /\ ~conn'.closed
    BY <1>1, <1>2, <1>3, <1>4, <1>5, <1>55, <1>6, WriteFileKeeps
  <2>2. Pending' = Pending
    BY <1>2, <1>6 DEF Pending
  <2>3. Shaped'
    BY <1>2, <1>3, <1>6, <2>1 DEF Shaped
  <2> QED BY <1>1, <1>2, <2>1, <2>2, <2>3 DEF IInv, Kept
<1>7. CASE ~(n > 0)
  <2>1. Kept(conn', batch', got', Pending) /\ ~Writable(conn')
    BY <1>1, <1>2, <1>5, <1>7 DEF Kept
  <2> QED BY <1>2, <1>3, <1>7, <2>1, HandledKeeps
<1> QED BY <1>6, <1>7

LEMMA WriteFileDoneStep ==
    ASSUME IInv, WriteFileDone, UNCHANGED batch
    PROVE  IInv'
<1>1. PICK S : Good(conn, S, got, Pending) /\ batch \in Seq(S) /\ RdbFile \in Seq(S)
  BY DEF IInv, Kept
<1>2. /\ pc = "write" /\ conn.out = <<>> /\ conn.rest = conn.out /\ conn.sending
      /\ conn' = ClearSendFileDone(conn)
      /\ pc' = pc /\ ev' = ev /\ got' = got /\ batch' = batch
  BY DEF WriteFileDone
<1>3. Shaped /\ "out" \in ev /\ "out" \in Pending /\ Pending' = Pending
  BY <1>2 DEF IInv, Shaped, Pending
<1>4. Neutral(S, conn.out) /\ ~conn.closed
  BY <1>1, <1>2, CatEmpty DEF Good, Shape
<1>5. Good(conn', S, got, Pending) /\ (conn'.closed => conn'.out = <<>>)
  BY <1>1, <1>2, <1>3, <1>4, FileDoneKeeps
<1>6. Shaped'
  BY <1>2, <1>3, <1>5 DEF Shaped
<1> QED BY <1>1, <1>2, <1>3, <1>5, <1>6 DEF IInv, Kept

LEMMA WriteDoneStep ==
    ASSUME IInv, WriteDone, UNCHANGED batch
    PROVE  IInv'
<1>1. PICK S : Good(conn, S, got, Pending) /\ batch \in Seq(S) /\ RdbFile \in Seq(S)
  BY DEF IInv, Kept
<1>2. /\ pc = "write" /\ conn.out = <<>> /\ ~conn.sending
      /\ conn' = DisableWrite(conn) /\ Handled("out") /\ got' = got /\ batch' = batch
  BY DEF WriteDone
<1>3. Shaped /\ "in" \notin Pending /\ batch' = <<>>
  BY <1>2 DEF IInv, Shaped, Pending
<1>4. Good(conn', S, got, Pending) /\ conn'.out = <<>> /\ ~conn'.sending
  BY <1>1, <1>2, DisableKeeps
<1>5. Kept(conn', batch', got', Pending)
  BY <1>1, <1>2, <1>4 DEF Kept
<1> QED BY <1>2, <1>3, <1>4, <1>5, HandledKeeps

LEMMA WriteFailsStep ==
    ASSUME IInv, WriteFails, UNCHANGED batch
    PROVE  IInv'
<1>1. /\ conn' = Close(ClearSendFileFailed(conn)) /\ Handled("out")
      /\ got' = got /\ batch' = batch /\ pc = "write"
      /\ conn.out # <<>> \/ conn.rest # <<>>
      /\ batch' = <<>>
  BY DEF WriteFails, IInv, Shaped
<1>2. Shaped /\ Kept(conn, batch, got, Pending)
  BY DEF IInv
<1>3. IsConn(conn) /\ ~conn.closed /\ conn.sending \in BOOLEAN
  BY <1>1, <1>2, KeptTyped DEF Shaped
<1>4. Close(ClearSendFileFailed(conn)) = Close(conn)
  BY <1>3 DEF Close, ClearSendFileFailed, IsConn, ConnFields
<1>5. Kept(conn', batch', got', Pending) /\ conn'.closed
  BY <1>1, <1>2, <1>4, KeptClose
<1> QED BY <1>1, <1>2, <1>5, HandledKeeps

-----------------------------------------------------------------------------
(* The peer *)

(* Something arrives: the connection is in the ready list.                   *)
LEMMA ArrivalStep ==
    ASSUME IInv, UNCHANGED <<pc, ev, got, batch>>, ~conn.closed, IsConn(conn'),
           conn'.closed = conn.closed, conn'.out = conn.out,
           conn'.sending = conn.sending, conn'.rest = conn.rest,
           conn'.post = conn.post, conn'.tail = conn.tail,
           conn'.armed = conn.armed, conn'.wire = conn.wire,
           conn'.files = conn.files, conn'.done = conn.done, conn'.log = conn.log,
           conn'.fin \in BOOLEAN, conn'.dead \in BOOLEAN, conn'.queued = TRUE
    PROVE  IInv'
<1>1. /\ Pending' = Pending /\ got' = got /\ batch' = batch
  BY DEF Pending
<1>2. Kept(conn, batch, got, Pending)
  BY DEF IInv
<1>3. WakesIn(conn', Pending) /\ conn'.queued \in BOOLEAN
  BY DEF WakesIn
<1>4. Kept(conn', batch, got, Pending)
  BY <1>2, <1>3, InputStep
<1>5. Shaped'
  BY DEF IInv, Shaped
<1> QED BY <1>1, <1>4, <1>5 DEF IInv

LEMMA ClientSendsStep ==
    ASSUME IInv, ClientSends
    PROVE  IInv'
<1> DEFINE q == Append(conn.recvq, script.bytes[sent + 1])
<1>1. /\ conn' = [conn EXCEPT !.recvq = q, !.queued = TRUE] /\ ~conn.closed
      /\ UNCHANGED <<pc, ev, got, batch>>
  BY DEF ClientSends, Arrive
<1> HIDE DEF q
<1>2. IsConn(conn) /\ conn.fin \in BOOLEAN /\ conn.dead \in BOOLEAN
  BY KeptTyped DEF IInv
<1>3. IsConn(conn')
  BY <1>1, <1>2, ExceptIsConn DEF ConnFields
<1>4. /\ conn'.closed = conn.closed /\ conn'.out = conn.out
      /\ conn'.sending = conn.sending
      /\ conn'.rest = conn.rest /\ conn'.post = conn.post /\ conn'.tail = conn.tail
      /\ conn'.armed = conn.armed /\ conn'.wire = conn.wire
      /\ conn'.files = conn.files /\ conn'.done = conn.done /\ conn'.log = conn.log
      /\ conn'.fin = conn.fin /\ conn'.dead = conn.dead /\ conn'.queued = TRUE
  BY <1>1, <1>2 DEF IsConn, ConnFields
<1>5. conn'.fin \in BOOLEAN /\ conn'.dead \in BOOLEAN
  BY <1>2, <1>4
<1> QED BY <1>1, <1>3, <1>4, <1>5, ArrivalStep

LEMMA ClientEndsStep ==
    ASSUME IInv, ClientEnds
    PROVE  IInv'
<1>1. /\ \/ conn' = [conn EXCEPT !.fin = TRUE, !.queued = TRUE]
         \/ conn' = [conn EXCEPT !.dead = TRUE, !.queued = TRUE]
      /\ ~conn.closed /\ UNCHANGED <<pc, ev, got, batch>>
  BY DEF ClientEnds, PeerFin, PeerReset
<1>2. IsConn(conn) /\ conn.fin \in BOOLEAN /\ conn.dead \in BOOLEAN
  BY KeptTyped DEF IInv
<1>3. IsConn(conn')
  <2>1. /\ IsConn([conn EXCEPT !.fin = TRUE, !.queued = TRUE])
        /\ IsConn([conn EXCEPT !.dead = TRUE, !.queued = TRUE])
    BY <1>2, ExceptIsConn DEF ConnFields
  <2> QED BY <1>1, <2>1
<1>4. /\ conn'.closed = conn.closed /\ conn'.out = conn.out
      /\ conn'.sending = conn.sending
      /\ conn'.rest = conn.rest /\ conn'.post = conn.post /\ conn'.tail = conn.tail
      /\ conn'.armed = conn.armed /\ conn'.wire = conn.wire
      /\ conn'.files = conn.files /\ conn'.done = conn.done /\ conn'.log = conn.log
      /\ conn'.queued = TRUE
      /\ conn'.fin \in {conn.fin, TRUE} /\ conn'.dead \in {conn.dead, TRUE}
  BY <1>1, <1>2 DEF IsConn, ConnFields
<1>5. conn'.fin \in BOOLEAN /\ conn'.dead \in BOOLEAN
  BY <1>2, <1>4
<1> QED BY <1>1, <1>3, <1>4, <1>5, ArrivalStep

LEMMA ClientReadsStep ==
    ASSUME IInv, ClientReads
    PROVE  IInv'
<1>1. PICK S : Good(conn, S, got, Pending) /\ batch \in Seq(S) /\ RdbFile \in Seq(S)
  BY DEF IInv, Kept
<1>2. /\ conn.wire # <<>> /\ got' = Taken(got, conn.wire)
      /\ conn' = Drained(conn)
      /\ pc' = pc /\ ev' = ev /\ batch' = batch
  BY DEF ClientReads, PeerRead, Taken
<1>3. /\ Good(conn', S, got', Pending) /\ conn'.closed = conn.closed
      /\ conn'.out = conn.out
  BY <1>1, <1>2, PeerReadKeeps
<1>4. Pending' = Pending
  BY <1>2 DEF Pending
<1>5. Shaped'
  BY <1>2, <1>3 DEF IInv, Shaped
<1> QED BY <1>1, <1>2, <1>3, <1>4, <1>5 DEF IInv, Kept

-----------------------------------------------------------------------------
(* The read callback, and the calls that come from elsewhere *)

LEMMA ExecuteStep ==
    ASSUME IInv, Execute
    PROVE  IInv'
<1>1. PICK d \in {TryParse(conn.input)} :
        \E x \in {Dispatch([conn |-> [conn EXCEPT !.input = ReadCompleted(@, d.consumed)],
                            srv |-> [srv EXCEPT !.ran = Append(@, d.tokens)],
                            batch |-> batch], d.ctx)} :
           conn' = x.conn /\ batch' = x.batch
  BY DEF Execute
<1> DEFINE i == ReadCompleted(conn.input, d.consumed)
           z == [conn EXCEPT !.input = i]
           s == [srv EXCEPT !.ran = Append(@, d.tokens)]
           y == [conn |-> z, srv |-> s, batch |-> batch]
           x == Dispatch(y, d.ctx)
<1>2. conn' = x.conn /\ batch' = x.batch
  BY <1>1
<1>3. pc' = pc /\ ev' = ev /\ got' = got /\ pc = "callback"
  BY DEF Execute
<1> HIDE DEF i, s
<1>4. Kept(z, batch, got, Pending)
  BY BufferStep DEF IInv
<1> HIDE DEF z
<1>5. Round(y, got, Pending)
  <2>1. y \in [{"conn", "srv", "batch"} -> {z, s, batch}]
    OBVIOUS
  <2>2. y.conn = z /\ y.batch = batch
    OBVIOUS
  <2> QED BY <1>4, <2>1, <2>2 DEF Round, IsRound
<1> HIDE DEF y
<1>6. Round(x, got, Pending)
  BY <1>5, DispatchKeeps
<1> HIDE DEF x
<1>7. Kept(conn', batch', got', Pending') /\ Shaped'
  <2>1. Pending' = Pending
    BY <1>3 DEF Pending
  <2> QED BY <1>2, <1>3, <1>6, <2>1 DEF Round, IInv, Shaped
<1> QED BY <1>7 DEF IInv

LEMMA ExecuteEndsStep ==
    ASSUME IInv, ExecuteEnds
    PROVE  IInv'
<1> DEFINE f == Send(conn, batch)
           e == Send(f, <<Unit("-ERR protocol error", <<>>)>>)
<1>1. /\ pc = "callback" /\ Handled("in") /\ got' = got /\ batch' = <<>>
      /\ conn' = f \/ conn' = e
  BY DEF ExecuteEnds, CallbackReturns
<1>2. PICK S : Good(conn, S, got, Pending) /\ batch \in Seq(S) /\ RdbFile \in Seq(S)
  BY DEF IInv, Kept
<1>3. Good(f, S, got, Pending)
  BY <1>2, SendKeeps
<1> HIDE DEF f
<1>4. Kept(f, <<>>, got, Pending)
  BY <1>2, <1>3, EmptySeq DEF Kept
<1>5. Kept(e, <<>>, got, Pending)
  BY <1>4, KeptSend
<1> HIDE DEF e
<1>6. Kept(conn', batch', got', Pending)
  BY <1>1, <1>4, <1>5
<1>7. Shaped /\ "in" \notin Pending /\ ("out" \in Pending => "out" \in ev)
  BY <1>1 DEF IInv, Pending
<1> QED BY <1>1, <1>6, <1>7, HandledKeeps

LEMMA SendRdbStep ==
    ASSUME IInv, SendRdb
    PROVE  IInv'
<1> DEFINE h == <<Unit("+FULLRESYNC", <<>>)>>
           t == <<Unit("backlog", <<>>)>>
           a == Send(conn, h)
           z == BeginSendFile(a, RdbFile, t)
<1>1. /\ pc = "wait" /\ conn' = z /\ got' = got /\ batch' = batch
      /\ conn'.closed => pc' = pc /\ ev' = ev
      /\ ~conn'.closed => pc' = "write" /\ ev' = {"out"}
  BY DEF SendRdb
<1>2. Kept(a, batch, got, Pending)
  BY KeptSend DEF IInv
<1> HIDE DEF a
<1>3. PICK S : /\ Good(a, S, got, Pending) /\ batch \in Seq(S)
               /\ RdbFile \in Seq(S) /\ t \in Seq(S)
  BY <1>2, KeptUnit
<1> HIDE DEF t
<1>4. Good(z, S, got, Pending)
  BY <1>3, BeginSendFileKeeps
<1> HIDE DEF z
<1>5. Kept(conn', batch, got, Pending)
  BY <1>1, <1>3, <1>4 DEF Kept
<1>6. ev = {} /\ Pending = {}
  BY <1>1 DEF IInv, Shaped, Pending
<1>7. Kept(conn', batch, got, Pending')
  BY <1>5, <1>6, KeptPending
<1>8. Shaped'
  <2>1. batch' = <<>>
    BY <1>1 DEF IInv, Shaped
  <2> QED BY <1>1, <1>6, <2>1 DEF Shaped
<1> QED BY <1>1, <1>7, <1>8 DEF IInv

LEMMA FullsyncFailsStep ==
    ASSUME IInv, FullsyncFails
    PROVE  IInv'
<1> DEFINE a == Send(conn, <<Unit("-ERR fullsync save failed", <<>>)>>)
<1>1. conn' = a /\ pc = "wait" /\ UNCHANGED <<pc, ev, got, batch>>
  BY DEF FullsyncFails
<1>2. Kept(a, batch, got, Pending)
  BY KeptSend DEF IInv
<1> HIDE DEF a
<1>3. Pending' = Pending
  BY <1>1 DEF Pending
<1>4. Shaped'
  BY <1>1 DEF IInv, Shaped
<1> QED BY <1>1, <1>2, <1>3, <1>4 DEF IInv

LEMMA OtherWriteStep ==
    ASSUME IInv, OtherWrite
    PROVE  IInv'
<1> DEFINE y == [conn |-> conn, srv |-> srv, batch |-> <<>>]
           x == ApplyMutation(y, [cmd |-> "SET", key |-> <<"k">>, element |-> <<"o">>])
<1>1. pc = "wait" /\ conn' = x.conn /\ pc' = pc /\ ev' = ev /\ got' = got /\ batch' = batch
  BY DEF OtherWrite
<1>2. batch = <<>>
  BY <1>1 DEF IInv, Shaped
<1>3. Round(y, got, Pending)
  <2>1. PICK S : Good(conn, S, got, Pending) /\ batch \in Seq(S) /\ RdbFile \in Seq(S)
    BY DEF IInv, Kept
  <2>2. Kept(conn, <<>>, got, Pending)
    BY <2>1, EmptySeq DEF Kept
  <2>3. y \in [{"conn", "srv", "batch"} -> {conn, srv, <<>>}]
    OBVIOUS
  <2>4. y.conn = conn /\ y.batch = <<>>
    OBVIOUS
  <2> QED BY <2>2, <2>3, <2>4 DEF Round, IsRound
<1> HIDE DEF y
<1>4. Round(x, got, Pending)
  BY <1>3, ApplyMutationKeeps
<1> HIDE DEF x
<1>5. PICK S : Good(conn', S, got, Pending) /\ RdbFile \in Seq(S)
  BY <1>1, <1>4 DEF Round, Kept
<1>6. Kept(conn', batch', got', Pending)
  BY <1>1, <1>2, <1>5, EmptySeq DEF Kept
<1>7. Pending' = Pending
  BY <1>1 DEF Pending
<1>8. Shaped'
  BY <1>1 DEF IInv, Shaped
<1> QED BY <1>6, <1>7, <1>8 DEF IInv

-----------------------------------------------------------------------------
(* The invariant *)

LEMMA InitIInv == Init => IInv
<1> SUFFICES ASSUME Init PROVE IInv
  OBVIOUS
<1>1. conn = NewConn /\ pc = "wait" /\ ev = {} /\ got = <<>> /\ batch = <<>>
  BY DEF Init, TcpInit
<1> DEFINE S == [kind : {"rdb"}, body : Seq(STRING)]
<1>2. RdbFile \in Seq(S)
  BY ClientSessionAssumption
<1> HIDE DEF S
<1>3. PICK n : n = NewConn
  OBVIOUS
<1>4. IsConn(n)
  <2>1. n = [f \in ConnFields |-> NewConn[f]]
    BY <1>3 DEF NewConn, ConnFields
  <2>2. n \in [ConnFields -> {NewConn[f] : f \in ConnFields}]
    BY <2>1
  <2> QED BY <2>2 DEF IsConn
<1>5. /\ n.closed = FALSE /\ n.sending = FALSE /\ n.armed = FALSE
      /\ n.queued = FALSE /\ n.fin = FALSE /\ n.dead = FALSE
      /\ n.out = <<>> /\ n.rest = <<>> /\ n.post = <<>> /\ n.tail = <<>>
      /\ n.wire = <<>> /\ n.log = <<>> /\ n.recvq = <<>>
      /\ n.files = 0 /\ n.done = 0
  BY <1>3 DEF NewConn
<1>6. Typed(n, S, <<>>)
  <2>1. <<>> \in Seq(S) /\ Len(<<>>) = 0 /\ SndBuf \in Nat
    BY EmptySeq, TcpConnAssumption
  <2>2. /\ n.out \in Seq(S) /\ n.rest \in Seq(S) /\ n.post \in Seq(S)
        /\ n.tail \in Seq(S) /\ n.wire \in Seq(S) /\ n.log \in Seq(S)
        /\ Len(n.wire) <= SndBuf
    BY <1>5, <2>1
  <2>3. /\ n.closed \in BOOLEAN /\ n.sending \in BOOLEAN /\ n.armed \in BOOLEAN
        /\ n.queued \in BOOLEAN /\ n.fin \in BOOLEAN /\ n.dead \in BOOLEAN
    <3>1. /\ n.closed = FALSE /\ n.sending = FALSE /\ n.armed = FALSE
          /\ n.queued = FALSE /\ n.fin = FALSE /\ n.dead = FALSE
      BY <1>5
    <3> QED BY <3>1
  <2>4. n.files \in Int /\ n.done \in Int
    BY <1>5
  <2> QED BY <1>4, <2>1, <2>2, <2>3, <2>4 DEF Typed
<1>7. Ordered(n, S, <<>>)
  <2>1. PICK e \in Seq(S) : e = <<>> /\ Neutral(S, e)
    BY EmptySeq, CatEmpty
  <2>2. Cat(e, e) = e
    BY <2>1 DEF Neutral
  <2>3. Flow(e, e, e, e, e) = e
    BY <2>2 DEF Flow
  <2> QED BY <1>5, <2>1, <2>3 DEF Ordered
<1>8. Shape(n) /\ Counted(n) /\ WakesOut(n, {}) /\ WakesIn(n, {})
  BY <1>5 DEF Shape, Counted, WakesOut, WakesIn, Readable
<1>9. Good(n, S, <<>>, {})
  BY <1>6, <1>7, <1>8 DEF Good
<1>10. Pending = {}
  BY <1>1 DEF Pending
<1>11. Kept(conn, batch, got, Pending)
  BY <1>1, <1>2, <1>3, <1>9, <1>10, EmptySeq DEF Kept
<1>12. Shaped
  BY <1>1 DEF Shaped
<1> QED BY <1>11, <1>12 DEF IInv

(* Every step keeps it.                                                      *)
LEMMA NextIInv == IInv /\ [Next]_vars => IInv'
<1> SUFFICES ASSUME IInv, [Next]_vars PROVE IInv'
  OBVIOUS
<1>1. CASE Io
  <2>1. UNCHANGED batch
    BY <1>1 DEF Io
  <2>2. Loop
    BY <1>1 DEF Io
  <2> QED BY <2>1, <2>2, DeliverStep, RecvStep, RecvEndStep, RecvAgainStep, HangUpStep,
             WriteOutStep, WriteFileStep, WriteFileDoneStep, WriteDoneStep,
             WriteFailsStep DEF Loop
<1>2. CASE AofFails \/ SaveReaped \/ UNCHANGED vars
  <2>1. UNCHANGED <<conn, pc, ev, got, batch>>
    BY <1>2 DEF AofFails, SaveReaped, vars, tcpVars
  <2>2. Pending' = Pending /\ (Shaped <=> Shaped')
    BY <2>1 DEF Pending, Shaped
  <2> QED BY <2>1, <2>2 DEF IInv
<1>3. CASE Execute \/ ExecuteEnds
  BY <1>3, ExecuteStep, ExecuteEndsStep
<1>4. CASE SendRdb \/ FullsyncFails \/ OtherWrite
  BY <1>4, SendRdbStep, FullsyncFailsStep, OtherWriteStep
<1>5. CASE ClientSends \/ ClientEnds \/ ClientReads
  BY <1>5, ClientSendsStep, ClientEndsStep, ClientReadsStep
<1> QED BY <1>1, <1>2, <1>3, <1>4, <1>5 DEF Next

LEMMA IInvImplies == IInv => StreamOrder /\ NoLostWakeup /\ DoneOnce
<1> SUFFICES ASSUME IInv PROVE StreamOrder /\ NoLostWakeup /\ DoneOnce
  OBVIOUS
<1>1. PICK S : Good(conn, S, got, Pending)
  BY DEF IInv, Kept
<1>2. pc = "wait" => Pending = {}
  BY DEF IInv, Shaped, Pending
<1> QED BY <1>1, <1>2, GoodImplies

LEMMA Invariance == Spec => []IInv
<1>1. Init => IInv
  BY InitIInv
<1>2. IInv /\ [Next]_vars => IInv'
  BY NextIInv
<1> QED BY <1>1, <1>2, PTL DEF Spec

(* Whatever is sent, by replies, by a file, by what waits behind the file and *)
(* by the completion callback, reaches the peer in the order in which it was *)
(* accepted, and nothing of it is lost, repeated or overtaken while the      *)
(* connection is open.                                                       *)
THEOREM DeliveredInOrder == Spec => []StreamOrder
BY Invariance, IInvImplies, PTL

(* An edge of epoll is never missed: whenever HandleIO returns with something *)
(* left to write or to read, an event for it is queued or is still to come.  *)
THEOREM WakeupsAreKept == Spec => []NoLostWakeup
BY Invariance, IInvImplies, PTL

(* However the transfer of a file ends, its callback is called exactly once. *)
THEOREM CompletionIsCalledOnce == Spec => []DoneOnce
BY Invariance, IInvImplies, PTL
-----------------------------------------------------------------------------
(* The Slave of the connection.  SlaveMatchesConn speaks of the time between *)
(* two events; SlaveInv holds inside of the handlers too.  It needs that a   *)
(* slave is registered only once the client has asked (Matches), and holds   *)
(* for clients that ask once: module ClientSession has no second PSYNC.      *)

SrvFields == {"replica_readonly", "store", "aof", "failed", "missed", "saving",
              "image", "slave", "ran"}

IsServer(s) == /\ \E U : s \in [SrvFields -> U]
               /\ \E T : s.ran \in Seq(T)

Asks(tokens) == FromTokens(tokens).cmd = "PSYNC"

HasAsked(ran) == \E i \in 1..Len(ran) : Asks(ran[i])

\* among the requests carried out there is at most one PSYNC
AtMostOne(ran) == \A i, j \in 1..Len(ran) : Asks(ran[i]) /\ Asks(ran[j]) => i = j

Matches(c, s) == /\ s.slave = "sending" <=> c.sending
                 /\ c.closed => s.slave = "none"
                 /\ s.slave # "none" => HasAsked(s.ran)

Agreed(c, s) == IsServer(s) /\ (AtMostOne(s.ran) => Matches(c, s))

SlaveInv == Agreed(conn, srv)

(* Send leaves the file in flight alone, unless it closes the connection.    *)
LEMMA SendLeaves ==
    ASSUME NEW c, IsConn(c), NEW d
    PROVE  /\ c.closed => Send(c, d) = c
           /\ \/ Send(c, d).closed
              \/ /\ Send(c, d).sending = c.sending /\ Send(c, d).done = c.done
                 /\ Send(c, d).closed = c.closed
<1>1. PICK U : c \in [ConnFields -> U]
  BY DEF IsConn
<1>2. CASE c.closed \/ d = <<>>
  BY <1>2 DEF Send
<1>3. CASE ~c.closed /\ d # <<>> /\ c.sending
  BY <1>1, <1>3 DEF Send, ConnFields
<1>4. CASE ~c.closed /\ d # <<>> /\ ~c.sending /\ c.out # <<>>
  BY <1>1, <1>4 DEF Send, EnableWrite, ModEvent, ConnFields
<1>5. CASE ~c.closed /\ d # <<>> /\ ~c.sending /\ c.out = <<>> /\ c.dead
  BY <1>1, <1>5 DEF Send, Close, ClearSendFileFailed, ConnFields
<1>6. CASE ~c.closed /\ d # <<>> /\ ~c.sending /\ c.out = <<>> /\ ~c.dead
  <2>1. Send(c, d) = Direct(c, d)
    BY <1>6 DEF Send
  <2> DEFINE n == Least(Room(c), Len(d))
             w == c.wire \o SubSeq(d, 1, n)
             o == SubSeq(d, n + 1, Len(d))
             l == c.log \o d
             a == [c EXCEPT !.wire = w, !.out = o, !.log = l]
  <2>2. Direct(c, d) = IF n < Len(d) THEN EnableWrite(a) ELSE a
    BY DEF Direct
  <2> HIDE DEF n, w, o, l
  <2>3. /\ a.closed = c.closed /\ a.sending = c.sending /\ a.done = c.done
        /\ a \in [ConnFields -> U \cup {w, o, l}]
    BY <1>1 DEF ConnFields
  <2> HIDE DEF a
  <2> DEFINE e == EnableWrite(a)
  <2>4. e.closed = a.closed /\ e.sending = a.sending /\ e.done = a.done
    BY <2>3 DEF EnableWrite, ModEvent, ConnFields
  <2> HIDE DEF e
  <2>5. Send(c, d) = e \/ Send(c, d) = a
    BY <2>1, <2>2 DEF e
  <2> QED BY <1>6, <2>3, <2>4, <2>5
<1> QED BY <1>2, <1>3, <1>4, <1>5, <1>6

(* What Kept says of a connection and its file.                              *)
LEMMA KeptFile ==
    ASSUME NEW c, NEW b, NEW g, NEW p, Kept(c, b, g, p)
    PROVE  /\ IsConn(c) /\ c.closed \in BOOLEAN /\ c.sending \in BOOLEAN
           /\ c.closed => ~c.sending
           /\ c.done \in Int
BY DEF Kept, Good, Typed, Shape

-----------------------------------------------------------------------------
(* The server changes in a field that does not matter here.                  *)
LEMMA OtherField ==
    ASSUME NEW s, IsServer(s), NEW f \in SrvFields \ {"slave", "ran"}, NEW v
    PROVE  /\ IsServer([s EXCEPT ![f] = v])
           /\ [s EXCEPT ![f] = v].slave = s.slave
           /\ [s EXCEPT ![f] = v].ran = s.ran
<1>1. PICK U : s \in [SrvFields -> U]
  BY DEF IsServer
<1> DEFINE z == [s EXCEPT ![f] = v]
<1>2. z \in [SrvFields -> U \cup {v}]
  BY <1>1
<1>3. z.slave = s.slave /\ z.ran = s.ran
  BY <1>1 DEF SrvFields
<1> QED BY <1>2, <1>3 DEF IsServer

LEMMA OtherFieldAgrees ==
    ASSUME NEW c, NEW s, Agreed(c, s), NEW f \in SrvFields \ {"slave", "ran"}, NEW v
    PROVE  Agreed(c, [s EXCEPT ![f] = v])
BY OtherField DEF Agreed, Matches

(* The state of the slave changes.                                           *)
LEMMA SlaveField ==
    ASSUME NEW s, IsServer(s), NEW v
    PROVE  /\ IsServer([s EXCEPT !.slave = v])
           /\ [s EXCEPT !.slave = v].slave = v
           /\ [s EXCEPT !.slave = v].ran = s.ran
           /\ [s EXCEPT !.slave = v].saving = s.saving
<1>1. PICK U : s \in [SrvFields -> U]
  BY DEF IsServer
<1> DEFINE z == [s EXCEPT !.slave = v]
<1>2. z \in [SrvFields -> U \cup {v}]
  BY <1>1
<1>3. z.slave = v /\ z.ran = s.ran /\ z.saving = s.saving
  BY <1>1 DEF SrvFields
<1> QED BY <1>2, <1>3 DEF IsServer

(* A fork changes nothing about the slave.                                   *)
LEMMA ForkedAgrees ==
    ASSUME NEW c, NEW s, Agreed(c, s), NEW path
    PROVE  Agreed(c, Forked(s, path))
<1> DEFINE a == [s EXCEPT !["saving"] = path]
           st == s.store
<1>1. Agreed(c, a)
  BY OtherFieldAgrees DEF SrvFields
<1>2. Forked(s, path) = [a EXCEPT !["image"] = st]
  <2>1. PICK U : s \in [SrvFields -> U]
    BY DEF Agreed, IsServer
  <2> QED BY <2>1 DEF Forked
<1> HIDE DEF a, st
<1>3. "image" \in SrvFields \ {"slave", "ran"}
  BY DEF SrvFields
<1>4. Agreed(c, [a EXCEPT !["image"] = st])
  BY <1>1, <1>3, OtherFieldAgrees
<1> QED BY <1>2, <1>4

-----------------------------------------------------------------------------
(* A round of ProtocolExecutor *)

AgreedRound(x, g, p) == Round(x, g, p) /\ Agreed(x.conn, x.srv)

LEMMA ReplyAgrees ==
    ASSUME NEW x, NEW g, NEW p, NEW u, AgreedRound(x, g, p)
    PROVE  AgreedRound([x EXCEPT !.batch = Append(@, u)], g, p)
<1> DEFINE y == [x EXCEPT !.batch = Append(@, u)]
<1>1. Round(y, g, p)
  BY ReplyKeeps DEF AgreedRound
<1>2. PICK U : x \in [{"conn", "srv", "batch"} -> U]
  BY DEF AgreedRound, Round, IsRound
<1>3. y.conn = x.conn /\ y.srv = x.srv
  BY <1>2
<1> QED BY <1>1, <1>3 DEF AgreedRound

LEMMA RepliedAgrees ==
    ASSUME NEW x, NEW g, NEW p, NEW kind, NEW body, AgreedRound(x, g, p)
    PROVE  AgreedRound(Replied(x, kind, body), g, p)
BY ReplyAgrees DEF Replied

LEMMA ServerAgrees ==
    ASSUME NEW x, NEW g, NEW p, NEW s, Round(x, g, p), Agreed(x.conn, s)
    PROVE  AgreedRound([x EXCEPT !.srv = s], g, p)
<1> DEFINE y == [x EXCEPT !.srv = s]
<1>1. Round(y, g, p)
  BY ServerChanges
<1>2. PICK U : x \in [{"conn", "srv", "batch"} -> U]
  BY DEF Round, IsRound
<1>3. y.conn = x.conn /\ y.srv = s
  BY <1>2
<1> QED BY <1>1, <1>3 DEF AgreedRound

LEMMA FieldAgrees ==
    ASSUME NEW x, NEW g, NEW p, NEW f \in SrvFields \ {"slave", "ran"}, NEW v,
           AgreedRound(x, g, p)
    PROVE  AgreedRound([x EXCEPT !.srv[f] = v], g, p)
<1>1. PICK U : x \in [{"conn", "srv", "batch"} -> U]
  BY DEF AgreedRound, Round, IsRound
<1> DEFINE s == [x.srv EXCEPT ![f] = v]
<1>2. [x EXCEPT !.srv[f] = v] = [x EXCEPT !.srv = s]
  BY <1>1
<1>3. Agreed(x.conn, s)
  BY OtherFieldAgrees DEF AgreedRound
<1> HIDE DEF s
<1> QED BY <1>2, <1>3, ServerAgrees DEF AgreedRound

(* A slave that is kicked for being too slow is removed.                     *)
LEMMA FeedAgrees ==
    ASSUME NEW x, NEW g, NEW p, NEW frame, AgreedRound(x, g, p)
    PROVE  AgreedRound(FeedEncodedFrame(x, frame), g, p)
<1> DEFINE c == Send(x.conn, <<Unit("frame", frame)>>)
           d == IF OutputBuffered(c) > OutputLimit THEN Close(c) ELSE c
           v == IF d.closed THEN "none" ELSE x.srv.slave
           s == [x.srv EXCEPT !.slave = v]
           y == FeedEncodedFrame(x, frame)
<1>0. Round(x, g, p) /\ Agreed(x.conn, x.srv)
  BY DEF AgreedRound
<1>1. Round(y, g, p)
  BY <1>0, FeedKeeps
<1>2. CASE x.srv.slave # "synced"
  BY <1>2 DEF FeedEncodedFrame
<1>3. CASE x.srv.slave = "synced"
  <2>1. PICK U : x \in [{"conn", "srv", "batch"} -> U]
    BY <1>0 DEF Round, IsRound
  <2>2. y = [x EXCEPT !.conn = d, !.srv.slave = IF d.closed THEN "none" ELSE @]
    BY <1>3 DEF FeedEncodedFrame
  <2>3. Kept(x.conn, x.batch, g, p)
    BY <1>0 DEF Round
  <2>4. Kept(c, x.batch, g, p)
    BY <2>3, KeptSend
  <2>5. IsConn(x.conn) /\ x.conn.closed \in BOOLEAN /\ x.conn.sending \in BOOLEAN
    BY <2>3, KeptFile
  <2>6. c.closed \/ (c.sending = x.conn.sending /\ c.closed = x.conn.closed)
    BY <2>5, SendLeaves
  <2> HIDE DEF c
  <2>7. /\ d.closed \in BOOLEAN /\ d.sending \in BOOLEAN
        /\ d.closed => ~d.sending
        /\ d.closed \/ (d.sending = x.conn.sending /\ d.closed = x.conn.closed)
    BY <2>4, <2>6, KeptClose, KeptFile
  <2>8. y.conn = d /\ y.srv = s
    BY <2>1, <2>2
  <2> HIDE DEF d, y
  <2>9. IsServer(s) /\ s.slave = v /\ s.ran = x.srv.ran
    BY <1>0, SlaveField DEF Agreed
  <2> HIDE DEF s
  <2>10. Agreed(d, s)
    <3>1. CASE d.closed
      BY <1>0, <2>7, <2>9, <3>1 DEF Agreed, Matches
    <3>2. CASE ~d.closed
      BY <1>0, <1>3, <2>7, <2>9, <3>2 DEF Agreed, Matches
    <3> QED BY <2>7, <3>1, <3>2
  <2> QED BY <1>1, <2>8, <2>10 DEF AgreedRound, y
<1> QED BY <1>2, <1>3

LEMMA ApplyMutationAgrees ==
    ASSUME NEW x, NEW g, NEW p, NEW ctx, AgreedRound(x, g, p)
    PROVE  AgreedRound(ApplyMutation(x, ctx), g, p)
<1> DEFINE hit   == ctx.key \in DOMAIN x.srv.store
           frame == EncodeCommand(WriteTokens(ctx))
           a     == [x EXCEPT !.srv.store = Applied(@, ctx)]
           f     == [a EXCEPT !.srv.aof = Append(@, frame)]
           m     == [a EXCEPT !.srv.missed = TRUE]
           okay  == IF ctx.cmd = "SET" THEN Unit("+OK", <<>>) ELSE Unit(":1", <<>>)
           b     == FeedEncodedFrame(f, frame)
           r     == [b EXCEPT !.batch = Append(@, okay)]
<1>1. \/ ApplyMutation(x, ctx) = Replied(x, "-ERR empty key", <<>>)
      \/ ApplyMutation(x, ctx) = Replied(x, ":0", <<>>)
      \/ ApplyMutation(x, ctx) = Replied(m, "-ERR aof append failed", <<>>)
      \/ ApplyMutation(x, ctx) = r
  BY DEF ApplyMutation
<1>2. AgreedRound(a, g, p)
  BY FieldAgrees DEF SrvFields
<1> HIDE DEF a, frame, okay
<1>3. AgreedRound(m, g, p) /\ AgreedRound(f, g, p)
  BY <1>2, FieldAgrees DEF SrvFields
<1> HIDE DEF m, f
<1>4. AgreedRound(b, g, p)
  BY <1>3, FeedAgrees
<1> HIDE DEF b
<1>5. AgreedRound(r, g, p)
  BY <1>4, ReplyAgrees
<1> HIDE DEF r
<1>6. /\ AgreedRound(Replied(x, "-ERR empty key", <<>>), g, p)
      /\ AgreedRound(Replied(x, ":0", <<>>), g, p)
      /\ AgreedRound(Replied(m, "-ERR aof append failed", <<>>), g, p)
  BY <1>3, RepliedAgrees
<1> QED BY <1>1, <1>5, <1>6

\* The client that asks has asked, and is not a slave yet
FirstAsked(s) == HasAsked(s.ran) /\ (AtMostOne(s.ran) => s.slave = "none")

(* A PSYNC registers the connection, if it is open.                          *)
LEMMA PsyncAgrees ==
    ASSUME NEW x, NEW g, NEW p, AgreedRound(x, g, p), FirstAsked(x.srv)
    PROVE  AgreedRound(PsyncReply(x), g, p)
<1> DEFINE w == [x.srv EXCEPT !.slave = "wait"]
           s == IF w.saving = "no" THEN Forked(w, "fullsync") ELSE w
<1>1. CASE x.conn.closed
  BY <1>1, RepliedAgrees DEF PsyncReply
<1>2. CASE ~x.conn.closed
  <2>1. PsyncReply(x) = [x EXCEPT !.srv = s]
    BY <1>2 DEF PsyncReply
  <2>2. IsServer(w) /\ w.slave = "wait" /\ w.ran = x.srv.ran
    BY SlaveField DEF AgreedRound, Agreed
  <2> HIDE DEF w
  <2>3. Agreed(x.conn, w)
    BY <1>2, <2>2 DEF AgreedRound, Agreed, Matches, FirstAsked
  <2>4. Agreed(x.conn, s)
    BY <2>3, ForkedAgrees
  <2> HIDE DEF s
  <2> QED BY <2>1, <2>4, ServerAgrees DEF AgreedRound
<1> QED BY <1>1, <1>2

LEMMA DispatchAgrees ==
    ASSUME NEW x, NEW g, NEW p, NEW ctx, AgreedRound(x, g, p),
           ctx.cmd = "PSYNC" => FirstAsked(x.srv)
    PROVE  AgreedRound(Dispatch(x, ctx), g, p)
<1>1. \A kind, body : AgreedRound(Replied(x, kind, body), g, p)
  BY RepliedAgrees
<1>2. AgreedRound(GetReply(x, ctx), g, p)
  BY <1>1 DEF GetReply
<1>3. AgreedRound(AssistReply(x, ctx), g, p)
  BY <1>1 DEF AssistReply
<1>4. AgreedRound(SaveReply(x), g, p)
  <2> DEFINE s == Forked(x.srv, "dump")
             y == [x EXCEPT !.srv = s]
  <2>1. AgreedRound(y, g, p)
    <3>1. Agreed(x.conn, s)
      BY ForkedAgrees DEF AgreedRound
    <3> HIDE DEF s
    <3> QED BY <3>1, ServerAgrees DEF AgreedRound
  <2>2. SaveReply(x) = Replied(y, "+OK", <<>>) \/
        SaveReply(x) = Replied(x, "-ERR Background save already in progress", <<>>)
    BY DEF SaveReply
  <2> HIDE DEF y
  <2>3. AgreedRound(Replied(y, "+OK", <<>>), g, p)
    BY <2>1, RepliedAgrees
  <2> QED BY <1>1, <2>2, <2>3
<1>5. ctx.cmd = "PSYNC" => AgreedRound(PsyncReply(x), g, p)
  BY PsyncAgrees
<1>6. AgreedRound(ApplyMutation(x, ctx), g, p)
  BY ApplyMutationAgrees
<1>7. AgreedRound(Registered(x, ctx), g, p)
  BY <1>1, <1>2, <1>3, <1>4, <1>5, <1>6 DEF Registered
<1> QED BY <1>1, <1>7 DEF Dispatch

-----------------------------------------------------------------------------
(* The steps *)

(* What a step of HandleIO does to the file in flight: the connection is     *)
(* closed, or nothing, or the file is out.                                   *)
FileStep == \/ conn'.closed
            \/ /\ conn'.sending = conn.sending /\ conn'.done = conn.done
               /\ conn'.closed = conn.closed
            \/ conn.sending /\ ~conn'.sending /\ conn'.done > conn.done

LEMMA LoopFile ==
    ASSUME IInv, Loop
    PROVE  FileStep
<1>1. Kept(conn, batch, got, Pending)
  BY DEF IInv
<1>2. /\ IsConn(conn) /\ conn.closed \in BOOLEAN /\ conn.sending \in BOOLEAN
      /\ conn.closed => ~conn.sending
      /\ conn.done \in Int
  BY <1>1, KeptFile
<1>3. PICK U : conn \in [ConnFields -> U]
  BY <1>2 DEF IsConn
<1>4. CASE Deliver
  BY <1>3, <1>4 DEF Deliver, FileStep, ConnFields
<1>5. CASE Recv
  <2>1. PICK i, q : conn' = [conn EXCEPT !.input = i, !.recvq = q, !.fresh = TRUE]
    BY <1>5 DEF Recv
  <2> QED BY <1>3, <2>1 DEF FileStep, ConnFields
<1>6. CASE RecvEnd
  <2> DEFINE c == [conn EXCEPT !.fresh = FALSE]
  <2>1. conn' = Close(c)
    BY <1>6 DEF RecvEnd
  <2>2. Close(c).closed
    BY <1>3 DEF Close, ClearSendFileFailed, ConnFields
  <2> QED BY <2>1, <2>2 DEF FileStep
<1>7. CASE RecvAgain
  BY <1>3, <1>7 DEF RecvAgain, FileStep, ConnFields
<1>8. CASE HangUp
  BY <1>1, <1>8, KeptClose DEF HangUp, FileStep
<1>9. CASE WriteOut
  <2>1. conn' = conn \/ \E w, o : conn' = [conn EXCEPT !.wire = w, !.out = o]
    BY <1>9 DEF WriteOut
  <2> QED BY <1>3, <2>1 DEF FileStep, ConnFields
<1>10. CASE WriteFile
  <2>1. conn' = conn \/ \E w, r : conn' = [conn EXCEPT !.wire = w, !.rest = r]
    BY <1>10 DEF WriteFile
  <2> QED BY <1>3, <2>1 DEF FileStep, ConnFields
<1>11. CASE WriteFileDone
  <2> DEFINE f == FileCleared(conn)
             e == IF conn.post # <<>> THEN EnableWrite(f) ELSE f
  <2>1. conn.sending /\ conn' = Send(e, conn.tail)
    BY <1>11 DEF WriteFileDone, ClearSendFileDone
  <2>2. /\ f.sending = FALSE /\ f.done = conn.done + 1
        /\ \E V : f \in [ConnFields -> V]
    <3> DEFINE o == conn.out \o conn.post
               n == conn.done + 1
    <3>1. f = [conn EXCEPT !.sending = FALSE, !.rest = <<>>, !.tail = <<>>,
                           !.out = o, !.post = <<>>, !.done = n]
      BY DEF FileCleared
    <3>2. n = conn.done + 1
      OBVIOUS
    <3> HIDE DEF f, o, n
    <3>3. f \in [ConnFields -> U \cup {FALSE, <<>>, o, n}]
      BY <1>3, <3>1 DEF ConnFields
    <3>4. f.sending = FALSE /\ f.done = n
      BY <1>3, <3>1 DEF ConnFields
    <3> QED BY <3>2, <3>3, <3>4
  <2> HIDE DEF f
  <2>3. PICK V : f \in [ConnFields -> V]
    BY <2>2
  <2>4. e.sending = FALSE /\ e.done = conn.done + 1 /\ IsConn(e)
    <3>1. CASE e = f
      BY <2>2, <3>1 DEF IsConn
    <3>2. CASE e = EnableWrite(f)
      <4>1. PICK q : e = [f EXCEPT !.armed = TRUE, !.queued = q]
        BY <3>2 DEF EnableWrite, ModEvent
      <4> HIDE DEF e
      <4>2. e \in [ConnFields -> V \cup {TRUE, q}]
        BY <2>3, <4>1
      <4>3. e.sending = f.sending /\ e.done = f.done
        BY <2>3, <4>1 DEF ConnFields
      <4> QED BY <2>2, <4>2, <4>3 DEF IsConn
    <3> QED BY <3>1, <3>2
  <2> HIDE DEF e
  <2>5. conn'.closed \/ (conn'.sending = FALSE /\ conn'.done = conn.done + 1)
    BY <2>1, <2>4, SendLeaves
  <2>6. conn.done + 1 > conn.done
    BY <1>2
  <2> QED BY <2>1, <2>5, <2>6 DEF FileStep
<1>12. CASE WriteDone
  <2>1. conn' = conn \/ \E q : conn' = [conn EXCEPT !.armed = FALSE, !.queued = q]
    BY <1>12 DEF WriteDone, DisableWrite, ModEvent
  <2> QED BY <1>3, <2>1 DEF FileStep, ConnFields
<1>13. CASE WriteFails
  <2>1. conn' = Close(ClearSendFileFailed(conn))
    BY <1>13 DEF WriteFails
  <2>2. Close(ClearSendFileFailed(conn)).closed
    BY <1>3 DEF Close, ClearSendFileFailed, ConnFields
  <2> QED BY <2>1, <2>2 DEF FileStep
<1> QED BY <1>4, <1>5, <1>6, <1>7, <1>8, <1>9, <1>10, <1>11, <1>12, <1>13 DEF Loop

(* What the callbacks make of it.                                            *)
LEMMA FollowsAgrees ==
    ASSUME SlaveInv, IInv, IInv', SlaveFollows, FileStep
    PROVE  SlaveInv'
<1>1. /\ conn.closed \in BOOLEAN /\ conn.sending \in BOOLEAN
      /\ conn.closed => ~conn.sending
      /\ conn.done \in Int
      /\ conn'.closed \in BOOLEAN /\ conn'.sending \in BOOLEAN
      /\ conn'.closed => ~conn'.sending
      /\ conn'.done \in Int
  BY KeptFile DEF IInv
<1> DEFINE v == IF conn'.closed THEN "none"
                ELSE IF conn'.done > conn.done THEN "synced" ELSE srv.slave
<1>2. srv' = [srv EXCEPT !.slave = v]
  BY DEF SlaveFollows
<1>3. IsServer(srv) /\ (AtMostOne(srv.ran) => Matches(conn, srv))
  BY DEF SlaveInv, Agreed
<1>4. IsServer(srv') /\ srv'.slave = v /\ srv'.ran = srv.ran
  BY <1>2, <1>3, SlaveField
<1>5. ASSUME AtMostOne(srv.ran) PROVE Matches(conn', srv')
  <2>1. Matches(conn, srv)
    BY <1>3, <1>5
  <2>2. CASE conn'.closed
    BY <1>1, <1>4, <2>2 DEF Matches
  <2>3. CASE ~conn'.closed /\ conn'.sending = conn.sending /\ conn'.done = conn.done
             /\ conn'.closed = conn.closed
    <3>1. v = srv.slave
      BY <1>1, <2>3
    <3> HIDE DEF v
    <3> QED BY <1>4, <2>1, <2>3, <3>1 DEF Matches
  <2>4. CASE ~conn'.closed /\ conn.sending /\ ~conn'.sending /\ conn'.done > conn.done
    <3>1. srv.slave = "sending" /\ HasAsked(srv.ran)
      BY <2>1, <2>4 DEF Matches
    <3>2. v = "synced"
      BY <2>4
    <3> HIDE DEF v
    <3> QED BY <1>4, <2>4, <3>1, <3>2 DEF Matches
  <2> QED BY <1>1, <2>2, <2>3, <2>4 DEF FileStep
<1> QED BY <1>4, <1>5 DEF SlaveInv, Agreed

LEMMA ExecuteEndsFile ==
    ASSUME IInv, ExecuteEnds
    PROVE  FileStep
<1> DEFINE f == Send(conn, batch)
           e == Send(f, <<Unit("-ERR protocol error", <<>>)>>)
<1>1. conn' = f \/ conn' = e
  BY DEF ExecuteEnds, CallbackReturns
<1>2. PICK S : Good(conn, S, got, Pending) /\ batch \in Seq(S)
  BY DEF IInv, Kept
<1>3. IsConn(conn) /\ IsConn(f)
  BY <1>2, SendKeeps DEF Good, Typed
<1>4. f.closed \/ (f.sending = conn.sending /\ f.done = conn.done /\ f.closed = conn.closed)
  BY <1>3, SendLeaves
<1> HIDE DEF f
<1>5. /\ f.closed => e = f
      /\ e.closed \/ (e.sending = f.sending /\ e.done = f.done /\ e.closed = f.closed)
  BY <1>3, SendLeaves
<1> HIDE DEF e
<1> QED BY <1>1, <1>4, <1>5 DEF FileStep

(* A request is carried out.                                                 *)
LEMMA ExecuteAgrees ==
    ASSUME SlaveInv, IInv, Execute
    PROVE  SlaveInv'
<1>1. PICK d \in {TryParse(conn.input)} :
        \E x \in {Dispatch([conn |-> [conn EXCEPT !.input = ReadCompleted(@, d.consumed)],
                            srv |-> [srv EXCEPT !.ran = Append(@, d.tokens)],
                            batch |-> batch], d.ctx)} :
           conn' = x.conn /\ srv' = x.srv
  BY DEF Execute
<1>2. d.ctx = FromTokens(d.tokens)
  BY DEF TryParse
<1> DEFINE i == ReadCompleted(conn.input, d.consumed)
           z == [conn EXCEPT !.input = i]
           t == d.tokens
           s == [srv EXCEPT !.ran = Append(@, t)]
           y == [conn |-> z, srv |-> s, batch |-> batch]
           x == Dispatch(y, d.ctx)
<1>3. conn' = x.conn /\ srv' = x.srv
  BY <1>1
<1> HIDE DEF i
<1>4. Kept(z, batch, got, Pending)
  BY BufferStep DEF IInv
<1>5. z.sending = conn.sending /\ z.closed = conn.closed
  <2>1. IsConn(conn)
    BY KeptFile DEF IInv
  <2> QED BY <2>1 DEF IsConn, ConnFields
<1> HIDE DEF z
<1>6. IsServer(srv) /\ (AtMostOne(srv.ran) => Matches(conn, srv))
  BY DEF SlaveInv, Agreed
<1>7. PICK T : srv.ran \in Seq(T)
  BY <1>6 DEF IsServer
<1>8. IsServer(s) /\ s.slave = srv.slave /\ s.ran = Append(srv.ran, t)
  <2> DEFINE r == Append(srv.ran, t)
  <2>1. PICK U : srv \in [SrvFields -> U]
    BY <1>6 DEF IsServer
  <2>2. srv.ran \in Seq(T \cup {t})
    BY <1>7, SeqMonotonic
  <2>3. r \in Seq(T \cup {t})
    BY <2>2, AppendProperties
  <2> HIDE DEF r
  <2>4. s = [srv EXCEPT !.ran = r]
    BY DEF r
  <2>5. s.slave = srv.slave /\ s.ran = r
    BY <2>1, <2>4 DEF SrvFields
  <2>6. s \in [SrvFields -> U \cup {r}]
    BY <2>1, <2>4
  <2> HIDE DEF s
  <2> QED BY <2>3, <2>5, <2>6 DEF IsServer, r
<1> HIDE DEF s, t
<1>9. /\ Len(s.ran) = Len(srv.ran) + 1 /\ Len(srv.ran) \in Nat
      /\ s.ran[Len(srv.ran) + 1] = t
      /\ \A k \in 1..Len(srv.ran) : s.ran[k] = srv.ran[k]
  BY <1>7, <1>8
<1>10. AtMostOne(s.ran) => AtMostOne(srv.ran)
  BY <1>9 DEF AtMostOne
<1>11. HasAsked(srv.ran) => HasAsked(s.ran)
  BY <1>9 DEF HasAsked
<1>12. Agreed(z, s)
  BY <1>5, <1>6, <1>8, <1>10, <1>11 DEF Agreed, Matches
<1>13. d.ctx.cmd = "PSYNC" => FirstAsked(s)
  <2> SUFFICES ASSUME d.ctx.cmd = "PSYNC" PROVE FirstAsked(s)
    OBVIOUS
  <2>1. Asks(t)
    BY <1>2 DEF Asks, t
  <2>2. HasAsked(s.ran)
    BY <1>9, <2>1 DEF HasAsked
  <2>3. ASSUME AtMostOne(s.ran) PROVE ~HasAsked(srv.ran)
    <3> SUFFICES ASSUME NEW k \in 1..Len(srv.ran), Asks(srv.ran[k]) PROVE FALSE
      BY DEF HasAsked
    <3>1. /\ k \in 1..Len(s.ran) /\ Len(s.ran) \in 1..Len(s.ran)
          /\ s.ran[k] = srv.ran[k] /\ s.ran[Len(s.ran)] = t /\ k # Len(s.ran)
      BY <1>9
    <3> QED BY <2>1, <2>3, <3>1 DEF AtMostOne
  <2>4. AtMostOne(s.ran) => s.slave = "none"
    BY <1>6, <1>8, <1>10, <2>3 DEF Matches
  <2> QED BY <2>2, <2>4 DEF FirstAsked
<1>14. AgreedRound(y, got, Pending)
  <2>1. y \in [{"conn", "srv", "batch"} -> {z, s, batch}]
    OBVIOUS
  <2>2. y.conn = z /\ y.batch = batch /\ y.srv = s
    OBVIOUS
  <2> HIDE DEF y
  <2> QED BY <1>4, <1>12, <2>1, <2>2 DEF AgreedRound, Round, IsRound
<1>15. y.srv = s
  OBVIOUS
<1> HIDE DEF y
<1>16. AgreedRound(x, got, Pending)
  BY <1>13, <1>14, <1>15, DispatchAgrees
<1> HIDE DEF x
<1> QED BY <1>3, <1>16 DEF AgreedRound, SlaveInv

LEMMA OtherWriteAgrees ==
    ASSUME SlaveInv, IInv, OtherWrite
    PROVE  SlaveInv'
<1> DEFINE y == [conn |-> conn, srv |-> srv, batch |-> <<>>]
           x == ApplyMutation(y, [cmd |-> "SET", key |-> <<"k">>, element |-> <<"o">>])
<1>1. conn' = x.conn /\ srv' = x.srv
  BY DEF OtherWrite
<1>2. AgreedRound(y, got, Pending)
  <2>1. PICK S : Good(conn, S, got, Pending) /\ batch \in Seq(S) /\ RdbFile \in Seq(S)
    BY DEF IInv, Kept
  <2>2. Kept(conn, <<>>, got, Pending)
    BY <2>1, EmptySeq DEF Kept
  <2>3. y \in [{"conn", "srv", "batch"} -> {conn, srv, <<>>}]
    OBVIOUS
  <2>4. y.conn = conn /\ y.batch = <<>> /\ y.srv = srv
    OBVIOUS
  <2> HIDE DEF y
  <2> QED BY <2>2, <2>3, <2>4 DEF AgreedRound, Round, IsRound, SlaveInv
<1> HIDE DEF y
<1>3. AgreedRound(x, got, Pending)
  BY <1>2, ApplyMutationAgrees
<1> HIDE DEF x
<1> QED BY <1>1, <1>3 DEF AgreedRound, SlaveInv

(* The file for the slave, or the news that there is none.                   *)
LEMMA SaveDoneAgrees ==
    ASSUME SlaveInv, IInv, IInv', SendRdb \/ FullsyncFails
    PROVE  SlaveInv'
<1>1. /\ IsConn(conn) /\ conn.closed \in BOOLEAN /\ conn.sending \in BOOLEAN
      /\ conn'.closed \in BOOLEAN /\ conn'.sending \in BOOLEAN
      /\ conn'.closed => ~conn'.sending
  BY KeptFile DEF IInv
<1>2. IsServer(srv) /\ (AtMostOne(srv.ran) => Matches(conn, srv))
  BY DEF SlaveInv, Agreed
<1>3. srv.slave = "wait"
  BY DEF SendRdb, FullsyncFails
<1> DEFINE a == [srv EXCEPT !["saving"] = "no"]
<1>4. IsServer(a) /\ a.slave = srv.slave /\ a.ran = srv.ran
  BY <1>2, OtherField DEF SrvFields
<1>5. CASE SendRdb
  <2> DEFINE c == Send(conn, <<Unit("+FULLRESYNC", <<>>)>>)
             v == IF conn'.closed THEN "none" ELSE "sending"
  <2>1. conn' = BeginSendFile(c, RdbFile, <<Unit("backlog", <<>>)>>)
    BY <1>5 DEF SendRdb
  <2>2. srv' = [a EXCEPT !.slave = v]
    <3>1. PICK U : srv \in [SrvFields -> U]
      BY <1>2 DEF IsServer
    <3>2. srv' = [srv EXCEPT !.saving = "no", !.slave = v]
      BY <1>5 DEF SendRdb
    <3> QED BY <3>1, <3>2
  <2>3. Kept(c, batch, got, Pending)
    BY KeptSend DEF IInv
  <2>4. IsConn(c) /\ c.closed \in BOOLEAN /\ c.sending \in BOOLEAN
    BY <2>3, KeptFile
  <2> HIDE DEF c
  <2>5. conn'.closed \/ conn'.sending
    <3>1. CASE c.closed \/ c.sending
      BY <2>1, <3>1 DEF BeginSendFile
    <3>2. CASE ~c.closed /\ ~c.sending
      <4>1. PICK l, n, q, r, t :
              conn' = [c EXCEPT !.sending = TRUE, !.rest = r, !.tail = t,
                                !.files = n, !.log = l, !.armed = TRUE, !.queued = q]
        <5> DEFINE b == [c EXCEPT !.sending = TRUE, !.rest = RdbFile,
                            !.tail = <<Unit("backlog", <<>>)>>,
                            !.files = @ + 1, !.log = @ \o RdbFile]
        <5>1. conn' = [b EXCEPT !.armed = TRUE,
                         !.queued = @ \/ Readable(b) \/ (TRUE /\ Writable(b))]
          BY <2>1, <3>2 DEF BeginSendFile, EnableWrite, ModEvent
        <5> QED BY <2>4, <5>1 DEF IsConn, ConnFields
      <4> QED BY <2>4, <4>1 DEF IsConn, ConnFields
    <3> QED BY <2>4, <3>1, <3>2
  <2> HIDE DEF a
  <2>6. IsServer(srv') /\ srv'.slave = v /\ srv'.ran = srv.ran
    BY <1>4, <2>2, SlaveField
  <2>7. AtMostOne(srv.ran) => HasAsked(srv.ran)
    BY <1>2, <1>3 DEF Matches
  <2>8. CASE conn'.closed
    BY <1>1, <2>6, <2>8 DEF SlaveInv, Agreed, Matches
  <2>9. CASE ~conn'.closed
    BY <1>1, <2>5, <2>6, <2>7, <2>9 DEF SlaveInv, Agreed, Matches
  <2> QED BY <1>1, <2>8, <2>9
<1>6. CASE FullsyncFails
  <2>1. conn' = Send(conn, <<Unit("-ERR fullsync save failed", <<>>)>>)
    BY <1>6 DEF FullsyncFails
  <2>2. srv' = [a EXCEPT !.slave = "none"]
    <3>1. PICK U : srv \in [SrvFields -> U]
      BY <1>2 DEF IsServer
    <3>2. srv' = [srv EXCEPT !.saving = "no", !.slave = "none"]
      BY <1>6 DEF FullsyncFails
    <3> QED BY <3>1, <3>2
  <2> HIDE DEF a
  <2>3. IsServer(srv') /\ srv'.slave = "none" /\ srv'.ran = srv.ran
    BY <1>4, <2>2, SlaveField
  <2>4. conn'.closed \/ conn'.sending = conn.sending
    BY <1>1, <2>1, SendLeaves
  <2>5. AtMostOne(srv.ran) => ~conn.sending
    BY <1>2, <1>3 DEF Matches
  <2> QED BY <1>1, <2>3, <2>4, <2>5 DEF SlaveInv, Agreed, Matches
<1> QED BY <1>5, <1>6

(* Steps of the client and of the AOF, and the end of other children.        *)
LEMMA OtherStepsAgree ==
    ASSUME SlaveInv, IInv,
           AofFails \/ SaveReaped \/ ClientSends \/ ClientEnds \/ ClientReads
    PROVE  SlaveInv'
<1>1. CASE AofFails
  <2>1. conn' = conn /\ srv' = [srv EXCEPT !["failed"] = TRUE]
    BY <1>1 DEF AofFails, tcpVars
  <2> QED BY <2>1, OtherFieldAgrees DEF SlaveInv, SrvFields
<1>2. CASE SaveReaped
  <2>1. /\ conn' = conn
        /\ srv' = Forked(srv, "fullsync") \/ srv' = [srv EXCEPT !["saving"] = "no"]
    BY <1>2 DEF SaveReaped, tcpVars
  <2> QED BY <2>1, OtherFieldAgrees, ForkedAgrees DEF SlaveInv, SrvFields
<1>3. CASE ClientSends \/ ClientEnds \/ ClientReads
  <2>1. PICK U : conn \in [ConnFields -> U]
    BY KeptFile DEF IInv, IsConn
  <2>2. srv' = srv /\ conn'.sending = conn.sending /\ conn'.closed = conn.closed
    <3>1. CASE ClientSends
      BY <2>1, <3>1 DEF ClientSends, Arrive, ConnFields
    <3>2. CASE ClientEnds
      BY <2>1, <3>2 DEF ClientEnds, PeerFin, PeerReset, ConnFields
    <3>3. CASE ClientReads
      <4>1. conn' = Drained(conn) /\ srv' = srv
        BY <3>3 DEF ClientReads, PeerRead
      <4>2. PICK w, q : conn' = [conn EXCEPT !.wire = w, !.queued = q]
        <5> DEFINE d == [conn EXCEPT !.wire = Tail(@)]
        <5>1. conn' = [d EXCEPT !.queued = @ \/ (d.armed /\ Writable(d) /\ ~Writable(conn))]
          BY <4>1 DEF Drained
        <5> QED BY <2>1, <5>1 DEF ConnFields
      <4> QED BY <2>1, <4>1, <4>2 DEF ConnFields
    <3> QED BY <1>3, <3>1, <3>2, <3>3
  <2> QED BY <2>2 DEF SlaveInv, Agreed, Matches
<1> QED BY <1>1, <1>2, <1>3

LEMMA InitSlaveInv == Init => SlaveInv
<1> SUFFICES ASSUME Init PROVE SlaveInv
  OBVIOUS
<1>1. conn.sending = FALSE /\ conn.closed = FALSE
  BY DEF Init, TcpInit, NewConn
<1>2. PICK role \in Roles : srv = InitSrv(role)
  BY DEF Init
<1>3. srv.slave = "none" /\ srv.ran = <<>>
  BY <1>2 DEF InitSrv
<1>4. IsServer(srv)
  <2>1. srv = [f \in SrvFields |-> srv[f]]
    BY <1>2 DEF InitSrv, SrvFields
  <2>2. srv \in [SrvFields -> {srv[f] : f \in SrvFields}]
    BY <2>1
  <2>3. srv.ran \in Seq({})
    BY <1>3, EmptySeq
  <2> QED BY <2>2, <2>3 DEF IsServer
<1> QED BY <1>1, <1>3, <1>4 DEF SlaveInv, Agreed, Matches

LEMMA NextSlaveInv == SlaveInv /\ IInv /\ IInv' /\ [Next]_vars => SlaveInv'
<1> SUFFICES ASSUME SlaveInv, IInv, IInv', [Next]_vars PROVE SlaveInv'
  OBVIOUS
<1>1. CASE Io
  BY <1>1, LoopFile, FollowsAgrees DEF Io
<1>2. CASE ExecuteEnds
  <2>1. SlaveFollows
    BY <1>2 DEF ExecuteEnds
  <2> QED BY <1>2, <2>1, ExecuteEndsFile, FollowsAgrees
<1>3. CASE UNCHANGED vars
  BY <1>3 DEF vars, tcpVars, SlaveInv
<1> QED BY <1>1, <1>2, <1>3, ExecuteAgrees, OtherWriteAgrees, SaveDoneAgrees,
           OtherStepsAgree DEF Next

\* The client has asked for PSYNC at most once so far
AskedOnce == AtMostOne(srv.ran)

(* The replication master and the connection agree: whenever HandleIO is     *)
(* through, a Slave is sending exactly while the socket has the file, and no *)
(* Slave is left of a connection that was closed, by a write that failed, by *)
(* the peer, or for being too slow.  For clients that ask for PSYNC once.    *)
THEOREM SlaveGoesWithConn == Spec => [](AskedOnce => SlaveMatchesConn)
<1>1. Init => SlaveInv
  BY InitSlaveInv
<1>2. SlaveInv /\ IInv /\ IInv' /\ [Next]_vars => SlaveInv'
  BY NextSlaveInv
<1>3. SlaveInv => (AskedOnce => SlaveMatchesConn)
  BY DEF SlaveInv, Agreed, AskedOnce, Matches, SlaveMatchesConn
<1> QED BY <1>1, <1>2, <1>3, Invariance, PTL DEF Spec

-----------------------------------------------------------------------------
(*****************************************************************************)
(* The codec (module RespDecode).  A fold of SequencesExt is computed turn by *)
(* turn: FoldLeft is MapThenFoldSet, whose iteration over the sets 1..i exists *)
(* and is unique, so that the loops of the code have a state after each turn. *)
(*****************************************************************************)

(* The characters; provers do not know that a literal is a string *)
Byte == STRING \cup ToSet(Digits) \cup {"$", "*", CR, LF, "S", "D", "k", "o"}

\* Induction over the numbers, for the set of those that have a property.
LEMMA SetInduction ==
    ASSUME NEW G, 0 \in G, \A n \in Nat : n \in G => n + 1 \in G
    PROVE  Nat \subseteq G
<1> DEFINE B == Nat \ G
<1> SUFFICES ASSUME B # {} PROVE FALSE
  OBVIOUS
<1>1. PICK n \in B : \A m \in B : ~(<<m, n>> \in OpToRel(<, Nat))
  BY NatLessThanWellFounded, WFMin
<1>2. n \in Nat /\ n # 0
  OBVIOUS
<1>3. n - 1 \in Nat /\ n - 1 < n /\ (n - 1) + 1 = n
  BY <1>2
<1>4. n - 1 \notin B
  BY <1>1, <1>2, <1>3 DEF OpToRel
<1> QED BY <1>3, <1>4

\* The largest of the first n + 1 numbers, and what is left without it.
LEMMA MaxOfUpTo ==
    ASSUME NEW n \in Nat, NEW s \in SUBSET (1..(n + 1))
    PROVE  /\ n + 1 \in s => Max(s) = n + 1 /\ s \ {Max(s)} \in SUBSET (1..n)
           /\ n + 1 \notin s => s \in SUBSET (1..n) /\ s \ {Max(s)} \in SUBSET (1..n)
<1>1. CASE n + 1 \in s
  <2>1. \A y \in s : n + 1 >= y
    OBVIOUS
  <2>2. \A x \in s : (\A y \in s : x >= y) => x = n + 1
    BY <1>1, <2>1
  <2>3. Max(s) = n + 1
    BY <1>1, <2>1, <2>2 DEF Max
  <2> QED BY <1>1, <2>3
<1>2. CASE n + 1 \notin s
  <2>1. \A y \in s : y \in 1..n
    BY <1>2
  <2> QED BY <1>2, <2>1
<1> QED BY <1>1, <1>2

\* The first i numbers are the first i - 1 and i.
LEMMA UpTo ==
    ASSUME NEW n \in Nat, NEW i \in 1..n
    PROVE  /\ i - 1 \in Nat /\ (i - 1) + 1 = i /\ i - 1 \in 0..n /\ i \in 0..n
           /\ 1..i \in SUBSET (1..n) /\ 1..i # {} /\ i \in 1..i
           /\ (1..i) \ {i} = 1..(i - 1) /\ Max(1..i) = i
<1>1. /\ i - 1 \in Nat /\ (i - 1) + 1 = i /\ i - 1 \in 0..n /\ i \in 0..n
      /\ 1..i \in SUBSET (1..n) /\ 1..i # {} /\ i \in 1..i
      /\ (1..i) \ {i} = 1..(i - 1)
  OBVIOUS
<1>2. Max(1..i) = i
  BY <1>1, MaxOfUpTo
<1> QED BY <1>1, <1>2

(* The iteration of MapThenFoldSet over the turns of DecodeArrayOfBulk *)
BulkTurn(f, data, base, s) == IF s = {} THEN base ELSE Bulk(data, f[s \ {Max(s)}])
BulkIter(f, data, base, n) ==
    f = [s \in SUBSET (1..n) |-> BulkTurn(f, data, base, s)]

\* The table of the fold over the bulks of an array exists, for every number
\* of turns.
LEMMA BulkIterExists ==
    ASSUME NEW data, NEW base, NEW n \in Nat
    PROVE  \E f : BulkIter(f, data, base, n)
<1> DEFINE G == {m \in Nat : \E f : BulkIter(f, data, base, m)}
<1>1. 0 \in G
  <2> DEFINE f == [s \in SUBSET (1..0) |-> base]
  <2>1. \A s \in SUBSET (1..0) : BulkTurn(f, data, base, s) = base
    BY DEF BulkTurn
  <2> HIDE DEF BulkTurn
  <2>2. BulkIter(f, data, base, 0)
    BY <2>1 DEF BulkIter
  <2> QED BY <2>2
<1>2. ASSUME NEW m \in Nat, m \in G PROVE m + 1 \in G
  <2>1. PICK f : BulkIter(f, data, base, m)
    BY <1>2
  <2> DEFINE g == [s \in SUBSET (1..(m + 1)) |->
                      IF m + 1 \in s THEN BulkTurn(f, data, base, s) ELSE f[s]]
  <2>2. ASSUME NEW s \in SUBSET (1..m)
        PROVE  g[s] = f[s] /\ f[s] = BulkTurn(f, data, base, s)
    <3>1. s \in SUBSET (1..(m + 1)) /\ m + 1 \notin s
      OBVIOUS
    <3>2. g[s] = f[s]
      BY <3>1
    <3> QED BY <2>1, <3>2 DEF BulkIter
  <2> HIDE DEF g
  <2>3. ASSUME NEW s \in SUBSET (1..(m + 1))
        PROVE  g[s] = BulkTurn(g, data, base, s)
    <3>1. s \ {Max(s)} \in SUBSET (1..m)
      BY MaxOfUpTo
    <3>2. g[s \ {Max(s)}] = f[s \ {Max(s)}]
      BY <2>2, <3>1
    <3>3. BulkTurn(g, data, base, s) = BulkTurn(f, data, base, s)
      BY <3>2 DEF BulkTurn
    <3>4. CASE m + 1 \in s
      BY <3>3, <3>4 DEF g
    <3>5. CASE m + 1 \notin s
      <4>1. s \in SUBSET (1..m)
        BY <3>5, MaxOfUpTo
      <4> QED BY <2>2, <3>3, <4>1
    <3> QED BY <3>4, <3>5
  <2>4. g = [s \in SUBSET (1..(m + 1)) |-> g[s]]
    BY DEF g
  <2>5. BulkIter(g, data, base, m + 1)
    BY <2>3, <2>4 DEF BulkIter
  <2> QED BY <2>5
<1> HIDE DEF G
<1>3. n \in G
  BY <1>1, <1>2, SetInduction
<1> QED BY <1>3 DEF G

(* The loop of DecodeArrayOfBulk *)
Bulks(data, base, n) ==
    FoldLeft(LAMBDA acc, i : Bulk(data, acc), base, [i \in 1..n |-> i])

(* The turns of a loop: a[0] is the state before it, a[i] that after turn i  *)
BulkTurns(a, data, base, n) ==
    /\ a[0] = base
    /\ \A i \in 1..n : a[i] = Bulk(data, a[i - 1])

\* The loop of decode_array_of_bulk has a state after each of its n turns.
LEMMA BulkFold ==
    ASSUME NEW data, NEW base, NEW n \in Nat
    PROVE  \E a : BulkTurns(a, data, base, n) /\ Bulks(data, base, n) = a[n]
<1> DEFINE f == CHOOSE f : BulkIter(f, data, base, n)
           a == [i \in 0..n |-> f[1..i]]
<1>1. Bulks(data, base, n) = f[1..n]
  BY DEF Bulks, FoldLeft, MapThenFoldSet, BulkIter, BulkTurn
<1>2. BulkIter(f, data, base, n)
  BY BulkIterExists
<1> HIDE DEF f
<1>3. \A s \in SUBSET (1..n) : f[s] = BulkTurn(f, data, base, s)
  BY <1>2 DEF BulkIter
<1>4. a[0] = base
  BY <1>3 DEF BulkTurn
<1>5. ASSUME NEW i \in 1..n PROVE a[i] = Bulk(data, a[i - 1])
  <2>1. /\ i - 1 \in Nat /\ (i - 1) + 1 = i /\ i - 1 \in 0..n /\ i \in 0..n
        /\ 1..i \in SUBSET (1..n) /\ 1..i # {} /\ i \in 1..i
        /\ (1..i) \ {i} = 1..(i - 1) /\ Max(1..i) = i
    BY UpTo
  <2>4. f[1..i] = Bulk(data, f[1..(i - 1)])
    BY <1>3, <2>1 DEF BulkTurn
  <2> QED BY <2>1, <2>4
<1>6. a[n] = f[1..n]
  OBVIOUS
<1> HIDE DEF a
<1> QED BY <1>1, <1>4, <1>5, <1>6 DEF BulkTurns

\* One more than the largest int64_t
Half == 2^(IntBits - 1)

\* Half of the range of int64_t is positive, and the range is twice as large.
LEMMA HalfIs == Half \in Nat /\ Half > 3 /\ 2^IntBits = Half + Half
BY RespDecodeAssumption DEF Half

\* What % leaves of a number is in the range, and a number of the range stays.
LEMMA Wraps ==
    ASSUME NEW v \in Int, NEW h \in Nat, h > 3
    PROVE  /\ v % (h + h) \in Int /\ v % (h + h) >= 0 /\ v % (h + h) < h + h
           /\ 0 <= v /\ v < h => v % (h + h) = v
OBVIOUS

\* A conversion to int64_t leaves the numbers it can hold.
LEMMA AsInt64Is ==
    ASSUME NEW v \in Int
    PROVE  /\ AsInt64(v) \in Int /\ AsInt64(v) < Half
           /\ 0 <= v /\ v < Half => AsInt64(v) = v
<1>1. AsInt64(v) = IF v % (Half + Half) >= Half
                   THEN (v % (Half + Half)) - (Half + Half) ELSE v % (Half + Half)
  BY HalfIs DEF AsInt64, Half
<1> QED BY <1>1, HalfIs, Wraps

\* Digits and DigitValue undo one another.
LEMMA DigitIs ==
    /\ \A d \in ToSet(Digits) : DigitValue(d) \in 0..9
    /\ \A k \in 0..9 : Digits[k + 1] \in ToSet(Digits) /\ DigitValue(Digits[k + 1]) = k
<1>1. ToSet(Digits) = {"0", "1", "2", "3", "4", "5", "6", "7", "8", "9"}
  <2>1. DOMAIN Digits = 1..10
    BY DEF Digits
  <2>2. \A i \in 1..10 : i = 1 \/ i = 2 \/ i = 3 \/ i = 4 \/ i = 5 \/ i = 6 \/ i = 7 \/ i = 8 \/ i = 9 \/ i = 10
    OBVIOUS
  <2>3. ToSet(Digits) = {Digits[i] : i \in 1..10}
    BY <2>1 DEF ToSet
  <2>4. /\ Digits[1] = "0" /\ Digits[2] = "1" /\ Digits[3] = "2" /\ Digits[4] = "3"
        /\ Digits[5] = "4" /\ Digits[6] = "5" /\ Digits[7] = "6" /\ Digits[8] = "7"
        /\ Digits[9] = "8" /\ Digits[10] = "9"
    BY DEF Digits
  <2> QED BY <2>2, <2>3, <2>4
<1>2. ASSUME NEW d \in ToSet(Digits) PROVE DigitValue(d) \in 0..9
  <2>1. \E i \in 1..10 : Digits[i] = d
    BY DEF ToSet, Digits
  <2>2. (CHOOSE i \in 1..10 : Digits[i] = d) \in 1..10
    BY <2>1
  <2> QED BY <2>2 DEF DigitValue
<1>3. ASSUME NEW k \in 0..9
      PROVE  Digits[k + 1] \in ToSet(Digits) /\ DigitValue(Digits[k + 1]) = k
  <2>1. k + 1 \in 1..10
    OBVIOUS
  <2>2. ASSUME NEW i \in 1..10, NEW j \in 1..10, Digits[i] = Digits[j] PROVE i = j
    <3>1. i = 1 \/ i = 2 \/ i = 3 \/ i = 4 \/ i = 5 \/ i = 6 \/ i = 7 \/ i = 8 \/ i = 9 \/ i = 10
      OBVIOUS
    <3>2. j = 1 \/ j = 2 \/ j = 3 \/ j = 4 \/ j = 5 \/ j = 6 \/ j = 7 \/ j = 8 \/ j = 9 \/ j = 10
      OBVIOUS
    <3> QED BY <3>1, <3>2, <2>2 DEF Digits
  <2>3. (CHOOSE i \in 1..10 : Digits[i] = Digits[k + 1]) = k + 1
    BY <2>1, <2>2
  <2>4. Digits[k + 1] \in ToSet(Digits)
    BY <2>1 DEF ToSet, Digits
  <2>5. DigitValue(Digits[k + 1]) = (CHOOSE i \in 1..10 : Digits[i] = Digits[k + 1]) - 1
    BY DEF DigitValue
  <2>6. (k + 1) - 1 = k
    OBVIOUS
  <2> QED BY <2>3, <2>4, <2>5, <2>6
<1> QED BY <1>2, <1>3

(* c is where the first CR LF at or behind pos starts *)
FirstCRLF(data, pos, c) ==
    /\ c \in pos..(Len(data) - 1) /\ data[c] = CR /\ data[c + 1] = LF
    /\ \A i \in pos..(c - 1) : ~(data[i] = CR /\ data[i + 1] = LF)

\* A set of numbers that is not empty has a smallest.
LEMMA MinOfNats ==
    ASSUME NEW A \in SUBSET Nat, A # {}
    PROVE  Min(A) \in A /\ \A y \in A : Min(A) <= y
<1>1. PICK n \in A : \A m \in A : ~(<<m, n>> \in OpToRel(<, Nat))
  BY NatLessThanWellFounded, WFMin
<1>2. ASSUME NEW m \in A PROVE n <= m
  <2>1. m \in Nat /\ n \in Nat /\ ~(m < n)
    BY <1>1 DEF OpToRel
  <2> QED BY <2>1
<1>3. \E x \in A : \A y \in A : x <= y
  BY <1>2
<1> QED BY <1>3 DEF Min

\* FindCRLF finds the first CRLF, or none.
LEMMA FindIs ==
    ASSUME NEW data \in Seq(Byte), NEW pos \in Nat \ {0}
    PROVE  /\ FindCRLF(data, pos) = 0 \/ FirstCRLF(data, pos, FindCRLF(data, pos))
           /\ \A c : FirstCRLF(data, pos, c) => FindCRLF(data, pos) = c
<1> DEFINE at == {i \in pos..(Len(data) - 1) : data[i] = CR /\ data[i + 1] = LF}
<1>1. FindCRLF(data, pos) = IF at = {} THEN 0 ELSE Min(at)
  BY DEF FindCRLF
<1>2. at \in SUBSET Nat
  OBVIOUS
<1>3. ASSUME at # {} PROVE FirstCRLF(data, pos, Min(at))
  <2>1. Min(at) \in at /\ \A y \in at : Min(at) <= y
    BY <1>2, <1>3, MinOfNats
  <2> DEFINE c == Min(at)
  <2>2. c \in at /\ \A y \in at : c <= y
    BY <2>1
  <2> HIDE DEF c
  <2>3. \A i \in pos..(c - 1) : i \in pos..(Len(data) - 1) /\ ~(c <= i)
    BY <2>2
  <2>4. FirstCRLF(data, pos, c)
    BY <2>2, <2>3 DEF FirstCRLF
  <2> QED BY <2>4 DEF c
<1>4. ASSUME NEW c, FirstCRLF(data, pos, c) PROVE FindCRLF(data, pos) = c
  <2>1. c \in at
    BY <1>4 DEF FirstCRLF
  <2>2. FirstCRLF(data, pos, Min(at))
    BY <1>3, <2>1
  <2> DEFINE d == Min(at)
  <2>3. FirstCRLF(data, pos, d)
    BY <2>2
  <2> HIDE DEF d, at
  <2>4. c \in Int /\ d \in Int /\ ~(c < d) /\ ~(d < c)
    BY <1>4, <2>3 DEF FirstCRLF
  <2>5. c = d
    BY <2>4
  <2> QED BY <1>1, <2>1, <2>5 DEF d
<1> QED BY <1>1, <1>3, <1>4

(* d begins with data *)
Extends(d, data) ==
    /\ d \in Seq(Byte) /\ data \in Seq(Byte) /\ Len(data) <= Len(d)
    /\ \A i \in 1..Len(data) : d[i] = data[i]

\* A CRLF that was found is the first one however much follows.
LEMMA FindStable ==
    ASSUME NEW data, NEW d, Extends(d, data), NEW pos \in Nat \ {0},
           FindCRLF(data, pos) # 0
    PROVE  FindCRLF(d, pos) = FindCRLF(data, pos)
<1> DEFINE c == FindCRLF(data, pos)
<1>1. FirstCRLF(data, pos, c)
  BY FindIs DEF Extends
<1> HIDE DEF c
<1>2. FirstCRLF(d, pos, c)
  <2>1. c \in pos..(Len(d) - 1) /\ c \in 1..Len(data) /\ c + 1 \in 1..Len(data)
    BY <1>1 DEF Extends, FirstCRLF
  <2>2. d[c] = CR /\ d[c + 1] = LF
    BY <1>1, <2>1 DEF Extends, FirstCRLF
  <2>3. ASSUME NEW i \in pos..(c - 1) PROVE ~(d[i] = CR /\ d[i + 1] = LF)
    <3>1. i \in 1..Len(data) /\ i + 1 \in 1..Len(data)
      BY <2>1
    <3> QED BY <1>1, <3>1 DEF Extends, FirstCRLF
  <2> QED BY <2>1, <2>2, <2>3 DEF FirstCRLF
<1>3. FindCRLF(d, pos) = c
  BY <1>2, FindIs DEF Extends
<1> QED BY <1>3 DEF c

\* A part of the data is the same part however much follows.
LEMMA PartStable ==
    ASSUME NEW data, NEW d, Extends(d, data), NEW m \in Nat \ {0}, NEW n \in Int,
           n <= Len(data)
    PROVE  /\ SubSeq(d, m, n) = SubSeq(data, m, n)
           /\ SubSeq(data, m, n) \in Seq(Byte)
           /\ Len(SubSeq(data, m, n)) = IF m <= n THEN n - m + 1 ELSE 0
           /\ \A i \in 1..(n - m + 1) : SubSeq(data, m, n)[i] = data[m + i - 1]
<1>1. \A i \in m..n : i \in 1..Len(data) /\ data[i] \in Byte /\ d[i] = data[i]
  BY DEF Extends
<1>2. /\ SubSeq(data, m, n) \in Seq(Byte)
      /\ Len(SubSeq(data, m, n)) = IF m <= n THEN n - m + 1 ELSE 0
      /\ \A i \in 1..(n - m + 1) : SubSeq(data, m, n)[i] = data[m + i - 1]
  BY <1>1, SubSeqProperties
<1>3. /\ SubSeq(d, m, n) \in Seq(Byte)
      /\ Len(SubSeq(d, m, n)) = IF m <= n THEN n - m + 1 ELSE 0
      /\ \A i \in 1..(n - m + 1) : SubSeq(d, m, n)[i] = d[m + i - 1]
  BY <1>1, SubSeqProperties
<1>4. \A i \in 1..(n - m + 1) : m + i - 1 \in m..n
  OBVIOUS
<1>5. \A i \in 1..Len(SubSeq(data, m, n)) : SubSeq(d, m, n)[i] = SubSeq(data, m, n)[i]
  BY <1>1, <1>2, <1>3, <1>4
<1>6. SubSeq(d, m, n) = SubSeq(data, m, n)
  BY <1>2, <1>3, <1>5, SeqEqual
<1> QED BY <1>2, <1>6

(* The digits of a line, as ParseIntegerLine adds them up *)
Value(digits) == FoldLeft(LAMBDA v, d : AsInt64(10 * v + DigitValue(d)), 0, digits)

ValueTurn(f, digits, s) ==
    IF s = {} THEN 0 ELSE AsInt64(10 * f[s \ {Max(s)}] + DigitValue(digits[Max(s)]))
ValueIter(f, digits, n) == f = [s \in SUBSET (1..n) |-> ValueTurn(f, digits, s)]

\* The table of the fold over the digits of a number exists.
LEMMA ValueIterExists ==
    ASSUME NEW digits, NEW n \in Nat
    PROVE  \E f : ValueIter(f, digits, n)
<1> DEFINE G == {m \in Nat : \E f : ValueIter(f, digits, m)}
<1>1. 0 \in G
  <2> DEFINE f == [s \in SUBSET (1..0) |-> 0]
  <2>1. \A s \in SUBSET (1..0) : ValueTurn(f, digits, s) = 0
    BY DEF ValueTurn
  <2> HIDE DEF ValueTurn
  <2>2. ValueIter(f, digits, 0)
    BY <2>1 DEF ValueIter
  <2> QED BY <2>2
<1>2. ASSUME NEW m \in Nat, m \in G PROVE m + 1 \in G
  <2>1. PICK f : ValueIter(f, digits, m)
    BY <1>2
  <2> DEFINE g == [s \in SUBSET (1..(m + 1)) |->
                      IF m + 1 \in s THEN ValueTurn(f, digits, s) ELSE f[s]]
  <2>2. ASSUME NEW s \in SUBSET (1..m)
        PROVE  g[s] = f[s] /\ f[s] = ValueTurn(f, digits, s)
    <3>1. s \in SUBSET (1..(m + 1)) /\ m + 1 \notin s
      OBVIOUS
    <3>2. g[s] = f[s]
      BY <3>1
    <3> QED BY <2>1, <3>2 DEF ValueIter
  <2> HIDE DEF g
  <2>3. ASSUME NEW s \in SUBSET (1..(m + 1))
        PROVE  g[s] = ValueTurn(g, digits, s)
    <3>1. s \ {Max(s)} \in SUBSET (1..m)
      BY MaxOfUpTo
    <3>2. g[s \ {Max(s)}] = f[s \ {Max(s)}]
      BY <2>2, <3>1
    <3>3. ValueTurn(g, digits, s) = ValueTurn(f, digits, s)
      BY <3>2 DEF ValueTurn
    <3>4. CASE m + 1 \in s
      BY <3>3, <3>4 DEF g
    <3>5. CASE m + 1 \notin s
      <4>1. s \in SUBSET (1..m)
        BY <3>5, MaxOfUpTo
      <4> QED BY <2>2, <3>3, <4>1
    <3> QED BY <3>4, <3>5
  <2>4. g = [s \in SUBSET (1..(m + 1)) |-> g[s]]
    BY DEF g
  <2>5. ValueIter(g, digits, m + 1)
    BY <2>3, <2>4 DEF ValueIter
  <2> QED BY <2>5
<1> HIDE DEF G
<1>3. n \in G
  BY <1>1, <1>2, SetInduction
<1> QED BY <1>3 DEF G

ValueTurns(a, digits, n) ==
    /\ a[0] = 0
    /\ \A i \in 1..n : a[i] = AsInt64(10 * a[i - 1] + DigitValue(digits[i]))

\* The loop over the digits of parse_integer_line has a value after each
\* digit.
LEMMA ValueFold ==
    ASSUME NEW digits, NEW n \in Nat, DOMAIN digits = 1..n
    PROVE  \E a : ValueTurns(a, digits, n) /\ Value(digits) = a[n]
<1> DEFINE f == CHOOSE f : ValueIter(f, digits, n)
           a == [i \in 0..n |-> f[1..i]]
<1>1. Value(digits) = f[1..n]
  BY DEF Value, FoldLeft, MapThenFoldSet, ValueIter, ValueTurn
<1>2. ValueIter(f, digits, n)
  BY ValueIterExists
<1> HIDE DEF f
<1>3. \A s \in SUBSET (1..n) : f[s] = ValueTurn(f, digits, s)
  BY <1>2 DEF ValueIter
<1>4. a[0] = 0
  BY <1>3 DEF ValueTurn
<1>5. ASSUME NEW i \in 1..n PROVE a[i] = AsInt64(10 * a[i - 1] + DigitValue(digits[i]))
  <2>1. /\ i - 1 \in Nat /\ (i - 1) + 1 = i /\ i - 1 \in 0..n /\ i \in 0..n
        /\ 1..i \in SUBSET (1..n) /\ 1..i # {} /\ i \in 1..i
        /\ (1..i) \ {i} = 1..(i - 1) /\ Max(1..i) = i
    BY UpTo
  <2>4. f[1..i] = AsInt64(10 * f[1..(i - 1)] + DigitValue(digits[i]))
    BY <1>3, <2>1 DEF ValueTurn
  <2> QED BY <2>1, <2>4
<1>6. a[n] = f[1..n]
  OBVIOUS
<1> HIDE DEF a
<1> QED BY <1>1, <1>4, <1>5, <1>6 DEF ValueTurns

\* The value of digits fits an int64_t, whatever digits there are.
LEMMA ValueType ==
    ASSUME NEW digits \in Seq(ToSet(Digits))
    PROVE  Value(digits) \in Int /\ Value(digits) < Half
<1>1. PICK a : ValueTurns(a, digits, Len(digits)) /\ Value(digits) = a[Len(digits)]
  BY ValueFold, LenProperties
<1> DEFINE G == {i \in Nat : i <= Len(digits) => a[i] \in Int /\ a[i] < Half}
<1>2. 0 \in G
  BY <1>1, HalfIs DEF ValueTurns
<1>3. ASSUME NEW i \in Nat, i \in G PROVE i + 1 \in G
  <2>1. CASE i + 1 <= Len(digits)
    <3>1. i + 1 \in 1..Len(digits) /\ (i + 1) - 1 = i /\ i <= Len(digits)
      BY <2>1
    <3>2. a[i + 1] = AsInt64(10 * a[i] + DigitValue(digits[i + 1]))
      BY <1>1, <3>1 DEF ValueTurns
    <3>3. digits[i + 1] \in ToSet(Digits)
      BY <3>1
    <3>4. DigitValue(digits[i + 1]) \in Int
      BY <3>3, DigitIs
    <3>5. a[i] \in Int
      BY <1>3, <3>1
    <3>6. 10 * a[i] + DigitValue(digits[i + 1]) \in Int
      BY <3>4, <3>5
    <3>7. a[i + 1] \in Int /\ a[i + 1] < Half
      BY <3>2, <3>6, AsInt64Is
    <3> QED BY <3>7
  <2>2. CASE ~(i + 1 <= Len(digits))
    BY <2>2
  <2> QED BY <2>1, <2>2
<1> HIDE DEF G
<1>4. Len(digits) \in G
  BY <1>2, <1>3, SetInduction, LenProperties
<1>5. a[Len(digits)] \in Int /\ a[Len(digits)] < Half
  BY <1>4 DEF G
<1> QED BY <1>1, <1>5

\* The line without its sign, and what the parser makes of it
LineDigits(line) == IF line # <<>> /\ line[1] = "-" THEN Tail(line) ELSE line

(* What ParseIntegerLine makes of a line that ends at crlf *)
LineOf(crlf, line) ==
    IF crlf = 0 THEN [st |-> "more"]
    ELSE IF LineDigits(line) = <<>> \/ ToSet(LineDigits(line)) \ ToSet(Digits) # {}
    THEN [st |-> "error"]
    ELSE [st |-> "ok", pos |-> crlf + 2,
          value |-> IF line # <<>> /\ line[1] = "-" THEN AsInt64(-Value(LineDigits(line)))
                    ELSE Value(LineDigits(line))]

\* ParseIntegerLine depends on the line and on where its CRLF is.
LEMMA LineIs ==
    ASSUME NEW data, NEW pos
    PROVE  ParseIntegerLine(data, pos) =
               LineOf(FindCRLF(data, pos), SubSeq(data, pos, FindCRLF(data, pos) - 1))
BY DEF ParseIntegerLine, LineOf, LineDigits, Value

\* A token whose length an int64_t can hold
Short == {t \in Seq(Byte) : Len(t) < Half}

(* The state of the loop of DecodeArrayOfBulk while it goes well *)
Acc(tokens, pos) == [st |-> "ok", pos |-> pos, tokens |-> tokens]

\* DecodeArrayOfBulk without its local names.
LEMMA DecodeIs ==
    ASSUME NEW data
    PROVE  DecodeArrayOfBulk(data) =
               IF data = <<>> THEN [st |-> "more", pos |-> 1, tokens |-> <<>>]
               ELSE IF data[1] # "*" THEN [st |-> "error", pos |-> 1, tokens |-> <<>>]
               ELSE IF ParseIntegerLine(data, 2).st # "ok"
               THEN [st |-> ParseIntegerLine(data, 2).st, pos |-> 1, tokens |-> <<>>]
               ELSE IF ParseIntegerLine(data, 2).value < 0
               THEN [st |-> "error", pos |-> 1, tokens |-> <<>>]
               ELSE Bulks(data, [st |-> "ok", pos |-> ParseIntegerLine(data, 2).pos,
                                 tokens |-> <<>>],
                          ParseIntegerLine(data, 2).value)
BY DEF DecodeArrayOfBulk, Bulks

(* A line that has its end is read alike whatever follows, and its number is *)
(* one of int64_t.                                                           *)
LEMMA LineStable ==
    ASSUME NEW data, NEW d, Extends(d, data), NEW pos \in Nat \ {0},
           ParseIntegerLine(data, pos).st # "more"
    PROVE  /\ ParseIntegerLine(d, pos) = ParseIntegerLine(data, pos)
           /\ ParseIntegerLine(data, pos).st = "ok" =>
                  /\ ParseIntegerLine(data, pos).value \in Int
                  /\ ParseIntegerLine(data, pos).value < Half
                  /\ ParseIntegerLine(data, pos).pos \in Nat
                  /\ ParseIntegerLine(data, pos).pos > pos + 2
                  /\ ParseIntegerLine(data, pos).pos <= Len(data) + 1
<1> DEFINE c == FindCRLF(data, pos)
           line == SubSeq(data, pos, c - 1)
<1>1. ParseIntegerLine(data, pos) = LineOf(c, line)
  BY LineIs
<1>2. ParseIntegerLine(d, pos) = LineOf(FindCRLF(d, pos), SubSeq(d, pos, FindCRLF(d, pos) - 1))
  BY LineIs
<1>3. c # 0
  BY <1>1 DEF LineOf
<1>4. FindCRLF(d, pos) = c
  BY <1>3, FindStable
<1>5. FirstCRLF(data, pos, c)
  BY <1>3, FindIs DEF Extends
<1> HIDE DEF c
<1>6. c \in Nat /\ c >= pos /\ c + 1 <= Len(data) /\ c - 1 <= Len(data)
  BY <1>5 DEF FirstCRLF, Extends
<1>7. /\ SubSeq(d, pos, c - 1) = line /\ line \in Seq(Byte)
      /\ Len(line) = IF pos <= c - 1 THEN (c - 1) - pos + 1 ELSE 0
  BY <1>6, PartStable
<1>8. ParseIntegerLine(d, pos) = ParseIntegerLine(data, pos)
  BY <1>1, <1>2, <1>4, <1>7
<1> HIDE DEF line
<1>9. ASSUME LineOf(c, line).st = "ok"
      PROVE  /\ LineOf(c, line).value \in Int /\ LineOf(c, line).value < Half
             /\ LineOf(c, line).pos \in Nat /\ LineOf(c, line).pos > pos + 2
             /\ LineOf(c, line).pos <= Len(data) + 1
  <2> DEFINE g == LineDigits(line)
  <2>1. g # <<>> /\ ToSet(g) \ ToSet(Digits) = {}
    BY <1>3, <1>9 DEF LineOf
  <2>2. g \in Seq(Byte) /\ (line = <<>> => g = <<>>)
    BY <1>7, HeadTailProperties DEF LineDigits
  <2>3. line # <<>> /\ Len(line) > 0
    BY <1>7, <2>1, <2>2
  <2>4. c > pos
    BY <1>6, <1>7, <2>3
  <2>5. \A i \in 1..Len(g) : g[i] \in ToSet(Digits)
    BY <2>1, <2>2 DEF ToSet
  <2>6. g \in Seq(ToSet(Digits))
    BY <2>2, <2>5
  <2>7. Value(g) \in Int /\ Value(g) < Half
    BY <2>6, ValueType
  <2>8. -Value(g) \in Int
    BY <2>7
  <2>9. AsInt64(-Value(g)) \in Int /\ AsInt64(-Value(g)) < Half
    BY <2>8, AsInt64Is
  <2>10. LineOf(c, line) = [st |-> "ok", pos |-> c + 2,
             value |-> IF line # <<>> /\ line[1] = "-" THEN AsInt64(-Value(g)) ELSE Value(g)]
    BY <1>3, <2>1 DEF LineOf
  <2> HIDE DEF g
  <2> QED BY <1>6, <2>4, <2>7, <2>9, <2>10
<1> QED BY <1>1, <1>8, <1>9

\* Any state of that loop
GoodAcc(acc, data) ==
    /\ acc = [st |-> acc.st, pos |-> acc.pos, tokens |-> acc.tokens]
    /\ acc.pos \in Nat /\ acc.pos > 3 /\ acc.pos <= Len(data) + 1
    /\ acc.tokens \in Seq(Short)
    /\ acc.st = "ok" \/ acc.st = "error" \/ acc.st = "more"

\* A token that has arrived is the same token however much follows.
LEMMA TokenStable ==
    ASSUME NEW data, NEW d, Extends(d, data), NEW p \in Nat \ {0}, NEW e \in Nat \ {0},
           p <= e, e + 1 <= Len(data), e - p < Half
    PROVE  /\ SubSeq(d, e, e + 1) = SubSeq(data, e, e + 1)
           /\ SubSeq(d, p, e - 1) = SubSeq(data, p, e - 1)
           /\ SubSeq(data, p, e - 1) \in Short
           /\ Len(data) >= e + 1 /\ Len(d) >= e + 1 /\ Len(d) \in Nat /\ Len(data) \in Nat
<1>0. Len(d) \in Nat /\ Len(data) \in Nat /\ Len(d) >= Len(data)
  BY DEF Extends
<1>1. SubSeq(d, e, e + 1) = SubSeq(data, e, e + 1)
  <2> DEFINE n == e + 1
  <2>1. n \in Int /\ n <= Len(data)
    OBVIOUS
  <2> HIDE DEF n
  <2>2. SubSeq(d, e, n) = SubSeq(data, e, n)
    BY <2>1, PartStable
  <2> QED BY <2>2 DEF n
<1>2. /\ SubSeq(d, p, e - 1) = SubSeq(data, p, e - 1)
      /\ SubSeq(data, p, e - 1) \in Seq(Byte)
      /\ Len(SubSeq(data, p, e - 1)) = e - p
  <2> DEFINE n == e - 1
  <2>1. n \in Int /\ n <= Len(data) /\ e - p = IF p <= n THEN n - p + 1 ELSE 0
    BY <1>0
  <2> HIDE DEF n
  <2>2. /\ SubSeq(d, p, n) = SubSeq(data, p, n) /\ SubSeq(data, p, n) \in Seq(Byte)
        /\ Len(SubSeq(data, p, n)) = IF p <= n THEN n - p + 1 ELSE 0
    BY <2>1, PartStable, SMTT(30)
  <2> QED BY <2>1, <2>2 DEF n
<1> QED BY <1>0, <1>1, <1>2 DEF Short

\* A bulk that is there, or malformed, is so however much follows, and a turn
\* that waits for more ends the loop.
LEMMA BulkStable ==
    ASSUME NEW data, NEW d, Extends(d, data), NEW acc, GoodAcc(acc, data)
    PROVE  /\ Bulk(data, acc).st # "more" => Bulk(d, acc) = Bulk(data, acc)
           /\ GoodAcc(Bulk(data, acc), data)
           /\ acc.st = "more" => Bulk(data, acc).st = "more"
<1> DEFINE size == ParseIntegerLine(data, acc.pos + 1)
           bulk == ParseIntegerLine(d, acc.pos + 1)
           end == size.pos + size.value
<1>1. CASE acc.st # "ok"
  BY <1>1 DEF Bulk
<1>2. CASE acc.st = "ok" /\ acc.pos > Len(data)
  <2>1. Bulk(data, acc) = [acc EXCEPT !.st = "more"]
    BY <1>2 DEF Bulk
  <2> QED BY <1>2, <2>1 DEF GoodAcc
<1>3. CASE acc.st = "ok" /\ acc.pos <= Len(data)
  <2>1. acc.pos \in 1..Len(data) /\ acc.pos + 1 \in Nat \ {0} /\ acc.pos \in Int
    BY <1>3 DEF GoodAcc, Extends
  <2>2. d[acc.pos] = data[acc.pos] /\ ~(acc.pos > Len(data)) /\ ~(acc.pos > Len(d))
    BY <1>3, <2>1 DEF Extends
  <2>3. CASE data[acc.pos] # "$"
    <3>1. Bulk(data, acc) = [acc EXCEPT !.st = "error"]
      BY <1>3, <2>2, <2>3 DEF Bulk
    <3>2. Bulk(d, acc) = [acc EXCEPT !.st = "error"]
      BY <1>3, <2>2, <2>3 DEF Bulk
    <3> QED BY <1>3, <3>1, <3>2 DEF GoodAcc
  <2>4. CASE data[acc.pos] = "$" /\ size.st = "more"
    <3>1. Bulk(data, acc) = [acc EXCEPT !.st = "more"]
      BY <1>3, <2>2, <2>4 DEF Bulk
    <3> QED BY <1>3, <3>1 DEF GoodAcc
  <2>5. CASE data[acc.pos] = "$" /\ size.st # "more"
    <3>1. bulk = size
      BY <2>1, <2>5, LineStable
    <3>2. CASE size.st # "ok"
      <4>1. Bulk(data, acc) = [acc EXCEPT !.st = size.st]
        BY <1>3, <2>2, <2>5, <3>2 DEF Bulk
      <4>2. Bulk(d, acc) = [acc EXCEPT !.st = size.st]
        BY <1>3, <2>2, <2>5, <3>1, <3>2 DEF Bulk
      <4>3. size.st = "error"
        BY <2>5, <3>2, LineIs DEF LineOf
      <4> QED BY <1>3, <4>1, <4>2, <4>3 DEF GoodAcc
    <3>3. CASE size.st = "ok"
      <4>1. /\ size.value \in Int /\ size.value < Half /\ size.pos \in Nat
            /\ size.pos > acc.pos + 3 /\ size.pos <= Len(data) + 1
        BY <2>1, <3>3, LineStable, SMTT(20)
      <4>2. end \in Int /\ Len(data) \in Nat /\ Len(d) \in Nat /\ Len(data) <= Len(d)
        BY <4>1 DEF Extends
      <4>3. CASE size.value < 0
        <5>1. Bulk(data, acc) = [acc EXCEPT !.st = "error"]
          BY <1>3, <2>2, <2>5, <3>3, <4>3 DEF Bulk
        <5>2. Bulk(d, acc) = [acc EXCEPT !.st = "error"]
          BY <1>3, <2>2, <2>5, <3>1, <3>3, <4>3 DEF Bulk
        <5> QED BY <1>3, <5>1, <5>2 DEF GoodAcc
      <4>4. CASE ~(size.value < 0) /\ end + 1 > Len(data)
        <5>1. Bulk(data, acc) = [acc EXCEPT !.st = "more"]
          BY <1>3, <2>2, <2>5, <3>3, <4>4 DEF Bulk
        <5> QED BY <1>3, <5>1 DEF GoodAcc
      <4>5. CASE ~(size.value < 0) /\ ~(end + 1 > Len(data))
        <5>1. ~(end + 1 > Len(d)) /\ end + 1 <= Len(data) /\ end - 1 <= Len(data)
          BY <4>2, <4>5
        <5>2. end \in Nat \ {0} /\ size.pos \in Nat \ {0} /\ end >= size.pos
          BY <2>1, <4>1, <4>2, <4>5, SMTT(40)
        <5> DEFINE tok == SubSeq(data, size.pos, end - 1)
        <5>a. end - size.pos < Half
          BY <4>1, HalfIs
        <5>3. SubSeq(d, end, end + 1) = SubSeq(data, end, end + 1)
          <6> HIDE DEF end, size
          <6> QED BY <5>1, <5>2, <5>a, TokenStable, SMTT(30)
        <5>4. SubSeq(d, size.pos, end - 1) = tok /\ tok \in Short
          <6> HIDE DEF end, size
          <6> QED BY <5>1, <5>2, <5>a, TokenStable, SMTT(30)
        <5>5. CASE SubSeq(data, end, end + 1) # CRLF
          <6>1. Bulk(data, acc) = [acc EXCEPT !.st = "error"]
            BY <1>3, <2>2, <2>5, <3>3, <4>5, <5>5 DEF Bulk
          <6>2. Bulk(d, acc) = [acc EXCEPT !.st = "error"]
            BY <1>3, <2>2, <2>5, <3>1, <3>3, <4>5, <5>1, <5>3, <5>5 DEF Bulk
          <6> QED BY <1>3, <6>1, <6>2 DEF GoodAcc
        <5>6. CASE SubSeq(data, end, end + 1) = CRLF
          <6>1. Bulk(data, acc) = [st |-> "ok", pos |-> end + 2, tokens |-> Append(acc.tokens, tok)]
            BY <1>3, <2>2, <2>5, <3>3, <4>5, <5>6, SMTT(40) DEF Bulk
          <6>2. Bulk(d, acc) = [st |-> "ok", pos |-> end + 2, tokens |-> Append(acc.tokens, tok)]
            BY <1>3, <2>2, <2>5, <3>1, <3>3, <4>5, <5>1, <5>3, <5>4, <5>6 DEF Bulk
          <6> HIDE DEF tok
          <6>5. Append(acc.tokens, tok) \in Seq(Short)
            BY <5>4 DEF GoodAcc
          <6>6. end + 2 \in Nat /\ end + 2 > 3 /\ end + 2 <= Len(data) + 1
            <7>1. acc.pos > 3
              BY DEF GoodAcc
            <7>2. acc.pos \in Int /\ size.pos \in Int /\ size.pos > acc.pos + 3
              BY <2>1, <4>1
            <7>3. end \in Nat /\ end >= size.pos /\ end + 1 <= Len(data) /\ Len(data) \in Int
              BY <4>2, <5>1, <5>2
            <7> HIDE DEF end, size
            <7> QED BY <7>1, <7>2, <7>3
          <6> HIDE DEF end, size
          <6> QED BY <1>3, <6>1, <6>2, <6>5, <6>6 DEF GoodAcc
        <5> QED BY <5>5, <5>6
      <4> QED BY <4>3, <4>4, <4>5
    <3> QED BY <3>2, <3>3
  <2> QED BY <2>3, <2>4, <2>5
<1> QED BY <1>1, <1>2, <1>3 DEF GoodAcc, Extends

(* DecodeArrayOfBulk: an answer other than "more" stands, whatever follows.   *)
LEMMA BulksStable ==
    ASSUME NEW data, NEW d, Extends(d, data), NEW n \in Nat,
           NEW base, GoodAcc(base, data)
    PROVE  /\ GoodAcc(Bulks(data, base, n), data)
           /\ Bulks(data, base, n).st # "more" =>
                  Bulks(d, base, n) = Bulks(data, base, n)
<1>1. PICK a : BulkTurns(a, data, base, n) /\ Bulks(data, base, n) = a[n]
  BY BulkFold
<1>2. PICK b : BulkTurns(b, d, base, n) /\ Bulks(d, base, n) = b[n]
  BY BulkFold
<1> DEFINE P(i) == GoodAcc(a[i], data) /\ (a[i].st # "more" => b[i] = a[i])
           G == {i \in Nat : i <= n => P(i)}
<1>3. 0 \in G
  BY <1>1, <1>2 DEF BulkTurns
<1>4. ASSUME NEW i \in Nat, i \in G PROVE i + 1 \in G
  <2>1. CASE i + 1 <= n
    <3>1. i + 1 \in 1..n /\ (i + 1) - 1 = i /\ i <= n
      BY <2>1
    <3>2. a[i + 1] = Bulk(data, a[i]) /\ b[i + 1] = Bulk(d, b[i])
      BY <1>1, <1>2, <3>1 DEF BulkTurns
    <3>3. GoodAcc(a[i], data) /\ (a[i].st # "more" => b[i] = a[i])
      BY <1>4, <3>1
    <3>4. /\ Bulk(data, a[i]).st # "more" => Bulk(d, a[i]) = Bulk(data, a[i])
          /\ GoodAcc(Bulk(data, a[i]), data)
          /\ a[i].st = "more" => Bulk(data, a[i]).st = "more"
      BY <3>3, BulkStable
    <3>5. /\ GoodAcc(a[i + 1], data)
          /\ a[i + 1].st # "more" => b[i + 1] = a[i + 1]
      BY <3>2, <3>3, <3>4
    <3> QED BY <3>5
  <2>2. CASE ~(i + 1 <= n)
    BY <2>2
  <2> QED BY <2>1, <2>2
<1> HIDE DEF G
<1>5. n \in G
  BY <1>3, <1>4, SetInduction
<1>6. GoodAcc(a[n], data) /\ (a[n].st # "more" => b[n] = a[n])
  BY <1>5 DEF G
<1> QED BY <1>1, <1>2, <1>6

\* What DecodeArrayOfBulk says of the bytes that have arrived holds however
\* much follows, unless it says "more": a request may be parsed before the
\* rest of the stream is there, and only then.
LEMMA DecodeStable ==
    ASSUME NEW data, NEW d, Extends(d, data)
    PROVE  /\ DecodeArrayOfBulk(data).st \in {"ok", "error", "more"}
           /\ DecodeArrayOfBulk(data).tokens \in Seq(Short)
           /\ DecodeArrayOfBulk(data).st # "more" =>
                  DecodeArrayOfBulk(d) = DecodeArrayOfBulk(data)
           /\ DecodeArrayOfBulk(data).st = "ok" => GoodAcc(DecodeArrayOfBulk(data), data)
<1> DEFINE count == ParseIntegerLine(data, 2)
           base == [st |-> "ok", pos |-> count.pos, tokens |-> <<>>]
           verdict(s) == [st |-> s, pos |-> 1, tokens |-> <<>>]
<1>0. data \in Seq(Byte) /\ d \in Seq(Byte) /\ 2 \in Nat \ {0}
  BY DEF Extends
<1>e. <<>> \in Seq(Short)
  OBVIOUS
<1>1. CASE data = <<>>
  <2>1. DecodeArrayOfBulk(data) = verdict("more")
    BY <1>1, DecodeIs
  <2> QED BY <1>e, <2>1
<1>2. CASE data # <<>>
  <2>1. 1 \in 1..Len(data) /\ d # <<>> /\ d[1] = data[1]
    BY <1>0, <1>2 DEF Extends
  <2>2. CASE data[1] # "*"
    <3>1. DecodeArrayOfBulk(data) = verdict("error") /\ DecodeArrayOfBulk(d) = verdict("error")
      BY <1>2, <2>1, <2>2, DecodeIs
    <3> QED BY <1>e, <3>1
  <2>3. CASE data[1] = "*" /\ count.st = "more"
    <3>1. DecodeArrayOfBulk(data) = verdict("more")
      BY <1>2, <2>3, DecodeIs
    <3> QED BY <1>e, <3>1
  <2>4. CASE data[1] = "*" /\ count.st # "more"
    <3>1. ParseIntegerLine(d, 2) = count
      BY <1>0, <2>4, LineStable
    <3>2. CASE count.st # "ok"
      <4>1. DecodeArrayOfBulk(data) = verdict(count.st)
        BY <1>2, <2>4, <3>2, DecodeIs
      <4>2. DecodeArrayOfBulk(d) = verdict(count.st)
        BY <2>1, <2>4, <3>1, <3>2, DecodeIs
      <4>3. count.st = "error"
        BY <2>4, <3>2, LineIs DEF LineOf
      <4> QED BY <1>e, <4>1, <4>2, <4>3
    <3>3. CASE count.st = "ok" /\ count.value < 0
      <4>1. DecodeArrayOfBulk(data) = verdict("error")
        BY <1>2, <2>4, <3>3, DecodeIs
      <4>2. DecodeArrayOfBulk(d) = verdict("error")
        BY <2>1, <2>4, <3>1, <3>3, DecodeIs
      <4> QED BY <1>e, <4>1, <4>2
    <3>4. CASE count.st = "ok" /\ ~(count.value < 0)
      <4>1. /\ count.value \in Nat /\ count.pos \in Nat /\ count.pos > 4
            /\ count.pos <= Len(data) + 1
        BY <1>0, <3>4, LineStable
      <4>2. GoodAcc(base, data)
        BY <4>1 DEF GoodAcc
      <4>3. DecodeArrayOfBulk(data) = Bulks(data, base, count.value)
        BY <1>2, <2>4, <3>4, DecodeIs
      <4>4. DecodeArrayOfBulk(d) = Bulks(d, base, count.value)
        BY <2>1, <2>4, <3>1, <3>4, DecodeIs
      <4> HIDE DEF base, count
      <4>5. /\ GoodAcc(Bulks(data, base, count.value), data)
            /\ Bulks(data, base, count.value).st # "more" =>
                  Bulks(d, base, count.value) = Bulks(data, base, count.value)
        BY <4>1, <4>2, BulksStable
      <4> QED BY <4>3, <4>4, <4>5 DEF GoodAcc
    <3> QED BY <3>2, <3>3, <3>4
  <2> QED BY <2>2, <2>3, <2>4
<1> QED BY <1>1, <1>2

(* The decimal digits of the numbers up to m *)
DecimalStep(f, n) == IF n < 10 THEN <<Digits[n + 1]>>
                     ELSE Append(f[n \div 10], Digits[(n % 10) + 1])

DecimalTo(f, m) == f = [n \in 0..m |-> DecimalStep(f, n)]

\* Division by ten, as the provers need it.
LEMMA TenIs ==
    ASSUME NEW n \in Nat
    PROVE  /\ n % 10 \in 0..9 /\ n \div 10 \in Nat
           /\ n = 10 * (n \div 10) + (n % 10)
           /\ n >= 10 => n \div 10 < n /\ n \div 10 \in 0..(n - 1)
OBVIOUS

\* The table of the decimals up to m exists.
LEMMA DecimalToExists ==
    ASSUME NEW m \in Nat
    PROVE  \E f : DecimalTo(f, m)
<1> DEFINE G == {k \in Nat : \E f : DecimalTo(f, k)}
<1>1. 0 \in G
  <2> DEFINE f == [n \in 0..0 |-> <<Digits[1]>>]
  <2>1. \A n \in 0..0 : DecimalStep(f, n) = <<Digits[1]>>
    <3>1. \A n \in 0..0 : n < 10 /\ n + 1 = 1
      OBVIOUS
    <3> QED BY <3>1 DEF DecimalStep
  <2> HIDE DEF DecimalStep
  <2>2. DecimalTo(f, 0)
    BY <2>1 DEF DecimalTo
  <2> QED BY <2>2
<1>2. ASSUME NEW k \in Nat, k \in G PROVE k + 1 \in G
  <2>1. PICK f : DecimalTo(f, k)
    BY <1>2
  <2> DEFINE g == [n \in 0..(k + 1) |-> IF n = k + 1 THEN DecimalStep(f, n) ELSE f[n]]
  <2>2. ASSUME NEW n \in 0..k PROVE g[n] = f[n] /\ f[n] = DecimalStep(f, n)
    <3>1. n \in 0..(k + 1) /\ n # k + 1
      OBVIOUS
    <3>2. g[n] = f[n]
      BY <3>1
    <3> QED BY <2>1, <3>2 DEF DecimalTo
  <2> HIDE DEF g
  <2>3. ASSUME NEW n \in 0..(k + 1) PROVE g[n] = DecimalStep(g, n)
    <3>1. n >= 10 => n \div 10 \in 0..k
      <4>1. n \in Nat
        OBVIOUS
      <4>2. n >= 10 => n \div 10 \in 0..(n - 1)
        BY <4>1, TenIs
      <4>3. n - 1 <= k
        OBVIOUS
      <4> DEFINE q == n \div 10
      <4>4. n >= 10 => q \in 0..(n - 1)
        BY <4>2
      <4> HIDE DEF q
      <4>5. n >= 10 => q \in 0..k
        BY <4>1, <4>3, <4>4
      <4> QED BY <4>5 DEF q
    <3>2. n >= 10 => g[n \div 10] = f[n \div 10]
      BY <2>2, <3>1
    <3>3. ~(n < 10) => n >= 10
      OBVIOUS
    <3>4. DecimalStep(g, n) = DecimalStep(f, n)
      BY <3>2, <3>3 DEF DecimalStep
    <3>5. CASE n = k + 1
      BY <3>4, <3>5 DEF g
    <3>6. CASE n # k + 1
      <4>1. n \in 0..k
        BY <3>6
      <4> QED BY <2>2, <3>4, <4>1
    <3> QED BY <3>5, <3>6
  <2>4. g = [n \in 0..(k + 1) |-> g[n]]
    BY DEF g
  <2>5. DecimalTo(g, k + 1)
    BY <2>3, <2>4 DEF DecimalTo
  <2> QED BY <2>5
<1> HIDE DEF G
<1>3. m \in G
  BY <1>1, <1>2, SetInduction
<1> QED BY <1>3 DEF G

\* Two tables of decimals agree where both are defined.
LEMMA DecimalToAgree ==
    ASSUME NEW m \in Nat, NEW k \in Nat, NEW f, NEW g, DecimalTo(f, m), DecimalTo(g, k)
    PROVE  \A n \in Nat : n <= m /\ n <= k => f[n] = g[n]
<1> DEFINE P(n) == n <= m /\ n <= k => f[n] = g[n]
           G == {i \in Nat : \A n \in 0..i : P(n)}
<1>0. ASSUME NEW n \in Nat, \A i \in 0..(n - 1) : P(i) PROVE P(n)
  <2> SUFFICES ASSUME n <= m, n <= k PROVE f[n] = g[n]
    OBVIOUS
  <2>1. f[n] = DecimalStep(f, n) /\ g[n] = DecimalStep(g, n)
    <3>1. n \in 0..m /\ n \in 0..k
      OBVIOUS
    <3> QED BY <3>1 DEF DecimalTo
  <2>2. n >= 10 => f[n \div 10] = g[n \div 10]
    <3> DEFINE q == n \div 10
    <3>1. n >= 10 => q \in 0..(n - 1)
      BY TenIs
    <3> HIDE DEF q
    <3>2. n >= 10 => q <= m /\ q <= k
      BY <3>1
    <3>3. n >= 10 => f[q] = g[q]
      BY <1>0, <3>1, <3>2
    <3> QED BY <3>3 DEF q
  <2>3. ~(n < 10) => n >= 10
    OBVIOUS
  <2> QED BY <2>1, <2>2, <2>3 DEF DecimalStep
<1> HIDE DEF P
<1>1. 0 \in G
  <2>1. P(0)
    BY <1>0
  <2>2. \A n \in 0..0 : n = 0
    OBVIOUS
  <2> QED BY <2>1, <2>2
<1>2. ASSUME NEW i \in Nat, i \in G PROVE i + 1 \in G
  <2>1. (i + 1) - 1 = i /\ i + 1 \in Nat
    OBVIOUS
  <2>2. P(i + 1)
    BY <1>0, <1>2, <2>1
  <2>3. \A n \in 0..(i + 1) : n \in 0..i \/ n = i + 1
    OBVIOUS
  <2> QED BY <1>2, <2>2, <2>3
<1> HIDE DEF G
<1>3. Nat \subseteq G
  BY <1>1, <1>2, SetInduction
<1>4. ASSUME NEW n \in Nat PROVE P(n)
  <2>1. n \in 0..n
    OBVIOUS
  <2> QED BY <1>3, <2>1 DEF G
<1> QED BY <1>4 DEF P

\* The recursion of to_string, for every number.
LEMMA DecimalIs ==
    ASSUME NEW n \in Nat
    PROVE  Decimal[n] = IF n < 10 THEN <<Digits[n + 1]>>
                        ELSE Append(Decimal[n \div 10], Digits[(n % 10) + 1])
<1> DEFINE F(m) == CHOOSE f : DecimalTo(f, m)
           D == [m \in Nat |-> F(m)[m]]
           Eq(f) == f = [m \in Nat |-> DecimalStep(f, m)]
<1>1. ASSUME NEW m \in Nat PROVE DecimalTo(F(m), m)
  BY DecimalToExists
<1> HIDE DEF F
<1>2. ASSUME NEW m \in Nat PROVE D[m] = DecimalStep(D, m)
  <2>1. D[m] = F(m)[m]
    OBVIOUS
  <2>2. F(m)[m] = DecimalStep(F(m), m)
    <3>1. m \in 0..m
      OBVIOUS
    <3> QED BY <1>1, <3>1 DEF DecimalTo
  <2>3. m >= 10 => F(m)[m \div 10] = D[m \div 10]
    <3> DEFINE q == m \div 10
    <3>1. m >= 10 => q \in Nat /\ q <= m /\ q <= q
      BY TenIs
    <3> HIDE DEF q
    <3>2. m >= 10 => F(m)[q] = F(q)[q]
      BY <1>1, <3>1, DecimalToAgree
    <3>3. m >= 10 => D[q] = F(q)[q]
      BY <3>1
    <3>4. m >= 10 => F(m)[q] = D[q]
      BY <3>2, <3>3
    <3> QED BY <3>4 DEF q
  <2>4. ~(m < 10) => m >= 10
    OBVIOUS
  <2> HIDE DEF D
  <2> QED BY <2>1, <2>2, <2>3, <2>4 DEF DecimalStep
<1>3. Eq(D)
  <2>1. D = [m \in Nat |-> D[m]]
    OBVIOUS
  <2> HIDE DEF D
  <2> QED BY <1>2, <2>1
<1> HIDE DEF D
<1>4. Decimal = CHOOSE f : Eq(f)
  BY DEF Decimal, DecimalStep
<1>5. Eq(Decimal)
  BY <1>3, <1>4
<1>6. Decimal[n] = DecimalStep(Decimal, n)
  BY <1>5
<1> QED BY <1>6 DEF DecimalStep

\* One more digit is one more turn of the loop over the digits.
LEMMA ValueOfAppend ==
    ASSUME NEW s \in Seq(ToSet(Digits)), NEW d \in ToSet(Digits)
    PROVE  Value(Append(s, d)) = AsInt64(10 * Value(s) + DigitValue(d))
<1> DEFINE t == Append(s, d)
           n == Len(s)
<1>0. /\ n \in Nat /\ t \in Seq(ToSet(Digits)) /\ Len(t) = n + 1 /\ t[n + 1] = d
      /\ \A i \in 1..n : t[i] = s[i]
  BY AppendProperties
<1>1. PICK a : ValueTurns(a, s, n) /\ Value(s) = a[n]
  BY ValueFold, LenProperties
<1> HIDE DEF t
<1>2. n + 1 \in Nat /\ DOMAIN t = 1..(n + 1)
  BY <1>0, LenProperties
<1>3. PICK b : ValueTurns(b, t, n + 1) /\ Value(t) = b[n + 1]
  BY <1>2, ValueFold
<1> HIDE DEF n
<1> DEFINE G == {i \in Nat : i <= n => a[i] = b[i]}
<1>4. 0 \in G
  BY <1>1, <1>3 DEF ValueTurns
<1>5. ASSUME NEW i \in Nat, i \in G PROVE i + 1 \in G
  <2>1. CASE i + 1 <= n
    <3>1. i + 1 \in 1..n /\ i + 1 \in 1..(n + 1) /\ (i + 1) - 1 = i /\ i <= n
      BY <1>0, <2>1
    <3>2. a[i + 1] = AsInt64(10 * a[i] + DigitValue(s[i + 1]))
      BY <1>1, <3>1 DEF ValueTurns
    <3>3. b[i + 1] = AsInt64(10 * b[i] + DigitValue(t[i + 1]))
      BY <1>3, <3>1 DEF ValueTurns
    <3>4. a[i + 1] = b[i + 1]
      BY <1>0, <1>5, <3>1, <3>2, <3>3
    <3> QED BY <3>4
  <2>2. CASE ~(i + 1 <= n)
    BY <2>2
  <2> QED BY <2>1, <2>2
<1> HIDE DEF G
<1>6. n \in G
  BY <1>0, <1>4, <1>5, SetInduction
<1>7. a[n] = b[n]
  BY <1>0, <1>6 DEF G
<1>8. n + 1 \in 1..(n + 1) /\ (n + 1) - 1 = n
  BY <1>0
<1>9. b[n + 1] = AsInt64(10 * b[n] + DigitValue(t[n + 1]))
  BY <1>3, <1>8 DEF ValueTurns
<1> QED BY <1>0, <1>1, <1>3, <1>7, <1>9 DEF t

\* The value of a single digit.
LEMMA ValueOfDigit ==
    ASSUME NEW d \in ToSet(Digits)
    PROVE  Value(<<d>>) = AsInt64(DigitValue(d))
<1>1. <<d>> = Append(<<>>, d) /\ <<>> \in Seq(ToSet(Digits))
  OBVIOUS
<1>2. DOMAIN <<>> = 1..0
  OBVIOUS
<1>3. PICK a : ValueTurns(a, <<>>, 0) /\ Value(<<>>) = a[0]
  BY <1>2, ValueFold
<1>4. Value(<<>>) = 0
  BY <1>3 DEF ValueTurns
<1>5. DigitValue(d) \in 0..9
  BY DigitIs
<1>6. Value(<<d>>) = AsInt64(10 * 0 + DigitValue(d))
  BY <1>1, <1>4, ValueOfAppend
<1>7. 10 * 0 + DigitValue(d) = DigitValue(d) /\ DigitValue(d) \in Int
  BY <1>5
<1> QED BY <1>6, <1>7

(* What the encoder prints, the decoder reads back *)
LEMMA DecimalValue ==
    ASSUME NEW k \in Nat
    PROVE  /\ Decimal[k] \in Seq(ToSet(Digits)) /\ Decimal[k] # <<>>
           /\ k < Half => Value(Decimal[k]) = k
<1> DEFINE P(n) == /\ Decimal[n] \in Seq(ToSet(Digits)) /\ Decimal[n] # <<>>
                   /\ n < Half => Value(Decimal[n]) = n
           G == {i \in Nat : \A n \in 0..i : P(n)}
<1>0. ASSUME NEW n \in Nat, \A i \in 0..(n - 1) : P(i) PROVE P(n)
  <2>1. CASE n < 10
    <3> DEFINE d == Digits[n + 1]
    <3>1. Decimal[n] = <<d>>
      BY <2>1, DecimalIs
    <3>2. n \in 0..9
      BY <2>1
    <3>3. d \in ToSet(Digits) /\ DigitValue(d) = n
      BY <3>2, DigitIs
    <3> HIDE DEF d
    <3>4. Decimal[n] \in Seq(ToSet(Digits)) /\ Decimal[n] # <<>>
      BY <3>1, <3>3
    <3>5. Value(Decimal[n]) = AsInt64(n)
      BY <3>1, <3>3, ValueOfDigit
    <3>6. n \in Int /\ (n < Half => AsInt64(n) = n)
      BY AsInt64Is
    <3> QED BY <3>4, <3>5, <3>6
  <2>2. CASE ~(n < 10)
    <3> DEFINE q == n \div 10
               r == n % 10
               d == Digits[r + 1]
               s == Decimal[q]
    <3>1. /\ r \in 0..9 /\ q \in Nat /\ n = 10 * q + r /\ q \in 0..(n - 1)
      BY <2>2, TenIs
    <3>2. Decimal[n] = Append(s, d)
      BY <2>2, DecimalIs
    <3> HIDE DEF q, r
    <3>3. d \in ToSet(Digits) /\ DigitValue(d) = r
      BY <3>1, DigitIs
    <3>4. s \in Seq(ToSet(Digits)) /\ (q < Half => Value(s) = q)
      BY <1>0, <3>1
    <3> HIDE DEF d, s
    <3>5. Decimal[n] \in Seq(ToSet(Digits)) /\ Decimal[n] # <<>>
      BY <3>2, <3>3, <3>4, AppendProperties
    <3>6. Value(Decimal[n]) = AsInt64(10 * Value(s) + r)
      BY <3>2, <3>3, <3>4, ValueOfAppend
    <3>7. ASSUME n < Half PROVE Value(Decimal[n]) = n
      <4>1. q < Half
        BY <3>1, <3>7, HalfIs
      <4>2. Value(Decimal[n]) = AsInt64(n)
        BY <3>1, <3>4, <3>6, <4>1
      <4>3. n \in Int /\ 0 <= n
        OBVIOUS
      <4> QED BY <3>7, <4>2, <4>3, AsInt64Is
    <3> QED BY <3>5, <3>7
  <2> QED BY <2>1, <2>2
<1> HIDE DEF P
<1>1. 0 \in G
  <2>1. P(0)
    BY <1>0
  <2>2. \A n \in 0..0 : n = 0
    OBVIOUS
  <2> QED BY <2>1, <2>2
<1>2. ASSUME NEW i \in Nat, i \in G PROVE i + 1 \in G
  <2>1. (i + 1) - 1 = i /\ i + 1 \in Nat
    OBVIOUS
  <2>2. P(i + 1)
    BY <1>0, <1>2, <2>1
  <2>3. \A n \in 0..(i + 1) : n \in 0..i \/ n = i + 1
    OBVIOUS
  <2> QED BY <1>2, <2>2, <2>3
<1> HIDE DEF G
<1>3. Nat \subseteq G
  BY <1>1, <1>2, SetInduction
<1>4. k \in 0..k
  OBVIOUS
<1>5. P(k)
  BY <1>3, <1>4 DEF G
<1> QED BY <1>5 DEF P

(* s stands at position pos of data *)
At(data, pos, s) ==
    /\ pos + Len(s) - 1 <= Len(data)
    /\ \A j \in 1..Len(s) : data[pos - 1 + j] = s[j]

\* A concatenation is in the data where its first part is, and behind it the
\* second.
LEMMA AtConcat ==
    ASSUME NEW S, NEW data \in Seq(S), NEW pos \in Nat \ {0}, NEW s \in Seq(S), NEW t \in Seq(S)
    PROVE  At(data, pos, s \o t) <=> At(data, pos, s) /\ At(data, pos + Len(s), t)
<1>1. /\ Len(s \o t) = Len(s) + Len(t) /\ s \o t \in Seq(S)
      /\ \A i \in 1..(Len(s) + Len(t)) : (s \o t)[i] = IF i <= Len(s) THEN s[i] ELSE t[i - Len(s)]
  BY ConcatProperties
<1>2. PICK m \in Nat : m = Len(s)
  OBVIOUS
<1>3. PICK n \in Nat : n = Len(t)
  OBVIOUS
<1>4. PICK l \in Nat : l = Len(data)
  OBVIOUS
<1> DEFINE u == s \o t
<1>5. Len(u) = m + n /\ \A i \in 1..(m + n) : u[i] = IF i <= m THEN s[i] ELSE t[i - m]
  BY <1>1, <1>2, <1>3
<1> HIDE DEF u
<1>6. ASSUME At(data, pos, u) PROVE At(data, pos, s) /\ At(data, pos + m, t)
  <2>1. pos + (m + n) - 1 <= l /\ \A j \in 1..(m + n) : data[pos - 1 + j] = u[j]
    BY <1>4, <1>5, <1>6 DEF At
  <2>2. ASSUME NEW j \in 1..m PROVE data[pos - 1 + j] = s[j]
    <3>1. j \in 1..(m + n) /\ j <= m
      OBVIOUS
    <3> QED BY <1>5, <2>1, <3>1
  <2>3. ASSUME NEW j \in 1..n PROVE data[pos + m - 1 + j] = t[j]
    <3>1. m + j \in 1..(m + n) /\ ~(m + j <= m) /\ (m + j) - m = j
      OBVIOUS
    <3>2. pos + m - 1 + j = pos - 1 + (m + j)
      OBVIOUS
    <3>3. data[pos - 1 + (m + j)] = t[j]
      BY <1>5, <2>1, <3>1
    <3> QED BY <3>2, <3>3
  <2>4. pos + m - 1 <= l /\ pos + m + n - 1 <= l
    BY <2>1
  <2> QED BY <1>2, <1>3, <1>4, <2>2, <2>3, <2>4 DEF At
<1>7. ASSUME At(data, pos, s), At(data, pos + m, t) PROVE At(data, pos, u)
  <2>1. pos + m + n - 1 <= l
    BY <1>3, <1>4, <1>7 DEF At
  <2>2. ASSUME NEW j \in 1..(m + n) PROVE data[pos - 1 + j] = u[j]
    <3>1. CASE j <= m
      <4>1. j \in 1..m
        BY <3>1
      <4> QED BY <1>2, <1>5, <1>7, <3>1, <4>1 DEF At
    <3>2. CASE ~(j <= m)
      <4>1. j - m \in 1..n /\ pos + m - 1 + (j - m) = pos - 1 + j
        BY <3>2
      <4>2. data[pos + m - 1 + (j - m)] = t[j - m]
        BY <1>3, <1>7, <4>1 DEF At
      <4> QED BY <1>5, <3>2, <4>1, <4>2
    <3> QED BY <3>1, <3>2
  <2>3. pos + (m + n) - 1 <= l
    BY <2>1
  <2> QED BY <1>4, <1>5, <2>2, <2>3 DEF At
<1> QED BY <1>2, <1>6, <1>7 DEF u

\* Digits, CR, LF and the marks are bytes, and no digit is CR or a minus sign.
LEMMA DigitsAreBytes ==
    /\ ToSet(Digits) \in SUBSET Byte
    /\ \A d \in ToSet(Digits) : d # CR /\ d # "-"
    /\ CRLF \in Seq(Byte) /\ Len(CRLF) = 2 /\ CRLF[1] = CR /\ CRLF[2] = LF
    /\ \A x \in {"$", "*"} : <<x>> \in Seq(Byte) /\ Len(<<x>>) = 1 /\ <<x>>[1] = x
<1>1. ASSUME NEW d \in ToSet(Digits) PROVE d \in Byte /\ d # CR /\ d # "-"
  <2>1. PICK i \in 1..10 : d = Digits[i]
    BY DEF ToSet, Digits
  <2>2. i = 1 \/ i = 2 \/ i = 3 \/ i = 4 \/ i = 5 \/ i = 6 \/ i = 7 \/ i = 8 \/ i = 9 \/ i = 10
    OBVIOUS
  <2>3. d # CR /\ d # "-"
    BY <2>1, <2>2 DEF Digits, CR
  <2> QED BY <2>3 DEF Byte
<1>2. CR \in Byte /\ LF \in Byte /\ "$" \in Byte /\ "*" \in Byte
  BY DEF Byte
<1>3. CRLF \in Seq(Byte) /\ Len(CRLF) = 2 /\ CRLF[1] = CR /\ CRLF[2] = LF
  BY <1>2 DEF CRLF
<1>4. ASSUME NEW x \in Byte PROVE <<x>> \in Seq(Byte) /\ Len(<<x>>) = 1 /\ <<x>>[1] = x
  OBVIOUS
<1> QED BY <1>1, <1>2, <1>3, <1>4

\* A number is written in at least one byte.
LEMMA DecimalBytes ==
    ASSUME NEW n \in Nat
    PROVE  Decimal[n] \in Seq(Byte) /\ Len(Decimal[n]) \in Nat \ {0}
<1>1. Decimal[n] \in Seq(ToSet(Digits)) /\ Decimal[n] # <<>>
  BY DecimalValue
<1>2. Decimal[n] \in Seq(Byte)
  BY <1>1, DigitsAreBytes, SeqMonotonic
<1> QED BY <1>1, <1>2, EmptySeq

\* A length that is written is parsed, and the parser stops behind its CRLF.
LEMMA LineAt ==
    ASSUME NEW data \in Seq(Byte), NEW pos \in Nat \ {0}, NEW n \in Nat, n < Half,
           At(data, pos, Decimal[n] \o CRLF)
    PROVE  ParseIntegerLine(data, pos) =
               [st |-> "ok", pos |-> pos + Len(Decimal[n]) + 2, value |-> n]
<1> DEFINE g == Decimal[n]
<1>1. g \in Seq(ToSet(Digits)) /\ g # <<>> /\ Value(g) = n
  BY DecimalValue
<1>2. g \in Seq(Byte) /\ Len(g) \in Nat \ {0}
  BY DecimalBytes
<1>3. At(data, pos, g) /\ At(data, pos + Len(g), CRLF)
  BY <1>2, AtConcat, DigitsAreBytes
<1> HIDE DEF g
<1>4. PICK l \in Nat \ {0} : l = Len(g)
  BY <1>2
<1>5. \A j \in 1..l : data[pos - 1 + j] = g[j] /\ g[j] \in ToSet(Digits)
  BY <1>1, <1>3, <1>4 DEF At
<1>6. /\ pos + l + 1 <= Len(data) /\ data[pos + l] = CR /\ data[pos + l + 1] = LF
  <2>1. pos + l + 2 - 1 <= Len(data) /\ \A j \in 1..2 : data[pos + l - 1 + j] = CRLF[j]
    BY <1>3, <1>4, DigitsAreBytes DEF At
  <2>2. 1 \in 1..2 /\ 2 \in 1..2 /\ pos + l - 1 + 1 = pos + l /\ pos + l - 1 + 2 = pos + l + 1
    OBVIOUS
  <2>3. data[pos + l - 1 + 1] = CR /\ data[pos + l - 1 + 2] = LF
    BY <2>1, <2>2, DigitsAreBytes
  <2>4. pos + l + 2 - 1 = pos + l + 1
    OBVIOUS
  <2> QED BY <2>1, <2>2, <2>3, <2>4
<1>7. FirstCRLF(data, pos, pos + l)
  <2>1. ASSUME NEW i \in pos..((pos + l) - 1) PROVE data[i] # CR
    <3>1. i - pos + 1 \in 1..l /\ pos - 1 + (i - pos + 1) = i
      OBVIOUS
    <3>2. data[i] \in ToSet(Digits)
      BY <1>5, <3>1
    <3> QED BY <3>2, DigitsAreBytes
  <2>2. pos + l \in pos..(Len(data) - 1)
    BY <1>6
  <2> QED BY <1>6, <2>1, <2>2 DEF FirstCRLF
<1>8. FindCRLF(data, pos) = pos + l
  BY <1>7, FindIs
<1> DEFINE line == SubSeq(data, pos, (pos + l) - 1)
<1>9. line = g
  <2>0. Extends(data, data)
    BY DEF Extends
  <2>1. /\ line \in Seq(Byte)
        /\ Len(line) = IF pos <= (pos + l) - 1 THEN ((pos + l) - 1) - pos + 1 ELSE 0
        /\ \A i \in 1..(((pos + l) - 1) - pos + 1) : line[i] = data[pos + i - 1]
    <3> DEFINE e == (pos + l) - 1
    <3>1. e \in Int /\ e <= Len(data)
      BY <1>6
    <3> HIDE DEF e
    <3>2. /\ SubSeq(data, pos, e) \in Seq(Byte)
          /\ Len(SubSeq(data, pos, e)) = IF pos <= e THEN e - pos + 1 ELSE 0
          /\ \A i \in 1..(e - pos + 1) : SubSeq(data, pos, e)[i] = data[pos + i - 1]
      BY <2>0, <3>1, PartStable
    <3> QED BY <3>2 DEF e
  <2>2. ((pos + l) - 1) - pos + 1 = l /\ pos <= (pos + l) - 1
    OBVIOUS
  <2>3. Len(line) = l /\ \A i \in 1..l : line[i] = data[pos + i - 1]
    BY <2>1, <2>2
  <2>4. ASSUME NEW i \in 1..l PROVE line[i] = g[i]
    <3>1. pos + i - 1 = pos - 1 + i
      OBVIOUS
    <3> QED BY <1>5, <2>3, <3>1
  <2> HIDE DEF line
  <2> QED BY <1>2, <1>4, <2>1, <2>3, <2>4, SeqEqual
<1>10. ParseIntegerLine(data, pos) = LineOf(pos + l, g)
  BY <1>8, <1>9, LineIs
<1>11. LineDigits(g) = g
  <2>1. 1 \in 1..l
    OBVIOUS
  <2>2. g[1] # "-"
    BY <1>5, <2>1, DigitsAreBytes
  <2> QED BY <2>2 DEF LineDigits
<1>12. ToSet(g) \ ToSet(Digits) = {}
  <2>1. \A i \in DOMAIN g : g[i] \in ToSet(Digits)
    BY <1>1
  <2>2. ASSUME NEW x \in ToSet(g) PROVE x \in ToSet(Digits)
    <3>1. PICK i \in DOMAIN g : x = g[i]
      BY DEF ToSet
    <3> QED BY <2>1, <3>1
  <2> QED BY <2>2
<1>13. ~(g # <<>> /\ g[1] = "-")
  <2>1. 1 \in 1..l
    OBVIOUS
  <2> QED BY <1>5, <2>1, DigitsAreBytes
<1>14. pos + l # 0
  OBVIOUS
<1>15. LineOf(pos + l, g) = [st |-> "ok", pos |-> (pos + l) + 2, value |-> n]
  BY <1>1, <1>11, <1>12, <1>13, <1>14 DEF LineOf
<1> QED BY <1>4, <1>10, <1>15 DEF g

\* The concatenations of a bulk, regrouped.
LEMMA FourParts ==
    ASSUME NEW h \in Seq(Byte), NEW g \in Seq(Byte), NEW c \in Seq(Byte), NEW t \in Seq(Byte),
           NEW b, b = h \o g \o c \o t \o c
    PROVE  /\ b = h \o (g \o c) \o t \o c
           /\ g \o c \in Seq(Byte) /\ Len(g \o c) = Len(g) + Len(c)
           /\ b \in Seq(Byte)
           /\ Len(b) = Len(h) + Len(g) + Len(c) + Len(t) + Len(c)
<1>1. g \o c \in Seq(Byte) /\ Len(g \o c) = Len(g) + Len(c)
  BY ConcatProperties
<1>2. (h \o g) \o c = h \o (g \o c)
  BY ConcatAssociative, SMTT(40)
<1>3. h \o g \in Seq(Byte) /\ Len(h \o g) = Len(h) + Len(g)
  BY ConcatProperties
<1>4. h \o g \o c \in Seq(Byte) /\ Len(h \o g \o c) = Len(h \o g) + Len(c)
  BY <1>3, ConcatProperties
<1>5. h \o g \o c \o t \in Seq(Byte) /\ Len(h \o g \o c \o t) = Len(h \o g \o c) + Len(t)
  BY <1>4, ConcatProperties
<1>6. h \o g \o c \o t \o c \in Seq(Byte) /\ Len(h \o g \o c \o t \o c) = Len(h \o g \o c \o t) + Len(c)
  BY <1>5, ConcatProperties
<1> QED BY <1>1, <1>2, <1>3, <1>4, <1>5, <1>6

\* The bytes of a bulk string and how many there are.
LEMMA BulkBytes ==
    ASSUME NEW t \in Seq(Byte)
    PROVE  /\ Decimal[Len(t)] \o CRLF \in Seq(Byte)
           /\ AppendBulkString(t) = <<"$">> \o (Decimal[Len(t)] \o CRLF) \o t \o CRLF
           /\ AppendBulkString(t) \in Seq(Byte)
           /\ Len(AppendBulkString(t)) = Len(Decimal[Len(t)]) + Len(t) + 5
<1> DEFINE g == Decimal[Len(t)]
           h == <<"$">>
<1>1. g \in Seq(Byte) /\ Len(g) \in Nat
  BY DecimalBytes, LenProperties
<1>2. CRLF \in Seq(Byte) /\ Len(CRLF) = 2
  BY DigitsAreBytes
<1>3. h \in Seq(Byte) /\ Len(h) = 1
  BY DigitsAreBytes
<1>4. AppendBulkString(t) = h \o g \o CRLF \o t \o CRLF
  BY DEF AppendBulkString
<1> HIDE DEF g, h
<1> DEFINE b == AppendBulkString(t)
<1>5. /\ b = h \o (g \o CRLF) \o t \o CRLF
      /\ g \o CRLF \in Seq(Byte) /\ Len(g \o CRLF) = Len(g) + Len(CRLF)
      /\ b \in Seq(Byte)
      /\ Len(b) = Len(h) + Len(g) + Len(CRLF) + Len(t) + Len(CRLF)
  <2>1. g \in Seq(Byte) /\ CRLF \in Seq(Byte) /\ h \in Seq(Byte) /\ t \in Seq(Byte)
    BY <1>1, <1>2, <1>3
  <2>2. b = h \o g \o CRLF \o t \o CRLF
    BY <1>4
  <2> HIDE DEF b
  <2> QED BY <2>1, <2>2, FourParts
<1>6. Len(t) \in Nat
  OBVIOUS
<1>7. Len(h) + Len(g) + Len(CRLF) + Len(t) + Len(CRLF) = Len(g) + Len(t) + 5
  BY <1>1, <1>2, <1>3, <1>6
<1> QED BY <1>4, <1>5, <1>7 DEF g, h

\* Four parts, the one behind the other.
LEMMA AtParts ==
    ASSUME NEW S, NEW data \in Seq(S), NEW pos \in Nat \ {0}, NEW h \in Seq(S),
           NEW k \in Seq(S), NEW t \in Seq(S), NEW c \in Seq(S),
           At(data, pos, h \o k \o t \o c)
    PROVE  /\ At(data, pos, h) /\ At(data, pos + Len(h), k)
           /\ At(data, pos + Len(h) + Len(k), t)
           /\ At(data, pos + Len(h) + Len(k) + Len(t), c)
<1>1. h \o k \in Seq(S) /\ Len(h \o k) = Len(h) + Len(k)
  BY ConcatProperties
<1>2. h \o k \o t \in Seq(S) /\ Len(h \o k \o t) = Len(h \o k) + Len(t)
  BY <1>1, ConcatProperties
<1>3. At(data, pos, h \o k \o t) /\ At(data, pos + Len(h \o k \o t), c)
  BY <1>2, AtConcat
<1>4. At(data, pos, h \o k) /\ At(data, pos + Len(h \o k), t)
  BY <1>1, <1>3, AtConcat
<1>5. At(data, pos, h) /\ At(data, pos + Len(h), k)
  BY <1>4, AtConcat
<1>6. /\ pos + (Len(h) + Len(k)) = pos + Len(h) + Len(k)
      /\ pos + ((Len(h) + Len(k)) + Len(t)) = pos + Len(h) + Len(k) + Len(t)
  OBVIOUS
<1> QED BY <1>1, <1>2, <1>3, <1>4, <1>5, <1>6

\* A sequence that is in the data is the part of the data between its ends.
LEMMA PartAt ==
    ASSUME NEW data \in Seq(Byte), NEW pos \in Nat \ {0}, NEW t \in Seq(Byte),
           At(data, pos, t)
    PROVE  SubSeq(data, pos, pos + Len(t) - 1) = t
<1>0. Extends(data, data)
  BY DEF Extends
<1>1. PICK l \in Nat : l = Len(t)
  OBVIOUS
<1> DEFINE e == pos + l - 1
<1>2. e \in Int /\ e <= Len(data) /\ e - pos + 1 = l /\ (pos <= e <=> l > 0)
  BY <1>1 DEF At
<1>3. \A i \in 1..l : data[pos + i - 1] = t[i]
  <2>1. \A i \in 1..l : pos + i - 1 = pos - 1 + i
    OBVIOUS
  <2>2. \A i \in 1..l : data[pos - 1 + i] = t[i]
    BY <1>1 DEF At
  <2> QED BY <2>1, <2>2
<1> HIDE DEF e
<1>4. /\ SubSeq(data, pos, e) \in Seq(Byte)
      /\ Len(SubSeq(data, pos, e)) = IF pos <= e THEN e - pos + 1 ELSE 0
      /\ \A i \in 1..(e - pos + 1) : SubSeq(data, pos, e)[i] = data[pos + i - 1]
  BY <1>0, <1>2, PartStable
<1>5. Len(SubSeq(data, pos, e)) = l
  BY <1>2, <1>4
<1>6. \A i \in 1..l : SubSeq(data, pos, e)[i] = t[i]
  BY <1>2, <1>3, <1>4
<1>7. SubSeq(data, pos, e) = t
  BY <1>1, <1>4, <1>5, <1>6, SeqEqual
<1> QED BY <1>1, <1>7 DEF e

\* The last branch of the loop of decode_array_of_bulk: the bulk is whole.
LEMMA BulkEnds ==
    ASSUME NEW data, NEW acc, NEW p, NEW n, NEW e, acc.st = "ok", ~(acc.pos > Len(data)),
           data[acc.pos] = "$",
           ParseIntegerLine(data, acc.pos + 1) = [st |-> "ok", pos |-> p, value |-> n],
           ~(n < 0), p + n = e, ~(e + 1 > Len(data)), SubSeq(data, e, e + 1) = CRLF
    PROVE  Bulk(data, acc) = [st |-> "ok", pos |-> e + 2,
                              tokens |-> Append(acc.tokens, SubSeq(data, p, e - 1))]
<1> DEFINE size == ParseIntegerLine(data, acc.pos + 1)
           end == size.pos + size.value
<1>1. size.st = "ok" /\ size.pos = p /\ size.value = n
  OBVIOUS
<1>2. end = e
  BY <1>1
<1>3. ~(size.value < 0) /\ ~(end + 1 > Len(data)) /\ SubSeq(data, end, end + 1) = CRLF
  BY <1>1, <1>2
<1>4. Bulk(data, acc) = [st |-> "ok", pos |-> end + 2,
                         tokens |-> Append(acc.tokens, SubSeq(data, size.pos, end - 1))]
  BY <1>1, <1>3 DEF Bulk
<1> QED BY <1>1, <1>2, <1>4

\* A bulk string that is written is read, and the decoder stops behind it.
LEMMA BulkAt ==
    ASSUME NEW data \in Seq(Byte), NEW pos \in Nat \ {0}, NEW t \in Short, NEW tokens,
           At(data, pos, AppendBulkString(t))
    PROVE  Bulk(data, Acc(tokens, pos)) =
               Acc(Append(tokens, t), pos + Len(AppendBulkString(t)))
<1> DEFINE h == <<"$">>
           g == Decimal[Len(t)]
           k == g \o CRLF
<1>1. t \in Seq(Byte) /\ Len(t) \in Nat /\ Len(t) < Half
  BY DEF Short
<1>2. /\ k \in Seq(Byte) /\ AppendBulkString(t) = h \o k \o t \o CRLF
      /\ Len(AppendBulkString(t)) = Len(g) + Len(t) + 5
  BY <1>1, BulkBytes
<1>3. g \in Seq(Byte) /\ Len(g) \in Nat
  BY <1>1, DecimalBytes
<1>4. h \in Seq(Byte) /\ Len(h) = 1 /\ h[1] = "$" /\ CRLF \in Seq(Byte) /\ Len(CRLF) = 2
  BY DigitsAreBytes
<1>5. Len(k) = Len(g) + Len(CRLF)
  <2>1. g \in Seq(Byte) /\ CRLF \in Seq(Byte)
    BY <1>3, <1>4
  <2> QED BY <2>1, ConcatProperties
<1>6. PICK m \in Nat : m = Len(g)
  BY <1>3
<1>7. PICK n \in Nat : n = Len(t)
  BY <1>1
<1>8. /\ At(data, pos, h) /\ At(data, pos + Len(h), k)
      /\ At(data, pos + Len(h) + Len(k), t)
      /\ At(data, pos + Len(h) + Len(k) + Len(t), CRLF)
  <2>1. k \in Seq(Byte) /\ h \in Seq(Byte) /\ CRLF \in Seq(Byte) /\ t \in Seq(Byte)
    BY <1>1, <1>2, <1>4
  <2>2. At(data, pos, h \o k \o t \o CRLF)
    BY <1>2
  <2> HIDE DEF k, h
  <2> QED BY <2>1, <2>2, AtParts
<1>9. /\ pos + Len(h) = pos + 1 /\ pos + Len(h) + Len(k) = pos + m + 3
      /\ pos + Len(h) + Len(k) + Len(t) = pos + m + 3 + n
  <2> HIDE DEF h, k, g
  <2>1. Len(h) = 1 /\ Len(k) = m + 2 /\ Len(t) = n
    BY <1>4, <1>5, <1>6, <1>7
  <2>2. /\ pos + 1 + (m + 2) = pos + m + 3
        /\ pos + 1 + (m + 2) + n = pos + m + 3 + n
    OBVIOUS
  <2> QED BY <2>1, <2>2
<1> DEFINE p == pos + m + 3
           e == p + n
<1>10. At(data, pos, h) /\ At(data, pos + 1, k) /\ At(data, p, t) /\ At(data, e, CRLF)
  BY <1>8, <1>9
<1>11. data[pos] = "$" /\ pos <= Len(data)
  <2>1. pos + 1 - 1 <= Len(data) /\ \A j \in 1..1 : data[pos - 1 + j] = h[j]
    BY <1>4, <1>10 DEF At
  <2>2. pos + 1 - 1 = pos /\ 1 \in 1..1 /\ pos - 1 + 1 = pos
    OBVIOUS
  <2> QED BY <1>4, <2>1, <2>2
<1>12. ParseIntegerLine(data, pos + 1) = [st |-> "ok", pos |-> p, value |-> n]
  <2>1. pos + 1 \in Nat \ {0} /\ (pos + 1) + m + 2 = p
    OBVIOUS
  <2>2. ParseIntegerLine(data, pos + 1) =
            [st |-> "ok", pos |-> (pos + 1) + Len(Decimal[Len(t)]) + 2, value |-> Len(t)]
    BY <1>1, <1>10, <2>1, LineAt
  <2> QED BY <1>6, <1>7, <2>1, <2>2
<1>13. p \in Nat \ {0} /\ e \in Nat \ {0} /\ e + 1 <= Len(data) /\ Len(data) \in Nat
  <2>1. e + 2 - 1 <= Len(data)
    BY <1>4, <1>10 DEF At
  <2>2. e + 2 - 1 = e + 1
    OBVIOUS
  <2> QED BY <2>1, <2>2
<1>14. SubSeq(data, p, e - 1) = t
  <2>1. SubSeq(data, p, p + Len(t) - 1) = t
    BY <1>1, <1>10, <1>13, PartAt
  <2> QED BY <1>7, <2>1
<1>15. SubSeq(data, e, e + 1) = CRLF
  <2>1. SubSeq(data, e, e + Len(CRLF) - 1) = CRLF
    BY <1>4, <1>10, <1>13, PartAt
  <2>2. e + 2 - 1 = e + 1
    BY <1>13
  <2> QED BY <1>4, <2>1, <2>2
<1> DEFINE acc == Acc(tokens, pos)
<1>16. acc.st = "ok" /\ acc.pos = pos /\ acc.tokens = tokens
  BY DEF Acc
<1>a. p + n = e /\ ~(n < 0) /\ ~(e + 1 > Len(data)) /\ ~(pos > Len(data))
  BY <1>11, <1>13
<1>18. e + 2 = pos + Len(AppendBulkString(t))
  <2>1. Len(AppendBulkString(t)) = m + n + 5
    BY <1>2, <1>6, <1>7
  <2>2. pos + m + 3 + n + 2 = pos + (m + n + 5)
    OBVIOUS
  <2> QED BY <2>1, <2>2
<1> HIDE DEF acc, p, e
<1>17. Bulk(data, acc) = [st |-> "ok", pos |-> e + 2, tokens |-> Append(tokens, t)]
  BY <1>11, <1>12, <1>14, <1>15, <1>16, <1>a, BulkEnds
<1> QED BY <1>17, <1>18 DEF Acc, acc

(* FlattenSeq, turn by turn *)
Joins(f, seqs, n) ==
    /\ f[0] = <<>>
    /\ \A i \in 1..n : f[i] = f[i - 1] \o seqs[i]

JoinStep(f, seqs, i) == IF i = 1 THEN seqs[i] ELSE f[i - 1] \o seqs[i]
JoinTo(f, seqs, n) == f = [i \in 1..n |-> JoinStep(f, seqs, i)]

\* The table of the concatenations of the first m sequences exists.
LEMMA JoinToExists ==
    ASSUME NEW seqs, NEW m \in Nat
    PROVE  \E f : JoinTo(f, seqs, m)
<1> DEFINE G == {k \in Nat : \E f : JoinTo(f, seqs, k)}
<1>1. 0 \in G
  <2> DEFINE f == [i \in 1..0 |-> 0]
  <2>1. JoinTo(f, seqs, 0)
    BY DEF JoinTo
  <2> QED BY <2>1
<1>2. ASSUME NEW k \in Nat, k \in G PROVE k + 1 \in G
  <2>1. PICK f : JoinTo(f, seqs, k)
    BY <1>2
  <2> DEFINE g == [i \in 1..(k + 1) |-> IF i = k + 1 THEN JoinStep(f, seqs, i) ELSE f[i]]
  <2>2. ASSUME NEW i \in 1..k PROVE g[i] = f[i] /\ f[i] = JoinStep(f, seqs, i)
    <3>1. i \in 1..(k + 1) /\ i # k + 1
      OBVIOUS
    <3>2. g[i] = f[i]
      BY <3>1
    <3> QED BY <2>1, <3>2 DEF JoinTo
  <2> HIDE DEF g
  <2>3. ASSUME NEW i \in 1..(k + 1) PROVE g[i] = JoinStep(g, seqs, i)
    <3>1. i # 1 => i - 1 \in 1..k
      OBVIOUS
    <3>2. i # 1 => g[i - 1] = f[i - 1]
      BY <2>2, <3>1
    <3>3. JoinStep(g, seqs, i) = JoinStep(f, seqs, i)
      BY <3>2 DEF JoinStep
    <3>4. CASE i = k + 1
      BY <3>3, <3>4 DEF g
    <3>5. CASE i # k + 1
      <4>1. i \in 1..k
        BY <3>5
      <4> QED BY <2>2, <3>3, <4>1
    <3> QED BY <3>4, <3>5
  <2>4. g = [i \in 1..(k + 1) |-> g[i]]
    BY DEF g
  <2>5. JoinTo(g, seqs, k + 1)
    BY <2>3, <2>4 DEF JoinTo
  <2> QED BY <2>5
<1> HIDE DEF G
<1>3. m \in G
  BY <1>1, <1>2, SetInduction
<1> QED BY <1>3 DEF G

\* FlattenSeq joins the sequences one by one.
LEMMA FlattenIs ==
    ASSUME NEW S, NEW n \in Nat, NEW seqs, DOMAIN seqs = 1..n, Len(seqs) = n,
           n = 0 => seqs = <<>>, \A i \in 1..n : seqs[i] \in Seq(S)
    PROVE  \E f : /\ Joins(f, seqs, n) /\ FlattenSeq(seqs) = f[n]
                  /\ \A i \in 0..n : f[i] \in Seq(S)
<1> DEFINE h == CHOOSE h : JoinTo(h, seqs, n)
           f == [i \in 0..n |-> IF i = 0 THEN <<>> ELSE h[i]]
<1>1. JoinTo(h, seqs, n)
  BY JoinToExists
<1>2. FlattenSeq(seqs) = IF n = 0 THEN <<>> ELSE h[n]
  BY DEF FlattenSeq, JoinTo, JoinStep
<1> HIDE DEF h
<1>3. \A i \in 1..n : h[i] = JoinStep(h, seqs, i)
  BY <1>1 DEF JoinTo
<1>4. f[0] = <<>> /\ \A i \in 1..n : f[i] = h[i]
  <2>1. 0 \in 0..n /\ \A i \in 1..n : i \in 0..n /\ i # 0
    OBVIOUS
  <2> QED BY <2>1
<1>5. FlattenSeq(seqs) = f[n]
  <2>1. n = 0 \/ n \in 1..n
    OBVIOUS
  <2> HIDE DEF f
  <2> QED BY <1>2, <1>4, <2>1
<1> HIDE DEF f
<1>6. ASSUME NEW i \in 1..n PROVE f[i] = f[i - 1] \o seqs[i]
  <2>1. CASE i = 1
    <3>1. f[i] = seqs[i] /\ f[i - 1] = <<>>
      BY <1>3, <1>4, <2>1 DEF JoinStep
    <3> QED BY <3>1, ConcatEmptySeq
  <2>2. CASE i # 1
    <3>1. i - 1 \in 1..n
      BY <2>2
    <3> QED BY <1>3, <1>4, <2>2, <3>1 DEF JoinStep
  <2> QED BY <2>1, <2>2
<1> DEFINE G == {i \in Nat : i <= n => f[i] \in Seq(S)}
<1>7. 0 \in G
  <2>1. f[0] \in Seq(S)
    BY <1>4, EmptySeq
  <2> QED BY <2>1
<1>8. ASSUME NEW i \in Nat, i \in G PROVE i + 1 \in G
  <2>1. CASE i + 1 <= n
    <3>1. i + 1 \in 1..n /\ (i + 1) - 1 = i /\ i <= n
      BY <2>1
    <3>2. f[i] \in Seq(S) /\ seqs[i + 1] \in Seq(S) /\ f[i + 1] = f[i] \o seqs[i + 1]
      BY <1>6, <1>8, <3>1
    <3>3. f[i + 1] \in Seq(S)
      BY <3>2, ConcatProperties
    <3> QED BY <3>3
  <2>2. CASE ~(i + 1 <= n)
    BY <2>2
  <2> QED BY <2>1, <2>2
<1> HIDE DEF G
<1>9. Nat \subseteq G
  BY <1>7, <1>8, SetInduction
<1>10. ASSUME NEW i \in 0..n PROVE f[i] \in Seq(S)
  <2>1. i \in Nat /\ i <= n
    OBVIOUS
  <2> QED BY <1>9, <2>1 DEF G
<1> QED BY <1>4, <1>5, <1>6, <1>10 DEF Joins

\* A sequence is in itself, at its start.
LEMMA AtWhole ==
    ASSUME NEW S, NEW s \in Seq(S)
    PROVE  At(s, 1, s)
<1>1. PICK n \in Nat : n = Len(s)
  OBVIOUS
<1>2. 1 + n - 1 <= n /\ \A j \in 1..n : 1 - 1 + j = j
  OBVIOUS
<1> QED BY <1>1, <1>2 DEF At

\* The bytes of the header of an array.
LEMMA HeaderBytes ==
    ASSUME NEW n \in Nat
    PROVE  /\ AppendArrayHeader(n) = <<"*">> \o (Decimal[n] \o CRLF)
           /\ AppendArrayHeader(n) \in Seq(Byte)
           /\ Decimal[n] \o CRLF \in Seq(Byte)
           /\ Len(AppendArrayHeader(n)) = Len(Decimal[n]) + 3
           /\ Len(Decimal[n]) \in Nat \ {0}
<1> DEFINE h == <<"*">>
           g == Decimal[n]
           c == CRLF
<1>1. g \in Seq(Byte) /\ c \in Seq(Byte) /\ h \in Seq(Byte)
  BY DecimalBytes, DigitsAreBytes
<1>2. Len(g) \in Nat \ {0} /\ Len(c) = 2 /\ Len(h) = 1
  BY DecimalBytes, DigitsAreBytes
<1>3. AppendArrayHeader(n) = h \o g \o c
  BY DEF AppendArrayHeader
<1> HIDE DEF h, g, c
<1>4. (h \o g) \o c = h \o (g \o c)
  BY <1>1, ConcatAssociative
<1>5. g \o c \in Seq(Byte) /\ Len(g \o c) = Len(g) + Len(c)
  BY <1>1, ConcatProperties
<1> DEFINE k == g \o c
<1>6. k \in Seq(Byte)
  BY <1>5
<1>7. h \o k \in Seq(Byte) /\ Len(h \o k) = Len(h) + Len(k)
  <2> HIDE DEF k
  <2> QED BY <1>1, <1>6, ConcatProperties
<1>8. Len(h) + (Len(g) + Len(c)) = Len(g) + 3
  BY <1>2
<1>9. AppendArrayHeader(n) = h \o k /\ Len(h \o k) = Len(g) + 3
  BY <1>3, <1>4, <1>5, <1>7, <1>8
<1> QED BY <1>2, <1>5, <1>7, <1>9 DEF h, g, c

\* Each of the sequences is in the data behind those before it.
LEMMA AtJoined ==
    ASSUME NEW S, NEW data \in Seq(S), NEW pos \in Nat \ {0}, NEW n \in Nat, NEW seqs, NEW f,
           Joins(f, seqs, n), \A i \in 1..n : seqs[i] \in Seq(S),
           \A i \in 0..n : f[i] \in Seq(S), At(data, pos, f[n])
    PROVE  \A i \in 1..n : At(data, pos + Len(f[i - 1]), seqs[i])
<1> DEFINE G == {k \in Nat : k <= n => At(data, pos, f[n - k])}
<1>0. ASSUME NEW i \in 1..n, At(data, pos, f[i])
      PROVE  At(data, pos, f[i - 1]) /\ At(data, pos + Len(f[i - 1]), seqs[i])
  <2>0. i - 1 \in 0..n
    OBVIOUS
  <2>1. f[i] = f[i - 1] \o seqs[i] /\ i - 1 \in 0..n
    BY <2>0 DEF Joins
  <2>2. f[i - 1] \in Seq(S) /\ seqs[i] \in Seq(S)
    BY <2>1
  <2> DEFINE u == f[i - 1]
             v == seqs[i]
  <2>3. u \in Seq(S) /\ v \in Seq(S) /\ At(data, pos, u \o v)
    BY <1>0, <2>1, <2>2
  <2> HIDE DEF u, v
  <2>4. At(data, pos, u) /\ At(data, pos + Len(u), v)
    BY <2>3, AtConcat
  <2> QED BY <2>4 DEF u, v
<1>1. 0 \in G
  <2>1. n - 0 = n
    OBVIOUS
  <2> QED BY <2>1
<1>2. ASSUME NEW k \in Nat, k \in G PROVE k + 1 \in G
  <2>1. CASE k + 1 <= n
    <3>1. n - k \in 1..n /\ (n - k) - 1 = n - (k + 1) /\ k <= n
      BY <2>1
    <3>2. At(data, pos, f[n - (k + 1)])
      BY <1>0, <1>2, <3>1
    <3> QED BY <3>2
  <2>2. CASE ~(k + 1 <= n)
    BY <2>2
  <2> QED BY <2>1, <2>2
<1> HIDE DEF G
<1>3. Nat \subseteq G
  BY <1>1, <1>2, SetInduction
<1>4. ASSUME NEW i \in 1..n PROVE At(data, pos + Len(f[i - 1]), seqs[i])
  <2>1. n - i \in Nat /\ n - i <= n /\ n - (n - i) = i
    OBVIOUS
  <2>2. n - i \in G
    BY <1>3, <2>1
  <2>3. At(data, pos, f[i])
    BY <2>1, <2>2 DEF G
  <2> QED BY <1>0, <2>3
<1> QED BY <1>4

(* What EncodeCommand makes of the tokens decodes to them, and is as long as *)
(* the decoder takes it to be.                                               *)
LEMMA DecodesEncoded ==
    ASSUME NEW tokens \in Seq(Short), Len(tokens) < Half
    PROVE  /\ EncodeCommand(tokens) \in Seq(Byte) /\ Len(EncodeCommand(tokens)) >= 4
           /\ DecodeArrayOfBulk(EncodeCommand(tokens)) =
                  Acc(tokens, Len(EncodeCommand(tokens)) + 1)
<1>1. PICK n \in Nat : n = Len(tokens)
  OBVIOUS
<1> DEFINE seqs == [i \in DOMAIN tokens |-> AppendBulkString(tokens[i])]
           hd == AppendArrayHeader(n)
           data == EncodeCommand(tokens)
           g == Decimal[n]
<1>2. \A i \in 1..n : tokens[i] \in Short /\ tokens[i] \in Seq(Byte)
  BY <1>1 DEF Short
<1>3. /\ DOMAIN seqs = 1..n /\ Len(seqs) = n /\ (n = 0 => seqs = <<>>)
      /\ \A i \in 1..n : seqs[i] = AppendBulkString(tokens[i])
  BY <1>1
<1>4. \A i \in 1..n : seqs[i] \in Seq(Byte)
  BY <1>2, <1>3, BulkBytes
<1>5. data = hd \o FlattenSeq(seqs)
  BY <1>1 DEF EncodeCommand
<1> HIDE DEF seqs
<1>b. \E f : /\ Joins(f, seqs, n) /\ FlattenSeq(seqs) = f[n]
              /\ \A i \in 0..n : f[i] \in Seq(Byte)
  <2>1. DOMAIN seqs = 1..n /\ Len(seqs) = n /\ (n = 0 => seqs = <<>>)
    BY <1>3
  <2> QED BY ONLY <2>1, <1>4, <1>1, FlattenIs
<1>6. PICK f : /\ Joins(f, seqs, n) /\ FlattenSeq(seqs) = f[n]
               /\ \A i \in 0..n : f[i] \in Seq(Byte)
  BY <1>b
<1>7. /\ hd = <<"*">> \o (g \o CRLF) /\ hd \in Seq(Byte) /\ g \o CRLF \in Seq(Byte)
      /\ Len(hd) = Len(g) + 3 /\ Len(g) \in Nat \ {0}
  BY HeaderBytes
<1>8. f[n] \in Seq(Byte) /\ Len(f[n]) \in Nat
  <2>1. n \in 0..n
    OBVIOUS
  <2>2. f[n] \in Seq(Byte)
    BY <1>6, <2>1
  <2> QED BY <2>2, LenProperties
<1> HIDE DEF hd, data, g
<1>9. data \in Seq(Byte) /\ Len(data) = Len(hd) + Len(f[n])
  <2> DEFINE u == f[n]
  <2>1. u \in Seq(Byte) /\ data = hd \o u /\ hd \in Seq(Byte)
    BY <1>5, <1>6, <1>7, <1>8
  <2> HIDE DEF u
  <2>2. data \in Seq(Byte) /\ Len(data) = Len(hd) + Len(u)
    BY <2>1, ConcatProperties
  <2> QED BY <2>2 DEF u
<1>10. PICK l \in Nat \ {0} : l = Len(g)
  BY <1>7
<1>11. At(data, 1, hd) /\ At(data, 1 + Len(hd), f[n])
  <2>1. At(data, 1, hd \o f[n])
    BY <1>5, <1>6, <1>9, AtWhole
  <2> DEFINE u == f[n]
  <2>2. u \in Seq(Byte) /\ At(data, 1, hd \o u) /\ hd \in Seq(Byte) /\ 1 \in Nat \ {0}
    BY <1>7, <1>8, <2>1
  <2> HIDE DEF u
  <2>3. At(data, 1, hd) /\ At(data, 1 + Len(hd), u)
    BY <1>9, <2>2, AtConcat
  <2> QED BY <2>3 DEF u
<1>12. At(data, 1, <<"*">>) /\ At(data, 2, g \o CRLF)
  <2> DEFINE h == <<"*">>
             k == g \o CRLF
  <2>1. h \in Seq(Byte) /\ k \in Seq(Byte) /\ At(data, 1, h \o k) /\ 1 \in Nat \ {0}
    BY <1>7, <1>11, DigitsAreBytes
  <2>2. 1 + Len(h) = 2
    BY DigitsAreBytes
  <2> HIDE DEF h, k
  <2>3. At(data, 1, h) /\ At(data, 1 + Len(h), k)
    BY <1>9, <2>1, AtConcat
  <2> QED BY <2>2, <2>3 DEF h, k
<1>13. data[1] = "*" /\ data # <<>>
  <2>1. 1 + 1 - 1 <= Len(data) /\ \A j \in 1..1 : data[1 - 1 + j] = <<"*">>[j]
    BY <1>12, DigitsAreBytes DEF At
  <2>2. 1 \in 1..1 /\ 1 - 1 + 1 = 1 /\ <<"*">>[1] = "*" /\ 1 + 1 - 1 = 1
    OBVIOUS
  <2>3. 1 <= Len(data) /\ data[1] = "*"
    BY <2>1, <2>2
  <2>4. data = <<>> => Len(data) = 0
    OBVIOUS
  <2> QED BY <2>3, <2>4
<1>14. ParseIntegerLine(data, 2) = [st |-> "ok", pos |-> l + 4, value |-> n]
  <2>1. 2 \in Nat \ {0} /\ 2 + l + 2 = l + 4
    OBVIOUS
  <2>2. ParseIntegerLine(data, 2) = [st |-> "ok", pos |-> 2 + Len(Decimal[n]) + 2, value |-> n]
    BY <1>1, <1>9, <1>12, <2>1, LineAt DEF g
  <2> QED BY <1>10, <2>1, <2>2 DEF g
<1> DEFINE base == [st |-> "ok", pos |-> l + 4, tokens |-> <<>>]
<1>15. DecodeArrayOfBulk(data) = Bulks(data, base, n)
  <2>1. ParseIntegerLine(data, 2).st = "ok" /\ ParseIntegerLine(data, 2).value = n
        /\ ParseIntegerLine(data, 2).pos = l + 4 /\ ~(n < 0)
    BY <1>14
  <2> QED BY <1>13, <2>1, DecodeIs
<1>16. PICK a : BulkTurns(a, data, base, n) /\ Bulks(data, base, n) = a[n]
  BY BulkFold
<1>17. 1 + Len(hd) = l + 4 /\ l + 4 \in Nat \ {0}
  BY <1>7, <1>10
<1>18. \A i \in 1..n : At(data, l + 4 + Len(f[i - 1]), seqs[i])
  BY <1>4, <1>6, <1>9, <1>11, <1>17, AtJoined
<1> DEFINE P(i) == a[i] = Acc(SubSeq(tokens, 1, i), l + 4 + Len(f[i]))
           G == {i \in Nat : i <= n => P(i)}
<1>19. 0 \in G
  <2>1. f[0] = <<>> /\ SubSeq(tokens, 1, 0) = <<>> /\ Len(<<>>) = 0 /\ l + 4 + 0 = l + 4
    BY <1>6, SubSeqEmpty DEF Joins
  <2>2. a[0] = base
    BY <1>16 DEF BulkTurns
  <2>3. P(0)
    BY <2>1, <2>2 DEF Acc
  <2> QED BY <2>3
<1>20. ASSUME NEW i \in Nat, i \in G PROVE i + 1 \in G
  <2>1. CASE i + 1 <= n
    <3>1. i + 1 \in 1..n /\ (i + 1) - 1 = i /\ i <= n /\ i \in 0..n
      BY <2>1
    <3>2. a[i + 1] = Bulk(data, a[i])
      BY <1>16, <3>1 DEF BulkTurns
    <3>3. a[i] = Acc(SubSeq(tokens, 1, i), l + 4 + Len(f[i]))
      BY <1>20, <3>1
    <3>4. f[i] \in Seq(Byte) /\ Len(f[i]) \in Nat /\ f[i + 1] = f[i] \o seqs[i + 1]
      <4>1. f[i] \in Seq(Byte)
        BY <1>6, <3>1
      <4>2. f[i + 1] = f[i] \o seqs[i + 1]
        BY <1>6, <3>1 DEF Joins
      <4> QED BY <4>1, <4>2, LenProperties
    <3> DEFINE t == tokens[i + 1]
               u == f[i]
               pos == l + 4 + Len(u)
               v == AppendBulkString(t)
    <3>5. At(data, pos, v) /\ t \in Short /\ seqs[i + 1] = v /\ t \in Seq(Byte)
      BY <1>2, <1>3, <1>18, <3>1
    <3>6. pos \in Nat \ {0}
      <4>1. PICK x \in Nat : x = Len(u)
        BY <3>4
      <4>2. l + 4 + x \in Nat \ {0}
        OBVIOUS
      <4> QED BY <4>1, <4>2
    <3>7. Bulk(data, Acc(SubSeq(tokens, 1, i), pos)) = Acc(Append(SubSeq(tokens, 1, i), t), pos + Len(v))
      <4> HIDE DEF t, pos
      <4> QED BY <1>9, <3>5, <3>6, BulkAt
    <3>8. Append(SubSeq(tokens, 1, i), t) = SubSeq(tokens, 1, i + 1)
      <4>1. i + 1 \in 1..Len(tokens)
        BY <1>1, <3>1
      <4> QED BY <4>1
    <3>9. pos + Len(v) = l + 4 + Len(f[i + 1])
      <4>1. u \in Seq(Byte) /\ v \in Seq(Byte) /\ f[i + 1] = u \o v
        BY <3>4, <3>5, BulkBytes
      <4>2. Len(u) \in Nat /\ Len(v) \in Nat
        BY <4>1, LenProperties
      <4> HIDE DEF u, v
      <4>3. Len(u \o v) = Len(u) + Len(v)
        BY <4>1, ConcatProperties
      <4>4. Len(f[i + 1]) = Len(u) + Len(v)
        BY <4>1, <4>3
      <4> QED BY <4>2, <4>4
    <3>10. P(i + 1)
      BY <3>2, <3>3, <3>7, <3>8, <3>9
    <3> HIDE DEF P
    <3> QED BY <3>10
  <2>2. CASE ~(i + 1 <= n)
    <3> HIDE DEF P
    <3> QED BY <2>2
  <2> QED BY <2>1, <2>2
<1> HIDE DEF G
<1>21. n \in G
  BY <1>19, <1>20, SetInduction
<1>22. a[n] = Acc(SubSeq(tokens, 1, n), l + 4 + Len(f[n]))
  <2>1. P(n)
    <3> HIDE DEF P
    <3> QED BY <1>21 DEF G
  <2> QED BY <2>1
<1>23. SubSeq(tokens, 1, n) = tokens
  BY <1>1, SubSeqFull
<1>24. l + 4 + Len(f[n]) = Len(data) + 1 /\ Len(data) >= 4
  <2>1. PICK x \in Nat : x = Len(f[n])
    BY <1>8
  <2>2. Len(data) = (l + 3) + x
    BY <1>7, <1>9, <1>10, <2>1
  <2>3. l + 4 + x = ((l + 3) + x) + 1 /\ (l + 3) + x >= 4
    OBVIOUS
  <2> QED BY <2>1, <2>2, <2>3
<1> QED BY <1>9, <1>15, <1>16, <1>22, <1>23, <1>24 DEF data

\* A concatenation extends its first part.
LEMMA ExtendsConcat ==
    ASSUME NEW s \in Seq(Byte), NEW t \in Seq(Byte)
    PROVE  Extends(s \o t, s)
<1>1. /\ s \o t \in Seq(Byte) /\ Len(s \o t) = Len(s) + Len(t)
      /\ \A i \in 1..(Len(s) + Len(t)) : (s \o t)[i] = IF i <= Len(s) THEN s[i] ELSE t[i - Len(s)]
  BY ConcatProperties
<1>2. PICK m \in Nat : m = Len(s)
  OBVIOUS
<1>3. PICK n \in Nat : n = Len(t)
  OBVIOUS
<1>4. \A i \in 1..m : i \in 1..(m + n) /\ i <= m
  OBVIOUS
<1>5. m <= m + n
  OBVIOUS
<1> DEFINE u == s \o t
<1>6. u \in Seq(Byte) /\ Len(u) = m + n /\ \A i \in 1..m : u[i] = s[i]
  BY <1>1, <1>2, <1>3, <1>4
<1> HIDE DEF u
<1>7. Extends(u, s)
  BY <1>2, <1>5, <1>6 DEF Extends
<1> QED BY <1>7 DEF u

\* A sequence extends its first k elements.
LEMMA ExtendsPart ==
    ASSUME NEW s \in Seq(Byte), NEW k \in Nat, k <= Len(s)
    PROVE  Extends(s, SubSeq(s, 1, k)) /\ Len(SubSeq(s, 1, k)) = k
<1>0. Extends(s, s) /\ k \in Int /\ 1 \in Nat \ {0}
  BY DEF Extends
<1>1. /\ SubSeq(s, 1, k) \in Seq(Byte)
      /\ Len(SubSeq(s, 1, k)) = IF 1 <= k THEN k - 1 + 1 ELSE 0
      /\ \A i \in 1..(k - 1 + 1) : SubSeq(s, 1, k)[i] = s[1 + i - 1]
  BY <1>0, PartStable
<1>2. (IF 1 <= k THEN k - 1 + 1 ELSE 0) = k /\ k - 1 + 1 = k /\ \A i \in 1..k : 1 + i - 1 = i
  OBVIOUS
<1> DEFINE p == SubSeq(s, 1, k)
<1>3. p \in Seq(Byte) /\ Len(p) = k /\ \A i \in 1..k : p[i] = s[i]
  BY <1>1, <1>2
<1> HIDE DEF p
<1>4. Extends(s, p) /\ Len(p) = k
  BY <1>3 DEF Extends
<1> QED BY <1>4 DEF p

(* The decoder reads back what the encoder wrote, for all tokens whose       *)
(* lengths and whose number fit an int64_t.                                  *)
THEOREM CodecRoundTrip ==
    ASSUME NEW tokens \in Seq(Short), Len(tokens) < Half, NEW after \in Seq(Byte)
    PROVE  RoundTrip(tokens, after)
<1> DEFINE frame == EncodeCommand(tokens)
           d == DecodeArrayOfBulk(frame)
<1>1. /\ frame \in Seq(Byte) /\ Len(frame) >= 4 /\ d = Acc(tokens, Len(frame) + 1)
  BY DecodesEncoded
<1>2. d.st = "ok" /\ d.pos = Len(frame) + 1
  BY <1>1 DEF Acc
<1> HIDE DEF frame
<1>3. DecodeArrayOfBulk(frame \o after) = d
  <2>1. Extends(frame \o after, frame)
    BY <1>1, ExtendsConcat
  <2>2. d.st # "more"
    BY <1>2
  <2> QED BY <2>1, <2>2, DecodeStable
<1>4. ASSUME NEW n \in 0..(Len(frame) - 1)
      PROVE  DecodeArrayOfBulk(SubSeq(frame, 1, n)).st = "more"
  <2> DEFINE p == SubSeq(frame, 1, n)
             e == DecodeArrayOfBulk(p)
  <2>0. Len(frame) \in Nat
    BY <1>1
  <2>1. n \in Nat /\ n < Len(frame) /\ n <= Len(frame)
    BY <2>0
  <2>2. Extends(frame, p) /\ Len(p) = n
    BY <1>1, <2>1, ExtendsPart
  <2> HIDE DEF p
  <2>3. /\ e.st \in {"ok", "error", "more"}
        /\ e.st # "more" => d = e
        /\ e.st = "ok" => GoodAcc(e, p)
    BY <2>2, DecodeStable
  <2>4. ~(e.st = "ok")
    <3> SUFFICES ASSUME e.st = "ok" PROVE FALSE
      OBVIOUS
    <3>1. e.pos <= n + 1 /\ d = e
      BY <2>2, <2>3 DEF GoodAcc
    <3>2. Len(frame) + 1 <= n + 1
      BY <1>2, <3>1
    <3> QED BY <2>0, <2>1, <3>2
  <2>5. e.st = "more"
    BY <1>2, <2>3, <2>4
  <2> QED BY <2>5 DEF p
<1> QED BY <1>1, <1>3, <1>4 DEF RoundTrip, Acc, frame

-----------------------------------------------------------------------------
(*****************************************************************************)
(* WalManager::Replay: the log so far and the store                          *)
(*****************************************************************************)

(* The iteration of MapThenFoldSet over the turns of WalManager::Replay *)
ReplayTurn(f, file, base, s) == IF s = {} THEN base ELSE ReplayOne(file, f[s \ {Max(s)}])
ReplayIter(f, file, base, n) ==
    f = [s \in SUBSET (1..n) |-> ReplayTurn(f, file, base, s)]

\* The table of the fold of WalManager::Replay exists.
LEMMA ReplayIterExists ==
    ASSUME NEW file, NEW base, NEW n \in Nat
    PROVE  \E f : ReplayIter(f, file, base, n)
<1> DEFINE G == {m \in Nat : \E f : ReplayIter(f, file, base, m)}
<1>1. 0 \in G
  <2> DEFINE f == [s \in SUBSET (1..0) |-> base]
  <2>1. \A s \in SUBSET (1..0) : ReplayTurn(f, file, base, s) = base
    BY DEF ReplayTurn
  <2> HIDE DEF ReplayTurn
  <2>2. ReplayIter(f, file, base, 0)
    BY <2>1 DEF ReplayIter
  <2> QED BY <2>2
<1>2. ASSUME NEW m \in Nat, m \in G PROVE m + 1 \in G
  <2>1. PICK f : ReplayIter(f, file, base, m)
    BY <1>2
  <2> DEFINE g == [s \in SUBSET (1..(m + 1)) |->
                      IF m + 1 \in s THEN ReplayTurn(f, file, base, s) ELSE f[s]]
  <2>2. ASSUME NEW s \in SUBSET (1..m)
        PROVE  g[s] = f[s] /\ f[s] = ReplayTurn(f, file, base, s)
    <3>1. s \in SUBSET (1..(m + 1)) /\ m + 1 \notin s
      OBVIOUS
    <3>2. g[s] = f[s]
      BY <3>1
    <3> QED BY <2>1, <3>2 DEF ReplayIter
  <2> HIDE DEF g
  <2>3. ASSUME NEW s \in SUBSET (1..(m + 1))
        PROVE  g[s] = ReplayTurn(g, file, base, s)
    <3>1. s \ {Max(s)} \in SUBSET (1..m)
      BY MaxOfUpTo
    <3>2. g[s \ {Max(s)}] = f[s \ {Max(s)}]
      BY <2>2, <3>1
    <3>3. ReplayTurn(g, file, base, s) = ReplayTurn(f, file, base, s)
      BY <3>2 DEF ReplayTurn
    <3>4. CASE m + 1 \in s
      BY <3>3, <3>4 DEF g
    <3>5. CASE m + 1 \notin s
      <4>1. s \in SUBSET (1..m)
        BY <3>5, MaxOfUpTo
      <4> QED BY <2>2, <3>3, <4>1
    <3> QED BY <3>4, <3>5
  <2>4. g = [s \in SUBSET (1..(m + 1)) |-> g[s]]
    BY DEF g
  <2>5. ReplayIter(g, file, base, m + 1)
    BY <2>3, <2>4 DEF ReplayIter
  <2> QED BY <2>5
<1> HIDE DEF G
<1>3. n \in G
  BY <1>1, <1>2, SetInduction
<1> QED BY <1>3 DEF G

(* The loop of WalManager::Replay *)
Replays(file, base, n) ==
    FoldLeft(LAMBDA acc, i : ReplayOne(file, acc), base, [i \in 1..n |-> i])

(* The turns of a loop: a[0] is the state before it, a[i] that after turn i  *)
ReplayTurns(a, file, base, n) ==
    /\ a[0] = base
    /\ \A i \in 1..n : a[i] = ReplayOne(file, a[i - 1])

\* The loop of WalManager::Replay has a state after each of its n turns.
LEMMA ReplayFold ==
    ASSUME NEW file, NEW base, NEW n \in Nat
    PROVE  \E a : ReplayTurns(a, file, base, n) /\ Replays(file, base, n) = a[n]
<1> DEFINE f == CHOOSE f : ReplayIter(f, file, base, n)
           a == [i \in 0..n |-> f[1..i]]
<1>1. Replays(file, base, n) = f[1..n]
  BY DEF Replays, FoldLeft, MapThenFoldSet, ReplayIter, ReplayTurn
<1>2. ReplayIter(f, file, base, n)
  BY ReplayIterExists
<1> HIDE DEF f
<1>3. \A s \in SUBSET (1..n) : f[s] = ReplayTurn(f, file, base, s)
  BY <1>2 DEF ReplayIter
<1>4. a[0] = base
  BY <1>3 DEF ReplayTurn
<1>5. ASSUME NEW i \in 1..n PROVE a[i] = ReplayOne(file, a[i - 1])
  <2>1. /\ i - 1 \in Nat /\ (i - 1) + 1 = i /\ i - 1 \in 0..n /\ i \in 0..n
        /\ 1..i \in SUBSET (1..n) /\ 1..i # {} /\ i \in 1..i
        /\ (1..i) \ {i} = 1..(i - 1) /\ Max(1..i) = i
    BY UpTo
  <2>4. f[1..i] = ReplayOne(file, f[1..(i - 1)])
    BY <1>3, <2>1 DEF ReplayTurn
  <2> QED BY <2>1, <2>4
<1>6. a[n] = f[1..n]
  OBVIOUS
<1> HIDE DEF a
<1> QED BY <1>1, <1>4, <1>5, <1>6 DEF ReplayTurns

(* What is left of a file from position off on *)
Rest(file, off) == SubSeq(file, off, Len(file))

\* What is behind an offset, element by element.
LEMMA RestIs ==
    ASSUME NEW S, NEW s \in Seq(S), NEW off \in Nat \ {0}, off <= Len(s) + 1
    PROVE  /\ Rest(s, off) \in Seq(S) /\ Len(Rest(s, off)) = Len(s) + 1 - off
           /\ \A i \in 1..(Len(s) + 1 - off) : Rest(s, off)[i] = s[off + i - 1]
<1>1. PICK n \in Nat : n = Len(s)
  OBVIOUS
<1>2. CASE off <= n
  <2>1. off \in 1..(n + 1) /\ n \in off..n /\ n - off + 1 = n + 1 - off /\ off - 1 <= n
    BY <1>1, <1>2
  <2>2. SubSeq(s, off, n) \in Seq(S) /\ Len(SubSeq(s, off, n)) = n - off + 1
        /\ \A i \in 1..(n - off + 1) : SubSeq(s, off, n)[i] = s[off + i - 1]
    BY <1>1, <1>2, <2>1
  <2> QED BY <1>1, <2>1, <2>2 DEF Rest
<1>3. CASE ~(off <= n)
  <2>1. n + 1 - off = 0
    BY <1>1, <1>3
  <2>2. SubSeq(s, off, n) = <<>>
    BY <1>1, <1>3
  <2>3. <<>> \in Seq(S) /\ Len(<<>>) = 0
    OBVIOUS
  <2>4. Rest(s, off) = <<>>
    BY <1>1, <2>2 DEF Rest
  <2>5. Len(Rest(s, off)) = n + 1 - off /\ 1..(n + 1 - off) = {}
    BY <2>1, <2>3, <2>4
  <2> QED BY <1>1, <2>3, <2>4, <2>5
<1> QED BY <1>1, <1>2, <1>3

\* What is appended to the log is behind what was there.
LEMMA RestExtends ==
    ASSUME NEW s \in Seq(Byte), NEW t \in Seq(Byte), NEW off \in Nat \ {0}, off <= Len(s) + 1
    PROVE  /\ Extends(Rest(s \o t, off), Rest(s, off))
           /\ off = Len(s) + 1 => Rest(s, off) = <<>> /\ Rest(s \o t, off) = t
<1> DEFINE u == s \o t
<1>1. /\ u \in Seq(Byte) /\ Len(u) = Len(s) + Len(t)
      /\ \A i \in 1..(Len(s) + Len(t)) : u[i] = IF i <= Len(s) THEN s[i] ELSE t[i - Len(s)]
  BY ConcatProperties
<1>2. PICK m \in Nat : m = Len(s)
  OBVIOUS
<1>3. PICK n \in Nat : n = Len(t)
  OBVIOUS
<1> HIDE DEF u
<1>4. off <= Len(u) + 1 /\ m + n + 1 - off \in Nat /\ m + 1 - off \in Nat
  BY <1>1, <1>2, <1>3
<1>5. /\ Rest(u, off) \in Seq(Byte) /\ Len(Rest(u, off)) = m + n + 1 - off
      /\ \A i \in 1..(m + n + 1 - off) : Rest(u, off)[i] = u[off + i - 1]
  <2>1. /\ Rest(u, off) \in Seq(Byte) /\ Len(Rest(u, off)) = Len(u) + 1 - off
        /\ \A i \in 1..(Len(u) + 1 - off) : Rest(u, off)[i] = u[off + i - 1]
    <3>1. u \in Seq(Byte)
      BY <1>1
    <3> QED BY <1>4, <3>1, RestIs
  <2>2. Len(u) = m + n
    BY <1>1, <1>2, <1>3
  <2> QED BY <2>1, <2>2
<1>6. /\ Rest(s, off) \in Seq(Byte) /\ Len(Rest(s, off)) = m + 1 - off
      /\ \A i \in 1..(m + 1 - off) : Rest(s, off)[i] = s[off + i - 1]
  BY <1>2, RestIs
<1>7. m + 1 - off <= m + n + 1 - off
      /\ \A i \in 1..(m + 1 - off) : i \in 1..(m + n + 1 - off) /\ off + i - 1 \in 1..(m + n) /\ off + i - 1 <= m
  OBVIOUS
<1>8. ASSUME NEW i \in 1..(m + 1 - off) PROVE Rest(u, off)[i] = Rest(s, off)[i]
  <2>1. Rest(u, off)[i] = u[off + i - 1] /\ Rest(s, off)[i] = s[off + i - 1]
    BY <1>5, <1>6, <1>7
  <2>2. u[off + i - 1] = s[off + i - 1]
    BY <1>1, <1>2, <1>3, <1>7
  <2> QED BY <2>1, <2>2
<1>9. Extends(Rest(u, off), Rest(s, off))
  BY <1>5, <1>6, <1>7, <1>8 DEF Extends
<1>10. ASSUME off = Len(s) + 1 PROVE Rest(s, off) = <<>> /\ Rest(u, off) = t
  <2>1. m + 1 - off = 0 /\ m + n + 1 - off = n
        /\ \A i \in 1..n : off + i - 1 \in 1..(m + n) /\ ~(off + i - 1 <= m) /\ off + i - 1 - m = i
    BY <1>2, <1>10
  <2>2. Rest(s, off) = <<>>
    <3>1. Len(Rest(s, off)) = 0
      BY <1>6, <2>1
    <3> QED BY <1>6, <3>1, EmptySeq
  <2>3. ASSUME NEW i \in 1..n PROVE Rest(u, off)[i] = t[i]
    <3>1. Rest(u, off)[i] = u[off + i - 1]
      BY <1>5, <2>1
    <3> DEFINE j == off + i - 1
    <3>2. j \in 1..(m + n) /\ ~(j <= m) /\ j - m = i
      BY <2>1
    <3> HIDE DEF j
    <3>3. u[j] = t[i]
      BY <1>1, <1>2, <1>3, <3>2
    <3> QED BY <3>1, <3>3 DEF j
  <2>4. Len(Rest(u, off)) = n
    BY <1>5, <2>1
  <2>5. Rest(u, off) = t
    <3> DEFINE v == Rest(u, off)
    <3>1. v \in Seq(Byte) /\ Len(v) = Len(t) /\ \A i \in 1..n : v[i] = t[i]
      BY <1>3, <1>5, <2>3, <2>4
    <3> HIDE DEF v
    <3>2. Len(v) = n
      BY <2>4 DEF v
    <3>3. \A i \in 1..Len(v) : v[i] = t[i]
      BY <3>1, <3>2
    <3>4. v = t
      BY <3>1, <3>3, SeqEqual
    <3> QED BY <3>4 DEF v
  <2> QED BY <2>2, <2>5
<1> QED BY <1>9, <1>10 DEF u

(* The state in which the loop of Replay begins *)
Start == [going |-> TRUE, off |-> 1, store |-> <<>>]

At0(off, store) == [going |-> TRUE, off |-> off, store |-> store]

\* Replay runs its loop often enough for every record of the file.
LEMMA ReplayIs ==
    ASSUME NEW file
    PROVE  Replay(file) = Replays(file, Start, Len(file) \div 4).store
BY DEF Replay, Replays, Start

(* The k turns a of Replay take the whole of the file, and leave the store *)
Logged(a, k, file, store) ==
    /\ ReplayTurns(a, file, Start, k)
    /\ \A i \in 0..k : /\ a[i] = At0(a[i].off, a[i].store) /\ a[i].off \in Nat \ {0}
                       /\ 4 * i < a[i].off /\ a[i].off <= Len(file) + 1
    /\ a[k] = At0(Len(file) + 1, store)

\* The empty log replays to the empty store.
LEMMA LoggedEmpty == \E a : Logged(a, 0, <<>>, <<>>)
<1> DEFINE a == [i \in 0..0 |-> Start]
<1>1. a[0] = Start /\ 0 \in 0..0 /\ \A i \in 0..0 : i = 0
  OBVIOUS
<1>2. Start.off = 1 /\ Start.store = <<>> /\ Start = At0(1, <<>>) /\ Len(<<>>) + 1 = 1
  BY DEF Start, At0
<1>3. 1 \in Nat \ {0} /\ 4 * 0 < 1 /\ 1..0 = {}
  OBVIOUS
<1> HIDE DEF a
<1>4. ReplayTurns(a, <<>>, Start, 0)
  BY <1>1, <1>3 DEF ReplayTurns
<1>5. \A i \in 0..0 : a[i] = At0(a[i].off, a[i].store) /\ a[i].off = 1
  BY <1>1, <1>2
<1>6. \A i \in 0..0 : /\ a[i] = At0(a[i].off, a[i].store) /\ a[i].off \in Nat \ {0}
                       /\ 4 * i < a[i].off /\ a[i].off <= Len(<<>>) + 1
  BY <1>1, <1>2, <1>3, <1>5
<1>7. a[0] = At0(Len(<<>>) + 1, <<>>)
  BY <1>1, <1>2
<1> QED BY <1>4, <1>6, <1>7 DEF Logged

\* The state of the loop once it stops.
LEMMA GoingEnds ==
    ASSUME NEW acc, NEW x, NEW y, NEW z, acc = [going |-> x, off |-> y, store |-> z]
    PROVE  [acc EXCEPT !.going = FALSE] = [going |-> FALSE, off |-> y, store |-> z]
<1>1. PICK v : v = FALSE
  OBVIOUS
<1>2. [acc EXCEPT !.going = v] = [going |-> v, off |-> y, store |-> z]
  OBVIOUS
<1> QED BY <1>1, <1>2

(* Behind the last command the loop stays where it is.                       *)
LEMMA ReplayStays ==
    ASSUME NEW file \in Seq(Byte), NEW acc, acc.off = Len(file) + 1,
           acc = [going |-> acc.going, off |-> acc.off, store |-> acc.store]
    PROVE  ReplayOne(file, acc) = [going |-> FALSE, off |-> acc.off, store |-> acc.store]
<1> DEFINE data == SubSeq(file, acc.off, Len(file))
           d == DecodeArrayOfBulk(data)
<1>1. PICK n \in Nat : n = Len(file)
  OBVIOUS
<1>2. n + 1 \in Nat \ {0} /\ n + 1 <= n + 1
  OBVIOUS
<1>3. data = <<>>
  <2>1. Rest(file, Len(file) + 1) = <<>>
    BY <1>1, <1>2, RestExtends, EmptySeq
  <2> QED BY <2>1 DEF Rest
<1>4. d.st # "ok"
  BY <1>3, DecodeIs
<1> HIDE DEF d, data
<1>5. ReplayOne(file, acc) = [acc EXCEPT !.going = FALSE]
  BY <1>4 DEF ReplayOne, d, data
<1>6. [acc EXCEPT !.going = FALSE] = [going |-> FALSE, off |-> acc.off, store |-> acc.store]
  <2> DEFINE x == acc.going
             y == acc.off
             z == acc.store
  <2>1. acc = [going |-> x, off |-> y, store |-> z]
    OBVIOUS
  <2> HIDE DEF x, y, z
  <2>2. [acc EXCEPT !.going = FALSE] = [going |-> FALSE, off |-> y, store |-> z]
    BY <2>1, GoingEnds
  <2> QED BY <2>2 DEF y, z
<1> QED BY <1>5, <1>6

(* A file that is logged replays to the store.                               *)
LEMMA LoggedReplays ==
    ASSUME NEW file \in Seq(Byte), NEW store, NEW a, NEW k \in Nat, Logged(a, k, file, store)
    PROVE  Replay(file) = store
<1>1. PICK l \in Nat : l = Len(file)
  OBVIOUS
<1> DEFINE n == l \div 4
<1>2. n \in Nat /\ 4 * k < l + 1 /\ k <= n
  <2>1. k \in 0..k
    OBVIOUS
  <2>2. 4 * k < a[k].off /\ a[k].off <= l + 1 /\ a[k].off \in Nat
    BY <1>1, <2>1 DEF Logged
  <2>3. 4 * k <= l
    BY <2>2
  <2> QED BY <2>3
<1> HIDE DEF n
<1>3. PICK b : ReplayTurns(b, file, Start, n) /\ Replays(file, Start, n) = b[n]
  BY <1>2, ReplayFold
<1> DEFINE P(i) == i <= k => b[i] = a[i]
           G == {i \in Nat : i <= n => P(i)}
<1>4. 0 \in G
  <2>1. P(0)
    BY <1>3 DEF ReplayTurns, Logged
  <2> QED BY <2>1
<1>5. ASSUME NEW i \in Nat, i \in G PROVE i + 1 \in G
  <2>1. ASSUME i + 1 <= n, i + 1 <= k PROVE b[i + 1] = a[i + 1]
    <3>1. i + 1 \in 1..n /\ i + 1 \in 1..k /\ (i + 1) - 1 = i /\ i <= n /\ i <= k
      BY <1>2, <2>1
    <3>2. b[i + 1] = ReplayOne(file, b[i]) /\ a[i + 1] = ReplayOne(file, a[i])
      BY <1>3, <3>1 DEF ReplayTurns, Logged
    <3> QED BY <1>5, <3>1, <3>2
  <2>2. i + 1 <= n => P(i + 1)
    BY <2>1
  <2> HIDE DEF P
  <2> QED BY <2>2
<1> HIDE DEF G, P
<1>6. k \in G
  BY <1>4, <1>5, SetInduction
<1>7. b[k] = a[k]
  <2>1. P(k)
    BY <1>2, <1>6 DEF G
  <2> QED BY <2>1 DEF P
<1> DEFINE Q(i) == i >= k => b[i] = [going |-> b[i].going, off |-> l + 1, store |-> store]
           H == {i \in Nat : i <= n => Q(i)}
<1>8. b[k] = [going |-> b[k].going, off |-> l + 1, store |-> store]
  <2>1. b[k] = [going |-> TRUE, off |-> l + 1, store |-> store]
    BY <1>1, <1>7 DEF Logged, At0
  <2>2. b[k].going = TRUE
    BY <2>1
  <2> QED BY <2>1, <2>2
<1>9. 0 \in H
  <2>1. 0 >= k => k = 0
    OBVIOUS
  <2>2. Q(0)
    BY <1>8, <2>1
  <2> HIDE DEF Q
  <2> QED BY <2>2
<1>10. ASSUME NEW i \in Nat, i \in H PROVE i + 1 \in H
  <2>1. ASSUME i + 1 <= n, i >= k
        PROVE  b[i + 1] = [going |-> b[i + 1].going, off |-> l + 1, store |-> store]
    <3>1. i + 1 \in 1..n /\ (i + 1) - 1 = i /\ i <= n
      BY <1>2, <2>1
    <3>2. b[i + 1] = ReplayOne(file, b[i])
      BY <1>3, <3>1 DEF ReplayTurns
    <3>3. b[i] = [going |-> b[i].going, off |-> l + 1, store |-> store]
      BY <1>10, <2>1, <3>1
    <3>4. b[i].off = Len(file) + 1 /\ b[i].store = store
      BY <1>1, <3>3
    <3>5. b[i] = [going |-> b[i].going, off |-> b[i].off, store |-> b[i].store]
      BY <1>1, <3>3, <3>4
    <3>6. b[i + 1] = [going |-> FALSE, off |-> b[i].off, store |-> b[i].store]
      BY <3>2, <3>4, <3>5, ReplayStays
    <3>7. b[i + 1].going = FALSE
      BY <3>6
    <3> QED BY <1>1, <3>4, <3>6, <3>7
  <2>2. i + 1 <= n => Q(i + 1)
    <3>1. i + 1 >= k => i >= k \/ i + 1 = k
      BY <1>2
    <3> QED BY <1>8, <2>1, <3>1
  <2> HIDE DEF Q
  <2> QED BY <2>2
<1> HIDE DEF H, Q
<1>11. n \in H
  BY <1>2, <1>9, <1>10, SetInduction
<1>12. b[n].store = store
  <2>1. Q(n) /\ n >= k
    BY <1>2, <1>11 DEF H
  <2>2. b[n] = [going |-> b[n].going, off |-> l + 1, store |-> store]
    BY <2>1 DEF Q
  <2> QED BY <2>2
<1>13. Replay(file) = Replays(file, Start, n).store
  BY <1>1, ReplayIs DEF n
<1> QED BY <1>3, <1>12, <1>13

(* A turn that goes well goes the same way when the file is longer.          *)
LEMMA ReplayStable ==
    ASSUME NEW file \in Seq(Byte), NEW t \in Seq(Byte), NEW off \in Nat \ {0}, NEW store,
           off <= Len(file) + 1, ReplayOne(file, At0(off, store)).going
    PROVE  ReplayOne(file \o t, At0(off, store)) = ReplayOne(file, At0(off, store))
<1> DEFINE acc == At0(off, store)
           longer == file \o t
           d == DecodeArrayOfBulk(SubSeq(file, off, Len(file)))
           e == DecodeArrayOfBulk(SubSeq(longer, off, Len(longer)))
<1>1. acc.off = off /\ acc = [going |-> TRUE, off |-> off, store |-> store]
  BY DEF At0
<1>2. d.st = "ok"
  <2> SUFFICES ASSUME d.st # "ok" PROVE FALSE
    OBVIOUS
  <2> HIDE DEF d
  <2>1. ReplayOne(file, acc) = [acc EXCEPT !.going = FALSE]
    BY <1>1 DEF ReplayOne, d
  <2>2. ReplayOne(file, acc) = [going |-> FALSE, off |-> off, store |-> store]
    BY <1>1, <2>1, GoingEnds
  <2> QED BY <2>2
<1>3. e = d
  <2>1. Extends(Rest(longer, off), Rest(file, off))
    BY RestExtends
  <2>2. DecodeArrayOfBulk(Rest(file, off)).st # "more" =>
            DecodeArrayOfBulk(Rest(longer, off)) = DecodeArrayOfBulk(Rest(file, off))
    BY <2>1, DecodeStable
  <2> QED BY <1>2, <2>2 DEF Rest
<1> HIDE DEF d, e, acc, longer
<1>4. ReplayOne(longer, acc) = ReplayOne(file, acc)
  BY <1>1, <1>3 DEF ReplayOne, d, e
<1> QED BY <1>4 DEF longer, acc

(* A SET or a DEL with a key, as FromTokens makes it of tokens *)
IsWrite(ctx) == /\ ctx.cmd \in {"SET", "DEL"} /\ ctx.key \in Short /\ ctx.key # <<>>
                /\ ctx.cmd = "SET" => ctx.element \in Short

\* The names the server writes are short tokens.
LEMMA LettersAreShort ==
    \A x \in {"S", "D", "k", "o"} : <<x>> \in Short /\ x \in Byte /\ <<x>> # <<>>
<1>1. ASSUME NEW x \in {"S", "D", "k", "o"} PROVE x \in Byte
  BY DEF Byte
<1>2. Half > 3
  BY HalfIs
<1>3. ASSUME NEW x \in Byte PROVE <<x>> \in Short /\ <<x>> # <<>>
  <2>1. <<x>> \in Seq(Byte) /\ Len(<<x>>) = 1
    OBVIOUS
  <2> QED BY <1>2, <2>1, HalfIs DEF Short
<1> QED BY <1>1, <1>3

(* The command that is logged is the one that was carried out.               *)
LEMMA WritesReadBack ==
    ASSUME NEW ctx, IsWrite(ctx)
    PROVE  /\ WriteTokens(ctx) \in Seq(Short) /\ Len(WriteTokens(ctx)) < Half
           /\ FromTokens(WriteTokens(ctx)).key = ctx.key
           /\ \A store : Applied(store, FromTokens(WriteTokens(ctx))) = Applied(store, ctx)
<1> DEFINE t == WriteTokens(ctx)
           r == FromTokens(t)
<1>1. CASE ctx.cmd = "SET"
  <2> DEFINE n == <<"S">>
             k == ctx.key
             v == ctx.element
  <2>1. t = <<n, k, v>>
    BY <1>1 DEF WriteTokens
  <2>2. n \in Short /\ k \in Short /\ v \in Short /\ k # <<>>
    BY <1>1, LettersAreShort DEF IsWrite
  <2>3. ParseCommandType(n) = "SET"
    BY DEF ParseCommandType
  <2> HIDE DEF n, k, v
  <2>4. t \in Seq(Short) /\ Len(t) = 3 /\ t[1] = n /\ t[2] = k /\ t[3] = v /\ t # <<>>
    BY <2>1, <2>2
  <2> HIDE DEF t
  <2>5. Arity["SET"] = {3} /\ "SET" \in HasKey
    BY DEF Arity, HasKey
  <2>6. r.cmd = "SET" /\ r.key = k /\ r.element = v
    BY <2>2, <2>3, <2>4, <2>5 DEF FromTokens
  <2>7. Len(t) < Half
    BY <2>4, HalfIs
  <2> HIDE DEF r
  <2>8. \A store : Applied(store, r) = Applied(store, ctx)
    BY <1>1, <2>6 DEF Applied, k, v
  <2> QED BY <2>4, <2>6, <2>7, <2>8 DEF k, r, t
<1>2. CASE ctx.cmd = "DEL"
  <2> DEFINE n == <<"D">>
             k == ctx.key
  <2>1. t = <<n, k>>
    BY <1>2 DEF WriteTokens
  <2>2. n \in Short /\ k \in Short /\ k # <<>>
    BY <1>2, LettersAreShort DEF IsWrite
  <2>3. ParseCommandType(n) = "DEL"
    BY DEF ParseCommandType
  <2> HIDE DEF n, k
  <2>4. t \in Seq(Short) /\ Len(t) = 2 /\ t[1] = n /\ t[2] = k /\ t # <<>>
    BY <2>1, <2>2
  <2> HIDE DEF t
  <2>5. Arity["DEL"] = {2} /\ "DEL" \in HasKey
    BY DEF Arity, HasKey
  <2>6. r.cmd = "DEL" /\ r.key = k
    BY <2>2, <2>3, <2>4, <2>5 DEF FromTokens
  <2>7. Len(t) < Half
    BY <2>4, HalfIs
  <2> HIDE DEF r
  <2>8. \A store : Applied(store, r) = Applied(store, ctx)
    BY <1>2, <2>6 DEF Applied, k
  <2> QED BY <2>4, <2>6, <2>7, <2>8 DEF k, r, t
<1> QED BY <1>1, <1>2 DEF IsWrite

(* The turn of Replay at the frame of a write that was appended to the file. *)
LEMMA ReplaysAppended ==
    ASSUME NEW file \in Seq(Byte), NEW store, NEW ctx, IsWrite(ctx)
    PROVE  LET frame == EncodeCommand(WriteTokens(ctx))
           IN  /\ frame \in Seq(Byte) /\ Len(frame) \in Nat /\ Len(frame) >= 4
               /\ file \o frame \in Seq(Byte) /\ Len(file \o frame) = Len(file) + Len(frame)
               /\ ReplayOne(file \o frame, At0(Len(file) + 1, store)) =
                      At0(Len(file) + 1 + Len(frame), Applied(store, ctx))
<1> DEFINE t == WriteTokens(ctx)
           frame == EncodeCommand(t)
           longer == file \o frame
<1>1. /\ t \in Seq(Short) /\ Len(t) < Half /\ FromTokens(t).key = ctx.key
      /\ \A st : Applied(st, FromTokens(t)) = Applied(st, ctx)
  BY WritesReadBack
<1> HIDE DEF t
<1>2. /\ frame \in Seq(Byte) /\ Len(frame) >= 4
      /\ DecodeArrayOfBulk(frame) = Acc(t, Len(frame) + 1)
  BY <1>1, DecodesEncoded
<1> HIDE DEF frame
<1>3. longer \in Seq(Byte) /\ Len(longer) = Len(file) + Len(frame) /\ Len(frame) \in Nat
  BY <1>2, ConcatProperties, LenProperties
<1>4. PICK n \in Nat : n = Len(file)
  OBVIOUS
<1>5. PICK m \in Nat : m = Len(frame)
  BY <1>3
<1> DEFINE off == n + 1
           acc == At0(off, store)
           d == DecodeArrayOfBulk(SubSeq(longer, acc.off, Len(longer)))
<1>6. off \in Nat \ {0} /\ off <= n + 1
  OBVIOUS
<1>7. Rest(longer, off) = frame
  BY <1>2, <1>4, <1>6, RestExtends
<1>8. acc.off = off /\ acc.store = store /\ acc.going = TRUE
  BY DEF At0
<1>9. d = Acc(t, m + 1)
  BY <1>2, <1>5, <1>7, <1>8 DEF Rest
<1>10. d.st = "ok" /\ d.pos = m + 1 /\ d.tokens = t
  BY <1>9 DEF Acc
<1>11. ctx.key # <<>>
  BY DEF IsWrite
<1> HIDE DEF d, acc, longer, off
<1>12. ReplayOne(longer, acc) =
          [going |-> TRUE, off |-> acc.off + d.pos - 1, store |-> Applied(acc.store, FromTokens(d.tokens))]
  BY <1>1, <1>8, <1>10, <1>11 DEF ReplayOne, d
<1>13. acc.off + d.pos - 1 = n + 1 + m
  BY <1>8, <1>10 DEF off
<1>14. Applied(acc.store, FromTokens(d.tokens)) = Applied(store, ctx)
  BY <1>1, <1>8, <1>10
<1>15. ReplayOne(longer, acc) = At0(n + 1 + m, Applied(store, ctx))
  BY <1>12, <1>13, <1>14 DEF At0
<1>16. ReplayOne(longer, At0(Len(file) + 1, store)) = At0(Len(file) + 1 + Len(frame), Applied(store, ctx))
  BY <1>4, <1>5, <1>15 DEF acc, off
<1> QED BY <1>2, <1>3, <1>16 DEF longer, frame, t

(* A write that is logged: the file with its frame replays to the new store. *)
LEMMA LoggedAppends ==
    ASSUME NEW file \in Seq(Byte), NEW store, NEW a, NEW k \in Nat, Logged(a, k, file, store),
           NEW ctx, IsWrite(ctx)
    PROVE  \E b : Logged(b, k + 1, file \o EncodeCommand(WriteTokens(ctx)), Applied(store, ctx))
<1> DEFINE frame == EncodeCommand(WriteTokens(ctx))
           longer == file \o frame
           final == Applied(store, ctx)
           last == At0(Len(file) + 1 + Len(frame), final)
           b == [i \in 0..(k + 1) |-> IF i <= k THEN a[i] ELSE last]
<1>1. /\ frame \in Seq(Byte) /\ Len(frame) \in Nat /\ Len(frame) >= 4
      /\ longer \in Seq(Byte) /\ Len(longer) = Len(file) + Len(frame)
      /\ ReplayOne(longer, At0(Len(file) + 1, store)) = last
  BY ReplaysAppended
<1>2. PICK n \in Nat : n = Len(file)
  OBVIOUS
<1>3. PICK m \in Nat : m = Len(frame) /\ m >= 4
  BY <1>1
<1>4. last.off = n + 1 + m /\ last.store = final /\ last = At0(last.off, last.store)
  BY <1>2, <1>3 DEF At0
<1>5. /\ \A i \in 0..k : b[i] = a[i]
      /\ b[k + 1] = last
  <2>1. k + 1 \in 0..(k + 1) /\ ~(k + 1 <= k) /\ \A i \in 0..k : i \in 0..(k + 1) /\ i <= k
    OBVIOUS
  <2> HIDE DEF last
  <2> QED BY <2>1
<1>6. \A i \in 0..k : /\ a[i] = At0(a[i].off, a[i].store) /\ a[i].off \in Nat \ {0}
                      /\ 4 * i < a[i].off /\ a[i].off <= n + 1
  BY <1>2 DEF Logged
<1>7. a[k] = At0(n + 1, store) /\ a[k].off = n + 1
  BY <1>2 DEF Logged, At0
<1>8. a[0] = Start /\ \A i \in 1..k : a[i] = ReplayOne(file, a[i - 1])
  BY DEF Logged, ReplayTurns
<1> HIDE DEF b, last, longer, frame, final
<1>9. ASSUME NEW i \in 1..(k + 1) PROVE b[i] = ReplayOne(longer, b[i - 1])
  <2>1. CASE i \in 1..k
    <3>1. i \in 0..k /\ i - 1 \in 0..k
      BY <2>1
    <3>2. b[i] = a[i] /\ b[i - 1] = a[i - 1] /\ a[i] = ReplayOne(file, a[i - 1])
      BY <1>5, <1>8, <2>1, <3>1
    <3> DEFINE o == a[i - 1].off
               s == a[i - 1].store
    <3>3. a[i - 1] = At0(o, s) /\ o \in Nat \ {0} /\ o <= Len(file) + 1
      BY <1>2, <1>6, <3>1
    <3>4. a[i].going
      <4>1. a[i] = At0(a[i].off, a[i].store)
        BY <1>6, <3>1
      <4> QED BY <4>1 DEF At0
    <3> HIDE DEF o, s
    <3>5. ReplayOne(file, At0(o, s)).going
      BY <3>2, <3>3, <3>4
    <3>6. ReplayOne(longer, At0(o, s)) = ReplayOne(file, At0(o, s))
      BY <1>1, <3>3, <3>5, ReplayStable DEF longer
    <3> QED BY <3>2, <3>3, <3>6
  <2>2. CASE i = k + 1
    <3>1. i - 1 = k /\ k \in 0..k
      BY <2>2
    <3>2. b[i - 1] = At0(n + 1, store) /\ b[i] = last
      BY <1>5, <1>7, <2>2, <3>1
    <3> QED BY <1>1, <1>2, <3>2
  <2>3. i \in 1..k \/ i = k + 1
    OBVIOUS
  <2> QED BY <2>1, <2>2, <2>3
<1>10. b[0] = Start
  BY <1>5, <1>8
<1>11. ReplayTurns(b, longer, Start, k + 1)
  BY <1>9, <1>10 DEF ReplayTurns
<1>12. Len(longer) = n + m
  BY <1>1, <1>2, <1>3
<1>13. ASSUME NEW i \in 0..(k + 1)
       PROVE  /\ b[i] = At0(b[i].off, b[i].store) /\ b[i].off \in Nat \ {0}
              /\ 4 * i < b[i].off /\ b[i].off <= n + m + 1
  <2>1. CASE i \in 0..k
    <3>1. b[i] = a[i] /\ a[i].off \in Nat \ {0} /\ a[i].off <= n + 1 /\ 4 * i < a[i].off
          /\ a[i] = At0(a[i].off, a[i].store)
      BY <1>5, <1>6, <2>1
    <3>2. PICK o \in Nat \ {0} : o = a[i].off /\ o <= n + 1
      BY <3>1
    <3>3. o <= n + m + 1
      BY <3>2
    <3> QED BY <3>1, <3>2, <3>3
  <2>2. CASE i = k + 1
    <3>1. b[i] = last
      BY <1>5, <2>2
    <3>2. 4 * k < n + 1
      <4>1. k \in 0..k
        OBVIOUS
      <4> QED BY <1>6, <1>7, <4>1
    <3>3. n + 1 + m \in Nat \ {0} /\ 4 * (k + 1) < n + 1 + m /\ n + 1 + m <= n + m + 1
      BY <1>3, <3>2
    <3> QED BY <1>4, <2>2, <3>1, <3>3
  <2>3. i \in 0..k \/ i = k + 1
    OBVIOUS
  <2> QED BY <2>1, <2>2, <2>3
<1>14. b[k + 1] = At0(Len(longer) + 1, final)
  <2>1. n + m + 1 = n + 1 + m
    OBVIOUS
  <2> QED BY <1>4, <1>5, <1>12, <2>1
<1>15. Logged(b, k + 1, longer, final)
  BY <1>11, <1>12, <1>13, <1>14 DEF Logged
<1> QED BY <1>15 DEF longer, frame, final

(* FlattenSeq of one more frame.                                             *)
LEMMA FlattenAppends ==
    ASSUME NEW seqs \in Seq(Seq(Byte)), NEW s \in Seq(Byte)
    PROVE  /\ FlattenSeq(seqs) \in Seq(Byte)
           /\ Append(seqs, s) \in Seq(Seq(Byte))
           /\ FlattenSeq(Append(seqs, s)) = FlattenSeq(seqs) \o s
<1> DEFINE more == Append(seqs, s)
<1>1. PICK n \in Nat : n = Len(seqs)
  OBVIOUS
<1>2. /\ DOMAIN seqs = 1..n /\ Len(seqs) = n /\ (n = 0 => seqs = <<>>)
      /\ \A i \in 1..n : seqs[i] \in Seq(Byte)
  BY <1>1, EmptySeq
<1>3. PICK f : /\ Joins(f, seqs, n) /\ FlattenSeq(seqs) = f[n]
               /\ \A i \in 0..n : f[i] \in Seq(Byte)
  BY <1>2, FlattenIs, ZenonT(60)
<1>4. more \in Seq(Seq(Byte)) /\ Len(more) = Len(seqs) + 1
      /\ (\A i \in 1..Len(seqs) : more[i] = seqs[i]) /\ more[Len(seqs) + 1] = s
  BY AppendProperties
<1>5. Len(more) = n + 1 /\ (\A i \in 1..n : more[i] = seqs[i]) /\ more[n + 1] = s
  BY <1>1, <1>4
<1> HIDE DEF more
<1>6. n + 1 \in Nat /\ n + 1 # 0 /\ n + 1 \in 1..(n + 1) /\ n \in 0..n
  OBVIOUS
<1>7. DOMAIN more = 1..(n + 1) /\ \A i \in 1..(n + 1) : more[i] \in Seq(Byte)
  BY <1>4, <1>5
<1>8. PICK g : /\ Joins(g, more, n + 1) /\ FlattenSeq(more) = g[n + 1]
               /\ \A i \in 0..(n + 1) : g[i] \in Seq(Byte)
  BY <1>5, <1>6, <1>7, FlattenIs
<1> DEFINE G == {i \in Nat : i <= n => g[i] = f[i]}
<1>9. 0 \in G
  BY <1>3, <1>8 DEF Joins
<1>10. ASSUME NEW i \in Nat, i \in G PROVE i + 1 \in G
  <2>1. ASSUME i + 1 <= n PROVE g[i + 1] = f[i + 1]
    <3>1. i + 1 \in 1..n /\ i + 1 \in 1..(n + 1) /\ (i + 1) - 1 = i /\ i <= n
      BY <2>1
    <3>2. g[i] = f[i] /\ more[i + 1] = seqs[i + 1]
      BY <1>5, <1>10, <3>1
    <3>3. g[i + 1] = g[i] \o more[i + 1] /\ f[i + 1] = f[i] \o seqs[i + 1]
      BY <1>3, <1>8, <3>1 DEF Joins
    <3> QED BY <3>2, <3>3
  <2> QED BY <2>1
<1> HIDE DEF G
<1>11. n \in G
  BY <1>9, <1>10, SetInduction
<1>12. g[n] = f[n]
  BY <1>11 DEF G
<1>13. g[n + 1] = g[n] \o more[n + 1]
  <2>1. (n + 1) - 1 = n
    OBVIOUS
  <2> QED BY <1>6, <1>8, <2>1 DEF Joins
<1> QED BY <1>3, <1>4, <1>5, <1>6, <1>8, <1>12, <1>13 DEF more

-----------------------------------------------------------------------------
(*****************************************************************************)
(* What the dispatchers do to the server and to what has arrived             *)
(*****************************************************************************)

(* What the dispatchers do to the server and to the input of the connection  *)

\* s has the fields of the server
HasFields(s) == \E U : s \in [SrvFields -> U]

\* The servers s and t agree but for the field f
But(s, t, f) == \A g \in SrvFields \ {f} : t[g] = s[g]

\* What has arrived from the peer is not touched
SameInput(c, e) == /\ e.input = c.input /\ e.recvq = c.recvq /\ e.fresh = c.fresh
                   /\ c.closed => e.closed

\* What an update of one field of the server does.
LEMMA FieldIs ==
    ASSUME NEW s, HasFields(s), NEW f \in SrvFields, NEW v
    PROVE  /\ HasFields([s EXCEPT ![f] = v]) /\ [s EXCEPT ![f] = v][f] = v
           /\ But(s, [s EXCEPT ![f] = v], f)
<1>1. PICK U : s \in [SrvFields -> U]
  BY DEF HasFields
<1> DEFINE t == [s EXCEPT ![f] = v]
<1>2. t \in [SrvFields -> U \cup {v}] /\ t[f] = v
  BY <1>1
<1>3. \A g \in SrvFields \ {f} : t[g] = s[g]
  BY <1>1
<1> HIDE DEF t
<1>4. HasFields(t) /\ t[f] = v /\ But(s, t, f)
  BY <1>2, <1>3 DEF HasFields, But
<1> QED BY <1>4 DEF t

\* Close leaves what has arrived.
LEMMA CloseInput ==
    ASSUME NEW c, IsConn(c)
    PROVE  IsConn(Close(c)) /\ SameInput(c, Close(c)) /\ Close(c).closed
<1>1. PICK U : c \in [ConnFields -> U]
  BY DEF IsConn
<1>2. CASE c.closed
  BY <1>2 DEF Close, SameInput
<1>3. CASE ~c.closed
  <2> DEFINE dn == IF c.sending THEN c.done + 1 ELSE c.done
             b == [c EXCEPT !.sending = FALSE, !.rest = <<>>, !.tail = <<>>, !.post = <<>>, !.done = dn]
             e == [b EXCEPT !.closed = TRUE, !.armed = FALSE, !.queued = FALSE]
  <2>1. Close(c) = e
    BY <1>3 DEF Close, ClearSendFileFailed
  <2> HIDE DEF dn
  <2>2. b \in [ConnFields -> U \cup {FALSE, <<>>, dn}]
    BY <1>1
  <2>3. b.input = c.input /\ b.recvq = c.recvq /\ b.fresh = c.fresh
    BY <1>1 DEF ConnFields
  <2> HIDE DEF b
  <2>4. e \in [ConnFields -> (U \cup {FALSE, <<>>, dn}) \cup {TRUE, FALSE}]
    BY <2>2
  <2>5. e.input = b.input /\ e.recvq = b.recvq /\ e.fresh = b.fresh /\ e.closed
    BY <2>2 DEF ConnFields
  <2> HIDE DEF e
  <2> QED BY <2>1, <2>3, <2>4, <2>5 DEF IsConn, SameInput
<1> QED BY <1>2, <1>3

\* A change of the registration leaves what has arrived.
LEMMA ArmedInput ==
    ASSUME NEW c, IsConn(c), NEW out
    PROVE  IsConn(ModEvent(c, out)) /\ SameInput(c, ModEvent(c, out))
<1>1. PICK U : c \in [ConnFields -> U]
  BY DEF IsConn
<1> DEFINE q == c.queued \/ Readable(c) \/ (out /\ Writable(c))
           e == [c EXCEPT !.armed = out, !.queued = q]
<1>2. ModEvent(c, out) = e
  BY DEF ModEvent
<1> HIDE DEF q
<1>3. e \in [ConnFields -> U \cup {out, q}]
  BY <1>1
<1>4. e.input = c.input /\ e.recvq = c.recvq /\ e.fresh = c.fresh /\ e.closed = c.closed
  BY <1>1 DEF ConnFields
<1> HIDE DEF e
<1> QED BY <1>2, <1>3, <1>4 DEF IsConn, SameInput

\* Send leaves what has arrived, even where it closes.
LEMMA SendInput ==
    ASSUME NEW c, IsConn(c), NEW d
    PROVE  IsConn(Send(c, d)) /\ SameInput(c, Send(c, d))
<1>1. PICK U : c \in [ConnFields -> U]
  BY DEF IsConn
<1>2. CASE c.closed \/ d = <<>>
  BY <1>2 DEF Send, SameInput
<1>3. CASE ~c.closed /\ d # <<>> /\ c.sending
  <2> DEFINE p == c.post \o d
             l == c.log \o d
             e == [c EXCEPT !.post = p, !.log = l]
  <2>1. Send(c, d) = e
    BY <1>3 DEF Send
  <2> HIDE DEF p, l
  <2>2. e \in [ConnFields -> U \cup {p, l}]
    BY <1>1
  <2>3. e.input = c.input /\ e.recvq = c.recvq /\ e.fresh = c.fresh /\ e.closed = c.closed
    BY <1>1 DEF ConnFields
  <2> HIDE DEF e
  <2> QED BY <2>1, <2>2, <2>3 DEF IsConn, SameInput
<1>4. CASE ~c.closed /\ d # <<>> /\ ~c.sending /\ c.out # <<>>
  <2> DEFINE p == c.out \o d
             l == c.log \o d
             e == [c EXCEPT !.out = p, !.log = l]
  <2>1. Send(c, d) = ModEvent(e, TRUE)
    BY <1>4 DEF Send, EnableWrite
  <2> HIDE DEF p, l
  <2>2. e \in [ConnFields -> U \cup {p, l}]
    BY <1>1
  <2>3. e.input = c.input /\ e.recvq = c.recvq /\ e.fresh = c.fresh /\ e.closed = c.closed
    BY <1>1 DEF ConnFields
  <2> HIDE DEF e
  <2>4. IsConn(ModEvent(e, TRUE)) /\ SameInput(e, ModEvent(e, TRUE))
    BY <2>2, ArmedInput DEF IsConn
  <2> QED BY <2>1, <2>3, <2>4 DEF SameInput
<1>5. CASE ~c.closed /\ d # <<>> /\ ~c.sending /\ c.out = <<>> /\ c.dead
  BY <1>5, CloseInput DEF Send
<1>6. CASE ~c.closed /\ d # <<>> /\ ~c.sending /\ c.out = <<>> /\ ~c.dead
  <2>1. Send(c, d) = Direct(c, d)
    BY <1>6 DEF Send
  <2> DEFINE n == Least(Room(c), Len(d))
             w == c.wire \o SubSeq(d, 1, n)
             o == SubSeq(d, n + 1, Len(d))
             l == c.log \o d
             a == [c EXCEPT !.wire = w, !.out = o, !.log = l]
  <2>2. Direct(c, d) = IF n < Len(d) THEN ModEvent(a, TRUE) ELSE a
    BY DEF Direct, EnableWrite
  <2> HIDE DEF n, w, o, l
  <2>3. /\ a.input = c.input /\ a.recvq = c.recvq /\ a.fresh = c.fresh /\ a.closed = c.closed
        /\ a \in [ConnFields -> U \cup {w, o, l}]
    BY <1>1 DEF ConnFields
  <2> HIDE DEF a
  <2>4. IsConn(a) /\ IsConn(ModEvent(a, TRUE)) /\ SameInput(a, ModEvent(a, TRUE))
    BY <2>3, ArmedInput DEF IsConn
  <2> QED BY <2>1, <2>2, <2>3, <2>4 DEF SameInput
<1> QED BY <1>2, <1>3, <1>4, <1>5, <1>6

\* x is a round with a connection and a server
Whole(x) == IsRound(x) /\ IsConn(x.conn) /\ HasFields(x.srv)

\* What a dispatcher that handles ctx may do to what is stored and logged: the
\* server s becomes t
Mutated(s, t, ctx) ==
    /\ \/ t.store = s.store /\ t.aof = s.aof /\ t.missed = s.missed
       \/ /\ ctx.cmd \in {"SET", "DEL"} /\ ctx.key # <<>> /\ t.store = Applied(s.store, ctx)
          /\ \/ t.missed = TRUE
             \/ t.missed = s.missed /\ t.aof = Append(s.aof, EncodeCommand(WriteTokens(ctx)))
          /\ t.aof = s.aof \/ t.aof = Append(s.aof, EncodeCommand(WriteTokens(ctx)))
    /\ t.image = s.image \/ (t.image = s.store /\ t.store = s.store)

\* The same, and nothing more is dispatched
Changed(s, t, ctx) == t.ran = s.ran /\ Mutated(s, t, ctx)

\* What a dispatcher makes of the round x when it handles ctx
Turned(x, y, ctx) == /\ Whole(y) /\ SameInput(x.conn, y.conn)
                     /\ Changed(x.srv, y.srv, ctx)

\* A reply is one more unit of the batch.
LEMMA RepliedWhole ==
    ASSUME NEW x, Whole(x), NEW u
    PROVE  /\ Whole([x EXCEPT !.batch = Append(@, u)])
           /\ [x EXCEPT !.batch = Append(@, u)].conn = x.conn
           /\ [x EXCEPT !.batch = Append(@, u)].srv = x.srv
<1>1. PICK U : x \in [{"conn", "srv", "batch"} -> U]
  BY DEF Whole, IsRound
<1> DEFINE b == Append(x.batch, u)
           y == [x EXCEPT !.batch = b]
<1>2. y = [x EXCEPT !.batch = Append(@, u)]
  OBVIOUS
<1> HIDE DEF b
<1>3. y \in [{"conn", "srv", "batch"} -> U \cup {b}]
  BY <1>1
<1>4. y.conn = x.conn /\ y.srv = x.srv
  BY <1>1
<1> HIDE DEF y
<1>5. Whole(y)
  BY <1>3, <1>4 DEF Whole, IsRound
<1> QED BY <1>2, <1>4, <1>5

\* A new server state leaves the connection of the round.
LEMMA ServerWhole ==
    ASSUME NEW x, Whole(x), NEW s, HasFields(s)
    PROVE  /\ Whole([x EXCEPT !.srv = s])
           /\ [x EXCEPT !.srv = s].conn = x.conn
           /\ [x EXCEPT !.srv = s].srv = s
<1>1. PICK U : x \in [{"conn", "srv", "batch"} -> U]
  BY DEF Whole, IsRound
<1> DEFINE y == [x EXCEPT !.srv = s]
<1>3. y \in [{"conn", "srv", "batch"} -> U \cup {s}]
  BY <1>1
<1>4. y.conn = x.conn /\ y.srv = s
  BY <1>1
<1> HIDE DEF y
<1>5. Whole(y)
  BY <1>3, <1>4 DEF Whole, IsRound
<1> QED BY <1>4, <1>5 DEF y

\* An update of one field of the server leaves the rest of the round.
LEMMA FieldWhole ==
    ASSUME NEW x, Whole(x), NEW f \in SrvFields, NEW v
    PROVE  /\ Whole([x EXCEPT !.srv[f] = v])
           /\ [x EXCEPT !.srv[f] = v].conn = x.conn
           /\ [x EXCEPT !.srv[f] = v].srv[f] = v
           /\ But(x.srv, [x EXCEPT !.srv[f] = v].srv, f)
<1>1. PICK U : x \in [{"conn", "srv", "batch"} -> U]
  BY DEF Whole, IsRound
<1> DEFINE s == [x.srv EXCEPT ![f] = v]
<1>2. [x EXCEPT !.srv[f] = v] = [x EXCEPT !.srv = s]
  BY <1>1
<1>3. HasFields(s) /\ s[f] = v /\ But(x.srv, s, f)
  BY FieldIs DEF Whole
<1> HIDE DEF s
<1> DEFINE y == [x EXCEPT !.srv = s]
<1>4. Whole(y) /\ y.conn = x.conn /\ y.srv = s
  BY <1>3, ServerWhole
<1>5. [x EXCEPT !.srv[f] = v] = y
  BY <1>2
<1> HIDE DEF y
<1>6. Whole(y) /\ y.conn = x.conn /\ y.srv[f] = v /\ But(x.srv, y.srv, f)
  BY <1>3, <1>4
<1> QED BY <1>5, <1>6

\* FeedEncodedFrame changes the Slave, and sends: no more.
LEMMA FeedWhole ==
    ASSUME NEW x, Whole(x), NEW frame
    PROVE  /\ Whole(FeedEncodedFrame(x, frame))
           /\ SameInput(x.conn, FeedEncodedFrame(x, frame).conn)
           /\ But(x.srv, FeedEncodedFrame(x, frame).srv, "slave")
<1> DEFINE c == Send(x.conn, <<Unit("frame", frame)>>)
           d == IF OutputBuffered(c) > OutputLimit THEN Close(c) ELSE c
           v == IF d.closed THEN "none" ELSE x.srv.slave
           s == [x.srv EXCEPT !.slave = v]
           y == FeedEncodedFrame(x, frame)
<1>1. CASE x.srv.slave # "synced"
  BY <1>1 DEF FeedEncodedFrame, SameInput, But
<1>2. CASE x.srv.slave = "synced"
  <2>1. PICK U : x \in [{"conn", "srv", "batch"} -> U]
    BY DEF Whole, IsRound
  <2>2. y = [x EXCEPT !.conn = d, !.srv.slave = IF d.closed THEN "none" ELSE @]
    BY <1>2 DEF FeedEncodedFrame
  <2>3. IsConn(c) /\ SameInput(x.conn, c)
    BY SendInput DEF Whole
  <2> HIDE DEF c
  <2>4. IsConn(d) /\ SameInput(x.conn, d)
    <3>1. IsConn(Close(c)) /\ SameInput(c, Close(c))
      BY <2>3, CloseInput
    <3> QED BY <2>3, <3>1 DEF SameInput
  <2>5. y.conn = d /\ y.srv = s
    BY <2>1, <2>2
  <2>6. y \in [{"conn", "srv", "batch"} -> U \cup {d, s}]
    BY <2>1, <2>2
  <2> HIDE DEF d, y, v
  <2>7. HasFields(s) /\ But(x.srv, s, "slave")
    <3>1. "slave" \in SrvFields
      BY DEF SrvFields
    <3> QED BY <3>1, FieldIs DEF Whole
  <2> HIDE DEF s
  <2> QED BY <2>4, <2>5, <2>6, <2>7 DEF Whole, IsRound, y
<1> QED BY <1>1, <1>2

\* A reply stores nothing and logs nothing.
LEMMA RepliedTurns ==
    ASSUME NEW x, Whole(x), NEW kind, NEW body, NEW ctx
    PROVE  Turned(x, Replied(x, kind, body), ctx)
<1> DEFINE u == Unit(kind, body)
           y == [x EXCEPT !.batch = Append(@, u)]
<1>1. Replied(x, kind, body) = y
  BY DEF Replied
<1> HIDE DEF u
<1>2. Whole(y) /\ y.conn = x.conn /\ y.srv = x.srv
  BY RepliedWhole
<1> HIDE DEF y
<1> QED BY <1>1, <1>2 DEF Turned, SameInput, Changed, Mutated

\* The child of a save has the store of the moment it was forked in.
LEMMA ForkedIs ==
    ASSUME NEW s, HasFields(s), NEW path
    PROVE  /\ HasFields(Forked(s, path))
           /\ Forked(s, path).image = s.store /\ Forked(s, path).saving = path
           /\ \A g \in SrvFields \ {"saving", "image"} : Forked(s, path)[g] = s[g]
<1> DEFINE a == [s EXCEPT !["saving"] = path]
           st == s.store
           b == [a EXCEPT !["image"] = st]
<1>1. "saving" \in SrvFields /\ "image" \in SrvFields
  BY DEF SrvFields
<1>2. Forked(s, path) = b
  <2>1. PICK U : s \in [SrvFields -> U]
    BY DEF HasFields
  <2> QED BY <2>1 DEF Forked
<1> HIDE DEF st
<1>3. HasFields(a) /\ a["saving"] = path /\ But(s, a, "saving")
  BY <1>1, FieldIs
<1> HIDE DEF a
<1>4. HasFields(b) /\ b["image"] = st /\ But(a, b, "image")
  BY <1>1, <1>3, FieldIs
<1> HIDE DEF b
<1>5. b["saving"] = path
  BY <1>1, <1>3, <1>4 DEF But
<1> QED BY <1>2, <1>3, <1>4, <1>5 DEF But, st

\* A fork stores nothing.
LEMMA ForkedChanges ==
    ASSUME NEW s, HasFields(s), NEW path, NEW ctx
    PROVE  HasFields(Forked(s, path)) /\ Changed(s, Forked(s, path), ctx)
<1> DEFINE t == Forked(s, path)
<1>1. /\ HasFields(t) /\ t.image = s.store
      /\ \A g \in SrvFields \ {"saving", "image"} : t[g] = s[g]
  BY ForkedIs
<1> HIDE DEF t
<1>2. t.ran = s.ran /\ t.store = s.store /\ t.aof = s.aof /\ t.missed = s.missed
  BY <1>1 DEF SrvFields
<1>3. HasFields(t) /\ Changed(s, t, ctx)
  BY <1>1, <1>2 DEF Changed, Mutated
<1> QED BY <1>3 DEF t

\* MutationApply stores the write and logs it, or raises missed.
LEMMA ApplyMutationTurns ==
    ASSUME NEW x, Whole(x), NEW ctx, ctx.cmd \in {"SET", "DEL"}
    PROVE  Turned(x, ApplyMutation(x, ctx), ctx)
<1> DEFINE frame == EncodeCommand(WriteTokens(ctx))
           new   == Applied(x.srv.store, ctx)
           a     == [x EXCEPT !.srv.store = new]
           log   == Append(a.srv.aof, frame)
           f     == [a EXCEPT !.srv.aof = log]
           m     == [a EXCEPT !.srv.missed = TRUE]
           okay  == IF ctx.cmd = "SET" THEN Unit("+OK", <<>>) ELSE Unit(":1", <<>>)
           b     == FeedEncodedFrame(f, frame)
           r     == [b EXCEPT !.batch = Append(@, okay)]
<1>0. PICK U : x \in [{"conn", "srv", "batch"} -> U]
  BY DEF Whole, IsRound
<1>1. \/ ApplyMutation(x, ctx) = Replied(x, "-ERR empty key", <<>>)
      \/ ApplyMutation(x, ctx) = Replied(x, ":0", <<>>)
      \/ ctx.key # <<>> /\ ApplyMutation(x, ctx) = Replied(m, "-ERR aof append failed", <<>>)
      \/ ctx.key # <<>> /\ ApplyMutation(x, ctx) = r
  BY DEF ApplyMutation
<1>2. /\ Turned(x, Replied(x, "-ERR empty key", <<>>), ctx)
      /\ Turned(x, Replied(x, ":0", <<>>), ctx)
  BY RepliedTurns
<1>f. "store" \in SrvFields /\ "aof" \in SrvFields /\ "missed" \in SrvFields
  BY DEF SrvFields
<1> HIDE DEF new, frame, okay
<1>3. Whole(a) /\ a.conn = x.conn /\ a.srv["store"] = new /\ But(x.srv, a.srv, "store")
  BY <1>f, FieldWhole
<1> HIDE DEF a
<1>4. Whole(m) /\ m.conn = a.conn /\ m.srv["missed"] = TRUE /\ But(a.srv, m.srv, "missed")
  <2>1. PICK v : v = TRUE
    OBVIOUS
  <2> DEFINE y == [a EXCEPT !.srv.missed = v]
  <2>2. Whole(y) /\ y.conn = a.conn /\ y.srv["missed"] = v /\ But(a.srv, y.srv, "missed")
    BY <1>3, <1>f, FieldWhole
  <2>3. m = y
    BY <2>1
  <2> HIDE DEF y, m
  <2> QED BY <2>1, <2>2, <2>3
<1> HIDE DEF m, log
<1>5. Whole(f) /\ f.conn = a.conn /\ f.srv["aof"] = log /\ But(a.srv, f.srv, "aof")
  BY <1>3, <1>f, FieldWhole
<1> HIDE DEF f
<1>6. Whole(b) /\ SameInput(f.conn, b.conn) /\ But(f.srv, b.srv, "slave")
  BY <1>5, FeedWhole
<1> HIDE DEF b
<1>7. Whole(r) /\ r.conn = b.conn /\ r.srv = b.srv
  BY <1>6, RepliedWhole
<1> HIDE DEF r
<1>8. ASSUME ctx.key # <<>> PROVE Turned(x, r, ctx)
  <2>1. /\ r.srv["store"] = new /\ r.srv["aof"] = log /\ r.srv["missed"] = x.srv["missed"]
        /\ r.srv["ran"] = x.srv["ran"] /\ r.srv["image"] = x.srv["image"]
    BY <1>3, <1>5, <1>6, <1>7 DEF But, SrvFields
  <2>2. log = Append(x.srv.aof, frame)
    BY <1>3 DEF But, SrvFields, log
  <2>3. SameInput(x.conn, r.conn)
    BY <1>3, <1>5, <1>6, <1>7
  <2> QED BY <1>7, <1>8, <2>1, <2>2, <2>3 DEF Turned, Changed, Mutated, frame, new
<1>9. ASSUME ctx.key # <<>> PROVE Turned(x, Replied(m, "-ERR aof append failed", <<>>), ctx)
  <2> DEFINE u == Unit("-ERR aof append failed", <<>>)
             y == [m EXCEPT !.batch = Append(@, u)]
  <2>1. Replied(m, "-ERR aof append failed", <<>>) = y
    BY DEF Replied
  <2> HIDE DEF u
  <2>2. Whole(y) /\ y.conn = m.conn /\ y.srv = m.srv
    BY <1>4, RepliedWhole
  <2> HIDE DEF y
  <2>3. /\ y.srv["store"] = new /\ y.srv["aof"] = x.srv["aof"] /\ y.srv["missed"] = TRUE
        /\ y.srv["ran"] = x.srv["ran"] /\ y.srv["image"] = x.srv["image"]
    BY <1>3, <1>4, <2>2 DEF But, SrvFields
  <2>4. SameInput(x.conn, y.conn)
    BY <1>3, <1>4, <2>2 DEF SameInput
  <2> QED BY <1>9, <2>1, <2>2, <2>3, <2>4 DEF Turned, Changed, Mutated, new
<1> QED BY <1>1, <1>2, <1>8, <1>9

\* A change of the server alone is one a dispatcher may make.
LEMMA ServerTurns ==
    ASSUME NEW x, Whole(x), NEW s, HasFields(s), NEW ctx, Changed(x.srv, s, ctx)
    PROVE  Turned(x, [x EXCEPT !.srv = s], ctx)
<1> DEFINE y == [x EXCEPT !.srv = s]
<1>1. Whole(y) /\ y.conn = x.conn /\ y.srv = s
  BY ServerWhole
<1> HIDE DEF y
<1>2. Turned(x, y, ctx)
  BY <1>1 DEF Turned, SameInput
<1> QED BY <1>2 DEF y

(* Every dispatcher.                                                         *)
LEMMA DispatchTurns ==
    ASSUME NEW x, Whole(x), NEW ctx
    PROVE  Turned(x, Dispatch(x, ctx), ctx)
<1>1. \A kind, body : Turned(x, Replied(x, kind, body), ctx)
  BY RepliedTurns
<1>2. Turned(x, GetReply(x, ctx), ctx)
  BY <1>1 DEF GetReply
<1>3. Turned(x, AssistReply(x, ctx), ctx)
  BY <1>1 DEF AssistReply
<1>4. Turned(x, SaveReply(x), ctx)
  <2> DEFINE s == Forked(x.srv, "dump")
             y == [x EXCEPT !.srv = s]
             u == Unit("+OK", <<>>)
             z == [y EXCEPT !.batch = Append(@, u)]
  <2>1. HasFields(s) /\ Changed(x.srv, s, ctx)
    BY ForkedChanges DEF Whole
  <2>2. SaveReply(x) = z \/
        SaveReply(x) = Replied(x, "-ERR Background save already in progress", <<>>)
    BY DEF SaveReply, Replied
  <2> HIDE DEF s, u
  <2>3. Whole(y) /\ y.conn = x.conn /\ y.srv = s
    BY <2>1, ServerWhole
  <2> HIDE DEF y
  <2>4. Whole(z) /\ z.conn = y.conn /\ z.srv = y.srv
    BY <2>3, RepliedWhole
  <2> HIDE DEF z
  <2>5. Turned(x, z, ctx)
    BY <2>1, <2>3, <2>4 DEF Turned, SameInput
  <2> QED BY <1>1, <2>2, <2>5
<1>5. Turned(x, PsyncReply(x), ctx)
  <2> DEFINE w == [x.srv EXCEPT !["slave"] = "wait"]
             s == IF w.saving = "no" THEN Forked(w, "fullsync") ELSE w
  <2>1. \/ PsyncReply(x) = Replied(x, "-unknown connection", <<>>)
        \/ PsyncReply(x) = [x EXCEPT !.srv = s]
    BY DEF PsyncReply
  <2>2. HasFields(w) /\ But(x.srv, w, "slave")
    <3>1. "slave" \in SrvFields
      BY DEF SrvFields
    <3> QED BY <3>1, FieldIs DEF Whole
  <2> HIDE DEF w
  <2>3. w.ran = x.srv.ran /\ w.store = x.srv.store /\ w.aof = x.srv.aof
        /\ w.missed = x.srv.missed /\ w.image = x.srv.image
    BY <2>2 DEF But, SrvFields
  <2>4. HasFields(s) /\ Changed(x.srv, s, ctx)
    <3>1. HasFields(Forked(w, "fullsync")) /\ Forked(w, "fullsync").image = w.store
          /\ \A g \in SrvFields \ {"saving", "image"} : Forked(w, "fullsync")[g] = w[g]
      BY <2>2, ForkedIs
    <3> DEFINE t == Forked(w, "fullsync")
    <3>2. t.ran = w.ran /\ t.store = w.store /\ t.aof = w.aof /\ t.missed = w.missed
      BY <3>1 DEF SrvFields
    <3> HIDE DEF t
    <3> QED BY <2>2, <2>3, <3>1, <3>2 DEF Changed, Mutated, t
  <2> HIDE DEF s
  <2>5. Turned(x, [x EXCEPT !.srv = s], ctx)
    BY <2>4, ServerTurns
  <2> QED BY <1>1, <2>1, <2>5
<1>6. ctx.cmd \in {"SET", "DEL"} => Turned(x, ApplyMutation(x, ctx), ctx)
  BY ApplyMutationTurns
<1>7. Turned(x, Registered(x, ctx), ctx)
  BY <1>1, <1>2, <1>3, <1>4, <1>5, <1>6 DEF Registered
<1> QED BY <1>1, <1>7 DEF Dispatch

-----------------------------------------------------------------------------
(*****************************************************************************)
(* The requests of a script and the bytes between them                       *)
(*****************************************************************************)

\* A part of the data is in the data.
LEMMA AtPart ==
    ASSUME NEW S, NEW b \in Seq(S), NEW m \in Nat, NEW n \in Nat, m <= n, n <= Len(b)
    PROVE  /\ SubSeq(b, m + 1, n) \in Seq(S) /\ Len(SubSeq(b, m + 1, n)) = n - m
           /\ At(b, m + 1, SubSeq(b, m + 1, n))
<1> DEFINE f == SubSeq(b, m + 1, n)
<1>1. PICK l \in Nat : l = Len(b)
  OBVIOUS
<1>2. f \in Seq(S) /\ Len(f) = n - m /\ \A i \in 1..(n - m) : f[i] = b[m + i]
  <2>1. CASE m = n
    <3>1. f = <<>> /\ n - m = 0 /\ 1..(n - m) = {}
      BY <2>1
    <3> HIDE DEF f
    <3> QED BY <3>1, EmptySeq
  <2>2. CASE m < n
    <3>1. m + 1 <= n /\ m + 1 \in 1..(l + 1) /\ n \in (m + 1)..l /\ n - (m + 1) + 1 = n - m
      BY <1>1, <2>2
    <3>2. f \in Seq(S) /\ Len(f) = n - (m + 1) + 1
          /\ \A i \in 1..(n - (m + 1) + 1) : f[i] = b[m + 1 + i - 1]
      BY <1>1, <3>1
    <3>3. \A i \in 1..(n - m) : m + 1 + i - 1 = m + i
      OBVIOUS
    <3> HIDE DEF f
    <3> QED BY <3>1, <3>2, <3>3
  <2> QED BY <2>1, <2>2
<1> HIDE DEF f
<1>3. m + 1 + (n - m) - 1 <= l /\ \A i \in 1..(n - m) : m + 1 - 1 + i = m + i
  BY <1>1
<1>4. At(b, m + 1, f)
  BY <1>1, <1>2, <1>3 DEF At
<1> QED BY <1>2, <1>4 DEF f

\* Of two sequences at the same place the longer extends the shorter.
LEMMA AtExtends ==
    ASSUME NEW b \in Seq(Byte), NEW p \in Nat \ {0}, NEW s \in Seq(Byte), NEW t \in Seq(Byte),
           At(b, p, s), At(b, p, t), Len(t) <= Len(s)
    PROVE  Extends(s, t)
<1>1. PICK m \in Nat : m = Len(s)
  OBVIOUS
<1>2. PICK n \in Nat : n = Len(t)
  OBVIOUS
<1>3. \A i \in 1..n : i \in 1..m
  BY <1>1, <1>2
<1>4. \A i \in 1..n : s[i] = t[i]
  BY <1>1, <1>2, <1>3 DEF At
<1> QED BY <1>2, <1>4 DEF Extends

\* What is in the data can be cut in two.
LEMMA AtSplit ==
    ASSUME NEW S, NEW b \in Seq(S), NEW p \in Nat \ {0}, NEW s \in Seq(S), At(b, p, s),
           NEW n \in Nat, n <= Len(s)
    PROVE  /\ SubSeq(s, 1, n) \in Seq(S) /\ Len(SubSeq(s, 1, n)) = n
           /\ SubSeq(s, n + 1, Len(s)) \in Seq(S) /\ Len(SubSeq(s, n + 1, Len(s))) = Len(s) - n
           /\ At(b, p, SubSeq(s, 1, n)) /\ At(b, p + n, SubSeq(s, n + 1, Len(s)))
<1> DEFINE u == SubSeq(s, 1, n)
           v == SubSeq(s, n + 1, Len(s))
<1>1. PICK l \in Nat : l = Len(s)
  OBVIOUS
<1>2. PICK h \in Nat : h = Len(b)
  OBVIOUS
<1>3. u \in Seq(S) /\ Len(u) = n /\ At(s, 1, u)
  <2>1. 0 \in Nat /\ 0 <= n /\ 0 + 1 = 1 /\ n - 0 = n
    OBVIOUS
  <2> QED BY <2>1, AtPart
<1>4. v \in Seq(S) /\ Len(v) = l - n /\ At(s, n + 1, v)
  BY <1>1, AtPart
<1> HIDE DEF u, v
<1>5. p + l - 1 <= h /\ \A i \in 1..l : b[p - 1 + i] = s[i]
  BY <1>1, <1>2 DEF At
<1>6. \A i \in 1..n : 1 - 1 + i = i /\ i \in 1..l
  BY <1>1
<1>7. \A i \in 1..n : u[i] = s[i]
  BY <1>3, <1>6 DEF At
<1>8. p + n - 1 <= h /\ p + n + (l - n) - 1 <= h
  BY <1>1, <1>5
<1>9. At(b, p, u)
  BY <1>2, <1>3, <1>5, <1>6, <1>7, <1>8 DEF At
<1>10. \A i \in 1..(l - n) : n + 1 - 1 + i = n + i /\ n + i \in 1..l /\ p - 1 + (n + i) = p + n - 1 + i
  BY <1>1
<1>11. \A i \in 1..(l - n) : v[i] = s[n + i]
  BY <1>4, <1>10 DEF At
<1>12. \A i \in 1..(l - n) : b[p + n - 1 + i] = v[i]
  BY <1>5, <1>10, <1>11
<1>13. At(b, p + n, v)
  BY <1>2, <1>4, <1>8, <1>12 DEF At
<1> QED BY <1>1, <1>3, <1>4, <1>9, <1>13 DEF u, v

\* One more byte of the data.
LEMMA AtAppend ==
    ASSUME NEW S, NEW b \in Seq(S), NEW p \in Nat \ {0}, NEW s \in Seq(S), At(b, p, s),
           p + Len(s) <= Len(b)
    PROVE  /\ Append(s, b[p + Len(s)]) \in Seq(S)
           /\ Len(Append(s, b[p + Len(s)])) = Len(s) + 1
           /\ At(b, p, Append(s, b[p + Len(s)]))
<1>1. PICK l \in Nat : l = Len(s)
  OBVIOUS
<1>2. PICK h \in Nat : h = Len(b)
  OBVIOUS
<1>3. p + l \in 1..h
  BY <1>1, <1>2
<1> DEFINE x == b[p + l]
           u == Append(s, x)
<1>4. x \in S
  BY <1>2, <1>3
<1> HIDE DEF x
<1>5. u \in Seq(S) /\ Len(u) = Len(s) + 1 /\ (\A i \in 1..Len(s) : u[i] = s[i]) /\ u[Len(s) + 1] = x
  BY <1>4, AppendProperties
<1> HIDE DEF u
<1>6. Len(u) = l + 1 /\ (\A i \in 1..l : u[i] = s[i]) /\ u[l + 1] = x
  BY <1>1, <1>5
<1>7. \A i \in 1..l : b[p - 1 + i] = s[i]
  BY <1>1 DEF At
<1>8. p + (l + 1) - 1 <= h /\ p - 1 + (l + 1) = p + l /\ \A i \in 1..(l + 1) : i \in 1..l \/ i = l + 1
  BY <1>3
<1>9. \A i \in 1..(l + 1) : b[p - 1 + i] = u[i]
  BY <1>6, <1>7, <1>8 DEF x
<1>10. At(b, p, u)
  BY <1>2, <1>6, <1>8, <1>9 DEF At
<1>11. u = Append(s, b[p + Len(s)])
  BY <1>1 DEF u, x
<1> QED BY <1>1, <1>5, <1>10, <1>11

(* The bytes of a script, and where its requests end.                        *)
LEMMA ScriptIs ==
    ASSUME NEW s, IsScript(s)
    PROVE  /\ s.bytes \in Seq(Byte) /\ Len(s.bytes) \in Nat /\ Len(s.reqs) \in Nat
           /\ \A i \in 0..Len(s.reqs) : EndOf(s, i) \in Nat /\ EndOf(s, i) <= Len(s.bytes)
<1>1. s.bytes \in Seq(STRING) /\ s.ends \in Seq(0..Len(s.bytes)) /\ Len(s.ends) = Len(s.reqs)
      /\ s.reqs \in Seq(Seq(Seq(STRING)))
  BY DEF IsScript
<1>2. STRING \subseteq Byte
  BY DEF Byte
<1>3. s.bytes \in Seq(Byte)
  BY <1>1, <1>2, SeqMonotonic
<1>4. PICK n \in Nat : n = Len(s.reqs)
  <2> DEFINE T == Seq(Seq(STRING))
  <2>1. s.reqs \in Seq(T)
    BY <1>1
  <2> HIDE DEF T
  <2> QED BY <2>1, LenProperties
<1>5. PICK l \in Nat : l = Len(s.bytes)
  BY <1>3
<1>6. \A i \in 1..n : s.ends[i] \in 0..l
  <2> DEFINE e == s.ends
             R == 0..l
  <2>1. e \in Seq(R) /\ Len(e) = n
    BY <1>1, <1>4, <1>5
  <2> HIDE DEF e, R
  <2>2. \A i \in 1..n : e[i] \in R
    BY <2>1
  <2> QED BY <2>2 DEF e, R
<1>7. ASSUME NEW i \in 0..n PROVE EndOf(s, i) \in Nat /\ EndOf(s, i) <= l
  <2>1. CASE i = 0
    BY <2>1 DEF EndOf
  <2>2. CASE i # 0
    <3>1. i \in 1..n
      BY <2>2
    <3>2. EndOf(s, i) \in 0..l
      BY <1>6, <2>2, <3>1 DEF EndOf
    <3> QED BY <3>2
  <2> QED BY <2>1, <2>2
<1> QED BY <1>3, <1>4, <1>5, <1>7

(* What the decoder makes of a part of the script that begins behind its     *)
(* first k requests: request k + 1, as soon as all of it is there.           *)
LEMMA FrameAt ==
    ASSUME NEW s, IsScript(s), NEW k \in Nat, k <= Len(s.reqs),
           NEW input \in Seq(Byte), At(s.bytes, EndOf(s, k) + 1, input)
    PROVE  LET d == DecodeArrayOfBulk(input)
               there == k < Len(s.reqs) /\ EndOf(s, k + 1) <= EndOf(s, k) + Len(input)
           IN  /\ d.st = "ok" <=> there
               /\ d.st = "ok" => /\ d.tokens = s.reqs[k + 1]
                                 /\ d.pos = EndOf(s, k + 1) - EndOf(s, k) + 1
<1> DEFINE b == s.bytes
           o == EndOf(s, k)
           rest == SubSeq(b, o + 1, Len(b))
           d == DecodeArrayOfBulk(input)
           e == DecodeArrayOfBulk(rest)
<1>1. /\ b \in Seq(Byte) /\ Len(b) \in Nat /\ Len(s.reqs) \in Nat
      /\ \A i \in 0..Len(s.reqs) : EndOf(s, i) \in Nat /\ EndOf(s, i) <= Len(b)
  BY ScriptIs
<1>2. PICK r \in Nat : r = Len(s.reqs)
  BY <1>1
<1>3. PICK l \in Nat : l = Len(b)
  BY <1>1
<1>4. k \in 0..r
  BY <1>2
<1>5. o \in Nat /\ o <= l
  BY <1>1, <1>2, <1>3, <1>4
<1>6. rest \in Seq(Byte) /\ Len(rest) = l - o /\ At(b, o + 1, rest)
  <2> HIDE DEF b, o
  <2> QED BY <1>1, <1>3, <1>5, AtPart
<1>7. PICK m \in Nat : m = Len(input)
  OBVIOUS
<1>8. o + m <= l
  <2>1. o + 1 + m - 1 <= l
    BY <1>3, <1>7 DEF At
  <2> QED BY <1>5, <2>1
<1>9. Extends(rest, input)
  <2>1. m <= l - o /\ o + 1 \in Nat \ {0}
    BY <1>5, <1>8
  <2>2. Len(input) <= Len(rest) /\ At(b, o + 1, input)
    BY <1>6, <1>7, <2>1
  <2> HIDE DEF rest, b, o
  <2> QED BY <1>1, <1>6, <2>1, <2>2, AtExtends
<1>10. /\ d.st \in {"ok", "error", "more"} /\ d.st # "more" => e = d
       /\ d.st = "ok" => GoodAcc(d, input)
  BY <1>9, DecodeStable
<1>11. CASE k = r
  <2>1. e.st # "ok"
    BY <1>2, <1>11 DEF IsScript
  <2>2. d.st # "ok" /\ ~(k < Len(s.reqs))
    BY <1>2, <1>10, <1>11, <2>1
  <2> QED BY <2>2
<1>12. CASE k < r
  <2> DEFINE n == EndOf(s, k + 1)
             frame == SubSeq(b, o + 1, n)
             f == DecodeArrayOfBulk(frame)
  <2>1. k + 1 \in 0..r /\ k + 1 \in 1..r /\ (k + 1) - 1 = k
    BY <1>12
  <2>2. n \in Nat /\ n <= l
    BY <1>1, <1>2, <1>3, <2>1
  <2>3. o < n /\ f = [st |-> "ok", pos |-> n - o + 1, tokens |-> s.reqs[k + 1]]
    BY <1>2, <2>1 DEF IsScript
  <2>4. f.st = "ok" /\ f.pos = n - o + 1 /\ f.tokens = s.reqs[k + 1]
    BY <2>3
  <2>5. frame \in Seq(Byte) /\ Len(frame) = n - o /\ At(b, o + 1, frame)
    <3>1. o <= n
      BY <1>5, <2>2, <2>3
    <3> HIDE DEF b, o, n
    <3> QED BY <1>1, <1>3, <1>5, <2>2, <3>1, AtPart
  <2>6. e = f
    <3>1. n - o <= l - o /\ o + 1 \in Nat \ {0}
      BY <1>5, <2>2
    <3>2. Len(frame) <= Len(rest)
      BY <1>6, <2>5, <3>1
    <3>3. Extends(rest, frame)
      <4> HIDE DEF rest, frame, b, o
      <4> QED BY <1>1, <1>6, <2>5, <3>1, <3>2, AtExtends
    <3>4. f.st # "more"
      BY <2>4
    <3> HIDE DEF rest, frame
    <3> QED BY <3>3, <3>4, DecodeStable
  <2>7. ASSUME d.st = "ok" PROVE d = f /\ n <= o + m
    <3>1. d = f
      BY <1>10, <2>6, <2>7
    <3>2. d.pos <= m + 1
      BY <1>7, <1>10, <2>7 DEF GoodAcc
    <3>3. n - o + 1 <= m + 1
      BY <2>4, <3>1, <3>2
    <3> QED BY <1>5, <2>2, <3>1, <3>3
  <2>8. ASSUME n <= o + m PROVE d = f
    <3>1. n - o <= m /\ o + 1 \in Nat \ {0}
      BY <1>5, <2>2, <2>8
    <3>2. Len(frame) <= Len(input)
      BY <1>7, <2>5, <3>1
    <3>3. Extends(input, frame)
      <4>1. At(b, o + 1, input)
        OBVIOUS
      <4> HIDE DEF frame, b, o
      <4> QED BY <1>1, <2>5, <3>1, <3>2, <4>1, AtExtends
    <3>4. f.st # "more"
      BY <2>4
    <3> HIDE DEF frame
    <3> QED BY <3>3, <3>4, DecodeStable
  <2>9. k < Len(s.reqs)
    BY <1>2, <1>12
  <2> HIDE DEF d, f, n, o
  <2>10. (d.st = "ok" <=> n <= o + m) /\ (d.st = "ok" => d = f)
    BY <2>4, <2>7, <2>8
  <2>11. d.st = "ok" => d.tokens = s.reqs[k + 1] /\ d.pos = n - o + 1
    BY <2>4, <2>10
  <2> QED BY <1>7, <2>9, <2>10, <2>11 DEF d, n, o
<1> QED BY <1>2, <1>11, <1>12

(* The ends of the requests are in order.                                    *)
LEMMA EndsInOrder ==
    ASSUME NEW s, IsScript(s), NEW i \in 0..Len(s.reqs), NEW j \in 0..Len(s.reqs), i <= j
    PROVE  EndOf(s, i) <= EndOf(s, j)
<1>1. /\ Len(s.reqs) \in Nat
      /\ \A x \in 0..Len(s.reqs) : EndOf(s, x) \in Nat
  BY ScriptIs
<1>2. PICK r \in Nat : r = Len(s.reqs)
  BY <1>1
<1> DEFINE P(x) == EndOf(s, i) <= EndOf(s, i + x)
           G == {x \in Nat : i + x <= r => P(x)}
<1>3. 0 \in G
  <2>1. i + 0 = i /\ i \in 0..r
    BY <1>2
  <2>2. P(0)
    BY <1>1, <1>2, <2>1
  <2> QED BY <2>2
<1>4. ASSUME NEW x \in Nat, x \in G PROVE x + 1 \in G
  <2>1. ASSUME i + (x + 1) <= r PROVE P(x + 1)
    <3>1. i + x <= r /\ i + x \in 0..r /\ i + (x + 1) \in 1..r /\ i + (x + 1) \in 0..r
          /\ (i + (x + 1)) - 1 = i + x /\ i \in 0..r
      BY <1>2, <2>1
    <3>2. EndOf(s, i + x) < EndOf(s, i + (x + 1))
      BY <1>2, <3>1 DEF IsScript
    <3>3. EndOf(s, i) \in Nat /\ EndOf(s, i + x) \in Nat /\ EndOf(s, i + (x + 1)) \in Nat
      BY <1>1, <1>2, <3>1
    <3>4. EndOf(s, i) <= EndOf(s, i + x)
      BY <1>4, <3>1
    <3> QED BY <3>2, <3>3, <3>4
  <2> HIDE DEF P
  <2> QED BY <2>1
<1> HIDE DEF G, P
<1>5. Nat \subseteq G
  BY <1>3, <1>4, SetInduction
<1>6. j - i \in Nat /\ i + (j - i) = j /\ j <= r
  BY <1>2
<1>7. P(j - i)
  BY <1>5, <1>6 DEF G
<1> QED BY <1>6, <1>7 DEF P

(* The number of requests that are complete in the first n bytes.            *)
LEMMA CompleteIs ==
    ASSUME IsScript(script), NEW k \in Nat, k <= Len(script.reqs), NEW n \in Nat,
           EndOf(script, k) <= n, k < Len(script.reqs) => n < EndOf(script, k + 1)
    PROVE  Complete(n) = k
<1> DEFINE s == script
           C == {i \in DOMAIN s.ends : s.ends[i] <= n}
<1>1. /\ Len(s.reqs) \in Nat
      /\ \A x \in 0..Len(s.reqs) : EndOf(s, x) \in Nat
  BY ScriptIs
<1>2. PICK r \in Nat : r = Len(s.reqs)
  BY <1>1
<1>3. DOMAIN s.ends = 1..r
  <2> DEFINE e == s.ends
             R == 0..Len(s.bytes)
  <2>1. e \in Seq(R) /\ Len(e) = r
    BY <1>2 DEF IsScript
  <2> HIDE DEF e, R
  <2>2. DOMAIN e = 1..r
    BY <2>1
  <2> QED BY <2>2 DEF e
<1>4. ASSUME NEW i \in 1..r PROVE s.ends[i] <= n <=> i <= k
  <2>1. i \in 0..r /\ k \in 0..r /\ i # 0 /\ s.ends[i] = EndOf(s, i)
    BY <1>2 DEF EndOf
  <2>2. EndOf(s, i) \in Nat /\ EndOf(s, k) \in Nat
    BY <1>1, <1>2, <2>1
  <2>3. CASE i <= k
    <3>1. EndOf(s, i) <= EndOf(s, k)
      BY <1>2, <2>1, <2>3, EndsInOrder
    <3> QED BY <2>1, <2>2, <2>3, <3>1
  <2>4. CASE ~(i <= k)
    <3>1. k + 1 <= i /\ k + 1 \in 0..r /\ k < r
      BY <2>4
    <3>2. EndOf(s, k + 1) \in Nat
      BY <1>1, <1>2, <3>1
    <3>3. EndOf(s, k + 1) <= EndOf(s, i)
      BY <1>2, <2>1, <3>1, EndsInOrder
    <3>4. n < EndOf(s, k + 1)
      BY <1>2, <3>1
    <3> QED BY <2>1, <2>2, <2>4, <3>2, <3>3, <3>4
  <2> QED BY <2>3, <2>4
<1>5. C = 1..k
  <2>1. \A i \in 1..k : i \in 1..r
    BY <1>2
  <2>2. \A i \in C : i \in 1..r /\ i <= k
    BY <1>3, <1>4
  <2>3. \A i \in 1..k : i \in C
    BY <1>3, <1>4, <2>1
  <2> HIDE DEF C
  <2>4. \A i \in C : i \in 1..k
    BY <2>2
  <2> QED BY <2>3, <2>4
<1>6. Cardinality(1..k) = k
  <2>1. Cardinality(1..k) = IF 1 > k THEN 0 ELSE k - 1 + 1
    BY FS_Interval
  <2> QED BY <2>1
<1> QED BY <1>5, <1>6 DEF Complete

\* The requests in ran were cut from the first n bytes of script s; input and
\* recvq are what is behind them
Fed(s, input, recvq, ran, n) ==
    \E k \in Nat :
        /\ k <= Len(s.reqs) /\ k = Len(ran) /\ ran = SubSeq(s.reqs, 1, k)
        /\ input \in Seq(Byte) /\ recvq \in Seq(Byte)
        /\ At(s.bytes, EndOf(s, k) + 1, input)
        /\ At(s.bytes, EndOf(s, k) + Len(input) + 1, recvq)
        /\ EndOf(s, k) + Len(input) + Len(recvq) = n

\* HandleIO has nothing to parse: no data is fresh, and the callback is over
Idle == ~conn.closed /\ ~conn.fresh /\ pc # "callback"

\* What was dispatched, what is in the input and what is on its way are what
\* the client sent; and at rest there is no frame in the input
FedInv == /\ script \in Scripts
          /\ Fed(script, conn.input, conn.recvq, srv.ran, sent)
          /\ Idle => DecodeArrayOfBulk(conn.input).st # "ok"

\* The connection e has read as much as c, and is closed if that is forgotten
Leaves(c, e) == /\ e.input = c.input /\ e.recvq = c.recvq
                /\ e.closed \/ (e.fresh = c.fresh /\ ~c.closed)

\* ClearSendFile after the whole file leaves what has arrived.
LEMMA FileDoneInput ==
    ASSUME NEW c, IsConn(c)
    PROVE  SameInput(c, ClearSendFileDone(c))
<1>1. PICK U : c \in [ConnFields -> U]
  BY DEF IsConn
<1> DEFINE o == c.out \o c.post
           n == c.done + 1
           b == [c EXCEPT !.sending = FALSE, !.rest = <<>>, !.tail = <<>>, !.out = o, !.post = <<>>, !.done = n]
           m == ModEvent(b, TRUE)
           t == c.tail
<1>2. ClearSendFileDone(c) = Send(m, t) \/ ClearSendFileDone(c) = Send(b, t)
  BY DEF ClearSendFileDone, FileCleared, EnableWrite
<1> HIDE DEF o, n, t
<1>3. b \in [ConnFields -> U \cup {FALSE, <<>>, o, n}]
  BY <1>1
<1>4. b.input = c.input /\ b.recvq = c.recvq /\ b.fresh = c.fresh /\ b.closed = c.closed
  BY <1>1 DEF ConnFields
<1> HIDE DEF b
<1>5. IsConn(b) /\ SameInput(c, b)
  BY <1>3, <1>4 DEF IsConn, SameInput
<1>6. IsConn(m) /\ SameInput(b, m)
  BY <1>5, ArmedInput
<1> HIDE DEF m
<1>7. SameInput(b, Send(b, t)) /\ SameInput(m, Send(m, t))
  BY <1>5, <1>6, SendInput
<1> QED BY <1>2, <1>5, <1>6, <1>7 DEF SameInput

\* ClearSendFile after a failure leaves what has arrived.
LEMMA FailedInput ==
    ASSUME NEW c, IsConn(c)
    PROVE  IsConn(ClearSendFileFailed(c)) /\ SameInput(c, ClearSendFileFailed(c))
<1>1. PICK U : c \in [ConnFields -> U]
  BY DEF IsConn
<1> DEFINE n == IF c.sending THEN c.done + 1 ELSE c.done
           b == [c EXCEPT !.sending = FALSE, !.rest = <<>>, !.tail = <<>>, !.post = <<>>, !.done = n]
<1>2. ClearSendFileFailed(c) = b
  BY DEF ClearSendFileFailed
<1> HIDE DEF n
<1>3. b \in [ConnFields -> U \cup {FALSE, <<>>, n}]
  BY <1>1
<1>4. b.input = c.input /\ b.recvq = c.recvq /\ b.fresh = c.fresh /\ b.closed = c.closed
  BY <1>1 DEF ConnFields
<1> HIDE DEF b
<1> QED BY <1>2, <1>3, <1>4 DEF IsConn, SameInput

\* A method that leaves what has arrived leaves what the parser needs.
LEMMA SameLeaves ==
    ASSUME NEW c, NEW e, SameInput(c, e), c.closed \in BOOLEAN, e.closed \in BOOLEAN
    PROVE  Leaves(c, e)
BY DEF SameInput, Leaves

(* The steps of HandleIO but recv().                                         *)
LEMMA LoopLeaves ==
    ASSUME IsConn(conn), conn.closed \in BOOLEAN, conn'.closed \in BOOLEAN, Loop
    PROVE  /\ pc # "callback"
           /\ \/ Recv
              \/ Leaves(conn, conn')
              \/ Leaves([conn EXCEPT !.fresh = FALSE], conn') /\ pc' = "callback" /\ conn.input = conn'.input
                 /\ conn'.recvq = conn.recvq
<1>0. PICK U : conn \in [ConnFields -> U]
  BY DEF IsConn
<1>1. CASE Deliver
  <2>1. conn' = [conn EXCEPT !.queued = FALSE] /\ pc = "wait"
    BY <1>1 DEF Deliver
  <2>2. SameInput(conn, conn')
    BY <1>0, <2>1 DEF ConnFields, SameInput
  <2> QED BY <2>1, <2>2, SameLeaves
<1>2. CASE Recv
  BY <1>2 DEF Recv
<1>3. CASE RecvEnd
  <2> DEFINE d == [conn EXCEPT !.fresh = FALSE]
  <2>1. conn' = Close(d) /\ pc = "read"
    BY <1>3 DEF RecvEnd
  <2>2. d \in [ConnFields -> U \cup {FALSE}] /\ d.input = conn.input /\ d.recvq = conn.recvq
    BY <1>0 DEF ConnFields
  <2> HIDE DEF d
  <2>3. SameInput(d, Close(d)) /\ Close(d).closed
    BY <2>2, CloseInput DEF IsConn
  <2> QED BY <2>1, <2>2, <2>3 DEF SameInput, Leaves
<1>4. CASE RecvAgain
  <2> DEFINE d == [conn EXCEPT !.fresh = FALSE]
  <2>1. pc = "read" /\ (conn' = conn \/ (conn' = d /\ pc' = "callback"))
    BY <1>4 DEF RecvAgain
  <2>2. d.input = conn.input /\ d.recvq = conn.recvq /\ Leaves(d, d) /\ Leaves(conn, conn)
    <3>1. d.input = conn.input /\ d.recvq = conn.recvq /\ d.closed = conn.closed
      BY <1>0 DEF ConnFields
    <3> HIDE DEF d
    <3> QED BY <3>1 DEF Leaves
  <2> HIDE DEF d
  <2> QED BY <2>1, <2>2 DEF d
<1>5. CASE HangUp
  <2>1. conn' = Close(conn) /\ pc = "close"
    BY <1>5 DEF HangUp
  <2> QED BY <2>1, CloseInput, SameLeaves
<1>6. CASE WriteOut
  <2> DEFINE n == Least(Room(conn), Len(conn.out))
             w == conn.wire \o SubSeq(conn.out, 1, n)
             o == SubSeq(conn.out, n + 1, Len(conn.out))
  <2>1. pc = "write" /\ (conn' = conn \/ conn' = [conn EXCEPT !.wire = w, !.out = o])
    BY <1>6 DEF WriteOut
  <2> HIDE DEF w, o
  <2>2. SameInput(conn, conn')
    BY <1>0, <2>1 DEF ConnFields, SameInput
  <2> QED BY <2>1, <2>2, SameLeaves
<1>7. CASE WriteFile
  <2> DEFINE n == Least(Room(conn), Len(conn.rest))
             w == conn.wire \o SubSeq(conn.rest, 1, n)
             o == SubSeq(conn.rest, n + 1, Len(conn.rest))
  <2>1. pc = "write" /\ (conn' = conn \/ conn' = [conn EXCEPT !.wire = w, !.rest = o])
    BY <1>7 DEF WriteFile
  <2> HIDE DEF w, o
  <2>2. SameInput(conn, conn')
    BY <1>0, <2>1 DEF ConnFields, SameInput
  <2> QED BY <2>1, <2>2, SameLeaves
<1>8. CASE WriteFileDone
  <2>1. pc = "write" /\ conn' = ClearSendFileDone(conn)
    BY <1>8 DEF WriteFileDone
  <2> QED BY <2>1, FileDoneInput, SameLeaves
<1>9. CASE WriteDone
  <2>1. pc = "write" /\ (conn' = conn \/ conn' = ModEvent(conn, FALSE))
    BY <1>9 DEF WriteDone, DisableWrite
  <2>2. SameInput(conn, ModEvent(conn, FALSE)) /\ SameInput(conn, conn)
    BY ArmedInput DEF SameInput
  <2> QED BY <2>1, <2>2, SameLeaves
<1>10. CASE WriteFails
  <2> DEFINE d == ClearSendFileFailed(conn)
  <2>1. pc = "write" /\ conn' = Close(d)
    BY <1>10 DEF WriteFails
  <2>2. IsConn(d) /\ SameInput(conn, d)
    BY FailedInput
  <2> HIDE DEF d
  <2>3. SameInput(d, Close(d))
    BY <2>2, CloseInput
  <2>4. SameInput(conn, conn')
    BY <2>1, <2>2, <2>3 DEF SameInput
  <2> QED BY <2>1, <2>4, SameLeaves
<1> QED BY <1>1, <1>2, <1>3, <1>4, <1>5, <1>6, <1>7, <1>8, <1>9, <1>10 DEF Loop

(* Data moves from the socket to input_buffer_.                              *)
LEMMA FedRecv ==
    ASSUME NEW s, IsScript(s), NEW input, NEW recvq, NEW ran, NEW n,
           Fed(s, input, recvq, ran, n), NEW m \in Nat, m <= Len(recvq)
    PROVE  Fed(s, input \o SubSeq(recvq, 1, m), SubSeq(recvq, m + 1, Len(recvq)), ran, n)
<1>1. PICK k \in Nat :
        /\ k <= Len(s.reqs) /\ k = Len(ran) /\ ran = SubSeq(s.reqs, 1, k)
        /\ input \in Seq(Byte) /\ recvq \in Seq(Byte)
        /\ At(s.bytes, EndOf(s, k) + 1, input)
        /\ At(s.bytes, EndOf(s, k) + Len(input) + 1, recvq)
        /\ EndOf(s, k) + Len(input) + Len(recvq) = n
  BY DEF Fed
<1> DEFINE b == s.bytes
           u == SubSeq(recvq, 1, m)
           v == SubSeq(recvq, m + 1, Len(recvq))
           w == input \o u
<1>2. b \in Seq(Byte) /\ k \in 0..Len(s.reqs) /\ EndOf(s, k) \in Nat
  <2>1. Len(s.reqs) \in Nat
    BY ScriptIs
  <2>2. k \in 0..Len(s.reqs)
    BY <1>1, <2>1
  <2> QED BY <2>2, ScriptIs
<1>3. PICK o \in Nat : o = EndOf(s, k)
  BY <1>2
<1>4. PICK i \in Nat : i = Len(input)
  BY <1>1
<1>5. PICK r \in Nat : r = Len(recvq)
  BY <1>1
<1>6. o + i + 1 \in Nat \ {0} /\ o + 1 \in Nat \ {0}
  OBVIOUS
<1> HIDE DEF b
<1>7. At(b, o + 1, input) /\ At(b, o + i + 1, recvq) /\ o + i + r = n
  BY <1>1, <1>3, <1>4, <1>5 DEF b
<1>8. /\ u \in Seq(Byte) /\ Len(u) = m /\ v \in Seq(Byte) /\ Len(v) = r - m
      /\ At(b, o + i + 1, u) /\ At(b, o + i + 1 + m, v)
  <2> DEFINE p == o + i + 1
  <2>1. p \in Nat \ {0} /\ recvq \in Seq(Byte) /\ At(b, p, recvq)
    BY <1>1, <1>6, <1>7
  <2> HIDE DEF p
  <2>2. /\ u \in Seq(Byte) /\ Len(u) = m /\ v \in Seq(Byte) /\ Len(v) = Len(recvq) - m
        /\ At(b, p, u) /\ At(b, p + m, v)
    BY <1>2, <2>1, AtSplit
  <2> HIDE DEF u, v
  <2> QED BY <1>5, <2>2 DEF p
<1> HIDE DEF u, v
<1>9. w \in Seq(Byte) /\ Len(w) = Len(input) + Len(u)
  BY <1>1, <1>8, ConcatProperties, ZenonT(60)
<1>10. Len(w) = i + m
  BY <1>4, <1>8, <1>9
<1>11. At(b, o + 1, w)
  <2>1. o + 1 + i = o + i + 1
    OBVIOUS
  <2>2. At(b, o + 1, input) /\ At(b, o + 1 + Len(input), u)
    BY <1>4, <1>7, <1>8, <2>1
  <2> QED BY <1>1, <1>2, <1>6, <1>8, <2>2, AtConcat
<1> HIDE DEF w
<1>12. o + (i + m) + 1 = o + i + 1 + m /\ o + (i + m) + (r - m) = n
  BY <1>7
<1>13. At(b, o + Len(w) + 1, v) /\ o + Len(w) + Len(v) = n
  BY <1>8, <1>10, <1>12
<1>14. Fed(s, w, v, ran, n)
  BY <1>1, <1>3, <1>8, <1>9, <1>11, <1>13 DEF Fed, b
<1> QED BY <1>14 DEF w, u, v

(* A byte of the script arrives.                                             *)
LEMMA FedArrives ==
    ASSUME NEW s, IsScript(s), NEW input, NEW recvq, NEW ran, NEW n,
           Fed(s, input, recvq, ran, n), n < Len(s.bytes)
    PROVE  Fed(s, input, Append(recvq, s.bytes[n + 1]), ran, n + 1)
<1>1. PICK k \in Nat :
        /\ k <= Len(s.reqs) /\ k = Len(ran) /\ ran = SubSeq(s.reqs, 1, k)
        /\ input \in Seq(Byte) /\ recvq \in Seq(Byte)
        /\ At(s.bytes, EndOf(s, k) + 1, input)
        /\ At(s.bytes, EndOf(s, k) + Len(input) + 1, recvq)
        /\ EndOf(s, k) + Len(input) + Len(recvq) = n
  BY DEF Fed
<1> DEFINE b == s.bytes
<1>2. b \in Seq(Byte) /\ Len(b) \in Nat /\ EndOf(s, k) \in Nat
  <2>1. Len(s.reqs) \in Nat
    BY ScriptIs
  <2>2. k \in 0..Len(s.reqs)
    BY <1>1, <2>1
  <2> QED BY <2>2, ScriptIs
<1>3. PICK o \in Nat : o = EndOf(s, k)
  BY <1>2
<1>4. PICK i \in Nat : i = Len(input)
  BY <1>1
<1>5. PICK r \in Nat : r = Len(recvq)
  BY <1>1
<1>6. PICK l \in Nat : l = Len(b)
  BY <1>2
<1> HIDE DEF b
<1>7. At(b, o + i + 1, recvq) /\ o + i + r = n /\ n < l
  BY <1>1, <1>3, <1>4, <1>5, <1>6 DEF b
<1> DEFINE p == o + i + 1
<1>8. p \in Nat \ {0} /\ p + r <= l /\ p + r = n + 1
  BY <1>7
<1> HIDE DEF p
<1>9. At(b, p, recvq) /\ p + Len(recvq) = n + 1 /\ p + Len(recvq) <= Len(b)
  BY <1>5, <1>6, <1>7, <1>8 DEF p
<1> DEFINE q == Append(recvq, b[n + 1])
<1>10. q \in Seq(Byte) /\ Len(q) = Len(recvq) + 1 /\ At(b, p, q)
  BY <1>1, <1>2, <1>8, <1>9, AtAppend
<1> HIDE DEF q
<1>11. o + i + Len(q) = n + 1
  <2>1. Len(q) = r + 1
    BY <1>5, <1>10
  <2> QED BY <1>7, <2>1
<1>12. At(s.bytes, EndOf(s, k) + Len(input) + 1, q) /\ EndOf(s, k) + Len(input) + Len(q) = n + 1
  BY <1>3, <1>4, <1>10, <1>11, SMTT(40) DEF p, b
<1>13. Fed(s, input, q, ran, n + 1)
  BY <1>1, <1>10, <1>12 DEF Fed
<1> QED BY <1>13 DEF q, b

(* A request is cut off: it is the next one of the script.                   *)
LEMMA FedExecutes ==
    ASSUME NEW s, IsScript(s), NEW input, NEW recvq, NEW ran, NEW n,
           Fed(s, input, recvq, ran, n), DecodeArrayOfBulk(input).st = "ok"
    PROVE  LET d == DecodeArrayOfBulk(input)
           IN  /\ Fed(s, ReadCompleted(input, d.pos - 1), recvq, Append(ran, d.tokens), n)
               /\ input \in Seq(Byte)
<1>1. PICK k \in Nat :
        /\ k <= Len(s.reqs) /\ k = Len(ran) /\ ran = SubSeq(s.reqs, 1, k)
        /\ input \in Seq(Byte) /\ recvq \in Seq(Byte)
        /\ At(s.bytes, EndOf(s, k) + 1, input)
        /\ At(s.bytes, EndOf(s, k) + Len(input) + 1, recvq)
        /\ EndOf(s, k) + Len(input) + Len(recvq) = n
  BY DEF Fed
<1> DEFINE b == s.bytes
           d == DecodeArrayOfBulk(input)
<1>2. b \in Seq(Byte) /\ Len(s.reqs) \in Nat
      /\ \A i \in 0..Len(s.reqs) : EndOf(s, i) \in Nat
  BY ScriptIs
<1>3. /\ k < Len(s.reqs) /\ EndOf(s, k + 1) <= EndOf(s, k) + Len(input)
      /\ d.tokens = s.reqs[k + 1] /\ d.pos = EndOf(s, k + 1) - EndOf(s, k) + 1
  BY <1>1, FrameAt
<1>4. k \in 0..Len(s.reqs) /\ k + 1 \in 0..Len(s.reqs) /\ k + 1 \in 1..Len(s.reqs) /\ (k + 1) - 1 = k
  <2>1. PICK l \in Nat : l = Len(s.reqs)
    BY <1>2
  <2>2. k < l
    BY <1>3, <2>1
  <2>3. k \in 0..l /\ k + 1 \in 0..l /\ k + 1 \in 1..l /\ (k + 1) - 1 = k
    BY <2>2
  <2> QED BY <2>1, <2>3
<1>5. PICK o \in Nat : o = EndOf(s, k)
  BY <1>2, <1>4
<1>6. PICK e \in Nat : e = EndOf(s, k + 1)
  BY <1>2, <1>4
<1>7. o < e
  BY <1>4, <1>5, <1>6 DEF IsScript
<1>8. PICK i \in Nat : i = Len(input)
  BY <1>1
<1> DEFINE m == e - o
           u == ReadCompleted(input, d.pos - 1)
<1>9. m \in Nat /\ m <= i /\ d.pos - 1 = m
  BY <1>3, <1>5, <1>6, <1>7, <1>8
<1>10. u = SubSeq(input, m + 1, Len(input))
  BY <1>9 DEF ReadCompleted
<1> HIDE DEF b, m, u, d
<1>11. u \in Seq(Byte) /\ Len(u) = i - m /\ At(b, o + 1 + m, u)
  <2>1. At(b, o + 1, input) /\ o + 1 \in Nat \ {0}
    BY <1>1, <1>5 DEF b
  <2> QED BY <1>1, <1>2, <1>8, <1>9, <1>10, <2>1, AtSplit, SMTT(40)
<1>12. o + 1 + m = e + 1 /\ o + i + 1 = e + (i - m) + 1
  BY DEF m
<1>13. At(b, e + 1, u) /\ At(b, e + Len(u) + 1, recvq)
  <2>1. At(b, o + i + 1, recvq)
    BY <1>1, <1>5, <1>8 DEF b
  <2> QED BY <1>11, <1>12, <2>1
<1>14. e + Len(u) + Len(recvq) = n
  <2>1. PICK r \in Nat : r = Len(recvq)
    BY <1>1
  <2>2. o + i + r = n
    BY <1>1, <1>5, <1>8, <2>1
  <2>3. e + (i - m) + r = o + i + r
    BY DEF m
  <2> QED BY <1>11, <2>1, <2>2, <2>3
<1> DEFINE more == Append(ran, d.tokens)
<1>15. more = SubSeq(s.reqs, 1, k + 1) /\ k + 1 = Len(more)
  <2> DEFINE q == s.reqs
             T == Seq(Seq(STRING))
  <2>1. q \in Seq(T)
    BY DEF IsScript
  <2>2. ran = SubSeq(q, 1, k) /\ d.tokens = q[k + 1] /\ k + 1 \in 1..Len(q)
    BY <1>1, <1>3, <1>4
  <2> HIDE DEF q, T
  <2>3. Append(SubSeq(q, 1, k), q[k + 1]) = SubSeq(q, 1, k + 1)
    BY <2>1, <2>2
  <2>4. Len(SubSeq(q, 1, k + 1)) = k + 1
    BY <2>1, <2>2, SMTT(40)
  <2> QED BY <2>2, <2>3, <2>4 DEF q
<1> HIDE DEF more
<1>16. Fed(s, u, recvq, more, n)
  <2>1. k + 1 \in Nat /\ k + 1 <= Len(s.reqs)
    BY <1>2, <1>3
  <2>2. /\ At(s.bytes, EndOf(s, k + 1) + 1, u)
        /\ At(s.bytes, EndOf(s, k + 1) + Len(u) + 1, recvq)
        /\ EndOf(s, k + 1) + Len(u) + Len(recvq) = n
    BY <1>6, <1>13, <1>14 DEF b
  <2> QED BY <1>1, <1>11, <1>15, <2>1, <2>2 DEF Fed
<1> QED BY <1>1, <1>16 DEF u, more, d

(* When nothing is left to parse, every complete request was carried out.    *)
LEMMA FedComplete ==
    ASSUME IsScript(script), NEW input, NEW recvq, NEW ran, NEW n,
           Fed(script, input, recvq, ran, n)
    PROVE  /\ IsPrefix(ran, script.reqs)
           /\ DecodeArrayOfBulk(input).st # "ok" => Len(ran) = Complete(n - Len(recvq))
<1> DEFINE s == script
<1>1. PICK k \in Nat :
        /\ k <= Len(s.reqs) /\ k = Len(ran) /\ ran = SubSeq(s.reqs, 1, k)
        /\ input \in Seq(Byte) /\ recvq \in Seq(Byte)
        /\ At(s.bytes, EndOf(s, k) + 1, input)
        /\ At(s.bytes, EndOf(s, k) + Len(input) + 1, recvq)
        /\ EndOf(s, k) + Len(input) + Len(recvq) = n
  BY DEF Fed
<1>2. Len(s.reqs) \in Nat /\ \A i \in 0..Len(s.reqs) : EndOf(s, i) \in Nat
  BY ScriptIs
<1>3. k \in 0..Len(s.reqs)
  BY <1>1, <1>2
<1>4. PICK o \in Nat : o = EndOf(s, k)
  BY <1>2, <1>3
<1>5. PICK i \in Nat : i = Len(input)
  BY <1>1
<1>6. PICK r \in Nat : r = Len(recvq)
  BY <1>1
<1>7. IsPrefix(ran, s.reqs)
  <2> DEFINE q == s.reqs
             T == Seq(Seq(STRING))
  <2>1. q \in Seq(T) /\ k <= Len(q)
    BY <1>1 DEF IsScript
  <2> HIDE DEF q, T
  <2>2. SubSeq(q, 1, k) \in Seq(T) /\ Len(SubSeq(q, 1, k)) = k
    BY <2>1
  <2>3. SubSeq(SubSeq(q, 1, k), 1, k) = SubSeq(q, 1, k)
    BY <2>2, SubSeqFull
  <2>4. ran = SubSeq(q, 1, k) /\ Len(ran) = k
    BY <1>1 DEF q
  <2>5. IsPrefix(ran, q)
    BY <2>1, <2>3, <2>4 DEF IsPrefix
  <2> QED BY <2>5 DEF q
<1>8. ASSUME DecodeArrayOfBulk(input).st # "ok" PROVE Len(ran) = Complete(n - Len(recvq))
  <2>1. n - Len(recvq) = o + i /\ o + i \in Nat /\ o <= o + i
    <3>1. o + i + r = n
      BY <1>1, <1>4, <1>5, <1>6
    <3> QED BY <1>6, <3>1
  <2>2. ~(k < Len(s.reqs) /\ EndOf(s, k + 1) <= EndOf(s, k) + Len(input))
    BY <1>1, <1>8, FrameAt
  <2>3. ASSUME k < Len(s.reqs) PROVE o + i < EndOf(s, k + 1)
    <3>1. k + 1 \in 0..Len(s.reqs)
      BY <1>2, <2>3
    <3>2. EndOf(s, k + 1) \in Nat /\ ~(EndOf(s, k + 1) <= o + i)
      BY <1>2, <1>4, <1>5, <2>2, <2>3, <3>1
    <3> QED BY <3>2
  <2>4. Complete(o + i) = k
    BY <1>1, <1>4, <2>1, <2>3, CompleteIs
  <2> QED BY <1>1, <2>1, <2>4
<1> QED BY <1>7, <1>8

\* What the two invariants say of the types of the connection and the server.
LEMMA SessionTypes ==
    ASSUME IInv, SlaveInv
    PROVE  IsConn(conn) /\ conn.closed \in BOOLEAN /\ HasFields(srv)
<1>1. IsConn(conn) /\ conn.closed \in BOOLEAN
  BY KeptFile DEF IInv
<1>2. HasFields(srv)
  BY DEF SlaveInv, Agreed, IsServer, HasFields
<1> QED BY <1>1, <1>2

(* What a request that is carried out does.                                  *)
LEMMA ExecuteIs ==
    ASSUME IInv, SlaveInv, Execute
    PROVE  LET d == DecodeArrayOfBulk(conn.input)
           IN  /\ d.st = "ok" /\ pc' = "callback" /\ script' = script /\ sent' = sent
               /\ conn'.input = ReadCompleted(conn.input, d.pos - 1)
               /\ conn'.recvq = conn.recvq
               /\ srv'.ran = Append(srv.ran, d.tokens)
               /\ Mutated(srv, srv', FromTokens(d.tokens))
<1> DEFINE d == DecodeArrayOfBulk(conn.input)
           p == TryParse(conn.input)
<1>0. p.st = d.st /\ p.consumed = d.pos - 1 /\ p.tokens = d.tokens /\ p.ctx = FromTokens(d.tokens)
  BY DEF TryParse
<1>1. \E x \in {Dispatch([conn |-> [conn EXCEPT !.input = ReadCompleted(@, p.consumed)],
                          srv |-> [srv EXCEPT !.ran = Append(@, p.tokens)],
                          batch |-> batch], p.ctx)} :
           conn' = x.conn /\ srv' = x.srv
  BY DEF Execute
<1>2. p.st = "ok" /\ pc' = "callback" /\ script' = script /\ sent' = sent
  BY DEF Execute
<1> DEFINE i == ReadCompleted(conn.input, p.consumed)
           z == [conn EXCEPT !.input = i]
           r == Append(srv.ran, p.tokens)
           s == [srv EXCEPT !["ran"] = r]
           y == [conn |-> z, srv |-> s, batch |-> batch]
           x == Dispatch(y, p.ctx)
<1>3. conn' = x.conn /\ srv' = x.srv
  BY <1>1
<1>4. IsConn(conn) /\ HasFields(srv)
  BY SessionTypes
<1> HIDE DEF i, r, p
<1>5. IsConn(z) /\ z.input = i /\ z.recvq = conn.recvq
  <2>1. PICK U : conn \in [ConnFields -> U]
    BY <1>4 DEF IsConn
  <2>2. z \in [ConnFields -> U \cup {i}]
    BY <2>1
  <2>3. z.input = i /\ z.recvq = conn.recvq
    BY <2>1 DEF ConnFields
  <2> HIDE DEF z
  <2> QED BY <2>2, <2>3 DEF IsConn
<1>6. HasFields(s) /\ s["ran"] = r /\ But(srv, s, "ran")
  <2>1. "ran" \in SrvFields
    BY DEF SrvFields
  <2> QED BY <1>4, <2>1, FieldIs
<1> HIDE DEF z, s
<1>7. Whole(y) /\ y.conn = z /\ y.srv = s
  <2>1. y \in [{"conn", "srv", "batch"} -> {z, s, batch}]
    OBVIOUS
  <2>2. y.conn = z /\ y.srv = s
    OBVIOUS
  <2> HIDE DEF y
  <2> QED BY <1>5, <1>6, <2>1, <2>2 DEF Whole, IsRound
<1> HIDE DEF y
<1>8. Turned(y, x, p.ctx)
  BY <1>7, DispatchTurns
<1> HIDE DEF x
<1>9. conn'.input = i /\ conn'.recvq = conn.recvq
  BY <1>3, <1>5, <1>7, <1>8 DEF Turned, SameInput
<1>10. srv'.ran = r /\ Mutated(s, srv', p.ctx)
  BY <1>3, <1>6, <1>7, <1>8 DEF Turned, Changed
<1>11. Mutated(srv, srv', p.ctx)
  <2>1. s.store = srv.store /\ s.aof = srv.aof /\ s.missed = srv.missed /\ s.image = srv.image
    BY <1>6 DEF But, SrvFields
  <2> QED BY <1>10, <2>1 DEF Mutated
<1> QED BY <1>0, <1>2, <1>9, <1>10, <1>11 DEF i, r

\* The write of OtherWrite
OtherCtx == [cmd |-> "SET", key |-> <<"k">>, element |-> <<"o">>]

\* A write of another client leaves what has arrived from this one.
LEMMA OtherWriteIs ==
    ASSUME IInv, SlaveInv, OtherWrite
    PROVE  /\ pc' = pc /\ script' = script /\ sent' = sent
           /\ SameInput(conn, conn') /\ srv'.ran = srv.ran
           /\ Mutated(srv, srv', OtherCtx)
<1> DEFINE y == [conn |-> conn, srv |-> srv, batch |-> <<>>]
           x == ApplyMutation(y, OtherCtx)
<1>1. conn' = x.conn /\ srv' = x.srv /\ pc' = pc /\ script' = script /\ sent' = sent
  BY DEF OtherWrite, OtherCtx
<1>2. IsConn(conn) /\ HasFields(srv)
  BY SessionTypes
<1>3. Whole(y) /\ y.conn = conn /\ y.srv = srv
  <2>1. y \in [{"conn", "srv", "batch"} -> {conn, srv, <<>>}]
    OBVIOUS
  <2>2. y.conn = conn /\ y.srv = srv
    OBVIOUS
  <2> HIDE DEF y
  <2> QED BY <1>2, <2>1, <2>2 DEF Whole, IsRound
<1> HIDE DEF y
<1>4. OtherCtx.cmd \in {"SET", "DEL"}
  BY DEF OtherCtx
<1>5. Turned(y, x, OtherCtx)
  BY <1>3, <1>4, ApplyMutationTurns
<1> HIDE DEF x
<1> QED BY <1>1, <1>3, <1>5 DEF Turned, Changed

\* Nothing is stored, and nothing dispatched; a child may be forked
Steady == /\ srv'.ran = srv.ran /\ srv'.store = srv.store /\ srv'.aof = srv.aof
          /\ srv'.missed = srv.missed
          /\ srv'.image = srv.image \/ srv'.image = srv.store

\* Only the dispatchers of this client and the writes of another one store
\* anything.
LEMMA OtherStepsSteady ==
    ASSUME IInv, SlaveInv, [Next]_vars
    PROVE  Execute \/ OtherWrite \/ Steady
<1>1. HasFields(srv) /\ "slave" \in SrvFields /\ "saving" \in SrvFields /\ "failed" \in SrvFields
  BY SessionTypes DEF SrvFields
<1>2. ASSUME NEW f \in SrvFields \ {"ran", "store", "aof", "missed", "image"}, NEW v,
             srv' = [srv EXCEPT ![f] = v]
      PROVE  Steady
  <2>1. But(srv, srv', f)
    BY <1>1, <1>2, FieldIs
  <2> QED BY <2>1 DEF But, SrvFields, Steady
<1>3. CASE Io \/ ExecuteEnds
  <2>1. SlaveFollows
    BY <1>3 DEF Io, ExecuteEnds
  <2> DEFINE v == IF conn'.closed THEN "none" ELSE IF conn'.done > conn.done THEN "synced" ELSE srv.slave
  <2>2. srv' = [srv EXCEPT !["slave"] = v]
    BY <2>1 DEF SlaveFollows
  <2> HIDE DEF v
  <2> QED BY <1>1, <1>2, <2>2
<1>4. CASE SendRdb \/ FullsyncFails
  <2>1. PICK v : srv' = [srv EXCEPT !.saving = "no", !.slave = v]
    BY <1>4 DEF SendRdb, FullsyncFails
  <2> DEFINE a == [srv EXCEPT !["saving"] = "no"]
             b == [a EXCEPT !["slave"] = v]
  <2>2. HasFields(a) /\ But(srv, a, "saving")
    BY <1>1, FieldIs
  <2>3. srv' = b
    <3>1. PICK U : srv \in [SrvFields -> U]
      BY <1>1 DEF HasFields
    <3> QED BY <2>1, <3>1
  <2> HIDE DEF a
  <2>4. But(a, b, "slave")
    BY <1>1, <2>2, FieldIs
  <2> HIDE DEF b
  <2> QED BY <2>2, <2>3, <2>4 DEF But, SrvFields, Steady
<1>5. CASE AofFails
  <2>1. PICK v : v = TRUE
    OBVIOUS
  <2>2. srv' = [srv EXCEPT !["failed"] = v]
    BY <1>5, <2>1 DEF AofFails
  <2> QED BY <1>1, <1>2, <2>2
<1>6. CASE SaveReaped
  <2>1. srv' = Forked(srv, "fullsync") \/ srv' = [srv EXCEPT !["saving"] = "no"]
    BY <1>6 DEF SaveReaped
  <2>2. CASE srv' = Forked(srv, "fullsync")
    <3>1. srv'.image = srv.store /\ \A g \in SrvFields \ {"saving", "image"} : srv'[g] = srv[g]
      BY <1>1, <2>2, ForkedIs
    <3> QED BY <3>1 DEF SrvFields, Steady
  <2>3. CASE srv' = [srv EXCEPT !["saving"] = "no"]
    BY <1>1, <1>2, <2>3
  <2> QED BY <2>1, <2>2, <2>3
<1>7. CASE ClientSends \/ ClientEnds \/ ClientReads \/ UNCHANGED vars
  <2>1. srv' = srv
    BY <1>7 DEF ClientSends, ClientEnds, ClientReads, vars
  <2> QED BY <2>1 DEF Steady
<1> QED BY <1>3, <1>4, <1>5, <1>6, <1>7 DEF Next

-----------------------------------------------------------------------------

\* FedInv is about what has arrived, what was dispatched and what was sent.
LEMMA FedStays ==
    ASSUME FedInv, conn'.input = conn.input, conn'.recvq = conn.recvq,
           srv'.ran = srv.ran, script' = script, sent' = sent,
           Idle' => DecodeArrayOfBulk(conn.input).st # "ok"
    PROVE  FedInv'
BY DEF FedInv

\* HandleIO moves bytes from the socket to the input, and forgets that data is
\* fresh only once the parser has seen it or the connection is closed.
LEMMA FedIo ==
    ASSUME FedInv, IInv, IInv', SlaveInv, Io, Steady
    PROVE  FedInv'
<1>1. IsConn(conn) /\ conn.closed \in BOOLEAN
  BY SessionTypes
<1>2. conn'.closed \in BOOLEAN
  BY KeptFile DEF IInv
<1>3. Loop /\ script' = script /\ sent' = sent /\ srv'.ran = srv.ran
  BY DEF Io, Steady
<1> DEFINE z == [conn EXCEPT !.fresh = FALSE]
<1>4. pc # "callback" /\ (Recv \/ Leaves(conn, conn') \/ (pc' = "callback" /\ conn.input = conn'.input /\ conn'.recvq = conn.recvq))
  BY <1>1, <1>2, <1>3, LoopLeaves
<1>5. CASE Recv
  <2> DEFINE n == Least(RecvMax, Len(conn.recvq))
             i == conn.input \o SubSeq(conn.recvq, 1, n)
             q == SubSeq(conn.recvq, n + 1, Len(conn.recvq))
  <2>1. conn' = [conn EXCEPT !.input = i, !.recvq = q, !.fresh = TRUE]
    BY <1>5 DEF Recv
  <2>2. Fed(script, conn.input, conn.recvq, srv.ran, sent) /\ IsScript(script)
    BY ScriptsAssumption DEF FedInv
  <2>3. n \in Nat /\ n <= Len(conn.recvq)
    <3>1. PICK k \in Nat : k = Len(conn.recvq)
      BY <2>2 DEF Fed
    <3> QED BY <3>1, TcpConnAssumption DEF Least
  <2> HIDE DEF n
  <2>4. Fed(script, i, q, srv.ran, sent)
    BY <2>2, <2>3, FedRecv
  <2> HIDE DEF i, q
  <2>5. conn'.input = i /\ conn'.recvq = q /\ conn'.fresh = TRUE
    <3>1. PICK U : conn \in [ConnFields -> U]
      BY <1>1 DEF IsConn
    <3> QED BY <2>1, <3>1 DEF ConnFields
  <2> QED BY <1>3, <2>4, <2>5 DEF FedInv, Idle
<1>6. CASE Leaves(conn, conn')
  <2>1. Idle' => Idle
    BY <1>4, <1>6 DEF Leaves, Idle
  <2>2. Idle' => DecodeArrayOfBulk(conn.input).st # "ok"
    BY <2>1 DEF FedInv
  <2> QED BY <1>3, <1>6, <2>2, FedStays DEF Leaves
<1>7. CASE pc' = "callback" /\ conn.input = conn'.input /\ conn'.recvq = conn.recvq
  <2>1. ~Idle'
    BY <1>7 DEF Idle
  <2> QED BY <1>3, <1>7, <2>1, FedStays
<1> QED BY <1>4, <1>5, <1>6, <1>7

\* A request is cut from the front of the input: the frame the parser sees is
\* the next of the script.
LEMMA FedExecute ==
    ASSUME FedInv, IInv, SlaveInv, Execute
    PROVE  FedInv'
<1> DEFINE d == DecodeArrayOfBulk(conn.input)
<1>1. /\ d.st = "ok" /\ pc' = "callback" /\ script' = script /\ sent' = sent
      /\ conn'.input = ReadCompleted(conn.input, d.pos - 1)
      /\ conn'.recvq = conn.recvq
      /\ srv'.ran = Append(srv.ran, d.tokens)
  BY ExecuteIs
<1>2. Fed(script, conn.input, conn.recvq, srv.ran, sent) /\ IsScript(script)
  BY ScriptsAssumption DEF FedInv
<1>3. Fed(script, ReadCompleted(conn.input, d.pos - 1), conn.recvq, Append(srv.ran, d.tokens), sent)
  BY <1>1, <1>2, FedExecutes
<1>4. ~Idle'
  BY <1>1 DEF Idle
<1> HIDE DEF d
<1> QED BY <1>1, <1>3, <1>4 DEF FedInv

\* The callback ends when what is left is no frame.
LEMMA FedExecuteEnds ==
    ASSUME FedInv, IInv, SlaveInv, ExecuteEnds, Steady
    PROVE  FedInv'
<1> DEFINE f == Send(conn, batch)
           e == Send(f, <<Unit("-ERR protocol error", <<>>)>>)
           d == DecodeArrayOfBulk(conn.input)
<1>1. conn' = f \/ conn' = e
  BY DEF ExecuteEnds, CallbackReturns
<1>2. d.st # "ok" /\ script' = script /\ sent' = sent
  <2>1. TryParse(conn.input).st # "ok"
    BY DEF ExecuteEnds
  <2>2. TryParse(conn.input).st = d.st
    BY DEF TryParse
  <2>3. script' = script /\ sent' = sent
    BY DEF ExecuteEnds
  <2> QED BY <2>1, <2>2, <2>3
<1>3. IsConn(f) /\ SameInput(conn, f)
  BY SessionTypes, SendInput
<1> HIDE DEF f
<1>4. SameInput(f, e)
  BY <1>3, SendInput
<1> HIDE DEF e, d
<1>5. conn'.input = conn.input /\ conn'.recvq = conn.recvq
  BY <1>1, <1>3, <1>4 DEF SameInput
<1> QED BY <1>2, <1>5, FedStays DEF Steady, d

\* Steps that neither read nor dispatch.
LEMMA FedOthers ==
    ASSUME FedInv, IInv, IInv', SlaveInv, srv'.ran = srv.ran,
           SendRdb \/ FullsyncFails \/ SaveReaped \/ OtherWrite \/ AofFails \/
           ClientEnds \/ ClientReads \/ UNCHANGED vars
    PROVE  FedInv'
<1>1. IsConn(conn) /\ conn.closed \in BOOLEAN /\ conn'.closed \in BOOLEAN
  BY SessionTypes, KeptFile DEF IInv
<1>2. PICK U : conn \in [ConnFields -> U]
  BY <1>1 DEF IsConn
<1>3. script' = script /\ sent' = sent
  BY DEF SendRdb, FullsyncFails, SaveReaped, OtherWrite, AofFails, ClientEnds, ClientReads, vars
<1>4. pc' = pc \/ pc = "wait"
  BY DEF SendRdb, FullsyncFails, SaveReaped, OtherWrite, AofFails, ClientEnds, ClientReads,
         PeerFin, PeerReset, PeerRead, vars, tcpVars
<1>5. SameInput(conn, conn')
  <2>1. CASE SendRdb
    <3> DEFINE a == Send(conn, <<Unit("+FULLRESYNC", <<>>)>>)
               t == <<Unit("backlog", <<>>)>>
               b == [a EXCEPT !.sending = TRUE, !.rest = RdbFile, !.tail = t,
                               !.files = @ + 1, !.log = @ \o RdbFile]
    <3>1. conn' = a \/ conn' = ModEvent(b, TRUE)
      BY <2>1 DEF SendRdb, BeginSendFile, EnableWrite
    <3>2. IsConn(a) /\ SameInput(conn, a)
      BY <1>1, SendInput
    <3> HIDE DEF a, t
    <3>3. PICK V : a \in [ConnFields -> V]
      BY <3>2 DEF IsConn
    <3>4. b \in [ConnFields -> V \cup {TRUE, RdbFile, t, a.files + 1, a.log \o RdbFile}]
      BY <3>3
    <3>5. b.input = a.input /\ b.recvq = a.recvq /\ b.fresh = a.fresh /\ b.closed = a.closed
      BY <3>3 DEF ConnFields
    <3> HIDE DEF b
    <3>6. SameInput(b, ModEvent(b, TRUE))
      BY <3>4, ArmedInput DEF IsConn
    <3> QED BY <3>1, <3>2, <3>5, <3>6 DEF SameInput
  <2>2. CASE FullsyncFails
    BY <1>1, <2>2, SendInput DEF FullsyncFails
  <2>3. CASE OtherWrite
    BY <2>3, OtherWriteIs
  <2>4. CASE SaveReaped \/ AofFails \/ UNCHANGED vars
    <3>1. conn' = conn
      BY <2>4 DEF SaveReaped, AofFails, vars, tcpVars
    <3> QED BY <3>1 DEF SameInput
  <2>5. CASE ClientEnds
    BY <1>2, <2>5 DEF ClientEnds, PeerFin, PeerReset, ConnFields, SameInput
  <2>6. CASE ClientReads
    <3>1. conn' = Drained(conn)
      BY <2>6 DEF ClientReads, PeerRead
    <3>2. PICK w, q : conn' = [conn EXCEPT !.wire = w, !.queued = q]
      <4> DEFINE d == [conn EXCEPT !.wire = Tail(@)]
      <4>1. conn' = [d EXCEPT !.queued = @ \/ (d.armed /\ Writable(d) /\ ~Writable(conn))]
        BY <3>1 DEF Drained
      <4> QED BY <1>2, <4>1 DEF ConnFields
    <3> QED BY <1>2, <3>2 DEF ConnFields, SameInput
  <2> QED BY <2>1, <2>2, <2>3, <2>4, <2>5, <2>6
<1>6. Idle' => Idle
  BY <1>1, <1>4, <1>5 DEF Idle, SameInput
<1>7. Idle' => DecodeArrayOfBulk(conn.input).st # "ok"
  BY <1>6 DEF FedInv
<1> QED BY <1>3, <1>5, <1>7, FedStays DEF SameInput

\* The client sends the next bytes of its script.
LEMMA FedClientSends ==
    ASSUME FedInv, IInv, SlaveInv, ClientSends
    PROVE  FedInv'
<1> DEFINE b == script.bytes[sent + 1]
           q == Append(conn.recvq, b)
<1>1. /\ sent < Len(script.bytes) /\ sent' = sent + 1 /\ script' = script /\ srv' = srv
      /\ conn' = [conn EXCEPT !.recvq = q, !.queued = TRUE] /\ pc' = pc
  BY DEF ClientSends, Arrive
<1>2. Fed(script, conn.input, conn.recvq, srv.ran, sent) /\ IsScript(script)
  BY ScriptsAssumption DEF FedInv
<1>3. Fed(script, conn.input, q, srv.ran, sent + 1)
  BY <1>1, <1>2, FedArrives
<1> HIDE DEF q
<1>4. conn'.input = conn.input /\ conn'.recvq = q /\ conn'.fresh = conn.fresh /\ conn'.closed = conn.closed
  <2>1. PICK U : conn \in [ConnFields -> U]
    BY SessionTypes DEF IsConn
  <2> QED BY <1>1, <2>1 DEF ConnFields
<1>5. Idle' => Idle
  BY <1>1, <1>4 DEF Idle
<1> QED BY <1>1, <1>3, <1>4, <1>5 DEF FedInv

\* Nothing was sent, and nothing has arrived.
LEMMA InitFedInv == Init => FedInv
<1> SUFFICES ASSUME Init PROVE FedInv
  OBVIOUS
<1>1. script \in Scripts /\ sent = 0 /\ conn.input = <<>> /\ conn.recvq = <<>> /\ srv.ran = <<>>
  BY DEF Init, TcpInit, NewConn, InitSrv
<1>2. IsScript(script)
  BY <1>1, ScriptsAssumption
<1> DEFINE e == <<>>
<1>3. e \in Seq(Byte) /\ Len(e) = 0
  OBVIOUS
<1>4. /\ script.bytes \in Seq(Byte) /\ Len(script.bytes) \in Nat /\ Len(script.reqs) \in Nat
      /\ EndOf(script, 0) = 0
  BY <1>2, ScriptIs DEF EndOf
<1>5. SubSeq(script.reqs, 1, 0) = e
  BY SubSeqEmpty
<1> HIDE DEF e
<1>6. At(script.bytes, 1, e)
  <2>1. 1 + 0 - 1 <= Len(script.bytes) /\ 1..0 = {}
    BY <1>4
  <2> QED BY <1>3, <2>1 DEF At
<1>7. Fed(script, e, e, e, 0)
  <2>1. 0 \in Nat /\ 0 <= Len(script.reqs) /\ 0 + 1 = 1 /\ 0 + 0 + 1 = 1 /\ 0 + 0 + 0 = 0
    BY <1>4
  <2> QED BY <1>3, <1>4, <1>5, <1>6, <2>1 DEF Fed
<1>8. DecodeArrayOfBulk(e).st # "ok"
  <2>1. e = <<>>
    BY DEF e
  <2> QED BY <2>1, DecodeIs
<1> QED BY <1>1, <1>7, <1>8 DEF FedInv, e

\* FedInv is inductive, given the invariants of the connection and the Slave.
LEMMA NextFedInv ==
    FedInv /\ IInv /\ IInv' /\ SlaveInv /\ [Next]_vars => FedInv'
<1> SUFFICES ASSUME FedInv, IInv, IInv', SlaveInv, [Next]_vars PROVE FedInv'
  OBVIOUS
<1>1. Execute \/ OtherWrite \/ Steady
  BY OtherStepsSteady
<1>2. CASE Execute
  BY <1>2, FedExecute
<1>3. CASE OtherWrite
  <2>1. srv'.ran = srv.ran
    BY <1>3, OtherWriteIs
  <2> QED BY <1>3, <2>1, FedOthers
<1>4. CASE Steady
  <2>1. srv'.ran = srv.ran
    BY <1>4 DEF Steady
  <2> QED BY <1>2, <1>3, <1>4, <2>1, FedIo, FedExecuteEnds, FedOthers, FedClientSends DEF Next
<1> QED BY <1>1, <1>2, <1>3, <1>4

\* Where HandleIO is at rest the requests dispatched are those whose frames
\* were sent.
LEMMA FedImplies == FedInv => Framing
<1> SUFFICES ASSUME FedInv PROVE Framing
  OBVIOUS
<1>1. Fed(script, conn.input, conn.recvq, srv.ran, sent) /\ IsScript(script)
  BY ScriptsAssumption DEF FedInv
<1>2. /\ IsPrefix(srv.ran, script.reqs)
      /\ DecodeArrayOfBulk(conn.input).st # "ok" => Len(srv.ran) = Complete(sent - Len(conn.recvq))
  BY <1>1, FedComplete
<1> QED BY <1>2 DEF FedInv, Idle, Framing

\* The invariant of the Slave, for every behaviour.
LEMMA SlaveInvariance == Spec => []SlaveInv
<1>1. Init => SlaveInv
  BY InitSlaveInv
<1>2. SlaveInv /\ IInv /\ IInv' /\ [Next]_vars => SlaveInv'
  BY NextSlaveInv
<1> QED BY <1>1, <1>2, Invariance, PTL DEF Spec

\* The invariant of the input, for every behaviour.
LEMMA FedInvariance == Spec => []FedInv
<1>1. Init => FedInv
  BY InitFedInv
<1>2. FedInv /\ IInv /\ IInv' /\ SlaveInv /\ [Next]_vars => FedInv'
  BY NextFedInv
<1> QED BY <1>1, <1>2, Invariance, SlaveInvariance, PTL DEF Spec

\* The requests that were dispatched are the first ones of what the client
\* sends, in order, each once; and between two events, on an open connection,
\* they are all those whose last byte has arrived, wherever TCP cut the
\* stream: the loop of ProtocolExecutor over the MessageBuffer leaves no whole
\* frame behind and takes no part of one.
THEOREM RequestsAreFramed == Spec => []Framing
<1>1. FedInv => Framing
  BY FedImplies
<1> QED BY <1>1, FedInvariance, PTL

-----------------------------------------------------------------------------
(*****************************************************************************)
(* The log and the store, in every state                                     *)
(*****************************************************************************)

\* A write that FromTokens lets through has a key, and strings the codec encodes
Sound(ctx) == ctx.cmd \in {"SET", "DEL"} /\ ctx.key # <<>> => IsWrite(ctx)

\* FromTokens lets no write without a key through.
LEMMA RequestsAreSound ==
    ASSUME NEW tokens \in Seq(Short)
    PROVE  Sound(FromTokens(tokens))
<1> DEFINE c == FromTokens(tokens)
           cmd == IF tokens = <<>> THEN "UNKNOWN" ELSE ParseCommandType(tokens[1])
           ok == /\ Len(tokens) \in Arity[cmd]
                 /\ cmd \in HasKey => tokens[2] # <<>>
<1> SUFFICES ASSUME c.cmd \in {"SET", "DEL"}, c.key # <<>> PROVE IsWrite(c)
  BY DEF Sound
<1>1. c.cmd = cmd
  BY DEF FromTokens
<1>2. c.key = IF ok /\ cmd \in HasKey THEN tokens[2] ELSE <<>>
  BY DEF FromTokens
<1>3. c.element = IF ok /\ cmd = "SET" THEN tokens[3]
                  ELSE IF ok /\ cmd \in {"PING", "ECHO"} /\ Len(tokens) = 2
                  THEN tokens[2] ELSE <<>>
  BY DEF FromTokens
<1> HIDE DEF c, cmd
<1>4. ok
  BY <1>2
<1>5. c.key = tokens[2] /\ Len(tokens) >= 2
  <2>1. Len(tokens) \in Arity[cmd]
    BY <1>4
  <2>2. Arity["SET"] = {3} /\ Arity["DEL"] = {2}
    BY DEF Arity
  <2>3. Len(tokens) = 3 \/ Len(tokens) = 2
    BY <1>1, <2>1, <2>2
  <2>4. c.key = tokens[2]
    BY <1>2
  <2> QED BY <2>3, <2>4
<1>6. c.key \in Short
  <2>1. PICK n \in Nat : n = Len(tokens)
    OBVIOUS
  <2>2. 2 \in 1..n
    BY <1>5, <2>1
  <2> QED BY <1>5, <2>1, <2>2
<1>7. c.cmd = "SET" => c.element \in Short
  <2> SUFFICES ASSUME c.cmd = "SET" PROVE c.element \in Short
    OBVIOUS
  <2>1. c.element = tokens[3]
    BY <1>1, <1>3, <1>4
  <2>2. Len(tokens) = 3
    <3>1. Arity["SET"] = {3} /\ Len(tokens) \in Arity[cmd]
      BY <1>4 DEF Arity
    <3> QED BY <1>1, <3>1
  <2>3. tokens[3] \in Short
    <3>1. 3 \in 1..Len(tokens)
      BY <2>2
    <3> QED BY <3>1, ElementOfSeq
  <2> QED BY <2>1, <2>3
<1> QED BY <1>6, <1>7 DEF IsWrite, c

\* The write of the other client is one.
LEMMA OtherIsSound == Sound(OtherCtx)
<1>1. OtherCtx.cmd = "SET" /\ OtherCtx.key = <<"k">> /\ OtherCtx.element = <<"o">>
  BY DEF OtherCtx
<1>2. <<"k">> \in Short /\ <<"o">> \in Short
  BY LettersAreShort
<1> QED BY <1>1, <1>2 DEF Sound, IsWrite

(* Every step stores and logs the same write, if any.                        *)
LEMMA StepMutates ==
    ASSUME FedInv, IInv, SlaveInv, [Next]_vars
    PROVE  \E ctx : Sound(ctx) /\ Mutated(srv, srv', ctx)
<1>1. CASE Execute
  <2> DEFINE d == DecodeArrayOfBulk(conn.input)
  <2>1. Mutated(srv, srv', FromTokens(d.tokens))
    BY <1>1, ExecuteIs
  <2>2. conn.input \in Seq(Byte)
    BY DEF FedInv, Fed
  <2>3. Extends(conn.input, conn.input)
    <3>1. PICK n \in Nat : n = Len(conn.input)
      BY <2>2
    <3> QED BY <2>2, <3>1 DEF Extends
  <2>4. d.tokens \in Seq(Short)
    BY <2>3, DecodeStable
  <2> HIDE DEF d
  <2> QED BY <2>1, <2>4, RequestsAreSound
<1>2. CASE OtherWrite
  BY <1>2, OtherWriteIs, OtherIsSound
<1>3. CASE Steady
  <2>1. Mutated(srv, srv', OtherCtx)
    BY <1>3 DEF Steady, Mutated
  <2> QED BY <2>1, OtherIsSound
<1> QED BY <1>1, <1>2, <1>3, OtherStepsSteady

\* The log so far replays, turn by turn, to the store
LogInv == /\ srv.aof \in Seq(Seq(Byte))
          /\ srv.missed \/ \E k \in Nat : \E a : Logged(a, k, FlattenSeq(srv.aof), srv.store)

\* No sequences join to none.
LEMMA FlattenNothing == FlattenSeq(<<>>) = <<>>
<1> DEFINE e == <<>>
<1>1. e \in Seq(Seq(Byte)) /\ Len(e) = 0 /\ DOMAIN e = 1..0 /\ 0 \in Nat /\ 1..0 = {}
  OBVIOUS
<1> HIDE DEF e
<1>2. PICK f : Joins(f, e, 0) /\ FlattenSeq(e) = f[0]
  <2>1. \A i \in 1..0 : e[i] \in Seq(Byte)
    BY <1>1
  <2>2. 0 = 0 => e = <<>>
    BY DEF e
  <2> QED BY <1>1, <2>1, <2>2, FlattenIs
<1> QED BY <1>2 DEF Joins, e

\* The empty log replays to the empty store.
LEMMA InitLogInv == Init => LogInv
<1> SUFFICES ASSUME Init PROVE LogInv
  OBVIOUS
<1>1. srv.aof = <<>> /\ srv.store = <<>>
  BY DEF Init, InitSrv
<1>2. srv.aof \in Seq(Seq(Byte))
  BY <1>1
<1>3. \E k \in Nat : \E a : Logged(a, k, <<>>, <<>>)
  BY LoggedEmpty
<1> QED BY <1>1, <1>2, <1>3, FlattenNothing DEF LogInv

\* LogInv is inductive: a record that is appended is a turn of Replay more.
LEMMA NextLogInv ==
    LogInv /\ FedInv /\ IInv /\ SlaveInv /\ [Next]_vars => LogInv'
<1> SUFFICES ASSUME LogInv, FedInv, IInv, SlaveInv, [Next]_vars PROVE LogInv'
  OBVIOUS
<1>1. PICK ctx : Sound(ctx) /\ Mutated(srv, srv', ctx)
  BY StepMutates
<1>2. CASE srv'.store = srv.store /\ srv'.aof = srv.aof /\ srv'.missed = srv.missed
  BY <1>2 DEF LogInv
<1>3. CASE /\ ctx.cmd \in {"SET", "DEL"} /\ ctx.key # <<>> /\ srv'.store = Applied(srv.store, ctx)
           /\ \/ srv'.missed = TRUE
              \/ srv'.missed = srv.missed /\ srv'.aof = Append(srv.aof, EncodeCommand(WriteTokens(ctx)))
           /\ srv'.aof = srv.aof \/ srv'.aof = Append(srv.aof, EncodeCommand(WriteTokens(ctx)))
  <2> DEFINE frame == EncodeCommand(WriteTokens(ctx))
             file == FlattenSeq(srv.aof)
  <2>1. IsWrite(ctx)
    BY <1>1, <1>3 DEF Sound
  <2>2. frame \in Seq(Byte)
    <3>1. <<>> \in Seq(Byte)
      OBVIOUS
    <3> QED BY <2>1, <3>1, ReplaysAppended
  <2>3. srv.aof \in Seq(Seq(Byte))
    BY DEF LogInv
  <2>4. /\ file \in Seq(Byte)
        /\ Append(srv.aof, frame) \in Seq(Seq(Byte))
        /\ FlattenSeq(Append(srv.aof, frame)) = file \o frame
    BY <2>2, <2>3, FlattenAppends
  <2>5. ASSUME NEW k \in Nat, NEW a, Logged(a, k, file, srv.store)
        PROVE  \E b : Logged(b, k + 1, file \o frame, Applied(srv.store, ctx))
    BY <2>1, <2>4, <2>5, LoggedAppends
  <2> HIDE DEF frame, file
  <2>6. srv'.aof \in Seq(Seq(Byte))
    BY <1>3, <2>3, <2>4 DEF frame
  <2>7. CASE srv'.missed = TRUE
    BY <2>6, <2>7 DEF LogInv
  <2>8. CASE srv'.missed = srv.missed /\ srv'.aof = Append(srv.aof, frame)
    <3>1. CASE srv.missed
      BY <2>6, <2>8, <3>1 DEF LogInv
    <3>2. CASE ~srv.missed
      <4>1. PICK k \in Nat : \E a : Logged(a, k, file, srv.store)
        BY <3>2 DEF LogInv, file
      <4>2. PICK a : Logged(a, k, file, srv.store)
        BY <4>1
      <4>3. PICK b : Logged(b, k + 1, file \o frame, Applied(srv.store, ctx))
        BY <2>5, <4>2
      <4>4. Logged(b, k + 1, FlattenSeq(srv'.aof), srv'.store)
        BY <1>3, <2>4, <2>8, <4>3
      <4>5. k + 1 \in Nat
        OBVIOUS
      <4> QED BY <2>6, <4>4, <4>5 DEF LogInv
    <3> QED BY <3>1, <3>2
  <2> QED BY <1>3, <2>7, <2>8 DEF frame
<1> QED BY <1>1, <1>2, <1>3 DEF Mutated

\* A log that replays turn by turn replays.
LEMMA LogImplies == LogInv => LogReproducesStore
<1> SUFFICES ASSUME LogInv, ~srv.missed PROVE Replay(FlattenSeq(srv.aof)) = srv.store
  BY DEF LogReproducesStore
<1>1. FlattenSeq(srv.aof) \in Seq(Byte)
  <2>1. <<>> \in Seq(Byte) /\ srv.aof \in Seq(Seq(Byte))
    BY DEF LogInv
  <2> QED BY <2>1, FlattenAppends
<1>2. PICK k \in Nat : \E a : Logged(a, k, FlattenSeq(srv.aof), srv.store)
  BY DEF LogInv
<1> QED BY <1>1, <1>2, LoggedReplays

\* As long as the AOF took every frame, WalManager::Replay of the log gives
\* the store, for every script: MutationApply logs each write that changes the
\* store, in that order, and what EncodeWriteCommand wrote decodes to the same
\* write.
THEOREM LogReplaysToStore == Spec => []LogReproducesStore
<1>1. Init => LogInv
  BY InitLogInv
<1>2. LogInv /\ FedInv /\ IInv /\ SlaveInv /\ [Next]_vars => LogInv'
  BY NextLogInv
<1>3. LogInv => LogReproducesStore
  BY LogImplies
<1> QED BY <1>1, <1>2, <1>3, Invariance, SlaveInvariance, FedInvariance, PTL DEF Spec

-----------------------------------------------------------------------------
(*****************************************************************************)
(* The snapshot file (module RdbFormat)                                      *)
(*****************************************************************************)

(* The iteration of MapThenFoldSet over the turns of KvStore::Load *)
EntryTurn(f, file, end, base, s) == IF s = {} THEN base ELSE Entry(file, end, f[s \ {Max(s)}])
EntryIter(f, file, end, base, n) ==
    f = [s \in SUBSET (1..n) |-> EntryTurn(f, file, end, base, s)]

\* The table of the fold of KvStore::Load exists.
LEMMA EntryIterExists ==
    ASSUME NEW file, NEW end, NEW base, NEW n \in Nat
    PROVE  \E f : EntryIter(f, file, end, base, n)
<1> DEFINE G == {m \in Nat : \E f : EntryIter(f, file, end, base, m)}
<1>1. 0 \in G
  <2> DEFINE f == [s \in SUBSET (1..0) |-> base]
  <2>1. \A s \in SUBSET (1..0) : EntryTurn(f, file, end, base, s) = base
    BY DEF EntryTurn
  <2> HIDE DEF EntryTurn
  <2>2. EntryIter(f, file, end, base, 0)
    BY <2>1 DEF EntryIter
  <2> QED BY <2>2
<1>2. ASSUME NEW m \in Nat, m \in G PROVE m + 1 \in G
  <2>1. PICK f : EntryIter(f, file, end, base, m)
    BY <1>2
  <2> DEFINE g == [s \in SUBSET (1..(m + 1)) |->
                      IF m + 1 \in s THEN EntryTurn(f, file, end, base, s) ELSE f[s]]
  <2>2. ASSUME NEW s \in SUBSET (1..m)
        PROVE  g[s] = f[s] /\ f[s] = EntryTurn(f, file, end, base, s)
    <3>1. s \in SUBSET (1..(m + 1)) /\ m + 1 \notin s
      OBVIOUS
    <3>2. g[s] = f[s]
      BY <3>1
    <3> QED BY <2>1, <3>2 DEF EntryIter
  <2> HIDE DEF g
  <2>3. ASSUME NEW s \in SUBSET (1..(m + 1))
        PROVE  g[s] = EntryTurn(g, file, end, base, s)
    <3>1. s \ {Max(s)} \in SUBSET (1..m)
      BY MaxOfUpTo
    <3>2. g[s \ {Max(s)}] = f[s \ {Max(s)}]
      BY <2>2, <3>1
    <3>3. EntryTurn(g, file, end, base, s) = EntryTurn(f, file, end, base, s)
      BY <3>2 DEF EntryTurn
    <3>4. CASE m + 1 \in s
      BY <3>3, <3>4 DEF g
    <3>5. CASE m + 1 \notin s
      <4>1. s \in SUBSET (1..m)
        BY <3>5, MaxOfUpTo
      <4> QED BY <2>2, <3>3, <4>1
    <3> QED BY <3>4, <3>5
  <2>4. g = [s \in SUBSET (1..(m + 1)) |-> g[s]]
    BY DEF g
  <2>5. EntryIter(g, file, end, base, m + 1)
    BY <2>3, <2>4 DEF EntryIter
  <2> QED BY <2>5
<1> HIDE DEF G
<1>3. n \in G
  BY <1>1, <1>2, SetInduction
<1> QED BY <1>3 DEF G

(* The loop of KvStore::Load *)
Entrys(file, end, base, n) ==
    FoldLeft(LAMBDA acc, i : Entry(file, end, acc), base, [i \in 1..n |-> i])

(* The turns of a loop: a[0] is the state before it, a[i] that after turn i  *)
EntryTurns(a, file, end, base, n) ==
    /\ a[0] = base
    /\ \A i \in 1..n : a[i] = Entry(file, end, a[i - 1])

\* The loop of KvStore::Load has a state after each of its n turns.
LEMMA EntryFold ==
    ASSUME NEW file, NEW end, NEW base, NEW n \in Nat
    PROVE  \E a : EntryTurns(a, file, end, base, n) /\ Entrys(file, end, base, n) = a[n]
<1> DEFINE f == CHOOSE f : EntryIter(f, file, end, base, n)
           a == [i \in 0..n |-> f[1..i]]
<1>1. Entrys(file, end, base, n) = f[1..n]
  BY DEF Entrys, FoldLeft, MapThenFoldSet, EntryIter, EntryTurn
<1>2. EntryIter(f, file, end, base, n)
  BY EntryIterExists
<1> HIDE DEF f
<1>3. \A s \in SUBSET (1..n) : f[s] = EntryTurn(f, file, end, base, s)
  BY <1>2 DEF EntryIter
<1>4. a[0] = base
  BY <1>3 DEF EntryTurn
<1>5. ASSUME NEW i \in 1..n PROVE a[i] = Entry(file, end, a[i - 1])
  <2>1. /\ i - 1 \in Nat /\ (i - 1) + 1 = i /\ i - 1 \in 0..n /\ i \in 0..n
        /\ 1..i \in SUBSET (1..n) /\ 1..i # {} /\ i \in 1..i
        /\ (1..i) \ {i} = 1..(i - 1) /\ Max(1..i) = i
    BY UpTo
  <2>4. f[1..i] = Entry(file, end, f[1..(i - 1)])
    BY <1>3, <2>1 DEF EntryTurn
  <2> QED BY <2>1, <2>4
<1>6. a[n] = f[1..n]
  OBVIOUS
<1> HIDE DEF a
<1> QED BY <1>1, <1>4, <1>5, <1>6 DEF EntryTurns

\* SetToSeq names each element of a finite set once.
LEMMA KeysOnce ==
    ASSUME NEW D, IsFiniteSet(D)
    PROVE  /\ Cardinality(D) \in Nat
           /\ SetToSeq(D) \in [1..Cardinality(D) -> D]
           /\ \A i, j \in 1..Cardinality(D) : SetToSeq(D)[i] = SetToSeq(D)[j] => i = j
           /\ \A x \in D : \E i \in 1..Cardinality(D) : SetToSeq(D)[i] = x
<1> DEFINE n == Cardinality(D)
           f == SetToSeq(D)
<1>1. n \in Nat /\ ExistsBijection(1..n, D)
  BY FS_CardinalityType
<1>2. PICK g : g \in Bijection(1..n, D)
  BY <1>1 DEF ExistsBijection
<1>3. g \in [1..n -> D] /\ IsInjective(g)
  BY <1>2 DEF Bijection, Injection
<1>4. f \in [1..n -> D] /\ IsInjective(f)
  BY <1>3 DEF SetToSeq
<1> HIDE DEF f, n
<1>5. f \in Injection(1..n, D)
  BY <1>4 DEF Injection
<1>6. Cardinality(1..n) = n
  BY <1>1, FS_Interval
<1>7. f \in Surjection(1..n, D)
  BY <1>5, <1>6, FS_Injection DEF n
<1>8. \A x \in D : \E i \in 1..n : f[i] = x
  BY <1>7 DEF Surjection
<1>9. \A i, j \in 1..n : f[i] = f[j] => i = j
  BY <1>4 DEF IsInjective
<1> QED BY <1>1, <1>4, <1>8, <1>9 DEF f, n

\* What is in a snapshot file: numbers, characters and a header
Word == Nat \cup Byte \cup {NoHeader} \cup
        [magic : {KMagic}, kv_count : Nat, offset : Nat, length : Nat]

\* A store as the server has it
IsMap(map) == /\ IsFiniteSet(DOMAIN map) /\ map = [k \in DOMAIN map |-> map[k]]
              /\ \A k \in DOMAIN map : /\ k \in Seq(Byte) /\ k # <<>>
                                       /\ map[k] \in Seq(Byte)

\* Numbers, bytes and the missing header are words of a file.
LEMMA WordsAre == Nat \in SUBSET Word /\ Byte \in SUBSET Word /\ NoHeader \in Word
BY DEF Word

\* A string and its length are words of a file.
LEMMA BytesAreWords ==
    ASSUME NEW s \in Seq(Byte)
    PROVE  s \in Seq(Word) /\ <<Len(s)>> \in Seq(Word) /\ Len(<<Len(s)>>) = 1 /\ <<Len(s)>>[1] = Len(s)
<1>1. PICK n \in Nat : n = Len(s)
  OBVIOUS
<1>2. n \in Word
  BY WordsAre
<1>3. s \in Seq(Word)
  BY WordsAre
<1> HIDE DEF Word
<1>4. <<n>> \in Seq(Word) /\ Len(<<n>>) = 1 /\ <<n>>[1] = n
  BY <1>2
<1> QED BY <1>1, <1>3, <1>4

\* The first n words of the file
Truncated(file, n) == SubSeq(file, 1, n)

\* A file that was cut, word by word.
LEMMA TruncatedIs ==
    ASSUME NEW S, NEW file \in Seq(S), NEW n \in Nat, n <= Len(file)
    PROVE  /\ Truncated(file, n) \in Seq(S) /\ Len(Truncated(file, n)) = n
           /\ \A i \in 1..n : Truncated(file, n)[i] = file[i]
           /\ n = Len(file) => Truncated(file, n) = file
<1>0. \A i \in 1..n : file[i] \in S
  OBVIOUS
<1>1. /\ SubSeq(file, 1, n) \in Seq(S)
      /\ Len(SubSeq(file, 1, n)) = IF 1 <= n THEN n - 1 + 1 ELSE 0
      /\ \A i \in 1..(n - 1 + 1) : SubSeq(file, 1, n)[i] = file[1 + i - 1]
  BY <1>0, SubSeqProperties
<1>2. Truncated(file, n) \in Seq(S)
  BY <1>1 DEF Truncated
<1>c. (IF 1 <= n THEN n - 1 + 1 ELSE 0) = n /\ n - 1 + 1 = n /\ \A i \in 1..n : 1 + i - 1 = i
  OBVIOUS
<1>3. Len(Truncated(file, n)) = n
  BY <1>1, <1>c DEF Truncated
<1>4. \A i \in 1..n : Truncated(file, n)[i] = file[i]
  BY <1>1, <1>c DEF Truncated
<1> DEFINE g == Truncated(file, n)
<1> HIDE DEF g
<1>5. ASSUME n = Len(file) PROVE g = file
  <2>1. g \in Seq(S) /\ Len(g) = Len(file) /\ \A i \in 1..Len(g) : g[i] = file[i]
    BY <1>2, <1>3, <1>4, <1>5 DEF g
  <2> QED BY <2>1, SeqEqual
<1> QED BY <1>2, <1>3, <1>4, <1>5 DEF g

\* What lies before the cut is read as it was written.
LEMMA TruncatedPart ==
    ASSUME NEW S, NEW file \in Seq(S), NEW n \in Nat, n <= Len(file), NEW p \in Nat \ {0},
           NEW s \in Seq(S), At(file, p, s), p + Len(s) <= n + 1
    PROVE  SubSeq(Truncated(file, n), p, p + Len(s) - 1) = s
<1> DEFINE g == Truncated(file, n)
           t == SubSeq(g, p, p + Len(s) - 1)
<1>1. PICK l \in Nat : l = Len(s)
  OBVIOUS
<1>2. g \in Seq(S) /\ Len(g) = n /\ \A i \in 1..n : g[i] = file[i]
  BY TruncatedIs
<1> HIDE DEF g
<1>3. CASE l = 0
  <2>1. s = <<>>
    BY <1>1, <1>3, EmptySeq
  <2>2. p + l - 1 = p - 1 /\ ~(p <= p - 1)
    BY <1>3
  <2>3. SubSeq(g, p, p - 1) = <<>>
    BY <2>2, SubSeqEmpty
  <2> QED BY <1>1, <2>1, <2>2, <2>3
<1>4. CASE l # 0
  <2>1. /\ p + l - 1 \in Nat /\ p <= p + l - 1 /\ p + l - 1 <= n /\ (p + l - 1) - p + 1 = l
        /\ p \in 1..(n + 1) /\ p + l - 1 \in (p - 1)..n
        /\ \A i \in 1..l : p + i - 1 \in 1..n
    BY <1>1, <1>4
  <2>2. t \in Seq(S) /\ Len(t) = l /\ \A i \in 1..l : t[i] = g[p + i - 1]
    <3> DEFINE e == p + l - 1
    <3>1. e \in Nat /\ p <= e /\ e <= n /\ e - p + 1 = l
      BY <2>1
    <3> HIDE DEF e
    <3>2. SubSeq(g, p, e) \in Seq(S) /\ Len(SubSeq(g, p, e)) = e - p + 1
          /\ \A i \in 1..(e - p + 1) : SubSeq(g, p, e)[i] = g[p + i - 1]
      BY <1>2, <3>1
    <3> QED BY <1>1, <3>1, <3>2 DEF e
  <2> HIDE DEF t
  <2>3. \A i \in 1..l : t[i] = s[i]
    <3> SUFFICES ASSUME NEW i \in 1..l PROVE t[i] = s[i]
      OBVIOUS
    <3>1. t[i] = g[p + i - 1] /\ g[p + i - 1] = file[p + i - 1]
      BY <1>2, <2>1, <2>2
    <3>2. file[p + i - 1] = s[i]
      <4>1. p - 1 + i = p + i - 1
        OBVIOUS
      <4>2. i \in 1..Len(s)
        BY <1>1
      <4>3. file[p - 1 + i] = s[i]
        BY <4>2 DEF At
      <4> QED BY <4>1, <4>3
    <3> QED BY <3>1, <3>2
  <2>4. t = s
    BY <1>1, <2>2, <2>3, SeqEqual
  <2> QED BY <2>4 DEF t, g
<1> QED BY <1>3, <1>4

(* take() of a string that is in the file, when the file was cut at n.       *)
LEMMA TakeAt ==
    ASSUME NEW file \in Seq(Word), NEW n \in Nat, n <= Len(file), NEW p \in Nat \ {0},
           NEW s \in Seq(Byte), At(file, p, <<Len(s)>>), At(file, p + 1, s)
    PROVE  LET r == Take(Truncated(file, n), p, n)
           IN  /\ p + Len(s) <= n => r.ok /\ r.str = s /\ r.pos = p + Len(s) + 1
               /\ ~(p + Len(s) <= n) => ~r.ok
<1> DEFINE g == Truncated(file, n)
           r == Take(g, p, n)
<1>1. PICK l \in Nat : l = Len(s)
  OBVIOUS
<1>2. /\ s \in Seq(Word) /\ <<l>> \in Seq(Word) /\ Len(<<l>>) = 1 /\ <<l>>[1] = l
  BY <1>1, BytesAreWords
<1>3. \A i \in 1..n : g[i] = file[i]
  BY TruncatedIs
<1>4. p <= n => g[p] = l
  <2> SUFFICES ASSUME p <= n PROVE g[p] = l
    OBVIOUS
  <2>1. file[p] = l
    <3>1. 1 \in 1..1 /\ p - 1 + 1 = p
      OBVIOUS
    <3> DEFINE q == <<l>>
    <3> HIDE DEF q
    <3>2. At(file, p, q) /\ Len(q) = 1 /\ q[1] = l
      BY <1>1, <1>2 DEF q
    <3>3. file[p - 1 + 1] = q[1]
      BY <3>1, <3>2 DEF At
    <3> QED BY <3>1, <3>2, <3>3
  <2> QED BY <1>3, <2>1
<1>5. CASE p + l <= n
  <2>1. ~(p > n) /\ ~(n - p < l) /\ (p + 1) + l <= n + 1 /\ (p + 1) + l - 1 = p + l /\ p + 1 \in Nat \ {0}
        /\ p <= n
    BY <1>5
  <2>2. SubSeq(g, p + 1, p + l) = s
    <3> DEFINE q == p + 1
    <3>1. q \in Nat \ {0} /\ q + Len(s) <= n + 1 /\ q + Len(s) - 1 = p + l
      BY <1>1, <2>1
    <3>2. At(file, q, s) /\ s \in Seq(Word)
      BY <1>2
    <3> HIDE DEF q
    <3>3. SubSeq(g, q, q + Len(s) - 1) = s
      BY <3>1, <3>2, TruncatedPart
    <3> QED BY <3>1, <3>3 DEF q
  <2> HIDE DEF g
  <2>0. PICK v : v = TRUE
    OBVIOUS
  <2>5. r = [ok |-> v, str |-> s, pos |-> p + l + 1]
    BY <1>4, <2>0, <2>1, <2>2 DEF Take
  <2>3. r.str = s /\ r.pos = p + l + 1
    BY <2>5
  <2>4. r.ok
    BY <2>0, <2>5
  <2> QED BY <1>1, <1>5, <2>3, <2>4 DEF g
<1>6. CASE ~(p + l <= n)
  <2>1. p > n \/ (p <= n /\ n - p < l)
    BY <1>6
  <2> HIDE DEF g
  <2>0. PICK v : v = FALSE
    OBVIOUS
  <2>2. r = [ok |-> v]
    BY <1>4, <2>0, <2>1 DEF Take
  <2> HIDE DEF r
  <2>3. ~r.ok
    BY <2>0, <2>2
  <2> QED BY <1>1, <1>6, <2>3 DEF g, r
<1> QED BY <1>5, <1>6

(* One entry of the store in the snapshot *)
EntryOf(k, v) == <<Len(k)>> \o k \o <<Len(v)>> \o v

\* The words of an entry.
LEMMA EntryIs ==
    ASSUME NEW k \in Seq(Byte), NEW v \in Seq(Byte)
    PROVE  /\ EntryOf(k, v) \in Seq(Word)
           /\ Len(EntryOf(k, v)) = Len(k) + Len(v) + 2
<1> DEFINE a == <<Len(k)>>
           b == <<Len(v)>>
<1>1. a \in Seq(Word) /\ b \in Seq(Word) /\ Len(a) = 1 /\ Len(b) = 1
      /\ k \in Seq(Word) /\ v \in Seq(Word)
  BY BytesAreWords
<1>2. EntryOf(k, v) = a \o k \o b \o v
  BY DEF EntryOf
<1> HIDE DEF a, b
<1>3. a \o k \in Seq(Word) /\ Len(a \o k) = Len(a) + Len(k)
  BY <1>1, ConcatProperties
<1>4. a \o k \o b \in Seq(Word) /\ Len(a \o k \o b) = Len(a \o k) + Len(b)
  BY <1>1, <1>3, ConcatProperties
<1>5. a \o k \o b \o v \in Seq(Word) /\ Len(a \o k \o b \o v) = Len(a \o k \o b) + Len(v)
  BY <1>1, <1>4, ConcatProperties
<1>6. PICK m \in Nat : m = Len(k)
  OBVIOUS
<1>7. PICK n \in Nat : n = Len(v)
  OBVIOUS
<1>8. Len(a \o k \o b \o v) = 1 + m + 1 + n
  BY <1>1, <1>3, <1>4, <1>5, <1>6, <1>7
<1>9. 1 + m + 1 + n = m + n + 2
  OBVIOUS
<1> QED BY <1>2, <1>5, <1>6, <1>7, <1>8, <1>9

(* A turn of the loader, at an entry of a file that was cut at n.            *)
LEMMA EntryAt ==
    ASSUME NEW file \in Seq(Word), NEW n \in Nat, n <= Len(file), NEW p \in Nat \ {0},
           NEW k \in Seq(Byte), NEW v \in Seq(Byte), k # <<>>, At(file, p, EntryOf(k, v)),
           NEW map
    PROVE  LET q == p + Len(EntryOf(k, v))
           IN  Entry(Truncated(file, n), n, [st |-> "ok", pos |-> p, map |-> map]) =
                   IF q <= n + 1 THEN [st |-> "ok", pos |-> q, map |-> Emplace(map, k, v)]
                   ELSE [st |-> "io", pos |-> p, map |-> map]
<1> DEFINE g == Truncated(file, n)
           acc == [st |-> "ok", pos |-> p, map |-> map]
           q == p + Len(EntryOf(k, v))
           a == <<Len(k)>>
           b == <<Len(v)>>
           key == Take(g, acc.pos, n)
           val == Take(g, key.pos, n)
<1>1. a \in Seq(Word) /\ b \in Seq(Word) /\ Len(a) = 1 /\ Len(b) = 1
      /\ k \in Seq(Word) /\ v \in Seq(Word)
  BY BytesAreWords
<1>2. At(file, p, a \o k \o b \o v)
  BY DEF EntryOf
<1>3. PICK l \in Nat : l = Len(k)
  OBVIOUS
<1>4. PICK m \in Nat : m = Len(v)
  OBVIOUS
<1>5. q = p + l + m + 2
  <2>1. Len(EntryOf(k, v)) = l + m + 2
    BY <1>3, <1>4, EntryIs
  <2>2. p + (l + m + 2) = p + l + m + 2
    OBVIOUS
  <2> QED BY <2>1, <2>2
<1>6. At(file, p, a) /\ At(file, p + 1, k) /\ At(file, p + l + 1, b) /\ At(file, p + l + 2, v)
  <2> HIDE DEF a, b
  <2>1. /\ At(file, p, a) /\ At(file, p + Len(a), k)
        /\ At(file, p + Len(a) + Len(k), b)
        /\ At(file, p + Len(a) + Len(k) + Len(b), v)
    BY <1>1, <1>2, AtParts
  <2>2. p + Len(a) = p + 1 /\ p + Len(a) + Len(k) = p + l + 1 /\ p + Len(a) + Len(k) + Len(b) = p + l + 2
    BY <1>1, <1>3
  <2> QED BY <2>1, <2>2
<1>7. acc.st = "ok" /\ acc.pos = p /\ acc.map = map
  OBVIOUS
<1>8. /\ p + l <= n => key.ok /\ key.str = k /\ key.pos = p + l + 1
      /\ ~(p + l <= n) => ~key.ok
  <2>1. /\ p + Len(k) <= n => Take(g, p, n).ok /\ Take(g, p, n).str = k /\ Take(g, p, n).pos = p + Len(k) + 1
        /\ ~(p + Len(k) <= n) => ~Take(g, p, n).ok
    BY <1>6, TakeAt
  <2>2. key = Take(g, p, n)
    BY <1>7
  <2> HIDE DEF key, acc
  <2> QED BY <1>3, <2>1, <2>2
<1>9. p + l <= n => /\ p + l + 1 + m <= n => val.ok /\ val.str = v /\ val.pos = p + l + 1 + m + 1
                    /\ ~(p + l + 1 + m <= n) => ~val.ok
  <2> SUFFICES ASSUME p + l <= n
               PROVE  /\ p + l + 1 + m <= n => val.ok /\ val.str = v /\ val.pos = p + l + 1 + m + 1
                      /\ ~(p + l + 1 + m <= n) => ~val.ok
    OBVIOUS
  <2> DEFINE w == p + l + 1
  <2>1. key.pos = w /\ w \in Nat \ {0} /\ w + 1 = p + l + 2
    BY <1>8
  <2>2. At(file, w, <<Len(v)>>) /\ At(file, w + 1, v)
    BY <1>6, <2>1
  <2> HIDE DEF w
  <2>3. /\ w + Len(v) <= n => Take(g, w, n).ok /\ Take(g, w, n).str = v /\ Take(g, w, n).pos = w + Len(v) + 1
        /\ ~(w + Len(v) <= n) => ~Take(g, w, n).ok
    BY <2>1, <2>2, TakeAt
  <2> QED BY <1>4, <2>1, <2>3 DEF w
<1> HIDE DEF key, val, g, q
<1>10. CASE q <= n + 1
  <2>1. p + l <= n /\ p + l + 1 + m <= n /\ p + l + 1 + m + 1 = q
    BY <1>5, <1>10
  <2>2. key.ok /\ val.ok
    BY <1>8, <1>9, <2>1
  <2>3. key.str = k /\ val.str = v /\ val.pos = q
    BY <1>8, <1>9, <2>1
  <2> HIDE DEF acc
  <2>4. Entry(g, n, acc) = [st |-> "ok", pos |-> val.pos, map |-> Emplace(acc.map, key.str, val.str)]
    BY <1>7, <2>2, <2>3 DEF Entry, key, val
  <2>5. Entry(g, n, acc) = [st |-> "ok", pos |-> q, map |-> Emplace(map, k, v)]
    BY <1>7, <2>3, <2>4
  <2> QED BY <1>10, <2>5 DEF acc, g, q
<1>11. CASE ~(q <= n + 1)
  <2>1. p + l <= n => ~(p + l + 1 + m <= n)
    BY <1>5, <1>11
  <2>2. ~key.ok \/ ~val.ok
    BY <1>8, <1>9, <2>1
  <2>3. Entry(g, n, acc) = [acc EXCEPT !.st = "io"]
    <3> HIDE DEF acc
    <3> QED BY <1>7, <2>2 DEF Entry, key, val
  <2>4. [acc EXCEPT !.st = "io"] = [st |-> "io", pos |-> p, map |-> map]
    OBVIOUS
  <2> QED BY <1>11, <2>3, <2>4 DEF acc, g, q
<1> QED BY <1>10, <1>11

EntryAtKey(map, keys, i) == EntryOf(keys[i], map[keys[i]])

\* The entries of map, in the order of keys: f[i] is the first i of them
Layout(map, keys, f, n) ==
    /\ n \in Nat /\ n = Cardinality(DOMAIN map) /\ keys \in [1..n -> DOMAIN map]
    /\ \A i, j \in 1..n : keys[i] = keys[j] => i = j
    /\ \A k \in DOMAIN map : \E i \in 1..n : keys[i] = k
    /\ f[0] = <<>> /\ \A i \in 0..n : f[i] \in Seq(Word)
    /\ \A i \in 1..n : f[i] = f[i - 1] \o EntryAtKey(map, keys, i)

\* KvStore::Dump writes the entries of the store in some order, each once.
LEMMA DumpIs ==
    ASSUME NEW map, IsMap(map)
    PROVE  \E keys, f, n : Layout(map, keys, f, n) /\ KvDump(map) = <<n>> \o f[n]
<1> DEFINE D == DOMAIN map
           n == Cardinality(D)
           keys == SetToSeq(D)
           E == [i \in 1..n |-> EntryAtKey(map, keys, i)]
<1>1. /\ n \in Nat /\ keys \in [1..n -> D]
      /\ \A i, j \in 1..n : keys[i] = keys[j] => i = j
      /\ \A x \in D : \E i \in 1..n : keys[i] = x
  BY KeysOnce DEF IsMap
<1> HIDE DEF keys, n
<1>2. DOMAIN keys = 1..n /\ Len(keys) = n
  BY <1>1
<1>3. KvDump(map) = <<n>> \o FlattenSeq(E)
  BY <1>2 DEF KvDump, EntryAtKey, EntryOf, keys
<1>4. ASSUME NEW i \in 1..n PROVE EntryAtKey(map, keys, i) \in Seq(Word)
  <2>1. keys[i] \in D
    BY <1>1
  <2>2. keys[i] \in Seq(Byte) /\ map[keys[i]] \in Seq(Byte)
    BY <2>1 DEF IsMap
  <2> QED BY <2>2, EntryIs DEF EntryAtKey
<1>5. \A i \in 1..n : E[i] \in Seq(Word) /\ E[i] = EntryAtKey(map, keys, i)
  BY <1>4
<1>6. DOMAIN E = 1..n /\ Len(E) = n /\ (n = 0 => E = <<>>)
  <2>1. E \in Seq(Seq(Word)) /\ Len(E) = n
    BY <1>1, <1>4
  <2> QED BY <2>1, EmptySeq
<1> HIDE DEF E
<1>7. PICK f : Joins(f, E, n) /\ FlattenSeq(E) = f[n] /\ \A i \in 0..n : f[i] \in Seq(Word)
  BY <1>1, <1>5, <1>6, FlattenIs, SMTT(40)
<1>8. Layout(map, keys, f, n)
  BY <1>1, <1>5, <1>7 DEF Layout, Joins, n
<1> QED BY <1>3, <1>7, <1>8

\* A snapshot file is its header, the count and the entries, one behind the
\* other.
LEMMA FileIs ==
    ASSUME NEW map, IsMap(map), NEW keys, NEW f, NEW n, Layout(map, keys, f, n), NEW h \in Word
    PROVE  LET file == <<h>> \o (<<n>> \o f[n])
           IN  /\ file \in Seq(Word) /\ Len(file) = Len(f[n]) + 2 /\ file[1] = h /\ file[2] = n
               /\ <<n>> \o f[n] \in Seq(Word) /\ Len(<<n>> \o f[n]) = Len(f[n]) + 1
               /\ \A i \in 1..n : At(file, 3 + Len(f[i - 1]), EntryAtKey(map, keys, i))
<1> DEFINE a == <<h>>
           b == <<n>>
           t == f[n]
           kv == b \o t
           file == a \o kv
<1>1. n \in Nat /\ t \in Seq(Word)
  BY DEF Layout
<1>2. n \in Word
  BY <1>1, WordsAre
<1> HIDE DEF t
<1>3. a \in Seq(Word) /\ b \in Seq(Word) /\ Len(a) = 1 /\ Len(b) = 1 /\ a[1] = h /\ b[1] = n
  BY <1>2
<1> HIDE DEF a, b
<1>4. /\ kv \in Seq(Word) /\ Len(kv) = Len(b) + Len(t)
  BY <1>1, <1>3, ConcatProperties
<1>5. At(kv, 1, b) /\ At(kv, 2, t)
  <2>1. At(kv, 1, kv)
    BY <1>4, AtWhole
  <2>2. 1 \in Nat \ {0} /\ 1 + Len(b) = 2
    BY <1>3
  <2>3. At(kv, 1, b \o t) <=> At(kv, 1, b) /\ At(kv, 1 + Len(b), t)
    <3>1. kv \in Seq(Word) /\ b \in Seq(Word) /\ t \in Seq(Word) /\ 1 \in Nat \ {0}
      BY <1>1, <1>3, <1>4
    <3> HIDE DEF kv
    <3> QED BY <3>1, AtConcat
  <2> HIDE DEF kv
  <2>4. At(kv, 1, b \o t)
    BY <2>1 DEF kv
  <2> QED BY <2>2, <2>3, <2>4
<1> HIDE DEF kv
<1>6. file \in Seq(Word) /\ Len(file) = Len(a) + Len(kv)
  BY <1>3, <1>4, ConcatProperties
<1>7. At(file, 1, a) /\ At(file, 2, kv)
  <2>1. At(file, 1, file)
    BY <1>6, AtWhole
  <2>2. 1 \in Nat \ {0} /\ 1 + Len(a) = 2
    BY <1>3
  <2>3. At(file, 1, a \o kv) <=> At(file, 1, a) /\ At(file, 1 + Len(a), kv)
    <3>1. file \in Seq(Word) /\ a \in Seq(Word) /\ kv \in Seq(Word) /\ 1 \in Nat \ {0}
      BY <1>3, <1>4, <1>6
    <3> HIDE DEF file
    <3> QED BY <3>1, AtConcat
  <2> HIDE DEF file
  <2>4. At(file, 1, a \o kv)
    BY <2>1 DEF file
  <2> QED BY <2>2, <2>3, <2>4
<1> HIDE DEF file
<1>8. At(file, 2, b) /\ At(file, 3, t)
  <2>1. 2 \in Nat \ {0} /\ 2 + Len(b) = 3
    BY <1>3
  <2>2. At(file, 2, b \o t)
    BY <1>7 DEF kv
  <2>3. At(file, 2, b \o t) <=> At(file, 2, b) /\ At(file, 2 + Len(b), t)
    <3>1. file \in Seq(Word) /\ b \in Seq(Word) /\ t \in Seq(Word) /\ 2 \in Nat \ {0}
      BY <1>1, <1>3, <1>6
    <3> QED BY <3>1, AtConcat
  <2> QED BY <2>1, <2>2, <2>3
<1>9. file[1] = h /\ file[2] = n
  <2>1. 1 \in 1..1 /\ 1 - 1 + 1 = 1 /\ 2 - 1 + 1 = 2
    OBVIOUS
  <2>2. file[1 - 1 + 1] = a[1] /\ file[2 - 1 + 1] = b[1]
    BY <1>3, <1>7, <1>8, <2>1 DEF At
  <2> QED BY <1>3, <2>1, <2>2
<1>10. PICK m \in Nat : m = Len(t)
  BY <1>1
<1>11. Len(kv) = m + 1 /\ Len(file) = m + 2
  BY <1>3, <1>4, <1>6, <1>10
<1> DEFINE E == [i \in 1..n |-> EntryAtKey(map, keys, i)]
<1>12. ASSUME NEW i \in 1..n PROVE EntryAtKey(map, keys, i) \in Seq(Word)
  <2>1. keys[i] \in DOMAIN map
    BY DEF Layout
  <2>2. keys[i] \in Seq(Byte) /\ map[keys[i]] \in Seq(Byte)
    BY <2>1 DEF IsMap
  <2> QED BY <2>2, EntryIs DEF EntryAtKey
<1>13. \A i \in 1..n : E[i] \in Seq(Word) /\ E[i] = EntryAtKey(map, keys, i)
  BY <1>12
<1> HIDE DEF E
<1>14. Joins(f, E, n) /\ \A i \in 0..n : f[i] \in Seq(Word)
  BY <1>13, ZenonT(60) DEF Layout, Joins
<1>15. At(file, 3, f[n]) /\ 3 \in Nat \ {0}
  BY <1>8 DEF t
<1>16. \A i \in 1..n : At(file, 3 + Len(f[i - 1]), E[i])
  BY <1>1, <1>6, <1>13, <1>14, <1>15, AtJoined
<1> QED BY <1>4, <1>6, <1>9, <1>10, <1>11, <1>13, <1>16 DEF file, kv, a, b, t

\* The first i entries of map
Part(map, keys, i) == [k \in {keys[j] : j \in 1..i} |-> map[k]]

\* Each turn of the loop emplaces one entry more, and no key twice.
LEMMA PartIs ==
    ASSUME NEW map, IsMap(map), NEW keys, NEW f, NEW n, Layout(map, keys, f, n)
    PROVE  /\ Part(map, keys, 0) = <<>> /\ Part(map, keys, n) = map
           /\ \A i \in 0..n : \A k \in DOMAIN Part(map, keys, i) :
                  k \in DOMAIN map /\ Part(map, keys, i)[k] = map[k]
           /\ \A i \in 1..n : Emplace(Part(map, keys, i - 1), keys[i], map[keys[i]]) =
                              Part(map, keys, i)
<1>1. n \in Nat /\ \A i \in 1..n : keys[i] \in DOMAIN map
  BY DEF Layout
<1>2. Part(map, keys, 0) = <<>>
  <2>1. {keys[j] : j \in 1..0} = {}
    OBVIOUS
  <2>2. <<>> = [k \in {} |-> map[k]]
    OBVIOUS
  <2> QED BY <2>1, <2>2 DEF Part
<1>3. Part(map, keys, n) = map
  <2>1. {keys[j] : j \in 1..n} = DOMAIN map
    <3>1. \A k \in DOMAIN map : \E i \in 1..n : keys[i] = k
      BY DEF Layout
    <3> QED BY <1>1, <3>1
  <2>2. map = [k \in DOMAIN map |-> map[k]]
    BY DEF IsMap
  <2> QED BY <2>1, <2>2 DEF Part
<1>4. ASSUME NEW i \in 0..n, NEW k \in DOMAIN Part(map, keys, i)
      PROVE  k \in DOMAIN map /\ Part(map, keys, i)[k] = map[k]
  <2>1. k \in {keys[j] : j \in 1..i} /\ Part(map, keys, i)[k] = map[k]
    BY DEF Part
  <2>2. PICK j \in 1..i : k = keys[j]
    BY <2>1
  <2>3. j \in 1..n
    BY <1>1
  <2> QED BY <1>1, <2>1, <2>2, <2>3
<1>5. ASSUME NEW i \in 1..n
      PROVE  Emplace(Part(map, keys, i - 1), keys[i], map[keys[i]]) = Part(map, keys, i)
  <2> DEFINE K == {keys[j] : j \in 1..(i - 1)}
             L == {keys[j] : j \in 1..i}
             p == Part(map, keys, i - 1)
  <2>1. L = K \cup {keys[i]}
    <3>1. \A j : j \in 1..i <=> j \in 1..(i - 1) \/ j = i
      BY <1>1
    <3> QED BY <3>1
  <2>2. keys[i] \notin K
    <3> SUFFICES ASSUME NEW j \in 1..(i - 1), keys[i] = keys[j] PROVE FALSE
      OBVIOUS
    <3>1. j \in 1..n /\ j # i
      BY <1>1
    <3> QED BY <3>1 DEF Layout
  <2>3. DOMAIN p = K /\ \A k \in K : p[k] = map[k]
    BY DEF Part
  <2> HIDE DEF p
  <2>4. Emplace(p, keys[i], map[keys[i]]) =
            [k \in K \cup {keys[i]} |-> IF k \in K THEN p[k] ELSE map[keys[i]]]
    BY <2>3 DEF Emplace
  <2> HIDE DEF K, L
  <2>5. \A k \in L : (IF k \in K THEN p[k] ELSE map[keys[i]]) = map[k]
    BY <2>1, <2>2, <2>3
  <2>6. Emplace(p, keys[i], map[keys[i]]) = [k \in L |-> map[k]]
    BY <2>1, <2>4, <2>5
  <2> QED BY <2>6 DEF Part, p, L
<1> QED BY <1>2, <1>3, <1>4, <1>5

\* The state of the loop of KvStore::Load
LoadState(st, pos, map) == [st |-> st, pos |-> pos, map |-> map]

\* The loop of KvStore::Load after i turns, on a file of l words that was cut at
\* n: so far all is well, or the file was too short
Loaded(acc, map, keys, f, i, n, l, k) ==
    \/ /\ acc = LoadState("ok", 3 + Len(f[i]), Part(map, keys, i))
       /\ 3 + Len(f[i]) <= n + 1
    \/ /\ n < l
       /\ \E j \in 0..k : \E pos : acc = LoadState("io", pos, Part(map, keys, j))

\* The loop of KvStore::Load on a file that was cut anywhere, turn by turn.
LEMMA LoadTurns ==
    ASSUME NEW map, IsMap(map), NEW keys, NEW f, NEW k, Layout(map, keys, f, k),
           NEW file \in Seq(Word), Len(file) = Len(f[k]) + 2,
           \A i \in 1..k : At(file, 3 + Len(f[i - 1]), EntryAtKey(map, keys, i)),
           NEW n \in Nat, n <= Len(file), n >= 2,
           NEW a, EntryTurns(a, Truncated(file, n), n, LoadState("ok", 3, <<>>), k)
    PROVE  Loaded(a[k], map, keys, f, k, n, Len(file), k)
<1> DEFINE g == Truncated(file, n)
           P(i) == Loaded(a[i], map, keys, f, i, n, Len(file), k)
           G == {i \in Nat : i <= k => P(i)}
<1>1. k \in Nat /\ f[0] = <<>> /\ \A i \in 0..k : f[i] \in Seq(Word)
  BY DEF Layout
<1>2. 0 \in G
  <2>1. 3 + Len(f[0]) = 3 /\ 3 <= n + 1
    BY <1>1
  <2>2. Part(map, keys, 0) = <<>>
    BY PartIs
  <2>3. a[0] = LoadState("ok", 3, <<>>)
    BY DEF EntryTurns
  <2>4. P(0)
    BY <2>1, <2>2, <2>3 DEF Loaded
  <2> HIDE DEF P
  <2> QED BY <2>4
<1>3. ASSUME NEW i \in Nat, i \in G PROVE i + 1 \in G
  <2>1. ASSUME i + 1 <= k PROVE P(i + 1)
    <3>1. i + 1 \in 1..k /\ (i + 1) - 1 = i /\ i <= k /\ i \in 0..k /\ i + 1 \in 0..k
      BY <1>1, <2>1
    <3>2. a[i + 1] = Entry(g, n, a[i])
      BY <3>1 DEF EntryTurns
    <3>3. P(i)
      BY <1>3, <3>1
    <3>4. CASE \E j \in 0..k : \E pos : a[i] = LoadState("io", pos, Part(map, keys, j)) /\ n < Len(file)
      <4>1. a[i].st # "ok"
        BY <3>4 DEF LoadState
      <4>2. a[i + 1] = a[i]
        BY <3>2, <4>1 DEF Entry
      <4> QED BY <3>4, <4>2 DEF Loaded
    <3>5. CASE a[i] = LoadState("ok", 3 + Len(f[i]), Part(map, keys, i)) /\ 3 + Len(f[i]) <= n + 1
      <4> DEFINE p == 3 + Len(f[i])
                 x == keys[i + 1]
                 v == map[x]
                 e == EntryOf(x, v)
                 m == Part(map, keys, i)
                 q == p + Len(e)
      <4>1. x \in DOMAIN map
        BY <3>1 DEF Layout
      <4>2. x \in Seq(Byte) /\ x # <<>> /\ v \in Seq(Byte)
        BY <4>1 DEF IsMap
      <4>3. p \in Nat \ {0}
        BY <1>1, <3>1
      <4>4. At(file, p, e)
        BY <3>1 DEF EntryAtKey
      <4>5. Emplace(m, x, v) = Part(map, keys, i + 1)
        <5>1. Emplace(Part(map, keys, (i + 1) - 1), keys[i + 1], map[keys[i + 1]]) = Part(map, keys, i + 1)
          BY <3>1, PartIs
        <5> QED BY <3>1, <5>1
      <4>6. e \in Seq(Word) /\ Len(e) \in Nat
        BY <4>2, EntryIs
      <4>7. f[i + 1] = f[i] \o e
        <5>1. f[i + 1] = f[(i + 1) - 1] \o EntryAtKey(map, keys, i + 1)
          BY <3>1 DEF Layout
        <5> QED BY <3>1, <5>1 DEF EntryAtKey
      <4> HIDE DEF e, m, x, v
      <4>8. q = 3 + Len(f[i + 1])
        <5>1. f[i] \in Seq(Word)
          BY <1>1, <3>1
        <5>2. Len(f[i + 1]) = Len(f[i]) + Len(e)
          BY <4>6, <4>7, <5>1, ConcatProperties
        <5>3. PICK y \in Nat : y = Len(f[i])
          BY <5>1
        <5>4. PICK z \in Nat : z = Len(e)
          BY <4>6
        <5>5. (3 + y) + z = 3 + (y + z)
          OBVIOUS
        <5> QED BY <5>2, <5>3, <5>4, <5>5
      <4>9. Entry(g, n, LoadState("ok", p, m)) =
                IF q <= n + 1 THEN LoadState("ok", q, Emplace(m, x, v)) ELSE LoadState("io", p, m)
        <5> HIDE DEF p
        <5> QED BY <4>2, <4>3, <4>4, EntryAt DEF LoadState, e
      <4>10. q - 1 <= Len(file)
        <5>1. p + Len(e) - 1 <= Len(file)
          BY <4>4 DEF At
        <5> QED BY <5>1
      <4>11. CASE q <= n + 1
        <5>1. a[i + 1] = LoadState("ok", q, Part(map, keys, i + 1))
          BY <3>2, <3>5, <4>5, <4>9, <4>11 DEF m
        <5> HIDE DEF q
        <5> QED BY <4>8, <4>11, <5>1 DEF Loaded
      <4>12. CASE ~(q <= n + 1)
        <5>1. a[i + 1] = LoadState("io", p, Part(map, keys, i))
          BY <3>2, <3>5, <4>9, <4>12 DEF m
        <5>2. q \in Nat
          BY <4>3, <4>6
        <5> HIDE DEF q, p
        <5>3. n < Len(file)
          <6>1. PICK z \in Nat : z = Len(file)
            OBVIOUS
          <6> QED BY <4>10, <4>12, <5>2, <6>1
        <5> QED BY <3>1, <5>1, <5>3 DEF Loaded
      <4> QED BY <4>11, <4>12
    <3> QED BY <3>3, <3>4, <3>5 DEF Loaded
  <2> HIDE DEF P
  <2> QED BY <2>1
<1> HIDE DEF G, P
<1>4. k \in G
  BY <1>1, <1>2, <1>3, SetInduction
<1>5. P(k)
  BY <1>1, <1>4 DEF G
<1> QED BY <1>5 DEF P

\* What is loaded of a file that holds map: nothing else than its entries
PartOf(m, map) == \A k \in DOMAIN m : k \in DOMAIN map /\ m[k] = map[k]

\* KvStore::Load of a whole file is the store; of a file that was cut it is an
\* error, and some entries of the store.
LEMMA KvLoadIs ==
    ASSUME NEW map, IsMap(map), NEW keys, NEW f, NEW k, Layout(map, keys, f, k),
           NEW file \in Seq(Word), Len(file) = Len(f[k]) + 2, file[2] = k,
           \A i \in 1..k : At(file, 3 + Len(f[i - 1]), EntryAtKey(map, keys, i)),
           NEW n \in Nat, n <= Len(file)
    PROVE  LET r == KvLoad(Truncated(file, n), 2, n)
           IN  /\ n = Len(file) => r = LoadState("ok", n + 1, map)
               /\ n < Len(file) => r.st = "io" /\ PartOf(r.map, map)
<1> DEFINE g == Truncated(file, n)
           r == KvLoad(g, 2, n)
<1>1. PICK l \in Nat : l = Len(f[k])
  <2>1. k \in 0..k /\ f[k] \in Seq(Word)
    BY DEF Layout
  <2> QED BY <2>1
<1>2. Len(file) = l + 2
  BY <1>1
<1>3. CASE n < 2
  <2>1. n < Len(file) /\ n # Len(file) /\ 2 > n
    BY <1>2, <1>3
  <2>2. r = LoadState("io", 2, <<>>)
    BY <2>1 DEF KvLoad, LoadState
  <2>3. r.st = "io" /\ r.map = <<>>
    BY <2>2 DEF LoadState
  <2>4. PartOf(<<>>, map)
    BY DEF PartOf
  <2> HIDE DEF r
  <2> QED BY <2>1, <2>3, <2>4 DEF r
<1>4. CASE n >= 2
  <2>1. k \in Nat
    BY DEF Layout
  <2>2. g[2] = k
    <3>1. \A i \in 1..n : g[i] = file[i]
      BY TruncatedIs
    <3>2. 2 \in 1..n
      BY <1>4
    <3> QED BY <3>1, <3>2
  <2> DEFINE base == LoadState("ok", 3, <<>>)
  <2> HIDE DEF g
  <2>3. r = Entrys(g, n, base, k)
    <3>1. ~(2 > n) /\ 2 + 1 = 3
      BY <1>4
    <3> QED BY <2>2, <3>1 DEF KvLoad, Entrys, LoadState
  <2> HIDE DEF base
  <2>4. PICK a : EntryTurns(a, g, n, base, k) /\ Entrys(g, n, base, k) = a[k]
    <3>1. \A x, y, z : \A i \in Nat : \E a : EntryTurns(a, x, y, z, i) /\ Entrys(x, y, z, i) = a[i]
      BY EntryFold
    <3>2. PICK e : e = n
      OBVIOUS
    <3> HIDE DEF r
    <3>3. \E a : EntryTurns(a, g, e, base, k) /\ Entrys(g, e, base, k) = a[k]
      BY ONLY <2>1, <3>1, Zenon
    <3> QED BY <3>2, <3>3
  <2>5. Loaded(a[k], map, keys, f, k, n, Len(file), k)
    BY <1>4, <2>4, LoadTurns DEF base, g
  <2> HIDE DEF r
  <2>6. Loaded(r, map, keys, f, k, n, Len(file), k)
    BY <2>3, <2>4, <2>5
  <2>7. /\ Part(map, keys, k) = map
        /\ \A i \in 0..k : PartOf(Part(map, keys, i), map)
    BY PartIs DEF PartOf
  <2>8. CASE r = LoadState("ok", 3 + Len(f[k]), Part(map, keys, k)) /\ 3 + Len(f[k]) <= n + 1
    <3>1. n = l + 2 /\ 3 + l = n + 1
      BY <1>1, <1>2, <2>8
    <3>2. r = LoadState("ok", n + 1, map) /\ ~(n < Len(file))
      BY <1>1, <1>2, <2>7, <2>8, <3>1
    <3> QED BY <3>2 DEF r, g
  <2>9. CASE n < Len(file) /\ \E j \in 0..k : \E pos : r = LoadState("io", pos, Part(map, keys, j))
    <3>1. PICK j \in 0..k : \E pos : r = LoadState("io", pos, Part(map, keys, j))
      BY <2>9
    <3>2. r.st = "io" /\ r.map = Part(map, keys, j)
      BY <3>1 DEF LoadState
    <3>3. n # Len(file)
      BY <1>2, <2>9
    <3> QED BY <2>7, <3>2, <3>3 DEF r, g
  <2> QED BY <2>6, <2>8, <2>9 DEF Loaded
<1> QED BY <1>3, <1>4

(* A file whose header is not there is refused by both loaders.              *)
LEMMA LoadsNoHeader ==
    ASSUME NEW file, NEW before, ReadHeader(file) # "ok"
    PROVE  LoadFromPath(file, before).st # "ok" /\ LoadFromPath(file, before).map = before
<1> DEFINE h == ReadHeader(file)
<1>1. ParseHeader(file) = h
  BY DEF ParseHeader
<1> HIDE DEF h
<1>2. LoadFromMapped(file, before) = Verdict(h, before)
  BY <1>1 DEF LoadFromMapped, h
<1>3. \A b : LoadFromFile(file, b) = Verdict(h, b)
  BY DEF LoadFromFile, h
<1>4. \A b : Verdict(h, b).st = h /\ Verdict(h, b).map = b
  BY DEF Verdict
<1>5. h # "ok"
  BY DEF h
<1>6. LoadFromPath(file, before) = Verdict(h, before)
  BY <1>2, <1>3, <1>4, <1>5 DEF LoadFromPath
<1> QED BY <1>4, <1>5, <1>6

\* The header that SaveToPath writes over the hole
SavedHeader(map, kv) == [magic |-> KMagic, kv_count |-> Cardinality(DOMAIN map),
                         offset |-> HeaderWords, length |-> Len(kv)]

(* The finished file, cut after n words.                                     *)
LEMMA LoadsFile ==
    ASSUME NEW map, IsMap(map), NEW before, NEW n \in Nat, n <= Len(SaveToPath(map))
    PROVE  LET r == LoadFromPath(SubSeq(SaveToPath(map), 1, n), before)
           IN  /\ n = Len(SaveToPath(map)) => r = Verdict("ok", map)
               /\ n < Len(SaveToPath(map)) => r.st # "ok" /\ (r.map = before \/ PartOf(r.map, map))
<1> DEFINE file == SaveToPath(map)
           g == Truncated(file, n)
           kv == KvDump(map)
           h == SavedHeader(map, kv)
<1>1. PICK keys, f, k : Layout(map, keys, f, k) /\ kv = <<k>> \o f[k]
  BY DumpIs
<1>2. file = <<h>> \o (<<k>> \o f[k])
  BY <1>1 DEF SaveToPath, SavedHeader
<1>3. PICK l \in Nat : l = Len(f[k])
  <2>1. k \in 0..k /\ f[k] \in Seq(Word)
    BY <1>1 DEF Layout
  <2> QED BY <2>1
<1>4. k \in Nat /\ k = Cardinality(DOMAIN map) /\ Len(<<k>> \o f[k]) = l + 1
  <2>1. k \in Nat /\ k = Cardinality(DOMAIN map)
    BY <1>1 DEF Layout
  <2>2. Len(<<k>> \o f[k]) = Len(f[k]) + 1
    BY <1>1, WordsAre, FileIs
  <2> QED BY <1>3, <2>1, <2>2
<1> HIDE DEF kv
<1>5. h = [magic |-> KMagic, kv_count |-> k, offset |-> 1, length |-> l + 1]
  BY <1>1, <1>4 DEF SavedHeader, HeaderWords
<1>6. h \in Word
  <2>1. l + 1 \in Nat /\ 1 \in Nat
    OBVIOUS
  <2> HIDE DEF h
  <2> QED BY <1>4, <1>5, <2>1 DEF Word
<1> HIDE DEF h, file
<1>7. /\ file \in Seq(Word) /\ Len(file) = Len(f[k]) + 2 /\ file[1] = h /\ file[2] = k
      /\ \A i \in 1..k : At(file, 3 + Len(f[i - 1]), EntryAtKey(map, keys, i))
  BY <1>1, <1>2, <1>6, FileIs
<1>8. Len(file) = l + 2
  BY <1>3, <1>7
<1>9. Len(g) = n /\ \A i \in 1..n : g[i] = file[i]
  BY <1>7, TruncatedIs DEF file
<1>10. g = SubSeq(file, 1, n) /\ n <= Len(file)
  BY DEF Truncated, file
<1> HIDE DEF g
<1>11. CASE n = 0
  <2>1. ReadHeader(g) # "ok"
    BY <1>9, <1>11 DEF ReadHeader, HeaderWords
  <2>2. LoadFromPath(g, before).st # "ok" /\ LoadFromPath(g, before).map = before
    BY <2>1, LoadsNoHeader
  <2>3. n < Len(file) /\ n # Len(file)
    BY <1>8, <1>11
  <2> QED BY <1>10, <2>2, <2>3 DEF file
<1>12. CASE n # 0
  <2>1. g[1] = h
    BY <1>7, <1>9, <1>12
  <2>2. h.magic = KMagic /\ h.kv_count = k /\ h.offset = 1 /\ h.length = l + 1
    BY <1>5
  <2>3. ReadHeader(g) = "ok"
    BY <1>9, <1>12, <2>1, <2>2 DEF ReadHeader, HeaderWords
  <2> DEFINE r == KvLoad(g, 2, n)
  <2>4. /\ n = Len(file) => r = LoadState("ok", n + 1, map)
        /\ n < Len(file) => r.st = "io" /\ PartOf(r.map, map)
    BY <1>1, <1>7, <1>10, KvLoadIs DEF g
  <2> HIDE DEF r
  <2>5. CASE n = Len(file)
    <3>1. n = l + 2
      BY <1>8, <2>5
    <3>2. ~(h.length # 0 /\ (h.offset > Len(g) \/ h.length > Len(g) - h.offset))
      BY <1>9, <2>2, <3>1
    <3>3. ParseHeader(g) = "ok"
      BY <2>1, <2>3, <3>2 DEF ParseHeader
    <3>4. h.offset + 1 = 2 /\ h.offset + h.length = n
      BY <2>2, <3>1
    <3>5. r.st = "ok" /\ r.pos = n + 1 /\ r.map = map
      BY <2>4, <2>5 DEF LoadState
    <3>6. KvLoadFrom(g, 2, n) = r
      BY <3>5 DEF KvLoadFrom, r
    <3>7. Checked(h, r) = Verdict("ok", map)
      BY <1>4, <2>2, <3>5 DEF Checked
    <3>8. LoadFromMapped(g, before) = Verdict("ok", map)
      BY <2>1, <3>3, <3>4, <3>6, <3>7 DEF LoadFromMapped
    <3>9. Verdict("ok", map).st = "ok"
      BY DEF Verdict
    <3>10. LoadFromPath(g, before) = Verdict("ok", map)
      BY <3>8, <3>9 DEF LoadFromPath
    <3>11. ~(n < Len(file))
      BY <1>8, <3>1
    <3> QED BY <1>10, <3>10, <3>11 DEF file
  <2>6. CASE n < Len(file)
    <3>1. n < l + 2
      BY <1>8, <2>6
    <3>2. h.length # 0 /\ h.length > Len(g) - h.offset
      BY <1>9, <2>2, <3>1
    <3>3. ParseHeader(g) = "error"
      BY <2>1, <2>3, <3>2 DEF ParseHeader
    <3>4. LoadFromMapped(g, before) = Verdict("error", before)
      BY <3>3 DEF LoadFromMapped
    <3>5. Verdict("error", before).st = "error" /\ Verdict("error", before).map = before
      BY DEF Verdict
    <3>6. LoadFromPath(g, before) = LoadFromFile(g, before)
      BY <3>4, <3>5 DEF LoadFromPath
    <3>7. h.offset + 1 = 2 /\ Len(g) = n
      BY <1>9, <2>2
    <3>8. LoadFromFile(g, before) = Checked(h, r)
      BY <2>1, <2>3, <3>7 DEF LoadFromFile, r
    <3>9. Checked(h, r) = Verdict("io", r.map)
      BY <2>4, <2>6 DEF Checked
    <3>10. Verdict("io", r.map).st = "io" /\ Verdict("io", r.map).map = r.map
      BY DEF Verdict
    <3>11. n # Len(file)
      BY <1>8, <3>1
    <3> QED BY <1>10, <2>4, <2>6, <3>6, <3>8, <3>9, <3>10, <3>11 DEF file
  <2> QED BY <1>8, <1>10, <2>5, <2>6
<1> QED BY <1>11, <1>12

(* For every store a server can have.                                        *)
LEMMA LoadsSaved ==
    ASSUME NEW map, IsMap(map), NEW before
    PROVE  LoadsWholeOnly(map, before)
<1> DEFINE file == SaveToPath(map)
           hole == <<NoHeader>> \o Tail(file)
           R(f, n) == LoadFromPath(SubSeq(f, 1, n), before)
           Finished(f, n) == f[1] # NoHeader /\ n = Len(f)
           Judged(f, n) == IF Finished(f, n) THEN R(f, n) = Verdict("ok", map)
                         ELSE /\ R(f, n).st # "ok"
                              /\ R(f, n).map = before \/ PartOf(R(f, n).map, map)
<1>1. file \in Seq(Word) /\ Len(file) \in Nat \ {0} /\ file[1].magic = KMagic
  <2> DEFINE kv == KvDump(map)
             h == SavedHeader(map, kv)
  <2>1. PICK keys, f, k : Layout(map, keys, f, k) /\ kv = <<k>> \o f[k]
    BY DumpIs
  <2>2. file = <<h>> \o (<<k>> \o f[k])
    BY <2>1 DEF SaveToPath, SavedHeader
  <2>3. k \in Nat /\ k = Cardinality(DOMAIN map) /\ f[k] \in Seq(Word)
    BY <2>1 DEF Layout
  <2>4. Len(kv) = Len(f[k]) + 1
    BY <2>1, WordsAre, FileIs
  <2>5. PICK l \in Nat : l = Len(f[k])
    BY <2>3
  <2> HIDE DEF kv
  <2>6. h = [magic |-> KMagic, kv_count |-> k, offset |-> 1, length |-> l + 1]
    BY <2>3, <2>4, <2>5 DEF SavedHeader, HeaderWords
  <2> HIDE DEF h, file
  <2>7. h \in Word /\ h.magic = KMagic
    <3>1. l + 1 \in Nat /\ 1 \in Nat
      OBVIOUS
    <3> QED BY <2>3, <2>6, <3>1 DEF Word
  <2>8. /\ file \in Seq(Word) /\ Len(file) = Len(f[k]) + 2 /\ file[1] = h
    BY <2>1, <2>2, <2>7, FileIs
  <2>9. l + 2 \in Nat \ {0}
    OBVIOUS
  <2> QED BY <2>5, <2>7, <2>8, <2>9
<1>2. NoHeader.magic = "" /\ "" # KMagic
  BY DEF NoHeader, KMagic
<1> HIDE DEF file
<1>3. ASSUME NEW n \in 0..Len(file) PROVE Judged(file, n)
  <2>0. PICK l \in Nat : l = Len(file)
    BY <1>1
  <2>1. n \in Nat /\ n <= Len(file)
    BY <2>0
  <2>2. /\ n = Len(file) => R(file, n) = Verdict("ok", map)
        /\ n < Len(file) => R(file, n).st # "ok" /\ (R(file, n).map = before \/ PartOf(R(file, n).map, map))
    BY <2>1, LoadsFile DEF file
  <2>3. n = Len(file) \/ n < Len(file)
    BY <2>0, <2>1
  <2>4. file[1] # NoHeader
    BY <1>1, <1>2
  <2> HIDE DEF R
  <2> QED BY <2>2, <2>3, <2>4
<1>4. hole[1] = NoHeader /\ hole \in Seq(Word)
  <2>1. Tail(file) \in Seq(Word)
    BY <1>1
  <2> DEFINE t == Tail(file)
             a == <<NoHeader>>
  <2> HIDE DEF t
  <2>2. a \in Seq(Word) /\ Len(a) = 1 /\ a[1] = NoHeader
    BY WordsAre
  <2> HIDE DEF a
  <2>3. /\ a \o t \in Seq(Word) /\ Len(a \o t) = Len(a) + Len(t)
        /\ \A i \in 1..(Len(a) + Len(t)) : (a \o t)[i] = IF i <= Len(a) THEN a[i] ELSE t[i - Len(a)]
    BY <2>1, <2>2, ConcatProperties DEF t
  <2>4. 1 \in 1..(Len(a) + Len(t)) /\ 1 <= Len(a)
    BY <2>1, <2>2 DEF t
  <2> QED BY <2>2, <2>3, <2>4 DEF a, t
<1> HIDE DEF hole
<1>5. ASSUME NEW n \in 0..Len(hole) PROVE Judged(hole, n)
  <2> DEFINE g == Truncated(hole, n)
  <2>0. PICK l \in Nat : l = Len(hole)
    BY <1>4
  <2>1. n \in Nat /\ n <= Len(hole)
    BY <2>0
  <2>2. Len(g) = n /\ \A i \in 1..n : g[i] = hole[i]
    BY <1>4, <2>1, TruncatedIs
  <2>3. n # 0 => g[1] = NoHeader
    BY <1>4, <2>1, <2>2
  <2> HIDE DEF g
  <2>4. ReadHeader(g) # "ok"
    <3>1. CASE n = 0
      BY <2>2, <3>1 DEF ReadHeader, HeaderWords
    <3>2. CASE n # 0
      BY <1>2, <2>1, <2>2, <2>3, <3>2 DEF ReadHeader, HeaderWords
    <3> QED BY <3>1, <3>2
  <2>5. LoadFromPath(g, before).st # "ok" /\ LoadFromPath(g, before).map = before
    BY <2>4, LoadsNoHeader
  <2>6. R(hole, n).st # "ok" /\ R(hole, n).map = before
    BY <2>5 DEF g, Truncated
  <2> HIDE DEF R
  <2> QED BY <1>4, <2>6
<1>6. Stages(map) = {file, hole}
  BY DEF Stages, file, hole
<1>7. \A f \in Stages(map) : \A n \in 0..Len(f) : Judged(f, n)
  BY <1>3, <1>5, <1>6
<1> QED BY <1>7 DEF LoadsWholeOnly, PartOf

\* The store before the first write.
LEMMA EmptyIsMap == IsMap(<<>>)
<1>1. DOMAIN <<>> = {}
  OBVIOUS
<1>2. IsFiniteSet({})
  BY FS_EmptySet
<1>3. PICK e : e = <<>>
  OBVIOUS
<1>4. e = [k \in {} |-> e[k]]
  <2>1. <<>> = [k \in {} |-> e[k]]
    OBVIOUS
  <2> QED BY <1>3, <2>1
<1>5. IsMap(e)
  <2>1. DOMAIN e = {}
    BY <1>1, <1>3
  <2> QED BY <1>2, <1>4, <2>1 DEF IsMap
<1> QED BY <1>3, <1>5

\* A write leaves a store.
LEMMA AppliedIsMap ==
    ASSUME NEW map, IsMap(map), NEW ctx, IsWrite(ctx)
    PROVE  IsMap(Applied(map, ctx))
<1> DEFINE k == ctx.key
           v == ctx.element
           m == Applied(map, ctx)
           D == DOMAIN map
<1>1. /\ IsFiniteSet(D)
      /\ \A x \in D : x \in Seq(Byte) /\ x # <<>> /\ map[x] \in Seq(Byte)
  BY DEF IsMap
<1>2. k \in Seq(Byte) /\ k # <<>> /\ (ctx.cmd = "SET" => v \in Seq(Byte))
  BY DEF IsWrite, Short
<1>3. CASE ctx.cmd = "SET"
  <2>1. m = [x \in D \cup {k} |-> IF x = k THEN v ELSE map[x]]
    BY <1>3 DEF Applied
  <2> HIDE DEF k, v, m, D
  <2>2. IsFiniteSet(D \cup {k})
    BY <1>1, FS_AddElement
  <2>3. DOMAIN m = D \cup {k} /\ m = [x \in DOMAIN m |-> m[x]]
    BY <2>1
  <2>4. \A x \in D \cup {k} : x \in Seq(Byte) /\ x # <<>> /\ m[x] \in Seq(Byte)
    BY <1>1, <1>2, <1>3, <2>1
  <2>5. IsMap(m)
    BY <2>2, <2>3, <2>4 DEF IsMap
  <2> QED BY <2>5 DEF m
<1>4. CASE ctx.cmd # "SET"
  <2>1. m = [x \in D \ {k} |-> map[x]]
    BY <1>4 DEF Applied
  <2> HIDE DEF k, v, m, D
  <2>2. IsFiniteSet(D \ {k})
    BY <1>1, FS_RemoveElement
  <2>3. DOMAIN m = D \ {k} /\ m = [x \in DOMAIN m |-> m[x]]
    BY <2>1
  <2>4. \A x \in D \ {k} : x \in Seq(Byte) /\ x # <<>> /\ m[x] \in Seq(Byte)
    BY <1>1, <2>1
  <2>5. IsMap(m)
    BY <2>2, <2>3, <2>4 DEF IsMap
  <2> QED BY <2>5 DEF m
<1> QED BY <1>3, <1>4

\* The store and the image of the child are stores
MapInv == IsMap(srv.store) /\ IsMap(srv.image)

\* The server starts with an empty store.
LEMMA InitMapInv == Init => MapInv
<1> SUFFICES ASSUME Init PROVE MapInv
  OBVIOUS
<1>1. srv.store = <<>> /\ srv.image = <<>>
  BY DEF Init, InitSrv
<1> QED BY <1>1, EmptyIsMap DEF MapInv

\* MapInv is inductive: writes reach the store checked, and a child has a
\* store.
LEMMA NextMapInv ==
    MapInv /\ FedInv /\ IInv /\ SlaveInv /\ [Next]_vars => MapInv'
<1> SUFFICES ASSUME MapInv, FedInv, IInv, SlaveInv, [Next]_vars PROVE MapInv'
  OBVIOUS
<1>1. PICK ctx : Sound(ctx) /\ Mutated(srv, srv', ctx)
  BY StepMutates
<1>2. srv'.store = srv.store \/ (IsWrite(ctx) /\ srv'.store = Applied(srv.store, ctx))
  BY <1>1 DEF Mutated, Sound
<1>3. srv'.image = srv.image \/ srv'.image = srv.store
  BY <1>1 DEF Mutated
<1>4. IsMap(srv'.store)
  BY <1>2, AppliedIsMap DEF MapInv
<1>5. IsMap(srv'.image)
  BY <1>3 DEF MapInv
<1> QED BY <1>4, <1>5 DEF MapInv

\* The invariant says what LoadsSaved needs of the image.
LEMMA MapImplies == MapInv => SnapshotLoads
BY LoadsSaved DEF MapInv, SnapshotLoads

\* The snapshot that SnapshotManager's child writes is loaded as the store at
\* the fork; a file that was cut anywhere, or whose header was never written,
\* is refused, and what KvStore::LoadFrom left of it in the store is true of
\* the one that was saved.
THEOREM SnapshotLoadsWhole == Spec => []SnapshotLoads
<1>1. Init => MapInv
  BY InitMapInv
<1>2. MapInv /\ FedInv /\ IInv /\ SlaveInv /\ [Next]_vars => MapInv'
  BY NextMapInv
<1>3. MapInv => SnapshotLoads
  BY MapImplies
<1> QED BY <1>1, <1>2, <1>3, Invariance, SlaveInvariance, FedInvariance, PTL DEF Spec
=============================================================================
