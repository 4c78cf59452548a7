------------------------ MODULE InlineAofWriterProofs ------------------------
(***************************************************************************)
(* For every buffer size, number of writes in flight and number of         *)
(* failures: the io_uring writer loses nothing it was given unless it      *)
(* reports a failure, a Flush that returns true tells the truth, and no    *)
(* unit is in the file twice as long as no io_uring_submit fails.          *)
(*                                                                         *)
(* None of these is inductive.  The strengthening says what is left of the *)
(* call in progress and what its steps rely on (Control), that a write in  *)
(* pending_ has at most one request or completion in the ring, which is    *)
(* about exactly the rest of it (Writes), where each unit is (Kept), what  *)
(* dirty_ means (Covered), and that the buffer, the file and what the      *)
(* writes in pending_ still have to write share no unit (Once).            *)
(***************************************************************************)
EXTENDS InlineAofWriter, SequenceTheorems, TLAPS

Units == 1..MaxUnits
OpNames == {"append", "pieces", "flush", "submit", "sync", "ack", "drain",
            "flushed", "close", "peek", "poll", "pollsync"}
OpSet == [op : OpNames, must : BOOLEAN, n : Nat]
Sqe   == [ud : Nat, data : Seq(Units)]
Cqe   == [ud : Nat, res : Int]
Pw    == [ud : Nat, data : Seq(Units), written : Nat]

Typed == /\ TypeOK
         /\ pending \in Seq(Pw) /\ sq \in Seq(Sqe) /\ inflight \in Seq(Sqe)
         /\ cq \in Seq(Cqe) /\ todo \in Seq(OpSet) /\ next_ud \in Nat
         /\ submit_fails \in Nat /\ io_fails \in Nat
-----------------------------------------------------------------------------
(* What is left of a call: t is todo, b the buffer, u the units appended so  *)
(* far, p the pending writes, d dirty_, pol the policy.                      *)

Loads(o) == o.op \in {"append", "pieces"}

\* at most one step appends, and there is room for what it appends
Load(t, b, u) ==
    \A i \in 1..Len(t) : Loads(t[i]) =>
        /\ i <= 2 /\ t[i].n > 0 /\ u + t[i].n <= MaxUnits
        /\ i = 1 => IF t[i].op = "append" THEN Len(b) + t[i].n <= HardCap ELSE b = <<>>
        /\ i = 2 => /\ t[1].op \in {"flush", "submit"} /\ t[1].must
                    /\ t[i].op = "append" => t[i].n <= HardCap
        /\ \A j \in 1..Len(t) : Loads(t[j]) => j = i

\* Enqueue returns true for what it has appended by then
Acks(t, u) ==
    \A i \in 1..Len(t) : t[i].op = "ack" =>
        /\ i = Len(t)
        /\ t[i].n <= u \/ \E j \in 1..Len(t) : Loads(t[j]) /\ t[i].n <= u + t[j].n

\* Flush() returns behind the flush, the drain and the sync
Flushing(t, b, p, d, pol) ==
    \A i \in 1..Len(t) : t[i].op = "flushed" =>
        /\ i <= 4
        /\ i = 4 => t[1].op \in {"flush", "submit"} /\ t[1].must
        /\ i = 4 => t[2].op = "drain" /\ t[2].must
        /\ i = 3 => t[1].op = "drain" /\ t[1].must
        /\ i >= 2 => t[i - 1].op = "sync" /\ t[i - 1].must
        /\ i <= 3 => b = <<>>
        /\ i <= 2 => p = <<>>
        /\ i = 1 => pol = "no" \/ ~d

\* the ring is closed at the end of Stop() only
Closing(t, st, ri) ==
    /\ \A i \in 1..Len(t) : t[i].op = "close" => i = Len(t) /\ st
    /\ ~ri => st /\ t = <<>>

Unflushed(t, fl) == \A i \in 1..Len(t) : Loads(t[i]) => fl = "none"

Control == /\ Load(todo, buf, units) /\ Acks(todo, units)
           /\ Flushing(todo, buf, pending, dirty, policy)
           /\ Closing(todo, stopped, ring_inited) /\ Unflushed(todo, flushed)
-----------------------------------------------------------------------------
(* A pending write pw and the ring: s, f and c are the queues of requests    *)
(* prepared, in flight and completed, fl the file.                           *)

IsRest(d, pw) == /\ Len(d) = Len(pw.data) - pw.written
                 /\ \A j \in 1..Len(d) : d[j] = pw.data[pw.written + j]

Lands(pw, k, fl) == k > 0 => /\ k <= Len(pw.data) - pw.written
                             /\ \A j \in 1..k : pw.data[pw.written + j] \in ToSet(fl)

Sound(pw, s, f, c, fl) ==
    /\ pw.written <= Len(pw.data)
    /\ \A a \in 1..Len(s) : s[a].ud # pw.ud
    /\ \A a \in 1..Len(f) : f[a].ud = pw.ud =>
          /\ IsRest(f[a].data, pw)
          /\ \A b \in 1..Len(f) : f[b].ud = pw.ud => a = b
    /\ \A a \in 1..Len(c) : c[a].ud = pw.ud =>
          /\ Lands(pw, c[a].res, fl)
          /\ \A b \in 1..Len(f) : f[b].ud # pw.ud
          /\ \A b \in 1..Len(c) : c[b].ud = pw.ud => a = b

\* no request has the user_data of the next write
Below(q, m) == \A i \in 1..Len(q) : q[i].ud < m
Fresh == /\ Below(pending, next_ud) /\ Below(sq, next_ud)
         /\ Below(inflight, next_ud) /\ Below(cq, next_ud)

Distinct(p) == \A i, j \in 1..Len(p) : p[i].ud = p[j].ud => i = j
Writes == /\ Distinct(pending)
          /\ \A i \in 1..Len(pending) : Sound(pending[i], sq, inflight, cq, file)

InRest(u, pw) == \E j \in 1..Len(pw.data) : j > pw.written /\ pw.data[j] = u

\* unit u is in the file or will still be written
Held(u, fl, b, p) == \/ u \in ToSet(fl) \/ u \in ToSet(b)
                     \/ \E i \in 1..Len(p) : InRest(u, p[i])

Kept == ~io_failed /\ ring_inited =>
    \A u \in 1..units : Held(u, file, buf, pending)

\* dirty_ is false only when the completed writes were synced
Synced(u, sy, b, p) == \/ u \in sy \/ u \in ToSet(b)
                       \/ \E i \in 1..Len(p) : u \in ToSet(p[i].data)

Covered == ~io_failed /\ ring_inited /\ policy # "no" /\ ~dirty =>
    \A u \in 1..units : Synced(u, synced, buf, pending)

AofInv == Typed /\ Control /\ Fresh /\ Writes /\ Kept /\ Covered /\ FlushHonest
-----------------------------------------------------------------------------
(* Queues *)

\* q2 is q with x behind it
Grown(q, q2, x) == /\ Len(q2) = Len(q) + 1 /\ q2[Len(q) + 1] = x
                   /\ \A i \in 1..Len(q) : q2[i] = q[i]

\* q2 is q without its i-th element
Cut(q, q2, i) == /\ Len(q2) = Len(q) - 1
                 /\ \A j \in 1..Len(q2) : q2[j] = IF j < i THEN q[j] ELSE q[j + 1]

\* f2 is f with s and x behind it
Joined(f, s, x, f2) == /\ Len(f2) = Len(f) + Len(s) + 1
                       /\ f2[Len(f) + Len(s) + 1] = x
                       /\ \A i \in 1..Len(f) : f2[i] = f[i]
                       /\ \A i \in 1..Len(s) : f2[Len(f) + i] = s[i]

LEMMA AppendIs ==
    ASSUME NEW S, NEW q \in Seq(S), NEW x \in S
    PROVE  Append(q, x) \in Seq(S) /\ Grown(q, Append(q, x), x)
BY AppendProperties DEF Grown

LEMMA TailIs ==
    ASSUME NEW S, NEW q \in Seq(S), q # <<>>
    PROVE  /\ Head(q) \in S /\ Head(q) = q[1] /\ Len(q) >= 1
           /\ Tail(q) \in Seq(S) /\ Cut(q, Tail(q), 1)
<1>1. /\ Head(q) \in S /\ Tail(q) \in Seq(S) /\ Len(Tail(q)) = Len(q) - 1
      /\ \A i \in 1..Len(Tail(q)) : Tail(q)[i] = q[i + 1]
  BY HeadTailProperties
<1>2. Head(q) = q[1] /\ Len(q) >= 1
  OBVIOUS
<1>3. Cut(q, Tail(q), 1)
  BY <1>1 DEF Cut
<1> QED BY <1>1, <1>2, <1>3

LEMMA RemoveAtIs ==
    ASSUME NEW S, NEW q \in Seq(S), NEW i \in 1..Len(q)
    PROVE  RemoveAt(q, i) \in Seq(S) /\ Cut(q, RemoveAt(q, i), i)
<1> DEFINE a == SubSeq(q, 1, i - 1)
           b == SubSeq(q, i + 1, Len(q))
<1>0. Len(q) \in Nat
  OBVIOUS
<1>1. /\ a \in Seq(S) /\ Len(a) = IF 1 <= i - 1 THEN i - 1 - 1 + 1 ELSE 0
      /\ \A j \in 1..(i - 1 - 1 + 1) : a[j] = q[1 + j - 1]
  <2>1. \A j \in 1..(i - 1) : q[j] \in S
    OBVIOUS
  <2> QED BY <2>1, SubSeqProperties
<1>2. /\ b \in Seq(S) /\ Len(b) = IF i + 1 <= Len(q) THEN Len(q) - (i + 1) + 1 ELSE 0
      /\ \A j \in 1..(Len(q) - (i + 1) + 1) : b[j] = q[(i + 1) + j - 1]
  <2>1. \A j \in (i + 1)..Len(q) : q[j] \in S
    OBVIOUS
  <2> QED BY <1>0, <2>1, SubSeqProperties
<1>3. Len(a) = i - 1 /\ Len(b) = Len(q) - i
  BY <1>0, <1>1, <1>2
<1>4. PICK x \in Seq(S) : x = a
  BY <1>1, Zenon
<1>5. PICK y \in Seq(S) : y = b
  BY <1>2, Zenon
<1>6. /\ x \o y \in Seq(S) /\ Len(x \o y) = Len(x) + Len(y)
      /\ \A j \in 1..(Len(x) + Len(y)) :
            (x \o y)[j] = IF j <= Len(x) THEN x[j] ELSE y[j - Len(x)]
  BY ConcatProperties
<1>7. PICK z \in Seq(S) : z = x \o y
  BY <1>6, Zenon
<1>8. RemoveAt(q, i) = z
  BY <1>4, <1>5, <1>7, Zenon DEF RemoveAt
<1>9. Len(x) = i - 1 /\ Len(y) = Len(q) - i
  BY <1>3, <1>4, <1>5
<1>10. ASSUME NEW j \in 1..Len(z) PROVE z[j] = IF j < i THEN q[j] ELSE q[j + 1]
  <2>0. j \in 1..(Len(q) - 1) /\ z[j] = IF j <= i - 1 THEN x[j] ELSE y[j - (i - 1)]
    BY <1>0, <1>6, <1>7, <1>9, SMTT(40)
  <2>1. CASE j < i
    <3>1. j \in 1..(i - 1 - 1 + 1) /\ 1 + j - 1 = j
      BY <2>0, <2>1
    <3>2. x[j] = q[j]
      BY <3>1, <1>1, <1>4
    <3> QED BY <2>0, <2>1, <3>2
  <2>2. CASE ~(j < i)
    <3>1. j - (i - 1) \in 1..(Len(q) - (i + 1) + 1) /\ (i + 1) + (j - (i - 1)) - 1 = j + 1
      BY <2>0, <2>2, <1>0
    <3>2. y[j - (i - 1)] = q[j + 1]
      BY <3>1, <1>2, <1>5
    <3> QED BY <2>0, <2>2, <3>2
  <2> QED BY <2>1, <2>2
<1>11. Len(z) = Len(q) - 1
  BY <1>0, <1>6, <1>7, <1>9, SMTT(40)
<1> QED BY <1>8, <1>10, <1>11 DEF Cut

LEMMA CutKeeps ==
    ASSUME NEW q, NEW p, NEW i \in 1..Len(q), Len(q) \in Nat, Cut(q, p, i),
           NEW k \in 1..Len(q), k # i
    PROVE  \E j \in 1..Len(p) : p[j] = q[k]
<1>1. Len(p) = Len(q) - 1
  BY DEF Cut
<1>2. CASE k < i
  <2>1. k \in 1..Len(p)
    BY <1>1, <1>2
  <2>2. p[k] = q[k]
    BY <1>2, <2>1 DEF Cut
  <2> QED BY <2>1, <2>2
<1>3. CASE ~(k < i)
  <2>1. k - 1 \in 1..Len(p) /\ ~(k - 1 < i) /\ (k - 1) + 1 = k
    BY <1>1, <1>3
  <2>2. p[k - 1] = q[(k - 1) + 1]
    BY <2>1 DEF Cut
  <2> QED BY <2>1, <2>2
<1> QED BY <1>2, <1>3

LEMMA JoinIs ==
    ASSUME NEW S, NEW f \in Seq(S), NEW s \in Seq(S), NEW x \in S
    PROVE  f \o Append(s, x) \in Seq(S) /\ Joined(f, s, x, f \o Append(s, x))
<1>1. PICK g \in Seq(S) : g = Append(s, x)
  BY AppendProperties, Zenon
<1>2. Len(g) = Len(s) + 1 /\ g[Len(s) + 1] = x /\ \A i \in 1..Len(s) : g[i] = s[i]
  BY <1>1, AppendProperties
<1>3. /\ f \o g \in Seq(S) /\ Len(f \o g) = Len(f) + Len(g)
      /\ \A i \in 1..(Len(f) + Len(g)) : (f \o g)[i] = IF i <= Len(f) THEN f[i] ELSE g[i - Len(f)]
  BY ConcatProperties
<1>4. PICK z \in Seq(S) : z = f \o g
  BY <1>3, Zenon
<1>5. Len(f) \in Nat /\ Len(s) \in Nat
  OBVIOUS
<1>6. /\ Len(z) = Len(f) + Len(s) + 1
      /\ \A i \in 1..(Len(f) + Len(s) + 1) : z[i] = IF i <= Len(f) THEN f[i] ELSE g[i - Len(f)]
  BY <1>2, <1>3, <1>4, <1>5
<1>7. z[Len(f) + Len(s) + 1] = x
  <2>1. (Len(f) + Len(s) + 1) - Len(f) = Len(s) + 1 /\ ~(Len(f) + Len(s) + 1 <= Len(f))
        /\ Len(f) + Len(s) + 1 \in 1..(Len(f) + Len(s) + 1)
    BY <1>5
  <2> QED BY <2>1, <1>2, <1>6
<1>8. ASSUME NEW i \in 1..Len(f) PROVE z[i] = f[i]
  BY <1>5, <1>6
<1>9. ASSUME NEW i \in 1..Len(s) PROVE z[Len(f) + i] = s[i]
  <2>1. (Len(f) + i) - Len(f) = i /\ ~(Len(f) + i <= Len(f))
        /\ Len(f) + i \in 1..(Len(f) + Len(s) + 1)
    BY <1>5
  <2> QED BY <2>1, <1>2, <1>6
<1>10. Joined(f, s, x, z)
  BY <1>6, <1>7, <1>8, <1>9 DEF Joined
<1> QED BY <1>1, <1>4, <1>10, Zenon

LEMMA InToSet ==
    ASSUME NEW S, NEW q \in Seq(S)
    PROVE  \A u : u \in ToSet(q) <=> \E j \in 1..Len(q) : q[j] = u
BY DEF ToSet

LEMMA ToSetIn ==
    ASSUME NEW S, NEW q \in Seq(S)
    PROVE  ToSet(q) \subseteq S
<1>1. ASSUME NEW u \in ToSet(q) PROVE u \in S
  <2>1. PICK j \in 1..Len(q) : q[j] = u
    BY InToSet
  <2> QED BY <2>1
<1> QED BY <1>1

(* What is in s \o t is in one of them.                                      *)
LEMMA ToSetConcat ==
    ASSUME NEW S, NEW s \in Seq(S), NEW t \in Seq(S)
    PROVE  /\ s \o t \in Seq(S) /\ Len(s \o t) = Len(s) + Len(t)
           /\ ToSet(s \o t) = ToSet(s) \cup ToSet(t)
<1>1. /\ s \o t \in Seq(S) /\ Len(s \o t) = Len(s) + Len(t)
      /\ \A i \in 1..(Len(s) + Len(t)) : (s \o t)[i] = IF i <= Len(s) THEN s[i] ELSE t[i - Len(s)]
  BY ConcatProperties
<1>2. PICK z \in Seq(S) : z = s \o t
  BY <1>1, Zenon
<1>3. Len(s) \in Nat /\ Len(t) \in Nat
  OBVIOUS
<1>4. /\ Len(z) = Len(s) + Len(t)
      /\ \A i \in 1..(Len(s) + Len(t)) : z[i] = IF i <= Len(s) THEN s[i] ELSE t[i - Len(s)]
  BY <1>1, <1>2
<1>5. ASSUME NEW u \in ToSet(z) PROVE u \in ToSet(s) \cup ToSet(t)
  <2>1. PICK j \in 1..Len(z) : z[j] = u
    BY InToSet
  <2>2. CASE j <= Len(s)
    <3>1. j \in 1..Len(s) /\ s[j] = u
      BY <1>3, <1>4, <2>1, <2>2
    <3> QED BY <3>1, InToSet
  <2>3. CASE ~(j <= Len(s))
    <3>1. j - Len(s) \in 1..Len(t) /\ t[j - Len(s)] = u
      BY <1>3, <1>4, <2>1, <2>3
    <3> QED BY <3>1, InToSet
  <2> QED BY <2>2, <2>3
<1>6. ASSUME NEW u \in ToSet(s) PROVE u \in ToSet(z)
  <2>1. PICK j \in 1..Len(s) : s[j] = u
    BY InToSet
  <2>2. j \in 1..Len(z) /\ z[j] = u
    BY <1>3, <1>4, <2>1
  <2> QED BY <2>2, InToSet
<1>7. ASSUME NEW u \in ToSet(t) PROVE u \in ToSet(z)
  <2>1. PICK j \in 1..Len(t) : t[j] = u
    BY InToSet
  <2>2. Len(s) + j \in 1..Len(z) /\ (Len(s) + j) - Len(s) = j /\ ~(Len(s) + j <= Len(s))
    BY <1>3, <1>4
  <2>3. z[Len(s) + j] = u
    BY <1>3, <1>4, <2>1, <2>2
  <2> QED BY <2>2, <2>3, InToSet
<1>8. ToSet(z) = ToSet(s) \cup ToSet(t)
  BY <1>5, <1>6, <1>7
<1> QED BY <1>1, <1>2, <1>8, Zenon

-----------------------------------------------------------------------------
(* A pending write while the ring changes *)

LEMMA Thirds ==
    ASSUME NEW l \in Nat, NEW m \in Nat, NEW a \in 1..(l + m + 1)
    PROVE  a \in 1..l \/ a = l + m + 1 \/ \E i \in 1..m : a = l + i
<1>1. CASE a > l /\ a # l + m + 1
  <2>1. a - l \in 1..m /\ a = l + (a - l)
    BY <1>1
  <2> QED BY <2>1
<1> QED BY <1>1

(* An element of f with s and x behind it.                                   *)
LEMMA JoinedAt ==
    ASSUME NEW f, NEW s, NEW x, NEW f2, Len(f) \in Nat, Len(s) \in Nat,
           Joined(f, s, x, f2), NEW a \in 1..Len(f2)
    PROVE  \/ a \in 1..Len(f) /\ f2[a] = f[a]
           \/ a = Len(f) + Len(s) + 1 /\ f2[a] = x
           \/ \E i \in 1..Len(s) : f2[a] = s[i]
<1>1. a \in 1..(Len(f) + Len(s) + 1)
  BY DEF Joined
<1>2. a \in 1..Len(f) \/ a = Len(f) + Len(s) + 1 \/ \E i \in 1..Len(s) : a = Len(f) + i
  BY <1>1, Thirds
<1> QED BY <1>2 DEF Joined

(* A request of another write is left in the submission queue.               *)
LEMMA SoundPrepared ==
    ASSUME NEW pw, NEW s, NEW s2, NEW f, NEW c, NEW fl, NEW e, Len(s) \in Nat,
           Sound(pw, s, f, c, fl), Grown(s, s2, e), e.ud # pw.ud
    PROVE  Sound(pw, s2, f, c, fl)
<1>1. ASSUME NEW a \in 1..Len(s2) PROVE s2[a].ud # pw.ud
  <2>1. a \in 1..Len(s) \/ a = Len(s) + 1
    BY DEF Grown
  <2> QED BY <2>1 DEF Grown, Sound
<1> QED BY <1>1 DEF Sound

(* The requests of the submission queue and one of another write are         *)
(* submitted.                                                                *)
LEMMA SoundSubmitted ==
    ASSUME NEW pw, NEW s, NEW f, NEW f2, NEW c, NEW fl, NEW e,
           Len(s) \in Nat, Len(f) \in Nat,
           Sound(pw, s, f, c, fl), Joined(f, s, e, f2), e.ud # pw.ud
    PROVE  Sound(pw, <<>>, f2, c, fl)
<1>1. ASSUME NEW a \in 1..Len(f2), f2[a].ud = pw.ud PROVE a \in 1..Len(f) /\ f2[a] = f[a]
  BY <1>1, JoinedAt DEF Sound
<1>2. \A a \in 1..Len(f2) : f2[a].ud = pw.ud =>
          /\ IsRest(f2[a].data, pw)
          /\ \A b \in 1..Len(f2) : f2[b].ud = pw.ud => a = b
  BY <1>1 DEF Sound
<1>3. \A a \in 1..Len(c) : c[a].ud = pw.ud => \A b \in 1..Len(f2) : f2[b].ud # pw.ud
  BY <1>1 DEF Sound
<1> QED BY <1>2, <1>3 DEF Sound

(* A completion is taken from the queue.                                     *)
LEMMA SoundSeen ==
    ASSUME NEW pw, NEW s, NEW f, NEW c, NEW c2, NEW fl, Len(c) \in Nat,
           Sound(pw, s, f, c, fl), Cut(c, c2, 1)
    PROVE  Sound(pw, s, f, c2, fl)
<1>1. ASSUME NEW a \in 1..Len(c2) PROVE a + 1 \in 1..Len(c) /\ c2[a] = c[a + 1]
  BY DEF Cut
<1>2. ASSUME NEW a \in 1..Len(c2), NEW b \in 1..Len(c2), c2[a].ud = pw.ud, c2[b].ud = pw.ud
      PROVE  a = b
  <2>1. a + 1 = b + 1
    BY <1>1, <1>2 DEF Sound
  <2> QED BY <2>1
<1>3. ASSUME NEW a \in 1..Len(c2), c2[a].ud = pw.ud
      PROVE  Lands(pw, c2[a].res, fl) /\ \A b \in 1..Len(f) : f[b].ud # pw.ud
  BY <1>1, <1>3 DEF Sound
<1> QED BY <1>2, <1>3 DEF Sound

(* The kernel executes a request of another write.                           *)
LEMMA SoundOther ==
    ASSUME NEW pw, NEW s, NEW f, NEW f2, NEW c, NEW c2, NEW fl, NEW fl2, NEW x,
           Len(c) \in Nat, Len(f) \in Nat, NEW i \in 1..Len(f), ToSet(fl) \subseteq ToSet(fl2),
           Sound(pw, s, f, c, fl), Cut(f, f2, i), Grown(c, c2, x), x.ud = f[i].ud,
           x.ud # pw.ud
    PROVE  Sound(pw, s, f2, c2, fl2)
<1>1. ASSUME NEW a \in 1..Len(f2)
      PROVE  \E b \in 1..Len(f) : f2[a] = f[b] /\ b = IF a < i THEN a ELSE a + 1
  BY DEF Cut
<1>2. ASSUME NEW a \in 1..Len(c2), c2[a].ud = pw.ud PROVE a \in 1..Len(c) /\ c2[a] = c[a]
  BY <1>2 DEF Grown
<1>3. ASSUME NEW a \in 1..Len(f2), f2[a].ud = pw.ud PROVE IsRest(f2[a].data, pw)
  BY <1>1, <1>3 DEF Sound
<1>4. ASSUME NEW a \in 1..Len(f2), NEW b \in 1..Len(f2), f2[a].ud = pw.ud, f2[b].ud = pw.ud
      PROVE  a = b
  <2>1. PICK a1 \in 1..Len(f) : f2[a] = f[a1] /\ a1 = IF a < i THEN a ELSE a + 1
    BY <1>1
  <2>2. PICK b1 \in 1..Len(f) : f2[b] = f[b1] /\ b1 = IF b < i THEN b ELSE b + 1
    BY <1>1
  <2>3. a1 = b1
    BY <1>4, <2>1, <2>2 DEF Sound
  <2> QED BY <2>1, <2>2, <2>3
<1>5. ASSUME NEW a \in 1..Len(c2), c2[a].ud = pw.ud
      PROVE  /\ Lands(pw, c2[a].res, fl2)
             /\ \A b \in 1..Len(f2) : f2[b].ud # pw.ud
             /\ \A b \in 1..Len(c2) : c2[b].ud = pw.ud => a = b
  <2>1. Lands(pw, c[a].res, fl) /\ a \in 1..Len(c) /\ c2[a] = c[a]
    BY <1>2, <1>5 DEF Sound
  <2>2. Lands(pw, c2[a].res, fl2)
    BY <2>1 DEF Lands
  <2>3. \A b \in 1..Len(f2) : f2[b].ud # pw.ud
    BY <1>1, <1>5, <2>1 DEF Sound
  <2>4. ASSUME NEW b \in 1..Len(c2), c2[b].ud = pw.ud PROVE a = b
    BY <1>2, <1>5, <2>1, <2>4 DEF Sound
  <2> QED BY <2>2, <2>3, <2>4
<1> QED BY <1>3, <1>4, <1>5 DEF Sound

(* The kernel executes its request.                                          *)
LEMMA SoundExecuted ==
    ASSUME NEW pw, NEW s, NEW f, NEW f2, NEW c, NEW c2, NEW fl, NEW fl2, NEW x,
           Len(c) \in Nat, Len(f) \in Nat, NEW i \in 1..Len(f),
           Sound(pw, s, f, c, fl), Cut(f, f2, i), Grown(c, c2, x), x.ud = f[i].ud,
           x.ud = pw.ud, Lands(pw, x.res, fl2)
    PROVE  Sound(pw, s, f2, c2, fl2)
<1>1. ASSUME NEW a \in 1..Len(f2) PROVE f2[a].ud # pw.ud
  <2>1. PICK b \in 1..Len(f) : f2[a] = f[b] /\ b = IF a < i THEN a ELSE a + 1
    BY DEF Cut
  <2>2. b # i
    BY <2>1
  <2> QED BY <2>1, <2>2 DEF Sound
<1>2. \A a \in 1..Len(c) : c[a].ud # pw.ud
  BY DEF Sound
<1>3. ASSUME NEW a \in 1..Len(c2), c2[a].ud = pw.ud PROVE a = Len(c) + 1 /\ c2[a] = x
  BY <1>2, <1>3 DEF Grown
<1> QED BY <1>1, <1>3 DEF Sound

(* A short write: the rest of it is submitted again.                         *)
LEMMA SoundAgain ==
    ASSUME NEW pw \in Pw, NEW pw2 \in Pw, NEW s, NEW f, NEW f2, NEW c, NEW c2, NEW fl,
           NEW e, Len(s) \in Nat, Len(f) \in Nat, Len(c) \in Nat, Len(c) >= 1,
           Sound(pw, s, f, c, fl), c[1].ud = pw.ud, Cut(c, c2, 1), Joined(f, s, e, f2),
           pw2.ud = pw.ud, pw2.data = pw.data,
           pw2.written <= Len(pw2.data), e.ud = pw.ud, IsRest(e.data, pw2)
    PROVE  Sound(pw2, <<>>, f2, c2, fl)
<1>0. 1 \in 1..Len(c)
  OBVIOUS
<1>1. \A b \in 1..Len(f) : f[b].ud # pw.ud
  BY <1>0 DEF Sound
<1>2. ASSUME NEW a \in 1..Len(f2), f2[a].ud = pw.ud PROVE a = Len(f) + Len(s) + 1 /\ f2[a] = e
  BY <1>1, <1>2, JoinedAt DEF Sound
<1>3. ASSUME NEW a \in 1..Len(c2) PROVE c2[a].ud # pw.ud
  <2>1. a + 1 \in 1..Len(c) /\ c2[a] = c[a + 1] /\ a + 1 # 1
    BY DEF Cut
  <2> QED BY <2>1, <1>0 DEF Sound
<1>4. \A a \in 1..Len(f2) : f2[a].ud = pw2.ud =>
          /\ IsRest(f2[a].data, pw2)
          /\ \A b \in 1..Len(f2) : f2[b].ud = pw2.ud => a = b
  BY <1>2
<1>5. Len(<<>>) = 0
  OBVIOUS
<1> QED BY <1>3, <1>4, <1>5 DEF Sound

-----------------------------------------------------------------------------
(* What is left of a call when its first step is through *)

LEMMA LoadDone ==
    ASSUME NEW t, NEW t2, NEW b, NEW b2, NEW u, Len(t) \in Nat, Len(t) >= 1,
           Cut(t, t2, 1), Load(t, b, u), ~Loads(t[1]),
           t[1].op \in {"flush", "submit"} /\ t[1].must => b2 = <<>>,
           \A i \in 1..Len(t) : t[i].n \in Nat
    PROVE  Load(t2, b2, u)
<1>0. ASSUME NEW i \in 1..Len(t2) PROVE i + 1 \in 1..Len(t) /\ t2[i] = t[i + 1]
  BY DEF Cut
<1> SUFFICES ASSUME NEW i \in 1..Len(t2), Loads(t2[i])
             PROVE  /\ i <= 2 /\ t2[i].n > 0 /\ u + t2[i].n <= MaxUnits
                    /\ i = 1 => IF t2[i].op = "append" THEN Len(b2) + t2[i].n <= HardCap
                                ELSE b2 = <<>>
                    /\ i = 2 => FALSE
                    /\ \A j \in 1..Len(t2) : Loads(t2[j]) => j = i
  BY DEF Load
<1>1. i + 1 \in 1..Len(t) /\ t2[i] = t[i + 1] /\ Loads(t[i + 1])
  BY <1>0
<1>2. /\ i + 1 <= 2 /\ t[i + 1].n > 0 /\ u + t[i + 1].n <= MaxUnits
      /\ i + 1 = 2 => /\ t[1].op \in {"flush", "submit"} /\ t[1].must
                      /\ t[i + 1].op = "append" => t[i + 1].n <= HardCap
      /\ \A j \in 1..Len(t) : Loads(t[j]) => j = i + 1
  BY <1>1 DEF Load
<1>3. i = 1 /\ b2 = <<>> /\ Len(b2) = 0
  BY <1>2
<1>4. ASSUME NEW j \in 1..Len(t2), Loads(t2[j]) PROVE j = i
  <2>1. j + 1 = i + 1
    BY <1>0, <1>2, <1>4
  <2> QED BY <2>1
<1> QED BY <1>1, <1>2, <1>3, <1>4

LEMMA AcksDone ==
    ASSUME NEW t, NEW t2, NEW u, Len(t) \in Nat, Len(t) >= 1,
           Cut(t, t2, 1), Acks(t, u), ~Loads(t[1])
    PROVE  Acks(t2, u)
<1>0. ASSUME NEW i \in 1..Len(t2) PROVE i + 1 \in 1..Len(t) /\ t2[i] = t[i + 1]
  BY DEF Cut
<1> SUFFICES ASSUME NEW i \in 1..Len(t2), t2[i].op = "ack"
             PROVE  /\ i = Len(t2)
                    /\ \/ t2[i].n <= u
                       \/ \E j \in 1..Len(t2) : Loads(t2[j]) /\ t2[i].n <= u + t2[j].n
  BY DEF Acks
<1>1. /\ i + 1 = Len(t) /\ t2[i] = t[i + 1]
      /\ \/ t[i + 1].n <= u
         \/ \E j \in 1..Len(t) : Loads(t[j]) /\ t[i + 1].n <= u + t[j].n
  BY <1>0 DEF Acks
<1>2. i = Len(t2)
  BY <1>1 DEF Cut
<1>3. ASSUME NEW j \in 1..Len(t), Loads(t[j]), t[i + 1].n <= u + t[j].n
      PROVE  \E l \in 1..Len(t2) : Loads(t2[l]) /\ t2[i].n <= u + t2[l].n
  <2>1. j - 1 \in 1..Len(t2) /\ (j - 1) + 1 = j
    <3>1. j # 1
      BY <1>3
    <3> QED BY <3>1 DEF Cut
  <2>2. t2[j - 1] = t[j]
    BY <2>1, <1>0
  <2> QED BY <1>1, <1>3, <2>1, <2>2
<1> QED BY <1>1, <1>2, <1>3

LEMMA FlushingDone ==
    ASSUME NEW t, NEW t2, NEW b, NEW b2, NEW p, NEW p2, NEW d, NEW d2, NEW pol,
           Len(t) \in Nat, Len(t) >= 1, Cut(t, t2, 1), Flushing(t, b, p, d, pol),
           t[1].must => /\ t[1].op \in {"flush", "submit"} => b2 = <<>>
                        /\ t[1].op = "drain" => b2 = b /\ p2 = <<>>
                        /\ t[1].op = "sync" => /\ b2 = b /\ p2 = p
                                               /\ pol = "no" \/ ~d2
    PROVE  Flushing(t2, b2, p2, d2, pol)
<1>0. ASSUME NEW i \in 1..Len(t2) PROVE i + 1 \in 1..Len(t) /\ t2[i] = t[i + 1]
  BY DEF Cut
<1> SUFFICES ASSUME NEW i \in 1..Len(t2), t2[i].op = "flushed"
             PROVE  /\ i <= 3
                    /\ i = 3 => t2[1].op = "drain" /\ t2[1].must
                    /\ i >= 2 => t2[i - 1].op = "sync" /\ t2[i - 1].must
                    /\ i <= 3 => b2 = <<>>
                    /\ i <= 2 => p2 = <<>>
                    /\ i = 1 => pol = "no" \/ ~d2
  BY DEF Flushing
<1>1. i + 1 \in 1..Len(t) /\ t[i + 1].op = "flushed" /\ i + 1 >= 2
  BY <1>0
<1>2. i + 1 <= 4 /\ t[i].op = "sync" /\ t[i].must
  <2>1. (i + 1) - 1 = i
    OBVIOUS
  <2> QED BY <1>1, <2>1 DEF Flushing
<1>3. CASE i = 3
  <2>1. t[1].op \in {"flush", "submit"} /\ t[1].must /\ t[2].op = "drain" /\ t[2].must
    BY <1>1, <1>3 DEF Flushing
  <2>2. t2[1] = t[2] /\ t2[2] = t[3]
    BY <1>0, <1>3
  <2> QED BY <1>2, <1>3, <2>1, <2>2
<1>4. CASE i = 2
  <2>1. t[1].op = "drain" /\ t[1].must /\ b = <<>>
    BY <1>1, <1>4 DEF Flushing
  <2>2. t2[1] = t[2]
    BY <1>0, <1>4
  <2> QED BY <1>2, <1>4, <2>1, <2>2
<1>5. CASE i = 1
  <2>1. t[1].op = "sync" /\ t[1].must /\ b = <<>> /\ p = <<>>
    BY <1>1, <1>2, <1>5 DEF Flushing
  <2> QED BY <1>5, <2>1
<1> QED BY <1>2, <1>3, <1>4, <1>5

LEMMA ClosingDone ==
    ASSUME NEW t, NEW t2, NEW st, NEW ri, t # <<>>, Len(t) \in Nat, Len(t) >= 1,
           Cut(t, t2, 1), Closing(t, st, ri)
    PROVE  Closing(t2, st, ri)
<1>1. ASSUME NEW i \in 1..Len(t2), t2[i].op = "close" PROVE i = Len(t2) /\ st
  <2>1. i + 1 \in 1..Len(t) /\ t2[i] = t[i + 1]
    BY DEF Cut
  <2>2. i + 1 = Len(t) /\ st
    BY <1>1, <2>1 DEF Closing
  <2> QED BY <2>2 DEF Cut
<1> QED BY <1>1 DEF Closing

LEMMA UnflushedDone ==
    ASSUME NEW t, NEW t2, NEW b, NEW u, NEW fl, NEW fl2, Len(t) \in Nat, Len(t) >= 1,
           Cut(t, t2, 1), Unflushed(t, fl), Load(t, b, u),
           t[1].op \in {"flush", "submit"} => fl2 = fl
    PROVE  Unflushed(t2, fl2)
<1> SUFFICES ASSUME NEW i \in 1..Len(t2), Loads(t2[i]) PROVE fl2 = "none"
  BY DEF Unflushed
<1>1. i + 1 \in 1..Len(t) /\ t2[i] = t[i + 1]
  BY DEF Cut
<1>2. i + 1 <= 2 /\ fl = "none"
  BY <1>1 DEF Load, Unflushed
<1>3. i + 1 = 2
  BY <1>2
<1>4. t[1].op \in {"flush", "submit"}
  BY <1>1, <1>3 DEF Load
<1> QED BY <1>2, <1>4

LEMMA NamesAre ==
    /\ "append" \in OpNames /\ "pieces" \in OpNames /\ "flush" \in OpNames
    /\ "submit" \in OpNames /\ "sync" \in OpNames /\ "ack" \in OpNames
    /\ "drain" \in OpNames /\ "flushed" \in OpNames /\ "close" \in OpNames
    /\ "peek" \in OpNames /\ "poll" \in OpNames /\ "pollsync" \in OpNames
BY DEF OpNames

LEMMA OpsTyped ==
    ASSUME NEW x \in OpNames
    PROVE  /\ Must(x) \in OpSet /\ Must(x).op = x /\ Must(x).must
           /\ Try(x) \in OpSet /\ Try(x).op = x
BY DEF Must, Try, Op, OpSet

LEMMA ArgTyped ==
    ASSUME NEW x \in OpNames, NEW n \in Nat
    PROVE  Arg(x, n) \in OpSet /\ Arg(x, n).op = x /\ Arg(x, n).n = n
BY DEF Arg, OpSet

LEMMA TodoTyped ==
    ASSUME Typed, todo # <<>>
    PROVE  /\ Len(todo) \in Nat /\ Len(todo) >= 1 /\ Head(todo) = todo[1]
           /\ todo[1] \in OpSet /\ Tail(todo) \in Seq(OpSet) /\ Cut(todo, Tail(todo), 1)
           /\ \A i \in 1..Len(todo) : todo[i].n \in Nat
<1>1. todo \in Seq(OpSet)
  BY DEF Typed
<1>2. \A i \in 1..Len(todo) : todo[i] \in OpSet
  BY <1>1
<1>3. \A i \in 1..Len(todo) : todo[i].n \in Nat
  BY <1>2 DEF OpSet
<1> QED BY <1>1, <1>2, <1>3, TailIs

(* A step of a call succeeds.                                                *)
LEMMA DoneControl ==
    ASSUME Typed, Control, todo # <<>>, Done, ~Loads(Head(todo)),
           UNCHANGED <<units, policy, stopped, ring_inited>>,
           Head(todo).op \in {"flush", "submit"} => flushed' = flushed,
           Head(todo).op \in {"flush", "submit"} => buf' = <<>>,
           Head(todo).op = "drain" => buf' = buf /\ pending' = <<>>,
           Head(todo).op = "sync" => /\ buf' = buf /\ pending' = pending
                                     /\ policy = "no" \/ ~dirty'
    PROVE  Control' /\ todo' \in Seq(OpSet)
<1>0. /\ Len(todo) \in Nat /\ Len(todo) >= 1 /\ Head(todo) = todo[1]
      /\ Tail(todo) \in Seq(OpSet) /\ Cut(todo, Tail(todo), 1)
      /\ \A i \in 1..Len(todo) : todo[i].n \in Nat
  BY TodoTyped
<1>1. PICK t2 \in Seq(OpSet) : t2 = Tail(todo) /\ todo' = t2
  BY <1>0, Zenon DEF Done
<1>2. Cut(todo, t2, 1)
  BY <1>0, <1>1
<1>3. Load(t2, buf', units)
  BY <1>0, <1>2, LoadDone DEF Control
<1>4. Acks(t2, units)
  BY <1>0, <1>2, AcksDone DEF Control
<1>5. Flushing(t2, buf', pending', dirty', policy)
  BY <1>0, <1>2, FlushingDone DEF Control
<1>6. Closing(t2, stopped, ring_inited)
  BY <1>0, <1>2, ClosingDone DEF Control
<1>7. Unflushed(t2, flushed')
  BY <1>0, <1>2, UnflushedDone DEF Control
<1> QED BY <1>1, <1>3, <1>4, <1>5, <1>6, <1>7 DEF Control

(* A step of a call fails.                                                   *)
LEMMA FailsControl ==
    ASSUME Typed, Control, todo # <<>>, Fails, ~Loads(Head(todo)),
           UNCHANGED <<units, policy, stopped, ring_inited, flushed>>
    PROVE  Control' /\ todo' \in Seq(OpSet)
<1>0. /\ Len(todo) \in Nat /\ Len(todo) >= 1 /\ Head(todo) = todo[1]
      /\ Tail(todo) \in Seq(OpSet) /\ Cut(todo, Tail(todo), 1)
      /\ \A i \in 1..Len(todo) : todo[i].n \in Nat
  BY TodoTyped
<1>1. CASE ~Head(todo).must
  <2>1. PICK t2 \in Seq(OpSet) : t2 = Tail(todo) /\ todo' = t2
    BY <1>0, <1>1, Zenon DEF Fails
  <2>2. Cut(todo, t2, 1)
    BY <1>0, <2>1
  <2>3. Load(t2, buf', units)
    BY <1>0, <1>1, <2>2, LoadDone DEF Control
  <2>4. Acks(t2, units)
    BY <1>0, <2>2, AcksDone DEF Control
  <2>5. Flushing(t2, buf', pending', dirty', policy)
    BY <1>0, <1>1, <2>2, FlushingDone DEF Control
  <2>6. Closing(t2, stopped, ring_inited)
    BY <1>0, <2>2, ClosingDone DEF Control
  <2>7. Unflushed(t2, flushed')
    BY <1>0, <2>2, UnflushedDone DEF Control
  <2> QED BY <2>1, <2>3, <2>4, <2>5, <2>6, <2>7 DEF Control
<1>2. CASE Head(todo).must
  <2>1. ring_inited
    BY DEF Control, Closing
  <2>2. \/ todo' = <<>>
        \/ todo' = <<Must("close")>> /\ stopped
    BY <1>2 DEF Fails
  <2>3. Must("close") \in OpSet /\ Must("close").op = "close"
    BY NamesAre, OpsTyped
  <2>4. todo' \in Seq(OpSet) /\ \A i \in 1..Len(todo') : todo'[i].op = "close"
                                                         /\ i = Len(todo') /\ stopped
    <3>1. PICK m \in OpSet : m = Must("close") /\ m.op = "close"
      BY <2>3, Zenon
    <3>2. CASE todo' = <<>>
      BY <3>2
    <3>3. CASE todo' = <<m>> /\ stopped
      BY <3>1, <3>3
    <3> QED BY <2>2, <3>1, <3>2, <3>3
  <2> QED BY <2>1, <2>4 DEF Control, Load, Acks, Flushing, Closing, Unflushed, Loads
<1> QED BY <1>1, <1>2

(* The call in progress does not go on: completions are seen, the kernel     *)
(* works or time passes.                                                     *)
LEMMA SameControl ==
    ASSUME Control, UNCHANGED <<todo, buf, units, policy, stopped, ring_inited, flushed>>,
           pending # <<>> \/ (pending' = pending /\ dirty' = dirty)
    PROVE  Control'
<1>1. Flushing(todo, buf, pending', dirty', policy)
  <2>1. CASE pending # <<>>
    BY <2>1 DEF Control, Flushing
  <2>2. CASE pending' = pending /\ dirty' = dirty
    BY <2>2 DEF Control
  <2> QED BY <2>1, <2>2
<1> QED BY <1>1 DEF Control

(* The units stay where they are, and the requests too.                      *)
LEMMA SameRing ==
    ASSUME AofInv, UNCHANGED <<buf, pending, next_ud, ringVars, units, ring_inited, policy>>,
           UNCHANGED <<dirty, synced>>, io_failed => io_failed',
           flushed' = "ok" => flushed = "ok"
    PROVE  Fresh' /\ Writes' /\ Kept' /\ Covered' /\ FlushHonest'
<1>0. UNCHANGED <<sq, inflight, cq, file>>
  BY DEF ringVars
<1>1. Fresh' /\ Writes'
  BY <1>0 DEF AofInv, Fresh, Writes
<1>2. Kept' /\ Covered'
  BY <1>0 DEF AofInv, Kept, Covered
<1>3. FlushHonest'
  BY <1>0 DEF AofInv, FlushHonest
<1> QED BY <1>1, <1>2, <1>3

LEMMA SameTyped ==
    ASSUME AofInv, UNCHANGED <<buf, pending, next_ud, ringVars, units, policy, synced>>,
           todo' \in Seq(OpSet), acked' \subseteq Units, submit_fails' \in Nat, io_fails' \in Nat,
           {dirty', io_failed', stopped', ring_inited', flush_due', sync_due', awake'}
             \subseteq BOOLEAN,
           flushed' \in {"none", "ok", "fail"}
    PROVE  Typed'
BY DEF AofInv, Typed, TypeOK, ringVars, Units

LEMMA Booleans ==
    ASSUME Typed
    PROVE  /\ dirty \in BOOLEAN /\ io_failed \in BOOLEAN /\ stopped \in BOOLEAN
           /\ ring_inited \in BOOLEAN /\ flush_due \in BOOLEAN /\ sync_due \in BOOLEAN
           /\ awake \in BOOLEAN /\ flushed \in {"none", "ok", "fail"}
           /\ acked \subseteq Units /\ submit_fails \in Nat /\ io_fails \in Nat
           /\ units \in 0..MaxUnits /\ policy \in Policies
BY DEF Typed, TypeOK, Units

-----------------------------------------------------------------------------
(* The steps *)

LEMMA PollStep ==
    ASSUME AofInv, Poll
    PROVE  AofInv'
<1>0. /\ Typed /\ Control /\ awake' = FALSE /\ todo = <<>>
      /\ UNCHANGED <<writerVars, ringVars, synced, histVars>>
  BY DEF AofInv, Poll
<1>1. UNCHANGED <<policy, buf, pending, next_ud, dirty, io_failed, stopped, ring_inited,
                  flush_due, sync_due, units, acked, flushed, submit_fails, io_fails>>
  BY <1>0 DEF writerVars, histVars
<1>2. /\ todo' \in Seq(OpSet) /\ \A i \in 1..Len(todo') : todo'[i].op \in {"peek", "poll"}
      /\ stopped => todo' = <<>>
  <2>1. PICK a \in OpSet : a = Try("peek") /\ a.op = "peek"
    BY NamesAre, OpsTyped, Zenon
  <2>2. PICK b \in OpSet : b = Try("poll") /\ b.op = "poll"
    BY NamesAre, OpsTyped, Zenon
  <2>3. todo' = <<>> \/ (todo' = <<a, b>> /\ ~stopped)
    BY <2>1, <2>2 DEF Poll
  <2>4. CASE todo' = <<>>
    BY <2>4
  <2>5. CASE todo' = <<a, b>> /\ ~stopped
    BY <2>1, <2>2, <2>5
  <2> QED BY <2>3, <2>4, <2>5
<1>3. Control'
  BY <1>0, <1>1, <1>2 DEF Control, Load, Acks, Flushing, Closing, Unflushed, Loads
<1>4. Typed'
  BY <1>0, <1>1, <1>2, Booleans, SameTyped
<1>5. Fresh' /\ Writes' /\ Kept' /\ Covered' /\ FlushHonest'
  BY <1>0, <1>1, SameRing
<1> QED BY <1>3, <1>4, <1>5 DEF AofInv

(* A step that leaves the data, the ring and the file alone.                 *)
LEMMA StillStep ==
    ASSUME AofInv, UNCHANGED <<buf, pending, next_ud, ringVars, units, ring_inited, policy>>,
           UNCHANGED <<dirty, synced>>, io_failed => io_failed',
           flushed' \in {flushed, "none", "fail"}, Control',
           todo' \in Seq(OpSet), acked' \subseteq Units, submit_fails' \in Nat, io_fails' \in Nat,
           {io_failed', stopped', flush_due', sync_due', awake'} \subseteq BOOLEAN
    PROVE  AofInv'
<1>0. Typed
  BY DEF AofInv
<1>1. flushed' \in {"none", "ok", "fail"} /\ (flushed' = "ok" => flushed = "ok")
  BY <1>0, Booleans
<1>2. {dirty', io_failed', stopped', ring_inited', flush_due', sync_due', awake'} \subseteq BOOLEAN
  BY <1>0, Booleans
<1>3. Typed'
  BY <1>1, <1>2, SameTyped
<1>4. Fresh' /\ Writes' /\ Kept' /\ Covered' /\ FlushHonest'
  BY <1>1, SameRing
<1> QED BY <1>3, <1>4 DEF AofInv

LEMMA WakeStep ==
    ASSUME AofInv, Wake
    PROVE  AofInv'
<1>0. /\ Typed /\ Control /\ awake' = TRUE /\ todo = <<>>
      /\ UNCHANGED <<writerVars, todo, ringVars, synced, histVars>>
  BY DEF AofInv, Wake
<1>1. UNCHANGED <<policy, buf, pending, next_ud, dirty, io_failed, stopped, ring_inited,
                  flush_due, sync_due, units, acked, flushed, submit_fails, io_fails>>
  BY <1>0 DEF writerVars, histVars
<1>2. Control'
  BY <1>0, <1>1, SameControl
<1>3. todo' \in Seq(OpSet)
  BY <1>0 DEF Typed
<1> QED BY <1>0, <1>1, <1>2, <1>3, Booleans, StillStep

LEMMA DueStep ==
    ASSUME AofInv, FlushDue \/ SyncDue
    PROVE  AofInv'
<1>0. Typed /\ Control /\ todo \in Seq(OpSet)
  BY DEF AofInv, Typed
<1>1. /\ UNCHANGED <<policy, buf, pending, next_ud, dirty, io_failed, stopped, ring_inited>>
      /\ UNCHANGED <<awake, todo, ringVars, synced, histVars>>
      /\ flush_due' \in {flush_due, TRUE} /\ sync_due' \in {sync_due, TRUE}
  BY DEF FlushDue, SyncDue
<1>2. UNCHANGED <<units, acked, flushed, submit_fails, io_fails>>
  BY <1>1 DEF histVars
<1>3. Control'
  BY <1>0, <1>1, <1>2, SameControl
<1> QED BY <1>0, <1>1, <1>2, <1>3, Booleans, StillStep

LEMMA FlushStep ==
    ASSUME AofInv, Flush
    PROVE  AofInv'
<1>0. /\ Typed /\ Control /\ todo = <<>>
      /\ UNCHANGED <<writerVars, awake, ringVars, synced, units, acked, submit_fails, io_fails>>
      /\ flushed' \in {"none", "fail"} /\ ~stopped
  BY DEF AofInv, Flush
<1>1. UNCHANGED <<policy, buf, pending, next_ud, dirty, io_failed, stopped, ring_inited,
                  flush_due, sync_due>>
  BY <1>0 DEF writerVars
<1>2a. PICK a \in OpSet : a = Must("flush") /\ a.op = "flush" /\ a.must
  BY NamesAre, OpsTyped, Zenon
<1>2b. PICK b \in OpSet : b = Must("drain") /\ b.op = "drain" /\ b.must
  BY NamesAre, OpsTyped, Zenon
<1>2c. PICK c \in OpSet : c = Must("sync") /\ c.op = "sync" /\ c.must
  BY NamesAre, OpsTyped, Zenon
<1>2d. PICK d \in OpSet : d = Must("flushed") /\ d.op = "flushed"
  BY NamesAre, OpsTyped, Zenon
<1>3. todo' = <<>> \/ todo' = <<a, b, c, d>>
  BY <1>2a, <1>2b, <1>2c, <1>2d DEF Flush
<1>4. todo' \in Seq(OpSet)
  <2>1. <<>> \in Seq(OpSet) /\ <<a, b, c, d>> \in Seq(OpSet)
    OBVIOUS
  <2> QED BY <1>3, <2>1
<1>5. ring_inited
  BY <1>0 DEF Control, Closing
<1>6. Control'
  <2>1. CASE todo' = <<>>
    BY <1>5, <1>1, <2>1 DEF Control, Load, Acks, Flushing, Closing, Unflushed
  <2>2. CASE todo' = <<a, b, c, d>>
    <3>1. Len(todo') = 4 /\ todo'[1] = a /\ todo'[2] = b /\ todo'[3] = c /\ todo'[4] = d
      BY <2>2
    <3>2. \A i \in 1..4 : i = 1 \/ i = 2 \/ i = 3 \/ i = 4
      OBVIOUS
    <3>3. Load(todo', buf', units') /\ Acks(todo', units') /\ Unflushed(todo', flushed')
      BY <1>2a, <1>2b, <1>2c, <1>2d, <3>1, <3>2 DEF Load, Acks, Unflushed, Loads
    <3>4. Flushing(todo', buf', pending', dirty', policy')
      <4> SUFFICES ASSUME NEW i \in 1..Len(todo'), todo'[i].op = "flushed" PROVE i = 4
        BY <1>2a, <1>2b, <1>2c, <1>2d, <3>1 DEF Flushing
      <4> QED BY <1>2a, <1>2b, <1>2c, <1>2d, <3>1, <3>2
    <3>5. Closing(todo', stopped', ring_inited')
      BY <1>1, <1>2a, <1>2b, <1>2c, <1>2d, <1>5, <3>1, <3>2 DEF Closing
    <3> QED BY <3>3, <3>4, <3>5 DEF Control
  <2> QED BY <1>3, <2>1, <2>2
<1> QED BY <1>0, <1>1, <1>4, <1>6, Booleans, StillStep

LEMMA StopStep ==
    ASSUME AofInv, Stop
    PROVE  AofInv'
<1>0. /\ Typed /\ Control /\ todo = <<>> /\ ~stopped /\ stopped' = TRUE
      /\ UNCHANGED <<policy, buf, pending, next_ud, dirty, io_failed, ring_inited,
                     flush_due, sync_due, awake, ringVars, synced, histVars>>
  BY DEF AofInv, Stop
<1>1. UNCHANGED <<units, acked, flushed, submit_fails, io_fails>>
  BY <1>0 DEF histVars
<1>2a. PICK a \in OpSet : a = Must("flush") /\ a.op = "flush" /\ a.must
  BY NamesAre, OpsTyped, Zenon
<1>2b. PICK b \in OpSet : b = Must("drain") /\ b.op = "drain" /\ b.must
  BY NamesAre, OpsTyped, Zenon
<1>2c. PICK c \in OpSet : c = Must("sync") /\ c.op = "sync" /\ c.must
  BY NamesAre, OpsTyped, Zenon
<1>2d. PICK d \in OpSet : d = Must("flushed") /\ d.op = "flushed"
  BY NamesAre, OpsTyped, Zenon
<1>2e. PICK e \in OpSet : e = Must("close") /\ e.op = "close"
  BY NamesAre, OpsTyped, Zenon
<1>3. todo' = <<e>> \/ todo' = <<a, b, c, d, e>>
  BY <1>2a, <1>2b, <1>2c, <1>2d, <1>2e DEF Stop
<1>4. todo' \in Seq(OpSet)
  <2>1. <<e>> \in Seq(OpSet) /\ <<a, b, c, d, e>> \in Seq(OpSet)
    OBVIOUS
  <2> QED BY <1>3, <2>1
<1>5. ring_inited
  BY <1>0 DEF Control, Closing
<1>6. Control'
  <2>1. CASE todo' = <<e>>
    <3>1. Len(todo') = 1 /\ todo'[1] = e /\ \A i \in 1..1 : i = 1
      BY <2>1
    <3> QED BY <1>0, <1>2a, <1>2b, <1>2c, <1>2d, <1>2e, <1>5, <3>1
          DEF Control, Load, Acks, Flushing, Closing, Unflushed, Loads
  <2>2. CASE todo' = <<a, b, c, d, e>>
    <3>1. /\ Len(todo') = 5 /\ todo'[1] = a /\ todo'[2] = b /\ todo'[3] = c
          /\ todo'[4] = d /\ todo'[5] = e
      BY <2>2
    <3>2. \A i \in 1..5 : i = 1 \/ i = 2 \/ i = 3 \/ i = 4 \/ i = 5
      OBVIOUS
    <3>3. Load(todo', buf', units') /\ Acks(todo', units') /\ Unflushed(todo', flushed')
      BY <1>2a, <1>2b, <1>2c, <1>2d, <1>2e, <3>1, <3>2 DEF Load, Acks, Unflushed, Loads
    <3>4. Flushing(todo', buf', pending', dirty', policy')
      <4> SUFFICES ASSUME NEW i \in 1..Len(todo'), todo'[i].op = "flushed" PROVE i = 4
        BY <1>2a, <1>2b, <1>2c, <1>2d, <1>2e, <3>1 DEF Flushing
      <4> QED BY <1>2a, <1>2b, <1>2c, <1>2d, <1>2e, <3>1, <3>2
    <3>5. Closing(todo', stopped', ring_inited')
      BY <1>0, <1>2a, <1>2b, <1>2c, <1>2d, <1>2e, <1>5, <3>1, <3>2 DEF Closing
    <3> QED BY <3>3, <3>4, <3>5 DEF Control
  <2> QED BY <1>3, <2>1, <2>2
<1> QED BY <1>0, <1>1, <1>4, <1>6, Booleans, StillStep

(* (a \o b) \o <<x>> *)
LEMMA PartsAre ==
    ASSUME NEW S, NEW a \in Seq(S), NEW b \in Seq(S), NEW x \in S
    PROVE  (a \o b) \o <<x>> \in Seq(S) /\ Joined(a, b, x, (a \o b) \o <<x>>)
<1>1. /\ a \o b \in Seq(S) /\ Len(a \o b) = Len(a) + Len(b)
      /\ \A i \in 1..(Len(a) + Len(b)) : (a \o b)[i] = IF i <= Len(a) THEN a[i] ELSE b[i - Len(a)]
  BY ConcatProperties
<1>2. PICK y \in Seq(S) : y = a \o b
  BY <1>1, Zenon
<1>3. Len(a) \in Nat /\ Len(b) \in Nat
  OBVIOUS
<1>4. PICK z \in Seq(S) : z = Append(y, x)
  BY AppendProperties, Zenon
<1>5. Len(z) = Len(y) + 1 /\ z[Len(y) + 1] = x /\ \A i \in 1..Len(y) : z[i] = y[i]
  BY <1>4, AppendProperties
<1>6. Len(y) = Len(a) + Len(b) /\ \A i \in 1..Len(y) : y[i] = IF i <= Len(a) THEN a[i] ELSE b[i - Len(a)]
  BY <1>1, <1>2
<1>7. Len(z) = Len(a) + Len(b) + 1 /\ z[Len(a) + Len(b) + 1] = x
  BY <1>3, <1>5, <1>6
<1>8. ASSUME NEW i \in 1..Len(a) PROVE z[i] = a[i]
  BY <1>3, <1>5, <1>6
<1>9. ASSUME NEW i \in 1..Len(b) PROVE z[Len(a) + i] = b[i]
  <2>1. Len(a) + i \in 1..Len(y) /\ ~(Len(a) + i <= Len(a)) /\ (Len(a) + i) - Len(a) = i
    BY <1>3, <1>6
  <2>2. z[Len(a) + i] = y[Len(a) + i] /\ y[Len(a) + i] = b[(Len(a) + i) - Len(a)]
    BY <2>1, <1>5, <1>6
  <2> QED BY <2>1, <2>2
<1>10. Joined(a, b, x, z)
  BY <1>7, <1>8, <1>9 DEF Joined
<1>11. z = y \o <<x>>
  BY <1>4, AppendIsConcat
<1> QED BY <1>2, <1>10, <1>11, Zenon

\* the part of an Enqueue that appends: the steps of w before and behind the
\* one that loads, l, are all f
Around(w, p, l, f) ==
    /\ p \in 1..Len(w) /\ p <= 2 /\ w[p] = l
    /\ \A i \in 1..Len(w) : i # p => w[i] = f

LEMMA WholeIs ==
    ASSUME NEW size \in Nat, NEW l \in OpSet, l = Arg("append", size),
           NEW f \in OpSet, f = Must("flush")
    PROVE  \E w \in Seq(OpSet), p \in {1, 2} :
              /\ w = Whole(size) /\ Around(w, p, l, f)
              /\ p = 1 => ~(Len(buf) + size > HardCap)
<1> DEFINE full == Len(buf) + size > HardCap
           len  == IF full THEN size ELSE Len(buf) + size
<1>1. PICK a \in Seq(OpSet) : /\ a = IF full THEN <<f>> ELSE <<>>
                              /\ full => Len(a) = 1 /\ a[1] = f
                              /\ ~full => Len(a) = 0
  <2>1. CASE full
    <3>1. <<f>> \in Seq(OpSet) /\ Len(<<f>>) = 1 /\ <<f>>[1] = f
      OBVIOUS
    <3> QED BY <2>1, <3>1, Zenon
  <2>2. CASE ~full
    <3>1. <<>> \in Seq(OpSet) /\ Len(<<>>) = 0
      OBVIOUS
    <3> QED BY <2>2, <3>1, Zenon
  <2> QED BY <2>1, <2>2
<1>2. PICK b \in Seq(OpSet) : /\ b = IF len >= SoftFlush \/ policy = "always"
                                     THEN <<f>> ELSE <<>>
                              /\ \A i \in 1..Len(b) : b[i] = f
  <2>1. <<f>> \in Seq(OpSet) /\ \A i \in 1..Len(<<f>>) : <<f>>[i] = f
    OBVIOUS
  <2>2. <<>> \in Seq(OpSet) /\ \A i \in 1..Len(<<>>) : <<>>[i] = f
    OBVIOUS
  <2> HIDE DEF len
  <2>3. CASE len >= SoftFlush \/ policy = "always"
    BY <2>1, <2>3, Zenon
  <2>4. CASE ~(len >= SoftFlush \/ policy = "always")
    BY <2>2, <2>4, Zenon
  <2> QED BY <2>3, <2>4
<1>3. PICK m \in Seq(OpSet) : m = a \o <<l>> /\ Len(m) = Len(a) + 1 /\ m[Len(a) + 1] = l
                              /\ \A i \in 1..Len(a) : m[i] = a[i]
  <2>1. Append(a, l) = a \o <<l>>
    BY AppendIsConcat
  <2>2. /\ Append(a, l) \in Seq(OpSet) /\ Len(Append(a, l)) = Len(a) + 1
        /\ Append(a, l)[Len(a) + 1] = l /\ \A i \in 1..Len(a) : Append(a, l)[i] = a[i]
    BY AppendProperties
  <2> QED BY <2>1, <2>2, Zenon
<1>4. /\ m \o b \in Seq(OpSet) /\ Len(m \o b) = Len(m) + Len(b)
      /\ \A i \in 1..(Len(m) + Len(b)) : (m \o b)[i] = IF i <= Len(m) THEN m[i] ELSE b[i - Len(m)]
  BY ConcatProperties
<1>5. PICK w \in Seq(OpSet) : w = m \o b
  BY <1>4, Zenon
<1>6. w = Whole(size)
  BY <1>1, <1>2, <1>3, <1>5, Zenon DEF Whole
<1>7. PICK p \in {1, 2} : p = Len(a) + 1 /\ (p = 1 => ~full) /\ (p = 2 => full)
  <2> HIDE DEF full
  <2> QED BY <1>1
<1>8. Len(b) \in Nat /\ Len(m) = p /\ Len(w) = p + Len(b)
      /\ \A i \in 1..(p + Len(b)) : w[i] = IF i <= p THEN m[i] ELSE b[i - p]
  BY <1>3, <1>4, <1>5, <1>7
<1>9. ASSUME NEW i \in 1..Len(w), i # p PROVE w[i] = f
  <2>1. CASE i <= p
    <3>1. i = 1 /\ p = 2 /\ w[i] = m[i]
      BY <1>8, <1>9, <2>1
    <3>2. m[1] = a[1] /\ a[1] = f
      <4> HIDE DEF full
      <4> QED BY <1>1, <1>3, <1>7, <3>1
    <3> QED BY <3>1, <3>2
  <2>2. CASE ~(i <= p)
    <3>1. w[i] = b[i - p] /\ i - p \in 1..Len(b)
      BY <1>8, <2>2
    <3> QED BY <3>1, <1>2
  <2> QED BY <2>1, <2>2
<1>10. Around(w, p, l, f)
  BY <1>3, <1>7, <1>8, <1>9 DEF Around
<1> QED BY <1>6, <1>7, <1>10

LEMMA EnqueueStep ==
    ASSUME AofInv, NEW size \in Sizes, Enqueue(size)
    PROVE  AofInv'
<1>0. /\ Typed /\ Control /\ todo = <<>> /\ ~stopped /\ flushed' = "none"
      /\ units + size <= MaxUnits /\ size \in Nat /\ size > 0 /\ units \in Nat
      /\ UNCHANGED <<writerVars, awake, ringVars, synced, units, acked, submit_fails, io_fails>>
  <2>1. size \in Nat /\ size > 0 /\ MaxUnits \in Nat
    BY InlineAofAssumption
  <2>2. units \in Nat
    BY <2>1 DEF AofInv, Typed, TypeOK
  <2> QED BY <2>1, <2>2 DEF AofInv, Enqueue
<1>a. size \in Nat
  BY <1>0
<1>1. UNCHANGED <<policy, buf, pending, next_ud, dirty, io_failed, stopped, ring_inited,
                  flush_due, sync_due>>
  BY <1>0 DEF writerVars
<1>2. PICK f \in OpSet : f = Must("flush") /\ f.op = "flush" /\ f.must
  BY NamesAre, OpsTyped, Zenon
<1>3. PICK w \in Seq(OpSet), p \in {1, 2}, l \in OpSet :
         /\ w = (IF size > HardCap THEN <<Must("flush"), Arg("pieces", size)>> ELSE Whole(size))
         /\ Around(w, p, l, f) /\ Loads(l) /\ l.n = size
         /\ l.op = "append" => size <= HardCap
         /\ p = 1 => l.op = "append" /\ Len(buf) + size <= HardCap
  <2>0. Len(buf) \in Nat /\ HardCap \in Nat
    BY <1>0, InlineAofAssumption DEF Typed, TypeOK
  <2>1. CASE size > HardCap
    <3>1. PICK l \in OpSet : l = Arg("pieces", size) /\ l.op = "pieces" /\ l.n = size
      <4>1. "pieces" \in OpNames
        BY NamesAre
      <4>2. Arg("pieces", size) \in OpSet /\ Arg("pieces", size).op = "pieces" /\ Arg("pieces", size).n = size
        BY <1>a, <4>1, ArgTyped
      <4> QED BY <4>2, Zenon
    <3>2. <<f, l>> \in Seq(OpSet) /\ Len(<<f, l>>) = 2 /\ <<f, l>>[1] = f /\ <<f, l>>[2] = l
      OBVIOUS
    <3>3. PICK w \in Seq(OpSet) : w = <<f, l>>
      BY <3>2, Zenon
    <3>4. Around(w, 2, l, f)
      BY <3>2, <3>3 DEF Around
    <3>5. Loads(l) /\ 2 \in {1, 2} /\ 2 # 1 /\ l.op # "append"
      BY <3>1 DEF Loads
    <3> QED BY <1>2, <2>1, <3>1, <3>3, <3>4, <3>5
  <2>2. CASE ~(size > HardCap)
    <3>1. PICK l \in OpSet : l = Arg("append", size) /\ l.op = "append" /\ l.n = size
      <4>1. "append" \in OpNames
        BY NamesAre
      <4>2. Arg("append", size) \in OpSet /\ Arg("append", size).op = "append" /\ Arg("append", size).n = size
        BY <1>a, <4>1, ArgTyped
      <4> QED BY <4>2, Zenon
    <3>2. PICK w \in Seq(OpSet), p \in {1, 2} :
              /\ w = Whole(size) /\ Around(w, p, l, f)
              /\ p = 1 => ~(Len(buf) + size > HardCap)
      BY <1>0, <1>2, <3>1, WholeIs
    <3>3. Loads(l) /\ size <= HardCap
      BY <1>0, <2>0, <2>2, <3>1 DEF Loads
    <3>4. p = 1 => Len(buf) + size <= HardCap
      BY <1>0, <2>0, <3>2
    <3> QED BY <2>2, <3>1, <3>2, <3>3, <3>4
  <2> QED BY <2>1, <2>2
<1>4. PICK s \in Seq(OpSet) : s = SyncOps /\ \A i \in 1..Len(s) : s[i].op = "sync"
  <2>1. PICK y \in OpSet : y = Must("sync") /\ y.op = "sync"
    BY NamesAre, OpsTyped, Zenon
  <2>2. /\ <<y>> \in Seq(OpSet) /\ \A i \in 1..Len(<<y>>) : <<y>>[i].op = "sync"
        /\ <<>> \in Seq(OpSet) /\ \A i \in 1..Len(<<>>) : <<>>[i].op = "sync"
    BY <2>1
  <2>3. CASE policy = "always"
    <3>1. SyncOps = <<y>>
      BY <2>1, <2>3 DEF SyncOps
    <3> QED BY <2>2, <3>1, Zenon
  <2>4. CASE policy # "always"
    <3>1. SyncOps = <<>>
      BY <2>4 DEF SyncOps
    <3> QED BY <2>2, <3>1, Zenon
  <2> QED BY <2>3, <2>4
<1>5. PICK x \in OpSet : x = Arg("ack", size) /\ x.op = "ack" /\ x.n = size
  <2>1. "ack" \in OpNames
    BY NamesAre
  <2>2. Arg("ack", size) \in OpSet /\ Arg("ack", size).op = "ack" /\ Arg("ack", size).n = size
    BY <1>a, <2>1, ArgTyped
  <2> QED BY <2>2, Zenon
<1>6. todo' = (w \o s) \o <<x>>
  BY <1>3, <1>4, <1>5, Zenon DEF Enqueue
<1>7. todo' \in Seq(OpSet) /\ Joined(w, s, x, todo')
  <2>1. PICK z \in Seq(OpSet) : z = (w \o s) \o <<x>> /\ Joined(w, s, x, z)
    BY PartsAre, Zenon
  <2> QED BY <1>6, <2>1
<1>8. PICK t \in Seq(OpSet) : t = todo' /\ Joined(w, s, x, t)
  BY <1>7
<1>9. /\ Len(w) \in Nat /\ Len(s) \in Nat /\ Len(t) = Len(w) + Len(s) + 1
      /\ t[Len(t)] = x /\ p \in 1..Len(t) /\ t[p] = l
      /\ p = 2 => t[1] = f
  <2>1. Len(w) \in Nat /\ Len(s) \in Nat
    OBVIOUS
  <2>2. p \in 1..Len(w) /\ w[p] = l /\ (p = 2 => 1 \in 1..Len(w) /\ w[1] = f)
    BY <1>3, <2>1 DEF Around
  <2> QED BY <1>8, <2>1, <2>2 DEF Joined
<1>10. ASSUME NEW i \in 1..Len(t), i # p
       PROVE  \/ t[i].op \in {"flush", "sync"}
              \/ i = Len(t) /\ t[i] = x
  <2>1. \/ i \in 1..Len(w) /\ t[i] = w[i]
        \/ i = Len(w) + Len(s) + 1 /\ t[i] = x
        \/ \E j \in 1..Len(s) : t[i] = s[j]
    <3>1. Joined(w, s, x, t) /\ Len(w) \in Nat /\ Len(s) \in Nat
      BY <1>8, <1>9
    <3> QED BY <3>1, JoinedAt
  <2> QED BY <1>2, <1>3, <1>4, <1>9, <1>10, <2>1 DEF Around
<1>11. \A i \in 1..Len(t) : (Loads(t[i]) <=> i = p) /\ t[i].op \notin {"flushed", "close"}
                            /\ (t[i].op = "ack" => i = Len(t) /\ t[i] = x)
  BY <1>3, <1>5, <1>9, <1>10 DEF Loads
<1>12. Load(t, buf, units)
  BY <1>0, <1>2, <1>3, <1>9, <1>11 DEF Load
<1>13. Acks(t, units)
  <2>1. size <= units + size
    BY <1>0
  <2> QED BY <1>3, <1>5, <1>9, <1>11, <2>1 DEF Acks
<1>14. Closing(t, stopped, ring_inited)
  BY <1>0, <1>11 DEF Control, Closing
<1>15. Control'
  BY <1>0, <1>1, <1>8, <1>11, <1>12, <1>13, <1>14 DEF Control, Flushing, Unflushed
<1> QED BY <1>0, <1>1, <1>7, <1>15, Booleans, StillStep

(* FlushBuffer goes on to the submit.                                        *)
LEMMA SubmitNext ==
    ASSUME Typed, Control, At("flush"),
           todo' = <<[Head(todo) EXCEPT !.op = "submit"]>> \o Tail(todo),
           UNCHANGED <<buf, pending, dirty, policy, units, stopped, ring_inited, flushed>>
    PROVE  Control' /\ todo' \in Seq(OpSet)
<1>0. /\ todo # <<>> /\ Head(todo).op = "flush" /\ Len(todo) \in Nat /\ Len(todo) >= 1
      /\ Head(todo) = todo[1] /\ todo[1] \in OpSet
      /\ Tail(todo) \in Seq(OpSet) /\ Cut(todo, Tail(todo), 1)
  BY TodoTyped DEF At
<1>1. PICK h \in OpSet : h = [Head(todo) EXCEPT !.op = "submit"] /\ h.op = "submit"
                         /\ h.must = todo[1].must /\ h.n = todo[1].n
  BY <1>0, NamesAre DEF OpSet
<1>2. PICK r \in Seq(OpSet) : r = Tail(todo) /\ Cut(todo, r, 1)
  BY <1>0, Zenon
<1>3. <<h>> \in Seq(OpSet) /\ Len(<<h>>) = 1 /\ <<h>>[1] = h
  OBVIOUS
<1>4. PICK o \in Seq(OpSet) : o = <<h>> /\ Len(o) = 1 /\ o[1] = h
  BY <1>3, Zenon
<1>5. /\ o \o r \in Seq(OpSet) /\ Len(o \o r) = Len(o) + Len(r)
      /\ \A i \in 1..(Len(o) + Len(r)) : (o \o r)[i] = IF i <= Len(o) THEN o[i] ELSE r[i - Len(o)]
  BY ConcatProperties
<1>6. PICK t \in Seq(OpSet) : t = o \o r
  BY <1>5, Zenon
<1>7. todo' = t
  BY <1>1, <1>2, <1>4, <1>6, Zenon
<1>8. Len(r) \in Nat /\ Len(r) = Len(todo) - 1
  BY <1>0, <1>2 DEF Cut
<1>9. Len(t) = Len(todo) /\ t[1] = h
  BY <1>0, <1>4, <1>5, <1>6, <1>8
<1>10. ASSUME NEW i \in 1..Len(todo), i # 1 PROVE t[i] = todo[i]
  <2>1. i - 1 \in 1..Len(r) /\ i \in 1..(1 + Len(r)) /\ ~(i <= 1) /\ (i - 1) + 1 = i
    BY <1>8, <1>10
  <2>2. t[i] = r[i - 1]
    BY <1>4, <1>5, <1>6, <2>1
  <2>3. r[i - 1] = todo[(i - 1) + 1]
    BY <1>2, <2>1 DEF Cut
  <2> QED BY <2>1, <2>2, <2>3
<1>11. ~Loads(t[1]) /\ ~Loads(todo[1])
  BY <1>0, <1>1, <1>9 DEF Loads
<1>12. Load(t, buf, units)
  BY <1>0, <1>1, <1>9, <1>10, <1>11 DEF Load, Control
<1>13. Acks(t, units)
  <2> SUFFICES ASSUME NEW i \in 1..Len(t), t[i].op = "ack"
               PROVE  /\ i = Len(t)
                      /\ \/ t[i].n <= units
                         \/ \E j \in 1..Len(t) : Loads(t[j]) /\ t[i].n <= units + t[j].n
    BY DEF Acks
  <2>1. i # 1 /\ i \in 1..Len(todo) /\ t[i] = todo[i]
    BY <1>1, <1>9, <1>10
  <2>2. /\ i = Len(todo)
        /\ \/ todo[i].n <= units
           \/ \E j \in 1..Len(todo) : Loads(todo[j]) /\ todo[i].n <= units + todo[j].n
    BY <2>1 DEF Acks, Control
  <2>3. ASSUME NEW j \in 1..Len(todo), Loads(todo[j]) PROVE j \in 1..Len(t) /\ t[j] = todo[j]
    BY <1>9, <1>10, <1>11, <2>3
  <2> QED BY <1>9, <2>1, <2>2, <2>3
<1>14. Flushing(t, buf, pending, dirty, policy)
  <2> SUFFICES ASSUME NEW i \in 1..Len(t), t[i].op = "flushed"
               PROVE  /\ i <= 4 /\ i # 3 /\ i # 2 /\ i # 1
                      /\ t[1].op \in {"flush", "submit"} /\ t[1].must
                      /\ t[2].op = "drain" /\ t[2].must
                      /\ t[i - 1].op = "sync" /\ t[i - 1].must
    BY DEF Flushing
  <2>1. i # 1 /\ todo[i].op = "flushed" /\ i \in 1..Len(todo)
    BY <1>1, <1>9, <1>10
  <2>2. /\ i <= 4 /\ i # 3 /\ todo[i - 1].op = "sync" /\ todo[i - 1].must
        /\ i = 4 => todo[1].must /\ todo[2].op = "drain" /\ todo[2].must
    BY <1>0, <2>1 DEF Control, Flushing
  <2>3. i # 2
    <3>1. ASSUME i = 2 PROVE FALSE
      <4>1. i - 1 = 1
        BY <3>1
      <4> QED BY <1>0, <2>2, <4>1
    <3> QED BY <3>1
  <2>4. i = 4
    BY <2>1, <2>2, <2>3
  <2>5. t[2] = todo[2] /\ t[3] = todo[3] /\ i - 1 = 3
    BY <1>9, <1>10, <2>1, <2>4
  <2> QED BY <1>1, <1>9, <2>1, <2>2, <2>3, <2>4, <2>5
<1>15. Closing(t, stopped, ring_inited)
  BY <1>0, <1>1, <1>9, <1>10 DEF Closing, Control
<1>16. Unflushed(t, flushed)
  BY <1>0, <1>9, <1>10, <1>11 DEF Unflushed, Control
<1> QED BY <1>7, <1>12, <1>13, <1>14, <1>15, <1>16 DEF Control

LEMMA FlushBufferStep ==
    ASSUME AofInv, FlushBuffer
    PROVE  AofInv'
<1>0. /\ Typed /\ Control /\ todo # <<>> /\ Head(todo).op = "flush"
      /\ UNCHANGED <<writerVars, awake, ringVars, synced, histVars>>
  BY DEF AofInv, FlushBuffer, At
<1>1. UNCHANGED <<policy, buf, pending, next_ud, dirty, io_failed, stopped, ring_inited,
                  flush_due, sync_due, units, acked, flushed, submit_fails, io_fails>>
  BY <1>0 DEF writerVars, histVars
<1>2. ~Loads(Head(todo))
  BY <1>0 DEF Loads
<1>3. Control' /\ todo' \in Seq(OpSet)
  <2>1. CASE buf = <<>>
    <3>1. Done
      BY <2>1 DEF FlushBuffer
    <3> QED BY <1>0, <1>1, <1>2, <2>1, <3>1, DoneControl
  <2>2. CASE buf # <<>> /\ io_failed
    <3>1. Fails
      BY <2>2 DEF FlushBuffer
    <3> QED BY <1>0, <1>1, <1>2, <3>1, FailsControl
  <2>3. CASE buf # <<>> /\ ~io_failed
    <3>1. todo' = <<[Head(todo) EXCEPT !.op = "submit"]>> \o Tail(todo) /\ At("flush")
      BY <2>3 DEF FlushBuffer
    <3> QED BY <1>0, <1>1, <3>1, SubmitNext
  <2> QED BY <2>1, <2>2, <2>3
<1> QED BY <1>0, <1>1, <1>3, Booleans, StillStep

LEMMA AckStep ==
    ASSUME AofInv, Ack
    PROVE  AofInv'
<1>0. /\ Typed /\ Control /\ todo # <<>> /\ Head(todo).op = "ack" /\ Done
      /\ UNCHANGED <<writerVars, awake, ringVars, synced, units, flushed, submit_fails, io_fails>>
      /\ acked' = acked \cup (units - Head(todo).n + 1)..units
  BY DEF AofInv, Ack, At
<1>1. UNCHANGED <<policy, buf, pending, next_ud, dirty, io_failed, stopped, ring_inited,
                  flush_due, sync_due>>
  BY <1>0 DEF writerVars
<1>2. Control' /\ todo' \in Seq(OpSet)
  <2>1. ~Loads(Head(todo))
    BY <1>0 DEF Loads
  <2> QED BY <1>0, <1>1, <2>1, DoneControl
<1>3. /\ Head(todo) = todo[1] /\ Len(todo) = 1 /\ todo[1].n \in Nat /\ ~Loads(todo[1])
  <2>1. /\ Head(todo) = todo[1] /\ Len(todo) \in Nat /\ Len(todo) >= 1 /\ 1 \in 1..Len(todo)
        /\ \A i \in 1..Len(todo) : todo[i].n \in Nat
    BY <1>0, TodoTyped
  <2> QED BY <1>0, <2>1 DEF Control, Acks, Loads
<1>4. todo[1].n <= units
  <2>1. \A j \in 1..Len(todo) : j = 1
    BY <1>3
  <2> QED BY <1>0, <1>3, <2>1 DEF Control, Acks
<1>5. acked' \subseteq Units
  <2>1. units \in 0..MaxUnits /\ MaxUnits \in Nat /\ acked \subseteq Units
    BY <1>0, Booleans, InlineAofAssumption
  <2>2. (units - todo[1].n + 1)..units \subseteq Units
    BY <1>3, <1>4, <2>1 DEF Units
  <2> QED BY <1>0, <1>3, <2>1, <2>2
<1> QED BY <1>0, <1>1, <1>2, <1>5, Booleans, StillStep

LEMMA PollDueStep ==
    ASSUME AofInv, PollDue \/ PollSync
    PROVE  AofInv'
<1>0. /\ Typed /\ Control /\ todo # <<>>
      /\ UNCHANGED <<writerVars, awake, ringVars, synced, histVars>>
  BY DEF AofInv, PollDue, PollSync, At
<1>1. UNCHANGED <<policy, buf, pending, next_ud, dirty, io_failed, stopped, ring_inited,
                  flush_due, sync_due, units, acked, flushed, submit_fails, io_fails>>
  BY <1>0 DEF writerVars, histVars
<1>2. PICK f \in OpSet : f = Try("flush") /\ f.op = "flush"
  BY NamesAre, OpsTyped, Zenon
<1>3. PICK d \in OpSet : d = Try("drain") /\ d.op = "drain"
  BY NamesAre, OpsTyped, Zenon
<1>4. PICK s \in OpSet : s = Try("sync") /\ s.op = "sync"
  BY NamesAre, OpsTyped, Zenon
<1>5. PICK p \in OpSet : p = Try("pollsync") /\ p.op = "pollsync"
  BY NamesAre, OpsTyped, Zenon
<1>6. \/ todo' = <<>> \/ todo' = <<f>> \o <<p>> \/ todo' = <<>> \o <<p>>
      \/ todo' = <<f, d, s>>
  BY <1>2, <1>3, <1>4, <1>5 DEF PollDue, PollSync
<1>7. todo' = <<>> \/ todo' = <<f, p>> \/ todo' = <<p>> \/ todo' = <<f, d, s>>
  BY <1>6
<1>8. todo' \in Seq(OpSet) /\ \A i \in 1..Len(todo') :
          todo'[i].op \in {"flush", "drain", "sync", "pollsync"}
  <2>1. CASE todo' = <<>>
    BY <2>1
  <2>2. CASE todo' = <<f, p>>
    BY <1>2, <1>5, <2>2
  <2>3. CASE todo' = <<p>>
    BY <1>5, <2>3
  <2>4. CASE todo' = <<f, d, s>>
    BY <1>2, <1>3, <1>4, <2>4
  <2> QED BY <1>7, <2>1, <2>2, <2>3, <2>4
<1>9. ring_inited
  BY <1>0 DEF Control, Closing
<1>10. Control'
  BY <1>1, <1>8, <1>9 DEF Control, Load, Acks, Flushing, Closing, Unflushed, Loads
<1> QED BY <1>0, <1>1, <1>8, <1>10, Booleans, StillStep

LEMMA PeekDoneStep ==
    ASSUME AofInv, PeekDone
    PROVE  AofInv'
<1>0. /\ Typed /\ Control /\ todo # <<>> /\ Done
      /\ Head(todo).op = "peek" \/ (Head(todo).op = "drain" /\ pending = <<>>)
      /\ UNCHANGED <<writerVars, awake, ringVars, synced, histVars>>
  BY DEF AofInv, PeekDone, At
<1>1. UNCHANGED <<policy, buf, pending, next_ud, dirty, io_failed, stopped, ring_inited,
                  flush_due, sync_due, units, acked, flushed, submit_fails, io_fails>>
  BY <1>0 DEF writerVars, histVars
<1>2. ~Loads(Head(todo))
  BY <1>0 DEF Loads
<1>3. Control' /\ todo' \in Seq(OpSet)
  BY <1>0, <1>1, <1>2, DoneControl
<1> QED BY <1>0, <1>1, <1>3, Booleans, StillStep

LEMMA WaitFailsStep ==
    ASSUME AofInv, WaitFails
    PROVE  AofInv'
<1>0. /\ Typed /\ Control /\ todo # <<>> /\ Fails /\ Head(todo).op \in {"submit", "drain"}
      /\ io_failed' \in BOOLEAN /\ (io_failed => io_failed') /\ io_fails' = io_fails + 1
      /\ UNCHANGED <<policy, buf, pending, next_ud, dirty, stopped, ring_inited, flush_due,
                     sync_due, awake, ringVars, synced, units, acked, flushed, submit_fails>>
  BY DEF AofInv, WaitFails, At
<1>1. ~Loads(Head(todo))
  BY <1>0 DEF Loads
<1>2. Control' /\ todo' \in Seq(OpSet)
  BY <1>0, <1>1, FailsControl
<1>3. io_fails' \in Nat
  BY <1>0, Booleans
<1> QED BY <1>0, <1>2, <1>3, Booleans, StillStep

LEMMA SyncFailsStep ==
    ASSUME AofInv, SyncFails
    PROVE  AofInv'
<1>0. /\ Typed /\ Control /\ todo # <<>> /\ Fails /\ Head(todo).op = "sync"
      /\ io_failed' \in BOOLEAN /\ (io_failed => io_failed') /\ io_fails' = io_fails + 1
      /\ UNCHANGED <<policy, buf, pending, next_ud, dirty, stopped, ring_inited, flush_due,
                     sync_due, awake, ringVars, synced, units, acked, flushed, submit_fails>>
  BY DEF AofInv, SyncFails, At
<1>1. ~Loads(Head(todo))
  BY <1>0 DEF Loads
<1>2. Control' /\ todo' \in Seq(OpSet)
  BY <1>0, <1>1, FailsControl
<1>3. io_fails' \in Nat
  BY <1>0, Booleans
<1> QED BY <1>0, <1>2, <1>3, Booleans, StillStep

LEMMA FlushReturnsStep ==
    ASSUME AofInv, FlushReturns
    PROVE  AofInv'
<1>0. /\ Typed /\ Control /\ todo # <<>> /\ Done /\ Head(todo).op = "flushed"
      /\ UNCHANGED <<writerVars, awake, ringVars, synced, units, acked, submit_fails, io_fails>>
      /\ flushed' = IF io_failed THEN "fail" ELSE "ok"
  BY DEF AofInv, FlushReturns, At
<1>1. UNCHANGED <<policy, buf, pending, next_ud, dirty, io_failed, stopped, ring_inited,
                  flush_due, sync_due, sq, inflight, cq, file>>
  BY <1>0 DEF writerVars, ringVars
<1>2. ~Loads(Head(todo))
  BY <1>0 DEF Loads
<1>3. Control' /\ todo' \in Seq(OpSet)
  BY <1>0, <1>1, <1>2, DoneControl
<1>4. flushed' \in {"none", "ok", "fail"}
  BY <1>0
<1>5. Typed'
  BY <1>0, <1>1, <1>3, <1>4, Booleans, SameTyped
<1>6. Fresh' /\ Writes' /\ Kept' /\ Covered'
  <2>1. Fresh' /\ Writes'
    BY <1>1 DEF AofInv, Fresh, Writes
  <2>2. Kept' /\ Covered'
    BY <1>0, <1>1 DEF AofInv, Kept, Covered
  <2> QED BY <2>1, <2>2
<1>7. ring_inited /\ buf = <<>> /\ pending = <<>> /\ (policy = "no" \/ ~dirty)
  <2>1. Len(todo) \in Nat /\ 1 \in 1..Len(todo) /\ todo[1].op = "flushed"
    BY <1>0, TodoTyped
  <2>2. ring_inited
    BY <1>0 DEF Control, Closing
  <2> QED BY <1>0, <2>1, <2>2 DEF Control, Flushing
<1>8. FlushHonest'
  <2>1. CASE io_failed
    <3>1. flushed' # "ok"
      BY <1>0, <2>1
    <3> QED BY <3>1 DEF FlushHonest
  <2>2. CASE ~io_failed
    <3>1. Len(buf) = 0 /\ Len(pending) = 0 /\ ToSet(buf) = {}
      BY <1>7 DEF ToSet
    <3>2. ASSUME NEW u \in 1..units PROVE u \in ToSet(file) /\ (policy # "no" => u \in synced)
      <4>1. Held(u, file, buf, pending)
        BY <1>7, <2>2 DEF AofInv, Kept
      <4>2. policy # "no" => Synced(u, synced, buf, pending)
        BY <1>7, <2>2 DEF AofInv, Covered
      <4>3. u \in ToSet(file)
        BY <3>1, <4>1 DEF Held
      <4>4. policy # "no" => u \in synced
        BY <3>1, <4>2 DEF Synced
      <4> QED BY <4>3, <4>4
    <3> QED BY <1>0, <1>1, <3>2 DEF FlushHonest
  <2> QED BY <2>1, <2>2
<1> QED BY <1>3, <1>5, <1>6, <1>8 DEF AofInv

LEMMA CloseStep ==
    ASSUME AofInv, Close
    PROVE  AofInv'
<1>0. /\ Typed /\ Control /\ FlushHonest /\ todo # <<>> /\ Done /\ Head(todo).op = "close"
      /\ ring_inited' = FALSE /\ pending' = <<>> /\ inflight' = <<>> /\ sq' = <<>> /\ cq' = <<>>
      /\ UNCHANGED <<policy, buf, next_ud, dirty, io_failed, stopped, flush_due,
                     sync_due, awake, file, synced, histVars>>
  BY DEF AofInv, Close, At
<1>1. UNCHANGED <<units, acked, flushed, submit_fails, io_fails>>
  BY <1>0 DEF histVars
<1>2. todo' = <<>> /\ stopped
  <2>1. /\ Len(todo) \in Nat /\ 1 \in 1..Len(todo) /\ todo[1].op = "close"
        /\ Tail(todo) \in Seq(OpSet) /\ Cut(todo, Tail(todo), 1)
    BY <1>0, TodoTyped
  <2>2. Len(todo) = 1 /\ stopped
    BY <1>0, <2>1 DEF Control, Closing
  <2>3. Len(Tail(todo)) = 0
    BY <2>1, <2>2 DEF Cut
  <2>4. Tail(todo) = <<>>
    BY <2>1, <2>3, EmptySeq
  <2> QED BY <1>0, <2>2, <2>4 DEF Done
<1>3. Control'
  BY <1>0, <1>1, <1>2 DEF Control, Load, Acks, Flushing, Closing, Unflushed
<1>4. Typed'
  <2>1. Len(<<>>) = 0 /\ MaxPending \in Nat /\ RingEntries \in Nat
    BY InlineAofAssumption
  <2>2. /\ pending' \in Seq(Pw) /\ sq' \in Seq(Sqe) /\ inflight' \in Seq(Sqe)
        /\ cq' \in Seq(Cqe) /\ todo' \in Seq(OpSet)
    BY <1>0, <1>2
  <2>3. Len(pending') <= MaxPending /\ Len(sq') <= RingEntries
    BY <1>0, <2>1
  <2> QED BY <1>0, <1>1, <2>2, <2>3 DEF Typed, TypeOK
<1>5. Fresh' /\ Writes' /\ Kept' /\ Covered'
  <2>1. Fresh' /\ Writes'
    BY <1>0 DEF Fresh, Below, Writes, Distinct
  <2> QED BY <1>0, <2>1 DEF Kept, Covered
<1>6. FlushHonest'
  BY <1>0, <1>1 DEF FlushHonest
<1> QED BY <1>3, <1>4, <1>5, <1>6 DEF AofInv

LEMMA SyncStep ==
    ASSUME AofInv, Sync
    PROVE  AofInv'
<1>0. /\ Typed /\ Control /\ FlushHonest /\ todo # <<>> /\ Done /\ Head(todo).op = "sync"
      /\ UNCHANGED <<policy, buf, pending, next_ud, io_failed, stopped, ring_inited,
                     flush_due, awake, ringVars, histVars>>
  BY DEF AofInv, Sync, At
<1>1. UNCHANGED <<units, acked, flushed, submit_fails, io_fails, sq, inflight, cq, file>>
  BY <1>0 DEF histVars, ringVars
<1>2. \/ /\ synced' = synced \cup ToSet(file) /\ dirty' = FALSE /\ sync_due' = FALSE
      \/ /\ ~(policy # "no" /\ dirty) /\ UNCHANGED <<synced, dirty, sync_due>>
  BY DEF Sync
<1>3. policy = "no" \/ ~dirty'
  BY <1>2
<1>4. Control' /\ todo' \in Seq(OpSet)
  <2>1. ~Loads(Head(todo))
    BY <1>0 DEF Loads
  <2> QED BY <1>0, <1>1, <1>3, <2>1, DoneControl
<1>5. synced \subseteq synced' /\ synced' \subseteq 0..MaxUnits
  <2>1. file \in Seq(0..MaxUnits) /\ synced \subseteq 0..MaxUnits
    BY <1>0 DEF Typed, TypeOK
  <2>2. ToSet(file) \subseteq 0..MaxUnits
    BY <2>1, ToSetIn, Zenon
  <2> QED BY <1>2, <2>1, <2>2
<1>6. dirty' \in BOOLEAN /\ sync_due' \in BOOLEAN
  BY <1>0, <1>2, Booleans
<1>7. Typed'
  BY <1>0, <1>1, <1>4, <1>5, <1>6 DEF Typed, TypeOK
<1>8. Fresh' /\ Writes' /\ Kept'
  <2>1. Fresh' /\ Writes'
    BY <1>0, <1>1 DEF AofInv, Fresh, Writes
  <2> QED BY <1>0, <1>1, <2>1 DEF AofInv, Kept
<1>9. Covered'
  <2>1. CASE synced' = synced \cup ToSet(file)
    <3> SUFFICES ASSUME ~io_failed, ring_inited, NEW u \in 1..units
                 PROVE  Synced(u, synced', buf, pending)
      BY <1>0, <1>1 DEF Covered
    <3>1. Held(u, file, buf, pending)
      BY DEF AofInv, Kept
    <3>2. ASSUME NEW i \in 1..Len(pending), InRest(u, pending[i]) PROVE u \in ToSet(pending[i].data)
      <4>1. pending \in Seq(Pw) /\ pending[i] \in Pw
        BY <1>0 DEF Typed
      <4>2. pending[i].data \in Seq(Units)
        BY <4>1 DEF Pw
      <4>3. PICK j \in 1..Len(pending[i].data) : pending[i].data[j] = u
        BY <3>2 DEF InRest
      <4> QED BY <4>2, <4>3, InToSet
    <3> QED BY <2>1, <3>1, <3>2 DEF Held, Synced
  <2>2. CASE synced' = synced /\ dirty' = dirty
    BY <1>0, <1>1, <2>2 DEF AofInv, Covered
  <2> QED BY <1>2, <2>1, <2>2
<1>10. FlushHonest'
  BY <1>0, <1>1, <1>5 DEF FlushHonest
<1> QED BY <1>4, <1>7, <1>8, <1>9, <1>10 DEF AofInv

(* The next n units reach the buffer.                                        *)
LEMMA AppendsUnits ==
    ASSUME AofInv, NEW n \in Nat, n > 0, units + n <= MaxUnits, Len(buf) + n <= HardCap,
           flushed = "none", buf' = buf \o [i \in 1..n |-> units + i], units' = units + n,
           UNCHANGED <<policy, pending, next_ud, dirty, io_failed, stopped, ring_inited,
                       flush_due, sync_due, awake, ringVars, synced, acked, flushed,
                       submit_fails, io_fails>>,
           Control', todo' \in Seq(OpSet)
    PROVE  AofInv'
<1>0. Typed /\ units \in Nat /\ MaxUnits \in Nat /\ buf \in Seq(Units) /\ Len(buf) \in Nat
  BY InlineAofAssumption DEF AofInv, Typed, TypeOK, Units
<1>1. UNCHANGED <<sq, inflight, cq, file>>
  BY DEF ringVars
<1>2. PICK d \in Seq(Units) : /\ d = [i \in 1..n |-> units + i] /\ Len(d) = n
                              /\ \A u \in (units + 1)..(units + n) : u \in ToSet(d)
  <2> DEFINE e == [i \in 1..n |-> units + i]
  <2>1. \A i \in 1..n : units + i \in Units
    BY <1>0 DEF Units
  <2>2. e \in Seq(Units) /\ Len(e) = n
    BY <2>1
  <2>3. ASSUME NEW u \in (units + 1)..(units + n) PROVE u \in ToSet(e)
    <3>1. u - units \in 1..n /\ units + (u - units) = u
      BY <1>0
    <3>2. e[u - units] = u
      BY <3>1
    <3> HIDE DEF e
    <3> QED BY <2>2, <3>1, <3>2, InToSet
  <2> HIDE DEF e
  <2>4. e = [i \in 1..n |-> units + i]
    BY Zenon DEF e
  <2> QED BY <2>2, <2>3, <2>4
<1>3. /\ buf' \in Seq(Units) /\ Len(buf') = Len(buf) + n
      /\ ToSet(buf') = ToSet(buf) \cup ToSet(d)
  <2>1. buf' = buf \o d
    BY <1>2, Zenon
  <2>2. PICK z \in Seq(Units) : /\ z = buf \o d /\ Len(z) = Len(buf) + Len(d)
                                /\ ToSet(z) = ToSet(buf) \cup ToSet(d)
    BY <1>0, ToSetConcat, Zenon
  <2> QED BY <1>2, <2>1, <2>2
<1>4. Typed'
  <2>1. Len(buf') <= HardCap /\ units' \in 0..MaxUnits
    BY <1>0, <1>3
  <2> QED BY <1>0, <1>1, <1>3, <2>1 DEF Typed, TypeOK, Units
<1>5. Fresh' /\ Writes'
  BY <1>1 DEF AofInv, Fresh, Writes
<1>6. ASSUME NEW u \in 1..units' PROVE u \in 1..units \/ u \in ToSet(buf')
  <2>1. u \in 1..units \/ u \in (units + 1)..(units + n)
    BY <1>0
  <2> QED BY <1>2, <1>3, <2>1
<1>7. Kept'
  <2> SUFFICES ASSUME ~io_failed, ring_inited, NEW u \in 1..units'
               PROVE  Held(u, file, buf', pending)
    BY <1>1 DEF Kept
  <2>1. u \in 1..units => Held(u, file, buf, pending)
    BY DEF AofInv, Kept
  <2> QED BY <1>3, <1>6, <2>1 DEF Held
<1>8. Covered'
  <2> SUFFICES ASSUME ~io_failed, ring_inited, policy # "no", ~dirty, NEW u \in 1..units'
               PROVE  Synced(u, synced, buf', pending)
    BY <1>1 DEF Covered
  <2>1. u \in 1..units => Synced(u, synced, buf, pending)
    BY DEF AofInv, Covered
  <2> QED BY <1>3, <1>6, <2>1 DEF Synced
<1>9. FlushHonest'
  BY DEF FlushHonest
<1> QED BY <1>4, <1>5, <1>7, <1>8, <1>9 DEF AofInv

(* The call that appends is an Enqueue.                                      *)
LEMMA LoadFirst ==
    ASSUME Typed, Control, todo # <<>>, Loads(todo[1])
    PROVE  /\ \A i \in 1..Len(todo) : todo[i].op # "flushed" /\ (Loads(todo[i]) => i = 1)
           /\ flushed = "none" /\ todo[1].n > 0 /\ units + todo[1].n <= MaxUnits
           /\ IF todo[1].op = "append" THEN Len(buf) + todo[1].n <= HardCap ELSE buf = <<>>
<1>0. Len(todo) \in Nat /\ 1 \in 1..Len(todo)
  BY TodoTyped
<1>1. ASSUME NEW i \in 1..Len(todo), todo[i].op = "flushed" PROVE FALSE
  <2>1. /\ i <= 4 /\ i # 4 /\ i # 3
        /\ i >= 2 => todo[i - 1].op = "sync"
    BY <1>1 DEF Control, Flushing, Loads
  <2>2. i # 1
    BY <1>1 DEF Loads
  <2>3. i = 2
    BY <2>1, <2>2
  <2>4. i - 1 = 1
    BY <2>3
  <2> QED BY <2>1, <2>3, <2>4 DEF Loads
<1>2. /\ \A i \in 1..Len(todo) : Loads(todo[i]) => i = 1
      /\ todo[1].n > 0 /\ units + todo[1].n <= MaxUnits
      /\ IF todo[1].op = "append" THEN Len(buf) + todo[1].n <= HardCap ELSE buf = <<>>
  BY <1>0 DEF Control, Load
<1>3. flushed = "none"
  BY <1>0 DEF Control, Unflushed
<1> QED BY <1>1, <1>2, <1>3

LEMMA DoAppendStep ==
    ASSUME AofInv, DoAppend
    PROVE  AofInv'
<1>0. /\ Typed /\ Control /\ todo # <<>> /\ Done /\ Head(todo).op = "append"
      /\ UNCHANGED <<policy, pending, next_ud, dirty, io_failed, stopped, ring_inited,
                     flush_due, sync_due, awake, ringVars, synced, acked, flushed,
                     submit_fails, io_fails>>
      /\ units' = units + Head(todo).n
      /\ buf' = buf \o [i \in 1..Head(todo).n |-> units + i]
  BY DEF AofInv, DoAppend, At
<1>1. /\ Len(todo) \in Nat /\ Len(todo) >= 1 /\ Head(todo) = todo[1]
      /\ Tail(todo) \in Seq(OpSet) /\ Cut(todo, Tail(todo), 1)
      /\ \A i \in 1..Len(todo) : todo[i].n \in Nat
  BY <1>0, TodoTyped
<1>2. Loads(todo[1]) /\ todo[1].op = "append"
  BY <1>0, <1>1 DEF Loads
<1>3. /\ \A i \in 1..Len(todo) : todo[i].op # "flushed" /\ (Loads(todo[i]) => i = 1)
      /\ flushed = "none" /\ todo[1].n > 0 /\ units + todo[1].n <= MaxUnits
      /\ Len(buf) + todo[1].n <= HardCap
  BY <1>0, <1>2, LoadFirst
<1>4. PICK t \in Seq(OpSet) : t = Tail(todo) /\ todo' = t
  BY <1>0, <1>1, Zenon DEF Done
<1>5. Cut(todo, t, 1)
  BY <1>1, <1>4
<1>6. ASSUME NEW i \in 1..Len(t) PROVE i + 1 \in 1..Len(todo) /\ t[i] = todo[i + 1] /\ i + 1 # 1
  <2>1. Len(t) = Len(todo) - 1 /\ ~(i < 1) /\ t[i] = IF i < 1 THEN todo[i] ELSE todo[i + 1]
    BY <1>5 DEF Cut
  <2> QED BY <1>1, <2>1
<1>7. \A i \in 1..Len(t) : t[i].op # "flushed" /\ ~Loads(t[i])
  BY <1>3, <1>6
<1>8. Acks(t, units')
  <2> SUFFICES ASSUME NEW i \in 1..Len(t), t[i].op = "ack"
               PROVE  i = Len(t) /\ t[i].n <= units + todo[1].n
    BY <1>0, <1>1 DEF Acks
  <2>1. i + 1 \in 1..Len(todo) /\ t[i] = todo[i + 1]
    BY <1>6
  <2>2. /\ i + 1 = Len(todo)
        /\ \/ todo[i + 1].n <= units
           \/ \E j \in 1..Len(todo) : Loads(todo[j]) /\ todo[i + 1].n <= units + todo[j].n
    BY <1>0, <2>1 DEF Control, Acks
  <2>3. \/ todo[i + 1].n <= units
        \/ todo[i + 1].n <= units + todo[1].n
    BY <1>3, <2>2
  <2>4. units \in Nat /\ todo[1].n \in Nat /\ todo[i + 1].n \in Nat
    BY <1>0, <1>1, <2>1, Booleans
  <2> QED BY <1>5, <2>1, <2>2, <2>3, <2>4 DEF Cut
<1>9. Closing(t, stopped, ring_inited)
  BY <1>0, <1>1, <1>5, ClosingDone DEF Control
<1>10. Control'
  BY <1>0, <1>4, <1>7, <1>8, <1>9 DEF Control, Load, Flushing, Unflushed
<1>11. todo[1].n \in Nat
  BY <1>1
<1> QED BY <1>0, <1>1, <1>3, <1>4, <1>10, <1>11, AppendsUnits

LEMMA DoPieceStep ==
    ASSUME AofInv, DoPiece
    PROVE  AofInv'
<1>0. /\ Typed /\ Control /\ todo # <<>> /\ Head(todo).op = "pieces"
      /\ UNCHANGED <<policy, pending, next_ud, dirty, io_failed, stopped, ring_inited,
                     flush_due, sync_due, awake, ringVars, synced, acked, flushed,
                     submit_fails, io_fails>>
  BY DEF AofInv, DoPiece, At
<1>1. /\ Len(todo) \in Nat /\ Len(todo) >= 1 /\ Head(todo) = todo[1]
      /\ Tail(todo) \in Seq(OpSet) /\ Cut(todo, Tail(todo), 1)
      /\ \A i \in 1..Len(todo) : todo[i].n \in Nat
  BY <1>0, TodoTyped
<1>2. Loads(todo[1]) /\ todo[1].op # "append"
  BY <1>0, <1>1 DEF Loads
<1>3. /\ \A i \in 1..Len(todo) : todo[i].op # "flushed" /\ (Loads(todo[i]) => i = 1)
      /\ flushed = "none" /\ todo[1].n > 0 /\ units + todo[1].n <= MaxUnits /\ buf = <<>>
  BY <1>0, <1>2, LoadFirst
<1>4. PICK left \in Nat : left = todo[1].n /\ left > 0
  BY <1>1, <1>3
<1>5. PICK n \in Nat : /\ n = IF left < SoftFlush THEN left ELSE SoftFlush
                       /\ n > 0 /\ n <= left /\ n <= HardCap
  BY <1>4, InlineAofAssumption, SMTT(40)
<1>6. /\ buf' = buf \o [i \in 1..n |-> units + i] /\ units' = units + n
      /\ todo' = (IF n < left THEN <<Must("flush"), Arg("pieces", left - n)>>
                  ELSE <<Must("flush")>>) \o Tail(todo)
  BY <1>1, <1>4, <1>5 DEF DoPiece
<1>7. PICK r \in Seq(OpSet) : r = Tail(todo) /\ Cut(todo, r, 1)
  BY <1>1, Zenon
<1>8. PICK f \in OpSet : f = Must("flush") /\ f.op = "flush" /\ f.must
  BY NamesAre, OpsTyped, Zenon
<1>9. PICK o \in Seq(OpSet) :
         /\ o = IF n < left THEN <<Must("flush"), Arg("pieces", left - n)>> ELSE <<Must("flush")>>
         /\ Len(o) = (IF n < left THEN 2 ELSE 1) /\ o[1] = f
         /\ n < left => o[2].op = "pieces" /\ o[2].n = left - n
  <2>1. CASE n < left
    <3>1. PICK l \in OpSet : l = Arg("pieces", left - n) /\ l.op = "pieces" /\ l.n = left - n
      <4>1. "pieces" \in OpNames /\ left - n \in Nat
        BY <2>1, NamesAre
      <4>2. /\ Arg("pieces", left - n) \in OpSet /\ Arg("pieces", left - n).op = "pieces"
            /\ Arg("pieces", left - n).n = left - n
        BY <4>1, ArgTyped
      <4> QED BY <4>2, Zenon
    <3>2. <<f, l>> \in Seq(OpSet) /\ Len(<<f, l>>) = 2 /\ <<f, l>>[1] = f /\ <<f, l>>[2] = l
      OBVIOUS
    <3> QED BY <1>8, <2>1, <3>1, <3>2, Zenon
  <2>2. CASE ~(n < left)
    <3>1. <<f>> \in Seq(OpSet) /\ Len(<<f>>) = 1 /\ <<f>>[1] = f
      OBVIOUS
    <3> QED BY <1>8, <2>2, <3>1, Zenon
  <2> QED BY <2>1, <2>2
<1>10. /\ o \o r \in Seq(OpSet) /\ Len(o \o r) = Len(o) + Len(r)
       /\ \A i \in 1..(Len(o) + Len(r)) : (o \o r)[i] = IF i <= Len(o) THEN o[i] ELSE r[i - Len(o)]
  BY ConcatProperties
<1>11. PICK t \in Seq(OpSet) :
         /\ t = o \o r /\ Len(t) = Len(o) + Len(r)
         /\ \A i \in 1..(Len(o) + Len(r)) : t[i] = IF i <= Len(o) THEN o[i] ELSE r[i - Len(o)]
  BY <1>10, Zenon
<1>12. todo' = t
  BY <1>6, <1>7, <1>9, <1>11, Zenon
<1>13. Len(r) = Len(todo) - 1 /\ Len(o) \in {1, 2} /\ Len(t) = Len(o) + Len(todo) - 1
  BY <1>1, <1>7, <1>9, <1>11 DEF Cut
<1>14. t[1] = f /\ (n < left => t[2] = o[2] /\ Len(o) = 2) /\ (Len(o) = 2 => n < left)
  BY <1>1, <1>9, <1>11, <1>13
<1>15. ASSUME NEW i \in 1..Len(t), i > Len(o)
       PROVE  \E j \in 1..Len(todo) : j = i - Len(o) + 1 /\ j # 1 /\ t[i] = todo[j]
  <2>1. /\ i - Len(o) \in 1..Len(r) /\ ~(i <= Len(o)) /\ i \in 1..(Len(o) + Len(r))
        /\ i - Len(o) + 1 \in 1..Len(todo) /\ i - Len(o) + 1 # 1 /\ ~(i - Len(o) < 1)
    BY <1>1, <1>11, <1>13, <1>15
  <2>2. t[i] = r[i - Len(o)]
    BY <1>11, <2>1
  <2>3. r[i - Len(o)] = todo[(i - Len(o)) + 1]
    BY <1>7, <2>1 DEF Cut
  <2> QED BY <2>1, <2>2, <2>3
<1>16. ASSUME NEW i \in 1..Len(t)
       PROVE  /\ t[i].op # "flushed"
              /\ Loads(t[i]) => i = 2 /\ n < left
              /\ (t[i].op = "ack" \/ t[i].op = "close") => i > Len(o)
  <2>1. CASE i > Len(o)
    BY <1>3, <1>15, <2>1
  <2>2. CASE ~(i > Len(o))
    <3>0. i \in Nat /\ i >= 1 /\ i <= Len(o)
      BY <1>13, <2>2
    <3>1. i = 1 \/ (i = 2 /\ Len(o) = 2)
      <4>1. Len(o) = 1 \/ Len(o) = 2
        BY <1>13
      <4>2. CASE Len(o) = 1
        BY <3>0, <4>2
      <4>3. CASE Len(o) = 2
        BY <3>0, <4>3
      <4> QED BY <4>1, <4>2, <4>3
    <3>1a. i = 1 \/ (i = 2 /\ n < left)
      BY <1>14, <3>1
    <3>2. CASE i = 1
      BY <1>8, <1>14, <3>2 DEF Loads
    <3>3. CASE i = 2 /\ n < left
      BY <1>9, <1>14, <3>3 DEF Loads
    <3> QED BY <3>1a, <3>2, <3>3
  <2> QED BY <2>1, <2>2
<1>17. units \in Nat /\ MaxUnits \in Nat
  BY <1>0, Booleans, InlineAofAssumption
<1>18. Load(t, buf', units')
  <2> SUFFICES ASSUME NEW i \in 1..Len(t), Loads(t[i])
               PROVE  /\ i = 2 /\ t[i].n > 0 /\ units' + t[i].n <= MaxUnits
                      /\ t[1].op = "flush" /\ t[1].must /\ t[i].op # "append"
                      /\ \A j \in 1..Len(t) : Loads(t[j]) => j = i
    BY DEF Load
  <2>1. i = 2 /\ n < left /\ \A j \in 1..Len(t) : Loads(t[j]) => j = i
    BY <1>16
  <2>2. t[i].op = "pieces" /\ t[i].n = left - n
    BY <1>9, <1>14, <2>1
  <2>3. left - n > 0 /\ units + n + (left - n) <= MaxUnits
    BY <1>3, <1>4, <1>17, <2>1
  <2> QED BY <1>6, <1>8, <1>14, <2>1, <2>2, <2>3
<1>19. Acks(t, units')
  <2> SUFFICES ASSUME NEW i \in 1..Len(t), t[i].op = "ack"
               PROVE  /\ i = Len(t)
                      /\ \/ t[i].n <= units'
                         \/ \E j \in 1..Len(t) : Loads(t[j]) /\ t[i].n <= units' + t[j].n
    BY DEF Acks
  <2>1. PICK j \in 1..Len(todo) : j = i - Len(o) + 1 /\ t[i] = todo[j]
    BY <1>15, <1>16
  <2>2. /\ j = Len(todo)
        /\ \/ todo[j].n <= units
           \/ \E k \in 1..Len(todo) : Loads(todo[k]) /\ todo[j].n <= units + todo[k].n
    BY <1>0, <2>1 DEF Control, Acks
  <2>3. todo[j].n \in Nat /\ todo[j].n <= units + left
    <3>1. todo[j].n <= units \/ todo[j].n <= units + left
      BY <1>3, <1>4, <2>2
    <3> QED BY <1>1, <1>17, <2>1, <3>1
  <2>4. i = Len(t)
    BY <1>1, <1>13, <2>1, <2>2
  <2>5. CASE n < left
    <3>1. 2 \in 1..Len(t) /\ Loads(t[2]) /\ t[2].n = left - n
      BY <1>1, <1>9, <1>13, <1>14, <2>5 DEF Loads
    <3>2. todo[j].n <= units + n + (left - n)
      BY <1>17, <2>3
    <3> QED BY <1>6, <2>1, <2>4, <3>1, <3>2
  <2>6. CASE ~(n < left)
    <3>1. n = left
      BY <1>5, <2>6
    <3> QED BY <1>6, <2>1, <2>3, <2>4, <3>1
  <2> QED BY <2>5, <2>6
<1>20. Closing(t, stopped, ring_inited)
  <2>1. ring_inited
    BY <1>0 DEF Control, Closing
  <2>2. ASSUME NEW i \in 1..Len(t), t[i].op = "close" PROVE i = Len(t) /\ stopped
    <3>1. PICK j \in 1..Len(todo) : j = i - Len(o) + 1 /\ t[i] = todo[j]
      BY <1>15, <1>16, <2>2
    <3>2. j = Len(todo) /\ stopped
      BY <1>0, <2>2, <3>1 DEF Control, Closing
    <3> QED BY <1>1, <1>13, <3>1, <3>2
  <2> QED BY <2>1, <2>2 DEF Closing
<1>21. Control'
  BY <1>0, <1>3, <1>12, <1>16, <1>18, <1>19, <1>20 DEF Control, Flushing, Unflushed
<1>22. units + n <= MaxUnits /\ Len(buf) + n <= HardCap
  <2>1. Len(buf) = 0
    BY <1>3
  <2> QED BY <1>3, <1>4, <1>5, <1>17, <2>1
<1> QED BY <1>0, <1>3, <1>5, <1>6, <1>12, <1>21, <1>22, AppendsUnits

-----------------------------------------------------------------------------
(* The submits *)

\* the elements of q have a user_data
Uds(q) == \A i \in 1..Len(q) : q[i].ud \in Nat

LEMMA QueuesTyped ==
    ASSUME Typed
    PROVE  /\ Uds(pending) /\ Uds(sq) /\ Uds(inflight) /\ Uds(cq) /\ next_ud \in Nat
           /\ Len(pending) \in Nat /\ Len(sq) \in Nat /\ Len(inflight) \in Nat /\ Len(cq) \in Nat
<1>1. pending \in Seq(Pw) /\ sq \in Seq(Sqe) /\ inflight \in Seq(Sqe) /\ cq \in Seq(Cqe)
  BY DEF Typed
<1>2. /\ \A i \in 1..Len(pending) : pending[i] \in Pw
      /\ \A i \in 1..Len(sq) : sq[i] \in Sqe
      /\ \A i \in 1..Len(inflight) : inflight[i] \in Sqe
      /\ \A i \in 1..Len(cq) : cq[i] \in Cqe
  BY <1>1
<1>3. Uds(pending) /\ Uds(sq) /\ Uds(inflight) /\ Uds(cq)
  BY <1>2 DEF Uds, Pw, Sqe, Cqe
<1> QED BY <1>1, <1>3 DEF Typed

LEMMA BelowGrown ==
    ASSUME NEW q, NEW q2, NEW x, NEW m \in Nat, NEW m2 \in Nat, Len(q) \in Nat, Uds(q),
           Grown(q, q2, x), Below(q, m), m <= m2, x.ud \in Nat, x.ud < m2
    PROVE  Below(q2, m2)
<1> SUFFICES ASSUME NEW i \in 1..Len(q2) PROVE q2[i].ud < m2
  BY DEF Below
<1>1. i \in 1..Len(q) \/ i = Len(q) + 1
  BY DEF Grown
<1>2. CASE i \in 1..Len(q)
  <2>1. q2[i] = q[i] /\ q[i].ud \in Nat /\ q[i].ud < m
    BY <1>2 DEF Grown, Uds, Below
  <2> QED BY <2>1
<1>3. CASE i = Len(q) + 1
  BY <1>3 DEF Grown
<1> QED BY <1>1, <1>2, <1>3

LEMMA BelowSame ==
    ASSUME NEW q, NEW m \in Nat, NEW m2 \in Nat, Uds(q), Below(q, m), m <= m2
    PROVE  Below(q, m2)
BY DEF Below, Uds

LEMMA BelowJoined ==
    ASSUME NEW f, NEW s, NEW f2, NEW x, NEW m \in Nat, NEW m2 \in Nat,
           Len(f) \in Nat, Len(s) \in Nat, Uds(f), Uds(s), Joined(f, s, x, f2),
           Below(f, m), Below(s, m), m <= m2, x.ud \in Nat, x.ud < m2
    PROVE  Below(f2, m2)
<1> SUFFICES ASSUME NEW i \in 1..Len(f2) PROVE f2[i].ud < m2
  BY DEF Below
<1>1. \/ i \in 1..Len(f) /\ f2[i] = f[i]
      \/ i = Len(f) + Len(s) + 1 /\ f2[i] = x
      \/ \E j \in 1..Len(s) : f2[i] = s[j]
  BY JoinedAt
<1>2. CASE i \in 1..Len(f) /\ f2[i] = f[i]
  BY <1>2 DEF Below, Uds
<1>3. CASE f2[i] = x
  BY <1>3
<1>4. ASSUME NEW j \in 1..Len(s), f2[i] = s[j] PROVE f2[i].ud < m2
  BY <1>4 DEF Below, Uds
<1> QED BY <1>1, <1>2, <1>3, <1>4

LEMMA BelowCut ==
    ASSUME NEW q, NEW q2, NEW i \in 1..Len(q), NEW m, Len(q) \in Nat, Cut(q, q2, i), Below(q, m)
    PROVE  Below(q2, m)
<1> SUFFICES ASSUME NEW j \in 1..Len(q2) PROVE q2[j].ud < m
  BY DEF Below
<1>1. j \in 1..Len(q) /\ j + 1 \in 1..Len(q) /\ (q2[j] = q[j] \/ q2[j] = q[j + 1])
  BY DEF Cut
<1> QED BY <1>1 DEF Below

LEMMA NewSqeTyped ==
    ASSUME Typed
    PROVE  NewSqe \in Sqe /\ NewSqe.ud = next_ud /\ NewSqe.data = buf
BY DEF Typed, TypeOK, NewSqe, Sqe, Units

LEMMA SubmitFailsStep ==
    ASSUME AofInv, SubmitFails
    PROVE  AofInv'
<1>0. /\ Typed /\ Control /\ Fresh /\ Writes /\ Kept /\ Covered /\ FlushHonest
      /\ todo # <<>> /\ Fails /\ Head(todo).op = "submit"
      /\ submit_fails' = submit_fails + 1
      /\ UNCHANGED <<policy, buf, pending, dirty, io_failed, stopped, ring_inited,
                     flush_due, sync_due, awake, inflight, cq, file, synced, units, acked,
                     flushed, io_fails>>
      /\ \/ Len(sq) < RingEntries /\ sq' = Append(sq, NewSqe) /\ next_ud' = next_ud + 1
         \/ UNCHANGED <<sq, next_ud>>
  BY DEF AofInv, SubmitFails, At
<1>1. Control' /\ todo' \in Seq(OpSet)
  <2>1. ~Loads(Head(todo))
    BY <1>0 DEF Loads
  <2> QED BY <1>0, <2>1, FailsControl
<1>2. Kept' /\ Covered' /\ FlushHonest'
  BY <1>0 DEF Kept, Covered, FlushHonest
<1>3. submit_fails' \in Nat
  BY <1>0, Booleans
<1>4. /\ Uds(pending) /\ Uds(sq) /\ Uds(inflight) /\ Uds(cq) /\ next_ud \in Nat
      /\ Len(pending) \in Nat /\ Len(sq) \in Nat /\ Len(inflight) \in Nat /\ Len(cq) \in Nat
  BY <1>0, QueuesTyped
<1>5. CASE UNCHANGED <<sq, next_ud>>
  <2>1. Typed'
    BY <1>0, <1>1, <1>3, <1>5 DEF Typed, TypeOK
  <2>2. Fresh' /\ Writes'
    BY <1>0, <1>5 DEF Fresh, Writes
  <2> QED BY <1>1, <1>2, <2>1, <2>2 DEF AofInv
<1>6. CASE Len(sq) < RingEntries /\ sq' = Append(sq, NewSqe) /\ next_ud' = next_ud + 1
  <2>1. PICK e \in Sqe : e = NewSqe /\ e.ud = next_ud
    BY <1>0, NewSqeTyped, Zenon
  <2>2. PICK s \in Seq(Sqe) : s = Append(sq, NewSqe) /\ Grown(sq, s, e)
    <3>1. sq \in Seq(Sqe)
      BY <1>0 DEF Typed
    <3> QED BY <2>1, <3>1, AppendIs, Zenon
  <2>3. sq' = s /\ sq' \in Seq(Sqe) /\ Len(sq') = Len(sq) + 1
    BY <1>6, <2>2 DEF Grown
  <2>4. RingEntries \in Nat
    BY InlineAofAssumption
  <2>5. next_ud' \in Nat /\ Len(sq') <= RingEntries /\ next_ud <= next_ud'
    BY <1>4, <1>6, <2>3, <2>4
  <2>6. Typed'
    BY <1>0, <1>1, <1>3, <2>3, <2>5 DEF Typed, TypeOK
  <2>7. e.ud \in Nat /\ e.ud < next_ud'
    BY <1>4, <1>6, <2>1
  <2>8. Below(sq', next_ud')
    BY <1>0, <1>4, <2>2, <2>3, <2>5, <2>7, BelowGrown DEF Fresh
  <2>9. Below(pending, next_ud') /\ Below(inflight, next_ud') /\ Below(cq, next_ud')
    BY <1>0, <1>4, <2>5, BelowSame DEF Fresh
  <2>10. Fresh'
    BY <1>0, <2>8, <2>9 DEF Fresh
  <2>11. ASSUME NEW i \in 1..Len(pending) PROVE Sound(pending[i], s, inflight, cq, file)
    <3>1. e.ud # pending[i].ud
      BY <1>0, <1>4, <2>1 DEF Fresh, Below, Uds
    <3>2. Sound(pending[i], sq, inflight, cq, file)
      BY <1>0 DEF Writes
    <3> QED BY <1>4, <2>2, <3>1, <3>2, SoundPrepared
  <2>12. Writes'
    BY <1>0, <2>3, <2>11 DEF Writes
  <2> QED BY <1>1, <1>2, <2>6, <2>10, <2>12 DEF AofInv
<1> QED BY <1>0, <1>5, <1>6

LEMMA SubmitStep ==
    ASSUME AofInv, Submit
    PROVE  AofInv'
<1>0. /\ Typed /\ Control /\ Fresh /\ Writes /\ Kept /\ Covered /\ FlushHonest
      /\ todo # <<>> /\ Done /\ Head(todo).op = "submit" /\ Len(pending) < MaxPending
      /\ pending' = Append(pending, [ud |-> next_ud, data |-> buf, written |-> 0])
      /\ inflight' = inflight \o Append(sq, NewSqe)
      /\ sq' = <<>> /\ next_ud' = next_ud + 1 /\ buf' = <<>> /\ flush_due' = FALSE
      /\ UNCHANGED <<policy, dirty, io_failed, stopped, ring_inited, sync_due, awake, cq,
                     file, synced, histVars>>
  BY DEF AofInv, Submit, At
<1>1. UNCHANGED <<units, acked, flushed, submit_fails, io_fails>>
  BY <1>0 DEF histVars
<1>2. Control' /\ todo' \in Seq(OpSet)
  <2>1. ~Loads(Head(todo))
    BY <1>0 DEF Loads
  <2> QED BY <1>0, <1>1, <2>1, DoneControl
<1>3. /\ Uds(pending) /\ Uds(sq) /\ Uds(inflight) /\ Uds(cq) /\ next_ud \in Nat
      /\ Len(pending) \in Nat /\ Len(sq) \in Nat /\ Len(inflight) \in Nat /\ Len(cq) \in Nat
  BY <1>0, QueuesTyped
<1>4. PICK e \in Sqe : e = NewSqe /\ e.ud = next_ud /\ e.data = buf
  BY <1>0, NewSqeTyped, Zenon
<1>5. PICK w \in Pw : /\ w = [ud |-> next_ud, data |-> buf, written |-> 0]
                      /\ w.ud = next_ud /\ w.data = buf /\ w.written = 0
  <2>1. buf \in Seq(Units)
    BY <1>0 DEF Typed, TypeOK, Units
  <2>2. [ud |-> next_ud, data |-> buf, written |-> 0] \in Pw
    BY <1>3, <2>1 DEF Pw
  <2> QED BY <2>2
<1>6. buf \in Seq(Units) /\ Len(buf) \in Nat
  BY <1>0 DEF Typed, TypeOK, Units
<1>7. PICK p \in Seq(Pw) : pending' = p /\ Grown(pending, p, w)
  <2>1. pending \in Seq(Pw)
    BY <1>0 DEF Typed
  <2>2. PICK p \in Seq(Pw) : p = Append(pending, w) /\ Grown(pending, p, w)
    BY <2>1, AppendIs, Zenon
  <2> QED BY <1>0, <1>5, <2>2, Zenon
<1>8. PICK f \in Seq(Sqe) : inflight' = f /\ Joined(inflight, sq, e, f)
  <2>1. inflight \in Seq(Sqe) /\ sq \in Seq(Sqe)
    BY <1>0 DEF Typed
  <2>2. PICK f \in Seq(Sqe) : f = inflight \o Append(sq, e) /\ Joined(inflight, sq, e, f)
    BY <2>1, JoinIs, Zenon
  <2> QED BY <1>0, <1>4, <2>2, Zenon
<1>9. next_ud' \in Nat /\ next_ud <= next_ud' /\ next_ud < next_ud'
  BY <1>0, <1>3
<1>10. Typed'
  <2>1. Len(pending') <= MaxPending /\ Len(pending') = Len(pending) + 1
    <3>1. MaxPending \in Nat
      BY InlineAofAssumption
    <3> QED BY <1>0, <1>3, <1>7, <3>1 DEF Grown
  <2>2. /\ sq' \in Seq(Sqe) /\ buf' \in Seq(1..MaxUnits) /\ Len(buf') <= HardCap
        /\ Len(sq') <= RingEntries
    <3>1. <<>> \in Seq(Sqe) /\ <<>> \in Seq(1..MaxUnits) /\ Len(<<>>) = 0
      OBVIOUS
    <3>2. RingEntries \in Nat /\ HardCap \in Nat
      BY InlineAofAssumption
    <3> QED BY <1>0, <3>1, <3>2
  <2>3. flush_due' \in BOOLEAN
    BY <1>0
  <2> QED BY <1>0, <1>1, <1>2, <1>7, <1>8, <1>9, <2>1, <2>2, <2>3 DEF Typed, TypeOK
<1>11. Fresh'
  <2>1. Below(p, next_ud')
    BY <1>0, <1>3, <1>5, <1>7, <1>9, BelowGrown DEF Fresh
  <2>2. Below(f, next_ud')
    BY <1>0, <1>3, <1>4, <1>8, <1>9, BelowJoined DEF Fresh
  <2>3. Below(cq, next_ud')
    BY <1>0, <1>3, <1>9, BelowSame DEF Fresh
  <2>4. Below(sq', next_ud')
    BY <1>0 DEF Below
  <2> QED BY <1>0, <1>7, <1>8, <2>1, <2>2, <2>3, <2>4 DEF Fresh
<1>12. ASSUME NEW i \in 1..Len(p)
       PROVE  \/ i \in 1..Len(pending) /\ p[i] = pending[i] /\ p[i].ud # next_ud
              \/ i = Len(pending) + 1 /\ p[i] = w
  <2>1. i \in 1..Len(pending) \/ i = Len(pending) + 1
    BY <1>3, <1>7 DEF Grown
  <2>2. ASSUME i \in 1..Len(pending) PROVE p[i] = pending[i] /\ p[i].ud # next_ud
    <3>1. p[i] = pending[i] /\ pending[i].ud < next_ud /\ pending[i].ud \in Nat
      BY <1>0, <1>3, <1>7, <2>2 DEF Grown, Fresh, Below, Uds
    <3> QED BY <1>3, <3>1
  <2> QED BY <1>7, <2>1, <2>2 DEF Grown
<1>13. Sound(w, <<>>, f, cq, file)
  <2>1. \A a \in 1..Len(inflight) : inflight[a].ud # next_ud
    BY <1>0, <1>3 DEF Fresh, Below, Uds
  <2>2. \A a \in 1..Len(sq) : sq[a].ud # next_ud
    BY <1>0, <1>3 DEF Fresh, Below, Uds
  <2>3. \A a \in 1..Len(cq) : cq[a].ud # next_ud
    BY <1>0, <1>3 DEF Fresh, Below, Uds
  <2>4. ASSUME NEW a \in 1..Len(f), f[a].ud = next_ud
        PROVE  a = Len(inflight) + Len(sq) + 1 /\ f[a] = e
    <3>1. \/ a \in 1..Len(inflight) /\ f[a] = inflight[a]
          \/ a = Len(inflight) + Len(sq) + 1 /\ f[a] = e
          \/ \E i \in 1..Len(sq) : f[a] = sq[i]
      BY <1>3, <1>8, JoinedAt
    <3> QED BY <2>1, <2>2, <2>4, <3>1
  <2>5. IsRest(buf, w)
    <3>1. \A j \in 1..Len(buf) : 0 + j = j
      OBVIOUS
    <3> QED BY <1>5, <1>6, <3>1 DEF IsRest
  <2>6. w.written <= Len(w.data) /\ Len(<<>>) = 0
    BY <1>5, <1>6
  <2> QED BY <1>4, <1>5, <2>3, <2>4, <2>5, <2>6 DEF Sound
<1>14. ASSUME NEW i \in 1..Len(p) PROVE Sound(p[i], <<>>, f, cq, file)
  <2>1. CASE i \in 1..Len(pending) /\ p[i] = pending[i] /\ p[i].ud # next_ud
    <3>1. Sound(pending[i], sq, inflight, cq, file) /\ e.ud # pending[i].ud
      BY <1>0, <1>4, <2>1 DEF Writes
    <3> QED BY <1>3, <1>8, <2>1, <3>1, SoundSubmitted
  <2> QED BY <1>12, <1>13, <2>1
<1>15. Writes'
  <2>1. Distinct(p)
    <3> SUFFICES ASSUME NEW i \in 1..Len(p), NEW j \in 1..Len(p), p[i].ud = p[j].ud
                 PROVE  i = j
      BY DEF Distinct
    <3>1. Distinct(pending)
      BY <1>0 DEF Writes
    <3> QED BY <1>5, <1>12, <3>1 DEF Distinct
  <2> QED BY <1>0, <1>7, <1>8, <1>14, <2>1 DEF Writes
<1>16. \A u : u \in ToSet(buf) => InRest(u, w) /\ u \in ToSet(w.data)
  <2> SUFFICES ASSUME NEW u \in ToSet(buf) PROVE InRest(u, w) /\ u \in ToSet(w.data)
    OBVIOUS
  <2>1. PICK j \in 1..Len(buf) : buf[j] = u
    BY <1>6, InToSet
  <2>2. j > 0
    OBVIOUS
  <2> QED BY <1>5, <2>1, <2>2 DEF InRest
<1>17. Len(pending) + 1 \in 1..Len(p) /\ p[Len(pending) + 1] = w
       /\ \A i \in 1..Len(pending) : i \in 1..Len(p) /\ p[i] = pending[i]
  BY <1>3, <1>7 DEF Grown
<1>18. Kept'
  <2> SUFFICES ASSUME ~io_failed, ring_inited, NEW u \in 1..units
               PROVE  Held(u, file, buf', p)
    BY <1>0, <1>1, <1>7 DEF Kept
  <2>1. Held(u, file, buf, pending)
    BY <1>0 DEF Kept
  <2> QED BY <1>16, <1>17, <2>1 DEF Held
<1>19. Covered'
  <2> SUFFICES ASSUME ~io_failed, ring_inited, policy # "no", ~dirty, NEW u \in 1..units
               PROVE  Synced(u, synced, buf', p)
    BY <1>0, <1>1, <1>7 DEF Covered
  <2>1. Synced(u, synced, buf, pending)
    BY <1>0 DEF Covered
  <2> QED BY <1>16, <1>17, <2>1 DEF Synced
<1>20. FlushHonest'
  BY <1>0, <1>1 DEF FlushHonest
<1> QED BY <1>2, <1>10, <1>11, <1>15, <1>18, <1>19, <1>20 DEF AofInv

-----------------------------------------------------------------------------
(* The completions *)

(* A completion is taken from the queue.                                     *)
LEMMA TakesCqe ==
    ASSUME AofInv, cq # <<>>, cq' = Tail(cq)
    PROVE  /\ cq' \in Seq(Cqe) /\ Cut(cq, cq', 1) /\ Below(cq', next_ud)
           /\ Head(cq) = cq[1] /\ cq[1] \in Cqe /\ Len(cq) \in Nat /\ Len(cq) >= 1
<1>1. cq \in Seq(Cqe) /\ Below(cq, next_ud)
  BY DEF AofInv, Typed, Fresh
<1>2. /\ Head(cq) \in Cqe /\ Head(cq) = cq[1] /\ Len(cq) >= 1
      /\ Tail(cq) \in Seq(Cqe) /\ Cut(cq, Tail(cq), 1)
  BY <1>1, TailIs
<1>3. PICK c \in Seq(Cqe) : cq' = c /\ Cut(cq, c, 1)
  BY <1>2, Zenon
<1>4. 1 \in 1..Len(cq) /\ Len(cq) \in Nat
  BY <1>1, <1>2
<1>5. Below(c, next_ud)
  BY <1>1, <1>3, <1>4, BelowCut
<1> QED BY <1>2, <1>3, <1>4, <1>5

LEMMA PeekUnknownStep ==
    ASSUME AofInv, PeekUnknown
    PROVE  AofInv'
<1>0. /\ Typed /\ Control /\ Fresh /\ Writes /\ Kept /\ Covered /\ FlushHonest
      /\ cq # <<>> /\ cq' = Tail(cq)
      /\ UNCHANGED <<writerVars, awake, todo, sq, inflight, file, synced, histVars>>
  BY DEF AofInv, PeekUnknown
<1>1. UNCHANGED <<policy, buf, pending, next_ud, dirty, io_failed, stopped, ring_inited,
                  flush_due, sync_due, units, acked, flushed, submit_fails, io_fails>>
  BY <1>0 DEF writerVars, histVars
<1>2. cq' \in Seq(Cqe) /\ Cut(cq, cq', 1) /\ Below(cq', next_ud) /\ Len(cq) \in Nat
  BY <1>0, TakesCqe
<1>3. Control'
  BY <1>0, <1>1, SameControl
<1>4. Typed'
  BY <1>0, <1>1, <1>2 DEF Typed, TypeOK
<1>5. Fresh'
  BY <1>0, <1>1, <1>2 DEF Fresh
<1>6. ASSUME NEW i \in 1..Len(pending) PROVE Sound(pending[i], sq, inflight, cq', file)
  <2>1. Sound(pending[i], sq, inflight, cq, file)
    BY <1>0 DEF Writes
  <2> QED BY <1>2, <2>1, SoundSeen
<1>7. Writes'
  BY <1>0, <1>1, <1>6 DEF Writes
<1>8. Kept' /\ Covered' /\ FlushHonest'
  BY <1>0, <1>1 DEF Kept, Covered, FlushHonest
<1> QED BY <1>3, <1>4, <1>5, <1>7, <1>8 DEF AofInv

(* A write is taken from pending_ with its completion; what is left in the   *)
(* submission queue is at most a request of that write.                      *)
LEMMA TakesWrite ==
    ASSUME AofInv, cq # <<>>, cq' = Tail(cq), NEW i \in 1..Len(pending),
           pending' = RemoveAt(pending, i), NEW e \in Sqe, e.ud = pending[i].ud,
           sq' = sq \/ (Len(sq) < RingEntries /\ sq' = Append(sq, e)),
           UNCHANGED <<policy, buf, next_ud, stopped, ring_inited, flush_due, sync_due,
                       awake, todo, inflight, file, synced, units, acked, flushed, io_fails>>,
           dirty' \in BOOLEAN, io_failed' \in BOOLEAN, submit_fails' \in Nat
    PROVE  /\ Typed' /\ Control' /\ Fresh' /\ Writes'
           /\ \A k \in 1..Len(pending) : k # i =>
                 \E j \in 1..Len(pending') : pending'[j] = pending[k]
<1>0. /\ Typed /\ Control /\ Fresh /\ Writes
      /\ Uds(pending) /\ Uds(sq) /\ Uds(inflight) /\ Uds(cq) /\ next_ud \in Nat
      /\ Len(pending) \in Nat /\ Len(sq) \in Nat /\ Len(inflight) \in Nat /\ Len(cq) \in Nat
  BY QueuesTyped DEF AofInv
<1>1. cq' \in Seq(Cqe) /\ Cut(cq, cq', 1) /\ Below(cq', next_ud)
  BY TakesCqe
<1>2. PICK p \in Seq(Pw) : pending' = p /\ Cut(pending, p, i)
  <2>1. pending \in Seq(Pw)
    BY <1>0 DEF Typed
  <2> QED BY <2>1, RemoveAtIs, Zenon
<1>3. PICK s \in Seq(Sqe) : sq' = s /\ (s = sq \/ Grown(sq, s, e))
                            /\ Len(s) <= RingEntries
  <2>1. sq \in Seq(Sqe) /\ Len(sq) <= RingEntries /\ RingEntries \in Nat
    BY <1>0, InlineAofAssumption DEF Typed, TypeOK
  <2>2. CASE sq' = sq
    BY <2>1, <2>2
  <2>3. CASE Len(sq) < RingEntries /\ sq' = Append(sq, e)
    <3>1. PICK s \in Seq(Sqe) : s = Append(sq, e) /\ Grown(sq, s, e)
      BY <2>1, AppendIs, Zenon
    <3>2. Len(s) <= RingEntries
      BY <1>0, <2>1, <2>3, <3>1 DEF Grown
    <3> QED BY <2>3, <3>1, <3>2, Zenon
  <2> QED BY <2>2, <2>3
<1>4. pending # <<>>
  BY <1>0
<1>5. Control'
  BY <1>0, <1>4, SameControl
<1>6. Typed'
  <2>1. Len(pending') <= MaxPending
    <3>1. Len(pending) <= MaxPending /\ MaxPending \in Nat
      BY <1>0, InlineAofAssumption DEF Typed, TypeOK
    <3> QED BY <1>0, <1>2, <3>1 DEF Cut
  <2> QED BY <1>0, <1>1, <1>2, <1>3, <2>1 DEF Typed, TypeOK
<1>7. Fresh'
  <2>1. Below(p, next_ud)
    BY <1>0, <1>2, BelowCut DEF Fresh
  <2>2. Below(s, next_ud)
    <3>1. e.ud \in Nat /\ e.ud < next_ud
      BY <1>0 DEF Fresh, Below, Uds
    <3>2. CASE s = sq
      BY <1>0, <3>2 DEF Fresh
    <3>3. CASE Grown(sq, s, e)
      <4>1. next_ud <= next_ud /\ Below(sq, next_ud)
        BY <1>0 DEF Fresh
      <4> QED BY <1>0, <3>1, <3>3, <4>1, BelowGrown
    <3> QED BY <1>3, <3>2, <3>3
  <2> QED BY <1>0, <1>1, <1>2, <1>3, <2>1, <2>2 DEF Fresh
<1>8. ASSUME NEW j \in 1..Len(p)
      PROVE  \E k \in 1..Len(pending) : /\ p[j] = pending[k] /\ k # i
                                        /\ k = IF j < i THEN j ELSE j + 1
  BY <1>0, <1>2 DEF Cut
<1>9. Distinct(p)
  <2> SUFFICES ASSUME NEW a \in 1..Len(p), NEW b \in 1..Len(p), p[a].ud = p[b].ud
               PROVE  a = b
    BY DEF Distinct
  <2>1. PICK k \in 1..Len(pending) : p[a] = pending[k] /\ k = IF a < i THEN a ELSE a + 1
    BY <1>8
  <2>2. PICK l \in 1..Len(pending) : p[b] = pending[l] /\ l = IF b < i THEN b ELSE b + 1
    BY <1>8
  <2>3. k = l
    BY <1>0, <2>1, <2>2 DEF Writes, Distinct
  <2> QED BY <2>1, <2>2, <2>3
<1>10. ASSUME NEW j \in 1..Len(p) PROVE Sound(p[j], s, inflight, cq', file)
  <2>1. PICK k \in 1..Len(pending) : p[j] = pending[k] /\ k # i
    BY <1>8
  <2>2. Sound(p[j], sq, inflight, cq, file)
    BY <1>0, <2>1 DEF Writes
  <2>3. Sound(p[j], sq, inflight, cq', file)
    BY <1>0, <1>1, <2>2, SoundSeen
  <2>4. e.ud # p[j].ud
    BY <1>0, <2>1 DEF Writes, Distinct
  <2>5. CASE s = sq
    BY <2>3, <2>5
  <2>6. CASE Grown(sq, s, e)
    BY <1>0, <2>3, <2>4, <2>6, SoundPrepared
  <2> QED BY <1>3, <2>5, <2>6
<1>11. Writes'
  BY <1>2, <1>3, <1>9, <1>10 DEF Writes
<1>12. ASSUME NEW k \in 1..Len(pending), k # i
       PROVE  \E j \in 1..Len(p) : p[j] = pending[k]
  BY <1>0, <1>2, <1>12, CutKeeps
<1> QED BY <1>2, <1>5, <1>6, <1>7, <1>11, <1>12

(* The write a completion is for.                                            *)
LEMMA Found ==
    ASSUME AofInv, NEW ud, NEW i \in FindPending(ud)
    PROVE  /\ i \in 1..Len(pending) /\ pending[i].ud = ud /\ pending[i] \in Pw
           /\ Sound(pending[i], sq, inflight, cq, file)
<1>1. pending \in Seq(Pw)
  BY DEF AofInv, Typed
<1>2. i \in 1..Len(pending) /\ pending[i].ud = ud
  BY <1>1 DEF FindPending
<1> QED BY <1>1, <1>2 DEF AofInv, Writes

(* What is left of a write when k more units of it are in the file.          *)
LEMMA RestIs ==
    ASSUME NEW pw \in Pw, NEW k \in Nat
    PROVE  /\ Rest(pw, k) \in Seq(Units)
           /\ Rest(pw, k) = <<>> => pw.written + k >= Len(pw.data)
           /\ Rest(pw, k) # <<>> =>
                 /\ Len(Rest(pw, k)) = Len(pw.data) - (pw.written + k)
                 /\ pw.written + k < Len(pw.data)
           /\ \A j \in 1..Len(Rest(pw, k)) : Rest(pw, k)[j] = pw.data[(pw.written + k) + j]
<1>0. pw.data \in Seq(Units) /\ Len(pw.data) \in Nat /\ pw.written \in Nat
  BY DEF Pw
<1>1. PICK m \in Nat : m = pw.written + k
  BY <1>0
<1>2. PICK n \in Nat : n = Len(pw.data)
  BY <1>0
<1>3. \A j \in (m + 1)..n : pw.data[j] \in Units
  BY <1>0, <1>2
<1>4. /\ SubSeq(pw.data, m + 1, n) \in Seq(Units)
      /\ Len(SubSeq(pw.data, m + 1, n)) = IF m + 1 <= n THEN n - (m + 1) + 1 ELSE 0
      /\ \A j \in 1..(n - (m + 1) + 1) : SubSeq(pw.data, m + 1, n)[j] = pw.data[(m + 1) + j - 1]
  BY <1>3, SubSeqProperties
<1>5. Rest(pw, k) = SubSeq(pw.data, m + 1, n)
  BY <1>1, <1>2 DEF Rest
<1>6. PICK r \in Seq(Units) :
         /\ r = Rest(pw, k)
         /\ Len(r) = IF m + 1 <= n THEN n - (m + 1) + 1 ELSE 0
         /\ \A j \in 1..(n - (m + 1) + 1) : r[j] = pw.data[(m + 1) + j - 1]
  BY <1>4, <1>5, Zenon
<1>7. r = <<>> => m >= n
  <2> SUFFICES ASSUME r = <<>> PROVE m >= n
    OBVIOUS
  <2>1. Len(r) = 0
    OBVIOUS
  <2> QED BY <1>6, <2>1
<1>8. r # <<>> => Len(r) = n - m /\ m < n
  <2> SUFFICES ASSUME r # <<>> PROVE Len(r) = n - m /\ m < n
    OBVIOUS
  <2>1. Len(r) # 0
    BY EmptySeq
  <2> QED BY <1>6, <2>1
<1>9. ASSUME NEW j \in 1..Len(r) PROVE r[j] = pw.data[m + j]
  <2>1. j \in 1..(n - (m + 1) + 1) /\ (m + 1) + j - 1 = m + j
    BY <1>6
  <2> QED BY <1>6, <2>1
<1> QED BY <1>1, <1>2, <1>6, <1>7, <1>8, <1>9

LEMMA PeekErrorStep ==
    ASSUME AofInv, PeekError
    PROVE  AofInv'
<1>0. /\ FlushHonest /\ cq # <<>> /\ cq' = Tail(cq) /\ io_failed' = TRUE
      /\ UNCHANGED <<policy, buf, next_ud, dirty, stopped, ring_inited, flush_due,
                     sync_due, awake, todo, sq, inflight, file, synced, histVars>>
  BY DEF AofInv, PeekError
<1>1. UNCHANGED <<units, acked, flushed, submit_fails, io_fails>>
  BY <1>0 DEF histVars
<1>2. PICK i \in FindPending(Head(cq).ud) : pending' = RemoveAt(pending, i)
  BY DEF PeekError
<1>3. i \in 1..Len(pending) /\ pending[i] \in Pw
  BY <1>2, Found
<1>4. PICK e \in Sqe : e.ud = pending[i].ud
  <2>1. [ud |-> pending[i].ud, data |-> pending[i].data] \in Sqe
    BY <1>3 DEF Pw, Sqe
  <2> QED BY <2>1
<1>5. dirty' \in BOOLEAN /\ submit_fails' \in Nat
  BY <1>0, <1>1, Booleans DEF AofInv
<1>6. Typed' /\ Control' /\ Fresh' /\ Writes'
  BY <1>0, <1>1, <1>2, <1>3, <1>4, <1>5, TakesWrite
<1>7. Kept' /\ Covered'
  BY <1>0 DEF Kept, Covered
<1>8. FlushHonest'
  BY <1>0, <1>1 DEF FlushHonest
<1> QED BY <1>6, <1>7, <1>8 DEF AofInv

LEMMA PeekShortFailsStep ==
    ASSUME AofInv, PeekShortFails
    PROVE  AofInv'
<1>0. /\ FlushHonest /\ cq # <<>> /\ cq' = Tail(cq) /\ io_failed' = TRUE
      /\ submit_fails' = submit_fails + 1
      /\ UNCHANGED <<policy, buf, next_ud, dirty, stopped, ring_inited, flush_due, sync_due,
                     awake, todo, inflight, file, synced, units, acked, flushed, io_fails>>
  BY DEF AofInv, PeekShortFails
<1>1. PICK i \in FindPending(Head(cq).ud) :
         /\ Head(cq).res > 0 /\ pending' = RemoveAt(pending, i)
         /\ sq' = IF Len(sq) < RingEntries
                  THEN Append(sq, [ud |-> pending[i].ud, data |-> Rest(pending[i], Head(cq).res)])
                  ELSE sq
  BY DEF PeekShortFails
<1>2. i \in 1..Len(pending) /\ pending[i] \in Pw
  BY <1>1, Found
<1>3. Head(cq).res \in Nat
  <2>1. Head(cq) \in Cqe
    BY <1>0, TakesCqe
  <2> QED BY <1>1, <2>1 DEF Cqe
<1>4. PICK e \in Sqe : /\ e = [ud |-> pending[i].ud, data |-> Rest(pending[i], Head(cq).res)]
                       /\ e.ud = pending[i].ud
  <2>1. Rest(pending[i], Head(cq).res) \in Seq(Units)
    BY <1>2, <1>3, RestIs
  <2>2. [ud |-> pending[i].ud, data |-> Rest(pending[i], Head(cq).res)] \in Sqe
    BY <1>2, <2>1 DEF Pw, Sqe
  <2> QED BY <2>2
<1>5. dirty' \in BOOLEAN /\ submit_fails' \in Nat
  BY <1>0, Booleans DEF AofInv
<1>6. sq' = sq \/ (Len(sq) < RingEntries /\ sq' = Append(sq, e))
  BY <1>1, <1>4, Zenon
<1>7. Typed' /\ Control' /\ Fresh' /\ Writes'
  BY <1>0, <1>1, <1>2, <1>4, <1>5, <1>6, TakesWrite
<1>8. Kept' /\ Covered'
  BY <1>0 DEF Kept, Covered
<1>9. FlushHonest'
  BY <1>0 DEF FlushHonest
<1> QED BY <1>7, <1>8, <1>9 DEF AofInv

LEMMA PeekCompleteStep ==
    ASSUME AofInv, PeekComplete
    PROVE  AofInv'
<1>0. /\ FlushHonest /\ Kept /\ cq # <<>> /\ cq' = Tail(cq) /\ dirty' = TRUE
      /\ UNCHANGED <<policy, buf, next_ud, io_failed, stopped, ring_inited, flush_due,
                     sync_due, awake, todo, sq, inflight, file, synced, histVars>>
  BY DEF AofInv, PeekComplete
<1>1. UNCHANGED <<units, acked, flushed, submit_fails, io_fails>>
  BY <1>0 DEF histVars
<1>2. PICK i \in FindPending(Head(cq).ud) :
         /\ Head(cq).res > 0 /\ Rest(pending[i], Head(cq).res) = <<>>
         /\ pending' = RemoveAt(pending, i)
  BY DEF PeekComplete
<1>3. /\ i \in 1..Len(pending) /\ pending[i].ud = Head(cq).ud /\ pending[i] \in Pw
      /\ Sound(pending[i], sq, inflight, cq, file)
  BY <1>2, Found
<1>4. Head(cq) = cq[1] /\ cq[1] \in Cqe /\ 1 \in 1..Len(cq)
  BY <1>0, TakesCqe
<1>5. PICK k \in Nat : k = Head(cq).res /\ k > 0
  BY <1>2, <1>4 DEF Cqe
<1>6. PICK e \in Sqe : e.ud = pending[i].ud
  <2>1. [ud |-> pending[i].ud, data |-> pending[i].data] \in Sqe
    BY <1>3 DEF Pw, Sqe
  <2> QED BY <2>1
<1>7. io_failed' \in BOOLEAN /\ submit_fails' \in Nat
  BY <1>0, <1>1, Booleans DEF AofInv
<1>8. /\ Typed' /\ Control' /\ Fresh' /\ Writes'
      /\ \A l \in 1..Len(pending) : l # i =>
            \E j \in 1..Len(pending') : pending'[j] = pending[l]
  BY <1>0, <1>1, <1>2, <1>3, <1>6, <1>7, TakesWrite
<1>9. Covered'
  BY <1>0 DEF Covered
<1>10. ASSUME NEW u, InRest(u, pending[i]) PROVE u \in ToSet(file)
  <2>1. PICK j \in 1..Len(pending[i].data) : j > pending[i].written /\ pending[i].data[j] = u
    BY <1>10 DEF InRest
  <2>2. pending[i].written \in Nat /\ Len(pending[i].data) \in Nat
    BY <1>3 DEF Pw
  <2>3. pending[i].written + k >= Len(pending[i].data)
    BY <1>2, <1>3, <1>5, RestIs
  <2>4. \A l \in 1..k : pending[i].data[pending[i].written + l] \in ToSet(file)
    BY <1>3, <1>4, <1>5 DEF Sound, Lands
  <2>5. j - pending[i].written \in 1..k /\ pending[i].written + (j - pending[i].written) = j
    BY <2>1, <2>2, <2>3
  <2> QED BY <2>1, <2>4, <2>5
<1>11. Kept'
  <2> SUFFICES ASSUME ~io_failed, ring_inited, NEW u \in 1..units
               PROVE  Held(u, file, buf, pending')
    BY <1>0, <1>1 DEF Kept
  <2>1. Held(u, file, buf, pending)
    BY <1>0 DEF Kept
  <2> QED BY <1>8, <1>10, <2>1 DEF Held
<1>12. FlushHonest'
  BY <1>0, <1>1 DEF FlushHonest
<1> QED BY <1>8, <1>9, <1>11, <1>12 DEF AofInv

LEMMA PeekShortStep ==
    ASSUME AofInv, PeekShort
    PROVE  AofInv'
<1>0. /\ Typed /\ Control /\ Fresh /\ Writes /\ Kept /\ Covered /\ FlushHonest
      /\ cq # <<>> /\ cq' = Tail(cq) /\ sq' = <<>>
      /\ UNCHANGED <<policy, buf, next_ud, dirty, io_failed, stopped, ring_inited, flush_due,
                     sync_due, awake, todo, file, synced, histVars>>
  BY DEF AofInv, PeekShort
<1>1. UNCHANGED <<units, acked, flushed, submit_fails, io_fails>>
  BY <1>0 DEF histVars
<1>2. PICK i \in FindPending(Head(cq).ud) :
         LET k == Head(cq).res
         IN  /\ k > 0 /\ Rest(pending[i], k) # <<>>
             /\ pending' = [pending EXCEPT ![i].written = @ + k]
             /\ inflight' = inflight \o Append(sq,
                    [ud |-> pending[i].ud, data |-> Rest(pending[i], k)])
  BY DEF PeekShort
<1>3. /\ i \in 1..Len(pending) /\ pending[i].ud = Head(cq).ud /\ pending[i] \in Pw
      /\ Sound(pending[i], sq, inflight, cq, file)
  BY <1>2, Found
<1>4. /\ Head(cq) = cq[1] /\ cq[1] \in Cqe /\ Len(cq) >= 1 /\ 1 \in 1..Len(cq)
      /\ cq' \in Seq(Cqe) /\ Cut(cq, cq', 1) /\ Below(cq', next_ud)
  BY <1>0, TakesCqe
<1>5. PICK k \in Nat : k = Head(cq).res /\ k > 0
  BY <1>2, <1>4 DEF Cqe
<1>6. /\ Uds(pending) /\ Uds(sq) /\ Uds(inflight) /\ Uds(cq) /\ next_ud \in Nat
      /\ Len(pending) \in Nat /\ Len(sq) \in Nat /\ Len(inflight) \in Nat /\ Len(cq) \in Nat
  BY <1>0, QueuesTyped
<1>7. PICK pw \in Pw : pw = pending[i]
  BY <1>3
<1>8. pw.written \in Nat /\ pw.data \in Seq(Units) /\ Len(pw.data) \in Nat /\ pw.ud \in Nat
  BY DEF Pw
<1>9. PICK r \in Seq(Units) : /\ r = Rest(pw, k) /\ Len(r) = Len(pw.data) - (pw.written + k)
                              /\ pw.written + k < Len(pw.data)
                              /\ \A j \in 1..Len(r) : r[j] = pw.data[(pw.written + k) + j]
  <2>1. Rest(pw, k) # <<>>
    BY <1>2, <1>5, <1>7
  <2> QED BY <2>1, RestIs
<1>10. PICK e \in Sqe : e = [ud |-> pw.ud, data |-> r] /\ e.ud = pw.ud /\ e.data = r
  <2>1. [ud |-> pw.ud, data |-> r] \in Sqe
    BY <1>8 DEF Sqe
  <2> QED BY <2>1
<1>11. PICK w \in Pw : /\ w = [pw EXCEPT !.written = @ + k] /\ w.ud = pw.ud
                       /\ w.data = pw.data /\ w.written = pw.written + k
  <2>1. [pw EXCEPT !.written = @ + k] \in Pw
    BY <1>8 DEF Pw
  <2> QED BY <2>1 DEF Pw
<1>12. PICK f \in Seq(Sqe) : inflight' = f /\ Joined(inflight, sq, e, f)
  <2>1. inflight \in Seq(Sqe) /\ sq \in Seq(Sqe)
    BY <1>0 DEF Typed
  <2>2. PICK f \in Seq(Sqe) : f = inflight \o Append(sq, e) /\ Joined(inflight, sq, e, f)
    BY <2>1, JoinIs, Zenon
  <2>3. inflight' = inflight \o Append(sq, [ud |-> pw.ud, data |-> Rest(pw, k)])
    BY <1>2, <1>5, <1>7
  <2> QED BY <1>9, <1>10, <2>2, <2>3, Zenon
<1>13. PICK p \in Seq(Pw) : /\ pending' = p /\ Len(p) = Len(pending) /\ p[i] = w
                            /\ \A j \in 1..Len(pending) : j # i => p[j] = pending[j]
  <2>1. pending \in Seq(Pw)
    BY <1>0 DEF Typed
  <2>2. pending' = [pending EXCEPT ![i] = w]
    BY <1>2, <1>5, <1>7, <1>11
  <2>3. [pending EXCEPT ![i] = w] \in Seq(Pw)
    BY <1>3, <2>1
  <2>4. /\ Len([pending EXCEPT ![i] = w]) = Len(pending)
        /\ [pending EXCEPT ![i] = w][i] = w
        /\ \A j \in 1..Len(pending) : j # i => [pending EXCEPT ![i] = w][j] = pending[j]
    BY <1>3, <2>1
  <2> QED BY <2>2, <2>3, <2>4
<1>14. pending # <<>>
  BY <1>3, <1>6
<1>15. Control'
  BY <1>0, <1>1, <1>14, SameControl
<1>16. Typed'
  <2>1. <<>> \in Seq(Sqe) /\ Len(<<>>) = 0 /\ RingEntries \in Nat
    BY InlineAofAssumption
  <2>2. sq' \in Seq(Sqe) /\ Len(sq') <= RingEntries
    BY <1>0, <2>1
  <2> QED BY <1>0, <1>1, <1>4, <1>12, <1>13, <2>2 DEF Typed, TypeOK
<1>17. Fresh'
  <2>1. pw.ud < next_ud /\ next_ud <= next_ud
    BY <1>0, <1>3, <1>6, <1>7 DEF Fresh, Below
  <2>2. Below(f, next_ud)
    BY <1>0, <1>6, <1>8, <1>10, <1>12, <2>1, BelowJoined DEF Fresh
  <2>3. Below(p, next_ud)
    BY <1>0, <1>11, <1>13, <2>1 DEF Fresh, Below
  <2>4. Below(sq', next_ud)
    BY <1>0 DEF Below
  <2> QED BY <1>0, <1>4, <1>12, <1>13, <2>2, <2>3, <2>4 DEF Fresh
<1>18. Sound(w, <<>>, f, cq', file)
  <2>1. w.written <= Len(w.data)
    BY <1>8, <1>9, <1>11
  <2>2. IsRest(e.data, w)
    BY <1>9, <1>10, <1>11 DEF IsRest
  <2>3. Sound(pw, sq, inflight, cq, file) /\ cq[1].ud = pw.ud
    BY <1>3, <1>4, <1>7
  <2>4. /\ Len(sq) \in Nat /\ Len(inflight) \in Nat /\ Len(cq) \in Nat /\ Len(cq) >= 1
        /\ Cut(cq, cq', 1) /\ Joined(inflight, sq, e, f)
        /\ w.ud = pw.ud /\ w.data = pw.data /\ e.ud = pw.ud
    BY <1>4, <1>6, <1>10, <1>11, <1>12
  <2> QED BY <2>1, <2>2, <2>3, <2>4, SoundAgain
<1>19. ASSUME NEW j \in 1..Len(p) PROVE Sound(p[j], <<>>, f, cq', file)
  <2>1. CASE j # i
    <3>1. j \in 1..Len(pending) /\ p[j] = pending[j]
      BY <1>13, <2>1
    <3>2. Sound(p[j], sq, inflight, cq, file) /\ e.ud # p[j].ud
      BY <1>0, <1>3, <1>7, <1>10, <2>1, <3>1 DEF Writes, Distinct
    <3>3. Sound(p[j], <<>>, f, cq, file)
      BY <1>6, <1>12, <3>2, SoundSubmitted
    <3> QED BY <1>4, <1>6, <3>3, SoundSeen
  <2> QED BY <1>13, <1>18, <2>1
<1>20. Writes'
  <2>1. Distinct(p)
    <3>1. \A j \in 1..Len(pending) : p[j].ud = pending[j].ud
      BY <1>7, <1>11, <1>13
    <3>2. Distinct(pending)
      BY <1>0 DEF Writes
    <3> QED BY <1>13, <3>1, <3>2 DEF Distinct
  <2> QED BY <1>0, <1>12, <1>13, <1>19, <2>1 DEF Writes
<1>21. ASSUME NEW u, InRest(u, pw) PROVE u \in ToSet(file) \/ InRest(u, w)
  <2>1. PICK j \in 1..Len(pw.data) : j > pw.written /\ pw.data[j] = u
    BY <1>21 DEF InRest
  <2>2. \A l \in 1..k : pw.data[pw.written + l] \in ToSet(file)
    BY <1>3, <1>4, <1>5, <1>7 DEF Sound, Lands
  <2>3. CASE j > pw.written + k
    BY <1>11, <2>1, <2>3 DEF InRest
  <2>4. CASE ~(j > pw.written + k)
    <3>1. j - pw.written \in 1..k /\ pw.written + (j - pw.written) = j
      BY <1>8, <2>1, <2>4
    <3> QED BY <2>1, <2>2, <3>1
  <2> QED BY <2>3, <2>4
<1>22. Kept'
  <2> SUFFICES ASSUME ~io_failed, ring_inited, NEW u \in 1..units
               PROVE  Held(u, file, buf, p)
    BY <1>0, <1>1, <1>13 DEF Kept
  <2>1. Held(u, file, buf, pending)
    BY <1>0 DEF Kept
  <2>2. ASSUME NEW j \in 1..Len(pending), InRest(u, pending[j])
        PROVE  u \in ToSet(file) \/ \E l \in 1..Len(p) : InRest(u, p[l])
    <3>1. CASE j = i
      BY <1>3, <1>7, <1>13, <1>21, <2>2, <3>1
    <3>2. CASE j # i
      BY <1>13, <2>2, <3>2
    <3> QED BY <3>1, <3>2
  <2> QED BY <2>1, <2>2 DEF Held
<1>23. Covered'
  <2> SUFFICES ASSUME ~io_failed, ring_inited, policy # "no", ~dirty, NEW u \in 1..units
               PROVE  Synced(u, synced, buf, p)
    BY <1>0, <1>1, <1>13 DEF Covered
  <2>1. Synced(u, synced, buf, pending)
    BY <1>0 DEF Covered
  <2>2. \A j \in 1..Len(pending) : j \in 1..Len(p) /\ p[j].data = pending[j].data
    BY <1>7, <1>11, <1>13
  <2> QED BY <2>1, <2>2 DEF Synced
<1>24. FlushHonest'
  BY <1>0, <1>1 DEF FlushHonest
<1> QED BY <1>15, <1>16, <1>17, <1>20, <1>22, <1>23, <1>24 DEF AofInv

-----------------------------------------------------------------------------
(* The kernel *)

(* The kernel executes a request: completion x, file grown.                  *)
LEMMA Executes ==
    ASSUME AofInv, NEW i \in 1..Len(inflight), NEW x \in Cqe, x.ud = inflight[i].ud,
           inflight' = RemoveAt(inflight, i), cq' = Append(cq, x),
           file' \in Seq(0..MaxUnits), ToSet(file) \subseteq ToSet(file'),
           \A j \in 1..Len(pending) : pending[j].ud = x.ud => Lands(pending[j], x.res, file'),
           UNCHANGED <<writerVars, awake, todo, sq, synced, units, acked, flushed, submit_fails>>,
           io_fails' \in Nat
    PROVE  AofInv'
<1>0. Typed /\ Control /\ Fresh /\ Writes /\ Kept /\ Covered /\ FlushHonest
  BY DEF AofInv
<1>1. UNCHANGED <<policy, buf, pending, next_ud, dirty, io_failed, stopped, ring_inited,
                  flush_due, sync_due>>
  BY DEF writerVars
<1>2. /\ Uds(pending) /\ Uds(sq) /\ Uds(inflight) /\ Uds(cq) /\ next_ud \in Nat
      /\ Len(pending) \in Nat /\ Len(sq) \in Nat /\ Len(inflight) \in Nat /\ Len(cq) \in Nat
  BY <1>0, QueuesTyped
<1>3. PICK f \in Seq(Sqe) : inflight' = f /\ Cut(inflight, f, i)
  <2>1. inflight \in Seq(Sqe)
    BY <1>0 DEF Typed
  <2> QED BY <2>1, RemoveAtIs, Zenon
<1>4. PICK c \in Seq(Cqe) : cq' = c /\ Grown(cq, c, x)
  <2>1. cq \in Seq(Cqe)
    BY <1>0 DEF Typed
  <2> QED BY <2>1, AppendIs, Zenon
<1>5. Control'
  BY <1>0, <1>1, SameControl
<1>6. Typed'
  BY <1>0, <1>1, <1>3, <1>4 DEF Typed, TypeOK
<1>7. Fresh'
  <2>1. Below(f, next_ud)
    BY <1>0, <1>2, <1>3, BelowCut DEF Fresh
  <2>2. x.ud \in Nat /\ x.ud < next_ud /\ next_ud <= next_ud
    BY <1>0, <1>2 DEF Fresh, Below, Uds
  <2>3. Below(c, next_ud)
    BY <1>0, <1>2, <1>4, <2>2, BelowGrown DEF Fresh
  <2> QED BY <1>0, <1>1, <1>3, <1>4, <2>1, <2>3 DEF Fresh
<1>8. ASSUME NEW j \in 1..Len(pending) PROVE Sound(pending[j], sq, f, c, file')
  <2>1. Sound(pending[j], sq, inflight, cq, file)
    BY <1>0 DEF Writes
  <2>2. CASE x.ud # pending[j].ud
    BY <1>2, <1>3, <1>4, <2>1, <2>2, SoundOther
  <2>3. CASE x.ud = pending[j].ud
    <3>1. Lands(pending[j], x.res, file')
      BY <2>3
    <3> QED BY <1>2, <1>3, <1>4, <2>1, <2>3, <3>1, SoundExecuted
  <2> QED BY <2>2, <2>3
<1>9. Writes'
  BY <1>0, <1>1, <1>3, <1>4, <1>8 DEF Writes
<1>10. Kept'
  <2> SUFFICES ASSUME ~io_failed, ring_inited, NEW u \in 1..units
               PROVE  Held(u, file', buf, pending)
    BY <1>1 DEF Kept
  <2>1. Held(u, file, buf, pending)
    BY <1>0 DEF Kept
  <2> QED BY <2>1 DEF Held
<1>11. Covered'
  BY <1>0, <1>1 DEF Covered
<1>12. FlushHonest'
  BY <1>0, <1>1 DEF FlushHonest
<1> QED BY <1>5, <1>6, <1>7, <1>9, <1>10, <1>11, <1>12 DEF AofInv

LEMMA KernelErrorStep ==
    ASSUME AofInv, NEW i, KernelError(i)
    PROVE  AofInv'
<1>0. /\ i \in DOMAIN inflight /\ io_fails' = io_fails + 1
      /\ cq' = Append(cq, [ud |-> inflight[i].ud, res |-> -1])
      /\ inflight' = RemoveAt(inflight, i)
      /\ UNCHANGED <<writerVars, awake, todo, sq, file, synced, units, acked, flushed, submit_fails>>
  BY DEF KernelError
<1>1. inflight \in Seq(Sqe) /\ file \in Seq(0..MaxUnits) /\ io_fails \in Nat
  BY DEF AofInv, Typed, TypeOK
<1>2. i \in 1..Len(inflight) /\ inflight[i] \in Sqe
  BY <1>0, <1>1
<1>3. PICK x \in Cqe : /\ x = [ud |-> inflight[i].ud, res |-> -1]
                       /\ x.ud = inflight[i].ud /\ x.res = -1
  <2>1. inflight[i].ud \in Nat
    BY <1>2 DEF Sqe
  <2>2. [ud |-> inflight[i].ud, res |-> -1] \in Cqe
    BY <2>1 DEF Cqe
  <2> QED BY <2>2
<1>4. \A j \in 1..Len(pending) : Lands(pending[j], x.res, file)
  BY <1>3 DEF Lands
<1>5. cq' = Append(cq, x) /\ io_fails' \in Nat
  BY <1>0, <1>1, <1>3
<1>6. file' \in Seq(0..MaxUnits) /\ file' = file
  BY <1>0, <1>1
<1> QED BY <1>0, <1>2, <1>3, <1>4, <1>5, <1>6, Executes

LEMMA KernelWriteStep ==
    ASSUME AofInv, NEW i, NEW k, KernelWrite(i, k)
    PROVE  AofInv'
<1>0. /\ i \in DOMAIN inflight /\ k \in 1..Len(inflight[i].data)
      /\ cq' = Append(cq, [ud |-> inflight[i].ud, res |-> k])
      /\ inflight' = RemoveAt(inflight, i)
      /\ UNCHANGED <<writerVars, awake, todo, sq, synced, histVars>>
  BY DEF KernelWrite
<1>1. UNCHANGED <<units, acked, flushed, submit_fails, io_fails>>
  BY <1>0 DEF histVars
<1>2. /\ inflight \in Seq(Sqe) /\ file \in Seq(0..MaxUnits) /\ io_fails \in Nat
      /\ pending \in Seq(Pw) /\ MaxUnits \in Nat /\ Writes
  BY InlineAofAssumption DEF AofInv, Typed, TypeOK
<1>3. i \in 1..Len(inflight) /\ inflight[i] \in Sqe
  BY <1>0, <1>2
<1>4. PICK e \in Sqe : e = inflight[i]
  BY <1>3
<1>5. e.data \in Seq(Units) /\ e.ud \in Nat /\ Len(e.data) \in Nat /\ k \in Nat /\ k > 0
  BY <1>0, <1>4 DEF Sqe
<1>6. PICK d \in Contents(e) : file' = file \o SubSeq(d, 1, k)
  BY <1>4 DEF KernelWrite
<1>7. \A j \in 1..k : d[j] \in 0..MaxUnits
  <2>1. \A j \in 1..k : j \in 1..Len(e.data)
    BY <1>0, <1>4, <1>5
  <2>2. CASE d = e.data
    <3>1. \A j \in 1..Len(e.data) : e.data[j] \in Units
      BY <1>5
    <3> QED BY <1>2, <2>1, <2>2, <3>1 DEF Units
  <2>3. CASE d = [j \in 1..Len(e.data) |-> Garbage]
    <3>1. \A j \in 1..k : d[j] = 0
      BY <2>1, <2>3 DEF Garbage
    <3> QED BY <1>2, <3>1
  <2> QED BY <1>6, <2>2, <2>3 DEF Contents
<1>8. /\ SubSeq(d, 1, k) \in Seq(0..MaxUnits)
      /\ Len(SubSeq(d, 1, k)) = IF 1 <= k THEN k - 1 + 1 ELSE 0
      /\ \A j \in 1..(k - 1 + 1) : SubSeq(d, 1, k)[j] = d[1 + j - 1]
  BY <1>5, <1>7, SubSeqProperties
<1>9. PICK g \in Seq(0..MaxUnits) : g = SubSeq(d, 1, k) /\ Len(g) = k /\ \A j \in 1..k : g[j] = d[j]
  <2>1. PICK g \in Seq(0..MaxUnits) :
           /\ g = SubSeq(d, 1, k)
           /\ Len(g) = IF 1 <= k THEN k - 1 + 1 ELSE 0
           /\ \A j \in 1..(k - 1 + 1) : g[j] = d[1 + j - 1]
    BY <1>8, Zenon
  <2>2. Len(g) = k
    BY <1>5, <2>1
  <2>3. ASSUME NEW j \in 1..k PROVE g[j] = d[j]
    <3>1. j \in 1..(k - 1 + 1) /\ 1 + j - 1 = j
      BY <1>5
    <3> QED BY <2>1, <3>1
  <2> QED BY <2>1, <2>2, <2>3
<1>10. file' \in Seq(0..MaxUnits) /\ ToSet(file') = ToSet(file) \cup ToSet(g)
  <2>1. PICK z \in Seq(0..MaxUnits) : z = file \o g /\ ToSet(z) = ToSet(file) \cup ToSet(g)
    BY <1>2, ToSetConcat, ZenonT(60)
  <2>2. file' = z
    BY <1>6, <1>9, <2>1, Zenon
  <2> QED BY <2>1, <2>2
<1>11. PICK x \in Cqe : x = [ud |-> e.ud, res |-> k] /\ x.ud = e.ud /\ x.res = k
  <2>1. [ud |-> e.ud, res |-> k] \in Cqe
    BY <1>5 DEF Cqe
  <2> QED BY <2>1
<1>12. ASSUME NEW j \in 1..Len(pending), pending[j].ud = x.ud
       PROVE  Lands(pending[j], x.res, file')
  <2>1. j \in FindPending(e.ud)
    BY <1>2, <1>11, <1>12 DEF FindPending
  <2>2. d = e.data
    BY <1>6, <2>1 DEF Contents
  <2>3. IsRest(e.data, pending[j])
    BY <1>2, <1>3, <1>4, <1>11, <1>12 DEF Writes, Sound
  <2>4. k <= Len(pending[j].data) - pending[j].written
    <3>1. k <= Len(e.data) /\ Len(e.data) = Len(pending[j].data) - pending[j].written
      BY <1>0, <1>4, <2>3 DEF IsRest
    <3> QED BY <3>1
  <2>5. ASSUME NEW l \in 1..k PROVE pending[j].data[pending[j].written + l] \in ToSet(file')
    <3>1. l \in 1..Len(e.data)
      BY <1>0, <1>4, <1>5
    <3>2. g[l] = pending[j].data[pending[j].written + l] /\ l \in 1..Len(g)
      BY <1>9, <2>2, <2>3, <3>1 DEF IsRest
    <3>3. g[l] \in ToSet(g)
      BY <3>2, InToSet
    <3> QED BY <1>10, <3>2, <3>3
  <2> QED BY <1>11, <2>4, <2>5 DEF Lands
<1>13. cq' = Append(cq, x) /\ io_fails' \in Nat
  BY <1>0, <1>1, <1>2, <1>4, <1>11
<1> QED BY <1>0, <1>1, <1>3, <1>4, <1>10, <1>11, <1>12, <1>13, Executes

-----------------------------------------------------------------------------
(* The invariant *)

LEMMA AofInvInit ==
    ASSUME Init
    PROVE  AofInv
<1>1. Len(<<>>) = 0 /\ <<>> \in Seq(1..MaxUnits) /\ <<>> \in Seq(0..MaxUnits)
  OBVIOUS
<1>2. Typed
  <2>1. HardCap \in Nat /\ MaxPending \in Nat /\ RingEntries \in Nat /\ MaxUnits \in Nat
    BY InlineAofAssumption
  <2>2. TypeOK
    <3>1. {dirty, io_failed, stopped, ring_inited, flush_due, sync_due, awake} \subseteq BOOLEAN
      BY DEF Init
    <3>2. /\ policy \in Policies /\ buf \in Seq(1..MaxUnits) /\ Len(buf) <= HardCap
          /\ Len(pending) <= MaxPending /\ Len(sq) <= RingEntries /\ file \in Seq(0..MaxUnits)
      BY <1>1, <2>1 DEF Init
    <3>3. /\ synced \subseteq 0..MaxUnits /\ acked \subseteq 1..MaxUnits /\ units \in 0..MaxUnits
          /\ flushed \in {"none", "ok", "fail"}
      BY <2>1 DEF Init
    <3> QED BY <3>1, <3>2, <3>3 DEF TypeOK
  <2> QED BY <2>2 DEF Init, Typed
<1>3. Control
  BY <1>1 DEF Init, Control, Load, Acks, Flushing, Closing, Unflushed
<1>4. Fresh /\ Writes
  BY <1>1 DEF Init, Fresh, Below, Writes, Distinct
<1>5. 1..units = {}
  BY DEF Init
<1>6. Kept /\ Covered /\ FlushHonest
  BY <1>5 DEF Init, Kept, Covered, FlushHonest
<1> QED BY <1>2, <1>3, <1>4, <1>6 DEF AofInv

LEMMA AofInvStep ==
    ASSUME AofInv, Next
    PROVE  AofInv'
<1>1. CASE \E size \in Sizes : Enqueue(size)
  BY <1>1, EnqueueStep
<1>2. CASE Flush \/ Stop \/ Poll \/ Wake \/ FlushDue \/ SyncDue
  BY <1>2, FlushStep, StopStep, PollStep, WakeStep, DueStep
<1>3. CASE Step
  <2>1. CASE DoAppend \/ DoPiece \/ Ack \/ FlushBuffer \/ Submit \/ Sync
    BY <2>1, DoAppendStep, DoPieceStep, AckStep, FlushBufferStep, SubmitStep, SyncStep
  <2>2. CASE FlushReturns \/ PollDue \/ PollSync \/ Close
    BY <2>2, FlushReturnsStep, PollDueStep, CloseStep
  <2>3. CASE Peek
    BY <2>3, PeekUnknownStep, PeekErrorStep, PeekShortStep, PeekCompleteStep, PeekDoneStep
      DEF Peek
  <2> QED BY <1>3, <2>1, <2>2, <2>3 DEF Step
<1>4. CASE SubmitFails \/ SyncFails \/ PeekShortFails \/ WaitFails
  BY <1>4, SubmitFailsStep, SyncFailsStep, PeekShortFailsStep, WaitFailsStep
<1>5. CASE Kernel
  BY <1>5, KernelWriteStep DEF Kernel
<1>6. CASE \E i \in 1..MaxUnits : KernelError(i)
  BY <1>6, KernelErrorStep
<1> QED BY <1>1, <1>2, <1>3, <1>4, <1>5, <1>6 DEF Next

LEMMA AofInvStutters ==
    ASSUME AofInv, UNCHANGED vars
    PROVE  AofInv'
<1>1. UNCHANGED <<writerVars, awake, todo, ringVars, synced, histVars>>
  BY DEF vars
<1>2. UNCHANGED <<policy, buf, pending, next_ud, dirty, io_failed, stopped, ring_inited,
                  flush_due, sync_due, units, acked, flushed, submit_fails, io_fails>>
  BY <1>1 DEF writerVars, histVars
<1>3. Typed /\ Control /\ todo \in Seq(OpSet)
  BY DEF AofInv, Typed
<1>4. Control'
  BY <1>1, <1>2, <1>3, SameControl
<1> QED BY <1>1, <1>2, <1>3, <1>4, Booleans, StillStep

LEMMA AofInvariant == Spec => []AofInv
<1>1. Init => AofInv
  BY AofInvInit
<1>2. AofInv /\ [Next]_vars => AofInv'
  BY AofInvStep, AofInvStutters
<1> QED BY <1>1, <1>2, PTL DEF Spec

(* The type invariant of the model: in particular the buffer never outgrows  *)
(* kHardCap, pending_ never outgrows kMaxPending and the submission queue    *)
(* never outgrows the ring, whatever fails and in whatever order the kernel  *)
(* completes the writes.                                                     *)
THEOREM TypeCorrect == Spec => []TypeOK
<1>1. AofInv => TypeOK
  BY DEF AofInv, Typed
<1> QED BY <1>1, AofInvariant, PTL

(* A unit in the rest of a pending write is one the writer still holds.      *)
LEMMA RestHolds ==
    ASSUME NEW pw \in Pw, NEW u, InRest(u, pw)
    PROVE  u \in ToSet(Rest(pw, 0))
<1>0. pw.written \in Nat /\ pw.data \in Seq(Units) /\ Len(pw.data) \in Nat
  BY DEF Pw
<1>1. PICK j \in 1..Len(pw.data) : j > pw.written /\ pw.data[j] = u
  BY DEF InRest
<1>2. PICK r \in Seq(Units) :
         /\ r = Rest(pw, 0)
         /\ r = <<>> => pw.written + 0 >= Len(pw.data)
         /\ r # <<>> => Len(r) = Len(pw.data) - (pw.written + 0)
         /\ \A l \in 1..Len(r) : r[l] = pw.data[(pw.written + 0) + l]
  BY RestIs
<1>3. r # <<>>
  BY <1>0, <1>1, <1>2
<1>4. j - pw.written \in 1..Len(r) /\ (pw.written + 0) + (j - pw.written) = j
  BY <1>0, <1>1, <1>2, <1>3
<1>5. r[j - pw.written] = u
  BY <1>1, <1>2, <1>4
<1> QED BY <1>2, <1>4, <1>5, InToSet

(* As long as the writer has not reported a failure (io_failed_) and its     *)
(* ring is open, every unit handed to Enqueue is in the file or in memory    *)
(* that will still be written: FlushBuffer, a failed io_uring_submit, a      *)
(* short write that is submitted again and completions in any order lose     *)
(* nothing, for every buffer size, ring size and number of failures.         *)
THEOREM NothingIsLost == Spec => []NoUnitLost
<1>1. AofInv => NoUnitLost
  <2> SUFFICES ASSUME AofInv, ~io_failed, ring_inited, NEW u \in 1..units
               PROVE  u \in ToSet(file) \cup InBuffers
    BY DEF NoUnitLost
  <2>1. Held(u, file, buf, pending) /\ pending \in Seq(Pw)
    BY DEF AofInv, Kept, Typed
  <2>2. ASSUME NEW i \in 1..Len(pending), InRest(u, pending[i]) PROVE u \in InBuffers
    <3>1. pending[i] \in Pw /\ i \in DOMAIN pending
      BY <2>1
    <3>2. u \in ToSet(Rest(pending[i], 0))
      BY <2>2, <3>1, RestHolds
    <3> QED BY <3>1, <3>2 DEF InBuffers
  <2> QED BY <2>1, <2>2 DEF Held, InBuffers
<1> QED BY <1>1, AofInvariant, PTL

(* A Flush() that returns true found every unit in the file, and behind it   *)
(* an fdatasync unless the policy is no: neither a completion that comes     *)
(* late, nor one for a write a failed submit forgot, nor a dirty_ left over  *)
(* from an earlier sync makes it return true too early.                      *)
THEOREM FlushCorrect == Spec => []FlushHonest
<1>1. AofInv => FlushHonest
  BY DEF AofInv
<1> QED BY <1>1, AofInvariant, PTL

-----------------------------------------------------------------------------
(* No unit twice.  As long as no io_uring_submit failed, every request in    *)
(* flight has its write in pending_, and no unit is in two of the file, the  *)
(* buffer and the writes in pending_, except that a completion which has not *)
(* been seen yet reports the units of its write that are in the file.        *)

Owned(f, p) == \A i \in 1..Len(f) : \E j \in 1..Len(p) : p[j].ud = f[i].ud

NoRepeat(q)  == \A i \in 1..Len(q) : \A j \in 1..Len(q) : q[i] = q[j] => i = j
Within(q, u) == \A i \in 1..Len(q) : q[i] > 0 /\ q[i] <= u
Apart(p, q)  == \A i \in 1..Len(p) : \A j \in 1..Len(q) : p[i] # q[j]

Reported(pw, c, fl) ==
    \A j \in 1..Len(pw.data) : \A l \in 1..Len(fl) :
        j > pw.written /\ fl[l] = pw.data[j] =>
            \E a \in 1..Len(c) : c[a].ud = pw.ud /\ pw.written + c[a].res >= j

Fine(pw, b, c, fl, u) == /\ NoRepeat(pw.data) /\ Within(pw.data, u)
                         /\ Apart(b, pw.data) /\ Reported(pw, c, fl)

Once == /\ sq = <<>> /\ Owned(inflight, pending)
        /\ NoRepeat(file) /\ Within(file, units)
        /\ NoRepeat(buf) /\ Within(buf, units) /\ Apart(buf, file)
        /\ \A i \in 1..Len(pending) : Fine(pending[i], buf, cq, file, units)
        /\ \A i \in 1..Len(pending) : \A j \in 1..Len(pending) :
              i # j => Apart(pending[i].data, pending[j].data)

LEMMA OnceSame ==
    ASSUME Once, UNCHANGED <<file, sq, inflight, pending, cq, buf, units>>
    PROVE  Once'
BY DEF Once

LEMMA OnceTyped ==
    ASSUME AofInv
    PROVE  /\ units \in Nat /\ MaxUnits \in Nat
           /\ file \in Seq(Nat) /\ Len(file) \in Nat /\ \A i \in 1..Len(file) : file[i] \in Nat
           /\ buf \in Seq(Nat) /\ Len(buf) \in Nat /\ \A i \in 1..Len(buf) : buf[i] \in Nat
           /\ pending \in Seq(Pw) /\ sq \in Seq(Sqe) /\ inflight \in Seq(Sqe)
           /\ Len(pending) \in Nat /\ Len(inflight) \in Nat /\ Len(cq) \in Nat
           /\ \A i \in 1..Len(pending) :
                 /\ pending[i] \in Pw /\ Len(pending[i].data) \in Nat
                 /\ pending[i].written \in Nat
                 /\ \A j \in 1..Len(pending[i].data) : pending[i].data[j] \in Nat
<1>1. /\ buf \in Seq(Units) /\ units \in 0..MaxUnits /\ MaxUnits \in Nat
      /\ file \in Seq(0..MaxUnits) /\ pending \in Seq(Pw) /\ sq \in Seq(Sqe)
      /\ inflight \in Seq(Sqe) /\ Len(pending) \in Nat /\ Len(inflight) \in Nat
      /\ Len(cq) \in Nat
  BY InlineAofAssumption, QueuesTyped DEF AofInv, Typed, TypeOK, Units
<1>2. /\ buf \in Seq(Nat) /\ file \in Seq(Nat)
  BY <1>1 DEF Units
<1>3. ASSUME NEW i \in 1..Len(pending)
      PROVE  /\ pending[i] \in Pw /\ Len(pending[i].data) \in Nat
             /\ pending[i].written \in Nat
             /\ \A j \in 1..Len(pending[i].data) : pending[i].data[j] \in Nat
  <2>1. pending[i] \in Pw
    BY <1>1
  <2>2. PICK d \in Seq(Units) : d = pending[i].data
    BY <2>1 DEF Pw
  <2>3. Len(d) \in Nat /\ \A j \in 1..Len(d) : d[j] \in Nat
    BY <1>1, <2>2, SMTT(40) DEF Units
  <2>4. pending[i].written \in Nat
    BY <2>1 DEF Pw
  <2> QED BY <2>1, <2>2, <2>3, <2>4
<1> QED BY <1>1, <1>2, <1>3

(* The next n units reach the buffer: they are in none of the others.        *)
LEMMA OnceAppends ==
    ASSUME AofInv, Once, NEW n \in Nat,
           buf' = buf \o [i \in 1..n |-> units + i], units' = units + n,
           UNCHANGED <<file, sq, inflight, pending, cq>>
    PROVE  Once'
<1>0. /\ units \in Nat /\ buf \in Seq(Nat) /\ Len(buf) \in Nat
      /\ \A i \in 1..Len(buf) : buf[i] \in Nat
      /\ \A i \in 1..Len(file) : file[i] \in Nat
      /\ \A i \in 1..Len(pending) : \A j \in 1..Len(pending[i].data) :
            pending[i].data[j] \in Nat
  BY OnceTyped
<1>1. units \in Nat /\ Len(buf) \in Nat
  BY <1>0
<1>2. PICK d \in Seq(Nat) : /\ d = [i \in 1..n |-> units + i] /\ Len(d) = n
                            /\ \A i \in 1..n : d[i] = units + i
  <2> DEFINE e == [i \in 1..n |-> units + i]
  <2>1. e \in Seq(Nat) /\ Len(e) = n /\ \A i \in 1..n : e[i] = units + i
    BY <1>1
  <2>2. e = [i \in 1..n |-> units + i]
    OBVIOUS
  <2> HIDE DEF e
  <2> QED BY <2>1, <2>2, Zenon
<1>3. PICK z \in Seq(Nat) :
         /\ z = buf \o d /\ Len(z) = Len(buf) + Len(d)
         /\ \A i \in 1..(Len(buf) + Len(d)) : z[i] = IF i <= Len(buf) THEN buf[i] ELSE d[i - Len(buf)]
  <2>1. /\ buf \o d \in Seq(Nat) /\ Len(buf \o d) = Len(buf) + Len(d)
        /\ \A i \in 1..(Len(buf) + Len(d)) :
              (buf \o d)[i] = IF i <= Len(buf) THEN buf[i] ELSE d[i - Len(buf)]
    BY <1>0, ConcatProperties
  <2> QED BY <2>1, Zenon
<1>4. buf' = z
  BY <1>2, <1>3, Zenon
<1>5. ASSUME NEW j \in 1..Len(z)
      PROVE  \/ j \in 1..Len(buf) /\ z[j] = buf[j] /\ z[j] <= units
             \/ j > Len(buf) /\ z[j] = units + (j - Len(buf)) /\ z[j] > units
  <2>1. CASE j <= Len(buf)
    <3>1. j \in 1..Len(buf) /\ z[j] = buf[j]
      BY <1>0, <1>2, <1>3, <2>1
    <3> QED BY <3>1 DEF Once, Within
  <2>2. CASE ~(j <= Len(buf))
    <3>1. j - Len(buf) \in 1..n /\ z[j] = d[j - Len(buf)]
      BY <1>0, <1>2, <1>3, <2>2
    <3>2. z[j] = units + (j - Len(buf))
      BY <1>2, <3>1
    <3> QED BY <1>0, <2>2, <3>1, <3>2
  <2> QED BY <2>1, <2>2
<1>6. NoRepeat(z)
  <2> SUFFICES ASSUME NEW i \in 1..Len(z), NEW j \in 1..Len(z), z[i] = z[j] PROVE i = j
    BY DEF NoRepeat
  <2>1. CASE i \in 1..Len(buf) /\ z[i] = buf[i] /\ z[i] <= units
    <3>1. z[i] \in Nat
      BY <1>0, <2>1
    <3>2. j \in 1..Len(buf) /\ z[j] = buf[j]
      <4>1. ~(j > Len(buf) /\ z[j] > units)
        BY <1>1, <2>1, <3>1
      <4> QED BY <1>5, <4>1
    <3> QED BY <2>1, <3>2 DEF Once, NoRepeat
  <2>2. CASE i > Len(buf) /\ z[i] = units + (i - Len(buf)) /\ z[i] > units
    <3>1. j > Len(buf) /\ z[j] = units + (j - Len(buf))
      <4>0. i \in Nat /\ units + (i - Len(buf)) \in Int
        BY <1>1
      <4>1. ~(j \in 1..Len(buf) /\ z[j] <= units)
        BY <1>1, <2>2, <4>0
      <4> QED BY <1>5, <4>1
    <3>2. units + (i - Len(buf)) = units + (j - Len(buf))
      BY <2>2, <3>1, Zenon
    <3>3. i \in Nat /\ j \in Nat
      OBVIOUS
    <3> QED BY <1>1, <3>2, <3>3
  <2> QED BY <1>5, <2>1, <2>2
<1>7. Within(z, units + n)
  <2> SUFFICES ASSUME NEW j \in 1..Len(z) PROVE z[j] > 0 /\ z[j] <= units + n
    BY DEF Within
  <2>1. CASE j \in 1..Len(buf) /\ z[j] = buf[j]
    <3>1. buf[j] > 0 /\ buf[j] <= units
      BY <2>1 DEF Once, Within
    <3> QED BY <1>0, <2>1, <3>1
  <2>2. CASE j > Len(buf) /\ z[j] = units + (j - Len(buf))
    BY <1>0, <1>2, <1>3, <2>2
  <2> QED BY <1>5, <2>1, <2>2
<1>8. ASSUME NEW q, Within(q, units), Apart(buf, q), \A i \in 1..Len(q) : q[i] \in Nat
      PROVE  Apart(z, q) /\ Within(q, units + n)
  <2>1. \A i \in 1..Len(z) : \A j \in 1..Len(q) : z[i] # q[j]
    <3> SUFFICES ASSUME NEW i \in 1..Len(z), NEW j \in 1..Len(q) PROVE z[i] # q[j]
      OBVIOUS
    <3>1. CASE i \in 1..Len(buf) /\ z[i] = buf[i]
      BY <1>8, <3>1 DEF Apart
    <3>2. CASE z[i] > units /\ z[i] = units + (i - Len(buf))
      BY <1>0, <1>8, <3>2 DEF Within
    <3> QED BY <1>5, <3>1, <3>2
  <2>2. Within(q, units + n)
    BY <1>0, <1>8 DEF Within
  <2> QED BY <2>1, <2>2 DEF Apart
<1>9. Apart(z, file) /\ Within(file, units + n)
  BY <1>0, <1>8 DEF Once
<1>10. ASSUME NEW i \in 1..Len(pending)
       PROVE  Fine(pending[i], z, cq, file, units + n)
  BY <1>0, <1>8 DEF Once, Fine
<1> QED BY <1>4, <1>6, <1>7, <1>9, <1>10 DEF Once

LEMMA OnceLoads ==
    ASSUME AofInv, Once, DoAppend \/ DoPiece
    PROVE  Once'
<1>1. Head(todo).n \in Nat
  <2>1. Typed /\ todo # <<>>
    BY DEF AofInv, DoAppend, DoPiece, At
  <2>2. Head(todo) \in OpSet
    BY <2>1, TodoTyped
  <2> QED BY <2>2 DEF OpSet
<1>2. UNCHANGED <<file, sq, inflight, pending, cq>>
  BY DEF DoAppend, DoPiece, ringVars
<1>3. \E n \in Nat : buf' = buf \o [i \in 1..n |-> units + i] /\ units' = units + n
  <2>1. CASE DoAppend
    BY <1>1, <2>1 DEF DoAppend
  <2>2. CASE DoPiece
    <3>1. PICK n \in Nat : n = IF Head(todo).n < SoftFlush THEN Head(todo).n ELSE SoftFlush
      BY <1>1, InlineAofAssumption
    <3> QED BY <2>2, <3>1 DEF DoPiece
  <2> QED BY <2>1, <2>2
<1> QED BY <1>2, <1>3, OnceAppends

LEMMA OnceCloses ==
    ASSUME Once, Close
    PROVE  Once'
<1>1. /\ pending' = <<>> /\ inflight' = <<>> /\ sq' = <<>> /\ cq' = <<>>
      /\ UNCHANGED <<file, buf, units>>
  BY DEF Close, histVars
<1>2. Len(<<>>) = 0
  OBVIOUS
<1>3. Owned(inflight', pending')
  BY <1>1, <1>2 DEF Owned
<1> QED BY <1>1, <1>2, <1>3 DEF Once

(* A write is submitted: its units leave the buffer.                         *)
LEMMA OnceSubmits ==
    ASSUME AofInv, Once, Submit
    PROVE  Once'
<1>0. /\ pending' = Append(pending, [ud |-> next_ud, data |-> buf, written |-> 0])
      /\ inflight' = inflight \o Append(sq, NewSqe)
      /\ sq' = <<>> /\ buf' = <<>> /\ Typed
      /\ UNCHANGED <<cq, file, units>>
  BY DEF AofInv, Submit, histVars
<1>1. /\ pending \in Seq(Pw) /\ inflight \in Seq(Sqe) /\ sq \in Seq(Sqe)
      /\ Len(pending) \in Nat /\ Len(inflight) \in Nat
      /\ next_ud \in Nat /\ buf \in Seq(Units)
  BY <1>0, OnceTyped DEF Typed, TypeOK, Units
<1>2. PICK e \in Sqe : e = NewSqe /\ e.ud = next_ud /\ e.data = buf
  BY <1>0, NewSqeTyped, Zenon
<1>3. PICK w \in Pw : /\ w = [ud |-> next_ud, data |-> buf, written |-> 0]
                      /\ w.ud = next_ud /\ w.data = buf /\ w.written = 0
  <2>1. [ud |-> next_ud, data |-> buf, written |-> 0] \in Pw
    BY <1>1 DEF Pw
  <2> QED BY <2>1
<1>4. PICK p \in Seq(Pw) : pending' = p /\ Grown(pending, p, w)
  <2>1. PICK p \in Seq(Pw) : p = Append(pending, w) /\ Grown(pending, p, w)
    BY <1>1, AppendIs, Zenon
  <2> QED BY <1>0, <1>3, <2>1, Zenon
<1>5. PICK f \in Seq(Sqe) : inflight' = f /\ Joined(inflight, sq, e, f)
  <2>1. PICK f \in Seq(Sqe) : f = inflight \o Append(sq, e) /\ Joined(inflight, sq, e, f)
    BY <1>1, JoinIs, Zenon
  <2> QED BY <1>0, <1>2, <2>1, Zenon
<1>6. Len(sq) = 0 /\ Len(<<>>) = 0 /\ Len(sq) \in Nat
  BY DEF Once
<1>7. /\ Len(p) = Len(pending) + 1 /\ p[Len(pending) + 1] = w
      /\ Len(pending) + 1 \in 1..Len(p)
      /\ \A j \in 1..Len(pending) : j \in 1..Len(p) /\ p[j] = pending[j]
  BY <1>1, <1>4 DEF Grown
<1>8. ASSUME NEW i \in 1..Len(p)
      PROVE  \/ i \in 1..Len(pending) /\ p[i] = pending[i]
             \/ i = Len(pending) + 1 /\ p[i] = w
  BY <1>1, <1>7
<1>9. Owned(f, p)
  <2> SUFFICES ASSUME NEW i \in 1..Len(f) PROVE \E j \in 1..Len(p) : p[j].ud = f[i].ud
    BY DEF Owned
  <2>1. \/ i \in 1..Len(inflight) /\ f[i] = inflight[i]
        \/ i = Len(inflight) + Len(sq) + 1 /\ f[i] = e
        \/ \E a \in 1..Len(sq) : f[i] = sq[a]
    <3>1. Len(inflight) \in Nat /\ Len(sq) \in Nat /\ Joined(inflight, sq, e, f)
      BY <1>1, <1>5, <1>6
    <3> HIDE DEF Joined
    <3> QED BY <3>1, JoinedAt
  <2>2. CASE i \in 1..Len(inflight) /\ f[i] = inflight[i]
    <3>1. PICK j \in 1..Len(pending) : pending[j].ud = inflight[i].ud
      BY <2>2 DEF Once, Owned
    <3> QED BY <1>7, <2>2, <3>1
  <2>3. CASE f[i] = e
    BY <1>2, <1>3, <1>7, <2>3
  <2> QED BY <1>6, <2>1, <2>2, <2>3
<1>10. Fine(w, <<>>, cq, file, units)
  <2>1. NoRepeat(w.data) /\ Within(w.data, units) /\ Apart(<<>>, w.data)
    BY <1>3, <1>6 DEF Once, Apart
  <2>2. Reported(w, cq, file)
    BY <1>3 DEF Once, Apart, Reported
  <2> QED BY <2>1, <2>2 DEF Fine
<1>11. ASSUME NEW i \in 1..Len(p) PROVE Fine(p[i], <<>>, cq, file, units)
  <2>1. CASE i \in 1..Len(pending) /\ p[i] = pending[i]
    <3>1. Fine(pending[i], buf, cq, file, units)
      BY <2>1 DEF Once
    <3> QED BY <1>6, <2>1, <3>1 DEF Fine, Apart
  <2> QED BY <1>8, <1>10, <2>1
<1>12. ASSUME NEW i \in 1..Len(p), NEW j \in 1..Len(p), i # j
       PROVE  Apart(p[i].data, p[j].data)
  <2>1. \A k \in 1..Len(pending) : Apart(buf, pending[k].data)
    BY DEF Once, Fine
  <2>2. CASE /\ i \in 1..Len(pending) /\ p[i] = pending[i]
             /\ j \in 1..Len(pending) /\ p[j] = pending[j]
    BY <1>12, <2>2 DEF Once
  <2>3. CASE i \in 1..Len(pending) /\ p[i] = pending[i] /\ p[j] = w
    BY <1>3, <2>1, <2>3 DEF Apart
  <2>4. CASE p[i] = w /\ j \in 1..Len(pending) /\ p[j] = pending[j]
    BY <1>3, <2>1, <2>4 DEF Apart
  <2> QED BY <1>8, <1>12, <2>2, <2>3, <2>4
<1>13. NoRepeat(<<>>) /\ Within(<<>>, units) /\ Apart(<<>>, file)
  BY <1>6 DEF NoRepeat, Within, Apart
<1> QED BY <1>0, <1>4, <1>5, <1>9, <1>11, <1>12, <1>13 DEF Once

(* A completion of another write leaves the queue, or joins it.              *)
LEMMA ReportedSeen ==
    ASSUME NEW pw, NEW c, NEW c2, NEW fl, Len(c) \in Nat, Len(c) >= 1,
           Reported(pw, c, fl), Cut(c, c2, 1), c[1].ud # pw.ud
    PROVE  Reported(pw, c2, fl)
<1> SUFFICES ASSUME NEW j \in 1..Len(pw.data), NEW l \in 1..Len(fl),
                    j > pw.written, fl[l] = pw.data[j]
             PROVE  \E a \in 1..Len(c2) : c2[a].ud = pw.ud /\ pw.written + c2[a].res >= j
  BY DEF Reported
<1>1. PICK a \in 1..Len(c) : c[a].ud = pw.ud /\ pw.written + c[a].res >= j
  BY DEF Reported
<1>2. a # 1 /\ 1 \in 1..Len(c)
  BY <1>1
<1>3. PICK b \in 1..Len(c2) : c2[b] = c[a]
  BY <1>2, CutKeeps
<1> QED BY <1>1, <1>3

LEMMA ReportedMore ==
    ASSUME NEW pw, NEW c, NEW c2, NEW x, NEW fl, Len(c) \in Nat,
           Reported(pw, c, fl), Grown(c, c2, x)
    PROVE  Reported(pw, c2, fl)
<1>1. \A a \in 1..Len(c) : a \in 1..Len(c2) /\ c2[a] = c[a]
  BY DEF Grown
<1> QED BY <1>1 DEF Reported

(* A completion is seen that leaves the rest of pending_ as it was.          *)
LEMMA OnceUnknown ==
    ASSUME AofInv, Once, PeekUnknown
    PROVE  Once'
<1>1. /\ cq # <<>> /\ cq' = Tail(cq) /\ FindPending(Head(cq).ud) = {}
      /\ UNCHANGED <<file, sq, inflight, pending, buf, units>>
  BY DEF PeekUnknown, writerVars, histVars
<1>2. Cut(cq, cq', 1) /\ Head(cq) = cq[1] /\ Len(cq) \in Nat /\ Len(cq) >= 1
  BY <1>1, TakesCqe
<1>3. ASSUME NEW i \in 1..Len(pending) PROVE Fine(pending[i], buf, cq', file, units)
  <2>1. pending[i].ud # cq[1].ud
    <3>1. i \in DOMAIN pending
      BY OnceTyped
    <3> QED BY <1>1, <1>2, <3>1 DEF FindPending
  <2>2. Fine(pending[i], buf, cq, file, units)
    BY DEF Once
  <2> QED BY <1>2, <2>1, <2>2, ReportedSeen DEF Fine
<1> QED BY <1>1, <1>3 DEF Once

(* A write leaves pending_ with its completion, whole or failed.             *)
LEMMA OnceTakes ==
    ASSUME AofInv, Once, cq # <<>>, cq' = Tail(cq),
           NEW i \in FindPending(Head(cq).ud), pending' = RemoveAt(pending, i),
           UNCHANGED <<file, sq, inflight, buf, units>>
    PROVE  Once'
<1>0. Cut(cq, cq', 1) /\ Head(cq) = cq[1] /\ Len(cq) \in Nat /\ Len(cq) >= 1
  BY TakesCqe
<1>1. /\ i \in 1..Len(pending) /\ pending[i].ud = cq[1].ud
      /\ Sound(pending[i], sq, inflight, cq, file)
  BY <1>0, Found
<1>2. pending \in Seq(Pw) /\ Len(pending) \in Nat
  BY OnceTyped
<1>3. PICK p \in Seq(Pw) : pending' = p /\ Cut(pending, p, i)
  BY <1>1, <1>2, RemoveAtIs, Zenon
<1>4. \A b \in 1..Len(inflight) : inflight[b].ud # pending[i].ud
  <2>1. 1 \in 1..Len(cq)
    BY <1>0
  <2> QED BY <1>1, <2>1 DEF Sound
<1>5. ASSUME NEW j \in 1..Len(p)
      PROVE  \E k \in 1..Len(pending) : /\ p[j] = pending[k] /\ k # i
                                        /\ k = IF j < i THEN j ELSE j + 1
  BY <1>1, <1>2, <1>3 DEF Cut
<1>6. Owned(inflight, p)
  <2> SUFFICES ASSUME NEW a \in 1..Len(inflight)
               PROVE  \E j \in 1..Len(p) : p[j].ud = inflight[a].ud
    BY DEF Owned
  <2>1. PICK k \in 1..Len(pending) : pending[k].ud = inflight[a].ud
    BY DEF Once, Owned
  <2>2. k # i
    BY <1>4, <2>1
  <2>3. \E j \in 1..Len(p) : p[j] = pending[k]
    BY <1>1, <1>2, <1>3, <2>2, CutKeeps
  <2> QED BY <2>1, <2>3
<1>7. ASSUME NEW j \in 1..Len(p) PROVE Fine(p[j], buf, cq', file, units)
  <2>1. PICK k \in 1..Len(pending) : p[j] = pending[k] /\ k # i
    BY <1>5
  <2>2. pending[k].ud # cq[1].ud
    BY <1>1, <2>1 DEF AofInv, Writes, Distinct
  <2>3. Fine(pending[k], buf, cq, file, units)
    BY DEF Once
  <2> QED BY <1>0, <2>1, <2>2, <2>3, ReportedSeen DEF Fine
<1>8. ASSUME NEW a \in 1..Len(p), NEW b \in 1..Len(p), a # b
      PROVE  Apart(p[a].data, p[b].data)
  <2>1. PICK k \in 1..Len(pending) : p[a] = pending[k] /\ k = IF a < i THEN a ELSE a + 1
    BY <1>5
  <2>2. PICK l \in 1..Len(pending) : p[b] = pending[l] /\ l = IF b < i THEN b ELSE b + 1
    BY <1>5
  <2>3. k # l
    BY <1>1, <1>8, <2>1, <2>2
  <2> QED BY <2>1, <2>2, <2>3 DEF Once
<1> QED BY <1>3, <1>6, <1>7, <1>8 DEF Once

(* A request less in flight.                                                 *)
LEMMA OwnedCut ==
    ASSUME NEW q, NEW f, NEW p, NEW i \in 1..Len(q), Len(q) \in Nat,
           Cut(q, f, i), Owned(q, p)
    PROVE  Owned(f, p)
<1> SUFFICES ASSUME NEW a \in 1..Len(f) PROVE \E j \in 1..Len(p) : p[j].ud = f[a].ud
  BY DEF Owned
<1>1. Len(f) = Len(q) - 1 /\ f[a] = IF a < i THEN q[a] ELSE q[a + 1]
  BY DEF Cut
<1>2. CASE a < i
  <2>1. a \in 1..Len(q) /\ f[a] = q[a]
    BY <1>1, <1>2
  <2> QED BY <2>1 DEF Owned
<1>3. CASE ~(a < i)
  <2>1. a + 1 \in 1..Len(q) /\ f[a] = q[a + 1]
    BY <1>1, <1>3
  <2> QED BY <2>1 DEF Owned
<1> QED BY <1>2, <1>3

(* A short write is seen: what it left is none of what is in the file.       *)
LEMMA OnceShort ==
    ASSUME AofInv, Once, PeekShort
    PROVE  Once'
<1>0. /\ cq # <<>> /\ cq' = Tail(cq) /\ sq' = <<>>
      /\ UNCHANGED <<buf, file, units>>
  BY DEF PeekShort, histVars
<1>1. PICK i \in FindPending(Head(cq).ud) :
         LET k == Head(cq).res
         IN  /\ k > 0 /\ Rest(pending[i], k) # <<>>
             /\ pending' = [pending EXCEPT ![i].written = @ + k]
             /\ inflight' = inflight \o Append(sq,
                    [ud |-> pending[i].ud, data |-> Rest(pending[i], k)])
  BY DEF PeekShort
<1>2. /\ Cut(cq, cq', 1) /\ Head(cq) = cq[1] /\ cq[1] \in Cqe
      /\ Len(cq) \in Nat /\ Len(cq) >= 1 /\ 1 \in 1..Len(cq)
  BY <1>0, TakesCqe
<1>3. /\ i \in 1..Len(pending) /\ pending[i].ud = cq[1].ud /\ pending[i] \in Pw
      /\ Sound(pending[i], sq, inflight, cq, file)
  BY <1>2, Found
<1>4. /\ pending \in Seq(Pw) /\ inflight \in Seq(Sqe) /\ sq \in Seq(Sqe)
      /\ Len(pending) \in Nat /\ Len(inflight) \in Nat
  BY OnceTyped
<1>5. PICK k \in Nat : k = cq[1].res /\ k > 0
  BY <1>1, <1>2 DEF Cqe
<1>6. PICK pw \in Pw : pw = pending[i]
  BY <1>3
<1>7. pw.written \in Nat /\ pw.data \in Seq(Units) /\ Len(pw.data) \in Nat /\ pw.ud \in Nat
  BY DEF Pw
<1>8. PICK e \in Sqe : e = [ud |-> pw.ud, data |-> Rest(pw, k)] /\ e.ud = pw.ud
  <2>1. PICK r \in Seq(Units) : r = Rest(pw, k)
    BY RestIs, Zenon
  <2>2. [ud |-> pw.ud, data |-> r] \in Sqe
    BY <1>7 DEF Sqe
  <2>3. [ud |-> pw.ud, data |-> r].ud = pw.ud
    OBVIOUS
  <2> QED BY <2>1, <2>2, <2>3, Zenon
<1>9. PICK f \in Seq(Sqe) : inflight' = f /\ Joined(inflight, sq, e, f)
  <2>1. PICK f \in Seq(Sqe) : f = inflight \o Append(sq, e) /\ Joined(inflight, sq, e, f)
    BY <1>4, JoinIs, Zenon
  <2>2. inflight' = inflight \o Append(sq, e)
    BY <1>1, <1>2, <1>5, <1>6, <1>8
  <2> QED BY <2>1, <2>2, Zenon
<1>10. PICK w \in Pw : /\ w = [pw EXCEPT !.written = @ + k] /\ w.ud = pw.ud
                       /\ w.data = pw.data /\ w.written = pw.written + k
  <2>1. [pw EXCEPT !.written = @ + k] \in Pw
    BY <1>7 DEF Pw
  <2> QED BY <2>1 DEF Pw
<1>11. PICK p \in Seq(Pw) : /\ pending' = p /\ Len(p) = Len(pending) /\ p[i] = w
                            /\ \A j \in 1..Len(pending) : j # i => p[j] = pending[j]
  <2>1. pending' = [pending EXCEPT ![i] = w]
    BY <1>1, <1>2, <1>5, <1>6, <1>10
  <2>2. [pending EXCEPT ![i] = w] \in Seq(Pw)
    BY <1>3, <1>4
  <2>3. /\ Len([pending EXCEPT ![i] = w]) = Len(pending)
        /\ [pending EXCEPT ![i] = w][i] = w
        /\ \A j \in 1..Len(pending) : j # i => [pending EXCEPT ![i] = w][j] = pending[j]
    BY <1>3, <1>4
  <2> QED BY <2>1, <2>2, <2>3
<1>12. \A j \in 1..Len(p) : p[j].ud = pending[j].ud /\ p[j].data = pending[j].data
  BY <1>6, <1>10, <1>11
<1>13. Owned(f, p)
  <2> SUFFICES ASSUME NEW a \in 1..Len(f) PROVE \E j \in 1..Len(p) : p[j].ud = f[a].ud
    BY DEF Owned
  <2>0. Len(sq) = 0 /\ Len(sq) \in Nat
    BY DEF Once
  <2>1. \/ a \in 1..Len(inflight) /\ f[a] = inflight[a]
        \/ a = Len(inflight) + Len(sq) + 1 /\ f[a] = e
        \/ \E b \in 1..Len(sq) : f[a] = sq[b]
    <3>1. Len(inflight) \in Nat /\ Len(sq) \in Nat /\ Joined(inflight, sq, e, f)
      BY <1>4, <1>9, <2>0
    <3> HIDE DEF Joined
    <3> QED BY <3>1, JoinedAt
  <2>2. CASE a \in 1..Len(inflight) /\ f[a] = inflight[a]
    <3>1. PICK j \in 1..Len(pending) : pending[j].ud = inflight[a].ud
      BY <2>2 DEF Once, Owned
    <3> QED BY <1>11, <1>12, <2>2, <3>1
  <2>3. CASE f[a] = e
    BY <1>3, <1>8, <1>10, <1>11, <2>3
  <2> QED BY <2>0, <2>1, <2>2, <2>3
<1>14. Fine(pw, buf, cq, file, units)
  BY <1>3, <1>6 DEF Once
<1>15. Reported(w, cq', file)
  <2> SUFFICES ASSUME NEW j \in 1..Len(w.data), NEW l \in 1..Len(file),
                      j > w.written, file[l] = w.data[j]
               PROVE  FALSE
    BY DEF Reported
  <2>1. j > pw.written /\ file[l] = pw.data[j] /\ j \in 1..Len(pw.data)
    BY <1>5, <1>7, <1>10
  <2>2. PICK a \in 1..Len(cq) : cq[a].ud = pw.ud /\ pw.written + cq[a].res >= j
    BY <1>14, <2>1 DEF Fine, Reported
  <2>3. a = 1
    BY <1>2, <1>3, <1>6, <2>2 DEF Sound
  <2> QED BY <1>5, <1>7, <1>10, <2>2, <2>3
<1>16. ASSUME NEW j \in 1..Len(p) PROVE Fine(p[j], buf, cq', file, units)
  <2>1. CASE j = i
    BY <1>10, <1>11, <1>14, <1>15, <2>1 DEF Fine
  <2>2. CASE j # i
    <3>1. j \in 1..Len(pending) /\ p[j] = pending[j]
      BY <1>11, <2>2
    <3>2. pending[j].ud # cq[1].ud
      BY <1>3, <2>2, <3>1 DEF AofInv, Writes, Distinct
    <3>3. Fine(pending[j], buf, cq, file, units)
      BY <3>1 DEF Once
    <3> QED BY <1>2, <3>1, <3>2, <3>3, ReportedSeen DEF Fine
  <2> QED BY <2>1, <2>2
<1>17. ASSUME NEW a \in 1..Len(p), NEW b \in 1..Len(p), a # b
       PROVE  Apart(p[a].data, p[b].data)
  BY <1>11, <1>12, <1>17 DEF Once
<1> QED BY <1>0, <1>9, <1>11, <1>13, <1>16, <1>17 DEF Once

(* The kernel executes a request, whole or in part: none of its units was in *)
(* the file, and the completion reports those that are now.                  *)
LEMMA OnceWrites ==
    ASSUME AofInv, Once, NEW i, NEW k, KernelWrite(i, k)
    PROVE  Once'
<1>0. /\ i \in DOMAIN inflight /\ k \in 1..Len(inflight[i].data)
      /\ cq' = Append(cq, [ud |-> inflight[i].ud, res |-> k])
      /\ inflight' = RemoveAt(inflight, i)
      /\ UNCHANGED <<sq, pending, buf, units>>
  BY DEF KernelWrite, writerVars, histVars
<1>1. /\ inflight \in Seq(Sqe) /\ file \in Seq(Nat) /\ cq \in Seq(Cqe)
      /\ Len(pending) \in Nat /\ Len(file) \in Nat /\ Len(inflight) \in Nat
      /\ Len(cq) \in Nat /\ units \in Nat
  BY OnceTyped DEF AofInv, Typed
<1>2. i \in 1..Len(inflight) /\ inflight[i] \in Sqe
  BY <1>0, <1>1
<1>3. PICK e \in Sqe : e = inflight[i]
  BY <1>2
<1>4. /\ e.data \in Seq(Nat) /\ e.ud \in Nat /\ Len(e.data) \in Nat
      /\ k \in Nat /\ k > 0 /\ k <= Len(e.data)
  <2>1. PICK d \in Seq(Units) : d = e.data
    BY DEF Sqe
  <2>2. MaxUnits \in Nat
    BY OnceTyped
  <2>3. d \in Seq(Nat) /\ Len(d) \in Nat
    BY <2>2 DEF Units
  <2>4. e.ud \in Nat
    BY DEF Sqe
  <2>5. k \in 1..Len(d)
    BY <1>0, <1>3, <2>1
  <2> QED BY <2>1, <2>3, <2>4, <2>5
<1>5. PICK o \in 1..Len(pending) : pending[o].ud = e.ud
  BY <1>2, <1>3 DEF Once, Owned
<1>6. PICK pw \in Pw : pw = pending[o]
  BY <1>5, OnceTyped
<1>7. pw.written \in Nat /\ Len(pw.data) \in Nat
  BY DEF Pw
<1>8. /\ IsRest(e.data, pw) /\ \A a \in 1..Len(cq) : cq[a].ud # e.ud
      /\ Fine(pw, buf, cq, file, units)
  <2>1. Sound(pw, sq, inflight, cq, file)
    BY <1>5, <1>6 DEF AofInv, Writes
  <2>2. IsRest(e.data, pw) /\ \A a \in 1..Len(cq) : cq[a].ud # e.ud
    BY <1>2, <1>3, <1>5, <1>6, <2>1 DEF Sound
  <2> QED BY <1>5, <1>6, <2>2 DEF Once
<1>9. PICK g \in Seq(Nat) :
         file' = file \o g /\ Len(g) = k /\ \A j \in 1..k : g[j] = e.data[j]
  <2>1. PICK d \in Contents(e) : file' = file \o SubSeq(d, 1, k)
    BY <1>3 DEF KernelWrite
  <2>2. d = e.data
    <3>1. o \in FindPending(e.ud)
      BY <1>5, OnceTyped DEF FindPending
    <3> QED BY <2>1, <3>1 DEF Contents
  <2>3. \A j \in 1..k : e.data[j] \in Nat
    BY <1>4
  <2>4. /\ SubSeq(e.data, 1, k) \in Seq(Nat)
        /\ Len(SubSeq(e.data, 1, k)) = IF 1 <= k THEN k - 1 + 1 ELSE 0
        /\ \A j \in 1..(k - 1 + 1) : SubSeq(e.data, 1, k)[j] = e.data[1 + j - 1]
    BY <1>4, <2>3, SubSeqProperties
  <2>5. PICK g \in Seq(Nat) :
           /\ g = SubSeq(e.data, 1, k)
           /\ Len(g) = IF 1 <= k THEN k - 1 + 1 ELSE 0
           /\ \A j \in 1..(k - 1 + 1) : g[j] = e.data[1 + j - 1]
    BY <2>4, Zenon
  <2>6. Len(g) = k
    BY <1>4, <2>5
  <2>7. ASSUME NEW j \in 1..k PROVE g[j] = e.data[j]
    <3>1. j \in 1..(k - 1 + 1) /\ 1 + j - 1 = j
      BY <1>4
    <3> QED BY <2>5, <3>1
  <2> QED BY <2>1, <2>2, <2>5, <2>6, <2>7
<1>10. PICK z \in Seq(Nat) :
          /\ file' = z /\ Len(z) = Len(file) + k
          /\ \A j \in 1..(Len(file) + k) : z[j] = IF j <= Len(file) THEN file[j] ELSE g[j - Len(file)]
  <2>1. /\ file \o g \in Seq(Nat) /\ Len(file \o g) = Len(file) + Len(g)
        /\ \A j \in 1..(Len(file) + Len(g)) :
              (file \o g)[j] = IF j <= Len(file) THEN file[j] ELSE g[j - Len(file)]
    BY <1>1, ConcatProperties
  <2> QED BY <1>9, <2>1, Zenon
<1>11. ASSUME NEW l \in 1..k
       PROVE  /\ pw.written + l \in 1..Len(pw.data) /\ pw.written + l > pw.written
              /\ g[l] = pw.data[pw.written + l]
  <2>1. l \in 1..Len(e.data) /\ Len(e.data) = Len(pw.data) - pw.written
    BY <1>4, <1>8 DEF IsRest
  <2>2. g[l] = pw.data[pw.written + l]
    BY <1>8, <1>9, <2>1 DEF IsRest
  <2> QED BY <1>7, <2>1, <2>2, SMTT(40)
<1>12. ASSUME NEW l \in 1..k, NEW j \in 1..Len(file) PROVE file[j] # g[l]
  <2> SUFFICES ASSUME file[j] = g[l] PROVE FALSE
    OBVIOUS
  <2>1. \E a \in 1..Len(cq) : cq[a].ud = pw.ud
    BY <1>8, <1>11 DEF Fine, Reported
  <2> QED BY <1>5, <1>6, <1>8, <2>1
<1>13. ASSUME NEW j \in 1..Len(z)
       PROVE  \/ j \in 1..Len(file) /\ z[j] = file[j]
              \/ j - Len(file) \in 1..k /\ z[j] = g[j - Len(file)]
  <2>1. CASE j <= Len(file)
    <3>1. j \in 1..Len(file) /\ j \in 1..(Len(file) + k)
      BY <1>1, <1>4, <1>10, <2>1
    <3> QED BY <1>10, <2>1, <3>1
  <2>2. CASE ~(j <= Len(file))
    <3>1. j - Len(file) \in 1..k /\ j \in 1..(Len(file) + k)
      BY <1>1, <1>4, <1>10, <2>2
    <3> QED BY <1>10, <2>2, <3>1
  <2> QED BY <2>1, <2>2
<1>14. NoRepeat(z)
  <2> SUFFICES ASSUME NEW a \in 1..Len(z), NEW b \in 1..Len(z), z[a] = z[b] PROVE a = b
    BY DEF NoRepeat
  <2>1. CASE a \in 1..Len(file) /\ z[a] = file[a] /\ b \in 1..Len(file) /\ z[b] = file[b]
    BY <2>1 DEF Once, NoRepeat
  <2>2. CASE /\ a - Len(file) \in 1..k /\ z[a] = g[a - Len(file)]
             /\ b - Len(file) \in 1..k /\ z[b] = g[b - Len(file)]
    <3>1. /\ pw.written + (a - Len(file)) \in 1..Len(pw.data)
          /\ pw.written + (b - Len(file)) \in 1..Len(pw.data)
          /\ pw.data[pw.written + (a - Len(file))] = pw.data[pw.written + (b - Len(file))]
      BY <1>11, <2>2
    <3>2. pw.written + (a - Len(file)) = pw.written + (b - Len(file))
      BY <1>8, <3>1 DEF Fine, NoRepeat
    <3>3. PICK n \in Nat : n = Len(file)
      BY <1>1
    <3>4. PICK wr \in Nat : wr = pw.written
      BY <1>7
    <3>5. PICK aa \in Nat : aa = a
      OBVIOUS
    <3>6. PICK bb \in Nat : bb = b
      OBVIOUS
    <3>7. wr + (aa - n) = wr + (bb - n)
      BY <3>2, <3>3, <3>4, <3>5, <3>6, Zenon
    <3>8. aa = bb
      BY <3>7
    <3> QED BY <3>5, <3>6, <3>8
  <2>3. CASE /\ a \in 1..Len(file) /\ z[a] = file[a]
             /\ b - Len(file) \in 1..k /\ z[b] = g[b - Len(file)]
    BY <1>12, <2>3
  <2>4. CASE /\ b \in 1..Len(file) /\ z[b] = file[b]
             /\ a - Len(file) \in 1..k /\ z[a] = g[a - Len(file)]
    BY <1>12, <2>4
  <2> QED BY <1>13, <2>1, <2>2, <2>3, <2>4
<1>15. Within(z, units) /\ Apart(buf, z)
  <2>1. ASSUME NEW j \in 1..Len(z)
        PROVE  z[j] > 0 /\ z[j] <= units /\ \A b \in 1..Len(buf) : buf[b] # z[j]
    <3>1. CASE j \in 1..Len(file) /\ z[j] = file[j]
      BY <3>1 DEF Once, Within, Apart
    <3>2. CASE j - Len(file) \in 1..k /\ z[j] = g[j - Len(file)]
      BY <1>8, <1>11, <3>2 DEF Fine, Within, Apart
    <3> QED BY <1>13, <3>1, <3>2
  <2> QED BY <2>1 DEF Within, Apart
<1>16. PICK x \in Cqe : /\ x = [ud |-> e.ud, res |-> k] /\ x.ud = e.ud /\ x.res = k
  <2>1. [ud |-> e.ud, res |-> k] \in Cqe
    BY <1>4 DEF Cqe
  <2> QED BY <2>1
<1>17. PICK c \in Seq(Cqe) : cq' = c /\ Grown(cq, c, x)
  <2>1. cq' = Append(cq, x)
    BY <1>0, <1>3, <1>16
  <2> QED BY <1>1, <2>1, AppendIs, Zenon
<1>18. ASSUME NEW a \in 1..Len(pending) PROVE Fine(pending[a], buf, c, z, units)
  <2>1. Fine(pending[a], buf, cq, file, units)
    BY DEF Once
  <2>2. Reported(pending[a], c, file)
    BY <1>1, <1>17, <2>1, ReportedMore DEF Fine
  <2>3. Reported(pending[a], c, z)
    <3> SUFFICES ASSUME NEW j \in 1..Len(pending[a].data), NEW l \in 1..Len(z),
                        j > pending[a].written, z[l] = pending[a].data[j]
                 PROVE  \E b \in 1..Len(c) : /\ c[b].ud = pending[a].ud
                                             /\ pending[a].written + c[b].res >= j
      BY DEF Reported
    <3>1. CASE l \in 1..Len(file) /\ z[l] = file[l]
      BY <2>2, <3>1 DEF Reported
    <3>2. CASE l - Len(file) \in 1..k /\ z[l] = g[l - Len(file)]
      <4>1. PICK m \in 1..k : m = l - Len(file)
        BY <3>2
      <4>2. /\ pw.written + m \in 1..Len(pw.data)
            /\ z[l] = pw.data[pw.written + m]
        BY <1>11, <3>2, <4>1
      <4>3. a = o
        BY <1>5, <1>6, <4>2 DEF Once, Apart
      <4>4. j = pw.written + m
        BY <1>6, <1>8, <4>2, <4>3 DEF Fine, NoRepeat
      <4>5. Len(cq) + 1 \in 1..Len(c) /\ c[Len(cq) + 1] = x
        BY <1>1, <1>17 DEF Grown
      <4>6. pending[a].written + x.res >= j
        BY <1>4, <1>6, <1>7, <1>16, <4>3, <4>4, SMTT(40)
      <4> QED BY <1>5, <1>16, <4>3, <4>5, <4>6
    <3> QED BY <1>13, <3>1, <3>2
  <2> QED BY <2>1, <2>3 DEF Fine
<1>19. Owned(inflight', pending)
  <2>1. PICK f \in Seq(Sqe) : inflight' = f /\ Cut(inflight, f, i)
    BY <1>0, <1>1, <1>2, RemoveAtIs, Zenon
  <2>2. Owned(f, pending)
    BY <1>1, <1>2, <2>1, OwnedCut DEF Once
  <2> QED BY <2>1, <2>2
<1> QED BY <1>0, <1>10, <1>14, <1>15, <1>17, <1>18, <1>19 DEF Once

(* The kernel fails a request: nothing more is in the file.                  *)
LEMMA OnceErrors ==
    ASSUME AofInv, Once, NEW i, KernelError(i)
    PROVE  Once'
<1>0. /\ i \in DOMAIN inflight
      /\ cq' = Append(cq, [ud |-> inflight[i].ud, res |-> -1])
      /\ inflight' = RemoveAt(inflight, i)
      /\ UNCHANGED <<sq, pending, buf, file, units>>
  BY DEF KernelError, writerVars
<1>1. /\ inflight \in Seq(Sqe) /\ cq \in Seq(Cqe) /\ Len(inflight) \in Nat
      /\ Len(cq) \in Nat
  BY OnceTyped DEF AofInv, Typed
<1>2. i \in 1..Len(inflight) /\ inflight[i] \in Sqe
  BY <1>0, <1>1
<1>3. PICK x \in Cqe : x = [ud |-> inflight[i].ud, res |-> -1]
  <2>1. inflight[i].ud \in Nat /\ -1 \in Int
    BY <1>2 DEF Sqe
  <2>2. [ud |-> inflight[i].ud, res |-> -1] \in Cqe
    BY <2>1 DEF Cqe
  <2> QED BY <2>2, Zenon
<1>4. PICK c \in Seq(Cqe) : cq' = c /\ Grown(cq, c, x)
  BY <1>0, <1>1, <1>3, AppendIs, Zenon
<1>5. ASSUME NEW a \in 1..Len(pending) PROVE Fine(pending[a], buf, c, file, units)
  <2>1. Fine(pending[a], buf, cq, file, units)
    BY DEF Once
  <2> QED BY <1>1, <1>4, <2>1, ReportedMore DEF Fine
<1>6. Owned(inflight', pending)
  <2>1. PICK f \in Seq(Sqe) : inflight' = f /\ Cut(inflight, f, i)
    BY <1>0, <1>1, <1>2, RemoveAtIs, Zenon
  <2>2. Owned(f, pending)
    BY <1>1, <1>2, <2>1, OwnedCut DEF Once
  <2> QED BY <2>1, <2>2
<1> QED BY <1>0, <1>4, <1>5, <1>6 DEF Once

LEMMA OnceInit ==
    ASSUME Init
    PROVE  Once
<1>1. Len(<<>>) = 0
  OBVIOUS
<1> QED BY <1>1 DEF Init, Once, Owned, NoRepeat, Within, Apart

OnceInv == submit_fails = 0 => Once

LEMMA OnceStep ==
    ASSUME AofInv, OnceInv, [Next]_vars
    PROVE  OnceInv'
<1>0. submit_fails \in Nat
  BY DEF AofInv, Typed
<1>1. CASE SubmitFails \/ PeekShortFails
  <2>1. submit_fails' = submit_fails + 1
    BY <1>1 DEF SubmitFails, PeekShortFails
  <2>2. submit_fails' # 0
    BY <1>0, <2>1
  <2> QED BY <2>2 DEF OnceInv
<1>2. CASE ~(SubmitFails \/ PeekShortFails)
  <2> SUFFICES ASSUME submit_fails' = 0 PROVE Once'
    BY SMTT(40) DEF OnceInv
  <2>1. submit_fails' = submit_fails
    BY <1>2 DEF Next, vars, Enqueue, Flush, Stop, Poll, Wake, Step, DoAppend,
         DoPiece, Ack, FlushBuffer, Submit, Sync, FlushReturns, PollDue, PollSync,
         Close, Peek, PeekUnknown, PeekError, PeekShort, PeekComplete, PeekDone,
         SyncFails, WaitFails, Kernel, KernelWrite, KernelError, FlushDue,
         SyncDue, histVars
  <2>2. Once
    BY <2>1 DEF OnceInv
  <2>3. CASE \/ \E size \in Sizes : Enqueue(size)
             \/ Flush \/ Stop \/ Poll \/ Wake \/ FlushDue \/ SyncDue
    <3>1. UNCHANGED <<file, sq, inflight, pending, cq, buf, units>>
      BY <2>3 DEF Enqueue, Flush, Stop, Poll, Wake, FlushDue, SyncDue,
                  writerVars, ringVars, histVars
    <3> QED BY <2>2, <3>1, OnceSame
  <2>4. CASE \/ Ack \/ FlushBuffer \/ Sync \/ FlushReturns \/ PollDue \/ PollSync
             \/ PeekDone \/ SyncFails \/ WaitFails \/ UNCHANGED vars
    <3>1. UNCHANGED <<file, sq, inflight, pending, cq, buf, units>>
      BY <2>4 DEF Ack, FlushBuffer, Sync, FlushReturns, PollDue, PollSync,
                  PeekDone, SyncFails, WaitFails, vars, writerVars, ringVars, histVars
    <3> QED BY <2>2, <3>1, OnceSame
  <2>5. CASE DoAppend \/ DoPiece \/ Submit \/ Close
    BY <2>2, <2>5, OnceLoads, OnceSubmits, OnceCloses
  <2>6. CASE PeekError \/ PeekComplete
    <3>1. /\ cq # <<>> /\ cq' = Tail(cq)
          /\ UNCHANGED <<file, sq, inflight, buf, units>>
      BY <2>6 DEF PeekError, PeekComplete, histVars
    <3>2. PICK i \in FindPending(Head(cq).ud) : pending' = RemoveAt(pending, i)
      BY <2>6 DEF PeekError, PeekComplete
    <3> QED BY <2>2, <3>1, <3>2, OnceTakes
  <2>7. CASE PeekUnknown \/ PeekShort
    BY <2>2, <2>7, OnceUnknown, OnceShort
  <2>8. CASE Kernel \/ \E i \in 1..MaxUnits : KernelError(i)
    BY <2>2, <2>8, OnceWrites, OnceErrors DEF Kernel
  <2> QED BY <1>2, <2>3, <2>4, <2>5, <2>6, <2>7, <2>8 DEF Next, Step, Peek
<1> QED BY <1>1, <1>2

(* No unit is in the file twice and nothing else is, unless an               *)
(* io_uring_submit failed: for every size of the buffer and the queues and   *)
(* every order of the kernel, what a short write left is submitted again     *)
(* once, and only what it left.                                              *)
THEOREM WrittenOnce == Spec => []NoUnitTwice
<1>1. Init => OnceInv
  BY OnceInit DEF OnceInv
<1>2. AofInv /\ OnceInv /\ [Next]_vars => OnceInv'
  BY OnceStep
<1>3. AofInv /\ OnceInv => NoUnitTwice
  <2> SUFFICES ASSUME AofInv, Once
               PROVE  IsInjective(file) /\ Garbage \notin ToSet(file)
    BY DEF OnceInv, NoUnitTwice
  <2>1. file \in Seq(Nat) /\ DOMAIN file = 1..Len(file)
    BY OnceTyped
  <2>2. IsInjective(file)
    BY <2>1 DEF IsInjective, Once, NoRepeat
  <2>3. ASSUME NEW u \in ToSet(file) PROVE u > 0
    <3>1. PICK j \in 1..Len(file) : file[j] = u
      BY <2>1, InToSet
    <3> QED BY <3>1 DEF Once, Within
  <2> QED BY <2>2, <2>3 DEF Garbage
<1> QED BY <1>1, <1>2, <1>3, AofInvariant, PTL DEF Spec

=============================================================================
