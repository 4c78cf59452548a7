------------------------- MODULE SemanticCacheProofs -------------------------
(***************************************************************************)
(* For every set of keys, every limit on the entries and every width of an *)
(* id: the four structures of the semantic cache agree, a replica that     *)
(* replays the log agrees with the cache, and the cache implements the     *)
(* exact LRU cache of LruCache, provided that the server is not restarted  *)
(* once its ids are used up.                                               *)
(***************************************************************************)
EXTENDS SemanticCache, FiniteSetTheorems, TLAPS

-----------------------------------------------------------------------------
(* Lists without some of their elements.                                     *)

LEMMA SetInduction ==
    ASSUME NEW G, 0 \in G, \A n \in Nat : n \in G => n + 1 \in G
    PROVE  Nat \subseteq G
<1> DEFINE B == Nat \ G
<1> SUFFICES ASSUME B # {} PROVE FALSE
  OBVIOUS
<1>1. PICK n \in B : \A m \in B : ~(<<m, n>> \in OpToRel(<, Nat))
  BY NatLessThanWellFounded, WFMin
<1>2. n \in Nat /\ n # 0
  OBVIOUS
<1>3. n - 1 \in Nat /\ n - 1 < n /\ (n - 1) + 1 = n
  BY <1>2
<1>4. n - 1 \notin B
  BY <1>1, <1>2, <1>3 DEF OpToRel
<1> QED BY <1>3, <1>4

LEMMA SeqIs ==
    ASSUME NEW S, NEW x \in Seq(S), NEW m \in Nat, Len(x) = m
    PROVE  x = [j \in 1..m |-> x[j]]
OBVIOUS

(* f[i] is the beginning of s of length i without the elements of T.         *)
OneMore(f, s, T, i) == IF i = 0 THEN <<>>
                       ELSE IF s[i] \in T THEN f[i - 1]
                       ELSE Append(f[i - 1], s[i])

FilterOf(f, s, T) ==
    /\ f[0] = <<>>
    /\ \A i \in 1..Len(s) : f[i] = IF s[i] \in T THEN f[i - 1]
                                   ELSE Append(f[i - 1], s[i])

Filters(f, s, T, n) == f = [i \in 0..n |-> OneMore(f, s, T, i)]

LEMMA FilterExists ==
    ASSUME NEW S, NEW s \in Seq(S), NEW T
    PROVE  \E f : FilterOf(f, s, T) /\ Without(s, T) = f[Len(s)]
<1> DEFINE G == {n \in Nat : \E f : Filters(f, s, T, n)}
<1>1. 0 \in G
  <2> DEFINE f == [i \in 0..0 |-> <<>>]
  <2>1. \A i \in 0..0 : OneMore(f, s, T, i) = <<>>
    BY DEF OneMore
  <2> HIDE DEF OneMore
  <2>2. Filters(f, s, T, 0)
    BY <2>1 DEF Filters
  <2> QED BY <2>2
<1>2. ASSUME NEW n \in Nat, n \in G PROVE n + 1 \in G
  <2>1. PICK f : Filters(f, s, T, n)
    BY <1>2
  <2> DEFINE g == [i \in 0..(n + 1) |-> IF i = n + 1 THEN OneMore(f, s, T, n + 1)
                                        ELSE f[i]]
  <2>a. \A i \in 0..n : f[i] = OneMore(f, s, T, i)
    BY <2>1 DEF Filters
  <2>b. \A i \in 0..n : g[i] = f[i]
    <3>1. \A i \in 0..n : i \in 0..(n + 1) /\ i # n + 1
      OBVIOUS
    <3> QED BY <3>1
  <2>2. \A i \in 0..n : g[i] = f[i] /\ f[i] = OneMore(f, s, T, i)
    BY <2>a, <2>b
  <2>3. g[n + 1] = OneMore(f, s, T, n + 1)
    OBVIOUS
  <2> HIDE DEF g
  <2>4. ASSUME NEW i \in 0..(n + 1) PROVE OneMore(g, s, T, i) = OneMore(f, s, T, i)
    <3>1. i = 0 \/ i - 1 \in 0..n
      OBVIOUS
    <3>2. i = 0 \/ g[i - 1] = f[i - 1]
      BY <2>2, <3>1
    <3> QED BY <3>2 DEF OneMore
  <2>5. ASSUME NEW i \in 0..(n + 1) PROVE g[i] = OneMore(g, s, T, i)
    <3>1. i = n + 1 \/ i \in 0..n
      OBVIOUS
    <3> QED BY <2>2, <2>3, <2>4, <3>1
  <2>6. g = [i \in 0..(n + 1) |-> g[i]]
    BY DEF g
  <2>7. Filters(g, s, T, n + 1)
    BY <2>5, <2>6 DEF Filters
  <2> QED BY <2>7
<1> HIDE DEF G
<1>3. Len(s) \in G
  BY <1>1, <1>2, SetInduction
<1>4. \E f : Filters(f, s, T, Len(s))
  BY <1>3 DEF G
<1> DEFINE f == CHOOSE f : Filters(f, s, T, Len(s))
<1>5. Without(s, T) = f[Len(s)]
  BY DEF Without, Filters, OneMore
<1>6. Filters(f, s, T, Len(s))
  BY <1>4
<1> HIDE DEF f
<1>7. \A i \in 0..Len(s) : f[i] = OneMore(f, s, T, i)
  BY <1>6 DEF Filters
<1>8. f[0] = <<>>
  BY <1>7 DEF OneMore
<1>9. ASSUME NEW i \in 1..Len(s)
      PROVE  f[i] = IF s[i] \in T THEN f[i - 1] ELSE Append(f[i - 1], s[i])
  <2>1. i \in 0..Len(s) /\ i # 0
    OBVIOUS
  <2>2. f[i] = OneMore(f, s, T, i)
    BY <1>7, <2>1
  <2> QED BY <2>1, <2>2 DEF OneMore
<1>10. FilterOf(f, s, T)
  BY <1>8, <1>9 DEF FilterOf
<1> QED BY <1>5, <1>10

(* e enumerates, in increasing order, the positions in 1..n whose element in *)
(* s is not in T.                                                            *)
Picks(e, m, n, s, T) ==
    /\ e \in [1..m -> 1..n]
    /\ \A i, j \in 1..m : i < j => e[i] < e[j]
    /\ \A i \in 1..n : s[i] \notin T <=> \E j \in 1..m : e[j] = i

Sub(s, e, m) == [j \in 1..m |-> s[e[j]]]

DropAlike(s, T, t, V) ==
    /\ Len(s) = Len(t)
    /\ \A i \in 1..Len(s) : s[i] \in T <=> t[i] \in V

PicksBoth(e, m, s, T, t, V) == /\ Picks(e, m, Len(s), s, T)
                               /\ Without(s, T) = Sub(s, e, m)
                               /\ Without(t, V) = Sub(t, e, m)

(* Without picks a subsequence, and picks the same one from two lists whose  *)
(* elements are dropped at the same positions.                               *)
LEMMA WithoutPicks ==
    ASSUME NEW S, NEW s \in Seq(S), NEW T,
           NEW U, NEW t \in Seq(U), NEW V, DropAlike(s, T, t, V)
    PROVE  \E m \in Nat : \E e : PicksBoth(e, m, s, T, t, V)
<1> DEFINE N == Len(s)
<1>0. N \in Nat /\ Len(t) = N /\ \A i \in 1..N : s[i] \in T <=> t[i] \in V
  BY DEF DropAlike
<1>a. PICK f : FilterOf(f, s, T) /\ Without(s, T) = f[Len(s)]
  BY FilterExists
<1>b. PICK g : FilterOf(g, t, V) /\ Without(t, V) = g[Len(t)]
  BY FilterExists
<1>1. /\ Without(s, T) = f[N] /\ f[0] = <<>>
      /\ \A i \in 1..N : f[i] = IF s[i] \in T THEN f[i - 1]
                                ELSE Append(f[i - 1], s[i])
  BY <1>a DEF FilterOf
<1>2. /\ Without(t, V) = g[N] /\ g[0] = <<>>
      /\ \A i \in 1..N : g[i] = IF t[i] \in V THEN g[i - 1]
                                ELSE Append(g[i - 1], t[i])
  BY <1>0, <1>b DEF FilterOf
<1> DEFINE Q(n, m, e) == /\ Picks(e, m, n, s, T)
                        /\ f[n] = [j \in 1..m |-> s[e[j]]]
                        /\ g[n] = [j \in 1..m |-> t[e[j]]]
           P(n) == \E m \in Nat : \E e : Q(n, m, e)
           G == {n \in Nat : n <= N => P(n)}
<1> HIDE DEF P
<1>5. 0 \in G
  <2> DEFINE e == [j \in 1..0 |-> 0]
  <2>1. Picks(e, 0, 0, s, T)
    BY DEF Picks
  <2>2. f[0] = [j \in 1..0 |-> s[e[j]]] /\ g[0] = [j \in 1..0 |-> t[e[j]]]
    BY <1>1, <1>2
  <2> HIDE DEF e
  <2>3. P(0)
    BY <2>1, <2>2 DEF P
  <2> QED BY <2>3
<1>6. ASSUME NEW n \in Nat, n \in G PROVE n + 1 \in G
  <2> SUFFICES ASSUME n + 1 <= N PROVE P(n + 1)
    BY DEF G
  <2>a. P(n)
    BY <1>0, <1>6 DEF G
  <2>m. PICK m \in Nat : \E e : Q(n, m, e)
    BY <2>a DEF P
  <2>1. PICK e : Q(n, m, e)
    BY <2>m
  <2>2. n + 1 \in 1..N /\ (n + 1) - 1 = n
    BY <1>0
  <2>3. CASE s[n + 1] \in T
    <3>1. f[n + 1] = f[n] /\ g[n + 1] = g[n]
      BY <1>0, <1>1, <1>2, <2>2, <2>3
    <3>2. Picks(e, m, n + 1, s, T)
      <4>1. e \in [1..m -> 1..(n + 1)]
        BY <2>1 DEF Picks
      <4>2. ASSUME NEW i \in 1..(n + 1)
            PROVE  s[i] \notin T <=> \E j \in 1..m : e[j] = i
        <5>1. CASE i \in 1..n
          BY <2>1, <5>1 DEF Picks
        <5>2. CASE i = n + 1
          BY <2>1, <2>3, <5>2 DEF Picks
        <5> QED BY <5>1, <5>2
      <4> QED BY <2>1, <4>1, <4>2 DEF Picks
    <3> QED BY <2>1, <3>1, <3>2 DEF P
  <2>4. CASE s[n + 1] \notin T
    <3> DEFINE d == [j \in 1..(m + 1) |-> IF j <= m THEN e[j] ELSE n + 1]
    <3>1. f[n + 1] = Append(f[n], s[n + 1]) /\ g[n + 1] = Append(g[n], t[n + 1])
      BY <1>0, <1>1, <1>2, <2>2, <2>4
    <3>2. f[n + 1] = [j \in 1..(m + 1) |-> s[d[j]]]
      <4>1. f[n] \in Seq(S) /\ Len(f[n]) = m
        <5>1. \A j \in 1..m : s[e[j]] \in S
          BY <1>0, <2>1, <2>2 DEF Picks
        <5> QED BY <2>1, <5>1
      <4>2. s[n + 1] \in S
        BY <2>2
      <4>3. /\ f[n + 1] \in Seq(S) /\ Len(f[n + 1]) = m + 1
            /\ f[n + 1][m + 1] = s[n + 1]
            /\ \A j \in 1..m : f[n + 1][j] = s[e[j]]
        BY <2>1, <3>1, <4>1, <4>2
      <4>4. \A j \in 1..(m + 1) : f[n + 1][j] = s[d[j]]
        BY <4>3
      <4> HIDE DEF d
      <4>5. f[n + 1] = [j \in 1..(m + 1) |-> f[n + 1][j]]
        <5>1. m + 1 \in Nat
          OBVIOUS
        <5>2. \A x \in Seq(S) : Len(x) = m + 1 => x = [j \in 1..(m + 1) |-> x[j]]
          BY <5>1, SeqIs
        <5> QED BY <4>3, <5>2
      <4> QED BY <4>4, <4>5
    <3>3. g[n + 1] = [j \in 1..(m + 1) |-> t[d[j]]]
      <4>1. g[n] \in Seq(U) /\ Len(g[n]) = m
        <5>1. \A j \in 1..m : t[e[j]] \in U
          BY <1>0, <2>1, <2>2 DEF Picks
        <5> QED BY <2>1, <5>1
      <4>2. t[n + 1] \in U
        BY <1>0, <2>2
      <4>3. /\ g[n + 1] \in Seq(U) /\ Len(g[n + 1]) = m + 1
            /\ g[n + 1][m + 1] = t[n + 1]
            /\ \A j \in 1..m : g[n + 1][j] = t[e[j]]
        BY <2>1, <3>1, <4>1, <4>2
      <4>4. \A j \in 1..(m + 1) : g[n + 1][j] = t[d[j]]
        BY <4>3
      <4> HIDE DEF d
      <4>5. g[n + 1] = [j \in 1..(m + 1) |-> g[n + 1][j]]
        <5>1. m + 1 \in Nat
          OBVIOUS
        <5>2. \A x \in Seq(U) : Len(x) = m + 1 => x = [j \in 1..(m + 1) |-> x[j]]
          BY <5>1, SeqIs
        <5> QED BY <4>3, <5>2
      <4> QED BY <4>4, <4>5
    <3>4. Picks(d, m + 1, n + 1, s, T)
      <4>1. d \in [1..(m + 1) -> 1..(n + 1)]
        BY <2>1 DEF Picks
      <4>2. \A i, j \in 1..(m + 1) : i < j => d[i] < d[j]
        BY <2>1 DEF Picks
      <4>3. ASSUME NEW i \in 1..(n + 1)
            PROVE  s[i] \notin T <=> \E j \in 1..(m + 1) : d[j] = i
        <5>1. CASE i \in 1..n
          <6>1. s[i] \notin T <=> \E j \in 1..m : e[j] = i
            BY <2>1, <5>1 DEF Picks
          <6>2. (\E j \in 1..m : e[j] = i) <=> (\E j \in 1..(m + 1) : d[j] = i)
            <7>1. \A j \in 1..m : j \in 1..(m + 1) /\ d[j] = e[j]
              OBVIOUS
            <7>2. \A j \in 1..(m + 1) : j \in 1..m \/ d[j] = n + 1
              OBVIOUS
            <7> HIDE DEF d
            <7> QED BY <5>1, <7>1, <7>2
          <6> QED BY <6>1, <6>2
        <5>2. CASE i = n + 1
          <6>1. m + 1 \in 1..(m + 1) /\ d[m + 1] = i
            BY <5>2
          <6> HIDE DEF d
          <6> QED BY <2>4, <5>2, <6>1
        <5> QED BY <5>1, <5>2
      <4> HIDE DEF d
      <4> QED BY <4>1, <4>2, <4>3 DEF Picks
    <3> HIDE DEF d
    <3> QED BY <3>2, <3>3, <3>4 DEF P
  <2> QED BY <2>3, <2>4
<1> HIDE DEF G
<1>7. N \in G
  BY <1>0, <1>5, <1>6, SetInduction
<1>8. P(N)
  BY <1>0, <1>7 DEF G
<1>m. PICK m \in Nat : \E e : Q(N, m, e)
  BY <1>8 DEF P
<1>9. PICK e : Q(N, m, e)
  BY <1>m
<1>10. f[N] = Sub(s, e, m) /\ g[N] = Sub(t, e, m)
  BY <1>9 DEF Sub
<1> QED BY <1>1, <1>2, <1>9, <1>10 DEF PicksBoth

(* What Without returns: the elements not in T, once each if they were so    *)
(* before.                                                                   *)
LEMMA WithoutIs ==
    ASSUME NEW S, NEW s \in Seq(S), NEW T
    PROVE  /\ Without(s, T) \in Seq(S)
           /\ ToSet(Without(s, T)) = ToSet(s) \ T
           /\ IsInjective(s) => IsInjective(Without(s, T))
<1>0. DropAlike(s, T, s, T)
  BY DEF DropAlike
<1>m. PICK m \in Nat : \E e : PicksBoth(e, m, s, T, s, T)
  BY <1>0, WithoutPicks
<1>1. PICK e : PicksBoth(e, m, s, T, s, T)
  BY <1>m
<1>a. Without(s, T) = [j \in 1..m |-> s[e[j]]]
  BY <1>1 DEF PicksBoth, Sub
<1>2. Len(s) \in Nat /\ DOMAIN s = 1..Len(s) /\ \A i \in 1..Len(s) : s[i] \in S
  OBVIOUS
<1>3. e \in [1..m -> 1..Len(s)]
  BY <1>1 DEF PicksBoth, Picks
<1>4. Without(s, T) \in Seq(S)
  BY <1>a, <1>2, <1>3
<1>5. ToSet(Without(s, T)) = ToSet(s) \ T
  <2>1. DOMAIN Without(s, T) = 1..m
    BY <1>a
  <2>2. ASSUME NEW x \in ToSet(Without(s, T)) PROVE x \in ToSet(s) \ T
    <3>1. PICK j \in 1..m : x = s[e[j]]
      BY <1>a, <2>1 DEF ToSet
    <3>2. e[j] \in 1..Len(s)
      BY <1>3
    <3>3. s[e[j]] \notin T
      BY <1>1, <3>2 DEF PicksBoth, Picks
    <3> QED BY <1>2, <3>1, <3>2, <3>3 DEF ToSet
  <2>3. ASSUME NEW x \in ToSet(s), x \notin T PROVE x \in ToSet(Without(s, T))
    <3>1. PICK i \in 1..Len(s) : x = s[i]
      BY <1>2 DEF ToSet
    <3>2. PICK j \in 1..m : e[j] = i
      BY <1>1, <2>3, <3>1 DEF PicksBoth, Picks
    <3>3. Without(s, T)[j] = x
      BY <1>a, <3>1, <3>2
    <3> QED BY <2>1, <3>3 DEF ToSet
  <2> QED BY <2>2, <2>3
<1>6. ASSUME IsInjective(s) PROVE IsInjective(Without(s, T))
  <2> SUFFICES ASSUME NEW i \in 1..m, NEW j \in 1..m, s[e[i]] = s[e[j]]
               PROVE  i = j
    BY <1>a DEF IsInjective
  <2>1. e[i] \in 1..Len(s) /\ e[j] \in 1..Len(s)
    BY <1>3
  <2>2. e[i] = e[j]
    BY <1>2, <1>6, <2>1 DEF IsInjective
  <2>3. ~(i < j) /\ ~(j < i)
    BY <1>1, <2>1, <2>2 DEF PicksBoth, Picks
  <2> QED BY <2>3
<1> QED BY <1>4, <1>5, <1>6

(* Two lists that lose elements at the same positions stay in step.          *)
LEMMA WithoutInStep ==
    ASSUME NEW S, NEW s \in Seq(S), NEW T,
           NEW U, NEW t \in Seq(U), NEW V, Len(s) = Len(t),
           \A i \in 1..Len(s) : s[i] \in T <=> t[i] \in V
    PROVE  /\ Len(Without(s, T)) = Len(Without(t, V))
           /\ \A j \in 1..Len(Without(s, T)) : \E i \in 1..Len(s) :
                 Without(s, T)[j] = s[i] /\ Without(t, V)[j] = t[i]
<1>0. DropAlike(s, T, t, V)
  BY DEF DropAlike
<1>m. PICK m \in Nat : \E e : PicksBoth(e, m, s, T, t, V)
  BY <1>0, WithoutPicks
<1>1. PICK e : PicksBoth(e, m, s, T, t, V)
  BY <1>m
<1>a. /\ Without(s, T) = [j \in 1..m |-> s[e[j]]]
      /\ Without(t, V) = [j \in 1..m |-> t[e[j]]]
  BY <1>1 DEF PicksBoth, Sub
<1>2. e \in [1..m -> 1..Len(s)]
  BY <1>1 DEF PicksBoth, Picks
<1>3. Len(Without(s, T)) = m /\ Len(Without(t, V)) = m
  BY <1>a
<1>4. \A j \in 1..m : /\ e[j] \in 1..Len(s) /\ Without(s, T)[j] = s[e[j]]
                      /\ Without(t, V)[j] = t[e[j]]
  BY <1>a, <1>2
<1> QED BY <1>3, <1>4

LEMMA WithoutSame ==
    ASSUME NEW S, NEW s \in Seq(S), NEW T, NEW V,
           \A i \in 1..Len(s) : s[i] \in T <=> s[i] \in V
    PROVE  Without(s, T) = Without(s, V)
<1>0. DropAlike(s, T, s, V)
  BY DEF DropAlike
<1>m. PICK m \in Nat : \E e : PicksBoth(e, m, s, T, s, V)
  BY <1>0, WithoutPicks
<1>1. PICK e : PicksBoth(e, m, s, T, s, V)
  BY <1>m
<1> QED BY <1>1 DEF PicksBoth

(* What is left when the first n elements go.                                *)
LEMMA WithoutFirst ==
    ASSUME NEW S, NEW s \in Seq(S), NEW T, NEW n \in 0..Len(s),
           \A i \in 1..Len(s) : s[i] \in T <=> i <= n
    PROVE  Without(s, T) = SubSeq(s, n + 1, Len(s))
<1> DEFINE N == Len(s)
<1>0. N \in Nat /\ n \in Nat /\ n <= N
  OBVIOUS
<1>b. DropAlike(s, T, s, T)
  BY DEF DropAlike
<1>m. PICK m \in Nat : \E e : PicksBoth(e, m, s, T, s, T)
  BY <1>b, WithoutPicks
<1>1. PICK e : PicksBoth(e, m, s, T, s, T)
  BY <1>m
<1>a. Without(s, T) = [j \in 1..m |-> s[e[j]]]
  BY <1>1 DEF PicksBoth, Sub
<1> HIDE DEF N
<1>2. /\ e \in [1..m -> 1..N]
      /\ \A i, j \in 1..m : i < j => e[i] < e[j]
      /\ \A i \in 1..N : i > n <=> \E j \in 1..m : e[j] = i
  <2>1. \A i \in 1..N : s[i] \notin T <=> i > n
    BY <1>0 DEF N
  <2> QED BY <1>1, <2>1 DEF PicksBoth, Picks, N
<1>3. \A j \in 1..m : e[j] \in Nat /\ e[j] <= N /\ e[j] > n
  BY <1>0, <1>2
<1> DEFINE G == {j \in Nat : j \in 1..m => e[j] = n + j}
<1>4. 0 \in G
  OBVIOUS
<1>5. ASSUME NEW j \in Nat, j \in G PROVE j + 1 \in G
  <2> SUFFICES ASSUME j + 1 \in 1..m PROVE e[j + 1] = n + (j + 1)
    OBVIOUS
  <2>1. e[j + 1] \in Nat /\ e[j + 1] <= N /\ e[j + 1] > n
    BY <1>3
  <2>2. e[j + 1] >= n + j + 1
    <3>1. CASE j = 0
      BY <1>0, <2>1, <3>1
    <3>2. CASE j # 0
      <4>1. j \in 1..m /\ j < j + 1
        BY <3>2
      <4>2. e[j] = n + j /\ e[j] < e[j + 1]
        BY <1>2, <1>5, <4>1
      <4> QED BY <1>0, <2>1, <4>2
    <3> QED BY <3>1, <3>2
  <2>3. ASSUME e[j + 1] > n + j + 1 PROVE FALSE
    <3>1. n + j + 1 \in 1..N /\ n + j + 1 > n
      BY <1>0, <2>1, <2>3
    <3>2. PICK l \in 1..m : e[l] = n + j + 1
      BY <1>2, <3>1
    <3>3. CASE l = j + 1
      BY <1>0, <2>3, <3>2, <3>3
    <3>4. CASE l > j + 1
      <4>1. e[j + 1] < e[l]
        BY <1>2, <3>4
      <4> QED BY <1>0, <2>1, <2>3, <3>2, <4>1
    <3>5. CASE l < j + 1
      <4>1. j \in 1..m /\ (l = j \/ l < j)
        BY <3>5
      <4>2. e[j] = n + j
        BY <1>5, <4>1
      <4>3. l = j \/ e[l] < e[j]
        BY <1>2, <4>1
      <4> QED BY <1>0, <3>2, <4>2, <4>3
    <3> QED BY <3>3, <3>4, <3>5
  <2> QED BY <1>0, <2>1, <2>2, <2>3
<1> HIDE DEF G
<1>6. Nat \subseteq G
  BY <1>4, <1>5, SetInduction
<1>7. \A j \in 1..m : e[j] = n + j
  BY <1>6 DEF G
<1>8. m = N - n
  <2>1. m <= N - n
    <3>1. CASE m = 0
      BY <1>0, <3>1
    <3>2. CASE m # 0
      <4>1. m \in 1..m
        BY <3>2
      <4>2. e[m] <= N /\ e[m] = n + m
        BY <1>3, <1>7, <4>1
      <4> QED BY <1>0, <4>2
    <3> QED BY <3>1, <3>2
  <2>2. m >= N - n
    <3>1. CASE n = N
      BY <1>0, <3>1
    <3>2. CASE n < N
      <4>1. N \in 1..N /\ N > n
        BY <1>0, <3>2
      <4>2. PICK l \in 1..m : e[l] = N
        BY <1>2, <4>1
      <4> QED BY <1>0, <1>7, <4>2
    <3> QED BY <1>0, <3>1, <3>2
  <2> QED BY <1>0, <2>1, <2>2
<1>9. Without(s, T) = [j \in 1..(N - n) |-> s[n + j]]
  BY <1>a, <1>7, <1>8
<1>10. /\ SubSeq(s, n + 1, N) \in Seq(S) /\ Len(SubSeq(s, n + 1, N)) = N - n
       /\ \A j \in 1..(N - n) : SubSeq(s, n + 1, N)[j] = s[n + j]
  BY <1>0 DEF N
<1>11. SubSeq(s, n + 1, N) = [j \in 1..(N - n) |-> s[n + j]]
  <2>1. N - n \in Nat
    BY <1>0
  <2>2. \A x \in Seq(S) : Len(x) = N - n => x = [j \in 1..(N - n) |-> x[j]]
    BY <2>1, SeqIs
  <2> QED BY <1>10, <2>2
<1> QED BY <1>9, <1>11 DEF N

LEMMA WithoutNone ==
    ASSUME NEW S, NEW s \in Seq(S), NEW T,
           \A i \in 1..Len(s) : s[i] \notin T
    PROVE  Without(s, T) = s
<1>0. 0 \in 0..Len(s) /\ \A i \in 1..Len(s) : s[i] \in T <=> i <= 0
  OBVIOUS
<1>1. Without(s, T) = SubSeq(s, 0 + 1, Len(s))
  BY <1>0, WithoutFirst
<1> QED BY <1>1

(* Push puts its element last, and does not duplicate it.                    *)
LEMMA PushIs ==
    ASSUME NEW S, NEW s \in Seq(S), NEW x \in S
    PROVE  /\ Push(s, x) \in Seq(S)
           /\ ToSet(Push(s, x)) = ToSet(s) \cup {x}
           /\ IsInjective(s) => IsInjective(Push(s, x))
<1> DEFINE r == Without(s, {x})
<1>1. /\ r \in Seq(S) /\ ToSet(r) = ToSet(s) \ {x}
      /\ IsInjective(s) => IsInjective(r)
  BY WithoutIs
<1>2. Push(s, x) = Append(r, x)
  BY DEF Push, Erase
<1> HIDE DEF r
<1>3. /\ Append(r, x) \in Seq(S) /\ DOMAIN Append(r, x) = 1..(Len(r) + 1)
      /\ Append(r, x)[Len(r) + 1] = x /\ Len(r) \in Nat /\ DOMAIN r = 1..Len(r)
      /\ \A i \in 1..Len(r) : Append(r, x)[i] = r[i]
  BY <1>1
<1>4. ToSet(Append(r, x)) = ToSet(r) \cup {x}
  BY <1>3 DEF ToSet
<1>5. ASSUME IsInjective(s) PROVE IsInjective(Append(r, x))
  <2>1. IsInjective(r) /\ \A i \in 1..Len(r) : r[i] # x
    BY <1>1, <1>3, <1>5 DEF ToSet
  <2> QED BY <1>3, <2>1 DEF IsInjective
<1> QED BY <1>1, <1>2, <1>3, <1>4, <1>5
-----------------------------------------------------------------------------
(* The four structures.  Consistent is not inductive: a new node must get an *)
(* id that no node has (Fresh), and the refinement needs to know that the    *)
(* order of the ids is the order in which clients used their keys (InStep).  *)

Agree(b, u, l, x) ==
    /\ b \in [Ids -> Nodes \cup {NoNode}] /\ u \in [Keys -> Ids \cup {0}]
    /\ l \in Seq(Ids) /\ x \in [Ids -> 0..MaxWrites]
    /\ \A k \in Keys : u[k] # 0 => b[u[k]] # NoNode /\ b[u[k]].key = k
    /\ \A i \in Ids : b[i] # NoNode => u[b[i].key] = i /\ x[i] = b[i].ver
    /\ IsInjective(l) /\ ToSet(l) = {i \in Ids : b[i] # NoNode}

InStepOf(b, l, q) ==
    /\ l \in Seq(Ids) /\ q \in Seq(Keys) /\ Len(q) = Len(l)
    /\ \A i \in 1..Len(l) : q[i] = b[l[i]].key

InStep == InStepOf(by_id, lru, used)

Fresh == /\ next_id \in Ids \cup {0}
         /\ next_id # 0 => \A i \in Live : i < next_id

Rest == /\ dim \in Dims \cup {0} /\ replica \in [Keys -> 0..MaxWrites]
        /\ viewed => views
        /\ halted => views
        /\ {views, viewed, halted} \subseteq BOOLEAN
        /\ writes \in 0..MaxWrites /\ unlogged \subseteq Keys

CacheInv == /\ Agree(by_id, by_user_key, lru, index)
            /\ InStep /\ Fresh /\ Rest /\ ReplicaAgrees

LiveIn(b) == {i \in Ids : b[i] # NoNode}

LEMMA IdsAre == /\ 2^IdBits \in Nat /\ 2^IdBits > 1
                /\ Ids \subseteq Nat /\ 0 \notin Ids
                /\ \A i \in Ids : i > 0 /\ i < 2^IdBits
BY SemanticCacheAssumption DEF Ids

(* A node is not NoNode, and has its fields.                                 *)
LEMMA NodeIs ==
    ASSUME NEW n \in Nodes \cup {NoNode}, n # NoNode
    PROVE  n \in Nodes /\ n.key \in Keys /\ n.ver \in 1..MaxWrites
BY DEF Nodes

(* Two nodes of the order have different keys.                               *)
LEMMA OneNodePerKey ==
    ASSUME NEW b, NEW u, NEW l, NEW x, Agree(b, u, l, x)
    PROVE  /\ DOMAIN l = 1..Len(l) /\ Len(l) \in Nat
           /\ \A i \in 1..Len(l) : /\ l[i] \in Ids /\ b[l[i]] # NoNode
                                   /\ b[l[i]] \in Nodes
                                   /\ b[l[i]].key \in Keys
                                   /\ u[b[l[i]].key] = l[i]
<1>1. l \in Seq(Ids) /\ DOMAIN l = 1..Len(l) /\ Len(l) \in Nat
  BY DEF Agree
<1>2. \A i \in 1..Len(l) : l[i] \in ToSet(l) /\ l[i] \in Ids
  BY <1>1 DEF ToSet
<1>3. \A i \in 1..Len(l) : b[l[i]] # NoNode
  BY <1>2 DEF Agree
<1>4. \A i \in 1..Len(l) : b[l[i]] \in Nodes /\ b[l[i]].key \in Keys
  BY <1>2, <1>3, NodeIs DEF Agree
<1>5. \A i \in 1..Len(l) : u[b[l[i]].key] = l[i]
  BY <1>2, <1>3 DEF Agree
<1> QED BY <1>1, <1>2, <1>3, <1>4, <1>5

SameOff(c, b, I) == \A i \in Ids \ I : c[i] = b[i]

Cleared(b, I) == [i \in Ids |-> IF i \in I THEN NoNode ELSE b[i]]

Zeroed(u, K) == [k \in Keys |-> IF k \in K THEN 0 ELSE u[k]]

(* I are the ids of the keys K.                                              *)
Match(b, u, I, K) ==
    /\ I \subseteq Ids /\ K \subseteq Keys
    /\ \A k \in K : u[k] = 0 \/ u[k] \in I
    /\ \A i \in I : b[i] # NoNode => b[i].key \in K

(* Taking nodes out of all four keeps them in agreement, whatever usearch    *)
(* fails to remove.                                                          *)
LEMMA TakeOutAgrees ==
    ASSUME NEW b, NEW u, NEW l, NEW x, Agree(b, u, l, x),
           NEW I, NEW K, Match(b, u, I, K),
           NEW y \in [Ids -> 0..MaxWrites], SameOff(y, x, I)
    PROVE  Agree(Cleared(b, I), Zeroed(u, K), Without(l, I), y)
<1> DEFINE c == Cleared(b, I)
           v == Zeroed(u, K)
           m == Without(l, I)
<1> USE DEF Cleared, Zeroed, Match, SameOff
<1>1. c \in [Ids -> Nodes \cup {NoNode}] /\ v \in [Keys -> Ids \cup {0}]
  BY DEF Agree
<1>2. /\ m \in Seq(Ids) /\ ToSet(m) = ToSet(l) \ I /\ IsInjective(m)
  BY WithoutIs DEF Agree
<1>3. ToSet(m) = {i \in Ids : c[i] # NoNode}
  BY <1>2 DEF Agree
<1>4. ASSUME NEW k \in Keys, v[k] # 0
      PROVE  c[v[k]] # NoNode /\ c[v[k]].key = k
  <2>1. k \notin K /\ v[k] = u[k] /\ u[k] # 0
    BY <1>4
  <2>2. u[k] \in Ids /\ b[u[k]] # NoNode /\ b[u[k]].key = k
    BY <2>1 DEF Agree
  <2>3. u[k] \notin I
    BY <2>1, <2>2
  <2> QED BY <2>1, <2>2, <2>3
<1>5. ASSUME NEW i \in Ids, c[i] # NoNode
      PROVE  v[c[i].key] = i /\ y[i] = c[i].ver
  <2>1. i \notin I /\ c[i] = b[i] /\ b[i] # NoNode
    BY <1>5
  <2>2. u[b[i].key] = i /\ x[i] = b[i].ver /\ b[i].key \in Keys
    BY <2>1, NodeIs DEF Agree
  <2>3. i # 0
    BY IdsAre
  <2>4. b[i].key \notin K
    BY <2>1, <2>2, <2>3
  <2> QED BY <2>1, <2>2, <2>4
<1> HIDE DEF c, v, m
<1>6. Agree(c, v, m, y)
  BY <1>1, <1>2, <1>3, <1>4, <1>5 DEF Agree
<1> QED BY <1>6 DEF c, v, m

(* Storing a node under its own id, or under an id without a node, keeps     *)
(* them in agreement.                                                        *)
LEMMA StoreAgrees ==
    ASSUME NEW b, NEW u, NEW l, NEW x, Agree(b, u, l, x),
           NEW k \in Keys, NEW id \in Ids, NEW w \in 1..MaxWrites,
           u[k] = id \/ (u[k] = 0 /\ b[id] = NoNode)
    PROVE  Agree([b EXCEPT ![id] = [key |-> k, ver |-> w]],
                 [u EXCEPT ![k] = id], Push(l, id), [x EXCEPT ![id] = w])
<1> DEFINE c == [b EXCEPT ![id] = [key |-> k, ver |-> w]]
           v == [u EXCEPT ![k] = id]
           m == Push(l, id)
           y == [x EXCEPT ![id] = w]
<1>0. /\ b \in [Ids -> Nodes \cup {NoNode}] /\ u \in [Keys -> Ids \cup {0}]
      /\ l \in Seq(Ids) /\ x \in [Ids -> 0..MaxWrites]
  BY DEF Agree
<1>1. [key |-> k, ver |-> w] \in Nodes /\ [key |-> k, ver |-> w] # NoNode
  BY SemanticCacheAssumption DEF Nodes
<1>2. /\ c \in [Ids -> Nodes \cup {NoNode}] /\ c[id] = [key |-> k, ver |-> w]
      /\ \A i \in Ids : i # id => c[i] = b[i]
  BY <1>0, <1>1
<1>3. /\ v \in [Keys -> Ids \cup {0}] /\ v[k] = id
      /\ \A j \in Keys : j # k => v[j] = u[j]
  BY <1>0
<1>4. /\ y \in [Ids -> 0..MaxWrites] /\ y[id] = w
      /\ \A i \in Ids : i # id => y[i] = x[i]
  BY <1>0, SemanticCacheAssumption
<1>5. m \in Seq(Ids) /\ ToSet(m) = ToSet(l) \cup {id} /\ IsInjective(m)
  BY PushIs DEF Agree
<1> HIDE DEF c, v, m, y
<1>6. ToSet(m) = {i \in Ids : c[i] # NoNode}
  BY <1>1, <1>2, <1>5 DEF Agree
<1>7. ASSUME NEW j \in Keys, v[j] # 0
      PROVE  c[v[j]] # NoNode /\ c[v[j]].key = j
  <2>1. CASE j = k
    BY <1>1, <1>2, <1>3, <2>1
  <2>2. CASE j # k
    <3>1. v[j] = u[j] /\ u[j] # 0 /\ u[j] \in Ids
      BY <1>0, <1>3, <1>7, <2>2
    <3>2. b[u[j]] # NoNode /\ b[u[j]].key = j
      BY <3>1 DEF Agree
    <3>3. u[j] # id
      <4>1. CASE u[k] = id
        <5>1. u[k] # 0
          BY <4>1, IdsAre
        <5>2. b[id].key = k
          BY <4>1, <5>1 DEF Agree
        <5> QED BY <2>2, <3>2, <5>2
      <4>2. CASE b[id] = NoNode
        BY <3>2, <4>2
      <4> QED BY <4>1, <4>2
    <3> QED BY <1>2, <3>1, <3>2, <3>3
  <2> QED BY <2>1, <2>2
<1>8. ASSUME NEW i \in Ids, c[i] # NoNode
      PROVE  v[c[i].key] = i /\ y[i] = c[i].ver
  <2>1. CASE i = id
    BY <1>2, <1>3, <1>4, <2>1
  <2>2. CASE i # id
    <3>1. c[i] = b[i] /\ b[i] # NoNode
      BY <1>2, <1>8, <2>2
    <3>2. u[b[i].key] = i /\ x[i] = b[i].ver /\ b[i].key \in Keys
      BY <1>0, <3>1, NodeIs DEF Agree
    <3>3. b[i].key # k
      BY <2>2, <3>2, IdsAre
    <3> QED BY <1>3, <1>4, <2>2, <3>1, <3>2, <3>3
  <2> QED BY <2>1, <2>2
<1>9. Agree(c, v, m, y)
  BY <1>2, <1>3, <1>4, <1>5, <1>6, <1>7, <1>8 DEF Agree
<1> QED BY <1>9 DEF c, v, m, y

(* The order of the keys follows the order of the ids.                       *)
LEMMA TakeOutInStep ==
    ASSUME NEW b, NEW l, NEW q, InStepOf(b, l, q), NEW I, NEW K, NEW c,
           DropAlike(l, I, q, K), SameOff(c, b, I)
    PROVE  InStepOf(c, Without(l, I), Without(q, K))
<1>0. l \in Seq(Ids) /\ q \in Seq(Keys) /\ Len(q) = Len(l)
  BY DEF InStepOf
<1>1. Without(l, I) \in Seq(Ids) /\ ToSet(Without(l, I)) = ToSet(l) \ I
  BY <1>0, WithoutIs
<1>2. Without(q, K) \in Seq(Keys)
  BY <1>0, WithoutIs
<1>3. /\ Len(Without(l, I)) = Len(Without(q, K))
      /\ \A j \in 1..Len(Without(l, I)) : \E i \in 1..Len(l) :
            Without(l, I)[j] = l[i] /\ Without(q, K)[j] = q[i]
  BY <1>0, WithoutInStep DEF DropAlike
<1>4. ASSUME NEW j \in 1..Len(Without(l, I))
      PROVE  Without(q, K)[j] = c[Without(l, I)[j]].key
  <2>1. PICK i \in 1..Len(l) : Without(l, I)[j] = l[i] /\ Without(q, K)[j] = q[i]
    BY <1>3
  <2>2. Without(l, I)[j] \in ToSet(Without(l, I))
    BY <1>1 DEF ToSet
  <2>3. l[i] \in Ids \ I
    BY <1>0, <1>1, <2>1, <2>2
  <2>4. q[i] = b[l[i]].key
    BY DEF InStepOf
  <2> QED BY <2>1, <2>3, <2>4 DEF SameOff
<1> QED BY <1>1, <1>2, <1>3, <1>4 DEF InStepOf

LEMMA PushInStep ==
    ASSUME NEW b, NEW l, NEW q, InStepOf(b, l, q), NEW id \in Ids, NEW k \in Keys,
           \A i \in 1..Len(l) : l[i] = id <=> q[i] = k,
           NEW c, \A i \in Ids : i # id => c[i] = b[i], c[id].key = k
    PROVE  InStepOf(c, Push(l, id), Push(q, k))
<1> DEFINE I == {id}
           K == {k}
           m == Without(l, I)
           r == Without(q, K)
<1>0. DropAlike(l, I, q, K) /\ SameOff(c, b, I)
  BY DEF DropAlike, SameOff, InStepOf
<1> HIDE DEF I, K
<1>1. InStepOf(c, m, r)
  BY <1>0, TakeOutInStep
<1>2. m \in Seq(Ids) /\ r \in Seq(Keys) /\ Len(m) = Len(r) /\ Len(m) \in Nat
  BY <1>1 DEF InStepOf
<1>3. Push(l, id) = Append(m, id) /\ Push(q, k) = Append(r, k)
  BY DEF Push, Erase, I, K
<1> HIDE DEF m, r
<1>4. /\ Append(m, id) \in Seq(Ids) /\ Append(r, k) \in Seq(Keys)
      /\ Len(Append(m, id)) = Len(m) + 1 /\ Len(Append(r, k)) = Len(m) + 1
  BY <1>2
<1>5. ASSUME NEW j \in 1..(Len(m) + 1) PROVE Append(r, k)[j] = c[Append(m, id)[j]].key
  <2>1. CASE j \in 1..Len(m)
    BY <1>1, <1>2, <2>1 DEF InStepOf
  <2>2. CASE j = Len(m) + 1
    BY <1>2, <2>2
  <2> QED BY <1>2, <2>1, <2>2
<1> QED BY <1>3, <1>4, <1>5 DEF InStepOf
-----------------------------------------------------------------------------
(* The state of the cache.                                                   *)

LEMMA LiveIs == CacheInv => Live = LiveIn(by_id) /\ ToSet(lru) = Live
BY DEF CacheInv, Agree, Live, LiveIn

LEMMA HasIs ==
    ASSUME CacheInv, NEW k \in Keys
    PROVE  /\ Has(k) <=> by_user_key[k] # 0
           /\ Val[k] = IF by_user_key[k] # 0 THEN by_id[by_user_key[k]].ver ELSE 0
<1>1. by_user_key[k] # 0 => by_id[by_user_key[k]] # NoNode
  BY DEF CacheInv, Agree
<1>2. Has(k) <=> by_user_key[k] # 0
  BY <1>1 DEF Has
<1> QED BY <1>2 DEF Val

(* The order holds as many ids as there are nodes.                           *)
LEMMA CountLive ==
    ASSUME CacheInv
    PROVE  Cardinality(Live) = Len(lru) /\ Len(lru) \in Nat /\ IsFiniteSet(Live)
<1>1. /\ lru \in Seq(Ids) /\ IsInjective(lru) /\ ToSet(lru) = Live
      /\ DOMAIN lru = 1..Len(lru) /\ Len(lru) \in Nat
  BY LiveIs DEF CacheInv, Agree
<1>2. lru \in [1..Len(lru) -> Live]
  BY <1>1 DEF ToSet
<1>3. \A t \in Live : \E i \in 1..Len(lru) : lru[i] = t
  BY <1>1 DEF ToSet
<1>4. lru \in Bijection(1..Len(lru), Live)
  BY <1>1, <1>2, <1>3 DEF Bijection, Injection, Surjection
<1>5. ExistsBijection(1..Len(lru), Live)
  BY <1>4 DEF ExistsBijection
<1>6. Cardinality(Live) = Len(lru)
  BY <1>1, <1>5, FS_CountingElements
<1>7. IsFiniteSet(Live)
  BY <1>1, <1>5, FS_NatBijection
<1> QED BY <1>1, <1>6, <1>7

LEMMA OrderIsLru == CacheInv => Order = lru
<1> SUFFICES ASSUME CacheInv PROVE Order = lru
  OBVIOUS
<1>1. lru \in Seq(Ids) /\ ToSet(lru) = Live
  BY LiveIs DEF CacheInv, Agree
<1>2. \A i \in 1..Len(lru) : lru[i] \notin Ids \ Live
  BY <1>1 DEF ToSet
<1> QED BY <1>1, <1>2, WithoutNone DEF Order

(* The eviction loop takes the least recently used keys, one by one.         *)
LEMMA FirstVictimsAre ==
    ASSUME CacheInv, NEW n \in 0..Len(lru)
    PROVE  /\ FirstVictims(n) = {used[i] : i \in 1..n}
           /\ FirstVictims(n) \in SUBSET Keys
           /\ \A j \in FirstVictims(n) : by_user_key[j] # 0
           /\ n > 0 => /\ by_id[Order[n]].key \in Keys
                       /\ FirstVictims(n) = FirstVictims(n - 1)
                                            \cup {by_id[Order[n]].key}
<1>1. \A i \in 1..n : i \in 1..Len(lru)
  BY CountLive
<1>2. \A i \in 1..Len(lru) : by_id[lru[i]].key = used[i]
  BY DEF CacheInv, InStep, InStepOf
<1>3. FirstVictims(n) = {used[i] : i \in 1..n}
  BY <1>1, <1>2, OrderIsLru DEF FirstVictims
<1>4. \A i \in 1..Len(lru) : /\ used[i] \in Keys
                             /\ by_user_key[used[i]] = lru[i] /\ lru[i] \in Ids
  BY <1>2, OneNodePerKey DEF CacheInv
<1>5. \A j \in FirstVictims(n) : j \in Keys /\ by_user_key[j] # 0
  BY <1>1, <1>3, <1>4, IdsAre
<1>6. ASSUME n > 0
      PROVE  /\ by_id[Order[n]].key \in Keys
             /\ FirstVictims(n) = FirstVictims(n - 1) \cup {by_id[Order[n]].key}
  <2>1. /\ n \in Nat /\ n \in 1..n /\ n - 1 \in Nat
        /\ \A i : i \in 1..n <=> (i \in 1..(n - 1) \/ i = n)
    BY <1>6, CountLive
  <2>2. by_id[Order[n]].key \in Keys
    BY <1>1, <1>2, <1>4, <2>1, OrderIsLru
  <2> QED BY <2>1, <2>2 DEF FirstVictims
<1> QED BY <1>3, <1>5, <1>6

(* The victims of VSET k are the least recently used keys, and k is not one  *)
(* of them.                                                                  *)
LEMMA VictimsAre ==
    ASSUME CacheInv, NEW k \in Keys
    PROVE  /\ Excess(k) \in 0..Len(lru)
           /\ Victims(k) = {used[i] : i \in 1..Excess(k)}
           /\ Victims(k) \in SUBSET Keys
           /\ \A j \in Victims(k) : by_user_key[j] # 0
           /\ k \notin Victims(k)
           /\ Excess(k) = 0 => Victims(k) = {}
           /\ Excess(k) # 0 => by_user_key[k] = 0
<1>1. Cardinality(Live) = Len(lru) /\ Len(lru) \in Nat
  BY CountLive
<1>2. Excess(k) \in 0..Len(lru) /\ (Excess(k) # 0 => by_user_key[k] = 0)
  <2>1. CASE MaxEntries = 0 \/ Has(k) \/ Cardinality(Live) < MaxEntries
    BY <1>1, <2>1 DEF Excess
  <2>2. CASE ~(MaxEntries = 0 \/ Has(k) \/ Cardinality(Live) < MaxEntries)
    <3>1. Excess(k) = Len(lru) - MaxEntries + 1
      BY <1>1, <2>2 DEF Excess
    <3>2. by_user_key[k] = 0
      BY <2>2, HasIs
    <3> QED BY <1>1, <2>2, <3>1, <3>2, SemanticCacheAssumption
  <2> QED BY <2>1, <2>2
<1>3. /\ Victims(k) = {used[i] : i \in 1..Excess(k)}
      /\ Victims(k) \in SUBSET Keys
      /\ \A j \in Victims(k) : by_user_key[j] # 0
  BY <1>2, FirstVictimsAre DEF Victims
<1>4. Excess(k) = 0 => Victims(k) = {}
  BY <1>3
<1>5. k \notin Victims(k)
  BY <1>2, <1>3, <1>4
<1> QED BY <1>2, <1>3, <1>4, <1>5

(* Deleting keys that have an entry.                                         *)
LEMMA DeletedAgrees ==
    ASSUME CacheInv, NEW K \in SUBSET Keys, \A k \in K : by_user_key[k] # 0,
           NEW kept
    PROVE  LET s == Deleted(K, kept)
           IN  /\ Agree(s.by_id, s.by_user_key, s.lru, s.index)
               /\ InStepOf(s.by_id, s.lru, Without(used, K))
               /\ s.by_user_key = [k \in Keys |-> IF k \in K THEN 0
                                                  ELSE by_user_key[k]]
               /\ \A i \in Ids : s.by_id[i] = by_id[i] \/ s.by_id[i] = NoNode
               /\ \A k \in Keys \ K :
                     by_user_key[k] # 0 => s.by_id[by_user_key[k]]
                                           = by_id[by_user_key[k]]
<1> DEFINE s == Deleted(K, kept)
           I == IdsOf(K)
<1>0. Agree(by_id, by_user_key, lru, index)
  BY DEF CacheInv
<1>1. s = [by_id |-> [i \in Ids |-> IF i \in I THEN NoNode ELSE by_id[i]],
           by_user_key |-> [k \in Keys |-> IF k \in K THEN 0 ELSE by_user_key[k]],
           lru |-> Without(lru, I),
           index |-> [i \in Ids |-> IF i \in I \ kept THEN 0 ELSE index[i]]]
  BY DEF Deleted
<1>2. I \in SUBSET Ids /\ \A k \in Keys : k \in K => by_user_key[k] \in I
  BY <1>0 DEF IdsOf, Agree
<1>3. \A i \in I : \E k \in K : i = by_user_key[k]
  BY DEF IdsOf
<1> HIDE DEF s, I
<1>4. ASSUME NEW i \in Ids, i \in I, by_id[i] # NoNode PROVE by_id[i].key \in K
  <2>1. PICK k \in K : i = by_user_key[k]
    BY <1>3, <1>4
  <2> QED BY <1>0, <2>1 DEF Agree
<1> DEFINE y == [i \in Ids |-> IF i \in I \ kept THEN 0 ELSE index[i]]
<1>5. y \in [Ids -> 0..MaxWrites] /\ \A i \in Ids \ I : y[i] = index[i]
  BY <1>0, SemanticCacheAssumption DEF Agree
<1> HIDE DEF y
<1>a. Match(by_id, by_user_key, I, K) /\ SameOff(y, index, I)
  BY <1>2, <1>4, <1>5 DEF Match, SameOff
<1>6. Agree(Cleared(by_id, I), Zeroed(by_user_key, K), Without(lru, I), y)
  BY <1>0, <1>a, <1>5, TakeOutAgrees
<1>7. Agree(s.by_id, s.by_user_key, s.lru, s.index)
  BY <1>1, <1>6 DEF y, Cleared, Zeroed
<1>8. /\ s.by_id = [i \in Ids |-> IF i \in I THEN NoNode ELSE by_id[i]]
      /\ s.lru = Without(lru, I)
      /\ s.by_user_key = [k \in Keys |-> IF k \in K THEN 0 ELSE by_user_key[k]]
  BY <1>1
<1>9. \A i \in Ids \ I : s.by_id[i] = by_id[i]
  BY <1>8
<1>10. InStepOf(s.by_id, s.lru, Without(used, K))
  <2>1. ASSUME NEW i \in 1..Len(lru) PROVE lru[i] \in I <=> used[i] \in K
    <3>1. /\ lru[i] \in Ids /\ used[i] = by_id[lru[i]].key /\ used[i] \in Keys
          /\ by_id[lru[i]] # NoNode /\ by_user_key[used[i]] = lru[i]
      BY <1>0, OneNodePerKey DEF CacheInv, InStep, InStepOf
    <3> QED BY <1>2, <1>4, <3>1
  <2>2. InStepOf(by_id, lru, used)
    BY DEF CacheInv, InStep
  <2>3. DropAlike(lru, I, used, K) /\ SameOff(s.by_id, by_id, I)
    BY <1>9, <2>1, <2>2 DEF DropAlike, SameOff, InStepOf
  <2> QED BY <1>8, <2>2, <2>3, TakeOutInStep
<1>11. \A i \in Ids : s.by_id[i] = by_id[i] \/ s.by_id[i] = NoNode
  BY <1>8
<1>12. ASSUME NEW k \in Keys \ K, by_user_key[k] # 0
       PROVE  s.by_id[by_user_key[k]] = by_id[by_user_key[k]]
  <2>1. /\ by_user_key[k] \in Ids /\ by_id[by_user_key[k]] # NoNode
        /\ by_id[by_user_key[k]].key = k
    BY <1>0, <1>12 DEF Agree
  <2>2. by_user_key[k] \notin I
    BY <1>4, <2>1
  <2> QED BY <1>9, <2>1, <2>2
<1> QED BY <1>7, <1>8, <1>10, <1>11, <1>12 DEF s

(* The next id is the successor, or 0 when the ids are used up.              *)
LEMMA NextIdIs ==
    ASSUME NEW m \in Nat, m > 1, NEW a \in 0..m - 1
    PROVE  (a + 1) % m = IF a + 1 = m THEN 0 ELSE a + 1
OBVIOUS

(* The entries, as a client sees them.                                       *)
ValOf(b, u) == [k \in Keys |-> IF u[k] # 0 THEN b[u[k]].ver ELSE 0]

LEMMA ValIs ==
    /\ Agree(by_id, by_user_key, lru, index) => Val = ValOf(by_id, by_user_key)
    /\ Agree(by_id, by_user_key, lru, index)' => Val' = ValOf(by_id', by_user_key')
BY DEF Val, ValOf, Has, Live, Agree

(* What is still in use when the keys K lose their entries.                  *)
LEMMA StillUsedIs ==
    ASSUME CacheInv, NEW K, NEW v,
           \A k \in Keys : by_user_key[k] # 0 => (v[k] = 0 <=> k \in K)
    PROVE  Without(used, {k \in Keys : v[k] = 0}) = Without(used, K)
<1>1. used \in Seq(Keys) /\ Len(used) = Len(lru)
  BY DEF CacheInv, InStep, InStepOf
<1>2. \A i \in 1..Len(used) : used[i] \in Keys /\ by_user_key[used[i]] # 0
  BY <1>1, OneNodePerKey, IdsAre DEF CacheInv, InStep, InStepOf
<1> DEFINE V == {k \in Keys : v[k] = 0}
<1>3. \A i \in 1..Len(used) : used[i] \in V <=> used[i] \in K
  BY <1>2
<1> HIDE DEF V
<1>4. Without(used, V) = Without(used, K)
  BY <1>1, <1>3, WithoutSame
<1> QED BY <1>4 DEF V

(* An id and its key are at the same place of the two orders.                *)
LEMMA SamePlace ==
    ASSUME NEW b, NEW u, NEW l, NEW x, Agree(b, u, l, x),
           NEW q, InStepOf(b, l, q), NEW k \in Keys, NEW id \in Ids,
           u[k] = id \/ (u[k] = 0 /\ b[id] = NoNode)
    PROVE  \A i \in 1..Len(l) : l[i] = id <=> q[i] = k
<1> SUFFICES ASSUME NEW i \in 1..Len(l) PROVE l[i] = id <=> q[i] = k
  OBVIOUS
<1>1. /\ l[i] \in Ids /\ b[l[i]] # NoNode /\ u[b[l[i]].key] = l[i]
      /\ b[l[i]].key \in Keys /\ q[i] = b[l[i]].key
  BY OneNodePerKey DEF InStepOf
<1>2. l[i] # 0 /\ id # 0
  BY <1>1, IdsAre
<1>3. ASSUME l[i] = id PROVE q[i] = k
  BY <1>1, <1>2, <1>3 DEF Agree
<1>4. ASSUME q[i] = k PROVE l[i] = id
  BY <1>1, <1>2, <1>4
<1> QED BY <1>3, <1>4

StepInv == /\ Agree(by_id, by_user_key, lru, index)' /\ InStep' /\ Fresh'

(* VNodeIndex::Del of keys that have an entry, and nothing else.             *)
LEMMA DeleteStep ==
    ASSUME CacheInv, NEW K \in SUBSET Keys, \A k \in K : by_user_key[k] # 0,
           NEW kept, Install(Deleted(K, kept)), used' = StillUsed,
           next_id' = next_id
    PROVE  /\ StepInv
           /\ Val' = Zeroed(Val, K) /\ used' = Without(used, K)
<1> DEFINE s == Deleted(K, kept)
<1>1. /\ by_id' = s.by_id /\ by_user_key' = s.by_user_key
      /\ lru' = s.lru /\ index' = s.index
  BY DEF Install
<1>2. /\ Agree(s.by_id, s.by_user_key, s.lru, s.index)
      /\ InStepOf(s.by_id, s.lru, Without(used, K))
      /\ s.by_user_key = [k \in Keys |-> IF k \in K THEN 0 ELSE by_user_key[k]]
      /\ \A i \in Ids : s.by_id[i] = by_id[i] \/ s.by_id[i] = NoNode
      /\ \A k \in Keys \ K : by_user_key[k] # 0 =>
            s.by_id[by_user_key[k]] = by_id[by_user_key[k]]
  BY DeletedAgrees
<1> HIDE DEF s
<1>3. used' = Without(used, K)
  <2>1. \A k \in Keys : by_user_key[k] # 0 => (by_user_key'[k] = 0 <=> k \in K)
    BY <1>1, <1>2
  <2> QED BY <2>1, StillUsedIs DEF StillUsed
<1>4. Agree(by_id, by_user_key, lru, index)' /\ InStep'
  BY <1>1, <1>2, <1>3 DEF InStep
<1>5. Fresh'
  <2>1. Live' \subseteq Live
    BY <1>1, <1>2 DEF Live
  <2> QED BY <2>1 DEF CacheInv, Fresh
<1>6. Val' = Zeroed(Val, K)
  <2>1. Val = ValOf(by_id, by_user_key) /\ Val' = ValOf(by_id', by_user_key')
    BY <1>4, ValIs DEF CacheInv
  <2>2. \A k \in Keys : by_user_key'[k] = IF k \in K THEN 0 ELSE by_user_key[k]
    BY <1>1, <1>2
  <2>3. \A k \in Keys \ K : by_user_key[k] # 0 =>
            by_id'[by_user_key[k]] = by_id[by_user_key[k]]
    BY <1>1, <1>2
  <2> QED BY <2>1, <2>2, <2>3 DEF ValOf, Zeroed
<1> QED BY <1>3, <1>4, <1>5, <1>6 DEF StepInv

(* The id of a VSET: the key's own, or one that no node has.                 *)
LEMMA PutIdIs ==
    ASSUME CacheInv, NEW k \in Keys, PutId(k) # 0
    PROVE  /\ PutId(k) \in Ids
           /\ \/ by_user_key[k] = PutId(k)
              \/ /\ by_user_key[k] = 0 /\ by_id[PutId(k)] = NoNode
                 /\ PutId(k) = next_id
<1>1. CASE by_user_key[k] # 0
  BY <1>1 DEF PutId, CacheInv, Agree
<1>2. CASE by_user_key[k] = 0
  <2>1. PutId(k) = next_id /\ next_id \in Ids
    BY <1>2 DEF PutId, CacheInv, Fresh
  <2>2. next_id \notin Live
    BY <2>1, IdsAre DEF CacheInv, Fresh
  <2> QED BY <1>2, <2>1, <2>2 DEF Live
<1> QED BY <1>1, <1>2

(* A new id keeps the next one fresh.                                        *)
LEMMA FreshStep ==
    ASSUME CacheInv, NEW k \in Keys, PutId(k) # 0, next_id' = NextId(k),
           Live' \subseteq Live \cup {PutId(k)}
    PROVE  Fresh'
<1>1. CASE by_user_key[k] # 0
  <2>1. next_id' = next_id /\ PutId(k) = by_user_key[k]
    BY <1>1 DEF NextId, PutId
  <2>2. by_user_key[k] \in Live
    BY <1>1 DEF CacheInv, Agree, Live
  <2> QED BY <2>1, <2>2 DEF CacheInv, Fresh
<1>2. CASE by_user_key[k] = 0
  <2>1. /\ next_id' = (next_id + 1) % 2^IdBits /\ PutId(k) = next_id
        /\ next_id \in Ids
    BY <1>2 DEF NextId, PutId, CacheInv, Fresh
  <2> DEFINE m == 2^IdBits
  <2>2. m \in Nat /\ m > 1 /\ next_id \in 0..m - 1
    BY <2>1, IdsAre
  <2>3. next_id' = IF next_id + 1 = m THEN 0 ELSE next_id + 1
    BY <2>1, <2>2, NextIdIs
  <2>4. next_id' \in Ids \cup {0}
    <3>1. Ids = 1..m - 1
      BY DEF Ids
    <3> HIDE DEF m
    <3> QED BY <2>2, <2>3, <3>1
  <2>5. \A i \in Live : i < next_id /\ i \in Nat
    <3>1. next_id # 0 /\ Live \subseteq Nat
      BY <2>1, IdsAre DEF Live
    <3> QED BY <3>1 DEF CacheInv, Fresh
  <2>6. ASSUME next_id' # 0, NEW i \in Live' PROVE i < next_id'
    <3>1. i = next_id \/ i \in Live
      BY <2>1
    <3>2. next_id' = next_id + 1 /\ next_id \in Nat
      BY <2>2, <2>3, <2>6
    <3> QED BY <2>5, <3>1, <3>2
  <2> QED BY <2>4, <2>6 DEF Fresh
<1> QED BY <1>1, <1>2

(* VSET that stores: the victims go, then the entry is the last of all.      *)
LEMMA VsetOkStep ==
    ASSUME CacheInv, NEW k \in Keys, NEW d \in Dims, VsetOk(k, d)
    PROVE  /\ StepInv
           /\ Val' = [Zeroed(Val, Victims(k)) EXCEPT ![k] = writes + 1]
           /\ used' = Push(Without(used, Victims(k)), k)
<1> DEFINE K == Victims(k)
           id == PutId(k)
           w == writes + 1
<1>1. PICK kept :
        /\ by_id' = [Deleted(K, kept).by_id EXCEPT ![id] = [key |-> k, ver |-> w]]
        /\ by_user_key' = [Deleted(K, kept).by_user_key EXCEPT ![k] = id]
        /\ lru' = Push(Deleted(K, kept).lru, id)
        /\ index' = [Deleted(K, kept).index EXCEPT ![id] = w]
  BY DEF VsetOk, Install
<1> DEFINE s == Deleted(K, kept)
<1>2. K \in SUBSET Keys /\ (\A j \in K : by_user_key[j] # 0) /\ k \notin K
  BY VictimsAre
<1>3. id # 0 /\ w \in 1..MaxWrites /\ next_id' = NextId(k) /\ used' = Push(StillUsed, k)
  BY SemanticCacheAssumption DEF VsetOk, CacheInv, Rest
<1>4. /\ id \in Ids
      /\ by_user_key[k] = id \/ (by_user_key[k] = 0 /\ by_id[id] = NoNode)
  BY <1>3, PutIdIs
<1>5. /\ Agree(s.by_id, s.by_user_key, s.lru, s.index)
      /\ InStepOf(s.by_id, s.lru, Without(used, K))
      /\ s.by_user_key = [j \in Keys |-> IF j \in K THEN 0 ELSE by_user_key[j]]
      /\ \A i \in Ids : s.by_id[i] = by_id[i] \/ s.by_id[i] = NoNode
      /\ \A j \in Keys \ K : by_user_key[j] # 0 =>
            s.by_id[by_user_key[j]] = by_id[by_user_key[j]]
  BY <1>2, DeletedAgrees
<1> HIDE DEF s, K, id, w
<1>a. /\ by_id' = [s.by_id EXCEPT ![id] = [key |-> k, ver |-> w]]
      /\ by_user_key' = [s.by_user_key EXCEPT ![k] = id]
      /\ lru' = Push(s.lru, id)
      /\ index' = [s.index EXCEPT ![id] = w]
  BY <1>1 DEF s
<1>b. /\ s.by_id \in [Ids -> Nodes \cup {NoNode}]
      /\ s.by_user_key \in [Keys -> Ids \cup {0}]
  BY <1>5 DEF Agree
<1>6. s.by_user_key[k] = by_user_key[k]
  BY <1>2, <1>5
<1>7. s.by_user_key[k] = id \/ (s.by_user_key[k] = 0 /\ s.by_id[id] = NoNode)
  BY <1>4, <1>5, <1>6
<1>8. Agree(by_id, by_user_key, lru, index)'
  BY <1>3, <1>4, <1>5, <1>7, <1>a, StoreAgrees
<1>9. \A j \in Keys : by_user_key'[j] = IF j = k THEN id ELSE IF j \in K THEN 0
                                        ELSE by_user_key[j]
  BY <1>5, <1>a, <1>b
<1>10. used' = Push(Without(used, K), k)
  <2>1. \A j \in Keys : by_user_key[j] # 0 => (by_user_key'[j] = 0 <=> j \in K)
    BY <1>2, <1>3, <1>9
  <2> QED BY <1>3, <2>1, StillUsedIs DEF StillUsed
<1>11. by_id'[id].key = k /\ \A i \in Ids : i # id => by_id'[i] = s.by_id[i]
  BY <1>4, <1>a, <1>b
<1>12. InStep'
  <2>1. \A i \in 1..Len(s.lru) : s.lru[i] = id <=> Without(used, K)[i] = k
    BY <1>4, <1>5, <1>7, SamePlace
  <2>2. InStepOf(by_id', Push(s.lru, id), Push(Without(used, K), k))
    BY <1>4, <1>5, <1>11, <2>1, PushInStep
  <2> QED BY <1>10, <1>a, <2>2 DEF InStep
<1>13. Fresh'
  <2>1. Live' \subseteq Live \cup {id}
    BY <1>5, <1>11 DEF Live
  <2> QED BY <1>3, <2>1, FreshStep DEF id
<1>14. Val' = [Zeroed(Val, K) EXCEPT ![k] = w]
  <2>1. Val = ValOf(by_id, by_user_key) /\ Val' = ValOf(by_id', by_user_key')
    BY <1>8, ValIs DEF CacheInv
  <2>2. by_id'[id].ver = w
    BY <1>4, <1>a, <1>b
  <2>3. ASSUME NEW j \in Keys, j # k, j \notin K, by_user_key[j] # 0
        PROVE  by_id'[by_user_key[j]] = by_id[by_user_key[j]]
    <3>1. by_user_key[j] \in Ids /\ by_id[by_user_key[j]] # NoNode
          /\ by_id[by_user_key[j]].key = j
      BY <2>3 DEF CacheInv, Agree
    <3>2. by_user_key[j] # id
      <4>1. CASE by_user_key[k] = id
        <5>1. by_user_key[k] # 0
          BY <1>3, <4>1
        <5>2. by_id[id].key = k
          BY <4>1, <5>1 DEF CacheInv, Agree
        <5> QED BY <2>3, <3>1, <5>2
      <4>2. CASE by_id[id] = NoNode
        BY <3>1, <4>2
      <4> QED BY <1>4, <4>1, <4>2
    <3> QED BY <1>5, <1>11, <2>3, <3>1, <3>2
  <2>4. Zeroed(Val, K) \in [Keys -> {Zeroed(Val, K)[j] : j \in Keys}]
    BY DEF Zeroed
  <2>5. ASSUME NEW j \in Keys
        PROVE  Val'[j] = IF j = k THEN w ELSE IF j \in K THEN 0 ELSE Val[j]
    BY <1>3, <1>9, <2>1, <2>2, <2>3 DEF ValOf
  <2> QED BY <2>1, <2>5 DEF ValOf, Zeroed
<1> QED BY <1>8, <1>10, <1>12, <1>13, <1>14 DEF StepInv, K, w

(* Taking out the victims of VSET k, then k.                                 *)
LEMMA WithoutVictims ==
    ASSUME CacheInv, NEW k \in Keys
    PROVE  Without(used, Victims(k) \cup {k})
           = Without(Without(used, Victims(k)), {k})
<1> DEFINE K == Victims(k)
<1>1. used \in Seq(Keys) /\ Len(used) = Len(lru)
  BY DEF CacheInv, InStep, InStepOf
<1>2. CASE Excess(k) = 0
  <2>1. K = {}
    BY <1>2, VictimsAre
  <2> HIDE DEF K
  <2>2. Without(used, K) = used
    BY <1>1, <2>1, WithoutNone
  <2> QED BY <2>1, <2>2 DEF K
<1>3. CASE Excess(k) # 0
  <2>1. by_user_key[k] = 0
    BY <1>3, VictimsAre
  <2>2. \A i \in 1..Len(used) : by_user_key[used[i]] # 0
    BY <1>1, OneNodePerKey, IdsAre DEF CacheInv, InStep, InStepOf
  <2>3. \A i \in 1..Len(used) : used[i] # k
    BY <2>1, <2>2
  <2> DEFINE V == K \cup {k}
             W == {k}
  <2> HIDE DEF K
  <2>4. \A i \in 1..Len(used) : used[i] \in V <=> used[i] \in K
    BY <2>3
  <2>a. W = {k}
    OBVIOUS
  <2> HIDE DEF V, W
  <2>5. Without(used, V) = Without(used, K)
    BY <1>1, <2>4, WithoutSame
  <2> DEFINE r == Without(used, K)
  <2>6. r \in Seq(Keys) /\ ToSet(r) = ToSet(used) \ K
    BY <1>1, WithoutIs
  <2> HIDE DEF r
  <2>7. \A i \in 1..Len(r) : r[i] \in ToSet(r)
    BY <2>6 DEF ToSet
  <2>b. \A x \in ToSet(used) : x # k
    BY <1>1, <2>3 DEF ToSet
  <2>8. \A i \in 1..Len(r) : r[i] # k
    BY <2>6, <2>7, <2>b
  <2>9. Without(r, W) = r
    BY <2>6, <2>8, <2>a, WithoutNone
  <2> QED BY <2>5, <2>9 DEF r, V, W, K
<1> QED BY <1>2, <1>3

(* VSET that usearch refuses: the victims and the key itself go.             *)
LEMMA VsetAddFailsStep ==
    ASSUME CacheInv, NEW k \in Keys, NEW d \in Dims, VsetAddFails(k, d)
    PROVE  /\ StepInv
           /\ Val' = Zeroed(Val, Victims(k) \cup {k})
           /\ used' = Without(Without(used, Victims(k)), {k})
<1> DEFINE K == Victims(k)
           id == PutId(k)
           I == {id}
           J == {k}
<1>0. PICK kept \in RemoveFailures(K), old \in BOOLEAN :
        Install([by_id |-> [Deleted(K, kept).by_id EXCEPT ![id] = NoNode],
                 by_user_key |-> [Deleted(K, kept).by_user_key EXCEPT ![k] = 0],
                 lru   |-> Erase(Deleted(K, kept).lru, id),
                 index |-> IF old THEN Deleted(K, kept).index
                           ELSE [Deleted(K, kept).index EXCEPT ![id] = 0]])
  BY Zenon DEF VsetAddFails
<1>1. /\ by_id' = [Deleted(K, kept).by_id EXCEPT ![id] = NoNode]
      /\ by_user_key' = [Deleted(K, kept).by_user_key EXCEPT ![k] = 0]
      /\ lru' = Erase(Deleted(K, kept).lru, id)
      /\ index' = IF old THEN Deleted(K, kept).index
                  ELSE [Deleted(K, kept).index EXCEPT ![id] = 0]
  BY <1>0 DEF Install
<1> DEFINE s == Deleted(K, kept)
<1>2. K \in SUBSET Keys /\ (\A j \in K : by_user_key[j] # 0) /\ k \notin K
  BY VictimsAre
<1>3. id # 0 /\ next_id' = NextId(k) /\ used' = StillUsed
  BY DEF VsetAddFails
<1>4. /\ id \in Ids
      /\ by_user_key[k] = id \/ (by_user_key[k] = 0 /\ by_id[id] = NoNode)
  BY <1>3, PutIdIs
<1>5. /\ Agree(s.by_id, s.by_user_key, s.lru, s.index)
      /\ InStepOf(s.by_id, s.lru, Without(used, K))
      /\ s.by_user_key = [j \in Keys |-> IF j \in K THEN 0 ELSE by_user_key[j]]
      /\ \A i \in Ids : s.by_id[i] = by_id[i] \/ s.by_id[i] = NoNode
      /\ \A j \in Keys \ K : by_user_key[j] # 0 =>
            s.by_id[by_user_key[j]] = by_id[by_user_key[j]]
  BY <1>2, DeletedAgrees
<1> HIDE DEF s, K, id
<1>b. /\ s.by_id \in [Ids -> Nodes \cup {NoNode}]
      /\ s.by_user_key \in [Keys -> Ids \cup {0}]
      /\ s.index \in [Ids -> 0..MaxWrites]
  BY <1>5 DEF Agree
<1>6. s.by_user_key[k] = by_user_key[k]
  BY <1>2, <1>5
<1>7. s.by_user_key[k] = id \/ (s.by_user_key[k] = 0 /\ s.by_id[id] = NoNode)
  BY <1>4, <1>5, <1>6
<1>c. /\ by_id' = Cleared(s.by_id, I) /\ by_user_key' = Zeroed(s.by_user_key, J)
      /\ lru' = Without(s.lru, I)
  BY <1>1, <1>4, <1>b DEF s, Cleared, Zeroed, Erase
<1>d. /\ index' \in [Ids -> 0..MaxWrites] /\ SameOff(index', s.index, I)
  <2>1. index' = s.index \/ index' = [s.index EXCEPT ![id] = 0]
    BY <1>1 DEF s
  <2> QED BY <1>4, <1>b, <2>1, SemanticCacheAssumption DEF SameOff
<1>e. Match(s.by_id, s.by_user_key, I, J)
  <2>1. CASE s.by_user_key[k] = id
    <3>1. s.by_id[id].key = k
      BY <1>3, <1>5, <2>1 DEF Agree
    <3> QED BY <1>4, <2>1, <3>1 DEF Match
  <2>2. CASE s.by_user_key[k] = 0 /\ s.by_id[id] = NoNode
    BY <1>4, <2>2 DEF Match
  <2> QED BY <1>7, <2>1, <2>2
<1>f. \A i \in Ids : i \in I <=> i = id
  OBVIOUS
<1>g. \A j \in Keys : j \in J <=> j = k
  OBVIOUS
<1> HIDE DEF I, J
<1>8. Agree(by_id, by_user_key, lru, index)'
  <2>1. Agree(Cleared(s.by_id, I), Zeroed(s.by_user_key, J), Without(s.lru, I), index')
    BY <1>5, <1>d, <1>e, TakeOutAgrees
  <2> QED BY <1>c, <2>1
<1>9. \A j \in Keys : by_user_key'[j] = IF j \in K \cup J THEN 0
                                        ELSE by_user_key[j]
  BY <1>5, <1>c DEF Zeroed
<1>10. used' = Without(Without(used, K), J)
  <2> DEFINE V == K \cup J
  <2>1. \A j \in Keys : by_user_key[j] # 0 => (by_user_key'[j] = 0 <=> j \in V)
    BY <1>9
  <2> HIDE DEF V
  <2>2. StillUsed = Without(used, V)
    BY <2>1, StillUsedIs DEF StillUsed
  <2>3. Without(used, V) = Without(Without(used, K), J)
    BY WithoutVictims DEF V, J, K
  <2> QED BY <1>3, <2>2, <2>3
<1>12. InStep'
  <2>1. \A i \in 1..Len(s.lru) : s.lru[i] = id <=> Without(used, K)[i] = k
    BY <1>4, <1>5, <1>7, SamePlace
  <2>2. DropAlike(s.lru, I, Without(used, K), J)
    <3>1. ASSUME NEW i \in 1..Len(s.lru)
          PROVE  s.lru[i] \in Ids /\ Without(used, K)[i] \in Keys
      BY <1>5 DEF InStepOf
    <3> QED BY <1>5, <1>f, <1>g, <2>1, <3>1 DEF DropAlike, InStepOf
  <2>3. SameOff(by_id', s.by_id, I)
    BY <1>c DEF SameOff, Cleared
  <2>4. InStepOf(by_id', Without(s.lru, I), Without(Without(used, K), J))
    BY <1>5, <2>2, <2>3, TakeOutInStep
  <2> QED BY <1>10, <1>c, <2>4 DEF InStep
<1>13. Fresh'
  <2>1. Live' \subseteq Live \cup {id}
    BY <1>5, <1>c DEF Live, Cleared
  <2> QED BY <1>3, <2>1, FreshStep DEF id
<1>14. Val' = Zeroed(Val, K \cup J)
  <2>1. Val = ValOf(by_id, by_user_key) /\ Val' = ValOf(by_id', by_user_key')
    BY <1>8, ValIs DEF CacheInv
  <2>3. ASSUME NEW j \in Keys, j \notin J, j \notin K, by_user_key[j] # 0
        PROVE  by_id'[by_user_key[j]] = by_id[by_user_key[j]]
    <3>0. by_id'[by_user_key'[j]].key = j /\ by_user_key'[j] = by_user_key[j]
          /\ by_id'[by_user_key'[j]] # NoNode /\ by_user_key[j] \in Ids
      BY <1>8, <1>9, <2>3 DEF CacheInv, Agree
    <3>1. \A i \in Ids : by_id'[i] = NoNode \/ by_id'[i] = s.by_id[i]
      BY <1>c DEF Cleared
    <3> QED BY <1>5, <2>3, <3>0, <3>1
  <2>5. ASSUME NEW j \in Keys
        PROVE  Val'[j] = IF j \in K \cup J THEN 0 ELSE Val[j]
    BY <1>9, <2>1, <2>3 DEF ValOf
  <2> QED BY <2>1, <2>5 DEF ValOf, Zeroed
<1> QED BY <1>8, <1>10, <1>12, <1>13, <1>14 DEF StepInv, K, J

(* VGET that hits: the id and its key become the last of the two orders.     *)
LEMMA VgetStep ==
    ASSUME CacheInv, NEW id \in Ids, Vget(id)
    PROVE  /\ StepInv /\ Val' = Val /\ id \in Live
           /\ by_id[id].key \in Keys /\ by_user_key[by_id[id].key] = id
           /\ used' = Push(used, by_id[id].key)
<1> DEFINE k == by_id[id].key
<1>0. /\ id \in Live /\ lru' = Touch(lru, id) /\ used' = Push(used, k)
      /\ by_id' = by_id /\ by_user_key' = by_user_key /\ index' = index
      /\ next_id' = next_id
  BY DEF Vget
<1>1. by_id[id] # NoNode /\ k \in Keys /\ by_user_key[k] = id /\ id # 0
  BY <1>0, NodeIs, IdsAre DEF Live, CacheInv, Agree
<1>2. lru \in Seq(Ids) /\ IsInjective(lru) /\ ToSet(lru) = Live
  BY LiveIs DEF CacheInv, Agree
<1>a. \E j \in DOMAIN lru : lru[j] = id
  BY <1>0, <1>2 DEF ToSet
<1>3. lru' = Push(lru, id)
  BY <1>0, <1>a DEF Touch
<1>4. lru' \in Seq(Ids) /\ ToSet(lru') = Live /\ IsInjective(lru')
  <2>1. /\ Push(lru, id) \in Seq(Ids) /\ ToSet(Push(lru, id)) = ToSet(lru) \cup {id}
        /\ IsInjective(Push(lru, id))
    BY <1>2, PushIs
  <2> QED BY <1>0, <1>2, <1>3, <2>1
<1>5. Agree(by_id, by_user_key, lru, index)'
  <2>1. Agree(by_id, by_user_key, lru', index)
    BY <1>4 DEF CacheInv, Agree, Live
  <2> QED BY <1>0, <2>1
<1> HIDE DEF k
<1>6. InStep'
  <2>1. InStepOf(by_id, lru, used)
    BY DEF CacheInv, InStep
  <2>2. \A i \in 1..Len(lru) : lru[i] = id <=> used[i] = k
    BY <1>1, <2>1, SamePlace DEF CacheInv
  <2>3. InStepOf(by_id, Push(lru, id), Push(used, k))
    BY <1>1, <2>1, <2>2, PushInStep DEF k
  <2> QED BY <1>0, <1>3, <2>3 DEF InStep
<1>7. Fresh'
  BY <1>0 DEF CacheInv, Fresh, Live
<1>8. Val' = Val
  BY <1>0 DEF Val, Has, Live
<1> QED BY <1>0, <1>1, <1>5, <1>6, <1>7, <1>8 DEF StepInv, k

(* A sequence of all the elements of a finite set.                           *)
LEMMA SeqOfSet ==
    ASSUME NEW S, IsFiniteSet(S), NEW f \in SetToSeqs(S)
    PROVE  /\ f \in Seq(S) /\ Len(f) = Cardinality(S) /\ Len(f) \in Nat
           /\ DOMAIN f = 1..Len(f) /\ IsInjective(f) /\ ToSet(f) = S
<1> DEFINE n == Cardinality(S)
<1>1. n \in Nat
  BY FS_CardinalityType
<1>2. f \in [1..n -> S] /\ \A i, j \in 1..n : i # j => f[i] # f[j]
  BY DEF SetToSeqs
<1> HIDE DEF n
<1>3. IsInjective(f)
  BY <1>2 DEF IsInjective
<1>4. f \in Injection(1..n, S)
  BY <1>2, <1>3 DEF Injection, IsInjective
<1>5. Cardinality(1..n) = n
  BY <1>1, FS_Interval
<1>6. f \in Surjection(1..n, S)
  BY <1>4, <1>5, FS_Injection DEF n
<1>7. \A x \in S : \E i \in 1..n : f[i] = x
  BY <1>6 DEF Surjection
<1>8. f \in Seq(S) /\ Len(f) = n /\ DOMAIN f = 1..n
  BY <1>1, <1>2
<1>9. ToSet(f) = S
  <2>1. \A x \in ToSet(f) : x \in S
    BY <1>2 DEF ToSet
  <2>2. \A x \in S : x \in ToSet(f)
    BY <1>7, <1>8 DEF ToSet
  <2> QED BY <2>1, <2>2
<1> QED BY <1>1, <1>3, <1>8, <1>9 DEF n

(* The order of the keys has each key with an entry, once.                   *)
LEMMA UsedAre ==
    ASSUME NEW b, NEW u, NEW l, NEW x, Agree(b, u, l, x), NEW q, InStepOf(b, l, q)
    PROVE  /\ IsInjective(q) /\ q \in Seq(Keys) /\ DOMAIN q = 1..Len(l)
           /\ ToSet(q) = {k \in Keys : u[k] # 0}
<1>1. q \in Seq(Keys) /\ DOMAIN q = 1..Len(l) /\ DOMAIN l = 1..Len(l)
  BY DEF InStepOf
<1>2. \A i \in 1..Len(l) : q[i] \in Keys /\ u[q[i]] = l[i] /\ l[i] # 0
  BY OneNodePerKey, IdsAre DEF InStepOf
<1>3. IsInjective(q)
  BY <1>1, <1>2 DEF IsInjective, Agree
<1>4. ASSUME NEW k \in Keys, u[k] # 0 PROVE k \in ToSet(q)
  <2>1. u[k] \in Ids /\ b[u[k]] # NoNode /\ b[u[k]].key = k
    BY <1>4 DEF Agree
  <2>2. u[k] \in ToSet(l)
    BY <2>1 DEF Agree
  <2>3. PICK i \in 1..Len(l) : l[i] = u[k]
    BY <1>1, <2>2 DEF ToSet
  <2>4. q[i] = k
    BY <2>1, <2>3 DEF InStepOf
  <2> QED BY <1>1, <2>4 DEF ToSet
<1>5. \A k \in ToSet(q) : k \in Keys /\ u[k] # 0
  BY <1>1, <1>2 DEF ToSet
<1> QED BY <1>1, <1>3, <1>4, <1>5

(* A restart that does not come after the last id: only the order is new.    *)
LEMMA ReloadStep ==
    ASSUME CacheInv, ~SpentReloads, Reload
    PROVE  /\ StepInv /\ Val' = Val
           /\ Len(used') = Len(used) /\ ToSet(used') = ToSet(used)
<1>0. /\ lru' \in SetToSeqs(Live) /\ next_id # 0
      /\ by_user_key' = [k \in Keys |->
             LET I == {i \in Live : by_id[i].key = k}
             IN  IF I = {} THEN 0 ELSE CHOOSE i \in I : TRUE]
      /\ used' = [i \in DOMAIN lru' |-> by_id[lru'[i]].key]
      /\ next_id' = IF next_id = 0 THEN 1 ELSE next_id
      /\ by_id' = by_id /\ index' = index
  BY DEF Reload
<1>1. /\ lru' \in Seq(Live) /\ Len(lru') = Len(lru) /\ DOMAIN lru' = 1..Len(lru)
      /\ IsInjective(lru') /\ ToSet(lru') = Live /\ Len(lru) \in Nat
  BY <1>0, CountLive, SeqOfSet
<1>2. by_user_key' = by_user_key
  <2>1. by_user_key \in [Keys -> Ids \cup {0}]
    BY DEF CacheInv, Agree
  <2>2. ASSUME NEW k \in Keys PROVE by_user_key'[k] = by_user_key[k]
    <3> DEFINE I == {i \in Live : by_id[i].key = k}
    <3>1. by_user_key'[k] = IF I = {} THEN 0 ELSE CHOOSE i \in I : TRUE
      BY <1>0
    <3>2. \A i \in I : i = by_user_key[k]
      BY DEF CacheInv, Agree, Live
    <3>3. by_user_key[k] # 0 => by_user_key[k] \in I
      BY DEF CacheInv, Agree, Live
    <3>4. 0 \notin I
      BY IdsAre DEF Live
    <3> HIDE DEF I
    <3> QED BY <3>1, <3>2, <3>3, <3>4
  <2>3. by_user_key' = [k \in Keys |-> by_user_key'[k]]
    BY <1>0
  <2> HIDE <1>0
  <2> QED BY <2>1, <2>2, <2>3
<1>3. Agree(by_id, by_user_key, lru, index)'
  <2>1. lru' \in Seq(Ids)
    BY <1>1 DEF Live
  <2>2. Agree(by_id, by_user_key, lru', index)
    BY <1>1, <2>1 DEF CacheInv, Agree, Live
  <2> QED BY <1>0, <1>2, <2>2
<1>4. InStep'
  <2>1. lru' \in Seq(Ids)
    BY <1>1 DEF Live
  <2>2. \A i \in 1..Len(lru) : by_id[lru'[i]].key \in Keys
    BY <1>0, <1>1, <1>3, OneNodePerKey
  <2>3. used' = [i \in 1..Len(lru) |-> by_id[lru'[i]].key]
    BY <1>0, <1>1
  <2>4. used' \in Seq(Keys) /\ Len(used') = Len(lru)
    BY <1>1, <2>2, <2>3
  <2> QED BY <1>0, <1>1, <2>1, <2>3, <2>4 DEF InStep, InStepOf
<1>5. Len(used') = Len(used)
  BY <1>1, <1>4 DEF InStep, InStepOf, CacheInv
<1>6. ToSet(used') = ToSet(used)
  <2>1. ToSet(used) = {k \in Keys : by_user_key[k] # 0}
    BY UsedAre DEF CacheInv, InStep
  <2>2. ToSet(used') = {k \in Keys : by_user_key'[k] # 0}
    BY <1>3, <1>4, UsedAre DEF InStep
  <2> QED BY <1>2, <2>1, <2>2
<1>7. Fresh'
  BY <1>0 DEF CacheInv, Fresh, Live
<1>8. Val' = Val
  BY <1>0, <1>2 DEF Val, Has, Live
<1> QED BY <1>3, <1>4, <1>5, <1>6, <1>7, <1>8 DEF StepInv

(* A cache filled from a snapshot.                                           *)
LEMMA InitInv == Init => CacheInv
<1> SUFFICES ASSUME Init PROVE CacheInv
  OBVIOUS
<1>1. PICK ks \in UNION {SetToSeqs(K) : K \in SUBSET Keys},
           freed \in 0..MaxFreed :
        LET n == Len(ks)
        IN  /\ n <= MaxLoaded /\ (n = 0 => freed = 0)
            /\ by_id = [i \in Ids |-> IF i <= n THEN [key |-> ks[i], ver |-> i]
                                     ELSE NoNode]
            /\ by_user_key = [k \in Keys |-> IF k \in ToSet(ks)
                                            THEN CHOOSE i \in 1..n : ks[i] = k
                                            ELSE 0]
            /\ next_id = (n + freed + 1) % 2^IdBits
            /\ lru = [i \in 1..n |-> i]
            /\ index = [i \in Ids |-> IF i <= n THEN i ELSE 0]
            /\ dim \in (IF n = 0 THEN {0} ELSE Dims)
            /\ replica = [k \in Keys |-> by_user_key[k]]
            /\ views \in BOOLEAN /\ viewed = (views /\ dim # 0)
            /\ halted = FALSE
            /\ unlogged = {} /\ used = ks
            /\ writes = n /\ reloads = 0 /\ add_fails = 0 /\ remove_fails = 0
            /\ log_fails = 0
  BY DEF Init
<1>2. PICK K \in SUBSET Keys : ks \in SetToSeqs(K)
  BY <1>1
<1>3. IsFiniteSet(K)
  BY FS_Subset, SemanticCacheAssumption
<1> DEFINE n == Len(ks)
           m == 2^IdBits
<1>4. /\ ks \in Seq(K) /\ n \in Nat /\ DOMAIN ks = 1..n
      /\ IsInjective(ks) /\ ToSet(ks) = K
  BY <1>2, <1>3, SeqOfSet
<1>5. ks \in Seq(Keys) /\ \A i \in 1..n : ks[i] \in Keys
  BY <1>4
<1>6. /\ n <= MaxLoaded /\ MaxLoaded \in 0..m - 1 /\ MaxLoaded <= MaxWrites
      /\ MaxLoaded \in Nat /\ MaxWrites \in Nat /\ m \in Nat /\ m > 1
      /\ freed \in Nat /\ n + freed \in 0..m - 1
  BY <1>1, SemanticCacheAssumption, IdsAre
<1>7. Ids = 1..m - 1
  BY DEF Ids
<1> HIDE DEF n, m
<1>8. \A i \in Ids : i \in Nat /\ i > 0 /\ (i <= n <=> i \in 1..n)
  BY <1>4, <1>6, <1>7
<1>9. \A i \in 1..n : i \in Ids /\ i \in 1..MaxWrites
  BY <1>4, <1>6, <1>7
<1>10. /\ by_id = [i \in Ids |-> IF i <= n THEN [key |-> ks[i], ver |-> i]
                                 ELSE NoNode]
       /\ by_user_key = [k \in Keys |-> IF k \in ToSet(ks)
                                        THEN CHOOSE i \in 1..n : ks[i] = k
                                        ELSE 0]
       /\ next_id = (n + freed + 1) % m /\ lru = [i \in 1..n |-> i]
       /\ index = [i \in Ids |-> IF i <= n THEN i ELSE 0]
       /\ dim \in (IF n = 0 THEN {0} ELSE Dims)
       /\ replica = [k \in Keys |-> by_user_key[k]]
       /\ views \in BOOLEAN /\ viewed = (views /\ dim # 0) /\ halted = FALSE
       /\ unlogged = {} /\ used = ks /\ writes = n
  BY <1>1 DEF n, m
<1>11. \A i \in 1..n : /\ [key |-> ks[i], ver |-> i] \in Nodes
                       /\ [key |-> ks[i], ver |-> i] # NoNode
  BY <1>5, <1>9, SemanticCacheAssumption DEF Nodes
<1>12. \A i \in Ids : by_id[i] = IF i \in 1..n THEN [key |-> ks[i], ver |-> i]
                                 ELSE NoNode
  BY <1>8, <1>10
<1>a. ASSUME NEW i \in 1..n
      PROVE  by_id[i] # NoNode /\ by_id[i].key = ks[i] /\ by_id[i].ver = i
  <2>1. by_id[i] = [key |-> ks[i], ver |-> i]
    BY <1>9, <1>12
  <2>2. by_id[i].key = ks[i] /\ by_id[i].ver = i
    BY <2>1
  <2> QED BY <1>11, <2>1, <2>2
<1>13. ASSUME NEW k \in Keys
       PROVE  \/ k \notin K /\ by_user_key[k] = 0
              \/ /\ k \in K /\ by_user_key[k] \in 1..n
                 /\ ks[by_user_key[k]] = k
  <2>1. CASE k \notin K
    BY <1>4, <1>10, <2>1
  <2>2. CASE k \in K
    <3>1. \E i \in 1..n : ks[i] = k
      BY <1>4, <2>2 DEF ToSet
    <3>2. by_user_key[k] = CHOOSE i \in 1..n : ks[i] = k
      BY <1>4, <1>10, <2>2
    <3> QED BY <2>2, <3>1, <3>2
  <2> QED BY <2>1, <2>2
<1>14. \A k \in Keys : by_user_key[k] \in Ids \cup {0}
  BY <1>9, <1>13
<1>15. by_id \in [Ids -> Nodes \cup {NoNode}]
  BY <1>10, <1>11, <1>12
<1>16. by_user_key \in [Keys -> Ids \cup {0}]
  BY <1>10, <1>14
<1>17. index \in [Ids -> 0..MaxWrites]
  BY <1>6, <1>8, <1>9, <1>10
<1>18. /\ lru \in Seq(Ids) /\ Len(lru) = n /\ DOMAIN lru = 1..n
       /\ \A i \in 1..n : lru[i] = i
  BY <1>4, <1>9, <1>10
<1>19. IsInjective(lru) /\ ToSet(lru) = 1..n
  <2>1. IsInjective(lru)
    BY <1>18 DEF IsInjective
  <2>2. ToSet(lru) = 1..n
    BY <1>18 DEF ToSet
  <2> QED BY <2>1, <2>2
<1>20. {i \in Ids : by_id[i] # NoNode} = 1..n
  BY <1>9, <1>11, <1>12
<1>21. ASSUME NEW i \in Ids, by_id[i] # NoNode
       PROVE  by_user_key[by_id[i].key] = i /\ index[i] = by_id[i].ver
  <2>1. i \in 1..n /\ by_id[i] = [key |-> ks[i], ver |-> i]
    BY <1>12, <1>21
  <2>2. index[i] = i
    BY <1>8, <1>10, <2>1
  <2>3. ks[i] \in K /\ ks[i] \in Keys
    BY <1>4, <1>5, <2>1
  <2>4. by_user_key[ks[i]] \in 1..n /\ ks[by_user_key[ks[i]]] = ks[i]
    BY <1>13, <2>3
  <2>5. by_user_key[ks[i]] = i
    BY <1>4, <2>1, <2>4 DEF IsInjective
  <2> QED BY <2>1, <2>2, <2>5
<1>22. ASSUME NEW k \in Keys, by_user_key[k] # 0
       PROVE  /\ by_id[by_user_key[k]] # NoNode /\ by_id[by_user_key[k]].key = k
              /\ by_id[by_user_key[k]].ver = by_user_key[k]
  <2>1. by_user_key[k] \in 1..n /\ ks[by_user_key[k]] = k
    BY <1>13, <1>22
  <2> QED BY <1>a, <2>1
<1>23. Agree(by_id, by_user_key, lru, index)
  BY <1>15, <1>16, <1>17, <1>18, <1>19, <1>20, <1>21, <1>22 DEF Agree
<1>24. InStep
  <2>1. \A i \in 1..n : by_id[i].key = ks[i]
    BY <1>a
  <2>2. Len(ks) = n /\ used = ks
    BY <1>10 DEF n
  <2> QED BY <1>5, <1>18, <2>1, <2>2 DEF InStep, InStepOf
<1>25. Fresh
  <2>1. n + freed \in 0..m - 1 /\ n + freed + 1 \in 1..m
    BY <1>4, <1>6
  <2>2. next_id = IF n + freed + 1 = m THEN 0 ELSE n + freed + 1
    BY <1>6, <1>10, <2>1, NextIdIs
  <2>3. next_id \in Ids \cup {0}
    BY <1>6, <1>7, <2>1, <2>2
  <2>4. Live = 1..n
    BY <1>20 DEF Live
  <2> QED BY <1>4, <1>6, <2>2, <2>3, <2>4 DEF Fresh
<1>26. replica = Val
  <2>1. Val = ValOf(by_id, by_user_key)
    BY <1>23, ValIs
  <2>2. \A k \in Keys : ValOf(by_id, by_user_key)[k] = by_user_key[k]
    BY <1>22 DEF ValOf
  <2> QED BY <1>10, <2>1, <2>2 DEF ValOf
<1>27. Rest
  <2>1. \A k \in Keys : by_user_key[k] \in 0..MaxWrites
    BY <1>6, <1>9, <1>13
  <2>2. replica \in [Keys -> 0..MaxWrites]
    BY <1>10, <2>1
  <2>3. writes \in 0..MaxWrites /\ unlogged \subseteq Keys /\ dim \in Dims \cup {0}
    BY <1>4, <1>6, <1>10
  <2>4. (viewed => views) /\ halted = FALSE /\ views \in BOOLEAN /\ viewed \in BOOLEAN
    BY <1>10
  <2> QED BY <2>2, <2>3, <2>4 DEF Rest
<1> QED BY <1>23, <1>24, <1>25, <1>26, <1>27 DEF CacheInv, ReplicaAgrees
-----------------------------------------------------------------------------
(* Each action keeps CacheInv.                                               *)

(* The entries are numbers of writes.                                        *)
LEMMA ValType ==
    ASSUME CacheInv PROVE Val \in [Keys -> 0..MaxWrites]
<1>1. ASSUME NEW k \in Keys, by_user_key[k] # 0
      PROVE  by_id[by_user_key[k]].ver \in 0..MaxWrites
  <2>1. by_user_key[k] \in Ids /\ by_id[by_user_key[k]] # NoNode
    BY <1>1 DEF CacheInv, Agree
  <2>2. by_id[by_user_key[k]].ver \in 1..MaxWrites
    BY <2>1, NodeIs DEF CacheInv, Agree
  <2> QED BY <2>2, SemanticCacheAssumption
<1>2. \A k \in Keys : Val[k] \in 0..MaxWrites
  BY <1>1, HasIs, SemanticCacheAssumption
<1> QED BY <1>2 DEF Val

(* The VDELs that are logged make the replica follow.                        *)
LEMMA VdelsLogged ==
    ASSUME CacheInv, NEW K, LogVdels(K), Val' = Zeroed(Val, K),
           dim' \in Dims \cup {0}, writes' = writes
    PROVE  Rest' /\ ReplicaAgrees'
<1>1. /\ replica' = Zeroed(replica, K) /\ views' = views /\ viewed' = viewed
      /\ halted' = halted /\ unlogged' = unlogged \ K
  BY DEF LogVdels, Logged, Zeroed
<1>2. replica' \in [Keys -> 0..MaxWrites]
  BY <1>1, SemanticCacheAssumption DEF CacheInv, Rest, Zeroed
<1>3. Rest'
  BY <1>1, <1>2 DEF CacheInv, Rest
<1>4. ReplicaAgrees'
  BY <1>1 DEF CacheInv, ReplicaAgrees, Zeroed
<1> QED BY <1>3, <1>4

(* When the append of a frame of key k is refused, after the VDELs of K, only *)
(* k stops being followed.                                                   *)
LEMMA FrameRefused ==
    ASSUME CacheInv, NEW K, NEW k \in Keys, LogRefused(k, K),
           \A x \in Keys \ {k} : Val'[x] = Zeroed(Val, K)[x],
           dim' \in Dims \cup {0}, writes' \in 0..MaxWrites
    PROVE  Rest' /\ ReplicaAgrees'
<1>1. /\ replica' = Zeroed(replica, K) /\ views' = views /\ viewed' = viewed
      /\ halted' = halted /\ unlogged' = (unlogged \ K) \cup {k}
  BY DEF LogRefused, Logged, Zeroed
<1>2. replica' \in [Keys -> 0..MaxWrites]
  BY <1>1, SemanticCacheAssumption DEF CacheInv, Rest, Zeroed
<1>3. Rest'
  BY <1>1, <1>2 DEF CacheInv, Rest
<1>4. ReplicaAgrees'
  BY <1>1 DEF CacheInv, ReplicaAgrees, Zeroed
<1> QED BY <1>3, <1>4

LEMMA VsetOkInv ==
    ASSUME CacheInv, NEW k \in Keys, NEW d \in Dims, VsetOk(k, d)
    PROVE  CacheInv'
<1> DEFINE K == Victims(k)
           w == writes + 1
<1>1. StepInv /\ Val' = [Zeroed(Val, K) EXCEPT ![k] = w]
  BY VsetOkStep
<1>2. /\ LogVset(k, K) \/ LogRefused(k, K)
      /\ writes' = w /\ dim' = d /\ writes < MaxWrites
  BY DEF VsetOk
<1>3. w \in 0..MaxWrites
  BY <1>2, SemanticCacheAssumption DEF CacheInv, Rest
<1> HIDE DEF K, w
<1>4. CASE LogVset(k, K)
  <2>1. /\ replica' = IF halted \/ viewed THEN [x \in Keys |-> 0]
                      ELSE [Zeroed(replica, K) EXCEPT ![k] = w]
        /\ halted' = (halted \/ viewed) /\ views' = views /\ viewed' = viewed
        /\ unlogged' = unlogged \ (K \cup {k})
    BY <1>2, <1>4 DEF LogVset, Logged, Zeroed, w
  <2>2. replica' \in [Keys -> 0..MaxWrites]
    BY <1>3, <2>1, SemanticCacheAssumption DEF CacheInv, Rest, Zeroed
  <2>3. /\ views \in BOOLEAN /\ viewed \in BOOLEAN /\ halted \in BOOLEAN
        /\ viewed => views /\ (halted => views) /\ unlogged' \subseteq Keys
    BY <2>1 DEF CacheInv, Rest
  <2>4. Rest'
    BY <1>2, <1>3, <2>1, <2>2, <2>3 DEF CacheInv, Rest
  <2>5. ReplicaAgrees'
    <3> SUFFICES ASSUME ~halted', NEW x \in Keys, x \notin unlogged'
                 PROVE  replica'[x] = Val'[x]
      BY DEF ReplicaAgrees
    <3>1. ~halted /\ ~viewed
      BY <2>1
    <3>2. replica' = [Zeroed(replica, K) EXCEPT ![k] = w]
      BY <2>1, <3>1
    <3>3. x \in K \/ x = k \/ x \notin unlogged
      BY <2>1
    <3>4. x \notin unlogged => replica[x] = Val[x]
      BY <3>1 DEF CacheInv, ReplicaAgrees
    <3> QED BY <1>1, <3>2, <3>3, <3>4 DEF Zeroed
  <2> QED BY <1>1, <2>4, <2>5 DEF CacheInv, StepInv
<1>5. CASE LogRefused(k, K)
  <2>1. \A x \in Keys \ {k} : Val'[x] = Zeroed(Val, K)[x]
    BY <1>1 DEF Zeroed
  <2>2. Rest' /\ ReplicaAgrees'
    BY <1>2, <1>3, <1>5, <2>1, FrameRefused
  <2> QED BY <1>1, <2>2 DEF CacheInv, StepInv
<1> QED BY <1>2, <1>4, <1>5

LEMMA VsetRejectedInv ==
    ASSUME CacheInv, NEW k \in Keys, VsetRejected(k)
    PROVE  /\ CacheInv' /\ Val' = Zeroed(Val, Victims(k))
           /\ used' = Without(used, Victims(k))
<1> DEFINE K == Victims(k)
<1>1. K \in SUBSET Keys /\ \A j \in K : by_user_key[j] # 0
  BY VictimsAre
<1>2. PICK kept : Install(Deleted(K, kept))
  BY DEF VsetRejected
<1>3. /\ used' = StillUsed /\ next_id' = next_id /\ LogVdels(K) /\ dim' = dim
      /\ writes' = writes
  BY DEF VsetRejected
<1> HIDE DEF K
<1>4. StepInv /\ Val' = Zeroed(Val, K) /\ used' = Without(used, K)
  BY <1>1, <1>2, <1>3, DeleteStep
<1>5. dim' \in Dims \cup {0}
  BY <1>3 DEF CacheInv, Rest
<1>6. Rest' /\ ReplicaAgrees'
  BY <1>3, <1>4, <1>5, VdelsLogged
<1> QED BY <1>4, <1>6 DEF CacheInv, StepInv, K

LEMMA VsetFullInv ==
    ASSUME CacheInv, NEW k \in Keys, NEW d \in Dims, VsetFull(k, d)
    PROVE  /\ CacheInv' /\ Val' = Zeroed(Val, Victims(k))
           /\ used' = Without(used, Victims(k))
<1> DEFINE K == Victims(k)
<1>1. K \in SUBSET Keys /\ \A j \in K : by_user_key[j] # 0
  BY VictimsAre
<1>2. PICK kept : Install(Deleted(K, kept))
  BY DEF VsetFull
<1>3. /\ used' = StillUsed /\ next_id' = next_id /\ LogVdels(K) /\ dim' = d
      /\ writes' = writes
  BY DEF VsetFull
<1> HIDE DEF K
<1>4. StepInv /\ Val' = Zeroed(Val, K) /\ used' = Without(used, K)
  BY <1>1, <1>2, <1>3, DeleteStep
<1>6. Rest' /\ ReplicaAgrees'
  BY <1>3, <1>4, VdelsLogged
<1> QED BY <1>4, <1>6 DEF CacheInv, StepInv, K

(* The eviction loop that the log stops has taken some of the victims.       *)
LEMMA EvictionStopsInv ==
    ASSUME CacheInv, NEW k \in Keys, EvictionStops(k)
    PROVE  /\ CacheInv'
           /\ \E n \in 0..Excess(k) : /\ Val' = Zeroed(Val, FirstVictims(n))
                                      /\ used' = Without(used, FirstVictims(n))
<1>1. PICK n \in 1..Excess(k) :
        /\ \E kept : Install(Deleted(FirstVictims(n), kept))
        /\ LogRefused(by_id[Order[n]].key, FirstVictims(n - 1))
  BY DEF EvictionStops
<1>2. /\ used' = StillUsed /\ next_id' = next_id /\ dim' = dim
      /\ writes' = writes
  BY DEF EvictionStops
<1>3. Excess(k) \in 0..Len(lru) /\ Len(lru) \in Nat
  BY VictimsAre, CountLive
<1>4. n \in 0..Excess(k) /\ n \in 0..Len(lru) /\ n > 0
  BY <1>3
<1> DEFINE K == FirstVictims(n)
           H == FirstVictims(n - 1)
           v == by_id[Order[n]].key
<1>5. /\ K \in SUBSET Keys /\ (\A j \in K : by_user_key[j] # 0)
      /\ v \in Keys /\ K = H \cup {v}
  BY <1>4, FirstVictimsAre
<1>6. PICK kept : Install(Deleted(K, kept))
  BY <1>1
<1>a. LogRefused(v, H)
  BY <1>1
<1> HIDE DEF K, H, v
<1>7. StepInv /\ Val' = Zeroed(Val, K) /\ used' = Without(used, K)
  BY <1>2, <1>5, <1>6, DeleteStep
<1>8. \A x \in Keys \ {v} : Val'[x] = Zeroed(Val, H)[x]
  BY <1>5, <1>7 DEF Zeroed
<1>9. dim' \in Dims \cup {0} /\ writes' \in 0..MaxWrites
  BY <1>2 DEF CacheInv, Rest
<1>10. Rest' /\ ReplicaAgrees'
  BY <1>5, <1>8, <1>9, <1>a, FrameRefused
<1>11. CacheInv'
  BY <1>7, <1>10 DEF CacheInv, StepInv
<1> QED BY <1>4, <1>7, <1>11 DEF K

LEMMA VsetAddFailsInv ==
    ASSUME CacheInv, NEW k \in Keys, NEW d \in Dims, VsetAddFails(k, d)
    PROVE  CacheInv'
<1> DEFINE K == Victims(k)
<1>1. StepInv /\ Val' = Zeroed(Val, K \cup {k})
  BY VsetAddFailsStep
<1>2. /\ replica' = Zeroed(replica, K) /\ views' = views /\ viewed' = viewed
      /\ halted' = halted /\ dim' = d /\ writes' = writes
      /\ unlogged' = (unlogged \ K) \cup {x \in {k} : Has(x)}
  BY DEF VsetAddFails, Logged, Zeroed
<1> HIDE DEF K
<1>4. replica' \in [Keys -> 0..MaxWrites]
  BY <1>2, SemanticCacheAssumption DEF CacheInv, Rest, Zeroed
<1>5. Rest'
  BY <1>2, <1>4 DEF CacheInv, Rest
<1>6. ReplicaAgrees'
  <2> SUFFICES ASSUME ~halted', NEW x \in Keys, x \notin unlogged'
               PROVE  replica'[x] = Val'[x]
    BY DEF ReplicaAgrees
  <2>1. x \in K \/ x \notin unlogged
    BY <1>2
  <2>2. x \notin unlogged => replica[x] = Val[x]
    BY <1>2 DEF CacheInv, ReplicaAgrees
  <2>3. x = k => Val[x] = 0
    <3>1. x = k => ~Has(x)
      BY <1>2
    <3> QED BY <3>1, HasIs
  <2>4. /\ replica'[x] = IF x \in K THEN 0 ELSE replica[x]
        /\ Val'[x] = IF x \in K \cup {k} THEN 0 ELSE Val[x]
    BY <1>1, <1>2 DEF Zeroed
  <2> QED BY <2>1, <2>2, <2>3, <2>4
<1> QED BY <1>1, <1>5, <1>6 DEF CacheInv, StepInv

LEMMA VdelInv ==
    ASSUME CacheInv, NEW k \in Keys, Vdel(k)
    PROVE  CacheInv' /\ Val' = Zeroed(Val, {k}) /\ used' = Without(used, {k})
<1> DEFINE K == {k}
           none == {}
<1>1. K \in SUBSET Keys /\ \A j \in K : by_user_key[j] # 0
  BY HasIs DEF Vdel
<1>2. PICK kept : Install(Deleted(K, kept))
  BY DEF Vdel
<1>3. /\ used' = StillUsed /\ next_id' = next_id /\ dim' = dim
      /\ LogVdels(K) \/ LogRefused(k, none)
      /\ writes' = writes
  BY DEF Vdel
<1>a. \A x \in Keys \ {k} : x \notin K /\ x \notin none
  OBVIOUS
<1> HIDE DEF K, none
<1>4. StepInv /\ Val' = Zeroed(Val, K) /\ used' = Without(used, K)
  BY <1>1, <1>2, <1>3, DeleteStep
<1>5. dim' \in Dims \cup {0} /\ writes' \in 0..MaxWrites
  BY <1>3 DEF CacheInv, Rest
<1>6. Rest' /\ ReplicaAgrees'
  <2>1. CASE LogVdels(K)
    BY <1>3, <1>4, <1>5, <2>1, VdelsLogged
  <2>2. CASE LogRefused(k, none)
    <3>1. \A x \in Keys \ {k} : Val'[x] = Zeroed(Val, none)[x]
      BY <1>4, <1>a DEF Zeroed
    <3> QED BY <1>5, <2>2, <3>1, FrameRefused
  <2> QED BY <1>3, <2>1, <2>2
<1> QED BY <1>4, <1>6 DEF CacheInv, StepInv, K

LEMMA VgetInv ==
    ASSUME CacheInv, NEW i \in Ids, Vget(i)
    PROVE  CacheInv'
<1>1. StepInv /\ Val' = Val
  BY VgetStep
<1>2. Rest'
  BY DEF CacheInv, Rest, Vget, copy
<1>3. ReplicaAgrees'
  BY <1>1 DEF CacheInv, ReplicaAgrees, Vget, copy
<1> QED BY <1>1, <1>2, <1>3 DEF CacheInv, StepInv

LEMMA ReloadInv ==
    ASSUME CacheInv, ~SpentReloads, Reload
    PROVE  CacheInv'
<1>1. StepInv /\ Val' = Val
  BY ReloadStep
<1>2. /\ replica' = IF views THEN Val ELSE replica
      /\ viewed' = (views /\ dim # 0) /\ halted' = FALSE /\ views' = views
      /\ unlogged' = (IF views THEN {} ELSE unlogged)
      /\ dim' = dim /\ writes' = writes
  BY DEF Reload
<1>3. Rest'
  <2>1. replica' \in [Keys -> 0..MaxWrites]
    BY <1>2, ValType DEF CacheInv, Rest
  <2> QED BY <1>2, <2>1 DEF CacheInv, Rest
<1>4. ReplicaAgrees'
  <2> SUFFICES ASSUME NEW x \in Keys, x \notin unlogged'
               PROVE  replica'[x] = Val'[x]
    BY DEF ReplicaAgrees
  <2>1. CASE views
    BY <1>1, <1>2, <2>1
  <2>2. CASE ~views
    BY <1>1, <1>2, <2>2 DEF CacheInv, Rest, ReplicaAgrees
  <2> QED BY <2>1, <2>2
<1> QED BY <1>1, <1>3, <1>4 DEF CacheInv, StepInv

LEMMA StutterInv ==
    ASSUME CacheInv, UNCHANGED vars
    PROVE  CacheInv'
BY DEF vars, store, copy, CacheInv, Agree, InStep, InStepOf, Fresh, Rest,
       ReplicaAgrees, Live, Val, Has

(* CacheInv is inductive.                                                    *)
LEMMA NextInv ==
    ASSUME ~SpentReloads, CacheInv, [Next]_vars
    PROVE  CacheInv'
<1>1. ASSUME NEW k \in Keys, NEW d \in Dims,
             VsetOk(k, d) \/ VsetFull(k, d) \/ VsetAddFails(k, d)
      PROVE  CacheInv'
  BY <1>1, VsetOkInv, VsetFullInv, VsetAddFailsInv
<1>2. ASSUME NEW k \in Keys, VsetRejected(k) \/ EvictionStops(k) \/ Vdel(k)
      PROVE  CacheInv'
  BY <1>2, VdelInv, VsetRejectedInv, EvictionStopsInv
<1>3. ASSUME NEW i \in Ids, Vget(i) PROVE CacheInv'
  BY <1>3, VgetInv
<1>4. ASSUME Reload PROVE CacheInv'
  BY <1>4, ReloadInv
<1>5. ASSUME UNCHANGED vars PROVE CacheInv'
  BY <1>5, StutterInv
<1> QED BY <1>1, <1>2, <1>3, <1>4, <1>5 DEF Next
-----------------------------------------------------------------------------
(* The invariants.  A restart once the ids are used up starts again at id 1, *)
(* which a node may still have: SpentReloads is excluded, as in the runs.    *)

LEMMA CacheInvAlways == ASSUME ~SpentReloads PROVE Spec => []CacheInv
<1>1. CacheInv /\ [Next]_vars => CacheInv'
  BY NextInv
<1> QED BY <1>1, InitInv, PTL DEF Spec

(* Every variable keeps its type: an id is never 0 for a node and never      *)
(* exceeds its width.                                                        *)
THEOREM TypeCorrect == ASSUME ~SpentReloads PROVE Spec => []TypeOK
<1>1. CacheInv => TypeOK
  BY DEF CacheInv, Agree, Fresh, Rest, TypeOK
<1> QED BY <1>1, CacheInvAlways, PTL

(* The storage, the key map, the LRU order and the vector index always agree,*)
(* whatever usearch fails to add or remove: a key and its id point at each   *)
(* other, and a node is only found by its own vector.                        *)
THEOREM StructuresAgree == ASSUME ~SpentReloads PROVE Spec => []Consistent
<1>1. CacheInv => Consistent
  <2> SUFFICES ASSUME CacheInv PROVE Consistent
    OBVIOUS
  <2>1. ToSet(lru) = Live /\ IsInjective(lru)
    BY LiveIs DEF CacheInv, Agree
  <2>2. \A k \in Keys : by_user_key[k] # 0 =>
            by_user_key[k] \in Live /\ by_id[by_user_key[k]].key = k
    BY DEF CacheInv, Agree, Live
  <2>3. \A i \in Live : by_user_key[by_id[i].key] = i /\ index[i] = by_id[i].ver
    BY DEF CacheInv, Agree, Live
  <2> QED BY <2>1, <2>2, <2>3 DEF Consistent
<1> QED BY <1>1, CacheInvAlways, PTL

(* A replica that takes the frames has every entry of the cache, except for  *)
(* the keys whose last change no frame tells: the VDELs of the victims are   *)
(* logged with the VSET, also when the VSET itself fails, and when the log   *)
(* refuses one of them, only that victim (ApplyMutation).                    *)
THEOREM ReplicaFollows == ASSUME ~SpentReloads PROVE Spec => []ReplicaAgrees
<1>1. CacheInv => ReplicaAgrees
  BY DEF CacheInv
<1> QED BY <1>1, CacheInvAlways, PTL

-----------------------------------------------------------------------------
(* The cache implements LruCache.                                            *)

LEMMA SameLists == /\ \A s, T : Lru!Without(s, T) = Without(s, T)
                   /\ \A s, i : Lru!Erase(s, i) = Erase(s, i)
                   /\ \A s, i : Lru!Push(s, i) = Push(s, i)
<1>1. \A s, T : Lru!Without(s, T) = Without(s, T)
  BY DEF Lru!Without, Without
<1>2. \A s, i : Lru!Erase(s, i) = Erase(s, i)
  BY <1>1 DEF Lru!Erase, Erase
<1>3. \A s, i : Lru!Push(s, i) = Push(s, i)
  BY <1>2 DEF Lru!Push, Push
<1> QED BY <1>1, <1>2, <1>3

(* A key has an entry just when it has an id.                                *)
LEMMA ValNotZero ==
    ASSUME CacheInv, NEW k \in Keys
    PROVE  Val[k] # 0 <=> by_user_key[k] # 0
<1>1. ASSUME by_user_key[k] # 0 PROVE by_id[by_user_key[k]].ver # 0
  <2>1. by_user_key[k] \in Ids /\ by_id[by_user_key[k]] # NoNode
    BY <1>1 DEF CacheInv, Agree
  <2>2. by_id[by_user_key[k]].ver \in 1..MaxWrites
    BY <2>1, NodeIs DEF CacheInv, Agree
  <2> QED BY <2>2
<1> QED BY <1>1, HasIs

(* What LruCache drops and keeps is what the eviction loop does.             *)
LEMMA SameVictims ==
    ASSUME CacheInv, NEW n \in 0..Len(lru)
    PROVE  /\ Lru!Dropped(n) = FirstVictims(n)
           /\ Lru!Kept(n) = Without(used, FirstVictims(n))
<1>1. /\ used \in Seq(Keys) /\ Len(used) = Len(lru) /\ IsInjective(used)
      /\ DOMAIN used = 1..Len(used) /\ Len(lru) \in Nat
  BY UsedAre DEF CacheInv, InStep, InStepOf
<1> DEFINE K == FirstVictims(n)
<1>2. n \in 0..Len(used) /\ K = {used[i] : i \in 1..n}
  BY <1>1, FirstVictimsAre
<1>3. Lru!Dropped(n) = K
  BY <1>2 DEF Lru!Dropped
<1> HIDE DEF K
<1>4. \A i \in 1..Len(used) : used[i] \in K <=> i <= n
  BY <1>1, <1>2 DEF IsInjective
<1>5. Without(used, K) = SubSeq(used, n + 1, Len(used))
  BY <1>1, <1>2, <1>4, WithoutFirst
<1>6. Lru!Kept(n) = Without(used, K)
  BY <1>5 DEF Lru!Kept
<1> QED BY <1>3, <1>6 DEF K

LEMMA SameExcess ==
    ASSUME CacheInv, NEW k \in Keys
    PROVE  /\ Lru!Excess(k) = Excess(k) /\ Excess(k) \in 0..Len(lru)
           /\ Len(lru) \in Nat
           /\ Lru!Dropped(Excess(k)) = Victims(k)
           /\ Lru!Kept(Excess(k)) = Without(used, Victims(k))
<1>1. Cardinality(Live) = Len(used) /\ Len(lru) \in Nat
  BY CountLive DEF CacheInv, InStep, InStepOf
<1>2. Val[k] # 0 <=> Has(k)
  BY HasIs, ValNotZero
<1>3. Lru!Excess(k) = Excess(k)
  BY <1>1, <1>2 DEF Lru!Excess, Excess
<1>4. Excess(k) \in 0..Len(lru)
  BY VictimsAre
<1> QED BY <1>1, <1>3, <1>4, SameVictims DEF Victims

LEMMA LruInitially == CacheInv => Lru!LruInit
<1> SUFFICES ASSUME CacheInv PROVE Lru!LruInit
  OBVIOUS
<1>1. Val \in [Keys -> Lru!Entries]
  BY ValType DEF Lru!Entries
<1>2. used \in Seq(Keys) /\ IsInjective(used) /\ ToSet(used) = {k \in Keys : by_user_key[k] # 0}
  BY UsedAre DEF CacheInv, InStep
<1>3. \A k \in Keys : Val[k] # 0 <=> by_user_key[k] # 0
  BY ValNotZero
<1>4. ToSet(used) = {k \in Keys : Val[k] # 0}
  BY <1>2, <1>3
<1> QED BY <1>1, <1>2, <1>4 DEF Lru!LruInit, Lru!IsInjective, Lru!ToSet, IsInjective, ToSet

(* A VSET that stores is Store; one that fails is Reject, which may lose the *)
(* entry it was to replace; VGET is Hit, VDEL is Drop, a restart is Reorder. *)
LEMMA StoreRefines ==
    ASSUME CacheInv, NEW k \in Keys, NEW d \in Dims, VsetOk(k, d)
    PROVE  Lru!Store(k)
<1> DEFINE w == writes + 1
<1>1. w \in Lru!Entries \ {0}
  BY SemanticCacheAssumption DEF VsetOk, CacheInv, Rest, Lru!Entries
<1>2. /\ Val' = [Zeroed(Val, Victims(k)) EXCEPT ![k] = w]
      /\ used' = Push(Without(used, Victims(k)), k)
  BY VsetOkStep
<1> HIDE DEF w
<1>3. Val' = [x \in Keys |-> IF x = k THEN w
                             ELSE IF x \in Lru!Dropped(Lru!Excess(k)) THEN 0
                             ELSE Val[x]]
  BY <1>2, SameExcess DEF Zeroed
<1>4. used' = Lru!Push(Lru!Kept(Lru!Excess(k)), k)
  BY <1>2, SameExcess, SameLists
<1> QED BY <1>1, <1>3, <1>4 DEF Lru!Store

LEMMA RejectRefines ==
    ASSUME CacheInv, NEW k \in Keys, NEW n \in 0..Excess(k),
           NEW lost \in {{}, {k}}, lost # {} => n = Excess(k),
           Val' = Zeroed(Val, FirstVictims(n) \cup lost),
           used' = Without(Without(used, FirstVictims(n)), lost)
    PROVE  Lru!Reject(k)
<1>0. Lru!Excess(k) = Excess(k) /\ n \in 0..Len(lru)
  BY SameExcess
<1>1. Val' = [x \in Keys |-> IF x \in Lru!Dropped(n) \cup lost THEN 0 ELSE Val[x]]
  BY <1>0, SameVictims DEF Zeroed
<1>2. used' = Lru!Without(Lru!Kept(n), lost)
  BY <1>0, SameVictims, SameLists
<1> QED BY <1>0, <1>1, <1>2 DEF Lru!Reject

LEMMA MakeRoomRefines ==
    ASSUME CacheInv, NEW k \in Keys, NEW n \in 0..Excess(k),
           Val' = Zeroed(Val, FirstVictims(n)),
           used' = Without(used, FirstVictims(n))
    PROVE  Lru!Reject(k)
<1> DEFINE none == {}
<1>1. none \in {{}, {k}} /\ FirstVictims(n) \cup none = FirstVictims(n)
  OBVIOUS
<1>2. Without(used, FirstVictims(n)) \in Seq(Keys)
  BY WithoutIs DEF CacheInv, InStep, InStepOf
<1>a. none = {} /\ \A x : x \notin none
  OBVIOUS
<1> HIDE DEF none
<1>3. Without(Without(used, FirstVictims(n)), none) = Without(used, FirstVictims(n))
  BY <1>2, <1>a, WithoutNone
<1> QED BY <1>1, <1>3, <1>a, RejectRefines

(* A VSET that fails after its victims went.                                 *)
LEMMA AllVictimsRefine ==
    ASSUME CacheInv, NEW k \in Keys, Val' = Zeroed(Val, Victims(k)),
           used' = Without(used, Victims(k))
    PROVE  Lru!Reject(k)
<1>1. Excess(k) \in 0..Excess(k)
  BY SameExcess
<1> QED BY <1>1, MakeRoomRefines DEF Victims

LEMMA AddFailsRefines ==
    ASSUME CacheInv, NEW k \in Keys, NEW d \in Dims, VsetAddFails(k, d)
    PROVE  Lru!Reject(k)
<1> DEFINE lost == {k}
<1>1. lost \in {{}, {k}}
  OBVIOUS
<1>2. /\ Val' = Zeroed(Val, Victims(k) \cup lost)
      /\ used' = Without(Without(used, Victims(k)), lost)
  BY VsetAddFailsStep
<1> HIDE DEF lost
<1>3. Excess(k) \in 0..Excess(k)
  BY SameExcess
<1> QED BY <1>1, <1>2, <1>3, RejectRefines DEF Victims

LEMMA HitRefines ==
    ASSUME CacheInv, NEW i \in Ids, Vget(i)
    PROVE  \E k \in Keys : Lru!Hit(k)
<1> DEFINE k == by_id[i].key
<1>1. /\ Val' = Val /\ k \in Keys /\ by_user_key[k] = i
      /\ used' = Push(used, k)
  BY VgetStep
<1> HIDE DEF k
<1>2. Val[k] # 0
  BY <1>1, ValNotZero, IdsAre
<1>3. Lru!Hit(k)
  BY <1>1, <1>2, SameLists DEF Lru!Hit
<1> QED BY <1>1, <1>3

LEMMA DropRefines ==
    ASSUME CacheInv, NEW k \in Keys, Vdel(k)
    PROVE  Lru!Drop(k)
<1>1. Val' = Zeroed(Val, {k}) /\ used' = Without(used, {k})
  BY VdelInv
<1>2. Val' = [Val EXCEPT ![k] = 0]
  BY <1>1, ValType DEF Zeroed
<1>3. used' = Lru!Erase(used, k)
  BY <1>1, SameLists DEF Erase
<1> QED BY <1>2, <1>3 DEF Lru!Drop

LEMMA ReorderRefines ==
    ASSUME CacheInv, ~SpentReloads, Reload
    PROVE  Lru!Reorder
BY ReloadStep DEF Lru!Reorder, Lru!ToSet, ToSet

LEMMA StepRefines ==
    ASSUME ~SpentReloads, CacheInv, [Next]_vars
    PROVE  [Lru!LruNext]_<<Val, used>>
<1>1. ASSUME NEW k \in Keys, NEW d \in Dims, VsetOk(k, d) PROVE Lru!LruNext
  BY <1>1, StoreRefines DEF Lru!LruNext
<1>2. ASSUME NEW k \in Keys, NEW d \in Dims, VsetFull(k, d) PROVE Lru!LruNext
  BY <1>2, VsetFullInv, AllVictimsRefine DEF Lru!LruNext
<1>3. ASSUME NEW k \in Keys, NEW d \in Dims, VsetAddFails(k, d) PROVE Lru!LruNext
  BY <1>3, AddFailsRefines DEF Lru!LruNext
<1>4. ASSUME NEW k \in Keys, VsetRejected(k) PROVE Lru!LruNext
  BY <1>4, VsetRejectedInv, AllVictimsRefine DEF Lru!LruNext
<1>a. ASSUME NEW k \in Keys, EvictionStops(k) PROVE Lru!LruNext
  BY <1>a, EvictionStopsInv, MakeRoomRefines DEF Lru!LruNext
<1>5. ASSUME NEW k \in Keys, Vdel(k) PROVE Lru!LruNext
  BY <1>5, DropRefines DEF Lru!LruNext
<1>6. ASSUME NEW i \in Ids, Vget(i) PROVE Lru!LruNext
  BY <1>6, HitRefines DEF Lru!LruNext
<1>7. ASSUME Reload PROVE Lru!LruNext
  BY <1>7, ReorderRefines DEF Lru!LruNext
<1>8. ASSUME UNCHANGED vars PROVE UNCHANGED <<Val, used>>
  BY <1>8 DEF vars, store, Val, Has, Live
<1> QED BY <1>1, <1>2, <1>3, <1>4, <1>5, <1>6, <1>7, <1>8, <1>a DEF Next

(* The semantic cache implements the exact LRU cache: VSET drops the least   *)
(* recently used entries and as many as needed, a failed VSET loses at most  *)
(* those and the entry it was to replace, VGET refreshes, VDEL removes, and  *)
(* no other step changes entries or order, except that a restart forgets the *)
(* order.                                                                    *)
THEOREM CacheIsLru == ASSUME ~SpentReloads PROVE Spec => ImplementsLru
<1>1. CacheInv /\ [Next]_vars => [Lru!LruNext]_<<Val, used>>
  BY StepRefines
<1>2. CacheInv => Lru!LruInit
  BY LruInitially
<1> QED BY <1>1, <1>2, CacheInvAlways, PTL DEF Spec, ImplementsLru, Lru!LruSpec
=============================================================================
