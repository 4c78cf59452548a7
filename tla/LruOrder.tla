------------------------------ MODULE LruOrder ------------------------------
(***************************************************************************)
(* The order of ids that LruOrder keeps: a list without duplicates, least  *)
(* recently used first.                                                    *)
(***************************************************************************)
EXTENDS Integers, Sequences

\* The list s without the elements of T.  It is SelectSeq, spelt out because
\* proofs cannot expand SelectSeq.
Without(s, T) ==
    LET f[i \in 0..Len(s)] == IF i = 0 THEN <<>>
                              ELSE IF s[i] \in T THEN f[i - 1]
                              ELSE Append(f[i - 1], s[i])
    IN  f[Len(s)]

Erase(s, i) == Without(s, {i})

Push(s, i) == Append(Erase(s, i), i)

\* A hit that does not refresh
TouchNot(s, i) == s

Touch(s, i) == IF \E j \in DOMAIN s : s[j] = i THEN Push(s, i) ELSE s
=============================================================================
