------------------------------- MODULE LruCache -------------------------------
(***************************************************************************)
(* What the semantic cache promises: a map from keys to entries, with an   *)
(* exact least-recently-used order and at most MaxEntries entries once a   *)
(* client stores into it.  An entry is the number of the write that made   *)
(* it, 0 is "no entry".                                                    *)
(***************************************************************************)
EXTENDS LruOrder, SequencesExt

CONSTANTS Keys, MaxEntries, MaxWrites

VARIABLES val, order    \* key -> entry; keys from least to most recent

Entries == 0..MaxWrites

\* What makes room for k is dropped from the front of the order
Excess(k) == IF MaxEntries = 0 \/ val[k] # 0 \/ Len(order) < MaxEntries THEN 0
             ELSE Len(order) - MaxEntries + 1

Dropped(n) == {order[i] : i \in 1..n}

Kept(n) == SubSeq(order, n + 1, Len(order))

\* An instance starts empty or from a snapshot
LruInit == /\ val \in [Keys -> Entries]
           /\ order \in Seq(Keys)
           /\ IsInjective(order) /\ ToSet(order) = {k \in Keys : val[k] # 0}

Store(k) ==
    /\ order' = Push(Kept(Excess(k)), k)
    /\ \E v \in Entries \ {0} :
          val' = [x \in Keys |-> IF x = k THEN v
                                ELSE IF x \in Dropped(Excess(k)) THEN 0
                                ELSE val[x]]

\* A rejected store may have made room, in part or as much as it needs, and
\* then loses at most the entry itself
Reject(k) ==
    \E n \in 0..Excess(k), lost \in {{}, {k}} :
        /\ lost # {} => n = Excess(k)
        /\ order' = Without(Kept(n), lost)
        /\ val' = [x \in Keys |->
                     IF x \in Dropped(n) \cup lost THEN 0 ELSE val[x]]

Hit(k) == /\ order' = Push(order, k)
          /\ val[k] # 0
          /\ UNCHANGED val

Drop(k) == /\ order' = Erase(order, k)
           /\ val' = [val EXCEPT ![k] = 0]

\* A restart from a snapshot keeps the entries and forgets the order
Reorder == /\ Len(order') = Len(order) /\ ToSet(order') = ToSet(order)
           /\ UNCHANGED val

LruNext == \/ \E k \in Keys : Store(k) \/ Reject(k) \/ Hit(k) \/ Drop(k)
           \/ Reorder

LruSpec == LruInit /\ [][LruNext]_<<val, order>>
=============================================================================
