---------------------------- MODULE SemanticCache ----------------------------
(***************************************************************************)
(* The semantic cache: VNodeIndex over VNodeStorage, LruOrder and          *)
(* USearchEmbedIndex, and the VSET / VDEL part of ApplyMutation that       *)
(* evicts and logs.  The n-th VSET carries vector and answer n.  usearch   *)
(* (external) finds any of the vectors it holds, its add and remove may    *)
(* fail, and so may the append of a frame to the AOF.  The log is modelled *)
(* by what its replay yields: the entries of a replica that applies every  *)
(* frame.  A replica started with slaveof by a build with mmap does not    *)
(* copy the vectors of a snapshot but views them in the file, and usearch  *)
(* refuses to change a view.                                               *)
(***************************************************************************)
EXTENDS LruOrder, SequencesExt, FiniteSets, FiniteSetsExt

CONSTANTS
    Keys,           \* user keys
    NoNode,         \* an id without a node
    Dims,           \* vector dimensions clients use
    MaxEntries,     \* max_entries_, 0 for no eviction
    IdBits,         \* width of uint16_t
    MaxLoaded,      \* bound: nodes of the snapshot loaded at the start
    MaxFreed,       \* bound: ids that snapshot's writer freed
    MaxWrites,      \* bound: VSETs that store
    MaxReloads,     \* bound: restarts from a snapshot
    SpentReloads,   \* TRUE: restarts also once the ids are used up
    MaxAddFails,    \* bound: usearch adds that fail
    MaxRemoveFails, \* bound: usearch removes that fail
    MaxLogFails     \* bound: appends to the AOF that fail

Ids   == 1..2^IdBits - 1
Nodes == [key : Keys, ver : 1..MaxWrites]

ASSUME SemanticCacheAssumption ==
    /\ IsFiniteSet(Keys) /\ 0 \notin Dims /\ NoNode \notin Nodes
    /\ MaxEntries \in Nat /\ 2^IdBits \in Nat \ {0, 1}
    /\ MaxLoaded \in Nat /\ MaxFreed \in Nat
    /\ MaxLoaded + MaxFreed <= 2^IdBits - 1
    /\ MaxWrites \in Nat /\ MaxLoaded <= MaxWrites /\ MaxReloads \in Nat
    /\ SpentReloads \in BOOLEAN
    /\ MaxAddFails \in Nat /\ MaxRemoveFails \in Nat /\ MaxLogFails \in Nat

VARIABLES
    by_id,          \* storage_.by_id_
    by_user_key,    \* storage_.by_user_key_, 0 when absent
    next_id,        \* storage_.next_id_, 0 when the ids are used up
    lru,            \* lru_.order_, least recently used first
    index,          \* index_: the vector usearch holds under an id, or 0
    dim,            \* dim_, 0 while index_ is null
    replica,        \* key -> entry after replaying the frames logged so far
    views,          \* usearch_mmap_view_ of the replica
    viewed,         \* viewed_ of the replica's index
    halted,         \* the replica cannot get past a frame
    unlogged,       \* history: the keys whose last change was not logged
    used,           \* history: the keys by the time a client last used them
    writes, reloads, add_fails, remove_fails, log_fails

store == <<by_id, by_user_key, lru, index>>
copy  == <<replica, views, viewed, halted, unlogged>>
vars  == <<store, next_id, dim, copy, used, writes, reloads, add_fails,
           remove_fails, log_fails>>

Live == {i \in Ids : by_id[i] # NoNode}

\* GetByUserKey finds the key
Has(k) == by_user_key[k] # 0 /\ by_id[by_user_key[k]] # NoNode

\* The entries, as a client sees them
Val == [k \in Keys |-> IF Has(k) THEN by_id[by_user_key[k]].ver ELSE 0]

\* LoadNodes and LoadIndex filled the stores from a snapshot of at most
\* MaxLoaded nodes, which may be more than max_entries_ now allows, whose
\* writer had deleted the nodes of freed more ids
Init ==
    \E ks \in UNION {SetToSeqs(K) : K \in SUBSET Keys},
       freed \in 0..MaxFreed :
        LET n == Len(ks)
        IN  /\ n <= MaxLoaded /\ (n = 0 => freed = 0)
            /\ by_id = [i \in Ids |-> IF i <= n THEN [key |-> ks[i], ver |-> i]
                                     ELSE NoNode]
            /\ by_user_key = [k \in Keys |-> IF k \in ToSet(ks)
                                            THEN CHOOSE i \in 1..n : ks[i] = k
                                            ELSE 0]
            /\ next_id = (n + freed + 1) % 2^IdBits
            /\ lru = [i \in 1..n |-> i]
            /\ index = [i \in Ids |-> IF i <= n THEN i ELSE 0]
            /\ dim \in (IF n = 0 THEN {0} ELSE Dims)
            /\ replica = [k \in Keys |-> by_user_key[k]]
            /\ views \in BOOLEAN /\ viewed = (views /\ dim # 0)
            /\ halted = FALSE
            /\ unlogged = {} /\ used = ks
            /\ writes = n /\ reloads = 0 /\ add_fails = 0 /\ remove_fails = 0
            /\ log_fails = 0

-----------------------------------------------------------------------------

\* NeedsRoomFor and the eviction loop of ApplyMutation: how many entries go
Excess(k) ==
    IF MaxEntries = 0 \/ Has(k) \/ Cardinality(Live) < MaxEntries
    THEN 0 ELSE Cardinality(Live) - MaxEntries + 1

\* PeekLruUserKey drops the ids that have no node
Order == Without(lru, Ids \ Live)

\* The first n keys PeekLruUserKey yields, one after the other
FirstVictims(n) == {by_id[Order[i]].key : i \in 1..n}

Victims(k) == FirstVictims(Excess(k))

IdsOf(K) == {by_user_key[k] : k \in K}

\* A VNodeIndex::Del that forgets the LRU order
DeletedKeepsLru(K, kept) ==
    [by_id       |-> [i \in Ids |-> IF i \in IdsOf(K) THEN NoNode ELSE by_id[i]],
     by_user_key |-> [k \in Keys |-> IF k \in K THEN 0 ELSE by_user_key[k]],
     lru         |-> lru,
     index       |-> [i \in Ids |-> IF i \in IdsOf(K) \ kept THEN 0 ELSE index[i]]]

\* The stores after VNodeIndex::Del of the keys K, where usearch fails to
\* remove the ids kept
Deleted(K, kept) ==
    [by_id       |-> [i \in Ids |-> IF i \in IdsOf(K) THEN NoNode ELSE by_id[i]],
     by_user_key |-> [k \in Keys |-> IF k \in K THEN 0 ELSE by_user_key[k]],
     lru         |-> Without(lru, IdsOf(K)),
     index       |-> [i \in Ids |-> IF i \in IdsOf(K) \ kept THEN 0 ELSE index[i]]]

Install(s) == /\ by_id' = s.by_id /\ by_user_key' = s.by_user_key
              /\ lru' = s.lru /\ index' = s.index

RemoveFailures(K) ==
    {kept \in SUBSET {i \in IdsOf(K) : index[i] # 0} :
        remove_fails + Cardinality(kept) <= MaxRemoveFails}

\* The keys that still have an entry, in the order of their use
StillUsed == Without(used, {k \in Keys : by_user_key'[k] = 0})

\* The VDEL frames of the keys K reach the log.  The replica applies them,
\* whether or not its usearch does.
Logged(K) ==
    [k \in Keys |-> IF k \in K THEN 0 ELSE replica[k]]

LogVdels(K) == /\ replica' = Logged(K) /\ unlogged' = unlogged \ K
               /\ UNCHANGED <<views, viewed, halted, log_fails>>

\* The VDELs of the keys K, then the VSET of k reach the log.  A replica whose
\* vectors are a view takes the node out again, drops the link and asks for
\* the same frame when it is back; what it still holds is not followed.
LogVset(k, K) ==
    /\ replica' = IF halted \/ viewed THEN [x \in Keys |-> 0]
                  ELSE [Logged(K) EXCEPT ![k] = writes + 1]
    /\ halted' = (halted \/ viewed)
    /\ unlogged' = unlogged \ (K \cup {k})
    /\ UNCHANGED <<views, viewed, log_fails>>

\* The VDELs of the keys K reach the log, and the append of the next frame, one
\* of key k, fails: what the frame says is done, the client is told of an
\* error, and the slaves are not fed.
LogRefused(k, K) ==
    /\ log_fails < MaxLogFails /\ log_fails' = log_fails + 1
    /\ replica' = Logged(K) /\ unlogged' = (unlogged \ K) \cup {k}
    /\ UNCHANGED <<views, viewed, halted>>

-----------------------------------------------------------------------------

(***************************************************************************)
(* VSET d k by a client: evict, then VNodeIndex::Set.  Each action is one  *)
(* of the ways Set returns.                                                *)
(***************************************************************************)

\* The id Put assigns
PutId(k) == IF by_user_key[k] # 0 THEN by_user_key[k] ELSE next_id

\* The next id kept in a wider integer
NextIdWide(k) == IF by_user_key[k] # 0 THEN next_id ELSE next_id + 1

NextId(k) == IF by_user_key[k] # 0 THEN next_id ELSE (next_id + 1) % 2^IdBits

\* A client VSET that logs itself but not the VDELs of its victims
VsetOkUnlogged(k, d) ==
    /\ writes < MaxWrites
    /\ dim \in {0, d} /\ PutId(k) # 0
    /\ \E kept \in RemoveFailures(Victims(k)) :
        LET s  == Deleted(Victims(k), kept)
            id == PutId(k)
        IN  /\ Install([by_id |-> [s.by_id EXCEPT
                                     ![id] = [key |-> k, ver |-> writes + 1]],
                        by_user_key |-> [s.by_user_key EXCEPT ![k] = id],
                        lru   |-> Push(s.lru, id),
                        index |-> [s.index EXCEPT ![id] = writes + 1]])
            /\ remove_fails' = remove_fails + Cardinality(kept)
    /\ next_id' = NextId(k)
    /\ LogVset(k, {}) \/ LogRefused(k, {})
    /\ writes' = writes + 1
    /\ dim' = d /\ used' = Push(StillUsed, k)
    /\ UNCHANGED <<reloads, add_fails>>

\* The entry is stored and indexed; its frame is logged, or refused
VsetOk(k, d) ==
    /\ writes < MaxWrites
    /\ dim \in {0, d} /\ PutId(k) # 0
    /\ \E kept \in RemoveFailures(Victims(k)) :
        LET s  == Deleted(Victims(k), kept)
            id == PutId(k)
        IN  /\ Install([by_id |-> [s.by_id EXCEPT
                                     ![id] = [key |-> k, ver |-> writes + 1]],
                        by_user_key |-> [s.by_user_key EXCEPT ![k] = id],
                        lru   |-> Push(s.lru, id),
                        index |-> [s.index EXCEPT ![id] = writes + 1]])
            /\ remove_fails' = remove_fails + Cardinality(kept)
    /\ next_id' = NextId(k)
    /\ LogVset(k, Victims(k)) \/ LogRefused(k, Victims(k))
    /\ writes' = writes + 1
    /\ dim' = d /\ used' = Push(StillUsed, k)
    /\ UNCHANGED <<reloads, add_fails>>

\* Rejected by ParseFloatBlob or by EnsureIndex (another dimension, or usearch
\* not initialized), which some VSET is in every state: the victims are gone
VsetRejected(k) ==
    /\ \E kept \in RemoveFailures(Victims(k)) :
        /\ Install(Deleted(Victims(k), kept))
        /\ remove_fails' = remove_fails + Cardinality(kept)
    /\ LogVdels(Victims(k))
    /\ used' = StillUsed
    /\ UNCHANGED <<next_id, dim, writes, reloads, add_fails>>

\* Put finds no id left
VsetFull(k, d) ==
    /\ dim \in {0, d} /\ PutId(k) = 0
    /\ \E kept \in RemoveFailures(Victims(k)) :
        /\ Install(Deleted(Victims(k), kept))
        /\ remove_fails' = remove_fails + Cardinality(kept)
    /\ LogVdels(Victims(k))
    /\ dim' = d /\ used' = StillUsed
    /\ UNCHANGED <<next_id, writes, reloads, add_fails>>

\* The VDEL of a victim is refused by the log: the loop ends there, with that
\* victim gone, and the VSET is not attempted
EvictionStops(k) ==
    /\ \E n \in 1..Excess(k) :
        /\ \E kept \in RemoveFailures(FirstVictims(n)) :
            /\ Install(Deleted(FirstVictims(n), kept))
            /\ remove_fails' = remove_fails + Cardinality(kept)
        /\ LogRefused(by_id[Order[n]].key, FirstVictims(n - 1))
    /\ used' = StillUsed
    /\ UNCHANGED <<next_id, dim, writes, reloads, add_fails>>

\* usearch fails to add (or to remove the vector it replaces): the node is
\* taken out of the storage again, also when it replaced an older one, which
\* no frame tells
VsetAddFails(k, d) ==
    /\ add_fails < MaxAddFails
    /\ dim \in {0, d} /\ PutId(k) # 0
    /\ \E kept \in RemoveFailures(Victims(k)), old \in BOOLEAN :
        LET s  == Deleted(Victims(k), kept)
            id == PutId(k)
        IN  /\ Install([by_id |-> [s.by_id EXCEPT ![id] = NoNode],
                        by_user_key |-> [s.by_user_key EXCEPT ![k] = 0],
                        lru   |-> Erase(s.lru, id),
                        index |-> IF old THEN s.index
                                  ELSE [s.index EXCEPT ![id] = 0]])
            /\ remove_fails' = remove_fails + Cardinality(kept)
    /\ next_id' = NextId(k)
    /\ replica' = Logged(Victims(k))
    /\ unlogged' = (unlogged \ Victims(k)) \cup {x \in {k} : Has(x)}
    /\ add_fails' = add_fails + 1
    /\ dim' = d /\ used' = StillUsed
    /\ UNCHANGED <<views, viewed, halted, writes, reloads, log_fails>>

\* VDEL k; its frame is logged, or refused
Vdel(k) ==
    /\ Has(k)
    /\ \E kept \in RemoveFailures({k}) :
        /\ Install(Deleted({k}, kept))
        /\ remove_fails' = remove_fails + Cardinality(kept)
    /\ LogVdels({k}) \/ LogRefused(k, {})
    /\ used' = StillUsed
    /\ UNCHANGED <<next_id, dim, writes, reloads, add_fails>>

\* VGET whose nearest vector, of id i, is within the threshold.  A vector
\* without a node is a miss.
Vget(i) ==
    /\ index[i] # 0 /\ i \in Live
    /\ lru' = Touch(lru, i)
    /\ used' = Push(used, by_id[i].key)
    /\ UNCHANGED <<by_id, by_user_key, index, next_id, dim, copy,
                   writes, reloads, add_fails, remove_fails, log_fails>>

\* SAVE, then a restart that loads the snapshot: DumpNodes, SaveIndex,
\* LoadNodes with Restore, RebuildLruFromStorage in the order of a hash map.  A
\* slave gets a snapshot of the new master, another replica has the log.
Reload ==
    /\ reloads < MaxReloads /\ (SpentReloads \/ next_id # 0)
    /\ lru' \in SetToSeqs(Live)
    /\ by_user_key' = [k \in Keys |->
           LET I == {i \in Live : by_id[i].key = k}
           IN  IF I = {} THEN 0 ELSE CHOOSE i \in I : TRUE]
    /\ used' = [i \in DOMAIN lru' |-> by_id[lru'[i]].key]
    /\ next_id' = IF next_id = 0 THEN 1 ELSE next_id
    /\ reloads' = reloads + 1
    /\ replica' = IF views THEN Val ELSE replica
    /\ unlogged' = IF views THEN {} ELSE unlogged
    /\ viewed' = (views /\ dim # 0) /\ halted' = FALSE
    /\ UNCHANGED <<by_id, index, dim, views, writes, add_fails, remove_fails,
                   log_fails>>

Next ==
    \/ \E k \in Keys, d \in Dims :
           VsetOk(k, d) \/ VsetFull(k, d) \/ VsetAddFails(k, d)
    \/ \E k \in Keys : VsetRejected(k) \/ EvictionStops(k) \/ Vdel(k)
    \/ \E i \in Ids : Vget(i)
    \/ Reload

Spec == Init /\ [][Next]_vars

-----------------------------------------------------------------------------

TypeOK ==
    /\ by_id \in [Ids -> Nodes \cup {NoNode}]
    /\ by_user_key \in [Keys -> Ids \cup {0}]
    /\ next_id \in Ids \cup {0}
    /\ lru \in Seq(Ids)
    /\ index \in [Ids -> 0..MaxWrites]
    /\ dim \in Dims \cup {0}
    /\ replica \in [Keys -> 0..MaxWrites]
    /\ unlogged \subseteq Keys
    /\ viewed => views
    /\ {views, viewed, halted} \subseteq BOOLEAN

\* The four structures agree: a key and its id point at each other, the LRU
\* order holds exactly the ids of the nodes, once each, and a node is found
\* by its own vector.  A vector that usearch failed to remove belongs to no
\* node, now and later: VGET never answers a question with the answer of
\* another.
Consistent ==
    /\ \A k \in Keys : by_user_key[k] # 0 =>
           /\ by_user_key[k] \in Live /\ by_id[by_user_key[k]].key = k
    /\ \A i \in Live : by_user_key[by_id[i].key] = i
    /\ IsInjective(lru) /\ ToSet(lru) = Live
    /\ \A i \in Live : index[i] = by_id[i].ver

\* As long as the replica takes the frames, replaying what ApplyMutation logged,
\* the VDELs of evicted entries among them, yields the entries the cache holds:
\* also when a VSET evicts and is then rejected, or evicts until the log refuses
\* a VDEL.  Only a key whose own last change the log refused, or whose entry
\* went because usearch refused its new vector, may differ, and only until it
\* is next written.
ReplicaAgrees ==
    LET val == Val
    IN  ~halted => \A k \in Keys \ unlogged : replica[k] = val[k]

\* The cache implements the exact LRU cache of LruCache: VSET evicts the
\* least recently used entries and as many as needed, VGET refreshes, VDEL
\* removes, and no other step changes entries or order.
Lru == INSTANCE LruCache WITH val <- Val, order <- used

ImplementsLru == Lru!LruSpec
=============================================================================
