-------------------------- MODULE PersistenceProofs --------------------------
(***************************************************************************)
(* For every set of keys and any number of writes, SAVEs and crashes: the  *)
(* types; a synced write survives every restart until the server appends   *)
(* behind a torn frame; and, provided that no SAVE child outlives its      *)
(* server, dump.rdb is a whole snapshot and what a finished SAVE contains  *)
(* survives.  Each needs an inductive strengthening of its own, stated     *)
(* before its proof: FileInv, Typed, LogInv and SnapInv.                   *)
(***************************************************************************)
EXTENDS Persistence, WellFoundedInduction, TLAPS

(* The files.  DumpWhole is not inductive: Rename makes dump of tmp, and     *)
(* PowerLoss makes dump of old_dump.  The strengthening says that one child  *)
(* at a time works on the files (OneSaver), which file it has open           *)
(* (OpenFile), and that this file is never dump.rdb, old or new (Apart).     *)

Working == {"open", "fill", "rename"}

Shape ==
    /\ DOMAIN child = Children
    /\ \A c \in Children : DOMAIN child[c] = {"pc", "image", "file"}
    /\ DOMAIN inode = Inodes
    /\ saves \in 0..MaxSaves
    /\ tmp \in 0..saves /\ dump \in 0..saves /\ old_dump \in 0..saves

\* child_pid is the last child forked, and no other works
OneSaver ==
    /\ child_pid \in {0, saves}
    /\ \A c \in Children : child[c].pc \in Working => c = child_pid

OpenFile ==
    \A c \in Children :
        /\ child[c].pc \in {"fill", "rename"} => child[c].file = tmp /\ tmp # 0
        /\ child[c].pc \notin {"fill", "rename"} => child[c].file = 0
        /\ child[c].pc = "rename" => inode[tmp].whole

Apart ==
    /\ tmp # 0 => tmp \notin {dump, old_dump}
    /\ \A c \in Children : child[c].pc = "open" => c \notin {dump, old_dump}

OldDumpWhole == old_dump # 0 => inode[old_dump].whole

FileInv == Shape /\ OneSaver /\ OpenFile /\ Apart /\ DumpWhole /\ OldDumpWhole
-----------------------------------------------------------------------------

(* A server that has not saved anything has no files.                        *)
LEMMA InitFileInv == Init => FileInv
BY PersistenceAssumption
DEF Init, FileInv, Shape, OneSaver, OpenFile, Apart, DumpWhole, OldDumpWhole,
    Children, Inodes, Working

(* When no child works, the files are at rest: a crash or a reaped child     *)
(* leaves them as the last rename did.                                       *)
LEMMA NoChildrenRest ==
    ASSUME FileInv
    PROVE  /\ DOMAIN NoChildren = Children
           /\ \A c \in Children :
                 /\ DOMAIN NoChildren[c] = {"pc", "image", "file"}
                 /\ NoChildren[c].pc \notin Working
                 /\ NoChildren[c].file = 0
<1>1. ASSUME NEW c \in Children
      PROVE  /\ DOMAIN NoChildren[c] = {"pc", "image", "file"}
             /\ NoChildren[c].pc \notin Working
             /\ NoChildren[c].file = 0
  <2>1. CASE child[c].pc \in Working
    BY <2>1 DEF FileInv, Shape, NoChildren, Working
  <2>2. CASE child[c].pc \notin Working
    BY <2>2 DEF FileInv, Shape, OpenFile, NoChildren, Working
  <2> QED BY <2>1, <2>2
<1> QED BY <1>1 DEF NoChildren

(* No step of the server, of a child, or of a crash makes dump.rdb           *)
(* incomplete.                                                               *)
LEMMA NextFileInv ==
    ASSUME ~Orphans, FileInv, [Next]_vars
    PROVE  FileInv'
<1> USE PersistenceAssumption
<1> USE DEF FileInv
<1>1. ASSUME UNCHANGED <<child_pid, child, fileVars, saves>>
      PROVE  FileInv'
  BY <1>1 DEF fileVars, Shape, OneSaver, OpenFile, Apart, DumpWhole, OldDumpWhole
<1>2. CASE \E k \in Keys : Write(k)
  BY <1>1, <1>2 DEF Write
<1>3. CASE AofWrite \/ AofSync \/ Start
  BY <1>1, <1>3 DEF AofWrite, AofSync, Start
<1>4. CASE Fork
  <2> DEFINE n == saves + 1
  <2>1. /\ n \in Children /\ saves' = n /\ child_pid' = n /\ child_pid = 0
        /\ child' = [child EXCEPT ![n] =
                        [pc |-> "open", image |-> mem, file |-> 0]]
        /\ UNCHANGED fileVars
    BY <1>4 DEF Fork, Children, Shape
  <2>2. \A c \in Children : child[c].pc \notin Working
    BY <2>1 DEF OneSaver, Children
  <2>3. \A c \in Children : c # n => child'[c] = child[c]
    BY <2>1 DEF Shape
  <2>4. child'[n] = [pc |-> "open", image |-> mem, file |-> 0]
    BY <2>1 DEF Shape
  <2>5. Shape'
    BY <2>1, <2>3, <2>4 DEF Shape, fileVars, Children
  <2>6. OneSaver' /\ OpenFile'
    BY <2>1, <2>2, <2>3, <2>4 DEF OneSaver, OpenFile, Working, fileVars
  <2>7. Apart'
    BY <2>1, <2>2, <2>3, <2>4 DEF Apart, Shape, Working, fileVars
  <2>8. DumpWhole' /\ OldDumpWhole'
    BY <2>1 DEF DumpWhole, OldDumpWhole, fileVars
  <2> QED BY <2>5, <2>6, <2>7, <2>8
<1>5. CASE Reap
  BY <1>5 DEF Reap, fileVars, Shape, OneSaver, OpenFile, Apart, DumpWhole,
              OldDumpWhole, Working
<1>6. ASSUME NEW c \in Children, ChildStep(c)
      PROVE  FileInv'
  <2>1. CASE OpenTmp(c)
    <3> DEFINE i == IF tmp = 0 THEN c ELSE tmp
    <3>1. /\ child[c].pc = "open" /\ tmp' = i
          /\ inode' = [inode EXCEPT ![i] = Truncated]
          /\ child' = [child EXCEPT ![c].pc = "fill", ![c].file = i]
          /\ UNCHANGED <<child_pid, dump, old_dump, saves>>
      BY <2>1 DEF OpenTmp
    <3>2. c = child_pid /\ c = saves /\ c # 0
      BY <3>1 DEF OneSaver, Working, Children
    <3>3. i \in Inodes /\ i # 0 /\ i \in 0..saves /\ i \notin {dump, old_dump}
      BY <3>1, <3>2 DEF Shape, Apart, Inodes, Children
    <3>4. \A d \in Children : d # c =>
             child'[d] = child[d] /\ child[d].pc \notin Working
      BY <3>1, <3>2 DEF Shape, OneSaver
    <3>5. /\ child'[c].pc = "fill" /\ child'[c].file = i
          /\ DOMAIN child'[c] = {"pc", "image", "file"}
      BY <3>1 DEF Shape
    <3>6. Shape'
      BY <3>1, <3>3, <3>4, <3>5 DEF Shape
    <3>7. OneSaver' /\ OpenFile'
      BY <3>1, <3>2, <3>3, <3>4, <3>5 DEF OneSaver, OpenFile, Working
    <3>8. Apart'
      BY <3>1, <3>3, <3>4, <3>5 DEF Apart, Working
    <3>9. DumpWhole' /\ OldDumpWhole'
      BY <3>1, <3>3 DEF DumpWhole, OldDumpWhole, Shape, Inodes
    <3> QED BY <3>6, <3>7, <3>8, <3>9
  <2>2. CASE Fill(c)
    <3>1. /\ child[c].pc = "fill"
          /\ child' = [child EXCEPT ![c].pc = "rename"]
          /\ UNCHANGED <<child_pid, tmp, dump, old_dump, saves>>
      BY <2>2 DEF Fill
    <3>2. c = child_pid /\ child[c].file = tmp /\ tmp # 0 /\ tmp \in Inodes
      BY <3>1 DEF OneSaver, OpenFile, Working, Shape, Inodes
    <3>3. \A d \in Children \ {c} : child[d].file = 0
      BY <3>2 DEF OneSaver, OpenFile, Working
    <3>4. inode' = [inode EXCEPT ![tmp] =
                       [image |-> child[c].image, whole |-> TRUE]]
      <4>1. ~ \E b \in Children \ {c} : child[b].file = tmp
        BY <3>2, <3>3
      <4> QED BY <2>2, <3>2, <4>1 DEF Fill
    <3>5. \A d \in Children : d # c =>
             child'[d] = child[d] /\ child[d].pc \notin Working
      BY <3>1, <3>2 DEF Shape, OneSaver
    <3>6. /\ child'[c].pc = "rename" /\ child'[c].file = tmp
          /\ DOMAIN child'[c] = {"pc", "image", "file"}
      BY <3>1, <3>2 DEF Shape
    <3>7. Shape'
      BY <3>1, <3>4, <3>5, <3>6 DEF Shape
    <3>8. OneSaver'
      BY <3>1, <3>2, <3>5, <3>6 DEF OneSaver, Working
    <3>9. inode'[tmp].whole
      BY <3>2, <3>4 DEF Shape
    <3>10. OpenFile' /\ Apart'
      BY <3>1, <3>2, <3>5, <3>6, <3>9 DEF OpenFile, Apart, Working
    <3>11. DumpWhole' /\ OldDumpWhole'
      BY <3>1, <3>2, <3>4 DEF DumpWhole, OldDumpWhole, Apart, Shape, Inodes
    <3> QED BY <3>7, <3>8, <3>10, <3>11
  <2>3. CASE Rename(c)
    <3>1. child[c].pc = "rename" /\ tmp # 0 /\ inode[tmp].whole
      BY <2>3 DEF Rename, OpenFile
    <3>2. /\ child' = [child EXCEPT ![c].pc = "ok", ![c].file = 0]
          /\ tmp' = 0 /\ dump' = tmp /\ old_dump' = dump
          /\ UNCHANGED <<child_pid, inode, saves>>
      BY <2>3, <3>1 DEF Rename
    <3>3. c = child_pid
      BY <3>1 DEF OneSaver, Working
    <3>4. \A d \in Children : d # c =>
             child'[d] = child[d] /\ child[d].pc \notin Working
      BY <3>2, <3>3 DEF Shape, OneSaver
    <3>5. /\ child'[c].pc = "ok" /\ child'[c].file = 0
          /\ DOMAIN child'[c] = {"pc", "image", "file"}
      BY <3>2 DEF Shape
    <3>6. Shape'
      BY <3>2, <3>4, <3>5 DEF Shape
    <3>7. OneSaver' /\ OpenFile' /\ Apart'
      BY <3>2, <3>4, <3>5 DEF OneSaver, OpenFile, Apart, Working
    <3>8. DumpWhole' /\ OldDumpWhole'
      BY <3>1, <3>2 DEF DumpWhole, OldDumpWhole
    <3> QED BY <3>6, <3>7, <3>8
  <2>4. CASE SaveFails(c)
    <3>1. /\ child[c].pc \in Working
          /\ child' = [child EXCEPT ![c].pc = "failed", ![c].file = 0]
          /\ UNCHANGED <<child_pid, inode, tmp, dump, old_dump, saves>>
      BY <2>4 DEF SaveFails, Working, fileVars
    <3>2. \A d \in Children : d # c =>
             child'[d] = child[d] /\ child[d].pc \notin Working
      BY <3>1 DEF Shape, OneSaver
    <3>3. /\ child'[c].pc = "failed" /\ child'[c].file = 0
          /\ DOMAIN child'[c] = {"pc", "image", "file"}
      BY <3>1 DEF Shape
    <3>4. Shape'
      BY <3>1, <3>2, <3>3 DEF Shape
    <3>5. OneSaver' /\ OpenFile' /\ Apart'
      BY <3>1, <3>2, <3>3 DEF OneSaver, OpenFile, Apart, Working
    <3>6. DumpWhole' /\ OldDumpWhole'
      BY <3>1 DEF DumpWhole, OldDumpWhole
    <3> QED BY <3>4, <3>5, <3>6
  <2> QED BY <1>6, <2>1, <2>2, <2>3, <2>4 DEF ChildStep
<1>7. CASE Kill
  <2>1. child' = NoChildren /\ child_pid' = 0 /\ UNCHANGED <<fileVars, saves>>
    BY <1>7 DEF Kill
  <2> QED
    BY <2>1, NoChildrenRest
    DEF fileVars, Shape, OneSaver, OpenFile, Apart, DumpWhole, OldDumpWhole,
        Working
<1>8. CASE PowerLoss
  <2>1. /\ child' = NoChildren /\ child_pid' = 0 /\ UNCHANGED <<inode, saves>>
        /\ tmp' = 0 /\ old_dump' = dump'
        /\ dump' \in {dump, old_dump}
    BY <1>8 DEF PowerLoss
  <2> QED
    BY <2>1, NoChildrenRest
    DEF Shape, OneSaver, OpenFile, Apart, DumpWhole, OldDumpWhole, Working
<1>9. CASE UNCHANGED vars
  BY <1>1, <1>9 DEF vars
<1> QED
  BY <1>2, <1>3, <1>4, <1>5, <1>6, <1>7, <1>8, <1>9 DEF Next

(* dump.rdb is a whole snapshot at every moment, for all keys and any number *)
(* of SAVEs and crashes, when children die with their server: SaveToPath     *)
(* fills dump.rdb.tmp, syncs it and renames it.                              *)
THEOREM DumpAlwaysWhole ==
    ASSUME ~Orphans
    PROVE  Spec => []DumpWhole
<1>1. FileInv /\ [Next]_vars => FileInv'
  BY NextFileInv
<1>2. FileInv => DumpWhole
  BY DEF FileInv
<1> QED BY <1>1, <1>2, InitFileInv, PTL DEF Spec
-----------------------------------------------------------------------------
(* Types.                                                                    *)

SaveChild == [pc : {"none", "open", "fill", "rename", "ok", "failed"},
              image : Images, file : Inodes \cup {0}]

Typed == TypeOK /\ writes \in 0..MaxWrites /\ saves \in 0..MaxSaves

(* Min, and Max of a bounded set, are members and bounds of their sets.      *)
LEMMA MinOf ==
    ASSUME NEW S \in SUBSET Nat, S # {}
    PROVE  Min(S) \in S /\ \A y \in S : Min(S) <= y
<1>1. PICK x \in S : \A y \in S : ~(<<y, x>> \in OpToRel(<, Nat))
  BY NatLessThanWellFounded, WFMin
<1>2. \A y \in S : x <= y
  <2> SUFFICES ASSUME NEW y \in S PROVE x <= y
    OBVIOUS
  <2>1. x \in Nat /\ y \in Nat
    OBVIOUS
  <2>2. ~(y < x)
    BY <1>1, <2>1 DEF OpToRel
  <2> QED BY <2>1, <2>2
<1> QED BY <1>2 DEF Min

LEMMA MaxOf ==
    ASSUME NEW n \in Nat, NEW S \in SUBSET (0..n), S # {}
    PROVE  Max(S) \in S /\ \A y \in S : Max(S) >= y
<1> DEFINE T == {i \in Nat : n - i \in S}
<1>1. T # {}
  <2> PICK y \in S : TRUE
    OBVIOUS
  <2>1. n - y \in Nat /\ n - (n - y) = y
    OBVIOUS
  <2> QED BY <2>1
<1>2. PICK m \in T : \A i \in T : m <= i
  BY <1>1, MinOf
<1>3. n - m \in S /\ m \in Nat
  OBVIOUS
<1>4. \A y \in S : n - m >= y
  <2> SUFFICES ASSUME NEW y \in S PROVE n - m >= y
    OBVIOUS
  <2>1. n - y \in Nat /\ n - (n - y) = y
    OBVIOUS
  <2>2. m <= n - y
    BY <1>2, <2>1
  <2> QED BY <1>3, <2>1, <2>2
<1> QED BY <1>3, <1>4 DEF Max

(* What Replay reads: whole frames only, and all that lie before a part of a *)
(* frame.                                                                    *)
LEMMA ReplayReads ==
    ASSUME Typed
    PROVE  /\ Replayed \subseteq Frames
           /\ \A i \in 1..Len(aof) :
                 (\A j \in 1..i : aof[j] # Torn) => aof[i] \in Replayed
<1> DEFINE broken == {i \in 1..Len(aof) : aof[i] = Torn}
           n == IF broken = {} THEN Len(aof) ELSE Min(broken) - 1
<1>1. aof \in Seq(Frames \cup {Torn}) /\ Len(aof) \in Nat
  BY DEF Typed, TypeOK
<1>2. n \in 0..Len(aof) /\ \A i \in 1..n : aof[i] # Torn
  <2>1. CASE broken = {}
    BY <1>1, <2>1
  <2>2. CASE broken # {}
    <3>1. broken \in SUBSET Nat
      BY <1>1
    <3>2. Min(broken) \in broken /\ \A y \in broken : Min(broken) <= y
      BY <2>2, <3>1, MinOf
    <3> HIDE DEF broken
    <3>3. Min(broken) \in 1..Len(aof)
      BY <3>2 DEF broken
    <3>4. n = Min(broken) - 1
      BY <2>2
    <3>5. ASSUME NEW i \in 1..n PROVE aof[i] # Torn
      <4>1. i \in 1..Len(aof) /\ i < Min(broken)
        BY <1>1, <3>3, <3>4
      <4>2. i \notin broken
        BY <3>2, <3>3, <4>1
      <4> QED BY <4>1, <4>2 DEF broken
    <3> QED BY <1>1, <3>3, <3>4, <3>5
  <2> QED BY <2>1, <2>2
<1>3. Replayed = {aof[i] : i \in 1..n}
  BY DEF Replayed
<1>4. ASSUME NEW i \in 1..Len(aof), \A j \in 1..i : aof[j] # Torn
      PROVE  i \in 1..n
  <2>1. CASE broken = {}
    BY <1>1, <2>1
  <2>2. CASE broken # {}
    <3>1. broken \in SUBSET Nat
      BY <1>1
    <3>2. Min(broken) \in broken
      BY <2>2, <3>1, MinOf
    <3>3. Min(broken) \in 1..Len(aof) /\ aof[Min(broken)] = Torn
      BY <3>2
    <3>4. Min(broken) \notin 1..i
      BY <1>4, <3>3
    <3> HIDE DEF broken
    <3> QED BY <1>1, <2>2, <3>3, <3>4
  <2> QED BY <2>1, <2>2
<1> HIDE DEF n
<1>5. \A i \in 1..n : aof[i] \in Frames
  BY <1>1, <1>2
<1> QED BY <1>3, <1>4, <1>5

LEMMA LastIsLast ==
    ASSUME Typed, NEW k \in Keys
    PROVE  /\ LastReplayed(k) \in 0..MaxWrites
           /\ \A f \in Replayed : f[1] = k => LastReplayed(k) >= f[2]
<1> DEFINE S == {0} \cup {f[2] : f \in {g \in Replayed : g[1] = k}}
<1>1. S \in SUBSET (0..MaxWrites)
  BY ReplayReads, PersistenceAssumption DEF Frames
<1>2. S # {}
  OBVIOUS
<1>3. Max(S) \in S /\ \A y \in S : Max(S) >= y
  BY <1>1, <1>2, MaxOf, PersistenceAssumption
<1>4. LastReplayed(k) = Max(S)
  BY DEF LastReplayed
<1>5. \A f \in Replayed : f[1] = k => f[2] \in S
  OBVIOUS
<1> HIDE DEF S
<1> QED BY <1>1, <1>3, <1>4, <1>5

(* A crash keeps a beginning of the AOF that holds what was synced, and may  *)
(* leave one part of a frame behind it.                                      *)
LEMMA CrashLeaves ==
    ASSUME Typed, Kill \/ PowerLoss
    PROVE  \E n \in synced..Len(aof) :
              /\ aof' \in Seq(Frames \cup {Torn}) /\ Len(aof') >= n
              /\ \A i \in 1..n : aof'[i] = aof[i]
              /\ \A i \in (n + 1)..Len(aof') : aof'[i] = Torn
<1>1. /\ aof \in Seq(Frames \cup {Torn}) /\ Len(aof) \in Nat
      /\ synced \in 0..Len(aof)
  BY DEF Typed, TypeOK
<1>2. PICK n \in synced..Len(aof) : (aof' \in {aof} /\ n = Len(aof)) \/ aof' \in Left(n)
  <2>1. CASE Kill
    <3>1. Len(aof) \in synced..Len(aof)
      BY <1>1
    <3> QED BY <2>1, <3>1 DEF Kill
  <2>2. CASE PowerLoss
    BY <2>2 DEF PowerLoss
  <2> QED BY <2>1, <2>2
<1>3. n \in Nat /\ n <= Len(aof)
  BY <1>1, <1>2
<1>4. CASE aof' = aof /\ n = Len(aof)
  BY <1>1, <1>4
<1>5. CASE aof' = SubSeq(aof, 1, n)
  BY <1>1, <1>3, <1>5
<1>6. CASE aof' = Append(SubSeq(aof, 1, n), Torn)
  <2>1. /\ SubSeq(aof, 1, n) \in Seq(Frames \cup {Torn})
        /\ Len(SubSeq(aof, 1, n)) = n
        /\ \A i \in 1..n : SubSeq(aof, 1, n)[i] = aof[i]
    BY <1>1, <1>3
  <2> HIDE DEF Torn
  <2>2. aof' \in Seq(Frames \cup {Torn}) /\ Len(aof') = n + 1 /\ aof'[n + 1] = Torn
    BY <1>3, <1>6, <2>1
  <2>3. \A i \in 1..n : aof'[i] = aof[i]
    BY <1>3, <1>6, <2>1
  <2>4. \A i \in (n + 1)..Len(aof') : aof'[i] = Torn
    BY <1>3, <2>2
  <2> QED BY <1>3, <2>2, <2>3, <2>4
<1> QED BY <1>2, <1>4, <1>5, <1>6 DEF Left

LEMMA InitTyped == Init => Typed
<1> SUFFICES ASSUME Init PROVE Typed
  OBVIOUS
<1> USE PersistenceAssumption DEF Init
<1>1. Empty \in Images
  BY DEF Empty, Images
<1>2. inode \in [Inodes -> [image : Images, whole : BOOLEAN]]
  BY <1>1 DEF Truncated
<1>3. child \in [Children -> SaveChild]
  BY <1>1 DEF SaveChild
<1>4. queue \in Seq(Frames) /\ aof \in Seq(Frames \cup {Torn}) /\ Len(aof) = 0
  OBVIOUS
<1>5. synced \in 0..Len(aof) /\ durable \subseteq Frames
  BY <1>4
<1>6. {up, aof_on, undone} \subseteq BOOLEAN
  OBVIOUS
<1> QED BY <1>1, <1>2, <1>3, <1>4, <1>5, <1>6 DEF Typed, TypeOK, SaveChild

(* What Load hands to the stores is an image.                                *)
LEMMA LoadedTyped == Typed => Loaded \subseteq Images
<1> SUFFICES ASSUME Typed PROVE Loaded \subseteq Images
  OBVIOUS
<1> USE PersistenceAssumption
<1>1. Empty \in Images
  BY DEF Empty, Images
<1>2. ASSUME dump # 0
      PROVE  inode[dump].image \in Images
  BY <1>2 DEF Typed, TypeOK
<1>3. ASSUME NEW g \in Images, NEW K \in SUBSET Keys
      PROVE  [k \in Keys |-> IF k \in K THEN g[k] ELSE 0] \in Images
  BY DEF Images
<1> QED BY <1>1, <1>2, <1>3 DEF Loaded

LEMMA ChildChanges ==
    ASSUME NEW f \in [Children -> SaveChild], NEW c \in Children,
           NEW p \in {"none", "open", "fill", "rename", "ok", "failed"},
           NEW i \in Inodes \cup {0}
    PROVE  [f EXCEPT ![c].pc = p, ![c].file = i] \in [Children -> SaveChild]
<1> DEFINE r == [f[c] EXCEPT !.pc = p, !.file = i]
<1>1. r \in SaveChild
  BY DEF SaveChild
<1>2. [f EXCEPT ![c].pc = p, ![c].file = i] = [f EXCEPT ![c] = r]
  OBVIOUS
<1> HIDE DEF r
<1> QED BY <1>1, <1>2

(* Every step keeps the types, orphaned children or not.                     *)
LEMMA NextTyped == Typed /\ [Next]_vars => Typed'
<1> SUFFICES ASSUME Typed, [Next]_vars PROVE Typed'
  OBVIOUS
<1> USE PersistenceAssumption DEF savedVars
<1> DEFINE In == [image : Images, whole : BOOLEAN]
<1>a. child \in [Children -> SaveChild]
  BY DEF Typed, TypeOK, SaveChild
<1>b. Promised \in Images
  BY DEF Typed, TypeOK, Promised
<1>0. Truncated \in In /\ Empty \in Images
  BY DEF Truncated, Empty, Images
<1>1. CASE \E k \in Keys : Write(k)
  <2> PICK k \in Keys : Write(k)
    BY <1>1
  <2>1. writes' \in 0..MaxWrites /\ writes + 1 \in 1..MaxWrites
    BY DEF Write, Typed
  <2>2. mem' \in Images
    BY <2>1 DEF Write, Typed, TypeOK, Images
  <2>3. queue' \in Seq(Frames)
    <3>1. <<k, writes + 1>> \in Frames
      BY <2>1 DEF Frames
    <3> QED BY <3>1 DEF Write, Typed, TypeOK
  <2> QED BY <2>1, <2>2, <2>3 DEF Write, Typed, TypeOK, aofVars, fileVars
<1>2. CASE AofWrite
  <2>1. queue \in Seq(Frames) /\ queue # <<>> /\ aof \in Seq(Frames \cup {Torn})
    BY <1>2 DEF AofWrite, Typed, TypeOK
  <2>2. Head(queue) \in Frames /\ Tail(queue) \in Seq(Frames)
    BY <2>1
  <2> HIDE DEF Torn, Frames
  <2>3. /\ Append(aof, Head(queue)) \in Seq(Frames \cup {Torn})
        /\ Len(Append(aof, Head(queue))) = Len(aof) + 1
    BY <2>1, <2>2
  <2> QED
    BY <1>2, <2>1, <2>2, <2>3 DEF AofWrite, Typed, TypeOK, fileVars
<1>3. CASE AofSync
  BY <1>3 DEF AofSync, Typed, TypeOK, memVars, fileVars
<1>4. CASE Fork
  <2>1. saves + 1 \in Children /\ saves' \in 0..MaxSaves
    BY <1>4 DEF Fork, Typed, Children
  <2>2. child' \in [Children -> SaveChild]
    BY <1>a, <1>4, <2>1 DEF Fork, SaveChild, Typed, TypeOK
  <2> QED
    BY <1>4, <2>1, <2>2 DEF Fork, Typed, TypeOK, SaveChild, memVars, aofVars, fileVars
<1>5. CASE Reap
  BY <1>5 DEF Reap, Typed, TypeOK, memVars, aofVars, fileVars
<1>6. ASSUME NEW c \in Children, ChildStep(c) PROVE Typed'
  <2>1. CASE OpenTmp(c)
    <3> DEFINE i == IF tmp = 0 THEN c ELSE tmp
    <3>1. i \in Inodes
      BY DEF Typed, TypeOK, Inodes, Children
    <3>2. inode' \in [Inodes -> In] /\ tmp' \in Inodes
      BY <1>0, <2>1, <3>1 DEF OpenTmp, Typed, TypeOK
    <3>3. child' \in [Children -> SaveChild]
      BY <1>a, <2>1, <3>1, ChildChanges DEF OpenTmp
    <3> QED
      BY <2>1, <3>2, <3>3 DEF OpenTmp, Typed, TypeOK, SaveChild, memVars, aofVars
  <2>2. CASE Fill(c)
    <3>1. inode' \in [Inodes -> In]
      BY <2>2 DEF Fill, Typed, TypeOK
    <3>2. child' \in [Children -> SaveChild]
      BY <1>a, <2>2 DEF Fill, SaveChild
    <3> QED
      BY <2>2, <3>1, <3>2 DEF Fill, Typed, TypeOK, SaveChild, memVars, aofVars
  <2>3. CASE Rename(c)
    <3>1. child' \in [Children -> SaveChild]
      BY <1>a, <2>3, ChildChanges DEF Rename
    <3>2. {tmp', dump', old_dump'} \subseteq Inodes \cup {0}
      BY <2>3 DEF Rename, Typed, TypeOK
    <3> QED
      BY <1>b, <2>3, <3>1, <3>2 DEF Rename, Typed, TypeOK, SaveChild, memVars, aofVars
  <2>4. CASE SaveFails(c)
    <3>1. child' \in [Children -> SaveChild]
      BY <1>a, <2>4, ChildChanges DEF SaveFails
    <3> QED
      BY <2>4, <3>1 DEF SaveFails, Typed, TypeOK, SaveChild, memVars, aofVars, fileVars
  <2> QED BY <1>6, <2>1, <2>2, <2>3, <2>4 DEF ChildStep
<1>7. CASE Kill \/ PowerLoss
  <2>1. PICK n \in synced..Len(aof) :
            aof' \in Seq(Frames \cup {Torn}) /\ Len(aof') >= n
    BY <1>7, CrashLeaves
  <2>2. synced \in Nat /\ Len(aof) \in Nat /\ Len(aof') \in Nat
    BY <2>1 DEF Typed, TypeOK
  <2>3. synced' \in 0..Len(aof')
    BY <1>7, <2>1, <2>2 DEF Kill, PowerLoss
  <2>4. NoChildren \in [Children -> SaveChild]
    <3> SUFFICES ASSUME NEW c \in Children
                 PROVE (IF child[c].pc \in {"open", "fill", "rename"}
                        THEN [child[c] EXCEPT !.pc = "failed", !.file = 0]
                        ELSE child[c]) \in SaveChild
      BY DEF NoChildren
    <3>1. child[c] \in SaveChild
      BY DEF Typed, TypeOK, SaveChild
    <3> QED BY <3>1 DEF SaveChild
  <2>5. child' \in [Children -> SaveChild] 
    BY <1>a, <1>7, <2>4 DEF Kill, PowerLoss
  <2>8. saved' \in Images /\ before' \in Images /\ undone' \in BOOLEAN
    BY <1>b, <1>7 DEF Kill, PowerLoss, Typed, TypeOK
  <2>6. {tmp', dump', old_dump'} \subseteq Inodes \cup {0}
    BY <1>7 DEF Kill, PowerLoss, Typed, TypeOK, fileVars
  <2>7. <<>> \in Seq(Frames)
    OBVIOUS
  <2> QED
    BY <1>0, <1>7, <2>1, <2>3, <2>5, <2>6, <2>7, <2>8
    DEF Kill, PowerLoss, Typed, TypeOK, SaveChild, fileVars
<1>8. CASE Start
  <2>1. PICK image \in Loaded :
            mem' = [k \in Keys |-> IF aof_on /\ LastReplayed(k) # 0
                                   THEN LastReplayed(k) ELSE image[k]]
    BY <1>8 DEF Start
  <2>2. mem' \in Images
    <3>1. image \in Images
      BY LoadedTyped
    <3>2. \A k \in Keys : LastReplayed(k) \in 0..MaxWrites
      BY LastIsLast
    <3> QED BY <2>1, <3>1, <3>2 DEF Images
  <2> QED BY <1>8, <2>2 DEF Start, Typed, TypeOK, aofVars, fileVars
<1>9. CASE UNCHANGED vars
  BY <1>9 DEF vars, memVars, aofVars, fileVars, Typed, TypeOK
<1> QED
  BY <1>1, <1>2, <1>3, <1>4, <1>5, <1>6, <1>7, <1>8, <1>9 DEF Next

LEMMA SpecTyped == Spec => []Typed
BY InitTyped, NextTyped, PTL DEF Spec

(* Every reachable state has its type, with orphaned SAVE children too: the  *)
(* synced length stays inside the file across every crash, and what replay   *)
(* and Load put into the stores are values that were written.                *)
THEOREM TypeCorrect == Spec => []TypeOK
<1>1. Typed => TypeOK
  BY DEF Typed
<1> QED BY <1>1, SpecTyped, PTL
-----------------------------------------------------------------------------
(* The append-only file.  SyncedSurvives is not inductive: it says nothing   *)
(* of a server that is down, nor of frames that are queued or in the file    *)
(* but not yet synced.  The strengthening: what was synced is in the part of *)
(* the file that no crash takes away (DurableInFile), no frame is from the   *)
(* future (FramesPast), and the stores of a running server are not behind    *)
(* any frame that it has queued or that a replay would reach (MemAhead).     *)

FramesPast ==
    /\ \A i \in 1..Len(queue) : queue[i][2] <= writes
    /\ \A i \in 1..Len(aof) : aof[i] \in Frames => aof[i][2] <= writes

NoLog == ~aof_on => queue = <<>> /\ aof = <<>>

DurableInFile == \A f \in durable : \E i \in 1..synced : aof[i] = f

MemAhead ==
    /\ ~up => queue = <<>>
    /\ up => \A i \in 1..Len(queue) : mem[queue[i][1]] >= queue[i][2]
    /\ up /\ ~AppendedBehindTorn =>
          \A i \in 1..Len(aof) : aof[i] \in Frames => mem[aof[i][1]] >= aof[i][2]

LogInv == Typed /\ FramesPast /\ NoLog /\ DurableInFile /\ MemAhead

LEMMA FrameIsWhole == \A f \in Frames : f # Torn
BY DEF Frames, Torn

LEMMA InitLogInv == Init => LogInv
<1> SUFFICES ASSUME Init PROVE LogInv
  OBVIOUS
<1>1. Typed
  BY InitTyped
<1>2. queue = <<>> /\ aof = <<>> /\ durable = {} /\ up = TRUE
  BY DEF Init
<1> QED BY <1>1, <1>2 DEF LogInv, FramesPast, NoLog, DurableInFile, MemAhead

(* Each step of the writer, and each crash and restart, keeps the stores     *)
(* ahead of the file.                                                        *)
LEMMA NextLogInv == LogInv /\ [Next]_vars => LogInv'
<1> SUFFICES ASSUME LogInv, [Next]_vars PROVE LogInv'
  OBVIOUS
<1>a. Typed'
  BY NextTyped DEF LogInv
<1>b. /\ queue \in Seq(Frames) /\ aof \in Seq(Frames \cup {Torn})
      /\ Len(queue) \in Nat /\ Len(aof) \in Nat
      /\ synced \in 0..Len(aof) /\ durable \subseteq Frames
      /\ writes \in Nat /\ mem \in Images /\ up \in BOOLEAN /\ aof_on \in BOOLEAN
  BY PersistenceAssumption DEF LogInv, Typed, TypeOK
<1>c. \A f \in Frames : f[1] \in Keys /\ f[2] \in Nat /\ f # Torn
  BY FrameIsWhole, PersistenceAssumption DEF Frames
<1>d. /\ \A i \in 1..Len(queue) : queue[i] \in Frames
      /\ \A k \in Keys : mem[k] \in Nat
  BY <1>b, PersistenceAssumption DEF Images
<1>1. ASSUME UNCHANGED <<up, mem, queue, aofVars, writes>>
      PROVE  LogInv'
  BY <1>1, <1>a DEF LogInv, aofVars, FramesPast, NoLog, DurableInFile, MemAhead,
                    AppendedBehindTorn
<1>2. CASE \E k \in Keys : Write(k)
  <2> PICK k \in Keys : Write(k)
    BY <1>2
  <2>1. /\ up /\ writes' = writes + 1 /\ mem' = [mem EXCEPT ![k] = writes + 1]
        /\ UNCHANGED <<up, aof_on, aof, synced, durable>>
    BY DEF Write, aofVars
  <2>2. \A x \in Keys : mem'[x] = IF x = k THEN writes + 1 ELSE mem[x]
    BY <1>b, <2>1 DEF Images
  <2>3. /\ Len(queue') \in Nat
        /\ \A i \in 1..Len(queue') :
              \/ i \in 1..Len(queue) /\ queue'[i] = queue[i]
              \/ queue'[i] = <<k, writes + 1>>
    <3>1. CASE aof_on
      <4>1. queue' = Append(queue, <<k, writes + 1>>)
        BY <3>1 DEF Write
      <4> QED BY <1>b, <4>1
    <3>2. CASE ~aof_on
      BY <1>b, <3>2 DEF Write
    <3> QED BY <3>1, <3>2
  <2>4. FramesPast'
    <3>1. ASSUME NEW i \in 1..Len(queue') PROVE queue'[i][2] <= writes'
      <4>1. CASE i \in 1..Len(queue) /\ queue'[i] = queue[i]
        BY <1>b, <1>c, <1>d, <2>1, <4>1 DEF LogInv, FramesPast
      <4>2. CASE queue'[i] = <<k, writes + 1>>
        BY <1>b, <2>1, <4>2
      <4> QED BY <2>3, <4>1, <4>2
    <3>2. ASSUME NEW i \in 1..Len(aof), aof[i] \in Frames PROVE aof[i][2] <= writes'
      BY <1>b, <1>c, <2>1, <3>2 DEF LogInv, FramesPast
    <3> QED BY <2>1, <3>1, <3>2 DEF FramesPast
  <2>5. NoLog' /\ DurableInFile'
    BY <1>b, <2>1 DEF Write, LogInv, NoLog, DurableInFile
  <2>6. ASSUME NEW f \in Frames, f[2] <= writes, mem[f[1]] >= f[2]
        PROVE  mem'[f[1]] >= f[2]
    BY <1>b, <1>c, <1>d, <2>2, <2>6
  <2>7. \A i \in 1..Len(queue') : mem'[queue'[i][1]] >= queue'[i][2]
    <3> SUFFICES ASSUME NEW i \in 1..Len(queue')
                 PROVE  mem'[queue'[i][1]] >= queue'[i][2]
      OBVIOUS
    <3>1. CASE i \in 1..Len(queue) /\ queue'[i] = queue[i]
      BY <1>d, <2>1, <2>6, <3>1 DEF LogInv, FramesPast, MemAhead
    <3>2. CASE queue'[i] = <<k, writes + 1>>
      BY <1>b, <2>2, <3>2
    <3> QED BY <2>3, <3>1, <3>2
  <2>8. ~AppendedBehindTorn' =>
            \A i \in 1..Len(aof) : aof[i] \in Frames => mem'[aof[i][1]] >= aof[i][2]
    BY <2>1, <2>6 DEF LogInv, FramesPast, MemAhead, AppendedBehindTorn
  <2>9. MemAhead'
    BY <2>1, <2>7, <2>8 DEF MemAhead
  <2> QED BY <1>a, <2>4, <2>5, <2>9 DEF LogInv
<1>3. CASE AofWrite
  <2>1. /\ up /\ queue # <<>> /\ aof' = Append(aof, Head(queue))
        /\ queue' = Tail(queue)
        /\ UNCHANGED <<up, mem, aof_on, synced, durable, writes>>
    BY <1>3 DEF AofWrite
  <2>2. /\ Len(aof') = Len(aof) + 1 /\ aof'[Len(aof) + 1] = queue[1]
        /\ \A i \in 1..Len(aof) : aof'[i] = aof[i]
        /\ 1 \in 1..Len(queue) /\ queue[1] \in Frames
    BY <1>b, <2>1
  <2>3. /\ Len(queue') \in Nat
        /\ \A i \in 1..Len(queue') :
              i + 1 \in 1..Len(queue) /\ queue'[i] = queue[i + 1]
    BY <1>b, <2>1
  <2>4. FramesPast'
    <3>1. \A i \in 1..Len(queue') : queue'[i][2] <= writes'
      BY <2>1, <2>3 DEF LogInv, FramesPast
    <3>2. ASSUME NEW i \in 1..Len(aof'), aof'[i] \in Frames
          PROVE  aof'[i][2] <= writes'
      <4>1. CASE i \in 1..Len(aof)
        BY <2>1, <2>2, <3>2, <4>1 DEF LogInv, FramesPast
      <4>2. CASE i = Len(aof) + 1
        BY <2>1, <2>2, <4>2 DEF LogInv, FramesPast
      <4> QED BY <1>b, <2>2, <4>1, <4>2
    <3> QED BY <3>1, <3>2 DEF FramesPast
  <2>5. NoLog'
    BY <2>1 DEF LogInv, NoLog
  <2>6. DurableInFile'
    BY <1>b, <2>1, <2>2 DEF LogInv, DurableInFile
  <2>7. ~AppendedBehindTorn' => ~AppendedBehindTorn
    BY <1>b, <2>2 DEF AppendedBehindTorn
  <2>8. \A i \in 1..Len(queue') : mem'[queue'[i][1]] >= queue'[i][2]
    BY <2>1, <2>3 DEF LogInv, MemAhead
  <2>9. ASSUME ~AppendedBehindTorn', NEW i \in 1..Len(aof'), aof'[i] \in Frames
        PROVE  mem'[aof'[i][1]] >= aof'[i][2]
    <3>1. CASE i \in 1..Len(aof)
      BY <2>1, <2>2, <2>7, <2>9, <3>1 DEF LogInv, MemAhead
    <3>2. CASE i = Len(aof) + 1
      BY <2>1, <2>2, <3>2 DEF LogInv, MemAhead
    <3> QED BY <1>b, <2>2, <3>1, <3>2
  <2>10. MemAhead'
    BY <2>1, <2>8, <2>9 DEF MemAhead
  <2> QED BY <1>a, <2>4, <2>5, <2>6, <2>10 DEF LogInv
<1>4. CASE AofSync
  <2>1. /\ synced' = Len(aof)
        /\ durable' = durable \cup ({aof[i] : i \in 1..Len(aof)} \cap Frames)
        /\ UNCHANGED <<up, mem, queue, aof_on, aof, writes>>
    BY <1>4 DEF AofSync, memVars
  <2>2. DurableInFile'
    <3> SUFFICES ASSUME NEW f \in durable'
                 PROVE  \E i \in 1..Len(aof) : aof[i] = f
      BY <2>1 DEF DurableInFile
    <3>1. CASE f \in durable
      BY <1>b, <3>1 DEF LogInv, DurableInFile
    <3>2. CASE f \in {aof[i] : i \in 1..Len(aof)}
      BY <3>2
    <3> QED BY <2>1, <3>1, <3>2
  <2> QED
    BY <1>a, <2>1, <2>2 DEF LogInv, FramesPast, NoLog, MemAhead, AppendedBehindTorn
<1>5. CASE Kill \/ PowerLoss
  <2>1. /\ ~up' /\ queue' = <<>> /\ UNCHANGED <<aof_on, synced, durable, writes>>
    BY <1>5 DEF Kill, PowerLoss
  <2>2. PICK n \in synced..Len(aof) :
              /\ aof' \in Seq(Frames \cup {Torn}) /\ Len(aof') >= n
              /\ \A i \in 1..n : aof'[i] = aof[i]
              /\ \A i \in (n + 1)..Len(aof') : aof'[i] = Torn
    BY <1>5, CrashLeaves DEF LogInv
  <2>3. n \in Nat /\ n <= Len(aof) /\ Len(aof') \in Nat /\ synced <= n
    BY <1>b, <2>2
  <2>4. FramesPast'
    <3> SUFFICES ASSUME NEW i \in 1..Len(aof'), aof'[i] \in Frames
                 PROVE  aof'[i][2] <= writes
      BY <2>1 DEF FramesPast
    <3>1. i \in 1..n
      BY <1>c, <2>2, <2>3
    <3> QED BY <1>b, <2>2, <2>3, <3>1 DEF LogInv, FramesPast
  <2>5. DurableInFile'
    BY <1>b, <2>1, <2>2, <2>3 DEF LogInv, DurableInFile
  <2>6. NoLog'
    <3> SUFFICES ASSUME ~aof_on PROVE aof' = <<>>
      BY <2>1 DEF NoLog
    <3>1. queue = <<>> /\ aof = <<>> /\ Len(aof) = 0
      BY DEF LogInv, NoLog
    <3>2. CASE Kill
      BY <3>1, <3>2 DEF Kill
    <3>3. CASE PowerLoss
      <4>1. PICK m \in synced..Len(aof) :
                aof' \in IF m = Len(aof) THEN {aof} ELSE Left(m)
        BY <3>3 DEF PowerLoss
      <4>2. m = Len(aof)
        BY <1>b, <3>1, <4>1
      <4> QED BY <3>1, <4>1, <4>2
    <3> QED BY <1>5, <3>2, <3>3
  <2>7. MemAhead'
    BY <2>1 DEF MemAhead
  <2> QED BY <1>a, <2>4, <2>5, <2>6, <2>7 DEF LogInv
<1>6. CASE Start
  <2>1. /\ ~up /\ UNCHANGED <<queue, aof_on, aof, synced, durable, writes>>
    BY <1>6 DEF Start, aofVars
  <2>2. PICK image \in Loaded :
            mem' = [k \in Keys |-> IF aof_on /\ LastReplayed(k) # 0
                                   THEN LastReplayed(k) ELSE image[k]]
    BY <1>6 DEF Start
  <2>3. queue = <<>>
    BY <2>1 DEF LogInv, MemAhead
  <2>4. ASSUME ~AppendedBehindTorn, NEW i \in 1..Len(aof), aof[i] \in Frames
        PROVE  mem'[aof[i][1]] >= aof[i][2]
    <3>1. aof_on
      BY <1>b, <2>4 DEF LogInv, NoLog
    <3>2. \A j \in 1..i : aof[j] # Torn
      <4> SUFFICES ASSUME NEW j \in 1..i PROVE aof[j] # Torn
        OBVIOUS
      <4>1. CASE j = i
        BY <1>c, <2>4, <4>1
      <4>2. CASE j # i
        BY <1>b, <2>4, <4>2 DEF AppendedBehindTorn
      <4> QED BY <4>1, <4>2
    <3>3. aof[i] \in Replayed
      BY <3>2, ReplayReads DEF LogInv
    <3> DEFINE k == aof[i][1]
    <3>4. k \in Keys /\ aof[i][2] \in Nat \ {0}
      BY <2>4, PersistenceAssumption DEF Frames
    <3>5. LastReplayed(k) >= aof[i][2] /\ LastReplayed(k) \in Nat
      BY <3>3, <3>4, LastIsLast, PersistenceAssumption DEF LogInv
    <3>6. LastReplayed(k) # 0
      BY <3>4, <3>5
    <3>7. mem'[k] = LastReplayed(k)
      BY <2>2, <3>1, <3>4, <3>6
    <3> QED BY <3>5, <3>7
  <2>5. MemAhead'
    BY <2>1, <2>3, <2>4 DEF MemAhead, AppendedBehindTorn
  <2> QED BY <1>a, <2>1, <2>5 DEF LogInv, FramesPast, NoLog, DurableInFile
<1>7. CASE Fork \/ Reap
  BY <1>1, <1>7 DEF Fork, Reap, memVars
<1>8. ASSUME NEW c \in Children, ChildStep(c) PROVE LogInv'
  BY <1>1, <1>8 DEF ChildStep, OpenTmp, Fill, Rename, SaveFails, memVars
<1>9. CASE UNCHANGED vars
  BY <1>1, <1>9 DEF vars, memVars
<1> QED
  BY <1>2, <1>3, <1>4, <1>5, <1>6, <1>7, <1>8, <1>9 DEF Next

LEMMA LogInvImplies == LogInv => SyncedSurvives
<1> SUFFICES ASSUME LogInv, up, ~AppendedBehindTorn, NEW f \in durable
             PROVE  mem[f[1]] >= f[2]
  BY DEF SyncedSurvives
<1>1. f \in Frames /\ synced \in 0..Len(aof) /\ Len(aof) \in Nat
  BY DEF LogInv, Typed, TypeOK
<1>2. PICK i \in 1..synced : aof[i] = f
  BY DEF LogInv, DurableInFile
<1>3. i \in 1..Len(aof)
  BY <1>1
<1> QED BY <1>1, <1>2, <1>3 DEF LogInv, MemAhead

(* A synced write is there after every restart, for any number of writes,    *)
(* kills and power losses, until the server appends behind a torn frame;     *)
(* orphaned SAVE children make no difference to it.                          *)
THEOREM SyncedWritesSurvive == Spec => []SyncedSurvives
<1>1. LogInv /\ [Next]_vars => LogInv'
  BY NextLogInv
<1> QED BY <1>1, InitLogInv, LogInvImplies, PTL DEF Spec
-----------------------------------------------------------------------------
(* The snapshot, when there is no AOF.  SnapshotSurvives is not inductive:   *)
(* the strengthening follows an image from the fork to the restart.  The     *)
(* child's image lies between what was promised before it and the stores     *)
(* (ForkBetween), is what it wrote into the file that it renames (Filled),   *)
(* and what dump.rdb holds until the child is reaped (Delivered); dump.rdb   *)
(* is never behind what was promised (DumpAhead), and the file that a power  *)
(* loss would put in its place not behind what was before (OldAhead).        *)

ImagesPast ==
    \A k \in Keys :
        /\ mem[k] <= writes /\ saved[k] <= writes /\ before[k] <= writes
        /\ \A c \in Children : child[c].image[k] <= writes
        /\ \A i \in Inodes : inode[i].image[k] <= writes

ForkBetween ==
    child_pid # 0 =>
        /\ up
        /\ \A k \in Keys : /\ Promised[k] <= child[child_pid].image[k]
                           /\ child[child_pid].image[k] <= mem[k]

Filled == \A c \in Children :
    child[c].pc = "rename" => inode[tmp].image = child[c].image

Delivered == (child_pid # 0 /\ child[child_pid].pc = "ok") =>
    dump # 0 /\ inode[dump].image = child[child_pid].image

DumpAhead == \A k \in Keys :
    IF dump = 0 THEN Promised[k] = 0 ELSE inode[dump].image[k] >= Promised[k]

OldAhead == \A k \in Keys :
    IF old_dump = 0 THEN before[k] = 0 ELSE inode[old_dump].image[k] >= before[k]

SnapInv == ~aof_on => /\ ImagesPast /\ ForkBetween /\ Filled /\ Delivered
                      /\ DumpAhead /\ OldAhead /\ SnapshotSurvives

AllInv == FileInv /\ Typed /\ SnapInv

LEMMA InitSnapInv == Init => SnapInv
BY PersistenceAssumption
DEF Init, SnapInv, ImagesPast, ForkBetween, Filled, Delivered, DumpAhead, OldAhead,
    Promised, SnapshotSurvives, Empty, Children, Inodes, Truncated

(* A whole dump is loaded as it is.                                          *)
LEMMA LoadsDump ==
    ASSUME FileInv, NEW image \in Loaded, NEW k \in Keys
    PROVE  image[k] = IF dump = 0 THEN 0 ELSE inode[dump].image[k]
BY DEF FileInv, DumpWhole, Loaded, Empty

(* Every step keeps the images in their order, from the fork to the restart. *)
LEMMA NextSnapInv ==
    ASSUME ~Orphans, AllInv, [Next]_vars
    PROVE  SnapInv'
<1> SUFFICES ASSUME ~aof_on' PROVE SnapInv'
  BY DEF SnapInv
<1>a. FileInv' /\ Typed'
  BY NextFileInv, NextTyped DEF AllInv
<1>b. aof_on' = aof_on
  BY DEF Next, vars, aofVars, Write, AofWrite, AofSync, Fork, Reap, ChildStep,
         OpenTmp, Fill, Rename, SaveFails, Kill, PowerLoss, Start
<1>c. /\ ImagesPast /\ ForkBetween /\ Filled /\ Delivered /\ DumpAhead
      /\ OldAhead /\ SnapshotSurvives
  BY <1>b DEF AllInv, SnapInv
<1>d. /\ writes \in Nat /\ child_pid \in Children \cup {0}
      /\ {dump, old_dump, tmp} \subseteq Inodes \cup {0}
      /\ \A k \in Keys : /\ mem[k] \in Nat /\ saved[k] \in Nat
                         /\ before[k] \in Nat /\ Promised[k] \in Nat
                         /\ \A c \in Children : child[c].image[k] \in Nat
                         /\ \A i \in Inodes : inode[i].image[k] \in Nat
      /\ mem \in Images
      /\ child \in [Children -> SaveChild]
      /\ inode \in [Inodes -> [image : Images, whole : BOOLEAN]]
  <2>1. \A g \in Images, k \in Keys : g[k] \in Nat
    BY PersistenceAssumption DEF Images
  <2>2. child \in [Children -> SaveChild]
    BY DEF AllInv, Typed, TypeOK, SaveChild
  <2>3. \A c \in Children : child[c].image \in Images
    BY <2>2 DEF SaveChild
  <2>4. \A i \in Inodes : inode[i].image \in Images
    BY DEF AllInv, Typed, TypeOK
  <2> QED
    BY <2>1, <2>2, <2>3, <2>4, PersistenceAssumption
    DEF AllInv, Typed, TypeOK, Promised
<1>e. up = TRUE \/ up = FALSE
  BY DEF AllInv, Typed, TypeOK
<1>1. ASSUME UNCHANGED <<up, mem, savedVars, writes, child_pid, child, fileVars>>
      PROVE  SnapInv'
  BY <1>1, <1>b, <1>c DEF SnapInv, ImagesPast, ForkBetween, Filled, Delivered,
       DumpAhead, OldAhead, SnapshotSurvives, Promised, savedVars, fileVars
<1>2. CASE \E k \in Keys : Write(k)
  <2> PICK k \in Keys : Write(k)
    BY <1>2
  <2>1. /\ up /\ writes' = writes + 1 /\ mem' = [mem EXCEPT ![k] = writes + 1]
        /\ UNCHANGED <<up, child_pid, child, inode, tmp, dump, old_dump, saved,
                       before, Promised>>
    BY DEF Write, fileVars, savedVars, Promised
  <2>2. \A x \in Keys : mem'[x] = IF x = k THEN writes + 1 ELSE mem[x]
    BY <1>d, <2>1 DEF Images
  <2>3. \A x \in Keys : mem'[x] >= mem[x] /\ mem'[x] <= writes' /\ mem'[x] \in Nat
    BY <1>c, <1>d, <2>1, <2>2 DEF ImagesPast
  <2>4. ImagesPast'
    BY <1>c, <1>d, <2>1, <2>3 DEF ImagesPast
  <2>5. ForkBetween'
    <3> SUFFICES ASSUME child_pid # 0, NEW x \in Keys
                 PROVE  /\ Promised[x] <= child[child_pid].image[x]
                        /\ child[child_pid].image[x] <= mem'[x]
      BY <2>1 DEF ForkBetween
    <3>1. child_pid \in Children
      BY <1>d
    <3> QED BY <1>c, <1>d, <2>3, <3>1 DEF ForkBetween
  <2>6. SnapshotSurvives'
    BY <1>b, <1>c, <1>d, <2>1, <2>3 DEF SnapshotSurvives
  <2> QED
    BY <1>c, <2>1, <2>4, <2>5, <2>6
    DEF SnapInv, Filled, Delivered, DumpAhead, OldAhead
<1>3. CASE AofWrite \/ AofSync
  BY <1>1, <1>3 DEF AofWrite, AofSync, memVars
<1>4. CASE Fork
  <2> DEFINE n == saves + 1
  <2>1. /\ up /\ child_pid = 0 /\ child_pid' = n
        /\ child' = [child EXCEPT ![n] = [pc |-> "open", image |-> mem, file |-> 0]]
        /\ UNCHANGED <<up, mem, inode, tmp, dump, old_dump, writes, saved,
                       before, Promised>>
    BY <1>4 DEF Fork, memVars, fileVars, savedVars, Promised
  <2>2. n \in Children /\ n # 0
    <3>1. saves \in Nat /\ saves < MaxSaves
      BY <1>4, PersistenceAssumption DEF Fork, AllInv, Typed
    <3> QED BY <3>1, PersistenceAssumption DEF Children
  <2>3. /\ child'[n] = [pc |-> "open", image |-> mem, file |-> 0]
        /\ \A c \in Children : c # n => child'[c] = child[c]
    BY <1>d, <2>1, <2>2
  <2> HIDE DEF n
  <2>4. ImagesPast'
    BY <1>c, <2>1, <2>2, <2>3 DEF ImagesPast
  <2>5. ForkBetween'
    BY <1>b, <1>c, <1>d, <2>1, <2>3 DEF ForkBetween, SnapshotSurvives
  <2>6. Filled' /\ Delivered'
    BY <1>c, <2>1, <2>2, <2>3 DEF Filled, Delivered
  <2> QED
    BY <1>b, <1>c, <2>1, <2>4, <2>5, <2>6
    DEF SnapInv, DumpAhead, OldAhead, SnapshotSurvives
<1>5. CASE Reap
  <2>1. /\ up /\ child_pid # 0 /\ child_pid' = 0
        /\ UNCHANGED <<up, mem, child, inode, tmp, dump, old_dump, writes, before>>
    BY <1>5 DEF Reap, memVars, fileVars
  <2>2. child_pid \in Children
    BY <1>d, <2>1
  <2>3. CASE child[child_pid].pc = "ok"
    <3>1. /\ saved' = child[child_pid].image
          /\ Promised' = child[child_pid].image
      BY <1>5, <2>3 DEF Reap, Promised
    <3>2. ImagesPast'
      BY <1>c, <2>1, <2>2, <3>1 DEF ImagesPast
    <3>3. DumpAhead'
      <4>1. dump # 0 /\ inode[dump].image = child[child_pid].image
        BY <1>c, <2>1, <2>3 DEF Delivered
      <4> QED BY <1>d, <2>1, <2>2, <3>1, <4>1 DEF DumpAhead
    <3>4. SnapshotSurvives'
      BY <1>c, <1>d, <2>1, <2>2, <3>1 DEF SnapshotSurvives, ForkBetween
    <3> QED
      BY <1>c, <2>1, <3>2, <3>3, <3>4
      DEF SnapInv, ForkBetween, Filled, Delivered, OldAhead
  <2>4. CASE child[child_pid].pc # "ok"
    <3>1. saved' = saved /\ Promised' = Promised
      BY <1>5, <2>1, <2>4 DEF Reap, Promised
    <3> QED
      BY <1>b, <1>c, <2>1, <3>1
      DEF SnapInv, ImagesPast, ForkBetween, Filled, Delivered, DumpAhead,
          OldAhead, SnapshotSurvives
  <2> QED BY <2>3, <2>4
<1>6. ASSUME NEW c \in Children, ChildStep(c) PROVE SnapInv'
  <2>0. /\ child[c].pc \in Working /\ c = child_pid /\ c # 0
        /\ UNCHANGED <<up, mem, child_pid, writes, saved, Promised>>
        /\ before' \in {before, Promised}
    <3>1. child[c].pc \in Working
      BY <1>6 DEF ChildStep, OpenTmp, Fill, Rename, SaveFails, Working
    <3>2. c = child_pid /\ c # 0
      BY <3>1 DEF AllInv, FileInv, OneSaver, Children
    <3> QED BY <1>6, <3>1, <3>2
            DEF ChildStep, OpenTmp, Fill, Rename, SaveFails, memVars,
                savedVars, Promised
  <2>a. \A k \in Keys : before'[k] <= writes'
    <3>1. Promised \in {before, saved}
      BY DEF Promised
    <3>2. before' \in {before, saved} /\ writes' = writes
      BY <2>0, <3>1
    <3> QED BY <1>c, <3>2 DEF ImagesPast
  <2>1. ASSUME \A d \in Children : child'[d].image = child[d].image
        PROVE  ForkBetween'
    BY <1>c, <2>0, <2>1 DEF ForkBetween
  <2>2. SnapshotSurvives'
    BY <1>b, <1>c, <2>0 DEF SnapshotSurvives
  <2>3. CASE OpenTmp(c)
    <3> DEFINE i == IF tmp = 0 THEN c ELSE tmp
    <3>1. /\ child[c].pc = "open" /\ tmp' = i
          /\ inode' = [inode EXCEPT ![i] = Truncated]
          /\ child' = [child EXCEPT ![c].pc = "fill", ![c].file = i]
          /\ UNCHANGED <<dump, old_dump, before>>
      BY <2>3 DEF OpenTmp, savedVars
    <3>2. i \in Inodes /\ i # dump /\ i # old_dump
      BY <1>d, <3>1 DEF AllInv, FileInv, Apart, Inodes, Children
    <3>3. /\ child'[c].pc = "fill"
          /\ \A d \in Children : /\ d # c => child'[d] = child[d]
                                 /\ child'[d].image = child[d].image
      BY <1>d, <3>1 DEF SaveChild
    <3>4. \A j \in Inodes : inode'[j] = IF j = i THEN Truncated ELSE inode[j]
      BY <1>d, <3>1
    <3> HIDE DEF i
    <3>5. ImagesPast'
      BY <1>c, <1>d, <2>0, <2>a, <3>3, <3>4 DEF ImagesPast, Truncated, Empty
    <3>6. \A d \in Children : child'[d].pc # "rename"
      BY <2>0, <3>3 DEF AllInv, FileInv, OneSaver, Working
    <3>7. Filled' /\ Delivered'
      BY <2>0, <3>3, <3>6 DEF Filled, Delivered
    <3>8. DumpAhead' /\ OldAhead'
      BY <1>c, <1>d, <2>0, <3>1, <3>2, <3>4 DEF DumpAhead, OldAhead
    <3> QED BY <2>1, <2>2, <3>3, <3>5, <3>7, <3>8 DEF SnapInv
  <2>4. CASE Fill(c)
    <3>1. /\ child[c].pc = "fill" /\ child[c].file = tmp /\ tmp \in Inodes
          /\ tmp # dump /\ tmp # old_dump
          /\ child' = [child EXCEPT ![c].pc = "rename"]
          /\ UNCHANGED <<tmp, dump, old_dump, before>>
      BY <1>d, <2>4 DEF Fill, savedVars, AllInv, FileInv, OpenFile, Apart
    <3>2. PICK w \in BOOLEAN :
             inode' = [inode EXCEPT ![tmp] = [image |-> child[c].image, whole |-> w]]
      BY <2>4, <3>1 DEF Fill
    <3>3. /\ child'[c].pc = "rename"
          /\ \A d \in Children : /\ d # c => child'[d] = child[d]
                                 /\ child'[d].image = child[d].image
      BY <1>d, <3>1 DEF SaveChild
    <3>4. /\ inode'[tmp].image = child[c].image
          /\ \A j \in Inodes : j # tmp => inode'[j] = inode[j]
      BY <1>d, <3>1, <3>2
    <3>5. ImagesPast'
      BY <1>c, <2>0, <2>a, <3>3, <3>4 DEF ImagesPast
    <3>6. Filled'
      <4> SUFFICES ASSUME NEW d \in Children, child'[d].pc = "rename"
                   PROVE  inode'[tmp].image = child'[d].image
        BY <3>1 DEF Filled
      <4>1. d = c
        BY <2>0, <3>3 DEF AllInv, FileInv, OneSaver, Working
      <4> QED BY <3>3, <3>4, <4>1
    <3>7. Delivered'
      BY <2>0, <3>3 DEF Delivered
    <3>8. DumpAhead' /\ OldAhead'
      BY <1>c, <1>d, <2>0, <3>1, <3>4 DEF DumpAhead, OldAhead
    <3> QED BY <2>1, <2>2, <3>3, <3>5, <3>6, <3>7, <3>8 DEF SnapInv
  <2>5. CASE Rename(c)
    <3>1. child[c].pc = "rename" /\ tmp # 0 /\ tmp \in Inodes
      BY <1>d, <2>5 DEF Rename, AllInv, FileInv, OpenFile
    <3>2. /\ child' = [child EXCEPT ![c].pc = "ok", ![c].file = 0]
          /\ dump' = tmp /\ old_dump' = dump /\ before' = Promised
          /\ UNCHANGED inode
      BY <2>5, <3>1 DEF Rename
    <3>3. /\ child'[c].pc = "ok"
          /\ \A d \in Children : /\ d # c => child'[d] = child[d]
                                 /\ child'[d].image = child[d].image
      BY <1>d, <3>2 DEF SaveChild
    <3>4. inode[tmp].image = child[c].image
      BY <1>c, <3>1 DEF Filled
    <3>5. ImagesPast'
      BY <1>c, <2>0, <2>a, <3>2, <3>3 DEF ImagesPast
    <3>6. Filled'
      BY <2>0, <3>3 DEF AllInv, FileInv, OneSaver, Working, Filled
    <3>7. Delivered'
      BY <2>0, <3>1, <3>2, <3>3, <3>4 DEF Delivered
    <3>8. DumpAhead'
      BY <1>c, <1>d, <2>0, <3>1, <3>2, <3>4 DEF DumpAhead, ForkBetween
    <3>9. OldAhead'
      BY <1>c, <1>d, <3>2 DEF DumpAhead, OldAhead
    <3> QED BY <2>1, <2>2, <3>3, <3>5, <3>6, <3>7, <3>8, <3>9 DEF SnapInv
  <2>6. CASE SaveFails(c)
    <3>1. /\ child' = [child EXCEPT ![c].pc = "failed", ![c].file = 0]
          /\ UNCHANGED <<inode, dump, old_dump, tmp, before>>
      BY <2>6 DEF SaveFails, fileVars, savedVars
    <3>2. /\ child'[c].pc = "failed"
          /\ \A d \in Children : /\ d # c => child'[d] = child[d]
                                 /\ child'[d].image = child[d].image
      BY <1>d, <3>1 DEF SaveChild
    <3>3. ImagesPast'
      BY <1>c, <2>0, <2>a, <3>1, <3>2 DEF ImagesPast
    <3>4. Filled'
      BY <2>0, <3>2 DEF AllInv, FileInv, OneSaver, Working, Filled
    <3>5. Delivered' /\ DumpAhead' /\ OldAhead'
      BY <1>c, <2>0, <3>1, <3>2 DEF Delivered, DumpAhead, OldAhead
    <3> QED BY <2>1, <2>2, <3>2, <3>3, <3>4, <3>5 DEF SnapInv
  <2> QED BY <1>6, <2>3, <2>4, <2>5, <2>6 DEF ChildStep
<1>7. CASE Kill \/ PowerLoss
  <2>1. /\ ~up' /\ mem' = Empty /\ child_pid' = 0 /\ child' = NoChildren
        /\ UNCHANGED <<inode, writes>>
    BY <1>7 DEF Kill, PowerLoss, fileVars
  <2>2. \A d \in Children : /\ child'[d].pc # "rename"
                            /\ child'[d].image = child[d].image
    <3> SUFFICES ASSUME NEW d \in Children
                 PROVE  /\ NoChildren[d].pc # "rename"
                        /\ NoChildren[d].image = child[d].image
      BY <2>1
    <3>1. child[d] \in SaveChild
      BY <1>d
    <3> QED BY <3>1 DEF NoChildren, SaveChild
  <2>3. \/ /\ dump' = dump /\ old_dump' = old_dump
           /\ before' = before /\ Promised' = Promised
        \/ /\ dump' = dump /\ old_dump' = dump
           /\ before' = Promised /\ Promised' = Promised
        \/ /\ dump' = old_dump /\ old_dump' = old_dump
           /\ before' = before /\ Promised' = before
    <3>1. CASE Kill
      BY <3>1 DEF Kill, fileVars, savedVars, Promised
    <3>2. CASE PowerLoss /\ dump' = dump
      BY <3>2 DEF PowerLoss, Promised
    <3>3. CASE PowerLoss /\ dump' # dump
      BY <3>3 DEF PowerLoss, Promised
    <3> QED BY <1>7, <3>1, <3>2, <3>3
  <2>4. ImagesPast'
    <3>1. saved' = saved /\ before' \in {before, Promised}
      BY <1>7, <2>3 DEF Kill, PowerLoss, savedVars
    <3>2. Promised \in {before, saved}
      BY DEF Promised
    <3>3. \A k \in Keys : before'[k] <= writes
      BY <1>c, <3>1, <3>2 DEF ImagesPast
    <3> QED BY <1>c, <1>d, <2>1, <2>2, <3>1, <3>3 DEF ImagesPast, Empty
  <2>5. DumpAhead' /\ OldAhead'
    <3>1. CASE /\ dump' = dump /\ old_dump' = old_dump
               /\ before' = before /\ Promised' = Promised
      BY <1>c, <2>1, <3>1 DEF DumpAhead, OldAhead
    <3>2. CASE /\ dump' = dump /\ old_dump' = dump
               /\ before' = Promised /\ Promised' = Promised
      BY <1>c, <2>1, <3>2 DEF DumpAhead, OldAhead
    <3>3. CASE /\ dump' = old_dump /\ old_dump' = old_dump
               /\ before' = before /\ Promised' = before
      BY <1>c, <2>1, <3>3 DEF DumpAhead, OldAhead
    <3> QED BY <2>3, <3>1, <3>2, <3>3
  <2> QED
    BY <2>1, <2>2, <2>4, <2>5
    DEF SnapInv, ForkBetween, Filled, Delivered, SnapshotSurvives
<1>8. CASE Start
  <2>1. /\ ~up
        /\ UNCHANGED <<child_pid, child, inode, tmp, dump, old_dump, writes,
                       saved, before, Promised>>
    BY <1>8 DEF Start, fileVars, savedVars, Promised
  <2>2. PICK image \in Loaded :
            mem' = [k \in Keys |-> IF aof_on /\ LastReplayed(k) # 0
                                   THEN LastReplayed(k) ELSE image[k]]
    BY <1>8 DEF Start
  <2>3. \A k \in Keys : mem'[k] = IF dump = 0 THEN 0 ELSE inode[dump].image[k]
    BY <1>b, <2>2, LoadsDump DEF AllInv
  <2>4. child_pid = 0
    BY <1>c, <2>1 DEF ForkBetween
  <2>5. ImagesPast'
    BY <1>c, <1>d, <2>1, <2>3 DEF ImagesPast
  <2>6. SnapshotSurvives'
    BY <1>c, <1>d, <2>1, <2>3 DEF SnapshotSurvives, DumpAhead
  <2> QED
    BY <1>c, <2>1, <2>4, <2>5, <2>6
    DEF SnapInv, ForkBetween, Filled, Delivered, DumpAhead, OldAhead
<1>9. CASE UNCHANGED vars
  BY <1>1, <1>9 DEF vars, memVars
<1> QED
  BY <1>2, <1>3, <1>4, <1>5, <1>6, <1>7, <1>8, <1>9 DEF Next

(* Without an AOF, what the last finished SAVE contains is there after every *)
(* restart, for any number of SAVEs and crashes, when children die with      *)
(* their server; a power loss that takes the rename of that SAVE back        *)
(* leaves, from then on, no less than what the restart before had to find.   *)
THEOREM SavedImagesSurvive ==
    ASSUME ~Orphans
    PROVE  Spec => []SnapshotSurvives
<1>1. Init => AllInv
  BY InitFileInv, InitTyped, InitSnapInv DEF AllInv
<1>2. AllInv /\ [Next]_vars => AllInv'
  BY NextFileInv, NextTyped, NextSnapInv DEF AllInv
<1>3. AllInv => SnapshotSurvives
  BY DEF AllInv, SnapInv, SnapshotSurvives
<1> QED BY <1>1, <1>2, <1>3, PTL DEF Spec
=============================================================================
