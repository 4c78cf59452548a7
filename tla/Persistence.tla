----------------------------- MODULE Persistence -----------------------------
(***************************************************************************)
(* What survives a crash: the fork-based snapshot of SnapshotManager, the  *)
(* append-only file of WalManager, and the startup of Vemory.cc, which     *)
(* loads the one and replays the other.                                    *)
(*                                                                         *)
(* Abstractions.  The n-th write command stores n under its key, 0 is "no  *)
(* such key".  An AOF writer (modelled by ThreadAofWriter and              *)
(* InlineAofWriter) holds the frames it accepted in queue, then appends    *)
(* them to the file, then syncs.  A file is an inode, so that a process    *)
(* which still has a renamed or a truncated file open is represented; the  *)
(* file that child c creates is inode c.                                   *)
(***************************************************************************)
EXTENDS Integers, Sequences, FiniteSets, FiniteSetsExt

CONSTANTS
    Keys,
    AofModes,       \* the settings of cfg.aof examined
    Orphans,        \* TRUE: a SAVE child survives the death of the server
    Tears,          \* TRUE: a crash may leave a part of a frame in the file
    MaxWrites,      \* bound: write commands
    MaxSaves,       \* bound: SAVE children forked
    MaxCrashes      \* bound: crashes

ASSUME PersistenceAssumption ==
    /\ AofModes \subseteq BOOLEAN
    /\ {Orphans, Tears} \subseteq BOOLEAN
    /\ MaxWrites \in Nat /\ MaxSaves \in Nat /\ MaxCrashes \in Nat

Images   == [Keys -> 0..MaxWrites]
Frames   == Keys \X (1..MaxWrites)
Torn     == <<>>          \* a part of a frame
Children == 1..MaxSaves
Inodes   == 1..MaxSaves
Empty    == [k \in Keys |-> 0]
Truncated == [image |-> Empty, whole |-> FALSE]

VARIABLES
    up,             \* the server runs
    mem,            \* the stores
    queue,          \* frames the AOF writer holds in memory
    aof_on,         \* cfg.aof
    aof,            \* appendonly.aof: frames, Torn for a part of one
    synced,         \* length of the synced part of it
    child_pid,      \* child_pid_, 0 when none
    child,          \* the SAVE children: their step, image and open file
    inode,          \* file contents: an image, and whether it is whole
    tmp, dump,      \* inodes of dump.rdb.tmp and dump.rdb, 0 when missing
    old_dump,       \* inode that dump.rdb may still be after a power loss
    writes, saves, crashes,
    durable,        \* history: writes that were synced
    saved,          \* history: what the last SAVE reported as finished contains
    before,         \* history: what was promised before the last rename
    undone          \* history: a power loss has undone the rename of that SAVE

memVars  == <<up, mem, queue>>
aofVars  == <<aof_on, aof, synced, durable>>
fileVars == <<inode, tmp, dump, old_dump>>
savedVars == <<saved, before, undone>>
vars == <<memVars, aofVars, child_pid, child, fileVars, writes, saves,
          crashes, savedVars>>

\* What a restart has to find in dump.rdb, at least
Promised == IF undone THEN before ELSE saved

Init ==
    /\ up = TRUE /\ mem = Empty /\ queue = <<>>
    /\ aof_on \in AofModes
    /\ aof = <<>> /\ synced = 0 /\ durable = {}
    /\ child_pid = 0
    /\ child = [c \in Children |-> [pc |-> "none", image |-> Empty, file |-> 0]]
    /\ inode = [i \in Inodes |-> Truncated]
    /\ tmp = 0 /\ dump = 0 /\ old_dump = 0
    /\ writes = 0 /\ saves = 0 /\ crashes = 0
    /\ saved = Empty /\ before = Empty /\ undone = FALSE

-----------------------------------------------------------------------------

\* ApplyMutation: the stores change, then the frame goes to the AOF writer
Write(k) ==
    /\ up /\ writes < MaxWrites
    /\ writes' = writes + 1
    /\ mem' = [mem EXCEPT ![k] = writes + 1]
    /\ queue' = IF aof_on THEN Append(queue, <<k, writes + 1>>) ELSE queue
    /\ UNCHANGED <<up, aofVars, child_pid, child, fileVars, saves, crashes,
                   savedVars>>

\* The writer appends the oldest frame
AofWrite ==
    /\ up /\ queue # <<>>
    /\ aof' = Append(aof, Head(queue))
    /\ queue' = Tail(queue)
    /\ UNCHANGED <<up, mem, aof_on, synced, durable, child_pid, child, fileVars,
                   writes, saves, crashes, savedVars>>

AofSync ==
    /\ up /\ synced < Len(aof)
    /\ synced' = Len(aof)
    /\ durable' = durable \cup ({aof[i] : i \in 1..Len(aof)} \cap Frames)
    /\ UNCHANGED <<memVars, aof_on, aof, child_pid, child, fileVars, writes, saves,
                   crashes, savedVars>>

-----------------------------------------------------------------------------

\* BackgroundSave forks
Fork ==
    /\ up /\ child_pid = 0 /\ saves < MaxSaves
    /\ saves' = saves + 1
    /\ child_pid' = saves + 1
    /\ child' = [child EXCEPT ![saves + 1] =
                     [pc |-> "open", image |-> mem, file |-> 0]]
    /\ UNCHANGED <<memVars, aofVars, fileVars, writes, crashes, savedVars>>

\* SaveToPath that writes dump.rdb in place
OpenFinal(c) ==
    /\ child[c].pc = "open"
    /\ LET i == IF dump = 0 THEN c ELSE dump
       IN  /\ dump' = i
           /\ inode' = [inode EXCEPT ![i] = Truncated]
           /\ child' = [child EXCEPT ![c].pc = "fill", ![c].file = i]
    /\ UNCHANGED <<memVars, aofVars, child_pid, tmp, old_dump, writes, saves,
                   crashes, savedVars>>

\* fopen(tmp_path, "wb+") truncates what is there
OpenTmp(c) ==
    /\ child[c].pc = "open"
    /\ LET i == IF tmp = 0 THEN c ELSE tmp
       IN  /\ tmp' = i
           /\ inode' = [inode EXCEPT ![i] = Truncated]
           /\ child' = [child EXCEPT ![c].pc = "fill", ![c].file = i]
    /\ UNCHANGED <<memVars, aofVars, child_pid, dump, old_dump, writes, saves,
                   crashes, savedVars>>

\* The payload, the header, fflush and fsync.  The file is whole unless
\* another child has it open too.
Fill(c) ==
    /\ child[c].pc = "fill"
    /\ LET i == child[c].file
           shared == \E b \in Children \ {c} : child[b].file = i
       IN  inode' = [inode EXCEPT ![i] = [image |-> child[c].image,
                                          whole |-> ~shared]]
    /\ child' = [child EXCEPT ![c].pc = "rename"]
    /\ UNCHANGED <<memVars, aofVars, child_pid, tmp, dump, old_dump, writes,
                   saves, crashes, savedVars>>

\* rename(tmp, final), and _exit(0); _exit(1) when there is no tmp to rename
Rename(c) ==
    /\ child[c].pc = "rename"
    /\ child' = [child EXCEPT ![c].pc = IF tmp = 0 THEN "failed" ELSE "ok",
                              ![c].file = 0]
    /\ IF tmp = 0 THEN UNCHANGED <<tmp, dump, old_dump, before>>
       ELSE tmp' = 0 /\ dump' = tmp /\ old_dump' = dump /\ before' = Promised
    /\ UNCHANGED <<memVars, aofVars, child_pid, inode, writes, saves, crashes,
                   saved, undone>>

\* A write, the fsync or the rename fails: _exit(1)
SaveFails(c) ==
    /\ child[c].pc \in {"open", "fill", "rename"}
    /\ child' = [child EXCEPT ![c].pc = "failed", ![c].file = 0]
    /\ UNCHANGED <<memVars, aofVars, child_pid, fileVars, writes, saves,
                   crashes, savedVars>>

\* A ReapSaveChild that does not look at the exit status
ReapAny ==
    /\ up /\ child_pid # 0 /\ child[child_pid].pc \in {"ok", "failed"}
    /\ saved' = child[child_pid].image /\ undone' = FALSE
    /\ child_pid' = 0
    /\ UNCHANGED <<memVars, aofVars, child, fileVars, writes, saves, crashes,
                   before>>

\* ReapSaveChild
Reap ==
    /\ up /\ child_pid # 0 /\ child[child_pid].pc \in {"ok", "failed"}
    /\ IF child[child_pid].pc = "ok"
       THEN saved' = child[child_pid].image /\ undone' = FALSE
       ELSE UNCHANGED <<saved, undone>>
    /\ child_pid' = 0
    /\ UNCHANGED <<memVars, aofVars, child, fileVars, writes, saves, crashes,
                   before>>

-----------------------------------------------------------------------------

NoChildren == [c \in Children |->
    IF child[c].pc \in {"open", "fill", "rename"}
    THEN [child[c] EXCEPT !.pc = "failed", !.file = 0] ELSE child[c]]

\* What a crash may leave of the AOF when the first n entries survive
Left(n) == {SubSeq(aof, 1, n)} \cup
           (IF Tears THEN {Append(SubSeq(aof, 1, n), Torn)} ELSE {})

\* The server dies; what the kernel has been given survives
Kill ==
    /\ up /\ crashes < MaxCrashes
    /\ crashes' = crashes + 1
    /\ up' = FALSE /\ mem' = Empty /\ queue' = <<>>
    /\ child_pid' = 0
    /\ child' = IF Orphans THEN child ELSE NoChildren
    /\ aof' \in IF queue = <<>> THEN {aof} ELSE Left(Len(aof))
    /\ UNCHANGED <<aof_on, synced, durable, fileVars, writes, saves, savedVars>>

\* The machine dies: unsynced frames are lost from some point on, and the
\* last rename may be undone, that of the first SAVE too, because nothing syncs
\* the directory.  An earlier rename is on disk: the fsync of the file renamed
\* last came after it.
PowerLoss ==
    /\ crashes < MaxCrashes
    /\ crashes' = crashes + 1
    /\ up' = FALSE /\ mem' = Empty /\ queue' = <<>>
    /\ child_pid' = 0
    /\ child' = NoChildren
    /\ \E n \in synced..Len(aof) :
           aof' \in IF n = Len(aof) THEN {aof} ELSE Left(n)
    /\ dump' \in {dump, old_dump}
    /\ old_dump' = dump' /\ tmp' = 0
    /\ IF dump' = dump THEN before' = Promised /\ UNCHANGED undone
       ELSE undone' = TRUE /\ UNCHANGED before
    /\ UNCHANGED <<aof_on, synced, durable, inode, writes, saves, saved>>

\* WalManager::Replay: the frames before the first that does not decode
Replayed ==
    LET broken == {i \in 1..Len(aof) : aof[i] = Torn}
        n == IF broken = {} THEN Len(aof) ELSE Min(broken) - 1
    IN  {aof[i] : i \in 1..n}

LastReplayed(k) == Max({0} \cup {f[2] : f \in {g \in Replayed : g[1] = k}})

\* SnapshotManager::Load.  An incomplete dump either stops the startup (bad
\* magic) or is taken for no dump after some of it went into the stores.
Loaded ==
    IF dump = 0 THEN {Empty}
    ELSE IF inode[dump].whole THEN {inode[dump].image}
    ELSE {[k \in Keys |-> IF k \in K THEN inode[dump].image[k] ELSE 0] :
             K \in SUBSET Keys}

\* Startup that replays the AOF first and loads the snapshot over it
StartLoadLast ==
    /\ ~up /\ up' = TRUE
    /\ \E image \in Loaded :
        mem' = [k \in Keys |-> IF image[k] # 0 THEN image[k]
                               ELSE IF aof_on THEN LastReplayed(k) ELSE 0]
    /\ UNCHANGED <<queue, aofVars, child_pid, child, fileVars, writes, saves,
                   crashes, savedVars>>

\* Startup that opens the AOF for writing with O_TRUNC
StartTruncates ==
    /\ ~up /\ up' = TRUE /\ aof' = <<>>
    /\ mem' \in Loaded
    /\ UNCHANGED <<queue, aof_on, synced, durable, child_pid, child, fileVars, writes,
                   saves, crashes, savedVars>>

\* main(): load, then replay.  The file is opened for appending as it is.
Start ==
    /\ ~up /\ up' = TRUE
    /\ \E image \in Loaded :
        mem' = [k \in Keys |-> IF aof_on /\ LastReplayed(k) # 0
                               THEN LastReplayed(k) ELSE image[k]]
    /\ UNCHANGED <<queue, aofVars, child_pid, child, fileVars, writes, saves,
                   crashes, savedVars>>

ChildStep(c) == OpenTmp(c) \/ Fill(c) \/ Rename(c) \/ SaveFails(c)

Next == \/ \E k \in Keys : Write(k)
        \/ AofWrite \/ AofSync
        \/ Fork \/ Reap
        \/ \E c \in Children : ChildStep(c)
        \/ Kill \/ PowerLoss \/ Start

Spec == Init /\ [][Next]_vars

-----------------------------------------------------------------------------

TypeOK ==
    /\ {up, aof_on, undone} \subseteq BOOLEAN
    /\ mem \in Images /\ saved \in Images /\ before \in Images
    /\ queue \in Seq(Frames) /\ aof \in Seq(Frames \cup {Torn})
    /\ synced \in 0..Len(aof) /\ durable \subseteq Frames
    /\ child_pid \in Children \cup {0}
    /\ child \in [Children ->
           [pc : {"none", "open", "fill", "rename", "ok", "failed"},
            image : Images, file : Inodes \cup {0}]]
    /\ inode \in [Inodes -> [image : Images, whole : BOOLEAN]]
    /\ {tmp, dump, old_dump} \subseteq Inodes \cup {0}

\* dump.rdb is a whole snapshot at every moment, whenever the server or the
\* machine dies: SaveToPath fills dump.rdb.tmp, syncs it and renames it
\* (docs/Persist/Snapshot.md, Write path).
DumpWhole == dump # 0 => inode[dump].whole

\* The server has appended frames behind a part of a frame: Replay stopped at
\* it, and left it in the file
AppendedBehindTorn == \E i \in 1..(Len(aof) - 1) : aof[i] = Torn

\* A write whose AOF frame was synced is there after every restart, it or a
\* later write to its key: replay stops only at what a crash cut off
\* (docs/Persist/Aof.md, On-disk format).  This is so until the server appends
\* behind what was cut off, which later replays do not get past.
SyncedSurvives ==
    (up /\ ~AppendedBehindTorn) => \A f \in durable : mem[f[1]] >= f[2]

\* Without an AOF, what the last finished SAVE contains is there after every
\* kill of the server, and after every power loss that leaves the rename of
\* that SAVE in place; nothing syncs the directory (SaveToPath), so a power
\* loss may take that one rename back, and then what was there before it is
\* there again, and never less.  With an AOF, its older frames go over it.
SnapshotSurvives == (up /\ ~aof_on) => \A k \in Keys : mem[k] >= Promised[k]
=============================================================================
