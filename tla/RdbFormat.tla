------------------------------ MODULE RdbFormat ------------------------------
(***************************************************************************)
(* The snapshot file: what SaveToPath writes, and the two loaders, as      *)
(* operators on sequences of words.  The header is one word, so is every   *)
(* number and every character; a position counts words from 1.  The server *)
(* holds no vectors: the section of the nodes is empty and dim is 0, so    *)
(* that there is none for usearch.                                         *)
(***************************************************************************)
EXTENDS Integers, Sequences, SequencesExt, FiniteSets

KMagic      == "VEMORYDB"
HeaderWords == 1                \* kHeaderBytes

\* The header while the payload is being written: a hole in the file
NoHeader == [magic |-> "", kv_count |-> 0, offset |-> 0, length |-> 0]

-----------------------------------------------------------------------------

\* KvStore::Dump: the number of entries, then lengths and contents.  The order
\* of the entries is that of the hash map.
KvDump(map) ==
    LET keys == SetToSeq(DOMAIN map)
        entry(k) == <<Len(k)>> \o k \o <<Len(map[k])>> \o map[k]
    IN  <<Len(keys)>> \o FlattenSeq([i \in DOMAIN keys |-> entry(keys[i])])

\* SaveToPath: the payload behind a hole, then the header with the table of
\* contents in its place
SaveToPath(map) ==
    LET kv == KvDump(map)
    IN  <<[magic |-> KMagic, kv_count |-> Cardinality(DOMAIN map),
           offset |-> HeaderWords, length |-> Len(kv)]>> \o kv

-----------------------------------------------------------------------------

\* take() of a length and of the string of that length, up to position end
Take(file, pos, end) ==
    IF pos > end THEN [ok |-> FALSE]
    ELSE IF end - pos < file[pos] THEN [ok |-> FALSE]
    ELSE [ok |-> TRUE, str |-> SubSeq(file, pos + 1, pos + file[pos]),
          pos |-> pos + file[pos] + 1]

\* map_.emplace: a key that is there keeps its value
Emplace(map, key, val) ==
    [k \in DOMAIN map \cup {key} |-> IF k \in DOMAIN map THEN map[k] ELSE val]

\* A turn that does not look whether the value could be read
EntryKeepsShort(file, end, acc) ==
    LET key == Take(file, acc.pos, end)
        val == Take(file, key.pos, end)
    IN  IF acc.st # "ok" THEN acc
        ELSE IF ~key.ok THEN [acc EXCEPT !.st = "io"]
        ELSE IF key.str = <<>> THEN [acc EXCEPT !.st = "bad"]
        ELSE IF ~val.ok THEN [acc EXCEPT !.pos = key.pos, !.map = Emplace(@, key.str, <<>>)]
        ELSE [st |-> "ok", pos |-> val.pos, map |-> Emplace(acc.map, key.str, val.str)]

\* One turn of the loop of KvStore::Load and LoadFrom
Entry(file, end, acc) ==
    LET key == Take(file, acc.pos, end)
        val == Take(file, key.pos, end)
    IN  IF acc.st # "ok" THEN acc
        ELSE IF ~key.ok THEN [acc EXCEPT !.st = "io"]
        ELSE IF ~val.ok THEN [acc EXCEPT !.st = "io"]
        ELSE IF key.str = <<>> THEN [acc EXCEPT !.st = "bad"]
        ELSE [st |-> "ok", pos |-> val.pos, map |-> Emplace(acc.map, key.str, val.str)]

\* KvStore::Load of what is between first and end, into an empty store
KvLoad(file, first, end) ==
    IF first > end THEN [st |-> "io", pos |-> first, map |-> <<>>]
    ELSE FoldLeft(LAMBDA acc, i : Entry(file, end, acc),
                  [st |-> "ok", pos |-> first + 1, map |-> <<>>],
                  [i \in 1..file[first] |-> i])

\* KvStore::LoadFrom also wants the section to end with the last entry
KvLoadFrom(file, first, end) ==
    LET r == KvLoad(file, first, end)
    IN  IF r.st = "ok" /\ r.pos # end + 1 THEN [r EXCEPT !.st = "io"] ELSE r

Verdict(st, map) == [st |-> st, map |-> map]

\* What both loaders do with what the store has read
Checked(header, r) ==
    IF r.st # "ok" THEN Verdict("io", r.map)
    ELSE IF Cardinality(DOMAIN r.map) # header.kv_count THEN Verdict("error", r.map)
    ELSE Verdict("ok", r.map)

\* ReadHeader, and with the table of contents ParseHeader
ReadHeader(file) ==
    IF Len(file) < HeaderWords THEN "io"
    ELSE IF file[1].magic # KMagic THEN "error" ELSE "ok"

ParseHeader(file) ==
    IF ReadHeader(file) # "ok" THEN ReadHeader(file)
    ELSE LET h == file[1]
         IN  IF h.length # 0 /\ (h.offset > Len(file) \/ h.length > Len(file) - h.offset)
             THEN "error" ELSE "ok"

\* LoadFromMapped.  before is the store so far, which stays unless the header
\* is in order.
LoadFromMapped(file, before) ==
    LET h == file[1]
    IN  IF ParseHeader(file) # "ok" THEN Verdict(ParseHeader(file), before)
        ELSE Checked(h, KvLoadFrom(file, h.offset + 1, h.offset + h.length))

\* LoadFromFile, which does not look at the lengths of the table of contents
LoadFromFile(file, before) ==
    LET h == file[1]
    IN  IF ReadHeader(file) # "ok" THEN Verdict(ReadHeader(file), before)
        ELSE Checked(h, KvLoad(file, h.offset + 1, Len(file)))

\* LoadFromPath: whatever is wrong with the mapped file, the other loader has
\* a try
LoadFromPath(file, before) ==
    LET mapped == LoadFromMapped(file, before)
    IN  IF mapped.st = "ok" THEN mapped ELSE LoadFromFile(file, mapped.map)

-----------------------------------------------------------------------------

\* The file of a SaveToPath that has not come to the header, and the finished
\* one
Stages(map) ==
    LET file == SaveToPath(map)
    IN  {file, <<NoHeader>> \o Tail(file)}

\* A snapshot of map that was cut anywhere, or has no header yet, is refused by
\* both loaders and leaves no other values in the store than those it had or
\* those of the snapshot; the whole one gives back map (docs/Persist/Snapshot.md).
LoadsWholeOnly(map, before) ==
    \A f \in Stages(map) : \A n \in 0..Len(f) :
        LET r == LoadFromPath(SubSeq(f, 1, n), before)
        IN  IF f[1] # NoHeader /\ n = Len(f)
            THEN r = Verdict("ok", map)
            ELSE /\ r.st # "ok"
                 /\ \/ r.map = before
                    \/ \A k \in DOMAIN r.map : k \in DOMAIN map /\ r.map[k] = map[k]
=============================================================================
