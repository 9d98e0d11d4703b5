----------------------------- MODULE ChatHistory -----------------------------
(***************************************************************************)
(* The chat history store (hotline/chat_history.c) with its disk.  One      *)
(* channel (only channel 0 is ever written), one append-only file named     *)
(* "log", a temporary file "tmp" while a prune rewrites it, and in memory   *)
(* a list of SLOTS, each with an index of the file and an open stream.      *)
(* There should be one slot, but opening the store makes one per directory  *)
(* entry that starts like a channel file, a left-over "tmp" included.       *)
(*                                                                          *)
(* Streams hold inodes and reads go by name, so a stream may go on writing  *)
(* a file that a rename has replaced.  Lines are of equal length: an offset *)
(* is a number of lines.                                                    *)
(***************************************************************************)
EXTENDS ChatQuery, FiniteSets

CONSTANTS
    MaxMsgs,    \* ChatHistoryMaxMessages
    UseDays,    \* is ChatHistoryMaxDays set?
    Inode,      \* inode numbers
    NoInode,
    MaxSaid,    \* bound: messages appended
    MaxStops,   \* bound: stops of the server
    PruneDies,  \* may the process die inside a prune?
    PowerFails, \* may the power fail, and not only the process die?
    DiskFull    \* may the disk fill up while a prune writes?

ASSUME HistoryAssumption ==
    /\ MaxMsgs \in Nat /\ MaxSaid \in Nat /\ MaxStops \in Nat
    /\ MaxSaid < IdMod /\ MaxSaid < SizeMod
    /\ Inode \subseteq Nat /\ NoInode \notin Inode
    /\ \A i, j \in Inode \cup {NoInode} : Inode \ {i, j} # {}
    /\ {UseDays, PruneDies, PowerFails, DiskFull} \subseteq BOOLEAN

VARIABLES
    dir,     \* ["log", "tmp" -> Inode \cup {NoInode}]
    data,    \* [Inode -> Seq(Line)], complete lines
    torn,    \* the log ends in half a line
    synced,  \* lines of the log that are on the disk for certain
    tombs,   \* ids in the tombstones file, and in memory
    up,      \* is the server running?
    slots,   \* ctx->channels
    nextId,  \* ctx->next_id
    prune,   \* where a running prune is
    said,    \* history: the id every message was stored under, in order
    safe,    \* history: which of them an fsync has covered
    stops    \* history: stops so far

disk == <<dir, data, torn, synced, tombs>>
memory == <<up, slots, nextId, prune>>
history == <<said, safe, stops>>
vars == <<disk, memory, history>>

Line == [id: Nat, msg: Nat]                       \* msg: its place in said
Entry == [id: Nat, off: Nat]                      \* lm_chat_idx_entry_t
Slot == [idx: Seq(Entry), fp: Inode]              \* lm_chat_channel_t

NoPrune == [at |-> "no", slot |-> 0, idx |-> <<>>]

Slack == MaxMsgs \div 10
Lines == IF dir.log = NoInode THEN <<>> ELSE data[dir.log]
Readable(off) == off < Len(Lines)          \* lm_read_line_at, by name
LineAt(off) == Lines[off + 1]
Stored(m) == \E i \in DOMAIN Lines : Lines[i].msg = m
Ids(s) == [i \in DOMAIN s |-> s[i].id]

FreeInode ==
    CHOOSE i \in Inode : /\ i \notin {dir.log, dir.tmp}
                         /\ \A k \in DOMAIN slots : slots[k].fp # i

\* Inodes nobody names or holds open are empty again.
Reclaim(d, names, s) ==
    [i \in Inode |-> IF i \in names \/ \E k \in DOMAIN s : s[k].fp = i
                     THEN d[i] ELSE <<>>]

-----------------------------------------------------------------------------
(* Opening: lm_discover_channels and lm_channel_scan. *)

\* The highest id a scan meets; ids in a file may be out of order.
HighestId(lines) ==
    IF lines = <<>> THEN 0
    ELSE CHOOSE m \in {lines[i].id : i \in DOMAIN lines} :
           \A i \in DOMAIN lines : lines[i].id <= m

Scan(lines) == [i \in DOMAIN lines |-> [id |-> lines[i].id, off |-> i - 1]]

\* One slot per directory entry; each scans and reopens the log itself.
Open ==
    /\ ~up
    /\ LET slot == [idx |-> Scan(Lines), fp |-> dir.log]
       IN  slots' = IF dir.log = NoInode THEN <<>>
                    ELSE IF dir.tmp = NoInode THEN <<slot>> ELSE <<slot, slot>>
    /\ up' = TRUE
    /\ torn' = FALSE                         \* ftruncate to the last good line
    /\ synced' = IF torn THEN Len(Lines) ELSE synced
    /\ nextId' = HighestId(Lines) + 1
    /\ prune' = [NoPrune EXCEPT !.at = "slot", !.slot = 1]     \* main.c
    /\ UNCHANGED <<dir, data, tombs, history>>

Init ==
    /\ dir = [log |-> NoInode, tmp |-> NoInode]
    /\ data = [i \in Inode |-> <<>>]
    /\ torn = FALSE /\ synced = 0 /\ tombs = {}
    /\ up = FALSE /\ slots = <<>> /\ nextId = 0 /\ prune = NoPrune
    /\ said = <<>> /\ safe = {} /\ stops = 0

-----------------------------------------------------------------------------
(* Serving.  The thread does one thing at a time: nothing is appended while *)
(* a prune is running.                                                      *)

Serving == up /\ prune.at = "no"

\* lm_channel_get_or_create: the slot and, the first time, the file.
ChannelFile == IF slots = <<>> THEN FreeInode ELSE slots[1].fp
ChannelIdx == IF slots = <<>> THEN <<>> ELSE slots[1].idx
UseChannel(idx) ==
    /\ slots' = <<[idx |-> idx, fp |-> ChannelFile]>> \o SubSeq(slots, 2, Len(slots))
    /\ dir' = IF slots = <<>> THEN [dir EXCEPT !.log = ChannelFile] ELSE dir

\* lm_chat_history_append.
Say ==
    /\ Serving /\ Len(said) < MaxSaid
    /\ UseChannel(Append(ChannelIdx,
                         [id |-> nextId, off |-> Len(data[ChannelFile])]))
    /\ data' = [data EXCEPT ![ChannelFile] =
                  Append(@, [id |-> nextId, msg |-> Len(said) + 1])]
    /\ nextId' = nextId + 1
    /\ said' = Append(said, nextId)
    /\ UNCHANGED <<torn, synced, tombs, up, prune, safe, stops>>

\* A line that does not fit LM_CHAT_LINE_MAX uses up an id and is dropped.
\* The bound leaves ids for the messages to come.
SayTooLong ==
    /\ Serving /\ nextId < IdMod - MaxSaid
    /\ UseChannel(ChannelIdx)
    /\ nextId' = nextId + 1
    /\ UNCHANGED <<data, torn, synced, tombs, up, prune, history>>

\* lm_chat_history_tombstone; one of them is enough for the runs.
Tombstone(id) ==
    /\ Serving /\ tombs = {}
    /\ tombs' = tombs \cup {id}
    /\ UNCHANGED <<dir, data, torn, synced, memory, history>>

\* lm_chat_history_fsync, every minute.
Fsync ==
    /\ Serving
    /\ synced' = IF \E k \in DOMAIN slots : slots[k].fp = dir.log
                 THEN Len(Lines) ELSE synced
    /\ safe' = safe \cup {m \in DOMAIN said : Stored(m)}
    /\ UNCHANGED <<dir, data, torn, tombs, memory, said, stops>>

-----------------------------------------------------------------------------
(* lm_chat_history_prune, slot by slot. *)

\* Mutant: the message at the limit goes too.
DropOneMore(n) == IF MaxMsgs # 0 /\ n > MaxMsgs + Slack THEN n - MaxMsgs + 1 ELSE 0

\* How many of n entries the message limit drops.
Drop(n) == IF MaxMsgs # 0 /\ n > MaxMsgs + Slack THEN n - MaxMsgs ELSE 0

\* Mutant: the entries keep their offsets in the old file.
KeepOffsets(kept) == kept

\* new_idx: the entries' own ids, at their places in the new file.
Reindex(kept) == [i \in DOMAIN kept |-> [id |-> kept[i].id, off |-> i - 1]]

Hourly ==
    /\ Serving
    /\ prune' = [NoPrune EXCEPT !.at = "slot", !.slot = 1]
    /\ UNCHANGED <<disk, up, slots, nextId, history>>

\* How many entries of slot k may go: by count, or by age, where the lines
\* older than the limit are some first part of the file.
Drops(k) ==
    LET n == Len(slots[k].idx)
    IN  {IF a > Drop(n) THEN a ELSE Drop(n) : a \in IF UseDays THEN 0 .. n ELSE {0}}

PruneSkip ==
    /\ up /\ prune.at = "slot" /\ prune.slot <= Len(slots)
    /\ 0 \in Drops(prune.slot)
    /\ prune' = [prune EXCEPT !.slot = @ + 1]
    /\ UNCHANGED <<disk, up, slots, nextId, history>>

\* The lines that can still be read go to a new file; entries are in the order
\* of the file, so these are the first ones.  When the disk is full only the
\* first of them arrive, which nothing checks.
PruneWrite ==
    /\ up /\ prune.at = "slot" /\ prune.slot <= Len(slots)
    /\ \E d \in Drops(prune.slot) \ {0} :
         LET idx == slots[prune.slot].idx
             rest == SubSeq(idx, d + 1, Len(idx))
             kept == [i \in {j \in DOMAIN rest : Readable(rest[j].off)} |-> rest[i]]
             t == IF dir.tmp = NoInode THEN FreeInode ELSE dir.tmp
         IN  \E w \in IF DiskFull THEN 0 .. Len(kept) ELSE {Len(kept)} :
               /\ data' = [data EXCEPT ![t] = [i \in 1 .. w |-> LineAt(kept[i].off)]]
               /\ dir' = [dir EXCEPT !.tmp = t]
               /\ prune' = [prune EXCEPT !.at = "rename", !.idx = Reindex(kept)]
    /\ UNCHANGED <<torn, synced, tombs, up, slots, nextId, history>>

\* Mutant: the new file is renamed without an fsync.
PruneRenameUnsynced ==
    /\ up /\ prune.at = "rename"
    /\ dir' = [log |-> dir.tmp, tmp |-> NoInode]
    /\ slots' = [slots EXCEPT ![prune.slot] = [idx |-> prune.idx, fp |-> dir.tmp]]
    /\ data' = Reclaim(data, {dir.tmp}, slots')
    /\ synced' = 0
    /\ prune' = [at |-> "slot", slot |-> prune.slot + 1, idx |-> <<>>]
    /\ UNCHANGED <<torn, tombs, up, nextId, history>>

\* The new file, synced, takes the name; the slot gets its stream and index.
PruneRename ==
    /\ up /\ prune.at = "rename"
    /\ dir' = [log |-> dir.tmp, tmp |-> NoInode]
    /\ slots' = [slots EXCEPT ![prune.slot] = [idx |-> prune.idx, fp |-> dir.tmp]]
    /\ data' = Reclaim(data, {dir.tmp}, slots')
    /\ synced' = Len(data[dir.tmp])
    /\ prune' = [at |-> "slot", slot |-> prune.slot + 1, idx |-> <<>>]
    /\ UNCHANGED <<torn, tombs, up, nextId, history>>

PruneDone ==
    /\ up /\ prune.at = "slot" /\ prune.slot > Len(slots)
    /\ prune' = NoPrune
    /\ UNCHANGED <<disk, up, slots, nextId, history>>

-----------------------------------------------------------------------------
(* Stops: an exit, a kill in the middle of an append or of a prune, or a    *)
(* power failure, which takes lines no fsync has covered.                   *)

Stop(tear, keep) ==
    /\ up /\ stops < MaxStops
    /\ prune.at # "no" => PruneDies
    /\ tear => prune.at = "no" /\ dir.log # NoInode
    /\ keep = Len(Lines) \/ PowerFails
    /\ up' = FALSE /\ slots' = <<>> /\ nextId' = 0 /\ prune' = NoPrune
    /\ data' = [i \in Inode |-> IF i = dir.log THEN SubSeq(Lines, 1, keep)
                                               ELSE <<>>]
    /\ torn' = tear
    /\ stops' = stops + 1
    /\ UNCHANGED <<dir, synced, tombs, said, safe>>

-----------------------------------------------------------------------------
Next ==
    \/ Open \/ Say \/ SayTooLong \/ Fsync
    \/ \E i \in DOMAIN said : Tombstone(said[i])
    \/ Hourly \/ PruneSkip \/ PruneWrite \/ PruneRename \/ PruneDone
    \/ \E tear \in BOOLEAN, keep \in synced .. Len(Lines) : Stop(tear, keep)

Spec == Init /\ [][Next]_vars

-----------------------------------------------------------------------------
(* Properties. *)

\* The index in memory is the one a scan of the file would build: every
\* entry's offset leads to the line with its id, at every moment of an append,
\* a prune or a recovery at which the server could be asked.
IndexReads == up /\ slots # <<>> => slots[1].idx = Scan(Lines)

\* What a query is answered with: the window of the index, read by offset.
Answer(before, after, limit) ==
    LET idx == slots[1].idx
        w == Window(Ids(idx), before, after, limit)
    IN  [ids |-> [i \in 1 .. w.last - w.first |-> LineAt(idx[w.first + i].off).id],
         more |-> w.more]

Cursors == 0 .. IdMod - 1

\* A query between sound cursors returns exactly the messages between them,
\* and says truly whether there are more.
QueryExact ==
    up /\ slots # <<>> =>
      \A before, after \in Cursors, l \in 0 .. MaxLimit :
        after < IdMod - 1 /\ (before = 0 \/ after < before) =>
          Answer(before, after, Limit(l))
            = Wanted(Ids(Lines), before, after, Limit(l))

\* The id of the latest message kept, and the ids an fsync has covered.
LastId == IF Lines = <<>> THEN 0 ELSE Lines[Len(Lines)].id
Sure == {Lines[i].id : i \in {j \in DOMAIN Lines : Lines[j].msg \in safe}}

\* The store implements the log it promises to be, through kills, power
\* failures, recoveries and prunes that replace its file.
Log == INSTANCE ChatLog WITH
         log <- Lines, lastId <- LastId, sure <- Sure, hidden <- tombs,
         LogIds <- 1 .. IdMod - 1, LogMsgs <- 1 .. MaxSaid

ImplementsLog == Log!LogSpec
=============================================================================
