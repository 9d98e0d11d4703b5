------------------------- MODULE ChatHistoryProofs -------------------------
(***************************************************************************)
(* What holds of the chat history for any limit, any number of messages    *)
(* and any number of kills and power failures, as long as none falls into   *)
(* a prune and the disk does not fill up in one (Calm): the index in memory *)
(* always leads to the lines it names, and, when only the number of messages *)
(* limits the file, the store implements the log it promises.  Without Calm *)
(* both are false, and so is the second with an age limit, which may empty   *)
(* the file of its highest id.                                               *)
(***************************************************************************)
EXTENDS ChatHistory, FiniteSetTheorems, SequenceTheorems, WellFoundedInduction, TLAPS

Calm == ~PruneDies /\ ~DiskFull

-----------------------------------------------------------------------------
(* The inductive invariant. *)

Types ==
    /\ dir \in [log: Inode \cup {NoInode}, tmp: Inode \cup {NoInode}]
    /\ data \in [Inode -> Seq(Line)]
    /\ prune \in [at: {"no", "slot", "rename"}, slot: Nat, idx: Seq(Entry)]
    /\ up \in BOOLEAN /\ synced \in Nat /\ nextId \in Nat
    /\ said \in Seq(1 .. IdMod - 1) /\ Len(said) <= MaxSaid
    /\ safe \subseteq DOMAIN said

\* The slots of a server whose one file holds these lines.
One(lines, file) == <<[idx |-> Scan(lines), fp |-> file]>>

\* There is one slot, with the index of a scan and a stream on the log.
Held ==
    /\ slots # <<>> => dir.log # NoInode /\ slots = One(Lines, dir.log)
    /\ up /\ slots = <<>> => dir.log = NoInode
    /\ ~up => slots = <<>> /\ prune.at = "no"

\* A file about to be created is empty.
Clean == \A i \in Inode \ {dir.log, dir.tmp} : data[i] = <<>>

\* d lines are more than the retention allows.
TooMany(lines, d) ==
    /\ d \in 1 .. Len(lines)
    /\ ~UseDays => MaxMsgs > 0 /\ Len(lines) > MaxMsgs /\ d = Len(lines) - MaxMsgs

Rewritten(lines, tail) ==
    \E d \in 1 .. Len(lines) :
        TooMany(lines, d) /\ tail = SubSeq(lines, d + 1, Len(lines))

\* Between the write and the rename the temporary file holds a last part of
\* the log, and the new index is the one of a scan of it.
Pruning ==
    /\ prune.at # "rename" => dir.tmp = NoInode
    /\ prune.at = "slot" => prune.slot # 0
    /\ prune.at = "rename" => /\ prune.slot = 1 /\ slots # <<>>
                              /\ dir.tmp \in Inode \ {dir.log}
                              /\ prune.idx = Scan(data[dir.tmp])
                              /\ Rewritten(Lines, data[dir.tmp])

\* Ids ascend, and leave room for those of the messages to come; there is a
\* line for a message at most once.
Ascending(lines) ==
    \A i, j \in DOMAIN lines : i < j => lines[i].id < lines[j].id
Roomy(lines, k) ==
    /\ Len(lines) <= k
    /\ \A i \in DOMAIN lines :
         /\ lines[i].id # 0 /\ lines[i].id + 1 + (MaxSaid - k) <= IdMod
         /\ lines[i].msg \in 1 .. k
Below(lines, id) == \A i \in DOMAIN lines : lines[i].id < id

Numbered ==
    /\ Ascending(Lines) /\ Roomy(Lines, Len(said))
    /\ up => /\ 0 < nextId /\ nextId + (MaxSaid - Len(said)) <= IdMod
             /\ Below(Lines, nextId)

\* The lines of the messages that a flush covered are on the disk.
Covers(lines, n, ms) ==
    n <= Len(lines) /\ \A i \in DOMAIN lines : lines[i].msg \in ms => i <= n

Synced == Covers(Lines, synced, safe)

IInv == Types /\ Held /\ Clean /\ Pruning /\ Numbered /\ Synced

-----------------------------------------------------------------------------
(* Sequences of lines. *)

LEMMA SameRange ==
  ASSUME NEW a \in Nat, NEW b \in Nat, 1 .. a = 1 .. b
  PROVE  a = b
<1>1. CASE a < b
  <2>1. b \in 1 .. b /\ b \notin 1 .. a
    BY <1>1
  <2>2. QED BY <2>1
<1>2. CASE b < a
  <2>1. a \in 1 .. a /\ a \notin 1 .. b
    BY <1>2
  <2>2. QED BY <2>1
<1>3. QED BY <1>1, <1>2

LEMMA EmptyScan == Scan(<<>>) = <<>>
  BY DEF Scan

LEMMA OneThenNone == \A x : <<x>> \o <<>> = <<x>>
<1> TAKE x
<1>1. <<x>> \in Seq({x})
  OBVIOUS
<1>2. QED BY <1>1, ConcatEmptySeq

\* A scan is as long as the file and leads back to its lines.
LEMMA ScanIs ==
  ASSUME NEW lines \in Seq(Line)
  PROVE  /\ Scan(lines) \in Seq(Entry) /\ Len(Scan(lines)) = Len(lines)
         /\ DOMAIN Scan(lines) = 1 .. Len(lines)
         /\ \A i \in 1 .. Len(lines) :
              Scan(lines)[i] = [id |-> lines[i].id, off |-> i - 1]
<1> DEFINE n == Len(lines)
<1>1. n \in Nat /\ DOMAIN lines = 1 .. n
  BY LenProperties
<1>2. \A i \in 1 .. n : lines[i] \in Line
  BY ElementOfSeq
<1>3. \A i \in 1 .. n : [id |-> lines[i].id, off |-> i - 1] \in Entry
  BY <1>1, <1>2 DEF Line, Entry
<1>4. Scan(lines) \in [1 .. n -> Entry]
  BY <1>1, <1>3 DEF Scan
<1>5. Scan(lines) \in Seq(Entry) /\ DOMAIN Scan(lines) = 1 .. n
  BY <1>1, <1>4 DEF Scan
<1>6. Len(Scan(lines)) = n
  BY <1>1, <1>5, LenProperties
<1>7. QED BY <1>1, <1>5, <1>6 DEF Scan

\* The index of an appended line is appended to the index.
LEMMA ScanAppend ==
  ASSUME NEW lines \in Seq(Line), NEW e \in Line
  PROVE  Scan(Append(lines, e))
           = Append(Scan(lines), [id |-> e.id, off |-> Len(lines)])
<1> DEFINE n == Len(lines)
           a == Append(lines, e)
           x == [id |-> e.id, off |-> n]
           b == Append(Scan(lines), x)
<1>1. n \in Nat /\ x \in Entry
  BY LenProperties DEF Line, Entry
<1>2. a \in Seq(Line) /\ Len(a) = n + 1 /\ a[n + 1] = e
      /\ \A i \in 1 .. n : a[i] = lines[i]
  BY AppendProperties
<1>3. /\ Scan(lines) \in Seq(Entry) /\ Len(Scan(lines)) = n
      /\ \A i \in 1 .. n : Scan(lines)[i] = [id |-> lines[i].id, off |-> i - 1]
  BY ScanIs
<1>4. b \in Seq(Entry) /\ Len(b) = n + 1 /\ b[n + 1] = x
      /\ \A i \in 1 .. n : b[i] = Scan(lines)[i]
  BY <1>1, <1>3, AppendProperties
<1>5. /\ Scan(a) \in Seq(Entry) /\ Len(Scan(a)) = n + 1
      /\ \A i \in 1 .. n + 1 : Scan(a)[i] = [id |-> a[i].id, off |-> i - 1]
  BY <1>2, ScanIs
<1> HIDE DEF a, b, n
<1>6. ASSUME NEW i \in 1 .. n + 1
      PROVE  Scan(a)[i] = b[i]
  <2>1. Scan(a)[i] = [id |-> a[i].id, off |-> i - 1]
    BY <1>5
  <2>2. CASE i = n + 1
    <3>1. a[i].id = e.id /\ i - 1 = n
      BY <2>2, <1>1, <1>2
    <3>2. b[i] = x
      BY <2>2, <1>4
    <3>3. QED BY <2>1, <3>1, <3>2
  <2>3. CASE i # n + 1
    <3>1. i \in 1 .. n
      BY <2>3, <1>1
    <3>2. a[i] = lines[i]
      BY <3>1, <1>2
    <3>3. b[i] = [id |-> lines[i].id, off |-> i - 1]
      BY <3>1, <1>3, <1>4
    <3>4. QED BY <2>1, <3>2, <3>3
  <2>4. QED BY <2>2, <2>3
<1>7. Scan(a) = b
  BY <1>4, <1>5, <1>6, SeqEqual
<1>8. QED BY <1>7 DEF a, b, n

\* A first or a last part of a sequence.
LEMMA PartIs ==
  ASSUME NEW lines \in Seq(Line), NEW m \in 0 .. Len(lines), NEW k \in 0 .. Len(lines),
         m <= k
  PROVE  LET part == SubSeq(lines, m + 1, k)
         IN  /\ part \in Seq(Line) /\ Len(part) = k - m
             /\ DOMAIN part = 1 .. k - m
             /\ \A i \in 1 .. k - m : part[i] = lines[m + i]
<1> DEFINE part == SubSeq(lines, m + 1, k)
<1>1. Len(lines) \in Nat /\ DOMAIN lines = 1 .. Len(lines)
  BY LenProperties
<1>2. \A i \in 1 .. Len(lines) : lines[i] \in Line
  BY ElementOfSeq
<1>3. part = [i \in 1 .. k - m |-> lines[m + i]]
  BY <1>1
<1>4. \A i \in 1 .. k - m : m + i \in 1 .. Len(lines)
  BY <1>1
<1>5. part \in [1 .. k - m -> Line]
  BY <1>2, <1>3, <1>4
<1>6. k - m \in Nat
  BY <1>1
<1>7. part \in Seq(Line) /\ DOMAIN part = 1 .. k - m
  BY <1>3, <1>5, <1>6
<1>8. Len(part) = k - m
  BY <1>6, <1>7, LenProperties
<1>9. QED BY <1>3, <1>7, <1>8

\* What a prune writes and indexes, of a file whose index is a scan's: all the
\* entries it keeps can be read, so it is the rest of the file.
LEMMA RewriteIs ==
  ASSUME NEW lines \in Seq(Line), NEW d \in 1 .. Len(lines)
  PROVE  LET idx == Scan(lines)
             rest == SubSeq(idx, d + 1, Len(idx))
             kept == [i \in {j \in DOMAIN rest : rest[j].off < Len(lines)} |-> rest[i]]
             part == SubSeq(lines, d + 1, Len(lines))
         IN  /\ Len(kept) = Len(part)
             /\ [i \in 1 .. Len(kept) |-> lines[kept[i].off + 1]] = part
             /\ [i \in DOMAIN kept |-> [id |-> kept[i].id, off |-> i - 1]] = Scan(part)
<1> DEFINE n == Len(lines)
           idx == Scan(lines)
           rest == SubSeq(idx, d + 1, Len(idx))
           kept == [i \in {j \in DOMAIN rest : rest[j].off < n} |-> rest[i]]
           part == SubSeq(lines, d + 1, n)
<1>1. n \in Nat /\ d \in 1 .. n /\ n - d \in Nat /\ DOMAIN lines = 1 .. n
  BY LenProperties
<1>2. /\ Len(idx) = n /\ idx \in Seq(Entry)
      /\ \A i \in 1 .. n : idx[i] = [id |-> lines[i].id, off |-> i - 1]
  BY ScanIs
<1> HIDE DEF idx
<1>3. rest = [i \in 1 .. n - d |-> idx[d + i]]
  BY <1>1, <1>2
<1>4. \A i \in 1 .. n - d : d + i \in 1 .. n
  BY <1>1
<1>5. /\ DOMAIN rest = 1 .. n - d
      /\ \A i \in 1 .. n - d : rest[i] = [id |-> lines[d + i].id, off |-> d + i - 1]
  BY <1>2, <1>3, <1>4
<1> HIDE DEF rest
<1>6. \A i \in 1 .. n - d : rest[i].off < n
  BY <1>1, <1>5
<1>7. {j \in DOMAIN rest : rest[j].off < n} = 1 .. n - d
  BY <1>5, <1>6
<1>8. DOMAIN kept = 1 .. n - d /\ \A i \in 1 .. n - d : kept[i] = rest[i]
  BY <1>7
<1>9. \A i \in 1 .. n - d : idx[d + i] \in Entry
  BY <1>2, <1>4, ElementOfSeq
<1>10. kept = [i \in 1 .. n - d |-> rest[i]]
  BY <1>7
<1>11. \A i \in 1 .. n - d : rest[i] \in Entry
  BY <1>3, <1>9
<1>12. kept \in [1 .. n - d -> Entry]
  BY <1>10, <1>11
<1> HIDE DEF kept
<1>13. Len(kept) = n - d
  <2>1. kept \in Seq(Entry)
    BY <1>1, <1>12
  <2>2. Len(kept) \in Nat /\ DOMAIN kept = 1 .. Len(kept)
    BY <2>1, LenProperties
  <2>3. DOMAIN kept = 1 .. n - d
    BY <1>12
  <2>4. QED BY <2>2, <2>3, <1>1, SameRange
<1>14. /\ part \in Seq(Line) /\ Len(part) = n - d /\ DOMAIN part = 1 .. n - d
       /\ \A i \in 1 .. n - d : part[i] = lines[d + i]
  <2>1. d \in 0 .. n /\ n \in 0 .. n /\ d <= n
    BY <1>1
  <2>2. QED BY <2>1, PartIs
<1>15. part = [i \in 1 .. n - d |-> lines[d + i]]
  BY <1>1
<1> HIDE DEF part
<1>16. \A i \in 1 .. n - d : lines[kept[i].off + 1] = lines[d + i]
  <2>1. ASSUME NEW i \in 1 .. n - d
        PROVE  kept[i].off + 1 = d + i
    BY <2>1, <1>1, <1>5, <1>8
  <2>2. QED BY <2>1
<1>17. [i \in 1 .. Len(kept) |-> lines[kept[i].off + 1]] = part
  BY <1>13, <1>15, <1>16
<1>18. ASSUME NEW i \in 1 .. n - d
       PROVE  kept[i].id = part[i].id
  <2>1. kept[i] = [id |-> lines[d + i].id, off |-> d + i - 1]
    BY <1>5, <1>8
  <2>2. part[i] = lines[d + i]
    BY <1>14
  <2>3. QED BY <2>1, <2>2
<1>19. [i \in DOMAIN kept |-> [id |-> kept[i].id, off |-> i - 1]] = Scan(part)
  BY <1>8, <1>14, <1>18 DEF Scan
<1>20. QED BY <1>13, <1>14, <1>17, <1>19 DEF kept, rest, idx, part

-----------------------------------------------------------------------------
(* Ids. *)

\* The highest id of a file in order is its last.
LEMMA HighestIsLast ==
  ASSUME NEW lines \in Seq(Line), Ascending(lines), lines # <<>>
  PROVE  HighestId(lines) = lines[Len(lines)].id
<1> DEFINE n == Len(lines)
           ids == {lines[i].id : i \in DOMAIN lines}
<1>1. n \in Nat \ {0} /\ DOMAIN lines = 1 .. n
  BY LenProperties, EmptySeq
<1>2. \A i \in 1 .. n : lines[i].id \in Nat
  <2>1. \A i \in 1 .. n : lines[i] \in Line
    BY ElementOfSeq
  <2>2. QED BY <2>1 DEF Line
<1>3. \A i \in 1 .. n : lines[i].id <= lines[n].id
  <2>1. ASSUME NEW i \in 1 .. n
        PROVE  lines[i].id <= lines[n].id
    <3> HIDE DEF n
    <3>1. i = n \/ lines[i].id < lines[n].id
      <4>1. i = n \/ i < n
        BY <2>1, <1>1
      <4>2. i \in DOMAIN lines /\ n \in DOMAIN lines
        BY <2>1, <1>1
      <4>3. QED BY <4>1, <4>2 DEF Ascending
    <3>2. lines[i].id \in Nat /\ lines[n].id \in Nat
      BY <1>1, <1>2
    <3>3. QED BY <3>1, <3>2
  <2>2. QED BY <2>1
<1>4. n \in 1 .. n
  BY <1>1
<1>5. ASSUME NEW m \in ids, \A i \in DOMAIN lines : lines[i].id <= m
      PROVE  m = lines[n].id
  <2>1. PICK i \in 1 .. n : m = lines[i].id
    BY <1>1
  <2>2. m <= lines[n].id /\ lines[n].id <= m /\ m \in Nat /\ lines[n].id \in Nat
    BY <1>1, <1>2, <1>3, <1>4, <1>5, <2>1
  <2>3. QED BY <2>2
<1>6. lines[n].id \in ids /\ \A i \in DOMAIN lines : lines[i].id <= lines[n].id
  BY <1>1, <1>3, <1>4
<1>7. HighestId(lines) = CHOOSE m \in ids : \A i \in DOMAIN lines : lines[i].id <= m
  BY DEF HighestId
<1>8. QED BY <1>5, <1>6, <1>7

\* A part of a file keeps the order and the room of its ids.
LEMMA PartNumbered ==
  ASSUME NEW lines \in Seq(Line), NEW m \in 0 .. Len(lines), NEW k \in 0 .. Len(lines),
         m <= k, NEW c \in Nat, Ascending(lines), Roomy(lines, c)
  PROVE  LET part == SubSeq(lines, m + 1, k)
         IN  /\ Ascending(part) /\ Roomy(part, c)
             /\ \A x : Below(lines, x) => Below(part, x)
<1> DEFINE part == SubSeq(lines, m + 1, k)
<1>1. /\ DOMAIN part = 1 .. k - m /\ Len(part) = k - m
      /\ \A i \in 1 .. k - m : part[i] = lines[m + i]
  BY PartIs
<1>2. Len(lines) \in Nat /\ DOMAIN lines = 1 .. Len(lines)
  BY LenProperties
<1> HIDE DEF part
<1>3. \A i \in 1 .. k - m : m + i \in DOMAIN lines
  BY <1>2
<1>4. Ascending(part)
  <2>1. ASSUME NEW i \in 1 .. k - m, NEW j \in 1 .. k - m, i < j
        PROVE  part[i].id < part[j].id
    <3>1. m + i < m + j
      BY <2>1, <1>2
    <3>2. QED BY <3>1, <1>1, <1>3 DEF Ascending
  <2>2. QED BY <2>1, <1>1 DEF Ascending
<1>5. Roomy(part, c)
  <2>1. Len(lines) <= c
    BY DEF Roomy
  <2>2. Len(part) <= c
    BY <1>1, <1>2, <2>1
  <2>3. QED BY <1>1, <1>3, <2>2 DEF Roomy
<1>6. \A x : Below(lines, x) => Below(part, x)
  BY <1>1, <1>3 DEF Below
<1>7. QED BY <1>4, <1>5, <1>6 DEF part

\* So does a new line under an id above all others.
LEMMA AppendNumbered ==
  ASSUME NEW lines \in Seq(Line), NEW c \in Nat, NEW id \in Nat,
         Ascending(lines), Roomy(lines, c), Below(lines, id),
         0 < id, id + (MaxSaid - c) <= IdMod
  PROVE  LET new == Append(lines, [id |-> id, msg |-> c + 1])
         IN  Ascending(new) /\ Roomy(new, c + 1) /\ Below(new, id + 1)
<1> DEFINE n == Len(lines)
           e == [id |-> id, msg |-> c + 1]
           new == Append(lines, e)
<1>1. n \in Nat /\ DOMAIN lines = 1 .. n
  BY LenProperties
<1>2. e \in Line /\ e.id = id /\ e.msg = c + 1
  BY DEF Line
<1> HIDE DEF e
<1>3. new \in Seq(Line) /\ Len(new) = n + 1 /\ new[n + 1] = e
      /\ \A i \in 1 .. n : new[i] = lines[i]
  BY <1>2, AppendProperties
<1> HIDE DEF new
<1>4. DOMAIN new = 1 .. n + 1
  BY <1>3, LenProperties
<1>5. \A i \in 1 .. n + 1 : i = n + 1 \/ i \in 1 .. n
  BY <1>1
<1>6. \A i \in 1 .. n : lines[i].id < id /\ lines[i].id \in Nat
  <2>1. \A i \in 1 .. n : lines[i] \in Line
    BY ElementOfSeq
  <2>2. \A i \in 1 .. n : lines[i].id \in Nat
    BY <2>1 DEF Line
  <2>3. QED BY <2>2, <1>1 DEF Below
<1>7. Ascending(new)
  <2>1. ASSUME NEW i \in 1 .. n + 1, NEW j \in 1 .. n + 1, i < j
        PROVE  new[i].id < new[j].id
    <3>1. i \in 1 .. n
      BY <2>1, <1>1
    <3>2. CASE j = n + 1
      BY <3>1, <3>2, <1>2, <1>3, <1>6
    <3>3. CASE j \in 1 .. n
      BY <2>1, <3>1, <3>3, <1>1, <1>3 DEF Ascending
    <3>4. QED BY <3>2, <3>3, <1>5
  <2>2. QED BY <2>1, <1>4 DEF Ascending
<1>8. MaxSaid \in Nat /\ IdMod \in Nat
  BY HistoryAssumption, IdModAssumption
<1>9. Roomy(new, c + 1)
  <2>1. ASSUME NEW i \in 1 .. n + 1
        PROVE  /\ new[i].id # 0 /\ new[i].id + 1 + (MaxSaid - (c + 1)) <= IdMod
               /\ new[i].msg \in 1 .. c + 1
    <3>1. CASE i = n + 1
      <4>1. new[i].id = id /\ new[i].msg = c + 1
        BY <3>1, <1>2, <1>3
      <4>2. id # 0 /\ id + 1 + (MaxSaid - (c + 1)) <= IdMod /\ c + 1 \in 1 .. c + 1
        BY <1>8
      <4>3. QED BY <4>1, <4>2
    <3>2. CASE i \in 1 .. n
      <4>1. /\ lines[i].id # 0 /\ lines[i].id + 1 + (MaxSaid - c) <= IdMod
            /\ lines[i].msg \in 1 .. c /\ lines[i].id \in Nat
        BY <3>2, <1>1, <1>6 DEF Roomy
      <4>2. new[i] = lines[i]
        BY <3>2, <1>3
      <4>3. lines[i].id + 1 + (MaxSaid - (c + 1)) <= IdMod
        <5> DEFINE x == lines[i].id
        <5>1. x \in Nat /\ x + 1 + (MaxSaid - c) <= IdMod
          BY <4>1
        <5> HIDE DEF x
        <5>2. x + 1 + (MaxSaid - (c + 1)) <= IdMod
          BY <5>1, <1>8
        <5>3. QED BY <5>2 DEF x
      <4>4. lines[i].msg \in 1 .. c + 1
        BY <4>1
      <4>5. QED BY <4>1, <4>2, <4>3, <4>4
    <3>3. QED BY <3>1, <3>2, <1>5
  <2>2. Len(new) <= c + 1
    <3>1. n <= c
      BY DEF Roomy
    <3>2. QED BY <1>1, <1>3, <3>1
  <2>3. QED BY <2>1, <2>2, <1>4 DEF Roomy
<1>10. Below(new, id + 1)
  <2>1. ASSUME NEW i \in 1 .. n + 1
        PROVE  new[i].id < id + 1
    BY SMTT(30), <1>2, <1>3, <1>5, <1>6
  <2>2. QED BY <2>1, <1>4 DEF Below
<1>11. QED BY <1>7, <1>9, <1>10 DEF new, e

-----------------------------------------------------------------------------
(* The state between steps. *)

LEMMA LinesAre ==
  ASSUME Types
  PROVE  /\ Lines \in Seq(Line) /\ Len(Lines) \in Nat
         /\ DOMAIN Lines = 1 .. Len(Lines)
<1>1. Lines \in Seq(Line)
  BY EmptySeq DEF Types, Lines
<1>2. QED BY <1>1, LenProperties

\* There is always an inode for a new file.
LEMMA FreeIsFree ==
  ASSUME Types, Held
  PROVE  FreeInode \in Inode \ {dir.log, dir.tmp}
<1>1. dir.log \in Inode \cup {NoInode} /\ dir.tmp \in Inode \cup {NoInode}
  BY DEF Types
<1>2. PICK f \in Inode : f \notin {dir.log, dir.tmp}
  BY <1>1, HistoryAssumption
<1>3. \A k \in DOMAIN slots : slots[k].fp # f
  BY <1>2 DEF Held, One
<1>4. QED BY <1>2, <1>3 DEF FreeInode

\* A serving store has its file, or is about to create it, empty.
LEMMA ChannelIs ==
  ASSUME IInv, Serving
  PROVE  /\ ChannelFile \in Inode /\ data[ChannelFile] = Lines
         /\ ChannelIdx = Scan(Lines) /\ dir.tmp = NoInode
         /\ \A i \in Inode \ {ChannelFile} : data[i] = <<>>
         /\ \A idx : UseChannel(idx) =>
              /\ slots' = <<[idx |-> idx, fp |-> ChannelFile]>>
              /\ dir' = [log |-> ChannelFile, tmp |-> NoInode]
<1>1. dir \in [log: Inode \cup {NoInode}, tmp: Inode \cup {NoInode}] /\ NoInode \notin Inode
  BY HistoryAssumption DEF IInv, Types
<1>2. up /\ prune.at = "no" /\ dir.tmp = NoInode
  BY DEF IInv, Pruning, Serving
<1>3. CASE slots = <<>>
  <2>1. dir.log = NoInode /\ Lines = <<>>
    BY <1>2, <1>3 DEF IInv, Held, Lines
  <2>2. ChannelFile \in Inode /\ ChannelIdx = <<>>
    BY <1>3, FreeIsFree DEF IInv, ChannelFile, ChannelIdx
  <2>3. \A i \in Inode : data[i] = <<>>
    BY <1>1, <1>2, <2>1 DEF IInv, Clean
  <2> DEFINE f == ChannelFile
  <2>4. f \in Inode
    BY <2>2
  <2> HIDE DEF f
  <2>5. [dir EXCEPT !.log = f] = [log |-> f, tmp |-> NoInode]
    BY <1>1, <1>2
  <2>6. ASSUME NEW idx, UseChannel(idx)
        PROVE  /\ slots' = <<[idx |-> idx, fp |-> f]>>
               /\ dir' = [log |-> f, tmp |-> NoInode]
    <3>1. slots' = <<[idx |-> idx, fp |-> f]>> \o SubSeq(slots, 2, Len(slots))
          /\ dir' = [dir EXCEPT !.log = f]
      BY <1>3, <2>6 DEF UseChannel, f
    <3>2. SubSeq(slots, 2, Len(slots)) = <<>>
      BY <1>3
    <3>3. QED BY <3>1, <3>2, <2>5, OneThenNone
  <2>7. QED BY <1>2, <2>1, <2>2, <2>3, <2>6, EmptyScan DEF f
<1>4. CASE slots # <<>>
  <2>1. dir.log # NoInode /\ slots = <<[idx |-> Scan(Lines), fp |-> dir.log]>>
    BY <1>4 DEF IInv, Held, One
  <2>2. ChannelFile = dir.log /\ ChannelIdx = Scan(Lines)
    BY <1>4, <2>1 DEF ChannelFile, ChannelIdx
  <2>3. dir.log \in Inode /\ Lines = data[dir.log]
    BY <1>1, <2>1 DEF Lines
  <2>4. \A i \in Inode \ {dir.log} : data[i] = <<>>
    BY <1>1, <1>2 DEF IInv, Clean
  <2> DEFINE g == dir.log
  <2>5. dir = [log |-> g, tmp |-> NoInode]
    BY <1>1, <1>2
  <2>6. ASSUME NEW idx, UseChannel(idx)
        PROVE  /\ slots' = <<[idx |-> idx, fp |-> g]>>
               /\ dir' = [log |-> g, tmp |-> NoInode]
    <3>1. slots' = <<[idx |-> idx, fp |-> g]>> \o SubSeq(slots, 2, Len(slots))
          /\ dir' = dir
      BY <1>4, <2>2, <2>6 DEF UseChannel
    <3>2. SubSeq(slots, 2, Len(slots)) = <<>>
      BY <2>1
    <3>3. QED BY <3>1, <3>2, <2>5, OneThenNone
  <2>7. QED BY <1>2, <2>2, <2>3, <2>4, <2>6
<1>5. QED BY <1>3, <1>4

\* What the rest of the invariant needs of a step after which one file, f,
\* holds all there is.
LEMMA OneFile ==
  ASSUME NEW f \in Inode,
         dir' = [log |-> f, tmp |-> NoInode],
         \A i \in Inode \ {f} : data'[i] = <<>>,
         slots' = One(Lines', f), up',
         prune'.at # "rename", prune'.at = "slot" => prune'.slot # 0
  PROVE  Held' /\ Clean' /\ Pruning' /\ Lines' = data'[f]
<1>1. f # NoInode /\ dir'.log = f /\ dir'.tmp = NoInode
  BY HistoryAssumption
<1>2. Lines' = data'[f]
  BY <1>1 DEF Lines
<1>3. slots' # <<>>
  BY DEF One
<1>4. slots' = One(Lines', dir'.log)
  BY <1>1 DEF One, Scan
<1>5. Held'
  BY <1>1, <1>3, <1>4 DEF Held, One
<1>6. Clean'
  BY <1>1 DEF Clean
<1>7. Pruning'
  BY <1>1 DEF Pruning
<1>8. QED BY <1>2, <1>5, <1>6, <1>7

-----------------------------------------------------------------------------
(* Every step keeps the invariant. *)

LEMMA InitInv == Init => IInv
<1> SUFFICES ASSUME Init PROVE IInv
  OBVIOUS
<1>1. /\ dir = [log |-> NoInode, tmp |-> NoInode] /\ data = [i \in Inode |-> <<>>]
      /\ synced = 0 /\ up = FALSE /\ slots = <<>> /\ nextId = 0
      /\ prune = [at |-> "no", slot |-> 0, idx |-> <<>>] /\ said = <<>> /\ safe = {}
  BY DEF Init, NoPrune
<1>2. Lines = <<>> /\ DOMAIN <<>> = {} /\ Len(<<>>) = 0
  BY <1>1 DEF Lines
<1>3. Types
  <2>1. data \in [Inode -> Seq(Line)]
    BY <1>1, EmptySeq
  <2>2. prune \in [at: {"no", "slot", "rename"}, slot: Nat, idx: Seq(Entry)]
    BY <1>1, EmptySeq
  <2>3. dir \in [log: Inode \cup {NoInode}, tmp: Inode \cup {NoInode}]
    BY <1>1
  <2>4. said \in Seq(1 .. IdMod - 1) /\ Len(said) <= MaxSaid
    BY <1>1, EmptySeq, HistoryAssumption
  <2>5. QED BY <1>1, <2>1, <2>2, <2>3, <2>4 DEF Types
<1>4. Held /\ Clean /\ Pruning
  BY <1>1 DEF Held, Clean, Pruning
<1>5. Numbered
  BY <1>1, <1>2 DEF Numbered, Ascending, Roomy, Below
<1>6. Synced
  BY <1>1, <1>2 DEF Synced, Covers
<1>7. QED BY <1>3, <1>4, <1>5, <1>6 DEF IInv

\* Steps of the prune that only move on.
LEMMA MovesOn ==
  ASSUME IInv, up, prune.at # "rename",
         UNCHANGED <<dir, data, synced, up, slots, nextId, said, safe>>,
         prune' \in [at: {"no", "slot"}, slot: Nat, idx: Seq(Entry)],
         prune'.at = "slot" => prune'.slot # 0
  PROVE  IInv'
<1>1. Lines' = Lines
  BY DEF Lines
<1>2. Types'
  BY DEF IInv, Types
<1>3. Held'
  BY <1>1 DEF IInv, Held, One, Scan
<1>4. Clean' /\ Pruning'
  BY DEF IInv, Clean, Pruning
<1>5. Numbered' /\ Synced'
  BY <1>1 DEF IInv, Numbered, Synced
<1>6. QED BY <1>2, <1>3, <1>4, <1>5 DEF IInv

LEMMA PruneStepInv ==
  ASSUME IInv, Hourly \/ PruneSkip \/ PruneDone
  PROVE  IInv'
<1>1. UNCHANGED <<dir, data, synced, up, slots, nextId, said, safe>>
  BY DEF Hourly, PruneSkip, PruneDone, disk, history
<1>2. up /\ prune.at # "rename"
  BY DEF Hourly, PruneSkip, PruneDone, Serving
<1>3. prune \in [at: {"no", "slot", "rename"}, slot: Nat, idx: Seq(Entry)]
  BY DEF IInv, Types
<1>4. <<>> \in Seq(Entry)
  BY EmptySeq
<1>5. CASE Hourly
  <2>1. prune' = [at |-> "slot", slot |-> 1, idx |-> <<>>]
    BY <1>5 DEF Hourly, NoPrune
  <2>2. prune' \in [at: {"no", "slot"}, slot: Nat, idx: Seq(Entry)]
    BY <1>4, <2>1
  <2>3. QED BY <1>1, <1>2, <2>1, <2>2, MovesOn
<1>6. CASE PruneSkip
  <2>1. prune.at = "slot" /\ prune' = [prune EXCEPT !.slot = @ + 1]
    BY <1>6 DEF PruneSkip
  <2> DEFINE n == prune.slot + 1
  <2>2. n \in Nat /\ n # 0
    BY <1>3
  <2>3. prune' = [prune EXCEPT !.slot = n]
    BY <2>1
  <2> HIDE DEF n
  <2>4. prune' \in [at: {"no", "slot"}, slot: Nat, idx: Seq(Entry)]
        /\ prune'.slot # 0
    BY <1>3, <2>1, <2>2, <2>3
  <2>5. QED BY <1>1, <1>2, <2>4, MovesOn
<1>7. CASE PruneDone
  <2>1. prune' = [at |-> "no", slot |-> 0, idx |-> <<>>]
    BY <1>7 DEF PruneDone, NoPrune
  <2>2. prune' \in [at: {"no", "slot"}, slot: Nat, idx: Seq(Entry)]
    BY <1>4, <2>1
  <2>3. QED BY <1>1, <1>2, <2>1, <2>2, MovesOn
<1>8. QED BY <1>5, <1>6, <1>7

LEMMA TombstoneInv ==
  ASSUME IInv, NEW id, Tombstone(id)
  PROVE  IInv'
<1>1. UNCHANGED <<dir, data, synced, up, slots, nextId, said, safe, prune>>
  BY DEF Tombstone, memory, history
<1>2. up /\ prune.at = "no"
  BY DEF Tombstone, Serving
<1>3. prune \in [at: {"no", "slot", "rename"}, slot: Nat, idx: Seq(Entry)]
  BY DEF IInv, Types
<1>4. prune' \in [at: {"no", "slot"}, slot: Nat, idx: Seq(Entry)]
  BY <1>1, <1>2, <1>3
<1>5. QED BY <1>1, <1>2, <1>4, MovesOn

LEMMA FsyncInv ==
  ASSUME IInv, Fsync
  PROVE  IInv'
<1>1. /\ UNCHANGED <<dir, data, up, slots, nextId, said, prune>>
      /\ synced' = IF \E k \in DOMAIN slots : slots[k].fp = dir.log
                   THEN Len(Lines) ELSE synced
      /\ safe' = safe \cup {m \in DOMAIN said : Stored(m)}
      /\ up
  BY DEF Fsync, memory, Serving
<1>2. Lines' = Lines
  BY <1>1 DEF Lines
<1>3. Lines \in Seq(Line) /\ Len(Lines) \in Nat /\ DOMAIN Lines = 1 .. Len(Lines)
  BY LinesAre DEF IInv
<1>4. synced' = Len(Lines)
  <2>1. CASE slots = <<>>
    <3>1. Lines = <<>>
      BY <1>1, <2>1 DEF IInv, Held, Lines
    <3>2. synced = 0 /\ Len(Lines) = 0
      BY <3>1 DEF IInv, Types, Synced, Covers
    <3>3. QED BY <1>1, <3>2
  <2>2. CASE slots # <<>>
    <3>1. 1 \in DOMAIN slots /\ slots[1].fp = dir.log
      BY <2>2 DEF IInv, Held, One
    <3>2. QED BY <1>1, <3>1
  <2>3. QED BY <2>1, <2>2
<1>5. Types'
  BY <1>1, <1>3, <1>4 DEF IInv, Types
<1>6. Held'
  BY <1>1, <1>2 DEF IInv, Held, One, Scan
<1>7. Clean'
  BY <1>1 DEF IInv, Clean
<1>8. Pruning'
  BY <1>1, <1>2 DEF IInv, Pruning, Rewritten, TooMany, Scan
<1>9. Numbered'
  BY <1>1, <1>2 DEF IInv, Numbered
<1>10. Synced'
  BY <1>2, <1>3, <1>4 DEF Synced, Covers
<1>11. QED BY <1>5, <1>6, <1>7, <1>8, <1>9, <1>10 DEF IInv

LEMMA OpenInv ==
  ASSUME IInv, Open
  PROVE  IInv'
<1> DEFINE slot == [idx |-> Scan(Lines), fp |-> dir.log]
<1>1. /\ UNCHANGED <<dir, data, said, safe>> /\ ~up /\ up' = TRUE
      /\ slots' = IF dir.log = NoInode THEN <<>>
                  ELSE IF dir.tmp = NoInode THEN <<slot>> ELSE <<slot, slot>>
      /\ synced' = IF torn THEN Len(Lines) ELSE synced
      /\ nextId' = HighestId(Lines) + 1
      /\ prune' = [at |-> "slot", slot |-> 1, idx |-> <<>>]
  BY DEF Open, NoPrune, history
<1>2. prune.at = "no" /\ dir.tmp = NoInode
  BY <1>1 DEF IInv, Held, Pruning
<1>3. Lines' = Lines
  BY <1>1 DEF Lines
<1>4. Lines \in Seq(Line) /\ Len(Lines) \in Nat /\ DOMAIN Lines = 1 .. Len(Lines)
  BY LinesAre DEF IInv
<1>5. MaxSaid \in Nat /\ IdMod \in Nat /\ MaxSaid < IdMod
  BY HistoryAssumption, IdModAssumption
<1>6. Len(said) \in Nat /\ Len(said) <= MaxSaid
  BY LenProperties DEF IInv, Types
<1>7. /\ nextId' \in Nat /\ 0 < nextId' /\ nextId' + (MaxSaid - Len(said)) <= IdMod
      /\ Below(Lines, nextId')
  <2>1. CASE Lines = <<>>
    <3>1. nextId' = 1 /\ DOMAIN Lines = {}
      BY <1>1, <2>1 DEF HighestId
    <3>2. QED BY <3>1, <1>5, <1>6 DEF Below
  <2>2. CASE Lines # <<>>
    <3> DEFINE n == Len(Lines)
               x == Lines[n].id
    <3>1. n \in 1 .. n
      BY <1>4, <2>2, EmptySeq
    <3>2. nextId' = x + 1
      BY <1>1, <1>4, <2>2, HighestIsLast DEF IInv, Numbered
    <3>3. x \in Nat
      <4>1. Lines[n] \in Line
        BY <1>4, <3>1, ElementOfSeq
      <4>2. QED BY <4>1 DEF Line
    <3>4. x # 0 /\ x + 1 + (MaxSaid - Len(said)) <= IdMod
      BY <1>4, <3>1 DEF IInv, Numbered, Roomy
    <3>5. Below(Lines, x + 1)
      <4>1. ASSUME NEW i \in DOMAIN Lines
            PROVE  Lines[i].id < x + 1
        <5>1. Lines[i] \in Line /\ i \in 1 .. n
          BY <1>4, <4>1, ElementOfSeq
        <5>2. Lines[i].id \in Nat
          BY <5>1 DEF Line
        <5>3. i = n \/ i < n
          <6> HIDE DEF n
          <6>1. QED BY <3>1, <5>1
        <5>4. i = n \/ Lines[i].id < x
          BY <1>4, <3>1, <5>1, <5>3 DEF IInv, Numbered, Ascending
        <5>5. QED BY <3>3, <5>2, <5>4
      <4>2. QED BY <4>1 DEF Below
    <3> HIDE DEF x
    <3>6. QED BY <1>5, <1>6, <3>2, <3>3, <3>4, <3>5
  <2>3. QED BY <2>1, <2>2
<1>8. Types'
  <2>1. prune' \in [at: {"no", "slot", "rename"}, slot: Nat, idx: Seq(Entry)]
    BY <1>1, EmptySeq
  <2>2. synced' \in Nat
    BY <1>1, <1>4 DEF IInv, Types
  <2>3. QED BY <1>1, <1>7, <2>1, <2>2 DEF IInv, Types
<1>9. Held'
  <2>1. slots' = IF dir.log = NoInode THEN <<>> ELSE One(Lines, dir.log)
    BY <1>1, <1>2 DEF One
  <2>2. One(Lines, dir.log) # <<>>
    BY DEF One
  <2>3. QED BY <1>1, <1>3, <2>1, <2>2 DEF Held, One, Scan
<1>10. Clean' /\ Pruning'
  BY <1>1, <1>2 DEF IInv, Clean, Pruning
<1>11. Numbered'
  BY <1>1, <1>3, <1>7 DEF IInv, Numbered
<1>12. Synced'
  <2>1. Covers(Lines, synced, safe) /\ synced \in Nat
    BY DEF IInv, Synced, Types
  <2>2. Covers(Lines, synced', safe)
    BY <1>1, <1>4, <2>1 DEF Covers
  <2>3. QED BY <1>1, <1>3, <2>2 DEF Synced
<1>13. QED BY <1>8, <1>9, <1>10, <1>11, <1>12 DEF IInv

\* The line of a new message.
NewLine == [id |-> nextId, msg |-> Len(said) + 1]

\* What saying something changes.
LEMMA SayIs ==
  ASSUME IInv, Say
  PROVE  /\ dir' = [log |-> ChannelFile, tmp |-> NoInode]
         /\ data' = [data EXCEPT ![ChannelFile] = Append(Lines, NewLine)]
         /\ slots' = One(Append(Lines, NewLine), ChannelFile)
         /\ Lines' = Append(Lines, NewLine)
         /\ nextId' = nextId + 1 /\ said' = Append(said, nextId)
         /\ UNCHANGED <<torn, synced, tombs, up, prune, safe, stops>>
         /\ up /\ prune.at = "no" /\ NewLine \in Line
         /\ Len(said) \in Nat /\ Len(said) < MaxSaid
         /\ nextId \in 1 .. IdMod - 1 /\ Below(Lines, nextId)
<1> DEFINE f == ChannelFile
           e == NewLine
           x == [id |-> nextId, off |-> Len(data[f])]
           i == Append(ChannelIdx, x)
<1>1. /\ Serving /\ Len(said) < MaxSaid
      /\ UseChannel(i)
      /\ data' = [data EXCEPT ![f] = Append(data[f], e)]
      /\ nextId' = nextId + 1 /\ said' = Append(said, nextId)
      /\ UNCHANGED <<torn, synced, tombs, up, prune, safe, stops>>
  BY DEF Say, NewLine
<1>2. /\ f \in Inode /\ data[f] = Lines /\ ChannelIdx = Scan(Lines)
      /\ slots' = <<[idx |-> i, fp |-> f]>>
      /\ dir' = [log |-> f, tmp |-> NoInode]
  BY <1>1, ChannelIs
<1>3. Lines \in Seq(Line)
  BY LinesAre DEF IInv
<1>4. Len(said) \in Nat
  BY LenProperties DEF IInv, Types
<1>5. e \in Line /\ e.id = nextId
  BY <1>4 DEF IInv, Types, Line, NewLine
<1> HIDE DEF e
<1>6. i = Scan(Append(Lines, e))
  BY <1>2, <1>3, <1>5, ScanAppend
<1> HIDE DEF i
<1>7. data' = [data EXCEPT ![f] = Append(Lines, e)]
  BY <1>1, <1>2
<1>8. Lines' = Append(Lines, e)
  <2>1. dir'.log = f /\ f # NoInode
    BY <1>2, HistoryAssumption
  <2>2. data'[f] = Append(Lines, e)
    BY <1>2, <1>7 DEF IInv, Types
  <2>3. QED BY <2>1, <2>2 DEF Lines
<1>9. up /\ prune.at = "no"
  BY <1>1 DEF Serving
<1>10. nextId \in 1 .. IdMod - 1 /\ Below(Lines, nextId)
  <2>1. /\ nextId \in Nat /\ 0 < nextId /\ nextId + (MaxSaid - Len(said)) <= IdMod
        /\ Below(Lines, nextId)
    BY <1>9 DEF IInv, Numbered, Types
  <2>2. QED BY <1>1, <1>4, <2>1, HistoryAssumption, IdModAssumption
<1>11. slots' = One(Append(Lines, e), f)
  BY <1>2, <1>6 DEF One
<1>12. QED BY <1>1, <1>2, <1>4, <1>5, <1>7, <1>8, <1>9, <1>10, <1>11 DEF e

LEMMA SayInv ==
  ASSUME IInv, Say
  PROVE  IInv'
<1> DEFINE f == ChannelFile
           e == NewLine
           n == Len(Lines)
           c == Len(said)
           new == Append(Lines, e)
<1>1. f \in Inode /\ \A i \in Inode \ {f} : data[i] = <<>>
  BY ChannelIs DEF Say
<1>2. /\ dir' = [log |-> f, tmp |-> NoInode]
      /\ data' = [data EXCEPT ![f] = new]
      /\ slots' = One(new, f) /\ Lines' = new
      /\ nextId' = nextId + 1 /\ said' = Append(said, nextId)
      /\ UNCHANGED <<synced, up, prune, safe>>
      /\ up /\ prune.at = "no" /\ e \in Line /\ c \in Nat /\ c < MaxSaid
      /\ nextId \in 1 .. IdMod - 1 /\ Below(Lines, nextId)
  BY SayIs
<1>3. Lines \in Seq(Line) /\ n \in Nat /\ DOMAIN Lines = 1 .. n
  BY LinesAre DEF IInv
<1> HIDE DEF e, f
<1>4. new \in Seq(Line) /\ Len(new) = n + 1 /\ new[n + 1] = e
      /\ \A i \in 1 .. n : new[i] = Lines[i]
  BY <1>2, <1>3, AppendProperties
<1>5. said' \in Seq(1 .. IdMod - 1) /\ Len(said') = c + 1
  BY <1>2, AppendProperties DEF IInv, Types
<1>6. DOMAIN new = 1 .. n + 1 /\ DOMAIN said' = 1 .. c + 1 /\ DOMAIN said = 1 .. c
  <2>1. DOMAIN new = 1 .. Len(new)
    BY <1>4, LenProperties
  <2>2. DOMAIN said' = 1 .. Len(said')
    BY <1>5, LenProperties
  <2>3. DOMAIN said = 1 .. c
    BY LenProperties DEF IInv, Types
  <2>4. QED BY <2>1, <2>2, <2>3, <1>4, <1>5
<1>7. Ascending(new) /\ Roomy(new, c + 1) /\ Below(new, nextId + 1)
  <2>1. /\ Ascending(Lines) /\ Roomy(Lines, c) /\ nextId \in Nat
        /\ 0 < nextId /\ nextId + (MaxSaid - c) <= IdMod
    BY <1>2 DEF IInv, Numbered, Types
  <2>2. QED BY <1>2, <1>3, <2>1, AppendNumbered DEF e, NewLine
<1> HIDE DEF new, n, c
<1>8. \A i \in Inode \ {f} : data'[i] = <<>>
  BY <1>1, <1>2 DEF IInv, Types
<1>9. Held' /\ Clean' /\ Pruning'
  <2>1. slots' = One(Lines', f) /\ up' /\ prune'.at = "no"
    BY <1>2
  <2>2. QED BY <1>1, <1>2, <1>8, <2>1, OneFile
<1>10. Types'
  <2>1. data' \in [Inode -> Seq(Line)]
    BY <1>1, <1>2, <1>4 DEF IInv, Types
  <2>2. dir' \in [log: Inode \cup {NoInode}, tmp: Inode \cup {NoInode}]
    BY <1>1, <1>2
  <2>3. nextId' \in Nat
    BY <1>2
  <2>4. Len(said') <= MaxSaid
    BY <1>2, <1>5, HistoryAssumption
  <2>5. 1 .. c \subseteq 1 .. c + 1
    BY <1>2
  <2>6. safe' \subseteq DOMAIN said'
    BY <1>2, <1>6, <2>5 DEF IInv, Types
  <2>7. QED BY <1>2, <1>5, <2>1, <2>2, <2>3, <2>4, <2>6 DEF IInv, Types
<1>11. Numbered'
  <2>1. nextId + 1 + (MaxSaid - (c + 1)) <= IdMod
    <3>1. nextId + (MaxSaid - c) <= IdMod
      BY <1>2 DEF IInv, Numbered, c
    <3>2. QED BY <3>1, <1>2, HistoryAssumption, IdModAssumption
  <2>2. 0 < nextId + 1
    BY <1>2
  <2>3. QED BY <1>2, <1>5, <1>7, <2>1, <2>2 DEF Numbered
<1>12. Synced'
  <2>1. Covers(Lines, synced, safe) /\ synced \in Nat /\ safe \subseteq 1 .. c
    BY <1>6 DEF IInv, Synced, Types
  <2>2. e.msg = c + 1
    BY DEF e, NewLine, c
  <2>3. c + 1 \notin 1 .. c
    BY <1>2
  <2>4. synced <= Len(new)
    BY <2>1, <1>3, <1>4 DEF Covers, n
  <2>5. ASSUME NEW i \in 1 .. n + 1, new[i].msg \in safe
        PROVE  i <= synced
    <3>1. i \in 1 .. n
      <4>1. i = n + 1 \/ i \in 1 .. n
        BY <2>5, <1>3
      <4>2. i # n + 1
        BY <2>5, <2>1, <2>2, <2>3, <1>4
      <4>3. QED BY <4>1, <4>2
    <3>2. QED BY <2>5, <3>1, <2>1, <1>3, <1>4 DEF Covers
  <2>6. QED BY <1>2, <1>6, <2>4, <2>5 DEF Synced, Covers
<1>13. QED BY <1>9, <1>10, <1>11, <1>12 DEF IInv

LEMMA SayTooLongInv ==
  ASSUME IInv, SayTooLong
  PROVE  IInv'
<1> DEFINE f == ChannelFile
           i == ChannelIdx
<1>1. /\ Serving /\ nextId < IdMod - MaxSaid /\ UseChannel(i)
      /\ nextId' = nextId + 1
      /\ UNCHANGED <<data, synced, up, prune, said, safe>>
  BY DEF SayTooLong, history
<1>2. /\ f \in Inode /\ data[f] = Lines /\ i = Scan(Lines)
      /\ slots' = <<[idx |-> i, fp |-> f]>>
      /\ dir' = [log |-> f, tmp |-> NoInode]
      /\ \A j \in Inode \ {f} : data[j] = <<>>
  BY <1>1, ChannelIs
<1>3. up /\ prune.at = "no"
  BY <1>1 DEF Serving
<1> HIDE DEF f, i
<1>4. dir'.log = f /\ f # NoInode
  BY <1>2, HistoryAssumption
<1>5. Lines' = Lines
  BY <1>1, <1>2, <1>4 DEF Lines
<1>6. Held' /\ Clean' /\ Pruning'
  <2>1. slots' = One(Lines', f) /\ up' /\ prune'.at = "no"
    BY <1>1, <1>2, <1>3, <1>5 DEF One
  <2>2. \A j \in Inode \ {f} : data'[j] = <<>>
    BY <1>1, <1>2
  <2>3. QED BY <1>2, <2>1, <2>2, OneFile
<1>7. Types'
  <2>1. dir' \in [log: Inode \cup {NoInode}, tmp: Inode \cup {NoInode}]
    BY <1>2
  <2>2. nextId' \in Nat
    BY <1>1 DEF IInv, Types
  <2>3. QED BY <1>1, <2>1, <2>2 DEF IInv, Types
<1>8. Numbered'
  <2>1. nextId \in Nat /\ 0 < nextId /\ Below(Lines, nextId)
    BY <1>3 DEF IInv, Types, Numbered
  <2>2. Below(Lines, nextId + 1)
    <3>1. ASSUME NEW j \in DOMAIN Lines
          PROVE  Lines[j].id < nextId + 1
      <4>1. Lines[j] \in Line
        BY <3>1, LinesAre, ElementOfSeq DEF IInv
      <4>2. Lines[j].id \in Nat /\ Lines[j].id < nextId
        BY <2>1, <3>1, <4>1 DEF Line, Below
      <4>3. QED BY <2>1, <4>2
    <3>2. QED BY <3>1 DEF Below
  <2>3. Len(said) \in Nat
    BY LenProperties DEF IInv, Types
  <2>4. 0 < nextId + 1 /\ nextId + 1 + (MaxSaid - Len(said)) <= IdMod
    BY <1>1, <2>1, <2>3, HistoryAssumption, IdModAssumption
  <2>5. QED BY <1>1, <1>5, <2>2, <2>4 DEF IInv, Numbered
<1>9. Synced'
  BY <1>1, <1>5 DEF IInv, Synced
<1>10. QED BY <1>6, <1>7, <1>8, <1>9 DEF IInv

\* The write of a prune: the temporary file gets the rest of the log.
LEMMA PruneWriteIs ==
  ASSUME IInv, Calm, PruneWrite
  PROVE  /\ up /\ prune.at = "slot" /\ slots # <<>> /\ prune.slot = 1
         /\ dir.log \in Inode /\ dir.tmp = NoInode
         /\ \E t \in Inode \ {dir.log}, d \in 1 .. Len(Lines) :
              /\ TooMany(Lines, d)
              /\ LET part == SubSeq(Lines, d + 1, Len(Lines))
                 IN  /\ data' = [data EXCEPT ![t] = part]
                     /\ dir' = [dir EXCEPT !.tmp = t]
                     /\ prune' = [prune EXCEPT !.at = "rename", !.idx = Scan(part)]
         /\ UNCHANGED <<synced, up, slots, nextId, said, safe>>
<1>1. /\ up /\ prune.at = "slot" /\ prune.slot <= Len(slots)
      /\ UNCHANGED <<torn, synced, tombs, up, slots, nextId, said, safe, stops>>
  BY DEF PruneWrite, history
<1>2. prune.slot \in Nat /\ prune.slot # 0 /\ dir.tmp = NoInode
  BY <1>1 DEF IInv, Types, Pruning
<1>3. slots # <<>>
  BY <1>1, <1>2
<1>4. slots = <<[idx |-> Scan(Lines), fp |-> dir.log]>> /\ dir.log # NoInode
  BY <1>3 DEF IInv, Held, One
<1>5. prune.slot = 1 /\ slots[1].idx = Scan(Lines)
  BY <1>1, <1>2, <1>4
<1>6. dir.log \in Inode
  BY <1>4 DEF IInv, Types
<1>7. Lines \in Seq(Line) /\ Len(Lines) \in Nat /\ Len(Scan(Lines)) = Len(Lines)
  BY LinesAre, ScanIs DEF IInv
<1> DEFINE rests(ix, d) == SubSeq(ix, d + 1, Len(ix))
           keeps(ix, d) == [i \in {j \in DOMAIN rests(ix, d) :
                                    Readable(rests(ix, d)[j].off)} |-> rests(ix, d)[i]]
           rest(d) == SubSeq(Scan(Lines), d + 1, Len(Scan(Lines)))
           kept(d) == [i \in {j \in DOMAIN rest(d) : rest(d)[j].off < Len(Lines)}
                         |-> rest(d)[i]]
           part(d) == SubSeq(Lines, d + 1, Len(Lines))
<1>8. PICK d \in Drops(1) \ {0} :
          /\ data' = [data EXCEPT ![FreeInode] =
                        [i \in 1 .. Len(kept(d)) |-> Lines[kept(d)[i].off + 1]]]
          /\ dir' = [dir EXCEPT !.tmp = FreeInode]
          /\ prune' = [prune EXCEPT !.at = "rename",
                          !.idx = [i \in DOMAIN kept(d) |->
                                     [id |-> kept(d)[i].id, off |-> i - 1]]]
  <2> DEFINE Writes(ix, t, d, w) ==
               /\ data' = [data EXCEPT ![t] = [i \in 1 .. w |-> LineAt(keeps(ix, d)[i].off)]]
               /\ dir' = [dir EXCEPT !.tmp = t]
               /\ prune' = [prune EXCEPT !.at = "rename", !.idx = Reindex(keeps(ix, d))]
  <2>1. \E d \in Drops(prune.slot) \ {0} :
          \E w \in IF DiskFull THEN 0 .. Len(keeps(slots[prune.slot].idx, d))
                   ELSE {Len(keeps(slots[prune.slot].idx, d))} :
            Writes(slots[prune.slot].idx,
                   IF dir.tmp = NoInode THEN FreeInode ELSE dir.tmp, d, w)
    BY DEF PruneWrite
  <2> HIDE DEF Writes, keeps
  <2>2. \E d \in Drops(1) \ {0} :
          Writes(Scan(Lines), FreeInode, d, Len(keeps(Scan(Lines), d)))
    BY <1>2, <1>5, <2>1 DEF Calm
  <2>3. \A d : keeps(Scan(Lines), d) = kept(d)
    BY DEF keeps, Readable
  <2>4. PICK d \in Drops(1) \ {0} :
          Writes(Scan(Lines), FreeInode, d, Len(keeps(Scan(Lines), d)))
    BY <2>2
  <2> DEFINE k == kept(d)
  <2>5. keeps(Scan(Lines), d) = k
    BY <2>3
  <2> HIDE DEF k
  <2>6. /\ data' = [data EXCEPT ![FreeInode] =
                      [i \in 1 .. Len(k) |-> Lines[k[i].off + 1]]]
        /\ dir' = [dir EXCEPT !.tmp = FreeInode]
        /\ prune' = [prune EXCEPT !.at = "rename",
                        !.idx = [i \in DOMAIN k |-> [id |-> k[i].id, off |-> i - 1]]]
    BY <2>4, <2>5 DEF Writes, LineAt, Reindex
  <2>7. QED BY <2>6 DEF k
<1>9. d \in 1 .. Len(Lines) /\ TooMany(Lines, d)
  <2> DEFINE n == Len(Lines)
  <2>1. MaxMsgs \in Nat /\ Slack \in Nat
    BY HistoryAssumption DEF Slack
  <2>2. PICK a \in IF UseDays THEN 0 .. n ELSE {0} :
          d = IF a > Drop(n) THEN a ELSE Drop(n)
    BY <1>5, <1>7, <1>8 DEF Drops
  <2> HIDE DEF n
  <2>3. /\ \/ Drop(n) = 0
           \/ MaxMsgs # 0 /\ n > MaxMsgs + Slack /\ Drop(n) = n - MaxMsgs
        /\ n \in Nat
    BY <1>7 DEF Drop, n
  <2>4. Drop(n) \in 0 .. n /\ (Drop(n) # 0 => n > MaxMsgs /\ Drop(n) = n - MaxMsgs
                                             /\ MaxMsgs > 0)
    BY <2>1, <2>3
  <2>5. d # 0 /\ a \in 0 .. n
    <3>1. d # 0
      BY <1>8
    <3>2. 0 \in 0 .. n
      BY <2>3
    <3>3. a \in 0 .. n
      BY <2>2, <3>2
    <3>4. QED BY <3>1, <3>3
  <2>6. d \in 1 .. n
    BY <2>2, <2>3, <2>4, <2>5
  <2>7. ~UseDays => d = Drop(n) /\ Drop(n) # 0
    BY <2>2, <2>4, <2>5
  <2>8. QED BY <2>4, <2>6, <2>7 DEF TooMany, n
<1>10. /\ [i \in 1 .. Len(kept(d)) |-> Lines[kept(d)[i].off + 1]] = part(d)
       /\ [i \in DOMAIN kept(d) |-> [id |-> kept(d)[i].id, off |-> i - 1]]
            = Scan(part(d))
  BY <1>7, <1>9, RewriteIs
<1> HIDE DEF kept
<1>11. FreeInode \in Inode \ {dir.log}
  BY FreeIsFree DEF IInv
<1>12. /\ data' = [data EXCEPT ![FreeInode] = part(d)]
       /\ dir' = [dir EXCEPT !.tmp = FreeInode]
       /\ prune' = [prune EXCEPT !.at = "rename", !.idx = Scan(part(d))]
  BY <1>8, <1>10
<1>13. QED BY <1>1, <1>2, <1>3, <1>5, <1>6, <1>9, <1>11, <1>12

LEMMA PruneWriteInv ==
  ASSUME IInv, Calm, PruneWrite
  PROVE  IInv'
<1>1. /\ up /\ prune.at = "slot" /\ slots # <<>> /\ prune.slot = 1
      /\ dir.log \in Inode /\ dir.tmp = NoInode
      /\ UNCHANGED <<synced, up, slots, nextId, said, safe>>
  BY PruneWriteIs
<1> DEFINE part(d) == SubSeq(Lines, d + 1, Len(Lines))
<1>2. PICK t \in Inode \ {dir.log}, d \in 1 .. Len(Lines) :
        /\ TooMany(Lines, d)
        /\ data' = [data EXCEPT ![t] = part(d)]
        /\ dir' = [dir EXCEPT !.tmp = t]
        /\ prune' = [prune EXCEPT !.at = "rename", !.idx = Scan(part(d))]
  BY PruneWriteIs
<1> DEFINE p == part(d)
           ix == Scan(p)
<1>3. Lines \in Seq(Line) /\ Len(Lines) \in Nat
  BY LinesAre DEF IInv
<1>4. p \in Seq(Line)
  <2>1. d \in 0 .. Len(Lines) /\ Len(Lines) \in 0 .. Len(Lines) /\ d <= Len(Lines)
    BY <1>2, <1>3
  <2>2. QED BY <1>3, <2>1, PartIs
<1>5. Rewritten(Lines, p)
  BY <1>2 DEF Rewritten
<1>6. data' = [data EXCEPT ![t] = p]
  BY <1>2
<1>7. prune' = [prune EXCEPT !.at = "rename", !.idx = ix]
  BY <1>2
<1> HIDE DEF p
<1>8. ix \in Seq(Entry)
  BY <1>4, ScanIs
<1>9. ix = Scan(p)
  OBVIOUS
<1> HIDE DEF ix
<1>10. dir'.log = dir.log /\ dir'.tmp = t
       /\ dir' \in [log: Inode \cup {NoInode}, tmp: Inode \cup {NoInode}]
  BY <1>2 DEF IInv, Types
<1>11. data'[t] = p /\ data' \in [Inode -> Seq(Line)]
       /\ \A i \in Inode \ {t} : data'[i] = data[i]
  BY <1>4, <1>6 DEF IInv, Types
<1>12. Lines' = Lines
  BY <1>1, <1>2, <1>10, <1>11 DEF Lines
<1>13. prune'.at = "rename" /\ prune'.idx = ix /\ prune'.slot = 1
       /\ prune' \in [at: {"no", "slot", "rename"}, slot: Nat, idx: Seq(Entry)]
  BY <1>1, <1>7, <1>8 DEF IInv, Types
<1>14. Types'
  BY <1>1, <1>10, <1>11, <1>13 DEF IInv, Types
<1>15. Held'
  BY <1>1, <1>10, <1>12 DEF IInv, Held, One, Scan
<1>16. Clean'
  BY <1>1, <1>10, <1>11, HistoryAssumption DEF IInv, Clean
<1>17. Pruning'
  <2>1. data'[dir'.tmp] = p /\ dir'.tmp \in Inode \ {dir'.log}
    BY <1>2, <1>10, <1>11
  <2>2. prune'.idx = Scan(data'[dir'.tmp])
    BY <1>9, <1>13, <2>1
  <2>3. Rewritten(Lines', data'[dir'.tmp])
    BY <1>5, <1>12, <2>1
  <2>4. prune'.at = "rename" /\ prune'.slot = 1 /\ slots' # <<>>
    BY <1>1, <1>13
  <2>5. QED BY <2>1, <2>2, <2>3, <2>4 DEF Pruning, Scan, Rewritten, TooMany
<1>18. Numbered' /\ Synced'
  BY <1>1, <1>12 DEF IInv, Numbered, Synced
<1>19. QED BY <1>14, <1>15, <1>16, <1>17, <1>18 DEF IInv

\* The rename of a prune: the log is the file that was written.
LEMMA PruneRenameIs ==
  ASSUME IInv, PruneRename
  PROVE  LET t == dir.tmp
             part == data[t]
         IN  /\ t \in Inode /\ part \in Seq(Line) /\ Rewritten(Lines, part)
             /\ dir' = [log |-> t, tmp |-> NoInode] /\ up
             /\ slots' = One(part, t)
             /\ data' \in [Inode -> Seq(Line)] /\ data'[t] = part
             /\ \A i \in Inode \ {t} : data'[i] = <<>>
             /\ synced' = Len(part) /\ prune' = [at |-> "slot", slot |-> 2, idx |-> <<>>]
             /\ UNCHANGED <<up, nextId, said, safe>>
<1> DEFINE t == dir.tmp
           part == data[t]
<1>1. /\ up /\ prune.at = "rename" /\ dir' = [log |-> t, tmp |-> NoInode]
      /\ slots' = [slots EXCEPT ![prune.slot] = [idx |-> prune.idx, fp |-> t]]
      /\ data' = [i \in Inode |->
                    IF i \in {t} \/ \E k \in DOMAIN slots' : slots'[k].fp = i
                    THEN data[i] ELSE <<>>]
      /\ synced' = Len(part)
      /\ prune' = [at |-> "slot", slot |-> prune.slot + 1, idx |-> <<>>]
      /\ UNCHANGED <<up, nextId, said, safe>>
  BY DEF PruneRename, Reclaim, history
<1>2. /\ prune.slot = 1 /\ slots # <<>> /\ t \in Inode
      /\ prune.idx = Scan(part) /\ Rewritten(Lines, part)
  BY <1>1 DEF IInv, Pruning
<1>3. slots = <<[idx |-> Scan(Lines), fp |-> dir.log]>>
  BY <1>2 DEF IInv, Held, One
<1>4. slots' = <<[idx |-> Scan(part), fp |-> t]>>
  BY <1>1, <1>2, <1>3
<1>5. part \in Seq(Line)
  BY <1>2 DEF IInv, Types
<1>6. \A k \in DOMAIN slots' : slots'[k].fp = t
  BY <1>4
<1>7. data' = [i \in Inode |-> IF i = t THEN data[i] ELSE <<>>]
  BY <1>1, <1>6
<1>8. /\ data' \in [Inode -> Seq(Line)] /\ data'[t] = part
      /\ \A i \in Inode \ {t} : data'[i] = <<>>
  BY <1>2, <1>5, <1>7, EmptySeq DEF IInv, Types
<1>9. prune' = [at |-> "slot", slot |-> 2, idx |-> <<>>]
  BY <1>1, <1>2
<1>10. QED BY <1>1, <1>2, <1>4, <1>5, <1>8, <1>9 DEF One

LEMMA PruneRenameInv ==
  ASSUME IInv, PruneRename
  PROVE  IInv'
<1> DEFINE t == dir.tmp
           part == data[t]
           c == Len(said)
<1>1. /\ t \in Inode /\ part \in Seq(Line) /\ Rewritten(Lines, part)
      /\ dir' = [log |-> t, tmp |-> NoInode] /\ up
      /\ slots' = One(part, t)
      /\ data' \in [Inode -> Seq(Line)] /\ data'[t] = part
      /\ \A i \in Inode \ {t} : data'[i] = <<>>
      /\ synced' = Len(part) /\ prune' = [at |-> "slot", slot |-> 2, idx |-> <<>>]
      /\ UNCHANGED <<up, nextId, said, safe>>
  BY PruneRenameIs
<1>2. PICK d \in 1 .. Len(Lines) : part = SubSeq(Lines, d + 1, Len(Lines))
  BY <1>1 DEF Rewritten
<1>3. Lines \in Seq(Line) /\ Len(Lines) \in Nat /\ c \in Nat
  BY LinesAre, LenProperties DEF IInv, Types
<1>4. Ascending(part) /\ Roomy(part, c) /\ \A x : Below(Lines, x) => Below(part, x)
  <2>1. /\ d \in 0 .. Len(Lines) /\ Len(Lines) \in 0 .. Len(Lines) /\ d <= Len(Lines)
        /\ Ascending(Lines) /\ Roomy(Lines, c)
    BY <1>2, <1>3 DEF IInv, Numbered
  <2>2. LET p == SubSeq(Lines, d + 1, Len(Lines))
        IN  Ascending(p) /\ Roomy(p, c) /\ \A x : Below(Lines, x) => Below(p, x)
    BY <1>3, <2>1, PartNumbered
  <2>3. QED BY <1>2, <2>2
<1>5. Len(part) \in Nat /\ DOMAIN part = 1 .. Len(part)
  BY <1>1, LenProperties
<1> HIDE DEF t, part, c
<1>6. dir'.log = t /\ t # NoInode
  BY <1>1, HistoryAssumption
<1>7. Lines' = part
  BY <1>1, <1>6 DEF Lines
<1>8. Held' /\ Clean' /\ Pruning'
  <2>1. slots' = One(Lines', t) /\ up' /\ prune'.at = "slot" /\ prune'.slot # 0
    BY <1>1, <1>7
  <2>2. QED BY <1>1, <2>1, OneFile
<1>9. Types'
  <2>1. prune' \in [at: {"no", "slot", "rename"}, slot: Nat, idx: Seq(Entry)]
    BY <1>1, EmptySeq
  <2>2. dir' \in [log: Inode \cup {NoInode}, tmp: Inode \cup {NoInode}]
    BY <1>1
  <2>3. QED BY <1>1, <1>5, <2>1, <2>2 DEF IInv, Types
<1>10. Numbered'
  BY <1>1, <1>4, <1>7 DEF IInv, Numbered, c
<1>11. Synced'
  BY <1>1, <1>5, <1>7 DEF Synced, Covers
<1>12. QED BY <1>8, <1>9, <1>10, <1>11 DEF IInv

\* A stop of the server keeps a first part of the log, with all that a flush
\* has covered.
LEMMA StopIs ==
  ASSUME IInv, Calm, NEW tear \in BOOLEAN, NEW keep \in synced .. Len(Lines),
         Stop(tear, keep)
  PROVE  LET part == SubSeq(Lines, 1, keep)
         IN  /\ keep \in 0 .. Len(Lines) /\ synced <= keep
             /\ part \in Seq(Line) /\ Len(part) = keep /\ DOMAIN part = 1 .. keep
             /\ \A i \in 1 .. keep : part[i] = Lines[i]
             /\ Lines' = part /\ data' \in [Inode -> Seq(Line)]
             /\ \A i \in Inode \ {dir.log} : data'[i] = <<>>
             /\ prune.at = "no" /\ dir.tmp = NoInode
             /\ up' = FALSE /\ slots' = <<>> /\ nextId' = 0
             /\ prune' = [at |-> "no", slot |-> 0, idx |-> <<>>]
             /\ UNCHANGED <<dir, synced, tombs, said, safe>>
<1> DEFINE part == SubSeq(Lines, 1, keep)
<1>1. /\ prune.at # "no" => PruneDies
      /\ up' = FALSE /\ slots' = <<>> /\ nextId' = 0
      /\ prune' = [at |-> "no", slot |-> 0, idx |-> <<>>]
      /\ data' = [i \in Inode |-> IF i = dir.log THEN part ELSE <<>>]
      /\ UNCHANGED <<dir, synced, tombs, said, safe>>
  BY DEF Stop, NoPrune
<1>2. prune.at = "no" /\ dir.tmp = NoInode
  BY <1>1 DEF Calm, IInv, Pruning
<1>3. Lines \in Seq(Line) /\ Len(Lines) \in Nat /\ synced \in Nat
  BY LinesAre DEF IInv, Types
<1>4. keep \in 0 .. Len(Lines) /\ synced <= keep /\ 0 \in 0 .. Len(Lines)
      /\ keep \in Nat /\ 0 <= keep
  BY <1>3
<1>5. /\ part \in Seq(Line) /\ Len(part) = keep /\ DOMAIN part = 1 .. keep
      /\ \A i \in 1 .. keep : part[i] = Lines[i]
  <2>1. LET p == SubSeq(Lines, 0 + 1, keep)
        IN  /\ p \in Seq(Line) /\ Len(p) = keep - 0
            /\ DOMAIN p = 1 .. keep - 0
            /\ \A i \in 1 .. keep - 0 : p[i] = Lines[0 + i]
    BY <1>3, <1>4, PartIs
  <2>2. 0 + 1 = 1 /\ keep - 0 = keep /\ \A i \in 1 .. keep : 0 + i = i
    BY <1>4
  <2>3. QED BY <2>1, <2>2
<1>6. Lines' = part
  <2>1. CASE dir.log = NoInode
    <3>1. Lines = <<>> /\ Lines' = <<>> /\ keep = 0
      BY <1>1, <1>4, <2>1 DEF Lines
    <3>2. part = <<>>
      BY <3>1
    <3>3. QED BY <3>1, <3>2
  <2>2. CASE dir.log # NoInode
    <3>1. dir.log \in Inode
      BY <2>2 DEF IInv, Types
    <3> HIDE DEF part
    <3>2. data'[dir.log] = part
      BY <1>1, <3>1
    <3>3. QED BY <1>1, <2>2, <3>2 DEF Lines
  <2>3. QED BY <2>1, <2>2
<1> HIDE DEF part
<1>7. data' \in [Inode -> Seq(Line)] /\ \A i \in Inode \ {dir.log} : data'[i] = <<>>
  BY <1>1, <1>5, EmptySeq
<1>8. QED BY <1>1, <1>2, <1>4, <1>5, <1>6, <1>7 DEF part

LEMMA StopInv ==
  ASSUME IInv, Calm, NEW tear \in BOOLEAN, NEW keep \in synced .. Len(Lines),
         Stop(tear, keep)
  PROVE  IInv'
<1> DEFINE part == SubSeq(Lines, 1, keep)
<1>1. /\ keep \in 0 .. Len(Lines) /\ synced <= keep
      /\ part \in Seq(Line) /\ Len(part) = keep /\ DOMAIN part = 1 .. keep
      /\ \A i \in 1 .. keep : part[i] = Lines[i]
      /\ Lines' = part /\ data' \in [Inode -> Seq(Line)]
      /\ \A i \in Inode \ {dir.log} : data'[i] = <<>>
      /\ prune.at = "no" /\ dir.tmp = NoInode
      /\ up' = FALSE /\ slots' = <<>> /\ nextId' = 0
      /\ prune' = [at |-> "no", slot |-> 0, idx |-> <<>>]
      /\ UNCHANGED <<dir, synced, said, safe>>
  BY StopIs
<1>2. Len(Lines) \in Nat /\ DOMAIN Lines = 1 .. Len(Lines)
  BY LinesAre DEF IInv
<1> HIDE DEF part
<1>3. \A i \in 1 .. keep : i \in DOMAIN Lines
  BY <1>1, <1>2
<1>4. Types'
  <2>1. prune' \in [at: {"no", "slot", "rename"}, slot: Nat, idx: Seq(Entry)]
    BY <1>1, EmptySeq
  <2>2. QED BY <1>1, <2>1 DEF IInv, Types
<1>5. Held' /\ Pruning'
  BY <1>1 DEF Held, Pruning
<1>6. Clean'
  BY <1>1 DEF Clean
<1>7. Ascending(part) /\ Roomy(part, Len(said))
  BY <1>1, <1>3 DEF IInv, Numbered, Ascending, Roomy
<1>8. Numbered'
  BY <1>1, <1>7 DEF Numbered
<1>9. Synced'
  BY <1>1, <1>3 DEF IInv, Synced, Covers
<1>10. QED BY <1>4, <1>5, <1>6, <1>8, <1>9 DEF IInv

LEMMA NextInv ==
  ASSUME IInv, Calm, [Next]_vars
  PROVE  IInv'
<1>1. CASE Open
  BY <1>1, OpenInv
<1>2. CASE Say
  BY <1>2, SayInv
<1>3. CASE SayTooLong
  BY <1>3, SayTooLongInv
<1>4. CASE Fsync
  BY <1>4, FsyncInv
<1>5. CASE \E i \in DOMAIN said : Tombstone(said[i])
  BY <1>5, TombstoneInv
<1>6. CASE Hourly \/ PruneSkip \/ PruneDone
  BY <1>6, PruneStepInv
<1>7. CASE PruneWrite
  BY <1>7, PruneWriteInv
<1>8. CASE PruneRename
  BY <1>8, PruneRenameInv
<1>9. CASE \E tear \in BOOLEAN, keep \in synced .. Len(Lines) : Stop(tear, keep)
  BY <1>9, StopInv
<1>10. CASE UNCHANGED vars
  <2>1. UNCHANGED <<dir, data, synced, up, slots, nextId, prune, said, safe>>
    BY <1>10 DEF vars, disk, memory, history
  <2>2. Lines' = Lines
    BY <2>1 DEF Lines
  <2>3. Types' /\ Held' /\ Clean'
    BY <2>1, <2>2 DEF IInv, Types, Held, Clean, One, Scan
  <2>4. Pruning'
    BY <2>1, <2>2 DEF IInv, Pruning, Rewritten, TooMany, Scan
  <2>5. Numbered' /\ Synced'
    BY <2>1, <2>2 DEF IInv, Numbered, Synced
  <2>6. QED BY <2>3, <2>4, <2>5 DEF IInv
<1>11. QED
  BY <1>1, <1>2, <1>3, <1>4, <1>5, <1>6, <1>7, <1>8, <1>9, <1>10 DEF Next

\* The inductive invariant holds in every state.
THEOREM HistoryInvariant == Calm => (Spec => []IInv)
<1> SUFFICES ASSUME Calm PROVE Spec => []IInv
  OBVIOUS
<1>1. Init => IInv
  BY InitInv
<1>2. IInv /\ [Next]_vars => IInv'
  BY NextInv
<1>3. QED BY <1>1, <1>2, PTL DEF Spec

\* IndexReads for every limit and bound: whatever is said, pruned, flushed,
\* killed and recovered, each entry of the index in memory (chat_history.c)
\* leads to the line with its id.
THEOREM IndexAlwaysReads == Calm => (Spec => []IndexReads)
<1> SUFFICES ASSUME Calm PROVE Spec => []IndexReads
  OBVIOUS
<1>1. IInv => IndexReads
  BY DEF IInv, Held, One, IndexReads
<1>2. QED BY <1>1, HistoryInvariant, PTL

-----------------------------------------------------------------------------
(* The window of a query.  Induction up to a bound is over sets: the least    *)
(* number that is not in T cannot be.                                         *)

LEMMA LeastElement ==
  ASSUME NEW n \in Nat, NEW S \in SUBSET (1 .. n), S # {}
  PROVE  \E i \in S : \A j \in S : i <= j
<1> DEFINE Upto(i) == {j \in S : j <= i}
           T == {Upto(i) : i \in S}
<1>1. IsFiniteSet(S)
  <2>1. 1 \in Int /\ n \in Int
    OBVIOUS
  <2>2. IsFiniteSet(1 .. n)
    BY <2>1, FS_Interval
  <2>3. QED BY <2>2, FS_Subset
<1>2. IsWellFoundedOn(StrictSubsetOrdering(S), SUBSET S)
  BY <1>1, FS_FiniteSubsetsOfFinite, FS_StrictSubsetOrderingWellFounded
<1>3. T \subseteq SUBSET S /\ T # {}
  OBVIOUS
<1>4. PICK x \in T : \A y \in T : ~(<<y, x>> \in StrictSubsetOrdering(S))
  BY <1>2, <1>3, WFMin
<1>5. PICK i \in S : x = Upto(i)
  BY <1>4
<1>6. ASSUME NEW j \in S, j < i
      PROVE  FALSE
  <2>1. i \in Int /\ j \in Int /\ \A k \in S : k \in Int
    OBVIOUS
  <2>2. \A k \in S : k <= j => k <= i
    BY <1>6, <2>1
  <2>3. i <= i /\ ~(i <= j)
    BY <1>6, <2>1
  <2>4. Upto(j) \subseteq Upto(i) /\ i \in Upto(i) /\ i \notin Upto(j)
    BY <2>2, <2>3
  <2>5. <<Upto(j), Upto(i)>> \in StrictSubsetOrdering(S)
    BY <2>4 DEF StrictSubsetOrdering
  <2>6. QED BY <1>4, <1>5, <2>5
<1>7. \A j \in S : i <= j
  BY <1>6
<1>8. QED BY <1>7

LEMMA Induction ==
  ASSUME NEW n \in Nat, NEW T, 0 \in T,
         \A i \in 1 .. n : i - 1 \in T => i \in T
  PROVE  \A i \in 0 .. n : i \in T
<1> DEFINE S == {i \in 1 .. n : i \notin T}
<1>1. SUFFICES ASSUME S # {} PROVE FALSE
  OBVIOUS
<1>2. PICK i \in S : \A j \in S : i <= j
  BY <1>1, LeastElement
<1>3. i \in 1 .. n /\ i \notin T
  BY <1>2
<1>4. i - 1 \notin T
  BY <1>3
<1>5. i - 1 \in 0 .. n
  BY <1>3
<1>6. i - 1 # 0
  BY <1>4
<1>7. i - 1 \in S
  BY <1>4, <1>5, <1>6
<1>8. QED BY <1>2, <1>3, <1>7

\* The ids of an index: in ascending order.
Sorted(ids) ==
  /\ ids \in Seq(Nat)
  /\ \A i, j \in 1 .. Len(ids) : i < j => ids[i] < ids[j]

\* c ids precede the first that is not below the target.
Splits(ids, target, c) ==
  /\ c \in 0 .. Len(ids)
  /\ \A i \in 1 .. Len(ids) : ids[i] < target <=> i <= c

\* There is such a place in every sorted index.
LEMMA SplitExists ==
  ASSUME NEW ids, Sorted(ids), NEW target \in Nat
  PROVE  \E c : Splits(ids, target, c)
<1> DEFINE n == Len(ids)
           T == {m \in 0 .. n : \E c \in 0 .. m : \A i \in 1 .. m : ids[i] < target <=> i <= c}
<1>1. n \in Nat /\ \A i \in 1 .. n : ids[i] \in Nat
  BY LenProperties, ElementOfSeq DEF Sorted
<1>2. 0 \in T
  <2>1. 0 \in 0 .. n /\ 0 \in 0 .. 0 /\ \A i : i \notin 1 .. 0
    BY <1>1
  <2>2. QED BY <2>1
<1>3. ASSUME NEW m \in 1 .. n, m - 1 \in T
      PROVE  m \in T
  <2>1. PICK c \in 0 .. m - 1 : \A i \in 1 .. m - 1 : ids[i] < target <=> i <= c
    BY <1>3
  <2>2. m \in 0 .. n /\ \A i \in 1 .. m : i = m \/ i \in 1 .. m - 1
    BY <1>1
  <2>3. CASE ids[m] < target
    <3>1. ASSUME NEW i \in 1 .. m
          PROVE  ids[i] < target <=> i <= m
      <4>1. ids[i] <= ids[m] /\ ids[i] \in Nat /\ ids[m] \in Nat
        BY <1>1 DEF Sorted
      <4>2. QED BY <2>3, <4>1
    <3>2. QED BY <2>2, <3>1
  <2>4. CASE ~(ids[m] < target)
    <3>1. c \in 0 .. m /\ ~(m <= c)
      BY <2>1
    <3>2. \A i \in 1 .. m : ids[i] < target <=> i <= c
      BY <2>1, <2>2, <2>4, <3>1
    <3>3. QED BY <2>2, <3>1, <3>2
  <2>5. QED BY <2>3, <2>4
<1> HIDE DEF T
<1>4. \A m \in 0 .. n : m \in T
  BY <1>1, <1>2, <1>3, Induction
<1>5. n \in 0 .. n
  BY <1>1
<1>6. QED BY <1>4, <1>5 DEF T, Splits

\* The binary search finds it.  Between lo and hi it comes to the place, or to
\* the end of the range that is nearest: these values solve its recursion, and
\* by induction on hi - lo nothing else does.
LEMMA LowerBoundSplits ==
  ASSUME NEW ids, Sorted(ids), NEW target \in Nat
  PROVE  Splits(ids, target, LowerBound(ids, target))
<1> DEFINE n == Len(ids)
           D == (0 .. n) \X (0 .. n)
           mid(w) == w[1] + ((w[2] - w[1]) \div 2)
           R(h, w) == IF w[1] >= w[2] THEN w[1]
                      ELSE IF ids[mid(w) + 1] < target THEN h[<<mid(w) + 1, w[2]>>]
                                                       ELSE h[<<w[1], mid(w)>>]
           P(h) == h = [w \in D |-> R(h, w)]
           f == CHOOSE h : P(h)
<1>1. n \in Nat /\ \A i \in 1 .. n : ids[i] \in Nat
  BY LenProperties, ElementOfSeq DEF Sorted
<1>2. PICK c : Splits(ids, target, c)
  BY SplitExists
<1>3. c \in 0 .. n /\ \A i \in 1 .. n : ids[i] < target <=> i <= c
  BY <1>2 DEF Splits
<1>4. LowerBound(ids, target) = f[<<0, n>>]
  BY DEF LowerBound
<1> DEFINE near(w) == IF w[1] >= w[2] \/ c < w[1] THEN w[1]
                      ELSE IF c > w[2] THEN w[2] ELSE c
           g == [w \in D |-> near(w)]
<1>5. ASSUME NEW lo \in 0 .. n, NEW hi \in 0 .. n, lo < hi
      PROVE  LET m == mid(<<lo, hi>>)
             IN  /\ m \in 0 .. n /\ m + 1 \in 0 .. n /\ lo <= m /\ m + 1 <= hi
                 /\ ids[m + 1] < target <=> m < c
  <2> DEFINE e == (hi - lo) \div 2
             m == lo + e
  <2>1. e \in 0 .. hi - lo - 1
    BY <1>1, <1>5
  <2>2. mid(<<lo, hi>>) = m
    OBVIOUS
  <2> HIDE DEF e
  <2>3. m \in 0 .. n /\ m + 1 \in 1 .. n /\ lo <= m /\ m + 1 <= hi
    BY <1>1, <1>5, <2>1
  <2>4. ids[m + 1] < target <=> m + 1 <= c
    BY <1>3, <2>3
  <2>5. m + 1 <= c <=> m < c
    BY <1>3, <2>3
  <2> HIDE DEF m, mid
  <2>6. QED BY <1>1, <2>2, <2>3, <2>4, <2>5
<1>6. ASSUME NEW lo \in 0 .. n, NEW hi \in 0 .. n
      PROVE  g[<<lo, hi>>] = R(g, <<lo, hi>>)
  <2> DEFINE m == mid(<<lo, hi>>)
  <2>1. \A a, b \in 0 .. n : g[<<a, b>>] = IF a >= b \/ c < a THEN a ELSE IF c > b THEN b ELSE c
    OBVIOUS
  <2>2. R(g, <<lo, hi>>) = IF lo >= hi THEN lo
                           ELSE IF ids[m + 1] < target THEN g[<<m + 1, hi>>]
                                                       ELSE g[<<lo, m>>]
    OBVIOUS
  <2>3. CASE lo >= hi
    BY <2>1, <2>2, <2>3
  <2>4. CASE lo < hi
    <3>1. /\ m \in 0 .. n /\ m + 1 \in 0 .. n /\ lo <= m /\ m + 1 <= hi
          /\ ids[m + 1] < target <=> m < c
      BY <1>5, <2>4
    <3> HIDE DEF g, m, mid
    <3>2. CASE m < c
      <4>1. R(g, <<lo, hi>>) = g[<<m + 1, hi>>]
        BY <1>1, <2>2, <2>4, <3>1, <3>2
      <4>2. g[<<m + 1, hi>>] = IF m + 1 >= hi \/ c < m + 1 THEN m + 1 ELSE IF c > hi THEN hi ELSE c
        BY <2>1, <3>1
      <4> HIDE DEF R
      <4>3. g[<<lo, hi>>] = IF lo >= hi \/ c < lo THEN lo ELSE IF c > hi THEN hi ELSE c
        BY <2>1
      <4>4. QED BY <1>1, <1>3, <2>4, <3>1, <3>2, <4>1, <4>2, <4>3
    <3>3. CASE ~(m < c)
      <4>1. R(g, <<lo, hi>>) = g[<<lo, m>>]
        BY <1>1, <2>2, <2>4, <3>1, <3>3
      <4>2. g[<<lo, m>>] = IF lo >= m \/ c < lo THEN lo ELSE IF c > m THEN m ELSE c
        BY <2>1, <3>1
      <4> HIDE DEF R
      <4>3. g[<<lo, hi>>] = IF lo >= hi \/ c < lo THEN lo ELSE IF c > hi THEN hi ELSE c
        BY <2>1
      <4>4. QED BY <1>1, <1>3, <2>4, <3>1, <3>3, <4>1, <4>2, <4>3
    <3>4. QED BY <3>2, <3>3
  <2>5. QED BY <1>1, <2>3, <2>4
<1>7. P(g)
  <2> DEFINE h == [w \in D |-> R(g, w)]
  <2>1. ASSUME NEW w \in D
        PROVE  g[w] = h[w]
    <3>1. PICK lo \in 0 .. n, hi \in 0 .. n : w = <<lo, hi>>
      OBVIOUS
    <3>2. h[w] = R(g, w)
      OBVIOUS
    <3> HIDE DEF g, h, R
    <3>3. QED BY <1>6, <3>1, <3>2
  <2>2. g = h
    BY <2>1
  <2> HIDE DEF g, R
  <2>3. QED BY <2>2
<1> HIDE DEF g
<1>8. P(f)
  <2> HIDE DEF P
  <2>1. QED BY <1>7
<1> HIDE DEF f
<1>9. ASSUME NEW h, P(h), NEW lo \in 0 .. n, NEW hi \in 0 .. n
      PROVE  /\ lo >= hi => h[<<lo, hi>>] = lo
             /\ lo < hi => h[<<lo, hi>>] = IF mid(<<lo, hi>>) < c
                                           THEN h[<<mid(<<lo, hi>>) + 1, hi>>]
                                           ELSE h[<<lo, mid(<<lo, hi>>)>>]
  <2> DEFINE m == mid(<<lo, hi>>)
  <2>1. h[<<lo, hi>>] = R(h, <<lo, hi>>)
    <3> HIDE DEF R
    <3>1. <<lo, hi>> \in D
      OBVIOUS
    <3>2. QED BY <1>9, <3>1
  <2>2. R(h, <<lo, hi>>) = IF lo >= hi THEN lo
                           ELSE IF ids[m + 1] < target THEN h[<<m + 1, hi>>]
                                                       ELSE h[<<lo, m>>]
    OBVIOUS
  <2> HIDE DEF R
  <2>3. CASE lo >= hi
    BY <1>1, <2>1, <2>2, <2>3
  <2>4. CASE lo < hi
    <3>1. ids[m + 1] < target <=> m < c
      BY <1>5, <2>4
    <3> HIDE DEF m, mid
    <3>2. h[<<lo, hi>>] = IF m < c THEN h[<<m + 1, hi>>] ELSE h[<<lo, m>>]
      BY <1>1, <2>1, <2>2, <2>4, <3>1
    <3> USE DEF m
    <3>3. QED BY <1>1, <2>4, <3>2
  <2>5. QED BY <1>1, <2>3, <2>4
<1>10. ASSUME NEW lo \in 0 .. n, NEW hi \in 0 .. n, lo >= hi
       PROVE  f[<<lo, hi>>] = lo /\ g[<<lo, hi>>] = lo
  <2> HIDE DEF P, mid
  <2>1. ASSUME NEW h, P(h) PROVE h[<<lo, hi>>] = lo
    BY <1>9, <1>10, <2>1
  <2>2. QED BY ONLY <1>7, <1>8, <2>1
<1> DEFINE T == {d \in 0 .. n : \A lo, hi \in 0 .. n :
                                  hi - lo <= d => f[<<lo, hi>>] = g[<<lo, hi>>]}
<1>11. 0 \in T
  <2>1. ASSUME NEW lo \in 0 .. n, NEW hi \in 0 .. n, hi - lo <= 0
        PROVE  f[<<lo, hi>>] = g[<<lo, hi>>]
    <3>1. lo >= hi
      BY <1>1, <2>1
    <3>2. QED BY <1>10, <3>1
  <2>2. QED BY <1>1, <2>1
<1>12. ASSUME NEW d \in 1 .. n, d - 1 \in T
       PROVE  d \in T
  <2>1. ASSUME NEW lo \in 0 .. n, NEW hi \in 0 .. n, hi - lo <= d
        PROVE  f[<<lo, hi>>] = g[<<lo, hi>>]
    <3> DEFINE m == mid(<<lo, hi>>)
    <3> HIDE DEF P
    <3>1. CASE lo >= hi
      BY <1>10, <3>1
    <3>2. CASE lo < hi
      <4>1. m \in 0 .. n /\ m + 1 \in 0 .. n /\ lo <= m /\ m + 1 <= hi
        BY <1>5, <3>2
      <4>2. /\ f[<<lo, hi>>] = IF m < c THEN f[<<m + 1, hi>>] ELSE f[<<lo, m>>]
            /\ g[<<lo, hi>>] = IF m < c THEN g[<<m + 1, hi>>] ELSE g[<<lo, m>>]
        BY <1>7, <1>8, <1>9, <3>2
      <4> HIDE DEF m
      <4>3. hi - (m + 1) <= d - 1 /\ m - lo <= d - 1
        BY <1>1, <2>1, <4>1
      <4>4. f[<<m + 1, hi>>] = g[<<m + 1, hi>>] /\ f[<<lo, m>>] = g[<<lo, m>>]
        BY <1>12, <4>1, <4>3
      <4>5. QED BY <4>2, <4>4
    <3>3. QED BY <1>1, <3>1, <3>2
  <2>2. d \in 0 .. n
    BY <1>1
  <2>3. QED BY <2>1, <2>2
<1>13. \A d \in 0 .. n : d \in T
  <2> HIDE DEF T
  <2>1. QED BY <1>1, <1>11, <1>12, Induction
<1>14. f[<<0, n>>] = g[<<0, n>>]
  <2>1. n \in 0 .. n /\ 0 \in 0 .. n /\ n - 0 <= n
    BY <1>1
  <2>2. n \in T
    BY <1>13, <2>1
  <2>3. QED BY <2>1, <2>2
<1>15. g[<<0, n>>] = c
  <2>1. n \in 0 .. n /\ 0 \in 0 .. n
    BY <1>1
  <2>2. g[<<0, n>>] = IF 0 >= n \/ c < 0 THEN 0 ELSE IF c > n THEN n ELSE c
    BY <2>1 DEF g
  <2>3. QED BY <1>1, <1>3, <2>2
<1>16. QED BY <1>2, <1>4, <1>14, <1>15

\* A part of an index, as a sequence of its own.
Part(ids, a, m) == [i \in 1 .. m |-> ids[a + i]]

LEMMA PartSeq ==
  ASSUME NEW ids \in Seq(Nat), NEW a \in Nat, NEW m \in Nat, a + m <= Len(ids)
  PROVE  /\ Part(ids, a, m) \in Seq(Nat) /\ Len(Part(ids, a, m)) = m
         /\ \A i \in 1 .. m : Part(ids, a, m)[i] = ids[a + i]
<1>1. \A i \in 1 .. m : a + i \in 1 .. Len(ids)
  BY LenProperties
<1>2. \A i \in 1 .. m : ids[a + i] \in Nat
  BY <1>1, ElementOfSeq
<1>3. Part(ids, a, m) \in [1 .. m -> Nat]
  BY <1>2 DEF Part
<1>4. Part(ids, a, m) \in Seq(Nat)
  BY <1>3
<1>5. QED BY <1>3, <1>4, LenProperties DEF Part

\* Taking the ids between the cursors one after the other gives the part of the
\* index that lies between them.
LEMMA BetweenIs ==
  ASSUME NEW ids \in Seq(Nat), NEW before, NEW after,
         NEW a \in 0 .. Len(ids), NEW b \in a .. Len(ids),
         \A i \in 1 .. Len(ids) : IsBetween(ids[i], before, after) <=> a < i /\ i <= b
  PROVE  Between(ids, before, after) = Part(ids, a, b - a)
<1> DEFINE n == Len(ids)
           ok(k) == IsBetween(ids[k], before, after)
           P(h) == h = [k \in 0 .. n |-> IF k = 0 THEN <<>>
                                         ELSE IF ok(k) THEN Append(h[k - 1], ids[k])
                                         ELSE h[k - 1]]
           f == CHOOSE h : P(h)
           size(k) == IF k <= a THEN 0 ELSE IF k <= b THEN k - a ELSE b - a
           g == [k \in 0 .. n |-> Part(ids, a, size(k))]
<1>1. n \in Nat /\ a \in Nat /\ b \in Nat /\ a <= b /\ b <= n
  BY LenProperties
<1>2. Between(ids, before, after) = f[n]
  BY DEF Between
<1>3. ASSUME NEW k \in 0 .. n
      PROVE  size(k) \in Nat /\ a + size(k) <= n /\ g[k] = Part(ids, a, size(k))
  BY <1>1
<1>4. g[0] = <<>>
  <2>1. 0 \in 0 .. n /\ size(0) = 0
    BY <1>1
  <2>2. g[0] = Part(ids, a, 0)
    BY <1>3, <2>1
  <2>3. Part(ids, a, 0) \in Seq(Nat) /\ Len(Part(ids, a, 0)) = 0
    BY <1>1, PartSeq
  <2>4. QED BY <2>2, <2>3, EmptySeq
<1>5. ASSUME NEW k \in 1 .. n
      PROVE  /\ k - 1 \in 0 .. n /\ k \in 0 .. n /\ k # 0
             /\ g[k] = IF ok(k) THEN Append(g[k - 1], ids[k]) ELSE g[k - 1]
  <2>1. k - 1 \in 0 .. n /\ k \in 0 .. n /\ k # 0
    BY <1>1
  <2>2. ok(k) <=> a < k /\ k <= b
    OBVIOUS
  <2>3. CASE ~(a < k /\ k <= b)
    <3>1. size(k) = size(k - 1)
      BY <1>1, <2>3
    <3>2. g[k] = g[k - 1]
      BY <1>3, <2>1, <3>1
    <3> HIDE DEF g, ok
    <3>3. QED BY <2>1, <2>2, <2>3, <3>2
  <2>4. CASE a < k /\ k <= b
    <3> DEFINE m == k - 1 - a
               p == Part(ids, a, m)
               q == Part(ids, a, m + 1)
    <3>1. /\ m \in Nat /\ m + 1 \in Nat /\ a + m <= n /\ a + (m + 1) <= n
          /\ size(k) = m + 1 /\ size(k - 1) = m /\ a + (m + 1) = k
      BY <1>1, <2>4
    <3>2. g[k] = q /\ g[k - 1] = p
      BY <1>3, <2>1, <3>1
    <3> HIDE DEF m, g, ok
    <3>3. p \in Seq(Nat) /\ Len(p) = m /\ \A i \in 1 .. m : p[i] = ids[a + i]
      <4>1. a \in Nat /\ m \in Nat /\ a + m <= Len(ids)
        BY <1>1, <3>1
      <4>2. QED BY <4>1, PartSeq
    <3>4. q \in Seq(Nat) /\ Len(q) = m + 1 /\ \A i \in 1 .. m + 1 : q[i] = ids[a + i]
      <4> DEFINE k1 == m + 1
      <4>1. a \in Nat /\ k1 \in Nat /\ a + k1 <= Len(ids)
        BY <1>1, <3>1
      <4> HIDE DEF k1
      <4>2. Part(ids, a, k1) \in Seq(Nat) /\ Len(Part(ids, a, k1)) = k1
            /\ \A i \in 1 .. k1 : Part(ids, a, k1)[i] = ids[a + i]
        BY <4>1, PartSeq
      <4>3. QED BY <4>2 DEF k1
    <3>5. ids[k] \in Nat
      BY ElementOfSeq
    <3> HIDE DEF p, q
    <3>6. /\ Append(p, ids[k]) \in Seq(Nat) /\ Len(Append(p, ids[k])) = m + 1
          /\ \A i \in 1 .. m : Append(p, ids[k])[i] = p[i]
          /\ Append(p, ids[k])[m + 1] = ids[k]
      BY <3>3, <3>5, AppendProperties
    <3>7. \A i \in 1 .. m + 1 : Append(p, ids[k])[i] = q[i]
      <4>1. \A i \in 1 .. m + 1 : i \in 1 .. m \/ i = m + 1
        BY <3>1
      <4>2. QED BY <3>1, <3>3, <3>4, <3>6, <4>1
    <3>8. Append(p, ids[k]) = q
      BY <3>4, <3>6, <3>7, SeqEqual
    <3>9. QED BY <2>1, <2>2, <2>4, <3>2, <3>8
  <2>5. QED BY <2>3, <2>4
<1> HIDE DEF g, ok
<1>6. P(g)
  <2> DEFINE h == [k \in 0 .. n |-> IF k = 0 THEN <<>>
                                    ELSE IF ok(k) THEN Append(g[k - 1], ids[k])
                                    ELSE g[k - 1]]
  <2>1. ASSUME NEW k \in 0 .. n
        PROVE  g[k] = h[k]
    <3>1. h[k] = IF k = 0 THEN <<>> ELSE IF ok(k) THEN Append(g[k - 1], ids[k]) ELSE g[k - 1]
      OBVIOUS
    <3> HIDE DEF h
    <3>2. CASE k = 0
      BY <1>4, <3>1, <3>2
    <3>3. CASE k # 0
      <4>1. k \in 1 .. n
        BY <1>1, <3>3
      <4>2. QED BY <1>5, <3>1, <3>3, <4>1
    <3>4. QED BY <3>2, <3>3
  <2>2. g = h
    BY <2>1 DEF g
  <2>3. QED BY <2>2
<1>7. P(f)
  <2> HIDE DEF P
  <2>1. QED BY <1>6
<1> HIDE DEF f
<1> DEFINE T == {k \in 0 .. n : f[k] = g[k]}
<1>8. \A k \in 0 .. n : k \in T
  <2>1. 0 \in T
    <3>1. 0 \in 0 .. n
      BY <1>1
    <3>2. f[0] = <<>>
      BY <1>7, <3>1
    <3>3. QED BY <1>4, <3>1, <3>2
  <2>2. ASSUME NEW k \in 1 .. n, k - 1 \in T
        PROVE  k \in T
    <3>1. f[k] = IF ok(k) THEN Append(f[k - 1], ids[k]) ELSE f[k - 1]
      <4>1. k \in 0 .. n /\ k # 0
        BY <1>5
      <4>2. QED BY <1>7, <4>1
    <3> HIDE DEF P
    <3>2. QED BY <1>5, <2>2, <3>1
  <2> HIDE DEF T
  <2>3. QED BY <1>1, <2>1, <2>2, Induction
<1>9. f[n] = g[n]
  <2>1. n \in 0 .. n
    BY <1>1
  <2>2. n \in T
    BY <1>8, <2>1
  <2>3. QED BY <2>2
<1>10. g[n] = Part(ids, a, b - a)
  <2>1. n \in 0 .. n /\ size(n) = b - a
    BY <1>1
  <2>2. QED BY <1>3, <2>1
<1>11. QED BY <1>2, <1>9, <1>10

\* SubSeq by a name of its own, which keeps the provers from unfolding it.
Cut(s, lo, hi) == SubSeq(s, lo, hi)

LEMMA PartOfPart ==
  ASSUME NEW ids \in Seq(Nat), NEW a \in Nat, NEW m \in Nat, a + m <= Len(ids),
         NEW lo \in Nat \ {0}, NEW hi \in Nat, lo - 1 <= hi, hi <= m,
         NEW c, NEW k, c = a + lo - 1, k = hi - lo + 1
  PROVE  Cut(Part(ids, a, m), lo, hi) = Part(ids, c, k)
<1> DEFINE p == Part(ids, a, m)
           q == Part(ids, c, k)
           s == SubSeq(p, lo, hi)
           j == lo - 1
<1>0. j \in Nat /\ k \in Nat /\ j + k <= m /\ lo = j + 1 /\ hi = j + k /\ c = a + j
  OBVIOUS
<1> HIDE DEF j
<1>1. p \in Seq(Nat) /\ Len(p) = m /\ \A i \in 1 .. m : p[i] = ids[a + i]
  BY PartSeq
<1>2. q \in Seq(Nat) /\ Len(q) = k /\ \A i \in 1 .. k : q[i] = ids[c + i]
  <2>1. c \in Nat /\ k \in Nat /\ c + k <= Len(ids)
    BY <1>0, LenProperties
  <2>2. /\ Part(ids, c, k) \in Seq(Nat) /\ Len(Part(ids, c, k)) = k
        /\ \A i \in 1 .. k : Part(ids, c, k)[i] = ids[c + i]
    BY <2>1, PartSeq
  <2>3. QED BY <2>2
<1> HIDE DEF p, q
<1>3. s \in Seq(Nat) /\ Len(s) = k /\ \A i \in 1 .. k : s[i] = p[j + i]
  <2>1. lo \in 1 .. Len(p) + 1 /\ hi \in lo - 1 .. Len(p)
    BY <1>0, <1>1
  <2>2. hi - lo + 1 = k /\ \A i \in 1 .. k : lo + i - 1 = j + i
    BY <1>0
  <2>3. /\ SubSeq(p, lo, hi) \in Seq(Nat)
        /\ Len(SubSeq(p, lo, hi)) = hi - lo + 1
        /\ \A i \in 1 .. hi - lo + 1 : SubSeq(p, lo, hi)[i] = p[lo + i - 1]
    BY SMTT(30), <1>1, <2>1, SubSeqProperties
  <2>4. QED BY <2>2, <2>3
<1> HIDE DEF s
<1>4. ASSUME NEW i \in 1 .. k
      PROVE  s[i] = q[i]
  <2>1. j + i \in 1 .. m /\ a + (j + i) = c + i
    BY <1>0, LenProperties
  <2>2. s[i] = p[j + i]
    BY <1>3
  <2>3. p[j + i] = ids[a + (j + i)]
    BY <1>1, <2>1
  <2>4. q[i] = ids[c + i]
    BY <1>2
  <2>5. QED BY <2>1, <2>2, <2>3, <2>4
<1>5. s = q
  BY <1>2, <1>3, <1>4, SeqEqual
<1>6. Cut(p, lo, hi) = s
  BY DEF Cut, s
<1>7. QED BY <1>5, <1>6 DEF q, p

LEMMA SmallMod == \A d \in Nat \ {0} : \A x \in 0 .. d - 1 : x % d = x
  OBVIOUS

\* The window is what a query between sound cursors asks for.  The successor of
\* AFTER does not wrap, nor does the difference of the two positions, for AFTER
\* lies below BEFORE and the index is shorter than a size_t can count.
LEMMA WindowWanted ==
  ASSUME NEW ids, Sorted(ids), Len(ids) < SizeMod,
         NEW before \in Nat, NEW after \in Nat, after < IdMod - 1,
         before = 0 \/ after < before, NEW limit \in Nat,
         NEW w, w = Window(ids, before, after, limit)
  PROVE  /\ w.first \in 0 .. Len(ids) /\ w.last \in w.first .. Len(ids)
         /\ [ids |-> Part(ids, w.first, w.last - w.first), more |-> w.more]
              = Wanted(ids, before, after, limit)
<1> DEFINE n == Len(ids)
           from == LowerBound(ids, (after + 1) % IdMod)
           b == IF before # 0 THEN LowerBound(ids, before) ELSE n
           a == IF after # 0 THEN from ELSE 0
           m == b - a
           s == Between(ids, before, after)
<1>1. /\ ids \in Seq(Nat) /\ n \in Nat /\ \A i \in 1 .. n : ids[i] \in Nat
      /\ IdMod \in Nat /\ SizeMod \in Nat /\ SizeMod > 0
  BY LenProperties, ElementOfSeq, IdModAssumption DEF Sorted
<1>2. from \in 0 .. n /\ \A i \in 1 .. n : ids[i] <= after <=> i <= from
  <2> DEFINE t == (after + 1) % IdMod
  <2>1. t = after + 1 /\ t \in Nat
    <3> DEFINE u == after + 1
    <3>1. u \in 0 .. IdMod - 1 /\ IdMod \in Nat \ {0}
      BY <1>1, IdModAssumption
    <3> HIDE DEF u
    <3>2. u % IdMod = u
      BY <3>1, SmallMod
    <3>3. QED BY <3>1, <3>2 DEF u
  <2>2. Splits(ids, t, LowerBound(ids, t))
    BY <2>1, LowerBoundSplits
  <2>3. from \in 0 .. n /\ \A i \in 1 .. n : ids[i] < t <=> i <= from
    BY <2>2 DEF Splits
  <2> HIDE DEF t, from
  <2>4. \A i \in 1 .. n : ids[i] < t <=> ids[i] <= after
    BY <1>1, <2>1
  <2>5. QED BY <2>3, <2>4
<1>3. b \in 0 .. n /\ \A i \in 1 .. n : (before # 0 => ids[i] < before) <=> i <= b
  <2>1. CASE before = 0
    BY <1>1, <2>1
  <2>2. CASE before # 0
    <3>1. Splits(ids, before, LowerBound(ids, before))
      BY LowerBoundSplits
    <3>2. QED BY <2>2, <3>1 DEF Splits
  <2>3. QED BY <2>1, <2>2
<1> HIDE DEF from, b
<1>4. a \in 0 .. n /\ \A i \in 1 .. n : (after # 0 => ids[i] > after) <=> a < i
  <2>1. CASE after = 0
    BY <1>1, <2>1
  <2>2. CASE after # 0
    <3>1. a = from
      BY <2>2
    <3>2. ASSUME NEW i \in 1 .. n
          PROVE  ids[i] > after <=> a < i
      BY <1>1, <1>2, <3>1
    <3>3. QED BY <1>2, <2>2, <3>1, <3>2
  <2>3. QED BY <2>1, <2>2
<1>5. a <= b
  <2>1. SUFFICES ASSUME a > b PROVE FALSE
    BY <1>3, <1>4
  <2>2. a \in 1 .. n /\ a # 0 /\ ~(a <= b) /\ ~(a < a)
    BY <1>1, <1>3, <1>4, <2>1
  <2>3. before # 0 /\ ~(ids[a] < before)
    BY <1>3, <2>2
  <2>4. after # 0 /\ ~(ids[a] > after)
    BY <1>4, <2>2
  <2>5. ids[a] \in Nat
    BY <1>1, <2>2
  <2> HIDE DEF a
  <2>6. QED BY <2>3, <2>4, <2>5
<1>6. m \in Nat /\ a + m = b /\ a + m <= n /\ m <= n
  BY <1>1, <1>3, <1>4, <1>5
<1>7. s = Part(ids, a, m)
  <2>1. \A i \in 1 .. n : IsBetween(ids[i], before, after) <=> a < i /\ i <= b
    BY <1>3, <1>4 DEF IsBetween
  <2>2. a \in 0 .. n /\ b \in a .. n
    BY <1>1, <1>3, <1>4, <1>5
  <2> HIDE DEF a
  <2>3. QED BY <1>1, <2>1, <2>2, BetweenIs
<1>8. s \in Seq(Nat) /\ Len(s) = m
  <2>1. a \in Nat /\ m \in Nat /\ a + m <= Len(ids)
    BY <1>4, <1>6
  <2> HIDE DEF a, m, s
  <2>2. QED BY <1>1, <1>7, <2>1, PartSeq
\* What is wanted, in positions of the index.
<1>9. Wanted(ids, before, after, limit) =
        [ids |-> IF m <= limit THEN Part(ids, a, m)
                 ELSE IF after # 0 THEN Part(ids, a, limit)
                 ELSE Part(ids, a + (m - limit), limit),
         more |-> m > limit]
  <2>1. Wanted(ids, before, after, limit) =
          [ids |-> IF m <= limit THEN s
                   ELSE IF after # 0 THEN Cut(s, 1, limit)
                   ELSE Cut(s, m - limit + 1, m),
           more |-> m > limit]
    <3> HIDE DEF m
    <3>1. QED BY <1>8 DEF Wanted, Cut
  <2>2. ~(m <= limit) => /\ Cut(s, 1, limit) = Part(ids, a, limit)
                         /\ Cut(s, m - limit + 1, m) = Part(ids, a + (m - limit), limit)
    <3>1. SUFFICES ASSUME ~(m <= limit)
                   PROVE  /\ Cut(s, 1, limit) = Part(ids, a, limit)
                          /\ Cut(s, m - limit + 1, m) = Part(ids, a + (m - limit), limit)
      OBVIOUS
    <3> DEFINE j == m - limit
    <3>2. /\ a \in Nat /\ m \in Nat /\ a + m <= Len(ids) /\ j \in Nat
          /\ 1 \in Nat \ {0} /\ limit \in Nat /\ 1 - 1 <= limit /\ limit <= m
          /\ a = a + 1 - 1 /\ limit = limit - 1 + 1 /\ m = j + limit
      BY <1>4, <1>6, <3>1
    <3> DEFINE hi == m
               lo == j + 1
               c == a + j
    <3> HIDE DEF j, a, m, s
    <3>3. Cut(Part(ids, a, m), 1, limit) = Part(ids, a, limit)
      BY <1>1, <3>2, PartOfPart
    <3>4. Cut(Part(ids, a, m), lo, hi) = Part(ids, c, limit)
      <4> HIDE DEF lo, hi, c
      <4>1. /\ lo \in Nat \ {0} /\ hi \in Nat /\ lo - 1 <= hi /\ hi <= m
            /\ c = a + lo - 1 /\ limit = hi - lo + 1 /\ c \in Nat
        BY <3>2 DEF lo, hi, c
      <4>2. ids \in Seq(Nat) /\ a \in Nat /\ m \in Nat /\ a + m <= Len(ids)
        BY <1>1, <3>2
      <4>3. QED BY <4>1, <4>2, PartOfPart
    <3>5. QED BY <1>7, <3>3, <3>4 DEF j
  <2>3. QED
    <3> HIDE DEF a, m, s
    <3>1. QED BY <1>7, <2>1, <2>2
<1>10. w = IF after # 0
           THEN IF before # 0
                THEN IF m > limit
                     THEN [first |-> a, last |-> a + limit, more |-> TRUE]
                     ELSE [first |-> a, last |-> b, more |-> FALSE]
                ELSE IF a + limit >= n
                     THEN [first |-> a, last |-> n, more |-> FALSE]
                     ELSE [first |-> a, last |-> a + limit, more |-> TRUE]
           ELSE IF b > limit
                THEN [first |-> b - limit, last |-> b, more |-> TRUE]
                ELSE [first |-> 0, last |-> b, more |-> FALSE]
  <2>1. w = IF after # 0
            THEN IF before # 0
                 THEN IF (b - from) % SizeMod > limit
                      THEN [first |-> from, last |-> from + limit, more |-> TRUE]
                      ELSE [first |-> from, last |-> b, more |-> FALSE]
                 ELSE IF from + limit >= n
                      THEN [first |-> from, last |-> n, more |-> FALSE]
                      ELSE [first |-> from, last |-> from + limit, more |-> TRUE]
            ELSE IF b > limit
                 THEN [first |-> b - limit, last |-> b, more |-> TRUE]
                 ELSE [first |-> 0, last |-> b, more |-> FALSE]
    BY DEF Window, from, b
  <2>2. after # 0 => from = a /\ (b - from) % SizeMod = m
    <3>1. m % SizeMod = m
      <4>1. m \in 0 .. SizeMod - 1
        BY <1>1, <1>6
      <4>2. SizeMod \in Nat \ {0}
        BY IdModAssumption
      <4> HIDE DEF m
      <4>3. QED BY ONLY <4>1, <4>2, SmallMod
    <3>2. QED BY <3>1
  <2> HIDE DEF a, m
  <2>3. QED BY <2>1, <2>2
<1>11. after = 0 => a = 0
  OBVIOUS
<1>12. before = 0 => b = n
  BY DEF b
<1> HIDE DEF a, s
<1>13. CASE after # 0 /\ m > limit
  <2>1. w = [first |-> a, last |-> a + limit, more |-> TRUE]
    <3>1. before = 0 => ~(a + limit >= n)
      BY <1>1, <1>4, <1>6, <1>12, <1>13
    <3> HIDE DEF m
    <3>2. QED BY <1>10, <1>13, <3>1
  <2>2. (a + limit) - a = limit /\ a + limit <= n /\ a + limit \in a .. n /\ ~(m <= limit)
    BY <1>1, <1>4, <1>6, <1>13
  <2> HIDE DEF m
  <2>3. w.first = a /\ w.last = a + limit /\ w.more = TRUE
    BY <2>1
  <2>4. Wanted(ids, before, after, limit) = [ids |-> Part(ids, a, limit), more |-> TRUE]
    BY <1>9, <1>13, <2>2
  <2>5. w.last - w.first = limit
    BY <2>2, <2>3
  <2>6. QED BY <1>4, <2>2, <2>3, <2>4, <2>5
<1>14. CASE after # 0 /\ ~(m > limit)
  <2>1. w = [first |-> a, last |-> b, more |-> FALSE]
    <3>1. before = 0 => a + limit >= n
      BY <1>1, <1>4, <1>6, <1>12, <1>14
    <3> HIDE DEF m
    <3>2. QED BY <1>10, <1>12, <1>14, <3>1
  <2>2. b - a = m /\ m <= limit /\ b \in a .. n /\ (m > limit) = FALSE
    BY <1>1, <1>3, <1>4, <1>5, <1>6, <1>14
  <2> HIDE DEF m
  <2>3. w.first = a /\ w.last = b /\ w.more = FALSE
    BY <2>1
  <2>4. Wanted(ids, before, after, limit) = [ids |-> Part(ids, a, m), more |-> FALSE]
    BY <1>9, <1>14, <2>2
  <2>5. QED BY <1>4, <2>2, <2>3, <2>4
<1>15. CASE after = 0 /\ m > limit
  <2>1. a = 0 /\ b = m /\ b > limit /\ ~(m <= limit)
    BY <1>1, <1>4, <1>6, <1>11, <1>15
  <2> DEFINE c == b - limit
  <2>2. w = [first |-> c, last |-> b, more |-> TRUE]
    BY <1>10, <1>15, <2>1
  <2>3. b - c = limit /\ c \in 0 .. n /\ b \in c .. n /\ a + (m - limit) = c
    BY <1>1, <1>3, <2>1
  <2> HIDE DEF m, c
  <2>4. w.first = c /\ w.last = b /\ w.more = TRUE
    BY <2>2
  <2>5. Wanted(ids, before, after, limit) = [ids |-> Part(ids, c, limit), more |-> TRUE]
    BY <1>9, <1>15, <2>1, <2>3
  <2>6. QED BY <2>3, <2>4, <2>5
<1>16. CASE after = 0 /\ ~(m > limit)
  <2>1. a = 0 /\ b = m /\ ~(b > limit) /\ m <= limit /\ (m > limit) = FALSE
    BY <1>1, <1>4, <1>6, <1>11, <1>16
  <2>2. w = [first |-> 0, last |-> b, more |-> FALSE]
    BY <1>10, <1>16, <2>1
  <2>3. b - 0 = m /\ 0 \in 0 .. n /\ b \in 0 .. n
    BY <1>1, <1>3, <2>1
  <2> HIDE DEF m
  <2>4. w.first = 0 /\ w.last = b /\ w.more = FALSE
    BY <2>2
  <2>5. Wanted(ids, before, after, limit) = [ids |-> Part(ids, 0, m), more |-> FALSE]
    BY <1>9, <1>16, <2>1
  <2>6. QED BY <2>3, <2>4, <2>5
<1>17. QED BY <1>13, <1>14, <1>15, <1>16

\* The server's answer is read from the lines the window of the index names.
LEMMA AnswerIs ==
  ASSUME IInv, up, slots # <<>>, NEW before \in Cursors, NEW after \in Cursors,
         after < IdMod - 1, before = 0 \/ after < before, NEW limit \in Nat
  PROVE  Answer(before, after, limit) = Wanted(Ids(Lines), before, after, limit)
<1> DEFINE n == Len(Lines)
           idx == slots[1].idx
           ids == Ids(Lines)
           w == Window(Ids(idx), before, after, limit)
<1>1. Lines \in Seq(Line)
  BY LinesAre DEF IInv
<1>2. n \in Nat /\ DOMAIN Lines = 1 .. n /\ \A i \in 1 .. n : Lines[i].id \in Nat
  <2>1. \A i \in 1 .. n : Lines[i] \in Line
    BY <1>1, ElementOfSeq
  <2>2. QED BY <1>1, <2>1, LenProperties DEF Line
<1>3. idx = Scan(Lines)
  BY DEF IInv, Held, One
<1>4. /\ DOMAIN idx = 1 .. n
      /\ \A i \in 1 .. n : idx[i].id = Lines[i].id /\ idx[i].off = i - 1
  <2> HIDE DEF idx
  <2>1. \A i \in 1 .. n : idx[i] = [id |-> Lines[i].id, off |-> i - 1]
    BY <1>1, <1>3, ScanIs
  <2>2. DOMAIN idx = 1 .. n
    BY <1>1, <1>3, ScanIs
  <2>3. QED BY <2>1, <2>2
<1> HIDE DEF idx
<1>5. Ids(idx) = ids
  BY <1>2, <1>4 DEF Ids
<1>6. ids \in Seq(Nat) /\ Len(ids) = n /\ \A i \in 1 .. n : ids[i] = Lines[i].id
  <2>1. ids \in [1 .. n -> Nat]
    BY <1>2 DEF Ids
  <2>2. QED BY <1>2, <2>1, LenProperties DEF Ids
<1> HIDE DEF ids, n
<1>7. Sorted(ids)
  <2>1. Ascending(Lines)
    BY DEF IInv, Numbered
  <2>2. \A i, j \in 1 .. n : i < j => ids[i] < ids[j]
    BY <1>2, <1>6, <2>1 DEF Ascending
  <2>3. QED BY <1>6, <2>2 DEF Sorted
<1>8. Len(ids) < SizeMod
  <2>1. n <= Len(said) /\ Len(said) <= MaxSaid /\ Len(said) \in Nat
    BY LenProperties DEF IInv, Types, Numbered, Roomy, n
  <2>2. MaxSaid < SizeMod /\ MaxSaid \in Nat /\ SizeMod \in Nat
    BY HistoryAssumption, IdModAssumption
  <2>3. QED BY <1>2, <1>6, <2>1, <2>2
<1>9. before \in Nat /\ after \in Nat
  BY DEF Cursors
<1>10. w = Window(ids, before, after, limit)
  BY <1>5
<1> HIDE DEF w
<1>11. /\ w.first \in 0 .. n /\ w.last \in w.first .. n
       /\ [ids |-> Part(ids, w.first, w.last - w.first), more |-> w.more]
            = Wanted(ids, before, after, limit)
  BY <1>6, <1>7, <1>8, <1>9, <1>10, WindowWanted
<1> DEFINE a == w.first
           m == w.last - w.first
           read == [i \in 1 .. m |-> LineAt(idx[a + i].off).id]
<1>12. a \in Nat /\ m \in Nat /\ a + m <= n
  BY <1>2, <1>11
<1>13. Answer(before, after, limit) = [ids |-> read, more |-> w.more]
  BY DEF Answer, w, idx
<1> HIDE DEF a, m
<1>14. ASSUME NEW i \in 1 .. m
       PROVE  LineAt(idx[a + i].off).id = ids[a + i]
  <2>1. a + i \in 1 .. n
    BY <1>2, <1>12
  <2> DEFINE k == a + i
  <2>2. k \in 1 .. n
    BY <2>1
  <2> HIDE DEF k
  <2>3. idx[k].off = k - 1 /\ ids[k] = Lines[k].id
    BY <1>4, <1>6, <2>2
  <2>4. LineAt(k - 1) = Lines[k]
    BY <1>2, <2>2 DEF LineAt
  <2>5. QED BY <2>3, <2>4 DEF k
<1>15. read = Part(ids, a, m)
  BY <1>14 DEF Part
<1> HIDE DEF read
<1>16. QED BY <1>11, <1>13, <1>15 DEF ids, a, m

\* QueryExact for every limit and bound: between sound cursors a query
\* (lm_chat_history_query) returns exactly the messages in the file between
\* them, as many as the limit allows from the right end, and says truly
\* whether there are more.
THEOREM QueriesAreExact == Calm => (Spec => []QueryExact)
<1> SUFFICES ASSUME Calm PROVE Spec => []QueryExact
  OBVIOUS
<1>1. \A l \in 0 .. MaxLimit : Limit(l) \in Nat
  BY LimitAssumption DEF Limit
<1>2. IInv => QueryExact
  BY <1>1, AnswerIs DEF QueryExact
<1>3. QED BY <1>2, HistoryInvariant, PTL

-----------------------------------------------------------------------------
(* The store implements the log. *)

LEMMA SameLog ==
  ASSUME Lines' = Lines, safe' = safe, tombs' = tombs
  PROVE  UNCHANGED Log!logVars
  BY DEF Log!logVars, LastId, Sure

\* No two lines have one id.
LEMMA IdsDiffer ==
  ASSUME NEW lines \in Seq(Line), Ascending(lines),
         NEW i \in DOMAIN lines, NEW j \in DOMAIN lines, lines[i].id = lines[j].id
  PROVE  i = j
<1>1. DOMAIN lines = 1 .. Len(lines) /\ Len(lines) \in Nat
  BY LenProperties
<1>2. lines[i] \in Line /\ lines[j] \in Line
  BY <1>1, ElementOfSeq
<1>3. lines[i].id \in Nat
  BY <1>2 DEF Line
<1>4. ~(i < j) /\ ~(j < i)
  BY <1>3 DEF Ascending
<1>5. QED BY <1>1, <1>4

LEMMA InitLog == Init => Log!LogInit
  BY EmptySeq DEF Init, Log!LogInit, Lines, LastId, Sure

LEMMA SayLog ==
  ASSUME IInv, Say
  PROVE  Log!LogNext
<1> DEFINE e == NewLine
           new == Append(Lines, e)
           n == Len(Lines)
<1>1. /\ Lines' = new /\ safe' = safe /\ tombs' = tombs /\ e \in Line
      /\ Len(said) \in Nat /\ Len(said) < MaxSaid
      /\ nextId \in 1 .. IdMod - 1 /\ Below(Lines, nextId)
  BY SayIs
<1>2. Lines \in Seq(Line) /\ n \in Nat /\ DOMAIN Lines = 1 .. n
  BY LinesAre DEF IInv
<1>3. e = [id |-> nextId, msg |-> Len(said) + 1]
  BY DEF NewLine
<1> HIDE DEF e
<1>4. new \in Seq(Line) /\ Len(new) = n + 1 /\ new[n + 1] = e /\ new # <<>>
      /\ \A i \in 1 .. n : new[i] = Lines[i]
  BY <1>1, <1>2, AppendProperties
<1>5. DOMAIN new = 1 .. n + 1
  BY <1>4, LenProperties
<1> HIDE DEF new
<1>6. LastId' = nextId
  BY <1>1, <1>3, <1>4 DEF LastId
<1>7. nextId > LastId
  <2>1. CASE Lines = <<>>
    BY <1>1, <2>1 DEF LastId
  <2>2. CASE Lines # <<>>
    <3>1. n \in DOMAIN Lines
      BY <1>2, <2>2, EmptySeq
    <3>2. LastId = Lines[n].id
      BY <2>2 DEF LastId
    <3>3. Lines[n] \in Line
      BY <1>2, <3>1, ElementOfSeq
    <3>4. Lines[n].id \in Nat /\ Lines[n].id < nextId
      BY <1>1, <3>1, <3>3 DEF Below, Line
    <3>5. QED BY <1>1, <3>2, <3>4
  <2>3. QED BY <2>1, <2>2
<1>8. Sure' = Sure
  <2>1. safe \subseteq 1 .. Len(said)
    BY LenProperties DEF IInv, Types
  <2>2. e.msg \notin safe
    BY <1>1, <1>3, <2>1
  <2>3. {j \in DOMAIN new : new[j].msg \in safe} = {j \in DOMAIN Lines : Lines[j].msg \in safe}
    <3>1. \A j \in 1 .. n + 1 : j = n + 1 \/ j \in 1 .. n
      BY <1>2
    <3>2. \A j \in 1 .. n : j \in 1 .. n + 1
      BY <1>2
    <3>3. QED BY <1>2, <1>4, <1>5, <2>2, <3>1, <3>2
  <2>4. Sure' = {new[i].id : i \in {j \in DOMAIN new : new[j].msg \in safe}}
    BY <1>1 DEF Sure
  <2>5. Sure = {Lines[i].id : i \in {j \in DOMAIN Lines : Lines[j].msg \in safe}}
    BY DEF Sure
  <2>6. QED BY <1>2, <1>4, <2>3, <2>4, <2>5
<1>9. Len(said) + 1 \in 1 .. MaxSaid
  BY <1>1, HistoryAssumption
<1>10. Log!Say(nextId, Len(said) + 1)
  BY <1>1, <1>3, <1>6, <1>7, <1>8 DEF Log!Say, new
<1>11. QED BY <1>1, <1>9, <1>10 DEF Log!LogNext

LEMMA FsyncLog ==
  ASSUME IInv, Fsync
  PROVE  Log!LogNext
<1>1. /\ UNCHANGED <<dir, data, tombs>>
      /\ safe' = safe \cup {m \in DOMAIN said : Stored(m)}
  BY DEF Fsync
<1>2. Lines' = Lines
  BY <1>1 DEF Lines
<1>3. DOMAIN said = 1 .. Len(said)
  BY LenProperties DEF IInv, Types
<1>4. \A i \in DOMAIN Lines : Lines[i].msg \in safe'
  BY <1>1, <1>3 DEF IInv, Numbered, Roomy, Stored
<1>5. Sure' = {Lines[i].id : i \in DOMAIN Lines}
  <2>1. Sure' = {Lines[i].id : i \in {j \in DOMAIN Lines : Lines[j].msg \in safe'}}
    BY <1>2 DEF Sure
  <2>2. {j \in DOMAIN Lines : Lines[j].msg \in safe'} = DOMAIN Lines
    BY <1>4
  <2>3. QED BY <2>1, <2>2
<1>6. LastId' = LastId
  BY <1>2 DEF LastId
<1>7. Log!Flush
  BY <1>1, <1>2, <1>5, <1>6 DEF Log!Flush, Log!IdsIn
<1>8. QED BY <1>7 DEF Log!LogNext

LEMMA PruneRenameLog ==
  ASSUME IInv, PruneRename, ~UseDays
  PROVE  Log!LogNext
<1> DEFINE n == Len(Lines)
           part == SubSeq(Lines, n - MaxMsgs + 1, n)
<1>1. /\ dir' = [log |-> dir.tmp, tmp |-> NoInode] /\ dir.tmp \in Inode
      /\ Rewritten(Lines, data[dir.tmp]) /\ data'[dir.tmp] = data[dir.tmp]
      /\ safe' = safe
  BY PruneRenameIs
<1>2. tombs' = tombs
  BY DEF PruneRename
<1>3. Lines \in Seq(Line) /\ n \in Nat /\ DOMAIN Lines = 1 .. n /\ MaxMsgs \in Nat
  BY LinesAre, HistoryAssumption DEF IInv
<1>4. Lines' = data[dir.tmp]
  <2>1. dir'.log = dir.tmp /\ dir.tmp # NoInode
    BY <1>1, HistoryAssumption
  <2>2. QED BY <1>1, <2>1 DEF Lines
<1>5. PICK d \in 1 .. n : /\ MaxMsgs > 0 /\ n > MaxMsgs /\ d = n - MaxMsgs
                          /\ Lines' = SubSeq(Lines, d + 1, n)
  BY <1>1, <1>4 DEF Rewritten, TooMany
<1>6. Lines' = part
  BY <1>5
<1>7. /\ part \in Seq(Line) /\ Len(part) = MaxMsgs /\ DOMAIN part = 1 .. MaxMsgs
      /\ \A i \in 1 .. MaxMsgs : part[i] = Lines[d + i]
  <2>1. /\ d \in 0 .. n /\ n \in 0 .. n /\ d <= n /\ n - d = MaxMsgs
    BY <1>3, <1>5
  <2>2. LET p == SubSeq(Lines, d + 1, n)
        IN  /\ p \in Seq(Line) /\ Len(p) = n - d /\ DOMAIN p = 1 .. n - d
            /\ \A i \in 1 .. n - d : p[i] = Lines[d + i]
    BY <1>3, <2>1, PartIs
  <2>3. QED BY <1>5, <2>1, <2>2
<1> HIDE DEF part
<1>8. LastId' = LastId
  <2>1. part # <<>> /\ Lines # <<>>
    BY <1>3, <1>5, <1>7, EmptySeq
  <2>2. part[MaxMsgs] = Lines[n]
    BY <1>3, <1>5, <1>7
  <2>3. LastId = Lines[n].id
    BY <2>1 DEF LastId
  <2>4. LastId' = part[MaxMsgs].id
    BY <1>6, <1>7, <2>1 DEF LastId
  <2>5. QED BY <2>2, <2>3, <2>4
<1>9. Sure' = Sure \cap Log!IdsIn(part)
  <2>1. Sure' = {part[i].id : i \in {j \in 1 .. MaxMsgs : part[j].msg \in safe}}
    BY <1>1, <1>6, <1>7 DEF Sure
  <2>2. Sure = {Lines[i].id : i \in {j \in 1 .. n : Lines[j].msg \in safe}}
    BY <1>3 DEF Sure
  <2>3. Log!IdsIn(part) = {part[i].id : i \in 1 .. MaxMsgs}
    BY <1>7 DEF Log!IdsIn
  <2>4. \A i \in 1 .. MaxMsgs : d + i \in 1 .. n
    BY <1>3, <1>5
  <2>5. ASSUME NEW x \in Sure' PROVE x \in Sure \cap Log!IdsIn(part)
    <3>1. PICK i \in 1 .. MaxMsgs : part[i].msg \in safe /\ x = part[i].id
      BY <2>1, <2>5
    <3>2. d + i \in 1 .. n /\ part[i] = Lines[d + i]
      BY <1>7, <2>4
    <3>3. QED BY <2>2, <2>3, <3>1, <3>2
  <2>6. ASSUME NEW x \in Sure, x \in Log!IdsIn(part) PROVE x \in Sure'
    <3>1. PICK j \in 1 .. n : Lines[j].msg \in safe /\ x = Lines[j].id
      BY <2>2, <2>6
    <3>2. PICK i \in 1 .. MaxMsgs : x = part[i].id
      BY <2>3, <2>6
    <3>3. d + i \in DOMAIN Lines /\ j \in DOMAIN Lines /\ Lines[d + i].id = Lines[j].id
      BY <1>3, <1>7, <2>4, <3>1, <3>2
    <3>4. d + i = j
      BY <1>3, <3>3, IdsDiffer DEF IInv, Numbered
    <3>5. part[i] = Lines[j]
      BY <1>7, <3>4
    <3>6. QED BY <2>1, <3>1, <3>2, <3>5
  <2>7. QED BY <2>5, <2>6
<1>10. Log!Retain
  BY <1>2, <1>5, <1>6, <1>8, <1>9 DEF Log!Retain, part
<1>11. QED BY <1>10 DEF Log!LogNext

LEMMA StopLog ==
  ASSUME IInv, Calm, NEW tear \in BOOLEAN, NEW keep \in synced .. Len(Lines),
         Stop(tear, keep)
  PROVE  Log!LogNext
<1> DEFINE part == SubSeq(Lines, 1, keep)
<1>1. /\ keep \in 0 .. Len(Lines) /\ synced <= keep
      /\ part \in Seq(Line) /\ Len(part) = keep /\ DOMAIN part = 1 .. keep
      /\ \A i \in 1 .. keep : part[i] = Lines[i]
      /\ Lines' = part
      /\ UNCHANGED <<synced, tombs, safe>>
  BY StopIs
<1>2. Lines \in Seq(Line) /\ Len(Lines) \in Nat /\ DOMAIN Lines = 1 .. Len(Lines)
  BY LinesAre DEF IInv
<1>3. keep \in Nat /\ synced \in Nat
  BY <1>1 DEF IInv, Types
<1> HIDE DEF part
<1>4. \A i \in 1 .. Len(Lines) : Lines[i].msg \in safe => i \in 1 .. keep
  <2>1. ASSUME NEW i \in 1 .. Len(Lines), Lines[i].msg \in safe
        PROVE  i \in 1 .. keep
    <3>1. i <= synced
      BY <1>2, <2>1 DEF IInv, Synced, Covers
    <3>2. QED BY <1>1, <1>3, <2>1, <3>1
  <2>2. QED BY <2>1
<1>5. \A i \in 1 .. keep : i \in 1 .. Len(Lines)
  BY <1>1, <1>2
<1>6. Sure' = Sure
  <2>1. {j \in 1 .. keep : part[j].msg \in safe} = {j \in 1 .. Len(Lines) : Lines[j].msg \in safe}
    BY <1>1, <1>4, <1>5
  <2>2. Sure' = {part[i].id : i \in {j \in 1 .. keep : part[j].msg \in safe}}
    BY <1>1 DEF Sure
  <2>3. Sure = {Lines[i].id : i \in {j \in 1 .. Len(Lines) : Lines[j].msg \in safe}}
    BY <1>2 DEF Sure
  <2>4. QED BY <1>1, <2>1, <2>2, <2>3
<1>7. Sure \subseteq Log!IdsIn(part)
  <2>1. Sure' \subseteq {part[i].id : i \in 1 .. keep}
    BY <1>1 DEF Sure
  <2>2. QED BY <1>1, <1>6, <2>1 DEF Log!IdsIn
<1>8. LastId' = IF keep = 0 THEN 0 ELSE Lines[keep].id
  <2>1. CASE keep = 0
    <3>1. part = <<>>
      BY <1>1, <2>1, EmptySeq
    <3>2. QED BY <1>1, <2>1, <3>1 DEF LastId
  <2>2. CASE keep # 0
    <3>1. part # <<>> /\ keep \in 1 .. keep
      BY <1>1, <1>3, <2>2, EmptySeq
    <3>2. LastId' = part[keep].id
      BY <1>1, <3>1 DEF LastId
    <3>3. QED BY <1>1, <2>2, <3>1, <3>2
  <2>3. QED BY <2>1, <2>2
<1>9. Log!PowerFailure
  BY <1>1, <1>6, <1>7, <1>8 DEF Log!PowerFailure, part
<1>10. QED BY <1>9 DEF Log!LogNext

LEMMA StepLog ==
  ASSUME IInv, Calm, ~UseDays, [Next]_vars
  PROVE  [Log!LogNext]_(Log!logVars)
<1>1. CASE \/ Open \/ SayTooLong \/ Hourly \/ PruneSkip \/ PruneWrite \/ PruneDone
           \/ UNCHANGED vars
  <2>1. safe' = safe /\ tombs' = tombs
    BY <1>1 DEF Open, SayTooLong, Hourly, PruneSkip, PruneWrite, PruneDone,
                vars, disk, history
  <2>2. Lines' = Lines
    <3>1. CASE Open \/ Hourly \/ PruneSkip \/ PruneDone \/ UNCHANGED vars
      <4>1. dir' = dir /\ data' = data
        BY <3>1 DEF Open, Hourly, PruneSkip, PruneDone, vars, disk
      <4>2. QED BY <4>1 DEF Lines
    <3>2. CASE SayTooLong
      <4>1. /\ data[ChannelFile] = Lines /\ ChannelFile \in Inode
            /\ dir' = [log |-> ChannelFile, tmp |-> NoInode] /\ data' = data
        BY <3>2, ChannelIs DEF SayTooLong
      <4>2. dir'.log = ChannelFile /\ ChannelFile # NoInode
        BY <4>1, HistoryAssumption
      <4>3. QED BY <4>1, <4>2 DEF Lines
    <3>3. CASE PruneWrite
      <4>1. dir.log \in Inode
        BY <3>3, PruneWriteIs
      <4>2. PICK t \in Inode \ {dir.log}, d \in 1 .. Len(Lines) :
              /\ data' = [data EXCEPT ![t] = SubSeq(Lines, d + 1, Len(Lines))]
              /\ dir' = [dir EXCEPT !.tmp = t]
        BY <3>3, PruneWriteIs
      <4> DEFINE p == SubSeq(Lines, d + 1, Len(Lines))
      <4>3. data' = [data EXCEPT ![t] = p]
        BY <4>2
      <4> HIDE DEF p
      <4>4. dir'.log = dir.log /\ data'[dir.log] = data[dir.log]
        BY <4>1, <4>2, <4>3 DEF IInv, Types
      <4>5. QED BY <4>1, <4>4, HistoryAssumption DEF Lines
    <3>4. QED BY <1>1, <3>1, <3>2, <3>3
  <2>3. QED BY <2>1, <2>2, SameLog
<1>2. CASE Say
  BY <1>2, SayLog
<1>3. CASE Fsync
  BY <1>3, FsyncLog
<1>4. CASE \E i \in DOMAIN said : Tombstone(said[i])
  <2>1. PICK i \in DOMAIN said : Tombstone(said[i])
    BY <1>4
  <2>2. said[i] \in 1 .. IdMod - 1
    <3>1. said \in Seq(1 .. IdMod - 1)
      BY DEF IInv, Types
    <3>2. DOMAIN said = 1 .. Len(said)
      BY <3>1, LenProperties
    <3>3. QED BY <3>1, <3>2, ElementOfSeq
  <2>3. tombs' = tombs \cup {said[i]} /\ dir' = dir /\ data' = data /\ safe' = safe
    BY <2>1 DEF Tombstone, history
  <2>4. Lines' = Lines
    BY <2>3 DEF Lines
  <2>5. Log!Hide(said[i])
    BY <2>3, <2>4 DEF Log!Hide, LastId, Sure
  <2>6. QED BY <2>2, <2>5 DEF Log!LogNext
<1>5. CASE PruneRename
  BY <1>5, PruneRenameLog
<1>6. CASE \E tear \in BOOLEAN, keep \in synced .. Len(Lines) : Stop(tear, keep)
  BY <1>6, StopLog
<1>7. QED BY <1>1, <1>2, <1>3, <1>4, <1>5, <1>6 DEF Next

\* ImplementsLog for every limit on the number of messages: chat_history.c
\* loses messages to that limit and, in a power failure, the latest ones that
\* no fsync has covered, and gives ids that only grow.
THEOREM HistoryImplementsLog == Calm /\ ~UseDays => (Spec => ImplementsLog)
<1> SUFFICES ASSUME Calm, ~UseDays PROVE Spec => ImplementsLog
  OBVIOUS
<1>1. Init => Log!LogInit
  BY InitLog
<1>2. IInv /\ [Next]_vars => [Log!LogNext]_(Log!logVars)
  BY StepLog
<1>3. QED BY <1>1, <1>2, HistoryInvariant, PTL DEF Spec, ImplementsLog, Log!LogSpec
=============================================================================
