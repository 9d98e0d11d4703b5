-------------------------- MODULE MnemosyneProofs --------------------------
(***************************************************************************)
(* Proofs about Mnemosyne for every value of its constants.                *)
(***************************************************************************)
EXTENDS Mnemosyne, FiniteSetTheorems, SequenceTheorems, WellFoundedInduction, TLAPS

-----------------------------------------------------------------------------
(* Induction up to a bound, for sets: the least number that is not in T      *)
(* cannot be.  Among the sets of such numbers below each of them one is      *)
(* contained in no other.                                                    *)

LEMMA LeastElement ==
  ASSUME NEW n \in Nat, NEW S \in SUBSET (1 .. n), S # {}
  PROVE  \E i \in S : \A j \in S : i <= j
<1> DEFINE Below(i) == {j \in S : j <= i}
           T == {Below(i) : i \in S}
<1>1. IsFiniteSet(S)
  <2>1. 1 \in Int /\ n \in Int
    OBVIOUS
  <2>2. IsFiniteSet(1 .. n)
    BY <2>1, FS_Interval
  <2>3. QED BY <2>2, FS_Subset
<1>2. IsWellFoundedOn(StrictSubsetOrdering(S), SUBSET S)
  BY <1>1, FS_FiniteSubsetsOfFinite, FS_StrictSubsetOrderingWellFounded
<1>3. T \subseteq SUBSET S /\ T # {}
  OBVIOUS
<1>4. PICK x \in T : \A y \in T : ~(<<y, x>> \in StrictSubsetOrdering(S))
  BY <1>2, <1>3, WFMin
<1>5. PICK i \in S : x = Below(i)
  BY <1>4
<1>6. ASSUME NEW j \in S, j < i
      PROVE  FALSE
  <2>1. i \in Int /\ j \in Int /\ \A k \in S : k \in Int
    OBVIOUS
  <2>2. \A k \in S : k <= j => k <= i
    BY <1>6, <2>1
  <2>3. Below(j) \subseteq Below(i) /\ i \in Below(i) /\ i \notin Below(j)
    <3>1. i <= i /\ ~(i <= j)
      BY <1>6, <2>1
    <3>2. QED BY <2>2, <3>1
  <2>4. <<Below(j), Below(i)>> \in StrictSubsetOrdering(S)
    BY <2>3 DEF StrictSubsetOrdering
  <2>5. QED BY <1>4, <1>5, <2>4
<1>7. \A j \in S : i <= j
  BY <1>6
<1>8. QED BY <1>7

LEMMA Induction ==
  ASSUME NEW n \in Nat, NEW T, 0 \in T,
         \A i \in 1 .. n : i - 1 \in T => i \in T
  PROVE  \A i \in 0 .. n : i \in T
<1> DEFINE S == {i \in 1 .. n : i \notin T}
<1>1. SUFFICES ASSUME S # {} PROVE FALSE
  OBVIOUS
<1>2. PICK i \in S : \A j \in S : i <= j
  BY <1>1, LeastElement
<1>3. i \in 1 .. n /\ i \notin T
  BY <1>2
<1>4. i - 1 \notin T
  BY <1>3
<1>5. i - 1 \in 0 .. n
  BY <1>3
<1>6. i - 1 # 0
  BY <1>4
<1>7. i - 1 \in S
  BY <1>4, <1>5, <1>6
<1>8. QED BY <1>2, <1>3, <1>7

-----------------------------------------------------------------------------
(***************************************************************************)
(* What a replay of queued changes leaves in the index, one item at a time: *)
(* the item's last change among the first n decides, or the index does.     *)
(***************************************************************************)
SaysTo(idx, s, n, x) ==
  \/ x \in idx /\ \A i \in 1 .. n : s[i].item # x
  \/ \E i \in 1 .. n : /\ s[i].item = x /\ s[i].add
                       /\ \A j \in 1 .. n : j > i => s[j].item # x

Says(idx, s, x) == SaysTo(idx, s, Len(s), x)

LEMMA SaysNext ==
  ASSUME NEW idx, NEW s, NEW n \in Nat \ {0}, NEW x
  PROVE  SaysTo(idx, s, n, x)
           <=> IF s[n].item = x THEN s[n].add = TRUE ELSE SaysTo(idx, s, n - 1, x)
<1>1. \A i : i \in 1 .. n <=> i \in 1 .. n - 1 \/ i = n
  OBVIOUS
<1>2. \A i \in 1 .. n - 1 : n > i
  OBVIOUS
<1>3. CASE s[n].item = x
  <2>1. n \in 1 .. n /\ \A j \in 1 .. n : ~(j > n)
    OBVIOUS
  <2>2. QED
    BY <1>1, <1>2, <1>3, <2>1 DEF SaysTo
<1>4. CASE s[n].item # x
  BY <1>1, <1>2, <1>4 DEF SaysTo
<1>5. QED BY <1>3, <1>4

\* The replay, which goes through the changes in order, comes to just that.
LEMMA ReplaySays ==
  ASSUME NEW idx \in SUBSET Items, NEW s \in Seq(Op), NEW x
  PROVE  x \in Replay(idx, s) <=> Says(idx, s, x)
<1> DEFINE N == Len(s)
           g == [n \in 0 .. N |-> {y \in Items : SaysTo(idx, s, n, y)}]
           P(f) == f = [n \in 0 .. N |-> IF n = 0 THEN idx ELSE Apply(f[n - 1], s[n])]
           after == CHOOSE f : P(f)
<1>1. N \in Nat /\ \A i \in 1 .. N : s[i] \in Op
  BY LenProperties, ElementOfSeq
<1>2. Replay(idx, s) = after[N]
  BY DEF Replay
<1>3. ASSUME NEW n \in 1 .. N
      PROVE  /\ n - 1 \in 0 .. N /\ n \in Nat \ {0}
             /\ s[n].item \in Items /\ s[n].add \in BOOLEAN
             /\ g[n] = Apply(g[n - 1], s[n])
  <2>1. n - 1 \in 0 .. N /\ n \in 0 .. N /\ n \in Nat \ {0}
    BY <1>1
  <2>2. s[n].item \in Items /\ s[n].add \in BOOLEAN
    BY <1>1 DEF Op
  <2>3. /\ g[n] = {y \in Items : SaysTo(idx, s, n, y)}
        /\ g[n - 1] = {y \in Items : SaysTo(idx, s, n - 1, y)}
    BY <2>1
  <2> HIDE DEF g
  <2>4. \A y : SaysTo(idx, s, n, y) <=>
                 IF s[n].item = y THEN s[n].add = TRUE ELSE SaysTo(idx, s, n - 1, y)
    BY <2>1, SaysNext
  <2>5. CASE s[n].add = TRUE
    BY <2>2, <2>3, <2>4, <2>5 DEF Apply
  <2>6. CASE s[n].add = FALSE
    BY <2>2, <2>3, <2>4, <2>6 DEF Apply
  <2>7. QED BY <2>1, <2>2, <2>5, <2>6
<1>4. g[0] = idx
  <2>1. 0 \in 0 .. N /\ \A i : i \notin 1 .. 0
    BY <1>1
  <2>2. \A y : SaysTo(idx, s, 0, y) <=> y \in idx
    BY <2>1 DEF SaysTo
  <2>3. QED BY <2>1, <2>2
<1>5. P(g)
  <2> DEFINE h == [n \in 0 .. N |-> IF n = 0 THEN idx ELSE Apply(g[n - 1], s[n])]
  <2>1. ASSUME NEW n \in 0 .. N
        PROVE  g[n] = h[n]
    <3>1. n = 0 \/ n \in 1 .. N
      BY <1>1
    <3>2. h[n] = IF n = 0 THEN idx ELSE Apply(g[n - 1], s[n])
      OBVIOUS
    <3>3. CASE n = 0
      BY <1>4, <3>2, <3>3
    <3>4. CASE n \in 1 .. N
      <4>1. n # 0
        BY <1>1, <3>4
      <4>2. g[n] = Apply(g[n - 1], s[n])
        BY <1>3, <3>4
      <4> HIDE DEF g, h
      <4>3. QED BY <3>2, <4>1, <4>2
    <3>5. QED BY <3>1, <3>3, <3>4
  <2>2. QED BY <2>1
<1> HIDE DEF g
<1>6. P(after)
  <2> HIDE DEF P
  <2>1. QED BY <1>5
<1>7. \A n \in 0 .. N : n \in {m \in 0 .. N : after[m] = g[m]}
  <2> DEFINE T == {m \in 0 .. N : after[m] = g[m]}
  <2> HIDE DEF after
  <2>1. 0 \in T
    BY <1>1, <1>4, <1>6
  <2>2. ASSUME NEW n \in 1 .. N, n - 1 \in T
        PROVE  n \in T
    <3>1. n \in 0 .. N /\ n # 0
      BY <1>1
    <3>2. after[n] = Apply(after[n - 1], s[n])
      BY <1>6, <3>1
    <3>3. QED BY <1>3, <2>2, <3>1, <3>2
  <2> HIDE DEF T
  <2>3. \A n \in 0 .. N : n \in T
    BY <1>1, <2>1, <2>2, Induction
  <2>4. QED BY <2>3 DEF T
<1>8. Replay(idx, s) = {y \in Items : SaysTo(idx, s, N, y)}
  <2>1. N \in 0 .. N
    BY <1>1
  <2>2. after[N] = g[N]
    BY <1>7, <2>1
  <2>3. QED BY <1>2, <2>1, <2>2 DEF g
<1>9. SaysTo(idx, s, N, x) => x \in Items
  BY <1>1 DEF SaysTo, Op
<1>10. QED BY <1>8, <1>9 DEF Says

\* The change in front is done first: without it the index must have it.
LEMMA SaysShifted ==
  ASSUME NEW idx, NEW jdx, NEW n \in Nat, NEW s, NEW t, NEW x,
         \A i \in 1 .. n : t[i] = s[i + 1],
         x \in jdx <=> IF s[1].item = x THEN s[1].add = TRUE ELSE x \in idx
  PROVE  SaysTo(jdx, t, n, x) <=> SaysTo(idx, s, n + 1, x)
<1>1. ASSUME NEW i \in 1 .. n + 1
      PROVE  i = 1 \/ (i - 1 \in 1 .. n /\ t[i - 1] = s[i])
  OBVIOUS
<1>2. ASSUME NEW i \in 1 .. n
      PROVE  i + 1 \in 1 .. n + 1 /\ i + 1 > 1 /\ t[i] = s[i + 1]
  OBVIOUS
<1>3. 1 \in 1 .. n + 1
  OBVIOUS
<1>4. CASE \E k \in 1 .. n : t[k].item = x
  <2>1. PICK k \in 1 .. n : t[k].item = x
    BY <1>4
  <2>2. SaysTo(jdx, t, n, x) <=> \E i \in 1 .. n : /\ t[i].item = x /\ t[i].add
                                      /\ \A j \in 1 .. n : j > i => t[j].item # x
    BY <2>1 DEF SaysTo
  <2>3. SaysTo(idx, s, n + 1, x)
          <=> \E i \in 1 .. n + 1 : /\ s[i].item = x /\ s[i].add
                               /\ \A j \in 1 .. n + 1 : j > i => s[j].item # x
    BY <1>2, <2>1 DEF SaysTo
  <2>4. ASSUME NEW i \in 1 .. n, t[i].item = x, t[i].add,
               \A j \in 1 .. n : j > i => t[j].item # x
        PROVE  /\ i + 1 \in 1 .. n + 1 /\ s[i + 1].item = x /\ s[i + 1].add
               /\ \A j \in 1 .. n + 1 : j > i + 1 => s[j].item # x
    <3>1. ASSUME NEW j \in 1 .. n + 1, j > i + 1
          PROVE  s[j].item # x
      <4>1. j # 1 /\ j - 1 > i
        BY <3>1
      <4>2. j - 1 \in 1 .. n /\ t[j - 1] = s[j]
        BY <1>1, <4>1
      <4>3. QED BY <2>4, <4>1, <4>2
    <3>2. QED BY <1>2, <2>4, <3>1
  <2>5. ASSUME NEW i \in 1 .. n + 1, s[i].item = x, s[i].add,
               \A j \in 1 .. n + 1 : j > i => s[j].item # x
        PROVE  /\ i - 1 \in 1 .. n /\ t[i - 1].item = x /\ t[i - 1].add
               /\ \A j \in 1 .. n : j > i - 1 => t[j].item # x
    <3>1. i # 1
      BY <1>2, <2>1, <2>5
    <3>2. i - 1 \in 1 .. n /\ t[i - 1] = s[i]
      BY <1>1, <3>1
    <3>3. ASSUME NEW j \in 1 .. n, j > i - 1
          PROVE  t[j].item # x
      <4>1. j + 1 \in 1 .. n + 1 /\ j + 1 > i
        BY <3>3
      <4>2. QED BY <1>2, <2>5, <4>1
    <3>4. QED BY <2>5, <3>2, <3>3
  <2>6. QED BY <2>2, <2>3, <2>4, <2>5
<1>5. CASE \A k \in 1 .. n : t[k].item # x
  <2>1. \A j \in 1 .. n + 1 : j # 1 => s[j].item # x
    BY <1>1, <1>5
  <2>2. SaysTo(jdx, t, n, x) <=> x \in jdx
    BY <1>5 DEF SaysTo
  <2>3. CASE s[1].item = x
    <3>1. \A j \in 1 .. n + 1 : j > 1 => s[j].item # x
      BY <2>1
    <3>2. SaysTo(idx, s, n + 1, x) <=> s[1].add
      BY <1>3, <2>1, <2>3, <3>1 DEF SaysTo
    <3>3. QED BY <2>2, <2>3, <3>2
  <2>4. CASE s[1].item # x
    <3>1. \A j \in 1 .. n + 1 : s[j].item # x
      BY <2>1, <2>4
    <3>2. SaysTo(idx, s, n + 1, x) <=> x \in idx
      BY <3>1 DEF SaysTo
    <3>3. QED BY <2>2, <2>4, <3>2
  <2>5. QED BY <2>3, <2>4
<1>6. QED BY <1>4, <1>5

-----------------------------------------------------------------------------
(***************************************************************************)
(* The ring buffer as a queue.                                              *)
(***************************************************************************)
Ring == [entries : [0 .. QueueSize - 1 -> Op], head : 0 .. QueueSize - 1,
         tail : 0 .. QueueSize - 1, count : 0 .. QueueSize]
Closed(r) == r.tail = (r.head + r.count) % QueueSize

\* Going once past the end comes back by the size.
LEMMA Around ==
  /\ \A a \in 0 .. QueueSize - 1 : a % QueueSize = a
  /\ \A a \in QueueSize .. 2 * QueueSize - 1 : a % QueueSize = a - QueueSize
<1>1. QueueSize \in Nat /\ QueueSize > 0
  BY MnemosyneAssumption
<1>2. QED BY <1>1

\* The slot of the i-th entry from the head.
At(r, i) == (r.head + i - 1) % QueueSize

LEMMA Slots ==
  ASSUME NEW r \in Ring
  PROVE  /\ \A i \in 1 .. QueueSize : At(r, i) \in 0 .. QueueSize - 1
         /\ \A i, j \in 1 .. QueueSize : At(r, i) = At(r, j) => i = j
         /\ At(r, 1) = r.head
         /\ \A i \in 1 .. QueueSize : (At(r, i) + 1) % QueueSize
                                        = (r.head + i) % QueueSize
<1>1. QueueSize \in Nat /\ QueueSize > 0 /\ r.head \in 0 .. QueueSize - 1
  BY MnemosyneAssumption DEF Ring
<1>2. ASSUME NEW i \in 1 .. QueueSize
      PROVE  \/ /\ r.head + i - 1 < QueueSize /\ At(r, i) = r.head + i - 1
                /\ At(r, i) \in 0 .. QueueSize - 1
             \/ /\ r.head + i - 1 >= QueueSize /\ At(r, i) = r.head + i - 1 - QueueSize
                /\ At(r, i) \in 0 .. QueueSize - 1
  <2>1. CASE r.head + i - 1 < QueueSize
    <3>1. r.head + i - 1 \in 0 .. QueueSize - 1
      BY <1>1, <2>1
    <3>2. QED BY <2>1, <3>1, Around DEF At
  <2>2. CASE r.head + i - 1 >= QueueSize
    <3>1. r.head + i - 1 \in QueueSize .. 2 * QueueSize - 1
      BY <1>1, <2>2
    <3> DEFINE a == r.head + i - 1
    <3>2. At(r, i) = a % QueueSize /\ a \in QueueSize .. 2 * QueueSize - 1
      BY <3>1 DEF At
    <3> HIDE DEF a
    <3>3. At(r, i) = a - QueueSize
      BY <3>2, Around
    <3>4. At(r, i) = r.head + i - 1 - QueueSize
      BY <1>1, <3>3 DEF a
    <3>5. QED BY <1>1, <2>2, <3>4
  <2>3. QED BY <1>1, <2>1, <2>2
<1>3. ASSUME NEW i \in 1 .. QueueSize, NEW j \in 1 .. QueueSize, At(r, i) = At(r, j)
      PROVE  i = j
  BY <1>1, <1>2, <1>3
<1>4. At(r, 1) = r.head
  <2>1. r.head + 1 - 1 = r.head
    BY <1>1
  <2>2. QED BY <1>1, <2>1, Around DEF At
<1>5. ASSUME NEW i \in 1 .. QueueSize
      PROVE  (At(r, i) + 1) % QueueSize = (r.head + i) % QueueSize
  <2>1. CASE r.head + i < QueueSize
    <3>1. At(r, i) + 1 = r.head + i
      BY <1>1, <1>2, <2>1
    <3>2. QED BY <3>1
  <2>2. CASE r.head + i = QueueSize
    <3>1. At(r, i) + 1 = r.head + i
      BY <1>1, <1>2, <2>2
    <3>2. QED BY <3>1
  <2>3. CASE r.head + i > QueueSize
    <3>1. At(r, i) + 1 = r.head + i - QueueSize /\ r.head + i - QueueSize \in 0 .. QueueSize - 1
      BY <1>1, <1>2, <2>3
    <3> DEFINE b == r.head + i
    <3>2. b \in QueueSize .. 2 * QueueSize - 1 /\ b - QueueSize \in 0 .. QueueSize - 1
      BY <1>1, <2>3
    <3>3. At(r, i) + 1 = b - QueueSize
      BY <1>1, <3>1
    <3> HIDE DEF b
    <3>4. (At(r, i) + 1) % QueueSize = b % QueueSize
      BY <3>2, <3>3, Around
    <3>5. QED BY <3>4 DEF b
  <2>4. QED BY <1>1, <2>1, <2>2, <2>3
<1>6. QED BY <1>2, <1>3, <1>4, <1>5

\* The head moves on by one, and the slots counted from it too.
LEMMA HeadMoved ==
  ASSUME NEW r \in Ring, NEW p, p.head = (r.head + 1) % QueueSize,
         NEW i \in 1 .. QueueSize
  PROVE  At(p, i) = (r.head + i) % QueueSize
<1>1. QueueSize \in Nat /\ QueueSize > 0 /\ r.head \in 0 .. QueueSize - 1
  BY MnemosyneAssumption DEF Ring
<1> DEFINE h == (r.head + 1) % QueueSize
<1>2. p.head = h
  OBVIOUS
<1>3. CASE r.head + 1 < QueueSize
  <2>1. r.head + 1 \in 0 .. QueueSize - 1
    BY <1>1, <1>3
  <2>2. h = r.head + 1
    BY <2>1, Around
  <2>3. h + i - 1 = r.head + i
    BY <1>1, <2>2
  <2>4. QED BY <1>2, <2>3 DEF At
<1>4. CASE r.head + 1 >= QueueSize
  <2>1. r.head + 1 = QueueSize
    BY <1>1, <1>4
  <2>2. h = 0
    BY <1>1, <2>1, Around
  <2>3. h + i - 1 = r.head + i - QueueSize /\ h + i - 1 \in 0 .. QueueSize - 1
        /\ r.head + i \in QueueSize .. 2 * QueueSize - 1
    BY <1>1, <2>1, <2>2
  <2>4. (r.head + i) % QueueSize = r.head + i - QueueSize
    <3> DEFINE b == r.head + i
    <3>1. b \in QueueSize .. 2 * QueueSize - 1
      BY <2>3
    <3> HIDE DEF b
    <3>2. b % QueueSize = b - QueueSize
      BY <3>1, Around
    <3>3. QED BY <1>1, <3>2 DEF b
  <2>5. At(p, i) = h + i - 1
    BY <1>2, <2>3, Around DEF At
  <2>6. QED BY <2>3, <2>4, <2>5
<1>5. QED BY <1>1, <1>3, <1>4

LEMMA QueueOf ==
  ASSUME NEW r \in Ring
  PROVE  /\ Queue(r) \in Seq(Op) /\ Len(Queue(r)) = r.count
         /\ \A i \in 1 .. r.count : Queue(r)[i] = r.entries[At(r, i)]
         /\ Queued(r) = {Queue(r)[i].item : i \in 1 .. r.count}
<1>1. r.count \in Nat /\ 1 .. r.count \subseteq 1 .. QueueSize
  BY MnemosyneAssumption DEF Ring
<1>2. ASSUME NEW i \in 1 .. r.count
      PROVE  r.entries[At(r, i)] \in Op
  BY <1>1, Slots DEF Ring
<1>3. Queue(r) = [i \in 1 .. r.count |-> r.entries[At(r, i)]]
  BY DEF Queue, At
<1>4. \A i \in 1 .. r.count : Queue(r)[i] \in Op
  BY <1>2, <1>3
<1>5. Queue(r) \in [1 .. r.count -> Op]
  BY <1>2, <1>3
<1>6. Queue(r) \in Seq(Op) /\ Len(Queue(r)) = r.count
  BY <1>1, <1>5, SeqDef, LenProperties
<1>7. QED BY <1>3, <1>6 DEF Queued

\* A push drops the entry at the head of a full ring (m = 1) or none (m = 0).
LEMMA PushQueue ==
  ASSUME NEW r \in Ring, Closed(r), NEW o \in Op
  PROVE  /\ Push(r, o) \in Ring /\ Closed(Push(r, o))
         /\ \E m \in {0, 1} :
              /\ m <= r.count /\ Len(Queue(Push(r, o))) = r.count - m + 1
              /\ \A i \in 1 .. r.count - m :
                   Queue(Push(r, o))[i] = Queue(r)[i + m]
              /\ Queue(Push(r, o))[r.count - m + 1] = o
              /\ Dropped(r) = {Queue(r)[i].item : i \in 1 .. m}
<1> DEFINE m == IF r.count >= QueueSize THEN 1 ELSE 0
           h == (r.head + m) % QueueSize
           c == r.count - m + 1
           e == [r.entries EXCEPT ![r.tail] = o]
           p == [entries |-> e, head |-> h, tail |-> (r.tail + 1) % QueueSize, count |-> c]
<1>1. /\ QueueSize \in Nat /\ QueueSize > 0 /\ r.head \in 0 .. QueueSize - 1
      /\ r.tail \in 0 .. QueueSize - 1 /\ r.count \in 0 .. QueueSize
      /\ r.entries \in [0 .. QueueSize - 1 -> Op]
      /\ r = [entries |-> r.entries, head |-> r.head, tail |-> r.tail, count |-> r.count]
  BY MnemosyneAssumption DEF Ring
<1>2. Push(r, o) = p
  <2>1. CASE r.count >= QueueSize
    <3>1. m = 1
      BY <2>1
    <3>2. c = r.count /\ r.count - 1 + 1 = c
      BY <1>1, <3>1
    <3>3. h = (r.head + 1) % QueueSize
      BY <3>1
    <3> HIDE DEF m, h, c
    <3> DEFINE q == [entries |-> r.entries, head |-> h, tail |-> r.tail,
                     count |-> r.count - 1]
    <3>4. [r EXCEPT !.head = (@ + 1) % QueueSize, !.count = @ - 1] = q
      <4> DEFINE d == r.count - 1
                 t == (r.head + 1) % QueueSize
      <4>1. q = [entries |-> r.entries, head |-> t, tail |-> r.tail, count |-> d]
        BY <3>3
      <4> HIDE DEF d, t, q
      <4>2. [r EXCEPT !.head = t, !.count = d] = q
        <5> DEFINE u == [r EXCEPT !.head = t]
        <5>1. u = [entries |-> r.entries, head |-> t, tail |-> r.tail, count |-> r.count]
          BY <1>1
        <5>2. [r EXCEPT !.head = t, !.count = d] = [u EXCEPT !.count = d]
          OBVIOUS
        <5> HIDE DEF u
        <5>3. [u EXCEPT !.count = d] = q
          BY <4>1, <5>1
        <5>4. QED BY <5>2, <5>3
      <4>3. QED BY <4>2 DEF d, t
    <3>5. Push(r, o) = [q EXCEPT !.entries[q.tail] = o, !.tail = (@ + 1) % QueueSize,
                                 !.count = @ + 1]
      BY <2>1, <3>4 DEF Push
    <3>6. q.tail = r.tail /\ q.entries = r.entries /\ q.head = h /\ q.count + 1 = c
      BY <3>2
    <3>7. QED BY <3>5, <3>6
  <2>2. CASE ~(r.count >= QueueSize)
    <3>1. m = 0
      BY <2>2
    <3>2. c = r.count + 1 /\ r.head + m = r.head
      BY <1>1, <3>1
    <3>3. h = r.head
      BY <1>1, <3>2, Around
    <3> HIDE DEF m, h, c
    <3>4. Push(r, o) = [r EXCEPT !.entries[r.tail] = o, !.tail = (@ + 1) % QueueSize,
                                 !.count = @ + 1]
      BY <2>2 DEF Push
    <3>5. QED BY <1>1, <3>2, <3>3, <3>4
  <2>3. QED BY <2>1, <2>2
<1>3. /\ m \in {0, 1} /\ m <= r.count /\ c \in 1 .. QueueSize
      /\ r.count - m \in 0 .. QueueSize - 1 /\ r.count - m = c - 1
      /\ m = 1 <=> r.count = QueueSize
      /\ m = 0 <=> r.count < QueueSize
  BY <1>1
<1> HIDE DEF m
<1>4. h = At(r, m + 1) /\ h \in 0 .. QueueSize - 1
  <2>1. m + 1 \in 1 .. QueueSize \/ (m = 1 /\ QueueSize = 1)
    BY <1>1, <1>3
  <2>2. CASE m + 1 \in 1 .. QueueSize
    <3>1. r.head + (m + 1) - 1 = r.head + m
      BY <1>1, <1>3
    <3>2. QED BY <2>2, <3>1, Slots DEF At
  <2>3. CASE m = 1 /\ QueueSize = 1
    <3>1. r.head + (m + 1) - 1 = r.head + m /\ r.head + m = 1 /\ r.head = 0
      BY <1>1, <1>3, <2>3
    <3>2. 1 % QueueSize = 0
      BY <2>3, Around
    <3>3. QED BY <1>1, <3>1, <3>2 DEF At
  <2>4. QED BY <2>1, <2>2, <2>3
<1>5. c \in 0 .. QueueSize /\ (r.tail + 1) % QueueSize \in 0 .. QueueSize - 1
  BY <1>1, <1>3
<1>6. e \in [0 .. QueueSize - 1 -> Op]
  BY <1>1
<1> HIDE DEF c
<1>7. p \in Ring
  <2> HIDE DEF e, h
  <2>1. QED BY <1>4, <1>5, <1>6 DEF Ring
\* The slots of the new queue, from the new head on.
<1>8. ASSUME NEW i \in 1 .. c
      PROVE  At(p, i) = (r.head + i + m - 1) % QueueSize
  <2>1. p.head = h /\ i \in 1 .. QueueSize
    BY <1>1, <1>3
  <2>2. CASE m = 0
    <3>1. h = r.head
      BY <1>4, <1>1, <2>2, Slots
    <3>2. r.head + i + m - 1 = r.head + i - 1
      BY <1>1, <2>1, <2>2
    <3>3. QED BY <2>1, <3>1, <3>2 DEF At
  <2>3. CASE m = 1
    <3>1. r.head + i + m - 1 = r.head + i
      BY <1>1, <2>1, <2>3
    <3>2. p.head = (r.head + 1) % QueueSize
      BY <2>1, <2>3
    <3> HIDE DEF p
    <3>3. QED BY <2>1, <3>1, <3>2, HeadMoved
  <2>4. QED BY <1>3, <2>2, <2>3
<1>9. At(p, c) = r.tail
  <2>1. r.head + c + m - 1 = r.head + r.count
    BY <1>1, <1>3
  <2>2. c \in 1 .. c
    BY <1>3
  <2>3. QED BY <1>8, <2>1, <2>2 DEF Closed
<1>10. Closed(p)
  <2>1. c \in 1 .. QueueSize
    BY <1>3
  <2>2. (At(p, c) + 1) % QueueSize = (p.head + c) % QueueSize
    BY <1>7, <2>1, Slots
  <2>3. p.tail = (r.tail + 1) % QueueSize /\ p.count = c
    OBVIOUS
  <2>4. QED BY <1>9, <2>2, <2>3 DEF Closed
<1>11. ASSUME NEW i \in 1 .. r.count - m
       PROVE  Queue(p)[i] = Queue(r)[i + m]
  <2>1. /\ i \in 1 .. c /\ i # c /\ i \in 1 .. QueueSize /\ c \in 1 .. QueueSize
        /\ i + m \in 1 .. r.count /\ r.head + i + m - 1 = r.head + (i + m) - 1
    BY <1>1, <1>3
  <2>2. At(p, i) = At(r, i + m) /\ At(p, i) # r.tail /\ At(p, i) \in 0 .. QueueSize - 1
    <3>1. At(p, i) = At(r, i + m)
      BY <1>8, <2>1 DEF At
    <3>2. At(p, i) # At(p, c) /\ At(p, i) \in 0 .. QueueSize - 1
      BY <1>7, <2>1, Slots
    <3>3. QED BY <1>9, <3>1, <3>2
  <2>3. e[At(p, i)] = r.entries[At(p, i)]
    BY <1>1, <2>2
  <2>4. p.count = c /\ p.entries = e
    OBVIOUS
  <2> HIDE DEF e, p
  <2>5. Queue(p)[i] = e[At(p, i)]
    BY <1>7, <2>1, <2>4, QueueOf
  <2>6. Queue(r)[i + m] = r.entries[At(r, i + m)]
    BY <2>1, QueueOf
  <2>7. QED BY <2>2, <2>3, <2>5, <2>6
<1>12. Queue(p)[c] = o /\ Len(Queue(p)) = c
  <2>1. p.count = c /\ p.entries = e /\ c \in 1 .. c
    BY <1>3
  <2>2. e[r.tail] = o
    BY <1>1
  <2> HIDE DEF e, p
  <2>3. QED BY <1>7, <1>9, <2>1, <2>2, QueueOf
<1>13. Dropped(r) = {Queue(r)[i].item : i \in 1 .. m}
  <2>1. CASE m = 0
    <3>1. ~(r.count >= QueueSize) /\ 1 .. m = {}
      BY <1>1, <1>3, <2>1
    <3>2. QED BY <3>1 DEF Dropped
  <2>2. CASE m = 1
    <3>1. r.count >= QueueSize /\ 1 .. m = {1} /\ 1 \in 1 .. r.count
      BY <1>1, <1>3, <2>2
    <3>2. Queue(r)[1] = r.entries[r.head]
      <4>1. At(r, 1) = r.head
        BY Slots
      <4>2. QED BY <3>1, <4>1, QueueOf
    <3>3. QED BY <3>1, <3>2 DEF Dropped
  <2>3. QED BY <1>3, <2>1, <2>2
<1>14. QED
  <2> HIDE DEF p
  <2>1. r.count - m + 1 = c
    BY DEF c
  <2>2. QED BY <1>2, <1>3, <1>7, <1>10, <1>11, <1>12, <1>13, <2>1

\* A pop takes the first entry off.
LEMMA PopQueue ==
  ASSUME NEW r \in Ring, Closed(r), r.count > 0
  PROVE  /\ Pop(r) \in Ring /\ Closed(Pop(r))
         /\ r.entries[r.head] \in Op /\ r.entries[r.head] = Queue(r)[1]
         /\ Len(Queue(Pop(r))) = r.count - 1
         /\ \A i \in 1 .. r.count - 1 : Queue(Pop(r))[i] = Queue(r)[i + 1]
<1> DEFINE e == [r.entries EXCEPT ![r.head] = NoOp]
           h == (r.head + 1) % QueueSize
           c == r.count - 1
           p == [entries |-> e, head |-> h, tail |-> r.tail, count |-> c]
<1>1. /\ QueueSize \in Nat /\ QueueSize > 0 /\ r.head \in 0 .. QueueSize - 1
      /\ r.tail \in 0 .. QueueSize - 1 /\ r.count \in 1 .. QueueSize
      /\ r.entries \in [0 .. QueueSize - 1 -> Op]
      /\ r = [entries |-> r.entries, head |-> r.head, tail |-> r.tail, count |-> r.count]
  BY MnemosyneAssumption DEF Ring
<1>2. Pop(r) = p
  <2> DEFINE u == [r EXCEPT !.entries[r.head] = NoOp]
             v == [u EXCEPT !.head = (r.head + 1) % QueueSize]
  <2>1. Pop(r) = [v EXCEPT !.count = r.count - 1]
    BY DEF Pop
  <2>2. u = [entries |-> e, head |-> r.head, tail |-> r.tail, count |-> r.count]
    BY <1>1
  <2> HIDE DEF u, e
  <2>3. v = [entries |-> e, head |-> h, tail |-> r.tail, count |-> r.count]
    BY <2>2
  <2> HIDE DEF v, h, c
  <2>4. [v EXCEPT !.count = c] = p
    BY <2>3
  <2>5. QED BY <2>1, <2>4 DEF c
<1>3. NoOp \in Op
  <2>1. r.entries[r.head] \in Op
    BY <1>1
  <2>2. QED BY <2>1 DEF NoOp
<1>4. h \in 0 .. QueueSize - 1 /\ c \in 0 .. QueueSize /\ e \in [0 .. QueueSize - 1 -> Op]
  BY <1>1, <1>3
<1>5. p \in Ring
  <2> HIDE DEF e, h, c
  <2>1. QED BY <1>1, <1>4 DEF Ring
<1>6. r.entries[r.head] = Queue(r)[1] /\ r.entries[r.head] \in Op
  <2>1. 1 \in 1 .. r.count /\ At(r, 1) = r.head
    BY <1>1, Slots
  <2>2. QED BY <1>1, <2>1, QueueOf
<1>7. ASSUME NEW i \in 1 .. c
      PROVE  Queue(p)[i] = Queue(r)[i + 1]
  <2>1. /\ i \in 1 .. QueueSize /\ i + 1 \in 1 .. QueueSize /\ i + 1 \in 1 .. r.count
        /\ 1 \in 1 .. QueueSize /\ i + 1 # 1 /\ r.head + (i + 1) - 1 = r.head + i
    BY <1>1
  <2>2. p.head = (r.head + 1) % QueueSize /\ p.count = c /\ p.entries = e
    OBVIOUS
  <2> HIDE DEF p
  <2>3. At(p, i) = At(r, i + 1)
    <3>1. At(p, i) = (r.head + i) % QueueSize
      BY <2>1, <2>2, HeadMoved
    <3>2. QED BY <2>1, <3>1 DEF At
  <2>4. At(r, i + 1) \in 0 .. QueueSize - 1 /\ At(r, i + 1) # r.head
    BY <2>1, Slots
  <2>5. e[At(r, i + 1)] = r.entries[At(r, i + 1)]
    BY <1>1, <2>4
  <2> HIDE DEF e, c
  <2>6. Queue(p)[i] = e[At(p, i)]
    BY <1>5, <2>2, QueueOf
  <2>7. Queue(r)[i + 1] = r.entries[At(r, i + 1)]
    BY <2>1, QueueOf
  <2>8. QED BY <2>3, <2>5, <2>6, <2>7
<1>8. Closed(p)
  <2> DEFINE i == r.count
  <2>1. i \in 1 .. QueueSize
    BY <1>1
  <2>2. (At(r, i) + 1) % QueueSize = r.tail
    BY <2>1, Slots DEF Closed
  <2>3. At(p, i) = r.tail
    <3>1. p.head = (r.head + 1) % QueueSize
      OBVIOUS
    <3> HIDE DEF p
    <3>2. At(p, i) = (r.head + i) % QueueSize
      BY <2>1, <3>1, HeadMoved
    <3>3. QED BY <3>2 DEF Closed
  <2>4. p.head + i - 1 = p.head + p.count
    BY <1>1, <1>4
  <2>5. p.tail = r.tail
    OBVIOUS
  <2> HIDE DEF p
  <2>6. QED BY <2>3, <2>4, <2>5 DEF At, Closed
<1>9. Len(Queue(p)) = c
  <2>1. p.count = c
    OBVIOUS
  <2> HIDE DEF p
  <2>2. QED BY <1>5, <2>1, QueueOf
<1>10. QED
  <2> HIDE DEF p
  <2>1. QED BY <1>2, <1>5, <1>6, <1>7, <1>8, <1>9

LEMMA EmptyQueue == EmptyRing \in Ring /\ Closed(EmptyRing) /\ Queue(EmptyRing) = <<>>
<1> DEFINE e == [i \in 0 .. QueueSize - 1 |-> NoOp]
<1>1. QueueSize \in Nat /\ QueueSize > 0
  BY MnemosyneAssumption
<1>2. NoOp \in Op
  <2>1. PICK x \in Items : TRUE
    BY MnemosyneAssumption
  <2>2. [item |-> x, add |-> TRUE] \in Op
    BY DEF Op
  <2>3. QED BY <2>2 DEF NoOp
<1>3. e \in [0 .. QueueSize - 1 -> Op]
  BY <1>2
<1>4. EmptyRing = [entries |-> e, head |-> 0, tail |-> 0, count |-> 0]
  BY DEF EmptyRing
<1> HIDE DEF e
<1>5. EmptyRing \in Ring
  BY <1>1, <1>3, <1>4 DEF Ring
<1>6. Closed(EmptyRing)
  <2>1. 0 + 0 = 0 /\ 0 \in 0 .. QueueSize - 1
    BY <1>1
  <2>2. QED BY <1>4, <2>1, Around DEF Closed
<1>7. Len(Queue(EmptyRing)) = 0 /\ Queue(EmptyRing) \in Seq(Op)
  BY <1>4, <1>5, QueueOf
<1>8. QED BY <1>5, <1>6, <1>7, EmptySeq

-----------------------------------------------------------------------------
(***************************************************************************)
(* The inductive invariant: the types, the ring, that only a server with a  *)
(* sync posts, and Told, item by item.                                      *)
(***************************************************************************)
Sync == [attached : BOOLEAN, resolved : BOOLEAN, state : {"active", "suspended"},
         failures : Nat, started : BOOLEAN, chunked : BOOLEAN, files : Nat, news : Nat]
Job == {"beat", "drain", "files", "news", "board"}

TypeOK ==
  /\ disk \subseteq Files /\ posted \subseteq Articles /\ dead \subseteq Articles
  /\ sync \in Sync /\ ring \in Ring /\ todo \in Seq(Job)
  /\ index \subseteq Items /\ missed \subseteq Items
  /\ cursor \in BOOLEAN /\ steady \in BOOLEAN
  /\ changes \in Nat /\ restarts \in Nat /\ beats \in Nat

Waiting == IF sync.attached THEN Queue(ring) ELSE <<>>
Detached == ~sync.attached => todo = <<>>
Agreed == \A x \in Items \ missed : Says(index, Waiting, x) <=> x \in Actual

IInv == TypeOK /\ RingOK /\ Detached /\ Agreed

\* Nothing queued: the index itself says what is true.
LEMMA SaysEmpty ==
  ASSUME NEW idx, NEW x
  PROVE  Says(idx, <<>>, x) <=> x \in idx
<1>1. Len(<<>>) = 0 /\ \A i : i \notin 1 .. 0
  OBVIOUS
<1>2. QED BY <1>1 DEF Says, SaysTo

\* An item that is not in the queue is as the index says, and conversely.
LEMMA SaysUnqueued ==
  ASSUME NEW r \in Ring, NEW idx, NEW x, x \notin Queued(r)
  PROVE  Says(idx, Queue(r), x) <=> x \in idx
<1>1. Len(Queue(r)) = r.count /\ \A i \in 1 .. r.count : Queue(r)[i].item # x
  BY QueueOf
<1>2. QED BY <1>1 DEF Says, SaysTo

LEMMA QueuedItems ==
  ASSUME NEW r \in Ring
  PROVE  Queued(r) \subseteq Items
<1>1. \A i \in 1 .. r.count : Queue(r)[i] \in Op
  BY QueueOf, ElementOfSeq
<1>2. QED BY <1>1, QueueOf DEF Op

\* The replay of the queue needs its types only.
LEMMA AgreedTold == ASSUME IInv PROVE Told
<1>1. Waiting \in Seq(Op) /\ index \in SUBSET Items
  <2>1. Queue(ring) \in Seq(Op) /\ <<>> \in Seq(Op)
    BY QueueOf DEF IInv, TypeOK
  <2>2. QED BY <2>1 DEF Waiting, IInv, TypeOK
<1>2. \A x : x \in Replay(index, Waiting) <=> Says(index, Waiting, x)
  BY <1>1, ReplaySays
<1>3. QED BY <1>2 DEF IInv, Agreed, Told, Waiting

LEMMA Counts == \A d \in SUBSET Items : Cardinality(d) \in Nat
  BY MnemosyneAssumption, FS_Subset, FS_CardinalityType

\* A step that leaves index, queue, history and content alone.
LEMMA SameAgreed ==
  ASSUME Agreed, UNCHANGED <<ring, index, missed, disk, posted>>,
         sync'.attached = sync.attached
  PROVE  Agreed'
<1>1. Waiting' = Waiting /\ Actual' = Actual
  BY DEF Waiting, Actual
<1>2. QED BY <1>1 DEF Agreed

-----------------------------------------------------------------------------
(* Changes of the content.  *)

\* A pushed change has the last word about its item; every other one is as it
\* was, unless its change fell off the ring.
LEMMA PushSays ==
  ASSUME NEW r \in Ring, Closed(r), NEW o \in Op, NEW idx, NEW x, x \notin Dropped(r)
  PROVE  /\ o.item = x => (Says(idx, Queue(Push(r, o)), x) <=> o.add = TRUE)
         /\ o.item # x => (Says(idx, Queue(Push(r, o)), x) <=> Says(idx, Queue(r), x))
<1> DEFINE q == Queue(r)
           p == Queue(Push(r, o))
<1>1. PICK m \in {0, 1} :
            /\ m <= r.count /\ Len(p) = r.count - m + 1
            /\ \A i \in 1 .. r.count - m : p[i] = q[i + m]
            /\ p[r.count - m + 1] = o
            /\ Dropped(r) = {q[i].item : i \in 1 .. m}
  BY PushQueue
<1> DEFINE n == r.count - m
           s == [i \in 1 .. n |-> q[i + m]]
<1>2. n \in Nat /\ r.count \in Nat /\ Len(q) = r.count /\ n + m = r.count
  BY <1>1, QueueOf DEF Ring
<1>3. Len(p) = n + 1 /\ p[n + 1] = o /\ \A i \in 1 .. n : p[i] = s[i]
  BY <1>1
<1>4. \A i \in 1 .. n : s[i] = q[i + m]
  OBVIOUS
<1>5. m = 1 => q[1].item \in Dropped(r)
  <2>1. m = 1 => 1 \in 1 .. m
    OBVIOUS
  <2>2. QED BY <1>1, <2>1
<1> HIDE DEF q, p, n, s
<1>6. /\ o.item = x => (Says(idx, p, x) <=> o.add = TRUE)
      /\ o.item # x => (Says(idx, p, x) <=> SaysTo(idx, s, n, x))
  <2> DEFINE k == n + 1
  <2>1. k \in Nat \ {0} /\ k - 1 = n /\ p[k] = o /\ Len(p) = k
    BY <1>2, <1>3
  <2> HIDE DEF k
  <2>2. SaysTo(idx, p, k, x)
          <=> IF p[k].item = x THEN p[k].add = TRUE ELSE SaysTo(idx, p, k - 1, x)
    BY <2>1, SaysNext
  <2>3. SaysTo(idx, p, n, x) <=> SaysTo(idx, s, n, x)
    BY <1>3 DEF SaysTo
  <2>4. QED BY <2>1, <2>2, <2>3 DEF Says
<1>7. SaysTo(idx, s, n, x) <=> Says(idx, q, x)
  <2>1. CASE m = 0
    <3>1. \A i \in 1 .. n : s[i] = q[i]
      BY <1>2, <1>4, <2>1
    <3>2. Len(q) = n
      BY <1>2, <2>1
    <3>3. QED BY <3>1, <3>2 DEF Says, SaysTo
  <2>2. CASE m = 1
    <3>1. q[1].item # x
      BY <1>5, <2>2
    <3>2. Len(q) = n + 1 /\ \A i \in 1 .. n : s[i] = q[i + 1]
      BY <1>2, <1>4, <2>2
    <3>3. SaysTo(idx, s, n, x) <=> SaysTo(idx, q, n + 1, x)
      BY <1>2, <3>1, <3>2, SaysShifted
    <3>4. QED BY <3>2, <3>3 DEF Says
  <2>3. QED BY <1>1, <2>1, <2>2
<1>8. QED BY <1>6, <1>7 DEF p, q

LEMMA DroppedItems ==
  ASSUME NEW r \in Ring, Closed(r)
  PROVE  Dropped(r) \subseteq Items
<1>1. r.count >= QueueSize => r.count > 0
  BY MnemosyneAssumption DEF Ring
<1>2. r.count >= QueueSize => r.entries[r.head] \in Op
  BY <1>1, PopQueue
<1>3. QED BY <1>2 DEF Dropped, Op

LEMMA EnqueueStep ==
  ASSUME IInv, NEW o \in Op, Enqueue(o), UNCHANGED <<sync, index>>
  PROVE  /\ ring' \in Ring /\ RingOK' /\ missed \subseteq missed' /\ missed' \subseteq Items
         /\ \A x \in Items \ missed' :
              /\ o.item = x => (Says(index, Waiting, x)' <=> o.add = TRUE)
              /\ o.item # x => (Says(index, Waiting, x)' <=> Says(index, Waiting, x))
<1>1. ring \in Ring /\ Closed(ring) /\ missed \subseteq Items /\ o.item \in Items
  BY DEF IInv, TypeOK, RingOK, Closed, Op
<1>2. CASE Busy
  <2>1. ring' = Push(ring, o) /\ missed' = missed \cup Dropped(ring)
        /\ sync'.attached /\ sync.attached
    BY <1>2 DEF Enqueue, Busy
  <2>2. ring' \in Ring /\ Closed(ring')
    BY <1>1, <2>1, PushQueue
  <2>3. Waiting = Queue(ring) /\ Waiting' = Queue(Push(ring, o))
    BY <2>1 DEF Waiting
  <2>4. ASSUME NEW x \in Items \ missed'
        PROVE  /\ o.item = x => (Says(index, Waiting, x)' <=> o.add = TRUE)
               /\ o.item # x => (Says(index, Waiting, x)' <=> Says(index, Waiting, x))
    <3>1. x \notin Dropped(ring)
      BY <2>1
    <3>2. QED BY <1>1, <2>3, <3>1, PushSays
  <2>5. QED BY <1>1, <2>1, <2>2, <2>4, DroppedItems DEF RingOK, Closed
<1>3. CASE ~Busy
  <2>1. ring' = ring /\ missed' = missed \cup {o.item}
    BY <1>3 DEF Enqueue
  <2>2. Waiting' = Waiting
    BY <2>1 DEF Waiting
  <2>3. QED BY <1>1, <2>1, <2>2 DEF RingOK, Closed
<1>4. QED BY <1>2, <1>3

\* What every change of the content leaves alone.
LEMMA ChangeTypes ==
  ASSUME IInv, Change, UNCHANGED todo,
         disk' \subseteq Files, posted' \subseteq Articles, dead' \subseteq Articles,
         sync' = sync, ring' \in Ring, missed' \subseteq Items, RingOK'
  PROVE  TypeOK' /\ RingOK' /\ Detached'
<1>1. changes' \in Nat /\ UNCHANGED <<index, cursor, steady, restarts, beats>>
  BY DEF Change, IInv, TypeOK
<1>2. TypeOK'
  BY <1>1 DEF IInv, TypeOK
<1>3. QED BY <1>2 DEF IInv, Detached

\* A queued change that the content has had.
LEMMA QueuedChange ==
  ASSUME IInv, Change, UNCHANGED <<sync, todo>>, NEW o \in Op, Enqueue(o),
         disk' \subseteq Files, posted' \subseteq Articles, dead' \subseteq Articles,
         o.item \in Actual' <=> o.add = TRUE,
         \A x \in Items : x # o.item => (x \in Actual' <=> x \in Actual)
  PROVE  IInv'
<1>1. UNCHANGED index
  BY DEF Change
<1>2. /\ ring' \in Ring /\ RingOK' /\ missed \subseteq missed' /\ missed' \subseteq Items
      /\ \A x \in Items \ missed' :
           /\ o.item = x => (Says(index, Waiting, x)' <=> o.add = TRUE)
           /\ o.item # x => (Says(index, Waiting, x)' <=> Says(index, Waiting, x))
  BY <1>1, EnqueueStep
<1>3. ASSUME NEW x \in Items \ missed'
      PROVE  Says(index, Waiting, x)' <=> x \in Actual'
  <2>1. x \in Items /\ x \notin missed
    BY <1>2
  <2>2. Says(index, Waiting, x) <=> x \in Actual
    BY <2>1 DEF IInv, Agreed
  <2>3. CASE x = o.item
    BY <1>2, <2>3
  <2>4. CASE x # o.item
    BY <1>2, <2>1, <2>2, <2>4
  <2>5. QED BY <2>3, <2>4
<1>4. Agreed'
  BY <1>3 DEF Agreed
<1>5. TypeOK' /\ RingOK' /\ Detached'
  BY <1>2, ChangeTypes
<1>6. QED BY <1>4, <1>5 DEF IInv

\* A change that is not queued, of items the history writes down.
LEMMA MissedChange ==
  ASSUME IInv, UNCHANGED <<ring, index>>, sync'.attached = sync.attached,
         NEW I, missed' = missed \cup I,
         \A x \in Items \ I : x \in Actual' <=> x \in Actual
  PROVE  Agreed'
<1>1. Waiting' = Waiting
  BY DEF Waiting
<1>2. ASSUME NEW x \in Items \ missed'
      PROVE  Says(index, Waiting, x)' <=> x \in Actual'
  <2>1. x \in Items \ missed /\ x \in Items \ I
    OBVIOUS
  <2>2. QED BY <1>1, <2>1 DEF IInv, Agreed
<1>3. QED BY <1>2 DEF Agreed

LEMMA UploadStep == ASSUME IInv, NEW f \in Files, Upload(f) PROVE IInv'
<1> DEFINE o == [item |-> f, add |-> TRUE]
<1>1. o \in Op /\ o.item = f /\ o.add = TRUE
  BY DEF Op, Items
<1> HIDE DEF o
<1>2. Change /\ disk' = disk \cup {f} /\ UNCHANGED <<posted, dead, sync, todo>>
  BY DEF Upload
<1>3. Enqueue(o)
  BY DEF Upload, o
<1>4. /\ o.item \in Actual'
      /\ \A x \in Items : x # o.item => (x \in Actual' <=> x \in Actual)
  BY <1>1, <1>2 DEF Actual
<1>5. disk' \subseteq Files /\ posted' \subseteq Articles /\ dead' \subseteq Articles
  BY <1>2 DEF IInv, TypeOK
<1>6. QED BY <1>1, <1>2, <1>3, <1>4, <1>5, QueuedChange

LEMMA PostArticleStep == ASSUME IInv, NEW n \in Articles, PostArticle(n) PROVE IInv'
<1> DEFINE o == [item |-> n, add |-> TRUE]
<1>1. o \in Op /\ o.item = n /\ o.add = TRUE
  BY DEF Op, Items
<1> HIDE DEF o
<1>2. Change /\ posted' = posted \cup {n} /\ UNCHANGED <<disk, dead, sync, todo>>
  BY DEF PostArticle
<1>3. Enqueue(o)
  BY DEF PostArticle, o
<1>4. /\ o.item \in Actual'
      /\ \A x \in Items : x # o.item => (x \in Actual' <=> x \in Actual)
  BY <1>1, <1>2 DEF Actual
<1>5. disk' \subseteq Files /\ posted' \subseteq Articles /\ dead' \subseteq Articles
  BY <1>2 DEF IInv, TypeOK
<1>6. QED BY <1>1, <1>2, <1>3, <1>4, <1>5, QueuedChange

\* The file may still be there: then the queued delete is wrong about it, and
\* the history says so.
LEMMA DeleteFileStep == ASSUME IInv, NEW f \in Files, DeleteFile(f) PROVE IInv'
<1> DEFINE o == [item |-> f, add |-> FALSE]
<1>1. o \in Op /\ o.item = f /\ o.add = FALSE
  BY DEF Op, Items
<1> HIDE DEF o
<1>2. /\ Change /\ f \in disk /\ disk' \in {disk, disk \ {f}}
      /\ UNCHANGED <<posted, dead, sync, todo>>
  BY DEF DeleteFile
<1>3. IF disk' = disk /\ Busy
      THEN ring' = Push(ring, o) /\ missed' = missed \cup Dropped(ring) \cup {f}
      ELSE Enqueue(o)
  BY DEF DeleteFile, o
<1>4. disk' \subseteq Files /\ posted' \subseteq Articles /\ dead' \subseteq Articles
  BY <1>2 DEF IInv, TypeOK
<1>5. UNCHANGED index
  BY <1>2 DEF Change
<1>6. CASE disk' # disk
  <2>1. disk' = disk \ {f} /\ Enqueue(o)
    BY <1>2, <1>3, <1>6
  <2>2. f \notin posted
    BY MnemosyneAssumption DEF IInv, TypeOK
  <2>3. /\ o.item \notin Actual'
        /\ \A x \in Items : x # o.item => (x \in Actual' <=> x \in Actual)
    BY <1>1, <1>2, <2>1, <2>2 DEF Actual
  <2>4. QED BY <1>1, <1>2, <1>4, <2>1, <2>3, QueuedChange
<1>7. CASE disk' = disk /\ ~Busy
  <2>1. Enqueue(o)
    BY <1>3, <1>7
  <2>2. missed' = missed \cup {f} /\ UNCHANGED ring
    BY <1>1, <1>7, <2>1 DEF Enqueue
  <2>3. Agreed'
    <3>1. Actual' = Actual
      BY <1>2, <1>7 DEF Actual
    <3>2. sync'.attached = sync.attached
      BY <1>2
    <3>3. QED BY <1>5, <2>2, <3>1, <3>2, MissedChange
  <2>4. ring' \in Ring /\ missed' \subseteq Items /\ RingOK'
    BY <2>2 DEF IInv, TypeOK, RingOK, Items
  <2>5. TypeOK' /\ RingOK' /\ Detached'
    BY <1>2, <1>4, <2>4, ChangeTypes
  <2>6. QED BY <2>3, <2>5 DEF IInv
<1>8. CASE disk' = disk /\ Busy
  <2> DEFINE W == missed \cup Dropped(ring)
  <2>1. ring' = Push(ring, o) /\ missed' = W \cup {f}
    BY <1>3, <1>8
  <2>2. ring \in Ring /\ Closed(ring)
    BY DEF IInv, TypeOK, RingOK, Closed
  <2>3. ring' \in Ring /\ Closed(ring')
    BY <1>1, <2>1, <2>2, PushQueue
  <2>4. Dropped(ring) \subseteq Items
    BY <2>2, DroppedItems
  <2>5. TypeOK' /\ RingOK' /\ Detached'
    <3>1. missed' \subseteq Items
      BY <2>1, <2>4 DEF IInv, TypeOK, Items
    <3>2. RingOK'
      BY <2>3 DEF RingOK, Closed
    <3>3. QED BY <1>2, <1>4, <2>3, <3>1, <3>2, ChangeTypes
  <2>6. ASSUME NEW x \in Items \ missed'
        PROVE  Says(index, Waiting, x)' <=> Says(index, Waiting, x)
    <3>1. x \notin Dropped(ring) /\ x # o.item
      BY <1>1, <2>1
    <3>2. Waiting = Queue(ring) /\ Waiting' = Queue(Push(ring, o))
      BY <1>2, <1>8, <2>1 DEF Waiting, Busy
    <3>3. QED BY <1>1, <1>5, <2>2, <3>1, <3>2, PushSays
  <2>7. Agreed'
    <3>1. Actual' = Actual
      BY <1>2, <1>8 DEF Actual
    <3>2. \A x \in Items \ missed' : x \in Items \ missed
      BY <2>1
    <3>3. QED BY <2>6, <3>1, <3>2 DEF IInv, Agreed
  <2>8. QED BY <2>5, <2>7 DEF IInv
<1>9. QED BY <1>6, <1>7, <1>8

LEMMA DeleteArticleStep == ASSUME IInv, NEW n \in Articles, DeleteArticle(n) PROVE IInv'
<1>1. /\ Change /\ n \in posted /\ posted' = posted \ {n} /\ dead' = dead \cup {n}
      /\ missed' = missed \cup {n} /\ UNCHANGED <<disk, sync, ring, todo>>
  BY DEF DeleteArticle
<1>2. UNCHANGED index
  BY <1>1 DEF Change
<1>3. \A x \in Items \ {n} : x \in Actual' <=> x \in Actual
  BY <1>1 DEF Actual
<1>4. Agreed'
  <2>1. sync'.attached = sync.attached /\ UNCHANGED ring
    BY <1>1
  <2>2. QED BY <1>1, <1>2, <1>3, <2>1, MissedChange
<1>5. /\ disk' \subseteq Files /\ posted' \subseteq Articles /\ dead' \subseteq Articles
      /\ ring' \in Ring /\ missed' \subseteq Items /\ RingOK'
  BY <1>1 DEF IInv, TypeOK, RingOK, Items
<1>6. TypeOK' /\ RingOK' /\ Detached'
  BY <1>1, <1>5, ChangeTypes
<1>7. QED BY <1>4, <1>6 DEF IInv

\* The periodic check starts at most one post, and only if there is a sync.
LEMMA CheckStep ==
  ASSUME sync \in Sync, todo = <<>>, disk' \subseteq Files, posted' \subseteq Articles,
         dead' \subseteq Articles, PeriodicCheck
  PROVE  /\ sync' \in Sync /\ sync'.attached = sync.attached
         /\ todo' \in Seq(Job) /\ (~sync.attached => todo' = <<>>)
<1> DEFINE fc == FileCount'
           ac == ArticleCount'
<1>1. fc \in Nat /\ ac \in Nat
  <2>1. disk' \subseteq Items /\ posted' \subseteq Items /\ dead' \subseteq Items
    BY DEF Items
  <2>2. Cardinality(disk') \in Nat /\ Cardinality(posted') \in Nat /\ Cardinality(dead') \in Nat
    BY <2>1, Counts
  <2>3. QED BY <2>2 DEF FileCount, ArticleCount
<1>2. \/ sync' = sync /\ todo' = todo
      \/ Busy /\ sync' = [sync EXCEPT !.files = fc] /\ todo' = <<"files">>
      \/ Busy /\ sync' = [sync EXCEPT !.news = ac] /\ todo' = <<"news">>
  BY DEF PeriodicCheck
<1> HIDE DEF fc, ac
<1>3. <<"files">> \in Seq(Job) /\ <<"news">> \in Seq(Job) /\ <<>> \in Seq(Job)
  BY DEF Job
<1>4. CASE sync' = sync /\ todo' = todo
  BY <1>3, <1>4
<1>5. CASE Busy /\ sync' = [sync EXCEPT !.files = fc] /\ todo' = <<"files">>
  BY <1>1, <1>3, <1>5 DEF Sync, Busy
<1>6. CASE Busy /\ sync' = [sync EXCEPT !.news = ac] /\ todo' = <<"news">>
  BY <1>1, <1>3, <1>6 DEF Sync, Busy
<1>7. QED BY <1>2, <1>4, <1>5, <1>6

LEMMA MoveFileStep ==
  ASSUME IInv, NEW f \in Files, NEW g \in Files, MoveFile(f, g)
  PROVE  IInv'
<1>1. /\ Change /\ disk' = (disk \ {f}) \cup {g} /\ missed' = missed \cup {f, g}
      /\ UNCHANGED <<posted, dead, ring>> /\ PeriodicCheck
  BY DEF MoveFile
<1>2. todo = <<>> /\ changes \in Nat /\ changes' = changes + 1
      /\ UNCHANGED <<index, cursor, steady, restarts, beats>>
  BY <1>1 DEF Change, IInv, TypeOK
<1>3. disk' \subseteq Files /\ posted' \subseteq Articles /\ dead' \subseteq Articles
  BY <1>1 DEF IInv, TypeOK
<1>4. /\ sync' \in Sync /\ sync'.attached = sync.attached
      /\ todo' \in Seq(Job) /\ (~sync.attached => todo' = <<>>)
  BY <1>1, <1>2, <1>3, CheckStep DEF IInv, TypeOK
<1>5. Agreed'
  <2>1. \A x \in Items \ {f, g} : x \in Actual' <=> x \in Actual
    BY <1>1 DEF Actual
  <2>2. UNCHANGED <<ring, index>>
    BY <1>1, <1>2
  <2>3. QED BY <1>1, <1>4, <2>1, <2>2, MissedChange
<1>6. ring' \in Ring /\ missed' \subseteq Items /\ RingOK'
  BY <1>1 DEF IInv, TypeOK, RingOK, Items
<1>7. TypeOK'
  <2>1. changes' \in Nat
    BY <1>2
  <2>2. QED BY <1>2, <1>3, <1>4, <1>6, <2>1 DEF IInv, TypeOK
<1>8. Detached'
  BY <1>4 DEF Detached
<1>9. QED BY <1>5, <1>6, <1>7, <1>8 DEF IInv

-----------------------------------------------------------------------------
(* Timers.  *)

\* A timer that leaves ring and history alone.
LEMMA TimerStep ==
  ASSUME IInv, Timer, sync' \in Sync, sync'.attached = sync.attached,
         todo' \in Seq(Job), sync.attached \/ todo' = <<>>,
         UNCHANGED <<ring, missed>>, cursor' \in BOOLEAN,
         restarts' \in Nat, beats' \in Nat
  PROVE  IInv'
<1>1. UNCHANGED <<disk, posted, dead, index, steady, changes>>
  BY DEF Timer, content
<1>2. Agreed'
  BY <1>1, SameAgreed DEF IInv
<1>3. TypeOK'
  BY <1>1 DEF IInv, TypeOK
<1>4. Detached' /\ RingOK'
  BY DEF Detached, RingOK, IInv
<1>5. QED BY <1>2, <1>3, <1>4 DEF IInv

LEMMA FullSyncJobs == \A jobs \in FullSyncs : jobs \in Seq(Job)
<1>1. <<"files", "news">> \in Seq(Job) /\ <<"files", "news", "board">> \in Seq(Job)
  BY DEF Job
<1>2. QED BY <1>1 DEF FullSyncs

LEMMA StartupDelayStep == ASSUME IInv, StartupDelay PROVE IInv'
<1>1. /\ Timer /\ sync.attached /\ cursor' = FALSE
      /\ sync' = [sync EXCEPT !.started = TRUE, !.chunked = @ \/ cursor]
      /\ UNCHANGED <<ring, missed, restarts, beats>>
  BY DEF StartupDelay
<1>2. PICK jobs \in FullSyncs : todo' = IF cursor \/ ~Busy THEN <<>> ELSE jobs
  BY DEF StartupDelay
<1>3. todo' \in Seq(Job)
  BY <1>2, FullSyncJobs
<1>4. sync' \in Sync /\ sync'.attached = sync.attached
  <2> DEFINE b == sync.chunked \/ cursor
  <2>1. b \in BOOLEAN
    OBVIOUS
  <2>2. sync' = [sync EXCEPT !.started = TRUE, !.chunked = b]
    BY <1>1
  <2> HIDE DEF b
  <2>3. QED BY <2>1, <2>2 DEF IInv, TypeOK, Sync
<1>5. restarts' \in Nat /\ beats' \in Nat /\ cursor' \in BOOLEAN
  BY <1>1 DEF IInv, TypeOK
<1>6. QED BY <1>1, <1>3, <1>4, <1>5, TimerStep

LEMMA HeartbeatStep == ASSUME IInv, Heartbeat PROVE IInv'
<1>1. /\ Timer /\ sync.attached /\ todo' = <<"beat", "drain">>
      /\ sync' = [sync EXCEPT !.files = FileCount, !.news = ArticleCount]
      /\ beats' = IF steady THEN beats ELSE beats + 1
      /\ UNCHANGED <<ring, missed, cursor, restarts>>
  BY DEF Heartbeat
<1>2. FileCount \in Nat /\ ArticleCount \in Nat
  <2>1. disk \subseteq Items /\ posted \subseteq Items /\ dead \subseteq Items
    BY DEF IInv, TypeOK, Items
  <2>2. Cardinality(disk) \in Nat /\ Cardinality(posted) \in Nat /\ Cardinality(dead) \in Nat
    BY <2>1, Counts
  <2>3. QED BY <2>2 DEF FileCount, ArticleCount
<1>3. sync' \in Sync /\ sync'.attached = sync.attached
  BY <1>1, <1>2 DEF IInv, TypeOK, Sync
<1>4. todo' \in Seq(Job)
  BY <1>1 DEF Job
<1>5. restarts' \in Nat /\ beats' \in Nat /\ cursor' \in BOOLEAN
  BY <1>1 DEF IInv, TypeOK
<1>6. QED BY <1>1, <1>3, <1>4, <1>5, TimerStep

LEMMA PeriodicStep == ASSUME IInv, Periodic PROVE IInv'
<1>1. /\ Timer /\ Busy /\ PeriodicCheck
      /\ beats' = IF steady THEN beats ELSE beats + 1
      /\ UNCHANGED <<ring, missed, cursor, restarts>>
  BY DEF Periodic
<1>2. /\ sync \in Sync /\ todo = <<>> /\ disk' \subseteq Files /\ posted' \subseteq Articles
      /\ dead' \subseteq Articles
  BY <1>1 DEF Timer, content, IInv, TypeOK
<1>3. /\ sync' \in Sync /\ sync'.attached = sync.attached
      /\ todo' \in Seq(Job) /\ (~sync.attached => todo' = <<>>)
  BY <1>1, <1>2, CheckStep
<1>4. restarts' \in Nat /\ beats' \in Nat /\ cursor' \in BOOLEAN
  BY <1>1 DEF IInv, TypeOK
<1>5. QED BY <1>1, <1>3, <1>4, TimerStep

\* A queue that nobody will drain any more: the history has its items.
LEMMA QueueLost ==
  ASSUME IInv, NEW lost, missed' = lost \cup Queued(ring), missed \subseteq lost,
         UNCHANGED <<index, disk, posted>>, Waiting' = <<>>
  PROVE  Agreed'
<1>1. ASSUME NEW x \in Items \ missed'
      PROVE  Says(index', Waiting', x) <=> x \in Actual'
  <2>1. x \in Items \ missed /\ x \notin Queued(ring)
    OBVIOUS
  <2>2. Says(index, Waiting, x) <=> x \in Actual
    BY <2>1 DEF IInv, Agreed
  <2>3. Says(index, Waiting, x) <=> x \in index
    BY <2>1, SaysEmpty, SaysUnqueued DEF Waiting, IInv, TypeOK
  <2>4. Says(index', Waiting', x) <=> x \in index
    BY SaysEmpty
  <2>5. Actual' = Actual
    BY DEF Actual
  <2>6. QED BY <2>2, <2>3, <2>4, <2>5
<1>2. QED BY <1>1 DEF Agreed

LEMMA ReloadStep == ASSUME IInv, Reload PROVE IInv'
<1>1. /\ Timer /\ sync.attached /\ restarts' = restarts + 1
      /\ UNCHANGED <<ring, cursor, beats>>
  BY DEF Reload
<1>2. restarts' \in Nat /\ beats' \in Nat /\ cursor' \in BOOLEAN
  BY <1>1 DEF IInv, TypeOK
<1>3. CASE /\ \E r \in Resolves :
                sync' = [sync EXCEPT !.resolved = r, !.state = "active",
                                     !.failures = 0, !.chunked = FALSE]
           /\ todo' \in FullSyncs
           /\ UNCHANGED missed
  <2>1. PICK r \in Resolves :
                sync' = [sync EXCEPT !.resolved = r, !.state = "active",
                                     !.failures = 0, !.chunked = FALSE]
    BY <1>3
  <2>2. r \in BOOLEAN
    BY DEF Resolves
  <2>3. sync' \in Sync /\ sync'.attached = sync.attached
    BY <2>1, <2>2 DEF IInv, TypeOK, Sync
  <2>4. todo' \in Seq(Job)
    BY <1>3, FullSyncJobs
  <2>5. QED BY <1>1, <1>2, <1>3, <2>3, <2>4, TimerStep
<1>4. CASE /\ sync' = [sync EXCEPT !.attached = FALSE, !.chunked = FALSE]
           /\ missed' = missed \cup Queued(ring)
           /\ UNCHANGED todo
  <2>1. sync' \in Sync /\ sync'.attached = FALSE
    BY <1>4 DEF IInv, TypeOK, Sync
  <2>2. todo' = <<>> /\ UNCHANGED <<disk, posted, dead, index, steady, changes>>
    BY <1>1, <1>4 DEF Timer, content
  <2>3. Waiting' = <<>>
    BY <2>1 DEF Waiting
  <2>4. Agreed'
    BY <1>4, <2>2, <2>3, QueueLost
  <2>5. missed' \subseteq Items
    BY <1>4, QueuedItems DEF IInv, TypeOK
  <2>6. TypeOK'
    BY <1>1, <1>2, <1>4, <2>1, <2>2, <2>5 DEF IInv, TypeOK
  <2>7. Detached' /\ RingOK'
    BY <1>1, <2>2 DEF Detached, RingOK, IInv
  <2>8. QED BY <2>4, <2>6, <2>7 DEF IInv
<1>5. QED BY <1>3, <1>4 DEF Reload

-----------------------------------------------------------------------------
(* One post of the running handler.  *)

LEMMA AfterPostType ==
  ASSUME sync \in Sync, NEW out
  PROVE  AfterPost(sync, out) \in Sync /\ AfterPost(sync, out).attached = sync.attached
<1> DEFINE n == sync.failures + 1
<1>1. n \in Nat
  BY DEF Sync
<1>2. \/ AfterPost(sync, out) = [sync EXCEPT !.failures = 0]
      \/ AfterPost(sync, out) = [sync EXCEPT !.failures = n, !.state = "suspended",
                                             !.chunked = FALSE]
      \/ AfterPost(sync, out) = [sync EXCEPT !.failures = n]
  BY DEF AfterPost
<1> HIDE DEF n
<1>3. /\ [sync EXCEPT !.failures = 0] \in Sync
      /\ [sync EXCEPT !.failures = 0].attached = sync.attached
  BY DEF Sync
<1>4. /\ [sync EXCEPT !.failures = n] \in Sync
      /\ [sync EXCEPT !.failures = n].attached = sync.attached
  BY <1>1 DEF Sync
<1>5. /\ [sync EXCEPT !.failures = n, !.state = "suspended", !.chunked = FALSE] \in Sync
      /\ [sync EXCEPT !.failures = n, !.state = "suspended",
                      !.chunked = FALSE].attached = sync.attached
  BY <1>1 DEF Sync
<1>6. QED BY <1>2, <1>3, <1>4, <1>5

\* What every post leaves alone, and that only an attached server makes one.
LEMMA PostContent ==
  ASSUME IInv, Post
  PROVE  sync.attached /\ UNCHANGED <<disk, posted, dead, cursor, steady, changes, restarts, beats>>
  BY DEF Post, content, bounds, IInv, Detached

\* The queue r is what the post left of the ring: if the sync is suspended now,
\* r is lost and the history knows.
LEMMA ConcludeStep ==
  ASSUME IInv, Post, NEW s \in Sync, s.attached = sync.attached,
         NEW r \in Ring, Closed(r), NEW rest \in Seq(Job), NEW lost \in SUBSET Items,
         Conclude(s, r, rest, lost), index' \subseteq Items,
         \A x \in (Items \ missed) \ lost : Says(index', Queue(r), x) <=> x \in Actual
  PROVE  IInv'
<1>1. sync.attached /\ UNCHANGED <<disk, posted, dead, cursor, steady, changes, restarts, beats>>
  BY PostContent
<1>2. sync' = s /\ todo' \in Seq(Job)
  <2>1. <<>> \in Seq(Job)
    OBVIOUS
  <2>2. QED BY <2>1 DEF Conclude
<1>3. \/ ring' = EmptyRing /\ missed' = missed \cup lost \cup Queued(r)
      \/ ring' = r /\ missed' = missed \cup lost
  BY DEF Conclude
<1>4. ring' \in Ring /\ Closed(ring') /\ missed' \subseteq Items
  BY <1>3, EmptyQueue, QueuedItems DEF IInv, TypeOK
<1>5. ASSUME NEW x \in Items \ missed'
      PROVE  Says(index', Queue(ring'), x) <=> x \in Actual
  <2>1. x \in (Items \ missed) \ lost
    BY <1>3
  <2>2. CASE ring' = r
    BY <2>1, <2>2
  <2>3. CASE ring' = EmptyRing /\ missed' = missed \cup lost \cup Queued(r)
    <3>1. Says(index', Queue(r), x) <=> x \in index'
      BY <2>3, SaysUnqueued
    <3>2. Says(index', Queue(ring'), x) <=> x \in index'
      BY <2>3, EmptyQueue, SaysEmpty
    <3>3. QED BY <2>1, <3>1, <3>2
  <2>4. QED BY <1>3, <2>2, <2>3
<1>6. Agreed'
  <2>1. Waiting' = Queue(ring') /\ Actual' = Actual
    BY <1>1, <1>2 DEF Waiting, Actual
  <2>2. QED BY <1>5, <2>1 DEF Agreed
<1>7. TypeOK'
  BY <1>1, <1>2, <1>4 DEF IInv, TypeOK
<1>8. RingOK' /\ Detached'
  BY <1>1, <1>2, <1>4 DEF RingOK, Closed, Detached
<1>9. QED BY <1>6, <1>7, <1>8 DEF IInv

\* What the queue of an attached server says.
LEMMA QueueAgreed ==
  ASSUME IInv, sync.attached
  PROVE  /\ ring \in Ring /\ Closed(ring)
         /\ \A x \in Items \ missed : Says(index, Queue(ring), x) <=> x \in Actual
  BY DEF IInv, TypeOK, RingOK, Closed, Agreed, Waiting

LEMMA TodoTail ==
  ASSUME IInv, todo # <<>>
  PROVE  Tail(todo) \in Seq(Job)
  BY HeadTailProperties DEF IInv, TypeOK

\* A post after which index and ring are what they were.
LEMMA PlainPost ==
  ASSUME IInv, Post, NEW s \in Sync, s.attached = sync.attached,
         NEW rest \in Seq(Job), Conclude(s, ring, rest, {}), UNCHANGED index
  PROVE  IInv'
<1>1. sync.attached
  BY PostContent
<1>2. /\ ring \in Ring /\ Closed(ring)
      /\ \A x \in (Items \ missed) \ {} : Says(index', Queue(ring), x) <=> x \in Actual
  BY <1>1, QueueAgreed
<1>3. index' \subseteq Items /\ {} \in SUBSET Items
  BY DEF IInv, TypeOK
<1>4. QED BY <1>2, <1>3, ConcludeStep

LEMMA BeatStep == ASSUME IInv, Post, NEW out \in Outcome, Beat(out) PROVE IInv'
<1> DEFINE up == [sync EXCEPT !.state = "active", !.failures = 0]
<1>1. todo # <<>> /\ UNCHANGED index /\ sync \in Sync
  BY DEF Post, Beat, IInv, TypeOK
<1>2. CASE sync.state = "suspended" /\ out = "ok"
  <2>1. PICK r \in Resolves, jobs \in FullSyncs :
               Conclude([up EXCEPT !.resolved = r], ring, jobs \o <<"drain">>, {})
    BY <1>2 DEF Beat
  <2>2. r \in BOOLEAN /\ up \in Sync /\ up.attached = sync.attached
    BY <1>1 DEF Resolves, Sync
  <2> HIDE DEF up
  <2>3. [up EXCEPT !.resolved = r] \in Sync
        /\ [up EXCEPT !.resolved = r].attached = sync.attached
    BY <2>2 DEF Sync
  <2>4. jobs \o <<"drain">> \in Seq(Job)
    <3>1. <<"drain">> \in Seq(Job)
      BY DEF Job
    <3>2. QED BY <3>1, FullSyncJobs, ConcatProperties
  <2>5. QED BY <1>1, <2>1, <2>3, <2>4, PlainPost
<1>3. CASE sync.state = "suspended" /\ out # "ok"
  <2>1. Conclude(sync, ring, <<>>, {}) /\ <<>> \in Seq(Job)
    BY <1>3 DEF Beat
  <2>2. QED BY <1>1, <2>1, PlainPost
<1>4. CASE sync.state # "suspended"
  <2>1. Conclude(AfterPost(sync, out), ring, Tail(todo), {})
    BY <1>4 DEF Beat
  <2>2. QED BY <1>1, <2>1, TodoTail, AfterPostType, PlainPost
<1>5. QED BY <1>2, <1>3, <1>4

LEMMA FullBoardStep == ASSUME IInv, Post, NEW out \in Outcome, FullBoardSync(out) PROVE IInv'
<1>1. /\ todo # <<>> /\ UNCHANGED index /\ sync \in Sync
      /\ Conclude(AfterPost(sync, out), ring, Tail(todo), {})
  BY DEF Post, FullBoardSync, IInv, TypeOK
<1>2. QED BY <1>1, TodoTail, AfterPostType, PlainPost

\* A whole kind of content arrives, though perhaps nobody hears that it did.
LEMMA FullPostStep ==
  ASSUME IInv, Post, NEW kind, NEW scope \in SUBSET Items, NEW now,
         now = Actual \cap scope, NEW counted \in Sync, counted.attached = sync.attached,
         NEW out \in Outcome, FullPost(kind, scope, now, counted, out)
  PROVE  IInv'
<1>1. todo # <<>> /\ sync.attached /\ sync \in Sync
      /\ UNCHANGED <<disk, posted, dead, cursor, steady, changes, restarts, beats>>
  BY PostContent DEF Post, IInv, TypeOK
<1>2. index' \subseteq Items
  BY DEF FullPost, IInv, TypeOK
<1>3. /\ ring \in Ring /\ Closed(ring)
      /\ \A x \in Items \ missed : Says(index, Queue(ring), x) <=> x \in Actual
  BY <1>1, QueueAgreed
\* A queued item is as its last change says, whatever the index has.
<1>4. ASSUME NEW x \in Queued(ring)
      PROVE  Says(index', Queue(ring), x) <=> Says(index, Queue(ring), x)
  <2>1. \E i \in 1 .. Len(Queue(ring)) : Queue(ring)[i].item = x
    BY <1>3, QueueOf
  <2>2. QED BY <2>1 DEF Says, SaysTo
<1>5. ASSUME NEW x \in Items, x \notin Queued(ring), out # "lost", x \in scope
      PROVE  Says(index', Queue(ring), x) <=> x \in Actual
  <2>1. Says(index', Queue(ring), x) <=> x \in index'
    BY <1>3, <1>5, SaysUnqueued
  <2>2. index' = (index \ scope) \cup now
    BY <1>5 DEF FullPost
  <2>3. QED BY <1>5, <2>1, <2>2
<1>6. ASSUME NEW x \in Items, x \notin Queued(ring), out = "lost" \/ x \notin scope
      PROVE  Says(index', Queue(ring), x) <=> Says(index, Queue(ring), x)
  <2>1. /\ Says(index', Queue(ring), x) <=> x \in index'
        /\ Says(index, Queue(ring), x) <=> x \in index
    BY <1>3, <1>6, SaysUnqueued
  <2>2. index' = IF out = "lost" THEN index ELSE (index \ scope) \cup now
    BY DEF FullPost
  <2>3. QED BY <1>6, <2>1, <2>2
<1>7. \A x \in Items \ missed : Says(index', Queue(ring), x) <=> x \in Actual
  BY <1>3, <1>4, <1>5, <1>6
<1>8. CASE out # "ok"
  <2>1. Conclude(AfterPost(sync, out), ring, Tail(todo), {})
    BY <1>8 DEF FullPost
  <2>2. {} \in SUBSET Items /\ \A x \in (Items \ missed) \ {} : x \in Items \ missed
    OBVIOUS
  <2>3. QED BY <1>1, <1>2, <1>3, <1>7, <2>1, <2>2, TodoTail, AfterPostType, ConcludeStep
<1>9. CASE out = "ok"
  <2>1. /\ sync' = counted /\ missed' = missed \ (scope \ Queued(ring))
        /\ todo' = Tail(todo) /\ UNCHANGED ring
    BY <1>9 DEF FullPost
  <2>2. Waiting' = Queue(ring) /\ Actual' = Actual
    BY <1>1, <2>1 DEF Waiting, Actual
  <2>3. ASSUME NEW x \in Items \ missed'
        PROVE  Says(index', Waiting', x) <=> x \in Actual'
    <3>1. CASE x \in missed
      <4>1. x \in scope /\ x \notin Queued(ring)
        BY <2>1, <3>1
      <4>2. QED BY <1>5, <1>9, <2>2, <4>1
    <3>2. CASE x \notin missed
      BY <1>7, <2>2, <3>2
    <3>3. QED BY <3>1, <3>2
  <2>4. Agreed'
    BY <2>3 DEF Agreed
  <2>5. TypeOK'
    BY <1>1, <1>2, <2>1, TodoTail DEF IInv, TypeOK
  <2>6. RingOK' /\ Detached'
    BY <1>1, <2>1 DEF IInv, RingOK, Detached
  <2>7. QED BY <2>4, <2>5, <2>6 DEF IInv
<1>10. QED BY <1>8, <1>9

LEMMA FullFileStep == ASSUME IInv, Post, NEW out \in Outcome, FullFileSync(out) PROVE IInv'
<1> DEFINE k == FileCount + Folders
           a == AfterPost(sync, "ok")
           s == [a EXCEPT !.files = k]
<1>1. k \in Nat
  <2>1. disk \subseteq Items
    BY DEF IInv, TypeOK, Items
  <2>2. FileCount \in Nat
    BY <2>1, Counts DEF FileCount
  <2>3. QED BY <2>2, MnemosyneAssumption
<1>2. a \in Sync /\ a.attached = sync.attached
  BY AfterPostType DEF IInv, TypeOK
<1>3. FullPost("files", Files, disk, s, out)
  BY DEF FullFileSync
<1> HIDE DEF k, a
<1>4. s \in Sync /\ s.attached = sync.attached
  BY <1>1, <1>2 DEF Sync
<1> HIDE DEF s
<1>5. Files \in SUBSET Items /\ disk = Actual \cap Files
  BY MnemosyneAssumption DEF IInv, TypeOK, Items, Actual
<1>6. QED BY <1>3, <1>4, <1>5, FullPostStep

LEMMA FullNewsStep == ASSUME IInv, Post, NEW out \in Outcome, FullNewsSync(out) PROVE IInv'
<1> DEFINE k == Cardinality(posted)
           a == AfterPost(sync, "ok")
           s == [a EXCEPT !.news = k]
<1>1. k \in Nat
  <2>1. posted \subseteq Items
    BY DEF IInv, TypeOK, Items
  <2>2. QED BY <2>1, Counts
<1>2. a \in Sync /\ a.attached = sync.attached
  BY AfterPostType DEF IInv, TypeOK
<1>3. FullPost("news", Articles, posted, s, out)
  BY DEF FullNewsSync
<1> HIDE DEF k, a
<1>4. s \in Sync /\ s.attached = sync.attached
  BY <1>1, <1>2 DEF Sync
<1> HIDE DEF s
<1>5. Articles \in SUBSET Items /\ posted = Actual \cap Articles
  BY MnemosyneAssumption DEF IInv, TypeOK, Items, Actual
<1>6. QED BY <1>3, <1>4, <1>5, FullPostStep

LEMMA DrainStep == ASSUME IInv, Post, NEW out \in Outcome, Drain(out) PROVE IInv'
<1> DEFINE o == ring.entries[ring.head]
           lost == IF out = "ok" THEN {} ELSE {o.item}
<1>1. sync.attached /\ ring.count > 0
  BY PostContent DEF Drain
<1>2. /\ ring \in Ring /\ Closed(ring)
      /\ \A x \in Items \ missed : Says(index, Queue(ring), x) <=> x \in Actual
  BY <1>1, QueueAgreed
<1>3. /\ index' = IF out = "lost" THEN index ELSE Apply(index, o)
      /\ Conclude(AfterPost(sync, out), Pop(ring), todo, lost)
  BY DEF Drain
<1> DEFINE q == Queue(ring)
           p == Queue(Pop(ring))
           n == ring.count - 1
<1>4. /\ Pop(ring) \in Ring /\ Closed(Pop(ring)) /\ o \in Op /\ o = q[1]
      /\ Len(p) = n /\ \A i \in 1 .. n : p[i] = q[i + 1]
  BY <1>1, <1>2, PopQueue
<1>5. n \in Nat /\ Len(q) = n + 1
  BY <1>1, <1>2, QueueOf DEF Ring
<1> HIDE DEF o, q, p, n
<1>6. lost \in SUBSET Items /\ o.item \in Items /\ o.add \in BOOLEAN
  BY <1>4 DEF Op
<1>7. index' \subseteq Items
  BY <1>3, <1>6 DEF Apply, IInv, TypeOK
<1>8. ASSUME NEW x \in (Items \ missed) \ lost
      PROVE  Says(index', p, x) <=> x \in Actual
  <2>1. x \in index' <=> IF q[1].item = x THEN q[1].add = TRUE ELSE x \in index
    <3>1. CASE o.item = x
      <4>1. out = "ok" /\ index' = Apply(index, o)
        BY <1>3, <3>1
      <4>2. CASE o.add = TRUE
        BY <1>4, <3>1, <4>1, <4>2 DEF Apply
      <4>3. CASE o.add = FALSE
        BY <1>4, <3>1, <4>1, <4>3 DEF Apply
      <4>4. QED BY <1>6, <4>2, <4>3
    <3>2. CASE o.item # x
      <4>1. x \in index' <=> x \in index
        BY <1>3, <3>2 DEF Apply
      <4>2. QED BY <1>4, <3>2, <4>1
    <3>3. QED BY <3>1, <3>2
  <2>2. SaysTo(index', p, n, x) <=> SaysTo(index, q, n + 1, x)
    BY <1>4, <1>5, <2>1, SaysShifted
  <2>3. Says(index', p, x) <=> Says(index, q, x)
    BY <1>4, <1>5, <2>2 DEF Says
  <2>4. QED BY <1>2, <2>3 DEF q
<1>9. todo \in Seq(Job) /\ sync \in Sync
  BY DEF IInv, TypeOK
<1> HIDE DEF lost
<1>10. \A x \in (Items \ missed) \ lost : Says(index', Queue(Pop(ring)), x) <=> x \in Actual
  BY <1>8 DEF p
<1>11. QED BY <1>3, <1>4, <1>6, <1>7, <1>9, <1>10, AfterPostType, ConcludeStep

LEMMA DrainedStep == ASSUME IInv, Post, Drained PROVE IInv'
<1>1. /\ todo # <<>> /\ todo' = Tail(todo) /\ UNCHANGED <<sync, ring, index, missed>>
  BY DEF Post, Drained
<1>2. sync.attached /\ UNCHANGED <<disk, posted, dead, cursor, steady, changes, restarts, beats>>
  BY PostContent
<1>3. Agreed'
  BY <1>1, <1>2, SameAgreed DEF IInv
<1>4. TypeOK'
  BY <1>1, <1>2, TodoTail DEF IInv, TypeOK
<1>5. RingOK' /\ Detached'
  BY <1>1, <1>2 DEF IInv, RingOK, Detached
<1>6. QED BY <1>3, <1>4, <1>5 DEF IInv

LEMMA PostStep == ASSUME IInv, Post PROVE IInv'
<1>1. CASE \E out \in Outcomes : \/ Beat(out) \/ FullFileSync(out) \/ FullNewsSync(out)
                                 \/ FullBoardSync(out) \/ Drain(out)
  <2>1. PICK out \in Outcomes : \/ Beat(out) \/ FullFileSync(out) \/ FullNewsSync(out)
                                \/ FullBoardSync(out) \/ Drain(out)
    BY <1>1
  <2>2. out \in Outcome
    BY DEF Outcomes, Outcome
  <2>3. QED BY <2>1, <2>2, BeatStep, FullFileStep, FullNewsStep, FullBoardStep, DrainStep
<1>2. CASE Drained
  BY <1>2, DrainedStep
<1>3. QED BY <1>1, <1>2 DEF Post

-----------------------------------------------------------------------------
(* The process and the network.  *)

LEMMA RestartTypes ==
  ASSUME IInv, NEW r \in BOOLEAN, Restarted(r), missed' \subseteq Items, index' \subseteq Items
  PROVE  TypeOK' /\ RingOK' /\ Detached' /\ Waiting' = <<>>
<1>1. /\ sync' = Fresh(r) /\ ring' = EmptyRing /\ todo' = <<>> /\ dead' = {}
      /\ UNCHANGED <<disk, posted, cursor, steady, changes, beats>>
      /\ restarts' = restarts + 1
  BY DEF Restarted
<1>2. sync' \in Sync
  BY <1>1 DEF Fresh, Sync
<1>3. ring' \in Ring /\ Closed(ring') /\ Queue(ring') = <<>>
  BY <1>1, EmptyQueue
<1>4. todo' \in Seq(Job) /\ dead' \subseteq Articles /\ restarts' \in Nat
  BY <1>1 DEF IInv, TypeOK
<1>5. TypeOK'
  BY <1>1, <1>2, <1>3, <1>4 DEF IInv, TypeOK
<1>6. RingOK' /\ Detached' /\ Waiting' = <<>>
  BY <1>1, <1>3 DEF RingOK, Closed, Detached, Waiting
<1>7. QED BY <1>5, <1>6

LEMMA CrashStep == ASSUME IInv, Crash PROVE IInv'
<1>1. PICK r \in Resolves : Restarted(r)
  BY DEF Crash
<1>2. r \in BOOLEAN /\ UNCHANGED <<index, disk, posted>>
  BY <1>1 DEF Resolves, Crash, Restarted
<1>3. missed' = missed \cup Queued(ring)
  BY DEF Crash
<1>4. missed' \subseteq Items /\ index' \subseteq Items
  BY <1>2, <1>3, QueuedItems DEF IInv, TypeOK
<1>5. TypeOK' /\ RingOK' /\ Detached' /\ Waiting' = <<>>
  BY <1>1, <1>2, <1>4, RestartTypes
<1>6. Agreed'
  BY <1>2, <1>3, <1>5, QueueLost
<1>7. QED BY <1>5, <1>6 DEF IInv

LEMMA ShutdownStep == ASSUME IInv, Shutdown PROVE IInv'
<1>1. PICK r \in Resolves, out \in Outcomes :
         /\ Restarted(r)
         /\ index' = IF out = "lost" THEN index ELSE {}
  BY DEF Shutdown
<1>2. r \in BOOLEAN /\ missed' = Items
  BY DEF Resolves, Shutdown
<1>3. missed' \subseteq Items /\ index' \subseteq Items
  BY <1>1, <1>2 DEF IInv, TypeOK
<1>4. TypeOK' /\ RingOK' /\ Detached'
  BY <1>1, <1>2, <1>3, RestartTypes
<1>5. Agreed'
  BY <1>2 DEF Agreed
<1>6. QED BY <1>4, <1>5 DEF IInv

LEMMA BecomeSteadyStep == ASSUME IInv, BecomeSteady PROVE IInv'
<1>1. steady' = TRUE
      /\ UNCHANGED <<disk, posted, dead, sync, ring, todo, index, missed, cursor,
                     changes, restarts, beats>>
  BY DEF BecomeSteady, content, bounds
<1>2. TypeOK'
  BY <1>1 DEF IInv, TypeOK
<1>3. RingOK' /\ Detached'
  BY <1>1 DEF IInv, RingOK, Detached
<1>4. Agreed'
  BY <1>1, SameAgreed DEF IInv
<1>5. QED BY <1>2, <1>3, <1>4 DEF IInv

LEMMA UnchangedStep == ASSUME IInv, UNCHANGED vars PROVE IInv'
<1>1. UNCHANGED <<disk, posted, dead, sync, ring, todo, index, missed, cursor,
                  steady, changes, restarts, beats>>
  BY DEF vars, content, bounds
<1>2. TypeOK'
  BY <1>1 DEF IInv, TypeOK
<1>3. RingOK' /\ Detached'
  BY <1>1 DEF IInv, RingOK, Detached
<1>4. Agreed'
  BY <1>1, SameAgreed DEF IInv
<1>5. QED BY <1>2, <1>3, <1>4 DEF IInv

-----------------------------------------------------------------------------

LEMMA InitIInv == ASSUME Init PROVE IInv
<1>1. /\ disk \in {{}, Files} /\ posted = {} /\ dead = {} /\ steady = FALSE
      /\ cursor \in BOOLEAN /\ ring = EmptyRing /\ todo = <<>> /\ index = {}
      /\ missed = Items /\ changes = 0 /\ restarts = 0 /\ beats = 0
  BY MnemosyneAssumption DEF Init
<1>2. sync \in Sync
  BY DEF Init, Fresh, Sync
<1>3. ring \in Ring /\ RingOK
  BY <1>1, EmptyQueue DEF RingOK, Closed
<1>4. todo \in Seq(Job)
  BY <1>1
<1>5. TypeOK
  BY <1>1, <1>2, <1>3, <1>4 DEF TypeOK
<1>6. Detached /\ Agreed
  BY <1>1 DEF Detached, Agreed
<1>7. QED BY <1>3, <1>5, <1>6 DEF IInv

LEMMA NextIInv == ASSUME IInv, [Next]_vars PROVE IInv'
<1>1. CASE \E f \in Files : Upload(f) \/ DeleteFile(f) \/ \E g \in Files : MoveFile(f, g)
  BY <1>1, UploadStep, DeleteFileStep, MoveFileStep
<1>2. CASE \E n \in Articles : PostArticle(n) \/ DeleteArticle(n)
  BY <1>2, PostArticleStep, DeleteArticleStep
<1>3. CASE StartupDelay \/ Heartbeat \/ Periodic \/ Reload
  BY <1>3, StartupDelayStep, HeartbeatStep, PeriodicStep, ReloadStep
<1>4. CASE Post
  BY <1>4, PostStep
<1>5. CASE Crash \/ Shutdown \/ BecomeSteady
  BY <1>5, CrashStep, ShutdownStep, BecomeSteadyStep
<1>6. CASE UNCHANGED vars
  BY <1>6, UnchangedStep
<1>7. QED BY <1>1, <1>2, <1>3, <1>4, <1>5, <1>6 DEF Next

\* The invariant holds in every state: mn_sync_t, the ring buffer of
\* mnemosyne_sync.c and the handlers that post keep it.
THEOREM Inductive == Spec => []IInv
<1>1. Init => IInv
  BY InitIInv
<1>2. IInv /\ [Next]_vars => IInv'
  BY NextIInv
<1>3. QED BY <1>1, <1>2, PTL DEF Spec

\* Every variable has its type: the ring's ends stay inside the ring, its count
\* within its size, and the state of the sync is one that mn_sync_t has.
THEOREM TypeCorrect == Spec => []TypeOK
<1>1. IInv => TypeOK
  BY DEF IInv
<1>2. QED BY <1>1, Inductive, PTL

\* The two ends of the ring buffer and its count agree whatever its size, after
\* every push, pop and reset of incr_queue.
THEOREM RingAgrees == Spec => []RingOK
<1>1. IInv => RingOK
  BY DEF IInv
<1>2. QED BY <1>1, Inductive, PTL

\* Sending what is queued brings the index up to date on everything that was
\* not written down as lost, for any number of files, articles and failures
\* and any size of the ring (mn_drain_incremental_queue, mn_start_full_sync).
THEOREM QueueTellsAll == Spec => []Told
<1>1. IInv => Told
  BY AgreedTold
<1>2. QED BY <1>1, Inductive, PTL
=============================================================================
