----------------------------- MODULE NewsProofs -----------------------------
(***************************************************************************)
(* Proofs about News for every value of its constants: that memory stays   *)
(* within its limits, and that no accepted article is lost to crashes,     *)
(* restarts, deletions and the migration as long as a start-up can load    *)
(* the whole directory, but for those whose write fails and is not         *)
(* repeated, and those of a YAML file that cannot be read whole.  The      *)
(* second half is about the other part of the server's news, the message   *)
(* board (Board), whose names differ from those of News.                   *)
(***************************************************************************)
EXTENDS News, Board, FiniteSetTheorems, SequenceTheorems, WellFoundedInduction, TLAPS

\* Categories in memory: finitely many, with finitely many articles each.
Cat(a) ==
    /\ a = [arts |-> a.arts, next |-> a.next]
    /\ a.next \in Nat \ {0}
    /\ IsFiniteSet(DOMAIN a.arts) /\ DOMAIN a.arts \subseteq Nat \ {0}
    /\ a.arts \in [DOMAIN a.arts -> Article]
    /\ Cardinality(DOMAIN a.arts) <= MaxArticles
    /\ \A i \in DOMAIN a.arts : i < a.next

IsNews(m) ==
    /\ IsFiniteSet(DOMAIN m) /\ DOMAIN m \subseteq Names
    /\ m = [c \in DOMAIN m |-> m[c]]
    /\ Cardinality(DOMAIN m) <= MaxCategories
    /\ \A c \in DOMAIN m : Cat(m[c])

Types ==
    /\ up \in BOOLEAN /\ made \in BOOLEAN
    /\ IsNews(mem) /\ IsStore(disk) /\ (~up => mem = None)
    /\ yaml = [state |-> yaml.state, cats |-> yaml.cats, parses |-> yaml.parses]
    /\ yaml.state \in {"none", "here", "legacy"} /\ IsStore(yaml.cats)
    /\ \A k \in DOMAIN posted : k = <<k[1], k[2]>> /\ k[2] # 0

\* Before the directory is made, what was posted waits in the YAML file.
Unmade ==
    ~made =>
        /\ ~up /\ disk = None
        /\ \A k \in DOMAIN posted :
             LET c == k[1]  i == k[2]
             IN  /\ posted[k].old /\ yaml.state = "here"
                 /\ c \in DOMAIN yaml.cats /\ i \in DOMAIN yaml.cats[c]
                 /\ yaml.cats[c][i].parent = posted[k].parent
                 /\ yaml.cats[c][i].text = posted[k].text

IInv == Types /\ Unmade /\ Kept

-----------------------------------------------------------------------------
(* Finite sets. *)

\* A finite set of numbers has a largest: of the sets of its elements from i
\* on, one contains no other.
LEMMA MaxFacts ==
    ASSUME NEW S \in SUBSET Nat, IsFiniteSet(S), S # {}
    PROVE  Max(S) \in S /\ \A j \in S : Max(S) >= j
<1> DEFINE From(i) == {j \in S : j >= i}
           T == {From(i) : i \in S}
<1>1. FiniteSubsetsOf(S) = SUBSET S
    BY FS_FiniteSubsetsOfFinite
<1>2. IsWellFoundedOn(StrictSubsetOrdering(S), SUBSET S)
    BY <1>1, FS_StrictSubsetOrderingWellFounded
<1>3. T \subseteq SUBSET S /\ T # {}
    OBVIOUS
<1>4. PICK x \in T : \A y \in T : ~(<<y, x>> \in StrictSubsetOrdering(S))
    BY <1>2, <1>3, WFMin
<1>5. PICK i \in S : x = From(i)
    BY <1>4
<1>6. ASSUME NEW j \in S, j > i
      PROVE  FALSE
    <2>1. From(j) \subseteq From(i)
        <3>1. i \in Nat /\ j \in Nat /\ \A k \in S : k \in Nat
            OBVIOUS
        <3>2. \A k \in S : k >= j => k >= i
            BY <1>6, <3>1
        <3>3. QED BY <3>2
    <2>2. i \in From(i) /\ i \notin From(j)
        BY <1>6
    <2>3. From(j) \in T /\ From(j) \in SUBSET S /\ From(i) \in SUBSET S
        OBVIOUS
    <2>4. <<From(j), From(i)>> \in StrictSubsetOrdering(S)
        BY <2>1, <2>2, <2>3 DEF StrictSubsetOrdering
    <2>5. QED BY <1>4, <1>5, <2>3, <2>4
<1>7. \A j \in S : i >= j
    BY <1>6
<1>8. \E z \in S : \A j \in S : z >= j
    BY <1>7
<1>9. QED BY <1>8 DEF Max

\* What is loaded of a directory: some of it, no more than there is room for,
\* and all of it if it fits.
LEMMA SomeFacts ==
    ASSUME NEW S, IsFiniteSet(S), NEW n \in Nat, NEW s \in SomeOf(S, n)
    PROVE  /\ s \subseteq S /\ IsFiniteSet(s) /\ Cardinality(s) <= n
           /\ Cardinality(S) <= n => s = S
<1>1. s \in SUBSET S /\ (Cardinality(s) = n \/ (s = S /\ Cardinality(S) < n))
    BY DEF SomeOf
<1>2. IsFiniteSet(s) /\ Cardinality(s) <= Cardinality(S)
      /\ (Cardinality(S) = Cardinality(s) => S = s)
    BY <1>1, FS_Subset
<1>3. Cardinality(s) \in Nat /\ Cardinality(S) \in Nat
    BY <1>2, FS_CardinalityType
<1>4. QED BY <1>1, <1>2, <1>3

-----------------------------------------------------------------------------
(* Saving. *)

\* The file of an article, in a directory and as a save writes it.
Filed(d, c, i) == c \in DOMAIN d /\ i \in DOMAIN d[c]
FileOf(m, c, i) ==
    [text |-> m[c].arts[i].text, parent |-> m[c].arts[i].parent, form |-> "spaced"]

\* What can be saved.
Source(m) ==
    /\ IsFiniteSet(DOMAIN m) /\ DOMAIN m \subseteq Names
    /\ \A c \in DOMAIN m :
         /\ IsFiniteSet(DOMAIN m[c].arts) /\ DOMAIN m[c].arts \subseteq Nat \ {0}
         /\ \A i \in DOMAIN m[c].arts :
              m[c].arts[i].text \in Texts \cup {Blank} /\ m[c].arts[i].parent \in Nat

LEMMA NewsIsSource ==
    ASSUME NEW m, IsNews(m)
    PROVE  Source(m)
<1>1. ASSUME NEW c \in DOMAIN m, NEW i \in DOMAIN m[c].arts
      PROVE  m[c].arts[i].text \in Texts \cup {Blank} /\ m[c].arts[i].parent \in Nat
    <2>1. m[c].arts[i] \in Article
        BY DEF IsNews, Cat
    <2>2. QED BY <2>1 DEF Article
<1>2. QED BY <1>1 DEF IsNews, Cat, Source

\* The writes of a save.
LEMMA WritesAre ==
    ASSUME NEW m, NEW k \in Writes(m)
    PROVE  /\ k = <<k[1], k[2]>> /\ k[1] \in DOMAIN m
           /\ k[2] # 0 => k[2] \in DOMAIN m[k[1]].arts /\ m[k[1]].arts[k[2]].active
<1>1. CASE k \in {<<c, 0>> : c \in DOMAIN m}
    BY <1>1
<1>2. CASE k \in UNION {{<<c, i>> : i \in {j \in DOMAIN m[c].arts : m[c].arts[j].active}} :
                          c \in DOMAIN m}
    BY <1>2
<1>3. QED BY <1>1, <1>2 DEF Writes

LEMMA ToWrite ==
    ASSUME NEW m, NEW c \in DOMAIN m
    PROVE  /\ <<c, 0>> \in Writes(m)
           /\ \A i \in DOMAIN m[c].arts : m[c].arts[i].active => <<c, i>> \in Writes(m)
    BY DEF Writes

\* A save removes nothing, and replaces or adds what it writes.
LEMMA WrittenFacts ==
    ASSUME NEW d, NEW m, NEW w \in SUBSET Writes(m), \A c \in DOMAIN m : 0 \notin DOMAIN m[c].arts
    PROVE  LET e == Written(d, m, w)
           IN  /\ e = [c \in DOMAIN e |-> e[c]]
               /\ DOMAIN d \subseteq DOMAIN e
               /\ \A c \in DOMAIN e : /\ e[c] = [i \in DOMAIN e[c] |-> e[c][i]]
                                      /\ c \in DOMAIN d \/ c \in DOMAIN m
               /\ \A c, i : Filed(d, c, i) => Filed(e, c, i)
               /\ \A c, i : <<c, i>> \in w => c \in DOMAIN e
               /\ \A c, i : <<c, i>> \in w /\ i # 0 => Filed(e, c, i) /\ e[c][i] = FileOf(m, c, i)
               /\ \A c, i : Filed(d, c, i) /\ <<c, i>> \notin w => e[c][i] = d[c][i]
               /\ \A c, i : Filed(e, c, i) => Filed(d, c, i) \/ (<<c, i>> \in w /\ i # 0)
<1> DEFINE There(c) == IF c \in DOMAIN d THEN d[c] ELSE None
           Ids(c) == DOMAIN There(c) \cup {k[2] : k \in {x \in w : x[1] = c /\ x[2] # 0}}
           File0(c, i) == IF <<c, i>> \in w THEN FileOf(m, c, i) ELSE There(c)[i]
           D == DOMAIN d \cup {k[1] : k \in w}
           e == Written(d, m, w)
<1>1. e = [c \in D |-> [i \in Ids(c) |-> File0(c, i)]]
    BY DEF Written, FileOf
<1>2. \A k \in w : k = <<k[1], k[2]>> /\ k[1] \in DOMAIN m
    BY WritesAre
<1>3. DOMAIN e = D /\ \A c \in D : e[c] = [i \in Ids(c) |-> File0(c, i)]
    BY <1>1
<1>4. \A c, i : Filed(d, c, i) => There(c) = d[c] /\ c \in D /\ i \in Ids(c)
    BY DEF Filed
<1>5. \A c, i : <<c, i>> \in w => c \in D /\ (i # 0 => i \in Ids(c))
    OBVIOUS
<1>6. \A c, i : i \in Ids(c) => Filed(d, c, i) \/ (<<c, i>> \in w /\ i # 0)
    <2>1. ASSUME NEW c, NEW i \in Ids(c)
          PROVE  Filed(d, c, i) \/ (<<c, i>> \in w /\ i # 0)
        <3>1. CASE i \in DOMAIN There(c)
            <4>1. c \in DOMAIN d
                BY <3>1 DEF None
            <4>2. QED BY <3>1, <4>1 DEF Filed
        <3>2. CASE i \in {k[2] : k \in {x \in w : x[1] = c /\ x[2] # 0}}
            <4>1. PICK k \in w : k[1] = c /\ k[2] # 0 /\ i = k[2]
                BY <3>2
            <4>2. k = <<c, i>>
                BY <1>2, <4>1
            <4>3. QED BY <4>1, <4>2
        <3>3. QED BY <3>1, <3>2
    <2>2. QED BY <2>1
<1>7. \A c \in D : c \in DOMAIN d \/ c \in DOMAIN m
    BY <1>2
<1> HIDE DEF There, Ids, File0, D, e
<1>8. e = [c \in DOMAIN e |-> e[c]] /\ DOMAIN d \subseteq DOMAIN e
    BY <1>1, <1>3 DEF D
<1>9. \A c \in DOMAIN e : e[c] = [i \in DOMAIN e[c] |-> e[c][i]]
    BY <1>3
<1>10. \A c, i : Filed(d, c, i) => Filed(e, c, i)
    BY <1>3, <1>4 DEF Filed
<1>11. \A c, i : <<c, i>> \in w /\ i # 0 => Filed(e, c, i) /\ e[c][i] = FileOf(m, c, i)
    <2>1. ASSUME NEW c, NEW i, <<c, i>> \in w, i # 0
          PROVE  Filed(e, c, i) /\ e[c][i] = FileOf(m, c, i)
        <3>1. c \in D /\ i \in Ids(c)
            BY <1>5, <2>1
        <3>2. e[c][i] = File0(c, i)
            BY <1>3, <3>1
        <3>3. QED BY <1>3, <2>1, <3>1, <3>2 DEF File0, Filed
    <2>2. QED BY <2>1
<1>12. \A c, i : Filed(d, c, i) /\ <<c, i>> \notin w => e[c][i] = d[c][i]
    <2>1. ASSUME NEW c, NEW i, Filed(d, c, i), <<c, i>> \notin w
          PROVE  e[c][i] = d[c][i]
        <3>1. c \in D /\ i \in Ids(c) /\ There(c) = d[c]
            BY <1>4, <2>1
        <3>2. e[c][i] = File0(c, i)
            BY <1>3, <3>1
        <3>3. QED BY <2>1, <3>1, <3>2 DEF File0
    <2>2. QED BY <2>1
<1>13. \A c, i : Filed(e, c, i) => Filed(d, c, i) \/ (<<c, i>> \in w /\ i # 0)
    BY <1>3, <1>6 DEF Filed
<1>14. \A c, i : <<c, i>> \in w => c \in DOMAIN e
    BY <1>3, <1>5
<1>15. \A c \in DOMAIN e : c \in DOMAIN d \/ c \in DOMAIN m
    BY <1>3, <1>7
<1>16. QED BY <1>8, <1>9, <1>10, <1>11, <1>12, <1>13, <1>14, <1>15 DEF e

LEMMA WrittenStore ==
    ASSUME NEW d, IsStore(d), NEW m, Source(m), NEW w \in SUBSET Writes(m)
    PROVE  IsStore(Written(d, m, w))
<1> DEFINE e == Written(d, m, w)
<1>1. \A c \in DOMAIN m : 0 \notin DOMAIN m[c].arts
    BY DEF Source
<1>2. /\ e = [c \in DOMAIN e |-> e[c]]
      /\ \A c \in DOMAIN e : /\ e[c] = [i \in DOMAIN e[c] |-> e[c][i]]
                             /\ c \in DOMAIN d \/ c \in DOMAIN m
      /\ \A c, i : <<c, i>> \in w /\ i # 0 => Filed(e, c, i) /\ e[c][i] = FileOf(m, c, i)
      /\ \A c, i : Filed(d, c, i) /\ <<c, i>> \notin w => e[c][i] = d[c][i]
      /\ \A c, i : Filed(e, c, i) => Filed(d, c, i) \/ (<<c, i>> \in w /\ i # 0)
    BY <1>1, WrittenFacts
<1>3. \A c, i : <<c, i>> \in w /\ i # 0 => c \in DOMAIN m /\ i \in DOMAIN m[c].arts
    BY WritesAre
<1> HIDE DEF e
<1>4. IsFiniteSet(DOMAIN e) /\ DOMAIN e \subseteq Names
    <2>1. DOMAIN e \in SUBSET (DOMAIN d \cup DOMAIN m)
        BY <1>2
    <2>2. IsFiniteSet(DOMAIN d \cup DOMAIN m)
        BY FS_Union DEF IsStore, Source
    <2>3. QED BY <2>1, <2>2, FS_Subset DEF IsStore, Source
<1>5. ASSUME NEW c \in DOMAIN e
      PROVE  /\ IsFiniteSet(DOMAIN e[c]) /\ DOMAIN e[c] \subseteq Nat \ {0}
             /\ e[c] \in [DOMAIN e[c] -> File]
    <2> DEFINE A == IF c \in DOMAIN d THEN DOMAIN d[c] ELSE {}
               B == IF c \in DOMAIN m THEN DOMAIN m[c].arts ELSE {}
    <2>1. IsFiniteSet(A) /\ A \subseteq Nat \ {0}
        BY FS_EmptySet DEF IsStore
    <2>2. IsFiniteSet(B) /\ B \subseteq Nat \ {0}
        BY FS_EmptySet DEF Source
    <2>3. ASSUME NEW i \in DOMAIN e[c]
          PROVE  i \in A \cup B
        <3>1. Filed(e, c, i)
            BY DEF Filed
        <3>2. CASE Filed(d, c, i)
            BY <3>2 DEF Filed
        <3>3. CASE <<c, i>> \in w /\ i # 0
            BY <1>3, <3>3
        <3>4. QED BY <1>2, <3>1, <3>2, <3>3
    <2>4. DOMAIN e[c] \in SUBSET (A \cup B)
        BY <2>3
    <2>5. IsFiniteSet(A \cup B)
        BY <2>1, <2>2, FS_Union
    <2>6. IsFiniteSet(DOMAIN e[c]) /\ DOMAIN e[c] \subseteq Nat \ {0}
        BY <2>1, <2>2, <2>4, <2>5, FS_Subset
    <2>7. ASSUME NEW i \in DOMAIN e[c]
          PROVE  e[c][i] \in File
        <3>1. CASE <<c, i>> \in w
            <4>1. i # 0 /\ c \in DOMAIN m /\ i \in DOMAIN m[c].arts
                BY <1>3, <2>6, <3>1
            <4>2. m[c].arts[i].text \in Texts \cup {Blank} /\ m[c].arts[i].parent \in Nat
                BY <4>1 DEF Source
            <4>3. e[c][i] = FileOf(m, c, i)
                BY <1>2, <3>1, <4>1
            <4>4. QED BY <4>2, <4>3 DEF FileOf, File
        <3>2. CASE <<c, i>> \notin w
            <4>1. Filed(d, c, i)
                BY <1>2, <3>2 DEF Filed
            <4>2. e[c][i] = d[c][i]
                BY <1>2, <3>2, <4>1
            <4>3. d[c][i] \in File
                BY <4>1 DEF IsStore, Filed
            <4>4. QED BY <4>2, <4>3
        <3>3. QED BY <3>1, <3>2
    <2>8. QED BY <1>2, <2>6, <2>7
<1>6. QED BY <1>2, <1>4, <1>5 DEF IsStore, e

\* A start-up can load all of d.
Fits(d) ==
    /\ Cardinality(DOMAIN d) <= MaxCategories
    /\ \A c \in DOMAIN d : Cardinality(DOMAIN d[c]) <= MaxArticles

\* Writes that fail touch no other file, and remove none.
LEMMA SpoiltFacts ==
    ASSUME NEW d, IsStore(d), NEW m, Source(m), NEW w \in SUBSET Writes(m),
           NEW how \in {"unopened", "empty", "short"}
    PROVE  LET e == Spoilt(d, w, how)
           IN  /\ IsStore(e) /\ DOMAIN e = DOMAIN d
               /\ \A c, i : Filed(d, c, i) => Filed(e, c, i)
               /\ \A c, i : Filed(d, c, i) /\ <<c, i>> \notin w => e[c][i] = d[c][i]
<1> DEFINE Those(c) == {k[2] : k \in {x \in w : x[1] = c /\ x[2] # 0}}
           bad == [text |-> Blank, parent |-> 0, form |-> how]
           file(c, i) == IF i \in Those(c) THEN bad ELSE d[c][i]
           e == Spoilt(d, w, how)
<1>1. \A k \in w : /\ k = <<k[1], k[2]>> /\ k[1] \in DOMAIN m
                   /\ k[2] # 0 => k[2] \in DOMAIN m[k[1]].arts
    BY WritesAre
<1>2. \A c : \A i \in Those(c) : <<c, i>> \in w /\ c \in DOMAIN m /\ i \in DOMAIN m[c].arts
    BY <1>1
<1>3. ASSUME NEW c
      PROVE  IsFiniteSet(Those(c)) /\ Those(c) \subseteq Nat \ {0}
    <2>1. CASE c \in DOMAIN m
        <3>1. IsFiniteSet(DOMAIN m[c].arts) /\ DOMAIN m[c].arts \subseteq Nat \ {0}
            BY <2>1 DEF Source
        <3>2. Those(c) \in SUBSET DOMAIN m[c].arts
            BY <1>2
        <3>3. QED BY <3>1, <3>2, FS_Subset
    <2>2. CASE c \notin DOMAIN m
        <3>1. Those(c) = {}
            BY <1>2, <2>2
        <3>2. QED BY <3>1, FS_EmptySet
    <2>3. QED BY <2>1, <2>2
<1> HIDE DEF Those
<1>4. CASE how = "unopened"
    <2>1. e = d
        BY <1>4 DEF Spoilt
    <2>2. QED BY <2>1
<1>5. CASE how # "unopened"
    <2>1. e = [c \in DOMAIN d |-> [i \in DOMAIN d[c] \cup Those(c) |-> file(c, i)]]
        BY <1>5 DEF Spoilt, Those
    <2>2. DOMAIN e = DOMAIN d
          /\ \A c \in DOMAIN d : e[c] = [i \in DOMAIN d[c] \cup Those(c) |-> file(c, i)]
        BY <2>1
    <2>3. bad \in File
        BY <1>5 DEF File
    <2> HIDE DEF e, bad
    <2>4. ASSUME NEW c \in DOMAIN d
          PROVE  /\ IsFiniteSet(DOMAIN e[c]) /\ DOMAIN e[c] \subseteq Nat \ {0}
                 /\ e[c] \in [DOMAIN e[c] -> File]
        <3>1. IsFiniteSet(DOMAIN d[c]) /\ DOMAIN d[c] \subseteq Nat \ {0}
              /\ \A i \in DOMAIN d[c] : d[c][i] \in File
            BY DEF IsStore
        <3>2. DOMAIN e[c] = DOMAIN d[c] \cup Those(c)
            BY <2>2
        <3>3. IsFiniteSet(DOMAIN d[c] \cup Those(c))
            BY <1>3, <3>1, FS_Union
        <3>4. \A i \in DOMAIN d[c] \cup Those(c) : file(c, i) \in File
            BY <2>3, <3>1
        <3>5. QED BY <1>3, <2>2, <3>1, <3>2, <3>3, <3>4
    <2>5. IsStore(e)
        <3>1. IsFiniteSet(DOMAIN e) /\ DOMAIN e \subseteq Names
            BY <2>2 DEF IsStore
        <3>2. e = [c \in DOMAIN e |-> e[c]]
            BY <2>1
        <3>3. QED BY <2>2, <2>4, <3>1, <3>2 DEF IsStore
    <2>6. \A c, i : Filed(d, c, i) => Filed(e, c, i)
        BY <2>2 DEF Filed
    <2>7. ASSUME NEW c, NEW i, Filed(d, c, i), <<c, i>> \notin w
          PROVE  e[c][i] = d[c][i]
        <3>1. c \in DOMAIN d /\ i \in DOMAIN d[c] /\ i \notin Those(c)
            BY <1>2, <2>7 DEF Filed
        <3>2. QED BY <2>2, <3>1
    <2>8. QED BY <2>2, <2>5, <2>6, <2>7 DEF e
<1>6. QED BY <1>4, <1>5

\* If a directory fits that has grown, it has fitted before.
LEMMA FittedBefore ==
    ASSUME NEW d, NEW e, IsStore(d), IsStore(e), Fits(e),
           DOMAIN d \subseteq DOMAIN e, \A c, i : Filed(d, c, i) => Filed(e, c, i)
    PROVE  Fits(d)
<1>1. MaxCategories \in Nat /\ MaxArticles \in Nat
    BY LimitsOK
<1>2. Cardinality(DOMAIN d) <= MaxCategories
    <2>1. IsFiniteSet(DOMAIN d) /\ IsFiniteSet(DOMAIN e) /\ Cardinality(DOMAIN e) <= MaxCategories
        BY DEF IsStore, Fits
    <2>2. Cardinality(DOMAIN d) <= Cardinality(DOMAIN e)
        BY <2>1, FS_Subset
    <2>3. Cardinality(DOMAIN d) \in Nat /\ Cardinality(DOMAIN e) \in Nat
        BY <2>1, FS_CardinalityType
    <2>4. QED BY <1>1, <2>1, <2>2, <2>3
<1>3. ASSUME NEW c \in DOMAIN d
      PROVE  Cardinality(DOMAIN d[c]) <= MaxArticles
    <2>1. IsFiniteSet(DOMAIN d[c]) /\ IsFiniteSet(DOMAIN e[c])
          /\ Cardinality(DOMAIN e[c]) <= MaxArticles
        BY DEF IsStore, Fits
    <2>2. DOMAIN d[c] \subseteq DOMAIN e[c]
        BY DEF Filed
    <2>3. Cardinality(DOMAIN d[c]) <= Cardinality(DOMAIN e[c])
        BY <2>1, <2>2, FS_Subset
    <2>4. Cardinality(DOMAIN d[c]) \in Nat /\ Cardinality(DOMAIN e[c]) \in Nat
        BY <2>1, FS_CardinalityType
    <2>5. QED BY <1>1, <2>1, <2>3, <2>4
<1>4. QED BY <1>2, <1>3 DEF Fits

-----------------------------------------------------------------------------
(* Loading. *)

LEMMA LoadedFacts ==
    ASSUME NEW d, IsStore(d), NEW c \in DOMAIN d, NEW ids \in SUBSET DOMAIN d[c],
           Cardinality(ids) <= MaxArticles
    PROVE  LET a == Loaded(d[c], ids)
           IN  /\ Cat(a) /\ DOMAIN a.arts = ids
               /\ \A i \in ids : /\ a.arts[i].text = Read(d[c][i])
                                 /\ a.arts[i].parent = d[c][i].parent
                                 /\ a.arts[i].active
<1> DEFINE art(i) == [text |-> Read(d[c][i]), parent |-> d[c][i].parent, active |-> TRUE]
           arts == [i \in ids |-> art(i)]
           top == Max(ids \cup {0})
           a == Loaded(d[c], ids)
<1>1. IsFiniteSet(ids) /\ ids \subseteq Nat \ {0}
    <2>1. IsFiniteSet(DOMAIN d[c]) /\ DOMAIN d[c] \subseteq Nat \ {0}
        BY DEF IsStore
    <2>2. QED BY <2>1, FS_Subset
<1>2. a = [arts |-> arts, next |-> top + 1]
    BY DEF Loaded
<1>3. \A i \in ids : art(i) \in Article
    <2>1. ASSUME NEW i \in ids
          PROVE  art(i) \in Article
        <3>1. d[c][i] \in File
            BY DEF IsStore
        <3>2. d[c][i].text \in Texts \cup {Blank} /\ d[c][i].parent \in Nat
            BY <3>1 DEF File
        <3>3. Read(d[c][i]) \in Texts \cup {Blank}
            BY <3>2 DEF Read
        <3>4. QED BY <3>2, <3>3 DEF Article
    <2>2. QED BY <2>1
<1>4. top \in Nat /\ \A i \in ids : i <= top
    <2>1. IsFiniteSet(ids \cup {0}) /\ ids \cup {0} \in SUBSET Nat /\ ids \cup {0} # {}
        BY <1>1, FS_AddElement
    <2>2. top \in ids \cup {0} /\ \A j \in ids \cup {0} : top >= j
        BY <2>1, MaxFacts
    <2>3. QED BY <2>1, <2>2
<1> HIDE DEF top, art
<1>5. arts \in [ids -> Article] /\ DOMAIN arts = ids
    BY <1>3
<1>6. a.arts = arts /\ a.next = top + 1
    BY <1>2
<1>7. top + 1 \in Nat \ {0} /\ \A i \in ids : i < top + 1
    BY <1>1, <1>4
<1>8. Cat(a)
    BY <1>1, <1>2, <1>5, <1>6, <1>7 DEF Cat
<1>9. ASSUME NEW i \in ids
      PROVE  arts[i].text = Read(d[c][i]) /\ arts[i].parent = d[c][i].parent /\ arts[i].active
    BY DEF art
<1>10. QED BY <1>5, <1>6, <1>8, <1>9

\* A file that is there and not empty.
Readably(d, c, i) == c \in DOMAIN d /\ i \in Whole(d[c])

\* Memory after a start-up: nothing that is not on the disk, and all of it if
\* it fits.
LEMMA LoadFacts ==
    ASSUME NEW d, IsStore(d), Load(d)
    PROVE  /\ IsNews(mem')
           /\ \A c \in DOMAIN mem' : c \in DOMAIN d
           /\ \A c, i : c \in DOMAIN mem' /\ i \in DOMAIN mem'[c].arts =>
                /\ Filed(d, c, i)
                /\ mem'[c].arts[i].text = Read(d[c][i])
                /\ mem'[c].arts[i].parent = d[c][i].parent
                /\ mem'[c].arts[i].active
           /\ Fits(d) => \A c, i : Readably(d, c, i) =>
                c \in DOMAIN mem' /\ i \in DOMAIN mem'[c].arts
<1> DEFINE Ids(K, c) == {i \in DOMAIN d[c] : <<c, i>> \in K}
<1>1. PICK C \in SomeOf(DOMAIN d, MaxCategories) : \E K \in SUBSET Keys(Restrict(d, C)) :
          /\ \A c \in C : Ids(K, c) \in SomeOf(Whole(d[c]), MaxArticles)
          /\ mem' = [c \in C |-> Loaded(d[c], Ids(K, c))]
    BY DEF Load
<1>2. PICK K \in SUBSET Keys(Restrict(d, C)) :
          /\ \A c \in C : Ids(K, c) \in SomeOf(Whole(d[c]), MaxArticles)
          /\ mem' = [c \in C |-> Loaded(d[c], Ids(K, c))]
    BY <1>1
<1>3. MaxCategories \in Nat /\ MaxArticles \in Nat
    BY LimitsOK
<1>4. /\ C \subseteq DOMAIN d /\ IsFiniteSet(C) /\ Cardinality(C) <= MaxCategories
      /\ Cardinality(DOMAIN d) <= MaxCategories => C = DOMAIN d
    <2>1. IsFiniteSet(DOMAIN d)
        BY DEF IsStore
    <2>2. QED BY <1>1, <1>3, <2>1, SomeFacts
<1>5. \A c \in C : /\ Ids(K, c) \in SUBSET DOMAIN d[c] /\ Cardinality(Ids(K, c)) <= MaxArticles
                   /\ Cardinality(DOMAIN d[c]) <= MaxArticles => Ids(K, c) = Whole(d[c])
    <2>1. ASSUME NEW c \in C
          PROVE  /\ Ids(K, c) \in SUBSET DOMAIN d[c] /\ Cardinality(Ids(K, c)) <= MaxArticles
                 /\ Cardinality(DOMAIN d[c]) <= MaxArticles => Ids(K, c) = Whole(d[c])
        <3>1. Ids(K, c) \in SUBSET DOMAIN d[c]
            OBVIOUS
        <3>2. IsFiniteSet(DOMAIN d[c]) /\ Ids(K, c) \in SomeOf(Whole(d[c]), MaxArticles)
            BY <1>2, <1>4 DEF IsStore
        <3>3. Whole(d[c]) \in SUBSET DOMAIN d[c]
            BY DEF Whole
        <3> HIDE DEF Ids
        <3>4. IsFiniteSet(Whole(d[c])) /\ Cardinality(Whole(d[c])) <= Cardinality(DOMAIN d[c])
            BY <3>2, <3>3, FS_Subset
        <3>5. Cardinality(Whole(d[c])) \in Nat /\ Cardinality(DOMAIN d[c]) \in Nat
            BY <3>2, <3>4, FS_CardinalityType
        <3>6. /\ Cardinality(Ids(K, c)) <= MaxArticles
              /\ Cardinality(Whole(d[c])) <= MaxArticles => Ids(K, c) = Whole(d[c])
            BY <1>3, <3>2, <3>4, SomeFacts
        <3>7. QED BY <1>3, <3>1, <3>4, <3>5, <3>6
    <2>2. QED BY <2>1
<1> HIDE DEF Ids
<1>6. \A c \in C : LET a == Loaded(d[c], Ids(K, c)) IN
         /\ Cat(a) /\ DOMAIN a.arts = Ids(K, c)
         /\ \A i \in Ids(K, c) : /\ a.arts[i].text = Read(d[c][i])
                                 /\ a.arts[i].parent = d[c][i].parent
                                 /\ a.arts[i].active
    BY <1>4, <1>5, LoadedFacts
<1>7. DOMAIN mem' = C /\ \A c \in C : mem'[c] = Loaded(d[c], Ids(K, c))
    BY <1>2
<1>8. IsNews(mem')
    <2>1. C \subseteq Names
        BY <1>4 DEF IsStore
    <2>2. mem' = [c \in DOMAIN mem' |-> mem'[c]]
        BY <1>2
    <2>3. \A c \in DOMAIN mem' : Cat(mem'[c])
        BY <1>6, <1>7
    <2>4. QED BY <1>4, <1>7, <2>1, <2>2, <2>3 DEF IsNews
<1>9. ASSUME NEW c, NEW i, c \in DOMAIN mem', i \in DOMAIN mem'[c].arts
      PROVE  /\ Filed(d, c, i)
             /\ mem'[c].arts[i].text = Read(d[c][i])
             /\ mem'[c].arts[i].parent = d[c][i].parent
             /\ mem'[c].arts[i].active
    <2>1. c \in C /\ i \in Ids(K, c)
        BY <1>6, <1>7, <1>9
    <2>2. QED BY <1>4, <1>5, <1>6, <1>7, <2>1 DEF Filed
<1>10. ASSUME Fits(d), NEW c, NEW i, Readably(d, c, i)
       PROVE  c \in DOMAIN mem' /\ i \in DOMAIN mem'[c].arts
    <2>1. c \in C /\ i \in Ids(K, c)
        BY <1>4, <1>5, <1>10 DEF Fits, Readably
    <2>2. QED BY <1>6, <1>7, <2>1
<1>11. QED BY <1>4, <1>7, <1>8, <1>9, <1>10

-----------------------------------------------------------------------------
(* The steps. *)

\* An article in memory that stands for a, and a file that does.
Serves(m, k, a) ==
    /\ k[1] \in DOMAIN m /\ k[2] \in DOMAIN m[k[1]].arts
    /\ LET x == m[k[1]].arts[k[2]]
       IN  x.active /\ x.parent = a.parent /\ x.text \in {a.text, Blank}

Holds(d, k, a) ==
    /\ Readably(d, k[1], k[2])
    /\ LET x == d[k[1]][k[2]] IN x.parent = a.parent /\ x.text \in {a.text, Blank}

\* An article that is still in the YAML file, to be migrated or left there, or
\* that came from one that is not read whole.
Waits(k) == posted[k].old /\ (yaml.state = "here" \/ ~Readable)

LEMMA KeptIs ==
    Kept <=> (Fits(disk) => \A k \in DOMAIN posted :
                 \/ Waits(k)
                 \/ /\ (k \in failed /\ up) \/ Holds(disk, k, posted[k])
                    /\ up => Serves(mem, k, posted[k]))
    BY DEF Kept, Roomy, Fits, Waits, Holds, Serves, Active, OnDisk, Readably

LEMMA KeptNext ==
    Kept' <=> (Fits(disk') => \A k \in DOMAIN posted' :
                 \/ posted'[k].old /\ (yaml'.state = "here" \/ ~Readable')
                 \/ /\ (k \in failed' /\ up') \/ Holds(disk', k, posted'[k])
                    /\ up' => Serves(mem', k, posted'[k]))
    BY DEF Kept, Roomy, Fits, Holds, Serves, Active, OnDisk, Readably

\* Whether the YAML file can be read whole never changes.
LEMMA ReadableStays ==
    ASSUME yaml'.cats = yaml.cats, yaml'.parses = yaml.parses
    PROVE  Readable' <=> Readable
    BY DEF Readable

LEMMA UnwrittenFacts ==
    ASSUME NEW k
    PROVE  /\ DOMAIN Unwritten(k) = DOMAIN posted \ k
           /\ \A x \in DOMAIN posted \ k : Unwritten(k)[x] = posted[x]
    BY DEF Unwritten, Restrict

LEMMA NoneFacts ==
    IsNews(None) /\ IsStore(None) /\ DOMAIN None = {}
<1>1. IsFiniteSet({}) /\ Cardinality({}) = 0
    BY FS_EmptySet
<1>2. DOMAIN None = {} /\ None = [c \in DOMAIN None |-> None[c]]
    BY DEF None
<1>3. 0 <= MaxCategories
    BY LimitsOK
<1>4. QED BY <1>1, <1>2, <1>3 DEF IsNews, IsStore

\* What a save writes stands for an article that memory served, and whatever
\* else stood for one still does.
LEMMA StillHeld ==
    ASSUME NEW d, NEW m, Source(m), NEW w \in SUBSET Writes(m), NEW k, NEW a,
           k = <<k[1], k[2]>>, k[2] # 0, k \in w => Serves(m, k, a),
           k \in w \/ Holds(d, k, a)
    PROVE  Holds(Written(d, m, w), k, a)
<1> DEFINE e == Written(d, m, w)
           c == k[1]
           i == k[2]
<1>1. \A b \in DOMAIN m : 0 \notin DOMAIN m[b].arts
    BY DEF Source
<1>2. /\ \A b, j : Filed(d, b, j) => Filed(e, b, j)
      /\ \A b, j : <<b, j>> \in w /\ j # 0 => Filed(e, b, j) /\ e[b][j] = FileOf(m, b, j)
      /\ \A b, j : Filed(d, b, j) /\ <<b, j>> \notin w => e[b][j] = d[b][j]
    BY <1>1, WrittenFacts
<1> HIDE DEF e
<1>3. CASE k \in w
    <2>1. Filed(e, c, i) /\ e[c][i] = FileOf(m, c, i)
        BY <1>2, <1>3
    <2>2. e[c][i].parent = a.parent /\ e[c][i].text \in {a.text, Blank}
        BY <1>3, <2>1 DEF FileOf, Serves
    <2>3. e[c][i].form = "spaced"
        BY <2>1 DEF FileOf
    <2>4. QED BY <2>1, <2>2, <2>3 DEF Holds, Readably, Whole, Filed, e
<1>4. CASE k \notin w
    <2>1. /\ Filed(d, c, i) /\ d[c][i].parent = a.parent /\ d[c][i].text \in {a.text, Blank}
          /\ d[c][i].form # "empty"
        BY <1>4 DEF Holds, Readably, Whole, Filed
    <2>2. Filed(e, c, i) /\ e[c][i] = d[c][i]
        BY <1>2, <1>4, <2>1
    <2>3. QED BY <2>1, <2>2 DEF Holds, Readably, Whole, Filed, e
<1>5. QED BY <1>3, <1>4

\* Writes that end, some of them failing: what is written is there, and if the
\* directory fits it has fitted before.
LEMMA TriedFacts ==
    ASSUME IsStore(disk), NEW m, Source(m), NEW w \in SUBSET Writes(m), Tried(m, w)
    PROVE  /\ IsStore(disk') /\ (Fits(disk') => Fits(disk))
           /\ \A k, a : k = <<k[1], k[2]>> /\ k[2] # 0 /\ k \in w /\ Serves(m, k, a)
                        => Holds(disk', k, a)
<1> DEFINE v == Written(disk, m, w)
<1>1. IsStore(v)
    BY WrittenStore
<1>2. \A c \in DOMAIN m : 0 \notin DOMAIN m[c].arts
    BY DEF Source
<1>3. DOMAIN disk \subseteq DOMAIN v /\ \A c, i : Filed(disk, c, i) => Filed(v, c, i)
    BY <1>2, WrittenFacts
<1>4. \A k, a : k = <<k[1], k[2]>> /\ k[2] # 0 /\ k \in w /\ Serves(m, k, a) => Holds(v, k, a)
    BY StillHeld
<1> HIDE DEF v
<1>5. /\ IsStore(disk') /\ DOMAIN disk' = DOMAIN v
      /\ \A c, i : Filed(v, c, i) => Filed(disk', c, i)
      /\ \A k \in w : Filed(v, k[1], k[2]) => disk'[k[1]][k[2]] = v[k[1]][k[2]]
    <2>1. CASE w = Writes(m)
        <3>1. disk' = v
            BY <2>1 DEF Tried, v
        <3>2. QED BY <1>1, <3>1
    <2>2. CASE w # Writes(m)
        <3>1. PICK how \in {"unopened", "empty", "short"} : disk' = Spoilt(v, Writes(m) \ w, how)
            BY <2>2 DEF Tried, v
        <3>2. PICK u : u = Writes(m) \ w
            OBVIOUS
        <3>3. u \in SUBSET Writes(m) /\ disk' = Spoilt(v, u, how) /\ \A k \in w : k \notin u
            BY <3>1, <3>2
        <3>4. /\ IsStore(disk') /\ DOMAIN disk' = DOMAIN v
              /\ \A c, i : Filed(v, c, i) => Filed(disk', c, i)
              /\ \A c, i : Filed(v, c, i) /\ <<c, i>> \notin u => disk'[c][i] = v[c][i]
            BY <1>1, <3>3, SpoiltFacts
        <3>5. \A k \in w : k = <<k[1], k[2]>>
            BY WritesAre
        <3>6. QED BY <3>3, <3>4, <3>5
    <2>3. QED BY <2>1, <2>2
<1>6. Fits(disk') => Fits(disk)
    BY <1>3, <1>5, FittedBefore
<1>7. ASSUME NEW k, NEW a, k = <<k[1], k[2]>>, k[2] # 0, k \in w, Serves(m, k, a)
      PROVE  Holds(disk', k, a)
    <2>1. Holds(v, k, a)
        BY <1>4, <1>7
    <2>2. Filed(v, k[1], k[2])
        BY <2>1 DEF Holds, Readably, Whole, Filed
    <2>3. Filed(disk', k[1], k[2]) /\ disk'[k[1]][k[2]] = v[k[1]][k[2]]
        BY <1>5, <1>7, <2>2
    <2>4. QED BY <2>1, <2>3 DEF Holds, Readably, Whole, Filed
<1>8. QED BY <1>5, <1>6, <1>7

\* A request that changes memory to m and the accepted articles to p.
LEMMA SaveKeeps ==
    ASSUME IInv, NEW m, NEW p, Save(m, p), IsNews(m),
           \A k \in DOMAIN p : k = <<k[1], k[2]>> /\ k[2] # 0,
           Fits(disk) => \A k \in DOMAIN p :
              (k \in DOMAIN posted /\ p[k] = posted[k] /\ Waits(k)) \/ Serves(m, k, p[k]),
           Fits(disk) => \A k \in DOMAIN posted :
              Waits(k) \/ (k \in Writes(m) => Serves(m, k, posted[k]))
    PROVE  IInv'
<1>1. up /\ made' = made /\ yaml' = yaml
    BY DEF Save
<1>2. PICK w \in SUBSET Writes(m) :
         \/ /\ Tried(m, w) /\ failed' = (failed \ w) \cup (Writes(m) \ w)
            /\ up' = up /\ mem' = m /\ posted' = p
         \/ /\ disk' = Written(disk, m, w) /\ failed' = {}
            /\ up' = FALSE /\ mem' = None /\ posted' = Unwritten(failed \ w)
    BY DEF Save, Dies
<1>3. made /\ up \in BOOLEAN /\ IsStore(disk) /\ Source(m)
    BY <1>1, NewsIsSource DEF IInv, Types, Unmade
<1>4. \A c \in DOMAIN m : 0 \notin DOMAIN m[c].arts
    BY <1>3 DEF Source
<1>5. Readable' <=> Readable
    BY <1>1, ReadableStays
<1>6. Unmade'
    BY <1>1, <1>3 DEF Unmade
<1>7. CASE /\ Tried(m, w) /\ failed' = (failed \ w) \cup (Writes(m) \ w)
           /\ up' = up /\ mem' = m /\ posted' = p
    <2>1. /\ IsStore(disk') /\ (Fits(disk') => Fits(disk))
          /\ \A k, a : k = <<k[1], k[2]>> /\ k[2] # 0 /\ k \in w /\ Serves(m, k, a)
                       => Holds(disk', k, a)
        BY <1>3, <1>7, TriedFacts
    <2>2. Types'
        BY <1>1, <1>3, <1>7, <2>1 DEF IInv, Types
    <2>3. ASSUME Fits(disk'), NEW k \in DOMAIN p
          PROVE  \/ p[k].old /\ (yaml.state = "here" \/ ~Readable)
                 \/ (k \in failed' \/ Holds(disk', k, p[k])) /\ Serves(m, k, p[k])
        <3>1. CASE k \in DOMAIN posted /\ p[k] = posted[k] /\ Waits(k)
            BY <3>1 DEF Waits
        <3>2. CASE Serves(m, k, p[k])
            <4>1. k = <<k[1], k[2]>> /\ k[2] # 0
                OBVIOUS
            <4>2. k \in Writes(m)
                BY <3>2, <4>1, ToWrite DEF Serves
            <4>3. CASE k \in w
                BY <2>1, <3>2, <4>1, <4>3
            <4>4. CASE k \notin w
                BY <1>7, <3>2, <4>2, <4>4
            <4>5. QED BY <4>3, <4>4
        <3>3. QED BY <2>1, <2>3, <3>1, <3>2
    <2>4. Kept'
        BY <1>1, <1>5, <1>7, <2>3, KeptNext
    <2>5. QED BY <1>6, <2>2, <2>4 DEF IInv
<1>8. CASE /\ disk' = Written(disk, m, w) /\ failed' = {}
           /\ up' = FALSE /\ mem' = None /\ posted' = Unwritten(failed \ w)
    <2>1. IsStore(disk')
        BY <1>3, <1>8, WrittenStore
    <2>2. Fits(disk') => Fits(disk)
        <3>1. DOMAIN disk \subseteq DOMAIN disk' /\ \A c, i : Filed(disk, c, i) => Filed(disk', c, i)
            BY <1>4, <1>8, WrittenFacts
        <3>2. QED BY <1>3, <2>1, <3>1, FittedBefore
    <2>3. /\ DOMAIN posted' = DOMAIN posted \ (failed \ w)
          /\ \A k \in DOMAIN posted' : posted'[k] = posted[k]
        BY <1>8, UnwrittenFacts
    <2>4. Types'
        BY <1>1, <1>3, <1>8, <2>1, <2>3, NoneFacts DEF IInv, Types
    <2>5. ASSUME Fits(disk'), NEW k \in DOMAIN posted'
          PROVE  Waits(k) \/ Holds(disk', k, posted[k])
        <3>1. CASE ~Waits(k)
            <4>1. k \in DOMAIN posted /\ (k \in failed => k \in w)
                BY <2>3
            <4>2. /\ k \in failed \/ Holds(disk, k, posted[k])
                  /\ k \in Writes(m) => Serves(m, k, posted[k])
                BY <2>2, <2>5, <3>1, <4>1, KeptIs DEF IInv
            <4>3. k = <<k[1], k[2]>> /\ k[2] # 0
                BY <4>1 DEF IInv, Types
            <4>4. (k \in w => Serves(m, k, posted[k])) /\ (k \in w \/ Holds(disk, k, posted[k]))
                BY <4>1, <4>2
            <4>5. Holds(Written(disk, m, w), k, posted[k])
                BY <1>3, <4>3, <4>4, StillHeld
            <4>6. QED BY <1>8, <4>5
        <3>2. QED BY <3>1
    <2>6. Kept'
        BY <1>1, <1>5, <1>8, <2>3, <2>5, KeptNext DEF Waits
    <2>7. QED BY <1>6, <2>4, <2>6 DEF IInv
<1>9. QED BY <1>2, <1>7, <1>8

-----------------------------------------------------------------------------
(* What the requests make of memory. *)

LEMMA CatPosted ==
    ASSUME NEW a, Cat(a), Cardinality(DOMAIN a.arts) < MaxArticles, NEW x \in Article
    PROVE  Cat([arts |-> With(a.arts, a.next, x), next |-> a.next + 1])
<1> DEFINE f == With(a.arts, a.next, x)
           S == DOMAIN a.arts \cup {a.next}
           b == [arts |-> f, next |-> a.next + 1]
<1>1. /\ a.next \in Nat \ {0} /\ IsFiniteSet(DOMAIN a.arts) /\ DOMAIN a.arts \subseteq Nat \ {0}
      /\ a.arts \in [DOMAIN a.arts -> Article] /\ \A i \in DOMAIN a.arts : i < a.next
    BY DEF Cat
<1>2. DOMAIN f = S /\ f \in [S -> Article]
    BY <1>1 DEF With
<1>3. IsFiniteSet(S) /\ Cardinality(S) <= MaxArticles
    <2>1. a.next \notin DOMAIN a.arts
        BY <1>1
    <2>2. IsFiniteSet(S) /\ Cardinality(S) = Cardinality(DOMAIN a.arts) + 1
        BY <1>1, <2>1, FS_AddElement
    <2>3. Cardinality(DOMAIN a.arts) \in Nat /\ MaxArticles \in Nat
        BY <1>1, FS_CardinalityType, LimitsOK
    <2>4. QED BY <2>2, <2>3
<1>4. S \subseteq Nat \ {0} /\ a.next + 1 \in Nat \ {0} /\ \A i \in S : i < a.next + 1
    BY <1>1
<1> HIDE DEF f, S
<1>5. b.arts = f /\ b.next = a.next + 1 /\ b = [arts |-> b.arts, next |-> b.next]
    OBVIOUS
<1> HIDE DEF b
<1>6. Cat(b)
    BY <1>2, <1>3, <1>4, <1>5 DEF Cat
<1>7. QED BY <1>6 DEF b, f

LEMMA CatDeleted ==
    ASSUME NEW a, Cat(a), NEW i \in DOMAIN a.arts
    PROVE  LET b == [a EXCEPT !.arts[i].active = FALSE]
           IN  /\ Cat(b) /\ DOMAIN b.arts = DOMAIN a.arts
               /\ \A j \in DOMAIN a.arts : j # i => b.arts[j] = a.arts[j]
               /\ ~b.arts[i].active
<1> DEFINE x == [a.arts[i] EXCEPT !.active = FALSE]
           f == [a.arts EXCEPT ![i] = x]
           b == [a EXCEPT !.arts[i].active = FALSE]
<1>1. /\ a = [arts |-> a.arts, next |-> a.next]
      /\ a.next \in Nat \ {0} /\ IsFiniteSet(DOMAIN a.arts) /\ DOMAIN a.arts \subseteq Nat \ {0}
      /\ a.arts \in [DOMAIN a.arts -> Article] /\ \A j \in DOMAIN a.arts : j < a.next
      /\ Cardinality(DOMAIN a.arts) <= MaxArticles
    BY DEF Cat
<1>2. x \in Article /\ ~x.active
    <2>1. a.arts[i] \in Article
        BY <1>1
    <2>2. QED BY <2>1 DEF Article
<1> HIDE DEF x
<1>3. f \in [DOMAIN a.arts -> Article] /\ DOMAIN f = DOMAIN a.arts /\ f[i] = x
      /\ \A j \in DOMAIN a.arts : j # i => f[j] = a.arts[j]
    BY <1>1, <1>2
<1>4. b = [a EXCEPT !.arts = f]
    BY <1>1 DEF x
<1> HIDE DEF f
<1>5. b.arts = f /\ b.next = a.next /\ b = [arts |-> b.arts, next |-> b.next]
    <2>1. \A y, z, g : [[arts |-> y, next |-> z] EXCEPT !.arts = g] = [arts |-> g, next |-> z]
        OBVIOUS
    <2>2. a = [arts |-> a.arts, next |-> a.next]
        BY <1>1
    <2> HIDE DEF b
    <2>3. b = [arts |-> f, next |-> a.next]
        BY <1>4, <2>1, <2>2, Zenon
    <2>4. QED BY <2>3
<1> HIDE DEF b
<1>6. Cat(b)
    BY <1>1, <1>3, <1>5 DEF Cat
<1>7. QED BY <1>2, <1>3, <1>5, <1>6 DEF b

LEMMA NewsExcept ==
    ASSUME NEW m, IsNews(m), NEW c \in DOMAIN m, NEW b, Cat(b)
    PROVE  IsNews([m EXCEPT ![c] = b])
<1> DEFINE n == [m EXCEPT ![c] = b]
<1>1. DOMAIN n = DOMAIN m /\ n = [d \in DOMAIN n |-> n[d]]
    BY DEF IsNews
<1>2. \A d \in DOMAIN m : Cat(n[d])
    BY DEF IsNews
<1> HIDE DEF n
<1>3. IsNews(n)
    BY <1>1, <1>2 DEF IsNews
<1>4. QED BY <1>3 DEF n

LEMMA NewsCreated ==
    ASSUME NEW m, IsNews(m), NEW c \in Names, c \notin DOMAIN m,
           Cardinality(DOMAIN m) < MaxCategories
    PROVE  IsNews(With(m, c, [arts |-> None, next |-> 1]))
<1> DEFINE b == [arts |-> None, next |-> 1]
           n == With(m, c, b)
<1>1. Cat(b)
    <2>1. DOMAIN None = {} /\ None \in [{} -> Article]
        BY DEF None
    <2>2. IsFiniteSet({}) /\ Cardinality({}) = 0 /\ MaxArticles \in Nat
        BY FS_EmptySet, LimitsOK
    <2>3. b.arts = None /\ b.next = 1 /\ b = [arts |-> b.arts, next |-> b.next]
        OBVIOUS
    <2> HIDE DEF b
    <2>4. QED BY <2>1, <2>2, <2>3 DEF Cat
<1> HIDE DEF b
<1>2. DOMAIN n = DOMAIN m \cup {c} /\ n = [d \in DOMAIN n |-> n[d]]
      /\ \A d \in DOMAIN n : n[d] = b \/ (d \in DOMAIN m /\ n[d] = m[d])
    BY DEF With
<1>3. IsFiniteSet(DOMAIN m \cup {c}) /\ Cardinality(DOMAIN m \cup {c}) <= MaxCategories
    <2>1. IsFiniteSet(DOMAIN m)
        BY DEF IsNews
    <2>2. IsFiniteSet(DOMAIN m \cup {c}) /\ Cardinality(DOMAIN m \cup {c}) = Cardinality(DOMAIN m) + 1
        BY <2>1, FS_AddElement
    <2>3. Cardinality(DOMAIN m) \in Nat /\ MaxCategories \in Nat
        BY <2>1, FS_CardinalityType, LimitsOK
    <2>4. QED BY <2>2, <2>3
<1> HIDE DEF n
<1>4. \A d \in DOMAIN n : Cat(n[d])
    BY <1>1, <1>2 DEF IsNews
<1>5. IsNews(n)
    BY <1>2, <1>3, <1>4 DEF IsNews
<1>6. QED BY <1>5 DEF n, b

LEMMA NewsRestricted ==
    ASSUME NEW m, IsNews(m), NEW S \in SUBSET DOMAIN m
    PROVE  IsNews(Restrict(m, S))
<1> DEFINE n == Restrict(m, S)
<1>1. DOMAIN n = S /\ n = [d \in DOMAIN n |-> n[d]] /\ \A d \in S : n[d] = m[d]
    BY DEF Restrict
<1>2. IsFiniteSet(S) /\ Cardinality(S) <= MaxCategories
    <2>1. IsFiniteSet(DOMAIN m) /\ Cardinality(DOMAIN m) <= MaxCategories
        BY DEF IsNews
    <2>2. IsFiniteSet(S) /\ Cardinality(S) <= Cardinality(DOMAIN m)
        BY <2>1, FS_Subset
    <2>3. Cardinality(DOMAIN m) \in Nat /\ Cardinality(S) \in Nat /\ MaxCategories \in Nat
        BY <2>1, <2>2, FS_CardinalityType, LimitsOK
    <2>4. QED BY <2>1, <2>2, <2>3
<1> HIDE DEF n
<1>3. IsNews(n)
    BY <1>1, <1>2 DEF IsNews
<1>4. QED BY <1>3 DEF n

-----------------------------------------------------------------------------
(* Each request, by what it saves. *)

LEMMA ServedNow ==
    ASSUME IInv, up, Fits(disk), NEW k \in DOMAIN posted, ~Waits(k)
    PROVE  Serves(mem, k, posted[k])
    BY KeptIs DEF IInv

LEMMA PostNewsArtKeeps ==
    ASSUME IInv, NEW c \in Names, NEW p \in Parents, NEW t \in Texts, PostNewsArt(c, p, t)
    PROVE  IInv'
<1> DEFINE n == mem[c].next
           x == [text |-> t, parent |-> p, active |-> TRUE]
           y == [text |-> t, parent |-> p, old |-> FALSE]
           b == [arts |-> With(mem[c].arts, n, x), next |-> n + 1]
           m == [mem EXCEPT ![c] = b]
           q == With(posted, <<c, n>>, y)
<1>1. c \in DOMAIN mem /\ Cardinality(DOMAIN mem[c].arts) < MaxArticles
    BY DEF PostNewsArt
<1>2. IsNews(mem) /\ Cat(mem[c]) /\ \A k \in DOMAIN posted : k = <<k[1], k[2]>> /\ k[2] # 0
    BY <1>1 DEF IInv, Types, IsNews
<1>3. Posted(c, p, t) = m
    BY <1>1 DEF Posted
<1>4. Save(m, q) /\ up
    <2>1. Save(Posted(c, p, t), q)
        BY DEF PostNewsArt
    <2> HIDE DEF m, q
    <2>2. Save(m, q)
        BY <1>3, <2>1
    <2>3. QED BY <2>2 DEF Save
<1>5. x \in Article /\ x.parent = p /\ x.text = t /\ x.active /\ y.parent = p /\ y.text = t
    BY ParentsOK DEF Article
<1>6. Cat(b)
    <2> HIDE DEF x
    <2>1. QED BY <1>1, <1>2, <1>5, CatPosted
<1>7. n \in Nat \ {0} /\ n \notin DOMAIN mem[c].arts
    BY <1>2 DEF Cat
<1>8. DOMAIN b.arts = DOMAIN mem[c].arts \cup {n} /\ b.arts[n] = x
      /\ \A i \in DOMAIN mem[c].arts : b.arts[i] = mem[c].arts[i]
    BY <1>7 DEF With
<1>9. DOMAIN q = DOMAIN posted \cup {<<c, n>>} /\ q[<<c, n>>] = y
      /\ \A k \in DOMAIN posted : k # <<c, n>> => q[k] = posted[k]
    BY DEF With
<1> HIDE DEF b, q, x, y, n
<1>10. IsNews(m)
    BY <1>1, <1>2, <1>6, NewsExcept
<1>11. DOMAIN m = DOMAIN mem /\ m[c] = b /\ \A d \in DOMAIN mem : d # c => m[d] = mem[d]
    BY <1>1
<1> HIDE DEF m
<1>12. \A k, a : Serves(mem, k, a) => Serves(m, k, a)
    <2>1. ASSUME NEW k, NEW a, Serves(mem, k, a)
          PROVE  Serves(m, k, a)
        <3>1. CASE k[1] = c
            BY <1>8, <1>11, <2>1, <3>1 DEF Serves
        <3>2. CASE k[1] # c
            BY <1>11, <2>1, <3>2 DEF Serves
        <3>3. QED BY <3>1, <3>2
    <2>2. QED BY <2>1
<1>13. Serves(m, <<c, n>>, y)
    BY <1>1, <1>5, <1>8, <1>11 DEF Serves
<1>14. \A k \in DOMAIN q : k = <<k[1], k[2]>> /\ k[2] # 0
    BY <1>2, <1>7, <1>9
<1>15. ASSUME Fits(disk), NEW k \in DOMAIN q
       PROVE  (k \in DOMAIN posted /\ q[k] = posted[k] /\ Waits(k)) \/ Serves(m, k, q[k])
    <2>1. CASE k = <<c, n>>
        BY <1>9, <1>13, <2>1
    <2>2. CASE k # <<c, n>>
        BY <1>4, <1>9, <1>12, <1>15, <2>2, ServedNow
    <2>3. QED BY <2>1, <2>2
<1>16. ASSUME Fits(disk), NEW k \in DOMAIN posted
       PROVE  Waits(k) \/ (k \in Writes(m) => Serves(m, k, posted[k]))
    BY <1>4, <1>12, <1>16, ServedNow
<1>17. QED BY <1>4, <1>10, <1>14, <1>15, <1>16, SaveKeeps

LEMMA NewNewsCatKeeps ==
    ASSUME IInv, NEW c \in Names, NewNewsCat(c)
    PROVE  IInv'
<1> DEFINE m == With(mem, c, [arts |-> None, next |-> 1])
<1>1. c \notin DOMAIN mem /\ Cardinality(DOMAIN mem) < MaxCategories
    BY DEF NewNewsCat
<1>2. IsNews(mem) /\ \A k \in DOMAIN posted : k = <<k[1], k[2]>> /\ k[2] # 0
    BY DEF IInv, Types
<1>3. Save(m, posted) /\ up
    BY DEF NewNewsCat, Created, Save
<1>4. IsNews(m)
    BY <1>1, <1>2, NewsCreated
<1>5. DOMAIN m = DOMAIN mem \cup {c} /\ \A d \in DOMAIN mem : m[d] = mem[d]
    BY <1>1 DEF With
<1> HIDE DEF m
<1>6. \A k, a : Serves(mem, k, a) => Serves(m, k, a)
    BY <1>5 DEF Serves
<1>7. ASSUME Fits(disk), NEW k \in DOMAIN posted
      PROVE  Waits(k) \/ Serves(m, k, posted[k])
    BY <1>3, <1>6, <1>7, ServedNow
<1>8. QED BY <1>2, <1>3, <1>4, <1>7, SaveKeeps

LEMMA DelNewsItemKeeps ==
    ASSUME IInv, NEW c \in Names, DelNewsItem(c)
    PROVE  IInv'
<1> DEFINE m == Restrict(mem, DOMAIN mem \ {c})
           q == Restrict(posted, {k \in DOMAIN posted : k[1] # c})
<1>1. IsNews(mem) /\ \A k \in DOMAIN posted : k = <<k[1], k[2]>> /\ k[2] # 0
    BY DEF IInv, Types
<1>2. Save(m, q) /\ up
    BY DEF DelNewsItem, ItemDeleted, Save
<1>3. IsNews(m)
    BY <1>1, NewsRestricted
<1>4. DOMAIN m = DOMAIN mem \ {c} /\ \A d \in DOMAIN m : m[d] = mem[d]
    BY DEF Restrict
<1>5. \A k \in DOMAIN q : k \in DOMAIN posted /\ k[1] # c /\ q[k] = posted[k]
    BY DEF Restrict
<1> HIDE DEF m, q
<1>6. \A k, a : Serves(mem, k, a) /\ k[1] # c => Serves(m, k, a)
    BY <1>4 DEF Serves
<1>7. ASSUME Fits(disk), NEW k \in DOMAIN q
      PROVE  (k \in DOMAIN posted /\ q[k] = posted[k] /\ Waits(k)) \/ Serves(m, k, q[k])
    BY <1>2, <1>5, <1>6, <1>7, ServedNow
<1>8. ASSUME Fits(disk), NEW k \in DOMAIN posted
      PROVE  Waits(k) \/ (k \in Writes(m) => Serves(m, k, posted[k]))
    <2>1. ASSUME k \in Writes(m), ~Waits(k)
          PROVE  Serves(m, k, posted[k])
        <3>1. k[1] # c
            BY <1>4, <2>1, WritesAre
        <3>2. QED BY <1>2, <1>6, <1>8, <2>1, <3>1, ServedNow
    <2>2. QED BY <2>1
<1>9. \A k \in DOMAIN q : k = <<k[1], k[2]>> /\ k[2] # 0
    BY <1>1, <1>5
<1>10. QED BY <1>2, <1>3, <1>7, <1>8, <1>9, SaveKeeps

LEMMA DelNewsArtKeeps ==
    ASSUME IInv, NEW c \in Names, NEW i \in 1 .. MaxArticles, DelNewsArt(c, i)
    PROVE  IInv'
<1> DEFINE b == [mem[c] EXCEPT !.arts[i].active = FALSE]
           m == [mem EXCEPT ![c] = b]
           q == Restrict(posted, DOMAIN posted \ {<<c, i>>})
<1>1. c \in DOMAIN mem /\ i \in DOMAIN mem[c].arts
    BY DEF DelNewsArt
<1>2. IsNews(mem) /\ Cat(mem[c]) /\ \A k \in DOMAIN posted : k = <<k[1], k[2]>> /\ k[2] # 0
    BY <1>1 DEF IInv, Types, IsNews
<1>3. ArticleDeleted(c, i) = m
    BY <1>1 DEF ArticleDeleted
<1>4. Save(m, q) /\ up
    <2>1. Save(ArticleDeleted(c, i), q)
        BY DEF DelNewsArt
    <2> HIDE DEF m, q
    <2>2. Save(m, q)
        BY <1>3, <2>1
    <2>3. QED BY <2>2 DEF Save
<1>5. /\ Cat(b) /\ DOMAIN b.arts = DOMAIN mem[c].arts
      /\ \A j \in DOMAIN mem[c].arts : j # i => b.arts[j] = mem[c].arts[j]
      /\ ~b.arts[i].active
    BY <1>1, <1>2, CatDeleted
<1>6. \A k \in DOMAIN q : k \in DOMAIN posted /\ k # <<c, i>> /\ q[k] = posted[k]
    BY DEF Restrict
<1> HIDE DEF b, q
<1>7. IsNews(m)
    BY <1>1, <1>2, <1>5, NewsExcept
<1>8. DOMAIN m = DOMAIN mem /\ m[c] = b /\ \A d \in DOMAIN mem : d # c => m[d] = mem[d]
    BY <1>1
<1> HIDE DEF m
<1>9. \A k, a : Serves(mem, k, a) /\ k = <<k[1], k[2]>> /\ k # <<c, i>> => Serves(m, k, a)
    <2>1. ASSUME NEW k, NEW a, Serves(mem, k, a), k = <<k[1], k[2]>>, k # <<c, i>>
          PROVE  Serves(m, k, a)
        <3>1. CASE k[1] = c
            <4>1. k[2] # i
                BY <2>1, <3>1
            <4>2. QED BY <1>5, <1>8, <2>1, <3>1, <4>1 DEF Serves
        <3>2. CASE k[1] # c
            BY <1>8, <2>1, <3>2 DEF Serves
        <3>3. QED BY <3>1, <3>2
    <2>2. QED BY <2>1
<1>10. ASSUME Fits(disk), NEW k \in DOMAIN q
       PROVE  (k \in DOMAIN posted /\ q[k] = posted[k] /\ Waits(k)) \/ Serves(m, k, q[k])
    BY <1>2, <1>4, <1>6, <1>9, <1>10, ServedNow
<1>11. ASSUME Fits(disk), NEW k \in DOMAIN posted
       PROVE  Waits(k) \/ (k \in Writes(m) => Serves(m, k, posted[k]))
    <2>1. ASSUME k \in Writes(m), ~Waits(k)
          PROVE  Serves(m, k, posted[k])
        <3>1. k = <<k[1], k[2]>> /\ k[2] # 0
            BY <1>2
        <3>2. k[2] \in DOMAIN m[k[1]].arts /\ m[k[1]].arts[k[2]].active
            BY <2>1, <3>1, WritesAre
        <3>3. k # <<c, i>>
            BY <1>5, <1>8, <3>2
        <3>4. QED BY <1>4, <1>9, <1>11, <2>1, <3>1, <3>3, ServedNow
    <2>2. QED BY <2>1
<1>12. \A k \in DOMAIN q : k = <<k[1], k[2]>> /\ k[2] # 0
    BY <1>2, <1>6
<1>13. QED BY <1>4, <1>7, <1>10, <1>11, <1>12, SaveKeeps

-----------------------------------------------------------------------------
(* The ends of the process, and its starts. *)

LEMMA CrashKeeps ==
    ASSUME IInv, Crash
    PROVE  IInv'
<1>1. /\ up /\ up' = FALSE /\ mem' = None
      /\ made' = made /\ disk' = disk /\ yaml' = yaml /\ posted' = Unwritten(failed)
    <2>1. failed \ {} = failed
        OBVIOUS
    <2>2. QED BY <2>1 DEF Crash, Dies
<1>2. /\ DOMAIN posted' = DOMAIN posted \ failed
      /\ \A k \in DOMAIN posted' : posted'[k] = posted[k]
    BY <1>1, UnwrittenFacts
<1>3. Types'
    BY <1>1, <1>2, NoneFacts DEF IInv, Types
<1>4. Unmade'
    BY <1>1 DEF IInv, Unmade
<1>5. Readable' <=> Readable
    BY <1>1, ReadableStays
<1>6. Kept'
    BY <1>1, <1>2, <1>5, KeptIs, KeptNext DEF IInv, Waits
<1>7. QED BY <1>3, <1>4, <1>6 DEF IInv

\* A start-up that loads the directory d serves what d holds.
LEMMA LoadServes ==
    ASSUME NEW d, IsStore(d), Load(d)
    PROVE  /\ IsNews(mem')
           /\ Fits(d) => \A k, a : Holds(d, k, a) => Serves(mem', k, a)
<1>1. /\ IsNews(mem')
      /\ \A c, i : c \in DOMAIN mem' /\ i \in DOMAIN mem'[c].arts =>
           /\ mem'[c].arts[i].text = Read(d[c][i])
           /\ mem'[c].arts[i].parent = d[c][i].parent
           /\ mem'[c].arts[i].active
      /\ Fits(d) => \A c, i : Readably(d, c, i) => c \in DOMAIN mem' /\ i \in DOMAIN mem'[c].arts
    BY LoadFacts
<1>2. \A f : Read(f) \in {f.text, Blank}
    BY DEF Read
<1>3. ASSUME Fits(d), NEW k, NEW a, Holds(d, k, a)
      PROVE  Serves(mem', k, a)
    <2> DEFINE c == k[1]
               i == k[2]
    <2>1. Readably(d, c, i) /\ d[c][i].parent = a.parent /\ d[c][i].text \in {a.text, Blank}
        BY <1>3 DEF Holds
    <2>2. c \in DOMAIN mem' /\ i \in DOMAIN mem'[c].arts
        BY <1>1, <1>3, <2>1
    <2>3. /\ mem'[c].arts[i].text = Read(d[c][i])
          /\ mem'[c].arts[i].parent = d[c][i].parent /\ mem'[c].arts[i].active
        BY <1>1, <2>2
    <2>4. mem'[c].arts[i].text \in {a.text, Blank}
        BY <1>2, <2>1, <2>3
    <2>5. QED BY <2>1, <2>2, <2>3, <2>4 DEF Serves
<1>4. QED BY <1>1, <1>3

LEMMA StartFromDirectoryKeeps ==
    ASSUME IInv, StartFromDirectory
    PROVE  IInv'
<1>1. /\ ~up /\ made /\ up' = TRUE /\ Load(disk)
      /\ made' = made /\ disk' = disk /\ yaml' = yaml /\ posted' = posted
    BY DEF StartFromDirectory
<1>2. IsStore(disk)
    BY DEF IInv, Types
<1>3. /\ IsNews(mem')
      /\ Fits(disk) => \A k, a : Holds(disk, k, a) => Serves(mem', k, a)
    BY <1>1, <1>2, LoadServes
<1>4. Types'
    BY <1>1, <1>3 DEF IInv, Types
<1>5. Unmade'
    BY <1>1 DEF Unmade
<1>6. ASSUME Fits(disk), NEW k \in DOMAIN posted
      PROVE  Waits(k) \/ (Holds(disk, k, posted[k]) /\ Serves(mem', k, posted[k]))
    BY <1>1, <1>3, <1>6, KeptIs DEF IInv
<1>7. Readable' <=> Readable
    BY <1>1, ReadableStays
<1>8. Kept'
    BY <1>1, <1>6, <1>7, KeptNext DEF Waits
<1>9. QED BY <1>4, <1>5, <1>8 DEF IInv

\* The first of finitely many numbers; all of them, if there is room for all.
LEMMA FirstFacts ==
    ASSUME NEW S \in SUBSET Nat, IsFiniteSet(S), NEW n \in Nat
    PROVE  First(S, n) \in SUBSET S /\ (Cardinality(S) <= n => First(S, n) = S)
<1>1. First(S, n) \in SUBSET S
    BY DEF First
<1>2. ASSUME Cardinality(S) <= n, NEW i \in S
      PROVE  Cardinality({j \in S : j < i}) < n
    <2> DEFINE B == {j \in S : j < i}
    <2>1. B \in SUBSET S /\ i \notin B
        OBVIOUS
    <2> HIDE DEF B
    <2>2. /\ IsFiniteSet(B) /\ Cardinality(B) <= Cardinality(S)
          /\ Cardinality(S) = Cardinality(B) => S = B
        BY <2>1, FS_Subset
    <2>3. Cardinality(B) \in Nat /\ Cardinality(S) \in Nat
        BY <2>2, FS_CardinalityType
    <2>4. Cardinality(B) < n
        BY <1>2, <2>1, <2>2, <2>3
    <2>5. QED BY <2>4 DEF B
<1>3. QED BY <1>1, <1>2 DEF First

\* What is made of one category of the YAML file: of the articles that were
\* read there are fields of some, or none.
TakenFrom(a, c, whole) ==
    /\ DOMAIN a.arts \in SUBSET DOMAIN yaml.cats[c]
    /\ \A i \in DOMAIN a.arts :
         a.arts[i].text \in Texts \cup {Blank} /\ a.arts[i].parent \in Nat
    /\ whole /\ Cardinality(DOMAIN yaml.cats[c]) <= MaxArticles
         => /\ DOMAIN a.arts = DOMAIN yaml.cats[c]
            /\ \A i \in DOMAIN yaml.cats[c] : a.arts[i] = Fields(c, i)

LEMMA FromYamlCat ==
    ASSUME IsStore(yaml.cats), NEW r, r.cats \subseteq DOMAIN yaml.cats,
           NEW c \in r.cats, r.reached[c] \in Nat
    PROVE  TakenFrom(FromYaml(r)[c], c,
                     r.torn = {} /\ Cardinality(DOMAIN yaml.cats[c]) <= r.reached[c])
<1> DEFINE Y == yaml.cats[c]
           read == First(DOMAIN Y, r.reached[c])
           ids == First(read, MaxArticles)
           top == Max(ids)
           last == Max(read)
           art(i) == IF i # top THEN Fields(c, i) ELSE IF c \in r.torn THEN NoFields ELSE Fields(c, last)
           a == FromYaml(r)[c]
<1>1. a.arts = [i \in ids |-> art(i)]
    BY DEF FromYaml
<1>2. IsFiniteSet(DOMAIN Y) /\ DOMAIN Y \in SUBSET Nat /\ \A i \in DOMAIN Y : Y[i] \in File
    BY DEF IsStore
<1>3. MaxArticles \in Nat
    BY LimitsOK
<1>4. /\ read \in SUBSET DOMAIN Y /\ (Cardinality(DOMAIN Y) <= r.reached[c] => read = DOMAIN Y)
      /\ IsFiniteSet(read) /\ read \in SUBSET Nat
    <2>1. read \in SUBSET DOMAIN Y /\ (Cardinality(DOMAIN Y) <= r.reached[c] => read = DOMAIN Y)
        BY <1>2, FirstFacts
    <2>2. QED BY <1>2, <2>1, FS_Subset
<1> HIDE DEF read
<1>5. /\ ids \in SUBSET read /\ (Cardinality(read) <= MaxArticles => ids = read)
      /\ ids \in SUBSET DOMAIN Y
    BY <1>3, <1>4, FirstFacts
<1>6. \A i \in DOMAIN Y : /\ Fields(c, i).text \in Texts \cup {Blank}
                          /\ Fields(c, i).parent \in Nat
    <2>1. ASSUME NEW i \in DOMAIN Y
          PROVE  Y[i].text \in Texts \cup {Blank} /\ Y[i].parent \in Nat
        <3>1. Y[i] \in File
            BY <1>2
        <3>2. QED BY <3>1 DEF File
    <2>2. QED BY <2>1 DEF Fields
<1>7. \A i \in ids : last \in DOMAIN Y
    BY <1>4, <1>5, MaxFacts
<1>8. NoFields.text = Blank /\ NoFields.parent = 0
    BY DEF NoFields
<1> HIDE DEF ids, top, last, a
<1>9. DOMAIN a.arts = ids /\ \A i \in ids : a.arts[i] = art(i)
    BY <1>1
<1>10. \A i \in ids : art(i).text \in Texts \cup {Blank} /\ art(i).parent \in Nat
    <2>1. ASSUME NEW i \in ids
          PROVE  art(i).text \in Texts \cup {Blank} /\ art(i).parent \in Nat
        <3>1. CASE i # top
            <4>1. art(i) = Fields(c, i)
                BY <3>1
            <4>2. i \in DOMAIN Y
                BY <1>5
            <4> HIDE DEF art
            <4>3. QED BY <1>6, <4>1, <4>2
        <3>2. CASE i = top /\ c \in r.torn
            <4>1. art(i) = NoFields
                BY <3>2
            <4> HIDE DEF art
            <4>2. QED BY <1>8, <4>1
        <3>3. CASE i = top /\ c \notin r.torn
            <4>1. art(i) = Fields(c, last)
                BY <3>3
            <4>2. last \in DOMAIN Y
                BY <1>7
            <4> HIDE DEF art
            <4>3. QED BY <1>6, <4>1, <4>2
        <3>4. QED BY <3>1, <3>2, <3>3
    <2>2. QED BY <2>1
<1>11. ASSUME r.torn = {}, Cardinality(DOMAIN Y) <= r.reached[c], Cardinality(DOMAIN Y) <= MaxArticles
       PROVE  ids = DOMAIN Y /\ \A i \in DOMAIN Y : art(i) = Fields(c, i)
    <2>1. read = DOMAIN Y /\ ids = read
        BY <1>4, <1>5, <1>11
    <2>2. top = last
        BY <2>1 DEF top, last
    <2>3. QED BY <1>11, <2>1, <2>2
<1> HIDE DEF art
<1>12. QED BY <1>5, <1>9, <1>10, <1>11 DEF a, ids, TakenFrom

\* What is made of the YAML file can be saved, and serves all that waits in it
\* if it can be read whole.
LEMMA ParsedFacts ==
    ASSUME IInv, NEW m \in {FromYaml(r) : r \in Readings}
    PROVE  /\ Source(m)
           /\ ~made /\ Readable => \A k \in DOMAIN posted : Serves(m, k, posted[k])
<1> DEFINE Y == yaml.cats
           D == DOMAIN Y
           all == [c \in D |-> Cardinality(DOMAIN Y[c])]
<1>1. IsStore(Y)
    BY DEF IInv, Types
<1>2. /\ IsFiniteSet(D) /\ D \subseteq Names
      /\ \A c \in D : IsFiniteSet(DOMAIN Y[c]) /\ DOMAIN Y[c] \subseteq Nat \ {0}
    BY <1>1 DEF IsStore
<1>3. \A c \in D : all[c] \in Nat /\ all[c] = Cardinality(DOMAIN Y[c])
    BY <1>2, FS_CardinalityType
<1> HIDE DEF all
<1>4. PICK r \in Readings : m = FromYaml(r)
    OBVIOUS
<1>5. /\ r.cats \subseteq D /\ \A c \in D : r.reached[c] \in Nat
      /\ Readable => r.cats = D /\ r.torn = {} /\ \A c \in D : r.reached[c] = all[c]
    <2>1. CASE yaml.parses
        <3>1. r \in [cats : {D}, reached : {all}, torn : {{}}]
            BY <2>1 DEF Readings, all
        <3>2. r.cats = D /\ r.reached = all /\ r.torn = {}
            BY <3>1
        <3>3. QED BY <1>3, <3>2
    <2>2. CASE ~yaml.parses
        <3>1. r \in [cats : SUBSET D, reached : [D -> UNION {0 .. all[c] : c \in D}], torn : SUBSET D]
            BY <2>2 DEF Readings, all
        <3>2. r.cats \in SUBSET D /\ r.reached \in [D -> UNION {0 .. all[c] : c \in D}]
            BY <3>1
        <3>3. ASSUME NEW c \in D
              PROVE  r.reached[c] \in Nat
            <4>1. r.reached[c] \in UNION {0 .. all[b] : b \in D}
                BY <3>2
            <4>2. PICK b \in D : r.reached[c] \in 0 .. all[b]
                BY <4>1
            <4>3. QED BY <1>3, <4>2
        <3>4. ~Readable
            BY <2>2 DEF Readable
        <3>5. QED BY <3>2, <3>3, <3>4
    <2>3. QED BY <2>1, <2>2
<1>6. DOMAIN m = r.cats
    BY <1>4 DEF FromYaml
<1>7. ASSUME NEW c \in r.cats
      PROVE  /\ DOMAIN m[c].arts \in SUBSET DOMAIN Y[c]
             /\ \A i \in DOMAIN m[c].arts :
                  m[c].arts[i].text \in Texts \cup {Blank} /\ m[c].arts[i].parent \in Nat
             /\ r.torn = {} /\ Cardinality(DOMAIN Y[c]) <= r.reached[c]
                  /\ Cardinality(DOMAIN Y[c]) <= MaxArticles
                  => /\ DOMAIN m[c].arts = DOMAIN Y[c]
                     /\ \A i \in DOMAIN Y[c] : m[c].arts[i] = Fields(c, i)
    <2>1. TakenFrom(FromYaml(r)[c], c,
                    r.torn = {} /\ Cardinality(DOMAIN yaml.cats[c]) <= r.reached[c])
        BY <1>1, <1>5, FromYamlCat
    <2>2. m[c] = FromYaml(r)[c]
        BY <1>4
    <2>3. TakenFrom(m[c], c, r.torn = {} /\ Cardinality(DOMAIN yaml.cats[c]) <= r.reached[c])
        BY <2>1, <2>2, Zenon
    <2>4. QED BY <2>3 DEF TakenFrom
<1>8. Source(m)
    <2>1. IsFiniteSet(r.cats) /\ r.cats \subseteq Names
        BY <1>2, <1>5, FS_Subset
    <2>2. ASSUME NEW c \in r.cats
          PROVE  IsFiniteSet(DOMAIN m[c].arts) /\ DOMAIN m[c].arts \subseteq Nat \ {0}
        BY <1>2, <1>5, <1>7, FS_Subset
    <2>3. QED BY <1>6, <1>7, <2>1, <2>2 DEF Source
<1>9. ASSUME ~made, Readable, NEW k \in DOMAIN posted
      PROVE  Serves(m, k, posted[k])
    <2> DEFINE c == k[1]
               i == k[2]
    <2>1. /\ c \in D /\ i \in DOMAIN Y[c]
          /\ Y[c][i].parent = posted[k].parent /\ Y[c][i].text = posted[k].text
        BY <1>9 DEF IInv, Unmade
    <2>2. /\ c \in r.cats /\ r.torn = {} /\ Cardinality(DOMAIN Y[c]) <= r.reached[c]
          /\ Cardinality(DOMAIN Y[c]) <= MaxArticles
        <3>1. Cardinality(DOMAIN Y[c]) <= MaxArticles
            BY <1>9, <2>1 DEF Readable
        <3>2. r.reached[c] = Cardinality(DOMAIN Y[c]) /\ r.reached[c] \in Nat
            BY <1>3, <1>5, <1>9, <2>1
        <3>3. QED BY <1>5, <1>9, <2>1, <3>1, <3>2
    <2>3. i \in DOMAIN m[c].arts /\ m[c].arts[i] = Fields(c, i)
        BY <1>7, <2>1, <2>2
    <2>4. /\ m[c].arts[i].text = Y[c][i].text /\ m[c].arts[i].parent = Y[c][i].parent
          /\ m[c].arts[i].active
        BY <2>3 DEF Fields
    <2>5. QED BY <1>6, <2>1, <2>2, <2>3, <2>4 DEF Serves
<1>10. QED BY <1>8, <1>9

LEMMA MigrateKeeps ==
    ASSUME IInv, Migrate
    PROVE  IInv'
<1>1. ~up /\ ~made /\ yaml.state = "here" /\ made' = TRUE
    BY DEF Migrate
<1>2. PICK m \in {FromYaml(r) : r \in Readings} : \E w \in SUBSET Writes(m) :
         \/ /\ Tried(m, w) /\ yaml' = [yaml EXCEPT !.state = "legacy"]
            /\ up' = TRUE /\ Load(disk') /\ posted' = Unwritten(Writes(m) \ w)
         \/ /\ disk' = Written(disk, m, w) /\ yaml' = yaml
            /\ up' = FALSE /\ mem' = None /\ posted' = Unwritten(failed \ {})
    BY DEF Migrate, Dies, Legacy
<1>3. PICK w \in SUBSET Writes(m) :
         \/ /\ Tried(m, w) /\ yaml' = [yaml EXCEPT !.state = "legacy"]
            /\ up' = TRUE /\ Load(disk') /\ posted' = Unwritten(Writes(m) \ w)
         \/ /\ disk' = Written(disk, m, w) /\ yaml' = yaml
            /\ up' = FALSE /\ mem' = None /\ posted' = Unwritten(failed \ {})
    BY <1>2
<1>4. Source(m) /\ (Readable => \A k \in DOMAIN posted : Serves(m, k, posted[k]))
    BY <1>1, ParsedFacts
<1>5. IsStore(disk)
    BY DEF IInv, Types
<1>6. Unmade'
    BY <1>1 DEF Unmade
<1>7. \A k \in DOMAIN posted : posted[k].old /\ k = <<k[1], k[2]>> /\ k[2] # 0
    BY <1>1 DEF IInv, Types, Unmade
<1>8. CASE /\ Tried(m, w) /\ yaml' = [yaml EXCEPT !.state = "legacy"]
           /\ up' = TRUE /\ Load(disk') /\ posted' = Unwritten(Writes(m) \ w)
    <2>1. PICK d : d = disk'
        OBVIOUS
    <2>2. /\ IsStore(d) /\ disk' = d /\ Load(d)
          /\ \A k, a : k = <<k[1], k[2]>> /\ k[2] # 0 /\ k \in w /\ Serves(m, k, a)
                       => Holds(d, k, a)
        BY <1>4, <1>5, <1>8, <2>1, TriedFacts
    <2>3. /\ IsNews(mem')
          /\ Fits(d) => \A k, a : Holds(d, k, a) => Serves(mem', k, a)
        BY <2>2, LoadServes
    <2>4. /\ yaml' = [state |-> yaml'.state, cats |-> yaml'.cats, parses |-> yaml'.parses]
          /\ yaml'.state = "legacy" /\ yaml'.cats = yaml.cats /\ yaml'.parses = yaml.parses
        <3>1. yaml = [state |-> yaml.state, cats |-> yaml.cats, parses |-> yaml.parses]
            BY DEF IInv, Types
        <3>2. \A x, y, z, v : [[state |-> x, cats |-> y, parses |-> z] EXCEPT !.state = v]
                                = [state |-> v, cats |-> y, parses |-> z]
            OBVIOUS
        <3>3. yaml' = [state |-> "legacy", cats |-> yaml.cats, parses |-> yaml.parses]
            BY <1>8, <3>1, <3>2, Zenon
        <3>4. QED BY <3>3
    <2>5. PICK u : u = Writes(m) \ w
        OBVIOUS
    <2>6. /\ DOMAIN posted' = DOMAIN posted \ u
          /\ \A k \in DOMAIN posted' : posted'[k] = posted[k]
        BY <1>8, <2>5, UnwrittenFacts
    <2>7. Types'
        BY <1>1, <1>7, <1>8, <2>2, <2>3, <2>4, <2>6 DEF IInv, Types
    <2>8. ASSUME Readable, NEW k \in DOMAIN posted'
          PROVE  Holds(d, k, posted[k])
        <3>1. k \in DOMAIN posted /\ k \notin u
            BY <2>6
        <3>2. Serves(m, k, posted[k])
            BY <1>4, <2>8, <3>1
        <3>3. k \in Writes(m)
            BY <1>7, <3>1, <3>2, ToWrite DEF Serves
        <3>4. k \in w
            BY <2>5, <3>1, <3>3
        <3>5. QED BY <1>7, <2>2, <3>1, <3>2, <3>4
    <2>9. Readable' <=> Readable
        BY <2>4, ReadableStays
    <2>10. \A k \in DOMAIN posted' : posted'[k].old
        BY <1>7, <2>6
    <2>11. Kept'
        <3>1. CASE Readable
            BY <2>2, <2>3, <2>6, <2>8, <3>1, KeptNext
        <3>2. CASE ~Readable
            BY <2>9, <2>10, <3>2, KeptNext
        <3>3. QED BY <3>1, <3>2
    <2>12. QED BY <1>6, <2>7, <2>11 DEF IInv
<1>9. CASE /\ disk' = Written(disk, m, w) /\ yaml' = yaml
           /\ up' = FALSE /\ mem' = None /\ posted' = Unwritten(failed \ {})
    <2>1. IsStore(disk')
        BY <1>4, <1>5, <1>9, WrittenStore
    <2>2. /\ DOMAIN posted' \subseteq DOMAIN posted
          /\ \A k \in DOMAIN posted' : posted'[k] = posted[k]
        BY <1>9, UnwrittenFacts
    <2>3. Types'
        BY <1>1, <1>9, <2>1, <2>2, NoneFacts DEF IInv, Types
    <2>4. Kept'
        BY <1>1, <1>7, <1>9, <2>2, KeptNext
    <2>5. QED BY <1>6, <2>3, <2>4 DEF IInv
<1>10. QED BY <1>3, <1>8, <1>9

LEMMA StartEmptyKeeps ==
    ASSUME IInv, StartEmpty
    PROVE  IInv'
<1>1. /\ ~up /\ ~made /\ yaml.state # "here" /\ made' = TRUE /\ up' = TRUE
      /\ mem' = mem /\ disk' = disk /\ yaml' = yaml /\ posted' = posted
    BY DEF StartEmpty
<1>2. mem = None /\ DOMAIN posted = {}
    BY <1>1 DEF IInv, Types, Unmade
<1>3. Types'
    BY <1>1 DEF IInv, Types
<1>4. Unmade'
    BY <1>1 DEF Unmade
<1>5. Kept'
    BY <1>1, <1>2, KeptNext
<1>6. QED BY <1>3, <1>4, <1>5 DEF IInv

-----------------------------------------------------------------------------
(* The invariant and what follows from it. *)

LEMMA InitIInv ==
    ASSUME Init
    PROVE  IInv
<1>1. PICK s \in Stored :
         /\ made = s.made /\ disk = s.disk
         /\ yaml = [state |-> IF s.yaml = None THEN "none" ELSE "here", cats |-> s.yaml,
                    parses |-> s.parses]
         /\ LET all == IF s.made THEN s.disk ELSE s.yaml
            IN  posted = [k \in Keys(all) |->
                            [text |-> all[k[1]][k[2]].text, parent |-> all[k[1]][k[2]].parent,
                             old |-> ~s.made]]
    BY DEF Init
<1> DEFINE all == IF s.made THEN s.disk ELSE s.yaml
<1>2. up = FALSE /\ mem = None
    BY DEF Init
<1>3. s.made \in BOOLEAN /\ (s.made \/ s.disk = None) /\ IsStore(s.disk) /\ IsStore(s.yaml)
    BY StoredOK
<1>4. IsStore(all)
    BY <1>3
<1>5. /\ DOMAIN posted = Keys(all)
      /\ \A k \in Keys(all) : /\ posted[k].text = all[k[1]][k[2]].text
                              /\ posted[k].parent = all[k[1]][k[2]].parent
                              /\ posted[k].old = ~s.made
    BY <1>1
<1> HIDE DEF all
<1>6. ASSUME NEW k \in Keys(all)
      PROVE  /\ k = <<k[1], k[2]>> /\ k[2] # 0
             /\ k[1] \in DOMAIN all /\ k[2] \in Whole(all[k[1]])
             /\ k[2] \in DOMAIN all[k[1]]
    <2>1. PICK c \in DOMAIN all : k \in {<<c, i>> : i \in Whole(all[c])}
        BY DEF Keys
    <2>2. PICK i \in Whole(all[c]) : k = <<c, i>>
        BY <2>1
    <2>3. i \in DOMAIN all[c] /\ i # 0
        BY <1>4 DEF IsStore, Whole
    <2>4. QED BY <2>2, <2>3
<1>7. yaml.state = (IF s.yaml = None THEN "none" ELSE "here") /\ yaml.cats = s.yaml
      /\ yaml = [state |-> yaml.state, cats |-> yaml.cats, parses |-> yaml.parses]
    BY <1>1
<1>8. Types
    BY <1>1, <1>2, <1>3, <1>5, <1>6, <1>7, NoneFacts DEF Types
<1>9. ASSUME ~s.made
      PROVE  all = s.yaml /\ \A k \in DOMAIN posted : yaml.state = "here"
    <2>1. all = s.yaml
        BY <1>9 DEF all
    <2>2. ASSUME NEW k \in DOMAIN posted
          PROVE  s.yaml # None
        BY <1>5, <1>6, <2>1, <2>2, NoneFacts
    <2>3. QED BY <1>7, <2>1, <2>2
<1>10. Unmade
    <2>1. ASSUME ~made
          PROVE  /\ ~up /\ disk = None
                 /\ \A k \in DOMAIN posted :
                      /\ posted[k].old /\ yaml.state = "here"
                      /\ k[1] \in DOMAIN yaml.cats /\ k[2] \in DOMAIN yaml.cats[k[1]]
                      /\ yaml.cats[k[1]][k[2]].parent = posted[k].parent
                      /\ yaml.cats[k[1]][k[2]].text = posted[k].text
        <3>1. ~s.made /\ ~up /\ disk = None
            BY <1>1, <1>2, <1>3, <2>1
        <3>2. ASSUME NEW k \in DOMAIN posted
              PROVE  /\ posted[k].old /\ yaml.state = "here"
                     /\ k[1] \in DOMAIN yaml.cats /\ k[2] \in DOMAIN yaml.cats[k[1]]
                     /\ yaml.cats[k[1]][k[2]].parent = posted[k].parent
                     /\ yaml.cats[k[1]][k[2]].text = posted[k].text
            <4>1. all = yaml.cats /\ yaml.state = "here"
                BY <1>7, <1>9, <3>1
            <4>2. posted[k].old
                BY <1>5, <3>1
            <4>3. QED BY <1>5, <1>6, <4>1, <4>2
        <3>3. QED BY <3>1, <3>2
    <2>2. QED BY <2>1 DEF Unmade
<1>11. ASSUME NEW k \in DOMAIN posted
       PROVE  Waits(k) \/ Holds(disk, k, posted[k])
    <2>1. CASE s.made
        <3>1. all = disk
            BY <1>1, <2>1 DEF all
        <3>2. QED BY <1>5, <1>6, <3>1 DEF Holds, Readably
    <2>2. CASE ~s.made
        <3>1. posted[k].old /\ yaml.state = "here"
            BY <1>5, <1>9, <2>2
        <3>2. QED BY <3>1 DEF Waits
    <2>3. QED BY <2>1, <2>2
<1>12. Kept
    BY <1>2, <1>11, KeptIs
<1>13. QED BY <1>8, <1>10, <1>12 DEF IInv

LEMMA NextKeeps ==
    ASSUME IInv, Next
    PROVE  IInv'
<1>1. ASSUME NEW c \in Names, NEW p \in Parents, NEW t \in Texts, PostNewsArt(c, p, t)
      PROVE  IInv'
    BY <1>1, PostNewsArtKeeps
<1>2. ASSUME NEW c \in Names, NewNewsCat(c)
      PROVE  IInv'
    BY <1>2, NewNewsCatKeeps
<1>3. ASSUME NEW c \in Names, DelNewsItem(c)
      PROVE  IInv'
    BY <1>3, DelNewsItemKeeps
<1>4. ASSUME NEW c \in Names, NEW i \in 1 .. MaxArticles, DelNewsArt(c, i)
      PROVE  IInv'
    BY <1>4, DelNewsArtKeeps
<1>5. CASE Crash
    BY <1>5, CrashKeeps
<1>6. CASE StartFromDirectory
    BY <1>6, StartFromDirectoryKeeps
<1>7. CASE Migrate
    BY <1>7, MigrateKeeps
<1>8. CASE StartEmpty
    BY <1>8, StartEmptyKeeps
<1>9. QED BY <1>1, <1>2, <1>3, <1>4, <1>5, <1>6, <1>7, <1>8 DEF Next

LEMMA StutterKeeps ==
    ASSUME IInv, UNCHANGED vars
    PROVE  IInv'
<1>1. /\ up' = up /\ mem' = mem /\ made' = made
      /\ disk' = disk /\ yaml' = yaml /\ posted' = posted /\ failed' = failed
    BY DEF vars
<1>2. Types' /\ Unmade'
    BY <1>1 DEF IInv, Types, Unmade
<1>3. Readable' <=> Readable
    BY <1>1, ReadableStays
<1>4. Kept'
    BY <1>1, <1>3, KeptIs, KeptNext DEF IInv, Waits
<1>5. QED BY <1>2, <1>4 DEF IInv

\* The invariant holds in every reachable state.
LEMMA Invariant == Spec => []IInv
<1>1. Init => IInv
    BY InitIInv
<1>2. IInv /\ [Next]_vars => IInv'
    BY NextKeeps, StutterKeeps
<1>3. QED BY <1>1, <1>2, PTL DEF Spec

LEMMA TypesImply ==
    ASSUME Types
    PROVE  TypeOK
<1>1. \A c \in DOMAIN mem :
         /\ Cardinality(DOMAIN mem[c].arts) <= MaxArticles
         /\ \A i \in DOMAIN mem[c].arts : mem[c].arts[i] \in Article /\ i < mem[c].next
    BY DEF Types, IsNews, Cat
<1>2. QED BY <1>1 DEF Types, IsNews, TypeOK

\* However many requests, crashes and restarts, memory never holds more
\* categories or articles than it has room for, and a category's next id is
\* above the id of every article in it, deleted ones included, so that no id is
\* given twice (next_article_id, in threaded_news_yaml.c and load_category).
THEOREM TypeCorrect == Spec => []TypeOK
<1>1. IInv => TypeOK
    BY TypesImply DEF IInv
<1>2. QED BY <1>1, Invariant, PTL

\* An accepted article is lost by no sequence of crashes during saves and
\* during the migration, restarts, deletions and creations of others, and
\* writes that fail and are made good by a later save before the process ends,
\* while the directory is small enough to be loaded whole; of an old YAML file
\* this is said if tn_load takes in all of it.
THEOREM ArticlesAreKept == Spec => []Kept
<1>1. IInv => Kept
    BY DEF IInv
<1>2. QED BY <1>1, Invariant, PTL

-----------------------------------------------------------------------------
(* The message board. *)

\* The lines of the file, with no bound on the posts.
Row == [post: Nat, reads: BOOLEAN, open: BOOLEAN]

\* Posts in the order in which a text file has them.
Descending(s) == \A i, j \in DOMAIN s : i < j => s[i] > s[j]

Upto(s, n) == \A i \in DOMAIN s : s[i] \in 1 .. n

\* No post twice, and a post above the older ones unless m has both.
InOrder(s, m) ==
    \A i, j \in DOMAIN s :
        i < j => s[i] # s[j] /\ (~({s[i], s[j]} \subseteq m) => s[i] > s[j])

-----------------------------------------------------------------------------
(* The inductive invariant. *)

BoardTypes ==
    /\ txt \in [there: BOOLEAN, posts: Seq(Nat)]
    /\ jsonl \in [there: BOOLEAN, lines: Seq(Row)]
    /\ phase \in {"down", "migrating", "up"} /\ backend \in {"jsonl", "text"}
    /\ shown \in Seq(Nat) /\ boardPosts \in Nat
    /\ answered \subseteq 1 .. boardPosts /\ migrated \subseteq 1 .. boardPosts
    /\ cuts \in Nat /\ tears \in Nat /\ wiped \in BOOLEAN

\* A text, and what is displayed of some lines, when n posts have been made.
TextOK(s, n) == s \in Seq(Nat) /\ Descending(s) /\ Upto(s, n)
LinesOK(lines, m, n) ==
    LET s == Displayed(lines) IN s \in Seq(Nat) /\ InOrder(s, m) /\ Upto(s, n)

Ordered ==
    /\ TextOK(txt.posts, boardPosts) /\ LinesOK(jsonl.lines, migrated, boardPosts)
    /\ ~jsonl.there => jsonl.lines = <<>>

\* What is shown is what the file in use has.
Shows ==
    /\ phase # "up" => shown = <<>>
    /\ phase = "up" /\ backend = "jsonl" => JsonRules /\ shown = Displayed(jsonl.lines)
    /\ phase = "up" /\ backend = "text" =>
         TextOK(shown, boardPosts) /\ (~wiped => ~JsonRules /\ shown = txt.posts)

\* During the migration the JSON file has the first posts of the text.
FirstOf(text, k) == {text[i] : i \in 1 .. k}

Migrating ==
    phase = "migrating" =>
        /\ jsonl.there /\ ~HasOpen(jsonl.lines) /\ migrated = ToSet(txt.posts)
        /\ Len(jsonl.lines) <= Len(txt.posts)
        /\ ToSet(Displayed(jsonl.lines)) = FirstOf(txt.posts, Len(jsonl.lines))

\* What is in the file a start would use.
BoardOnDisk == IF JsonRules THEN Displayed(jsonl.lines) ELSE txt.posts

\* The posts a start would find, or the migration still has to write.
Found == IF phase = "migrating" THEN ToSet(txt.posts) ELSE ToSet(BoardOnDisk)

\* An open line is going to cost the next post.
Lost(ans, found, lines, c) ==
    Cardinality(ans \ found) + (IF HasOpen(lines) THEN 1 ELSE 0) <= c

Counted == ~wiped => Lost(answered, Found, jsonl.lines, 2 * cuts + tears)

BoardIInv == BoardTypes /\ Ordered /\ Shows /\ Migrating /\ Counted

\* A set of positions that is not empty has a first one: the lines of a file are
\* read, and the posts of a migration written, from the first one on.
LEMMA LeastElement ==
  ASSUME NEW n \in Nat, NEW S \in SUBSET (1 .. n), S # {}
  PROVE  \E i \in S : \A j \in S : i <= j
<1> DEFINE Below(i) == {j \in S : j <= i}
           T == {Below(i) : i \in S}
<1>1. IsFiniteSet(S)
  <2>1. 1 \in Int /\ n \in Int
    OBVIOUS
  <2>2. IsFiniteSet(1 .. n)
    BY <2>1, FS_Interval
  <2>3. QED BY <2>2, FS_Subset
<1>2. IsWellFoundedOn(StrictSubsetOrdering(S), SUBSET S)
  BY <1>1, FS_FiniteSubsetsOfFinite, FS_StrictSubsetOrderingWellFounded
<1>3. T \subseteq SUBSET S /\ T # {}
  OBVIOUS
<1>4. PICK x \in T : \A y \in T : ~(<<y, x>> \in StrictSubsetOrdering(S))
  BY <1>2, <1>3, WFMin
<1>5. PICK i \in S : x = Below(i)
  BY <1>4
<1>6. ASSUME NEW j \in S, j < i
      PROVE  FALSE
  <2>1. i \in Int /\ j \in Int /\ \A k \in S : k \in Int
    OBVIOUS
  <2>2. \A k \in S : k <= j => k <= i
    BY <1>6, <2>1
  <2>3. i <= i /\ ~(i <= j)
    BY <1>6, <2>1
  <2>4. Below(j) \subseteq Below(i) /\ i \in Below(i) /\ i \notin Below(j)
    BY <2>2, <2>3
  <2>5. <<Below(j), Below(i)>> \in StrictSubsetOrdering(S)
    BY <2>4 DEF StrictSubsetOrdering
  <2>6. QED BY <1>4, <1>5, <2>5
<1>7. \A j \in S : i <= j
  BY <1>6
<1>8. QED BY <1>7

LEMMA Induction ==
  ASSUME NEW n \in Nat, NEW T, 0 \in T,
         \A i \in 1 .. n : i - 1 \in T => i \in T
  PROVE  \A i \in 0 .. n : i \in T
<1> DEFINE S == {i \in 1 .. n : i \notin T}
<1>1. SUFFICES ASSUME S # {} PROVE FALSE
  OBVIOUS
<1>2. PICK i \in S : \A j \in S : i <= j
  BY <1>1, LeastElement
<1>3. i \in 1 .. n /\ i \notin T
  BY <1>2
<1>4. i - 1 \notin T
  BY <1>3
<1>5. i - 1 \in 0 .. n
  BY <1>3
<1>6. i - 1 # 0
  BY <1>4
<1>7. i - 1 \in S
  BY <1>4, <1>5, <1>6
<1>8. QED BY <1>2, <1>3, <1>7

-----------------------------------------------------------------------------
(* What is displayed.  The recursion has a solution: by induction, one that  *)
(* reaches a row further.                                                     *)

Reading(h, lines, n) ==
    h = [k \in 0 .. n |-> IF k = 0 THEN <<>>
                         ELSE IF lines[k].reads THEN <<lines[k].post>> \o h[k - 1]
                         ELSE h[k - 1]]

LEMMA DisplayedExists ==
  ASSUME NEW lines, NEW n \in Nat
  PROVE  \E h : Reading(h, lines, n)
<1> DEFINE R(h, k) == IF k = 0 THEN <<>>
                      ELSE IF lines[k].reads THEN <<lines[k].post>> \o h[k - 1]
                      ELSE h[k - 1]
           T == {m \in 0 .. n : \E h : h = [k \in 0 .. m |-> R(h, k)]}
<1>1. 0 \in T
  <2> DEFINE h == [k \in 0 .. 0 |-> <<>>]
             e == [k \in 0 .. 0 |-> R(h, k)]
  <2>1. \A k \in 0 .. 0 : R(h, k) = <<>>
    OBVIOUS
  <2>2. h = e
    BY <2>1
  <2>3. 0 \in 0 .. n
    OBVIOUS
  <2> HIDE DEF h, R
  <2>4. QED BY <2>2, <2>3
<1>2. ASSUME NEW m \in 1 .. n, m - 1 \in T
      PROVE  m \in T
  <2>1. PICK h : h = [k \in 0 .. m - 1 |-> R(h, k)]
    BY <1>2
  <2> DEFINE g == [k \in 0 .. m |-> IF k = m THEN R(h, m) ELSE h[k]]
             e == [k \in 0 .. m |-> R(g, k)]
  <2>2. \A k \in 0 .. m : k = m \/ k \in 0 .. m - 1
    OBVIOUS
  <2>3. ASSUME NEW k \in 0 .. m
        PROVE  R(g, k) = R(h, k)
    <3>1. CASE k = 0
      BY <3>1
    <3>2. CASE k # 0
      <4>1. k - 1 \in 0 .. m /\ k - 1 # m
        BY <3>2
      <4>2. g[k - 1] = h[k - 1]
        BY <4>1
      <4> HIDE DEF g
      <4>3. QED BY <4>2
    <3>3. QED BY <3>1, <3>2
  <2>4. ASSUME NEW k \in 0 .. m
        PROVE  g[k] = R(h, k)
    <3>1. CASE k = m
      BY <3>1
    <3>2. CASE k # m
      <4>1. k \in 0 .. m - 1
        BY <3>2, <2>2
      <4>2. g[k] = h[k]
        BY <3>2
      <4> HIDE DEF g
      <4>3. h[k] = R(h, k)
        <5> HIDE DEF R
        <5>1. QED BY <2>1, <4>1
      <4>4. QED BY <4>2, <4>3
    <3>3. QED BY <3>1, <3>2
  <2> HIDE DEF R
  <2>5. g = e
    BY <2>3, <2>4
  <2>6. m \in 0 .. n
    BY <1>2
  <2> HIDE DEF g
  <2>7. QED BY <2>5, <2>6
<1> HIDE DEF T
<1>3. \A m \in 0 .. n : m \in T
  BY <1>1, <1>2, Induction
<1>4. n \in T
  BY <1>3
<1>5. QED BY <1>4 DEF T, Reading

\* It is built from the file's end: the last line goes on top.
LEMMA DisplayedAppend ==
  ASSUME NEW lines \in Seq(Row), NEW l \in Row
  PROVE  Displayed(Append(lines, l)) =
           IF l.reads THEN <<l.post>> \o Displayed(lines) ELSE Displayed(lines)
<1> DEFINE n == Len(lines)
           new == Append(lines, l)
           R(s, h, k) == IF k = 0 THEN <<>>
                         ELSE IF s[k].reads THEN <<s[k].post>> \o h[k - 1]
                         ELSE h[k - 1]
           P(h) == h = [k \in 0 .. n |-> R(lines, h, k)]
           Q(h) == h = [k \in 0 .. n + 1 |-> R(new, h, k)]
           f == CHOOSE h : P(h)
           g == CHOOSE h : Q(h)
<1>1. n \in Nat
  BY LenProperties
<1>2. new \in Seq(Row) /\ Len(new) = n + 1 /\ new[n + 1] = l
      /\ \A i \in 1 .. n : new[i] = lines[i]
  BY AppendProperties
<1>3. Displayed(lines) = f[n]
  BY DEF Displayed
<1>4. Displayed(new) = g[n + 1]
  <2> DEFINE m == Len(new)
             Qm(h) == h = [k \in 0 .. m |-> R(new, h, k)]
  <2> HIDE DEF new
  <2>1. Displayed(new) = (CHOOSE h : Qm(h))[m]
    BY DEF Displayed
  <2>2. m = n + 1
    BY <1>2
  <2> HIDE DEF m
  <2>3. QED BY <2>1, <2>2
<1> HIDE DEF new
<1>5. P(f)
  <2>1. \E h : P(h)
    <3>1. \E h : Reading(h, lines, n)
      BY ONLY <1>1, DisplayedExists
    <3>2. QED BY ONLY <3>1 DEF Reading
  <2> HIDE DEF P
  <2>2. QED BY <2>1
<1>6. Q(g)
  <2> DEFINE m == n + 1
  <2>1. m \in Nat
    BY <1>1
  <2> HIDE DEF m
  <2>2. \E h : Reading(h, new, m)
    BY ONLY <2>1, DisplayedExists
  <2>3. \E h : Q(h)
    BY ONLY <2>2 DEF Reading, m
  <2> HIDE DEF Q
  <2>4. QED BY <2>3
<1> HIDE DEF f, g
<1>7. \A k \in 0 .. n : f[k] = R(lines, f, k)
  <2> HIDE DEF R
  <2>1. QED BY <1>5
<1>8. \A k \in 0 .. n + 1 : g[k] = R(new, g, k)
  <2> HIDE DEF R
  <2>1. QED BY <1>6
<1> HIDE DEF P, Q
<1> DEFINE T == {k \in 0 .. n : f[k] = g[k]}
<1>9. 0 \in T
  <2>1. 0 \in 0 .. n /\ 0 \in 0 .. n + 1
    BY <1>1
  <2>2. f[0] = <<>> /\ g[0] = <<>>
    BY <1>7, <1>8, <2>1
  <2>3. QED BY <2>1, <2>2
<1>10. ASSUME NEW k \in 1 .. n, k - 1 \in T
       PROVE  k \in T
  <2>1. k \in 0 .. n /\ k \in 0 .. n + 1 /\ k # 0
    BY <1>1
  <2>2. f[k] = IF lines[k].reads THEN <<lines[k].post>> \o f[k - 1] ELSE f[k - 1]
    BY <1>7, <2>1
  <2>3. g[k] = IF new[k].reads THEN <<new[k].post>> \o g[k - 1] ELSE g[k - 1]
    BY <1>8, <2>1
  <2>4. new[k] = lines[k] /\ f[k - 1] = g[k - 1]
    BY <1>2, <1>10
  <2>5. QED BY <2>1, <2>2, <2>3, <2>4
<1>11. f[n] = g[n]
  <2>1. n \in 0 .. n
    BY <1>1
  <2> HIDE DEF T
  <2>2. \A k \in 0 .. n : k \in T
    BY <1>1, <1>9, <1>10, Induction
  <2>3. n \in T
    BY <2>1, <2>2
  <2>4. QED BY <2>3 DEF T
<1>12. g[n + 1] = IF l.reads THEN <<l.post>> \o g[n] ELSE g[n]
  <2>1. n + 1 \in 0 .. n + 1 /\ n + 1 # 0 /\ (n + 1) - 1 = n
    BY <1>1
  <2>2. g[n + 1] = IF new[n + 1].reads THEN <<new[n + 1].post>> \o g[(n + 1) - 1]
                   ELSE g[(n + 1) - 1]
    BY <1>8, <2>1
  <2>3. QED BY <1>2, <2>1, <2>2
<1>13. QED BY <1>3, <1>4, <1>11, <1>12 DEF new

LEMMA DisplayedNone == Displayed(<<>>) = <<>>
<1> DEFINE R(h, k) == IF k = 0 THEN <<>>
                      ELSE IF <<>>[k].reads THEN << <<>>[k].post>> \o h[k - 1]
                      ELSE h[k - 1]
           P(h) == h = [k \in 0 .. 0 |-> R(h, k)]
           f == CHOOSE h : P(h)
<1>1. Displayed(<<>>) = f[0]
  <2>1. Len(<<>>) = 0
    OBVIOUS
  <2>2. QED BY <2>1 DEF Displayed
<1>2. P(f)
  <2>1. 0 \in Nat
    OBVIOUS
  <2>2. \E h : P(h)
    <3>1. \E h : Reading(h, <<>>, 0)
      BY ONLY <2>1, DisplayedExists
    <3>2. QED BY ONLY <3>1 DEF Reading
  <2> HIDE DEF P
  <2>3. QED BY <2>2
<1> HIDE DEF f
<1>3. f[0] = R(f, 0)
  <2> HIDE DEF R
  <2>1. 0 \in 0 .. 0
    OBVIOUS
  <2>2. QED BY <1>2, <2>1
<1>4. QED BY <1>1, <1>3

-----------------------------------------------------------------------------
(* Posts in a sequence.  *)

\* A post on top.
LEMMA OnTop ==
  ASSUME NEW s \in Seq(Nat), NEW p \in Nat, NEW t, t = <<p>> \o s
  PROVE  /\ t \in Seq(Nat) /\ Len(t) = Len(s) + 1 /\ t # <<>>
         /\ DOMAIN t = 1 .. Len(s) + 1 /\ DOMAIN s = 1 .. Len(s) /\ Len(s) \in Nat
         /\ t[1] = p /\ \A i \in 1 .. Len(s) : t[i + 1] = s[i]
         /\ \A k \in DOMAIN t : k = 1 \/ (k - 1 \in DOMAIN s /\ t[k] = s[k - 1])
         /\ ToSet(t) = ToSet(s) \cup {p}
<1>1. /\ <<p>> \in Seq(Nat) /\ Len(<<p>>) = 1 /\ <<p>>[1] = p
  OBVIOUS
<1> DEFINE one == <<p>>
<1>2. Len(s) \in Nat /\ DOMAIN s = 1 .. Len(s)
  BY LenProperties
<1> HIDE DEF one
<1>3. /\ t \in Seq(Nat) /\ Len(t) = 1 + Len(s)
      /\ \A i \in 1 .. 1 + Len(s) : t[i] = IF i <= 1 THEN one[i] ELSE s[i - 1]
  <2>1. one \in Seq(Nat) /\ Len(one) = 1 /\ t = one \o s
    BY <1>1 DEF one
  <2>2. QED BY <2>1, ConcatProperties
<1>4. DOMAIN t = 1 .. Len(s) + 1
  <2>1. DOMAIN t = 1 .. Len(t)
    BY <1>3, LenProperties
  <2>2. QED BY <1>2, <1>3, <2>1
<1>5. t[1] = p
  <2>1. t[1] = one[1]
    BY <1>2, <1>3
  <2>2. QED BY <1>1, <2>1 DEF one
<1>6. \A i \in 1 .. Len(s) : t[i + 1] = s[i]
  <2>1. ASSUME NEW i \in 1 .. Len(s)
        PROVE  t[i + 1] = s[i]
    <3>1. i + 1 \in 1 .. 1 + Len(s) /\ ~(i + 1 <= 1) /\ (i + 1) - 1 = i
      BY <1>2
    <3>2. QED BY <1>3, <3>1
  <2>2. QED BY <2>1
<1>7. \A k \in DOMAIN t : k = 1 \/ (k - 1 \in DOMAIN s /\ t[k] = s[k - 1])
  <2>1. ASSUME NEW k \in DOMAIN t, k # 1
        PROVE  k - 1 \in DOMAIN s /\ t[k] = s[k - 1]
    <3>1. k \in 1 .. 1 + Len(s) /\ ~(k <= 1) /\ k - 1 \in 1 .. Len(s)
      BY <1>2, <1>4, <2>1
    <3>2. QED BY <1>2, <1>3, <3>1
  <2>2. QED BY <2>1
<1>8. ToSet(t) = ToSet(s) \cup {p}
  <2>1. ToSet(t) \subseteq ToSet(s) \cup {p}
    BY <1>5, <1>7 DEF ToSet
  <2>2. p \in ToSet(t)
    <3>1. 1 \in DOMAIN t
      BY <1>2, <1>4
    <3>2. QED BY <1>5, <3>1 DEF ToSet
  <2>3. ASSUME NEW i \in DOMAIN s
        PROVE  s[i] \in ToSet(t)
    <3>1. i + 1 \in DOMAIN t
      BY <1>2, <1>4
    <3>2. t[i + 1] = s[i]
      BY <1>2, <1>6
    <3>3. QED BY <3>1, <3>2 DEF ToSet
  <2>4. QED BY <2>1, <2>2, <2>3 DEF ToSet
<1>9. t # <<>>
  BY <1>2, <1>3, EmptySeq
<1>10. QED BY <1>2, <1>3, <1>4, <1>5, <1>6, <1>7, <1>8, <1>9

LEMMA OnTopSet ==
  ASSUME NEW s \in Seq(Nat), NEW p \in Nat
  PROVE  <<p>> \o s \in Seq(Nat) /\ ToSet(<<p>> \o s) = ToSet(s) \cup {p}
<1> DEFINE t == <<p>> \o s
<1>1. t = <<p>> \o s
  OBVIOUS
<1> HIDE DEF t
<1>2. t \in Seq(Nat) /\ ToSet(t) = ToSet(s) \cup {p}
  BY <1>1, OnTop
<1>3. QED BY <1>2 DEF t

\* The newest post of all, or an old one that the file has not yet, may go on
\* top.
LEMMA OnTopInOrder ==
  ASSUME NEW s \in Seq(Nat), NEW p \in Nat, NEW m, InOrder(s, m), p \notin ToSet(s),
         \A i \in DOMAIN s : {p, s[i]} \subseteq m \/ p > s[i]
  PROVE  InOrder(<<p>> \o s, m)
<1> DEFINE t == <<p>> \o s
<1>1. /\ DOMAIN t = 1 .. Len(s) + 1 /\ DOMAIN s = 1 .. Len(s) /\ Len(s) \in Nat /\ t[1] = p
      /\ \A k \in DOMAIN t : k = 1 \/ (k - 1 \in DOMAIN s /\ t[k] = s[k - 1])
  BY OnTop
<1> HIDE DEF t
<1>2. ASSUME NEW i \in DOMAIN t, NEW j \in DOMAIN t, i < j
      PROVE  t[i] # t[j] /\ (~({t[i], t[j]} \subseteq m) => t[i] > t[j])
  <2>1. j # 1
    BY <1>1, <1>2
  <2>2. j - 1 \in DOMAIN s /\ t[j] = s[j - 1]
    BY <1>1, <2>1
  <2>3. CASE i = 1
    <3>1. s[j - 1] \in ToSet(s)
      BY <2>2 DEF ToSet
    <3>2. t[i] = p
      BY <1>1, <2>3
    <3>3. {p, s[j - 1]} \subseteq m \/ p > s[j - 1]
      BY <2>2
    <3>4. QED BY <2>2, <3>1, <3>2, <3>3
  <2>4. CASE i # 1
    <3>1. i - 1 \in DOMAIN s /\ t[i] = s[i - 1] /\ i - 1 < j - 1
      BY <1>1, <1>2, <2>4
    <3>2. QED BY <2>2, <3>1 DEF InOrder
  <2>5. QED BY <2>3, <2>4
<1>3. InOrder(t, m)
  BY <1>2 DEF InOrder
<1>4. QED BY <1>3 DEF t

LEMMA OnTopDescends ==
  ASSUME NEW s \in Seq(Nat), NEW n \in Nat, Descending(s), Upto(s, n)
  PROVE  Descending(<<n + 1>> \o s) /\ Upto(<<n + 1>> \o s, n + 1)
<1> DEFINE p == n + 1
           t == <<p>> \o s
<1>0. p \in Nat /\ p = n + 1
  OBVIOUS
<1> HIDE DEF p
<1>1. /\ DOMAIN t = 1 .. Len(s) + 1 /\ DOMAIN s = 1 .. Len(s) /\ Len(s) \in Nat /\ t[1] = p
      /\ \A k \in DOMAIN t : k = 1 \/ (k - 1 \in DOMAIN s /\ t[k] = s[k - 1])
  BY <1>0, OnTop
<1> HIDE DEF t
<1>2. ASSUME NEW i \in DOMAIN t, NEW j \in DOMAIN t, i < j
      PROVE  t[i] > t[j]
  <2>1. j # 1
    BY <1>1, <1>2
  <2>2. j - 1 \in DOMAIN s /\ t[j] = s[j - 1] /\ s[j - 1] \in 1 .. n
    BY <1>1, <2>1 DEF Upto
  <2>3. CASE i = 1
    <3>1. t[i] = p
      BY <1>1, <2>3
    <3>2. QED BY <1>0, <2>2, <3>1
  <2>4. CASE i # 1
    <3>1. i - 1 \in DOMAIN s /\ t[i] = s[i - 1] /\ i - 1 < j - 1
      BY <1>1, <1>2, <2>4
    <3>2. QED BY <2>2, <3>1 DEF Descending
  <2>5. QED BY <2>3, <2>4
<1>3. ASSUME NEW i \in DOMAIN t
      PROVE  t[i] \in 1 .. p
  <2>1. CASE i = 1
    <3>1. t[i] = p
      BY <1>1, <2>1
    <3>2. QED BY <1>0, <3>1
  <2>2. CASE i # 1
    <3>1. i - 1 \in DOMAIN s /\ t[i] = s[i - 1]
      BY <1>1, <2>2
    <3>2. s[i - 1] \in 1 .. n
      BY <3>1 DEF Upto
    <3>3. QED BY <1>0, <3>1, <3>2
  <2>3. QED BY <2>1, <2>2
<1>4. Descending(t) /\ Upto(t, p)
  BY <1>2, <1>3 DEF Descending, Upto
<1>5. QED BY <1>4 DEF t, p

LEMMA PrefixDescends ==
  ASSUME NEW s \in Seq(Nat), NEW n, Descending(s), Upto(s, n), NEW t \in Prefixes(s)
  PROVE  t \in Seq(Nat) /\ Descending(t) /\ Upto(t, n)
<1>1. PICK k \in 0 .. Len(s) : t = SubSeq(s, 1, k)
  BY DEF Prefixes
<1>2. Len(s) \in Nat /\ DOMAIN s = 1 .. Len(s) /\ \A i \in 1 .. Len(s) : s[i] \in Nat
  BY LenProperties, ElementOfSeq
<1>3. t = [i \in 1 .. k |-> s[i]]
  BY <1>1, <1>2
<1>4. \A i \in 1 .. k : i \in 1 .. Len(s)
  BY <1>2
<1>5. t \in [1 .. k -> Nat] /\ k \in Nat
  BY <1>2, <1>3, <1>4
<1>6. t \in Seq(Nat) /\ DOMAIN t = 1 .. k /\ \A i \in 1 .. k : t[i] = s[i]
  BY <1>3, <1>5
<1>7. Descending(t)
  BY <1>2, <1>4, <1>6 DEF Descending
<1>8. Upto(t, n)
  BY <1>2, <1>4, <1>6 DEF Upto
<1>9. QED BY <1>6, <1>7, <1>8

\* Posts in descending order are in order, none twice.
LEMMA DescendingInOrder ==
  ASSUME NEW s \in Seq(Nat), Descending(s)
  PROVE  \A m : InOrder(s, m)
<1>1. DOMAIN s = 1 .. Len(s) /\ \A i \in DOMAIN s : s[i] \in Nat
  BY LenProperties, ElementOfSeq
<1>2. \A i, j \in DOMAIN s : i < j => s[i] > s[j] /\ s[i] # s[j]
  BY <1>1 DEF Descending
<1>3. QED BY <1>2 DEF InOrder

-----------------------------------------------------------------------------
(* A post is written to the file.  *)

\* Apart from its last line, and with it.
LEMMA LastLine ==
  ASSUME NEW lines \in Seq(Row), lines # <<>>
  PROVE  /\ Front(lines) \in Seq(Row) /\ Last(lines) \in Row
         /\ Len(Front(lines)) = Len(lines) - 1
         /\ lines = Append(Front(lines), Last(lines))
         /\ \A l \in Row : Front(lines) \o <<l>> = Append(Front(lines), l)
<1> DEFINE n == Len(lines)
           fr == Front(lines)
           la == Last(lines)
<1>1. n \in Nat /\ n > 0
  BY EmptySeq
<1>2. la \in Row /\ la = lines[n]
  BY <1>1, ElementOfSeq DEF Last
<1>3. fr = [i \in 1 .. n - 1 |-> lines[i]]
  BY <1>1 DEF Front
<1>4. \A i \in 1 .. n - 1 : lines[i] \in Row
  BY <1>1, ElementOfSeq
<1>5. fr \in [1 .. n - 1 -> Row] /\ n - 1 \in Nat
  BY <1>1, <1>3, <1>4
<1>6. fr \in Seq(Row) /\ Len(fr) = n - 1
  <2>1. fr \in Seq(Row)
    BY <1>5
  <2>2. DOMAIN fr = 1 .. n - 1
    BY <1>3
  <2>3. QED BY <1>5, <2>1, <2>2
<1>7. \A i \in 1 .. n - 1 : fr[i] = lines[i]
  BY <1>3
<1> HIDE DEF fr, la
<1>8. /\ Append(fr, la) \in Seq(Row) /\ Len(Append(fr, la)) = n
      /\ \A i \in 1 .. n - 1 : Append(fr, la)[i] = fr[i]
      /\ Append(fr, la)[n] = la
  <2>1. /\ Append(fr, la) \in Seq(Row) /\ Len(Append(fr, la)) = Len(fr) + 1
        /\ \A i \in 1 .. Len(fr) : Append(fr, la)[i] = fr[i]
        /\ Append(fr, la)[Len(fr) + 1] = la
    BY <1>2, <1>6, AppendProperties
  <2>2. Len(fr) + 1 = n
    BY <1>1, <1>6
  <2>3. QED BY <1>6, <2>1, <2>2
<1>9. \A i \in 1 .. n : lines[i] = Append(fr, la)[i]
  <2>1. \A i \in 1 .. n : i = n \/ i \in 1 .. n - 1
    BY <1>1
  <2>2. QED BY <1>2, <1>7, <1>8, <2>1
<1>10. lines = Append(fr, la)
  BY <1>8, <1>9, SeqEqual
<1>11. \A l \in Row : fr \o <<l>> = Append(fr, l)
  BY <1>6
<1>12. QED BY <1>2, <1>6, <1>10, <1>11 DEF fr, la

\* A new line holds the post and is complete.
LEMMA NewLine ==
  ASSUME NEW lines \in Seq(Row), NEW p \in Nat, NEW r \in BOOLEAN, NEW o \in BOOLEAN
  PROVE  LET new == Append(lines, [post |-> p, reads |-> r, open |-> o])
         IN  /\ new \in Seq(Row) /\ Len(new) = Len(lines) + 1 /\ new # <<>>
             /\ HasOpen(new) <=> o
             /\ Displayed(new) =
                  IF r THEN <<p>> \o Displayed(lines) ELSE Displayed(lines)
<1> DEFINE l == [post |-> p, reads |-> r, open |-> o]
           new == Append(lines, l)
<1>1. l \in Row /\ l.reads = r /\ l.open = o /\ l.post = p
  BY DEF Row
<1> HIDE DEF l
<1>2. /\ new \in Seq(Row) /\ new # <<>> /\ Len(new) = Len(lines) + 1
      /\ new[Len(lines) + 1] = l
  BY <1>1, AppendProperties
<1>3. Displayed(new) =
         IF l.reads THEN <<l.post>> \o Displayed(lines) ELSE Displayed(lines)
  BY <1>1, DisplayedAppend
<1> HIDE DEF new
<1>4. Last(new) = l
  BY <1>2 DEF Last
<1>5. HasOpen(new) <=> o
  BY <1>1, <1>2, <1>4 DEF HasOpen
<1>6. QED BY <1>1, <1>2, <1>3, <1>5 DEF new, l

LEMMA AddedIs ==
  ASSUME NEW lines \in Seq(Row), NEW p \in Nat
  PROVE  /\ Added(lines, p) \in Seq(Row) /\ ~HasOpen(Added(lines, p))
         /\ ~HasOpen(lines) =>
              /\ Displayed(Added(lines, p)) = <<p>> \o Displayed(lines)
              /\ Len(Added(lines, p)) = Len(lines) + 1
         /\ HasOpen(lines) => Displayed(Added(lines, p)) = Displayed(lines)
<1>1. CASE ~HasOpen(lines)
  <2> DEFINE new == Append(lines, [post |-> p, reads |-> TRUE, open |-> FALSE])
  <2>1. Added(lines, p) = new
    BY <1>1 DEF Added
  <2>2. /\ new \in Seq(Row) /\ Len(new) = Len(lines) + 1 /\ ~HasOpen(new)
        /\ Displayed(new) = <<p>> \o Displayed(lines)
    BY NewLine
  <2> HIDE DEF new
  <2>3. QED BY <1>1, <2>1, <2>2
<1>2. CASE HasOpen(lines)
  <2> DEFINE fr == Front(lines)
             la == Last(lines)
             l == [la EXCEPT !.open = FALSE]
             new == Append(fr, l)
  <2>1. lines # <<>>
    BY <1>2 DEF HasOpen
  <2>2. fr \in Seq(Row) /\ la \in Row /\ lines = Append(fr, la)
    BY <2>1, LastLine
  <2>3. l \in Row /\ l.reads = la.reads /\ l.post = la.post /\ l.open = FALSE
    <3> HIDE DEF la
    <3>1. QED BY <2>2 DEF Row
  <2>4. Added(lines, p) = fr \o <<l>>
    BY <1>2 DEF Added
  <2> HIDE DEF l, la
  <2>5. Added(lines, p) = new
    BY <2>1, <2>3, <2>4, LastLine
  <2> HIDE DEF fr
  <2>6. Displayed(new) =
         IF l.reads THEN <<l.post>> \o Displayed(fr) ELSE Displayed(fr)
    BY <2>2, <2>3, DisplayedAppend
  <2>7. Displayed(lines) =
         IF la.reads THEN <<la.post>> \o Displayed(fr) ELSE Displayed(fr)
    BY <2>2, DisplayedAppend
  <2>8. new \in Seq(Row) /\ new # <<>> /\ Len(new) = Len(fr) + 1 /\ new[Len(fr) + 1] = l
    BY <2>2, <2>3, AppendProperties
  <2> HIDE DEF new
  <2>9. Last(new) = l
    BY <2>8 DEF Last
  <2>10. ~HasOpen(new)
    BY <2>3, <2>9 DEF HasOpen
  <2>11. QED BY <1>2, <2>3, <2>5, <2>6, <2>7, <2>8, <2>10
<1>3. QED BY <1>1, <1>2

\* A line that is cut short may show the post already, and is open, if it is
\* there at all.
LEMMA PartlyIs ==
  ASSUME NEW lines \in Seq(Row), NEW p \in Nat,
         NEW l \in AddedPartly(lines, p)
  PROVE  /\ l \in Seq(Row)
         /\ \/ l = lines
            \/ /\ ~HasOpen(lines) /\ l # <<>>
               /\ Displayed(l) \in {Displayed(lines), <<p>> \o Displayed(lines)}
<1>1. CASE l = lines
  BY <1>1
<1>2. CASE l # lines
  <2>1. PICK r \in BOOLEAN : l = Append(lines, [post |-> p, reads |-> r, open |-> TRUE])
    BY <1>2 DEF AddedPartly
  <2>2. ~HasOpen(lines)
    BY <1>2 DEF AddedPartly
  <2> DEFINE new == Append(lines, [post |-> p, reads |-> r, open |-> TRUE])
  <2>3. /\ new \in Seq(Row) /\ new # <<>>
        /\ Displayed(new) =
                  IF r THEN <<p>> \o Displayed(lines) ELSE Displayed(lines)
    BY NewLine
  <2> HIDE DEF new
  <2>4. l = new
    BY <2>1 DEF new
  <2>5. QED BY <2>2, <2>3, <2>4
<1>3. QED BY <1>1, <1>2

\* One more post has been made.
LEMMA OneMore ==
  ASSUME NEW n \in Nat, NEW m
  PROVE  /\ \A s : TextOK(s, n) => TextOK(s, n + 1)
         /\ \A lines : LinesOK(lines, m, n) => LinesOK(lines, m, n + 1)
<1>1. \A s : Upto(s, n) => Upto(s, n + 1)
  BY DEF Upto
<1>2. QED BY <1>1 DEF TextOK, LinesOK

\* The newest post is written to the file, whole or in part.
LEMMA NewestAdded ==
  ASSUME NEW lines \in Seq(Row), NEW n \in Nat, NEW m \in SUBSET (1 .. n),
         LinesOK(lines, m, n), NEW l,
         Displayed(l) \in {Displayed(lines), <<n + 1>> \o Displayed(lines)}
  PROVE  LinesOK(l, m, n + 1)
<1> DEFINE s == Displayed(lines)
           p == n + 1
           t == <<p>> \o s
<1>0. p \in Nat /\ p = n + 1
  OBVIOUS
<1>1. s \in Seq(Nat) /\ InOrder(s, m) /\ Upto(s, n)
  BY DEF LinesOK
<1>2. CASE Displayed(l) = s
  <2>1. Upto(s, n + 1)
    BY <1>1 DEF Upto
  <2>2. QED BY <1>1, <1>2, <2>1 DEF LinesOK
<1>3. CASE Displayed(l) = t
  <2> HIDE DEF s, p
  <2>1. \A i \in DOMAIN s : s[i] \in 1 .. n
    BY <1>1 DEF Upto
  <2>2. p \notin ToSet(s) /\ \A i \in DOMAIN s : p > s[i]
    BY <1>0, <2>1 DEF ToSet
  <2>3. InOrder(t, m)
    BY <1>0, <1>1, <2>2, OnTopInOrder
  <2>4. /\ t \in Seq(Nat) /\ t[1] = p
        /\ \A k \in DOMAIN t : k = 1 \/ (k - 1 \in DOMAIN s /\ t[k] = s[k - 1])
    BY <1>0, <1>1, OnTop
  <2> HIDE DEF t
  <2>5. ASSUME NEW k \in DOMAIN t
        PROVE  t[k] \in 1 .. p
    <3>1. CASE k = 1
      BY <1>0, <2>4, <3>1
    <3>2. CASE k # 1
      <4>1. k - 1 \in DOMAIN s /\ t[k] = s[k - 1]
        BY <2>4, <3>2
      <4>2. s[k - 1] \in 1 .. n
        BY <2>1, <4>1
      <4>3. QED BY <1>0, <4>1, <4>2
    <3>3. QED BY <3>1, <3>2
  <2>6. Upto(t, p)
    BY <2>5 DEF Upto
  <2>7. LinesOK(l, m, p)
    BY <1>3, <2>3, <2>4, <2>6 DEF LinesOK
  <2>8. QED BY <2>7 DEF p
<1>4. QED BY <1>2, <1>3

-----------------------------------------------------------------------------
(* What is lost. *)

LEMMA LostLess ==
  ASSUME NEW n \in Nat, NEW ans \in SUBSET (1 .. n), NEW p \in Nat,
         NEW found, NEW more, found \subseteq more
  PROVE  /\ Cardinality(ans \ found) \in Nat /\ Cardinality(ans \ more) \in Nat
         /\ Cardinality((ans \cup {p}) \ more) \in Nat
         /\ Cardinality(ans \ more) <= Cardinality(ans \ found)
         /\ Cardinality((ans \cup {p}) \ more) <= Cardinality(ans \ found) + 1
         /\ p \in more => Cardinality((ans \cup {p}) \ more) <= Cardinality(ans \ found)
<1>1. IsFiniteSet(1 .. n)
  <2>1. 1 \in Int /\ n \in Int
    OBVIOUS
  <2>2. QED BY <2>1, FS_Interval
<1>2. IsFiniteSet(ans)
  BY <1>1, FS_Subset
<1>3. IsFiniteSet(ans \ found)
  <2>1. ans \ found \in SUBSET ans
    OBVIOUS
  <2>2. QED BY <1>2, <2>1, FS_Subset
<1>4. IsFiniteSet(ans \ more) /\ Cardinality(ans \ more) <= Cardinality(ans \ found)
  <2>1. ans \ more \in SUBSET (ans \ found)
    OBVIOUS
  <2>2. QED BY <1>3, <2>1, FS_Subset
<1>5. Cardinality(ans \ found) \in Nat /\ Cardinality(ans \ more) \in Nat
  BY <1>3, <1>4, FS_CardinalityType
<1>6. CASE p \in more
  <2>1. (ans \cup {p}) \ more = ans \ more
    BY <1>6
  <2>2. Cardinality((ans \cup {p}) \ more) = Cardinality(ans \ more)
    BY <2>1
  <2>3. \A x, y \in Nat : y <= x => y <= x + 1
    OBVIOUS
  <2>4. Cardinality(ans \ more) <= Cardinality(ans \ found) + 1
    BY <1>4, <1>5, <2>3
  <2>5. QED BY <1>4, <1>5, <2>2, <2>4
<1>7. CASE p \notin more
  <2> DEFINE S == ans \ more
  <2>1. (ans \cup {p}) \ more = S \cup {p}
    BY <1>7
  <2>2. Cardinality(S \cup {p}) = IF p \in S THEN Cardinality(S) ELSE Cardinality(S) + 1
    BY <1>4, FS_AddElement
  <2>3. Cardinality(S) \in Nat /\ Cardinality(S) <= Cardinality(ans \ found)
    BY <1>4, <1>5
  <2>4. Cardinality(S \cup {p}) \in Nat /\ Cardinality(S \cup {p}) <= Cardinality(ans \ found) + 1
    <3> HIDE DEF S
    <3>1. QED BY <1>5, <2>2, <2>3
  <2>5. QED BY <1>4, <1>5, <1>7, <2>1, <2>4
<1>8. QED BY <1>6, <1>7

\* A whole line costs nothing that was not lost before.
LEMMA AddedLost ==
  ASSUME NEW lines \in Seq(Row), Displayed(lines) \in Seq(Nat), NEW p \in Nat,
         NEW n \in Nat, NEW ans \in SUBSET (1 .. n), NEW c \in Nat,
         Lost(ans, ToSet(Displayed(lines)), lines, c), NEW l, l = Added(lines, p)
  PROVE  /\ Lost(ans \cup {p}, ToSet(Displayed(l)), l, c)
         /\ Lost(ans, ToSet(Displayed(l)), l, c)
<1> DEFINE R == ToSet(Displayed(lines))
           Q == ToSet(Displayed(l))
           x == Cardinality(ans \ R)
           y == Cardinality((ans \cup {p}) \ Q)
           z == Cardinality(ans \ Q)
<1>1. /\ ~HasOpen(l)
      /\ ~HasOpen(lines) => Displayed(l) = <<p>> \o Displayed(lines)
      /\ HasOpen(lines) => Displayed(l) = Displayed(lines)
  BY AddedIs
<1>2. ~HasOpen(lines) => Q = R \cup {p}
  <2>1. ToSet(<<p>> \o Displayed(lines)) = R \cup {p}
    BY OnTopSet
  <2>2. QED BY <1>1, <2>1
<1>3. R \subseteq Q
  BY <1>1, <1>2
<1>4. x + (IF HasOpen(lines) THEN 1 ELSE 0) <= c
  BY DEF Lost
<1> HIDE DEF R, Q
<1>5. /\ x \in Nat /\ y \in Nat /\ z \in Nat /\ z <= x /\ y <= x + 1
      /\ p \in Q => y <= x
  BY <1>3, LostLess
<1> HIDE DEF x, y, z
<1>6. y <= c /\ z <= c
  BY <1>2, <1>4, <1>5
<1>7. y + 0 <= c /\ z + 0 <= c
  BY <1>5, <1>6
<1>8. QED BY <1>1, <1>7 DEF Lost, y, z, Q

\* A line that is cut short costs its own post, if it was answered, and the
\* next one.
LEMMA PartlyLost ==
  ASSUME NEW lines \in Seq(Row), Displayed(lines) \in Seq(Nat), NEW p \in Nat,
         NEW n \in Nat, NEW ans \in SUBSET (1 .. n), NEW c \in Nat,
         Lost(ans, ToSet(Displayed(lines)), lines, c),
         NEW l \in AddedPartly(lines, p)
  PROVE  /\ Lost(ans \cup {p}, ToSet(Displayed(l)), l, c + 2)
         /\ Lost(ans, ToSet(Displayed(l)), l, c + 1)
<1> DEFINE R == ToSet(Displayed(lines))
           Q == ToSet(Displayed(l))
           x == Cardinality(ans \ R)
           y == Cardinality((ans \cup {p}) \ Q)
           z == Cardinality(ans \ Q)
<1>1. \/ l = lines
      \/ /\ ~HasOpen(lines) /\ l # <<>>
         /\ Displayed(l) \in {Displayed(lines), <<p>> \o Displayed(lines)}
  BY PartlyIs
<1>2. R \subseteq Q
  <2>1. ToSet(<<p>> \o Displayed(lines)) = R \cup {p}
    BY OnTopSet
  <2>2. CASE Displayed(l) = Displayed(lines)
    BY <2>2
  <2>3. CASE Displayed(l) = <<p>> \o Displayed(lines)
    <3>1. Q = R \cup {p}
      BY <2>1, <2>3
    <3> HIDE DEF R, Q
    <3>2. QED BY <3>1
  <2>4. QED BY <1>1, <2>2, <2>3
<1>3. x + (IF HasOpen(lines) THEN 1 ELSE 0) <= c
  BY DEF Lost
<1> HIDE DEF R, Q
<1>4. x \in Nat /\ y \in Nat /\ z \in Nat /\ z <= x /\ y <= x + 1
  BY <1>2, LostLess
<1> HIDE DEF x, y, z
<1>5. /\ y + (IF HasOpen(l) THEN 1 ELSE 0) <= c + 2
      /\ z + (IF HasOpen(l) THEN 1 ELSE 0) <= c + 1
  <2>1. CASE l = lines
    BY <1>3, <1>4, <2>1
  <2>2. CASE ~HasOpen(lines)
    BY <1>3, <1>4, <2>2
  <2>3. QED BY <1>1, <2>1, <2>2
<1>6. QED BY <1>5 DEF Lost, y, z, Q

LEMMA LostBound ==
  ASSUME NEW n \in Nat, NEW ans \in SUBSET (1 .. n), NEW found, NEW lines,
         NEW c \in Nat, NEW d \in Nat, c <= d, Lost(ans, found, lines, c)
  PROVE  Lost(ans, found, lines, d) /\ Cardinality(ans \ found) <= c
<1> DEFINE x == Cardinality(ans \ found)
<1>1. x \in Nat
  <2>1. 0 \in Nat /\ found \subseteq found
    OBVIOUS
  <2>2. QED BY <2>1, LostLess
<1>2. x + (IF HasOpen(lines) THEN 1 ELSE 0) <= c
  BY DEF Lost
<1> HIDE DEF x
<1>3. x + (IF HasOpen(lines) THEN 1 ELSE 0) <= d /\ x <= c
  BY <1>1, <1>2
<1>4. QED BY <1>3 DEF Lost, x

-----------------------------------------------------------------------------
(* Steps. *)

LEMMA NoneOK == \A m, n : LinesOK(<<>>, m, n)
<1>1. <<>> \in Seq(Nat) /\ DOMAIN <<>> = {}
  OBVIOUS
<1>2. QED BY <1>1, DisplayedNone DEF LinesOK, InOrder, Upto

LEMMA InitInv == BoardInit => BoardIInv
<1> SUFFICES ASSUME BoardInit PROVE BoardIInv
  OBVIOUS
<1>1. PICK n \in 0 .. MaxOld :
        /\ txt \in {[there |-> TRUE, posts |-> Newest(n)]}
                     \cup (IF n = 0 THEN {NoText} ELSE {})
        /\ boardPosts = n /\ answered = 1 .. n
  BY DEF BoardInit
<1>2. n \in Nat
  OBVIOUS
<1>3. /\ jsonl = [there |-> FALSE, lines |-> <<>>] /\ phase = "down" /\ backend = "jsonl"
      /\ shown = <<>> /\ migrated = {} /\ cuts = 0 /\ tears = 0 /\ wiped = FALSE
  BY DEF BoardInit, NoLines
<1>4. jsonl.there = FALSE /\ jsonl.lines = <<>> /\ jsonl \in [there: BOOLEAN, lines: Seq(Row)]
  BY <1>3
<1>5. \/ txt = [there |-> TRUE, posts |-> Newest(n)]
      \/ n = 0 /\ txt = [there |-> FALSE, posts |-> <<>>]
  BY <1>1 DEF NoText
<1>6. /\ Newest(n) \in Seq(Nat) /\ DOMAIN Newest(n) = 1 .. n /\ Len(Newest(n)) = n
      /\ \A i \in 1 .. n : Newest(n)[i] = n + 1 - i
  <2>1. Newest(n) \in [1 .. n -> Nat]
    BY <1>2 DEF Newest
  <2>2. QED BY <1>2, <2>1 DEF Newest
<1> DEFINE s == Newest(n)
<1>7. Descending(s) /\ Upto(s, n) /\ ToSet(s) = 1 .. n
  <2>1. Descending(s)
    BY <1>2, <1>6 DEF Descending
  <2>2. Upto(s, n)
    BY <1>2, <1>6 DEF Upto
  <2>3. ASSUME NEW p \in 1 .. n
        PROVE  p \in ToSet(s)
    <3>1. n + 1 - p \in 1 .. n /\ n + 1 - (n + 1 - p) = p
      BY <1>2
    <3>2. s[n + 1 - p] = p
      BY <1>6, <3>1
    <3>3. QED BY <1>6, <3>1, <3>2 DEF ToSet
  <2>4. ToSet(s) \subseteq 1 .. n
    BY <2>2 DEF Upto, ToSet
  <2>5. QED BY <2>1, <2>2, <2>3, <2>4
<1> HIDE DEF s
<1>8. /\ txt \in [there: BOOLEAN, posts: Seq(Nat)]
      /\ (txt.there = TRUE /\ txt.posts = s) \/ (n = 0 /\ txt.posts = <<>>)
  <2>1. CASE txt = [there |-> TRUE, posts |-> Newest(n)]
    BY <1>6, <2>1 DEF s
  <2>2. CASE n = 0 /\ txt = [there |-> FALSE, posts |-> <<>>]
    BY <2>2
  <2>3. QED BY <1>5, <2>1, <2>2
<1>9. BoardTypes
  <2>1. /\ boardPosts \in Nat
        /\ answered \subseteq 1 .. boardPosts /\ migrated \subseteq 1 .. boardPosts
    BY <1>1, <1>2, <1>3
  <2>2. shown \in Seq(Nat) /\ jsonl \in [there: BOOLEAN, lines: Seq(Row)]
    BY <1>3, <1>4
  <2>3. cuts \in Nat /\ tears \in Nat /\ wiped \in BOOLEAN
    BY <1>3
  <2>4. QED BY <1>3, <1>8, <2>1, <2>2, <2>3 DEF BoardTypes
<1>10. Ordered
  <2>1. LinesOK(<<>>, migrated, boardPosts)
    BY NoneOK
  <2>2. TextOK(<<>>, n)
    BY DEF TextOK, Descending, Upto
  <2>3. TextOK(s, n)
    BY <1>6, <1>7 DEF TextOK, s
  <2>4. QED BY <1>1, <1>4, <1>8, <2>1, <2>2, <2>3 DEF Ordered
<1>11. Shows /\ Migrating
  BY <1>3 DEF Shows, Migrating
<1>12. Counted
  <2>1. answered \ Found = {}
    <3>1. CASE n = 0
      BY <1>1, <3>1
    <3>2. CASE n # 0
      <4>1. s # <<>>
        BY <1>2, <1>6, <3>2 DEF s
      <4>2. Found = ToSet(s)
        BY <1>3, <1>4, <1>8, <3>2, <4>1 DEF Found, BoardOnDisk, JsonRules
      <4>3. QED BY <1>1, <1>7, <4>2
    <3>3. QED BY <3>1, <3>2
  <2>2. Cardinality(answered \ Found) = 0
    BY <2>1, FS_EmptySet
  <2>3. ~HasOpen(jsonl.lines)
    BY <1>4 DEF HasOpen
  <2>4. QED BY <1>3, <2>2, <2>3 DEF Counted, Lost
<1>13. QED BY <1>9, <1>10, <1>11, <1>12 DEF BoardIInv

LEMMA StartInv == BoardIInv /\ Start => BoardIInv'
<1> SUFFICES ASSUME BoardIInv, Start PROVE BoardIInv'
  OBVIOUS
<1>1. /\ phase = "down" /\ JsonRules /\ phase' = "up" /\ backend' = "jsonl"
      /\ shown' = Displayed(jsonl.lines) /\ txt' = txt /\ boardPosts' = boardPosts
      /\ answered' = answered /\ migrated' = migrated /\ cuts' = cuts
      /\ tears' = tears /\ wiped' = wiped
      /\ jsonl' = jsonl \/ jsonl' = [jsonl EXCEPT !.there = TRUE]
  BY DEF Start, Run, history
<1>2. BoardTypes /\ Ordered /\ Counted
  BY DEF BoardIInv
<1>3. /\ jsonl' \in [there: BOOLEAN, lines: Seq(Row)] /\ jsonl'.lines = jsonl.lines
      /\ jsonl.there => jsonl'.there
  BY <1>1, <1>2 DEF BoardTypes
<1>4. JsonRules'
  BY <1>1, <1>3 DEF JsonRules
<1>5. BoardTypes'
  BY <1>1, <1>2, <1>3 DEF BoardTypes, Ordered, LinesOK
<1>6. Ordered'
  BY <1>1, <1>2, <1>3 DEF Ordered
<1>7. Shows' /\ Migrating'
  BY <1>1, <1>3, <1>4 DEF Shows, Migrating
<1>8. Found' = Found
  BY <1>1, <1>3, <1>4 DEF Found, BoardOnDisk
<1>9. Counted'
  BY <1>1, <1>2, <1>3, <1>8 DEF Counted
<1>10. QED BY <1>5, <1>6, <1>7, <1>9 DEF BoardIInv

LEMMA MigrateOpenInv == BoardIInv /\ MigrateOpen => BoardIInv'
<1> SUFFICES ASSUME BoardIInv, MigrateOpen PROVE BoardIInv'
  OBVIOUS
<1>1. /\ phase = "down" /\ ~JsonRules /\ phase' = "migrating" /\ backend' = backend
      /\ jsonl' = [there |-> TRUE, lines |-> <<>>] /\ migrated' = ToSet(txt.posts)
      /\ shown' = shown /\ txt' = txt /\ boardPosts' = boardPosts
      /\ answered' = answered /\ cuts' = cuts /\ tears' = tears /\ wiped' = wiped
  BY DEF MigrateOpen, ToMigrate, NoLines
<1>2. BoardTypes /\ Ordered /\ Shows /\ Counted
  BY DEF BoardIInv
<1>3. jsonl'.there = TRUE /\ jsonl'.lines = <<>> /\ jsonl' \in [there: BOOLEAN, lines: Seq(Row)]
  BY <1>1
<1>4. jsonl.lines = <<>>
  BY <1>1, <1>2 DEF Ordered, JsonRules
<1>5. migrated' \subseteq 1 .. boardPosts
  BY <1>1, <1>2 DEF Ordered, TextOK, Upto, ToSet
<1>6. BoardTypes'
  BY <1>1, <1>2, <1>3, <1>5 DEF BoardTypes
<1>7. LinesOK(<<>>, migrated', boardPosts')
  BY NoneOK
<1>8. Ordered'
  BY <1>1, <1>2, <1>3, <1>7 DEF Ordered
<1>9. Shows'
  BY <1>1, <1>2 DEF Shows
<1>10. Migrating'
  <2>1. txt.posts \in Seq(Nat) /\ Len(txt.posts) \in Nat
    BY <1>2, LenProperties DEF BoardTypes
  <2>2. Len(<<>>) = 0 /\ 1 .. 0 = {} /\ 0 <= Len(txt.posts)
    BY <2>1
  <2>3. QED BY <1>1, <1>3, <2>2, DisplayedNone DEF Migrating, HasOpen, ToSet, FirstOf
<1>11. Found' = Found
  BY <1>1 DEF Found, BoardOnDisk
<1>12. Counted'
  BY <1>1, <1>2, <1>3, <1>4, <1>11 DEF Counted, Lost, HasOpen
<1>13. QED BY <1>6, <1>8, <1>9, <1>10, <1>12 DEF BoardIInv

LEMMA MigrationFailsInv == BoardIInv /\ MigrationFails => BoardIInv'
<1> SUFFICES ASSUME BoardIInv, MigrationFails PROVE BoardIInv'
  OBVIOUS
<1>1. /\ phase = "down" /\ ~JsonRules /\ phase' = "up" /\ backend' = "text"
      /\ shown' = txt.posts /\ txt' = txt /\ jsonl' = jsonl /\ boardPosts' = boardPosts
      /\ answered' = answered /\ migrated' = migrated /\ cuts' = cuts + 1
      /\ tears' = tears /\ wiped' = wiped
  BY DEF MigrationFails, ToMigrate, Run, Fault, files
<1>2. BoardTypes /\ Ordered /\ Counted
  BY DEF BoardIInv
<1>3. txt.posts \in Seq(Nat) /\ cuts' \in Nat
  BY <1>1, <1>2 DEF BoardTypes
<1>4. BoardTypes'
  BY <1>1, <1>2, <1>3 DEF BoardTypes
<1>5. Ordered'
  BY <1>1, <1>2 DEF Ordered
<1>6. Shows' /\ Migrating'
  BY <1>1, <1>2 DEF Shows, Migrating, Ordered, JsonRules
<1>7. Found' = Found
  BY <1>1 DEF Found, BoardOnDisk, JsonRules
<1>8. Counted'
  <2> DEFINE c == 2 * cuts + tears
             d == 2 * (cuts + 1) + tears
  <2>1. c \in Nat /\ d \in Nat /\ c <= d
    BY <1>2 DEF BoardTypes
  <2> HIDE DEF c, d
  <2>2. ~wiped => Lost(answered, Found, jsonl.lines, c)
    BY <1>2 DEF Counted, c
  <2>3. boardPosts \in Nat /\ answered \in SUBSET (1 .. boardPosts)
    BY <1>2 DEF BoardTypes
  <2>4. ~wiped => Lost(answered, Found, jsonl.lines, d)
    BY <2>1, <2>2, <2>3, LostBound
  <2>5. QED BY <1>1, <1>7, <2>4 DEF Counted, d
<1>9. QED BY <1>4, <1>5, <1>6, <1>8 DEF BoardIInv

\* The next post of the text is written to the file, whole or in part.
LEMMA NextWritten ==
  ASSUME NEW n \in Nat, NEW text, TextOK(text, n), NEW lines \in Seq(Row),
         Len(lines) < Len(text), NEW m, m = ToSet(text), LinesOK(lines, m, n),
         ToSet(Displayed(lines)) = FirstOf(text, Len(lines)),
         NEW l,
         Displayed(l) \in {Displayed(lines), <<text[Len(lines) + 1]>> \o Displayed(lines)}
  PROVE  /\ LinesOK(l, m, n)
         /\ Displayed(l) # Displayed(lines) =>
              ToSet(Displayed(l)) = FirstOf(text, Len(lines) + 1)
<1> DEFINE s == Displayed(lines)
           k == Len(lines)
           p == text[k + 1]
           t == <<p>> \o s
<1>1. text \in Seq(Nat) /\ k \in Nat /\ k + 1 \in 1 .. Len(text) /\ DOMAIN text = 1 .. Len(text)
      /\ 1 .. k \subseteq DOMAIN text
  BY LenProperties DEF TextOK
<1>2. p \in 1 .. n /\ p \in m /\ p \in Nat
  BY <1>1 DEF TextOK, Upto, ToSet
<1>3. s \in Seq(Nat) /\ InOrder(s, m) /\ Upto(s, n)
  BY DEF LinesOK
<1>4. CASE Displayed(l) = s
  BY <1>4, <1>3 DEF LinesOK
<1>5. CASE Displayed(l) = t
  <2>1. ToSet(s) = FirstOf(text, k)
    OBVIOUS
  <2>2. \A i \in 1 .. k : text[i] > p /\ text[i] \in m /\ text[i] \in Nat
    <3>1. ASSUME NEW i \in 1 .. k
          PROVE  text[i] > p /\ text[i] \in m /\ text[i] \in Nat
      <4>1. i \in DOMAIN text /\ k + 1 \in DOMAIN text /\ i < k + 1
        BY <1>1
      <4>2. text[i] > text[k + 1]
        BY <4>1 DEF TextOK, Descending
      <4>3. text[i] \in Nat
        BY <4>1, <1>1, ElementOfSeq
      <4>4. QED BY <4>1, <4>2, <4>3 DEF ToSet
    <3>2. QED BY <3>1
  <2> HIDE DEF p, s
  <2>3. p \notin ToSet(s) /\ ToSet(s) \subseteq m
    BY <1>2, <2>1, <2>2 DEF FirstOf
  <2>4. \A i \in DOMAIN s : {p, s[i]} \subseteq m
    BY <1>2, <2>3 DEF ToSet
  <2>5. InOrder(t, m)
    BY <1>2, <1>3, <2>3, <2>4, OnTopInOrder
  <2>6. t \in Seq(Nat) /\ ToSet(t) = ToSet(s) \cup {p}
    BY <1>2, <1>3, OnTopSet
  <2>10. /\ t[1] = p
         /\ \A j \in DOMAIN t : j = 1 \/ (j - 1 \in DOMAIN s /\ t[j] = s[j - 1])
    BY <1>2, <1>3, OnTop
  <2> HIDE DEF t
  <2>7. Upto(t, n)
    BY <1>2, <1>3, <2>10 DEF Upto
  <2>8. ToSet(t) = FirstOf(text, k + 1)
    <3>1. \A i : i \in 1 .. k + 1 <=> i \in 1 .. k \/ i = k + 1
      BY <1>1
    <3>2. QED BY <2>1, <2>6, <3>1 DEF p, FirstOf
  <2>9. QED BY <1>5, <2>5, <2>6, <2>7, <2>8 DEF LinesOK
<1>6. QED BY <1>4, <1>5

LEMMA MigrateLineInv == BoardIInv /\ MigrateLine => BoardIInv'
<1> SUFFICES ASSUME BoardIInv, MigrateLine PROVE BoardIInv'
  OBVIOUS
<1> DEFINE lines == jsonl.lines
           text == txt.posts
           k == Len(lines)
           p == text[k + 1]
           l == Added(lines, p)
<1>1. /\ phase = "migrating" /\ k < Len(text) /\ jsonl' = [jsonl EXCEPT !.lines = l]
      /\ phase' = phase /\ backend' = backend /\ shown' = shown /\ txt' = txt
      /\ boardPosts' = boardPosts /\ answered' = answered /\ migrated' = migrated
      /\ cuts' = cuts /\ tears' = tears /\ wiped' = wiped
  BY DEF MigrateLine, history
<1>2. BoardTypes /\ Ordered /\ Shows /\ Migrating /\ Counted
  BY DEF BoardIInv
<1>3. /\ lines \in Seq(Row) /\ text \in Seq(Nat) /\ k \in Nat /\ Len(text) \in Nat
      /\ k + 1 \in 1 .. Len(text) /\ p \in Nat
  <2>1. lines \in Seq(Row) /\ text \in Seq(Nat)
    BY <1>2 DEF BoardTypes
  <2>2. k \in Nat /\ Len(text) \in Nat
    BY <2>1, LenProperties
  <2>3. k + 1 \in 1 .. Len(text)
    BY <1>1, <2>2
  <2>4. QED BY <2>1, <2>2, <2>3, ElementOfSeq
<1>4. /\ jsonl.there /\ ~HasOpen(lines) /\ migrated = ToSet(text)
      /\ ToSet(Displayed(lines)) = FirstOf(text, k)
  BY <1>1, <1>2 DEF Migrating
<1> HIDE DEF p
<1>5. /\ l \in Seq(Row) /\ ~HasOpen(l) /\ Displayed(l) = <<p>> \o Displayed(lines)
      /\ Len(l) = k + 1
  BY <1>3, <1>4, AddedIs
<1> HIDE DEF l
<1>6. jsonl' \in [there: BOOLEAN, lines: Seq(Row)] /\ jsonl'.lines = l /\ jsonl'.there
  BY <1>1, <1>2, <1>4, <1>5 DEF BoardTypes
<1>7. LinesOK(lines, migrated, boardPosts) /\ TextOK(text, boardPosts) /\ boardPosts \in Nat
  BY <1>2 DEF Ordered, BoardTypes
<1> HIDE DEF lines, text
<1>8. LinesOK(l, migrated, boardPosts) /\ ToSet(Displayed(l)) = FirstOf(text, k + 1)
  <2>1. Displayed(l) # Displayed(lines)
    <3>1. Displayed(lines) \in Seq(Nat)
      BY <1>7 DEF LinesOK
    <3>2. /\ Len(Displayed(l)) = Len(Displayed(lines)) + 1
          /\ Len(Displayed(lines)) \in Nat
      BY <1>3, <1>5, <3>1, OnTop
    <3>3. QED BY <3>2
  <2>2. Displayed(l) \in
          {Displayed(lines), <<text[Len(lines) + 1]>> \o Displayed(lines)}
    BY <1>5 DEF p
  <2>3. /\ boardPosts \in Nat /\ TextOK(text, boardPosts) /\ lines \in Seq(Row)
        /\ Len(lines) < Len(text) /\ migrated = ToSet(text)
        /\ LinesOK(lines, migrated, boardPosts)
        /\ ToSet(Displayed(lines)) = FirstOf(text, Len(lines))
    BY <1>1, <1>3, <1>4, <1>7
  <2>4. /\ LinesOK(l, migrated, boardPosts)
        /\ Displayed(l) # Displayed(lines) =>
             ToSet(Displayed(l)) = FirstOf(text, Len(lines) + 1)
    BY ONLY <2>2, <2>3, NextWritten
  <2>5. QED BY <2>1, <2>4
<1>9. BoardTypes'
  BY <1>1, <1>2, <1>6 DEF BoardTypes
<1>10. Ordered'
  BY <1>1, <1>6, <1>7, <1>8 DEF Ordered, text
<1>11. Shows'
  BY <1>1, <1>2 DEF Shows
<1>12. Migrating'
  <2>1. txt'.posts = text /\ Len(jsonl'.lines) = k + 1 /\ k + 1 <= Len(text)
    BY <1>1, <1>3, <1>5, <1>6 DEF text
  <2>2. /\ jsonl'.there /\ ~HasOpen(jsonl'.lines) /\ migrated' = ToSet(txt'.posts)
        /\ ToSet(Displayed(jsonl'.lines)) = FirstOf(txt'.posts, Len(jsonl'.lines))
    BY <1>1, <1>4, <1>5, <1>6, <1>8, <2>1
  <2> HIDE DEF k
  <2>3. QED BY <2>1, <2>2 DEF Migrating
<1>13. Counted'
  <2>1. Found' = Found
    BY <1>1 DEF Found
  <2>2. QED BY <1>1, <1>2, <1>4, <1>5, <1>6, <2>1 DEF Counted, Lost, lines
<1>14. QED BY <1>9, <1>10, <1>11, <1>12, <1>13 DEF BoardIInv

\* The migration is cut short.
LEMMA CutIs ==
  ASSUME BoardTypes, Ordered, Migrating, phase = "migrating", CutMigration
  PROVE  /\ jsonl' \in [there: BOOLEAN, lines: Seq(Row)] /\ jsonl'.there
         /\ LinesOK(jsonl'.lines, migrated, boardPosts)
<1> DEFINE lines == jsonl.lines
           text == txt.posts
           k == Len(lines)
           p == text[k + 1]
<1>1. PICK l \in AddedPartly(lines, p) : jsonl' = [jsonl EXCEPT !.lines = l]
  BY DEF CutMigration
<1>2. /\ lines \in Seq(Row) /\ text \in Seq(Nat) /\ k \in Nat /\ Len(text) \in Nat
      /\ k + 1 \in 1 .. Len(text) /\ p \in Nat /\ k < Len(text)
  <2>1. lines \in Seq(Row) /\ text \in Seq(Nat)
    BY DEF BoardTypes
  <2>2. k \in Nat /\ Len(text) \in Nat
    BY <2>1, LenProperties
  <2>3. k < Len(text)
    BY DEF CutMigration
  <2>4. k + 1 \in 1 .. Len(text)
    BY <2>2, <2>3
  <2>5. QED BY <2>1, <2>2, <2>3, <2>4, ElementOfSeq
<1>3. /\ jsonl.there /\ migrated = ToSet(text)
      /\ ToSet(Displayed(lines)) = FirstOf(text, k)
  BY DEF Migrating
<1>4. LinesOK(lines, migrated, boardPosts) /\ TextOK(text, boardPosts) /\ boardPosts \in Nat
  BY DEF Ordered, BoardTypes
<1> HIDE DEF p
<1>5. /\ l \in Seq(Row)
      /\ Displayed(l) \in {Displayed(lines), <<p>> \o Displayed(lines)}
  BY <1>2, PartlyIs
<1>6. jsonl' \in [there: BOOLEAN, lines: Seq(Row)] /\ jsonl'.lines = l /\ jsonl'.there
  BY <1>1, <1>3, <1>5 DEF BoardTypes
<1> HIDE DEF lines, text
<1>7. LinesOK(l, migrated, boardPosts)
  <2>1. Displayed(l) \in
          {Displayed(lines), <<text[Len(lines) + 1]>> \o Displayed(lines)}
    BY <1>5 DEF p
  <2>2. /\ boardPosts \in Nat /\ TextOK(text, boardPosts) /\ lines \in Seq(Row)
        /\ Len(lines) < Len(text) /\ migrated = ToSet(text)
        /\ LinesOK(lines, migrated, boardPosts)
        /\ ToSet(Displayed(lines)) = FirstOf(text, Len(lines))
    BY <1>2, <1>3, <1>4
  <2>3. QED BY ONLY <2>1, <2>2, NextWritten
<1>8. QED BY <1>6, <1>7

\* All of the text is in the file.
LEMMA AllWritten ==
  ASSUME BoardTypes, Migrating, phase = "migrating", ~(Len(jsonl.lines) < Len(txt.posts))
  PROVE  /\ ToSet(Displayed(jsonl.lines)) = ToSet(txt.posts)
         /\ Len(jsonl.lines) = Len(txt.posts)
<1>1. jsonl.lines \in Seq(Row) /\ txt.posts \in Seq(Nat)
  BY DEF BoardTypes
<1>2. /\ Len(jsonl.lines) \in Nat /\ Len(txt.posts) \in Nat
      /\ DOMAIN txt.posts = 1 .. Len(txt.posts)
  BY <1>1, LenProperties
<1>3. /\ Len(jsonl.lines) <= Len(txt.posts)
      /\ ToSet(Displayed(jsonl.lines)) = FirstOf(txt.posts, Len(jsonl.lines))
  BY DEF Migrating
<1>4. Len(jsonl.lines) = Len(txt.posts)
  BY <1>2, <1>3
<1>5. QED BY <1>2, <1>3, <1>4 DEF ToSet, FirstOf

LEMMA MigrateDoneInv == BoardIInv /\ MigrateDone => BoardIInv'
<1> SUFFICES ASSUME BoardIInv, MigrateDone PROVE BoardIInv'
  OBVIOUS
<1>1. /\ phase = "migrating" /\ phase' = "up" /\ backend' = "jsonl"
      /\ shown' = Displayed(jsonl'.lines) /\ txt' \in {NoText, txt}
      /\ boardPosts' = boardPosts /\ answered' = answered /\ migrated' = migrated /\ tears' = tears
  BY DEF MigrateDone, Run
<1>2. BoardTypes /\ Ordered /\ Migrating /\ Counted
  BY DEF BoardIInv
<1>3. /\ jsonl' \in [there: BOOLEAN, lines: Seq(Row)] /\ jsonl'.there
      /\ LinesOK(jsonl'.lines, migrated, boardPosts) /\ cuts' \in Nat /\ wiped' \in BOOLEAN
      /\ ~wiped' => /\ jsonl' = jsonl /\ cuts' = cuts /\ wiped' = wiped
                    /\ ~(Len(jsonl.lines) < Len(txt.posts))
  <2>1. CASE Len(jsonl.lines) = Len(txt.posts)
    <3>1. jsonl' = jsonl /\ cuts' = cuts /\ wiped' = wiped
      BY <2>1 DEF MigrateDone
    <3>2. Len(txt.posts) \in Nat
      BY <1>2, LenProperties DEF BoardTypes
    <3>3. ~(Len(jsonl.lines) < Len(txt.posts))
      BY <2>1, <3>2
    <3>4. QED BY <1>1, <1>2, <3>1, <3>3 DEF BoardTypes, Ordered, Migrating
  <2>2. CASE Len(jsonl.lines) # Len(txt.posts)
    <3>1. CutMigration /\ cuts' = cuts + 1 /\ wiped' = TRUE
      BY <2>2 DEF MigrateDone, Fault
    <3>2. cuts' \in Nat
      BY <1>2, <3>1 DEF BoardTypes
    <3>3. QED BY <1>1, <1>2, <3>1, <3>2, CutIs
  <2>3. QED BY <2>1, <2>2
<1>4. /\ txt' \in [there: BOOLEAN, posts: Seq(Nat)] /\ TextOK(txt'.posts, boardPosts)
  <2>1. NoText \in [there: BOOLEAN, posts: Seq(Nat)] /\ NoText.posts = <<>>
    BY DEF NoText
  <2>2. TextOK(<<>>, boardPosts)
    BY DEF TextOK, Descending, Upto
  <2>3. QED BY <1>1, <1>2, <2>1, <2>2 DEF BoardTypes, Ordered
<1>5. shown' \in Seq(Nat)
  BY <1>1, <1>3 DEF LinesOK
<1>6. BoardTypes'
  BY <1>1, <1>2, <1>3, <1>4, <1>5 DEF BoardTypes
<1>7. Ordered'
  BY <1>1, <1>3, <1>4 DEF Ordered
<1>8. Shows' /\ Migrating'
  BY <1>1, <1>3 DEF Shows, Migrating, JsonRules
<1>9. Counted'
  <2> SUFFICES ASSUME ~wiped' PROVE Lost(answered', Found', jsonl'.lines, 2 * cuts' + tears')
    BY DEF Counted
  <2>1. Found' = ToSet(Displayed(jsonl.lines))
    BY <1>1, <1>3 DEF Found, BoardOnDisk, JsonRules
  <2>2. Found = ToSet(txt.posts)
    BY <1>1 DEF Found
  <2>3. Found' = Found
    BY <1>1, <1>2, <1>3, <2>1, <2>2, AllWritten
  <2>4. QED BY <1>1, <1>2, <1>3, <2>3 DEF Counted
<1>10. QED BY <1>6, <1>7, <1>8, <1>9 DEF BoardIInv

LEMMA PostLineInv == BoardIInv /\ PostLine => BoardIInv'
<1> SUFFICES ASSUME BoardIInv, PostLine PROVE BoardIInv'
  OBVIOUS
<1> DEFINE lines == jsonl.lines
           p == boardPosts + 1
           l == jsonl'.lines
           c == 2 * cuts + tears
<1>1. /\ phase = "up" /\ backend = "jsonl" /\ phase' = phase /\ backend' = backend
      /\ shown' = Displayed(l) /\ txt' = txt /\ boardPosts' = p
      /\ answered' = answered \cup {p} /\ migrated' = migrated
      /\ tears' = tears /\ wiped' = wiped
  BY DEF PostLine, Post
<1>2. BoardTypes /\ Ordered /\ Shows /\ Counted
  BY DEF BoardIInv
<1>3. /\ lines \in Seq(Row) /\ boardPosts \in Nat /\ p \in Nat /\ c \in Nat /\ cuts \in Nat
      /\ answered \in SUBSET (1 .. boardPosts) /\ migrated \in SUBSET (1 .. boardPosts)
      /\ LinesOK(lines, migrated, boardPosts) /\ TextOK(txt.posts, boardPosts)
      /\ Displayed(lines) \in Seq(Nat)
  BY <1>2 DEF BoardTypes, Ordered, LinesOK
<1>4. JsonRules /\ Found = ToSet(Displayed(lines))
  BY <1>1, <1>2 DEF Shows, Found, BoardOnDisk
<1>5. ~wiped => Lost(answered, ToSet(Displayed(lines)), lines, c)
  BY <1>2, <1>4 DEF Counted
<1>6. \/ /\ jsonl' = [there |-> TRUE, lines |-> Added(lines, p)] /\ cuts' = cuts
      \/ /\ cuts' = cuts + 1
         /\ \E part \in AddedPartly(lines, p), created \in BOOLEAN :
              /\ jsonl.there \/ part # <<>> => created
              /\ jsonl' = [there |-> created, lines |-> part]
  BY <1>1 DEF PostLine, Fault
<1>7. /\ jsonl' \in [there: BOOLEAN, lines: Seq(Row)] /\ cuts' \in Nat
      /\ \/ l = Added(lines, p) /\ cuts' = cuts
         \/ l \in AddedPartly(lines, p) /\ cuts' = cuts + 1
      /\ ~jsonl'.there => (~jsonl.there /\ l = <<>>)
  <2>1. CASE jsonl' = [there |-> TRUE, lines |-> Added(lines, p)] /\ cuts' = cuts
    <3>1. Added(lines, p) \in Seq(Row)
      BY <1>3, AddedIs
    <3>2. QED BY <1>3, <2>1, <3>1
  <2>2. CASE /\ cuts' = cuts + 1
             /\ \E part \in AddedPartly(lines, p), created \in BOOLEAN :
                  /\ jsonl.there \/ part # <<>> => created
                  /\ jsonl' = [there |-> created, lines |-> part]
    <3>1. PICK part \in AddedPartly(lines, p), created \in BOOLEAN :
                  /\ jsonl.there \/ part # <<>> => created
                  /\ jsonl' = [there |-> created, lines |-> part]
      BY <2>2
    <3>2. part \in Seq(Row)
      BY <1>3, PartlyIs
    <3>3. jsonl'.there = created /\ l = part /\ cuts' \in Nat
      BY <1>3, <2>2, <3>1
    <3>4. QED BY <2>2, <3>1, <3>2, <3>3
  <2>3. QED BY <1>6, <2>1, <2>2
<1> HIDE DEF l, lines
<1>8. Displayed(l) \in {Displayed(lines), <<p>> \o Displayed(lines)}
  BY <1>3, <1>7, AddedIs, PartlyIs
<1>9. LinesOK(l, migrated, p)
  <2>1. lines \in Seq(Row) /\ boardPosts \in Nat /\ migrated \in SUBSET (1 .. boardPosts)
        /\ LinesOK(lines, migrated, boardPosts)
    BY <1>3
  <2>2. Displayed(l) \in
          {Displayed(lines), <<boardPosts + 1>> \o Displayed(lines)}
    BY <1>8
  <2>3. QED BY <2>1, <2>2, NewestAdded
<1>10. BoardTypes'
  <2>1. /\ boardPosts' \in Nat
        /\ answered' \subseteq 1 .. boardPosts' /\ migrated' \subseteq 1 .. boardPosts'
    BY <1>1, <1>3
  <2>2. shown' \in Seq(Nat)
    BY <1>1, <1>9 DEF LinesOK
  <2>3. QED BY <1>1, <1>2, <1>7, <2>1, <2>2 DEF BoardTypes
<1>11. Ordered'
  <2>1. TextOK(txt'.posts, boardPosts')
    BY <1>1, <1>3, OneMore
  <2>2. LinesOK(jsonl'.lines, migrated', boardPosts')
    BY <1>1, <1>9 DEF l
  <2>3. QED BY <1>7, <2>1, <2>2 DEF Ordered, l
<1>12. JsonRules'
  BY <1>1, <1>4, <1>7 DEF JsonRules
<1>13. Shows' /\ Migrating'
  BY <1>1, <1>12 DEF Shows, Migrating, l
<1>14. Counted'
  <2> SUFFICES ASSUME ~wiped PROVE Lost(answered', Found', jsonl'.lines, 2 * cuts' + tears')
    BY <1>1 DEF Counted
  <2>1. Found' = ToSet(Displayed(l))
    BY <1>1, <1>12 DEF Found, BoardOnDisk, l
  <2> HIDE DEF p
  <2>2. CASE l = Added(lines, p) /\ cuts' = cuts
    <3> HIDE DEF c
    <3>1. Lost(answered \cup {p}, ToSet(Displayed(l)), l, c)
      BY <1>3, <1>5, <2>2, AddedLost
    <3>2. 2 * cuts' + tears' = c
      BY <1>1, <2>2 DEF c
    <3>3. QED BY <1>1, <2>1, <3>1, <3>2 DEF l
  <2>3. CASE l \in AddedPartly(lines, p) /\ cuts' = cuts + 1
    <3>1. 2 * cuts' + tears' = c + 2
      <4>1. tears \in Nat
        BY <1>2 DEF BoardTypes
      <4>2. QED BY <1>1, <1>3, <2>3, <4>1
    <3> HIDE DEF c
    <3>2. Lost(answered \cup {p}, ToSet(Displayed(l)), l, c + 2)
      BY <1>3, <1>5, <2>3, PartlyLost
    <3>3. QED BY <1>1, <2>1, <3>1, <3>2 DEF l
  <2>4. QED BY <1>7, <2>2, <2>3
<1>15. QED BY <1>10, <1>11, <1>13, <1>14 DEF BoardIInv

LEMMA PostTextInv == BoardIInv /\ PostText => BoardIInv'
<1> SUFFICES ASSUME BoardIInv, PostText PROVE BoardIInv'
  OBVIOUS
<1> DEFINE p == boardPosts + 1
           new == <<p>> \o shown
<1>1. /\ phase = "up" /\ backend = "text" /\ phase' = phase /\ backend' = backend
      /\ shown' = new /\ jsonl' = jsonl /\ boardPosts' = p
      /\ answered' = answered \cup {p} /\ migrated' = migrated /\ tears' = tears
  BY DEF PostText, Post
<1>2. BoardTypes /\ Ordered /\ Shows /\ Counted
  BY DEF BoardIInv
<1>3. /\ boardPosts \in Nat /\ p \in Nat /\ shown \in Seq(Nat) /\ TextOK(shown, boardPosts)
      /\ TextOK(txt.posts, boardPosts) /\ answered \in SUBSET (1 .. boardPosts)
  BY <1>1, <1>2 DEF BoardTypes, Ordered, Shows
<1>4. TextOK(new, p) /\ new # <<>> /\ ToSet(new) = ToSet(shown) \cup {p}
  <2>1. Descending(new) /\ Upto(new, p)
    BY <1>3, OnTopDescends DEF TextOK
  <2> HIDE DEF p
  <2>2. new \in Seq(Nat) /\ new # <<>>
    BY <1>3, OnTop
  <2>3. ToSet(new) = ToSet(shown) \cup {p}
    BY <1>3, OnTop
  <2> HIDE DEF new
  <2>4. QED BY <2>1, <2>2, <2>3 DEF TextOK
<1>5. /\ txt' \in [there: BOOLEAN, posts: Seq(Nat)] /\ TextOK(txt'.posts, p)
      /\ cuts' \in Nat /\ wiped' \in BOOLEAN
      /\ ~wiped' => txt'.there = TRUE /\ txt'.posts = new /\ cuts' = cuts /\ ~wiped
  <2>1. CASE txt' = [there |-> TRUE, posts |-> shown'] /\ UNCHANGED <<cuts, wiped>>
    <3> HIDE DEF new
    <3>1. txt' = [there |-> TRUE, posts |-> new] /\ new \in Seq(Nat)
      BY <1>1, <1>4, <2>1 DEF TextOK
    <3>2. txt'.there = TRUE /\ txt'.posts = new /\ txt' \in [there: BOOLEAN, posts: Seq(Nat)]
      BY <3>1
    <3>3. cuts' = cuts /\ wiped' = wiped /\ cuts \in Nat /\ wiped \in BOOLEAN
      BY <1>2, <2>1 DEF BoardTypes
    <3>4. QED BY <1>4, <3>2, <3>3
  <2>2. CASE /\ Fault /\ wiped' = TRUE
             /\ \E s \in Prefixes(shown') \cup {txt.posts} :
                  txt' = [there |-> TRUE, posts |-> s]
    <3>1. PICK s \in Prefixes(new) \cup {txt.posts} : txt' = [there |-> TRUE, posts |-> s]
      BY <1>1, <2>2
    <3> HIDE DEF new
    <3>2. TextOK(s, p)
      <4>1. CASE s \in Prefixes(new)
        BY <1>4, <4>1, PrefixDescends DEF TextOK
      <4>2. CASE s = txt.posts
        BY <1>3, <4>2, OneMore
      <4>3. QED BY <4>1, <4>2
    <3>3. txt'.posts = s /\ txt' \in [there: BOOLEAN, posts: Seq(Nat)]
      BY <3>1, <3>2 DEF TextOK
    <3>4. cuts' \in Nat
      BY <1>2, <2>2 DEF Fault, BoardTypes
    <3>5. QED BY <2>2, <3>2, <3>3, <3>4
  <2>3. QED BY <2>1, <2>2 DEF PostText
<1> HIDE DEF new
<1>6. BoardTypes'
  <2>1. /\ boardPosts' \in Nat
        /\ answered' \subseteq 1 .. boardPosts' /\ migrated' \subseteq 1 .. boardPosts'
    BY <1>1, <1>2, <1>3 DEF BoardTypes
  <2>2. shown' \in Seq(Nat)
    BY <1>1, <1>4 DEF TextOK
  <2>3. QED BY <1>1, <1>2, <1>5, <2>1, <2>2 DEF BoardTypes
<1>7. Ordered'
  <2>1. LinesOK(jsonl'.lines, migrated', boardPosts')
    BY <1>1, <1>2, <1>3, OneMore DEF Ordered
  <2>2. QED BY <1>1, <1>2, <1>5, <2>1 DEF Ordered
<1>8. ~wiped' => ~JsonRules /\ shown = txt.posts /\ ~JsonRules'
  <2>1. ~wiped' => ~JsonRules /\ shown = txt.posts
    BY <1>1, <1>2, <1>5 DEF Shows
  <2>2. QED BY <1>1, <1>4, <1>5, <2>1 DEF JsonRules
<1>9. Shows' /\ Migrating'
  BY <1>1, <1>4, <1>5, <1>8 DEF Shows, Migrating
<1>10. Counted'
  <2> SUFFICES ASSUME ~wiped' PROVE Lost(answered', Found', jsonl'.lines, 2 * cuts' + tears')
    BY DEF Counted
  <2> DEFINE c == 2 * cuts + tears
             x == Cardinality(answered \ ToSet(shown))
             y == Cardinality((answered \cup {p}) \ ToSet(new))
  <2>1. Found' = ToSet(new) /\ Found = ToSet(shown)
    BY <1>1, <1>5, <1>8 DEF Found, BoardOnDisk
  <2>2. Lost(answered, ToSet(shown), jsonl.lines, c)
    BY <1>2, <1>5, <2>1 DEF Counted
  <2>3. x + (IF HasOpen(jsonl.lines) THEN 1 ELSE 0) <= c /\ c \in Nat
    BY <1>2, <2>2 DEF Lost, BoardTypes
  <2> HIDE DEF p
  <2>4. x \in Nat /\ y \in Nat /\ y <= x
    <3>1. ToSet(shown) \subseteq ToSet(new) /\ p \in ToSet(new)
      BY <1>4
    <3>2. QED BY <1>3, <3>1, LostLess
  <2>5. 2 * cuts' + tears' = c
    BY <1>1, <1>5
  <2> HIDE DEF x, y, c
  <2>6. y + (IF HasOpen(jsonl.lines) THEN 1 ELSE 0) <= c
    BY <2>3, <2>4
  <2>7. Lost(answered \cup {p}, ToSet(new), jsonl.lines, c)
    BY <2>6 DEF Lost, y
  <2>8. QED BY <1>1, <2>1, <2>5, <2>7
<1>11. QED BY <1>6, <1>7, <1>9, <1>10 DEF BoardIInv

LEMMA StopInv == BoardIInv /\ Stop => BoardIInv'
<1> SUFFICES ASSUME BoardIInv, Stop PROVE BoardIInv'
  OBVIOUS
<1>1. /\ phase = "up" /\ phase' = "down" /\ backend' = backend /\ shown' = <<>>
      /\ txt' = txt /\ jsonl' = jsonl /\ boardPosts' = boardPosts
      /\ answered' = answered /\ migrated' = migrated /\ cuts' = cuts
      /\ tears' = tears /\ wiped' = wiped
  BY DEF Stop, Ends, files
<1>2. BoardTypes /\ Ordered /\ Counted
  BY DEF BoardIInv
<1>3. BoardTypes'
  BY <1>1, <1>2 DEF BoardTypes
<1>4. Ordered'
  BY <1>1, <1>2 DEF Ordered
<1>5. Shows' /\ Migrating'
  BY <1>1 DEF Shows, Migrating
<1>6. Found' = Found
  BY <1>1 DEF Found, BoardOnDisk, JsonRules
<1>7. Counted'
  BY <1>1, <1>2, <1>6 DEF Counted
<1>8. QED BY <1>3, <1>4, <1>5, <1>7 DEF BoardIInv

LEMMA CrashInLineInv == BoardIInv /\ CrashInLine => BoardIInv'
<1> SUFFICES ASSUME BoardIInv, CrashInLine PROVE BoardIInv'
  OBVIOUS
<1> DEFINE lines == jsonl.lines
           p == boardPosts + 1
           l == jsonl'.lines
           c == 2 * cuts + tears
           d == 2 * cuts + (tears + 1)
<1>1. /\ phase = "up" /\ backend = "jsonl" /\ phase' = "down" /\ backend' = backend
      /\ shown' = <<>> /\ txt' = txt /\ boardPosts' = p
      /\ answered' = answered /\ migrated' = migrated /\ cuts' = cuts
      /\ tears' = tears + 1 /\ wiped' = wiped
  BY DEF CrashInLine, Ends
<1>2. BoardTypes /\ Ordered /\ Shows /\ Counted
  BY DEF BoardIInv
<1>3. /\ lines \in Seq(Row) /\ boardPosts \in Nat /\ p \in Nat /\ c \in Nat
      /\ d = c + 1 /\ d \in Nat /\ c <= d
      /\ answered \in SUBSET (1 .. boardPosts) /\ migrated \in SUBSET (1 .. boardPosts)
      /\ LinesOK(lines, migrated, boardPosts) /\ TextOK(txt.posts, boardPosts)
      /\ Displayed(lines) \in Seq(Nat)
  BY <1>2 DEF BoardTypes, Ordered, LinesOK
<1>4. JsonRules /\ Found = ToSet(Displayed(lines))
  BY <1>1, <1>2 DEF Shows, Found, BoardOnDisk
<1>5. ~wiped => Lost(answered, ToSet(Displayed(lines)), lines, c)
  BY <1>2, <1>4 DEF Counted
<1>6. /\ jsonl' \in [there: BOOLEAN, lines: Seq(Row)] /\ jsonl'.there
      /\ l = Added(lines, p) \/ l \in AddedPartly(lines, p)
  <2>1. PICK part \in AddedPartly(lines, p) \cup {Added(lines, p)} :
               jsonl' = [there |-> TRUE, lines |-> part]
    BY <1>1 DEF CrashInLine
  <2>2. part \in Seq(Row)
    BY <1>3, AddedIs, PartlyIs
  <2>3. QED BY <2>1, <2>2
<1> HIDE DEF l, lines
<1>7. Displayed(l) \in {Displayed(lines), <<p>> \o Displayed(lines)}
  BY <1>3, <1>6, AddedIs, PartlyIs
<1>8. LinesOK(l, migrated, p)
  <2>1. lines \in Seq(Row) /\ boardPosts \in Nat /\ migrated \in SUBSET (1 .. boardPosts)
        /\ LinesOK(lines, migrated, boardPosts)
    BY <1>3
  <2>2. Displayed(l) \in
          {Displayed(lines), <<boardPosts + 1>> \o Displayed(lines)}
    BY <1>7
  <2>3. QED BY <2>1, <2>2, NewestAdded
<1>9. BoardTypes'
  <2>1. /\ boardPosts' \in Nat
        /\ answered' \subseteq 1 .. boardPosts' /\ migrated' \subseteq 1 .. boardPosts'
    BY <1>1, <1>3
  <2>2. shown' \in Seq(Nat) /\ tears' \in Nat
    BY <1>1, <1>2 DEF BoardTypes
  <2>3. QED BY <1>1, <1>2, <1>6, <2>1, <2>2 DEF BoardTypes
<1>10. Ordered'
  <2>1. TextOK(txt'.posts, boardPosts')
    BY <1>1, <1>3, OneMore
  <2>2. LinesOK(jsonl'.lines, migrated', boardPosts')
    BY <1>1, <1>8 DEF l
  <2>3. QED BY <1>6, <2>1, <2>2 DEF Ordered
<1>11. Shows' /\ Migrating'
  BY <1>1 DEF Shows, Migrating
<1>12. Counted'
  <2> SUFFICES ASSUME ~wiped PROVE Lost(answered', Found', jsonl'.lines, 2 * cuts' + tears')
    BY <1>1 DEF Counted
  <2>1. Found' = ToSet(Displayed(l))
    BY <1>1, <1>6 DEF Found, BoardOnDisk, JsonRules, l
  <2>2. 2 * cuts' + tears' = d
    BY <1>1
  <2> HIDE DEF p, c, d
  <2>3. Lost(answered, ToSet(Displayed(l)), l, d)
    <3>1. CASE l = Added(lines, p)
      <4>1. Lost(answered, ToSet(Displayed(l)), l, c)
        BY <1>3, <1>5, <3>1, AddedLost
      <4>2. QED BY <1>3, <4>1, LostBound
    <3>2. CASE l \in AddedPartly(lines, p)
      <4>1. Lost(answered, ToSet(Displayed(l)), l, c + 1)
        BY <1>3, <1>5, <3>2, PartlyLost
      <4>2. QED BY <1>3, <4>1
    <3>3. QED BY <1>6, <3>1, <3>2
  <2>4. QED BY <1>1, <2>1, <2>2, <2>3 DEF l
<1>13. QED BY <1>9, <1>10, <1>11, <1>12 DEF BoardIInv

LEMMA CrashInTextInv == BoardIInv /\ CrashInText => BoardIInv'
<1> SUFFICES ASSUME BoardIInv, CrashInText PROVE BoardIInv'
  OBVIOUS
<1> DEFINE p == boardPosts + 1
           new == <<p>> \o shown
<1>1. /\ phase = "up" /\ backend = "text" /\ phase' = "down" /\ backend' = backend
      /\ shown' = <<>> /\ jsonl' = jsonl /\ boardPosts' = p
      /\ answered' = answered /\ migrated' = migrated /\ cuts' = cuts /\ tears' = tears
      /\ wiped' = TRUE
  BY DEF CrashInText, Ends
<1>2. BoardTypes /\ Ordered /\ Shows
  BY DEF BoardIInv
<1>3. boardPosts \in Nat /\ p \in Nat /\ shown \in Seq(Nat) /\ TextOK(shown, boardPosts)
  BY <1>1, <1>2 DEF BoardTypes, Shows
<1>4. TextOK(new, p)
  <2>1. Descending(new) /\ Upto(new, p)
    BY <1>3, OnTopDescends DEF TextOK
  <2> HIDE DEF p
  <2>2. new \in Seq(Nat)
    BY <1>3, OnTop
  <2> HIDE DEF new
  <2>3. QED BY <2>1, <2>2 DEF TextOK
<1>5. PICK s \in Prefixes(new) : txt' = [there |-> TRUE, posts |-> s]
  BY <1>1 DEF CrashInText
<1> HIDE DEF new
<1>6. TextOK(s, p)
  BY <1>4, PrefixDescends DEF TextOK
<1>7. txt'.posts = s /\ txt' \in [there: BOOLEAN, posts: Seq(Nat)]
  BY <1>5, <1>6 DEF TextOK
<1>8. BoardTypes'
  <2>1. /\ boardPosts' \in Nat
        /\ answered' \subseteq 1 .. boardPosts' /\ migrated' \subseteq 1 .. boardPosts'
    BY <1>1, <1>2, <1>3 DEF BoardTypes
  <2>2. QED BY <1>1, <1>2, <1>7, <2>1 DEF BoardTypes
<1>9. Ordered'
  <2>1. LinesOK(jsonl'.lines, migrated', boardPosts')
    BY <1>1, <1>2, <1>3, OneMore DEF Ordered
  <2>2. QED BY <1>1, <1>2, <1>6, <1>7, <2>1 DEF Ordered
<1>10. Shows' /\ Migrating' /\ Counted'
  BY <1>1 DEF Shows, Migrating, Counted
<1>11. QED BY <1>8, <1>9, <1>10 DEF BoardIInv

LEMMA CrashInMigrationInv == BoardIInv /\ CrashInMigration => BoardIInv'
<1> SUFFICES ASSUME BoardIInv, CrashInMigration PROVE BoardIInv'
  OBVIOUS
<1>1. /\ phase = "migrating" /\ phase' = "down" /\ backend' = backend /\ shown' = <<>>
      /\ txt' = txt /\ boardPosts' = boardPosts /\ answered' = answered /\ migrated' = migrated
      /\ cuts' = cuts /\ tears' = tears
  BY DEF CrashInMigration, Ends
<1>2. BoardTypes /\ Ordered /\ Migrating /\ Counted
  BY DEF BoardIInv
<1>3. /\ jsonl' \in [there: BOOLEAN, lines: Seq(Row)] /\ jsonl'.there
      /\ LinesOK(jsonl'.lines, migrated, boardPosts) /\ wiped' \in BOOLEAN
      /\ ~wiped' => jsonl' = jsonl /\ ~wiped /\ ~(Len(jsonl.lines) < Len(txt.posts))
  <2>1. CASE CutMigration /\ wiped' = TRUE
    BY <1>1, <1>2, <2>1, CutIs
  <2>2. CASE jsonl' = jsonl /\ wiped' = (wiped \/ Len(jsonl.lines) < Len(txt.posts))
    <3>1. jsonl \in [there: BOOLEAN, lines: Seq(Row)] /\ jsonl.there
          /\ LinesOK(jsonl.lines, migrated, boardPosts)
      BY <1>1, <1>2 DEF BoardTypes, Ordered, Migrating
    <3>2. wiped \in BOOLEAN
      BY <1>2 DEF BoardTypes
    <3> DEFINE short == Len(jsonl.lines) < Len(txt.posts)
    <3>3. short \in BOOLEAN
      OBVIOUS
    <3> HIDE DEF short
    <3>4. wiped' \in BOOLEAN /\ (~wiped' => ~wiped /\ ~short)
      BY <2>2, <3>2, <3>3 DEF short
    <3>5. QED BY <2>2, <3>1, <3>4 DEF short
  <2>3. QED BY <2>1, <2>2 DEF CrashInMigration
<1>4. BoardTypes'
  BY <1>1, <1>2, <1>3 DEF BoardTypes
<1>5. Ordered'
  BY <1>1, <1>2, <1>3 DEF Ordered
<1>6. Shows' /\ Migrating'
  BY <1>1 DEF Shows, Migrating
<1>7. Counted'
  <2> SUFFICES ASSUME ~wiped' PROVE Lost(answered', Found', jsonl'.lines, 2 * cuts' + tears')
    BY DEF Counted
  <2>1. Found' = ToSet(Displayed(jsonl.lines))
    BY <1>1, <1>3 DEF Found, BoardOnDisk, JsonRules
  <2>2. Found = ToSet(txt.posts)
    BY <1>1 DEF Found
  <2>3. Found' = Found
    BY <1>1, <1>2, <1>3, <2>1, <2>2, AllWritten
  <2>4. QED BY <1>1, <1>2, <1>3, <2>3 DEF Counted
<1>8. QED BY <1>4, <1>5, <1>6, <1>7 DEF BoardIInv

LEMMA NextInv == BoardIInv /\ [BoardNext]_boardVars => BoardIInv'
<1> SUFFICES ASSUME BoardIInv, [BoardNext]_boardVars PROVE BoardIInv'
  OBVIOUS
<1>1. CASE UNCHANGED boardVars
  <2>1. /\ txt' = txt /\ jsonl' = jsonl /\ phase' = phase /\ backend' = backend
        /\ shown' = shown /\ boardPosts' = boardPosts /\ answered' = answered
        /\ migrated' = migrated /\ cuts' = cuts /\ tears' = tears /\ wiped' = wiped
    BY <1>1 DEF boardVars, files, history
  <2>2. Found' = Found /\ JsonRules' = JsonRules
    BY <2>1 DEF Found, BoardOnDisk, JsonRules
  <2>3. BoardTypes' /\ Ordered' /\ Migrating'
    BY <2>1 DEF BoardIInv, BoardTypes, Ordered, Migrating
  <2>4. Shows' /\ Counted'
    BY <2>1, <2>2 DEF BoardIInv, Shows, Counted
  <2>5. QED BY <2>3, <2>4 DEF BoardIInv
<1>2. CASE \/ Start \/ MigrateOpen \/ MigrationFails
           \/ MigrateLine \/ MigrateDone
  BY <1>2, StartInv, MigrateOpenInv, MigrationFailsInv, MigrateLineInv, MigrateDoneInv
<1>3. CASE PostLine \/ PostText
  BY <1>3, PostLineInv, PostTextInv
<1>4. CASE Stop \/ CrashInLine \/ CrashInText \/ CrashInMigration
  BY <1>4, StopInv, CrashInLineInv, CrashInTextInv, CrashInMigrationInv
<1>5. QED BY <1>1, <1>2, <1>3, <1>4 DEF BoardNext

\* What is on disk, what is shown and what was answered fit together at every
\* step of a start, the migration, a post and a stop, so that a reader of the
\* message board can rely on the three theorems below.
THEOREM BoardInvariant == BoardSpec => []BoardIInv
<1>1. BoardInit => BoardIInv
  BY InitInv
<1>2. BoardIInv /\ [BoardNext]_boardVars => BoardIInv'
  BY NextInv
<1>3. QED BY <1>1, <1>2, PTL DEF BoardSpec

\* However many posts were made and answered, across restarts and a completed
\* migration: each append that was cut short costs at most its own post and the
\* one glued to it, and an append in which the process died at most one
\* (mobius_jsonl_prepend), as long as no rewrite of a whole file was cut short.
THEOREM AnsweredPostsStay == BoardSpec => []PostsKept
<1>1. BoardIInv => PostsKept
  <2> SUFFICES ASSUME BoardIInv, phase = "up", ~wiped
               PROVE  Cardinality(answered \ ToSet(shown)) <= 2 * cuts + tears
    BY DEF PostsKept
  <2> DEFINE c == 2 * cuts + tears
  <2>1. /\ boardPosts \in Nat /\ answered \in SUBSET (1 .. boardPosts) /\ c \in Nat /\ c <= c
    BY DEF BoardIInv, BoardTypes
  <2>2. Found = ToSet(shown)
    BY DEF BoardIInv, BoardTypes, Shows, Found, BoardOnDisk
  <2> HIDE DEF c
  <2>3. Lost(answered, Found, jsonl.lines, c)
    BY DEF BoardIInv, Counted, c
  <2>4. Cardinality(answered \ Found) <= c
    BY <2>1, <2>3, LostBound
  <2>5. QED BY <2>2, <2>4 DEF c
<1>2. QED BY <1>1, BoardInvariant, PTL

\* Whichever way posts came onto the board, by either backend, a migration or a
\* reload, no post is shown twice, and every post is above all older ones that
\* were not migrated together with it (build_flat_text).
THEOREM BoardIsInOrder == BoardSpec => []NewestFirst
<1>1. BoardIInv => NewestFirst
  <2> SUFFICES ASSUME BoardIInv PROVE NewestFirst
    OBVIOUS
  <2>1. InOrder(shown, migrated)
    <3>1. CASE phase # "up"
      BY <3>1 DEF BoardIInv, Shows, InOrder
    <3>2. CASE phase = "up" /\ backend = "jsonl"
      BY <3>2 DEF BoardIInv, Shows, Ordered, LinesOK
    <3>3. CASE phase = "up" /\ backend = "text"
      BY <3>3, DescendingInOrder DEF BoardIInv, Shows, TextOK
    <3>4. QED BY <3>1, <3>2, <3>3 DEF BoardIInv, BoardTypes
  <2>2. DOMAIN shown = 1 .. Len(shown) /\ Len(shown) \in Nat
    BY LenProperties DEF BoardIInv, BoardTypes
  <2>3. IsInjective(shown)
    <3>1. ASSUME NEW i \in DOMAIN shown, NEW j \in DOMAIN shown, shown[i] = shown[j]
          PROVE  i = j
      <4>1. ~(i < j) /\ ~(j < i)
        BY <2>1, <3>1 DEF InOrder
      <4>2. QED BY <2>2, <4>1
    <3>2. QED BY <3>1 DEF IsInjective
  <2>4. QED BY <2>1, <2>3 DEF NewestFirst, InOrder
<1>2. QED BY <1>1, BoardInvariant, PTL
=============================================================================
