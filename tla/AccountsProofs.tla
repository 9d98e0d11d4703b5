--------------------------- MODULE AccountsProofs ---------------------------
(***************************************************************************)
(* Proofs about Accounts for every value of its constants: how far the     *)
(* clients' pointers into the array can be relied on, when the disk has     *)
(* what is in force, and that passwords open what they should.             *)
(***************************************************************************)
EXTENDS Accounts, SequenceTheorems, FiniteSetTheorems, WellFoundedInduction, TLAPS

\* No client is logged in to a server that does not run.
Alone == ~up => \A u \in Users : bound[u] = 0

\* A file holds the account it is named after, or one without a login.
FilesNamed == \A l \in DOMAIN files : files[l].login \in {l, NoLogin}

\* No two accounts in memory have one login.
OneEach ==
    up /\ ~clash => \A i, j \in 1 .. count :
        slots[i].login = slots[j].login /\ slots[i].login # NoLogin => i = j

\* An account in memory whose login is not adrift is the one in its file.
InFile(i) ==
    slots[i].login \in Logins \ adrift =>
        slots[i].login \in DOMAIN files /\ files[slots[i].login] = slots[i]
AllInFiles == up /\ ~clash => \A i \in 1 .. count : InFile(i)

\* A file that is not adrift has its account in memory.
InMemory(l) == \E i \in 1 .. count : slots[i].login = l
AllInMemory == up /\ ~clash => \A l \in DOMAIN files \ adrift : InMemory(l)

\* Where the password of a login is known, an account has it or none.
Known(a) ==
    a.login \in DOMAIN cred => a.pw = NoPassword \/ a.pw.text = cred[a.login]
MemoryKnown == up /\ ~clash => \A i \in 1 .. count : Known(slots[i])
FilesKnown == ~clash => \A l \in DOMAIN files \ adrift : files[l].login = l => Known(files[l])

IInv ==
    /\ TypeOK /\ Alone /\ OwnUntilMoved /\ FilesNamed
    /\ OneEach /\ AllInFiles /\ AllInMemory /\ MemoryKnown /\ FilesKnown

-----------------------------------------------------------------------------
(* Finding an account. *)

\* A set of numbers up to some n that is not empty has a least element: among
\* its intersections with 1 .. i one is contained in no other.
LEMMA LeastElement ==
    ASSUME NEW n \in Nat, NEW S \in SUBSET (1 .. n), S # {}
    PROVE  \E i \in S : \A j \in S : i <= j
<1> DEFINE Below(i) == {j \in S : j <= i}
           T == {Below(i) : i \in S}
<1>1. IsFiniteSet(S)
    <2>1. 1 \in Int /\ n \in Int
        OBVIOUS
    <2>2. IsFiniteSet(1 .. n)
        BY <2>1, FS_Interval
    <2>3. QED BY <2>2, FS_Subset
<1>2. FiniteSubsetsOf(S) = SUBSET S
    BY <1>1, FS_FiniteSubsetsOfFinite
<1>3. IsWellFoundedOn(StrictSubsetOrdering(S), SUBSET S)
    BY <1>2, FS_StrictSubsetOrderingWellFounded
<1>4. T \subseteq SUBSET S /\ T # {}
    OBVIOUS
<1>5. PICK x \in T : \A y \in T : ~(<<y, x>> \in StrictSubsetOrdering(S))
    BY <1>3, <1>4, WFMin
<1>6. PICK i \in S : x = Below(i)
    BY <1>5
<1>7. ASSUME NEW j \in S, j < i
      PROVE  FALSE
    <2>1. Below(j) \subseteq Below(i)
        <3>1. i \in Int /\ j \in Int /\ \A k \in S : k \in Int
            OBVIOUS
        <3>2. \A k \in S : k <= j => k <= i
            BY <1>7, <3>1
        <3>3. QED BY <3>2
    <2>2. i \in Below(i) /\ i \notin Below(j)
        BY <1>7
    <2>3. Below(j) \in T /\ Below(j) \in SUBSET S /\ Below(i) \in SUBSET S
        OBVIOUS
    <2>4. <<Below(j), Below(i)>> \in StrictSubsetOrdering(S)
        BY <2>1, <2>2, <2>3 DEF StrictSubsetOrdering
    <2>5. QED BY <1>5, <1>6, <2>3, <2>4
<1>8. \A j \in S : i <= j
    BY <1>7
<1>9. QED BY <1>8

LEMMA GetFacts ==
    ASSUME TypeOK, NEW l
    PROVE  /\ Get(l) \in 0 .. count
           /\ Get(l) # 0 => slots[Get(l)].login = l
           /\ Get(l) = 0 => \A i \in 1 .. count : slots[i].login # l
<1>1. count \in Nat /\ Holding(l) \in SUBSET (1 .. count)
    BY MaxAccountsOK DEF TypeOK, Holding
<1>2. CASE Holding(l) = {}
    BY <1>1, <1>2 DEF Get, Holding
<1>3. CASE Holding(l) # {}
    <2>1. \E i \in Holding(l) : \A j \in Holding(l) : i <= j
        BY <1>1, <1>3, LeastElement
    <2>2. Get(l) \in Holding(l)
        BY <1>3, <2>1 DEF Get
    <2>3. QED BY <1>1, <2>2 DEF Holding
<1>4. QED BY <1>2, <1>3

-----------------------------------------------------------------------------
(* Files. *)

LEMMA AccountFields ==
    ASSUME NEW a \in Account
    PROVE  /\ a.login \in Logins \cup {NoLogin} /\ a.access \in {"admin", "plain"}
           /\ a.pw \in [text : Passwords, hashed : BOOLEAN] /\ a.pw.text \in Passwords
  BY DEF Account

LEMMA EmptySlots ==
    [j \in 1 .. MaxAccounts |-> Unread] \in [1 .. MaxAccounts -> Account] /\ Unread \in Account
<1>1. Unread \in Account
    BY DEF Unread, Account, NoPassword, Passwords
<1>2. QED BY <1>1

\* A file that was written, whole or in part, holds an account of the login it is
\* named after, or of none; if all of it reads back, the account itself.
LEMMA ReadFacts ==
    ASSUME NEW a \in Account, NEW f \in AsRead(a) \cup Cut(a)
    PROVE  f \in Account /\ f.login \in {a.login, NoLogin}
<1>1. Unread \in Account /\ Unread.login = NoLogin
    BY EmptySlots DEF Unread
<1>2. Bare(a) \in Account /\ Bare(a).login = a.login
    BY AccountFields DEF Bare, Unread, Account, NoPassword, Passwords
<1>3. [a EXCEPT !.access = "plain"] \in Account /\ [a EXCEPT !.access = "plain"].login = a.login
    BY DEF Account
<1>4. CASE f \in Cut(a)
    BY <1>1, <1>2, <1>3, <1>4 DEF Cut
<1>5. CASE f \in AsRead(a)
    BY <1>1, <1>2, <1>5 DEF AsRead
<1>6. QED BY <1>4, <1>5

LEMMA FiledFacts ==
    ASSUME TypeOK, NEW l \in Logins, NEW a \in Account
    PROVE  /\ Filed(l, a) \in [DOMAIN Filed(l, a) -> Account]
           /\ DOMAIN Filed(l, a) = DOMAIN files \cup {l} /\ DOMAIN Filed(l, a) \subseteq Logins
           /\ \A k \in DOMAIN Filed(l, a) : Filed(l, a)[k] = IF k = l THEN a ELSE files[k]
  BY DEF TypeOK, Filed

\* What writing the file of a, whose login was l, leaves: the other files are as
\* they were, and its own is adrift or holds a.
FiledOnly(a, l) ==
    /\ DOMAIN files' \subseteq Logins /\ files' \in [DOMAIN files' -> Account]
    /\ adrift' \subseteq Logins
    /\ \A k \in Logins \ {a.login} : k \in DOMAIN files' <=> k \in DOMAIN files
    /\ \A k \in Logins \ {a.login} : k \in DOMAIN files => files'[k] = files[k]
    /\ \A k \in Logins \ {a.login} : k \notin adrift' => k \notin adrift /\ k # l
    /\ a.login \in DOMAIN files' => files'[a.login].login \in {a.login, NoLogin}
    /\ a.login \notin adrift' => a.login \in DOMAIN files' /\ files'[a.login] = a

LEMMA FiledIs ==
    ASSUME TypeOK, NEW l \in Logins, NEW a \in Account, a.login \in Logins, NEW f \in Account,
           f.login \in {a.login, NoLogin}, files' = Filed(a.login, f)
    PROVE  /\ DOMAIN files' \subseteq Logins /\ files' \in [DOMAIN files' -> Account]
           /\ \A k \in Logins \ {a.login} : k \in DOMAIN files' <=> k \in DOMAIN files
           /\ \A k \in Logins \ {a.login} : k \in DOMAIN files => files'[k] = files[k]
           /\ a.login \in DOMAIN files' /\ files'[a.login] = f
<1> DEFINE m == a.login
<1>1. m \in Logins /\ files' = Filed(m, f)
    OBVIOUS
<1> HIDE DEF m
<1>2. /\ files' \in [DOMAIN files' -> Account]
      /\ DOMAIN files' = DOMAIN files \cup {m} /\ DOMAIN files' \subseteq Logins
      /\ \A k \in DOMAIN files' : files'[k] = IF k = m THEN f ELSE files[k]
    <2>1. /\ Filed(m, f) \in [DOMAIN Filed(m, f) -> Account]
          /\ DOMAIN Filed(m, f) = DOMAIN files \cup {m} /\ DOMAIN Filed(m, f) \subseteq Logins
          /\ \A k \in DOMAIN Filed(m, f) : Filed(m, f)[k] = IF k = m THEN f ELSE files[k]
        BY <1>1, FiledFacts
    <2>2. QED BY <1>1, <2>1
<1>3. /\ DOMAIN files' \subseteq Logins /\ files' \in [DOMAIN files' -> Account]
      /\ \A k \in Logins \ {m} : k \in DOMAIN files' <=> k \in DOMAIN files
      /\ \A k \in Logins \ {m} : k \in DOMAIN files => files'[k] = files[k]
      /\ m \in DOMAIN files' /\ files'[m] = f
    BY <1>2
<1>4. QED BY <1>3 DEF m

LEMMA FileFacts ==
    ASSUME TypeOK, FilesNamed, NEW l \in Logins, NEW a \in Account, a.login \in Logins,
           File(a, l)
    PROVE  FiledOnly(a, l)
<1>1. CASE /\ \E f \in AsRead(a) : files' = Filed(a.login, f)
           /\ adrift' = (adrift \ {a.login}) \cup ({l} \ {a.login})
                        \cup (IF ReadsBack(a) THEN {} ELSE {a.login})
    <2>1. PICK f \in AsRead(a) : files' = Filed(a.login, f)
        BY <1>1
    <2>2. f \in Account /\ f.login \in {a.login, NoLogin}
        BY ReadFacts
    <2>3. ReadsBack(a) => f = a
        BY DEF AsRead
    <2>4. /\ DOMAIN files' \subseteq Logins /\ files' \in [DOMAIN files' -> Account]
          /\ \A k \in Logins \ {a.login} : k \in DOMAIN files' <=> k \in DOMAIN files
          /\ \A k \in Logins \ {a.login} : k \in DOMAIN files => files'[k] = files[k]
          /\ a.login \in DOMAIN files' /\ files'[a.login] = f
        BY <2>1, <2>2, FiledIs
    <2>5. /\ adrift' \subseteq Logins
          /\ \A k \in Logins \ {a.login} : k \notin adrift' => k \notin adrift /\ k # l
          /\ a.login \notin adrift' => ReadsBack(a)
        BY <1>1 DEF TypeOK
    <2>6. QED BY <2>2, <2>3, <2>4, <2>5 DEF FiledOnly
<1>2. CASE /\ files' \in {files} \cup {Filed(a.login, f) : f \in Cut(a)}
           /\ adrift' = adrift \cup {a.login, l}
    <2>1. /\ adrift' \subseteq Logins /\ a.login \in adrift'
          /\ \A k \in Logins \ {a.login} : k \notin adrift' => k \notin adrift /\ k # l
        BY <1>2 DEF TypeOK
    <2>2. CASE files' = files
        BY <2>1, <2>2 DEF FiledOnly, FilesNamed, TypeOK
    <2>3. ASSUME NEW f \in Cut(a), files' = Filed(a.login, f)
          PROVE  FiledOnly(a, l)
        <3>1. f \in Account /\ f.login \in {a.login, NoLogin}
            BY ReadFacts
        <3>2. /\ DOMAIN files' \subseteq Logins /\ files' \in [DOMAIN files' -> Account]
              /\ \A k \in Logins \ {a.login} : k \in DOMAIN files' <=> k \in DOMAIN files
              /\ \A k \in Logins \ {a.login} : k \in DOMAIN files => files'[k] = files[k]
              /\ a.login \in DOMAIN files' /\ files'[a.login] = f
            BY <2>3, <3>1, FiledIs
        <3>3. QED BY <2>1, <3>1, <3>2 DEF FiledOnly
    <2>4. QED BY <1>2, <2>2, <2>3
<1>3. QED BY <1>1, <1>2 DEF File

-----------------------------------------------------------------------------
(* What the requests of the editors have in common: one account, a, whose     *)
(* login was l, is stored in slot i, n accounts are there then, and the       *)
(* passwords p are known; or the server dies.                                 *)

Stored1(i, n, a, l, p) ==
    /\ slots' = [slots EXCEPT ![i] = a] /\ count' = n /\ File(a, l) /\ cred' = p
    /\ as' = [v \in Users |-> IF bound[v] = i /\ v \notin moved THEN a.login ELSE as[v]]
    /\ UNCHANGED <<up, bound, moved>>

DiesIn(a) ==
    /\ Dies /\ files' = Filed(a.login, Unread) /\ adrift' = adrift \cup {a.login}
    /\ UNCHANGED cred

\* The passwords that are known are those of before, but for that of a.
Sets(p, a) ==
    /\ \A k \in DOMAIN p \ {a.login} : k \in DOMAIN cred /\ p[k] = cred[k]
    /\ a.login \in DOMAIN p => a.pw = NoPassword \/ a.pw.text = p[a.login]

Edits(i, n, a, l, p) ==
    /\ up /\ i \in 1 .. n /\ n \in 1 .. MaxAccounts
    /\ (n = count /\ slots[i].login = l) \/ (n = count + 1 /\ i = n)
    /\ a \in Account /\ a.login \in Logins /\ l \in Logins
    /\ DOMAIN p \subseteq Logins /\ p \in [DOMAIN p -> Passwords]
    /\ Stored1(i, n, a, l, p) \/ DiesIn(a)
    /\ UNCHANGED hope /\ clash' \in BOOLEAN
    /\ ~clash' => /\ ~clash /\ Sets(p, a)
                  /\ \A j \in 1 .. count : j # i => slots[j].login # a.login

\* What Write does, whose parameters are given.
LEMMA WriteIs ==
    ASSUME NEW s, NEW n, NEW a, NEW l, NEW p, Write(s, n, a, l, p)
    PROVE  \/ /\ slots' = s /\ count' = n /\ File(a, l) /\ cred' = p
              /\ UNCHANGED <<up, bound, moved>>
           \/ DiesIn(a)
  BY DEF Write, DiesIn

LEMMA StoredFacts ==
    ASSUME TypeOK, NEW t \in Passwords
    PROVE  /\ Stored(t) \in [text : Passwords, hashed : BOOLEAN] /\ Stored(t).text = t
           /\ NoPassword \in [text : Passwords, hashed : BOOLEAN]
  BY DEF TypeOK, Stored, NoPassword, Passwords

LEMMA WithFacts ==
    ASSUME TypeOK, NEW m \in Logins, NEW t \in Passwords
    PROVE  /\ DOMAIN With(cred, m, t) \subseteq Logins
           /\ With(cred, m, t) \in [DOMAIN With(cred, m, t) -> Passwords]
           /\ With(cred, m, t)[m] = t
           /\ \A k \in DOMAIN With(cred, m, t) \ {m} :
                 k \in DOMAIN cred /\ With(cred, m, t)[k] = cred[k]
  BY DEF TypeOK, With

LEMMA NewUserEdits ==
    ASSUME IInv, NEW u \in Users, NEW l \in Logins, NEW x \in {"admin", "plain"},
           NEW t \in Passwords, NewUser(u, l, x, t)
    PROVE  \E i, n, a, k, p : Edits(i, n, a, k, p)
<1> DEFINE a == New(l, x, t)
           n == count + 1
           p == With(cred, l, t)
<1>1. TypeOK /\ OwnUntilMoved
    BY DEF IInv
<1>2. Get(l) = 0 /\ count < MaxAccounts /\ count \in 0 .. MaxAccounts
      /\ Write(Created(a), n, a, l, p) /\ (up' => UNCHANGED as) /\ UNCHANGED clash
      /\ up /\ UNCHANGED hope
    BY <1>1 DEF NewUser, Changes, TypeOK
<1>3. n \in 1 .. MaxAccounts /\ n \in 1 .. n
    BY <1>2, MaxAccountsOK
<1>4. /\ a \in Account /\ a.login = l /\ (a.pw = NoPassword \/ a.pw.text = t)
    BY <1>1, StoredFacts DEF New, Account
<1>5. /\ DOMAIN p \subseteq Logins /\ p \in [DOMAIN p -> Passwords] /\ p[l] = t
      /\ \A k \in DOMAIN p \ {l} : k \in DOMAIN cred /\ p[k] = cred[k]
    BY <1>1, WithFacts
<1> HIDE DEF a, p
<1>6. Sets(p, a)
    BY <1>4, <1>5 DEF Sets
<1>7. \A j \in 1 .. count : slots[j].login # l
    BY <1>1, <1>2, GetFacts
<1>8. \/ /\ slots' = [slots EXCEPT ![n] = a] /\ count' = n /\ File(a, l) /\ cred' = p
         /\ UNCHANGED <<up, bound, moved>>
      \/ DiesIn(a)
    BY <1>2, WriteIs DEF Created
<1>9. ASSUME up'
      PROVE  as' = [v \in Users |-> IF bound[v] = n /\ v \notin moved THEN a.login ELSE as[v]]
    <2>1. \A v \in Users : bound[v] = n => v \in moved
        <3>1. \A v \in Users : bound[v] # 0 /\ v \notin moved => bound[v] <= count
            BY <1>1 DEF OwnUntilMoved
        <3>2. n # 0 /\ ~(n <= count)
            BY <1>2
        <3>3. QED BY <3>1, <3>2
    <2>2. as \in [Users -> Logins \cup {NoLogin}] /\ as' = as
        BY <1>1, <1>2, <1>9 DEF TypeOK
    <2>3. QED BY <2>1, <2>2
<1>10. Stored1(n, n, a, l, p) \/ DiesIn(a)
    BY <1>2, <1>8, <1>9 DEF Stored1
<1>11. clash' \in BOOLEAN /\ (~clash' => ~clash)
    BY <1>1, <1>2 DEF TypeOK
<1>12. Edits(n, n, a, l, p)
    BY <1>2, <1>3, <1>4, <1>5, <1>6, <1>7, <1>10, <1>11 DEF Edits
<1>13. QED BY <1>12

\* Of an account that is edited: where it is, and that it is the only one.
LEMMA EditedFacts ==
    ASSUME IInv, NEW l \in Logins, Get(l) # 0, up
    PROVE  /\ Get(l) \in 1 .. count /\ count \in 1 .. MaxAccounts
           /\ slots[Get(l)].login = l /\ slots[Get(l)] \in Account
           /\ ~clash => /\ \A j \in 1 .. count : j # Get(l) => slots[j].login # l
                        /\ Known(slots[Get(l)])
<1> DEFINE i == Get(l)
<1>1. TypeOK /\ OneEach /\ MemoryKnown
    BY DEF IInv
<1>2. i \in 0 .. count /\ slots[i].login = l /\ i # 0
    BY <1>1, GetFacts
<1>3. count \in 0 .. MaxAccounts /\ MaxAccounts \in Nat
    BY <1>1, MaxAccountsOK DEF TypeOK
<1> HIDE DEF i
<1>4. i \in 1 .. count /\ count \in 1 .. MaxAccounts /\ i \in 1 .. MaxAccounts
    BY <1>2, <1>3
<1>5. slots[i] \in Account
    BY <1>1, <1>4 DEF TypeOK
<1>6. ~clash => \A j \in 1 .. count : j # i => slots[j].login # l
    BY <1>1, <1>2, <1>4, EmptyIsNoText DEF OneEach
<1>7. ~clash => Known(slots[i])
    BY <1>1, <1>4 DEF MemoryKnown
<1>8. QED BY <1>2, <1>4, <1>5, <1>6, <1>7 DEF i

LEMMA SetUserEdits ==
    ASSUME IInv, NEW u \in Users, NEW l \in Logins, NEW x \in {"admin", "plain"},
           SetUser(u, l, x)
    PROVE  \E i, n, a, k, p : Edits(i, n, a, k, p)
<1> DEFINE i == Get(l)
           a == [slots[i] EXCEPT !.access = x]
<1>1. TypeOK /\ OwnUntilMoved
    BY DEF IInv
<1>2. i # 0 /\ Write(Updated(l, a), count, a, l, cred) /\ (up' => UNCHANGED as)
      /\ UNCHANGED clash /\ up /\ UNCHANGED hope
    BY DEF SetUser, Changes
<1>3. /\ i \in 1 .. count /\ count \in 1 .. MaxAccounts /\ slots[i].login = l
      /\ slots[i] \in Account
      /\ ~clash => (\A j \in 1 .. count : j # i => slots[j].login # l) /\ Known(slots[i])
    BY <1>2, EditedFacts
<1>4. a \in Account /\ a.login = l /\ a.pw = slots[i].pw
    BY <1>3 DEF Account
<1> HIDE DEF a
<1>5. \/ /\ slots' = [slots EXCEPT ![i] = a] /\ count' = count /\ File(a, l) /\ cred' = cred
         /\ UNCHANGED <<up, bound, moved>>
      \/ DiesIn(a)
    BY <1>2, WriteIs DEF Updated
<1> HIDE DEF i
<1>6. ~clash => Sets(cred, a) /\ \A j \in 1 .. count : j # i => slots[j].login # a.login
    BY <1>3, <1>4 DEF Sets, Known
<1>7. ASSUME up'
      PROVE  as' = [v \in Users |-> IF bound[v] = i /\ v \notin moved THEN a.login ELSE as[v]]
    <2>1. \A v \in Users : bound[v] = i /\ v \notin moved => as[v] = l
        <3>1. i # 0
            BY <1>3
        <3>2. QED BY <1>1, <1>3, <3>1 DEF OwnUntilMoved
    <2>2. as \in [Users -> Logins \cup {NoLogin}] /\ as' = as
        BY <1>1, <1>2, <1>7 DEF TypeOK
    <2>3. QED BY <1>4, <2>1, <2>2
<1>8. Stored1(i, count, a, l, cred) \/ DiesIn(a)
    <2>1. CASE DiesIn(a)
        BY <2>1
    <2>2. CASE ~DiesIn(a)
        BY <1>2, <1>5, <1>7, <2>2 DEF Stored1
    <2>3. QED BY <2>1, <2>2
<1>9. /\ clash' \in BOOLEAN /\ (~clash' => ~clash)
      /\ DOMAIN cred \subseteq Logins /\ cred \in [DOMAIN cred -> Passwords]
    BY <1>1, <1>2 DEF TypeOK
<1>10. Edits(i, count, a, l, cred)
    BY <1>2, <1>3, <1>4, <1>6, <1>8, <1>9 DEF Edits
<1>11. QED BY <1>10

LEMMA UpdateUserEdits ==
    ASSUME IInv, NEW u \in Users, NEW l \in Logins, NEW m \in Logins,
           NEW x \in {"admin", "plain"}, NEW t \in Passwords \cup {Keep},
           UpdateUser(u, l, m, x, t)
    PROVE  \E i, n, a, k, p : Edits(i, n, a, k, p)
<1> DEFINE i == Get(l)
           a == [login |-> m, access |-> x, pw |-> Edited(slots[i].pw, t)]
           p == Renamed(l, m, t)
<1>1. TypeOK
    BY DEF IInv
<1>2. /\ i # 0 /\ Write(Updated(l, a), count, a, l, p) /\ up /\ UNCHANGED hope
      /\ up' => as' = [v \in Users |-> IF bound[v] = i /\ v \notin moved THEN m ELSE as[v]]
      /\ clash' = (clash \/ (m # l /\ Get(m) # 0))
    BY DEF UpdateUser, Changes
<1>3. /\ i \in 1 .. count /\ count \in 1 .. MaxAccounts /\ slots[i].login = l
      /\ slots[i] \in Account
      /\ ~clash => (\A j \in 1 .. count : j # i => slots[j].login # l) /\ Known(slots[i])
    BY <1>2, EditedFacts
<1>4. Edited(slots[i].pw, t) \in [text : Passwords, hashed : BOOLEAN]
    BY <1>1, <1>3, AccountFields, StoredFacts DEF Edited
<1>5. a \in Account /\ a.login = m /\ a.pw = Edited(slots[i].pw, t)
    BY <1>4 DEF Account
<1> HIDE DEF a
<1>6. \/ /\ slots' = [slots EXCEPT ![i] = a] /\ count' = count /\ File(a, l) /\ cred' = p
         /\ UNCHANGED <<up, bound, moved>>
      \/ DiesIn(a)
    BY <1>2, WriteIs DEF Updated
<1>7. ASSUME ~clash'
      PROVE  ~clash /\ \A j \in 1 .. count : j # i => slots[j].login # a.login
    <2>1. ~clash /\ (m = l \/ Get(m) = 0)
        BY <1>2, <1>7
    <2>2. QED BY <1>1, <1>3, <1>5, <2>1, GetFacts
<1>8. DOMAIN p \subseteq Logins /\ p \in [DOMAIN p -> Passwords] /\ (~clash => Sets(p, a))
    <2>1. CASE t # Keep
        <3>1. p = With(cred, m, t) /\ t \in Passwords /\ a.pw.text = t
            BY <1>1, <1>5, <2>1, StoredFacts DEF Renamed, Edited
        <3>2. QED BY <1>1, <1>5, <3>1, WithFacts DEF Sets
    <2>2. CASE t = Keep /\ l \in DOMAIN cred
        <3>1. p = With(cred, m, cred[l]) /\ cred[l] \in Passwords /\ a.pw = slots[i].pw
            BY <1>1, <1>5, <2>2 DEF Renamed, Edited, TypeOK
        <3>2. ~clash => a.pw = NoPassword \/ a.pw.text = cred[l]
            BY <1>3, <2>2, <3>1 DEF Known
        <3>3. QED BY <1>1, <1>5, <3>1, <3>2, WithFacts DEF Sets
    <2>3. CASE t = Keep /\ l \notin DOMAIN cred
        <3>1. p = [k \in DOMAIN cred \ {m} |-> cred[k]]
            BY <2>3 DEF Renamed, Restrict
        <3>2. QED BY <1>1, <1>5, <3>1 DEF Sets, TypeOK
    <2>4. QED BY <2>1, <2>2, <2>3
<1> HIDE DEF p, i
<1>9. Stored1(i, count, a, l, p) \/ DiesIn(a)
    <2>1. CASE DiesIn(a)
        BY <2>1
    <2>2. CASE ~DiesIn(a)
        BY <1>2, <1>5, <1>6, <2>2 DEF Stored1
    <2>3. QED BY <2>1, <2>2
<1>10. clash' \in BOOLEAN
    BY <1>1, <1>2 DEF TypeOK
<1>11. Edits(i, count, a, l, p)
    BY <1>2, <1>3, <1>5, <1>7, <1>8, <1>9, <1>10 DEF Edits
<1>12. QED BY <1>11

-----------------------------------------------------------------------------
(* The steps keep the invariant. *)

\* The process dies: nothing is in memory, and nobody is logged in.
LEMMA DiesKeeps ==
    ASSUME TypeOK, Dies
    PROVE  /\ up' \in BOOLEAN /\ slots' \in [1 .. MaxAccounts -> Account] /\ count' \in 0 .. MaxAccounts
           /\ bound' \in [Users -> 0 .. MaxAccounts] /\ moved' \subseteq Users
           /\ as' \in [Users -> Logins \cup {NoLogin}]
           /\ Alone' /\ OwnUntilMoved' /\ OneEach' /\ AllInFiles' /\ AllInMemory' /\ MemoryKnown'
<1>1. /\ up' = FALSE /\ count' = 0 /\ slots' = [j \in DOMAIN slots |-> Unread]
      /\ bound' = [u \in Users |-> 0] /\ as' = [u \in Users |-> NoLogin] /\ moved' = {}
    BY DEF Dies
<1>2. slots' \in [1 .. MaxAccounts -> Account]
    BY <1>1, EmptySlots DEF TypeOK
<1>3. 0 \in 0 .. MaxAccounts
    BY MaxAccountsOK
<1>4. /\ up' \in BOOLEAN /\ moved' \subseteq Users /\ bound' \in [Users -> 0 .. MaxAccounts]
      /\ as' \in [Users -> Logins \cup {NoLogin}]
    BY <1>1, <1>3
<1>5. count' \in 0 .. MaxAccounts
    BY <1>1, <1>3
<1>6. Alone' /\ OneEach' /\ AllInFiles' /\ AllInMemory' /\ MemoryKnown'
    BY <1>1 DEF Alone, OneEach, AllInFiles, AllInMemory, MemoryKnown
<1>7. OwnUntilMoved'
    BY <1>1 DEF OwnUntilMoved
<1>8. QED BY <1>2, <1>4, <1>5, <1>6, <1>7

LEMMA EditsKeep ==
    ASSUME IInv, NEW i, NEW n, NEW a, NEW l, NEW p, Edits(i, n, a, l, p)
    PROVE  IInv'
<1> DEFINE m == a.login
<1>1. /\ TypeOK /\ Alone /\ OwnUntilMoved /\ FilesNamed /\ OneEach
      /\ AllInFiles /\ AllInMemory /\ MemoryKnown /\ FilesKnown
    BY DEF IInv
<1>2. /\ up /\ i \in 1 .. n /\ n \in 1 .. MaxAccounts
      /\ (n = count /\ slots[i].login = l) \/ (n = count + 1 /\ i = n)
      /\ a \in Account /\ m \in Logins /\ l \in Logins
      /\ DOMAIN p \subseteq Logins /\ p \in [DOMAIN p -> Passwords]
      /\ hope' = hope /\ clash' \in BOOLEAN
      /\ ~clash' => /\ ~clash /\ Sets(p, a)
                    /\ \A j \in 1 .. count : j # i => slots[j].login # m
    BY DEF Edits
<1>3. count \in Nat /\ count <= n /\ MaxAccounts \in Nat /\ i \in 1 .. MaxAccounts
      /\ (\A j \in 1 .. n : j # i => j \in 1 .. count) /\ (\A j \in 1 .. count : j \in 1 .. n)
    BY <1>1, <1>2, MaxAccountsOK DEF TypeOK
<1>4. CASE Stored1(i, n, a, l, p)
    <2>1. /\ slots' = [slots EXCEPT ![i] = a] /\ count' = n /\ File(a, l) /\ cred' = p
          /\ as' = [v \in Users |-> IF bound[v] = i /\ v \notin moved THEN m ELSE as[v]]
          /\ up' = up /\ bound' = bound /\ moved' = moved
        BY <1>4 DEF Stored1
    <2>2. FiledOnly(a, l)
        BY <1>1, <1>2, <2>1, FileFacts
    <2>3. /\ DOMAIN files' \subseteq Logins /\ files' \in [DOMAIN files' -> Account]
          /\ adrift' \subseteq Logins
          /\ \A k \in Logins \ {m} : k \in DOMAIN files' <=> k \in DOMAIN files
          /\ \A k \in Logins \ {m} : k \in DOMAIN files => files'[k] = files[k]
          /\ \A k \in Logins \ {m} : k \notin adrift' => k \notin adrift /\ k # l
          /\ m \in DOMAIN files' => files'[m].login \in {m, NoLogin}
          /\ m \notin adrift' => m \in DOMAIN files' /\ files'[m] = a
        BY <2>2 DEF FiledOnly
    <2>4. /\ slots' \in [1 .. MaxAccounts -> Account] /\ slots'[i] = a
          /\ \A j \in 1 .. MaxAccounts : j # i => slots'[j] = slots[j]
        BY <1>1, <1>2, <1>3, <2>1 DEF TypeOK
    <2>5. ASSUME ~clash'
          PROVE  /\ \A k \in DOMAIN cred' \ {m} : k \in DOMAIN cred /\ cred'[k] = cred[k]
                 /\ m \in DOMAIN cred' => a.pw = NoPassword \/ a.pw.text = cred'[m]
        BY <1>2, <2>1, <2>5 DEF Sets
    <2>6. a.login = m /\ m # NoLogin
        BY <1>2, EmptyIsNoText
    <2> HIDE DEF m
    <2>7. TypeOK'
        <3>1. /\ up' \in BOOLEAN /\ hope' \in BOOLEAN /\ clash' \in BOOLEAN
              /\ bound' \in [Users -> 0 .. MaxAccounts] /\ moved' \subseteq Users
              /\ DOMAIN cred' \subseteq Logins /\ cred' \in [DOMAIN cred' -> Passwords]
            BY <1>1, <1>2, <2>1 DEF TypeOK
        <3>2. count' \in 0 .. MaxAccounts
            BY <1>2, <1>3, <2>1
        <3>3. as' \in [Users -> Logins \cup {NoLogin}]
            BY <1>1, <1>2, <2>1 DEF TypeOK
        <3>4. QED BY <2>3, <2>4, <3>1, <3>2, <3>3 DEF TypeOK
    <2>8. Alone'
        BY <1>1, <2>1 DEF Alone
    <2>9. OwnUntilMoved'
        <3>1. SUFFICES ASSUME NEW u \in Users, bound[u] # 0, u \notin moved
                       PROVE  bound[u] <= n /\ slots'[bound[u]].login = as'[u]
            BY <2>1 DEF OwnUntilMoved
        <3>2. bound[u] <= count /\ slots[bound[u]].login = as[u] /\ bound[u] \in 1 .. MaxAccounts
            <4>1. bound[u] <= count /\ slots[bound[u]].login = as[u]
                BY <1>1, <3>1 DEF OwnUntilMoved
            <4>2. bound[u] \in 0 .. MaxAccounts
                BY <1>1 DEF TypeOK
            <4>3. bound[u] \in 1 .. MaxAccounts
                BY <1>3, <3>1, <4>2
            <4>4. QED BY <4>1, <4>3
        <3>3. bound[u] <= n
            BY <1>2, <1>3, <3>2
        <3>4. CASE bound[u] = i
            <4>1. slots'[bound[u]].login = m
                BY <2>4, <2>6, <3>4
            <4>2. as'[u] = m
                BY <2>1, <3>1, <3>4
            <4>3. QED BY <3>3, <4>1, <4>2
        <3>5. CASE bound[u] # i
            BY <2>1, <2>4, <3>2, <3>3, <3>5
        <3>6. QED BY <3>4, <3>5
    <2>10. FilesNamed'
        BY <1>1, <2>3 DEF FilesNamed
    <2>11. ASSUME ~clash'
           PROVE  /\ \A k \in 1 .. n : k # i => k \in 1 .. count /\ k \in 1 .. MaxAccounts
                                                /\ slots'[k] = slots[k] /\ slots'[k].login # m
                  /\ \A k \in 1 .. count : k # i => k \in 1 .. n /\ slots'[k] = slots[k]
        BY <1>2, <1>3, <2>4, <2>11
    <2>12. OneEach'
        <3>1. SUFFICES ASSUME ~clash', NEW j \in 1 .. n, NEW k \in 1 .. n,
                              slots'[j].login = slots'[k].login, slots'[j].login # NoLogin
                       PROVE  j = k
            BY <2>1 DEF OneEach
        <3>2. CASE j = i \/ k = i
            BY <2>4, <2>6, <2>11, <3>1, <3>2
        <3>3. CASE j # i /\ k # i
            BY <1>1, <1>2, <2>11, <3>1, <3>3 DEF OneEach
        <3>4. QED BY <3>2, <3>3
    <2>13. AllInFiles'
        <3>1. SUFFICES ASSUME ~clash', NEW j \in 1 .. n, slots'[j].login \in Logins \ adrift'
                       PROVE  slots'[j].login \in DOMAIN files' /\ files'[slots'[j].login] = slots'[j]
            BY <2>1 DEF AllInFiles, InFile
        <3>2. CASE j = i
            BY <2>3, <2>4, <2>6, <3>1, <3>2
        <3>3. CASE j # i
            <4>1. InFile(j) /\ slots'[j] = slots[j] /\ slots'[j].login # m
                BY <1>1, <1>2, <2>11, <3>1, <3>3 DEF AllInFiles
            <4>2. QED BY <2>3, <3>1, <4>1 DEF InFile
        <3>4. QED BY <3>2, <3>3
    <2>14. AllInMemory'
        <3>1. SUFFICES ASSUME ~clash', NEW k \in DOMAIN files' \ adrift'
                       PROVE  \E j \in 1 .. n : slots'[j].login = k
            BY <2>1 DEF AllInMemory, InMemory
        <3>2. CASE k = m
            BY <1>2, <2>4, <2>6, <3>2
        <3>3. CASE k # m
            <4>1. k \in DOMAIN files \ adrift /\ k # l
                BY <2>3, <3>1, <3>3
            <4>2. PICK j \in 1 .. count : slots[j].login = k
                BY <1>1, <1>2, <3>1, <4>1 DEF AllInMemory, InMemory
            <4>3. j # i
                BY <1>2, <1>3, <4>1, <4>2
            <4>4. QED BY <2>11, <3>1, <4>2, <4>3
        <3>4. QED BY <3>2, <3>3
    <2>15. MemoryKnown'
        <3>1. SUFFICES ASSUME ~clash', NEW j \in 1 .. n, slots'[j].login \in DOMAIN cred'
                       PROVE  slots'[j].pw = NoPassword \/ slots'[j].pw.text = cred'[slots'[j].login]
            BY <2>1 DEF MemoryKnown, Known
        <3>2. CASE j = i
            BY <2>4, <2>5, <2>6, <3>1, <3>2
        <3>3. CASE j # i
            <4>1. Known(slots[j]) /\ slots'[j] = slots[j] /\ slots'[j].login # m
                BY <1>1, <1>2, <2>11, <3>1, <3>3 DEF MemoryKnown
            <4>2. QED BY <2>5, <3>1, <4>1 DEF Known
        <3>4. QED BY <3>2, <3>3
    <2>16. FilesKnown'
        <3>1. SUFFICES ASSUME ~clash', NEW k \in DOMAIN files' \ adrift', files'[k].login = k,
                              k \in DOMAIN cred'
                       PROVE  files'[k].pw = NoPassword \/ files'[k].pw.text = cred'[k]
            BY DEF FilesKnown, Known
        <3>2. CASE k = m
            BY <2>3, <2>5, <3>1, <3>2
        <3>3. CASE k # m
            <4>1. k \in DOMAIN files \ adrift /\ files'[k] = files[k]
                BY <2>3, <3>1, <3>3
            <4>2. Known(files[k])
                BY <1>1, <1>2, <3>1, <4>1 DEF FilesKnown
            <4>3. QED BY <2>5, <3>1, <3>3, <4>1, <4>2 DEF Known
        <3>4. QED BY <3>2, <3>3
    <2>17. QED BY <2>7, <2>8, <2>9, <2>10, <2>12, <2>13, <2>14, <2>15, <2>16 DEF IInv
<1>5. CASE DiesIn(a)
    <2>1. Dies /\ files' = Filed(m, Unread) /\ adrift' = adrift \cup {m} /\ cred' = cred
        BY <1>5 DEF DiesIn
    <2>2. Unread \in Account /\ Unread.login = NoLogin
        BY EmptySlots DEF Unread
    <2>3. /\ DOMAIN files' \subseteq Logins /\ files' \in [DOMAIN files' -> Account]
          /\ \A k \in Logins \ {m} : k \in DOMAIN files' <=> k \in DOMAIN files
          /\ \A k \in Logins \ {m} : k \in DOMAIN files => files'[k] = files[k]
          /\ m \in DOMAIN files' /\ files'[m] = Unread
        BY <1>1, <1>2, <2>1, <2>2, FiledIs
    <2> HIDE DEF m
    <2>4. TypeOK'
        <3>1. /\ hope' \in BOOLEAN /\ clash' \in BOOLEAN /\ adrift' \subseteq Logins
              /\ DOMAIN cred' \subseteq Logins /\ cred' \in [DOMAIN cred' -> Passwords]
            BY <1>1, <1>2, <2>1 DEF TypeOK
        <3>2. QED BY <1>1, <2>1, <2>3, <3>1, DiesKeeps DEF TypeOK
    <2>5. FilesNamed'
        BY <1>1, <2>2, <2>3 DEF FilesNamed
    <2>6. FilesKnown'
        <3>1. SUFFICES ASSUME ~clash, NEW k \in DOMAIN files' \ adrift', files'[k].login = k,
                              k \in DOMAIN cred'
                       PROVE  files'[k].pw = NoPassword \/ files'[k].pw.text = cred'[k]
            BY <1>2 DEF FilesKnown, Known
        <3>2. k # m /\ k \in DOMAIN files \ adrift /\ files'[k] = files[k]
            BY <2>1, <2>3, <3>1
        <3>3. Known(files[k])
            BY <1>1, <3>1, <3>2 DEF FilesKnown
        <3>4. QED BY <2>1, <3>1, <3>2, <3>3 DEF Known
    <2>7. QED BY <1>1, <2>1, <2>4, <2>5, <2>6, DiesKeeps DEF IInv
<1>6. QED BY <1>4, <1>5 DEF Edits

\* Taking account i out: those above move down, and the pointers from it on are
\* marked as moved.
LEMMA DeleteUserKeeps ==
    ASSUME IInv, NEW u \in Users, NEW l \in Logins, DeleteUser(u, l)
    PROVE  IInv'
<1> DEFINE i == Get(l)
<1>1. /\ TypeOK /\ Alone /\ OwnUntilMoved /\ FilesNamed /\ OneEach
      /\ AllInFiles /\ AllInMemory /\ MemoryKnown /\ FilesKnown
    BY DEF IInv
<1>2. /\ i # 0 /\ slots' = ShiftedDown(i) /\ count' = count - 1
      /\ \/ files' = Restrict(files, DOMAIN files \ {l}) /\ adrift' = adrift \ {l}
         \/ files' = files /\ adrift' = adrift \cup {l}
      /\ moved' = moved \cup {v \in Users : bound[v] >= i}
      /\ up /\ hope' = hope /\ up' = up /\ bound' = bound /\ as' = as /\ cred' = cred /\ clash' = clash
    BY DEF DeleteUser, Changes
<1>3. /\ i \in 1 .. count /\ slots[i].login = l
      /\ ~clash => \A j \in 1 .. count : j # i => slots[j].login # l
    BY <1>2, EditedFacts
<1> HIDE DEF i
<1>4. /\ count \in Nat /\ MaxAccounts \in Nat /\ count \in 0 .. MaxAccounts
      /\ count' \in 0 .. MaxAccounts /\ count' < count
      /\ i \in 1 .. MaxAccounts
      /\ \A j \in 1 .. count' : /\ j \in 1 .. count /\ j + 1 \in 1 .. count /\ j < count
                                /\ j \in 1 .. MaxAccounts /\ j + 1 \in 1 .. MaxAccounts
    <2>1. count \in 0 .. MaxAccounts /\ MaxAccounts \in Nat
        BY <1>1, MaxAccountsOK DEF TypeOK
    <2>2. QED BY <1>2, <1>3, <2>1
<1>5. DOMAIN slots = 1 .. MaxAccounts /\ \A j \in 1 .. MaxAccounts : slots[j] \in Account
    BY <1>1 DEF TypeOK
<1>6. slots' \in [1 .. MaxAccounts -> Account]
    <2>1. \A j \in 1 .. MaxAccounts : j < count => j + 1 \in 1 .. MaxAccounts
        BY <1>4
    <2>2. slots' = [j \in 1 .. MaxAccounts |-> IF i <= j /\ j < count THEN slots[j + 1] ELSE slots[j]]
        BY <1>2, <1>5 DEF ShiftedDown
    <2>3. QED BY <1>5, <2>1, <2>2
<1>7. \A j \in 1 .. count' : slots'[j] = IF i <= j THEN slots[j + 1] ELSE slots[j]
    BY <1>2, <1>4, <1>5 DEF ShiftedDown
<1>8. /\ DOMAIN files' \subseteq DOMAIN files /\ \A k \in DOMAIN files' : files'[k] = files[k]
      /\ files' \in [DOMAIN files' -> Account] /\ adrift' \subseteq Logins
      /\ \A k \in Logins \ {l} : k \in DOMAIN files => k \in DOMAIN files'
      /\ \A k \in Logins : k \notin adrift' => k \notin adrift \/ k = l
      /\ l \in DOMAIN files' => l \in adrift'
    BY <1>1, <1>2 DEF TypeOK, Restrict
<1>9. TypeOK'
    <2>1. moved' \subseteq Users /\ DOMAIN files' \subseteq Logins
        BY <1>1, <1>2, <1>8 DEF TypeOK
    <2>2. QED BY <1>1, <1>2, <1>4, <1>6, <1>8, <2>1 DEF TypeOK
<1>10. OwnUntilMoved'
    <2>1. SUFFICES ASSUME NEW v \in Users, bound[v] # 0, v \notin moved'
                   PROVE  bound[v] <= count' /\ slots'[bound[v]].login = as[v]
        BY <1>2 DEF OwnUntilMoved
    <2>2. bound[v] <= count /\ slots[bound[v]].login = as[v]
        BY <1>1, <1>2, <2>1 DEF OwnUntilMoved
    <2>3. bound[v] \in 0 .. MaxAccounts
        BY <1>1 DEF TypeOK
    <2>4. ~(bound[v] >= i)
        BY <1>2, <2>1
    <2>5. bound[v] \in 1 .. count' /\ ~(i <= bound[v]) /\ bound[v] <= count'
        BY <1>2, <1>3, <1>4, <2>1, <2>2, <2>3, <2>4
    <2>6. QED BY <1>7, <2>2, <2>5
<1> DEFINE From(k) == IF i <= k THEN k + 1 ELSE k
<1>11. /\ \A k \in 1 .. count' : From(k) \in 1 .. count /\ From(k) # i /\ slots'[k] = slots[From(k)]
       /\ \A k, m \in 1 .. count' : From(k) = From(m) => k = m
       /\ \A j \in 1 .. count : j # i => \E k \in 1 .. count' : From(k) = j
    <2>1. \A k \in 1 .. count' : From(k) \in 1 .. count /\ From(k) # i /\ slots'[k] = slots[From(k)]
        BY <1>3, <1>4, <1>7
    <2>2. \A k, m \in 1 .. count' : From(k) = From(m) => k = m
        BY <1>3, <1>4
    <2>3. ASSUME NEW j \in 1 .. count, j # i
          PROVE  \E k \in 1 .. count' : From(k) = j
        <3>1. CASE j < i
            BY <1>2, <1>3, <1>4, <2>3, <3>1
        <3>2. CASE j > i
            <4>1. j - 1 \in 1 .. count' /\ From(j - 1) = j
                BY <1>2, <1>3, <1>4, <2>3, <3>2
            <4>2. QED BY <4>1
        <3>3. QED BY <1>3, <1>4, <2>3, <3>1, <3>2
    <2>4. QED BY <2>1, <2>2, <2>3
<1> HIDE DEF From
<1>12. OneEach'
    <2>1. SUFFICES ASSUME ~clash, NEW j \in 1 .. count', NEW k \in 1 .. count',
                          slots'[j].login = slots'[k].login, slots'[j].login # NoLogin
                   PROVE  j = k
        BY <1>2 DEF OneEach
    <2>2. From(j) = From(k)
        BY <1>1, <1>2, <1>11, <2>1 DEF OneEach
    <2>3. QED BY <1>11, <2>2
<1>13. ASSUME ~clash, NEW j \in 1 .. count'
       PROVE  /\ slots'[j] = slots[From(j)] /\ slots'[j].login # l
              /\ InFile(From(j)) /\ Known(slots[From(j)])
    BY <1>1, <1>2, <1>3, <1>11, <1>13 DEF AllInFiles, MemoryKnown
<1>14. AllInFiles'
    <2>1. SUFFICES ASSUME ~clash, NEW j \in 1 .. count', slots'[j].login \in Logins \ adrift'
                   PROVE  slots'[j].login \in DOMAIN files' /\ files'[slots'[j].login] = slots'[j]
        BY <1>2 DEF AllInFiles, InFile
    <2>2. slots'[j] = slots[From(j)] /\ slots'[j].login # l /\ InFile(From(j))
        BY <1>13, <2>1
    <2>3. slots'[j].login \in DOMAIN files /\ files[slots'[j].login] = slots'[j]
        BY <1>8, <2>1, <2>2 DEF InFile
    <2>4. QED BY <1>8, <2>1, <2>2, <2>3
<1>15. AllInMemory'
    <2>1. SUFFICES ASSUME ~clash, NEW k \in DOMAIN files' \ adrift'
                   PROVE  \E j \in 1 .. count' : slots'[j].login = k
        BY <1>2 DEF AllInMemory, InMemory
    <2>2. k # l /\ k \in DOMAIN files \ adrift
        BY <1>1, <1>8, <2>1 DEF TypeOK
    <2>3. PICK j \in 1 .. count : slots[j].login = k
        BY <1>1, <1>2, <2>1, <2>2 DEF AllInMemory, InMemory
    <2>4. j # i
        BY <1>3, <2>2, <2>3
    <2>5. PICK jj \in 1 .. count' : From(jj) = j
        BY <1>11, <2>4
    <2>6. QED BY <1>11, <2>3, <2>5
<1>16. MemoryKnown'
    BY <1>2, <1>13 DEF MemoryKnown, Known
<1>17. FilesKnown'
    <2>1. SUFFICES ASSUME ~clash, NEW k \in DOMAIN files' \ adrift', files'[k].login = k,
                          k \in DOMAIN cred'
                   PROVE  files'[k].pw = NoPassword \/ files'[k].pw.text = cred'[k]
        BY <1>2 DEF FilesKnown, Known
    <2>2. k \in DOMAIN files \ adrift /\ files'[k] = files[k]
        BY <1>1, <1>8, <2>1 DEF TypeOK
    <2>3. Known(files[k])
        BY <1>1, <2>1, <2>2 DEF FilesKnown
    <2>4. QED BY <1>2, <2>1, <2>2, <2>3 DEF Known
<1>18. Alone' /\ FilesNamed'
    BY <1>1, <1>2, <1>8 DEF Alone, FilesNamed
<1>19. QED BY <1>9, <1>10, <1>12, <1>14, <1>15, <1>16, <1>17, <1>18 DEF IInv

LEMMA LogInKeeps ==
    ASSUME IInv, NEW u \in Users, NEW i \in 1 .. count, LogIn(u, i)
    PROVE  IInv'
<1>1. /\ TypeOK /\ Alone /\ OwnUntilMoved /\ FilesNamed /\ OneEach
      /\ AllInFiles /\ AllInMemory /\ MemoryKnown /\ FilesKnown
    BY DEF IInv
<1>2. /\ up /\ bound' = [bound EXCEPT ![u] = i] /\ as' = [as EXCEPT ![u] = slots[i].login]
      /\ UNCHANGED <<up, hope, slots, count, files, moved, cred, adrift, clash>>
    BY DEF LogIn
<1>3. i \in 1 .. MaxAccounts /\ i \in 0 .. MaxAccounts /\ i <= count
    BY <1>1, MaxAccountsOK DEF TypeOK
<1>4. slots[i].login \in Logins \cup {NoLogin}
    BY <1>1, <1>3, AccountFields DEF TypeOK
<1>5. /\ bound' \in [Users -> 0 .. MaxAccounts] /\ as' \in [Users -> Logins \cup {NoLogin}]
      /\ bound'[u] = i /\ as'[u] = slots[i].login
      /\ \A v \in Users : v # u => bound'[v] = bound[v] /\ as'[v] = as[v]
    BY <1>1, <1>2, <1>3, <1>4 DEF TypeOK
<1>6. TypeOK' /\ Alone' /\ FilesNamed' /\ FilesKnown'
    BY <1>1, <1>2, <1>5 DEF TypeOK, Alone, FilesNamed, FilesKnown, Known
<1>7. OneEach' /\ AllInFiles' /\ AllInMemory' /\ MemoryKnown'
    BY <1>1, <1>2 DEF OneEach, AllInFiles, InFile, AllInMemory, InMemory, MemoryKnown, Known
<1>8. OwnUntilMoved'
    BY <1>1, <1>2, <1>3, <1>5 DEF OwnUntilMoved
<1>9. QED BY <1>6, <1>7, <1>8 DEF IInv

LEMMA LogoutKeeps ==
    ASSUME IInv, NEW u \in Users, Logout(u)
    PROVE  IInv'
<1>1. /\ TypeOK /\ Alone /\ OwnUntilMoved /\ FilesNamed /\ OneEach
      /\ AllInFiles /\ AllInMemory /\ MemoryKnown /\ FilesKnown
    BY DEF IInv
<1>2. /\ bound' = [bound EXCEPT ![u] = 0] /\ as' = [as EXCEPT ![u] = NoLogin]
      /\ moved' = moved \ {u}
      /\ UNCHANGED <<up, hope, slots, count, files, cred, adrift, clash>>
    BY DEF Logout
<1>3. 0 \in 0 .. MaxAccounts
    BY MaxAccountsOK
<1>4. /\ bound' \in [Users -> 0 .. MaxAccounts] /\ as' \in [Users -> Logins \cup {NoLogin}]
      /\ bound'[u] = 0 /\ \A v \in Users : v # u => bound'[v] = bound[v] /\ as'[v] = as[v]
    BY <1>1, <1>2, <1>3 DEF TypeOK
<1>5. TypeOK' /\ Alone' /\ FilesNamed' /\ FilesKnown'
    BY <1>1, <1>2, <1>4 DEF TypeOK, Alone, FilesNamed, FilesKnown, Known
<1>6. OneEach' /\ AllInFiles' /\ AllInMemory' /\ MemoryKnown'
    BY <1>1, <1>2 DEF OneEach, AllInFiles, InFile, AllInMemory, InMemory, MemoryKnown, Known
<1>7. OwnUntilMoved'
    BY <1>1, <1>2, <1>4 DEF OwnUntilMoved
<1>8. QED BY <1>5, <1>6, <1>7 DEF IInv

\* The order in which the files are read names each file once, and all of them.
LEMMA OrderFacts ==
    ASSUME TypeOK, NEW order \in SetToSeqs(DOMAIN files)
    PROVE  /\ Len(order) \in Nat /\ \A k \in 1 .. Len(order) : order[k] \in DOMAIN files
           /\ \A k, m \in 1 .. Len(order) : order[k] = order[m] => k = m
           /\ \A l \in DOMAIN files : \E k \in 1 .. Len(order) : order[k] = l
<1> DEFINE n == Cardinality(DOMAIN files)
<1>1. IsFiniteSet(DOMAIN files) /\ n \in Nat
    BY MaxAccountsOK, FS_Subset, FS_CardinalityType DEF TypeOK
<1>2. /\ order \in [1 .. n -> DOMAIN files]
      /\ \A k, m \in 1 .. n : order[k] = order[m] => k = m
    BY DEF SetToSeqs, IsInjective
<1> HIDE DEF n
<1>3. Len(order) = n
    BY <1>1, <1>2
<1>4. \A l \in DOMAIN files : \E k \in 1 .. n : order[k] = l
    <2> DEFINE S == {order[k] : k \in 1 .. n}
    <2>1. IsFiniteSet(1 .. n) /\ Cardinality(1 .. n) = n
        BY <1>1, FS_Interval
    <2>2. order \in Bijection(1 .. n, S)
        BY <1>2 DEF Bijection, Injection, IsInjective, Surjection
    <2>3. IsFiniteSet(S) /\ Cardinality(S) = n
        <3>1. ExistsBijection(1 .. n, S)
            BY <2>2 DEF ExistsBijection
        <3>2. QED BY <2>1, <3>1, FS_Bijection
    <2>4. S \subseteq DOMAIN files
        BY <1>2
    <2>5. S = DOMAIN files
        <3> HIDE DEF S
        <3>1. QED BY <1>1, <2>3, <2>4, FS_Subset DEF n
    <2>6. QED BY <2>5
<1>5. QED BY <1>1, <1>2, <1>3, <1>4

LEMMA StartKeeps ==
    ASSUME IInv, Start
    PROVE  IInv'
<1>1. /\ TypeOK /\ Alone /\ OwnUntilMoved /\ FilesNamed /\ FilesKnown
    BY DEF IInv
<1>2. PICK order \in SetToSeqs(DOMAIN files) :
        LET n == IF Len(order) < MaxAccounts THEN Len(order) ELSE MaxAccounts
        IN  /\ count' = n
            /\ slots' = [i \in 1 .. MaxAccounts |-> IF i <= n THEN files[order[i]] ELSE Unread]
            /\ adrift' = {l \in DOMAIN files : files[l].login # l}
                         \cup {order[i] : i \in n + 1 .. Len(order)}
    BY DEF Start
<1>3. /\ ~up /\ up' = TRUE /\ hope' \in BOOLEAN
      /\ cred' = Restrict(cred, DOMAIN cred \ adrift)
      /\ UNCHANGED <<files, bound, as, moved, clash>>
    BY DEF Start
<1>4. /\ Len(order) \in Nat /\ \A k \in 1 .. Len(order) : order[k] \in DOMAIN files
      /\ \A k, m \in 1 .. Len(order) : order[k] = order[m] => k = m
      /\ \A l \in DOMAIN files : \E k \in 1 .. Len(order) : order[k] = l
    BY <1>1, OrderFacts
<1> DEFINE n == IF Len(order) < MaxAccounts THEN Len(order) ELSE MaxAccounts
<1>5. /\ n \in 0 .. MaxAccounts /\ \A k \in 1 .. n : k \in 1 .. Len(order) /\ k \in 1 .. MaxAccounts
      /\ \A k \in 1 .. Len(order) : k \in 1 .. n \/ k \in n + 1 .. Len(order)
      /\ \A k \in n + 1 .. Len(order) : k \in 1 .. Len(order)
    BY <1>4, MaxAccountsOK
<1>6. /\ count' = n /\ slots' = [i \in 1 .. MaxAccounts |-> IF i <= n THEN files[order[i]] ELSE Unread]
      /\ adrift' = {l \in DOMAIN files : files[l].login # l}
                   \cup {order[i] : i \in n + 1 .. Len(order)}
    BY <1>2
<1> HIDE DEF n
<1>7. slots' \in [1 .. MaxAccounts -> Account]
    <2>1. \A i \in 1 .. MaxAccounts : i <= n => files[order[i]] \in Account
        BY <1>1, <1>4, <1>5 DEF TypeOK
    <2>2. QED BY <1>6, <2>1, EmptySlots
<1>8. /\ \A k \in 1 .. count' : /\ slots'[k] = files[order[k]] /\ order[k] \in DOMAIN files
                                /\ slots'[k].login \in {order[k], NoLogin}
      /\ \A j, k \in 1 .. count' : order[j] = order[k] => j = k
    <2>1. \A k \in 1 .. count' : /\ slots'[k] = files[order[k]] /\ order[k] \in DOMAIN files
                                 /\ k \in 1 .. Len(order)
        BY <1>4, <1>5, <1>6
    <2>2. QED BY <1>1, <1>4, <2>1 DEF FilesNamed
<1>9. /\ DOMAIN cred' = DOMAIN cred \ adrift /\ \A k \in DOMAIN cred' : cred'[k] = cred[k]
      /\ cred' \in [DOMAIN cred' -> Passwords] /\ DOMAIN cred' \subseteq Logins
    BY <1>1, <1>3 DEF TypeOK, Restrict
<1>10. adrift' \subseteq Logins
    BY <1>1, <1>4, <1>5, <1>6 DEF TypeOK
<1>11. TypeOK'
    BY <1>1, <1>3, <1>5, <1>6, <1>7, <1>9, <1>10 DEF TypeOK
<1>12. OneEach'
    <2>1. SUFFICES ASSUME NEW j \in 1 .. count', NEW k \in 1 .. count',
                          slots'[j].login = slots'[k].login, slots'[j].login # NoLogin
                   PROVE  j = k
        BY DEF OneEach
    <2>2. QED BY <1>8, <2>1
<1>13. AllInFiles'
    <2>1. SUFFICES ASSUME NEW j \in 1 .. count', slots'[j].login \in Logins
                   PROVE  slots'[j].login \in DOMAIN files /\ files[slots'[j].login] = slots'[j]
        BY <1>3 DEF AllInFiles, InFile
    <2>2. QED BY <1>8, <2>1, EmptyIsNoText
<1>14. AllInMemory'
    <2>1. SUFFICES ASSUME NEW l \in DOMAIN files \ adrift'
                   PROVE  \E j \in 1 .. count' : slots'[j].login = l
        BY <1>3 DEF AllInMemory, InMemory
    <2>2. PICK k \in 1 .. Len(order) : order[k] = l
        BY <1>4
    <2>3. k \in 1 .. count' /\ files[l].login = l
        BY <1>5, <1>6, <2>1, <2>2
    <2>4. QED BY <1>8, <2>2, <2>3
<1>15. MemoryKnown'
    <2>1. SUFFICES ASSUME ~clash, NEW j \in 1 .. count', slots'[j].login \in DOMAIN cred'
                   PROVE  slots'[j].pw = NoPassword \/ slots'[j].pw.text = cred'[slots'[j].login]
        BY <1>3 DEF MemoryKnown, Known
    <2>2. slots'[j].login = order[j] /\ slots'[j] = files[order[j]] /\ order[j] \in DOMAIN files \ adrift
        BY <1>8, <1>9, <2>1, EmptyIsNoText
    <2>3. Known(files[order[j]])
        BY <1>1, <2>1, <2>2 DEF FilesKnown
    <2>4. QED BY <1>9, <2>1, <2>2, <2>3 DEF Known
<1>16. FilesKnown'
    <2>1. SUFFICES ASSUME ~clash, NEW k \in DOMAIN files, files[k].login = k, k \in DOMAIN cred'
                   PROVE  files[k].pw = NoPassword \/ files[k].pw.text = cred'[k]
        BY <1>3 DEF FilesKnown, Known
    <2>2. k \in DOMAIN files \ adrift
        BY <1>9, <2>1
    <2>3. Known(files[k])
        BY <1>1, <2>1, <2>2 DEF FilesKnown
    <2>4. QED BY <1>9, <2>1, <2>3 DEF Known
<1>17. Alone' /\ FilesNamed'
    BY <1>1, <1>3 DEF Alone, FilesNamed
<1>18. OwnUntilMoved'
    BY <1>1, <1>3 DEF Alone, OwnUntilMoved
<1>19. QED BY <1>11, <1>12, <1>13, <1>14, <1>15, <1>16, <1>17, <1>18 DEF IInv

LEMMA CrashKeeps ==
    ASSUME IInv, Crash
    PROVE  IInv'
<1>1. TypeOK /\ FilesNamed /\ FilesKnown /\ Dies /\ UNCHANGED <<hope, files, cred, adrift, clash>>
    BY DEF IInv, Crash
<1>2. TypeOK'
    BY <1>1, DiesKeeps DEF TypeOK
<1>3. FilesNamed' /\ FilesKnown'
    BY <1>1 DEF FilesNamed, FilesKnown, Known
<1>4. QED BY <1>1, <1>2, <1>3, DiesKeeps DEF IInv

LEMMA InitIInv == Init => IInv
<1> SUFFICES ASSUME Init PROVE IInv
    OBVIOUS
<1>1. /\ up = FALSE /\ hope = FALSE /\ slots = [j \in 1 .. MaxAccounts |-> Unread] /\ count = 0
      /\ files = Installed /\ bound = [u \in Users |-> 0] /\ as = [u \in Users |-> NoLogin]
      /\ moved = {} /\ clash = FALSE /\ adrift = {}
      /\ cred = [l \in DOMAIN Installed |-> Installed[l].pw.text]
    BY DEF Init
<1>2. /\ 0 \in 0 .. MaxAccounts
      /\ bound \in [Users -> 0 .. MaxAccounts] /\ as \in [Users -> Logins \cup {NoLogin}]
    BY <1>1, MaxAccountsOK
<1>3. \A l \in DOMAIN Installed : Installed[l].pw.text \in Passwords
    BY InstalledOK, AccountFields
<1>4. DOMAIN cred = DOMAIN Installed /\ cred \in [DOMAIN cred -> Passwords]
    BY <1>1, <1>3
<1>5. TypeOK
    BY <1>1, <1>2, <1>4, InstalledOK, EmptySlots DEF TypeOK
<1>6. Alone /\ OneEach /\ OwnUntilMoved /\ AllInFiles /\ AllInMemory /\ MemoryKnown
    BY <1>1 DEF Alone, OneEach, OwnUntilMoved, AllInFiles, AllInMemory, MemoryKnown
<1>7. FilesNamed /\ FilesKnown
    BY <1>1, InstalledOK DEF FilesNamed, FilesKnown, Known
<1>8. QED BY <1>5, <1>6, <1>7 DEF IInv

LEMMA NextIInv == IInv /\ [Next]_vars => IInv'
<1> SUFFICES ASSUME IInv, [Next]_vars PROVE IInv'
    OBVIOUS
<1>1. CASE Start
    BY <1>1, StartKeeps
<1>2. CASE Crash
    BY <1>2, CrashKeeps
<1>3. ASSUME NEW u \in Users, Logout(u)
      PROVE  IInv'
    BY <1>3, LogoutKeeps
<1>4. ASSUME NEW u \in Users, NEW l \in Logins, NEW t \in Passwords, Login(u, l, t)
      PROVE  IInv'
    <2>1. TypeOK /\ Get(l) # 0 /\ LogIn(u, Get(l))
        BY <1>4 DEF IInv, Login
    <2>2. Get(l) \in 1 .. count
        <3>1. count \in Nat
            BY <2>1, MaxAccountsOK DEF TypeOK
        <3>2. Get(l) \in 0 .. count
            BY <2>1, GetFacts
        <3>3. QED BY <2>1, <3>1, <3>2
    <2>3. QED BY <2>1, <2>2, LogInKeeps
<1>5. ASSUME NEW u \in Users, NEW l \in Logins, NEW t \in Passwords, HopeLogin(u, l, t)
      PROVE  IInv'
    BY <1>5, LogInKeeps DEF HopeLogin, Holding
<1>6. ASSUME NEW u \in Users, NEW l \in Logins, NEW x \in {"admin", "plain"}, NEW t \in Passwords,
             NewUser(u, l, x, t)
      PROVE  IInv'
    BY <1>6, NewUserEdits, EditsKeep
<1>7. ASSUME NEW u \in Users, NEW l \in Logins, NEW x \in {"admin", "plain"}, SetUser(u, l, x)
      PROVE  IInv'
    BY <1>7, SetUserEdits, EditsKeep
<1>8. ASSUME NEW u \in Users, NEW l \in Logins, NEW m \in Logins, NEW x \in {"admin", "plain"},
             NEW t \in Passwords \cup {Keep}, UpdateUser(u, l, m, x, t)
      PROVE  IInv'
    BY <1>8, UpdateUserEdits, EditsKeep
<1>9. ASSUME NEW u \in Users, NEW l \in Logins, DeleteUser(u, l)
      PROVE  IInv'
    BY <1>9, DeleteUserKeeps
<1>10. CASE UNCHANGED vars
    <2>1. /\ up' = up /\ hope' = hope /\ slots' = slots /\ count' = count /\ files' = files
          /\ bound' = bound /\ as' = as /\ moved' = moved /\ cred' = cred /\ adrift' = adrift
          /\ clash' = clash
        BY <1>10 DEF vars, ghosts
    <2>2. QED BY <2>1 DEF IInv, TypeOK, Alone, OwnUntilMoved, FilesNamed, OneEach, AllInFiles, InFile,
                          AllInMemory, InMemory, MemoryKnown, Known, FilesKnown
<1>11. QED BY <1>1, <1>2, <1>3, <1>4, <1>5, <1>6, <1>7, <1>8, <1>9, <1>10 DEF Next

THEOREM Inductive == Spec => []IInv
  BY InitIInv, NextIInv, PTL DEF Spec

-----------------------------------------------------------------------------
(* What follows. *)

\* A client's pointer names the account it logged in to as long as no account at
\* or below its own was deleted (yaml_del, hl_client_conn_authorize).
THEOREM PointersHold == Spec => []OwnUntilMoved
<1>1. IInv => OwnUntilMoved
    BY DEF IInv
<1>2. QED BY <1>1, Inductive, PTL

\* What a restart would load for a login is what is in force for it, one account
\* or none, but for the logins that are adrift, and as long as no account was
\* renamed to a login in use (write_account_yaml).
THEOREM DiskHasMemory == Spec => []Saved
<1>1. IInv => Saved
    <2>1. SUFFICES ASSUME IInv, up, ~clash, NEW l \in Logins \ adrift
                   PROVE  \/ Holding(l) = {} /\ l \notin DOMAIN files
                          \/ \E i \in 1 .. count :
                               Holding(l) = {i} /\ l \in DOMAIN files /\ files[l] = slots[i]
        BY DEF Saved
    <2>2. OneEach /\ AllInFiles /\ AllInMemory
        BY <2>1 DEF IInv
    <2>3. CASE \E i \in 1 .. count : slots[i].login = l
        <3>1. PICK i \in 1 .. count : slots[i].login = l
            BY <2>3
        <3>2. l \in DOMAIN files /\ files[l] = slots[i]
            BY <2>1, <2>2, <3>1 DEF AllInFiles, InFile
        <3>3. \A j \in 1 .. count : slots[j].login = l => j = i
            BY <2>1, <2>2, <3>1, EmptyIsNoText DEF OneEach
        <3>4. Holding(l) = {i}
            BY <3>1, <3>3 DEF Holding
        <3>5. QED BY <3>2, <3>4
    <2>4. CASE ~\E i \in 1 .. count : slots[i].login = l
        <3>1. Holding(l) = {}
            BY <2>4 DEF Holding
        <3>2. l \notin DOMAIN files
            BY <2>1, <2>2, <2>4 DEF AllInMemory, InMemory
        <3>3. QED BY <3>1, <3>2
    <2>5. QED BY <2>3, <2>4
<1>2. QED BY <1>1, Inductive, PTL

\* The password last set for a login opens it and no other does, unless it has
\* none, until a restart reads a file that is adrift (hl_password_hash,
\* hl_password_verify).
THEOREM PasswordsOpen == Spec => []PasswordsHold
<1>1. IInv => PasswordsHold
    BY DEF IInv, MemoryKnown, Known, PasswordsHold, Accepts
<1>2. QED BY <1>1, Inductive, PTL
=============================================================================
