-------------------------- MODULE PrivateChatProofs --------------------------
(***************************************************************************)
(* Proofs about PrivateChat for every value of its constants: rooms stay    *)
(* well typed whatever users do, and a room that no disconnect, second join *)
(* or join while full has spoiled has live members only, and is displayed   *)
(* by exactly them, as it is.                                               *)
(***************************************************************************)
EXTENDS PrivateChat, FiniteSetTheorems, SequenceTheorems,
        WellFoundedInduction, TLAPS

RoomIds == ChatId \cup {NoChat}
AllShown == [Addr -> [RoomIds -> Display]]

\* An id names one user: ids are the logins' ordinals within one cycle.
UsersSound ==
    /\ uid \in [Addr -> UserId \cup {NoId}] /\ logins \in 0 .. MaxLogins
    /\ \A a \in Addr : LoggedIn(a) => \E n \in 1 .. logins : uid[a] = n % IdSpace
    /\ \A a, b \in Addr : LoggedIn(a) /\ uid[a] = uid[b] => a = b

\* The entries of a room: each is of the session that now has the address,
\* whose user displays the room, and no user has two.
Sound(ms, c, sh) ==
    /\ ms \in Seq(Member)
    /\ \A j \in DOMAIN ms :
         /\ uid[ms[j].conn] = ms[j].id
         /\ sh[ms[j].conn][c].state = "open"
         /\ \A k \in DOMAIN ms : ms[j].id = ms[k].id => j = k

RoomsSound == \A c \in DOMAIN chats \ spoiled : Sound(chats[c].members, c, shows)

IInv == TypeOK /\ UsersSound /\ RoomsSound

-----------------------------------------------------------------------------
(* Sequences, ids and displays. *)

\* What the elements of a list of members are.
LEMMA MemberFacts ==
  ASSUME NEW ms \in Seq(Member)
  PROVE  /\ Len(ms) \in Nat /\ DOMAIN ms = 1 .. Len(ms)
         /\ \A j \in DOMAIN ms : /\ ms[j] \in Member
                                 /\ ms[j].conn \in Addr /\ ms[j].id \in UserId
<1>1. Len(ms) \in Nat /\ DOMAIN ms = 1 .. Len(ms)
  BY LenProperties
<1>2. \A j \in DOMAIN ms : ms[j] \in Member
  BY <1>1, ElementOfSeq
<1>3. \A m \in Member : m.conn \in Addr /\ m.id \in UserId
  BY DEF Member
<1>4. QED BY <1>1, <1>2, <1>3

\* Two ordinals of one cycle with the same remainder are the same.
LEMMA IdInjective ==
  \A m, n \in 1 .. IdSpace : m % IdSpace = n % IdSpace => m = n
<1>1. \A n \in 1 .. IdSpace : n # IdSpace => n % IdSpace = n
  BY UsersAssumption
<1>2. IdSpace % IdSpace = 0
  BY UsersAssumption
<1>3. QED BY <1>1, <1>2

\* A set of numbers up to some n that is not empty has a least element: among
\* its intersections with 1 .. i one is contained in no other.
LEMMA LeastElement ==
    ASSUME NEW n \in Nat, NEW S \in SUBSET (1 .. n), S # {}
    PROVE  \E i \in S : \A j \in S : i <= j
<1> DEFINE Below(i) == {j \in S : j <= i}
           T == {Below(i) : i \in S}
<1>1. IsFiniteSet(S)
    <2>1. 1 \in Int /\ n \in Int
        OBVIOUS
    <2>2. IsFiniteSet(1 .. n)
        BY <2>1, FS_Interval
    <2>3. QED BY <2>2, FS_Subset
<1>2. FiniteSubsetsOf(S) = SUBSET S
    BY <1>1, FS_FiniteSubsetsOfFinite
<1>3. IsWellFoundedOn(StrictSubsetOrdering(S), SUBSET S)
    BY <1>2, FS_StrictSubsetOrderingWellFounded
<1>4. T \subseteq SUBSET S /\ T # {}
    OBVIOUS
<1>5. PICK x \in T : \A y \in T : ~(<<y, x>> \in StrictSubsetOrdering(S))
    BY <1>3, <1>4, WFMin
<1>6. PICK i \in S : x = Below(i)
    BY <1>5
<1>7. ASSUME NEW j \in S, j < i
      PROVE  FALSE
    <2>1. Below(j) \subseteq Below(i)
        <3>1. i \in Int /\ j \in Int /\ \A k \in S : k \in Int
            OBVIOUS
        <3>2. \A k \in S : k <= j => k <= i
            BY <1>7, <3>1
        <3>3. QED BY <3>2
    <2>2. i \in Below(i) /\ i \notin Below(j)
        BY <1>7
    <2>3. Below(j) \in T /\ Below(j) \in SUBSET S /\ Below(i) \in SUBSET S
        OBVIOUS
    <2>4. <<Below(j), Below(i)>> \in StrictSubsetOrdering(S)
        BY <2>1, <2>2, <2>3 DEF StrictSubsetOrdering
    <2>5. QED BY <1>5, <1>6, <2>3, <2>4
<1>8. \A j \in S : i <= j
    BY <1>7
<1>9. QED BY <1>8

\* Removing an element shifts the later ones down.
LEMMA RemoveAtFacts ==
  ASSUME NEW S, NEW s \in Seq(S), NEW i \in 1 .. Len(s)
  PROVE  /\ RemoveAt(s, i) \in Seq(S)
         /\ Len(RemoveAt(s, i)) = Len(s) - 1
         /\ \A k \in 1 .. Len(s) - 1 :
              RemoveAt(s, i)[k] = IF k < i THEN s[k] ELSE s[k + 1]
<1> DEFINE p == SubSeq(s, 1, i - 1)
           q == SubSeq(s, i + 1, Len(s))
<1>1. p \in Seq(S) /\ Len(p) = i - 1 /\ \A k \in 1 .. i - 1 : p[k] = s[k]
  BY SubSeqProperties, LenProperties, ElementOfSeq
<1>2. /\ q \in Seq(S) /\ Len(q) = Len(s) - i
      /\ \A k \in 1 .. Len(s) - i : q[k] = s[i + k]
  BY SubSeqProperties, LenProperties, ElementOfSeq
<1> HIDE DEF p, q
<1>3. /\ p \o q \in Seq(S) /\ Len(p \o q) = Len(p) + Len(q)
      /\ \A k \in 1 .. Len(p) + Len(q) :
           (p \o q)[k] = IF k <= Len(p) THEN p[k] ELSE q[k - Len(p)]
  BY <1>1, <1>2, ConcatProperties
<1>4. Len(s) \in Nat
  BY LenProperties
<1>5. ASSUME NEW k \in 1 .. Len(s) - 1
      PROVE  (p \o q)[k] = IF k < i THEN s[k] ELSE s[k + 1]
  <2>1. CASE k < i
    BY <1>1, <1>2, <1>3, <1>4, <2>1
  <2>2. CASE ~(k < i)
    <3>1. k - (i - 1) \in 1 .. Len(s) - i /\ i + (k - (i - 1)) = k + 1
      BY <1>4, <2>2
    <3>2. q[k - (i - 1)] = s[k + 1]
      BY <1>2, <3>1
    <3>3. k \in 1 .. Len(p) + Len(q) /\ ~(k <= Len(p)) /\ Len(p) = i - 1
      BY <1>1, <1>2, <1>4, <2>2
    <3>4. (p \o q)[k] = q[k - (i - 1)]
      BY <1>3, <3>3
    <3>5. QED BY <2>2, <3>2, <3>4
  <2>3. QED BY <2>1, <2>2
<1>6. RemoveAt(s, i) = p \o q
  BY DEF RemoveAt, p, q
<1>7. Len(p) + Len(q) = Len(s) - 1
  BY <1>1, <1>2, <1>4
<1>8. QED BY <1>3, <1>5, <1>6, <1>7

\* One window replaced.
LEMMA SetWindow ==
  ASSUME NEW sh \in AllShown, NEW a \in Addr, NEW c \in RoomIds,
         NEW w \in Display
  PROVE  /\ [sh EXCEPT ![a][c] = w] \in AllShown
         /\ \A b \in Addr, d \in RoomIds :
              [sh EXCEPT ![a][c] = w][b][d]
                = IF b = a /\ d = c THEN w ELSE sh[b][d]
  BY DEF AllShown

\* A notification changes what windows show, not which are open.
LEMMA TellFacts ==
  ASSUME TypeOK, NEW S, NEW c \in RoomIds, NEW w \in [Addr -> Display],
         \A a \in Addr : w[a].state = shows[a][c].state
  PROVE  /\ Tell(S, c, w) \in AllShown
         /\ \A b \in Addr, d \in RoomIds :
              Tell(S, c, w)[b][d].state = shows[b][d].state
  BY DEF Tell, TypeOK, AllShown, RoomIds

\* Nor does an invitation.
LEMMA InviteFacts ==
  ASSUME NEW sh \in AllShown, NEW T, NEW c \in RoomIds
  PROVE  /\ Invite(sh, T, c) \in AllShown
         /\ \A b \in Addr, d \in RoomIds :
              Invite(sh, T, c)[b][d].state = "open" <=> sh[b][d].state = "open"
<1>1. Invitation \in Display /\ Invitation.state = "invited"
  BY ChatAssumption DEF Invitation, Nothing, Display
<1>2. QED BY <1>1 DEF Invite, AllShown

\* What the programs show has its type.
LEMMA DisplayTypes ==
  ASSUME TypeOK
  PROVE  /\ Nothing \in Display /\ Nothing.state = "none"
         /\ Blank \in [RoomIds -> Display]
         /\ \A ms \in Seq(Member), s \in Subjects :
              /\ Window(Roster(ms), s) \in Display
              /\ Window(Roster(ms), s).state = "open"
         /\ \A a \in Addr, s \in Subjects : LoggedIn(a) =>
              /\ Window({uid[a]}, s) \in Display
              /\ Window({uid[a]}, s).state = "open"
         /\ \A c : GetSubject(c) \in Subjects
<1>1. ASSUME NEW ms \in Seq(Member) PROVE Roster(ms) \subseteq UserId
  <2>1. \A a \in Reach(ms) : a \in Addr /\ LoggedIn(a)
    BY MemberFacts DEF Reach
  <2>2. QED BY <2>1 DEF Roster, LoggedIn, TypeOK
<1>2. Nothing \in Display /\ Nothing.state = "none"
  BY ChatAssumption DEF Nothing, Display
<1>3. Blank \in [RoomIds -> Display]
  BY <1>2 DEF Blank, RoomIds
<1>4. \A who \in SUBSET UserId, s \in Subjects :
        Window(who, s) \in Display /\ Window(who, s).state = "open"
  BY DEF Window, Display
<1>5. \A a \in Addr : LoggedIn(a) => {uid[a]} \in SUBSET UserId
  BY DEF TypeOK, LoggedIn
<1>6. \A c : GetSubject(c) \in Subjects
  BY ChatAssumption DEF GetSubject, TypeOK, Chat
<1>7. QED BY <1>1, <1>2, <1>3, <1>4, <1>5, <1>6

-----------------------------------------------------------------------------
(* Rooms under the operations of chat.c. *)

\* Windows that stay open keep a room sound.
LEMMA KeptSound ==
  ASSUME NEW ms, NEW c \in RoomIds, NEW sh, Sound(ms, c, shows),
         \A a \in Addr : Open(a, c) => sh[a][c].state = "open"
  PROVE  Sound(ms, c, sh)
  BY MemberFacts DEF Sound, Open

\* A newcomer whose window was not open is not among the members yet.
LEMMA JoinSound ==
  ASSUME UsersSound, NEW ms, NEW c \in RoomIds, NEW sh, NEW a \in Addr,
         LoggedIn(a), Sound(ms, c, shows), ~Open(a, c),
         \A b \in Addr : Open(b, c) \/ b = a => sh[b][c].state = "open"
  PROVE  Sound(Append(ms, [conn |-> a, id |-> uid[a]]), c, sh)
<1> DEFINE m == [conn |-> a, id |-> uid[a]]
           as == Append(ms, m)
<1>1. m \in Member /\ m.conn = a /\ m.id = uid[a]
  BY DEF UsersSound, LoggedIn, Member
<1>2. ms \in Seq(Member)
  BY DEF Sound
<1> HIDE DEF m
<1>3. /\ as \in Seq(Member) /\ Len(as) = Len(ms) + 1
      /\ \A k \in 1 .. Len(ms) : as[k] = ms[k]
      /\ as[Len(ms) + 1] = m
      /\ Len(ms) \in Nat
      /\ DOMAIN as = 1 .. Len(as) /\ DOMAIN ms = 1 .. Len(ms)
  BY <1>1, <1>2, AppendProperties, LenProperties
<1> HIDE DEF as
<1>4. \A k \in DOMAIN ms : ms[k].conn \in Addr /\ ms[k].id # uid[a]
  <2> SUFFICES ASSUME NEW k \in DOMAIN ms
               PROVE  ms[k].conn \in Addr /\ ms[k].id # uid[a]
    OBVIOUS
  <2>1. ms[k].conn \in Addr
    BY <1>2, MemberFacts
  <2>2. uid[ms[k].conn] = ms[k].id /\ Open(ms[k].conn, c)
    BY DEF Sound, Open
  <2>3. QED BY <2>1, <2>2 DEF UsersSound
<1>5. ASSUME NEW j \in DOMAIN as
      PROVE  /\ uid[as[j].conn] = as[j].id
             /\ sh[as[j].conn][c].state = "open"
             /\ \A k \in DOMAIN as : as[j].id = as[k].id => j = k
  <2>1. /\ \A k \in DOMAIN as : k \in DOMAIN ms \/ k = Len(ms) + 1
        /\ Len(ms) + 1 \notin DOMAIN ms
    BY <1>3
  <2>2. CASE j = Len(ms) + 1
    BY <1>1, <1>3, <1>4, <2>1, <2>2
  <2>3. CASE j \in DOMAIN ms
    <3>1. as[j] = ms[j] /\ ms[j].conn \in Addr /\ ms[j].id # uid[a]
      BY <1>3, <1>4, <2>3
    <3>2. /\ uid[ms[j].conn] = ms[j].id /\ Open(ms[j].conn, c)
          /\ \A k \in DOMAIN ms : ms[j].id = ms[k].id => j = k
      BY <2>3 DEF Sound, Open
    <3>3. \A k \in DOMAIN as : as[j].id = as[k].id => j = k
      BY <1>1, <1>3, <2>1, <3>1, <3>2
    <3>4. QED BY <3>1, <3>2, <3>3
  <2>4. QED BY <2>1, <2>2, <2>3
<1>6. Sound(as, c, sh)
  BY <1>3, <1>5 DEF Sound
<1>7. QED BY <1>6 DEF as, m

\* Whoever's entry goes may close the window: no other entry is theirs.
LEMMA LeaveSound ==
  ASSUME NEW ms, NEW c \in RoomIds, NEW sh, NEW a \in Addr,
         Sound(ms, c, shows), NEW i \in DOMAIN ms, ms[i].id = uid[a],
         \A b \in Addr : Open(b, c) /\ b # a => sh[b][c].state = "open"
  PROVE  Sound(RemoveAt(ms, i), c, sh)
<1> DEFINE rs == RemoveAt(ms, i)
<1>1. ms \in Seq(Member) /\ i \in 1 .. Len(ms) /\ Len(ms) \in Nat
      /\ DOMAIN ms = 1 .. Len(ms)
  BY LenProperties DEF Sound
<1>2. /\ rs \in Seq(Member) /\ DOMAIN rs = 1 .. Len(ms) - 1
      /\ \A k \in 1 .. Len(ms) - 1 :
           rs[k] = IF k < i THEN ms[k] ELSE ms[k + 1]
  <2>1. /\ rs \in Seq(Member) /\ Len(rs) = Len(ms) - 1
        /\ \A k \in 1 .. Len(ms) - 1 :
             rs[k] = IF k < i THEN ms[k] ELSE ms[k + 1]
    BY <1>1, RemoveAtFacts
  <2> HIDE DEF rs
  <2>2. DOMAIN rs = 1 .. Len(ms) - 1
    BY <2>1, LenProperties
  <2>3. QED BY <2>1, <2>2
<1> HIDE DEF rs
<1>3. ASSUME NEW j \in DOMAIN rs
      PROVE  \E n \in DOMAIN ms : /\ n # i /\ rs[j] = ms[n]
                                  /\ n = IF j < i THEN j ELSE j + 1
  BY <1>1, <1>2
<1>4. ASSUME NEW j \in DOMAIN rs
      PROVE  /\ uid[rs[j].conn] = rs[j].id
             /\ sh[rs[j].conn][c].state = "open"
             /\ \A k \in DOMAIN rs : rs[j].id = rs[k].id => j = k
  <2>1. PICK n \in DOMAIN ms : /\ n # i /\ rs[j] = ms[n]
                               /\ n = IF j < i THEN j ELSE j + 1
    BY <1>3
  <2>2. /\ uid[ms[n].conn] = ms[n].id /\ Open(ms[n].conn, c)
        /\ ms[n].conn \in Addr /\ ms[n].id # uid[a]
    BY <1>1, <2>1, MemberFacts DEF Sound, Open
  <2>3. ASSUME NEW k \in DOMAIN rs, rs[j].id = rs[k].id PROVE j = k
    <3>1. PICK l \in DOMAIN ms : /\ l # i /\ rs[k] = ms[l]
                                 /\ l = IF k < i THEN k ELSE k + 1
      BY <1>3
    <3>2. n = l
      BY <2>1, <2>3, <3>1 DEF Sound
    <3>3. QED BY <1>1, <1>2, <2>1, <3>1, <3>2
  <2>4. QED BY <2>1, <2>2, <2>3
<1>5. QED BY <1>2, <1>4 DEF Sound, rs

-----------------------------------------------------------------------------
(* Steps.  First, what the steps that log nobody in or out have to show. *)

\* A room and its windows after a step, in terms of the state before it; sp are
\* the rooms that are spoiled then.
RoomSound(ch, c, sh, sp) ==
    /\ ch \in Chat /\ Len(ch.members) \in 1 .. MaxMembers
    /\ c \in sp \/ Sound(ch.members, c, sh)

LEMMA RoomsBefore ==
  ASSUME IInv
  PROVE  /\ \A c \in DOMAIN chats : RoomSound(chats[c], c, shows, spoiled)
         /\ DOMAIN chats \subseteq ChatId /\ ChatId \subseteq RoomIds
         /\ shows \in AllShown
  BY DEF IInv, TypeOK, RoomsSound, RoomSound, Members, AllShown, RoomIds

LEMMA RoomsAfter ==
  ASSUME IInv, UNCHANGED userVars, shows' \in AllShown,
         DOMAIN chats' \subseteq used', used' \subseteq ChatId,
         \A c \in DOMAIN chats' : RoomSound(chats'[c], c, shows', spoiled')
  PROVE  IInv'
<1>1. UsersSound'
  BY DEF IInv, UsersSound, userVars, LoggedIn
<1>2. TypeOK'
  BY DEF IInv, TypeOK, userVars, RoomSound, Members, AllShown, RoomIds
<1>3. RoomsSound'
  BY DEF RoomsSound, RoomSound, Sound, userVars
<1>4. QED BY <1>1, <1>2, <1>3 DEF IInv

LEMMA RoomsKept ==
  ASSUME IInv, NEW sh,
         \A a \in Addr, c \in RoomIds : Open(a, c) => sh[a][c].state = "open"
  PROVE  \A c \in DOMAIN chats : RoomSound(chats[c], c, sh, spoiled)
  BY RoomsBefore, KeptSound DEF RoomSound

LEMMA ChatFields ==
  ASSUME NEW ch \in Chat
  PROVE  /\ ch.members \in Seq(Member) /\ ch.subject \in Subjects
         /\ \A ms \in Seq(Member) :
              [ch EXCEPT !.members = ms] \in Chat
              /\ [ch EXCEPT !.members = ms].members = ms
         /\ \A s \in Subjects :
              [ch EXCEPT !.subject = s] \in Chat
              /\ [ch EXCEPT !.subject = s].members = ch.members
  BY DEF Chat

\* Logging in gives an id nobody has: the logins have not wrapped.
LEMMA ArriveKeeps ==
  ASSUME IInv, NEW a \in Addr, Arrive(a)
  PROVE  IInv'
<1>1. /\ uid[a] = NoId /\ logins + 1 \in 1 .. IdSpace /\ logins + 1 <= MaxLogins
      /\ logins \in Nat /\ logins' = logins + 1
      /\ uid' = [uid EXCEPT ![a] = (logins + 1) % IdSpace]
      /\ uid \in [Addr -> UserId \cup {NoId}]
  BY UsersAssumption DEF IInv, UsersSound, Arrive, LogIn, LoggedIn
<1>2. (logins + 1) % IdSpace \in UserId /\ NoId \notin UserId
  BY <1>1, UsersAssumption DEF UserId
<1>3. \A b \in Addr : LoggedIn(b) => uid[b] # (logins + 1) % IdSpace
  <2> SUFFICES ASSUME NEW b \in Addr, LoggedIn(b)
               PROVE  uid[b] # (logins + 1) % IdSpace
    OBVIOUS
  <2>1. PICK n \in 1 .. logins : uid[b] = n % IdSpace
    BY DEF IInv, UsersSound
  <2>2. n \in 1 .. IdSpace /\ n # logins + 1
    BY <1>1, UsersAssumption
  <2>3. QED BY <1>1, <2>1, <2>2, IdInjective
<1>4. \A b \in Addr : uid'[b] = IF b = a THEN (logins + 1) % IdSpace ELSE uid[b]
  BY <1>1
<1>5. UsersSound'
  <2>1. uid' \in [Addr -> UserId \cup {NoId}] /\ logins' \in 0 .. MaxLogins
    BY <1>1, <1>2, UsersAssumption
  <2>2. \A b \in Addr : LoggedIn(b)' => \E n \in 1 .. logins' : uid'[b] = n % IdSpace
    <3> SUFFICES ASSUME NEW b \in Addr, LoggedIn(b)'
                 PROVE  \E n \in 1 .. logins' : uid'[b] = n % IdSpace
      OBVIOUS
    <3>1. CASE b = a
      BY <1>1, <1>4, <3>1
    <3>2. CASE b # a
      <4>1. PICK n \in 1 .. logins : uid[b] = n % IdSpace
        BY <1>4, <3>2 DEF IInv, UsersSound, LoggedIn
      <4>2. n \in 1 .. logins'
        BY <1>1
      <4>3. QED BY <1>4, <3>2, <4>1, <4>2
    <3>3. QED BY <3>1, <3>2
  <2>3. \A b, d \in Addr : LoggedIn(b)' /\ uid'[b] = uid'[d] => b = d
    BY <1>2, <1>3, <1>4 DEF IInv, UsersSound, LoggedIn
  <2>4. QED BY <2>1, <2>2, <2>3 DEF UsersSound
<1>6. shows' = [shows EXCEPT ![a] = Blank] /\ shows' \in AllShown
  BY RoomsBefore, DisplayTypes DEF Arrive, AllShown, IInv
<1>7. TypeOK'
  BY <1>5, <1>6 DEF IInv, TypeOK, UsersSound, Arrive, Members, AllShown, RoomIds
<1>8. ASSUME NEW c \in DOMAIN chats \ spoiled
      PROVE  Sound(chats[c].members, c, shows)'
  <2> DEFINE ms == chats[c].members
  <2>1. Sound(ms, c, shows) /\ ms \in Seq(Member) /\ c \in RoomIds
    BY RoomsBefore DEF RoomSound, Sound
  <2> HIDE DEF ms
  <2>2. \A j \in DOMAIN ms : ms[j].conn \in Addr /\ ms[j].id \in UserId
    BY <2>1, MemberFacts
  <2>3. \A j \in DOMAIN ms : ms[j].conn # a
    BY <1>1, <1>2, <2>1, <2>2 DEF Sound
  <2>4. \A j \in DOMAIN ms : /\ uid'[ms[j].conn] = uid[ms[j].conn]
                             /\ shows'[ms[j].conn] = shows[ms[j].conn]
    BY <1>4, <1>6, <2>2, <2>3, RoomsBefore DEF AllShown
  <2>5. chats' = chats
    BY DEF Arrive
  <2>6. QED BY <2>1, <2>4, <2>5 DEF Sound, ms
<1>9. RoomsSound'
  BY <1>8 DEF RoomsSound, Arrive
<1>10. QED BY <1>5, <1>7, <1>9 DEF IInv

\* Who disconnects spoils the rooms it has open; in the others no entry is its.
LEMMA DepartKeeps ==
  ASSUME IInv, NEW a \in Addr, Depart(a)
  PROVE  IInv'
<1>1. /\ uid' = [uid EXCEPT ![a] = NoId] /\ logins' = logins
      /\ uid \in [Addr -> UserId \cup {NoId}]
      /\ spoiled' = spoiled \cup {c \in ChatId : Open(a, c)}
      /\ chats' = chats /\ used' = used
      /\ shows' = [shows EXCEPT ![a] = Blank] /\ shows' \in AllShown
  BY RoomsBefore, DisplayTypes DEF Depart, LogOut, IInv, TypeOK, AllShown
<1>2. \A b \in Addr : uid'[b] = IF b = a THEN NoId ELSE uid[b]
  BY <1>1
<1>3. UsersSound'
  BY <1>1, <1>2 DEF IInv, UsersSound, LoggedIn
<1>4. TypeOK'
  BY <1>1, <1>3 DEF IInv, TypeOK, UsersSound, Members, AllShown, RoomIds
<1>5. ASSUME NEW c \in DOMAIN chats \ spoiled'
      PROVE  Sound(chats[c].members, c, shows)'
  <2> DEFINE ms == chats[c].members
  <2>1. Sound(ms, c, shows) /\ ms \in Seq(Member) /\ c \in ChatId /\ ~Open(a, c)
    BY <1>1, RoomsBefore DEF RoomSound, Sound
  <2> HIDE DEF ms
  <2>2. \A j \in DOMAIN ms : ms[j].conn \in Addr /\ ms[j].conn # a
    BY <2>1, MemberFacts DEF Sound, Open
  <2>3. \A j \in DOMAIN ms : /\ uid'[ms[j].conn] = uid[ms[j].conn]
                             /\ shows'[ms[j].conn] = shows[ms[j].conn]
    BY <1>1, <1>2, <2>2, RoomsBefore DEF AllShown
  <2>4. ASSUME NEW j \in DOMAIN ms
        PROVE  /\ uid'[ms[j].conn] = ms[j].id
               /\ shows'[ms[j].conn][c].state = "open"
               /\ \A k \in DOMAIN ms : ms[j].id = ms[k].id => j = k
    <3>1. /\ uid[ms[j].conn] = ms[j].id
          /\ shows[ms[j].conn][c].state = "open"
          /\ \A k \in DOMAIN ms : ms[j].id = ms[k].id => j = k
      BY <2>1 DEF Sound
    <3>2. QED BY <2>3, <3>1
  <2>5. chats'[c].members = ms
    BY <1>1 DEF ms
  <2>6. QED BY <2>1, <2>4, <2>5 DEF Sound
<1>6. RoomsSound'
  BY <1>1, <1>5 DEF RoomsSound
<1>7. QED BY <1>3, <1>4, <1>6 DEF IInv

\* A wasted id is nobody's.
LEMMA LogInWastedKeeps ==
  ASSUME IInv, LogInWasted, UNCHANGED chatVars
  PROVE  IInv'
<1>1. /\ logins' = logins + 1 /\ uid' = uid /\ logins' \in 0 .. MaxLogins
      /\ logins \in Nat
      /\ chats' = chats /\ used' = used /\ shows' = shows /\ spoiled' = spoiled
  BY UsersAssumption DEF IInv, UsersSound, LogInWasted, chatVars
<1>2. UsersSound'
  <2>1. \A n \in 1 .. logins : n \in 1 .. logins'
    BY <1>1
  <2>2. QED BY <1>1, <2>1 DEF IInv, UsersSound, LoggedIn
<1>3. TypeOK'
  BY <1>1 DEF IInv, TypeOK, Members
<1>4. RoomsSound'
  BY <1>1 DEF IInv, RoomsSound, Sound
<1>5. QED BY <1>2, <1>3, <1>4 DEF IInv

\* The founder is the only member of a new room, and has its window.
LEMMA InviteNewChatKeeps ==
  ASSUME IInv, NEW a \in Addr, NEW T, InviteNewChat(a, T)
  PROVE  IInv'
<1> DEFINE m == [conn |-> a, id |-> uid[a]]
           w == Window({uid[a]}, NoSubject)
           room == [members |-> <<m>>, subject |-> NoSubject]
<1>1. /\ w \in Display /\ w.state = "open" /\ NoSubject \in Subjects
      /\ m \in Member /\ LoggedIn(a)
  BY DisplayTypes, ChatAssumption
     DEF InviteNewChat, IInv, TypeOK, LoggedIn, Member
<1>2. UNCHANGED userVars /\ spoiled' = spoiled
  BY DEF InviteNewChat
<1>3. m.conn = a /\ m.id = uid[a]
  OBVIOUS
<1> HIDE DEF w, m
<1>4. ASSUME NEW c \in RoomIds, shows' = Invite([shows EXCEPT ![a][c] = w], T, c)
      PROVE  /\ shows' \in AllShown /\ shows'[a][c].state = "open"
             /\ \A b \in Addr, d \in RoomIds :
                  Open(b, d) => shows'[b][d].state = "open"
  <2> DEFINE sh == [shows EXCEPT ![a][c] = w]
  <2>1. /\ sh \in AllShown
        /\ \A b \in Addr, d \in RoomIds :
             sh[b][d] = IF b = a /\ d = c THEN w ELSE shows[b][d]
    BY <1>1, RoomsBefore, SetWindow
  <2> HIDE DEF sh
  <2>2. shows' = Invite(sh, T, c)
    BY <1>4 DEF sh
  <2>3. /\ shows' \in AllShown
        /\ \A b \in Addr, d \in RoomIds :
             shows'[b][d].state = "open" <=> sh[b][d].state = "open"
    BY <2>1, <2>2, InviteFacts
  <2>4. QED BY <1>1, <2>1, <2>3 DEF Open
<1>5. CASE Cardinality(DOMAIN chats) < MaxRooms
  <2>1. PICK c \in ChatId \ used :
          /\ chats' = [x \in DOMAIN chats \cup {c} |->
                         IF x = c THEN room ELSE chats[x]]
          /\ used' = used \cup {c}
          /\ shows' = Invite([shows EXCEPT ![a][c] = w], T, c)
    BY <1>5 DEF InviteNewChat, m, w
  <2>2. /\ shows' \in AllShown /\ shows'[a][c].state = "open"
        /\ \A b \in Addr, d \in RoomIds :
             Open(b, d) => shows'[b][d].state = "open"
    BY <1>4, <2>1, RoomsBefore
  <2>3. /\ <<m>> \in Seq(Member) /\ Len(<<m>>) = 1 /\ DOMAIN <<m>> = {1}
        /\ <<m>>[1] = m
    BY <1>1
  <2>4. room \in Chat /\ room.members = <<m>>
    BY <1>1, <2>3 DEF Chat
  <2>5. Sound(<<m>>, c, shows')
    BY <1>3, <2>2, <2>3 DEF Sound
  <2>6. RoomSound(room, c, shows', spoiled')
    BY <2>3, <2>4, <2>5, ChatAssumption DEF RoomSound
  <2>7. \A x \in DOMAIN chats : RoomSound(chats[x], x, shows', spoiled')
    BY <1>2, <2>2, RoomsKept
  <2>8. \A x \in DOMAIN chats' : RoomSound(chats'[x], x, shows', spoiled')
    BY <2>1, <2>6, <2>7
  <2>9. DOMAIN chats' \subseteq used' /\ used' \subseteq ChatId
    BY <2>1 DEF IInv, TypeOK
  <2>10. QED BY <1>2, <2>2, <2>8, <2>9, RoomsAfter
<1>6. CASE ~(Cardinality(DOMAIN chats) < MaxRooms)
  <2>1. /\ shows' = Invite([shows EXCEPT ![a][NoChat] = w], T, NoChat)
        /\ chats' = chats /\ used' = used
    BY <1>6 DEF InviteNewChat, m, w
  <2>2. /\ shows' \in AllShown
        /\ \A b \in Addr, d \in RoomIds :
             Open(b, d) => shows'[b][d].state = "open"
    BY <1>4, <2>1 DEF RoomIds
  <2>3. \A x \in DOMAIN chats : RoomSound(chats[x], x, shows', spoiled')
    BY <1>2, <2>2, RoomsKept
  <2>4. QED BY <1>2, <2>1, <2>2, <2>3, RoomsAfter DEF IInv, TypeOK
<1>7. QED BY <1>5, <1>6

\* An invitation and its rejection concern windows that are not open.
LEMMA InviteToChatKeeps ==
  ASSUME IInv, NEW a \in Addr, NEW c \in RoomIds, NEW T, InviteToChat(a, T, c)
  PROVE  IInv'
<1>1. /\ shows' = Invite(shows, T, c) /\ UNCHANGED userVars
      /\ chats' = chats /\ used' = used /\ spoiled' = spoiled
  BY DEF InviteToChat
<1>2. /\ shows' \in AllShown
      /\ \A b \in Addr, d \in RoomIds : Open(b, d) => shows'[b][d].state = "open"
  BY <1>1, RoomsBefore, InviteFacts DEF Open
<1>3. \A x \in DOMAIN chats : RoomSound(chats[x], x, shows', spoiled')
  BY <1>1, <1>2, RoomsKept
<1>4. QED BY <1>1, <1>2, <1>3, RoomsAfter DEF IInv, TypeOK

LEMMA RejectChatInviteKeeps ==
  ASSUME IInv, NEW a \in Addr, NEW c \in RoomIds, RejectChatInvite(a, c)
  PROVE  IInv'
<1>1. /\ shows' = [shows EXCEPT ![a][c] = Nothing] /\ UNCHANGED userVars
      /\ chats' = chats /\ used' = used /\ shows[a][c].state = "invited"
      /\ spoiled' = spoiled
  BY DEF RejectChatInvite
<1>2. /\ shows' \in AllShown
      /\ \A b \in Addr, d \in RoomIds : Open(b, d) => shows'[b][d].state = "open"
  <2>1. Nothing \in Display
    BY DisplayTypes DEF IInv
  <2>2. /\ shows' \in AllShown
        /\ \A b \in Addr, d \in RoomIds :
             shows'[b][d] = IF b = a /\ d = c THEN Nothing ELSE shows[b][d]
    <3> DEFINE sh == [shows EXCEPT ![a][c] = Nothing]
    <3>1. /\ sh \in AllShown
          /\ \A b \in Addr, d \in RoomIds :
               sh[b][d] = IF b = a /\ d = c THEN Nothing ELSE shows[b][d]
      BY <2>1, RoomsBefore, SetWindow
    <3> HIDE DEF sh
    <3>2. shows' = sh
      BY <1>1 DEF sh
    <3>3. QED BY <3>1, <3>2
  <2>3. QED BY <1>1, <2>2 DEF Open
<1>3. \A x \in DOMAIN chats : RoomSound(chats[x], x, shows', spoiled')
  BY <1>1, <1>2, RoomsKept
<1>4. QED BY <1>1, <1>2, <1>3, RoomsAfter DEF IInv, TypeOK

\* A join that spoils no room is of somebody who is not a member yet, so that
\* there is no second entry.
LEMMA JoinChatKeeps ==
  ASSUME IInv, NEW a \in Addr, NEW c \in RoomIds, JoinChat(a, c)
  PROVE  IInv'
<1> DEFINE after == IF c \in DOMAIN chats THEN chats'[c].members ELSE <<>>
           added == [b \in Addr |-> [shows[b][c] EXCEPT !.who = @ \cup {uid[a]}]]
           told == Tell(Reach(after) \ {a}, c, added)
           w == Window(Roster(after), GetSubject(c))
           joined == Append(Members(c), [conn |-> a, id |-> uid[a]])
<1>1. /\ LoggedIn(a) /\ chats' = Joined(c, a)
      /\ shows' = [told EXCEPT ![a][c] = w]
      /\ UNCHANGED userVars /\ used' = used
      /\ spoiled \subseteq spoiled' /\ (Open(a, c) => c \in spoiled')
  BY DEF JoinChat, JoinSpoils
<1>2. ASSUME c \in DOMAIN chats
      PROVE  /\ Members(c) = chats[c].members /\ Members(c) \in Seq(Member)
             /\ Len(Members(c)) \in 1 .. MaxMembers
             /\ joined \in Seq(Member) /\ Len(joined) = Len(Members(c)) + 1
             /\ chats[c] \in Chat /\ (c \in spoiled \/ Sound(Members(c), c, shows))
  <2>1. /\ Members(c) = chats[c].members /\ RoomSound(chats[c], c, shows, spoiled)
    BY <1>2, RoomsBefore DEF Members
  <2>2. [conn |-> a, id |-> uid[a]] \in Member
    BY <1>1 DEF IInv, TypeOK, LoggedIn, Member
  <2>3. Members(c) \in Seq(Member) /\ chats[c] \in Chat
    BY <2>1, ChatFields DEF RoomSound
  <2>4. joined \in Seq(Member) /\ Len(joined) = Len(Members(c)) + 1
    BY <2>2, <2>3, AppendProperties
  <2>5. QED BY <2>1, <2>3, <2>4 DEF RoomSound
<1> DEFINE new == [chats[c] EXCEPT !.members = joined]
<1>3. /\ DOMAIN chats' = DOMAIN chats
      /\ \A x \in DOMAIN chats :
           \/ chats'[x] = chats[x]
           \/ /\ x = c /\ Len(Members(c)) < MaxMembers /\ chats'[c] = new
  BY <1>1, <1>2 DEF Joined
<1>4. c \in DOMAIN chats => new \in Chat /\ new.members = joined
  BY <1>2, ChatFields
<1>5. after \in Seq(Member)
  BY <1>2, <1>3, <1>4, EmptySeq
<1> HIDE DEF after, joined, new
<1>6. /\ added \in [Addr -> Display]
      /\ \A b \in Addr : added[b].state = shows[b][c].state
  <2>1. uid[a] \in UserId
    BY <1>1 DEF IInv, TypeOK, LoggedIn
  <2>2. \A b \in Addr : shows[b][c] \in Display
    BY RoomsBefore DEF AllShown
  <2>3. QED BY <2>1, <2>2 DEF Display
<1> HIDE DEF added
<1>7. /\ told \in AllShown
      /\ \A b \in Addr, d \in RoomIds : told[b][d].state = shows[b][d].state
  <2> DEFINE S == Reach(after) \ {a}
  <2>1. told = Tell(S, c, added)
    OBVIOUS
  <2> HIDE DEF S, told
  <2>2. /\ Tell(S, c, added) \in AllShown
        /\ \A b \in Addr, d \in RoomIds :
             Tell(S, c, added)[b][d].state = shows[b][d].state
    BY <1>6, TellFacts DEF IInv
  <2>3. QED BY <2>1, <2>2
<1>8. w \in Display /\ w.state = "open"
  BY <1>5, DisplayTypes DEF IInv
<1> HIDE DEF told, w
<1>9. /\ shows' \in AllShown
      /\ \A b \in Addr, d \in RoomIds :
           shows'[b][d] = IF b = a /\ d = c THEN w ELSE told[b][d]
  <2> DEFINE sh == [told EXCEPT ![a][c] = w]
  <2>1. /\ sh \in AllShown
        /\ \A b \in Addr, d \in RoomIds :
             sh[b][d] = IF b = a /\ d = c THEN w ELSE told[b][d]
    BY <1>7, <1>8, SetWindow
  <2> HIDE DEF sh
  <2>2. shows' = sh
    BY <1>1 DEF sh
  <2>3. QED BY <2>1, <2>2
<1>10. /\ \A b \in Addr, d \in RoomIds : Open(b, d) => shows'[b][d].state = "open"
       /\ shows'[a][c].state = "open"
  BY <1>7, <1>8, <1>9 DEF Open
<1>11. \A x \in DOMAIN chats : RoomSound(chats[x], x, shows', spoiled')
  BY <1>1, <1>10, RoomsKept DEF RoomSound
<1>12. ASSUME c \in DOMAIN chats, Len(Members(c)) < MaxMembers
       PROVE  RoomSound(new, c, shows', spoiled')
  <2>1. c \in spoiled' \/ Sound(joined, c, shows')
    BY <1>1, <1>2, <1>10, <1>12, JoinSound DEF IInv, joined
  <2>2. Len(joined) \in 1 .. MaxMembers
    BY <1>2, <1>12, ChatAssumption
  <2>3. QED BY <1>4, <1>12, <2>1, <2>2 DEF RoomSound
<1>13. \A x \in DOMAIN chats' : RoomSound(chats'[x], x, shows', spoiled')
  BY <1>3, <1>11, <1>12
<1>14. DOMAIN chats' \subseteq used' /\ used' \subseteq ChatId
  BY <1>1, <1>3 DEF IInv, TypeOK
<1>15. QED BY <1>1, <1>9, <1>13, <1>14, RoomsAfter

\* The subject of a room is not part of what makes it sound.
LEMMA SetChatSubjectKeeps ==
  ASSUME IInv, NEW a \in Addr, NEW c \in RoomIds, NEW s \in Subjects,
         SetChatSubject(a, c, s)
  PROVE  IInv'
<1> DEFINE set == [b \in Addr |-> [shows[b][c] EXCEPT !.subject = s]]
<1>1. /\ chats' = [x \in DOMAIN chats |->
                   IF x = c THEN [chats[x] EXCEPT !.subject = s] ELSE chats[x]]
      /\ shows' = Tell(Reach(Members(c)), c, set)
      /\ UNCHANGED userVars /\ used' = used /\ spoiled' = spoiled
  BY DEF SetChatSubject
<1>2. /\ set \in [Addr -> Display]
      /\ \A b \in Addr : set[b].state = shows[b][c].state
  <2>1. \A b \in Addr : shows[b][c] \in Display
    BY RoomsBefore DEF AllShown
  <2>2. QED BY <2>1 DEF Display
<1> HIDE DEF set
<1>3. /\ shows' \in AllShown
      /\ \A b \in Addr, d \in RoomIds : shows'[b][d].state = shows[b][d].state
  <2> DEFINE told == Tell(Reach(Members(c)), c, set)
  <2>1. /\ told \in AllShown
        /\ \A b \in Addr, d \in RoomIds : told[b][d].state = shows[b][d].state
    BY <1>2, TellFacts DEF IInv
  <2> HIDE DEF told
  <2>2. shows' = told
    BY <1>1 DEF told
  <2>3. QED BY <2>1, <2>2
<1>4. \A x \in DOMAIN chats : RoomSound(chats[x], x, shows', spoiled')
  BY <1>1, <1>3, RoomsKept DEF Open
<1>5. \A x \in DOMAIN chats' : RoomSound(chats'[x], x, shows', spoiled')
  <2> SUFFICES ASSUME NEW x \in DOMAIN chats
               PROVE  RoomSound(chats'[x], x, shows', spoiled')
    BY <1>1
  <2>1. chats'[x] \in Chat /\ chats'[x].members = chats[x].members
    BY <1>1, <1>4, ChatFields DEF RoomSound
  <2>2. QED BY <1>4, <2>1 DEF RoomSound
<1>6. QED BY <1>1, <1>3, <1>5, RoomsAfter DEF IInv, TypeOK

\* Whose window closes has no entry left, unless the room is spoiled, and a room
\* without entries is gone.
LEMMA LeaveChatKeeps ==
  ASSUME IInv, NEW a \in Addr, NEW c \in RoomIds, LeaveChat(a, c)
  PROVE  IInv'
<1> DEFINE gone == [b \in Addr |-> [shows[b][c] EXCEPT !.who = @ \ {uid[a]}]]
           told == Tell(Reach(Members(c)) \ {a}, c, gone)
<1>1. /\ shows' = [told EXCEPT ![a][c] = Nothing]
      /\ chats' = Left(c, uid[a])
      /\ UNCHANGED userVars /\ used' = used /\ spoiled' = spoiled
  BY DEF LeaveChat
<1>2. /\ gone \in [Addr -> Display]
      /\ \A b \in Addr : gone[b].state = shows[b][c].state
  <2>1. \A b \in Addr : shows[b][c] \in Display
    BY RoomsBefore DEF AllShown
  <2>2. QED BY <2>1 DEF Display
<1> HIDE DEF gone
<1>3. /\ told \in AllShown
      /\ \A b \in Addr, d \in RoomIds : told[b][d].state = shows[b][d].state
  BY <1>2, TellFacts DEF IInv
<1> HIDE DEF told
<1>4. /\ shows' \in AllShown
      /\ \A b \in Addr, d \in RoomIds :
           shows'[b][d] = IF b = a /\ d = c THEN Nothing ELSE told[b][d]
  <2>1. Nothing \in Display
    BY DisplayTypes DEF IInv
  <2> DEFINE sh == [told EXCEPT ![a][c] = Nothing]
  <2>2. /\ sh \in AllShown
        /\ \A b \in Addr, d \in RoomIds :
             sh[b][d] = IF b = a /\ d = c THEN Nothing ELSE told[b][d]
    BY <1>3, <2>1, SetWindow
  <2> HIDE DEF sh
  <2>3. shows' = sh
    BY <1>1 DEF sh
  <2>4. QED BY <2>2, <2>3
<1>5. \A b \in Addr, d \in RoomIds :
        Open(b, d) /\ ~(b = a /\ d = c) => shows'[b][d].state = "open"
  BY <1>3, <1>4 DEF Open
<1>6. ASSUME NEW x \in DOMAIN chats, x # c
      PROVE  RoomSound(chats[x], x, shows', spoiled')
  <2>1. RoomSound(chats[x], x, shows, spoiled) /\ x \in RoomIds
    BY RoomsBefore
  <2>2. x \in spoiled \/ Sound(chats[x].members, x, shows')
    BY <1>5, <1>6, <2>1, KeptSound DEF RoomSound
  <2>3. QED BY <1>1, <2>1, <2>2 DEF RoomSound
<1> DEFINE ms == Members(c)
           at == {j \in DOMAIN ms : ms[j].id = uid[a]}
           first == CHOOSE j \in at : \A k \in at : j <= k
           rest == IF at = {} THEN ms ELSE RemoveAt(ms, first)
<1>7. chats' = [x \in IF at # {} /\ rest = <<>> THEN DOMAIN chats \ {c} ELSE DOMAIN chats |->
                  IF x = c THEN [chats[x] EXCEPT !.members = rest] ELSE chats[x]]
  BY <1>1 DEF Left
<1>8. ASSUME c \in DOMAIN chats, at = {} \/ rest # <<>>
      PROVE  RoomSound([chats[c] EXCEPT !.members = rest], c, shows', spoiled')
  <2>1. /\ ms = chats[c].members /\ RoomSound(chats[c], c, shows, spoiled)
        /\ ms \in Seq(Member) /\ (c \in spoiled \/ Sound(ms, c, shows))
        /\ Len(ms) \in 1 .. MaxMembers
    BY <1>8, RoomsBefore, ChatFields DEF Members, RoomSound
  <2>2. /\ rest \in Seq(Member) /\ Len(rest) \in 1 .. MaxMembers
        /\ c \in spoiled \/ Sound(rest, c, shows')
    <3> HIDE DEF ms
    <3>1. CASE at = {}
      <4>1. ASSUME Sound(ms, c, shows) PROVE Sound(ms, c, shows')
        <5>1. ASSUME NEW j \in DOMAIN ms
              PROVE  ms[j].conn \in Addr /\ ms[j].conn # a
          <6>1. ms[j].conn \in Addr
            BY <2>1, MemberFacts
          <6>2. uid[ms[j].conn] = ms[j].id
            BY <4>1 DEF Sound
          <6>3. ms[j].id # uid[a]
            BY <3>1
          <6>4. QED BY <6>1, <6>2, <6>3
        <5>2. QED BY <1>5, <1>8, <4>1, <5>1, RoomsBefore DEF Sound, Open
      <4>2. QED BY <2>1, <3>1, <4>1
    <3>2. CASE at # {}
      <4>1. first \in at
        <5>1. DOMAIN ms = 1 .. Len(ms) /\ Len(ms) \in Nat
          BY <2>1, MemberFacts
        <5>2. at \in SUBSET (1 .. Len(ms))
          BY <5>1
        <5> HIDE DEF at
        <5>3. \E j \in at : \A k \in at : j <= k
          BY <3>2, <5>1, <5>2, LeastElement
        <5>4. QED BY <5>3
      <4>2. first \in DOMAIN ms /\ ms[first].id = uid[a] /\ rest = RemoveAt(ms, first)
        BY <3>2, <4>1
      <4> HIDE DEF first, at, rest
      <4>3. /\ Len(ms) \in Nat /\ DOMAIN ms = 1 .. Len(ms)
        BY <2>1, MemberFacts
      <4>4. rest \in Seq(Member) /\ Len(rest) = Len(ms) - 1
        BY <2>1, <4>2, <4>3, RemoveAtFacts
      <4>5. c \in spoiled \/ Sound(rest, c, shows')
        BY <1>5, <2>1, <4>2, LeaveSound
      <4>6. Len(rest) # 0
        BY <1>8, <3>2, <4>4, EmptySeq
      <4>7. Len(ms) - 1 # 0 /\ Len(ms) - 1 \in 0 .. MaxMembers
        BY ChatAssumption, <2>1, <4>4, <4>6
      <4>8. Len(ms) - 1 \in 1 .. MaxMembers
        BY ChatAssumption, <4>3, <4>7
      <4>9. QED BY <4>4, <4>5, <4>8
    <3>3. QED BY <3>1, <3>2
  <2> HIDE DEF rest
  <2>3. QED BY <1>1, <2>1, <2>2, ChatFields DEF RoomSound
<1> HIDE DEF rest, at
<1>9. \A x \in DOMAIN chats' : RoomSound(chats'[x], x, shows', spoiled')
  BY <1>6, <1>7, <1>8
<1>10. DOMAIN chats' \subseteq used' /\ used' \subseteq ChatId
  BY <1>1, <1>7 DEF IInv, TypeOK
<1>11. QED BY <1>1, <1>4, <1>9, <1>10, RoomsAfter

-----------------------------------------------------------------------------
(* The theorems. *)

LEMMA InitSound == Init => IInv
<1> SUFFICES ASSUME Init PROVE IInv
  OBVIOUS
<1>1. TypeOK
  <2>1. Blank \in [RoomIds -> Display]
    BY ChatAssumption DEF Blank, Nothing, Display, RoomIds
  <2>2. QED BY <2>1, UsersAssumption DEF Init, UsersInit, TypeOK, RoomIds
<1>2. UsersSound
  BY UsersAssumption DEF Init, UsersInit, UsersSound, LoggedIn
<1>3. RoomsSound
  BY DEF Init, RoomsSound
<1>4. QED BY <1>1, <1>2, <1>3 DEF IInv

LEMMA NextSound ==
  ASSUME IInv, [Next]_vars
  PROVE  IInv'
<1>1. CASE LogInWasted /\ UNCHANGED chatVars
  BY <1>1, LogInWastedKeeps
<1>2. CASE \E a \in Addr : Arrive(a) \/ Depart(a)
  BY <1>2, ArriveKeeps, DepartKeeps
<1>3. CASE \E a \in Addr : \E T \in Invitees(a) : InviteNewChat(a, T)
  BY <1>3, InviteNewChatKeeps
<1>4. CASE \E a \in Addr, c \in ChatId \cup {NoChat} :
             \E T \in Invitees(a) : InviteToChat(a, T, c)
  BY <1>4, InviteToChatKeeps DEF RoomIds
<1>5. CASE \E a \in Addr, c \in ChatId \cup {NoChat} :
             JoinChat(a, c) \/ RejectChatInvite(a, c) \/ LeaveChat(a, c)
  BY <1>5, JoinChatKeeps, RejectChatInviteKeeps, LeaveChatKeeps DEF RoomIds
<1>6. CASE \E a \in Addr, c \in ChatId \cup {NoChat}, s \in Subjects :
             SetChatSubject(a, c, s)
  BY <1>6, SetChatSubjectKeeps DEF RoomIds
<1>7. CASE UNCHANGED vars
  <2>1. UNCHANGED <<uid, logins, chats, used, shows, spoiled>>
    BY <1>7 DEF vars, userVars, chatVars
  <2>2. TypeOK'
    BY <2>1 DEF IInv, TypeOK, Members
  <2>3. UsersSound'
    BY <2>1 DEF IInv, UsersSound, LoggedIn
  <2>4. RoomsSound'
    BY <2>1 DEF IInv, RoomsSound, Sound
  <2>5. QED BY <2>2, <2>3, <2>4 DEF IInv
<1>8. QED BY <1>1, <1>2, <1>3, <1>4, <1>5, <1>6, <1>7 DEF Next

\* The state stays well typed whatever users do: in particular no room in use
\* is empty, so that every room is given back, and none exceeds its limit.
THEOREM ChatTypeCorrect == Spec => []TypeOK
<1>1. IInv => TypeOK
  BY DEF IInv
<1>2. IInv /\ [Next]_vars => IInv'
  BY NextSound
<1>3. QED BY InitSound, <1>1, <1>2, PTL DEF Spec

-----------------------------------------------------------------------------
(* The windows on the rooms that are not spoiled agree with them.           *)

Conns(ms) == {ms[j].conn : j \in DOMAIN ms}
Ids(ms) == {ms[j].id : j \in DOMAIN ms}

\* Who displays room c is in it, and displays it as it is.
Agreed(ch, c, sh) ==
    \A b \in Addr : sh[b][c].state = "open" =>
      b \in Conns(ch.members) /\ sh[b][c] = Window(Ids(ch.members), ch.subject)

Agree == \A c \in DOMAIN chats \ spoiled : Agreed(chats[c], c, shows)

\* Nobody displays anything of a room that has not been made.
Fresh == \A c \in ChatId \ used, b \in Addr : shows[b][c].state = "none"

RInv == IInv /\ Fresh /\ Agree

\* A message to the members of a sound room reaches all of them.
LEMMA RosterOf ==
  ASSUME NEW ms, NEW c, NEW sh, Sound(ms, c, sh)
  PROVE  Reach(ms) = Conns(ms) /\ Roster(ms) = Ids(ms)
<1>1. \A j \in DOMAIN ms : /\ ms[j].conn \in Addr /\ ms[j].id \in UserId
                           /\ uid[ms[j].conn] = ms[j].id
  BY MemberFacts DEF Sound
<1>2. NoId \notin UserId
  BY UsersAssumption DEF UserId
<1>3. Reach(ms) = Conns(ms)
  BY <1>1, <1>2 DEF Reach, Conns, LoggedIn
<1>4. Roster(ms) = Ids(ms)
  BY <1>1, <1>3 DEF Roster, Conns, Ids
<1>5. QED BY <1>3, <1>4

\* A room whose open windows were open before, and are as they were.
LEMMA SameWindows ==
  ASSUME NEW ch, NEW c, NEW sh, Agreed(ch, c, shows),
         \A b \in Addr : sh[b][c].state = "open" => sh[b][c] = shows[b][c]
  PROVE  Agreed(ch, c, sh)
  BY DEF Agreed

\* What an invitation and a notification leave alone.
LEMMA InviteSame ==
  ASSUME NEW sh \in AllShown, NEW T, NEW c \in RoomIds
  PROVE  \A b \in Addr, d \in RoomIds :
           /\ Invite(sh, T, c)[b][d].state = "open" => Invite(sh, T, c)[b][d] = sh[b][d]
           /\ d # c => Invite(sh, T, c)[b][d] = sh[b][d]
<1>1. Invitation.state = "invited"
  BY DEF Invitation, Nothing
<1>2. QED BY <1>1 DEF Invite, AllShown

LEMMA TellSame ==
  ASSUME IInv, NEW S, NEW c \in RoomIds, NEW w \in [Addr -> Display]
  PROVE  \A b \in Addr, d \in RoomIds :
           Tell(S, c, w)[b][d] =
             IF d = c /\ b \in S /\ Open(b, c) THEN w[b] ELSE shows[b][d]
  BY RoomsBefore DEF Tell, AllShown

LEMMA ArriveAgrees ==
  ASSUME RInv, NEW a \in Addr, Arrive(a) \/ Depart(a)
  PROVE  Fresh' /\ Agree'
<1>1. /\ shows' = [shows EXCEPT ![a] = Blank] /\ chats' = chats /\ used' = used
      /\ spoiled \subseteq spoiled'
  BY DEF Arrive, Depart
<1>2. \A d \in RoomIds : Blank[d].state = "none"
  BY DEF Blank, Nothing, RoomIds
<1>3. \A b \in Addr : shows'[b] = IF b = a THEN Blank ELSE shows[b]
  BY <1>1, RoomsBefore DEF RInv, AllShown
<1>4. Fresh'
  BY <1>1, <1>2, <1>3 DEF RInv, Fresh, RoomIds
<1>5. ASSUME NEW c \in DOMAIN chats \ spoiled
      PROVE  Agreed(chats[c], c, shows')
  <2>1. c \in RoomIds /\ Agreed(chats[c], c, shows)
    BY RoomsBefore DEF RInv, Agree
  <2>2. \A b \in Addr : shows'[b][c].state = "open" => shows'[b][c] = shows[b][c]
    BY <1>2, <1>3, <2>1
  <2>3. QED BY <2>1, <2>2, SameWindows
<1>6. QED BY <1>1, <1>4, <1>5 DEF Agree

LEMMA InviteNewChatAgrees ==
  ASSUME RInv, NEW a \in Addr, NEW T, InviteNewChat(a, T)
  PROVE  Fresh' /\ Agree'
<1> DEFINE m == [conn |-> a, id |-> uid[a]]
           w == Window({uid[a]}, NoSubject)
           room == [members |-> <<m>>, subject |-> NoSubject]
<1>1. m.conn = a /\ m.id = uid[a] /\ LoggedIn(a) /\ NoChat \notin ChatId
      /\ spoiled' = spoiled
  BY ChatAssumption DEF InviteNewChat
<1>2. w \in Display /\ w.state = "open"
  BY <1>1, ChatAssumption, DisplayTypes DEF RInv, IInv
<1>3. Conns(<<m>>) = {a} /\ Ids(<<m>>) = {uid[a]}
  <2> HIDE DEF m
  <2>1. DOMAIN <<m>> = {1} /\ <<m>>[1] = m
    OBVIOUS
  <2>2. QED BY <1>1, <2>1 DEF Conns, Ids
<1>4. room.members = <<m>> /\ room.subject = NoSubject
  OBVIOUS
<1> HIDE DEF m
<1>5. ASSUME NEW c \in RoomIds, shows' = Invite([shows EXCEPT ![a][c] = w], T, c)
      PROVE  /\ \A b \in Addr, d \in RoomIds : d # c => shows'[b][d] = shows[b][d]
             /\ \A b \in Addr : shows'[b][c].state = "open" =>
                  shows'[b][c] = IF b = a THEN w ELSE shows[b][c]
  <2> DEFINE sh == [shows EXCEPT ![a][c] = w]
  <2>1. /\ sh \in AllShown
        /\ \A b \in Addr, d \in RoomIds :
             sh[b][d] = IF b = a /\ d = c THEN w ELSE shows[b][d]
    <3> HIDE DEF w
    <3>1. shows \in AllShown
      BY RoomsBefore DEF RInv
    <3>2. QED BY <1>2, <3>1, SetWindow
  <2> HIDE DEF sh, w
  <2>2. shows' = Invite(sh, T, c)
    BY <1>5 DEF sh
  <2>3. \A b \in Addr, d \in RoomIds :
          /\ shows'[b][d].state = "open" => shows'[b][d] = sh[b][d]
          /\ d # c => shows'[b][d] = sh[b][d]
    BY <2>1, <2>2, InviteSame
  <2>4. QED BY <2>1, <2>3
<1>6. CASE Cardinality(DOMAIN chats) < MaxRooms
  <2>1. PICK c \in ChatId \ used :
          /\ chats' = [x \in DOMAIN chats \cup {c} |-> IF x = c THEN room ELSE chats[x]]
          /\ used' = used \cup {c}
          /\ shows' = Invite([shows EXCEPT ![a][c] = w], T, c)
    BY <1>6 DEF InviteNewChat, m
  <2>2. c \in RoomIds /\ ChatId \subseteq RoomIds /\ DOMAIN chats \subseteq ChatId
        /\ c \notin DOMAIN chats
    BY RoomsBefore DEF RInv, IInv, TypeOK
  <2> HIDE DEF w, room
  <2>3. /\ \A b \in Addr, d \in RoomIds : d # c => shows'[b][d] = shows[b][d]
        /\ \A b \in Addr : shows'[b][c].state = "open" =>
             shows'[b][c] = IF b = a THEN w ELSE shows[b][c]
    BY <1>5, <2>1, <2>2
  <2>4. Fresh'
    <3>1. used' = used \cup {c}
      BY <2>1
    <3>2. Fresh
      BY DEF RInv
    <3>3. QED BY <2>2, <2>3, <3>1, <3>2 DEF Fresh
  <2>5. \A b \in Addr : shows[b][c].state = "none"
    BY DEF RInv, Fresh
  <2>6. \A b \in Addr : shows'[b][c].state = "open" => b = a
    BY <2>3, <2>5
  <2>7. Agreed(room, c, shows')
    BY <1>3, <1>4, <2>3, <2>6 DEF Agreed, w
  <2>8. \A d \in DOMAIN chats \ spoiled : Agreed(chats[d], d, shows')
    <3>1. ASSUME NEW d \in DOMAIN chats \ spoiled PROVE Agreed(chats[d], d, shows')
      <4>1. d \in RoomIds /\ d # c /\ Agreed(chats[d], d, shows)
        BY <2>2 DEF RInv, Agree
      <4>2. QED BY <2>3, <4>1, SameWindows
    <3>2. QED BY <3>1
  <2>9. Agree'
    BY <1>1, <2>1, <2>7, <2>8 DEF Agree
  <2>10. QED BY <2>4, <2>9
<1>7. CASE ~(Cardinality(DOMAIN chats) < MaxRooms)
  <2>1. /\ shows' = Invite([shows EXCEPT ![a][NoChat] = w], T, NoChat)
        /\ chats' = chats /\ used' = used
    BY <1>7 DEF InviteNewChat
  <2>2. NoChat \in RoomIds /\ ChatId \subseteq RoomIds /\ DOMAIN chats \subseteq ChatId
    BY RoomsBefore DEF RInv, RoomIds
  <2> HIDE DEF w
  <2>3. \A b \in Addr, d \in RoomIds : d # NoChat => shows'[b][d] = shows[b][d]
    BY <1>5, <2>1, <2>2
  <2>4. Fresh'
    <3>1. used' = used
      BY <2>1
    <3>2. Fresh
      BY DEF RInv
    <3>3. QED BY <1>1, <2>2, <2>3, <3>1, <3>2 DEF Fresh
  <2>5. \A d \in DOMAIN chats \ spoiled : Agreed(chats[d], d, shows')
    <3>1. ASSUME NEW d \in DOMAIN chats \ spoiled PROVE Agreed(chats[d], d, shows')
      <4>1. d \in RoomIds /\ d # NoChat /\ Agreed(chats[d], d, shows)
        BY <1>1, <2>2 DEF RInv, Agree
      <4>2. QED BY <2>3, <4>1, SameWindows
    <3>2. QED BY <3>1
  <2>6. QED BY <1>1, <2>1, <2>4, <2>5 DEF Agree
<1>8. QED BY <1>6, <1>7

LEMMA InviteToChatAgrees ==
  ASSUME RInv, NEW a \in Addr, NEW c \in RoomIds, NEW T, InviteToChat(a, T, c)
  PROVE  Fresh' /\ Agree'
<1>1. /\ shows' = Invite(shows, T, c) /\ chats' = chats /\ used' = used
      /\ spoiled' = spoiled /\ Open(a, c)
  BY DEF InviteToChat
<1>2. \A b \in Addr, d \in RoomIds :
        /\ shows'[b][d].state = "open" => shows'[b][d] = shows[b][d]
        /\ d # c => shows'[b][d] = shows[b][d]
  BY <1>1, RoomsBefore, InviteSame DEF RInv
<1>3. c \notin ChatId \ used
  BY <1>1 DEF RInv, Fresh, Open
<1>4. Fresh'
  BY <1>1, <1>2, <1>3 DEF RInv, Fresh, RoomIds
<1>5. ASSUME NEW d \in DOMAIN chats \ spoiled PROVE Agreed(chats[d], d, shows')
  <2>1. d \in RoomIds /\ Agreed(chats[d], d, shows)
    BY RoomsBefore DEF RInv, Agree
  <2>2. QED BY <1>2, <2>1, SameWindows
<1>6. QED BY <1>1, <1>4, <1>5 DEF Agree

LEMMA RejectChatInviteAgrees ==
  ASSUME RInv, NEW a \in Addr, NEW c \in RoomIds, RejectChatInvite(a, c)
  PROVE  Fresh' /\ Agree'
<1>1. /\ shows' = [shows EXCEPT ![a][c] = Nothing] /\ chats' = chats /\ used' = used
      /\ spoiled' = spoiled
  BY DEF RejectChatInvite
<1>2. Nothing \in Display /\ Nothing.state = "none"
  BY DisplayTypes DEF RInv, IInv
<1>3. \A b \in Addr, d \in RoomIds :
        shows'[b][d] = IF b = a /\ d = c THEN Nothing ELSE shows[b][d]
  <2> HIDE DEF Nothing
  <2>1. QED BY <1>1, <1>2, RoomsBefore, SetWindow DEF RInv
<1>4. Fresh'
  BY <1>1, <1>2, <1>3 DEF RInv, Fresh, RoomIds
<1>5. ASSUME NEW d \in DOMAIN chats \ spoiled PROVE Agreed(chats[d], d, shows')
  <2>1. d \in RoomIds /\ Agreed(chats[d], d, shows)
    BY RoomsBefore DEF RInv, Agree
  <2>2. \A b \in Addr : shows'[b][d].state = "open" => shows'[b][d] = shows[b][d]
    BY <1>2, <1>3, <2>1
  <2>3. QED BY <2>1, <2>2, SameWindows
<1>6. QED BY <1>1, <1>4, <1>5 DEF Agree

\* A step that concerns one room that has been made leaves the others alone.
LEMMA OtherRooms ==
  ASSUME RInv, NEW c \in RoomIds, c \notin ChatId \ used, used' = used,
         \A b \in Addr, d \in RoomIds : d # c => shows'[b][d] = shows[b][d]
  PROVE  /\ Fresh'
         /\ \A d \in DOMAIN chats \ spoiled : d # c => Agreed(chats[d], d, shows')
<1>1. Fresh /\ Agree /\ DOMAIN chats \subseteq RoomIds /\ ChatId \subseteq RoomIds
  BY RoomsBefore DEF RInv
<1>2. Fresh'
  BY <1>1 DEF Fresh
<1>3. ASSUME NEW d \in DOMAIN chats \ spoiled, d # c PROVE Agreed(chats[d], d, shows')
  <2>1. d \in RoomIds /\ Agreed(chats[d], d, shows)
    BY <1>1 DEF Agree
  <2>2. QED BY <1>3, <2>1, SameWindows
<1>4. QED BY <1>2, <1>3

\* What is known of the room that a step concerns, if it is not spoiled.
LEMMA ThisRoom ==
  ASSUME RInv, NEW c \in DOMAIN chats \ spoiled
  PROVE  LET ms == chats[c].members
         IN  /\ Members(c) = ms /\ GetSubject(c) = chats[c].subject
             /\ chats[c] \in Chat /\ ms \in Seq(Member) /\ Sound(ms, c, shows)
             /\ Reach(ms) = Conns(ms) /\ Roster(ms) = Ids(ms)
             /\ \A b \in Addr : Open(b, c) =>
                  b \in Conns(ms) /\ shows[b][c] = Window(Ids(ms), chats[c].subject)
<1>1. chats[c] \in Chat /\ Sound(chats[c].members, c, shows)
  BY RoomsBefore DEF RInv, RoomSound
<1>2. Agreed(chats[c], c, shows)
  BY DEF RInv, Agree
<1>3. QED BY <1>1, <1>2, RosterOf DEF Members, GetSubject, Sound, Agreed, Open

LEMMA SetChatSubjectAgrees ==
  ASSUME RInv, NEW a \in Addr, NEW c \in RoomIds, NEW s \in Subjects,
         SetChatSubject(a, c, s)
  PROVE  Fresh' /\ Agree'
<1> DEFINE set == [b \in Addr |-> [shows[b][c] EXCEPT !.subject = s]]
<1>1. /\ chats' = [x \in DOMAIN chats |->
                   IF x = c THEN [chats[x] EXCEPT !.subject = s] ELSE chats[x]]
      /\ shows' = Tell(Reach(Members(c)), c, set)
      /\ used' = used /\ spoiled' = spoiled /\ Open(a, c)
  BY DEF SetChatSubject
<1>2. set \in [Addr -> Display]
  <2>1. \A b \in Addr : shows[b][c] \in Display
    BY RoomsBefore DEF AllShown, RInv
  <2>2. QED BY <2>1 DEF Display
<1>3. \A b \in Addr : set[b] = [shows[b][c] EXCEPT !.subject = s]
  OBVIOUS
<1> HIDE DEF set
<1>4. \A b \in Addr, d \in RoomIds :
        shows'[b][d] = IF d = c /\ b \in Reach(Members(c)) /\ Open(b, c)
                       THEN set[b] ELSE shows[b][d]
  BY <1>1, <1>2, TellSame DEF RInv
<1>5. c \notin ChatId \ used
  BY <1>1 DEF RInv, Fresh, Open
<1>6. Fresh' /\ \A d \in DOMAIN chats \ spoiled : d # c => Agreed(chats[d], d, shows')
  <2>1. \A b \in Addr, d \in RoomIds : d # c => shows'[b][d] = shows[b][d]
    BY <1>4
  <2>2. used' = used
    BY <1>1
  <2>3. QED BY <1>5, <2>1, <2>2, OtherRooms
<1>7. ASSUME c \in DOMAIN chats \ spoiled
      PROVE  Agreed([chats[c] EXCEPT !.subject = s], c, shows')
  <2> DEFINE ms == chats[c].members
             ch == [chats[c] EXCEPT !.subject = s]
  <2>1. /\ Members(c) = ms /\ chats[c] \in Chat /\ Reach(ms) = Conns(ms)
        /\ \A b \in Addr : Open(b, c) =>
             b \in Conns(ms) /\ shows[b][c] = Window(Ids(ms), chats[c].subject)
    BY <1>7, ThisRoom
  <2>2. ch.members = ms /\ ch.subject = s
    BY <2>1 DEF Chat
  <2> HIDE DEF ms, ch
  <2>3. \A who, x : [Window(who, x) EXCEPT !.subject = s] = Window(who, s)
    BY DEF Window
  <2>4. ASSUME NEW b \in Addr, shows'[b][c].state = "open"
        PROVE  b \in Conns(ms) /\ shows'[b][c] = Window(Ids(ms), s)
    <3>1. Open(b, c)
      BY <1>4, <2>4 DEF Open
    <3>2. b \in Conns(ms) /\ shows[b][c] = Window(Ids(ms), chats[c].subject)
      BY <2>1, <3>1
    <3>3. shows'[b][c] = set[b]
      BY <1>4, <2>1, <3>1, <3>2
    <3>4. QED BY <1>3, <2>3, <3>2, <3>3
  <2>5. Agreed(ch, c, shows')
    BY <2>2, <2>4 DEF Agreed
  <2>6. QED BY <2>5 DEF ch
<1>8. \A d \in DOMAIN chats' \ spoiled' : Agreed(chats'[d], d, shows')
  BY <1>1, <1>6, <1>7
<1>9. QED BY <1>6, <1>8 DEF Agree

\* A join that spoils no room finds it with a place, and its user not in it.
LEMMA JoinChatAgrees ==
  ASSUME RInv, IInv', NEW a \in Addr, NEW c \in RoomIds, JoinChat(a, c)
  PROVE  Fresh' /\ Agree'
<1> DEFINE after == IF c \in DOMAIN chats THEN chats'[c].members ELSE <<>>
           added == [b \in Addr |-> [shows[b][c] EXCEPT !.who = @ \cup {uid[a]}]]
           told == Tell(Reach(after) \ {a}, c, added)
           w == Window(Roster(after), GetSubject(c))
           m == [conn |-> a, id |-> uid[a]]
           joined == Append(Members(c), m)
<1>1. /\ LoggedIn(a) /\ shows[a][c].state # "none" /\ chats' = Joined(c, a)
      /\ shows' = [told EXCEPT ![a][c] = w]
      /\ uid' = uid /\ used' = used
      /\ spoiled \subseteq spoiled'
      /\ c \notin spoiled' => ~Open(a, c) /\ ~(Len(Members(c)) >= MaxMembers)
  BY DEF JoinChat, JoinSpoils, userVars
<1>2. m \in Member /\ m.conn = a /\ m.id = uid[a]
  BY <1>1 DEF RInv, IInv, TypeOK, LoggedIn, Member
<1> HIDE DEF m
<1>3. ASSUME c \in DOMAIN chats \ spoiled'
      PROVE  /\ Len(Members(c)) < MaxMembers
             /\ chats[c] \in Chat /\ Members(c) = chats[c].members
             /\ joined \in Seq(Member)
             /\ Conns(joined) = Conns(Members(c)) \cup {a}
             /\ Ids(joined) = Ids(Members(c)) \cup {uid[a]}
  <2> DEFINE ms == Members(c)
  <2>1. ms = chats[c].members /\ chats[c] \in Chat /\ ms \in Seq(Member) /\ Sound(ms, c, shows)
    BY <1>1, <1>3, ThisRoom
  <2>3. Len(ms) < MaxMembers
    <3>1. Len(ms) \in Nat /\ ~(Len(ms) >= MaxMembers)
      BY <1>1, <1>3, <2>1, LenProperties
    <3>2. QED BY <3>1, ChatAssumption
  <2> HIDE DEF ms
  <2> DEFINE as == Append(ms, m)
  <2>4. /\ as \in Seq(Member) /\ Len(as) = Len(ms) + 1 /\ as[Len(ms) + 1] = m
        /\ \A k \in 1 .. Len(ms) : as[k] = ms[k]
    BY <1>2, <2>1, AppendProperties
  <2> HIDE DEF as
  <2>5. /\ DOMAIN as = 1 .. Len(ms) + 1 /\ DOMAIN ms = 1 .. Len(ms) /\ Len(ms) \in Nat
    BY <2>1, <2>4, LenProperties
  <2>6. \A k : k \in DOMAIN as <=> k \in DOMAIN ms \/ k = Len(ms) + 1
    BY <2>5
  <2>7. Conns(as) = Conns(ms) \cup {a} /\ Ids(as) = Ids(ms) \cup {uid[a]}
    <3>1. \A k \in DOMAIN ms : k \in DOMAIN as /\ as[k] = ms[k]
      BY <2>4, <2>5, <2>6
    <3>2. Len(ms) + 1 \in DOMAIN as /\ as[Len(ms) + 1] = m
      BY <2>4, <2>6
    <3>3. \A k \in DOMAIN as : k \in DOMAIN ms \/ k = Len(ms) + 1
      BY <2>6
    <3> HIDE DEF ms
    <3>4. Conns(as) = Conns(ms) \cup {a}
      <4>1. as[Len(ms) + 1].conn = a
        BY <1>2, <3>2
      <4>2. \A k \in DOMAIN as : as[k].conn \in Conns(ms) \cup {a}
        BY <3>1, <3>3, <4>1 DEF Conns
      <4>3. \A k \in DOMAIN ms : ms[k].conn \in Conns(as)
        BY <3>1 DEF Conns
      <4>4. a \in Conns(as)
        BY <3>2, <4>1 DEF Conns
      <4>5. QED BY <4>2, <4>3, <4>4 DEF Conns
    <3>5. Ids(as) = Ids(ms) \cup {uid[a]}
      <4>1. as[Len(ms) + 1].id = uid[a]
        BY <1>2, <3>2
      <4>2. \A k \in DOMAIN as : as[k].id \in Ids(ms) \cup {uid[a]}
        BY <3>1, <3>3, <4>1 DEF Ids
      <4>3. \A k \in DOMAIN ms : ms[k].id \in Ids(as)
        BY <3>1 DEF Ids
      <4>4. uid[a] \in Ids(as)
        BY <3>2, <4>1 DEF Ids
      <4>5. QED BY <4>2, <4>3, <4>4 DEF Ids
    <3>6. QED BY <3>4, <3>5
  <2>8. as = joined
    BY DEF as, ms
  <2>9. QED BY <2>1, <2>3, <2>4, <2>7, <2>8 DEF ms
<1> DEFINE new == [chats[c] EXCEPT !.members = joined]
<1> HIDE DEF joined
<1>4. c \in DOMAIN chats \ spoiled' =>
        /\ chats' = [chats EXCEPT ![c] = new]
        /\ new.members = joined /\ new.subject = chats[c].subject
  BY <1>1, <1>3 DEF Joined, joined, m, Chat
<1>5. /\ DOMAIN chats' = DOMAIN chats
      /\ \A d \in DOMAIN chats : d # c => chats'[d] = chats[d]
  BY <1>1 DEF Joined
<1>6. added \in [Addr -> Display]
      /\ \A b \in Addr : added[b] = [state |-> shows[b][c].state,
                                     who |-> shows[b][c].who \cup {uid[a]},
                                     subject |-> shows[b][c].subject]
  <2>1. uid[a] \in UserId
    BY <1>1 DEF RInv, IInv, TypeOK, LoggedIn
  <2>2. \A b \in Addr : shows[b][c] \in Display
    BY RoomsBefore DEF AllShown, RInv
  <2>3. QED BY <2>1, <2>2 DEF Display
<1> HIDE DEF added, new
<1>7. /\ told \in AllShown
      /\ \A b \in Addr, d \in RoomIds :
           told[b][d] = IF d = c /\ b \in Reach(after) \ {a} /\ Open(b, c)
                        THEN added[b] ELSE shows[b][d]
  <2>1. \A b \in Addr : added[b].state = shows[b][c].state
    <3>1. \A b \in Addr : shows[b][c] \in Display
      BY RoomsBefore DEF AllShown, RInv
    <3>2. QED BY <1>6, <3>1 DEF Display
  <2> DEFINE S == Reach(after) \ {a}
  <2>2. told = Tell(S, c, added)
    OBVIOUS
  <2> HIDE DEF S, told, after
  <2>3. Tell(S, c, added) \in AllShown
    BY <1>6, <2>1, TellFacts DEF RInv, IInv
  <2>4. \A b \in Addr, d \in RoomIds :
          Tell(S, c, added)[b][d] = IF d = c /\ b \in S /\ Open(b, c)
                                    THEN added[b] ELSE shows[b][d]
    BY <1>6, TellSame DEF RInv
  <2>5. QED BY <2>2, <2>3, <2>4 DEF S
<1>8. after \in Seq(Member)
  <2>1. c \in DOMAIN chats => chats'[c] \in Chat
    BY <1>5 DEF IInv, TypeOK
  <2>2. QED BY <2>1, ChatFields, EmptySeq
<1>9. w \in Display
  <2> HIDE DEF after
  <2>1. QED BY <1>8, DisplayTypes DEF RInv, IInv
<1> HIDE DEF told, w, after
<1>10. \A b \in Addr, d \in RoomIds :
         shows'[b][d] = IF b = a /\ d = c THEN w ELSE told[b][d]
  BY <1>1, <1>7, <1>9, SetWindow
<1>11. c \notin ChatId \ used
  BY <1>1 DEF RInv, Fresh
<1>12. Fresh' /\ \A d \in DOMAIN chats \ spoiled : d # c => Agreed(chats[d], d, shows')
  <2>1. \A b \in Addr, d \in RoomIds : d # c => shows'[b][d] = shows[b][d]
    BY <1>7, <1>10
  <2>2. used' = used
    BY <1>1
  <2>3. QED BY <1>11, <2>1, <2>2, OtherRooms
<1>13. ASSUME c \in DOMAIN chats \ spoiled'
       PROVE  Agreed(new, c, shows')
  <2> DEFINE ms == chats[c].members
  <2>1. /\ GetSubject(c) = chats[c].subject
        /\ \A b \in Addr : Open(b, c) =>
             b \in Conns(ms) /\ shows[b][c] = Window(Ids(ms), chats[c].subject)
    BY <1>1, <1>13, ThisRoom
  <2>2. after = joined /\ chats'[c].members = joined /\ c \in DOMAIN chats'
    BY <1>4, <1>13 DEF after
  <2>3. Reach(joined) = Conns(joined) /\ Roster(joined) = Ids(joined)
    <3>1. Sound(chats[c].members, c, shows)'
      BY <1>13, <2>2 DEF IInv, RoomsSound
    <3>2. Sound(joined, c, shows')
      BY <1>1, <2>2, <3>1 DEF Sound
    <3>3. QED BY <3>2, RosterOf
  <2>4. Conns(joined) = Conns(ms) \cup {a} /\ Ids(joined) = Ids(ms) \cup {uid[a]}
    BY <1>3, <1>13
  <2> HIDE DEF ms
  <2>5. \A who, x : LET v == Window(who, x)
                     IN  v.state = "open" /\ v.who = who /\ v.subject = x
    BY DEF Window
  <2>6. ASSUME NEW b \in Addr, shows'[b][c].state = "open"
        PROVE  b \in Conns(joined) /\ shows'[b][c] = Window(Ids(joined), chats[c].subject)
    <3>1. CASE b = a
      BY <1>10, <2>1, <2>2, <2>3, <2>4, <3>1 DEF w
    <3>2. CASE b # a
      <4>1. Open(b, c)
        BY <1>7, <1>10, <2>6, <3>2 DEF Open
      <4>2. b \in Conns(ms) /\ shows[b][c] = Window(Ids(ms), chats[c].subject)
        BY <2>1, <4>1
      <4>3. shows'[b][c] = added[b]
        BY <1>7, <1>10, <2>2, <2>3, <2>4, <3>2, <4>1, <4>2
      <4>4. added[b] = Window(Ids(ms) \cup {uid[a]}, chats[c].subject)
        BY <1>6, <2>5, <4>2 DEF Window
      <4>5. QED BY <2>4, <4>2, <4>3, <4>4
    <3>3. QED BY <3>1, <3>2
  <2>7. QED BY <1>4, <1>13, <2>6 DEF Agreed
<1>14. \A d \in DOMAIN chats' \ spoiled' : Agreed(chats'[d], d, shows')
  BY <1>1, <1>4, <1>5, <1>12, <1>13
<1>15. QED BY <1>12, <1>14 DEF Agree

\* What removing one of the entries of a sound room removes.
LEMMA RestFacts ==
  ASSUME NEW ms, NEW c, NEW sh, Sound(ms, c, sh), NEW i \in DOMAIN ms
  PROVE  /\ Conns(RemoveAt(ms, i)) = Conns(ms) \ {ms[i].conn}
         /\ Ids(RemoveAt(ms, i)) = Ids(ms) \ {ms[i].id}
<1> DEFINE rs == RemoveAt(ms, i)
<1>1. ms \in Seq(Member) /\ i \in 1 .. Len(ms) /\ Len(ms) \in Nat
      /\ DOMAIN ms = 1 .. Len(ms)
  BY LenProperties DEF Sound
<1>2. /\ rs \in Seq(Member) /\ Len(rs) = Len(ms) - 1
      /\ \A k \in 1 .. Len(ms) - 1 : rs[k] = IF k < i THEN ms[k] ELSE ms[k + 1]
  BY <1>1, RemoveAtFacts
<1> HIDE DEF rs
<1>3. DOMAIN rs = 1 .. Len(ms) - 1
  BY <1>2, LenProperties
<1>4. \A k \in DOMAIN rs : \E n \in DOMAIN ms : n # i /\ rs[k] = ms[n]
  <2>1. ASSUME NEW k \in DOMAIN rs
        PROVE  \E n \in DOMAIN ms : n # i /\ rs[k] = ms[n]
    <3>1. CASE k < i
      BY <1>1, <1>2, <1>3, <3>1
    <3>2. CASE ~(k < i)
      <4>1. k + 1 \in DOMAIN ms /\ k + 1 # i
        BY <1>1, <1>3, <3>2
      <4>2. QED BY <1>2, <1>3, <3>2, <4>1
    <3>3. QED BY <3>1, <3>2
  <2>2. QED BY <2>1
<1>5. \A n \in DOMAIN ms : n # i => \E k \in DOMAIN rs : rs[k] = ms[n]
  <2>1. ASSUME NEW n \in DOMAIN ms, n # i
        PROVE  \E k \in DOMAIN rs : rs[k] = ms[n]
    <3>1. CASE n < i
      BY <1>1, <1>2, <1>3, <3>1
    <3>2. CASE ~(n < i)
      <4>1. n - 1 \in 1 .. Len(ms) - 1 /\ ~(n - 1 < i) /\ n - 1 + 1 = n
        BY <1>1, <2>1, <3>2
      <4>2. rs[n - 1] = ms[n]
        BY <1>2, <4>1
      <4>3. QED BY <1>3, <4>1, <4>2
    <3>3. QED BY <3>1, <3>2
  <2>2. QED BY <2>1
<1>6. \A n \in DOMAIN ms : n # i => ms[n].id # ms[i].id /\ ms[n].conn # ms[i].conn
  BY DEF Sound
<1>7. Conns(rs) = Conns(ms) \ {ms[i].conn}
  <2>1. \A k \in DOMAIN rs : rs[k].conn \in Conns(ms) \ {ms[i].conn}
    BY <1>4, <1>6 DEF Conns
  <2>2. \A n \in DOMAIN ms : n # i => ms[n].conn \in Conns(rs)
    BY <1>5 DEF Conns
  <2>3. QED BY <2>1, <2>2 DEF Conns
<1>8. Ids(rs) = Ids(ms) \ {ms[i].id}
  <2>1. \A k \in DOMAIN rs : rs[k].id \in Ids(ms) \ {ms[i].id}
    BY <1>4, <1>6 DEF Ids
  <2>2. \A n \in DOMAIN ms : n # i => ms[n].id \in Ids(rs)
    BY <1>5 DEF Ids
  <2>3. QED BY <2>1, <2>2 DEF Ids
<1>9. QED BY <1>7, <1>8 DEF rs

\* Who leaves had an entry, and the others take it off their displays.
LEMMA LeaveChatAgrees ==
  ASSUME RInv, NEW a \in Addr, NEW c \in RoomIds, LeaveChat(a, c)
  PROVE  Fresh' /\ Agree'
<1> DEFINE gone == [b \in Addr |-> [shows[b][c] EXCEPT !.who = @ \ {uid[a]}]]
           S == Reach(Members(c)) \ {a}
           told == Tell(S, c, gone)
<1>1. /\ shows' = [told EXCEPT ![a][c] = Nothing]
      /\ chats' = Left(c, uid[a])
      /\ used' = used /\ spoiled' = spoiled /\ Open(a, c) /\ LoggedIn(a)
  BY DEF LeaveChat
<1>2. /\ gone \in [Addr -> Display]
      /\ \A b \in Addr : gone[b] = [state |-> shows[b][c].state,
                                    who |-> shows[b][c].who \ {uid[a]},
                                    subject |-> shows[b][c].subject]
  <2>1. \A b \in Addr : shows[b][c] \in Display
    BY RoomsBefore DEF AllShown, RInv
  <2>2. QED BY <2>1 DEF Display
<1> HIDE DEF gone, S
<1>3. /\ told \in AllShown
      /\ \A b \in Addr, d \in RoomIds :
           told[b][d] = IF d = c /\ b \in S /\ Open(b, c) THEN gone[b] ELSE shows[b][d]
  <2>1. \A b \in Addr : gone[b].state = shows[b][c].state
    <3>1. ASSUME NEW b \in Addr PROVE gone[b].state = shows[b][c].state
      <4>1. gone[b] = [state |-> shows[b][c].state, who |-> shows[b][c].who \ {uid[a]},
                       subject |-> shows[b][c].subject]
        BY <1>2
      <4>2. QED BY <4>1
    <3>2. QED BY <3>1
  <2>2. told = Tell(S, c, gone)
    OBVIOUS
  <2> HIDE DEF told
  <2>3. Tell(S, c, gone) \in AllShown
    BY <1>2, <2>1, TellFacts DEF RInv, IInv
  <2>4. \A b \in Addr, d \in RoomIds :
          Tell(S, c, gone)[b][d] = IF d = c /\ b \in S /\ Open(b, c)
                                   THEN gone[b] ELSE shows[b][d]
    BY <1>2, TellSame DEF RInv
  <2>5. QED BY <2>2, <2>3, <2>4
<1> HIDE DEF told
<1>4. \A b \in Addr, d \in RoomIds :
        shows'[b][d] = IF b = a /\ d = c THEN Nothing ELSE told[b][d]
  <2>1. Nothing \in Display
    BY DisplayTypes DEF RInv, IInv
  <2> HIDE DEF Nothing
  <2>2. QED BY <1>1, <1>3, <2>1, SetWindow
<1>5. c \notin ChatId \ used
  BY <1>1 DEF RInv, Fresh, Open
<1>6. Fresh' /\ \A d \in DOMAIN chats \ spoiled : d # c => Agreed(chats[d], d, shows')
  <2>1. \A b \in Addr, d \in RoomIds : d # c => shows'[b][d] = shows[b][d]
    BY <1>3, <1>4
  <2>2. used' = used
    BY <1>1
  <2>3. QED BY <1>5, <2>1, <2>2, OtherRooms
<1> DEFINE ms == Members(c)
           at == {j \in DOMAIN ms : ms[j].id = uid[a]}
           first == CHOOSE j \in at : \A k \in at : j <= k
           rest == IF at = {} THEN ms ELSE RemoveAt(ms, first)
<1>7. chats' = [x \in IF at # {} /\ rest = <<>> THEN DOMAIN chats \ {c} ELSE DOMAIN chats |->
                  IF x = c THEN [chats[x] EXCEPT !.members = rest] ELSE chats[x]]
  BY <1>1 DEF Left
<1>8. ASSUME c \in DOMAIN chats \ spoiled
      PROVE  Agreed([chats[c] EXCEPT !.members = rest], c, shows')
  <2>1. /\ ms = chats[c].members /\ chats[c] \in Chat /\ ms \in Seq(Member)
        /\ Sound(ms, c, shows) /\ Reach(ms) = Conns(ms)
        /\ \A b \in Addr : Open(b, c) =>
             b \in Conns(ms) /\ shows[b][c] = Window(Ids(ms), chats[c].subject)
    BY <1>8, ThisRoom
  <2>2. S = Conns(ms) \ {a}
    BY <2>1 DEF S
  <2> HIDE DEF ms
  <2>3. \A j, k \in DOMAIN ms : ms[j].id = ms[k].id => j = k
    BY <2>1 DEF Sound
  <2>4. PICK i \in DOMAIN ms : ms[i].conn = a
    BY <1>1, <2>1 DEF Conns
  <2>5. ms[i].id = uid[a]
    BY <2>1, <2>4 DEF Sound
  <2>6. at = {i} /\ i \in Nat
    <3>1. DOMAIN ms \subseteq Nat
      BY <2>1, MemberFacts
    <3>2. QED BY <2>3, <2>4, <2>5, <3>1
  <2>7. first = i
    <3> HIDE DEF at
    <3>1. \A j \in at : (\A k \in at : j <= k) <=> j = i
      BY <2>6
    <3>2. QED BY <2>6, <3>1
  <2>8. rest = RemoveAt(ms, i)
    BY <2>6, <2>7
  <2> HIDE DEF rest, at, first
  <2>9. Conns(rest) = Conns(ms) \ {a} /\ Ids(rest) = Ids(ms) \ {uid[a]}
    BY <2>1, <2>4, <2>5, <2>8, RestFacts
  <2> DEFINE ch == [chats[c] EXCEPT !.members = rest]
  <2>10. ch.members = rest /\ ch.subject = chats[c].subject
    BY <2>1 DEF Chat
  <2> HIDE DEF ch
  <2>11. ASSUME NEW b \in Addr, shows'[b][c].state = "open"
         PROVE  b \in Conns(rest) /\ shows'[b][c] = Window(Ids(rest), chats[c].subject)
    <3>1. b # a /\ shows'[b][c] = told[b][c]
      BY <1>4, <2>11 DEF Nothing
    <3>2. Open(b, c)
      BY <1>3, <2>11, <3>1 DEF Open
    <3>3. b \in Conns(ms) /\ shows[b][c] = Window(Ids(ms), chats[c].subject)
      BY <2>1, <3>2
    <3>4. told[b][c] = gone[b]
      BY <1>3, <2>2, <3>1, <3>2, <3>3
    <3>5. gone[b] = Window(Ids(ms) \ {uid[a]}, chats[c].subject)
      BY <1>2, <3>3 DEF Window
    <3>6. QED BY <2>9, <3>1, <3>3, <3>4, <3>5
  <2>12. Agreed(ch, c, shows')
    BY <2>10, <2>11 DEF Agreed
  <2>13. QED BY <2>12 DEF ch
<1> HIDE DEF rest, at, ms
<1>9. \A d \in DOMAIN chats' \ spoiled' : Agreed(chats'[d], d, shows')
  BY <1>1, <1>6, <1>7, <1>8
<1>10. QED BY <1>6, <1>9 DEF Agree

LEMMA AgreedGivesRoster == RInv => RosterAgrees
<1> SUFFICES ASSUME RInv, NEW c \in DOMAIN chats \ spoiled
             PROVE  /\ \A j \in DOMAIN Members(c) :
                         uid[Members(c)[j].conn] = Members(c)[j].id
                    /\ \A a \in Addr :
                         /\ Open(a, c) <=> a \in Reach(Members(c))
                         /\ Open(a, c) =>
                              shows[a][c] = Window(Roster(Members(c)), GetSubject(c))
  BY DEF RosterAgrees
<1>1. /\ Members(c) = chats[c].members /\ GetSubject(c) = chats[c].subject
      /\ Sound(Members(c), c, shows)
      /\ Reach(Members(c)) = Conns(Members(c)) /\ Roster(Members(c)) = Ids(Members(c))
      /\ \A a \in Addr : Open(a, c) =>
           /\ a \in Conns(Members(c))
           /\ shows[a][c] = Window(Ids(Members(c)), chats[c].subject)
  BY ThisRoom
<1>2. \A a \in Addr : a \in Conns(Members(c)) => Open(a, c)
  BY <1>1 DEF Sound, Conns, Open
<1>3. \A j \in DOMAIN Members(c) : uid[Members(c)[j].conn] = Members(c)[j].id
  BY <1>1 DEF Sound
<1>4. QED BY <1>1, <1>2, <1>3

LEMMA NextAgrees ==
  ASSUME RInv, [Next]_vars
  PROVE  RInv'
<1>1. IInv'
  BY NextSound DEF RInv
<1>2. CASE UNCHANGED chatVars
  BY <1>1, <1>2 DEF chatVars, RInv, Fresh, Agree, Agreed
<1>3. CASE \E a \in Addr : Arrive(a) \/ Depart(a)
  BY <1>1, <1>3, ArriveAgrees DEF RInv
<1>4. CASE \E a \in Addr : \E T \in Invitees(a) : InviteNewChat(a, T)
  BY <1>1, <1>4, InviteNewChatAgrees DEF RInv
<1>5. CASE \E a \in Addr, c \in ChatId \cup {NoChat} :
             \E T \in Invitees(a) : InviteToChat(a, T, c)
  BY <1>1, <1>5, InviteToChatAgrees DEF RInv, RoomIds
<1>6. CASE \E a \in Addr, c \in ChatId \cup {NoChat} :
             JoinChat(a, c) \/ RejectChatInvite(a, c) \/ LeaveChat(a, c)
  BY <1>1, <1>6, JoinChatAgrees, RejectChatInviteAgrees, LeaveChatAgrees DEF RInv, RoomIds
<1>7. CASE \E a \in Addr, c \in ChatId \cup {NoChat}, s \in Subjects :
             SetChatSubject(a, c, s)
  BY <1>1, <1>7, SetChatSubjectAgrees DEF RInv, RoomIds
<1>8. CASE UNCHANGED vars
  BY <1>2, <1>8 DEF vars, chatVars
<1>9. QED BY <1>2, <1>3, <1>4, <1>5, <1>6, <1>7, <1>8 DEF Next

LEMMA InitAgrees == Init => RInv
<1>1. Init => Fresh
  BY DEF Init, Fresh, Blank, Nothing
<1>2. Init => Agree
  BY DEF Init, Agree
<1>3. QED BY <1>1, <1>2, InitSound DEF RInv

\* In a room that nobody has disconnected from, joined twice or joined while it
\* was full, every pointer is to the session that joined, and everybody who has
\* the room open is in it and displays exactly its members and its subject,
\* whatever is done in the room and happens to others.
THEOREM RostersAgree == Spec => []RosterAgrees
<1>1. RInv /\ [Next]_vars => RInv'
  BY NextAgrees
<1>2. QED BY InitAgrees, AgreedGivesRoster, <1>1, PTL DEF Spec
=============================================================================
