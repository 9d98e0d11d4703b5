--------------------------- MODULE SessionsProofs ---------------------------
(***************************************************************************)
(* Proofs about Sessions for every value of its constants.                 *)
(***************************************************************************)
EXTENDS Sessions, FiniteSetTheorems, TLAPS

\* Ids repeat only after IdSpace logins: born is a login's ordinal number.
LEMMA IdRange == \A n \in Nat : n % IdSpace \in Ids
  BY IdAssumption DEF Ids

LEMMA IdInjective ==
  \A m, n \in 1 .. IdSpace : m % IdSpace = n % IdSpace => m = n
<1>1. \A n \in 1 .. IdSpace : n # IdSpace => n % IdSpace = n
  BY IdAssumption
<1>2. IdSpace % IdSpace = 0
  BY IdAssumption
<1>3. QED BY <1>1, <1>2

-----------------------------------------------------------------------------
(***************************************************************************)
(* The inductive invariant: TypeOK and the properties, strengthened with   *)
(*   Listed     the manager lists the allocated sessions, logins are in    *)
(*              order, and cc->fd is cc->conn's number until a kick;       *)
(*   BatchOwned an unserved event names the live session whose connection  *)
(*              has the number polled, and no two events that number.      *)
(***************************************************************************)
Listed ==
    /\ mgr = {a \in Addr : Live(a)}
    /\ \A a \in mgr : /\ heap[a].born <= nextId
                      /\ heap[a].fd \in {heap[a].conn, NoFd}
    /\ \A a, b \in mgr : heap[a].born = heap[b].born => a = b

BatchOwned ==
    \A e \in batch : e.kind \in {"read", "eof"} =>
      /\ Live(e.udata)
      /\ heap[e.udata].conn = e.fd
      /\ \A d \in batch : d.kind \in {"read", "eof"} /\ d.fd = e.fd => d = e

Counted == connected = Cardinality(mgr)

IInv == TypeOK /\ Listed /\ BatchOwned /\ WatchedOwned /\ Counted

\* The sessions an action works on are records, and the manager is finite.
LEMMA Allocated ==
  ASSUME TypeOK, Listed
  PROVE  /\ \A a \in mgr : a \in Addr /\ heap[a] \in Session
         /\ \A a \in Addr : Live(a) => a \in mgr
         /\ IsFiniteSet(mgr)
  BY FS_Subset, AddrAssumption DEF TypeOK, Listed, Live

\* What a peer displays has its type after any broadcast.
LEMMA TellType ==
  ASSUME NEW v \in [Peers -> [Ids -> Shown]], NEW S, NEW i, NEW s \in Shown
  PROVE  Tell(v, S, i, s) \in [Peers -> [Ids -> Shown]]
  BY DEF Tell

LEMMA InitIInv == Init => IInv
<1> SUFFICES ASSUME Init PROVE IInv
  OBVIOUS
<1>1. TypeOK
  BY IdAssumption DEF Init, TypeOK, RemoteState, Blank, Shown
<1>2. Listed /\ BatchOwned /\ WatchedOwned
  BY DEF Init, Listed, BatchOwned, WatchedOwned, Live
<1>3. Counted
  BY FS_EmptySet DEF Init, Counted
<1>4. QED BY <1>1, <1>2, <1>3 DEF IInv

-----------------------------------------------------------------------------
(* Steps.  The first lemma covers those that neither open nor close.       *)

LEMMA QuietStep ==
  ASSUME IInv, batch' \subseteq batch,
         UNCHANGED <<sock, watched, udata, mgr, nextId, connected>>,
         \A a \in Addr : /\ Live(a)' <=> Live(a)
                         /\ Live(a) => /\ heap'[a].fd = heap[a].fd
                                       /\ heap'[a].conn = heap[a].conn
                                       /\ heap'[a].born = heap[a].born
                                       /\ heap'[a].owner = heap[a].owner
  PROVE  Listed' /\ BatchOwned' /\ WatchedOwned' /\ Counted'
<1>1. Listed'
  BY DEF IInv, Listed
<1>2. BatchOwned'
  <2> SUFFICES ASSUME NEW e \in batch', e.kind \in {"read", "eof"}
               PROVE  /\ Live(e.udata)'
                      /\ heap'[e.udata].conn = e.fd
                      /\ \A d \in batch' : d.kind \in {"read", "eof"}
                                           /\ d.fd = e.fd => d = e
    BY DEF BatchOwned
  <2>1. e \in batch /\ e.udata \in Addr
    BY DEF IInv, TypeOK, Event
  <2>2. QED BY <2>1 DEF IInv, BatchOwned
<1>3. WatchedOwned'
  BY DEF IInv, WatchedOwned
<1>4. Counted'
  BY DEF IInv, Counted
<1>5. QED BY <1>1, <1>2, <1>3, <1>4

\* Waking a session changes neither its descriptors nor its ordinal.
LEMMA WakeStep ==
  ASSUME IInv, NEW a \in mgr
  PROVE  /\ WakeHeap(a) \in [Addr -> Session \cup {Freed}]
         /\ Woken(a) \in [Peers -> [Ids -> Shown]]
         /\ \A b \in Addr :
              /\ Live(b) <=> WakeHeap(a)[b] # Freed
              /\ Live(b) => /\ WakeHeap(a)[b].fd = heap[b].fd
                            /\ WakeHeap(a)[b].conn = heap[b].conn
                            /\ WakeHeap(a)[b].born = heap[b].born
                            /\ WakeHeap(a)[b].owner = heap[b].owner
<1>1. a \in Addr /\ heap[a] \in Session
  BY Allocated DEF IInv
<1>2. [heap[a] EXCEPT !.away = FALSE] \in Session
  BY <1>1 DEF Session
<1>3. WakeHeap(a) = [heap EXCEPT ![a] = [heap[a] EXCEPT !.away = FALSE]]
  BY DEF WakeHeap
<1>4. Woken(a) \in [Peers -> [Ids -> Shown]]
  BY TellType DEF IInv, TypeOK, Woken, Shown
<1>5. ASSUME NEW b \in Addr
      PROVE  /\ Live(b) <=> WakeHeap(a)[b] # Freed
             /\ Live(b) => /\ WakeHeap(a)[b].fd = heap[b].fd
                           /\ WakeHeap(a)[b].conn = heap[b].conn
                           /\ WakeHeap(a)[b].born = heap[b].born
                           /\ WakeHeap(a)[b].owner = heap[b].owner
  <2> DEFINE r == [heap[a] EXCEPT !.away = FALSE]
  <2>1. /\ r.fd = heap[a].fd /\ r.conn = heap[a].conn
        /\ r.born = heap[a].born /\ r.owner = heap[a].owner
    BY <1>1 DEF Session
  <2>2. r # Freed /\ heap[a] # Freed
    BY <1>1, <1>2, FreedAssumption
  <2>3. WakeHeap(a)[b] = IF b = a THEN r ELSE heap[b]
    BY <1>1, <1>3 DEF IInv, TypeOK
  <2> HIDE DEF r
  <2>4. QED BY <2>1, <2>2, <2>3 DEF Live
<1>6. WakeHeap(a) \in [Addr -> Session \cup {Freed}]
  BY <1>1, <1>2, <1>3 DEF IInv, TypeOK
<1>7. QED BY <1>4, <1>5, <1>6

\* The requests of a session that close nothing.
LEMMA RequestStep ==
  ASSUME IInv, NEW a \in mgr, batch' \subseteq batch, Wire(a) \in Peers,
         KeepAlive(a) \/ GetUserNameList(a) \/ SetUserInfo(a) \/ KickRefused(a)
  PROVE  IInv'
<1>1. a \in Addr /\ heap[a] \in Session
  BY Allocated DEF IInv
<1>2. CASE KeepAlive(a)
  <2>1. TypeOK'
    BY <1>2 DEF IInv, TypeOK, KeepAlive, Consume, RemoteState
  <2>2. Listed' /\ BatchOwned' /\ WatchedOwned' /\ Counted'
    BY <1>2, QuietStep DEF KeepAlive, Live
  <2>3. QED BY <2>1, <2>2 DEF IInv
<1>3. CASE GetUserNameList(a)
  <2>1. TypeOK'
    BY <1>3, WakeStep DEF IInv, TypeOK, GetUserNameList, Consume, RemoteState,
                          Shown
  <2>2. Listed' /\ BatchOwned' /\ WatchedOwned' /\ Counted'
    BY <1>3, QuietStep, WakeStep DEF GetUserNameList, Live
  <2>3. QED BY <2>1, <2>2 DEF IInv
<1>4. CASE SetUserInfo(a)
  <2> DEFINE h == [heap[a] EXCEPT !.away = FALSE, !.told = TRUE]
  <2>1. h \in Session /\ heap' = [heap EXCEPT ![a] = h]
    BY <1>1, <1>4 DEF Session, SetUserInfo
  <2>2. TypeOK'
    BY <1>4, <2>1, TellType
    DEF IInv, TypeOK, SetUserInfo, Consume, RemoteState, Shown
  <2>3. \A b \in Addr : /\ Live(b)' <=> Live(b)
                        /\ Live(b) => /\ heap'[b].fd = heap[b].fd
                                      /\ heap'[b].conn = heap[b].conn
                                      /\ heap'[b].born = heap[b].born
                                      /\ heap'[b].owner = heap[b].owner
    BY <1>1, <2>1, FreedAssumption DEF IInv, TypeOK, Live, Session
  <2>4. Listed' /\ BatchOwned' /\ WatchedOwned' /\ Counted'
    BY <1>4, <2>3, QuietStep DEF SetUserInfo
  <2>5. QED BY <2>2, <2>4 DEF IInv
<1>5. CASE KickRefused(a)
  <2>1. TypeOK'
    BY <1>5, WakeStep DEF IInv, TypeOK, KickRefused, Consume, RemoteState
  <2>2. Listed' /\ BatchOwned' /\ WatchedOwned' /\ Counted'
    BY <1>5, QuietStep, WakeStep DEF KickRefused, Live
  <2>3. QED BY <2>1, <2>2 DEF IInv
<1>6. QED BY <1>2, <1>3, <1>4, <1>5

\* A kick closes a descriptor and marks one session; no pointer changes.
LEMMA KickStep ==
  ASSUME IInv, NEW a \in mgr, NEW t \in mgr, batch' \subseteq batch, Kick(a, t)
  PROVE  IInv'
<1> DEFINE f == heap[t].fd
           w == WakeHeap(a)
<1>1. /\ a \in Addr /\ t \in Addr /\ heap[t] \in Session
      /\ f \in Fd /\ f = heap[t].conn
  BY Allocated DEF IInv, Listed, Session, Kick
<1>2. /\ w \in [Addr -> Session \cup {Freed}] /\ w[t] \in Session
      /\ Woken(a) \in [Peers -> [Ids -> Shown]]
  BY <1>1, WakeStep, Allocated DEF IInv, TypeOK, Live
<1>3. /\ heap' = [w EXCEPT ![t] = [w[t] EXCEPT !.fd = NoFd]]
      /\ [w[t] EXCEPT !.fd = NoFd] \in Session
  BY <1>2 DEF Kick, Session
<1>4. \A b \in Addr :
        /\ Live(b)' <=> Live(b)
        /\ Live(b) => /\ heap'[b].conn = heap[b].conn
                      /\ heap'[b].born = heap[b].born
                      /\ heap'[b].owner = heap[b].owner
                      /\ heap'[b].fd \in {heap[b].fd, NoFd}
  <2>1. \A b \in Addr : /\ Live(b) <=> w[b] # Freed
                        /\ Live(b) => /\ w[b].conn = heap[b].conn
                                      /\ w[b].born = heap[b].born
                                      /\ w[b].owner = heap[b].owner
                                      /\ w[b].fd = heap[b].fd
    BY WakeStep
  <2> HIDE DEF w
  <2> DEFINE r == [w[t] EXCEPT !.fd = NoFd]
  <2>2. /\ r \in Session /\ r.conn = w[t].conn /\ r.born = w[t].born
        /\ r.owner = w[t].owner /\ r.fd = NoFd
    BY <1>2, <1>3 DEF Session
  <2>3. heap' = [w EXCEPT ![t] = r]
    BY <1>3
  <2> HIDE DEF r
  <2>4. ASSUME NEW b \in Addr
        PROVE  heap'[b] = IF b = t THEN r ELSE w[b]
    BY <1>2, <2>3
  <2>5. w[t] # Freed /\ r # Freed
    BY <1>2, <2>2, FreedAssumption
  <2>6. QED BY <1>1, <2>1, <2>2, <2>4, <2>5 DEF Live
<1>5. TypeOK'
  <2>1. /\ remote' \in [Peers -> RemoteState]
        /\ sock' \in [Fd -> Peers \cup {NoPeer}]
    BY DEF IInv, TypeOK, Kick, RemoteState
  <2>2. /\ watched' \subseteq Watchable
        /\ listed' \subseteq Peers
        /\ batch' \subseteq Event
    BY DEF IInv, TypeOK, Kick
  <2>3. view' \in [Peers -> [Ids -> Shown]]
    BY <1>2 DEF Kick, ClosedView, Blank, Shown
  <2>4. heap' \in [Addr -> Session \cup {Freed}]
    BY <1>2, <1>3
  <2>5. QED BY <2>1, <2>2, <2>3, <2>4 DEF IInv, TypeOK, Kick
<1>6. Listed'
  BY <1>4, Allocated DEF IInv, Listed, Kick
<1>7. BatchOwned'
  <2> SUFFICES ASSUME NEW e \in batch', e.kind \in {"read", "eof"}
               PROVE  /\ Live(e.udata)'
                      /\ heap'[e.udata].conn = e.fd
                      /\ \A d \in batch' : d.kind \in {"read", "eof"}
                                           /\ d.fd = e.fd => d = e
    BY DEF BatchOwned
  <2>1. e \in batch /\ e.udata \in Addr
    BY DEF IInv, TypeOK, Event
  <2>2. QED BY <1>4, <2>1 DEF IInv, BatchOwned
<1>8. WatchedOwned'
  <2>1. ASSUME NEW g \in watched'
        PROVE  /\ sock'[g] # NoPeer /\ udata[g] \in Addr
               /\ heap'[udata[g]] # Freed /\ heap'[udata[g]].conn = g
               /\ heap'[udata[g]].owner = sock'[g]
    <3>1. g \in watched /\ g # f /\ g \in Fd
      BY WatchAssumption DEF Kick, IInv, TypeOK
    <3>2. sock'[g] = sock[g]
      BY <3>1 DEF Kick, IInv, TypeOK
    <3>3. QED BY <1>4, <3>1, <3>2 DEF IInv, WatchedOwned, Live
  <2>2. udata' = udata
    BY DEF Kick
  <2>3. QED BY <2>1, <2>2 DEF WatchedOwned, Live
<1>9. Counted'
  BY DEF IInv, Counted, Kick
<1>10. QED BY <1>5, <1>6, <1>7, <1>8, <1>9 DEF IInv

\* The away timer.
LEMMA IdleStep ==
  ASSUME IInv, batch' \subseteq batch, IdleTick
  PROVE  IInv'
<1>1. PICK S \in SUBSET {a \in mgr : ~heap[a].away} :
        /\ heap' = [a \in Addr |-> IF a \in S
                                   THEN [heap[a] EXCEPT !.away = TRUE,
                                                        !.told = TRUE]
                                   ELSE heap[a]]
        /\ view' = [p \in Peers |->
                      [i \in Ids |->
                         IF p \in listed /\ \E a \in S : Id(a) = i
                                                      /\ p \in Hearers(a)
                         THEN "idle" ELSE view[p][i]]]
        /\ UNCHANGED <<remote, sock, watched, udata, mgr, nextId,
                       connected, listed>>
  BY DEF IdleTick
<1>2. ASSUME NEW a \in Addr
      PROVE  /\ heap'[a] \in Session \cup {Freed}
             /\ Live(a)' <=> Live(a)
             /\ Live(a) => /\ heap'[a].fd = heap[a].fd
                           /\ heap'[a].conn = heap[a].conn
                           /\ heap'[a].born = heap[a].born
                           /\ heap'[a].owner = heap[a].owner
  <2>1. CASE a \in S
    <3> DEFINE r == [heap[a] EXCEPT !.away = TRUE, !.told = TRUE]
    <3>1. heap[a] \in Session
      BY <2>1, Allocated DEF IInv
    <3>2. /\ r \in Session /\ r.fd = heap[a].fd
          /\ r.conn = heap[a].conn /\ r.born = heap[a].born
          /\ r.owner = heap[a].owner
      BY <3>1 DEF Session
    <3>3. heap'[a] = r
      BY <1>1, <2>1
    <3> HIDE DEF r
    <3>4. QED BY <3>1, <3>2, <3>3, FreedAssumption DEF Live
  <2>2. CASE a \notin S
    BY <1>1, <2>2 DEF IInv, TypeOK, Live
  <2>3. QED BY <2>1, <2>2
<1>3. heap' \in [Addr -> Session \cup {Freed}]
  BY <1>1, <1>2
<1>4. view' \in [Peers -> [Ids -> Shown]]
  BY <1>1 DEF IInv, TypeOK, Shown
<1>5. TypeOK'
  BY <1>1, <1>3, <1>4 DEF IInv, TypeOK
<1>6. Listed' /\ BatchOwned' /\ WatchedOwned' /\ Counted'
  BY <1>1, <1>2, QuietStep
<1>7. QED BY <1>5, <1>6 DEF IInv

\* A disconnect takes one session, its number and its event with it.
LEMMA DisconnectStep ==
  ASSUME IInv, NEW a \in mgr, batch' \subseteq batch,
         \A d \in batch' : d.kind \in {"read", "eof"} => d.fd # heap[a].conn,
         Disconnect(a)
  PROVE  IInv'
<1> DEFINE f == heap[a].conn
           hearers == Hearers(a) \ {sock[f]}
<1>1. /\ a \in Addr /\ heap[a] \in Session
      /\ f \in Fd /\ heap[a].fd \in {f, NoFd}
  BY Allocated DEF IInv, Listed, Session
<1>2. /\ sock' = [sock EXCEPT ![f] = NoPeer]
      /\ watched' = watched \ {f}
      /\ remote' = [p \in Peers |-> IF p = sock[f] THEN "away" ELSE remote[p]]
      /\ listed' = listed \ {sock[f]}
      /\ udata' = [g \in Fd |-> IF g = heap[a].fd THEN NoAddr ELSE udata[g]]
      /\ mgr' = mgr \ {a}
      /\ connected' = connected - 1
      /\ heap' = [heap EXCEPT ![a] = Freed]
      /\ nextId' = nextId
  BY DEF Disconnect, Close
<1>3. \A b \in Addr : heap'[b] = IF b = a THEN Freed ELSE heap[b]
  BY <1>1, <1>2 DEF IInv, TypeOK
<1>4. view' \in [Peers -> [Ids -> Shown]]
  <2> DEFINE v == Tell(view, hearers, Id(a), "absent")
  <2>1. v \in [Peers -> [Ids -> Shown]]
    BY TellType DEF IInv, TypeOK, Shown
  <2>2. view' = ClosedView(v, f)
    BY DEF Disconnect
  <2> HIDE DEF v
  <2>3. QED BY <2>1, <2>2 DEF ClosedView, Blank, Shown
<1>5. TypeOK'
  <2>1. heap' \in [Addr -> Session \cup {Freed}]
    BY <1>2 DEF IInv, TypeOK
  <2>2. /\ remote' \in [Peers -> RemoteState]
        /\ sock' \in [Fd -> Peers \cup {NoPeer}]
        /\ udata' \in [Fd -> Addr \cup {NoAddr}]
    BY <1>2 DEF IInv, TypeOK, RemoteState
  <2>3. connected' \in Nat
    <3>1. IsFiniteSet(mgr)
      BY Allocated DEF IInv
    <3>2. /\ IsFiniteSet(mgr \ {a})
          /\ Cardinality(mgr \ {a}) = Cardinality(mgr) - 1
      BY <3>1, FS_RemoveElement
    <3>3. Cardinality(mgr \ {a}) \in Nat
      BY <3>2, FS_CardinalityType
    <3>4. QED BY <1>2, <3>2, <3>3 DEF IInv, Counted
  <2>4. QED BY <1>2, <1>4, <2>1, <2>2, <2>3 DEF IInv, TypeOK
<1>6. Listed'
  BY <1>1, <1>2, <1>3, Allocated DEF IInv, Listed, Live
<1>7. BatchOwned'
  <2> SUFFICES ASSUME NEW e \in batch', e.kind \in {"read", "eof"}
               PROVE  /\ Live(e.udata)'
                      /\ heap'[e.udata].conn = e.fd
                      /\ \A d \in batch' : d.kind \in {"read", "eof"}
                                           /\ d.fd = e.fd => d = e
    BY DEF BatchOwned
  <2>1. e \in batch /\ e.udata \in Addr /\ e.fd # f
    BY DEF IInv, TypeOK, Event
  <2>2. e.udata # a
    BY <2>1 DEF IInv, BatchOwned
  <2>3. QED BY <1>3, <2>1, <2>2 DEF IInv, BatchOwned, Live
<1>8. WatchedOwned'
  <2> SUFFICES ASSUME NEW g \in watched'
               PROVE  /\ sock'[g] # NoPeer /\ udata'[g] \in Addr
                      /\ Live(udata[g])' /\ heap'[udata[g]].conn = g
                      /\ heap'[udata[g]].owner = sock'[g]
                      /\ udata'[g] = udata[g]
    BY DEF WatchedOwned, Live
  <2>1. g \in watched /\ g # f /\ g \in Fd
    BY <1>2, WatchAssumption DEF IInv, TypeOK
  <2>2. sock'[g] = sock[g] /\ udata'[g] = udata[g]
    BY <1>1, <1>2, <2>1, FdAssumption DEF IInv, TypeOK
  <2>3. udata[g] \in Addr /\ udata[g] # a
    BY <2>1 DEF IInv, WatchedOwned
  <2>4. heap'[udata[g]] = heap[udata[g]]
    BY <1>3, <2>3
  <2>5. QED BY <2>1, <2>2, <2>3, <2>4 DEF IInv, WatchedOwned, Live
<1>9. Counted'
  BY <1>1, <1>2, Allocated, FS_RemoveElement DEF IInv, Counted
<1>10. QED BY <1>5, <1>6, <1>7, <1>8, <1>9 DEF IInv

\* A login fills a free address and a free number, and is the latest one.
LEMMA LoginStep ==
  ASSUME IInv, batch' \subseteq batch,
         NEW p \in Peers, NEW a \in Addr, NEW named \in BOOLEAN,
         Login(p, a, named)
  PROVE  IInv'
<1> DEFINE n == nextId + 1
<1>1. PICK f \in Fd :
        /\ sock[f] = NoPeer /\ f \in Watchable
        /\ sock' = [sock EXCEPT ![f] = p]
        /\ watched' = watched \cup {f}
        /\ udata' = [udata EXCEPT ![f] = a]
        /\ heap' = [heap EXCEPT ![a] =
                      [fd |-> f, conn |-> f, away |-> FALSE, born |-> n,
                       owner |-> p, told |-> named]]
        /\ view' = IF named
                   THEN Tell(view, {Wire(b) : b \in mgr} \ {NoPeer},
                             n % IdSpace, "here")
                   ELSE view
  BY Zenon DEF Login, LowestFree
<1> DEFINE r == [fd |-> f, conn |-> f, away |-> FALSE, born |-> n,
                 owner |-> p, told |-> named]
<1>2. /\ ~Live(a) /\ n \in 1 .. MaxLogins
      /\ mgr' = mgr \cup {a} /\ nextId' = n /\ connected' = connected + 1
      /\ remote' = [remote EXCEPT ![p] = "idle"]
      /\ UNCHANGED listed
  BY IdAssumption DEF Login, IInv, TypeOK
<1>3. /\ r \in Session /\ r # Freed
      /\ r.fd = f /\ r.conn = f /\ r.born = n /\ r.owner = p
  <2>1. n \in 1 .. MaxLogins /\ FALSE \in BOOLEAN
    BY <1>2
  <2>2. r \in Session
    BY <2>1, Zenon DEF Session
  <2>3. r.fd = f /\ r.conn = f /\ r.born = n /\ r.owner = p
    BY Zenon
  <2>4. QED BY <2>2, <2>3, FreedAssumption
<1>4. \A b \in Addr : heap'[b] = IF b = a THEN r ELSE heap[b]
  BY <1>1 DEF IInv, TypeOK
<1> HIDE DEF r
<1>5. TypeOK'
  <2>1. view' \in [Peers -> [Ids -> Shown]]
    BY <1>1, TellType DEF IInv, TypeOK, Shown
  <2>2. heap' \in [Addr -> Session \cup {Freed}]
    BY <1>1, <1>3 DEF IInv, TypeOK, r
  <2>3. sock' \in [Fd -> Peers \cup {NoPeer}] /\ watched' \subseteq Watchable
    BY <1>1 DEF IInv, TypeOK
  <2>4. /\ remote' \in [Peers -> RemoteState]
        /\ udata' \in [Fd -> Addr \cup {NoAddr}]
    BY <1>1, <1>2 DEF IInv, TypeOK, RemoteState
  <2>5. QED BY <1>2, <2>1, <2>2, <2>3, <2>4 DEF IInv, TypeOK
<1>6. Listed'
  <2>1. mgr' = {b \in Addr : Live(b)'}
    BY <1>2, <1>3, <1>4 DEF IInv, Listed, Live
  <2>2. ASSUME NEW b \in mgr'
        PROVE  /\ heap'[b].born <= nextId'
               /\ heap'[b].fd \in {heap'[b].conn, NoFd}
               /\ b # a => b \in mgr /\ heap'[b] = heap[b]
                           /\ heap[b].born < n
    <3>1. CASE b = a
      BY <1>2, <1>3, <1>4, <3>1
    <3>2. CASE b # a
      <4>1. b \in mgr /\ heap[b] \in Session /\ b \in Addr
        BY <1>2, <3>2, Allocated DEF IInv
      <4>2. heap[b].born <= nextId /\ heap[b].born \in Nat /\ nextId \in Nat
        BY <4>1 DEF IInv, TypeOK, Listed, Session
      <4>3. QED BY <1>2, <1>4, <3>2, <4>1, <4>2 DEF IInv, Listed
    <3>3. QED BY <3>1, <3>2
  <2>3. \A b, c \in mgr' : heap'[b].born = heap'[c].born => b = c
    BY <1>2, <1>3, <1>4, <2>2 DEF IInv, Listed
  <2>4. QED BY <2>1, <2>2, <2>3 DEF Listed
<1>7. BatchOwned'
  <2> SUFFICES ASSUME NEW e \in batch', e.kind \in {"read", "eof"}
               PROVE  /\ Live(e.udata)'
                      /\ heap'[e.udata].conn = e.fd
                      /\ \A d \in batch' : d.kind \in {"read", "eof"}
                                           /\ d.fd = e.fd => d = e
    BY DEF BatchOwned
  <2>1. e \in batch /\ e.udata \in Addr
    BY DEF IInv, TypeOK, Event
  <2>2. e.udata # a
    BY <1>2, <2>1 DEF IInv, BatchOwned
  <2>3. QED BY <1>4, <2>1, <2>2 DEF IInv, BatchOwned, Live
<1>8. WatchedOwned'
  <2> SUFFICES ASSUME NEW g \in watched'
               PROVE  /\ sock'[g] # NoPeer /\ udata'[g] \in Addr
                      /\ heap'[udata'[g]] # Freed
                      /\ heap'[udata'[g]].conn = g
                      /\ heap'[udata'[g]].owner = sock'[g]
    BY DEF WatchedOwned, Live
  <2>1. CASE g = f
    BY <1>1, <1>3, <1>4, <2>1, PeerAssumption DEF IInv, TypeOK
  <2>2. CASE g # f
    <3>1. g \in watched /\ g \in Fd
      BY <1>1, <2>2, WatchAssumption DEF IInv, TypeOK
    <3>2. sock'[g] = sock[g] /\ udata'[g] = udata[g]
      BY <1>1, <2>2, <3>1 DEF IInv, TypeOK
    <3>3. udata[g] \in Addr /\ udata[g] # a
      BY <1>2, <3>1 DEF IInv, WatchedOwned
    <3>4. QED BY <1>4, <3>1, <3>2, <3>3 DEF IInv, WatchedOwned, Live
  <2>3. QED BY <2>1, <2>2
<1>9. Counted'
  <2>1. a \notin mgr
    BY <1>2 DEF IInv, Listed
  <2>2. QED BY <1>2, <2>1, Allocated, FS_AddElement DEF IInv, Counted
<1>10. QED BY <1>5, <1>6, <1>7, <1>8, <1>9 DEF IInv

\* An accept that leaves no session: no number stays open.
LEMMA AcceptStep ==
  ASSUME IInv, batch' \subseteq batch, Accept
  PROVE  IInv'
<1>1. CASE AcceptFails
  <2>1. TypeOK'
    BY <1>1 DEF AcceptFails, IInv, TypeOK
  <2>2. Listed' /\ BatchOwned' /\ WatchedOwned' /\ Counted'
    BY <1>1, QuietStep DEF AcceptFails, Live
  <2>3. QED BY <2>1, <2>2 DEF IInv
<1>2. CASE \E p \in Peers : Refuse(p)
  <2>1. TypeOK'
    BY <1>2 DEF Refuse, IInv, TypeOK, RemoteState
  <2>2. Listed' /\ BatchOwned' /\ WatchedOwned' /\ Counted'
    BY <1>2, QuietStep DEF Refuse, Live
  <2>3. QED BY <2>1, <2>2 DEF IInv
<1>3. CASE \E p \in Peers, a \in Addr, named \in BOOLEAN : Login(p, a, named)
  BY <1>3, LoginStep
<1>4. ASSUME NEW p \in Peers, LoginUnwatched(p) PROVE IInv'
  <2>1. /\ nextId' = nextId + 1 /\ nextId' \in 0 .. MaxLogins
        /\ remote' = [remote EXCEPT ![p] = "away"]
        /\ UNCHANGED <<sock, watched, udata, heap, mgr, connected,
                       listed>>
    BY <1>4, IdAssumption DEF LoginUnwatched, IInv, TypeOK
  <2>2. view' \in [Peers -> [Ids -> Shown]]
    BY <1>4, TellType DEF LoginUnwatched, IInv, TypeOK, Shown
  <2>3. TypeOK'
    BY <2>1, <2>2 DEF IInv, TypeOK, RemoteState
  <2>4. Listed'
    <3>1. \A a \in mgr : heap[a].born <= nextId + 1
      <4> SUFFICES ASSUME NEW a \in mgr PROVE heap[a].born <= nextId + 1
        OBVIOUS
      <4>1. heap[a].born \in Nat /\ nextId \in Nat
        BY Allocated DEF IInv, TypeOK, Session
      <4>2. QED BY <4>1 DEF IInv, Listed
    <3>2. QED BY <2>1, <3>1 DEF IInv, Listed, Live
  <2>5. BatchOwned' /\ WatchedOwned' /\ Counted'
    BY <2>1 DEF IInv, BatchOwned, WatchedOwned, Counted, Live
  <2>6. QED BY <2>3, <2>4, <2>5 DEF IInv
<1>5. QED BY <1>1, <1>2, <1>3, <1>4 DEF Accept

\* One event of the batch, whatever it is.
LEMMA ServeStep ==
  ASSUME IInv, NEW e \in batch, Serve(e)
  PROVE  IInv'
<1>1. batch' = batch \ {e} /\ batch' \subseteq batch
  BY DEF Serve
<1>2. ASSUME e.kind \in {"read", "eof"}
      PROVE  /\ e.udata \in mgr /\ heap[e.udata].conn = e.fd
             /\ \A d \in batch' : d.kind \in {"read", "eof"} => d.fd # e.fd
  <2>1. Live(e.udata) /\ e.udata \in Addr
    BY <1>2 DEF IInv, BatchOwned, TypeOK, Event
  <2>2. e.udata \in mgr /\ heap[e.udata].conn = e.fd
    BY <1>2, <2>1, Allocated DEF IInv, BatchOwned
  <2>3. QED BY <1>1, <1>2, <2>2 DEF IInv, BatchOwned
<1>3. CASE e.kind = "listen" /\ Accept
  BY <1>1, <1>3, AcceptStep
<1>4. CASE e.kind = "idle" /\ IdleTick
  BY <1>1, <1>4, IdleStep
<1>5. CASE e.kind \in {"read", "eof"} /\ Disconnect(e.udata)
  BY <1>1, <1>2, <1>5, DisconnectStep
<1>6. CASE /\ e.kind = "read" /\ Wire(e.udata) # NoPeer
           /\ Request(e.udata)
  <2>1. e.udata \in mgr
    BY <1>2, <1>6
  <2>2. Wire(e.udata) \in Peers
    BY <1>6, <2>1, Allocated DEF Wire, IInv, TypeOK, Session
  <2>3. CASE \E t \in mgr : Kick(e.udata, t)
    BY <1>1, <2>1, <2>3, KickStep
  <2>4. CASE ~ \E t \in mgr : Kick(e.udata, t)
    BY <1>1, <1>6, <2>1, <2>2, <2>4, RequestStep DEF Request
  <2>5. QED BY <2>3, <2>4
<1>7. QED BY <1>3, <1>4, <1>5, <1>6 DEF Serve, ReadEvent

\* A poll gives each ready descriptor one event for the session it belongs to.
LEMMA PollStep ==
  ASSUME IInv, Poll
  PROVE  IInv'
<1> DEFINE ev(f) == [kind |-> IF remote[sock[f]] = "rst" THEN "eof" ELSE "read",
                     fd |-> f, udata |-> udata[f]]
<1>1. /\ UNCHANGED <<remote, sock, watched, udata, heap, mgr, nextId,
                     connected, listed, view>>
      /\ batch' \subseteq {ev(f) : f \in ReadyFds}
                          \cup {[kind |-> "listen"], [kind |-> "idle"]}
  BY DEF Poll
<1>2. ASSUME NEW f \in ReadyFds
      PROVE  /\ ev(f) \in [kind: {"read", "eof"}, fd: Fd, udata: Addr]
             /\ Live(udata[f]) /\ heap[udata[f]].conn = f
  <2>1. f \in watched /\ f \in Fd
    BY <1>2, WatchAssumption DEF ReadyFds, IInv, TypeOK
  <2>2. QED BY <2>1 DEF IInv, WatchedOwned
<1>3. TypeOK'
  BY <1>1, <1>2 DEF IInv, TypeOK, Event
<1>4. BatchOwned'
  <2>1. ASSUME NEW e \in batch', e.kind \in {"read", "eof"}
        PROVE  \E f \in ReadyFds : e = ev(f)
    BY <1>1, <2>1
  <2>2. ASSUME NEW e \in batch', e.kind \in {"read", "eof"}
        PROVE  /\ heap[e.udata] # Freed /\ heap[e.udata].conn = e.fd
               /\ \A d \in batch' : d.kind \in {"read", "eof"}
                                    /\ d.fd = e.fd => d = e
    <3>1. PICK f \in ReadyFds : e = ev(f)
      BY <2>1, <2>2
    <3>2. e.fd = f /\ e.udata = udata[f]
      BY <3>1
    <3>3. ASSUME NEW d \in batch', d.kind \in {"read", "eof"}, d.fd = e.fd
          PROVE  d = e
      <4>1. PICK g \in ReadyFds : d = ev(g)
        BY <2>1, <3>3
      <4>2. d.fd = g
        BY <4>1
      <4>3. QED BY <3>1, <3>2, <3>3, <4>1, <4>2
    <3>4. QED BY <1>2, <3>2, <3>3 DEF Live
  <2>3. QED BY <1>1, <2>2 DEF BatchOwned, Live
<1>5. Listed' /\ WatchedOwned' /\ Counted'
  BY <1>1 DEF IInv, Listed, WatchedOwned, Counted, Live
<1>6. QED BY <1>3, <1>4, <1>5 DEF IInv

\* The peers change nothing but their own ends of the connections.
LEMMA PeerStepInv ==
  ASSUME IInv, PeerStep
  PROVE  IInv'
<1>1. /\ remote' \in [Peers -> RemoteState]
      /\ UNCHANGED serverVars
  BY DEF IInv, TypeOK, PeerStep, Dial, Send, HangUp, Reset,
         Turn, serverVars, RemoteState
<1>2. TypeOK'
  BY <1>1 DEF IInv, TypeOK, serverVars
<1>3. Listed' /\ BatchOwned' /\ WatchedOwned' /\ Counted'
  BY <1>1, QuietStep DEF serverVars, Live
<1>4. QED BY <1>2, <1>3 DEF IInv

-----------------------------------------------------------------------------
\* IInv is an invariant of the server, for any number of peers, addresses,
\* descriptors and logins of the first id cycle.
THEOREM Inductive == Spec => []IInv
<1>1. Init => IInv
  BY InitIInv
<1>2. IInv /\ [Next]_vars => IInv'
  <2> SUFFICES ASSUME IInv, [Next]_vars PROVE IInv'
    OBVIOUS
  <2>1. CASE Poll
    BY <2>1, PollStep
  <2>2. CASE \E e \in batch : Serve(e)
    BY <2>2, ServeStep
  <2>3. CASE PeerStep
    BY <2>3, PeerStepInv
  <2>4. CASE UNCHANGED vars
    BY <2>4 DEF vars, IInv, TypeOK, Listed, BatchOwned, WatchedOwned, Counted,
                Live
  <2>5. QED BY <2>1, <2>2, <2>3, <2>4 DEF Next, Loop
<1>3. QED BY <1>1, <1>2, PTL DEF Spec

\* Type correctness of the event loop, the client manager and the sessions.
THEOREM TypeCorrect == Spec => []TypeOK
<1>1. IInv => TypeOK
  BY DEF IInv
<1>2. QED BY <1>1, Inductive, PTL

\* The client manager never loses a session, never keeps a freed one, never
\* gives one id to two of them and counts them right.
THEOREM ManagerCorrect == Spec => []ManagerSound
<1>1. IInv => ManagerSound
  <2> SUFFICES ASSUME IInv PROVE ManagerSound
    OBVIOUS
  <2>1. \A a, b \in mgr : Id(a) = Id(b) => a = b
    <3> SUFFICES ASSUME NEW a \in mgr, NEW b \in mgr, Id(a) = Id(b)
                 PROVE  a = b
      OBVIOUS
    <3>1. heap[a].born \in 1 .. IdSpace /\ heap[b].born \in 1 .. IdSpace
      BY Allocated, IdAssumption DEF IInv, Session
    <3>2. QED BY <3>1, IdInjective DEF Id, IInv, Listed
  <2>2. QED BY <2>1 DEF IInv, Listed, Counted, ManagerSound
<1>2. QED BY <1>1, Inductive, PTL

\* No event of a batch is ever served with a session that was freed.
THEOREM NoStaleEvent == Spec => []EventsLive
<1>1. IInv => EventsLive
  BY DEF IInv, BatchOwned, EventsLive
<1>2. QED BY <1>1, Inductive, PTL

\* A watched descriptor is open and wakes the session it was accepted for, the
\* session of the user at its other end.
THEOREM WatchCorrect == Spec => []WatchedOwned
<1>1. IInv => WatchedOwned
  BY DEF IInv
<1>2. QED BY <1>1, Inductive, PTL

-----------------------------------------------------------------------------
(* Events and sessions.                                                    *)

\* The session of a read or hang-up event is in the manager.
LEMMA EventOf ==
  ASSUME IInv, NEW e \in batch, e.kind \in {"read", "eof"}
  PROVE  e.udata \in mgr
<1>1. Live(e.udata) /\ e.udata \in Addr
  BY DEF IInv, BatchOwned, TypeOK, Event
<1>2. QED BY <1>1, Allocated DEF IInv

\* What a request or the timer leaves of a session.
LEMMA WokenOwner ==
  ASSUME IInv, NEW a \in mgr
  PROVE  \A b \in mgr : /\ WakeHeap(a)[b].conn = heap[b].conn
                        /\ WakeHeap(a)[b].owner = heap[b].owner
<1>1. a \in Addr /\ heap[a] \in Session /\ heap \in [Addr -> Session \cup {Freed}]
      /\ \A b \in mgr : b \in Addr
  BY Allocated DEF IInv, TypeOK
<1> DEFINE r == [heap[a] EXCEPT !.away = FALSE]
<1>2. r.conn = heap[a].conn /\ r.owner = heap[a].owner
  BY <1>1 DEF Session
<1>3. \A b \in Addr : WakeHeap(a)[b] = IF b = a THEN r ELSE heap[b]
  BY <1>1 DEF WakeHeap
<1> HIDE DEF r
<1>4. QED BY <1>1, <1>2, <1>3

-----------------------------------------------------------------------------
(* The displayed lists.                                                    *)

\* A listed peer is connected: whoever dials displays nothing yet.
Present == \A p \in listed : remote[p] \notin {"away", "dialing"}

VInv == Present /\ ViewsAgree

\* The id of a session is an id, and no other session's.
LEMMA IdsDiffer ==
  ASSUME IInv
  PROVE  /\ \A a \in mgr : Id(a) \in Ids
         /\ \A a, b \in mgr : Id(a) = Id(b) => a = b
<1>1. \A a \in mgr : heap[a].born \in 1 .. IdSpace /\ heap[a].born \in Nat
  BY Allocated, IdAssumption DEF IInv, Session
<1>2. \A a \in mgr : Id(a) \in Ids
  BY <1>1, IdRange DEF Id
<1>3. \A a, b \in mgr : Id(a) = Id(b) => a = b
  BY <1>1, IdInjective DEF Id, IInv, Listed
<1>4. QED BY <1>2, <1>3

\* A connected user is told what is said about any other session.
LEMMA Heard ==
  ASSUME IInv, NEW p \in Peers, NEW b \in mgr, NEW c \in mgr, b # c,
         Serves(b, p)
  PROVE  p \in Hearers(c)
BY IdsDiffer, PeerAssumption DEF Hearers, Serves

LEMMA TellAt ==
  ASSUME NEW v \in [Peers -> [Ids -> Shown]], NEW S, NEW i \in Ids,
         NEW s \in Shown, NEW p \in Peers, NEW j \in Ids
  PROVE  Tell(v, S, i, s)[p][j] = IF p \in S \cap listed /\ j = i THEN s
                                  ELSE v[p][j]
BY DEF Tell

\* Steps that leave the manager's list alone.
LEMMA ViewStep ==
  ASSUME IInv, ViewsAgree, mgr' = mgr, \A c \in mgr : Id(c)' = Id(c),
         \A p \in listed', b, c \in mgr :
           Serves(b, p)' /\ c # b =>
             \/ view'[p][Id(c)] = Status(c)'
             \/ /\ p \in listed /\ Serves(b, p)
                /\ view'[p][Id(c)] = view[p][Id(c)]
                /\ Status(c)' = Status(c) /\ heap'[c].told = heap[c].told,
         \A p \in listed', b \in mgr, i \in Ids :
           Serves(b, p)' /\ view'[p][i] # "absent" =>
             \/ \E c \in mgr : Id(c) = i
             \/ p \in listed /\ Serves(b, p) /\ view[p][i] # "absent"
  PROVE  ViewsAgree'
<1>1. ASSUME NEW p \in listed', NEW a \in mgr, Serves(a, p)', NEW i \in Ids
      PROVE  /\ \A b \in mgr \ {a} : Id(b)' = i =>
                  \/ view'[p][i] = Status(b)'
                  \/ view'[p][i] = "absent" /\ ~heap'[b].told
             /\ view'[p][i] # "absent" => \E b \in mgr : Id(b)' = i
  <2>1. ASSUME NEW b \in mgr \ {a}, Id(b) = i
        PROVE  \/ view'[p][i] = Status(b)'
               \/ view'[p][i] = "absent" /\ ~heap'[b].told
    <3>1. CASE view'[p][i] = Status(b)'
      BY <3>1
    <3>2. CASE /\ p \in listed /\ Serves(a, p)
               /\ view'[p][i] = view[p][i]
               /\ Status(b)' = Status(b) /\ heap'[b].told = heap[b].told
      <4>1. \/ view[p][i] = Status(b)
            \/ view[p][i] = "absent" /\ ~heap[b].told
        BY <2>1, <3>2 DEF ViewsAgree
      <4>2. QED BY <3>2, <4>1
    <3>3. QED BY <1>1, <2>1, <3>1, <3>2
  <2>2. ASSUME view'[p][i] # "absent"
        PROVE  \E b \in mgr : Id(b) = i
    BY <1>1, <2>2 DEF ViewsAgree
  <2>3. QED BY <2>1, <2>2
<1>2. QED BY <1>1 DEF ViewsAgree

\* What waking a session leaves of any session, and what is said of it.
LEMMA WokenSession ==
  ASSUME IInv, NEW a \in mgr
  PROVE  \A c \in mgr :
           /\ WakeHeap(a)[c] \in Session
           /\ WakeHeap(a)[c].born = heap[c].born
           /\ WakeHeap(a)[c].told = heap[c].told
           /\ WakeHeap(a)[c].away = IF c = a THEN FALSE ELSE heap[c].away
<1>1. a \in Addr /\ heap[a] \in Session /\ heap \in [Addr -> Session \cup {Freed}]
      /\ \A b \in mgr : b \in Addr /\ heap[b] \in Session
  BY Allocated DEF IInv, TypeOK
<1> DEFINE r == [heap[a] EXCEPT !.away = FALSE]
<1>2. /\ r \in Session /\ r.born = heap[a].born /\ r.told = heap[a].told
      /\ r.away = FALSE
  BY <1>1 DEF Session
<1>3. \A b \in Addr : WakeHeap(a)[b] = IF b = a THEN r ELSE heap[b]
  BY <1>1 DEF WakeHeap
<1> HIDE DEF r
<1>4. QED BY <1>1, <1>2, <1>3

LEMMA WokenView ==
  ASSUME IInv, NEW a \in mgr, NEW p \in Peers, p \in listed, NEW b \in mgr,
         Serves(b, p)
  PROVE  /\ \A c \in mgr \ {b} :
              Woken(a)[p][Id(c)] = IF c = a /\ heap[a].away THEN "here"
                                   ELSE view[p][Id(c)]
         /\ \A i \in Ids : Woken(a)[p][i] # "absent" =>
              view[p][i] # "absent" \/ i = Id(a)
<1>1. view \in [Peers -> [Ids -> Shown]] /\ "here" \in Shown
  BY DEF IInv, TypeOK, Shown
<1>2. Id(a) \in Ids /\ \A c \in mgr : Id(c) \in Ids /\ (Id(c) = Id(a) => c = a)
  BY IdsDiffer
<1>3. \A j \in Ids : Woken(a)[p][j] = IF /\ heap[a].away
                                         /\ p \in Hearers(a) \cap listed
                                         /\ j = Id(a)
                                      THEN "here" ELSE view[p][j]
  BY <1>1, <1>2, TellAt DEF Woken
<1>4. ASSUME NEW c \in mgr \ {b}
      PROVE  Woken(a)[p][Id(c)] = IF c = a /\ heap[a].away THEN "here"
                                  ELSE view[p][Id(c)]
  <2>1. c = a => p \in Hearers(a)
    BY Heard
  <2>2. QED BY <1>2, <1>3, <2>1
<1>5. QED BY <1>3, <1>4

\* A user whom a request wakes is shown present by whoever is connected.
LEMMA WokenKeeps ==
  ASSUME IInv, ViewsAgree, NEW a \in mgr, mgr' = mgr,
         listed' \subseteq listed,
         \A p \in listed' : view'[p] = Woken(a)[p],
         \A p \in listed', b \in mgr : Serves(b, p)' => Serves(b, p),
         \A c \in mgr : /\ heap'[c].born = heap[c].born
                        /\ heap'[c].told = heap[c].told
                        /\ heap'[c].away = WakeHeap(a)[c].away
  PROVE  ViewsAgree'
<1>1. \A c \in mgr : Id(c)' = Id(c)
  BY DEF Id
<1>2. listed \subseteq Peers
  BY DEF IInv, TypeOK
<1>3. ASSUME NEW p \in listed', NEW b \in mgr, NEW c \in mgr,
             Serves(b, p)', c # b
      PROVE  \/ view'[p][Id(c)] = Status(c)'
             \/ /\ p \in listed /\ Serves(b, p)
                /\ view'[p][Id(c)] = view[p][Id(c)]
                /\ Status(c)' = Status(c) /\ heap'[c].told = heap[c].told
  <2>1. p \in listed /\ p \in Peers /\ Serves(b, p)
    BY <1>2, <1>3
  <2>2. view'[p][Id(c)] = IF c = a /\ heap[a].away THEN "here"
                          ELSE view[p][Id(c)]
    BY <1>3, <2>1, WokenView
  <2>3. heap'[c].away = IF c = a THEN FALSE ELSE heap[c].away
    BY WokenSession
  <2>4. CASE c = a /\ heap[a].away
    BY <2>2, <2>3, <2>4 DEF Status
  <2>5. CASE ~(c = a /\ heap[a].away)
    <3>1. heap[c].away \in BOOLEAN
      BY Allocated DEF IInv, Session
    <3>2. heap'[c].away = heap[c].away
      BY <2>3, <2>5, <3>1
    <3>3. Status(c)' = Status(c)
      BY <3>2 DEF Status
    <3>4. QED BY <2>1, <2>2, <2>5, <3>3
  <2>6. QED BY <2>4, <2>5
<1>4. ASSUME NEW p \in listed', NEW b \in mgr, NEW i \in Ids,
             Serves(b, p)', view'[p][i] # "absent"
      PROVE  \/ \E c \in mgr : Id(c) = i
             \/ p \in listed /\ Serves(b, p) /\ view[p][i] # "absent"
  <2>1. p \in listed /\ p \in Peers /\ Serves(b, p)
    BY <1>2, <1>4
  <2>2. view[p][i] # "absent" \/ i = Id(a)
    BY <1>4, <2>1, WokenView
  <2>3. QED BY <2>1, <2>2
<1>5. QED BY <1>1, <1>3, <1>4, ViewStep

LEMMA ViewQuiet ==
  ASSUME ViewsAgree, UNCHANGED <<sock, heap, mgr, listed, view>>
  PROVE  ViewsAgree'
BY DEF ViewsAgree, Serves, Wire, Status, Id

\* The user list a session asks for shows the manager's sessions as they are.
LEMMA ListView ==
  ASSUME IInv, ViewsAgree, NEW a \in mgr, Wire(a) \in Peers, GetUserNameList(a)
  PROVE  ViewsAgree'
<1> DEFINE q == Wire(a)
           fresh == [i \in Ids |->
                       IF \E b \in mgr : Id(b) = i
                       THEN IF \E b \in mgr \ {a} : Id(b) = i /\ heap[b].away
                            THEN "idle" ELSE "here"
                       ELSE "absent"]
<1>1. /\ heap' = WakeHeap(a) /\ listed' = listed \cup {q}
      /\ UNCHANGED <<sock, mgr>>
  BY DEF GetUserNameList
<1>2. view' = [Woken(a) EXCEPT ![q] = fresh]
  BY DEF GetUserNameList
<1>3. Woken(a) \in [Peers -> [Ids -> Shown]]
  BY WakeStep
<1>4. \A p \in Peers : view'[p] = IF p = q THEN fresh ELSE Woken(a)[p]
  BY <1>2, <1>3
<1>5. \A c \in mgr : /\ heap'[c].born = heap[c].born
                     /\ heap'[c].told = heap[c].told
                     /\ heap'[c].away = IF c = a THEN FALSE ELSE heap[c].away
  BY <1>1, WokenSession
<1>6. \A p, b : b \in mgr /\ Serves(b, p)' => Serves(b, p)
  <2>1. \A b \in mgr : heap'[b].owner = heap[b].owner /\ heap'[b].conn = heap[b].conn
    BY <1>1, WokenOwner
  <2>2. QED BY <1>1, <2>1 DEF Serves, Wire
<1>7. \A c \in mgr : Id(c)' = Id(c)
  BY <1>5 DEF Id
<1>8. \A c \in mgr : fresh[Id(c)] = Status(c)'
  <2> SUFFICES ASSUME NEW c \in mgr PROVE fresh[Id(c)] = Status(c)'
    OBVIOUS
  <2>1. Id(c) \in Ids /\ \A b \in mgr : Id(b) = Id(c) => b = c
    BY IdsDiffer
  <2>2. heap'[c].away <=> c # a /\ heap[c].away
    BY <1>5
  <2>3. fresh[Id(c)] = IF c # a /\ heap[c].away THEN "idle" ELSE "here"
    BY <2>1
  <2>4. QED BY <2>2, <2>3 DEF Status
<1>9. \A i \in Ids : fresh[i] # "absent" => \E b \in mgr : Id(b) = i
  OBVIOUS
<1> HIDE DEF q, fresh
<1>10. ASSUME NEW p \in listed', NEW b \in mgr, NEW c \in mgr,
              Serves(b, p)', c # b
       PROVE  \/ view'[p][Id(c)] = Status(c)'
              \/ /\ p \in listed /\ Serves(b, p)
                 /\ view'[p][Id(c)] = view[p][Id(c)]
                 /\ Status(c)' = Status(c) /\ heap'[c].told = heap[c].told
  <2>1. p \in Peers /\ Serves(b, p)
    BY <1>1, <1>6, <1>10 DEF IInv, TypeOK, q
  <2>2. CASE p = q
    BY <1>4, <1>8, <2>1, <2>2
  <2>3. CASE p # q
    <3>1. p \in listed
      BY <1>1, <1>10, <2>3
    <3>2. view'[p][Id(c)] = IF c = a /\ heap[a].away THEN "here"
                            ELSE view[p][Id(c)]
      BY <1>4, <1>10, <2>1, <2>3, <3>1, WokenView
    <3>3. CASE c = a /\ heap[a].away
      BY <1>5, <3>2, <3>3 DEF Status
    <3>4. CASE ~(c = a /\ heap[a].away)
      <4>1. heap[c].away \in BOOLEAN
        BY Allocated DEF IInv, Session
      <4>2. heap'[c].away = heap[c].away
        BY <1>5, <3>4, <4>1
      <4>3. Status(c)' = Status(c)
        BY <4>2 DEF Status
      <4>4. QED BY <1>5, <2>1, <3>1, <3>2, <3>4, <4>3
    <3>5. QED BY <3>3, <3>4
  <2>4. QED BY <2>2, <2>3
<1>11. ASSUME NEW p \in listed', NEW b \in mgr, NEW i \in Ids,
              Serves(b, p)', view'[p][i] # "absent"
       PROVE  \/ \E c \in mgr : Id(c) = i
              \/ p \in listed /\ Serves(b, p) /\ view[p][i] # "absent"
  <2>1. p \in Peers /\ Serves(b, p)
    BY <1>1, <1>6, <1>11 DEF IInv, TypeOK, q
  <2>2. CASE p = q
    BY <1>4, <1>9, <1>11, <2>1, <2>2
  <2>3. CASE p # q
    <3>1. p \in listed
      BY <1>1, <1>11, <2>3
    <3>2. Woken(a)[p][i] # "absent"
      BY <1>4, <1>11, <2>1, <2>3
    <3>3. view[p][i] # "absent" \/ i = Id(a)
      BY <2>1, <3>1, <3>2, WokenView
    <3>4. QED BY <2>1, <3>1, <3>3
  <2>4. QED BY <2>2, <2>3
<1>12. QED BY <1>1, <1>7, <1>10, <1>11, ViewStep

\* A session that says who it is.
LEMMA InfoView ==
  ASSUME IInv, ViewsAgree, NEW a \in mgr, SetUserInfo(a)
  PROVE  ViewsAgree'
<1> DEFINE r == [heap[a] EXCEPT !.away = FALSE, !.told = TRUE]
<1>1. a \in Addr /\ heap[a] \in Session /\ heap \in [Addr -> Session \cup {Freed}]
      /\ \A b \in mgr : b \in Addr
  BY Allocated DEF IInv, TypeOK
<1>2. heap' = [heap EXCEPT ![a] = r]
  BY <1>1 DEF SetUserInfo
<1>3. /\ r.conn = heap[a].conn /\ r.owner = heap[a].owner
      /\ r.born = heap[a].born /\ r.away = FALSE
  BY <1>1 DEF Session
<1>4. \A b \in mgr : heap'[b] = IF b = a THEN r ELSE heap[b]
  BY <1>1, <1>2
<1> HIDE DEF r
<1>5. /\ view' = Tell(view, Hearers(a), Id(a), "here")
      /\ UNCHANGED <<sock, mgr, listed>>
  BY DEF SetUserInfo
<1>6. \A p, b : b \in mgr /\ Serves(b, p)' => Serves(b, p)
  BY <1>3, <1>4, <1>5 DEF Serves, Wire
<1>7. \A c \in mgr : Id(c)' = Id(c)
  BY <1>3, <1>4 DEF Id
<1>8. \A p \in listed, j \in Ids :
        view'[p][j] = IF p \in Hearers(a) /\ j = Id(a) THEN "here"
                      ELSE view[p][j]
  <2>1. view \in [Peers -> [Ids -> Shown]] /\ "here" \in Shown /\ Id(a) \in Ids
        /\ listed \subseteq Peers
    BY IdsDiffer DEF IInv, TypeOK, Shown
  <2>2. QED BY <1>5, <2>1, TellAt
<1>9. Status(a)' = "here" /\ \A c \in mgr \ {a} : Status(c)' = Status(c)
                                                  /\ heap'[c].told = heap[c].told
  BY <1>3, <1>4 DEF Status
<1>10. ASSUME NEW p \in listed', NEW b \in mgr, NEW c \in mgr,
              Serves(b, p)', c # b
       PROVE  \/ view'[p][Id(c)] = Status(c)'
              \/ /\ p \in listed /\ Serves(b, p)
                 /\ view'[p][Id(c)] = view[p][Id(c)]
                 /\ Status(c)' = Status(c) /\ heap'[c].told = heap[c].told
  <2>1. p \in listed /\ p \in Peers /\ Serves(b, p)
    BY <1>5, <1>6, <1>10 DEF IInv, TypeOK
  <2>2. p \in Hearers(c)
    BY <1>10, <2>1, Heard
  <2>3. Id(c) \in Ids /\ (Id(c) = Id(a) => c = a)
    BY IdsDiffer
  <2>4. QED BY <1>8, <1>9, <2>1, <2>2, <2>3
<1>11. ASSUME NEW p \in listed', NEW b \in mgr, NEW i \in Ids,
              Serves(b, p)', view'[p][i] # "absent"
       PROVE  \/ \E c \in mgr : Id(c) = i
              \/ p \in listed /\ Serves(b, p) /\ view[p][i] # "absent"
  BY <1>5, <1>6, <1>8, <1>11
<1>12. QED BY <1>5, <1>7, <1>10, <1>11, ViewStep

\* A kick closes the kicked user's connection and wakes the one who kicks.
LEMMA KickView ==
  ASSUME IInv, ViewsAgree, NEW a \in mgr, NEW t \in mgr, Kick(a, t)
  PROVE  ViewsAgree'
<1> DEFINE f == heap[t].fd
           w == WakeHeap(a)
           r == [w[t] EXCEPT !.fd = NoFd]
<1>1. /\ sock' = [sock EXCEPT ![f] = NoPeer]
      /\ listed' = listed \ {sock[f]}
      /\ view' = ClosedView(Woken(a), f)
      /\ UNCHANGED mgr
  BY DEF Kick
<1>2. t \in Addr /\ w \in [Addr -> Session \cup {Freed}] /\ w[t] \in Session
      /\ \A c \in mgr : c \in Addr /\ heap[c] \in Session
  BY WakeStep, WokenSession, Allocated DEF IInv
<1>3. heap' = [w EXCEPT ![t] = r]
  BY <1>2 DEF Kick
<1>4. /\ r.conn = w[t].conn /\ r.owner = w[t].owner /\ r.born = w[t].born
      /\ r.away = w[t].away /\ r.told = w[t].told
  BY <1>2 DEF Session
<1>5. \A c \in Addr : heap'[c] = IF c = t THEN r ELSE w[c]
  BY <1>2, <1>3
<1> HIDE DEF r
<1>6. \A c \in mgr : /\ heap'[c].conn = heap[c].conn
                     /\ heap'[c].owner = heap[c].owner
                     /\ heap'[c].born = heap[c].born
                     /\ heap'[c].told = heap[c].told
                     /\ heap'[c].away = w[c].away
  <2>1. \A c \in mgr : /\ w[c].conn = heap[c].conn
                       /\ w[c].owner = heap[c].owner
    BY WokenOwner
  <2>2. \A c \in mgr : /\ w[c].born = heap[c].born
                       /\ w[c].told = heap[c].told
    BY WokenSession
  <2> HIDE DEF w
  <2>3. QED BY <1>2, <1>4, <1>5, <2>1, <2>2
<1>7. listed \subseteq Peers /\ sock \in [Fd -> Peers \cup {NoPeer}]
  BY DEF IInv, TypeOK
<1>8. \A p \in listed' : view'[p] = Woken(a)[p]
  BY <1>1, <1>7 DEF ClosedView
<1>9. ASSUME NEW p \in listed', NEW b \in mgr, Serves(b, p)'
      PROVE  Serves(b, p)
  <2>1. heap[b].owner = p /\ sock'[heap[b].conn] = p /\ heap[b].conn \in Fd
    BY <1>2, <1>6, <1>9 DEF Serves, Wire, Session
  <2>2. p # NoPeer
    BY <1>1, <1>7, PeerAssumption
  <2>3. sock[heap[b].conn] = p
    BY <1>1, <1>7, <2>1, <2>2
  <2>4. QED BY <2>1, <2>3 DEF Serves, Wire
<1>10. listed' \subseteq listed
  BY <1>1
<1> HIDE DEF w
<1>11. QED BY <1>1, <1>6, <1>8, <1>9, <1>10, WokenKeeps DEF w

LEMMA IdleView ==
  ASSUME IInv, ViewsAgree, IdleTick
  PROVE  ViewsAgree'
<1>1. PICK S \in SUBSET {a \in mgr : ~heap[a].away} :
        /\ heap' = [a \in Addr |-> IF a \in S
                                   THEN [heap[a] EXCEPT !.away = TRUE,
                                                        !.told = TRUE]
                                   ELSE heap[a]]
        /\ view' = [p \in Peers |->
                      [i \in Ids |->
                         IF p \in listed /\ \E a \in S : Id(a) = i
                                                      /\ p \in Hearers(a)
                         THEN "idle" ELSE view[p][i]]]
        /\ UNCHANGED <<sock, mgr, listed>>
  BY DEF IdleTick
<1>2. \A c \in mgr : c \in Addr /\ heap[c] \in Session
  BY Allocated DEF IInv
<1>3. ASSUME NEW c \in mgr
      PROVE  /\ heap'[c].conn = heap[c].conn /\ heap'[c].owner = heap[c].owner
             /\ heap'[c].born = heap[c].born
             /\ c \in S => heap'[c].away = TRUE
             /\ c \notin S => heap'[c] = heap[c]
  <2> DEFINE r == [heap[c] EXCEPT !.away = TRUE, !.told = TRUE]
  <2>1. /\ r.conn = heap[c].conn /\ r.owner = heap[c].owner
        /\ r.born = heap[c].born /\ r.away = TRUE
    BY <1>2 DEF Session
  <2>2. heap'[c] = IF c \in S THEN r ELSE heap[c]
    BY <1>1, <1>2
  <2> HIDE DEF r
  <2>3. QED BY <2>1, <2>2
<1>4. \A c \in mgr : Id(c)' = Id(c)
  BY <1>3 DEF Id
<1>5. \A p, b : b \in mgr /\ Serves(b, p)' => Serves(b, p)
  BY <1>1, <1>3 DEF Serves, Wire
<1>6. /\ \A c \in S : Status(c)' = "idle"
      /\ \A c \in mgr \ S : Status(c)' = Status(c)
                            /\ heap'[c].told = heap[c].told
  BY <1>3 DEF Status
<1>7. S \subseteq mgr /\ listed \subseteq Peers
  BY DEF IInv, TypeOK
<1>8. \A p \in listed, i \in Ids :
        view'[p][i] = IF \E a \in S : Id(a) = i /\ p \in Hearers(a)
                      THEN "idle" ELSE view[p][i]
  BY <1>1, <1>7
<1>9. ASSUME NEW p \in listed', NEW b \in mgr, NEW c \in mgr,
             Serves(b, p)', c # b
      PROVE  \/ view'[p][Id(c)] = Status(c)'
             \/ /\ p \in listed /\ Serves(b, p)
                /\ view'[p][Id(c)] = view[p][Id(c)]
                /\ Status(c)' = Status(c) /\ heap'[c].told = heap[c].told
  <2>1. p \in listed /\ p \in Peers /\ Serves(b, p)
    BY <1>1, <1>5, <1>7, <1>9
  <2>2. p \in Hearers(c)
    BY <1>9, <2>1, Heard
  <2>3. Id(c) \in Ids /\ \A d \in mgr : Id(d) = Id(c) => d = c
    BY IdsDiffer
  <2>4. CASE c \in S
    BY <1>6, <1>8, <2>1, <2>2, <2>3, <2>4
  <2>5. CASE c \notin S
    <3>1. ~ \E d \in S : Id(d) = Id(c) /\ p \in Hearers(d)
      BY <1>7, <2>3, <2>5
    <3>2. view'[p][Id(c)] = view[p][Id(c)]
      BY <1>8, <2>1, <2>3, <3>1
    <3>3. QED BY <1>6, <2>1, <2>5, <3>2
  <2>6. QED BY <2>4, <2>5
<1>10. ASSUME NEW p \in listed', NEW b \in mgr, NEW i \in Ids,
              Serves(b, p)', view'[p][i] # "absent"
       PROVE  \/ \E c \in mgr : Id(c) = i
              \/ p \in listed /\ Serves(b, p) /\ view[p][i] # "absent"
  <2>1. p \in listed /\ Serves(b, p)
    BY <1>1, <1>5, <1>10
  <2>2. QED BY <1>7, <1>8, <1>10, <2>1
<1>11. QED BY <1>1, <1>4, <1>9, <1>10, ViewStep

\* A disconnect takes one session out of every list but the one it closes.
LEMMA DisconnectView ==
  ASSUME IInv, ViewsAgree, NEW a \in mgr, Disconnect(a)
  PROVE  ViewsAgree'
<1> DEFINE f == heap[a].conn
           hearers == Hearers(a) \ {sock[f]}
           v == Tell(view, hearers, Id(a), "absent")
<1>1. /\ sock' = [sock EXCEPT ![f] = NoPeer]
      /\ listed' = listed \ {sock[f]}
      /\ mgr' = mgr \ {a}
      /\ heap' = [heap EXCEPT ![a] = Freed]
  BY DEF Disconnect, Close
<1>2. view' = ClosedView(v, f)
  BY DEF Disconnect
<1>3. /\ heap \in [Addr -> Session \cup {Freed}]
      /\ sock \in [Fd -> Peers \cup {NoPeer}] /\ listed \subseteq Peers
      /\ \A c \in mgr : c \in Addr /\ heap[c] \in Session
      /\ view \in [Peers -> [Ids -> Shown]] /\ "absent" \in Shown
  BY Allocated DEF IInv, TypeOK, Shown
<1>4. Id(a) \in Ids /\ \A c \in mgr : Id(c) \in Ids /\ (Id(c) = Id(a) => c = a)
  BY IdsDiffer
<1>5. \A c \in mgr' : c \in mgr /\ c # a /\ heap'[c] = heap[c]
  BY <1>1, <1>3
<1>6. ASSUME NEW p \in listed'
      PROVE  /\ p \in listed /\ p \in Peers /\ p # sock[f]
             /\ view'[p] = v[p]
             /\ \A b \in mgr' : Serves(b, p)' => Serves(b, p)
  <2>1. p \in listed /\ p \in Peers /\ p # sock[f] /\ p # NoPeer
    BY <1>1, <1>3, PeerAssumption
  <2>2. view'[p] = v[p]
    BY <1>2, <2>1 DEF ClosedView
  <2>3. ASSUME NEW b \in mgr', Serves(b, p)'
        PROVE  Serves(b, p)
    <3>1. /\ heap[b].owner = p /\ sock'[heap[b].conn] = p
          /\ heap[b].conn \in Fd
      BY <1>3, <1>5, <2>3 DEF Serves, Wire, Session
    <3>2. sock[heap[b].conn] = p
      BY <1>1, <1>3, <2>1, <3>1
    <3>3. QED BY <3>1, <3>2 DEF Serves, Wire
  <2>4. QED BY <2>1, <2>2, <2>3
<1> HIDE DEF f
<1>7. ASSUME NEW p \in listed', NEW b \in mgr', Serves(b, p)'
      PROVE  \A i \in Ids : view'[p][i] = IF i = Id(a) THEN "absent"
                                          ELSE view[p][i]
  <2>1. p \in hearers
    BY <1>5, <1>6, <1>7, Heard
  <2>2. \A i \in Ids : v[p][i] = IF p \in hearers \cap listed /\ i = Id(a)
                                 THEN "absent" ELSE view[p][i]
    BY <1>3, <1>4, <1>6, TellAt
  <2> HIDE DEF v, hearers
  <2>3. QED BY <1>6, <1>7, <2>1, <2>2
<1> HIDE DEF v, hearers
<1>8. ASSUME NEW p \in listed', NEW b \in mgr', Serves(b, p)', NEW i \in Ids
      PROVE  /\ \A c \in mgr' \ {b} : Id(c)' = i =>
                  \/ view'[p][i] = Status(c)'
                  \/ view'[p][i] = "absent" /\ ~heap'[c].told
             /\ view'[p][i] # "absent" => \E c \in mgr' : Id(c)' = i
  <2>1. p \in listed /\ Serves(b, p) /\ b \in mgr
    BY <1>5, <1>6, <1>8
  <2>2. \A c \in mgr' : Id(c)' = Id(c) /\ Status(c)' = Status(c)
    BY <1>5 DEF Id, Status
  <2>3. view'[p][i] = IF i = Id(a) THEN "absent" ELSE view[p][i]
    BY <1>7, <1>8
  <2>4. ASSUME NEW c \in mgr' \ {b}, Id(c)' = i
        PROVE  \/ view'[p][i] = Status(c)'
               \/ view'[p][i] = "absent" /\ ~heap'[c].told
    <3>1. c \in mgr /\ c # a /\ Id(c) = i /\ heap'[c] = heap[c]
      BY <1>5, <2>2, <2>4
    <3>2. view'[p][i] = view[p][i]
      BY <1>4, <2>3, <3>1
    <3>3. \/ view[p][i] = Status(c)
          \/ view[p][i] = "absent" /\ ~heap[c].told
      BY <1>8, <2>1, <2>4, <3>1 DEF ViewsAgree
    <3>4. QED BY <2>2, <2>4, <3>1, <3>2, <3>3
  <2>5. ASSUME view'[p][i] # "absent"
        PROVE  \E c \in mgr' : Id(c)' = i
    <3>1. i # Id(a) /\ view[p][i] # "absent"
      BY <2>3, <2>5
    <3>2. PICK c \in mgr : Id(c) = i
      BY <1>8, <2>1, <3>1 DEF ViewsAgree
    <3>3. c \in mgr'
      BY <1>1, <3>1, <3>2
    <3>4. QED BY <2>2, <3>2, <3>3
  <2>6. QED BY <2>4, <2>5
<1>9. QED BY <1>8 DEF ViewsAgree

\* The next id is nobody's.
LEMMA NextIdNew ==
  ASSUME IInv, nextId < MaxLogins
  PROVE  /\ (nextId + 1) % IdSpace \in Ids
         /\ \A c \in mgr : Id(c) # (nextId + 1) % IdSpace
<1>1. nextId \in Nat /\ nextId + 1 \in 1 .. IdSpace
  BY IdAssumption DEF IInv, TypeOK
<1>2. (nextId + 1) % IdSpace \in Ids
  BY <1>1, IdRange
<1>3. ASSUME NEW c \in mgr
      PROVE  Id(c) # (nextId + 1) % IdSpace
  <2>1. heap[c].born \in 1 .. IdSpace /\ heap[c].born <= nextId
    BY Allocated, IdAssumption DEF IInv, Session, Listed
  <2>2. heap[c].born # nextId + 1
    BY <1>1, <2>1
  <2>3. QED BY <1>1, <2>1, <2>2, IdInjective DEF Id
<1>4. QED BY <1>2, <1>3

\* A login lists nobody new; whoever displays a list
\* learns of the new user at once or not at all, as its announcement is made.
LEMMA LoginView ==
  ASSUME IInv, VInv, NEW p \in Peers, NEW a \in Addr, NEW named \in BOOLEAN,
         remote[p] = "dialing", Login(p, a, named)
  PROVE  ViewsAgree'
<1> DEFINE id == (nextId + 1) % IdSpace
           hearers == {Wire(b) : b \in mgr} \ {NoPeer}
<1>1. PICK f \in Fd :
        /\ sock[f] = NoPeer
        /\ sock' = [sock EXCEPT ![f] = p]
        /\ heap' = [heap EXCEPT ![a] =
                      [fd |-> f, conn |-> f, away |-> FALSE, born |-> nextId + 1,
                       owner |-> p, told |-> named]]
        /\ view' = IF named THEN Tell(view, hearers, id, "here") ELSE view
  BY Zenon DEF Login, LowestFree
<1>2. /\ ~Live(a) /\ nextId < MaxLogins /\ mgr' = mgr \cup {a}
      /\ listed' = listed
  BY DEF Login
<1>3. a \notin mgr /\ \A b \in mgr : b \in Addr /\ heap[b] \in Session
  BY <1>2, Allocated DEF IInv, Listed
<1> DEFINE r == [fd |-> f, conn |-> f, away |-> FALSE, born |-> nextId + 1,
                 owner |-> p, told |-> named]
<1>4. r.conn = f /\ r.owner = p /\ r.born = nextId + 1 /\ r.away = FALSE
      /\ r.told = named
  OBVIOUS
<1>5. \A b \in Addr : heap'[b] = IF b = a THEN r ELSE heap[b]
  BY <1>1 DEF IInv, TypeOK
<1> HIDE DEF r
<1>6. \A g \in Fd : sock'[g] = IF g = f THEN p ELSE sock[g]
  BY <1>1 DEF IInv, TypeOK
<1>7. listed \subseteq Peers /\ view \in [Peers -> [Ids -> Shown]]
      /\ "here" \in Shown
  BY DEF IInv, TypeOK, Shown
<1>8. id \in Ids /\ \A c \in mgr : Id(c) # id /\ Id(c) \in Ids
  BY <1>2, NextIdNew, IdsDiffer
<1>9. Id(a)' = id /\ Status(a)' = "here" /\ heap'[a].told = named
      /\ heap'[a].owner = p
  BY <1>4, <1>5 DEF Id, Status
<1>10. \A c \in mgr : /\ c # a /\ heap'[c] = heap[c]
                      /\ Id(c)' = Id(c) /\ Status(c)' = Status(c)
  BY <1>3, <1>5 DEF Id, Status
<1>11. p \notin listed
  BY DEF VInv, Present
<1>12. ASSUME NEW q \in listed, NEW b \in mgr', Serves(b, q)'
       PROVE  b \in mgr /\ Serves(b, q) /\ q # p /\ q \in hearers
  <2>1. q # p /\ q \in Peers /\ q # NoPeer
    BY <1>7, <1>11, PeerAssumption
  <2>2. b \in mgr
    BY <1>2, <1>9, <1>12, <2>1 DEF Serves
  <2>3. heap[b].owner = q /\ sock'[heap[b].conn] = q /\ heap[b].conn \in Fd
    BY <1>3, <1>10, <1>12, <2>2 DEF Serves, Wire, Session
  <2>4. sock[heap[b].conn] = q
    BY <1>6, <2>1, <2>3
  <2>5. QED BY <2>1, <2>2, <2>3, <2>4 DEF Serves, Wire
<1>13. \A q \in listed, i \in Ids :
         view'[q][i] = IF named /\ q \in hearers /\ i = id THEN "here"
                       ELSE view[q][i]
  BY <1>1, <1>7, <1>8, TellAt
<1> HIDE DEF id, hearers
<1>14. ASSUME NEW q \in listed', NEW b \in mgr', Serves(b, q)', NEW i \in Ids
       PROVE  /\ \A c \in mgr' \ {b} : Id(c)' = i =>
                   \/ view'[q][i] = Status(c)'
                   \/ view'[q][i] = "absent" /\ ~heap'[c].told
              /\ view'[q][i] # "absent" => \E c \in mgr' : Id(c)' = i
  <2>1. q \in listed /\ b \in mgr /\ Serves(b, q) /\ q \in hearers
    BY <1>2, <1>12, <1>14
  <2>2. view'[q][i] = IF named /\ i = id THEN "here" ELSE view[q][i]
    BY <1>13, <1>14, <2>1
  <2>3. view[q][i] # "absent" => \E c \in mgr : Id(c) = i
    BY <1>14, <2>1 DEF VInv, ViewsAgree
  <2>4. ASSUME NEW c \in mgr' \ {b}, Id(c)' = i
        PROVE  \/ view'[q][i] = Status(c)'
               \/ view'[q][i] = "absent" /\ ~heap'[c].told
    <3>1. CASE c = a
      <4>1. i = id /\ view[q][i] = "absent"
        BY <1>8, <1>9, <2>3, <2>4, <3>1
      <4>2. QED BY <1>9, <2>2, <3>1, <4>1
    <3>2. CASE c # a
      <4>1. c \in mgr /\ Id(c) = i /\ heap'[c] = heap[c]
            /\ Status(c)' = Status(c)
        BY <1>2, <1>10, <2>4, <3>2
      <4>2. view'[q][i] = view[q][i]
        BY <1>8, <2>2, <4>1
      <4>3. \/ view[q][i] = Status(c)
            \/ view[q][i] = "absent" /\ ~heap[c].told
        BY <1>14, <2>1, <2>4, <4>1 DEF VInv, ViewsAgree
      <4>4. QED BY <4>1, <4>2, <4>3
    <3>3. QED BY <3>1, <3>2
  <2>5. ASSUME view'[q][i] # "absent"
        PROVE  \E c \in mgr' : Id(c)' = i
    <3>1. CASE i = id
      BY <1>2, <1>9, <3>1
    <3>2. CASE i # id
      <4>1. PICK c \in mgr : Id(c) = i
        BY <2>2, <2>3, <2>5, <3>2
      <4>2. QED BY <1>2, <1>10, <4>1
    <3>3. QED BY <3>1, <3>2
  <2>6. QED BY <2>4, <2>5
<1>15. QED BY <1>14 DEF ViewsAgree

\* A user who could not be kept is taken back from lists that never had it.
LEMMA UnwatchedView ==
  ASSUME IInv, ViewsAgree, NEW p \in Peers, LoginUnwatched(p)
  PROVE  ViewsAgree'
<1> DEFINE id == (nextId + 1) % IdSpace
           hearers == {Wire(b) : b \in mgr}
<1>1. /\ view' = Tell(view, hearers, id, "absent") /\ nextId < MaxLogins
      /\ UNCHANGED <<sock, heap, mgr, listed>>
  BY DEF LoginUnwatched
<1>2. listed \subseteq Peers /\ view \in [Peers -> [Ids -> Shown]]
      /\ "absent" \in Shown
  BY DEF IInv, TypeOK, Shown
<1>3. id \in Ids /\ \A c \in mgr : Id(c) # id /\ Id(c) \in Ids
  BY <1>1, NextIdNew, IdsDiffer
<1>4. \A q \in listed, i \in Ids :
        view'[q][i] = IF q \in hearers /\ i = id THEN "absent"
                      ELSE view[q][i]
  BY <1>1, <1>2, <1>3, TellAt
<1>5. \A q, b : Serves(b, q)' <=> Serves(b, q)
  BY <1>1 DEF Serves, Wire
<1>6. \A c \in mgr : /\ Id(c)' = Id(c) /\ Status(c)' = Status(c)
                     /\ heap'[c].told = heap[c].told
  BY <1>1 DEF Id, Status
<1> HIDE DEF id, hearers
<1>7. QED BY <1>1, <1>3, <1>4, <1>5, <1>6, ViewStep

LEMMA ServeView ==
  ASSUME IInv, VInv, NEW e \in batch, Serve(e)
  PROVE  ViewsAgree'
<1> USE DEF VInv
<1>1. CASE e.kind = "listen" /\ Accept
  <2>1. CASE AcceptFails \/ \E p \in Peers : Refuse(p)
    BY <2>1, ViewQuiet DEF AcceptFails, Refuse
  <2>2. CASE \E p \in Peers : /\ remote[p] = "dialing"
                              /\ \E a \in Addr, named \in BOOLEAN :
                                   Login(p, a, named)
    BY <2>2, LoginView
  <2>3. CASE \E p \in Peers : LoginUnwatched(p)
    BY <2>3, UnwatchedView
  <2>4. QED BY <1>1, <2>1, <2>2, <2>3 DEF Accept
<1>2. CASE e.kind = "idle" /\ IdleTick
  BY <1>2, IdleView
<1>3. CASE e.kind \in {"read", "eof"} /\ Disconnect(e.udata)
  BY <1>3, EventOf, DisconnectView
<1>4. CASE /\ e.kind = "read" /\ Wire(e.udata) # NoPeer
           /\ Request(e.udata)
  <2> DEFINE a == e.udata
  <2>1. a \in mgr
    BY <1>4, EventOf
  <2>2. Wire(a) \in Peers
    BY <1>4, <2>1, Allocated DEF Wire, IInv, TypeOK, Session
  <2> HIDE DEF a
  <2>3. CASE KeepAlive(a)
    BY <2>3, ViewQuiet DEF KeepAlive
  <2>4. CASE GetUserNameList(a)
    BY <2>1, <2>2, <2>4, ListView
  <2>5. CASE SetUserInfo(a)
    BY <2>1, <2>5, InfoView
  <2>6. CASE KickRefused(a)
    <3>1. /\ heap' = WakeHeap(a) /\ view' = Woken(a)
          /\ UNCHANGED <<sock, mgr, listed>>
      BY <2>6 DEF KickRefused
    <3>2. \A p, b : b \in mgr /\ Serves(b, p)' => Serves(b, p)
      BY <2>1, <3>1, WokenOwner DEF Serves, Wire
    <3>3. QED BY <2>1, <3>1, <3>2, WokenSession, WokenKeeps
  <2>7. CASE \E t \in mgr : Kick(a, t)
    BY <2>1, <2>7, KickView
  <2>8. QED BY <1>4, <2>3, <2>4, <2>5, <2>6, <2>7 DEF Request, a
<1>5. QED BY <1>1, <1>2, <1>3, <1>4 DEF Serve, ReadEvent

\* Requests leave the connection they were read from idle.
LEMMA RequestPresent ==
  ASSUME IInv, Present, NEW a \in mgr, Wire(a) \in Peers, Request(a)
  PROVE  Present'
<1>1. remote \in [Peers -> RemoteState] /\ listed \subseteq Peers
  BY DEF IInv, TypeOK
<1>2. CASE \E t \in mgr : Kick(a, t)
  <2>1. PICK f : /\ remote' = [p \in Peers |-> IF p = sock[f] THEN "away"
                                              ELSE IF p = Wire(a) THEN "idle"
                                              ELSE remote[p]]
                 /\ listed' = listed \ {sock[f]}
    BY <1>2 DEF Kick
  <2>2. QED BY <1>1, <2>1 DEF Present
<1>3. CASE ~ \E t \in mgr : Kick(a, t)
  <2>1. /\ remote' = [remote EXCEPT ![Wire(a)] = "idle"]
        /\ listed' \subseteq listed \cup {Wire(a)}
    BY <1>3 DEF Request, KeepAlive, GetUserNameList, SetUserInfo, KickRefused,
                Consume
  <2>2. QED BY <1>1, <2>1 DEF Present
<1>4. QED BY <1>2, <1>3

LEMMA ServePresent ==
  ASSUME IInv, Present, NEW e \in batch, Serve(e)
  PROVE  Present'
<1>1. remote \in [Peers -> RemoteState] /\ listed \subseteq Peers
  BY DEF IInv, TypeOK
<1>2. CASE e.kind = "listen" /\ Accept
  <2>1. CASE AcceptFails
    BY <2>1 DEF AcceptFails, Present
  <2>2. CASE \E p \in Peers : /\ remote[p] = "dialing"
                              /\ \/ Refuse(p)
                                 \/ \E a \in Addr, named \in BOOLEAN :
                                      Login(p, a, named)
                                 \/ LoginUnwatched(p)
    <3>1. PICK p \in Peers : /\ remote[p] = "dialing" /\ listed' = listed
                             /\ \/ remote' = [remote EXCEPT ![p] = "away"]
                                \/ remote' = [remote EXCEPT ![p] = "idle"]
      BY <2>2 DEF Refuse, Login, LoginUnwatched
    <3>2. QED BY <1>1, <3>1 DEF Present
  <2>3. QED BY <1>2, <2>1, <2>2 DEF Accept
<1>3. CASE e.kind = "idle" /\ IdleTick
  BY <1>3 DEF IdleTick, Present
<1>4. CASE e.kind \in {"read", "eof"} /\ Disconnect(e.udata)
  <2>1. PICK f : /\ remote' = [p \in Peers |-> IF p = sock[f] THEN "away"
                                              ELSE remote[p]]
                 /\ listed' = listed \ {sock[f]}
    BY <1>4 DEF Disconnect, Close
  <2>2. QED BY <1>1, <2>1 DEF Present
<1>5. CASE /\ e.kind = "read" /\ Wire(e.udata) # NoPeer
           /\ Request(e.udata)
  <2>1. e.udata \in mgr
    BY <1>5, EventOf
  <2>2. Wire(e.udata) \in Peers
    BY <1>5, <2>1, Allocated DEF Wire, IInv, TypeOK, Session
  <2>3. QED BY <1>5, <2>1, <2>2, RequestPresent
<1>6. QED BY <1>2, <1>3, <1>4, <1>5 DEF Serve, ReadEvent

LEMMA NextViews ==
  ASSUME IInv, VInv, [Next]_vars
  PROVE  VInv'
<1> USE DEF VInv
<1>1. CASE \E e \in batch : Serve(e)
  BY <1>1, ServeView, ServePresent
<1>2. CASE Poll \/ UNCHANGED vars
  <2>1. Present'
    BY <1>2 DEF Poll, vars, Present
  <2>2. ViewsAgree'
    BY <1>2, ViewQuiet DEF Poll, vars
  <2>3. QED BY <2>1, <2>2
<1>3. CASE PeerStep
  <2>1. UNCHANGED serverVars
    BY <1>3 DEF PeerStep, Dial, Send, HangUp, Reset, Turn
  <2>2. Present'
    <3>1. remote \in [Peers -> RemoteState] /\ listed \subseteq Peers
          /\ listed' = listed
      BY <2>1 DEF IInv, TypeOK, serverVars
    <3>2. CASE \E p \in Peers : /\ remote[p] = "away"
                                /\ remote' = [remote EXCEPT ![p] = "dialing"]
      BY <3>1, <3>2 DEF Present
    <3>3. CASE remote' = remote
      BY <3>1, <3>3 DEF Present
    <3>4. CASE \E p \in Peers, s \in {"sending", "fin", "rst"} :
                 remote' = [remote EXCEPT ![p] = s]
      BY <3>1, <3>4 DEF Present
    <3>5. QED
      BY <1>3, <3>2, <3>3, <3>4
      DEF PeerStep, Dial, Send, HangUp, Reset, Turn
  <2>3. ViewsAgree'
    BY <2>1, ViewQuiet DEF serverVars
  <2>4. QED BY <2>2, <2>3
<1>4. QED BY <1>1, <1>2, <1>3 DEF Next, Loop

\* Whoever displays a user list displays every other announced session of the
\* client manager with the status the server has, and nobody the manager does
\* not list, for any order of logins, requests, timers, kicks, reuses of a
\* descriptor and disconnects.  A kicked user is still listed.
THEOREM ViewsFollow == Spec => []ViewsAgree
<1>1. Init => VInv
  BY DEF Init, VInv, Present, ViewsAgree
<1>2. IInv /\ VInv /\ [Next]_vars => VInv'
  BY NextViews
<1>3. VInv => ViewsAgree
  BY DEF VInv
<1>4. QED BY <1>1, <1>2, <1>3, Inductive, PTL DEF Spec
-----------------------------------------------------------------------------
(***************************************************************************)
(* The session layer implements the table of users that the components     *)
(* above it rely on: every step of Sessions is a step of Users or none.    *)
(***************************************************************************)

\* A step that frees and allocates nothing leaves the table of users alone.
LEMMA SameUsers ==
  ASSUME UNCHANGED nextId,
         \A a \in Addr : /\ Live(a)' <=> Live(a)
                         /\ Live(a) => heap'[a].born = heap[a].born
  PROVE  UNCHANGED <<uids, nextId>>
  BY DEF uids, Id

\* Requests change the away flag, and a kick one descriptor, of sessions.
LEMMA RequestUsers ==
  ASSUME IInv, NEW a \in mgr, Request(a)
  PROVE  UNCHANGED <<uids, nextId>>
<1>1. a \in Addr /\ heap[a] \in Session
  BY Allocated DEF IInv
<1>2. CASE KeepAlive(a)
  BY <1>2, SameUsers DEF KeepAlive, Live
<1>3. CASE GetUserNameList(a) \/ KickRefused(a)
  <2>1. heap' = WakeHeap(a) /\ UNCHANGED nextId
    BY <1>3 DEF GetUserNameList, KickRefused
  <2>2. QED BY <2>1, WakeStep, SameUsers DEF Live
<1>4. CASE SetUserInfo(a)
  <2> DEFINE r == [heap[a] EXCEPT !.away = FALSE, !.told = TRUE]
  <2>1. r \in Session /\ r.born = heap[a].born
    BY <1>1 DEF Session
  <2>2. heap' = [heap EXCEPT ![a] = r] /\ UNCHANGED nextId
    BY <1>4 DEF SetUserInfo
  <2> HIDE DEF r
  <2>3. ASSUME NEW b \in Addr
        PROVE  /\ Live(b)' <=> Live(b)
               /\ Live(b) => heap'[b].born = heap[b].born
    <3>1. heap'[b] = IF b = a THEN r ELSE heap[b]
      BY <2>2 DEF IInv, TypeOK
    <3>2. QED BY <1>1, <2>1, <3>1, FreedAssumption DEF Live
  <2>4. QED BY <2>2, <2>3, SameUsers
<1>5. CASE \E t \in mgr : Kick(a, t)
  <2>1. PICK t \in mgr : Kick(a, t)
    BY <1>5
  <2>2. t \in Addr /\ heap[t] \in Session
    BY Allocated DEF IInv
  <2> DEFINE w == WakeHeap(a)
  <2>3. /\ w \in [Addr -> Session \cup {Freed}]
        /\ \A b \in Addr : /\ Live(b) <=> w[b] # Freed
                           /\ Live(b) => w[b].born = heap[b].born
    BY WakeStep
  <2>4. heap' = [w EXCEPT ![t] = [w[t] EXCEPT !.fd = NoFd]] /\ UNCHANGED nextId
    BY <2>1 DEF Kick
  <2> HIDE DEF w
  <2>5. w[t] \in Session
    BY <2>2, <2>3, FreedAssumption DEF Live
  <2> DEFINE r == [w[t] EXCEPT !.fd = NoFd]
  <2>6. r \in Session /\ r.born = w[t].born
    BY <2>5 DEF Session
  <2>7. heap' = [w EXCEPT ![t] = r]
    BY <2>4
  <2> HIDE DEF r
  <2>8. ASSUME NEW b \in Addr
        PROVE  /\ Live(b)' <=> Live(b)
               /\ Live(b) => heap'[b].born = heap[b].born
    <3>1. heap'[b] = IF b = t THEN r ELSE w[b]
      BY <2>3, <2>7
    <3>2. QED BY <2>2, <2>3, <2>6, <3>1, FreedAssumption DEF Live
  <2>9. QED BY <2>4, <2>8, SameUsers
<1>6. QED BY <1>2, <1>3, <1>4, <1>5 DEF Request

\* The away timer sets flags of sessions.
LEMMA IdleUsers ==
  ASSUME IInv, IdleTick
  PROVE  UNCHANGED <<uids, nextId>>
<1>1. PICK S \in SUBSET {a \in mgr : ~heap[a].away} :
        /\ heap' = [a \in Addr |-> IF a \in S
                                   THEN [heap[a] EXCEPT !.away = TRUE,
                                                        !.told = TRUE]
                                   ELSE heap[a]]
        /\ UNCHANGED nextId
  BY DEF IdleTick
<1>2. ASSUME NEW a \in Addr
      PROVE  /\ Live(a)' <=> Live(a)
             /\ Live(a) => heap'[a].born = heap[a].born
  <2>1. CASE a \in S
    <3> DEFINE r == [heap[a] EXCEPT !.away = TRUE, !.told = TRUE]
    <3>1. heap[a] \in Session
      BY <2>1, Allocated DEF IInv
    <3>2. r \in Session /\ r.born = heap[a].born
      BY <3>1 DEF Session
    <3>3. heap'[a] = r
      BY <1>1, <2>1
    <3> HIDE DEF r
    <3>4. QED BY <3>1, <3>2, <3>3, FreedAssumption DEF Live
  <2>2. CASE a \notin S
    BY <1>1, <2>2 DEF Live
  <2>3. QED BY <2>1, <2>2
<1>3. QED BY <1>1, <1>2, SameUsers

\* A disconnect is a logout of its session.
LEMMA DisconnectUsers ==
  ASSUME IInv, NEW a \in Addr, Live(a), Disconnect(a)
  PROVE  Registry!LogOut(a)
<1>1. heap' = [heap EXCEPT ![a] = Freed] /\ UNCHANGED nextId
  BY DEF Disconnect
<1>2. heap[a] \in Session /\ heap[a].born \in Nat
  BY Allocated, IdAssumption DEF IInv, Session
<1>3. uids[a] # -1
  BY <1>2, IdAssumption DEF uids, Id
<1>4. uids' = [uids EXCEPT ![a] = -1]
  BY <1>1 DEF uids, Id, Live, IInv, TypeOK
<1>5. QED BY <1>1, <1>3, <1>4 DEF Registry!LogOut, Registry!LoggedIn

\* An accepted connection is refused, logs in, or wastes an id.
LEMMA AcceptUsers ==
  ASSUME IInv, Accept
  PROVE  Registry!UsersNext \/ UNCHANGED <<uids, nextId>>
<1>1. CASE AcceptFails \/ \E p \in Peers : Refuse(p)
  BY <1>1, SameUsers DEF AcceptFails, Refuse, Live
<1>2. CASE \E p \in Peers, a \in Addr, named \in BOOLEAN : Login(p, a, named)
  <2>1. PICK p \in Peers, a \in Addr, named \in BOOLEAN : Login(p, a, named)
    BY <1>2
  <2>2. PICK f \in Fd :
          heap' = [heap EXCEPT ![a] = [fd |-> f, conn |-> f, away |-> FALSE,
                                       born |-> nextId + 1, owner |-> p,
                                       told |-> named]]
    BY <2>1 DEF Login
  <2>3. /\ ~Live(a) /\ nextId < MaxLogins /\ nextId' = nextId + 1
    BY <2>1 DEF Login
  <2> DEFINE r == [fd |-> f, conn |-> f, away |-> FALSE, born |-> nextId + 1,
                   owner |-> p, told |-> named]
  <2>4. r \in Session /\ r.born = nextId + 1
    BY <2>3, IdAssumption DEF Session, IInv, TypeOK
  <2>5. heap' = [heap EXCEPT ![a] = r]
    BY <2>2
  <2> HIDE DEF r
  <2>6. uids' = [uids EXCEPT ![a] = (nextId + 1) % IdSpace]
    BY <2>4, <2>5, FreedAssumption DEF uids, Id, Live, IInv, TypeOK
  <2>7. Registry!LogIn(a)
    BY <2>3, <2>6 DEF Registry!LogIn, Registry!LoggedIn, uids
  <2>8. QED BY <2>7 DEF Registry!UsersNext
<1>3. CASE \E p \in Peers : LoginUnwatched(p)
  <2>1. /\ nextId < MaxLogins /\ nextId' = nextId + 1 /\ UNCHANGED heap
    BY <1>3 DEF LoginUnwatched
  <2>2. UNCHANGED uids
    BY <2>1 DEF uids, Id, Live
  <2>3. QED BY <2>1, <2>2 DEF Registry!UsersNext, Registry!LogInWasted
<1>4. QED BY <1>1, <1>2, <1>3 DEF Accept

\* Every step of the session layer is a step of the table of users or none.
LEMMA StepUsers ==
  ASSUME IInv, [Next]_vars
  PROVE  [Registry!UsersNext]_(Registry!userVars)
<1>1. CASE Poll \/ PeerStep \/ UNCHANGED vars
  <2>1. UNCHANGED <<heap, nextId>>
    BY <1>1 DEF Poll, PeerStep, vars, Dial, Send, HangUp, Reset,
                Turn, serverVars
  <2>2. QED BY <2>1, SameUsers DEF Live, Registry!userVars
<1>2. CASE \E e \in batch : Serve(e)
  <2>1. PICK e \in batch : Serve(e)
    BY <1>2
  <2>2. CASE Accept
    BY <2>2, AcceptUsers DEF Registry!userVars
  <2>3. CASE IdleTick
    BY <2>3, IdleUsers DEF Registry!userVars
  <2>4. CASE e.kind \in {"read", "eof"} /\ Disconnect(e.udata)
    <3>1. e.udata \in Addr /\ Live(e.udata)
      BY <2>4 DEF IInv, TypeOK, Event, BatchOwned
    <3>2. Registry!LogOut(e.udata)
      BY <2>4, <3>1, DisconnectUsers
    <3>3. QED BY <3>1, <3>2 DEF Registry!UsersNext
  <2>5. CASE e.kind = "read" /\ Request(e.udata)
    <3>1. e.udata \in mgr
      BY <2>5, Allocated DEF IInv, TypeOK, Event, BatchOwned
    <3>2. QED BY <2>5, <3>1, RequestUsers DEF Registry!userVars
  <2>6. QED BY <2>1, <2>2, <2>3, <2>4, <2>5 DEF Serve, ReadEvent
<1>3. QED BY <1>1, <1>2 DEF Next, Loop

\* The session layer implements the table of users: above it, logins and
\* logouts are atomic, under ids of their own.
THEOREM UsersImplemented == Spec => ImplementsUsers
<1>1. Init => Registry!UsersInit
  BY DEF Init, Registry!UsersInit, uids, Live
<1>2. IInv /\ [Next]_vars => [Registry!UsersNext]_(Registry!userVars)
  BY StepUsers
<1>3. QED BY <1>1, <1>2, Inductive, PTL
             DEF Spec, ImplementsUsers, Registry!UsersSpec
=============================================================================
