------------------------------ MODULE Sessions ------------------------------
(***************************************************************************)
(* The session layer of the Hotline server: the event loop of              *)
(* hotline/server.c, the client manager (hotline/client_manager.c), the    *)
(* epoll back end (hotline/platform/event_epoll.c) and the transaction     *)
(* handlers that change who is connected or what the others are told.      *)
(*                                                                         *)
(* The server is one thread.  It polls a BATCH of ready descriptors and    *)
(* serves the batch one event at a time; the session pointer (udata) of    *)
(* an event is looked up when the batch is polled, so an event may be      *)
(* served after an earlier event of the same batch has closed its          *)
(* descriptor, or has even let accept() reuse the number.  Descriptors are *)
(* therefore numbers (Fd, always the lowest free one), sessions are heap   *)
(* addresses (Addr, any free one), and neither is the TCP connection       *)
(* itself, which is identified by the peer at its other end (Peers).       *)
(***************************************************************************)
EXTENDS Integers, FiniteSets

CONSTANTS
    Peers,       \* remote hosts; each has at most one connection at a time
    Addr,        \* heap addresses an hl_client_conn_t can have
    Fd,          \* descriptor numbers accept() can return
    Watchable,   \* those below MAX_FDS, which the event loop can register
    IdSpace,     \* number of client ids (2^16 in the code)
    MaxLogins,   \* bound: logins of one run of the server
    Admins,      \* peers whose account has ACCESS_DISCON_USER
    Protected,   \* peers whose account has ACCESS_CANNOT_BE_DISCON
    NoPeer, NoFd, NoAddr, Freed

ASSUME FdAssumption == Fd \subseteq Nat /\ IsFiniteSet(Fd) /\ NoFd \notin Fd
ASSUME WatchAssumption == Watchable \subseteq Fd
ASSUME AddrAssumption == IsFiniteSet(Addr) /\ NoAddr \notin Addr
ASSUME PeerAssumption ==
    NoPeer \notin Peers /\ Admins \cup Protected \subseteq Peers
\* The first cycle of ids: the runs stop before a client id is given twice.
ASSUME IdAssumption ==
    /\ IdSpace \in Nat \ {0} /\ MaxLogins \in Nat
    /\ MaxLogins <= IdSpace

VARIABLES
    remote,   \* [Peers -> RemoteState], the other end of each connection
    sock,     \* [Fd -> Peers \cup {NoPeer}], the process's descriptor table
    watched,  \* descriptors in the epoll interest list
    udata,    \* [Fd -> Addr \cup {NoAddr}], loop->udata
    batch,    \* events of the current poll not served yet
    heap,     \* [Addr -> Session \cup {Freed}]
    mgr,      \* addresses in the client manager's list
    nextId,   \* mgr->next_id
    connected,\* HL_STAT_CURRENTLY_CONNECTED
    listed,   \* peers that have received a user list on this connection
    view      \* [Peers -> [Ids -> Shown]], the user list each peer displays

vars == <<remote, sock, watched, udata, batch, heap, mgr, nextId,
          connected, listed, view>>

-----------------------------------------------------------------------------
RemoteState ==
    {"away",     \* no connection
     "dialing",  \* in the listen backlog
     "idle",     \* connected, nothing unread
     "sending",  \* connected, a transaction unread
     "fin",      \* sent FIN: the descriptor is readable, read() returns 0
     "rst"}      \* reset: epoll reports EPOLLHUP or EPOLLERR

Ids == 0 .. IdSpace - 1
Shown == {"absent", "here", "idle"}     \* idle: the away flag is set

Session ==
    [fd: Fd \cup {NoFd},     \* cc->fd
     conn: Fd,               \* the number cc->conn wraps
     away: BOOLEAN,          \* HL_USER_FLAG_AWAY
     born: 1 .. MaxLogins,   \* value of next_id at login; its id is derived
     owner: Peers,           \* who logged in (selects the account)
     told: BOOLEAN]          \* the others have been sent a user-change

ASSUME FreedAssumption == Freed \notin Session

Event == [kind: {"read", "eof"}, fd: Fd, udata: Addr]
         \cup {[kind |-> "listen"], [kind |-> "idle"]}

Live(a) == heap[a] # Freed
\* Mutant: only the low byte of the id is kept (here, its low bit).
IdNarrow(a) == heap[a].born % 2
Id(a) == heap[a].born % IdSpace
Wire(a) == sock[heap[a].conn]            \* who reads what a's session writes
Status(a) == IF heap[a].away THEN "idle" ELSE "here"

\* hl_server_broadcast: everybody in the list whose id is not the sender's.
Hearers(a) == {Wire(b) : b \in {c \in mgr : Id(c) # Id(a)}} \ {NoPeer}

\* What the peers in S display once they are told that user i is now s.
Tell(v, S, i, s) ==
    [p \in Peers |-> IF p \in S \cap listed THEN [v[p] EXCEPT ![i] = s]
                                            ELSE v[p]]

Blank == [i \in Ids |-> "absent"]

\* Mutant: the descriptor is closed but stays in the interest list.
CloseKeepsWatch(f) ==
    /\ sock' = [sock EXCEPT ![f] = NoPeer]
    /\ watched' = watched
    /\ remote' = [p \in Peers |-> IF p = sock[f] THEN "away" ELSE remote[p]]
    /\ listed' = listed \ {sock[f]}

\* close(f): the number becomes free, epoll forgets it, the peer sees EOF.
Close(f) ==
    /\ sock' = [sock EXCEPT ![f] = NoPeer]
    /\ watched' = watched \ {f}
    /\ remote' = [p \in Peers |-> IF p = sock[f] THEN "away" ELSE remote[p]]
    /\ listed' = listed \ {sock[f]}

\* What is displayed after a close of f: the closed peer displays nothing.
ClosedView(v, f) == [p \in Peers |-> IF p = sock[f] THEN Blank ELSE v[p]]

-----------------------------------------------------------------------------
Init ==
    /\ remote = [p \in Peers |-> "away"]
    /\ sock = [f \in Fd |-> NoPeer]
    /\ watched = {}
    /\ udata = [f \in Fd |-> NoAddr]
    /\ batch = {}
    /\ heap = [a \in Addr |-> Freed]
    /\ mgr = {}
    /\ nextId = 0
    /\ connected = 0
    /\ listed = {}
    /\ view = [p \in Peers |-> Blank]

-----------------------------------------------------------------------------
(* The peers.  *)

serverVars == <<sock, watched, udata, batch, heap, mgr, nextId, connected,
                listed, view>>

Turn(p, from, to) ==
    /\ remote[p] \in from
    /\ remote' = [remote EXCEPT ![p] = to]
    /\ UNCHANGED serverVars

Dial(p) == Turn(p, {"away"}, "dialing")
Send(p) == Turn(p, {"idle"}, "sending")
HangUp(p) == Turn(p, {"idle"}, "fin")
Reset(p) == Turn(p, {"idle", "sending", "fin"}, "rst")

-----------------------------------------------------------------------------
(* The event loop: hl_event_poll translates every ready descriptor.        *)

ReadyFds == {f \in watched : remote[sock[f]] \in {"sending", "fin", "rst"}}

Poll ==
    /\ batch = {}
    /\ \E tick \in BOOLEAN :
         batch' = {[kind |-> IF remote[sock[f]] = "rst" THEN "eof" ELSE "read",
                    fd |-> f, udata |-> udata[f]] : f \in ReadyFds}
                  \cup (IF \E p \in Peers : remote[p] = "dialing"
                        THEN {[kind |-> "listen"]} ELSE {})
                  \cup (IF tick THEN {[kind |-> "idle"]} ELSE {})
    /\ batch' # {}
    /\ UNCHANGED <<remote, sock, watched, udata, heap, mgr, nextId,
                   connected, listed, view>>

\* disconnect_client.  The explicit hl_event_remove_fd uses cc->fd, which a
\* kick has set to -1; the close uses the number held by cc->conn.
Disconnect(a) ==
    LET f == heap[a].conn
        hearers == Hearers(a) \ {sock[f]}
    IN  /\ Close(f)
        /\ udata' = [g \in Fd |-> IF g = heap[a].fd THEN NoAddr ELSE udata[g]]
        /\ view' = ClosedView(Tell(view, hearers, Id(a), "absent"), f)
        /\ mgr' = mgr \ {a}
        /\ connected' = connected - 1
        /\ heap' = [heap EXCEPT ![a] = Freed]
        /\ UNCHANGED nextId

-----------------------------------------------------------------------------
(* Accepting a connection: handle_new_connection, which runs to its end    *)
(* before the loop goes on.                                                *)

LowestFree(f) ==
    /\ sock[f] = NoPeer
    /\ \A g \in Fd : sock[g] = NoPeer => f <= g

\* accept() fails, for want of a descriptor or of memory; the connection stays
\* in the backlog.
AcceptFails ==
    UNCHANGED <<remote, sock, watched, udata, heap, mgr, nextId,
                   connected, listed, view>>

\* Banned, rate limited, handshake or login refused, or out of memory.
Refuse(p) ==
    /\ \E f \in Fd : LowestFree(f)
    /\ remote' = [remote EXCEPT ![p] = "away"]
    /\ UNCHANGED <<sock, watched, udata, heap, mgr, nextId,
                   connected, listed, view>>

\* The login succeeds.  A name in the login makes the server announce the
\* user at once; otherwise that waits for TRAN_AGREED.
Login(p, a, named) ==
    /\ ~Live(a) /\ nextId < MaxLogins
    /\ \E f \in Fd :
         /\ LowestFree(f)
         /\ LET hearers == {Wire(b) : b \in mgr} \ {NoPeer}
                id == (nextId + 1) % IdSpace
            IN  /\ f \in Watchable
                /\ sock' = [sock EXCEPT ![f] = p]
                /\ watched' = watched \cup {f}
                /\ udata' = [udata EXCEPT ![f] = a]
                /\ heap' = [heap EXCEPT ![a] =
                              [fd |-> f, conn |-> f, away |-> FALSE,
                               born |-> nextId + 1, owner |-> p,
                               told |-> named]]
                /\ view' = IF named THEN Tell(view, hearers, id, "here")
                                    ELSE view
    /\ mgr' = mgr \cup {a}
    /\ nextId' = nextId + 1
    /\ connected' = connected + 1
    /\ remote' = [remote EXCEPT ![p] = "idle"]
    /\ UNCHANGED listed

\* The login succeeds on a descriptor the event loop cannot register: the
\* new session, possibly already announced, is disconnected on the spot.
LoginUnwatched(p) ==
    /\ nextId < MaxLogins
    /\ \E a \in Addr : ~Live(a)
    /\ \E f \in Fd : LowestFree(f) /\ f \notin Watchable
    /\ view' = Tell(view, {Wire(b) : b \in mgr}, (nextId + 1) % IdSpace,
                    "absent")
    /\ nextId' = nextId + 1
    /\ remote' = [remote EXCEPT ![p] = "away"]
    /\ UNCHANGED <<sock, watched, udata, heap, mgr, connected, listed>>

Accept ==
    \/ AcceptFails
    \/ \E p \in Peers :
         /\ remote[p] = "dialing"
         /\ \/ Refuse(p)
            \/ \E a \in Addr, named \in BOOLEAN : Login(p, a, named)
            \/ LoginUnwatched(p)

-----------------------------------------------------------------------------
(* process_client_data: a transaction read from the socket behind          *)
(* cc->conn is served with the rights and the identity of the session cc.  *)

\* Mutant: the away flag is cleared without a broadcast.
WokenSilently(a) == view
\* Any transaction but a keepalive clears the away flag and says so.
Woken(a) == IF heap[a].away THEN Tell(view, Hearers(a), Id(a), "here")
                            ELSE view
WakeHeap(a) == [heap EXCEPT ![a].away = FALSE]

Consume(a) == remote' = [remote EXCEPT ![Wire(a)] = "idle"]

KeepAlive(a) ==
    /\ Consume(a)
    /\ UNCHANGED <<sock, watched, udata, heap, mgr, nextId,
                   connected, listed, view>>

\* TRAN_GET_USER_NAME_LIST: the reply replaces what the reader displays.
GetUserNameList(a) ==
    /\ Consume(a)
    /\ heap' = WakeHeap(a)
    /\ listed' = listed \cup {Wire(a)}
    /\ view' = [Woken(a) EXCEPT ![Wire(a)] =
                  [i \in Ids |->
                     IF \E b \in mgr : Id(b) = i
                     THEN IF \E b \in mgr \ {a} : Id(b) = i /\ heap[b].away
                          THEN "idle" ELSE "here"
                     ELSE "absent"]]
    /\ UNCHANGED <<sock, watched, udata, mgr, nextId, connected>>

\* TRAN_AGREED and TRAN_SET_CLIENT_USER_INFO broadcast the user's profile.
SetUserInfo(a) ==
    /\ Consume(a)
    /\ heap' = [heap EXCEPT ![a].away = FALSE, ![a].told = TRUE]
    /\ view' = Tell(view, Hearers(a), Id(a), "here")
    /\ UNCHANGED <<sock, watched, udata, mgr, nextId, connected,
                   listed>>

\* TRAN_DISCONNECT_USER by a session without the right, of an unknown id, of
\* a protected user or of one already kicked: nothing but the wake-up.
KickRefused(a) ==
    /\ \/ heap[a].owner \notin Admins
       \/ \E i \in Ids : \A t \in mgr : Id(t) # i
       \/ \E t \in mgr : heap[t].owner \in Protected \/ heap[t].fd = NoFd
    /\ Consume(a)
    /\ heap' = WakeHeap(a)
    /\ view' = Woken(a)
    /\ UNCHANGED <<sock, watched, udata, mgr, nextId, connected,
                   listed>>

\* handle_disconnect_user: the target's descriptor is closed and forgotten;
\* its list entry, its cc->conn and loop->udata stay as they are.
Kick(a, t) ==
    LET f == heap[t].fd
        reader == Wire(a)
    IN  /\ heap[a].owner \in Admins
        /\ heap[t].owner \notin Protected
        /\ f # NoFd
        /\ sock' = [sock EXCEPT ![f] = NoPeer]
        /\ watched' = watched \ {f}
        /\ remote' = [p \in Peers |-> IF p = sock[f] THEN "away"
                                      ELSE IF p = reader THEN "idle"
                                      ELSE remote[p]]
        /\ listed' = listed \ {sock[f]}
        /\ view' = ClosedView(Woken(a), f)
        /\ heap' = [WakeHeap(a) EXCEPT ![t].fd = NoFd]
        /\ UNCHANGED <<udata, mgr, nextId, connected>>

Request(a) ==
    \/ KeepAlive(a)
    \/ GetUserNameList(a)
    \/ SetUserInfo(a)
    \/ KickRefused(a)
    \/ \E t \in mgr : Kick(a, t)

\* A read that returns 0 or fails because the number is closed, a full buffer
\* and a sealed frame that does not open, all disconnect the session.
\* If another peer's connection has taken the number, it is that peer's data
\* that is read; if there is none yet, the whole server waits for it.
ReadEvent(a) ==
    \/ Wire(a) = NoPeer /\ Disconnect(a)
    \/ /\ Wire(a) # NoPeer
       /\ remote[Wire(a)] \in {"fin", "rst", "sending"}
       /\ Disconnect(a)
    \/ Wire(a) # NoPeer /\ remote[Wire(a)] = "sending" /\ Request(a)

\* Mutant: the idle timer disconnects a session, within the batch.
IdleTickDisconnects == \E a \in mgr : Disconnect(a)

\* The idle timer: some sessions (those idle for over five minutes) are
\* flagged away, each with a broadcast.
IdleTick ==
    \E S \in SUBSET {a \in mgr : ~heap[a].away} :
      /\ heap' = [a \in Addr |-> IF a \in S
                                 THEN [heap[a] EXCEPT !.away = TRUE,
                                                      !.told = TRUE]
                                 ELSE heap[a]]
      /\ view' = [p \in Peers |->
                    [i \in Ids |->
                       IF p \in listed /\ \E a \in S : Id(a) = i
                                                    /\ p \in Hearers(a)
                       THEN "idle" ELSE view[p][i]]]
      /\ UNCHANGED <<remote, sock, watched, udata, mgr, nextId,
                     connected, listed>>

Serve(e) ==
    /\ batch' = batch \ {e}
    /\ \/ e.kind = "listen" /\ Accept
       \/ e.kind = "idle" /\ IdleTick
       \/ e.kind = "eof" /\ Disconnect(e.udata)
       \/ e.kind = "read" /\ ReadEvent(e.udata)

-----------------------------------------------------------------------------
Loop == Poll \/ \E e \in batch : Serve(e)

PeerStep == \E p \in Peers : Dial(p) \/ Send(p) \/ HangUp(p) \/ Reset(p)

Next == Loop \/ PeerStep

Spec == Init /\ [][Next]_vars

-----------------------------------------------------------------------------
(* Properties. *)

TypeOK ==
    /\ remote \in [Peers -> RemoteState]
    /\ listed \subseteq Peers
    /\ sock \in [Fd -> Peers \cup {NoPeer}]
    /\ watched \subseteq Watchable
    /\ udata \in [Fd -> Addr \cup {NoAddr}]
    /\ batch \subseteq Event
    /\ heap \in [Addr -> Session \cup {Freed}]
    /\ mgr \subseteq Addr
    /\ nextId \in 0 .. MaxLogins
    /\ connected \in Nat
    /\ view \in [Peers -> [Ids -> Shown]]

\* The client manager lists exactly the sessions that are allocated, under
\* different ids, and the statistics count them: no login or disconnect,
\* whatever kicks and descriptor reuse came between, loses or keeps one.
ManagerSound ==
    /\ mgr = {a \in Addr : Live(a)}
    /\ \A a, b \in mgr : Id(a) = Id(b) => a = b
    /\ connected = Cardinality(mgr)

\* Every event still to be served points to an allocated session: serving a
\* batch never uses a session that an earlier event of the batch has freed.
EventsLive == \A e \in batch : e.kind \in {"read", "eof"} => Live(e.udata)

\* A descriptor the loop watches is open, and its udata is the live session of
\* the very user at its other end: a number that accept() gives again, also
\* while the session of a kicked user still wraps it, wakes the session of its
\* new user, whose account then decides what the user may do.
WatchedOwned ==
    \A f \in watched : /\ sock[f] # NoPeer
                       /\ udata[f] \in Addr
                       /\ Live(udata[f])
                       /\ heap[udata[f]].conn = f
                       /\ heap[udata[f]].owner = sock[f]

\* Seen from the components above it, the session layer is a table of users:
\* whatever a step does to descriptors and events, it adds one user under the
\* next id, removes one, uses up an id, or leaves the table as it is.
uids == [a \in Addr |-> IF Live(a) THEN Id(a) ELSE -1]
Registry == INSTANCE Users WITH uid <- uids, logins <- nextId, NoId <- -1
ImplementsUsers == Registry!UsersSpec

\* Is p's connection one that a session of p in the manager still writes to?
Serves(a, p) == heap[a].owner = p /\ Wire(a) = p

\* What a connected peer displays follows the client manager: every other
\* announced session is shown with its away status, and nobody is shown whom
\* the manager does not list, for any order of logins, away timers, kicks,
\* reused descriptors and disconnects.  The manager goes on listing a user who
\* was kicked, and nobody is told of the kick: see KickedGone.
ViewsAgree ==
    \A p \in listed, a \in mgr : Serves(a, p) =>
      \A i \in Ids :
        /\ \A b \in mgr \ {a} : Id(b) = i =>
             \/ view[p][i] = Status(b)
             \/ view[p][i] = "absent" /\ ~heap[b].told
        /\ view[p][i] # "absent" => \E b \in mgr : Id(b) = i

\* What the specification of user management says of a kick: the remaining
\* users are notified.  Between two batches nobody displays a user whose
\* connection a kick has closed (handle_disconnect_user).
KickedGone ==
    batch = {} =>
      \A p \in listed, a, b \in mgr :
        Serves(a, p) /\ heap[b].fd = NoFd => view[p][Id(b)] = "absent"
=============================================================================
