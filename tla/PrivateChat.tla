----------------------------- MODULE PrivateChat -----------------------------
(***************************************************************************)
(* Private chat rooms: hotline/chat.c and the handlers of transactions 112  *)
(* to 120.  A room keeps POINTERS to its members' sessions beside their     *)
(* client ids, and nothing tells it that a session has been freed.          *)
(*                                                                         *)
(* The users' programs are part of the model: each displays, per room, an   *)
(* invitation or a window with the room's subject and its users, which it   *)
(* keeps up to date from what the server sends.                             *)
(***************************************************************************)
EXTENDS Users, Sequences, FiniteSets, SequencesExt

CONSTANTS
    ChatId,        \* ids of rooms; every new room gets an unused one
    NoChat,        \* the zero id
    MaxRooms,      \* HL_CHAT_MAX_ROOMS
    MaxMembers,    \* HL_CHAT_MAX_MEMBERS
    Subjects,      \* subject lines
    NoSubject      \* the empty one

ASSUME ChatAssumption ==
    /\ NoChat \notin ChatId /\ NoSubject \in Subjects
    /\ MaxRooms \in Nat /\ MaxMembers \in Nat \ {0}

VARIABLES
    chats,      \* [S -> Chat] for the set S of the rooms in use
    used,       \* ids given to rooms so far
    shows,      \* [Addr -> [ChatId \cup {NoChat} -> Display]]
    spoiled     \* history: rooms that a user disconnected from, joined while
                \* in it, or joined while it was full

chatVars == <<chats, used, shows, spoiled>>
vars == <<userVars, chatVars>>

UserId == 0 .. IdSpace - 1
Member == [conn: Addr, id: UserId]        \* members[j], member_ids[j]
Chat == [members: Seq(Member), subject: Subjects]
Display == [state: {"none", "invited", "open"}, who: SUBSET UserId,
            subject: Subjects]

Nothing == [state |-> "none", who |-> {}, subject |-> NoSubject]
Invitation == [Nothing EXCEPT !.state = "invited"]
Window(who, subject) == [state |-> "open", who |-> who, subject |-> subject]
Blank == [c \in ChatId \cup {NoChat} |-> Nothing]
Open(a, c) == shows[a][c].state = "open"

Members(c) == IF c \in DOMAIN chats THEN chats[c].members ELSE <<>>
GetSubject(c) == IF c \in DOMAIN chats THEN chats[c].subject ELSE NoSubject

\* Whom a message to a list of members reaches: the sessions now at the
\* addresses.  An address without a session is one that was freed; what is
\* read there is undefined.  Here nobody gets the message; a process that dies
\* of it ends the behaviour.
Reach(ms) == {a \in {ms[j].conn : j \in DOMAIN ms} : LoggedIn(a)}
Roster(ms) == {uid[a] : a \in Reach(ms)}

\* The windows on c of the sessions S become those of w.
Tell(S, c, w) ==
    [a \in Addr |-> IF a \in S /\ Open(a, c)
                    THEN [shows[a] EXCEPT ![c] = w[a]] ELSE shows[a]]

\* The users T get an invitation, unless they have it or are in already.
Invite(sh, T, c) ==
    [a \in Addr |-> IF a \in T /\ sh[a][c].state = "none"
                    THEN [sh[a] EXCEPT ![c] = Invitation] ELSE sh[a]]

\* Whom a can invite: at most one other user, and nobody if the field is
\* missing, the user has gone or refuses private chats.
Invitees(a) == {{}} \cup {{t} : t \in {b \in Addr : LoggedIn(b) /\ b # a}}

Init ==
    /\ UsersInit
    /\ chats = [c \in {} |-> Nothing] /\ used = {}
    /\ shows = [a \in Addr |-> Blank]
    /\ spoiled = {}

-----------------------------------------------------------------------------
(* Users come and go; neither login nor disconnect_client knows the rooms. *)

Arrive(a) ==
    /\ LogIn(a)
    /\ shows' = [shows EXCEPT ![a] = Blank]
    /\ UNCHANGED <<chats, used, spoiled>>

Depart(a) ==
    /\ LogOut(a)
    /\ shows' = [shows EXCEPT ![a] = Blank]
    /\ spoiled' = spoiled \cup {c \in ChatId : Open(a, c)}
    /\ UNCHANGED <<chats, used>>

-----------------------------------------------------------------------------
(* The handlers.  *)

\* handle_invite_new_chat.  With every room in use the reply and the
\* invitation carry the zero id.
InviteNewChat(a, T) ==
    /\ LoggedIn(a)
    /\ IF Cardinality(DOMAIN chats) < MaxRooms
       THEN \E c \in ChatId \ used :
              /\ chats' = [x \in DOMAIN chats \cup {c} |->
                             IF x = c THEN [members |-> <<[conn |-> a, id |-> uid[a]]>>,
                                            subject |-> NoSubject]
                             ELSE chats[x]]
              /\ used' = used \cup {c}
              /\ shows' = Invite([shows EXCEPT ![a][c] = Window({uid[a]}, NoSubject)],
                                 T, c)
       ELSE /\ shows' = Invite([shows EXCEPT ![a][NoChat] = Window({uid[a]}, NoSubject)],
                               T, NoChat)
            /\ UNCHANGED <<chats, used>>
    /\ UNCHANGED <<userVars, spoiled>>

\* handle_invite_to_chat
InviteToChat(a, T, c) ==
    /\ LoggedIn(a) /\ Open(a, c)
    /\ shows' = Invite(shows, T, c)
    /\ UNCHANGED <<userVars, chats, used, spoiled>>

\* mem_join: a full room takes nobody in, and says nothing about it.
Joined(c, a) ==
    IF c \in DOMAIN chats /\ Len(Members(c)) < MaxMembers
    THEN [chats EXCEPT ![c].members = Append(@, [conn |-> a, id |-> uid[a]])]
    ELSE chats

\* Does a join of a to room c leave it as nobody would expect?
JoinSpoils(a, c) == Open(a, c) \/ Len(Members(c)) >= MaxMembers

\* Mutant: only the newcomer hears of the join.
JoinChatSilently(a, c) ==
    /\ LoggedIn(a)
    /\ shows[a][c].state \in {"invited", "open"}
    /\ chats' = Joined(c, a)
    /\ spoiled' = IF JoinSpoils(a, c) THEN spoiled \cup {c} ELSE spoiled
    /\ LET ms == IF c \in DOMAIN chats THEN chats'[c].members ELSE <<>>
       IN  shows' = [shows EXCEPT ![a][c] = Window(Roster(ms), GetSubject(c))]
    /\ UNCHANGED <<userVars, used>>

\* handle_join_chat: the members are told, whether or not it joined; the
\* reply has the subject and the members.  Nobody looks whether the user was
\* invited, or is in already.
JoinChat(a, c) ==
    /\ LoggedIn(a)
    /\ shows[a][c].state \in {"invited", "open"}
    /\ chats' = Joined(c, a)
    /\ spoiled' = IF JoinSpoils(a, c) THEN spoiled \cup {c} ELSE spoiled
    /\ LET ms == IF c \in DOMAIN chats THEN chats'[c].members ELSE <<>>
           added == [b \in Addr |-> [shows[b][c] EXCEPT !.who = @ \cup {uid[a]}]]
       IN  shows' = [Tell(Reach(ms) \ {a}, c, added)
                       EXCEPT ![a][c] = Window(Roster(ms), GetSubject(c))]
    /\ UNCHANGED <<userVars, used>>

\* handle_reject_chat_invite does nothing; the program forgets the invitation.
RejectChatInvite(a, c) ==
    /\ LoggedIn(a) /\ shows[a][c].state = "invited"
    /\ shows' = [shows EXCEPT ![a][c] = Nothing]
    /\ UNCHANGED <<userVars, chats, used, spoiled>>

\* mem_leave: the first entry with the id goes, and the room with the last.
Left(c, i) ==
    LET at == {j \in DOMAIN Members(c) : Members(c)[j].id = i}
        first == CHOOSE j \in at : \A k \in at : j <= k
        ms == IF at = {} THEN Members(c) ELSE RemoveAt(Members(c), first)
    IN  [x \in IF at # {} /\ ms = <<>> THEN DOMAIN chats \ {c} ELSE DOMAIN chats |->
           IF x = c THEN [chats[x] EXCEPT !.members = ms] ELSE chats[x]]

\* handle_leave_chat
LeaveChat(a, c) ==
    /\ LoggedIn(a) /\ Open(a, c)
    /\ LET gone == [b \in Addr |-> [shows[b][c] EXCEPT !.who = @ \ {uid[a]}]]
       IN  shows' = [Tell(Reach(Members(c)) \ {a}, c, gone)
                       EXCEPT ![a][c] = Nothing]
    /\ chats' = Left(c, uid[a])
    /\ UNCHANGED <<userVars, used, spoiled>>

\* handle_set_chat_subject
SetChatSubject(a, c, s) ==
    /\ LoggedIn(a) /\ Open(a, c)
    /\ chats' = [x \in DOMAIN chats |->
                   IF x = c THEN [chats[x] EXCEPT !.subject = s] ELSE chats[x]]
    /\ LET set == [b \in Addr |-> [shows[b][c] EXCEPT !.subject = s]]
       IN  shows' = Tell(Reach(Members(c)), c, set)
    /\ UNCHANGED <<userVars, used, spoiled>>

Next ==
    \/ LogInWasted /\ UNCHANGED chatVars
    \/ \E a \in Addr : Arrive(a) \/ Depart(a)
    \/ \E a \in Addr : \E T \in Invitees(a) : InviteNewChat(a, T)
    \/ \E a \in Addr, c \in ChatId \cup {NoChat} :
         \E T \in Invitees(a) : InviteToChat(a, T, c)
    \/ \E a \in Addr, c \in ChatId \cup {NoChat} :
         JoinChat(a, c) \/ RejectChatInvite(a, c) \/ LeaveChat(a, c)
    \/ \E a \in Addr, c \in ChatId \cup {NoChat}, s \in Subjects :
         SetChatSubject(a, c, s)

Spec == Init /\ [][Next]_vars

-----------------------------------------------------------------------------
(* Properties. *)

\* A room in use has members, so that it is free again once they have left.
TypeOK ==
    /\ uid \in [Addr -> UserId \cup {NoId}] /\ logins \in 0 .. MaxLogins
    /\ DOMAIN chats \subseteq used /\ used \subseteq ChatId
    /\ \A c \in DOMAIN chats : /\ chats[c] \in Chat
                               /\ Len(Members(c)) \in 1 .. MaxMembers
    /\ shows \in [Addr -> [ChatId \cup {NoChat} -> Display]]

\* What disconnect_client says of itself, that it cleans up: every pointer a
\* room keeps is to a session that is still logged in, and is the one that
\* joined.
MembersLive ==
    \A c \in DOMAIN chats : \A j \in DOMAIN Members(c) :
      uid[Members(c)[j].conn] = Members(c)[j].id

\* Rooms that no disconnect, second join or join of a full room has spoiled are
\* not touched by those of other rooms, nor by addresses that new sessions take
\* over: each entry is of the session that joined, the users who have the room
\* open are its members, and each displays exactly its members and its subject,
\* for any order of invitations, joins, leaves and changes of the subject.
RosterAgrees ==
    \A c \in DOMAIN chats \ spoiled :
      /\ \A j \in DOMAIN Members(c) : uid[Members(c)[j].conn] = Members(c)[j].id
      /\ \A a \in Addr :
           /\ Open(a, c) <=> a \in Reach(Members(c))
           /\ Open(a, c) => shows[a][c] = Window(Roster(Members(c)), GetSubject(c))
=============================================================================
