-------------------------------- MODULE Users --------------------------------
(***************************************************************************)
(* Who is logged in, as the components above the session layer see it: the  *)
(* address of a session object and the client id the manager gave it.  An   *)
(* address is free again after a logout; an id is not, within one cycle.    *)
(* Sessions implements this module; PrivateChat builds on it.               *)
(***************************************************************************)
EXTENDS Integers

CONSTANTS
    Addr,       \* heap addresses a session can have
    IdSpace,    \* number of client ids
    MaxLogins,  \* bound: logins of one run of the server
    NoId

ASSUME UsersAssumption ==
    /\ IdSpace \in Nat \ {0} /\ MaxLogins \in Nat /\ MaxLogins <= IdSpace
    /\ NoId \notin 0 .. IdSpace - 1

VARIABLES
    uid,        \* [Addr -> 0 .. IdSpace - 1 \cup {NoId}]
    logins      \* how many there have been

userVars == <<uid, logins>>

LoggedIn(a) == uid[a] # NoId

UsersInit == uid = [a \in Addr |-> NoId] /\ logins = 0

LogIn(a) ==
    /\ ~LoggedIn(a) /\ logins < MaxLogins
    /\ logins' = logins + 1
    /\ uid' = [uid EXCEPT ![a] = (logins + 1) % IdSpace]

\* A login that gets no further than its id.
LogInWasted == logins < MaxLogins /\ logins' = logins + 1 /\ UNCHANGED uid

LogOut(a) ==
    /\ LoggedIn(a)
    /\ uid' = [uid EXCEPT ![a] = NoId]
    /\ UNCHANGED logins

UsersNext == LogInWasted \/ \E a \in Addr : LogIn(a) \/ LogOut(a)

UsersSpec == UsersInit /\ [][UsersNext]_userVars
=============================================================================
