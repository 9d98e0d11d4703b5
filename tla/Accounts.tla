------------------------------ MODULE Accounts ------------------------------
(***************************************************************************)
(* Accounts: the array of the account manager and its YAML files           *)
(* (yaml_account_manager.c), the handlers of the account editors           *)
(* (transaction_handlers_clean.c), and the sessions that log in to them    *)
(* (server.c).  A session keeps a pointer into the array, and every check  *)
(* of its rights looks through that pointer (hl_client_conn_authorize).    *)
(*                                                                         *)
(* An account is a login, a password and its access bits, here "admin"     *)
(* (all bits) or "plain" (none).  A password is stored as it is when HOPE  *)
(* is enabled and as a salted hash when it is not; both keep the text, and *)
(* differ in who can verify them.  Login, name and password are written    *)
(* into the file as they are, and read as YAML: some read back otherwise.  *)
(***************************************************************************)
EXTENDS Naturals, FiniteSets, Functions, SequencesExt

CONSTANTS
    Logins,        \* the logins of accounts
    NoLogin,       \* the login of an account read from an empty file
    Texts, Empty,  \* passwords; no password
    Keep,          \* an editor's request to keep the password
    Users,         \* the clients
    MaxAccounts,   \* MAX_ACCOUNTS, 256
    MaxChanges,    \* bound on changes of accounts
    Odd,           \* the logins and passwords that do not read back: passwords
                   \* with a quote or a backslash, and logins that mean something
                   \* in YAML or whose account has a name that does
    MaxFaults,     \* bound on ends of the process and on writes that fail
    Installed      \* the accounts of a new installation: [Logins' -> Account]

ASSUME MaxAccountsOK == MaxAccounts \in Nat \ {0} /\ IsFiniteSet(Logins)
ASSUME EmptyIsNoText == Empty \notin Texts /\ Keep \notin Texts \cup {Empty} /\ NoLogin \notin Logins

VARIABLES
    up,       \* is the server running?
    hope,     \* enable_hope of its configuration
    slots,    \* the array of accounts; what is above count is stale
    count,    \* account_count
    files,    \* the account each file Users/<login>.yaml is read as
    bound,    \* the slot each logged-in client's account pointer names, or 0
    as,       \* ghost: the login a client logged in with, renames included
    moved,    \* ghost: the clients whose slot a deletion shifted or freed
    cred,     \* ghost: the password last set for each login, while it is known
    adrift,   \* ghost: the logins whose file is not what is in force, because it
              \* was not written, does not read back or was left by a rename
    clash,    \* ghost: has an account been renamed to a login in use?
    changes, faults

ghosts == <<as, moved, cred, adrift, clash>>
bounds == <<changes, faults>>
vars == <<up, hope, slots, count, files, bound, ghosts, bounds>>

Passwords == Texts \cup {Empty}
NoPassword == [text |-> Empty, hashed |-> FALSE]
Account == [login : Logins \cup {NoLogin}, access : {"admin", "plain"},
            pw : [text : Passwords, hashed : BOOLEAN]]

ASSUME InstalledOK ==
    /\ DOMAIN Installed \subseteq Logins
    /\ Installed \in [DOMAIN Installed -> Account]
    /\ \A l \in DOMAIN Installed : Installed[l].login = l

\* What parse_account_file makes of an empty file.
Unread == [login |-> NoLogin, access |-> "plain", pw |-> NoPassword]

Init ==
    /\ up = FALSE /\ hope = FALSE
    /\ slots = [i \in 1 .. MaxAccounts |-> Unread] /\ count = 0
    /\ files = Installed
    /\ bound = [u \in Users |-> 0] /\ as = [u \in Users |-> NoLogin] /\ moved = {}
    /\ cred = [l \in DOMAIN Installed |-> Installed[l].pw.text]
    /\ adrift = {} /\ clash = FALSE /\ changes = 0 /\ faults = 0

-----------------------------------------------------------------------------
(* The manager.  *)

\* yaml_get: the first account of that login, or 0.
Holding(l) == {i \in 1 .. count : slots[i].login = l}
Get(l) ==
    LET all == Holding(l)
    IN  IF all = {} THEN 0 ELSE CHOOSE i \in all : \A j \in all : i <= j

\* Mutant of Created: the new account goes first.
CreatedFirst(a) == [i \in DOMAIN slots |-> IF i = 1 THEN a ELSE slots[i - 1]]

\* yaml_create
Created(a) == [slots EXCEPT ![count + 1] = a]

\* yaml_update, which finds the account by its old login again
Updated(l, a) == [slots EXCEPT ![Get(l)] = a]

\* yaml_del moves the accounts above down by one.
ShiftedDown(i) ==
    [j \in DOMAIN slots |-> IF i <= j /\ j < count THEN slots[j + 1] ELSE slots[j]]

Fault == faults < MaxFaults /\ faults' = faults + 1

Dies ==
    /\ Fault /\ up' = FALSE
    /\ slots' = [i \in DOMAIN slots |-> Unread] /\ count' = 0
    /\ bound' = [u \in Users |-> 0] /\ as' = [u \in Users |-> NoLogin] /\ moved' = {}

Changes == up /\ changes < MaxChanges /\ changes' = changes + 1 /\ UNCHANGED hope

\* What parse_account_file makes of the file of a that ends, or means nothing
\* more, after the login or after the password.
Bare(a) == [Unread EXCEPT !.login = a.login]
Cut(a) == {Unread, Bare(a), [a EXCEPT !.access = "plain"]}

\* What it makes of the file write_account_yaml writes of a.
ReadsBack(a) == a.login \notin Odd /\ (a.pw.hashed \/ a.pw.text \notin Odd)
AsRead(a) ==
    IF ReadsBack(a) THEN {a}
    ELSE IF a.login \in Odd THEN {Unread, Bare(a)}
    ELSE {f \in Account :
            /\ f.login = a.login /\ f.access \in {a.access, "plain"}
            /\ f.pw.text # a.pw.text /\ ~f.pw.hashed}

\* The files after one more is written.
Filed(l, f) == [k \in DOMAIN files \cup {l} |-> IF k = l THEN f ELSE files[k]]
With(p, l, t) == [k \in DOMAIN p \cup {l} |-> IF k = l THEN t ELSE p[k]]

\* Mutant of File: the file is named after the login before the change.
FileOld(a, l) ==
    \/ /\ \E f \in AsRead(a) : files' = Filed(l, f)
       /\ adrift' = (adrift \ {a.login}) \cup ({l} \ {a.login}) \cup (IF ReadsBack(a) THEN {} ELSE {a.login})
       /\ UNCHANGED faults
    \/ /\ Fault /\ files' \in {files} \cup {Filed(l, f) : f \in Cut(a)}
       /\ adrift' = adrift \cup {a.login, l}

\* write_account_yaml for a, whose login was l: it is written, or the file cannot
\* be opened or not be written in full, and nobody looks.  The file of l stays.
File(a, l) ==
    \/ /\ \E f \in AsRead(a) : files' = Filed(a.login, f)
       /\ adrift' = (adrift \ {a.login}) \cup ({l} \ {a.login}) \cup (IF ReadsBack(a) THEN {} ELSE {a.login})
       /\ UNCHANGED faults
    \/ /\ Fault /\ files' \in {files} \cup {Filed(a.login, f) : f \in Cut(a)}
       /\ adrift' = adrift \cup {a.login, l}

\* The memory s, n and the file of a after a change, whose login was l, and the
\* passwords p that are then known; or the process dies with the file emptied and
\* not yet filled.
Write(s, n, a, l, p) ==
    \/ slots' = s /\ count' = n /\ File(a, l) /\ cred' = p /\ UNCHANGED <<up, bound, moved>>
    \/ /\ Dies /\ files' = Filed(a.login, Unread) /\ adrift' = adrift \cup {a.login}
       /\ UNCHANGED cred

-----------------------------------------------------------------------------
(* Logging in.  *)

\* hl_password_verify, and no check at all when there is no password.
Accepts(pw, t) == pw = NoPassword \/ pw.text = t

LogIn(u, i) ==
    /\ up /\ bound[u] = 0
    /\ bound' = [bound EXCEPT ![u] = i] /\ as' = [as EXCEPT ![u] = slots[i].login]
    /\ UNCHANGED <<up, hope, slots, count, files, moved, cred, adrift, clash, bounds>>

\* handle_new_connection without HOPE
Login(u, l, t) == Get(l) # 0 /\ Accepts(slots[Get(l)].pw, t) /\ LogIn(u, Get(l))

\* hl_hope_verify_login passes over accounts whose password is hashed.
HopeLogin(u, l, t) ==
    /\ hope
    /\ \E i \in Holding(l) :
         /\ ~slots[i].pw.hashed /\ \A j \in Holding(l) : j < i => slots[j].pw.hashed
         /\ slots[i].pw.text = t
         /\ LogIn(u, i)

Logout(u) ==
    /\ bound[u] # 0
    /\ bound' = [bound EXCEPT ![u] = 0] /\ as' = [as EXCEPT ![u] = NoLogin]
    /\ moved' = moved \ {u}
    /\ UNCHANGED <<up, hope, slots, count, files, cred, adrift, clash, bounds>>

\* hl_client_conn_authorize
Authorized(u) == bound[u] # 0 /\ slots[bound[u]].access = "admin"

-----------------------------------------------------------------------------
(* The editors.  *)

\* A password as the two editors store it; an account made without one has none.
Stored(t) == [text |-> t, hashed |-> ~hope]
New(l, x, t) == [login |-> l, access |-> x, pw |-> IF t = Empty THEN NoPassword ELSE Stored(t)]

\* handle_new_user; when the array is full the answer is the same.
NewUser(u, l, x, t) ==
    /\ Changes /\ Authorized(u) /\ Get(l) = 0 /\ count < MaxAccounts
    /\ Write(Created(New(l, x, t)), count + 1, New(l, x, t), l, With(cred, l, t))
    /\ up' => UNCHANGED as
    /\ UNCHANGED clash

\* handle_set_user leaves the password alone.
SetUser(u, l, x) ==
    /\ Changes /\ Authorized(u) /\ Get(l) # 0
    /\ LET a == [slots[Get(l)] EXCEPT !.access = x]
       IN  Write(Updated(l, a), count, a, l, cred)
    /\ up' => UNCHANGED as
    /\ UNCHANGED clash

\* Mutant of Edited: a kept password is stored anew, in the form of the day.
EditedAgain(pw, t) == IF t = Keep THEN Stored(IF pw.hashed THEN Empty ELSE pw.text) ELSE Stored(t)

\* handle_update_user's password field: kept, new, or (absent) cleared.
Edited(pw, t) == IF t = Keep THEN pw ELSE Stored(t)

\* The passwords that are known once l is m and its password is t or kept.
Renamed(l, m, t) ==
    IF t # Keep THEN With(cred, m, t)
    ELSE IF l \in DOMAIN cred THEN With(cred, m, cred[l])
    ELSE Restrict(cred, DOMAIN cred \ {m})

\* handle_update_user on an account there is, l, renamed to m unless m = l.  The
\* file of the old login stays.  A message with several entries does these steps
\* one after the other, and the first that is refused ends it.
UpdateUser(u, l, m, x, t) ==
    /\ Changes /\ Authorized(u) /\ Get(l) # 0
    /\ LET i == Get(l)
           a == [login |-> m, access |-> x, pw |-> Edited(slots[i].pw, t)]
       IN  /\ Write(Updated(l, a), count, a, l, Renamed(l, m, t))
           /\ up' => as' = [v \in Users |-> IF bound[v] = i /\ v \notin moved THEN m ELSE as[v]]
    /\ clash' = (clash \/ (m # l /\ Get(m) # 0))

\* handle_delete_user, and handle_update_user with one field.  Nobody looks whether
\* the file could be removed.
DeleteUser(u, l) ==
    /\ Changes /\ Authorized(u) /\ Get(l) # 0
    /\ slots' = ShiftedDown(Get(l)) /\ count' = count - 1
    /\ \/ /\ files' = Restrict(files, DOMAIN files \ {l}) /\ adrift' = adrift \ {l}
          /\ UNCHANGED faults
       \/ Fault /\ files' = files /\ adrift' = adrift \cup {l}
    /\ moved' = moved \cup {v \in Users : bound[v] >= Get(l)}
    /\ UNCHANGED <<up, bound, as, cred, clash>>

-----------------------------------------------------------------------------
\* mobius_yaml_account_mgr_new: the files in some order, up to MAX_ACCOUNTS.  The
\* configuration may have been edited since.  From now on what was read is in
\* force, whatever it was before.
Start ==
    /\ ~up
    /\ up' = TRUE /\ hope' \in BOOLEAN
    /\ \E order \in SetToSeqs(DOMAIN files) :
         LET n == IF Len(order) < MaxAccounts THEN Len(order) ELSE MaxAccounts
         IN  /\ count' = n
             /\ slots' = [i \in 1 .. MaxAccounts |-> IF i <= n THEN files[order[i]] ELSE Unread]
             /\ adrift' = {l \in DOMAIN files : files[l].login # l}
                          \cup {order[i] : i \in n + 1 .. Len(order)}
    /\ cred' = Restrict(cred, DOMAIN cred \ adrift)
    /\ UNCHANGED <<files, bound, as, moved, clash, bounds>>

Crash == up /\ Dies /\ UNCHANGED <<hope, files, cred, adrift, clash, changes>>

Next ==
    \/ Start \/ Crash
    \/ \E u \in Users :
         \/ Logout(u)
         \/ \E l \in Logins :
              \/ \E t \in Passwords : Login(u, l, t) \/ HopeLogin(u, l, t)
              \/ \E x \in {"admin", "plain"} :
                   \/ \E t \in Passwords : NewUser(u, l, x, t)
                   \/ SetUser(u, l, x)
                   \/ \E m \in Logins, t \in Passwords \cup {Keep} : UpdateUser(u, l, m, x, t)
              \/ DeleteUser(u, l)

Spec == Init /\ [][Next]_vars

-----------------------------------------------------------------------------
(* Properties.  *)

TypeOK ==
    /\ up \in BOOLEAN /\ hope \in BOOLEAN /\ clash \in BOOLEAN
    /\ slots \in [1 .. MaxAccounts -> Account] /\ count \in 0 .. MaxAccounts
    /\ DOMAIN files \subseteq Logins /\ files \in [DOMAIN files -> Account]
    /\ bound \in [Users -> 0 .. MaxAccounts] /\ moved \subseteq Users
    /\ as \in [Users -> Logins \cup {NoLogin}] /\ adrift \subseteq Logins
    /\ DOMAIN cred \subseteq Logins /\ cred \in [DOMAIN cred -> Passwords]

\* What a restart would load for a login is what is in force for it, one account
\* or none, but for the logins that are adrift: their file could not be written
\* or removed, or not be read, or holds what does not read back, or was left
\* behind when they were renamed.  A later write of the file, its removal or a
\* restart makes that good.  An account that was renamed to a login in use breaks
\* this, and so is excluded (write_account_yaml, yaml_update, yaml_del).
Saved ==
    up /\ ~clash =>
        \A l \in Logins \ adrift :
            \/ Holding(l) = {} /\ l \notin DOMAIN files
            \/ \E i \in 1 .. count :
                 Holding(l) = {i} /\ l \in DOMAIN files /\ files[l] = slots[i]

\* Whatever the form a password was stored in, and across restarts, renames and
\* changes of the configuration, the password last set for a login opens it and
\* no other does, unless it has none (hl_password_hash, hl_password_verify).  This
\* ends with a restart that reads a file that is adrift, until a password is set.
PasswordsHold ==
    up /\ ~clash =>
        \A i \in 1 .. count : slots[i].login \in DOMAIN cred =>
            \A t \in Passwords :
                Accepts(slots[i].pw, t) <=> (t = cred[slots[i].login] \/ slots[i].pw = NoPassword)

\* As long as no account at or below its own was deleted, a client's pointer
\* names the account it logged in to, whatever is created, edited and renamed.
OwnUntilMoved ==
    \A u \in Users :
        bound[u] # 0 /\ u \notin moved => bound[u] <= count /\ slots[bound[u]].login = as[u]
=============================================================================
