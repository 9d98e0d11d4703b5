----------------------------- MODULE Admission -----------------------------
(***************************************************************************)
(* Who gets past accept(): the ban list and the token bucket each address  *)
(* has (hotline/server.c), the escalation of a full measure of refusals    *)
(* into a ban, and the file the bans are kept in (mobius/ban_file.c).      *)
(*                                                                         *)
(* The bucket holds at most one connection and fills in Interval seconds;  *)
(* tokens are counted here in Interval-ths, so that they stay integers.    *)
(* Points in time are kept as the seconds since them, as the server's      *)
(* clock counts them, up to the point from which they no longer matter.    *)
(***************************************************************************)
EXTENDS Integers, Sequences, SequencesExt

CONSTANTS Clients,      \* addresses that connect
          Elsewhere,    \* addresses only the operator's edits mention
          Logins,       \* account names
          Interval,     \* HL_PER_IP_RATE_INTERVAL
          Threshold,    \* HL_AUTOBAN_VIOLATION_THRESHOLD
          Window,       \* HL_AUTOBAN_WINDOW_SECONDS
          MaxBans,      \* MAX_BANS
          MaxEdits,     \* bound: edits of the ban file by hand
          MaxFaults,    \* bound: crashes, and writes that fail
          MaxSteps      \* bound: times the clock is set back, by Interval

ASSUME AdmissionAssumption ==
  /\ {Interval, Threshold, Window, MaxBans} \subseteq Nat \ {0}
  /\ {MaxEdits, MaxFaults, MaxSteps} \subseteq Nat
  /\ Clients \cap Elsewhere = {}

VARIABLES up,           \* the server runs
          autoBan,      \* config.auto_ban_enabled
          limiters,     \* address -> its hl_rate_limiter_t
          bans,         \* the ban list in memory: addresses and names
          file,         \* the ban list on disk
          edits, faults, setBack, \* what the bounds count
          last,         \* ghost: the connection this step decided, if any
          sinceTry,     \* ghost: seconds since an address last connected,
          sinceAdmit,   \* and was last let in, in this run of the server,
          refusals,     \* and since its last Threshold refusals
          punished,     \* ghost: addresses banned for their refusals
          torn          \* ghost: a write of the file failed

server == <<limiters, bans>>
ghosts == <<sinceTry, sinceAdmit, refusals, punished>>
vars == <<up, autoBan, server, file, edits, faults, setBack, last, ghosts, torn>>

Addresses == Clients \cup Elsewhere
NoLimiter == [known |-> FALSE, tokens |-> Interval, since |-> 0,
              violations |-> 0, age |-> 0, banned |-> FALSE]
NoBans == [ips |-> <<>>, users |-> {}]
NoCall == [ip |-> "none", verdict |-> "none"]

Least(a, b) == IF a <= b THEN a ELSE b
\* From here on a difference in time no longer matters, even set back.
Full == (MaxSteps + 2) * Interval
Over == Window + 1 + MaxSteps * Interval

Init == /\ up = TRUE /\ autoBan = TRUE
        /\ limiters = [ip \in Clients |-> NoLimiter]
        /\ bans = NoBans /\ file = NoBans
        /\ edits = 0 /\ faults = 0 /\ setBack = 0 /\ last = NoCall
        /\ sinceTry = [ip \in Clients |-> Interval]
        /\ sinceAdmit = [ip \in Clients |-> Interval]
        /\ refusals = [ip \in Clients |-> <<>>]
        /\ punished = {} /\ torn = FALSE

-----------------------------------------------------------------------------
\* Mutant of IsBanned: the loop ends one short.
IsBannedButLast(ip) == ip \in Range(SubSeq(bans.ips, 1, Len(bans.ips) - 1))

IsBanned(ip) == ip \in Range(bans.ips)

\* Mutant of Filled: half as fast.
FilledSlowly(rl) == Least(rl.tokens + rl.since \div 2, Interval)

\* Mutant of Filled: only whole intervals fill the bucket.
FilledWhole(rl) == Least(rl.tokens + (rl.since \div Interval) * Interval, Interval)

\* Mutant of Filled: the bucket holds two connections.
FilledTwice(rl) == Least(rl.tokens + rl.since, 2 * Interval)

\* What the bucket holds after the time that passed; less than before when
\* the clock was set back.
Filled(rl) == Least(rl.tokens + rl.since, Interval)

\* Mutant of Refused: the count of refusals never starts afresh.
RefusedForever(rl, filled) ==
  [rl EXCEPT !.tokens = filled, !.since = 0, !.known = TRUE,
             !.violations = Least(@ + 1, Threshold)]

\* The count runs from the first refusal of a window, and starts afresh with
\* the first one after it.
Refused(rl, filled) ==
  LET first == rl.violations = 0 \/ rl.age > Window
  IN [rl EXCEPT !.tokens = filled, !.since = 0, !.known = TRUE,
                !.violations = IF first THEN 1 ELSE Least(@ + 1, Threshold),
                !.age = IF first THEN 0 ELSE @]

Let(rl, filled) == [rl EXCEPT !.tokens = filled - Interval, !.since = 0, !.known = TRUE]

\* The file is emptied and written from the start, addresses first: what a
\* crash or a full disk leaves is the beginning of it.
Beginnings(b) ==
  {[ips |-> SubSeq(b.ips, 1, n), users |-> {}] : n \in 0..Len(b.ips)}
    \cup {[ips |-> b.ips, users |-> U] : U \in SUBSET b.users}

NoRoom == Len(bans.ips) >= MaxBans

\* ban_add: nothing when the list is full. The write is whole, or the file
\* cannot be opened or written (the server does not look), or the server ends
\* in the middle of it.
BanAdd(ip) ==
  IF NoRoom
  THEN UNCHANGED <<bans, file, punished, torn, faults, up>>
  ELSE /\ bans' = [bans EXCEPT !.ips = Append(@, ip)]
       /\ punished' = punished \cup {ip}
       /\ \/ /\ file' = bans' /\ torn' = FALSE
             /\ UNCHANGED <<faults, up>>
          \/ /\ faults < MaxFaults /\ faults' = faults + 1
             /\ file' \in Beginnings(bans') \cup {file}
             /\ torn' = TRUE /\ up' \in BOOLEAN

\* The address's share of a refusal: it is banned once, when it has been
\* refused often enough.
Escalates(rl) == autoBan /\ ~rl.banned /\ rl.violations >= Threshold

Called(ip, verdict) ==
  /\ sinceTry' = [sinceTry EXCEPT ![ip] = 0]
  /\ last' = [ip |-> ip, verdict |-> verdict]

\* drop_if_banned: closed at accept, before the bucket is looked at.
Drop(ip) ==
  /\ up /\ IsBanned(ip)
  /\ Called(ip, "dropped")
  /\ UNCHANGED <<up, autoBan, server, file, edits, faults, setBack,
                 sinceAdmit, refusals, punished, torn>>

\* hl_server_rate_limit_check lets the connection in. The handshake and the
\* login follow in the same call; a banned login name ends it there.
Admit(ip) ==
  /\ up /\ ~IsBanned(ip)
  /\ Filled(limiters[ip]) >= Interval
  /\ limiters' = [limiters EXCEPT ![ip] = Let(@, Filled(@))]
  /\ \E login \in Logins :
       Called(ip, IF login \in bans.users THEN "name banned" ELSE "admitted")
  /\ sinceAdmit' = [sinceAdmit EXCEPT ![ip] = 0]
  /\ UNCHANGED <<up, autoBan, bans, file, edits, faults, setBack,
                 refusals, punished, torn>>

\* It refuses it, and bans the address with its Threshold-th refusal.
Refuse(ip) ==
  /\ up /\ ~IsBanned(ip)
  /\ Filled(limiters[ip]) < Interval
  /\ LET rl == Refused(limiters[ip], Filled(limiters[ip])) IN
       /\ limiters' = [limiters EXCEPT ![ip] = [rl EXCEPT !.banned = @ \/ Escalates(rl)]]
       /\ IF Escalates(rl) THEN BanAdd(ip)
          ELSE UNCHANGED <<bans, file, punished, torn, faults, up>>
  /\ refusals' = [refusals EXCEPT ![ip] =
       IF Len(@) < Threshold THEN Append(@, 0) ELSE Append(Tail(@), 0)]
  /\ Called(ip, "refused")
  /\ UNCHANGED <<autoBan, edits, setBack, sinceAdmit>>

-----------------------------------------------------------------------------
\* A second passes.
Tick ==
  /\ limiters' = [ip \in Clients |->
       [limiters[ip] EXCEPT !.since = IF limiters[ip].known THEN Least(@ + 1, Full) ELSE 0,
                            !.age = IF limiters[ip].violations > 0 THEN Least(@ + 1, Over) ELSE 0]]
  /\ sinceTry' = [ip \in Clients |-> Least(sinceTry[ip] + 1, Interval)]
  /\ sinceAdmit' = [ip \in Clients |-> Least(sinceAdmit[ip] + 1, Interval)]
  /\ refusals' = [ip \in Clients |-> [i \in DOMAIN refusals[ip] |-> Least(refusals[ip][i] + 1, Over)]]
  /\ last' = NoCall
  /\ UNCHANGED <<up, autoBan, bans, file, edits, faults, setBack, punished, torn>>

\* The clock of the machine is set back by Interval seconds.
SetBack ==
  /\ up /\ setBack < MaxSteps /\ setBack' = setBack + 1
  /\ limiters' = [ip \in Clients |->
       IF limiters[ip].known
       THEN [limiters[ip] EXCEPT !.since = @ - Interval,
               !.age = IF limiters[ip].violations > 0 THEN @ - Interval ELSE 0]
       ELSE limiters[ip]]
  /\ last' = NoCall
  /\ UNCHANGED <<up, autoBan, bans, file, edits, faults, ghosts, torn>>

\* SIGHUP: the configuration is read again. The ban list is not (main.c:664).
Reload ==
  /\ up /\ autoBan' \in BOOLEAN /\ last' = NoCall
  /\ UNCHANGED <<up, server, file, edits, faults, setBack, ghosts, torn>>

\* The operator replaces the file: the only way to ban or pardon anyone. While
\* the server runs it neither sees this, nor keeps it when it next writes.
Edit ==
  /\ edits < MaxEdits /\ edits' = edits + 1
  /\ \E ips \in {s \in UNION {[1..n -> Addresses] : n \in 0..MaxBans} : IsInjective(s)},
        users \in SUBSET Logins :
       file' = [ips |-> ips, users |-> users]
  /\ punished' = punished \cap Range(file'.ips)
  /\ last' = NoCall
  /\ UNCHANGED <<up, autoBan, server, faults, setBack, sinceTry, sinceAdmit, refusals, torn>>

\* The server ends, for whatever reason, between two events.
Stop ==
  /\ up /\ faults < MaxFaults /\ faults' = faults + 1
  /\ up' = FALSE /\ last' = NoCall
  /\ UNCHANGED <<autoBan, server, file, edits, setBack, ghosts, torn>>

\* load_bans, into an empty list: the file's first MaxBans addresses.
Loaded(b) == [b EXCEPT !.ips = SubSeq(@, 1, Least(Len(@), MaxBans))]

\* The buckets and the counts start afresh; what a failed write lost is gone.
Start ==
  /\ ~up /\ up' = TRUE /\ last' = NoCall
  /\ limiters' = [ip \in Clients |-> NoLimiter]
  /\ bans' = Loaded(file)
  /\ sinceTry' = [ip \in Clients |-> Interval]
  /\ sinceAdmit' = [ip \in Clients |-> Interval]
  /\ refusals' = [ip \in Clients |-> <<>>]
  /\ punished' = IF torn THEN punished \cap Range(file.ips) ELSE punished
  /\ torn' = FALSE /\ setBack' = 0
  /\ UNCHANGED <<autoBan, file, edits, faults>>

Next == \/ \E ip \in Clients : Drop(ip) \/ Admit(ip) \/ Refuse(ip)
        \/ Tick \/ SetBack \/ Reload \/ Edit \/ Stop \/ Start

Spec == Init /\ [][Next]_vars /\ WF_vars(Tick) /\ WF_vars(Start)

-----------------------------------------------------------------------------
Limiter == [known: BOOLEAN, tokens: Int, since: Int,
            violations: 0..Threshold, age: Int, banned: BOOLEAN]
BanList == [ips: Seq(Addresses), users: SUBSET Logins]

TypeOK ==
  /\ up \in BOOLEAN /\ autoBan \in BOOLEAN /\ torn \in BOOLEAN
  /\ limiters \in [Clients -> Limiter]
  /\ bans \in BanList /\ Len(bans.ips) <= MaxBans
  /\ file \in BanList /\ Len(file.ips) <= MaxBans
  /\ edits \in Nat /\ faults \in Nat /\ setBack \in Nat
  /\ sinceTry \in [Clients -> 0..Interval] /\ sinceAdmit \in [Clients -> 0..Interval]
  /\ refusals \in [Clients -> Seq(0..Over)]
  /\ punished \subseteq Clients

LetIn == last'.verdict \in {"admitted", "name banned"}

\* However it spreads its attempts, and whatever happens to the clock's past,
\* an address is let in at most once in Interval seconds.
RateKept == [][LetIn => sinceAdmit[last'.ip] >= Interval]_vars

\* An address that waits Interval seconds between its attempts is never
\* refused, whatever it did before, as long as the clock is not set back.
PoliteServed ==
  [][last'.verdict = "refused" => sinceTry[last'.ip] < Interval \/ setBack > 0]_vars

\* Nobody is banned for fewer than Threshold refusals, nor for refusals
\* further apart than the window.
BanEarned ==
  [][\A ip \in punished' \ punished :
       /\ Len(refusals'[ip]) = Threshold
       /\ setBack = 0 => refusals'[ip][1] <= Window]_vars

\* An address once banned for its refusals is not let in again, in this run
\* of the server or a later one, until the operator takes it off the file or
\* a write that failed has lost it.
BannedStayOut == [][LetIn => last'.ip \notin punished]_vars

\* An address that keeps trying is not refused forever: it is let in again
\* and again, or banned.
Served ==
  \A ip \in Clients :
    []<>(last.ip = ip) => []<>(last.ip = ip /\ last.verdict # "refused")
=============================================================================
