-------------------------- MODULE ConnectionProofs --------------------------
(***************************************************************************)
(* Proofs about what comes before and under a session, for every value of   *)
(* the constants.  Admission: how often an address is let in, that patience *)
(* is rewarded, what a ban takes and how long it holds.  Transport: that the *)
(* two ends of a connection agree on the cipher and stay in step, and that  *)
(* no byte is lost between them.                                            *)
(***************************************************************************)
EXTENDS Admission, Transport, SequenceTheorems, FiniteSetTheorems, WellFoundedInduction, TLAPS

-----------------------------------------------------------------------------
(* Admission. *)

\* A bucket holds at most what it can hold; what it would be filled to now is
\* at most the time since the address was last let in, and at least the time
\* since it last tried, unless the clock was set back.
Buckets ==
  \A ip \in Clients :
    LET rl == limiters[ip] IN
    /\ rl.tokens <= Interval
    /\ (rl.known \/ (rl.tokens = Interval /\ rl.since = 0))
    /\ sinceAdmit[ip] >= Interval \/ rl.tokens + rl.since <= sinceAdmit[ip]
    /\ setBack = 0 => /\ rl.tokens >= 0 /\ rl.since >= 0
                      /\ rl.tokens + rl.since >= sinceTry[ip]

\* The refusals counted are the latest ones, and none of them is older than
\* the count.
Counted(q, rl) ==
  /\ rl.violations <= Len(q)
  /\ setBack = 0 =>
       /\ rl.age >= 0
       /\ rl.violations > 0 =>
            \A i \in 1..Len(q) : i > Len(q) - rl.violations => q[i] <= rl.age

Counts == \A ip \in Clients : Len(refusals[ip]) <= Threshold
                              /\ Counted(refusals[ip], limiters[ip])

\* Whoever was banned for its refusals is on the list, and in the file unless
\* a write has failed.
Bans == punished \subseteq Range(bans.ips) /\ (~torn => punished \subseteq Range(file.ips))

IInv == TypeOK /\ Buckets /\ Counts /\ Bans

-----------------------------------------------------------------------------
(* Numbers, and lists of points in time. *)

\* What the constants are.
LEMMA Numbers ==
  /\ Interval \in Nat /\ Interval > 0 /\ Threshold \in Nat /\ Threshold > 0
  /\ Window \in Nat /\ Window > 0 /\ MaxBans \in Nat /\ MaxBans > 0
  /\ Full \in Nat /\ Full >= Interval /\ Over \in Nat /\ Over > Window
<1>1. /\ Interval \in Nat /\ Interval > 0 /\ Threshold \in Nat /\ Threshold > 0
      /\ Window \in Nat /\ Window > 0 /\ MaxBans \in Nat /\ MaxBans > 0
      /\ MaxSteps \in Nat
  BY AdmissionAssumption
<1>2. \A m, k \in Nat : m * k \in Nat /\ (m + 2) * k = m * k + 2 * k
  OBVIOUS
<1>3. MaxSteps * Interval \in Nat /\ Full = MaxSteps * Interval + 2 * Interval
  BY <1>1, <1>2 DEF Full
<1>4. QED BY <1>1, <1>3 DEF Over

\* A point in time is forgotten when there are enough later ones.
Remember(q) == IF Len(q) < Threshold THEN Append(q, 0) ELSE Append(Tail(q), 0)

\* The latest refusal is last, the others move one place when the list is full.
LEMMA RememberFacts ==
  ASSUME NEW q \in Seq(0..Over), Len(q) <= Threshold
  PROVE  /\ Remember(q) \in Seq(0..Over)
         /\ Len(Remember(q)) = IF Len(q) < Threshold THEN Len(q) + 1 ELSE Threshold
         /\ Remember(q)[Len(Remember(q))] = 0
         /\ \A i \in 1..Len(Remember(q)) - 1 :
              Remember(q)[i] = IF Len(q) < Threshold THEN q[i] ELSE q[i + 1]
<1>1. 0 \in 0..Over /\ Len(q) \in Nat /\ Threshold \in Nat \ {0}
  BY Numbers, LenProperties
<1>2. CASE Len(q) < Threshold
  <2>1. Remember(q) = Append(q, 0)
    BY <1>2 DEF Remember
  <2>2. QED BY <1>1, <1>2, <2>1, AppendProperties
<1>3. CASE ~(Len(q) < Threshold)
  <2>1. Len(q) = Threshold /\ q # <<>>
    BY <1>1, <1>3, EmptySeq
  <2>2. /\ Tail(q) \in Seq(0..Over) /\ Len(Tail(q)) = Threshold - 1
        /\ \A i \in 1..Threshold - 1 : Tail(q)[i] = q[i + 1]
    BY <2>1, HeadTailProperties
  <2>3. Remember(q) = Append(Tail(q), 0)
    BY <1>3 DEF Remember
  <2>4. QED BY <1>1, <1>3, <2>2, <2>3, AppendProperties
<1>4. QED BY <1>2, <1>3

-----------------------------------------------------------------------------
(* Types. *)

\* The parts of an address's state.
LEMMA ClientTypes ==
  ASSUME TypeOK, NEW ip \in Clients
  PROVE  /\ limiters[ip] \in Limiter
         /\ limiters[ip].known \in BOOLEAN /\ limiters[ip].tokens \in Int
         /\ limiters[ip].since \in Int /\ limiters[ip].violations \in 0..Threshold
         /\ limiters[ip].age \in Int /\ limiters[ip].banned \in BOOLEAN
         /\ Filled(limiters[ip]) \in Int
         /\ refusals[ip] \in Seq(0..Over) /\ Len(refusals[ip]) \in Nat
         /\ sinceTry[ip] \in 0..Interval /\ sinceAdmit[ip] \in 0..Interval
<1>1. limiters[ip] \in Limiter /\ refusals[ip] \in Seq(0..Over)
      /\ sinceTry[ip] \in 0..Interval /\ sinceAdmit[ip] \in 0..Interval
  BY DEF TypeOK
<1>2. /\ limiters[ip].known \in BOOLEAN /\ limiters[ip].tokens \in Int
      /\ limiters[ip].since \in Int /\ limiters[ip].violations \in 0..Threshold
      /\ limiters[ip].age \in Int /\ limiters[ip].banned \in BOOLEAN
  BY <1>1 DEF Limiter
<1>3. Filled(limiters[ip]) \in Int
  BY <1>2, Numbers DEF Filled, Least
<1>4. Len(refusals[ip]) \in Nat
  BY <1>1, LenProperties
<1>5. QED BY <1>1, <1>2, <1>3, <1>4

\* What a connection makes of a bucket.
LEMMA LetFacts ==
  ASSUME NEW rl \in Limiter, NEW f \in Int
  PROVE  /\ Let(rl, f) \in Limiter
         /\ Let(rl, f).tokens = f - Interval /\ Let(rl, f).since = 0
         /\ Let(rl, f).known /\ Let(rl, f).violations = rl.violations
         /\ Let(rl, f).age = rl.age
<1>1. f - Interval \in Int /\ 0 \in Int
  BY Numbers
<1>2. QED BY <1>1 DEF Let, Limiter

\* What a refusal makes of a bucket.
LEMMA RefusedFacts ==
  ASSUME NEW rl \in Limiter, NEW f \in Int
  PROVE  LET r == Refused(rl, f)
             first == rl.violations = 0 \/ rl.age > Window
         IN /\ r \in Limiter
            /\ r.tokens = f /\ r.since = 0 /\ r.known /\ r.banned = rl.banned
            /\ r.violations = IF first THEN 1 ELSE Least(rl.violations + 1, Threshold)
            /\ r.age = IF first THEN 0 ELSE rl.age
<1>1. rl.violations \in 0..Threshold /\ rl.age \in Int
  BY DEF Limiter
<1>2. 1 \in 0..Threshold /\ Least(rl.violations + 1, Threshold) \in 0..Threshold
  BY <1>1, Numbers DEF Least
<1> DEFINE first == rl.violations = 0 \/ rl.age > Window
           v == IF first THEN 1 ELSE Least(rl.violations + 1, Threshold)
           a == IF first THEN 0 ELSE rl.age
<1>3. v \in 0..Threshold /\ a \in Int
  BY <1>1, <1>2
<1>4. Refused(rl, f) = [rl EXCEPT !.tokens = f, !.since = 0, !.known = TRUE,
                                  !.violations = v, !.age = a]
  BY DEF Refused
<1> HIDE DEF first, v, a
<1>5. /\ Refused(rl, f) \in Limiter /\ Refused(rl, f).tokens = f
      /\ Refused(rl, f).since = 0 /\ Refused(rl, f).known
      /\ Refused(rl, f).banned = rl.banned
      /\ Refused(rl, f).violations = v /\ Refused(rl, f).age = a
  <2> DEFINE r == [rl EXCEPT !.tokens = f, !.since = 0, !.known = TRUE,
                             !.violations = v, !.age = a]
  <2>1. /\ r \in Limiter /\ r.tokens = f /\ r.since = 0 /\ r.known = TRUE
        /\ r.banned = rl.banned /\ r.violations = v /\ r.age = a
    <3>1. f \in Int /\ 0 \in Int
      OBVIOUS
    <3>2. QED BY <1>3, <3>1 DEF Limiter
  <2> HIDE DEF r
  <2>2. Refused(rl, f) = r
    BY <1>4 DEF r
  <2>3. QED BY <2>1, <2>2
<1>6. QED BY <1>5 DEF first, v, a

\* A ban keeps the lists well typed.
LEMMA BanAddTypes ==
  ASSUME TypeOK, NEW ip \in Clients, BanAdd(ip)
  PROVE  /\ bans' \in BanList /\ Len(bans'.ips) <= MaxBans
         /\ file' \in BanList /\ Len(file'.ips) <= MaxBans
         /\ punished' \subseteq Clients /\ faults' \in Nat
         /\ up' \in BOOLEAN /\ torn' \in BOOLEAN
<1>1. CASE NoRoom
  BY <1>1 DEF BanAdd, TypeOK
<1>2. CASE ~NoRoom
  <2>1. /\ bans.ips \in Seq(Addresses) /\ bans.users \subseteq Logins
        /\ Len(bans.ips) \in Nat /\ Len(bans.ips) < MaxBans
        /\ ip \in Addresses /\ bans = [ips |-> bans.ips, users |-> bans.users]
    BY <1>2, Numbers, LenProperties DEF NoRoom, TypeOK, BanList, Addresses
  <2> DEFINE longer == Append(bans.ips, ip)
  <2>2. longer \in Seq(Addresses) /\ Len(longer) \in Nat /\ Len(longer) <= MaxBans
    BY <2>1, Numbers, AppendProperties
  <2>3. bans' = [bans EXCEPT !.ips = longer]
    BY <1>2 DEF BanAdd
  <2> HIDE DEF longer
  <2>4. bans' \in BanList /\ bans'.ips = longer /\ bans'.users = bans.users
    BY <2>1, <2>2, <2>3 DEF BanList
  <2>5. ASSUME NEW b \in Beginnings(bans')
        PROVE  b \in BanList /\ Len(b.ips) <= MaxBans
    <3>1. CASE \E n \in 0..Len(longer) : b = [ips |-> SubSeq(longer, 1, n), users |-> {}]
      <4>1. PICK n \in 0..Len(longer) : b = [ips |-> SubSeq(longer, 1, n), users |-> {}]
        BY <3>1
      <4>2. \A i \in 1..n : longer[i] \in Addresses
        BY <2>2, ElementOfSeq
      <4>3. SubSeq(longer, 1, n) \in Seq(Addresses)
            /\ Len(SubSeq(longer, 1, n)) = IF 1 <= n THEN n - 1 + 1 ELSE 0
        BY <2>2, <4>2, SubSeqProperties
      <4>4. Len(SubSeq(longer, 1, n)) <= MaxBans
        BY <2>2, <4>3, Numbers
      <4>5. QED BY <4>1, <4>3, <4>4 DEF BanList
    <3>2. CASE \E U \in SUBSET bans.users : b = [ips |-> longer, users |-> U]
      BY <2>1, <2>2, <3>2 DEF BanList
    <3>3. QED BY <2>4, <2>5, <3>1, <3>2 DEF Beginnings
  <2>6. file' \in Beginnings(bans') \cup {file, bans'}
    BY <1>2 DEF BanAdd
  <2>7. faults' \in Nat /\ up' \in BOOLEAN /\ torn' \in BOOLEAN
    <3>1. faults \in Nat /\ (faults' = faults \/ faults' = faults + 1)
      BY <1>2 DEF BanAdd, TypeOK
    <3>2. up' \in BOOLEAN
      BY <1>2 DEF BanAdd, TypeOK
    <3>3. torn' \in BOOLEAN
      BY <1>2 DEF BanAdd, TypeOK
    <3>4. QED BY <3>1, <3>2, <3>3
  <2>8. punished' \subseteq Clients
    BY <1>2 DEF BanAdd, TypeOK
  <2>9. QED BY <2>2, <2>4, <2>5, <2>6, <2>7, <2>8 DEF TypeOK
<1>3. QED BY <1>1, <1>2

\* What a refusal makes of the bucket, and of the ban list.
LEMMA RefuseFacts ==
  ASSUME TypeOK, NEW ip \in Clients, Refuse(ip)
  PROVE  LET rl == limiters[ip]
             r == limiters'[ip]
             first == rl.violations = 0 \/ rl.age > Window
         IN /\ limiters' \in [Clients -> Limiter]
            /\ \A b \in Clients \ {ip} : limiters'[b] = limiters[b]
            /\ r.tokens = Filled(rl) /\ r.since = 0 /\ r.known
            /\ r.violations = IF first THEN 1 ELSE Least(rl.violations + 1, Threshold)
            /\ r.age = IF first THEN 0 ELSE rl.age
            /\ \/ BanAdd(ip) /\ r.violations >= Threshold
               \/ UNCHANGED <<bans, file, punished, torn, faults, up>>
<1> DEFINE rl == limiters[ip]
           r == Refused(rl, Filled(rl))
           e == r.banned \/ Escalates(r)
           s == [r EXCEPT !.banned = e]
<1>1. rl \in Limiter /\ Filled(rl) \in Int
  BY ClientTypes
<1>2. /\ r \in Limiter /\ r.tokens = Filled(rl) /\ r.since = 0 /\ r.known
      /\ r.violations = IF rl.violations = 0 \/ rl.age > Window
                        THEN 1 ELSE Least(rl.violations + 1, Threshold)
      /\ r.age = IF rl.violations = 0 \/ rl.age > Window THEN 0 ELSE rl.age
  BY <1>1, RefusedFacts
<1>3. /\ limiters' = [limiters EXCEPT ![ip] = s]
      /\ IF Escalates(r) THEN BanAdd(ip)
         ELSE UNCHANGED <<bans, file, punished, torn, faults, up>>
  BY DEF Refuse
<1>4. Escalates(r) => r.violations >= Threshold
  BY DEF Escalates
<1>5. e \in BOOLEAN
  <2>1. r.banned \in BOOLEAN
    BY <1>2 DEF Limiter
  <2>2. QED BY <2>1 DEF Escalates
<1> HIDE DEF r, e
<1>6. /\ s \in Limiter /\ s.tokens = r.tokens /\ s.since = r.since
      /\ s.known = r.known /\ s.violations = r.violations /\ s.age = r.age
  BY <1>2, <1>5 DEF Limiter
<1> HIDE DEF s
<1>7. /\ limiters' \in [Clients -> Limiter] /\ limiters'[ip] = s
      /\ \A b \in Clients \ {ip} : limiters'[b] = limiters[b]
  BY <1>3, <1>6 DEF TypeOK
<1>8. QED BY <1>2, <1>3, <1>4, <1>6, <1>7

\* What a connection that is let in makes of the bucket of its address.
LEMMA AdmitFacts ==
  ASSUME TypeOK, NEW ip \in Clients, Admit(ip)
  PROVE  LET rl == limiters[ip]
             r == limiters'[ip]
         IN /\ limiters' \in [Clients -> Limiter]
            /\ \A b \in Clients \ {ip} : limiters'[b] = limiters[b]
            /\ r.tokens = Filled(rl) - Interval /\ r.since = 0 /\ r.known
            /\ r.violations = rl.violations /\ r.age = rl.age
            /\ Filled(rl) >= Interval
<1> DEFINE rl == limiters[ip]
           s == Let(rl, Filled(rl))
<1>1. rl \in Limiter /\ Filled(rl) \in Int
  BY ClientTypes
<1>2. /\ s \in Limiter /\ s.tokens = Filled(rl) - Interval /\ s.since = 0
      /\ s.known /\ s.violations = rl.violations /\ s.age = rl.age
  BY <1>1, LetFacts
<1>3. limiters' = [limiters EXCEPT ![ip] = s] /\ Filled(rl) >= Interval
  BY DEF Admit
<1> HIDE DEF s
<1>4. /\ limiters' \in [Clients -> Limiter] /\ limiters'[ip] = s
      /\ \A b \in Clients \ {ip} : limiters'[b] = limiters[b]
  BY <1>2, <1>3 DEF TypeOK
<1>5. QED BY <1>2, <1>3, <1>4

\* What a second, and a correction of the clock, make of a limiter.
LEMMA TickFacts ==
  ASSUME TypeOK, Tick, NEW ip \in Clients
  PROVE  LET rl == limiters[ip]
             r == limiters'[ip]
         IN /\ r \in Limiter /\ r.tokens = rl.tokens /\ r.known = rl.known
            /\ r.violations = rl.violations
            /\ r.since = IF rl.known THEN Least(rl.since + 1, Full) ELSE 0
            /\ r.age = IF rl.violations > 0 THEN Least(rl.age + 1, Over) ELSE 0
            /\ sinceTry'[ip] = Least(sinceTry[ip] + 1, Interval)
            /\ sinceAdmit'[ip] = Least(sinceAdmit[ip] + 1, Interval)
            /\ refusals'[ip] = [i \in DOMAIN refusals[ip] |-> Least(refusals[ip][i] + 1, Over)]
<1> DEFINE rl == limiters[ip]
           s == IF rl.known THEN Least(rl.since + 1, Full) ELSE 0
           a == IF rl.violations > 0 THEN Least(rl.age + 1, Over) ELSE 0
<1>1. /\ rl \in Limiter /\ rl.since \in Int /\ rl.age \in Int
  BY ClientTypes
<1>2. s \in Int /\ a \in Int
  BY <1>1, Numbers DEF Least
<1>3. limiters'[ip] = [rl EXCEPT !.since = s, !.age = a]
  BY DEF Tick
<1> HIDE DEF s, a
<1>4. /\ [rl EXCEPT !.since = s, !.age = a] \in Limiter
      /\ [rl EXCEPT !.since = s, !.age = a].since = s
      /\ [rl EXCEPT !.since = s, !.age = a].age = a
      /\ [rl EXCEPT !.since = s, !.age = a].tokens = rl.tokens
      /\ [rl EXCEPT !.since = s, !.age = a].known = rl.known
      /\ [rl EXCEPT !.since = s, !.age = a].violations = rl.violations
  BY <1>1, <1>2 DEF Limiter
<1>5. /\ sinceTry'[ip] = Least(sinceTry[ip] + 1, Interval)
      /\ sinceAdmit'[ip] = Least(sinceAdmit[ip] + 1, Interval)
      /\ refusals'[ip] = [i \in DOMAIN refusals[ip] |-> Least(refusals[ip][i] + 1, Over)]
  BY DEF Tick
<1>6. QED BY <1>3, <1>4, <1>5 DEF s, a

LEMMA SetBackFacts ==
  ASSUME TypeOK, SetBack, NEW ip \in Clients
  PROVE  LET rl == limiters[ip]
             r == limiters'[ip]
         IN /\ r \in Limiter /\ r.tokens = rl.tokens /\ r.known = rl.known
            /\ r.violations = rl.violations
            /\ r.since = IF rl.known THEN rl.since - Interval ELSE rl.since
<1> DEFINE rl == limiters[ip]
           a == IF rl.violations > 0 THEN rl.age - Interval ELSE 0
           r == [rl EXCEPT !.since = @ - Interval, !.age = a]
<1>1. rl \in Limiter /\ rl.since \in Int /\ rl.age \in Int
  BY ClientTypes
<1>2. rl.since - Interval \in Int /\ a \in Int
  BY <1>1, Numbers
<1>3. limiters'[ip] = IF rl.known THEN r ELSE rl
  BY DEF SetBack
<1> HIDE DEF a
<1>4. /\ r \in Limiter /\ r.tokens = rl.tokens /\ r.known = rl.known
      /\ r.violations = rl.violations /\ r.since = rl.since - Interval
  BY <1>1, <1>2 DEF Limiter
<1> HIDE DEF r
<1>5. QED BY <1>1, <1>3, <1>4

-----------------------------------------------------------------------------
(* One lemma per conjunct of the invariant, with one step per action. *)

\* A second makes every remembered point in time a second older.
LEMMA OlderFacts ==
  ASSUME NEW q \in Seq(0..Over)
  PROVE  LET o == [i \in DOMAIN q |-> Least(q[i] + 1, Over)]
         IN o \in Seq(0..Over) /\ Len(o) = Len(q)
            /\ \A i \in 1..Len(q) : o[i] = Least(q[i] + 1, Over)
<1>1. Len(q) \in Nat /\ DOMAIN q = 1..Len(q)
  BY LenProperties
<1>2. \A i \in 1..Len(q) : q[i] \in 0..Over
  BY ElementOfSeq
<1>3. \A i \in 1..Len(q) : Least(q[i] + 1, Over) \in 0..Over
  BY <1>2, Numbers DEF Least
<1> DEFINE o == [i \in 1..Len(q) |-> Least(q[i] + 1, Over)]
<1>4. o \in Seq(0..Over)
  BY <1>1, <1>3
<1>5. Len(o) = Len(q)
  BY <1>1, <1>4, LenProperties
<1>6. QED BY <1>1, <1>4, <1>5

LEMMA ListFacts ==
  ASSUME NEW S, NEW n \in Nat, NEW s \in [1..n -> S]
  PROVE  s \in Seq(S) /\ Len(s) = n
<1>1. s \in Seq(S)
  OBVIOUS
<1>2. Len(s) \in Nat /\ DOMAIN s = 1..Len(s) /\ DOMAIN s = 1..n
  BY <1>1, LenProperties
<1>3. CASE Len(s) < n
  <2>1. n \in 1..n /\ n \notin 1..Len(s)
    BY <1>2, <1>3
  <2>2. QED BY <1>2, <2>1
<1>4. CASE n < Len(s)
  <2>1. Len(s) \in 1..Len(s) /\ Len(s) \notin 1..n
    BY <1>2, <1>4
  <2>2. QED BY <1>2, <2>1
<1>5. QED BY <1>1, <1>2, <1>3, <1>4

\* A file of a list that fits is loaded whole.
LEMMA LoadedFacts ==
  ASSUME TypeOK
  PROVE  Loaded(file) \in BanList /\ Len(Loaded(file).ips) <= MaxBans
         /\ Loaded(file).ips = file.ips
<1>1. /\ file.ips \in Seq(Addresses) /\ Len(file.ips) \in Nat /\ Len(file.ips) <= MaxBans
      /\ file \in BanList
  BY LenProperties DEF TypeOK, BanList
<1>2. Least(Len(file.ips), MaxBans) = Len(file.ips)
  BY <1>1, Numbers DEF Least
<1>3. Loaded(file) = [file EXCEPT !.ips = SubSeq(@, 1, Len(file.ips))]
  BY <1>2 DEF Loaded
<1>4. SubSeq(file.ips, 1, Len(file.ips)) = file.ips
  BY <1>1, SubSeqFull
<1>5. Loaded(file) = [file EXCEPT !.ips = file.ips]
  BY <1>3, <1>4
<1>6. QED BY <1>1, <1>5 DEF BanList

\* Every step keeps the types.
LEMMA TypeKeeps ==
  ASSUME TypeOK, [Next]_vars
  PROVE  TypeOK'
<1> USE DEF TypeOK
<1>1. ASSUME NEW ip \in Clients, Drop(ip)
      PROVE  TypeOK'
  BY <1>1, Numbers DEF Drop, Called, server
<1>2. ASSUME NEW ip \in Clients, Admit(ip)
      PROVE  TypeOK'
  <2>1. limiters' \in [Clients -> Limiter]
    BY <1>2, AdmitFacts
  <2>2. /\ UNCHANGED <<up, autoBan, bans, file, edits, faults, setBack, refusals, punished, torn>>
        /\ sinceTry' = [sinceTry EXCEPT ![ip] = 0]
        /\ sinceAdmit' = [sinceAdmit EXCEPT ![ip] = 0]
    BY <1>2 DEF Admit, Called
  <2>3. sinceTry' \in [Clients -> 0..Interval] /\ sinceAdmit' \in [Clients -> 0..Interval]
    BY <2>2, Numbers
  <2>4. QED BY <2>1, <2>2, <2>3
<1>3. ASSUME NEW ip \in Clients, Refuse(ip)
      PROVE  TypeOK'
  <2>1. limiters' \in [Clients -> Limiter]
    BY <1>3, RefuseFacts
  <2>2. /\ bans' \in BanList /\ Len(bans'.ips) <= MaxBans
        /\ file' \in BanList /\ Len(file'.ips) <= MaxBans
        /\ punished' \subseteq Clients /\ faults' \in Nat
        /\ up' \in BOOLEAN /\ torn' \in BOOLEAN
    <3>1. CASE BanAdd(ip)
      BY <3>1, BanAddTypes
    <3>2. CASE UNCHANGED <<bans, file, punished, torn, faults, up>>
      BY <3>2
    <3>3. QED BY <1>3, <3>1, <3>2, RefuseFacts
  <2>3. refusals' \in [Clients -> Seq(0..Over)]
    <3>1. refusals' = [refusals EXCEPT ![ip] =
             IF Len(@) < Threshold THEN Append(@, 0) ELSE Append(Tail(@), 0)]
      BY <1>3 DEF Refuse
    <3>2. Append(refusals[ip], 0) \in Seq(0..Over)
      BY Numbers, AppendProperties
    <3>3. ~(Len(refusals[ip]) < Threshold) => Append(Tail(refusals[ip]), 0) \in Seq(0..Over)
      <4>1. SUFFICES ASSUME ~(Len(refusals[ip]) < Threshold)
                     PROVE  Append(Tail(refusals[ip]), 0) \in Seq(0..Over)
        OBVIOUS
      <4>2. refusals[ip] # <<>>
        BY <4>1, Numbers, EmptySeq
      <4>3. QED BY <4>2, Numbers, HeadTailProperties, AppendProperties
    <3>4. QED BY <3>1, <3>2, <3>3
  <2>4. /\ UNCHANGED <<autoBan, edits, setBack, sinceAdmit>>
        /\ sinceTry' = [sinceTry EXCEPT ![ip] = 0]
    BY <1>3 DEF Refuse, Called
  <2>5. sinceTry' \in [Clients -> 0..Interval]
    BY <2>4, Numbers
  <2>6. QED BY <2>1, <2>2, <2>3, <2>4, <2>5
<1>4. CASE Tick
  <2>1. limiters' \in [Clients -> Limiter]
    <3>1. \A ip \in Clients : limiters'[ip] \in Limiter
      BY <1>4, TickFacts
    <3>2. QED BY <1>4, <3>1 DEF Tick
  <2>2. refusals' \in [Clients -> Seq(0..Over)]
    BY <1>4, OlderFacts DEF Tick
  <2>3. sinceTry' \in [Clients -> 0..Interval] /\ sinceAdmit' \in [Clients -> 0..Interval]
    <3>1. \A n \in 0..Interval : Least(n + 1, Interval) \in 0..Interval
      BY Numbers DEF Least
    <3>2. \A ip \in Clients : sinceTry[ip] \in 0..Interval /\ sinceAdmit[ip] \in 0..Interval
      OBVIOUS
    <3>3. QED BY <1>4, <3>1, <3>2 DEF Tick
  <2>4. QED BY <1>4, <2>1, <2>2, <2>3 DEF Tick
<1>5. CASE SetBack
  <2>1. \A ip \in Clients : limiters'[ip] \in Limiter
    BY <1>5, SetBackFacts
  <2>2. limiters' \in [Clients -> Limiter]
    BY <1>5, <2>1 DEF SetBack
  <2>3. setBack' = setBack + 1
    BY <1>5 DEF SetBack
  <2>4. setBack' \in Nat
    BY <2>3
  <2>5. QED BY <1>5, <2>2, <2>4 DEF SetBack, ghosts
<1>6. CASE Reload
  BY <1>6 DEF Reload, server, ghosts
<1>7. CASE Edit
  <2>1. PICK ips \in UNION {[1..n -> Addresses] : n \in 0..MaxBans}, users \in SUBSET Logins :
             file' = [ips |-> ips, users |-> users]
    BY <1>7 DEF Edit
  <2>2. PICK n \in 0..MaxBans : ips \in [1..n -> Addresses]
    BY <2>1
  <2>3. ips \in Seq(Addresses) /\ Len(ips) = n
    <3>1. n \in Nat
      BY Numbers
    <3>2. QED BY <2>2, <3>1, ListFacts
  <2>4. file' \in BanList /\ Len(file'.ips) <= MaxBans
    BY <2>1, <2>2, <2>3, Numbers DEF BanList
  <2>5. edits' \in Nat /\ punished' \subseteq Clients
    BY <1>7 DEF Edit
  <2>6. UNCHANGED <<up, autoBan, server, faults, setBack, sinceTry, sinceAdmit, refusals, torn>>
    BY <1>7 DEF Edit
  <2>7. QED BY <2>4, <2>5, <2>6 DEF server
<1>8. CASE Stop
  <2>1. faults' = faults + 1 /\ up' = FALSE
    BY <1>8 DEF Stop
  <2>2. UNCHANGED <<autoBan, server, file, edits, setBack, ghosts, torn>>
    BY <1>8 DEF Stop
  <2>3. faults' \in Nat
    BY <2>1
  <2>4. QED BY <2>1, <2>2, <2>3 DEF server, ghosts
<1>9. CASE Start
  <2>1. [ip \in Clients |-> NoLimiter] \in [Clients -> Limiter]
    BY Numbers DEF NoLimiter, Limiter
  <2>2. Loaded(file) \in BanList /\ Len(Loaded(file).ips) <= MaxBans
    BY LoadedFacts
  <2>3. <<>> \in Seq(0..Over)
    BY EmptySeq
  <2>4. /\ up' = TRUE /\ torn' = FALSE /\ setBack' = 0
        /\ limiters' = [ip \in Clients |-> NoLimiter] /\ bans' = Loaded(file)
        /\ sinceTry' = [ip \in Clients |-> Interval]
        /\ sinceAdmit' = [ip \in Clients |-> Interval]
        /\ refusals' = [ip \in Clients |-> <<>>]
        /\ UNCHANGED <<autoBan, file, edits, faults>>
    BY <1>9 DEF Start
  <2>5. punished' \subseteq Clients
    BY <1>9 DEF Start
  <2>6. sinceTry' \in [Clients -> 0..Interval] /\ sinceAdmit' \in [Clients -> 0..Interval]
    BY <2>4, Numbers
  <2>7. QED BY <2>1, <2>2, <2>3, <2>4, <2>5, <2>6
<1>10. CASE UNCHANGED vars
  BY <1>10 DEF vars, server, ghosts
<1>11. QED BY <1>1, <1>2, <1>3, <1>4, <1>5, <1>6, <1>7, <1>8, <1>9, <1>10 DEF Next

\* The bucket of one address.
Bucket(rl, try, admit, back) ==
  /\ rl.tokens <= Interval
  /\ (rl.known \/ (rl.tokens = Interval /\ rl.since = 0))
  /\ admit >= Interval \/ rl.tokens + rl.since <= admit
  /\ back = 0 => rl.tokens >= 0 /\ rl.since >= 0 /\ rl.tokens + rl.since >= try

\* Every step keeps the buckets between the two times.
LEMMA BucketsKeep ==
  ASSUME TypeOK, Buckets, [Next]_vars
  PROVE  Buckets'
<1>0. \A ip \in Clients : Bucket(limiters[ip], sinceTry[ip], sinceAdmit[ip], setBack)
  BY DEF Buckets, Bucket
<1> SUFFICES ASSUME NEW b \in Clients
             PROVE  Bucket(limiters'[b], sinceTry'[b], sinceAdmit'[b], setBack')
  BY DEF Buckets, Bucket
<1> DEFINE rl == limiters[b]
<1>a. /\ rl.tokens \in Int /\ rl.since \in Int /\ rl.known \in BOOLEAN
      /\ sinceTry[b] \in 0..Interval /\ sinceAdmit[b] \in 0..Interval
      /\ Bucket(rl, sinceTry[b], sinceAdmit[b], setBack) /\ setBack \in Nat
  BY <1>0, ClientTypes DEF TypeOK
<1>b. CASE /\ limiters'[b] = limiters[b] /\ sinceAdmit'[b] = sinceAdmit[b] /\ setBack' = setBack
           /\ sinceTry'[b] = sinceTry[b] \/ sinceTry'[b] = 0
  BY <1>a, <1>b DEF Bucket
<1>1. ASSUME NEW ip \in Clients, Drop(ip)
      PROVE  Bucket(limiters'[b], sinceTry'[b], sinceAdmit'[b], setBack')
  BY <1>b, <1>1 DEF Drop, Called, server, TypeOK
<1>2. ASSUME NEW ip \in Clients, Admit(ip)
      PROVE  Bucket(limiters'[b], sinceTry'[b], sinceAdmit'[b], setBack')
  <2>1. /\ sinceTry' = [sinceTry EXCEPT ![ip] = 0] /\ setBack' = setBack
        /\ sinceAdmit' = [sinceAdmit EXCEPT ![ip] = 0]
    BY <1>2 DEF Admit, Called
  <2>2. CASE b = ip
    <3>1. /\ limiters'[b].tokens = Filled(rl) - Interval /\ limiters'[b].since = 0
          /\ limiters'[b].known /\ Filled(rl) >= Interval
      BY <1>2, <2>2, AdmitFacts
    <3>2. Filled(rl) = Interval
      BY <1>a, <3>1, Numbers DEF Filled, Least
    <3>3. sinceTry'[b] = 0 /\ sinceAdmit'[b] = 0
      BY <2>1, <2>2 DEF TypeOK
    <3>4. QED BY <3>1, <3>2, <3>3, Numbers DEF Bucket
  <2>3. CASE b # ip
    <3>1. limiters'[b] = limiters[b]
      BY <1>2, <2>3, AdmitFacts
    <3>2. QED BY <1>b, <2>1, <2>3, <3>1 DEF TypeOK
  <2>4. QED BY <2>2, <2>3
<1>3. ASSUME NEW ip \in Clients, Refuse(ip)
      PROVE  Bucket(limiters'[b], sinceTry'[b], sinceAdmit'[b], setBack')
  <2>1. /\ sinceTry' = [sinceTry EXCEPT ![ip] = 0] /\ setBack' = setBack
        /\ sinceAdmit' = sinceAdmit /\ Filled(limiters[ip]) < Interval
    BY <1>3 DEF Refuse, Called
  <2>2. CASE b = ip
    <3>1. /\ limiters'[b].tokens = Filled(rl) /\ limiters'[b].since = 0 /\ limiters'[b].known
      BY <1>3, <2>2, RefuseFacts
    <3>2. Filled(rl) = rl.tokens + rl.since /\ Filled(rl) < Interval
      BY <1>a, <2>1, <2>2, Numbers DEF Filled, Least
    <3>3. sinceTry'[b] = 0 /\ sinceAdmit'[b] = sinceAdmit[b]
      BY <2>1, <2>2 DEF TypeOK
    <3>4. QED BY <1>a, <2>1, <3>1, <3>2, <3>3, Numbers DEF Bucket
  <2>3. CASE b # ip
    <3>1. limiters'[b] = limiters[b]
      BY <1>3, <2>3, RefuseFacts
    <3>2. QED BY <1>b, <2>1, <2>3, <3>1 DEF TypeOK
  <2>4. QED BY <2>2, <2>3
<1>4. CASE Tick
  <2>1. /\ limiters'[b].tokens = rl.tokens /\ limiters'[b].known = rl.known
        /\ limiters'[b].since = IF rl.known THEN Least(rl.since + 1, Full) ELSE 0
        /\ sinceTry'[b] = Least(sinceTry[b] + 1, Interval)
        /\ sinceAdmit'[b] = Least(sinceAdmit[b] + 1, Interval)
    BY <1>4, TickFacts
  <2>2. setBack' = setBack
    BY <1>4 DEF Tick
  <2>3. CASE rl.known
    BY <1>a, <2>1, <2>2, <2>3, Numbers DEF Bucket, Least
  <2>4. CASE ~rl.known
    BY <1>a, <2>1, <2>2, <2>4, Numbers DEF Bucket, Least
  <2>5. QED BY <2>3, <2>4
<1>5. CASE SetBack
  <2>1. /\ limiters'[b].tokens = rl.tokens /\ limiters'[b].known = rl.known
        /\ limiters'[b].since = IF rl.known THEN rl.since - Interval ELSE rl.since
    BY <1>5, SetBackFacts
  <2>2. setBack' = setBack + 1 /\ UNCHANGED <<sinceTry, sinceAdmit>>
    BY <1>5 DEF SetBack, ghosts
  <2>3. QED BY <1>a, <2>1, <2>2, Numbers DEF Bucket
<1>6. CASE Reload \/ Edit \/ Stop \/ UNCHANGED vars
  BY <1>b, <1>6 DEF Reload, Edit, Stop, vars, server, ghosts
<1>7. CASE Start
  <2>1. /\ limiters'[b] = NoLimiter /\ sinceTry'[b] = Interval /\ sinceAdmit'[b] = Interval
    BY <1>7 DEF Start
  <2>2. QED BY <2>1, Numbers DEF Bucket, NoLimiter
<1>8. QED BY <1>1, <1>2, <1>3, <1>4, <1>5, <1>6, <1>7 DEF Next

\* Every step keeps the counts within the refusals remembered.
LEMMA CountsKeep ==
  ASSUME TypeOK, Counts, [Next]_vars
  PROVE  Counts'
<1> DEFINE Fine(q, rl, back) ==
             /\ Len(q) <= Threshold /\ rl.violations <= Len(q)
             /\ back = 0 =>
                  /\ rl.age >= 0
                  /\ rl.violations > 0 =>
                       \A i \in 1..Len(q) : i > Len(q) - rl.violations => q[i] <= rl.age
<1>0. \A ip \in Clients : Fine(refusals[ip], limiters[ip], setBack)
  BY DEF Counts, Counted
<1> SUFFICES ASSUME NEW b \in Clients
             PROVE  Fine(refusals'[b], limiters'[b], setBack')
  BY DEF Counts, Counted
<1> DEFINE rl == limiters[b]
           q == refusals[b]
<1>a. /\ rl.violations \in 0..Threshold /\ rl.age \in Int
      /\ q \in Seq(0..Over) /\ Len(q) \in Nat /\ setBack \in Nat
      /\ \A i \in 1..Len(q) : q[i] \in 0..Over
  BY ClientTypes, ElementOfSeq DEF TypeOK
<1>b. Fine(q, rl, setBack)
  BY <1>0
<1>c. CASE /\ limiters'[b].violations = rl.violations /\ limiters'[b].age = rl.age
           /\ refusals'[b] = q /\ setBack' = setBack
  BY <1>b, <1>c
<1>1. ASSUME NEW ip \in Clients, Drop(ip)
      PROVE  Fine(refusals'[b], limiters'[b], setBack')
  <2>1. UNCHANGED <<limiters, refusals, setBack>>
    BY <1>1 DEF Drop, server
  <2>2. QED BY <1>c, <2>1
<1>2. ASSUME NEW ip \in Clients, Admit(ip)
      PROVE  Fine(refusals'[b], limiters'[b], setBack')
  <2>1. UNCHANGED <<refusals, setBack>>
    BY <1>2 DEF Admit
  <2>2. limiters'[b].violations = rl.violations /\ limiters'[b].age = rl.age
    BY <1>2, AdmitFacts
  <2>3. QED BY <1>c, <2>1, <2>2
<1>3. ASSUME NEW ip \in Clients, Refuse(ip)
      PROVE  Fine(refusals'[b], limiters'[b], setBack')
  <2>1. refusals' = [refusals EXCEPT ![ip] = Remember(@)] /\ setBack' = setBack
    BY <1>3 DEF Refuse, Remember
  <2>2. CASE b = ip
    <3> DEFINE first == rl.violations = 0 \/ rl.age > Window
               r == limiters'[b]
               q2 == Remember(q)
               n == Len(q2)
    <3>1. /\ r.violations = IF first THEN 1 ELSE Least(rl.violations + 1, Threshold)
          /\ r.age = IF first THEN 0 ELSE rl.age
      BY <1>3, <2>2, RefuseFacts
    <3>2. refusals'[b] = q2
      BY <2>1, <2>2 DEF TypeOK
    <3>3. /\ n = IF Len(q) < Threshold THEN Len(q) + 1 ELSE Threshold
          /\ q2[n] = 0
          /\ \A i \in 1..n - 1 : q2[i] = IF Len(q) < Threshold THEN q[i] ELSE q[i + 1]
      BY <1>a, <1>b, RememberFacts
    <3> HIDE DEF q2, n, r
    <3>4. n <= Threshold /\ n \in Nat /\ n > 0
      BY <1>a, <3>3, Numbers
    <3>5. r.violations <= n /\ r.violations \in Nat
      BY SMTT(30), <1>a, <1>b, <3>1, <3>3, <3>4, Numbers DEF Least
    <3>6. ASSUME setBack = 0, NEW i \in 1..n, i > n - r.violations
          PROVE  q2[i] <= r.age
      <4>1. CASE i = n
        BY <1>a, <1>b, <3>1, <3>3, <3>6, <4>1
      <4>2. CASE i # n /\ first
        BY <3>1, <3>4, <3>6, <4>2
      <4>3. CASE i # n /\ ~first
        <5>1. i \in 1..n - 1 /\ rl.violations > 0 /\ r.age = rl.age
              /\ r.violations <= rl.violations + 1
          BY <1>a, <3>1, <3>4, <4>3, Numbers DEF Least
        <5>2. CASE Len(q) < Threshold
          <6>1. n = Len(q) + 1 /\ q2[i] = q[i] /\ i \in 1..Len(q)
            BY <1>a, <3>3, <5>1, <5>2
          <6>2. i > Len(q) - rl.violations
            BY <1>a, <3>5, <3>6, <5>1, <6>1
          <6>3. QED BY <1>b, <3>6, <5>1, <6>1, <6>2
        <5>3. CASE ~(Len(q) < Threshold)
          <6>1. n = Threshold /\ Len(q) = Threshold
            BY <1>a, <1>b, <3>3, <5>3, Numbers
          <6>2. q2[i] = q[i + 1] /\ i + 1 \in 1..Len(q)
            BY <3>3, <5>1, <5>3, <6>1, Numbers
          <6>3. i + 1 > Len(q) - rl.violations
            BY <1>a, <3>4, <3>5, <3>6, <5>1, <6>1
          <6>4. QED BY <1>b, <3>6, <5>1, <6>2, <6>3
        <5>4. QED BY <5>2, <5>3
      <4>4. QED BY <4>1, <4>2, <4>3
    <3>7. setBack = 0 => r.age >= 0
      BY <1>b, <3>1
    <3>8. QED BY <2>1, <3>2, <3>4, <3>5, <3>6, <3>7 DEF n, r
  <2>3. CASE b # ip
    <3>1. limiters'[b] = limiters[b] /\ refusals'[b] = q
      BY <1>3, <2>1, <2>3, RefuseFacts DEF TypeOK
    <3>2. QED BY <1>c, <2>1, <3>1
  <2>4. QED BY <2>2, <2>3
<1>4. CASE Tick
  <2>1. /\ limiters'[b].violations = rl.violations
        /\ limiters'[b].age = IF rl.violations > 0 THEN Least(rl.age + 1, Over) ELSE 0
        /\ refusals'[b] = [i \in DOMAIN q |-> Least(q[i] + 1, Over)]
    BY <1>4, TickFacts
  <2>2. setBack' = setBack
    BY <1>4 DEF Tick
  <2>3. /\ Len(refusals'[b]) = Len(q)
        /\ \A i \in 1..Len(q) : refusals'[b][i] = Least(q[i] + 1, Over)
    BY <1>a, <2>1, OlderFacts
  <2>4. CASE rl.violations > 0
    <3>1. \A x, y \in Int : x <= y => Least(x + 1, Over) <= Least(y + 1, Over)
      BY Numbers DEF Least
    <3>2. setBack = 0 => \A i \in 1..Len(q) : i > Len(q) - rl.violations => q[i] <= rl.age
      BY <1>b, <2>4
    <3>3. setBack = 0 => \A i \in 1..Len(q) : i > Len(q) - rl.violations =>
                           Least(q[i] + 1, Over) <= Least(rl.age + 1, Over)
      BY <1>a, <3>1, <3>2
    <3>4. setBack = 0 => Least(rl.age + 1, Over) >= 0
      BY <1>a, <1>b, Numbers DEF Least
    <3>5. QED BY <1>a, <1>b, <2>1, <2>2, <2>3, <2>4, <3>3, <3>4
  <2>5. CASE ~(rl.violations > 0)
    BY <1>a, <1>b, <2>1, <2>2, <2>3, <2>5
  <2>6. QED BY <2>4, <2>5
<1>5. CASE SetBack
  <2>1. limiters'[b].violations = rl.violations
    BY <1>5, SetBackFacts
  <2>2. setBack' = setBack + 1 /\ UNCHANGED refusals
    BY <1>5 DEF SetBack, ghosts
  <2>3. QED BY <1>a, <1>b, <2>1, <2>2
<1>6. CASE Reload \/ Edit \/ Stop \/ UNCHANGED vars
  <2>1. UNCHANGED <<limiters, refusals, setBack>>
    BY <1>6 DEF Reload, Edit, Stop, vars, server, ghosts
  <2>2. QED BY <1>c, <2>1
<1>7. CASE Start
  <2>1. limiters'[b] = NoLimiter /\ refusals'[b] = <<>>
    BY <1>7 DEF Start
  <2>2. Len(refusals'[b]) = 0
    BY <2>1, EmptySeq
  <2>3. QED BY <2>1, <2>2, Numbers DEF NoLimiter
<1>8. QED BY <1>1, <1>2, <1>3, <1>4, <1>5, <1>6, <1>7 DEF Next

LEMMA RangeOfAppend ==
  ASSUME NEW S, NEW q \in Seq(S), NEW x \in S
  PROVE  Range(Append(q, x)) = Range(q) \cup {x}
<1> DEFINE n == Len(q)
           a == Append(q, x)
<1>1. n \in Nat /\ DOMAIN q = 1..n
  BY LenProperties
<1>2. a \in Seq(S) /\ Len(a) = n + 1 /\ a[n + 1] = x /\ \A i \in 1..n : a[i] = q[i]
  BY AppendProperties
<1>3. DOMAIN a = 1..n + 1
  BY <1>2, LenProperties
<1> HIDE DEF n, a
<1>4. 1..n + 1 = 1..n \cup {n + 1}
  BY <1>1
<1>5. Range(a) = {a[i] : i \in 1..n \cup {n + 1}} /\ Range(q) = {q[i] : i \in 1..n}
  BY <1>1, <1>3, <1>4 DEF Range
<1>6. QED BY <1>2, <1>5 DEF a

\* What a ban adds to the list it also adds to the file, or the write failed.
LEMMA BansKeep ==
  ASSUME TypeOK, Bans, [Next]_vars
  PROVE  Bans'
<1>1. ASSUME NEW ip \in Clients, Drop(ip) \/ Admit(ip)
      PROVE  Bans'
  BY <1>1 DEF Drop, Admit, server, Bans
<1>2. ASSUME NEW ip \in Clients, BanAdd(ip)
      PROVE  Bans'
  <2>1. CASE NoRoom
    BY <1>2, <2>1 DEF BanAdd, Bans
  <2>2. CASE ~NoRoom
    <3>1. /\ bans' = [bans EXCEPT !.ips = Append(@, ip)]
          /\ punished' = punished \cup {ip} /\ (torn' = TRUE \/ file' = bans')
      BY <1>2, <2>2 DEF BanAdd
    <3>2. bans'.ips = Append(bans.ips, ip) /\ bans.ips \in Seq(Addresses) /\ ip \in Addresses
      BY <3>1 DEF TypeOK, BanList, Addresses
    <3>3. Range(bans'.ips) = Range(bans.ips) \cup {ip}
      BY <3>2, RangeOfAppend
    <3>4. QED BY <3>1, <3>3 DEF Bans
  <2>3. QED BY <2>1, <2>2
<1>3. ASSUME NEW ip \in Clients, Refuse(ip)
      PROVE  Bans'
  <2>1. BanAdd(ip) \/ UNCHANGED <<bans, file, punished, torn, faults, up>>
    BY <1>3, RefuseFacts
  <2>2. QED BY <1>2, <2>1 DEF Bans
<1>4. CASE Tick \/ SetBack \/ Reload \/ Stop \/ UNCHANGED vars
  BY <1>4 DEF Tick, SetBack, Reload, Stop, vars, server, ghosts, Bans
<1>5. CASE Edit
  <2>1. UNCHANGED <<bans, torn>> /\ punished' = punished \cap Range(file'.ips)
    BY <1>5 DEF Edit, server
  <2>2. QED BY <2>1 DEF Bans
<1>6. CASE Start
  <2>1. /\ bans' = Loaded(file) /\ file' = file
        /\ punished' = IF torn THEN punished \cap Range(file.ips) ELSE punished
    BY <1>6 DEF Start
  <2>2. bans'.ips = file.ips
    BY <2>1, LoadedFacts
  <2>3. QED BY <2>1, <2>2 DEF Bans
<1>7. QED BY <1>1, <1>3, <1>4, <1>5, <1>6 DEF Next

-----------------------------------------------------------------------------
(* The theorems. *)

\* The invariant holds at first.
LEMMA InitIInv == Init => IInv
<1> SUFFICES ASSUME Init PROVE IInv
  OBVIOUS
<1>1. \A ip \in Clients : limiters[ip] = NoLimiter /\ refusals[ip] = <<>>
                          /\ sinceTry[ip] = Interval /\ sinceAdmit[ip] = Interval
  BY DEF Init
<1>2. Len(<<>>) = 0 /\ <<>> \in Seq(Addresses) /\ <<>> \in Seq(0..Over)
  BY EmptySeq
<1>3. TypeOK
  <2>1. NoLimiter \in Limiter /\ NoBans \in BanList /\ Len(NoBans.ips) <= MaxBans
    BY <1>2, Numbers DEF NoLimiter, Limiter, NoBans, BanList
  <2>2. /\ limiters \in [Clients -> Limiter] /\ bans \in BanList /\ file \in BanList
        /\ Len(bans.ips) <= MaxBans /\ Len(file.ips) <= MaxBans
        /\ refusals \in [Clients -> Seq(0..Over)]
    BY <1>2, <2>1 DEF Init
  <2>3. sinceTry \in [Clients -> 0..Interval] /\ sinceAdmit \in [Clients -> 0..Interval]
    BY Numbers DEF Init
  <2>4. QED BY <2>2, <2>3 DEF Init, TypeOK
<1>4. Buckets
  BY <1>1, Numbers DEF Buckets, NoLimiter
<1>5. Counts
  BY <1>1, <1>2, Numbers DEF Counts, Counted, NoLimiter
<1>6. Bans
  BY DEF Init, Bans
<1>7. QED BY <1>3, <1>4, <1>5, <1>6 DEF IInv

\* Every step keeps the invariant.
LEMMA NextIInv == IInv /\ [Next]_vars => IInv'
  BY TypeKeeps, BucketsKeep, CountsKeep, BansKeep DEF IInv

\* Only Admit lets anyone in.
LEMMA WhoIsLetIn ==
  ASSUME [Next]_vars, LetIn
  PROVE  (\E ip \in Clients : Admit(ip) /\ last'.ip = ip) \/ UNCHANGED vars
<1>1. last'.verdict \in {"admitted", "name banned"}
  BY DEF LetIn
<1>2. ASSUME NEW ip \in Clients, Drop(ip) \/ Refuse(ip)
      PROVE  FALSE
  <2>1. Called(ip, "dropped") \/ Called(ip, "refused")
    BY <1>2 DEF Drop, Refuse
  <2>2. last' = [ip |-> ip, verdict |-> "dropped"] \/ last' = [ip |-> ip, verdict |-> "refused"]
    BY <2>1 DEF Called
  <2>3. last'.verdict = "dropped" \/ last'.verdict = "refused"
    BY <2>2
  <2>4. QED BY <1>1, <2>3
<1>3. ASSUME NEW ip \in Clients, Admit(ip)
      PROVE  last'.ip = ip
  <2>1. \E v : last' = [ip |-> ip, verdict |-> v]
    BY <1>3 DEF Admit, Called
  <2>2. QED BY <2>1
<1>4. CASE Tick \/ SetBack \/ Reload \/ Edit \/ Stop \/ Start
  <2>1. last' = NoCall
    BY <1>4 DEF Tick, SetBack, Reload, Edit, Stop, Start
  <2>2. QED BY <1>1, <2>1 DEF NoCall
<1>5. QED BY <1>2, <1>3, <1>4 DEF Next

\* Only Refuse refuses.
LEMMA WhoIsRefused ==
  ASSUME [Next]_vars, last'.verdict = "refused"
  PROVE  (\E ip \in Clients : Refuse(ip) /\ last'.ip = ip) \/ UNCHANGED vars
<1>1. ASSUME NEW ip \in Clients, Drop(ip)
      PROVE  FALSE
  <2>1. last' = [ip |-> ip, verdict |-> "dropped"]
    BY <1>1 DEF Drop, Called
  <2>2. QED BY <2>1
<1>2. ASSUME NEW ip \in Clients, Admit(ip)
      PROVE  FALSE
  <2>1. PICK l \in Logins :
           Called(ip, IF l \in bans.users THEN "name banned" ELSE "admitted")
    BY <1>2 DEF Admit
  <2> DEFINE v == IF l \in bans.users THEN "name banned" ELSE "admitted"
  <2>2. last' = [ip |-> ip, verdict |-> v]
    BY <2>1 DEF Called
  <2>3. last'.verdict = v
    BY <2>2
  <2>4. QED BY <2>3
<1>3. ASSUME NEW ip \in Clients, Refuse(ip)
      PROVE  last'.ip = ip
  <2>1. last' = [ip |-> ip, verdict |-> "refused"]
    BY <1>3 DEF Refuse, Called
  <2>2. QED BY <2>1
<1>4. CASE Tick \/ SetBack \/ Reload \/ Edit \/ Stop \/ Start
  <2>1. last' = NoCall
    BY <1>4 DEF Tick, SetBack, Reload, Edit, Stop, Start
  <2>2. QED BY <2>1 DEF NoCall
<1>5. QED BY <1>1, <1>2, <1>3, <1>4 DEF Next

\* Only Refuse bans, with as many refusals counted as it takes.
LEMMA WhoIsBanned ==
  ASSUME TypeOK, [Next]_vars, NEW ip \in punished' \ punished
  PROVE  ip \in Clients /\ Refuse(ip) /\ BanAdd(ip) /\ limiters'[ip].violations >= Threshold
<1>1. CASE \E b \in Clients : Refuse(b)
  <2>1. PICK b \in Clients : Refuse(b)
    BY <1>1
  <2>2. \/ BanAdd(b) /\ limiters'[b].violations >= Threshold
        \/ UNCHANGED <<bans, file, punished, torn, faults, up>>
    BY <2>1, RefuseFacts
  <2>3. BanAdd(b) => punished' = punished \/ punished' = punished \cup {b}
    BY DEF BanAdd
  <2>4. CASE BanAdd(b) /\ limiters'[b].violations >= Threshold
    <3>1. ip = b
      BY <2>3, <2>4
    <3>2. QED BY <2>1, <2>4, <3>1
  <2>5. CASE UNCHANGED <<bans, file, punished, torn, faults, up>>
    <3>1. punished' = punished
      BY <2>5
    <3>2. QED BY <3>1
  <2>6. QED BY <2>2, <2>4, <2>5
<1>2. CASE \E b \in Clients : Drop(b) \/ Admit(b)
  BY <1>2 DEF Drop, Admit
<1>3. CASE Tick \/ SetBack \/ Reload \/ Edit \/ Stop \/ Start \/ UNCHANGED vars
  BY <1>3 DEF Tick, SetBack, Reload, Edit, Stop, Start, ghosts, vars
<1>4. QED BY <1>1, <1>2, <1>3 DEF Next

\* No address is let in twice within Interval seconds (hl_server_rate_limit_check),
\* whatever the clock is set back by.
THEOREM RateIsKept == Spec => RateKept
<1>1. IInv /\ [Next]_vars => [LetIn => sinceAdmit[last'.ip] >= Interval]_vars
  <2>1. SUFFICES ASSUME IInv, [Next]_vars, LetIn, ~UNCHANGED vars
                 PROVE  sinceAdmit[last'.ip] >= Interval
    OBVIOUS
  <2>2. PICK ip \in Clients : Admit(ip) /\ last'.ip = ip
    BY <2>1, WhoIsLetIn
  <2>3. /\ limiters[ip].tokens \in Int /\ limiters[ip].since \in Int
        /\ sinceAdmit[ip] \in 0..Interval
    BY <2>1, ClientTypes DEF IInv
  <2>4. limiters[ip].tokens + limiters[ip].since >= Interval
    <3>1. Filled(limiters[ip]) >= Interval
      BY <2>2 DEF Admit
    <3>2. QED BY <2>3, <3>1, Numbers DEF Filled, Least
  <2>5. sinceAdmit[ip] >= Interval
        \/ limiters[ip].tokens + limiters[ip].since <= sinceAdmit[ip]
    BY <2>1 DEF IInv, Buckets
  <2>6. QED BY <2>2, <2>3, <2>4, <2>5, Numbers
<1>2. QED BY <1>1, InitIInv, NextIInv, PTL DEF Spec, RateKept

\* An address that waits Interval seconds before it connects again is let in,
\* unless it is banned or the clock was set back.
THEOREM PoliteIsServed == Spec => PoliteServed
<1>1. IInv /\ [Next]_vars =>
        [last'.verdict = "refused" => sinceTry[last'.ip] < Interval \/ setBack > 0]_vars
  <2>1. SUFFICES ASSUME IInv, [Next]_vars, last'.verdict = "refused", ~UNCHANGED vars
                 PROVE  sinceTry[last'.ip] < Interval \/ setBack > 0
    OBVIOUS
  <2>2. PICK ip \in Clients : Refuse(ip) /\ last'.ip = ip
    BY <2>1, WhoIsRefused
  <2>3. /\ limiters[ip].tokens \in Int /\ limiters[ip].since \in Int
        /\ sinceTry[ip] \in 0..Interval /\ setBack \in Nat
    BY <2>1, ClientTypes DEF IInv, TypeOK
  <2>4. limiters[ip].tokens + limiters[ip].since < Interval
    <3>1. Filled(limiters[ip]) < Interval
      BY <2>2 DEF Refuse
    <3>2. QED BY <2>3, <3>1, Numbers DEF Filled, Least
  <2>5. setBack = 0 => limiters[ip].tokens + limiters[ip].since >= sinceTry[ip]
    BY <2>1 DEF IInv, Buckets
  <2>6. QED BY <2>2, <2>3, <2>4, <2>5, Numbers
<1>2. QED BY <1>1, InitIInv, NextIInv, PTL DEF Spec, PoliteServed

\* Whoever is banned was refused Threshold times, within one window unless
\* the clock was set back.
THEOREM BansAreEarned == Spec => BanEarned
<1>1. IInv /\ [Next]_vars =>
        [\A ip \in punished' \ punished :
           /\ Len(refusals'[ip]) = Threshold
           /\ setBack = 0 => refusals'[ip][1] <= Window]_vars
  <2>1. SUFFICES ASSUME IInv, [Next]_vars, NEW ip \in punished' \ punished
                 PROVE  /\ Len(refusals'[ip]) = Threshold
                        /\ setBack = 0 => refusals'[ip][1] <= Window
    OBVIOUS
  <2>2. ip \in Clients /\ Refuse(ip) /\ BanAdd(ip) /\ limiters'[ip].violations >= Threshold
    BY <2>1, WhoIsBanned DEF IInv
  <2>3. IInv'
    BY <2>1, NextIInv
  <2> DEFINE r == limiters'[ip]
             q == refusals'[ip]
  <2>4. /\ Len(q) \in Nat /\ Len(q) <= Threshold /\ r.violations <= Len(q)
        /\ r.violations \in 0..Threshold /\ r.age \in Int
        /\ q \in Seq(0..Over)
    <3>1. TypeOK' /\ Counts'
      BY <2>3 DEF IInv
    <3>2. r \in Limiter /\ q \in Seq(0..Over)
      BY <2>2, <3>1 DEF TypeOK
    <3>3. r.violations \in 0..Threshold /\ r.age \in Int
      BY <3>2 DEF Limiter
    <3>4. Len(q) <= Threshold /\ r.violations <= Len(q)
      BY <2>2, <3>1 DEF Counts, Counted
    <3>5. QED BY <3>2, <3>3, <3>4, LenProperties
  <2>5. Len(q) = Threshold /\ r.violations = Threshold
    BY <2>2, <2>4, Numbers
  <2>6. ASSUME setBack = 0
        PROVE  q[1] <= Window
    <3>1. setBack' = 0
      BY <2>2, <2>6 DEF Refuse
    <3>2. q[1] <= r.age
      <4>1. \A i \in 1..Len(q) : i > Len(q) - r.violations => q[i] <= r.age
        BY <2>2, <2>3, <2>5, <3>1, Numbers DEF IInv, Counts, Counted
      <4>2. 1 \in 1..Len(q) /\ 1 > Len(q) - r.violations
        BY <2>5, Numbers
      <4>3. QED BY <4>1, <4>2
    <3>3. r.age <= Window
      <4>1. r.age = 0 \/ (r.age = limiters[ip].age /\ ~(limiters[ip].age > Window))
        BY <2>1, <2>2, RefuseFacts DEF IInv
      <4>2. QED BY <2>4, <4>1, Numbers
    <3>4. q[1] \in 0..Over
      BY <2>4, <2>5, Numbers, ElementOfSeq
    <3>5. QED BY <2>4, <3>2, <3>3, <3>4, Numbers
  <2>7. QED BY <2>5, <2>6
<1>2. QED BY <1>1, InitIInv, NextIInv, PTL DEF Spec, BanEarned

\* A banned address is not let in, in this run of the server or a later one,
\* before the operator pardons it, unless a write of the file failed.
THEOREM BannedStay == Spec => BannedStayOut
<1>1. IInv /\ [Next]_vars => [LetIn => last'.ip \notin punished]_vars
  <2>1. SUFFICES ASSUME IInv, [Next]_vars, LetIn, ~UNCHANGED vars
                 PROVE  last'.ip \notin punished
    OBVIOUS
  <2>2. PICK ip \in Clients : Admit(ip) /\ last'.ip = ip
    BY <2>1, WhoIsLetIn
  <2>3. ip \notin Range(bans.ips)
    BY <2>2 DEF Admit, IsBanned
  <2>4. QED BY <2>1, <2>2, <2>3 DEF IInv, Bans
<1>2. QED BY <1>1, InitIInv, NextIInv, PTL DEF Spec, BannedStayOut

-----------------------------------------------------------------------------
(* Induction up to a number: were there numbers that are not in T, there     *)
(* would be a least one.  Among the sets of such numbers below each of them  *)
(* one is contained in no other.                                             *)

LEMMA LeastElement ==
  ASSUME NEW n \in Nat, NEW S \in SUBSET (1 .. n), S # {}
  PROVE  \E i \in S : \A j \in S : i <= j
<1> DEFINE Below(i) == {j \in S : j <= i}
           T == {Below(i) : i \in S}
<1>1. IsFiniteSet(S)
  <2>1. 1 \in Int /\ n \in Int
    OBVIOUS
  <2>2. IsFiniteSet(1 .. n)
    BY <2>1, FS_Interval
  <2>3. QED BY <2>2, FS_Subset
<1>2. IsWellFoundedOn(StrictSubsetOrdering(S), SUBSET S)
  BY <1>1, FS_FiniteSubsetsOfFinite, FS_StrictSubsetOrderingWellFounded
<1>3. T \subseteq SUBSET S /\ T # {}
  OBVIOUS
<1>4. PICK x \in T : \A y \in T : ~(<<y, x>> \in StrictSubsetOrdering(S))
  BY <1>2, <1>3, WFMin
<1>5. PICK i \in S : x = Below(i)
  BY <1>4
<1>6. ASSUME NEW j \in S, j < i
      PROVE  FALSE
  <2>1. i \in Int /\ j \in Int /\ \A k \in S : k \in Int
    OBVIOUS
  <2>2. \A k \in S : k <= j => k <= i
    BY <1>6, <2>1
  <2>3. Below(j) \subseteq Below(i) /\ i \in Below(i) /\ i \notin Below(j)
    <3>1. i <= i /\ ~(i <= j)
      BY <1>6, <2>1
    <3>2. QED BY <2>2, <3>1
  <2>4. <<Below(j), Below(i)>> \in StrictSubsetOrdering(S)
    BY <2>3 DEF StrictSubsetOrdering
  <2>5. QED BY <1>4, <1>5, <2>4
<1>7. \A j \in S : i <= j
  BY <1>6
<1>8. QED BY <1>7

LEMMA Induction ==
  ASSUME NEW n \in Nat, NEW T, 0 \in T,
         \A i \in 1 .. n : i - 1 \in T => i \in T
  PROVE  \A i \in 0 .. n : i \in T
<1> DEFINE S == {i \in 1 .. n : i \notin T}
<1>1. SUFFICES ASSUME S # {} PROVE FALSE
  OBVIOUS
<1>2. PICK i \in S : \A j \in S : i <= j
  BY <1>1, LeastElement
<1>3. i \in 1 .. n /\ i \notin T
  BY <1>2
<1>4. i - 1 \notin T
  BY <1>3
<1>5. i - 1 \in 0 .. n
  BY <1>3
<1>6. i - 1 # 0
  BY <1>4
<1>7. i - 1 \in S
  BY <1>4, <1>5, <1>6
<1>8. QED BY <1>2, <1>3, <1>7

-----------------------------------------------------------------------------
(* The stream of a connection.  What is in the buffer, in the TLS library    *)
(* and on the way is read as one sequence, with the byte that will be sent    *)
(* next at its end: every byte then has one after it, which the place and the *)
(* key of the first determine.                                               *)

Enc == [gen: Int, pos: Int]
Bytes == [tran: Nat, at: Nat, enc: Enc]
Tran == [body: Bodies \ {0, 1}, rot: Rotations]

Lined(b, h, n, s, e) == Append(b \o h \o n, Byte(Len(s) + 1, 1, e))
Line == Lined(buf, held, net, sent, encoder)

\* Size, for cipher m.
SizeIn(m, body) ==
    IF m = "aead" THEN FrameHead + HeaderLen + body + Tag ELSE HeaderLen + body

\* Is c the place after b's?
Follows(m, c, b, s) ==
    IF b.at < SizeIn(m, s[b.tran].body) THEN c.tran = b.tran /\ c.at = b.at + 1
    ELSE c.tran = b.tran + 1 /\ c.at = 1

\* Is c encrypted after b?
Turns(m, c, b, s) ==
    IF m = "aead"
    THEN /\ c.enc.gen = b.enc.gen
         /\ c.enc.pos = IF b.at < SizeIn(m, s[b.tran].body) THEN b.enc.pos ELSE b.enc.pos + 1
    ELSE IF b.at = HeaderLen + 2 /\ s[b.tran].rot # 0
    THEN c.enc.gen = b.enc.gen + s[b.tran].rot /\ c.enc.pos = 0
    ELSE c.enc.gen = b.enc.gen /\ c.enc.pos = b.enc.pos + 1

Sound(m, b, s) == b.tran \in 1 .. Len(s) /\ b.at \in 1 .. SizeIn(m, s[b.tran].body)

\* The line l has all bytes of s after the first g transactions.
Places(m, l, s, g) ==
    /\ l[1].tran = g + 1 /\ l[1].at = 1
    /\ l[Len(l)].tran = Len(s) + 1
    /\ \A j \in 1 .. Len(l) - 1 : Sound(m, l[j], s) /\ Follows(m, l[j + 1], l[j], s)

\* Its first bytes, as far as off, are decrypted, the others encrypted in order
\* from key state c on.
Ciphered(m, l, s, off, c) ==
    IF m = "none" THEN \A j \in 1 .. Len(l) - 1 : l[j].enc = Clear
    ELSE /\ off \in 0 .. Len(l) - 1 /\ l[off + 1].enc = c
         /\ \A j \in 1 .. off : l[j].enc = Clear
         /\ \A j \in off + 1 .. Len(l) : l[j].enc.gen \in Nat
         /\ \A j \in off + 1 .. Len(l) - 1 : Turns(m, l[j + 1], l[j], s)

\* Decryption goes on at byte b.
InPhase(ph, r, b, s) ==
    /\ ph = "header" => b.at = 1
    /\ ph = "prefix" => b.at = HeaderLen + 1
    /\ ph = "rest" => b.at >= HeaderLen + 3 /\ r + b.at = HeaderLen + s[b.tran].body + 1

-----------------------------------------------------------------------------
(* The inductive invariant. *)

TransportTypes ==
    /\ agreed \in {"none", "rc4", "aead"}
    /\ sent \in Seq(Tran) /\ encoder \in Enc /\ cipher \in Enc
    /\ net \in Seq(Bytes) /\ held \in Seq(Bytes) /\ buf \in Seq(Bytes)
    /\ offset \in Nat /\ rest \in Nat /\ phase \in {"header", "prefix", "rest"}
    /\ got \in Seq(Nat)

\* Nothing has been sent before the login.
Untouched ==
    conn = "login" =>
        /\ sent = <<>> /\ encoder = KeyStart /\ cipher = KeyStart
        /\ net = <<>> /\ held = <<>> /\ buf = <<>>
        /\ offset = 0 /\ phase = "header" /\ run = "idle" /\ got = <<>>

\* The ciphers are the same, and the event in progress fits them; a plain
\* connection leaves no bytes with the library.
Fits ==
    /\ active = agreed /\ conn # "lost"
    /\ offset <= Len(buf) /\ (agreed # "rc4" => offset = 0)
    /\ ~tls => held = <<>>
    /\ run = "decrypt" => agreed = "rc4"
    /\ run = "frames" => agreed = "aead"
    /\ run = "scan" => agreed # "aead"
    /\ \A n \in 1 .. Len(got) : got[n] = n

Streams ==
    /\ Places(agreed, Line, sent, Len(got))
    /\ Ciphered(agreed, Line, sent, offset, cipher)
    /\ agreed = "rc4" => InPhase(phase, rest, Line[offset + 1], sent)

TransportIInv == TransportTypes /\ Untouched /\ Fits /\ Streams

-----------------------------------------------------------------------------
(* Sizes and sequences. *)

LEMMA SizeIs ==
  ASSUME NEW m, NEW s \in Seq(Tran), NEW t \in 1 .. Len(s)
  PROVE  /\ s[t].body \in Nat /\ s[t].body >= 2 /\ s[t].rot \in Nat
         /\ SizeIn(m, s[t].body) \in Nat
         /\ SizeIn(m, s[t].body) >= HeaderLen + s[t].body
         /\ m # "aead" => SizeIn(m, s[t].body) = HeaderLen + s[t].body
         /\ HeaderLen \in Nat /\ HeaderLen >= 1
<1>1. s[t] \in Tran
  BY ElementOfSeq
<1>2. s[t].body \in Bodies \ {0, 1} /\ s[t].rot \in Rotations
  BY <1>1 DEF Tran
<1>3. s[t].body \in Nat \ {0, 1} /\ s[t].rot \in Nat
  BY <1>2, TransportAssumption
<1>4. /\ HeaderLen \in Nat \ {0} /\ FrameHead \in Nat \ {0} /\ Tag \in Nat \ {0}
  BY TransportAssumption
<1> DEFINE x == s[t].body
           h == HeaderLen
<1>5. SizeIn(m, x) = IF m = "aead" THEN FrameHead + h + x + Tag ELSE h + x
  BY DEF SizeIn
<1>6. x \in Nat /\ x >= 2 /\ h \in Nat /\ h >= 1 /\ FrameHead \in Nat /\ Tag \in Nat
  BY <1>3, <1>4
<1> HIDE DEF x, h
<1>7. SizeIn(m, x) \in Nat /\ SizeIn(m, x) >= h + x
  <2> DEFINE y == SizeIn(m, x)
  <2>1. y = FrameHead + h + x + Tag \/ y = h + x
    BY <1>5
  <2> HIDE DEF y
  <2>2. y \in Nat /\ y >= h + x
    BY <1>6, <2>1
  <2>3. QED BY <2>2 DEF y
<1>8. QED BY <1>3, <1>5, <1>6, <1>7 DEF x, h

LEMMA SizeSame ==
  ASSUME NEW b PROVE Size(b) = SizeIn(agreed, b)
  BY DEF Size, SizeIn

LEMMA EncEqual ==
  ASSUME NEW c \in Enc, NEW d \in Enc, c.gen = d.gen, c.pos = d.pos
  PROVE  c = d
  BY DEF Enc

LEMMA TakeSkip ==
  ASSUME NEW S, NEW s \in Seq(S), NEW n \in 0 .. Len(s)
  PROVE  /\ Take(s, n) \in Seq(S) /\ Len(Take(s, n)) = n
         /\ Skip(s, n) \in Seq(S) /\ Len(Skip(s, n)) = Len(s) - n
         /\ \A i \in 1 .. n : Take(s, n)[i] = s[i]
         /\ \A i \in 1 .. Len(s) - n : Skip(s, n)[i] = s[i + n]
         /\ Take(s, n) \o Skip(s, n) = s
<1>1. Len(s) \in Nat /\ n \in Nat /\ n <= Len(s)
  BY LenProperties
<1>2. \A i \in 1 .. Len(s) : s[i] \in S
  BY ElementOfSeq
<1>3. /\ SubSeq(s, 1, n) \in Seq(S) /\ Len(SubSeq(s, 1, n)) = n
      /\ \A i \in 1 .. n : SubSeq(s, 1, n)[i] = s[i]
  <2>1. 1 \in Int /\ n \in Int /\ \A i \in 1 .. n : s[i] \in S
    BY <1>1, <1>2
  <2>2. /\ SubSeq(s, 1, n) \in Seq(S)
        /\ Len(SubSeq(s, 1, n)) = IF 1 <= n THEN n - 1 + 1 ELSE 0
        /\ \A i \in 1 .. n - 1 + 1 : SubSeq(s, 1, n)[i] = s[1 + i - 1]
    BY <2>1, SubSeqProperties
  <2>3. QED BY <1>1, <2>2
<1>4. /\ SubSeq(s, n + 1, Len(s)) \in Seq(S) /\ Len(SubSeq(s, n + 1, Len(s))) = Len(s) - n
      /\ \A i \in 1 .. Len(s) - n : SubSeq(s, n + 1, Len(s))[i] = s[i + n]
  <2>1. n + 1 \in Int /\ Len(s) \in Int /\ \A i \in n + 1 .. Len(s) : s[i] \in S
    BY <1>1, <1>2
  <2> DEFINE a == n + 1
             z == Len(s)
  <2> HIDE DEF a, z
  <2>2. /\ SubSeq(s, a, z) \in Seq(S)
        /\ Len(SubSeq(s, a, z)) = IF a <= z THEN z - a + 1 ELSE 0
        /\ \A i \in 1 .. z - a + 1 : SubSeq(s, a, z)[i] = s[a + i - 1]
    BY <2>1, SubSeqProperties DEF a, z
  <2>3. Len(SubSeq(s, a, z)) = z - n
    BY <1>1, <2>2 DEF a, z
  <2>4. ASSUME NEW i \in 1 .. z - n PROVE SubSeq(s, a, z)[i] = s[i + n]
    <3>1. i \in 1 .. z - a + 1 /\ a + i - 1 = i + n
      BY <1>1 DEF a, z
    <3>2. SubSeq(s, a, z)[i] = s[a + i - 1]
      BY <2>2, <3>1
    <3>3. QED BY <3>1, <3>2
  <2>5. QED BY <2>2, <2>3, <2>4 DEF a, z
<1>5. SubSeq(s, 1, n) \o SubSeq(s, n + 1, Len(s)) = s
  <2>1. 1 \in 1 .. Len(s) + 1 /\ n \in 1 - 1 .. Len(s) /\ Len(s) \in n .. Len(s)
    BY <1>1
  <2>2. SubSeq(s, 1, n) \o SubSeq(s, n + 1, Len(s)) = SubSeq(s, 1, Len(s))
    BY <2>1, ConcatAdjacentSubSeq
  <2>3. QED BY <2>2, SubSeqFull
<1>6. QED BY <1>3, <1>4, <1>5 DEF Take, Skip

\* What the line is made of.
IsLined(l, b, h, n, s, e) ==
    /\ l \in Seq(Bytes) /\ Len(l) = Len(b) + Len(h) + Len(n) + 1
    /\ Len(b) \in Nat /\ Len(h) \in Nat /\ Len(n) \in Nat /\ Len(s) \in Nat
    /\ \A j \in 1 .. Len(b) : l[j] = b[j]
    /\ \A j \in 1 .. Len(b) + Len(h) + Len(n) : l[j] = (b \o h \o n)[j]
    /\ l[Len(b) + Len(h) + Len(n) + 1] = Byte(Len(s) + 1, 1, e)

LEMMA LinedIs ==
  ASSUME NEW b \in Seq(Bytes), NEW h \in Seq(Bytes), NEW n \in Seq(Bytes), NEW s \in Seq(Tran),
         NEW e \in Enc
  PROVE  IsLined(Lined(b, h, n, s, e), b, h, n, s, e)
<1> DEFINE z == Byte(Len(s) + 1, 1, e)
           u == b \o h \o n
           k == Len(b) + Len(h) + Len(n)
<1>1. Len(b) \in Nat /\ Len(h) \in Nat /\ Len(n) \in Nat /\ Len(s) \in Nat
  BY LenProperties
<1>2. z \in Bytes
  BY <1>1 DEF Byte, Bytes
<1>3. /\ b \o h \in Seq(Bytes) /\ Len(b \o h) = Len(b) + Len(h)
      /\ \A j \in 1 .. Len(b) + Len(h) : (b \o h)[j] = IF j <= Len(b) THEN b[j] ELSE h[j - Len(b)]
  BY ConcatProperties
<1>4. /\ u \in Seq(Bytes) /\ Len(u) = k
      /\ \A j \in 1 .. k : u[j] = IF j <= Len(b) + Len(h) THEN (b \o h)[j] ELSE n[j - (Len(b) + Len(h))]
  BY <1>3, ConcatProperties
<1>5. \A j \in 1 .. Len(b) : j \in 1 .. k /\ j <= Len(b) + Len(h) /\ j \in 1 .. Len(b) + Len(h) /\ j <= Len(b)
  BY <1>1
<1>6. \A j \in 1 .. Len(b) : u[j] = b[j]
  BY <1>3, <1>4, <1>5
<1> HIDE DEF z, u
<1>7. /\ Append(u, z) \in Seq(Bytes) /\ Len(Append(u, z)) = k + 1
      /\ \A j \in 1 .. k : Append(u, z)[j] = u[j]
      /\ Append(u, z)[k + 1] = z
  BY <1>2, <1>4, AppendProperties
<1>8. Lined(b, h, n, s, e) = Append(u, z)
  BY DEF Lined, u, z
<1>9. QED BY <1>1, <1>5, <1>6, <1>7, <1>8 DEF IsLined, u, z

-----------------------------------------------------------------------------
(* Walking along the line. *)

LEMMA Walk ==
  ASSUME NEW m, NEW s \in Seq(Tran), NEW g, NEW l \in Seq(Bytes), Places(m, l, s, g),
         NEW j \in 1 .. Len(l), l[j].tran \in 1 .. Len(s),
         NEW n \in Nat, l[j].at + n <= SizeIn(m, s[l[j].tran].body)
  PROVE  \A i \in 0 .. n :
           j + i \in 1 .. Len(l) - 1 /\ l[j + i].tran = l[j].tran /\ l[j + i].at = l[j].at + i
<1> DEFINE t == l[j].tran
           a == l[j].at
           z == SizeIn(m, s[t].body)
           At(i) == j + i \in 1 .. Len(l) - 1 /\ l[j + i].tran = t /\ l[j + i].at = a + i
           T == {i \in 0 .. n : At(i)}
<1>1. Len(l) \in Nat /\ Len(s) \in Nat /\ j \in Nat /\ j >= 1
  BY LenProperties
<1>2. \A i \in 1 .. Len(l) : l[i].tran \in Nat /\ l[i].at \in Nat
  <2>1. \A i \in 1 .. Len(l) : l[i] \in Bytes
    BY ElementOfSeq
  <2>2. QED BY <2>1 DEF Bytes
<1>3. a \in Nat /\ z \in Nat /\ a + n <= z /\ t \in 1 .. Len(s) /\ t \in Nat
  BY <1>2, SizeIs
<1>4. \A i \in 1 .. Len(l) : l[i].tran = t => i \in 1 .. Len(l) - 1
  BY <1>1, <1>3 DEF Places
<1> HIDE DEF z, t, a
<1>5. 0 \in T
  <2>1. j + 0 = j /\ a + 0 = a
    BY <1>1, <1>3
  <2>2. At(0)
    BY <1>1, <1>4, <2>1 DEF t, a
  <2>3. QED BY <2>2
<1>6. ASSUME NEW i \in 1 .. n, i - 1 \in T PROVE i \in T
  <2> DEFINE p == j + (i - 1)
  <2>1. p \in 1 .. Len(l) - 1 /\ l[p].tran = t /\ l[p].at = a + (i - 1)
    BY <1>6
  <2>2. p + 1 = j + i /\ (a + (i - 1)) + 1 = a + i /\ a + (i - 1) < z /\ p + 1 \in 1 .. Len(l)
    BY <1>1, <1>3, <2>1
  <2> HIDE DEF p
  <2>3. Follows(m, l[p + 1], l[p], s)
    BY <2>1 DEF Places
  <2>4. l[p + 1].tran = t /\ l[p + 1].at = a + i
    BY <2>1, <2>2, <2>3 DEF Follows, z
  <2>5. At(i)
    BY <1>4, <2>2, <2>4
  <2>6. QED BY <2>5
<1> HIDE DEF T
<1>7. \A i \in 0 .. n : i \in T
  BY <1>5, <1>6, Induction
<1>8. QED BY <1>7 DEF T, t, a

\* The z bytes of transaction t stand from j on, and the next one begins after it.
HasTran(l, j, t, z) ==
    /\ \A k \in 1 .. z : l[j + k - 1].tran = t /\ l[j + k - 1].at = k
    /\ l[j + z].tran = t + 1 /\ l[j + z].at = 1

\* From its first byte on, a whole transaction, and the first byte of the next.
LEMMA WalkTran ==
  ASSUME NEW m, NEW s \in Seq(Tran), NEW g, NEW l \in Seq(Bytes), Places(m, l, s, g),
         NEW j \in 1 .. Len(l), l[j].at = 1, l[j].tran \in 1 .. Len(s),
         NEW z, z = SizeIn(m, s[l[j].tran].body)
  PROVE  z \in Nat /\ z >= 1 /\ j + z \in 1 .. Len(l) /\ HasTran(l, j, l[j].tran, z)
<1> DEFINE n == z - 1
           t == l[j].tran
<1>1. z \in Nat /\ z >= 1 /\ n \in Nat /\ 1 + n <= z /\ j \in Nat /\ Len(l) \in Nat
  <2>1. /\ s[t].body \in Nat /\ HeaderLen \in Nat /\ HeaderLen >= 1 /\ z \in Nat
        /\ z >= HeaderLen + s[t].body
    BY SizeIs
  <2>2. Len(l) \in Nat
    BY LenProperties
  <2>3. QED BY <2>1, <2>2
<1> HIDE DEF t
<1>2. l[j].at + n <= SizeIn(m, s[l[j].tran].body)
  BY <1>1
<1> HIDE DEF n
<1>3. \A i \in 0 .. n : j + i \in 1 .. Len(l) - 1 /\ l[j + i].tran = l[j].tran /\ l[j + i].at = l[j].at + i
  BY <1>1, <1>2, Walk
<1>4. ASSUME NEW k \in 1 .. z PROVE l[j + k - 1].tran = l[j].tran /\ l[j + k - 1].at = k
  <2>1. k - 1 \in 0 .. n /\ j + (k - 1) = j + k - 1 /\ 1 + (k - 1) = k
    BY <1>1 DEF n
  <2>2. QED BY <1>3, <2>1
<1> DEFINE p == j + n
<1>5. p \in 1 .. Len(l) - 1 /\ l[p].tran = l[j].tran /\ l[p].at = z
  <2>1. n \in 0 .. n /\ 1 + n = z
    BY <1>1 DEF n
  <2>2. QED BY <1>3, <2>1
<1>6. p + 1 = j + z /\ j + z \in 1 .. Len(l)
  <2> DEFINE y == Len(l)
  <2>1. j \in Nat /\ z \in Nat /\ y \in Nat /\ p \in 1 .. y - 1 /\ p = j + (z - 1)
    BY <1>1, <1>5 DEF n
  <2> HIDE DEF y, p
  <2>2. p + 1 = j + z /\ j + z \in 1 .. y
    BY ONLY <2>1
  <2>3. QED BY <2>2 DEF y
<1> HIDE DEF p
<1>7. Follows(m, l[p + 1], l[p], s)
  BY <1>5 DEF Places
<1>8. ~(z < z)
  BY <1>1
<1>9. l[p + 1].tran = l[j].tran + 1 /\ l[p + 1].at = 1
  BY <1>5, <1>7, <1>8 DEF Follows
<1>10. QED BY <1>1, <1>4, <1>6, <1>9 DEF HasTran

\* So does the first transaction of the line.
LEMMA WalkFirst ==
  ASSUME NEW m, NEW s \in Seq(Tran), NEW g, NEW l \in Seq(Bytes), Places(m, l, s, g),
         Len(l) >= 1, l[1].tran \in 1 .. Len(s),
         NEW z, z = SizeIn(m, s[l[1].tran].body)
  PROVE  /\ z \in Nat /\ z >= 1 /\ 1 + z \in 1 .. Len(l)
         /\ \A k \in 1 .. z : l[k].tran = l[1].tran /\ l[k].at = k /\ k \in 1 .. Len(l) - 1
         /\ l[1 + z].tran = l[1].tran + 1 /\ l[1 + z].at = 1
<1>1. Len(l) \in Nat
  BY LenProperties
<1>2. l[1].at = 1 /\ 1 \in 1 .. Len(l)
  BY <1>1 DEF Places
<1>3. PICK j \in 1 .. Len(l) : j = 1
  BY <1>2
<1>4. /\ s \in Seq(Tran) /\ l \in Seq(Bytes) /\ Places(m, l, s, g) /\ j \in 1 .. Len(l)
      /\ l[j].at = 1 /\ l[j].tran \in 1 .. Len(s) /\ z = SizeIn(m, s[l[j].tran].body)
  BY <1>2, <1>3
<1>5. z \in Nat /\ z >= 1 /\ j + z \in 1 .. Len(l) /\ HasTran(l, j, l[j].tran, z)
  BY ONLY <1>4, WalkTran
<1>6. \A k \in 1 .. z : 1 + k - 1 = k /\ k \in 1 .. Len(l) - 1
  BY <1>1, <1>3, <1>5
<1>7. QED BY <1>3, <1>5, <1>6 DEF HasTran

\* The line begins where the coming transaction ended, so its first transaction
\* is the next to be dispatched, if there is one.
LEMMA FirstTran ==
  ASSUME NEW m, NEW s \in Seq(Tran), NEW g \in Nat, NEW l \in Seq(Bytes), Places(m, l, s, g),
         Len(l) >= 1
  PROVE  g <= Len(s) /\ (Len(l) > 1 => g + 1 \in 1 .. Len(s))
<1>1. Len(l) \in Nat /\ Len(s) \in Nat
  BY LenProperties
<1>2. CASE Len(l) = 1
  BY <1>1, <1>2 DEF Places
<1>3. CASE Len(l) # 1
  <2> DEFINE k == Len(l)
  <2>1. k \in Nat /\ k >= 1 /\ k # 1
    BY <1>1, <1>3
  <2> HIDE DEF k
  <2>2. 1 \in 1 .. k - 1
    BY <2>1
  <2>3. g + 1 \in 1 .. Len(s)
    <3>1. Sound(m, l[1], s) /\ l[1].tran = g + 1
      BY <2>2 DEF Places, k
    <3>2. QED BY <3>1 DEF Sound
  <2>4. QED BY <1>1, <2>3
<1>4. QED BY <1>2, <1>3

\* Keys: RC4's moves on with each byte as long as it is not rotated, and an AEAD
\* frame has one.
\* n bytes after off are encrypted one after the other from c on.
WalksRc4(l, off, n, c) ==
    \A i \in 0 .. n : l[off + 1 + i].enc.gen = c.gen /\ l[off + 1 + i].enc.pos = c.pos + i

LEMMA WalkRc4 ==
  ASSUME NEW s \in Seq(Tran), NEW g, NEW l \in Seq(Bytes), Places("rc4", l, s, g),
         NEW off \in Nat, NEW c \in Enc, Ciphered("rc4", l, s, off, c),
         l[off + 1].tran \in 1 .. Len(s),
         NEW n \in Nat, l[off + 1].at + n <= SizeIn("rc4", s[l[off + 1].tran].body),
         \A i \in 0 .. n - 1 : l[off + 1].at + i # HeaderLen + 2
  PROVE  WalksRc4(l, off, n, c)
<1> USE DEF WalksRc4
<1> DEFINE j == off + 1
           At(i) == l[j + i].enc.gen = c.gen /\ l[j + i].enc.pos = c.pos + i
           T == {i \in 0 .. n : At(i)}
<1>1. Len(l) \in Nat /\ j \in 1 .. Len(l) /\ l[j].enc = c /\ c.gen \in Int /\ c.pos \in Int
  BY LenProperties DEF Ciphered, Enc
<1>2. \A i \in 0 .. n : j + i \in 1 .. Len(l) - 1 /\ l[j + i].at = l[j].at + i
  BY <1>1, Walk
<1>3. \A i \in j .. Len(l) - 1 : Turns("rc4", l[i + 1], l[i], s)
  BY DEF Ciphered
<1> HIDE DEF j
<1>4. 0 \in T
  <2>1. j + 0 = j /\ c.pos + 0 = c.pos
    BY <1>1
  <2>2. QED BY <1>1, <2>1
<1>5. ASSUME NEW i \in 1 .. n, i - 1 \in T PROVE i \in T
  <2> DEFINE p == j + (i - 1)
  <2>1. l[p].enc.gen = c.gen /\ l[p].enc.pos = c.pos + (i - 1)
    BY <1>5
  <2>2. i - 1 \in 0 .. n /\ i - 1 \in 0 .. n - 1 /\ i \in 0 .. n
    OBVIOUS
  <2>3. p \in 1 .. Len(l) - 1 /\ l[p].at = l[j].at + (i - 1) /\ l[p].at # HeaderLen + 2
    BY <1>2, <2>2 DEF j
  <2>4. p \in j .. Len(l) - 1 /\ p + 1 = j + i /\ (c.pos + (i - 1)) + 1 = c.pos + i
    <3>1. i \in Nat /\ i >= 1 /\ j \in Nat
      BY <1>1
    <3>2. p \in Nat /\ p >= j /\ p + 1 = j + i
      BY <3>1
    <3>3. (c.pos + (i - 1)) + 1 = c.pos + i
      BY <1>1, <3>1
    <3> HIDE DEF p
    <3>4. QED BY <1>1, <2>3, <3>1, <3>2, <3>3
  <2> HIDE DEF p
  <2>5. Turns("rc4", l[p + 1], l[p], s)
    BY <1>3, <2>4
  <2>6. l[p + 1].enc.gen = c.gen /\ l[p + 1].enc.pos = c.pos + i
    BY <2>1, <2>3, <2>4, <2>5 DEF Turns
  <2>7. QED BY <2>2, <2>4, <2>6
<1> HIDE DEF T
<1>6. \A i \in 0 .. n : i \in T
  BY <1>4, <1>5, Induction
<1>7. QED BY <1>6 DEF T, j

LEMMA WalkAead ==
  ASSUME NEW s \in Seq(Tran), NEW g, NEW l \in Seq(Bytes), Places("aead", l, s, g),
         NEW c \in Enc, Ciphered("aead", l, s, 0, c), l[1].tran \in 1 .. Len(s),
         NEW z, z = SizeIn("aead", s[l[1].tran].body)
  PROVE  /\ \A k \in 1 .. z : l[k].enc = c
         /\ l[1 + z].enc.gen = c.gen /\ l[1 + z].enc.pos = c.pos + 1
<1> DEFINE n == z - 1
           T == {i \in 0 .. n : l[1 + i].enc = c}
<1>1. /\ Len(l) \in Nat /\ 1 \in 1 .. Len(l) /\ l[1].at = 1 /\ l[1].enc = c
      /\ c.gen \in Int /\ c.pos \in Int
  BY LenProperties DEF Ciphered, Places, Enc
<1>2. z \in Nat /\ z >= 1 /\ 1 + z \in 1 .. Len(l)
  BY <1>1, WalkFirst
<1>3. \A k \in 1 .. z : l[k].tran = l[1].tran /\ l[k].at = k /\ k \in 1 .. Len(l) - 1
  BY <1>1, WalkFirst
<1>4. \A k \in 1 .. Len(l) - 1 : Turns("aead", l[k + 1], l[k], s)
  <2>1. \A k \in 1 .. Len(l) - 1 : k \in 0 + 1 .. Len(l) - 1
    OBVIOUS
  <2>2. QED BY <2>1 DEF Ciphered
<1>5. \A k \in 1 .. Len(l) : l[k].enc \in Enc
  <2>1. \A k \in 1 .. Len(l) : l[k] \in Bytes
    BY ElementOfSeq
  <2>2. QED BY <2>1 DEF Bytes
<1>6. 0 \in T
  BY <1>1, <1>2
<1>7. ASSUME NEW i \in 1 .. n, i - 1 \in T PROVE i \in T
  <2>1. i \in 1 .. z /\ i < z /\ i + 1 = 1 + i /\ 1 + (i - 1) = i /\ i \in 0 .. n /\ i + 1 \in 1 .. Len(l)
    BY SMTT(30), <1>2
  <2>2. l[i].enc = c
    BY <1>7, <2>1
  <2>3. Turns("aead", l[i + 1], l[i], s)
    BY <1>3, <1>4, <2>1
  <2>4. l[i].at < SizeIn("aead", s[l[i].tran].body)
    BY <1>3, <2>1
  <2>5. l[i + 1].enc.gen = c.gen /\ l[i + 1].enc.pos = c.pos
    BY <2>2, <2>3, <2>4 DEF Turns
  <2>6. l[i + 1].enc = c
    <3>1. l[i + 1].enc \in Enc
      BY <1>5, <2>1
    <3>2. QED BY <2>5, <3>1, EncEqual
  <2>7. QED BY <2>1, <2>6
<1>8. n \in Nat
  BY <1>2
<1> HIDE DEF T
<1>9. \A i \in 0 .. n : i \in T
  <2> HIDE DEF n
  <2>1. QED BY <1>6, <1>7, <1>8, Induction
<1>10. ASSUME NEW k \in 1 .. z PROVE l[k].enc = c
  <2>1. k - 1 \in 0 .. n /\ 1 + (k - 1) = k
    BY SMTT(30), <1>2
  <2>2. k - 1 \in T
    BY <1>9, <2>1
  <2>3. QED BY <2>1, <2>2 DEF T
<1>11. l[1 + z].enc.gen = c.gen /\ l[1 + z].enc.pos = c.pos + 1
  <2>1. z \in 1 .. z /\ ~(z < z) /\ z + 1 = 1 + z
    BY <1>2
  <2>2. l[z].enc = c /\ l[z].tran = l[1].tran /\ l[z].at = z /\ Turns("aead", l[z + 1], l[z], s)
    BY SMTT(30), <1>3, <1>4, <1>10, <2>1
  <2>3. ~(l[z].at < SizeIn("aead", s[l[z].tran].body))
    BY <2>1, <2>2
  <2>4. QED BY <2>1, <2>2, <2>3 DEF Turns
<1>12. QED BY <1>10, <1>11

-----------------------------------------------------------------------------
(* What the invariant says about the stream as a whole.  The recursion that   *)
(* adds up the sizes of the transactions has a solution.                      *)

LEMMA BeforeExists ==
  ASSUME NEW n \in Nat, NEW g \in Nat
  PROVE  \E h : h = [k \in 0 .. n |-> IF k <= g THEN 0 ELSE h[k - 1] + Size(sent[k].body)]
<1> DEFINE R(h, k) == IF k <= g THEN 0 ELSE h[k - 1] + Size(sent[k].body)
           T == {m \in 0 .. n : \E h : h = [k \in 0 .. m |-> R(h, k)]}
<1>1. 0 \in T
  <2> DEFINE h == [k \in 0 .. 0 |-> 0]
             e == [k \in 0 .. 0 |-> R(h, k)]
  <2>1. \A k \in 0 .. 0 : R(h, k) = 0
    OBVIOUS
  <2>2. h = e
    BY <2>1
  <2>3. 0 \in 0 .. n
    OBVIOUS
  <2> HIDE DEF h, R
  <2>4. QED BY <2>2, <2>3
<1>2. ASSUME NEW m \in 1 .. n, m - 1 \in T
      PROVE  m \in T
  <2>1. PICK h : h = [k \in 0 .. m - 1 |-> R(h, k)]
    BY <1>2
  <2> DEFINE f == [k \in 0 .. m |-> IF k = m THEN R(h, m) ELSE h[k]]
             e == [k \in 0 .. m |-> R(f, k)]
  <2>2. \A k \in 0 .. m : k = m \/ k \in 0 .. m - 1
    OBVIOUS
  <2>3. ASSUME NEW k \in 0 .. m
        PROVE  R(f, k) = R(h, k)
    <3>1. CASE k <= g
      BY <3>1
    <3>2. CASE ~(k <= g)
      <4>1. k - 1 \in 0 .. m /\ k - 1 # m
        BY <3>2
      <4>2. f[k - 1] = h[k - 1]
        BY <4>1
      <4> HIDE DEF f
      <4>3. QED BY <3>2, <4>2
    <3>3. QED BY <3>1, <3>2
  <2>4. ASSUME NEW k \in 0 .. m
        PROVE  f[k] = R(h, k)
    <3>1. CASE k = m
      BY <3>1
    <3>2. CASE k # m
      <4>1. k \in 0 .. m - 1
        BY <3>2, <2>2
      <4>2. f[k] = h[k]
        BY <3>2
      <4> HIDE DEF f
      <4>3. h[k] = R(h, k)
        <5> HIDE DEF R
        <5>1. QED BY <2>1, <4>1
      <4>4. QED BY <4>2, <4>3
    <3>3. QED BY <3>1, <3>2
  <2> HIDE DEF R
  <2>5. f = e
    BY <2>3, <2>4
  <2>6. m \in 0 .. n
    BY <1>2
  <2> HIDE DEF f
  <2>7. QED BY <2>5, <2>6
<1> HIDE DEF T
<1>3. \A m \in 0 .. n : m \in T
  BY <1>1, <1>2, Induction
<1>4. n \in T
  BY <1>3
<1>5. QED BY <1>4 DEF T

\* The first byte of transaction i + 1 is at 1 + f[i], if f adds up the sizes.
LEMMA Positions ==
  ASSUME TransportIInv, NEW f,
         \A k \in 0 .. Len(sent) :
           f[k] = IF k <= Len(got) THEN 0 ELSE f[k - 1] + Size(sent[k].body)
  PROVE  /\ \A i \in Len(got) .. Len(sent) :
              f[i] \in Nat /\ 1 + f[i] \in 1 .. Len(Line) /\ Line[1 + f[i]].tran = i + 1
         /\ \A i \in Len(got) + 1 .. Len(sent) :
              /\ Size(sent[i].body) \in Nat /\ f[i] = f[i - 1] + Size(sent[i].body)
              /\ HasTran(Line, 1 + f[i - 1], i, Size(sent[i].body))
<1> DEFINE l == Line
           g == Len(got)
           N == Len(sent)
           Z(i) == Size(sent[i].body)
           At(i) == f[i] \in Nat /\ 1 + f[i] \in 1 .. Len(l) /\ l[1 + f[i]].tran = i + 1 /\ l[1 + f[i]].at = 1
           Has(i) == Z(i) \in Nat /\ f[i] = f[i - 1] + Z(i) /\ HasTran(l, 1 + f[i - 1], i, Z(i))
           T == {i \in 0 .. N : (i >= g => At(i)) /\ (i > g => Has(i))}
<1>1. /\ buf \in Seq(Bytes) /\ held \in Seq(Bytes) /\ net \in Seq(Bytes) /\ sent \in Seq(Tran)
      /\ encoder \in Enc /\ got \in Seq(Nat) /\ Places(agreed, l, sent, g)
  BY DEF TransportIInv, TransportTypes, Streams
<1>2. l \in Seq(Bytes) /\ Len(l) = Len(buf) + Len(held) + Len(net) + 1 /\ Len(buf) \in Nat
      /\ Len(held) \in Nat /\ Len(net) \in Nat /\ N \in Nat /\ g \in Nat
  <2>1. IsLined(l, buf, held, net, sent, encoder)
    BY <1>1, LinedIs DEF Line
  <2>2. g \in Nat
    BY <1>1, LenProperties
  <2>3. QED BY <2>1, <2>2 DEF IsLined
<1>3. Len(l) \in Nat /\ Len(l) >= 1
  BY <1>2
<1>4. \A k \in 0 .. N : f[k] = IF k <= g THEN 0 ELSE f[k - 1] + Z(k)
  OBVIOUS
<1>5. l[1].tran = g + 1 /\ l[1].at = 1
  BY <1>1 DEF Places
<1> HIDE DEF l, g, Z
<1>6. ASSUME NEW i \in 0 .. N, i <= g PROVE i \in T
  <2>1. f[i] = 0 /\ ~(i > g)
    BY <1>2, <1>4, <1>6
  <2>2. i >= g => i = g
    BY <1>2, <1>6
  <2>3. 1 + 0 = 1 /\ 1 \in 1 .. Len(l)
    BY <1>3
  <2>4. i >= g => At(i)
    BY <1>5, <2>1, <2>2, <2>3
  <2>5. QED BY <2>1, <2>4
<1>7. 0 \in T
  BY <1>2, <1>6
<1>8. ASSUME NEW i \in 1 .. N, i - 1 \in T PROVE i \in T
  <2>1. CASE i <= g
    <3>1. i \in 0 .. N
      OBVIOUS
    <3>2. QED BY <1>6, <2>1, <3>1
  <2>2. CASE ~(i <= g)
    <3>1. i - 1 >= g /\ i \in 0 .. N /\ (i - 1) + 1 = i
      BY <1>2, <2>2
    <3>2. At(i - 1)
      BY <1>8, <3>1
    <3> DEFINE j == 1 + f[i - 1]
               z == SizeIn(agreed, sent[i].body)
    <3>3. j \in 1 .. Len(l) /\ l[j].tran = i /\ l[j].at = 1 /\ f[i - 1] \in Nat
      BY <3>1, <3>2
    <3> HIDE DEF j
    <3>4. /\ sent \in Seq(Tran) /\ l \in Seq(Bytes) /\ Places(agreed, l, sent, g)
          /\ j \in 1 .. Len(l) /\ l[j].at = 1 /\ l[j].tran \in 1 .. Len(sent)
          /\ z = SizeIn(agreed, sent[l[j].tran].body)
      BY <1>1, <1>2, <3>3 DEF l, g
    <3> HIDE DEF z
    <3>5. z \in Nat /\ z >= 1 /\ j + z \in 1 .. Len(l) /\ HasTran(l, j, l[j].tran, z)
      BY ONLY <3>4, WalkTran
    <3>6. Z(i) = z
      BY SizeSame DEF Z, z
    <3>7. f[i] = f[i - 1] + z
      BY <1>4, <2>2, <3>1, <3>6
    <3>8. f[i] \in Nat /\ 1 + f[i] = j + z
      BY SMTT(30), <3>3, <3>5, <3>7 DEF j
    <3>9. l[j + z].tran = i + 1 /\ l[j + z].at = 1
      BY <3>3, <3>5 DEF HasTran
    <3>10. At(i)
      BY <3>5, <3>8, <3>9
    <3>11. Has(i)
      BY <3>3, <3>5, <3>6, <3>7 DEF j
    <3>12. QED BY <3>1, <3>10, <3>11
  <2>3. QED BY <2>1, <2>2
<1> HIDE DEF T
<1>9. \A i \in 0 .. N : i \in T
  BY <1>2, <1>7, <1>8, Induction
<1>10. ASSUME NEW i \in g .. N PROVE At(i)
  <2>1. i \in 0 .. N /\ i >= g
    BY <1>2
  <2>2. QED BY <1>9, <2>1 DEF T
<1>11. ASSUME NEW i \in g + 1 .. N PROVE Has(i)
  <2>1. i \in 0 .. N /\ i > g
    BY <1>2
  <2>2. QED BY <1>9, <2>1 DEF T
<1>12. QED BY <1>10, <1>11 DEF l, g, Z

LEMMA NothingLostHolds == TransportIInv => NothingLost
<1> SUFFICES ASSUME TransportIInv PROVE NothingLost
  OBVIOUS
<1> DEFINE left == buf \o held \o net
           names == [k \in DOMAIN left |-> <<left[k].tran, left[k].at>>]
           N == Len(sent)
           g == Len(got)
           R(h, n) == IF n <= g THEN 0 ELSE h[n - 1] + Size(sent[n].body)
           P(h) == h = [n \in 0 .. N |-> R(h, n)]
           f == CHOOSE h : P(h)
           l == Line
<1>1. /\ buf \in Seq(Bytes) /\ held \in Seq(Bytes) /\ net \in Seq(Bytes) /\ sent \in Seq(Tran)
      /\ encoder \in Enc /\ got \in Seq(Nat) /\ Places(agreed, l, sent, g)
      /\ Ciphered(agreed, l, sent, offset, cipher) /\ active = agreed /\ offset \in Nat
  BY DEF TransportIInv, TransportTypes, Streams, Fits
<1>2. /\ l \in Seq(Bytes) /\ Len(l) = Len(buf) + Len(held) + Len(net) + 1 /\ Len(buf) \in Nat
      /\ Len(held) \in Nat /\ Len(net) \in Nat /\ N \in Nat /\ g \in Nat
      /\ \A j \in 1 .. Len(buf) : l[j] = buf[j]
      /\ \A j \in 1 .. Len(buf) + Len(held) + Len(net) : l[j] = left[j]
  <2>1. g \in Nat /\ N \in Nat
    BY <1>1, LenProperties
  <2>2. /\ Line \in Seq(Bytes) /\ Len(Line) = Len(buf) + Len(held) + Len(net) + 1 /\ Len(buf) \in Nat
        /\ Len(held) \in Nat /\ Len(net) \in Nat
        /\ \A j \in 1 .. Len(buf) : Line[j] = buf[j]
        /\ \A j \in 1 .. Len(buf) + Len(held) + Len(net) : Line[j] = (buf \o held \o net)[j]
    <3>1. IsLined(Line, buf, held, net, sent, encoder)
      BY <1>1, LinedIs DEF Line
    <3>2. QED BY <3>1 DEF IsLined
  <2>3. QED BY <2>1, <2>2
<1>3. left \in Seq(Bytes) /\ Len(left) = Len(buf) + Len(held) + Len(net)
      /\ DOMAIN left = 1 .. Len(left) /\ DOMAIN buf = 1 .. Len(buf)
  <2>1. buf \o held \in Seq(Bytes) /\ Len(buf \o held) = Len(buf) + Len(held)
    BY <1>1, ConcatProperties
  <2>2. left \in Seq(Bytes) /\ Len(left) = Len(buf \o held) + Len(net)
    BY <1>1, <2>1, ConcatProperties
  <2>3. QED BY <1>1, <2>1, <2>2, LenProperties
<1> DEFINE M == Len(left)
<1>4. M \in Nat /\ Len(l) = M + 1 /\ \A j \in 1 .. M : l[j] = left[j]
  BY <1>2, <1>3
<1> HIDE DEF l, left, M
<1>5. g <= N
  <2>1. Len(l) >= 1
    BY <1>4
  <2>2. QED BY <1>1, <1>2, <2>1, FirstTran
<1>6. \E h : P(h)
  BY <1>2, BeforeExists
<1>7. P(f)
  <2> HIDE DEF P
  <2>1. QED BY <1>6
<1> HIDE DEF f
<1>8. \A n \in 0 .. N : f[n] = R(f, n)
  <2> HIDE DEF R
  <2>1. QED BY <1>7
<1>9. /\ \A i \in g .. N : f[i] \in Nat /\ 1 + f[i] \in 1 .. Len(l) /\ l[1 + f[i]].tran = i + 1
      /\ \A i \in g + 1 .. N :
           /\ Size(sent[i].body) \in Nat /\ f[i] = f[i - 1] + Size(sent[i].body)
           /\ HasTran(l, 1 + f[i - 1], i, Size(sent[i].body))
  BY <1>8, Positions DEF l
<1>10. M = f[N]
  <2>1. f[N] \in Nat /\ 1 + f[N] \in 1 .. Len(l) /\ l[1 + f[N]].tran = N + 1
    BY <1>2, <1>5, <1>9
  <2>2. ~(1 + f[N] \in 1 .. Len(l) - 1)
    <3>1. \A j \in 1 .. Len(l) - 1 : l[j].tran \in 1 .. N
      BY <1>1 DEF Places, Sound
    <3>2. ~(N + 1 \in 1 .. N)
      BY <1>2
    <3>3. QED BY <2>1, <3>1, <3>2
  <2>3. QED BY <1>4, <2>1, <2>2
<1>11. ASSUME NEW n \in g + 1 .. N, NEW k \in 1 .. MaxSent * BufSize, k <= Size(sent[n].body)
       PROVE  names[f[n - 1] + k] = <<n, k>>
  <2> DEFINE z == Size(sent[n].body)
             p == f[n - 1] + k
  <2>1. n - 1 \in g .. N /\ n \in g .. N
    BY <1>2
  <2>2. f[n - 1] \in Nat /\ f[n] \in Nat /\ 1 + f[n] <= M + 1
    <3>1. f[n - 1] \in Nat /\ f[n] \in Nat /\ 1 + f[n] \in 1 .. Len(l)
      BY <1>9, <2>1
    <3>2. QED BY <1>4, <3>1
  <2>3. z \in Nat /\ f[n] = f[n - 1] + z /\ HasTran(l, 1 + f[n - 1], n, z)
    BY <1>9
  <2>4. k \in Nat /\ k >= 1 /\ k <= z
    <3> DEFINE x == MaxSent * BufSize
    <3> HIDE DEF x
    <3>1. k \in 1 .. x /\ x \in Nat
      BY TransportAssumption DEF x
    <3>2. QED BY <1>11, <3>1
  <2> HIDE DEF z
  <2>5. (1 + f[n - 1]) + k - 1 = p /\ p \in 1 .. M /\ k \in 1 .. z
    <3> DEFINE a == f[n - 1]
               b == f[n]
    <3>1. a \in Nat /\ b \in Nat /\ 1 + b <= M + 1 /\ b = a + z /\ p = a + k
      BY <2>2, <2>3
    <3> HIDE DEF a, b, p
    <3>2. (1 + a) + k - 1 = p /\ p \in 1 .. M /\ k \in 1 .. z
      BY <1>4, <2>3, <2>4, <3>1
    <3>3. QED BY <3>2 DEF a
  <2>6. l[p].tran = n /\ l[p].at = k
    BY <2>3, <2>5 DEF HasTran
  <2> HIDE DEF p
  <2>7. left[p].tran = n /\ left[p].at = k /\ p \in DOMAIN left
    BY <1>3, <1>4, <2>5, <2>6 DEF M
  <2>8. names[p] = <<n, k>>
    BY <2>7
  <2>9. QED BY <2>8 DEF p
<1>12. ASSUME active = "rc4", NEW k \in DOMAIN buf PROVE buf[k].enc = Clear <=> k <= offset
  <2>1. k \in 1 .. Len(buf) /\ l[k] = buf[k] /\ k \in 1 .. Len(l)
    BY <1>2, <1>3
  <2>2. /\ \A j \in 1 .. offset : l[j].enc = Clear
        /\ \A j \in offset + 1 .. Len(l) : l[j].enc.gen \in Nat
    BY <1>1, <1>12 DEF Ciphered
  <2>3. CASE k <= offset
    <3>1. k \in 1 .. offset
      BY <1>1, <2>1, <2>3
    <3>2. QED BY <2>1, <2>2, <2>3, <3>1
  <2>4. CASE ~(k <= offset)
    <3>1. k \in offset + 1 .. Len(l)
      BY <1>1, <1>2, <2>1, <2>4
    <3>2. buf[k].enc.gen \in Nat
      BY <2>1, <2>2, <3>1
    <3>3. buf[k].enc # Clear
      BY <3>2 DEF Clear
    <3>4. QED BY <2>4, <3>3
  <2>5. QED BY <2>3, <2>4
<1>13. /\ M = f[N]
       /\ \A n \in g + 1 .. N, k \in 1 .. MaxSent * BufSize :
            k <= Size(sent[n].body) => names[f[n - 1] + k] = <<n, k>>
       /\ active = "rc4" => \A k \in DOMAIN buf : buf[k].enc = Clear <=> k <= offset
  BY <1>10, <1>11, <1>12
<1> HIDE DEF names
<1>14. QED BY <1>13 DEF NothingLost, f, left, names, M

LEMMA InStepHolds == TransportIInv => InStep
<1> SUFFICES ASSUME TransportIInv PROVE InStep
  OBVIOUS
<1>1. /\ got \in Seq(Nat) /\ sent \in Seq(Tran) /\ conn # "lost"
      /\ \A n \in 1 .. Len(got) : got[n] = n
  BY DEF TransportIInv, TransportTypes, Fits
<1>2. Len(got) \in Nat /\ got \in [1 .. Len(got) -> Nat]
  BY <1>1, LenProperties
<1>3. got = [n \in 1 .. Len(got) |-> n]
  BY <1>1, <1>2
<1>4. /\ Line \in Seq(Bytes) /\ Places(agreed, Line, sent, Len(got))
      /\ Len(Line) = Len(buf) + Len(held) + Len(net) + 1
      /\ Len(buf) \in Nat /\ Len(held) \in Nat /\ Len(net) \in Nat
  <2>1. IsLined(Line, buf, held, net, sent, encoder)
    BY LinedIs DEF Line, TransportIInv, TransportTypes
  <2>2. QED BY <2>1 DEF IsLined, TransportIInv, Streams
<1>5. Len(Line) >= 1
  BY <1>4
<1>6. Len(got) <= Len(sent)
  BY <1>1, <1>2, <1>4, <1>5, FirstTran
<1>7. QED BY <1>1, <1>3, <1>6 DEF InStep

-----------------------------------------------------------------------------
(* How steps change the line.  Nothing sent: it is the byte to come. *)

LEMMA EmptyLine ==
  ASSUME NEW m, NEW r
  PROVE  LET l == Lined(<<>>, <<>>, <<>>, <<>>, KeyStart)
         IN  /\ Places(m, l, <<>>, 0) /\ Ciphered(m, l, <<>>, 0, KeyStart)
             /\ InPhase("header", r, l[1], <<>>)
<1> DEFINE l == Lined(<<>>, <<>>, <<>>, <<>>, KeyStart)
<1>1. KeyStart \in Enc /\ <<>> \in Seq(Bytes) /\ <<>> \in Seq(Tran) /\ Len(<<>>) = 0
  BY EmptySeq DEF KeyStart, Enc
<1>2. IsLined(l, <<>>, <<>>, <<>>, <<>>, KeyStart)
  BY <1>1, LinedIs
<1> HIDE DEF l
<1>3. Len(l) = 1 /\ l[1] = Byte(1, 1, KeyStart)
  BY <1>1, <1>2 DEF IsLined
<1>4. l[1].tran = 0 + 1 /\ l[1].at = 1 /\ l[1].enc = KeyStart /\ l[1].enc.gen \in Nat
  BY <1>3 DEF Byte, KeyStart
<1>5. Places(m, l, <<>>, 0)
  <2>1. l[Len(l)].tran = Len(<<>>) + 1
    BY <1>1, <1>3, <1>4
  <2>2. \A j : ~(j \in 1 .. Len(l) - 1)
    BY <1>3
  <2>3. QED BY <1>4, <2>1, <2>2 DEF Places
<1>6. Ciphered(m, l, <<>>, 0, KeyStart)
  <2>1. /\ \A j : ~(j \in 1 .. Len(l) - 1) /\ ~(j \in 1 .. 0) /\ ~(j \in 0 + 1 .. Len(l) - 1)
        /\ 0 \in 0 .. Len(l) - 1 /\ l[0 + 1] = l[1]
    BY <1>3
  <2>2. \A j \in 0 + 1 .. Len(l) : j = 1
    BY <1>3
  <2>3. QED BY <1>4, <2>1, <2>2 DEF Ciphered
<1>7. QED BY <1>4, <1>5, <1>6 DEF InPhase, l

\* Its first z bytes taken away.
Shifted(k, l, z) == Len(k) = Len(l) - z /\ \A j \in 1 .. Len(k) : k[j] = l[j + z]

Regrouped(p, q, r, t) == ((p \o q) \o r) \o t = p \o ((q \o r) \o t)

LEMMA ConcatFour ==
  ASSUME NEW p \in Seq(Bytes), NEW q \in Seq(Bytes), NEW r \in Seq(Bytes), NEW t \in Seq(Bytes)
  PROVE  Regrouped(p, q, r, t)
<1>1. (p \o q) \o r = p \o (q \o r)
  BY ConcatAssociative
<1>2. q \o r \in Seq(Bytes)
  BY ConcatProperties
<1>3. ASSUME NEW x \in Seq(Bytes) PROVE (p \o x) \o t = p \o (x \o t)
  <2>1. p \in Seq(Bytes) /\ x \in Seq(Bytes) /\ t \in Seq(Bytes)
    OBVIOUS
  <2>2. QED BY ONLY SMTT(30), <2>1, ConcatAssociative
<1>4. (p \o (q \o r)) \o t = p \o ((q \o r) \o t)
  BY ONLY <1>2, <1>3
<1>5. QED BY ONLY <1>1, <1>4 DEF Regrouped

LEMMA DropLine ==
  ASSUME NEW a \in Seq(Bytes), NEW c \in Seq(Bytes), NEW h \in Seq(Bytes), NEW n \in Seq(Bytes),
         NEW s \in Seq(Tran), NEW e \in Enc
  PROVE  Shifted(Lined(c, h, n, s, e), Lined(a \o c, h, n, s, e), Len(a))
<1> DEFINE b == a \o c
           l == Lined(b, h, n, s, e)
           k == Lined(c, h, n, s, e)
           coming == Byte(Len(s) + 1, 1, e)
           x == Len(h)
           y == Len(n)
           z == Len(a)
           w == Len(c)
<1>1. x \in Nat /\ y \in Nat /\ z \in Nat /\ w \in Nat
  BY LenProperties
<1>2. b \in Seq(Bytes) /\ Len(b) = z + w
  BY ConcatProperties
<1>3. /\ Len(l) = z + w + x + y + 1 /\ l[z + w + x + y + 1] = coming
      /\ \A j \in 1 .. z + w + x + y : l[j] = (((a \o c) \o h) \o n)[j]
  <2>1. IsLined(l, b, h, n, s, e)
    BY <1>2, LinedIs
  <2>2. QED BY <1>2, <2>1 DEF IsLined
<1>4. /\ Len(k) = w + x + y + 1 /\ k[w + x + y + 1] = coming
      /\ \A j \in 1 .. w + x + y : k[j] = ((c \o h) \o n)[j]
  <2>1. IsLined(k, c, h, n, s, e)
    BY LinedIs
  <2>2. QED BY <2>1 DEF IsLined
<1>5. ((a \o c) \o h) \o n = a \o ((c \o h) \o n)
  <2>1. Regrouped(a, c, h, n)
    BY ConcatFour
  <2>2. QED BY ONLY <2>1 DEF Regrouped
<1>6. (c \o h) \o n \in Seq(Bytes) /\ Len((c \o h) \o n) = w + x + y
  <2>1. c \o h \in Seq(Bytes) /\ Len(c \o h) = w + x
    BY ConcatProperties
  <2>2. QED BY <2>1, ConcatProperties
<1> DEFINE v == (c \o h) \o n
<1> HIDE DEF v
<1>7. v \in Seq(Bytes) /\ Len(v) = w + x + y
  BY <1>6 DEF v
<1>8. \A j \in 1 .. z + (w + x + y) : (a \o v)[j] = IF j <= z THEN a[j] ELSE v[j - z]
  BY <1>7, ConcatProperties
<1>9. /\ \A j \in 1 .. z + w + x + y : l[j] = (a \o v)[j]
      /\ \A j \in 1 .. w + x + y : k[j] = v[j]
  BY <1>3, <1>4, <1>5 DEF v
<1> HIDE DEF l, k, x, y, z, w, coming
<1>10. ASSUME NEW j \in 1 .. Len(k) PROVE k[j] = l[j + z]
  <2>1. CASE j = w + x + y + 1
    <3>1. j + z = z + w + x + y + 1
      BY <1>1, <2>1
    <3>2. QED BY <1>3, <1>4, <2>1, <3>1
  <2>2. CASE j # w + x + y + 1
    <3>1. /\ j \in 1 .. w + x + y /\ j + z \in 1 .. z + w + x + y
          /\ j + z \in 1 .. z + (w + x + y) /\ ~(j + z <= z) /\ (j + z) - z = j
      BY <1>1, <1>4, <2>2
    <3>2. l[j + z] = (a \o v)[j + z] /\ k[j] = v[j] /\ (a \o v)[j + z] = v[j]
      BY <1>8, <1>9, <3>1
    <3>3. QED BY <3>2
  <2>3. QED BY <2>1, <2>2
<1>11. Len(k) = Len(l) - z
  <2>1. /\ z \in Nat /\ w \in Nat /\ x \in Nat /\ y \in Nat
        /\ Len(l) = z + w + x + y + 1 /\ Len(k) = w + x + y + 1
    BY <1>1, <1>3, <1>4
  <2>2. \A i, j : i = z + w + x + y + 1 /\ j = w + x + y + 1 => j = i - z
    BY ONLY <2>1
  <2>3. QED BY ONLY <2>1, <2>2
<1>12. QED BY <1>10, <1>11 DEF Shifted, k, l, z

LEMMA SkipLine ==
  ASSUME NEW b \in Seq(Bytes), NEW h \in Seq(Bytes), NEW n \in Seq(Bytes), NEW s \in Seq(Tran),
         NEW e \in Enc, NEW z \in 0 .. Len(b)
  PROVE  Shifted(Lined(Skip(b, z), h, n, s, e), Lined(b, h, n, s, e), z)
<1>1. /\ Take(b, z) \in Seq(Bytes) /\ Skip(b, z) \in Seq(Bytes) /\ Len(Take(b, z)) = z
      /\ Take(b, z) \o Skip(b, z) = b
  BY TakeSkip
<1>2. Shifted(Lined(Skip(b, z), h, n, s, e), Lined(Take(b, z) \o Skip(b, z), h, n, s, e), Len(Take(b, z)))
  BY <1>1, DropLine
<1>3. QED BY <1>1, <1>2

LEMMA PlacesShift ==
  ASSUME NEW m, NEW s \in Seq(Tran), NEW g \in Nat, NEW l \in Seq(Bytes), NEW k, NEW z \in Nat,
         Places(m, l, s, g), Shifted(k, l, z), 1 + z \in 1 .. Len(l),
         l[1 + z].tran = (g + 1) + 1, l[1 + z].at = 1
  PROVE  Places(m, k, s, g + 1)
<1>1. Len(l) \in Nat /\ Len(k) = Len(l) - z /\ Len(k) >= 1
  BY LenProperties DEF Shifted
<1>2. \A j \in 1 .. Len(k) : k[j] = l[j + z]
  BY DEF Shifted
<1>3. k[1] = l[1 + z] /\ k[Len(k)] = l[Len(l)]
  <2>1. 1 \in 1 .. Len(k) /\ Len(k) \in 1 .. Len(k) /\ Len(k) + z = Len(l)
    BY <1>1
  <2>2. QED BY <1>2, <2>1
<1>4. ASSUME NEW j \in 1 .. Len(k) - 1
      PROVE  Sound(m, k[j], s) /\ Follows(m, k[j + 1], k[j], s)
  <2>1. j \in 1 .. Len(k) /\ j + 1 \in 1 .. Len(k) /\ (j + 1) + z = (j + z) + 1 /\ j + z \in 1 .. Len(l) - 1
    <3> DEFINE x == Len(k)
               y == Len(l)
    <3>1. y \in Nat /\ x = y - z /\ x >= 1 /\ z \in Nat /\ j \in 1 .. x - 1
      BY <1>1
    <3> HIDE DEF x, y
    <3>2. j \in 1 .. x /\ j + 1 \in 1 .. x /\ (j + 1) + z = (j + z) + 1 /\ j + z \in 1 .. y - 1
      BY ONLY <3>1
    <3>3. QED BY <3>2 DEF x, y
  <2>2. k[j] = l[j + z] /\ k[j + 1] = l[(j + z) + 1]
    BY <1>2, <2>1
  <2>3. Sound(m, l[j + z], s) /\ Follows(m, l[(j + z) + 1], l[j + z], s)
    BY <2>1 DEF Places
  <2>4. QED BY <2>2, <2>3
<1>5. k[Len(k)].tran = Len(s) + 1
  BY <1>3 DEF Places
<1>6. QED BY <1>3, <1>4, <1>5 DEF Places

LEMMA CipheredShift ==
  ASSUME NEW m, NEW s \in Seq(Tran), NEW l \in Seq(Bytes), NEW k, NEW z \in Nat,
         NEW off \in Nat, NEW c, NEW o \in Nat, NEW d,
         Ciphered(m, l, s, off, c), Shifted(k, l, z), 1 + z \in 1 .. Len(l),
         o = 0 \/ o + z = off, off <= o + z,
         m # "none" => l[o + 1 + z].enc = d
  PROVE  Ciphered(m, k, s, o, d)
<1>1. Len(l) \in Nat /\ Len(k) = Len(l) - z /\ Len(k) \in Nat /\ Len(k) >= 1
  BY LenProperties DEF Shifted
<1>2. \A j \in 1 .. Len(k) : k[j] = l[j + z]
  BY DEF Shifted
<1>3. CASE m = "none"
  <2>1. ASSUME NEW j \in 1 .. Len(k) - 1 PROVE k[j].enc = Clear
    <3>1. j \in 1 .. Len(k) /\ j + z \in 1 .. Len(l) - 1
      BY <1>1
    <3>2. l[j + z].enc = Clear
      BY <1>3, <3>1 DEF Ciphered
    <3>3. QED BY <1>2, <3>1, <3>2
  <2>2. QED BY <1>3, <2>1 DEF Ciphered
<1>4. CASE m # "none"
  <2>1. /\ off \in 0 .. Len(l) - 1
        /\ \A j \in 1 .. off : l[j].enc = Clear
        /\ \A j \in off + 1 .. Len(l) : l[j].enc.gen \in Nat
        /\ \A j \in off + 1 .. Len(l) - 1 : Turns(m, l[j + 1], l[j], s)
    BY <1>4 DEF Ciphered
  <2>2. o \in 0 .. Len(k) - 1 /\ o + 1 \in 1 .. Len(k)
    BY SMTT(30), <1>1, <2>1
  <2>3. k[o + 1].enc = d
    BY <1>2, <1>4, <2>2
  <2>4. ASSUME NEW j \in 1 .. o PROVE k[j].enc = Clear
    <3>1. j \in 1 .. Len(k) /\ j + z \in 1 .. off
      BY <1>1, <2>2
    <3>2. QED BY <1>2, <2>1, <3>1
  <2>5. ASSUME NEW j \in o + 1 .. Len(k) PROVE k[j].enc.gen \in Nat
    <3>1. j \in 1 .. Len(k) /\ j + z \in off + 1 .. Len(l)
      BY <1>1
    <3>2. QED BY <1>2, <2>1, <3>1
  <2>6. ASSUME NEW j \in o + 1 .. Len(k) - 1 PROVE Turns(m, k[j + 1], k[j], s)
    <3>1. /\ j \in 1 .. Len(k) /\ j + z \in off + 1 .. Len(l) - 1 /\ j + 1 \in 1 .. Len(k)
          /\ (j + 1) + z = (j + z) + 1
      BY <1>1
    <3>2. k[j] = l[j + z] /\ k[j + 1] = l[(j + z) + 1]
      BY <1>2, <3>1
    <3>3. Turns(m, l[(j + z) + 1], l[j + z], s)
      BY <2>1, <3>1
    <3>4. QED BY <3>2, <3>3
  <2>7. QED BY <1>4, <2>2, <2>3, <2>4, <2>5, <2>6 DEF Ciphered
<1>5. QED BY <1>3, <1>4

\* The n bytes after off are decrypted, and nothing else happens to the line.
Cleared(k, l, off, n) ==
    /\ Len(k) = Len(l)
    /\ \A j \in 1 .. Len(k) :
         /\ k[j].tran = l[j].tran /\ k[j].at = l[j].at
         /\ k[j].enc = IF j > off /\ j <= off + n THEN Clear ELSE l[j].enc

Decoded(b, off, n, c) ==
    [k \in DOMAIN b |-> IF k > off /\ k <= off + n
                        THEN Decrypted(b[k], [c EXCEPT !.pos = @ + k - off - 1])
                        ELSE b[k]]

LEMMA EncSet ==
  ASSUME NEW r \in Bytes, NEW c
  PROVE  [r EXCEPT !.enc = c] = [tran |-> r.tran, at |-> r.at, enc |-> c]
  BY DEF Bytes

LEMMA DecodedIs ==
  ASSUME NEW b \in Seq(Bytes), NEW off \in Nat, NEW n \in Nat, off + n <= Len(b), NEW c \in Enc,
         \A i \in 0 .. n - 1 : b[off + 1 + i].enc.gen = c.gen /\ b[off + 1 + i].enc.pos = c.pos + i
  PROVE  Decoded(b, off, n, c) \in Seq(Bytes) /\ Cleared(Decoded(b, off, n, c), b, off, n)
<1> DEFINE d == Decoded(b, off, n, c)
<1>1. Len(b) \in Nat /\ DOMAIN b = 1 .. Len(b) /\ c.gen \in Int /\ c.pos \in Int
  BY LenProperties DEF Enc
<1>2. \A j \in 1 .. Len(b) : b[j] \in Bytes
  BY ElementOfSeq
<1>3. Clear \in Enc
  BY DEF Clear, Enc
<1>4. ASSUME NEW j \in 1 .. Len(b)
      PROVE  /\ d[j] \in Bytes /\ d[j].tran = b[j].tran /\ d[j].at = b[j].at
             /\ d[j].enc = IF j > off /\ j <= off + n THEN Clear ELSE b[j].enc
  <2>1. d[j] = IF j > off /\ j <= off + n
               THEN Decrypted(b[j], [c EXCEPT !.pos = @ + j - off - 1]) ELSE b[j]
    BY <1>1 DEF Decoded
  <2>2. b[j] \in Bytes /\ b[j].tran \in Nat /\ b[j].at \in Nat /\ b[j].enc \in Enc
    BY <1>2 DEF Bytes
  <2>3. CASE j > off /\ j <= off + n
    <3> DEFINE i == j - off - 1
               e == [c EXCEPT !.pos = @ + j - off - 1]
    <3>1. i \in 0 .. n - 1 /\ off + 1 + i = j /\ c.pos + j - off - 1 = c.pos + i
      BY <1>1, <2>3
    <3>2. b[j].enc.gen = c.gen /\ b[j].enc.pos = c.pos + i
      BY <3>1
    <3>3. e.gen = c.gen /\ e.pos = c.pos + j - off - 1 /\ e \in Enc
      <4> DEFINE x == c.pos + j - off - 1
      <4>1. x \in Int
        BY <1>1
      <4> HIDE DEF x
      <4>2. [c EXCEPT !.pos = x].gen = c.gen /\ [c EXCEPT !.pos = x].pos = x /\ [c EXCEPT !.pos = x] \in Enc
        BY <4>1 DEF Enc
      <4>3. QED BY <4>2 DEF x
    <3> HIDE DEF e, i
    <3>4. b[j].enc = e
      BY <2>2, <3>1, <3>2, <3>3, EncEqual
    <3>5. d[j] = Decrypted(b[j], e)
      BY <2>1, <2>3 DEF e
    <3>6. d[j] = [b[j] EXCEPT !.enc = Clear]
      BY <3>4, <3>5 DEF Decrypted
    <3>7. [b[j] EXCEPT !.enc = Clear] = [tran |-> b[j].tran, at |-> b[j].at, enc |-> Clear]
      BY <2>2, EncSet
    <3> HIDE DEF d
    <3>8. d[j].tran = b[j].tran /\ d[j].at = b[j].at /\ d[j].enc = Clear /\ d[j] \in Bytes
      BY <1>3, <2>2, <3>6, <3>7 DEF Bytes
    <3>9. QED BY <2>3, <3>8
  <2>4. CASE ~(j > off /\ j <= off + n)
    BY <2>1, <2>2, <2>4
  <2>5. QED BY <2>3, <2>4
<1>5. d = [j \in 1 .. Len(b) |-> d[j]]
  BY <1>1 DEF Decoded
<1> HIDE DEF d
<1>6. d \in [1 .. Len(b) -> Bytes]
  BY <1>4, <1>5
<1>7. d \in Seq(Bytes) /\ Len(d) = Len(b)
  BY <1>1, <1>6, LenProperties
<1>8. QED BY <1>4, <1>7 DEF Cleared, d

LEMMA ClearLine ==
  ASSUME NEW b \in Seq(Bytes), NEW d \in Seq(Bytes), NEW h \in Seq(Bytes), NEW n \in Seq(Bytes),
         NEW s \in Seq(Tran), NEW e \in Enc, NEW off \in Nat, NEW z \in Nat,
         off + z <= Len(b), Cleared(d, b, off, z)
  PROVE  Cleared(Lined(d, h, n, s, e), Lined(b, h, n, s, e), off, z)
<1> DEFINE l == Lined(b, h, n, s, e)
           k == Lined(d, h, n, s, e)
           x == Len(h)
           y == Len(n)
           w == Len(b)
<1>1. IsLined(l, b, h, n, s, e) /\ IsLined(k, d, h, n, s, e)
  BY LinedIs
<1>2. x \in Nat /\ y \in Nat /\ w \in Nat /\ Len(d) = w
  BY LenProperties DEF Cleared
<1>3. b \o h \in Seq(Bytes) /\ d \o h \in Seq(Bytes) /\ Len(b \o h) = w + x /\ Len(d \o h) = w + x
  BY <1>2, ConcatProperties
<1>4. /\ \A j \in 1 .. w + x + y : ((b \o h) \o n)[j] = IF j <= w + x THEN (b \o h)[j] ELSE n[j - (w + x)]
      /\ \A j \in 1 .. w + x + y : ((d \o h) \o n)[j] = IF j <= w + x THEN (d \o h)[j] ELSE n[j - (w + x)]
  <2>1. \A j \in 1 .. w + x + y : ((b \o h) \o n)[j] = IF j <= w + x THEN (b \o h)[j] ELSE n[j - (w + x)]
    BY <1>3, ConcatProperties
  <2>2. \A j \in 1 .. w + x + y : ((d \o h) \o n)[j] = IF j <= w + x THEN (d \o h)[j] ELSE n[j - (w + x)]
    <3> DEFINE p == d \o h
    <3>1. p \in Seq(Bytes) /\ Len(p) = w + x
      BY <1>3
    <3> HIDE DEF p
    <3>2. \A j \in 1 .. Len(p) + Len(n) : (p \o n)[j] = IF j <= Len(p) THEN p[j] ELSE n[j - Len(p)]
      BY <3>1, ConcatProperties
    <3>3. QED BY <3>1, <3>2 DEF p
  <2>3. QED BY <2>1, <2>2
<1>5. /\ \A j \in 1 .. w + x : (b \o h)[j] = IF j <= w THEN b[j] ELSE h[j - w]
      /\ \A j \in 1 .. w + x : (d \o h)[j] = IF j <= w THEN d[j] ELSE h[j - w]
  <2>1. \A j \in 1 .. w + x : (b \o h)[j] = IF j <= w THEN b[j] ELSE h[j - w]
    BY ConcatProperties
  <2>2. \A j \in 1 .. w + x : (d \o h)[j] = IF j <= w THEN d[j] ELSE h[j - w]
    BY <1>2, ConcatProperties
  <2>3. QED BY <2>1, <2>2
<1>6. /\ Len(l) = w + x + y + 1 /\ Len(k) = w + x + y + 1
      /\ \A j \in 1 .. w : l[j] = b[j] /\ k[j] = d[j]
      /\ \A j \in 1 .. w + x + y : l[j] = ((b \o h) \o n)[j] /\ k[j] = ((d \o h) \o n)[j]
      /\ l[w + x + y + 1] = Byte(Len(s) + 1, 1, e) /\ k[w + x + y + 1] = Byte(Len(s) + 1, 1, e)
  BY <1>1, <1>2 DEF IsLined
<1> HIDE DEF l, k, x, y
<1>7. ASSUME NEW j \in 1 .. Len(k), j > w PROVE k[j] = l[j]
  <2>1. CASE j = w + x + y + 1
    BY <1>6, <2>1
  <2>2. CASE j # w + x + y + 1
    <3>1. j \in 1 .. w + x + y /\ ~(j <= w) /\ (j <= w + x => j \in 1 .. w + x)
      BY <1>2, <1>6, <1>7, <2>2
    <3>2. ((b \o h) \o n)[j] = ((d \o h) \o n)[j]
      BY <1>4, <1>5, <3>1
    <3>3. QED BY <1>6, <3>1, <3>2
  <2>3. QED BY <2>1, <2>2
<1> HIDE DEF w
<1>8. ASSUME NEW j \in 1 .. Len(k)
      PROVE  /\ k[j].tran = l[j].tran /\ k[j].at = l[j].at
             /\ k[j].enc = IF j > off /\ j <= off + z THEN Clear ELSE l[j].enc
  <2>1. CASE j > w
    <3>1. k[j] = l[j] /\ ~(j <= off + z)
      BY <1>2, <1>6, <1>7, <2>1 DEF w
    <3>2. QED BY <3>1
  <2>2. CASE ~(j > w)
    <3>1. j \in 1 .. w /\ j \in 1 .. Len(d)
      BY <1>2, <1>6, <2>2
    <3>2. l[j] = b[j] /\ k[j] = d[j]
      BY <1>6, <3>1
    <3>3. QED BY <3>1, <3>2 DEF Cleared
  <2>3. QED BY <2>1, <2>2
<1>9. QED BY <1>6, <1>8 DEF Cleared, k, l

LEMMA PlacesCleared ==
  ASSUME NEW m, NEW s \in Seq(Tran), NEW g, NEW l \in Seq(Bytes), NEW k, NEW off, NEW n,
         Places(m, l, s, g), Cleared(k, l, off, n), Len(l) >= 1
  PROVE  Places(m, k, s, g)
<1>1. Len(l) \in Nat /\ Len(k) = Len(l)
  BY LenProperties DEF Cleared
<1>2. \A j \in 1 .. Len(l) : k[j].tran = l[j].tran /\ k[j].at = l[j].at
  BY <1>1 DEF Cleared
<1>3. ASSUME NEW j \in 1 .. Len(k) - 1
      PROVE  Sound(m, k[j], s) /\ Follows(m, k[j + 1], k[j], s)
  <2>1. j \in 1 .. Len(l) /\ j + 1 \in 1 .. Len(l) /\ j \in 1 .. Len(l) - 1
    BY <1>1
  <2>2. Sound(m, l[j], s) /\ Follows(m, l[j + 1], l[j], s)
    BY <2>1 DEF Places
  <2>3. /\ k[j].tran = l[j].tran /\ k[j].at = l[j].at
        /\ k[j + 1].tran = l[j + 1].tran /\ k[j + 1].at = l[j + 1].at
    BY <1>2, <2>1
  <2>4. QED BY <2>2, <2>3 DEF Sound, Follows
<1>4. 1 \in 1 .. Len(l) /\ Len(l) \in 1 .. Len(l)
  BY <1>1
<1>5. k[1].tran = g + 1 /\ k[1].at = 1 /\ k[Len(k)].tran = Len(s) + 1
  BY <1>1, <1>2, <1>4 DEF Places
<1>6. QED BY <1>3, <1>5 DEF Places

LEMMA CipheredCleared ==
  ASSUME NEW s \in Seq(Tran), NEW l \in Seq(Bytes), NEW k, NEW off \in Nat, NEW n \in Nat, NEW c,
         Ciphered("rc4", l, s, off, c), Cleared(k, l, off, n), off + n <= Len(l) - 1
  PROVE  Ciphered("rc4", k, s, off + n, l[off + n + 1].enc)
<1> DEFINE o == off + n
<1>1. Len(l) \in Nat /\ Len(k) = Len(l) /\ o \in Nat /\ o >= off /\ o \in 0 .. Len(k) - 1
  BY LenProperties DEF Cleared
<1>2. \A j \in 1 .. Len(l) : /\ k[j].tran = l[j].tran /\ k[j].at = l[j].at
                             /\ k[j].enc = IF j > off /\ j <= o THEN Clear ELSE l[j].enc
  BY <1>1 DEF Cleared
<1> HIDE DEF o
<1>3. ASSUME NEW j \in o + 1 .. Len(l) PROVE k[j].enc = l[j].enc /\ k[j].tran = l[j].tran /\ k[j].at = l[j].at
  <2>1. j \in 1 .. Len(l) /\ ~(j <= o)
    BY <1>1
  <2>2. QED BY <1>2, <2>1
<1>4. ASSUME NEW j \in 1 .. o PROVE k[j].enc = Clear
  <2>1. j \in 1 .. Len(l) /\ j <= o
    BY <1>1
  <2>2. CASE j > off
    BY <1>2, <2>1, <2>2
  <2>3. CASE ~(j > off)
    <3>1. j \in 1 .. off
      BY <2>3
    <3>2. l[j].enc = Clear
      BY <3>1 DEF Ciphered
    <3>3. QED BY <1>2, <2>1, <2>3, <3>2
  <2>4. QED BY <2>2, <2>3
<1>5. ASSUME NEW j \in o + 1 .. Len(k) PROVE k[j].enc.gen \in Nat
  <2>1. j \in off + 1 .. Len(l) /\ j \in o + 1 .. Len(l)
    BY <1>1
  <2>2. l[j].enc.gen \in Nat
    BY <2>1 DEF Ciphered
  <2>3. QED BY <1>3, <2>1, <2>2
<1>6. ASSUME NEW j \in o + 1 .. Len(k) - 1 PROVE Turns("rc4", k[j + 1], k[j], s)
  <2>1. j \in off + 1 .. Len(l) - 1 /\ j \in o + 1 .. Len(l) /\ j + 1 \in o + 1 .. Len(l)
    BY <1>1
  <2>2. Turns("rc4", l[j + 1], l[j], s)
    BY <2>1 DEF Ciphered
  <2>3. /\ k[j].enc = l[j].enc /\ k[j].tran = l[j].tran /\ k[j].at = l[j].at
        /\ k[j + 1].enc = l[j + 1].enc
    BY <1>3, <2>1
  <2>4. QED BY <2>2, <2>3 DEF Turns
<1>7. k[o + 1].enc = l[o + 1].enc
  <2>1. o + 1 \in o + 1 .. Len(l)
    BY <1>1
  <2>2. QED BY <1>3, <2>1
<1>8. Ciphered("rc4", k, s, o, l[o + 1].enc)
  BY <1>1, <1>4, <1>5, <1>6, <1>7 DEF Ciphered
<1>9. QED BY <1>8 DEF o

-----------------------------------------------------------------------------
(* A transaction is sent: its bytes take the place of the byte to come. *)

LEMMA PosSet ==
  ASSUME NEW c \in Enc, NEW x \in Int
  PROVE  /\ [c EXCEPT !.pos = x] \in Enc /\ [c EXCEPT !.pos = x].gen = c.gen
         /\ [c EXCEPT !.pos = x].pos = x
  BY DEF Enc

LEMMA EncryptsAead ==
  ASSUME agreed = "aead", encoder \in Enc, NEW i \in Nat, NEW rot, NEW body
  PROVE  Encryption(i, rot) = encoder /\ AfterSending(body, rot) = [encoder EXCEPT !.pos = @ + 1]
<1>1. Encryption(i, rot) = [encoder EXCEPT !.pos = @ + 0]
  BY DEF Encryption
<1>2. encoder.pos + 0 = encoder.pos /\ encoder.pos \in Int
  BY DEF Enc
<1>3. [encoder EXCEPT !.pos = encoder.pos] \in Enc /\ [encoder EXCEPT !.pos = encoder.pos].gen = encoder.gen
      /\ [encoder EXCEPT !.pos = encoder.pos].pos = encoder.pos
  BY <1>2, PosSet
<1>4. [encoder EXCEPT !.pos = encoder.pos] = encoder
  BY <1>3, EncEqual
<1>5. QED BY <1>1, <1>2, <1>4 DEF AfterSending

LEMMA EncryptsRc4 ==
  ASSUME agreed = "rc4", encoder \in Enc, NEW i \in Nat \ {0}, NEW rot \in Nat, NEW body \in Nat
  PROVE  /\ Encryption(i, rot) \in Enc /\ AfterSending(body, rot) \in Enc
         /\ i <= HeaderLen + 2 \/ rot = 0 =>
              Encryption(i, rot).gen = encoder.gen /\ Encryption(i, rot).pos = encoder.pos + (i - 1)
         /\ ~(i <= HeaderLen + 2 \/ rot = 0) =>
              Encryption(i, rot).gen = encoder.gen + rot /\ Encryption(i, rot).pos = i - HeaderLen - 3
         /\ rot = 0 =>
              /\ AfterSending(body, rot).gen = encoder.gen
              /\ AfterSending(body, rot).pos = encoder.pos + (HeaderLen + body)
         /\ rot # 0 /\ body >= 2 =>
              AfterSending(body, rot).gen = encoder.gen + rot /\ AfterSending(body, rot).pos = body - 2
<1>1. encoder.gen \in Int /\ encoder.pos \in Int /\ HeaderLen \in Nat
  BY TransportAssumption DEF Enc
<1> DEFINE x == encoder.pos + (i - 1)
           y == encoder.pos + (HeaderLen + body)
           mid == [gen |-> encoder.gen + rot, pos |-> i - HeaderLen - 3]
           rest2 == IF body > 2 THEN body - 2 ELSE 0
           end == [gen |-> encoder.gen + rot, pos |-> rest2]
<1>2. x \in Int /\ y \in Int /\ mid \in Enc /\ end \in Enc /\ (body >= 2 => rest2 = body - 2)
  BY <1>1 DEF Enc
<1>3. i <= HeaderLen + 2 \/ rot = 0 => Encryption(i, rot) = [encoder EXCEPT !.pos = x]
  BY DEF Encryption
<1>4. ~(i <= HeaderLen + 2 \/ rot = 0) => Encryption(i, rot) = mid
  BY DEF Encryption
<1>5. rot = 0 => AfterSending(body, rot) = [encoder EXCEPT !.pos = y]
  BY <1>1 DEF AfterSending
<1>6. rot # 0 => AfterSending(body, rot) = end
  BY DEF AfterSending
<1>7. mid.gen = encoder.gen + rot /\ mid.pos = i - HeaderLen - 3 /\ end.gen = encoder.gen + rot /\ end.pos = rest2
  OBVIOUS
<1> HIDE DEF mid, end, rest2, x, y
<1>8. /\ [encoder EXCEPT !.pos = x] \in Enc /\ [encoder EXCEPT !.pos = x].gen = encoder.gen
      /\ [encoder EXCEPT !.pos = x].pos = x
  BY <1>2, PosSet
<1>9. /\ [encoder EXCEPT !.pos = y] \in Enc /\ [encoder EXCEPT !.pos = y].gen = encoder.gen
      /\ [encoder EXCEPT !.pos = y].pos = y
  BY <1>2, PosSet
<1>10. Encryption(i, rot) \in Enc
  BY <1>2, <1>3, <1>4, <1>8
<1>11. AfterSending(body, rot) \in Enc
  BY <1>2, <1>5, <1>6, <1>9
<1>12. i <= HeaderLen + 2 \/ rot = 0 =>
         Encryption(i, rot).gen = encoder.gen /\ Encryption(i, rot).pos = x
  BY <1>3, <1>8
<1>13. rot = 0 => AfterSending(body, rot).gen = encoder.gen /\ AfterSending(body, rot).pos = y
  BY <1>5, <1>9
<1>14. rot # 0 /\ body >= 2 =>
         AfterSending(body, rot).gen = encoder.gen + rot /\ AfterSending(body, rot).pos = body - 2
  BY <1>2, <1>6, <1>7
<1>15. QED BY <1>4, <1>7, <1>10, <1>11, <1>12, <1>13, <1>14 DEF x, y

\* The key states of a transaction's bytes, and the one after them.
Keyed(c, i, rot, body) == IF i <= Size(body) THEN c = Encryption(i, rot) ELSE c = AfterSending(body, rot)

LEMMA KeysTurn ==
  ASSUME agreed \in {"rc4", "aead"}, encoder \in Enc, encoder.gen \in Nat, NEW body \in Nat, body >= 2,
         NEW rot \in Nat, rot = 0 \/ agreed = "rc4", NEW s, NEW b, NEW c,
         s[b.tran].body = body, s[b.tran].rot = rot, b.at \in 1 .. Size(body),
         Keyed(b.enc, b.at, rot, body), Keyed(c.enc, b.at + 1, rot, body)
  PROVE  /\ Turns(agreed, c, b, s) /\ b.enc \in Enc /\ b.enc.gen \in Nat /\ c.enc \in Enc
         /\ c.enc.gen \in Nat /\ (b.at = 1 => b.enc = encoder)
<1> DEFINE i == b.at
           z == Size(body)
<1>1. /\ HeaderLen \in Nat \ {0} /\ FrameHead \in Nat /\ Tag \in Nat
      /\ encoder.gen \in Int /\ encoder.pos \in Int
  BY TransportAssumption DEF Enc
<1>2. z = SizeIn(agreed, body) /\ z \in Nat /\ (agreed = "rc4" => z = HeaderLen + body)
  BY <1>1, SizeSame DEF SizeIn
<1>3. i \in Nat \ {0} /\ i + 1 \in Nat \ {0} /\ i <= z
  BY <1>2
<1> HIDE DEF z
<1>4. CASE agreed = "aead"
  <2>1. b.enc = encoder
    BY <1>3, <1>4, EncryptsAead DEF Keyed, z
  <2>2. [encoder EXCEPT !.pos = @ + 1] \in Enc /\ [encoder EXCEPT !.pos = @ + 1].gen = encoder.gen
        /\ [encoder EXCEPT !.pos = @ + 1].pos = encoder.pos + 1
    <3>1. encoder.pos + 1 \in Int
      BY <1>1
    <3>2. QED BY <3>1, PosSet
  <2>3. CASE i < z
    <3>1. i + 1 <= z
      BY <1>2, <1>3, <2>3
    <3>2. c.enc = encoder
      BY <1>3, <1>4, <3>1, EncryptsAead DEF Keyed, z
    <3>3. QED BY <1>2, <1>4, <2>1, <2>3, <3>2 DEF Turns
  <2>4. CASE ~(i < z)
    <3>1. ~(i + 1 <= z)
      BY <1>2, <1>3, <2>4
    <3>2. c.enc = AfterSending(body, rot)
      BY <3>1 DEF Keyed, z
    <3>3. c.enc = [encoder EXCEPT !.pos = @ + 1]
      BY <1>3, <1>4, <3>2, EncryptsAead
    <3>4. c.enc.gen = encoder.gen /\ c.enc.pos = encoder.pos + 1 /\ c.enc \in Enc
      BY <2>2, <3>3
    <3>5. QED BY <1>2, <1>4, <2>1, <2>4, <3>4 DEF Turns
  <2>5. QED BY <2>3, <2>4
<1>5. CASE agreed = "rc4"
  <2>1. b.enc = Encryption(i, rot)
    BY <1>3 DEF Keyed, z
  <2> DEFINE h == HeaderLen
             G == encoder.gen
             P == encoder.pos
  <2>2. /\ b.enc \in Enc
        /\ i <= h + 2 \/ rot = 0 => b.enc.gen = G /\ b.enc.pos = P + (i - 1)
        /\ ~(i <= h + 2 \/ rot = 0) => b.enc.gen = G + rot /\ b.enc.pos = i - h - 3
    BY SMTT(30), <1>3, <1>5, <2>1, EncryptsRc4
  <2>3. c.enc \in Enc /\ IF (i + 1 <= h + 2 /\ i < z) \/ rot = 0 THEN c.enc.gen = G /\ c.enc.pos = P + i
        ELSE c.enc.gen = G + rot /\ c.enc.pos = (i + 1) - h - 3
    <3>1. CASE i + 1 <= z
      <4>1. c.enc = Encryption(i + 1, rot)
        BY <3>1 DEF Keyed, z
      <4>2. /\ c.enc \in Enc
            /\ i + 1 <= h + 2 \/ rot = 0 => c.enc.gen = G /\ c.enc.pos = P + ((i + 1) - 1)
            /\ ~(i + 1 <= h + 2 \/ rot = 0) => c.enc.gen = G + rot /\ c.enc.pos = (i + 1) - h - 3
        BY SMTT(30), <1>3, <1>5, <4>1, EncryptsRc4
      <4>3. P + ((i + 1) - 1) = P + i /\ i < z
        BY <1>1, <1>2, <1>3, <3>1
      <4>4. QED BY <4>2, <4>3
    <3>2. CASE ~(i + 1 <= z)
      <4>1. c.enc = AfterSending(body, rot)
        BY <3>2 DEF Keyed, z
      <4>2. /\ c.enc \in Enc
            /\ rot = 0 => c.enc.gen = G /\ c.enc.pos = P + (h + body)
            /\ rot # 0 => c.enc.gen = G + rot /\ c.enc.pos = body - 2
        BY <1>3, <1>5, <4>1, EncryptsRc4
      <4>3. i = h + body /\ ~(i < z) /\ (i + 1) - h - 3 = body - 2
        BY <1>1, <1>2, <1>3, <1>5, <3>2
      <4>4. QED BY <4>2, <4>3
    <3>3. QED BY <3>1, <3>2
  <2>4. (i + 1 <= h + 2 => i < z) /\ (i <= h + 2 => i <= z)
    BY <1>1, <1>2, <1>3, <1>5
  <2>5. G \in Nat /\ P \in Int /\ h \in Nat
    BY <1>1
  <2> HIDE DEF i, h, G, P
  <2>6. CASE rot = 0
    <3>1. b.enc.gen = G /\ b.enc.pos = P + (i - 1) /\ c.enc.gen = G /\ c.enc.pos = P + i
      BY <2>2, <2>3, <2>6
    <3>2. P + i = (P + (i - 1)) + 1 /\ (i = 1 => P + (i - 1) = P)
      BY <1>3, <2>5
    <3>3. i = 1 => b.enc = encoder
      BY <2>2, <3>1, <3>2, EncEqual DEF G, P
    <3>4. QED BY <1>5, <2>2, <2>3, <2>5, <2>6, <3>1, <3>2, <3>3 DEF Turns, i
  <2>7. CASE rot # 0 /\ i < h + 2
    <3>1. i + 1 <= h + 2 /\ i <= h + 2 /\ i # h + 2
      BY <1>3, <2>5, <2>7
    <3>2. b.enc.gen = G /\ b.enc.pos = P + (i - 1) /\ c.enc.gen = G /\ c.enc.pos = P + i
      BY <2>2, <2>3, <2>4, <3>1
    <3>3. P + i = (P + (i - 1)) + 1 /\ (i = 1 => P + (i - 1) = P)
      BY <1>3, <2>5
    <3>4. i = 1 => b.enc = encoder
      BY <2>2, <3>2, <3>3, EncEqual DEF G, P
    <3>5. b.at # HeaderLen + 2
      BY <3>1 DEF i, h
    <3>6. QED BY <1>5, <2>2, <2>3, <2>5, <3>2, <3>3, <3>4, <3>5 DEF Turns, i
  <2>8. CASE rot # 0 /\ i = h + 2
    <3>1. ~(i + 1 <= h + 2) /\ i <= h + 2 /\ i # 1 /\ (i + 1) - h - 3 = 0
      BY <1>3, <2>5, <2>8
    <3>2. b.enc.gen = G /\ c.enc.gen = G + rot /\ c.enc.pos = 0
      BY <2>2, <2>3, <2>8, <3>1
    <3>3. b.at = HeaderLen + 2 /\ s[b.tran].rot # 0
      BY <2>8 DEF i, h
    <3>4. G + rot \in Nat
      BY <2>5
    <3>5. QED BY <1>5, <2>2, <2>3, <2>5, <3>1, <3>2, <3>3, <3>4 DEF Turns, i
  <2>9. CASE rot # 0 /\ i > h + 2
    <3>1. ~(i + 1 <= h + 2) /\ ~(i <= h + 2) /\ i # 1 /\ i # h + 2
      BY <1>3, <2>5, <2>9
    <3>2. b.enc.gen = G + rot /\ b.enc.pos = i - h - 3 /\ c.enc.gen = G + rot /\ c.enc.pos = (i + 1) - h - 3
      BY <2>2, <2>3, <2>9, <3>1
    <3>3. (i + 1) - h - 3 = (i - h - 3) + 1 /\ G + rot \in Nat
      BY <1>3, <2>5
    <3>4. b.at # HeaderLen + 2
      BY <3>1 DEF i, h
    <3>5. QED BY <1>5, <2>2, <2>3, <3>1, <3>2, <3>3, <3>4 DEF Turns, i
  <2>10. i < h + 2 \/ i = h + 2 \/ i > h + 2
    BY <1>3, <2>5
  <2>11. QED BY <2>6, <2>7, <2>8, <2>9, <2>10
<1>6. QED BY <1>4, <1>5


\* The bytes w come after those of l, and the byte to come is `coming'.
Extended(k, l, w, coming) ==
    /\ Len(k) = Len(l) + Len(w)
    /\ \A j \in 1 .. Len(l) - 1 : k[j] = l[j]
    /\ \A i \in 1 .. Len(w) : k[Len(l) - 1 + i] = w[i]
    /\ k[Len(l) + Len(w)] = coming

LEMMA ExtendedLine ==
  ASSUME NEW b \in Seq(Bytes), NEW h \in Seq(Bytes), NEW n \in Seq(Bytes), NEW s \in Seq(Tran),
         NEW e \in Enc, NEW w \in Seq(Bytes), NEW r \in Tran, NEW f \in Enc
  PROVE  Extended(Lined(b, h, n \o w, Append(s, r), f), Lined(b, h, n, s, e), w,
                  Byte(Len(s) + 2, 1, f))
<1> DEFINE l == Lined(b, h, n, s, e)
           q == n \o w
           v == Append(s, r)
           k == Lined(b, h, q, v, f)
           u == b \o h
           x == Len(u)
           y == Len(n)
           z == Len(w)
<1>1. q \in Seq(Bytes) /\ Len(q) = y + z /\ \A j \in 1 .. y + z : q[j] = IF j <= y THEN n[j] ELSE w[j - y]
  BY ConcatProperties
<1>2. v \in Seq(Tran) /\ Len(v) = Len(s) + 1
  BY AppendProperties
<1>3. u \in Seq(Bytes) /\ x = Len(b) + Len(h)
  BY ConcatProperties
<1> HIDE DEF q, v
<1>4. IsLined(l, b, h, n, s, e) /\ IsLined(k, b, h, q, v, f)
  BY <1>1, <1>2, LinedIs
<1>5. /\ Len(l) = x + y + 1 /\ Len(k) = x + (y + z) + 1
      /\ \A j \in 1 .. x + y : l[j] = (u \o n)[j]
      /\ \A j \in 1 .. x + (y + z) : k[j] = (u \o q)[j]
      /\ k[x + (y + z) + 1] = Byte((Len(s) + 1) + 1, 1, f)
  BY <1>1, <1>2, <1>3, <1>4 DEF IsLined
<1>6. x \in Nat /\ y \in Nat /\ z \in Nat /\ Len(s) \in Nat
  BY <1>3, LenProperties
<1> HIDE DEF u
<1>7. \A j \in 1 .. x + y : (u \o n)[j] = IF j <= x THEN u[j] ELSE n[j - x]
  BY <1>3, ConcatProperties
<1>8. \A j \in 1 .. x + (y + z) : (u \o q)[j] = IF j <= x THEN u[j] ELSE q[j - x]
  <2>1. \A j \in 1 .. Len(u) + Len(q) : (u \o q)[j] = IF j <= Len(u) THEN u[j] ELSE q[j - Len(u)]
    <3>1. u \in Seq(Bytes) /\ q \in Seq(Bytes)
      BY <1>1, <1>3
    <3>2. QED BY ONLY <3>1, ConcatProperties
  <2>2. Len(q) = y + z
    BY <1>1
  <2>3. QED BY <2>1, <2>2
<1> HIDE DEF l, k, x, y, z
<1>9. ASSUME NEW j \in 1 .. Len(l) - 1 PROVE k[j] = l[j]
  <2>1. j \in 1 .. x + y /\ j \in 1 .. x + (y + z)
    BY <1>5, <1>6
  <2>2. l[j] = (u \o n)[j] /\ k[j] = (u \o q)[j]
    BY <1>5, <2>1
  <2>3. CASE j <= x
    BY <1>7, <1>8, <2>1, <2>2, <2>3
  <2>4. CASE ~(j <= x)
    <3>1. j - x \in 1 .. y + z /\ j - x <= y
      BY <1>6, <2>1, <2>4
    <3>2. q[j - x] = n[j - x]
      BY <1>1, <3>1
    <3>3. QED BY <1>7, <1>8, <2>1, <2>2, <2>4, <3>2
  <2>5. QED BY <2>3, <2>4
<1>10. ASSUME NEW i \in 1 .. z PROVE k[Len(l) - 1 + i] = w[i]
  <2> DEFINE j == x + (y + i)
  <2>1. Len(l) - 1 + i = j /\ j \in 1 .. x + (y + z) /\ ~(j <= x) /\ j - x = y + i
        /\ y + i \in 1 .. y + z /\ ~(y + i <= y) /\ (y + i) - y = i
    BY <1>5, <1>6
  <2> HIDE DEF j
  <2>2. k[j] = q[j - x]
    BY <1>5, <1>8, <2>1
  <2>3. q[y + i] = w[(y + i) - y]
    BY <1>1, <2>1
  <2>4. QED BY <2>1, <2>2, <2>3
<1>11. Len(k) = Len(l) + z /\ k[Len(l) + z] = Byte(Len(s) + 2, 1, f)
  <2>1. x + (y + z) + 1 = Len(l) + z /\ (Len(s) + 1) + 1 = Len(s) + 2
    BY <1>5, <1>6
  <2>2. QED BY <1>5, <2>1
<1>12. Extended(k, l, w, Byte(Len(s) + 2, 1, f))
  BY <1>9, <1>10, <1>11 DEF Extended, z
<1>13. QED BY <1>12 DEF k, l, q, v

\* The bytes of one more transaction.
Sent(w, t, r, m) ==
    /\ Len(w) = SizeIn(m, r.body)
    /\ \A i \in 1 .. Len(w) : w[i].tran = t /\ w[i].at = i

SamePlaces(k, l) == \A j \in 1 .. Len(l) : k[j].tran = l[j].tran /\ k[j].at = l[j].at

LEMMA PlacesSent ==
  ASSUME NEW m, NEW s \in Seq(Tran), NEW g, NEW l \in Seq(Bytes), Len(l) >= 1, Places(m, l, s, g),
         l[Len(l)].at = 1, NEW r \in Tran, NEW w \in Seq(Bytes), NEW k, NEW f,
         Extended(k, l, w, Byte(Len(s) + 2, 1, f)), Sent(w, Len(s) + 1, r, m)
  PROVE  Places(m, k, Append(s, r), g) /\ SamePlaces(k, l)
<1> DEFINE v == Append(s, r)
           N == Len(s)
           M == Len(l) - 1
           z == Len(w)
           coming == Byte(Len(s) + 2, 1, f)
<1>1. N \in Nat /\ Len(l) \in Nat /\ Len(l) = M + 1 /\ M \in Nat /\ z \in Nat
  BY LenProperties
<1>2. v \in Seq(Tran) /\ Len(v) = N + 1 /\ v[N + 1] = r /\ \A t \in 1 .. N : v[t] = s[t]
  BY AppendProperties
<1>3. N + 1 \in 1 .. Len(v)
  BY <1>1, <1>2
<1> HIDE DEF v
<1>4. z >= 1 /\ z = SizeIn(m, r.body)
  <2>1. SizeIn(m, v[N + 1].body) >= HeaderLen + v[N + 1].body /\ v[N + 1].body \in Nat
        /\ HeaderLen \in Nat /\ HeaderLen >= 1 /\ SizeIn(m, v[N + 1].body) \in Nat
    BY <1>2, <1>3, SizeIs
  <2>2. z = SizeIn(m, r.body)
    BY DEF Sent
  <2> HIDE DEF z
  <2>3. QED BY <1>2, <2>1, <2>2
<1>5. coming.tran = N + 2 /\ coming.at = 1
  BY DEF Byte
<1>6. /\ Len(k) = M + 1 + z
      /\ \A j \in 1 .. M : k[j] = l[j]
      /\ \A i \in 1 .. z : k[M + i] = w[i]
      /\ k[M + 1 + z] = coming
  BY <1>1 DEF Extended
<1>7. \A i \in 1 .. z : w[i].tran = N + 1 /\ w[i].at = i
  BY DEF Sent
<1>8. l[M + 1].tran = N + 1 /\ l[M + 1].at = 1 /\ l[1].tran = g + 1 /\ l[1].at = 1
  BY <1>1 DEF Places
<1> HIDE DEF N, M, z, coming
<1>9. ASSUME NEW j \in 1 .. Len(l) PROVE k[j].tran = l[j].tran /\ k[j].at = l[j].at
  <2>1. j \in 1 .. M \/ j = M + 1
    BY <1>1
  <2>2. 1 \in 1 .. z
    BY <1>1, <1>4
  <2>3. CASE j \in 1 .. M
    BY <1>6, <2>3
  <2>4. CASE j = M + 1
    <3>1. k[M + 1] = w[1] /\ w[1].tran = N + 1 /\ w[1].at = 1
      BY <1>6, <1>7, <2>2
    <3>2. QED BY ONLY <1>8, <2>4, <3>1
  <2>5. QED BY <2>1, <2>3, <2>4
<1>10. k[1].tran = g + 1 /\ k[1].at = 1
  <2>1. 1 \in 1 .. Len(l)
    BY <1>1
  <2>2. QED BY <1>8, <1>9, <2>1
<1>11. ASSUME NEW j \in 1 .. Len(k) - 1
       PROVE  Sound(m, k[j], v) /\ Follows(m, k[j + 1], k[j], v)
  <2>1. CASE j \in 1 .. M
    <3>1. j \in 1 .. Len(l) - 1 /\ j \in 1 .. Len(l) /\ j + 1 \in 1 .. Len(l)
      BY <1>1, <2>1
    <3>2. Sound(m, l[j], s) /\ Follows(m, l[j + 1], l[j], s)
      BY <3>1 DEF Places
    <3>3. /\ k[j].tran = l[j].tran /\ k[j].at = l[j].at
          /\ k[j + 1].tran = l[j + 1].tran /\ k[j + 1].at = l[j + 1].at
      BY <1>9, <3>1
    <3>4. l[j].tran \in 1 .. N /\ l[j].tran \in 1 .. Len(v)
      BY <1>1, <1>2, <3>2 DEF Sound, N
    <3>5. v[l[j].tran] = s[l[j].tran]
      BY <1>2, <3>4
    <3>6. QED BY <3>2, <3>3, <3>4, <3>5 DEF Sound, Follows
  <2>2. CASE ~(j \in 1 .. M)
    <3> DEFINE i == j - M
    <3>1. i \in 1 .. z /\ j = M + i
      BY <1>1, <1>6, <2>2
    <3>2. k[j].tran = N + 1 /\ k[j].at = i
      <4>1. k[M + i] = w[i] /\ w[i].tran = N + 1 /\ w[i].at = i
        BY <1>6, <1>7, <3>1
      <4> HIDE DEF i
      <4>2. QED BY ONLY <3>1, <4>1
    <3>3. i < z => k[j + 1].tran = N + 1 /\ k[j + 1].at = i + 1
      <4>1. i < z => i + 1 \in 1 .. z /\ j + 1 = M + (i + 1)
        BY <1>1, <3>1
      <4>2. QED BY SMTT(30), <1>6, <1>7, <4>1
    <3>4. ~(i < z) => k[j + 1].tran = (N + 1) + 1 /\ k[j + 1].at = 1
      <4>1. ~(i < z) => j + 1 = M + 1 + z /\ (N + 1) + 1 = N + 2
        BY <1>1, <3>1
      <4>2. QED BY <1>5, <1>6, <4>1
    <3> HIDE DEF i
    <3>5. SizeIn(m, v[k[j].tran].body) = z
      BY <1>2, <1>4, <3>2
    <3>6. QED BY <1>3, <3>1, <3>2, <3>3, <3>4, <3>5 DEF Sound, Follows
  <2>3. QED BY <2>1, <2>2
<1>12. k[Len(k)].tran = Len(v) + 1
  <2>1. (N + 1) + 1 = N + 2 /\ Len(k) = M + 1 + z
    BY <1>1, <1>6
  <2>2. QED BY <1>2, <1>5, <1>6, <2>1
<1>13. Places(m, k, v, g)
  BY <1>10, <1>11, <1>12 DEF Places
<1>14. QED BY <1>9, <1>13 DEF v, SamePlaces


LEMMA CipheredSent ==
  ASSUME agreed \in {"none", "rc4", "aead"}, encoder \in Enc, NEW s \in Seq(Tran), NEW g,
         NEW l \in Seq(Bytes), Len(l) >= 1, Places(agreed, l, s, g), NEW off \in Nat, NEW c,
         Ciphered(agreed, l, s, off, c), l[Len(l)].at = 1, l[Len(l)].enc = encoder,
         NEW r \in Tran, r.rot = 0 \/ agreed = "rc4", NEW w \in Seq(Bytes), NEW k,
         Extended(k, l, w, Byte(Len(s) + 2, 1, AfterSending(r.body, r.rot))),
         Sent(w, Len(s) + 1, r, agreed), \A i \in 1 .. Len(w) : w[i].enc = Encryption(i, r.rot)
  PROVE  Ciphered(agreed, k, Append(s, r), off, c)
<1> DEFINE v == Append(s, r)
           N == Len(s)
           M == Len(l) - 1
           z == Len(w)
           f == AfterSending(r.body, r.rot)
           coming == Byte(Len(s) + 2, 1, f)
<1>1. N \in Nat /\ Len(l) \in Nat /\ Len(l) = M + 1 /\ M \in Nat /\ z \in Nat
  BY LenProperties
<1>2. v \in Seq(Tran) /\ Len(v) = N + 1 /\ v[N + 1] = r /\ \A t \in 1 .. N : v[t] = s[t]
  BY AppendProperties
<1>3. N + 1 \in 1 .. Len(v)
  BY <1>1, <1>2
<1> HIDE DEF v
<1>4. r.body \in Nat /\ r.body >= 2 /\ r.rot \in Nat /\ HeaderLen \in Nat
      /\ SizeIn(agreed, r.body) >= HeaderLen + r.body
  BY <1>2, <1>3, SizeIs
<1>5. z = Size(r.body) /\ z >= 1
  <2>1. z = SizeIn(agreed, r.body)
    BY DEF Sent
  <2>2. z >= 1
    BY <1>1, <1>4, <2>1
  <2>3. QED BY <2>1, <2>2, SizeSame
<1>6. /\ Len(k) = M + 1 + z
      /\ \A j \in 1 .. M : k[j] = l[j]
      /\ \A i \in 1 .. z : k[M + i] = w[i]
      /\ k[M + 1 + z] = coming
  BY <1>1 DEF Extended
<1>7. \A i \in 1 .. z : w[i].tran = N + 1 /\ w[i].at = i /\ w[i].enc = Encryption(i, r.rot)
  BY DEF Sent
<1>8. coming.enc = f
  BY DEF Byte
<1>9. l[M + 1].enc = encoder
  BY <1>1
<1> HIDE DEF N, M, z, coming, f
<1>10. CASE agreed = "none"
  <2>1. ASSUME NEW j \in 1 .. Len(k) - 1 PROVE k[j].enc = Clear
    <3>1. CASE j \in 1 .. M
      <4>1. j \in 1 .. Len(l) - 1
        BY <1>1, <3>1
      <4>2. QED BY <1>6, <1>10, <3>1, <4>1 DEF Ciphered
    <3>2. CASE ~(j \in 1 .. M)
      <4> DEFINE i == j - M
      <4>1. i \in 1 .. z /\ j = M + i
        BY <1>1, <1>6, <3>2
      <4> HIDE DEF i
      <4>2. k[j].enc = Encryption(i, r.rot)
        BY <1>6, <1>7, <4>1
      <4>3. QED BY <1>10, <4>2 DEF Encryption
    <3>3. QED BY <3>1, <3>2
  <2>2. QED BY <1>10, <2>1 DEF Ciphered, v
<1>11. CASE agreed # "none"
  <2>1. /\ off \in 0 .. M /\ l[off + 1].enc = c
        /\ \A j \in 1 .. off : l[j].enc = Clear
        /\ \A j \in off + 1 .. M + 1 : l[j].enc.gen \in Nat
        /\ \A j \in off + 1 .. M : Turns(agreed, l[j + 1], l[j], s)
    BY <1>1, <1>11 DEF Ciphered
  <2>2. encoder.gen \in Nat
    <3>1. M + 1 \in off + 1 .. M + 1
      BY <1>1, <2>1
    <3>2. QED BY <1>9, <2>1, <3>1
  <2>3. ASSUME NEW i \in 1 .. z
        PROVE  /\ k[M + i].tran = N + 1 /\ k[M + i].at = i /\ k[M + i].enc.gen \in Nat
               /\ k[(M + i) + 1].enc.gen \in Nat
               /\ Turns(agreed, k[(M + i) + 1], k[M + i], v)
               /\ i = 1 => k[M + i].enc = encoder
    <3>1. k[M + i].tran = N + 1 /\ k[M + i].at = i /\ k[M + i].enc = Encryption(i, r.rot)
      BY <1>6, <1>7
    <3>2. Keyed(k[M + i].enc, i, r.rot, r.body)
      BY <1>5, <3>1 DEF Keyed
    <3>3. Keyed(k[(M + i) + 1].enc, i + 1, r.rot, r.body)
      <4>1. CASE i + 1 \in 1 .. z
        <5>1. (M + i) + 1 = M + (i + 1) /\ i + 1 <= z
          BY <1>1, <4>1
        <5>2. k[(M + i) + 1].enc = Encryption(i + 1, r.rot)
          BY SMTT(30), <1>6, <1>7, <4>1, <5>1
        <5>3. QED BY <1>5, <5>1, <5>2 DEF Keyed
      <4>2. CASE ~(i + 1 \in 1 .. z)
        <5>1. (M + i) + 1 = M + 1 + z /\ ~(i + 1 <= z)
          BY <1>1, <4>2
        <5>2. k[(M + i) + 1].enc = f
          BY <1>6, <1>8, <5>1
        <5>3. QED BY <1>5, <5>1, <5>2 DEF Keyed, f
      <4>3. QED BY <4>1, <4>2
    <3> DEFINE b == k[M + i]
               d == k[(M + i) + 1]
    <3>4. b.at \in 1 .. Size(r.body) /\ b.at = i /\ v[b.tran].body = r.body /\ v[b.tran].rot = r.rot
      BY <1>2, <1>5, <3>1
    <3>5. Keyed(b.enc, b.at, r.rot, r.body) /\ Keyed(d.enc, b.at + 1, r.rot, r.body)
      BY <3>2, <3>3, <3>4
    <3> HIDE DEF b, d
    <3>6. agreed \in {"rc4", "aead"}
      BY <1>11
    <3>7. /\ Turns(agreed, d, b, v) /\ b.enc.gen \in Nat /\ d.enc.gen \in Nat
          /\ (b.at = 1 => b.enc = encoder)
      <4> DEFINE body == r.body
                 rot == r.rot
      <4>1. /\ body \in Nat /\ body >= 2 /\ rot \in Nat /\ (rot = 0 \/ agreed = "rc4")
            /\ v[b.tran].body = body /\ v[b.tran].rot = rot /\ b.at \in 1 .. Size(body)
            /\ Keyed(b.enc, b.at, rot, body) /\ Keyed(d.enc, b.at + 1, rot, body)
            /\ encoder \in Enc /\ encoder.gen \in Nat
        BY <1>4, <2>2, <3>4, <3>5
      <4> HIDE DEF body, rot
      <4>2. QED BY ONLY <3>6, <4>1, KeysTurn
    <3>8. QED BY <3>1, <3>4, <3>7 DEF b, d
  <2>4. k[M + 1].enc = encoder
    <3>1. 1 \in 1 .. z
      BY <1>1, <1>5
    <3>2. QED BY <2>3, <3>1
  <2>5. ASSUME NEW j \in off + 1 .. M + 1 PROVE k[j].enc = l[j].enc
    <3>1. j \in 1 .. M \/ j = M + 1
      BY <1>1, <2>1
    <3>2. QED BY <1>6, <1>9, <2>4, <3>1
  <2>6. k[off + 1].enc = c
    <3>1. off + 1 \in off + 1 .. M + 1
      BY <1>1, <2>1
    <3>2. QED BY <2>1, <2>5, <3>1
  <2>7. ASSUME NEW j \in 1 .. off PROVE k[j].enc = Clear
    <3>1. j \in 1 .. M
      BY <1>1, <2>1
    <3>2. QED BY <1>6, <2>1, <3>1
  <2>8. ASSUME NEW j \in off + 1 .. Len(k) PROVE k[j].enc.gen \in Nat
    <3>1. CASE j \in off + 1 .. M + 1
      BY <2>1, <2>5, <3>1
    <3>2. CASE ~(j \in off + 1 .. M + 1)
      <4> DEFINE i == j - M - 1
      <4>1. i \in 1 .. z /\ (M + i) + 1 = j
        BY <1>1, <1>6, <2>1, <3>2
      <4> HIDE DEF i
      <4>2. k[(M + i) + 1].enc.gen \in Nat
        BY <2>3, <4>1
      <4>3. QED BY <4>1, <4>2
    <3>3. QED BY <3>1, <3>2
  <2>9. ASSUME NEW j \in off + 1 .. Len(k) - 1 PROVE Turns(agreed, k[j + 1], k[j], v)
    <3>1. CASE j \in off + 1 .. M
      <4>1. j \in 1 .. M /\ j \in 1 .. Len(l) - 1 /\ j + 1 \in off + 1 .. M + 1
        BY <1>1, <2>1, <3>1
      <4>2. Turns(agreed, l[j + 1], l[j], s) /\ Sound(agreed, l[j], s)
        BY <2>1, <3>1, <4>1 DEF Places
      <4>3. k[j] = l[j] /\ k[j + 1].enc = l[j + 1].enc
        BY <1>6, <2>5, <4>1
      <4>4. l[j].tran \in 1 .. N
        BY <4>2 DEF Sound, N
      <4>5. v[l[j].tran] = s[l[j].tran]
        BY <1>2, <4>4
      <4>6. QED BY <4>2, <4>3, <4>5 DEF Turns
    <3>2. CASE ~(j \in off + 1 .. M)
      <4> DEFINE i == j - M
      <4>1. i \in 1 .. z /\ M + i = j
        BY SMTT(30), <1>1, <1>6, <2>1, <3>2
      <4> HIDE DEF i
      <4>2. Turns(agreed, k[(M + i) + 1], k[M + i], v)
        BY <2>3, <4>1
      <4>3. QED BY <4>1, <4>2
    <3>3. QED BY <3>1, <3>2
  <2>10. off \in 0 .. Len(k) - 1
    BY <1>1, <1>6, <2>1
  <2>11. Ciphered(agreed, k, v, off, c)
    BY <1>11, <2>6, <2>7, <2>8, <2>9, <2>10 DEF Ciphered
  <2>12. QED BY <2>11 DEF v
<1>12. QED BY <1>10, <1>11

LEMMA EncryptsEnc ==
  ASSUME agreed \in {"none", "rc4", "aead"}, encoder \in Enc, NEW i \in Nat \ {0}, NEW rot \in Nat,
         NEW body \in Nat
  PROVE  Encryption(i, rot) \in Enc /\ AfterSending(body, rot) \in Enc
<1>1. CASE agreed = "none"
  <2>1. Clear \in Enc
    BY DEF Clear, Enc
  <2>2. QED BY <1>1, <2>1 DEF Encryption, AfterSending
<1>2. CASE agreed = "rc4"
  BY <1>2, EncryptsRc4
<1>3. CASE agreed = "aead"
  <2>1. Encryption(i, rot) = encoder /\ AfterSending(body, rot) = [encoder EXCEPT !.pos = @ + 1]
    BY <1>3, EncryptsAead
  <2>2. encoder.pos + 1 \in Int
    BY DEF Enc
  <2>3. [encoder EXCEPT !.pos = @ + 1] \in Enc
    BY <2>2, PosSet
  <2>4. QED BY <2>1, <2>3
<1>4. QED BY <1>1, <1>2, <1>3


LEMMA LineIs ==
  ASSUME TransportTypes
  PROVE  /\ IsLined(Line, buf, held, net, sent, encoder)
         /\ Line \in Seq(Bytes) /\ Len(Line) \in Nat /\ Len(Line) >= 1
         /\ Len(Line) - 1 >= Len(buf) /\ Len(buf) \in Nat
         /\ Line[Len(Line)].at = 1 /\ Line[Len(Line)].enc = encoder
         /\ \A j \in 1 .. Len(buf) : Line[j] = buf[j]
<1>1. IsLined(Lined(buf, held, net, sent, encoder), buf, held, net, sent, encoder)
  BY LinedIs DEF TransportTypes
<1>2. IsLined(Line, buf, held, net, sent, encoder)
  BY <1>1 DEF Line
<1>3. Line \in Seq(Bytes) /\ \A j \in 1 .. Len(buf) : Line[j] = buf[j]
  BY <1>2 DEF IsLined
<1>4. Len(Line) = Len(buf) + Len(held) + Len(net) + 1 /\ Len(buf) \in Nat /\ Len(held) \in Nat /\ Len(net) \in Nat
  BY <1>2 DEF IsLined
<1>5. Line[Len(Line)] = Byte(Len(sent) + 1, 1, encoder)
  BY <1>2 DEF IsLined
<1>6. Byte(Len(sent) + 1, 1, encoder).at = 1 /\ Byte(Len(sent) + 1, 1, encoder).enc = encoder
  BY DEF Byte
<1> DEFINE x == Len(buf)
           y == Len(held)
           z == Len(net)
<1> HIDE DEF x, y, z
<1>7. Len(Line) = x + y + z + 1 /\ x \in Nat /\ y \in Nat /\ z \in Nat
  BY <1>4 DEF x, y, z
<1>8. Len(Line) \in Nat /\ Len(Line) >= 1 /\ Len(Line) - 1 >= x
  BY <1>7
<1>9. QED BY <1>2, <1>3, <1>5, <1>6, <1>7, <1>8 DEF x

\* A transaction is sent.
LEMMA SendKeeps ==
  ASSUME TransportIInv, NEW body \in Bodies \ {0, 1}, NEW rot \in Rotations, Send(body, rot)
  PROVE  TransportIInv'
<1> DEFINE r == [body |-> body, rot |-> rot]
           t == Len(sent) + 1
           w == [k \in 1 .. Size(body) |-> Byte(t, k, Encryption(k, rot))]
           f == AfterSending(body, rot)
           z == Size(body)
<1>1. TransportTypes /\ Untouched /\ Fits /\ Streams
  BY DEF TransportIInv
<1>2. /\ sent \in Seq(Tran) /\ Len(sent) \in Nat /\ encoder \in Enc /\ net \in Seq(Bytes)
      /\ agreed \in {"none", "rc4", "aead"} /\ buf \in Seq(Bytes) /\ held \in Seq(Bytes)
      /\ offset \in Nat
  BY <1>1, LenProperties DEF TransportTypes
<1>3. /\ conn = "open" /\ (rot = 0 \/ agreed = "rc4")
      /\ sent' = Append(sent, r) /\ encoder' = f
  BY DEF Send
<1>4. net' = net \o w
  BY DEF Send
<1>5. UNCHANGED <<conn, tls, agreed, active, held, buf, offset, phase, rest, cipher, run, got>>
  BY DEF Send, login, decrypt
<1>6. body \in Nat /\ rot \in Nat /\ r \in Tran /\ r.body = body /\ r.rot = rot
  BY TransportAssumption DEF Tran
<1>7. z \in Nat /\ z = SizeIn(agreed, body)
  <2>1. HeaderLen \in Nat /\ FrameHead \in Nat /\ Tag \in Nat
    BY TransportAssumption
  <2>2. QED BY <1>6, <2>1, SizeSame DEF Size
<1> HIDE DEF r, f, z
<1>8. f \in Enc
  <2>1. 1 \in Nat \ {0}
    OBVIOUS
  <2>2. AfterSending(body, rot) \in Enc
    BY <1>2, <1>6, <2>1, EncryptsEnc
  <2>3. QED BY <2>2 DEF f
<1>9. ASSUME NEW i \in 1 .. z
      PROVE  /\ w[i] \in Bytes /\ w[i].tran = t /\ w[i].at = i /\ w[i].enc = Encryption(i, rot)
  <2>1. w[i] = Byte(t, i, Encryption(i, rot))
    BY DEF z
  <2>2. i \in Nat \ {0}
    BY <1>7
  <2>3. Encryption(i, rot) \in Enc
    BY <1>2, <1>6, <2>2, EncryptsEnc
  <2>4. t \in Nat
    BY <1>2
  <2> DEFINE c == Encryption(i, rot)
  <2> HIDE DEF c, w, t
  <2>5. w[i] = [tran |-> t, at |-> i, enc |-> c] /\ c \in Enc
    BY <2>1, <2>3 DEF Byte, c
  <2>6. QED BY <2>2, <2>4, <2>5 DEF Bytes, c
<1>10. w \in Seq(Bytes) /\ Len(w) = z
  <2>1. w = [i \in 1 .. z |-> w[i]]
    BY DEF z
  <2> HIDE DEF w
  <2>2. w \in [1 .. z -> Bytes]
    BY <1>9, <2>1
  <2>3. QED BY <1>7, <2>2, LenProperties
<1> HIDE DEF w
<1>11. /\ net' \in Seq(Bytes) /\ sent' \in Seq(Tran)
  <2>1. net \o w \in Seq(Bytes)
    BY <1>2, <1>10, ConcatProperties
  <2>2. Append(sent, r) \in Seq(Tran)
    BY <1>2, <1>6, AppendProperties
  <2>3. QED BY <1>3, <1>4, <2>1, <2>2
<1>12. TransportTypes'
  BY <1>1, <1>3, <1>5, <1>8, <1>11 DEF TransportTypes
<1>13. Untouched' /\ Fits'
  BY <1>1, <1>3, <1>5 DEF Untouched, Fits
<1> DEFINE l == Line
           k == Line'
           coming == Byte(Len(sent) + 2, 1, f)
<1>14. /\ l \in Seq(Bytes) /\ Len(l) >= 1 /\ l[Len(l)].at = 1 /\ l[Len(l)].enc = encoder
       /\ Len(l) \in Nat /\ Len(l) - 1 >= Len(buf) /\ Len(buf) \in Nat
  BY <1>1, LineIs
<1>15. Extended(k, l, w, coming)
  <2>1. Extended(Lined(buf, held, net \o w, Append(sent, r), f), Lined(buf, held, net, sent, encoder), w,
                 Byte(Len(sent) + 2, 1, f))
    BY <1>2, <1>6, <1>8, <1>10, ExtendedLine
  <2>2. k = Lined(buf', held', net', sent', encoder')
    BY DEF Line
  <2>3. k = Lined(buf, held, net \o w, Append(sent, r), f)
    BY <1>3, <1>4, <1>5, <2>2
  <2>4. QED BY <2>1, <2>3 DEF Line
<1>16. Sent(w, Len(sent) + 1, r, agreed)
  BY <1>6, <1>7, <1>9, <1>10 DEF Sent
<1>17. /\ Places(agreed, l, sent, Len(got)) /\ Ciphered(agreed, l, sent, offset, cipher)
       /\ agreed = "rc4" => InPhase(phase, rest, l[offset + 1], sent)
  BY <1>1 DEF Streams
<1> HIDE DEF l, k, coming
<1>18. /\ Places(agreed, k, Append(sent, r), Len(got))
       /\ \A j \in 1 .. Len(l) : k[j].tran = l[j].tran /\ k[j].at = l[j].at
  <2>1. Extended(k, l, w, Byte(Len(sent) + 2, 1, f))
    BY <1>15 DEF coming
  <2> DEFINE s == sent
             m == agreed
             g == Len(got)
  <2>2. /\ s \in Seq(Tran) /\ l \in Seq(Bytes) /\ Len(l) >= 1 /\ Places(m, l, s, g)
        /\ l[Len(l)].at = 1 /\ r \in Tran /\ w \in Seq(Bytes)
        /\ Extended(k, l, w, Byte(Len(s) + 2, 1, f)) /\ Sent(w, Len(s) + 1, r, m)
    BY <1>2, <1>6, <1>10, <1>14, <1>16, <1>17, <2>1
  <2> HIDE DEF s, m, g
  <2>3. Places(m, k, Append(s, r), g) /\ SamePlaces(k, l)
    BY ONLY <2>2, PlacesSent
  <2>4. QED BY <2>3 DEF s, m, g, SamePlaces
<1>19. Ciphered(agreed, k, Append(sent, r), offset, cipher)
  <2>1. Extended(k, l, w, Byte(Len(sent) + 2, 1, AfterSending(r.body, r.rot)))
    BY <1>6, <1>15 DEF coming, f
  <2>2. \A i \in 1 .. Len(w) : w[i].enc = Encryption(i, r.rot)
    BY <1>6, <1>9, <1>10
  <2>3. r.rot = 0 \/ agreed = "rc4"
    BY <1>3, <1>6
  <2>4. QED BY <1>2, <1>6, <1>10, <1>14, <1>16, <1>17, <2>1, <2>2, <2>3, CipheredSent
<1>20. agreed = "rc4" => InPhase(phase, rest, k[offset + 1], Append(sent, r))
  <2> SUFFICES ASSUME agreed = "rc4" PROVE InPhase(phase, rest, k[offset + 1], Append(sent, r))
    OBVIOUS
  <2>1. offset + 1 \in 1 .. Len(l)
    BY <1>1, <1>2, <1>14 DEF Fits
  <2>2. k[offset + 1].at = l[offset + 1].at /\ k[offset + 1].tran = l[offset + 1].tran
    BY <1>18, <2>1
  <2>3. InPhase(phase, rest, l[offset + 1], sent)
    BY <1>17
  <2>4. CASE phase = "rest"
    <3>1. l[offset + 1].at >= HeaderLen + 3 /\ HeaderLen \in Nat
      BY <2>3, <2>4, TransportAssumption DEF InPhase
    <3>2. offset + 1 # Len(l)
      BY <1>14, <3>1
    <3>3. offset + 1 \in 1 .. Len(l) - 1
      BY <1>2, <1>14, <2>1, <3>2
    <3>4. l[offset + 1].tran \in 1 .. Len(sent)
      BY <1>17, <3>3 DEF Places, Sound
    <3>5. Append(sent, r)[l[offset + 1].tran] = sent[l[offset + 1].tran]
      BY <1>2, <1>6, <3>4, AppendProperties
    <3>6. QED BY <2>2, <2>3, <2>4, <3>5 DEF InPhase
  <2>5. CASE phase # "rest"
    BY <2>2, <2>3, <2>5 DEF InPhase
  <2>6. QED BY <2>4, <2>5
<1>21. Streams'
  BY <1>3, <1>5, <1>18, <1>19, <1>20 DEF Streams, k
<1>22. QED BY <1>12, <1>13, <1>21 DEF TransportIInv


-----------------------------------------------------------------------------
(* Bytes are read: they move along, and the line stays what it is. *)

Joined(b, h, n, x) == (b \o h) \o n = x
Grouped(p, q, r) == (p \o q) \o r = p \o (q \o r)

LEMMA ConcatThree ==
  ASSUME NEW p \in Seq(Bytes), NEW q \in Seq(Bytes), NEW r \in Seq(Bytes)
  PROVE  Grouped(p, q, r)
  BY SMTT(30), ConcatAssociative DEF Grouped

LEMMA MovedBytes ==
  ASSUME NEW b \in Seq(Bytes), NEW h \in Seq(Bytes), NEW u \in Seq(Bytes), NEW v \in Seq(Bytes),
         NEW x \in Seq(Bytes), NEW y \in Seq(Bytes), x \o y = h \o u
  PROVE  Joined(b \o x, y, v, (b \o h) \o (u \o v))
<1>1. Regrouped(b, x, y, v) /\ Regrouped(b, h, u, v)
  BY ConcatFour
<1>2. ((b \o x) \o y) \o v = b \o ((x \o y) \o v) /\ ((b \o h) \o u) \o v = b \o ((h \o u) \o v)
  BY ONLY <1>1 DEF Regrouped
<1>3. ((b \o x) \o y) \o v = ((b \o h) \o u) \o v
  BY ONLY <1>2, x \o y = h \o u
<1> DEFINE p == b \o h
<1>4. p \in Seq(Bytes)
  BY ConcatProperties
<1> HIDE DEF p
<1>5. Grouped(p, u, v)
  BY <1>4, ConcatThree
<1>6. (p \o u) \o v = p \o (u \o v)
  BY ONLY <1>5 DEF Grouped
<1>7. ((b \o x) \o y) \o v = (b \o h) \o (u \o v)
  BY ONLY <1>3, <1>6 DEF p
<1>8. QED BY ONLY <1>7 DEF Joined

LEMMA SameLine ==
  ASSUME NEW b, NEW h, NEW n, NEW d, NEW i, NEW q, NEW s, NEW e, Joined(d, i, q, (b \o h) \o n)
  PROVE  Lined(d, i, q, s, e) = Lined(b, h, n, s, e)
  BY DEF Joined, Lined

LEMMA ReadKeeps ==
  ASSUME TransportIInv, ReadEvent
  PROVE  TransportIInv'
<1>1. TransportTypes /\ Untouched /\ Fits /\ Streams
  BY DEF TransportIInv
<1>2. /\ net \in Seq(Bytes) /\ held \in Seq(Bytes) /\ buf \in Seq(Bytes) /\ offset \in Nat
      /\ Len(net) \in Nat /\ Len(held) \in Nat /\ Len(buf) \in Nat
  BY <1>1, LenProperties DEF TransportTypes
<1>3. conn = "open" /\ Len(buf) < BufSize /\ BufSize \in Nat
  BY TransportAssumption DEF ReadEvent
<1>4. UNCHANGED <<conn, tls, agreed, active, sent, encoder, offset, phase, rest, cipher, got>>
  BY DEF ReadEvent, login, client, decrypt
<1>5. /\ buf' \in Seq(Bytes) /\ held' \in Seq(Bytes) /\ net' \in Seq(Bytes)
      /\ Joined(buf', held', net', (buf \o held) \o net)
      /\ Len(buf') >= Len(buf) /\ (~tls => held' = held)
  <2> DEFINE room == BufSize - Len(buf)
  <2>1. CASE ~tls
    <3>1. PICK n \in 1 .. Smaller(room, Len(net)) :
            buf' = buf \o Take(net, n) /\ net' = Skip(net, n) /\ held' = held
      BY <2>1 DEF ReadEvent
    <3>2. n \in 0 .. Len(net)
      BY <1>2, <1>3 DEF Smaller
    <3> DEFINE u == Take(net, n)
               v == Skip(net, n)
    <3>3. u \in Seq(Bytes) /\ v \in Seq(Bytes) /\ u \o v = net
      BY <1>2, <3>2, TakeSkip
    <3>4. buf' = buf \o u /\ net' = v /\ held' = held /\ held = <<>>
      BY <1>1, <2>1, <3>1 DEF Fits
    <3> HIDE DEF u, v
    <3>5. u \o <<>> = u /\ <<>> \o u = u /\ <<>> \in Seq(Bytes)
      BY <3>3, ConcatEmptySeq
    <3>6. Joined(buf \o u, <<>>, v, (buf \o <<>>) \o (u \o v))
      BY <1>2, <3>3, <3>5, MovedBytes
    <3>7. Joined(buf', held', net', (buf \o held) \o net)
      BY <3>3, <3>4, <3>6
    <3>8. buf \o u \in Seq(Bytes) /\ Len(buf \o u) = Len(buf) + Len(u) /\ Len(u) \in Nat
      BY <1>2, <3>3, ConcatProperties, LenProperties
    <3>9. QED BY <1>2, <3>3, <3>4, <3>7, <3>8
  <2>2. CASE tls
    <3>1. PICK n \in (IF held = <<>> THEN 1 .. Len(net) ELSE {0}) :
            LET record == held \o Take(net, n)
                m == Smaller(room, Len(record))
            IN  /\ buf' = buf \o Take(record, m)
                /\ held' = Skip(record, m) /\ net' = Skip(net, n)
      BY <2>2 DEF ReadEvent
    <3>2. n \in 0 .. Len(net)
      BY <1>2
    <3> DEFINE u == Take(net, n)
               v == Skip(net, n)
               record == held \o u
               m == Smaller(room, Len(record))
               x == Take(record, m)
               y == Skip(record, m)
    <3>3. u \in Seq(Bytes) /\ v \in Seq(Bytes) /\ u \o v = net
      BY <1>2, <3>2, TakeSkip
    <3>4. buf' = buf \o x /\ net' = v /\ held' = y
      BY <3>1
    <3> HIDE DEF u, v
    <3>5. record \in Seq(Bytes) /\ Len(record) \in Nat
      BY <1>2, <3>3, ConcatProperties, LenProperties
    <3>6. m \in 0 .. Len(record)
      BY <1>2, <1>3, <3>5 DEF Smaller
    <3> HIDE DEF m
    <3>7. x \in Seq(Bytes) /\ y \in Seq(Bytes) /\ x \o y = held \o u
      <4> HIDE DEF record
      <4>1. x \in Seq(Bytes) /\ y \in Seq(Bytes) /\ x \o y = record
        BY <3>5, <3>6, TakeSkip
      <4>2. QED BY <4>1 DEF record
    <3> HIDE DEF record, x, y
    <3>8. Joined(buf \o x, y, v, (buf \o held) \o (u \o v))
      BY <1>2, <3>3, <3>7, MovedBytes
    <3>9. Joined(buf', held', net', (buf \o held) \o net)
      BY <3>3, <3>4, <3>8
    <3>10. buf \o x \in Seq(Bytes) /\ Len(buf \o x) = Len(buf) + Len(x) /\ Len(x) \in Nat
      BY <1>2, <3>7, ConcatProperties, LenProperties
    <3>11. QED BY <1>2, <2>2, <3>3, <3>4, <3>7, <3>9, <3>10
  <2>3. QED BY <2>1, <2>2
<1>6. Line' = Line
  <2>1. Line' = Lined(buf', held', net', sent', encoder')
    BY DEF Line
  <2>2. Lined(buf', held', net', sent, encoder) = Lined(buf, held, net, sent, encoder)
    BY <1>5, SameLine
  <2>3. QED BY <1>4, <2>1, <2>2 DEF Line
<1>7. TransportTypes'
  BY <1>1, <1>4, <1>5 DEF TransportTypes
<1>8. Untouched'
  BY <1>3, <1>4 DEF Untouched
<1>9. Fits'
  <2>1. Len(buf') \in Nat
    BY <1>5, LenProperties
  <2>2. offset <= Len(buf')
    BY <1>1, <1>2, <1>5, <2>1 DEF Fits
  <2>3. run' = Decode /\ active = agreed
    BY <1>1 DEF ReadEvent, Fits
  <2>4. /\ run' = "decrypt" => agreed = "rc4"
        /\ run' = "frames" => agreed = "aead"
        /\ run' = "scan" => agreed # "aead"
    BY <2>3 DEF Decode
  <2>5. QED BY <1>1, <1>4, <1>5, <2>2, <2>4 DEF Fits
<1>10. Streams'
  BY <1>1, <1>4, <1>6 DEF Streams
<1>11. QED BY <1>7, <1>8, <1>9, <1>10 DEF TransportIInv


-----------------------------------------------------------------------------
(* Bytes are decrypted. *)

LEMMA DecryptBytesIs ==
  ASSUME NEW n, DecryptBytes(n)
  PROVE  buf' = Decoded(buf, offset, n, cipher) /\ offset' = offset + n
  BY DEF DecryptBytes, Decoded

\* The next n bytes are encrypted with the keys from the server's on.
Expected(l, off, n, c) ==
    \A i \in 0 .. n - 1 : l[off + 1 + i].enc.gen = c.gen /\ l[off + 1 + i].enc.pos = c.pos + i

LEMMA Decrypts ==
  ASSUME TransportIInv, run = "decrypt", NEW n \in Nat, offset + n <= Len(buf), DecryptBytes(n),
         UNCHANGED <<login, client, stream, run, got>>,
         Expected(Line, offset, n, cipher),
         cipher' \in Enc, cipher' = Line[offset + n + 1].enc,
         rest' \in Nat, phase' \in {"header", "prefix", "rest"},
         InPhase(phase', rest', Line[offset + n + 1], sent)
  PROVE  TransportIInv'
<1> DEFINE o == offset + n
           l == Line
           k == Line'
<1>1. TransportTypes /\ Untouched /\ Fits /\ Streams
  BY DEF TransportIInv
<1>2. /\ buf \in Seq(Bytes) /\ held \in Seq(Bytes) /\ net \in Seq(Bytes) /\ sent \in Seq(Tran)
      /\ encoder \in Enc /\ cipher \in Enc /\ offset \in Nat
  BY <1>1 DEF TransportTypes
<1>3. agreed = "rc4" /\ conn # "login"
  BY <1>1 DEF Fits, Untouched
<1>4. UNCHANGED <<conn, tls, agreed, active, sent, encoder, net, held, run, got>>
  BY DEF login, client, stream
<1>5. buf' = Decoded(buf, offset, n, cipher) /\ offset' = o
  BY DecryptBytesIs
<1>6. /\ l \in Seq(Bytes) /\ Len(l) \in Nat /\ Len(l) >= 1 /\ Len(l) - 1 >= Len(buf) /\ Len(buf) \in Nat
      /\ \A j \in 1 .. Len(buf) : l[j] = buf[j]
  BY <1>1, LineIs
<1>7. o \in Nat /\ o <= Len(buf) /\ o <= Len(l) - 1
  BY <1>2, <1>6
<1>8. \A i \in 0 .. n - 1 :
        buf[offset + 1 + i].enc.gen = cipher.gen /\ buf[offset + 1 + i].enc.pos = cipher.pos + i
  <2> SUFFICES ASSUME NEW i \in 0 .. n - 1
               PROVE  /\ buf[offset + 1 + i].enc.gen = cipher.gen
                      /\ buf[offset + 1 + i].enc.pos = cipher.pos + i
    OBVIOUS
  <2>1. offset + 1 + i \in 1 .. Len(buf)
    BY <1>2, <1>6
  <2>2. l[offset + 1 + i].enc.gen = cipher.gen /\ l[offset + 1 + i].enc.pos = cipher.pos + i
    BY DEF Expected
  <2>3. QED BY <1>6, <2>1, <2>2
<1>9. buf' \in Seq(Bytes) /\ Cleared(buf', buf, offset, n)
  <2>1. Decoded(buf, offset, n, cipher) \in Seq(Bytes)
        /\ Cleared(Decoded(buf, offset, n, cipher), buf, offset, n)
    BY <1>2, <1>8, DecodedIs
  <2>2. QED BY <1>5, <2>1
<1>10. Cleared(k, l, offset, n)
  <2>1. Cleared(Lined(buf', held, net, sent, encoder), Lined(buf, held, net, sent, encoder), offset, n)
    BY <1>2, <1>9, ClearLine
  <2>2. k = Lined(buf', held', net', sent', encoder')
    BY DEF Line
  <2>3. QED BY <1>4, <2>1, <2>2 DEF Line
<1>11. Places("rc4", l, sent, Len(got)) /\ Ciphered("rc4", l, sent, offset, cipher)
  BY <1>1, <1>3 DEF Streams
<1>12. InPhase(phase', rest', l[o + 1], sent) /\ cipher' = l[o + 1].enc
  OBVIOUS
<1> HIDE DEF l, k
<1>13. Places("rc4", k, sent, Len(got))
  BY <1>2, <1>6, <1>10, <1>11, PlacesCleared
<1>14. Ciphered("rc4", k, sent, o, cipher')
  <2>1. Ciphered("rc4", k, sent, offset + n, l[offset + n + 1].enc)
    BY <1>2, <1>6, <1>7, <1>10, <1>11, CipheredCleared
  <2>2. QED BY <1>12, <2>1
<1>15. InPhase(phase', rest', k[o + 1], sent)
  <2>1. o + 1 \in 1 .. Len(k)
    BY <1>6, <1>7, <1>10 DEF Cleared
  <2>2. k[o + 1].at = l[o + 1].at /\ k[o + 1].tran = l[o + 1].tran
    BY <1>10, <2>1 DEF Cleared
  <2>3. QED BY <1>12, <2>2 DEF InPhase
<1> HIDE DEF o
<1>16. Streams'
  BY <1>3, <1>4, <1>5, <1>13, <1>14, <1>15 DEF Streams, k
<1>17. TransportTypes'
  BY <1>1, <1>4, <1>5, <1>7, <1>9 DEF TransportTypes
<1>18. Untouched'
  BY <1>3, <1>4 DEF Untouched
<1>19. Fits'
  <2>1. Len(buf') = Len(buf)
    BY <1>9 DEF Cleared
  <2>2. QED BY <1>1, <1>3, <1>4, <1>5, <1>7, <2>1 DEF Fits
<1>20. QED BY <1>16, <1>17, <1>18, <1>19 DEF TransportIInv


Walks(l, j, n) ==
    \A i \in 0 .. n : j + i \in 1 .. Len(l) - 1 /\ l[j + i].tran = l[j].tran /\ l[j + i].at = l[j].at + i

LEMMA WalkAlong ==
  ASSUME NEW m, NEW s \in Seq(Tran), NEW g, NEW l \in Seq(Bytes), Places(m, l, s, g),
         NEW j \in 1 .. Len(l), l[j].tran \in 1 .. Len(s),
         NEW n \in Nat, l[j].at + n <= SizeIn(m, s[l[j].tran].body)
  PROVE  Walks(l, j, n)
  BY Walk DEF Walks

\* The n bytes after offset are of one transaction, and one key; then d comes.
Ahead(n, b, d, t, p) ==
    /\ b.tran = t /\ b.at = p + (n - 1) /\ b.enc.gen = cipher.gen /\ b.enc.pos = cipher.pos + (n - 1)
    /\ Expected(Line, offset, n, cipher)
    /\ Follows("rc4", d, b, sent) /\ Turns("rc4", d, b, sent) /\ d.enc \in Enc

LEMMA NextBytes ==
  ASSUME TransportIInv, run = "decrypt", NEW n \in Nat \ {0}, offset + n <= Len(buf),
         NEW t, t = Line[offset + 1].tran, NEW p, p = Line[offset + 1].at,
         p + (n - 1) <= HeaderLen + sent[t].body,
         \A i \in 0 .. n - 2 : p + i # HeaderLen + 2
  PROVE  Ahead(n, Line[offset + n], Line[offset + n + 1], t, p)
<1> DEFINE l == Line
           m == n - 1
           j == offset + 1
           s == sent
           c == cipher
           g == Len(got)
<1>1. TransportTypes /\ Fits /\ Streams
  BY DEF TransportIInv
<1>2. sent \in Seq(Tran) /\ cipher \in Enc /\ offset \in Nat /\ agreed = "rc4"
  BY <1>1 DEF TransportTypes, Fits
<1>3. l \in Seq(Bytes) /\ Len(l) \in Nat /\ Len(l) - 1 >= Len(buf) /\ Len(buf) \in Nat
  BY <1>1, LineIs
<1>4. Places("rc4", l, s, g) /\ Ciphered("rc4", l, s, offset, c)
  BY <1>1, <1>2 DEF Streams
<1>5. m \in Nat /\ n \in Nat /\ n = m + 1 /\ j \in 1 .. Len(l) - 1 /\ j \in 1 .. Len(l)
      /\ j + m \in 1 .. Len(l) - 1 /\ j + m \in offset + 1 .. Len(l) - 1
  BY <1>2, <1>3
<1> HIDE DEF l, s, c, g
<1>6. l[j].tran = t /\ l[j].at = p
  BY DEF l
<1> HIDE DEF m
<1>7. t \in 1 .. Len(s) /\ p \in Nat
  <2>1. Sound("rc4", l[j], s)
    BY <1>4, <1>5 DEF Places
  <2>2. l[j] \in Bytes
    BY <1>3, <1>5, ElementOfSeq
  <2>3. QED BY <1>6, <2>1, <2>2 DEF Sound, Bytes
<1>8. SizeIn("rc4", s[t].body) = HeaderLen + s[t].body /\ s[t].body \in Nat /\ HeaderLen \in Nat
  BY <1>2, <1>7, SizeIs DEF s
<1>9. p + m <= SizeIn("rc4", s[t].body)
  BY <1>5, <1>8 DEF s
<1>10. \A i \in 0 .. m - 1 : p + i # HeaderLen + 2
  <2>1. m - 1 = n - 2
    BY <1>5
  <2>2. QED BY <2>1
<1>11. l[j + m].tran = t /\ l[j + m].at = p + m
  <2>1. s \in Seq(Tran)
    BY <1>2 DEF s
  <2>2. \A i \in 0 .. m : j + i \in 1 .. Len(l) - 1 /\ l[j + i].tran = l[j].tran /\ l[j + i].at = l[j].at + i
    <3>1. /\ s \in Seq(Tran) /\ l \in Seq(Bytes) /\ Places("rc4", l, s, g) /\ j \in 1 .. Len(l)
          /\ l[j].tran \in 1 .. Len(s) /\ m \in Nat /\ l[j].at + m <= SizeIn("rc4", s[l[j].tran].body)
      BY <1>3, <1>4, <1>5, <1>6, <1>7, <1>9, <2>1
    <3> HIDE DEF j
    <3>2. Walks(l, j, m)
      BY ONLY <3>1, WalkAlong
    <3>3. QED BY <3>2 DEF Walks
  <2>3. m \in 0 .. m
    BY <1>5
  <2>4. QED BY <1>6, <2>2, <2>3
<1>12. \A i \in 0 .. m : l[offset + 1 + i].enc.gen = c.gen /\ l[offset + 1 + i].enc.pos = c.pos + i
  <2>1. s \in Seq(Tran) /\ c \in Enc /\ l[offset + 1].tran \in 1 .. Len(s)
        /\ l[offset + 1].at + m <= SizeIn("rc4", s[l[offset + 1].tran].body)
        /\ \A i \in 0 .. m - 1 : l[offset + 1].at + i # HeaderLen + 2
    BY <1>2, <1>6, <1>7, <1>9, <1>10 DEF s, c
  <2>2. /\ offset \in Nat /\ l \in Seq(Bytes) /\ Places("rc4", l, s, g)
        /\ Ciphered("rc4", l, s, offset, c) /\ m \in Nat
    BY <1>2, <1>3, <1>4, <1>5
  <2>3. WalksRc4(l, offset, m, c)
    BY ONLY <2>1, <2>2, WalkRc4
  <2>4. QED BY ONLY <2>3 DEF WalksRc4
<1>13. Expected(l, offset, n, c)
  <2>1. n - 1 = m
    BY <1>5
  <2>2. QED BY <1>12, <2>1 DEF Expected
<1>14. l[j + m].enc.gen = c.gen /\ l[j + m].enc.pos = c.pos + m
  <2>1. m \in 0 .. m
    BY <1>5
  <2>2. QED BY <1>12, <2>1
<1>15. Follows("rc4", l[(j + m) + 1], l[j + m], s) /\ Turns("rc4", l[(j + m) + 1], l[j + m], s)
  <2>1. Follows("rc4", l[(j + m) + 1], l[j + m], s)
    BY <1>4, <1>5 DEF Places
  <2>2. Turns("rc4", l[(j + m) + 1], l[j + m], s)
    BY <1>4, <1>5 DEF Ciphered
  <2>3. QED BY <2>1, <2>2
<1>16. l[(j + m) + 1].enc \in Enc
  <2>1. (j + m) + 1 \in 1 .. Len(l)
    BY <1>3, <1>5
  <2>2. l[(j + m) + 1] \in Bytes
    BY <1>3, <2>1, ElementOfSeq
  <2>3. QED BY <2>2 DEF Bytes
<1>17. j + m = offset + n /\ (j + m) + 1 = offset + n + 1 /\ m = n - 1
  BY <1>2, <1>5
<1>18. QED BY <1>11, <1>13, <1>14, <1>15, <1>16, <1>17 DEF Ahead, l, s, c

LEMMA AdvancedIs ==
  ASSUME cipher \in Enc, NEW n \in Nat, NEW rot \in Nat, NEW d \in Enc,
         rot = 0 => d.gen = cipher.gen /\ d.pos = cipher.pos + n,
         rot # 0 => d.gen = cipher.gen + rot /\ d.pos = 0
  PROVE  Advanced(n, rot) = d
<1>1. cipher.gen \in Int /\ cipher.pos \in Int
  BY DEF Enc
<1>2. CASE rot = 0
  <2> DEFINE x == cipher.pos + n
  <2>1. x \in Int
    BY <1>1
  <2>2. Advanced(n, rot) = [cipher EXCEPT !.pos = x]
    BY <1>2 DEF Advanced
  <2> HIDE DEF x
  <2>3. [cipher EXCEPT !.pos = x] \in Enc /\ [cipher EXCEPT !.pos = x].gen = cipher.gen
        /\ [cipher EXCEPT !.pos = x].pos = x
    BY <2>1, PosSet
  <2>4. d.gen = cipher.gen /\ d.pos = x
    BY <1>2 DEF x
  <2>5. [cipher EXCEPT !.pos = x] = d
    BY <2>3, <2>4, EncEqual
  <2>6. QED BY <2>2, <2>5
<1>3. CASE rot # 0
  <2> DEFINE e == [gen |-> cipher.gen + rot, pos |-> 0]
  <2>1. Advanced(n, rot) = e /\ e \in Enc /\ e.gen = cipher.gen + rot /\ e.pos = 0
    BY <1>1, <1>3 DEF Advanced, Enc
  <2> HIDE DEF e
  <2>2. e = d
    BY <1>3, <2>1, EncEqual
  <2>3. QED BY <2>1, <2>2
<1>4. QED BY <1>2, <1>3

\* What is to be decrypted next.
LEMMA ToDecrypt ==
  ASSUME TransportIInv, run = "decrypt", NEW n \in Nat \ {0}, offset + n <= Len(buf)
  PROVE  /\ Line[offset + 1].tran \in 1 .. Len(sent) /\ Line[offset + 1] = buf[offset + 1]
         /\ Line[offset + 1].at \in 1 .. HeaderLen + sent[Line[offset + 1].tran].body
         /\ sent[Line[offset + 1].tran].body \in Nat /\ sent[Line[offset + 1].tran].body >= 2
         /\ sent[Line[offset + 1].tran].rot \in Nat
         /\ InPhase(phase, rest, Line[offset + 1], sent) /\ cipher \in Enc
         /\ offset \in Nat /\ rest \in Nat /\ Len(buf) \in Nat /\ HeaderLen \in Nat /\ HeaderLen >= 1
<1>1. TransportTypes /\ Fits /\ Streams
  BY DEF TransportIInv
<1>2. sent \in Seq(Tran) /\ cipher \in Enc /\ offset \in Nat /\ agreed = "rc4" /\ rest \in Nat
  BY <1>1 DEF TransportTypes, Fits
<1>3. /\ Line \in Seq(Bytes) /\ Len(Line) \in Nat /\ Len(Line) - 1 >= Len(buf) /\ Len(buf) \in Nat
      /\ \A j \in 1 .. Len(buf) : Line[j] = buf[j]
  BY <1>1, LineIs
<1>4. offset + 1 \in 1 .. Len(Line) - 1 /\ offset + 1 \in 1 .. Len(buf)
  BY <1>2, <1>3
<1>5. Sound("rc4", Line[offset + 1], sent)
  BY <1>1, <1>2, <1>4 DEF Streams, Places
<1>6. Line[offset + 1].tran \in 1 .. Len(sent)
  BY <1>5 DEF Sound
<1>7. /\ SizeIn("rc4", sent[Line[offset + 1].tran].body) = HeaderLen + sent[Line[offset + 1].tran].body
      /\ sent[Line[offset + 1].tran].body \in Nat /\ sent[Line[offset + 1].tran].body >= 2
      /\ sent[Line[offset + 1].tran].rot \in Nat /\ HeaderLen \in Nat /\ HeaderLen >= 1
  BY <1>2, <1>6, SizeIs
<1>8. Line[offset + 1].at \in 1 .. HeaderLen + sent[Line[offset + 1].tran].body
  BY <1>5, <1>7 DEF Sound
<1>9. InPhase(phase, rest, Line[offset + 1], sent)
  BY <1>1, <1>2 DEF Streams
<1>10. QED BY <1>2, <1>3, <1>4, <1>6, <1>7, <1>8, <1>9


LEMMA HeaderKeeps ==
  ASSUME TransportIInv, DecryptHeader
  PROVE  TransportIInv'
<1> DEFINE h == HeaderLen
           t == Line[offset + 1].tran
           b == Line[offset + h]
           d == Line[offset + h + 1]
<1>1. /\ run = "decrypt" /\ phase = "header" /\ Len(buf) - offset >= h /\ DecryptBytes(h)
      /\ UNCHANGED <<login, client, stream, run, got>> /\ rest' = rest
  BY DEF DecryptHeader, Available
<1>2. h \in Nat \ {0} /\ offset \in Nat /\ Len(buf) \in Nat
  <2>1. TransportTypes
    BY DEF TransportIInv
  <2>2. QED BY <2>1, LenProperties, TransportAssumption DEF TransportTypes
<1>3. offset + h <= Len(buf)
  BY <1>1, <1>2
<1>4. /\ t \in 1 .. Len(sent) /\ sent[t].body \in Nat /\ sent[t].body >= 2
      /\ InPhase(phase, rest, Line[offset + 1], sent) /\ cipher \in Enc /\ rest \in Nat
      /\ Line[offset + 1] = buf[offset + 1]
  BY <1>1, <1>2, <1>3, ToDecrypt
<1>14. cipher' = Advanced(h, 0) /\ phase' = "prefix"
  <2>1. sent[t].body # 0 /\ t = buf[offset + 1].tran
    BY <1>4
  <2>2. QED BY <2>1 DEF DecryptHeader
<1>5. Line[offset + 1].at = 1
  BY <1>1, <1>4 DEF InPhase
<1>6. 1 + (h - 1) <= HeaderLen + sent[t].body /\ \A i \in 0 .. h - 2 : 1 + i # HeaderLen + 2
  <2> DEFINE y == sent[t].body
  <2>1. y \in Nat /\ HeaderLen \in Nat
    BY <1>2, <1>4
  <2> HIDE DEF y
  <2>2. 1 + (h - 1) <= HeaderLen + y /\ \A i \in 0 .. h - 2 : 1 + i # HeaderLen + 2
    BY ONLY <2>1
  <2>3. QED BY <2>2 DEF y
<1>7. Ahead(h, b, d, t, 1)
  BY <1>1, <1>2, <1>3, <1>5, <1>6, NextBytes
<1>8. /\ b.tran = t /\ b.at = h /\ b.enc.gen = cipher.gen /\ b.enc.pos = cipher.pos + (h - 1)
      /\ Expected(Line, offset, h, cipher)
      /\ Follows("rc4", d, b, sent) /\ Turns("rc4", d, b, sent) /\ d.enc \in Enc
  <2> HIDE DEF b, d, t
  <2>1. /\ b.tran = t /\ b.at = 1 + (h - 1) /\ b.enc.gen = cipher.gen /\ b.enc.pos = cipher.pos + (h - 1)
        /\ Expected(Line, offset, h, cipher)
        /\ Follows("rc4", d, b, sent) /\ Turns("rc4", d, b, sent) /\ d.enc \in Enc
    BY <1>7 DEF Ahead
  <2>2. 1 + (h - 1) = h
    BY <1>2
  <2>3. QED BY <2>1, <2>2
<1> HIDE DEF b, d, t
<1>9. d.at = h + 1
  <2>1. h < SizeIn("rc4", sent[t].body)
    BY <1>2, <1>4 DEF SizeIn
  <2>2. QED BY <1>8, <2>1 DEF Follows
<1>10. d.enc.gen = cipher.gen /\ d.enc.pos = cipher.pos + h
  <2>1. h # HeaderLen + 2 /\ cipher.pos \in Int
    BY <1>2, <1>4 DEF Enc
  <2>2. d.enc.gen = b.enc.gen /\ d.enc.pos = b.enc.pos + 1
    BY <1>8, <2>1 DEF Turns
  <2>3. QED BY <1>2, <1>8, <2>1, <2>2
<1>11. cipher' = d.enc
  BY <1>2, <1>4, <1>8, <1>10, <1>14, AdvancedIs
<1>12. InPhase(phase', rest', d, sent)
  BY <1>9, <1>14 DEF InPhase
<1>13. QED BY <1>1, <1>2, <1>3, <1>4, <1>8, <1>11, <1>12, <1>14, Decrypts DEF d

LEMMA PrefixKeeps ==
  ASSUME TransportIInv, DecryptPrefix
  PROVE  TransportIInv'
<1> DEFINE t == Line[offset + 1].tran
           h == HeaderLen
           b == Line[offset + 2]
           d == Line[offset + 2 + 1]
<1>0. /\ run = "decrypt" /\ phase = "prefix" /\ Len(buf) - offset > 0 /\ Len(buf) - offset >= Prefix
      /\ DecryptBytes(Prefix) /\ UNCHANGED <<login, client, stream, run, got>>
  BY DEF DecryptPrefix, InPlace, Available
<1>2. h \in Nat \ {0} /\ offset \in Nat /\ Len(buf) \in Nat /\ 2 \in Nat \ {0}
  <2>1. TransportTypes
    BY DEF TransportIInv
  <2>2. QED BY <2>1, LenProperties, TransportAssumption DEF TransportTypes
<1>15. Prefix = 2
  <2>1. 1 \in Nat \ {0} /\ offset + 1 <= Len(buf)
    BY <1>0, <1>2
  <2>2. t = buf[offset + 1].tran /\ sent[t].body \in Nat /\ sent[t].body >= 2
    BY <1>0, <2>1, ToDecrypt
  <2>3. QED BY <2>2 DEF Prefix, Smaller
<1>1. /\ run = "decrypt" /\ phase = "prefix" /\ Len(buf) - offset >= 2 /\ DecryptBytes(2)
      /\ UNCHANGED <<login, client, stream, run, got>>
  BY <1>0, <1>15
<1>3. offset + 2 <= Len(buf)
  BY <1>1, <1>2
<1>4. /\ t \in 1 .. Len(sent) /\ sent[t].body \in Nat /\ sent[t].body >= 2 /\ sent[t].rot \in Nat
      /\ InPhase(phase, rest, Line[offset + 1], sent) /\ cipher \in Enc /\ rest \in Nat
      /\ Line[offset + 1] = buf[offset + 1]
  BY <1>1, <1>2, <1>3, ToDecrypt
<1>5. /\ cipher' = Advanced(2, sent[t].rot)
      /\ rest' = IF sent[t].body <= 2 THEN rest ELSE sent[t].body - 2
      /\ phase' = IF sent[t].body <= 2 THEN "header" ELSE "rest"
  BY <1>4, <1>15 DEF DecryptPrefix
<1>6. Line[offset + 1].at = h + 1
  BY <1>1, <1>4 DEF InPhase
<1>7. (h + 1) + (2 - 1) <= HeaderLen + sent[t].body /\ \A i \in 0 .. 2 - 2 : (h + 1) + i # HeaderLen + 2
  <2> DEFINE x == sent[t].body
  <2>1. h \in Nat /\ x \in Nat /\ x >= 2
    BY <1>2, <1>4
  <2> HIDE DEF h, x
  <2>2. (h + 1) + (2 - 1) <= h + x
    BY ONLY <2>1
  <2>3. \A i \in 0 .. 2 - 2 : (h + 1) + i # h + 2
    BY ONLY <2>1
  <2>4. QED BY <2>2, <2>3 DEF h, x
<1>8. Ahead(2, b, d, t, h + 1)
  BY <1>1, <1>2, <1>3, <1>6, <1>7, NextBytes
<1>9. /\ b.tran = t /\ b.at = h + 2 /\ b.enc.gen = cipher.gen /\ b.enc.pos = cipher.pos + 1
      /\ Expected(Line, offset, 2, cipher)
      /\ Follows("rc4", d, b, sent) /\ Turns("rc4", d, b, sent) /\ d.enc \in Enc
  <2> HIDE DEF b, d, t
  <2>1. /\ b.tran = t /\ b.at = (h + 1) + (2 - 1) /\ b.enc.gen = cipher.gen /\ b.enc.pos = cipher.pos + (2 - 1)
        /\ Expected(Line, offset, 2, cipher)
        /\ Follows("rc4", d, b, sent) /\ Turns("rc4", d, b, sent) /\ d.enc \in Enc
    BY <1>8 DEF Ahead
  <2>2. (h + 1) + (2 - 1) = h + 2 /\ 2 - 1 = 1
    BY <1>2
  <2>3. QED BY <2>1, <2>2
<1> HIDE DEF b, d, t
<1>10. IF sent[t].body <= 2 THEN d.at = 1 ELSE d.tran = t /\ d.at = h + 3
  <2>1. (h + 2 < SizeIn("rc4", sent[t].body)) = ~(sent[t].body <= 2) /\ (h + 2) + 1 = h + 3
    BY <1>2, <1>4 DEF SizeIn
  <2>2. QED BY <1>9, <2>1 DEF Follows
<1>11. cipher' = d.enc
  <2>1. cipher.pos \in Int /\ cipher.gen \in Int
    BY <1>4 DEF Enc
  <2>2. sent[t].rot = 0 => d.enc.gen = cipher.gen /\ d.enc.pos = cipher.pos + 2
    <3>1. (cipher.pos + 1) + 1 = cipher.pos + 2
      BY <2>1
    <3>2. QED BY <1>9, <3>1 DEF Turns
  <2>3. sent[t].rot # 0 => d.enc.gen = cipher.gen + sent[t].rot /\ d.enc.pos = 0
    BY <1>9 DEF Turns
  <2>4. cipher \in Enc /\ 2 \in Nat /\ sent[t].rot \in Nat /\ d.enc \in Enc
    BY <1>2, <1>4, <1>9
  <2>5. Advanced(2, sent[t].rot) = d.enc
    BY ONLY <2>2, <2>3, <2>4, AdvancedIs
  <2>6. QED BY <1>5, <2>5
<1>12. InPhase(phase', rest', d, sent)
  <2>1. CASE sent[t].body <= 2
    BY <1>5, <1>10, <2>1 DEF InPhase
  <2>2. CASE ~(sent[t].body <= 2)
    <3>1. (sent[t].body - 2) + (h + 3) = h + sent[t].body + 1 /\ h + 3 >= HeaderLen + 3
      <4> DEFINE y == sent[t].body
      <4>1. y \in Nat /\ h \in Nat
        BY <1>2, <1>4
      <4> HIDE DEF y
      <4>2. (y - 2) + (h + 3) = h + y + 1 /\ h + 3 >= HeaderLen + 3
        BY <4>1
      <4>3. QED BY <4>2 DEF y
    <3>2. phase' = "rest" /\ d.tran = t /\ d.at = h + 3 /\ rest' = sent[t].body - 2
      BY <1>5, <1>10, <2>2
    <3>3. QED BY <3>1, <3>2 DEF InPhase
  <2>3. QED BY <2>1, <2>2
<1>13. rest' \in Nat /\ phase' \in {"header", "prefix", "rest"} /\ cipher' \in Enc
  BY <1>4, <1>5, <1>9, <1>11
<1>14. QED BY <1>1, <1>2, <1>3, <1>9, <1>11, <1>12, <1>13, Decrypts DEF d

LEMMA RestKeeps ==
  ASSUME TransportIInv, DecryptRest
  PROVE  TransportIInv'
<1> DEFINE n == Smaller(rest, Len(buf) - offset)
           t == Line[offset + 1].tran
           p == Line[offset + 1].at
           h == HeaderLen
           b == Line[offset + n]
           d == Line[offset + n + 1]
<1>1. /\ run = "decrypt" /\ phase = "rest" /\ Len(buf) - offset > 0 /\ DecryptBytes(n)
      /\ UNCHANGED <<login, client, stream, run, got>>
      /\ cipher' = Advanced(n, 0) /\ rest' = rest - n
      /\ phase' = IF n = rest THEN "header" ELSE "rest"
  BY DEF DecryptRest, InPlace, Available
<1>2. h \in Nat \ {0} /\ offset \in Nat /\ Len(buf) \in Nat /\ 1 \in Nat \ {0} /\ offset + 1 <= Len(buf)
  <2>1. TransportTypes
    BY DEF TransportIInv
  <2>2. h \in Nat \ {0} /\ offset \in Nat /\ Len(buf) \in Nat
    BY <2>1, LenProperties, TransportAssumption DEF TransportTypes
  <2>3. QED BY <1>1, <2>2
<1>3. /\ t \in 1 .. Len(sent) /\ p \in 1 .. h + sent[t].body /\ sent[t].body \in Nat
      /\ InPhase(phase, rest, Line[offset + 1], sent) /\ cipher \in Enc /\ rest \in Nat
  BY <1>1, <1>2, ToDecrypt
<1>4. p >= h + 3 /\ rest + p = h + sent[t].body + 1
  BY <1>1, <1>3 DEF InPhase
<1>5. rest >= 1 /\ p \in Nat
  <2> DEFINE y == sent[t].body
  <2>1. y \in Nat /\ h \in Nat /\ p \in 1 .. h + y /\ rest + p = h + y + 1 /\ rest \in Nat
    BY <1>2, <1>3, <1>4
  <2> HIDE DEF y, p, h
  <2>2. QED BY ONLY <2>1
<1>6. n \in Nat \ {0} /\ n <= rest /\ offset + n <= Len(buf)
  BY <1>1, <1>2, <1>3, <1>5 DEF Smaller
<1> HIDE DEF n
<1>7. p + (n - 1) <= HeaderLen + sent[t].body /\ \A i \in 0 .. n - 2 : p + i # HeaderLen + 2
  <2> DEFINE y == sent[t].body
  <2>1. y \in Nat /\ h \in Nat /\ p \in Nat /\ p >= h + 3 /\ rest + p = h + y + 1 /\ n \in Nat
        /\ n <= rest /\ rest \in Nat
    BY <1>2, <1>3, <1>4, <1>5, <1>6
  <2> HIDE DEF y, p
  <2>2. p + (n - 1) <= HeaderLen + y
    BY <2>1
  <2>3. \A i \in 0 .. n - 2 : p + i # HeaderLen + 2
    BY <2>1
  <2>4. QED BY <2>2, <2>3 DEF y
<1>8. Ahead(n, b, d, t, p)
  BY <1>1, <1>6, <1>7, NextBytes
<1> HIDE DEF b, d, t, p
<1>9. /\ b.tran = t /\ b.at = p + (n - 1) /\ b.enc.gen = cipher.gen /\ b.enc.pos = cipher.pos + (n - 1)
      /\ Expected(Line, offset, n, cipher)
      /\ Follows("rc4", d, b, sent) /\ Turns("rc4", d, b, sent) /\ d.enc \in Enc
  BY <1>8 DEF Ahead
<1>10. IF n = rest THEN d.at = 1 ELSE d.tran = t /\ d.at = p + n
  <2> DEFINE y == sent[t].body
             q == p + (n - 1)
  <2>1. y \in Nat /\ h \in Nat /\ p \in Nat /\ p >= h + 3 /\ rest + p = h + y + 1 /\ n \in Nat
        /\ n <= rest /\ rest \in Nat /\ SizeIn("rc4", y) = h + y
    BY <1>2, <1>3, <1>4, <1>5, <1>6 DEF SizeIn
  <2>2. IF b.at < SizeIn("rc4", y) THEN d.tran = t /\ d.at = b.at + 1 ELSE d.at = 1
    BY <1>9 DEF Follows
  <2> HIDE DEF y, h
  <2>3. q + 1 = p + n /\ q \in Int
    BY <2>1
  <2>4. n = rest => ~(q < SizeIn("rc4", y))
    BY <2>1
  <2>5. n # rest => q < SizeIn("rc4", y)
    BY <2>1
  <2>6. b.at = q
    BY <1>9
  <2> HIDE DEF q
  <2>7. QED BY <2>2, <2>3, <2>4, <2>5, <2>6
<1>11. cipher' = d.enc
  <2>1. cipher.pos \in Int /\ cipher.gen \in Int
    BY <1>3 DEF Enc
  <2>2. b.at # HeaderLen + 2
    BY <1>2, <1>4, <1>5, <1>6, <1>9
  <2>3. d.enc.gen = cipher.gen /\ d.enc.pos = (cipher.pos + (n - 1)) + 1
    BY <1>9, <2>2 DEF Turns
  <2>4. (cipher.pos + (n - 1)) + 1 = cipher.pos + n
    BY <1>6, <2>1
  <2>5. QED BY <1>1, <1>3, <1>6, <1>9, <2>3, <2>4, AdvancedIs
<1>12. InPhase(phase', rest', d, sent)
  <2>1. CASE n = rest
    BY <1>1, <1>10, <2>1 DEF InPhase
  <2>2. CASE n # rest
    <3>1. (rest - n) + (p + n) = h + sent[t].body + 1 /\ p + n >= h + 3
      BY <1>2, <1>3, <1>4, <1>5, <1>6
    <3>2. phase' = "rest" /\ d.tran = t /\ d.at = p + n /\ rest' = rest - n
      BY <1>1, <1>10, <2>2
    <3>3. QED BY <3>1, <3>2 DEF InPhase
  <2>3. QED BY <2>1, <2>2
<1>13. rest' \in Nat /\ phase' \in {"header", "prefix", "rest"} /\ cipher' \in Enc
  BY <1>1, <1>3, <1>6, <1>9, <1>11
<1>14. QED BY <1>1, <1>6, <1>9, <1>11, <1>12, <1>13, Decrypts DEF d


-----------------------------------------------------------------------------
(* The first transaction of the line is dispatched. *)

LEMMA Dispatches ==
  ASSUME TransportIInv, run # "idle", NEW z \in Nat, z <= Len(buf), NEW o \in Nat, NEW t,
         t = Len(got) + 1, got' = Append(got, t), buf' = Skip(buf, z), offset' = o,
         UNCHANGED <<conn, tls, agreed, active, client, stream, phase, rest, run>>,
         cipher' \in Enc, agreed # "none" => Line[o + 1 + z].enc = cipher',
         agreed # "rc4" => o = 0 /\ offset = 0, agreed = "rc4" => o + z = offset,
         1 + z \in 1 .. Len(Line), Line[1 + z].tran = (Len(got) + 1) + 1, Line[1 + z].at = 1
  PROVE  TransportIInv'
<1> DEFINE l == Line
           k == Line'
           g == Len(got)
<1>1. TransportTypes /\ Untouched /\ Fits /\ Streams
  BY DEF TransportIInv
<1>2. /\ buf \in Seq(Bytes) /\ held \in Seq(Bytes) /\ net \in Seq(Bytes) /\ sent \in Seq(Tran)
      /\ encoder \in Enc /\ offset \in Nat /\ got \in Seq(Nat) /\ g \in Nat /\ Len(buf) \in Nat
  BY <1>1, LenProperties DEF TransportTypes
<1>3. conn # "login"
  BY <1>1 DEF Untouched
<1>4. UNCHANGED <<conn, tls, agreed, active, sent, encoder, net, held, phase, rest, run>>
  BY DEF client, stream
<1>5. z \in 0 .. Len(buf)
  BY <1>2
<1>6. buf' \in Seq(Bytes) /\ Len(buf') = Len(buf) - z
  <2>1. buf \in Seq(Bytes)
    BY <1>2
  <2>2. Skip(buf, z) \in Seq(Bytes) /\ Len(Skip(buf, z)) = Len(buf) - z
    BY ONLY <1>5, <2>1, TakeSkip
  <2>3. QED BY <2>2
<1>7. Shifted(k, l, z)
  <2>1. Shifted(Lined(Skip(buf, z), held, net, sent, encoder), Lined(buf, held, net, sent, encoder), z)
    BY <1>2, <1>5, SkipLine
  <2>2. k = Lined(buf', held', net', sent', encoder')
    BY DEF Line
  <2>3. QED BY <1>4, <2>1, <2>2 DEF Line
<1>8. l \in Seq(Bytes) /\ Len(l) \in Nat
  BY <1>1, LineIs
<1>9. Places(agreed, l, sent, g) /\ Ciphered(agreed, l, sent, offset, cipher)
      /\ (agreed = "rc4" => InPhase(phase, rest, l[offset + 1], sent))
  BY <1>1 DEF Streams
<1>10. /\ 1 + z \in 1 .. Len(l) /\ l[1 + z].tran = (g + 1) + 1 /\ l[1 + z].at = 1
       /\ agreed # "none" => l[o + 1 + z].enc = cipher'
  OBVIOUS
<1>11. got' \in Seq(Nat) /\ Len(got') = g + 1 /\ \A n \in 1 .. Len(got') : got'[n] = n
  <2>1. t \in Nat /\ \A n \in 1 .. g : got[n] = n
    BY <1>1, <1>2 DEF Fits
  <2>2. /\ Append(got, t) \in Seq(Nat) /\ Len(Append(got, t)) = g + 1
        /\ \A n \in 1 .. g : Append(got, t)[n] = got[n] /\ Append(got, t)[g + 1] = t
    BY <1>2, <2>1, AppendProperties
  <2>3. \A n \in 1 .. g + 1 : n \in 1 .. g \/ n = g + 1
    BY <1>2
  <2>4. Append(got, t)[g + 1] = t
    BY <1>2, <2>1, AppendProperties
  <2>5. QED BY <2>1, <2>2, <2>3, <2>4
<1> HIDE DEF l, k
<1>12. Places(agreed, k, sent, g + 1)
  <2> DEFINE s == sent
             m == agreed
  <2>1. /\ s \in Seq(Tran) /\ g \in Nat /\ l \in Seq(Bytes) /\ z \in Nat /\ Places(m, l, s, g)
        /\ Shifted(k, l, z) /\ 1 + z \in 1 .. Len(l) /\ l[1 + z].tran = (g + 1) + 1 /\ l[1 + z].at = 1
    BY <1>2, <1>7, <1>8, <1>9, <1>10
  <2> HIDE DEF s, m, g
  <2>2. Places(m, k, s, g + 1)
    BY ONLY <2>1, PlacesShift
  <2>3. QED BY <2>2 DEF s, m
<1>13. Ciphered(agreed, k, sent, o, cipher')
  <2> DEFINE s == sent
             m == agreed
             off == offset
             c == cipher
             d == cipher'
  <2>1. /\ s \in Seq(Tran) /\ l \in Seq(Bytes) /\ z \in Nat /\ off \in Nat /\ o \in Nat
        /\ Ciphered(m, l, s, off, c) /\ Shifted(k, l, z) /\ 1 + z \in 1 .. Len(l)
        /\ (o = 0 \/ o + z = off) /\ off <= o + z /\ (m # "none" => l[o + 1 + z].enc = d)
    BY <1>2, <1>7, <1>8, <1>9, <1>10
  <2> HIDE DEF s, m, off, c, d
  <2>2. Ciphered(m, k, s, o, d)
    BY ONLY <2>1, CipheredShift
  <2>3. QED BY <2>2 DEF s, m, d
<1>14. agreed = "rc4" => InPhase(phase, rest, k[o + 1], sent)
  <2> SUFFICES ASSUME agreed = "rc4" PROVE InPhase(phase, rest, k[o + 1], sent)
    OBVIOUS
  <2>1. o + z <= Len(l) - 1 /\ o + z = offset
    BY <1>9 DEF Ciphered
  <2>2. o + 1 \in 1 .. Len(k) /\ (o + 1) + z = offset + 1
    <3> DEFINE x == Len(k)
               y == Len(l)
    <3>1. x = y - z /\ y \in Nat /\ z \in Nat /\ o \in Nat /\ offset \in Nat /\ o + z <= y - 1
          /\ o + z = offset
      BY <1>2, <1>7, <1>8, <2>1 DEF Shifted
    <3> DEFINE u == o
               v == z
               f == offset
    <3> HIDE DEF x, y, u, v, f
    <3>2. u + 1 \in 1 .. x /\ (u + 1) + v = f + 1
      <4>1. /\ x = y - v /\ y \in Nat /\ v \in Nat /\ u \in Nat /\ f \in Nat
            /\ u + v <= y - 1 /\ u + v = f
        BY <3>1 DEF u, v, f
      <4>2. QED BY ONLY <4>1
    <3>3. QED BY <3>2 DEF x, u, v, f
  <2>3. k[o + 1] = l[offset + 1]
    <3>1. k[o + 1] = l[(o + 1) + z]
      BY <1>7, <2>2 DEF Shifted
    <3>2. QED BY ONLY <2>2, <3>1
  <2>4. QED BY <1>9, <2>3
<1>15. Streams'
  BY <1>4, <1>11, <1>12, <1>13, <1>14 DEF Streams, k
<1>16. TransportTypes'
  BY <1>1, <1>4, <1>6, <1>11 DEF TransportTypes
<1>17. Untouched'
  BY <1>3, <1>4 DEF Untouched
<1>18. Fits'
  <2>1. o <= Len(buf')
    <3> DEFINE x == Len(buf)
               y == Len(buf')
    <3>1. x \in Nat /\ y = x - z /\ o \in Nat /\ z \in Nat /\ offset \in Nat /\ z <= x
      BY <1>2, <1>6
    <3>2. offset <= x /\ (o = 0 \/ o + z = offset)
      BY <1>1 DEF Fits
    <3> HIDE DEF x, y
    <3>3. o <= y
      BY ONLY <3>1, <3>2
    <3>4. QED BY <3>3 DEF y
  <2>2. QED BY <1>1, <1>4, <1>11, <2>1 DEF Fits
<1>19. QED BY <1>15, <1>16, <1>17, <1>18 DEF TransportIInv

\* The first transaction of the line, and how it is told from its first bytes.
LEMMA FirstIs ==
  ASSUME TransportIInv, Len(buf) >= 1, NEW t, t = buf[1].tran, NEW z, z = SizeIn(agreed, sent[t].body)
  PROVE  /\ t = Len(got) + 1 /\ t \in 1 .. Len(sent) /\ z \in Nat /\ z >= 1
         /\ 1 + z \in 1 .. Len(Line) /\ Line[1 + z].tran = (Len(got) + 1) + 1 /\ Line[1 + z].at = 1
         /\ \A k \in 1 .. z : k <= Len(buf) => buf[k] = Line[k] /\ buf[k] = Byte(t, k, Line[k].enc)
<1> DEFINE l == Line
           g == Len(got)
           s == sent
           m == agreed
<1>1. TransportTypes /\ Streams
  BY DEF TransportIInv
<1>2. sent \in Seq(Tran) /\ got \in Seq(Nat) /\ g \in Nat
  BY <1>1, LenProperties DEF TransportTypes
<1>3. /\ l \in Seq(Bytes) /\ Len(l) \in Nat /\ Len(l) - 1 >= Len(buf) /\ Len(buf) \in Nat
      /\ \A j \in 1 .. Len(buf) : l[j] = buf[j]
  BY <1>1, LineIs
<1>4. Places(m, l, s, g) /\ s \in Seq(Tran)
  BY <1>1, <1>2 DEF Streams
<1>5. Len(l) >= 1 /\ Len(l) > 1 /\ 1 \in 1 .. Len(buf)
  BY <1>3
<1> HIDE DEF l, g
<1>6. g + 1 \in 1 .. Len(s)
  BY <1>2, <1>3, <1>4, <1>5, FirstTran
<1>7. l[1].tran = g + 1 /\ t = l[1].tran
  BY <1>3, <1>4, <1>5 DEF Places
<1> HIDE DEF s, m
<1>8. z = SizeIn(m, s[l[1].tran].body)
  BY <1>7 DEF s, m
<1>9. /\ z \in Nat /\ z >= 1 /\ 1 + z \in 1 .. Len(l)
      /\ \A k \in 1 .. z : l[k].tran = l[1].tran /\ l[k].at = k /\ k \in 1 .. Len(l) - 1
      /\ l[1 + z].tran = l[1].tran + 1 /\ l[1 + z].at = 1
  <2>1. l[1].tran \in 1 .. Len(s)
    BY <1>6, <1>7
  <2>2. QED BY ONLY SMTT(30), <1>3, <1>4, <1>5, <1>8, <2>1, WalkFirst
<1>10. ASSUME NEW k \in 1 .. z, k <= Len(buf)
       PROVE  buf[k] = l[k] /\ buf[k] = Byte(t, k, l[k].enc)
  <2>1. k \in 1 .. Len(buf) /\ k \in 1 .. Len(l)
    BY <1>3, <1>9, <1>10
  <2>2. l[k] \in Bytes /\ l[k].tran = t /\ l[k].at = k /\ buf[k] = l[k]
    BY <1>3, <1>7, <1>9, <2>1, ElementOfSeq
  <2>3. l[k] = Byte(t, k, l[k].enc)
    BY <2>2 DEF Bytes, Byte
  <2>4. QED BY <2>2, <2>3
<1>11. QED BY <1>6, <1>7, <1>9, <1>10 DEF l, g, s


LEMMA ScanKeeps ==
  ASSUME TransportIInv, Scan
  PROVE  TransportIInv'
<1> DEFINE t == buf[1].tran
           z == SizeIn(agreed, sent[t].body)
           o == IF agreed = "rc4" THEN offset - z ELSE 0
<1>1. TransportTypes /\ Fits /\ Streams
  BY DEF TransportIInv
<1>2. /\ run = "scan" /\ agreed # "aead" /\ agreed \in {"none", "rc4"} /\ active = agreed
      /\ offset \in Nat /\ offset <= Len(buf) /\ (agreed # "rc4" => offset = 0)
      /\ sent \in Seq(Tran) /\ cipher \in Enc
  BY <1>1 DEF Scan, TransportTypes, Fits
<1>3. /\ Peek \in Nat /\ Peek >= 1 /\ Peek <= HeaderLen /\ HeaderLen \in Nat
  BY TransportAssumption
<1>4. /\ Limit >= Peek /\ Limit = IF agreed = "rc4" THEN offset ELSE Len(buf)
  BY <1>2 DEF Scan, Limit
<1>5. Len(buf) \in Nat
  BY <1>1, LineIs
<1>6. Limit \in Nat /\ Limit <= Len(buf) /\ Len(buf) >= 1
  BY <1>2, <1>3, <1>4, <1>5
<1>7. /\ t = Len(got) + 1 /\ t \in 1 .. Len(sent) /\ z \in Nat /\ z >= 1
      /\ 1 + z \in 1 .. Len(Line) /\ Line[1 + z].tran = (Len(got) + 1) + 1 /\ Line[1 + z].at = 1
      /\ \A k \in 1 .. z : k <= Len(buf) => buf[k] = Line[k] /\ buf[k] = Byte(t, k, Line[k].enc)
  BY <1>6, FirstIs
<1>8. Length(t) = z /\ z >= HeaderLen
  <2>1. /\ z = HeaderLen + sent[t].body /\ sent[t].body \in Nat
    BY <1>2, <1>7, SizeIs
  <2>2. QED BY <1>3, <2>1 DEF Length
<1> HIDE DEF t, z
<1>9. ASSUME NEW k \in 1 .. z, k <= Limit PROVE buf[k] = Byte(t, k, Clear)
  <2>1. k <= Len(buf) /\ k \in Nat
    BY <1>5, <1>6, <1>7, <1>9
  <2>2. Line[k].enc = Clear
    <3>1. CASE agreed = "none"
      <4>1. k \in 1 .. Len(Line) - 1
        <5>1. Len(Line) \in Nat
          BY <1>1, LineIs
        <5>2. QED BY <1>7, <5>1
      <4>2. Ciphered("none", Line, sent, offset, cipher)
        BY <1>1, <3>1 DEF Streams
      <4>3. QED BY <4>1, <4>2 DEF Ciphered
    <3>2. CASE agreed = "rc4"
      <4>1. Ciphered("rc4", Line, sent, offset, cipher)
        BY <1>1, <3>2 DEF Streams
      <4>2. k \in 1 .. offset
        BY <1>2, <1>4, <1>9, <2>1, <3>2
      <4>3. QED BY <4>1, <4>2 DEF Ciphered
    <3>3. QED BY <1>2, <3>1, <3>2
  <2>3. QED BY <1>7, <2>1, <2>2
<1>10. Whole(t, Peek)
  <2>0. Peek <= Len(buf)
    BY <1>3, <1>4, <1>5, <1>6
  <2> SUFFICES ASSUME NEW k \in 1 .. Peek PROVE buf[k] = Byte(t, k, Clear)
    BY <2>0 DEF Whole
  <2>1. k \in 1 .. z /\ k <= Limit
    BY <1>3, <1>4, <1>6, <1>7, <1>8
  <2>2. QED BY <1>9, <2>1
<1>18. z <= Limit
  <2>1. Length(t) <= Limit
    BY <1>10 DEF Scan, t
  <2>2. QED BY <1>8, <2>1
<1>12. Whole(t, z)
  <2>0. z <= Len(buf)
    BY <1>5, <1>6, <1>7, <1>18
  <2> SUFFICES ASSUME NEW k \in 1 .. z PROVE buf[k] = Byte(t, k, Clear)
    BY <2>0 DEF Whole
  <2>1. k <= Limit
    BY <1>6, <1>7, <1>18
  <2>2. QED BY <1>9, <2>1
<1>19. Parses(t)
  BY <1>2, <1>7, SizeIs DEF Parses
<1>11. /\ z <= Limit /\ UNCHANGED conn
       /\ got' = Append(got, t) /\ buf' = Skip(buf, z) /\ offset' = Adjusted(z) /\ UNCHANGED run
       /\ UNCHANGED <<tls, agreed, active, client, stream, phase, rest, cipher>>
  <2>1. Whole(t, Length(t))
    BY <1>8, <1>12
  <2>2. /\ got' = Append(got, t) /\ buf' = Skip(buf, Length(t)) /\ offset' = Adjusted(Length(t))
        /\ UNCHANGED <<conn, run>>
        /\ UNCHANGED <<tls, agreed, active, client, stream, phase, rest, cipher>>
    BY <1>10, <1>19, <2>1 DEF Scan, t
  <2>3. QED BY <1>8, <1>18, <2>2
<1>13. o \in Nat /\ offset' = o /\ z <= Len(buf) /\ (agreed = "rc4" => o + z = offset)
  <2>1. offset' = IF agreed # "rc4" THEN offset ELSE IF z >= offset THEN 0 ELSE offset - z
    BY <1>2, <1>11 DEF Adjusted
  <2>2. agreed = "rc4" => z <= offset
    BY <1>4, <1>11
  <2>3. z <= Len(buf)
    BY <1>5, <1>6, <1>7, <1>11
  <2>4. QED BY <1>2, <1>7, <2>1, <2>2, <2>3
<1>14. agreed # "none" => Line[o + 1 + z].enc = cipher
  <2> SUFFICES ASSUME agreed = "rc4" PROVE Line[o + 1 + z].enc = cipher
    BY <1>2
  <2>1. Ciphered("rc4", Line, sent, offset, cipher)
    BY <1>1 DEF Streams
  <2>2. o + 1 + z = offset + 1
    BY <1>2, <1>7, <1>13
  <2>3. QED BY <2>1, <2>2 DEF Ciphered
<1>15. agreed # "rc4" => o = 0 /\ offset = 0
  BY <1>2
<1> HIDE DEF o
<1>16. /\ UNCHANGED <<conn, tls, agreed, active, client, stream, phase, rest, run>>
       /\ cipher' = cipher
  BY <1>11
<1>17. QED BY <1>2, <1>7, <1>11, <1>13, <1>14, <1>15, <1>16, Dispatches

LEMMA OpenFrameKeeps ==
  ASSUME TransportIInv, OpenFrame
  PROVE  TransportIInv'
<1> DEFINE t == buf[1].tran
           z == SizeIn(agreed, sent[t].body)
           d == [cipher EXCEPT !.pos = @ + 1]
<1>1. TransportTypes /\ Fits /\ Streams
  BY DEF TransportIInv
<1>2. run = "frames" /\ agreed = "aead" /\ sent \in Seq(Tran) /\ cipher \in Enc /\ got \in Seq(Nat)
  BY <1>1 DEF OpenFrame, TransportTypes, Fits
<1>3. Len(buf) \in Nat /\ Len(buf) >= 1
  <2>1. FrameHead \in Nat /\ FrameHead >= 1 /\ Len(buf) >= FrameHead
    BY TransportAssumption DEF OpenFrame
  <2>2. Len(buf) \in Nat
    BY <1>1, LineIs
  <2>3. QED BY <2>1, <2>2
<1>4. /\ t = Len(got) + 1 /\ t \in 1 .. Len(sent) /\ z \in Nat /\ z >= 1
      /\ 1 + z \in 1 .. Len(Line) /\ Line[1 + z].tran = (Len(got) + 1) + 1 /\ Line[1 + z].at = 1
      /\ \A k \in 1 .. z : k <= Len(buf) => buf[k] = Line[k] /\ buf[k] = Byte(t, k, Line[k].enc)
  BY <1>3, FirstIs
<1>5. FrameLength = z
  <2>1. sent[t].body \in Nat
    BY <1>2, <1>4, SizeIs
  <2>2. HeaderLen \in Nat /\ FrameHead \in Nat /\ Tag \in Nat
    BY TransportAssumption
  <2>3. QED BY <1>2, <2>1, <2>2 DEF FrameLength, Length, SizeIn
<1>6. /\ Places("aead", Line, sent, Len(got)) /\ Ciphered("aead", Line, sent, 0, cipher)
  BY <1>1, <1>2 DEF Streams, Fits
<1>7. Line \in Seq(Bytes) /\ Len(Line) \in Nat /\ Line[1] = buf[1]
  <2>1. 1 \in 1 .. Len(buf)
    BY <1>3
  <2>2. QED BY <1>1, <2>1, LineIs
<1>8. /\ \A k \in 1 .. z : Line[k].enc = cipher
      /\ Line[1 + z].enc.gen = cipher.gen /\ Line[1 + z].enc.pos = cipher.pos + 1
  <2> DEFINE l == Line
             g == Len(got)
             c == cipher
             s == sent
  <2>1. /\ s \in Seq(Tran) /\ l \in Seq(Bytes) /\ Places("aead", l, s, g) /\ c \in Enc
        /\ Ciphered("aead", l, s, 0, c) /\ l[1].tran \in 1 .. Len(s)
        /\ z = SizeIn("aead", s[l[1].tran].body)
    BY <1>2, <1>4, <1>6, <1>7
  <2> HIDE DEF l, g, c, s, z, t
  <2>2. /\ \A k \in 1 .. z : l[k].enc = c
        /\ l[1 + z].enc.gen = c.gen /\ l[1 + z].enc.pos = c.pos + 1
    BY ONLY <2>1, WalkAead
  <2>3. QED BY <2>2 DEF l, c
<1> HIDE DEF z
<1>9. z <= Len(buf)
  BY <1>5 DEF OpenFrame
<1>10. \A k \in 1 .. FrameLength : buf[k] = Byte(buf[1].tran, k, cipher)
  <2> SUFFICES ASSUME NEW k \in 1 .. z PROVE buf[k] = Byte(t, k, cipher)
    BY <1>5
  <2>1. k <= Len(buf)
    BY <1>3, <1>4, <1>9
  <2>2. QED BY <1>4, <1>8, <2>1
<1>11. /\ cipher' = d /\ got' = Append(got, t) /\ buf' = Skip(buf, z) /\ UNCHANGED <<conn, run>>
       /\ UNCHANGED <<tls, agreed, active, client, stream, offset, phase, rest>>
  <2>1. Parses(buf[1].tran)
    BY <1>2, <1>4, SizeIs DEF Parses
  <2>2. QED BY <1>5, <1>10, <2>1 DEF OpenFrame
<1>12. d \in Enc /\ d = Line[1 + z].enc
  <2>1. cipher.pos \in Int /\ cipher.gen \in Int
    BY <1>2 DEF Enc
  <2> DEFINE x == cipher.pos + 1
             e == [cipher EXCEPT !.pos = x]
  <2>2. d = e /\ x \in Int
    BY <2>1
  <2> HIDE DEF x
  <2>3. e \in Enc /\ e.gen = cipher.gen /\ e.pos = x
    BY <1>2, <2>2, PosSet
  <2>4. Line[1 + z] \in Bytes
    BY <1>4, <1>7, ElementOfSeq
  <2>5. Line[1 + z].enc \in Enc
    BY <2>4 DEF Bytes
  <2>6. Line[1 + z].enc.gen = cipher.gen /\ Line[1 + z].enc.pos = x
    BY <1>8 DEF x
  <2> HIDE DEF d, e
  <2>7. e = Line[1 + z].enc
    BY <2>3, <2>5, <2>6, EncEqual
  <2>8. QED BY <2>2, <2>5, <2>7
<1> HIDE DEF d, t
<1>13. 0 + 1 + z = 1 + z /\ offset = 0 /\ offset' = 0 /\ 0 \in Nat
  BY <1>1, <1>2, <1>4, <1>11 DEF Fits
<1>14. cipher' \in Enc /\ Line[0 + 1 + z].enc = cipher'
  BY <1>11, <1>12, <1>13
<1>15. agreed # "rc4" /\ run # "idle"
  BY <1>2
<1>16. QED BY <1>4, <1>9, <1>11, <1>13, <1>14, <1>15, Dispatches

\* Nothing of the stream changes.
LEMMA StillKeeps ==
  ASSUME TransportIInv, conn' \notin {"login", "lost"},
         UNCHANGED <<tls, agreed, active, client, stream, buf, decrypt, got>>,
         run' \in {"idle", run} \/ (run = "decrypt" /\ run' = "scan")
  PROVE  TransportIInv'
<1>1. TransportTypes /\ Fits /\ Streams
  BY DEF TransportIInv
<1>2. UNCHANGED <<tls, agreed, active, sent, encoder, net, held, buf, offset, phase, rest, cipher, got>>
  BY DEF client, stream, decrypt
<1>3. Line' = Line
  BY <1>2 DEF Line
<1>4. TransportTypes'
  BY <1>1, <1>2 DEF TransportTypes
<1>5. Untouched'
  BY DEF Untouched
<1>6. Fits'
  BY <1>1, <1>2 DEF Fits
<1>7. Streams'
  BY <1>1, <1>2, <1>3 DEF Streams
<1>8. QED BY <1>4, <1>5, <1>6, <1>7 DEF TransportIInv


-----------------------------------------------------------------------------
(* The login. *)

\* A cipher that is announced is the one that is used.
LEMMA SelectedIsActive ==
  ASSUME NEW mac, NEW ciphers, NEW policy, NEW mode, mode = SelectCipher(mac, ciphers, policy),
         mode # "refuse"
  PROVE  mode \in {"none", "rc4", "aead"} /\ (mode # "none" => Activated(mac, mode) = mode)
  BY DEF SelectCipher, Activated

LEMMA LoginKeeps ==
  ASSUME TransportIInv, NEW o \in Offers, NEW policy \in Policies, NEW legacy \in BOOLEAN,
         HopeLogin(o, policy, legacy), active' = agreed'
  PROVE  TransportIInv'
<1> DEFINE mac == SelectMac(o.macs, legacy)
           mode == SelectCipher(mac, o.ciphers, policy)
<1>1. TransportTypes /\ Untouched /\ Fits /\ Streams
  BY DEF TransportIInv
<1>2. /\ conn = "login" /\ o.hope
      /\ \/ /\ mode # "refuse" /\ conn' = "open"
            /\ agreed' = mode /\ active' = Activated(mac, mode)
         \/ conn' = "refused" /\ UNCHANGED <<agreed, active>>
      /\ UNCHANGED <<tls, client, stream, buf, decrypt, run, got>>
  BY DEF HopeLogin
<1> HIDE DEF mac, mode
<1>3. CASE conn' = "refused" /\ UNCHANGED <<agreed, active>>
  BY <1>2, <1>3, StillKeeps
<1>4. CASE /\ mode # "refuse" /\ conn' = "open"
           /\ agreed' = mode /\ active' = Activated(mac, mode)
  <2>1. mode \in {"none", "rc4", "aead"} /\ Activated(mac, mode) = mode
    BY <1>4, SelectedIsActive DEF mode
  <2>2. UNCHANGED <<tls, sent, encoder, net, held, buf, offset, phase, rest, cipher, run, got>>
    BY <1>2 DEF client, stream, decrypt
  <2>3. /\ sent = <<>> /\ encoder = KeyStart /\ cipher = KeyStart
        /\ net = <<>> /\ held = <<>> /\ buf = <<>>
        /\ offset = 0 /\ phase = "header" /\ run = "idle" /\ got = <<>>
    BY <1>1, <1>2 DEF Untouched
  <2>4. Line' = Lined(<<>>, <<>>, <<>>, <<>>, KeyStart) /\ Len(<<>>) = 0
    <3>1. Line' = Lined(buf', held', net', sent', encoder')
      BY DEF Line
    <3>2. Len(<<>>) = 0
      BY EmptySeq
    <3>3. QED BY <2>2, <2>3, <3>1, <3>2
  <2>5. /\ Places(agreed', Line', <<>>, 0) /\ Ciphered(agreed', Line', <<>>, 0, KeyStart)
        /\ InPhase("header", rest, Line'[1], <<>>)
    <3> DEFINE m == agreed'
    <3> HIDE DEF m
    <3>1. LET l == Lined(<<>>, <<>>, <<>>, <<>>, KeyStart)
          IN  /\ Places(m, l, <<>>, 0) /\ Ciphered(m, l, <<>>, 0, KeyStart)
              /\ InPhase("header", rest, l[1], <<>>)
      BY EmptyLine
    <3>2. QED BY <2>4, <3>1 DEF m
  <2>6. Streams'
    <3>1. Line'[offset' + 1] = Line'[1] /\ Len(got') = 0
      BY <2>2, <2>3, <2>4
    <3>2. QED BY <2>2, <2>3, <2>5, <3>1 DEF Streams
  <2>7. TransportTypes'
    BY <1>1, <1>4, <2>1, <2>2 DEF TransportTypes
  <2>8. Untouched'
    BY <1>4 DEF Untouched
  <2>9. Fits'
    BY <1>1, <1>4, <2>1, <2>2, <2>3 DEF Fits
  <2>10. QED BY <2>6, <2>7, <2>8, <2>9 DEF TransportIInv
<1>5. QED BY <1>2, <1>3, <1>4

-----------------------------------------------------------------------------
(* The theorems. *)

LEMMA TransportStarts == TransportInit => TransportIInv
<1> SUFFICES ASSUME TransportInit PROVE TransportIInv
  OBVIOUS
<1>1. /\ conn = "login" /\ agreed = "none" /\ active = "none" /\ sent = <<>> /\ encoder = KeyStart
      /\ net = <<>> /\ held = <<>> /\ buf = <<>> /\ offset = 0 /\ phase = "header" /\ rest = 0
      /\ cipher = KeyStart /\ run = "idle" /\ got = <<>>
  BY DEF TransportInit
<1>2. KeyStart \in Enc
  BY DEF KeyStart, Enc
<1>3. <<>> \in Seq(Bytes) /\ <<>> \in Seq(Tran) /\ <<>> \in Seq(Nat) /\ Len(<<>>) = 0
  BY EmptySeq
<1>4. TransportTypes
  BY <1>1, <1>2, <1>3 DEF TransportTypes
<1>5. Untouched
  BY <1>1 DEF Untouched
<1>6. Fits
  <2>1. 0 <= Len(buf) /\ \A n \in 1 .. Len(got) : got[n] = n
    BY <1>1, <1>3
  <2>2. QED BY <1>1, <2>1 DEF Fits
<1>7. Streams
  <2>1. LET l == Lined(<<>>, <<>>, <<>>, <<>>, KeyStart)
        IN  /\ Places("none", l, <<>>, 0) /\ Ciphered("none", l, <<>>, 0, KeyStart)
            /\ InPhase("header", 0, l[1], <<>>)
    BY EmptyLine
  <2>2. Line = Lined(<<>>, <<>>, <<>>, <<>>, KeyStart) /\ Len(got) = 0
    BY <1>1, <1>3 DEF Line
  <2>3. QED BY <1>1, <2>1, <2>2 DEF Streams
<1>8. QED BY <1>4, <1>5, <1>6, <1>7 DEF TransportIInv

\* k is s with t at its end.
LastSent(k, s, t) ==
    /\ Len(s) \in Nat /\ DOMAIN s = 1 .. Len(s) /\ DOMAIN k = 1 .. Len(s) + 1
    /\ Len(s) + 1 \in DOMAIN k /\ k[Len(s) + 1] = t
    /\ \A n \in DOMAIN s : n \in DOMAIN k /\ k[n] = s[n]

LEMMA AppendedTo ==
  ASSUME NEW S, NEW s \in Seq(S), NEW t
  PROVE  LastSent(Append(s, t), s, t)
<1>1. Len(s) \in Nat /\ DOMAIN s = 1 .. Len(s)
  BY LenProperties
<1>2. /\ DOMAIN Append(s, t) = 1 .. Len(s) + 1 /\ Append(s, t)[Len(s) + 1] = t
      /\ \A n \in 1 .. Len(s) : Append(s, t)[n] = s[n]
  <2>1. s \in Seq(S \cup {t}) /\ t \in S \cup {t}
    <3>1. s \in [1 .. Len(s) -> S]
      BY LenProperties
    <3>2. s \in [1 .. Len(s) -> S \cup {t}]
      BY <3>1
    <3>3. QED BY <1>1, <3>2 DEF Seq
  <2>2. /\ Append(s, t) \in Seq(S \cup {t}) /\ Len(Append(s, t)) = Len(s) + 1
        /\ \A n \in 1 .. Len(s) : Append(s, t)[n] = s[n]
        /\ Append(s, t)[Len(s) + 1] = t
    BY <2>1, AppendProperties
  <2>3. QED BY <2>2, LenProperties
<1>3. \A n \in 1 .. Len(s) : n \in 1 .. Len(s) + 1
  BY <1>1
<1>4. Len(s) + 1 \in 1 .. Len(s) + 1
  BY <1>1
<1>5. QED BY <1>1, <1>2, <1>3, <1>4 DEF LastSent

LEMMA TransportSteps ==
  ASSUME TransportIInv, [TransportNext]_transportVars, active' = agreed',
         \A n \in DOMAIN sent' : Parses(n)'
  PROVE  TransportIInv'
<1>1. run # "idle" => conn # "login"
  BY DEF TransportIInv, Untouched
<1>2. conn # "lost"
  BY DEF TransportIInv, Fits
<1>3. ASSUME NEW o \in Offers, PlainLogin(o) PROVE TransportIInv'
  BY <1>3, StillKeeps DEF PlainLogin
<1>4. ASSUME NEW o \in Offers, NEW p \in Policies, NEW l \in BOOLEAN, HopeLogin(o, p, l)
      PROVE  TransportIInv'
  BY <1>4, LoginKeeps
<1>5. ASSUME NEW b \in Bodies, NEW r \in Rotations, Send(b, r) PROVE TransportIInv'
  <2> DEFINE t == [body |-> b, rot |-> r]
  <2>1. sent \in Seq(Tran) /\ sent' = Append(sent, t) /\ Tran \subseteq [body: Bodies, rot: Rotations]
        /\ t \in [body: Bodies, rot: Rotations] /\ t.body = b
    BY <1>5 DEF Send, TransportIInv, TransportTypes, Tran
  <2> HIDE DEF t
  <2>2. LastSent(sent', sent, t)
    BY <2>1, AppendedTo
  <2>3. Len(sent) + 1 \in DOMAIN sent' /\ sent'[Len(sent) + 1] = t
    BY <2>2 DEF LastSent
  <2>4. sent'[Len(sent) + 1].body >= 2
    BY <2>3 DEF Parses
  <2>5. b \in Bodies \ {0, 1}
    BY <2>1, <2>3, <2>4
  <2>6. QED BY <1>5, <2>5, SendKeeps
<1>6. CASE BufferFull
  BY <1>6, StillKeeps DEF BufferFull
<1>7. CASE ReadEvent
  BY <1>7, ReadKeeps
<1>19. CASE DecryptAstray
  <2>1. run = "decrypt" /\ Len(buf) - offset > 0 /\ buf[offset + 1].enc # cipher
    BY <1>19 DEF DecryptAstray, InPlace, Available
  <2>2. 1 \in Nat \ {0} /\ offset \in Nat /\ Len(buf) \in Nat
    BY LenProperties DEF TransportIInv, TransportTypes
  <2>3. offset + 1 <= Len(buf)
    BY <2>1, <2>2
  <2>4. Line[offset + 1] = buf[offset + 1]
    BY <2>1, <2>2, <2>3, ToDecrypt
  <2>5. Line[offset + 1].enc = cipher
    BY <2>1 DEF TransportIInv, Fits, Streams, Ciphered
  <2>6. QED BY <2>1, <2>4, <2>5
<1>8. CASE DecryptHeader
  BY <1>8, HeaderKeeps
<1>9. CASE DecryptPrefix
  BY <1>9, PrefixKeeps
<1>10. CASE DecryptRest
  BY <1>10, RestKeeps
<1>11. CASE DecryptDone
  <2>1. run = "decrypt" /\ run' = "scan" /\ UNCHANGED <<login, client, stream, buf, decrypt, got>>
    BY <1>11 DEF DecryptDone
  <2>2. UNCHANGED <<conn, tls, agreed, active>>
    BY <2>1 DEF login
  <2>3. QED BY <1>1, <1>2, <2>1, <2>2, StillKeeps
<1>12. CASE Scan
  BY <1>12, ScanKeeps
<1>13. CASE ScanDone
  <2>1. run = "scan" /\ run' = "idle" /\ UNCHANGED <<login, client, stream, buf, decrypt, got>>
    BY <1>13 DEF ScanDone
  <2>2. UNCHANGED <<conn, tls, agreed, active>>
    BY <2>1 DEF login
  <2>3. QED BY <1>1, <1>2, <2>1, <2>2, StillKeeps
<1>14. CASE OpenFrame
  BY <1>14, OpenFrameKeeps
<1>15. CASE FrameTooLarge
  BY <1>15, StillKeeps DEF FrameTooLarge
<1>16. CASE FramesDone
  <2>1. run = "frames" /\ run' = "idle" /\ UNCHANGED <<login, client, stream, buf, decrypt, got>>
    BY <1>16 DEF FramesDone
  <2>2. UNCHANGED <<conn, tls, agreed, active>>
    BY <2>1 DEF login
  <2>3. QED BY <1>1, <1>2, <2>1, <2>2, StillKeeps
<1>17. CASE UNCHANGED transportVars
  <2>1. /\ UNCHANGED <<conn, tls, agreed, active, sent, encoder, net, held, buf, offset, phase, rest, cipher>>
        /\ UNCHANGED <<run, got>>
    BY <1>17 DEF transportVars, login, client, stream, decrypt
  <2>2. Line' = Line
    BY <2>1 DEF Line
  <2>3. TransportTypes' /\ Untouched' /\ Fits' /\ Streams'
    BY <2>1, <2>2 DEF TransportIInv, TransportTypes, Untouched, Fits, Streams
  <2>4. QED BY <2>3 DEF TransportIInv
<1>18. QED
  BY <1>3, <1>4, <1>5, <1>6, <1>7, <1>8, <1>9, <1>10, <1>11, <1>12, <1>13, <1>14, <1>15, <1>16, <1>17, <1>19
     DEF TransportNext

\* What holds of every connection: nothing has been sent before the login, and
\* a cipher that was announced is used.
Begins ==
    /\ sent \in Seq([body: Bodies, rot: Rotations])
    /\ conn = "login" => active = agreed /\ sent = <<>>
    /\ agreed # "none" => active = agreed

ConnectionIInv == Begins /\ (Undisturbed => TransportIInv)

LEMMA BeginsKeeps ==
  ASSUME Begins, [TransportNext]_transportVars
  PROVE  Begins' /\ (Undisturbed' => Undisturbed)
<1>1. ASSUME NEW o \in Offers, NEW p \in Policies, NEW l \in BOOLEAN, HopeLogin(o, p, l)
      PROVE  Begins' /\ (Undisturbed' => Undisturbed)
  <2>1. sent' = sent /\ sent = <<>> /\ active = agreed /\ conn' # "login"
    BY <1>1 DEF HopeLogin, client, Begins
  <2>2. Undisturbed
    BY <2>1, EmptySeq DEF Undisturbed
  <2>3. agreed' # "none" => active' = agreed'
    BY <1>1, <2>1, SelectedIsActive DEF HopeLogin
  <2>4. QED BY <2>1, <2>2, <2>3 DEF Begins
<1>2. ASSUME NEW b \in Bodies, NEW r \in Rotations, Send(b, r)
      PROVE  Begins' /\ (Undisturbed' => Undisturbed)
  <2> DEFINE t == [body |-> b, rot |-> r]
  <2>1. t \in [body: Bodies, rot: Rotations] /\ sent' = Append(sent, t) /\ conn' = "open"
        /\ UNCHANGED <<agreed, active>>
    BY <1>2 DEF Send, login
  <2> HIDE DEF t
  <2>2. LastSent(sent', sent, t)
    BY <2>1, AppendedTo DEF Begins
  <2>3. Undisturbed' => Undisturbed
    BY <2>1, <2>2 DEF Undisturbed, Parses, LastSent
  <2>4. sent' \in Seq([body: Bodies, rot: Rotations])
    BY <2>1, AppendProperties DEF Begins
  <2>5. QED BY <2>1, <2>3, <2>4 DEF Begins
<1>3. CASE /\ UNCHANGED <<agreed, active, sent>> /\ (conn = "login" \/ conn' # "login")
  <2>1. Begins'
    BY <1>3 DEF Begins
  <2>2. Undisturbed' => Undisturbed
    BY <1>3 DEF Undisturbed, Parses
  <2>3. QED BY <2>1, <2>2
<1>4. ASSUME NEW o \in Offers, PlainLogin(o)
      PROVE  UNCHANGED <<agreed, active, sent>> /\ (conn = "login" \/ conn' # "login")
  BY <1>4 DEF PlainLogin, client
<1>5. CASE BufferFull \/ ReadEvent
  BY <1>3, <1>5 DEF BufferFull, ReadEvent, login, client
<1>6. CASE DecryptAstray \/ DecryptHeader \/ DecryptPrefix \/ DecryptRest \/ DecryptDone
  BY <1>3, <1>6 DEF DecryptAstray, DecryptHeader, DecryptPrefix, DecryptRest, DecryptDone, login, client
<1>7. CASE Scan \/ ScanDone
  <2>1. UNCHANGED <<agreed, active, sent>> /\ (conn' = conn \/ conn' = "lost")
    BY <1>7 DEF Scan, ScanDone, login, client
  <2>2. QED BY <1>3, <2>1
<1>8. CASE OpenFrame \/ FrameTooLarge \/ FramesDone
  <2>1. UNCHANGED <<agreed, active, sent>> /\ (conn' = conn \/ conn' \in {"lost", "dropped"})
    BY <1>8 DEF OpenFrame, FrameTooLarge, FramesDone, login, client
  <2>2. QED BY <1>3, <2>1
<1>9. CASE UNCHANGED transportVars
  BY <1>3, <1>9 DEF transportVars, login, client
<1>10. QED BY <1>1, <1>2, <1>3, <1>4, <1>5, <1>6, <1>7, <1>8, <1>9 DEF TransportNext

\* On a connection both of whose ends use the same cipher, and that has brought
\* only what hl_transaction_deserialize accepts, the bytes from the server's
\* buffer to the wire are always the rest of what the client sent, decrypted
\* up to decrypt_offset and from there on encrypted in the order of the
\* server's key stream, whatever the sizes of header, buffer and bodies and
\* however often keys are rotated.
THEOREM TransportInvariant == TransportSpec => []ConnectionIInv
<1>1. TransportInit => ConnectionIInv
  <2> SUFFICES ASSUME TransportInit PROVE ConnectionIInv
    OBVIOUS
  <2>1. conn = "login" /\ active = "none" /\ agreed = "none" /\ sent = <<>>
    BY DEF TransportInit
  <2>2. <<>> \in Seq([body: Bodies, rot: Rotations])
    BY EmptySeq
  <2>3. QED BY <2>1, <2>2, TransportStarts DEF ConnectionIInv, Begins
<1>2. ConnectionIInv /\ [TransportNext]_transportVars => ConnectionIInv'
  <2> SUFFICES ASSUME ConnectionIInv, [TransportNext]_transportVars PROVE ConnectionIInv'
    OBVIOUS
  <2>1. Begins' /\ (Undisturbed' => Undisturbed)
    BY BeginsKeeps DEF ConnectionIInv
  <2>2. ASSUME Undisturbed' PROVE TransportIInv'
    <3>1. TransportIInv
      BY <2>1, <2>2 DEF ConnectionIInv
    <3>2. active' = agreed' /\ \A n \in DOMAIN sent' : Parses(n)'
      BY <2>2 DEF Undisturbed
    <3>3. QED BY <3>1, <3>2, TransportSteps
  <2>3. QED BY <2>1, <2>2 DEF ConnectionIInv
<1>3. QED BY <1>1, <1>2, PTL DEF TransportSpec

\* A cipher that the negotiation reply of hl_hope_build_negotiation_reply names
\* is the one that handle_new_connection activates, for every list of MACs and
\* of ciphers and every policy.
THEOREM SameCipher == TransportSpec => []AnnouncedUsed
<1>1. ConnectionIInv => AnnouncedUsed
  BY DEF ConnectionIInv, Begins, AnnouncedUsed
<1>2. QED BY <1>1, TransportInvariant, PTL

\* On such a connection process_client_data dispatches the transactions that
\* were sent, each once and in order, and never loses its place in the stream:
\* incremental decryption, key rotation and the adjustment of decrypt_offset
\* after a dispatch agree, wherever reads cut the stream.
THEOREM StreamInStep == TransportSpec => []InStep
<1>1. ConnectionIInv => InStep
  BY InStepHolds DEF ConnectionIInv, InStep
<1>2. QED BY <1>1, TransportInvariant, PTL

\* On such a connection no byte is lost or doubled between the client and the
\* handlers, and a byte of read_buf is decrypted exactly when it is before
\* decrypt_offset.
THEOREM NoByteLost == TransportSpec => []NothingLost
<1>1. ConnectionIInv => NothingLost
  <2>1. CASE Undisturbed
    BY <2>1, NothingLostHolds DEF ConnectionIInv
  <2>2. CASE ~Undisturbed
    BY <2>2 DEF NothingLost
  <2>3. QED BY <2>1, <2>2
<1>2. QED BY <1>1, TransportInvariant, PTL
=============================================================================
