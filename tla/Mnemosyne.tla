------------------------------ MODULE Mnemosyne ------------------------------
(***************************************************************************)
(* The directory sync of mobius/mnemosyne_sync.c: the server tells a remote *)
(* index which files and news articles it has, by full syncs and by a ring  *)
(* buffer of single changes that the heartbeat timer sends.  The server is  *)
(* single-threaded and a post blocks it: while a handler's posts are under  *)
(* way (`todo' is not empty) no other handler runs, but the process can die *)
(* and the answer to any post can be lost.                                  *)
(*                                                                         *)
(* `missed' is a history variable: what the server knows, or should know,   *)
(* that it never told the index.                                            *)
(***************************************************************************)
EXTENDS Integers, Sequences, FiniteSets

CONSTANTS
    Files, Articles,  \* what users can upload and post
    QueueSize,        \* MN_INCR_QUEUE_SIZE
    MaxFailures,      \* MN_MAX_CONSECUTIVE_FAILURES
    Folders,          \* folders in the file area, which only a full sync counts
    LeftCursors,      \* may an older version have left a cursor file behind?
    MaxChanges,       \* bound: changes of the content
    MaxRestarts,      \* bound: restarts and configuration reloads
    MaxBeats          \* bound: timer ticks before the network is steady

Items == Files \cup Articles

ASSUME MnemosyneAssumption ==
    /\ Files \cap Articles = {} /\ Items # {} /\ IsFiniteSet(Items)
    /\ QueueSize \in Nat \ {0} /\ MaxFailures \in Nat \ {0}
    /\ Folders \in Nat /\ LeftCursors \subseteq BOOLEAN
    /\ {MaxChanges, MaxRestarts, MaxBeats} \subseteq Nat

VARIABLES
    disk,      \* the files that exist
    posted,    \* the active articles
    dead,      \* deleted articles, in the count until the next restart
    sync,      \* mn_sync_t, without the ring buffer
    ring,      \* incr_queue
    todo,      \* the posts that the running handler has still to make
    index,     \* the remote index
    missed,    \* history: items the index was not told about
    cursor,    \* is there a cursor file?
    steady,    \* from now on every post succeeds and every name resolves
    changes, restarts, beats   \* counters for the bounds

content == <<disk, posted, dead>>
bounds == <<changes, restarts, beats>>
vars == <<content, sync, ring, todo, index, missed, cursor, steady, bounds>>

Op == [item: Items, add: BOOLEAN]       \* a queued change
Outcome == {"ok", "unacked", "lost"}    \* of a post: unacked if only the answer is lost
FullSyncs == {<<"files", "news">>, <<"files", "news", "board">>}

Actual == disk \cup posted
FileCount == Cardinality(disk)
ArticleCount == Cardinality(posted) + Cardinality(dead)

\* What a process has in memory: sync->..., the startup delay and the two
\* cached counts.  A name that does not resolve leaves the server without sync.
Fresh(resolves) ==
    [attached |-> resolves, resolved |-> resolves, state |-> "active",
     failures |-> 0, started |-> FALSE, chunked |-> FALSE,
     files |-> 0, news |-> 0]

NoOp == CHOOSE o \in Op : TRUE
EmptyRing == [entries |-> [i \in 0 .. QueueSize - 1 |-> NoOp],
              head |-> 0, tail |-> 0, count |-> 0]
Queue(r) == [i \in 1 .. r.count |-> r.entries[(r.head + i - 1) % QueueSize]]
Queued(r) == {Queue(r)[i].item : i \in 1 .. r.count}

\* The index after the operations of s.
Apply(idx, o) == IF o.add THEN idx \cup {o.item} ELSE idx \ {o.item}
Replay(idx, s) ==
    LET after[n \in 0 .. Len(s)] ==
            IF n = 0 THEN idx ELSE Apply(after[n - 1], s[n])
    IN  after[Len(s)]

Busy == sync.attached /\ sync.state = "active"   \* neither disabled nor suspended
Resolves == IF steady THEN {TRUE} ELSE BOOLEAN

Init ==
    /\ disk \in {{}, Files} /\ posted = {} /\ dead = {}
    /\ steady = FALSE /\ cursor \in LeftCursors
    /\ \E r \in BOOLEAN : sync = Fresh(r)
    /\ ring = EmptyRing /\ todo = <<>> /\ index = {} /\ missed = Items
    /\ changes = 0 /\ restarts = 0 /\ beats = 0

-----------------------------------------------------------------------------
(* The incremental queue.  *)

\* Mutants of Push: the oldest entry is overwritten but the head stays; the
\* newest entry is sent first.
PushOver(r, o) ==
    [r EXCEPT !.entries[r.tail] = o, !.tail = (@ + 1) % QueueSize,
              !.count = IF @ < QueueSize THEN @ + 1 ELSE @]

PushFront(r, o) ==
    LET h == (r.head + QueueSize - 1) % QueueSize
        q == IF r.count >= QueueSize
             THEN [r EXCEPT !.tail = h, !.count = @ - 1] ELSE r
    IN  [q EXCEPT !.entries[h] = o, !.head = h, !.count = @ + 1]

Push(r, o) ==
    LET q == IF r.count >= QueueSize
             THEN [r EXCEPT !.head = (@ + 1) % QueueSize, !.count = @ - 1]
             ELSE r
    IN  [q EXCEPT !.entries[q.tail] = o, !.tail = (@ + 1) % QueueSize,
                  !.count = @ + 1]

\* A slot that is off the queue is never read again; the model clears it.
Pop(r) == [r EXCEPT !.entries[r.head] = NoOp, !.head = (@ + 1) % QueueSize,
                    !.count = @ - 1]

\* What a push drops off the ring.
Dropped(r) == IF r.count >= QueueSize THEN {r.entries[r.head].item} ELSE {}

\* mn_queue_file_add, mn_queue_file_remove, mn_queue_news_add: while disabled
\* or suspended the change is not recorded.
Enqueue(o) ==
    IF Busy THEN /\ ring' = Push(ring, o)
                 /\ missed' = missed \cup Dropped(ring)
            ELSE /\ missed' = missed \cup {o.item}
                 /\ UNCHANGED ring

-----------------------------------------------------------------------------
(* Users change the content, each in a handler that runs on its own. *)

Change == todo = <<>> /\ changes < MaxChanges /\ changes' = changes + 1
          /\ UNCHANGED <<index, cursor, steady, restarts, beats>>

Upload(f) ==
    /\ Change
    /\ disk' = disk \cup {f}
    /\ Enqueue([item |-> f, add |-> TRUE])
    /\ UNCHANGED <<posted, dead, sync, todo>>

\* The result of hl_file_delete is not looked at.
DeleteFile(f) ==
    /\ Change /\ f \in disk
    /\ disk' \in {disk, disk \ {f}}
    /\ IF disk' = disk /\ Busy
       THEN ring' = Push(ring, [item |-> f, add |-> FALSE])
            /\ missed' = missed \cup Dropped(ring) \cup {f}
       ELSE Enqueue([item |-> f, add |-> FALSE])
    /\ UNCHANGED <<posted, dead, sync, todo>>

PostArticle(n) ==
    /\ Change /\ n \notin posted \cup dead
    /\ posted' = posted \cup {n}
    /\ Enqueue([item |-> n, add |-> TRUE])
    /\ UNCHANGED <<disk, dead, sync, todo>>

\* Not queued; the article keeps its slot.
DeleteArticle(n) ==
    /\ Change /\ n \in posted
    /\ posted' = posted \ {n} /\ dead' = dead \cup {n}
    /\ missed' = missed \cup {n}
    /\ UNCHANGED <<disk, sync, ring, todo>>

\* mn_periodic_check, for the counts at the end of the step.
PeriodicCheck ==
    IF ~Busy \/ sync.chunked THEN UNCHANGED <<sync, todo>>
    ELSE IF FileCount' # sync.files
    THEN sync' = [sync EXCEPT !.files = FileCount'] /\ todo' = <<"files">>
    ELSE IF ArticleCount' # sync.news
    THEN sync' = [sync EXCEPT !.news = ArticleCount'] /\ todo' = <<"news">>
    ELSE UNCHANGED <<sync, todo>>

\* A move is not queued either, but checks the counts at once.
MoveFile(f, g) ==
    /\ Change /\ f \in disk /\ g \notin disk
    /\ disk' = (disk \ {f}) \cup {g}
    /\ missed' = missed \cup {f, g}
    /\ UNCHANGED <<posted, dead, ring>>
    /\ PeriodicCheck

-----------------------------------------------------------------------------
(* Timers of the event loop.  *)

Timer == todo = <<>> /\ UNCHANGED <<content, index, steady, changes>>

\* 30 s after the start.  A cursor file starts a chunked sync that no code
\* carries on.
StartupDelay ==
    /\ Timer /\ sync.attached /\ ~sync.started
    /\ sync' = [sync EXCEPT !.started = TRUE, !.chunked = @ \/ cursor]
    /\ cursor' = FALSE
    /\ \E jobs \in FullSyncs : todo' = IF cursor \/ ~Busy THEN <<>> ELSE jobs
    /\ UNCHANGED <<ring, missed, restarts, beats>>

\* Mutant of Heartbeat: the queue waits for something else.
HeartbeatOnly ==
    /\ Timer /\ sync.attached
    /\ sync' = [sync EXCEPT !.files = FileCount, !.news = ArticleCount]
    /\ todo' = <<"beat">>
    /\ steady \/ beats < MaxBeats
    /\ beats' = IF steady THEN beats ELSE beats + 1
    /\ UNCHANGED <<ring, missed, cursor, restarts>>

\* The heartbeat stores the counts of now as the ones of the last sync.
Heartbeat ==
    /\ Timer /\ sync.attached
    /\ sync' = [sync EXCEPT !.files = FileCount, !.news = ArticleCount]
    /\ todo' = <<"beat", "drain">>
    /\ steady \/ beats < MaxBeats
    /\ beats' = IF steady THEN beats ELSE beats + 1
    /\ UNCHANGED <<ring, missed, cursor, restarts>>

Periodic ==
    /\ Timer /\ Busy
    /\ steady \/ beats < MaxBeats
    /\ beats' = IF steady THEN beats ELSE beats + 1
    /\ PeriodicCheck
    /\ UNCHANGED <<ring, missed, cursor, restarts>>

\* SIGHUP.  mn_sync_reconfigure keeps the queue and ignores a failing DNS; the
\* configuration may also switch the sync off for the rest of the process.
Reload ==
    /\ Timer /\ sync.attached /\ restarts < MaxRestarts
    /\ restarts' = restarts + 1
    /\ \/ /\ \E r \in Resolves :
               sync' = [sync EXCEPT !.resolved = r, !.state = "active",
                                    !.failures = 0, !.chunked = FALSE]
          /\ todo' \in FullSyncs
          /\ UNCHANGED missed
       \/ /\ sync' = [sync EXCEPT !.attached = FALSE, !.chunked = FALSE]
          /\ missed' = missed \cup Queued(ring)
          /\ UNCHANGED todo
    /\ UNCHANGED <<ring, cursor, beats>>

-----------------------------------------------------------------------------
(* One post of the running handler.  *)

Outcomes == IF ~sync.resolved THEN {"lost"}
            ELSE IF steady THEN {"ok"} ELSE Outcome

\* mn_handle_post_result, for the state s.
AfterPost(s, out) ==
    IF out = "ok" THEN [s EXCEPT !.failures = 0]
    ELSE LET n == s.failures + 1
         IN  IF n >= MaxFailures /\ s.state = "active"
             THEN [s EXCEPT !.failures = n, !.state = "suspended", !.chunked = FALSE]
             ELSE [s EXCEPT !.failures = n]

\* The state after a post: a suspension empties the ring and ends the handler.
Conclude(s, r, rest, lost) ==
    /\ sync' = s
    /\ IF s.state = "suspended" /\ sync.state = "active"
       THEN ring' = EmptyRing
            /\ missed' = missed \cup lost \cup Queued(r)
       ELSE ring' = r /\ missed' = missed \cup lost
    /\ todo' = IF s.state = "suspended" THEN <<>> ELSE rest

\* Mutant of Beat: a success while suspended changes nothing.
BeatOnly(out) ==
    /\ Head(todo) = "beat"
    /\ IF sync.state = "suspended" THEN Conclude(sync, ring, <<>>, {})
       ELSE Conclude(AfterPost(sync, out), ring, Tail(todo), {})
    /\ UNCHANGED index

\* mn_send_heartbeat: a success while suspended resolves the name again and
\* starts a full sync.
Beat(out) ==
    LET up == [sync EXCEPT !.state = "active", !.failures = 0]
    IN  /\ Head(todo) = "beat"
        /\ IF sync.state = "suspended"
           THEN IF out = "ok"
                THEN \E r \in Resolves, jobs \in FullSyncs :
                       Conclude([up EXCEPT !.resolved = r], ring, jobs \o <<"drain">>, {})
                ELSE Conclude(sync, ring, <<>>, {})
           ELSE Conclude(AfterPost(sync, out), ring, Tail(todo), {})
        /\ UNCHANGED index

\* The index gets the whole of one kind of content.
FullPost(kind, scope, now, counted, out) ==
    /\ Head(todo) = kind
    /\ index' = IF out = "lost" THEN index ELSE (index \ scope) \cup now
    /\ IF out = "ok"
       THEN /\ sync' = counted
            /\ missed' = missed \ (scope \ Queued(ring))
            /\ todo' = Tail(todo) /\ UNCHANGED ring
       ELSE Conclude(AfterPost(sync, out), ring, Tail(todo), {})

FullFileSync(out) ==
    FullPost("files", Files, disk,
             [AfterPost(sync, "ok") EXCEPT !.files = FileCount + Folders], out)

FullNewsSync(out) ==
    FullPost("news", Articles, posted,
             [AfterPost(sync, "ok") EXCEPT !.news = Cardinality(posted)], out)

\* Message board posts are not modelled, only the result of sending them.
FullBoardSync(out) ==
    /\ Head(todo) = "board"
    /\ Conclude(AfterPost(sync, out), ring, Tail(todo), {})
    /\ UNCHANGED index

\* mn_drain_incremental_queue, one entry: it is off the ring whatever happens.
Drain(out) ==
    /\ Head(todo) = "drain" /\ ~sync.chunked /\ ring.count > 0
    /\ LET o == ring.entries[ring.head]
       IN  /\ index' = IF out = "lost" THEN index ELSE Apply(index, o)
           /\ Conclude(AfterPost(sync, out), Pop(ring), todo,
                       IF out = "ok" THEN {} ELSE {o.item})

Drained ==
    /\ Head(todo) = "drain" /\ (sync.chunked \/ ring.count = 0)
    /\ todo' = Tail(todo)
    /\ UNCHANGED <<sync, ring, index, missed>>

Post ==
    /\ todo # <<>>
    /\ \/ \E out \in Outcomes :
            \/ Beat(out) \/ FullFileSync(out) \/ FullNewsSync(out)
            \/ FullBoardSync(out) \/ Drain(out)
       \/ Drained
    /\ UNCHANGED <<content, cursor, steady, bounds>>

-----------------------------------------------------------------------------
(* The process and the network.  *)

\* The new process has an empty queue; the news store drops deleted articles.
Restarted(resolves) ==
    /\ restarts < MaxRestarts /\ restarts' = restarts + 1
    /\ sync' = Fresh(resolves)
    /\ ring' = EmptyRing /\ todo' = <<>> /\ dead' = {}
    /\ UNCHANGED <<disk, posted, cursor, steady, changes, beats>>

\* The process dies, in the middle of a handler perhaps.
Crash ==
    /\ \E r \in Resolves : Restarted(r)
    /\ missed' = missed \cup Queued(ring)
    /\ UNCHANGED index

\* mn_deregister at a shutdown takes the server off the index.
Shutdown ==
    /\ todo = <<>> /\ sync.attached
    /\ \E r \in Resolves, out \in Outcomes :
         /\ Restarted(r)
         /\ index' = IF out = "lost" THEN index ELSE {}
    /\ missed' = Items

BecomeSteady == ~steady /\ steady' = TRUE
                /\ UNCHANGED <<content, sync, ring, todo, index, missed, cursor, bounds>>

Next ==
    \/ \E f \in Files : Upload(f) \/ DeleteFile(f) \/ \E g \in Files : MoveFile(f, g)
    \/ \E n \in Articles : PostArticle(n) \/ DeleteArticle(n)
    \/ StartupDelay \/ Heartbeat \/ Periodic \/ Reload
    \/ Post
    \/ Crash \/ Shutdown \/ BecomeSteady

Spec == Init /\ [][Next]_vars

\* Every post ends, by its timeout if need be; a timer that is due is among the
\* events of the next wait, whatever the other timers' handlers do before.
Fairness == WF_vars(Post) /\ SF_vars(Heartbeat) /\ SF_vars(StartupDelay)

LiveSpec == Spec /\ Fairness

-----------------------------------------------------------------------------
(* Properties.  *)

\* The ring buffer's two ends and its count agree (incr_queue_push and
\* incr_queue_pop move them separately, a suspension resets all three).
RingOK == ring.tail = (ring.head + ring.count) % QueueSize

\* Sending what is queued brings the index up to date on everything that was
\* ever reported and not lost since: however uploads, deletes, articles, full
\* syncs, overflows, failed posts, suspensions, reloads and crashes interleave,
\* no queued change is older than what a full sync has already sent and wins.
Told ==
    \A x \in Items \ missed :
        x \in Replay(index, IF sync.attached THEN Queue(ring) ELSE <<>>) <=> x \in Actual

\* Once the network stays up, a suspended sync comes back, unless the name
\* failed to resolve at the last reload or recovery.
Recovers ==
    <>[](steady /\ sync.attached /\ sync.resolved) => <>[](sync.state = "active")

\* And from then on the index follows the server: if nothing was missed, it
\* ends up equal to the content.
Converges ==
    <>[](steady /\ sync.attached /\ sync.resolved /\ ~sync.chunked /\ missed = {})
        => <>[](index = Actual)
=============================================================================
