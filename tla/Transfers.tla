----------------------------- MODULE Transfers -----------------------------
(***************************************************************************)
(* File transfers: the handlers that approve a transfer and hand out a     *)
(* reference number (transaction_handlers_clean.c), the table of approved  *)
(* transfers (file_transfer.c), and the connections to the transfer port,  *)
(* which the event loop serves one at a time and to the end                *)
(* (handle_file_transfer_connection in server.c).                          *)
(*                                                                         *)
(* The state is one shared folder.  A file's bytes are abstracted to units *)
(* <<version, position>>, so that a mix of two uploads, a gap or a repeat  *)
(* shows.  Sizes are 32-bit counters in the code: Wire plays 2^32.  A      *)
(* reference number is the index of the grant; the code draws 32 random    *)
(* bits, and a repetition is left out.  No upload is named like another's  *)
(* unfinished file.                                                        *)
(***************************************************************************)
EXTENDS Naturals, Sequences, FiniteSets, SequencesExt

CONSTANTS
    Names,        \* the file names of the folder
    Versions,     \* what a client may upload
    SizeOf,       \* [Versions -> Nat]
    TableSizes,   \* the numbers of slots to try; HL_MAX_FILE_TRANSFERS is 128
    Wire,         \* one more than the largest 32-bit size
    Overhead,     \* the FILP, INFO and DATA headers' bytes
    MaxGrants,    \* bound on the requests
    MaxEdits,     \* bound on deletes and renames
    MaxCrashes,   \* bound on crashes of the server
    Absent,       \* no file
    Stored,       \* what the folder may hold at first: a set of [Names -> content]
    Items         \* how many items a folder upload may bring

ASSUME SizesFit == \A v \in Versions : SizeOf[v] \in Nat
ASSUME BoundsOK ==
    TableSizes \subseteq Nat \ {0} /\ Items \subseteq Nat /\ Wire \in Nat \ {0} /\ Overhead \in Nat

VARIABLES
    dir,      \* what each path of the folder holds
    grant,    \* the transfers approved so far; the index is the reference
    table,    \* the references the manager's slots hold
    ended,    \* ghost: the references that were used up, or died with the process
    conn,     \* the transfer connection being served, if any
    timed,    \* the reads and writes of conn end after 30 seconds: see Accept
    have,     \* a client's own copy of each path, from single-file downloads
    edits, crashes

others == <<timed, edits, crashes>>
vars == <<dir, grant, table, ended, conn, have, others>>

Idle == [stage |-> "idle"]
Free == 0

\* The name a file has while it is being uploaded; listings do not hide it.
Incomplete(n) == <<n, "incomplete">>
Paths == Names \cup {Incomplete(n) : n \in Names}

\* The first k units of what is uploaded, and all of them.
Part(v, k) == [i \in 1 .. k |-> <<v, i>>]
Whole(v) == Part(v, SizeOf[v])

ASSUME NamesFinite == IsFiniteSet(Names)
ASSUME PathsDiffer == \A n \in Names : Incomplete(n) \notin Names
ASSUME StoredWhole ==
    \A d \in Stored, n \in Names : d[n] = Absent \/ \E v \in Versions : d[n] = Whole(v)

Present == {p \in Paths : dir[p] # Absent}
Capped(size) == IF size < Wire THEN size ELSE Wire - 1
AtMost(a, b) == IF a < b THEN a ELSE b

\* A new process knows no transfer.
Init ==
    /\ \E d \in Stored : dir = [p \in Paths |-> IF p \in Names THEN d[p] ELSE Absent]
    /\ grant = <<>> /\ ended = {}
    /\ \E k \in TableSizes : table = [i \in 1 .. k |-> Free]
    /\ conn = Idle /\ timed = FALSE
    /\ have = [p \in Paths |-> <<>>]
    /\ edits = 0 /\ crashes = 0

-----------------------------------------------------------------------------
(* The table of transfers.  *)

\* mem_add: the first free slot; with none the caller's reference names nothing.
Add(t, r) ==
    LET free == {i \in DOMAIN t : t[i] = Free}
    IN  IF free = {} THEN t
        ELSE [t EXCEPT ![CHOOSE i \in free : \A j \in free : i <= j] = r]

\* mem_get
Known(r) == \E i \in DOMAIN table : table[i] = r

\* mem_del
Removed(t, r) == [i \in DOMAIN t |-> IF t[i] = r THEN Free ELSE t[i]]

\* The approval of a transfer, the tail of the five handlers.
Approve(g) ==
    /\ conn = Idle /\ Len(grant) < MaxGrants
    /\ grant' = Append(grant, g)
    /\ table' = Add(table, Len(grant'))
    /\ UNCHANGED <<dir, ended, conn, others>>

\* Mutant of Promised: the client's offset is not cut to the file's size.
PromisedUncut(size, asked) == (Overhead + Wire + Capped(size) - asked) % Wire

\* handle_download_file: the size promised is that of the file as it is now,
\* less what the client says it already has.
Promised(size, asked) == (Overhead + Capped(size) - AtMost(asked, Capped(size))) % Wire

\* A client waits for one download of a file before it asks for the next.
Waiting(p) ==
    \E r \in DOMAIN grant \ ended : grant[r].kind = "download" /\ grant[r].path = p

RequestDownload(p, resume) ==
    /\ dir[p] # Absent /\ ~Waiting(p)
    /\ have' = IF resume THEN have ELSE [have EXCEPT ![p] = <<>>]
    /\ LET asked == Len(have'[p])
       IN  Approve([kind |-> "download", path |-> p, asked |-> asked, resume |-> resume,
                    promised |-> Promised(Len(dir[p]), asked), was |-> dir[p]])

\* Mutant of MayUpload: an upload may start over an existing file.
MayUploadAny(n) == n \in Names

\* handle_upload_file: only the file's name is checked, not its .incomplete.
MayUpload(n) == dir[n] = Absent

RequestUpload(n) ==
    /\ MayUpload(n)
    /\ Approve([kind |-> "upload", path |-> n, was |-> dir[n]])
    /\ UNCHANGED have

\* handle_download_folder: hl_calc_item_count takes one off for the root, which
\* its walk never counts.
ItemCount == IF Present = {} THEN 0 ELSE Cardinality(Present) - 1

RequestFolderDownload ==
    /\ Approve([kind |-> "folderDown", items |-> ItemCount])
    /\ UNCHANGED have

\* handle_upload_folder: the folder may exist already, files and all.
RequestFolderUpload(k) ==
    /\ Approve([kind |-> "folderUp", items |-> k])
    /\ UNCHANGED have

\* handle_download_banner
RequestBanner ==
    /\ Approve([kind |-> "banner"])
    /\ UNCHANGED have

-----------------------------------------------------------------------------
(* The transfer port.  Every connection is served to its end before the    *)
(* loop takes another event, so approvals wait while conn is not Idle.     *)

\* A connection is accepted; its client has sent nothing yet.  SO_RCVTIMEO and
\* SO_SNDTIMEO end the reads and writes of a plain connection.  They do not over
\* TLS, whose handshake comes before them and whose reads and writes are tried
\* again, nor under AEAD, where a client can send empty frames for ever: t is
\* FALSE for these.
Accept(t) ==
    /\ conn = Idle
    /\ conn' = [stage |-> "header"] /\ timed' = t
    /\ UNCHANGED <<dir, grant, table, ended, have, edits, crashes>>

\* The connection is closed and its entry, if it has one, removed.
End(r) ==
    /\ conn' = Idle
    /\ table' = Removed(table, r)
    /\ ended' = ended \cup {r}

\* The client has named a transfer nobody granted, or one that is over.
Lookup(r) ==
    /\ conn.stage = "header" /\ ~Known(r)
    /\ conn' = Idle
    /\ ended' = ended \cup {r}
    /\ UNCHANGED <<dir, grant, table, have, others>>

\* It has named one of the table's.
Begun(r) ==
    LET g == grant[r]
    IN  CASE g.kind = "download"   -> [stage |-> "open", ref |-> r, path |-> g.path]
          [] g.kind = "upload"     -> [stage |-> "forks", ref |-> r, path |-> g.path, left |-> 0]
          [] g.kind = "folderDown" -> [stage |-> "list", ref |-> r]
          [] g.kind = "folderUp"   -> [stage |-> "item", ref |-> r, left |-> g.items]
          [] g.kind = "banner"     -> [stage |-> "banner", ref |-> r]
Start(r) ==
    /\ conn.stage = "header" /\ Known(r)
    /\ conn' = Begun(r)
    /\ UNCHANGED <<dir, grant, table, ended, have, others>>

\* handle_file_transfer_connection, banner: whatever is written, it is over.
SendBanner ==
    /\ conn.stage = "banner"
    /\ End(conn.ref)
    /\ UNCHANGED <<dir, grant, have, others>>

\* Mutant of Offset: the transfer starts at the beginning, as without resume.
OffsetZero(g, size) == 0

\* Download: the file is looked up again, its size taken again and cut to 32
\* bits, and the client's offset cut to that.
Offset(g, size) == IF g.resume THEN AtMost(g.asked, size % Wire) ELSE 0

Open ==
    /\ conn.stage = "open" /\ dir[conn.path] # Absent
    /\ LET data == dir[conn.path]
           from == Offset(grant[conn.ref], Len(data))
       IN  conn' = [stage |-> "send", ref |-> conn.ref, path |-> conn.path, data |-> data,
                    at |-> from, sent |-> 0, rest |-> {}]
    /\ UNCHANGED <<dir, grant, table, ended, have, others>>

OpenGone ==
    /\ conn.stage = "open" /\ dir[conn.path] = Absent
    /\ End(conn.ref)
    /\ UNCHANGED <<dir, grant, have, others>>

\* One buffer of the file.
SendData ==
    /\ conn.stage = "send" /\ conn.at < Len(conn.data)
    /\ conn' = [conn EXCEPT !.at = @ + 1, !.sent = @ + 1]
    /\ have' = IF grant[conn.ref].kind = "download"
               THEN [have EXCEPT ![conn.path] = Append(@, conn.data[conn.at + 1])] ELSE have
    /\ UNCHANGED <<dir, grant, table, ended, others>>

\* The whole file has been sent: a download is over, a folder's next item is due.
Sent ==
    /\ conn.stage = "send" /\ conn.at = Len(conn.data)
    /\ IF grant[conn.ref].kind = "download" THEN End(conn.ref)
       ELSE /\ conn' = [stage |-> "items", ref |-> conn.ref, rest |-> conn.rest]
            /\ UNCHANGED <<table, ended>>
    /\ UNCHANGED <<dir, grant, have, others>>

\* send_folder_recursive: the client's first action starts the listing.
List ==
    /\ conn.stage = "list"
    /\ conn' = [stage |-> "items", ref |-> conn.ref, rest |-> Present]
    /\ UNCHANGED <<dir, grant, table, ended, have, others>>

\* An item's header is sent and the client asks for the file ...
SendItem(p) ==
    /\ conn.stage = "items" /\ p \in conn.rest /\ dir[p] # Absent
    /\ conn' = [stage |-> "send", ref |-> conn.ref, path |-> p, data |-> dir[p],
                at |-> 0, sent |-> 0, rest |-> conn.rest \ {p}]
    /\ UNCHANGED <<dir, grant, table, ended, have, others>>

\* ... or skips it; or the file is gone since.
SkipItem(p) ==
    /\ conn.stage = "items" /\ p \in conn.rest
    /\ conn' = [conn EXCEPT !.rest = @ \ {p}]
    /\ UNCHANGED <<dir, grant, table, ended, have, others>>

ItemsDone ==
    /\ conn.stage = "items" /\ conn.rest = {}
    /\ End(conn.ref)
    /\ UNCHANGED <<dir, grant, have, others>>

\* Folder upload: the next item's header names a file of the folder.
NextItem(n) ==
    /\ conn.stage = "item" /\ conn.left > 0
    /\ conn' = [stage |-> "forks", ref |-> conn.ref, path |-> n, left |-> conn.left - 1]
    /\ UNCHANGED <<dir, grant, table, ended, have, others>>

NoMoreItems ==
    /\ conn.stage = "item" /\ conn.left = 0
    /\ End(conn.ref)
    /\ UNCHANGED <<dir, grant, have, others>>

\* Mutant of Emptied: without O_TRUNC.
EmptiedNot(path) == IF dir[Incomplete(path)] = Absent THEN <<>> ELSE dir[Incomplete(path)]

\* Upload: FILP, INFO and DATA headers have come; .incomplete is opened with
\* O_TRUNC, so nothing of an earlier attempt stays.
Emptied(path) == <<>>

Forks(v) ==
    /\ conn.stage = "forks"
    /\ conn' = [stage |-> "body", ref |-> conn.ref, path |-> conn.path, left |-> conn.left,
                version |-> v, got |-> 0]
    /\ dir' = [dir EXCEPT ![Incomplete(conn.path)] = Emptied(conn.path)]
    /\ UNCHANGED <<grant, table, ended, have, others>>

\* One buffer is read and written at the file's next position.
Overwritten(s, i, u) == IF i > Len(s) THEN Append(s, u) ELSE [s EXCEPT ![i] = u]

Body ==
    /\ conn.stage = "body" /\ conn.got < SizeOf[conn.version]
    /\ conn' = [conn EXCEPT !.got = @ + 1]
    /\ dir' = [dir EXCEPT ![Incomplete(conn.path)] =
                  Overwritten(@, conn.got + 1, <<conn.version, conn.got + 1>>)]
    /\ UNCHANGED <<grant, table, ended, have, others>>

\* All of it has come: rename() puts it in place of whatever has the name now.
Publish ==
    /\ conn.stage = "body" /\ conn.got = SizeOf[conn.version]
    /\ dir' = [dir EXCEPT ![conn.path] = dir[Incomplete(conn.path)],
                          ![Incomplete(conn.path)] = Absent]
    /\ IF grant[conn.ref].kind = "upload" THEN End(conn.ref)
       ELSE /\ conn' = [stage |-> "item", ref |-> conn.ref, left |-> conn.left]
            /\ UNCHANGED <<table, ended>>
    /\ UNCHANGED <<grant, have, others>>

\* Mutant of Failed: the error exits keep the entry, for another attempt.
FailedKeeps(r) == conn' = Idle /\ ended' = ended \cup {r} /\ UNCHANGED table

\* A read or write fails, the client hangs up, or nothing moves for 30 seconds
\* on a timed connection: the connection is closed.  An upload that has written
\* all its bytes ends so when rename() fails.
Failed(r) == End(r)

\* Mutant of Blocked: the header is read without a timeout.
BlockedLater == conn.stage \notin {"idle", "header"}
Blocked == conn.stage # "idle"

Fail ==
    /\ Blocked
    /\ IF conn.stage = "header" THEN conn' = Idle /\ UNCHANGED <<table, ended>>
       ELSE Failed(conn.ref)
    /\ UNCHANGED <<dir, grant, have, others>>

-----------------------------------------------------------------------------
(* What else happens to the folder and to the process.  *)

Edit == conn = Idle /\ edits < MaxEdits /\ edits' = edits + 1
        /\ UNCHANGED <<grant, table, ended, conn, timed, have, crashes>>

\* What goes with a path: an unfinished file has none of its own here.
Taken(p) == {p} \cup IF p \in Names THEN {Incomplete(p)} ELSE {}
Without(gone) == [p \in Paths |-> IF p \in gone THEN Absent ELSE dir[p]]

\* handle_delete_file: the file and what is left of an upload of its name.
DeleteFile(p) == Edit /\ dir' = Without(Taken(p))

\* handle_move_file, to another folder: hl_file_move takes both along if the
\* file exists, and the .incomplete alone otherwise.
MoveAway(p) ==
    /\ Edit
    /\ Taken(p) \cap Present # {}
    /\ dir' = Without(Taken(p))

\* handle_set_file_info: rename() over whatever has the new name, and without
\* the .incomplete, which can be renamed by itself, and renamed to.
RenameFile(p, q) ==
    /\ Edit
    /\ dir[p] # Absent /\ p # q
    /\ dir' = [dir EXCEPT ![q] = dir[p], ![p] = Absent]

\* The process dies, in the middle of a transfer perhaps, and starts again.
Crash ==
    /\ crashes < MaxCrashes /\ crashes' = crashes + 1
    /\ conn' = Idle
    /\ table' = [i \in DOMAIN table |-> Free]
    /\ ended' = DOMAIN grant
    /\ UNCHANGED <<dir, grant, timed, have, edits>>

Serve ==
    \/ \E r \in DOMAIN grant : Lookup(r) \/ Start(r)
    \/ SendBanner \/ Open \/ OpenGone \/ SendData \/ Sent
    \/ List \/ ItemsDone \/ \E p \in Paths : SendItem(p) \/ SkipItem(p)
    \/ NoMoreItems \/ \E n \in Names : NextItem(n)
    \/ Body \/ Publish \/ \E v \in Versions : Forks(v)
    \/ Fail

Next ==
    \/ \E p \in Paths, resume \in BOOLEAN : RequestDownload(p, resume)
    \/ \E n \in Names : RequestUpload(n)
    \/ RequestFolderDownload \/ RequestBanner
    \/ \E k \in Items : RequestFolderUpload(k)
    \/ \E t \in BOOLEAN : Accept(t)
    \/ Serve
    \/ \E p \in Paths : DeleteFile(p) \/ MoveAway(p) \/ \E q \in Paths : RenameFile(p, q)
    \/ Crash

Spec == Init /\ [][Next]_vars

\* A read or a write of a timed connection returns, with data or without.  The
\* others may wait for their client for ever.
LiveSpec == Spec /\ WF_vars(timed /\ Serve)

-----------------------------------------------------------------------------
(* Properties.  *)

Units == Versions \X Nat

Contents == {Absent} \cup Seq(Units)

Grant ==
    [kind : {"download"}, path : Paths, asked : Nat, resume : BOOLEAN, promised : Nat, was : Contents]
    \cup [kind : {"upload"}, path : Names, was : Contents]
    \cup [kind : {"folderDown"}, items : Nat]
    \cup [kind : {"folderUp"}, items : Items]
    \cup [kind : {"banner"}]

\* The connections of each stage, and what kinds of transfer may be in it.
Refs(kinds) == {r \in DOMAIN grant : grant[r].kind \in kinds}
Conn ==
    {Idle} \cup [stage : {"header"}]
    \cup [stage : {"banner"}, ref : Refs({"banner"})]
    \cup [stage : {"open"}, ref : Refs({"download"}), path : Paths]
    \cup [stage : {"send"}, ref : Refs({"download", "folderDown"}), path : Paths, data : Seq(Units),
          at : Nat, sent : Nat, rest : SUBSET Paths]
    \cup [stage : {"list"}, ref : Refs({"folderDown"})]
    \cup [stage : {"items"}, ref : Refs({"folderDown"}), rest : SUBSET Paths]
    \cup [stage : {"item"}, ref : Refs({"folderUp"}), left : Nat]
    \cup [stage : {"forks"}, ref : Refs({"upload", "folderUp"}), path : Names, left : Nat]
    \cup [stage : {"body"}, ref : Refs({"upload", "folderUp"}), path : Names, left : Nat,
          version : Versions, got : Nat]

TypeOK ==
    /\ dir \in [Paths -> Contents] /\ have \in [Paths -> Seq(Units)]
    /\ grant \in Seq(Grant) /\ ended \subseteq DOMAIN grant
    /\ table \in [DOMAIN table -> {Free} \cup DOMAIN grant]
    /\ conn \in Conn /\ (conn.stage \notin {"idle", "header"} => conn.ref \notin ended)

\* What appears under a file's own name is one upload, whole: whatever uploads
\* of the name failed, were cut off by a crash, raced each other for it, or were
\* deleted and begun again, no transfer shows half a file or two uploads mixed.
\* Only a user's rename does, of a file that is still .incomplete.
FilesWhole ==
    [][\A n \in Names :
           dir'[n] \notin {dir[n], Absent} =>
               \/ \E v \in Versions : dir'[n] = Whole(v)
               \/ /\ edits' # edits
                  /\ \E p \in Paths : dir'[n] = dir[p] /\ dir'[p] = Absent]_vars

\* A download resumed after a break joins up with what the client has: no byte
\* is missing or repeated, unless the file was replaced in between (the client
\* then holds bytes of two files, and nothing in the protocol tells it).
JoinsUp ==
    \A p \in Paths, v \in Versions :
        (\A i \in DOMAIN have[p] : have[p][i][1] = v) => IsPrefix(have[p], Whole(v))

\* A download sends what was promised when it was approved, resumed or not, if
\* the file is still the same (handle_download_file computes the size once,
\* handle_file_transfer_connection again from the file).
PromiseKept ==
    conn.stage = "send" /\ conn.at = Len(conn.data) =>
        LET g == grant[conn.ref]
        IN  g.kind = "download" /\ g.was = conn.data => Overhead + conn.sent = g.promised

\* A reference is good for one connection: none of the exits of the transfer
\* handler leaves its slot taken.
SlotsFreed == \A i \in DOMAIN table : table[i] \notin ended

\* A file that is there changes only by a delete, a move or a rename, by a
\* folder upload that brings its name, or by an upload that was approved before
\* the file was there: no upload replaces a file its client could have seen.
KeptFiles ==
    [][\A n \in Names :
           dir[n] # Absent /\ dir'[n] # dir[n] =>
               \/ edits' # edits
               \/ /\ conn.stage = "body" /\ conn.path = n
                  /\ LET g == grant[conn.ref]
                     IN  g.kind = "folderUp" \/ g.was = Absent]_vars

\* A client that stalls on a timed connection does not keep the event loop: a
\* half-sent header must not wedge the server (server.c, the comment on the
\* timeouts, which says it of every connection).
Released == conn.stage # "idle" /\ timed ~> conn.stage = "idle"
=============================================================================
