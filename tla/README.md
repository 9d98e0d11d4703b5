# Lemoniscate: models and proofs

Lemoniscate is a Hotline server: one process, one thread of its own logic, a
few hundred users. This directory holds TLA+ models of it, the TLC
configurations that check them on small instances and the TLAPS proofs about
them. Paths below are relative to the repository (`src/` there is `src/src/`
in `PROJECT.json`, which lists every component, run, mutant, theorem and hazard
and maps each definition to the lines it models).

1. [Inventory](#1-inventory)
2. [Modules](#2-modules)
3. [State and actions of each module](#3-state-and-actions-of-each-module)
4. [Runs](#4-runs), with bounds and fairness
5. [Proofs](#5-proofs)
6. [What the code does and a reader may not expect](#6-what-the-code-does-and-a-reader-may-not-expect)
7. [Not modelled](#7-not-modelled)
8. [Next](#8-next)

## 1. Inventory

| Component | Code | State it keeps | Operations | Talks to |
|---|---|---|---|---|
| Session layer | `src/hotline/server.c`, `client_manager.c`, `client_conn.c`, `platform/event_epoll.c` | epoll interest list, `loop->udata`, list of sessions, ids, statistics | poll, accept and login, read and dispatch, disconnect, away timer | everything below |
| User handlers | `src/mobius/transaction_handlers_clean.c` | profile and flags in the session | agreed, set info, user list, kick, messages, broadcast | client manager, chat rooms |
| Private chat | `src/hotline/chat.c` | 64 rooms of 64 member pointers, subjects | create, invite, join, leave, reject, subject, send | holds session pointers |
| Chat history | `src/hotline/chat_history.c` | one JSONL file per channel, an in-memory index, `next_id` | append, query, tombstone, prune, fsync, open | chat, timers, disk |
| Mnemosyne sync | `src/mobius/mnemosyne_sync.c` | ring of 64 changes, failure count, state, cached counts, cursor file | full sync, heartbeat, drift check, drain, reload | HTTP, timers, files, news, board |
| HOPE, framing | `src/hotline/hope.c`, `transaction.c`, the read path of `server.c` | negotiated cipher, its key and counter, receive buffer | negotiate, decrypt, open a frame, scan | login, every read |
| File transfers | `src/hotline/file_transfer.c`, `files.c`, `server.c` | table of reference numbers, `.incomplete` files | request, transfer, resume, folder walk | handlers, transfer port |
| Rate limits and bans | `server.c`, `src/mobius/ban_file.c` | a token bucket per address, ban list and its file | check, refuse, auto-ban, load | accept, login |
| Accounts | `src/mobius/yaml_account_manager.c`, `src/hotline/password.c` | array of records, one YAML file each | log in, create, edit, rename, delete | sessions hold pointers into the array |
| Threaded news | `src/mobius/threaded_news_yaml.c`, `dir_threaded_news.c` | categories, articles, ids, a directory of JSON files | post, create, delete, save, migrate, load | handlers, Mnemosyne |
| Message board | `src/mobius/flat_news.c`, `jsonl_message_board.c` | a text or a JSONL file and what users are shown | post, migrate, load | handlers, Mnemosyne |
| Configuration, TLS, tracker, GUI, PowerPC port | | | | not modelled, see section 7 |

Where the difficulty is:

* **One thread, many borrowed pointers.** Sessions are plain heap objects. The
  epoll back end, the client manager, chat rooms and (through `cc->account`)
  the account array all hold pointers nobody counts; a batch of up to 64
  events is fetched with the pointers it will use later.
* **Descriptor numbers.** A kick closes a number the session goes on using;
  `accept()` may return it again in the same batch.
* **Byte streams.** A transaction may be cut anywhere by reads, TLS records and
  AEAD frames, while a stream cipher moves on with every byte and changes its
  key in the middle of one.
* **Blocking calls.** Sockets stay in blocking mode; TLS handshakes and reads,
  writes to a user, the file-transfer handler and the sync's HTTP requests stop
  everybody else, some of them without a limit.
* **Files without transactions.** History, accounts, bans, news, the board and
  the sync cursor are rewritten in place, appended to or renamed; the process
  may die between any two calls, the disk may be full in any one, and most
  callers look at neither.
* **Formats by hand.** JSON and YAML are written and read by small functions of
  the server's own, which do not always read what they wrote.
* **Approval and use.** A transfer is approved on one connection and made on
  another, later; the file may have changed in between.
* **Retries and queues.** Mnemosyne drops, queues, suspends and resumes.
* **Time.** Buckets and windows are computed from a wall clock that may be set
  back.

What makes each component correct is what the properties of its module say;
`hazards` in `PROJECT.json` lists what can go wrong, where, and which property
covers it.

## 2. Modules

| Module | Role |
|---|---|
| `Users` | the table of users: what `Sessions` promises to the components above it |
| `Sessions` | the session layer; implements `Users` |
| `PrivateChat` | private rooms; extends `Users` |
| `ChatLog` | the log a chat history promises |
| `ChatQuery` | the cursor windows of a history query, with a reference definition |
| `ChatHistory` | the history store with its file, index, prunes, stops and power failures; extends `ChatQuery`, implements `ChatLog` |
| `Mnemosyne` | the directory sync against a remote index |
| `Transport` | HOPE negotiation, and bytes that become transactions again |
| `Transfers` | approval and transfer of files over a shared folder |
| `Admission` | who gets past `accept()`: buckets, bans and the ban file |
| `Accounts` | the account array, its files, the editors and the pointers into it |
| `News` | threaded news in memory, in its directory and in the old YAML file |
| `Board` | the message board in its text file and its JSON file |
| `MCx` | constants and symmetry of the small instances of module `x` |
| `MCConnection` | the instances of `Transport` and `Admission`, checked in one run: they share no variable, and `part` says which of the two moves in a behaviour |
| `MCStorage` | the same for `News` and `Board` |
| `xProofs` | inductive invariants and theorems about module `x`, for every value of the constants; `NewsProofs` is also about `Board`, `SessionsProofs` about the refinement of `Users` |
| `ConnectionProofs` | the same for `Admission` and `Transport`; where two modules are extended together, the second prefixes the names both would define (`TransportInit`, `BoardInit`) |

Three abstract specifications stand above detailed ones: `Users` above
`Sessions` (mapping `uids`), `ChatLog` above `ChatHistory` (mapping `Log`), and
in `ChatQuery` the set `Wanted` above the windows the code computes. Both
refinements are checked by TLC and proved. `PrivateChat` is composed with the
session layer through `Users`: it extends the promise, not the event loop.

A definition named after another one with a suffix (`PushOver`, `BeatOnly`,
`MayUploadAny`) is a mutant: the same step with a plausible bug. Each property
has at least one that TLC finds to violate it (`mutants` in `PROJECT.json`).

## 3. State and actions of each module
### Sessions

| State | Code |
|---|---|
| `sock` | the process's descriptor table: which TCP connection a number is |
| `watched`, `udata` | epoll interest list, `loop->udata` (`event_epoll.c`) |
| `batch` | the `events[]` of the current poll not served yet |
| `heap` | `hl_client_conn_t` objects by address; freed by `hl_client_conn_free` |
| `mgr`, `nextId` | `client_node_t` list and `next_id` of `client_manager.c` |
| `connected` | `HL_STAT_CURRENTLY_CONNECTED` |
| `remote` | the other end of each connection |
| `listed`, `view` | what each connected user's program displays |

A session record keeps `cc->fd` (`fd`, which a kick sets to -1), the number
inside `cc->conn` (`conn`, which it leaves), the away flag, the ordinal of its
login (`born`, whose value modulo `IdSpace` is the client id) and the peer who
logged in (`owner`, which selects the account). `told` and `owner` serve the
properties; the code reaches the same facts through the account and the name.
`RemoteState` is what a peer's connection can be: none, in the backlog, quiet,
with a transaction to read, ended or reset.

`Poll` is `hl_event_poll`; `Serve(e)` is one turn of the dispatch in
`hl_server_listen_and_serve`: `Accept` (`handle_new_connection` to its end:
`Refuse`, `Login`, `LoginUnwatched`, or `AcceptFails`, for want of a descriptor
or of memory),
`IdleTick`, `Disconnect` (`disconnect_client`) and `ReadEvent`
(`process_client_data`, whose requests are `KeepAlive`, `GetUserNameList`,
`SetUserInfo`, `Kick` and `KickRefused`). `Dial`, `Send`, `HangUp` and `Reset`
are the peers.

Abstractions: one transaction per read; authentication, bans and rate limits
are the choice between `Refuse` and `Login`; the members of a batch are served
in any order (epoll promises none); file transfers and the other timers of the
loop, which change nothing here, are left out. A call that waits for its peer
(the TLS handshake in `accept`, a TLS read, a write to a user who does not
read) is a step that is not taken. The code bounds none of these waits, so the
specification has no fairness and no liveness is claimed of the event loop.

`ViewsAgree` says that users display the client manager's list. A kick leaves
its target in that list and tells nobody, so the target stays displayed, with
the status it had. That this is not what the specification of user management
says is the finding of `sessions_kick` (`KickedGone`).

### Users and PrivateChat

`Users` is the interface between the session layer and the components that
hold session pointers: an address is taken by a login under the next id and
free again after a logout. `Sessions` implements it (`ImplementsUsers`, with
`uids` as the refinement mapping; checked by `sessions` and proved in
`SessionsProofs`), so `PrivateChat` can extend `Users` instead of the whole event
loop.

| State | Code |
|---|---|
| `uid`, `logins` | `cc->id` of the session at each address, `mgr->next_id` |
| `chats` | the active entries of `chats[]` in `chat.c`: `members[]` with `member_ids[]`, `subject` |
| `used` | ids given so far: new ids are random and assumed unused |
| `shows` | the windows and invitations of each user's program |

Each handler of transactions 112 to 116 and 120 is an action; `Joined`, `Left`
and `Members` are the functions of `chat.c` they call. `Reach` is where a
message to a member list goes: to the sessions that are at the addresses now.
`Arrive` and `Depart` do not touch `chats`, as in the code: users come, go, join
a room they are in and join one that is full as they like. What that does to a
room is that the code is no longer right about it: after a disconnect it keeps a
pointer to a freed session (`server.c:505-541`), which a later session may take
over; a second join adds a second entry (`chat.c:122`), of which a leave removes
one; and a join that found the room full is announced all the same. The history
variable `spoiled` has the rooms this happened to. `RosterAgrees` speaks of the
others, and says that the damage does not spread: neither a stale entry of
another room nor a session at a reused address disturbs them. The disconnect is
the finding of `chat_quit` (`MembersLive`).

### ChatHistory

| State | Code |
|---|---|
| `dir`, `data` | the directory `ChatHistory/`: which inode `channel-0.jsonl` ("log") and its `.tmp` name, and the lines in each |
| `torn`, `synced` | half a line at the end of the log; how much of it an `fsync` has covered |
| `tombs` | `tombstones.jsonl` and `ctx->tombstones` |
| `slots` | `ctx->channels`: index and open stream of each slot |
| `nextId` | `ctx->next_id` |
| `prune` | program counter and new index of `lm_chat_history_prune` |
| `said`, `safe` | history variables for the properties |

`Open` is `lm_chat_history_open` with `lm_discover_channels` and
`lm_channel_scan`, followed by the prune `main.c` runs at start-up; `Say` and
`SayTooLong` are `lm_chat_history_append`; a prune is one action per file
operation (`PruneSkip`, `PruneWrite`, `PruneRename`, `PruneDone`) because the
process may die between them, while nothing else of the single thread runs
(`Serving`). Streams are inodes and reads are by name, as in the code, so a
slot can go on appending to a file that a rename has replaced. Lines have
equal length. `Answer` is what a query returns; `ChatQuery` holds its window,
with unsigned arithmetic, and `Wanted`, the set of messages a reader of the
protocol expects.

`ChatLog` is the promise: `Say` stores a message under an id above all earlier
ones, `Retain` lets the oldest go once there are too many, `Flush` makes sure
of what is there, `Hide` marks a message deleted, and a `PowerFailure` takes
the latest messages, but none of those that are `sure`. A restart is invisible.
`Log` is the refinement mapping; an `fsync` is a `Flush`, and a rename by a
prune a `Retain`.

Three constants switch on what the promise does not survive; they are off in
the run. With `UseDays` the store does not implement its log: when all messages
have expired and the server restarts, ids start again at 1
(`chat_history.c:569`), and tombstones of the old messages hide the new ones.
With `PruneDies` a `.tmp` file left by a process that died in a prune is opened
as a second channel 0 (`chat_history.c:404`), the first prune then replaces the
file under the second slot, and `IndexReads` fails. With `DiskFull` a prune
renames a file over the log that lacks messages it should keep, under an index
that has them (`chat_history.c:841`), and both properties fail.

Abstractions: one channel, since the server writes and offers channel 0 only;
time enters as the choice of how many lines are older than the limit; a power
failure takes any suffix of the lines no `fsync` has covered, while renames and
creations are on the disk at once.

### Mnemosyne

| State | Code |
|---|---|
| `disk`, `posted`, `dead` | the files, the active articles, the deleted ones that still count until a restart |
| `sync` | `mn_sync_t` without its ring: attached to the server, name resolved, state, failures, cached counts, start-up delay, chunked sync |
| `ring` | `incr_queue`: entries, head, tail and count |
| `todo` | the HTTP posts that the handler being run has still to make |
| `index` | what the remote index believes |
| `cursor` | `mnemosyne-cursor.json` |
| `missed` | history: what the index was never told, as far as the server knows or should know |
| `steady` | from now on the network works |

`Upload`, `DeleteFile`, `MoveFile`, `PostArticle` and `DeleteArticle` are the
handlers of the users' requests; what they queue is what they call
(`mn_queue_file_add`, `mn_queue_file_remove`, `mn_queue_news_add`), and a move
runs `mn_periodic_check` at once. `StartupDelay`, `Heartbeat` and `Periodic`
are the timers, `Reload` is `mn_sync_reconfigure`. A handler first fills
`todo`; then each `Post` is one blocking HTTP request with one of three
outcomes (`ok`, `unacked`: it arrived and the answer was lost, `lost`), and a
`Crash` may come between any two. `AfterPost` is `mn_handle_post_result`:
failures are counted, and the `MaxFailures`-th suspends the sync and empties
the ring. A `Beat` that succeeds while suspended resumes with a full sync.

Abstractions: items are names, the JSON of a post is the set of items it tells
of; a move is one name to another, without its folder; the board's posts are
only sent, their content does not matter here; a full file sync counts
`Folders` more than the heartbeat does, as in the code.

### Transport

| State | Code |
|---|---|
| `agreed`, `active` | the cipher named in the negotiation reply, and the one activated |
| `sent`, `encoder` | the client: what it sent and its cipher state |
| `net`, `held` | bytes on the way; bytes the TLS library has read and not handed out |
| `buf`, `offset`, `phase`, `rest` | `read_buf`, `decrypt_offset`, `decrypt_phase`, `body_rest_remaining` |
| `conn` | at the login, open, refused, dropped, or `lost`: the server takes bytes for others than they are |
| `cipher` | the server's key generation and position, or `recv_counter` |
| `run`, `got` | what the read event in progress does next; what was dispatched |

`HopeLogin` and `PlainLogin` end the negotiation: `SelectMac`
(`hl_hope_select_best_algorithm`), `SelectCipher` (the reply) and `Activated`
(`server.c`) are pure functions over every offer (any set of MACs and of
ciphers), policy and legacy switch.
Then the client `Send`s; `ReadEvent` takes any part of what has arrived, and
the steps of one event follow the code: `DecryptHeader`, `DecryptPrefix`,
`DecryptRest`, `DecryptDone` (`hl_hope_decrypt_incremental`), `Scan` and
`ScanDone` (`hl_transaction_scan` and `hl_hope_adjust_offset`), or `OpenFrame`,
`FrameTooLarge` and `FramesDone` for AEAD; `BufferFull` gives a connection up.
`DecryptHeader` and `DecryptPrefix` have the branches of a body of 0, 1 and 2
bytes (`hope.c:1200-1205`).

A byte is its transaction, its offset and the key generation and position (or
nonce) it was encrypted with; decrypting it with any other state garbles it for
good, so a single step out of place shows as `conn = "lost"` (`DecryptAstray`,
`Scan`, `OpenFrame`). A transaction with fewer than two bytes after its header
stands for any that `hl_transaction_deserialize` refuses (`Parses`): it empties
the buffer and leaves `decrypt_offset` as it was (`server.c:697`). The ciphers
and MACs themselves, and the direction from the server to the client, are left
out.

`InStep`, `NothingLost` and `Delivered` are about connections that are
`Undisturbed`: both ends use the same cipher and all that was sent parses. The
others are in the model: one that negotiated a MAC and no cipher is encrypted by
one end only (the finding of `hope`, `AgreedTransport`), and after a transaction
that does not parse an RC4 stream is out of step. That a cipher which was
announced is the one used holds of all of them (`AnnouncedUsed`).

### Transfers

| State | Code |
|---|---|
| `dir` | the folder: what each path, the `.incomplete` ones included, holds |
| `grant`, `table` | approved transfers, and the slots of `hl_mem_xfer_mgr_t` that hold their references |
| `conn` | the connection to the transfer port being served, by stage |
| `timed` | ghost: do the reads and writes of this connection end after 30 seconds? |
| `have` | each client's own copy |
| `ended` | ghost: references used up |

`RequestDownload`, `RequestUpload`, `RequestFolderDownload`,
`RequestFolderUpload` and `RequestBanner` are the five handlers. `Accept` and
the actions of `Serve` are `handle_file_transfer_connection` from header to
exit, one action per file or socket operation at which it can be cut off, with
`Fail` for every error exit; `Publish` is the final `rename()`. `DeleteFile`,
`MoveAway` and `RenameFile` run between approval and transfer, on unfinished
files too (`handle_set_file_info` renames `x.incomplete` as it does any other),
and `Crash` at any moment. `Accept` leaves open whether the connection is
`timed`: `SO_RCVTIMEO` and `SO_SNDTIMEO` end the calls of a plain one, but not
the TLS handshake, which comes first, nor TLS reads and writes, which are tried
again (`tls_openssl.c:143-147`, `167-171`), nor the loop over empty AEAD frames
(`hope.c:1133-1150`). Contents are sequences of units `<<version, position>>`, so a mix
of two uploads, a gap or a repetition shows. Sizes are cut modulo `Wire`, the
2^32 of the wire. A reference is the index of its grant: the code draws 32
random bits, and their collision is left out, as are sub-folders (flattened)
and resource forks (counted with the header).
No upload is itself named like another's unfinished file.

### Admission

| State | Code |
|---|---|
| `limiters` | `hl_rate_limiter_t` of each address: tokens, last refill, violations and their window, `auto_banned` |
| `bans`, `file` | `hl_ban_file_t` in memory and on disk |
| `up`, `autoBan` | the server runs; `auto_ban_enabled` |
| `last` | ghost: the connection this step decided |
| `sinceTry`, `sinceAdmit`, `refusals`, `punished`, `torn` | ghosts: clocks and deeds that the properties compare with |

A connection is `Drop`ped (`drop_if_banned`), `Admit`ted or `Refuse`d
(`hl_server_rate_limit_check`, which may end in `ban_add` and `ban_save`).
`Tick` is a second, `SetBack` a clock set back, `Edit` the operator's editor on
the file, `Stop` and `Start` the process. Tokens are counted in `Interval`-ths
of one; the doubles of the code differ by rounding only. Points in time are
kept as the time since them, up to where it no longer matters (`Full`, `Over`).

### Accounts

| State | Code |
|---|---|
| `slots`, `count` | `accounts[256]`, `account_count` |
| `files` | `Users/<login>.yaml` |
| `bound` | which slot each session's `cc->account` points to |
| `hope` | `enable_hope`, by which passwords are stored plain or hashed |
| `as`, `moved`, `clash` | ghosts: who logged in as whom, whose slot a deletion shifted, whether a rename hit a login in use |
| `cred` | ghost: the password last set for each login, while it is known |
| `adrift` | ghost: the logins whose file is not what is in force |

`Login` and `HopeLogin` are the two verifications; `NewUser`, `SetUser`,
`UpdateUser` and `DeleteUser` are the handlers, with `Created`, `Updated` and
`ShiftedDown` for `yaml_create`, `yaml_update` and `yaml_del`.

`Write` is memory and `write_account_yaml` together, and `File` is what the
latter does to the disk. Nobody looks at its result: the file may not be opened,
and stays as it was, or may not be written in full, and is `Cut` behind the
login or the password (`yaml_account_manager.c:157`, `259`, `279`). When it is
written, it is `AsRead`: login, name and password go into the YAML as they are
(160-162), so a password with a quote or a backslash reads back as another, and a
login that means something in YAML, or whose account has a name that does, as
no more than a login or nothing. `Odd` has the values this is so of, and a
parser's choice among the possible readings is left open. `DeleteUser` may fail
to remove the file, and a rename leaves the file of the old login. The process
may also die between emptying the file and filling it. All of these are
answered as successes, and put the login into `adrift`; the next write of its
file takes it out.

`Start` reads the files in any order, up to `MaxAccounts`; what was read is in
force from then on, and the passwords of logins that were adrift are no longer
known (`cred`). The editors look through their own pointer (`Authorized`), so a
shifted pointer changes what they may do, in the model as in the code. Access is
one of two values, and a batch edit is its entries one after the other.

### News

| State | Code |
|---|---|
| `mem` | `mobius_threaded_news_t` |
| `made`, `disk` | the directory `News/` and its files |
| `yaml` | `ThreadedNews.yaml`, until it is renamed, and whether it parses to its end |
| `posted` | ghost: accepted and not deleted since, or left unwritten by a process that ended |
| `failed` | ghost: the files this process could not write when it last tried |

`PostNewsArt`, `NewNewsCat`, `DelNewsItem` and `DelNewsArt` change memory and
then `Save` all of it; a crash leaves any part of the files written (`Written`).
Of a save some writes may fail (`Tried`), for one cause: the files cannot be
opened and are passed over (`dir_threaded_news.c:262`), or are not written in
full and renamed over the good ones all the same (305-310; `Spoilt`): of a
`short` file the id is left, of an `empty` one nothing. The request is answered
like any other, the article is served, and lasts until the process ends unless
a later save makes the file good (`failed`, `Unwritten`).

`StartFromDirectory`, `Migrate` and `StartEmpty` are the three ways to start.
Nothing is ever unlinked; a restart reads what is there, at most `MaxCategories`
and `MaxArticles` of it, in the order the directory gives (`SomeOf`). `Migrate`
begins with what `tn_load` makes of the YAML file (`FromYaml`): an article above
the limit writes its fields over the last one taken (`threaded_news_yaml.c:279`),
and a parse error ends the reading as if the file ended there, in the middle of
an article perhaps (236; `Readings`). The file is renamed all the same. `Kept`
therefore speaks of the articles of such a file only while it is `Readable`: a
property without that would be false, as section 6 says.

Title, poster, date and body are one text. A file in the form "spaced" is one
this server wrote, and is read back `Blank`: see `news_blank`.

### Board

| State | Code |
|---|---|
| `txt`, `jsonl` | `MessageBoard.txt` and `MessageBoard.jsonl` |
| `phase`, `backend`, `shown` | start-up or serving; which file `fn->file_path` is; the posts listed in `fn->data` |
| `boardPosts` | how many posts there have been |
| `answered`, `migrated`, `cuts`, `tears`, `wiped` | history: posts answered, posts that came from the text, and which faults happened |

`Start`, `MigrateOpen`, `MigrationFails`, `MigrateLine` and `MigrateDone` are
the start-up, `PostLine` and `PostText` the two back ends of
`handle_old_post_news`, and `Stop`, `CrashInLine`, `CrashInText` and
`CrashInMigration` the end of the process between and inside them. A line that
was cut swallows the next one (`Added`).

Which posts are listed, and in which order, is what the model tells; what an
entry says is not in it. It is in full while the text file is used, and "unknown
(unknown date)" without text as soon as the entry is read from the JSON file,
that is after the conversion and after every post and restart
(`jsonl_message_board.c:30`, `72`): only the number after `"id":` is found. The
conversion writes the text unescaped (501); a newline in it begins a line that
has no number and is no entry.

## 4. Runs

| Run | Instance | Shows |
|---|---|---|
| `sessions` | 3 peers, one of them an administrator, 3 descriptors of which the loop can watch 2, 3 addresses, 3 logins | the manager, the loop and the displayed lists agree under kicks and reuse; the refinement of `Users`. Three peers are needed for a kicker, a kicked one and a newcomer that takes the number; two watched descriptors make reuse unavoidable and the third one is the login that cannot be registered |
| `sessions_kick` | the same | finding, section 6 |
| `chat` | 3 addresses, 3 logins, one room of 2 members at a time, one room id and the zero id, 2 subjects | rosters, windows and subjects are right in every room that no disconnect, second join or join while full has spoiled. The third user finds the room full, or logs in where another left; that one room does not disturb another is left to the proof |
| `chat_quit` | the same | finding, section 6 |
| `history` | 5 messages, limit 2, 2 kills or power failures, ids below 8 | the store implements its log, its index reads the file and queries are exact. Five messages let a limit of two prune twice with restarts between |
| `mnemosyne` | 2 files, 1 article, ring of 2, suspension after 2 failures, 3 changes, 1 restart or reload, 1 beat before the network is steady, a cursor file | three changes overflow the ring; one restart separates what memory forgot from what the index knows; the sync comes back and catches up |
| `connection`, `Transport` | every offer under every policy, then 3 transactions with bodies of 0, 2, 6 and 7, with 0 or 1 key rotations, plain and TLS | lengths are scaled: header 2, of which 1 tells the length, buffer 8, so that one body does not parse, one fills the buffer exactly and one exceeds it, and the four meet every edge of a phase. The stream is cut at every byte |
| `connection`, `Admission` | 1 address that connects, 1 that is only edited in, interval, threshold and window 2, room for 1 ban, 1 edit, 1 fault, the clock set back once | every rhythm of attempts over a window; the list is full; the file is cut |
| `hope` | every offer under every policy; what is sent after the login does not matter | finding, section 6 |
| `transfers` | 2 names, a short and a long version, a table of 1 or 2, 2 transfers, 1 edit, 1 crash, sizes below 8 | two transfers race for one name; the second resumes the first, or meets what it left behind; the table is full with one |
| `storage`, `News` | 2 names, room for 2 categories of 2 articles, 4 requests, 1 end, 1 save or migration whose writes fail; a new server, a YAML file that is read whole, has an article too many or does not parse, or another program's directory | a category is deleted, made again and loaded again; a post is not written and then is, or is lost with the process |
| `storage`, `Board` | 2 old posts, 6 in all, 2 failing or cut writes, 2 ends | what cut writes cost, before, in and after the migration |
| `news_blank` | the same | finding, section 6 |
| `accounts` | 3 logins, one of which does not read back, 2 passwords, one of which does not, array of 2, 2 clients, 2 edits, 2 failed writes or ends of the process, with and without HOPE | a write that fails and is repeated, a restart that loads what a rename or a cut left, a deletion below a pointer and a re-creation |

Every bound above counts events that are only interesting in small numbers
(changes, ends of the process, faults), or scales a limit of the code down so
that it is reached (ring, buffer, array, table, list). The bounded events are
guards of their actions, named in the module's CONSTANTS; a state without them
is what the unbounded program would be in. `MaxLogins` limits the logins of one
run of the server and `IdAssumption` keeps it within the first cycle of ids.
`SayTooLong` stops where ids would reach `IdMod`, the 2^64 of the code. Symmetry
permutes addresses, peers without a role and clients, in runs that check
invariants, or safety properties only. A run that shows a finding stops at the
first counterexample, and shares the bounds of its neighbour. Runs whose system
may come to rest (nobody connects, all bounds are used) say
`CHECK_DEADLOCK FALSE`.

### Fairness

* `Mnemosyne`: weak fairness of `Post`, since every request ends by its
  time-out, and strong fairness of `Heartbeat` and `StartupDelay`: a timer that
  is due is among the next wait's events, whatever other handlers run in
  between. Nothing is assumed of the network; `Recovers` and `Converges` speak
  of behaviours in which it becomes steady.
* `Transport`: weak fairness of `Handling`. A readable descriptor is reported by
  every wait, and a handler runs to its end. Clients have none. `Delivered`
  assumes that the TLS library does not keep the rest of a record for good,
  which is not guaranteed (section 6).
* `Transfers`: weak fairness of `timed /\ Serve`: on a plain connection every
  read and write returns within the 30 seconds of `SO_RCVTIMEO` and
  `SO_SNDTIMEO`, with data or without. Nothing is assumed of TLS and AEAD
  connections, which may wait for their client for ever, and `Released` claims
  nothing of them.
* `Admission`: time goes on (`Tick`), and a server that ended is started.
* `Sessions`, `PrivateChat`, `ChatHistory`, `Accounts`, `News` and `Board` have
  none: nothing is claimed to happen in the end.

## 5. Proofs

Each theorem has the form `Spec => []P` (or `Spec => P` for an action property
or a refinement) for every value of the constants that the named assumptions of
the modules allow. TLC evaluates those assumptions in the runs. Where a theorem
needs more, the hypothesis stands before an implication (`Calm => (Spec => ...)`).

**Sessions** (`SessionsProofs`). `TypeOK`, `ManagerSound`, `EventsLive`,
`WatchedOwned` and `ViewsAgree`, for any finite sets of addresses and
descriptors, any peers and any number of logins of the first id cycle
(`MaxLogins <= IdSpace`). None of them is inductive. `EventsLive` needs to know
that two events of a batch never name one session, or the first would free the
session of the second; that follows from each event naming the session whose
connection has the number polled and numbers being polled once (`BatchOwned`).
`WatchedOwned` is what makes a fresh batch satisfy this: `udata` of a watched
number was written by the login that opened the number, even though a kicked
session may hold the same number. `Listed` says that the manager lists exactly
the allocated sessions, in login order, and that `cc->fd` is `cc->conn`'s number
until a kick. `IInv` is their conjunction with `TypeOK` and the count; one lemma
per step gives `Inductive`. `ViewsFollow`, that displayed user lists follow the
client manager, needs that the id of a login is nobody's (`NextIdNew`, so
nothing is left over in a list that it would have to erase), that a broadcast
about one session reaches whoever is served by another (`Heard`), and that who
displays a list is connected (`Present`), so that nobody logs in with one;
`ViewStep` reduces the steps that log nobody in or out to one displayed entry.
`UsersImplemented` proves from the same invariant that every step is a step of
`Users` or leaves it alone: an event that disconnects names a live session, so
its step is one logout.

**PrivateChat** (`PrivateChatProofs`). `TypeOK` and `RosterAgrees`, whatever
users do, for any numbers of addresses, rooms, members and logins of the first
id cycle. That the entries of an unspoiled room are live is not inductive: a
departure is harmless because a user without an open window has no entry in such
a room, and a leave takes the user out because there is one entry to take.
`Sound` adds both: each entry's user displays the room, and no two entries have
one id. That the entry a leave removes is the leaver's needs `UsersSound`: ids of
the users logged in differ, being ordinals of one cycle of logins
(`IdInjective`). `RoomsAfter` reduces the steps that log nobody in or out to the
rooms they change. For the windows the invariant says that an open window's user
is in the room and sees it as it is (`Agree`) and that nobody displays a room
that was never made (`Fresh`); both only for rooms that are not spoiled.

**ChatHistory** (`ChatHistoryProofs`). `IndexReads` under `Calm` (no prune is
interrupted, and the disk does not fill up in one), and `ImplementsLog` under
`Calm` and `~UseDays`; section 3 says what happens otherwise. The invariant
says that there is one slot whose index is the scan of the log (`Held`); that
between its write and its rename a prune's temporary file is a last part of the
log and its new index that part's scan (`Pruning`, from `RewriteIs`); that ids
ascend and leave room below `IdMod` for what may still be said (`Numbered`);
and that lines an `fsync` covered lie below `synced` (`Synced`). A recovery
then finds the next id above all of them, a rename is a `Retain` and a power
failure loses a suffix above `synced`.

`QueryExact` is proved from the same invariant under `Calm`, for any limit and
any number of lines: with sound cursors the window is what `Wanted` asks for
(`WindowWanted`). As ids ascend (`Numbered`), a target splits an index in two
(`Splits`), and the binary search ends where they meet (`LowerBoundSplits`);
the window between two such places holds the ids the cursors allow, and the
limit keeps one end of it. What induction this takes runs up to a given number
(`Induction`) and comes from a least element, which exists by well-foundedness
of strict inclusion on finite sets (`LeastElement`); the library's induction
theorems are of no use here. The unsigned arithmetic of
`chat_history.c` does not wrap, because a log has no more lines than were said
(`MaxSaid < SizeMod`, an assumption of `ChatHistory`).

**Mnemosyne** (`MnemosyneProofs`). `TypeOK`, `RingOK` and `Told`, for any finite
set of items, any queue size from 1 and any number of changes, restarts and
heartbeats. The ring is shown to be the queue it stores (`Closed`): between head
and tail lie as many slots as are counted, each in use, and a push or a pop
moves one end past one slot (`Slots`). `Told` folds the queue over the remote
index. The proof reads an item at a time: what the queue says of an item is its
last change in it, or the index if it has none (`Says`), and `ReplaySays` shows
that the fold comes to the same; it needs an induction up to the length of the
queue. The invariant is `TypeOK`, `RingOK`, `Agreed` (an item that was not
missed is in the index after the queue exactly if the server has it) and
`Detached` (a server without a sync has no post to make).

**Transfers** (`TransfersProofs`). `FilesWhole`, `SlotsFreed` and `KeptFiles`
from `IInv`: what has been written of the upload in progress is that much of
one version (`Incoming`), the connection does what its reference was granted
for (`Served`), and an approved upload was approved to a free name
(`UploadsNew`). `FilesWhole` and `KeptFiles` are action properties: they follow
from what a step of an `IInv` state can do to the files. `PromiseKept` and
`JoinsUp` are proved under `SizesBelow`: no file reaches 4 GiB, where the wire's
sizes wrap. They rest on `DInv`: files are parts of versions (`Parts`), a
client's copy is in order (`Ordered`), a download asks for what its client lacks
and promises that (`Asked`, `OneWaits`), and the file position is as far as the
copy is (`Position`).

**Accounts** (`AccountsProofs`). `OwnUntilMoved`, `Saved` and `PasswordsHold`,
with writes that fail and values that do not read back. The invariant adds that
a file holds the account it is named after or one without a login
(`FilesNamed`); that no login occurs twice in memory (`OneEach`); that an account
whose login is not adrift is the one in its file, and a file that is not adrift
has its account in memory (`AllInFiles`, `AllInMemory`); and that where a login's
password is known, memory and the files that are not adrift have it or none
(`MemoryKnown`, `FilesKnown`). All but `FilesNamed` hold while no account was
renamed to a login in use. `Get` takes the first account of a login; that there
is a first one is `LeastElement`, by the well-foundedness of strict inclusion on
finite sets.

**Admission** (in `ConnectionProofs`). `RateKept`, `PoliteServed`, `BanEarned` and
`BannedStayOut`. `Buckets` relates what a bucket would be filled to now with the
two clocks the properties speak of: at most the time since the address was let
in, at least the time since it last tried unless the clock was set back.
`Counts` says that the counted refusals are the latest, and no older than the
count's window; `Bans` that the punished are on the list and, unless a write
failed, in the file.

**News** (`NewsProofs`). `TypeOK` and `Kept`, for any numbers of categories,
articles, changes, crashes and failing saves, and any contents of the disk and
of the YAML file that `StoredOK` allows. `Kept` is not inductive. `Types` adds
that memory and disk are finite and that a category's next id is above the ids of
its articles, so a post writes no file of another article; `Unmade` says that
before the directory is made everything posted waits in the YAML file. A save
removes nothing, so a directory that can be loaded whole could be before
(`FittedBefore`); a start-up then loads all of it (`LoadFacts`); and every file a
save writes, whole or cut off, stands for an article that memory serves
(`StillHeld`), which reduces the four requests to what they make of memory
(`SaveKeeps`). What a save could not write is in `failed`, and an article in
`failed` is claimed of memory only. The largest of a finite set of ids exists by
well-foundedness of strict inclusion (`MaxFacts`).

**Board** (in `NewsProofs`). `PostsKept` and `NewestFirst`, for any numbers of
posts, faults and restarts. `PostsKept` is not inductive: a line cut off by a
crash costs nothing yet and swallows the next one. `Counted` charges it in
advance (`Lost`): the answered posts that are nowhere, and one more while the
last line is open, are at most two per cut and one per torn text. `Ordered` says
that each file has its posts in the order they were made, where posts that came
from the text are below the later ones but reversed among themselves; `Shows`
that memory lists what the file in use has while the server is up; `Migrating`
that a migration has written the first posts of the text, one line each.

**Transport** (in `ConnectionProofs`). `AnnouncedUsed`, `InStep` and
`NothingLost`, for every offer and policy, any header, peek, buffer and tag sizes
the assumptions allow, any transactions, any numbers of bytes per event and any
splitting of the stream. `Begins` says that a cipher which was announced is the
one used, and gives `AnnouncedUsed`. The other two are about undisturbed
connections, which can become disturbed but not undisturbed again
(`BeginsKeeps`), so that their invariant may be assumed to have held before.
`Streams` speaks of the `Line`, which is the buffer, the bytes the TLS library
holds, those on the way and the one the client would send next. Each byte of it
follows its predecessor in the transaction sent (`Places`); up to
`decrypt_offset` the bytes are plain, and from there on each has the key
generation and position that the one before it leads to, beginning with the
server's own (`Ciphered`); and where in a transaction the offset lies is what
phase and `body_rest_remaining` say (`InPhase`). `Fits` relates the ciphers and
the event in progress, and says that what was dispatched is the first
transactions, each once; the line begins with the next. From this `NothingLost`
follows by counting the bytes of the transactions (`BeforeExists`, `Positions`).

Every invariant and every action property of the runs that pass is thus a
theorem, under the hypotheses named above. Only model-checked are the liveness
properties (`Recovers`, `Converges`, `Delivered`, `Released`, `Served`), which
are out of the prover's reach; so is what an excused state does to its users
(`spoiled` rooms, disturbed connections, logins adrift), of which nothing is
claimed.

## 6. What the code does and a reader may not expect

Four findings have a run of their own, which a reader can turn into a trace.

* `sessions_kick`: "the server forcibly disconnects the target client and
  notifies remaining users"
  (`openspec/changes/bootstrap-specs/specs/user-management/spec.md:63`).
  `handle_disconnect_user` (`transaction_handlers_clean.c:1529-1533`) closes the
  target's descriptor and does nothing else: the closed descriptor reports no
  event, the session stays in the manager for good, and nobody is told.
* `chat_quit`: `disconnect_client` is to "disconnect a client and clean up"
  (`server.c:503`); it does not know the rooms (505-541), which keep the pointer
  to the session it frees.
* `hope`: a login that ends without a cipher is "auth-only (INVERSE or no cipher
  support)" (`hope.c:545`), "no transport encryption" (`hope.h:160`). The server
  activates RC4 for it all the same whenever the MAC could derive a key
  (`server.c:1223-1231`), and decrypts what the client was told not to encrypt.
* `news_blank`: `json_get_string` (`dir_threaded_news.c:41`) looks for
  `"key":"`, and the writer (`json_builder.c:117`) puts a space after the
  colon. Every article read back from the server's own files has no title,
  poster, date or text, and the next save writes the empty fields over the
  file. `docs/FEATURES.md:47` says that news persists across restarts.

The others were met while modelling. They are in the models as the code has
them unless the entry says otherwise: the properties exclude or allow them
where their comments say so.

Sessions and chat
: What is written to a kicked session can reach the next owner of its descriptor
  number. The one thread waits for its clients, and some of the waits have no
  end: the TLS handshake (`server.c:2495`, `tls_openssl.c:86`), which runs before
  any time-out is set; a TLS read that times out, which is tried again
  (`tls_openssl.c:143-149`); the rest of a partial TLS record after login; and a
  write to a user who stops reading, because the send time-out is cleared after
  login (`server.c:1429`). No liveness of the event loop is claimed. Idle users
  are marked away and never disconnected (`server.c:2309`), although the
  networking specification says so. Client ids are 16 bits of a counter. Room
  ids are random and not compared with those in use; a second join adds a second
  entry, of which a leave removes one (`chat.c:122`); a join that found the room
  full is announced.

History
: Beside the three switches of section 3: a failed reopen leaves a null stream
  (`chat_history.c:864`), `fflush` is not checked (619), and in a range query
  whose BEFORE is not above its AFTER `end_idx - start_idx` wraps (720);
  `QueryExact` is stated for sound cursors.

Mnemosyne
: The heartbeat stores the counts of now as those of the last sync
  (`mnemosyne_sync.c:394`), so the drift check never finds a mismatch after it,
  although the specification of the sync says "If a mismatch is detected, a
  targeted full sync SHALL be triggered". A cursor file left by an older version
  starts a chunked sync that nothing carries on and that keeps the queue and
  the drift check waiting (`server.c:2371`): `Converges` excludes it. A failed
  deletion is queued as a deletion. The queue lives in memory only. The board's
  posts are counted by occurrences of four underscores, eleven per separator
  (706), and each post sent runs to the end of the text.

Transport
: A transaction that does not parse empties the buffer and leaves
  `decrypt_offset` as it was (`server.c:697`), after which an RC4 connection is
  out of step. Bytes the TLS library has decrypted and the buffer had no room
  for wait for the next bytes on the wire. `require-aead` does not refuse logins
  without HOPE.

Transfers
: `O_TRUNC` on `.incomplete` means that uploads never resume, although the
  protocol offers it. A file may be called like another's `.incomplete`, which
  listings show and downloads take (`server.c:1939`); uploads with such a name
  are not modelled, renames to and from one are. A client of a TLS connection
  that stalls, or one that sends empty AEAD frames, keeps the whole server
  (`tls_openssl.c:143-147`, `hope.c:1133-1150`), although the comment on the
  time-outs promises otherwise (`server.c:1662`). `hl_calc_item_count` is
  off by one (`files.c:210`). A full table hands out references that name
  nothing (`file_transfer.c:44`), and the slots of clients who never come are
  never freed. Sizes are cut modulo 2^32 (`server.c:1768`); folder transfers
  never use AEAD; resource forks are never sent.

Admission
: After the clock was set back the polite are refused and, in the end, banned
  (`server.c:335`): `PoliteServed` and the window of `BanEarned` exclude it. The
  window runs from the first refusal, where the comment says "last violation".
  With 512 bans the next one is not recorded and its address is never tried
  again. The file is emptied in place. Edits by hand are neither seen nor kept
  while the server runs (`main.c:664` reloads the configuration only). Bans with
  an end become permanent, bans by nick are checked by nothing, and no handler
  adds a ban. A banned address keeps its open sessions. The "per-connection
  chat send rate" of `docs/SERVER.md` limits history requests only.

Accounts
: A deletion moves the accounts above it down under the pointers of the
  sessions logged in to them, which then have the next account's rights
  (`yaml_account_manager.c:297`): `OwnUntilMoved` ends there. A rename leaves
  the old file, which the next start loads as an account of the old name or the
  new; a rename onto a login in use makes two accounts of one login
  (`clash`). The 257th account is refused in silence. A file that cannot be
  written, is cut or cannot be removed is answered as a success
  (`yaml_account_manager.c:157`, `259`, `279`); a restart then brings the old
  account and its password back, or one without a login, without rights or
  without a password. The same comes of login, name and password being written
  into YAML unescaped (160-162): a plain password with a quote or a backslash
  does not open its account after a restart, and what it reads back as does.
  `Saved` and `PasswordsHold` say which logins this cannot concern (`adrift`).
  A HOPE login passes over accounts whose password is hashed. A file cut inside
  its login line is read as an account of a shorter login, which the model takes
  for one without a login.

News and board
: Deleted categories and articles keep their files and come back with the next
  start. A save that fails, wholly or in part, is answered like any other: files
  that cannot be opened are passed over, and short ones replace the good ones
  (`dir_threaded_news.c:262`, `305-310`), so that an article, an earlier one too,
  keeps its id and loses its parent and its text, or is gone with the process. A
  crash in the migration leaves a directory, and the YAML file is never looked at
  again (`main.c:494`). A YAML file that does not parse to its end, or has more
  than 256 articles in a category, is migrated in part and renamed all the same
  (`threaded_news_yaml.c:236`, `279`). Of more than 16 directories an arbitrary
  one is not loaded, and making it again overwrites it. Refused posts are
  answered like accepted ones, and reported to Mnemosyne.

: The board reads its own lines without poster, date or body for the same reason
  as the news (`jsonl_message_board.c:30`, `72`): a start that could not convert
  the text file shows its posts in full, the next one converts it, and every
  entry is blank. The migration turns the order of the old posts round and
  writes their text unescaped (501); a line cut by a full disk swallows the next
  post; a crash in a rewrite of the text (`flat_news.c:113`) or in the migration
  can lose every post. A post whose text has `"id":` in it is not modelled.

## 7. Not modelled

* Public chat, broadcasts and instant messages: fan-out without state of its
  own over the client manager; whom it reaches is `Wire` in `Sessions`.
* TLS libraries, the tracker, the HTTP client: vendor wrappers and stateless
  I/O. What they do to others is in the models: records and what the library
  holds back in `Transport`, failing and lost posts in `Mnemosyne`. A call that
  waits for ever is a step of the server that is not taken.
* Cryptographic primitives and key derivation: functions from bytes to bytes
  with published test vectors, which the unit tests use. `Transport` follows
  when they are applied and with which key and counter.
* Configuration and start-up wiring, except where it decides a state
  (`Reload`, `Migrate`, `hope`, the chat history's first prune).
* File names, paths, encodings, flattened file objects, YAML and JSON spelling:
  data conversions. Those that matter are modelled by what they do: the space
  after the colon in `News`, what does not read back in `Accounts`. `Board` has
  no text, only which posts are listed.
* The YAML-only back end of the news, which is used if the directory cannot be
  made or the YAML file has nothing in it, and YAML files of more than 16
  categories, whose further articles go to the last one.
* The encryption of history files and the rate limit of history queries.
* The macOS GUI, and the PowerPC port, which is a copy of the server's source
  with small differences; together they are more than half of the
  implementation lines of the repository.

## 8. Next

What would add most: the direction from the server to the client in
`Transport`, with the batched writes of a broadcast; the composition of
`Accounts` with `Sessions` through `Users`, so that a shifted pointer meets a
kick; sub-folders in `Transfers`.
