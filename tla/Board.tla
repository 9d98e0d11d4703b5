-------------------------------- MODULE Board --------------------------------
(***************************************************************************)
(* The message board (mobius/flat_news.c, jsonl_message_board.c): a text    *)
(* file of an older version, newest post first, and the JSON file, oldest   *)
(* line first, into which the first start turns it.  What users are shown   *)
(* is kept in memory: rebuilt from the JSON file after each post, or        *)
(* written over the text file when that could not be converted.             *)
(*                                                                          *)
(* Posts are numbered as they are made, and `shown' has the numbers of those *)
(* that are listed.  A line of the JSON file stands for the post it begins  *)
(* with; it is `open' while its newline is missing, and it `reads' if the   *)
(* number after its first "id" is there.  No other key is found when lines  *)
(* are read back (the writer puts a space after the colon, the reader       *)
(* expects none): listed from the JSON file, a post is "unknown (unknown    *)
(* date)" with no text, listed from the text file it is shown in full.      *)
(***************************************************************************)
EXTENDS Integers, Sequences, FiniteSets, SequencesExt

CONSTANTS
    MaxOld,      \* bound: posts in the text file of an older version
    MaxPosts,    \* bound: posts in all
    MaxFaults,   \* bound: files that cannot be opened, writes cut short
    MaxStops     \* bound: stops of the server

ASSUME BoardAssumption ==
    {MaxOld, MaxPosts, MaxFaults, MaxStops} \subseteq Nat /\ MaxOld <= MaxPosts

VARIABLES
    txt,        \* MessageBoard.txt: [there, posts]
    jsonl,      \* MessageBoard.jsonl: [there, lines]
    phase,      \* "down", "migrating", "up"
    backend,    \* by the suffix of fn->file_path: "jsonl" or "text"
    shown,      \* fn->data
    boardPosts, \* posts so far, answered or not
    answered,   \* history: posts whose author was told that all is well
    migrated,   \* history: posts in the text file when it was migrated
    cuts,       \* history: appends cut short with the server running on
    tears,      \* history: appends cut short by the end of the process
    wiped,      \* history: a rewrite or a migration was cut short
    stops

files == <<txt, jsonl>>
history == <<answered, migrated, cuts, tears, wiped>>
boardVars == <<files, phase, backend, shown, boardPosts, history, stops>>

Posts == 1 .. MaxPosts
Line == [post: Posts, reads: BOOLEAN, open: BOOLEAN]
NoLines == [there |-> FALSE, lines |-> <<>>]
NoText == [there |-> FALSE, posts |-> <<>>]
Newest(n) == [i \in 1 .. n |-> n + 1 - i]

BoardInit ==
    /\ jsonl = NoLines /\ phase = "down" /\ backend = "jsonl" /\ shown = <<>>
    /\ \E n \in 0 .. MaxOld :
         /\ txt \in {[there |-> TRUE, posts |-> Newest(n)]}
                    \cup (IF n = 0 THEN {NoText} ELSE {})
         /\ boardPosts = n /\ answered = 1 .. n
    /\ migrated = {} /\ cuts = 0 /\ tears = 0 /\ wiped = FALSE /\ stops = 0

Fault == cuts < MaxFaults /\ cuts' = cuts + 1

-----------------------------------------------------------------------------
(* Lines.  *)

\* Mutant of Displayed: the order of the file.
DisplayedOldest(lines) ==
    LET first[n \in 0 .. Len(lines)] ==
          IF n = 0 THEN <<>>
          ELSE IF lines[n].reads THEN Append(first[n - 1], lines[n].post)
          ELSE first[n - 1]
    IN  first[Len(lines)]

\* load_posts and build_flat_text: the lines with an id, last line first, and
\* nothing but the id of them.
Displayed(lines) ==
    LET first[n \in 0 .. Len(lines)] ==      \* among the first n lines
          IF n = 0 THEN <<>>
          ELSE IF lines[n].reads THEN <<lines[n].post>> \o first[n - 1]
          ELSE first[n - 1]
    IN  first[Len(lines)]

HasOpen(lines) == lines # <<>> /\ Last(lines).open

\* Mutant of Added: the file is opened for writing, not for appending.
AddedOver(lines, p) == <<[post |-> p, reads |-> TRUE, open |-> FALSE]>>

\* Appending post p: nobody looks whether the last line is complete.  If it is
\* not, p vanishes in it.
Added(lines, p) ==
    IF HasOpen(lines) THEN Front(lines) \o <<[Last(lines) EXCEPT !.open = FALSE]>>
    ELSE Append(lines, [post |-> p, reads |-> TRUE, open |-> FALSE])

\* What an append that was cut short can leave: nothing that matters, or an
\* open line, before or after its number.
AddedPartly(lines, p) ==
    {lines} \cup (IF HasOpen(lines) THEN {}
                  ELSE {Append(lines, [post |-> p, reads |-> r, open |-> TRUE]) :
                          r \in BOOLEAN})

-----------------------------------------------------------------------------
(* Start-up: main, mobius_migrate_flat_to_jsonl.  *)

Run(b, s) == phase' = "up" /\ backend' = b /\ shown' = s

\* Is the board in the JSON file, with nothing to convert?
JsonRules == jsonl.there \/ ~txt.there \/ txt.posts = <<>>

\* The JSON file if there is one; with no file or an empty one, a new board.
\* An empty text file is converted to an empty file, which may fail, and stays.
Start ==
    /\ phase = "down" /\ JsonRules
    /\ \/ UNCHANGED jsonl
       \/ txt.there /\ jsonl' = [jsonl EXCEPT !.there = TRUE]
    /\ Run("jsonl", Displayed(jsonl.lines))
    /\ UNCHANGED <<txt, boardPosts, history, stops>>

ToMigrate == phase = "down" /\ ~JsonRules

MigrateOpen ==
    /\ ToMigrate
    /\ jsonl' = [NoLines EXCEPT !.there = TRUE]
    /\ phase' = "migrating" /\ migrated' = ToSet(txt.posts)
    /\ UNCHANGED <<txt, backend, shown, boardPosts, answered, cuts, tears, wiped, stops>>

\* The JSON file cannot be created: the text file is used as it is.
MigrationFails ==
    /\ ToMigrate /\ Fault
    /\ Run("text", txt.posts)
    /\ UNCHANGED <<files, boardPosts, answered, migrated, tears, wiped, stops>>

\* The first post in the text becomes the first line of the file.  Its text is
\* written as it is: a newline in it ends the line for the reader, and what
\* follows has no number, so that it is no entry and as good as not written.
MigrateLine ==
    /\ phase = "migrating" /\ Len(jsonl.lines) < Len(txt.posts)
    /\ jsonl' = [jsonl EXCEPT !.lines = Added(@, txt.posts[Len(@) + 1])]
    /\ UNCHANGED <<txt, phase, backend, shown, boardPosts, history, stops>>

\* The file ends before or inside the line of the next post.
CutMigration ==
    /\ Len(jsonl.lines) < Len(txt.posts)
    /\ \E l \in AddedPartly(jsonl.lines, txt.posts[Len(jsonl.lines) + 1]) :
         jsonl' = [jsonl EXCEPT !.lines = l]

\* The text file is renamed to MessageBoard.txt.legacy, whatever was written,
\* or stays, which nobody notices.
MigrateDone ==
    /\ phase = "migrating"
    /\ IF Len(jsonl.lines) = Len(txt.posts) THEN UNCHANGED <<jsonl, cuts, wiped>>
       ELSE CutMigration /\ Fault /\ wiped' = TRUE
    /\ txt' \in {NoText, txt}
    /\ Run("jsonl", Displayed(jsonl'.lines))
    /\ UNCHANGED <<boardPosts, answered, migrated, tears, stops>>

-----------------------------------------------------------------------------
(* handle_old_post_news: the answer does not depend on what was written.    *)

Post ==
    /\ phase = "up" /\ boardPosts < MaxPosts
    /\ boardPosts' = boardPosts + 1 /\ answered' = answered \cup {boardPosts'}
    /\ UNCHANGED <<phase, backend, migrated, tears, stops>>

PostLine ==
    /\ Post /\ backend = "jsonl"
    /\ \/ /\ jsonl' = [there |-> TRUE, lines |-> Added(jsonl.lines, boardPosts')]
          /\ UNCHANGED cuts
       \/ /\ Fault
          /\ \E l \in AddedPartly(jsonl.lines, boardPosts'), created \in BOOLEAN :
               /\ jsonl.there \/ l # <<>> => created
               /\ jsonl' = [there |-> created, lines |-> l]
    /\ shown' = Displayed(jsonl'.lines)
    /\ UNCHANGED <<txt, wiped>>

\* The whole text is written again over the old one.
PostText ==
    /\ Post /\ backend = "text"
    /\ shown' = <<boardPosts'>> \o shown
    /\ \/ txt' = [there |-> TRUE, posts |-> shown'] /\ UNCHANGED <<cuts, wiped>>
       \/ /\ Fault /\ wiped' = TRUE
          /\ \E s \in Prefixes(shown') \cup {txt.posts} :
               txt' = [there |-> TRUE, posts |-> s]
    /\ UNCHANGED jsonl

-----------------------------------------------------------------------------
(* The process ends: between two requests, in the middle of a post that it  *)
(* will never answer, or in the middle of a migration.                      *)

Ends ==
    /\ phase # "down" /\ stops < MaxStops
    /\ stops' = stops + 1 /\ phase' = "down" /\ shown' = <<>>
    /\ UNCHANGED <<backend, answered, migrated, cuts>>

Stop == phase = "up" /\ Ends /\ UNCHANGED <<files, boardPosts, tears, wiped>>

CrashInLine ==
    /\ phase = "up" /\ backend = "jsonl" /\ boardPosts < MaxPosts
    /\ Ends
    /\ boardPosts' = boardPosts + 1
    /\ \E l \in AddedPartly(jsonl.lines, boardPosts') \cup {Added(jsonl.lines, boardPosts')} :
         jsonl' = [there |-> TRUE, lines |-> l]
    /\ tears' = tears + 1
    /\ UNCHANGED <<txt, wiped>>

CrashInText ==
    /\ phase = "up" /\ backend = "text" /\ boardPosts < MaxPosts
    /\ Ends
    /\ boardPosts' = boardPosts + 1
    /\ \E s \in Prefixes(<<boardPosts'>> \o shown) : txt' = [there |-> TRUE, posts |-> s]
    /\ wiped' = TRUE
    /\ UNCHANGED <<jsonl, tears>>

\* The half-filled JSON file is the board from the next start on.
CrashInMigration ==
    /\ phase = "migrating"
    /\ Ends
    /\ \/ CutMigration /\ wiped' = TRUE
       \/ /\ UNCHANGED jsonl
          /\ wiped' = (wiped \/ Len(jsonl.lines) < Len(txt.posts))
    /\ UNCHANGED <<txt, boardPosts, tears>>

BoardNext ==
    \/ Start \/ MigrateOpen \/ MigrationFails \/ MigrateLine \/ MigrateDone
    \/ PostLine \/ PostText
    \/ Stop \/ CrashInLine \/ CrashInText \/ CrashInMigration

BoardSpec == BoardInit /\ [][BoardNext]_boardVars

-----------------------------------------------------------------------------
(* Properties.  *)

\* Every post that was answered is listed on the board, with its text or blank,
\* but for the ones faults cost: an append cut short costs its own post and the
\* next one, which is glued to it; a process that dies in an append costs the
\* next post only, its own was never answered.  This holds across restarts and a
\* completed migration, as long as no rewrite of a whole file was cut short.
PostsKept ==
    phase = "up" /\ ~wiped =>
        Cardinality(answered \ ToSet(shown)) <= 2 * cuts + tears

\* No post is shown twice, whichever way it came onto the board, and a post is
\* above all older ones, except that the migrated posts come in the order of
\* their writing (the text file is read from its newest post on).
NewestFirst ==
    /\ IsInjective(shown)
    /\ \A i, j \in DOMAIN shown :
         i < j /\ ~({shown[i], shown[j]} \subseteq migrated) => shown[i] > shown[j]
=============================================================================
