----------------------------- MODULE MCStorage -----------------------------
(***************************************************************************)
(* Small instances of News and of Board, checked in one run: they share no *)
(* variable, and in each behaviour one of them moves while the other stays *)
(* as it began.                                                            *)
(***************************************************************************)
EXTENDS News, Board, TLC

One == CHOOSE c \in Names : TRUE
Two == CHOOSE c \in Names : c # One
T == CHOOSE t \in Texts : TRUE
File1(p, f) == [text |-> T, parent |-> p, form |-> f]
Thread(f) == 1 :> File1(0, f) @@ 2 :> File1(1, f)

New == [made |-> FALSE, disk |-> None, yaml |-> None, parses |-> TRUE]
\* A new server; one with a YAML file of two articles, which parses or does not;
\* one whose YAML file has an article too many; one with a directory another
\* program wrote, where article 1 is gone.
Stores ==
    {New, [New EXCEPT !.yaml = One :> Thread("compact")],
     [New EXCEPT !.yaml = One :> Thread("compact") @@ Two :> (1 :> File1(0, "compact")),
                 !.parses = FALSE],
     [New EXCEPT !.yaml = One :> (Thread("compact") @@ 3 :> File1(0, "compact"))],
     [New EXCEPT !.made = TRUE, !.disk = One :> (2 :> File1(0, "compact"))]}

VARIABLE part   \* the one that moves

\* A step of the one, and of the other.
Newsroom(A) == part = "news" /\ A /\ UNCHANGED <<part, boardVars>>
Boards(A) == part = "board" /\ A /\ UNCHANGED <<part, vars>>

StorageInit ==
    /\ part \in {"news", "board"} /\ Init /\ BoardInit
    /\ part = "news" => txt = NoText
    /\ part = "board" => ~made /\ yaml.state = "none"

StorageNext ==
    \/ \E c \in Names :
         \/ \E p \in Parents, t \in Texts : Newsroom(PostNewsArt(c, p, t))
         \/ Newsroom(NewNewsCat(c)) \/ Newsroom(DelNewsItem(c))
         \/ \E i \in 1 .. MaxArticles : Newsroom(DelNewsArt(c, i))
    \/ Newsroom(Crash) \/ Newsroom(StartFromDirectory) \/ Newsroom(Migrate) \/ Newsroom(StartEmpty)
    \/ Boards(Start) \/ Boards(MigrateOpen) \/ Boards(MigrationFails) \/ Boards(MigrateLine)
    \/ Boards(MigrateDone) \/ Boards(PostLine) \/ Boards(PostText) \/ Boards(Stop)
    \/ Boards(CrashInLine) \/ Boards(CrashInText) \/ Boards(CrashInMigration)

storageVars == <<part, vars, boardVars>>
StorageSpec == StorageInit /\ [][StorageNext]_storageVars
=============================================================================
