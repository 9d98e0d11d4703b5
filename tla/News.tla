-------------------------------- MODULE News --------------------------------
(***************************************************************************)
(* Threaded news: the store in memory the handlers change                  *)
(* (threaded_news_yaml.c), the directory News/ it is saved to after every  *)
(* change and loaded from at start-up (dir_threaded_news.c), and the one-  *)
(* time migration from ThreadedNews.yaml (dir_threaded_news.c, main.c).    *)
(*                                                                         *)
(* An article's title, poster, date and body are one text: all four are    *)
(* written and read the same way.  A file is in the form "compact" when    *)
(* another program wrote it ("title":"x") and "spaced" when this server    *)
(* did ("title": "x"); the reader looks for the compact form only, and     *)
(* finds a blank text in the other.  Numbers are read in both forms.  One  *)
(* that was not written in full is "short" or "empty".                     *)
(* Bundles differ from categories in one byte and are not told apart.      *)
(*                                                                         *)
(* Nothing a save does is checked: a file that cannot be opened is passed  *)
(* over, one that is not written in full replaces the old one all the      *)
(* same, and the request is answered like any other.                       *)
(***************************************************************************)
EXTENDS Naturals, FiniteSets, FiniteSetsExt, Functions

CONSTANTS
    Names,          \* names of categories
    Texts, Blank,   \* what an article says; a text that was not found
    Parents,        \* the article ids a client may answer to; 0 starts a thread
    MaxCategories,  \* TN_MAX_CATEGORIES, 16
    MaxArticles,    \* TN_MAX_ARTICLES, 256
    MaxChanges,     \* bound on requests that change the news
    MaxCrashes,     \* bound on ends of the process
    MaxFailures,    \* bound on saves of which some writes fail
    Stored          \* the states the disk may be in at first

ASSUME LimitsOK == MaxCategories \in Nat \ {0} /\ MaxArticles \in Nat \ {0}
ASSUME BlankIsNoText == Blank \notin Texts

File == [text : Texts \cup {Blank}, parent : Nat, form : {"compact", "spaced", "short", "empty"}]

\* Directories of files: finitely many, each with finitely many numbered files.
IsStore(d) ==
    /\ IsFiniteSet(DOMAIN d) /\ DOMAIN d \subseteq Names
    /\ d = [c \in DOMAIN d |-> d[c]]
    /\ \A c \in DOMAIN d : /\ IsFiniteSet(DOMAIN d[c]) /\ DOMAIN d[c] \subseteq Nat \ {0}
                           /\ d[c] \in [DOMAIN d[c] -> File]

None == [x \in {} |-> x]

ASSUME StoredOK ==
    \A s \in Stored : /\ s.made \in BOOLEAN /\ (s.made \/ s.disk = None)
                       /\ IsStore(s.disk) /\ IsStore(s.yaml) /\ s.parses \in BOOLEAN
                       /\ Cardinality(DOMAIN s.yaml) <= MaxCategories
ASSUME ParentsOK == Parents \subseteq Nat

VARIABLES
    up,       \* is the server running?
    mem,      \* the categories in memory
    made,     \* does the directory News/ exist?
    disk,     \* its subdirectories, each a function from ids to files
    yaml,     \* ThreadedNews.yaml: its state, what it holds, whether it all parses
    posted,   \* ghost: the articles accepted, and not deleted since or left unwritten
    failed,   \* ghost: the files this process could not write when it last tried
    changes, crashes, failures

bounds == <<changes, crashes, failures>>
vars == <<up, mem, made, disk, yaml, posted, failed, bounds>>

\* f with v at k
With(f, k, v) == [x \in DOMAIN f \cup {k} |-> IF x = k THEN v ELSE f[x]]

\* The files of a directory that are read: load_article passes over the empty ones.
Whole(files) == {i \in DOMAIN files : files[i].form # "empty"}
Keys(cats) == UNION {{<<c, i>> : i \in Whole(cats[c])} : c \in DOMAIN cats}

Init ==
    /\ up = FALSE /\ mem = None
    /\ \E s \in Stored :
         /\ made = s.made /\ disk = s.disk
         /\ yaml = [state |-> IF s.yaml = None THEN "none" ELSE "here", cats |-> s.yaml,
                    parses |-> s.parses]
         /\ LET all == IF s.made THEN s.disk ELSE s.yaml
            IN  posted = [k \in Keys(all) |->
                            [text |-> all[k[1]][k[2]].text, parent |-> all[k[1]][k[2]].parent,
                             old |-> ~s.made]]
    /\ failed = {} /\ changes = 0 /\ crashes = 0 /\ failures = 0

-----------------------------------------------------------------------------
(* Saving.  tn_dir_save writes every category and every active article     *)
(* again, each to a temporary file renamed over the old one; it removes    *)
(* nothing.  A process that dies on the way has done a part of the writes. *)

\* The writes of a full save: id 0 stands for the directory with its _meta.json.
Writes(m) ==
    {<<c, 0>> : c \in DOMAIN m}
        \cup UNION {{<<c, i>> : i \in {j \in DOMAIN m[c].arts : m[c].arts[j].active}} : c \in DOMAIN m}

\* tn_dir_save_article, tn_dir_save_meta
Written(d, m, w) ==
    LET There(c) == IF c \in DOMAIN d THEN d[c] ELSE None
    IN  [c \in DOMAIN d \cup {k[1] : k \in w} |->
            [i \in DOMAIN There(c) \cup {k[2] : k \in {x \in w : x[1] = c /\ x[2] # 0}} |->
                IF <<c, i>> \in w
                THEN [text |-> m[c].arts[i].text, parent |-> m[c].arts[i].parent, form |-> "spaced"]
                ELSE There(c)[i]]]

\* Files that could not be opened stay as they are.  Those that were not written
\* in full are renamed all the same: of a short one the id is left, which comes
\* first, and neither the parent nor the text; of an empty one nothing.
Spoilt(d, w, how) ==
    LET Those(c) == {k[2] : k \in {x \in w : x[1] = c /\ x[2] # 0}}
    IN  IF how = "unopened" THEN d
        ELSE [c \in DOMAIN d |->
                [i \in DOMAIN d[c] \cup Those(c) |->
                    IF i \in Those(c) THEN [text |-> Blank, parent |-> 0, form |-> how]
                    ELSE d[c][i]]]

\* The process ends, after the writes w perhaps: only the disk stays, without
\* the articles that could not be written to it.
Unwritten(k) == Restrict(posted, DOMAIN posted \ k)
Dies(w) ==
    /\ crashes < MaxCrashes
    /\ up' = FALSE /\ mem' = None /\ crashes' = crashes + 1
    /\ posted' = Unwritten(failed \ w) /\ failed' = {}

\* The writes of m end with w done; the others fail, for one cause and in one way.
Tried(m, w) ==
    IF w = Writes(m) THEN disk' = Written(disk, m, w) /\ UNCHANGED failures
    ELSE /\ failures < MaxFailures /\ failures' = failures + 1
         /\ \E how \in {"unopened", "empty", "short"} :
              disk' = Spoilt(Written(disk, m, w), Writes(m) \ w, how)

\* A handler has changed memory to m; it saves, and then answers, whatever came
\* of it.  The request counts as accepted (posted' = p) once it is answered.
Save(m, p) ==
    /\ up /\ changes < MaxChanges /\ changes' = changes + 1
    /\ UNCHANGED <<made, yaml>>
    /\ \E w \in SUBSET Writes(m) :
         \/ /\ Tried(m, w) /\ failed' = (failed \ w) \cup (Writes(m) \ w)
            /\ up' = up /\ mem' = m /\ posted' = p /\ UNCHANGED crashes
         \/ disk' = Written(disk, m, w) /\ Dies(w) /\ UNCHANGED failures

-----------------------------------------------------------------------------
(* Requests.  The handlers ignore what these functions return, so a        *)
(* request that is refused changes nothing and is answered like the rest.  *)

\* tn_post_article, tn_create_category, tn_delete_news_item, tn_delete_article.  A
\* deleted article keeps its slot, and is found again by its id.
Posted(c, p, t) ==
    [mem EXCEPT ![c] =
        [arts |-> With(@.arts, @.next, [text |-> t, parent |-> p, active |-> TRUE]), next |-> @.next + 1]]
Created(c) == With(mem, c, [arts |-> None, next |-> 1])
ItemDeleted(c) == Restrict(mem, DOMAIN mem \ {c})
ArticleDeleted(c, i) == [mem EXCEPT ![c].arts[i].active = FALSE]

\* handle_post_news_art; the parent is whatever the client names.
PostNewsArt(c, p, t) ==
    /\ c \in DOMAIN mem /\ Cardinality(DOMAIN mem[c].arts) < MaxArticles
    /\ Save(Posted(c, p, t),
            With(posted, <<c, mem[c].next>>, [text |-> t, parent |-> p, old |-> FALSE]))

\* handle_new_news_cat, handle_new_news_fldr
NewNewsCat(c) ==
    /\ c \notin DOMAIN mem /\ Cardinality(DOMAIN mem) < MaxCategories
    /\ Save(Created(c), posted)

\* handle_del_news_item
DelNewsItem(c) ==
    /\ c \in DOMAIN mem
    /\ Save(ItemDeleted(c), Restrict(posted, {k \in DOMAIN posted : k[1] # c}))

\* handle_del_news_art
DelNewsArt(c, i) ==
    /\ c \in DOMAIN mem /\ i \in DOMAIN mem[c].arts
    /\ Save(ArticleDeleted(c, i), Restrict(posted, DOMAIN posted \ {<<c, i>>}))

Crash == up /\ Dies({}) /\ UNCHANGED <<made, disk, yaml, changes, failures>>

-----------------------------------------------------------------------------
(* Start-up.  *)

\* Files are read in the order the directory gives them, up to the limit.
SomeOf(S, limit) ==
    {s \in SUBSET S : Cardinality(s) = limit \/ (s = S /\ Cardinality(S) < limit)}

\* json_get_string on a file of either form
Read(file) == IF file.form = "compact" THEN file.text ELSE Blank

\* Mutant of Loaded: the next id is the number of articles plus one.
LoadedByCount(files, ids) ==
    [arts |-> [i \in ids |-> [text |-> Read(files[i]), parent |-> files[i].parent, active |-> TRUE]],
     next |-> Cardinality(ids) + 1]

\* load_category, of the files of the given ids
Loaded(files, ids) ==
    [arts |-> [i \in ids |-> [text |-> Read(files[i]), parent |-> files[i].parent, active |-> TRUE]],
     next |-> Max(ids \cup {0}) + 1]

\* mobius_dir_news_new
Load(d) ==
    \E C \in SomeOf(DOMAIN d, MaxCategories) : \E K \in SUBSET Keys(Restrict(d, C)) :
        LET Ids(c) == {i \in DOMAIN d[c] : <<c, i>> \in K}
        IN  /\ \A c \in C : Ids(c) \in SomeOf(Whole(d[c]), MaxArticles)
            /\ mem' = [c \in C |-> Loaded(d[c], Ids(c))]

\* There is a directory: it is used, whatever else there is.
StartFromDirectory ==
    /\ ~up /\ made
    /\ up' = TRUE /\ Load(disk)
    /\ UNCHANGED <<made, disk, yaml, posted, failed, bounds>>

\* What tn_load makes of the YAML file: of its categories, the articles that were
\* reached, up to the limit.  The fields of those above the limit go to the last
\* that was taken.  An error ends the parsing, in the middle of an article
\* perhaps, and what was read until then counts as the file: some categories, all
\* but the last of them to the end.
First(S, n) == {i \in S : Cardinality({j \in S : j < i}) < n}
Fields(c, i) == [text |-> yaml.cats[c][i].text, parent |-> yaml.cats[c][i].parent, active |-> TRUE]
NoFields == [text |-> Blank, parent |-> 0, active |-> TRUE]

FromYaml(r) ==
    [c \in r.cats |->
        LET read == First(DOMAIN yaml.cats[c], r.reached[c])
            ids == First(read, MaxArticles)
        IN  [arts |-> [i \in ids |-> IF i # Max(ids) THEN Fields(c, i)
                                    ELSE IF c \in r.torn THEN NoFields ELSE Fields(c, Max(read))],
             next |-> Max(ids \cup {0}) + 1]]

Readings ==
    LET D == DOMAIN yaml.cats
        all == [c \in D |-> Cardinality(DOMAIN yaml.cats[c])]
    IN  IF yaml.parses THEN [cats : {D}, reached : {all}, torn : {{}}]
        ELSE {r \in [cats : SUBSET D, reached : [D -> UNION {0 .. all[c] : c \in D}],
                     torn : SUBSET D] :
                /\ \A c \in D : r.reached[c] <= all[c]
                /\ Cardinality(r.torn \cup {c \in D : r.reached[c] < all[c]}) <= 1}

\* Mutant of Legacy: the old file is renamed first.
LegacyFirst(whole) == [yaml EXCEPT !.state = "legacy"]

\* Where the old file is, when the whole directory has been written and before.
Legacy(whole) == IF whole THEN [yaml EXCEPT !.state = "legacy"] ELSE yaml

\* mobius_migrate_yaml_to_dir: the directory is made and filled, as far as it can
\* be, then the old file renamed, then the directory loaded.
Migrate ==
    /\ ~up /\ ~made /\ yaml.state = "here"
    /\ made' = TRUE
    /\ \E m \in {FromYaml(r) : r \in Readings} : \E w \in SUBSET Writes(m) :
         \/ /\ Tried(m, w) /\ yaml' = Legacy(TRUE)
            /\ up' = TRUE /\ Load(disk')
            /\ posted' = Unwritten(Writes(m) \ w) /\ UNCHANGED <<failed, crashes>>
         \/ disk' = Written(disk, m, w) /\ Dies({}) /\ yaml' = Legacy(FALSE) /\ UNCHANGED failures
    /\ UNCHANGED changes

StartEmpty ==
    /\ ~up /\ ~made /\ yaml.state # "here"
    /\ made' = TRUE /\ up' = TRUE
    /\ UNCHANGED <<mem, disk, yaml, posted, failed, bounds>>

-----------------------------------------------------------------------------
Next ==
    \/ \E c \in Names :
         \/ \E p \in Parents, t \in Texts : PostNewsArt(c, p, t)
         \/ NewNewsCat(c)
         \/ DelNewsItem(c)
         \/ \E i \in 1 .. MaxArticles : DelNewsArt(c, i)
    \/ Crash
    \/ StartFromDirectory \/ Migrate \/ StartEmpty

Spec == Init /\ [][Next]_vars

-----------------------------------------------------------------------------
(* Properties.  *)

Article == [text : Texts \cup {Blank}, parent : Nat, active : BOOLEAN]
\* Memory holds no more than it has room for, and a category's next id is above
\* those of its articles, deleted ones included (next_article_id).
TypeOK ==
    /\ up \in BOOLEAN /\ made \in BOOLEAN
    /\ DOMAIN mem \subseteq Names /\ IsStore(disk)
    /\ Cardinality(DOMAIN mem) <= MaxCategories
    /\ \A c \in DOMAIN mem :
         /\ Cardinality(DOMAIN mem[c].arts) <= MaxArticles
         /\ \A i \in DOMAIN mem[c].arts : mem[c].arts[i] \in Article /\ i < mem[c].next
    /\ yaml.state \in {"none", "here", "legacy"}
    /\ ~up => mem = None

\* The disk never held more than a start-up can load.  Deleted categories and
\* articles keep their files, so this may end after enough deletions.
Roomy ==
    /\ Cardinality(DOMAIN disk) <= MaxCategories
    /\ \A c \in DOMAIN disk : Cardinality(DOMAIN disk[c]) <= MaxArticles

OnDisk(c, i) == c \in DOMAIN disk /\ i \in Whole(disk[c])

\* tn_get_article finds it.
Active(c, i) == c \in DOMAIN mem /\ i \in DOMAIN mem[c].arts /\ mem[c].arts[i].active

\* tn_load takes in the whole YAML file.
Readable ==
    /\ yaml.parses
    /\ \A c \in DOMAIN yaml.cats : Cardinality(DOMAIN yaml.cats[c]) <= MaxArticles

\* While the disk is Roomy, an article that was accepted, or that was there
\* before, survives crashes in the middle of a save or of the migration,
\* restarts and the deletion and new creation of its neighbours: its file is
\* there, in its thread and with its text or none, or still waits in the YAML
\* file; and a running server serves it (tn_dir_save, mobius_dir_news_new).  Of
\* writes that fail it survives those a later save makes good; and one of a YAML
\* file that tn_load does not take in may be lost to the migration.
Kept ==
    Roomy =>
      \A k \in DOMAIN posted :
        LET c == k[1]  i == k[2]  a == posted[k]
        IN  \/ a.old /\ (yaml.state = "here" \/ ~Readable)
            \/ /\ \/ k \in failed /\ up
                  \/ OnDisk(c, i) /\ disk[c][i].parent = a.parent /\ disk[c][i].text \in {a.text, Blank}
               /\ up => /\ Active(c, i) /\ mem[c].arts[i].parent = a.parent
                        /\ mem[c].arts[i].text \in {a.text, Blank}

\* What the documentation says of restarts: an article that is served still has
\* the text it was posted with.
TextKept ==
    \A k \in DOMAIN posted :
        Active(k[1], k[2]) => mem[k[1]].arts[k[2]].text = posted[k].text
=============================================================================
