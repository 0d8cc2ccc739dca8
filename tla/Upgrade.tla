------------------------------- MODULE Upgrade -------------------------------
(***************************************************************************)
(* A database of an older version brought up to date at start (db_init and *)
(* its MIGRATIONS, app/instadroid/db.py), the process dying at any step of *)
(* it, and the writes that follow.  `db` is what the file holds, `tx` what *)
(* the open transaction sees; they differ until a commit.                  *)
(*                                                                         *)
(* One account's posts.  A caption is text, whose hash has an older form, a *)
(* collapsed and a full one.                                               *)
(***************************************************************************)
EXTENDS Integers, FiniteSets, Functions

CONSTANTS
    Ids,         \* posts' ids
    Texts, Weak, \* captions long enough to tell posts apart; the placeholder
    Slots,       \* times posts were posted at
    Old,         \* databases the program may find: records [ver, posts, media]
    Last,        \* len(MIGRATIONS)
    MaxCrashes,  \* bound: how often the process dies
    MaxWrites,   \* bound: writes once it is up to date
    None

Forms == {"old", "short", "full"}
Hashes == (Texts \cup {Weak}) \X Forms
Covers == Ids \X {"cover"}
Slides == Ids \X {"slide"}

\* raw: the time posted_date parses to; slot: posted_at; recent: scraped_at is at most
\* RETAIN_DAYS back (that no row gets too old while the upgrade lasts is a bound).
Post == [text : Texts \cup {Weak}, raw : Slots \cup {None}, slot : Slots \cup {None},
         linked : BOOLEAN, recent : BOOLEAN,
         cover : Covers \cup {None}, hash : Hashes, alt : Hashes \cup {None}]

\* A database with the index, of version 8 or later, is one of these brought up to date.
\* Each row has its own pictures.
ASSUME UpgradeAssumption ==
    /\ Weak \notin Texts /\ {Last, MaxCrashes, MaxWrites} \subseteq Nat /\ Last >= 9
    /\ None \notin Hashes \cup Covers \cup Slides
    /\ \A old \in Old :
        /\ old.ver \in 0 .. 7 /\ DOMAIN old.posts \subseteq Ids /\ IsFiniteSet(DOMAIN old.posts)
        /\ \A p \in DOMAIN old.posts : old.posts[p] \in Post
        /\ \A p, q \in DOMAIN old.posts :
              old.posts[p].cover = old.posts[q].cover => p = q \/ old.posts[p].cover = None
        /\ DOMAIN old.media \subseteq DOMAIN old.posts
        /\ \A p \in DOMAIN old.media : old.media[p] \in Slides
        /\ \A p, q \in DOMAIN old.media : old.media[p] = old.media[q] => p = q

VARIABLES
    db, tx,   \* [ver, posts, media, index, captions, triggers]
    files,    \* MEDIA_DIR
    pc,       \* where the process is
    todo,     \* rows a migration has yet to look at
    doomed,   \* files to discard, their rows being gone
    crashes, writes, \* bounds
    \* What happened, read by no guard:
    lost      \* files the first migration discarded before a crash undid it

vars == <<db, tx, files, pc, todo, doomed, crashes, writes, lost>>

Without(f, keys) == [k \in DOMAIN f \ keys |-> f[k]]
With(f, key, value) == [k \in DOMAIN f \cup {key} |-> IF k = key THEN value ELSE f[k]]

------------------------------------------------------------------------------
(* The search index: index is posts_fts_ids, captions is posts_fts.         *)

\* Mutant: the entry's number is forgotten before it is looked up.
FtsDropIdsFirst(t, id) == [t EXCEPT !.index = Without(@, {id})]

\* _fts_drop
FtsDrop(t, id) ==
    [t EXCEPT !.index = Without(@, {id}),
              !.captions = IF id \in DOMAIN t.index THEN Without(@, {t.index[id]}) ELSE @]

\* _FTS_ADD: SQLite gives the entry the number after the highest in use.
Highest(S) == IF S = {} THEN 0 ELSE CHOOSE n \in S : \A m \in S : m <= n
FtsAdd(t, id) ==
    LET n == 1 + Highest({t.index[i] : i \in DOMAIN t.index})
    IN [t EXCEPT !.index = With(@, id, n), !.captions = With(@, n, t.posts[id].text)]

\* DELETE FROM posts, INSERT [OR REPLACE] INTO posts, with the triggers if they are there.
DeletePost(t, id) ==
    LET u == [t EXCEPT !.posts = Without(@, {id})]
    IN IF t.triggers THEN FtsDrop(u, id) ELSE u
PutPost(t, id, post) ==
    LET u == [t EXCEPT !.posts = With(@, id, post)]
    IN IF t.triggers THEN FtsAdd(FtsDrop(u, id), id) ELSE u

\* The whole index anew, in whatever order the rows come.
Filled(t) ==
    {[t EXCEPT !.index = order,
               !.captions = [n \in {order[i] : i \in DOMAIN order} |->
                                t.posts[CHOOSE i \in DOMAIN order : order[i] = n].text]] :
        order \in Bijection(DOMAIN t.posts, 1 .. Cardinality(DOMAIN t.posts))}

\* posts_page joined with the index: what a search for a caption shows.
Found(t, text) ==
    {id \in DOMAIN t.posts \cap DOMAIN t.index :
        t.index[id] \in DOMAIN t.captions /\ t.captions[t.index[id]] = text}

------------------------------------------------------------------------------
(* Merging.                                                                 *)

KeyOf(text) == <<text, "full">>

\* _find_same_caption, find_duplicate: the row a merge of `id` goes into.
SameCaption(t, id) ==
    LET same == {d \in DOMAIN t.posts \ {id} :
                    t.posts[d].recent /\ t.posts[d].text = t.posts[id].text}
        linked == {d \in same : t.posts[d].linked}
    IN IF t.posts[id].text = Weak THEN {} ELSE IF linked # {} THEN linked ELSE same
Duplicates(t, id, slot) ==
    IF slot = None THEN SameCaption(t, id)
    ELSE {d \in DOMAIN t.posts \ {id} :
            /\ t.posts[d].slot = slot
            /\ Weak \in {t.posts[d].text, t.posts[id].text} \/ t.posts[d].text = t.posts[id].text}

Or(a, b) == IF a # None THEN a ELSE b

\* merged_fields: what replaces `old` when `new` is the same post.
Merged(old, new) ==
    [text   |-> IF old.text = Weak THEN new.text ELSE old.text,
     raw    |-> Or(old.raw, new.raw),
     slot   |-> Or(old.slot, new.slot),
     linked |-> old.linked \/ new.linked,
     recent |-> old.recent,
     cover  |-> Or(old.cover, new.cover),
     hash   |-> new.hash,
     alt    |-> IF new.alt \notin {None, new.hash} THEN new.alt
                ELSE IF old.hash # new.hash THEN old.hash
                ELSE IF old.alt # new.hash THEN old.alt ELSE None]
MergedId(oldId, newId, old, new) == IF new.linked /\ ~old.linked THEN newId ELSE oldId
DroppedCover(old, new) ==
    IF new.cover # None /\ old.cover \notin {None, new.cover} THEN {new.cover} ELSE {}

\* write_merged
WriteMerged(t, oldId, newId, post) ==
    PutPost(IF newId # oldId THEN DeletePost(t, oldId) ELSE t, newId, post)

------------------------------------------------------------------------------
(* Migrations.                                                              *)

Running(m) == pc = "migrating" /\ tx.ver = m - 1

\* _migrate: the migration's own changes, if still open, and the version go together.
Bumped(t) ==
    /\ tx' = [t EXCEPT !.ver = @ + 1] /\ db' = tx'
    /\ UNCHANGED <<files, doomed, crashes, writes, lost>>

\* db_init
Start ==
    /\ pc = "down"
    /\ pc' = IF db.ver < Last THEN "migrating" ELSE "ready"
    /\ UNCHANGED <<db, tx, files, todo, doomed, crashes, writes, lost>>

\* _migrate_dedupe: posted_at is filled in and committed, ...
BackfillDates ==
    /\ Running(1)
    /\ tx' = [tx EXCEPT !.posts =
                 [p \in DOMAIN tx.posts |->
                     [tx.posts[p] EXCEPT !.slot = Or(tx.posts[p].slot, tx.posts[p].raw)]]]
    /\ db' = tx' /\ pc' = "dedupe" /\ todo' = DOMAIN tx.posts
    /\ UNCHANGED <<files, doomed, crashes, writes, lost>>

\* ... then rows are merged in one transaction, each losing its file on the way.
Dedupe(id) ==
    /\ pc = "dedupe" /\ id \in todo
    /\ todo' = todo \ {id}
    /\ LET dups == IF id \in DOMAIN tx.posts THEN Duplicates(tx, id, tx.posts[id].raw) ELSE {}
       IN IF dups = {} THEN UNCHANGED <<tx, files>>
          ELSE \E d \in dups :
            LET old == tx.posts[d]
                new == tx.posts[id]
                to  == MergedId(d, id, old, new)
            IN /\ files' = files \ DroppedCover(old, new)
               /\ tx' = WriteMerged(IF to # id THEN DeletePost(tx, id) ELSE tx,
                                    d, to, Merged(old, new))
    /\ UNCHANGED <<db, pc, doomed, crashes, writes, lost>>

DedupeDone ==
    /\ pc = "dedupe" /\ todo = {}
    /\ Bumped(tx) /\ pc' = "migrating" /\ UNCHANGED todo

\* _migrate_accounts, _migrate_story_retention, _migrate_drop_media_post_index and
\* _migrate_updated_at change nothing modelled here.
Elsewhere ==
    /\ \E m \in {2, 3, 4, 9} : Running(m)
    /\ Bumped(tx) /\ pc' = (IF tx'.ver = Last THEN "ready" ELSE pc) /\ UNCHANGED todo

\* _migrate_rehash and _migrate_alt_hash commit before the version does.
Rehash ==
    /\ Running(5)
    /\ tx' = [tx EXCEPT !.posts =
                 [p \in DOMAIN @ |-> [@[p] EXCEPT !.hash = KeyOf(tx.posts[p].text)]]]
    /\ db' = tx' /\ pc' = "bump"
    /\ UNCHANGED <<files, todo, doomed, crashes, writes, lost>>

\* Mutant: the expanded ones.
ExpandedOnly(post) == post.alt = None /\ post.hash = KeyOf(post.text)

\* Stored as last seen collapsed.
Collapsed(post) == post.alt = None /\ post.hash # KeyOf(post.text)
AltHash ==
    /\ Running(6)
    /\ tx' = [tx EXCEPT !.posts =
                 [p \in DOMAIN @ |->
                     IF Collapsed(@[p]) THEN [@[p] EXCEPT !.alt = KeyOf(tx.posts[p].text)]
                     ELSE @[p]]]
    /\ db' = tx' /\ pc' = "bump"
    /\ UNCHANGED <<files, todo, doomed, crashes, writes, lost>>

Bump == pc = "bump" /\ Bumped(tx) /\ pc' = "migrating" /\ UNCHANGED todo

\* _migrate_merge_twins: rows with neither link nor date, each merge committed and only
\* then its files discarded.
FindTwins ==
    /\ Running(7)
    /\ todo' = {p \in DOMAIN tx.posts : ~tx.posts[p].linked /\ tx.posts[p].slot = None}
    /\ pc' = "twins"
    /\ UNCHANGED <<db, tx, files, doomed, crashes, writes, lost>>

\* UPDATE OR IGNORE media: a slide follows its cover unless the keeper has one.
MovedMedia(media, id, keeper, adopted) ==
    Without(IF adopted /\ id \in DOMAIN media /\ keeper \notin DOMAIN media
            THEN With(media, keeper, media[id]) ELSE media, {id})

\* Mutant: the slides are read before they move.
SlidesReadFirst(media, id, keeper, adopted) ==
    IF id \in DOMAIN media THEN {media[id]} ELSE {}

\* The slides that did not move.
SlidesDropped(media, id, keeper, adopted) ==
    IF id \in DOMAIN media /\ ~(adopted /\ keeper \notin DOMAIN media) THEN {media[id]} ELSE {}

MergeTwin(id) ==
    /\ pc = "twins" /\ doomed = {} /\ id \in todo
    /\ todo' = todo \ {id}
    /\ LET dups == IF id \in DOMAIN tx.posts THEN SameCaption(tx, id) ELSE {}
       IN IF dups = {} THEN UNCHANGED <<db, tx, doomed>>
          ELSE \E d \in dups :
            LET old == tx.posts[d]
                new == tx.posts[id]
                row == Merged(old, new)
                adopted == new.cover # None /\ row.cover = new.cover
            IN /\ tx' = WriteMerged(
                    DeletePost([tx EXCEPT !.media = MovedMedia(@, id, d, adopted)], id), d, d, row)
               /\ db' = tx'
               /\ doomed' = DroppedCover(old, new) \cup SlidesDropped(tx.media, id, d, adopted)
    /\ UNCHANGED <<files, pc, crashes, writes, lost>>

DiscardMedia ==
    /\ doomed # {}
    /\ files' = files \ doomed /\ doomed' = {}
    /\ UNCHANGED <<db, tx, pc, todo, crashes, writes, lost>>

TwinsDone ==
    /\ pc = "twins" /\ doomed = {} /\ todo = {}
    /\ Bumped(tx) /\ pc' = "migrating" /\ UNCHANGED todo

\* _migrate_search_index: the tables and triggers are there at once, ...
CreateIndex ==
    /\ Running(8)
    /\ tx' = [tx EXCEPT !.triggers = TRUE] /\ db' = tx'
    /\ pc' = "fill"
    /\ UNCHANGED <<files, todo, doomed, crashes, writes, lost>>

\* ... and are filled, from nothing, in one transaction with the version.
FillIndex ==
    /\ pc = "fill"
    /\ \E t \in Filled(tx) : Bumped(t)
    /\ pc' = "migrating" /\ UNCHANGED todo

------------------------------------------------------------------------------
(* Writes to the upgraded database, and the process dying.                  *)

Wrote(t) ==
    /\ pc = "ready" /\ doomed = {} /\ writes < MaxWrites
    /\ tx' = t /\ db' = t /\ writes' = writes + 1
    /\ UNCHANGED <<pc, todo, crashes, lost>>

\* insert_row, a new post's or the merge of a card into a row, under the id of its link or
\* the row's own.  Their pictures are PostStore's.
NewPost(text) ==
    [text |-> text, raw |-> None, slot |-> None, linked |-> FALSE,
     recent |-> TRUE, cover |-> None, hash |-> KeyOf(text), alt |-> None]
Insert(id, text) ==
    /\ id \notin DOMAIN tx.posts
    /\ Wrote(PutPost(tx, id, NewPost(text)))
    /\ UNCHANGED <<files, doomed>>

Merge(id, to, text) ==
    /\ id \in DOMAIN tx.posts /\ (to = id \/ to \notin DOMAIN tx.posts)
    /\ tx.posts[id].text \in {Weak, text}
    /\ Wrote(WriteMerged(tx, id, to, Merged(tx.posts[id], NewPost(text))))
    /\ UNCHANGED <<files, doomed>>

\* prune_old_posts, _enforce_size_cap
Prune(id) ==
    /\ id \in DOMAIN tx.posts
    /\ LET shown == IF tx.posts[id].cover = None THEN {} ELSE {tx.posts[id].cover}
           slide == IF id \in DOMAIN tx.media THEN {tx.media[id]} ELSE {}
       IN doomed' = shown \cup slide
    /\ Wrote(DeletePost([tx EXCEPT !.media = Without(@, {id})], id))
    /\ UNCHANGED files

\* What is not committed is undone; what was unlinked is not.
Shown(t) == {t.posts[p].cover : p \in DOMAIN t.posts} \cup {t.media[p] : p \in DOMAIN t.media}
Crash ==
    /\ pc # "down" /\ crashes < MaxCrashes
    /\ crashes' = crashes + 1
    /\ pc' = "down" /\ tx' = db /\ todo' = {} /\ doomed' = {}
    /\ lost' = IF pc = "dedupe" THEN lost \cup (Shown(db) \ files) ELSE lost
    /\ UNCHANGED <<db, files, writes>>

------------------------------------------------------------------------------

Init ==
    /\ \E old \in Old :
        /\ db = [ver |-> old.ver, posts |-> old.posts, media |-> old.media,
                 index |-> [i \in {} |-> None], captions |-> [i \in {} |-> None],
                 triggers |-> FALSE]
        /\ files = Shown(db) \ {None}
    /\ tx = db /\ pc = "down" /\ todo = {} /\ doomed = {}
    /\ crashes = 0 /\ writes = 0 /\ lost = {}

Next ==
    \/ Start \/ BackfillDates \/ (\E id \in Ids : Dedupe(id)) \/ DedupeDone
    \/ Elsewhere \/ Rehash \/ AltHash \/ Bump
    \/ FindTwins \/ (\E id \in Ids : MergeTwin(id)) \/ DiscardMedia \/ TwinsDone
    \/ CreateIndex \/ FillIndex
    \/ (\E id \in Ids, text \in Texts : Insert(id, text))
    \/ (\E id, to \in Ids, text \in Texts : Merge(id, to, text))
    \/ (\E id \in Ids : Prune(id))
    \/ Crash

Spec == Init /\ [][Next]_vars

------------------------------------------------------------------------------

\* Once the index is there it finds each stored post by its caption, and each only by
\* that, through replaced rows, reused ids and retries of the migration that fills it
\* (db.py:782-810).
SearchMatches ==
    db.ver >= 8 =>
        /\ \A id \in DOMAIN db.posts : id \in Found(db, db.posts[id].text)
        /\ DOMAIN db.captions = {db.index[i] : i \in DOMAIN db.index}
        /\ DOMAIN db.index = DOMAIN db.posts

\* A row's cover and slides stay on disk whatever the upgrade merges and wherever it
\* dies (db.py:722-766), but for what a crash in the first migration loses: it unlinks
\* before it commits (db.py:592-638).
PicturesKept ==
    LET t == IF pc = "dedupe" THEN tx ELSE db
    IN /\ \A id \in DOMAIN t.posts : t.posts[id].cover \in files \cup lost \cup {None}
       /\ \A id \in DOMAIN t.media \cap DOMAIN t.posts : t.media[id] \in files \cup lost

\* After the upgrade's merges a post on screen is recognised as the one stored: by the
\* hash of its caption (db.py:668-690, 701-719), and, stored undated and without its
\* link, under no second row scraped RETAIN_DAYS back (db.py:722-766).
PostsRecognised ==
    (db.ver >= 7 /\ writes = 0) =>
        \A id \in DOMAIN db.posts :
            /\ KeyOf(db.posts[id].text) \in {db.posts[id].hash, db.posts[id].alt}
            /\ (~db.posts[id].linked /\ db.posts[id].slot = None) => SameCaption(db, id) = {}

==============================================================================
