----------------------------- MODULE PostStore -----------------------------
(***************************************************************************)
(* What the feed walk does with each card it sees (_handle_card and        *)
(* _store_post, app/instadroid/scrape.py), the posts and media tables, the *)
(* files beside them (app/instadroid/retention.py) and the process dying   *)
(* between a file operation and the commit it belongs to.                  *)
(*                                                                         *)
(* A form is one way a post shows on screen: its caption not rendered yet, *)
(* collapsed, or expanded.  What a form hashes to, the text it shows and   *)
(* the form "... more" expands it to are constants.                        *)
(***************************************************************************)
EXTENDS Integers, FiniteSets

CONSTANTS
    Forms,           \* the ways posts show on screen
    PostOf,          \* [Forms -> posts]
    UserOf,          \* [Forms -> usernames]: who heads the card
    Key,             \* [Forms -> hashes]: post_id()
    Text,            \* [Forms -> texts]: the caption, as duplicates compare it
    Expanded,        \* [Forms -> Forms]: what expand_caption() shows
    Code,            \* [posts -> shortcodes]: the permalink
    Slot,            \* [posts -> times]: posts within same_post()'s tolerance share one
    Weak,            \* the text of a missing or placeholder caption
    Telling,         \* texts longer than any collapsed one (CAPTION_KEY_CHARS)
    LinkRetries,     \* PERMALINK_RETRIES
    BackfillTries,   \* PERMALINK_BACKFILL_TRIES
    BackfillsPerRun, \* PERMALINK_BACKFILL_PER_RUN
    MaxSlides,       \* bound: extra slides of a carousel
    StaleLinks,      \* whether the clipboard may hand out another post's link
    MaxRuns,         \* bound: runs of the scraper
    None             \* SQL NULL, Python None

Posts  == {PostOf[f] : f \in Forms}
Hashes == {Key[f] : f \in Forms}
Codes  == {Code[p] : p \in Posts}
Ids    == Hashes \cup Codes

ASSUME FormsAssumption ==
    /\ DOMAIN PostOf = Forms /\ DOMAIN UserOf = Forms /\ DOMAIN Key = Forms
    /\ DOMAIN Text = Forms /\ Expanded \in [Forms -> Forms]
    /\ Posts \subseteq DOMAIN Code /\ Posts \subseteq DOMAIN Slot
    /\ \A f \in Forms : PostOf[Expanded[f]] = PostOf[f] /\ UserOf[Expanded[f]] = UserOf[f]
    /\ \A p, q \in Posts : Code[p] = Code[q] => p = q
    /\ Hashes \cap Codes = {} /\ None \notin Ids /\ Weak \notin Telling
ASSUME LimitsAssumption ==
    /\ LinkRetries \in Nat /\ BackfillTries \in Nat /\ BackfillsPerRun \in Nat
    /\ MaxSlides \in Nat /\ MaxRuns \in Nat /\ StaleLinks \in BOOLEAN

\* A media file is named after an id: the cover, then _1, _2, ...
File == [stem : Ids, n : 0 .. MaxSlides]
Cover(id) == [stem |-> id, n |-> 0]
Slides(id, k) == {[stem |-> id, n |-> i] : i \in 1 .. k}

Row == [post : Posts, user : {UserOf[f] : f \in Forms}, text : {Text[f] : f \in Forms},
        hash : Hashes, alt : Hashes \cup {None}, url : Codes \cup {None},
        cover : SUBSET File, slot : {Slot[p] : p \in Posts} \cup {None}, tries : Nat]

VARIABLES
    posts,     \* the posts table: id -> Row; a cover is one file, or none
    slides,    \* the media table: pairs <<post_id, file>>
    files,     \* MEDIA_DIR
    pc,        \* where the scraper is
    card,      \* the card being handled
    thisRun,   \* run.this_run
    failures,  \* run.link_failures
    backfills, \* run.backfills_left
    doomed,    \* files that go once the rows are committed
    aged,      \* ids of rows scraped before RETAIN_DAYS back, until retention comes
    runsLeft   \* bound: runs that may still start

disk == <<posts, slides, files>>
run  == <<thisRun, failures, backfills>>
core == <<disk, pc, card, run, doomed, runsLeft>>
vars == <<core, aged>>

NoCard == [form |-> None, shown |-> None, dated |-> FALSE, headless |-> FALSE,
           media |-> FALSE, extra |-> 0, url |-> None]

------------------------------------------------------------------------------
(* Looking rows up.                                                        *)

\* posts.hash=? OR posts.alt_hash=? OR posts.id=?
SeenAs(h) == {id \in DOMAIN posts : h \in {id, posts[id].hash, posts[id].alt}}

\* _find_same_caption: by caption alone, RETAIN_DAYS back, a permalinked row first.
SameCaption(u, t) ==
    LET match == {id \in DOMAIN posts \ aged : posts[id].user = u /\ posts[id].text = t}
        linked == {id \in match : posts[id].url # None}
    IN IF t \notin Telling THEN {} ELSE IF linked # {} THEN linked ELSE match

\* find_duplicate: same_post() for a dated card.
Duplicates(u, t, dated, slot) ==
    IF ~dated THEN SameCaption(u, t)
    ELSE {id \in DOMAIN posts :
            /\ posts[id].user = u /\ posts[id].slot = slot
            /\ Weak \in {t, posts[id].text} \/ posts[id].text = t}

\* _find_stored: by hash, else a card that shows no date by its caption.
Stored(f, showsDate) ==
    LET seen == SeenAs(Key[f])
    IN IF seen # {} \/ showsDate THEN seen ELSE SameCaption(UserOf[f], Text[f])

\* run.backfills_left, _needs_permalink
NeedsLinkUncapped(id) == posts[id].url = None /\ posts[id].tries < BackfillTries
NeedsLink(id) ==
    backfills > 0 /\ posts[id].url = None /\ posts[id].tries < BackfillTries

\* The other rows a permalink is already stored for.
TakenById(id, code) == {o \in DOMAIN posts \ {id} : o = code}
Taken(id, code) == {o \in DOMAIN posts \ {id} : code \in {o, posts[o].url}}

\* remember_hash: the newest hash, and the one it replaces.
Remember(id, h) ==
    IF posts[id].hash = h THEN posts
    ELSE [posts EXCEPT ![id].alt = posts[id].hash, ![id].hash = h]

Or(a, b) == IF a # None THEN a ELSE b

\* merged_fields: `old` with what the card `new` adds.
MergedForgetsLink(old, new) ==
    [old EXCEPT !.hash = new.hash, !.tries = 0,
        !.cover = IF old.cover # {} THEN old.cover ELSE new.cover]
Merged(old, new) ==
    [old EXCEPT
        !.text  = IF old.text = Weak THEN new.text ELSE old.text,
        !.hash  = new.hash,
        !.alt   = IF new.alt # None THEN new.alt
                  ELSE IF old.hash # new.hash THEN old.hash
                  ELSE IF old.alt # new.hash THEN old.alt ELSE None,
        !.url   = Or(old.url, new.url),
        !.cover = IF old.cover # {} THEN old.cover ELSE new.cover,
        !.slot  = Or(old.slot, new.slot),
        !.tries = 0]

MergedIdNewest(oldId, newId, old, new) == IF new.url # None THEN newId ELSE oldId
MergedId(oldId, newId, old, new) ==
    IF new.url # None /\ old.url = None THEN newId ELSE oldId

\* write_merged: delete the old id, insert or replace the new one.
Replace(oldId, newId, row) ==
    [id \in (DOMAIN posts \ {oldId}) \cup {newId} |->
        IF id = newId THEN row ELSE posts[id]]

\* What the card captured so far left on disk, under its hash.
Captured == IF card.media
            THEN {Cover(Key[card.form])} \cup Slides(Key[card.form], card.extra) ELSE {}

\* What a merge into `row` discards: the extra slides, and a crop it did not adopt.
RedundantAll(row) == Captured
Redundant(row) == Captured \ row.cover

------------------------------------------------------------------------------
Init ==
    /\ posts = <<>> /\ slides = {} /\ files = {}
    /\ pc = "idle" /\ card = NoCard /\ doomed = {} /\ aged = {}
    /\ thisRun = {} /\ failures = [h \in Hashes |-> 0] /\ backfills = 0
    /\ runsLeft = MaxRuns

\* _scrape_feed: a new _FeedRun.
StartRun ==
    /\ pc \in {"idle", "swept"} /\ runsLeft > 0
    /\ runsLeft' = runsLeft - 1
    /\ thisRun' = {} /\ failures' = [h \in Hashes |-> 0]
    /\ backfills' = BackfillsPerRun
    /\ pc' = "walk"
    /\ UNCHANGED <<disk, card, doomed, aged>>

\* _handle_card: the card is known; its link may be tried again.
SeeStored(f, showsDate) ==
    /\ pc = "walk" /\ Key[f] \notin thisRun
    /\ \E id \in Stored(f, showsDate) :
        /\ posts' = IF SeenAs(Key[f]) # {} THEN posts ELSE Remember(id, Key[f])
        /\ thisRun' = thisRun \cup {Key[f]}
        /\ IF NeedsLink(id)
           THEN /\ pc' = "backfill" /\ backfills' = backfills - 1
                /\ card' = [NoCard EXCEPT !.form = f, !.shown = id]
           ELSE UNCHANGED <<pc, backfills, card>>
    /\ UNCHANGED <<slides, files, failures, doomed, aged, runsLeft>>

\* _handle_card: an unknown card is captured before any sheet opens.  The date it
\* shows may be one parse_posted_at() cannot read; whether its header had scrolled
\* off, as it has where no date shows, is asked only of a card whose date is not read.
Capture(f, showsDate) ==
    /\ pc = "walk" /\ Key[f] \notin thisRun /\ Stored(f, showsDate) = {}
    /\ \E media, dated, headless \in BOOLEAN, k \in 0 .. MaxSlides :
        /\ ~media => k = 0
        /\ dated => showsDate /\ ~headless
        /\ ~showsDate => headless
        /\ card' = [form |-> f, shown |-> None, dated |-> dated, headless |-> headless,
                    media |-> media, extra |-> k, url |-> None]
    /\ files' = files \cup Captured'
    /\ pc' = "link"
    /\ UNCHANGED <<posts, slides, run, doomed, aged, runsLeft>>

\* The link the share sheet gives: none, the card's, or a stale one of another
\* post, which only an emptied clipboard (`certain`) rules out.
Links(p) == {[url |-> None, certain |-> FALSE], [url |-> Code[p], certain |-> TRUE],
             [url |-> Code[p], certain |-> FALSE]}
            \cup (IF StaleLinks THEN [url : Codes, certain : {FALSE}] ELSE {})

\* No link: forget the capture and try again on a later screen.
LinkFails ==
    /\ pc = "link" /\ failures[Key[card.form]] < LinkRetries
    /\ failures' = [failures EXCEPT ![Key[card.form]] = @ + 1]
    /\ files' = files \ Captured
    /\ pc' = "walk" /\ card' = NoCard
    /\ UNCHANGED <<posts, slides, thisRun, backfills, doomed, aged, runsLeft>>

\* The link, or no link and no tries left; _check_permalink says "free" or "stale".
\* The hash goes back out of this_run when the sheet left the feed; _store_post
\* expands the caption.
LinkFree ==
    /\ pc = "link"
    /\ \E l \in Links(PostOf[card.form]), left \in BOOLEAN,
          f \in {card.form, Expanded[card.form]} :
        /\ l.url = None => failures[Key[card.form]] >= LinkRetries
        /\ l.url \in DOMAIN posts =>
              ~l.certain /\ posts[l.url].user # UserOf[card.form]
        /\ thisRun' = IF left THEN thisRun \ {Key[card.form]}
                      ELSE thisRun \cup {Key[card.form]}
        /\ card' = [card EXCEPT !.shown = f,
                                !.url = IF l.url \in DOMAIN posts THEN None ELSE l.url]
    /\ pc' = "store"
    /\ UNCHANGED <<disk, failures, backfills, doomed, aged, runsLeft>>

\* _check_permalink says "stored": remember the hash, drop the capture.
LinkStored ==
    /\ pc = "link"
    /\ \E l \in Links(PostOf[card.form]), left \in BOOLEAN :
        /\ l.url \in DOMAIN posts
        /\ l.certain \/ posts[l.url].user = UserOf[card.form]
        /\ thisRun' = IF left THEN thisRun \ {Key[card.form]}
                      ELSE thisRun \cup {Key[card.form]}
        /\ posts' = Remember(l.url, Key[card.form])
    /\ doomed' = Captured /\ pc' = "discard" /\ card' = NoCard
    /\ UNCHANGED <<slides, files, failures, backfills, aged, runsLeft>>

Pid == IF card.url # None THEN card.url ELSE Key[card.form]

\* The row _store_post builds, the crop still named after the hash.
NewRow ==
    [post |-> PostOf[card.form], user |-> UserOf[card.form], text |-> Text[card.shown],
     hash |-> Key[card.form],
     alt |-> IF Key[card.shown] # Key[card.form] THEN Key[card.shown] ELSE None,
     url |-> card.url,
     cover |-> IF card.media THEN {Cover(Key[card.form])} ELSE {},
     slot |-> IF card.dated THEN Slot[PostOf[card.form]] ELSE None, tries |-> 0]

DuplicatesOfCard ==
    Duplicates(UserOf[card.form], Text[card.shown], card.dated, Slot[PostOf[card.form]])

\* _store_post merges the card into a stored row; its files go after the commit.
Merge ==
    /\ pc = "store"
    /\ \E dup \in DuplicatesOfCard :
        LET old == posts[dup]
            row == Merged(old, NewRow)
            new == MergedId(dup, Pid, old, NewRow)
        IN /\ posts' = Replace(dup, new, row)
           /\ doomed' = Redundant(row)
           /\ aged' = IF dup \in aged THEN (aged \ {dup}) \cup {new} ELSE aged
    /\ thisRun' = thisRun \cup {Key[card.shown]}
    /\ pc' = "discard" /\ card' = NoCard
    /\ UNCHANGED <<slides, files, failures, backfills, runsLeft>>

\* _store_post skips a header-less card nothing can identify.
Skip ==
    /\ pc = "store" /\ DuplicatesOfCard = {}
    /\ ~card.dated /\ card.headless /\ card.url = None
    /\ thisRun' = thisRun \cup {Key[card.shown]}
    /\ files' = files \ Captured
    /\ pc' = "walk" /\ card' = NoCard
    /\ UNCHANGED <<posts, slides, failures, backfills, doomed, aged, runsLeft>>

\* _rename_media: the crops of a card with a permalink take its name first.
Rename ==
    /\ pc = "store" /\ DuplicatesOfCard = {}
    /\ card.media /\ Pid # Key[card.form]
    /\ files' = (files \ Captured) \cup {Cover(Pid)} \cup Slides(Pid, card.extra)
    /\ pc' = "renamed"
    /\ UNCHANGED <<posts, slides, card, run, doomed, aged, runsLeft>>

\* _store_post inserts the row and its slides.
Insert ==
    /\ \/ pc = "renamed"
       \/ /\ pc = "store" /\ DuplicatesOfCard = {}
          /\ card.dated \/ ~card.headless \/ card.url # None
          /\ ~card.media \/ Pid = Key[card.form]
    /\ posts' = [id \in DOMAIN posts \cup {Pid} |->
                    IF id = Pid
                    THEN [NewRow EXCEPT !.cover = IF card.media THEN {Cover(Pid)} ELSE {}]
                    ELSE posts[id]]
    /\ slides' = {s \in slides : s[1] # Pid \/ s[2].n > card.extra}
                 \cup {<<Pid, file>> : file \in Slides(Pid, card.extra)}
    /\ thisRun' = thisRun \cup {Key[card.shown]}
    /\ pc' = "walk" /\ card' = NoCard
    /\ UNCHANGED <<files, failures, backfills, doomed, aged, runsLeft>>

\* discard_media, after the commit that made the files redundant.
Discard ==
    /\ pc = "discard"
    /\ files' = files \ doomed /\ doomed' = {}
    /\ pc' = "walk"
    /\ UNCHANGED <<posts, slides, card, run, aged, runsLeft>>

\* _backfill_permalink: the link of a row stored without one, its id unchanged.
Backfill ==
    /\ pc = "backfill"
    /\ \E l \in Links(PostOf[card.form]) :
        LET id == card.shown
        IN posts' = [posts EXCEPT ![id].tries = @ + 1,
                                  ![id].url = IF Taken(id, l.url) = {} THEN l.url ELSE None]
    /\ pc' = "walk" /\ card' = NoCard
    /\ UNCHANGED <<slides, files, run, doomed, aged, runsLeft>>

------------------------------------------------------------------------------
(* The end of a run: retention, or the process dying.                      *)

\* Time passes: a row's scraped_at falls behind retain_cutoff().
Age ==
    /\ \E id \in DOMAIN posts \ aged : aged' = aged \cup {id}
    /\ UNCHANGED core

FilesOf(ids) ==
    (UNION {posts[id].cover : id \in ids}) \cup {s[2] : s \in {t \in slides : t[1] \in ids}}

SlidesKept(ids) == slides
SlidesWithout(ids) == {s \in slides : s[1] \notin ids}

\* prune_old_posts: rows past RETAIN_DAYS, or over the size cap, go first.
Expire(old) ==
    /\ pc = "walk"
    /\ aged \subseteq old /\ aged' = {}
    /\ posts' = [id \in DOMAIN posts \ old |-> posts[id]]
    /\ slides' = SlidesWithout(old)
    /\ doomed' = FilesOf(old)
    /\ pc' = "sweep"
    /\ UNCHANGED <<files, card, run, runsLeft>>

\* ... then their files, and _sweep_orphans: every file no row references.
Sweep ==
    /\ pc = "sweep"
    /\ files' = {f \in files \ doomed : \/ \E id \in DOMAIN posts : f \in posts[id].cover
                                       \/ \E s \in slides : s[2] = f}
    /\ doomed' = {} /\ thisRun' = {} /\ failures' = [h \in Hashes |-> 0]
    /\ backfills' = 0
    /\ pc' = "swept"
    /\ UNCHANGED <<posts, slides, card, aged, runsLeft>>

\* The run fails, or the process dies: what is committed and on disk stays.
Crash ==
    /\ pc \notin {"idle", "swept"}
    /\ pc' = "idle" /\ card' = NoCard /\ doomed' = {}
    /\ thisRun' = {} /\ failures' = [h \in Hashes |-> 0] /\ backfills' = 0
    /\ UNCHANGED <<disk, aged, runsLeft>>

Handle == \E f \in Forms, showsDate \in BOOLEAN :
             SeeStored(f, showsDate) \/ Capture(f, showsDate)
Resolve == LinkFails \/ LinkFree \/ LinkStored \/ Backfill
Store == Merge \/ Skip \/ Rename \/ Insert \/ Discard
Retain == Age \/ (\E old \in SUBSET DOMAIN posts : Expire(old)) \/ Sweep

Next == StartRun \/ Handle \/ Resolve \/ Store \/ Retain \/ Crash

Spec == Init /\ [][Next]_vars

------------------------------------------------------------------------------
(* Properties.                                                             *)

TypeOK ==
    /\ DOMAIN posts \subseteq Ids /\ \A id \in DOMAIN posts : posts[id] \in Row
    /\ slides \subseteq Ids \X File /\ files \subseteq File /\ doomed \subseteq File
    /\ pc \in {"idle", "walk", "link", "store", "renamed", "discard", "backfill",
               "sweep", "swept"}
    /\ card.form \in Forms \cup {None} /\ card.url \in Codes \cup {None}
    /\ thisRun \subseteq Hashes /\ failures \in [Hashes -> Nat]
    /\ backfills \in 0 .. BackfillsPerRun /\ runsLeft \in 0 .. MaxRuns
    /\ aged \subseteq Ids

\* An entry's id is what readers know it by.  It changes only when a merge gives a
\* row without a permalink its permalink's id; a row with a permalink keeps id and
\* permalink until retention removes it (merged_fields, _backfill_permalink).
EntryIdsKept ==
    [][pc' # "sweep" => \A id \in DOMAIN posts :
          \/ /\ id \in DOMAIN posts'
             /\ posts[id].url \in {None, posts'[id].url}
          \/ /\ posts[id].url = None
             /\ \E new \in DOMAIN posts' \ DOMAIN posts :
                   posts'[new].url = new /\ posts'[new].post = posts[id].post]_vars

\* A row stored under a shortcode carries that permalink.
CodeIsLink == \A id \in DOMAIN posts : id \in Codes => posts[id].url = id

\* No backfill gives a permalink to a second row: a second row with one can only be that
\* stored under its shortcode, since _backfill_permalink looks before it records one.
OneBackfillPerLink ==
    \A a, b \in DOMAIN posts \ Codes :
        posts[a].url # None /\ posts[a].url = posts[b].url => a = b

\* Every row's cover is on disk: nothing discards or overwrites it while the row is
\* there, whatever is captured, merged, retried, pruned or interrupted.
CoverOnDisk ==
    pc # "sweep" => \A id \in DOMAIN posts : posts[id].cover \subseteq files

\* After a sweep no cover outlives its post (retention.py: "so disk use stays flat instead
\* of growing forever"), and a slide only when its media row is under a hash id that a
\* merge replaced by the permalink's.
LeftoversAreSlides ==
    pc = "swept" => \A f \in files \ FilesOf(DOMAIN posts) :
        \E s \in slides : s[2] = f /\ s[1] \in Hashes \ DOMAIN posts
=============================================================================
