------------------------------- MODULE Stories -------------------------------
(***************************************************************************)
(* The stories a run stores (app/instadroid/stories.py), their pictures on *)
(* disk, what the end of the run deletes again: reshares of stored posts   *)
(* (reshare.py) and expired stories (retention.py), and the process dying  *)
(* between a commit and the file operation that belongs to it.             *)
(*                                                                         *)
(* A frame is the body of one capture, byte for byte.  Captures of one     *)
(* story are different frames whose hashes are close.                      *)
(***************************************************************************)
EXTENDS Integers, FiniteSets

CONSTANTS
    Users,         \* accounts in the tray
    Frames,        \* what the viewer may show
    Hash,          \* [Frames -> Int]: _dhash, the distance a difference
    Own, Other,    \* STORY_PHASH_DISTANCE, STORY_PHASH_DISTANCE_OTHER
    Blank,         \* the near-black frames
    Shared,        \* [Frames -> pictures]: the picture a frame only reshares, or None
    PerRun,        \* MAX_STORIES_PER_RUN
    Day, Retain,   \* the duplicate check's day; RETAIN_DAYS, 0 = keep all
    MaxTime,       \* bound: the clock
    MaxCrashes,    \* bound: how often the process dies
    None

Pictures == {Shared[f] : f \in Frames} \ {None}

ASSUME StoriesAssumption ==
    /\ DOMAIN Shared = Frames /\ Blank \subseteq Frames /\ Hash \in [Frames -> Int]
    /\ {Own, Other, PerRun, Day, Retain, MaxTime, MaxCrashes} \subseteq Nat

VARIABLES
    now,        \* the clock; a run starts later than the one before
    rows,       \* the stories table: frame -> its row; a story's id is its frame's digest
    files,      \* MEDIA_DIR/stories: frames under their digest
    tmps,       \* captures still under their temporary name
    posted,     \* pictures of stored posts that can be read
    pc,         \* where the run is
    tray,       \* accounts whose story is still to visit
    hand,       \* the capture being stored
    from, new,  \* stories_from, new_stories
    todo,       \* stories left to compare with the posts
    doomed,     \* files to discard, their rows being gone
    crashes,    \* bound
    \* What happened, read by no guard:
    raised,     \* scrape_stories raised
    finished,   \* the last run got to its end
    torn,       \* rows whose file stayed under its temporary name
    orphans     \* files that stayed when their row went

table == <<now, rows, files, tmps, posted>>
run == <<tray, hand, from, new, todo, doomed>>
history == <<crashes, raised, finished, torn, orphans>>
vars == <<table, pc, run, history>>

NoHand == [user |-> None, frame |-> None]
Row == [user : Users, at : 1 .. MaxTime]

Distance(f, g) == LET d == Hash[f] - Hash[g] IN IF d < 0 THEN -d ELSE d

\* Mutant: the standards are swapped.
CloseSwapped(u, v) == IF u = v THEN Other ELSE Own
\* How close a frame of u has to be to a story of account v to be the same one.
Close(u, v) == IF u = v THEN Own ELSE Other

\* _find_story_duplicate
Duplicate(u, f) ==
    \E id \in DOMAIN rows :
        /\ rows[id].at > now - Day
        /\ Distance(f, id) <= Close(u, rows[id].user)

Without(ids) == [id \in DOMAIN rows \ ids |-> rows[id]]

------------------------------------------------------------------------------
(* The tray.                                                                *)

\* scrape_stories: what the tray shows unseen, the first PerRun of it; none when the
\* memory guard, the clock or an unreachable Home feed skips stories.
StartRun ==
    /\ pc = "idle" /\ now < MaxTime
    /\ \E t \in now + 1 .. MaxTime : now' = t /\ from' = t
    /\ \E items \in SUBSET Users : Cardinality(items) <= PerRun /\ tray' = items
    /\ pc' = "tray"
    /\ new' = 0 /\ raised' = FALSE /\ finished' = FALSE
    /\ UNCHANGED <<rows, files, tmps, posted, hand, todo, doomed, crashes, torn, orphans>>

\* capture_story: the story does not open, closes first or cannot be cropped; or a frame
\* of it is saved under a temporary name.
Capture(u) ==
    /\ pc = "tray" /\ u \in tray
    /\ tray' = tray \ {u}
    /\ \/ UNCHANGED <<pc, hand, tmps>>
       \/ \E f \in Frames :
            /\ hand' = [user |-> u, frame |-> f]
            /\ tmps' = tmps \cup {<<u, now>>}
            /\ pc' = "captured"
    /\ UNCHANGED <<now, rows, files, posted, from, new, todo, doomed, history>>

\* _store_story: not stored, and the capture is unlinked.
Discards == hand.frame \in Blank \/ Duplicate(hand.user, hand.frame)
Thrown(counted) ==
    /\ tmps' = tmps \ {<<hand.user, now>>}
    /\ new' = new + counted
    /\ hand' = NoHand /\ pc' = "tray"
    /\ UNCHANGED <<now, rows, files, posted, tray, from, todo, doomed, history>>
Discard == pc = "captured" /\ Discards /\ Thrown(0)

\* Mutant: it counts as a new one.
IgnoreCounted == pc = "captured" /\ ~Discards /\ hand.frame \in DOMAIN rows /\ Thrown(1)
\* INSERT OR IGNORE of a frame that is stored already, longer than a day ago.
Ignore == pc = "captured" /\ ~Discards /\ hand.frame \in DOMAIN rows /\ Thrown(0)

Insert ==
    /\ pc = "captured" /\ ~Discards /\ hand.frame \notin DOMAIN rows
    /\ rows' = [id \in DOMAIN rows \cup {hand.frame} |->
                   IF id = hand.frame THEN [user |-> hand.user, at |-> now] ELSE rows[id]]
    /\ pc' = "stored"
    /\ UNCHANGED <<now, files, tmps, posted, run, history>>

\* path.rename: over a file that stayed there, if need be.
Rename ==
    /\ pc = "stored"
    /\ files' = files \cup {hand.frame}
    /\ tmps' = tmps \ {<<hand.user, now>>}
    /\ new' = new + 1
    /\ torn' = torn \ {hand.frame} /\ orphans' = orphans \ {hand.frame}
    /\ hand' = NoHand /\ pc' = "tray"
    /\ UNCHANGED <<now, rows, posted, tray, from, todo, doomed, crashes, raised, finished>>

StoriesDone ==
    /\ pc = "tray" /\ tray = {}
    /\ pc' = "walk"
    /\ UNCHANGED <<table, run, history>>

\* What stays behind when a run stops here: a row before its file's rename, or a file
\* its row is gone from.
LeftTorn == IF pc = "stored" THEN torn \cup {hand.frame} ELSE torn
LeftOrphans == orphans \cup (doomed \cap files)

\* The device, the database or the disk (unlink, rename) fails on a story: the count of
\* scrape_stories is lost with the exception, and the run goes on with the posts.
Raise ==
    /\ pc \in {"tray", "captured", "stored"}
    /\ new' = 0 /\ raised' = TRUE /\ tray' = {}
    /\ torn' = LeftTorn
    /\ hand' = NoHand /\ pc' = "walk"
    /\ UNCHANGED <<table, from, todo, doomed, crashes, finished, orphans>>

------------------------------------------------------------------------------
(* The rest of the run.                                                     *)

\* _walk_feed, as far as stories see it: posts are stored.
Walk ==
    /\ pc = "walk"
    /\ \E more \in SUBSET Pictures : posted' = posted \cup more
    /\ pc' = "finish"
    /\ UNCHANGED <<now, rows, files, tmps, run, history>>

\* drop_reshared_stories: only when the run stored stories.
Compare ==
    /\ pc = "finish"
    /\ todo' = IF new = 0 THEN {} ELSE {id \in DOMAIN rows : rows[id].at >= from}
    /\ pc' = "compare"
    /\ UNCHANGED <<table, tray, hand, from, new, doomed, history>>

\* One story of it: its row goes first, then its picture.
Reshares(id) == id \in files /\ Shared[id] \in posted
CompareStory(id) ==
    /\ pc = "compare" /\ doomed = {} /\ id \in todo
    /\ todo' = todo \ {id}
    /\ IF Reshares(id)
       THEN rows' = Without({id}) /\ doomed' = {id} /\ new' = new - 1
       ELSE UNCHANGED <<rows, doomed, new>>
    /\ UNCHANGED <<now, files, tmps, posted, pc, tray, hand, from, history>>

\* discard_media
Discarded ==
    /\ files' = files \ doomed
    /\ doomed' = {}
    /\ UNCHANGED <<now, rows, tmps, posted, tray, hand, from, new, todo,
                   crashes, raised, torn, orphans>>
DropFile == pc = "compare" /\ doomed # {} /\ Discarded /\ UNCHANGED <<pc, finished>>

Expired == {id \in DOMAIN rows : Retain > 0 /\ rows[id].at < now - Retain}

\* Mutant: their files are read once they are gone.
PruneReadingLate ==
    /\ pc = "compare" /\ doomed = {} /\ todo = {}
    /\ rows' = Without(Expired)
    /\ doomed' = Expired \cap DOMAIN rows'
    /\ posted' \in SUBSET posted
    /\ pc' = "prune"
    /\ UNCHANGED <<now, files, tmps, tray, hand, from, new, todo, history>>

\* prune_old_posts and prune_expired_stories: the rows' files are read before they go.
Prune ==
    /\ pc = "compare" /\ doomed = {} /\ todo = {}
    /\ rows' = Without(Expired)
    /\ doomed' = Expired
    /\ posted' \in SUBSET posted
    /\ pc' = "prune"
    /\ UNCHANGED <<now, files, tmps, tray, hand, from, new, todo, history>>

\* _finish_run returns: new is what the run records and pings readers about.
Finish == pc = "prune" /\ Discarded /\ pc' = "idle" /\ finished' = TRUE

\* An error ends the run, in the walk or on the way to its end: what it has not
\* compared or pruned by then stays.
Fail ==
    /\ pc \in {"walk", "finish", "compare", "prune"}
    /\ pc' = "idle"
    /\ orphans' = LeftOrphans
    /\ todo' = {} /\ doomed' = {}
    /\ UNCHANGED <<table, tray, hand, from, new, crashes, raised, finished, torn>>

Crash ==
    /\ pc # "idle" /\ crashes < MaxCrashes
    /\ crashes' = crashes + 1
    /\ pc' = "idle"
    /\ torn' = LeftTorn /\ orphans' = LeftOrphans
    /\ tray' = {} /\ hand' = NoHand /\ todo' = {} /\ doomed' = {} /\ new' = 0
    /\ UNCHANGED <<table, from, raised, finished>>

------------------------------------------------------------------------------

Init ==
    /\ now = 0 /\ rows = [id \in {} |-> None] /\ files = {} /\ tmps = {} /\ posted = {}
    /\ pc = "idle" /\ tray = {} /\ hand = NoHand /\ from = 0 /\ new = 0
    /\ todo = {} /\ doomed = {} /\ crashes = 0
    /\ raised = FALSE /\ finished = FALSE /\ torn = {} /\ orphans = {}

Next ==
    \/ StartRun \/ (\E u \in Users : Capture(u))
    \/ Discard \/ Ignore \/ Insert \/ Rename \/ StoriesDone \/ Raise
    \/ Walk \/ Compare \/ (\E id \in Frames : CompareStory(id)) \/ DropFile \/ Prune
    \/ Finish \/ Fail \/ Crash

Spec == Init /\ [][Next]_vars

------------------------------------------------------------------------------

\* A run holds a capture only while it stores it, and the tables hold what they declare
\* (stories.py:244-285).
TypeOK ==
    /\ now \in 0 .. MaxTime /\ from \in 0 .. now /\ new \in 0 .. PerRun
    /\ DOMAIN rows \subseteq Frames /\ \A id \in DOMAIN rows : rows[id] \in Row
    /\ files \subseteq Frames /\ posted \subseteq Pictures
    /\ pc \in {"idle", "tray", "captured", "stored", "walk", "finish", "compare", "prune"}
    /\ pc \in {"captured", "stored"} <=> hand # NoHand

\* Every stored story has its picture and every picture its story, except in the moment
\* between a commit and its file, and for what an error or a crash at such a moment left
\* (stories.py:270-285, reshare.py:316-321, retention.py:108-114).
PicturesMatchRows ==
    /\ \A id \in DOMAIN rows \ files : id \in torn \/ (pc = "stored" /\ id = hand.frame)
    /\ \A id \in files \ DOMAIN rows : id \in orphans \cup doomed

\* No two stories stored within a day of each other look alike, by the standard that
\* fits whose they are (stories.py:320-334), whatever was dropped or pruned in between.
NoTwins ==
    \A id, other \in DOMAIN rows :
        (id # other /\ rows[id].at - rows[other].at \in 0 .. Day - 1) =>
            Distance(id, other) > IF rows[id].user = rows[other].user THEN Own ELSE Other

\* After a run that ended as it should, none of the stories it stored only reshares a
\* stored post (reshare.py:290-323), and the number it reports is how many are left.
\* Unless scrape_stories raised: then neither is so (scrape.py:704-708).
ResharesGone ==
    (pc = "idle" /\ finished /\ ~raised) =>
        LET kept == {id \in DOMAIN rows : rows[id].at >= from}
        IN new = Cardinality(kept) /\ \A id \in kept : Shared[id] \notin posted

==============================================================================
