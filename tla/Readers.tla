------------------------------ MODULE Readers -------------------------------
(***************************************************************************)
(* The feed server as its readers see it: each keeps the ETag and the body *)
(* of its feed and asks again; a request computes an ETag from cheap       *)
(* counts and stamps (feedserver/queries.py: feed_signal) and answers 304, *)
(* or builds the body with further statements.  No transaction spans a     *)
(* request, so the scraper may commit between any two of its reads.  The   *)
(* alerts at the top of the aggregate feed are those of module Alerts.     *)
(***************************************************************************)
EXTENDS Alerts

CONSTANTS
    Posts, Stories, Names, \* rows that may be stored, usernames
    Feeds,                 \* feeds that may be read: "all", "stories", a username
    MaxEvents              \* bound: what the scraper, time and people do

ASSUME ReadersAssumption == Feeds \subseteq {"all", "stories"} \cup Names /\ MaxEvents \in Nat

NoTag == <<>>

VARIABLES
    posts,    \* stored posts: author, what is shown of it, slides, the two stamps
    stories,  \* stored stories: scraped_at
    faces,    \* accounts with an avatar: avatar_updated_at, 0 = NULL
    clock,    \* commits so far: what datetime.now() stamps a row with
    feed,     \* the feed that is read; readers do not affect one another
    request,  \* the request under way: its next statement and results
    tag,      \* the ETag the reader sends as If-None-Match
    held,     \* the entries that came with it
    renamed   \* whether an account was renamed since the rows of what is "held" and
              \* of the "request" under way were read; read by no guard

server == <<feed, request, tag, held>>
data == <<posts, stories, faces, clock>>
vars == <<alertVars, server, data, renamed>>

------------------------------------------------------------------------------
(* What the queries read.                                                   *)

MaxOr0(S) == IF S = {} THEN 0 ELSE CHOOSE x \in S : \A y \in S : y <= x

Scoped == {i \in DOMAIN posts : feed \in {"all", posts[i].by}}

OpenAlerts ==
    IF feed = "all" THEN {[kind |-> k, message |-> alerts[k].message, raised |-> alerts[k].raised] :
                             k \in DOMAIN alerts}
    ELSE {}

\* Mutant: a merge does not move the stamp the ETag is made of.
ScrapedOnly ==
    <<Cardinality(Scoped), MaxOr0({posts[i].scraped : i \in Scoped})>>

\* COUNT(*) and MAX(COALESCE(updated_at, scraped_at)).
CountAndLatest ==
    <<Cardinality(Scoped), MaxOr0({posts[i].updated : i \in Scoped})>>

\* Rows of media, one for each post that has slides.
SlideCount == Cardinality({i \in Scoped : posts[i].slides})

\* Mutant: the ETag leaves the avatars out.
NoFaceStamp == 0

\* MAX(avatar_updated_at), of every account or of the feed's.
FaceStamp == MaxOr0({faces[n] : n \in {m \in DOMAIN faces : feed \in {"all", m}}})

StoriesStats == <<Cardinality(DOMAIN stories), MaxOr0({stories[s] : s \in DOMAIN stories})>>

\* The ETag of a request that saw one state of the database, and what it would show.
Signal ==
    IF feed = "stories" THEN <<StoriesStats>>
    ELSE <<OpenAlerts, CountAndLatest, FaceStamp, SlideCount>>

PostEntry(i) ==
    [id |-> i, by |-> posts[i].by, shown |-> posts[i].shown, slides |-> posts[i].slides,
     face |-> posts[i].by \in DOMAIN faces]

Entries ==
    IF feed = "stories" THEN DOMAIN stories
    ELSE OpenAlerts \cup {PostEntry(i) : i \in Scoped}

------------------------------------------------------------------------------
(* What the scraper commits, between the reads of a request.                *)

With(f, key, value) == [k \in DOMAIN f \cup {key} |-> IF k = key THEN value ELSE f[k]]

Room == runs + changes + crashes + clock < MaxEvents

Commits ==
    /\ Room /\ clock' = clock + 1
    /\ UNCHANGED <<alertVars, server>>

\* A new post; both its stamps are now.
StorePost(i) ==
    /\ Commits /\ i \notin DOMAIN posts
    /\ \E n \in Names, slides \in BOOLEAN :
        posts' = With(posts, i, [by |-> n, shown |-> 0, slides |-> slides,
                                 scraped |-> clock + 1, updated |-> clock + 1])
    /\ UNCHANGED <<stories, faces, renamed>>

\* A merge or a backfill: something shown changes, and updated_at moves.
MergePost(i) ==
    /\ Commits /\ i \in DOMAIN posts
    /\ posts' = [posts EXCEPT ![i].shown = clock + 1, ![i].updated = clock + 1]
    /\ UNCHANGED <<stories, faces, renamed>>

\* Retention goes by when a post was posted, so any row may be the oldest.
PrunePost(i) ==
    /\ Commits /\ i \in DOMAIN posts
    /\ posts' = [j \in DOMAIN posts \ {i} |-> posts[j]]
    /\ UNCHANGED <<stories, faces, renamed>>

\* upsert_account with a captured avatar.
RefreshFace(n) ==
    /\ Commits
    /\ faces' = With(faces, n, clock + 1)
    /\ UNCHANGED <<posts, stories, renamed>>

\* rename_account: posts change hands without a stamp, and an avatar that moves to a
\* new row leaves its avatar_updated_at behind.
RenameAccount(old, new) ==
    /\ Commits /\ old # new
    /\ posts' = [i \in DOMAIN posts |->
                    IF posts[i].by = old THEN [posts[i] EXCEPT !.by = new] ELSE posts[i]]
    /\ faces' = [n \in (DOMAIN faces \ {old}) \cup (IF old \in DOMAIN faces THEN {new} ELSE {}) |->
                    IF n \in DOMAIN faces THEN faces[n] ELSE 0]
    /\ renamed' = [held |-> TRUE, request |-> TRUE]
    /\ UNCHANGED stories

StoreStory(s) ==
    /\ Commits /\ s \notin DOMAIN stories
    /\ stories' = With(stories, s, clock + 1)
    /\ UNCHANGED <<posts, faces, renamed>>

\* A reshare dropped, or a story past RETAIN_DAYS.
DropStory(s) ==
    /\ Commits /\ s \in DOMAIN stories
    /\ stories' = [t \in DOMAIN stories \ {s} |-> stories[t]]
    /\ UNCHANGED <<posts, faces, renamed>>

------------------------------------------------------------------------------
(* A request, one statement a step (feedserver/feeds.py: _posts_feed and     *)
(* _stories_feed).                                                           *)

Step(from) == request.step = from /\ UNCHANGED <<alertVars, data, feed>>

Idle == [step |-> "idle", open |-> {}, parts |-> <<>>, rows |-> {}]

\* open_alerts for the aggregate feed, or stories_stats.
Ask ==
    /\ Step("idle")
    /\ request' = [Idle EXCEPT !.step = IF feed = "stories" THEN "cached" ELSE "counts",
                               !.open = OpenAlerts,
                               !.parts = IF feed = "stories" THEN <<StoriesStats>>
                                         ELSE <<OpenAlerts>>]
    /\ UNCHANGED <<tag, held, renamed>>

Read(from, value, next) ==
    /\ Step(from)
    /\ request' = [request EXCEPT !.step = next, !.parts = Append(@, value)]
    /\ UNCHANGED <<tag, held, renamed>>

\* feed_signal's three statements.
ReadCounts == Read("counts", CountAndLatest, "faces")
ReadFaces  == Read("faces", FaceStamp, "slides")
ReadSlides == Read("slides", SlideCount, "cached")

\* render.cached: 304 if the reader has this ETag.
NotModified ==
    /\ Step("cached") /\ request.parts = tag
    /\ request' = Idle
    /\ UNCHANGED <<tag, held, renamed>>

Answer(entries) ==
    /\ request' = Idle
    /\ tag' = request.parts
    /\ held' = entries

\* The rows of the body: posts, or the stories that are all of theirs.
ReadRows ==
    /\ Step("cached") /\ request.parts # tag
    /\ IF feed = "stories" THEN Answer(DOMAIN stories)
       ELSE /\ request' = [request EXCEPT !.step = "extra",
                                          !.rows = {PostEntry(i) : i \in Scoped}]
            /\ UNCHANGED <<tag, held>>
    /\ renamed' = IF feed = "stories" THEN renamed ELSE [renamed EXCEPT !.request = FALSE]

\* extra_slides of the rows read.
ReadExtra ==
    /\ Step("extra")
    /\ request' = [request EXCEPT !.step = "avatars",
            !.rows = {[r EXCEPT !.slides = r.id \in DOMAIN posts /\ posts[r.id].slides] :
                        r \in request.rows}]
    /\ UNCHANGED <<tag, held, renamed>>

\* avatar_files of the rows' authors; the body goes out under the ETag read before it.
ReadAvatars ==
    /\ Step("avatars")
    /\ Answer(request.open \cup {[r EXCEPT !.face = r.by \in DOMAIN faces] : r \in request.rows})
    /\ renamed' = [renamed EXCEPT !.held = renamed.request]

------------------------------------------------------------------------------
Init ==
    /\ AlertsInit
    /\ posts = <<>> /\ stories = <<>> /\ faces = <<>> /\ clock = 0
    /\ feed \in Feeds /\ request = Idle /\ tag = NoTag /\ held = {}
    /\ renamed = [held |-> FALSE, request |-> FALSE]

\* Only the tables the feed is made of are written: no other changes what it shows.
Scraper ==
    \/ /\ feed = "all" /\ AlertsNext /\ runs' + changes' + crashes' + clock <= MaxEvents
       /\ UNCHANGED <<server, data, renamed>>
    \/ feed # "stories" /\ \E i \in Posts : StorePost(i) \/ MergePost(i) \/ PrunePost(i)
    \/ feed # "stories" /\ \E n \in Names : RefreshFace(n) \/ \E m \in Names : RenameAccount(n, m)
    \/ feed = "stories" /\ \E s \in Stories : StoreStory(s) \/ DropStory(s)

Reader == Ask \/ ReadCounts \/ ReadFaces \/ ReadSlides \/ NotModified \/ ReadRows \/ ReadExtra
              \/ ReadAvatars

Next == Scraper \/ Reader

Spec == Init /\ [][Next]_vars

\* A request under way is answered, and the reader asks again.
FairSpec == Spec /\ WF_vars(Reader)

------------------------------------------------------------------------------
TypeOK ==
    /\ AlertsTypeOK
    /\ DOMAIN posts \subseteq Posts /\ DOMAIN stories \subseteq Stories
    /\ DOMAIN faces \subseteq Names /\ clock \in 0..MaxEvents
    /\ request.step \in {"idle", "counts", "slides", "faces", "cached", "extra", "avatars"}
    /\ feed \in Feeds

\* Entries without what a rename changes in them.
Nameless(entries) ==
    {IF "id" \in DOMAIN e THEN [id |-> e.id, shown |-> e.shown, slides |-> e.slides] ELSE e :
        e \in entries}

\* The reader has every entry that there is, as it is, or as it was before an
\* account was renamed: a rename also moves posts in and out of an account's feed.
UpToDate ==
    CASE feed = "stories" \/ ~renamed.held -> Entries \subseteq held
      [] feed = "all" /\ renamed.held      -> Nameless(Entries) \subseteq Nameless(held)
      [] OTHER                             -> TRUE

\* A 304 hides nothing: while the ETag a reader holds is the one a request would
\* compute, the reader has every entry as it is now, a correction or a late link
\* included ("this actually reaches FreshRSS instead of getting cached away as a 304",
\* docs/OPERATIONS.md), whatever was committed between the statements of the request
\* that gave it.  Only usernames and avatars may be older, if an account was renamed
\* since, for a rename stamps nothing.  An entry deleted since may be held on to: one
\* stored after the ETag's reads, read with the rows and then deleted leaves the ETag
\* as it was.
NothingCachedAway ==
    tag # NoTag /\ tag = Signal => UpToDate

\* A reader that keeps asking catches up with the scraper, whatever was committed
\* between the statements of its earlier requests.
ReadersCatchUp == []<>UpToDate
=============================================================================
