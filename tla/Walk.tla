-------------------------------- MODULE Walk --------------------------------
(***************************************************************************)
(* One run's walk down the feed (app/instadroid/scrape.py, _walk_feed) and *)
(* the share sheet it opens for a card's link (app/instadroid/capture.py). *)
(* A step is a look at the screen or what is done with one card of it.     *)
(* Cards are numbered from the top and stand for their posts and links.    *)
(***************************************************************************)
EXTENDS Integers, FiniteSets, Sequences

CONSTANTS
    N,                     \* the feed's length
    Feeds,                 \* the feeds a run may find, cards of Kinds
    Author,                \* whose each card is
    Limited,               \* MEMORY_GUARD_PERCENT or RUN_MAX_MINUTES is set
    MaxScrolls, StopAfterSeen, EmptyLimit, Retries, Backfills, Tries

Cards == 1..N
\* A card's post: not stored; not stored, its caption cut short; stored; stored without
\* its link; stored, edited since; header-less, undated and cut short; not followed.
Kinds == {"fresh", "long", "known", "bare", "edited", "blind", "foreign"}

ASSUME WalkAssumption ==
    /\ N \in Nat \ {0} /\ Feeds \subseteq [Cards -> Kinds] /\ Limited \in BOOLEAN
    /\ {MaxScrolls, StopAfterSeen, EmptyLimit, Retries, Backfills, Tries} \subseteq Nat

VARIABLES
    kind, at, onFeed,      \* the feed, how far down it is, and whether it shows at all
    step,                  \* "dump", "cards" of one left to handle, "scrolled", or how it ended
    queue,                 \* the cards left of the last dump
    screens, emptyStreak, reopened, streak, thisRun, failures, backfills, \* _FeedRun
    stored, known, named,  \* posts with a row; cards a row's hashes name; rows under their link
    link, tried,           \* each row's link, 0 = none; its permalink_attempts
    clip, last, clearing,  \* the clipboard's link, _last_code, _clearing
    late,                  \* the card whose copy has not landed yet
    over,                  \* the memory guard or the clock says stop
    \* What happened, read by no guard:
    lagged,                \* a copy landed in another card's place
    afterOver,             \* cards handled since over, to 2
    fetches,               \* calls of fetch_permalink for each card, to its bound and one
    counted, relapses      \* cards the streak counts; cards handled again after the feed was left

run == <<screens, emptyStreak, reopened, streak, thisRun, failures, backfills>>
rows == <<stored, known, named, link, tried>>
clipboard == <<clip, last, clearing, late, lagged>>
history == <<afterOver, fetches, counted, relapses>>
vars == <<kind, at, onFeed, step, queue, run, rows, clipboard, over, history>>

Ended == step \in {"limit", "stopped", "empty", "seen"}
MaxFetches == Retries + 2
AtMost(n, max) == IF n > max THEN max ELSE n

------------------------------------------------------------------------------
(* The share sheet.                                                         *)

\* _stored_under: the post stored under the repeated link is the card.
StoredUnder(url, c) == url = c /\ c \in named

\* fetch_permalink once Copy link is tapped: `cleared` says the clipboard was emptied
\* first, `lands` whose copy then arrives, 0 = none.  A repeat is judged only when the
\* card is given, not by a backfill.
Copied(c, cleared, lands, given) ==
    LET on    == IF lands # 0 THEN lands ELSE IF cleared THEN 0 ELSE clip
        fresh == on # 0 /\ (cleared \/ on # last)
    IN [url      |-> IF fresh \/ (given /\ on # 0 /\ StoredUnder(on, c)) THEN on ELSE 0,
        certain  |-> cleared /\ fresh,
        clip     |-> on,
        last     |-> IF fresh THEN on ELSE last,
        clearing |-> clearing /\ ~(cleared /\ ~fresh),
        late     |-> IF lands = c THEN late ELSE c,
        lagged   |-> lagged \/ lands \notin {0, c}]

\* The sheet that never opened, or what Copy link may do.
Fetched(c, given) ==
    {[url |-> 0, certain |-> FALSE, clip |-> clip, last |-> last, clearing |-> clearing,
      late |-> late, lagged |-> lagged]}
    \cup {Copied(c, w.cleared, w.lands, given) :
            w \in [cleared : {FALSE, clearing}, lands : {0, c, late}]}

Clipboard(f) ==
    /\ clip' = f.clip /\ last' = f.last /\ clearing' = f.clearing /\ late' = f.late
    /\ lagged' = f.lagged

\* Mutant: a run takes whatever the clipboard holds at its start for news.
LastUnread(c) == 0

\* reset_last_url: what the clipboard holds at the start of a run is stale.
LastAtStart(c) == c

------------------------------------------------------------------------------
(* A look at the screen.                                                    *)

Redump == step' = "dump" /\ queue' = <<>>
End(why) == step' = why /\ queue' = <<>>

\* open_target_feed: at the top of it, if it gets there.
OpenFeed == onFeed' \in BOOLEAN /\ at' = 1

\* What a dump parses to: the card in front and, if all of it shows, the next one;
\* cards that do not show completely are left for a later screen.
Complete == IF ~onFeed THEN {<<>>}
            ELSE {SubSeq([c \in Cards |-> c], at, m) : m \in {at, at + 1} \cap Cards}

\* Mutant: the budget is looked at between screens only.
StopOnScreens == over /\ step = "scrolled"

\* _stop_reason, asked before every dump.
StopReason == over

\* _walk_feed up to the cards, with _note_screen, which counts a screen of accounts
\* that are not followed as an empty one, and _reopen_after_empty_screens.
Dump ==
    /\ step \in {"dump", "scrolled"}
    /\ IF screens >= MaxScrolls \/ StopReason
       THEN /\ End(IF screens >= MaxScrolls THEN "limit" ELSE "stopped")
            /\ UNCHANGED <<at, onFeed, emptyStreak, reopened>>
       ELSE \E shown \in Complete :
            LET posts   == SelectSeq(shown, LAMBDA c : kind[c] # "foreign")
                empties == IF posts = <<>> THEN emptyStreak + 1 ELSE 0
                empty   == EmptyLimit > 0 /\ empties >= EmptyLimit
            IN \/ /\ ~empty /\ step' = "cards" /\ queue' = posts /\ emptyStreak' = empties
                  /\ UNCHANGED <<at, onFeed, reopened>>
               \/ empty /\ reopened /\ End("empty") /\ emptyStreak' = empties
                  /\ UNCHANGED <<at, onFeed, reopened>>
               \/ empty /\ ~reopened /\ Redump /\ OpenFeed
                  /\ reopened' = TRUE /\ emptyStreak' = 0
    /\ UNCHANGED <<kind, screens, streak, thisRun, failures, backfills>>
    /\ UNCHANGED <<rows, clipboard, over, history>>

\* Nothing left to handle on this screen: stop at known posts, or scroll.
ScrollOn ==
    /\ step = "cards" /\ queue = <<>>
    /\ IF streak >= StopAfterSeen THEN End("seen") /\ UNCHANGED <<at, screens>>
       ELSE /\ step' = "scrolled" /\ queue' = <<>> /\ screens' = screens + 1
            /\ at' = IF onFeed /\ at < N THEN at + 1 ELSE at
    /\ UNCHANGED <<kind, onFeed, emptyStreak, reopened, streak, thisRun, failures, backfills>>
    /\ UNCHANGED <<rows, clipboard, over, history>>

\* The guard's limit is crossed, or the clock's.
Over ==
    /\ Limited /\ ~over /\ ~Ended /\ over' = TRUE
    /\ UNCHANGED <<kind, at, onFeed, step, queue, run, rows, clipboard, history>>

------------------------------------------------------------------------------
(* What is done with a card: _handle_card.                                  *)

Card(c) == step = "cards" /\ queue # <<>> /\ c = Head(queue)

\* Still on screen from before: the next card.
PassCard(c) ==
    /\ Card(c) /\ c \in thisRun /\ queue' = Tail(queue)
    /\ UNCHANGED <<kind, at, onFeed, step, run, rows, clipboard, over, history>>

NeedsPermalink(c) == c \in stored /\ link[c] = 0 /\ tried[c] < Tries

\* A stored post: the streak grows, and there is nothing else to do with it.
KnownCard(c) ==
    /\ Card(c) /\ c \notin thisRun /\ c \in known
    /\ ~(backfills > 0 /\ NeedsPermalink(c))
    /\ thisRun' = thisRun \cup {c} /\ streak' = streak + 1 /\ counted' = counted \cup {c}
    /\ queue' = Tail(queue)
    /\ UNCHANGED <<kind, at, onFeed, step, screens, emptyStreak, reopened, failures, backfills>>
    /\ UNCHANGED <<rows, clipboard, over, afterOver, fetches, relapses>>

\* A share sheet for c has come and gone.
SheetSpent(c) ==
    /\ Redump
    /\ fetches' = [fetches EXCEPT ![c] = AtMost(@ + 1, MaxFetches + 1)]
    /\ afterOver' = (IF over THEN AtMost(afterOver + 1, 2) ELSE 0)
    /\ UNCHANGED <<kind, screens, emptyStreak, reopened, over>>

\* Whether a row has the link already.
Taken(url, c) == url \in named \/ \E d \in Cards \ {c} : link[d] = url

\* _backfill_permalink: a stored post's missing link, which keeps its row's id.
BackfillCard(c) ==
    /\ Card(c) /\ c \notin thisRun /\ c \in known
    /\ backfills > 0 /\ NeedsPermalink(c)
    /\ thisRun' = thisRun \cup {c} /\ streak' = streak + 1 /\ counted' = counted \cup {c}
    /\ backfills' = backfills - 1 /\ tried' = [tried EXCEPT ![c] = @ + 1]
    /\ \E f \in Fetched(c, FALSE) :
        /\ Clipboard(f)
        /\ link' = IF f.url = 0 \/ Taken(f.url, c) THEN link ELSE [link EXCEPT ![c] = f.url]
    /\ OpenFeed \/ UNCHANGED <<at, onFeed>>
    /\ SheetSpent(c)
    /\ UNCHANGED <<failures, stored, known, named, relapses>>

\* Mutant: one try more.
OneTryMore(c) == failures[c] <= Retries

\* link_failures against PERMALINK_RETRIES.
TriesLeft(c) == failures[c] < Retries

\* A new card whose link did not come, with tries left: it is handled again as it shows
\* next, and nobody looks whether the sheet left the feed.
RetryCard(c) ==
    /\ Card(c) /\ c \notin thisRun \cup known /\ TriesLeft(c)
    /\ \E f \in Fetched(c, TRUE) : f.url = 0 /\ Clipboard(f)
    /\ failures' = [failures EXCEPT ![c] = @ + 1]
    /\ onFeed' \in {onFeed, FALSE} /\ SheetSpent(c)
    /\ UNCHANGED <<at, streak, thisRun, backfills, rows, counted, relapses>>
\* _check_permalink: no post has the link; another account's has and it may not be this
\* card's; or the post is stored, under a caption not seen yet.
LinkCheck(c, f) ==
    IF f.url \notin named THEN "free"
    ELSE IF Author[f.url] # Author[c] /\ ~f.certain THEN "stale" ELSE "stored"

\* _store_post: an edited post may be found by its date and caption, and a card with
\* neither header, date nor link is not stored.
StoreOutcomes(c, url) ==
    IF kind[c] = "blind" /\ url = 0 THEN {"skipped"}
    ELSE IF c \in stored THEN {"new", "merged"} ELSE {"new"}

\* The cards handled once c is: not c under the hash it shows if the feed was left,
\* unless it is stored under the same one, its caption not being cut short.
HandledStored(c, left) ==
    IF left /\ kind[c] \in {"long", "blind"} THEN thisRun ELSE thisRun \cup {c}

Counts(c) == streak' = streak + 1 /\ counted' = counted \cup {c}

\* Mutant: a new post leaves the streak of known ones as it is.
StreakKept == streak

\* What a new post makes of the streak of known ones.
StreakAfterNew == 0

\* A new card with its link, or without when the tries are spent.
CaptureCard(c) ==
    /\ Card(c) /\ c \notin thisRun \cup known
    /\ \E f \in Fetched(c, TRUE), left \in BOOLEAN :
        /\ f.url # 0 \/ ~TriesLeft(c)
        /\ Clipboard(f)
        /\ IF left THEN OpenFeed ELSE UNCHANGED <<at, onFeed>>
        /\ relapses' = AtMost(relapses + (IF left THEN 1 ELSE 0), StopAfterSeen)
        /\ \/ /\ LinkCheck(c, f) = "stored" /\ Counts(c)
              /\ thisRun' = (IF left THEN thisRun ELSE thisRun \cup {c})
              /\ known' = known \cup {c} /\ UNCHANGED <<stored, named, link>>
           \/ /\ LinkCheck(c, f) # "stored"
              /\ thisRun' = HandledStored(c, left)
              /\ LET url == IF LinkCheck(c, f) = "stale" THEN 0 ELSE f.url IN
                 \/ /\ "skipped" \in StoreOutcomes(c, url)
                    /\ streak' = 0 /\ counted' = {} /\ UNCHANGED <<stored, known, named, link>>
                 \/ /\ "merged" \in StoreOutcomes(c, url)
                    /\ streak' = 1 /\ counted' = {c} /\ known' = known \cup {c}
                    /\ UNCHANGED <<stored, named, link>>
                 \/ /\ "new" \in StoreOutcomes(c, url)
                    /\ streak' = StreakAfterNew /\ counted' = {}
                    /\ stored' = stored \cup {c} /\ known' = known \cup {c}
                    /\ link' = [link EXCEPT ![c] = url] /\ named' = named \cup ({url} \ {0})
    /\ SheetSpent(c)
    /\ UNCHANGED <<failures, backfills, tried>>

------------------------------------------------------------------------------
Init ==
    /\ kind \in Feeds /\ at = 1 /\ onFeed \in BOOLEAN /\ step = "dump" /\ queue = <<>>
    /\ screens = 0 /\ emptyStreak = 0 /\ reopened = FALSE /\ streak = 0 /\ thisRun = {}
    /\ failures = [c \in Cards |-> 0] /\ backfills = Backfills
    /\ stored = {c \in Cards : kind[c] \in {"known", "bare", "edited"}}
    /\ known = {c \in Cards : kind[c] \in {"known", "bare"}}
    /\ named = {c \in Cards : kind[c] \in {"known", "edited"}}
    /\ link = [c \in Cards |-> IF c \in named THEN c ELSE 0] /\ tried = [c \in Cards |-> 0]
    /\ clip \in named \cup {0} /\ last = LastAtStart(clip) /\ clearing = TRUE
    /\ late = 0 /\ lagged = FALSE
    /\ over = FALSE /\ afterOver = 0 /\ fetches = [c \in Cards |-> 0]
    /\ counted = {} /\ relapses = 0

Walking ==
    \/ Dump \/ ScrollOn
    \/ \E c \in Cards :
        PassCard(c) \/ KnownCard(c) \/ BackfillCard(c) \/ RetryCard(c) \/ CaptureCard(c)

Next == Over \/ Walking

Spec == Init /\ [][Next]_vars
\* The walk is one loop that nothing blocks: each device call has a timeout.
FairSpec == Spec /\ WF_vars(Walking)

------------------------------------------------------------------------------
(* Properties.                                                              *)

TypeOK ==
    /\ kind \in Feeds /\ at \in Cards /\ onFeed \in BOOLEAN
    /\ step \in {"dump", "cards", "scrolled", "limit", "stopped", "empty", "seen"}
    /\ queue \in Seq(Cards) /\ (queue # <<>> => step = "cards")
    /\ screens \in 0..MaxScrolls /\ emptyStreak \in Nat /\ reopened \in BOOLEAN /\ streak \in Nat
    /\ thisRun \cup stored \cup known \cup named \cup counted \subseteq Cards
    /\ failures \in [Cards -> 0..(Retries + 1)] /\ backfills \in 0..Backfills
    /\ tried \in [Cards -> 0..Tries]
    /\ link \in [Cards -> 0..N] /\ {clip, last, late} \subseteq 0..N
    /\ {clearing, lagged, over} \subseteq BOOLEAN
    /\ afterOver \in 0..2 /\ fetches \in [Cards -> 0..(MaxFetches + 1)]
    /\ relapses \in 0..StopAfterSeen
    \* The empty screens never reach the limit but to end the walk.
    /\ EmptyLimit > 0 /\ step # "empty" => emptyStreak < EmptyLimit

\* A row's link is its post's own, and a card taken for a stored post is one, unless a
\* copy of one card landed in the place of another's (capture.py, scrape._check_permalink).
LinksTheirOwn ==
    ~lagged => known \subseteq stored /\ \A c \in Cards : link[c] \in {0, c}

\* A card gets a sheet for each try and one for a backfill, however often the feed is
\* left and opened again; a header-less card that is never stored has no such bound.
SheetsBounded ==
    \A c \in Cards : kind[c] # "blind" => fetches[c] <= Retries + 2

\* A walk ends for known posts only when it met as many as STOP_AFTER_SEEN, less those
\* it counted again because their sheet had left the feed.
EndsOnKnownPosts == step = "seen" => Cardinality(counted) + relapses >= StopAfterSeen

\* Once the memory guard or the clock says stop, one more card is handled at most.
StopsWithinOneCard == afterOver <= 1

\* The walk ends by itself, without a limit on its time, unless the feed has a
\* header-less card that is never stored; with the limit crossed, it ends even then.
WalkEnds == ((\A c \in Cards : kind[c] # "blind") \/ <>over) => <>Ended
=============================================================================
