# Instadroid in TLA+

Models, model checks and proofs of the instadroid scraper (`src/app`): an Android emulator runs
Instagram, a Python process drives it over uiautomator2, walks the Following feed a few times a
day, stores posts, stories and media in SQLite and a media directory, and a second process serves
them as Atom feeds. Paths below are relative to `src/`.

`tlc -workers 2 -config <X>.cfg <MC module>` checks a run; `tlapm <X>Proofs.tla` checks proofs.
`PROJECT.json` lists the runs, the source lines every definition models, a mutant of the code for
every property, the hazards, the findings and the theorems.

## 1. Inventory

| Component | Code | State | Operations | What is hard |
|---|---|---|---|---|
| Poll loop | `app/instadroid/scrape.py` `main`, `_poll_loop`, `run_recorded`, `next_sleep_seconds`, `poll_interval_seconds`, `budget_wait_seconds`, `_startup_wait_seconds` | `runs` table; in memory the retry count, the failure count, the current sleep | wait, retry, back off, wait for the budget, run, record | restart at any point; memory against table; nested waits |
| Manual control | `app/shared/control.py`, `app/instadroid/control.py`, `app/feedserver/control.py`, `app/scraper.py` | files `manual.lock`, `needs-human.hold`, `scrape-now` | lock, unlock, request, take the request, run `once` | four writers without a lock: loop, CLI, API, a person with `rm` |
| Run lifecycle, feed walk | `scrape.py` `scrape_once`, `_scrape_feed`, `_walk_feed`, `_finish_run` | the run's memory: streaks, seen cards, reasons to stop | open the feed, refresh the list, stories, walk, finish | errors swallowed in the middle, errors that must not be |
| Posts | `scrape.py` `_handle_card`, `_store_post`, `_backfill_permalink`; `db.py` duplicates and merges | `posts`, `media` tables | insert, merge, skip, backfill, remember a hash | one post in several forms; failing and stale links; the id must not change |
| Media, retention | `capture.py`, `retention.py` | files under `MEDIA_DIR` | crop, rename, discard, prune by age and size, sweep orphans | files and rows change in different steps |
| Permalink, clipboard | `capture.py` `fetch_permalink` | the device's clipboard | clear, tap, poll | a write that arrives late |
| Following list, renames | `db.py`, `navigation.py`, `scrape.py`, `scraper.py` | `following`, `following_pending`, `accounts`, `rename_candidates`, `rename_dismissals` | refresh, hold back, accept, filter, suspect, apply, dismiss | the CLI is another process; names change under stored rows |
| Alerts | `alerts.py` | `alerts` table, webhook | raise, clear, announce | POST inside a transaction |
| Stories, reshares | `stories.py`, `reshare.py` | `stories` table, frames | capture, deduplicate, expire, drop reshares | commit before rename |
| Login, forced update | `navigation.py`, `install.py` | the app's screens | detect, log in, update | a retry that repeats a login |
| Database | `db.py` migrations, `backup.py` | schema version, backups | migrate, back up, prune | a crash inside a migration |
| Feed server | `app/feedserver` | none (reads), ETag | feeds, status, health, browse, control API | what the ETag covers |
| Diagnostics, export, tuning, profiles, devtools | the rest | files | write-only or lookups | — |

How they meet: the loop starts a run; a run reads and writes the tables and files and ends in one
row of `runs`; that row is what the budget, the backoff, the health page and the alerts read.
A run that needs a person writes the hold; people and the API write the other control files;
`scraper.py once`, `rename`, `following` and `lock` are separate processes on the same database
and files. The feed server only reads, except for the control files and its API.

What makes each component correct:

* **Poll loop, control**: nothing restarts a scraper that needs a person; the lock holds it back;
  the budget holds however runs are started; failures are retried early only if transient; the
  backoff counts what happened; the loop never stops for another reason, and answers a request.
* **Posts**: one row per post; an entry's id and permalink survive everything but retention.
* **Media**: a row's picture exists; a file without a row goes.
* **Following, renames**: a post stays with its author; the list shrinks only when a person agrees
  and never becomes empty, which would turn the filter off.
* **Alerts**: a condition is announced once and cleared once. **Stories**: a frame per row, shared
  posts dropped once. **Migrations**: a crash leaves a database the next start completes.
  **Feed cache**: an unchanged ETag hides no entry.

The hazards are listed line by line in `PROJECT.json`.

## 2. Modules

| Module | Models | Composed of |
|---|---|---|
| `PollLoop` | poll loop, control files, `once`, people, crashes | — |
| `HoldLatch` | what the hold promises, abstractly | implemented by `PollLoop` |
| `Session` | a run's calls against Instagram's screens, login, update, restriction | — |
| `Walk` | a run's walk down the feed, share sheets, clipboard | — |
| `PostStore` | cards, rows, media files, retention, crashes | — |
| `Stories` | stories, their pictures, reshares, expiry, crashes | — |
| `Accounts` | Following list, renames, avatars, the CLI beside a run | — |
| `Alerts` | `update()` in two processes, the alerts table, announcements | — |
| `Readers` | feed requests, ETags, the scraper committing between statements | extends `Alerts` |
| `Upgrade` | migrations with crashes, the search index, the writes that follow | — |
| `PollLoopProofs`, `SessionProofs`, `WalkProofs`, `PostStoreProofs`, `StoriesProofs`, `AccountsProofs`, `ReadersProofs`, `UpgradeProofs` | theorems | extend their module and `TLAPS` |
| `MC...` | values for TLC | one per checked module |

The modules cut one run along its seams. `PollLoop` sees a run as an interval with one of four
outcomes. `Session` is its inside as far as screens and exceptions go and ends in one of those
outcomes. `Walk` is the last call of `Session`. `PostStore` and `Accounts` are what handling a
card, a list or a rename does to tables and files, with the links `Walk` may deliver as inputs (a
stale one included); `Stories` is the same for the story tray. `Alerts` reads the rows `PollLoop`
records. `Readers` reads what all of them commit.

### PollLoop

State: the `runs` table as a sequence of rows (start, finish, class of error, who ran it), the
three control files (`lockAt` is the lock's mtime), where the loop is, its memory (`wakeAt`,
`attempt`, `failures`, `loopBegan`, `loopErr`), where `once` is, and history variables that no
guard reads (`armed`: a run needed a person and none has unlocked; `missed`: and its process died
before writing the hold; `onceRan`, `underLock`).

The loop's steps follow `_poll_loop`. `Boot` starts the process and reads the failure streak and
the startup wait. `TakeRunNow` and `WaitOver` are `control.wait`; `PassLock` is
`wait_while_locked`; `BudgetWait`/`PassBudget` the budget check; `Launch`, `FinishRun` and
`SettleRun` are `run_recorded` split where another process or a crash can come between: the run
itself, the committed row, and the hold with the loop's bookkeeping. `OnceStart`, `OnceFinish`,
`OnceSettle` are `scraper.py once`; `SetLock`, `Unlock`, `RequestNow`, `RequestNowApi` the CLI and
the API; `RemoveLockFile`, `RemoveHoldFile` the documented `rm`. `Crash` kills the container at any point, and
`entrypoint.sh` starts it again: the loop alone, or with it a `once` started by `docker compose exec`
(one started by `docker compose run` has a container of its own, and `OnceDies` is its crash).

Time is a discrete clock, one tick about two to four hours; random sleeps are any value of their
interval. What a run does inside is not this module's subject: it is an interval of at most
`MaxRunLen` ticks ending in one of four classes of error (`none`, `transient`, `human`, `other`),
which is all the loop looks at.

### PostStore

A *form* is one way a post shows on screen: its caption not rendered, collapsed or expanded. The
constants say which post a form is of, what it hashes to, which text it shows and what "... more"
expands it to; ids, captions and times are only compared. State: the `posts` table (id -> row),
the `media` table, `MEDIA_DIR`, and the run's memory (`this_run`, `link_failures`,
`backfills_left`).

`_handle_card` is split at every file operation and every commit: `SeeStored` or `Capture`;
`LinkFails`, `LinkFree` or `LinkStored` for the share sheet and `_check_permalink`; `Merge`, `Skip`
or (`Rename`, then `Insert`) for `_store_post`; `Discard` for the files removed after a commit;
`Backfill` for a stored row without a link; `Expire` and `Sweep` for retention. `Age` is a row passing
`RETAIN_DAYS`: `_find_same_caption` no longer looks at it, and the next prune takes it. `Skip` asks
for a card without link whose header has scrolled off and whose date could not be read; one with a
header is inserted whatever its date looks like. `Links` is what
`fetch_permalink` may return, with `StaleLinks` another post's. `Crash` is possible at each of
these points and loses the run's memory only.

Kept on purpose: `merged_fields` takes the older cover and the newest hash; `find_duplicate`
compares captions after normalising, which is what `Text` and `Telling` stand for; a row remembers
two hashes.

### Accounts

State: what every account is called now and ever was (Instagram's side), the `posts` rows (username
and, as history, the real author), `following`, `following_pending`, `accounts` with its avatar
files, `rename_candidates`, `rename_dismissals`, a run's memory (names collected, the count
`store_following` compared with, the filter, the suspicion about to be inserted, the renames about
to be applied) and what `following --accept` has read.

A SELECT that decides a later write is a step of its own, because SQLite opens the write
transaction only at the write; `rename_account` starts with an UPDATE and is one step, its file
removal included. `ScrapeList` collects any non-empty part of the list, as a scroll that stops early
does. `Suspect` is `_check_permalink` on a card with a link that may be another card's
(`certain` = `link_was_certain()`). `CliRename` is typed by someone who knows that the account took
the new name, at any moment of a run; `Dismiss` may be wrong. `Rename` gives an account a name nobody
has borne: reuse of a name by a stranger is not modelled. `account_id` is never written by any code
and is left out; whether the list is due is a choice.

### Session

State: the screen in front and what a dialog hides, what Instagram makes of the account (`account`,
`blocked`), the installed and the demanded build, the bundles in `APK_CACHE_DIR`, the call of
`_scrape_feed` under way (`stage`), the place in it (`pc`), the tries left of the loop it is in, and
`install._WARNINGS` as the set of runs whose warning it holds.

Every look at the screen and every tap is a step, so Instagram may change the screen between them:
`Appear` (a restriction, a prompt), `Turn` (a logout, a challenge, a demanded update), `GoAway`,
`Failing` (adb or uiautomator). `Installed` .. `CloseSheets` are `_prepare_app` in the order of its
checks; `Navigate`, `ReachHome`, `VisitStory` and `WalkFeed` what each call does after that. `Raise`
is where an exception goes: `refresh_following_list` and `scrape_stories` run inside
`except Exception` and the feed is opened again after either; everything else ends the run. A run
that ends for a person waits for `Person`. An update without a snapshot leaves its warning before the
install is tried (`Warn`), so a failed one leaves it too.

A restriction stays until it is tapped, left by Back or Instagram is force-stopped. Credentials are
set. Which selector recognises a screen is data and left out.

### Walk

State: the feed as a sequence of cards of seven kinds (not stored, cut short, stored, stored without
link, edited, header-less and undated, not followed), how far down it is and whether it shows at
all, the `_FeedRun` counters, each post's row and link, and the clipboard with the copy that has not
landed yet. `Dump` is `_walk_feed` up to the cards: the stop reasons, the empty screens and the feed
opened once more; `ScrollOn` the end of a screen; `PassCard`, `KnownCard`, `BackfillCard`,
`RetryCard` and `CaptureCard` the ways `_handle_card` may end. `Copied` is `fetch_permalink`: the
clear that may fail, the copy that lands, lands late in another card's place or not at all, the
repeat of `_last_code`. A sheet may leave the feed, which is then opened again or, after a retry, not
even looked for. A foreign card's screen counts as an empty one.

### Stories

State: the `stories` table, the pictures under `MEDIA_DIR/stories`, the captures under temporary
names, the pictures of stored posts, the run's tray, capture and counters. A frame is the body of one
capture byte for byte; its hash is a number, distances are differences. `Capture`, then `Discard`,
`Ignore` or (`Insert`, `Rename`), are `_store_story`; `Compare`, `CompareStory`, `DropFile` the
reshare check, `Prune` and `Finish` retention. `Raise` is an error inside `scrape_stories`, the
rename after a commit included (the run goes on), `Fail` one after it, in the walk, the reshare check
or the pruning (the run ends), `Crash` the process dying anywhere. An error or a crash between a
commit and its file leaves a row without its file (`torn`) or a file without its row (`orphans`).

### Alerts and Readers

`Alerts`: the newest runs' errors, the other conditions as a switch each, the committed alerts table,
the open transaction of the process that has SQLite's write lock, and where each of `loop` and `once`
is in `update()`. `Compare` reads conditions and open alerts before the first write; `Raise`, `Reword`,
`Resolve` are its statements, each announcing before the commit; `Fail` is a lock wait that ran out
or a row another process inserted, swallowed by `run_recorded`; `Die` a crash with a rollback. A
webhook may hold the write lock for longer than sqlite's 5 s, so another process's `record_run` may
fail and its run be lost (`Lose`).

`Readers` adds posts, stories, avatars with the stamps the code gives them, and one reader of one feed
(readers do not affect each other): the statements of the ETag, one a step, then 304 or the
statements of the body. Only the tables the feed is made of are written, at any point in between.
`RenameAccount` stamps nothing, as in the code.

### Upgrade

`db` is the file, `tx` what the open transaction sees. Each migration is split at its commits
(`BackfillDates`, `Dedupe`, `DedupeDone`; `Rehash` or `AltHash`, `Bump`; `FindTwins`, `MergeTwin`,
`DiscardMedia`, `TwinsDone`; `CreateIndex`, `FillIndex`), and `Crash` undoes what is not committed and
nothing that was unlinked. `CreateIndex` is one step although its statements commit one by one: each
is `IF NOT EXISTS`, nothing is written before the last, and a crash between them is a retry from the
first. `recent` says which posts `_find_same_caption` still looks at, RETAIN_DAYS being past for the
others. Migrations 2, 3, 4 and 9 change nothing modelled. The index is two tables,
`posts_fts_ids` and `posts_fts`, with the triggers' effect in `PutPost` and `DeletePost` (INSERT OR
REPLACE fires no delete trigger). Live writes follow to see that the upgraded index keeps up.

## 3. Runs

| Run | Bounds | Shows |
|---|---|---|
| `poll_safety` | 5 ticks, day of 2, budget 2, one retry, one crash, four error classes | types, the hold, failure count, retry ladder, distance of runs, budget, lock, refinement of `HoldLatch` |
| `poll_live` | 6 ticks, one crash, one use of `once`, runs end transient | a request is answered; the loop always comes round |
| `hold_crash` (violation) | as `poll_safety`, 4 ticks | a crash between row and hold resumes by itself |
| `once_race` (violation) | 4 ticks, one use of `once`, no crash | a day with one run more than the budget |
| `session` | 3 runs, 3 moods of 7 kinds, two builds, three install policies | a seen restriction stops the run, passwords, update warnings |
| `walk` | four feeds of 3 cards, 4 scrolls, 2 retries, 1 backfill | links, sheets, stop reasons; the walk ends |
| `post_captions` | one post, two forms, one extra slide, 3 runs | ids kept, covers on disk, only slides of replaced ids left over |
| `post_links` | two posts, stale links, 3 runs | no backfill gives a link to a second row |
| `stories` | 2 accounts, 5 frames, 4 times of run, one crash | pictures match rows, no twins, no reshares left |
| `accounts` | 2 accounts, 4 names, 2 changes on Instagram, 2 runs, shrink 60% | authorship, avatars, the list |
| `feed` | 2 processes, 3 runs, one other condition, one crash; 3 commits or runs in all, 2 posts, 2 stories, 2 names | alerts and announcements; no 304 hides an entry; readers catch up |
| `upgrade` | every database of 3 posts from versions 0 and 5 (dated or not, linked or not, placeholder captions, slides, one post past RETAIN_DAYS or none), 2 crashes, 2 writes | the index, pictures, recognition |

Why the bounds are enough to be interesting: a day of two ticks lets the budget fill, a start leave
the window and the budget wait end within five ticks; one crash covers every point between two
steps. Three runs are what storing under a hash, backfilling or merging, and then seeing the post
again or expiring it take; two changes and two runs are a rename, the list that still has the old
name, and the list that has the new one, and a second rename of the same account, under the third of its
names, gives the chained ones. 60% of two accounts makes a list of one short enough to be held back (the default, 50%, would
not).

Three moods in `session` are a block that appears after a look, the error that hides it from the call
that is swallowed, and one more; three runs a failed one, one that inherits what it left, and a
clean one. Three cards in `walk` are one screen of two and a scroll, a card whose copy lands late in
another's place and a third it can be confused with; each feed has the cards the counters
tell apart, and two known posts are what the stop needs. In `stories` frames a and b are captures of
one story, b and c are too far apart for two accounts' frames but near enough for one account's, d
reshares a post and e is black; four times with a day and a retention of two let a story leave the
day's window and then expire. In `feed` three commits are a request's read, a commit behind it and a
commit that undoes it, before or after the rows. In `upgrade` three rows of one caption are the
smallest chain of merges, and two crashes are a retry that dies again.

Symmetry is not used: names, cards, frames and forms are told apart by constants. Deadlock is not
checked: every instance stops when its bounds on the clock, runs or changes are used up.

Checked besides the configured runs: `feed` with `Lossy = TRUE` (webhooks that fail), and `feed`,
`session`, `walk` and `stories` with `INVARIANT TypeOK` added. Those type invariants stay in the
modules for that; the runs spend their time on the other properties.

Every property of a passing run has a mutant, a plausible bug in one of the modelled definitions
that TLC must catch (a lost guard, an off-by-one, a dropped reset); they stand beside the definition
they mutate, and `PROJECT.json` names them.

### Fairness

`poll_live` assumes weak fairness of the loop's own step (one thread that never blocks but
in the waits modelled, in a container that the supervisor restarts, so `Boot` too), of a `once` that
was started finishing (a run has a time limit, `RUN_MAX_MINUTES`), and of the clock. Nothing is
assumed of people, of requests, of `once` being started or of crashes; crashes are bounded, and the
properties speak of states after the last one. The clock is finite, so "always comes round" is asked
only while `Slack` ticks are left. Three is `BackoffMax`, the longest sleep of the instance, and tight:
with two TLC finds the loop still asleep when the clock stops. Runs end transient there, which makes
the longest waits; what ends them for a person meets the `Locked` of both properties, and holds are
`poll_safety`'s.

`walk` assumes weak fairness of the walking loop, one thread whose every device call has a timeout,
and nothing of the time limit: `Over` may never come. `feed` assumes weak fairness of the reader's
own steps: a request under way is answered, and the reader polls again. Nothing is assumed of the
scraper, whose commits are bounded.

## 4. Properties

* `StopsUntilPersonActs`, `NothingResumesIt`, `ImplementsLatch`: the hold, with and without the
  crash proviso, and as an abstract latch.
* `RecordedWithinBudget`: rows plus the run in flight against `MAX_RUNS_PER_DAY`, exactly, where `once`
  is not used. `CapHolds` is what the documentation says of every run, and is violated (section 5).
* `LaunchesUnderLock`: a lock or hold that appears after the lock check lets that one run through,
  whatever budget wait or restart follows.
* `FailuresMatchTable`, `RetryLadder`, `LaunchSpacing`: memory against the table, across restarts;
  early retries only for transient failures; no start sooner after a run than the shortest delay.
* `RequestTaken`, `LaunchesUnlessHeld`: liveness. `RequestTaken` says the request is *consumed*:
  one taken inside a budget wait ends the wait and is answered by the budget again.
* `SeenBlockStopsRun`: a run that looked at a restriction neither taps it away nor completes, although
  two calls swallow every exception. A block that appears *after* the look can be tapped away unseen
  (Back in `open_following_feed`, the stray alert's OK); that is not what the property says.
* `NoPasswordHammering`: refused passwords against what changed on the screen since. The factor two is
  a refusal that `_scrape_feed` swallows (scrape.py:691, 706) and meets again when it opens the feed.
* `WarningsOwn`: the record of a run has its own update warnings and no other run's.
* `LinksTheirOwn`: a row's link is its post's, however copies lag, repeat or are missed. The one
  exception is a copy landing exactly in another card's place, which no code could tell.
* `SheetsBounded`, `WalkEnds`, `StopsWithinOneCard`: no card is opened for ever; the walk ends by
  itself, unless it has a header-less card that is never stored, and then by its time limit.
  `EndsOnKnownPosts`: it ends for known posts only having met that many, less those a left feed made
  it count twice.
* `EntryIdsKept`, `CodeIsLink`, `OneBackfillPerLink`, `CoverOnDisk`, `LeftoversAreSlides`: what
  holds of posts and files.
* `PicturesMatchRows`, `NoTwins`, `ResharesGone`: a picture for a row and a row for a picture up to what
  an error or a crash leaves; no two stories within a day that look alike by the standard that fits whose they
  are; after a finished run no story of it reshares a stored post, and its count is right.
* `AuthorsKept`, `AvatarOnDisk`, `AllowlistStays`, `ShrinkNeedsPerson`: authorship, avatars of names
  in use (up to an account's third name, see Known limits), the list. `ShrinkNeedsPerson` exempts a longer list accepted between `store_following`'s
  count and its replacement: the count is then stale, and the code does not look again.
* `HeardMatchesTable`, `TableMatchesConditions`, `AnnouncedOnce`: people, the table and the conditions
  agree but for a failed webhook or an undone row. `TableMatchesConditions` asks it of an `update()`
  that no other overlapped (`current`): one that did may resolve what holds, until the next run.
* `NothingCachedAway`, `ReadersCatchUp`: while the ETag a reader holds is the current one, the reader
  has every entry as it is, whatever was committed between the statements; a reader catches up.
  Only what a rename changes is exempt, see Known limits.
* `SearchMatches`, `PicturesKept`, `PostsRecognised`: after an upgrade that died anywhere the index has
  each post once under its caption, kept rows keep their pictures, and a post on screen is
  recognised as stored.

## 5. Findings and known limits

Two runs show the code doing what the documentation rules out:

* `hold_crash`: `run_recorded` commits the row and then writes the hold. Dying in between, the scraper
  resumes on its own (`docs/ARCHITECTURE.md:21`: "no timer resumes it").
* `once_race`: the budget counts rows, and a row is written when its run ends. The loop and
  `scraper.py once` read it while the other's run has no row yet, and a day gets one run more than
  `MAX_RUNS_PER_DAY`, which `docs/OPERATIONS.md:97` says caps the runs "whatever starts them", `once`
  included. `OnceCostsOneRun` proves that it is never more than one, however often `once` is used.

Known limits are what the models reach and the properties, for that reason, leave out:

* Runs: the budget counts rows, and a row is written when a run ends, so a crash loop starts more runs
  than `MAX_RUNS_PER_DAY`.
* Posts: a merge that changes a row's id leaves its `media` rows behind, so the post loses its slides
  and the files stay. `_check_permalink` knows a link only as a row's id: a post stored under a hash
  and backfilled has its link in `url`, and its expanded form is stored a second time. Two hashes are
  remembered and three forms possible: a post seen in three forms that hash apart is no longer
  recognised by the first, whose next capture writes over, and on a failed link deletes, the file the
  row shows. The theorem about covers has `TwoHashes` for that reason.
* Renames: a shared post whose owner renamed itself is no longer recognised as shared, and with
  `RENAME_AUTO_APPLY` two accounts' histories may be joined. Accepting a list held back before a
  rename restores the old name until the next refresh. A dismissal between the read and the insert of
  `note_rename_candidate` is followed by the suspicion it rules out. A superseded avatar under a new
  name is never removed. Two rows may show one file after a second rename without a new capture, and
  a third rename drops it.
* Walk: a sheet that leaves the feed makes cards pass twice and count twice; a header-less, undated
  card whose link never comes is tried until `RUN_MAX_MINUTES`; a copy that lands in another card's
  place is taken as certain.
* Session: update warnings are drained at the start and after the first opening only; a challenge
  that follows an update in the same check is met at the next one; stories given up before the
  first leave the feed unopened until the walk asks for it; unpacking a bundle that stops halfway
  leaves a part that later installs take for the whole; a restriction seen inside a swallowed call
  and followed by a device error is recorded as transient and retried.
* Stories: captures under temporary names that an error or a crash leaves are never swept; a row whose
  picture an error or a crash left unnamed never heals if the same bytes come again (the INSERT is ignored and the
  capture thrown away); the reshares of a run whose `scrape_stories` raised stay; only the best match
  is compared; renames do not touch stories.
* Alerts: an alert can be announced as resolved twice; an `update()` overlapped by another can resolve
  one that holds. A comment in `feedserver/queries.py` says runs never overlap; `once` and the loop may.
* Feeds: a rename stamps nothing, so a 304 can keep an old name or avatar and, in a user's feed, hide
  the posts that moved there; an entry stored after the ETag's reads, read with the rows and then
  deleted leaves the ETag as it was, and the reader keeps it. With two writers `updated_at` stamps
  precede the lock they are committed under; the model has one writer of posts at a time.
* Upgrade: `_migrate_dedupe` unlinks inside its open transaction, so a crash there loses pictures of
  rows it restores; it leaves stale `media` rows of merged posts.

## 6. Proofs

Each theorem holds for every value of the constants its module's `ASSUME`s allow: any sets of users,
frames, feeds, moods, processes, outcomes or old databases, any bounds.

| Theorem | Property | Argument: the invariant, and what it adds |
|---|---|---|
| `PollLoopProofs!TypeCorrect` | `TypeOK` | inductive, proved a part at a time; lemmas give the ranges of the computed sleeps and counts |
| `HoldStops` | `StopsUntilPersonActs` | `HoldInv`: a standing hold keeps the loop before the lock check; an armed, unmissed state has the hold or is about to write it |
| `LockHoldsBack` | `LaunchesUnderLock` | `LockInv`: launches under the lock and the run past the check are together at most one |
| `BudgetHolds` | `RecordedWithinBudget` | `OneOverAtMost`, inductive given `TypeOK`: rows and runs in flight, one over when both processes run; `WindowAppend` and `WindowTick`: what one row and one tick change in the window |
| `OnceCostsOneRun` | (`CapButForOne`) | the same invariant, for any use of `once` |
| `FailuresAgree` | `FailuresMatchTable` | `FailuresInv`: and between the row and the bookkeeping the count as it is about to be; `StreakAppend`: what a row does to the streak |
| `LadderHolds` | `RetryLadder` | `LadderInv`: as many of the newest rows as there were retries were transient, from the row on |
| `SpacingHolds` | `LaunchSpacing` | `PastInv`, `SpacingInv`: rows end in order and in the past; the loop sleeps until a moment far enough from each of its own |
| `LatchImplemented` | `ImplementsLatch` | with `MaxOnce = 0`, each step is a step of the latch or a stutter, using `HoldInv` |
| `SessionProofs!WarningsStay` | `WarningsOwn` | `WarningsInv`: a warning is kept until the first call is done, and noted after |
| `SeenBlockStops` | `SeenBlockStopsRun` | `BuildInv`, `SeenInv`: a restriction seen and swallowed is still in front when the next call looks, before it taps |
| `PasswordsBounded` | `NoPasswordHammering` | `TypedInv`: two passwords left, or one on the way back from a swallowed refusal, or none and a refusal that ends the run |
| `WalkProofs!StopsInTime` | `StopsWithinOneCard` | `LookNext`: past the stop reason the next step asks for it |
| `LinksStayOwn` | `LinksTheirOwn` | `OwnInv`: the clipboard has the last link read, or nothing |
| `SheetsStayBounded` | `SheetsBounded` | `SheetsInv`: sheets against failures, until a card is known and once more after |
| `EndsOnKnown` | `EndsOnKnownPosts` | `StreakInv`: the streak is the cards counted this run and the relapses |
| `PostStoreProofs!TypeCorrect`, `CodesAreLinks` | `TypeOK`, `CodeIsLink` | `RowInv`: the card at hand is unknown to every row until its own is inserted |
| `BackfillsOnce` | `OneBackfillPerLink` | itself, given `RowInv` |
| `IdsStay` | `EntryIdsKept` | from `RowInv`, per kind of write |
| `OnlySlidesLeft` | `LeftoversAreSlides` | `SlideRows`: a media row is a stored post's, or under a hash id |
| `CoversStay` | `CoverOnDisk` | `OwnInv`, `DiskInv`: a row can be found by the hash its cover is named after; no two rows share a cover and none is about to go |
| `StoriesProofs!PicturesFollowRows` | `PicturesMatchRows` | `PicturesInv`: a file is doomed only once its row is gone |
| `NoTwinsStored` | `NoTwins` | `ClockInv`: no row is from the future; the capture was compared with all of the last day |
| `ReshareFreeEnds` | `ResharesGone` | `TornBefore`, `CountInv`: unless `scrape_stories` raised, the run's rows have their pictures and the count is theirs, compared in order |
| `AccountsProofs!TypeCorrect` | `TypeOK` | inductive, proved a part at a time |
| `ListNeverEmpties` | `AllowlistStays` | `FoundSome`: a refresh about to store names has some; a rename leaves a name for the one it takes |
| `AuthorsStay` | `AuthorsKept` | `PersonInv`: every suspicion, candidate and confirmed rename joins two names of one account |
| `AvatarsStay` | `AvatarOnDisk` | `FacesInv`: a rename leads to a later name; a file is shown by its own name's row or later ones'; two rows share the first name's file only once no post is stored under it, so that no confirmed rename of it is left to drop the file |
| `ShrinkTakesAPerson` | `ShrinkNeedsPerson` | `ListsInv`: no list names an account twice, so that a rename does not shorten one |
| `ReadersProofs!PeopleKnow`, `RaisedOnce` | `HeardMatchesTable`, `AnnouncedOnce` | `HeardInv`: the same of the table as it is about to be; `AlertsAlone`: `Readers` implements `AlertsSpec` |
| `TableInLine` | `TableMatchesConditions` | `MatchInv`, `Worded`: an update alone from its comparison on has left to do what the table still lacks |
| `NothingHides` | `NothingCachedAway` | `FeedInv`: a row no newer than the greatest stamp read was there then as it is now, in the parts, the rows and the reader's copy |
| `UpgradeProofs!SearchFinds` | `SearchMatches` | `StageInv`: which step belongs to which version; the triggers keep the index in line from its creation on |
| `PicturesStay` | `PicturesKept` | `PictureInv`: no picture is two rows', so a merge drops what nobody shows, on disk and in the transaction |
| `PostsKnown` | `PostsRecognised` | `KnownInv`: what each version has established of hashes and of rows with one caption |

Each strengthening is needed. Many properties are silent exactly where the code is in between: of the
step between a run's row and its hold or its bookkeeping, of an open transaction, of the run already
past a check, of a card being stored, of a request half answered. Others need what makes a later step
safe: `EntryIdsKept` that no row has the card's link already, `ShrinkNeedsPerson` that no list names an
account twice, `LinksTheirOwn` what the clipboard still holds. TLC found each of the larger invariants
to hold on its run before it was proved. The invariant of a step is proved by one case per action, or
per kind of write where many actions make the same one.

### Hypotheses

Some theorems need more than the modules assume, and say so:

* `MaxOnce = 0` (`LatchImplemented`, and inside `HoldStops` and `BudgetHolds`): `scraper.py once` is a
  person's choice to run under the hold, and races the loop for the budget.
* `OneHead` (`AuthorsStay`, `AvatarsStay`, `ShrinkTakesAPerson`): no post has two accounts at its
  head. With a shared post whose owner renames itself, two people's histories can be joined (Known
  limits).
* `PostsApart`, `TwoHashes` (`CoversStay`): no card can be taken for another post's, and no post hashes
  three ways. Both are limits of the code, above: the cover of a post that is taken for another, or
  forgotten, is lost.
* `OldHashes` (`PostsKnown`): the databases found are of version 6 or earlier, and those of 5 and 6 have
  the hashes their version writes. A later one is one of these brought up to date, which is what the
  theorem is about.

They hold of the runs' constants, except where a run is about their opposite (`post_links` has stale
links).

### Only model-checked

Liveness (`RequestTaken`, `LaunchesUnlessHeld`, `WalkEnds`, `ReadersCatchUp`): fairness and ENABLED are
out of the prover's reach. Every invariant and action property of the passing runs is a theorem. No
module uses a `RECURSIVE` operator; hashes, captions, distances and old databases are constants, so what
the code computes on strings and images is assumed of them and not proved.

`ReadersProofs` covers webhooks that fail, which the `feed` run does not.

## 7. Not modelled

* Developer tools and CI: not part of the running system.
* Status, health and browse pages, feed authentication, export: reads or stateless checks of one
  request. Searches, filters, users and OPML of the feed server are lookups. The row limit of a feed
  is left out: the instances are smaller than it.
* Diagnostics, doctor, tune, recordings, selector profiles, versioning: I/O or data lookups without
  state the rest depends on.
* Backup: a copy under `.part`, a replace, a prune; its errors are swallowed and nothing reads its
  result. A crash leaves `.part` files that nobody removes.
* The memory guard and the clock are the moment they say stop (`Over`); what they read is abstracted.
* Two processes migrating at once (CLI commands also run `db_init`), a migration that raises on a row.
* Screen parsing, image comparison and hashing, as data of the instances; colliding caption hashes.
* Rendering and wording.

Within the modelled parts: SQLite transactions are atomic and durable; disk-full and file errors are
the run failing.

## 8. Plan

Done: the poll loop with its latch; posts, accounts; then, in this order, alerts and feeds, the session,
the walk, stories, upgrades; and the proof of every safety property of every passing run.

Next, in order of importance:

1. An abstract post store (a set of posts, each once, with an id that stays) that `PostStore`
   implements up to its known limits, and the step-by-step proof of it.
2. Two processes in `db_init` at once; the health verdict against `PollLoop`'s sleeps.
3. Colliding caption hashes as a constant of `PostStore`.
