------------------------------ MODULE Accounts ------------------------------
(***************************************************************************)
(* The Following list as an allowlist, and accounts that rename themselves:*)
(* store_following, accept_following, rename_account and the rename        *)
(* suspicions (app/instadroid/db.py), the list's refresh                   *)
(* (app/instadroid/navigation.py), the walk's filter and the link check    *)
(* that raises a suspicion (app/instadroid/scrape.py), and the command     *)
(* line working on the same database from a second process.                *)
(*                                                                         *)
(* A SELECT that decides a later write is a step of its own: SQLite runs it*)
(* outside the transaction the write opens.                                *)
(***************************************************************************)
EXTENDS Integers, FiniteSets

CONSTANTS
    Accounts,      \* Instagram accounts, whatever they are called
    Names,         \* usernames
    FirstName,     \* [Accounts -> Names]
    Posts,         \* posts, by permalink
    Heads,         \* [Posts -> sets of accounts]: who may head the post's card
    ShrinkPercent, \* FOLLOWING_SHRINK_PERCENT
    AutoApply,     \* RENAME_AUTO_APPLY
    MaxChanges,    \* bound: renames and unfollows on Instagram
    MaxRuns        \* bound: runs of the scraper

ASSUME AccountsAssumption ==
    /\ FirstName \in [Accounts -> Names]
    /\ \A a, b \in Accounts : FirstName[a] = FirstName[b] => a = b
    /\ Heads \in [Posts -> (SUBSET Accounts) \ {{}}]
    /\ IsFiniteSet(Names)
ASSUME BoundsAssumption ==
    /\ ShrinkPercent \in 0 .. 100 /\ AutoApply \in BOOLEAN
    /\ MaxChanges \in Nat /\ MaxRuns \in Nat

VARIABLES
    name,      \* what each account is called now
    borne,     \* history: what each account has ever been called
    followed,  \* the accounts followed on Instagram
    changes,   \* bound: what has changed on Instagram
    stored,    \* the posts table: post -> its row
    following, \* the following table
    pending,   \* the following_pending table: a refresh held back
    avatar,    \* the accounts table: username -> its avatar_file, when it has one
    crops,     \* the files in avatars/, each by the name it was taken under
    suspects,  \* the rename_candidates table: <<old, new, post>>
    dismissed, \* the rename_dismissals table: <<old, new>>
    pc,        \* where the scraper's run is
    found,     \* the names a refresh has collected
    counted,   \* store_following's `stored`
    allow,     \* run.followed; every name when nothing is filtered
    crop,      \* the avatar saved and not yet in its row, a singleton, or {}
    noting,    \* the suspicion about to be recorded, a singleton, or {}
    renames,   \* confirmed_renames() still to be applied
    accepting, \* what `following --accept` has read, or {}
    runsLeft   \* bound: runs that may still start

instagram == <<name, borne, followed, changes>>
lists     == <<following, pending>>
doubts    == <<suspects, dismissed>>
faces     == <<avatar, crops>>
memory    == <<found, counted, allow, crop, noting, renames>>
vars == <<instagram, stored, lists, faces, doubts, pc, memory, accepting, runsLeft>>

\* A row: its username, and the account it is by.
Row == [user : Names, by : Accounts]

------------------------------------------------------------------------------
(* Instagram.  A name once borne is not taken by another account.          *)

Rename(a, n) ==
    /\ changes < MaxChanges
    /\ n \notin UNION {borne[b] : b \in Accounts}
    /\ name' = [name EXCEPT ![a] = n] /\ borne' = [borne EXCEPT ![a] = @ \cup {n}]
    /\ changes' = changes + 1
    /\ UNCHANGED <<followed, stored, lists, faces, doubts, pc, memory, accepting,
                   runsLeft>>

Unfollow(a) ==
    /\ changes < MaxChanges /\ a \in followed
    /\ followed' = followed \ {a} /\ changes' = changes + 1
    /\ UNCHANGED <<name, borne, stored, lists, faces, doubts, pc, memory, accepting,
                   runsLeft>>

------------------------------------------------------------------------------
(* The tables.                                                             *)

\* rename_candidates(): the pairs whose post is still stored under the old name.
Suspected == {<<c[1], c[2]>> : c \in {d \in suspects :
                                d[3] \in DOMAIN stored /\ stored[d[3]].user = d[1]}}

\* confirmed_renames(): borne out by the list, and unambiguous.
Confirmed == {r \in Suspected :
                /\ r[2] \in following /\ r[1] \notin following
                /\ \A s \in Suspected \ {r} : s[1] # r[1] /\ s[2] # r[2]}

\* store_following: whether a refresh is too short to replace the list.
HeldBackSwapped(names, old) == old * 100 < Cardinality(names) * ShrinkPercent
HeldBack(names, old) ==
    ShrinkPercent > 0 /\ Cardinality(names) * 100 < old * ShrinkPercent

\* rename_account on `following`: UPDATE OR IGNORE, then DELETE.
ListDropping(old, new) == following \ {old}
ListRenamed(old, new) ==
    IF old \in following THEN (following \ {old}) \cup {new} ELSE following

\* rename_account on `accounts`: the new name's avatar, else the old one's.
AvatarMoved(old, new) ==
    IF old \notin DOMAIN avatar THEN avatar
    ELSE [n \in (DOMAIN avatar \ {old}) \cup {new} |->
            IF n \in DOMAIN avatar THEN avatar[n] ELSE avatar[old]]

\* dropped_avatar: the file the fold leaves without a row.
DroppedOld(old, new) == IF old \in DOMAIN avatar THEN {avatar[old]} ELSE {}
Dropped(old, new) ==
    IF {old, new} \subseteq DOMAIN avatar THEN {avatar[old]} \ {avatar[new]} ELSE {}

\* rename_account: one transaction, and the file's removal after it.
RenameAccount(old, new) ==
    /\ avatar' = AvatarMoved(old, new)
    /\ crops' = crops \ Dropped(old, new)
    /\ stored' = [p \in DOMAIN stored |->
                    IF stored[p].user = old THEN [stored[p] EXCEPT !.user = new]
                    ELSE stored[p]]
    /\ following' = ListRenamed(old, new)
    /\ suspects' = {c \in suspects : {c[1], c[2]} \cap {old, new} = {}}

Init ==
    /\ name = FirstName /\ borne = [a \in Accounts |-> {FirstName[a]}]
    /\ followed = Accounts /\ changes = 0
    /\ stored = <<>> /\ following = {} /\ pending = {} /\ suspects = {} /\ dismissed = {}
    /\ avatar = <<>> /\ crops = {} /\ crop = {}
    /\ pc = "idle" /\ found = {} /\ counted = 0 /\ allow = Names /\ noting = {}
    /\ renames = {} /\ accepting = {} /\ runsLeft = MaxRuns

------------------------------------------------------------------------------
(* A run.                                                                  *)

\* _scrape_feed: the list is due when old, or never filled.
StartRun ==
    /\ pc = "idle" /\ runsLeft > 0 /\ runsLeft' = runsLeft - 1
    /\ \/ pc' = "list"
       \/ following # {} /\ pc' = "filter"
    /\ UNCHANGED <<instagram, stored, lists, faces, doubts, memory, accepting>>

\* scrape_following_list: all of the list, or a scroll that stopped early.
ScrapeList ==
    /\ pc = "list"
    /\ found' \in (SUBSET {name[a] : a \in followed}) \ {{}}
    /\ pc' = "count"
    /\ UNCHANGED <<instagram, stored, lists, faces, doubts, counted, allow, crop,
                   noting, renames, accepting, runsLeft>>

\* The list never opened, or nothing was collected: the stored one stays.
ListFails ==
    /\ pc = "list" /\ pc' = "filter"
    /\ UNCHANGED <<instagram, stored, lists, faces, doubts, memory, accepting,
                   runsLeft>>

CountStored ==
    /\ pc = "count" /\ counted' = Cardinality(following)
    /\ pc' = "replace"
    /\ UNCHANGED <<instagram, stored, lists, faces, doubts, found, allow, crop,
                   noting, renames, accepting, runsLeft>>

StoreFollowing ==
    /\ pc = "replace"
    /\ IF HeldBack(found, counted)
       THEN pending' = found /\ UNCHANGED following
       ELSE following' = found /\ pending' = {}
    /\ pc' = "filter" /\ found' = {} /\ counted' = 0
    /\ UNCHANGED <<instagram, stored, faces, doubts, allow, crop, noting, renames,
                   accepting, runsLeft>>

\* _scrape_feed: the filter is read once; an empty list filters nothing.
ReadFilter ==
    /\ pc = "filter"
    /\ allow' = IF following = {} THEN Names ELSE following
    /\ pc' = "walk"
    /\ UNCHANGED <<instagram, stored, lists, faces, doubts, found, counted, crop,
                   noting, renames, accepting, runsLeft>>

\* _note_screen: the cards the run acts on.
Shown(p, a) == pc = "walk" /\ a \in Heads[p] /\ name[a] \in allow

\* capture_avatar for an account on screen whose avatar is due: the file ...
SaveAvatar(p, a) ==
    /\ Shown(p, a)
    /\ crops' = crops \cup {name[a]} /\ crop' = {name[a]} /\ pc' = "avatar"
    /\ UNCHANGED <<instagram, stored, lists, avatar, doubts, found, counted, allow, noting,
                   renames, accepting, runsLeft>>

\* ... and upsert_account, its row.
UpsertAccount ==
    /\ pc = "avatar"
    /\ avatar' = [n \in DOMAIN avatar \cup crop |-> IF n \in crop THEN n ELSE avatar[n]]
    /\ crop' = {} /\ pc' = "walk"
    /\ UNCHANGED <<instagram, stored, lists, crops, doubts, found, counted, allow, noting,
                   renames, accepting, runsLeft>>

\* _handle_card: a post not stored yet, or one whose link turned out to be stale
\* (the link of a stored post of another name, on a clipboard not emptied first).
StorePost(p, a) ==
    /\ Shown(p, a) /\ p \notin DOMAIN stored
    /\ stored' = [q \in DOMAIN stored \cup {p} |->
                    IF q = p THEN [user |-> name[a], by |-> a] ELSE stored[q]]
    /\ UNCHANGED <<instagram, lists, faces, doubts, pc, memory, accepting, runsLeft>>

\* _shared_post: the header names the row's account and the card's, or this one
\* "and 1 other".
Shared(p, a, old) ==
    \/ \E b \in Heads[p] \ {a} : {name[a], name[b]} = {name[a], old}
    \/ Cardinality(Heads[p]) > 2

\* _check_permalink's "stale": another account's post, and a link that may be old.
StaleNever(q, a, certain) == FALSE
Stale(q, a, certain) == stored[q].user # name[a] /\ ~certain

\* _check_permalink on card p with the link of q: a suspicion, unless dismissed
\* (the SELECT of note_rename_candidate).
Suspect(p, a, q, certain) ==
    /\ Shown(p, a) /\ q \in DOMAIN stored /\ (certain => q = p)
    /\ ~Stale(q, a, certain)
    /\ stored[q].user # name[a] /\ ~Shared(q, a, stored[q].user)
    /\ <<stored[q].user, name[a]>> \notin dismissed
    /\ noting' = {<<stored[q].user, name[a], q>>} /\ pc' = "note"
    /\ UNCHANGED <<instagram, stored, lists, faces, doubts, found, counted, allow,
                   crop, renames, accepting, runsLeft>>

\* ... and its INSERT OR IGNORE.
NoteCandidateKept ==
    /\ pc = "note" /\ suspects' = suspects \cup noting /\ pc' = "walk"
    /\ UNCHANGED <<instagram, stored, lists, faces, dismissed, memory, accepting,
                   runsLeft>>
NoteCandidate ==
    /\ pc = "note" /\ suspects' = suspects \cup noting
    /\ noting' = {} /\ pc' = "walk"
    /\ UNCHANGED <<instagram, stored, lists, faces, dismissed, found, counted, allow,
                   crop, renames, accepting, runsLeft>>

\* _finish_run, when the walk stops.
ReadRenames ==
    /\ pc = "walk"
    /\ renames' = IF AutoApply THEN Confirmed ELSE {}
    /\ pc' = "finish"
    /\ UNCHANGED <<instagram, stored, lists, faces, doubts, found, counted, allow,
                   crop, noting, accepting, runsLeft>>

ApplyRename ==
    /\ pc = "finish"
    /\ \E r \in renames : RenameAccount(r[1], r[2]) /\ renames' = renames \ {r}
    /\ UNCHANGED <<instagram, pending, dismissed, pc, found, counted, allow, crop,
                   noting, accepting, runsLeft>>

\* prune_old_posts, and the run ends.
EndRun ==
    /\ pc = "finish" /\ renames = {}
    /\ \E old \in SUBSET DOMAIN stored : stored' = [p \in DOMAIN stored \ old |-> stored[p]]
    /\ pc' = "idle" /\ allow' = Names
    /\ UNCHANGED <<instagram, lists, faces, doubts, found, counted, crop, noting,
                   renames, accepting, runsLeft>>

\* The run fails or its process dies: only its memory goes.
RunDies ==
    /\ pc # "idle" /\ pc' = "idle"
    /\ found' = {} /\ counted' = 0 /\ allow' = Names
    /\ crop' = {} /\ noting' = {} /\ renames' = {}
    /\ UNCHANGED <<instagram, stored, lists, faces, doubts, accepting, runsLeft>>

------------------------------------------------------------------------------
(* The command line, another process.  Whoever types a rename knows it.    *)

AcceptRead ==
    /\ accepting = {} /\ pending # {} /\ accepting' = pending
    /\ UNCHANGED <<instagram, stored, lists, faces, doubts, pc, memory, runsLeft>>

AcceptStore ==
    /\ accepting # {}
    /\ following' = accepting /\ pending' = {} /\ accepting' = {}
    /\ UNCHANGED <<instagram, stored, faces, doubts, pc, memory, runsLeft>>

CliRename(a, old) ==
    /\ old \in borne[a] \ {name[a]}
    /\ RenameAccount(old, name[a])
    /\ UNCHANGED <<instagram, pending, dismissed, pc, memory, accepting, runsLeft>>

Dismiss(r) ==
    /\ dismissed' = dismissed \cup {r}
    /\ suspects' = {c \in suspects : <<c[1], c[2]>> # r}
    /\ UNCHANGED <<instagram, stored, lists, faces, pc, memory, accepting, runsLeft>>

World == \E a \in Accounts : Unfollow(a) \/ (\E n \in Names : Rename(a, n))
Refresh == StartRun \/ ScrapeList \/ ListFails \/ CountStored \/ StoreFollowing \/ ReadFilter
Walk == \E p \in Posts, a \in Accounts :
            \/ StorePost(p, a) \/ SaveAvatar(p, a)
            \/ \E q \in Posts, certain \in BOOLEAN : Suspect(p, a, q, certain)
Finish == UpsertAccount \/ NoteCandidate \/ ReadRenames \/ ApplyRename \/ EndRun \/ RunDies
Cli == \/ AcceptRead \/ AcceptStore
       \/ \E a \in Accounts : \E old \in Names : CliRename(a, old)
       \/ \E r \in Suspected : Dismiss(r)

Next == World \/ Refresh \/ Walk \/ Finish \/ Cli

Spec == Init /\ [][Next]_vars

------------------------------------------------------------------------------
(* Properties.                                                             *)

TypeOK ==
    /\ name \in [Accounts -> Names] /\ borne \in [Accounts -> SUBSET Names]
    /\ followed \subseteq Accounts /\ changes \in 0 .. MaxChanges
    /\ DOMAIN stored \subseteq Posts /\ \A p \in DOMAIN stored : stored[p] \in Row
    /\ following \subseteq Names /\ pending \subseteq Names /\ accepting \subseteq Names
    /\ DOMAIN avatar \subseteq Names /\ \A n \in DOMAIN avatar : avatar[n] \in Names
    /\ crops \subseteq Names /\ crop \subseteq Names /\ (crop # {} <=> pc = "avatar")
    /\ suspects \subseteq Names \X Names \X Posts /\ dismissed \subseteq Names \X Names
    /\ pc \in {"idle", "list", "count", "replace", "filter", "walk", "avatar", "note", "finish"}
    /\ found \subseteq Names /\ counted \in Nat /\ allow \subseteq Names
    /\ noting \subseteq Names \X Names \X Posts
    /\ Cardinality(noting) <= 1 /\ (noting # {} <=> pc = "note")
    /\ renames \subseteq Names \X Names /\ runsLeft \in 0 .. MaxRuns

\* Once a list has been stored it is never empty again: an empty one would turn the
\* filter off and store every account the feed shows (_scrape_feed, store_following).
AllowlistStays == [][following # {} => following' # {}]_vars

\* Only a person makes the list much shorter: a run's own step, storing a refresh or
\* applying renames it confirmed earlier, leaves it at least FOLLOWING_SHRINK_PERCENT
\* of what it was, whatever the command line renames or accepts meanwhile.  The count
\* is read before the list is replaced: accepting a longer list in between escapes it.
OutgrewCount == pc = "replace" /\ Cardinality(following) > counted
ShrinkNeedsPerson ==
    [][(pc # pc' \/ renames # renames') /\ ~OutgrewCount =>
        Cardinality(following') * 100 >= Cardinality(following) * ShrinkPercent]_vars

\* A stored post is filed under a name its author has borne, whatever renames are
\* suspected, confirmed by the list, applied without a person or typed by one.
AuthorsKept == \A p \in DOMAIN stored : stored[p].user \in borne[stored[p].by]

\* The avatar of an account under the name it has now is on disk, under whichever
\* name it was taken, whatever renames fold one account's row into another's, in a
\* run or beside one (rename_account drops the old row's file and looks at no third
\* row: an account that renames a third time may lose a file two rows had in common).
AvatarOnDisk ==
    \A a \in Accounts : name[a] \in DOMAIN avatar /\ Cardinality(borne[a]) <= 3 =>
        avatar[name[a]] \in crops
=============================================================================
