------------------------------ MODULE Session -------------------------------
(***************************************************************************)
(* A run as a session with Instagram: the calls of _scrape_feed            *)
(* (app/instadroid/scrape.py), which of their failures it swallows, and    *)
(* what every navigation starts with (app/instadroid/navigation.py): is    *)
(* the app there, in front, restricted, challenged, asking for an update   *)
(* or for the password.  Each look at the screen and each tap is a step:   *)
(* Instagram may change the screen between a look and the tap after it.    *)
(***************************************************************************)
EXTENDS Integers, FiniteSets

CONSTANTS
    Policies,        \* how Instagram is installed, see policy
    Newest,          \* the newest validated build; the default one is 1
    RefreshDue,      \* whether the Following list may be due
    Moods,           \* what Instagram and the device may come up with
    MaxMoods, MaxRuns \* bounds

ASSUME SessionAssumption ==
    /\ RefreshDue \in BOOLEAN /\ Newest \in Nat \ {0}
    /\ Policies \subseteq {"auto", "pinned", "off"}
    /\ Moods \subseteq {"block", "prompt", "logout", "challenge", "demand", "leave", "error"}
    /\ {MaxMoods, MaxRuns} \subseteq Nat

\* Dialogs lie over another screen, and a tap or Back takes them away.
Dialogs == {"prompt", "alert", "restricted", "sheet"}
Screens == Dialogs \cup {"home", "feed", "list", "other", "challenge", "update",
                         "welcome", "form", "page", "launcher"}
\* Errors only a person can clear (alerts.needs_human).
Human == {"restricted", "challenge", "update", "page", "rejected"}

VARIABLES
    screen, under,   \* what is in front, and what a dialog or the launcher hides
    account,         \* what Instagram makes of it: "in", "out" or "challenged"
    blocked,         \* whether it is limiting the account
    policy,          \* "off": IG_AUTO_INSTALL is; "pinned": IG_APK_VERSION names a build
    bundle,          \* what APK_CACHE_DIR holds of each build: nothing, part or all of it
    build, demanded, \* the installed build, 0 = none; the oldest that still runs
    stage,           \* the call of _scrape_feed under way, "idle" or "held"
    pc,              \* where in that call
    attempt,         \* tries left of the loop it is in
    outcome,         \* the last run's error, or "none"
    kept, noted,     \* install._WARNINGS and the run's own: the runs they are from
    run, moods,      \* runs started, moods so far
    \* What happened, read by no guard:
    seen,            \* the run has looked at a restriction
    touched,         \* and a restriction was tapped or backed out of after that
    typed, upset,    \* passwords typed, and moods, since one was accepted
    warned           \* an update in the run's first call went without a snapshot

phone == <<screen, under, account, blocked, build, demanded>>
control == <<stage, pc, attempt, outcome, kept, noted, run>>
history == <<seen, touched, typed, upset, warned>>
world == <<account, blocked, build, demanded, moods, policy, bundle>>
vars == <<phone, control, policy, bundle, moods, history>>

------------------------------------------------------------------------------
(* The phone.                                                               *)

\* What a cold start may come up with.
Start(a, b) ==
    IF b < demanded THEN {"update"}
    ELSE CASE a = "challenged" -> {"challenge"}
           [] a = "out"        -> {"welcome", "form", "page"}
           [] a = "in"         -> {"home"} \cup (IF blocked THEN {"restricted"} ELSE {})

\* A screen comes to the front; a dialog that does lies over the home feed.
Show(s) == screen' = s /\ under' = IF s \in Dialogs THEN "home" ELSE s

\* A tap or Back that takes a dialog away, or leaves a screen for another.
Leave(s) ==
    /\ screen' = (IF screen \in Dialogs THEN under ELSE s)
    /\ under' = screen'
    /\ touched' = (touched \/ (screen = "restricted" /\ seen))

Mood(m) ==
    /\ m \in Moods /\ moods < MaxMoods /\ moods' = moods + 1
    /\ stage \notin {"idle", "held"} /\ screen \notin {"restricted", "launcher"}
    /\ upset' = upset + 1 /\ UNCHANGED <<policy, bundle, seen, touched, typed, warned>>

\* A dialog appears: a restriction, or a prompt or a wrong-password alert.
Appear ==
    /\ \/ Mood("block") /\ blocked' = TRUE /\ screen' = "restricted"
       \/ Mood("prompt") /\ UNCHANGED blocked /\ screen' \in {"prompt", "alert", "sheet"}
    /\ screen \notin Dialogs /\ under' = screen
    /\ UNCHANGED <<account, build, demanded, control>>

\* Instagram ends the session, wants a human or a newer build.
Turn ==
    /\ \/ Mood("logout") /\ account' = "out" /\ UNCHANGED demanded
       \/ Mood("challenge") /\ account' = "challenged" /\ UNCHANGED demanded
       \/ Mood("demand") /\ demanded' \in {Newest, Newest + 1} /\ UNCHANGED account
    /\ \E s \in (IF build < demanded' THEN {"update"}
                 ELSE IF account' = "challenged" THEN {"challenge"}
                 ELSE IF account' = "out" THEN {"welcome", "form", "page"} ELSE {screen}) :
        Show(s)
    /\ UNCHANGED <<blocked, build, control>>

\* Instagram leaves the foreground, and keeps what it showed.
GoAway ==
    /\ Mood("leave") /\ screen' = "launcher" /\ under' = screen
    /\ UNCHANGED <<account, blocked, build, demanded, control>>

------------------------------------------------------------------------------
(* The run's calls, and where an exception goes.                            *)

At(p) == stage \notin {"idle", "held"} /\ pc = p
Go(p) == pc' = p /\ UNCHANGED <<stage, attempt, outcome, kept, noted, run>>

Call(s) ==
    /\ stage' = s
    /\ pc' = CASE s = "stories" -> "act" [] s = "walk" -> "dump" [] OTHER -> "installed"
    /\ attempt' = 4

\* The end of the run: recorded, held if it needs a person, Instagram force-stopped.
EndRun(e) ==
    /\ stage' = IF e \in Human THEN "held" ELSE "idle"
    /\ outcome' = e /\ pc' = "ended" /\ attempt' = 0
    /\ screen' = "launcher" /\ under' = "cold"

\* Mutant: after what they raise the feed is looked for from where Instagram is.
ThrowUnchecked(e) ==
    /\ IF stage \in {"refresh", "stories", "back"}
       THEN /\ stage' = "reopen" /\ pc' = "act" /\ attempt' = 4
            /\ UNCHANGED <<outcome, screen, under>>
       ELSE EndRun(e)
    /\ UNCHANGED <<noted, run>>

\* refresh_following_list and scrape_stories run inside `except Exception`, and the
\* feed is opened again after either; anything else ends the run.
Throw(e) ==
    /\ IF stage \in {"refresh", "stories", "back"}
       THEN /\ Call(IF stage = "refresh" THEN "reopen" ELSE "recover")
            /\ UNCHANGED <<outcome, screen, under>>
       ELSE EndRun(e)
    /\ UNCHANGED <<noted, run>>

Raise(e) == Throw(e) /\ UNCHANGED kept

\* A call is done.  The first one's update warning is taken for the run's record.
Return ==
    /\ CASE stage = "open"    -> Call("stories") \/ Call("walk") \/ (RefreshDue /\ Call("refresh"))
         [] stage = "refresh" -> Call("reopen")
         [] stage = "reopen"  -> Call("stories") \/ Call("walk")
         [] stage = "stories" -> Call("back")
         [] OTHER             -> Call("walk")
    /\ noted' = (IF stage = "open" THEN kept ELSE noted)
    /\ kept' = (IF stage = "open" THEN {} ELSE kept)
    /\ UNCHANGED <<outcome, run>>

\* Mutant: a run starts with the warnings an earlier one left.
KeepWarnings == kept

\* install.take_warnings() at the start: what a failed run left behind goes.
DropWarnings == {}

\* A run starts, from the schedule, a retry or a command.
StartRun ==
    /\ stage = "idle" /\ run < MaxRuns /\ run' = run + 1
    /\ Call("open") /\ outcome' = "none"
    /\ kept' = DropWarnings /\ noted' = {}
    /\ seen' = FALSE /\ warned' = FALSE
    /\ UNCHANGED <<phone, moods, policy, bundle, touched, typed, upset>>

\* A person clears what held the loop and unlocks it.
Person ==
    /\ stage = "held" /\ stage' = "idle"
    /\ account' = "in" /\ blocked' = FALSE
    /\ demanded' = (IF demanded > Newest THEN Newest ELSE demanded)
    /\ build' = (IF build < demanded' THEN Newest ELSE build)
    /\ typed' = 0 /\ upset' = 0 /\ seen' = FALSE /\ warned' = FALSE /\ outcome' = "none"
    /\ UNCHANGED <<screen, under, pc, attempt, kept, noted, run, moods, policy, bundle, touched>>

\* adb or uiautomator fails under any step: transient.
Failing ==
    /\ "error" \in Moods /\ moods < MaxMoods /\ moods' = moods + 1
    /\ stage \notin {"idle", "held"}
    /\ Raise("device") /\ upset' = upset + 1
    /\ UNCHANGED <<account, blocked, build, demanded, policy, bundle, seen, touched, typed, warned>>
------------------------------------------------------------------------------
(* How every navigation starts: ensure_logged_in and the rest of _prepare_app. *)

\* An `elif` of checks: the screen asked about is there and the run ends, or it goes on.
Unless(s, e, next) ==
    /\ IF screen = s THEN Raise(e) ELSE Go(next) /\ UNCHANGED <<screen, under>>

\* Instagram in front: cold, or as it was left.
Launch ==
    IF screen # "launcher" THEN UNCHANGED <<screen, under>>
    ELSE IF under = "cold" THEN \E s \in Start(account, build) : Show(s)
    ELSE Show(under)

\* The build to put on: the default one if there is none, the newest if it is asked for.
Wanted ==
    IF At("installed") /\ build = 0 /\ policy # "off" THEN {1}
    ELSE IF At("update") /\ screen = "update" /\ policy = "auto" /\ build < Newest THEN {Newest}
    ELSE {}

\* install_instagram gets the bundle from the cache or the net, and adb installs it.
Install(b) ==
    /\ bundle[b] # "part" /\ bundle' = [bundle EXCEPT ![b] = "all"]
    /\ build' = b

\* install.warn: an update that no snapshot would undo is noted before it is tried.
Warn(snapshot) ==
    /\ kept' = (IF snapshot THEN kept ELSE kept \cup {run})
    /\ warned' = (warned \/ (stage = "open" /\ ~snapshot))

\* The fetch, the unpacking or adb fails.  Unpacking that stops halfway leaves a part
\* of the bundle, which the next install takes for the whole and adb refuses.
InstallFails ==
    /\ \E snapshot \in BOOLEAN : (At("installed") => snapshot) /\ Warn(snapshot)
    /\ \E b \in Wanted :
        \/ bundle[b] = "part" /\ Throw("device") /\ UNCHANGED <<bundle, moods, upset>>
        \/ /\ "error" \in Moods /\ moods < MaxMoods /\ moods' = moods + 1 /\ upset' = upset + 1
           /\ \/ Throw("device") /\ UNCHANGED bundle
              \/ /\ bundle[b] = "none" /\ Throw("bundle")
                 /\ bundle' = [bundle EXCEPT ![b] = "part"]
    /\ UNCHANGED <<account, blocked, build, demanded, policy, seen, touched, typed>>

\* _ensure_installed and _launch_to_foreground.
Installed ==
    /\ At("installed")
    /\ IF build > 0 THEN Go("look") /\ Launch /\ UNCHANGED <<build, bundle>>
       ELSE IF policy = "off" THEN Raise("missing") /\ UNCHANGED <<build, bundle>>
       ELSE Install(1) /\ Go("installed") /\ UNCHANGED <<screen, under>>
    /\ UNCHANGED <<account, blocked, demanded, moods, policy, history>>

\* check_restricted: before the stray alert's OK, each dialog and each dump of the walk.
CheckRestricted(p, next) ==
    /\ At(p) /\ Unless("restricted", "restricted", next)
    /\ seen' = (seen \/ screen = "restricted")
    /\ UNCHANGED <<world, touched, typed, upset, warned>>

\* A wrong-password alert and a block that appeared since the look both have an OK.
StrayAlert ==
    /\ At("ok") /\ Go("challenge")
    /\ IF screen \in {"alert", "restricted"} THEN Leave(screen)
       ELSE UNCHANGED <<screen, under, touched>>
    /\ UNCHANGED <<world, seen, typed, upset, warned>>

RaiseIfChallenge(p, next) ==
    /\ At(p) /\ Unless("challenge", "challenge", next)
    /\ UNCHANGED <<world, history>>

\* _update_instagram: refused, or the newest build put on with a note when no snapshot
\* would undo it, and still a person's if that one asks for an update too.
UpdateInstagram ==
    /\ At("update")
    /\ IF screen # "update" THEN Go("welcome") /\ UNCHANGED <<screen, under, build, bundle, warned>>
       ELSE IF policy # "auto" \/ build >= Newest
       THEN Raise("update") /\ UNCHANGED <<build, bundle, warned>>
       ELSE /\ Install(Newest)
            /\ \E snapshot \in BOOLEAN : Warn(snapshot)
            /\ IF Newest < demanded
               THEN Throw("update")
               ELSE /\ pc' = "welcome" /\ UNCHANGED <<stage, attempt, outcome, noted, run>>
                    /\ \E s \in Start(account, Newest) : Show(s)
    /\ UNCHANGED <<account, blocked, demanded, moods, policy, seen, touched, typed, upset>>

Welcome ==
    /\ At("welcome") /\ Go("form")
    /\ IF screen = "welcome" THEN Show("form") ELSE UNCHANGED <<screen, under>>
    /\ UNCHANGED <<world, history>>

\* _submit_login: the password typed, and taken, refused or answered with a challenge.
SubmitLogin ==
    /\ At("form") /\ screen = "form" /\ Go("submitted")
    /\ \/ /\ account' = "in" /\ typed' = 0 /\ upset' = 0
          /\ \E s \in Start("in", build) : Show(s)
       \/ /\ account' = "out" /\ typed' = typed + 1 /\ UNCHANGED upset
          /\ screen' \in {"form", "alert"} /\ under' = "form"
       \/ account' = "challenged" /\ typed' = typed + 1 /\ UNCHANGED upset /\ Show("challenge")
    /\ UNCHANGED <<blocked, build, demanded, moods, policy, bundle, seen, touched, warned>>

\* No form: a login page it cannot fill, an Instagram that is gone, or a live session.
NoForm ==
    /\ At("form") /\ screen # "form"
    /\ CASE screen = "page"     -> Raise("page")
         [] screen = "launcher" -> Raise("device")
         [] OTHER               -> Go("front") /\ UNCHANGED <<screen, under>>
    /\ UNCHANGED <<world, history>>

\* Mutant: a submitted form is taken for a login.
AssumeLoggedIn ==
    /\ At("still") /\ Go("front") /\ UNCHANGED <<screen, under>>
    /\ UNCHANGED <<world, history>>

\* The form again after the password: it was wrong.
StillOnForm ==
    /\ At("still") /\ Unless("form", "rejected", "front")
    /\ UNCHANGED <<world, history>>

EnsureForeground ==
    /\ At("front") /\ Launch /\ pc' = "round" /\ attempt' = 4
    /\ UNCHANGED <<stage, outcome, kept, noted, run, world, history>>

\* A round of _dismiss_interstitials after its check: the prompt's button, if there is one.
Dismiss(p, round, next) ==
    /\ At(p) /\ UNCHANGED <<stage, outcome, kept, noted, run>>
    /\ IF screen \in {"prompt", "alert", "restricted"}
       THEN /\ Leave(screen)
            /\ IF attempt > 1 THEN pc' = round /\ attempt' = attempt - 1
               ELSE pc' = next /\ attempt' = 2
       ELSE pc' = next /\ attempt' = 2 /\ UNCHANGED <<screen, under, touched>>
    /\ UNCHANGED <<world, seen, typed, upset, warned>>

\* What Back leaves each screen for.
Behind == IF screen \in {"feed", "list", "other"} THEN "home" ELSE screen

\* close_sheets: a look, and Back on what is then in front, twice at most.
CloseSheets ==
    /\ \/ /\ At("sheets") /\ screen = "sheet" /\ attempt > 0
          /\ pc' = "back" /\ UNCHANGED <<attempt, screen, under, touched>>
       \/ At("back") /\ pc' = "sheets" /\ attempt' = attempt - 1 /\ Leave(Behind)
       \/ /\ At("sheets") /\ ~(screen = "sheet" /\ attempt > 0)
          /\ pc' = "act" /\ attempt' = 4 /\ Launch /\ UNCHANGED touched
    /\ UNCHANGED <<stage, outcome, kept, noted, run, world>>
    /\ UNCHANGED <<seen, typed, upset, warned>>

------------------------------------------------------------------------------
(* What each call then does.                                                *)

Tries == attempt' = attempt - 1 /\ UNCHANGED <<stage, pc, outcome, kept, noted, run>>

\* open_following_feed and open_own_following_list: four tries, Back from anywhere
\* else, and given up on without an error.  Neither looks for a restriction.
Navigate ==
    /\ At("act") /\ stage \notin {"stories", "walk"}
    /\ LET there == screen = "feed" /\ stage # "refresh" /\ attempt < 4 IN
       \/ (there \/ attempt = 0) /\ Return /\ UNCHANGED <<screen, under, touched>>
       \/ /\ attempt > 0 /\ screen = "home" /\ UNCHANGED touched
          /\ \/ Return /\ Show(IF stage = "refresh" THEN "list" ELSE "feed")
             \/ Tries /\ UNCHANGED <<screen, under>>
       \/ attempt > 0 /\ ~there /\ screen # "home" /\ Tries /\ Leave(Behind)
    /\ UNCHANGED <<world, seen, typed, upset, warned>>

\* scrape_stories: home by Back at first, by a relaunch between stories, three tries each.
ReachHome ==
    /\ \/ /\ At("act") /\ stage = "stories" /\ screen # "home"
          /\ IF attempt > 1 THEN Tries /\ Leave(Behind)
             ELSE /\ Call("walk")
                  /\ UNCHANGED <<outcome, kept, noted, run, screen, under, touched>>
       \/ /\ At("tray") /\ screen # "home" /\ UNCHANGED touched
          /\ IF attempt > 1 THEN Tries /\ Launch ELSE Return /\ UNCHANGED <<screen, under>>
    /\ UNCHANGED <<world, seen, typed, upset, warned>>

\* A story tapped open; Back out of it, or out of an Instagram that went by itself.
VisitStory ==
    /\ stage = "stories"
    /\ \/ /\ pc \in {"act", "tray"} /\ screen = "home" /\ UNCHANGED touched
          /\ \/ Go("story") /\ Show("other")
             \/ Return /\ UNCHANGED <<screen, under>>
       \/ /\ pc = "story" /\ pc' = "tray" /\ attempt' = 4
          /\ Leave(Behind) \/ (screen' = "launcher" /\ under' = "home" /\ UNCHANGED touched)
          /\ UNCHANGED <<stage, outcome, kept, noted, run>>
    /\ UNCHANGED <<world, seen, typed, upset, warned>>

\* _walk_feed on a dump that shows no restriction: a share sheet, a scroll, the feed
\* opened again, or the end of the run.
WalkFeed ==
    /\ stage = "walk"
    /\ \/ /\ pc = "card" /\ UNCHANGED touched
          /\ \/ /\ screen \in {"feed", "home"} /\ pc' = "shared"
                /\ \E s \in {"sheet", "other"} : Show(s)
                /\ UNCHANGED <<stage, attempt, outcome, kept, noted, run>>
             \/ Go("dump") /\ UNCHANGED <<screen, under>>
             \/ Call("again") /\ UNCHANGED <<outcome, kept, noted, run, screen, under>>
             \/ EndRun("none") /\ UNCHANGED <<kept, noted, run>>
       \/ pc = "shared" /\ Go("dump") /\ Leave("feed")
    /\ UNCHANGED <<world, seen, typed, upset, warned>>

------------------------------------------------------------------------------
Init ==
    /\ screen = "launcher" /\ under = "cold"
    /\ account \in {"in", "out"} /\ blocked = FALSE
    /\ build \in {0, 1} /\ demanded = 1 /\ policy \in Policies
    /\ bundle = [b \in 1..Newest |-> "none"]
    /\ stage = "idle" /\ pc = "ended" /\ attempt = 0 /\ outcome = "none"
    /\ kept = {} /\ noted = {} /\ run = 0 /\ moods = 0
    /\ seen = FALSE /\ touched = FALSE /\ typed = 0 /\ upset = 0 /\ warned = FALSE

PrepareApp ==
    \/ InstallFails \/ Installed \/ CheckRestricted("look", "ok") \/ StrayAlert
    \/ RaiseIfChallenge("challenge", "update") \/ UpdateInstagram \/ Welcome
    \/ SubmitLogin \/ NoForm \/ RaiseIfChallenge("submitted", "login round")
    \/ CheckRestricted("login round", "login tap") \/ Dismiss("login tap", "login round", "still")
    \/ StillOnForm \/ EnsureForeground
    \/ CheckRestricted("round", "tap") \/ Dismiss("tap", "round", "sheets") \/ CloseSheets

Next ==
    \/ Appear \/ Turn \/ GoAway \/ Failing \/ Person \/ StartRun
    \/ PrepareApp \/ Navigate \/ ReachHome \/ VisitStory
    \/ CheckRestricted("dump", "card") \/ WalkFeed

Spec == Init /\ [][Next]_vars

------------------------------------------------------------------------------
(* Properties.                                                              *)

TypeOK ==
    /\ screen \in Screens /\ under \in Screens \cup {"cold"}
    /\ account \in {"in", "out", "challenged"} /\ blocked \in BOOLEAN
    /\ build \in 0..Newest /\ demanded \in 1..(Newest + 1)
    /\ stage \in {"idle", "held", "open", "refresh", "reopen", "stories", "back", "recover",
                  "walk", "again"}
    /\ attempt \in 0..4 /\ outcome \in Human \cup {"none", "device", "missing", "bundle"}
    /\ bundle \in [1..Newest -> {"none", "part", "all"}]
    /\ kept \cup noted \subseteq 1..run /\ run \in 0..MaxRuns /\ moods \in 0..MaxMoods
    /\ {seen, touched, warned} \subseteq BOOLEAN /\ {typed, upset} \subseteq Nat
    \* Nothing is left in front once a run has ended, and only an ended run is held.
    /\ (stage \in {"idle", "held"}) = (pc = "ended") /\ (pc = "ended" => under = "cold")
    /\ (stage = "held") = (outcome \in Human)

\* A run that looked at a restriction never completes, and never taps it away: what
\* _scrape_feed swallows is looked at again before anything is tapped
\* (navigation.check_restricted, scrape.py _scrape_feed).
SeenBlockStopsRun ==
    /\ ~touched
    /\ pc = "ended" /\ seen => outcome \in {"restricted", "device"}

\* A password Instagram refuses is not typed again by itself: only as often as the
\* screen or the device has changed since, and once more where _scrape_feed swallows the
\* refusal and opens the feed again (ensure_logged_in, alerts.needs_human).
NoPasswordHammering == typed <= 2 * (1 + upset)

\* A run's record has its own update warnings and no other run's, and has the one of
\* an update made while its feed was opened (install.warn, take_warnings).
WarningsOwn ==
    /\ noted \subseteq {run}
    /\ pc = "ended" /\ outcome = "none" /\ warned => run \in noted

=============================================================================
