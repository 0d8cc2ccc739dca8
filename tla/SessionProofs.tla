--------------------------- MODULE SessionProofs ----------------------------
(***************************************************************************)
(* For all kinds of installation, moods of Instagram and numbers of runs:  *)
(* that a run's record has its own update warnings, that a restriction it  *)
(* looked at ends it untouched, and that a refused password is not typed   *)
(* over and over.                                                          *)
(***************************************************************************)
EXTENDS Session, TLAPS

Active == stage \notin {"idle", "held"}

\* Where a warning is while its run goes on: kept until the first call is done, then
\* noted.  What a run finds kept was dropped when it started.
WarningsInv ==
    /\ pc = "ended" => ~Active
    /\ noted \subseteq {run}
    /\ Active => kept \subseteq {run}
    /\ stage = "open" /\ warned => run \in kept
    /\ Active /\ stage # "open" /\ warned => run \in noted
    /\ pc = "ended" /\ outcome = "none" /\ warned => run \in noted

\* At the start there is no warning.
LEMMA WarningsInit == Init => WarningsInv
BY DEF Init, WarningsInv, Active

\* A step within a call that touches no warning.
LEMMA WithinCall ==
    ASSUME WarningsInv, Active, pc' # "ended", UNCHANGED <<stage, kept, noted, run, warned>>
    PROVE  WarningsInv'
BY DEF WarningsInv, Active

\* An exception swallowed or not: the run's warnings stay where they are.
LEMMA Thrown ==
    ASSUME WarningsInv, Active, NEW e, e # "none", Throw(e), UNCHANGED <<kept, warned>>
    PROVE  WarningsInv'
<1>1. CASE stage \in {"refresh", "stories", "back"}
    BY <1>1 DEF Throw, Call, WarningsInv, Active
<1>2. CASE stage \notin {"refresh", "stories", "back"}
  <2>1. EndRun(e) /\ UNCHANGED <<noted, run>>
      BY <1>2 DEF Throw
  <2>2. pc' = "ended" /\ outcome' = e /\ stage' \in {"idle", "held"}
      BY <2>1 DEF EndRun
  <2> QED
      BY <2>1, <2>2 DEF WarningsInv, Active
<1> QED
    BY <1>1, <1>2

\* An exception after a warning, which stays with its run.
LEMMA WarnedThrown ==
    ASSUME WarningsInv, Active, NEW snapshot \in BOOLEAN, Warn(snapshot),
           NEW e, e # "none", Throw(e)
    PROVE  WarningsInv'
<1>1. /\ kept \subseteq {run} => kept' \subseteq {run}
      /\ warned' => warned \/ stage = "open"
    BY DEF Warn
<1>2. CASE stage \in {"refresh", "stories", "back"}
    BY <1>1, <1>2 DEF Throw, Call, WarningsInv, Active
<1>3. CASE stage \notin {"refresh", "stories", "back"}
  <2>1. EndRun(e) /\ UNCHANGED <<noted, run>>
      BY <1>3 DEF Throw
  <2>2. pc' = "ended" /\ outcome' = e /\ stage' \in {"idle", "held"}
      BY <2>1 DEF EndRun
  <2> QED
      BY <2>1, <2>2 DEF WarningsInv, Active
<1> QED
    BY <1>2, <1>3

\* The end of a call hands the warnings of the first one over.
LEMMA Returned ==
    ASSUME WarningsInv, Active, Return, UNCHANGED warned
    PROVE  WarningsInv'
<1>1. CASE stage = "open"
    BY <1>1 DEF Return, Call, WarningsInv, Active
<1>2. CASE stage # "open"
    BY <1>2 DEF Return, Call, WarningsInv, Active
<1> QED
    BY <1>1, <1>2

\* A forced update warns when no snapshot would undo it.
LEMMA Updated == WarningsInv /\ UpdateInstagram => WarningsInv'
<1> SUFFICES ASSUME WarningsInv, UpdateInstagram PROVE WarningsInv'
    OBVIOUS
<1>1. Active /\ pc = "update"
    BY DEF UpdateInstagram, At, Active
<1>2. CASE screen # "update"
    BY <1>1, <1>2, WithinCall DEF UpdateInstagram, Go
<1>3. CASE screen = "update" /\ (policy # "auto" \/ build >= Newest)
    BY <1>1, <1>3, Thrown DEF UpdateInstagram, Raise
<1>4. CASE screen = "update" /\ ~(policy # "auto" \/ build >= Newest)
  <2>1. PICK snapshot \in BOOLEAN : Warn(snapshot)
      BY <1>4 DEF UpdateInstagram
  <2>2. CASE Newest < demanded
      BY <1>1, <1>4, <2>1, <2>2, WarnedThrown DEF UpdateInstagram
  <2>3. CASE ~(Newest < demanded)
    <3>1. pc' = "welcome" /\ UNCHANGED <<stage, attempt, outcome, noted, run>>
        BY <1>4, <2>3 DEF UpdateInstagram
    <3> QED
        BY <1>1, <2>1, <3>1 DEF Warn, WarningsInv, Active
  <2> QED
      BY <2>2, <2>3
<1> QED
    BY <1>2, <1>3, <1>4

\* A check that raises or lets the navigation go on.
LEMMA Checked ==
    ASSUME WarningsInv, Active, UNCHANGED warned,
           NEW s, NEW e, NEW next, e # "none", next # "ended", Unless(s, e, next)
    PROVE  WarningsInv'
<1>1. CASE screen = s
    BY <1>1, Thrown DEF Unless, Raise
<1>2. CASE screen # s
    BY <1>2, WithinCall DEF Unless, Go
<1> QED
    BY <1>1, <1>2

\* The steps of the navigation leave the warnings to their run.
LEMMA Prepared == WarningsInv /\ PrepareApp => WarningsInv'
<1> SUFFICES ASSUME WarningsInv, PrepareApp PROVE WarningsInv'
    OBVIOUS
<1>1. CASE InstallFails
  <2>1. Active
      BY <1>1 DEF InstallFails, Wanted, At, Active
  <2>2. PICK snapshot \in BOOLEAN : Warn(snapshot)
      BY <1>1 DEF InstallFails
  <2>3. Throw("device") \/ Throw("bundle")
      BY <1>1 DEF InstallFails
  <2> QED
      BY <2>1, <2>2, <2>3, WarnedThrown
<1>2. CASE Installed
  <2>1. Active /\ UNCHANGED warned
      BY <1>2 DEF Installed, At, Active, history
  <2>2. Go("look") \/ Go("installed") \/ Raise("missing")
      BY <1>2 DEF Installed
  <2> QED
      BY <2>1, <2>2, Thrown, WithinCall DEF Raise, Go
<1>3. ASSUME NEW p, NEW next, next # "ended", CheckRestricted(p, next) PROVE WarningsInv'
    BY <1>3, Checked DEF CheckRestricted, At, Active
<1>4. ASSUME NEW p, NEW next, next # "ended", RaiseIfChallenge(p, next) PROVE WarningsInv'
    BY <1>4, Checked DEF RaiseIfChallenge, At, Active, history
<1>5. CASE StrayAlert
    BY <1>5, WithinCall DEF StrayAlert, Go, At, Active
<1>6. CASE Welcome
    BY <1>6, WithinCall DEF Welcome, Go, At, Active, history
<1>7. CASE SubmitLogin
    BY <1>7, WithinCall DEF SubmitLogin, Go, At, Active
<1>8. CASE NoForm
  <2>1. Active /\ UNCHANGED warned
      BY <1>8 DEF NoForm, At, Active, history
  <2>2. Raise("page") \/ Raise("device") \/ Go("front")
      BY <1>8 DEF NoForm
  <2> QED
      BY <2>1, <2>2, Thrown, WithinCall DEF Raise, Go
<1>9. CASE StillOnForm
    BY <1>9, Checked DEF StillOnForm, At, Active, history
<1>10. CASE EnsureForeground
    BY <1>10, WithinCall DEF EnsureForeground, At, Active, history
<1>11. ASSUME NEW p, NEW round, NEW next, round # "ended", next # "ended",
              Dismiss(p, round, next)
       PROVE  WarningsInv'
    BY <1>11, WithinCall DEF Dismiss, At, Active
<1>12. CASE CloseSheets
    BY <1>12, WithinCall DEF CloseSheets, At, Active
<1> QED
    BY <1>1, <1>2, <1>3, <1>4, <1>5, <1>6, <1>7, <1>8, <1>9, <1>10, <1>11, <1>12, Updated
       DEF PrepareApp

\* So does what each call does then, and what the phone and people do.
LEMMA WarningsStep == WarningsInv /\ [Next]_vars => WarningsInv'
<1> SUFFICES ASSUME WarningsInv, [Next]_vars PROVE WarningsInv'
    OBVIOUS
<1>1. CASE Appear \/ Turn \/ GoAway
  <2>1. UNCHANGED <<stage, pc, outcome, kept, noted, run, warned>>
      BY <1>1 DEF Appear, Turn, GoAway, Mood, control
  <2> QED
      BY <2>1 DEF WarningsInv, Active
<1>2. CASE Failing
    BY <1>2, Thrown DEF Failing, Raise, Active
<1>3. CASE Person
    BY <1>3 DEF Person, WarningsInv, Active
<1>4. CASE StartRun
    BY <1>4 DEF StartRun, Call, DropWarnings, WarningsInv, Active
<1>5. CASE Navigate
  <2>1. Active /\ UNCHANGED warned
      BY <1>5 DEF Navigate, At, Active
  <2>2. CASE Return
      BY <2>1, <2>2, Returned
  <2>3. CASE Tries
      BY <2>1, <2>3 DEF Tries, WarningsInv, Active
  <2> QED
      BY <1>5, <2>2, <2>3 DEF Navigate
<1>6. CASE ReachHome
  <2>1. Active /\ UNCHANGED warned
      BY <1>6 DEF ReachHome, At, Active
  <2>2. CASE Return
      BY <2>1, <2>2, Returned
  <2>3. CASE Tries
      BY <2>1, <2>3 DEF Tries, WarningsInv, Active
  <2>4. CASE stage = "stories" /\ Call("walk") /\ UNCHANGED <<outcome, kept, noted, run>>
      BY <2>1, <2>4 DEF Call, WarningsInv, Active
  <2> QED
      BY <1>6, <2>2, <2>3, <2>4 DEF ReachHome
<1>7. CASE VisitStory
  <2>1. Active /\ UNCHANGED warned
      BY <1>7 DEF VisitStory, Active
  <2>2. CASE Return
      BY <2>1, <2>2, Returned
  <2>3. CASE ~Return
      BY <1>7, <2>1, <2>3, WithinCall DEF VisitStory, Go
  <2> QED
      BY <2>2, <2>3
<1>8. CASE CheckRestricted("dump", "card")
    BY <1>8, Checked DEF CheckRestricted, At, Active
<1>9. CASE WalkFeed
  <2>1. stage = "walk" /\ Active /\ UNCHANGED warned
      BY <1>9 DEF WalkFeed, Active
  <2>2. CASE EndRun("none") /\ UNCHANGED <<kept, noted, run>>
      BY <2>1, <2>2 DEF EndRun, WarningsInv, Active, Human
  <2>3. CASE Call("again") /\ UNCHANGED <<outcome, kept, noted, run>>
      BY <2>1, <2>3 DEF Call, WarningsInv, Active
  <2>4. CASE pc' \in {"shared", "dump"} /\ UNCHANGED <<stage, kept, noted, run>>
      BY <2>1, <2>4, WithinCall
  <2> QED
      BY <1>9, <2>2, <2>3, <2>4 DEF WalkFeed, Go
<1>10. CASE UNCHANGED vars
    BY <1>10 DEF vars, control, history, WarningsInv, Active
<1> QED
    BY <1>1, <1>2, <1>3, <1>4, <1>5, <1>6, <1>7, <1>8, <1>9, <1>10, Prepared DEF Next

\* However a run goes, its record has its own update warnings and no other run's
\* (install.warn, take_warnings).
THEOREM WarningsStay == Spec => []WarningsOwn
<1>1. WarningsInv => WarningsOwn
    BY DEF WarningsInv, WarningsOwn
<1> QED
    BY <1>1, WarningsInit, WarningsStep, PTL DEF Spec

------------------------------------------------------------------------------
(* Past its first look for Instagram a run has a build to work with.        *)

BuildInv ==
    /\ build \in Nat
    /\ pc = "ended" <=> ~Active
    /\ Active /\ ~(stage = "open" /\ pc = "installed") => build > 0

LEMMA BuildInit == Init => BuildInv
BY DEF Init, BuildInv, Active

\* A step within a call, past its first look.
LEMMA BuildWithin ==
    ASSUME BuildInv, Active, pc # "installed", pc' \notin {"installed", "ended"},
           UNCHANGED <<stage, build>>
    PROVE  BuildInv'
BY DEF BuildInv, Active

\* An exception: a swallowed one comes from a later call than the first.
LEMMA BuildThrown ==
    ASSUME BuildInv, Active, NEW e, Throw(e), UNCHANGED build
    PROVE  BuildInv'
<1>1. CASE stage \in {"refresh", "stories", "back"}
    BY <1>1 DEF Throw, Call, BuildInv, Active
<1>2. CASE stage \notin {"refresh", "stories", "back"}
  <2>1. pc' = "ended" /\ stage' \in {"idle", "held"}
      BY <1>2 DEF Throw, EndRun
  <2> QED
      BY <2>1 DEF BuildInv, Active
<1> QED
    BY <1>1, <1>2

\* A check past the first look.
LEMMA BuildChecked ==
    ASSUME BuildInv, NEW p, At(p), p # "installed", UNCHANGED build,
           NEW s, NEW e, NEW next, next \notin {"installed", "ended"}, Unless(s, e, next)
    PROVE  BuildInv'
<1>1. Active /\ pc # "installed"
    BY DEF At, Active
<1>2. CASE screen = s
    BY <1>1, <1>2, BuildThrown DEF Unless, Raise
<1>3. CASE screen # s
    BY <1>1, <1>3, BuildWithin DEF Unless, Go
<1> QED
    BY <1>2, <1>3

\* The end of a call, which past the first look leaves a build to the next one.
LEMMA BuildReturned ==
    ASSUME BuildInv, Active, pc # "installed", Return, UNCHANGED build
    PROVE  BuildInv'
<1>1. Call("stories") \/ Call("walk") \/ Call("refresh") \/ Call("reopen") \/ Call("back")
    BY DEF Return
<1>2. build > 0
    BY DEF BuildInv
<1> QED
    BY <1>1, <1>2 DEF Call, BuildInv, Active

LEMMA BuildUpdated == BuildInv /\ UpdateInstagram => BuildInv'
<1> SUFFICES ASSUME BuildInv, UpdateInstagram PROVE BuildInv'
    OBVIOUS
<1>1. Active /\ pc = "update" /\ build > 0
    BY DEF UpdateInstagram, At, Active, BuildInv
<1>2. CASE screen # "update"
    BY <1>1, <1>2, BuildWithin DEF UpdateInstagram, Go
<1>3. CASE screen = "update" /\ (policy # "auto" \/ build >= Newest)
    BY <1>1, <1>3, BuildThrown DEF UpdateInstagram, Raise
<1>4. CASE screen = "update" /\ ~(policy # "auto" \/ build >= Newest)
  <2>1. build' = Newest
      BY <1>4 DEF UpdateInstagram, Install
  <2>2. build' \in Nat /\ build' > 0
      BY <2>1, SessionAssumption
  <2>3. Throw("update") \/ (pc' = "welcome" /\ UNCHANGED stage)
      BY <1>4 DEF UpdateInstagram
  <2>4. CASE pc' = "welcome" /\ UNCHANGED stage
      BY <1>1, <2>2, <2>4 DEF BuildInv, Active
  <2>5. CASE Throw("update") /\ stage \in {"refresh", "stories", "back"}
      BY <2>2, <2>5 DEF Throw, Call, BuildInv, Active
  <2>6. CASE Throw("update") /\ stage \notin {"refresh", "stories", "back"}
    <3>1. pc' = "ended" /\ stage' \in {"idle", "held"}
        BY <2>6 DEF Throw, EndRun
    <3> QED
        BY <2>2, <3>1 DEF BuildInv, Active
  <2> QED
      BY <2>3, <2>4, <2>5, <2>6
<1> QED
    BY <1>2, <1>3, <1>4

LEMMA BuildPrepared == BuildInv /\ PrepareApp => BuildInv'
<1> SUFFICES ASSUME BuildInv, PrepareApp PROVE BuildInv'
    OBVIOUS
<1>1. CASE InstallFails
  <2>1. Active /\ UNCHANGED build
      BY <1>1 DEF InstallFails, Wanted, At, Active
  <2>2. Throw("device") \/ Throw("bundle")
      BY <1>1 DEF InstallFails
  <2> QED
      BY <2>1, <2>2, BuildThrown
<1>2. CASE Installed
  <2>1. Active /\ pc = "installed"
      BY <1>2 DEF Installed, At, Active
  <2>2. CASE build > 0
      BY <1>2, <2>1, <2>2 DEF Installed, Go, BuildInv, Active
  <2>3. CASE ~(build > 0) /\ policy = "off"
      BY <1>2, <2>1, <2>3, BuildThrown DEF Installed, Raise
  <2>4. CASE ~(build > 0) /\ policy # "off"
      BY <1>2, <2>1, <2>4 DEF Installed, Install, Go, BuildInv, Active
  <2> QED
      BY <2>2, <2>3, <2>4
<1>3. ASSUME NEW p, NEW next, p # "installed", next \notin {"installed", "ended"},
             CheckRestricted(p, next)
      PROVE  BuildInv'
    BY <1>3, BuildChecked DEF CheckRestricted, world
<1>4. ASSUME NEW p, NEW next, p # "installed", next \notin {"installed", "ended"},
             RaiseIfChallenge(p, next)
      PROVE  BuildInv'
    BY <1>4, BuildChecked DEF RaiseIfChallenge, world
<1>5. CASE StrayAlert
    BY <1>5, BuildWithin DEF StrayAlert, Go, At, Active, world
<1>6. CASE Welcome
    BY <1>6, BuildWithin DEF Welcome, Go, At, Active, world
<1>7. CASE SubmitLogin
    BY <1>7, BuildWithin DEF SubmitLogin, Go, At, Active
<1>8. CASE NoForm
  <2>1. Active /\ pc # "installed" /\ UNCHANGED build
      BY <1>8 DEF NoForm, At, Active, world
  <2>2. Raise("page") \/ Raise("device") \/ Go("front")
      BY <1>8 DEF NoForm
  <2> QED
      BY <2>1, <2>2, BuildThrown, BuildWithin DEF Raise, Go
<1>9. CASE StillOnForm
    BY <1>9, BuildChecked DEF StillOnForm, world
<1>10. CASE EnsureForeground
    BY <1>10, BuildWithin DEF EnsureForeground, At, Active, world
<1>11. ASSUME NEW p, NEW round, NEW next, p # "installed", Dismiss(p, round, next),
              {round, next} \cap {"installed", "ended"} = {}
       PROVE  BuildInv'
    BY <1>11, BuildWithin DEF Dismiss, At, Active, world
<1>12. CASE CloseSheets
    BY <1>12, BuildWithin DEF CloseSheets, At, Active, world
<1> QED
    BY <1>1, <1>2, <1>3, <1>4, <1>5, <1>6, <1>7, <1>8, <1>9, <1>10, <1>11, <1>12, BuildUpdated
       DEF PrepareApp

LEMMA BuildStep == BuildInv /\ [Next]_vars => BuildInv'
<1> SUFFICES ASSUME BuildInv, [Next]_vars PROVE BuildInv'
    OBVIOUS
<1>1. CASE Appear \/ Turn \/ GoAway
  <2>1. UNCHANGED <<stage, pc, build>>
      BY <1>1 DEF Appear, Turn, GoAway, control
  <2> QED
      BY <2>1 DEF BuildInv, Active
<1>2. CASE Failing
    BY <1>2, BuildThrown DEF Failing, Raise, Active
<1>3. CASE Person
  <2>1. build' \in Nat
      BY <1>3, SessionAssumption DEF Person, BuildInv
  <2> QED
      BY <1>3, <2>1 DEF Person, BuildInv, Active
<1>4. CASE StartRun
    BY <1>4 DEF StartRun, Call, phone, BuildInv, Active
<1>5. CASE Navigate
  <2>1. Active /\ pc = "act" /\ UNCHANGED build
      BY <1>5 DEF Navigate, At, Active, world
  <2>2. CASE Return
      BY <2>1, <2>2, BuildReturned
  <2>3. CASE Tries
      BY <2>1, <2>3, BuildWithin DEF Tries
  <2> QED
      BY <1>5, <2>2, <2>3 DEF Navigate
<1>6. CASE ReachHome
  <2>1. Active /\ pc \in {"act", "tray"} /\ UNCHANGED build
      BY <1>6 DEF ReachHome, At, Active, world
  <2>2. CASE Return
      BY <2>1, <2>2, BuildReturned
  <2>3. CASE Tries
      BY <2>1, <2>3, BuildWithin DEF Tries
  <2>4. CASE Call("walk")
      BY <2>1, <2>4 DEF Call, BuildInv, Active
  <2> QED
      BY <1>6, <2>2, <2>3, <2>4 DEF ReachHome
<1>7. CASE VisitStory
  <2>1. Active /\ pc \in {"act", "tray", "story"} /\ UNCHANGED build
      BY <1>7 DEF VisitStory, Active, world
  <2>2. CASE Return
      BY <2>1, <2>2, BuildReturned
  <2>3. CASE ~Return
      BY <1>7, <2>1, <2>3, BuildWithin DEF VisitStory, Go
  <2> QED
      BY <2>2, <2>3
<1>8. CASE CheckRestricted("dump", "card")
    BY <1>8, BuildChecked DEF CheckRestricted, world
<1>9. CASE WalkFeed
  <2>1. Active /\ pc \in {"card", "shared"} /\ stage = "walk" /\ UNCHANGED build
      BY <1>9 DEF WalkFeed, Active, world
  <2>2. CASE EndRun("none")
      BY <2>1, <2>2 DEF EndRun, BuildInv, Active
  <2>3. CASE Call("again")
      BY <2>1, <2>3 DEF Call, BuildInv, Active
  <2>4. CASE pc' \in {"shared", "dump"} /\ UNCHANGED stage
      BY <2>1, <2>4, BuildWithin
  <2> QED
      BY <1>9, <2>2, <2>3, <2>4 DEF WalkFeed, Go
<1>10. CASE UNCHANGED vars
    BY <1>10 DEF vars, control, phone, BuildInv, Active
<1> QED
    BY <1>1, <1>2, <1>3, <1>4, <1>5, <1>6, <1>7, <1>8, <1>9, <1>10, BuildPrepared DEF Next

------------------------------------------------------------------------------
(* A restriction that was looked at ends the run: what is swallowed runs into *)
(* it again before anything is tapped.                                        *)

SeenInv ==
    /\ ~touched
    /\ Active /\ seen => /\ screen = "restricted" /\ pc \in {"installed", "look"}
                         /\ stage \in {"reopen", "recover"}
    /\ pc = "ended" /\ seen => outcome \in {"restricted", "device"}

LEMMA SeenInit == Init => SeenInv
BY DEF Init, SeenInv

\* Where a call is past its looks no restriction has been looked at.
LEMMA Unseen ==
    ASSUME SeenInv, Active, pc \notin {"installed", "look"}
    PROVE  ~seen /\ ~touched
BY DEF SeenInv

\* What taps or backs out of a screen then touches no restriction that was looked at.
LEMMA LeaveUnseen ==
    ASSUME ~seen, ~touched, UNCHANGED seen, (\E s : Leave(s)) \/ UNCHANGED touched
    PROVE  SeenInv'
<1>1. ~touched'
    BY DEF Leave
<1> QED
    BY <1>1 DEF SeenInv

\* An exception over a restriction that was looked at.
LEMMA SeenThrown ==
    ASSUME SeenInv, Active, NEW e \in {"restricted", "device"}, Throw(e), UNCHANGED touched,
           seen' => screen = "restricted"
    PROVE  SeenInv'
<1>1. CASE stage \in {"refresh", "stories", "back"}
    BY <1>1 DEF Throw, Call, SeenInv
<1>2. CASE stage \notin {"refresh", "stories", "back"}
  <2>1. outcome' = e /\ stage' \in {"idle", "held"}
      BY <1>2 DEF Throw, EndRun
  <2> QED
      BY <2>1 DEF SeenInv, Active
<1> QED
    BY <1>1, <1>2

LEMMA SeenChecked ==
    ASSUME SeenInv, NEW p, NEW next, p = "look" => next = "ok", CheckRestricted(p, next)
    PROVE  SeenInv'
<1>1. Active /\ UNCHANGED touched /\ seen' = (seen \/ screen = "restricted")
    BY DEF CheckRestricted, At, Active
<1>2. seen' => screen = "restricted"
    BY <1>1 DEF SeenInv
<1>3. CASE screen = "restricted"
  <2>1. Throw("restricted")
      BY <1>3 DEF CheckRestricted, Unless, Raise
  <2> QED
      BY <1>1, <1>2, <2>1, SeenThrown
<1>4. CASE screen # "restricted"
    BY <1>1, <1>2, <1>4 DEF SeenInv
<1> QED
    BY <1>3, <1>4

LEMMA SeenPrepared == BuildInv /\ SeenInv /\ PrepareApp => SeenInv'
<1> SUFFICES ASSUME BuildInv, SeenInv, PrepareApp PROVE SeenInv'
    OBVIOUS
\* A run that has looked at a restriction has a build.
<1>1. CASE InstallFails
  <2>1. /\ UNCHANGED <<seen, touched>>
        /\ At("update") \/ (At("installed") /\ build = 0)
      BY <1>1 DEF InstallFails, Wanted
  <2>2. ~seen
      BY <2>1 DEF SeenInv, BuildInv, At, Active
  <2> QED
      BY <2>1, <2>2 DEF SeenInv
<1>2. CASE Installed
  <2>1. Active /\ pc = "installed" /\ UNCHANGED <<seen, touched>>
      BY <1>2 DEF Installed, At, Active, history
  <2>2. CASE ~seen
      BY <2>1, <2>2 DEF SeenInv
  <2>3. CASE seen
    <3>1. build > 0 /\ screen = "restricted" /\ stage \in {"reopen", "recover"}
        BY <2>1, <2>3 DEF SeenInv, BuildInv
    <3>2. pc' = "look" /\ UNCHANGED <<stage, screen>>
        BY <1>2, <3>1 DEF Installed, Go, Launch
    <3> QED
        BY <2>1, <3>1, <3>2 DEF SeenInv
  <2> QED
      BY <2>2, <2>3
<1>3. ASSUME NEW p, NEW next, p = "look" => next = "ok", CheckRestricted(p, next)
      PROVE  SeenInv'
    BY <1>3, SeenChecked
<1>4. ASSUME NEW p, NEW next, p \notin {"installed", "look"}, RaiseIfChallenge(p, next)
      PROVE  SeenInv'
    BY <1>4, Unseen, LeaveUnseen DEF RaiseIfChallenge, At, Active, history
<1>5. CASE StrayAlert
  <2>1. ~seen /\ ~touched /\ UNCHANGED seen
      BY <1>5, Unseen DEF StrayAlert, At, Active
  <2> QED
      BY <1>5, <2>1, LeaveUnseen DEF StrayAlert
<1>6. CASE UpdateInstagram
    BY <1>6, Unseen, LeaveUnseen DEF UpdateInstagram, At, Active
<1>7. CASE Welcome \/ NoForm \/ StillOnForm \/ EnsureForeground
    BY <1>7, Unseen, LeaveUnseen
       DEF Welcome, NoForm, StillOnForm, EnsureForeground, At, Active, history
<1>8. CASE SubmitLogin
    BY <1>8, Unseen, LeaveUnseen DEF SubmitLogin, At, Active
<1>9. ASSUME NEW p, NEW round, NEW next, p \notin {"installed", "look"},
             Dismiss(p, round, next)
      PROVE  SeenInv'
  <2>1. ~seen /\ ~touched /\ UNCHANGED seen
      BY <1>9, Unseen DEF Dismiss, At, Active
  <2> QED
      BY <1>9, <2>1, LeaveUnseen DEF Dismiss
<1>10. CASE CloseSheets
  <2>1. ~seen /\ ~touched /\ UNCHANGED seen
      BY <1>10, Unseen DEF CloseSheets, At, Active
  <2> QED
      BY <1>10, <2>1, LeaveUnseen DEF CloseSheets
<1> QED
    BY <1>1, <1>2, <1>3, <1>4, <1>5, <1>6, <1>7, <1>8, <1>9, <1>10 DEF PrepareApp

LEMMA SeenStep == BuildInv /\ SeenInv /\ [Next]_vars => SeenInv'
<1> SUFFICES ASSUME BuildInv, SeenInv, [Next]_vars PROVE SeenInv'
    OBVIOUS
\* The phone brings nothing up over a restriction.
<1>1. CASE Appear \/ Turn \/ GoAway
  <2>1. Active /\ screen # "restricted" /\ UNCHANGED <<seen, touched>>
      BY <1>1 DEF Appear, Turn, GoAway, Mood, Active
  <2> QED
      BY <2>1 DEF SeenInv
<1>2. CASE Failing
    BY <1>2, SeenThrown DEF Failing, Raise, SeenInv, Active
<1>3. CASE Person
    BY <1>3 DEF Person, SeenInv
<1>4. CASE StartRun
    BY <1>4 DEF StartRun, SeenInv
<1>5. CASE Navigate
  <2>1. ~seen /\ ~touched /\ UNCHANGED seen
      BY <1>5, Unseen DEF Navigate, At, Active
  <2> QED
      BY <1>5, <2>1, LeaveUnseen DEF Navigate
<1>6. CASE ReachHome
  <2>1. ~seen /\ ~touched /\ UNCHANGED seen
      BY <1>6, Unseen DEF ReachHome, At, Active
  <2> QED
      BY <1>6, <2>1, LeaveUnseen DEF ReachHome
<1>7. CASE VisitStory
  <2>1. ~seen /\ ~touched /\ UNCHANGED seen
      BY <1>7, Unseen DEF VisitStory, Active
  <2> QED
      BY <1>7, <2>1, LeaveUnseen DEF VisitStory
<1>8. CASE CheckRestricted("dump", "card")
    BY <1>8, SeenChecked
<1>9. CASE WalkFeed
  <2>1. ~seen /\ ~touched /\ UNCHANGED seen
      BY <1>9, Unseen DEF WalkFeed, Active
  <2> QED
      BY <1>9, <2>1, LeaveUnseen DEF WalkFeed
<1>10. CASE UNCHANGED vars
    BY <1>10 DEF vars, control, phone, history, SeenInv, Active
<1> QED
    BY <1>1, <1>2, <1>3, <1>4, <1>5, <1>6, <1>7, <1>8, <1>9, <1>10, SeenPrepared DEF Next

\* A run that looked at a restriction never completes, and never taps it away
\* (navigation.check_restricted, scrape.py _scrape_feed).
THEOREM SeenBlockStops == Spec => []SeenBlockStopsRun
<1>1. SeenInv => SeenBlockStopsRun
    BY DEF SeenInv, SeenBlockStopsRun
<1> QED
    BY <1>1, BuildInit, BuildStep, SeenInit, SeenStep, PTL DEF Spec

------------------------------------------------------------------------------
(* A refused password: the run that typed it ends, and where the refusal is   *)
(* swallowed the one after it has one try left.                               *)

Swallowing == stage \in {"refresh", "stories", "back"}
FormBehind == screen = "form" \/ (screen = "alert" /\ under = "form")

\* Between a password and what becomes of it.
Refused ==
    \/ pc = "submitted" /\ (FormBehind \/ screen = "challenge")
    \/ pc \in {"login round", "login tap"} /\ FormBehind
    \/ pc = "still" /\ screen = "form"

\* On the way back to the form after a swallowed refusal.
Again ==
    /\ stage \in {"reopen", "recover"}
    /\ \/ pc \in {"installed", "look", "ok"} /\ (FormBehind \/ screen = "challenge")
       \/ pc = "challenge" /\ screen \in {"form", "challenge"}
       \/ pc \in {"update", "welcome", "form"} /\ screen = "form"

\* The passwords that may still be typed before the screen changes by itself.
Left == 2 * (1 + upset) - typed

Spared ==
    \/ Left >= 2
    \/ Left >= 1 /\ (Again \/ Refused)
    \/ Refused /\ ~Swallowing

TypedInv ==
    /\ typed \in Nat /\ upset \in Nat /\ Left >= 0
    /\ stage = "idle" => Left >= 2
    /\ Active => Spared

LEMMA TypedInit == Init => TypedInv
BY DEF Init, TypedInv, Left, Active

\* While there is enough left, what types nothing keeps the count; a change of the
\* screen adds two.
LEMMA Ample ==
    ASSUME TypedInv, Left >= 2, UNCHANGED <<typed, upset>>
    PROVE  TypedInv'
BY DEF TypedInv, Left, Spared

LEMMA Upset ==
    ASSUME TypedInv, UNCHANGED typed, upset' = upset + 1
    PROVE  TypedInv'
<1>1. Left' >= 2
    BY DEF TypedInv, Left
<1> QED
    BY <1>1 DEF TypedInv, Left, Spared

\* An exception a person has to clear, between a password and what becomes of it.
LEMMA TypedThrown ==
    ASSUME TypedInv, Active, NEW e \in Human, Throw(e), UNCHANGED <<typed, upset>>,
           Refused \/ Again, FormBehind \/ screen = "challenge"
    PROVE  TypedInv'
<1>1. CASE Left >= 2
    BY <1>1, Ample
<1>2. CASE Swallowing /\ ~(Left >= 2)
  <2>1. Left >= 1
      BY <1>2 DEF TypedInv, Spared, Again, Swallowing
  <2>2. stage' \in {"reopen", "recover"} /\ pc' = "installed" /\ UNCHANGED <<screen, under>>
      BY <1>2 DEF Throw, Call, Swallowing
  <2>3. Again'
      BY <2>2 DEF Again, FormBehind
  <2> QED
      BY <2>1, <2>2, <2>3 DEF TypedInv, Spared, Left
<1>3. CASE ~Swallowing
  <2>1. stage' = "held"
      BY <1>3 DEF Throw, EndRun, Swallowing
  <2> QED
      BY <2>1 DEF TypedInv, Left, Active
<1> QED
    BY <1>1, <1>2, <1>3

\* A step that goes on from a password, or back to the form.
LEMMA GoesOn ==
    ASSUME TypedInv, Active, UNCHANGED <<typed, upset, stage>>,
           Again => Again', Refused => Refused'
    PROVE  TypedInv'
<1>1. CASE Left >= 2
    BY <1>1, Ample
<1>2. CASE ~(Left >= 2)
  <2>1. Spared
      BY DEF TypedInv
  <2>2. Spared'
      BY <1>2, <2>1 DEF Spared, Swallowing, Left
  <2> QED
      BY <2>2 DEF TypedInv, Left, Active
<1> QED
    BY <1>1, <1>2

\* Elsewhere there is nothing to wait for.
LEMMA Elsewhere ==
    ASSUME TypedInv, Active, UNCHANGED <<typed, upset>>, ~Again, ~Refused
    PROVE  TypedInv'
<1>1. Left >= 2
    BY DEF TypedInv, Spared
<1> QED
    BY <1>1, Ample

\* A failed install: there is enough left wherever there is one.
LEMMA TypedInstallFails == BuildInv /\ TypedInv /\ InstallFails => TypedInv'
<1> SUFFICES ASSUME BuildInv, TypedInv, InstallFails PROVE TypedInv'
    OBVIOUS
<1>1. /\ (At("installed") /\ build = 0) \/ (At("update") /\ screen = "update")
      /\ UNCHANGED typed
      /\ UNCHANGED upset \/ upset' = upset + 1
    BY DEF InstallFails, Wanted
<1>2. Active /\ pc \in {"installed", "update"}
    BY <1>1 DEF At, Active
<1>3. pc = "installed" => stage = "open"
    BY <1>1, <1>2 DEF At, BuildInv
<1>4. ~Again /\ ~Refused
    BY <1>1, <1>2, <1>3 DEF At, Again, Refused
<1> QED
    BY <1>1, <1>2, <1>4, Elsewhere, Upset

\* The checks for a restriction let the form and what lies over it through.
LEMMA TypedChecked ==
    ASSUME TypedInv, NEW p, NEW next, CheckRestricted(p, next),
           \/ p = "look" /\ next = "ok"
           \/ p = "login round" /\ next = "login tap"
           \/ p \in {"round", "dump"}
    PROVE  TypedInv'
<1>1. Active /\ pc = p /\ UNCHANGED <<typed, upset>>
    BY DEF CheckRestricted, At, Active
<1>2. CASE ~Again /\ ~Refused
    BY <1>1, <1>2, Elsewhere
<1>3. CASE Again \/ Refused
  <2>1. /\ (p = "look" /\ next = "ok") \/ (p = "login round" /\ next = "login tap")
        /\ FormBehind \/ (screen = "challenge" /\ p = "look")
    <3>1. p = "look" \/ p = "login round"
        BY <1>1, <1>3 DEF Again, Refused
    <3> QED
        BY <1>1, <1>3, <3>1 DEF Again, Refused
  <2>2. screen # "restricted"
      BY <2>1 DEF FormBehind
  <2>3. pc' = next /\ UNCHANGED <<stage, screen, under>>
      BY <2>2 DEF CheckRestricted, Unless, Go
  <2>4. (Again => Again') /\ (Refused => Refused')
      BY <1>1, <2>1, <2>3 DEF Again, Refused, FormBehind
  <2> QED
      BY <1>1, <2>3, <2>4, GoesOn
<1> QED
    BY <1>2, <1>3

\* The password typed: accepted, or one less to type.
LEMMA TypedSubmitted == TypedInv /\ SubmitLogin => TypedInv'
<1> SUFFICES ASSUME TypedInv, SubmitLogin PROVE TypedInv'
    OBVIOUS
<1>1. Active /\ pc = "form" /\ pc' = "submitted" /\ UNCHANGED stage
    BY DEF SubmitLogin, At, Active, Go
<1>2. ~Refused
    BY <1>1 DEF Refused
<1>3. CASE typed' = 0 /\ upset' = 0
    BY <1>3 DEF TypedInv, Left, Spared
<1>4. CASE typed' = typed + 1 /\ UNCHANGED upset
  <2>1. Left >= 1 /\ (Left >= 2 \/ Again)
      BY <1>1, <1>2 DEF TypedInv, Spared, Left
  <2>2. Left' = Left - 1
      BY <1>4 DEF TypedInv, Left
  <2>3. Refused'
      BY <1>1, <1>4 DEF SubmitLogin, Refused, FormBehind, Show, TypedInv
  <2>4. Left' >= 1 \/ ~Swallowing'
      BY <1>1, <2>1, <2>2 DEF Again, Swallowing, TypedInv, Left
  <2>5. Left' >= 0 /\ typed' \in Nat /\ upset' \in Nat
      BY <1>4, <2>1, <2>2 DEF TypedInv, Left
  <2>6. stage' # "idle" /\ Active'
      BY <1>1 DEF Active
  <2> QED
      BY <2>3, <2>4, <2>5, <2>6 DEF TypedInv, Spared
<1> QED
    BY <1>3, <1>4 DEF SubmitLogin

LEMMA TypedPrepared == BuildInv /\ TypedInv /\ PrepareApp => TypedInv'
<1> SUFFICES ASSUME BuildInv, TypedInv, PrepareApp PROVE TypedInv'
    OBVIOUS
<1>1. CASE Installed
  <2>1. Active /\ pc = "installed" /\ UNCHANGED <<typed, upset>>
      BY <1>1 DEF Installed, At, Active, history
  <2>2. ~Refused
      BY <2>1 DEF Refused
  <2>3. CASE ~Again
      BY <2>1, <2>2, <2>3, Elsewhere
  <2>4. CASE Again
    <3>1. build > 0 /\ screen # "launcher"
        BY <2>1, <2>4 DEF Again, FormBehind, BuildInv
    <3>2. pc' = "look" /\ UNCHANGED <<stage, screen, under>>
        BY <1>1, <3>1 DEF Installed, Go, Launch
    <3>3. Again'
        BY <2>1, <2>4, <3>2 DEF Again, FormBehind
    <3> QED
        BY <2>1, <2>2, <3>2, <3>3, GoesOn
  <2> QED
      BY <2>3, <2>4
<1>2. CASE StrayAlert
  <2>1. Active /\ pc = "ok" /\ pc' = "challenge" /\ UNCHANGED <<stage, typed, upset>>
      BY <1>2 DEF StrayAlert, At, Active, Go
  <2>2. ~Refused
      BY <2>1 DEF Refused
  <2>3. Again => Again'
      BY <1>2, <2>1 DEF StrayAlert, Leave, Again, FormBehind, Dialogs
  <2> QED
      BY <2>1, <2>2, <2>3, GoesOn
<1>3. CASE RaiseIfChallenge("challenge", "update")
  <2>1. Active /\ pc = "challenge" /\ UNCHANGED <<typed, upset>>
      BY <1>3 DEF RaiseIfChallenge, At, Active, history
  <2>2. ~Refused
      BY <2>1 DEF Refused
  <2>3. CASE screen = "challenge"
    <3>1. Throw("challenge")
        BY <1>3, <2>3 DEF RaiseIfChallenge, Unless, Raise
    <3>2. "challenge" \in Human
        BY DEF Human
    <3>3. CASE Again
        BY <2>1, <2>3, <3>1, <3>2, <3>3, TypedThrown
    <3> QED
        BY <2>1, <2>2, <3>3, Elsewhere
  <2>4. CASE screen # "challenge"
    <3>1. pc' = "update" /\ UNCHANGED <<stage, screen, under>>
        BY <1>3, <2>4 DEF RaiseIfChallenge, Unless, Go
    <3>2. Again => Again'
        BY <2>1, <2>4, <3>1 DEF Again
    <3> QED
        BY <2>1, <2>2, <3>1, <3>2, GoesOn
  <2> QED
      BY <2>3, <2>4
<1>4. CASE UpdateInstagram
  <2>1. Active /\ pc = "update" /\ UNCHANGED <<typed, upset>>
      BY <1>4 DEF UpdateInstagram, At, Active
  <2>2. ~Refused
      BY <2>1 DEF Refused
  <2>3. CASE ~Again
      BY <2>1, <2>2, <2>3, Elsewhere
  <2>4. CASE Again
    <3>1. screen = "form"
        BY <2>1, <2>4 DEF Again
    <3>2. pc' = "welcome" /\ UNCHANGED <<stage, screen>>
        BY <1>4, <3>1 DEF UpdateInstagram, Go
    <3> QED
        BY <2>1, <2>2, <2>4, <3>1, <3>2, GoesOn DEF Again
  <2> QED
      BY <2>3, <2>4
<1>5. CASE Welcome
  <2>1. /\ Active /\ pc = "welcome" /\ pc' = "form"
        /\ UNCHANGED <<stage, typed, upset>>
      BY <1>5 DEF Welcome, At, Active, Go, history
  <2>2. ~Refused
      BY <2>1 DEF Refused
  <2>3. Again => Again'
      BY <1>5, <2>1 DEF Welcome, Again
  <2> QED
      BY <2>1, <2>2, <2>3, GoesOn
<1>6. CASE NoForm
  <2>1. Active /\ pc = "form" /\ screen # "form" /\ UNCHANGED <<typed, upset>>
      BY <1>6 DEF NoForm, At, Active, history
  <2> QED
      BY <2>1, Elsewhere DEF Again, Refused
<1>7. CASE RaiseIfChallenge("submitted", "login round")
  <2>1. Active /\ pc = "submitted" /\ UNCHANGED <<typed, upset>>
      BY <1>7 DEF RaiseIfChallenge, At, Active, history
  <2>2. ~Again
      BY <2>1 DEF Again
  <2>3. CASE screen = "challenge"
    <3>1. Throw("challenge")
        BY <1>7, <2>3 DEF RaiseIfChallenge, Unless, Raise
    <3>2. "challenge" \in Human /\ Refused
        BY <2>1, <2>3 DEF Human, Refused
    <3> QED
        BY <2>1, <2>3, <3>1, <3>2, TypedThrown
  <2>4. CASE screen # "challenge"
    <3>1. pc' = "login round" /\ UNCHANGED <<stage, screen, under>>
        BY <1>7, <2>4 DEF RaiseIfChallenge, Unless, Go
    <3>2. Refused => Refused'
        BY <2>1, <2>4, <3>1 DEF Refused, FormBehind
    <3> QED
        BY <2>1, <2>2, <3>1, <3>2, GoesOn
  <2> QED
      BY <2>3, <2>4
<1>8. CASE Dismiss("login tap", "login round", "still")
  <2>1. Active /\ pc = "login tap" /\ UNCHANGED <<stage, typed, upset>>
      BY <1>8 DEF Dismiss, At, Active
  <2>2. ~Again
      BY <2>1 DEF Again
  <2>3. CASE screen = "alert"
    <3>1. pc' \in {"login round", "still"} /\ Leave(screen)
        BY <1>8, <2>3 DEF Dismiss
    <3>2. Refused => screen' = "form"
        BY <2>1, <2>3, <3>1 DEF Refused, FormBehind, Leave, Dialogs
    <3>3. Refused => Refused'
        BY <3>1, <3>2 DEF Refused, FormBehind
    <3> QED
        BY <2>1, <2>2, <3>3, GoesOn
  <2>4. CASE screen # "alert"
    <3>1. Refused => screen = "form"
        BY <2>1, <2>4 DEF Refused, FormBehind
    <3>2. Refused => pc' = "still" /\ screen' = "form"
        BY <1>8, <3>1 DEF Dismiss
    <3>3. Refused => Refused'
        BY <3>2 DEF Refused
    <3> QED
        BY <2>1, <2>2, <3>3, GoesOn
  <2> QED
      BY <2>3, <2>4
<1>9. CASE StillOnForm
  <2>1. Active /\ pc = "still" /\ UNCHANGED <<typed, upset>>
      BY <1>9 DEF StillOnForm, At, Active, history
  <2>2. ~Again
      BY <2>1 DEF Again
  <2>3. CASE screen = "form"
    <3>1. Throw("rejected") /\ "rejected" \in Human /\ Refused /\ FormBehind
        BY <1>9, <2>1, <2>3 DEF StillOnForm, Unless, Raise, Human, Refused, FormBehind
    <3> QED
        BY <2>1, <3>1, TypedThrown
  <2>4. CASE screen # "form"
    <3>1. ~Refused
        BY <2>1, <2>4 DEF Refused
    <3> QED
        BY <2>1, <2>2, <3>1, Elsewhere
  <2> QED
      BY <2>3, <2>4
<1>10. CASE EnsureForeground
  <2>1. Active /\ pc = "front" /\ UNCHANGED <<typed, upset>>
      BY <1>10 DEF EnsureForeground, At, Active, history
  <2> QED
      BY <2>1, Elsewhere DEF Again, Refused
<1>11. CASE Dismiss("tap", "round", "sheets")
  <2>1. Active /\ pc = "tap" /\ UNCHANGED <<typed, upset>>
      BY <1>11 DEF Dismiss, At, Active
  <2> QED
      BY <2>1, Elsewhere DEF Again, Refused
<1>12. CASE CloseSheets
  <2>1. Active /\ pc \in {"sheets", "back"} /\ UNCHANGED <<typed, upset>>
      BY <1>12 DEF CloseSheets, At, Active
  <2> QED
      BY <2>1, Elsewhere DEF Again, Refused
<1> QED
    BY <1>1, <1>2, <1>3, <1>4, <1>5, <1>6, <1>7, <1>8, <1>9, <1>10, <1>11, <1>12,
       TypedInstallFails, TypedChecked, TypedSubmitted DEF PrepareApp

LEMMA TypedStep == BuildInv /\ TypedInv /\ [Next]_vars => TypedInv'
<1> SUFFICES ASSUME BuildInv, TypedInv, [Next]_vars PROVE TypedInv'
    OBVIOUS
<1>1. CASE Appear \/ Turn \/ GoAway
    BY <1>1, Upset DEF Appear, Turn, GoAway, Mood
<1>2. CASE Failing
    BY <1>2, Upset DEF Failing
<1>3. CASE Person
    BY <1>3 DEF Person, TypedInv, Left, Spared
<1>4. CASE StartRun
    BY <1>4, Ample DEF StartRun, TypedInv
<1>5. CASE Navigate
  <2>1. Active /\ pc = "act" /\ UNCHANGED <<typed, upset>>
      BY <1>5 DEF Navigate, At, Active
  <2> QED
      BY <2>1, Elsewhere DEF Again, Refused
<1>6. CASE ReachHome
  <2>1. Active /\ pc \in {"act", "tray"} /\ UNCHANGED <<typed, upset>>
      BY <1>6 DEF ReachHome, At, Active
  <2> QED
      BY <2>1, Elsewhere DEF Again, Refused
<1>7. CASE VisitStory
  <2>1. Active /\ pc \in {"act", "tray", "story"} /\ UNCHANGED <<typed, upset>>
      BY <1>7 DEF VisitStory, Active
  <2> QED
      BY <2>1, Elsewhere DEF Again, Refused
<1>8. CASE CheckRestricted("dump", "card")
    BY <1>8, TypedChecked
<1>9. CASE WalkFeed
  <2>1. Active /\ pc \in {"card", "shared"} /\ UNCHANGED <<typed, upset>>
      BY <1>9 DEF WalkFeed, Active
  <2> QED
      BY <2>1, Elsewhere DEF Again, Refused
<1>10. CASE UNCHANGED vars
  <2>1. UNCHANGED <<screen, under, stage, pc, typed, upset>>
      BY <1>10 DEF vars, control, phone, history
  <2> QED
      BY <2>1 DEF TypedInv, Spared, Left, Again, Refused, FormBehind, Swallowing, Active
<1> QED
    BY <1>1, <1>2, <1>3, <1>4, <1>5, <1>6, <1>7, <1>8, <1>9, <1>10, TypedPrepared DEF Next

\* A password Instagram refuses is typed again by itself only after the screen or the
\* device changed, and once more after a swallowed refusal (ensure_logged_in,
\* alerts.needs_human).
THEOREM PasswordsBounded == Spec => []NoPasswordHammering
<1>1. TypedInv => NoPasswordHammering
    BY DEF TypedInv, Left, NoPasswordHammering
<1> QED
    BY <1>1, BuildInit, BuildStep, TypedInit, TypedStep, PTL DEF Spec
=============================================================================
