------------------------------ MODULE PollLoop ------------------------------
(***************************************************************************)
(* The scraper's poll loop and everything that may start, hold back or end *)
(* a run: _poll_loop and run_recorded (app/instadroid/scrape.py), the      *)
(* control files (app/shared/control.py), `scraper.py once` as a second    *)
(* process on the same database and device, the person at the controls,    *)
(* and the container dying and restarting at any point.                    *)
(*                                                                         *)
(* Time is a discrete clock.  A variable of a process that is out of scope *)
(* goes back to its initial value, so that it does not tell states apart.  *)
(* The scrape itself is one interval between                               *)
(* Launch and FinishRun whose outcome is any of the four classes of error  *)
(* the loop tells apart.                                                   *)
(***************************************************************************)
EXTENDS Integers, Sequences, FiniteSets

CONSTANTS
    Day,              \* the budget window: 24h
    MaxRuns,          \* MAX_RUNS_PER_DAY, 0 = no budget
    PollMin, PollMax, \* POLL_MIN_HOURS, POLL_MAX_HOURS
    RetryDelays,      \* RETRY_DELAYS_MINUTES, a sequence
    BackoffMax,       \* FAILURE_BACKOFF_MAX_HOURS, 0 = no backoff
    RunNowMin,        \* RUN_NOW_MIN_MINUTES
    LockMax,          \* LOCK_MAX_HOURS, 0 = a lock never expires
    ScrapeOnStartup,  \* SCRAPE_ON_STARTUP
    FailureScan,      \* consecutive_failures() reads this many rows (LIMIT 64)
    Outcomes,         \* what a run may end with, of ErrorKind
    MaxRunLen,        \* bound: the longest a run lasts (RUN_MAX_MINUTES)
    MaxCrashes,       \* bound: processes that die
    MaxOnce,          \* bound: uses of `scraper.py once`, 0 = it is not used
    Horizon,          \* bound: where the clock stops
    Slack             \* bound: the longest the loop may take to come round

\* What a run ends with, as the loop tells errors apart: none, a device
\* failure is_transient() accepts, one needs_human() matches, any other.
ErrorKind == {"none", "transient", "human", "other"}

ASSUME DurationsAssumption ==
    /\ Day \in Nat /\ MaxRuns \in Nat /\ RunNowMin \in Nat
    /\ PollMin \in Nat /\ PollMax \in Nat /\ PollMin <= PollMax
    /\ RetryDelays \in Seq(Nat)
    /\ BackoffMax \in Nat /\ LockMax \in Nat /\ FailureScan \in Nat
    /\ MaxRunLen \in Nat /\ Horizon \in Nat
    /\ MaxCrashes \in Nat /\ MaxOnce \in Nat /\ Slack \in Nat
ASSUME FlagsAssumption ==
    /\ ScrapeOnStartup \in BOOLEAN /\ Outcomes \subseteq ErrorKind

VARIABLES
    now,        \* the clock
    runs,       \* the runs table, in id order
    lockAt,     \* manual.lock's mtime, or NoLock
    hold,       \* needs-human.hold exists
    request,    \* scrape-now exists
    loop,       \* where the poll loop is
    wakeAt,     \* when control.wait's current sleep ends
    attempt,    \* _poll_loop's retry count
    failures,   \* _poll_loop's failed runs in a row
    loopBegan,  \* started_at of the loop's latest run
    loopErr,    \* the error class of the loop's latest run
    once,       \* where `scraper.py once` is
    onceBegan, onceErr,
    onces,      \* uses of `once` so far
    crashes,    \* processes that have died
    asked,      \* bound: a scrape-now was asked for since the last tick
    \* History, read by no action's guard:
    armed,      \* a run needed a person and nobody has unlocked since
    missed,     \* ... and its process died before writing the hold
    onceRan,    \* `once` recorded a run since the loop's process started
    underLock   \* launches by the loop since Locked last became true

table   == <<runs, armed>>
control == <<lockAt, hold, request>>
memory  == <<wakeAt, attempt, failures, loopBegan, loopErr>>
manual  == <<once, onceBegan, onceErr, onces>>
deaths  == <<crashes, missed>>
vars    == <<now, table, control, loop, memory, manual, deaths, onceRan, asked, underLock>>

NoLock == -1

Row == [start : Nat, finish : Nat, error : ErrorKind, by : {"loop", "once"}]

LoopPhase == {"down", "wait", "lock", "budget", "launch", "run", "recorded"}
OncePhase == {"idle", "run", "recorded"}

------------------------------------------------------------------------------
(* Reading the control files and the runs table.                           *)

Max2(a, b) == IF a >= b THEN a ELSE b
Min2(a, b) == IF a <= b THEN a ELSE b

Locked == hold \/ (lockAt # NoLock /\ (LockMax = 0 \/ now - lockAt < LockMax))

LastRun == runs[Len(runs)]

\* run_now_due(minutes_since_last_run()): rows are inserted as runs finish.
RunNowDue == runs # <<>> => LastRun.finish + RunNowMin <= now

\* The rows of the 24h window, by position: only started_at is looked at.
Window == {i \in DOMAIN runs : runs[i].start + Day >= now}
\* Mutant: one run too many.
BudgetFullOffByOne == MaxRuns > 0 /\ Cardinality(Window) > MaxRuns
BudgetFull == MaxRuns > 0 /\ Cardinality(Window) >= MaxRuns

\* next_allowed(): starts[-limit] of the window's rows in id order.
NthFromEnd(i) == Cardinality({j \in Window : j >= i}) = MaxRuns

\* consecutive_failures(): the newest rows, up to the newest success.
Streak == LET failing == {i \in DOMAIN runs :
                            /\ Len(runs) - i < FailureScan
                            /\ \A j \in i .. Len(runs) : runs[j].error # "none"}
          IN Cardinality(failing)

------------------------------------------------------------------------------
(* How long to sleep.  Each is the set of values the sampling may give.    *)

\* 1 << min(failures - 1, 16)
BackoffFactor == <<2, 4, 8, 16, 32, 64, 128, 256, 512, 1024, 2048, 4096, 8192,
                   16384, 32768, 65536>>

PollIntervals(f) ==
    IF f > 1 /\ BackoffMax > 0
    THEN {Min2(s * BackoffFactor[Min2(f - 1, 16)], Max2(BackoffMax, s)) :
            s \in PollMin .. PollMax}
    ELSE PollMin .. PollMax

Retryable(e, a) == e = "transient" /\ a < Len(RetryDelays)

\* next_sleep_seconds(): the retry delay jittered up to +50%, or an interval.
NextSleeps(e, a, f) ==
    IF Retryable(e, a)
    THEN RetryDelays[a + 1] .. (RetryDelays[a + 1] + RetryDelays[a + 1] \div 2)
    ELSE PollIntervals(f)
\* Mutants: a retry count kept after a success, and one stepped back.
NextAttemptKept(e, a) == IF Retryable(e, a) THEN a + 1 ELSE a
NextAttemptBack(e, a) == IF Retryable(e, a) THEN a + 1 ELSE a - 1
NextAttempt(e, a) == IF Retryable(e, a) THEN a + 1 ELSE 0

\* Mutant: every restart scrapes at once.
StartupWakesAtOnce == {now}

\* _startup_wait_seconds(), as the set of moments the first run may start.
StartupWakes ==
    IF ScrapeOnStartup \/ runs = <<>> THEN {now}
    ELSE IF LastRun.error = "transient" /\ RetryDelays # <<>>
         THEN {LastRun.finish + RetryDelays[1]}
         ELSE {LastRun.finish + s : s \in PollIntervals(Streak)}

------------------------------------------------------------------------------
Init ==
    /\ now = 0 /\ runs = <<>>
    /\ lockAt = NoLock /\ hold = FALSE /\ request = FALSE
    /\ loop = "down" /\ wakeAt = 0 /\ attempt = 0 /\ failures = 0
    /\ loopBegan = 0 /\ loopErr = "none"
    /\ once = "idle" /\ onceBegan = 0 /\ onceErr = "none" /\ onces = 0
    /\ crashes = 0 /\ armed = FALSE /\ missed = FALSE
    /\ onceRan = FALSE /\ asked = FALSE /\ underLock = 0

Observe(launched) ==
    underLock' = IF Locked' THEN underLock + launched ELSE 0

(* The poll loop.                                                          *)

\* Mutant: a restart forgets the failures.
BootForgetful ==
    /\ loop = "down"
    /\ \E w \in StartupWakes :
        /\ wakeAt' = IF w > now THEN w ELSE 0
        /\ loop' = IF w > now THEN "wait" ELSE "lock"
    /\ attempt' = 0 /\ failures' = 0 /\ onceRan' = FALSE
    /\ UNCHANGED <<now, table, control, loopBegan, loopErr, manual, deaths,
                   asked>>
    /\ Observe(0)

\* The container (re)starts: db_init, consecutive_failures, startup wait.
Boot ==
    /\ loop = "down"
    /\ \E w \in StartupWakes :
        /\ wakeAt' = IF w > now THEN w ELSE 0
        /\ loop' = IF w > now THEN "wait" ELSE "lock"
    /\ attempt' = 0 /\ failures' = Streak /\ onceRan' = FALSE
    /\ UNCHANGED <<now, table, control, loopBegan, loopErr, manual, deaths,
                   asked>>
    /\ Observe(0)

\* Mutants: scrape-now skips wait_while_locked; it is refused by a full budget.
TakeRunNowSkipsLock ==
    /\ loop = "wait" /\ now < wakeAt
    /\ request /\ RunNowDue
    /\ request' = FALSE /\ loop' = "budget" /\ wakeAt' = 0
    /\ UNCHANGED <<now, table, lockAt, hold, attempt, failures, loopBegan, loopErr,
                   manual, deaths, onceRan, asked>>
    /\ Observe(0)
TakeRunNowInBudget ==
    /\ loop = "wait" /\ now < wakeAt
    /\ request /\ RunNowDue /\ ~BudgetFull
    /\ request' = FALSE /\ loop' = "lock" /\ wakeAt' = 0
    /\ UNCHANGED <<now, table, lockAt, hold, attempt, failures, loopBegan, loopErr,
                   manual, deaths, onceRan, asked>>
    /\ Observe(0)

\* control.wait sees a scrape-now that is due: it is deleted, the wait ends.
TakeRunNow ==
    /\ loop = "wait" /\ now < wakeAt
    /\ request /\ RunNowDue
    /\ request' = FALSE /\ loop' = "lock" /\ wakeAt' = 0
    /\ UNCHANGED <<now, table, lockAt, hold, attempt, failures, loopBegan, loopErr,
                   manual, deaths, onceRan, asked>>
    /\ Observe(0)

\* Mutant: the budget wait falls through instead of `continue`.
WaitOverFallsThrough ==
    /\ loop = "wait" /\ now >= wakeAt
    /\ loop' = "budget" /\ wakeAt' = 0
    /\ UNCHANGED <<now, table, control, attempt, failures, loopBegan, loopErr,
                   manual, deaths, onceRan, asked>>
    /\ Observe(0)

WaitOver ==
    /\ loop = "wait" /\ now >= wakeAt
    /\ loop' = "lock" /\ wakeAt' = 0
    /\ UNCHANGED <<now, table, control, attempt, failures, loopBegan, loopErr,
                   manual, deaths, onceRan, asked>>
    /\ Observe(0)

\* Mutants: the hold file is not looked at; a lock's age is not looked at.
PassLockNoHold ==
    /\ loop = "lock" /\ (lockAt = NoLock \/ (LockMax > 0 /\ now - lockAt >= LockMax))
    /\ loop' = "budget"
    /\ UNCHANGED <<now, table, control, memory, manual, deaths, onceRan, asked>>
    /\ Observe(0)
PassLockAgeless ==
    /\ loop = "lock" /\ ~hold /\ lockAt = NoLock
    /\ loop' = "budget"
    /\ UNCHANGED <<now, table, control, memory, manual, deaths, onceRan, asked>>
    /\ Observe(0)

\* wait_while_locked returns only when nothing holds runs back.
PassLock ==
    /\ loop = "lock" /\ ~Locked
    /\ loop' = "budget"
    /\ UNCHANGED <<now, table, control, memory, manual, deaths, onceRan, asked>>
    /\ Observe(0)

\* The window is full: wait until enough rows age out, then look again.
BudgetWait ==
    /\ loop = "budget" /\ BudgetFull
    /\ \E i \in Window :
        /\ NthFromEnd(i)
        /\ wakeAt' = Max2(now, runs[i].start + Day) + 1
    /\ loop' = "wait"
    /\ UNCHANGED <<now, table, control, attempt, failures, loopBegan, loopErr,
                   manual, deaths, onceRan, asked>>
    /\ Observe(0)

PassBudget ==
    /\ loop = "budget" /\ ~BudgetFull
    /\ loop' = "launch"
    /\ UNCHANGED <<now, table, control, memory, manual, deaths, onceRan, asked>>
    /\ Observe(0)

\* run_recorded begins: started_at, connect, scrape_once.
Launch ==
    /\ loop = "launch"
    /\ loop' = "run" /\ loopBegan' = now
    /\ UNCHANGED <<now, table, control, wakeAt, attempt, failures, loopErr, manual,
                   deaths, onceRan, asked>>
    /\ Observe(1)

\* The run ends, however it ends, and only now gets its row.
FinishRun ==
    /\ loop = "run"
    /\ \E e \in Outcomes :
        /\ runs' = Append(runs, [start |-> loopBegan, finish |-> now,
                                 error |-> e, by |-> "loop"])
        /\ armed' = (armed \/ e = "human")
        /\ loopErr' = e
    /\ loop' = "recorded" /\ loopBegan' = 0
    /\ UNCHANGED <<now, control, wakeAt, attempt, failures, manual, deaths, onceRan, asked>>
    /\ Observe(0)

\* set_hold for an error that needs a person, then the next sleep.
SettleRun ==
    /\ loop = "recorded"
    /\ hold' = (hold \/ loopErr = "human")
    /\ failures' = IF loopErr = "none" THEN 0 ELSE failures + 1
    /\ \E s \in NextSleeps(loopErr, attempt, failures') : wakeAt' = now + s
    /\ attempt' = NextAttempt(loopErr, attempt)
    /\ loop' = "wait" /\ loopErr' = "none"
    /\ UNCHANGED <<now, table, lockAt, request, loopBegan, manual, deaths, onceRan, asked>>
    /\ Observe(0)

------------------------------------------------------------------------------
(* `scraper.py once`: the budget is asked, the lock and the hold are not.  *)

OnceStart ==
    /\ once = "idle" /\ onces < MaxOnce /\ ~BudgetFull
    /\ once' = "run" /\ onceBegan' = now /\ onces' = onces + 1
    /\ UNCHANGED <<now, table, control, loop, memory, onceErr, deaths, onceRan, asked>>
    /\ Observe(0)

OnceFinish ==
    /\ once = "run"
    /\ \E e \in Outcomes :
        /\ runs' = Append(runs, [start |-> onceBegan, finish |-> now,
                                 error |-> e, by |-> "once"])
        /\ armed' = (armed \/ e = "human")
        /\ onceErr' = e
    /\ once' = "recorded" /\ onceBegan' = 0 /\ onceRan' = TRUE
    /\ UNCHANGED <<now, control, loop, memory, onces, deaths, asked>>
    /\ Observe(0)

OnceSettle ==
    /\ once = "recorded"
    /\ hold' = (hold \/ onceErr = "human")
    /\ once' = "idle" /\ onceErr' = "none"
    /\ UNCHANGED <<now, table, lockAt, request, loop, memory, onceBegan, onces, deaths,
                   onceRan, asked>>
    /\ Observe(0)

------------------------------------------------------------------------------
(* A process dies: between any two steps, a run's row or a hold unwritten. *)

\* A process in this phase dies with its run's hold unwritten.
HoldUnwritten(phase, err) == armed /\ phase = "recorded" /\ err = "human"

\* The container dies, with a `once` started by `docker compose exec`; one that
\* has a container of its own (`docker compose run`) goes on.
Crash ==
    /\ loop # "down" /\ crashes < MaxCrashes
    /\ crashes' = crashes + 1
    /\ loop' = "down"
    /\ wakeAt' = 0 /\ attempt' = 0 /\ failures' = 0 /\ loopBegan' = 0
    /\ loopErr' = "none"
    /\ \/ /\ UNCHANGED <<once, onceBegan, onceErr>>
          /\ missed' = (missed \/ HoldUnwritten(loop, loopErr))
       \/ /\ once # "idle"
          /\ once' = "idle" /\ onceBegan' = 0 /\ onceErr' = "none"
          /\ missed' = (missed \/ HoldUnwritten(loop, loopErr) \/ HoldUnwritten(once, onceErr))
    /\ UNCHANGED <<now, table, control, onces, onceRan, asked>>
    /\ Observe(0)

OnceDies ==
    /\ once # "idle" /\ crashes < MaxCrashes
    /\ crashes' = crashes + 1
    /\ once' = "idle" /\ onceBegan' = 0 /\ onceErr' = "none"
    /\ missed' = (missed \/ HoldUnwritten(once, onceErr))
    /\ UNCHANGED <<now, table, control, loop, memory, onces, onceRan, asked>>
    /\ Observe(0)

------------------------------------------------------------------------------
(* The person: the command line, /control, or touch and rm.                *)

SetLock ==
    /\ lockAt' = now
    /\ UNCHANGED <<now, table, hold, request, loop, memory, manual, deaths, onceRan, asked>>
    /\ Observe(0)

\* Releasing the lock also says "I have dealt with it".
Unlock ==
    /\ lockAt' = NoLock /\ hold' = FALSE
    /\ armed' = FALSE /\ missed' = FALSE
    /\ UNCHANGED <<now, runs, request, loop, memory, manual, crashes, onceRan, asked>>
    /\ Observe(0)

RemoveLockFile ==
    /\ lockAt # NoLock /\ lockAt' = NoLock
    /\ UNCHANGED <<now, table, hold, request, loop, memory, manual, deaths, onceRan, asked>>
    /\ Observe(0)

RemoveHoldFile ==
    /\ hold /\ hold' = FALSE
    /\ armed' = FALSE /\ missed' = FALSE
    /\ UNCHANGED <<now, runs, lockAt, request, loop, memory, manual, crashes,
                   onceRan, asked>>
    /\ Observe(0)

\* `scraper.py scrape-now` asks whatever the state, at most once a tick.
RequestNow ==
    /\ ~asked /\ asked' = TRUE
    /\ request' = TRUE
    /\ UNCHANGED <<now, table, lockAt, hold, loop, memory, manual, deaths, onceRan>>
    /\ Observe(0)

\* POST /control/scrape-now: 409 while locked, 429 when it is too soon.
RequestNowApi == ~Locked /\ RunNowDue /\ RequestNow

------------------------------------------------------------------------------
\* The clock does not pass while a process has a step due: the loop polls the
\* control files every 30 seconds, and a run is cut off by RUN_MAX_MINUTES.
Urgent ==
    \/ loop \in {"budget", "launch", "recorded"} \/ once = "recorded"
    \/ loop = "lock" /\ ~Locked
    \/ loop = "wait" /\ (now >= wakeAt \/ (request /\ RunNowDue))
    \/ loop = "run" /\ now - loopBegan >= MaxRunLen
    \/ once = "run" /\ now - onceBegan >= MaxRunLen

Tick ==
    /\ now < Horizon /\ ~Urgent
    /\ now' = now + 1 /\ asked' = FALSE
    /\ UNCHANGED <<table, control, loop, memory, manual, deaths, onceRan>>
    /\ Observe(0)

Loop == Boot \/ TakeRunNow \/ WaitOver \/ PassLock \/ BudgetWait \/ PassBudget
            \/ Launch \/ FinishRun \/ SettleRun
Once == OnceStart \/ OnceFinish \/ OnceSettle
Person == SetLock \/ Unlock \/ RemoveLockFile \/ RemoveHoldFile
            \/ RequestNow \/ RequestNowApi

Next == Loop \/ Once \/ Crash \/ OnceDies \/ Person \/ Tick

Spec == Init /\ [][Next]_vars

\* The scheduler runs the loop and restarts its container, a run ends, the
\* clock advances.  Nothing is owed by `once` starting, crashes or people.
Fairness ==
    /\ WF_vars(Loop) /\ WF_vars(OnceFinish \/ OnceSettle) /\ WF_vars(Tick)
FairSpec == Spec /\ Fairness

------------------------------------------------------------------------------
(* Properties.                                                             *)

TypeOK ==
    /\ now \in Nat /\ runs \in Seq(Row)
    /\ lockAt \in Nat \cup {NoLock} /\ hold \in BOOLEAN /\ request \in BOOLEAN
    /\ loop \in LoopPhase /\ wakeAt \in Nat /\ attempt \in Nat /\ failures \in Nat
    /\ loopBegan \in Nat /\ loopErr \in ErrorKind
    /\ once \in OncePhase /\ onceBegan \in Nat /\ onceErr \in ErrorKind
    /\ onces \in Nat
    /\ crashes \in Nat /\ armed \in BOOLEAN /\ missed \in BOOLEAN
    /\ onceRan \in BOOLEAN /\ asked \in BOOLEAN /\ underLock \in Nat

InFlight == (IF loop \in {"launch", "run"} THEN 1 ELSE 0)
            + (IF once = "run" THEN 1 ELSE 0)

\* The rows started in any 24h window, with the loop's run about to be a row, never
\* exceed MAX_RUNS_PER_DAY, whatever woke the loop: the schedule, a retry,
\* scrape-now or a restart (scrape.py, budget_wait_seconds).  Without `once`.
RecordedWithinBudget ==
    MaxOnce = 0 /\ MaxRuns > 0 => Cardinality(Window) + InFlight <= MaxRuns

\* The same of the rows alone and with `once`: docs/OPERATIONS.md, MAX_RUNS_PER_DAY
\* "caps the runs started in any 24h window, whatever starts them: the schedule,
\* retries, `scrape-now`, `scraper.py once` or a restart".
CapHolds == MaxRuns > 0 => Cardinality(Window) <= MaxRuns

\* However the lock, the hold, restarts and scrape-now interleave, the loop
\* starts at most one run while runs are held back: the one that had already
\* passed wait_while_locked when the lock or the hold appeared.
LaunchesUnderLock == Locked => underLock <= 1

\* Once a run has ended needing a person, the loop starts nothing until a person
\* unlocks: not on the schedule, not for scrape-now, not when a lock expires, not
\* after a restart (run_recorded's set_hold; control.locked), provided no process
\* died between writing that run's row and writing the hold.
StopsUntilPersonActs ==
    MaxOnce = 0 /\ armed /\ ~missed => loop \notin {"budget", "launch", "run"}

\* The same without the proviso: ARCHITECTURE.md's "A failure that needs a person
\* stops the scraper until a person acts; no timer resumes it".
NothingResumesIt ==
    MaxOnce = 0 /\ armed => loop \notin {"budget", "launch", "run"}

\* The failure count the backoff uses, kept in memory and incremented after each
\* run, is the one consecutive_failures() would read from the table, restarts
\* included, as long as only the loop has recorded runs since it started.
FailuresMatchTable ==
    loop \notin {"down", "recorded"} /\ ~onceRan =>
        Min2(failures, FailureScan) = Streak

\* Early retries are for device failures only, one per RETRY_DELAYS entry: the
\* retry count is the number of newest runs that were each a transient failure
\* retried early, never more than the ladder is long (next_sleep_seconds).
RetryLadder ==
    loop \notin {"down", "recorded"} /\ ~onceRan =>
        /\ attempt <= Len(RetryDelays) /\ attempt <= Len(runs)
        /\ \A i \in DOMAIN runs :
              i > Len(runs) - attempt => runs[i].error = "transient"

Gaps == {RunNowMin, PollMin} \cup {RetryDelays[i] : i \in DOMAIN RetryDelays}
IsMinGap(g) == g \in Gaps /\ \A h \in Gaps : g <= h

\* Whatever wakes the loop (its sleep, a retry, the budget, scrape-now, a restart
\* after a crash), it starts no run sooner after one of its recorded runs than the
\* shortest of the configured delays (_startup_wait_seconds, run_now_due).
LaunchSpacing ==
    ~ScrapeOnStartup /\ loop \in {"lock", "budget", "launch"} =>
        \A i \in DOMAIN runs : \A g \in Gaps :
            runs[i].by = "loop" /\ IsMinGap(g) => runs[i].finish + g <= now

\* The loop is up, no more processes die, and the clock has far enough to go.
Settled == loop # "down" /\ crashes = MaxCrashes /\ now + Slack <= Horizon

\* A scrape-now request is taken or meets a lock: retries, budget waits and runs
\* in progress may delay it, nothing loses it (control.wait, take_run_now).
RequestTaken == request /\ Settled ~> ~request \/ Locked

\* Nothing but a lock or a hold stops the schedule: no backoff, budget wait or
\* crash leaves the loop waiting for good.
LaunchesUnlessHeld == Settled ~> loop = "run" \/ Locked

\* What the hold promises, as a latch (HoldLatch), with the loop's own runs: `once`
\* starts runs whatever the latch says, so this is for installations without it.
Latch == INSTANCE HoldLatch WITH
            latched <- hold, running <- loop \in {"run", "recorded"}
ImplementsLatch == Latch!Spec
=============================================================================
