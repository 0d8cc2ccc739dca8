--------------------------- MODULE PollLoopProofs ---------------------------
(***************************************************************************)
(* Theorems about PollLoop for every value of its constants.               *)
(***************************************************************************)
EXTENDS PollLoop, FiniteSetTheorems, SequenceTheorems, TLAPS

------------------------------------------------------------------------------
(* The operators the model is built from.                                  *)

\* The runs of any set of positions are finitely many, so the budget window and
\* the streak of failures have a size.
LEMMA PositionsFinite ==
    ASSUME runs \in Seq(Row), NEW S \in SUBSET DOMAIN runs
    PROVE  IsFiniteSet(S) /\ Cardinality(S) \in Nat
<1>1. DOMAIN runs = 1 .. Len(runs) /\ Len(runs) \in Nat
    BY LenProperties
<1>2. IsFiniteSet(DOMAIN runs)
    BY <1>1, FS_Interval
<1>3. QED
    BY <1>2, FS_Subset, FS_CardinalityType

\* consecutive_failures() is a number, whatever the table holds.
LEMMA StreakType == runs \in Seq(Row) => Streak \in Nat
BY PositionsFinite DEF Streak

\* A sampled poll interval is a length of time for every failure count.
LEMMA IntervalsType == \A f \in Nat : PollIntervals(f) \subseteq Nat
<1> SUFFICES ASSUME NEW f \in Nat, NEW w \in PollIntervals(f)
             PROVE  w \in Nat
    OBVIOUS
<1>1. CASE f > 1 /\ BackoffMax > 0
    <2>1. PICK s \in PollMin .. PollMax :
              w = Min2(s * BackoffFactor[Min2(f - 1, 16)], Max2(BackoffMax, s))
        BY <1>1 DEF PollIntervals
    <2>2. Min2(f - 1, 16) \in 1 .. 16
        BY <1>1 DEF Min2
    <2>3. BackoffFactor[Min2(f - 1, 16)] \in Nat
        BY <2>2 DEF BackoffFactor
    <2>4. s \in Nat /\ Max2(BackoffMax, s) \in Nat
        BY DurationsAssumption DEF Max2
    <2>5. s * BackoffFactor[Min2(f - 1, 16)] \in Nat
        BY <2>3, <2>4
    <2>6. QED
        BY <2>1, <2>4, <2>5 DEF Min2
<1>2. CASE ~(f > 1 /\ BackoffMax > 0)
    BY <1>2, DurationsAssumption DEF PollIntervals
<1>3. QED
    BY <1>1, <1>2

\* So is the sleep after a run, retry or not, and the moment a restart waits for.
LEMMA SleepsType ==
    \A e \in ErrorKind, a \in Nat, f \in Nat : NextSleeps(e, a, f) \subseteq Nat
<1> SUFFICES ASSUME NEW e \in ErrorKind, NEW a \in Nat, NEW f \in Nat
             PROVE  NextSleeps(e, a, f) \subseteq Nat
    OBVIOUS
<1>1. CASE Retryable(e, a)
    <2>1. a + 1 \in 1 .. Len(RetryDelays)
        BY <1>1, DurationsAssumption, LenProperties DEF Retryable
    <2>2. RetryDelays[a + 1] \in Nat
        BY <2>1, DurationsAssumption, ElementOfSeq
    <2>3. QED
        BY <1>1, <2>2 DEF NextSleeps
<1>2. CASE ~Retryable(e, a)
    BY <1>2, IntervalsType DEF NextSleeps
<1>3. QED
    BY <1>1, <1>2

LEMMA StartupWakesType == TypeOK => StartupWakes \subseteq Nat
<1> SUFFICES ASSUME TypeOK PROVE StartupWakes \subseteq Nat
    OBVIOUS
<1>1. CASE ScrapeOnStartup \/ runs = <<>>
    BY <1>1 DEF StartupWakes, TypeOK
<1>2. CASE ~(ScrapeOnStartup \/ runs = <<>>)
    <2>1. Len(runs) \in 1 .. Len(runs)
        BY <1>2, EmptySeq, LenProperties DEF TypeOK
    <2>2. LastRun \in Row
        BY <2>1, ElementOfSeq DEF LastRun, TypeOK
    <2>3. LastRun.finish \in Nat
        BY <2>2 DEF Row
    <2>4. RetryDelays # <<>> => RetryDelays[1] \in Nat
        BY DurationsAssumption, ElementOfSeq, EmptySeq, LenProperties
    <2>5. PollIntervals(Streak) \subseteq Nat
        BY StreakType, IntervalsType DEF TypeOK
    <2>6. QED
        BY <1>2, <2>3, <2>4, <2>5 DEF StartupWakes
<1>3. QED
    BY <1>1, <1>2

------------------------------------------------------------------------------
(* Type correctness.                                                       *)

\* TypeOK in three parts: a step that disturbs one leaves the others alone.
Flags ==
    /\ hold \in BOOLEAN /\ request \in BOOLEAN /\ armed \in BOOLEAN
    /\ missed \in BOOLEAN /\ onceRan \in BOOLEAN /\ asked \in BOOLEAN
Phases ==
    /\ loop \in LoopPhase /\ loopErr \in ErrorKind
    /\ once \in OncePhase /\ onceErr \in ErrorKind
Counts ==
    /\ now \in Nat /\ lockAt \in Nat \cup {NoLock} /\ wakeAt \in Nat
    /\ attempt \in Nat /\ failures \in Nat /\ loopBegan \in Nat
    /\ onceBegan \in Nat /\ onces \in Nat /\ crashes \in Nat /\ underLock \in Nat

LEMMA TypeParts == TypeOK <=> Flags /\ Phases /\ Counts /\ runs \in Seq(Row)
BY Zenon DEF TypeOK, Flags, Phases, Counts

LEMMA FlagsStep == ASSUME Flags, [Next]_vars PROVE Flags'
<1> USE DEF Flags, table, control, deaths
<1>1. CASE PassLock \/ BudgetWait \/ PassBudget
    BY <1>1 DEF PassLock, BudgetWait, PassBudget
<1>2. CASE WaitOver \/ Launch \/ OnceStart
    BY <1>2 DEF WaitOver, Launch, OnceStart
<1>3. CASE SetLock \/ RemoveLockFile
    BY <1>3 DEF SetLock, RemoveLockFile
<1>4. CASE Boot
    BY <1>4 DEF Boot
<1>5. CASE TakeRunNow
    BY <1>5 DEF TakeRunNow
<1>6. CASE FinishRun
    BY <1>6 DEF FinishRun
<1>7. CASE SettleRun
    BY <1>7 DEF SettleRun
<1>8. CASE OnceFinish
    BY <1>8 DEF OnceFinish
<1>9. CASE OnceSettle
    BY <1>9 DEF OnceSettle
<1>10. CASE Crash
    BY <1>10 DEF Crash
<1>11. CASE OnceDies
    BY <1>11 DEF OnceDies
<1>12. CASE Unlock
    BY <1>12 DEF Unlock
<1>13. CASE RemoveHoldFile
    BY <1>13 DEF RemoveHoldFile
<1>14. CASE RequestNow
    BY <1>14 DEF RequestNow
<1>15. CASE Tick
    BY <1>15 DEF Tick
<1>16. CASE UNCHANGED vars
    BY <1>16 DEF vars
<1> HIDE DEF Flags, table, control, deaths
<1>17. QED
    BY <1>1, <1>2, <1>3, <1>4, <1>5, <1>6, <1>7, <1>8, <1>9, <1>10, <1>11, <1>12,
       <1>13, <1>14, <1>15, <1>16
       DEF Next, Loop, Once, Person, RequestNowApi

LEMMA PhasesStep == ASSUME Phases, [Next]_vars PROVE Phases'
<1> USE DEF Phases, LoopPhase, OncePhase, ErrorKind, memory, manual
<1>1. CASE Boot \/ TakeRunNow \/ WaitOver
    BY <1>1 DEF Boot, TakeRunNow, WaitOver
<1>2. CASE PassLock \/ BudgetWait \/ PassBudget \/ Launch
    BY <1>2 DEF PassLock, BudgetWait, PassBudget, Launch
<1>3. CASE FinishRun
    BY <1>3, FlagsAssumption DEF FinishRun
<1>4. CASE SettleRun \/ Crash
    BY <1>4 DEF SettleRun, Crash
<1>5. CASE OnceStart \/ OnceSettle \/ OnceDies
    BY <1>5 DEF OnceStart, OnceSettle, OnceDies
<1>6. CASE OnceFinish
    BY <1>6, FlagsAssumption DEF OnceFinish
<1>7. CASE Person \/ Tick
    BY <1>7 DEF Person, SetLock, Unlock, RemoveLockFile, RemoveHoldFile,
        RequestNow, RequestNowApi, Tick
<1>8. CASE UNCHANGED vars
    BY <1>8 DEF vars
<1> HIDE DEF Phases, LoopPhase, OncePhase, ErrorKind, memory, manual
<1>9. QED
    BY <1>1, <1>2, <1>3, <1>4, <1>5, <1>6, <1>7, <1>8
       DEF Next, Loop, Once

\* Observe keeps its counter, so each case looks at the other numbers only.
LEMMA CountsStep == ASSUME TypeOK, [Next]_vars PROVE Counts'
<1> DEFINE Others ==
        /\ now \in Nat /\ lockAt \in Nat \cup {NoLock} /\ wakeAt \in Nat
        /\ attempt \in Nat /\ failures \in Nat /\ loopBegan \in Nat
        /\ onceBegan \in Nat /\ onces \in Nat /\ crashes \in Nat
<1>1. Others /\ underLock \in Nat
    BY TypeParts DEF Counts
<1>2. underLock' \in Nat
    <2>1. ASSUME NEW n \in {0, 1}, Observe(n) PROVE underLock' \in Nat
        BY <1>1, <2>1 DEF Observe
    <2>2. UNCHANGED vars => underLock' \in Nat
        BY <1>1 DEF vars
    <2>3. Launch => underLock' \in Nat
        BY <2>1 DEF Launch
    <2>4. Boot \/ TakeRunNow \/ WaitOver \/ PassLock \/ BudgetWait \/ PassBudget
            \/ FinishRun \/ SettleRun \/ Once \/ Crash \/ OnceDies \/ Person \/ Tick
            => underLock' \in Nat
        BY <2>1 DEF Boot, TakeRunNow, WaitOver, PassLock, BudgetWait, PassBudget,
            FinishRun, SettleRun, Once, OnceStart, OnceFinish, OnceSettle, Crash,
            OnceDies, Person, SetLock, Unlock, RemoveLockFile, RemoveHoldFile,
            RequestNow, RequestNowApi, Tick
    <2>5. QED
        BY <2>2, <2>3, <2>4 DEF Next, Loop
<1> USE DEF table, control, memory, manual, deaths
<1>3. CASE Boot
    <2>1. Streak \in Nat
        BY StreakType DEF TypeOK
    <2>2. wakeAt' \in Nat
        BY <1>3, StartupWakesType DEF Boot
    <2>3. Others'
        BY <1>1, <1>3, <2>1, <2>2 DEF Boot
    <2>4. QED
        BY <1>2, <2>3 DEF Counts
<1>4. CASE BudgetWait
    <2>1. PICK i \in Window : wakeAt' = Max2(now, runs[i].start + Day) + 1
        BY <1>4 DEF BudgetWait
    <2>2. i \in 1 .. Len(runs)
        BY LenProperties DEF Window, TypeOK
    <2>3. runs[i] \in Row
        BY <2>2, ElementOfSeq DEF TypeOK
    <2>4. runs[i].start \in Nat
        BY <2>3 DEF Row
    <2>5. wakeAt' \in Nat
        BY <1>1, <2>1, <2>4, DurationsAssumption DEF Max2
    <2>6. Others'
        BY <1>1, <1>4, <2>5 DEF BudgetWait
    <2>7. QED
        BY <1>2, <2>6 DEF Counts
<1>5. CASE SettleRun
    <2>1. failures' \in Nat
        BY <1>1, <1>5 DEF SettleRun
    <2>2. wakeAt' \in Nat
        <3>1. PICK s \in NextSleeps(loopErr, attempt, failures') : wakeAt' = now + s
            BY <1>5 DEF SettleRun
        <3>2. s \in Nat
            BY <1>1, <2>1, SleepsType DEF TypeOK
        <3>3. QED
            BY <1>1, <3>1, <3>2
    <2>3. attempt' \in Nat
        BY <1>1, <1>5 DEF SettleRun, NextAttempt
    <2>4. Others'
        BY <1>1, <1>5, <2>1, <2>2, <2>3 DEF SettleRun
    <2>5. QED
        BY <1>2, <2>4 DEF Counts
<1>6. CASE TakeRunNow \/ WaitOver \/ PassLock \/ PassBudget \/ Launch \/ FinishRun
    <2>1. Others'
        BY <1>1, <1>6 DEF TakeRunNow, WaitOver, PassLock, PassBudget, Launch, FinishRun
    <2>2. QED
        BY <1>2, <2>1 DEF Counts
<1>7. CASE OnceStart \/ OnceFinish \/ OnceSettle \/ OnceDies \/ Crash
    <2>1. Others'
        BY <1>1, <1>7 DEF OnceStart, OnceFinish, OnceSettle, OnceDies, Crash
    <2>2. QED
        BY <1>2, <2>1 DEF Counts
<1>8. CASE Person \/ Tick
    <2>1. Others'
        BY <1>1, <1>8 DEF Person, SetLock, Unlock, RemoveLockFile, RemoveHoldFile,
            RequestNow, RequestNowApi, Tick
    <2>2. QED
        BY <1>2, <2>1 DEF Counts
<1>9. CASE UNCHANGED vars
    BY <1>1, <1>9 DEF vars, Counts
<1> HIDE DEF Others, table, control, memory, manual, deaths
<1>10. QED
    BY <1>3, <1>4, <1>5, <1>6, <1>7, <1>8, <1>9 DEF Next, Loop, Once

\* The table gains rows and loses none: the two ways it changes.
LEMMA RunsStep ==
    ASSUME TypeOK, [Next]_vars
    PROVE  \/ UNCHANGED runs
           \/ \E r \in Row : /\ runs' = Append(runs, r) /\ now' = now
                             /\ \/ FinishRun /\ r.by = "loop" /\ r.error = loopErr'
                                   /\ r.start = loopBegan /\ r.finish = now
                                \/ OnceFinish /\ r.by = "once" /\ r.error = onceErr'
                                   /\ r.start = onceBegan /\ r.finish = now
<1>1. CASE FinishRun
    <2>1. PICK e \in Outcomes :
              /\ runs' = Append(runs, [start |-> loopBegan, finish |-> now,
                                      error |-> e, by |-> "loop"])
              /\ loopErr' = e
        BY <1>1 DEF FinishRun
    <2>2. [start |-> loopBegan, finish |-> now, error |-> e, by |-> "loop"] \in Row
        BY FlagsAssumption DEF Row, TypeOK
    <2>3. now' = now
        BY <1>1 DEF FinishRun
    <2>4. QED
        BY <1>1, <2>1, <2>2, <2>3
<1>2. CASE OnceFinish
    <2>1. PICK e \in Outcomes :
              /\ runs' = Append(runs, [start |-> onceBegan, finish |-> now,
                                      error |-> e, by |-> "once"])
              /\ onceErr' = e
        BY <1>2 DEF OnceFinish
    <2>2. [start |-> onceBegan, finish |-> now, error |-> e, by |-> "once"] \in Row
        BY FlagsAssumption DEF Row, TypeOK
    <2>3. now' = now
        BY <1>2 DEF OnceFinish
    <2>4. QED
        BY <1>2, <2>1, <2>2, <2>3
<1>3. CASE ~FinishRun /\ ~OnceFinish
    BY <1>3 DEF Next, Loop, Once, Person, RequestNowApi, Boot, TakeRunNow, WaitOver,
        PassLock, BudgetWait, PassBudget, Launch, SettleRun, OnceStart, OnceSettle,
        Crash, OnceDies, SetLock, Unlock, RemoveLockFile, RemoveHoldFile, RequestNow,
        Tick, vars, table
<1>4. QED
    BY <1>1, <1>2, <1>3

\* Every step keeps the state within its types.
LEMMA TypeStep == TypeOK /\ [Next]_vars => TypeOK'
<1> SUFFICES ASSUME TypeOK, [Next]_vars PROVE TypeOK'
    OBVIOUS
<1>1. Flags' /\ Phases' /\ Counts'
    BY TypeParts, FlagsStep, PhasesStep, CountsStep
<1>2. runs' \in Seq(Row)
    <2>1. runs \in Seq(Row)
        BY TypeParts
    <2>2. QED
        BY <2>1, RunsStep, AppendProperties
<1>3. QED
    BY <1>1, <1>2, Zenon DEF TypeOK, Flags, Phases, Counts

\* The state is always of its types, whatever the durations and limits.
THEOREM TypeCorrect == Spec => []TypeOK
<1>1. Init => TypeOK
    <2>1. <<>> \in Seq(Row)
        BY EmptySeq
    <2>2. SUFFICES ASSUME Init PROVE TypeOK
        OBVIOUS
    <2>3. /\ hold \in BOOLEAN /\ request \in BOOLEAN /\ armed \in BOOLEAN
          /\ missed \in BOOLEAN /\ onceRan \in BOOLEAN /\ asked \in BOOLEAN
        BY <2>2 DEF Init
    <2>4. QED
        BY <2>1, <2>2, <2>3 DEF Init, TypeOK, LoopPhase, OncePhase, ErrorKind, NoLock
<1>2. QED
    BY <1>1, TypeStep, PTL DEF Spec

------------------------------------------------------------------------------
(* The hold: nothing runs until a person has acted.                        *)

\* While the hold file is there the loop is asleep, down or at the lock; and the
\* file is there from the step after the run that needed a person, until a person
\* removes it or its process dies in between.  `once`, which asks neither, is out.
HoldInv ==
    /\ once = "idle"
    /\ hold => loop \in {"down", "wait", "lock"}
    /\ armed /\ ~missed => hold \/ (loop = "recorded" /\ loopErr = "human")

LEMMA HoldStep ==
    ASSUME MaxOnce = 0, TypeOK, HoldInv, [Next]_vars PROVE HoldInv'
<1> USE DEF HoldInv, table, control, memory, manual, deaths
<1>1. CASE Boot
    BY <1>1 DEF Boot
<1>2. CASE TakeRunNow
    BY <1>2 DEF TakeRunNow
<1>3. CASE WaitOver
    BY <1>3 DEF WaitOver
<1>4. CASE PassLock
    BY <1>4 DEF PassLock, Locked
<1>5. CASE BudgetWait
    BY <1>5 DEF BudgetWait
<1>6. CASE PassBudget
    BY <1>6 DEF PassBudget
<1>7. CASE Launch
    BY <1>7 DEF Launch
<1>8. CASE FinishRun
    <2>1. ~hold /\ (armed => missed)
        BY <1>8 DEF FinishRun
    <2>2. (armed' => armed \/ loopErr' = "human") /\ (missed' <=> missed)
        BY <1>8 DEF FinishRun
    <2>3. QED
        BY <1>8, <2>1, <2>2 DEF FinishRun
<1>9. CASE SettleRun
    <2>1. (hold' <=> hold \/ loopErr = "human") /\ (armed' <=> armed) /\ (missed' <=> missed)
        BY <1>9 DEF SettleRun, TypeOK
    <2>2. QED
        BY <1>9, <2>1 DEF SettleRun
<1>10. CASE OnceStart
    BY <1>10, DurationsAssumption DEF OnceStart, TypeOK
<1>11. CASE OnceFinish \/ OnceSettle \/ OnceDies
    BY <1>11 DEF OnceFinish, OnceSettle, OnceDies
<1>12. CASE Crash
    <2>1. missed' <=> missed \/ (loop = "recorded" /\ loopErr = "human" /\ armed)
        BY <1>12 DEF Crash, HoldUnwritten, TypeOK
    <2>2. (hold' <=> hold) /\ (armed' <=> armed)
        BY <1>12 DEF Crash
    <2>3. QED
        BY <1>12, <2>1, <2>2 DEF Crash
<1>13. CASE SetLock \/ RemoveLockFile
    BY <1>13 DEF SetLock, RemoveLockFile
<1>14. CASE Unlock \/ RemoveHoldFile
    BY <1>14 DEF Unlock, RemoveHoldFile
<1>15. CASE RequestNow
    BY <1>15 DEF RequestNow
<1>16. CASE Tick
    BY <1>16 DEF Tick
<1>17. CASE UNCHANGED vars
    BY <1>17 DEF vars
<1> HIDE DEF HoldInv, table, control, memory, manual, deaths
<1>18. QED
    BY <1>1, <1>2, <1>3, <1>4, <1>5, <1>6, <1>7, <1>8, <1>9, <1>10, <1>11, <1>12, <1>13,
       <1>14, <1>15, <1>16, <1>17 DEF Next, Loop, Once, Person, RequestNowApi

\* Where `once` is not used, once a run has ended needing a person the loop starts
\* nothing until a person unlocks, for every schedule, budget and lock age.
THEOREM HoldStops == Spec => []StopsUntilPersonActs
<1>1. CASE MaxOnce = 0
    <2>1. Init => HoldInv
        BY DEF Init, HoldInv
    <2>2. TypeOK /\ HoldInv /\ [Next]_vars => HoldInv'
        BY <1>1, HoldStep
    <2>3. HoldInv => StopsUntilPersonActs
        BY DEF HoldInv, StopsUntilPersonActs
    <2>4. QED
        BY <2>1, <2>2, <2>3, TypeCorrect, PTL DEF Spec
<1>2. CASE MaxOnce # 0
    <2>1. StopsUntilPersonActs
        BY <1>2 DEF StopsUntilPersonActs
    <2>2. QED
        BY <2>1, PTL
<1>3. QED
    BY <1>1, <1>2

------------------------------------------------------------------------------
(* The lock: one launch at most slips past it.                             *)

\* A run that may still slip past the lock has not yet launched, and the lock
\* was free when it passed.
LockInv ==
    /\ ~Locked => underLock = 0
    /\ underLock + (IF loop \in {"budget", "launch"} THEN 1 ELSE 0) <= 1

LEMMA LockStep ==
    ASSUME TypeOK, LockInv, [Next]_vars PROVE LockInv'
<1> DEFINE past == IF loop \in {"budget", "launch"} THEN 1 ELSE 0
<1>1. underLock \in Nat /\ past \in {0, 1}
    BY DEF TypeOK
<1>2. ASSUME Observe(0), past' <= past PROVE LockInv'
    BY <1>1, <1>2 DEF LockInv, Observe
<1>3. ASSUME loop' \notin {"budget", "launch"}, Observe(0) PROVE LockInv'
    BY <1>1, <1>3 DEF LockInv, Observe
<1>4. CASE Launch
    <2>1. past = 1 /\ past' = 0
        BY <1>4 DEF Launch
    <2>2. Observe(1)
        BY <1>4 DEF Launch
    <2>3. QED
        BY <1>1, <2>1, <2>2 DEF LockInv, Observe
<1>5. CASE PassLock
    <2>1. underLock = 0
        BY <1>5 DEF PassLock, LockInv
    <2>2. Observe(0)
        BY <1>5 DEF PassLock
    <2>3. QED
        BY <1>1, <2>1, <2>2 DEF LockInv, Observe
<1>6. CASE PassBudget
    <2>1. past = 1 /\ past' = 1 /\ Observe(0)
        BY <1>6 DEF PassBudget
    <2>2. QED
        BY <1>2, <2>1
<1>7. CASE Boot \/ TakeRunNow \/ WaitOver \/ BudgetWait \/ FinishRun \/ SettleRun \/ Crash
    BY <1>3, <1>7 DEF Boot, TakeRunNow, WaitOver, BudgetWait, FinishRun, SettleRun, Crash
<1>8. CASE Once \/ OnceDies \/ Person \/ Tick
    <2>1. loop' = loop /\ Observe(0)
        BY <1>8 DEF Once, OnceStart, OnceFinish, OnceSettle, OnceDies, Person, SetLock,
            Unlock, RemoveLockFile, RemoveHoldFile, RequestNow, RequestNowApi, Tick
    <2>2. QED
        BY <1>1, <1>2, <2>1
<1>9. CASE UNCHANGED vars
    BY <1>9 DEF vars, LockInv, Locked, control
<1>10. QED
    BY <1>4, <1>5, <1>6, <1>7, <1>8, <1>9 DEF Next, Loop

\* However long the lock or the hold stays, the loop starts at most the one run
\* that had already passed wait_while_locked.
THEOREM LockHoldsBack == Spec => []LaunchesUnderLock
<1>1. Init => LockInv
    BY DEF Init, LockInv
<1>2. TypeOK /\ LockInv /\ [Next]_vars => LockInv'
    BY LockStep
<1>3. TypeOK /\ LockInv => LaunchesUnderLock
    BY DEF TypeOK, LockInv, LaunchesUnderLock
<1>4. QED
    BY <1>1, <1>2, <1>3, TypeCorrect, PTL DEF Spec

------------------------------------------------------------------------------
(* The budget.                                                             *)

\* Without `once` its process is never there, so only the loop has a run going.
OnceInv == MaxOnce = 0 => once = "idle"

LEMMA OnceStep == ASSUME TypeOK, OnceInv, [Next]_vars PROVE OnceInv'
<1> SUFFICES ASSUME MaxOnce = 0 PROVE once' = "idle"
    BY DEF OnceInv
<1>1. once = "idle"
    BY DEF OnceInv
<1>2. ~OnceStart
    BY DurationsAssumption DEF OnceStart, TypeOK
<1>3. CASE Loop \/ Crash
    BY <1>1, <1>3 DEF Loop, Boot, TakeRunNow, WaitOver, PassLock, BudgetWait,
        PassBudget, Launch, FinishRun, SettleRun, Crash, manual
<1>4. CASE OnceFinish \/ OnceSettle \/ OnceDies
    BY <1>1, <1>4 DEF OnceFinish, OnceSettle, OnceDies
<1>5. CASE Person \/ Tick
    BY <1>1, <1>5 DEF Person, SetLock, Unlock, RemoveLockFile, RemoveHoldFile,
        RequestNow, RequestNowApi, Tick, manual
<1>6. CASE UNCHANGED vars
    BY <1>1, <1>6 DEF vars, manual
<1>7. QED
    BY <1>2, <1>3, <1>4, <1>5, <1>6 DEF Next, Once

\* A row that is added puts at most itself into the window.
LEMMA WindowAppend ==
    ASSUME TypeOK, NEW r \in Row, runs' = Append(runs, r), now' = now
    PROVE  Cardinality(Window') <= Cardinality(Window) + 1
<1>1. Window \in SUBSET DOMAIN runs
    BY DEF Window
<1>2. IsFiniteSet(Window) /\ Cardinality(Window) \in Nat
    BY <1>1, PositionsFinite DEF TypeOK
<1>3. /\ DOMAIN runs = 1 .. Len(runs) /\ Len(runs) \in Nat
      /\ DOMAIN runs' = 1 .. (Len(runs) + 1)
      /\ \A i \in 1 .. Len(runs) : runs'[i] = runs[i]
    BY AppendProperties, LenProperties DEF TypeOK
<1>4. Window' \in SUBSET (Window \cup {Len(runs) + 1})
    <2> SUFFICES ASSUME NEW i \in Window', i # Len(runs) + 1 PROVE i \in Window
        OBVIOUS
    <2>1. i \in DOMAIN runs' /\ runs'[i].start + Day >= now'
        BY DEF Window
    <2>2. i \in 1 .. Len(runs)
        BY <1>3, <2>1
    <2>3. QED
        BY <1>3, <2>1, <2>2 DEF Window
<1>5. /\ IsFiniteSet(Window \cup {Len(runs) + 1})
      /\ Cardinality(Window \cup {Len(runs) + 1}) <= Cardinality(Window) + 1
    <2>1. /\ IsFiniteSet(Window \cup {Len(runs) + 1})
          /\ Cardinality(Window \cup {Len(runs) + 1})
                = IF Len(runs) + 1 \in Window THEN Cardinality(Window)
                                              ELSE Cardinality(Window) + 1
        BY <1>2, FS_AddElement, Zenon
    <2>2. QED
        BY <1>2, <2>1
<1>6. /\ Cardinality(Window') \in Nat
      /\ Cardinality(Window') <= Cardinality(Window \cup {Len(runs) + 1})
      /\ Cardinality(Window \cup {Len(runs) + 1}) \in Nat
    BY <1>4, <1>5, FS_Subset, FS_CardinalityType
<1>7. QED
    BY <1>2, <1>5, <1>6

\* As the clock moves on, rows only leave the window.
LEMMA WindowTick ==
    ASSUME TypeOK, runs' = runs, now' = now + 1
    PROVE  Cardinality(Window') <= Cardinality(Window)
<1>1. Window \in SUBSET DOMAIN runs
    BY DEF Window
<1>2. IsFiniteSet(Window)
    BY <1>1, PositionsFinite DEF TypeOK
<1>3. Window' \in SUBSET Window
    <2> SUFFICES ASSUME NEW i \in Window' PROVE i \in Window
        OBVIOUS
    <2>1. i \in DOMAIN runs /\ runs[i].start + Day >= now + 1
        BY DEF Window
    <2>2. i \in 1 .. Len(runs)
        BY <2>1, LenProperties DEF TypeOK
    <2>3. runs[i] \in Row
        BY <2>2, ElementOfSeq DEF TypeOK
    <2>4. runs[i].start \in Nat
        BY <2>3 DEF Row
    <2>5. QED
        BY <2>1, <2>4, DurationsAssumption DEF Window, TypeOK
<1>4. QED
    BY <1>2, <1>3, FS_Subset

\* The budget as an invariant, with `once` in use as well: its start may be the one
\* the loop's check did not see, so that there may be one run over.
ManualSlack == IF MaxOnce > 0 THEN 1 ELSE 0
OneOverAtMost ==
    MaxRuns > 0 => Cardinality(Window) + InFlight <= MaxRuns + ManualSlack

\* With the window's size as a number, each step keeps the sum of the recorded
\* and the running runs within the budget.
LEMMA BudgetStep ==
    ASSUME TypeOK, OnceInv, OneOverAtMost, [Next]_vars
    PROVE  OneOverAtMost'
<1> SUFFICES ASSUME MaxRuns > 0
             PROVE  Cardinality(Window') + InFlight' <= MaxRuns + ManualSlack
    BY DEF OneOverAtMost, ManualSlack
<1> DEFINE size == Cardinality(Window)
           mine == IF loop \in {"launch", "run"} THEN 1 ELSE 0
           hand == IF once = "run" THEN 1 ELSE 0
<1>1. size \in Nat
    <2>1. Window \in SUBSET DOMAIN runs
        BY DEF Window
    <2>2. QED
        BY <2>1, PositionsFinite DEF TypeOK
<1>2. size' \in Nat
    <2>1. runs' \in Seq(Row)
        BY TypeStep DEF TypeOK
    <2>2. DOMAIN runs' = 1 .. Len(runs') /\ Len(runs') \in Nat
        BY <2>1, LenProperties
    <2>3. IsFiniteSet(DOMAIN runs')
        BY <2>2, FS_Interval
    <2>4. Window' \in SUBSET DOMAIN runs'
        BY DEF Window
    <2>5. QED
        BY <2>3, <2>4, FS_Subset, FS_CardinalityType
<1>3. /\ InFlight = mine + hand /\ InFlight' = mine' + hand'
      /\ mine \in {0, 1} /\ hand \in {0, 1} /\ mine' \in {0, 1} /\ hand' \in {0, 1}
    BY DEF InFlight
<1>4. size + mine + hand <= MaxRuns + ManualSlack
    BY <1>1, <1>3 DEF OneOverAtMost
<1>5. MaxRuns \in Nat /\ ManualSlack \in {0, 1} /\ (hand = 1 => ManualSlack = 1)
    BY DurationsAssumption DEF ManualSlack, OnceInv
<1>6. ASSUME size' <= size, mine' <= mine, hand' <= hand
      PROVE  size' + mine' + hand' <= MaxRuns + ManualSlack
    BY <1>1, <1>2, <1>3, <1>4, <1>5, <1>6
<1>7. ASSUME UNCHANGED <<now, runs>> PROVE size' = size
    BY <1>7 DEF Window
<1>8. CASE PassBudget
    <2>1. size < MaxRuns
        BY <1>1, <1>5, <1>8 DEF PassBudget, BudgetFull
    <2>2. size' = size /\ hand' = hand
        BY <1>7, <1>8 DEF PassBudget, table, manual
    <2>3. size' + mine' + hand' <= MaxRuns + ManualSlack
        BY <1>1, <1>3, <1>5, <2>1, <2>2
    <2>4. QED
        BY <1>2, <1>3, <2>3
<1>9. CASE OnceStart
    <2>1. size < MaxRuns
        BY <1>1, <1>5, <1>9 DEF OnceStart, BudgetFull
    <2>2. ManualSlack = 1
        BY <1>9, DurationsAssumption DEF OnceStart, ManualSlack, TypeOK
    <2>3. size' = size /\ mine' = mine
        BY <1>7, <1>9 DEF OnceStart, table
    <2>4. size' + mine' + hand' <= MaxRuns + ManualSlack
        BY <1>1, <1>3, <1>5, <2>1, <2>2, <2>3
    <2>5. QED
        BY <1>2, <1>3, <2>4
<1>10. CASE FinishRun
    <2>1. size' <= size + 1
        <3>1. PICK e \in Outcomes :
                  runs' = Append(runs, [start |-> loopBegan, finish |-> now,
                                        error |-> e, by |-> "loop"])
            BY <1>10 DEF FinishRun
        <3>2. [start |-> loopBegan, finish |-> now, error |-> e, by |-> "loop"] \in Row
            BY FlagsAssumption DEF Row, TypeOK
        <3>3. now' = now
            BY <1>10 DEF FinishRun
        <3>4. QED
            BY <3>1, <3>2, <3>3, WindowAppend
    <2>2. mine = 1 /\ mine' = 0 /\ hand' = hand
        BY <1>10 DEF FinishRun, manual
    <2>3. QED
        BY <1>1, <1>2, <1>3, <1>4, <1>5, <2>1, <2>2
<1>11. CASE OnceFinish
    <2>1. size' <= size + 1
        <3>1. PICK e \in Outcomes :
                  runs' = Append(runs, [start |-> onceBegan, finish |-> now,
                                        error |-> e, by |-> "once"])
            BY <1>11 DEF OnceFinish
        <3>2. [start |-> onceBegan, finish |-> now, error |-> e, by |-> "once"] \in Row
            BY FlagsAssumption DEF Row, TypeOK
        <3>3. now' = now
            BY <1>11 DEF OnceFinish
        <3>4. QED
            BY <3>1, <3>2, <3>3, WindowAppend
    <2>2. hand = 1 /\ hand' = 0 /\ mine' = mine
        BY <1>11 DEF OnceFinish
    <2>3. QED
        BY <1>1, <1>2, <1>3, <1>4, <1>5, <2>1, <2>2
<1>12. CASE Boot \/ TakeRunNow \/ WaitOver \/ PassLock \/ BudgetWait \/ SettleRun \/ Crash
    <2>1. UNCHANGED <<now, runs>> /\ mine' = 0
        BY <1>12 DEF Boot, TakeRunNow, WaitOver, PassLock, BudgetWait, SettleRun, Crash, table
    <2>2. hand' <= hand
        BY <1>12 DEF Boot, TakeRunNow, WaitOver, PassLock, BudgetWait, SettleRun, Crash, manual
    <2>3. QED
        BY <1>1, <1>2, <1>3, <1>6, <1>7, <2>1, <2>2
<1>13. CASE Launch
    <2>1. UNCHANGED <<now, runs>> /\ hand' = hand /\ mine' = mine
        BY <1>13 DEF Launch, table, manual
    <2>2. QED
        BY <1>1, <1>2, <1>3, <1>6, <1>7, <2>1
<1>14. CASE OnceSettle \/ OnceDies
    <2>1. UNCHANGED <<now, runs>> /\ hand' = 0 /\ mine' = mine
        BY <1>14 DEF OnceSettle, OnceDies, table
    <2>2. QED
        BY <1>1, <1>2, <1>3, <1>6, <1>7, <2>1
<1>15. CASE Person
    <2>1. UNCHANGED <<now, runs>> /\ hand' = hand /\ mine' = mine
        BY <1>15 DEF Person, SetLock, Unlock, RemoveLockFile, RemoveHoldFile, RequestNow,
            RequestNowApi, table, manual
    <2>2. QED
        BY <1>1, <1>2, <1>3, <1>6, <1>7, <2>1
<1>16. CASE Tick
    <2>1. size' <= size
        BY <1>16, WindowTick DEF Tick, table
    <2>2. hand' = hand /\ mine' = mine
        BY <1>16 DEF Tick, manual
    <2>3. QED
        BY <1>1, <1>2, <1>3, <1>6, <2>1, <2>2
<1>17. CASE UNCHANGED vars
    <2>1. UNCHANGED <<now, runs>> /\ hand' = hand /\ mine' = mine
        BY <1>17 DEF vars, table, manual
    <2>2. QED
        BY <1>1, <1>2, <1>3, <1>6, <1>7, <2>1
<1>18. QED
    BY <1>8, <1>9, <1>10, <1>11, <1>12, <1>13, <1>14, <1>15, <1>16, <1>17
       DEF Next, Loop, Once

\* The window stays within the invariant, whoever starts runs.
LEMMA BudgetInvariant == Spec => [](TypeOK /\ OneOverAtMost)
<1>1. Init => OnceInv /\ OneOverAtMost
    <2> SUFFICES ASSUME Init PROVE OnceInv /\ OneOverAtMost
        OBVIOUS
    <2>1. DOMAIN runs = {}
        BY DEF Init
    <2>2. Window = {}
        BY <2>1 DEF Window
    <2>3. Cardinality(Window) = 0
        BY <2>2, FS_EmptySet
    <2>4. InFlight = 0
        BY DEF Init, InFlight
    <2>5. QED
        BY <2>3, <2>4, DurationsAssumption DEF Init, OnceInv, OneOverAtMost, ManualSlack
<1>2. TypeOK /\ OnceInv /\ OneOverAtMost /\ [Next]_vars => OnceInv' /\ OneOverAtMost'
    BY OnceStep, BudgetStep
<1>3. QED
    BY <1>1, <1>2, TypeCorrect, PTL DEF Spec

\* Without `once`: for every budget and every way the loop wakes, runs, dies and
\* starts again, the rows of any 24h window, with the run about to be a row, never
\* exceed MAX_RUNS_PER_DAY.
THEOREM BudgetHolds == Spec => []RecordedWithinBudget
<1>1. OneOverAtMost => RecordedWithinBudget
    BY DurationsAssumption DEF OneOverAtMost, ManualSlack, RecordedWithinBudget, InFlight
<1>2. QED
    BY <1>1, BudgetInvariant, PTL

\* With `once`, any number of times: what its race with the loop can cost is one run.
CapButForOne == MaxRuns > 0 => Cardinality(Window) <= MaxRuns + 1
THEOREM OnceCostsOneRun == Spec => []CapButForOne
<1>1. TypeOK /\ OneOverAtMost => CapButForOne
    <2> SUFFICES ASSUME TypeOK, OneOverAtMost, MaxRuns > 0
                 PROVE  Cardinality(Window) <= MaxRuns + 1
        BY DEF CapButForOne
    <2>1. Window \in SUBSET DOMAIN runs
        BY DEF Window
    <2>2. Cardinality(Window) \in Nat
        BY <2>1, PositionsFinite DEF TypeOK
    <2>3. InFlight \in 0 .. 2 /\ ManualSlack \in {0, 1} /\ MaxRuns \in Nat
        BY DurationsAssumption DEF InFlight, ManualSlack
    <2>4. Cardinality(Window) + InFlight <= MaxRuns + ManualSlack
        BY DEF OneOverAtMost
    <2>5. QED
        BY <2>2, <2>3, <2>4
<1>2. QED
    BY <1>1, BudgetInvariant, PTL

------------------------------------------------------------------------------
(* The failures in a row, in memory and in the table.                      *)

\* The rows consecutive_failures() counts.
Failing == {i \in DOMAIN runs : /\ Len(runs) - i < FailureScan
                                /\ \A j \in i .. Len(runs) : runs[j].error # "none"}

LEMMA FailingFacts ==
    ASSUME runs \in Seq(Row)
    PROVE  /\ Streak = Cardinality(Failing) /\ IsFiniteSet(Failing)
           /\ DOMAIN runs = 1 .. Len(runs) /\ Len(runs) \in Nat
           /\ Streak \in Nat /\ Streak <= FailureScan
<1>1. DOMAIN runs = 1 .. Len(runs) /\ Len(runs) \in Nat /\ FailureScan \in Nat
    BY LenProperties, DurationsAssumption
<1>2. Streak = Cardinality(Failing)
    BY DEF Streak, Failing
<1>3. PICK lo \in Int, hi \in Int : lo = Len(runs) - FailureScan + 1 /\ hi = Len(runs)
    <2>1. Len(runs) - FailureScan + 1 \in Int /\ Len(runs) \in Int
        BY <1>1
    <2>2. QED
        BY <2>1, Zenon
<1>4. Failing \subseteq lo .. hi
    BY <1>1, <1>3 DEF Failing
<1>5. IsFiniteSet(lo .. hi) /\ Cardinality(lo .. hi) = FailureScan
    <2>1. IsFiniteSet(lo .. hi) /\ Cardinality(lo .. hi) = IF lo > hi THEN 0 ELSE hi - lo + 1
        BY FS_Interval
    <2>2. QED
        BY <1>1, <1>3, <2>1
<1>6. /\ IsFiniteSet(Failing) /\ Cardinality(Failing) \in Nat
      /\ Cardinality(Failing) <= FailureScan
    BY <1>4, <1>5, FS_Subset, FS_CardinalityType
<1>7. QED
    BY <1>1, <1>2, <1>6

\* A success ends the streak, a failure lengthens it as far as the scan reaches.
LEMMA StreakAppend ==
    ASSUME runs \in Seq(Row), NEW r \in Row, runs' = Append(runs, r)
    PROVE  Streak' = IF r.error = "none" THEN 0 ELSE Min2(Streak + 1, FailureScan)
<1> DEFINE n == Len(runs)
<1>1. /\ Streak = Cardinality(Failing) /\ IsFiniteSet(Failing) /\ Streak \in Nat
      /\ Streak <= FailureScan /\ DOMAIN runs = 1 .. n /\ n \in Nat
    BY FailingFacts
<1>2. /\ runs' \in Seq(Row) /\ Len(runs') = n + 1 /\ DOMAIN runs' = 1 .. (n + 1)
      /\ \A i \in 1 .. n : runs'[i] = runs[i]
      /\ runs'[n + 1] = r
    BY <1>1, AppendProperties, LenProperties
<1>3. Streak' = Cardinality(Failing')
    BY DEF Streak, Failing
<1>4. FailureScan \in Nat
    BY DurationsAssumption
<1>5. CASE r.error = "none"
    <2>1. Failing' = {}
        BY <1>1, <1>2, <1>5 DEF Failing
    <2>2. QED
        BY <1>3, <1>5, <2>1, FS_EmptySet
<1>6. CASE r.error # "none" /\ FailureScan = 0
    <2>1. Failing' = {}
        BY <1>1, <1>2, <1>6 DEF Failing
    <2>2. QED
        BY <1>1, <1>3, <1>6, <2>1, FS_EmptySet DEF Min2
<1>7. CASE r.error # "none" /\ FailureScan > 0
    <2> DEFINE oldest == n + 1 - FailureScan
    <2>1. Failing' = (Failing \ {oldest}) \cup {n + 1}
        <3>1. ASSUME NEW i \in Failing', i # n + 1 PROVE i \in Failing \ {oldest}
            BY <1>1, <1>2, <1>4, <3>1 DEF Failing
        <3>2. ASSUME NEW i \in Failing, i # oldest PROVE i \in Failing'
            <4>1. i \in 1 .. n /\ n - i < FailureScan /\ i # n + 1 - FailureScan
                BY <1>1, <3>2 DEF Failing
            <4>2. (n + 1) - i < FailureScan
                BY <1>1, <1>4, <4>1
            <4>3. \A j \in i .. (n + 1) : runs'[j].error # "none"
                BY <1>1, <1>2, <1>7, <3>2, <4>1 DEF Failing
            <4>4. QED
                BY <1>1, <1>2, <4>1, <4>2, <4>3 DEF Failing
        <3>3. n + 1 \in Failing'
            BY <1>1, <1>2, <1>4, <1>7 DEF Failing
        <3>4. QED
            BY <3>1, <3>2, <3>3
    <2>2. n + 1 \notin Failing \ {oldest}
        BY <1>1 DEF Failing
    <2>3. CASE oldest \in Failing
        <3>1. Failing = oldest .. n
            BY <1>1, <1>4, <2>3 DEF Failing
        <3>2. Cardinality(Failing) = FailureScan
            <4>1. oldest \in Int /\ n \in Int /\ oldest <= n
                BY <1>1, <1>4, <1>7
            <4>2. QED
                BY <1>1, <1>4, <3>1, <4>1, FS_Interval
        <3>3. /\ IsFiniteSet(Failing \ {oldest})
              /\ Cardinality(Failing \ {oldest}) = Cardinality(Failing) - 1
            BY <1>1, <2>3, FS_RemoveElement, Zenon
        <3>4. Cardinality(Failing') = Cardinality(Failing \ {oldest}) + 1
            BY <2>1, <2>2, <3>3, FS_AddElement
        <3>5. QED
            BY <1>1, <1>3, <1>4, <1>7, <3>2, <3>3, <3>4 DEF Min2
    <2>4. CASE oldest \notin Failing
        <3>1. Failing \ {oldest} = Failing
            BY <2>4
        <3>2. Cardinality(Failing') = Cardinality(Failing) + 1
            BY <1>1, <2>1, <2>2, <3>1, FS_AddElement
        <3>3. Streak' \in Nat /\ Streak' <= FailureScan
            <4>0. n + 2 - FailureScan \in Int /\ n + 1 \in Int
                BY <1>1, <1>4
            <4>1. PICK lo \in Int, hi \in Int : lo = n + 2 - FailureScan /\ hi = n + 1
                BY <4>0, Zenon
            <4>2. Failing' \subseteq lo .. hi
                BY <1>1, <1>2, <1>4, <4>1 DEF Failing
            <4>3. IsFiniteSet(lo .. hi) /\ Cardinality(lo .. hi) = FailureScan
                <5>1. /\ IsFiniteSet(lo .. hi)
                      /\ Cardinality(lo .. hi) = IF lo > hi THEN 0 ELSE hi - lo + 1
                    BY FS_Interval
                <5>2. QED
                    BY <1>1, <1>4, <1>7, <4>1, <5>1
            <4>4. IsFiniteSet(Failing') /\ Cardinality(Failing') <= FailureScan
                BY <4>2, <4>3, FS_Subset
            <4>5. QED
                BY <1>3, <4>4, FS_CardinalityType
        <3>4. QED
            BY <1>1, <1>3, <1>4, <1>7, <3>2, <3>3 DEF Min2
    <2>5. QED
        BY <2>3, <2>4
<1>8. QED
    BY <1>4, <1>5, <1>6, <1>7

\* Everything but the loop's own steps, `once` ending a run and the loop dying leaves
\* the loop where it is, and what it remembers of the runs.
Aside == OnceStart \/ OnceSettle \/ OnceDies \/ Person \/ Tick \/ UNCHANGED vars

LEMMA AsideKeeps ==
    ASSUME Aside PROVE UNCHANGED <<runs, loop, wakeAt, attempt, failures, loopErr, onceRan>>
<1>1. CASE OnceStart \/ OnceSettle \/ OnceDies
    BY <1>1 DEF OnceStart, OnceSettle, OnceDies, table, memory
<1>2. CASE Person
    BY <1>2 DEF Person, SetLock, Unlock, RemoveLockFile, RemoveHoldFile, RequestNow,
        RequestNowApi, table, memory
<1>3. CASE Tick \/ UNCHANGED vars
    BY <1>3 DEF Tick, vars, table, memory
<1>4. QED
    BY <1>1, <1>2, <1>3 DEF Aside

\* The loop's steps from its sleep to its next run.
Steps == TakeRunNow \/ WaitOver \/ PassLock \/ BudgetWait \/ PassBudget \/ Launch

LEMMA StepsKeep ==
    ASSUME Steps
    PROVE  /\ UNCHANGED <<runs, attempt, failures, loopErr, onceRan>>
           /\ loop \notin {"down", "recorded"} /\ loop' \notin {"down", "recorded"}
BY DEF Steps, TakeRunNow, WaitOver, PassLock, BudgetWait, PassBudget, Launch, table, memory

LEMMA NextSplit ==
    ASSUME [Next]_vars
    PROVE  \/ Boot \/ Steps \/ FinishRun \/ SettleRun \/ OnceFinish \/ Crash \/ Aside
BY DEF Next, Loop, Once, Steps, Aside

\* The count in memory, as SettleRun is about to leave it once a row is written.
FailuresInv ==
    ~onceRan =>
        /\ loop \notin {"down", "recorded"} => Min2(failures, FailureScan) = Streak
        /\ loop = "recorded" =>
              Min2(IF loopErr = "none" THEN 0 ELSE failures + 1, FailureScan) = Streak

LEMMA FailuresStep ==
    ASSUME TypeOK, FailuresInv, [Next]_vars PROVE FailuresInv'
<1>1. /\ runs \in Seq(Row) /\ failures \in Nat /\ FailureScan \in Nat
      /\ Streak \in Nat /\ Streak <= FailureScan
    BY FailingFacts, DurationsAssumption DEF TypeOK
<1>2. ASSUME UNCHANGED runs PROVE Streak' = Streak
    BY <1>2 DEF Streak
<1>3. CASE Boot
    <2>1. /\ failures' = Streak /\ UNCHANGED runs /\ loop' \in {"wait", "lock"}
        BY <1>3 DEF Boot, table
    <2>2. Min2(failures', FailureScan) = Streak'
        BY <1>1, <1>2, <2>1 DEF Min2
    <2>3. QED
        BY <2>1, <2>2 DEF FailuresInv
<1>4. CASE Steps
    BY <1>2, <1>4, StepsKeep DEF FailuresInv
<1>5. CASE FinishRun
    <2>1. loop = "run" /\ loop' = "recorded" /\ UNCHANGED <<failures, onceRan>>
        BY <1>5 DEF FinishRun
    <2>2. PICK r \in Row : runs' = Append(runs, r) /\ r.error = loopErr'
        <3>1. PICK e \in Outcomes :
                  /\ runs' = Append(runs, [start |-> loopBegan, finish |-> now,
                                          error |-> e, by |-> "loop"])
                  /\ loopErr' = e
            BY <1>5 DEF FinishRun
        <3>2. [start |-> loopBegan, finish |-> now, error |-> e, by |-> "loop"] \in Row
            BY FlagsAssumption DEF Row, TypeOK
        <3>3. QED
            BY <3>1, <3>2
    <2>3. Streak' = IF loopErr' = "none" THEN 0 ELSE Min2(Streak + 1, FailureScan)
        BY <1>1, <2>2, StreakAppend
    <2>4. ASSUME ~onceRan
          PROVE  Min2(IF loopErr' = "none" THEN 0 ELSE failures + 1, FailureScan) = Streak'
        <3>1. Min2(failures, FailureScan) = Streak
            BY <2>1, <2>4 DEF FailuresInv
        <3>2. CASE loopErr' = "none"
            BY <1>1, <2>3, <3>2 DEF Min2
        <3>3. CASE loopErr' # "none"
            BY <1>1, <2>3, <3>1, <3>3 DEF Min2
        <3>4. QED
            BY <3>2, <3>3
    <2>5. QED
        BY <2>1, <2>4 DEF FailuresInv
<1>6. CASE SettleRun
    <2>1. /\ loop = "recorded" /\ loop' = "wait" /\ UNCHANGED <<runs, onceRan>>
          /\ failures' = IF loopErr = "none" THEN 0 ELSE failures + 1
        BY <1>6 DEF SettleRun, table
    <2>2. QED
        BY <1>2, <2>1 DEF FailuresInv
<1>7. CASE OnceFinish
    BY <1>7 DEF OnceFinish, FailuresInv
<1>8. CASE Crash
    BY <1>8 DEF Crash, FailuresInv
<1>9. CASE Aside
    BY <1>2, <1>9, AsideKeeps DEF FailuresInv
<1>10. QED
    BY <1>3, <1>4, <1>5, <1>6, <1>7, <1>8, <1>9, NextSplit

\* For every schedule and outcome, and through restarts: while the loop alone records
\* runs, the failure count its backoff uses is the one the table gives.
THEOREM FailuresAgree == Spec => []FailuresMatchTable
<1>1. Init => FailuresInv
    BY DEF Init, FailuresInv
<1>2. TypeOK /\ FailuresInv /\ [Next]_vars => FailuresInv'
    BY FailuresStep
<1>3. FailuresInv => FailuresMatchTable
    BY DEF FailuresInv, FailuresMatchTable
<1>4. QED
    BY <1>1, <1>2, <1>3, TypeCorrect, PTL DEF Spec

------------------------------------------------------------------------------
(* The ladder of early retries.                                            *)

\* `attempt` rungs up: as many of the first n rows, counted back, were transient.
Climbed(n) ==
    /\ attempt <= Len(RetryDelays) /\ attempt <= n
    /\ \A i \in 1 .. n : i > n - attempt => runs[i].error = "transient"

LadderInv ==
    ~onceRan =>
        /\ loop \notin {"down", "recorded"} => Climbed(Len(runs))
        /\ loop = "recorded" =>
              runs # <<>> /\ LastRun.error = loopErr /\ Climbed(Len(runs) - 1)

LEMMA LadderStep ==
    ASSUME TypeOK, LadderInv, [Next]_vars PROVE LadderInv'
<1>1. /\ runs \in Seq(Row) /\ attempt \in Nat /\ Len(runs) \in Nat
      /\ Len(RetryDelays) \in Nat /\ DOMAIN runs = 1 .. Len(runs)
    BY LenProperties, DurationsAssumption DEF TypeOK
<1>2. CASE Boot
    <2>1. attempt' = 0 /\ UNCHANGED runs /\ loop' \in {"wait", "lock"}
        BY <1>2 DEF Boot, table
    <2>2. QED
        BY <1>1, <2>1 DEF LadderInv, Climbed
<1>3. CASE Steps
    BY <1>3, StepsKeep DEF LadderInv, Climbed
<1>4. CASE FinishRun
    <2>1. loop = "run" /\ loop' = "recorded" /\ UNCHANGED <<attempt, onceRan>>
        BY <1>4 DEF FinishRun
    <2>2. PICK e \in Outcomes :
              /\ runs' = Append(runs, [start |-> loopBegan, finish |-> now,
                                      error |-> e, by |-> "loop"])
              /\ loopErr' = e
        BY <1>4 DEF FinishRun
    <2>3. [start |-> loopBegan, finish |-> now, error |-> e, by |-> "loop"] \in Row
        BY FlagsAssumption DEF Row, TypeOK
    <2>4. /\ Len(runs') = Len(runs) + 1 /\ runs' # <<>>
          /\ \A i \in 1 .. Len(runs) : runs'[i] = runs[i]
          /\ runs'[Len(runs) + 1].error = loopErr'
        BY <1>1, <2>2, <2>3, AppendProperties
    <2>5. LastRun'.error = loopErr'
        BY <2>4 DEF LastRun
    <2>6. ASSUME ~onceRan PROVE Climbed(Len(runs) - 1)'
        <3>1. Climbed(Len(runs))
            BY <2>1, <2>6 DEF LadderInv
        <3>2. Len(runs') - 1 = Len(runs)
            BY <1>1, <2>4
        <3>3. QED
            BY <1>1, <2>1, <2>4, <3>1, <3>2 DEF Climbed
    <2>7. QED
        BY <2>1, <2>4, <2>5, <2>6 DEF LadderInv
<1>5. CASE SettleRun
    <2>1. /\ loop = "recorded" /\ loop' = "wait" /\ UNCHANGED <<runs, onceRan>>
          /\ attempt' = NextAttempt(loopErr, attempt)
        BY <1>5 DEF SettleRun, table
    <2>2. ASSUME ~onceRan PROVE Climbed(Len(runs))'
        <3>1. runs # <<>> /\ LastRun.error = loopErr /\ Climbed(Len(runs) - 1)
            BY <2>1, <2>2 DEF LadderInv
        <3>2. CASE Retryable(loopErr, attempt)
            <4>1. /\ loopErr = "transient" /\ attempt < Len(RetryDelays)
                  /\ attempt' = attempt + 1
                BY <2>1, <3>2 DEF Retryable, NextAttempt
            <4>2. \A i \in 1 .. Len(runs) :
                      i > Len(runs) - (attempt + 1) => runs[i].error = "transient"
                BY <1>1, <3>1, <4>1 DEF Climbed, LastRun
            <4>3. attempt + 1 <= Len(RetryDelays) /\ attempt + 1 <= Len(runs)
                BY <1>1, <3>1, <4>1 DEF Climbed
            <4>4. QED
                BY <2>1, <4>1, <4>2, <4>3 DEF Climbed
        <3>3. CASE ~Retryable(loopErr, attempt)
            <4>1. attempt' = 0
                BY <2>1, <3>3 DEF NextAttempt
            <4>2. QED
                BY <1>1, <2>1, <4>1 DEF Climbed
        <3>4. QED
            BY <3>2, <3>3
    <2>3. QED
        BY <2>1, <2>2 DEF LadderInv
<1>6. CASE OnceFinish
    BY <1>6 DEF OnceFinish, LadderInv
<1>7. CASE Crash
    BY <1>7 DEF Crash, LadderInv
<1>8. CASE Aside
    BY <1>8, AsideKeeps DEF LadderInv, Climbed, LastRun
<1>9. QED
    BY <1>2, <1>3, <1>4, <1>5, <1>6, <1>7, <1>8, NextSplit

\* For every ladder of delays: early retries follow device failures only, and the count
\* of them is that of the newest runs that failed so, never past the ladder's end.
THEOREM LadderHolds == Spec => []RetryLadder
<1>1. Init => LadderInv
    BY DEF Init, LadderInv
<1>2. TypeOK /\ LadderInv /\ [Next]_vars => LadderInv'
    BY LadderStep
<1>3. TypeOK /\ LadderInv => RetryLadder
    BY LenProperties DEF TypeOK, LadderInv, Climbed, RetryLadder
<1>4. QED
    BY <1>1, <1>2, <1>3, TypeCorrect, PTL DEF Spec

------------------------------------------------------------------------------
(* The time between one of the loop's runs and its next.                   *)

\* Every row's run was over by now, and by the end of the row after it.
PastInv ==
    \A i \in DOMAIN runs : runs[i].finish <= LastRun.finish /\ runs[i].finish <= now

\* A start at t is the shortest delay or more after each of the loop's own runs.
Spaced(t) ==
    \A i \in DOMAIN runs : \A g \in Gaps :
        runs[i].by = "loop" /\ IsMinGap(g) => runs[i].finish + g <= t

\* What the loop sleeps for, and what it has waited for when it looks at the lock.
SpacingInv ==
    ~ScrapeOnStartup =>
        /\ loop = "wait" => Spaced(wakeAt)
        /\ loop \in {"lock", "budget", "launch"} => Spaced(now)

\* The shortest delay is no longer than any of them.
LEMMA MinGap ==
    ASSUME NEW g, IsMinGap(g)
    PROVE  /\ g \in Nat /\ g <= RunNowMin /\ g <= PollMin
           /\ \A a \in Nat : a < Len(RetryDelays) => g <= RetryDelays[a + 1]
<1>1. DOMAIN RetryDelays = 1 .. Len(RetryDelays) /\ Len(RetryDelays) \in Nat
    BY DurationsAssumption, LenProperties
<1>2. Gaps \subseteq Nat
    <2>1. \A i \in DOMAIN RetryDelays : RetryDelays[i] \in Nat
        BY <1>1, DurationsAssumption, ElementOfSeq
    <2>2. QED
        BY <2>1, DurationsAssumption DEF Gaps
<1>3. ASSUME NEW a \in Nat, a < Len(RetryDelays) PROVE g <= RetryDelays[a + 1]
    <2>1. a + 1 \in DOMAIN RetryDelays
        BY <1>1, <1>3
    <2>2. QED
        BY <2>1 DEF Gaps, IsMinGap
<1>4. g \in Nat /\ g <= RunNowMin /\ g <= PollMin
    BY <1>2 DEF Gaps, IsMinGap
<1>5. QED
    BY <1>3, <1>4

\* The backoff only lengthens a poll interval.
LEMMA IntervalsLong == \A f \in Nat : \A w \in PollIntervals(f) : PollMin <= w
<1> SUFFICES ASSUME NEW f \in Nat, NEW w \in PollIntervals(f) PROVE PollMin <= w
    OBVIOUS
<1>1. CASE f > 1 /\ BackoffMax > 0
    <2>1. PICK s \in PollMin .. PollMax :
              w = Min2(s * BackoffFactor[Min2(f - 1, 16)], Max2(BackoffMax, s))
        BY <1>1 DEF PollIntervals
    <2>2. Min2(f - 1, 16) \in 1 .. 16
        BY <1>1 DEF Min2
    <2>3. PICK m \in Nat : m = BackoffFactor[Min2(f - 1, 16)] /\ m >= 1
        BY <2>2 DEF BackoffFactor
    <2>4. s \in Nat /\ s >= PollMin /\ PollMin \in Nat /\ BackoffMax \in Nat
        BY DurationsAssumption
    <2>5. s * m >= s /\ s * m \in Nat
        <3>1. \A x, y \in Nat : y >= 1 => x * y >= x /\ x * y \in Nat
            OBVIOUS
        <3>2. QED
            BY <2>3, <2>4, <3>1
    <2>6. Max2(BackoffMax, s) \in Nat /\ Max2(BackoffMax, s) >= s
        BY <2>4 DEF Max2
    <2>7. QED
        BY <2>1, <2>3, <2>4, <2>5, <2>6 DEF Min2
<1>2. CASE ~(f > 1 /\ BackoffMax > 0)
    BY <1>2, DurationsAssumption DEF PollIntervals
<1>3. QED
    BY <1>1, <1>2

\* So every sleep after a run, and every wait of a restart, is long enough.
LEMMA SleepsLong ==
    ASSUME NEW e \in ErrorKind, NEW a \in Nat, NEW f \in Nat, NEW g, IsMinGap(g),
           NEW s \in NextSleeps(e, a, f)
    PROVE  g <= s
<1>1. g \in Nat /\ g <= PollMin
    BY MinGap
<1>2. CASE Retryable(e, a)
    <2>1. a < Len(RetryDelays)
        BY <1>2 DEF Retryable
    <2>2. a + 1 \in 1 .. Len(RetryDelays)
        BY <2>1, DurationsAssumption, LenProperties
    <2>3. RetryDelays[a + 1] \in Nat /\ g <= RetryDelays[a + 1]
        BY <2>1, <2>2, DurationsAssumption, ElementOfSeq, MinGap
    <2>4. s >= RetryDelays[a + 1] /\ s \in Int
        BY <1>2, <2>3 DEF NextSleeps
    <2>5. QED
        BY <1>1, <2>3, <2>4
<1>3. CASE ~Retryable(e, a)
    <2>1. s \in PollIntervals(f)
        BY <1>3 DEF NextSleeps
    <2>2. s \in Nat /\ PollMin <= s /\ PollMin \in Nat
        BY <2>1, IntervalsType, IntervalsLong, DurationsAssumption
    <2>3. QED
        BY <1>1, <2>2
<1>4. QED
    BY <1>2, <1>3

LEMMA RowFacts ==
    TypeOK => /\ DOMAIN runs = 1 .. Len(runs) /\ Len(runs) \in Nat /\ now \in Nat
              /\ \A i \in DOMAIN runs : runs[i] \in Row /\ runs[i].finish \in Nat
<1> SUFFICES ASSUME TypeOK
             PROVE  /\ DOMAIN runs = 1 .. Len(runs) /\ Len(runs) \in Nat /\ now \in Nat
                    /\ \A i \in DOMAIN runs : runs[i] \in Row /\ runs[i].finish \in Nat
    OBVIOUS
<1>1. DOMAIN runs = 1 .. Len(runs) /\ Len(runs) \in Nat /\ now \in Nat
    BY LenProperties DEF TypeOK
<1>2. \A i \in DOMAIN runs : runs[i] \in Row
    BY <1>1, ElementOfSeq DEF TypeOK
<1>3. QED
    BY <1>1, <1>2 DEF Row

\* A moment as long after the newest row as the shortest delay is far enough from all.
LEMMA SpacedFromLast ==
    ASSUME TypeOK, PastInv, NEW t \in Int,
           runs # <<>> => \A g : IsMinGap(g) => LastRun.finish + g <= t
    PROVE  Spaced(t)
<1> SUFFICES ASSUME NEW i \in DOMAIN runs, NEW g \in Gaps, IsMinGap(g)
             PROVE  runs[i].finish + g <= t
    BY DEF Spaced
<1>1. runs # <<>> /\ Len(runs) \in DOMAIN runs
    BY RowFacts, EmptySeq DEF TypeOK
<1>2. runs[i].finish \in Nat /\ LastRun.finish \in Nat /\ g \in Nat
    BY <1>1, RowFacts, MinGap DEF LastRun
<1>3. runs[i].finish <= LastRun.finish /\ LastRun.finish + g <= t
    BY <1>1 DEF PastInv
<1>4. QED
    BY <1>2, <1>3

LEMMA SpacedLater ==
    ASSUME TypeOK, NEW t \in Int, NEW u \in Int, t <= u, Spaced(t) PROVE Spaced(u)
<1> SUFFICES ASSUME NEW i \in DOMAIN runs, NEW g \in Gaps,
                    runs[i].by = "loop", IsMinGap(g)
             PROVE  runs[i].finish + g <= u
    BY DEF Spaced
<1>1. runs[i].finish \in Nat /\ g \in Nat
    BY RowFacts, MinGap
<1>2. runs[i].finish + g <= t
    BY DEF Spaced
<1>3. QED
    BY <1>1, <1>2

LEMMA PastStep ==
    ASSUME TypeOK, PastInv, [Next]_vars PROVE PastInv'
<1>1. now \in Nat /\ now' \in Nat /\ now <= now'
    <2>1. now' \in {now, now + 1}
        BY DEF Next, Loop, Once, Person, RequestNowApi, Boot, TakeRunNow, WaitOver,
            PassLock, BudgetWait, PassBudget, Launch, FinishRun, SettleRun, OnceStart,
            OnceFinish, OnceSettle, Crash, OnceDies, SetLock, Unlock, RemoveLockFile,
            RemoveHoldFile, RequestNow, Tick, vars
    <2>2. QED
        BY <2>1 DEF TypeOK
<1>2. CASE UNCHANGED runs
    <2>1. \A i \in DOMAIN runs : runs[i].finish \in Nat
        BY RowFacts
    <2>2. QED
        BY <1>1, <1>2, <2>1 DEF PastInv, LastRun
<1>3. ASSUME NEW r \in Row, runs' = Append(runs, r), r.finish = now, now' = now
      PROVE  PastInv'
    <2>1. /\ Len(runs') = Len(runs) + 1 /\ DOMAIN runs' = 1 .. (Len(runs) + 1)
          /\ \A i \in 1 .. Len(runs) : runs'[i] = runs[i]
          /\ runs'[Len(runs) + 1] = r
        BY <1>3, RowFacts, AppendProperties, LenProperties DEF TypeOK
    <2>2. LastRun'.finish = now
        BY <1>3, <2>1 DEF LastRun
    <2>3. \A i \in 1 .. Len(runs) : runs'[i].finish <= now
        BY <2>1, RowFacts DEF PastInv
    <2>4. runs'[Len(runs) + 1].finish <= now
        BY <1>1, <1>3, <2>1
    <2>5. \A i \in DOMAIN runs' : runs'[i].finish <= now
        BY <2>1, <2>3, <2>4, RowFacts
    <2>6. QED
        BY <1>3, <2>2, <2>5 DEF PastInv
<1>4. QED
    BY <1>2, <1>3, RunsStep

LEMMA SpacingStep ==
    ASSUME TypeOK, PastInv, SpacingInv, [Next]_vars PROVE SpacingInv'
<1> SUFFICES ASSUME ~ScrapeOnStartup
             PROVE  /\ loop' = "wait" => Spaced(wakeAt)'
                    /\ loop' \in {"lock", "budget", "launch"} => Spaced(now)'
    BY DEF SpacingInv
<1>1. now \in Nat /\ wakeAt \in Nat
    BY DEF TypeOK
<1>2. ASSUME UNCHANGED runs, NEW t, Spaced(t), t = wakeAt' PROVE Spaced(wakeAt)'
    BY <1>2 DEF Spaced
<1>3. ASSUME UNCHANGED runs, NEW t, Spaced(t), t = now' PROVE Spaced(now)'
    BY <1>3 DEF Spaced
<1>4. CASE Boot
    <2>1. PICK w \in StartupWakes : /\ wakeAt' = IF w > now THEN w ELSE 0
                                    /\ loop' = IF w > now THEN "wait" ELSE "lock"
        BY <1>4 DEF Boot
    <2>2. UNCHANGED <<now, runs>>
        BY <1>4 DEF Boot, table
    <2>3. w \in Nat
        BY StartupWakesType
    <2>4. ASSUME runs # <<>>, NEW g, IsMinGap(g) PROVE LastRun.finish + g <= w
        <3>1. Len(runs) \in DOMAIN runs
            BY <2>4, RowFacts, EmptySeq DEF TypeOK
        <3>2. LastRun.finish \in Nat /\ g \in Nat /\ Streak \in Nat
            BY <2>4, <3>1, RowFacts, MinGap, StreakType DEF LastRun, TypeOK
        <3>3. CASE LastRun.error = "transient" /\ RetryDelays # <<>>
            <4>1. w = LastRun.finish + RetryDelays[1]
                BY <2>4, <3>3 DEF StartupWakes
            <4>2. 0 < Len(RetryDelays) /\ RetryDelays[1] \in Nat
                BY <3>3, DurationsAssumption, LenProperties, EmptySeq, ElementOfSeq
            <4>3. g <= RetryDelays[0 + 1]
                BY <2>4, <4>2, MinGap
            <4>4. QED
                BY <3>2, <4>1, <4>2, <4>3
        <3>4. CASE ~(LastRun.error = "transient" /\ RetryDelays # <<>>)
            <4>1. PICK s \in PollIntervals(Streak) : w = LastRun.finish + s
                BY <2>4, <3>4 DEF StartupWakes
            <4>2. s \in Nat /\ PollMin <= s /\ PollMin \in Nat /\ g <= PollMin
                BY <2>4, <3>2, IntervalsType, IntervalsLong, MinGap, DurationsAssumption
            <4>3. QED
                BY <3>2, <4>1, <4>2
        <3>5. QED
            BY <3>3, <3>4
    <2>5. Spaced(w)
        BY <2>3, <2>4, SpacedFromLast
    <2>6. CASE w > now
        BY <1>2, <2>1, <2>2, <2>5, <2>6
    <2>7. CASE ~(w > now)
        <3>1. Spaced(now)
            BY <1>1, <2>3, <2>5, <2>7, SpacedLater
        <3>2. QED
            BY <1>3, <2>1, <2>2, <2>7, <3>1
    <2>8. QED
        BY <2>6, <2>7
<1>5. CASE TakeRunNow
    <2>1. /\ loop' = "lock" /\ UNCHANGED <<now, runs>>
          /\ runs # <<>> => LastRun.finish + RunNowMin <= now
        BY <1>5 DEF TakeRunNow, RunNowDue, table
    <2>2. ASSUME runs # <<>>, NEW g, IsMinGap(g) PROVE LastRun.finish + g <= now
        <3>1. Len(runs) \in DOMAIN runs
            BY <2>2, RowFacts, EmptySeq DEF TypeOK
        <3>2. LastRun.finish \in Nat /\ g \in Nat /\ g <= RunNowMin /\ RunNowMin \in Nat
            BY <2>2, <3>1, RowFacts, MinGap, DurationsAssumption DEF LastRun
        <3>3. QED
            BY <1>1, <2>1, <2>2, <3>2
    <2>3. Spaced(now)
        BY <1>1, <2>2, SpacedFromLast
    <2>4. QED
        BY <1>3, <2>1, <2>3
<1>6. CASE WaitOver
    <2>1. loop = "wait" /\ loop' = "lock" /\ UNCHANGED <<now, runs>> /\ now >= wakeAt
        BY <1>6 DEF WaitOver, table
    <2>2. Spaced(now)
        BY <1>1, <2>1, SpacedLater DEF SpacingInv
    <2>3. QED
        BY <1>3, <2>1, <2>2
<1>7. CASE PassLock \/ PassBudget
    <2>1. loop \in {"lock", "budget"} /\ loop' \in {"budget", "launch"} /\ UNCHANGED <<now, runs>>
        BY <1>7 DEF PassLock, PassBudget, table
    <2>2. QED
        BY <1>3, <2>1 DEF SpacingInv
<1>8. CASE BudgetWait
    <2>1. loop = "budget" /\ loop' = "wait" /\ UNCHANGED <<now, runs>>
        BY <1>8 DEF BudgetWait, table
    <2>2. PICK i \in Window : wakeAt' = Max2(now, runs[i].start + Day) + 1
        BY <1>8 DEF BudgetWait
    <2>3. i \in DOMAIN runs
        BY DEF Window
    <2>4. runs[i].start \in Nat
        BY <2>3, RowFacts DEF Row
    <2>5. wakeAt' \in Nat /\ now <= wakeAt'
        BY <1>1, <2>2, <2>4, DurationsAssumption DEF Max2
    <2>6. Spaced(wakeAt')
        BY <1>1, <2>1, <2>5, SpacedLater DEF SpacingInv
    <2>7. QED
        BY <1>2, <2>1, <2>6
<1>9. CASE Launch \/ FinishRun \/ Crash
    BY <1>9 DEF Launch, FinishRun, Crash
<1>10. CASE SettleRun
    <2>1. PICK s \in NextSleeps(loopErr, attempt, failures') : wakeAt' = now + s
        BY <1>10 DEF SettleRun
    <2>2. UNCHANGED <<now, runs>> /\ loop' = "wait" /\ failures' \in Nat
        BY <1>10 DEF SettleRun, table, TypeOK
    <2>3. loopErr \in ErrorKind /\ attempt \in Nat
        BY DEF TypeOK
    <2>4. s \in Nat
        BY <2>2, <2>3, SleepsType
    <2>5. ASSUME runs # <<>>, NEW g, IsMinGap(g) PROVE LastRun.finish + g <= now + s
        <3>1. Len(runs) \in DOMAIN runs
            BY <2>5, RowFacts, EmptySeq DEF TypeOK
        <3>2. LastRun.finish \in Nat /\ LastRun.finish <= now
            BY <3>1, RowFacts DEF LastRun, PastInv
        <3>3. g \in Nat /\ g <= s
            BY <2>2, <2>3, <2>5, MinGap, SleepsLong
        <3>4. QED
            BY <1>1, <2>4, <3>2, <3>3
    <2>6. now + s \in Int
        BY <1>1, <2>4
    <2>7. Spaced(now + s)
        BY <2>5, <2>6, SpacedFromLast
    <2>8. QED
        BY <1>2, <2>1, <2>2, <2>7
<1>11. CASE OnceFinish
    <2>1. UNCHANGED <<now, loop, wakeAt>>
        BY <1>11 DEF OnceFinish, memory
    <2>2. PICK r \in Row : runs' = Append(runs, r) /\ r.by = "once"
        <3>1. PICK e \in Outcomes :
                  runs' = Append(runs, [start |-> onceBegan, finish |-> now,
                                        error |-> e, by |-> "once"])
            BY <1>11 DEF OnceFinish
        <3>2. [start |-> onceBegan, finish |-> now, error |-> e, by |-> "once"] \in Row
            BY FlagsAssumption DEF Row, TypeOK
        <3>3. QED
            BY <3>1, <3>2
    <2>3. /\ DOMAIN runs' = 1 .. (Len(runs) + 1) /\ runs'[Len(runs) + 1].by = "once"
          /\ \A i \in 1 .. Len(runs) : runs'[i] = runs[i]
        BY <2>2, RowFacts, AppendProperties, LenProperties DEF TypeOK
    <2>4. \A i \in DOMAIN runs' :
              runs'[i].by = "loop" => i \in DOMAIN runs /\ runs'[i] = runs[i]
        BY <2>3, RowFacts
    <2>5. \A t : Spaced(t) =>
              \A i \in DOMAIN runs' : \A g \in Gaps :
                  runs'[i].by = "loop" /\ IsMinGap(g) => runs'[i].finish + g <= t
        BY <2>4 DEF Spaced
    <2>6. QED
        BY <2>1, <2>5 DEF SpacingInv, Spaced
<1>12. CASE Aside
    <2>1. UNCHANGED <<runs, loop, wakeAt>>
        BY <1>12, AsideKeeps
    <2>2. now' \in Nat /\ now <= now'
        <3>1. now' \in {now, now + 1}
            BY <1>12 DEF Aside, OnceStart, OnceSettle, OnceDies, Person, SetLock, Unlock,
                RemoveLockFile, RemoveHoldFile, RequestNow, RequestNowApi, Tick, vars
        <3>2. QED
            BY <1>1, <3>1
    <2>3. loop = "wait" => Spaced(wakeAt)'
        BY <1>2, <2>1 DEF SpacingInv
    <2>4. loop \in {"lock", "budget", "launch"} => Spaced(now)'
        <3>1. loop \in {"lock", "budget", "launch"} => Spaced(now')
            BY <1>1, <2>2, SpacedLater DEF SpacingInv
        <3>2. QED
            BY <1>3, <2>1, <3>1
    <2>5. QED
        BY <2>1, <2>3, <2>4
<1>13. QED
    BY <1>4, <1>5, <1>6, <1>7, <1>8, <1>9, <1>10, <1>11, <1>12, NextSplit DEF Steps

\* For every choice of delays, backoff and budget: whatever wakes the loop, it starts no
\* run sooner after one of its own than the shortest of the configured delays.
THEOREM SpacingHolds == Spec => []LaunchSpacing
<1>1. Init => PastInv /\ SpacingInv
    BY DEF Init, PastInv, SpacingInv
<1>2. TypeOK /\ PastInv /\ SpacingInv /\ [Next]_vars => PastInv' /\ SpacingInv'
    BY PastStep, SpacingStep
<1>3. SpacingInv => LaunchSpacing
    BY DEF SpacingInv, Spaced, LaunchSpacing
<1>4. QED
    BY <1>1, <1>2, <1>3, TypeCorrect, PTL DEF Spec

------------------------------------------------------------------------------
(* The loop implements the latch.                                          *)

LEMMA LatchStep ==
    ASSUME MaxOnce = 0, TypeOK, HoldInv, [Next]_vars
    PROVE  [Latch!Next]_(Latch!vars)
<1> USE DEF table, control, memory, manual, deaths
<1> DEFINE running == loop \in {"run", "recorded"}
<1>1. ASSUME UNCHANGED hold, running' = running PROVE UNCHANGED Latch!vars
    BY <1>1 DEF Latch!vars
<1>2. CASE Boot \/ TakeRunNow \/ WaitOver \/ PassLock \/ BudgetWait \/ PassBudget
    <2>1. UNCHANGED hold /\ ~running /\ ~running'
        BY <1>2 DEF Boot, TakeRunNow, WaitOver, PassLock, BudgetWait, PassBudget
    <2>2. QED
        BY <1>1, <2>1
<1>3. CASE Launch
    <2>1. ~hold /\ UNCHANGED hold /\ ~running /\ running'
        BY <1>3 DEF Launch, HoldInv
    <2>2. QED
        BY <2>1 DEF Latch!Next, Latch!Start
<1>4. CASE FinishRun
    <2>1. UNCHANGED hold /\ running /\ running'
        BY <1>4 DEF FinishRun
    <2>2. QED
        BY <1>1, <2>1
<1>5. CASE SettleRun
    <2>1. running /\ ~running' /\ hold' \in {hold, TRUE}
        BY <1>5 DEF SettleRun, TypeOK
    <2>2. QED
        <3>1. running' = FALSE
            BY <2>1
        <3>2. Latch!End
            BY <2>1, <3>1, Zenon DEF Latch!End
        <3>3. QED
            BY <3>2, Zenon DEF Latch!Next
<1>6. CASE OnceStart \/ OnceFinish \/ OnceSettle \/ OnceDies
    BY <1>6, DurationsAssumption
       DEF OnceStart, OnceFinish, OnceSettle, OnceDies, HoldInv, TypeOK
<1>7. CASE Crash
    <2>1. UNCHANGED hold /\ ~running'
        BY <1>7 DEF Crash
    <2>2. CASE running
        BY <2>1, <2>2 DEF Latch!Next, Latch!Die
    <2>3. CASE ~running
        BY <1>1, <2>1, <2>3
    <2>4. QED
        BY <2>2, <2>3
<1>8. CASE SetLock \/ RemoveLockFile \/ RequestNow \/ Tick
    <2>1. UNCHANGED <<hold, loop>>
        BY <1>8 DEF SetLock, RemoveLockFile, RequestNow, Tick
    <2>2. QED
        BY <1>1, <2>1
<1>9. CASE Unlock \/ RemoveHoldFile
    <2>1. hold' = FALSE /\ UNCHANGED loop
        BY <1>9 DEF Unlock, RemoveHoldFile
    <2>2. CASE hold
        BY <2>1, <2>2 DEF Latch!Next, Latch!Release
    <2>3. CASE ~hold
        BY <1>1, <2>1, <2>3 DEF TypeOK
    <2>4. QED
        BY <2>2, <2>3
<1>10. CASE UNCHANGED vars
    BY <1>1, <1>10 DEF vars
<1>11. QED
    BY <1>2, <1>3, <1>4, <1>5, <1>6, <1>7, <1>8, <1>9, <1>10
       DEF Next, Loop, Once, Person, RequestNowApi

\* Where `once` is not used, every behaviour of the loop, the files, the people and
\* the crashes is a behaviour of the abstract latch: runs one at a time, none while
\* latched, released by a person only.
THEOREM LatchImplemented == ASSUME MaxOnce = 0 PROVE Spec => ImplementsLatch
<1>1. Init => HoldInv /\ Latch!Init
    BY DEF Init, HoldInv, Latch!Init
<1>2. TypeOK /\ HoldInv /\ [Next]_vars => HoldInv' /\ [Latch!Next]_(Latch!vars)
    BY HoldStep, LatchStep
<1>3. QED
    BY <1>1, <1>2, TypeCorrect, PTL DEF Spec, ImplementsLatch, Latch!Spec
=============================================================================
