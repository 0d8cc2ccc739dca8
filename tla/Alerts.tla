------------------------------- MODULE Alerts -------------------------------
(***************************************************************************)
(* Failure alerts: what update() (app/instadroid/alerts.py) makes of the   *)
(* runs table and of the conditions a person or time changes, the alerts   *)
(* table it keeps in step, and the announcements it sends while its        *)
(* transaction is open.  The poll loop and `scraper.py once` each call it  *)
(* after a run they recorded, over connections of their own: the first     *)
(* INSERT or DELETE takes SQLite's write lock and commit() gives it back.  *)
(***************************************************************************)
EXTENDS Integers, Sequences, FiniteSets

CONSTANTS
    Procs,       \* processes that record runs: "loop", and "once" if used
    EnvKinds,    \* conditions that are not about the latest runs' errors
    FailedRuns,  \* ALERT_FAILED_RUNS, 0 = no such alert
    Outcomes,    \* what runs end with: "none", "restricted", "login", "other"
    Lossy,       \* whether a webhook may fail to be delivered
    MaxRuns,     \* bound: runs recorded
    MaxChanges,  \* bound: changes of the other conditions
    MaxCrashes   \* bound: processes that die

Kinds == {"restricted", "login", "failing"} \cup EnvKinds

ASSUME AlertsAssumption ==
    /\ Procs \subseteq {"loop", "once"} /\ FailedRuns \in Nat
    /\ EnvKinds \subseteq {"no_posts", "following", "newer_build", "rename"}
    /\ Outcomes \subseteq {"none", "restricted", "login", "other"}
    /\ Lossy \in BOOLEAN /\ {MaxRuns, MaxChanges, MaxCrashes} \subseteq Nat

\* What a kind's message says: the latest error, or that the other condition holds.
Messages == Outcomes \cup {"some"}
IsTable(table) ==
    /\ DOMAIN table \subseteq Kinds
    /\ \A k \in DOMAIN table : table[k] \in [message : Messages, raised : Nat]

VARIABLES
    errors,   \* the error column of the newest runs, oldest first
    env,      \* EnvKinds -> the message that holds, or "none"
    alerts,   \* the alerts table, committed: kind -> message and raised_at
    writer,   \* who holds the write lock, or "nobody"
    draft,    \* the alerts table as the writer's open transaction has it
    pc,       \* where each process is in update()
    now,      \* each update()'s clock
    todo,     \* what update() has left to do: kind -> verb and message
    runs, changes, crashes,
    \* What people know and whether the table is due, read by no guard:
    heard,    \* the last announcement of each kind: "raised", "resolved"
    torn,     \* kinds announced, and then not committed or not delivered
    current   \* the last update() read what holds, and none has failed since

world == <<errors, env, changes>>
known == <<heard, torn>>
database == <<alerts, writer, draft>>
alertVars == <<errors, env, alerts, writer, draft, pc, now, todo, runs, changes, crashes,
               heard, torn, current>>

------------------------------------------------------------------------------
(* conditions(): which alerts hold, from the newest runs and the rest.      *)

Latest == IF errors = <<>> THEN "none" ELSE errors[Len(errors)]

\* The run alerts: a restriction takes the login alert's place.
RunConditions ==
    (IF Latest \in {"restricted", "login"} THEN {Latest} ELSE {})
    \cup (IF FailedRuns > 0 /\ Len(errors) >= FailedRuns
             /\ \A i \in DOMAIN errors : errors[i] # "none"
          THEN {"failing"} ELSE {})

Conditions ==
    [k \in RunConditions \cup {e \in EnvKinds : env[e] # "none"} |->
        IF k \in EnvKinds THEN env[k] ELSE Latest]

\* The table as process p reads it: its open transaction's, or the committed one.
Seen(p) == IF writer = p THEN draft ELSE alerts

\* Mutant: an open alert that no longer holds stays.
ToDoWithoutResolves(holds, open) ==
    [k \in {j \in DOMAIN holds : j \notin DOMAIN open \/ open[j].message # holds[j]} |->
        [verb |-> IF k \in DOMAIN open THEN "reword" ELSE "raise", says |-> holds[k]]]

\* What brings the open alerts in line with the conditions that hold.
ToDo(holds, open) ==
    LET raise == DOMAIN holds \ DOMAIN open
        resolve == DOMAIN open \ DOMAIN holds
        reword == {k \in DOMAIN holds \cap DOMAIN open : open[k].message # holds[k]}
    IN [k \in raise \cup reword \cup resolve |->
            CASE k \in raise   -> [verb |-> "raise", says |-> holds[k]]
              [] k \in reword  -> [verb |-> "reword", says |-> holds[k]]
              [] k \in resolve -> [verb |-> "resolve", says |-> "none"]]

------------------------------------------------------------------------------
AlertsInit ==
    /\ errors = <<>> /\ env = [k \in EnvKinds |-> "none"]
    /\ alerts = <<>> /\ writer = "nobody" /\ draft = <<>>
    /\ pc = [p \in Procs |-> "idle"] /\ now = [p \in Procs |-> 0]
    /\ todo = [p \in Procs |-> <<>>]
    /\ runs = 0 /\ changes = 0 /\ crashes = 0
    /\ heard = [k \in Kinds |-> "resolved"] /\ torn = {} /\ current = FALSE

\* A process leaves update().
Return(p) ==
    /\ pc' = [pc EXCEPT ![p] = "idle"] /\ now' = [now EXCEPT ![p] = 0]
    /\ todo' = [todo EXCEPT ![p] = <<>>]

\* A commit: everything the process's open transaction holds, or nothing.
Commit(p) ==
    IF writer = p THEN alerts' = draft /\ writer' = "nobody" /\ draft' = <<>>
    ELSE UNCHANGED database

\* A connection that ends, or a process that dies, with a transaction open.
Rollback(p) ==
    /\ UNCHANGED alerts
    /\ IF writer = p
       THEN /\ writer' = "nobody" /\ draft' = <<>>
            /\ torn' = torn \cup {k \in Kinds : \/ k \in DOMAIN draft \ DOMAIN alerts
                                                \/ k \in DOMAIN alerts \ DOMAIN draft
                                                \/ /\ k \in DOMAIN draft \cap DOMAIN alerts
                                                   /\ draft[k].raised # alerts[k].raised}
       ELSE UNCHANGED <<writer, draft, torn>>

\* run_recorded: the run's row is committed, and with it whatever an update() that
\* failed left in the connection's transaction.
Record(p) ==
    /\ pc[p] = "idle" /\ runs < MaxRuns /\ writer \in {p, "nobody"}
    /\ \E e \in Outcomes :
        errors' = IF Len(errors) < FailedRuns \/ errors = <<>> THEN Append(errors, e)
                  ELSE Append(Tail(errors), e)
    /\ runs' = runs + 1 /\ pc' = [pc EXCEPT ![p] = "compare"]
    /\ Commit(p) /\ current' = FALSE
    /\ UNCHANGED <<env, changes, now, todo, crashes, known>>

\* A run whose row could not be written while another process held the lock.
Lose(p) ==
    /\ pc[p] = "idle" /\ runs < MaxRuns /\ writer \notin {p, "nobody"}
    /\ runs' = runs + 1
    /\ UNCHANGED <<world, database, pc, now, todo, crashes, known, current>>

\* update(): the conditions and the open alerts, read before the first write.
Compare(p) ==
    /\ pc[p] = "compare"
    /\ todo' = [todo EXCEPT ![p] = ToDo(Conditions, Seen(p))]
    /\ now' = [now EXCEPT ![p] = runs]
    /\ pc' = [pc EXCEPT ![p] = "write"]
    /\ current' = (\A q \in Procs \ {p} : pc[q] = "idle" /\ writer # q)
    /\ UNCHANGED <<world, database, runs, crashes, known>>

\* The conditions that hold are gone through before the alerts that are over.
Due(p) ==
    LET holding == {k \in DOMAIN todo[p] : todo[p][k].verb # "resolve"}
    IN IF holding # {} THEN holding ELSE DOMAIN todo[p]

Done(p, k) == todo' = [todo EXCEPT ![p] = [j \in DOMAIN todo[p] \ {k} |-> todo[p][j]]]

\* Mutant: a transaction that takes no lock.
WriteUnlocked(p, table) == writer' = p /\ draft' = table

\* A statement that changes the table: the first of a transaction takes the lock.
Write(p, table) ==
    /\ writer \in {p, "nobody"}
    /\ writer' = p /\ draft' = table

\* notify(): a webhook that fails is logged, and not tried again.
Notify(k, what) ==
    \E delivered \in {TRUE, ~Lossy} :
        /\ heard' = IF delivered THEN [heard EXCEPT ![k] = what] ELSE heard
        /\ torn' = IF delivered THEN torn \ {k} ELSE torn \cup {k}

\* INSERT: the row is new, and its announcement goes out before the commit.
Raise(p, k) ==
    /\ pc[p] = "write" /\ k \in Due(p) /\ todo[p][k].verb = "raise" /\ k \notin DOMAIN Seen(p)
    /\ Write(p, [j \in DOMAIN Seen(p) \cup {k} |->
                    IF j = k THEN [message |-> todo[p][k].says, raised |-> now[p]]
                    ELSE Seen(p)[j]])
    /\ Done(p, k) /\ Notify(k, "raised")
    /\ UNCHANGED <<world, alerts, pc, now, runs, crashes, current>>

\* UPDATE: an open alert's message changes, and nobody is told.  A row another
\* process has deleted meanwhile stays deleted.
Reword(p, k) ==
    /\ pc[p] = "write" /\ k \in Due(p) /\ todo[p][k].verb = "reword"
    /\ Write(p, [j \in DOMAIN Seen(p) |->
                    IF j = k THEN [Seen(p)[j] EXCEPT !.message = todo[p][k].says] ELSE Seen(p)[j]])
    /\ Done(p, k)
    /\ UNCHANGED <<world, alerts, pc, now, runs, crashes, known, current>>

\* Mutant: the row is deleted, and nobody is told.
ResolveSilently(p, k) ==
    /\ pc[p] = "write" /\ k \in Due(p) /\ todo[p][k].verb = "resolve"
    /\ Write(p, [j \in DOMAIN Seen(p) \ {k} |-> Seen(p)[j]])
    /\ Done(p, k)
    /\ UNCHANGED <<world, alerts, pc, now, runs, crashes, known, current>>

\* DELETE: an alert that is over, announced as resolved.
Resolve(p, k) ==
    /\ pc[p] = "write" /\ k \in Due(p) /\ todo[p][k].verb = "resolve"
    /\ Write(p, [j \in DOMAIN Seen(p) \ {k} |-> Seen(p)[j]])
    /\ Done(p, k) /\ Notify(k, "resolved")
    /\ UNCHANGED <<world, alerts, pc, now, runs, crashes, current>>

\* sqlite3.Error, swallowed by run_recorded: the lock was another's for too long, or
\* another process has inserted the row (that INSERT has begun a transaction).  `once`
\* closes its connection, the loop keeps its own with the transaction open.
Fail(p) ==
    /\ pc[p] = "write" /\ todo[p] # <<>>
    /\ \/ writer \notin {p, "nobody"} /\ UNCHANGED <<database, torn>>
       \/ /\ writer \in {p, "nobody"}
          /\ \E k \in Due(p) : todo[p][k].verb = "raise" /\ k \in DOMAIN Seen(p)
          /\ IF p = "once" THEN Rollback(p)
             ELSE writer' = p /\ draft' = Seen(p) /\ UNCHANGED <<alerts, torn>>
    /\ Return(p) /\ current' = FALSE
    /\ UNCHANGED <<world, runs, crashes, heard>>

Finish(p) ==
    /\ pc[p] = "write" /\ todo[p] = <<>>
    /\ Commit(p)
    /\ Return(p)
    /\ UNCHANGED <<world, runs, crashes, known, current>>

\* A person or time changes a condition: a list held back or accepted, a rename
\* seen, applied or dismissed, a build validated, a post stored after a gap.
Change ==
    /\ changes < MaxChanges /\ changes' = changes + 1
    /\ \E k \in EnvKinds, m \in {"none", "some"} :
        /\ env[k] # m /\ (writer = "nobody" \/ k = "no_posts")
        /\ env' = [env EXCEPT ![k] = m]
    /\ current' = FALSE
    /\ UNCHANGED <<errors, database, pc, now, todo, runs, crashes, known>>

\* A process dies, and SQLite rolls its transaction back.
Die(p) ==
    /\ crashes < MaxCrashes /\ crashes' = crashes + 1
    /\ pc[p] # "idle" \/ writer = p
    /\ Rollback(p)
    /\ Return(p) /\ current' = FALSE
    /\ UNCHANGED <<world, runs, heard>>

Update(p) == \/ Compare(p) \/ Fail(p) \/ Finish(p)
             \/ \E k \in Kinds : Raise(p, k) \/ Reword(p, k) \/ Resolve(p, k)

AlertsNext == Change \/ \E p \in Procs : Record(p) \/ Lose(p) \/ Update(p) \/ Die(p)

AlertsSpec == AlertsInit /\ [][AlertsNext]_alertVars

------------------------------------------------------------------------------
AlertsTypeOK ==
    /\ errors \in Seq(Outcomes) /\ env \in [EnvKinds -> {"none", "some"}]
    /\ IsTable(alerts) /\ IsTable(draft) /\ writer \in Procs \cup {"nobody"}
    /\ pc \in [Procs -> {"idle", "compare", "write"}] /\ now \in [Procs -> Nat]
    /\ heard \in [Kinds -> {"raised", "resolved"}] /\ torn \subseteq Kinds
    /\ current \in BOOLEAN

\* People are in step with the table: while no transaction is open, an alert is open
\* exactly when the last thing they heard of it was that it is raised, unless its
\* webhook failed or a crash undid the row it announced.  Two processes that run
\* update() at once neither lose an announcement nor make one up.
HeardMatchesTable ==
    writer = "nobody" =>
        \A k \in Kinds \ torn : (k \in DOMAIN alerts) <=> (heard[k] = "raised")

\* Once an update() that read what holds has committed, with no other process in one
\* and none failing since, the table has exactly the alerts that hold and says of
\* each what is true now: feeds and /status show no stale alert.
TableMatchesConditions ==
    (current /\ writer = "nobody" /\ \A p \in Procs : pc[p] = "idle") =>
        [k \in DOMAIN alerts |-> alerts[k].message] = Conditions

\* "Each one is announced once when it's raised" (docs/OPERATIONS.md): nothing is
\* announced as raised again while people take it to be, whatever update() failed or
\* overlapped in between; only a lost or an undone announcement is made again.
AnnouncedOnce ==
    [][\A p \in Procs, k \in Kinds : Raise(p, k) => heard[k] = "resolved" \/ k \in torn]_alertVars
=============================================================================
