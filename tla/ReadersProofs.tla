--------------------------- MODULE ReadersProofs ----------------------------
(***************************************************************************)
(* That people and the alerts table agree, that an alert is announced once *)
(* and that the table has the alerts that hold: for all processes, runs,   *)
(* changes and crashes, and with webhooks that fail; alone, and beside the *)
(* scraper's other writes and a reader.  And that a 304 hides nothing: for *)
(* all posts, stories, accounts and feeds, and any number of commits       *)
(* between the statements of a request.                                    *)
(***************************************************************************)
EXTENDS Readers, FiniteSetTheorems, SequenceTheorems, TLAPS

\* The table as it is about to be: the open transaction's, if there is one.
Coming == IF writer = "nobody" THEN alerts ELSE draft

\* HeardMatchesTable within a transaction too: what was announced is in it, for
\* update() announces between the write and the commit.
HeardInv ==
    /\ writer \in Procs \cup {"nobody"}
    /\ heard \in [Kinds -> {"raised", "resolved"}]
    /\ \A k \in Kinds \ torn : k \in DOMAIN Coming <=> heard[k] = "raised"

\* At the start no alert is open and none was announced.
LEMMA HeardInit == AlertsInit => HeardInv
BY DEF AlertsInit, HeardInv, Coming

\* A process that may write sees the table as it is about to be.
LEMMA SeenIsComing ==
    ASSUME AlertsAssumption, NEW p \in Procs, writer \in {p, "nobody"}
    PROVE  Seen(p) = Coming
BY DEF AlertsAssumption, Seen, Coming

\* A commit makes the table what was coming.
LEMMA CommitKeeps ==
    ASSUME AlertsAssumption, HeardInv, NEW p \in Procs, Commit(p), UNCHANGED known
    PROVE  HeardInv'
BY DEF AlertsAssumption, HeardInv, Coming, Commit, database, known

\* A rollback takes back what it had announced, and that is what torn names.
LEMMA RollbackKeeps ==
    ASSUME AlertsAssumption, HeardInv, NEW p \in Procs, Rollback(p), UNCHANGED heard
    PROVE  HeardInv'
<1>1. CASE writer = p
  <2>1. writer' = "nobody" /\ UNCHANGED alerts /\ p # "nobody"
      BY <1>1 DEF Rollback, AlertsAssumption
  <2>2. Coming = draft /\ Coming' = alerts
      BY <1>1, <2>1 DEF Coming
  <2>3. \A k \in Kinds \ torn' : k \notin torn /\ (k \in DOMAIN draft <=> k \in DOMAIN alerts)
      BY <1>1 DEF Rollback
  <2> QED
      BY <2>1, <2>2, <2>3 DEF HeardInv
<1>2. CASE writer # p
    BY <1>2 DEF Rollback, HeardInv, Coming
<1> QED
    BY <1>1, <1>2

\* The announcement and the row go together.
LEMMA NotifyKeeps ==
    ASSUME AlertsAssumption, HeardInv, NEW p \in Procs, NEW k \in Kinds, NEW what,
           what \in {"raised", "resolved"}, Notify(k, what), writer' = p,
           \A j \in Kinds \ {k} : j \in DOMAIN draft' <=> j \in DOMAIN Coming,
           k \in DOMAIN draft' <=> what = "raised"
    PROVE  HeardInv'
<1>1. Coming' = draft'
    BY DEF Coming, AlertsAssumption
<1>2. PICK delivered \in {TRUE, ~Lossy} :
          /\ heard' = IF delivered THEN [heard EXCEPT ![k] = what] ELSE heard
          /\ torn' = IF delivered THEN torn \ {k} ELSE torn \cup {k}
    BY DEF Notify
<1>3. CASE delivered
    BY <1>1, <1>2, <1>3 DEF HeardInv
<1>4. CASE ~delivered
    BY <1>1, <1>2, <1>4 DEF HeardInv
<1> QED
    BY <1>3, <1>4

\* Every step of the processes and of people.
LEMMA HeardStep == AlertsAssumption /\ HeardInv /\ [AlertsNext]_alertVars => HeardInv'
<1> SUFFICES ASSUME AlertsAssumption, HeardInv, [AlertsNext]_alertVars PROVE HeardInv'
    OBVIOUS
<1>1. CASE UNCHANGED <<database, known>>
    BY <1>1 DEF database, known, HeardInv, Coming
<1>2. CASE Change \/ UNCHANGED alertVars
    BY <1>1, <1>2 DEF Change, alertVars, database, known
<1>3. ASSUME NEW p \in Procs, Record(p) \/ Finish(p) PROVE HeardInv'
    BY <1>3, CommitKeeps DEF Record, Finish
<1>4. ASSUME NEW p \in Procs, Lose(p) \/ Compare(p) PROVE HeardInv'
    BY <1>1, <1>4 DEF Lose, Compare
<1>5. ASSUME NEW p \in Procs, Die(p) PROVE HeardInv'
    BY <1>5, RollbackKeeps DEF Die
<1>6. ASSUME NEW p \in Procs, NEW k \in Kinds, Raise(p, k) PROVE HeardInv'
  <2>1. writer \in {p, "nobody"} /\ writer' = p /\ Notify(k, "raised")
      BY <1>6 DEF Raise, Write
  <2>2. Seen(p) = Coming
      BY <2>1, SeenIsComing
  <2>3. DOMAIN draft' = DOMAIN Coming \cup {k}
      BY <1>6, <2>2 DEF Raise, Write
  <2> QED
      BY <2>1, <2>3, NotifyKeeps
<1>7. ASSUME NEW p \in Procs, NEW k \in Kinds, Reword(p, k) PROVE HeardInv'
  <2>1. writer \in {p, "nobody"} /\ writer' = p /\ UNCHANGED known
      BY <1>7 DEF Reword, Write
  <2>2. Seen(p) = Coming
      BY <2>1, SeenIsComing
  <2>3. DOMAIN draft' = DOMAIN Coming
      BY <1>7, <2>2 DEF Reword, Write
  <2>4. Coming' = draft'
      BY <2>1 DEF Coming, AlertsAssumption
  <2> QED
      BY <2>1, <2>3, <2>4 DEF HeardInv, known
<1>8. ASSUME NEW p \in Procs, NEW k \in Kinds, Resolve(p, k) PROVE HeardInv'
  <2>1. writer \in {p, "nobody"} /\ writer' = p /\ Notify(k, "resolved")
      BY <1>8 DEF Resolve, Write
  <2>2. Seen(p) = Coming
      BY <2>1, SeenIsComing
  <2>3. DOMAIN draft' = DOMAIN Coming \ {k}
      BY <1>8, <2>2 DEF Resolve, Write
  <2> QED
      BY <2>1, <2>3, NotifyKeeps
<1>9. ASSUME NEW p \in Procs, Fail(p) PROVE HeardInv'
  <2>1. CASE UNCHANGED <<database, torn>>
      BY <1>1, <1>9, <2>1 DEF Fail, known
  <2>2. CASE Rollback(p)
      BY <1>9, <2>2, RollbackKeeps DEF Fail
  <2>3. CASE writer \in {p, "nobody"} /\ writer' = p /\ draft' = Seen(p) /\ UNCHANGED torn
    <3>1. Seen(p) = Coming /\ UNCHANGED heard
        BY <1>9, <2>3, SeenIsComing DEF Fail
    <3>2. Coming' = Coming
        BY <2>3, <3>1 DEF Coming, AlertsAssumption
    <3> QED
        BY <2>3, <3>1, <3>2 DEF HeardInv
  <2> QED
      BY <1>9, <2>1, <2>2, <2>3 DEF Fail
<1> QED
    BY <1>2, <1>3, <1>4, <1>5, <1>6, <1>7, <1>8, <1>9 DEF AlertsNext, Update

\* A raise is news: to a process that may write, the row is not there, so people take
\* the alert for resolved, or torn.
LEMMA RaiseIsNews ==
    ASSUME AlertsAssumption, HeardInv, NEW p \in Procs, NEW k \in Kinds, Raise(p, k)
    PROVE  heard[k] = "resolved" \/ k \in torn
<1>1. k \notin DOMAIN Coming
    BY SeenIsComing DEF Raise, Write
<1> QED
    BY <1>1 DEF HeardInv

\* The feed server only reads: with the scraper's other writes and a reader the alerts
\* are still those of Alerts.
LEMMA AlertsAlone == Spec => AlertsSpec
<1>1. Init => AlertsInit
    BY DEF Init
<1>2. [Next]_vars => [AlertsNext]_alertVars
  <2> SUFFICES ASSUME [Next]_vars PROVE AlertsNext \/ UNCHANGED alertVars
      OBVIOUS
  <2>1. CASE Reader
      BY <2>1 DEF Reader, Ask, Read, ReadCounts, ReadFaces, ReadSlides, NotModified, ReadRows,
                  ReadExtra, ReadAvatars, Step
  <2>2. CASE Scraper
      BY <2>2 DEF Scraper, StorePost, MergePost, PrunePost, RefreshFace, RenameAccount, StoreStory,
                  DropStory, Commits
  <2>3. CASE UNCHANGED vars
      BY <2>3 DEF vars
  <2> QED
      BY <2>1, <2>2, <2>3 DEF Next
<1> QED
    BY <1>1, <1>2, PTL DEF Spec, AlertsSpec

\* While no transaction is open, an alert is open exactly when people last heard that it
\* is raised, unless its webhook failed or a crash undid its row (alerts.py: update).
THEOREM PeopleKnow == Spec => []HeardMatchesTable
<1>1. HeardInv => HeardMatchesTable
    BY DEF HeardInv, HeardMatchesTable, Coming
<1> QED
    BY <1>1, AlertsAlone, HeardInit, HeardStep, AlertsAssumption, PTL DEF AlertsSpec

\* Nothing is announced as raised while people take it to be raised (alerts.py: update).
THEOREM RaisedOnce == Spec => AnnouncedOnce
<1>1. AlertsAssumption /\ HeardInv /\ [AlertsNext]_alertVars =>
        [\A p \in Procs, k \in Kinds : Raise(p, k) => heard[k] = "resolved" \/ k \in torn]_alertVars
    BY RaiseIsNews
<1> QED
    BY <1>1, AlertsAlone, HeardInit, HeardStep, AlertsAssumption, PTL DEF AlertsSpec, AnnouncedOnce

------------------------------------------------------------------------------
(* An update() that read what holds brings the table in line with it.       *)

AlertsShape ==
    /\ writer \in Procs \cup {"nobody"} /\ DOMAIN pc = Procs /\ DOMAIN todo = Procs

\* From its comparison on, the update() that read what holds is alone, and what it has
\* left to do is what the table it sees still lacks.
InLineInv ==
    current =>
        /\ \A p \in Procs : pc[p] \in {"idle", "write"}
        /\ \A p, q \in Procs : pc[p] = "write" /\ pc[q] = "write" => p = q
        /\ \A p \in Procs : writer = p => pc[p] = "write"
        /\ \A p \in Procs : pc[p] = "write" => todo[p] = ToDo(Conditions, Coming)
        /\ (\A p \in Procs : pc[p] = "idle") => ToDo(Conditions, Coming) = <<>>

MatchInv == AlertsShape /\ InLineInv

\* A row has a message.
Worded ==
    /\ \A k \in DOMAIN alerts : "message" \in DOMAIN alerts[k]
    /\ \A k \in DOMAIN draft : "message" \in DOMAIN draft[k]

LEMMA WordedInit == AlertsInit => Worded
BY DEF AlertsInit, Worded

LEMMA WordedStep == Worded /\ [AlertsNext]_alertVars => Worded'
<1> SUFFICES ASSUME Worded, [AlertsNext]_alertVars PROVE Worded'
    OBVIOUS
<1> USE DEF Worded, database
<1>1. CASE Change \/ UNCHANGED alertVars
    BY <1>1 DEF Change, alertVars
<1>2. ASSUME NEW p \in Procs, Record(p) \/ Finish(p) PROVE Worded'
    BY <1>2 DEF Record, Finish, Commit
<1>3. ASSUME NEW p \in Procs, Lose(p) \/ Compare(p) PROVE Worded'
    BY <1>3 DEF Lose, Compare
<1>4. ASSUME NEW p \in Procs, Fail(p) \/ Die(p) PROVE Worded'
    BY <1>4 DEF Fail, Die, Rollback, Seen
<1>5. ASSUME NEW p \in Procs, NEW k \in Kinds, Raise(p, k) \/ Reword(p, k) \/ Resolve(p, k)
      PROVE  Worded'
  <2>1. \A j \in DOMAIN Seen(p) : "message" \in DOMAIN Seen(p)[j]
      BY DEF Seen
  <2>2. UNCHANGED alerts
      BY <1>5 DEF Raise, Reword, Resolve
  <2>3. CASE Raise(p, k)
      BY <2>1, <2>2, <2>3 DEF Raise, Write
  <2>4. CASE Reword(p, k)
      BY <2>1, <2>2, <2>4 DEF Reword, Write
  <2>5. CASE Resolve(p, k)
      BY <2>1, <2>2, <2>5 DEF Resolve, Write
  <2> QED
      BY <1>5, <2>3, <2>4, <2>5
<1> QED
    BY <1>1, <1>2, <1>3, <1>4, <1>5 DEF AlertsNext, Update

LEMMA MatchInit == AlertsInit => MatchInv
BY DEF AlertsInit, MatchInv, AlertsShape, InLineInv

\* Where nothing is left to do, the table has exactly the alerts that hold.
LEMMA NothingToDo ==
    ASSUME NEW holds, NEW open, ToDo(holds, open) = <<>>
    PROVE  DOMAIN open = DOMAIN holds /\ \A k \in DOMAIN open : open[k].message = holds[k]
<1>1. DOMAIN ToDo(holds, open) = {}
    OBVIOUS
<1>2. DOMAIN ToDo(holds, open) =
          (DOMAIN holds \ DOMAIN open)
          \cup {k \in DOMAIN holds \cap DOMAIN open : open[k].message # holds[k]}
          \cup (DOMAIN open \ DOMAIN holds)
    BY DEF ToDo
<1> QED
    BY <1>1, <1>2

\* Two tables that differ in one kind at most, and a kind that is in line.
SameBut(table, open, k) ==
    \A j : j # k => (j \in DOMAIN table <=> j \in DOMAIN open)
                    /\ (j \in DOMAIN open => table[j] = open[j])
InLine(table, holds, k) ==
    /\ k \in DOMAIN table <=> k \in DOMAIN holds
    /\ k \in DOMAIN table => table[k].message = holds[k]

\* One list is the other without a kind.
Without(after, before, k) ==
    /\ DOMAIN after = DOMAIN before \ {k}
    /\ \A j \in DOMAIN after : after[j] = before[j]

\* Once a kind is in line it is left to do no more, and the others are as before.
LEMMA OneDone ==
    ASSUME NEW holds, NEW open, NEW table, NEW k, SameBut(table, open, k), InLine(table, holds, k)
    PROVE  Without(ToDo(holds, table), ToDo(holds, open), k)
<1> DEFINE before == ToDo(holds, open)
           after == ToDo(holds, table)
<1>1. DOMAIN before =
          (DOMAIN holds \ DOMAIN open)
          \cup {j \in DOMAIN holds \cap DOMAIN open : open[j].message # holds[j]}
          \cup (DOMAIN open \ DOMAIN holds)
    BY DEF ToDo
<1>2. DOMAIN after =
          (DOMAIN holds \ DOMAIN table)
          \cup {j \in DOMAIN holds \cap DOMAIN table : table[j].message # holds[j]}
          \cup (DOMAIN table \ DOMAIN holds)
    BY DEF ToDo
<1>3. k \notin DOMAIN after
    BY <1>2 DEF InLine
<1>4. \A j : j # k => (j \in DOMAIN after <=> j \in DOMAIN before)
    BY <1>1, <1>2 DEF SameBut
<1>5. DOMAIN after = DOMAIN before \ {k}
    BY <1>3, <1>4
<1>6. ASSUME NEW j \in DOMAIN after PROVE after[j] = before[j]
  <2>1. j # k /\ j \in DOMAIN before
      BY <1>5, <1>6
  <2>2. j \in DOMAIN table <=> j \in DOMAIN open
      BY <2>1 DEF SameBut
  <2>3. j \in DOMAIN open => table[j] = open[j]
      BY <2>1 DEF SameBut
  <2> QED
      BY <1>1, <1>2, <1>6, <2>1, <2>2, <2>3 DEF ToDo
<1> QED
    BY <1>5, <1>6 DEF Without

\* What each entry of the list is there for.
LEMMA ToDoOf ==
    ASSUME NEW holds, NEW open, NEW k \in DOMAIN ToDo(holds, open)
    PROVE  LET do == ToDo(holds, open)[k] IN
           /\ do.verb = "raise"   => k \in DOMAIN holds \ DOMAIN open /\ do.says = holds[k]
           /\ do.verb = "reword"  => k \in DOMAIN holds \cap DOMAIN open /\ do.says = holds[k]
           /\ do.verb = "resolve" => k \in DOMAIN open \ DOMAIN holds
<1>1. CASE k \in DOMAIN holds \ DOMAIN open
  <2>1. ToDo(holds, open)[k] = [verb |-> "raise", says |-> holds[k]]
      BY <1>1 DEF ToDo
  <2> QED
      BY <1>1, <2>1
<1>2. CASE k \in DOMAIN holds \cap DOMAIN open
  <2>1. ToDo(holds, open)[k] = [verb |-> "reword", says |-> holds[k]]
      BY <1>2 DEF ToDo
  <2> QED
      BY <1>2, <2>1
<1>3. CASE k \in DOMAIN open \ DOMAIN holds
  <2>1. ToDo(holds, open)[k] = [verb |-> "resolve", says |-> "none"]
      BY <1>3 DEF ToDo
  <2> QED
      BY <1>3, <2>1
<1> QED
    BY <1>1, <1>2, <1>3 DEF ToDo

\* A write that brings one kind in line, by the process that is alone.
LEMMA WriteKeeps ==
    ASSUME AlertsAssumption, MatchInv, NEW p \in Procs, NEW k,
           pc[p] = "write", UNCHANGED <<world, pc, current>>, writer' = p, Done(p, k),
           SameBut(draft', Coming, k), current => InLine(draft', Conditions, k)
    PROVE  MatchInv'
<1>1. Conditions' = Conditions
    BY DEF world, Conditions, RunConditions, Latest
<1>2. Coming' = draft'
    BY DEF Coming, AlertsAssumption
<1>3. AlertsShape'
    BY DEF MatchInv, AlertsShape, Done
<1>4. ASSUME current PROVE todo'[p] = ToDo(Conditions, draft')
  <2>1. todo[p] = ToDo(Conditions, Coming)
      BY <1>4 DEF MatchInv, InLineInv
  <2>2. todo'[p] = [j \in DOMAIN todo[p] \ {k} |-> todo[p][j]]
      BY DEF Done, MatchInv, AlertsShape
  <2>3. InLine(draft', Conditions, k)
      BY <1>4
  <2> DEFINE after == ToDo(Conditions, draft')
  <2>4. /\ DOMAIN after = DOMAIN todo[p] \ {k}
        /\ \A j \in DOMAIN after : after[j] = todo[p][j]
    <3>1. Without(ToDo(Conditions, draft'), ToDo(Conditions, Coming), k)
        BY <2>3, OneDone
    <3> QED
        BY <2>1, <3>1 DEF Without
  <2>5. after = [j \in DOMAIN after |-> after[j]]
      BY DEF ToDo
  <2> HIDE DEF after
  <2>6. todo'[p] = after
      BY <2>2, <2>4, <2>5
  <2> QED
      BY <2>6 DEF after
<1>5. InLineInv'
  <2> SUFFICES ASSUME current'
               PROVE  /\ \A q \in Procs : pc'[q] \in {"idle", "write"}
                      /\ \A q, r \in Procs : pc'[q] = "write" /\ pc'[r] = "write" => q = r
                      /\ \A q \in Procs : writer' = q => pc'[q] = "write"
                      /\ \A q \in Procs : pc'[q] = "write" => todo'[q] = ToDo(Conditions', Coming')
                      /\ (\A q \in Procs : pc'[q] = "idle") => ToDo(Conditions', Coming') = <<>>
      BY DEF InLineInv
  <2>1. current
      OBVIOUS
  <2> QED
      BY <1>1, <1>2, <1>4, <2>1 DEF MatchInv, InLineInv
<1> QED
    BY <1>3, <1>5 DEF MatchInv

\* What ends or interrupts an update() without it having read all that holds.
LEMMA OutOfLine ==
    ASSUME AlertsShape', current' = FALSE
    PROVE  MatchInv'
BY DEF MatchInv, InLineInv

LEMMA MatchStep == AlertsAssumption /\ Worded /\ MatchInv /\ [AlertsNext]_alertVars => MatchInv'
<1> SUFFICES ASSUME AlertsAssumption, Worded, MatchInv, [AlertsNext]_alertVars PROVE MatchInv'
    OBVIOUS
<1> USE DEF known, database, world
<1>1. AlertsShape
    BY DEF MatchInv
<1>2. CASE Change
    BY <1>1, <1>2, OutOfLine DEF Change, AlertsShape
<1>3. ASSUME NEW p \in Procs, Record(p) PROVE MatchInv'
    BY <1>1, <1>3, OutOfLine DEF Record, Commit, AlertsShape
<1>4. ASSUME NEW p \in Procs, Fail(p) \/ Die(p) PROVE MatchInv'
    BY <1>1, <1>4, OutOfLine DEF Fail, Die, Rollback, Return, AlertsShape
<1>5. CASE UNCHANGED <<errors, env, alerts, writer, draft, pc, todo, current>>
  <2>1. Conditions' = Conditions /\ Coming' = Coming
      BY <1>5 DEF Conditions, RunConditions, Latest, Coming
  <2> QED
      BY <1>5, <2>1 DEF MatchInv, AlertsShape, InLineInv
<1>6. ASSUME NEW p \in Procs, Lose(p) PROVE MatchInv'
    BY <1>5, <1>6 DEF Lose
<1>7. CASE UNCHANGED alertVars
    BY <1>5, <1>7 DEF alertVars
\* What holds is read, and the table as it is about to be.
<1>8. ASSUME NEW p \in Procs, Compare(p) PROVE MatchInv'
  <2>1. /\ pc[p] = "compare" /\ pc' = [pc EXCEPT ![p] = "write"]
        /\ todo' = [todo EXCEPT ![p] = ToDo(Conditions, Seen(p))]
        /\ UNCHANGED <<errors, env, alerts, writer, draft>>
        /\ current' = (\A q \in Procs \ {p} : pc[q] = "idle" /\ writer # q)
      BY <1>8 DEF Compare
  <2>2. AlertsShape'
      BY <1>1, <2>1 DEF AlertsShape
  <2>3. Conditions' = Conditions /\ Coming' = Coming
      BY <2>1 DEF Conditions, RunConditions, Latest, Coming
  <2>4. ASSUME current' PROVE InLineInv'
    <3>1. \A q \in Procs \ {p} : pc[q] = "idle" /\ writer # q
        BY <2>1, <2>4
    <3>2. Seen(p) = Coming
        BY <1>1, <3>1, SeenIsComing DEF AlertsShape
    <3>3. todo'[p] = ToDo(Conditions, Coming) /\ pc'[p] = "write"
        BY <1>1, <2>1, <3>2 DEF AlertsShape
    <3>4. \A q \in Procs \ {p} : pc'[q] = "idle" /\ writer' # q
        BY <1>1, <2>1, <3>1 DEF AlertsShape
    <3> QED
        BY <2>3, <3>3, <3>4 DEF InLineInv
  <2>5. ~current' => InLineInv'
      BY DEF InLineInv
  <2> QED
      BY <2>2, <2>4, <2>5 DEF MatchInv
<1>9. ASSUME NEW p \in Procs, NEW k \in Kinds, Raise(p, k) PROVE MatchInv'
  <2>1. /\ pc[p] = "write" /\ writer \in {p, "nobody"} /\ writer' = p /\ Done(p, k)
        /\ k \in DOMAIN todo[p] /\ todo[p][k].verb = "raise"
        /\ UNCHANGED <<world, pc, current>>
      BY <1>9 DEF Raise, Write, Due
  <2>2. Seen(p) = Coming
      BY <2>1, SeenIsComing
  <2>3. draft' = [j \in DOMAIN Coming \cup {k} |->
                     IF j = k THEN [message |-> todo[p][k].says, raised |-> now[p]] ELSE Coming[j]]
      BY <1>9, <2>2 DEF Raise, Write
  <2>4. current => k \in DOMAIN Conditions /\ todo[p][k].says = Conditions[k]
    <3> SUFFICES ASSUME current PROVE k \in DOMAIN Conditions /\ todo[p][k].says = Conditions[k]
        OBVIOUS
    <3>1. todo[p] = ToDo(Conditions, Coming)
        BY <2>1 DEF MatchInv, InLineInv
    <3> QED
        BY <2>1, <3>1, ToDoOf
  <2>5. SameBut(draft', Coming, k)
      BY <2>3 DEF SameBut
  <2>6. k \in DOMAIN draft' /\ draft'[k].message = todo[p][k].says
      BY <2>3
  <2>7. current => InLine(draft', Conditions, k)
      BY <2>4, <2>6 DEF InLine
  <2> QED
      BY <2>1, <2>5, <2>7, WriteKeeps
<1>10. ASSUME NEW p \in Procs, NEW k \in Kinds, Reword(p, k) PROVE MatchInv'
  <2>1. /\ pc[p] = "write" /\ writer \in {p, "nobody"} /\ writer' = p /\ Done(p, k)
        /\ k \in DOMAIN todo[p] /\ todo[p][k].verb = "reword"
        /\ UNCHANGED <<world, pc, current>>
      BY <1>10 DEF Reword, Write, Due
  <2>2. Seen(p) = Coming
      BY <2>1, SeenIsComing
  <2>3. draft' = [j \in DOMAIN Coming |->
                     IF j = k THEN [Coming[j] EXCEPT !.message = todo[p][k].says] ELSE Coming[j]]
      BY <1>10, <2>2 DEF Reword, Write
  <2>4. current => k \in DOMAIN Conditions \cap DOMAIN Coming
                   /\ todo[p][k].says = Conditions[k]
    <3> SUFFICES ASSUME current
                 PROVE  k \in DOMAIN Conditions \cap DOMAIN Coming /\ todo[p][k].says = Conditions[k]
        OBVIOUS
    <3>1. todo[p] = ToDo(Conditions, Coming)
        BY <2>1 DEF MatchInv, InLineInv
    <3> QED
        BY <2>1, <3>1, ToDoOf
  <2>5. SameBut(draft', Coming, k)
      BY <2>3 DEF SameBut
  <2>6. k \in DOMAIN draft' <=> k \in DOMAIN Coming
      BY <2>3
  <2>7. k \in DOMAIN Coming => draft'[k] = [Coming[k] EXCEPT !.message = todo[p][k].says]
      BY <2>3
  <2>8. k \in DOMAIN Coming => draft'[k].message = todo[p][k].says
      BY <2>7 DEF Worded, Coming
  <2>9. current => InLine(draft', Conditions, k)
      BY <2>4, <2>6, <2>8 DEF InLine
  <2> QED
      BY <2>1, <2>5, <2>9, WriteKeeps
<1>11. ASSUME NEW p \in Procs, NEW k \in Kinds, Resolve(p, k) PROVE MatchInv'
  <2>1. /\ pc[p] = "write" /\ writer \in {p, "nobody"} /\ writer' = p /\ Done(p, k)
        /\ k \in DOMAIN todo[p] /\ todo[p][k].verb = "resolve"
        /\ UNCHANGED <<world, pc, current>>
      BY <1>11 DEF Resolve, Write, Due
  <2>2. Seen(p) = Coming
      BY <2>1, SeenIsComing
  <2>3. draft' = [j \in DOMAIN Coming \ {k} |-> Coming[j]]
      BY <1>11, <2>2 DEF Resolve, Write
  <2>4. current => k \notin DOMAIN Conditions
    <3> SUFFICES ASSUME current PROVE k \notin DOMAIN Conditions
        OBVIOUS
    <3>1. todo[p] = ToDo(Conditions, Coming)
        BY <2>1 DEF MatchInv, InLineInv
    <3> QED
        BY <2>1, <3>1, ToDoOf
  <2>5. SameBut(draft', Coming, k)
      BY <2>3 DEF SameBut
  <2>6. k \notin DOMAIN draft'
      BY <2>3
  <2>7. current => InLine(draft', Conditions, k)
      BY <2>4, <2>6 DEF InLine
  <2> QED
      BY <2>1, <2>5, <2>7, WriteKeeps
\* Nothing left to do is committed.
<1>12. ASSUME NEW p \in Procs, Finish(p) PROVE MatchInv'
  <2>1. /\ pc[p] = "write" /\ todo[p] = <<>> /\ Commit(p) /\ pc' = [pc EXCEPT ![p] = "idle"]
        /\ todo' = [todo EXCEPT ![p] = <<>>] /\ UNCHANGED <<errors, env, current>>
      BY <1>12 DEF Finish, Return
  <2>2. AlertsShape'
      BY <1>1, <2>1 DEF AlertsShape, Commit
  <2>3. Conditions' = Conditions
      BY <2>1 DEF Conditions, RunConditions, Latest
  <2>4. ASSUME current' PROVE InLineInv'
    <3>1. current /\ todo[p] = ToDo(Conditions, Coming)
        BY <2>1, <2>4 DEF MatchInv, InLineInv
    <3>2. \A q \in Procs \ {p} : pc[q] = "idle" /\ writer # q
        BY <2>1, <3>1 DEF MatchInv, InLineInv
    <3>3. writer' = "nobody" /\ Coming' = Coming
        BY <1>1, <2>1, <3>2 DEF Commit, Coming, AlertsShape, AlertsAssumption
    <3>4. \A q \in Procs : pc'[q] = "idle" /\ writer' # q
        BY <1>1, <2>1, <3>2, <3>3 DEF AlertsShape, AlertsAssumption
    <3> QED
        BY <2>1, <2>3, <3>1, <3>3, <3>4 DEF InLineInv
  <2>5. ~current' => InLineInv'
      BY DEF InLineInv
  <2> QED
      BY <2>2, <2>4, <2>5 DEF MatchInv
<1> QED
    BY <1>2, <1>3, <1>4, <1>6, <1>7, <1>8, <1>9, <1>10, <1>11, <1>12 DEF AlertsNext, Update

\* Once an update() that read what holds has committed, with no other process in one and
\* none failing since, the table has exactly the alerts that hold and says of each what
\* is true (alerts.py: update, conditions).
THEOREM TableInLine == Spec => []TableMatchesConditions
<1>1. MatchInv => TableMatchesConditions
  <2> SUFFICES ASSUME MatchInv, current, writer = "nobody", \A p \in Procs : pc[p] = "idle"
               PROVE  [k \in DOMAIN alerts |-> alerts[k].message] = Conditions
      BY DEF TableMatchesConditions
  <2>1. ToDo(Conditions, alerts) = <<>>
      BY DEF MatchInv, InLineInv, Coming
  <2>2. DOMAIN alerts = DOMAIN Conditions /\ \A k \in DOMAIN alerts : alerts[k].message = Conditions[k]
      BY <2>1, NothingToDo
  <2>3. Conditions = [k \in DOMAIN Conditions |-> Conditions[k]]
      BY DEF Conditions
  <2> QED
      BY <2>2, <2>3
<1> QED
    BY <1>1, AlertsAlone, WordedInit, WordedStep, MatchInit, MatchStep, AlertsAssumption, PTL DEF AlertsSpec

------------------------------------------------------------------------------
(* The greatest of the stamps.                                              *)

\* A finite set of numbers has a greatest one.
LEMMA Greatest ==
    ASSUME NEW S \in SUBSET Nat, IsFiniteSet(S), S # {}
    PROVE  \E x \in S : \A y \in S : y <= x
<1> DEFINE Above(x) == {y \in S : x < y}
           T == {Above(x) : x \in S}
<1>1. \A x \in S : IsFiniteSet(Above(x))
    BY FS_Subset
<1>2. T \subseteq FiniteSubsetsOf(S) /\ T # {}
    BY <1>1 DEF FiniteSubsetsOf
<1>3. IsWellFoundedOn(StrictSubsetOrdering(S), FiniteSubsetsOf(S))
    BY FS_StrictSubsetOrderingWellFounded
<1>4. PICK A \in T : \A B \in T : ~(<<B, A>> \in StrictSubsetOrdering(S))
  <2> HIDE DEF T
  <2> QED
      BY <1>2, <1>3, WFMin
<1>5. PICK x \in S : A = Above(x)
    OBVIOUS
<1>6. ASSUME NEW y \in S, x < y PROVE FALSE
  <2>1. Above(y) \subseteq Above(x)
    <3>1. \A z \in S : z \in Int /\ x \in Int /\ y \in Int
        OBVIOUS
    <3>2. \A z \in S : y < z => x < z
        BY <1>6, <3>1
    <3> QED
        BY <3>2
  <2>2. y \in Above(x) /\ y \notin Above(y)
      BY <1>6
  <2>3. <<Above(y), Above(x)>> \in StrictSubsetOrdering(S)
      BY <2>1, <2>2 DEF StrictSubsetOrdering
  <2> QED
      BY <1>4, <1>5, <2>3
<1> QED
    BY <1>6

LEMMA MaxBounds ==
    ASSUME NEW S, NEW n \in Nat, S \subseteq 0 .. n
    PROVE  MaxOr0(S) \in 0 .. n /\ \A x \in S : x <= MaxOr0(S)
<1>1. CASE S = {}
    BY <1>1 DEF MaxOr0
<1>2. CASE S # {}
  <2>1. S \in SUBSET Nat /\ \A x \in S : x <= n
      OBVIOUS
  <2>2. IsFiniteSet(S)
      BY <2>1, FS_BoundedSetOfNaturals
  <2>3. \E x \in S : \A y \in S : y <= x
      BY <1>2, <2>1, <2>2, Greatest
  <2>4. MaxOr0(S) \in S /\ \A y \in S : y <= MaxOr0(S)
      BY <1>2, <2>3 DEF MaxOr0
  <2> QED
      BY <2>4
<1> QED
    BY <1>1, <1>2

------------------------------------------------------------------------------
(* A row whose stamp is no later than the greatest that a request read was  *)
(* there then, as it is now.                                                *)

PostRow == [by : Names, shown : Nat, slides : BOOLEAN, scraped : Nat, updated : Nat]

\* No row is stamped with a commit that is to come.
Stamped ==
    /\ clock \in Nat /\ renamed \in [held : BOOLEAN, request : BOOLEAN]
    /\ \A i \in DOMAIN posts : posts[i] \in PostRow /\ posts[i].updated <= clock
    /\ \A s \in DOMAIN stories : stories[s] \in 0 .. clock
    /\ \A n \in DOMAIN faces : faces[n] \in 0 .. clock

\* What a request has read so far is the beginning of an ETag.
PartsInv ==
    LET parts == request.parts IN
    /\ DOMAIN request = {"step", "open", "parts", "rows"}
    /\ feed = "stories" =>
        /\ request.step \in {"idle", "cached"}
        /\ request.step = "cached" => parts[1][2] \in 0 .. clock
    /\ feed # "stories" =>
        /\ request.step = "counts" => parts = <<request.open>>
        /\ request.step = "faces" => parts = <<request.open, parts[2]>>
        /\ request.step = "slides" => parts = <<request.open, parts[2], parts[3]>>
        /\ request.step \in {"cached", "extra", "avatars"} => parts[1] = request.open
        /\ request.step \in {"faces", "slides", "cached", "extra", "avatars"} => parts[2][2] \in 0 .. clock
        /\ request.step \in {"slides", "cached", "extra", "avatars"} => parts[3] \in 0 .. clock

\* The entry a post makes under a name, with or without a face.
Entry(i, b, f) == [id |-> i, by |-> b, shown |-> posts[i].shown, slides |-> posts[i].slides, face |-> f]

\* The posts that have not changed since the greatest stamp was `latest`.
Unchanged(latest) == {i \in Scoped : posts[i].updated <= latest}

\* An avatar's presence is known, or has changed since the greatest stamp was `stamp`.
FaceAsOf(n, f, stamp) == f = (n \in DOMAIN faces) \/ (n \in DOMAIN faces /\ faces[n] > stamp)

\* The rows a request has read: every unchanged post, under its author's name unless one
\* was renamed since.
RowsInv ==
    (/\ feed # "stories" /\ request.step \in {"extra", "avatars"}
     /\ feed = "all" \/ ~renamed.request) =>
            \A i \in Unchanged(request.parts[2][2]) : \E b, f :
                /\ Entry(i, b, f) \in request.rows
                /\ ~renamed.request => b = posts[i].by

\* The entries a reader holds, likewise, with the alerts and the avatars.
HeldInv ==
    tag # NoTag =>
        /\ feed = "stories" =>
            /\ tag[1][2] \in 0 .. clock
            /\ \A s \in DOMAIN stories : stories[s] <= tag[1][2] => s \in held
        /\ feed # "stories" =>
            /\ tag[1] \subseteq held /\ tag[2][2] \in 0 .. clock /\ tag[3] \in 0 .. clock
            /\ (feed = "all" \/ ~renamed.held) =>
                \A i \in Unchanged(tag[2][2]) : \E b, f :
                    /\ Entry(i, b, f) \in held
                    /\ ~renamed.held => b = posts[i].by /\ FaceAsOf(b, f, tag[3])

FeedInv == Stamped /\ PartsInv /\ RowsInv /\ HeldInv

\* What the queries answer is stamped with a commit that was.
LEMMA QueryBounds ==
    ASSUME Stamped
    PROVE  /\ CountAndLatest[2] \in 0 .. clock
           /\ \A i \in Scoped : posts[i].updated <= CountAndLatest[2]
           /\ FaceStamp \in 0 .. clock
           /\ \A n \in DOMAIN faces : feed \in {"all", n} => faces[n] <= FaceStamp
           /\ StoriesStats[2] \in 0 .. clock
           /\ \A s \in DOMAIN stories : stories[s] <= StoriesStats[2]
<1> DEFINE stamps == {posts[i].updated : i \in Scoped}
           looks == {faces[n] : n \in {m \in DOMAIN faces : feed \in {"all", m}}}
           frames == {stories[s] : s \in DOMAIN stories}
<1>1. clock \in Nat
    BY DEF Stamped
<1>2. stamps \subseteq 0 .. clock /\ looks \subseteq 0 .. clock /\ frames \subseteq 0 .. clock
    BY DEF Stamped, PostRow, Scoped
<1>3. MaxOr0(stamps) \in 0 .. clock /\ \A x \in stamps : x <= MaxOr0(stamps)
    BY <1>1, <1>2, MaxBounds
<1>4. MaxOr0(looks) \in 0 .. clock /\ \A x \in looks : x <= MaxOr0(looks)
    BY <1>1, <1>2, MaxBounds
<1>5. MaxOr0(frames) \in 0 .. clock /\ \A x \in frames : x <= MaxOr0(frames)
    BY <1>1, <1>2, MaxBounds
<1>6. CountAndLatest[2] = MaxOr0(stamps) /\ FaceStamp = MaxOr0(looks) /\ StoriesStats[2] = MaxOr0(frames)
    BY DEF CountAndLatest, FaceStamp, StoriesStats
<1>7. /\ \A i \in Scoped : posts[i].updated \in stamps
      /\ \A n \in DOMAIN faces : feed \in {"all", n} => faces[n] \in looks
      /\ \A s \in DOMAIN stories : stories[s] \in frames
    OBVIOUS
<1> HIDE DEF stamps, looks, frames
<1> QED
    BY <1>3, <1>4, <1>5, <1>6, <1>7

\* What a commit may do to a row: it is stamped, or it stays, but for the names that a
\* rename changes without a stamp.
PostMoves(i) ==
    /\ posts'[i] \in PostRow
    /\ \/ posts'[i].updated = clock + 1
       \/ /\ i \in DOMAIN posts
          /\ posts'[i].updated = posts[i].updated /\ posts'[i].shown = posts[i].shown
          /\ posts'[i].slides = posts[i].slides
          /\ posts'[i].by = posts[i].by \/ (renamed'.held /\ renamed'.request)

Moves ==
    /\ clock' = clock + 1 /\ UNCHANGED server
    /\ renamed' = renamed \/ renamed' = [held |-> TRUE, request |-> TRUE]
    /\ \A i \in DOMAIN posts' : PostMoves(i)
    /\ \/ renamed' = [held |-> TRUE, request |-> TRUE] /\ \A n \in DOMAIN faces' : faces'[n] \in 0 .. clock
       \/ /\ DOMAIN faces \subseteq DOMAIN faces'
          /\ \A n \in DOMAIN faces' : \/ faces'[n] = clock + 1
                                      \/ n \in DOMAIN faces /\ faces'[n] = faces[n]
    /\ \A s \in DOMAIN stories' : \/ stories'[s] = clock + 1
                                  \/ s \in DOMAIN stories /\ stories'[s] = stories[s]

LEMMA CommitMoves ==
    ASSUME Stamped,
           \/ \E i \in Posts : StorePost(i) \/ MergePost(i) \/ PrunePost(i)
           \/ \E n \in Names : RefreshFace(n) \/ \E m \in Names : RenameAccount(n, m)
           \/ \E s \in Stories : StoreStory(s) \/ DropStory(s)
    PROVE  Moves
<1>1. clock \in Nat /\ renamed \in [held : BOOLEAN, request : BOOLEAN]
    BY DEF Stamped
<1> DEFINE Still == \A i \in DOMAIN posts : PostMoves(i)
<1>2. posts' = posts => Still
    BY DEF Stamped, PostMoves
<1>3. ASSUME NEW i \in Posts, StorePost(i) PROVE Moves
  <2>1. PICK n \in Names, slides \in BOOLEAN :
            posts' = With(posts, i, [by |-> n, shown |-> 0, slides |-> slides,
                                     scraped |-> clock + 1, updated |-> clock + 1])
      BY <1>3 DEF StorePost
  <2>2. DOMAIN posts' = DOMAIN posts \cup {i} /\ posts'[i] \in PostRow /\ posts'[i].updated = clock + 1
      BY <1>1, <2>1 DEF With, PostRow
  <2>3. \A j \in DOMAIN posts' : j = i \/ (j \in DOMAIN posts /\ posts'[j] = posts[j])
      BY <2>1 DEF With
  <2>4. \A j \in DOMAIN posts' : PostMoves(j)
      BY <2>2, <2>3 DEF PostMoves, Stamped
  <2> QED
      BY <1>3, <2>4 DEF Moves, StorePost, Commits
<1>4. ASSUME NEW i \in Posts, MergePost(i) PROVE Moves
  <2>1. /\ i \in DOMAIN posts /\ DOMAIN posts' = DOMAIN posts
        /\ posts'[i] = [posts[i] EXCEPT !.shown = clock + 1, !.updated = clock + 1]
        /\ \A j \in DOMAIN posts : j # i => posts'[j] = posts[j]
      BY <1>4 DEF MergePost, Stamped, PostRow
  <2>2. posts'[i] \in PostRow /\ posts'[i].updated = clock + 1
    <3>1. PICK row \in PostRow, n \in Nat : row = posts[i] /\ n = clock + 1
        BY <1>1, <2>1 DEF Stamped
    <3>2. posts'[i] = [row EXCEPT !.shown = n, !.updated = n]
        BY <2>1, <3>1
    <3> QED
        BY <3>1, <3>2 DEF PostRow
  <2>3. \A j \in DOMAIN posts' : PostMoves(j)
      BY <2>1, <2>2 DEF PostMoves, Stamped
  <2> QED
      BY <1>4, <2>3 DEF Moves, MergePost, Commits
<1>5. ASSUME NEW i \in Posts, PrunePost(i) PROVE Moves
  <2>1. \A j \in DOMAIN posts' : PostMoves(j)
      BY <1>5 DEF PrunePost, PostMoves, Stamped
  <2> QED
      BY <1>5, <2>1 DEF Moves, PrunePost, Commits
<1>6. ASSUME NEW n \in Names, RefreshFace(n) PROVE Moves
  <2>1. DOMAIN faces' = DOMAIN faces \cup {n} /\ faces'[n] = clock + 1
        /\ \A m \in DOMAIN faces : m # n => faces'[m] = faces[m]
      BY <1>6 DEF RefreshFace, With
  <2>2. UNCHANGED <<server, posts, stories, renamed>> /\ clock' = clock + 1
      BY <1>6 DEF RefreshFace, Commits
  <2> QED
      BY <1>2, <2>1, <2>2 DEF Moves
<1>7. ASSUME NEW old \in Names, NEW new \in Names, RenameAccount(old, new) PROVE Moves
  <2>1. renamed' = [held |-> TRUE, request |-> TRUE] /\ UNCHANGED <<server, stories>> /\ clock' = clock + 1
      BY <1>7 DEF RenameAccount, Commits
  <2>2. \A n \in DOMAIN faces' : faces'[n] \in 0 .. clock
      BY <1>1, <1>7 DEF RenameAccount, Stamped
  <2>3. /\ DOMAIN posts' = DOMAIN posts
        /\ \A i \in DOMAIN posts : posts'[i] = posts[i] \/ posts'[i] = [posts[i] EXCEPT !.by = new]
      BY <1>7 DEF RenameAccount
  <2>4. \A i \in DOMAIN posts' : PostMoves(i)
    <3> SUFFICES ASSUME NEW i \in DOMAIN posts PROVE PostMoves(i)
        BY <2>3
    <3>1. posts[i] \in PostRow
        BY DEF Stamped
    <3>2. [posts[i] EXCEPT !.by = new] \in PostRow
        BY <3>1 DEF PostRow
    <3> QED
        BY <2>1, <2>3, <3>1, <3>2 DEF PostMoves, PostRow
  <2> QED
      BY <2>1, <2>2, <2>4 DEF Moves
<1>8. ASSUME NEW s \in Stories, StoreStory(s) PROVE Moves
  <2>1. UNCHANGED <<server, posts, faces, renamed>> /\ clock' = clock + 1
      BY <1>8 DEF StoreStory, Commits
  <2>2. \A t \in DOMAIN stories' : \/ stories'[t] = clock + 1
                                   \/ t \in DOMAIN stories /\ stories'[t] = stories[t]
      BY <1>8 DEF StoreStory, With
  <2> QED
      BY <1>2, <2>1, <2>2 DEF Moves
<1>9. ASSUME NEW s \in Stories, DropStory(s) PROVE Moves
  <2>1. UNCHANGED <<server, posts, faces, renamed>> /\ clock' = clock + 1
      BY <1>9 DEF DropStory, Commits
  <2>2. \A t \in DOMAIN stories' : t \in DOMAIN stories /\ stories'[t] = stories[t]
      BY <1>9 DEF DropStory
  <2> QED
      BY <1>2, <2>1, <2>2 DEF Moves
<1> QED
    BY <1>3, <1>4, <1>5, <1>6, <1>7, <1>8, <1>9

LEMMA MovesKeep == FeedInv /\ Moves => FeedInv'
<1> SUFFICES ASSUME FeedInv, Moves PROVE FeedInv'
    OBVIOUS
<1>1. /\ clock \in Nat /\ clock' = clock + 1 /\ UNCHANGED <<feed, request, tag, held>>
      /\ renamed \in [held : BOOLEAN, request : BOOLEAN]
      /\ renamed' = renamed \/ renamed' = [held |-> TRUE, request |-> TRUE]
    BY DEF FeedInv, Stamped, Moves, server
<1>2. Stamped'
  <2>1. \A i \in DOMAIN posts' : posts'[i] \in PostRow /\ posts'[i].updated <= clock'
    <3> SUFFICES ASSUME NEW i \in DOMAIN posts'
                 PROVE  posts'[i] \in PostRow /\ posts'[i].updated <= clock'
        OBVIOUS
    <3>1. PostMoves(i)
        BY DEF Moves
    <3>2. i \in DOMAIN posts => posts[i].updated \in Nat /\ posts[i].updated <= clock
        BY DEF FeedInv, Stamped, PostRow
    <3> QED
        BY <1>1, <3>1, <3>2 DEF PostMoves
  <2>2. \A n \in DOMAIN faces' : faces'[n] \in 0 .. clock'
    <3>1. CASE \A n \in DOMAIN faces' : faces'[n] \in 0 .. clock
        BY <1>1, <3>1
    <3>2. CASE \A n \in DOMAIN faces' :
                  faces'[n] = clock + 1 \/ (n \in DOMAIN faces /\ faces'[n] = faces[n])
        BY <1>1, <3>2 DEF FeedInv, Stamped
    <3> QED
        BY <3>1, <3>2 DEF Moves
  <2>3. \A s \in DOMAIN stories' : stories'[s] \in 0 .. clock'
      BY <1>1 DEF FeedInv, Stamped, Moves
  <2>4. clock' \in Nat
      BY <1>1
  <2>5. renamed' \in [held : BOOLEAN, request : BOOLEAN]
    <3>1. [held |-> TRUE, request |-> TRUE] \in [held : BOOLEAN, request : BOOLEAN]
        OBVIOUS
    <3> QED
        BY <1>1, <3>1, Zenon
  <2> QED
      BY <2>1, <2>2, <2>3, <2>4, <2>5 DEF Stamped
<1>3. PartsInv'
    BY <1>1 DEF FeedInv, PartsInv
\* A post not stamped since was in the feed, or has come there by a rename.
<1>4. ASSUME NEW latest \in 0 .. clock, NEW i \in Unchanged(latest)'
      PROVE  /\ i \in DOMAIN posts
             /\ \A b, f : Entry(i, b, f)' = Entry(i, b, f)
             /\ posts[i].updated <= latest
             /\ posts'[i].by = posts[i].by \/ (renamed'.held /\ renamed'.request)
             /\ feed = "all" \/ posts'[i].by = posts[i].by => i \in Unchanged(latest)
  <2>1. i \in DOMAIN posts' /\ posts'[i].updated <= latest /\ feed \in {"all", posts'[i].by}
      BY <1>1, <1>4 DEF Unchanged, Scoped
  <2>2. posts'[i].updated # clock + 1
      BY <1>1, <2>1
  <2>3. PostMoves(i)
      BY <2>1 DEF Moves
  <2> QED
      BY <2>1, <2>2, <2>3 DEF PostMoves, Entry, Unchanged, Scoped
<1>5. RowsInv'
  <2> SUFFICES ASSUME feed # "stories", request.step \in {"extra", "avatars"},
                      feed = "all" \/ ~renamed'.request,
                      NEW i \in Unchanged(request.parts[2][2])'
               PROVE  \E b, f : /\ Entry(i, b, f)' \in request.rows
                                /\ ~renamed'.request => b = posts'[i].by
      BY <1>1 DEF RowsInv
  <2>1. request.parts[2][2] \in 0 .. clock
      BY DEF FeedInv, PartsInv
  <2>2. request.parts' = request.parts
      BY <1>1
  <2>3. i \in Unchanged(request.parts[2][2])
      BY <1>1, <1>4, <2>1, <2>2
  <2> QED
      BY <1>1, <1>4, <2>1, <2>2, <2>3 DEF FeedInv, RowsInv
<1>6. HeldInv'
  <2> SUFFICES ASSUME tag # NoTag PROVE HeldInv'
      BY <1>1 DEF HeldInv
  <2>1. ASSUME feed = "stories"
        PROVE  /\ tag[1][2] \in 0 .. clock'
               /\ \A s \in DOMAIN stories' : stories'[s] <= tag[1][2] => s \in held
    <3>1. tag[1][2] \in 0 .. clock /\ \A s \in DOMAIN stories : stories[s] <= tag[1][2] => s \in held
        BY <2>1 DEF FeedInv, HeldInv
    <3>2. \A s \in DOMAIN stories' : stories'[s] <= tag[1][2] => s \in DOMAIN stories /\ stories'[s] = stories[s]
        BY <1>1, <3>1 DEF Moves
    <3> QED
        BY <1>1, <3>1, <3>2
  <2>2. ASSUME feed # "stories"
        PROVE  tag[1] \subseteq held /\ tag[2][2] \in 0 .. clock' /\ tag[3] \in 0 .. clock'
      BY <1>1, <2>2 DEF FeedInv, HeldInv
  <2>3. ASSUME feed # "stories", feed = "all" \/ ~renamed'.held, NEW i \in Unchanged(tag[2][2])'
        PROVE  \E b, f : /\ Entry(i, b, f)' \in held
                         /\ ~renamed'.held => b = posts'[i].by /\ FaceAsOf(b, f, tag[3])'
    <3>1. tag[2][2] \in 0 .. clock /\ tag[3] \in 0 .. clock /\ tag' = tag
        BY <1>1, <2>3 DEF FeedInv, HeldInv
    <3>2. /\ \A b, f : Entry(i, b, f)' = Entry(i, b, f)
          /\ posts'[i].by = posts[i].by \/ (renamed'.held /\ renamed'.request)
          /\ i \in Unchanged(tag[2][2])
        BY <1>1, <1>4, <2>3, <3>1
    <3>3. feed = "all" \/ ~renamed.held
        BY <1>1, <2>3
    <3>4. PICK b, f : /\ Entry(i, b, f) \in held
                      /\ ~renamed.held => b = posts[i].by /\ FaceAsOf(b, f, tag[3])
        BY <2>3, <3>2, <3>3 DEF FeedInv, HeldInv
    <3>5. CASE renamed'.held
        BY <3>2, <3>4, <3>5
    <3>6. CASE ~renamed'.held
      <4>1. ~renamed.held /\ renamed' # [held |-> TRUE, request |-> TRUE]
          BY <1>1, <3>6
      <4>2. /\ DOMAIN faces \subseteq DOMAIN faces'
            /\ \A n \in DOMAIN faces' :
                  faces'[n] = clock + 1 \/ (n \in DOMAIN faces /\ faces'[n] = faces[n])
          BY <4>1 DEF Moves
      <4>3. FaceAsOf(b, f, tag[3])
          BY <3>4, <4>1
      <4>4. \A n \in DOMAIN faces' : n \in DOMAIN faces \/ faces'[n] > tag[3]
          BY <1>1, <3>1, <4>2
      <4>5. \A n \in DOMAIN faces : faces[n] > tag[3] => faces'[n] > tag[3]
          BY <1>1, <3>1, <4>2
      <4>6. FaceAsOf(b, f, tag[3])'
          BY <3>1, <4>2, <4>3, <4>4, <4>5 DEF FaceAsOf
      <4> QED
          BY <3>2, <3>4, <3>6, <4>1, <4>6
    <3> QED
        BY <3>5, <3>6
  <2> QED
      BY <1>1, <2>1, <2>2, <2>3 DEF HeldInv
<1> QED
    BY <1>2, <1>3, <1>5, <1>6 DEF FeedInv

\* Statements add to what was read before.
LEMMA Grows ==
    /\ \A a, b : Append(<<a>>, b) = <<a, b>>
    /\ \A a, b, c : Append(<<a, b>>, c) = <<a, b, c>>
    /\ \A a, b, c, d : Append(<<a, b, c>>, d) = <<a, b, c, d>>
<1>1. ASSUME NEW S, NEW s \in Seq(S), NEW t \in Seq(S), NEW x \in S, Len(t) = Len(s) + 1,
             t[Len(t)] = x, \A i \in 1 .. Len(s) : t[i] = s[i]
      PROVE  Append(s, x) = t
  <2>1. /\ Append(s, x) \in Seq(S) /\ Len(Append(s, x)) = Len(s) + 1
        /\ \A i \in 1 .. Len(s) : Append(s, x)[i] = s[i]
        /\ Append(s, x)[Len(s) + 1] = x
      BY <1>1, AppendProperties
  <2>2. Len(s) \in Nat
      BY <1>1
  <2>3. \A i \in 1 .. Len(Append(s, x)) : Append(s, x)[i] = t[i]
      BY <1>1, <2>1, <2>2
  <2> QED
      BY <1>1, <2>1, <2>3, SeqEqual
<1>2. ASSUME NEW a, NEW b PROVE Append(<<a>>, b) = <<a, b>>
  <2> DEFINE S == {a, b} s == <<a>> t == <<a, b>>
  <2>1. /\ s \in Seq(S) /\ t \in Seq(S) /\ b \in S /\ Len(t) = Len(s) + 1 /\ t[Len(t)] = b
        /\ \A i \in 1 .. Len(s) : t[i] = s[i]
      OBVIOUS
  <2> HIDE DEF S, s, t
  <2>2. Append(s, b) = t
      BY <1>1, <2>1
  <2> QED
      BY <2>2 DEF s, t
<1>3. ASSUME NEW a, NEW b, NEW c PROVE Append(<<a, b>>, c) = <<a, b, c>>
  <2> DEFINE S == {a, b, c} s == <<a, b>> t == <<a, b, c>>
  <2>1. /\ s \in Seq(S) /\ t \in Seq(S) /\ c \in S /\ Len(t) = Len(s) + 1 /\ t[Len(t)] = c
        /\ \A i \in 1 .. Len(s) : t[i] = s[i]
      OBVIOUS
  <2> HIDE DEF S, s, t
  <2>2. Append(s, c) = t
      BY <1>1, <2>1
  <2> QED
      BY <2>2 DEF s, t
<1>4. ASSUME NEW a, NEW b, NEW c, NEW d PROVE Append(<<a, b, c>>, d) = <<a, b, c, d>>
  <2> DEFINE S == {a, b, c, d} s == <<a, b, c>> t == <<a, b, c, d>>
  <2>1. /\ s \in Seq(S) /\ t \in Seq(S) /\ d \in S /\ Len(t) = Len(s) + 1 /\ t[Len(t)] = d
        /\ \A i \in 1 .. Len(s) : t[i] = s[i]
      OBVIOUS
  <2> HIDE DEF S, s, t
  <2>2. Append(s, d) = t
      BY <1>1, <2>1
  <2> QED
      BY <2>2 DEF s, t
<1> QED
    BY <1>2, <1>3, <1>4

\* A statement of a request.
LEMMA ReaderKeep == FeedInv /\ Reader => FeedInv'
<1> SUFFICES ASSUME FeedInv, Reader PROVE FeedInv'
    OBVIOUS
<1> USE DEF FeedInv
<1>0. clock \in Nat
    BY DEF Stamped
<1>1. UNCHANGED <<posts, stories, faces, clock, feed, alerts>>
    BY DEF Reader, Ask, ReadCounts, ReadFaces, ReadSlides, NotModified, ReadRows, ReadExtra,
           ReadAvatars, Read, Step, data, alertVars
<1>2. CASE Ask
  <2>1. /\ request' = [Idle EXCEPT !.step = IF feed = "stories" THEN "cached" ELSE "counts",
                                   !.open = OpenAlerts,
                                   !.parts = IF feed = "stories" THEN <<StoriesStats>>
                                             ELSE <<OpenAlerts>>]
        /\ UNCHANGED <<tag, held, renamed>>
      BY <1>2 DEF Ask
  <2>2. /\ DOMAIN request' = {"step", "open", "parts", "rows"}
        /\ request'.step = (IF feed = "stories" THEN "cached" ELSE "counts")
        /\ request'.open = OpenAlerts
        /\ request'.parts = (IF feed = "stories" THEN <<StoriesStats>> ELSE <<OpenAlerts>>)
      BY <2>1 DEF Idle
  <2>3. PartsInv'
      BY <1>0, <1>1, <2>2, QueryBounds DEF PartsInv
  <2>4. Stamped' /\ HeldInv'
      BY <1>1, <2>1 DEF Stamped, HeldInv, Unchanged, Scoped, Entry, FaceAsOf
  <2>5. RowsInv'
      BY <2>2 DEF RowsInv
  <2> QED
      BY <2>3, <2>4, <2>5
<1>3. ASSUME UNCHANGED <<tag, held, renamed>> PROVE Stamped' /\ HeldInv'
    BY <1>1, <1>3 DEF Stamped, HeldInv, Unchanged, Scoped, Entry, FaceAsOf
\* feed_signal's statements.
<1>4. CASE ReadCounts \/ ReadFaces \/ ReadSlides
  <2>1. UNCHANGED <<tag, held, renamed>> /\ request.step \in {"counts", "faces", "slides"}
      BY <1>4 DEF ReadCounts, ReadFaces, ReadSlides, Read, Step
  <2>2. feed # "stories" /\ DOMAIN request = {"step", "open", "parts", "rows"}
      BY <2>1 DEF PartsInv
  <2>3. ASSUME ReadCounts PROVE PartsInv' /\ RowsInv'
    <3>1. /\ request.step = "counts"
          /\ request' = [request EXCEPT !.step = "faces", !.parts = Append(@, CountAndLatest)]
        BY <2>3 DEF ReadCounts, Read, Step
    <3>2. request.parts = <<request.open>>
        BY <2>2, <3>1 DEF PartsInv
    <3>3. /\ DOMAIN request' = {"step", "open", "parts", "rows"} /\ request'.step = "faces"
          /\ request'.open = request.open /\ request'.parts = Append(request.parts, CountAndLatest)
        BY <2>2, <3>1
    <3>4. request'.parts = <<request.open, CountAndLatest>>
        BY <3>2, <3>3, Grows
    <3> QED
        BY <1>1, <2>2, <3>3, <3>4, QueryBounds DEF PartsInv, RowsInv
  <2>4. ASSUME ReadFaces PROVE PartsInv' /\ RowsInv'
    <3>1. /\ request.step = "faces"
          /\ request' = [request EXCEPT !.step = "slides", !.parts = Append(@, FaceStamp)]
        BY <2>4 DEF ReadFaces, Read, Step
    <3>2. request.parts = <<request.open, request.parts[2]>> /\ request.parts[2][2] \in 0 .. clock
        BY <2>2, <3>1 DEF PartsInv
    <3>3. /\ DOMAIN request' = {"step", "open", "parts", "rows"} /\ request'.step = "slides"
          /\ request'.open = request.open /\ request'.parts = Append(request.parts, FaceStamp)
        BY <2>2, <3>1
    <3>4. request'.parts = <<request.open, request.parts[2], FaceStamp>>
      <4>1. PICK counts : counts = request.parts[2]
          OBVIOUS
      <4>2. Append(<<request.open, counts>>, FaceStamp) = <<request.open, counts, FaceStamp>>
          BY Grows
      <4> QED
          BY <3>2, <3>3, <4>1, <4>2, Zenon
    <3> QED
        BY <1>1, <2>2, <3>2, <3>3, <3>4, QueryBounds DEF PartsInv, RowsInv
  <2>5. ASSUME ReadSlides PROVE PartsInv' /\ RowsInv'
    <3>1. /\ request.step = "slides"
          /\ request' = [request EXCEPT !.step = "cached", !.parts = Append(@, SlideCount)]
        BY <2>5 DEF ReadSlides, Read, Step
    <3>2. /\ request.parts = <<request.open, request.parts[2], request.parts[3]>>
          /\ request.parts[2][2] \in 0 .. clock /\ request.parts[3] \in 0 .. clock
        BY <2>2, <3>1 DEF PartsInv
    <3>3. /\ DOMAIN request' = {"step", "open", "parts", "rows"} /\ request'.step = "cached"
          /\ request'.open = request.open /\ request'.parts = Append(request.parts, SlideCount)
        BY <2>2, <3>1
    <3>4. request'.parts = <<request.open, request.parts[2], request.parts[3], SlideCount>>
      <4>1. PICK counts, face : counts = request.parts[2] /\ face = request.parts[3]
          OBVIOUS
      <4>2. Append(<<request.open, counts, face>>, SlideCount)
                = <<request.open, counts, face, SlideCount>>
          BY Grows
      <4> QED
          BY <3>2, <3>3, <4>1, <4>2, Zenon
    <3> QED
        BY <1>1, <2>2, <3>2, <3>3, <3>4 DEF PartsInv, RowsInv
  <2> QED
      BY <1>3, <1>4, <2>1, <2>3, <2>4, <2>5
<1>5. ASSUME request' = Idle PROVE PartsInv' /\ RowsInv'
    BY <1>1, <1>5 DEF PartsInv, RowsInv, Idle
<1>6. CASE NotModified
  <2>1. request' = Idle /\ UNCHANGED <<tag, held, renamed>>
      BY <1>6 DEF NotModified
  <2> QED
      BY <1>3, <1>5, <2>1
<1>7. CASE ReadRows /\ feed = "stories"
  <2>1. /\ request.step = "cached" /\ request' = Idle /\ UNCHANGED renamed
        /\ tag' = request.parts /\ held' = DOMAIN stories
      BY <1>7 DEF ReadRows, Answer, Step
  <2>2. request.parts[1][2] \in 0 .. clock
      BY <1>7, <2>1 DEF PartsInv
  <2>3. Stamped' /\ HeldInv'
      BY <1>1, <1>7, <2>1, <2>2 DEF Stamped, HeldInv
  <2> QED
      BY <1>5, <2>1, <2>3
\* The rows of the body: every post is there under its author's name.
<1>8. CASE ReadRows /\ feed # "stories"
  <2>1. /\ request.step = "cached" /\ UNCHANGED <<tag, held>>
        /\ request' = [request EXCEPT !.step = "extra", !.rows = {PostEntry(i) : i \in Scoped}]
        /\ renamed' = [renamed EXCEPT !.request = FALSE]
      BY <1>8 DEF ReadRows, Step
  <2>2. /\ DOMAIN request' = {"step", "open", "parts", "rows"} /\ request'.step = "extra"
        /\ request'.open = request.open /\ request'.parts = request.parts
        /\ request'.rows = {PostEntry(i) : i \in Scoped}
      BY <2>1 DEF PartsInv
  <2>3. renamed' \in [held : BOOLEAN, request : BOOLEAN] /\ renamed'.held = renamed.held
      BY <2>1 DEF Stamped
  <2>4. Stamped' /\ HeldInv'
    <3>1. Stamped'
        BY <1>1, <2>3 DEF Stamped
    <3>2. HeldInv'
        BY <1>1, <2>1, <2>3 DEF HeldInv, Unchanged, Scoped, Entry, FaceAsOf
    <3> QED
        BY <3>1, <3>2
  <2>5. PartsInv'
      BY <1>1, <1>8, <2>1, <2>2 DEF PartsInv
  <2>6. RowsInv'
    <3>1. \A i \in Scoped : Entry(i, posts[i].by, posts[i].by \in DOMAIN faces) \in request'.rows
        BY <2>2 DEF PostEntry, Entry
    <3> QED
        BY <1>1, <3>1 DEF RowsInv, Unchanged, Scoped, Entry
  <2> QED
      BY <2>4, <2>5, <2>6
\* extra_slides: an unchanged post has the slides it had.
<1>9. CASE ReadExtra
  <2>1. /\ request.step = "extra" /\ UNCHANGED <<tag, held, renamed>>
        /\ request' = [request EXCEPT !.step = "avatars",
               !.rows = {[r EXCEPT !.slides = r.id \in DOMAIN posts /\ posts[r.id].slides] :
                           r \in request.rows}]
      BY <1>9 DEF ReadExtra, Step
  <2>2. /\ DOMAIN request' = {"step", "open", "parts", "rows"} /\ request'.step = "avatars"
        /\ request'.open = request.open /\ request'.parts = request.parts
        /\ request'.rows = {[r EXCEPT !.slides = r.id \in DOMAIN posts /\ posts[r.id].slides] :
                              r \in request.rows}
      BY <2>1 DEF PartsInv
  <2>3. PartsInv'
      BY <1>1, <2>1, <2>2 DEF PartsInv
  <2>4. \A i, b, f : i \in DOMAIN posts /\ Entry(i, b, f) \in request.rows
                       => Entry(i, b, f) \in request'.rows
    <3> SUFFICES ASSUME NEW i \in DOMAIN posts, NEW b, NEW f, Entry(i, b, f) \in request.rows
                 PROVE  Entry(i, b, f) \in request'.rows
        OBVIOUS
    <3> DEFINE r == Entry(i, b, f)
    <3>1. posts[i].slides \in BOOLEAN
        BY DEF Stamped, PostRow
    <3>2. r.id = i /\ r.slides = posts[i].slides
        BY DEF Entry
    <3>3. (r.id \in DOMAIN posts /\ posts[r.id].slides) = posts[i].slides
        BY <3>1, <3>2, Zenon
    <3>4. [r EXCEPT !.slides = posts[i].slides] = r
        BY DEF Entry
    <3> HIDE DEF r
    <3>5. [r EXCEPT !.slides = r.id \in DOMAIN posts /\ posts[r.id].slides] = r
        BY <3>3, <3>4, Zenon
    <3> QED
        BY <2>2, <3>5 DEF r
  <2>5. RowsInv'
    <3>1. Unchanged(request.parts[2][2])' = Unchanged(request.parts[2][2])
        BY <1>1, <2>2 DEF Unchanged, Scoped
    <3>2. \A i, b, f : Entry(i, b, f)' = Entry(i, b, f)
        BY <1>1 DEF Entry
    <3>3. Unchanged(request.parts[2][2]) \subseteq DOMAIN posts
        BY DEF Unchanged, Scoped
    <3> SUFFICES ASSUME feed # "stories", feed = "all" \/ ~renamed.request,
                        NEW i \in Unchanged(request.parts[2][2])
                 PROVE  \E b, f : /\ Entry(i, b, f) \in request'.rows
                                  /\ ~renamed.request => b = posts[i].by
        BY <1>1, <2>1, <3>1, <3>2 DEF RowsInv
    <3>4. PICK b, f : /\ Entry(i, b, f) \in request.rows
                      /\ ~renamed.request => b = posts[i].by
        BY <2>1 DEF RowsInv
    <3> QED
        BY <2>4, <3>3, <3>4
  <2> QED
      BY <1>3, <2>1, <2>3, <2>5
\* avatar_files: the body is complete, and goes out.
<1>10. CASE ReadAvatars
  <2>1. /\ request.step = "avatars" /\ request' = Idle /\ tag' = request.parts
        /\ held' = request.open \cup {[r EXCEPT !.face = r.by \in DOMAIN faces] : r \in request.rows}
        /\ renamed' = [renamed EXCEPT !.held = renamed.request]
      BY <1>10 DEF ReadAvatars, Answer, Step
  <2>2. feed # "stories"
      BY <2>1 DEF PartsInv
  <2>3. /\ request.parts[1] = request.open /\ request.parts[2][2] \in 0 .. clock
        /\ request.parts[3] \in 0 .. clock
      BY <2>1, <2>2 DEF PartsInv
  <2>4. renamed' \in [held : BOOLEAN, request : BOOLEAN] /\ renamed'.held = renamed.request
      BY <2>1 DEF Stamped
  <2>5. Stamped'
      BY <1>1, <2>4 DEF Stamped
  <2>6. \A i, b, f, g : Entry(i, b, f) \in request.rows /\ g = (b \in DOMAIN faces)
                            => Entry(i, b, g) \in held'
    <3> SUFFICES ASSUME NEW i, NEW b, NEW f, NEW g, Entry(i, b, f) \in request.rows,
                        g = (b \in DOMAIN faces)
                 PROVE  Entry(i, b, g) \in held'
        OBVIOUS
    <3> DEFINE r == Entry(i, b, f)
    <3>1. [r EXCEPT !.face = r.by \in DOMAIN faces] = Entry(i, b, g)
        BY DEF Entry
    <3> QED
        BY <2>1, <3>1
  <2>7. HeldInv'
    <3>1. Unchanged(tag[2][2])' = Unchanged(request.parts[2][2])
        BY <1>1, <2>1 DEF Unchanged, Scoped
    <3>2. \A i, b, f : Entry(i, b, f)' = Entry(i, b, f)
        BY <1>1 DEF Entry
    <3>3. \A b, g : g = (b \in DOMAIN faces) => FaceAsOf(b, g, tag[3])'
        BY <1>1 DEF FaceAsOf
    <3>4. ASSUME feed = "all" \/ ~renamed.request, NEW i \in Unchanged(request.parts[2][2])
          PROVE  \E b, f : /\ Entry(i, b, f) \in held'
                           /\ ~renamed.request => b = posts[i].by /\ FaceAsOf(b, f, tag[3])'
      <4>1. PICK b, f : /\ Entry(i, b, f) \in request.rows
                        /\ ~renamed.request => b = posts[i].by
          BY <2>1, <2>2, <3>4 DEF RowsInv
      <4>2. PICK g : g = (b \in DOMAIN faces)
          OBVIOUS
      <4>3. Entry(i, b, g) \in held' /\ FaceAsOf(b, g, tag[3])'
          BY <2>6, <3>3, <4>1, <4>2
      <4> QED
          BY <4>1, <4>3
    <3>5. tag'[1] \subseteq held' /\ tag'[2][2] \in 0 .. clock /\ tag'[3] \in 0 .. clock
        BY <2>1, <2>3
    <3> QED
        BY <1>1, <2>2, <2>4, <3>1, <3>2, <3>4, <3>5 DEF HeldInv
  <2> QED
      BY <1>5, <2>1, <2>5, <2>7
<1> QED
    BY <1>2, <1>4, <1>6, <1>7, <1>8, <1>9, <1>10 DEF Reader

LEMMA FeedInit == Init => FeedInv
BY DEF Init, FeedInv, Stamped, PartsInv, RowsInv, HeldInv, Idle, NoTag

LEMMA FeedStep == FeedInv /\ [Next]_vars => FeedInv'
<1> SUFFICES ASSUME FeedInv, [Next]_vars PROVE FeedInv'
    OBVIOUS
<1>1. CASE UNCHANGED <<server, data, renamed>>
  <2>1. UNCHANGED <<posts, stories, faces, clock, feed, request, tag, held, renamed>>
      BY <1>1 DEF server, data
  <2>2. Stamped' /\ PartsInv'
      BY <2>1 DEF FeedInv, Stamped, PartsInv
  <2>3. RowsInv'
      BY <2>1 DEF FeedInv, RowsInv, Unchanged, Scoped, Entry
  <2>4. HeldInv'
      BY <2>1 DEF FeedInv, HeldInv, Unchanged, Scoped, Entry, FaceAsOf
  <2> QED
      BY <2>2, <2>3, <2>4 DEF FeedInv
<1>2. CASE \/ \E i \in Posts : StorePost(i) \/ MergePost(i) \/ PrunePost(i)
           \/ \E n \in Names : RefreshFace(n) \/ \E m \in Names : RenameAccount(n, m)
           \/ \E s \in Stories : StoreStory(s) \/ DropStory(s)
    BY <1>2, CommitMoves, MovesKeep DEF FeedInv
<1> QED
    BY <1>1, <1>2, ReaderKeep DEF Next, Scraper, vars

\* While the ETag is the one a request would compute, no stamp is later than its, so
\* every row that there is was there, as it is.
LEMMA NothingHidden == FeedInv => NothingCachedAway
<1> SUFFICES ASSUME FeedInv, tag # NoTag, tag = Signal PROVE UpToDate
    BY DEF NothingCachedAway
<1> USE DEF FeedInv
<1>1. CASE feed = "stories"
  <2>1. tag[1] = StoriesStats
      BY <1>1 DEF Signal
  <2>2. \A s \in DOMAIN stories : s \in held
      BY <1>1, <2>1, QueryBounds DEF HeldInv
  <2> QED
      BY <1>1, <2>2 DEF UpToDate, Entries
<1>2. CASE feed # "stories"
  <2>1. tag[1] = OpenAlerts /\ tag[2] = CountAndLatest /\ tag[3] = FaceStamp
      BY <1>2 DEF Signal
  <2>2. OpenAlerts \subseteq held
      BY <1>2, <2>1 DEF HeldInv
  <2>3. \A i \in Scoped : i \in Unchanged(tag[2][2])
      BY <2>1, QueryBounds DEF Unchanged
  <2>4. CASE ~renamed.held
    <3>1. ASSUME NEW i \in Scoped PROVE PostEntry(i) \in held
      <4>1. PICK b, f : Entry(i, b, f) \in held /\ b = posts[i].by /\ FaceAsOf(b, f, tag[3])
          BY <1>2, <2>3, <2>4, <3>1 DEF HeldInv
      <4>2. ~(b \in DOMAIN faces /\ faces[b] > tag[3])
        <5> SUFFICES ASSUME b \in DOMAIN faces PROVE ~(faces[b] > tag[3])
            OBVIOUS
        <5>1. feed \in {"all", b}
            BY <3>1, <4>1 DEF Scoped
        <5>2. faces[b] <= FaceStamp /\ FaceStamp \in 0 .. clock /\ faces[b] \in 0 .. clock
            BY <5>1, QueryBounds DEF Stamped
        <5>3. clock \in Nat
            BY DEF Stamped
        <5> QED
            BY <2>1, <5>2, <5>3
      <4>3. f = (b \in DOMAIN faces)
          BY <4>1, <4>2 DEF FaceAsOf
      <4> QED
          BY <4>1, <4>3 DEF PostEntry, Entry
    <3> QED
        BY <1>2, <2>2, <2>4, <3>1 DEF UpToDate, Entries
  <2>5. CASE feed = "all" /\ renamed.held
    <3> DEFINE Less(e) == IF "id" \in DOMAIN e
                          THEN [id |-> e.id, shown |-> e.shown, slides |-> e.slides] ELSE e
    <3>1. ASSUME NEW i \in Scoped PROVE \E e \in held : Less(e) = Less(PostEntry(i))
      <4>1. PICK b, f : Entry(i, b, f) \in held
          BY <1>2, <2>3, <2>5, <3>1 DEF HeldInv
      <4>2. Less(Entry(i, b, f)) = [id |-> i, shown |-> posts[i].shown, slides |-> posts[i].slides]
          BY DEF Entry
      <4>3. Less(PostEntry(i)) = [id |-> i, shown |-> posts[i].shown, slides |-> posts[i].slides]
          BY DEF PostEntry
      <4> QED
          BY <4>1, <4>2, <4>3
    <3>2. \A e \in Entries : \E d \in held : Less(d) = Less(e)
        BY <1>2, <2>2, <3>1 DEF Entries
    <3>3. Nameless(Entries) = {Less(e) : e \in Entries} /\ Nameless(held) = {Less(e) : e \in held}
        BY DEF Nameless
    <3> HIDE DEF Less
    <3>4. Nameless(Entries) \subseteq Nameless(held)
        BY <3>2, <3>3
    <3> QED
        BY <1>2, <2>5, <3>4 DEF UpToDate
  <2>6. CASE feed # "all" /\ renamed.held
      BY <1>2, <2>6 DEF UpToDate
  <2> QED
      BY <2>4, <2>5, <2>6
<1> QED
    BY <1>1, <1>2

\* While the ETag a reader holds is the one a request would compute, the reader has
\* every entry as it is now, whatever was committed between the statements of the
\* request that gave it; only names and avatars may be older, after a rename
\* (feedserver/queries.py: feed_signal).
THEOREM NothingHides == Spec => []NothingCachedAway
BY FeedInit, FeedStep, NothingHidden, PTL DEF Spec
=============================================================================
