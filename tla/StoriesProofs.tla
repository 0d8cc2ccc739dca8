--------------------------- MODULE StoriesProofs ----------------------------
(***************************************************************************)
(* For all accounts, frames, hashes and limits and any number of runs and  *)
(* crashes: that the pictures on disk match the stories table, that no two *)
(* stories of a day look alike, and that a run's end leaves none that only *)
(* reshares a post and reports how many are left.                          *)
(***************************************************************************)
EXTENDS Stories, FiniteSetTheorems, TLAPS

\* What PicturesMatchRows leaves out: the row being given its file is there, a file is
\* doomed only once its row is gone, and only while the run's end deletes stories.
FilesFollowRows ==
    /\ pc = "stored" => hand.frame \in DOMAIN rows
    /\ doomed \cap DOMAIN rows = {}
    /\ pc \notin {"compare", "prune"} => doomed = {}

PicturesInv == PicturesMatchRows /\ FilesFollowRows

\* At the start there are neither rows nor files.
LEMMA PicturesInit == Init => PicturesInv
BY DEF Init, PicturesInv, PicturesMatchRows, FilesFollowRows

\* Every step of a run keeps rows and pictures together, a crash included.
LEMMA PicturesStep == PicturesInv /\ [Next]_vars => PicturesInv'
<1> SUFFICES ASSUME PicturesInv, [Next]_vars PROVE PicturesInv'
    OBVIOUS
<1> USE DEF PicturesInv, PicturesMatchRows, FilesFollowRows, table, run, history
<1>1. CASE StartRun
    BY <1>1 DEF StartRun
<1>2. ASSUME NEW u \in Users, Capture(u) PROVE PicturesInv'
    BY <1>2 DEF Capture
<1>3. CASE Discard
    BY <1>3 DEF Discard, Thrown
<1>4. CASE Ignore
    BY <1>4 DEF Ignore, Thrown
<1>5. CASE Insert
  \* A new row, whose picture is the one being stored.
  <2>1. DOMAIN rows' = DOMAIN rows \cup {hand.frame}
      BY <1>5 DEF Insert
  <2>2. pc = "captured" /\ pc' = "stored" /\ doomed = {} /\ UNCHANGED <<files, hand, doomed, torn, orphans>>
      BY <1>5 DEF Insert
  <2> QED
      BY <2>1, <2>2
<1>6. CASE Rename
    BY <1>6 DEF Rename
<1>7. CASE StoriesDone
    BY <1>7 DEF StoriesDone
<1>8. CASE Raise
    BY <1>8 DEF Raise, LeftTorn
<1>9. CASE Walk
    BY <1>9 DEF Walk
<1>10. CASE Compare
    BY <1>10 DEF Compare
<1>11. ASSUME NEW id \in Frames, CompareStory(id) PROVE PicturesInv'
  \* The row that goes is the only one whose file is doomed.
  <2>1. CASE Reshares(id)
    <3>1. DOMAIN rows' = DOMAIN rows \ {id}
        BY <1>11, <2>1 DEF CompareStory, Without
    <3> QED
        BY <1>11, <2>1, <3>1 DEF CompareStory
  <2>2. CASE ~Reshares(id)
      BY <1>11, <2>2 DEF CompareStory
  <2> QED
      BY <2>1, <2>2
<1>12. CASE DropFile
    BY <1>12 DEF DropFile, Discarded
<1>13. CASE Prune
  <2>1. DOMAIN rows' = DOMAIN rows \ Expired
      BY <1>13 DEF Prune, Without
  <2> QED
      BY <1>13, <2>1 DEF Prune
<1>14. CASE Finish
    BY <1>14 DEF Finish, Discarded
<1>15. CASE Fail
    BY <1>15 DEF Fail, LeftOrphans
<1>16. CASE Crash
    BY <1>16 DEF Crash, LeftTorn, LeftOrphans
<1>17. CASE UNCHANGED vars
    BY <1>17 DEF vars
<1> QED
    BY <1>1, <1>2, <1>3, <1>4, <1>5, <1>6, <1>7, <1>8, <1>9, <1>10, <1>11, <1>12, <1>13, <1>14,
       <1>15, <1>16, <1>17 DEF Next

\* A stored story's picture is on disk and a picture's story is stored, but for the one
\* being filed or discarded and what a crash at such a moment left.
THEOREM PicturesFollowRows == Spec => []PicturesMatchRows
<1>1. PicturesInv => PicturesMatchRows
    BY DEF PicturesInv
<1> QED
    BY <1>1, PicturesInit, PicturesStep, PTL DEF Spec

------------------------------------------------------------------------------
(* When the rows are from, and what is at hand.                             *)

ClockInv ==
    /\ now \in Nat /\ from \in Nat /\ from <= now /\ (pc # "idle" => from = now)
    /\ DOMAIN rows \subseteq Frames /\ IsFiniteSet(DOMAIN rows)
    /\ \A id \in DOMAIN rows : rows[id].at \in Nat /\ rows[id].at <= now
    /\ pc \in {"captured", "stored"} => hand.frame \in Frames
    /\ pc = "stored" => hand.frame \in DOMAIN rows /\ rows[hand.frame].at = now

LEMMA ClockInit == Init => ClockInv
<1> SUFFICES ASSUME Init PROVE ClockInv
    OBVIOUS
<1>1. DOMAIN rows = {} /\ IsFiniteSet(DOMAIN rows)
    BY FS_EmptySet DEF Init
<1> QED
    BY <1>1 DEF Init, ClockInv

\* A step of a run that leaves the table and the clock alone.
LEMMA ClockKeeps ==
    ASSUME ClockInv, UNCHANGED <<now, from, rows>>, pc' = "idle" \/ pc # "idle",
           pc' \notin {"captured", "stored"} \/ UNCHANGED <<pc, hand>>
    PROVE  ClockInv'
BY DEF ClockInv

\* Rows that go take nothing else along.
LEMMA RowsGo ==
    ASSUME NEW ids, rows' = Without(ids)
    PROVE  /\ DOMAIN rows' = DOMAIN rows \ ids
           /\ \A id \in DOMAIN rows' : rows'[id] = rows[id]
BY DEF Without

LEMMA ClockGone ==
    ASSUME ClockInv, NEW ids, rows' = Without(ids), UNCHANGED <<now, from>>,
           pc # "idle", pc' \notin {"captured", "stored"}
    PROVE  ClockInv'
<1>1. /\ DOMAIN rows' = DOMAIN rows \ ids
      /\ \A id \in DOMAIN rows' : rows'[id] = rows[id]
    BY RowsGo
<1>2. DOMAIN rows' \in SUBSET DOMAIN rows
    BY <1>1
<1>3. IsFiniteSet(DOMAIN rows')
    BY <1>2, FS_Subset DEF ClockInv
<1> QED
    BY <1>1, <1>3 DEF ClockInv

\* The new row is the only one that is new.
LEMMA RowComes ==
    ASSUME Insert
    PROVE  /\ hand.frame \notin DOMAIN rows
           /\ DOMAIN rows' = DOMAIN rows \cup {hand.frame}
           /\ rows'[hand.frame] = [user |-> hand.user, at |-> now]
           /\ \A id \in DOMAIN rows : rows'[id] = rows[id]
BY DEF Insert

LEMMA ClockStep == ClockInv /\ [Next]_vars => ClockInv'
<1> SUFFICES ASSUME ClockInv, [Next]_vars PROVE ClockInv'
    OBVIOUS
<1> USE DEF table, run, history
<1>1. CASE StartRun
  <2>1. PICK t \in now + 1 .. MaxTime : now' = t /\ from' = t
      BY <1>1 DEF StartRun
  <2>2. now' \in Nat /\ now < now'
      BY <2>1, StoriesAssumption DEF ClockInv
  <2> QED
      BY <1>1, <2>1, <2>2 DEF StartRun, ClockInv
<1>2. ASSUME NEW u \in Users, Capture(u) PROVE ClockInv'
    BY <1>2 DEF Capture, ClockInv
<1>3. CASE Discard \/ Ignore
    BY <1>3, ClockKeeps DEF Discard, Ignore, Thrown
<1>4. CASE Insert
  <2>1. IsFiniteSet(DOMAIN rows \cup {hand.frame})
      BY FS_AddElement DEF ClockInv
  <2>2. pc = "captured" /\ pc' = "stored" /\ UNCHANGED <<now, from, hand>>
      BY <1>4 DEF Insert
  <2> QED
      BY <1>4, <2>1, <2>2, RowComes DEF ClockInv
<1>5. CASE Rename \/ StoriesDone \/ Raise \/ Walk \/ Compare \/ DropFile
    BY <1>5, ClockKeeps DEF Rename, StoriesDone, Raise, Walk, Compare, DropFile, Discarded
<1>6. ASSUME NEW id \in Frames, CompareStory(id) PROVE ClockInv'
  <2>1. pc = "compare" /\ UNCHANGED <<pc, now, from, hand>>
      BY <1>6 DEF CompareStory
  <2>2. UNCHANGED rows \/ rows' = Without({id})
      BY <1>6 DEF CompareStory
  <2> QED
      BY <2>1, <2>2, ClockKeeps, ClockGone
<1>7. CASE Prune
    BY <1>7, ClockGone DEF Prune
<1>8. CASE Finish \/ Fail \/ Crash
    BY <1>8, ClockKeeps DEF Finish, Fail, Crash, Discarded
<1>9. CASE UNCHANGED vars
    BY <1>9 DEF vars, ClockInv
<1> QED
    BY <1>1, <1>2, <1>3, <1>4, <1>5, <1>6, <1>7, <1>8, <1>9 DEF Next

------------------------------------------------------------------------------
(* No story is stored twice in a day.                                       *)

LEMMA DistanceSymmetric ==
    ASSUME NEW f \in Frames, NEW g \in Frames
    PROVE  Distance(f, g) = Distance(g, f)
<1>1. Hash[f] \in Int /\ Hash[g] \in Int
    BY StoriesAssumption
<1> QED
    BY <1>1 DEF Distance

\* Rows that stay or go make no twins.
LEMMA TwinsKeep ==
    ASSUME NoTwins, DOMAIN rows' \subseteq DOMAIN rows,
           \A id \in DOMAIN rows' : rows'[id] = rows[id]
    PROVE  NoTwins'
BY DEF NoTwins

\* A story is stored only if none of the last day looks like it.
LEMMA TwinsInsert ==
    ASSUME ClockInv, NoTwins, Insert
    PROVE  NoTwins'
<1> DEFINE f == hand.frame
<1>1. f \in Frames /\ f \notin DOMAIN rows /\ ~Duplicate(hand.user, f)
    BY DEF Insert, Discards, ClockInv
<1>2. /\ DOMAIN rows' = DOMAIN rows \cup {f}
      /\ rows'[f] = [user |-> hand.user, at |-> now]
      /\ \A id \in DOMAIN rows : rows'[id] = rows[id]
    BY RowComes
<1>3. Day \in Nat /\ now \in Nat
    BY StoriesAssumption DEF ClockInv
<1>4. ASSUME NEW id \in DOMAIN rows, rows[id].at > now - Day
      PROVE  ~(Distance(f, id) <= Close(hand.user, rows[id].user))
    BY <1>1, <1>4 DEF Duplicate
<1>5. Own \in Nat /\ Other \in Nat
    BY StoriesAssumption
<1>6. ASSUME NEW id \in DOMAIN rows, rows[id].at > now - Day
      PROVE  /\ Distance(f, id) > Close(hand.user, rows[id].user)
             /\ Distance(id, f) > Close(hand.user, rows[id].user)
  <2>1. Distance(f, id) = Distance(id, f) /\ id \in Frames
      BY <1>1, DistanceSymmetric DEF ClockInv
  <2>2. Distance(f, id) \in Int
      BY <1>1, <2>1, StoriesAssumption DEF Distance
  <2>3. Close(hand.user, rows[id].user) \in Int
      BY <1>5 DEF Close
  <2> QED
      BY <1>4, <1>6, <2>1, <2>2, <2>3
<1>7. ASSUME NEW id \in DOMAIN rows', NEW other \in DOMAIN rows',
             id # other, rows'[id].at - rows'[other].at \in 0 .. Day - 1
      PROVE  Distance(id, other) > IF rows'[id].user = rows'[other].user THEN Own ELSE Other
  <2>1. CASE id \in DOMAIN rows /\ other \in DOMAIN rows
      BY <1>2, <1>7, <2>1 DEF NoTwins
  <2>2. CASE id = f /\ other \in DOMAIN rows
    <3>1. rows'[id].at = now /\ rows'[other] = rows[other] /\ rows[other].at \in Nat
        BY <1>2, <2>2 DEF ClockInv
    <3>2. rows[other].at > now - Day
        BY <1>3, <1>7, <3>1
    <3> QED
        BY <1>2, <1>6, <2>2, <3>2 DEF Close
  <2>3. CASE id \in DOMAIN rows /\ other = f
    <3>1. /\ rows'[other].at = now /\ rows'[id] = rows[id]
          /\ rows[id].at \in Nat /\ rows[id].at <= now
        BY <1>2, <2>3 DEF ClockInv
    <3>2. rows[id].at > now - Day
        BY <1>3, <1>7, <3>1
    <3> QED
        BY <1>2, <1>6, <2>3, <3>2 DEF Close
  <2> QED
      BY <1>2, <1>7, <2>1, <2>2, <2>3
<1> QED
    BY <1>7 DEF NoTwins

LEMMA TwinsStep == ClockInv /\ NoTwins /\ [Next]_vars => NoTwins'
<1> SUFFICES ASSUME ClockInv, NoTwins, [Next]_vars PROVE NoTwins'
    OBVIOUS
<1> USE DEF table, run, history
<1>1. CASE UNCHANGED rows
    BY <1>1 DEF NoTwins
<1>2. ASSUME NEW ids, rows' = Without(ids) PROVE NoTwins'
    BY <1>2, RowsGo, TwinsKeep
<1>3. ASSUME NEW u \in Users, Capture(u) PROVE UNCHANGED rows
    BY <1>3 DEF Capture
<1>4. CASE Discard \/ Ignore \/ Rename \/ StoriesDone \/ Raise \/ Walk \/ Compare
    BY <1>1, <1>4 DEF Discard, Ignore, Thrown, Rename, StoriesDone, Raise, Walk, Compare
<1>5. ASSUME NEW id \in Frames, CompareStory(id) PROVE NoTwins'
    BY <1>1, <1>2, <1>5 DEF CompareStory
<1>6. CASE StartRun \/ DropFile \/ Finish \/ Fail \/ Crash \/ UNCHANGED vars
    BY <1>1, <1>6 DEF StartRun, DropFile, Finish, Fail, Crash, Discarded, vars
<1>7. CASE Prune
    BY <1>2, <1>7 DEF Prune
<1> QED
    BY <1>1, <1>3, <1>4, <1>5, <1>6, <1>7, TwinsInsert DEF Next

\* No two stories stored within a day of each other look alike, by the standard that
\* fits whose they are (stories.py _find_story_duplicate).
THEOREM NoTwinsStored == Spec => []NoTwins
<1>1. Init => NoTwins
    BY DEF Init, NoTwins
<1> QED
    BY <1>1, ClockInit, ClockStep, TwinsStep, PTL DEF Spec

------------------------------------------------------------------------------
(* What a run counts and what its end compares.                             *)

\* The rows of this run.
Kept == {id \in DOMAIN rows : rows[id].at >= from}

\* A row without its file is from an earlier run, unless scrape_stories raised.
TornBefore ==
    pc # "idle" /\ ~raised =>
        \A id \in torn \cap DOMAIN rows :
            rows[id].at < from \/ (pc = "stored" /\ id = hand.frame)

\* Until scrape_stories raises, the count is the run's rows, but for the one being filed;
\* the comparison has them before it or behind it.
CountInv ==
    /\ new \in Int
    /\ pc # "idle" => ~finished
    /\ pc # "idle" /\ ~raised => Cardinality(Kept) = IF pc = "stored" THEN new + 1 ELSE new
    /\ pc = "compare" => /\ todo \subseteq Kept
                         /\ ~raised => \A id \in Kept \ todo : Shared[id] \notin posted
    /\ pc = "prune" /\ ~raised => \A id \in Kept : Shared[id] \notin posted
    /\ ResharesGone

LEMMA CountInit == Init => TornBefore /\ CountInv
BY DEF Init, TornBefore, CountInv, ResharesGone

LEMMA KeptFinite ==
    ASSUME ClockInv
    PROVE  IsFiniteSet(Kept) /\ Cardinality(Kept) \in Nat
<1>1. Kept \in SUBSET DOMAIN rows
    BY DEF Kept
<1> QED
    BY <1>1, FS_Subset, FS_CardinalityType DEF ClockInv

LEMMA TornStep == ClockInv /\ PicturesInv /\ TornBefore /\ [Next]_vars => TornBefore'
<1> SUFFICES ASSUME ClockInv, PicturesInv, TornBefore, [Next]_vars PROVE TornBefore'
    OBVIOUS
<1> USE DEF TornBefore, table, run, history
<1>1. CASE StartRun
  <2>1. now' = from' /\ now' > now /\ UNCHANGED <<rows, torn>>
      BY <1>1 DEF StartRun, ClockInv
  <2>2. now' \in Nat
      BY <1>1, StoriesAssumption DEF StartRun, ClockInv
  <2>3. \A id \in DOMAIN rows : rows[id].at < from'
      BY <2>1, <2>2 DEF ClockInv
  <2> QED
      BY <2>1, <2>3
<1>2. ASSUME NEW u \in Users, Capture(u) PROVE TornBefore'
    BY <1>2 DEF Capture
<1>3. CASE Discard \/ Ignore \/ StoriesDone \/ Raise \/ Walk \/ Compare \/ DropFile
    BY <1>3 DEF Discard, Ignore, Thrown, StoriesDone, Raise, Walk, Compare, DropFile, Discarded
\* A file a crash left behind is stored over.
<1>4. CASE Insert
  <2>1. pc = "captured" /\ pc' = "stored" /\ UNCHANGED <<from, hand, torn, raised>>
      BY <1>4 DEF Insert
  <2> QED
      BY <1>4, <2>1, RowComes
<1>5. CASE Rename
    BY <1>5 DEF Rename
<1>6. ASSUME NEW ids, rows' = Without(ids), UNCHANGED <<torn, from, raised>>,
             pc \notin {"idle", "stored"}
      PROVE  TornBefore'
    BY <1>6, RowsGo
<1>7. ASSUME NEW id \in Frames, CompareStory(id) PROVE TornBefore'
  <2>1. pc = "compare" /\ UNCHANGED <<pc, torn, from, hand, raised>>
      BY <1>7 DEF CompareStory
  <2>2. UNCHANGED rows \/ rows' = Without({id})
      BY <1>7 DEF CompareStory
  <2> QED
      BY <1>6, <2>1, <2>2
<1>8. CASE Prune
    BY <1>6, <1>8 DEF Prune
<1>9. CASE Finish \/ Fail \/ Crash \/ UNCHANGED vars
    BY <1>9 DEF Finish, Fail, Crash, Discarded, vars
<1> QED
    BY <1>1, <1>2, <1>3, <1>4, <1>5, <1>7, <1>8, <1>9 DEF Next

\* A step between two places of a run that changes neither its rows nor its count.
LEMMA CountKeeps ==
    ASSUME CountInv, UNCHANGED <<rows, from, new, raised, finished>>,
           pc \notin {"idle", "stored"}, pc' \notin {"idle", "stored"},
           pc' = "prune" => FALSE,
           pc' = "compare" => pc = "compare" /\ UNCHANGED <<todo, posted>>
    PROVE  CountInv'
<1>1. Kept' = Kept
    BY DEF Kept
<1> QED
    BY <1>1 DEF CountInv, ResharesGone

\* The run's end: it finished what it counted, or did not finish.
LEMMA CountEnds ==
    ASSUME CountInv, pc' = "idle", new' \in Int, UNCHANGED finished, pc # "idle"
    PROVE  CountInv'
BY DEF CountInv, ResharesGone

LEMMA CountInserted == ClockInv /\ CountInv /\ Insert => CountInv'
<1> SUFFICES ASSUME ClockInv, CountInv, Insert PROVE CountInv'
    OBVIOUS
<1> DEFINE f == hand.frame
<1>1. /\ f \notin DOMAIN rows
      /\ DOMAIN rows' = DOMAIN rows \cup {f}
      /\ rows'[f].at = now
      /\ \A id \in DOMAIN rows : rows'[id] = rows[id]
    BY RowComes
<1>2. pc = "captured" /\ pc' = "stored" /\ UNCHANGED <<from, new, raised, finished>>
    BY DEF Insert, run, history
<1>3. now = from /\ from \in Nat
    BY <1>2 DEF ClockInv
<1>4. Kept' = Kept \cup {f} /\ f \notin Kept
    BY <1>1, <1>2, <1>3 DEF Kept
<1>5. Cardinality(Kept') = Cardinality(Kept) + 1
    BY <1>4, KeptFinite, FS_AddElement
<1> QED
    BY <1>2, <1>5 DEF CountInv, ResharesGone

\* A story of the run compared with the posts.
LEMMA CountCompared ==
    ASSUME ClockInv, PicturesInv, TornBefore, CountInv, NEW id \in Frames, CompareStory(id)
    PROVE  CountInv'
<1>1. /\ pc = "compare" /\ pc' = "compare" /\ id \in todo /\ todo' = todo \ {id}
      /\ UNCHANGED <<from, posted, raised, finished>>
    BY DEF CompareStory, history
<1>2. id \in Kept /\ id \in DOMAIN rows /\ rows[id].at >= from
    BY <1>1 DEF CountInv, Kept
<1>3. CASE Reshares(id)
  <2>1. rows' = Without({id}) /\ new' = new - 1
      BY <1>3 DEF CompareStory
  <2>2. /\ DOMAIN rows' = DOMAIN rows \ {id}
        /\ \A i \in DOMAIN rows' : rows'[i] = rows[i]
      BY <2>1, RowsGo
  <2>3. Kept' = Kept \ {id}
      BY <1>1, <2>2 DEF Kept
  <2>4. Cardinality(Kept') = Cardinality(Kept) - 1
      BY <1>2, <2>3, KeptFinite, FS_RemoveElement
  <2>5. Kept' \ todo' = Kept \ todo /\ todo' \subseteq Kept'
      BY <1>1, <2>3 DEF CountInv
  <2> QED
      BY <1>1, <2>1, <2>4, <2>5 DEF CountInv, ResharesGone
<1>4. CASE ~Reshares(id)
  <2>1. UNCHANGED <<rows, new>>
      BY <1>4 DEF CompareStory
  \* Unless scrape_stories raised its file is there, so it was no reshare.
  <2>2. ~raised => id \in files
    <3>1. ~raised => id \notin torn
        BY <1>1, <1>2 DEF TornBefore, ClockInv
    <3> QED
        BY <1>1, <1>2, <3>1 DEF PicturesInv, PicturesMatchRows
  <2>3. ~raised => Shared[id] \notin posted
      BY <1>4, <2>2 DEF Reshares
  <2>4. Kept' = Kept
      BY <1>1, <2>1 DEF Kept
  <2> QED
      BY <1>1, <2>1, <2>3, <2>4 DEF CountInv, ResharesGone
<1> QED
    BY <1>3, <1>4

\* What expires at the end of a run is not of that run.
LEMMA CountPruned == ClockInv /\ CountInv /\ Prune => CountInv'
<1> SUFFICES ASSUME ClockInv, CountInv, Prune PROVE CountInv'
    OBVIOUS
<1>1. /\ pc = "compare" /\ pc' = "prune" /\ todo = {} /\ rows' = Without(Expired)
      /\ posted' \subseteq posted /\ UNCHANGED <<from, new, raised, finished>>
    BY DEF Prune, history
<1>2. /\ DOMAIN rows' = DOMAIN rows \ Expired
      /\ \A i \in DOMAIN rows' : rows'[i] = rows[i]
    BY <1>1, RowsGo
<1>3. Retain \in Nat /\ now \in Nat /\ from = now
    BY <1>1, StoriesAssumption DEF ClockInv
<1>4. Kept \cap Expired = {}
    BY <1>3 DEF Kept, Expired, ClockInv
<1>5. Kept' = Kept
    BY <1>1, <1>2, <1>4 DEF Kept
<1> QED
    BY <1>1, <1>5 DEF CountInv, ResharesGone

LEMMA CountStep == ClockInv /\ PicturesInv /\ TornBefore /\ CountInv /\ [Next]_vars => CountInv'
<1> SUFFICES ASSUME ClockInv, PicturesInv, TornBefore, CountInv, [Next]_vars PROVE CountInv'
    OBVIOUS
<1> USE DEF table, run, history
<1>1. CASE StartRun
  <2>1. now' = from' /\ now' > now /\ UNCHANGED rows /\ new' = 0 /\ pc' = "tray"
      BY <1>1 DEF StartRun, ClockInv
  <2>2. now' \in Nat
      BY <1>1, StoriesAssumption DEF StartRun, ClockInv
  <2>3. Kept' = {}
      BY <2>1, <2>2 DEF Kept, ClockInv
  <2> QED
      BY <1>1, <2>1, <2>3, FS_EmptySet DEF StartRun, CountInv, ResharesGone
<1>2. ASSUME NEW u \in Users, Capture(u) PROVE CountInv'
  <2>1. pc = "tray" /\ pc' \in {"tray", "captured"} /\ UNCHANGED <<rows, from, new, raised, finished>>
      BY <1>2 DEF Capture
  <2> QED
      BY <2>1, CountKeeps
<1>3. CASE Discard \/ Ignore
  <2>1. pc = "captured" /\ pc' = "tray" /\ UNCHANGED <<rows, from, raised, finished>> /\ new' = new + 0
      BY <1>3 DEF Discard, Ignore, Thrown
  <2>2. UNCHANGED new
      BY <2>1 DEF CountInv
  <2> QED
      BY <2>1, <2>2, CountKeeps
<1>4. CASE Rename
  <2>1. /\ pc = "stored" /\ pc' = "tray" /\ new' = new + 1
        /\ UNCHANGED <<rows, from, raised, finished>>
      BY <1>4 DEF Rename
  <2>2. Kept' = Kept
      BY <2>1 DEF Kept
  <2> QED
      BY <2>1, <2>2 DEF CountInv, ResharesGone
<1>5. CASE Raise
  <2>1. /\ pc' = "walk" /\ new' = 0 /\ raised' = TRUE /\ pc # "idle" /\ UNCHANGED finished
      BY <1>5 DEF Raise
  <2> QED
      BY <2>1 DEF CountInv, ResharesGone
<1>6. CASE StoriesDone \/ Walk
  <2>1. /\ pc \in {"tray", "walk"} /\ pc' \in {"walk", "finish"}
        /\ UNCHANGED <<rows, from, new, raised, finished>>
      BY <1>6 DEF StoriesDone, Walk
  <2> QED
      BY <2>1, CountKeeps
<1>7. CASE Compare
  <2>1. /\ pc = "finish" /\ pc' = "compare" /\ todo' = IF new = 0 THEN {} ELSE Kept
        /\ UNCHANGED <<rows, from, new, raised, finished>>
      BY <1>7 DEF Compare, Kept
  <2>2. Kept' = Kept
      BY <2>1 DEF Kept
  <2>3. ~raised => Kept \subseteq todo'
    <3>1. ASSUME ~raised, new = 0 PROVE Kept = {}
      <4>1. Cardinality(Kept) = 0
          BY <2>1, <3>1 DEF CountInv
      <4> QED
          BY <4>1, KeptFinite, FS_EmptySet
    <3> QED
        BY <2>1, <3>1
  <2> QED
      BY <2>1, <2>2, <2>3 DEF CountInv, ResharesGone
<1>8. CASE DropFile
    BY <1>8, CountKeeps DEF DropFile, Discarded
<1>9. CASE Finish
  <2>1. /\ pc = "prune" /\ pc' = "idle" /\ UNCHANGED <<rows, from, new, raised, posted>>
      BY <1>9 DEF Finish, Discarded
  <2>2. Kept' = Kept
      BY <2>1 DEF Kept
  <2>3. ~raised => new = Cardinality(Kept) /\ \A id \in Kept : Shared[id] \notin posted
      BY <2>1 DEF CountInv
  <2> QED
      BY <2>1, <2>2, <2>3 DEF CountInv, ResharesGone, Kept
<1>10. CASE Fail \/ Crash
  <2>1. pc # "idle" /\ pc' = "idle" /\ new' \in {0, new} /\ UNCHANGED finished
      BY <1>10 DEF Fail, Crash
  <2> QED
      BY <2>1, CountEnds DEF CountInv
<1>11. CASE UNCHANGED vars
  <2>1. UNCHANGED <<rows, from, new, raised, finished, pc, todo, posted>>
      BY <1>11 DEF vars
  <2>2. Kept' = Kept
      BY <2>1 DEF Kept
  <2> QED
      BY <2>1, <2>2 DEF CountInv, ResharesGone
<1> QED
    BY <1>1, <1>2, <1>3, <1>4, <1>5, <1>6, <1>7, <1>8, <1>9, <1>10, <1>11,
       CountInserted, CountCompared, CountPruned DEF Next

\* After a run that ended as it should, none of the stories it stored only reshares a
\* stored post, and the number it reports is how many are left (reshare.py
\* drop_reshared_stories, scrape.py _finish_run).
THEOREM ReshareFreeEnds == Spec => []ResharesGone
<1>1. CountInv => ResharesGone
    BY DEF CountInv
<1> QED
    BY <1>1, PicturesInit, PicturesStep, ClockInit, ClockStep, CountInit, TornStep, CountStep,
       PTL DEF Spec
=============================================================================
