----------------------------- MODULE WalkProofs -----------------------------
(***************************************************************************)
(* For feeds of every length and kind and all limits: that a walk stops    *)
(* within a card of its stop reason, that it gives each row its own link,  *)
(* opens a bounded number of share sheets for a card, and ends for known   *)
(* posts only when it met enough of them.                                  *)
(***************************************************************************)
EXTENDS Walk, FiniteSetTheorems, TLAPS

\* A card handled after the stop reason is followed by a look at it.
LookNext ==
    /\ afterOver \in {0, 1}
    /\ afterOver = 1 => over /\ step \in {"dump", "limit", "stopped", "empty", "seen"}

\* A walk starts with nothing handled.
LEMMA LookInit == Init => LookNext
BY DEF Init, LookNext

\* Each handled card is followed by a dump, and a dump asks for a reason to stop first.
LEMMA LookStep == LookNext /\ [Next]_vars => LookNext'
<1> SUFFICES ASSUME LookNext, [Next]_vars PROVE LookNext'
    OBVIOUS
<1> USE DEF LookNext
<1>1. CASE Over
    BY <1>1 DEF Over, history
<1>2. CASE Dump
  <2>1. UNCHANGED <<over, afterOver>>
      BY <1>2 DEF Dump, history
  <2>2. over => step' \in {"limit", "stopped"}
      BY <1>2 DEF Dump, StopReason, End
  <2> QED
      BY <2>1, <2>2
<1>3. CASE ScrollOn
    BY <1>3 DEF ScrollOn, history
<1>4. ASSUME NEW c \in Cards, SheetSpent(c), step = "cards" PROVE LookNext'
  \* A card is handled in the middle of a dump's cards, so none was since the reason.
  <2>1. afterOver = 0
      BY <1>4
  <2>2. afterOver' = IF over THEN 1 ELSE 0
      BY <1>4, <2>1 DEF SheetSpent, AtMost
  <2> QED
      BY <1>4, <2>2 DEF SheetSpent, Redump
<1>5. ASSUME NEW c \in Cards, PassCard(c) \/ KnownCard(c) PROVE LookNext'
    BY <1>5 DEF PassCard, KnownCard, Card, history
<1>6. ASSUME NEW c \in Cards, BackfillCard(c) \/ RetryCard(c) \/ CaptureCard(c)
      PROVE  LookNext'
    BY <1>4, <1>6 DEF BackfillCard, RetryCard, CaptureCard, Card
<1>7. CASE UNCHANGED vars
    BY <1>7 DEF vars, history
<1> QED
    BY <1>1, <1>2, <1>3, <1>5, <1>6, <1>7 DEF Next, Walking

\* Once the memory guard or the clock says stop, one more card is handled at most.
THEOREM StopsInTime == Spec => []StopsWithinOneCard
<1>1. LookNext => StopsWithinOneCard
    BY DEF LookNext, StopsWithinOneCard
<1> QED
    BY <1>1, LookInit, LookStep, PTL DEF Spec

------------------------------------------------------------------------------
(* A row's link is its own.                                                 *)

\* What the clipboard holds is the last link read from it, or nothing.
OwnInv ==
    /\ clip \in {0, last} /\ 0 \notin named /\ DOMAIN link = Cards
    /\ ~lagged => /\ named \subseteq stored /\ known \subseteq stored
                  /\ \A c \in Cards : link[c] \in {0, c}

LEMMA OwnInit == Init => OwnInv
<1> SUFFICES ASSUME Init PROVE OwnInv
    OBVIOUS
<1>1. named \subseteq stored /\ known \subseteq stored /\ 0 \notin named
    BY DEF Init, Cards
<1>2. DOMAIN link = Cards /\ \A c \in Cards : link[c] \in {0, c}
    BY DEF Init
<1> QED
    BY <1>1, <1>2 DEF Init, OwnInv, LastAtStart

\* A copy keeps the clipboard's link the last one read, and unless it lagged the link
\* that is read is the card's own.
LEMMA FetchedOwn ==
    ASSUME clip \in {0, last}, NEW c \in Cards, NEW given, NEW f \in Fetched(c, given)
    PROVE  /\ f.clip \in {0, f.last}
           /\ ~f.lagged => ~lagged /\ f.url \in {0, c}
<1>1. CASE f = [url |-> 0, certain |-> FALSE, clip |-> clip, last |-> last,
                clearing |-> clearing, late |-> late, lagged |-> lagged]
    BY <1>1
<1>2. ASSUME NEW cleared, NEW lands, f = Copied(c, cleared, lands, given)
      PROVE  /\ f.clip \in {0, f.last}
             /\ ~f.lagged => ~lagged /\ f.url \in {0, c}
  <2> DEFINE on == IF lands # 0 THEN lands ELSE IF cleared THEN 0 ELSE clip
             fresh == on # 0 /\ (cleared \/ on # last)
  <2>1. /\ f.url = IF fresh \/ (given /\ on # 0 /\ StoredUnder(on, c)) THEN on ELSE 0
        /\ f.clip = on
        /\ f.last = IF fresh THEN on ELSE last
        /\ f.lagged = (lagged \/ lands \notin {0, c})
      BY <1>2 DEF Copied
  <2>2. f.clip \in {0, f.last}
      BY <2>1
  <2>3. ASSUME ~f.lagged PROVE ~lagged /\ f.url \in {0, c}
    <3>1. ~lagged /\ lands \in {0, c}
        BY <2>1, <2>3
    <3>2. fresh => on = c
        BY <3>1
    <3>3. StoredUnder(on, c) => on = c
        BY DEF StoredUnder
    <3> QED
        BY <2>1, <3>1, <3>2, <3>3
  <2> QED
      BY <2>2, <2>3
<1> QED
    BY <1>1, <1>2 DEF Fetched

LEMMA OwnStep == OwnInv /\ [Next]_vars => OwnInv'
<1> SUFFICES ASSUME OwnInv, [Next]_vars PROVE OwnInv'
    OBVIOUS
<1> USE DEF OwnInv
<1>1. CASE UNCHANGED <<rows, clipboard>>
    BY <1>1 DEF rows, clipboard
<1>2. CASE Over \/ Dump \/ ScrollOn \/ UNCHANGED vars
    BY <1>1, <1>2 DEF Over, Dump, ScrollOn, vars
<1>3. ASSUME NEW c \in Cards, PassCard(c) \/ KnownCard(c) PROVE OwnInv'
    BY <1>1, <1>3 DEF PassCard, KnownCard
<1>4. ASSUME NEW c \in Cards, BackfillCard(c) PROVE OwnInv'
  <2>1. PICK f \in Fetched(c, FALSE) :
            /\ Clipboard(f)
            /\ link' = IF f.url = 0 \/ Taken(f.url, c) THEN link ELSE [link EXCEPT ![c] = f.url]
      BY <1>4 DEF BackfillCard
  <2>2. /\ f.clip \in {0, f.last}
        /\ ~f.lagged => ~lagged /\ f.url \in {0, c}
      BY FetchedOwn
  <2>3. DOMAIN link' = Cards
      BY <2>1
  <2>4. ~lagged' => \A d \in Cards : link'[d] \in {0, d}
      BY <2>1, <2>2 DEF Clipboard
  <2> QED
      BY <1>4, <2>1, <2>2, <2>3, <2>4 DEF BackfillCard, Clipboard
<1>5. ASSUME NEW c \in Cards, RetryCard(c) PROVE OwnInv'
  <2>1. PICK f \in Fetched(c, TRUE) : Clipboard(f)
      BY <1>5 DEF RetryCard
  <2>2. /\ f.clip \in {0, f.last}
        /\ ~f.lagged => ~lagged /\ f.url \in {0, c}
      BY FetchedOwn
  <2> QED
      BY <1>5, <2>1, <2>2 DEF RetryCard, Clipboard, rows
<1>6. ASSUME NEW c \in Cards, CaptureCard(c) PROVE OwnInv'
  <2>1. PICK f \in Fetched(c, TRUE) :
            /\ Clipboard(f)
            /\ \/ /\ LinkCheck(c, f) = "stored" /\ known' = known \cup {c}
                  /\ UNCHANGED <<stored, named, link>>
               \/ /\ LinkCheck(c, f) # "stored"
                  /\ LET url == IF LinkCheck(c, f) = "stale" THEN 0 ELSE f.url IN
                     \/ UNCHANGED <<stored, known, named, link>>
                     \/ /\ "merged" \in StoreOutcomes(c, url)
                        /\ known' = known \cup {c} /\ UNCHANGED <<stored, named, link>>
                     \/ /\ stored' = stored \cup {c} /\ known' = known \cup {c}
                        /\ link' = [link EXCEPT ![c] = url]
                        /\ named' = named \cup ({url} \ {0})
      BY <1>6 DEF CaptureCard
  <2>2. /\ f.clip \in {0, f.last}
        /\ ~f.lagged => ~lagged /\ f.url \in {0, c}
      BY FetchedOwn
  <2>3. clip' = f.clip /\ last' = f.last /\ lagged' = f.lagged
      BY <2>1 DEF Clipboard
  \* The link is stored: the card is.
  <2>4. CASE LinkCheck(c, f) = "stored" /\ known' = known \cup {c} /\ UNCHANGED <<stored, named, link>>
    <3>1. f.url \in named
        BY <2>4 DEF LinkCheck
    <3>2. ~lagged' => c \in stored
        BY <2>2, <2>3, <3>1
    <3> QED
        BY <2>2, <2>3, <2>4, <3>2
  <2>5. CASE UNCHANGED <<stored, known, named, link>>
      BY <2>2, <2>3, <2>5
  <2>6. CASE /\ c \in stored
             /\ known' = known \cup {c} /\ UNCHANGED <<stored, named, link>>
      BY <2>2, <2>3, <2>6
  <2>7. ASSUME NEW url \in {0, f.url}, stored' = stored \cup {c}, known' = known \cup {c},
               link' = [link EXCEPT ![c] = url], named' = named \cup ({url} \ {0})
        PROVE  OwnInv'
    <3>1. DOMAIN link' = Cards /\ 0 \notin named'
        BY <2>7
    <3>2. ASSUME ~lagged' PROVE /\ named' \subseteq stored' /\ known' \subseteq stored'
                                /\ \A d \in Cards : link'[d] \in {0, d}
        BY <2>2, <2>3, <2>7, <3>2
    <3> QED
        BY <2>2, <2>3, <3>1, <3>2
  <2>8. ASSUME NEW url, "merged" \in StoreOutcomes(c, url) PROVE c \in stored
      BY <2>8 DEF StoreOutcomes
  <2> QED
      BY <2>1, <2>4, <2>5, <2>6, <2>7, <2>8
<1> QED
    BY <1>2, <1>3, <1>4, <1>5, <1>6 DEF Next, Walking

\* A row's link is its post's own, and a card taken for a stored post is one, unless a
\* copy of one card landed in the place of another's (capture.py, scrape._check_permalink).
THEOREM LinksStayOwn == Spec => []LinksTheirOwn
<1>1. OwnInv => LinksTheirOwn
    BY DEF OwnInv, LinksTheirOwn
<1> QED
    BY <1>1, OwnInit, OwnStep, PTL DEF Spec

------------------------------------------------------------------------------
(* How many share sheets a card gets.                                       *)

\* A card that is stored is known from then on, and gets one more sheet at most.
SheetsOf(c) == IF c \in thisRun THEN Retries + 2
               ELSE IF c \in known THEN Retries + 1 ELSE failures[c]

SheetsInv ==
    /\ failures \in [Cards -> 0..Retries] /\ fetches \in [Cards -> Nat]
    /\ \A c \in Cards : kind[c] # "blind" => fetches[c] <= SheetsOf(c)

LEMMA SheetsInit == Init => SheetsInv
<1> SUFFICES ASSUME Init PROVE SheetsInv
    OBVIOUS
<1>1. Retries \in Nat
    BY WalkAssumption
<1>2. failures = [c \in Cards |-> 0] /\ fetches = [c \in Cards |-> 0] /\ thisRun = {}
    BY DEF Init
<1> QED
    BY <1>1, <1>2 DEF SheetsInv, SheetsOf

\* A sheet for c makes one more for it, and leaves the others theirs.
LEMMA SheetsSpent ==
    ASSUME SheetsInv, NEW c \in Cards, SheetSpent(c)
    PROVE  /\ fetches' \in [Cards -> Nat]
           /\ fetches'[c] <= fetches[c] + 1
           /\ \A d \in Cards \ {c} : fetches'[d] = fetches[d]
<1>1. Retries \in Nat
    BY WalkAssumption
<1>2. fetches' = [fetches EXCEPT ![c] = AtMost(fetches[c] + 1, MaxFetches + 1)]
    BY DEF SheetSpent
<1>3. AtMost(fetches[c] + 1, MaxFetches + 1) \in Nat
    BY <1>1 DEF AtMost, MaxFetches, SheetsInv
<1>4. AtMost(fetches[c] + 1, MaxFetches + 1) <= fetches[c] + 1
    BY <1>1 DEF AtMost, MaxFetches, SheetsInv
<1> QED
    BY <1>2, <1>3, <1>4 DEF SheetsInv

\* What opens no sheet forgets no card it handled or knows.
LEMMA SheetsKept ==
    ASSUME SheetsInv, UNCHANGED <<kind, failures, fetches>>,
           thisRun \subseteq thisRun', known \subseteq known'
    PROVE  SheetsInv'
<1>1. Retries \in Nat
    BY WalkAssumption
<1>2. \A c \in Cards : SheetsOf(c) <= SheetsOf(c)'
    BY <1>1 DEF SheetsInv, SheetsOf
<1>3. \A c \in Cards : SheetsOf(c) \in Nat /\ SheetsOf(c)' \in Nat
    BY <1>1 DEF SheetsInv, SheetsOf
<1> QED
    BY <1>2, <1>3 DEF SheetsInv

\* A sheet for a card moves the card on.
LEMMA SheetsMoved ==
    ASSUME SheetsInv, NEW c \in Cards, SheetSpent(c), UNCHANGED kind,
           failures' \in [Cards -> 0..Retries],
           \A d \in Cards \ {c} : failures'[d] = failures[d],
           thisRun \subseteq thisRun', known \subseteq known',
           kind[c] # "blind" => SheetsOf(c) + 1 <= SheetsOf(c)'
    PROVE  SheetsInv'
<1>1. Retries \in Nat
    BY WalkAssumption
<1>2. /\ fetches' \in [Cards -> Nat] /\ fetches'[c] <= fetches[c] + 1
      /\ \A d \in Cards \ {c} : fetches'[d] = fetches[d]
    BY SheetsSpent
<1>3. \A d \in Cards : SheetsOf(d) \in Nat /\ SheetsOf(d)' \in Nat
    BY <1>1 DEF SheetsInv, SheetsOf
<1>4. \A d \in Cards \ {c} : SheetsOf(d) <= SheetsOf(d)'
    BY <1>1 DEF SheetsInv, SheetsOf
<1>5. ASSUME NEW d \in Cards, kind[d] # "blind" PROVE fetches'[d] <= SheetsOf(d)'
  <2>1. fetches[d] <= SheetsOf(d)
      BY <1>5 DEF SheetsInv
  <2>2. fetches[d] \in Nat /\ fetches'[d] \in Nat
      BY <1>2 DEF SheetsInv
  <2>3. CASE d = c
      BY <1>2, <1>3, <1>5, <2>1, <2>2, <2>3
  <2>4. CASE d # c
      BY <1>2, <1>3, <1>4, <2>1, <2>2, <2>4
  <2> QED
      BY <2>3, <2>4
<1> QED
    BY <1>2, <1>5 DEF SheetsInv

LEMMA SheetsStep == SheetsInv /\ [Next]_vars => SheetsInv'
<1> SUFFICES ASSUME SheetsInv, [Next]_vars PROVE SheetsInv'
    OBVIOUS
<1>1. Retries \in Nat
    BY WalkAssumption
<1>2. CASE Over \/ Dump \/ ScrollOn \/ UNCHANGED vars
  <2>1. UNCHANGED <<kind, failures, fetches, thisRun, known>>
      BY <1>2 DEF Over, Dump, ScrollOn, vars, run, rows, history
  <2> QED
      BY <2>1, SheetsKept
<1>3. ASSUME NEW c \in Cards, PassCard(c) \/ KnownCard(c) PROVE SheetsInv'
  <2>1. UNCHANGED <<kind, failures, fetches, known>> /\ thisRun \subseteq thisRun'
      BY <1>3 DEF PassCard, KnownCard, run, rows, history
  <2> QED
      BY <2>1, SheetsKept
<1>4. ASSUME NEW c \in Cards, BackfillCard(c) PROVE SheetsInv'
  <2>1. /\ c \notin thisRun /\ c \in known /\ thisRun' = thisRun \cup {c}
        /\ SheetSpent(c) /\ UNCHANGED <<kind, failures, known>>
      BY <1>4 DEF BackfillCard, SheetSpent
  <2>2. SheetsOf(c) + 1 <= SheetsOf(c)'
      BY <1>1, <2>1 DEF SheetsOf
  <2> QED
      BY <2>1, <2>2, SheetsMoved DEF SheetsInv
<1>5. ASSUME NEW c \in Cards, RetryCard(c) PROVE SheetsInv'
  <2>1. /\ c \notin thisRun \cup known /\ failures[c] < Retries
        /\ failures' = [failures EXCEPT ![c] = failures[c] + 1]
        /\ SheetSpent(c) /\ UNCHANGED <<kind, thisRun, known>>
      BY <1>5 DEF RetryCard, TriesLeft, SheetSpent, rows
  <2>2. failures[c] + 1 \in 0..Retries
      BY <1>1, <2>1 DEF SheetsInv
  <2>3. /\ failures' \in [Cards -> 0..Retries] /\ failures'[c] = failures[c] + 1
        /\ \A d \in Cards \ {c} : failures'[d] = failures[d]
      BY <2>1, <2>2 DEF SheetsInv
  <2>4. SheetsOf(c) + 1 <= SheetsOf(c)'
      BY <1>1, <2>1, <2>2, <2>3 DEF SheetsOf
  <2> QED
      BY <2>1, <2>3, <2>4, SheetsMoved
<1>6. ASSUME NEW c \in Cards, CaptureCard(c) PROVE SheetsInv'
  <2>1. /\ c \notin thisRun \cup known /\ thisRun \subseteq thisRun' /\ known \subseteq known'
        /\ SheetSpent(c) /\ UNCHANGED <<kind, failures>>
      BY <1>6 DEF CaptureCard, SheetSpent, HandledStored
  <2>2. kind[c] # "blind" => c \in known' \cup thisRun'
      BY <1>6 DEF CaptureCard, StoreOutcomes
  <2>3. kind[c] # "blind" => SheetsOf(c) + 1 <= SheetsOf(c)'
      BY <1>1, <2>1, <2>2 DEF SheetsOf, SheetsInv
  <2> QED
      BY <2>1, <2>3, SheetsMoved DEF SheetsInv
<1> QED
    BY <1>2, <1>3, <1>4, <1>5, <1>6 DEF Next, Walking

\* A card gets a sheet for each try and one for a backfill, however often the feed is
\* left and opened again (scrape._handle_card, link_failures, _backfill_permalink).
THEOREM SheetsStayBounded == Spec => []SheetsBounded
<1>1. SheetsInv => SheetsBounded
  <2> SUFFICES ASSUME SheetsInv, NEW c \in Cards, kind[c] # "blind"
               PROVE  fetches[c] <= Retries + 2
      BY DEF SheetsBounded
  <2>1. Retries \in Nat
      BY WalkAssumption
  <2> QED
      BY <2>1 DEF SheetsInv, SheetsOf
<1> QED
    BY <1>1, SheetsInit, SheetsStep, PTL DEF Spec

------------------------------------------------------------------------------
(* What ends a walk for known posts.                                        *)

\* The streak counts a card twice only when its sheet had left the feed in between.
StreakInv ==
    /\ streak \in Nat /\ counted \subseteq Cards /\ relapses \in 0..StopAfterSeen
    /\ relapses < StopAfterSeen => streak <= Cardinality(counted \cap thisRun) + relapses
    /\ step = "seen" => streak >= StopAfterSeen

LEMMA CardsFinite == ASSUME NEW S \in SUBSET Cards PROVE IsFiniteSet(S) /\ Cardinality(S) \in Nat
<1>1. IsFiniteSet(Cards)
    BY WalkAssumption, FS_Interval DEF Cards
<1> QED
    BY <1>1, FS_Subset, FS_CardinalityType

LEMMA StreakInit == Init => StreakInv
<1> SUFFICES ASSUME Init PROVE StreakInv
    OBVIOUS
<1>1. streak = 0 /\ counted = {} /\ relapses = 0 /\ step = "dump"
    BY DEF Init
<1>2. {} \cap thisRun = {} /\ Cardinality({}) = 0
    BY FS_EmptySet
<1> QED
    BY <1>1, <1>2, WalkAssumption DEF StreakInv

\* What leaves the streak alone, and ends the walk for it only when it is long enough.
LEMMA StreakKeeps ==
    ASSUME StreakInv, UNCHANGED <<streak, counted, relapses, thisRun>>,
           step' = "seen" => step = "seen" \/ streak >= StopAfterSeen
    PROVE  StreakInv'
BY DEF StreakInv

\* A known card not handled yet in this run.
LEMMA StreakGrows ==
    ASSUME StreakInv, NEW c \in Cards, c \notin thisRun, streak' = streak + 1,
           counted' = counted \cup {c}, step' # "seen",
           \/ thisRun' = thisRun \cup {c} /\ relapses' \in {relapses, StopAfterSeen}
           \/ thisRun' = thisRun \cup {c} /\ relapses' = AtMost(relapses + 1, StopAfterSeen)
           \/ thisRun' = thisRun /\ relapses' = AtMost(relapses + 1, StopAfterSeen)
    PROVE  StreakInv'
<1>1. StopAfterSeen \in Nat
    BY WalkAssumption
<1> DEFINE met == counted \cap thisRun
<1>2. IsFiniteSet(met) /\ Cardinality(met) \in Nat
    BY CardsFinite DEF StreakInv
<1>3. c \notin met
    OBVIOUS
<1>4. /\ IsFiniteSet(met \cup {c})
      /\ Cardinality(met \cup {c}) = Cardinality(met) + 1
    BY <1>2, <1>3, FS_AddElement
<1>5. relapses' \in 0..StopAfterSeen
    BY <1>1 DEF StreakInv, AtMost
<1>6. ASSUME relapses' < StopAfterSeen
      PROVE  streak' <= Cardinality(counted' \cap thisRun') + relapses'
  <2>1. relapses < StopAfterSeen /\ relapses' \in {relapses, relapses + 1}
      BY <1>1, <1>6 DEF StreakInv, AtMost
  <2>2. streak <= Cardinality(met) + relapses /\ streak \in Nat /\ relapses \in Nat
      BY <1>1, <2>1 DEF StreakInv
  <2>3. CASE thisRun' = thisRun \cup {c}
    <3>1. counted' \cap thisRun' = met \cup {c}
        BY <2>3
    <3> QED
        BY <1>1, <1>2, <1>4, <2>1, <2>2, <3>1 DEF StreakInv
  <2>4. CASE thisRun' = thisRun /\ relapses' = relapses + 1
    <3>1. counted' \cap thisRun' = met
        BY <2>4
    <3>2. Cardinality(counted' \cap thisRun') = Cardinality(met)
        BY <3>1
    <3> HIDE DEF met
    <3> QED
        BY <1>1, <1>2, <2>2, <2>4, <3>2 DEF StreakInv
  <2>5. relapses' = AtMost(relapses + 1, StopAfterSeen) => relapses' = relapses + 1
      BY <1>1, <1>6, <2>1 DEF StreakInv, AtMost
  <2> QED
      BY <2>3, <2>4, <2>5
<1> QED
    BY <1>5, <1>6 DEF StreakInv

\* A new post starts the streak over; one merged into a stored post counts alone.
LEMMA StreakRestarts ==
    ASSUME StreakInv, NEW c \in Cards, step' # "seen",
           \/ streak' = 0 /\ counted' = {}
           \/ streak' = 1 /\ counted' = {c} /\ (c \in thisRun' \/ relapses' >= 1),
           relapses' \in 0..StopAfterSeen
    PROVE  StreakInv'
<1>1. StopAfterSeen \in Nat
    BY WalkAssumption
<1>2. CASE streak' = 0 /\ counted' = {}
  <2>1. {} \cap thisRun' = {} /\ Cardinality({}) = 0
      BY FS_EmptySet
  <2> QED
      BY <1>1, <1>2, <2>1 DEF StreakInv
<1>3. CASE streak' = 1 /\ counted' = {c} /\ c \in thisRun'
  <2>1. counted' \cap thisRun' = {c} /\ Cardinality({c}) = 1
      BY <1>3, FS_Singleton
  <2> QED
      BY <1>1, <1>3, <2>1 DEF StreakInv
<1>4. CASE streak' = 1 /\ counted' = {c} /\ relapses' >= 1
  <2>1. counted' \subseteq Cards
      BY <1>4
  <2>2. Cardinality(counted' \cap thisRun') \in Nat
      BY <2>1, CardsFinite
  <2> QED
      BY <1>1, <1>4, <2>1, <2>2 DEF StreakInv
<1> QED
    BY <1>2, <1>3, <1>4

LEMMA StreakCaptured ==
    ASSUME StreakInv, NEW c \in Cards, CaptureCard(c)
    PROVE  StreakInv'
<1>1. StopAfterSeen \in Nat
    BY WalkAssumption
<1>2. c \notin thisRun /\ step' # "seen"
    BY DEF CaptureCard, SheetSpent, Redump
<1>3. PICK f \in Fetched(c, TRUE), left \in BOOLEAN :
        /\ relapses' = AtMost(relapses + (IF left THEN 1 ELSE 0), StopAfterSeen)
        /\ \/ /\ streak' = streak + 1 /\ counted' = counted \cup {c}
              /\ thisRun' = (IF left THEN thisRun ELSE thisRun \cup {c})
           \/ /\ thisRun' = HandledStored(c, left)
              /\ \/ streak' = 0 /\ counted' = {}
                 \/ streak' = 1 /\ counted' = {c}
    BY DEF CaptureCard, Counts, StreakAfterNew
<1>4. /\ relapses' \in 0..StopAfterSeen
      /\ left => relapses' = AtMost(relapses + 1, StopAfterSeen)
      /\ ~left => relapses' = relapses
    BY <1>1, <1>3 DEF StreakInv, AtMost
<1>5. CASE /\ streak' = streak + 1 /\ counted' = counted \cup {c}
           /\ thisRun' = (IF left THEN thisRun ELSE thisRun \cup {c})
    BY <1>2, <1>4, <1>5, StreakGrows
<1>6. CASE streak' = 0 /\ counted' = {}
    BY <1>2, <1>4, <1>6, StreakRestarts
<1>7. CASE thisRun' = HandledStored(c, left) /\ streak' = 1 /\ counted' = {c}
  <2>1. CASE StopAfterSeen = 0
    <3>1. relapses' = 0 /\ {c} \subseteq Cards
        BY <1>4, <2>1
    <3> QED
        BY <1>1, <1>2, <1>4, <1>7, <2>1, <3>1 DEF StreakInv
  <2>2. CASE StopAfterSeen > 0
    <3>1. left => relapses' >= 1
        BY <1>1, <1>4, <2>2 DEF AtMost, StreakInv
    <3>2. ~left => c \in thisRun'
        BY <1>7 DEF HandledStored
    <3> QED
        BY <1>2, <1>4, <1>7, <3>1, <3>2, StreakRestarts
  <2> QED
      BY <1>1, <2>1, <2>2
<1> QED
    BY <1>3, <1>5, <1>6, <1>7

LEMMA StreakStep == StreakInv /\ [Next]_vars => StreakInv'
<1> SUFFICES ASSUME StreakInv, [Next]_vars PROVE StreakInv'
    OBVIOUS
<1>1. CASE Over \/ Dump \/ UNCHANGED vars
  <2>1. /\ UNCHANGED <<streak, counted, relapses, thisRun>>
        /\ step' = "seen" => step = "seen"
      BY <1>1 DEF Over, Dump, End, Redump, vars, run, history
  <2> QED
      BY <2>1, StreakKeeps
<1>2. CASE ScrollOn
  <2>1. /\ UNCHANGED <<streak, counted, relapses, thisRun>>
        /\ step' = "seen" => streak >= StopAfterSeen
      BY <1>2 DEF ScrollOn, End, history
  <2> QED
      BY <2>1, StreakKeeps
<1>3. ASSUME NEW c \in Cards, PassCard(c) \/ RetryCard(c) PROVE StreakInv'
  <2>1. UNCHANGED <<streak, counted, relapses, thisRun>> /\ step' # "seen"
      BY <1>3 DEF PassCard, RetryCard, SheetSpent, Redump, Card, run, history
  <2> QED
      BY <2>1, StreakKeeps
<1>4. ASSUME NEW c \in Cards, KnownCard(c) \/ BackfillCard(c) PROVE StreakInv'
  <2>1. /\ c \notin thisRun /\ streak' = streak + 1 /\ counted' = counted \cup {c}
        /\ thisRun' = thisRun \cup {c} /\ relapses' = relapses /\ step' # "seen"
      BY <1>4 DEF KnownCard, BackfillCard, SheetSpent, Redump, Card
  <2> QED
      BY <2>1, StreakGrows
<1> QED
    BY <1>1, <1>2, <1>3, <1>4, StreakCaptured DEF Next, Walking

\* A walk ends for known posts only when it met as many as STOP_AFTER_SEEN, less those
\* it counted again because their sheet had left the feed.
THEOREM EndsOnKnown == Spec => []EndsOnKnownPosts
<1>1. StreakInv => EndsOnKnownPosts
  <2> SUFFICES ASSUME StreakInv, step = "seen"
               PROVE  Cardinality(counted) + relapses >= StopAfterSeen
      BY DEF EndsOnKnownPosts
  <2>1. StopAfterSeen \in Nat
      BY WalkAssumption
  <2>2. IsFiniteSet(counted) /\ Cardinality(counted) \in Nat
      BY CardsFinite DEF StreakInv
  <2>3. counted \cap thisRun \in SUBSET counted
      OBVIOUS
  <2>4. Cardinality(counted \cap thisRun) <= Cardinality(counted)
      BY <2>2, <2>3, FS_Subset
  <2>5. Cardinality(counted \cap thisRun) \in Nat
      BY <2>2, <2>3, FS_Subset, FS_CardinalityType
  <2> QED
      BY <2>1, <2>2, <2>4, <2>5 DEF StreakInv
<1> QED
    BY <1>1, StreakInit, StreakStep, PTL DEF Spec
=============================================================================
