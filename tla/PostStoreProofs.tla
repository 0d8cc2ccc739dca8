-------------------------- MODULE PostStoreProofs ---------------------------
(***************************************************************************)
(* For all posts, captions, links and limits and any number of runs and    *)
(* crashes: that rows and files keep their shape, that a permalink is the  *)
(* id of the row stored under it, that no backfill records it twice, that  *)
(* an entry keeps its id, that a sweep leaves nothing but slides behind    *)
(* and that no row loses its cover.                                        *)
(***************************************************************************)
EXTENDS PostStore, TLAPS

Card == [form : Forms \cup {None}, shown : Forms \cup Ids \cup {None}, dated : BOOLEAN,
         headless : BOOLEAN, media : BOOLEAN, extra : 0 .. MaxSlides, url : Codes \cup {None}]

\* What TypeOK leaves out: the card at hand is unknown to every row from its capture to
\* the row's insertion, its link belongs to none, its cover is on disk until the row or
\* the discard comes, and a backfill is of a stored row without a link.
CardInv ==
    /\ card \in Card
    /\ pc \in {"link", "store", "renamed", "backfill"} => card.form \in Forms
    /\ pc \in {"link", "store", "renamed"} => SeenAs(Key[card.form]) = {}
    /\ pc \in {"store", "renamed"} => card.shown \in {card.form, Expanded[card.form]}
    /\ pc \in {"store", "renamed"} => card.url \notin DOMAIN posts
    /\ pc = "renamed" => card.media /\ card.url # None
    /\ pc = "backfill" => card.shown \in DOMAIN posts /\ posts[card.shown].url = None

RowInv == TypeOK /\ CardInv /\ CodeIsLink

------------------------------------------------------------------------------
(* What the operators return.                                               *)

\* A card's hash, permalink and files.
LEMMA FormFacts ==
    ASSUME NEW f \in Forms
    PROVE  /\ PostOf[f] \in Posts /\ Key[f] \in Hashes /\ Code[PostOf[f]] \in Codes
           /\ Key[f] \in Ids /\ Key[f] \notin Codes /\ Key[f] # None
           /\ Text[f] \in {Text[g] : g \in Forms} /\ UserOf[f] \in {UserOf[g] : g \in Forms}
           /\ Slot[PostOf[f]] \in {Slot[p] : p \in Posts}
           /\ Expanded[f] \in Forms
BY FormsAssumption DEF Posts, Hashes, Codes, Ids

LEMMA FileFacts ==
    ASSUME NEW id \in Ids, NEW k \in 0 .. MaxSlides
    PROVE  Cover(id) \in File /\ Slides(id, k) \subseteq File
BY LimitsAssumption DEF File, Cover, Slides

LEMMA CapturedFacts ==
    ASSUME card \in Card, card.form \in Forms
    PROVE  Captured \subseteq File
BY FormFacts, FileFacts DEF Captured, Card

LEMMA LinkFacts ==
    ASSUME NEW p \in Posts, NEW l \in Links(p)
    PROVE  l.url \in Codes \cup {None} /\ (~StaleLinks => l.url \in {None, Code[p]})
<1>1. Code[p] \in Codes
    BY DEF Codes
<1>2. \/ l \in {[url |-> None, certain |-> FALSE], [url |-> Code[p], certain |-> TRUE],
                [url |-> Code[p], certain |-> FALSE]}
      \/ StaleLinks /\ l \in [url : Codes, certain : {FALSE}]
    BY DEF Links
<1>3. CASE l \in {[url |-> None, certain |-> FALSE], [url |-> Code[p], certain |-> TRUE],
                  [url |-> Code[p], certain |-> FALSE]}
    BY <1>1, <1>3
<1>4. CASE StaleLinks /\ l \in [url : Codes, certain : {FALSE}]
  <2>1. l.url \in Codes
      BY <1>4
  <2> QED
      BY <1>4, <2>1
<1> QED
    BY <1>2, <1>3, <1>4

\* What remember_hash does to the table: one row's hashes change, nothing else.
Noted(after, id, h) ==
    /\ DOMAIN after = DOMAIN posts
    /\ \A j \in DOMAIN posts : j # id => after[j] = posts[j]
    /\ after[id] \in Row
    /\ after[id].post = posts[id].post /\ after[id].user = posts[id].user
    /\ after[id].text = posts[id].text /\ after[id].url = posts[id].url
    /\ after[id].cover = posts[id].cover /\ after[id].slot = posts[id].slot
    /\ after[id].hash = h
    /\ after[id].alt = IF posts[id].hash = h THEN posts[id].alt ELSE posts[id].hash

LEMMA RememberNotes ==
    ASSUME NEW id \in DOMAIN posts, posts[id] \in Row, NEW h \in Hashes
    PROVE  Noted(Remember(id, h), id, h)
<1>1. CASE posts[id].hash = h
    BY <1>1 DEF Noted, Remember
<1>2. CASE posts[id].hash # h
    BY <1>2 DEF Noted, Remember, Row
<1> QED
    BY <1>1, <1>2

\* What a merge makes of a row.
LEMMA MergedFacts ==
    ASSUME NEW old \in Row, NEW new \in Row
    PROVE  LET row == Merged(old, new) IN
           /\ row \in Row
           /\ row.post = old.post /\ row.user = old.user
           /\ row.text \in {old.text, new.text}
           /\ row.hash = new.hash
           /\ row.alt = IF new.alt # None THEN new.alt
                        ELSE IF old.hash # new.hash THEN old.hash
                        ELSE IF old.alt # new.hash THEN old.alt ELSE None
           /\ row.url = IF old.url # None THEN old.url ELSE new.url
           /\ row.cover = IF old.cover # {} THEN old.cover ELSE new.cover
           /\ row.slot = IF old.slot # None THEN old.slot ELSE new.slot
<1> DEFINE row == Merged(old, new)
<1>1. /\ row.post = old.post /\ row.user = old.user
      /\ row.text = IF old.text = Weak THEN new.text ELSE old.text
      /\ row.hash = new.hash
      /\ row.alt = IF new.alt # None THEN new.alt
                   ELSE IF old.hash # new.hash THEN old.hash
                   ELSE IF old.alt # new.hash THEN old.alt ELSE None
      /\ row.tries = 0
    BY DEF Merged, Row
<1>2. /\ row.url = IF old.url # None THEN old.url ELSE new.url
      /\ row.cover = IF old.cover # {} THEN old.cover ELSE new.cover
      /\ row.slot = IF old.slot # None THEN old.slot ELSE new.slot
    BY DEF Merged, Or, Row
<1>3. row \in Row
  <2>1. /\ {old.text, new.text} \subseteq {Text[f] : f \in Forms}
        /\ {old.hash, new.hash} \subseteq Hashes /\ {old.alt, new.alt} \subseteq Hashes \cup {None}
        /\ {old.url, new.url} \subseteq Codes \cup {None}
        /\ {old.cover, new.cover} \subseteq SUBSET File
        /\ {old.slot, new.slot} \subseteq {Slot[p] : p \in Posts} \cup {None}
      BY DEF Row
  <2>2. /\ row.text \in {Text[f] : f \in Forms} /\ row.hash \in Hashes
        /\ row.alt \in Hashes \cup {None} /\ row.url \in Codes \cup {None}
        /\ row.cover \in SUBSET File /\ row.slot \in {Slot[p] : p \in Posts} \cup {None}
        /\ row.tries \in Nat
      BY <1>1, <1>2, <2>1
  <2>3. row = [old EXCEPT !.text = row.text, !.hash = row.hash, !.alt = row.alt,
                          !.url = row.url, !.cover = row.cover, !.slot = row.slot, !.tries = 0]
      BY <1>1, <1>2 DEF Merged, Or
  <2> HIDE DEF row
  <2>4. [old EXCEPT !.text = row.text, !.hash = row.hash, !.alt = row.alt, !.url = row.url,
                    !.cover = row.cover, !.slot = row.slot, !.tries = 0] \in Row
      BY <2>2 DEF Row
  <2> QED
      BY <2>3, <2>4
<1> QED
    BY <1>1, <1>2, <1>3

\* The row a card becomes.
LEMMA NewRowFacts ==
    ASSUME card \in Card, card.form \in Forms, card.shown \in {card.form, Expanded[card.form]}
    PROVE  /\ NewRow \in Row
           /\ [NewRow EXCEPT !.cover = IF card.media THEN {Cover(Pid)} ELSE {}] \in Row
           /\ Pid \in Ids /\ (Pid \in Codes => card.url = Pid)
           /\ (card.url # None => Pid = card.url) /\ (card.url = None => Pid = Key[card.form])
           /\ card.shown \in Forms /\ Key[card.shown] \in Hashes
<1>1. card.shown \in Forms /\ Key[card.shown] \in Hashes /\ Key[card.form] \in Hashes
    BY FormFacts
<1>2. /\ Pid \in Ids /\ (Pid \in Codes => card.url = Pid)
      /\ (card.url # None => Pid = card.url) /\ (card.url = None => Pid = Key[card.form])
    BY FormFacts, FormsAssumption DEF Pid, Card, Ids
<1>3. Cover(Key[card.form]) \in File /\ Cover(Pid) \in File
    BY <1>1, <1>2, FileFacts, LimitsAssumption DEF Ids
<1>4. NewRow \in Row
    BY <1>1, <1>3, FormFacts DEF NewRow, Row, Card
<1>5. [NewRow EXCEPT !.cover = IF card.media THEN {Cover(Pid)} ELSE {}] \in Row
    BY <1>3, <1>4 DEF Row
<1> QED
    BY <1>1, <1>2, <1>4, <1>5

LEMMA StoredFacts ==
    ASSUME NEW f \in Forms, NEW shows \in BOOLEAN
    PROVE  /\ Stored(f, shows) \subseteq DOMAIN posts
           /\ Stored(f, shows) = {} => SeenAs(Key[f]) = {}
BY DEF Stored, SeenAs, SameCaption

LEMMA DuplicateFacts ==
    ASSUME NEW u, NEW t, NEW dated, NEW slot
    PROVE  Duplicates(u, t, dated, slot) \subseteq DOMAIN posts
BY DEF Duplicates, SameCaption

\* The table after a merge, and after an insertion.
MergedTo(after, dup, to, row) ==
    /\ DOMAIN after = (DOMAIN posts \ {dup}) \cup {to}
    /\ after[to] = row
    /\ \A j \in DOMAIN posts \ {dup, to} : after[j] = posts[j]
InsertedAs(after, id, row) ==
    /\ DOMAIN after = DOMAIN posts \cup {id}
    /\ after[id] = row
    /\ \A j \in DOMAIN posts \ {id} : after[j] = posts[j]

LEMMA ReplaceMerges ==
    ASSUME NEW dup, NEW to, NEW row
    PROVE  MergedTo(Replace(dup, to, row), dup, to, row)
BY DEF MergedTo, Replace

\* A card with a stored row's permalink never comes this far, so a row is merged into
\* under its own id, or under the card's permalink if it has none.
LEMMA MergeFacts ==
    ASSUME RowInv, Merge
    PROVE  \E dup \in DuplicatesOfCard :
             LET row == Merged(posts[dup], NewRow)
                 to  == IF card.url # None /\ posts[dup].url = None THEN card.url ELSE dup
             IN /\ dup \in DOMAIN posts /\ row \in Row /\ NewRow \in Row
                /\ MergedTo(posts', dup, to, row)
                /\ doomed' = Captured \ row.cover
                /\ to \in Ids /\ (to # dup => posts[dup].url = None /\ to = card.url)
<1>1. PICK dup \in DuplicatesOfCard :
          LET row == Merged(posts[dup], NewRow) IN
          /\ posts' = Replace(dup, MergedId(dup, Pid, posts[dup], NewRow), row)
          /\ doomed' = Redundant(row)
    BY DEF Merge
<1>2. dup \in DOMAIN posts /\ posts[dup] \in Row
    BY DuplicateFacts DEF DuplicatesOfCard, RowInv, TypeOK
<1>3. /\ card \in Card /\ card.form \in Forms
      /\ card.shown \in {card.form, Expanded[card.form]}
    BY DEF RowInv, CardInv, Merge
<1>4. /\ NewRow \in Row /\ Pid \in Ids /\ (card.url # None => Pid = card.url)
      /\ Merged(posts[dup], NewRow) \in Row /\ NewRow.url = card.url
  <2>1. /\ NewRow \in Row /\ Pid \in Ids /\ (card.url # None => Pid = card.url)
      BY <1>3, NewRowFacts
  <2>2. Merged(posts[dup], NewRow) \in Row
      BY <1>2, <2>1, MergedFacts
  <2> QED
      BY <2>1, <2>2 DEF NewRow
<1> DEFINE row == Merged(posts[dup], NewRow)
           to  == IF card.url # None /\ posts[dup].url = None THEN card.url ELSE dup
<1>5. to = MergedId(dup, Pid, posts[dup], NewRow)
    BY <1>4 DEF MergedId
<1>6. MergedTo(posts', dup, to, row)
    BY <1>1, <1>5, ReplaceMerges
<1>7. to \in Ids
    BY <1>2, <1>4 DEF RowInv, TypeOK
<1>8. doomed' = Captured \ row.cover
    BY <1>1 DEF Redundant
<1> QED
    BY <1>2, <1>4, <1>6, <1>7, <1>8

LEMMA InsertFacts ==
    ASSUME RowInv, Insert
    PROVE  LET row == [NewRow EXCEPT !.cover = IF card.media THEN {Cover(Pid)} ELSE {}] IN
           /\ row \in Row /\ row.url = card.url /\ row.hash = Key[card.form] /\ NewRow \in Row
           /\ row.cover = (IF card.media THEN {Cover(Pid)} ELSE {})
           /\ row.alt = NewRow.alt /\ row.post = PostOf[card.form] /\ row.user = UserOf[card.form]
           /\ row.text = Text[card.shown]
           /\ row.slot \in {Slot[PostOf[card.form]], None}
           /\ InsertedAs(posts', Pid, row)
           /\ Pid \in Ids \ DOMAIN posts /\ (Pid \in Codes => card.url = Pid)
           /\ (card.url # None => Pid = card.url) /\ (card.url = None => Pid = Key[card.form])
           /\ card \in Card /\ card.form \in Forms /\ Key[card.shown] \in Hashes
<1>1. /\ card \in Card /\ card.form \in Forms
      /\ card.shown \in {card.form, Expanded[card.form]}
      /\ SeenAs(Key[card.form]) = {} /\ card.url \notin DOMAIN posts
    BY DEF RowInv, CardInv, Insert
<1> DEFINE row == [NewRow EXCEPT !.cover = IF card.media THEN {Cover(Pid)} ELSE {}]
<1>2. /\ NewRow \in Row /\ row \in Row
      /\ Pid \in Ids /\ (Pid \in Codes => card.url = Pid)
      /\ (card.url # None => Pid = card.url) /\ (card.url = None => Pid = Key[card.form])
      /\ Key[card.shown] \in Hashes
    BY <1>1, NewRowFacts
<1>3. Pid \notin DOMAIN posts
    BY <1>1, <1>2 DEF SeenAs
<1>4. /\ row.url = card.url /\ row.hash = Key[card.form] /\ row.alt = NewRow.alt
      /\ row.post = PostOf[card.form] /\ row.user = UserOf[card.form]
      /\ row.text = Text[card.shown] /\ row.slot \in {Slot[PostOf[card.form]], None}
      /\ row.cover = (IF card.media THEN {Cover(Pid)} ELSE {})
    BY DEF NewRow
<1>5. InsertedAs(posts', Pid, row)
    BY DEF Insert, InsertedAs
<1> QED
    BY <1>1, <1>2, <1>3, <1>4, <1>5

------------------------------------------------------------------------------
(* Rows and the card at hand.                                               *)

LEMMA RowInit == Init => RowInv
<1> SUFFICES ASSUME Init PROVE RowInv
    OBVIOUS
<1>1. DOMAIN posts = {}
    BY DEF Init
<1>2. NoCard \in Card
    BY LimitsAssumption DEF NoCard, Card
<1>3. TypeOK
    BY <1>1, LimitsAssumption DEF Init, TypeOK, NoCard
<1> QED
    BY <1>1, <1>2, <1>3 DEF Init, RowInv, CardInv, CodeIsLink

\* No card is at hand after a step that ends one.
LEMMA CardGone ==
    ASSUME card' = NoCard, pc' \notin {"link", "store", "renamed", "backfill"}
    PROVE  CardInv' /\ card'.form \in Forms \cup {None} /\ card'.url \in Codes \cup {None}
<1>1. card' \in Card
    BY LimitsAssumption DEF NoCard, Card
<1> QED
    BY <1>1 DEF CardInv, Card

\* A row whose hashes change stays a row.
LEMMA NotedRows ==
    ASSUME RowInv, NEW id \in DOMAIN posts, NEW h \in Hashes, Noted(posts', id, h)
    PROVE  /\ DOMAIN posts' \subseteq Ids /\ \A j \in DOMAIN posts' : posts'[j] \in Row
           /\ CodeIsLink'
           /\ \A j \in DOMAIN posts : posts'[j].url = posts[j].url
<1> USE DEF RowInv, TypeOK, Noted
<1>1. \A j \in DOMAIN posts : posts'[j].url = posts[j].url /\ posts'[j] \in Row
    OBVIOUS
<1> QED
    BY <1>1 DEF CodeIsLink

\* A known card's row, noted under the card's hash or left alone.
LEMMA SeeStoredFacts ==
    ASSUME RowInv, NEW f \in Forms, NEW shows \in BOOLEAN, SeeStored(f, shows)
    PROVE  \E id \in Stored(f, shows) :
             /\ id \in DOMAIN posts
             /\ \/ posts' = posts
                \/ SeenAs(Key[f]) = {} /\ Noted(posts', id, Key[f])
             /\ DOMAIN posts' = DOMAIN posts /\ posts'[id].url = posts[id].url
             /\ \/ /\ pc' = "backfill" /\ backfills' = backfills - 1 /\ backfills > 0
                   /\ posts[id].url = None /\ card' = [NoCard EXCEPT !.form = f, !.shown = id]
                \/ UNCHANGED <<pc, backfills, card>>
<1>1. PICK id \in Stored(f, shows) :
          /\ posts' = IF SeenAs(Key[f]) # {} THEN posts ELSE Remember(id, Key[f])
          /\ IF NeedsLink(id)
             THEN /\ pc' = "backfill" /\ backfills' = backfills - 1
                  /\ card' = [NoCard EXCEPT !.form = f, !.shown = id]
             ELSE UNCHANGED <<pc, backfills, card>>
    BY DEF SeeStored
<1>2. id \in DOMAIN posts /\ posts[id] \in Row /\ Key[f] \in Hashes
    BY StoredFacts, FormFacts DEF RowInv, TypeOK
<1>3. Noted(Remember(id, Key[f]), id, Key[f])
    BY <1>2, RememberNotes
<1>4. \/ posts' = posts
      \/ SeenAs(Key[f]) = {} /\ Noted(posts', id, Key[f])
    BY <1>1, <1>3
<1>5. DOMAIN posts' = DOMAIN posts /\ posts'[id].url = posts[id].url
    BY <1>2, <1>4 DEF Noted
<1> QED
    BY <1>1, <1>2, <1>4, <1>5 DEF NeedsLink

LEMMA LinkStoredFacts ==
    ASSUME RowInv, LinkStored
    PROVE  \E l \in Links(PostOf[card.form]) :
             l.url \in DOMAIN posts /\ Noted(posts', l.url, Key[card.form])
<1>1. PICK l \in Links(PostOf[card.form]) :
          l.url \in DOMAIN posts /\ posts' = Remember(l.url, Key[card.form])
    BY DEF LinkStored
<1>2. posts[l.url] \in Row /\ Key[card.form] \in Hashes
    BY <1>1, FormFacts DEF RowInv, TypeOK, CardInv, LinkStored
<1>3. Noted(posts', l.url, Key[card.form])
    BY <1>1, <1>2, RememberNotes
<1> QED
    BY <1>1, <1>3

\* A backfill gives a link, or none, to a row stored without one.
LEMMA BackfillFacts ==
    ASSUME RowInv, Backfill
    PROVE  \E code \in Codes \cup {None} :
             /\ card.shown \in DOMAIN posts /\ posts[card.shown].url = None
             /\ card.shown \notin Codes
             /\ DOMAIN posts' = DOMAIN posts
             /\ \A j \in DOMAIN posts : j # card.shown => posts'[j] = posts[j]
             /\ posts'[card.shown] \in Row
             /\ posts'[card.shown] = [posts[card.shown] EXCEPT
                    !.tries = posts[card.shown].tries + 1, !.url = code]
             /\ code # None => Taken(card.shown, code) = {}
<1>1. card.shown \in DOMAIN posts /\ posts[card.shown].url = None /\ posts[card.shown] \in Row
    BY DEF RowInv, TypeOK, CardInv, Backfill
<1>2. card.shown \notin Codes
    BY <1>1, FormsAssumption DEF RowInv, CodeIsLink, Ids
<1>3. PICK l \in Links(PostOf[card.form]) :
          posts' = [posts EXCEPT ![card.shown].tries = @ + 1,
                        ![card.shown].url = IF Taken(card.shown, l.url) = {} THEN l.url ELSE None]
    BY DEF Backfill
<1> DEFINE code == IF Taken(card.shown, l.url) = {} THEN l.url ELSE None
<1>4. PostOf[card.form] \in Posts
    BY FormFacts DEF RowInv, CardInv, Backfill
<1>5. code \in Codes \cup {None}
    BY <1>4, LinkFacts
<1>6. code # None => Taken(card.shown, code) = {}
    OBVIOUS
<1>7. posts' = [posts EXCEPT ![card.shown].tries = @ + 1, ![card.shown].url = code]
    BY <1>3
<1> HIDE DEF code
<1>8. /\ DOMAIN posts' = DOMAIN posts
      /\ \A j \in DOMAIN posts : j # card.shown => posts'[j] = posts[j]
    BY <1>7
<1>9. posts'[card.shown] = [posts[card.shown] EXCEPT !.tries = posts[card.shown].tries + 1,
                                                     !.url = code]
    BY <1>1, <1>7 DEF Row
<1>10. posts'[card.shown] \in Row
  <2>1. PICK row \in Row, n \in Nat : row = posts[card.shown] /\ n = row.tries + 1
      BY <1>1 DEF Row
  <2>2. [row EXCEPT !.tries = n, !.url = code] \in Row
      BY <1>5 DEF Row
  <2>3. posts'[card.shown] = [row EXCEPT !.tries = n, !.url = code]
      BY <1>9, <2>1
  <2> QED
      BY <2>2, <2>3
<1> QED
    BY <1>1, <1>2, <1>5, <1>6, <1>8, <1>9, <1>10

\* What RowInv says of the table and of what is at hand, in parts.
TableOK ==
    /\ DOMAIN posts \subseteq Ids /\ \A id \in DOMAIN posts : posts[id] \in Row
    /\ CodeIsLink
RestOK ==
    /\ slides \subseteq Ids \X File /\ files \subseteq File /\ doomed \subseteq File
    /\ pc \in {"idle", "walk", "link", "store", "renamed", "discard", "backfill",
               "sweep", "swept"}
    /\ thisRun \subseteq Hashes /\ failures \in [Hashes -> Nat]
    /\ backfills \in 0 .. BackfillsPerRun /\ runsLeft \in 0 .. MaxRuns
AgedOK == aged \subseteq Ids

LEMMA RowParts == RowInv <=> TableOK /\ RestOK /\ CardInv /\ AgedOK
BY DEF RowInv, TypeOK, TableOK, RestOK, CardInv, AgedOK, Card

\* A card being captured, retried, given a link, skipped or renamed leaves the table alone.
LEMMA CardSteps ==
    ASSUME RowInv,
           \/ \E f \in Forms, shows \in BOOLEAN : Capture(f, shows)
           \/ LinkFails \/ LinkFree \/ Skip \/ Rename
    PROVE  RestOK' /\ CardInv'
<1> USE DEF RestOK, disk, run
<1>0. RestOK
    BY RowParts
<1>1. ASSUME NEW f \in Forms, NEW shows \in BOOLEAN, Capture(f, shows) PROVE RestOK' /\ CardInv'
  <2>1. PICK media \in BOOLEAN, dated \in BOOLEAN, headless \in BOOLEAN, k \in 0 .. MaxSlides :
            card' = [form |-> f, shown |-> None, dated |-> dated, headless |-> headless,
                     media |-> media, extra |-> k, url |-> None]
      BY <1>1 DEF Capture
  <2>2. card' \in Card /\ card'.form = f
      BY <2>1 DEF Card
  <2>3. SeenAs(Key[f]) = {}
      BY <1>1, StoredFacts DEF Capture
  <2>4. Captured' \subseteq File
      BY <2>1, FormFacts, FileFacts, LimitsAssumption DEF Captured
  <2>5. files' \subseteq File /\ pc' = "link" /\ posts' = posts
      BY <1>0, <1>1, <2>4 DEF Capture
  <2>6. CardInv'
      BY <2>2, <2>3, <2>5 DEF CardInv, SeenAs
  <2> QED
      BY <1>0, <1>1, <2>5, <2>6 DEF Capture
<1>2. CASE LinkFails \/ Skip
  <2>1. /\ card' = NoCard /\ pc' = "walk" /\ files' \subseteq files
        /\ UNCHANGED <<slides, doomed, backfills, runsLeft>>
      BY <1>2 DEF LinkFails, Skip
  <2>2. thisRun' \subseteq Hashes
    <3>1. CASE Skip
        BY <1>0, <3>1, NewRowFacts DEF Skip, RowInv, CardInv
    <3>2. CASE LinkFails
        BY <1>0, <3>2 DEF LinkFails
    <3> QED
        BY <1>2, <3>1, <3>2
  <2>3. failures' \in [Hashes -> Nat]
      BY <1>0, <1>2 DEF LinkFails, Skip
  <2>4. CardInv'
      BY <2>1, CardGone
  <2> QED
      BY <1>0, <2>1, <2>2, <2>3, <2>4
<1>3. CASE LinkFree
  <2>1. PICK l \in Links(PostOf[card.form]), f \in {card.form, Expanded[card.form]} :
            card' = [card EXCEPT !.shown = f,
                                 !.url = IF l.url \in DOMAIN posts THEN None ELSE l.url]
      BY <1>3 DEF LinkFree
  <2>2. card.form \in Forms /\ PostOf[card.form] \in Posts /\ Key[card.form] \in Hashes
      BY <1>3, FormFacts DEF LinkFree, RowInv, CardInv
  <2>3. l.url \in Codes \cup {None} /\ f \in Forms
      BY <2>2, LinkFacts, FormFacts
  <2>4. card' \in Card /\ card'.form = card.form /\ card'.shown = f
      BY <2>1, <2>3 DEF RowInv, CardInv, Card
  <2>5. card'.url \notin DOMAIN posts
    <3>1. None \notin DOMAIN posts
        BY FormsAssumption DEF RowInv, TypeOK
    <3>2. card'.url = IF l.url \in DOMAIN posts THEN None ELSE l.url
        BY <2>1 DEF RowInv, CardInv, Card
    <3> QED
        BY <3>1, <3>2
  <2>6. pc' = "store" /\ posts' = posts /\ thisRun' \subseteq Hashes
      BY <1>0, <1>3, <2>2 DEF LinkFree
  <2>7. SeenAs(Key[card.form]) = {}
      BY <1>3 DEF LinkFree, RowInv, CardInv
  <2>8. CardInv'
      BY <2>2, <2>4, <2>5, <2>6, <2>7 DEF CardInv, SeenAs
  <2> QED
      BY <1>0, <1>3, <2>6, <2>8 DEF LinkFree
<1>4. CASE Rename
  <2>1. /\ card \in Card /\ card.form \in Forms
        /\ card.shown \in {card.form, Expanded[card.form]}
        /\ card.extra \in 0 .. MaxSlides
      BY <1>4 DEF Rename, RowInv, CardInv, Card
  <2>2. Pid \in Ids /\ (card.url = None => Pid = Key[card.form])
      BY <2>1, NewRowFacts
  <2>3. files' \subseteq File
      BY <1>0, <1>4, <2>1, <2>2, FileFacts DEF Rename, Cover
  <2>4. CardInv'
      BY <1>4, <2>2 DEF Rename, RowInv, CardInv, SeenAs
  <2> QED
      BY <1>0, <1>4, <2>3, <2>4 DEF Rename
<1> QED
    BY <1>1, <1>2, <1>3, <1>4

\* A table row changed by one of the writes.
LEMMA WriteSteps ==
    ASSUME RowInv,
           \/ \E f \in Forms, shows \in BOOLEAN : SeeStored(f, shows)
           \/ LinkStored \/ Merge \/ Insert \/ Backfill
    PROVE  TableOK' /\ RestOK' /\ CardInv'
<1> USE DEF RestOK, disk, run
<1>0. RestOK /\ TableOK
    BY RowParts
<1>1. ASSUME NEW f \in Forms, NEW shows \in BOOLEAN, SeeStored(f, shows)
      PROVE  TableOK' /\ RestOK' /\ CardInv'
  <2>1. PICK id \in Stored(f, shows) :
             /\ id \in DOMAIN posts
             /\ \/ posts' = posts
                \/ SeenAs(Key[f]) = {} /\ Noted(posts', id, Key[f])
             /\ DOMAIN posts' = DOMAIN posts /\ posts'[id].url = posts[id].url
             /\ \/ /\ pc' = "backfill" /\ backfills' = backfills - 1 /\ backfills > 0
                   /\ posts[id].url = None /\ card' = [NoCard EXCEPT !.form = f, !.shown = id]
                \/ UNCHANGED <<pc, backfills, card>>
      BY <1>1, SeeStoredFacts
  <2>2. Key[f] \in Hashes
      BY FormFacts
  <2>3. TableOK'
    <3>1. CASE posts' = posts
        BY <1>0, <3>1 DEF TableOK, CodeIsLink
    <3>2. CASE Noted(posts', id, Key[f])
        BY <2>1, <2>2, <3>2, NotedRows DEF TableOK
    <3> QED
        BY <2>1, <3>1, <3>2
  <2>4. RestOK'
    <3>1. /\ UNCHANGED <<slides, files, failures, doomed, runsLeft>>
          /\ thisRun' = thisRun \cup {Key[f]} /\ pc = "walk"
        BY <1>1 DEF SeeStored
    <3>2. backfills' \in 0 .. BackfillsPerRun
        BY <1>0, <2>1, LimitsAssumption
    <3>3. pc' \in {"walk", "backfill"}
        BY <2>1, <3>1
    <3> QED
        BY <1>0, <2>2, <3>1, <3>2, <3>3
  <2>5. CardInv'
    <3>1. pc = "walk" /\ card \in Card
        BY <1>1 DEF SeeStored, RowInv, CardInv
    <3>2. CASE pc' = "walk" /\ card' = card
        BY <3>1, <3>2 DEF CardInv
    <3>3. CASE pc' = "backfill" /\ card' = [NoCard EXCEPT !.form = f, !.shown = id]
      <4>1. id \in Ids
          BY <2>1 DEF RowInv, TypeOK
      <4>2. card' \in Card /\ card'.form = f /\ card'.shown = id
        <5>1. card' = [form |-> f, shown |-> id, dated |-> FALSE, headless |-> FALSE,
                       media |-> FALSE, extra |-> 0, url |-> None]
            BY <3>3 DEF NoCard
        <5>2. 0 \in 0 .. MaxSlides
            BY LimitsAssumption
        <5> QED
            BY <4>1, <5>1, <5>2 DEF Card
      <4>3. posts'[id].url = None
          BY <2>1, <3>1, <3>3
      <4> QED
          BY <2>1, <3>3, <4>2, <4>3 DEF CardInv
    <3> QED
        BY <2>1, <3>1, <3>2, <3>3
  <2> QED
      BY <2>3, <2>4, <2>5
<1>2. CASE LinkStored
  <2>1. PICK l \in Links(PostOf[card.form]) :
            l.url \in DOMAIN posts /\ Noted(posts', l.url, Key[card.form])
      BY <1>2, LinkStoredFacts
  <2>2. card.form \in Forms /\ Key[card.form] \in Hashes /\ card \in Card
      BY <1>2, FormFacts DEF LinkStored, RowInv, CardInv
  <2>3. TableOK'
      BY <2>1, <2>2, NotedRows DEF TableOK
  <2>4. doomed' \subseteq File /\ thisRun' \subseteq Hashes
      BY <1>0, <1>2, <2>2, CapturedFacts DEF LinkStored
  <2>5. CardInv'
      BY <1>2, CardGone DEF LinkStored
  <2> QED
      BY <1>0, <1>2, <2>3, <2>4, <2>5 DEF LinkStored
<1>3. CASE Merge
  <2>1. PICK dup \in DuplicatesOfCard :
             LET row == Merged(posts[dup], NewRow)
                 to  == IF card.url # None /\ posts[dup].url = None THEN card.url ELSE dup
             IN /\ dup \in DOMAIN posts /\ row \in Row /\ NewRow \in Row
                /\ MergedTo(posts', dup, to, row)
                /\ doomed' = Captured \ row.cover
                /\ to \in Ids /\ (to # dup => posts[dup].url = None /\ to = card.url)
      BY <1>3, MergeFacts
  <2> DEFINE row == Merged(posts[dup], NewRow)
             to  == IF card.url # None /\ posts[dup].url = None THEN card.url ELSE dup
  <2>2. card.form \in Forms /\ card \in Card /\ Key[card.shown] \in Hashes
      BY <1>3, FormFacts DEF Merge, RowInv, CardInv
  <2>3. NewRow.url = card.url
      BY DEF NewRow
  <2>4. row.url = IF posts[dup].url # None THEN posts[dup].url ELSE card.url
      BY <1>0, <2>1, <2>3, MergedFacts DEF TableOK
  <2>5. \A j \in DOMAIN posts' : j = to \/ j \in DOMAIN posts \ {dup, to}
      BY <2>1 DEF MergedTo
  <2>6. TableOK'
    <3>1. to \in Codes => row.url = to
      <4>1. CASE to = dup
          BY <1>0, <2>1, <2>4, <4>1, FormsAssumption DEF TableOK, CodeIsLink, Ids
      <4>2. CASE to # dup
          BY <2>1, <2>4, <4>2
      <4> QED
          BY <4>1, <4>2
    <3>2. DOMAIN posts' \subseteq Ids /\ \A j \in DOMAIN posts' : posts'[j] \in Row
        BY <1>0, <2>1, <2>5 DEF TableOK, MergedTo
    <3>3. CodeIsLink'
        BY <1>0, <2>1, <2>5, <3>1 DEF TableOK, CodeIsLink, MergedTo
    <3> QED
        BY <3>2, <3>3 DEF TableOK
  <2>7. doomed' \subseteq File /\ thisRun' \subseteq Hashes
    <3>1. doomed' \subseteq File
        BY <2>1, <2>2, CapturedFacts
    <3>2. thisRun' \subseteq Hashes
        BY <1>0, <1>3, <2>2 DEF Merge
    <3> QED
        BY <3>1, <3>2
  <2>8. CardInv'
      BY <1>3, CardGone DEF Merge
  <2> QED
      BY <1>0, <1>3, <2>6, <2>7, <2>8 DEF Merge
<1>4. CASE Insert
  <2> DEFINE row == [NewRow EXCEPT !.cover = IF card.media THEN {Cover(Pid)} ELSE {}]
  <2>1. /\ row \in Row /\ row.url = card.url /\ InsertedAs(posts', Pid, row)
        /\ Pid \in Ids /\ (Pid \in Codes => card.url = Pid)
        /\ card \in Card /\ Key[card.shown] \in Hashes
      BY <1>4, InsertFacts
  <2>2. TableOK'
      BY <1>0, <2>1 DEF TableOK, CodeIsLink, InsertedAs
  <2>3. slides' \subseteq Ids \X File /\ thisRun' \subseteq Hashes
    <3>1. Slides(Pid, card.extra) \subseteq File
        BY <2>1, FileFacts DEF Card
    <3> QED
        BY <1>0, <1>4, <2>1, <3>1 DEF Insert
  <2>4. CardInv'
      BY <1>4, CardGone DEF Insert
  <2> QED
      BY <1>0, <1>4, <2>2, <2>3, <2>4 DEF Insert
<1>5. CASE Backfill
  <2>1. PICK code \in Codes \cup {None} :
             /\ card.shown \in DOMAIN posts /\ card.shown \notin Codes
             /\ DOMAIN posts' = DOMAIN posts
             /\ \A j \in DOMAIN posts : j # card.shown => posts'[j] = posts[j]
             /\ posts'[card.shown] \in Row
      BY <1>5, BackfillFacts
  <2>2. TableOK'
      BY <1>0, <2>1 DEF TableOK, CodeIsLink
  <2>3. CardInv'
      BY <1>5, CardGone DEF Backfill
  <2> QED
      BY <1>0, <1>5, <2>2, <2>3 DEF Backfill
<1> QED
    BY <1>1, <1>2, <1>3, <1>4, <1>5

\* Rows that go, for good or not, take nothing else along.
LEMMA RunSteps ==
    ASSUME RowInv,
           StartRun \/ Discard \/ Sweep \/ Crash \/ (\E old \in SUBSET DOMAIN posts : Expire(old))
           \/ UNCHANGED core
    PROVE  TableOK' /\ RestOK' /\ CardInv'
<1> USE DEF RestOK, disk, run
<1>0. RestOK /\ TableOK /\ CardInv
    BY RowParts
<1>1. CASE StartRun
  <2>1. posts' = posts /\ card' = card /\ pc' = "walk"
      BY <1>1 DEF StartRun
  <2>2. RestOK'
    <3>1. backfills' \in 0 .. BackfillsPerRun /\ runsLeft' \in 0 .. MaxRuns
        BY <1>0, <1>1, LimitsAssumption DEF StartRun
    <3>2. failures' \in [Hashes -> Nat] /\ thisRun' \subseteq Hashes
        BY <1>1 DEF StartRun
    <3> QED
        BY <1>0, <1>1, <3>1, <3>2 DEF StartRun
  <2> QED
      BY <1>0, <2>1, <2>2 DEF TableOK, CodeIsLink, CardInv
<1>2. CASE Discard
    BY <1>0, <1>2 DEF Discard, TableOK, CodeIsLink, CardInv
<1>3. CASE Sweep
  <2>1. posts' = posts /\ card' = card /\ pc' = "swept" /\ files' \subseteq files
      BY <1>3 DEF Sweep
  <2>2. /\ UNCHANGED <<slides, runsLeft>> /\ doomed' = {} /\ thisRun' = {} /\ backfills' = 0
        /\ failures' = [h \in Hashes |-> 0]
      BY <1>3 DEF Sweep
  <2>3. RestOK'
      BY <1>0, <2>1, <2>2, LimitsAssumption
  <2> QED
      BY <1>0, <2>1, <2>3 DEF TableOK, CodeIsLink, CardInv
<1>4. CASE Crash
  <2>1. CardInv'
      BY <1>4, CardGone DEF Crash
  <2>2. backfills' \in 0 .. BackfillsPerRun /\ failures' \in [Hashes -> Nat]
      BY <1>4, LimitsAssumption DEF Crash
  <2> QED
      BY <1>0, <1>4, <2>1, <2>2 DEF Crash, TableOK, CodeIsLink
<1>5. ASSUME NEW old \in SUBSET DOMAIN posts, Expire(old) PROVE TableOK' /\ RestOK' /\ CardInv'
  <2>1. DOMAIN posts' = DOMAIN posts \ old /\ \A id \in DOMAIN posts \ old : posts'[id] = posts[id]
      BY <1>5 DEF Expire
  <2>2. TableOK'
      BY <1>0, <2>1 DEF TableOK, CodeIsLink
  <2>3. doomed' \subseteq File /\ slides' \subseteq slides
    <3>1. \A id \in old : posts[id].cover \subseteq File
        BY <1>0 DEF TableOK, Row
    <3>2. FilesOf(old) \subseteq File
        BY <1>0, <3>1 DEF FilesOf
    <3> QED
        BY <1>5, <3>2 DEF Expire, SlidesWithout
  <2>4. CardInv'
      BY <1>0, <1>5 DEF Expire, CardInv
  <2> QED
      BY <1>0, <1>5, <2>2, <2>3, <2>4 DEF Expire
<1>6. CASE UNCHANGED core
    BY <1>0, <1>6 DEF core, TableOK, CodeIsLink, CardInv, SeenAs
<1> QED
    BY <1>1, <1>2, <1>3, <1>4, <1>5, <1>6

\* A card being captured, retried, given a link, skipped or renamed.
CardStep ==
    \/ \E f \in Forms, shows \in BOOLEAN : Capture(f, shows)
    \/ LinkFails \/ LinkFree \/ Skip \/ Rename

LEMMA CardStepKeeps == CardStep => UNCHANGED <<posts, slides>>
BY DEF CardStep, Capture, LinkFails, LinkFree, Skip, Rename, disk

\* Every step, by what it does to the table.
LEMMA Steps ==
    ASSUME [Next]_vars
    PROVE  \/ CardStep
           \/ \E f \in Forms, shows \in BOOLEAN : SeeStored(f, shows)
           \/ LinkStored \/ Merge \/ Insert \/ Backfill
           \/ StartRun \/ Discard \/ Sweep \/ Crash
           \/ \E old \in SUBSET DOMAIN posts : Expire(old)
           \/ UNCHANGED core
BY DEF Next, Handle, Resolve, Store, Retain, CardStep, Age, vars

\* What a row's age is kept under is an id, through merges that give it another.
LEMMA AgedStep == ASSUME RowInv, [Next]_vars PROVE aged' \subseteq Ids
<1>1. aged \subseteq Ids /\ DOMAIN posts \subseteq Ids
    BY DEF RowInv, TypeOK
<1>2. CASE Merge
  <2>1. PICK dup \in DuplicatesOfCard :
            aged' = IF dup \in aged
                    THEN (aged \ {dup}) \cup {MergedId(dup, Pid, posts[dup], NewRow)} ELSE aged
      BY <1>2 DEF Merge
  <2>2. dup \in DOMAIN posts
      BY DuplicateFacts DEF DuplicatesOfCard
  <2>3. Pid \in Ids
      BY <1>2, NewRowFacts DEF Merge, RowInv, CardInv
  <2>4. MergedId(dup, Pid, posts[dup], NewRow) \in Ids
      BY <1>1, <2>2, <2>3 DEF MergedId
  <2> QED
      BY <1>1, <2>1, <2>4
<1>3. CASE Age
    BY <1>1, <1>3 DEF Age
<1>4. ASSUME NEW old \in SUBSET DOMAIN posts, Expire(old) PROVE aged' \subseteq Ids
    BY <1>4 DEF Expire
<1>5. CASE Handle \/ Resolve
    BY <1>1, <1>5 DEF Handle, SeeStored, Capture, Resolve, LinkFails, LinkFree, LinkStored,
       Backfill
<1>6. CASE StartRun \/ Skip \/ Rename \/ Insert \/ Discard \/ Sweep \/ Crash
    BY <1>1, <1>6 DEF StartRun, Skip, Rename, Insert, Discard, Sweep, Crash
<1>7. CASE UNCHANGED vars
    BY <1>1, <1>7 DEF vars
<1> QED
    BY <1>2, <1>3, <1>4, <1>5, <1>6, <1>7 DEF Next, Store, Retain

LEMMA RowStep == RowInv /\ [Next]_vars => RowInv'
<1> SUFFICES ASSUME RowInv, [Next]_vars PROVE RowInv'
    OBVIOUS
<1>0. AgedOK'
    BY AgedStep DEF AgedOK
<1> SUFFICES TableOK' /\ RestOK' /\ CardInv'
    BY <1>0, RowParts, PTL
<1>1. CASE CardStep
  <2>1. RestOK' /\ CardInv'
      BY <1>1, CardSteps DEF CardStep
  <2>2. TableOK'
      BY <1>1, CardStepKeeps, RowParts DEF TableOK, CodeIsLink
  <2> QED
      BY <2>1, <2>2
<1>2. CASE \/ \E f \in Forms, shows \in BOOLEAN : SeeStored(f, shows)
           \/ LinkStored \/ Merge \/ Insert \/ Backfill
    BY <1>2, WriteSteps
<1>3. CASE \/ StartRun \/ Discard \/ Sweep \/ Crash
           \/ \E old \in SUBSET DOMAIN posts : Expire(old)
           \/ UNCHANGED core
    BY <1>3, RunSteps
<1> QED
    BY <1>1, <1>2, <1>3, Steps

LEMMA RowAlways == Spec => []RowInv
BY RowInit, RowStep, PTL DEF Spec

\* Rows, files and the card at hand keep their shape through every walk, retry, merge,
\* retention and crash (scrape.py: _handle_card, _store_post).
THEOREM TypeCorrect == Spec => []TypeOK
<1>1. RowInv => TypeOK
    BY DEF RowInv
<1> QED
    BY <1>1, RowAlways, PTL

\* A row stored under a shortcode carries that permalink (merged_fields, insert_row).
THEOREM CodesAreLinks == Spec => []CodeIsLink
<1>1. RowInv => CodeIsLink
    BY DEF RowInv
<1> QED
    BY <1>1, RowAlways, PTL

------------------------------------------------------------------------------
(* Ids and permalinks.                                                      *)

\* A row that is not under its shortcode gets a link from a backfill alone, and that only
\* if no other row has it.
LEMMA LinkStep == RowInv /\ OneBackfillPerLink /\ [Next]_vars => OneBackfillPerLink'
<1> SUFFICES ASSUME RowInv, OneBackfillPerLink, [Next]_vars PROVE OneBackfillPerLink'
    OBVIOUS
<1> USE DEF OneBackfillPerLink
<1>0. TableOK
    BY RowParts
<1>1. CASE CardStep
    BY <1>1, CardStepKeeps
<1>2. ASSUME NEW f \in Forms, NEW shows \in BOOLEAN, SeeStored(f, shows)
      PROVE  OneBackfillPerLink'
  <2>1. PICK id \in DOMAIN posts : posts' = posts \/ Noted(posts', id, Key[f])
      BY <1>2, SeeStoredFacts
  <2>2. CASE Noted(posts', id, Key[f])
    <3>1. \A j \in DOMAIN posts : posts'[j].url = posts[j].url
        BY <2>1, <2>2 DEF Noted
    <3> QED
        BY <2>2, <3>1 DEF Noted
  <2> QED
      BY <2>1, <2>2
<1>3. CASE LinkStored
  <2>1. PICK id \in DOMAIN posts : Noted(posts', id, Key[card.form])
      BY <1>3, LinkStoredFacts
  <2>2. \A j \in DOMAIN posts : posts'[j].url = posts[j].url
      BY <2>1 DEF Noted
  <2> QED
      BY <2>1, <2>2 DEF Noted
<1>4. CASE Merge
  <2>1. PICK dup \in DuplicatesOfCard :
             LET row == Merged(posts[dup], NewRow)
                 to  == IF card.url # None /\ posts[dup].url = None THEN card.url ELSE dup
             IN /\ dup \in DOMAIN posts /\ row \in Row /\ NewRow \in Row
                /\ MergedTo(posts', dup, to, row)
                /\ (to # dup => posts[dup].url = None /\ to = card.url)
      BY <1>4, MergeFacts
  <2> DEFINE row == Merged(posts[dup], NewRow)
             to  == IF card.url # None /\ posts[dup].url = None THEN card.url ELSE dup
  <2>2. row.url = IF posts[dup].url # None THEN posts[dup].url ELSE card.url
      BY <1>0, <2>1, MergedFacts DEF TableOK, NewRow
  <2>3. card.url \in Codes \cup {None}
      BY DEF RowInv, TypeOK
  <2>4. to \notin Codes => to = dup /\ row.url = posts[dup].url
      BY <2>2, <2>3
  <2>5. \A j \in DOMAIN posts' \ Codes : j \in DOMAIN posts /\ posts'[j].url = posts[j].url
      BY <2>1, <2>4 DEF MergedTo
  <2> QED
      BY <2>5
<1>5. CASE Insert
  <2> DEFINE row == [NewRow EXCEPT !.cover = IF card.media THEN {Cover(Pid)} ELSE {}]
  <2>1. /\ row.url = card.url /\ InsertedAs(posts', Pid, row) /\ card \in Card
        /\ Pid \in Ids /\ (card.url # None => Pid = card.url)
      BY <1>5, InsertFacts
  <2>2. Pid \in Codes \/ posts'[Pid].url = None
      BY <2>1 DEF InsertedAs, Card
  <2>3. \A j \in DOMAIN posts' \ Codes :
            posts'[j].url = None \/ (j \in DOMAIN posts /\ posts'[j].url = posts[j].url)
      BY <2>1, <2>2 DEF InsertedAs
  <2> QED
      BY <2>3
<1>6. CASE Backfill
  <2>1. PICK code \in Codes \cup {None} :
             /\ card.shown \in DOMAIN posts /\ posts[card.shown].url = None
             /\ DOMAIN posts' = DOMAIN posts
             /\ \A j \in DOMAIN posts : j # card.shown => posts'[j] = posts[j]
             /\ posts'[card.shown] = [posts[card.shown] EXCEPT
                    !.tries = posts[card.shown].tries + 1, !.url = code]
             /\ code # None => Taken(card.shown, code) = {}
      BY <1>6, BackfillFacts
  <2>2. posts'[card.shown].url = code
      BY <1>0, <2>1 DEF TableOK, Row
  <2>3. code = None \/ \A j \in DOMAIN posts \ {card.shown} : posts[j].url # code
      BY <2>1 DEF Taken
  <2>4. \A j \in DOMAIN posts \ {card.shown} : posts'[j].url = posts[j].url
      BY <2>1
  <2> SUFFICES ASSUME NEW a \in DOMAIN posts \ Codes, NEW b \in DOMAIN posts \ Codes,
                      posts'[a].url # None, posts'[a].url = posts'[b].url
               PROVE  a = b
      BY <2>1
  <2> QED
      BY <2>2, <2>3, <2>4
<1>7. ASSUME NEW old \in SUBSET DOMAIN posts, Expire(old) PROVE OneBackfillPerLink'
  <2>1. DOMAIN posts' = DOMAIN posts \ old /\ \A id \in DOMAIN posts \ old : posts'[id] = posts[id]
      BY <1>7 DEF Expire
  <2> QED
      BY <2>1
<1>8. CASE StartRun \/ Discard \/ Sweep \/ Crash \/ UNCHANGED core
  <2>1. posts' = posts
      BY <1>8 DEF StartRun, Discard, Sweep, Crash, core, disk
  <2> QED
      BY <2>1
<1> QED
    BY <1>1, <1>2, <1>3, <1>4, <1>5, <1>6, <1>7, <1>8, Steps

\* No backfill gives a second row a permalink (_backfill_permalink looks before it records).
THEOREM BackfillsOnce == Spec => []OneBackfillPerLink
<1>1. Init => OneBackfillPerLink
    BY DEF Init, OneBackfillPerLink
<1> QED
    BY <1>1, RowAlways, LinkStep, PTL DEF Spec

\* What one step may do to an entry's id.
KeepsId(id) ==
    \/ /\ id \in DOMAIN posts'
       /\ posts[id].url \in {None, posts'[id].url}
    \/ /\ posts[id].url = None
       /\ \E new \in DOMAIN posts' \ DOMAIN posts :
             posts'[new].url = new /\ posts'[new].post = posts[id].post

LEMMA IdsStep ==
    ASSUME RowInv, [Next]_vars, pc' # "sweep", NEW id \in DOMAIN posts
    PROVE  KeepsId(id)
<1> USE DEF KeepsId
<1>0. TableOK
    BY RowParts
<1>1. CASE CardStep
    BY <1>1, CardStepKeeps
<1>2. ASSUME NEW f \in Forms, NEW shows \in BOOLEAN, SeeStored(f, shows)
      PROVE  KeepsId(id)
  <2>1. PICK known \in DOMAIN posts : posts' = posts \/ Noted(posts', known, Key[f])
      BY <1>2, SeeStoredFacts
  <2> QED
      BY <2>1 DEF Noted
<1>3. CASE LinkStored
  <2>1. PICK known \in DOMAIN posts : Noted(posts', known, Key[card.form])
      BY <1>3, LinkStoredFacts
  <2> QED
      BY <2>1 DEF Noted
<1>4. CASE Merge
  <2>1. PICK dup \in DuplicatesOfCard :
             LET row == Merged(posts[dup], NewRow)
                 to  == IF card.url # None /\ posts[dup].url = None THEN card.url ELSE dup
             IN /\ dup \in DOMAIN posts /\ row \in Row /\ NewRow \in Row
                /\ MergedTo(posts', dup, to, row)
                /\ (to # dup => posts[dup].url = None /\ to = card.url)
      BY <1>4, MergeFacts
  <2> DEFINE row == Merged(posts[dup], NewRow)
             to  == IF card.url # None /\ posts[dup].url = None THEN card.url ELSE dup
  <2>2. /\ row.url = IF posts[dup].url # None THEN posts[dup].url ELSE card.url
        /\ row.post = posts[dup].post
      BY <1>0, <2>1, MergedFacts DEF TableOK, NewRow
  <2>3. card.url \notin DOMAIN posts
      BY <1>4 DEF RowInv, CardInv, Merge
  <2>4. CASE id = dup /\ to = dup
      BY <2>1, <2>2, <2>4 DEF MergedTo
  <2>5. CASE id = dup /\ to # dup
    <3>1. posts[id].url = None /\ to = card.url /\ row.url = to
        BY <2>1, <2>2, <2>5
    <3>2. to \in DOMAIN posts' \ DOMAIN posts /\ posts'[to] = row
        BY <2>1, <2>3, <3>1 DEF MergedTo
    <3> QED
        BY <2>2, <2>5, <3>1, <3>2
  <2>6. CASE id # dup
    <3>1. id # to
        BY <2>1, <2>3, <2>6
    <3> QED
        BY <2>1, <2>6, <3>1 DEF MergedTo
  <2> QED
      BY <2>4, <2>5, <2>6
<1>5. CASE Insert
  <2> DEFINE row == [NewRow EXCEPT !.cover = IF card.media THEN {Cover(Pid)} ELSE {}]
  <2>1. InsertedAs(posts', Pid, row) /\ Pid \notin DOMAIN posts
      BY <1>5, InsertFacts
  <2> QED
      BY <2>1 DEF InsertedAs
<1>6. CASE Backfill
  <2>1. /\ card.shown \in DOMAIN posts /\ posts[card.shown].url = None
        /\ DOMAIN posts' = DOMAIN posts
        /\ \A j \in DOMAIN posts : j # card.shown => posts'[j] = posts[j]
      BY <1>6, BackfillFacts
  <2> QED
      BY <2>1
<1>7. ASSUME NEW old \in SUBSET DOMAIN posts, Expire(old) PROVE KeepsId(id)
    BY <1>7 DEF Expire
<1>8. CASE StartRun \/ Discard \/ Sweep \/ Crash \/ UNCHANGED core
  <2>1. posts' = posts
      BY <1>8 DEF StartRun, Discard, Sweep, Crash, core, disk
  <2> QED
      BY <2>1
<1> QED
    BY <1>1, <1>2, <1>3, <1>4, <1>5, <1>6, <1>7, <1>8, Steps

\* An entry's id changes only when a merge gives a row without a permalink its
\* permalink's, and a row with one keeps both until retention removes it.
THEOREM IdsStay == Spec => EntryIdsKept
<1>1. RowInv /\ [Next]_vars =>
        [pc' # "sweep" => \A id \in DOMAIN posts :
              \/ /\ id \in DOMAIN posts'
                 /\ posts[id].url \in {None, posts'[id].url}
              \/ /\ posts[id].url = None
                 /\ \E new \in DOMAIN posts' \ DOMAIN posts :
                       posts'[new].url = new /\ posts'[new].post = posts[id].post]_vars
    BY IdsStep DEF KeepsId
<1> QED
    BY <1>1, RowAlways, PTL DEF Spec, EntryIdsKept

------------------------------------------------------------------------------
(* What a sweep leaves.                                                     *)

\* Only a row under a hash id goes, in a merge, without its media rows.
SlideRows == \A s \in slides : s[1] \in Hashes \cup DOMAIN posts

LEMMA SlideStep == RowInv /\ SlideRows /\ [Next]_vars => SlideRows'
<1> SUFFICES ASSUME RowInv, SlideRows, [Next]_vars PROVE SlideRows'
    OBVIOUS
<1> USE DEF SlideRows
<1>0. TableOK
    BY RowParts
<1>1. CASE CardStep
    BY <1>1, CardStepKeeps
<1>2. ASSUME NEW f \in Forms, NEW shows \in BOOLEAN, SeeStored(f, shows) PROVE SlideRows'
    BY <1>2, SeeStoredFacts DEF SeeStored
<1>3. CASE LinkStored
    BY <1>3, LinkStoredFacts DEF LinkStored, Noted
<1>4. CASE Merge
  <2>1. PICK dup \in DuplicatesOfCard :
             LET row == Merged(posts[dup], NewRow)
                 to  == IF card.url # None /\ posts[dup].url = None THEN card.url ELSE dup
             IN /\ dup \in DOMAIN posts
                /\ MergedTo(posts', dup, to, row)
                /\ (to # dup => posts[dup].url = None)
      BY <1>4, MergeFacts
  <2> DEFINE to == IF card.url # None /\ posts[dup].url = None THEN card.url ELSE dup
  <2>2. to # dup => dup \in Hashes
      BY <1>0, <2>1, FormsAssumption DEF TableOK, CodeIsLink, Ids
  <2>3. DOMAIN posts' = (DOMAIN posts \ {dup}) \cup {to}
      BY <2>1 DEF MergedTo
  <2> QED
      BY <1>4, <2>2, <2>3 DEF Merge
<1>5. CASE Insert
  <2>1. DOMAIN posts' = DOMAIN posts \cup {Pid}
      BY <1>5 DEF Insert
  <2>2. \A s \in slides' : s \in slides \/ s[1] = Pid
      BY <1>5 DEF Insert
  <2> QED
      BY <2>1, <2>2
<1>6. CASE Backfill
    BY <1>6, BackfillFacts DEF Backfill
<1>7. ASSUME NEW old \in SUBSET DOMAIN posts, Expire(old) PROVE SlideRows'
    BY <1>7 DEF Expire, SlidesWithout
<1>8. CASE StartRun \/ Discard \/ Sweep \/ Crash \/ UNCHANGED core
  <2>1. UNCHANGED <<posts, slides>>
      BY <1>8 DEF StartRun, Discard, Sweep, Crash, core, disk
  <2> QED
      BY <2>1
<1> QED
    BY <1>1, <1>2, <1>3, <1>4, <1>5, <1>6, <1>7, <1>8, Steps

LEMMA LeftoversStep == RowInv /\ SlideRows /\ LeftoversAreSlides /\ [Next]_vars => LeftoversAreSlides'
<1> SUFFICES ASSUME RowInv, SlideRows, LeftoversAreSlides, [Next]_vars PROVE LeftoversAreSlides'
    OBVIOUS
<1>1. CASE Sweep
  <2> SUFFICES ASSUME NEW f \in files', f \notin FilesOf(DOMAIN posts)
               PROVE  \E s \in slides : s[2] = f /\ s[1] \in Hashes \ DOMAIN posts
      BY <1>1 DEF Sweep, LeftoversAreSlides, FilesOf
  <2>1. \/ \E id \in DOMAIN posts : f \in posts[id].cover
        \/ \E s \in slides : s[2] = f
      BY <1>1 DEF Sweep
  <2>2. PICK s \in slides : s[2] = f
      BY <2>1 DEF FilesOf
  <2>3. s[1] \notin DOMAIN posts
      BY <2>2 DEF FilesOf
  <2> QED
      BY <2>2, <2>3 DEF SlideRows
<1>2. CASE UNCHANGED core
    BY <1>2 DEF core, disk, LeftoversAreSlides, FilesOf
<1>3. CASE pc' # "swept"
    BY <1>3 DEF LeftoversAreSlides
<1>4. Sweep \/ UNCHANGED core \/ pc' # "swept"
  <2>1. CASE CardStep
      BY <2>1 DEF CardStep, Capture, LinkFails, LinkFree, Skip, Rename
  <2>2. ASSUME NEW f \in Forms, NEW shows \in BOOLEAN, SeeStored(f, shows) PROVE pc' # "swept"
      BY <2>2 DEF SeeStored
  <2>3. CASE LinkStored \/ Merge \/ Insert \/ Backfill
      BY <2>3 DEF LinkStored, Merge, Insert, Backfill
  <2>4. CASE StartRun \/ Discard \/ Crash
      BY <2>4 DEF StartRun, Discard, Crash
  <2>5. ASSUME NEW old \in SUBSET DOMAIN posts, Expire(old) PROVE pc' # "swept"
      BY <2>5 DEF Expire
  <2> QED
      BY <2>1, <2>2, <2>3, <2>4, <2>5, Steps
<1> QED
    BY <1>1, <1>2, <1>3, <1>4

\* After a sweep no cover outlives its post, and a slide only where a merge replaced a
\* hash id by the permalink's (retention.py: _sweep_orphans keeps what media references).
THEOREM OnlySlidesLeft == Spec => []LeftoversAreSlides
<1>1. Init => SlideRows /\ LeftoversAreSlides
    BY DEF Init, SlideRows, LeftoversAreSlides
<1> QED
    BY <1>1, RowAlways, SlideStep, LeftoversStep, PTL DEF Spec

------------------------------------------------------------------------------
(* Covers.  A row is found by two hashes and its id, so its cover is safe as *)
(* long as no post shows in three forms that hash apart, and no card is     *)
(* taken for another post's: TLC finds the third form's capture deleting    *)
(* the first's cover.                                                       *)

KeysOf(p) == {Key[f] : f \in {g \in Forms : PostOf[g] = p}}

\* What one card shares with another's post, it shares with its own post's row only.
PostsApart ==
    /\ \A f, g \in Forms :
          (\/ Key[f] = Key[g]
           \/ UserOf[f] = UserOf[g] /\ Text[f] = Text[g] /\ Text[f] \in Telling
           \/ UserOf[f] = UserOf[g] /\ Slot[PostOf[f]] = Slot[PostOf[g]])
          => PostOf[f] = PostOf[g]
    /\ \A f, g \in Forms : PostOf[f] = PostOf[g] => UserOf[f] = UserOf[g]
    /\ \A p \in Posts : Slot[p] # None
    /\ ~StaleLinks

\* A caption has a collapsed and an expanded form.
TwoHashes ==
    \A f, g, h \in Forms : PostOf[f] = PostOf[g] /\ PostOf[g] = PostOf[h] =>
        Key[f] = Key[g] \/ Key[g] = Key[h] \/ Key[f] = Key[h]

\* A row is its own post's, and is still found by the id and by the hash it got its id
\* and its cover's name from.
OwnRow(id, row) ==
    /\ row.hash \in KeysOf(row.post) /\ row.alt \in (KeysOf(row.post) \cup {None}) \ {row.hash}
    /\ \A f \in Forms : PostOf[f] = row.post => UserOf[f] = row.user
    /\ \E f \in Forms : PostOf[f] = row.post /\ Text[f] = row.text
    /\ row.slot \in {None, Slot[row.post]}
    /\ id \in Codes => id = Code[row.post]
    /\ id \in Hashes => id \in {row.hash, row.alt}
    /\ row.cover \subseteq {Cover(k) : k \in {row.hash, row.alt, id}}

OwnInv ==
    /\ \A id \in DOMAIN posts : OwnRow(id, posts[id])
    /\ pc \in {"store", "renamed"} => card.url \in {None, Code[PostOf[card.form]]}

\* Two different hashes of a post are all of its hashes.
LEMMA AllKeys ==
    ASSUME TwoHashes, NEW p, NEW a \in KeysOf(p), NEW b \in KeysOf(p), a # b, NEW k \in KeysOf(p)
    PROVE  k \in {a, b}
BY DEF TwoHashes, KeysOf

\* A card's row is its own post's.
LEMMA SameCaptionOwn ==
    ASSUME PostsApart, OwnInv, NEW g \in Forms, NEW id \in SameCaption(UserOf[g], Text[g])
    PROVE  posts[id].post = PostOf[g]
<1>1. /\ id \in DOMAIN posts /\ posts[id].user = UserOf[g] /\ posts[id].text = Text[g]
      /\ Text[g] \in Telling
    BY DEF SameCaption
<1>2. PICK f \in Forms : PostOf[f] = posts[id].post /\ Text[f] = posts[id].text
    BY <1>1 DEF OwnInv, OwnRow
<1>3. UserOf[f] = UserOf[g]
    BY <1>1, <1>2 DEF OwnInv, OwnRow
<1> QED
    BY <1>1, <1>2, <1>3 DEF PostsApart

LEMMA DuplicateOwn ==
    ASSUME PostsApart, OwnInv, RowInv, pc = "store", NEW id \in DuplicatesOfCard
    PROVE  posts[id].post = PostOf[card.form]
<1>1. /\ card.form \in Forms /\ card.shown \in Forms
      /\ PostOf[card.shown] = PostOf[card.form] /\ UserOf[card.shown] = UserOf[card.form]
    BY FormsAssumption DEF RowInv, CardInv
<1>2. CASE ~card.dated
    BY <1>1, <1>2, SameCaptionOwn DEF DuplicatesOfCard, Duplicates
<1>3. CASE card.dated
  <2>1. /\ id \in DOMAIN posts /\ posts[id].user = UserOf[card.form]
        /\ posts[id].slot = Slot[PostOf[card.form]]
      BY <1>3 DEF DuplicatesOfCard, Duplicates
  <2>2. PICK f \in Forms : PostOf[f] = posts[id].post
      BY <2>1 DEF OwnInv, OwnRow
  <2>3. UserOf[f] = UserOf[card.form]
      BY <2>1, <2>2 DEF OwnInv, OwnRow
  <2>4. Slot[PostOf[card.form]] # None
      BY <1>1 DEF PostsApart, Posts
  <2>5. Slot[PostOf[f]] = Slot[PostOf[card.form]]
      BY <2>1, <2>2, <2>4 DEF OwnInv, OwnRow
  <2> QED
      BY <1>1, <2>2, <2>3, <2>5 DEF PostsApart
<1> QED
    BY <1>2, <1>3

\* A row that takes a hash of its post keeps those it needs.
LEMMA NotedOwn ==
    ASSUME TwoHashes, TableOK, NEW id \in DOMAIN posts, OwnRow(id, posts[id]),
           NEW h \in KeysOf(posts[id].post), Noted(posts', id, h)
    PROVE  OwnRow(id, posts'[id])
<1> DEFINE old == posts[id]
           row == posts'[id]
<1>1. /\ row.post = old.post /\ row.user = old.user /\ row.text = old.text
      /\ row.cover = old.cover /\ row.slot = old.slot /\ row.hash = h
      /\ row.alt = IF old.hash = h THEN old.alt ELSE old.hash
    BY DEF Noted
<1>2. /\ old.hash \in KeysOf(old.post) /\ old.alt \in (KeysOf(old.post) \cup {None}) \ {old.hash}
    BY DEF OwnRow
<1>3. old.alt \in {None, row.hash, row.alt} /\ old.hash \in {row.hash, row.alt}
  <2>1. CASE old.hash = h
      BY <1>1, <2>1
  <2>2. CASE old.hash # h /\ old.alt # None
      BY <1>1, <1>2, <2>2, AllKeys
  <2> QED
      BY <1>1, <2>1, <2>2
<1>4. id \in Ids /\ None \notin Ids
    BY FormsAssumption DEF TableOK
<1>5. id \in Hashes => id \in {row.hash, row.alt}
    BY <1>3, <1>4 DEF OwnRow, Ids
<1>6. row.cover \subseteq {Cover(k) : k \in {row.hash, row.alt, id}}
  <2>1. Cover(None) \notin File
      BY <1>4 DEF Cover, File
  <2>2. old.cover \subseteq File
      BY DEF TableOK, Row
  <2> QED
      BY <1>1, <1>3, <2>1, <2>2 DEF OwnRow
<1> QED
    BY <1>1, <1>2, <1>5, <1>6 DEF OwnRow

\* So does a row a card is merged into.
LEMMA MergedOwn ==
    ASSUME TwoHashes, NEW id, NEW to, NEW old \in Row, NEW new \in Row, OwnRow(id, old),
           id \in Ids, to = id \/ (to = Code[old.post] /\ to \in Codes /\ id \notin Codes),
           new.hash \in KeysOf(old.post),
           new.alt \in (KeysOf(old.post) \cup {None}) \ {new.hash},
           \E f \in Forms : PostOf[f] = old.post /\ Text[f] = new.text,
           new.slot \in {None, Slot[old.post]}, new.cover \subseteq {Cover(new.hash)}
    PROVE  OwnRow(to, Merged(old, new))
<1> DEFINE row == Merged(old, new)
<1>1. /\ row.post = old.post /\ row.user = old.user /\ row.text \in {old.text, new.text}
      /\ row.hash = new.hash
      /\ row.alt = IF new.alt # None THEN new.alt
                   ELSE IF old.hash # new.hash THEN old.hash
                   ELSE IF old.alt # new.hash THEN old.alt ELSE None
      /\ row.cover = IF old.cover # {} THEN old.cover ELSE new.cover
      /\ row.slot = IF old.slot # None THEN old.slot ELSE new.slot
    BY MergedFacts
<1> HIDE DEF row
<1>2. /\ old.hash \in KeysOf(old.post) /\ old.alt \in (KeysOf(old.post) \cup {None}) \ {old.hash}
    BY DEF OwnRow
<1>3. None \notin Ids
    BY FormsAssumption
<1>4. old.hash # None
    BY <1>3 DEF Row, Ids
<1>5. row.alt \in (KeysOf(old.post) \cup {None}) \ {row.hash}
    BY <1>1, <1>2
<1>6. old.alt \in {None, row.hash, row.alt} /\ old.hash \in {row.hash, row.alt}
  <2>1. CASE new.alt # None
    <3>1. row.alt = new.alt /\ row.hash = new.hash
        BY <1>1, <2>1
    <3>2. \A k \in KeysOf(old.post) : k \in {row.hash, row.alt}
        BY <2>1, <3>1, AllKeys
    <3> QED
        BY <1>2, <3>2
  <2>2. CASE new.alt = None /\ old.hash # new.hash
    <3>1. row.alt = old.hash /\ row.hash = new.hash
        BY <1>1, <2>2
    <3>2. \A k \in KeysOf(old.post) : k \in {row.hash, row.alt}
        BY <1>2, <2>2, <3>1, AllKeys
    <3> QED
        BY <1>2, <3>1, <3>2
  <2>3. CASE new.alt = None /\ old.hash = new.hash
      BY <1>1, <1>2, <2>3
  <2> QED
      BY <2>1, <2>2, <2>3
<1>7. to \in Hashes => to \in {row.hash, row.alt}
  <2>1. to \in Hashes => to = id
      BY FormsAssumption
  <2>2. id \in Hashes => id # None
      BY <1>3 DEF Ids
  <2> QED
      BY <1>6, <2>1, <2>2 DEF OwnRow
<1>8. to \in Codes => to = Code[row.post]
    BY <1>1 DEF OwnRow
<1>9. row.cover \subseteq {Cover(k) : k \in {row.hash, row.alt, to}}
  <2>1. CASE old.cover = {}
      BY <1>1, <2>1
  <2>2. CASE old.cover # {}
    <3>1. old.cover \subseteq File /\ Cover(None) \notin File
        BY <1>3 DEF Row, Cover, File
    <3>2. SUFFICES ASSUME NEW k \in {old.hash, old.alt, id}, Cover(k) \in old.cover
                   PROVE  k \in {row.hash, row.alt, to}
        BY <1>1, <2>2 DEF OwnRow
    <3>3. k # None
        BY <3>1, <3>2
    <3>4. id \in {old.hash, old.alt} \/ to = id
        BY FormsAssumption DEF OwnRow, Ids
    <3> QED
        BY <1>6, <3>2, <3>3, <3>4
  <2> QED
      BY <2>1, <2>2
<1>10. \E f \in Forms : PostOf[f] = row.post /\ Text[f] = row.text
    BY <1>1 DEF OwnRow
<1>11. row.slot \in {None, Slot[row.post]}
    BY <1>1 DEF OwnRow
<1>12. \A f \in Forms : PostOf[f] = row.post => UserOf[f] = row.user
    BY <1>1 DEF OwnRow
<1>13. OwnRow(to, row)
    BY <1>1, <1>2, <1>5, <1>7, <1>8, <1>9, <1>10, <1>11, <1>12 DEF OwnRow
<1> QED
    BY <1>13 DEF row

\* What the row of a card is made of.
LEMMA CardKeys ==
    ASSUME RowInv, pc \in {"store", "renamed"}
    PROVE  LET p == PostOf[card.form] IN
           /\ card.form \in Forms /\ card.shown \in Forms /\ PostOf[card.shown] = p
           /\ NewRow.post = p /\ NewRow.user = UserOf[card.form]
           /\ NewRow.hash = Key[card.form] /\ NewRow.hash \in KeysOf(p)
           /\ NewRow.alt \in (KeysOf(p) \cup {None}) \ {NewRow.hash}
           /\ \E f \in Forms : PostOf[f] = p /\ Text[f] = NewRow.text
           /\ NewRow.slot \in {None, Slot[p]} /\ NewRow.url = card.url
           /\ NewRow.cover = IF card.media THEN {Cover(Key[card.form])} ELSE {}
<1> DEFINE p == PostOf[card.form]
<1>a. card.form \in Forms /\ card.shown \in {card.form, Expanded[card.form]}
    BY DEF RowInv, CardInv
<1>b. Key[card.form] # None
    BY <1>a, FormFacts
<1>c. Expanded[card.form] \in Forms /\ PostOf[Expanded[card.form]] = p
    BY <1>a, FormsAssumption
<1>1. /\ card.form \in Forms /\ card.shown \in Forms /\ PostOf[card.shown] = p
      /\ Key[card.form] # None
    BY <1>a, <1>b, <1>c
<1>2. Key[card.form] \in KeysOf(p) /\ Key[card.shown] \in KeysOf(p)
    BY <1>1 DEF KeysOf
<1> QED
    BY <1>1, <1>2 DEF NewRow

LEMMA OwnStep ==
    ASSUME PostsApart, TwoHashes, RowInv, OwnInv, [Next]_vars
    PROVE  OwnInv'
<1>0. TableOK
    BY RowParts
\* Each step's rows,
<1>1. \A id \in DOMAIN posts' : OwnRow(id, posts'[id])
  <2>1. CASE CardStep
      BY <2>1, CardStepKeeps DEF OwnInv
  <2>2. ASSUME NEW f \in Forms, NEW shows \in BOOLEAN, SeeStored(f, shows)
        PROVE  \A id \in DOMAIN posts' : OwnRow(id, posts'[id])
    <3>1. PICK id \in Stored(f, shows) :
              /\ id \in DOMAIN posts
              /\ \/ posts' = posts
                 \/ SeenAs(Key[f]) = {} /\ Noted(posts', id, Key[f])
        BY <2>2, SeeStoredFacts
    <3>2. CASE posts' = posts
        BY <3>2 DEF OwnInv
    <3>3. CASE SeenAs(Key[f]) = {} /\ Noted(posts', id, Key[f])
      <4>1. posts[id].post = PostOf[f]
          BY <3>1, <3>3, SameCaptionOwn DEF Stored
      <4>2. Key[f] \in KeysOf(posts[id].post)
          BY <4>1 DEF KeysOf
      <4>3. OwnRow(id, posts'[id])
          BY <1>0, <3>1, <3>3, <4>2, NotedOwn DEF OwnInv
      <4> QED
          BY <3>3, <4>3 DEF Noted, OwnInv
    <3> QED
        BY <3>1, <3>2, <3>3
  <2>3. CASE LinkStored
    <3>1. PICK l \in Links(PostOf[card.form]) :
              l.url \in DOMAIN posts /\ Noted(posts', l.url, Key[card.form])
        BY <2>3, LinkStoredFacts
    <3>2. card.form \in Forms /\ PostOf[card.form] \in Posts
        BY <2>3, FormFacts DEF LinkStored, RowInv, CardInv
    <3>3. l.url = Code[PostOf[card.form]] /\ l.url \in Codes
      <4>1. l.url \in {None, Code[PostOf[card.form]]}
          BY <3>2, LinkFacts DEF PostsApart
      <4>2. None \notin DOMAIN posts
          BY <1>0, FormsAssumption DEF TableOK
      <4> QED
          BY <3>1, <3>2, <4>1, <4>2 DEF Codes
    <3>4. posts[l.url].post = PostOf[card.form]
      <4>1. posts[l.url].post \in Posts
          BY <1>0, <3>1 DEF TableOK, Row
      <4>2. Code[posts[l.url].post] = Code[PostOf[card.form]]
          BY <3>1, <3>3 DEF OwnInv, OwnRow
      <4> QED
          BY <3>2, <4>1, <4>2, FormsAssumption
    <3>5. Key[card.form] \in KeysOf(posts[l.url].post)
        BY <3>2, <3>4 DEF KeysOf
    <3>6. OwnRow(l.url, posts'[l.url])
        BY <1>0, <3>1, <3>5, NotedOwn DEF OwnInv
    <3> QED
        BY <3>1, <3>6 DEF Noted, OwnInv
  <2>4. CASE Merge
    <3>1. PICK dup \in DuplicatesOfCard :
             LET row == Merged(posts[dup], NewRow)
                 to  == IF card.url # None /\ posts[dup].url = None THEN card.url ELSE dup
             IN /\ dup \in DOMAIN posts /\ NewRow \in Row
                /\ MergedTo(posts', dup, to, row)
        BY <2>4, MergeFacts
    <3> DEFINE row == Merged(posts[dup], NewRow)
               to  == IF card.url # None /\ posts[dup].url = None THEN card.url ELSE dup
    <3>2. pc = "store"
        BY <2>4 DEF Merge
    <3>3. posts[dup].post = PostOf[card.form]
        BY <3>2, DuplicateOwn
    <3>4. to = dup \/ (to = Code[posts[dup].post] /\ to \in Codes /\ dup \notin Codes)
      <4>1. CASE card.url # None /\ posts[dup].url = None
        <5>1. card.url = Code[posts[dup].post] /\ card.url \in Codes
            BY <3>2, <3>3, <4>1 DEF OwnInv, RowInv, TypeOK
        <5>2. dup \notin Codes
            BY <1>0, <3>1, <4>1, FormsAssumption DEF TableOK, CodeIsLink, Ids
        <5> QED
            BY <4>1, <5>1, <5>2
      <4> QED
          BY <4>1
    <3>5. OwnRow(dup, posts[dup]) /\ dup \in Ids /\ posts[dup] \in Row
        BY <1>0, <3>1 DEF OwnInv, TableOK
    <3>6. /\ NewRow.hash \in KeysOf(posts[dup].post)
          /\ NewRow.alt \in (KeysOf(posts[dup].post) \cup {None}) \ {NewRow.hash}
          /\ \E f \in Forms : PostOf[f] = posts[dup].post /\ Text[f] = NewRow.text
          /\ NewRow.slot \in {None, Slot[posts[dup].post]}
          /\ NewRow.cover \subseteq {Cover(NewRow.hash)}
        BY <3>2, <3>3, CardKeys
    <3> HIDE DEF to
    <3>7. OwnRow(to, Merged(posts[dup], NewRow))
        BY <3>1, <3>4, <3>5, <3>6, MergedOwn
    <3>8. MergedTo(posts', dup, to, Merged(posts[dup], NewRow))
        BY <3>1 DEF to
    <3> QED
        BY <3>7, <3>8 DEF MergedTo, OwnInv
  <2>5. CASE Insert
    <3> DEFINE row == [NewRow EXCEPT !.cover = IF card.media THEN {Cover(Pid)} ELSE {}]
    <3>1. /\ row.hash = Key[card.form] /\ row.cover = (IF card.media THEN {Cover(Pid)} ELSE {})
          /\ row.alt = NewRow.alt /\ row.post = PostOf[card.form] /\ row.user = UserOf[card.form]
          /\ row.text = Text[card.shown]
          /\ row.slot \in {Slot[PostOf[card.form]], None}
          /\ InsertedAs(posts', Pid, row)
          /\ (card.url # None => Pid = card.url) /\ (card.url = None => Pid = Key[card.form])
        BY <2>5, InsertFacts
    <3>2. pc \in {"store", "renamed"}
        BY <2>5 DEF Insert
    <3>3. /\ card.form \in Forms /\ card.shown \in Forms
          /\ PostOf[card.shown] = PostOf[card.form]
          /\ Key[card.form] \in KeysOf(PostOf[card.form])
          /\ NewRow.alt \in (KeysOf(PostOf[card.form]) \cup {None}) \ {Key[card.form]}
        BY <3>2, CardKeys
    <3>4. Pid \in Hashes => Pid = Key[card.form]
      <4>1. card.url \in Codes \cup {None}
          BY DEF RowInv, TypeOK
      <4> QED
          BY <3>1, <4>1, FormsAssumption
    <3>5. Pid \in Codes => Pid = Code[PostOf[card.form]]
      <4>1. Key[card.form] \notin Codes
          BY <3>3, FormFacts
      <4> QED
          BY <3>1, <3>2, <4>1 DEF OwnInv
    <3> HIDE DEF row
    <3>6. OwnRow(Pid, row)
      <4>1. \A f \in Forms : PostOf[f] = row.post => UserOf[f] = row.user
          BY <3>1, <3>3 DEF PostsApart
      <4> QED
          BY <3>1, <3>3, <3>4, <3>5, <4>1 DEF OwnRow
    <3> QED
        BY <3>1, <3>6 DEF InsertedAs, OwnInv
  <2>6. CASE Backfill
    <3>1. PICK code \in Codes \cup {None} :
             /\ card.shown \in DOMAIN posts /\ DOMAIN posts' = DOMAIN posts
             /\ \A j \in DOMAIN posts : j # card.shown => posts'[j] = posts[j]
             /\ posts'[card.shown] = [posts[card.shown] EXCEPT
                    !.tries = posts[card.shown].tries + 1, !.url = code]
        BY <2>6, BackfillFacts
    <3>2. LET old == posts[card.shown]
              row == posts'[card.shown]
          IN /\ row.hash = old.hash /\ row.alt = old.alt /\ row.post = old.post
             /\ row.user = old.user /\ row.text = old.text /\ row.slot = old.slot
             /\ row.cover = old.cover
        BY <1>0, <3>1 DEF TableOK, Row
    <3>3. OwnRow(card.shown, posts'[card.shown])
        BY <3>1, <3>2 DEF OwnInv, OwnRow
    <3> QED
        BY <3>1, <3>3 DEF OwnInv
  <2>7. ASSUME NEW old \in SUBSET DOMAIN posts, Expire(old)
        PROVE  \A id \in DOMAIN posts' : OwnRow(id, posts'[id])
      BY <2>7 DEF Expire, OwnInv
  <2>8. CASE StartRun \/ Discard \/ Sweep \/ Crash \/ UNCHANGED core
    <3>1. posts' = posts
        BY <2>8 DEF StartRun, Discard, Sweep, Crash, core, disk
    <3> QED
        BY <3>1 DEF OwnInv
  <2> QED
      BY <2>1, <2>2, <2>3, <2>4, <2>5, <2>6, <2>7, <2>8, Steps
\* ... and the link at hand.
<1>2. pc' \in {"store", "renamed"} => card'.url \in {None, Code[PostOf[card'.form]]}
  <2>1. CASE CardStep
    <3>1. CASE LinkFree
      <4>1. PICK l \in Links(PostOf[card.form]), f \in {card.form, Expanded[card.form]} :
                card' = [card EXCEPT !.shown = f,
                                     !.url = IF l.url \in DOMAIN posts THEN None ELSE l.url]
          BY <3>1 DEF LinkFree
      <4>2. card.form \in Forms /\ card \in Card
          BY <3>1 DEF LinkFree, RowInv, CardInv
      <4>3. l.url \in {None, Code[PostOf[card.form]]}
          BY <4>2, FormFacts, LinkFacts DEF PostsApart
      <4> QED
          BY <4>1, <4>2, <4>3 DEF Card
    <3>2. CASE ~LinkFree
        BY <2>1, <3>2 DEF CardStep, Capture, LinkFails, Skip, Rename, OwnInv
    <3> QED
        BY <3>1, <3>2
  <2>2. ASSUME NEW f \in Forms, NEW shows \in BOOLEAN, SeeStored(f, shows)
        PROVE  pc' \notin {"store", "renamed"}
      BY <2>2 DEF SeeStored
  <2>3. CASE LinkStored \/ Merge \/ Insert \/ Backfill \/ StartRun \/ Discard \/ Sweep \/ Crash
      BY <2>3 DEF LinkStored, Merge, Insert, Backfill, StartRun, Discard, Sweep, Crash
  <2>4. ASSUME NEW old \in SUBSET DOMAIN posts, Expire(old) PROVE pc' \notin {"store", "renamed"}
      BY <2>4 DEF Expire
  <2>5. CASE UNCHANGED core
      BY <2>5 DEF core, OwnInv
  <2> QED
      BY <2>1, <2>2, <2>3, <2>4, <2>5, Steps
<1> QED
    BY <1>1, <1>2 DEF OwnInv

\* Every cover is on disk, is no other row's and is not to go; the card's own waits on
\* disk for its row.
DiskInv ==
    /\ \A id \in DOMAIN posts : posts[id].cover \subseteq files /\ posts[id].cover \cap doomed = {}
    /\ \A a, b \in DOMAIN posts : a # b => posts[a].cover \cap posts[b].cover = {}
    /\ \A s \in slides : s[2].n > 0
    /\ pc \notin {"discard", "sweep"} => doomed = {}
    /\ pc \in {"link", "store"} /\ card.media => Cover(Key[card.form]) \in files
    /\ pc = "renamed" => Cover(Pid) \in files

LEMMA SlidesApart ==
    ASSUME NEW id, NEW k \in Nat, NEW i
    PROVE  Cover(i) \notin Slides(id, k) /\ \A s \in Slides(id, k) : s.n > 0
<1>1. \A s \in Slides(id, k) : s.n > 0
    BY DEF Slides
<1>2. Cover(i).n = 0
    BY DEF Cover
<1> QED
    BY <1>1, <1>2

\* Until its row comes nothing captured is a row's cover.
LEMMA Unclaimed ==
    ASSUME RowInv, OwnInv, pc \in {"link", "store", "renamed"}, NEW id \in DOMAIN posts
    PROVE  posts[id].cover \cap Captured = {} /\ Cover(Key[card.form]) \notin posts[id].cover
<1>1. /\ Key[card.form] \notin {posts[id].hash, posts[id].alt, id}
      /\ posts[id].cover \subseteq {Cover(k) : k \in {posts[id].hash, posts[id].alt, id}}
    BY DEF RowInv, CardInv, SeenAs, OwnInv, OwnRow
<1>2. \A k, j : Cover(k) = Cover(j) => k = j
    BY DEF Cover
<1>3. \A f \in Captured : f = Cover(Key[card.form]) \/ f \in Slides(Key[card.form], card.extra)
    BY DEF Captured
<1>4. Cover(Key[card.form]) \notin posts[id].cover
    BY <1>1, <1>2
<1>5. \A k : Cover(k) \notin Slides(Key[card.form], card.extra)
  <2>1. card.extra \in Nat
      BY LimitsAssumption DEF RowInv, CardInv, Card
  <2> QED
      BY <2>1, SlidesApart
<1> QED
    BY <1>1, <1>3, <1>4, <1>5

\* A step that leaves the rows' covers and their files, and dooms none of them.
LEMMA CoversKeep ==
    ASSUME DiskInv, DOMAIN posts' = DOMAIN posts,
           \A id \in DOMAIN posts : /\ posts'[id].cover = posts[id].cover
                                    /\ posts[id].cover \subseteq files'
                                    /\ posts[id].cover \cap doomed' = {},
           slides' = slides, pc' \notin {"discard", "sweep"} => doomed' = {},
           (pc' \in {"link", "store"} /\ card'.media) => Cover(Key[card'.form]) \in files',
           pc' # "renamed"
    PROVE  DiskInv'
BY DEF DiskInv

LEMMA CardDisk ==
    ASSUME RowInv, OwnInv, DiskInv, CardStep
    PROVE  DiskInv'
<1>1. ASSUME NEW f \in Forms, NEW shows \in BOOLEAN, Capture(f, shows) PROVE DiskInv'
  <2>1. /\ UNCHANGED <<posts, slides, doomed>> /\ pc = "walk" /\ pc' = "link"
        /\ files' = files \cup Captured'
      BY <1>1 DEF Capture, disk
  <2>2. card'.media => Cover(Key[card'.form]) \in Captured'
      BY DEF Captured
  <2> QED
      BY <2>1, <2>2, CoversKeep DEF DiskInv
<1>2. CASE LinkFails \/ Skip
  <2>1. /\ UNCHANGED <<posts, slides, doomed>> /\ pc \in {"link", "store"} /\ pc' = "walk"
        /\ files' = files \ Captured
      BY <1>2 DEF LinkFails, Skip
  <2>2. \A id \in DOMAIN posts : posts[id].cover \subseteq files'
      BY <2>1, Unclaimed DEF DiskInv
  <2> QED
      BY <2>1, <2>2, CoversKeep DEF DiskInv
<1>3. CASE LinkFree
  <2>1. UNCHANGED <<posts, slides, files, doomed>> /\ pc = "link" /\ pc' = "store"
      BY <1>3 DEF LinkFree, disk
  <2>2. card'.media = card.media /\ card'.form = card.form
      BY <1>3 DEF LinkFree, RowInv, CardInv, Card
  <2> QED
      BY <2>1, <2>2, CoversKeep DEF DiskInv
<1>4. CASE Rename
  <2>1. /\ UNCHANGED <<posts, slides, doomed, card>> /\ pc = "store" /\ pc' = "renamed"
        /\ files' = (files \ Captured) \cup {Cover(Pid)} \cup Slides(Pid, card.extra)
      BY <1>4 DEF Rename
  <2>2. \A id \in DOMAIN posts : posts[id].cover \subseteq files'
      BY <2>1, Unclaimed DEF DiskInv
  <2>3. Cover(Pid)' = Cover(Pid)
      BY <2>1 DEF Pid, Cover
  <2> QED
      BY <2>1, <2>2, <2>3 DEF DiskInv
<1> QED
    BY <1>1, <1>2, <1>3, <1>4 DEF CardStep

LEMMA MergeDisk ==
    ASSUME RowInv, OwnInv, DiskInv, Merge
    PROVE  DiskInv'
<1>1. PICK dup \in DuplicatesOfCard :
         LET row == Merged(posts[dup], NewRow)
             to  == IF card.url # None /\ posts[dup].url = None THEN card.url ELSE dup
         IN /\ dup \in DOMAIN posts /\ NewRow \in Row
            /\ MergedTo(posts', dup, to, row)
            /\ doomed' = Captured \ row.cover
    BY MergeFacts
<1> DEFINE row == Merged(posts[dup], NewRow)
           to  == IF card.url # None /\ posts[dup].url = None THEN card.url ELSE dup
<1>2. pc = "store" /\ pc' = "discard" /\ UNCHANGED <<slides, files>>
    BY DEF Merge
<1>3. NewRow.cover = IF card.media THEN {Cover(Key[card.form])} ELSE {}
    BY DEF NewRow
<1>4. row.cover = IF posts[dup].cover # {} THEN posts[dup].cover ELSE NewRow.cover
    BY <1>1, MergedFacts DEF RowInv, TypeOK
<1> HIDE DEF row, to
<1>5. /\ DOMAIN posts' = (DOMAIN posts \ {dup}) \cup {to} /\ posts'[to] = row
      /\ \A j \in DOMAIN posts \ {dup, to} : posts'[j] = posts[j]
    BY <1>1 DEF MergedTo, row, to
<1>6. row.cover \subseteq files
    BY <1>1, <1>2, <1>3, <1>4 DEF DiskInv
<1>7. \A j \in DOMAIN posts \ {dup} : row.cover \cap posts[j].cover = {}
  <2>1. CASE posts[dup].cover # {}
      BY <1>1, <1>4, <2>1 DEF DiskInv
  <2>2. CASE posts[dup].cover = {}
      BY <1>2, <1>3, <1>4, <2>2, Unclaimed
  <2> QED
      BY <2>1, <2>2
<1>8. \A j \in DOMAIN posts : posts[j].cover \cap doomed' = {}
    BY <1>1, <1>2, Unclaimed
<1>9. row.cover \cap doomed' = {}
    BY <1>1 DEF row
<1>10. \A j \in DOMAIN posts' : j = to \/ (j \in DOMAIN posts \ {dup, to} /\ posts'[j] = posts[j])
    BY <1>5
<1>11. \A j \in DOMAIN posts' :
           posts'[j].cover \subseteq files' /\ posts'[j].cover \cap doomed' = {}
    BY <1>2, <1>5, <1>6, <1>8, <1>9, <1>10 DEF DiskInv
<1>12. \A a, b \in DOMAIN posts' : a # b => posts'[a].cover \cap posts'[b].cover = {}
    BY <1>5, <1>7, <1>10 DEF DiskInv
<1> QED
    BY <1>2, <1>11, <1>12 DEF DiskInv

LEMMA InsertDisk ==
    ASSUME RowInv, OwnInv, DiskInv, Insert
    PROVE  DiskInv'
<1> DEFINE row == [NewRow EXCEPT !.cover = IF card.media THEN {Cover(Pid)} ELSE {}]
<1>1. /\ row.cover = (IF card.media THEN {Cover(Pid)} ELSE {})
      /\ InsertedAs(posts', Pid, row) /\ Pid \in Ids \ DOMAIN posts
      /\ (card.url # None => Pid = card.url) /\ (card.url = None => Pid = Key[card.form])
    BY InsertFacts
<1>2. /\ pc \in {"store", "renamed"} /\ pc' = "walk" /\ UNCHANGED <<files, doomed>> /\ doomed = {}
      /\ pc = "store" /\ card.media => Pid = Key[card.form]
      /\ \A s \in slides' : s \in slides \/ s[2] \in Slides(Pid, card.extra)
  <2>1. \A s \in slides' : s \in slides \/ s[2] \in Slides(Pid, card.extra)
      BY DEF Insert
  <2>2. pc \in {"store", "renamed"} /\ pc' = "walk" /\ UNCHANGED <<files, doomed>>
      BY DEF Insert
  <2> QED
      BY <2>1, <2>2 DEF Insert, DiskInv
<1> HIDE DEF row
<1>3. row.cover \subseteq files
    BY <1>1, <1>2 DEF DiskInv
<1>4. \A id \in DOMAIN posts : Cover(Pid) \notin posts[id].cover
  <2>1. CASE Pid = Key[card.form]
      BY <1>2, <2>1, Unclaimed
  <2>2. CASE Pid # Key[card.form]
    <3> SUFFICES ASSUME NEW id \in DOMAIN posts PROVE Cover(Pid) \notin posts[id].cover
        OBVIOUS
    <3>1. Pid \in Codes
        BY <1>1, <2>2 DEF RowInv, TypeOK
    <3>2. Pid \notin {posts[id].hash, posts[id].alt, id}
      <4>1. posts[id].hash \in Hashes /\ posts[id].alt \in Hashes \cup {None}
          BY DEF RowInv, TypeOK, Row
      <4> QED
          BY <1>1, <3>1, <4>1, FormsAssumption
    <3>3. posts[id].cover \subseteq {Cover(k) : k \in {posts[id].hash, posts[id].alt, id}}
        BY DEF OwnInv, OwnRow
    <3> QED
        BY <3>2, <3>3 DEF Cover
  <2> QED
      BY <2>1, <2>2
<1>5. /\ DOMAIN posts' = DOMAIN posts \cup {Pid} /\ posts'[Pid] = row
      /\ \A j \in DOMAIN posts : posts'[j] = posts[j]
    BY <1>1 DEF InsertedAs
<1>6. \A j \in DOMAIN posts' :
           posts'[j].cover \subseteq files' /\ posts'[j].cover \cap doomed' = {}
    BY <1>2, <1>3, <1>5 DEF DiskInv
<1>7. \A a, b \in DOMAIN posts' : a # b => posts'[a].cover \cap posts'[b].cover = {}
    BY <1>1, <1>4, <1>5 DEF DiskInv
<1>8. \A s \in slides' : s[2].n > 0
  <2>1. card.extra \in Nat
      BY LimitsAssumption DEF RowInv, CardInv, Card
  <2> QED
      BY <1>2, <2>1, SlidesApart DEF DiskInv
<1> QED
    BY <1>2, <1>6, <1>7, <1>8 DEF DiskInv

LEMMA DiskStep ==
    ASSUME PostsApart, TwoHashes, RowInv, OwnInv, DiskInv, [Next]_vars
    PROVE  DiskInv'
<1>0. TableOK
    BY RowParts
<1>1. CASE CardStep
    BY <1>1, CardDisk
<1>2. ASSUME NEW f \in Forms, NEW shows \in BOOLEAN, SeeStored(f, shows) PROVE DiskInv'
  <2>1. PICK id \in Stored(f, shows) :
            \/ posts' = posts
            \/ SeenAs(Key[f]) = {} /\ Noted(posts', id, Key[f])
      BY <1>2, SeeStoredFacts
  <2>2. DOMAIN posts' = DOMAIN posts /\ \A j \in DOMAIN posts : posts'[j].cover = posts[j].cover
      BY <2>1 DEF Noted
  <2>3. UNCHANGED <<slides, files, doomed>> /\ pc = "walk" /\ pc' \in {"walk", "backfill"}
      BY <1>2 DEF SeeStored
  <2> QED
      BY <2>2, <2>3, CoversKeep DEF DiskInv
<1>3. CASE LinkStored
  <2>1. PICK l \in Links(PostOf[card.form]) : Noted(posts', l.url, Key[card.form])
      BY <1>3, LinkStoredFacts
  <2>2. DOMAIN posts' = DOMAIN posts /\ \A j \in DOMAIN posts : posts'[j].cover = posts[j].cover
      BY <2>1 DEF Noted
  <2>3. UNCHANGED <<slides, files>> /\ pc = "link" /\ pc' = "discard" /\ doomed' = Captured
      BY <1>3 DEF LinkStored
  <2> QED
      BY <2>2, <2>3, Unclaimed, CoversKeep DEF DiskInv
<1>4. CASE Merge
    BY <1>4, MergeDisk
<1>5. CASE Insert
    BY <1>5, InsertDisk
<1>6. CASE Backfill
  <2>1. PICK code \in Codes \cup {None} :
           /\ card.shown \in DOMAIN posts /\ DOMAIN posts' = DOMAIN posts
           /\ \A j \in DOMAIN posts : j # card.shown => posts'[j] = posts[j]
           /\ posts'[card.shown] = [posts[card.shown] EXCEPT
                  !.tries = posts[card.shown].tries + 1, !.url = code]
      BY <1>6, BackfillFacts
  <2>2. \A j \in DOMAIN posts : posts'[j].cover = posts[j].cover
    <3>1. posts'[card.shown].cover = posts[card.shown].cover
        BY <1>0, <2>1 DEF TableOK, Row
    <3> QED
        BY <2>1, <3>1
  <2>3. UNCHANGED <<slides, files, doomed>> /\ pc = "backfill" /\ pc' = "walk"
      BY <1>6 DEF Backfill
  <2> QED
      BY <2>1, <2>2, <2>3, CoversKeep DEF DiskInv
<1>7. ASSUME NEW old \in SUBSET DOMAIN posts, Expire(old) PROVE DiskInv'
  <2>1. /\ DOMAIN posts' = DOMAIN posts \ old /\ \A j \in DOMAIN posts \ old : posts'[j] = posts[j]
        /\ slides' \subseteq slides /\ files' = files /\ doomed' = FilesOf(old) /\ pc' = "sweep"
      BY <1>7 DEF Expire, SlidesWithout
  <2>2. \A f \in doomed' : (\E j \in old : f \in posts[j].cover) \/ f.n > 0
      BY <2>1 DEF FilesOf, DiskInv
  <2>3. \A j \in DOMAIN posts \ old : \A f \in posts[j].cover : ~(f.n > 0)
      BY DEF OwnInv, OwnRow, Cover
  <2>4. \A j \in DOMAIN posts \ old : posts[j].cover \cap doomed' = {}
      BY <2>2, <2>3 DEF DiskInv
  <2> QED
      BY <2>1, <2>4 DEF DiskInv
<1>8. CASE StartRun
    BY <1>8, CoversKeep DEF StartRun, disk, DiskInv
<1>9. CASE Discard
  <2>1. UNCHANGED <<posts, slides>> /\ files' = files \ doomed /\ doomed' = {} /\ pc' = "walk"
      BY <1>9 DEF Discard
  <2> QED
      BY <2>1, CoversKeep DEF DiskInv
<1>10. CASE Sweep
  <2>1. /\ UNCHANGED <<posts, slides>> /\ doomed' = {} /\ pc' = "swept"
        /\ files' = {f \in files \ doomed : \/ \E id \in DOMAIN posts : f \in posts[id].cover
                                            \/ \E s \in slides : s[2] = f}
      BY <1>10 DEF Sweep
  <2>2. \A id \in DOMAIN posts : posts[id].cover \subseteq files'
      BY <2>1 DEF DiskInv
  <2> QED
      BY <2>1, <2>2, CoversKeep DEF DiskInv
<1>11. CASE Crash
    BY <1>11, CoversKeep DEF Crash, disk, DiskInv
<1>12. CASE UNCHANGED core
  <2>1. Cover(Pid)' = Cover(Pid)
      BY <1>12 DEF core, Cover, Pid
  <2> QED
      BY <1>12, <2>1 DEF core, disk, DiskInv
<1> QED
    BY <1>1, <1>2, <1>3, <1>4, <1>5, <1>6, <1>7, <1>8, <1>9, <1>10, <1>11, <1>12, Steps

\* No row loses its cover to a discard, a retry, a merge, a sweep or a crash, where no
\* post hashes three ways and none is taken for another (scrape.py, retention.py).
THEOREM CoversStay ==
    ASSUME PostsApart, TwoHashes
    PROVE  Spec => []CoverOnDisk
<1>1. Init => OwnInv /\ DiskInv
    BY DEF Init, OwnInv, DiskInv
<1>2. RowInv /\ OwnInv /\ DiskInv /\ [Next]_vars => OwnInv' /\ DiskInv'
    BY OwnStep, DiskStep
<1>3. DiskInv => CoverOnDisk
    BY DEF DiskInv, CoverOnDisk
<1> QED
    BY <1>1, <1>2, <1>3, RowAlways, PTL DEF Spec
=============================================================================
