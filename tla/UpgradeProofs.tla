---------------------------- MODULE UpgradeProofs ----------------------------
(***************************************************************************)
(* That the upgrade leaves a search index that matches the posts, keeps    *)
(* the rows' pictures and leaves every post recognisable: for all          *)
(* databases it may find, captions, crashes at any of its steps and writes *)
(* after it.                                                               *)
(***************************************************************************)
EXTENDS Upgrade, FiniteSetTheorems, TLAPS

\* What a database is: its tables are finite, its rows are posts.
Table(t) ==
    /\ DOMAIN t = {"ver", "posts", "media", "index", "captions", "triggers"}
    /\ t.ver \in Nat /\ IsFiniteSet(DOMAIN t.posts)
    /\ \A p \in DOMAIN t.posts : t.posts[p] \in Post

\* What an operator leaves of a database: all but its posts and its index.
SameElse(u, t) == Table(u) /\ u.ver = t.ver /\ u.media = t.media /\ u.triggers = t.triggers

\* The rows of D are in the index under numbers of their own, with their captions, and
\* nothing else is.
IndexOf(t, D) ==
    /\ DOMAIN t.index = D
    /\ \A i \in D : t.index[i] \in Nat
    /\ \A i, j \in D : t.index[i] = t.index[j] => i = j
    /\ DOMAIN t.captions = {t.index[i] : i \in D}
    /\ \A i \in D : t.captions[t.index[i]] = t.posts[i].text

InLine(t) == IndexOf(t, DOMAIN t.posts)

------------------------------------------------------------------------------
(* Numbers, records and tables.                                             *)

\* A finite set of numbers has a greatest.
LEMMA Greatest ==
    ASSUME NEW S \in SUBSET Nat, IsFiniteSet(S), S # {}
    PROVE  \E x \in S : \A y \in S : y <= x
<1> DEFINE Above(x) == {y \in S : x < y}
           T == {Above(x) : x \in S}
<1>1. \A x \in S : IsFiniteSet(Above(x))
    BY FS_Subset
<1>2. T \subseteq FiniteSubsetsOf(S) /\ T # {}
    BY <1>1 DEF FiniteSubsetsOf
<1>3. IsWellFoundedOn(StrictSubsetOrdering(S), FiniteSubsetsOf(S))
    BY FS_StrictSubsetOrderingWellFounded
<1>4. PICK A \in T : \A B \in T : ~(<<B, A>> \in StrictSubsetOrdering(S))
  <2> HIDE DEF T
  <2> QED
      BY <1>2, <1>3, WFMin
<1>5. PICK x \in S : A = Above(x)
    OBVIOUS
<1>6. ASSUME NEW y \in S, x < y PROVE FALSE
  <2>1. Above(y) \subseteq Above(x)
    <3>1. \A z \in S : z \in Int /\ x \in Int /\ y \in Int
        OBVIOUS
    <3>2. \A z \in S : y < z => x < z
        BY <1>6, <3>1
    <3> QED
        BY <3>2
  <2>2. y \in Above(x) /\ y \notin Above(y)
      BY <1>6
  <2>3. <<Above(y), Above(x)>> \in StrictSubsetOrdering(S)
      BY <2>1, <2>2 DEF StrictSubsetOrdering
  <2> QED
      BY <1>4, <1>5, <2>3
<1> QED
    BY <1>6

\* The number after the highest in use is free.
LEMMA NextIsFree ==
    ASSUME NEW S \in SUBSET Nat, IsFiniteSet(S)
    PROVE  1 + Highest(S) \in Nat \ S
<1>1. CASE S = {}
    BY <1>1 DEF Highest
<1>2. CASE S # {}
  <2>1. \E x \in S : \A y \in S : y <= x
      BY <1>2, Greatest
  <2>2. Highest(S) \in S /\ \A y \in S : y <= Highest(S)
      BY <1>2, <2>1 DEF Highest
  <2>3. PICK h \in S : h = Highest(S)
      BY <2>2
  <2>4. h \in Nat /\ \A y \in S : y \in Nat /\ y <= h
      BY <2>2, <2>3
  <2>5. 1 + h \in Nat \ S
      BY <2>4
  <2> QED
      BY <2>3, <2>5
<1> QED
    BY <1>1, <1>2

LEMMA AddFields ==
    ASSUME NEW t, DOMAIN t = {"ver", "posts", "media", "index", "captions", "triggers"}, NEW id
    PROVE  LET u == FtsAdd(t, id)
               n == 1 + Highest({t.index[i] : i \in DOMAIN t.index}) IN
           /\ DOMAIN u = DOMAIN t /\ u.posts = t.posts
           /\ u.ver = t.ver /\ u.media = t.media /\ u.triggers = t.triggers
           /\ u.index = With(t.index, id, n) /\ u.captions = With(t.captions, n, t.posts[id].text)
BY DEF FtsAdd

\* _fts_drop takes a row's entry out, once the row is replaced or gone.
LEMMA DropIndex ==
    ASSUME NEW t, NEW v, NEW D, NEW id, IndexOf(t, D),
           DOMAIN v = {"ver", "posts", "media", "index", "captions", "triggers"},
           v.index = t.index, v.captions = t.captions,
           \A i \in D \ {id} : v.posts[i] = t.posts[i]
    PROVE  IndexOf(FtsDrop(v, id), D \ {id})
<1> DEFINE u == FtsDrop(v, id)
<1>1. /\ u.posts = v.posts /\ u.index = Without(t.index, {id})
      /\ id \in D => u.captions = Without(t.captions, {t.index[id]})
      /\ id \notin D => u.captions = t.captions
    BY DEF FtsDrop, IndexOf
<1> HIDE DEF u
<1>2. DOMAIN u.index = D \ {id} /\ \A i \in D \ {id} : u.index[i] = t.index[i]
    BY <1>1 DEF IndexOf, Without
<1>3. \A i \in D \ {id} : u.posts[i] = t.posts[i]
    BY <1>1
<1>4. /\ DOMAIN u.captions = {u.index[i] : i \in D \ {id}}
      /\ \A n \in DOMAIN u.captions : u.captions[n] = t.captions[n]
  <2>1. CASE id \in D
    <3>1. \A i \in D \ {id} : t.index[i] # t.index[id]
        BY <2>1 DEF IndexOf
    <3>2. DOMAIN u.captions = {t.index[i] : i \in D} \ {t.index[id]}
          /\ \A n \in DOMAIN u.captions : u.captions[n] = t.captions[n]
        BY <1>1, <2>1 DEF IndexOf, Without
    <3> QED
        BY <1>2, <3>1, <3>2
  <2>2. CASE id \notin D
    <3>1. {u.index[i] : i \in D \ {id}} = {t.index[i] : i \in D}
        BY <1>2, <2>2
    <3> QED
        BY <1>1, <2>2, <3>1 DEF IndexOf
  <2> QED
      BY <2>1, <2>2
<1>5. \A i \in D \ {id} : t.captions[t.index[i]] = t.posts[i].text /\ t.index[i] \in Nat
    BY DEF IndexOf
<1>6. \A i \in D \ {id} : u.captions[u.index[i]] = u.posts[i].text
    BY <1>2, <1>3, <1>4, <1>5
<1>7. \A i, j \in D \ {id} : u.index[i] = u.index[j] => i = j
    BY <1>2 DEF IndexOf
<1> QED
    BY <1>2, <1>4, <1>5, <1>6, <1>7 DEF u, IndexOf

\* _FTS_ADD puts it in.
LEMMA AddIndex ==
    ASSUME NEW t, DOMAIN t = {"ver", "posts", "media", "index", "captions", "triggers"},
           NEW D, IsFiniteSet(D), NEW id, id \notin D, IndexOf(t, D)
    PROVE  IndexOf(FtsAdd(t, id), D \cup {id})
<1> DEFINE u == FtsAdd(t, id)
           S == {t.index[i] : i \in DOMAIN t.index}
           n == 1 + Highest(S)
<1>1. u.posts = t.posts /\ u.index = With(t.index, id, n)
      /\ u.captions = With(t.captions, n, t.posts[id].text)
    BY AddFields
<1>2. S = {t.index[i] : i \in D} /\ S \in SUBSET Nat /\ DOMAIN t.captions = S
    BY DEF IndexOf
<1>3. IsFiniteSet(S)
  <2> DEFINE numbers == [i \in D |-> t.index[i]]
  <2>1. numbers \in Surjection(D, S)
      BY <1>2 DEF Surjection
  <2> QED
      BY <2>1, FS_Surjection DEF ExistsSurjection
<1>4. n \in Nat \ S
    BY <1>2, <1>3, NextIsFree
<1> HIDE DEF u, n
<1>5. DOMAIN u.index = D \cup {id} /\ u.index[id] = n /\ \A i \in D : u.index[i] = t.index[i]
    BY <1>1 DEF IndexOf, With
<1>6. \A i \in D : t.index[i] \in S /\ t.index[i] # n
    BY <1>2, <1>4
<1>7. /\ DOMAIN u.captions = S \cup {n} /\ u.captions[n] = t.posts[id].text
      /\ \A m \in S : u.captions[m] = t.captions[m]
    BY <1>1, <1>2, <1>4 DEF With
<1>8. DOMAIN u.captions = {u.index[i] : i \in D \cup {id}}
  <2>1. \A i \in D : u.index[i] \in S
      BY <1>5, <1>6
  <2>2. \A m \in S : \E i \in D : u.index[i] = m
      BY <1>2, <1>5
  <2> HIDE DEF S
  <2> QED
      BY <1>5, <1>7, <2>1, <2>2
<1>9. \A i, j \in D \cup {id} : u.index[i] = u.index[j] => i = j
    BY <1>5, <1>6 DEF IndexOf
<1>10. \A i \in D \cup {id} : u.captions[u.index[i]] = u.posts[i].text /\ u.index[i] \in Nat
    BY <1>1, <1>4, <1>5, <1>6, <1>7 DEF IndexOf
<1> QED
    BY <1>5, <1>8, <1>9, <1>10 DEF u, IndexOf

\* DELETE FROM posts.
LEMMA DeleteKeeps ==
    ASSUME NEW t, Table(t), NEW id
    PROVE  /\ SameElse(DeletePost(t, id), t)
           /\ DeletePost(t, id).posts = Without(t.posts, {id})
           /\ t.triggers /\ InLine(t) => InLine(DeletePost(t, id))
<1> DEFINE v == [t EXCEPT !.posts = Without(@, {id})]
           u == DeletePost(t, id)
<1>1. /\ DOMAIN v = {"ver", "posts", "media", "index", "captions", "triggers"}
      /\ v.posts = Without(t.posts, {id}) /\ v.index = t.index /\ v.captions = t.captions
      /\ v.ver = t.ver /\ v.media = t.media /\ v.triggers = t.triggers
    BY DEF Table
<1>2. u = IF t.triggers THEN FtsDrop(v, id) ELSE v
    BY <1>1 DEF DeletePost
<1> HIDE DEF v, u
<1>3. /\ DOMAIN u = {"ver", "posts", "media", "index", "captions", "triggers"}
      /\ u.posts = Without(t.posts, {id})
      /\ u.ver = t.ver /\ u.media = t.media /\ u.triggers = t.triggers
    BY <1>1, <1>2 DEF FtsDrop
<1>4. DOMAIN u.posts = DOMAIN t.posts \ {id} /\ \A p \in DOMAIN u.posts : u.posts[p] = t.posts[p]
    BY <1>3 DEF Without
<1>5. SameElse(u, t)
  <2>1. IsFiniteSet(DOMAIN u.posts)
      BY <1>4, FS_RemoveElement DEF Table
  <2>2. \A p \in DOMAIN u.posts : u.posts[p] \in Post
      BY <1>4 DEF Table
  <2> QED
      BY <1>3, <2>1, <2>2 DEF Table, SameElse
<1>6. ASSUME t.triggers, InLine(t) PROVE InLine(u)
  <2>1. \A i \in DOMAIN t.posts \ {id} : v.posts[i] = t.posts[i]
      BY <1>1 DEF Without
  <2>2. IndexOf(FtsDrop(v, id), DOMAIN t.posts \ {id})
      BY <1>1, <1>6, <2>1, DropIndex DEF InLine
  <2> QED
      BY <1>2, <1>4, <1>6, <2>2 DEF InLine
<1> QED
    BY <1>3, <1>5, <1>6 DEF u

\* INSERT [OR REPLACE] INTO posts.
LEMMA PutKeeps ==
    ASSUME NEW t, Table(t), NEW id, NEW post \in Post
    PROVE  /\ SameElse(PutPost(t, id, post), t)
           /\ PutPost(t, id, post).posts = With(t.posts, id, post)
           /\ t.triggers /\ InLine(t) => InLine(PutPost(t, id, post))
<1> DEFINE v == [t EXCEPT !.posts = With(@, id, post)]
           w == FtsDrop(v, id)
           u == PutPost(t, id, post)
<1>1. /\ DOMAIN v = {"ver", "posts", "media", "index", "captions", "triggers"}
      /\ v.posts = With(t.posts, id, post) /\ v.index = t.index /\ v.captions = t.captions
      /\ v.ver = t.ver /\ v.media = t.media /\ v.triggers = t.triggers
    BY DEF Table
<1>2. u = IF t.triggers THEN FtsAdd(w, id) ELSE v
    BY <1>1 DEF PutPost
<1> HIDE DEF v
<1>3. /\ DOMAIN w = DOMAIN v /\ w.posts = v.posts
      /\ w.ver = t.ver /\ w.media = t.media /\ w.triggers = t.triggers
    BY <1>1 DEF FtsDrop
<1> HIDE DEF w, u
<1>4. /\ DOMAIN u = {"ver", "posts", "media", "index", "captions", "triggers"}
      /\ u.posts = With(t.posts, id, post)
      /\ u.ver = t.ver /\ u.media = t.media /\ u.triggers = t.triggers
  <2>1. CASE t.triggers
      BY <1>1, <1>2, <1>3, <2>1 DEF FtsAdd
  <2>2. CASE ~t.triggers
      BY <1>1, <1>2, <2>2
  <2> QED
      BY <2>1, <2>2
<1>5. /\ DOMAIN u.posts = DOMAIN t.posts \cup {id} /\ u.posts[id] = post
      /\ \A p \in DOMAIN t.posts \ {id} : u.posts[p] = t.posts[p]
    BY <1>4 DEF With
<1>6. SameElse(u, t)
  <2>1. IsFiniteSet(DOMAIN u.posts)
      BY <1>5, FS_AddElement DEF Table
  <2>2. \A p \in DOMAIN u.posts : u.posts[p] \in Post
      BY <1>5 DEF Table
  <2> QED
      BY <1>4, <2>1, <2>2 DEF Table, SameElse
<1>7. ASSUME t.triggers, InLine(t) PROVE InLine(u)
  <2>1. \A i \in DOMAIN t.posts \ {id} : v.posts[i] = t.posts[i]
      BY <1>1 DEF With
  <2>2. IndexOf(w, DOMAIN t.posts \ {id})
      BY <1>1, <1>7, <2>1, DropIndex DEF InLine, w
  <2>3. IsFiniteSet(DOMAIN t.posts \ {id})
      BY FS_RemoveElement DEF Table
  <2>4. IndexOf(FtsAdd(w, id), (DOMAIN t.posts \ {id}) \cup {id})
      BY <1>1, <1>3, <2>2, <2>3, AddIndex
  <2>5. (DOMAIN t.posts \ {id}) \cup {id} = DOMAIN u.posts
      BY <1>5
  <2> QED
      BY <1>2, <1>7, <2>4, <2>5 DEF InLine
<1> QED
    BY <1>4, <1>6, <1>7 DEF u

\* Rows are replaced by one: those of `gone` by `post`, under `id`.
Replaced(u, t, gone, id, post) ==
    /\ DOMAIN u.posts = (DOMAIN t.posts \ gone) \cup {id} /\ u.posts[id] = post
    /\ \A p \in DOMAIN t.posts \ (gone \cup {id}) : u.posts[p] = t.posts[p]

LEMMA WriteKeeps ==
    ASSUME NEW t, Table(t), NEW oldId, NEW newId, NEW post \in Post
    PROVE  /\ SameElse(WriteMerged(t, oldId, newId, post), t)
           /\ Replaced(WriteMerged(t, oldId, newId, post), t, {oldId}, newId, post)
           /\ t.triggers /\ InLine(t) => InLine(WriteMerged(t, oldId, newId, post))
<1>1. CASE newId # oldId
  <2> DEFINE v == DeletePost(t, oldId)
             u == PutPost(v, newId, post)
  <2>1. /\ SameElse(v, t) /\ v.posts = Without(t.posts, {oldId})
        /\ t.triggers /\ InLine(t) => InLine(v)
      BY DeleteKeeps
  <2>2. Table(v) /\ v.ver = t.ver /\ v.media = t.media /\ v.triggers = t.triggers
      BY <2>1 DEF SameElse
  <2> HIDE DEF v
  <2>3. /\ SameElse(u, v) /\ u.posts = With(v.posts, newId, post)
        /\ v.triggers /\ InLine(v) => InLine(u)
      BY <2>2, PutKeeps
  <2>4. u = WriteMerged(t, oldId, newId, post)
      BY <1>1 DEF WriteMerged, v
  <2> HIDE DEF u
  <2>5. SameElse(u, t)
      BY <2>2, <2>3 DEF SameElse
  <2>6. Replaced(u, t, {oldId}, newId, post)
      BY <2>1, <2>3 DEF Replaced, With, Without
  <2> QED
      BY <2>1, <2>2, <2>3, <2>4, <2>5, <2>6
<1>2. CASE newId = oldId
  <2> DEFINE u == PutPost(t, newId, post)
  <2>1. u = WriteMerged(t, oldId, newId, post)
      BY <1>2 DEF WriteMerged
  <2>2. /\ SameElse(u, t) /\ u.posts = With(t.posts, newId, post)
        /\ t.triggers /\ InLine(t) => InLine(u)
      BY PutKeeps
  <2> HIDE DEF u
  <2>3. Replaced(u, t, {oldId}, newId, post)
      BY <1>2, <2>2 DEF Replaced, With
  <2> QED
      BY <2>1, <2>2, <2>3
<1> QED
    BY <1>1, <1>2

\* A merge's row is a post.
LEMMA MergedIsPost ==
    ASSUME NEW old \in Post, NEW new \in Post
    PROVE  Merged(old, new) \in Post
BY DEF Merged, Or, Post

LEMMA NewIsPost ==
    ASSUME NEW text \in Texts
    PROVE  NewPost(text) \in Post
BY DEF NewPost, Post, KeyOf, Hashes, Forms

\* The fill puts every row in, with its caption.
LEMMA FillKeeps ==
    ASSUME NEW t, Table(t), NEW u \in Filled(t)
    PROVE  SameElse(u, t) /\ u.posts = t.posts /\ InLine(u)
<1> DEFINE N == 1 .. Cardinality(DOMAIN t.posts)
<1>1. Cardinality(DOMAIN t.posts) \in Nat
    BY FS_CardinalityType DEF Table
<1>2. PICK order \in Bijection(DOMAIN t.posts, N) :
          u = [t EXCEPT !.index = order,
                        !.captions = [n \in {order[i] : i \in DOMAIN order} |->
                                t.posts[CHOOSE i \in DOMAIN order : order[i] = n].text]]
    BY DEF Filled
<1>3. /\ DOMAIN order = DOMAIN t.posts /\ \A i \in DOMAIN order : order[i] \in Nat
      /\ \A i, j \in DOMAIN order : order[i] = order[j] => i = j
    BY <1>1, <1>2 DEF Bijection, Injection, IsInjective
<1>4. /\ DOMAIN u = {"ver", "posts", "media", "index", "captions", "triggers"}
      /\ u.posts = t.posts /\ u.ver = t.ver /\ u.media = t.media /\ u.triggers = t.triggers
      /\ u.index = order /\ DOMAIN u.captions = {order[i] : i \in DOMAIN order}
    BY <1>2 DEF Table
<1>5. ASSUME NEW i \in DOMAIN order PROVE u.captions[order[i]] = t.posts[i].text
  <2> DEFINE At(n) == CHOOSE j \in DOMAIN order : order[j] = n
             numbers == {order[j] : j \in DOMAIN order}
  <2>1. At(order[i]) = i
      BY <1>3
  <2>2. u.captions = [n \in numbers |-> t.posts[At(n)].text]
      BY <1>2 DEF Table
  <2>3. order[i] \in numbers
      OBVIOUS
  <2> HIDE DEF At, numbers
  <2> QED
      BY <2>1, <2>2, <2>3
<1> QED
    BY <1>3, <1>4, <1>5 DEF Table, SameElse, InLine, IndexOf

\* Only the version moves.
LEMMA VersionMoves ==
    ASSUME NEW t, Table(t)
    PROVE  LET u == [t EXCEPT !.ver = @ + 1] IN
           /\ Table(u) /\ u.ver = t.ver + 1 /\ u.posts = t.posts /\ u.media = t.media
           /\ u.triggers = t.triggers /\ u.index = t.index /\ u.captions = t.captions
BY DEF Table

\* Only the media table changes.
LEMMA MediaMoves ==
    ASSUME NEW t, Table(t), NEW media
    PROVE  LET u == [t EXCEPT !.media = media] IN
           /\ Table(u) /\ u.ver = t.ver /\ u.posts = t.posts /\ u.media = media
           /\ u.triggers = t.triggers /\ u.index = t.index /\ u.captions = t.captions
BY DEF Table

------------------------------------------------------------------------------
(* What the migrations that merge do.                                       *)

\* A merge of the first migration.
DedupeMerges(id, d) ==
    LET old == tx.posts[d]
        new == tx.posts[id]
    IN /\ files' = files \ DroppedCover(old, new) /\ SameElse(tx', tx)
       /\ \E to \in {id, d} : Replaced(tx', tx, {id, d}, to, Merged(old, new))

LEMMA DedupeMoves ==
    ASSUME Table(tx), NEW id \in Ids, Dedupe(id)
    PROVE  \/ UNCHANGED <<tx, files>>
           \/ id \in DOMAIN tx.posts /\ \E d \in DOMAIN tx.posts \ {id} : DedupeMerges(id, d)
<1> DEFINE dups == IF id \in DOMAIN tx.posts THEN Duplicates(tx, id, tx.posts[id].raw) ELSE {}
<1>1. CASE dups = {}
    BY <1>1 DEF Dedupe
<1>2. CASE dups # {}
  <2>1. id \in DOMAIN tx.posts /\ dups \subseteq DOMAIN tx.posts \ {id}
      BY <1>2 DEF Duplicates, SameCaption
  <2>2. PICK d \in dups :
            LET old == tx.posts[d]
                new == tx.posts[id]
                to  == MergedId(d, id, old, new)
            IN /\ files' = files \ DroppedCover(old, new)
               /\ tx' = WriteMerged(IF to # id THEN DeletePost(tx, id) ELSE tx,
                                    d, to, Merged(old, new))
      BY <1>2 DEF Dedupe
  <2> HIDE DEF dups
  <2> DEFINE old == tx.posts[d]
             new == tx.posts[id]
             to == MergedId(d, id, old, new)
             v == IF to # id THEN DeletePost(tx, id) ELSE tx
  <2>3. to \in {id, d} /\ d \in DOMAIN tx.posts \ {id} /\ Merged(old, new) \in Post
      BY <2>1, MergedIsPost DEF MergedId, Table
  <2>4. SameElse(v, tx) /\ v.posts = IF to # id THEN Without(tx.posts, {id}) ELSE tx.posts
      BY DeleteKeeps DEF SameElse
  <2>5. files' = files \ DroppedCover(old, new) /\ tx' = WriteMerged(v, d, to, Merged(old, new))
      BY <2>2
  <2> HIDE DEF v, to, old, new
  <2>6. Table(v)
      BY <2>4 DEF SameElse
  <2>7. SameElse(tx', v) /\ Replaced(tx', v, {d}, to, Merged(old, new))
      BY <2>3, <2>5, <2>6, WriteKeeps
  <2>8. SameElse(tx', tx)
      BY <2>4, <2>7 DEF SameElse
  <2>9. Replaced(tx', tx, {id, d}, to, Merged(old, new))
    <3>1. CASE to # id
      <4>1. v.posts = Without(tx.posts, {id})
          BY <2>4, <3>1
      <4> QED
          BY <2>7, <4>1 DEF Replaced, Without
    <3>2. CASE to = id
        BY <2>4, <2>7, <3>2 DEF Replaced
    <3> QED
        BY <3>1, <3>2
  <2> QED
      BY <2>1, <2>3, <2>5, <2>8, <2>9 DEF DedupeMerges, old, new
<1> QED
    BY <1>1, <1>2

\* A merge of the seventh.
TwinMerges(id, d) ==
    LET old == tx.posts[d]
        new == tx.posts[id]
        row == Merged(old, new)
        adopted == new.cover # None /\ row.cover = new.cover
    IN /\ db' = tx' /\ Table(tx') /\ tx'.ver = tx.ver /\ Replaced(tx', tx, {id}, d, row)
       /\ tx'.media = MovedMedia(tx.media, id, d, adopted)
       /\ doomed' = DroppedCover(old, new) \cup SlidesDropped(tx.media, id, d, adopted)

LEMMA TwinMoves ==
    ASSUME Table(tx), NEW id \in Ids, MergeTwin(id)
    PROVE  \/ UNCHANGED <<db, tx, doomed>> /\ (id \in DOMAIN tx.posts => SameCaption(tx, id) = {})
           \/ id \in DOMAIN tx.posts /\ \E d \in SameCaption(tx, id) : TwinMerges(id, d)
<1> DEFINE dups == IF id \in DOMAIN tx.posts THEN SameCaption(tx, id) ELSE {}
<1>1. CASE dups = {}
    BY <1>1 DEF MergeTwin
<1>2. CASE dups # {}
  <2>1. id \in DOMAIN tx.posts /\ dups = SameCaption(tx, id)
      BY <1>2
  <2>2. dups \subseteq DOMAIN tx.posts \ {id}
      BY <2>1 DEF SameCaption
  <2>3. PICK d \in dups :
            LET old == tx.posts[d]
                new == tx.posts[id]
                row == Merged(old, new)
                adopted == new.cover # None /\ row.cover = new.cover
            IN /\ tx' = WriteMerged(
                    DeletePost([tx EXCEPT !.media = MovedMedia(@, id, d, adopted)], id), d, d, row)
               /\ db' = tx'
               /\ doomed' = DroppedCover(old, new) \cup SlidesDropped(tx.media, id, d, adopted)
      BY <1>2 DEF MergeTwin
  <2> HIDE DEF dups
  <2> DEFINE old == tx.posts[d]
             new == tx.posts[id]
             row == Merged(old, new)
             adopted == new.cover # None /\ row.cover = new.cover
             moved == MovedMedia(tx.media, id, d, adopted)
             v == [tx EXCEPT !.media = moved]
             w == DeletePost(v, id)
  <2>4. d \in DOMAIN tx.posts \ {id} /\ row \in Post
      BY <2>1, <2>2, MergedIsPost DEF Table
  <2>5. /\ tx' = WriteMerged(w, d, d, row) /\ db' = tx'
        /\ doomed' = DroppedCover(old, new) \cup SlidesDropped(tx.media, id, d, adopted)
      BY <2>3
  <2> HIDE DEF old, new, row, adopted, moved
  <2>6. Table(v) /\ v.ver = tx.ver /\ v.posts = tx.posts /\ v.media = moved
      BY MediaMoves
  <2> HIDE DEF v
  <2>7. SameElse(w, v) /\ w.posts = Without(tx.posts, {id})
      BY <2>6, DeleteKeeps
  <2>8. Table(w) /\ w.ver = tx.ver /\ w.media = moved
      BY <2>6, <2>7 DEF SameElse
  <2> HIDE DEF w
  <2>9. SameElse(tx', w) /\ Replaced(tx', w, {d}, d, row)
      BY <2>4, <2>5, <2>8, WriteKeeps
  <2>10. Table(tx') /\ tx'.ver = tx.ver /\ tx'.media = moved
      BY <2>8, <2>9 DEF SameElse
  <2>11. Replaced(tx', tx, {id}, d, row)
      BY <2>4, <2>7, <2>9 DEF Replaced, Without
  <2> QED
      BY <2>1, <2>5, <2>10, <2>11 DEF TwinMerges, old, new, row, adopted, moved
<1> QED
    BY <1>1, <1>2

------------------------------------------------------------------------------
(* The stages of the upgrade, and the index once it is there.               *)

\* Only the first migration has a transaction that is open over several steps; each
\* step belongs to a version, wherever the process died before it.
StageInv ==
    /\ pc \in {"down", "migrating", "dedupe", "bump", "twins", "fill", "ready"}
    /\ pc # "dedupe" => db = tx
    /\ pc = "dedupe" => tx.ver = 0 /\ db.ver = 0
    /\ pc = "bump" => tx.ver \in {4, 5}
    /\ pc = "twins" => tx.ver = 6
    /\ pc = "fill" => tx.ver = 7 /\ tx.triggers
    /\ pc = "ready" => tx.ver >= 9
    /\ Table(db) /\ Table(tx)
    /\ db.ver >= 8 => db.triggers /\ InLine(db)

LEMMA StageInit == Init => StageInv
<1> SUFFICES ASSUME Init PROVE StageInv
    OBVIOUS
<1>1. PICK old \in Old :
          db = [ver |-> old.ver, posts |-> old.posts, media |-> old.media,
                index |-> [i \in {} |-> None], captions |-> [i \in {} |-> None],
                triggers |-> FALSE]
    BY DEF Init
<1>2. /\ DOMAIN db = {"ver", "posts", "media", "index", "captions", "triggers"}
      /\ db.ver = old.ver /\ db.posts = old.posts
    BY <1>1
<1>3. /\ old.ver \in 0 .. 7 /\ IsFiniteSet(DOMAIN old.posts)
      /\ \A p \in DOMAIN old.posts : old.posts[p] \in Post
    BY UpgradeAssumption
<1>4. Table(db) /\ ~(db.ver >= 8)
    BY <1>2, <1>3 DEF Table
<1> QED
    BY <1>4 DEF Init, StageInv

\* A commit of the database with another version, its index being in line by then.
LEMMA BumpKeeps ==
    ASSUME StageInv, NEW t, Table(t), Bumped(t), t.ver >= 7 => t.triggers /\ InLine(t),
           pc' \in {"migrating", "ready"}, pc' = "ready" => t.ver + 1 >= 9
    PROVE  StageInv' /\ tx'.ver = t.ver + 1 /\ tx'.posts = t.posts /\ tx'.media = t.media
<1>1. tx' = [t EXCEPT !.ver = @ + 1] /\ db' = tx'
    BY DEF Bumped
<1>2. /\ Table(tx') /\ tx'.ver = t.ver + 1 /\ tx'.posts = t.posts /\ tx'.media = t.media
      /\ tx'.triggers = t.triggers /\ tx'.index = t.index /\ tx'.captions = t.captions
    BY <1>1, VersionMoves
<1>3. tx'.ver >= 8 => tx'.triggers /\ InLine(tx')
    BY <1>2 DEF InLine, IndexOf, Table
<1> QED
    BY <1>1, <1>2, <1>3 DEF StageInv

\* A write once the database is up to date.
LEMMA WroteKeeps ==
    ASSUME StageInv, NEW t, Table(t), Wrote(t), t.ver = tx.ver, t.triggers, InLine(t)
    PROVE  StageInv'
BY DEF StageInv, Wrote

LEMMA StageStep == StageInv /\ [Next]_vars => StageInv'
<1> SUFFICES ASSUME StageInv, [Next]_vars PROVE StageInv'
    OBVIOUS
<1>0. Table(db) /\ Table(tx) /\ tx.ver \in Nat /\ db.ver \in Nat /\ Last \in Nat /\ Last >= 9
    BY UpgradeAssumption DEF StageInv, Table
<1>1. CASE UNCHANGED <<db, tx, pc>>
    BY <1>1 DEF StageInv
<1>2. CASE Start
    BY <1>0, <1>2 DEF Start, StageInv
\* Changes to the rows, version by version: the index is not there yet.
<1>4. CASE BackfillDates
  <2>1. tx.ver = 0 /\ db' = tx' /\ pc' = "dedupe"
      BY <1>0, <1>4 DEF BackfillDates, Running
  <2>2. Table(tx') /\ tx'.ver = tx.ver
    <3> DEFINE row(p) == [tx.posts[p] EXCEPT !.slot = Or(tx.posts[p].slot, tx.posts[p].raw)]
    <3>1. tx' = [tx EXCEPT !.posts = [p \in DOMAIN tx.posts |-> row(p)]]
        BY <1>4 DEF BackfillDates
    <3>2. \A p \in DOMAIN tx.posts : row(p) \in Post
        BY <1>0 DEF Table, Post, Or
    <3> HIDE DEF row
    <3> QED
        BY <1>0, <3>1, <3>2 DEF Table
  <2> QED
      BY <2>1, <2>2 DEF StageInv
<1>5. ASSUME NEW id \in Ids, Dedupe(id) PROVE StageInv'
  <2>1. Table(tx') /\ tx'.ver = tx.ver /\ UNCHANGED <<db, pc>> /\ pc = "dedupe"
      BY <1>0, <1>5, DedupeMoves DEF Dedupe, DedupeMerges, SameElse
  <2> QED
      BY <2>1 DEF StageInv
<1>6. CASE DedupeDone
    BY <1>0, <1>6, BumpKeeps DEF DedupeDone, StageInv
<1>7. CASE Elsewhere
  <2>1. db = tx /\ tx.ver \in {1, 2, 3, 8} /\ Bumped(tx)
      BY <1>0, <1>7 DEF Elsewhere, Running, StageInv
  <2>2. tx.ver >= 7 => tx.triggers /\ InLine(tx)
      BY <2>1 DEF StageInv
  <2>3. tx'.ver = tx.ver + 1
      BY <1>0, <2>1, VersionMoves DEF Bumped
  <2>4. pc' \in {"migrating", "ready"} /\ (pc' = "ready" => tx.ver + 1 >= 9)
      BY <1>0, <1>7, <2>1, <2>3 DEF Elsewhere, Running
  <2> QED
      BY <1>0, <2>1, <2>2, <2>4, BumpKeeps
<1>8. CASE Rehash
  <2>1. tx.ver = 4 /\ db' = tx' /\ pc' = "bump"
      BY <1>0, <1>8 DEF Rehash, Running
  <2>2. Table(tx') /\ tx'.ver = tx.ver
    <3>1. tx' = [tx EXCEPT !.posts =
                   [p \in DOMAIN @ |-> [@[p] EXCEPT !.hash = KeyOf(tx.posts[p].text)]]]
        BY <1>8 DEF Rehash
    <3>2. \A p \in DOMAIN tx.posts : [tx.posts[p] EXCEPT !.hash = KeyOf(tx.posts[p].text)] \in Post
        BY <1>0 DEF Table, Post, KeyOf, Hashes, Forms
    <3> QED
        BY <1>0, <3>1, <3>2 DEF Table
  <2> QED
      BY <2>1, <2>2 DEF StageInv
<1>9. CASE AltHash
  <2>1. tx.ver = 5 /\ db' = tx' /\ pc' = "bump"
      BY <1>0, <1>9 DEF AltHash, Running
  <2>2. Table(tx') /\ tx'.ver = tx.ver
    <3>1. tx' = [tx EXCEPT !.posts =
                   [p \in DOMAIN @ |->
                       IF Collapsed(@[p]) THEN [@[p] EXCEPT !.alt = KeyOf(tx.posts[p].text)]
                       ELSE @[p]]]
        BY <1>9 DEF AltHash
    <3>2. \A p \in DOMAIN tx.posts : [tx.posts[p] EXCEPT !.alt = KeyOf(tx.posts[p].text)] \in Post
        BY <1>0 DEF Table, Post, KeyOf, Hashes, Forms
    <3> QED
        BY <1>0, <3>1, <3>2 DEF Table
  <2> QED
      BY <2>1, <2>2 DEF StageInv
<1>10. CASE Bump
    BY <1>0, <1>10, BumpKeeps DEF Bump, StageInv
<1>11. CASE FindTwins
    BY <1>0, <1>11 DEF FindTwins, Running, StageInv
<1>12. ASSUME NEW id \in Ids, MergeTwin(id) PROVE StageInv'
  <2>1. UNCHANGED pc /\ pc = "twins" /\ db = tx
      BY <1>12 DEF MergeTwin, StageInv
  <2>2. db' = tx' /\ Table(tx') /\ tx'.ver = tx.ver
      BY <1>0, <1>12, <2>1, TwinMoves DEF TwinMerges
  <2> QED
      BY <2>1, <2>2 DEF StageInv
<1>13. CASE DiscardMedia
    BY <1>1, <1>13 DEF DiscardMedia
<1>14. CASE TwinsDone
    BY <1>0, <1>14, BumpKeeps DEF TwinsDone, StageInv
<1>15. CASE CreateIndex
  <2>1. tx.ver = 7 /\ tx' = [tx EXCEPT !.triggers = TRUE] /\ db' = tx' /\ pc' = "fill"
      BY <1>0, <1>15 DEF CreateIndex, Running
  <2>2. Table(tx') /\ tx'.ver = 7 /\ tx'.triggers
      BY <1>0, <2>1 DEF Table
  <2> QED
      BY <2>1, <2>2 DEF StageInv
<1>16. CASE FillIndex
  <2>1. tx.ver = 7 /\ tx.triggers /\ pc' = "migrating"
      BY <1>16 DEF FillIndex, StageInv
  <2>2. PICK t \in Filled(tx) : Bumped(t)
      BY <1>16 DEF FillIndex
  <2>3. SameElse(t, tx) /\ InLine(t)
      BY <1>0, FillKeeps
  <2> QED
      BY <2>1, <2>2, <2>3, BumpKeeps DEF SameElse
\* Writes keep the index in line.
<1>17. ASSUME pc = "ready" PROVE tx.triggers /\ InLine(tx) /\ db = tx /\ tx.ver >= 9
    BY <1>0, <1>17 DEF StageInv
<1>18. ASSUME NEW id \in Ids, NEW text \in Texts, Insert(id, text) PROVE StageInv'
  <2>1. Wrote(PutPost(tx, id, NewPost(text))) /\ pc = "ready"
      BY <1>18 DEF Insert, Wrote
  <2>2. SameElse(PutPost(tx, id, NewPost(text)), tx) /\ InLine(PutPost(tx, id, NewPost(text)))
      BY <1>0, <1>17, <2>1, PutKeeps, NewIsPost
  <2> QED
      BY <1>17, <2>1, <2>2, WroteKeeps DEF SameElse
<1>19. ASSUME NEW id \in Ids, NEW to \in Ids, NEW text \in Texts, Merge(id, to, text) PROVE StageInv'
  <2> DEFINE row == Merged(tx.posts[id], NewPost(text))
             t == WriteMerged(tx, id, to, row)
  <2>1. Wrote(t) /\ pc = "ready" /\ id \in DOMAIN tx.posts
      BY <1>19 DEF Merge, Wrote
  <2>2. row \in Post
      BY <1>0, <2>1, NewIsPost, MergedIsPost DEF Table
  <2>3. SameElse(t, tx) /\ InLine(t)
      BY <1>0, <1>17, <2>1, <2>2, WriteKeeps
  <2> QED
      BY <1>17, <2>1, <2>3, WroteKeeps DEF SameElse
<1>20. ASSUME NEW id \in Ids, Prune(id) PROVE StageInv'
  <2> DEFINE v == [tx EXCEPT !.media = Without(@, {id})]
             t == DeletePost(v, id)
  <2>1. Wrote(t) /\ pc = "ready"
      BY <1>20 DEF Prune, Wrote
  <2>2. /\ Table(v) /\ v.ver = tx.ver /\ v.posts = tx.posts /\ v.triggers = tx.triggers
        /\ v.index = tx.index /\ v.captions = tx.captions
      BY <1>0, MediaMoves
  <2> HIDE DEF v
  <2>3. InLine(v) /\ v.triggers
      BY <1>17, <2>1, <2>2 DEF InLine, IndexOf
  <2>4. SameElse(t, v) /\ InLine(t)
      BY <2>2, <2>3, DeleteKeeps
  <2> QED
      BY <1>17, <2>1, <2>2, <2>4, WroteKeeps DEF SameElse
<1>21. CASE Crash
    BY <1>21 DEF Crash, StageInv
<1> QED
    BY <1>1, <1>2, <1>4, <1>5, <1>6, <1>7, <1>8, <1>9, <1>10, <1>11, <1>12, <1>13, <1>14, <1>15,
       <1>16, <1>18, <1>19, <1>20, <1>21 DEF Next, vars

\* Once the index is there it finds each stored post by its caption and no other, through
\* replaced rows, reused ids, crashes and retries of the migration that fills it
\* (db.py:782-810).
THEOREM SearchFinds == Spec => []SearchMatches
<1>1. StageInv => SearchMatches
  <2> SUFFICES ASSUME StageInv, db.ver >= 8 PROVE SearchMatches
      BY DEF SearchMatches
  <2>1. InLine(db)
      BY DEF StageInv
  <2> QED
      BY <2>1 DEF InLine, IndexOf, SearchMatches, Found
<1> QED
    BY <1>1, StageInit, StageStep, PTL DEF Spec

------------------------------------------------------------------------------
(* The pictures.                                                            *)

\* No two rows share a cover, and no two a slide.
OwnCovers(t) ==
    \A p, q \in DOMAIN t.posts :
        t.posts[p].cover = t.posts[q].cover => p = q \/ t.posts[p].cover = None
OwnSlides(t) ==
    /\ \A p \in DOMAIN t.media : t.media[p] \in Slides
    /\ \A p, q \in DOMAIN t.media : t.media[p] = t.media[q] => p = q

\* Its pictures are all there, and none is about to go.
Kept(t, there, going) ==
    /\ \A p \in DOMAIN t.posts : t.posts[p].cover \in (there \ going) \cup {None}
    /\ \A p \in DOMAIN t.media : t.media[p] \in there \ going

\* What is not on disk was lost to a crash of the first migration.
PictureInv ==
    /\ OwnCovers(db) /\ OwnCovers(tx) /\ OwnSlides(db) /\ OwnSlides(tx)
    /\ Kept(tx, files \cup lost, doomed)

\* A merge keeps one of the two covers, and the one that goes is nobody's.
MergedCovers(u, t, dropped) ==
    \A p \in DOMAIN u.posts :
        \/ u.posts[p].cover = None
        \/ /\ u.posts[p].cover \notin dropped
           /\ \E g \in DOMAIN t.posts : u.posts[p].cover = t.posts[g].cover

LEMMA MergePictures ==
    ASSUME NEW t, NEW u, OwnCovers(t), NEW id \in DOMAIN t.posts, NEW d \in DOMAIN t.posts \ {id},
           NEW gone, NEW to \in {id, d}, id \in gone, gone \subseteq {id, d}, d \in gone \cup {to},
           Replaced(u, t, gone, to, Merged(t.posts[d], t.posts[id]))
    PROVE  OwnCovers(u) /\ MergedCovers(u, t, DroppedCover(t.posts[d], t.posts[id]))
<1> DEFINE old == t.posts[d]
           new == t.posts[id]
           kept == u.posts[to].cover
<1>1. kept = (IF old.cover # None THEN old.cover ELSE new.cover)
    BY DEF Replaced, Merged, Or
<1>2. ASSUME NEW p \in DOMAIN u.posts, p # to
      PROVE  p \in DOMAIN t.posts \ {id, d} /\ u.posts[p] = t.posts[p]
    BY <1>2 DEF Replaced
<1>3. kept = None \/ \E g \in {id, d} : kept = t.posts[g].cover
    BY <1>1
<1>4. \A x \in DroppedCover(old, new) : x = new.cover /\ x # None /\ x # kept
    BY <1>1 DEF DroppedCover
<1> HIDE DEF kept
<1>5. ASSUME NEW p \in DOMAIN u.posts, p # to, u.posts[p].cover # None
      PROVE  u.posts[p].cover # old.cover /\ u.posts[p].cover # new.cover
    BY <1>2, <1>5 DEF OwnCovers
<1>6. OwnCovers(u)
  <2> SUFFICES ASSUME NEW p \in DOMAIN u.posts, NEW q \in DOMAIN u.posts, p # q,
                      u.posts[p].cover = u.posts[q].cover, u.posts[p].cover # None
               PROVE  FALSE
      BY DEF OwnCovers
  <2>1. CASE p # to /\ q # to
      BY <1>2, <2>1 DEF OwnCovers
  <2>2. CASE p = to
      BY <1>3, <1>5, <2>2 DEF kept
  <2>3. CASE q = to
      BY <1>3, <1>5, <2>3 DEF kept
  <2> QED
      BY <2>1, <2>2, <2>3
<1>7. MergedCovers(u, t, DroppedCover(old, new))
  <2> SUFFICES ASSUME NEW p \in DOMAIN u.posts, u.posts[p].cover # None
               PROVE  /\ u.posts[p].cover \notin DroppedCover(old, new)
                      /\ \E g \in DOMAIN t.posts : u.posts[p].cover = t.posts[g].cover
      BY DEF MergedCovers
  <2>1. CASE p = to
      BY <1>3, <1>4, <2>1 DEF kept
  <2>2. CASE p # to
    <3>1. u.posts[p].cover \notin DroppedCover(old, new)
        BY <1>4, <1>5, <2>2
    <3> QED
        BY <1>2, <2>2, <3>1
  <2> QED
      BY <2>1, <2>2
<1> QED
    BY <1>6, <1>7

\* Slides follow the cover or are dropped.
LEMMA SlidesMove ==
    ASSUME NEW t, OwnSlides(t), NEW id, NEW d, id # d, NEW adopted \in BOOLEAN, NEW u,
           u.media = MovedMedia(t.media, id, d, adopted)
    PROVE  /\ OwnSlides(u)
           /\ \A p \in DOMAIN u.media :
                /\ u.media[p] \notin SlidesDropped(t.media, id, d, adopted)
                /\ \E q \in DOMAIN t.media : u.media[p] = t.media[q]
<1>1. CASE adopted /\ id \in DOMAIN t.media /\ d \notin DOMAIN t.media
  <2>1. SlidesDropped(t.media, id, d, adopted) = {}
      BY <1>1 DEF SlidesDropped
  <2>2. u.media = Without(With(t.media, d, t.media[id]), {id})
      BY <1>1 DEF MovedMedia
  <2>3. /\ DOMAIN u.media = (DOMAIN t.media \ {id}) \cup {d} /\ u.media[d] = t.media[id]
        /\ \A p \in DOMAIN t.media \ {id} : u.media[p] = t.media[p]
      BY <1>1, <2>2 DEF With, Without
  <2> QED
      BY <1>1, <2>1, <2>3 DEF OwnSlides
<1>2. CASE ~(adopted /\ id \in DOMAIN t.media /\ d \notin DOMAIN t.media)
  <2>1. u.media = Without(t.media, {id})
      BY <1>2 DEF MovedMedia
  <2>2. DOMAIN u.media = DOMAIN t.media \ {id} /\ \A p \in DOMAIN u.media : u.media[p] = t.media[p]
      BY <2>1 DEF Without
  <2>3. \A x \in SlidesDropped(t.media, id, d, adopted) : id \in DOMAIN t.media /\ x = t.media[id]
      BY DEF SlidesDropped
  <2> QED
      BY <2>2, <2>3 DEF OwnSlides
<1> QED
    BY <1>1, <1>2

\* Covers and slides are not mistaken for one another.
LEMMA Kinds == Covers \cap Slides = {}
BY DEF Covers, Slides

\* The rows there are have the pictures that they had, or none.
Fewer(u, t) ==
    /\ \A p \in DOMAIN u.posts : \/ u.posts[p].cover = None
                                 \/ p \in DOMAIN t.posts /\ u.posts[p].cover = t.posts[p].cover
    /\ \A p \in DOMAIN u.media : p \in DOMAIN t.media /\ u.media[p] = t.media[p]

LEMMA FewerPictures ==
    ASSUME NEW t, NEW u, OwnCovers(t), OwnSlides(t), Fewer(u, t)
    PROVE  OwnCovers(u) /\ OwnSlides(u)
<1>1. OwnCovers(u)
  <2> SUFFICES ASSUME NEW p \in DOMAIN u.posts, NEW q \in DOMAIN u.posts,
                      u.posts[p].cover = u.posts[q].cover, u.posts[p].cover # None
               PROVE  p = q
      BY DEF OwnCovers
  <2> QED
      BY DEF OwnCovers, Fewer
<1>2. OwnSlides(u)
    BY DEF OwnSlides, Fewer
<1> QED
    BY <1>1, <1>2

\* A step that commits, or only reads, and merges nothing.
LEMMA PlainStep ==
    ASSUME PictureInv, Fewer(tx', tx), db' = tx' \/ UNCHANGED db,
           UNCHANGED <<files, lost, doomed>>
    PROVE  PictureInv'
<1>1. OwnCovers(tx') /\ OwnSlides(tx')
    BY FewerPictures DEF PictureInv
<1>2. Kept(tx', files \cup lost, doomed)
    BY DEF PictureInv, Fewer, Kept
<1>3. OwnCovers(db') /\ OwnSlides(db')
    BY <1>1 DEF PictureInv
<1> QED
    BY <1>1, <1>2, <1>3 DEF PictureInv

LEMMA PictureInit == Init => PictureInv
<1> SUFFICES ASSUME Init PROVE PictureInv
    OBVIOUS
<1>1. PICK old \in Old :
          /\ db = [ver |-> old.ver, posts |-> old.posts, media |-> old.media,
                   index |-> [i \in {} |-> None], captions |-> [i \in {} |-> None],
                   triggers |-> FALSE]
          /\ files = Shown(db) \ {None}
    BY DEF Init
<1>2. db.posts = old.posts /\ db.media = old.media /\ tx = db /\ lost = {} /\ doomed = {}
    BY <1>1 DEF Init
<1>3. OwnCovers(db) /\ OwnSlides(db)
    BY <1>2, UpgradeAssumption DEF OwnCovers, OwnSlides
<1>4. None \notin Slides
    BY UpgradeAssumption
<1>5. Kept(db, files, {})
    BY <1>1, <1>3, <1>4 DEF Kept, Shown, OwnSlides
<1> QED
    BY <1>2, <1>3, <1>5 DEF PictureInv

LEMMA PictureStep == StageInv /\ PictureInv /\ [Next]_vars => PictureInv'
<1> SUFFICES ASSUME StageInv, PictureInv, [Next]_vars PROVE PictureInv'
    OBVIOUS
<1>0. Table(db) /\ Table(tx) /\ (pc # "dedupe" => db = tx)
    BY DEF StageInv
<1>1. Fewer(tx, tx)
    BY DEF Fewer
<1>2. CASE UNCHANGED <<db, tx, files, lost, doomed>>
    BY <1>1, <1>2, PlainStep
<1>3. ASSUME NEW t, Table(t), t.posts = tx.posts, t.media = tx.media, Bumped(t)
      PROVE  PictureInv'
  <2>1. tx'.posts = tx.posts /\ tx'.media = tx.media
      BY <1>3, VersionMoves DEF Bumped
  <2>2. Fewer(tx', tx)
      BY <2>1 DEF Fewer
  <2> QED
      BY <1>3, <2>2, PlainStep DEF Bumped
<1>4. CASE DedupeDone \/ Elsewhere \/ Bump \/ TwinsDone
    BY <1>0, <1>3, <1>4 DEF DedupeDone, Elsewhere, Bump, TwinsDone
<1>5. CASE FillIndex
    BY <1>0, <1>3, <1>5, FillKeeps DEF FillIndex, SameElse
<1>6. CASE CreateIndex
  <2>1. tx'.posts = tx.posts /\ tx'.media = tx.media
      BY <1>0, <1>6 DEF CreateIndex, Table
  <2> QED
      BY <1>6, <2>1, PlainStep DEF CreateIndex, Fewer
<1>7. CASE BackfillDates \/ Rehash \/ AltHash
  <2>1. db' = tx' /\ UNCHANGED <<files, lost, doomed>>
      BY <1>7 DEF BackfillDates, Rehash, AltHash
  <2>2. tx'.media = tx.media /\ DOMAIN tx'.posts = DOMAIN tx.posts
      BY <1>0, <1>7 DEF BackfillDates, Rehash, AltHash, Table
  <2>3. ASSUME NEW p \in DOMAIN tx.posts PROVE tx'.posts[p].cover = tx.posts[p].cover
    <3>1. tx.posts[p] \in Post
        BY <1>0 DEF Table
    <3>2. CASE BackfillDates
      <4>1. tx'.posts[p] = [tx.posts[p] EXCEPT !.slot = Or(tx.posts[p].slot, tx.posts[p].raw)]
          BY <1>0, <3>2 DEF BackfillDates, Table
      <4> QED
          BY <3>1, <4>1 DEF Post
    <3>3. CASE Rehash
      <4>1. tx'.posts[p] = [tx.posts[p] EXCEPT !.hash = KeyOf(tx.posts[p].text)]
          BY <1>0, <3>3 DEF Rehash, Table
      <4> QED
          BY <3>1, <4>1 DEF Post
    <3>4. CASE AltHash
      <4>1. \/ tx'.posts[p] = [tx.posts[p] EXCEPT !.alt = KeyOf(tx.posts[p].text)]
            \/ tx'.posts[p] = tx.posts[p]
          BY <1>0, <3>4 DEF AltHash, Table
      <4> QED
          BY <3>1, <4>1 DEF Post
    <3> QED
        BY <1>7, <3>2, <3>3, <3>4
  <2>4. Fewer(tx', tx)
      BY <2>2, <2>3 DEF Fewer
  <2> QED
      BY <2>1, <2>4, PlainStep
\* The first migration unlinks the cover that goes, and it is nobody's.
<1>8. ASSUME NEW id \in Ids, Dedupe(id) PROVE PictureInv'
  <2>1. UNCHANGED <<db, lost, doomed>>
      BY <1>8 DEF Dedupe
  <2>2. CASE UNCHANGED <<tx, files>>
      BY <1>2, <2>1, <2>2
  <2>3. ASSUME id \in DOMAIN tx.posts, NEW d \in DOMAIN tx.posts \ {id}, DedupeMerges(id, d)
        PROVE  PictureInv'
    <3> DEFINE dropped == DroppedCover(tx.posts[d], tx.posts[id])
    <3>1. /\ files' = files \ dropped /\ SameElse(tx', tx)
          /\ \E to \in {id, d} : Replaced(tx', tx, {id, d}, to, Merged(tx.posts[d], tx.posts[id]))
        BY <2>3 DEF DedupeMerges
    <3>2. OwnCovers(tx') /\ MergedCovers(tx', tx, dropped)
      <4> DEFINE gone == {id, d}
      <4>1. PICK to \in {id, d} :
                Replaced(tx', tx, gone, to, Merged(tx.posts[d], tx.posts[id]))
          BY <3>1
      <4>2. id \in gone /\ gone \subseteq {id, d} /\ d \in gone \cup {to}
          OBVIOUS
      <4>3. OwnCovers(tx) /\ id \in DOMAIN tx.posts /\ d \in DOMAIN tx.posts \ {id}
          BY <2>3 DEF PictureInv
      <4> HIDE DEF gone
      <4> QED
          BY <4>1, <4>2, <4>3, MergePictures
    <3>3. tx'.media = tx.media
        BY <3>1 DEF SameElse
    <3>4. dropped \subseteq Covers
        BY <1>0, <2>3, UpgradeAssumption DEF DroppedCover, Table, Post
    <3> HIDE DEF dropped
    <3>5. \A p \in DOMAIN tx'.posts : tx'.posts[p].cover \in ((files' \cup lost) \ doomed) \cup {None}
        BY <3>1, <3>2 DEF MergedCovers, PictureInv, Kept
    <3>6. \A p \in DOMAIN tx'.media : tx'.media[p] \in (files' \cup lost) \ doomed
        BY <3>1, <3>3, <3>4, Kinds DEF PictureInv, Kept, OwnSlides
    <3> QED
        BY <2>1, <3>2, <3>3, <3>5, <3>6 DEF PictureInv, Kept, OwnSlides
  <2> QED
      BY <1>0, <1>8, <2>2, <2>3, DedupeMoves
\* The seventh names it, to be unlinked after the commit, with the slides that stay behind.
<1>9. ASSUME NEW id \in Ids, MergeTwin(id) PROVE PictureInv'
  <2>1. UNCHANGED <<files, lost>>
      BY <1>9 DEF MergeTwin
  <2>2. CASE UNCHANGED <<db, tx, doomed>>
      BY <1>2, <2>1, <2>2
  <2>3. ASSUME id \in DOMAIN tx.posts, NEW d \in SameCaption(tx, id), TwinMerges(id, d)
        PROVE  PictureInv'
    <3> DEFINE old == tx.posts[d]
               new == tx.posts[id]
               row == Merged(old, new)
               adopted == new.cover # None /\ row.cover = new.cover
               dropped == DroppedCover(old, new)
               slides == SlidesDropped(tx.media, id, d, adopted)
    <3>1. /\ db' = tx' /\ Table(tx') /\ Replaced(tx', tx, {id}, d, row)
          /\ tx'.media = MovedMedia(tx.media, id, d, adopted) /\ doomed' = dropped \cup slides
        BY <2>3 DEF TwinMerges
    <3>2. d \in DOMAIN tx.posts \ {id}
        BY <2>3 DEF SameCaption
    <3>3. OwnCovers(tx') /\ MergedCovers(tx', tx, dropped)
        BY <2>3, <3>1, <3>2, MergePictures DEF PictureInv
    <3>4. adopted \in BOOLEAN
        OBVIOUS
    <3>5. dropped \subseteq Covers
        BY <1>0, <2>3, <3>2, UpgradeAssumption DEF DroppedCover, Table, Post
    <3> HIDE DEF old, new, row, adopted, dropped
    <3>6. /\ OwnSlides(tx')
          /\ \A p \in DOMAIN tx'.media : /\ tx'.media[p] \notin slides
                                         /\ \E q \in DOMAIN tx.media : tx'.media[p] = tx.media[q]
        BY <3>1, <3>2, <3>4, SlidesMove DEF PictureInv
    <3>7. slides \subseteq Slides
        BY DEF SlidesDropped, PictureInv, OwnSlides
    <3> HIDE DEF slides
    <3>8. \A p \in DOMAIN tx'.posts : tx'.posts[p].cover \in ((files \cup lost) \ doomed') \cup {None}
      <4> SUFFICES ASSUME NEW p \in DOMAIN tx'.posts, tx'.posts[p].cover # None
                   PROVE  tx'.posts[p].cover \in (files \cup lost) \ doomed'
          OBVIOUS
      <4>1. /\ tx'.posts[p].cover \notin dropped
            /\ \E g \in DOMAIN tx.posts : tx'.posts[p].cover = tx.posts[g].cover
          BY <3>3 DEF MergedCovers
      <4>2. tx'.posts[p].cover \in Covers
          BY <3>1 DEF Table, Post
      <4>3. tx'.posts[p].cover \in files \cup lost
          BY <4>1 DEF PictureInv, Kept
      <4> QED
          BY <3>1, <3>7, <4>1, <4>2, <4>3, Kinds
    <3>9. \A p \in DOMAIN tx'.media : tx'.media[p] \in (files \cup lost) \ doomed'
      <4> SUFFICES ASSUME NEW p \in DOMAIN tx'.media
                   PROVE  tx'.media[p] \in (files \cup lost) \ doomed'
          OBVIOUS
      <4>1. tx'.media[p] \in Slides /\ tx'.media[p] \notin slides
          BY <3>6 DEF OwnSlides
      <4>2. tx'.media[p] \in files \cup lost
          BY <3>6 DEF PictureInv, Kept
      <4> QED
          BY <3>1, <3>5, <4>1, <4>2, Kinds
    <3> QED
        BY <2>1, <3>1, <3>3, <3>6, <3>8, <3>9 DEF PictureInv, Kept
  <2> QED
      BY <1>0, <1>9, <2>2, <2>3, TwinMoves
<1>10. CASE DiscardMedia
    BY <1>10 DEF DiscardMedia, PictureInv, Kept
\* A new post has no pictures here; a merge keeps the row's.
<1>11. ASSUME NEW id \in Ids, NEW text \in Texts, Insert(id, text) PROVE PictureInv'
  <2>1. tx' = PutPost(tx, id, NewPost(text)) /\ db' = tx' /\ UNCHANGED <<files, lost, doomed>>
      BY <1>11 DEF Insert, Wrote
  <2>2. tx'.posts = With(tx.posts, id, NewPost(text)) /\ tx'.media = tx.media
      BY <1>0, <2>1, PutKeeps, NewIsPost DEF SameElse
  <2>3. Fewer(tx', tx)
      BY <2>2 DEF Fewer, With, NewPost
  <2> QED
      BY <2>1, <2>3, PlainStep
<1>12. ASSUME NEW id \in Ids, NEW to \in Ids, NEW text \in Texts, Merge(id, to, text)
       PROVE  PictureInv'
  <2> DEFINE row == Merged(tx.posts[id], NewPost(text))
  <2>1. /\ id \in DOMAIN tx.posts /\ (to = id \/ to \notin DOMAIN tx.posts)
        /\ tx' = WriteMerged(tx, id, to, row) /\ db' = tx' /\ UNCHANGED <<files, lost, doomed>>
      BY <1>12 DEF Merge, Wrote
  <2>2. row \in Post
      BY <1>0, <2>1, NewIsPost, MergedIsPost DEF Table
  <2>3. row.cover = tx.posts[id].cover
      BY DEF Merged, Or, NewPost
  <2> HIDE DEF row
  <2>4. Replaced(tx', tx, {id}, to, row) /\ tx'.media = tx.media
      BY <1>0, <2>1, <2>2, WriteKeeps DEF SameElse
  <2>5. OwnCovers(tx')
    <3>1. \A p \in DOMAIN tx'.posts : p # to => p \in DOMAIN tx.posts \ {id} /\ tx'.posts[p] = tx.posts[p]
        BY <2>4 DEF Replaced
    <3>2. tx'.posts[to].cover = tx.posts[id].cover
        BY <2>3, <2>4 DEF Replaced
    <3> SUFFICES ASSUME NEW p \in DOMAIN tx'.posts, NEW q \in DOMAIN tx'.posts,
                        tx'.posts[p].cover = tx'.posts[q].cover, tx'.posts[p].cover # None
                 PROVE  p = q
        BY DEF OwnCovers
    <3>3. CASE p # to /\ q # to
        BY <3>1, <3>3 DEF PictureInv, OwnCovers
    <3>4. CASE p = to /\ q # to
        BY <2>1, <3>1, <3>2, <3>4 DEF PictureInv, OwnCovers
    <3>5. CASE p # to /\ q = to
        BY <2>1, <3>1, <3>2, <3>5 DEF PictureInv, OwnCovers
    <3> QED
        BY <3>3, <3>4, <3>5
  <2>6. Kept(tx', files \cup lost, doomed)
    <3>1. \A p \in DOMAIN tx'.posts : \E g \in DOMAIN tx.posts : tx'.posts[p].cover = tx.posts[g].cover
        BY <2>1, <2>3, <2>4 DEF Replaced
    <3> QED
        BY <2>4, <3>1 DEF PictureInv, Kept
  <2>7. OwnSlides(tx')
      BY <2>4 DEF PictureInv, OwnSlides
  <2> QED
      BY <2>1, <2>5, <2>6, <2>7 DEF PictureInv
<1>13. ASSUME NEW id \in Ids, Prune(id) PROVE PictureInv'
  <2> DEFINE v == [tx EXCEPT !.media = Without(@, {id})]
  <2>1. /\ id \in DOMAIN tx.posts /\ tx' = DeletePost(v, id) /\ db' = tx' /\ UNCHANGED <<files, lost>>
        /\ doomed = {}
        /\ doomed' = (IF tx.posts[id].cover = None THEN {} ELSE {tx.posts[id].cover})
                     \cup (IF id \in DOMAIN tx.media THEN {tx.media[id]} ELSE {})
      BY <1>13 DEF Prune, Wrote
  <2>2. Table(v) /\ v.posts = tx.posts /\ v.media = Without(tx.media, {id})
      BY <1>0, MediaMoves
  <2> HIDE DEF v
  <2>3. tx'.posts = Without(tx.posts, {id}) /\ tx'.media = Without(tx.media, {id})
      BY <2>1, <2>2, DeleteKeeps DEF SameElse
  <2>4. /\ DOMAIN tx'.posts = DOMAIN tx.posts \ {id} /\ \A p \in DOMAIN tx'.posts : tx'.posts[p] = tx.posts[p]
        /\ DOMAIN tx'.media = DOMAIN tx.media \ {id} /\ \A p \in DOMAIN tx'.media : tx'.media[p] = tx.media[p]
      BY <2>3 DEF Without
  <2>5. OwnCovers(tx') /\ OwnSlides(tx')
      BY <2>4, FewerPictures DEF Fewer, PictureInv
  <2>6. \A p \in DOMAIN tx'.posts : tx'.posts[p].cover \in ((files \cup lost) \ doomed') \cup {None}
    <3> SUFFICES ASSUME NEW p \in DOMAIN tx'.posts, tx'.posts[p].cover # None
                 PROVE  tx'.posts[p].cover \in (files \cup lost) \ doomed'
        OBVIOUS
    <3>1. p \in DOMAIN tx.posts /\ p # id /\ tx'.posts[p] = tx.posts[p]
        BY <2>4
    <3>2. tx.posts[p].cover \in files \cup lost /\ tx.posts[p].cover # tx.posts[id].cover
        BY <2>1, <3>1 DEF PictureInv, Kept, OwnCovers
    <3>3. tx.posts[p].cover \in Covers
        BY <1>0, <3>1 DEF Table, Post
    <3>4. id \in DOMAIN tx.media => tx.media[id] \in Slides
        BY DEF PictureInv, OwnSlides
    <3> QED
        BY <2>1, <3>1, <3>2, <3>3, <3>4, Kinds
  <2>7. \A p \in DOMAIN tx'.media : tx'.media[p] \in (files \cup lost) \ doomed'
    <3> SUFFICES ASSUME NEW p \in DOMAIN tx'.media PROVE tx'.media[p] \in (files \cup lost) \ doomed'
        OBVIOUS
    <3>1. p \in DOMAIN tx.media /\ p # id /\ tx'.media[p] = tx.media[p]
        BY <2>4
    <3>2. tx.media[p] \in files \cup lost /\ tx.media[p] \in Slides
          /\ (id \in DOMAIN tx.media => tx.media[p] # tx.media[id])
        BY <3>1 DEF PictureInv, Kept, OwnSlides
    <3>3. tx.posts[id].cover = None \/ tx.posts[id].cover \in Covers
        BY <1>0, <2>1 DEF Table, Post
    <3> QED
        BY <2>1, <3>1, <3>2, <3>3, Kinds
  <2> QED
      BY <2>1, <2>5, <2>6, <2>7 DEF PictureInv, Kept
\* A crash undoes the rows; what is gone by then counts as lost.
<1>14. CASE Crash
  <2>1. tx' = db /\ doomed' = {} /\ UNCHANGED <<db, files>>
      BY <1>14 DEF Crash
  <2>2. CASE pc # "dedupe"
      BY <1>0, <1>14, <2>1, <2>2 DEF Crash, PictureInv, Kept
  <2>3. CASE pc = "dedupe"
    <3>1. lost' = lost \cup (Shown(db) \ files)
        BY <1>14, <2>3 DEF Crash
    <3>2. /\ \A p \in DOMAIN db.posts : db.posts[p].cover \in Shown(db)
          /\ \A p \in DOMAIN db.media : db.media[p] \in Shown(db)
        BY DEF Shown
    <3>3. Kept(db, files \cup lost', {})
        BY <3>1, <3>2 DEF Kept
    <3> QED
        BY <2>1, <3>3 DEF PictureInv
  <2> QED
      BY <2>2, <2>3
<1> QED
    BY <1>2, <1>4, <1>5, <1>6, <1>7, <1>8, <1>9, <1>10, <1>11, <1>12, <1>13, <1>14
    DEF Next, vars, Start, FindTwins

\* A row's cover and slides stay on disk whatever the upgrade merges and wherever it dies
\* (db.py:722-766), but for what a crash in the first migration loses (db.py:592-638).
THEOREM PicturesStay == Spec => []PicturesKept
<1>1. StageInv /\ PictureInv => PicturesKept
    BY DEF StageInv, PictureInv, Kept, PicturesKept
<1> QED
    BY <1>1, StageInit, StageStep, PictureInit, PictureStep, PTL DEF Spec

------------------------------------------------------------------------------
(* The hashes, and the rows merged by caption.                              *)

\* A post on screen is recognised by the hash of its caption; or will be, once the sixth
\* migration has filled in the one it was not last seen under.
Hashed(t) ==
    \A p \in DOMAIN t.posts : KeyOf(t.posts[p].text) \in {t.posts[p].hash, t.posts[p].alt}
Hashable(t) ==
    \A p \in DOMAIN t.posts :
        \/ t.posts[p].alt = None
        \/ KeyOf(t.posts[p].text) \in {t.posts[p].hash, t.posts[p].alt}

\* Rows without a link or a date, and the recent ones with one's caption.
Loose(t) == {p \in DOMAIN t.posts : ~t.posts[p].linked /\ t.posts[p].slot = None}
Twins(t, p) ==
    {q \in DOMAIN t.posts \ {p} : t.posts[q].recent /\ t.posts[q].text = t.posts[p].text}
Alone(t, p) == t.posts[p].text = Weak \/ Twins(t, p) = {}

\* What each version has established.
KnownInv ==
    /\ writes \in Nat
    /\ writes = 0 =>
        /\ tx.ver = 5 \/ (pc = "bump" /\ tx.ver = 4) => Hashable(tx)
        /\ tx.ver >= 6 \/ (pc = "bump" /\ tx.ver = 5) => Hashed(tx)
        /\ pc = "twins" => \A p \in Loose(tx) \ todo : Alone(tx, p)
        /\ tx.ver >= 7 => \A p \in Loose(tx) : Alone(tx, p)

\* What the program may find was stored before the migrations at issue, or by a version
\* whose rows they leave alone: hashes of the captions from the sixth on, and no second
\* hash that is not one before it.
OldHashes ==
    \A old \in Old : /\ old.ver <= 6
                     /\ old.ver = 5 => Hashable(old)
                     /\ old.ver = 6 => Hashed(old)

LEMMA AloneIs ==
    ASSUME NEW t, NEW p
    PROVE  SameCaption(t, p) = {} <=> Alone(t, p)
<1> DEFINE same == {d \in DOMAIN t.posts \ {p} :
                       t.posts[d].recent /\ t.posts[d].text = t.posts[p].text}
           linked == {d \in same : t.posts[d].linked}
<1>1. same = Twins(t, p)
    BY DEF Twins
<1>2. SameCaption(t, p) =
          IF t.posts[p].text = Weak THEN {} ELSE IF linked # {} THEN linked ELSE same
    BY DEF SameCaption
<1>3. linked \subseteq same
    OBVIOUS
<1> HIDE DEF same, linked
<1> QED
    BY <1>1, <1>2, <1>3 DEF Alone

\* What is known of rows stays known while they stay.
LEMMA SamePosts ==
    ASSUME NEW t, NEW u, u.posts = t.posts
    PROVE  /\ Hashed(u) <=> Hashed(t)
           /\ Hashable(u) <=> Hashable(t)
           /\ Loose(u) = Loose(t)
           /\ \A p : Alone(u, p) <=> Alone(t, p)
BY DEF Hashed, Hashable, Loose, Alone, Twins

\* Hashes of captions are not missing ones.
LEMMA KeysAreHashes ==
    ASSUME NEW post \in Post
    PROVE  KeyOf(post.text) # None
<1>1. KeyOf(post.text) \in Hashes
    BY DEF Post, KeyOf, Hashes, Forms
<1> QED
    BY <1>1, UpgradeAssumption

\* A merge of two posts of one caption is recognised as both were.
LEMMA MergedIsHashed ==
    ASSUME NEW old \in Post, NEW new \in Post, old.text = new.text, old.text # Weak,
           KeyOf(new.text) \in {new.hash, new.alt}
    PROVE  LET row == Merged(old, new) IN
           row.text = old.text /\ KeyOf(row.text) \in {row.hash, row.alt}
<1> DEFINE row == Merged(old, new)
<1>1. /\ row.text = old.text /\ row.hash = new.hash
      /\ row.alt = (IF new.alt \notin {None, new.hash} THEN new.alt
                    ELSE IF old.hash # new.hash THEN old.hash
                    ELSE IF old.alt # new.hash THEN old.alt ELSE None)
    BY DEF Merged
<1>2. KeyOf(new.text) # None
    BY KeysAreHashes
<1> HIDE DEF row
<1>3. row.text = old.text /\ KeyOf(row.text) \in {row.hash, row.alt}
    BY <1>1, <1>2
<1> QED
    BY <1>3 DEF row

\* After a merge of the seventh migration every loose row that has been looked at is alone.
LEMMA TwinsKeep ==
    ASSUME Table(tx), Hashed(tx), NEW id \in DOMAIN tx.posts, NEW d \in SameCaption(tx, id),
           TwinMerges(id, d), \A p \in Loose(tx) \ todo : Alone(tx, p), todo' = todo \ {id}
    PROVE  Hashed(tx') /\ \A p \in Loose(tx') \ todo' : Alone(tx', p)
<1> DEFINE old == tx.posts[d]
           new == tx.posts[id]
           row == Merged(old, new)
<1>1. d \in DOMAIN tx.posts \ {id} /\ old.text = new.text /\ old.text # Weak
    BY DEF SameCaption
<1>2. /\ DOMAIN tx'.posts = (DOMAIN tx.posts \ {id}) \cup {d} /\ tx'.posts[d] = row
      /\ \A p \in DOMAIN tx.posts \ {id, d} : tx'.posts[p] = tx.posts[p]
    BY DEF TwinMerges, Replaced
<1>3. old \in Post /\ new \in Post /\ KeyOf(new.text) \in {new.hash, new.alt}
    BY <1>1 DEF Table, Hashed
<1>4. row.text = old.text /\ KeyOf(row.text) \in {row.hash, row.alt}
    BY <1>1, <1>3, MergedIsHashed
<1>5. /\ ~row.linked /\ row.slot = None => ~old.linked /\ old.slot = None
      /\ row.recent = old.recent
    BY DEF Merged, Or
<1> HIDE DEF row
<1>6. Hashed(tx')
  <2> SUFFICES ASSUME NEW p \in DOMAIN tx'.posts
               PROVE  KeyOf(tx'.posts[p].text) \in {tx'.posts[p].hash, tx'.posts[p].alt}
      BY DEF Hashed
  <2>1. CASE p = d
      BY <1>2, <1>4, <2>1
  <2>2. CASE p # d
      BY <1>2, <2>2 DEF Hashed
  <2> QED
      BY <2>1, <2>2
<1>7. ASSUME NEW p \in Loose(tx') \ todo' PROVE Alone(tx', p)
  <2>1. p \in DOMAIN tx'.posts /\ p \in DOMAIN tx.posts /\ p # id
      BY <1>1, <1>2, <1>7 DEF Loose
  <2>2. p \in Loose(tx)
    <3>1. CASE p = d
        BY <1>1, <1>2, <1>5, <1>7, <3>1 DEF Loose
    <3>2. CASE p # d
        BY <1>2, <1>7, <2>1, <3>2 DEF Loose
    <3> QED
        BY <3>1, <3>2
  <2>3. Alone(tx, p)
      BY <1>7, <2>1, <2>2
  <2>4. \A q \in DOMAIN tx'.posts : /\ q \in DOMAIN tx.posts
                                    /\ tx'.posts[q].text = tx.posts[q].text
                                    /\ tx'.posts[q].recent = tx.posts[q].recent
    <3>1. d \in DOMAIN tx.posts /\ tx'.posts[d].text = old.text /\ tx'.posts[d].recent = old.recent
        BY <1>1, <1>2, <1>4, <1>5
    <3> QED
        BY <1>2, <3>1
  <2>5. Twins(tx', p) \subseteq Twins(tx, p) /\ tx'.posts[p].text = tx.posts[p].text
      BY <2>1, <2>4 DEF Twins
  <2> QED
      BY <2>3, <2>5 DEF Alone
<1> QED
    BY <1>6, <1>7

LEMMA KnownInit == Init /\ OldHashes => KnownInv
<1> SUFFICES ASSUME Init, OldHashes PROVE KnownInv
    OBVIOUS
<1>1. PICK old \in Old :
          db = [ver |-> old.ver, posts |-> old.posts, media |-> old.media,
                index |-> [i \in {} |-> None], captions |-> [i \in {} |-> None],
                triggers |-> FALSE]
    BY DEF Init
<1>2. tx.ver = old.ver /\ tx.posts = old.posts /\ pc = "down" /\ writes = 0
    BY <1>1 DEF Init
<1>3. old.ver \in 0 .. 7
    BY UpgradeAssumption
<1>4. old.ver <= 6 /\ (old.ver = 5 => Hashable(old)) /\ (old.ver = 6 => Hashed(old))
    BY DEF OldHashes
<1>5. (Hashed(tx) <=> Hashed(old)) /\ (Hashable(tx) <=> Hashable(old))
    BY <1>2, SamePosts
<1> QED
    BY <1>2, <1>3, <1>4, <1>5 DEF KnownInv

\* A step that leaves the rows alone.
LEMMA KnownStays ==
    ASSUME KnownInv, tx.ver \in Nat, tx'.posts = tx.posts, UNCHANGED writes,
           tx'.ver = 5 \/ (pc' = "bump" /\ tx'.ver = 4) =>
              \/ tx.ver = 5 \/ (pc = "bump" /\ tx.ver = 4),
           tx'.ver >= 6 \/ (pc' = "bump" /\ tx'.ver = 5) =>
              \/ tx.ver >= 6 \/ (pc = "bump" /\ tx.ver = 5),
           pc' = "twins" => todo' = Loose(tx) \/ (pc = "twins" /\ todo' = todo),
           tx'.ver >= 7 => tx.ver >= 7 \/ (pc = "twins" /\ todo = {})
    PROVE  KnownInv'
BY SamePosts DEF KnownInv

LEMMA KnownStep == StageInv /\ KnownInv /\ [Next]_vars => KnownInv'
<1> SUFFICES ASSUME StageInv, KnownInv, [Next]_vars PROVE KnownInv'
    OBVIOUS
<1>0. /\ Table(db) /\ Table(tx) /\ tx.ver \in Nat /\ (pc # "dedupe" => db = tx)
      /\ Last \in Nat /\ Last >= 9
    BY UpgradeAssumption DEF StageInv, Table
<1>1. CASE UNCHANGED <<tx, writes>> /\ (UNCHANGED <<pc, todo>> \/ pc' \notin {"bump", "twins"})
    BY <1>0, <1>1, KnownStays
<1>2. CASE Start \/ DiscardMedia
    BY <1>1, <1>2 DEF Start, DiscardMedia
<1>3. ASSUME NEW t, Table(t), t.ver = tx.ver, t.posts = tx.posts, Bumped(t),
             pc' \in {"migrating", "ready"},
             tx.ver = 4 \/ tx.ver = 5 => pc = "bump",
             tx.ver = 6 => pc = "twins" /\ todo = {}
      PROVE  KnownInv'
  <2>1. tx'.ver = tx.ver + 1 /\ tx'.posts = tx.posts /\ UNCHANGED writes
      BY <1>3, VersionMoves DEF Bumped
  <2> QED
      BY <1>0, <1>3, <2>1, KnownStays
<1>4. CASE DedupeDone \/ Elsewhere \/ Bump \/ TwinsDone
  <2>1. Bumped(tx) /\ pc' \in {"migrating", "ready"}
      BY <1>4 DEF DedupeDone, Elsewhere, Running, Bump, TwinsDone
  <2>2. tx.ver = 4 \/ tx.ver = 5 => pc = "bump"
      BY <1>4 DEF DedupeDone, Elsewhere, Running, Bump, TwinsDone, StageInv
  <2>3. tx.ver = 6 => pc = "twins" /\ todo = {}
      BY <1>4 DEF DedupeDone, Elsewhere, Running, Bump, TwinsDone, StageInv
  <2> QED
      BY <1>0, <1>3, <2>1, <2>2, <2>3
<1>5. CASE FillIndex
  <2>1. tx.ver = 7 /\ pc' = "migrating"
      BY <1>5 DEF FillIndex, StageInv
  <2>2. PICK t \in Filled(tx) : Bumped(t)
      BY <1>5 DEF FillIndex
  <2>3. Table(t) /\ t.ver = tx.ver /\ t.posts = tx.posts
      BY <1>0, FillKeeps DEF SameElse
  <2> QED
      BY <1>3, <2>1, <2>2, <2>3
<1>6. CASE CreateIndex
  <2>1. /\ tx.ver = 7 /\ tx'.ver = 7 /\ tx'.posts = tx.posts /\ pc' = "fill" /\ UNCHANGED writes
      BY <1>0, <1>6 DEF CreateIndex, Running, Table
  <2> QED
      BY <1>0, <2>1, KnownStays
<1>7. CASE FindTwins
  <2>1. tx.ver = 6 /\ UNCHANGED <<tx, writes>> /\ pc' = "twins" /\ todo' = Loose(tx)
      BY <1>0, <1>7 DEF FindTwins, Running, Loose
  <2> QED
      BY <1>0, <2>1, KnownStays
<1>8. CASE BackfillDates
  <2>1. tx'.ver = 0 /\ pc' = "dedupe" /\ UNCHANGED writes
      BY <1>0, <1>8 DEF BackfillDates, Running, Table
  <2> QED
      BY <2>1 DEF KnownInv
<1>9. ASSUME NEW id \in Ids, Dedupe(id) PROVE KnownInv'
  <2>1. tx'.ver = 0 /\ pc' = "dedupe" /\ UNCHANGED writes
      BY <1>0, <1>9, DedupeMoves DEF Dedupe, DedupeMerges, SameElse, StageInv
  <2> QED
      BY <2>1 DEF KnownInv
\* The fifth gives every row the hash of its caption.
<1>10. CASE Rehash
  <2>1. tx.ver = 4 /\ tx'.ver = 4 /\ pc' = "bump" /\ UNCHANGED writes
      BY <1>0, <1>10 DEF Rehash, Running, Table
  <2>2. ASSUME NEW p \in DOMAIN tx'.posts PROVE KeyOf(tx'.posts[p].text) = tx'.posts[p].hash
    <3>1. p \in DOMAIN tx.posts
          /\ tx'.posts[p] = [tx.posts[p] EXCEPT !.hash = KeyOf(tx.posts[p].text)]
        BY <1>0, <1>10 DEF Rehash, Table
    <3>2. tx.posts[p] \in Post
        BY <1>0, <3>1 DEF Table
    <3> QED
        BY <3>1, <3>2 DEF Post
  <2> QED
      BY <2>1, <2>2 DEF KnownInv, Hashable
\* The sixth, the one it has not as its second.
<1>11. CASE AltHash
  <2>1. tx.ver = 5 /\ tx'.ver = 5 /\ pc' = "bump" /\ UNCHANGED writes
      BY <1>0, <1>11 DEF AltHash, Running, Table
  <2>2. ASSUME writes = 0, NEW p \in DOMAIN tx'.posts
        PROVE  KeyOf(tx'.posts[p].text) \in {tx'.posts[p].hash, tx'.posts[p].alt}
    <3>1. p \in DOMAIN tx.posts
          /\ tx'.posts[p] = (IF Collapsed(tx.posts[p])
                             THEN [tx.posts[p] EXCEPT !.alt = KeyOf(tx.posts[p].text)]
                             ELSE tx.posts[p])
        BY <1>0, <1>11 DEF AltHash, Table
    <3>2. tx.posts[p] \in Post
        BY <1>0, <3>1 DEF Table
    <3>3. tx.posts[p].alt = None \/ KeyOf(tx.posts[p].text) \in {tx.posts[p].hash, tx.posts[p].alt}
        BY <2>1, <2>2, <3>1 DEF KnownInv, Hashable
    <3>4. CASE Collapsed(tx.posts[p])
        BY <3>1, <3>2, <3>4 DEF Post
    <3>5. CASE ~Collapsed(tx.posts[p])
        BY <3>1, <3>3, <3>5 DEF Collapsed
    <3> QED
        BY <3>4, <3>5
  <2> QED
      BY <2>1, <2>2 DEF KnownInv, Hashable, Hashed
\* The seventh.
<1>12. ASSUME NEW id \in Ids, MergeTwin(id) PROVE KnownInv'
  <2>1. pc = "twins" /\ tx.ver = 6 /\ todo' = todo \ {id} /\ UNCHANGED <<pc, writes>>
      BY <1>12 DEF MergeTwin, StageInv
  <2>2. ASSUME UNCHANGED tx, id \in DOMAIN tx.posts => SameCaption(tx, id) = {} PROVE KnownInv'
    <3>1. \A p \in Loose(tx) : p = id => Alone(tx, p)
        BY <2>2, AloneIs DEF Loose
    <3> QED
        BY <2>1, <2>2, <3>1 DEF KnownInv
  <2>3. ASSUME id \in DOMAIN tx.posts, NEW d \in SameCaption(tx, id), TwinMerges(id, d)
        PROVE  KnownInv'
    <3>1. tx'.ver = 6
        BY <2>1, <2>3 DEF TwinMerges
    <3>2. writes = 0 => Hashed(tx') /\ \A p \in Loose(tx') \ todo' : Alone(tx', p)
        BY <1>0, <2>1, <2>3, TwinsKeep DEF KnownInv
    <3> QED
        BY <2>1, <3>1, <3>2 DEF KnownInv
  <2> QED
      BY <1>0, <1>12, <2>2, <2>3, TwinMoves
<1>13. ASSUME NEW t, Wrote(t) PROVE KnownInv'
    BY <1>13 DEF Wrote, KnownInv
<1>14. CASE \/ \E id \in Ids, text \in Texts : Insert(id, text)
            \/ \E id, to \in Ids, text \in Texts : Merge(id, to, text)
            \/ \E id \in Ids : Prune(id)
    BY <1>13, <1>14 DEF Insert, Merge, Prune
<1>15. CASE Crash
  <2>1. tx' = db /\ pc' = "down" /\ UNCHANGED writes
      BY <1>15 DEF Crash
  <2>2. CASE pc = "dedupe"
    <3>1. tx'.ver = 0
        BY <2>1, <2>2 DEF StageInv
    <3> QED
        BY <2>1, <3>1 DEF KnownInv
  <2>3. CASE pc # "dedupe"
      BY <1>0, <1>1, <2>1, <2>3
  <2> QED
      BY <2>2, <2>3
<1>16. CASE UNCHANGED vars
    BY <1>1, <1>16 DEF vars
<1> QED
    BY <1>2, <1>4, <1>5, <1>6, <1>7, <1>8, <1>9, <1>10, <1>11, <1>12, <1>14, <1>15, <1>16 DEF Next

\* After the upgrade's merges a post on screen is recognised as the one stored: by the
\* hash of its caption (db.py:668-690, 701-719), and, stored undated and without its
\* link, under no second row (db.py:722-766).
THEOREM PostsKnown ==
    ASSUME OldHashes
    PROVE  Spec => []PostsRecognised
<1>1. StageInv /\ KnownInv => PostsRecognised
  <2> SUFFICES ASSUME StageInv, KnownInv, db.ver >= 7, writes = 0 PROVE PostsRecognised
      BY DEF PostsRecognised
  <2>1. db = tx /\ tx.ver \in Nat
      BY DEF StageInv, Table
  <2>2. Hashed(tx) /\ \A p \in Loose(tx) : Alone(tx, p)
      BY <2>1 DEF KnownInv
  <2> QED
      BY <2>1, <2>2, AloneIs DEF PostsRecognised, Hashed, Loose
<1>2. OldHashes
    OBVIOUS
<1> QED
    BY <1>1, <1>2, StageInit, StageStep, KnownInit, KnownStep, PTL DEF Spec
=============================================================================
