----------------------------- MODULE MCUpgrade -----------------------------
(* Upgrade of three posts, dated, linked and pictured in every combination,  *)
(* from a database of the first version or of the fifth.                     *)
EXTENDS Upgrade

File(p) == <<p, "cover">>
Start0 == [text : {"x", Weak}, raw : {None, "t"}, slot : {None}, linked : BOOLEAN,
           recent : {TRUE}, cover : {None}, hash : {<<"x", "old">>}, alt : {None}]
Start5 == [text : {"x"}, raw : {None}, slot : {None, "t"}, linked : BOOLEAN,
           recent : {TRUE}, cover : {None}, hash : {"x"} \X {"short", "full"}, alt : {None}]

\* Posts given their own covers or, those of `bare`, none; those of `late` were scraped
\* before RETAIN_DAYS back.
Covered(f, bare, late) ==
    [p \in DOMAIN f |-> [f[p] EXCEPT !.cover = IF p \in bare THEN None ELSE File(p),
                                     !.recent = p \notin late]]
Databases(start, v) ==
    {[ver |-> v, posts |-> Covered(f, bare, late), media |-> [p \in slid |-> <<p, "slide">>]] :
        f \in [{"1", "2", "3"} -> start], bare \in {{}, {"1"}, {"2"}},
        late \in {{}, {"2"}},
        slid \in {{}, {"1"}, {"2", "3"}}}
MCOld == {old \in Databases(Start0, 0) \cup Databases(Start5, 5) :
            \A p \in DOMAIN old.media : old.posts[p].cover # None}
==============================================================================
