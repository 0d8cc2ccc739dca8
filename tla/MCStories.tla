----------------------------- MODULE MCStories -----------------------------
(* Stories on frames of which a and b are captures of one story, b and c are *)
(* as close as two accounts' frames of one post may be not, d only reshares  *)
(* a post and e is black.                                                    *)
EXTENDS Stories

MCHash == [f \in Frames |-> CASE f = "a" -> 0 [] f = "b" -> 1 [] f = "c" -> 3
                             [] f = "d" -> 9 [] f = "e" -> 20]
MCShared == [f \in Frames |-> IF f \in {"c", "d"} THEN "p" ELSE None]
=============================================================================
