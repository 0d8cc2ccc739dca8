---------------------------- MODULE MCPostStore ----------------------------
(* PostStore on two posts of one account.  Post "a" shows collapsed, expanded *)
(* or, in the runs that ask for it, before its caption has rendered; post "b" *)
(* shows one way, and was posted at another time.                             *)
EXTENDS PostStore

MCPostOf == [f \in Forms |-> IF f = "b" THEN "pb" ELSE "pa"]
MCUserOf == [f \in Forms |-> IF f = "b" THEN "v" ELSE "u"]
MCKey    == [f \in Forms |-> CASE f = "a_short" -> "h1" [] f = "a_full" -> "h2"
                              [] f = "a_bare" -> "h3" [] f = "b" -> "h4"]
MCText   == [f \in Forms |-> CASE f = "a_bare" -> "weak" [] f = "a_short" -> "short"
                              [] f = "a_full" -> "long" [] f = "b" -> "other"]
MCExpanded == [f \in Forms |-> IF f = "a_short" THEN "a_full" ELSE f]
MCTelling == {"long", "other"}
MCCode   == [p \in {"pa", "pb"} |-> IF p = "pa" THEN "ca" ELSE "cb"]
MCSlot   == [p \in {"pa", "pb"} |-> IF p = "pa" THEN "t1" ELSE "t2"]
=============================================================================
