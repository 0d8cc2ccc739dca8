----------------------------- MODULE MCAccounts -----------------------------
(* Accounts with an account that may rename itself twice and one that does    *)
(* not, and a post of each; both may head a post the instance shares.         *)
EXTENDS Accounts

CONSTANT SharedPosts

MCFirstName == [a \in Accounts |-> IF a = "x" THEN "x1" ELSE "y1"]
MCHeads == [p \in Posts |-> IF p \in SharedPosts THEN Accounts
                            ELSE IF p = "px" THEN {"x"} ELSE {"y"}]
=============================================================================
