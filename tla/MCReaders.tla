----------------------------- MODULE MCReaders ------------------------------
(* Readers with two processes that record runs, one condition that is not   *)
(* about runs, two accounts, two posts and two stories.                     *)
EXTENDS Readers
=============================================================================
