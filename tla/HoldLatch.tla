------------------------------ MODULE HoldLatch ------------------------------
(***************************************************************************)
(* What the needs-human hold promises, without saying how: runs happen one *)
(* at a time; one that ends needing a person latches the scraper; while it *)
(* is latched none starts; only a person releases it.  A run whose process *)
(* dies ends without deciding anything.  Implemented by PollLoop.          *)
(***************************************************************************)
VARIABLES latched, running

vars == <<latched, running>>

Init == latched = FALSE /\ running = FALSE

Start   == ~running /\ ~latched /\ running' = TRUE /\ UNCHANGED latched
End     == running /\ running' = FALSE /\ latched' \in {latched, TRUE}
Die     == running /\ running' = FALSE /\ UNCHANGED latched
Release == latched /\ latched' = FALSE /\ UNCHANGED running

Next == Start \/ End \/ Die \/ Release

Spec == Init /\ [][Next]_vars
=============================================================================
