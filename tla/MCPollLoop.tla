----------------------------- MODULE MCPollLoop -----------------------------
(* PollLoop on small instances: one tick stands for two to four hours, so a *)
(* day, a poll interval and a retry delay stay apart.                       *)
EXTENDS PollLoop

MCRetryDelays == <<1>>
=============================================================================
