--------------------------- MODULE MCCronScheduler ---------------------------
(* All the calls are about one job. *)
EXTENDS CronScheduler

CONSTANTS a, b, j1, c1, c2, t1

OneJob == [c \in Calls |-> j1]
=============================================================================
