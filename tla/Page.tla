-------------------------------- MODULE Page --------------------------------
(***************************************************************************)
(* The tab of a browser: run (Solver) and then, when the captured request  *)
(* was re-issued with fetch and its answer written into the same page, the *)
(* clock and the wrapped fetch that run leaves behind (SolverClock).       *)
(*                                                                         *)
(* The clock depends on nothing run did but the reply that anchored it, so *)
(* it is followed after the shortest run, until its request is done.       *)
(***************************************************************************)
EXTENDS Solver, SolverClock

pageVars == <<vars, clockVars>>

\* The page that the shortest run leaves behind.
Living ==
  /\ pc = "landed" /\ replays = 1 /\ row = 1 /\ marker = 1 /\ ~STOPPED
  /\ i = 0 /\ k = 0 /\ ~expired /\ confirmed

\* The wrapped fetch has returned to the page, which goes on as it likes.
Returned == request.at = "done" /\ UNCHANGED pageVars

PageInit == Init /\ ClockInit

PageNext ==
  \/ request = NoRequest /\ Next /\ UNCHANGED clockVars
  \/ Living /\ ClockNext /\ UNCHANGED vars
  \/ Returned

PageSafety == PageInit /\ [][PageNext]_pageVars

(***************************************************************************)
(* Every await of run ends: a request has a deadline of ten seconds, the   *)
(* workers a watchdog, a batch a fixed number of hashes; and the clock     *)
(* that the solver anchors to the server goes on.                          *)
(***************************************************************************)
PageSpec ==
  PageSafety
  /\ WF_pageVars(Steps /\ UNCHANGED clockVars)
  /\ WF_pageVars(ChallengeExpires /\ UNCHANGED clockVars)

=============================================================================
