------------------------------- MODULE MCRoutines -------------------------------
(***************************************************************************)
(* Small instances of copy-trading's other routines: the rotation of the   *)
(* wallets in the watcher's cycles, the worker and its lease, the analysis *)
(* job of one runner.  They share no state, so one run checks them side by *)
(* side: part names the one that moves, the others keep their initial      *)
(* state.                                                                  *)
(***************************************************************************)
EXTENDS WatchCycle, CopyWorker, AnalysisRunner

CONSTANTS j1, j2, j3

VARIABLE part

\* The market's wallets trade places from one discovery to the next.
ChangingRankings == {<<j1, j2, j3>>, <<j3, j1>>, <<j2, j3, j1>>}

allVars == <<part, cycleVars, workerVars, vars>>

RoutinesInit ==
  /\ part \in {"cycle", "worker", "job"}
  /\ CycleInit /\ WorkerInit /\ Init
  \* A part that rests needs one initial state only.
  /\ part = "cycle" \/ scanned = [w \in Followed |-> 0]
  /\ part = "job" \/ ~row.resolved

RoutinesNext ==
  /\ UNCHANGED part
  /\ IF part = "cycle" THEN CycleNext ELSE UNCHANGED cycleVars
  /\ IF part = "worker" THEN WorkerNext ELSE UNCHANGED workerVars
  /\ IF part = "job" THEN Next ELSE UNCHANGED vars

\* With the fairness of the part that moves.
RoutinesSpec ==
  /\ RoutinesInit /\ [][RoutinesNext]_allVars
  /\ WF_cycleVars(part = "cycle" /\ CycleNext)
  /\ \A r \in Runner : SF_vars(part = "job" /\ Step(r))

CyclesRotate == part = "cycle" => WalletsRotate
===============================================================================
