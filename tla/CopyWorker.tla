------------------------------- MODULE CopyWorker -------------------------------
(***************************************************************************)
(* The copy-trading worker: processes that run the watcher's cycles one    *)
(* after another, kept apart by an advisory lock of the database, and the  *)
(* row of copy_worker_state in which they report.  The lock belongs to a   *)
(* connection; a process does not notice when that connection is gone.     *)
(***************************************************************************)
EXTENDS NoValue, Integers

CONSTANTS
  Worker,       \* worker processes
  OneShot,      \* those started with --once or a number of loops
  StaleAfter,   \* thirty seconds without a heartbeat, in units of the clock
  Sleep,        \* pause between cycles
  BaseBackoff, MaxBackoff,
  MaxErrors     \* bound: more errors in a row count as this many

ASSUME WorkerConstantsOK ==
  /\ OneShot \subseteq Worker /\ None \notin Worker
  /\ StaleAfter \in Nat /\ Sleep \in Nat
  /\ BaseBackoff \in Nat /\ MaxBackoff \in Nat /\ BaseBackoff <= MaxBackoff
  /\ MaxErrors \in Nat \ {0}

VARIABLES
  holder,    \* whose connection holds the advisory lock
  step,      \* where each process is
  failed,    \* the cycle just run has failed
  errors,    \* consecutive_error_loops
  pause,     \* time a process has left to sleep
  stopping,  \* processes that got a signal
  verdict,   \* final_status
  report,    \* the row: owner and status
  age,       \* time since last_heartbeat_at
  lost       \* history: who lost its lock since some process has been running

workerVars ==
  <<holder, step, failed, errors, pause, stopping, verdict, report, age, lost>>

Steps == {"off", "begun", "top", "cycle", "finish", "pause", "closing", "release"}

WorkerInit ==
  /\ holder = None
  /\ step = [p \in Worker |-> "off"]
  /\ failed = [p \in Worker |-> FALSE]
  /\ errors = [p \in Worker |-> 0]
  /\ pause = [p \in Worker |-> 0]
  /\ stopping = {}
  /\ verdict = [p \in Worker |-> "stopped"]
  /\ report = [owner |-> None, status |-> "idle"]
  /\ age = 0
  /\ lost = {}

Goes(p, where) == step' = [step EXCEPT ![p] = where]
\* The history ends with the last process.
Forgets(p) == lost' = IF \A q \in Worker \ {p} : step[q] = "off" THEN {} ELSE lost
Beats(p, status) == report' = [owner |-> p, status |-> status] /\ age' = 0

\* The back-off doubles with every failed cycle up to its maximum.
Backoff(n) ==
  LET b == BaseBackoff * 2 ^ (IF n = 0 THEN 0 ELSE n - 1)
  IN  IF b <= MaxBackoff THEN b ELSE MaxBackoff

\* _derive_worker_status
DerivedStatus ==
  IF report.status = "idle" THEN "not_started"
  ELSE IF report.status = "running" /\ age > StaleAfter THEN "stale"
  ELSE report.status

-------------------------------------------------------------------------------
(* A process.                                                              *)

\* pg_try_advisory_lock; a process that does not get it reports and exits.
TryLock(p) ==
  /\ step[p] = "off"
  /\ holder = None
  /\ holder' = p
  /\ Goes(p, "begun")
  /\ failed' = [failed EXCEPT ![p] = FALSE]
  /\ errors' = [errors EXCEPT ![p] = 0]
  /\ verdict' = [verdict EXCEPT ![p] = "stopped"]
  /\ stopping' = stopping \ {p}
  /\ UNCHANGED <<pause, report, age, lost>>

MarkStarted(p) ==
  /\ step[p] = "begun"
  /\ Beats(p, "running")
  /\ Goes(p, "top")
  /\ UNCHANGED <<holder, failed, errors, pause, stopping, verdict, lost>>

StartLoop(p) ==
  /\ step[p] = "top" /\ p \notin stopping
  /\ Beats(p, "running")
  /\ Goes(p, "cycle")
  /\ UNCHANGED <<holder, failed, errors, pause, stopping, verdict, lost>>

LeaveLoop(p) ==
  /\ step[p] = "top" /\ p \in stopping
  /\ Goes(p, "closing")
  /\ UNCHANGED <<holder, failed, errors, pause, stopping, verdict, report, age, lost>>

\* watcher.run_once(): executed or not.
EndCycle(p, ok) ==
  /\ step[p] = "cycle"
  /\ failed' = [failed EXCEPT ![p] = ~ok]
  /\ errors' = [errors EXCEPT ![p] =
                  IF ok THEN 0 ELSE IF @ < MaxErrors THEN @ + 1 ELSE @]
  /\ Goes(p, "finish")
  /\ UNCHANGED <<holder, pause, stopping, verdict, report, age, lost>>

\* Mutant: the result is stored without a heartbeat.
FinishLoopSilently(p) ==
  /\ step[p] = "finish"
  /\ report' = [owner |-> p, status |-> "running"]
  /\ IF p \in OneShot \cup stopping
     THEN Goes(p, "closing") /\ UNCHANGED pause
     ELSE /\ Goes(p, "pause")
          /\ pause' = [pause EXCEPT ![p] = IF failed[p] THEN Backoff(errors[p]) ELSE Sleep]
  /\ UNCHANGED <<holder, failed, errors, stopping, verdict, age, lost>>

\* mark_worker_loop_finished, then the loop's exits and its sleep.
FinishLoop(p) ==
  /\ step[p] = "finish"
  /\ Beats(p, "running")
  /\ IF p \in OneShot \cup stopping
     THEN Goes(p, "closing") /\ UNCHANGED pause
     ELSE /\ Goes(p, "pause")
          /\ pause' = [pause EXCEPT ![p] = IF failed[p] THEN Backoff(errors[p]) ELSE Sleep]
  /\ UNCHANGED <<holder, failed, errors, stopping, verdict, lost>>

\* _sleep_until_next_cycle looks for a signal every quarter of a second.
WakeUp(p) ==
  /\ step[p] = "pause"
  /\ pause[p] = 0 \/ p \in stopping
  /\ pause' = [pause EXCEPT ![p] = 0]
  /\ Goes(p, "top")
  /\ UNCHANGED <<holder, failed, errors, stopping, verdict, report, age, lost>>

\* The database refuses a write of the loop: the process ends with an error.
BeatFails(p) ==
  /\ step[p] \in {"begun", "top", "finish"}
  /\ step[p] = "top" => p \notin stopping
  /\ verdict' = [verdict EXCEPT ![p] = "error"]
  /\ Goes(p, "closing")
  /\ UNCHANGED <<holder, failed, errors, pause, stopping, report, age, lost>>

\* mark_worker_stopped
Close(p) ==
  /\ step[p] = "closing"
  /\ Beats(p, verdict[p])
  /\ Goes(p, "release")
  /\ UNCHANGED <<holder, failed, errors, pause, stopping, verdict, lost>>

\* A refused final status is written once more, as an error; then never.
CloseFails(p) ==
  /\ step[p] = "closing"
  /\ Goes(p, IF verdict[p] = "stopped" THEN "closing" ELSE "release")
  /\ verdict' = [verdict EXCEPT ![p] = "error"]
  /\ UNCHANGED <<holder, failed, errors, pause, stopping, report, age, lost>>

\* Mutant: the lock is given back before the final status is written.
ReleaseEarly(p) ==
  /\ step[p] \in {"closing", "release"}
  /\ holder' = IF holder = p THEN None ELSE holder
  /\ IF step[p] = "release" THEN Goes(p, "off") ELSE UNCHANGED step
  /\ Forgets(p)
  /\ UNCHANGED <<failed, errors, pause, stopping, verdict, report, age>>

\* The lock is given back last, whatever happened.
Release(p) ==
  /\ step[p] = "release"
  /\ holder' = IF holder = p THEN None ELSE holder
  /\ Goes(p, "off")
  /\ Forgets(p)
  /\ UNCHANGED <<failed, errors, pause, stopping, verdict, report, age>>

-------------------------------------------------------------------------------
(* What happens to it.                                                     *)

Signal(p) ==
  /\ step[p] # "off" /\ p \notin stopping
  /\ stopping' = stopping \cup {p}
  /\ UNCHANGED <<holder, step, failed, errors, pause, verdict, report, age, lost>>

\* Killed: the connection ends with the process.
Killed(p) ==
  /\ step[p] # "off"
  /\ Goes(p, "off")
  /\ pause' = [pause EXCEPT ![p] = 0]
  /\ holder' = IF holder = p THEN None ELSE holder
  /\ Forgets(p)
  /\ UNCHANGED <<failed, errors, stopping, verdict, report, age>>

\* The lock's idle connection breaks; the process goes on.
ConnectionBreaks(p) ==
  /\ holder = p
  /\ holder' = None
  /\ lost' = lost \cup {p}
  /\ UNCHANGED <<step, failed, errors, pause, stopping, verdict, report, age>>

\* Time passes while processes sleep or run a cycle; the other steps take none.
Tick ==
  /\ \A p \in Worker : step[p] \in {"off", "cycle", "pause"}
  /\ \A p \in Worker : step[p] = "pause" => pause[p] > 0
  /\ age' = IF age <= StaleAfter THEN age + 1 ELSE age
  /\ pause' = [p \in Worker |-> IF pause[p] > 0 THEN pause[p] - 1 ELSE 0]
  /\ UNCHANGED <<holder, step, failed, errors, stopping, verdict, report, lost>>

ProcessStep(p) ==
  \/ MarkStarted(p) \/ StartLoop(p) \/ LeaveLoop(p) \/ FinishLoop(p) \/ WakeUp(p)
  \/ Close(p) \/ Release(p)
  \/ \E ok \in BOOLEAN : EndCycle(p, ok)

WorkerNext ==
  \/ \E p \in Worker : \/ TryLock(p) \/ ProcessStep(p) \/ BeatFails(p) \/ CloseFails(p)
                       \/ Signal(p) \/ Killed(p) \/ ConnectionBreaks(p)
  \/ Tick

WorkerSpec == WorkerInit /\ [][WorkerNext]_workerVars

-------------------------------------------------------------------------------
(* Properties.                                                             *)

\* Every variable holds values of its kind.
WorkerTypeOK ==
  /\ holder \in Worker \cup {None}
  /\ step \in [Worker -> Steps]
  /\ failed \in [Worker -> BOOLEAN]
  /\ errors \in [Worker -> 0 .. MaxErrors]
  /\ pause \in [Worker -> Nat]
  /\ stopping \subseteq Worker
  /\ verdict \in [Worker -> {"stopped", "error"}]
  /\ report \in [owner: Worker \cup {None}, status: {"idle", "running", "stopped", "error"}]
  /\ age \in 0 .. StaleAfter + 1
  /\ lost \subseteq Worker

Up(p) == step[p] # "off"

\* docs/copy-trading-worker.md: the lock avoids two workers at once.  It does unless the
\* connection of one of them broke.
OneWorker == \A p, q \in Worker : Up(p) /\ Up(q) => p = q \/ p \in lost \/ q \in lost

\* The row tells of the worker that is looping: neither a predecessor that is still
\* closing nor one that exited with an error overwrites its status.
ReportIsOfTheLoop ==
  lost = {} =>
    \A p \in Worker : step[p] \in {"cycle", "finish", "pause"} =>
                        report = [owner |-> p, status |-> "running"]

\* A worker that sleeps looks alive as long as its back-off is no longer than the
\* threshold.  (With the code's sixty and thirty seconds it may look stale after.)
SleepersLookAlive ==
  \A p \in Worker :
    /\ lost = {} /\ step[p] = "pause"
    /\ (IF failed[p] THEN Backoff(errors[p]) ELSE Sleep) <= StaleAfter
    => DerivedStatus = "running"
===============================================================================
