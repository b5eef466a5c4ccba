--------------------------- MODULE CopyLoops_proofs ---------------------------
(***************************************************************************)
(* Proofs about what keeps the wallets scanned: the watcher thread of an   *)
(* API process and the worker processes, for any number of them.           *)
(***************************************************************************)
EXTENDS CopyWatcher, CopyWorker, TLAPS

-------------------------------------------------------------------------------
(* The watcher thread.                                                     *)

Inv == TypeOK /\ RunningMeansWork

LEMMA InitInv == Init => Inv
BY ConstantsOK DEF Init, Inv, TypeOK, RunningMeansWork, Thread, LoopPc, CallerPc

\* A thread that moves without touching the flag and was not working, or still is,
\* keeps some thread working.
LEMMA WorkGoesOn ==
  ASSUME Inv, NEW x \in Thread, NEW where,
         pc' = [pc EXCEPT ![x] = where],
         running' = running, raised' = raised,
         x \in Working => where \in {"make", "body"}
  PROVE  RunningMeansWork'
<1>1. \A y \in Thread : pc'[y] = IF y = x THEN where ELSE pc[y]
  BY DEF Inv, TypeOK
<1>2. \A y \in Working : y \in Working'
  BY <1>1 DEF Working
<1>3. QED BY <1>2 DEF Inv, RunningMeansWork

LEMMA StepInv == Inv /\ [Next]_vars => Inv'
<1> SUFFICES ASSUME Inv, [Next]_vars PROVE Inv'
  OBVIOUS
<1> USE ConstantsOK DEF Thread
<1>1. ASSUME NEW c \in Caller, Start(c) PROVE Inv'
  <2>1. PICK l \in Loop : pc[l] = "new" /\ stopEvent' = l /\ thread' = l /\ Goto(l, "check")
    BY <1>1 DEF Start
  <2>2. TypeOK'
    BY <1>1, <2>1 DEF Start, Goto, Inv, TypeOK, LoopPc
  <2>3. RunningMeansWork'
    BY <1>1, <2>1, WorkGoesOn DEF Start, Goto, Working
  <2>4. QED BY <2>2, <2>3 DEF Inv
<1>2. ASSUME NEW c \in Caller, StopBegin(c) \/ StopEnd(c) PROVE Inv'
  <2>1. TypeOK'
    <3>1. CASE StopBegin(c)
      <4>1. /\ pc' = [pc EXCEPT ![c] = "joining"] /\ held' = [held EXCEPT ![c] = thread]
            /\ isSet' = isSet \cup {stopEvent} /\ enabled' = FALSE
            /\ UNCHANGED <<running, thread, stopEvent, raised>>
        BY <3>1 DEF StopBegin, Goto
      <4>2. /\ pc' \in [Thread -> LoopPc \cup CallerPc]
            /\ \A l \in Loop : pc'[l] \in LoopPc
            /\ \A d \in Caller : pc'[d] \in CallerPc
        BY <4>1 DEF Inv, TypeOK, CallerPc
      <4>3. held' \in [Thread -> Loop \cup {None}] /\ isSet' \subseteq Loop \cup {None}
        BY <4>1 DEF Inv, TypeOK
      <4>4. QED BY <4>1, <4>2, <4>3 DEF Inv, TypeOK
    <3>2. CASE StopEnd(c)
      <4>1. /\ pc' = [pc EXCEPT ![c] = "idle"] /\ held' = [held EXCEPT ![c] = None]
            /\ thread' \in {None, thread}
            /\ UNCHANGED <<enabled, running, stopEvent, isSet, raised>>
        BY <3>2 DEF StopEnd, Goto
      <4>2. QED BY <4>1 DEF Inv, TypeOK, CallerPc
    <3>3. QED BY <1>2, <3>1, <3>2
  <2>2. RunningMeansWork'
    BY <1>2, WorkGoesOn DEF StopBegin, StopEnd, Goto, Working
  <2>3. QED BY <2>1, <2>2 DEF Inv
<1>3. ASSUME NEW x \in Thread, BeginRun(x) PROVE Inv'
  <2>1. TypeOK'
    BY <1>3 DEF BeginRun, Goto, Inv, TypeOK, LoopPc, CallerPc
  <2>2. pc'[x] = "make"
    BY <1>3 DEF BeginRun, Goto, Inv, TypeOK
  <2>3. QED BY <2>1, <2>2 DEF Inv, RunningMeansWork, Working
<1>4. ASSUME NEW x \in Thread, MakeClients(x) PROVE Inv'
  <2>1. TypeOK'
    BY <1>4 DEF MakeClients, Goto, Inv, TypeOK, LoopPc, CallerPc
  <2>2. RunningMeansWork'
    BY <1>4, WorkGoesOn DEF MakeClients, Goto
  <2>3. QED BY <2>1, <2>2 DEF Inv
<1>5. ASSUME NEW x \in Thread, FactoryFails(x) \/ EndRun(x) PROVE Inv'
  <2>1. TypeOK'
    <3>1. /\ pc' \in [Thread -> LoopPc \cup CallerPc]
          /\ \A l \in Loop : pc'[l] \in LoopPc
          /\ \A c \in Caller : pc'[c] \in CallerPc
      BY <1>5 DEF FactoryFails, EndRun, Goto, Inv, TypeOK, LoopPc, CallerPc
    <3>2. /\ running' \in BOOLEAN /\ raised' \in BOOLEAN
          /\ UNCHANGED <<enabled, thread, stopEvent, isSet, held>>
      BY <1>5, Zenon DEF FactoryFails, EndRun, Inv, TypeOK
    <3>3. QED BY <3>1, <3>2 DEF Inv, TypeOK
  <2>2. RunningMeansWork'
    BY <1>5 DEF FactoryFails, EndRun, RunningMeansWork
  <2>3. QED BY <2>1, <2>2 DEF Inv
<1>6. ASSUME NEW l \in Loop, LoopStep(l) PROVE Inv'
  <2>1. TypeOK'
    <3>1. /\ pc' \in [Thread -> LoopPc \cup CallerPc]
          /\ \A k \in Loop : pc'[k] \in LoopPc
          /\ \A c \in Caller : pc'[c] \in CallerPc
          /\ held' \in [Thread -> Loop \cup {None}]
      BY <1>6 DEF LoopStep, RunRefused, Check, Wake, Exit, Goto, Inv, TypeOK, LoopPc
    <3>2. /\ running' \in BOOLEAN /\ thread' \in Loop \cup {None}
          /\ stopEvent' \in Loop \cup {None} /\ UNCHANGED <<enabled, isSet, raised>>
      BY <1>6, Zenon DEF LoopStep, RunRefused, Check, Wake, Exit, Inv, TypeOK
    <3>3. QED BY <3>1, <3>2 DEF Inv, TypeOK
  <2>2. CASE Exit(l)
    BY <2>1, <2>2 DEF Exit, Inv, RunningMeansWork
  <2>3. CASE RunRefused(l) \/ Check(l) \/ Wake(l)
    <3>1. RunningMeansWork'
      BY <2>3, WorkGoesOn DEF RunRefused, Check, Wake, Goto, Working
    <3>2. QED BY <2>1, <3>1 DEF Inv
  <2>4. QED BY <1>6, <2>2, <2>3 DEF LoopStep
<1>7. CASE UNCHANGED vars
  BY <1>7 DEF vars, Inv, TypeOK, RunningMeansWork, Working
<1>8. QED BY <1>1, <1>2, <1>3, <1>4, <1>5, <1>6, <1>7 DEF Next, RunStep

\* However starts, pauses, requests and lingering loops interleave, the flag never says
\* that a cycle runs when none does, so cycles are never refused for good.
THEOREM FlagIsHonest == Spec => []RunningMeansWork
<1>1. Inv => RunningMeansWork
  BY DEF Inv
<1>2. QED BY <1>1, InitInv, StepInv, PTL DEF Spec

-------------------------------------------------------------------------------
(* The worker processes.                                                   *)

Looping(p) == step[p] \in {"cycle", "finish", "pause"}

\* What the proofs need of the types.
Placed == step \in [Worker -> Steps] /\ lost \subseteq Worker

HasLockOrLostIt == \A p \in Worker : Up(p) => holder = p \/ p \in lost

LockInv == Placed /\ HasLockOrLostIt

LEMMA LockInit == WorkerInit => LockInv
BY DEF WorkerInit, LockInv, Placed, HasLockOrLostIt, Up, Steps

\* A step that neither starts nor ends a process and leaves the lock alone.
LEMMA LockStays ==
  ASSUME LockInv, Placed', UNCHANGED <<holder, lost>>, \A p \in Worker : Up(p)' => Up(p)
  PROVE  LockInv'
BY DEF LockInv, HasLockOrLostIt

\* A process leaves, and gives the lock back if it has it.
LEMMA LockLeft ==
  ASSUME LockInv, NEW p \in Worker, Goes(p, "off"), Forgets(p),
         holder' = IF holder = p THEN None ELSE holder
  PROVE  LockInv'
<1>1. Placed'
  BY DEF LockInv, Placed, Goes, Forgets, Steps
<1>2. \A q \in Worker : Up(q)' => q # p /\ Up(q)
  BY DEF LockInv, Placed, Goes, Up
<1>3. ASSUME NEW q \in Worker, Up(q)'
      PROVE  (holder = q \/ q \in lost)'
  <2>1. q # p /\ step[q] # "off"
    BY <1>2, <1>3 DEF Up
  <2>2. lost' = lost
    BY <2>1 DEF Forgets
  <2>3. holder = q \/ q \in lost
    BY <2>1 DEF LockInv, HasLockOrLostIt, Up
  <2>4. QED BY <2>1, <2>2, <2>3
<1>4. QED BY <1>1, <1>3 DEF LockInv, HasLockOrLostIt

LEMMA LockNext == LockInv /\ [WorkerNext]_workerVars => LockInv'
<1> SUFFICES ASSUME LockInv, [WorkerNext]_workerVars PROVE LockInv'
  OBVIOUS
<1> USE DEF LockInv, Placed
<1>1. CASE UNCHANGED workerVars
  BY <1>1 DEF workerVars, HasLockOrLostIt, Up
<1>2. CASE Tick
  BY <1>2 DEF Tick, HasLockOrLostIt, Up
<1>3. ASSUME NEW p \in Worker, TryLock(p)
      PROVE  LockInv'
  <2>1. Placed' /\ holder' = p /\ lost' = lost
    BY <1>3 DEF TryLock, Goes, Steps
  <2>2. \A q \in Worker : q # p /\ Up(q)' => q \in lost
    BY <1>3, WorkerConstantsOK DEF TryLock, Goes, HasLockOrLostIt, Up
  <2>3. QED BY <2>1, <2>2 DEF HasLockOrLostIt
<1>4. ASSUME NEW p \in Worker,
             MarkStarted(p) \/ StartLoop(p) \/ LeaveLoop(p) \/ FinishLoop(p) \/ WakeUp(p)
               \/ Close(p) \/ BeatFails(p) \/ CloseFails(p)
               \/ (\E ok \in BOOLEAN : EndCycle(p, ok))
      PROVE  LockInv'
  <2>1. /\ UNCHANGED <<holder, lost>> /\ step[p] # "off"
        /\ \E s \in Steps : step' = [step EXCEPT ![p] = s]
    BY <1>4 DEF MarkStarted, StartLoop, LeaveLoop, FinishLoop, WakeUp, Close, BeatFails,
                CloseFails, EndCycle, Goes, Steps
  <2>2. Placed' /\ \A q \in Worker : Up(q)' => Up(q)
    BY <2>1 DEF Up
  <2>3. QED BY <2>1, <2>2, LockStays
<1>5. ASSUME NEW p \in Worker, Signal(p)
      PROVE  LockInv'
  BY <1>5 DEF Signal, HasLockOrLostIt, Up
<1>6. ASSUME NEW p \in Worker, Release(p) \/ Killed(p)
      PROVE  LockInv'
  BY <1>6, LockLeft DEF Release, Killed
<1>7. ASSUME NEW p \in Worker, ConnectionBreaks(p)
      PROVE  LockInv'
  BY <1>7 DEF ConnectionBreaks, HasLockOrLostIt, Up
<1>8. QED
  BY <1>1, <1>2, <1>3, <1>4, <1>5, <1>6, <1>7 DEF WorkerNext, ProcessStep

LEMMA LockHolds == WorkerSpec => []LockInv
BY LockInit, LockNext, PTL DEF WorkerSpec

LEMMA OneIsUp == LockInv => OneWorker
BY DEF LockInv, HasLockOrLostIt, OneWorker

\* However many processes are started, signalled, killed or cut off, no two that
\* still have their connections are up at once.  (acquire_worker_lock)
THEOREM LockKeepsOneWorker == WorkerSpec => []OneWorker
BY LockHolds, OneIsUp, PTL

-------------------------------------------------------------------------------
(* The row and its heartbeat.                                              *)

Counters ==
  /\ failed \in [Worker -> BOOLEAN] /\ errors \in [Worker -> Nat]
  /\ pause \in [Worker -> Int] /\ age \in Nat

Delay(p) == IF failed[p] THEN Backoff(errors[p]) ELSE Sleep

\* A process sleeps no longer than the threshold leaves it, if its delay allows.
TimeLeft ==
  \A p \in Worker :
    lost = {} /\ step[p] = "pause" /\ Delay(p) <= StaleAfter =>
      age <= StaleAfter /\ age + pause[p] <= StaleAfter

RowInv == LockInv /\ Counters /\ ReportIsOfTheLoop /\ TimeLeft

LEMMA BackoffIsInteger == ASSUME NEW n \in Nat PROVE Backoff(n) \in Int
BY WorkerConstantsOK DEF Backoff

LEMMA RowInit == WorkerInit => RowInv
<1> SUFFICES ASSUME WorkerInit PROVE RowInv
  OBVIOUS
<1>1. LockInv
  BY LockInit
<1>2. Counters
  BY DEF WorkerInit, Counters
<1>3. ReportIsOfTheLoop /\ TimeLeft
  BY DEF WorkerInit, ReportIsOfTheLoop, TimeLeft
<1>4. QED BY <1>1, <1>2, <1>3 DEF RowInv

\* While no lock was lost, a process that is up is alone.
LEMMA Alone ==
  ASSUME LockInv, lost = {}, NEW p \in Worker, Up(p), NEW q \in Worker, Up(q)
  PROVE  p = q
BY DEF LockInv, HasLockOrLostIt

\* A step of p that leaves nobody else looping, and p only with a row of its own.
LEMMA RowOfOne ==
  ASSUME LockInv, LockInv', NEW p \in Worker, Up(p) \/ Up(p)',
         \A q \in Worker \ {p} : step'[q] = step[q],
         lost' = {} => lost = {},
         lost' = {} /\ Looping(p)' =>
           /\ report' = [owner |-> p, status |-> "running"]
           /\ step'[p] = "pause" /\ Delay(p)' <= StaleAfter =>
                age' <= StaleAfter /\ age' + pause'[p] <= StaleAfter
  PROVE  (ReportIsOfTheLoop /\ TimeLeft)'
<1>1. ASSUME lost' = {}, NEW q \in Worker, Looping(q)'
      PROVE  q = p
  <2>1. Up(q)'
    BY <1>1 DEF Looping, Up
  <2>2. CASE Up(p)'
    BY <1>1, <2>1, <2>2 DEF LockInv, HasLockOrLostIt
  <2>3. CASE ~Up(p)' /\ q # p
    BY <1>1, <2>1, <2>3, Alone DEF Up
  <2>4. QED BY <2>2, <2>3, <2>1
<1>2. QED BY <1>1 DEF ReportIsOfTheLoop, TimeLeft, Looping, Delay

LEMMA RowNext == RowInv /\ [WorkerNext]_workerVars => RowInv'
<1> SUFFICES ASSUME RowInv, [WorkerNext]_workerVars PROVE RowInv'
  OBVIOUS
<1>0. LockInv /\ LockInv'
  BY LockNext DEF RowInv
<1> SUFFICES Counters' /\ ReportIsOfTheLoop' /\ TimeLeft'
  BY <1>0 DEF RowInv
<1> USE DEF RowInv, Counters
<1>1. CASE UNCHANGED workerVars
  BY <1>1 DEF workerVars, ReportIsOfTheLoop, TimeLeft, Delay, Backoff
<1>2. CASE Tick
  <2>1. Counters'
    BY <1>2 DEF Tick
  <2>2. ReportIsOfTheLoop'
    BY <1>2 DEF Tick, ReportIsOfTheLoop
  <2>3. ASSUME NEW p \in Worker, lost' = {}, step'[p] = "pause", Delay(p)' <= StaleAfter
        PROVE  age' <= StaleAfter /\ age' + pause'[p] <= StaleAfter
    <3>1. /\ lost = {} /\ step[p] = "pause" /\ pause[p] > 0
          /\ pause'[p] = pause[p] - 1
          /\ age' \in {age, age + 1} /\ Delay(p)' = Delay(p)
      BY <1>2, <2>3 DEF Tick, Delay, Backoff
    <3>2. age + pause[p] <= StaleAfter
      BY <2>3, <3>1 DEF TimeLeft
    <3>3. StaleAfter \in Int
      BY WorkerConstantsOK
    <3>4. QED BY <3>1, <3>2, <3>3
  <2>4. QED BY <2>1, <2>2, <2>3 DEF TimeLeft
<1>3. ASSUME NEW p \in Worker, TryLock(p)
      PROVE  Counters' /\ ReportIsOfTheLoop' /\ TimeLeft'
  <2>1. Counters'
    BY <1>3 DEF TryLock
  <2>2. /\ step' = [step EXCEPT ![p] = "begun"] /\ lost' = lost
        /\ step'[p] = "begun"
    BY <1>0, <1>3 DEF TryLock, Goes, LockInv, Placed
  <2>3. QED BY <1>0, <2>1, <2>2, RowOfOne DEF Up, Looping, LockInv, Placed
<1>4. ASSUME NEW p \in Worker,
             MarkStarted(p) \/ LeaveLoop(p) \/ WakeUp(p) \/ Close(p)
               \/ BeatFails(p) \/ CloseFails(p)
      PROVE  Counters' /\ ReportIsOfTheLoop' /\ TimeLeft'
  <2>1. Counters'
    BY <1>4 DEF MarkStarted, LeaveLoop, WakeUp, Close, BeatFails, CloseFails, Beats
  <2>2. /\ lost' = lost /\ step[p] # "off"
        /\ step'[p] \in {"top", "closing", "release"}
        /\ \A q \in Worker \ {p} : step'[q] = step[q]
    BY <1>0, <1>4 DEF MarkStarted, LeaveLoop, WakeUp, Close, BeatFails, CloseFails, Goes,
                     LockInv, Placed
  <2>3. QED BY <1>0, <2>1, <2>2, RowOfOne DEF Up, Looping
<1>5. ASSUME NEW p \in Worker, StartLoop(p)
      PROVE  Counters' /\ ReportIsOfTheLoop' /\ TimeLeft'
  <2>1. Counters'
    BY <1>5 DEF StartLoop, Beats
  <2>2. /\ lost' = lost /\ step[p] # "off" /\ step'[p] = "cycle"
        /\ report' = [owner |-> p, status |-> "running"]
        /\ \A q \in Worker \ {p} : step'[q] = step[q]
    BY <1>0, <1>5 DEF StartLoop, Goes, Beats, LockInv, Placed
  <2>3. QED BY <1>0, <2>1, <2>2, RowOfOne DEF Up, Looping
<1>6. ASSUME NEW p \in Worker, NEW ok \in BOOLEAN, EndCycle(p, ok)
      PROVE  Counters' /\ ReportIsOfTheLoop' /\ TimeLeft'
  <2>1. Counters'
    BY <1>6, WorkerConstantsOK DEF EndCycle
  <2>2. /\ lost' = lost /\ step[p] = "cycle" /\ step'[p] = "finish" /\ report' = report
        /\ \A q \in Worker \ {p} : step'[q] = step[q]
    BY <1>0, <1>6 DEF EndCycle, Goes, LockInv, Placed
  <2>3. lost' = {} => report' = [owner |-> p, status |-> "running"]
    BY <2>2 DEF ReportIsOfTheLoop
  <2>4. QED BY <1>0, <2>1, <2>2, <2>3, RowOfOne DEF Up, Looping
<1>7. ASSUME NEW p \in Worker, FinishLoop(p)
      PROVE  Counters' /\ ReportIsOfTheLoop' /\ TimeLeft'
  <2>1. Delay(p) \in Int
    BY WorkerConstantsOK, BackoffIsInteger DEF Delay
  <2>2. /\ lost' = lost /\ step[p] = "finish" /\ step'[p] \in {"closing", "pause"}
        /\ report' = [owner |-> p, status |-> "running"] /\ age' = 0
        /\ failed' = failed /\ errors' = errors
        /\ \A q \in Worker \ {p} : step'[q] = step[q]
    BY <1>0, <1>7 DEF FinishLoop, Goes, Beats, LockInv, Placed
  <2>3. /\ pause' \in [Worker -> Int]
        /\ step'[p] = "pause" => pause'[p] = Delay(p)
    BY <1>0, <1>7, <2>1 DEF FinishLoop, Goes, LockInv, Placed, Delay
  <2>4. Counters'
    BY <2>2, <2>3
  <2>5. Delay(p)' = Delay(p)
    BY <2>2 DEF Delay, Backoff
  <2>6. step'[p] = "pause" /\ Delay(p)' <= StaleAfter =>
          age' <= StaleAfter /\ age' + pause'[p] <= StaleAfter
    BY <2>1, <2>2, <2>3, <2>5, WorkerConstantsOK
  <2>7. QED BY <1>0, <2>2, <2>4, <2>6, RowOfOne DEF Up, Looping
<1>8. ASSUME NEW p \in Worker, Signal(p)
      PROVE  Counters' /\ ReportIsOfTheLoop' /\ TimeLeft'
  BY <1>8 DEF Signal, ReportIsOfTheLoop, TimeLeft, Delay, Backoff
<1>9. ASSUME NEW p \in Worker, Release(p) \/ Killed(p)
      PROVE  Counters' /\ ReportIsOfTheLoop' /\ TimeLeft'
  <2>1. Counters'
    BY <1>9 DEF Release, Killed
  <2>2. /\ step[p] # "off" /\ step'[p] = "off" /\ Forgets(p)
        /\ \A q \in Worker \ {p} : step'[q] = step[q]
    BY <1>0, <1>9 DEF Release, Killed, Goes, LockInv, Placed
  <2>3. CASE lost' = {} => lost = {}
    BY <1>0, <2>1, <2>2, <2>3, RowOfOne DEF Up, Looping
  <2>4. CASE ~(lost' = {} => lost = {})
    <3>1. \A q \in Worker : step'[q] = "off"
      BY <2>2, <2>4 DEF Forgets
    <3>2. QED BY <2>1, <3>1 DEF ReportIsOfTheLoop, TimeLeft
  <2>5. QED BY <2>3, <2>4
<1>10. ASSUME NEW p \in Worker, ConnectionBreaks(p)
       PROVE  Counters' /\ ReportIsOfTheLoop' /\ TimeLeft'
  <2>1. Counters' /\ lost' # {}
    BY <1>10 DEF ConnectionBreaks
  <2>2. QED BY <2>1 DEF ReportIsOfTheLoop, TimeLeft
<1>11. QED
  BY <1>1, <1>2, <1>3, <1>4, <1>5, <1>6, <1>7, <1>8, <1>9, <1>10 DEF WorkerNext, ProcessStep

LEMMA RowHolds == WorkerSpec => []RowInv
BY RowInit, RowNext, PTL DEF WorkerSpec

\* The row tells of the process that is looping, neither of one that is closing
\* nor of one that failed.  (mark_worker_loop_started, mark_worker_stopped)
THEOREM RowIsOfTheLoop == WorkerSpec => []ReportIsOfTheLoop
<1>1. RowInv => ReportIsOfTheLoop
  BY DEF RowInv
<1>2. QED BY <1>1, RowHolds, PTL

\* A sleeping worker looks alive, for all delays within the threshold.
\* (build_worker_runtime_read, _derive_worker_status)
THEOREM SleeperIsAlive == WorkerSpec => []SleepersLookAlive
<1>1. ASSUME RowInv, NEW p \in Worker, lost = {}, step[p] = "pause", Delay(p) <= StaleAfter
      PROVE  DerivedStatus = "running"
  <2>1. report.status = "running"
    BY <1>1 DEF RowInv, ReportIsOfTheLoop
  <2>2. age <= StaleAfter /\ age \in Nat /\ StaleAfter \in Nat
    BY <1>1, WorkerConstantsOK DEF RowInv, TimeLeft, Counters
  <2>3. QED BY <2>1, <2>2 DEF DerivedStatus
<1>2. RowInv => SleepersLookAlive
  BY <1>1 DEF SleepersLookAlive, Delay
<1>3. QED BY <1>2, RowHolds, PTL
===============================================================================
