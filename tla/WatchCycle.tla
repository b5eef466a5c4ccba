------------------------------ MODULE WatchCycle ------------------------------
(***************************************************************************)
(* Which wallets a cycle of the demo watcher scans: _run_cycle orders the  *)
(* eligible wallets, leaves tired ones for later and stops when its time   *)
(* is used up.  What it remembers of a wallet (WalletWatchHealth) is in    *)
(* memory and only the running cycle writes it.  What a scan writes is     *)
(* CopyEngine's matter.                                                    *)
(***************************************************************************)
EXTENDS Naturals, FiniteSets, Sequences, SequencesExt, FiniteSetsExt

CONSTANTS
  Followed,      \* the enabled demo wallets
  FocusFloor,    \* 4 in the code
  FocusCap,      \* 6 in the code
  MaxStreak      \* bound: a longer streak counts as this long

ASSUME CycleConstantsOK ==
  /\ IsFiniteSet(Followed) /\ Followed # {}
  /\ FocusFloor \in Nat \ {0} /\ FocusCap \in Nat \ {0} /\ MaxStreak \in Nat \ {0}

VARIABLES
  line,     \* wallets of the running cycle still to be looked at, <<>> between cycles
  done,     \* wallets this cycle, or the last one, has scanned
  recent,   \* wallets with a trade in the half hour before the cycle
  health,   \* _wallet_health
  scanned   \* last scan of each wallet: a rank, 0 for never

cycleVars == <<line, done, recent, health, scanned>>

Skips == {"skipped_budget", "skipped_priority"}
Scans == {"scanned_ok", "slow", "timeout", "error"}
Fresh == [status |-> "scanned_ok", timeouts |-> 0, budget |-> 0, priority |-> 0]

-------------------------------------------------------------------------------
(* Priorities.                                                             *)

Tired(w) == health[w].timeouts >= 2
Passed(w) == health[w].status \in Skips
Unlucky(w) == health[w].status \in {"timeout", "error"}

High(w) == w \in recent /\ ~Tired(w)
Low(w) == Tired(w) \/ (Unlucky(w) /\ w \notin recent)

\* Mutant: wallets passed over in the last cycle are put last.
BucketPassedLast(w) ==
  IF High(w) THEN 0 ELSE IF Low(w) \/ Passed(w) THEN 3 ELSE 2

\* _priority_for_wallet and _scheduling_bucket.
Bucket(w) ==
  IF High(w) THEN 0 ELSE IF Passed(w) /\ ~Tired(w) THEN 1 ELSE IF Low(w) THEN 3 ELSE 2

Boost(w) == health[w].budget + health[w].priority

\* The sort key up to the last scan; what breaks further ties is left open.
Before(v, w) ==
  \/ Bucket(v) < Bucket(w)
  \/ Bucket(v) = Bucket(w) /\ Boost(v) > Boost(w)
  \/ Bucket(v) = Bucket(w) /\ Boost(v) = Boost(w) /\ scanned[v] < scanned[w]

InOrder(s) == \A i, j \in DOMAIN s : i < j => ~Before(s[j], s[i])

FocusTarget ==
  LET n == Min({FocusCap, Cardinality(Followed)})
  IN  Max({FocusFloor, n})

\* _should_defer_for_priority; a wallet passed over once is not deferred again.
Deferred(w) ==
  /\ Low(w) /\ ~Passed(w)
  /\ Cardinality(done) >= FocusTarget

-------------------------------------------------------------------------------
(* _update_wallet_health.                                                  *)

Longer(n) == Min({n + 1, MaxStreak})

HealthAfter(h, status) ==
  [status   |-> status,
   timeouts |-> IF status \in {"scanned_ok", "slow"} THEN 0
                ELSE IF status = "timeout" THEN Min({h.timeouts + 1, 2}) ELSE h.timeouts,
   budget   |-> IF status = "skipped_budget" THEN Longer(h.budget) ELSE 0,
   priority |-> IF status = "skipped_priority" THEN Longer(h.priority)
                ELSE IF status = "skipped_budget" THEN h.priority ELSE 0]

-------------------------------------------------------------------------------
(* The cycle.                                                              *)

\* Only the order of the scan times matters: ranks without gaps stand for them.
Ranked(f) ==
  [w \in Followed |->
     IF f[w] = 0 THEN 0
     ELSE 1 + Cardinality({f[v] : v \in Followed} \cap 1 .. (f[w] - 1))]

Newest == Cardinality(Followed) + 1

\* A process starts with what the wallets' rows say of their last scans.
CycleInit ==
  /\ line = <<>> /\ done = {} /\ recent = {}
  /\ health = [w \in Followed |-> Fresh]
  /\ scanned \in {Ranked(f) : f \in [Followed -> 0 .. Cardinality(Followed)]}

\* Wallets are loaded and sorted once; whoever traded lately is busy for this cycle.
StartCycle ==
  /\ line = <<>>
  /\ recent' \in SUBSET Followed
  /\ done' = {}
  /\ scanned' = Ranked(scanned)
  /\ UNCHANGED health
  /\ line' \in SetToSeqs(Followed)
  /\ InOrder(line)'

ScanNext(status) ==
  /\ line # <<>>
  /\ ~Deferred(Head(line))
  /\ status \in Scans
  /\ line' = Tail(line)
  /\ done' = done \cup {Head(line)}
  /\ health' = [health EXCEPT ![Head(line)] = HealthAfter(@, status)]
  /\ scanned' = [scanned EXCEPT ![Head(line)] = Newest]
  /\ UNCHANGED recent

DeferNext ==
  /\ line # <<>>
  /\ Deferred(Head(line))
  /\ line' = Tail(line)
  /\ health' = [health EXCEPT ![Head(line)] = HealthAfter(@, "skipped_priority")]
  /\ UNCHANGED <<done, recent, scanned>>

\* The time is used up: never before a wallet was scanned, since only scans take time.
CutCycle ==
  /\ line # <<>>
  /\ ~Deferred(Head(line))
  /\ done # {}
  /\ health' = [w \in Followed |->
                  IF w \notin {line[i] : i \in DOMAIN line} THEN health[w]
                  ELSE HealthAfter(health[w], IF Deferred(w) THEN "skipped_priority"
                                              ELSE "skipped_budget")]
  /\ line' = <<>>
  /\ UNCHANGED <<done, recent, scanned>>

WalkStep == DeferNext \/ CutCycle \/ \E s \in Scans : ScanNext(s)
CycleNext == StartCycle \/ WalkStep
CycleSpec == CycleInit /\ [][CycleNext]_cycleVars
-------------------------------------------------------------------------------
(* Properties.                                                             *)

\* Every variable holds values of its kind.
CycleTypeOK ==
  /\ line \in Seq(Followed)
  /\ done \subseteq Followed /\ recent \subseteq Followed
  /\ health \in [Followed -> [status: Scans \cup Skips, timeouts: 0 .. 2,
                              budget: 0 .. MaxStreak, priority: 0 .. MaxStreak]]
  /\ scanned \in [Followed -> 0 .. Newest]

\* docs/copy-trading-plan.md promises rotation: a wallet that does not time out again and
\* again is scanned for ever, however small the budget, while no other wallet is busy.
WalletsRotate ==
  \A w \in Followed :
    <>[](health[w].timeouts < 2 /\ recent \subseteq {w}) => []<>(w \in done)
===============================================================================
