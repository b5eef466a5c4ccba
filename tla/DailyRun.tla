------------------------------ MODULE DailyRun ------------------------------
(***************************************************************************)
(* The daily run of the market pipeline and what the API tells about it.   *)
(*                                                                         *)
(* scripts/run_market_pipeline.ps1 starts one child script per step, in    *)
(* order.  A child writes its summary file when it ends; the master reads  *)
(* that file back to learn how the step went, decides from it whether the  *)
(* later steps may run, and at the end records the whole run twice: under  *)
(* the name of the run, and as the latest one.  The status endpoints of    *)
(* app/services/operational_status.py read only these files.               *)
(*                                                                         *)
(* A child that dies before it writes leaves the file of an earlier run    *)
(* where the master looks ("unwritten" below).  The timestamped and the    *)
(* latest file of one child are written together here; of the master they  *)
(* are two steps.  Of the age of a file only "stale" (more than six hours) *)
(* changes what the API says, so a file is stale or it is not.             *)
(***************************************************************************)
EXTENDS NoValue, Naturals, Sequences, SequencesExt, FiniteSets, FiniteSetsExt

CONSTANTS Results,       \* Results[c]: how the child of step c may end
          MaxDailyRuns,  \* bound: runs started
          Windows        \* the window sizes asked of the history

Stages == {"snapshots", "evidence", "scoring"}
Outputs == {"reports", "briefing", "diff", "dashboard"}
Steps == Stages \cup Outputs
StepOrder == <<"snapshots", "evidence", "scoring",
               "reports", "briefing", "diff", "dashboard">>
Watched == (Steps \ {"dashboard"}) \cup {"pipeline"}
Critical == {"pipeline"} \cup Stages

ASSUME DailyConstantsOK ==
  /\ MaxDailyRuns \in Nat /\ Windows \subseteq Nat \ {0}
  /\ Results \in [Steps -> SUBSET {"ok", "warning", "error", "unwritten"}]

VARIABLES
  started,   \* number of runs started; the last one is the current run
  current,   \* the steps the master has behind it, or None between runs
  skipping,  \* the master was started with -SkipReports
  artifacts, \* the latest summary of each step
  dailyRuns,      \* the recorded runs, newest first
  latest     \* the summary of the latest run

dailyVars == <<started, current, skipping, artifacts, dailyRuns, latest>>

Worst(statuses) ==
  IF "error" \in statuses THEN "error"
  ELSE IF "warning" \in statuses THEN "warning" ELSE "ok"

StatusesOf(steps, done) == {done[c].status : c \in steps}

\* The status of the run as a whole: only the stages make it an error.
RunStatus(done) ==
  LET stages == Worst(StatusesOf(Stages, done))
      outputs == Worst(StatusesOf(Outputs, done))
  IN IF stages = "error" THEN "error" ELSE IF outputs # "ok" THEN "warning" ELSE stages

-----------------------------------------------------------------------------
(* What the status endpoint says of the files as they are.                 *)

Health(there, status, suspect) ==
  IF ~there THEN "missing"
  ELSE IF status = "error" THEN "error"
  ELSE IF status = "warning" \/ suspect THEN "warning" ELSE "ok"

FileHealth(file, warned) ==
  IF file = None THEN "missing" ELSE Health(TRUE, file.status, file.stale \/ warned)

\* Mutant: what is not critical counts only when it fails.
OverallOfCritical(health) ==
  LET all == {health[c] : c \in DOMAIN health} IN
  IF all = {"missing"} THEN "missing"
  ELSE IF "error" \in all THEN "error"
  ELSE IF \E c \in Critical : health[c] = "missing" THEN "missing"
  ELSE IF \E c \in Critical : health[c] = "warning" THEN "warning" ELSE "ok"

Overall(health) ==
  LET all == {health[c] : c \in DOMAIN health} IN
  IF all = {"missing"} THEN "missing"
  ELSE IF "error" \in all THEN "error"
  ELSE IF \E c \in Critical : health[c] = "missing" THEN "missing"
  ELSE IF all \cap {"warning", "missing"} # {} THEN "warning" ELSE "ok"

\* The newest file of each kind, as its reader finds it.
PipelineFile == latest
StageFile(c) == artifacts[c]
ReportFile == artifacts["reports"]
BriefingFile == artifacts["briefing"]
DiffFile == artifacts["diff"]

PipelineHealth == FileHealth(PipelineFile, FALSE)
StageHealth(c) == FileHealth(StageFile(c), FALSE)
ReportHealth == FileHealth(ReportFile, FALSE)
BriefingHealth == FileHealth(BriefingFile, FALSE)

\* Mutant: the status does not ask whether the diff compared anything.
DiffHealthUnasked == FileHealth(DiffFile, FALSE)

\* A diff that had nothing to compare with is a warning.
DiffHealth == FileHealth(DiffFile, DiffFile # None /\ ~DiffFile.ready)

OperationalStatus ==
  Overall([c \in Watched |-> CASE c = "pipeline" -> PipelineHealth
                               [] c \in Stages -> StageHealth(c)
                               [] c = "reports" -> ReportHealth
                               [] c = "briefing" -> BriefingHealth
                               [] c = "diff" -> DiffHealth])

-----------------------------------------------------------------------------
(* The history: one item for each recorded run.                            *)

RunHealth(r) ==
  [c \in Watched |-> IF c = "pipeline" THEN Health(TRUE, r.status, FALSE)
                     ELSE Health(TRUE, r.steps[c].status, c = "diff" /\ ~r.steps[c].ready)]

ItemStatus(r) == Overall(RunHealth(r))

ListedRuns == dailyRuns

\* The positions that both filters of the endpoints leave; None stands for a
\* filter not given.
Items(status, component) ==
  {i \in DOMAIN ListedRuns : /\ status \in {None, ItemStatus(ListedRuns[i])}
                             /\ component = None \/ RunHealth(ListedRuns[i])[component] # "ok"}

NewerThan(items, i) == Cardinality({j \in items : j < i})
CurrentWindow(items, n) == {i \in items : NewerThan(items, i) < n}
PreviousWindow(items, n) == {i \in items : NewerThan(items, i) \in n .. 2 * n - 1}

Severe(window) == Cardinality({i \in window : ItemStatus(ListedRuns[i]) \in {"error", "missing"}})
NotOk(window) == Cardinality({i \in window : ItemStatus(ListedRuns[i]) # "ok"})
NotOkOf(c, window) == Cardinality({i \in window : RunHealth(ListedRuns[i])[c] # "ok"})

\* Mutant: any earlier run is enough of a window to compare with.
ReadyWithAny(items, n) == Cardinality(items) > n

ComparisonReady(items, n) ==
  /\ Cardinality(CurrentWindow(items, n)) = n
  /\ Cardinality(PreviousWindow(items, n)) = n

Trend(now, before) ==
  IF now < before THEN "improved" ELSE IF now > before THEN "degraded" ELSE "stable"

CompareSummary(items, n) ==
  LET now == CurrentWindow(items, n)
      before == PreviousWindow(items, n)
      bySeverity == Trend(Severe(now), Severe(before))
  IN IF ~ComparisonReady(items, n) THEN "insufficient_history"
     ELSE IF bySeverity # "stable" THEN bySeverity
     ELSE Trend(NotOk(now), NotOk(before))

ComponentTrend(c, items, n) ==
  IF ~ComparisonReady(items, n) THEN "insufficient_history"
  ELSE Trend(NotOkOf(c, CurrentWindow(items, n)), NotOkOf(c, PreviousWindow(items, n)))

\* The summary of one window: its trend, and the components that were worst.
MostProblematic(window) ==
  {c \in Watched : /\ NotOkOf(c, window) > 0
                   /\ \A d \in Watched : NotOkOf(d, window) <= NotOkOf(c, window)}

AttentionFrom(window) == Max({2, (Cardinality(window) + 1) \div 2})

SummaryTrend(window) ==
  IF window = {} THEN "no_data"
  ELSE IF NotOk(window) = 0 THEN "stable"
  ELSE IF Severe(window) > 0 \/ \E c \in Watched : NotOkOf(c, window) >= AttentionFrom(window)
       THEN "attention_needed" ELSE "degraded"

-----------------------------------------------------------------------------
(* The master script.                                                      *)

File(run, status, ready) == [run |-> run, status |-> status, ready |-> ready, stale |-> FALSE]
Entry(status, ready) == [status |-> status, ready |-> ready]

DailyInit ==
  /\ started = 0 /\ current = None /\ skipping = FALSE
  /\ artifacts = [c \in Steps |-> None]
  /\ dailyRuns = <<>> /\ latest = None

StartRun ==
  /\ current = None /\ started < MaxDailyRuns
  /\ started' = started + 1
  /\ current' = <<>>
  /\ skipping' \in BOOLEAN
  /\ UNCHANGED <<artifacts, dailyRuns, latest>>

NextStep(c) ==
  /\ current # None
  /\ c \notin DOMAIN current
  /\ \E i \in DOMAIN StepOrder :
       StepOrder[i] = c /\ \A j \in 1 .. i - 1 : StepOrder[j] \in DOMAIN current

Needs == [reports |-> {}, briefing |-> {"reports"}, diff |-> {"briefing"},
          dashboard |-> {"reports", "briefing"}]

\* Mutant: the outputs do not wait for the stages.
MayRunAnyway(c) ==
  c \in Outputs => /\ c = "reports" => ~skipping
                   /\ \A d \in Needs[c] : current[d].status = "ok"

MayRun(c) ==
  c \in Outputs => /\ "error" \notin StatusesOf(Stages, current)
                   /\ c = "reports" => ~skipping
                   /\ \A d \in Needs[c] : current[d].status = "ok"

Behind(c, entry) ==
  current' = [d \in DOMAIN current \cup {c} |-> IF d = c THEN entry ELSE current[d]]

\* The child of step c ends having written its summary.  A diff has something
\* to compare with only if a diff was made before.
RunStep(c) ==
  /\ NextStep(c) /\ MayRun(c)
  /\ \E status \in Results[c] \ {"unwritten"} :
     \E ready \in IF c # "diff" THEN {TRUE}
                  ELSE {FALSE} \cup {TRUE : f \in {artifacts[c]} \ {None}} :
       /\ artifacts' = [artifacts EXCEPT ![c] = File(started, status, ready)]
       /\ Behind(c, Entry(status, ready))
  /\ UNCHANGED <<started, skipping, dailyRuns, latest>>

\* The child dies first: the master reads the summary it finds, if any.
LoseStep(c) ==
  /\ NextStep(c) /\ MayRun(c)
  /\ "unwritten" \in Results[c]
  /\ Behind(c, IF artifacts[c] = None THEN Entry("error", TRUE)
               ELSE Entry(artifacts[c].status, artifacts[c].ready))
  /\ UNCHANGED <<started, skipping, artifacts, dailyRuns, latest>>

SkipStep(c) ==
  /\ NextStep(c) /\ ~MayRun(c)
  /\ Behind(c, Entry("skipped", TRUE))
  /\ UNCHANGED <<started, skipping, artifacts, dailyRuns, latest>>

RunLogged == dailyRuns # <<>> /\ Head(dailyRuns).id = started

\* The two files of the master: first the one of the run ...
RecordRun ==
  /\ current # None /\ DOMAIN current = Steps /\ ~RunLogged
  /\ dailyRuns' = <<[id |-> started, status |-> RunStatus(current), steps |-> current]>> \o dailyRuns
  /\ UNCHANGED <<started, current, skipping, artifacts, latest>>

\* ... then the latest summary.
PublishRun ==
  /\ current # None /\ RunLogged
  /\ latest' = File(started, Head(dailyRuns).status, TRUE)
  /\ current' = None /\ skipping' = FALSE
  /\ UNCHANGED <<started, artifacts, dailyRuns>>

\* The master dies, or the machine does.
Interrupted ==
  /\ current # None
  /\ current' = None /\ skipping' = FALSE
  /\ UNCHANGED <<started, artifacts, dailyRuns, latest>>

Older(file) == IF file = None THEN None ELSE [file EXCEPT !.stale = TRUE]

\* More than six hours pass without a run.
HoursPass ==
  /\ current = None
  /\ artifacts' = [c \in Steps |-> Older(artifacts[c])]
  /\ latest' = Older(latest)
  /\ UNCHANGED <<started, current, skipping, dailyRuns>>

DailyNext ==
  \/ StartRun \/ RecordRun \/ PublishRun \/ Interrupted \/ HoursPass
  \/ \E c \in Steps : RunStep(c) \/ LoseStep(c) \/ SkipStep(c)

DailySpec == DailyInit /\ [][DailyNext]_dailyVars

-----------------------------------------------------------------------------
EntryType == [status : {"ok", "warning", "error", "skipped"}, ready : BOOLEAN]
FileType == [run : 1 .. MaxDailyRuns, status : {"ok", "warning", "error"},
             ready : BOOLEAN, stale : BOOLEAN]

\* Types of the files and of the run in progress.
DailyTypeOK ==
  /\ started \in 0 .. MaxDailyRuns /\ skipping \in BOOLEAN
  /\ current # None => /\ DOMAIN current \subseteq Steps
                       /\ \A c \in DOMAIN current : current[c] \in EntryType
  /\ artifacts \in [Steps -> FileType \cup {None}]
  /\ latest \in FileType \cup {None}
  /\ \A i \in DOMAIN dailyRuns : dailyRuns[i].steps \in [Steps -> EntryType]

\* A run that is recorded as failed has published nothing: no report, briefing,
\* diff or dashboard on disk is its work, whatever was lost or interrupted on
\* the way (apps/api/README.md promises it for scripts/run_market_pipeline.ps1).
FailedRunPublishesNothing ==
  \A i \in DOMAIN dailyRuns : dailyRuns[i].status = "error" =>
    \A c \in Outputs : artifacts[c] # None => artifacts[c].run # dailyRuns[i].id

Rank(status) == IF status = "ok" THEN 0 ELSE IF status = "warning" THEN 1 ELSE 2

\* Behind a trend are two runs that show it, the new one in the current window.
Shown(trend, now, before, rank) ==
  /\ trend = "degraded" => \E i \in now, j \in before : rank[i] > rank[j]
  /\ trend = "improved" => \E i \in now, j \in before : rank[i] < rank[j]

\* The comparison of two windows of the history never reports a change that no
\* pair of their runs shows: behind every "degraded" is a run of the current
\* window worse than an older one, and behind every "improved" one that is
\* better; the same for the trend of each component.  It is about the windows,
\* filters and counts of build_operational_status_history_compare.
TrendsAreEarned ==
  \A n \in Windows, s \in {None, "warning"}, f \in {None, "diff"} :
    LET items == Items(s, f)
        now == CurrentWindow(items, n)
        rank == [i \in items |-> Rank(ItemStatus(ListedRuns[i]))]
        rankOf(c) == [i \in items |-> IF RunHealth(ListedRuns[i])[c] = "ok" THEN 0 ELSE 1]
    IN /\ Shown(CompareSummary(items, n), now, items \ now, rank)
       /\ \A c \in Watched : Shown(ComponentTrend(c, items, n), now, items \ now, rankOf(c))

\* A summary of the history that is not calm names a component to look at, and a
\* calm one names none: the trend is decided by the overall statuses of the runs, the
\* names by counts for each component.  The component a reader asked about is among
\* the names (build_operational_status_history_summary).
TroubleHasAName ==
  \A n \in Windows, s \in {None, "warning"}, f \in {None, "diff"} :
    LET window == CurrentWindow(Items(s, f), n)
    IN  /\ SummaryTrend(window) \in {"no_data", "stable"} <=> MostProblematic(window) = {}
        /\ f # None /\ window # {} => f \in MostProblematic(window)

\* The two accounts of a run agree: as long as the files are all of the latest
\* run and recent, the status endpoint (_derive_health_status over the files) and
\* the newest item of the history (_derive_history_component_health over the
\* recorded steps) give the same overall status.
StatusAgreesWithHistory ==
  /\ latest # None /\ dailyRuns # <<>> /\ current = None
  /\ \A f \in {artifacts[c] : c \in Steps} \cup {latest} :
       f # None /\ f.run = Head(dailyRuns).id /\ ~f.stale
  => OperationalStatus = ItemStatus(Head(dailyRuns))
=============================================================================
