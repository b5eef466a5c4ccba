----------------------------- MODULE SoccerRefresh -----------------------------
(***************************************************************************)
(* The supervised refresh of the soccer slate: import, snapshots from the  *)
(* feed's own prices, scoring, each committed before the next.  A dry run  *)
(* goes the same way and rolls every stage back; its report is what the    *)
(* operator decides on.  Beside it the two read-only reports on the        *)
(* markets already held: the refresh plan and the health inspection.       *)
(* Time is counted in units of six hours, the least an import leaves       *)
(* before a market closes.                                                 *)
(***************************************************************************)
EXTENDS NoValue, Integers, FiniteSets, FiniteSetsExt

CONSTANTS
  Slate,      \* soccer markets of the feed: numbers, in the order it lists them
  MatchOf,    \* the game of each: numbers, the most traded first
  Draws,      \* those on a draw; the others are on a winner
  ClosesAt,
  EventCap, ImportCap, SnapshotCap, ScoringLimit,
  DaysAhead,  \* --days
  OldAfter,   \* --stale-hours
  LastHour,
  MaxChanges  \* bound: what happens outside the command

SnapshotRow == [at : Nat, priced : BOOLEAN]
\* What a run reports of its stages.
Report == [imports : Nat, snapshots : Nat, scorable : Nat]

ASSUME RefreshConstantsOK ==
  /\ Slate \subseteq Nat /\ IsFiniteSet(Slate) /\ Draws \subseteq Slate
  /\ None \notin Nat \cup SnapshotRow \cup Report
  /\ \A r \in Slate : MatchOf[r] \in Nat /\ ClosesAt[r] \in Nat
  /\ {EventCap, ImportCap, SnapshotCap, ScoringLimit} \subseteq Nat \ {0}
  /\ {DaysAhead, OldAfter, LastHour, MaxChanges} \subseteq Nat

VARIABLES
  clock,
  offered,    \* what the feed shows of each: "priced", "bare" or None
  ids,      \* the id of each market's row, counted from 1; 0: it is not held locally
  held,     \* of each that is: [open, snap, judged, scored]
  run,      \* the command under way or just finished
  changes,  \* how much has happened outside the command
  forecast  \* what the last dry run reported; dropped when anything has changed since

refreshVars == <<clock, offered, ids, held, run, changes, forecast>>

NewRow == [open |-> TRUE, snap |-> None, judged |-> None, scored |-> FALSE]
NoCommand == [stage |-> "done", apply |-> FALSE, now |-> 0, steady |-> FALSE, expects |-> None,
         imports |-> 0, snapshots |-> 0, scorable |-> 0]

Held == {r \in Slate : ids[r] > 0}
\* The first n of a set in some order.
Limited(S, n, Before(_, _)) == {x \in S : Cardinality({y \in S : Before(y, x)}) < n}
\* The newest row counts; one written with an older time stays behind it.
Newest(old, new) == IF old = None \/ old.at <= new.at THEN new ELSE old
Later(old, at) == IF old = None \/ old < at THEN at ELSE old

-------------------------------------------------------------------------------
(* Import.                                                                 *)

ImportDue(now) ==
  {r \in Slate : offered[r] # None /\ r \notin Held /\ ClosesAt[r] \in now + 1 .. now + DaysAhead}

\* Games are ranked by what is still missing of them: both teams known, more than
\* one market, a draw; then by volume.
GameRank(markets, game) ==
  LET of == {r \in markets : MatchOf[r] = game}
      draw == of \cap Draws # {}
      several == Cardinality(of) > 1
  IN  << IF draw \/ several THEN 0 ELSE 1, IF several THEN 0 ELSE 1, IF draw THEN 0 ELSE 1, game >>

RankedBefore(a, b) ==
  \E i \in 1 .. 4 : a[i] < b[i] /\ \A j \in 1 .. i - 1 : a[j] = b[j]

GamesTaken(markets) ==
  Limited({MatchOf[r] : r \in markets}, EventCap,
          LAMBDA g, h : RankedBefore(GameRank(markets, g), GameRank(markets, h)))

\* Game by game, within a game in the feed's order.
ImportedBefore(markets, a, b) ==
  \/ RankedBefore(GameRank(markets, MatchOf[a]), GameRank(markets, MatchOf[b]))
  \/ MatchOf[a] = MatchOf[b] /\ a < b

OfGamesTaken(due) == {r \in due : MatchOf[r] \in GamesTaken(due)}

\* Mutant: a dry run counts before the cap on imports.
ToImportUncapped(now, apply) ==
  LET due == ImportDue(now)
  IN  Limited(OfGamesTaken(due), IF apply THEN ImportCap ELSE Cardinality(due),
              LAMBDA a, b : ImportedBefore(due, a, b))

ToImport(now, apply) ==
  LET due == ImportDue(now)
  IN  Limited(OfGamesTaken(due), ImportCap, LAMBDA a, b : ImportedBefore(due, a, b))

-------------------------------------------------------------------------------
(* Snapshots and scoring.                                                  *)

\* Held markets of the feed without both prices, in the feed's order.
ToSnapshot(now) ==
  LET due == {r \in Held : /\ offered[r] = "priced" /\ ClosesAt[r] \in now .. now + DaysAhead
                           /\ held[r].snap # None => ~held[r].snap.priced}
  IN  Limited(due, SnapshotCap, <)

\* Active markets without a forecast of the scoring family, by id: cut before
\* anyone asks whether they have a snapshot.
Unscored == {r \in Held : held[r].open /\ ~held[r].scored}

UnscoredLimited == Limited(Unscored, ScoringLimit, LAMBDA a, b : ids[a] < ids[b])
ToScore == {r \in UnscoredLimited : held[r].snap # None}

\* _build_apply_readiness: an import that went well and that shows games.
Ready(report) == report.imports > 0

-------------------------------------------------------------------------------
(* The command.                                                            *)

RefreshInit ==
  /\ clock = 0
  /\ offered \in [Slate -> {None, "bare", "priced"}]
  /\ ids = [r \in Slate |-> 0]
  /\ held = [r \in Slate |-> NewRow]
  /\ run = NoCommand
  /\ changes = 0
  /\ forecast = None

StartRefresh(apply) ==
  /\ run.stage = "done"
  /\ run' = [NoCommand EXCEPT !.stage = "import", !.apply = apply, !.now = clock, !.steady = TRUE,
                         !.expects = IF apply THEN forecast ELSE None]
  /\ forecast' = None
  /\ UNCHANGED <<clock, offered, ids, held, changes>>

Import ==
  /\ run.stage = "import"
  /\ LET new == ToImport(run.now, run.apply)
         earlier(r) == {x \in new : ImportedBefore(ImportDue(run.now), x, r)}
     IN  /\ run' = [run EXCEPT !.stage = "snapshots", !.imports = Cardinality(new)]
         /\ ids' = [r \in Slate |-> IF run.apply /\ r \in new
                      THEN Cardinality(Held) + 1 + Cardinality(earlier(r)) ELSE ids[r]]
  /\ UNCHANGED <<clock, offered, held, changes, forecast>>

Snapshots ==
  /\ run.stage = "snapshots"
  /\ LET listed == ToSnapshot(run.now)
         new == [at |-> run.now, priced |-> TRUE]
     IN  /\ run' = [run EXCEPT !.stage = "scoring", !.snapshots = Cardinality(listed)]
         /\ held' = IF run.apply
                      THEN [r \in Slate |-> IF r \in listed
                              THEN [held[r] EXCEPT !.snap = Newest(@, new)] ELSE held[r]]
                      ELSE held
  /\ UNCHANGED <<clock, offered, ids, changes, forecast>>

\* A market whose latest snapshot has no price is listed but gets no forecast.
Score ==
  /\ run.stage = "scoring"
  /\ run' = [run EXCEPT !.stage = "done", !.scorable = Cardinality(ToScore)]
  /\ held' = IF run.apply
               THEN [r \in Slate |-> IF r \in ToScore /\ held[r].snap.priced
                       THEN [held[r] EXCEPT !.scored = TRUE, !.judged = Later(@, run.now)] ELSE held[r]]
               ELSE held
  /\ forecast' = IF run.apply \/ ~run.steady THEN None
                 ELSE [imports |-> run.imports, snapshots |-> run.snapshots, scorable |-> Cardinality(ToScore)]
  /\ UNCHANGED <<clock, offered, ids, changes>>

\* An error or the operator ends it between two commits.
BreaksOff ==
  /\ run.stage # "done"
  /\ run' = NoCommand
  /\ UNCHANGED <<clock, offered, ids, held, changes, forecast>>

-------------------------------------------------------------------------------
(* What else happens meanwhile.                                            *)

Interfered ==
  /\ changes < MaxChanges
  /\ changes' = changes + 1
  /\ run' = IF run.stage = "done" THEN NoCommand ELSE [run EXCEPT !.steady = FALSE, !.expects = None]
  /\ forecast' = None

ClockAdvances == clock < LastHour /\ clock' = clock + 1 /\ Interfered /\ UNCHANGED <<offered, ids, held>>

SlateShows(r, what) ==
  /\ offered[r] # what
  /\ offered' = [offered EXCEPT ![r] = what]
  /\ Interfered /\ UNCHANGED <<clock, ids, held>>

Changes(r, row) == held' = [held EXCEPT ![r] = row] /\ Interfered /\ UNCHANGED <<clock, offered, ids>>

Closes(r) == r \in Held /\ held[r].open /\ Changes(r, [held[r] EXCEPT !.open = FALSE])

\* The periodic capture; a price call that fails leaves a snapshot without prices.
Capture(r, priced) ==
  /\ r \in Held
  /\ held[r].snap # [at |-> clock, priced |-> priced]
  /\ Changes(r, [held[r] EXCEPT !.snap = [at |-> clock, priced |-> priced]])

\* A research run's forecast, of another family.
Judge(r) == r \in Held /\ held[r].judged # clock /\ Changes(r, [held[r] EXCEPT !.judged = clock])

RefreshNext ==
  \/ \E apply \in BOOLEAN : StartRefresh(apply)
  \/ Import
  \/ Snapshots
  \/ Score
  \/ BreaksOff
  \/ ClockAdvances
  \/ \E r \in Slate, what \in {None, "bare", "priced"} : SlateShows(r, what)
  \/ \E r \in Slate, priced \in BOOLEAN : Capture(r, priced)
  \/ \E r \in Slate : Closes(r) \/ Judge(r)

RefreshSpec == RefreshInit /\ [][RefreshNext]_refreshVars

-------------------------------------------------------------------------------
(* The two reports on the markets held.                                    *)

\* build_existing_soccer_refresh_plan: a market is stale by its snapshot alone.
OldSnapshot(r) == held[r].snap = None \/ held[r].snap.at < clock - OldAfter
Planned == {r \in Held : held[r].open /\ (OldSnapshot(r) \/ held[r].judged = None)}
\* A snapshot is enough for it, with prices or without.
PlannedToScore == {r \in Planned : held[r].judged = None /\ held[r].snap # None}

\* inspect_soccer_market_health: stale by the later of snapshot and forecast.
\* Mutant: by the earlier of the two.
UpdatedEarlier(r) ==
  LET times == ({held[r].judged} \cup (IF held[r].snap = None THEN {} ELSE {held[r].snap.at})) \ {None}
  IN  IF times = {} THEN None ELSE Min(times)
Updated(r) ==
  LET times == ({held[r].judged} \cup (IF held[r].snap = None THEN {} ELSE {held[r].snap.at})) \ {None}
  IN  IF times = {} THEN None ELSE Max(times)

Unwell ==
  {r \in Held : \/ held[r].snap = None \/ held[r].judged = None
                \/ Updated(r) = None \/ Updated(r) < clock - OldAfter}

-------------------------------------------------------------------------------
RefreshTypeOK ==
  /\ clock \in 0 .. LastHour
  /\ \A r \in Slate : offered[r] \in {None, "bare", "priced"}
  /\ \A r \in Slate : ids[r] \in 0 .. Cardinality(Held)
  /\ \A r, q \in Held : ids[r] = ids[q] => r = q
  /\ \A r \in Slate : r \notin Held => held[r] = NewRow
  /\ run.stage \in {"import", "snapshots", "scoring", "done"}

\* A dry run says what an apply run would do: when nothing has changed in between,
\* this one imports exactly as many markets, makes no fewer snapshots, and no fewer
\* of the markets it lists for scoring have one.
ForecastsAreMet ==
  run.stage = "done" /\ run.expects # None =>
    /\ run.imports = run.expects.imports
    /\ run.snapshots >= run.expects.snapshots
    /\ run.scorable >= run.expects.scorable
    /\ Ready(run.expects) => run.imports > 0

\* The reports agree: an active market that the health inspection finds wanting for
\* its snapshot, its forecast or its age is in the refresh plan, and what the plan
\* calls ready to score is in the list the scoring works through.
ReportsAgree ==
  /\ {r \in Unwell : held[r].open} \subseteq Planned
  /\ PlannedToScore \subseteq Unscored
===============================================================================
