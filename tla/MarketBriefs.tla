---------------------------- MODULE MarketBriefs ----------------------------
(***************************************************************************)
(* What is published about the markets: the ranked overview                *)
(* (app/services/market_overview.py), the briefing and the exports cut     *)
(* from it, and the diffs that tell what changed since the last one        *)
(* (app/services/market_diff.py, app/commands/generate_market_diff.py).    *)
(*                                                                         *)
(* The diff command looks up the newest snapshot file, then reads the      *)
(* database, then writes its own snapshot file, then the diff.  Other      *)
(* commands rate and close markets meanwhile, two diff commands may be     *)
(* under way (the scheduled one and one started by hand), and each may     *)
(* die between two steps or while it writes its snapshot.  Files are       *)
(* named by the second a command starts; two starts in one second are left *)
(* out.  A rating is the latest prediction of a market, reduced to what    *)
(* the views tell apart.                                                   *)
(***************************************************************************)
EXTENDS NoValue, Naturals, Sequences, SequencesExt, FiniteSets, FiniteSetsExt, Functions

CONSTANTS Brief,      \* the markets, as numbers (the order of their ids)
          Sound,      \* the markets whose shape evidence can be found for
          Ratings,    \* what scoring may say: opportunity, action, evidence,
                      \*   review, yes (percent)
          TopLimit, WatchLimit, \* how many of each list the briefing shows
          Threshold,  \* the material change of a probability, in percent
          Differ,     \* the diff commands that may be under way at once
          MaxDiffs    \* bound: diff commands started

\* An item of a snapshot file.
DiffItem ==
  [rank : Nat, opportunity : BOOLEAN, yes : Nat \cup {None},
   bucket : {"priority", "review_fallback", "watchlist", "fallback_only", "no_prediction"}]

ASSUME BriefConstantsOK ==
  /\ Brief \subseteq Nat /\ Sound \subseteq Brief /\ IsFiniteSet(Brief)
  /\ Ratings \subseteq [opportunity : BOOLEAN, action : 0 .. 100, evidence : BOOLEAN,
                         review : BOOLEAN, yes : 0 .. 100]
  /\ {TopLimit, WatchLimit, Threshold, MaxDiffs} \subseteq Nat
  /\ \A S \in SUBSET Brief : None \notin [S -> DiffItem]

VARIABLES
  board,     \* of each market: its state and its rating
  begun,     \* number of diff commands started: their run ids
  snapshots, \* the snapshot files by run id: the items, or None when torn
  diffs,     \* the published diffs, oldest first
  differs    \* of each diff command: None, or what it knows so far

briefVars == <<board, begun, snapshots, diffs, differs>>

-----------------------------------------------------------------------------
(* The overview and the views cut from it.                                 *)

OnBoard(active) == {m \in Brief : active => board[m].state # "inactive"}

IsOpportunity(m) == board[m].rating # None /\ board[m].rating.opportunity

BucketOf(m) ==
  CASE board[m].rating = None -> "no_prediction"
    [] IsOpportunity(m) /\ m \in Sound -> "priority"
    [] IsOpportunity(m) /\ m \notin Sound -> "review_fallback"
    [] ~IsOpportunity(m) /\ board[m].rating # None ->
         IF m \in Sound THEN "watchlist" ELSE "fallback_only"

ModeOf(m) ==
  IF board[m].rating = None THEN "no_prediction"
  ELSE IF board[m].rating.evidence THEN "evidence_backed" ELSE "fallback_only"

ActionScore(m) == IF board[m].rating = None THEN 0 ELSE board[m].rating.action

Before(m, n) ==
  LET key(k) == <<IF IsOpportunity(k) THEN 0 ELSE 1, 100 - ActionScore(k),
                  IF k \in Sound THEN 0 ELSE 1, IF board[k].rating = None THEN 1 ELSE 0, k>>
  IN \E i \in 1 .. 5 : /\ key(m)[i] < key(n)[i]
                       /\ \A j \in 1 .. i - 1 : key(m)[j] = key(n)[j]

\* The place of a market in the sorted overview.
PriorityRank(m) == 1 + Cardinality({n \in OnBoard(TRUE) : Before(n, m)})

Overview ==
  [m \in OnBoard(TRUE) |-> [rank |-> PriorityRank(m), bucket |-> BucketOf(m), mode |-> ModeOf(m),
                            opportunity |-> IsOpportunity(m)]]

\* The presets of the export command.
Export(preset) ==
  LET items == Overview
  IN  {m \in DOMAIN items : CASE preset = "top_opportunities" -> items[m].opportunity
                              [] preset = "watchlist" -> items[m].bucket = "watchlist"
                              [] OTHER -> items[m].mode = preset}

\* Mutant: the closed markets stay in the briefing.
OpenAndClosedItems(items) == items

\* The items of the briefing: those not closed.
OpenItems(items) == [m \in {n \in DOMAIN items : board[n].state # "closed"} |-> items[m]]

OfMode(items, mode) == Cardinality({m \in DOMAIN items : items[m].mode = mode})

FirstOf(list, limit, items) ==
  {m \in list : Cardinality({n \in list : items[n].rank < items[m].rank}) < limit}

Flagged(m) == board[m].rating # None /\ board[m].rating.review

Briefing ==
  LET items == OpenItems(Overview)
  IN  [top |-> FirstOf({m \in DOMAIN items : items[m].opportunity}, TopLimit, items),
       watchlist |-> FirstOf({m \in DOMAIN items : items[m].bucket = "watchlist"}, WatchLimit, items),
       review |-> {m \in DOMAIN items : Flagged(m)},
       total |-> Cardinality(DOMAIN items),
       backed |-> OfMode(items, "evidence_backed"),
       fallback |-> OfMode(items, "fallback_only"),
       unrated |-> OfMode(items, "no_prediction")]

-----------------------------------------------------------------------------
(* Snapshots and diffs.                                                    *)

SnapshotItem(m, item) ==
  [rank |-> item.rank, bucket |-> item.bucket, opportunity |-> item.opportunity,
   yes |-> IF board[m].rating = None THEN None ELSE board[m].rating.yes]

DiffSnapshot ==
  LET items == Overview
  IN  [m \in {n \in DOMAIN items : board[n].state # "closed"} |-> SnapshotItem(m, items[m])]

Top(items) == {m \in DOMAIN items : items[m].opportunity}

Delta(a, b) == IF None \in {a, b} THEN 0 ELSE IF a < b THEN b - a ELSE a - b

EnteredOf(before, now) == Top(now) \ Top(before)
\* Mutant: only markets in both snapshots are compared.
ExitedShared(before, now) == (Top(before) \ Top(now)) \cap DOMAIN now

ExitedOf(before, now) == Top(before) \ Top(now)

\* The diff of what a command built with what it found.
DiffOf(found, built) ==
  LET shared == IF found = None THEN {} ELSE DOMAIN found \cap DOMAIN built
  IN [ready |-> found # None,
      entered |-> IF found = None THEN {} ELSE EnteredOf(found, built),
      exited |-> IF found = None THEN {} ELSE ExitedOf(found, built),
      buckets |-> {m \in shared : found[m].bucket # built[m].bucket},
      material |-> {m \in shared : Delta(found[m].yes, built[m].yes) >= Threshold}]

-----------------------------------------------------------------------------
BriefInit ==
  /\ board = [m \in Brief |-> [state |-> "open", rating |-> None]]
  /\ begun = 0 /\ snapshots = <<>> /\ diffs = <<>>
  /\ differs = [d \in Differ |-> None]

\* Scoring stores a prediction.
Scored(m) ==
  /\ \E rating \in Ratings : board' = [board EXCEPT ![m].rating = rating]
  /\ UNCHANGED <<begun, snapshots, diffs, differs>>

\* A refresh finds the market closed, or takes it off the active ones.
Resolved(m) ==
  /\ board[m].state = "open"
  /\ \E state \in {"closed", "inactive"} : board' = [board EXCEPT ![m].state = state]
  /\ UNCHANGED <<begun, snapshots, diffs, differs>>

PreviousSnapshot == IF DOMAIN snapshots = {} THEN None ELSE Max(DOMAIN snapshots)

\* The command starts: it takes its run id and reads the newest snapshot.
BeginDiff(d) ==
  /\ differs[d] = None /\ begun < MaxDiffs
  /\ begun' = begun + 1
  /\ LET p == PreviousSnapshot
         found == IF p = None THEN None ELSE snapshots[p]
     IN differs' = [differs EXCEPT ![d] =
          [run |-> begun + 1, previous |-> IF found = None THEN None ELSE p,
           found |-> found, built |-> None]]
  /\ UNCHANGED <<board, snapshots, diffs>>

SavedSnapshot(run, items) ==
  snapshots' = [r \in DOMAIN snapshots \cup {run} |->
                  IF r = run THEN items ELSE snapshots[r]]

\* It reads the database and writes its own snapshot.
WriteSnapshot(d) ==
  /\ differs[d] # None /\ differs[d].built = None
  /\ SavedSnapshot(differs[d].run, DiffSnapshot)
  /\ differs' = [differs EXCEPT ![d].built = DiffSnapshot]
  /\ UNCHANGED <<board, begun, diffs>>

\* It writes the diff, and is done.
WriteDiff(d) ==
  /\ differs[d] # None /\ differs[d].built # None
  /\ diffs' = Append(diffs,
       [current |-> differs[d].run, previous |-> differs[d].previous,
        diff |-> DiffOf(differs[d].found, differs[d].built)])
  /\ differs' = [differs EXCEPT ![d] = None]
  /\ UNCHANGED <<board, begun, snapshots>>

\* It dies between two steps, or while it writes its snapshot.
DiffDies(d) ==
  /\ differs[d] # None
  /\ \/ UNCHANGED snapshots
     \/ differs[d].built = None /\ SavedSnapshot(differs[d].run, None)
  /\ differs' = [differs EXCEPT ![d] = None]
  /\ UNCHANGED <<board, begun, diffs>>

BriefNext ==
  \/ \E m \in Brief : Scored(m) \/ Resolved(m)
  \/ \E d \in Differ : BeginDiff(d) \/ WriteSnapshot(d) \/ WriteDiff(d) \/ DiffDies(d)

BriefSpec == BriefInit /\ [][BriefNext]_briefVars

-----------------------------------------------------------------------------
\* Types of the board, the files and the commands.
BriefTypeOK ==
  /\ board \in [Brief -> [state : {"open", "closed", "inactive"}, rating : Ratings \cup {None}]]
  /\ begun \in 0 .. MaxDiffs
  /\ DOMAIN snapshots \subseteq 1 .. begun
  /\ \A r \in DOMAIN snapshots : snapshots[r] # None =>
       \E S \in SUBSET Brief : snapshots[r] \in [S -> DiffItem]
  /\ \A i \in DOMAIN diffs : diffs[i].current \in DOMAIN snapshots
  /\ \A d \in Differ : differs[d] # None => differs[d].run \in 1 .. begun

\* What one who reads the published diffs believes: he takes up each diff that
\* continues the one before, and starts over from the snapshot a diff names when
\* it does not (or had nothing to compare with).
Followed ==
  LET known[i \in 0 .. Len(diffs)] ==
        IF i = 0 THEN [run |-> 0, top |-> {}]
        ELSE IF diffs[i].diff.ready /\ diffs[i].previous = known[i - 1].run
        THEN [run |-> diffs[i].current,
              top |-> (known[i - 1].top \ diffs[i].diff.exited) \cup diffs[i].diff.entered]
        ELSE [run |-> diffs[i].current, top |-> Top(snapshots[diffs[i].current])]
  IN  known[Len(diffs)]

\* Following the diffs leads to the top opportunities as they were when the last
\* diff was made, whatever overlapped, closed, left the overview or died on the
\* way (build_market_diff_payload, generate_market_diff.main).
DiffsCompose ==
  diffs # <<>> => Followed.top = Top(snapshots[Last(diffs).current])

\* A list is the head of a longer one: the whole of it when the limit leaves room.
HeadOf(list, whole, limit, ranked) ==
  /\ list \subseteq whole
  /\ \A m \in list, n \in whole \ list : ranked[m].rank < ranked[n].rank
  /\ Cardinality(whole) <= limit => list = whole

\* The briefing, the diff snapshot and the export are cut from the overview by
\* three pieces of code; they name the same markets in the same order, up to the
\* closed ones that only the export keeps and the limits of the briefing; no
\* opportunity ranks behind a watched market, and the briefing's counts add up.
ViewsAgree ==
  LET b == Briefing
      items == DiffSnapshot
      exported(preset) == {m \in Export(preset) : board[m].state # "closed"}
      watched == {m \in DOMAIN items : items[m].bucket = "watchlist"}
  IN  /\ Top(items) = exported("top_opportunities") /\ watched = exported("watchlist")
      /\ HeadOf(b.top, Top(items), TopLimit, items)
      /\ HeadOf(b.watchlist, watched, WatchLimit, items)
      /\ b.backed + b.fallback + b.unrated = b.total
      /\ \A m \in Top(items), n \in watched : items[m].rank < items[n].rank
=============================================================================
