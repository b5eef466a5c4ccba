------------------------------- MODULE MCRecords --------------------------------
(***************************************************************************)
(* Small instances of what reports, publishes and keeps records. The parts *)
(* share no state, so one run checks them side by side: part names the one *)
(* that moves, the others keep their initial state.                        *)
(***************************************************************************)
EXTENDS DailyRun, MarketBriefs, LinearSync, HighlightedRegistry, WalletProfiles

CONSTANT Parts  \* the parts a run looks at

VARIABLE part

-------------------------------------------------------------------------------
MCResults == [c \in Steps |-> IF c = "snapshots" THEN {"ok", "error", "unwritten"}
                              ELSE IF c = "reports" THEN {"ok", "unwritten"}
                              ELSE {"ok"}]

Rating(opportunity, evidenced, review, yes) ==
  [opportunity |-> opportunity, action |-> 60, evidence |-> evidenced, review |-> review,
   yes |-> yes]
MCRatings == {Rating(TRUE, TRUE, FALSE, 52), Rating(FALSE, TRUE, TRUE, 50)}

MCIssues == <<"i1", "i2">>
MCKinds == <<"unstarted", "completed">>

\* Bound: a second issue only before the team triages and anybody has logged in.
OneIssueBesideTokens == Len(remote') > 1 => ~triaged' /\ granted' = 0

Profile(win, closed, pnl, capital, gone) ==
  [win |-> win, closed |-> closed, pnl |-> pnl, capital |-> capital, gone |-> gone]
MCPayloads ==
  {Profile(9000, 60, 1, None, FALSE), Profile(85, 50, None, 100, FALSE),
   Profile(50, 60, 1, 40, FALSE), Profile(None, 70, None, None, FALSE),
   Profile(100, 20, 1, 150, FALSE), Profile(12000, 60, 1, None, TRUE)}

MCLinks == {<<[title |-> "a", open |-> FALSE], [title |-> "b", open |-> TRUE]>>,
            <<>>}

-------------------------------------------------------------------------------
(* Side by side.                                                           *)

vars ==
  <<part, dailyVars, briefVars, linearVars, registryVars, profileVars>>

Init ==
  /\ part \in Parts
  /\ DailyInit /\ BriefInit /\ LinearInit /\ RegistryInit /\ ProfileInit

Next ==
  /\ UNCHANGED part
  /\ IF part = "daily" THEN DailyNext ELSE UNCHANGED dailyVars
  /\ IF part = "briefs" THEN BriefNext ELSE UNCHANGED briefVars
  /\ IF part = "linear" THEN LinearNext /\ OneIssueBesideTokens ELSE UNCHANGED linearVars
  /\ IF part = "registry" THEN RegistryNext ELSE UNCHANGED registryVars
  /\ IF part = "profiles" THEN ProfileNext ELSE UNCHANGED profileVars

Spec == Init /\ [][Next]_vars
=================================================================================
