------------------------------ MODULE LinearSync ------------------------------
(***************************************************************************)
(* The backlog of the repository, pushed to Linear                         *)
(* (app/commands/sync_linear.py, app/services/linear_sync.py), and the     *)
(* OAuth credentials it is pushed with (app/services/linear_auth.py,       *)
(* app/commands/login_linear.py).                                          *)
(*                                                                         *)
(* A sync gets its authorisation (refreshing and saving an expired token), *)
(* reads the catalogue and one page of the marked issues of the team,      *)
(* plans, and applies the plan one mutation at a time.  A mutation may be  *)
(* refused, and its answer may be lost after it was done; either ends the  *)
(* sync where it stands.  People move, edit and delete issues meanwhile,   *)
(* the catalogue is edited, and a sync may die between two steps.          *)
(***************************************************************************)
EXTENDS NoValue, Naturals, Sequences, SequencesExt, FiniteSets, FiniteSetsExt

CONSTANTS Issues,      \* the sync ids the catalogue may hold, in its order
          Texts,       \* titles and descriptions, to tell a change
          Kinds,       \* the types of the team's workflow states, by position
          Allowed,     \* ALLOWED_STATE_TYPES
          Project,     \* the project asked for, or None
          Syncer,      \* the sync commands that may be under way at once
          PageSize,    \* issues read: 250
          MaxRemote,   \* bound: issues of the team
          MaxTokens    \* bound: tokens granted

Ids == ToSet(Issues)
Fields == {"text", "state", "project"}

\* An issue of the team, by the marker in its description.
RemoteIssue ==
  [sid : Ids \cup {None}, text : Texts, state : DOMAIN Kinds, project : {Project, None}]

ASSUME LinearConstantsOK ==
  /\ PageSize \in Nat /\ MaxRemote \in Nat /\ MaxTokens \in Nat
  /\ Kinds \in Seq(Allowed)
  /\ IsInjective(Issues)
  /\ None \notin Ids \cup Syncer \cup RemoteIssue

VARIABLES
  catalogue, \* of each sync id: the text and the type of state wanted, or None
  triaged,   \* TRUE once the team has a state of a type the sync does not know
  remote,    \* the issues of the team: marker, text, state, project; None once deleted
  granted,   \* number of the newest token granted; older ones are void
  stored,    \* the credentials file: the token's number and whether it is expired,
             \*   None without one, state "torn" when it does not parse
  syncs      \* of each command: None, or what it holds

linearVars == <<catalogue, triaged, remote, granted, stored, syncs>>

\* A sync that stands at `step`, with the operations left by sync id; `quiet`
\* (history) says that nobody else has changed anything since it read.
NoOps == [sid \in {} |-> None]
Standing(step) == [step |-> step, token |-> 0, ops |-> NoOps, quiet |-> TRUE]

WithMarker == {i \in DOMAIN remote : remote[i] # None /\ remote[i].sid # None}

-----------------------------------------------------------------------------
(* The plan.                                                               *)

\* The first state of a type, by position; 0 when the team has none.
StateOf(kind) ==
  IF kind \in ToSet(Kinds) THEN Min({i \in DOMAIN Kinds : Kinds[i] = kind}) ELSE 0

\* An issue in a state the sync does not know ends the reading.
Readable(page) == ~triaged /\ \A i \in page : remote[i].state \in DOMAIN Kinds

Wanted(c, sid) == [text |-> c[sid].text, state |-> StateOf(c[sid].kind), project |-> Project]

\* Mutant: an issue left in another state counts as in sync.
DriftOfText(have, want) ==
  {f \in Fields \ {"state"} : have[f] # want[f] /\ (f = "project" => Project # None)}

\* The fields to update; the project only when one is asked for.
Drift(have, want) == {f \in Fields : have[f] # want[f] /\ (f = "project" => Project # None)}

\* Mutant: an issue that was moved is created again.
MatchWhereLeft(page, sid) ==
  {i \in page : remote[i].sid = sid /\ remote[i].state = StateOf(catalogue[sid].kind)}

Match(page, sid) == {i \in page : remote[i].sid = sid}

Plannable(page) ==
  /\ Readable(page)
  /\ \A sid \in Ids : Cardinality({i \in page : remote[i].sid = sid}) <= 1
  /\ \A sid \in Ids : catalogue[sid] # None => StateOf(catalogue[sid].kind) # 0

Operation(page, sid) ==
  LET want == Wanted(catalogue, sid) IN
  IF Match(page, sid) = {} THEN [at |-> 0, set |-> Fields, want |-> want]
  ELSE LET i == Min(Match(page, sid))
       IN [at |-> i, set |-> Drift(remote[i], want), want |-> want]

\* Creations and updates.
Plan(page) ==
  [sid \in {x \in Ids : catalogue[x] # None /\ Operation(page, x).set # {}} |->
     Operation(page, sid)]

\* They are applied in the order of the catalogue.
Foremost(ops) ==
  {Issues[k] : k \in {k \in DOMAIN Issues :
                        /\ Issues[k] \in DOMAIN ops
                        /\ \A j \in DOMAIN Issues : Issues[j] \in DOMAIN ops => k <= j}}

-----------------------------------------------------------------------------
LinearInit ==
  /\ catalogue = [sid \in Ids |-> None]
  /\ triaged = FALSE /\ remote = <<>>
  /\ granted = 0 /\ stored = None
  /\ syncs = [s \in Syncer |-> None]

Goes(s, to) == syncs' = [syncs EXCEPT ![s] = to]

\* The others' readings are no longer what is out there.
Disturbed(but) ==
  [s \in Syncer |-> IF s = but \/ syncs[s] = None THEN syncs[s]
                    ELSE [syncs[s] EXCEPT !.quiet = FALSE]]

\* Somebody logs in: the code is exchanged, and the credentials are saved.
Login ==
  /\ granted < MaxTokens
  /\ granted' = granted + 1
  /\ \/ stored' = [state |-> "fresh", token |-> granted + 1]
     \/ stored' = [state |-> "torn", token |-> 0]
     \/ UNCHANGED stored
  /\ UNCHANGED <<catalogue, triaged, remote, syncs>>

TokenExpires ==
  /\ stored # None /\ stored.state = "fresh"
  /\ stored' = [stored EXCEPT !.state = "expired"]
  /\ UNCHANGED <<catalogue, triaged, remote, granted, syncs>>

\* A sync starts with the key it is configured with (token 0), or else with the
\* credentials it finds; for want of any, or with another client's, it ends here.
Authorise(s) ==
  /\ syncs[s] = None
  /\ \/ Goes(s, Standing("authorised"))
     \/ /\ stored # None /\ stored.state = "fresh"
        /\ Goes(s, [Standing("authorised") EXCEPT !.token = stored.token])
     \/ /\ stored # None /\ stored.state = "expired"
        /\ Goes(s, [Standing("refreshing") EXCEPT !.token = stored.token])
  /\ UNCHANGED <<catalogue, triaged, remote, granted, stored>>

\* It exchanges the refresh token it read, which voids it; another's exchange
\* may have voided it already.
Refresh(s) ==
  /\ syncs[s] # None /\ syncs[s].step = "refreshing"
  /\ IF syncs[s].token = granted /\ granted < MaxTokens
     THEN /\ granted' = granted + 1
          /\ Goes(s, [Standing("saving") EXCEPT !.token = granted + 1])
     ELSE UNCHANGED granted /\ Goes(s, None)
  /\ UNCHANGED <<catalogue, triaged, remote, stored>>

\* It saves the new credentials over the old, or dies and leaves a torn file.
Save(s) ==
  /\ syncs[s] # None /\ syncs[s].step = "saving"
  /\ \/ /\ stored' = [state |-> "fresh", token |-> syncs[s].token]
        /\ Goes(s, [Standing("authorised") EXCEPT !.token = syncs[s].token])
     \/ stored' = [state |-> "torn", token |-> 0] /\ Goes(s, None)
  /\ UNCHANGED <<catalogue, triaged, remote, granted>>

\* It reads the catalogue and a page of the marked issues and plans, or ends: on
\* a state it does not know, on two issues of one sync id, on a type of state
\* the team has not, on a token that was voided.  A dry run ends with its plan.
ReadAndPlan(s, apply) ==
  /\ syncs[s] # None /\ syncs[s].step = "authorised"
  /\ \E page \in SUBSET WithMarker :
       /\ Cardinality(page) = Min({PageSize, Cardinality(WithMarker)})
       /\ IF apply /\ Plannable(page) /\ syncs[s].token \in {0, granted}
          THEN Goes(s, [Standing("applying") EXCEPT !.ops = Plan(page)])
          ELSE Goes(s, None)
  /\ UNCHANGED <<catalogue, triaged, remote, granted, stored>>

\* What a mutation does to the team's issues.
Created(sid, want) ==
  [sid |-> sid, text |-> want.text, state |-> want.state, project |-> want.project]

Revised(issue, op) ==
  [issue EXCEPT !.text = IF "text" \in op.set THEN op.want.text ELSE @,
                !.state = IF "state" \in op.set THEN op.want.state ELSE @,
                !.project = IF "project" \in op.set THEN op.want.project ELSE @]

Mutated(sid, op) ==
  IF op.at = 0 THEN Append(remote, Created(sid, op.want))
  ELSE [remote EXCEPT ![op.at] = Revised(@, op)]

\* The next mutation is done, and confirmed or its answer is lost; a lost answer
\* ends the sync.
ApplyNext(s) ==
  /\ syncs[s] # None /\ syncs[s].step = "applying"
  /\ \E sid \in Foremost(syncs[s].ops) :
       LET op == syncs[s].ops[sid] IN
       /\ IF op.at = 0 THEN Len(remote) < MaxRemote ELSE remote[op.at] # None
       /\ remote' = Mutated(sid, op)
       /\ \/ syncs' = [Disturbed(s) EXCEPT ![s].ops = [x \in DOMAIN @ \ {sid} |-> @[x]]]
          \/ syncs' = [Disturbed(s) EXCEPT ![s] = None]
  /\ UNCHANGED <<catalogue, triaged, granted, stored>>

\* The next mutation is refused, or the command dies.
EndsShort(s) ==
  /\ syncs[s] # None
  /\ Goes(s, None)
  /\ UNCHANGED <<catalogue, triaged, remote, granted, stored>>

\* Nothing is left to apply: the sync reports ok.
Report(s) ==
  /\ syncs[s] # None /\ syncs[s].step = "applying" /\ DOMAIN syncs[s].ops = {}
  /\ Goes(s, None)
  /\ UNCHANGED <<catalogue, triaged, remote, granted, stored>>

\* The file in the repository is edited.
EditCatalogue(sid) ==
  /\ \E text \in Texts, kind \in Allowed :
       catalogue' = [catalogue EXCEPT ![sid] = [text |-> text, kind |-> kind]]
  /\ syncs' = Disturbed(None)
  /\ UNCHANGED <<triaged, remote, granted, stored>>

\* People edit, move or delete an issue, take it out of its project, or drop its
\* marker; the team starts to triage.
EditRemote(i) ==
  /\ remote[i] # None
  /\ \/ \E text \in Texts : remote' = [remote EXCEPT ![i].text = text]
     \/ \E k \in DOMAIN Kinds : remote' = [remote EXCEPT ![i].state = k]
     \/ remote' = [remote EXCEPT ![i].project = None]
     \/ remote' = [remote EXCEPT ![i].sid = None]
     \/ remote' = [remote EXCEPT ![i] = None]
  /\ syncs' = Disturbed(None)
  /\ UNCHANGED <<catalogue, triaged, granted, stored>>

StartTriage ==
  /\ ~triaged /\ triaged' = TRUE
  /\ UNCHANGED <<catalogue, remote, granted, stored, syncs>>

LinearNext ==
  \/ Login \/ TokenExpires \/ StartTriage
  \/ \E sid \in Ids : EditCatalogue(sid)
  \/ \E i \in DOMAIN remote : EditRemote(i)
  \/ \E s \in Syncer :
       \/ Authorise(s) \/ Refresh(s) \/ Save(s)
       \/ \E apply \in BOOLEAN : ReadAndPlan(s, apply)
       \/ ApplyNext(s) \/ EndsShort(s) \/ Report(s)

LinearSpec == LinearInit /\ [][LinearNext]_linearVars

-----------------------------------------------------------------------------
\* Types of the catalogue, the issues, the credentials and the commands.
LinearTypeOK ==
  /\ \A sid \in Ids : catalogue[sid] # None =>
       catalogue[sid].text \in Texts /\ catalogue[sid].kind \in Allowed
  /\ triaged \in BOOLEAN /\ Len(remote) <= MaxRemote
  /\ \A i \in DOMAIN remote : remote[i] \in RemoteIssue \cup {None}
  /\ granted \in 0 .. MaxTokens
  /\ stored # None => stored.token \in 0 .. granted
  /\ \A s \in Syncer : syncs[s] # None =>
       /\ syncs[s].step \in {"refreshing", "saving", "authorised", "applying"}
       /\ syncs[s].token \in 0 .. granted

\* A sync id never has two issues, whatever answers were lost, edits made and
\* syncs cut short: the marker of a creation is found by the next sync
\* (extract_sync_id, build_sync_plan; a second such issue would end every sync).
NeverTwice ==
  \A i, j \in WithMarker : remote[i].sid = remote[j].sid => i = j

\* A sync that reports ok, with nobody else at work since it read, leaves every
\* entry of the catalogue with an issue that says the same: one sync is enough,
\* also after one that was cut short (LinearSyncService.sync).
ReportedMeansInSync ==
  \A s \in Syncer :
    syncs[s] # None /\ syncs[s].step = "applying" /\ DOMAIN syncs[s].ops = {} /\ syncs[s].quiet =>
      \A sid \in Ids : catalogue[sid] # None =>
        \E i \in WithMarker : /\ remote[i].sid = sid
                              /\ remote[i].text = catalogue[sid].text
                              /\ Kinds[remote[i].state] = catalogue[sid].kind
                              /\ Project # None => remote[i].project = Project
=============================================================================
