---------------------------- MODULE ResearchRuns ----------------------------
(***************************************************************************)
(* Research runs: the local pipeline (with an optional language model),    *)
(* and the external agent, which is handed a request, writes a response    *)
(* file whenever it likes, and whose response passes a quality gate before *)
(* it becomes a prediction.  Scores are in ten-thousandths.                *)
(***************************************************************************)
EXTENDS NoValue, Integers, Sequences, SequencesExt, FiniteSets, FiniteSetsExt

CONSTANTS
  Subject,     \* markets
  Duel,        \* those whose shape is a match winner
  Prices,      \* YES prices a snapshot may carry
  Evidence,    \* stored evidence: [kind, provider, stance, strength, consensus,
               \*   context, confidence, disputed, age]
  Answers,     \* answers of the language model: [ok, pros, cons, confidence, shift]
  Responses,   \* response files: [mode, pros, cons, cited, valid, distinct,
               \*   repeated, unnamed, review, confidence, shift]
  MaxRuns, MaxForecasts

ASSUME ResearchConstantsOK ==
  /\ Duel \subseteq Subject /\ MaxRuns \in Nat /\ MaxForecasts \in Nat
  /\ \A b \in Responses : {b.pros, b.cons, b.cited, b.valid} \subseteq Nat /\ b.valid <= b.cited

VARIABLES
  quote,      \* latest snapshot's YES price of each market, or None
  gathered,   \* stored evidence of each market
  runs,       \* research runs by id
  response,   \* response file of each run: [to, body], or None
  report,     \* validation file of each run, or None
  forecasts   \* predictions with their reports, in the order they were made

researchVars == <<quote, gathered, runs, response, report, forecasts>>

Whole == 10000
Within(x, low, high) == Max({low, Min({x, high})})
Quantized(n, d) == (2 * n + d) \div (2 * d)
SignOf(stance) == CASE stance = "favor" -> 1 [] stance = "against" -> -1 [] OTHER -> 0
Size(x) == IF x < 0 THEN -x ELSE x
MaxShift == 1200

-------------------------------------------------------------------------------
(* Local scoring.                                                          *)

\* _resolve_finding_stance.
StanceOf(e) ==
  IF e.stance \in {"favor", "against", "neutral"} THEN e.stance
  ELSE IF e.context # None /\ e.context >= 30 THEN "favor"
  ELSE IF e.context # None /\ e.context <= -30 THEN "against" ELSE "unknown"

Impact(e, price) ==
  CASE e.kind = "odds" /\ e.strength # None ->
         2000 + Min({Size(e.strength - price), 2500}) + Quantized(2 * e.consensus, 10)
    [] e.context # None -> Min({2500 + 10 * Size(e.context), 7500})
    [] e.confidence # None -> 2000 + Min({Quantized(e.confidence, 2), 5000})
    [] OTHER -> 2500

Freshness(e) ==
  CASE e.age = None -> 3000 [] e.age <= 6 -> 10000 [] e.age <= 24 -> 8500
    [] e.age <= 72 -> 6000 [] e.age <= 168 -> 4000 [] OTHER -> 2000

Credibility(e) ==
  LET base == CASE e.provider = "the_odds_api" -> 8500 [] e.provider = "espn_rss" -> 7500 [] OTHER -> 6000
      known == IF e.confidence = None THEN base ELSE Quantized(base + e.confidence, 2)
  IN  Max({known - (IF e.disputed THEN 1500 ELSE 0), 0})

\* The product of three scores; the first two are multiples of a hundred.
Weight(e, price) ==
  Quantized((Quantized(Impact(e, price) * (Freshness(e) \div 100), 100)) * (Credibility(e) \div 100), 100)

Contribution(e, price) == SignOf(StanceOf(e)) * Quantized(8 * Weight(e, price), 100)

LocalShift(items, price) ==
  Within(MapThenSumSet(LAMBDA e : Contribution(e, price), items), -MaxShift, MaxShift)

\* _compute_confidence of a run without the web.
LocalConfidence(items, price, duel) ==
  LET n == Cardinality(items)
      contested == \E e, f \in items : Contribution(e, price) > 0 /\ Contribution(f, price) < 0
      sure == IF n = 0 THEN 2500
              ELSE 3000 + 500 * Min({n, 3}) + (IF contested THEN 500 ELSE 0)
                   + Quantized(45 * MapThenSumSet(LAMBDA e : Weight(e, price), items), 100 * n)
  IN  Min({IF duel THEN sure ELSE Quantized(85 * sure, 100), 7800})

\* An answer that fails, is no JSON or has no evidence at all is no output; its
\* confidence and its shift are brought within their bounds.
Normalized(a) == [confidence |-> Within(a.confidence, 0, Whole), shift |-> Within(a.shift, -MaxShift, MaxShift)]
Output(a) == IF a.ok /\ a.pros + a.cons > 0 THEN Normalized(a) ELSE None

\* What create_prediction and create_prediction_report store; the body a
\* prediction was made from and the flag it was let in by are kept for the
\* properties.
Forecast(run, price, low, shift, confidence, family, body, allowed) ==
  LET base == Within(price, low, Whole - low)
      edge == Size(Within(base + shift, low, Whole - low) - base)
  IN  [run |-> run, family |-> family, body |-> body, allowed |-> allowed,
       opportunity |-> edge >= 500 /\ confidence >= 4500]

-------------------------------------------------------------------------------
(* The quality gate.                                                       *)

Total(b) == b.pros + b.cons

\* _validate_sources and _score_evidence_balance.
SourceQuality(b) ==
  IF b.cited = 0 THEN 0
  ELSE Quantized((4000 * b.cited + 5000 * b.valid) * b.distinct + 1000 * (b.distinct - b.repeated) * Total(b),
                 Total(b) * b.distinct)
Balance(b) ==
  IF b.pros > 0 /\ b.cons > 0 THEN 5000 + Quantized(Whole * Min({b.pros, b.cons}), Total(b)) ELSE 2500

SourceCeiling(b) == Min({Whole, 3000 + Quantized(45 * SourceQuality(b) + 25 * Balance(b), 100)})

Ceiling(b) ==
  CASE b.mode = "mock_structural" -> Min({SourceCeiling(b), 3500})
    [] b.mode = "manual" -> Min({SourceCeiling(b), 5000})
    [] OTHER -> SourceCeiling(b)
Believed(b) == Min({b.confidence, Ceiling(b)})

Warned(b) ==
  \/ b.pros = 0 \/ b.cons = 0 \/ b.cited = 0 \/ b.unnamed > 0 \/ b.valid < b.cited \/ b.repeated > 0
  \/ b.mode = "real_web" /\ 2 * b.cited <= Total(b)
  \/ Size(b.shift) >= 800 /\ SourceQuality(b) < 7000
  \/ b.confidence >= 8000 /\ Believed(b) < b.confidence

\* validate_codex_agent_response, of a file addressed to run and market.
Verdict(file, r) ==
  LET b == file.body
  IN  IF file.to # <<r, runs[r].market>> \/ Total(b) = 0 THEN "reject"
      ELSE IF b.mode # "real_web" THEN "review_required"
      ELSE IF SourceQuality(b) < 2500 THEN "reject"
      ELSE IF SourceQuality(b) < 5000 \/ Balance(b) < 5000 \/ b.review \/ Warned(b) THEN "review_required"
      ELSE "ingest"

\* Mutant: the verdict of the last validation stands for the file as it is now.
StandingVerdict(r) == IF report[r] = None THEN Verdict(response[r], r) ELSE report[r]
CurrentVerdict(r) == Verdict(response[r], r)

-------------------------------------------------------------------------------
ResearchInit ==
  /\ quote = [m \in Subject |-> None] /\ gathered = [m \in Subject |-> {}]
  /\ runs = <<>> /\ response = <<>> /\ report = <<>> /\ forecasts = <<>>

\* The captures of snapshots and evidence.
Quote(m, p) ==
  /\ quote' = [quote EXCEPT ![m] = p]
  /\ UNCHANGED <<gathered, runs, response, report, forecasts>>

Gather(m, e) ==
  /\ gathered' = [gathered EXCEPT ![m] = @ \cup {e}]
  /\ UNCHANGED <<quote, runs, response, report, forecasts>>

NewRun(m, status) == [market |-> m, status |-> status]

Recorded(new) ==
  /\ Len(runs) + Len(new) <= MaxRuns
  /\ runs' = runs \o new
  /\ response' = response \o [i \in DOMAIN new |-> None]
  /\ report' = report \o [i \in DOMAIN new |-> None]

\* What run_market_research makes of a market: the language model answers
\* (out), or is off, unconfigured or failing (None) and the run falls back to
\* the local evidence, which a closed market's screening leaves aside.
Researched(m, open, out) ==
  LET items == IF open THEN gathered[m] ELSE {}
      r == Len(runs) + 1
  IN  IF quote[m] = None THEN [run |-> NewRun(m, "failed"), made |-> <<>>]
      ELSE IF out # None
      THEN [run |-> NewRun(m, "completed"),
            made |-> <<Forecast(r, quote[m], 100, out.shift, out.confidence, "llm", None, FALSE)>>]
      ELSE [run |-> NewRun(m, "completed"),
            made |-> <<Forecast(r, quote[m], 0, LocalShift(items, quote[m]),
                                LocalConfidence(items, quote[m], m \in Duel), "local", None, FALSE)>>]

\* One market, on its own or in a batch; a market of a batch that fails is
\* rolled back to its savepoint and leaves nothing.
RunResearch(m, open, out, predicts) ==
  LET result == Researched(m, open, out)
      made == IF predicts THEN result.made ELSE <<>>
  IN  /\ Len(forecasts) + Len(made) <= MaxForecasts
      /\ Recorded(<<result.run>>)
      /\ forecasts' = forecasts \o made
      /\ UNCHANGED <<quote, gathered>>

\* prepare_codex_agent_research_request: the run and its request file.
Prepare(m) ==
  /\ Recorded(<<NewRun(m, "pending_agent")>>)
  /\ UNCHANGED <<quote, gathered, forecasts>>

\* The agent writes its answer, possibly to another run's request.
AgentWrites(r, to, b) ==
  /\ response' = [response EXCEPT ![r] = [to |-> <<to, runs[to].market>>, body |-> b]]
  /\ UNCHANGED <<quote, gathered, runs, report, forecasts>>

\* validate_codex_agent_research_response_file: the dry run.
DryRun(r) ==
  /\ response[r] # None
  /\ report' = [report EXCEPT ![r] = Verdict(response[r], r)]
  /\ UNCHANGED <<quote, gathered, runs, response, forecasts>>

EndsAs(r, status) == runs' = [runs EXCEPT ![r].status = status]

\* ingest_codex_agent_research_response, whatever the status of the run.  The
\* validation file is written before the snapshot is looked for.
IngestUnread(r) ==
  /\ response[r] = None
  /\ EndsAs(r, "failed")
  /\ UNCHANGED <<quote, gathered, response, report, forecasts>>

Ingest(r, allow) ==
  LET verdict == CurrentVerdict(r)
      stopped == verdict = "reject" \/ (verdict = "review_required" /\ ~allow)
      b == response[r].body
  IN  /\ response[r] # None
      /\ report' = [report EXCEPT ![r] = verdict]
      /\ IF stopped THEN EndsAs(r, IF verdict = "reject" THEN "failed" ELSE verdict) /\ UNCHANGED forecasts
         ELSE IF quote[runs[r].market] = None THEN EndsAs(r, "failed") /\ UNCHANGED forecasts
         ELSE /\ EndsAs(r, "completed")
              /\ Len(forecasts) < MaxForecasts
              /\ forecasts' = Append(forecasts,
                   Forecast(r, quote[runs[r].market], 100, b.shift, Believed(b), "codex", b, allow))
      /\ UNCHANGED <<quote, gathered, response>>

ResearchNext ==
  \/ \E m \in Subject :
       \/ Prepare(m)
       \/ \E p \in Prices : Quote(m, p)
       \/ \E e \in Evidence : Gather(m, e)
       \/ \E open, predicts \in BOOLEAN, a \in Answers : RunResearch(m, open, Output(a), predicts)
  \/ \E r \in DOMAIN runs :
       \/ DryRun(r) \/ IngestUnread(r)
       \/ \E to \in DOMAIN runs, b \in Responses : AgentWrites(r, to, b)
       \/ \E allow \in BOOLEAN : Ingest(r, allow)

ResearchSpec == ResearchInit /\ [][ResearchNext]_researchVars
-------------------------------------------------------------------------------
ResearchTypeOK ==
  /\ Len(response) = Len(runs) /\ Len(report) = Len(runs)
  /\ \A r \in DOMAIN runs :
       /\ runs[r].market \in Subject
       /\ runs[r].status \in {"completed", "failed", "pending_agent", "review_required"}
       /\ report[r] \in {None, "ingest", "review_required", "reject"}
  /\ \A i \in DOMAIN forecasts : forecasts[i].run \in DOMAIN runs

\* What becomes a prediction without a person's leave was fit for it as it was
\* read, whatever an earlier dry run said of an earlier file: researched on the
\* web, with both sides heard and most of its claims cited, its sources not in
\* doubt (the gate judges the file again when it ingests it).
UnreviewedAreSound ==
  \A i \in DOMAIN forecasts :
    LET f == forecasts[i]
    IN  f.family = "codex" /\ ~f.allowed =>
          /\ f.body.mode = "real_web" /\ ~f.body.review
          /\ f.body.pros > 0 /\ f.body.cons > 0
          /\ 2 * f.body.cited > Total(f.body) /\ f.body.valid = f.body.cited
===============================================================================
