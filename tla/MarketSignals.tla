----------------------------- MODULE MarketSignals -----------------------------
(***************************************************************************)
(* The signals that wallet analyses leave behind, and their settlement     *)
(* against a local outcome or against Gamma.  Settlements run in database  *)
(* sessions: what a session loaded may be stale when it writes, it writes  *)
(* only the columns it changed, and nobody sees them before it commits.    *)
(***************************************************************************)
EXTENDS NoValue, Integers, Sequences, SequencesExt, FiniteSets, FiniteSetsExt

CONSTANTS
  Signal,            \* 1 .. n, in the order of created_at
  SignalMarket,
  Settler,           \* database sessions that settle
  Books,             \* candidate lists: sequences of [side, score, confidence]
  RecordedOutcomes,  \* outcomes somebody records by hand
  Quotes,            \* final outcomePrices of closed markets, in percent
  PendingLimit       \* limit of settle-pending

VARIABLES
  signals,   \* the table: None or a row
  known,     \* market_outcomes: None or the recorded outcome
  gamma,     \* what Gamma says of each market
  batch,     \* signals each session has still to settle, the oldest first
  loaded,    \* rows as each session has read them
  found,     \* the resolution each session has just obtained, or None
  mine       \* rows a session has changed and not yet committed

signalVars == <<signals, known, gamma, batch, loaded, found, mine>>

Counted == {"resolved_hit", "resolved_miss"}
Settled == Counted \cup {"cancelled", "unknown"}
Empty == [g \in {} |-> None]
Here(g) == signals[g] # None
OpenMarket == [state |-> "open", quote |-> None]
Unoccupied(s) == DOMAIN loaded[s] = {}

Resolves(status, outcome) == [status |-> status, outcome |-> outcome]

-------------------------------------------------------------------------------
(* The prediction of a new signal.                                         *)

CandidateWeight(confidence) ==
  CASE confidence = "medium" -> 85 [] confidence = "low" -> 65 [] OTHER -> 100

ScoreOf(book, side) ==
  LET Plus(total, c) == total + (IF c.side = side THEN c.score * CandidateWeight(c.confidence) ELSE 0)
  IN  FoldLeft(Plus, 0, book)

SidesOf(book) == {book[i].side : i \in DOMAIN book}
TotalOf(book) == FoldLeft(+, 0, [i \in DOMAIN book |-> book[i].score * CandidateWeight(book[i].confidence)])
Leading(book) == {v \in SidesOf(book) : \A w \in SidesOf(book) : ScoreOf(book, w) <= ScoreOf(book, v)}

\* Of sides with equal scores the first in the list leads.
PredictedSide(book) ==
  LET i == CHOOSE i \in DOMAIN book :
             book[i].side \in Leading(book) /\ \A j \in 1 .. i - 1 : book[j].side \notin Leading(book)
  IN  IF TotalOf(book) = 0 THEN None ELSE book[i].side

\* Lead of the first side over the second, in ten-thousandths of the total, rounded.
Margin(book) ==
  LET top == ScoreOf(book, PredictedSide(book))
      rest == {ScoreOf(book, v) : v \in SidesOf(book) \ {PredictedSide(book)}}
      lead == top - Max(rest \cup {0})
  IN  (20000 * lead + TotalOf(book)) \div (2 * TotalOf(book))

Clear(book) == PredictedSide(book) # None /\ Margin(book) >= 300

NewSignal(m, book) ==
  [market |-> m, book |-> book, side |-> PredictedSide(book), outcome |-> None,
   status |-> IF Clear(book) THEN "pending_resolution" ELSE "no_clear_signal"]

SignalRow ==
  [market : SignalMarket, book : Books, side : {PredictedSide(book) : book \in Books},
   outcome : {None, "YES", "NO", "cancelled"} \cup UNION {DOMAIN q : q \in Quotes},
   status : Settled \cup {"pending_resolution", "no_clear_signal"}]

ASSUME SignalConstantsOK ==
  /\ PendingLimit \in Nat \ {0} /\ Signal \subseteq Nat
  /\ RecordedOutcomes \subseteq {"yes", "no", "cancelled", "invalid", "unknown"}
  /\ None \notin {"YES", "NO", "cancelled"} \cup RecordedOutcomes \cup SignalRow

-------------------------------------------------------------------------------
(* The outcome of a signal's market.                                       *)

\* Mutant: labels are compared as they are spelt.
FoldedNot(label) == label
\* Labels differ in case between the sources.
Folded(label) ==
  CASE label \in {"YES", "Yes"} -> "yes" [] label \in {"NO", "No"} -> "no" [] OTHER -> label

LocalResolution(m) ==
  CASE known[m] = "yes" -> Resolves("resolved", "YES")
    [] known[m] = "no" -> Resolves("resolved", "NO")
    [] known[m] \in {"cancelled", "invalid"} -> Resolves("cancelled", "cancelled")
    [] OTHER -> Resolves("unknown", None)

\* _winner_from_outcome_prices.
Winner(quote) ==
  LET sure == {v \in DOMAIN quote : /\ quote[v] >= 97
                                    /\ \A w \in DOMAIN quote \ {v} : quote[w] <= 3}
  IN  IF sure = {} THEN None ELSE CHOOSE v \in sure : TRUE

RemoteResolution(m) ==
  CASE gamma[m].state = "absent" -> Resolves("unknown", None)
    [] gamma[m].state = "open" -> Resolves("open", None)
    [] gamma[m].state = "void" -> Resolves("cancelled", "cancelled")
    [] OTHER -> IF Winner(gamma[m].quote) = None THEN Resolves("unknown", None)
                ELSE Resolves("resolved", Winner(gamma[m].quote))

\* A failing request counts like a market that Gamma does not have.
Resolutions(m) ==
  IF known[m] # None THEN {LocalResolution(m)} ELSE {RemoteResolution(m), Resolves("unknown", None)}

Judged(row, outcome) ==
  IF row.side = None THEN "unknown"
  ELSE IF Folded(row.side) = Folded(outcome) THEN "resolved_hit" ELSE "resolved_miss"

\* Mutant: a signal that was not clear is settled like the others.
SettledAnyway(row, r) ==
  IF r.status = "open" THEN row
  ELSE [row EXCEPT !.outcome = r.outcome,
          !.status = IF r.status = "resolved" THEN Judged(row, r.outcome) ELSE r.status]

\* The row after settle_market_signal: a pending signal gets its final status,
\* an unclear one keeps its own, one that is settled stays.
SettledRow(row, r) ==
  IF r.status = "open" \/ row.status \in Settled THEN row
  ELSE [row EXCEPT
          !.outcome = r.outcome,
          !.status = IF row.status = "no_clear_signal" THEN row.status
                     ELSE IF r.status = "resolved" THEN Judged(row, r.outcome) ELSE r.status]
-------------------------------------------------------------------------------
SignalInit ==
  /\ signals = [g \in Signal |-> None]
  /\ known = [m \in SignalMarket |-> None]
  /\ gamma = [m \in SignalMarket |-> OpenMarket]
  /\ batch = [s \in Settler |-> {}]
  /\ loaded = [s \in Settler |-> Empty]
  /\ found = [s \in Settler |-> None]
  /\ mine = [s \in Settler |-> Empty]

\* The end of a wallet analysis.
CreateSignal(g, m, book) ==
  /\ ~Here(g) /\ \A h \in Signal : h < g => Here(h)
  /\ signals' = [signals EXCEPT ![g] = NewSignal(m, book)]
  /\ UNCHANGED <<known, gamma, batch, loaded, found, mine>>

\* Recording, changing and deleting an outcome by hand.
RecordOutcome(m, outcome) ==
  /\ known[m] # outcome
  /\ known' = [known EXCEPT ![m] = outcome]
  /\ UNCHANGED <<signals, gamma, batch, loaded, found, mine>>

GammaCloses(m, state, quote) ==
  /\ gamma[m] = OpenMarket
  /\ gamma' = [gamma EXCEPT ![m] = [state |-> state, quote |-> quote]]
  /\ UNCHANGED <<signals, known, batch, loaded, found, mine>>

Loads(s, due) ==
  /\ batch' = [batch EXCEPT ![s] = due]
  /\ loaded' = [loaded EXCEPT ![s] = [g \in due |-> signals[g]]]
  /\ UNCHANGED <<signals, known, gamma, found, mine>>

BeginSettle(s, g) == Unoccupied(s) /\ Here(g) /\ Loads(s, {g})

Oldest ==
  LET pending == {g \in Signal : Here(g) /\ signals[g].status = "pending_resolution"}
  IN  {g \in pending : Cardinality({h \in pending : h < g}) < PendingLimit}

BeginSettlePending(s) == Unoccupied(s) /\ Oldest # {} /\ Loads(s, Oldest)

Resolve(s) ==
  /\ batch[s] # {} /\ found[s] = None
  /\ \E r \in Resolutions(loaded[s][Min(batch[s])].market) : found' = [found EXCEPT ![s] = r]
  /\ UNCHANGED <<signals, known, gamma, batch, loaded, mine>>

\* A row that another session has changed is locked until that session ends.
WriteSettled(s) ==
  LET g == Min(batch[s])
      row == SettledRow(loaded[s][g], found[s])
  IN  /\ found[s] # None
      /\ IF row = loaded[s][g] THEN UNCHANGED mine
         ELSE /\ \A t \in Settler \ {s} : g \notin DOMAIN mine[t]
              /\ mine' = [mine EXCEPT ![s] = [h \in DOMAIN @ \cup {g} |-> IF h = g THEN row ELSE @[h]]]
      /\ found' = [found EXCEPT ![s] = None]
      /\ batch' = [batch EXCEPT ![s] = @ \ {g}]
      /\ UNCHANGED <<signals, known, gamma, loaded>>

\* Only the columns that differ from what was loaded are written.
Column(old, new, current) == IF new = old THEN current ELSE new

Merged(s, g) ==
  LET old == loaded[s][g]
      new == mine[s][g]
  IN  [signals[g] EXCEPT !.status = Column(old.status, new.status, @),
                         !.outcome = Column(old.outcome, new.outcome, @)]

EndsSettling(s) ==
  /\ loaded' = [loaded EXCEPT ![s] = Empty]
  /\ mine' = [mine EXCEPT ![s] = Empty]

CommitSettled(s) ==
  /\ batch[s] = {} /\ DOMAIN loaded[s] # {}
  /\ signals' = [g \in Signal |-> IF g \in DOMAIN mine[s] THEN Merged(s, g) ELSE signals[g]]
  /\ EndsSettling(s)
  /\ UNCHANGED <<known, gamma, batch, found>>

\* The process ends or the database fails: the session is rolled back.
SettlingFails(s) ==
  /\ DOMAIN loaded[s] # {}
  /\ EndsSettling(s)
  /\ batch' = [batch EXCEPT ![s] = {}]
  /\ found' = [found EXCEPT ![s] = None]
  /\ UNCHANGED <<signals, known, gamma>>

SettlerStep(s) ==
  \/ \E g \in Signal : BeginSettle(s, g)
  \/ BeginSettlePending(s) \/ Resolve(s) \/ WriteSettled(s) \/ CommitSettled(s)
  \/ SettlingFails(s)

SignalNext ==
  \/ \E g \in Signal, m \in SignalMarket, book \in Books : CreateSignal(g, m, book)
  \/ \E m \in SignalMarket, o \in RecordedOutcomes \cup {None} : RecordOutcome(m, o)
  \/ \E m \in SignalMarket, q \in Quotes : GammaCloses(m, "closed", q)
  \/ \E m \in SignalMarket, state \in {"void", "absent"} : GammaCloses(m, state, None)
  \/ \E s \in Settler : SettlerStep(s)

SignalSpec == SignalInit /\ [][SignalNext]_signalVars
-------------------------------------------------------------------------------
SignalTypeOK ==
  /\ signals \in [Signal -> SignalRow \cup {None}]
  /\ known \in [SignalMarket -> RecordedOutcomes \cup {None}]
  /\ \A s \in Settler : DOMAIN mine[s] \subseteq DOMAIN loaded[s]

\* Two labels name one outcome: the same text, or spellings of yes or of no.
SameOutcome(a, b) ==
  a = b \/ \E spellings \in {{"YES", "Yes", "yes"}, {"NO", "No", "no"}} : {a, b} \subseteq spellings

\* Whatever sessions overlap, a signal counted as right or wrong carries the
\* outcome that says so, and its balance was clear when it was made: the win
\* rate divides by exactly these (build_market_signal_metrics).
CountedHonestly ==
  \A g \in Signal :
    Here(g) /\ signals[g].status \in Counted =>
      /\ Clear(signals[g].book) /\ signals[g].outcome # None
      /\ signals[g].status = "resolved_hit" <=> SameOutcome(signals[g].side, signals[g].outcome)
===============================================================================
