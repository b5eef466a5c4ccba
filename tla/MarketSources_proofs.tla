------------------------- MODULE MarketSources_proofs -------------------------
(***************************************************************************)
(* External signals, research runs and the analysis queue, proved for      *)
(* every value of their constants.                                         *)
(***************************************************************************)
EXTENDS ExternalSignals, ResearchRuns, AnalysisQueue,
        FiniteSetTheorems, WellFoundedInduction, TLAPS

-------------------------------------------------------------------------------
(* External signals: a sure link contradicts nothing.                      *)

LEMMA NatMin ==
  ASSUME NEW T \in SUBSET Nat, T # {}
  PROVE  /\ Min(T) \in T /\ \A k \in T : Min(T) <= k
<1>1. PICK x \in T : \A y \in T : ~(<<y, x>> \in OpToRel(<, Nat))
  BY NatLessThanWellFounded, WFMin
<1>2. \A y \in T : ~(y < x)
  BY <1>1 DEF OpToRel
<1>3. \E m \in T : \A k \in T : m <= k
  BY <1>2
<1>4. QED BY <1>3 DEF Min

\* A cap caps.
LEMMA Capped ==
  ASSUME NEW C \in SUBSET Nat, NEW x \in Int, NEW cap \in C
  PROVE  Max({0, Min({x} \cup C)}) \in Nat /\ Max({0, Min({x} \cup C)}) <= cap
<1> DEFINE S == {x} \cup C
           c == Min(C)
           m == Min(S)
<1>1. c \in C /\ c \in Nat /\ \A k \in C : k \in Nat /\ c <= k
  BY NatMin
<1> HIDE DEF c, m
<1>2. \E l \in S : \A k \in S : l <= k
  <2>1. CASE x <= c
    <3>1. x \in S /\ \A k \in S : x <= k
      BY <1>1, <2>1
    <3> HIDE DEF S
    <3>2. QED BY <3>1
  <2>2. CASE ~(x <= c)
    <3>1. c \in S /\ \A k \in S : c <= k
      BY <1>1, <2>2
    <3> HIDE DEF S
    <3>2. QED BY <3>1
  <2>3. QED BY <2>1, <2>2
<1>3. m \in S /\ \A k \in S : m <= k
  <2> HIDE DEF S
  <2>1. QED BY <1>2 DEF Min, m
<1>4. m \in Int /\ m <= cap
  BY <1>1, <1>3
<1> HIDE DEF S
<1>5. \E l \in {0, m} : \A k \in {0, m} : l >= k
  BY <1>4
<1>6. Max({0, m}) \in {0, m} /\ \A k \in {0, m} : Max({0, m}) >= k
  BY <1>5 DEF Max
<1>7. cap \in Nat
  OBVIOUS
<1>8. QED BY <1>4, <1>6, <1>7 DEF m, S

LEMMA SimilarityIs ==
  ASSUME NEW a \in DOMAIN Titles, NEW b \in DOMAIN Titles
  PROVE  Similarity(a, b) \in Int
<1> DEFINE shared == Cardinality(Titles[a].words \cap Titles[b].words)
           all == Cardinality(Titles[a].words \cup Titles[b].words)
<1>1. IsFiniteSet(Titles[a].words) /\ IsFiniteSet(Titles[b].words)
  BY ExternalConstantsOK
<1>2. shared \in Nat /\ all \in Nat /\ IsFiniteSet(Titles[a].words \cup Titles[b].words)
  BY <1>1, FS_Intersection, FS_Union, FS_CardinalityType
<1>3. CASE Titles[a].words = {} \/ Titles[b].words = {}
  BY <1>3 DEF Similarity
<1>4. CASE ~(Titles[a].words = {} \/ Titles[b].words = {})
  <2>1. all # 0
    BY <1>2, <1>4, FS_EmptySet
  <2>2. Similarity(a, b) = (20000 * shared + all) \div (2 * all)
    BY <1>4 DEF Similarity
  <2> HIDE DEF shared, all
  <2>3. QED BY <1>2, <2>1, <2>2
<1>5. QED BY <1>3, <1>4

LEMMA ConfidenceCapped ==
  ASSUME NEW a \in MarketTitles, NEW b \in SignalTitles, NEW cap \in Caps(a, b)
  PROVE  MatchConfidence[a][b] \in Nat /\ MatchConfidence[a][b] <= cap
<1> DEFINE x == Similarity(a, b) + YearWeight(a, b) + SportWeight(a, b) + TeamWeight(a, b)
                  + ShapeWeight(a, b) + TermWeight(a, b)
<1>1. x \in Int
  <2>1. Similarity(a, b) \in Int
    BY SimilarityIs, ExternalConstantsOK
  <2>2. YearWeight(a, b) \in Int
    BY DEF YearWeight
  <2>3. SportWeight(a, b) \in Int
    BY DEF SportWeight
  <2>4. TeamWeight(a, b) \in Int
    BY DEF TeamWeight
  <2>5. ShapeWeight(a, b) \in Int
    BY DEF ShapeWeight
  <2>6. TermWeight(a, b) \in Int
    BY DEF TermWeight
  <2>7. QED BY <2>1, <2>2, <2>3, <2>4, <2>5, <2>6
<1>2. Caps(a, b) \subseteq Nat
  BY DEF Caps
<1>3. MatchConfidence[a][b] = FourDecimals(Max({0, Min({x} \cup Caps(a, b))}))
  BY DEF MatchConfidence
<1>4. cap \in {50000, 27500, 22500, 25000, 32500, 29500}
  BY DEF Caps
<1> HIDE DEF x
<1>5. PICK c : c = Max({0, Min({x} \cup Caps(a, b))})
  OBVIOUS
<1>6. c \in Nat /\ c <= cap
  BY <1>1, <1>2, <1>5, Capped
<1>7. QED BY <1>3, <1>4, <1>5, <1>6 DEF FourDecimals

\* What the confidence of a sure link rules out.
LEMMA SureMatch ==
  ASSUME NEW a \in MarketTitles, NEW b \in SignalTitles, MatchConfidence[a][b] >= MATCH_LINK_THRESHOLD
  PROVE  /\ Titles[a].teams \cap Titles[b].teams # {} /\ ~Titles[b].several
         /\ Titles[a].years # {} /\ Titles[b].years # {} => Titles[a].years \cap Titles[b].years # {}
         /\ Titles[a].sport # None /\ Titles[b].sport # None => Titles[a].sport = Titles[b].sport
         /\ Titles[a].shape # None /\ Titles[b].shape # None => Compatible(Titles[a].shape, Titles[b].shape)
<1>1. \A c \in Caps(a, b) : c \in Nat => c >= 40000
  <2>1. \A c \in Caps(a, b) : MatchConfidence[a][b] \in Nat /\ MatchConfidence[a][b] <= c
    BY ConfidenceCapped
  <2>2. QED BY <2>1 DEF MATCH_LINK_THRESHOLD
<1>2. 22500 \notin Caps(a, b) /\ 25000 \notin Caps(a, b) /\ 27500 \notin Caps(a, b)
      /\ 29500 \notin Caps(a, b) /\ 32500 \notin Caps(a, b)
  BY <1>1
<1>3. BothHave(a, b, "teams") /\ Meet(a, b, "teams")
  BY <1>2 DEF Caps
<1>4. ~Titles[b].several
  BY <1>2 DEF Caps
<1>5. BothHave(a, b, "years") => Meet(a, b, "years")
  BY <1>2 DEF Caps
<1>6. Known(a, b, "sport") => Titles[a].sport = Titles[b].sport
  BY <1>2 DEF Caps
<1>7. Known(a, b, "shape") => Compatible(Titles[a].shape, Titles[b].shape)
  BY <1>2 DEF Caps
<1>8. QED BY <1>3, <1>4, <1>5, <1>6, <1>7 DEF Meet, BothHave, Known

LEMMA ConcatIs ==
  ASSUME NEW S, NEW s \in Seq(S), NEW t \in Seq(S)
  PROVE  /\ s \o t \in Seq(S) /\ Len(s \o t) = Len(s) + Len(t)
         /\ \A i \in DOMAIN (s \o t) : (s \o t)[i] = IF i <= Len(s) THEN s[i] ELSE t[i - Len(s)]
OBVIOUS

SignalRows ==
  [title : SignalTitles, yes : {Implied(q) : q \in BookQuotes}, sure : {SourceConfidence(q) : q \in BookQuotes},
   market : Nat, confidence : Int]

\* A row is linked with the confidence of its own title and its market's.
RowIsLinked(row, titles) ==
  \/ row.confidence = 0
  \/ row.market \in DOMAIN titles /\ row.confidence = MatchConfidence[titles[row.market]][row.title]

LinkInv ==
  /\ listed \in Seq(MarketTitles)
  /\ received \in Seq(SignalRows)
  /\ \A i \in DOMAIN received : RowIsLinked(received[i], listed)
  /\ \A x \in Matcher : matchers[x] # None =>
       /\ matchers[x].rows \subseteq DOMAIN received
       /\ matchers[x].titles \in Seq(MarketTitles) /\ Len(matchers[x].titles) <= Len(listed)
       /\ \A i \in DOMAIN matchers[x].titles : matchers[x].titles[i] = listed[i]

\* For any titles, feeds and overlapping matchers: a link at or above the threshold joins
\* titles that share a team and agree in year, sport and shape (estimate_match_confidence).
THEOREM SureLinksAgree == ExternalSpec => []SureLinksDoNotContradict
<1>1. ExternalInit => LinkInv
  BY DEF ExternalInit, LinkInv
<1>2. LinkInv /\ [ExternalNext]_externalVars => LinkInv'
  <2> SUFFICES ASSUME LinkInv, [ExternalNext]_externalVars PROVE LinkInv'
    OBVIOUS
  <2> USE DEF LinkInv
  <2>1. CASE MarketImported
    <3>1. PICK t \in MarketTitles : listed' = Append(listed, t)
      BY <2>1 DEF MarketImported
    <3>2. received' = received /\ matchers' = matchers
      BY <2>1 DEF MarketImported
    <3>3. listed' \in Seq(MarketTitles) /\ Len(listed') = Len(listed) + 1
          /\ \A i \in DOMAIN listed : i \in DOMAIN listed' /\ listed'[i] = listed[i]
      BY <3>1
    <3>4. \A i \in DOMAIN received : RowIsLinked(received[i], listed')
      <4> SUFFICES ASSUME NEW i \in DOMAIN received PROVE RowIsLinked(received[i], listed')
        OBVIOUS
      <4>1. RowIsLinked(received[i], listed)
        OBVIOUS
      <4> DEFINE row == received[i]
      <4> HIDE DEF row
      <4>2. RowIsLinked(row, listed) => RowIsLinked(row, listed')
        BY <3>3 DEF RowIsLinked
      <4>3. QED BY <4>1, <4>2 DEF row
    <3>5. ASSUME NEW x \in Matcher, matchers[x] # None
          PROVE  /\ Len(matchers[x].titles) <= Len(listed')
                 /\ \A i \in DOMAIN matchers[x].titles : matchers[x].titles[i] = listed'[i]
      <4> DEFINE titles == matchers[x].titles
      <4>1. titles \in Seq(MarketTitles) /\ Len(titles) <= Len(listed) /\ \A i \in DOMAIN titles : titles[i] = listed[i]
        BY <3>5
      <4> HIDE DEF titles
      <4>2. \A i \in DOMAIN titles : i \in DOMAIN listed
        BY <4>1
      <4>3. QED BY <3>3, <4>1, <4>2 DEF titles
    <3>6. QED BY <3>2, <3>3, <3>4, <3>5
  <2>2. CASE Fetched
    <3>0. PICK size \in 1 .. 2 :
            \E page \in [1 .. size -> SignalTitles \X BookQuotes] :
              received' = received \o [k \in 1 .. size |-> Row(page[k][1], page[k][2])]
      BY <2>2 DEF Fetched
    <3>1. PICK page \in [1 .. size -> SignalTitles \X BookQuotes] :
            received' = received \o [k \in 1 .. size |-> Row(page[k][1], page[k][2])]
      BY <3>0
    <3> DEFINE new == [k \in 1 .. size |-> Row(page[k][1], page[k][2])]
    <3>2. \A k \in 1 .. size : new[k] \in SignalRows /\ new[k].confidence = 0
      BY DEF Row, SignalRows
    <3>3. new \in Seq(SignalRows) /\ DOMAIN new = 1 .. size
      BY <3>2
    <3> HIDE DEF new
    <3>4. /\ received' \in Seq(SignalRows) /\ Len(received') = Len(received) + Len(new)
          /\ \A i \in DOMAIN received' : received'[i] = IF i <= Len(received) THEN received[i] ELSE new[i - Len(received)]
      BY <3>1, <3>3, ConcatIs DEF new
    <3>5. listed' = listed /\ matchers' = matchers
      BY <2>2 DEF Fetched
    <3>6. \A i \in DOMAIN received' : RowIsLinked(received'[i], listed)
      <4> SUFFICES ASSUME NEW i \in DOMAIN received' PROVE RowIsLinked(received'[i], listed)
        OBVIOUS
      <4>1. CASE i <= Len(received)
        BY <3>4, <4>1
      <4>2. CASE ~(i <= Len(received))
        <5>1. i - Len(received) \in DOMAIN new
          BY <3>3, <3>4, <4>2
        <5>2. received'[i] = new[i - Len(received)]
          BY <3>4, <4>2
        <5>3. new[i - Len(received)].confidence = 0
          BY <3>2, <3>3, <5>1
        <5>4. QED BY <5>2, <5>3 DEF RowIsLinked
      <4>3. QED BY <4>1, <4>2
    <3>7. DOMAIN received \subseteq DOMAIN received'
      BY <3>3, <3>4
    <3>8. QED BY <3>4, <3>5, <3>6, <3>7
  <2>3. ASSUME NEW x \in Matcher, BeginMatching(x) PROVE LinkInv'
    <3>1. PICK least \in Thresholds :
            matchers' = [matchers EXCEPT ![x] = [rows |-> Unlinked, titles |-> listed, least |-> least]]
      BY <2>3 DEF BeginMatching
    <3>2. Unlinked \subseteq DOMAIN received
      BY DEF Unlinked
    <3>3. ASSUME NEW y \in Matcher, matchers'[y] # None
          PROVE  /\ matchers'[y].rows \subseteq DOMAIN received
                 /\ matchers'[y].titles \in Seq(MarketTitles) /\ Len(matchers'[y].titles) <= Len(listed)
                 /\ \A i \in DOMAIN matchers'[y].titles : matchers'[y].titles[i] = listed[i]
      <4>1. \/ matchers'[y] = matchers[y]
            \/ matchers'[y] = [rows |-> Unlinked, titles |-> listed, least |-> least]
        BY <3>1
      <4>2. QED BY <3>2, <3>3, <4>1
    <3>4. received' = received /\ listed' = listed
      BY <2>3 DEF BeginMatching
    <3>5. QED BY <3>3, <3>4
  <2>4. ASSUME NEW x \in Matcher, CommitMatching(x) PROVE LinkInv'
    <3>1. listed' = listed /\ matchers' = [matchers EXCEPT ![x] = None] /\ matchers[x] # None
      BY <2>4 DEF CommitMatching
    <3>2. CASE matchers[x].titles = <<>>
      BY <2>4, <3>1, <3>2 DEF CommitMatching
    <3>3. CASE matchers[x].titles # <<>>
      <4> DEFINE titles == matchers[x].titles
                 rows == matchers[x].rows
      <4>1. PICK best \in [rows -> DOMAIN titles] : received' = Matched(x, best)
        BY <2>4, <3>3 DEF CommitMatching
      <4>2. /\ titles \in Seq(MarketTitles) /\ Len(titles) <= Len(listed) /\ rows \subseteq DOMAIN received
            /\ \A i \in DOMAIN titles : titles[i] = listed[i]
        BY <3>1
      <4>3. received' = [i \in DOMAIN received |-> received'[i]]
        BY <4>1 DEF Matched
      <4>4. ASSUME NEW i \in DOMAIN received
            PROVE  received'[i] \in SignalRows /\ RowIsLinked(received'[i], listed)
        <5> DEFINE c == MatchConfidence[titles[best[i]]][received[i].title]
        <5>1. received[i] \in SignalRows /\ RowIsLinked(received[i], listed)
          OBVIOUS
        <5>2. \/ received'[i] = received[i]
              \/ i \in rows /\ received'[i] = [received[i] EXCEPT !.market = best[i], !.confidence = c]
          BY <4>1 DEF Matched
        <5>3. CASE i \in rows /\ received'[i] = [received[i] EXCEPT !.market = best[i], !.confidence = c]
          <6>1. best[i] \in DOMAIN titles /\ best[i] \in Nat /\ best[i] \in DOMAIN listed
                /\ titles[best[i]] = listed[best[i]] /\ titles[best[i]] \in MarketTitles
            <7>1. best[i] \in DOMAIN titles
              BY <5>3
            <7> HIDE DEF titles
            <7>2. QED BY <4>2, <7>1
          <6>2. received[i].title \in SignalTitles
            BY <5>1 DEF SignalRows
          <6>3. c \in Nat
            <7>1. 50000 \in Caps(titles[best[i]], received[i].title)
              BY DEF Caps
            <7>2. QED BY <6>1, <6>2, <7>1, ConfidenceCapped
          <6> HIDE DEF titles, rows, c
          <6>4. received'[i] \in SignalRows /\ received'[i].market = best[i] /\ received'[i].confidence = c
                /\ received'[i].title = received[i].title
            <7> DEFINE old == received[i]
                       b == best[i]
            <7>1. old \in SignalRows /\ b \in Nat /\ c \in Int
              BY <5>1, <6>1, <6>3
            <7>2. received'[i] = [old EXCEPT !.market = b, !.confidence = c]
              BY <5>3 DEF c
            <7> HIDE DEF old, b, c
            <7>3. LET r == [old EXCEPT !.market = b, !.confidence = c]
                  IN  r \in SignalRows /\ r.market = b /\ r.confidence = c /\ r.title = old.title
              BY ONLY <7>1 DEF SignalRows
            <7>4. QED BY ONLY <7>2, <7>3 DEF old, b
          <6>5. c = MatchConfidence[listed[best[i]]][received[i].title]
            BY <6>1 DEF c
          <6>6. QED BY <6>1, <6>4, <6>5 DEF RowIsLinked
        <5>4. QED BY <5>1, <5>2, <5>3
      <4>5. received' \in Seq(SignalRows) /\ DOMAIN received' = DOMAIN received
        <5>1. Len(received) \in Nat /\ DOMAIN received = 1 .. Len(received)
          OBVIOUS
        <5>2. QED BY <4>3, <4>4, <5>1
      <4>6. QED BY <3>1, <4>4, <4>5
    <3>4. QED BY <3>2, <3>3
  <2>5. ASSUME NEW x \in Matcher, EndMatching(x) PROVE LinkInv'
    BY <2>5 DEF EndMatching
  <2>6. CASE UNCHANGED externalVars
    BY <2>6 DEF externalVars
  <2>7. QED BY <2>1, <2>2, <2>3, <2>4, <2>5, <2>6 DEF ExternalNext
<1>3. LinkInv => SureLinksDoNotContradict
  <2> SUFFICES ASSUME LinkInv, NEW i \in SureLinks
               PROVE  LET a == Titles[listed[received[i].market]]
                          b == Titles[received[i].title]
                      IN /\ a.teams \cap b.teams # {} /\ ~b.several
                         /\ a.years # {} /\ b.years # {} => a.years \cap b.years # {}
                         /\ a.sport # None /\ b.sport # None => a.sport = b.sport
                         /\ a.shape # None /\ b.shape # None => Compatible(a.shape, b.shape)
    BY DEF SureLinksDoNotContradict
  <2> DEFINE m == received[i].market
             a == listed[m]
             b == received[i].title
  <2>1. i \in DOMAIN received /\ received[i] \in SignalRows /\ received[i].confidence >= MATCH_LINK_THRESHOLD
    BY DEF SureLinks, LinkInv
  <2>2. received[i].confidence # 0
    BY <2>1 DEF MATCH_LINK_THRESHOLD
  <2>3. m \in DOMAIN listed /\ received[i].confidence = MatchConfidence[a][b] /\ b \in SignalTitles
    BY <2>1, <2>2 DEF LinkInv, RowIsLinked, SignalRows
  <2>4. a \in MarketTitles
    BY <2>3 DEF LinkInv
  <2> HIDE DEF a, b
  <2>5. /\ Titles[a].teams \cap Titles[b].teams # {} /\ ~Titles[b].several
        /\ Titles[a].years # {} /\ Titles[b].years # {} => Titles[a].years \cap Titles[b].years # {}
        /\ Titles[a].sport # None /\ Titles[b].sport # None => Titles[a].sport = Titles[b].sport
        /\ Titles[a].shape # None /\ Titles[b].shape # None => Compatible(Titles[a].shape, Titles[b].shape)
    BY <2>1, <2>3, <2>4, SureMatch
  <2>6. QED BY <2>5 DEF a, b
<1>4. QED BY <1>1, <1>2, <1>3, PTL DEF ExternalSpec

-------------------------------------------------------------------------------
(* Research runs: the gate of the responses.                               *)

FitUnreviewed(f) ==
  f.family = "codex" /\ ~f.allowed =>
    /\ f.body.mode = "real_web" /\ ~f.body.review
    /\ f.body.pros > 0 /\ f.body.cons > 0
    /\ 2 * f.body.cited > Total(f.body) /\ f.body.valid = f.body.cited

RunRow == [market : Subject, status : {"completed", "failed", "pending_agent", "review_required"}]
File == [to : Nat \X Subject, body : Responses]
Made == [run : Nat, family : {"llm", "local", "codex"}, body : Responses \cup {None},
         allowed : BOOLEAN, opportunity : BOOLEAN]

\* Response files come from the agent; what was let in unreviewed was fit for it.
ResearchInv ==
  /\ runs \in Seq(RunRow) /\ response \in Seq(File \cup {None})
  /\ Len(response) = Len(runs)
  /\ forecasts \in Seq(Made) /\ \A i \in DOMAIN forecasts : FitUnreviewed(forecasts[i])

\* A verdict that lets a response in says that it is fit.
LEMMA LetInIsFit ==
  ASSUME NEW file, NEW r, file.body \in Responses, Verdict(file, r) = "ingest"
  PROVE  /\ file.body.mode = "real_web" /\ ~file.body.review
         /\ file.body.pros > 0 /\ file.body.cons > 0
         /\ 2 * file.body.cited > Total(file.body) /\ file.body.valid = file.body.cited
<1> DEFINE b == file.body
<1>1. b.mode = "real_web" /\ ~b.review /\ ~Warned(b)
  BY DEF Verdict
<1>2. /\ b.pros \in Nat /\ b.cons \in Nat /\ b.cited \in Nat /\ b.valid \in Nat /\ b.valid <= b.cited
  BY ResearchConstantsOK
<1>3. /\ b.pros # 0 /\ b.cons # 0 /\ ~(b.valid < b.cited) /\ ~(2 * b.cited <= b.pros + b.cons)
  BY <1>1 DEF Warned, Total
<1>4. QED BY <1>1, <1>2, <1>3 DEF Total

LEMMA ForecastIs ==
  ASSUME NEW run \in Nat, NEW price, NEW low, NEW shift, NEW confidence,
         NEW family \in {"llm", "local", "codex"}, NEW body \in Responses \cup {None},
         NEW allowed \in BOOLEAN
  PROVE  /\ Forecast(run, price, low, shift, confidence, family, body, allowed) \in Made
         /\ Forecast(run, price, low, shift, confidence, family, body, allowed).family = family
         /\ Forecast(run, price, low, shift, confidence, family, body, allowed).body = body
         /\ Forecast(run, price, low, shift, confidence, family, body, allowed).allowed = allowed
BY DEF Forecast, Made

\* Two sequences follow each other.
LEMMA JoinIs ==
  ASSUME NEW X, NEW q \in Seq(X), NEW e \in Seq(X)
  PROVE  /\ q \o e \in Seq(X) /\ Len(q \o e) = Len(q) + Len(e)
         /\ \A i \in DOMAIN (q \o e) : \/ i \in DOMAIN q /\ (q \o e)[i] = q[i]
                                       \/ i - Len(q) \in DOMAIN e /\ (q \o e)[i] = e[i - Len(q)]
OBVIOUS

\* Runs are recorded together with their places for files.
LEMMA RecordedKeeps ==
  ASSUME ResearchInv, NEW row \in RunRow, Recorded(<<row>>)
  PROVE  /\ runs' \in Seq(RunRow) /\ response' \in Seq(File \cup {None})
         /\ Len(response') = Len(runs')
<1> DEFINE gap == [i \in DOMAIN <<row>> |-> None]
<1>1. gap \in Seq(File \cup {None}) /\ Len(gap) = 1
  OBVIOUS
<1>2. <<row>> \in Seq(RunRow) /\ Len(<<row>>) = 1
  OBVIOUS
<1>3. runs' = runs \o <<row>> /\ response' = response \o gap
  BY DEF Recorded
<1> HIDE DEF gap
<1>4. runs \in Seq(RunRow) /\ response \in Seq(File \cup {None}) /\ Len(response) = Len(runs)
  BY DEF ResearchInv
<1>5. runs' \in Seq(RunRow) /\ Len(runs') = Len(runs) + 1
  BY <1>2, <1>3, <1>4
<1>6. response' \in Seq(File \cup {None}) /\ Len(response') = Len(response) + 1
  <2> DEFINE X == File \cup {None}
  <2>1. gap \in Seq(X) /\ response \in Seq(X) /\ Len(gap) = 1
    BY <1>1, <1>4
  <2> HIDE DEF X
  <2>2. response \o gap \in Seq(X) /\ Len(response \o gap) = Len(response) + Len(gap)
    BY ONLY <2>1, JoinIs
  <2>3. QED BY <1>3, <2>1, <2>2 DEF X
<1>7. QED BY <1>4, <1>5, <1>6

\* A step that records no forecast.
LEMMA NoForecast ==
  ASSUME ResearchInv, UNCHANGED forecasts, runs' \in Seq(RunRow),
         response' \in Seq(File \cup {None}), Len(response') = Len(runs')
  PROVE  ResearchInv'
BY DEF ResearchInv, FitUnreviewed

LEMMA EndsAsIs ==
  ASSUME ResearchInv, NEW r \in DOMAIN runs,
         NEW status \in {"completed", "failed", "pending_agent", "review_required"},
         EndsAs(r, status)
  PROVE  runs' \in Seq(RunRow) /\ Len(runs') = Len(runs)
<1>1. [runs[r] EXCEPT !.status = status] \in RunRow
  <2>1. runs[r] \in RunRow
    BY DEF ResearchInv
  <2>2. QED BY <2>1 DEF RunRow
<1>2. runs' = [runs EXCEPT ![r] = [runs[r] EXCEPT !.status = status]] /\ runs \in Seq(RunRow)
  BY DEF EndsAs, ResearchInv
<1>3. QED BY <1>1, <1>2

LEMMA ResearchStep ==
  ASSUME ResearchInv, [ResearchNext]_researchVars
  PROVE  ResearchInv'
<1>1. CASE UNCHANGED <<runs, response, forecasts>>
  BY <1>1 DEF ResearchInv, FitUnreviewed
<1>2. ASSUME NEW m \in Subject, Prepare(m)
      PROVE  ResearchInv'
  <2>1. NewRun(m, "pending_agent") \in RunRow
    BY DEF NewRun, RunRow
  <2>2. QED BY <1>2, <2>1, RecordedKeeps, NoForecast DEF Prepare
<1>3. ASSUME NEW m \in Subject, NEW open \in BOOLEAN, NEW predicts \in BOOLEAN, NEW a \in Answers,
             RunResearch(m, open, Output(a), predicts)
      PROVE  ResearchInv'
  <2> DEFINE out == Output(a)
             result == Researched(m, open, out)
             made == IF predicts THEN result.made ELSE <<>>
  <2>1. Recorded(<<result.run>>) /\ forecasts' = forecasts \o made
    BY <1>3 DEF RunResearch
  <2>2. result.run \in RunRow
    BY DEF Researched, NewRun, RunRow
  <2>3. /\ made \in Seq(Made)
        /\ \A i \in DOMAIN made : made[i].family # "codex"
    <3> DEFINE n == Len(runs) + 1
    <3>1. n \in Nat
      BY DEF ResearchInv
    <3>2. result.made = <<>> \/ \E f \in Made : f.family # "codex" /\ result.made = <<f>>
      <4>1. CASE quote[m] = None
        BY <4>1 DEF Researched
      <4>2. CASE quote[m] # None /\ out # None
        <5> DEFINE f == Forecast(n, quote[m], 100, out.shift, out.confidence, "llm", None, FALSE)
        <5>1. f \in Made /\ f.family = "llm"
          <6> DEFINE price == quote[m]
                     shift == out.shift
                     confidence == out.confidence
          <6> HIDE DEF n, out, price, shift, confidence
          <6>1. /\ Forecast(n, price, 100, shift, confidence, "llm", None, FALSE) \in Made
                /\ Forecast(n, price, 100, shift, confidence, "llm", None, FALSE).family = "llm"
            BY ONLY <3>1 DEF Forecast, Made
          <6>2. QED BY <6>1 DEF price, shift, confidence
        <5>2. result.made = <<f>>
          BY <4>2 DEF Researched
        <5> HIDE DEF f
        <5>3. QED BY <5>1, <5>2
      <4>3. CASE quote[m] # None /\ out = None
        <5> DEFINE items == IF open THEN gathered[m] ELSE {}
                   f == Forecast(n, quote[m], 0, LocalShift(items, quote[m]),
                                 LocalConfidence(items, quote[m], m \in Duel), "local", None, FALSE)
        <5>1. f \in Made /\ f.family = "local"
          <6> DEFINE price == quote[m]
                     shift == LocalShift(items, quote[m])
                     confidence == LocalConfidence(items, quote[m], m \in Duel)
          <6> HIDE DEF n, price, shift, confidence
          <6>1. /\ Forecast(n, price, 0, shift, confidence, "local", None, FALSE) \in Made
                /\ Forecast(n, price, 0, shift, confidence, "local", None, FALSE).family = "local"
            BY ONLY <3>1 DEF Forecast, Made
          <6>2. QED BY <6>1 DEF price, shift, confidence
        <5>2. result.made = <<f>>
          BY <4>3 DEF Researched
        <5> HIDE DEF f
        <5>3. QED BY <5>1, <5>2
      <4>4. QED BY <4>1, <4>2, <4>3
    <3> HIDE DEF result
    <3>3. CASE made = <<>>
      <4> HIDE DEF made
      <4>1. <<>> \in Seq(Made) /\ DOMAIN <<>> = {}
        OBVIOUS
      <4>2. QED BY <3>3, <4>1
    <3>4. CASE made # <<>>
      <4>1. PICK f \in Made : f.family # "codex" /\ made = <<f>>
        BY <3>2, <3>4
      <4> HIDE DEF made
      <4>2. made \in Seq(Made) /\ DOMAIN made = {1} /\ made[1] = f
        BY <4>1
      <4>3. QED BY <4>1, <4>2
    <3>5. QED BY <3>3, <3>4
  <2> HIDE DEF made, result
  <2>4. /\ forecasts \in Seq(Made) /\ \A i \in DOMAIN forecasts : FitUnreviewed(forecasts[i])
    BY DEF ResearchInv
  <2>5. forecasts' \in Seq(Made) /\ \A i \in DOMAIN forecasts' :
          \/ i \in DOMAIN forecasts /\ forecasts'[i] = forecasts[i]
          \/ i - Len(forecasts) \in DOMAIN made /\ forecasts'[i] = made[i - Len(forecasts)]
    BY <2>1, <2>3, <2>4, JoinIs
  <2>6. \A i \in DOMAIN forecasts' : FitUnreviewed(forecasts'[i])
    BY <2>3, <2>4, <2>5 DEF FitUnreviewed
  <2>7. QED BY <2>1, <2>2, <2>5, <2>6, RecordedKeeps DEF ResearchInv
<1>4. ASSUME NEW r \in DOMAIN runs, NEW to \in DOMAIN runs, NEW b \in Responses, AgentWrites(r, to, b)
      PROVE  ResearchInv'
  <2>1. [to |-> <<to, runs[to].market>>, body |-> b] \in File
    <3>1. runs[to] \in RunRow /\ to \in Nat
      BY DEF ResearchInv
    <3>2. QED BY <3>1 DEF File, RunRow
  <2>2. response' \in Seq(File \cup {None}) /\ Len(response') = Len(response)
    <3> DEFINE X == File \cup {None}
    <3>1. response \in Seq(X) /\ [to |-> <<to, runs[to].market>>, body |-> b] \in X
      BY <2>1 DEF ResearchInv
    <3>2. response' = [response EXCEPT ![r] = [to |-> <<to, runs[to].market>>, body |-> b]]
      BY <1>4 DEF AgentWrites
    <3> HIDE DEF X
    <3>3. response' \in Seq(X) /\ Len(response') = Len(response)
      <4>1. response \in [1 .. Len(response) -> X] /\ Len(response) \in Nat
        BY <3>1
      <4>2. response' \in [1 .. Len(response) -> X]
        BY <3>1, <3>2, <4>1
      <4>3. QED BY <4>1, <4>2
    <3>4. QED BY <3>3 DEF X
  <2>3. QED BY <1>4, <2>2, NoForecast DEF AgentWrites, ResearchInv
<1>5. ASSUME NEW r \in DOMAIN runs, IngestUnread(r)
      PROVE  ResearchInv'
  BY <1>5, EndsAsIs, NoForecast DEF IngestUnread, ResearchInv
<1>6. ASSUME NEW r \in DOMAIN runs, NEW allow \in BOOLEAN, Ingest(r, allow)
      PROVE  ResearchInv'
  <2> DEFINE verdict == CurrentVerdict(r)
             b == response[r].body
  <2>1. verdict \in {"reject", "review_required", "ingest"}
    BY DEF CurrentVerdict, Verdict
  <2>2. b \in Responses
    BY <1>6 DEF Ingest, ResearchInv, File
  <2>3. PICK status \in {"completed", "failed", "review_required"} : EndsAs(r, status)
    BY <1>6, <2>1 DEF Ingest
  <2>4. /\ runs' \in Seq(RunRow) /\ response' = response /\ Len(runs') = Len(runs)
    BY <1>6, <2>3, EndsAsIs DEF Ingest
  <2>5. CASE forecasts' = forecasts
    BY <2>4, <2>5, NoForecast DEF ResearchInv
  <2>6. CASE forecasts' # forecasts
    <3> DEFINE f == Forecast(r, quote[runs[r].market], 100, b.shift, Believed(b), "codex", b, allow)
    <3>1. forecasts' = Append(forecasts, f) /\ (verdict = "ingest" \/ allow)
      BY <1>6, <2>1, <2>6 DEF Ingest
    <3>2. r \in Nat
      BY DEF ResearchInv
    <3>3. f \in Made /\ f.body = b /\ f.allowed = allow
      BY <2>2, <3>2, ForecastIs
    <3> HIDE DEF f
    <3>4. FitUnreviewed(f)
      <4>1. CASE allow
        BY <3>3, <4>1 DEF FitUnreviewed
      <4>2. CASE ~allow
        <5>1. Verdict(response[r], r) = "ingest"
          BY <3>1, <4>2 DEF CurrentVerdict
        <5>2. QED BY <2>2, <3>3, <5>1, LetInIsFit DEF FitUnreviewed
      <4>3. QED BY <4>1, <4>2
    <3>5. forecasts' \in Seq(Made) /\ \A i \in DOMAIN forecasts' : FitUnreviewed(forecasts'[i])
      BY <3>1, <3>3, <3>4 DEF ResearchInv
    <3>6. QED BY <2>4, <3>5 DEF ResearchInv
  <2>7. QED BY <2>5, <2>6
<1>7. QED BY <1>1, <1>2, <1>3, <1>4, <1>5, <1>6
          DEF ResearchNext, researchVars, Quote, Gather, DryRun

\* For any markets, evidence, answers and response files: a forecast that no person let
\* in was made from a response that the gate found fit as it was read
\* (ingest_codex_agent_research_response).
THEOREM GateHolds == ResearchSpec => []UnreviewedAreSound
<1>1. ResearchInit => ResearchInv
  BY DEF ResearchInit, ResearchInv
<1>2. ResearchInv /\ [ResearchNext]_researchVars => ResearchInv'
  BY ResearchStep
<1>3. ResearchInv => UnreviewedAreSound
  BY DEF ResearchInv, UnreviewedAreSound, FitUnreviewed
<1>4. QED BY <1>1, <1>2, <1>3, PTL DEF ResearchSpec

-------------------------------------------------------------------------------
(* The analysis queue: no dead ends, the needy first.                      *)

QueueTypes ==
  /\ hour \in Nat
  /\ listing \in [Market -> Listings]
  /\ \A m \in Market : shot[m] # None => shot[m].at \in Nat

LEMMA QueueTyped == QueueSpec => []QueueTypes
<1> USE QueueConstantsOK DEF QueueTypes
<1>1. QueueInit => QueueTypes
  BY DEF QueueInit
<1>2. QueueTypes /\ [QueueNext]_queueVars => QueueTypes'
  <2> SUFFICES ASSUME QueueTypes, [QueueNext]_queueVars PROVE QueueTypes'
    OBVIOUS
  <2>1. CASE TimePasses
    BY <2>1 DEF TimePasses
  <2>2. ASSUME NEW S, Refreshed(S) PROVE QueueTypes'
    <3>1. PICK answer \in [{m \in S : listing[m].token} -> PriceAnswers \cup {None}] :
            shot' = [m \in Market |-> IF m \in DOMAIN answer /\ answer[m] # None
                                      THEN Snapshot(answer[m]) ELSE shot[m]]
      BY <2>2 DEF Refreshed
    <3>2. \A m \in Market : shot'[m] = shot[m] \/ shot'[m].at = hour
      BY <3>1 DEF Snapshot
    <3>3. QED BY <2>2, <3>2 DEF Refreshed
  <2>3. ASSUME NEW m \in Market, NEW row \in Listings, Relisted(m, row) PROVE QueueTypes'
    BY <2>3 DEF Relisted
  <2>4. ASSUME UNCHANGED <<hour, listing, shot>> PROVE QueueTypes'
    BY <2>4
  <2>5. QED BY <2>1, <2>2, <2>3, <2>4
            DEF QueueNext, RefreshGaps, RefreshOne, Rate, ToggleWatch, Investigate, Decide, Redecide,
                Undecide, MarkedAs, queueVars
<1>3. QED BY <1>1, <1>2, PTL DEF QueueSpec

\* When the limit leaves room for every market, none is cut off.
LEMMA AllWithin ==
  ASSUME QueueTypes, NEW S \in SUBSET Market, \A m \in S : listing[m].closes # None,
         NEW n \in Nat, n >= Cardinality(Market)
  PROVE  First(n, S, GapKey) = S
<1> USE QueueConstantsOK
<1>1. First(n, S, GapKey) = {m \in S : Cardinality({o \in S : Above(GapKey(o), GapKey(m))}) < n}
  BY DEF First
<1>2. ASSUME NEW m \in S PROVE Cardinality({o \in S : Above(GapKey(o), GapKey(m))}) < n
  <2> DEFINE before == {o \in S : Above(GapKey(o), GapKey(m))}
  <2>1. m \notin before
    <3>1. m \in Int /\ listing[m].closes \in Int
      BY DEF QueueTypes
    <3>2. ~Above(GapKey(m), GapKey(m))
      BY <3>1 DEF Above, GapKey
    <3>3. QED BY <3>2
  <2>2. before \in SUBSET Market /\ before # Market
    BY <2>1
  <2> HIDE DEF before
  <2>3. Cardinality(before) \in Nat /\ Cardinality(before) <= Cardinality(Market) /\ Cardinality(before) # Cardinality(Market)
    BY <2>2, FS_Subset, FS_CardinalityType
  <2>4. Cardinality(Market) \in Nat
    BY FS_CardinalityType
  <2>5. QED BY <2>3, <2>4 DEF before
<1>3. QED BY <1>1, <1>2

LEMMA ReasonsAre ==
  ASSUME NEW m, NEW closes, NEW snapshot, NEW poor
  PROVE  LET R == Reasons(m, closes, snapshot, poor)
         IN  /\ R \subseteq {"market_closed", "close_time_missing", "close_time_past", "missing_snapshot",
                             "snapshot_too_old", "missing_prices", "data_quality_insufficient"}
             /\ "market_closed" \in R <=> ~listing[m].open
             /\ "close_time_missing" \in R <=> closes = None
             /\ "close_time_past" \in R <=> closes # None /\ closes < hour
             /\ "missing_snapshot" \in R <=> snapshot = None
             /\ "snapshot_too_old" \in R <=> snapshot # None /\ hour - snapshot.at > 24
             /\ "missing_prices" \in R <=> ~BothPrices(m)
             /\ "data_quality_insufficient" \in R <=> poor
BY DEF Reasons

\* A market that is put forward and whose close is known.
LEMMA PutForward ==
  ASSUME QueueTypes, NEW focus, NEW n, NEW m \in Upcoming(focus, n), listing[m].closes # None
  PROVE  /\ m \in Market /\ Eligible(m, focus) /\ listing[m].open
         /\ Effective(m) = listing[m].closes /\ listing[m].closes \in Int
         /\ hour <= listing[m].closes /\ listing[m].closes <= hour + QueueWindow
<1>1. m \in Market /\ Eligible(m, focus)
  BY DEF Upcoming, First
<1>2. listing[m].closes \in Int
  BY <1>1, QueueConstantsOK DEF QueueTypes
<1>3. QED BY <1>1, <1>2, QueueConstantsOK DEF Eligible, Loaded, Effective, QueueTypes

\* With both prices and what classification and catalogue say of it, a market is complete.
LEMMA Complete ==
  ASSUME NEW m, BothPrices(m), listing[m].closes # None, SportNamed(m) # "other", Primary(m)
  PROVE  Quality(m) = "Completo"
<1>1. Has(m, "yes") /\ Has(m, "no") /\ shot[m] # None /\ Calculated(m)
  BY DEF BothPrices, Has, Calculated
<1>2. WordedShape(m) \notin VagueShapes
  BY DEF Primary, VagueShapes
<1>3. QED BY <1>1, <1>2 DEF Quality, Points

\* For any listings and refreshes: an upcoming match of a known sport that has a close is ready
\* or is picked up by a refresh with room enough.
THEOREM NoneIsForgotten == QueueSpec => []NoDeadEnds
<1>1. QueueTypes => NoDeadEnds
  <2> SUFFICES ASSUME QueueTypes, NEW m \in Upcoming("all", Cardinality(Market)),
                      SportNamed(m) # "other", Primary(m), listing[m].closes # None
               PROVE  Readiness(m) = "ready" \/ m \in Picked(Cardinality(Market))
    BY DEF NoDeadEnds
  <2> DEFINE n == Cardinality(Market)
  <2>1. n \in Nat
    BY QueueConstantsOK, FS_CardinalityType
  <2>2. /\ m \in Market /\ listing[m].open /\ listing[m].closes \in Int
        /\ hour <= listing[m].closes /\ listing[m].closes <= hour + QueueWindow
    BY PutForward
  <2>3. CASE WantsSnapshot(m)
    <3> DEFINE S == {o \in Market : /\ listing[o].open /\ listing[o].closes # None
                                    /\ listing[o].closes \in hour..(hour + QueueWindow)}
               T == {o \in S : WantsSnapshot(o)}
    <3>1. m \in S /\ m \in T
      BY <2>2, <2>3, QueueConstantsOK DEF QueueTypes
    <3>2. S \in SUBSET Market /\ T \in SUBSET Market /\ \A o \in S : listing[o].closes # None
      OBVIOUS
    <3>3. \A o \in T : listing[o].closes # None
      OBVIOUS
    <3> HIDE DEF n
    <3>4. 3 * n \in Nat /\ 3 * n >= n
      BY <2>1
    <3>5. Gaps(3 * n) = First(3 * n, S, GapKey)
      BY DEF Gaps
    <3>6. Picked(n) = First(n, {o \in Gaps(3 * n) : WantsSnapshot(o)}, GapKey)
      BY DEF Picked
    <3> HIDE DEF S
    <3>7. First(3 * n, S, GapKey) = S
      BY <3>2, <3>4, AllWithin DEF n
    <3>8. Picked(n) = First(n, T, GapKey)
      BY <3>5, <3>6, <3>7
    <3> HIDE DEF T
    <3>9. First(n, T, GapKey) = T
      BY <2>1, <3>2, <3>3, AllWithin DEF n
    <3>10. QED BY <3>1, <3>8, <3>9 DEF n
  <2>4. CASE ~WantsSnapshot(m)
    <3> DEFINE R == Reasons(m, listing[m].closes, shot[m], FALSE)
               Q == QualityReasons(m)
    <3>1. BothPrices(m) /\ ActionOn(R) # "needs_snapshot"
      BY <2>4 DEF WantsSnapshot
    <3>2. Quality(m) = "Completo" /\ Calculated(m) /\ shot[m] # None
      BY <3>1, Complete DEF BothPrices, Has, Calculated
    <3>3. /\ R \subseteq {"snapshot_too_old"} /\ Q = R
      <4>1. \A S : (Reasons(m, listing[m].closes, shot[m], S) \subseteq
                     {"snapshot_too_old"} \cup (IF S THEN {"data_quality_insufficient"} ELSE {}))
        BY <2>2, <3>1, <3>2, ReasonsAre DEF QueueTypes
      <4>2. Q = R
        BY <3>2 DEF QualityReasons
      <4>3. QED BY <4>1, <4>2
    <3> HIDE DEF R, Q
    <3>4. R = {}
      BY <3>1, <3>3 DEF ActionOn
    <3>5. StatusOf(Q) = "fresh" /\ ActionOn(Q) = "ok"
      BY <3>3, <3>4 DEF StatusOf, ActionOn
    <3>6. ~Blocked(m)
      BY <3>5 DEF Blocked, Q
    <3>7. QED BY <3>1, <3>2, <3>6 DEF Readiness
  <2>5. QED BY <2>3, <2>4
<1>2. QED BY <1>1, QueueTyped, PTL

LEMMA BoundedIs ==
  ASSUME NEW x \in Int, NEW top \in Nat
  PROVE  Bounded(x, top) = IF x < 0 THEN 0 ELSE IF x > top THEN top ELSE x
<1> DEFINE m == Min({x, top})
<1>1. \E l \in {x, top} : \A k \in {x, top} : l <= k
  OBVIOUS
<1>2. m \in {x, top} /\ m <= x /\ m <= top
  BY <1>1 DEF Min
<1> HIDE DEF m
<1>3. m = IF x > top THEN top ELSE x
  BY <1>2
<1>4. m \in Int
  BY <1>2
<1>5. \E l \in {0, m} : \A k \in {0, m} : l >= k
  BY <1>4
<1>6. Max({0, m}) \in {0, m} /\ Max({0, m}) >= 0 /\ Max({0, m}) >= m
  BY <1>4, <1>5 DEF Max
<1>7. Max({0, m}) = IF m < 0 THEN 0 ELSE m
  BY <1>4, <1>6
<1>8. QED BY <1>3, <1>7 DEF Bounded, m

LEMMA FavourIs == \A m : Favour(m) \in -45 .. 39
<1> SUFFICES ASSUME NEW m PROVE Favour(m) \in -45 .. 39
  OBVIOUS
<1> DEFINE a == Points(marks[m].watched, 15, 0)
           b == (CASE marks[m].inquiry \in {"pending_review", "investigating", "has_evidence", "review_required"} -> 12
                   [] marks[m].inquiry \in {"dismissed", "paused"} -> -20
                   [] OTHER -> 0)
           c == (CASE LastDecision(m) \in {"waiting_for_data", "investigate_more"} -> 12
                   [] LastDecision(m) = "monitor" -> 6
                   [] LastDecision(m) \in {"ignore", "dismissed"} -> -25
                   [] OTHER -> 0)
<1>1. a \in {0, 15}
  BY DEF Points
<1>2. b \in {12, -20, 0}
  OBVIOUS
<1>3. c \in {12, 6, -25, 0}
  OBVIOUS
<1>4. Favour(m) = a + b + c
  BY DEF Favour
<1> HIDE DEF a, b, c
<1>6. QED BY <1>1, <1>2, <1>3, <1>4

\* The sum behind a priority.
QueuePoints(m) ==
  ClosePoints(Left(m))
    + (CASE WordedShape(m) = "match_winner" -> 20 [] WordedShape(m) \in FutureShapes -> -30 [] OTHER -> -15)
    + Points(SportNamed(m) # "other", 10, -6)
    + Points(shot[m] = None, 25, 0) + Points(BothPrices(m), 0, 20) + Points(Calculated(m), 0, 10)
    + (CASE Quality(m) = "Insuficiente" -> 12 [] Quality(m) = "Parcial" -> 5 [] OTHER -> -10)
    + Points(Has(m, "liquidity") \/ Has(m, "volume"), 5, 0) + Favour(m)
    + (CASE StatusOf(UpcomingReasons(m)) = "stale" -> -30
         [] StatusOf(UpcomingReasons(m)) = "fresh" -> -8
         [] OTHER -> 0)

\* What both markets of a comparison have in common.
LEMMA Queued ==
  ASSUME QueueTypes, NEW m \in Queue, ~Blocked(m)
  PROVE  /\ m \in Market /\ ClosePoints(Left(m)) \in {0, 18, 30, 35}
         /\ WordedShape(m) = "match_winner" /\ SportNamed(m) # "other" /\ Primary(m)
         /\ listing[m].closes # None /\ listing[m].closes \in Int
         /\ UpcomingReasons(m) \subseteq QualityReasons(m)
         /\ QualityReasons(m) \subseteq UpcomingReasons(m) \cup {"data_quality_insufficient"}
         /\ StatusOf(UpcomingReasons(m)) # "stale"
<1>1. m \in Upcoming("match_winner", QueueSize) /\ Left(m) # None /\ Left(m) >= 6
  BY DEF Queue
<1>2. listing[m].closes # None
  BY <1>1 DEF Left
<1>3. m \in Market /\ Effective(m) = listing[m].closes /\ listing[m].closes \in Int
  BY <1>1, <1>2, PutForward
<1>4. Left(m) \in Int
  BY <1>2, <1>3 DEF Left, QueueTypes
<1>5. ClosePoints(Left(m)) \in {0, 18, 30, 35}
  BY <1>1, <1>4 DEF ClosePoints
<1>6. SportNamed(m) # "other" /\ Primary(m) /\ StatusOf(QualityReasons(m)) # "stale"
  BY DEF Blocked
<1> DEFINE U == UpcomingReasons(m)
           Q == QualityReasons(m)
<1>7. U \subseteq Q /\ Q \subseteq U \cup {"data_quality_insufficient"}
  <2>1. U = Reasons(m, listing[m].closes, shot[m], FALSE)
    BY <1>3 DEF UpcomingReasons
  <2>2. Q = Reasons(m, listing[m].closes, shot[m], Quality(m) = "Insuficiente")
    BY DEF QualityReasons
  <2> HIDE DEF U, Q
  <2>3. QED BY <2>1, <2>2 DEF Reasons
<1> HIDE DEF U, Q
<1>8. StatusOf(U) # "stale"
  BY <1>6, <1>7 DEF StatusOf, Q
<1>9. QED BY <1>2, <1>3, <1>5, <1>6, <1>7, <1>8 DEF U, Q, Primary

LEMMA NeedyTotal ==
  ASSUME QueueTypes, NEW m \in Queue, Readiness(m) = "needs_refresh"
  PROVE  QueuePoints(m) \in Int /\ QueuePoints(m) >= 55 + Favour(m)
<1>1. ~Blocked(m) /\ ~BothPrices(m)
  BY DEF Readiness
<1>2. "missing_prices" \in UpcomingReasons(m)
  BY <1>1 DEF UpcomingReasons, Reasons
<1>3. StatusOf(UpcomingReasons(m)) \notin {"stale", "fresh"}
  BY <1>1, <1>2, Queued DEF StatusOf
<1>4. Quality(m) # "Completo"
  BY <1>1 DEF Quality
<1>5. Quality(m) \in {"Completo", "Parcial", "Insuficiente"}
  BY DEF Quality
<1> DEFINE close == ClosePoints(Left(m))
           f == Favour(m)
           a == Points(shot[m] = None, 25, 0)
           b == Points(Calculated(m), 0, 10)
           c == (CASE Quality(m) = "Insuficiente" -> 12 [] Quality(m) = "Parcial" -> 5 [] OTHER -> -10)
           d == Points(Has(m, "liquidity") \/ Has(m, "volume"), 5, 0)
<1>6. a \in {0, 25} /\ b \in {0, 10} /\ d \in {0, 5}
  BY DEF Points
<1>7. c \in {5, 12}
  BY <1>4, <1>5
<1>8. close \in {0, 18, 30, 35} /\ f \in -45 .. 39
  BY <1>1, Queued, FavourIs
<1> DEFINE shape == (CASE WordedShape(m) = "match_winner" -> 20 [] WordedShape(m) \in FutureShapes -> -30 [] OTHER -> -15)
           sport == Points(SportNamed(m) # "other", 10, -6)
           prices == Points(BothPrices(m), 0, 20)
           status == (CASE StatusOf(UpcomingReasons(m)) = "stale" -> -30
                        [] StatusOf(UpcomingReasons(m)) = "fresh" -> -8
                        [] OTHER -> 0)
<1>9. QueuePoints(m) = close + shape + sport + a + prices + b + c + d + f + status
  BY ONLY DEF QueuePoints
<1>12. shape = 20 /\ sport = 10 /\ prices = 20 /\ status = 0
  <2>1. WordedShape(m) = "match_winner" /\ SportNamed(m) # "other"
    BY <1>1, Queued
  <2>2. shape = 20
    BY <2>1 DEF FutureShapes
  <2>3. sport = 10
    BY <2>1 DEF Points
  <2>4. prices = 20
    BY <1>1 DEF Points
  <2>5. status = 0
    BY <1>3
  <2>6. QED BY <2>2, <2>3, <2>4, <2>5
<1> HIDE DEF close, f, a, b, c, d, shape, sport, prices, status
<1>10. QueuePoints(m) \in Int /\ QueuePoints(m) >= 55 + f
  BY <1>6, <1>7, <1>8, <1>9, <1>12
<1>11. QED BY <1>10 DEF f

LEMMA ReadyTotal ==
  ASSUME QueueTypes, NEW m \in Queue, Readiness(m) = "ready"
  PROVE  QueuePoints(m) \in Int /\ QueuePoints(m) <= 52 + Favour(m)
<1>1. ~Blocked(m) /\ BothPrices(m) /\ Calculated(m)
  BY DEF Readiness
<1>2. Quality(m) = "Completo" /\ shot[m] # None
  BY <1>1, Queued, Complete DEF BothPrices, Has
<1>3. UpcomingReasons(m) = {}
  <2> DEFINE R == UpcomingReasons(m)
             Q == QualityReasons(m)
  <2>1. R = Reasons(m, listing[m].closes, shot[m], FALSE)
    BY <1>1, Queued DEF UpcomingReasons, Effective
  <2>2. R \subseteq Q /\ ActionOn(Q) # "review_market" /\ StatusOf(Q) # "stale"
    BY <1>1, Queued DEF Blocked
  <2>3. listing[m].closes # None
    BY <1>1, Queued
  <2>4. R \subseteq {"market_closed", "close_time_past", "snapshot_too_old"}
    BY <1>1, <1>2, <2>1, <2>3, ReasonsAre
  <2> HIDE DEF R, Q
  <2>5. R \cap {"market_closed", "close_time_past", "snapshot_too_old"} = {}
    BY <2>2 DEF StatusOf
  <2>6. QED BY <2>4, <2>5 DEF R
<1>4. StatusOf(UpcomingReasons(m)) = "fresh"
  BY <1>3 DEF StatusOf
<1> DEFINE close == ClosePoints(Left(m))
           f == Favour(m)
           d == Points(Has(m, "liquidity") \/ Has(m, "volume"), 5, 0)
<1>5. d \in {0, 5}
  BY DEF Points
<1>6. close \in {0, 18, 30, 35} /\ f \in -45 .. 39
  BY <1>1, Queued, FavourIs
<1> DEFINE shape == (CASE WordedShape(m) = "match_winner" -> 20 [] WordedShape(m) \in FutureShapes -> -30 [] OTHER -> -15)
           sport == Points(SportNamed(m) # "other", 10, -6)
           shots == Points(shot[m] = None, 25, 0)
           prices == Points(BothPrices(m), 0, 20)
           calculated == Points(Calculated(m), 0, 10)
           quality == (CASE Quality(m) = "Insuficiente" -> 12 [] Quality(m) = "Parcial" -> 5 [] OTHER -> -10)
           status == (CASE StatusOf(UpcomingReasons(m)) = "stale" -> -30
                        [] StatusOf(UpcomingReasons(m)) = "fresh" -> -8
                        [] OTHER -> 0)
<1>7. QueuePoints(m) = close + shape + sport + shots + prices + calculated + quality + d + f + status
  BY ONLY DEF QueuePoints
<1>10. /\ shape = 20 /\ sport = 10 /\ shots = 0 /\ prices = 0 /\ calculated = 0
       /\ quality = -10 /\ status = -8
  <2>1. WordedShape(m) = "match_winner" /\ SportNamed(m) # "other"
    BY <1>1, Queued
  <2>2. shape = 20
    BY <2>1 DEF FutureShapes
  <2>3. sport = 10
    BY <2>1 DEF Points
  <2>4. shots = 0
    BY <1>2 DEF Points
  <2>5. prices = 0
    BY <1>1 DEF Points
  <2>6. calculated = 0
    BY <1>1 DEF Points
  <2>7. quality = -10
    BY <1>2
  <2>8. status = -8
    BY <1>4
  <2>9. QED BY <2>2, <2>3, <2>4, <2>5, <2>6, <2>7, <2>8
<1> HIDE DEF close, f, d, shape, sport, shots, prices, calculated, quality, status
<1>8. QueuePoints(m) \in Int /\ QueuePoints(m) <= 52 + f
  BY <1>5, <1>6, <1>7, <1>10
<1>9. QED BY <1>8 DEF f

\* For any listings, evidence and marks: a market that is ready for research stands in the
\* queue behind every one that needs a refresh and is favoured as much by the user's marks.
THEOREM NeedyBeforeReady == QueueSpec => []MissingDataFirst
<1>1. QueueTypes => MissingDataFirst
  <2> SUFFICES ASSUME QueueTypes, NEW ready \in Queue, NEW needy \in Queue,
                      Readiness(ready) = "ready", Readiness(needy) = "needs_refresh",
                      Favour(needy) >= Favour(ready)
               PROVE  Above(QueueKey(needy), QueueKey(ready))
    BY DEF MissingDataFirst
  <2>1. QueuePoints(needy) \in Int /\ QueuePoints(needy) >= 55 + Favour(needy)
    BY NeedyTotal
  <2>2. QueuePoints(ready) \in Int /\ QueuePoints(ready) <= 52 + Favour(ready)
    BY ReadyTotal
  <2>3. Favour(needy) \in -45 .. 39 /\ Favour(ready) \in -45 .. 39
    BY FavourIs
  <2>4. Priority(needy) = Bounded(QueuePoints(needy), 200) /\ Priority(ready) = Bounded(QueuePoints(ready), 200)
    BY DEF Priority, QueuePoints
  <2>5. Priority(needy) > Priority(ready)
    <3>1. Priority(needy) = IF QueuePoints(needy) > 200 THEN 200 ELSE QueuePoints(needy)
      BY <2>1, <2>3, <2>4, BoundedIs
    <3>2. Priority(ready) = IF QueuePoints(ready) < 0 THEN 0 ELSE QueuePoints(ready)
      BY <2>2, <2>3, <2>4, BoundedIs
    <3>3. QED BY <2>1, <2>2, <2>3, <3>1, <3>2
  <2>6. QED BY <2>5 DEF Above, QueueKey
<1>2. QED BY <1>1, QueueTyped, PTL
===============================================================================
