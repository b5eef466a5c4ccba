------------------------- MODULE AnalysisRunner_proofs -------------------------
(***************************************************************************)
(* Proofs about the runner of wallet analysis jobs, for any number of      *)
(* requests and commands that overlap, whatever locks expire, batches fail *)
(* and processes die.                                                      *)
(***************************************************************************)
EXTENDS AnalysisRunner, SequenceTheorems, FiniteSetTheorems, TLAPS

USE DEF Members

\* Discovery does not rank the wallets anew: each answer is the beginning of best.
OneRanking(best) ==
  /\ best \in Seq(Wallet)
  /\ \A i, j \in 1 .. Len(best) : best[i] = best[j] => i = j
  /\ \A ranking \in Rankings :
       Len(ranking) <= Len(best) /\ \A i \in 1 .. Len(ranking) : ranking[i] = best[i]

\* The first n wallets of the market, as far as there are that many.
First(best, n) == {best[i] : i \in {k \in 1 .. Len(best) : k <= n}}

SoundResult(best, result, done) ==
  /\ Len(result.listed) <= Len(best)
  /\ \A i \in 1 .. Len(result.listed) : result.listed[i] = best[i]
  /\ result.target <= Len(result.listed)
  /\ First(best, result.next) \subseteq done

SoundJob(best, job, done) ==
  /\ job.analyzed <= Len(best)
  /\ First(best, job.analyzed) \subseteq done
  /\ SoundResult(best, job.result, done)

\* What each session holds is sound by what it has added itself.
Sound(best) ==
  /\ SoundJob(best, row, candidates)
  /\ \A r \in Runner : SoundJob(best, session[r].job, candidates \cup session[r].adds)

-----------------------------------------------------------------------------
(* Types.                                                                  *)

LEMMA Parameters ==
  /\ BatchSize \in Nat \ {0} /\ Maxima \subseteq Nat /\ Limits \subseteq Nat
  /\ \A ranking \in Rankings : ranking \in Seq(Wallet)
BY RunnerAssumption

LEMMA LeastType == ASSUME NEW a \in Nat, NEW b \in Nat
                   PROVE  Least(a, b) \in Nat /\ Least(a, b) <= a /\ Least(a, b) <= b
BY DEF Least

LEMMA TopType ==
  ASSUME NEW s \in Seq(Wallet), NEW n \in Nat
  PROVE  /\ Top(s, n) \in Seq(Wallet)
         /\ Len(Top(s, n)) = Least(n, Len(s))
         /\ \A i \in 1 .. Len(Top(s, n)) : Top(s, n)[i] = s[i]
<1>1. Len(s) \in Nat /\ Least(n, Len(s)) \in Nat /\ Least(n, Len(s)) <= Len(s)
  BY LenProperties, LeastType
<1>2. QED BY <1>1, SubSeqProperties DEF Top

LEMMA NewJobType == ASSUME NEW resolved \in BOOLEAN PROVE NewJob(resolved) \in JobType
BY DEF NewJob, NoState, JobType, ResultType, Statuses

LEMMA IdleType == Idle \in SessionType /\ Idle.job = NewJob(FALSE) /\ Idle.adds = {}
BY NewJobType DEF Idle, SessionType

LEMMA FlushedType ==
  ASSUME NEW s \in SessionType, NEW job \in JobType
  PROVE  /\ Flushed(s, job) \in SessionType
         /\ Flushed(s, job).job = job /\ Flushed(s, job).adds = s.adds
<1>1. DOMAIN job = {"status", "resolved", "found", "analyzed", "enough", "result"}
  BY DEF JobType
<1>2. QED BY <1>1 DEF Flushed, SessionType

LEMMA WrittenType ==
  ASSUME TypeOK, NEW s \in SessionType
  PROVE  /\ Written(s) \in JobType
         /\ Written(s).analyzed \in {row.analyzed, s.job.analyzed}
         /\ Written(s).result \in {row.result, s.job.result}
<1>1. row \in JobType /\ s.job \in JobType
  BY DEF TypeOK, SessionType
<1>2. DOMAIN row = {"status", "resolved", "found", "analyzed", "enough", "result"}
  BY <1>1 DEF JobType
<1>3. Written(s) = [status |-> IF "status" \in s.dirty THEN s.job.status ELSE row.status,
                    resolved |-> IF "resolved" \in s.dirty THEN s.job.resolved ELSE row.resolved,
                    found |-> IF "found" \in s.dirty THEN s.job.found ELSE row.found,
                    analyzed |-> IF "analyzed" \in s.dirty THEN s.job.analyzed ELSE row.analyzed,
                    enough |-> IF "enough" \in s.dirty THEN s.job.enough ELSE row.enough,
                    result |-> IF "result" \in s.dirty THEN s.job.result ELSE row.result]
  BY <1>2 DEF Written
<1>4. QED BY <1>1, <1>3 DEF JobType

LEMMA BatchType ==
  ASSUME NEW s \in SessionType
  PROVE  /\ Cursor(s) \in Nat /\ Cursor(s) <= s.job.result.next
         /\ Cursor(s) <= s.job.result.target
         /\ Batch(s) = Cursor(s) + 1 .. Cursor(s) + Cardinality(Batch(s))
         /\ Cardinality(Batch(s)) \in Nat
         /\ Cursor(s) + Cardinality(Batch(s)) <= s.job.result.target
<1>1. s.job.result.next \in Nat /\ s.job.result.target \in Nat /\ BatchSize \in Nat
  BY Parameters DEF SessionType, JobType, ResultType
<1> DEFINE end == Least(Cursor(s) + BatchSize, s.job.result.target)
<1>2. Cursor(s) \in Nat /\ Cursor(s) <= s.job.result.next /\ Cursor(s) <= s.job.result.target
  BY <1>1, LeastType DEF Cursor
<1>3. end \in Nat /\ end <= s.job.result.target /\ Cursor(s) <= end
  BY <1>1, <1>2 DEF Least
<1>4. Batch(s) = Cursor(s) + 1 .. end
  BY DEF Batch
<1> HIDE DEF end
<1>5. Cardinality(Batch(s)) = end - Cursor(s)
  BY <1>2, <1>3, <1>4, FS_Interval
<1>6. QED BY <1>2, <1>3, <1>4, <1>5

-----------------------------------------------------------------------------
(* What single steps do to a sound job.                                    *)

LEMMA SoundGrows ==
  ASSUME NEW best, NEW job, NEW done, SoundJob(best, job, done), NEW more, done \subseteq more
  PROVE  SoundJob(best, job, more)
BY DEF SoundJob, SoundResult

LEMMA NewJobSound ==
  ASSUME NEW best, OneRanking(best), NEW resolved \in BOOLEAN, NEW done
  PROVE  SoundJob(best, NewJob(resolved), done)
<1>1. Len(best) \in Nat /\ Len(<<>>) = 0
  BY LenProperties, EmptySeq DEF OneRanking
<1>2. First(best, 0) = {}
  BY <1>1 DEF First
<1>3. QED BY <1>1, <1>2 DEF NewJob, NoState, SoundJob, SoundResult

LEMMA GotoSound ==
  ASSUME TypeOK, NEW best, Sound(best), NEW r \in Runner, NEW s \in SessionType,
         NEW at \in {"idle", "acquire", "refresh", "locked", "analyze", "finalize", "commit"},
         Goto(r, s, at), UNCHANGED <<row, candidates>>,
         SoundJob(best, s.job, candidates \cup s.adds)
  PROVE  TypeOK' /\ Sound(best)'
<1> DEFINE t == [s EXCEPT !.at = at]
<1>1. t \in SessionType /\ t.job = s.job /\ t.adds = s.adds
  BY DEF SessionType
<1>2. session' = [session EXCEPT ![r] = t]
  BY DEF Goto
<1> HIDE DEF t
<1>3. session \in [Runner -> SessionType]
  BY DEF TypeOK
<1>4. session' \in [Runner -> SessionType]
  BY <1>1, <1>2, <1>3
<1>5. \A q \in Runner : session'[q] = IF q = r THEN t ELSE session[q]
  BY <1>2, <1>3
<1>6. TypeOK'
  BY <1>4 DEF TypeOK
<1>7. ASSUME NEW q \in Runner
      PROVE  SoundJob(best, session'[q].job, candidates \cup session'[q].adds)
  <2>1. CASE q = r
    BY <1>1, <1>5, <2>1
  <2>2. CASE q # r
    BY <1>5, <2>2 DEF Sound
  <2>3. QED BY <2>1, <2>2
<1>8. QED BY <1>6, <1>7 DEF Sound

LEMMA CommitSound ==
  ASSUME TypeOK, NEW best, OneRanking(best), Sound(best), NEW r \in Runner,
         NEW s \in SessionType, SoundJob(best, s.job, candidates \cup s.adds),
         row' = Written(s), candidates' = candidates \cup s.adds,
         NEW t \in SessionType, t.job = NewJob(FALSE),
         session' = [session EXCEPT ![r] = t]
  PROVE  TypeOK' /\ Sound(best)'
<1>1. session \in [Runner -> SessionType] /\ candidates' \subseteq Wallet
  BY DEF TypeOK, SessionType
<1>2. session' \in [Runner -> SessionType]
  BY <1>1
<1>3. \A q \in Runner : session'[q] = IF q = r THEN t ELSE session[q]
  BY <1>1
<1>4. TypeOK'
  BY <1>1, <1>2, WrittenType DEF TypeOK
<1>5. SoundJob(best, row, candidates')
  BY SoundGrows DEF Sound
<1>6. SoundJob(best, row', candidates')
  BY <1>5, WrittenType DEF SoundJob
<1>7. ASSUME NEW q \in Runner
      PROVE  SoundJob(best, session'[q].job, candidates' \cup session'[q].adds)
  <2>1. CASE q = r
    BY <1>3, <2>1, NewJobSound
  <2>2. CASE q # r
    <3>1. SoundJob(best, session[q].job, candidates \cup session[q].adds)
      BY DEF Sound
    <3>2. candidates \cup session[q].adds \subseteq candidates' \cup session[q].adds
      OBVIOUS
    <3>3. SoundJob(best, session[q].job, candidates' \cup session[q].adds)
      BY <3>1, <3>2, SoundGrows
    <3>4. QED BY <1>3, <2>2, <3>3
  <2>3. QED BY <2>1, <2>2
<1>8. QED BY <1>4, <1>6, <1>7 DEF Sound

\* A list taken from the row or found anew; the job goes on from a sound cursor.
LEMMA ListingSound ==
  ASSUME NEW best, NEW s \in SessionType, NEW done, SoundJob(best, s.job, done),
         NEW status \in Statuses, NEW result \in ResultType,
         Len(result.listed) <= Len(best),
         \A i \in 1 .. Len(result.listed) : result.listed[i] = best[i],
         First(best, result.next) \subseteq done
  PROVE  /\ Listing(s, status, result) \in SessionType
         /\ Listing(s, status, result).adds = s.adds
         /\ SoundJob(best, Listing(s, status, result).job, done)
<1> DEFINE new == [result EXCEPT !.target = Least(Len(result.listed), s.max)]
<1> DEFINE job == [s.job EXCEPT !.status = status, !.found = Len(result.listed), !.result = new]
<1>1. Len(result.listed) \in Nat /\ s.max \in Nat /\ s.job \in JobType
  BY LenProperties DEF SessionType, ResultType
<1>2. Least(Len(result.listed), s.max) \in Nat /\ Least(Len(result.listed), s.max) <= Len(result.listed)
  BY <1>1, LeastType
<1>3. /\ new \in ResultType /\ new.listed = result.listed /\ new.next = result.next
      /\ new.target <= Len(result.listed)
  BY <1>2 DEF ResultType
<1>4. SoundResult(best, new, done)
  BY <1>3 DEF SoundResult
<1> HIDE DEF new
<1>5. job \in JobType /\ job.analyzed = s.job.analyzed /\ job.result = new
  BY <1>1, <1>3 DEF JobType
<1>6. SoundJob(best, job, done)
  BY <1>4, <1>5 DEF SoundJob
<1>7. Listing(s, status, result) = Flushed(s, job)
  BY DEF Listing, new
<1> HIDE DEF job
<1>8. QED BY <1>5, <1>6, <1>7, FlushedType

LEMMA UnlockedSound ==
  ASSUME NEW best, NEW job \in JobType, NEW done, SoundJob(best, job, done)
  PROVE  /\ Unlocked(job) \in JobType
         /\ SoundJob(best, Unlocked(job), done)
BY DEF Unlocked, SoundJob, SoundResult, JobType, ResultType

LEMMA FinalizedSound ==
  ASSUME NEW best, NEW job \in JobType, NEW done, SoundJob(best, job, done)
  PROVE  Finalized(job) \in JobType /\ SoundJob(best, Finalized(job), done)
<1> DEFINE target == IF job.result.target = 0 THEN job.analyzed ELSE job.result.target
<1> DEFINE end == Least(Len(job.result.listed), target)
<1>1. target \in Nat /\ Len(job.result.listed) \in Nat
  BY LenProperties DEF JobType, ResultType
<1> HIDE DEF target
<1>2. end \in Nat /\ end <= Len(job.result.listed)
  BY <1>1, LeastType
<1>3. FinalStatus(job) \in Statuses
  BY DEF FinalStatus, Statuses
<1>4. Finalized(job) = [Unlocked(job) EXCEPT !.status = FinalStatus(job), !.result.next = job.analyzed,
                           !.result.target = end]
  BY DEF Finalized, target
<1> HIDE DEF end
<1> DEFINE new == [job.result EXCEPT !.lock = "none", !.next = job.analyzed, !.target = end]
<1>5. /\ new \in ResultType /\ new.listed = job.result.listed
      /\ new.next = job.analyzed /\ new.target = end
  BY <1>2 DEF JobType, ResultType
<1>6. Finalized(job) = [job EXCEPT !.status = FinalStatus(job), !.result = new]
  BY <1>4 DEF Unlocked, JobType, ResultType
<1> HIDE DEF new
<1>7. /\ Finalized(job) \in JobType /\ Finalized(job).result = new
      /\ Finalized(job).analyzed = job.analyzed
  BY <1>3, <1>5, <1>6 DEF JobType
<1>8. QED BY <1>2, <1>5, <1>7 DEF SoundJob, SoundResult

LEMMA FailedSound ==
  ASSUME NEW best, NEW s \in SessionType, NEW done, SoundJob(best, s.job, done)
  PROVE  /\ Failed(s) \in SessionType /\ Failed(s).adds = s.adds
         /\ SoundJob(best, Failed(s).job, done)
<1> DEFINE job == [Unlocked(s.job) EXCEPT !.status = "failed"]
<1>1. s.job \in JobType
  BY DEF SessionType
<1>2. job \in JobType /\ SoundJob(best, job, done)
  BY <1>1, UnlockedSound DEF SoundJob, JobType, Statuses
<1> HIDE DEF job
<1>3. Flushed(s, job) \in SessionType /\ Flushed(s, job).job = job /\ Flushed(s, job).adds = s.adds
  BY <1>2, FlushedType
<1>4. Failed(s) = [Flushed(s, job) EXCEPT !.dirty = @ \cup {"status"}]
  BY DEF Failed, job
<1>5. QED BY <1>2, <1>3, <1>4 DEF SessionType

\* The wallets of a batch are the next of the market's wallets.
LEMMA BatchWallets ==
  ASSUME NEW best, OneRanking(best), NEW s \in SessionType, NEW done, SoundJob(best, s.job, done)
  PROVE  /\ \A i \in Batch(s) : i \in 1 .. Len(best) /\ s.job.result.listed[i] = best[i]
         /\ \A positions : positions \subseteq Batch(s) => WalletsOf(s, positions) \subseteq Wallet
         /\ First(best, Cursor(s) + Cardinality(Batch(s))) \subseteq done \cup WalletsOf(s, Batch(s))
<1>1. /\ s.job.result.next \in Nat /\ s.job.result.target \in Nat
      /\ Len(s.job.result.listed) \in Nat /\ Len(best) \in Nat
  BY LenProperties DEF SessionType, JobType, ResultType, OneRanking
<1>2. \A i \in Batch(s) : i \in 1 .. Len(s.job.result.listed)
  BY <1>1, BatchType DEF SoundJob, SoundResult
<1>3. \A i \in Batch(s) : i \in 1 .. Len(best) /\ s.job.result.listed[i] = best[i]
  BY <1>1, <1>2 DEF SoundJob, SoundResult
<1>4. \A i \in 1 .. Len(best) : best[i] \in Wallet
  BY ElementOfSeq DEF OneRanking
<1>5. ASSUME NEW k \in 1 .. Len(best), k <= Cursor(s) + Cardinality(Batch(s))
      PROVE  best[k] \in done \cup WalletsOf(s, Batch(s))
  <2>1. CASE k <= s.job.result.next
    BY <2>1 DEF First, SoundJob, SoundResult
  <2>2. CASE ~(k <= s.job.result.next)
    <3>1. k \in Batch(s)
      BY <1>1, <1>5, <2>2, BatchType
    <3>2. QED BY <1>3, <3>1 DEF WalletsOf
  <2>3. QED BY <2>1, <2>2
<1>6. QED BY <1>3, <1>4, <1>5 DEF WalletsOf, First

LEMMA AdvancedSound ==
  ASSUME IsFiniteSet(Wallet), NEW best, OneRanking(best), NEW s \in SessionType, NEW done,
         SoundJob(best, s.job, done)
  PROVE  Advanced(s) \in JobType /\ SoundJob(best, Advanced(s), done \cup WalletsOf(s, Batch(s)))
<1> DEFINE reached == Least(s.job.result.target, Cursor(s) + Cardinality(Batch(s)))
<1> DEFINE enough == s.job.enough + Cardinality(WalletsOf(s, Batch(s)) \cap Seasoned)
<1>1. s.job \in JobType /\ Len(s.job.result.listed) \in Nat /\ Len(best) \in Nat
      /\ s.job.result.target \in Nat
  BY LenProperties DEF SessionType, JobType, ResultType, OneRanking
<1>2. reached = Cursor(s) + Cardinality(Batch(s)) /\ reached \in Nat
  BY <1>1, BatchType DEF Least
<1>3. reached <= Len(best)
  BY <1>1, <1>2, BatchType DEF SoundJob, SoundResult
<1>4. enough \in Nat
  <2>1. WalletsOf(s, Batch(s)) \subseteq Wallet
    BY BatchWallets
  <2>2. IsFiniteSet(WalletsOf(s, Batch(s)) \cap Seasoned)
    BY <2>1, FS_Subset
  <2>3. QED BY <1>1, <2>2, FS_CardinalityType DEF JobType
<1>5. First(best, reached) \subseteq done \cup WalletsOf(s, Batch(s))
  BY <1>2, BatchWallets
<1>6. Advanced(s) = [s.job EXCEPT !.status = "analyzing_wallets", !.analyzed = reached,
                       !.enough = enough, !.result.next = reached]
  BY <1>1 DEF Advanced, JobType
<1> HIDE DEF reached, enough
<1> DEFINE new == [s.job.result EXCEPT !.next = reached]
<1>7. /\ new \in ResultType /\ new.next = reached
      /\ new.listed = s.job.result.listed /\ new.target = s.job.result.target
  BY <1>1, <1>2 DEF JobType, ResultType
<1>8. Advanced(s) = [s.job EXCEPT !.status = "analyzing_wallets", !.analyzed = reached,
                       !.enough = enough, !.result = new]
  BY <1>1, <1>6 DEF JobType
<1> HIDE DEF new
<1>9. /\ Advanced(s) \in JobType /\ Advanced(s).analyzed = reached
      /\ Advanced(s).result = new
  BY <1>1, <1>2, <1>4, <1>7, <1>8 DEF JobType, Statuses
<1>10. QED BY <1>3, <1>5, <1>7, <1>9 DEF SoundJob, SoundResult

-----------------------------------------------------------------------------
(* The actions.                                                            *)

\* What the row and each session hold, at hand for every action.
LEMMA Held ==
  ASSUME TypeOK, NEW best, Sound(best), NEW r \in Runner
  PROVE  /\ session[r] \in SessionType /\ session[r].job \in JobType
         /\ SoundJob(best, session[r].job, candidates \cup session[r].adds)
         /\ row \in JobType /\ SoundJob(best, row, candidates)
BY DEF TypeOK, Sound, SessionType

LEMMA InitSound == ASSUME NEW best, OneRanking(best), Init PROVE TypeOK /\ Sound(best)
<1>1. PICK resolved \in BOOLEAN : row = NewJob(resolved)
  BY DEF Init
<1>2. \A r \in Runner : session[r] = Idle
  BY DEF Init
<1>3. QED BY <1>1, <1>2, NewJobType, NewJobSound, IdleType DEF Init, TypeOK, Sound

LEMMA StartSound ==
  ASSUME TypeOK, NEW best, Sound(best), NEW r \in Runner, NEW max \in Maxima, NEW limit \in Limits,
         Start(r, max, limit)
  PROVE  TypeOK' /\ Sound(best)'
<1> DEFINE t == [Idle EXCEPT !.max = max, !.limit = limit, !.job = row]
<1>1. t \in SessionType /\ t.job = row /\ t.adds = {}
  BY IdleType, Parameters, Held DEF SessionType
<1>2. Goto(r, t, "acquire") /\ UNCHANGED <<row, candidates>>
  BY DEF Start, Goto, Idle
<1> HIDE DEF t
<1>3. SoundJob(best, t.job, candidates \cup t.adds)
  BY <1>1, Held
<1>4. QED BY <1>1, <1>2, <1>3, GotoSound

LEMMA AcquireSound ==
  ASSUME TypeOK, NEW best, OneRanking(best), Sound(best), NEW r \in Runner, Acquire(r)
  PROVE  TypeOK' /\ Sound(best)'
<1> DEFINE job == [session[r].job EXCEPT !.result.lock = "held"]
<1> DEFINE s == Flushed(session[r], job)
<1> DEFINE t == [s EXCEPT !.dirty = @ \cup {"result"}]
<1> DEFINE u == [[t EXCEPT !.job = Idle.job, !.dirty = {}, !.adds = {}] EXCEPT !.at = "refresh"]
<1>1. job \in JobType /\ SoundJob(best, job, candidates \cup session[r].adds)
  <2> DEFINE result == [session[r].job.result EXCEPT !.lock = "held"]
  <2>1. result \in ResultType /\ SoundResult(best, result, candidates \cup session[r].adds)
    <3>1. /\ session[r].job.result \in ResultType
          /\ SoundResult(best, session[r].job.result, candidates \cup session[r].adds)
      BY Held DEF JobType, SoundJob
    <3>2. QED BY <3>1 DEF ResultType, SoundResult
  <2>2. job = [session[r].job EXCEPT !.result = result]
    BY Held DEF JobType
  <2> HIDE DEF result
  <2>3. QED BY <2>1, <2>2, Held DEF JobType, SoundJob
<1>2. row' = Written(t) /\ candidates' = candidates \cup t.adds
      /\ session' = [session EXCEPT ![r] = u]
  BY DEF Acquire, Goto
<1> HIDE DEF job
<1>3. s \in SessionType /\ s.job = job /\ s.adds = session[r].adds
  BY <1>1, Held, FlushedType
<1> HIDE DEF s
<1>4. t \in SessionType /\ t.job = job /\ t.adds = session[r].adds
  BY <1>3 DEF SessionType
<1> HIDE DEF t
<1>5. u \in SessionType /\ u.job = NewJob(FALSE)
  BY <1>4, IdleType DEF SessionType
<1> HIDE DEF u
<1>6. QED BY <1>1, <1>2, <1>4, <1>5, CommitSound

LEMMA EndSound ==
  ASSUME TypeOK, NEW best, OneRanking(best), Sound(best), NEW r \in Runner, Commit(r) \/ Crash(r)
  PROVE  TypeOK' /\ Sound(best)'
<1>1. CASE Commit(r)
  BY <1>1, Held, IdleType, CommitSound DEF Commit
<1>2. CASE Crash(r)
  <2>1. Goto(r, Idle, "idle") /\ UNCHANGED <<row, candidates>>
    BY <1>2 DEF Crash, Goto, Idle
  <2>2. QED BY <2>1, IdleType, NewJobSound, GotoSound
<1>3. QED BY <1>1, <1>2

LEMMA RefreshSound ==
  ASSUME TypeOK, NEW best, Sound(best), NEW r \in Runner, Refresh(r)
  PROVE  TypeOK' /\ Sound(best)'
<1> DEFINE t == [session[r] EXCEPT !.job = row]
<1>1. t \in SessionType /\ t.job = row /\ t.adds = session[r].adds
  BY Held DEF SessionType
<1>2. Goto(r, t, "locked") /\ UNCHANGED <<row, candidates>>
  BY DEF Refresh
<1> HIDE DEF t
<1>3. SoundJob(best, t.job, candidates \cup t.adds)
  BY <1>1, Held, SoundGrows
<1>4. QED BY <1>1, <1>2, <1>3, GotoSound

LEMMA FailUnresolvedSound ==
  ASSUME TypeOK, NEW best, OneRanking(best), Sound(best), NEW r \in Runner, FailUnresolved(r)
  PROVE  TypeOK' /\ Sound(best)'
<1> DEFINE job == [session[r].job EXCEPT !.status = "failed", !.result = NoState]
<1> DEFINE done == candidates \cup session[r].adds
<1>1. NoState \in ResultType /\ SoundResult(best, NoState, done)
  BY NewJobType, NewJobSound DEF NewJob, JobType, SoundJob
<1>2. job \in JobType /\ SoundJob(best, job, done)
  BY <1>1, Held DEF SoundJob, JobType, Statuses
<1>3. Goto(r, Flushed(session[r], job), "commit") /\ UNCHANGED <<row, candidates>>
  BY DEF FailUnresolved
<1> HIDE DEF job
<1>4. QED BY <1>2, <1>3, Held, FlushedType, GotoSound

LEMMA DiscoverSound ==
  ASSUME TypeOK, NEW best, OneRanking(best), Sound(best), NEW r \in Runner, Discover(r)
  PROVE  TypeOK' /\ Sound(best)'
<1> DEFINE s == session[r]
<1> DEFINE done == candidates \cup s.adds
<1>1. PICK ranking \in Rankings \cup {<<>>}, more \in BOOLEAN :
        Goto(r, Listing(s, "discovering_wallets",
               [s.job.result EXCEPT !.listed = Top(ranking, s.limit), !.more = more,
                  !.limit = s.limit, !.next = s.job.analyzed]), "analyze")
  BY DEF Discover
<1>2. /\ ranking \in Seq(Wallet) /\ Len(ranking) <= Len(best) /\ Len(best) \in Nat
      /\ \A i \in 1 .. Len(ranking) : ranking[i] = best[i]
  <2>1. Len(best) \in Nat
    BY LenProperties DEF OneRanking
  <2>2. CASE ranking \in Rankings
    BY <2>1, <2>2, Parameters DEF OneRanking
  <2>3. CASE ranking = <<>>
    BY <2>1, <2>3
  <2>4. QED BY <2>2, <2>3, <2>1
<1>3. s \in SessionType /\ s.limit \in Nat /\ s.job \in JobType /\ s.job.analyzed \in Nat
      /\ SoundJob(best, s.job, done)
  BY Held DEF SessionType, JobType
<1> DEFINE listed == Top(ranking, s.limit)
<1>4. /\ listed \in Seq(Wallet) /\ Len(listed) <= Len(best)
      /\ \A i \in 1 .. Len(listed) : listed[i] = best[i]
  <2>1. Len(ranking) \in Nat /\ Len(listed) \in Nat /\ Len(listed) <= Len(ranking)
    BY <1>2, <1>3, LenProperties, TopType, LeastType
  <2>2. QED BY <1>2, <1>3, <2>1, TopType
<1> DEFINE result == [s.job.result EXCEPT !.listed = listed, !.more = more, !.limit = s.limit,
                        !.next = s.job.analyzed]
<1> HIDE DEF listed
<1>5. /\ result \in ResultType /\ result.listed = listed /\ result.next = s.job.analyzed
  BY <1>3, <1>4 DEF JobType, ResultType
<1>6. Goto(r, Listing(s, "discovering_wallets", result), "analyze")
  BY <1>1 DEF listed
<1> HIDE DEF result
<1>7. First(best, result.next) \subseteq done
  BY <1>3, <1>5 DEF SoundJob
<1> DEFINE t == Listing(s, "discovering_wallets", result)
<1>8. t \in SessionType /\ t.adds = s.adds /\ SoundJob(best, t.job, done)
  <2> "discovering_wallets" \in Statuses
    BY DEF Statuses
  <2> HIDE DEF s, done
  <2>1. QED BY <1>3, <1>4, <1>5, <1>7, ListingSound
<1> HIDE DEF t
<1>9. UNCHANGED <<row, candidates>>
  BY DEF Discover
<1>10. QED BY <1>6, <1>8, <1>9, GotoSound DEF t

LEMMA ReuseSound ==
  ASSUME TypeOK, NEW best, OneRanking(best), Sound(best), NEW r \in Runner, Reuse(r)
  PROVE  TypeOK' /\ Sound(best)'
<1> DEFINE s == session[r]
<1> DEFINE done == candidates \cup s.adds
<1> DEFINE t == Listing(s, s.job.status, s.job.result)
<1> DEFINE u == [t EXCEPT !.dirty = @ \cup {"result"}]
<1>1. s \in SessionType /\ SoundJob(best, s.job, done)
  BY Held
<1>2. s.job.status \in Statuses /\ s.job.result \in ResultType
  BY <1>1 DEF SessionType, JobType
<1>3. t \in SessionType /\ t.adds = s.adds /\ SoundJob(best, t.job, done)
  <2>1. /\ Len(s.job.result.listed) <= Len(best)
        /\ \A i \in 1 .. Len(s.job.result.listed) : s.job.result.listed[i] = best[i]
        /\ First(best, s.job.result.next) \subseteq done
    BY <1>1 DEF SoundJob, SoundResult
  <2> HIDE DEF s, done
  <2>2. QED BY <1>1, <1>2, <2>1, ListingSound
<1>4. Goto(r, u, "analyze") /\ UNCHANGED <<row, candidates>>
  BY DEF Reuse
<1> HIDE DEF t
<1>5. u \in SessionType /\ u.adds = s.adds /\ SoundJob(best, u.job, done)
  BY <1>3 DEF SessionType
<1> HIDE DEF u
<1>6. QED BY <1>4, <1>5, GotoSound

LEMMA NothingSound ==
  ASSUME TypeOK, NEW best, Sound(best), NEW r \in Runner, NothingToExpand(r) \/ NothingToAnalyze(r)
  PROVE  TypeOK' /\ Sound(best)'
<1> DEFINE s == session[r]
<1>1. CASE NothingToExpand(r)
  <2> DEFINE t == Flushed(s, Unlocked(s.job))
  <2>1. t \in SessionType /\ t.adds = s.adds /\ SoundJob(best, t.job, candidates \cup s.adds)
    <3>1. s \in SessionType /\ s.job \in JobType /\ SoundJob(best, s.job, candidates \cup s.adds)
      BY Held
    <3> HIDE DEF s
    <3>2. QED BY <3>1, UnlockedSound, FlushedType
  <2>2. Goto(r, t, "commit") /\ UNCHANGED <<row, candidates>>
    BY <1>1 DEF NothingToExpand
  <2> HIDE DEF t
  <2>3. QED BY <2>1, <2>2, GotoSound
<1>2. CASE NothingToAnalyze(r)
  BY <1>2, Held, GotoSound DEF NothingToAnalyze
<1>3. QED BY <1>1, <1>2

LEMMA AnalyzeBatchSound ==
  ASSUME IsFiniteSet(Wallet), TypeOK, NEW best, OneRanking(best), Sound(best),
         NEW r \in Runner, AnalyzeBatch(r)
  PROVE  TypeOK' /\ Sound(best)'
<1> DEFINE s == session[r]
<1> DEFINE done == candidates \cup s.adds
<1> DEFINE new == Flushed(s, Advanced(s))
<1> DEFINE t == [new EXCEPT !.adds = @ \cup WalletsOf(s, Batch(s))]
<1>1. s \in SessionType /\ SoundJob(best, s.job, done)
  BY Held
<1>2. /\ Advanced(s) \in JobType
      /\ SoundJob(best, Advanced(s), done \cup WalletsOf(s, Batch(s)))
  BY <1>1, AdvancedSound
<1>3. WalletsOf(s, Batch(s)) \subseteq Wallet
  <2> HIDE DEF s, done
  <2>1. QED BY <1>1, BatchWallets
<1>4. new \in SessionType /\ new.job = Advanced(s) /\ new.adds = s.adds
  BY <1>1, <1>2, FlushedType
<1>5. UNCHANGED <<row, candidates>>
      /\ IF t.job.result.next < t.job.result.target
         THEN Goto(r, Flushed(t, Unlocked(t.job)), IF r \in Loop THEN "acquire" ELSE "commit")
         ELSE Goto(r, t, "finalize")
  BY DEF AnalyzeBatch
<1> HIDE DEF new
<1>6. t \in SessionType /\ t.job = Advanced(s) /\ t.adds = s.adds \cup WalletsOf(s, Batch(s))
  BY <1>3, <1>4 DEF SessionType
<1> HIDE DEF t
<1>7. t.job \in JobType /\ SoundJob(best, t.job, candidates \cup t.adds)
  <2>1. candidates \cup t.adds = done \cup WalletsOf(s, Batch(s))
    BY <1>6
  <2>2. QED BY <1>2, <1>6, <2>1
<1>8. CASE t.job.result.next < t.job.result.target
  <2> DEFINE u == Flushed(t, Unlocked(t.job))
  <2>1. u \in SessionType /\ u.adds = t.adds /\ SoundJob(best, u.job, candidates \cup t.adds)
    BY <1>6, <1>7, UnlockedSound, FlushedType
  <2>2. Goto(r, u, IF r \in Loop THEN "acquire" ELSE "commit")
    BY <1>5, <1>8
  <2> HIDE DEF u
  <2>3. QED BY <1>5, <2>1, <2>2, GotoSound
<1>9. CASE ~(t.job.result.next < t.job.result.target)
  BY <1>5, <1>6, <1>7, <1>9, GotoSound
<1>10. QED BY <1>8, <1>9

LEMMA FinalizeSound ==
  ASSUME TypeOK, NEW best, Sound(best), NEW r \in Runner, Finalize(r)
  PROVE  TypeOK' /\ Sound(best)'
<1> DEFINE s == session[r]
<1> DEFINE t == Flushed(s, Finalized(s.job))
<1> DEFINE u == [t EXCEPT !.dirty = @ \cup {"status"}]
<1>1. t \in SessionType /\ t.adds = s.adds /\ SoundJob(best, t.job, candidates \cup s.adds)
  <2>1. s \in SessionType /\ s.job \in JobType /\ SoundJob(best, s.job, candidates \cup s.adds)
    BY Held
  <2> HIDE DEF s
  <2>2. QED BY <2>1, FinalizedSound, FlushedType
<1>2. Goto(r, u, "commit") /\ UNCHANGED <<row, candidates>>
  BY DEF Finalize
<1> HIDE DEF t
<1>3. u \in SessionType /\ u.adds = s.adds /\ SoundJob(best, u.job, candidates \cup s.adds)
  BY <1>1 DEF SessionType
<1> HIDE DEF u
<1>4. QED BY <1>2, <1>3, GotoSound

LEMMA FailSound ==
  ASSUME TypeOK, NEW best, OneRanking(best), Sound(best), NEW r \in Runner, Fail(r)
  PROVE  TypeOK' /\ Sound(best)'
<1> DEFINE s == session[r]
<1> DEFINE done == candidates \cup s.adds
<1>1. s \in SessionType /\ s.job \in JobType /\ SoundJob(best, s.job, done)
  BY Held
<1>2. UNCHANGED <<row, candidates>>
  BY DEF Fail, FailDiscovery, FailAnalysis, FailFinalize
<1>3. CASE FailDiscovery(r)
  BY <1>1, <1>2, <1>3, FailedSound, GotoSound DEF FailDiscovery
<1>4. CASE FailAnalysis(r)
  <2>1. PICK batch \in Batch(s) :
          Goto(r, Failed([s EXCEPT !.adds = @ \cup WalletsOf(s, {i \in Batch(s) : i < batch})]), "commit")
    BY <1>4 DEF FailAnalysis
  <2> DEFINE analysed == WalletsOf(s, {i \in Batch(s) : i < batch})
  <2> DEFINE t == [s EXCEPT !.adds = @ \cup analysed]
  <2>2. analysed \subseteq Wallet
    BY <1>1, BatchWallets
  <2> HIDE DEF analysed
  <2>3. t \in SessionType /\ t.job = s.job /\ t.adds = s.adds \cup analysed
    BY <1>1, <2>2 DEF SessionType
  <2>4. Goto(r, Failed(t), "commit")
    BY <2>1 DEF analysed
  <2> HIDE DEF t
  <2>5. SoundJob(best, t.job, candidates \cup t.adds)
    BY <1>1, <2>3, SoundGrows
  <2>6. QED BY <1>2, <2>3, <2>4, <2>5, FailedSound, GotoSound
<1>5. CASE FailFinalize(r)
  <2>1. PICK reached \in {s.job, Finalized(s.job)} : Goto(r, Failed(Flushed(s, reached)), "commit")
    BY <1>5 DEF FailFinalize
  <2>2. reached \in JobType /\ SoundJob(best, reached, done)
    BY <1>1, FinalizedSound
  <2> DEFINE t == Flushed(s, reached)
  <2>3. t \in SessionType /\ t.adds = s.adds /\ SoundJob(best, t.job, done)
    BY <1>1, <2>2, FlushedType
  <2>4. Goto(r, Failed(t), "commit")
    BY <2>1
  <2> HIDE DEF t
  <2>5. QED BY <1>2, <2>3, <2>4, FailedSound, GotoSound
<1>6. QED BY <1>3, <1>4, <1>5 DEF Fail

LEMMA ExpireSound ==
  ASSUME TypeOK, NEW best, Sound(best), Expire
  PROVE  TypeOK' /\ Sound(best)'
<1> DEFINE result == [row.result EXCEPT !.lock = "expired"]
<1>1. row \in JobType /\ SoundJob(best, row, candidates)
  BY DEF TypeOK, Sound
<1>2. result \in ResultType /\ SoundResult(best, result, candidates)
  BY <1>1 DEF JobType, ResultType, SoundJob, SoundResult
<1>3. row' = [row EXCEPT !.result = result] /\ UNCHANGED <<candidates, session>>
  BY DEF Expire
<1> HIDE DEF result
<1>4. row' \in JobType /\ SoundJob(best, row', candidates)
  BY <1>1, <1>2, <1>3 DEF JobType, SoundJob
<1>5. QED BY <1>3, <1>4 DEF TypeOK, Sound

LEMMA NextSound ==
  ASSUME IsFiniteSet(Wallet), NEW best, OneRanking(best)
  PROVE  TypeOK /\ Sound(best) /\ [Next]_vars => TypeOK' /\ Sound(best)'
<1> SUFFICES ASSUME TypeOK, Sound(best), [Next]_vars PROVE TypeOK' /\ Sound(best)'
  OBVIOUS
<1>1. CASE UNCHANGED vars
  BY <1>1 DEF vars, TypeOK, Sound
<1>2. CASE Expire
  BY <1>2, ExpireSound
<1>3. ASSUME NEW r \in Runner, NEW max \in Maxima, NEW limit \in Limits, Start(r, max, limit)
      PROVE  TypeOK' /\ Sound(best)'
  BY <1>3, StartSound
<1>4. ASSUME NEW r \in Runner, Step(r)
      PROVE  TypeOK' /\ Sound(best)'
  BY <1>4, AcquireSound, RefreshSound, FailUnresolvedSound, DiscoverSound, ReuseSound,
     NothingSound, AnalyzeBatchSound, FinalizeSound, EndSound DEF Step
<1>5. ASSUME NEW r \in Runner, Fail(r) \/ Crash(r)
      PROVE  TypeOK' /\ Sound(best)'
  BY <1>5, FailSound, EndSound
<1>6. QED
  BY <1>1, <1>2, <1>3, <1>4, <1>5 DEF Next

-----------------------------------------------------------------------------
\* Where discovery keeps its order, no wallet is skipped: whatever locks expire, batches
\* fail and sessions overlap in run_wallet_analysis_job_batch, the listed wallets before
\* the stored cursor have their candidates.
THEOREM NoWalletSkipped ==
  ASSUME IsFiniteSet(Wallet), NEW best, OneRanking(best)
  PROVE  Spec => []CursorBehindCandidates
<1>1. TypeOK /\ Sound(best) => CursorBehindCandidates
  <2> SUFFICES ASSUME TypeOK, Sound(best) PROVE CursorBehindCandidates
    OBVIOUS
  <2> DEFINE listed == row.result.listed
  <2> DEFINE top == Top(listed, row.result.next)
  <2>1. listed \in Seq(Wallet) /\ row.result.next \in Nat /\ Len(listed) \in Nat /\ Len(best) \in Nat
    BY LenProperties DEF TypeOK, JobType, ResultType, OneRanking
  <2>2. /\ Len(top) \in Nat /\ Len(top) <= row.result.next /\ Len(top) <= Len(listed)
        /\ \A i \in 1 .. Len(top) : top[i] = listed[i]
    BY <2>1, TopType, LeastType
  <2>3. /\ Len(listed) <= Len(best) /\ \A i \in 1 .. Len(listed) : listed[i] = best[i]
        /\ First(best, row.result.next) \subseteq candidates
    BY DEF Sound, SoundJob, SoundResult
  <2> HIDE DEF listed, top
  <2>4. \A i \in 1 .. Len(top) : i \in 1 .. Len(best) /\ i <= row.result.next /\ top[i] = best[i]
    BY <2>1, <2>2, <2>3
  <2>5. Members(top) \subseteq candidates
    BY <2>3, <2>4 DEF First
  <2>6. QED BY <2>5 DEF CursorBehindCandidates, top, listed
<1>2. QED BY <1>1, InitSound, NextSound, PTL DEF Spec

\* wallets_analyzed is backed by candidates on the same condition.
THEOREM CountIsBacked ==
  ASSUME IsFiniteSet(Wallet), NEW best, OneRanking(best)
  PROVE  Spec => []AnalyzedBacked
<1>1. TypeOK /\ Sound(best) => AnalyzedBacked
  <2> SUFFICES ASSUME TypeOK, Sound(best) PROVE AnalyzedBacked
    OBVIOUS
  <2>1. row.analyzed \in Nat /\ Len(best) \in Nat /\ row.analyzed <= Len(best)
    BY LenProperties DEF TypeOK, JobType, OneRanking, Sound, SoundJob
  <2>2. IsFiniteSet(candidates)
    BY FS_Subset DEF TypeOK
  <2> DEFINE wallets == [i \in 1 .. row.analyzed |-> best[i]]
  <2>3. wallets \in Injection(1 .. row.analyzed, candidates)
    <3>1. \A i \in 1 .. row.analyzed : i \in 1 .. Len(best) /\ best[i] \in candidates
      BY <2>1 DEF Sound, SoundJob, First
    <3>2. \A i, j \in 1 .. row.analyzed : best[i] = best[j] => i = j
      BY <3>1 DEF OneRanking
    <3>3. QED BY <3>1, <3>2 DEF Injection, IsInjective
  <2>4. Cardinality(1 .. row.analyzed) <= Cardinality(candidates)
    BY <2>2, <2>3, FS_Injection
  <2>5. Cardinality(1 .. row.analyzed) = row.analyzed
    BY <2>1, FS_Interval
  <2>6. QED BY <2>4, <2>5 DEF AnalyzedBacked
<1>2. QED BY <1>1, InitSound, NextSound, PTL DEF Spec

-----------------------------------------------------------------------------
(* One runner at a time: the counts of the job.                            *)

\* The counts and the cursor of a job fit together.
Even(job) ==
  /\ job \in JobType
  /\ job.enough <= job.analyzed /\ job.result.next = job.analyzed
  /\ job.result.target <= Len(job.result.listed)
  /\ ~job.resolved => job.analyzed = 0

\* What a session has not changed is as in the row.
InStep(s) ==
  /\ "resolved" \notin s.dirty => s.job.resolved = row.resolved
  /\ "analyzed" \notin s.dirty => s.job.analyzed = row.analyzed
  /\ "enough" \notin s.dirty => s.job.enough = row.enough
  /\ "result" \notin s.dirty => s.job.result.next = row.result.next

Between == {"idle", "refresh"}

Steady ==
  /\ Even(row) /\ candidates \subseteq Wallet /\ session \in [Runner -> SessionType]
  /\ \A r \in Runner : /\ Even(session[r].job)
                       /\ IF session[r].at \in Between THEN session[r].dirty = {} ELSE InStep(session[r])
                       /\ session[r].at = "analyze" => session[r].job.resolved

LEMMA NewJobEven == ASSUME NEW resolved \in BOOLEAN PROVE Even(NewJob(resolved))
<1> DEFINE job == NewJob(resolved)
<1>1. job \in JobType
  BY NewJobType
<1>2. Len(<<>>) = 0
  OBVIOUS
<1>3. job.enough = 0 /\ job.analyzed = 0 /\ job.result.next = 0 /\ job.result.target = 0 /\ job.result.listed = <<>>
  BY DEF NewJob, NoState
<1> HIDE DEF job
<1>4. QED BY <1>1, <1>2, <1>3 DEF Even, job

LEMMA FlushedInStep ==
  ASSUME NEW s \in SessionType, Even(s.job), InStep(s), NEW job, Even(job)
  PROVE  /\ Flushed(s, job) \in SessionType /\ Flushed(s, job).adds = s.adds
         /\ Flushed(s, job).job = job /\ InStep(Flushed(s, job))
<1>1. DOMAIN job = {"status", "resolved", "found", "analyzed", "enough", "result"} /\ job \in JobType
  BY DEF JobType, Even
<1> DEFINE t == Flushed(s, job)
<1>2. t \in SessionType /\ t.job = job /\ t.adds = s.adds
  BY <1>1, FlushedType
<1>3. t.dirty = s.dirty \cup {c \in DOMAIN job : job[c] # s.job[c]}
  BY DEF Flushed, SessionType
<1> HIDE DEF t
<1>4. /\ "resolved" \notin t.dirty => "resolved" \notin s.dirty /\ job.resolved = s.job.resolved
      /\ "analyzed" \notin t.dirty => "analyzed" \notin s.dirty /\ job.analyzed = s.job.analyzed
      /\ "enough" \notin t.dirty => "enough" \notin s.dirty /\ job.enough = s.job.enough
      /\ "result" \notin t.dirty => "result" \notin s.dirty /\ job.result = s.job.result
  BY <1>1, <1>3
<1>5. InStep(t)
  BY <1>2, <1>4 DEF InStep
<1>6. QED BY <1>2, <1>5 DEF t

LEMMA GotoSteady ==
  ASSUME Steady, NEW r \in Runner, NEW s \in SessionType, Even(s.job), InStep(s),
         NEW at \in {"acquire", "locked", "analyze", "finalize", "commit"},
         at = "analyze" => s.job.resolved,
         Goto(r, s, at), UNCHANGED <<row, candidates>>
  PROVE  Steady'
<1> DEFINE t == [s EXCEPT !.at = at]
<1>1. t \in SessionType /\ t.job = s.job /\ t.dirty = s.dirty /\ t.at = at
  BY DEF SessionType
<1>2. session' = [session EXCEPT ![r] = t]
  BY DEF Goto
<1> HIDE DEF t
<1>3. session' \in [Runner -> SessionType]
  BY <1>1, <1>2 DEF Steady
<1>4. \A q \in Runner : session'[q] = IF q = r THEN t ELSE session[q]
  BY <1>2 DEF Steady
<1>5. at \notin Between
  BY DEF Between
<1>6. InStep(t) /\ Even(t.job)
  BY <1>1 DEF InStep
<1>7. ASSUME NEW q \in Runner
      PROVE  /\ Even(session'[q].job)
             /\ IF session'[q].at \in Between THEN session'[q].dirty = {} ELSE InStep(session'[q])
             /\ session'[q].at = "analyze" => session'[q].job.resolved
  <2>1. CASE q = r
    BY <1>1, <1>4, <1>5, <1>6, <2>1
  <2>2. CASE q # r
    BY <1>4, <2>2 DEF Steady
  <2>3. QED BY <2>1, <2>2
<1>8. row' = row /\ candidates' = candidates
  OBVIOUS
<1>9. QED BY <1>3, <1>7, <1>8 DEF Steady, InStep, Even

\* A session commits; nobody else holds the row.
LEMMA CommitSteady ==
  ASSUME \A p, q \in Runner : p = q, Steady, NEW r \in Runner, NEW s \in SessionType, Even(s.job), InStep(s),
         row' = Written(s), candidates' = candidates \cup s.adds,
         NEW t \in SessionType, t.job = NewJob(FALSE), t.dirty = {}, t.at \in Between,
         session' = [session EXCEPT ![r] = t]
  PROVE  Steady'
<1>1. row \in JobType /\ s.job \in JobType
  BY DEF Steady, Even
<1>2. DOMAIN row = {"status", "resolved", "found", "analyzed", "enough", "result"}
  BY <1>1 DEF JobType
<1>3. Written(s) = [status |-> IF "status" \in s.dirty THEN s.job.status ELSE row.status,
                    resolved |-> IF "resolved" \in s.dirty THEN s.job.resolved ELSE row.resolved,
                    found |-> IF "found" \in s.dirty THEN s.job.found ELSE row.found,
                    analyzed |-> IF "analyzed" \in s.dirty THEN s.job.analyzed ELSE row.analyzed,
                    enough |-> IF "enough" \in s.dirty THEN s.job.enough ELSE row.enough,
                    result |-> IF "result" \in s.dirty THEN s.job.result ELSE row.result]
  BY <1>2 DEF Written
<1>4. /\ row' \in JobType
      /\ row'.resolved = s.job.resolved /\ row'.analyzed = s.job.analyzed /\ row'.enough = s.job.enough
      /\ row'.result \in {s.job.result, row.result} /\ row'.result.next = s.job.result.next
  BY <1>1, <1>3 DEF JobType, InStep
<1>5. Even(row')
  BY <1>4 DEF Even, Steady
<1>6. Even(NewJob(FALSE))
  BY NewJobEven
<1>7. session' \in [Runner -> SessionType]
  BY DEF Steady
<1>8. \A q \in Runner : session'[q] = t
  BY DEF Steady
<1>9. candidates' \subseteq Wallet
  BY DEF Steady, SessionType
<1>10. \A q \in Runner : Even(session'[q].job) /\ session'[q].dirty = {} /\ session'[q].at \in Between
  BY <1>6, <1>8
<1>11. \A q \in Runner : session'[q].at # "analyze"
  BY <1>10 DEF Between
<1>12. QED BY <1>5, <1>7, <1>9, <1>10, <1>11 DEF Steady, Even, InStep

-----------------------------------------------------------------------------
(* What single steps do to an even job.                                    *)

LEMMA ListingEven ==
  ASSUME NEW s \in SessionType, Even(s.job), InStep(s), NEW status \in Statuses, NEW result \in ResultType,
         result.next = s.job.analyzed
  PROVE  /\ Listing(s, status, result) \in SessionType /\ Even(Listing(s, status, result).job)
         /\ InStep(Listing(s, status, result))
<1> DEFINE new == [result EXCEPT !.target = Least(Len(result.listed), s.max)]
           job == [s.job EXCEPT !.status = status, !.found = Len(result.listed), !.result = new]
<1>1. Len(result.listed) \in Nat /\ s.max \in Nat /\ s.job \in JobType
  BY LenProperties DEF SessionType, ResultType
<1>2. Least(Len(result.listed), s.max) \in Nat /\ Least(Len(result.listed), s.max) <= Len(result.listed)
  BY <1>1, LeastType
<1>3. /\ new \in ResultType /\ new.listed = result.listed /\ new.next = result.next
      /\ new.target <= Len(result.listed)
  BY <1>2 DEF ResultType
<1> HIDE DEF new
<1>4. /\ job \in JobType /\ job.analyzed = s.job.analyzed /\ job.enough = s.job.enough
      /\ job.resolved = s.job.resolved /\ job.result = new
  BY <1>1, <1>3 DEF JobType
<1> HIDE DEF job
<1>5. Even(job)
  BY <1>3, <1>4 DEF Even
<1>6. Listing(s, status, result) = Flushed(s, job)
  BY DEF Listing, new, job
<1>7. QED BY <1>5, <1>6, FlushedInStep

LEMMA UnlockedEven == ASSUME NEW job, Even(job) PROVE Even(Unlocked(job))
BY DEF Unlocked, Even, JobType, ResultType

LEMMA FinalizedEven == ASSUME NEW job, Even(job) PROVE Even(Finalized(job))
<1> DEFINE target == IF job.result.target = 0 THEN job.analyzed ELSE job.result.target
           end == Least(Len(job.result.listed), target)
<1>1. target \in Nat /\ Len(job.result.listed) \in Nat
  BY LenProperties DEF JobType, ResultType, Even
<1> HIDE DEF target
<1>2. end \in Nat /\ end <= Len(job.result.listed)
  BY <1>1, LeastType
<1>3. FinalStatus(job) \in Statuses
  BY DEF FinalStatus, Statuses
<1>4. Finalized(job) = [Unlocked(job) EXCEPT !.status = FinalStatus(job), !.result.next = job.analyzed,
                           !.result.target = end]
  BY DEF Finalized, target
<1> HIDE DEF end
<1> DEFINE new == [job.result EXCEPT !.lock = "none", !.next = job.analyzed, !.target = end]
<1>5. /\ new \in ResultType /\ new.listed = job.result.listed
      /\ new.next = job.analyzed /\ new.target = end
  BY <1>2 DEF JobType, ResultType, Even
<1>6. Finalized(job) = [job EXCEPT !.status = FinalStatus(job), !.result = new]
  BY <1>4 DEF Unlocked, JobType, ResultType, Even
<1> HIDE DEF new
<1>7. /\ Finalized(job) \in JobType /\ Finalized(job).result = new
      /\ Finalized(job).analyzed = job.analyzed /\ Finalized(job).enough = job.enough
      /\ Finalized(job).resolved = job.resolved
  BY <1>3, <1>5, <1>6 DEF JobType, Even
<1>8. QED BY <1>2, <1>5, <1>7 DEF Even

LEMMA FailedEven ==
  ASSUME NEW s \in SessionType, Even(s.job), InStep(s)
  PROVE  Failed(s) \in SessionType /\ Even(Failed(s).job) /\ InStep(Failed(s))
<1> DEFINE job == [Unlocked(s.job) EXCEPT !.status = "failed"]
           t == Flushed(s, job)
<1>1. Even(job)
  <2>1. Even(Unlocked(s.job))
    BY UnlockedEven
  <2>2. QED BY <2>1 DEF Even, JobType, Statuses
<1> HIDE DEF job
<1>2. t \in SessionType /\ t.job = job /\ InStep(t)
  BY <1>1, FlushedInStep
<1>3. Failed(s) = [t EXCEPT !.dirty = @ \cup {"status"}]
  BY DEF Failed, job
<1> HIDE DEF t
<1>4. QED BY <1>1, <1>2, <1>3 DEF SessionType, InStep

\* The seasoned wallets of a batch are no more than its positions.
LEMMA BatchCounts ==
  ASSUME NEW s \in SessionType
  PROVE  /\ Cardinality(WalletsOf(s, Batch(s)) \cap Seasoned) \in Nat
         /\ Cardinality(WalletsOf(s, Batch(s)) \cap Seasoned) <= Cardinality(Batch(s))
<1> DEFINE B == Batch(s)
           W == WalletsOf(s, B)
           f == [i \in B |-> s.job.result.listed[i]]
<1>1. IsFiniteSet(B) /\ Cardinality(B) \in Nat
  BY BatchType, FS_Interval
<1>2. f \in [B -> W] /\ \A w \in W : \E i \in B : f[i] = w
  BY DEF WalletsOf
<1> HIDE DEF f, B, W
<1>3. f \in Surjection(B, W)
  BY <1>2 DEF Surjection
<1>4. IsFiniteSet(W) /\ Cardinality(W) <= Cardinality(B)
  BY <1>1, <1>3, FS_Surjection
<1>5. IsFiniteSet(W \cap Seasoned) /\ Cardinality(W \cap Seasoned) <= Cardinality(W)
  BY <1>4, FS_Subset
<1>6. Cardinality(W) \in Nat /\ Cardinality(W \cap Seasoned) \in Nat
  BY <1>4, <1>5, FS_CardinalityType
<1>7. QED BY <1>1, <1>4, <1>5, <1>6 DEF B, W

LEMMA BatchIsListed ==
  ASSUME NEW s \in SessionType, Even(s.job), NEW positions \in SUBSET Batch(s)
  PROVE  WalletsOf(s, positions) \subseteq Wallet
<1>1. /\ s.job.result.target \in Nat /\ s.job.result.listed \in Seq(Wallet)
      /\ Len(s.job.result.listed) \in Nat /\ s.job.result.target <= Len(s.job.result.listed)
  BY LenProperties DEF SessionType, JobType, ResultType, Even
<1>2. \A i \in Batch(s) : i \in 1 .. Len(s.job.result.listed)
  BY <1>1, BatchType
<1>3. \A i \in 1 .. Len(s.job.result.listed) : s.job.result.listed[i] \in Wallet
  BY <1>1, ElementOfSeq
<1>4. QED BY <1>2, <1>3 DEF WalletsOf

\* A batch begins where the count of the analysed stands.
LEMMA AdvancedEven ==
  ASSUME NEW s \in SessionType, Even(s.job), s.job.resolved, Batch(s) # {}
  PROVE  Even(Advanced(s))
<1> DEFINE size == Cardinality(Batch(s))
           reached == Least(s.job.result.target, Cursor(s) + size)
           more == Cardinality(WalletsOf(s, Batch(s)) \cap Seasoned)
           enough == s.job.enough + more
<1>1. s.job \in JobType /\ s.job.result.target \in Nat /\ s.job.result.next \in Nat
      /\ s.job.enough \in Nat /\ s.job.analyzed \in Nat
  BY DEF SessionType, JobType, ResultType
<1>2. reached = Cursor(s) + size /\ reached \in Nat
  BY <1>1, BatchType DEF Least
<1>3. Cursor(s) = s.job.analyzed
  <2>1. PICK i : i \in Batch(s)
    OBVIOUS
  <2>2. Cursor(s) # s.job.result.target
    BY <1>1, <2>1, BatchType
  <2>3. QED BY <1>1, <2>2 DEF Cursor, Least, Even
<1>4. more \in Nat /\ more <= size /\ size \in Nat
  BY BatchCounts, BatchType
<1>5. Advanced(s) = [s.job EXCEPT !.status = "analyzing_wallets", !.analyzed = reached,
                       !.enough = enough, !.result.next = reached]
  BY <1>1 DEF Advanced, JobType
<1> HIDE DEF more, size, reached
<1>6. enough \in Nat /\ enough <= reached
  BY <1>1, <1>2, <1>3, <1>4 DEF Even
<1> HIDE DEF enough
<1> DEFINE new == [s.job.result EXCEPT !.next = reached]
<1>7. /\ new \in ResultType /\ new.next = reached
      /\ new.listed = s.job.result.listed /\ new.target = s.job.result.target
  BY <1>1, <1>2 DEF JobType, ResultType
<1>8. Advanced(s) = [s.job EXCEPT !.status = "analyzing_wallets", !.analyzed = reached,
                       !.enough = enough, !.result = new]
  BY <1>1, <1>5 DEF JobType
<1> HIDE DEF new
<1>9. /\ Advanced(s) \in JobType /\ Advanced(s).analyzed = reached /\ Advanced(s).enough = enough
      /\ Advanced(s).result = new /\ Advanced(s).resolved = s.job.resolved
  BY <1>1, <1>2, <1>6, <1>7, <1>8 DEF JobType, Statuses
<1>10. QED BY <1>6, <1>7, <1>9 DEF Even

-----------------------------------------------------------------------------
\* What the row and a session hold.
LEMMA SteadyHeld ==
  ASSUME Steady, NEW r \in Runner
  PROVE  /\ session[r] \in SessionType /\ session[r].job \in JobType /\ Even(session[r].job)
         /\ Even(row) /\ row \in JobType /\ row.result \in ResultType /\ session[r].job.result \in ResultType
         /\ session[r].at \notin Between => InStep(session[r])
         /\ session[r].at \in Between => session[r].dirty = {}
         /\ session[r].at = "analyze" => session[r].job.resolved
BY DEF Steady, Even, SessionType, JobType

LEMMA BeginSteady ==
  ASSUME Steady, NEW r \in Runner,
         Refresh(r) \/ \E max \in Maxima, limit \in Limits : Start(r, max, limit)
  PROVE  Steady'
<1>1. CASE Refresh(r)
  <2> DEFINE t == [session[r] EXCEPT !.job = row]
  <2>1. t \in SessionType /\ t.job = row
    BY SteadyHeld DEF SessionType
  <2>2. Goto(r, t, "locked") /\ UNCHANGED <<row, candidates>>
    BY <1>1 DEF Refresh
  <2> HIDE DEF t
  <2>3. Even(t.job) /\ InStep(t)
    BY <2>1, SteadyHeld DEF InStep
  <2>4. QED BY <2>1, <2>2, <2>3, GotoSteady
<1>2. ASSUME NEW max \in Maxima, NEW limit \in Limits, Start(r, max, limit) PROVE Steady'
  <2> DEFINE t == [Idle EXCEPT !.max = max, !.limit = limit, !.job = row]
  <2>1. t \in SessionType /\ t.job = row
    BY IdleType, Parameters, SteadyHeld DEF SessionType
  <2>2. Goto(r, t, "acquire") /\ UNCHANGED <<row, candidates>>
    BY <1>2 DEF Start, Goto, Idle
  <2> HIDE DEF t
  <2>3. Even(t.job) /\ InStep(t)
    BY <2>1, SteadyHeld DEF InStep
  <2>4. QED BY <2>1, <2>2, <2>3, GotoSteady
<1>3. QED BY <1>1, <1>2

LEMMA AcquireSteady ==
  ASSUME \A p, q \in Runner : p = q, Steady, NEW r \in Runner, Acquire(r)
  PROVE  Steady'
<1> DEFINE job == [session[r].job EXCEPT !.result.lock = "held"]
           s == Flushed(session[r], job)
           t == [s EXCEPT !.dirty = @ \cup {"result"}]
           u == [[t EXCEPT !.job = Idle.job, !.dirty = {}, !.adds = {}] EXCEPT !.at = "refresh"]
<1>1. Even(job)
  BY SteadyHeld DEF Even, JobType, ResultType
<1>2. row' = Written(t) /\ candidates' = candidates \cup t.adds /\ session' = [session EXCEPT ![r] = u]
  BY DEF Acquire, Goto
<1>3. session[r].at = "acquire"
  BY DEF Acquire
<1> HIDE DEF job
<1>4. s \in SessionType /\ s.job = job /\ InStep(s)
  BY <1>1, <1>3, SteadyHeld, FlushedInStep DEF Between
<1> HIDE DEF s
<1>5. t \in SessionType /\ t.job = job /\ InStep(t)
  BY <1>4 DEF SessionType, InStep
<1> HIDE DEF t
<1>6. u \in SessionType /\ u.job = NewJob(FALSE) /\ u.dirty = {} /\ u.at \in Between
  BY <1>5, IdleType DEF SessionType, Between
<1> HIDE DEF u
<1>7. QED BY <1>1, <1>2, <1>5, <1>6, CommitSteady

LEMMA EndSteady ==
  ASSUME \A p, q \in Runner : p = q, Steady, NEW r \in Runner, Commit(r) \/ Crash(r)
  PROVE  Steady'
<1>1. Idle \in SessionType /\ Idle.job = NewJob(FALSE) /\ Idle.dirty = {} /\ Idle.at \in Between /\ Idle.at = "idle"
  BY IdleType DEF Idle, Between
<1>2. CASE Commit(r)
  <2>1. /\ row' = Written(session[r]) /\ candidates' = candidates \cup session[r].adds
        /\ session' = [session EXCEPT ![r] = Idle] /\ session[r].at \notin Between
    BY <1>2 DEF Commit, Between
  <2> HIDE DEF Idle, Between
  <2>2. QED BY <1>1, <2>1, SteadyHeld, CommitSteady
<1>3. CASE Crash(r)
  <2>1. session' = [session EXCEPT ![r] = Idle] /\ row' = row /\ candidates' = candidates
    BY <1>3 DEF Crash
  <2>2. session' \in [Runner -> SessionType] /\ \A q \in Runner : session'[q] = IF q = r THEN Idle ELSE session[q]
    BY <1>1, <2>1 DEF Steady
  <2>3. Even(NewJob(FALSE))
    BY NewJobEven
  <2>4. \A q \in Runner : session'[q] = Idle
    BY <2>2
  <2> HIDE DEF Idle
  <2>5. QED BY <1>1, <2>1, <2>2, <2>3, <2>4 DEF Steady, Even, InStep
<1>4. QED BY <1>2, <1>3

LEMMA LockedSteady ==
  ASSUME Steady, NEW r \in Runner, FailUnresolved(r) \/ Discover(r) \/ Reuse(r)
  PROVE  Steady'
<1> DEFINE s == session[r]
<1>1. s \in SessionType /\ s.job \in JobType /\ Even(s.job) /\ InStep(s) /\ UNCHANGED <<row, candidates>>
  <2>1. s.at \notin Between
    BY DEF FailUnresolved, Discover, Reuse, Between
  <2>2. QED BY <2>1, SteadyHeld DEF FailUnresolved, Discover, Reuse
<1>2. CASE FailUnresolved(r)
  <2> DEFINE job == [s.job EXCEPT !.status = "failed", !.result = NoState]
  <2>1. ~s.job.resolved /\ Goto(r, Flushed(s, job), "commit")
    BY <1>2 DEF FailUnresolved
  <2>2. NoState \in ResultType /\ NoState.next = 0 /\ NoState.target = 0 /\ NoState.listed = <<>>
    BY NewJobType DEF NewJob, JobType, NoState
  <2> HIDE DEF s, NoState
  <2>3. /\ job \in JobType /\ job.result = NoState /\ job.enough = s.job.enough /\ job.analyzed = s.job.analyzed
    BY <1>1, <2>2 DEF JobType, Statuses
  <2>4. s.job.analyzed = 0 /\ s.job.enough <= 0 /\ Len(<<>>) = 0
    BY <1>1, <2>1 DEF Even
  <2>5. Even(job)
    BY <2>2, <2>3, <2>4 DEF Even
  <2> HIDE DEF job
  <2>6. QED BY <1>1, <2>1, <2>5, FlushedInStep, GotoSteady
<1>3. CASE Discover(r)
  <2>1. PICK ranking \in Rankings \cup {<<>>}, more \in BOOLEAN :
          Goto(r, Listing(s, "discovering_wallets",
                 [s.job.result EXCEPT !.listed = Top(ranking, s.limit), !.more = more,
                    !.limit = s.limit, !.next = s.job.analyzed]), "analyze")
    BY <1>3 DEF Discover
  <2> DEFINE listed == Top(ranking, s.limit)
             result == [s.job.result EXCEPT !.listed = listed, !.more = more, !.limit = s.limit,
                          !.next = s.job.analyzed]
             t == Listing(s, "discovering_wallets", result)
  <2>2. ranking \in Seq(Wallet)
    <3>1. CASE ranking \in Rankings
      BY <3>1, Parameters
    <3>2. CASE ranking = <<>>
      BY <3>2
    <3>3. QED BY <3>1, <3>2
  <2>3. s.limit \in Nat /\ s.job.analyzed \in Nat /\ s.job.result \in ResultType
    BY <1>1 DEF SessionType, JobType
  <2>4. listed \in Seq(Wallet)
    BY <2>2, <2>3, TopType
  <2> HIDE DEF listed
  <2>5. result \in ResultType /\ result.next = s.job.analyzed
    BY <2>3, <2>4 DEF ResultType
  <2>6. Goto(r, t, "analyze")
    BY <2>1 DEF listed
  <2> HIDE DEF result
  <2>7. s.job.resolved
    BY <1>3 DEF Discover
  <2>8. "discovering_wallets" \in Statuses
    BY DEF Statuses
  <2>9. t.job.resolved
    <3>1. t.job.resolved = s.job.resolved
      <4> DEFINE job == [s.job EXCEPT !.status = "discovering_wallets", !.found = Len(result.listed),
                           !.result = [result EXCEPT !.target = Least(Len(result.listed), s.max)]]
      <4>1. t.job = job
        BY DEF Listing, Flushed, SessionType, s, t
      <4>2. QED BY <1>1, <4>1 DEF JobType
    <3>2. QED BY <2>7, <3>1
  <2> HIDE DEF s
  <2>10. t \in SessionType /\ Even(t.job) /\ InStep(t)
    BY <1>1, <2>5, <2>8, ListingEven
  <2> HIDE DEF t
  <2>11. QED BY <1>1, <2>6, <2>9, <2>10, GotoSteady
<1>4. CASE Reuse(r)
  <2> DEFINE t == Listing(s, s.job.status, s.job.result)
             u == [t EXCEPT !.dirty = @ \cup {"result"}]
  <2>1. s.job.status \in Statuses /\ s.job.result \in ResultType /\ s.job.result.next = s.job.analyzed
    BY <1>1 DEF JobType, Even
  <2>2. Goto(r, u, "analyze") /\ s.job.resolved
    BY <1>4 DEF Reuse
  <2>3. t.job.resolved = s.job.resolved
    <3> DEFINE job == [s.job EXCEPT !.status = s.job.status, !.found = Len(s.job.result.listed),
                         !.result = [s.job.result EXCEPT !.target = Least(Len(s.job.result.listed), s.max)]]
    <3>1. t.job = job
      BY <1>1 DEF Listing, Flushed, SessionType
    <3>2. QED BY <1>1, <3>1 DEF JobType
  <2> HIDE DEF s
  <2>4. t \in SessionType /\ Even(t.job) /\ InStep(t)
    BY <1>1, <2>1, ListingEven
  <2> HIDE DEF t
  <2>5. u \in SessionType /\ u.job = t.job /\ InStep(u)
    BY <2>4 DEF SessionType, InStep
  <2> HIDE DEF u
  <2>6. QED BY <1>1, <2>2, <2>3, <2>4, <2>5, GotoSteady
<1>5. QED BY <1>2, <1>3, <1>4

LEMMA AnalyzeSteady ==
  ASSUME Steady, NEW r \in Runner, NothingToExpand(r) \/ NothingToAnalyze(r) \/ AnalyzeBatch(r)
  PROVE  Steady'
<1> DEFINE s == session[r]
<1>1. /\ s \in SessionType /\ s.job \in JobType /\ Even(s.job) /\ InStep(s) /\ s.job.resolved
      /\ UNCHANGED <<row, candidates>>
  <2>1. s.at = "analyze" /\ s.at \notin Between
    BY DEF NothingToExpand, NothingToAnalyze, AnalyzeBatch, Between
  <2>2. QED BY <2>1, SteadyHeld DEF NothingToExpand, NothingToAnalyze, AnalyzeBatch
<1>2. CASE NothingToExpand(r)
  <2>1. Goto(r, Flushed(s, Unlocked(s.job)), "commit")
    BY <1>2 DEF NothingToExpand
  <2> HIDE DEF s
  <2>2. Even(Unlocked(s.job))
    BY <1>1, UnlockedEven
  <2>3. QED BY <1>1, <2>1, <2>2, FlushedInStep, GotoSteady
<1>3. CASE NothingToAnalyze(r)
  BY <1>1, <1>3, GotoSteady DEF NothingToAnalyze
<1>4. CASE AnalyzeBatch(r)
  <2> DEFINE new == Flushed(s, Advanced(s))
             t == [new EXCEPT !.adds = @ \cup WalletsOf(s, Batch(s))]
             u == Flushed(t, Unlocked(t.job))
  <2>1. /\ Batch(s) # {}
        /\ IF t.job.result.next < t.job.result.target
           THEN Goto(r, u, IF r \in Loop THEN "acquire" ELSE "commit")
           ELSE Goto(r, t, "finalize")
    BY <1>4 DEF AnalyzeBatch
  <2> HIDE DEF s
  <2>2. Even(Advanced(s)) /\ WalletsOf(s, Batch(s)) \subseteq Wallet
    BY <1>1, <2>1, AdvancedEven, BatchIsListed
  <2>3. new \in SessionType /\ new.job = Advanced(s) /\ InStep(new)
    BY <1>1, <2>2, FlushedInStep
  <2> HIDE DEF new
  <2>4. t \in SessionType /\ t.job = Advanced(s) /\ InStep(t)
    BY <2>2, <2>3 DEF SessionType, InStep
  <2> HIDE DEF t
  <2>5. Even(t.job) /\ Even(Unlocked(t.job))
    BY <2>2, <2>4, UnlockedEven
  <2>6. u \in SessionType /\ Even(u.job) /\ InStep(u)
    BY <2>4, <2>5, FlushedInStep
  <2> HIDE DEF u
  <2>7. QED BY <1>1, <2>1, <2>4, <2>5, <2>6, GotoSteady
<1>5. QED BY <1>2, <1>3, <1>4

LEMMA OutcomeSteady ==
  ASSUME Steady, NEW r \in Runner, Finalize(r) \/ Fail(r)
  PROVE  Steady'
<1> DEFINE s == session[r]
<1>1. s \in SessionType /\ Even(s.job) /\ InStep(s) /\ UNCHANGED <<row, candidates>>
  <2>1. s.at \notin Between
    BY DEF Finalize, Fail, FailDiscovery, FailAnalysis, FailFinalize, Between
  <2>2. QED BY <2>1, SteadyHeld DEF Finalize, Fail, FailDiscovery, FailAnalysis, FailFinalize
<1>2. CASE Finalize(r)
  <2> DEFINE t == Flushed(s, Finalized(s.job))
             u == [t EXCEPT !.dirty = @ \cup {"status"}]
  <2>1. Goto(r, u, "commit")
    BY <1>2 DEF Finalize
  <2> HIDE DEF s
  <2>2. Even(Finalized(s.job))
    BY <1>1, FinalizedEven
  <2>3. t \in SessionType /\ t.job = Finalized(s.job) /\ InStep(t)
    BY <1>1, <2>2, FlushedInStep
  <2> HIDE DEF t
  <2>4. u \in SessionType /\ u.job = t.job /\ InStep(u)
    BY <2>3 DEF SessionType, InStep
  <2> HIDE DEF u
  <2>5. QED BY <1>1, <2>1, <2>2, <2>3, <2>4, GotoSteady
<1>3. CASE FailDiscovery(r)
  BY <1>1, <1>3, FailedEven, GotoSteady DEF FailDiscovery
<1>4. CASE FailAnalysis(r)
  <2>1. PICK batch \in Batch(s) :
          Goto(r, Failed([s EXCEPT !.adds = @ \cup WalletsOf(s, {i \in Batch(s) : i < batch})]), "commit")
    BY <1>4 DEF FailAnalysis
  <2> DEFINE analysed == WalletsOf(s, {i \in Batch(s) : i < batch})
             t == [s EXCEPT !.adds = @ \cup analysed]
  <2>2. analysed \subseteq Wallet
    <3> HIDE DEF s
    <3>1. QED BY <1>1, BatchIsListed
  <2> HIDE DEF analysed
  <2>3. t \in SessionType /\ t.job = s.job /\ InStep(t)
    BY <1>1, <2>2 DEF SessionType, InStep
  <2>4. Goto(r, Failed(t), "commit")
    BY <2>1 DEF analysed
  <2> HIDE DEF t
  <2>5. Failed(t) \in SessionType /\ Even(Failed(t).job) /\ InStep(Failed(t))
    BY <1>1, <2>3, FailedEven
  <2>6. QED BY <1>1, <2>4, <2>5, GotoSteady
<1>5. CASE FailFinalize(r)
  <2>1. PICK reached \in {s.job, Finalized(s.job)} : Goto(r, Failed(Flushed(s, reached)), "commit")
    BY <1>5 DEF FailFinalize
  <2> HIDE DEF s
  <2>2. Even(reached)
    BY <1>1, FinalizedEven
  <2> DEFINE t == Flushed(s, reached)
  <2>3. t \in SessionType /\ Even(t.job) /\ InStep(t)
    BY <1>1, <2>2, FlushedInStep
  <2>4. Goto(r, Failed(t), "commit")
    BY <2>1
  <2> HIDE DEF t
  <2>5. QED BY <1>1, <2>3, <2>4, FailedEven, GotoSteady
<1>6. QED BY <1>2, <1>3, <1>4, <1>5 DEF Fail

LEMMA ExpireSteady == ASSUME Steady, Expire PROVE Steady'
<1> DEFINE result == [row.result EXCEPT !.lock = "expired"]
<1>1. row \in JobType /\ Even(row)
  BY DEF Steady, Even
<1>2. /\ result \in ResultType /\ result.next = row.result.next
      /\ result.target = row.result.target /\ result.listed = row.result.listed
  BY <1>1 DEF JobType, ResultType
<1>3. row' = [row EXCEPT !.result = result] /\ UNCHANGED <<candidates, session>>
  BY DEF Expire
<1> HIDE DEF result
<1>4. /\ row' \in JobType /\ row'.result = result /\ row'.resolved = row.resolved
      /\ row'.analyzed = row.analyzed /\ row'.enough = row.enough
  BY <1>1, <1>2, <1>3 DEF JobType
<1>5. Even(row')
  BY <1>1, <1>2, <1>4 DEF Even
<1>6. row'.result.next = row.result.next
  BY <1>2, <1>4
<1>7. QED BY <1>3, <1>4, <1>5, <1>6 DEF Steady, Even, InStep

\* The count of wallets with enough history stays within the count of the analysed, whatever
\* locks expire, batches fail and processes die, while one runner at a time works on the job
\* (run_wallet_analysis_job_batch).
THEOREM EnoughAreAnalyzed ==
  ASSUME \A p, q \in Runner : p = q
  PROVE  Spec => []EnoughWithinAnalyzed
<1>1. Init => Steady
  <2> SUFFICES ASSUME Init PROVE Steady
    OBVIOUS
  <2>1. PICK resolved \in BOOLEAN : row = NewJob(resolved)
    BY DEF Init
  <2>2. \A b \in BOOLEAN : Even(NewJob(b))
    BY NewJobEven
  <2>3. session = [r \in Runner |-> Idle] /\ candidates = {}
    BY DEF Init
  <2>4. Idle \in SessionType /\ Idle.job = NewJob(FALSE) /\ Idle.dirty = {} /\ Idle.at = "idle"
    BY IdleType DEF Idle
  <2> HIDE DEF Idle
  <2>5. QED BY <2>1, <2>2, <2>3, <2>4 DEF Steady, Between
<1>2. Steady /\ [Next]_vars => Steady'
  <2> SUFFICES ASSUME Steady, [Next]_vars PROVE Steady'
    OBVIOUS
  <2>1. CASE UNCHANGED vars
    BY <2>1 DEF vars, Steady, Even, InStep
  <2>2. CASE Expire
    BY <2>2, ExpireSteady
  <2>3. ASSUME NEW r \in Runner, NEW max \in Maxima, NEW limit \in Limits, Start(r, max, limit)
        PROVE  Steady'
    BY <2>3, BeginSteady
  <2>4. ASSUME NEW r \in Runner, Step(r)
        PROVE  Steady'
    BY <2>4, AcquireSteady, BeginSteady, LockedSteady, AnalyzeSteady, OutcomeSteady, EndSteady DEF Step
  <2>5. ASSUME NEW r \in Runner, Fail(r) \/ Crash(r)
        PROVE  Steady'
    BY <2>5, OutcomeSteady, EndSteady
  <2>6. QED BY <2>1, <2>2, <2>3, <2>4, <2>5 DEF Next
<1>3. Steady => EnoughWithinAnalyzed
  BY DEF Steady, Even, EnoughWithinAnalyzed
<1>4. QED BY <1>1, <1>2, <1>3, PTL DEF Spec
===============================================================================
